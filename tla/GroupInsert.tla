---------------------------- MODULE GroupInsert ------------------------------
(***************************************************************************)
(* The insertion protocol of a cooperative group on one open-addressed     *)
(* table, shared by the flat table (HTUVM), the two-level table (HTOVS)    *)
(* and the k-mer counters: ballot on a window, then one atomicCAS per free *)
(* lane, lowest lane first.                                                *)
(***************************************************************************)
EXTENDS ProbeSequence

CONSTANTS
  Keys,       \* the keys of the traces
  Values,     \* the values of the traces
  BatchSize,  \* gpuBatchSize: the most operations of one kernel
  Tables,     \* the tables a key can go to
  TableOf,    \* TableOf[k]: the table k goes to
  Home,       \* Home[k]: the slot the hash of k selects
  Tombstone   \* TOMBSTONE_KEY and TOMBSTONE_VALUE

\* The groups of a kernel: group g runs operation g of the batch.
Groups == 1 .. BatchSize

Sentinel == 0 \* SENTINEL_KEY and SENTINEL_VALUE

ASSUME InsertAssumption ==
  /\ BatchSize \in Nat
  /\ Keys \subseteq Nat \ {Tombstone}
  /\ Values \subseteq Nat \ {Sentinel}
  /\ Tombstone \in Nat \ {Sentinel}
  /\ TableOf \in [Keys -> Tables]
  /\ Home \in [Keys -> Slots]

VARIABLES
  keyAt,      \* keyAt[t][s]: the key word of slot s of table t
  valAt,      \* valAt[t][s]: its value word
  oldKeyAt,   \* keyAt when the running kernel started: a plain load of a
              \* word that another group writes may still return it
  pc,         \* pc[g]: the next step of group g
  op,         \* op[g]: the operation of group g
  win,        \* win[g]: the window group g is at
  emptyMask,  \* emptyMask[g]: the lanes whose slot is still to be tried
  addr        \* addr[g]: the slot whose value address the insert returned

insertVars == <<keyAt, valAt, oldKeyAt, pc, op, win, emptyMask, addr>>

KeyWords == Keys \cup {Sentinel, Tombstone}

\* The table group g works on, and the slot its lane r looks at.
GroupTable(g) == TableOf[op[g].key]
LaneSlot(g, r) == SlotAt(Home[op[g].key], win[g], r)

GoTo(g, to) == pc' = [pc EXCEPT ![g] = to]

\* Mutant of NextWindow: the slot index is not advanced.
NextWindowStays(g, giveUp) == GoTo(g, "probe") /\ UNCHANGED win

\* pos++ and the test that ends the loop: the insert returns a null address
\* once the last window is behind.
NextWindow(g, giveUp) ==
  /\ win' = [win EXCEPT ![g] = @ + 1]
  /\ GoTo(g, IF win[g] + 1 \in Windows THEN "probe" ELSE giveUp)

-----------------------------------------------------------------------------
\* Each lane still in the loop loads its slot and the group ballots.  A lane
\* may see the word the slot holds now or the one it held when the kernel
\* started.
Ballot(g, giveUp) ==
  LET t == GroupTable(g)
      k == op[g].key
      lanes == InsertLanes[win[g]]
  IN  /\ pc[g] = "probe"
      /\ \E seen \in [lanes -> KeyWords] :
           /\ \A r \in lanes :
                seen[r] \in {keyAt[t][LaneSlot(g, r)],
                            oldKeyAt[t][LaneSlot(g, r)]}
           /\ \/ \E r \in lanes :
                   /\ seen[r] = k
                   /\ \A q \in lanes : q < r => seen[q] # k
                   /\ addr' = [addr EXCEPT ![g] = LaneSlot(g, r)]
                   /\ GoTo(g, "store")
                   /\ UNCHANGED <<win, emptyMask>>
              \/ /\ \A r \in lanes : seen[r] # k
                 /\ emptyMask' = [emptyMask EXCEPT ![g] =
                                    {r \in lanes : seen[r] = Sentinel}]
                 /\ IF \E r \in lanes : seen[r] = Sentinel
                      THEN GoTo(g, "claim") /\ UNCHANGED win
                      ELSE NextWindow(g, giveUp)
                 /\ UNCHANGED addr
      /\ UNCHANGED <<keyAt, valAt, oldKeyAt, op>>

\* Mutant of Leader: any lane with a free slot.
AnyLane(g, r) == r \in emptyMask[g]

\* leader = __ffs(empty_mask) - 1: the lowest lane left in the mask.
Leader(g, r) == r \in emptyMask[g] /\ \A q \in emptyMask[g] : r <= q

\* Mutants of Duplicate: no test, and "the CAS failed" for the test.
NoDuplicate(word, k) == FALSE
AnyKeyIsDuplicate(word, k) == word # Sentinel

\* duplicate = (old == key): another group has put the same key there.
Duplicate(word, k) == word = k

\* The leader tries to put the key into its slot.  won: where a successful
\* CAS continues.
Claim(g, won, giveUp) ==
  LET t == GroupTable(g)
      k == op[g].key
  IN  /\ pc[g] = "claim"
      /\ \E r \in emptyMask[g] :
           LET s == LaneSlot(g, r)
               word == keyAt[t][s]
           IN  /\ Leader(g, r)
               /\ \/ /\ word = Sentinel
                     /\ keyAt' = [keyAt EXCEPT ![t][s] = k]
                     /\ addr' = [addr EXCEPT ![g] = s]
                     /\ GoTo(g, won)
                     /\ UNCHANGED <<win, emptyMask>>
                  \/ /\ Duplicate(word, k)
                     /\ addr' = [addr EXCEPT ![g] = s]
                     /\ GoTo(g, "store")
                     /\ UNCHANGED <<keyAt, win, emptyMask>>
                  \/ /\ word # Sentinel /\ ~Duplicate(word, k)
                     /\ emptyMask' = [emptyMask EXCEPT ![g] = @ \ {r}]
                     /\ IF emptyMask[g] = {r} THEN NextWindow(g, giveUp)
                                              ELSE UNCHANGED <<win, pc>>
                     /\ UNCHANGED <<keyAt, addr>>
      /\ UNCHANGED <<valAt, oldKeyAt, op>>

\* Mutants of StoreValue: only the first insert of a key stores its value; the
\* key is stored for the value.
StoreFirst(g) ==
  /\ pc[g] = "store"
  /\ valAt' = IF valAt[GroupTable(g)][addr[g]] = Sentinel
                THEN [valAt EXCEPT ![GroupTable(g)][addr[g]] = op[g].value]
                ELSE valAt
  /\ GoTo(g, "idle")
  /\ UNCHANGED <<keyAt, oldKeyAt, op, win, emptyMask, addr>>

StoreKey(g) ==
  /\ pc[g] = "store"
  /\ valAt' = [valAt EXCEPT ![GroupTable(g)][addr[g]] = op[g].key]
  /\ GoTo(g, "idle")
  /\ UNCHANGED <<keyAt, oldKeyAt, op, win, emptyMask, addr>>

\* Rank 0 stores the value through the address, with a plain store.
StoreValue(g) ==
  /\ pc[g] = "store"
  /\ valAt' = [valAt EXCEPT ![GroupTable(g)][addr[g]] = op[g].value]
  /\ GoTo(g, "idle")
  /\ UNCHANGED <<keyAt, oldKeyAt, op, win, emptyMask, addr>>

-----------------------------------------------------------------------------
\* The keys a table holds.
Holds(t, k) == \E s \in Slots : keyAt[t][s] = k

\* (w, r) comes before (v, q) in the order in which a group tries slots.
Before(w, r, v, q) == w < v \/ (w = v /\ r < q)

(***************************************************************************)
(* No hole: a key sits where a scan from its home reaches it without       *)
(* passing a free slot.  Reads stop at the first window with a free slot,  *)
(* so this is what every lookup and delete relies on; it must survive      *)
(* groups that race for the same slots.                                    *)
(***************************************************************************)
NoHole ==
  \A t \in Tables, s \in Slots :
    keyAt[t][s] \in Keys =>
      \E w \in Windows : \E r \in InsertLanes[w] :
        LET home == Home[keyAt[t][s]]
        IN  /\ s = SlotAt(home, w, r)
            /\ \A v \in Windows : \A q \in InsertLanes[v] :
                 Before(v, q, w, r) => keyAt[t][SlotAt(home, v, q)] # Sentinel

(***************************************************************************)
(* No two slots hold the same key, however many groups insert it at once:  *)
(* the duplicate test after a failed CAS and the order of the lanes have   *)
(* to be right for this.                                                   *)
(***************************************************************************)
OneSlotPerKey ==
  \A t \in Tables : \A s1, s2 \in Slots :
    keyAt[t][s1] = keyAt[t][s2] /\ keyAt[t][s1] \in Keys => s1 = s2

(***************************************************************************)
(* A value address stays the address of the key it was handed out for      *)
(* until the store: nobody reuses the slot in between.                     *)
(***************************************************************************)
ValueAddressIsOfKey ==
  \A g \in Groups :
    pc[g] \in {"count", "store"} =>
      keyAt[GroupTable(g)][addr[g]] = op[g].key
=============================================================================
