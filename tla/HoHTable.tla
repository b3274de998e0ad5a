------------------------------ MODULE HoHTable -------------------------------
(***************************************************************************)
(* The two-level hash table HTOVS (gpu_part_batch_HoH_CG.cuh) and the      *)
(* driver that runs it: an outer table with one slot per key range, each   *)
(* with an inner table of its own and a count of its keys.  The host runs  *)
(* insert kernels, then delete kernels, then search kernels, one batch at  *)
(* a time, and waits for each; inside a kernel every operation of the      *)
(* batch is one cooperative group and the groups interleave freely.        *)
(*                                                                         *)
(* The drivers give the outer table at least one slot per range            *)
(* (bitmap_size = ceil(UINT32_MAX / rangeSize)), so that every range has   *)
(* an outer slot of its own, named here by the range; the outer collision  *)
(* path cannot be taken.                                                   *)
(***************************************************************************)
EXTENDS BatchDriver, FiniteSets

CONSTANTS
  RangeSize,   \* rangeSize: consecutive keys that share an inner table
  CounterMod   \* unique_keys is unsigned and wraps at this value

ASSUME HoHAssumption ==
  /\ Stride = GroupSize
  /\ RangeSize \in Nat \ {0}
  /\ CounterMod \in Nat /\ Capacity < CounterMod
  /\ TableOf = [k \in Keys |-> (k \div RangeSize) + 1]
  /\ Tables \subseteq Nat \ {0}

VARIABLES
  range,      \* range[t]: the range an outer slot holds, 0 when it is free
  oldRange,   \* range when the running kernel started (stale plain loads)
  unique,     \* unique[t]: unique_keys of the outer slot
  pastUnique, \* the values unique[t] had since the kernel started: what a
              \* plain load of it may return
  loaded,     \* loaded[g]: the value a decrement has loaded
  hitLane,    \* hitLane[g]: the lane whose slot held the key to delete
  freeCheck   \* freeCheck[g]: the outer leader of g has still to look at the
              \* count and return the status

countVars == <<unique, pastUnique, loaded>>
vars == <<insertVars, hostVars, resultVars, countVars, range, oldRange,
          hitLane, freeCheck>>

RangeWords == {0} \cup Tables

NoLane == GroupSize \* hitLane of a group that found nothing

Init ==
  /\ DriverInit
  /\ range = [t \in Tables |-> 0]
  /\ oldRange = range
  /\ unique = [t \in Tables |-> 0]
  /\ pastUnique = [t \in Tables |-> {0}]
  /\ loaded = [g \in Groups |-> 0]
  /\ hitLane = [g \in Groups |-> NoLane]
  /\ freeCheck = [g \in Groups |-> FALSE]

-----------------------------------------------------------------------------
(* The host: it launches a kernel when the last one is over.               *)

Quiet == \A g \in Groups : pc[g] = "idle" /\ ~freeCheck[g]

\* What a new kernel's loads can return, and its groups' private state.
FreshKernel ==
  /\ Quiet
  /\ oldRange' = range
  /\ pastUnique' = [t \in Tables |-> {unique[t]}]
  /\ hitLane' = [g \in Groups |-> NoLane]
  /\ UNCHANGED <<range, unique, loaded, freeCheck>>

LaunchInsert == FreshKernel /\ InsertBatch("range")
LaunchDelete == FreshKernel /\ DeleteBatch("delRange")
LaunchSearch == FreshKernel /\ SearchBatch("search")

-----------------------------------------------------------------------------
(* Insert kernel: claim the outer slot, then insert into its inner table.  *)

insertOnly == <<range, oldRange, countVars, hitLane, freeCheck, hostVars,
                resultVars>>

ReadRange(g) ==
  LET t == GroupTable(g)
  IN  /\ pc[g] = "range"
      /\ \E seen \in {range[t], oldRange[t]} :
           GoTo(g, IF seen = t THEN "probe" ELSE "claimRange")
      /\ UNCHANGED <<keyAt, valAt, oldKeyAt, op, win, emptyMask, addr,
                     insertOnly>>

\* Mutant of ClaimRange: the key is written for the range.
ClaimRangeWithKey(g) ==
  LET t == GroupTable(g)
  IN  /\ pc[g] = "claimRange"
      /\ range' = [range EXCEPT ![t] = IF @ = 0 THEN op[g].key ELSE @]
      /\ GoTo(g, "probe")
      /\ UNCHANGED <<keyAt, valAt, oldKeyAt, op, win, emptyMask, addr,
                     oldRange, countVars, hitLane, freeCheck, hostVars,
                     resultVars>>

\* atomicCAS from 0; an earlier claim of the same range is as good.
ClaimRange(g) ==
  LET t == GroupTable(g)
  IN  /\ pc[g] = "claimRange"
      /\ range' = [range EXCEPT ![t] = IF @ = 0 THEN t ELSE @]
      /\ GoTo(g, "probe")
      /\ UNCHANGED <<keyAt, valAt, oldKeyAt, op, win, emptyMask, addr,
                     oldRange, countVars, hitLane, freeCheck, hostVars,
                     resultVars>>

InsertBallot(g) == Ballot(g, "idle") /\ UNCHANGED insertOnly

\* Mutant of InsertClaim: a slot that was won is not counted.
InsertClaimUncounted(g) == Claim(g, "store", "idle") /\ UNCHANGED insertOnly

InsertClaim(g) == Claim(g, "count", "idle") /\ UNCHANGED insertOnly

\* Mutant of AddUnique: a plain increment.
AddUniquePlain(g) ==
  LET t == GroupTable(g)
  IN  /\ pc[g] = "count"
      /\ \E old \in pastUnique[t] :
           LET n == (old + 1) % CounterMod
           IN  /\ unique' = [unique EXCEPT ![t] = n]
               /\ pastUnique' = [pastUnique EXCEPT ![t] = @ \cup {n}]
      /\ GoTo(g, "store")
      /\ UNCHANGED <<keyAt, valAt, oldKeyAt, op, win, emptyMask, addr,
                     range, oldRange, loaded, hitLane, freeCheck, hostVars,
                     resultVars>>

\* The lane whose CAS succeeded adds one to unique_keys, atomically.  Rank 0
\* may store the value before that: no group of this kernel reads either.
AddUnique(g) ==
  LET t == GroupTable(g)
      n == (unique[t] + 1) % CounterMod
  IN  /\ pc[g] = "count"
      /\ unique' = [unique EXCEPT ![t] = n]
      /\ pastUnique' = [pastUnique EXCEPT ![t] = @ \cup {n}]
      /\ GoTo(g, "store")
      /\ UNCHANGED <<keyAt, valAt, oldKeyAt, op, win, emptyMask, addr,
                     range, oldRange, loaded, hitLane, freeCheck, hostVars,
                     resultVars>>

InsertStore(g) == StoreValue(g) /\ UNCHANGED insertOnly

-----------------------------------------------------------------------------
(* Delete kernel.                                                          *)

deleteFixed == <<oldKeyAt, op, win, emptyMask, oldRange, hostVars,
                 srchValue>>

\* The outer slot is looked up first; a free one means "not found".
DeleteRange(g) ==
  LET t == GroupTable(g)
  IN  /\ pc[g] = "delRange"
      /\ \E seen \in {range[t], oldRange[t]} :
           GoTo(g, IF seen = t THEN "delScan" ELSE "idle")
      /\ UNCHANGED <<deleteFixed, keyAt, valAt, addr, range, countVars,
                     hitLane, freeCheck, delStatus>>

\* The scan of the inner table up to the ballot that ends it.  Of the slots
\* it reads, other groups only change those with the key itself, from the
\* key to a tombstone, so one step that sees that slot as it is now or as it
\* was at launch is as good as a read per window.  Without a hit, the outer
\* leader (lane 0) goes on to the count.
DeleteScan(g) ==
  LET t == GroupTable(g)
      k == op[g].key
  IN  /\ pc[g] = "delScan"
      /\ \E cells \in {keyAt[t], oldKeyAt[t]} :
           LET hits == Hits(cells, Home[k], k, Sentinel, EarlyLanes)
           IN  \/ \E p \in hits :
                    /\ addr' = [addr EXCEPT ![g] = SlotAt(Home[k], p[1], p[2])]
                    /\ hitLane' = [hitLane EXCEPT ![g] = p[2]]
                    /\ freeCheck' = [freeCheck EXCEPT ![g] = p[2] # 0]
                    /\ GoTo(g, "tombstone")
               \/ /\ hits = {}
                  /\ freeCheck' = [freeCheck EXCEPT ![g] = TRUE]
                  /\ GoTo(g, "idle")
                  /\ UNCHANGED <<addr, hitLane>>
      /\ UNCHANGED <<deleteFixed, keyAt, valAt, range, countVars,
                     delStatus>>

\* Mutant of WriteTombstone: the slot is set free.
WriteFree(g) ==
  LET t == GroupTable(g)
  IN  /\ pc[g] = "tombstone"
      /\ keyAt' = [keyAt EXCEPT ![t][addr[g]] = Sentinel]
      /\ valAt' = [valAt EXCEPT ![t][addr[g]] = Sentinel]
      /\ GoTo(g, "loadCount")
      /\ UNCHANGED <<deleteFixed, addr, range, countVars, hitLane,
                     freeCheck, delStatus>>

\* The lane that sees the key overwrites the slot, key word and value word,
\* with plain stores (nobody reads a value in this kernel), and then takes one
\* from unique_keys with a plain load and a plain store.
WriteTombstone(g) ==
  LET t == GroupTable(g)
  IN  /\ pc[g] = "tombstone"
      /\ keyAt' = [keyAt EXCEPT ![t][addr[g]] = Tombstone]
      /\ valAt' = [valAt EXCEPT ![t][addr[g]] = Tombstone]
      /\ GoTo(g, "loadCount")
      /\ UNCHANGED <<deleteFixed, addr, range, countVars, hitLane,
                     freeCheck, delStatus>>

LoadCount(g) ==
  /\ pc[g] = "loadCount"
  /\ \E n \in pastUnique[GroupTable(g)] : loaded' = [loaded EXCEPT ![g] = n]
  /\ GoTo(g, "storeCount")
  /\ UNCHANGED <<deleteFixed, keyAt, valAt, addr, range, unique, pastUnique,
                 hitLane, freeCheck, delStatus>>

LessOne(n) == (n + CounterMod - 1) % CounterMod

\* Mutant of StoreCount: the decrement is done twice.
StoreCountTwice(g) ==
  LET t == GroupTable(g)
      n == LessOne(LessOne(loaded[g]))
  IN  /\ pc[g] = "storeCount"
      /\ unique' = [unique EXCEPT ![t] = n]
      /\ pastUnique' = [pastUnique EXCEPT ![t] = @ \cup {n}]
      /\ freeCheck' = [freeCheck EXCEPT ![g] = @ \/ hitLane[g] = 0]
      /\ GoTo(g, "idle")
      /\ UNCHANGED <<deleteFixed, keyAt, valAt, addr, range, loaded, hitLane,
                     delStatus>>

\* Mutant of StoreCount: the lane that hit does not go on, be it lane 0 or not.
StoreCountLast(g) ==
  LET t == GroupTable(g)
      n == LessOne(loaded[g])
  IN  /\ pc[g] = "storeCount"
      /\ unique' = [unique EXCEPT ![t] = n]
      /\ pastUnique' = [pastUnique EXCEPT ![t] = @ \cup {n}]
      /\ GoTo(g, "idle")
      /\ UNCHANGED <<deleteFixed, keyAt, valAt, addr, range, loaded, hitLane,
                     freeCheck, delStatus>>

\* When the lane that hit is lane 0, it now goes on as the outer leader.
StoreCount(g) ==
  LET t == GroupTable(g)
      n == LessOne(loaded[g])
  IN  /\ pc[g] = "storeCount"
      /\ unique' = [unique EXCEPT ![t] = n]
      /\ pastUnique' = [pastUnique EXCEPT ![t] = @ \cup {n}]
      /\ freeCheck' = [freeCheck EXCEPT ![g] = @ \/ hitLane[g] = 0]
      /\ GoTo(g, "idle")
      /\ UNCHANGED <<deleteFixed, keyAt, valAt, addr, range, loaded, hitLane,
                     delStatus>>

\* Mutant of FreeRange: the range is freed when one key is left.
FreeRangeEarly(g) ==
  LET t == GroupTable(g)
  IN  /\ freeCheck[g]
      /\ freeCheck' = [freeCheck EXCEPT ![g] = FALSE]
      /\ range' = IF unique[t] <= 1 THEN [range EXCEPT ![t] = 0] ELSE range
      /\ delStatus' = IF hitLane[g] # NoLane
                        THEN [delStatus EXCEPT ![g] = TRUE] ELSE delStatus
      /\ UNCHANGED <<deleteFixed, keyAt, valAt, pc, addr, countVars, hitLane>>

\* The outer leader loads the count, frees the outer slot when it is zero,
\* and reports the status if the delete succeeded.  It may be ahead of the
\* lane that hit; a lane that hit itself sees at least its own store.
FreeRange(g) ==
  LET t == GroupTable(g)
      counts == IF hitLane[g] = 0 THEN {LessOne(loaded[g]), unique[t]}
                                  ELSE pastUnique[t]
  IN  /\ freeCheck[g]
      /\ freeCheck' = [freeCheck EXCEPT ![g] = FALSE]
      /\ \E n \in counts :
           range' = IF n = 0 THEN [range EXCEPT ![t] = 0] ELSE range
      /\ delStatus' = IF hitLane[g] # NoLane
                        THEN [delStatus EXCEPT ![g] = TRUE] ELSE delStatus
      /\ UNCHANGED <<deleteFixed, keyAt, valAt, pc, addr, countVars, hitLane>>

-----------------------------------------------------------------------------
(* Search kernel: it changes nothing but its results, so a search is one   *)
(* step.                                                                   *)

\* What searchgpuimpl_CG returns for a key.
SearchResult(k) ==
  LET t == TableOf[k]
      hits == Hits(keyAt[t], Home[k], k, Sentinel, EarlyLanes)
  IN  IF range[t] # t \/ hits = {} THEN Sentinel
      ELSE LET p == CHOOSE q \in hits : TRUE
           IN  valAt[t][SlotAt(Home[k], p[1], p[2])]

Search(g) ==
  LET v == SearchResult(op[g].key)
  IN  /\ pc[g] = "search"
      /\ srchValue' = IF v # Sentinel THEN [srchValue EXCEPT ![g] = v]
                                       ELSE srchValue
      /\ GoTo(g, "idle")
      /\ UNCHANGED <<keyAt, valAt, oldKeyAt, op, win, emptyMask, addr, range,
                     oldRange, countVars, hitLane, freeCheck, hostVars,
                     delStatus>>

-----------------------------------------------------------------------------

GroupStep(g) ==
  \/ ReadRange(g)
  \/ ClaimRange(g)
  \/ InsertBallot(g)
  \/ InsertClaim(g)
  \/ AddUnique(g)
  \/ InsertStore(g)
  \/ DeleteRange(g)
  \/ DeleteScan(g)
  \/ WriteTombstone(g)
  \/ LoadCount(g)
  \/ StoreCount(g)
  \/ FreeRange(g)
  \/ Search(g)

\* The host has all its results; nothing else happens.
Finished == Quiet /\ launched > 0 /\ UNCHANGED vars

Next ==
  \/ LaunchInsert
  \/ LaunchDelete
  \/ LaunchSearch
  \/ Finished
  \/ \E g \in Groups : GroupStep(g)

Spec == Init /\ [][Next]_vars

\* The hardware runs every group of a kernel that was launched; no group
\* waits for another one.
FairSpec == Spec /\ \A g \in Groups : WF_vars(GroupStep(g))

-----------------------------------------------------------------------------
(***************************************************************************)
(* The table's words, the groups' registers and the host's buffers stay in *)
(* their domains: a range word is 0 or a range, the counter never leaves   *)
(* its width, no lane index leaves the group.                              *)
(***************************************************************************)
TypeOK ==
  /\ DriverTypeOK
  /\ range \in [Tables -> RangeWords]
  /\ oldRange \in [Tables -> RangeWords]
  /\ unique \in [Tables -> 0 .. CounterMod - 1]
  /\ pastUnique \in [Tables -> SUBSET (0 .. CounterMod - 1)]
  /\ loaded \in [Groups -> 0 .. CounterMod - 1]
  /\ hitLane \in [Groups -> Lanes \cup {NoLane}]
  /\ freeCheck \in [Groups -> BOOLEAN]

-----------------------------------------------------------------------------
(* Safety properties. *)

Occupied(t) == {s \in Slots : keyAt[t][s] # Sentinel}
Live(t) == {k \in Keys : Holds(t, k)}
Counting(t) == {g \in Groups : pc[g] = "count" /\ GroupTable(g) = t}

(***************************************************************************)
(* sanity_check_gpudata_CG: while keys are inserted, unique_keys counts    *)
(* the occupied slots exactly, up to the groups between their CAS and      *)
(* their atomicAdd, even when several groups insert the same key.          *)
(***************************************************************************)
CountMatchesSlots ==
  phase = "insert" =>
    \A t \in Tables :
      unique[t] + Cardinality(Counting(t)) = Cardinality(Occupied(t))

(***************************************************************************)
(* Between kernels the table is the map the batches describe: a lookup     *)
(* returns one of the values the last insert batch with that key asked     *)
(* for, and nothing for a key that was deleted or never inserted.  Groups  *)
(* race for slots, range claims, values and counts, and deletes empty and  *)
(* free the ranges of other keys.                                          *)
(***************************************************************************)
TableIsMap ==
  Quiet =>
    \A k \in Keys :
      LET v == SearchResult(k)
      IN  IF k \in deleted \/ requested[k] = {} THEN v = Sentinel
                                               ELSE v \in requested[k]

(***************************************************************************)
(* A range is given back (its outer slot zeroed) only when its inner table *)
(* has no key left: a key in a freed range would be lost to every reader.  *)
(* The count that decides it is decremented without atomics.               *)
(***************************************************************************)
FreedRangeHoldsNoKey ==
  \A t \in Tables : range[t] = 0 => Live(t) = {}

(***************************************************************************)
(* Lost decrements only err to the safe side: unique_keys, with the adds   *)
(* still to come, is never below the number of keys in the inner table.    *)
(***************************************************************************)
CountCoversKeys ==
  \A t \in Tables :
    unique[t] + Cardinality(Counting(t)) >= Cardinality(Live(t))

(***************************************************************************)
(* KeyCheckGPUHoH_Delete_CG: no key of a finished delete batch is left.    *)
(***************************************************************************)
NoFailedDeletion ==
  Quiet => \A k \in deleted : ~Holds(TableOf[k], k)

(***************************************************************************)
(* A delete that found its key at launch is reported to the host, although *)
(* lane 0 writes the status and another lane may have hit, and although    *)
(* other groups empty and free ranges meanwhile.  The converse fails: the  *)
(* buffer keeps a success of an earlier batch.                             *)
(***************************************************************************)
DeletesReported ==
  Quiet /\ phase = "delete" =>
    \A g \in active :
      (\E s \in Slots : oldKeyAt[GroupTable(g)][s] = op[g].key) => delStatus[g]

(***************************************************************************)
(* The comment on the end of the inner search loop: probing is done for    *)
(* all the slots, so a key in an inner table whose range is held is found. *)
(***************************************************************************)
ProbingReachesAllSlots ==
  Quiet =>
    \A k \in Keys :
      LET t == TableOf[k]
      IN  range[t] = t /\ Holds(t, k) => SearchResult(k) # Sentinel

(***************************************************************************)
(* A word of a table never goes back: a free slot gets a key, a key a      *)
(* tombstone, and a tombstone stays until the table is freed.              *)
(***************************************************************************)
SlotsMoveForward ==
  [][\A t \in Tables, s \in Slots :
       keyAt'[t][s] # keyAt[t][s] =>
         \/ keyAt[t][s] = Sentinel /\ keyAt'[t][s] \in Keys
         \/ keyAt[t][s] \in Keys /\ keyAt'[t][s] = Tombstone]_vars

(***************************************************************************)
(* Kernels end: whatever the other groups do, each group is through after  *)
(* finitely many steps of its own.                                         *)
(***************************************************************************)
KernelsFinish == []<>Quiet
=============================================================================
