------------------------- MODULE BatchDriver_proofs --------------------------
(***************************************************************************)
(* The inductive invariant of the insertion protocol, and lemmas that each *)
(* shared step preserves it.  The tables that use the protocol (HoHTable,  *)
(* UVMTable) cite them in the proofs of their own theorems.                *)
(***************************************************************************)
EXTENDS BatchDriver, FiniteSets, FiniteSetTheorems, WellFoundedInduction, TLAPS

-----------------------------------------------------------------------------
(* Facts about numbers and finite sets of them that the proofs cite.       *)

\* Every non-empty set of naturals has a least element.
LEMMA LeastNatural ==
  ASSUME NEW S \in SUBSET Nat, S # {}
  PROVE  \E m \in S : \A n \in S : m <= n
<1>1. \E m \in S : \A n \in S : ~(<<n, m>> \in OpToRel(<, Nat))
  BY NatLessThanWellFounded, WFMin
<1>2. PICK m \in S : \A n \in S : ~(<<n, m>> \in OpToRel(<, Nat))
  BY <1>1
<1>3. \A n \in S : ~(n < m)
  BY <1>2 DEF OpToRel
<1> QED BY <1>3

\* There are n numbers below n.
LEMMA NumbersBelow ==
  ASSUME NEW n \in Nat
  PROVE  IsFiniteSet(0 .. n - 1) /\ Cardinality(0 .. n - 1) = n
<1>1. CASE n = 0
  <2>1. 0 .. n - 1 = {}
    BY <1>1
  <2> QED BY <1>1, <2>1, FS_EmptySet
<1>2. CASE n > 0
  <2>1. 0 \in Int /\ n - 1 \in Int /\ ~(0 > n - 1) /\ (n - 1) - 0 + 1 = n
    BY <1>2
  <2> QED BY <2>1, FS_Interval
<1> QED BY <1>1, <1>2

\* A number with a larger quotient is larger, whatever the remainders.
LEMMA QuotientOrders ==
  ASSUME NEW n \in Nat \ {0}, NEW p \in Nat, NEW q \in Nat,
         NEW a \in 0 .. n - 1, NEW b \in 0 .. n - 1, p < q
  PROVE  p * n + a < q * n + b
<1>1. PICK e \in Nat : q = p + 1 + e
  <2>1. q - p - 1 \in Nat /\ q = p + 1 + (q - p - 1)
    OBVIOUS
  <2> QED BY <2>1
<1>2. q * n = p * n + n + e * n
  BY <1>1
<1>3. e * n >= 0 /\ p * n \in Nat /\ q * n \in Nat
  OBVIOUS
<1> QED BY <1>2, <1>3

\* Every natural has a quotient and a remainder.
LEMMA DivisionExists ==
  ASSUME NEW n \in Nat \ {0}, NEW x \in Nat
  PROVE  /\ x \div n \in Nat
         /\ x % n \in 0 .. n - 1
         /\ x = (x \div n) * n + (x % n)
OBVIOUS

\* Division is monotone.
LEMMA DivisionMonotone ==
  ASSUME NEW n \in Nat \ {0}, NEW x \in Nat, NEW y \in Nat, x <= y
  PROVE  x \div n <= y \div n
<1> DEFINE p == y \div n
           q == x \div n
           a == y % n
           b == x % n
<1>1. /\ p \in Nat /\ q \in Nat
      /\ a \in 0 .. n - 1 /\ b \in 0 .. n - 1
      /\ y = p * n + a /\ x = q * n + b
  BY DivisionExists
<1> HIDE DEF p, q, a, b
<1>2. ~(p < q)
  BY <1>1, QuotientOrders
<1>3. q <= p
  BY <1>1, <1>2
<1> QED BY <1>3 DEF p, q

-----------------------------------------------------------------------------
(* The parts of the inductive invariant. *)

\* A group that runs has an operation; its window is one of the sequence, and
\* the lanes it has left to try look at that window.
OpOK ==
  \A g \in Groups :
    /\ pc[g] # "idle" => op[g].key \in Keys
    /\ pc[g] \in {"range", "claimRange", "probe", "claim"} =>
         win[g] \in Windows
    /\ pc[g] \in {"range", "claimRange"} => win[g] = 0
    /\ pc[g] = "claim" => emptyMask[g] \subseteq InsertLanes[win[g]]

\* Groups run steps of the kernel the host launched.
PhaseOK ==
  \A g \in Groups :
    /\ pc[g] \in InsertSteps => phase = "insert"
    /\ pc[g] \in DeleteSteps => phase = "delete"

\* What a stale load can return: a free slot that has been taken since, or a
\* key that has been deleted since.
OldWords ==
  \A t \in Tables, s \in Slots :
    /\ phase = "insert" => oldKeyAt[t][s] \in {Sentinel, keyAt[t][s]}
    /\ phase = "delete" => keyAt[t][s] \in {Tombstone, oldKeyAt[t][s]}

\* A slot a group has given up on: taken, and not by the group's key.
TakenByOther(g, s) ==
  keyAt[GroupTable(g)][s] \notin {Sentinel, op[g].key}

\* A group that is still to insert its key has given up on every slot before
\* the one it looks at.
PassedTaken ==
  \A g \in Groups :
    /\ pc[g] \in {"range", "claimRange", "probe", "claim"} =>
         \A w \in Windows : \A r \in InsertLanes[w] :
           w < win[g] => TakenByOther(g, SlotAt(Home[op[g].key], w, r))
    /\ pc[g] = "claim" =>
         \A r \in InsertLanes[win[g]] \ emptyMask[g] :
           TakenByOther(g, LaneSlot(g, r))

\* A group that has found or put its key has the address of it, and a delete
\* kernel overwrites nothing but the key it was asked for.
AddressOK ==
  \A g \in Groups :
    /\ pc[g] \in {"count", "store"} =>
         keyAt[GroupTable(g)][addr[g]] = op[g].key
    /\ pc[g] = "tombstone" =>
         keyAt[GroupTable(g)][addr[g]] \in {op[g].key, Tombstone}

InsertInv ==
  /\ DriverTypeOK
  /\ OpOK
  /\ PhaseOK
  /\ OldWords
  /\ PassedTaken
  /\ AddressOK
  /\ NoHole
  /\ OneSlotPerKey

-----------------------------------------------------------------------------
(* The probe sequence. *)

\* There is at least one window, and windows and lanes are numbers.
LEMMA WindowsAreNumbers ==
  /\ NumWindows \in Nat \ {0}
  /\ Windows \subseteq Nat
  /\ Lanes \subseteq Nat
  /\ Slots \subseteq Nat
  /\ 0 \in Windows
  /\ 0 \in Slots
  /\ \A w \in Windows : w + 1 \in 0 .. NumWindows
BY ProbeAssumption DEF NumWindows, Windows, Lanes, Slots

\* A lane of a ballot is a lane of the group.
LEMMA InsertLanesAreLanes ==
  \A w \in Windows : InsertLanes[w] \subseteq Lanes
BY DEF InsertLanes, EarlyLanes, AllLanes

\* Every lane of every window looks at a slot of the table.
LEMMA SlotAtIsSlot ==
  ASSUME NEW home \in Slots, NEW w \in Nat, NEW r \in Lanes
  PROVE  SlotAt(home, w, r) \in Slots
<1>1. home + (w * Stride) + r \in Nat
  BY ProbeAssumption, WindowsAreNumbers
<1> QED BY <1>1, ProbeAssumption DEF SlotAt, Slots

\* The program's three kinds of key words are different from each other.
LEMMA WordsDiffer ==
  /\ Sentinel \notin Keys
  /\ Tombstone \notin Keys
  /\ Tombstone # Sentinel
BY InsertAssumption, DriverAssumption

\* A group that runs works on a table, at slots of it.
LEMMA GroupOperands ==
  ASSUME DriverTypeOK, OpOK, NEW g \in Groups, pc[g] # "idle"
  PROVE  /\ op[g].key \in Keys
         /\ op[g].value \in Values \cup {Sentinel}
         /\ GroupTable(g) \in Tables
         /\ Home[op[g].key] \in Slots
         /\ \A r \in Lanes : LaneSlot(g, r) \in Slots
<1>1. op[g].key \in Keys /\ op[g].value \in Values \cup {Sentinel}
  BY DEF DriverTypeOK, OpOK
<1>2. GroupTable(g) \in Tables /\ Home[op[g].key] \in Slots
  BY <1>1, InsertAssumption DEF GroupTable
<1>3. \A r \in Lanes : LaneSlot(g, r) \in Slots
  <2>1. win[g] \in Nat
    BY WindowsAreNumbers DEF DriverTypeOK
  <2> QED BY <1>2, <2>1, SlotAtIsSlot DEF LaneSlot
<1> QED BY <1>1, <1>2, <1>3

-----------------------------------------------------------------------------
(* The steps of the insertion protocol. *)

\* A step that leaves the keys alone keeps the table in order.
LEMMA TableUnchanged ==
  ASSUME NoHole, OneSlotPerKey, keyAt' = keyAt
  PROVE  NoHole' /\ OneSlotPerKey'
BY DEF NoHole, OneSlotPerKey

\* The group has given up on the whole window: the invariant that has to hold
\* for the next one.
LEMMA NextWindowPassed ==
  ASSUME InsertInv, NEW g \in Groups, pc[g] \in {"probe", "claim"},
         \A r \in InsertLanes[win[g]] : TakenByOther(g, LaneSlot(g, r))
  PROVE  \A w \in Windows : \A r \in InsertLanes[w] :
           w < win[g] + 1 => TakenByOther(g, SlotAt(Home[op[g].key], w, r))
<1> SUFFICES ASSUME NEW w \in Windows, NEW r \in InsertLanes[w], w < win[g] + 1
             PROVE  TakenByOther(g, SlotAt(Home[op[g].key], w, r))
  OBVIOUS
<1>1. win[g] \in Windows
  BY DEF InsertInv, OpOK
<1>2. w < win[g] \/ w = win[g]
  <2>1. w \in Nat /\ win[g] \in Nat
    BY <1>1, WindowsAreNumbers
  <2>2. w < win[g] + 1
    OBVIOUS
  <2> QED BY ONLY <2>1, <2>2
<1>3. CASE w < win[g]
  BY <1>3 DEF InsertInv, PassedTaken
<1>4. CASE w = win[g]
  BY <1>4 DEF LaneSlot
<1> QED BY <1>2, <1>3, <1>4

\* Moving on to the next window, or out of the table, is safe once every slot
\* of the window is taken by another key.
LEMMA WindowMovesOn ==
  ASSUME InsertInv, NEW g \in Groups, pc[g] \in {"probe", "claim"},
         \A r \in InsertLanes[win[g]] : TakenByOther(g, LaneSlot(g, r)),
         NextWindow(g, "idle"),
         NEW mask \in SUBSET Lanes, emptyMask' = [emptyMask EXCEPT ![g] = mask],
         UNCHANGED <<keyAt, valAt, oldKeyAt, op, addr, hostVars, resultVars>>
  PROVE  InsertInv'
<1> USE DEF InsertInv
<1>1. /\ win' = [win EXCEPT ![g] = win[g] + 1]
      /\ pc' = [pc EXCEPT ![g] = IF win[g] + 1 \in Windows THEN "probe"
                                                           ELSE "idle"]
  BY DEF NextWindow, GoTo
<1>2. win[g] \in Windows /\ win[g] \in Nat /\ win[g] + 1 \in 0 .. NumWindows
  BY WindowsAreNumbers DEF OpOK
<1>3. op[g].key \in Keys /\ phase = "insert"
  BY GroupOperands DEF PhaseOK, InsertSteps
<1>4. NoHole' /\ OneSlotPerKey'
  BY TableUnchanged
<1>5. OldWords'
  BY DEF OldWords, hostVars
<1>6. DriverTypeOK'
  BY <1>1, <1>2 DEF DriverTypeOK, Steps, InsertSteps, hostVars, resultVars
<1>7. OpOK'
  BY <1>1, <1>2, <1>3 DEF OpOK, DriverTypeOK
<1>8. PhaseOK'
  BY <1>1, <1>3 DEF PhaseOK, DriverTypeOK, hostVars, InsertSteps, DeleteSteps
<1>9. PassedTaken'
  <2>1. \A w \in Windows : \A r \in InsertLanes[w] :
          w < win[g] + 1 => TakenByOther(g, SlotAt(Home[op[g].key], w, r))
    BY NextWindowPassed
  <2> QED BY <1>1, <2>1
          DEF PassedTaken, TakenByOther, DriverTypeOK, GroupTable, LaneSlot
<1>10. AddressOK'
  BY <1>1 DEF AddressOK, DriverTypeOK, GroupTable
<1> QED BY <1>4, <1>5, <1>6, <1>7, <1>8, <1>9, <1>10

\* What a ballot concludes from its loads holds of the table now: a stale load
\* can only show a slot free that has been taken.
LEMMA BallotSees ==
  ASSUME InsertInv, NEW g \in Groups, pc[g] = "probe",
         NEW r \in InsertLanes[win[g]],
         NEW word \in {keyAt[GroupTable(g)][LaneSlot(g, r)],
                       oldKeyAt[GroupTable(g)][LaneSlot(g, r)]}
  PROVE  /\ word = op[g].key =>
              keyAt[GroupTable(g)][LaneSlot(g, r)] = op[g].key
         /\ word \notin {Sentinel, op[g].key} =>
              TakenByOther(g, LaneSlot(g, r))
<1>1. GroupTable(g) \in Tables /\ LaneSlot(g, r) \in Slots
      /\ op[g].key \in Keys
  BY GroupOperands, InsertLanesAreLanes DEF InsertInv, OpOK
<1>2. phase = "insert"
  BY DEF InsertInv, PhaseOK, InsertSteps
<1>3. oldKeyAt[GroupTable(g)][LaneSlot(g, r)]
        \in {Sentinel, keyAt[GroupTable(g)][LaneSlot(g, r)]}
  BY <1>1, <1>2 DEF InsertInv, OldWords
<1> QED BY <1>1, <1>3, WordsDiffer DEF TakenByOther

\* The ballot preserves the invariant.
LEMMA BallotPreserves ==
  ASSUME InsertInv, NEW g \in Groups, Ballot(g, "idle"),
         UNCHANGED <<hostVars, resultVars>>
  PROVE  InsertInv'
<1> USE DEF InsertInv
<1> DEFINE t == GroupTable(g)
           k == op[g].key
<1>1. /\ pc[g] = "probe"
      /\ UNCHANGED <<keyAt, valAt, oldKeyAt, op>>
  BY DEF Ballot
<1>2. k \in Keys /\ t \in Tables /\ \A r \in Lanes : LaneSlot(g, r) \in Slots
  BY <1>1, GroupOperands
<1>3. /\ phase = "insert"
      /\ win[g] \in Windows
      /\ InsertLanes[win[g]] \subseteq Lanes
  BY <1>1, InsertLanesAreLanes DEF PhaseOK, InsertSteps, OpOK
<1>4. PICK seen \in [InsertLanes[win[g]] -> KeyWords] :
        /\ \A r \in InsertLanes[win[g]] :
             seen[r] \in {keyAt[t][LaneSlot(g, r)], oldKeyAt[t][LaneSlot(g, r)]}
        /\ \/ \E r \in InsertLanes[win[g]] :
                /\ seen[r] = k
                /\ \A q \in InsertLanes[win[g]] : q < r => seen[q] # k
                /\ addr' = [addr EXCEPT ![g] = LaneSlot(g, r)]
                /\ GoTo(g, "store")
                /\ UNCHANGED <<win, emptyMask>>
           \/ /\ \A r \in InsertLanes[win[g]] : seen[r] # k
              /\ emptyMask' =
                   [emptyMask EXCEPT ![g] =
                      {r \in InsertLanes[win[g]] : seen[r] = Sentinel}]
              /\ IF \E r \in InsertLanes[win[g]] : seen[r] = Sentinel
                   THEN GoTo(g, "claim") /\ UNCHANGED win
                   ELSE NextWindow(g, "idle")
              /\ UNCHANGED addr
  BY DEF Ballot
<1>5. \A r \in InsertLanes[win[g]] :
        /\ seen[r] = k => keyAt[t][LaneSlot(g, r)] = k
        /\ seen[r] \notin {Sentinel, k} => TakenByOther(g, LaneSlot(g, r))
  BY <1>1, <1>4, BallotSees
<1>6. NoHole' /\ OneSlotPerKey'
  BY <1>1, TableUnchanged
<1>7. OldWords'
  BY <1>1 DEF OldWords, hostVars
<1>8. CASE \E r \in InsertLanes[win[g]] :
             /\ seen[r] = k
             /\ addr' = [addr EXCEPT ![g] = LaneSlot(g, r)]
             /\ GoTo(g, "store")
             /\ UNCHANGED <<win, emptyMask>>
  <2>1. PICK r \in InsertLanes[win[g]] :
          /\ seen[r] = k
          /\ addr' = [addr EXCEPT ![g] = LaneSlot(g, r)]
          /\ pc' = [pc EXCEPT ![g] = "store"]
          /\ UNCHANGED <<win, emptyMask>>
    BY <1>8 DEF GoTo
  <2>2. DriverTypeOK'
    BY <1>1, <1>2, <1>3, <2>1
       DEF DriverTypeOK, Steps, InsertSteps, hostVars, resultVars
  <2>3. OpOK'
    BY <1>1, <1>2, <2>1 DEF OpOK, DriverTypeOK
  <2>4. PhaseOK'
    BY <1>1, <1>3, <2>1
       DEF PhaseOK, DriverTypeOK, hostVars, InsertSteps, DeleteSteps
  <2>5. PassedTaken'
    BY <1>1, <2>1
       DEF PassedTaken, TakenByOther, DriverTypeOK, GroupTable, LaneSlot
  <2>6. AddressOK'
    BY <1>1, <1>5, <2>1 DEF AddressOK, DriverTypeOK, GroupTable
  <2> QED BY <1>6, <1>7, <2>2, <2>3, <2>4, <2>5, <2>6
<1>9. CASE /\ \A r \in InsertLanes[win[g]] : seen[r] # k
           /\ emptyMask' = [emptyMask EXCEPT ![g] =
                              {r \in InsertLanes[win[g]] : seen[r] = Sentinel}]
           /\ \E r \in InsertLanes[win[g]] : seen[r] = Sentinel
           /\ GoTo(g, "claim")
           /\ UNCHANGED <<win, addr>>
  <2>1. pc' = [pc EXCEPT ![g] = "claim"]
    BY <1>9 DEF GoTo
  <2>2. DriverTypeOK'
    BY <1>1, <1>3, <1>9, <2>1
       DEF DriverTypeOK, Steps, InsertSteps, hostVars, resultVars
  <2>3. OpOK'
    BY <1>1, <1>2, <1>3, <1>9, <2>1 DEF OpOK, DriverTypeOK
  <2>4. PhaseOK'
    BY <1>1, <1>3, <2>1
       DEF PhaseOK, DriverTypeOK, hostVars, InsertSteps, DeleteSteps
  <2>5. PassedTaken'
    <3>1. \A r \in InsertLanes[win[g]] \ emptyMask'[g] :
            TakenByOther(g, LaneSlot(g, r))
      BY <1>5, <1>9 DEF DriverTypeOK
    <3> QED BY <1>1, <1>9, <2>1, <3>1
            DEF PassedTaken, TakenByOther, DriverTypeOK, GroupTable, LaneSlot
  <2>6. AddressOK'
    BY <1>1, <1>9, <2>1 DEF AddressOK, DriverTypeOK, GroupTable
  <2> QED BY <1>6, <1>7, <2>2, <2>3, <2>4, <2>5, <2>6
<1>10. CASE /\ \A r \in InsertLanes[win[g]] : seen[r] # k
            /\ emptyMask' = [emptyMask EXCEPT ![g] =
                               {r \in InsertLanes[win[g]] : seen[r] = Sentinel}]
            /\ ~ \E r \in InsertLanes[win[g]] : seen[r] = Sentinel
            /\ NextWindow(g, "idle")
            /\ UNCHANGED addr
  <2>1. \A r \in InsertLanes[win[g]] : TakenByOther(g, LaneSlot(g, r))
    BY <1>5, <1>10
  <2> QED BY <1>1, <1>6, <1>7, <1>10, <2>1, WindowMovesOn
<1> QED BY <1>4, <1>8, <1>9, <1>10

\* A successful CAS: the key goes to the slot that every other place for it
\* comes after, and no other slot has it.
LEMMA KeyIsPut ==
  ASSUME InsertInv, NEW g \in Groups, pc[g] = "claim",
         NEW r \in emptyMask[g], \A q \in emptyMask[g] : r <= q,
         keyAt[GroupTable(g)][LaneSlot(g, r)] = Sentinel,
         keyAt' = [keyAt EXCEPT ![GroupTable(g)][LaneSlot(g, r)] = op[g].key]
  PROVE  NoHole' /\ OneSlotPerKey'
<1> USE DEF InsertInv
<1> DEFINE T == GroupTable(g)
           k == op[g].key
           home == Home[k]
           w == win[g]
           new == LaneSlot(g, r)
<1>1. /\ w \in Windows
      /\ r \in InsertLanes[w]
      /\ InsertLanes[w] \subseteq Lanes
  BY InsertLanesAreLanes DEF OpOK
<1>2. T \in Tables /\ k \in Keys /\ new \in Slots /\ home \in Slots
  BY <1>1, GroupOperands
<1>3. k # Sentinel
  BY <1>2, WordsDiffer
<1>4. \A t \in Tables, s \in Slots :
        keyAt'[t][s] = IF t = T /\ s = new THEN k ELSE keyAt[t][s]
  BY <1>2 DEF DriverTypeOK
<1>5. \A v \in Windows : \A q \in InsertLanes[v] :
        Before(v, q, w, r) => TakenByOther(g, SlotAt(home, v, q))
  <2> SUFFICES ASSUME NEW v \in Windows, NEW q \in InsertLanes[v],
                      Before(v, q, w, r)
               PROVE  TakenByOther(g, SlotAt(home, v, q))
    OBVIOUS
  <2>1. CASE v < w
    BY <2>1 DEF PassedTaken
  <2>2. CASE v = w /\ q < r
    <3>1. q \notin emptyMask[g]
      BY <1>1, <2>2, WindowsAreNumbers
    <3> QED BY <2>2, <3>1 DEF PassedTaken, LaneSlot
  <2> QED BY <2>1, <2>2 DEF Before
<1>6. \A s \in Slots : keyAt[T][s] # k
  <2> SUFFICES ASSUME NEW s \in Slots, keyAt[T][s] = k
               PROVE  FALSE
    OBVIOUS
  <2>0. PICK v \in Windows : \E q \in InsertLanes[v] :
          /\ s = SlotAt(home, v, q)
          /\ \A x \in Windows : \A y \in InsertLanes[x] :
               Before(x, y, v, q) => keyAt[T][SlotAt(home, x, y)] # Sentinel
    BY <1>2 DEF NoHole
  <2>1. PICK q \in InsertLanes[v] :
          /\ s = SlotAt(home, v, q)
          /\ \A x \in Windows : \A y \in InsertLanes[x] :
               Before(x, y, v, q) => keyAt[T][SlotAt(home, x, y)] # Sentinel
    BY <2>0
  <2>2. ~Before(v, q, w, r)
    BY <1>5, <2>1 DEF TakenByOther
  <2>3. ~Before(w, r, v, q)
    BY <1>1, <2>1 DEF LaneSlot
  <2>4. v = w /\ q = r
    BY <1>1, <2>2, <2>3, WindowsAreNumbers DEF Before
  <2> QED BY <1>3, <2>1, <2>4 DEF LaneSlot
<1>7. NoHole'
  <2> SUFFICES ASSUME NEW t \in Tables, NEW s \in Slots, keyAt'[t][s] \in Keys
               PROVE  \E v \in Windows : \E q \in InsertLanes[v] :
                        /\ s = SlotAt(Home[keyAt'[t][s]], v, q)
                        /\ \A x \in Windows : \A y \in InsertLanes[x] :
                             Before(x, y, v, q) =>
                               keyAt'[t][SlotAt(Home[keyAt'[t][s]], x, y)]
                                 # Sentinel
    BY DEF NoHole
  <2>1. \A x \in Windows : \A y \in InsertLanes[x] :
          SlotAt(Home[keyAt'[t][s]], x, y) \in Slots
    BY SlotAtIsSlot, WindowsAreNumbers, InsertLanesAreLanes, InsertAssumption
  <2>2. CASE t = T /\ s = new
    <3>1. keyAt'[t][s] = k
      BY <1>4, <2>2
    <3>2. \A x \in Windows : \A y \in InsertLanes[x] :
            Before(x, y, w, r) => keyAt'[t][SlotAt(home, x, y)] # Sentinel
      BY <1>3, <1>4, <1>5, <2>1, <2>2, <3>1 DEF TakenByOther
    <3>3. s = SlotAt(home, w, r)
      BY <2>2 DEF LaneSlot
    <3> HIDE DEF T, k, home, w, new
    <3>4. /\ w \in Windows
          /\ r \in InsertLanes[w]
          /\ s = SlotAt(Home[keyAt'[t][s]], w, r)
          /\ \A x \in Windows : \A y \in InsertLanes[x] :
               Before(x, y, w, r) =>
                 keyAt'[t][SlotAt(Home[keyAt'[t][s]], x, y)] # Sentinel
      BY <1>1, <3>1, <3>2, <3>3 DEF home
    <3> QED BY ONLY <3>4
  <2>3. CASE ~(t = T /\ s = new)
    <3>1. keyAt'[t][s] = keyAt[t][s]
      BY <1>4, <2>3
    <3>2. PICK v \in Windows : \E q \in InsertLanes[v] :
            /\ s = SlotAt(Home[keyAt[t][s]], v, q)
            /\ \A x \in Windows : \A y \in InsertLanes[x] :
                 Before(x, y, v, q) =>
                   keyAt[t][SlotAt(Home[keyAt[t][s]], x, y)] # Sentinel
      BY <3>1 DEF NoHole
    <3>3. PICK q \in InsertLanes[v] :
            /\ s = SlotAt(Home[keyAt[t][s]], v, q)
            /\ \A x \in Windows : \A y \in InsertLanes[x] :
                 Before(x, y, v, q) =>
                   keyAt[t][SlotAt(Home[keyAt[t][s]], x, y)] # Sentinel
      BY <3>2
    <3>4. \A x \in Windows : \A y \in InsertLanes[x] :
            Before(x, y, v, q) =>
              keyAt'[t][SlotAt(Home[keyAt[t][s]], x, y)] # Sentinel
      BY <1>3, <1>4, <2>1, <3>1, <3>3
    <3> QED BY <3>1, <3>3, <3>4
  <2> QED BY <2>2, <2>3
<1>8. OneSlotPerKey'
  <2> SUFFICES ASSUME NEW t \in Tables, NEW s1 \in Slots, NEW s2 \in Slots,
                      keyAt'[t][s1] = keyAt'[t][s2], keyAt'[t][s1] \in Keys
               PROVE  s1 = s2
    BY DEF OneSlotPerKey
  <2> QED BY <1>4, <1>6 DEF OneSlotPerKey
<1> QED BY <1>7, <1>8

\* The CAS of a lane preserves the invariant, whatever it finds.
LEMMA ClaimPreserves ==
  ASSUME InsertInv, NEW g \in Groups, NEW won \in {"count", "store"},
         Claim(g, won, "idle"), UNCHANGED <<hostVars, resultVars>>
  PROVE  InsertInv'
<1> USE DEF InsertInv
<1> DEFINE t == GroupTable(g)
           k == op[g].key
<1>1. pc[g] = "claim" /\ UNCHANGED <<valAt, oldKeyAt, op>>
  BY DEF Claim
<1>2. k \in Keys /\ t \in Tables /\ \A r \in Lanes : LaneSlot(g, r) \in Slots
  BY <1>1, GroupOperands
<1>3. /\ phase = "insert"
      /\ win[g] \in Windows
      /\ emptyMask[g] \subseteq InsertLanes[win[g]]
      /\ emptyMask[g] \subseteq Lanes
      /\ InsertLanes[win[g]] \subseteq Lanes
  BY <1>1, InsertLanesAreLanes DEF PhaseOK, InsertSteps, OpOK, DriverTypeOK
<1>4. PICK r \in emptyMask[g] :
        /\ \A q \in emptyMask[g] : r <= q
        /\ \/ /\ keyAt[t][LaneSlot(g, r)] = Sentinel
              /\ keyAt' = [keyAt EXCEPT ![t][LaneSlot(g, r)] = k]
              /\ addr' = [addr EXCEPT ![g] = LaneSlot(g, r)]
              /\ GoTo(g, won)
              /\ UNCHANGED <<win, emptyMask>>
           \/ /\ keyAt[t][LaneSlot(g, r)] = k
              /\ addr' = [addr EXCEPT ![g] = LaneSlot(g, r)]
              /\ GoTo(g, "store")
              /\ UNCHANGED <<keyAt, win, emptyMask>>
           \/ /\ keyAt[t][LaneSlot(g, r)] \notin {Sentinel, k}
              /\ emptyMask' = [emptyMask EXCEPT ![g] = emptyMask[g] \ {r}]
              /\ IF emptyMask[g] = {r} THEN NextWindow(g, "idle")
                                       ELSE UNCHANGED <<win, pc>>
              /\ UNCHANGED <<keyAt, addr>>
  BY DEF Claim, Leader, Duplicate
<1>5. CASE /\ keyAt[t][LaneSlot(g, r)] = Sentinel
           /\ keyAt' = [keyAt EXCEPT ![t][LaneSlot(g, r)] = k]
           /\ addr' = [addr EXCEPT ![g] = LaneSlot(g, r)]
           /\ GoTo(g, won)
           /\ UNCHANGED <<win, emptyMask>>
  <2>1. pc' = [pc EXCEPT ![g] = won]
    BY <1>5 DEF GoTo
  <2>2. /\ k # Sentinel
        /\ LaneSlot(g, r) \in Slots
        /\ \A u \in Tables, s \in Slots :
             keyAt'[u][s] = IF u = t /\ s = LaneSlot(g, r) THEN k
                                                           ELSE keyAt[u][s]
    BY <1>2, <1>3, <1>5, WordsDiffer DEF DriverTypeOK
  <2>3. NoHole' /\ OneSlotPerKey'
    BY <1>1, <1>4, <1>5, KeyIsPut
  <2>4. keyAt' \in [Tables -> [Slots -> KeyWords]]
    BY <1>2, <1>5, <2>2 DEF DriverTypeOK, KeyWords
  <2>5. DriverTypeOK'
    BY <1>1, <1>5, <2>1, <2>2, <2>4
       DEF DriverTypeOK, Steps, InsertSteps, hostVars, resultVars
  <2>6. OpOK'
    BY <1>1, <1>2, <1>5, <2>1 DEF OpOK, DriverTypeOK
  <2>7. PhaseOK'
    BY <1>1, <1>3, <2>1
       DEF PhaseOK, DriverTypeOK, hostVars, InsertSteps, DeleteSteps
  <2>8. OldWords'
    BY <1>1, <1>3, <1>5, <2>2 DEF OldWords, hostVars
  <2>9. PassedTaken'
    <3> SUFFICES ASSUME NEW h \in Groups,
                        pc'[h] \in {"range", "claimRange", "probe", "claim"},
                        NEW s \in Slots, TakenByOther(h, s)
                 PROVE  TakenByOther(h, s)'
      <4>1. \A h \in Groups :
              pc'[h] \in {"range", "claimRange", "probe", "claim"} =>
                /\ pc[h] = pc'[h]
                /\ \A u \in Windows : \A q \in InsertLanes[u] :
                     SlotAt(Home[op[h].key], u, q) \in Slots
                /\ \A q \in InsertLanes[win[h]] : LaneSlot(h, q) \in Slots
        <5> SUFFICES ASSUME NEW h \in Groups,
                            pc'[h] \in {"range", "claimRange", "probe", "claim"}
                     PROVE  /\ pc[h] = pc'[h]
                            /\ \A u \in Windows : \A q \in InsertLanes[u] :
                                 SlotAt(Home[op[h].key], u, q) \in Slots
                            /\ \A q \in InsertLanes[win[h]] :
                                 LaneSlot(h, q) \in Slots
          OBVIOUS
        <5>1. pc[h] = pc'[h]
          BY <2>1 DEF DriverTypeOK
        <5>2. \A u \in Windows : \A q \in InsertLanes[u] :
                SlotAt(Home[op[h].key], u, q) \in Slots
          BY <5>1, GroupOperands, SlotAtIsSlot, WindowsAreNumbers,
             InsertLanesAreLanes
        <5>3. win[h] \in Windows
          BY <5>1 DEF OpOK
        <5> QED BY <5>1, <5>2, <5>3 DEF LaneSlot
      <4> QED BY <1>1, <1>5, <4>1 DEF PassedTaken, LaneSlot
    <3>1. GroupTable(h) \in Tables
      <4>1. pc[h] = pc'[h]
        BY <2>1 DEF DriverTypeOK
      <4> QED BY <4>1, GroupOperands
    <3>2. ~(GroupTable(h) = t /\ s = LaneSlot(g, r))
      BY <1>5 DEF TakenByOther
    <3> QED BY <1>1, <2>2, <3>1, <3>2 DEF TakenByOther, GroupTable
  <2>10. AddressOK'
    <3> SUFFICES ASSUME NEW h \in Groups
                 PROVE  /\ pc'[h] \in {"count", "store"} =>
                             keyAt'[GroupTable(h)][addr'[h]] = op[h].key
                        /\ pc'[h] # "tombstone"
      BY <1>1 DEF AddressOK, GroupTable
    <3>1. pc'[h] # "tombstone"
      BY <1>3, <2>7 DEF PhaseOK, DeleteSteps, hostVars
    <3>2. CASE h = g
      BY <1>2, <1>5, <2>2, <3>1, <3>2 DEF DriverTypeOK
    <3>3. CASE h # g /\ pc'[h] \in {"count", "store"}
      <4>1. pc[h] = pc'[h] /\ addr'[h] = addr[h]
        BY <1>5, <2>1, <3>3 DEF DriverTypeOK
      <4>2. /\ GroupTable(h) \in Tables /\ op[h].key \in Keys
            /\ addr[h] \in Slots
        BY <3>3, <4>1, GroupOperands DEF DriverTypeOK
      <4>3. keyAt[GroupTable(h)][addr[h]] = op[h].key
        BY <3>3, <4>1 DEF AddressOK
      <4> QED BY <1>5, <2>2, <3>1, <4>1, <4>2, <4>3, WordsDiffer
    <3> QED BY <3>1, <3>2, <3>3
  <2> QED BY <2>3, <2>5, <2>6, <2>7, <2>8, <2>9, <2>10
<1>6. CASE /\ keyAt[t][LaneSlot(g, r)] = k
           /\ addr' = [addr EXCEPT ![g] = LaneSlot(g, r)]
           /\ GoTo(g, "store")
           /\ UNCHANGED <<keyAt, win, emptyMask>>
  <2>1. pc' = [pc EXCEPT ![g] = "store"] /\ LaneSlot(g, r) \in Slots
    BY <1>2, <1>3, <1>6 DEF GoTo
  <2>2. DriverTypeOK'
    BY <1>1, <1>6, <2>1
       DEF DriverTypeOK, Steps, InsertSteps, hostVars, resultVars
  <2>3. OpOK'
    BY <1>1, <1>2, <1>6, <2>1 DEF OpOK, DriverTypeOK
  <2>4. PhaseOK'
    BY <1>1, <1>3, <2>1
       DEF PhaseOK, DriverTypeOK, hostVars, InsertSteps, DeleteSteps
  <2>5. OldWords'
    BY SMTT(30), <1>1, <1>6 DEF OldWords, hostVars
  <2>6. PassedTaken'
    BY <1>1, <1>6, <2>1
       DEF PassedTaken, TakenByOther, DriverTypeOK, GroupTable, LaneSlot
  <2>7. AddressOK'
    BY <1>1, <1>6, <2>1 DEF AddressOK, DriverTypeOK, GroupTable
  <2>8. NoHole' /\ OneSlotPerKey'
    BY <1>6, TableUnchanged
  <2> QED BY <2>2, <2>3, <2>4, <2>5, <2>6, <2>7, <2>8
<1>7. CASE /\ keyAt[t][LaneSlot(g, r)] \notin {Sentinel, k}
           /\ emptyMask' = [emptyMask EXCEPT ![g] = emptyMask[g] \ {r}]
           /\ IF emptyMask[g] = {r} THEN NextWindow(g, "idle")
                                    ELSE UNCHANGED <<win, pc>>
           /\ UNCHANGED <<keyAt, addr>>
  <2>1. \A q \in InsertLanes[win[g]] \ (emptyMask[g] \ {r}) :
          TakenByOther(g, LaneSlot(g, q))
    BY <1>1, <1>7 DEF PassedTaken, TakenByOther
  <2>2. CASE emptyMask[g] = {r}
    <3>1. \A q \in InsertLanes[win[g]] : TakenByOther(g, LaneSlot(g, q))
      BY <2>1, <2>2
    <3>2. NextWindow(g, "idle") /\ emptyMask[g] \ {r} \in SUBSET Lanes
      BY <1>3, <1>7, <2>2
    <3> QED BY <1>1, <1>7, <3>1, <3>2, WindowMovesOn
  <2>3. CASE emptyMask[g] # {r}
    <3>1. UNCHANGED <<win, pc>>
      BY <1>7, <2>3
    <3>2. DriverTypeOK'
      BY <1>1, <1>3, <1>7, <3>1 DEF DriverTypeOK, hostVars, resultVars
    <3>3. OpOK' /\ PhaseOK' /\ OldWords'
      BY SMTT(30), <1>1, <1>7, <3>1 DEF OpOK, PhaseOK, OldWords, hostVars
    <3>4. PassedTaken'
      BY SMTT(30), <1>1, <1>7, <2>1, <3>1
         DEF PassedTaken, TakenByOther, DriverTypeOK, GroupTable, LaneSlot
    <3>5. AddressOK'
      BY <1>1, <1>7, <3>1 DEF AddressOK, GroupTable
    <3>6. NoHole' /\ OneSlotPerKey'
      BY <1>7, TableUnchanged
    <3> QED BY <3>2, <3>3, <3>4, <3>5, <3>6
  <2> QED BY <2>2, <2>3
<1> QED BY <1>4, <1>5, <1>6, <1>7

-----------------------------------------------------------------------------
(* The other steps of a group. *)

\* Steps that put nothing into the invariant: a group goes from one step of
\* its kernel to the next, or is through.
PlainMoves ==
  {<<"range", "claimRange">>, <<"range", "probe">>, <<"claimRange", "probe">>,
   <<"count", "store">>, <<"delRange", "delScan">>,
   <<"loadCount", "storeCount">>}

LEMMA PlainStepPreserves ==
  ASSUME InsertInv, NEW g \in Groups, pc[g] # "idle", NEW to \in Steps,
         <<pc[g], to>> \in PlainMoves \/ to = "idle",
         pc' = [pc EXCEPT ![g] = to],
         UNCHANGED <<keyAt, oldKeyAt, op, win, emptyMask, addr, hostVars>>,
         valAt' \in [Tables -> [Slots -> Values \cup {Sentinel, Tombstone}]],
         delStatus' \in [Groups -> BOOLEAN],
         srchValue' \in [Groups -> Values \cup {Sentinel, Tombstone}]
  PROVE  InsertInv'
<1> USE DEF InsertInv
<1>1. NoHole' /\ OneSlotPerKey'
  BY TableUnchanged
<1>2. DriverTypeOK'
  BY DEF DriverTypeOK, hostVars
<1>3. OpOK'
  BY DEF OpOK, PlainMoves, DriverTypeOK
<1>4. PhaseOK'
  BY DEF PhaseOK, PlainMoves, InsertSteps, DeleteSteps, DriverTypeOK, hostVars
<1>5. OldWords'
  BY DEF OldWords, hostVars
<1>6. PassedTaken'
  <2> SUFFICES ASSUME NEW h \in Groups,
                      pc'[h] \in {"range", "claimRange", "probe", "claim"}
               PROVE  /\ pc[h] \in {"range", "claimRange", "probe", "claim"}
                      /\ pc'[h] = "claim" => pc[h] = "claim"
    BY DEF PassedTaken, TakenByOther, GroupTable, LaneSlot
  <2> QED BY DEF PlainMoves, DriverTypeOK
<1>7. AddressOK'
  BY DEF AddressOK, PlainMoves, GroupTable, DriverTypeOK
<1> QED BY <1>1, <1>2, <1>3, <1>4, <1>5, <1>6, <1>7

\* A step that touches only the results, or none of these variables.
LEMMA ResultStepPreserves ==
  ASSUME InsertInv, UNCHANGED <<insertVars, hostVars>>,
         delStatus' \in [Groups -> BOOLEAN],
         srchValue' \in [Groups -> Values \cup {Sentinel, Tombstone}]
  PROVE  InsertInv'
<1> USE DEF InsertInv, insertVars
<1>1. NoHole' /\ OneSlotPerKey'
  BY TableUnchanged
<1>2. DriverTypeOK'
  BY DEF DriverTypeOK, hostVars
<1>3. OpOK' /\ PhaseOK' /\ OldWords'
  BY DEF OpOK, PhaseOK, OldWords, hostVars
<1>4. PassedTaken' /\ AddressOK'
  BY DEF PassedTaken, AddressOK, TakenByOther, GroupTable, LaneSlot
<1> QED BY <1>1, <1>2, <1>3, <1>4

\* The scan of a delete remembers a slot that holds its key, or held it when
\* the kernel started.
LEMMA ScanPreserves ==
  ASSUME InsertInv, NEW g \in Groups, pc[g] = "delScan",
         NEW cells \in {keyAt[GroupTable(g)], oldKeyAt[GroupTable(g)]},
         NEW s \in Slots, cells[s] = op[g].key,
         pc' = [pc EXCEPT ![g] = "tombstone"],
         addr' = [addr EXCEPT ![g] = s],
         UNCHANGED <<keyAt, valAt, oldKeyAt, op, win, emptyMask, hostVars,
                     resultVars>>
  PROVE  InsertInv'
<1> USE DEF InsertInv
<1>1. NoHole' /\ OneSlotPerKey'
  BY TableUnchanged
<1>2. DriverTypeOK'
  BY DEF DriverTypeOK, Steps, DeleteSteps, hostVars, resultVars
<1>3. OpOK'
  BY DEF OpOK, DriverTypeOK
<1>4. PhaseOK'
  BY DEF PhaseOK, InsertSteps, DeleteSteps, DriverTypeOK, hostVars
<1>5. OldWords'
  BY DEF OldWords, hostVars
<1>6. PassedTaken'
  BY DEF PassedTaken, TakenByOther, GroupTable, LaneSlot, DriverTypeOK
<1>7. keyAt[GroupTable(g)][s] \in {op[g].key, Tombstone}
  <2>1. GroupTable(g) \in Tables
    BY GroupOperands
  <2>2. phase = "delete"
    BY DEF PhaseOK, DeleteSteps
  <2> QED BY <2>1, <2>2 DEF OldWords
<1>8. AddressOK'
  BY <1>7 DEF AddressOK, GroupTable, DriverTypeOK
<1> QED BY <1>1, <1>2, <1>3, <1>4, <1>5, <1>6, <1>8

\* Overwriting a key with a tombstone.
LEMMA TombstonePreserves ==
  ASSUME InsertInv, NEW g \in Groups, pc[g] = "tombstone",
         NEW to \in {"loadCount", "idle"},
         pc' = [pc EXCEPT ![g] = to],
         keyAt' = [keyAt EXCEPT ![GroupTable(g)][addr[g]] = Tombstone],
         valAt' = [valAt EXCEPT ![GroupTable(g)][addr[g]] = Tombstone],
         UNCHANGED <<oldKeyAt, op, win, emptyMask, addr, hostVars, srchValue>>,
         delStatus' \in [Groups -> BOOLEAN]
  PROVE  InsertInv'
<1> USE DEF InsertInv
<1> DEFINE T == GroupTable(g)
           a == addr[g]
<1>1. T \in Tables /\ a \in Slots /\ phase = "delete"
  BY GroupOperands DEF DriverTypeOK, PhaseOK, DeleteSteps
<1>2. \A t \in Tables, s \in Slots :
        keyAt'[t][s] = IF t = T /\ s = a THEN Tombstone ELSE keyAt[t][s]
  BY <1>1 DEF DriverTypeOK
<1>3. \A t \in Tables, s \in Slots :
        /\ keyAt[t][s] # Sentinel => keyAt'[t][s] # Sentinel
        /\ keyAt'[t][s] \in Keys => keyAt'[t][s] = keyAt[t][s]
  BY <1>2, WordsDiffer
<1>4. NoHole'
  <2> SUFFICES ASSUME NEW t \in Tables, NEW s \in Slots, keyAt'[t][s] \in Keys,
                      keyAt'[t][s] = keyAt[t][s]
               PROVE  \E w \in Windows : \E r \in InsertLanes[w] :
                        /\ s = SlotAt(Home[keyAt[t][s]], w, r)
                        /\ \A v \in Windows : \A q \in InsertLanes[v] :
                             Before(v, q, w, r) =>
                               keyAt'[t][SlotAt(Home[keyAt[t][s]], v, q)]
                                 # Sentinel
    BY <1>3 DEF NoHole
  <2>1. \A v \in Windows : \A q \in InsertLanes[v] :
          SlotAt(Home[keyAt[t][s]], v, q) \in Slots
    BY SlotAtIsSlot, WindowsAreNumbers, InsertLanesAreLanes, InsertAssumption
  <2> QED BY <1>3, <2>1 DEF NoHole
<1>5. OneSlotPerKey'
  BY <1>2, <1>3 DEF OneSlotPerKey
<1>6. DriverTypeOK'
  <2>1. keyAt' \in [Tables -> [Slots -> KeyWords]]
    BY <1>1, <1>2 DEF DriverTypeOK, KeyWords
  <2>2. valAt' \in [Tables -> [Slots -> Values \cup {Sentinel, Tombstone}]]
    BY <1>1 DEF DriverTypeOK
  <2> QED BY <2>1, <2>2 DEF DriverTypeOK, Steps, DeleteSteps, hostVars
<1>7. OpOK'
  BY DEF OpOK, DriverTypeOK
<1>8. PhaseOK'
  BY <1>1 DEF PhaseOK, InsertSteps, DeleteSteps, DriverTypeOK, hostVars
<1>9. OldWords'
  BY <1>1, <1>2 DEF OldWords, hostVars
<1>10. \A h \in Groups : pc'[h] \notin InsertSteps
  BY <1>1, <1>8 DEF PhaseOK, hostVars
<1>11. PassedTaken'
  BY <1>10 DEF PassedTaken, InsertSteps
<1>12. AddressOK'
  <2> SUFFICES ASSUME NEW h \in Groups, pc'[h] = "tombstone"
               PROVE  keyAt'[GroupTable(h)][addr[h]] \in {op[h].key, Tombstone}
    BY <1>10 DEF AddressOK, InsertSteps, GroupTable
  <2>1. pc[h] = "tombstone"
    BY DEF DriverTypeOK
  <2>2. GroupTable(h) \in Tables /\ addr[h] \in Slots
    BY <2>1, GroupOperands DEF DriverTypeOK
  <2> QED BY <1>2, <2>1, <2>2 DEF AddressOK
<1> QED BY <1>4, <1>5, <1>6, <1>7, <1>8, <1>9, <1>11, <1>12

-----------------------------------------------------------------------------
(* The host. *)

\* Everything is free and idle at the start.
LEMMA DriverInitEstablishes ==
  ASSUME DriverInit
  PROVE  InsertInv
<1> USE WindowsAreNumbers, WordsDiffer DEF DriverInit
<1>1. DriverTypeOK
  BY DEF DriverTypeOK, NoOp, KeyWords, Steps
<1>2. OpOK /\ PhaseOK
  BY DEF OpOK, PhaseOK, InsertSteps, DeleteSteps
<1>3. OldWords /\ PassedTaken /\ AddressOK
  BY DEF OldWords, PassedTaken, AddressOK
<1>4. NoHole /\ OneSlotPerKey
  BY DEF NoHole, OneSlotPerKey
<1> QED BY <1>1, <1>2, <1>3, <1>4 DEF InsertInv

\* The first steps of the kernels.
FirstSteps == {"range", "probe", "delRange", "delScan", "search"}

\* A kernel launched when all groups are idle starts with the invariant.
LEMMA KernelStarts ==
  ASSUME InsertInv, NEW first \in FirstSteps, NEW n \in Groups,
         NEW ops \in [1 .. n -> [key : Keys, value : Values \cup {Sentinel}]],
         StartKernel(ops, first), \A g \in Groups : pc[g] = "idle",
         phase' \in {"insert", "delete", "search"}, launched' \in Nat,
         first \in InsertSteps => phase' = "insert",
         first \in DeleteSteps => phase' = "delete",
         requested' \in [Keys -> SUBSET Values], deleted' \in SUBSET Keys,
         UNCHANGED resultVars
  PROVE  InsertInv'
<1> USE DEF InsertInv
<1>1. /\ 1 .. n \subseteq Groups
      /\ DOMAIN ops = 1 .. n
  BY InsertAssumption DEF Groups
<1>2. /\ UNCHANGED <<keyAt, valAt, emptyMask, addr>>
      /\ oldKeyAt' = keyAt
      /\ active' = 1 .. n
      /\ op' = [g \in Groups |-> IF g \in 1 .. n THEN ops[g] ELSE op[g]]
      /\ pc' = [g \in Groups |-> IF g \in 1 .. n THEN first ELSE "idle"]
      /\ win' = [g \in Groups |-> 0]
  BY <1>1 DEF StartKernel
<1>3. DriverTypeOK'
  <2>1. op' \in [Groups -> [key : Keys \cup {Sentinel},
                            value : Values \cup {Sentinel}]]
    BY <1>1, <1>2 DEF DriverTypeOK
  <2>2. pc' \in [Groups -> Steps] /\ win' \in [Groups -> 0 .. NumWindows]
    BY <1>2, WindowsAreNumbers
       DEF Steps, FirstSteps, InsertSteps, DeleteSteps
  <2> QED BY <1>1, <1>2, <2>1, <2>2 DEF DriverTypeOK, resultVars
<1>4. OpOK'
  BY <1>1, <1>2, WindowsAreNumbers DEF OpOK, FirstSteps
<1>5. PhaseOK'
  BY <1>2 DEF PhaseOK, InsertSteps, DeleteSteps
<1>6. OldWords'
  BY <1>2 DEF OldWords
<1>7. PassedTaken'
  BY <1>2, WindowsAreNumbers DEF PassedTaken, FirstSteps
<1>8. AddressOK'
  BY <1>2 DEF AddressOK, FirstSteps
<1>9. NoHole' /\ OneSlotPerKey'
  BY <1>2, TableUnchanged
<1> QED BY <1>3, <1>4, <1>5, <1>6, <1>7, <1>8, <1>9

\* An insert batch.
LEMMA InsertBatchPreserves ==
  ASSUME InsertInv, NEW first \in {"range", "probe"}, InsertBatch(first),
         \A g \in Groups : pc[g] = "idle"
  PROVE  InsertInv'
<1>1. /\ phase' = "insert"
      /\ launched' \in Nat
      /\ UNCHANGED <<deleted, resultVars>>
  BY DEF InsertBatch, EnterPhase, InsertInv, DriverTypeOK
<1>2. PICK n \in Groups : \E ops \in [1 .. n -> [key : Keys, value : Values]] :
        /\ StartKernel(ops, first)
        /\ requested' =
             [k \in Keys |->
                LET named == {g \in 1 .. n : ops[g].key = k}
                IN  IF named = {} THEN requested[k]
                                  ELSE {ops[g].value : g \in named}]
  BY DEF InsertBatch
<1>3. PICK ops \in [1 .. n -> [key : Keys, value : Values]] :
        /\ StartKernel(ops, first)
        /\ requested' =
             [k \in Keys |->
                LET named == {g \in 1 .. n : ops[g].key = k}
                IN  IF named = {} THEN requested[k]
                                  ELSE {ops[g].value : g \in named}]
  BY <1>2
<1>4. requested' \in [Keys -> SUBSET Values]
  BY <1>3 DEF InsertInv, DriverTypeOK
<1>5. ops \in [1 .. n -> [key : Keys, value : Values \cup {Sentinel}]]
  OBVIOUS
<1>6. deleted' \in SUBSET Keys
  BY <1>1 DEF InsertInv, DriverTypeOK
<1> QED BY <1>1, <1>3, <1>4, <1>5, <1>6, KernelStarts
        DEF FirstSteps, DeleteSteps

\* The operations of a delete or search batch.
LEMMA KeyOnlyOps ==
  ASSUME NEW n \in Groups, NEW keys \in [1 .. n -> Keys]
  PROVE  [g \in 1 .. n |-> [key |-> keys[g], value |-> Sentinel]]
           \in [1 .. n -> [key : Keys, value : Values \cup {Sentinel}]]
OBVIOUS

\* A delete batch.
LEMMA DeleteBatchPreserves ==
  ASSUME InsertInv, NEW first \in {"delRange", "delScan"}, DeleteBatch(first),
         \A g \in Groups : pc[g] = "idle"
  PROVE  InsertInv'
<1>1. /\ phase' = "delete"
      /\ launched' \in Nat
      /\ UNCHANGED <<requested, resultVars>>
  BY DEF DeleteBatch, EnterPhase, InsertInv, DriverTypeOK
<1>2. PICK n \in Groups : \E keys \in [1 .. n -> Keys] :
        /\ StartKernel([g \in 1 .. n |->
                          [key |-> keys[g], value |-> Sentinel]], first)
        /\ deleted' = deleted \cup {keys[g] : g \in 1 .. n}
  BY DEF DeleteBatch
<1>3. PICK keys \in [1 .. n -> Keys] :
        /\ StartKernel([g \in 1 .. n |->
                          [key |-> keys[g], value |-> Sentinel]], first)
        /\ deleted' = deleted \cup {keys[g] : g \in 1 .. n}
  BY <1>2
<1>4. deleted' \in SUBSET Keys /\ requested' \in [Keys -> SUBSET Values]
  BY <1>1, <1>3 DEF InsertInv, DriverTypeOK
<1> QED BY <1>1, <1>3, <1>4, KeyOnlyOps, KernelStarts
        DEF FirstSteps, InsertSteps

\* A search batch.
LEMMA SearchBatchPreserves ==
  ASSUME InsertInv, SearchBatch("search"), \A g \in Groups : pc[g] = "idle"
  PROVE  InsertInv'
<1>1. /\ phase' = "search"
      /\ launched' \in Nat
      /\ UNCHANGED <<requested, deleted, resultVars>>
  BY DEF SearchBatch, EnterPhase, InsertInv, DriverTypeOK
<1>2. PICK n \in Groups : \E keys \in [1 .. n -> Keys] :
        StartKernel([g \in 1 .. n |->
                       [key |-> keys[g], value |-> Sentinel]], "search")
  BY DEF SearchBatch
<1>3. PICK keys \in [1 .. n -> Keys] :
        StartKernel([g \in 1 .. n |->
                       [key |-> keys[g], value |-> Sentinel]], "search")
  BY <1>2
<1>4. deleted' \in SUBSET Keys /\ requested' \in [Keys -> SUBSET Values]
  BY <1>1 DEF InsertInv, DriverTypeOK
<1> QED BY <1>1, <1>3, <1>4, KeyOnlyOps, KernelStarts
        DEF FirstSteps, InsertSteps, DeleteSteps

-----------------------------------------------------------------------------
(* Scans, and the size of a table. *)

\* A key sits where the lanes that are still in the loop reach it without passing a
\* free slot.
ReachedBy(lanes, cells, k) ==
  \E w \in Windows : \E r \in lanes[w] :
    /\ cells[SlotAt(Home[k], w, r)] = k
    /\ \A v \in Windows : \A q \in lanes[v] :
         Before(v, q, w, r) => cells[SlotAt(Home[k], v, q)] # Sentinel

\* A scan finds every key that sits where it can reach it.
LEMMA ScanFinds ==
  ASSUME NEW lanes, \A w \in Windows : lanes[w] \subseteq Lanes,
         NEW cells, NEW k, ReachedBy(lanes, cells, k), k # Sentinel
  PROVE  Hits(cells, Home[k], k, Sentinel, lanes) # {}
<1> DEFINE Sees(w, r) == r \in lanes[w] /\ cells[SlotAt(Home[k], w, r)] = k
           Seen == {w \in Windows : \E r \in lanes[w] : Sees(w, r)}
<1>1. PICK w0 \in Windows : \E r \in lanes[w0] :
        /\ Sees(w0, r)
        /\ \A v \in Windows : \A q \in lanes[v] :
             Before(v, q, w0, r) => cells[SlotAt(Home[k], v, q)] # Sentinel
  BY DEF ReachedBy
<1>2. PICK r0 \in lanes[w0] :
        /\ Sees(w0, r0)
        /\ \A v \in Windows : \A q \in lanes[v] :
             Before(v, q, w0, r0) => cells[SlotAt(Home[k], v, q)] # Sentinel
  BY <1>1
<1>3. \A w \in Windows : lanes[w] \subseteq Lanes
  OBVIOUS
<1>4. PICK w \in Seen : \A v \in Seen : w <= v
  <2>1. Seen \in SUBSET Nat /\ Seen # {}
    BY <1>2, WindowsAreNumbers
  <2> HIDE DEF Seen
  <2> QED BY <2>1, LeastNatural
<1>5. w \in Windows /\ w <= w0 /\ w \in Nat /\ w0 \in Nat
  BY <1>2, <1>4, WindowsAreNumbers
<1> DEFINE These == {r \in lanes[w] : Sees(w, r)}
<1>6. PICK r \in These : \A q \in These : r <= q
  <2>1. These \in SUBSET Nat /\ These # {}
    BY <1>3, <1>4, <1>5, WindowsAreNumbers
  <2> HIDE DEF These
  <2> QED BY <2>1, LeastNatural
<1>7. r \in Lanes /\ Lanes \subseteq Nat
  BY <1>3, <1>5, <1>6, WindowsAreNumbers
<1>8. \A q \in lanes[w] : q < r => cells[SlotAt(Home[k], w, q)] # k
  <2> SUFFICES ASSUME NEW q \in lanes[w], q < r, cells[SlotAt(Home[k], w, q)] = k
               PROVE  FALSE
    OBVIOUS
  <2>1. q \in These
    OBVIOUS
  <2>2. r <= q /\ q \in Nat /\ r \in Nat
    BY <1>3, <1>5, <1>6, <1>7, <2>1
  <2> QED BY <2>2
<1>9. \A v \in Windows : v < w => ~Stops(cells, Home[k], k, Sentinel, lanes, v)
  <2> SUFFICES ASSUME NEW v \in Windows, v < w, NEW q \in lanes[v],
                      cells[SlotAt(Home[k], v, q)] \in {k, Sentinel}
               PROVE  FALSE
    BY DEF Stops
  <2>1. v \in Nat /\ q \in Lanes
    BY <1>3, WindowsAreNumbers
  <2>2. v \notin Seen
    BY <1>4, <1>5, <2>1
  <2>3. cells[SlotAt(Home[k], v, q)] # k
    BY <2>2
  <2>4. Before(v, q, w0, r0)
    BY <1>5, <2>1 DEF Before
  <2> QED BY <1>2, <2>1, <2>3, <2>4
<1>10. <<w, r>> \in Hits(cells, Home[k], k, Sentinel, lanes)
  BY <1>5, <1>6, <1>7, <1>8, <1>9 DEF Hits
<1> QED BY <1>10

\* The slot at a distance from the home of a key.
AtOffset(home, o) == (home + o) % Capacity

\* Every slot has an offset.
LEMMA SlotHasOffset ==
  ASSUME NEW home \in Slots, NEW s \in Slots
  PROVE  \E o \in 0 .. Capacity - 1 : AtOffset(home, o) = s
<1> DEFINE C == Capacity
<1>1. C \in Nat \ {0} /\ home \in 0 .. C - 1 /\ s \in 0 .. C - 1
  BY ProbeAssumption DEF Slots
<1>2. CASE home <= s
  <2>1. s - home \in 0 .. C - 1 /\ home + (s - home) = s
    BY <1>1, <1>2
  <2>2. s % C = s
    BY <1>1
  <2> QED BY <2>1, <2>2 DEF AtOffset
<1>3. CASE s < home
  <2>1. s + C - home \in 0 .. C - 1 /\ home + (s + C - home) = s + C
    BY <1>1, <1>3
  <2>2. (s + C) % C = s
    BY <1>1
  <2> QED BY <2>1, <2>2 DEF AtOffset
<1> QED BY <1>1, <1>2, <1>3

\* A table has finitely many slots, and a kernel finitely many groups.
LEMMA TableIsFinite ==
  /\ IsFiniteSet(Slots) /\ Cardinality(Slots) = Capacity
  /\ IsFiniteSet(Groups) /\ Cardinality(Groups) = BatchSize
<1>1. Capacity \in Nat /\ BatchSize \in Nat
  BY ProbeAssumption, InsertAssumption
<1>2. IsFiniteSet(1 .. BatchSize) /\ Cardinality(1 .. BatchSize) = BatchSize
  <2>1. CASE BatchSize = 0
    <3>1. 1 .. BatchSize = {}
      BY <2>1
    <3> QED BY <2>1, <3>1, FS_EmptySet
  <2>2. CASE BatchSize > 0
    <3>1. 1 \in Int /\ BatchSize \in Int /\ ~(1 > BatchSize) /\ BatchSize - 1 + 1 = BatchSize
      BY <1>1, <2>2
    <3> QED BY <3>1, FS_Interval
  <2> QED BY <1>1, <2>1, <2>2
<1> QED BY <1>1, <1>2, NumbersBelow DEF Slots, Groups
=============================================================================
