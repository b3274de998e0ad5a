--------------------------- MODULE HoHTable_proofs ---------------------------
(***************************************************************************)
(* Theorems about the two-level hash table, for every capacity, group      *)
(* size, batch size, number of batches and choice of home slots.           *)
(***************************************************************************)
EXTENDS HoHTable, BatchDriver_proofs

\* The types of the variables the two-level table adds.
RangeTypeOK ==
  /\ range \in [Tables -> RangeWords]
  /\ oldRange \in [Tables -> RangeWords]
  /\ unique \in [Tables -> 0 .. CounterMod - 1]
  /\ pastUnique \in [Tables -> SUBSET (0 .. CounterMod - 1)]
  /\ loaded \in [Groups -> 0 .. CounterMod - 1]
  /\ hitLane \in [Groups -> Lanes \cup {NoLane}]
  /\ freeCheck \in [Groups -> BOOLEAN]

HoHInv == InsertInv /\ RangeTypeOK

\* The wrapped counter stays a counter.
LEMMA CounterStep ==
  ASSUME NEW n \in 0 .. CounterMod - 1
  PROVE  /\ (n + 1) % CounterMod \in 0 .. CounterMod - 1
         /\ LessOne(n) \in 0 .. CounterMod - 1
BY HoHAssumption DEF LessOne

\* A scan hits a slot of the table, and the slot holds the key.
LEMMA HitsAreSlots ==
  ASSUME NEW cells, NEW k \in Keys, NEW p \in
           Hits(cells, Home[k], k, Sentinel, EarlyLanes)
  PROVE  /\ p[1] \in Windows
         /\ p[2] \in Lanes
         /\ SlotAt(Home[k], p[1], p[2]) \in Slots
         /\ cells[SlotAt(Home[k], p[1], p[2])] = k
<1>1. /\ p \in Windows \X Lanes
      /\ cells[SlotAt(Home[k], p[1], p[2])] = k
  BY DEF Hits
<1>2. p[1] \in Windows /\ p[2] \in Lanes
  BY <1>1
<1>3. SlotAt(Home[k], p[1], p[2]) \in Slots
  BY <1>2, SlotAtIsSlot, WindowsAreNumbers, InsertAssumption
<1> QED BY <1>1, <1>2, <1>3

LEMMA InitEstablishes == Init => HoHInv
<1> SUFFICES ASSUME Init PROVE HoHInv
  OBVIOUS
<1>1. InsertInv
  BY DriverInitEstablishes DEF Init
<1>2. RangeTypeOK
  <2>1. 0 \in 0 .. CounterMod - 1
    BY HoHAssumption, ProbeAssumption
  <2> QED BY <2>1 DEF Init, RangeTypeOK, RangeWords
<1> QED BY <1>1, <1>2 DEF HoHInv

-----------------------------------------------------------------------------
(* The host. *)

LEMMA LaunchPreserves ==
  ASSUME HoHInv, LaunchInsert \/ LaunchDelete \/ LaunchSearch
  PROVE  HoHInv'
<1>1. /\ InsertInv
      /\ \A g \in Groups : pc[g] = "idle"
  BY DEF HoHInv, LaunchInsert, LaunchDelete, LaunchSearch, FreshKernel, Quiet
<1>2. InsertInv'
  <2>1. CASE LaunchInsert
    BY <1>1, <2>1, InsertBatchPreserves DEF LaunchInsert
  <2>2. CASE LaunchDelete
    BY <1>1, <2>2, DeleteBatchPreserves DEF LaunchDelete
  <2>3. CASE LaunchSearch
    BY <1>1, <2>3, SearchBatchPreserves DEF LaunchSearch
  <2> QED BY <2>1, <2>2, <2>3
<1>3. FreshKernel
  BY DEF LaunchInsert, LaunchDelete, LaunchSearch
<1>4. RangeTypeOK'
  BY <1>3 DEF HoHInv, FreshKernel, RangeTypeOK
<1> QED BY <1>2, <1>4 DEF HoHInv

-----------------------------------------------------------------------------
(* The steps of the groups. *)

\* The insert kernel.
LEMMA InsertStepPreserves ==
  ASSUME HoHInv, NEW g \in Groups,
         \/ ReadRange(g) \/ ClaimRange(g) \/ InsertBallot(g)
         \/ InsertClaim(g) \/ AddUnique(g) \/ InsertStore(g)
  PROVE  HoHInv'
<1> USE DEF HoHInv
<1> DEFINE t == GroupTable(g)
<1>a. /\ delStatus \in [Groups -> BOOLEAN]
      /\ srchValue \in [Groups -> Values \cup {Sentinel, Tombstone}]
      /\ valAt \in [Tables -> [Slots -> Values \cup {Sentinel, Tombstone}]]
  BY DEF InsertInv, DriverTypeOK
<1>b. pc[g] # "idle" => t \in Tables
  BY GroupOperands DEF InsertInv
<1>1. CASE ReadRange(g)
  <2>1. PICK seen \in {range[t], oldRange[t]} :
          GoTo(g, IF seen = t THEN "probe" ELSE "claimRange")
    BY <1>1 DEF ReadRange
  <2>2. PICK to \in {"probe", "claimRange"} : pc' = [pc EXCEPT ![g] = to]
    BY <2>1 DEF GoTo
  <2>3. /\ pc[g] = "range"
        /\ UNCHANGED <<keyAt, valAt, oldKeyAt, op, win, emptyMask, addr,
                       hostVars, resultVars>>
    BY <1>1 DEF ReadRange, insertOnly
  <2>4. InsertInv'
    BY <1>a, <2>2, <2>3, PlainStepPreserves
       DEF PlainMoves, Steps, InsertSteps, resultVars
  <2> QED BY <1>1, <2>4 DEF ReadRange, insertOnly, countVars, RangeTypeOK
<1>2. CASE ClaimRange(g)
  <2>1. /\ pc[g] = "claimRange"
        /\ pc' = [pc EXCEPT ![g] = "probe"]
        /\ UNCHANGED <<keyAt, valAt, oldKeyAt, op, win, emptyMask, addr,
                       hostVars, resultVars>>
    BY <1>2 DEF ClaimRange, GoTo
  <2>2. InsertInv'
    BY <1>a, <2>1, PlainStepPreserves
       DEF PlainMoves, Steps, InsertSteps, resultVars
  <2>3. t \in Tables
    BY <1>b, <2>1
  <2>4. range' \in [Tables -> RangeWords]
    BY <1>2, <2>3 DEF ClaimRange, RangeTypeOK, RangeWords
  <2> QED BY <1>2, <2>2, <2>4 DEF ClaimRange, countVars, RangeTypeOK
<1>3. CASE InsertBallot(g)
  <2>1. InsertInv'
    BY <1>3, BallotPreserves DEF InsertBallot, insertOnly
  <2> QED BY <1>3, <2>1 DEF InsertBallot, insertOnly, countVars, RangeTypeOK
<1>4. CASE InsertClaim(g)
  <2>1. InsertInv'
    BY <1>4, ClaimPreserves DEF InsertClaim, insertOnly
  <2> QED BY <1>4, <2>1 DEF InsertClaim, insertOnly, countVars, RangeTypeOK
<1>5. CASE AddUnique(g)
  <2>1. /\ pc[g] = "count"
        /\ pc' = [pc EXCEPT ![g] = "store"]
        /\ UNCHANGED <<keyAt, valAt, oldKeyAt, op, win, emptyMask, addr,
                       hostVars, resultVars>>
    BY <1>5 DEF AddUnique, GoTo
  <2>2. InsertInv'
    BY <1>a, <2>1, PlainStepPreserves
       DEF PlainMoves, Steps, InsertSteps, resultVars
  <2>3. t \in Tables
    BY <1>b, <2>1
  <2>4. (unique[t] + 1) % CounterMod \in 0 .. CounterMod - 1
    BY <2>3, CounterStep DEF RangeTypeOK
  <2>5. /\ unique' \in [Tables -> 0 .. CounterMod - 1]
        /\ pastUnique' \in [Tables -> SUBSET (0 .. CounterMod - 1)]
    BY <1>5, <2>3, <2>4 DEF AddUnique, RangeTypeOK
  <2> QED BY <1>5, <2>2, <2>5 DEF AddUnique, RangeTypeOK
<1>6. CASE InsertStore(g)
  <2>1. /\ pc[g] = "store"
        /\ pc' = [pc EXCEPT ![g] = "idle"]
        /\ UNCHANGED <<keyAt, oldKeyAt, op, win, emptyMask, addr,
                       hostVars, resultVars>>
        /\ valAt' = [valAt EXCEPT ![t][addr[g]] = op[g].value]
    BY <1>6 DEF InsertStore, StoreValue, GoTo, insertOnly
  <2>2. valAt' \in [Tables -> [Slots -> Values \cup {Sentinel, Tombstone}]]
    <3>1. op[g].value \in Values \cup {Sentinel} /\ t \in Tables
      BY <2>1, GroupOperands DEF InsertInv
    <3> QED BY <1>a, <2>1, <3>1
  <2>3. InsertInv'
    BY <1>a, <2>1, <2>2, PlainStepPreserves DEF Steps, resultVars
  <2> QED BY <1>6, <2>3 DEF InsertStore, insertOnly, countVars, RangeTypeOK
<1> QED BY <1>1, <1>2, <1>3, <1>4, <1>5, <1>6

\* The delete kernel.
LEMMA DeleteStepPreserves ==
  ASSUME HoHInv, NEW g \in Groups,
         \/ DeleteRange(g) \/ DeleteScan(g) \/ WriteTombstone(g)
         \/ LoadCount(g) \/ StoreCount(g) \/ FreeRange(g)
  PROVE  HoHInv'
<1> USE DEF HoHInv
<1> DEFINE t == GroupTable(g)
           k == op[g].key
<1>a. /\ delStatus \in [Groups -> BOOLEAN]
      /\ srchValue \in [Groups -> Values \cup {Sentinel, Tombstone}]
      /\ valAt \in [Tables -> [Slots -> Values \cup {Sentinel, Tombstone}]]
  BY DEF InsertInv, DriverTypeOK
<1>b. pc[g] # "idle" => t \in Tables /\ k \in Keys
  BY GroupOperands DEF InsertInv
<1>1. CASE DeleteRange(g)
  <2>1. PICK seen \in {range[t], oldRange[t]} :
          GoTo(g, IF seen = t THEN "delScan" ELSE "idle")
    BY <1>1 DEF DeleteRange
  <2>2. PICK to \in {"delScan", "idle"} : pc' = [pc EXCEPT ![g] = to]
    BY <2>1 DEF GoTo
  <2>3. /\ pc[g] = "delRange"
        /\ UNCHANGED <<keyAt, valAt, oldKeyAt, op, win, emptyMask, addr,
                       hostVars, resultVars>>
    BY <1>1 DEF DeleteRange, deleteFixed, resultVars
  <2>4. InsertInv'
    BY <1>a, <2>2, <2>3, PlainStepPreserves
       DEF PlainMoves, Steps, DeleteSteps, resultVars
  <2> QED BY <1>1, <2>4 DEF DeleteRange, deleteFixed, countVars, RangeTypeOK
<1>2. CASE DeleteScan(g)
  <2>1. /\ pc[g] = "delScan"
        /\ UNCHANGED <<keyAt, valAt, oldKeyAt, op, win, emptyMask,
                       hostVars, resultVars>>
        /\ UNCHANGED <<range, oldRange, countVars>>
    BY <1>2 DEF DeleteScan, deleteFixed, resultVars
  <2>2. PICK cells \in {keyAt[t], oldKeyAt[t]} :
          LET hits == Hits(cells, Home[k], k, Sentinel, EarlyLanes)
          IN  \/ \E p \in hits :
                   /\ addr' = [addr EXCEPT ![g] = SlotAt(Home[k], p[1], p[2])]
                   /\ hitLane' = [hitLane EXCEPT ![g] = p[2]]
                   /\ freeCheck' = [freeCheck EXCEPT ![g] = p[2] # 0]
                   /\ GoTo(g, "tombstone")
              \/ /\ hits = {}
                 /\ freeCheck' = [freeCheck EXCEPT ![g] = TRUE]
                 /\ GoTo(g, "idle")
                 /\ UNCHANGED <<addr, hitLane>>
    BY <1>2 DEF DeleteScan
  <2>3. CASE \E p \in Hits(cells, Home[k], k, Sentinel, EarlyLanes) :
               /\ addr' = [addr EXCEPT ![g] = SlotAt(Home[k], p[1], p[2])]
               /\ hitLane' = [hitLane EXCEPT ![g] = p[2]]
               /\ freeCheck' = [freeCheck EXCEPT ![g] = p[2] # 0]
               /\ GoTo(g, "tombstone")
    <3>1. PICK p \in Hits(cells, Home[k], k, Sentinel, EarlyLanes) :
            /\ addr' = [addr EXCEPT ![g] = SlotAt(Home[k], p[1], p[2])]
            /\ hitLane' = [hitLane EXCEPT ![g] = p[2]]
            /\ freeCheck' = [freeCheck EXCEPT ![g] = p[2] # 0]
            /\ pc' = [pc EXCEPT ![g] = "tombstone"]
      BY <2>3 DEF GoTo
    <3>2. k \in Keys
      BY <1>b, <2>1
    <3>3. /\ p[2] \in Lanes
          /\ SlotAt(Home[k], p[1], p[2]) \in Slots
          /\ cells[SlotAt(Home[k], p[1], p[2])] = k
      BY <3>2, HitsAreSlots
    <3>4. InsertInv'
      BY <2>1, <3>1, <3>3, ScanPreserves
    <3> QED BY <2>1, <3>1, <3>3, <3>4 DEF countVars, RangeTypeOK
  <2>4. CASE /\ freeCheck' = [freeCheck EXCEPT ![g] = TRUE]
             /\ GoTo(g, "idle")
             /\ UNCHANGED <<addr, hitLane>>
    <3>1. pc' = [pc EXCEPT ![g] = "idle"]
      BY <2>4 DEF GoTo
    <3>2. InsertInv'
      BY <1>a, <2>1, <2>4, <3>1, PlainStepPreserves DEF Steps, resultVars
    <3> QED BY <2>1, <2>4, <3>2 DEF countVars, RangeTypeOK
  <2> QED BY <2>2, <2>3, <2>4
<1>3. CASE WriteTombstone(g)
  <2>1. /\ pc[g] = "tombstone"
        /\ pc' = [pc EXCEPT ![g] = "loadCount"]
        /\ keyAt' = [keyAt EXCEPT ![t][addr[g]] = Tombstone]
        /\ valAt' = [valAt EXCEPT ![t][addr[g]] = Tombstone]
        /\ UNCHANGED <<oldKeyAt, op, win, emptyMask, addr, hostVars,
                       resultVars>>
    BY <1>3 DEF WriteTombstone, GoTo, deleteFixed, resultVars
  <2>2. InsertInv'
    BY <1>a, <2>1, TombstonePreserves DEF resultVars
  <2> QED BY <1>3, <2>2
          DEF WriteTombstone, deleteFixed, countVars, RangeTypeOK
<1>4. CASE LoadCount(g)
  <2>1. /\ pc[g] = "loadCount"
        /\ pc' = [pc EXCEPT ![g] = "storeCount"]
        /\ UNCHANGED <<keyAt, valAt, oldKeyAt, op, win, emptyMask, addr,
                       hostVars, resultVars>>
    BY <1>4 DEF LoadCount, GoTo, deleteFixed, resultVars
  <2>2. InsertInv'
    BY <1>a, <2>1, PlainStepPreserves
       DEF PlainMoves, Steps, DeleteSteps, resultVars
  <2>3. loaded' \in [Groups -> 0 .. CounterMod - 1]
    BY <1>4, <1>b, <2>1 DEF LoadCount, RangeTypeOK
  <2> QED BY <1>4, <2>2, <2>3 DEF LoadCount, deleteFixed, RangeTypeOK
<1>5. CASE StoreCount(g)
  <2>1. /\ pc[g] = "storeCount"
        /\ pc' = [pc EXCEPT ![g] = "idle"]
        /\ UNCHANGED <<keyAt, valAt, oldKeyAt, op, win, emptyMask, addr,
                       hostVars, resultVars>>
    BY <1>5 DEF StoreCount, GoTo, deleteFixed, resultVars
  <2>2. InsertInv'
    BY <1>a, <2>1, PlainStepPreserves DEF Steps, resultVars
  <2>3. LessOne(loaded[g]) \in 0 .. CounterMod - 1
    BY CounterStep DEF RangeTypeOK
  <2>4. /\ unique' \in [Tables -> 0 .. CounterMod - 1]
        /\ pastUnique' \in [Tables -> SUBSET (0 .. CounterMod - 1)]
    BY <1>5, <1>b, <2>1, <2>3 DEF StoreCount, RangeTypeOK
  <2>5. freeCheck' \in [Groups -> BOOLEAN]
    BY <1>5 DEF StoreCount, RangeTypeOK
  <2> QED BY <1>5, <2>2, <2>4, <2>5 DEF StoreCount, deleteFixed, RangeTypeOK
<1>6. CASE FreeRange(g)
  <2>1. /\ UNCHANGED <<insertVars, hostVars, srchValue>>
        /\ UNCHANGED <<oldRange, countVars, hitLane>>
        /\ freeCheck' = [freeCheck EXCEPT ![g] = FALSE]
    BY <1>6 DEF FreeRange, deleteFixed, insertVars
  <2>2. delStatus' \in [Groups -> BOOLEAN]
    BY <1>6, <1>a DEF FreeRange
  <2>3. InsertInv'
    BY <1>a, <2>1, <2>2, ResultStepPreserves
  <2>4. range' = [range EXCEPT ![t] = 0] \/ range' = range
    BY <1>6 DEF FreeRange
  <2>5. range' \in [Tables -> RangeWords]
    BY <2>4 DEF RangeTypeOK, RangeWords
  <2> QED BY <2>1, <2>3, <2>5 DEF countVars, RangeTypeOK
<1> QED BY <1>1, <1>2, <1>3, <1>4, <1>5, <1>6

\* The search kernel.
LEMMA SearchStepPreserves ==
  ASSUME HoHInv, NEW g \in Groups, Search(g)
  PROVE  HoHInv'
<1> USE DEF HoHInv
<1> DEFINE k == op[g].key
           t == TableOf[k]
           hits == Hits(keyAt[t], Home[k], k, Sentinel, EarlyLanes)
<1>a. /\ delStatus \in [Groups -> BOOLEAN]
      /\ srchValue \in [Groups -> Values \cup {Sentinel, Tombstone}]
      /\ valAt \in [Tables -> [Slots -> Values \cup {Sentinel, Tombstone}]]
  BY DEF InsertInv, DriverTypeOK
<1>1. /\ pc[g] = "search"
      /\ pc' = [pc EXCEPT ![g] = "idle"]
      /\ UNCHANGED <<keyAt, valAt, oldKeyAt, op, win, emptyMask, addr,
                     hostVars, delStatus>>
  BY DEF Search, GoTo
<1>2. k \in Keys /\ t \in Tables
  BY <1>1, GroupOperands DEF InsertInv, GroupTable
<1>3. SearchResult(k) \in Values \cup {Sentinel, Tombstone}
  <2>1. CASE range[t] # t \/ hits = {}
    BY <2>1 DEF SearchResult
  <2>2. CASE ~(range[t] # t \/ hits = {})
    <3> DEFINE p == CHOOSE q \in hits : TRUE
    <3>1. p \in hits
      BY <2>2
    <3>2. SlotAt(Home[k], p[1], p[2]) \in Slots
      BY <1>2, <3>1, HitsAreSlots
    <3>3. SearchResult(k) = valAt[t][SlotAt(Home[k], p[1], p[2])]
      BY <2>2 DEF SearchResult
    <3> HIDE DEF p
    <3> QED BY <1>a, <1>2, <3>2, <3>3
  <2> QED BY SMTT(30), <2>1, <2>2
<1>4. srchValue' \in [Groups -> Values \cup {Sentinel, Tombstone}]
  BY <1>a, <1>3 DEF Search
<1>5. InsertInv'
  BY <1>a, <1>1, <1>4, PlainStepPreserves DEF Steps
<1> QED BY <1>5 DEF Search, countVars, RangeTypeOK

LEMMA StutterPreserves ==
  ASSUME HoHInv, UNCHANGED vars
  PROVE  HoHInv'
<1>1. InsertInv'
  <2>1. UNCHANGED <<insertVars, hostVars, delStatus, srchValue>>
    BY DEF vars, resultVars
  <2>2. /\ delStatus \in [Groups -> BOOLEAN]
        /\ srchValue \in [Groups -> Values \cup {Sentinel, Tombstone}]
    BY DEF HoHInv, InsertInv, DriverTypeOK
  <2> QED BY <2>1, <2>2, ResultStepPreserves DEF HoHInv
<1>2. RangeTypeOK'
  BY DEF HoHInv, vars, countVars, RangeTypeOK
<1> QED BY <1>1, <1>2 DEF HoHInv

-----------------------------------------------------------------------------
(* The theorems. *)

LEMMA NextPreserves == HoHInv /\ [Next]_vars => HoHInv'
<1> SUFFICES ASSUME HoHInv, [Next]_vars
             PROVE  HoHInv'
  OBVIOUS
<1>1. CASE LaunchInsert \/ LaunchDelete \/ LaunchSearch
  BY <1>1, LaunchPreserves
<1>2. ASSUME NEW g \in Groups, GroupStep(g)
      PROVE  HoHInv'
  <2>1. \/ ReadRange(g) \/ ClaimRange(g) \/ InsertBallot(g)
        \/ InsertClaim(g) \/ AddUnique(g) \/ InsertStore(g)
        \/ DeleteRange(g) \/ DeleteScan(g) \/ WriteTombstone(g)
        \/ LoadCount(g) \/ StoreCount(g) \/ FreeRange(g)
        \/ Search(g)
    BY <1>2 DEF GroupStep
  <2> QED BY <2>1, InsertStepPreserves, DeleteStepPreserves,
             SearchStepPreserves
<1>3. CASE Finished \/ UNCHANGED vars
  BY <1>3, StutterPreserves DEF Finished
<1> QED BY <1>1, <1>2, <1>3 DEF Next

\* Every reachable state satisfies the inductive invariant.
THEOREM Invariant == Spec => []HoHInv
BY InitEstablishes, NextPreserves, PTL DEF Spec

\* Every variable keeps its type: no group ever addresses a slot outside the
\* table, and the unsigned count stays in its width.
THEOREM TypeCorrect == Spec => []TypeOK
<1>1. HoHInv => TypeOK
  BY DEF HoHInv, InsertInv, RangeTypeOK, TypeOK
<1> QED BY <1>1, Invariant, PTL

\* No key ever sits behind a free slot of its probe sequence
\* (insertgpu_inner_hashtable_CG), however many groups race.
THEOREM NoHoleAlways == Spec => []NoHole
<1>1. HoHInv => NoHole
  BY DEF HoHInv, InsertInv
<1> QED BY <1>1, Invariant, PTL

\* No two slots of a table ever hold the same key, however many groups
\* insert it in one kernel or in later ones.
THEOREM KeysAreUnique == Spec => []OneSlotPerKey
<1>1. HoHInv => OneSlotPerKey
  BY DEF HoHInv, InsertInv
<1> QED BY <1>1, Invariant, PTL

\* The address a group stores its value through is the address of its key.
THEOREM AddressesAreRight == Spec => []ValueAddressIsOfKey
<1>1. HoHInv => ValueAddressIsOfKey
  BY DEF HoHInv, InsertInv, AddressOK, ValueAddressIsOfKey
<1> QED BY <1>1, Invariant, PTL

\* A word of a table only ever goes from free to a key and from a key to a
\* tombstone, also when several groups delete the same key: no step brings
\* a deleted key back or frees a slot that a probe sequence runs through.
THEOREM SlotsOnlyMoveForward == Spec => SlotsMoveForward
<1> DEFINE Forward(t, s) ==
             keyAt'[t][s] # keyAt[t][s] =>
               \/ keyAt[t][s] = Sentinel /\ keyAt'[t][s] \in Keys
               \/ keyAt[t][s] \in Keys /\ keyAt'[t][s] = Tombstone
<1>1. ASSUME HoHInv, [Next]_vars, NEW t \in Tables, NEW s \in Slots
      PROVE  Forward(t, s)
  <2>1. CASE keyAt' = keyAt
    BY <2>1
  <2>2. ASSUME NEW g \in Groups, InsertClaim(g)
        PROVE  Forward(t, s)
    <3>1. pc[g] = "claim" /\ Claim(g, "count", "idle")
      BY <2>2 DEF InsertClaim, Claim
    <3>2. \/ keyAt' = keyAt
          \/ \E r \in emptyMask[g] :
               /\ keyAt[GroupTable(g)][LaneSlot(g, r)] = Sentinel
               /\ keyAt' = [keyAt EXCEPT ![GroupTable(g)][LaneSlot(g, r)] =
                                           op[g].key]
      BY <3>1 DEF Claim
    <3>3. op[g].key \in Keys
      BY <1>1, <3>1, GroupOperands DEF HoHInv, InsertInv
    <3>4. keyAt \in [Tables -> [Slots -> KeyWords]]
      BY <1>1 DEF HoHInv, InsertInv, DriverTypeOK
    <3>5. ASSUME NEW u, NEW a, keyAt[u][a] = Sentinel,
                 keyAt' = [keyAt EXCEPT ![u][a] = op[g].key]
          PROVE  Forward(t, s)
      BY <3>3, <3>4, <3>5
    <3> QED BY <3>2, <3>5
  <2>3. ASSUME NEW g \in Groups, WriteTombstone(g)
        PROVE  Forward(t, s)
    <3>1. /\ pc[g] = "tombstone"
          /\ keyAt' = [keyAt EXCEPT ![GroupTable(g)][addr[g]] = Tombstone]
      BY <2>3 DEF WriteTombstone
    <3>2. /\ op[g].key \in Keys
          /\ keyAt[GroupTable(g)][addr[g]] \in {op[g].key, Tombstone}
      BY <1>1, <3>1, GroupOperands DEF HoHInv, InsertInv, AddressOK
    <3> QED BY <1>1, <3>1, <3>2 DEF HoHInv, InsertInv, DriverTypeOK
  <2>4. \/ keyAt' = keyAt
        \/ \E g \in Groups : InsertClaim(g) \/ WriteTombstone(g)
    <3>1. CASE LaunchInsert
      BY <3>1 DEF LaunchInsert, InsertBatch, StartKernel
    <3>2. CASE LaunchDelete
      BY <3>2 DEF LaunchDelete, DeleteBatch, StartKernel
    <3>3. CASE LaunchSearch
      BY <3>3 DEF LaunchSearch, SearchBatch, StartKernel
    <3>4. CASE Finished \/ UNCHANGED vars
      BY <3>4 DEF Finished, vars, insertVars
    <3>5. ASSUME NEW g \in Groups, GroupStep(g)
          PROVE  keyAt' = keyAt \/ InsertClaim(g) \/ WriteTombstone(g)
      BY <3>5 DEF GroupStep, ReadRange, ClaimRange, InsertBallot, Ballot,
                  AddUnique, InsertStore, StoreValue, DeleteRange, DeleteScan,
                  LoadCount, StoreCount, FreeRange, Search
    <3> QED BY <1>1, <3>1, <3>2, <3>3, <3>4, <3>5 DEF Next
  <2> QED BY <2>1, <2>2, <2>3, <2>4
<1>2. HoHInv /\ [Next]_vars =>
        [\A t \in Tables, s \in Slots :
           keyAt'[t][s] # keyAt[t][s] =>
             \/ keyAt[t][s] = Sentinel /\ keyAt'[t][s] \in Keys
             \/ keyAt[t][s] \in Keys /\ keyAt'[t][s] = Tombstone]_vars
  BY <1>1
<1> QED BY <1>2, Invariant, PTL DEF SlotsMoveForward, Spec

-----------------------------------------------------------------------------
(* The inductive invariant: counts and ranges. *)

\* The keys of a table when the running kernel started.
OldLive(t) == {k \in Keys : \E s \in Slots : oldKeyAt[t][s] = k}

\* The groups of table t that have stored their decrement, and the keys that are
\* still to be taken from the count.
Stored(t) ==
  {g \in Groups : hitLane[g] # NoLane /\ pc[g] = "idle" /\ GroupTable(g) = t}
Kept(t) == OldLive(t) \ {op[g].key : g \in Stored(t)}

\* The outer slot of a range holds that range, from the first key on.
RangesOK ==
  /\ \A t \in Tables : range[t] \in {0, t} /\ oldRange[t] \in {0, t}
  /\ phase = "insert" =>
       /\ \A t \in Tables : /\ oldRange[t] = t => range[t] = t
                            /\ Live(t) # {} => range[t] = t
       /\ \A g \in Groups : /\ pc[g] \in {"probe", "claim", "count", "store"} =>
                                 range[GroupTable(g)] = GroupTable(g)

\* Only groups of a delete kernel find and check.
DeleteGroups ==
  \A g \in Groups :
    /\ freeCheck[g] => phase = "delete"
    /\ pc[g] = "search" => phase = "search"
    /\ phase = "delete" =>
         /\ pc[g] # "idle" \/ freeCheck[g] \/ hitLane[g] # NoLane =>
              g \in active /\ op[g].key \in Keys
         /\ pc[g] \in {"delRange", "delScan"} => hitLane[g] = NoLane /\ ~freeCheck[g]
         /\ pc[g] \in {"tombstone", "loadCount", "storeCount"} => hitLane[g] # NoLane

\* A key a group has found was there at launch, and is gone once the slot is
\* overwritten.
FoundKeys ==
  phase = "delete" =>
    /\ \A g, h \in active : op[g].key = op[h].key => g = h
    /\ \A t \in Tables : \A s1, s2 \in Slots :
         oldKeyAt[t][s1] = oldKeyAt[t][s2] /\ oldKeyAt[t][s1] \in Keys => s1 = s2
    /\ \A g \in Groups :
         /\ pc[g] = "tombstone" => oldKeyAt[GroupTable(g)][addr[g]] = op[g].key
         /\ hitLane[g] # NoLane =>
              /\ op[g].key \in OldLive(GroupTable(g))
              /\ pc[g] # "tombstone" => op[g].key \notin Live(GroupTable(g))

\* No value the count had since the launch, and none a group is about to make of
\* one, is below the number of keys still to be taken from it.
CountsCover ==
  /\ \A t \in Tables : unique[t] \in pastUnique[t]
  /\ phase = "delete" =>
       /\ \A t \in Tables :
            /\ \A n \in pastUnique[t] : Cardinality(Kept(t)) <= n
            /\ OldLive(t) # {} => oldRange[t] = t
            /\ range[t] = 0 => Kept(t) = {}
       /\ \A g \in Groups :
            /\ pc[g] = "storeCount" => loaded[g] \in pastUnique[GroupTable(g)]
            /\ freeCheck[g] /\ hitLane[g] = 0 =>
                 pc[g] = "idle" /\ LessOne(loaded[g]) \in pastUnique[GroupTable(g)]

\* What the deletes leave to the searches.
SearchKeeps ==
  phase = "search" =>
    \A t \in Tables : /\ Cardinality(Live(t)) <= unique[t]
                      /\ range[t] = 0 => Live(t) = {}

CountInv ==
  /\ CountMatchesSlots
  /\ RangesOK
  /\ DeleteGroups
  /\ FoundKeys
  /\ CountsCover
  /\ SearchKeeps

-----------------------------------------------------------------------------
(* Counting slots. *)

\* The sets that are counted are finite, and a table has no more occupied slots
\* than slots.
LEMMA CountsAreNumbers ==
  ASSUME NEW t \in Tables
  PROVE  /\ IsFiniteSet(Counting(t)) /\ Cardinality(Counting(t)) \in Nat
         /\ IsFiniteSet(Occupied(t)) /\ Cardinality(Occupied(t)) \in Nat
         /\ Cardinality(Occupied(t)) <= Capacity
<1>1. Counting(t) \in SUBSET Groups /\ Occupied(t) \in SUBSET Slots
  BY DEF Counting, Occupied
<1> QED BY <1>1, TableIsFinite, FS_Subset, FS_CardinalityType

\* Steps that count nothing and put nothing.
LEMMA UncountedSteps ==
  ASSUME HoHInv, CountMatchesSlots, NEW g \in Groups, NEW to,
         pc' = [pc EXCEPT ![g] = to], pc[g] # "count", to # "count",
         UNCHANGED <<keyAt, op, unique, phase>>
  PROVE  CountMatchesSlots'
<1>1. \A h \in Groups : (pc'[h] = "count") = (pc[h] = "count")
  BY DEF HoHInv, InsertInv, DriverTypeOK
<1>2. ASSUME NEW t \in Tables
      PROVE  /\ Counting(t)' = Counting(t)
             /\ Occupied(t)' = Occupied(t)
             /\ unique'[t] = unique[t]
  BY <1>1 DEF Counting, Occupied, GroupTable
<1> QED BY <1>2 DEF CountMatchesSlots

\* Winning a slot: one more slot is taken, and one more group has to count it.
LEMMA ClaimCounts ==
  ASSUME HoHInv, CountMatchesSlots, NEW g \in Groups, InsertClaim(g)
  PROVE  CountMatchesSlots'
<1> DEFINE T == GroupTable(g)
           k == op[g].key
<1>1. /\ pc[g] = "claim"
      /\ UNCHANGED <<op, unique, phase>>
  BY DEF InsertClaim, Claim, insertOnly, countVars, hostVars
<1>2. PICK r \in emptyMask[g] :
        \/ /\ keyAt[T][LaneSlot(g, r)] = Sentinel
           /\ keyAt' = [keyAt EXCEPT ![T][LaneSlot(g, r)] = k]
           /\ GoTo(g, "count")
        \/ /\ GoTo(g, "store")
           /\ UNCHANGED keyAt
        \/ /\ (IF emptyMask[g] = {r} THEN NextWindow(g, "idle")
                                      ELSE UNCHANGED <<win, pc>>)
           /\ UNCHANGED keyAt
  BY DEF InsertClaim, Claim
<1>3. /\ k \in Keys /\ T \in Tables /\ LaneSlot(g, r) \in Slots /\ k # Sentinel
  <2>1. r \in Lanes
    BY DEF HoHInv, InsertInv, DriverTypeOK
  <2> QED BY <1>1, <2>1, GroupOperands, WordsDiffer DEF HoHInv, InsertInv
<1>4. CASE /\ keyAt[T][LaneSlot(g, r)] = Sentinel
           /\ keyAt' = [keyAt EXCEPT ![T][LaneSlot(g, r)] = k]
           /\ GoTo(g, "count")
  <2>0. PICK s \in Slots, u \in Tables : s = LaneSlot(g, r) /\ u = T
    BY <1>3
  <2> HIDE DEF T, k
  <2>1. /\ pc' = [pc EXCEPT ![g] = "count"]
        /\ keyAt[u][s] = Sentinel
        /\ keyAt' = [keyAt EXCEPT ![u][s] = k]
    BY <1>4, <2>0 DEF GoTo
  <2>2. s \in Slots /\ u \in Tables
    OBVIOUS
  <2>3. /\ \A t \in Tables : t # u => Occupied(t)' = Occupied(t)
        /\ Occupied(u)' = Occupied(u) \cup {s} /\ s \notin Occupied(u)
    <3>1. \A t \in Tables, x \in Slots :
            keyAt'[t][x] = IF t = u /\ x = s THEN k ELSE keyAt[t][x]
      BY <2>1, <2>2 DEF HoHInv, InsertInv, DriverTypeOK
    <3>2. k # Sentinel
      BY <1>3
    <3> QED BY <2>1, <2>2, <3>1, <3>2 DEF Occupied
  <2>4. /\ \A t \in Tables : t # u => Counting(t)' = Counting(t)
        /\ Counting(u)' = Counting(u) \cup {g} /\ g \notin Counting(u)
    <3>1. \A h \in Groups : /\ pc'[h] = IF h = g THEN "count" ELSE pc[h]
                            /\ GroupTable(h)' = GroupTable(h)
      BY <1>1, <2>1 DEF HoHInv, InsertInv, DriverTypeOK, GroupTable
    <3>2. GroupTable(g) = u
      BY <2>0 DEF T
    <3>3. \A t, h : h \in Counting(t)' <=> h \in Counting(t) \/ (h = g /\ t = u)
      BY <1>1, <3>1, <3>2 DEF Counting
    <3> QED BY <1>1, <3>3 DEF Counting
  <2>5. ASSUME NEW t \in Tables, phase = "insert"
        PROVE  unique'[t] + Cardinality(Counting(t)') = Cardinality(Occupied(t)')
    <3>1. unique[t] \in Nat /\ unique[t] + Cardinality(Counting(t)) = Cardinality(Occupied(t))
      BY <2>5 DEF CountMatchesSlots, HoHInv, RangeTypeOK
    <3>2. CASE t # u
      BY <1>1, <2>3, <2>4, <3>1, <3>2
    <3>3. CASE t = u
      <4>1. /\ Cardinality(Counting(u)') = Cardinality(Counting(u)) + 1
            /\ Cardinality(Occupied(u)') = Cardinality(Occupied(u)) + 1
        <5>1. IsFiniteSet(Counting(u)) /\ IsFiniteSet(Occupied(u))
          BY <2>2, CountsAreNumbers
        <5> QED BY <2>3, <2>4, <5>1, FS_AddElement
      <4> QED BY <1>1, <2>2, <3>1, <3>3, <4>1, CountsAreNumbers
    <3> QED BY <3>2, <3>3
  <2> QED BY <1>1, <2>5 DEF CountMatchesSlots
<1>5. CASE /\ GoTo(g, "store")
           /\ UNCHANGED keyAt
  BY <1>1, <1>5, UncountedSteps DEF GoTo
<1>6. CASE /\ (IF emptyMask[g] = {r} THEN NextWindow(g, "idle")
                                     ELSE UNCHANGED <<win, pc>>)
           /\ UNCHANGED keyAt
  <2>1. \E to \in {"probe", "idle", "claim"} : pc' = [pc EXCEPT ![g] = to]
    BY <1>1, <1>6 DEF NextWindow, GoTo, HoHInv, InsertInv, DriverTypeOK
  <2> QED BY <1>1, <1>6, <2>1, UncountedSteps
<1> QED BY <1>2, <1>4, <1>5, <1>6

\* The atomicAdd: one group less has to count, and the sum stays within the width
\* of the counter.
LEMMA AddCounts ==
  ASSUME HoHInv, CountMatchesSlots, NEW g \in Groups, AddUnique(g)
  PROVE  CountMatchesSlots'
<1>0. PICK T : T = GroupTable(g)
  OBVIOUS
<1>1. /\ pc[g] = "count" /\ pc' = [pc EXCEPT ![g] = "store"]
      /\ unique' = [unique EXCEPT ![T] = (unique[T] + 1) % CounterMod]
      /\ UNCHANGED <<keyAt, op, phase>>
  BY <1>0 DEF AddUnique, GoTo, hostVars
<1>2. T \in Tables /\ phase = "insert"
  BY <1>0, <1>1, GroupOperands DEF HoHInv, InsertInv, PhaseOK, InsertSteps
<1>3. /\ \A t \in Tables : t # T => Counting(t)' = Counting(t)
      /\ Counting(T)' = Counting(T) \ {g} /\ g \in Counting(T)
  <2>1. \A h \in Groups : /\ pc'[h] = IF h = g THEN "store" ELSE pc[h]
                          /\ GroupTable(h)' = GroupTable(h)
    BY <1>1 DEF HoHInv, InsertInv, DriverTypeOK, GroupTable
  <2>2. GroupTable(g) = T
    BY <1>0
  <2>3. \A t, h : h \in Counting(t)' <=> h \in Counting(t) /\ ~(h = g /\ t = T)
    BY <1>1, <2>1, <2>2 DEF Counting
  <2>4. g \in Counting(T)
    BY <1>1, <2>2 DEF Counting
  <2> QED BY <2>2, <2>3, <2>4 DEF Counting
<1>4. \A t \in Tables : Occupied(t)' = Occupied(t)
  BY <1>1 DEF Occupied
<1>5. ASSUME NEW t \in Tables
      PROVE  unique'[t] + Cardinality(Counting(t)') = Cardinality(Occupied(t)')
  <2>1. unique[t] \in Nat /\ unique[t] + Cardinality(Counting(t)) = Cardinality(Occupied(t))
    BY <1>2 DEF CountMatchesSlots, HoHInv, RangeTypeOK
  <2>2. CASE t # T
    BY <1>1, <1>3, <1>4, <2>1, <2>2 DEF HoHInv, RangeTypeOK
  <2>3. CASE t = T
    <3>1. /\ Cardinality(Counting(T)') = Cardinality(Counting(T)) - 1
          /\ Cardinality(Counting(T)) \in Nat
      BY <1>2, <1>3, CountsAreNumbers, FS_RemoveElement
    <3>2. Cardinality(Counting(T)') \in Nat
      BY <1>2, <1>3, CountsAreNumbers, FS_RemoveElement, FS_CardinalityType
    <3>3. unique[T] + 1 <= Capacity /\ Cardinality(Occupied(T)) \in Nat
      BY <1>2, <2>1, <2>3, <3>1, <3>2, CountsAreNumbers, ProbeAssumption
    <3>4. (unique[T] + 1) % CounterMod = unique[T] + 1
      BY <2>1, <2>3, <3>3, HoHAssumption, ProbeAssumption
    <3>5. unique'[T] = unique[T] + 1
      BY <1>1, <1>2, <3>4 DEF HoHInv, RangeTypeOK
    <3>6. Cardinality(Occupied(T)') = Cardinality(Occupied(T))
      BY <1>2, <1>4
    <3> QED BY <2>1, <2>3, <3>1, <3>5, <3>6
  <2> QED BY <2>2, <2>3
<1> QED BY <1>5 DEF CountMatchesSlots

LEMMA CountMatchesPreserved ==
  HoHInv /\ CountMatchesSlots /\ [Next]_vars => CountMatchesSlots'
<1> SUFFICES ASSUME HoHInv, CountMatchesSlots, [Next]_vars
             PROVE  CountMatchesSlots'
  OBVIOUS
<1>1. CASE LaunchInsert
  <2>1. /\ \A g \in Groups : pc[g] # "count" /\ pc'[g] # "count"
        /\ UNCHANGED <<keyAt, unique>> /\ phase = "insert"
    BY <1>1 DEF LaunchInsert, FreshKernel, Quiet, InsertBatch, StartKernel
  <2>2. \A t \in Tables : Counting(t)' = Counting(t) /\ Occupied(t)' = Occupied(t)
    BY <2>1 DEF Counting, Occupied
  <2> QED BY <2>1, <2>2 DEF CountMatchesSlots
<1>2. CASE LaunchDelete \/ LaunchSearch
  BY <1>2 DEF LaunchDelete, LaunchSearch, DeleteBatch, SearchBatch, EnterPhase,
              CountMatchesSlots
<1>3. CASE Finished \/ UNCHANGED vars
  <2>1. UNCHANGED <<keyAt, pc, op, unique, phase>>
    BY <1>3 DEF Finished, vars, insertVars, hostVars, countVars
  <2> QED BY <2>1 DEF CountMatchesSlots, Counting, Occupied, GroupTable
<1>4. ASSUME NEW g \in Groups, GroupStep(g)
      PROVE  CountMatchesSlots'
  <2>1. CASE ReadRange(g) \/ ClaimRange(g) \/ InsertBallot(g) \/ InsertStore(g) \/ Search(g)
    <3>1. /\ \E to \in {"probe", "claimRange", "store", "claim", "idle"} :
                pc' = [pc EXCEPT ![g] = to]
          /\ pc[g] # "count"
          /\ UNCHANGED <<keyAt, op, unique, phase>>
      BY <2>1 DEF ReadRange, ClaimRange, InsertBallot, Ballot, NextWindow, InsertStore,
                  StoreValue, Search, GoTo, insertOnly, countVars, hostVars
    <3> QED BY <3>1, UncountedSteps
  <2>2. CASE DeleteRange(g) \/ DeleteScan(g) \/ WriteTombstone(g) \/ LoadCount(g)
             \/ StoreCount(g)
    <3>1. pc[g] \in DeleteSteps /\ phase' = phase
      BY <2>2 DEF DeleteRange, DeleteScan, WriteTombstone, LoadCount, StoreCount,
                  deleteFixed, hostVars, DeleteSteps
    <3>2. phase' = "delete"
      BY <3>1 DEF HoHInv, InsertInv, PhaseOK
    <3> QED BY <3>2 DEF CountMatchesSlots
  <2>3. CASE FreeRange(g)
    <3>1. UNCHANGED <<keyAt, pc, op, unique, phase>>
      BY <2>3 DEF FreeRange, deleteFixed, countVars, hostVars
    <3> QED BY <3>1 DEF CountMatchesSlots, Counting, Occupied, GroupTable
  <2> QED BY <1>4, <2>1, <2>2, <2>3, ClaimCounts, AddCounts DEF GroupStep
<1> QED BY <1>1, <1>2, <1>3, <1>4 DEF Next

LEMMA CountMatchesInit == Init => CountMatchesSlots
<1> SUFFICES ASSUME Init, NEW t \in Tables
             PROVE  unique[t] + Cardinality(Counting(t)) = Cardinality(Occupied(t))
  BY DEF CountMatchesSlots
<1>1. Counting(t) = {} /\ Occupied(t) = {} /\ unique[t] = 0
  BY DEF Init, DriverInit, Counting, Occupied
<1> QED BY <1>1, FS_EmptySet

\* While keys are inserted, unique_keys (atomicAdd after the atomicCAS in
\* insertgpu_inner_hashtable_CG) counts the occupied slots of every inner table, up
\* to the groups between their CAS and their add, in any interleaving.
THEOREM CountsMatchSlots == Spec => []CountMatchesSlots
<1>1. Init => HoHInv /\ CountMatchesSlots
  BY InitEstablishes, CountMatchesInit
<1>2. HoHInv /\ CountMatchesSlots /\ [Next]_vars => HoHInv' /\ CountMatchesSlots'
  BY NextPreserves, CountMatchesPreserved
<1> QED BY <1>1, <1>2, PTL DEF Spec

-----------------------------------------------------------------------------
(* Range words. *)

\* The labels past the claim of the range.
Claimed == {"probe", "claim", "count", "store"}

\* Steps of the insert kernel that leave the words of the ranges alone, of groups
\* whose range is held, or that do not get past the claim.
LEMMA SameRanges ==
  ASSUME HoHInv, RangesOK, NEW g \in Groups, NEW to, pc' = [pc EXCEPT ![g] = to],
         to \in Claimed => range[GroupTable(g)] = GroupTable(g),
         \A t \in Tables : Live(t)' # {} => range[t] = t,
         UNCHANGED <<op, range, oldRange, phase>>
  PROVE  RangesOK'
<1>1. \A h \in Groups : pc'[h] = IF h = g THEN to ELSE pc[h]
  BY DEF HoHInv, InsertInv, DriverTypeOK
<1>2. \A h \in Groups : GroupTable(h)' = GroupTable(h)
  BY DEF GroupTable
<1>3. \A h \in Groups : phase = "insert" /\ pc'[h] \in Claimed =>
                         range[GroupTable(h)] = GroupTable(h)
  BY <1>1 DEF RangesOK, Claimed
<1> QED BY <1>2, <1>3 DEF RangesOK, Claimed

LEMMA InsertStepsRanges ==
  ASSUME HoHInv, RangesOK, NEW g \in Groups,
         \/ ReadRange(g) \/ ClaimRange(g) \/ InsertBallot(g) \/ InsertClaim(g)
         \/ AddUnique(g) \/ InsertStore(g)
  PROVE  RangesOK'
<1>0. PICK T : T = GroupTable(g)
  OBVIOUS
<1>1. pc[g] \in InsertSteps /\ UNCHANGED <<op, oldRange, phase>>
  BY DEF ReadRange, ClaimRange, InsertBallot, Ballot, InsertClaim, Claim, AddUnique,
         InsertStore, StoreValue, insertOnly, hostVars, InsertSteps
<1>2. T \in Tables /\ phase = "insert" /\ op[g].key \in Keys /\ T # 0
  <2>1. pc[g] # "idle" /\ phase = "insert"
    BY <1>1 DEF InsertSteps, HoHInv, InsertInv, PhaseOK
  <2>2. 0 \notin Tables
    BY HoHAssumption
  <2> QED BY <1>0, <2>1, <2>2, GroupOperands DEF HoHInv, InsertInv
<1>3. /\ \A t \in Tables : /\ range[t] \in {0, t} /\ oldRange[t] \in {0, t}
                           /\ oldRange[t] = t => range[t] = t
                           /\ Live(t) # {} => range[t] = t
      /\ pc[g] \in Claimed => range[T] = T
  BY <1>0, <1>2 DEF RangesOK, Claimed
<1>4. CASE ReadRange(g)
  <2>1. PICK seen \in {range[T], oldRange[T]} :
          GoTo(g, IF seen = T THEN "probe" ELSE "claimRange")
    BY <1>0, <1>4 DEF ReadRange
  <2>2. PICK to \in {"probe", "claimRange"} : /\ pc' = [pc EXCEPT ![g] = to]
                                              /\ to = "probe" => range[T] = T
    <3>1. seen = T => range[T] = T
      BY <1>2, <1>3
    <3>2. pc' = [pc EXCEPT ![g] = IF seen = T THEN "probe" ELSE "claimRange"]
      BY <2>1 DEF GoTo
    <3>3. CASE seen = T
      BY <3>1, <3>2, <3>3
    <3>4. CASE seen # T
      BY <3>2, <3>4
    <3> QED BY <3>3, <3>4
  <2>3. UNCHANGED <<keyAt, range>>
    BY <1>4 DEF ReadRange, insertOnly
  <2>4. \A t \in Tables : Live(t)' # {} => range[t] = t
    BY <1>3, <2>3 DEF Live, Holds
  <2>5. to \in Claimed => range[GroupTable(g)] = GroupTable(g)
    BY <1>0, <2>2 DEF Claimed
  <2> QED BY <1>1, <2>2, <2>3, <2>4, <2>5, SameRanges
<1>5. CASE ClaimRange(g)
  <2>1. /\ range' = [range EXCEPT ![T] = IF range[T] = 0 THEN T ELSE range[T]]
        /\ pc' = [pc EXCEPT ![g] = "probe"]
        /\ UNCHANGED keyAt
    BY <1>0, <1>5 DEF ClaimRange, GoTo
  <2>2. \A t \in Tables : range'[t] = IF t = T THEN T ELSE range[t]
    BY <1>2, <1>3, <2>1 DEF HoHInv, RangeTypeOK
  <2>3. \A t \in Tables : Live(t)' = Live(t)
    BY <2>1 DEF Live, Holds
  <2>4. \A h \in Groups : /\ GroupTable(h)' = GroupTable(h)
                          /\ pc'[h] = IF h = g THEN "probe" ELSE pc[h]
    BY <1>1, <2>1 DEF GroupTable, HoHInv, InsertInv, DriverTypeOK
  <2>5. \A h \in Groups : pc'[h] \in Claimed => range'[GroupTable(h)] = GroupTable(h)
    <3> SUFFICES ASSUME NEW h \in Groups, pc'[h] \in Claimed
                 PROVE  range'[GroupTable(h)] = GroupTable(h)
      OBVIOUS
    <3>1. CASE h = g
      BY <1>0, <1>2, <2>2, <3>1
    <3>2. CASE h # g
      <4>1. pc[h] \in Claimed
        BY <2>4, <3>2
      <4>2. GroupTable(h) \in Tables
        BY <4>1, GroupOperands DEF Claimed, HoHInv, InsertInv
      <4> QED BY <1>2, <2>2, <4>1, <4>2 DEF RangesOK, Claimed
    <3> QED BY <3>1, <3>2
  <2> QED BY <1>1, <1>2, <1>3, <2>2, <2>3, <2>4, <2>5 DEF RangesOK, Claimed
<1>6. CASE InsertBallot(g) \/ InsertClaim(g) \/ AddUnique(g) \/ InsertStore(g)
  <2>1. /\ pc[g] \in Claimed /\ range' = range
        /\ \E to \in Claimed \cup {"idle"} : pc' = [pc EXCEPT ![g] = to]
    BY <1>6 DEF InsertBallot, Ballot, InsertClaim, Claim, NextWindow, AddUnique, InsertStore,
                StoreValue, GoTo, insertOnly, Claimed, HoHInv, InsertInv, DriverTypeOK
  <2>2. \A t \in Tables : t # T => keyAt'[t] = keyAt[t]
    <3>1. CASE InsertClaim(g)
      <4>1. \E r \in emptyMask[g] :
              \/ keyAt' = keyAt
              \/ keyAt' = [keyAt EXCEPT ![T][LaneSlot(g, r)] = op[g].key]
        BY <1>0, <3>1 DEF InsertClaim, Claim
      <4>2. keyAt \in [Tables -> [Slots -> KeyWords]]
        BY DEF HoHInv, InsertInv, DriverTypeOK
      <4> QED BY <4>1, <4>2
    <3>2. CASE ~InsertClaim(g)
      BY <1>6, <3>2 DEF InsertBallot, Ballot, AddUnique, InsertStore, StoreValue
    <3> QED BY <3>1, <3>2
  <2>3. \A t \in Tables : Live(t)' # {} => range[t] = t
    <3>1. \A t \in Tables : t # T => Live(t)' = Live(t)
      BY <2>2 DEF Live, Holds
    <3> QED BY <1>3, <2>1, <3>1
  <2> QED BY <1>0, <1>1, <1>3, <2>1, <2>3, SameRanges
<1> QED BY <1>4, <1>5, <1>6

LEMMA RangesPreserved ==
  HoHInv /\ RangesOK /\ DeleteGroups /\ [Next]_vars => RangesOK'
<1> SUFFICES ASSUME HoHInv, RangesOK, DeleteGroups, [Next]_vars
             PROVE  RangesOK'
  OBVIOUS
<1>1. CASE LaunchInsert
  <2>1. /\ \A g \in Groups : pc'[g] \in {"range", "idle"}
        /\ UNCHANGED <<keyAt, range>> /\ oldRange' = range /\ phase = "insert"
    BY <1>1 DEF LaunchInsert, FreshKernel, InsertBatch, StartKernel
  <2>2. \A t \in Tables : Live(t)' = Live(t)
    BY <2>1 DEF Live, Holds
  <2> QED BY <2>1, <2>2 DEF RangesOK
<1>2. CASE LaunchDelete \/ LaunchSearch
  <2>1. /\ UNCHANGED range /\ oldRange' = range /\ phase' # "insert"
    BY <1>2 DEF LaunchDelete, LaunchSearch, FreshKernel, DeleteBatch, SearchBatch, EnterPhase
  <2> QED BY <2>1 DEF RangesOK
<1>3. CASE Finished \/ UNCHANGED vars
  <2>1. UNCHANGED <<keyAt, pc, op, range, oldRange, phase>>
    BY <1>3 DEF Finished, vars, insertVars, hostVars
  <2> QED BY <2>1 DEF RangesOK, Live, Holds, GroupTable
<1>4. ASSUME NEW g \in Groups, GroupStep(g)
      PROVE  RangesOK'
  <2>1. CASE \/ DeleteRange(g) \/ DeleteScan(g) \/ WriteTombstone(g) \/ LoadCount(g)
             \/ StoreCount(g)
    <3>1. pc[g] \in DeleteSteps /\ phase' = phase /\ UNCHANGED <<range, oldRange>>
      BY <2>1 DEF DeleteRange, DeleteScan, WriteTombstone, LoadCount, StoreCount,
                  deleteFixed, hostVars, DeleteSteps
    <3>2. phase' # "insert"
      BY <3>1 DEF HoHInv, InsertInv, PhaseOK
    <3> QED BY <3>1, <3>2 DEF RangesOK
  <2>2. CASE Search(g)
    <3>1. /\ UNCHANGED <<keyAt, op, range, oldRange, phase>>
          /\ pc' = [pc EXCEPT ![g] = "idle"]
      BY <2>2 DEF Search, GoTo, hostVars
    <3>2. \A t \in Tables : Live(t)' = Live(t)
      BY <3>1 DEF Live, Holds
    <3>3. \A h \in Groups : pc'[h] \in {"idle", pc[h]} /\ GroupTable(h)' = GroupTable(h)
      BY <3>1 DEF HoHInv, InsertInv, DriverTypeOK, GroupTable
    <3> QED BY <3>1, <3>2, <3>3 DEF RangesOK
  <2>3. CASE FreeRange(g)
    <3>1. /\ UNCHANGED <<oldRange, phase>>
          /\ \A t \in Tables : range'[t] \in {0, range[t]}
          /\ freeCheck[g]
      BY <2>3 DEF FreeRange, deleteFixed, hostVars, HoHInv, RangeTypeOK
    <3> QED BY <3>1 DEF RangesOK, DeleteGroups
  <2> QED BY <1>4, <2>1, <2>2, <2>3, InsertStepsRanges DEF GroupStep
<1> QED BY <1>1, <1>2, <1>3, <1>4 DEF Next

-----------------------------------------------------------------------------
(* The groups of a delete kernel. *)

\* The steps of a delete kernel, as far as what a group has found and still has to
\* check is concerned.
LEMMA DeleteMoves ==
  ASSUME HoHInv, DeleteGroups, NEW g \in Groups,
         \/ DeleteRange(g) \/ DeleteScan(g) \/ WriteTombstone(g)
         \/ LoadCount(g) \/ StoreCount(g) \/ FreeRange(g)
  PROVE  /\ phase = "delete" /\ UNCHANGED <<oldKeyAt, op, oldRange, hostVars>>
         /\ g \in active /\ op[g].key \in Keys /\ GroupTable(g) \in Tables
         /\ \A h \in Groups : h # g => /\ pc'[h] = pc[h]
                                       /\ hitLane'[h] = hitLane[h]
                                       /\ freeCheck'[h] = freeCheck[h]
                                       /\ addr'[h] = addr[h]
                                       /\ loaded'[h] = loaded[h]
                                       /\ delStatus'[h] = delStatus[h]
<1>1. /\ pc[g] \in DeleteSteps \/ freeCheck[g]
      /\ UNCHANGED <<oldKeyAt, op, oldRange, hostVars>>
  BY DEF DeleteRange, DeleteScan, WriteTombstone, LoadCount, StoreCount, FreeRange,
         deleteFixed, DeleteSteps
<1>2. phase = "delete"
  BY <1>1 DEF DeleteGroups, HoHInv, InsertInv, PhaseOK
<1>3. g \in active /\ op[g].key \in Keys
  BY <1>1, <1>2 DEF DeleteGroups, DeleteSteps
<1>4. GroupTable(g) \in Tables
  BY <1>3, InsertAssumption DEF GroupTable
<1>5. /\ pc \in [Groups -> Steps] /\ hitLane \in [Groups -> Lanes \cup {NoLane}]
      /\ freeCheck \in [Groups -> BOOLEAN] /\ addr \in [Groups -> Slots]
      /\ loaded \in [Groups -> 0 .. CounterMod - 1] /\ delStatus \in [Groups -> BOOLEAN]
  BY DEF HoHInv, InsertInv, DriverTypeOK, RangeTypeOK
<1> DEFINE Others ==
      \A h \in Groups : h # g => /\ pc'[h] = pc[h]
                                 /\ hitLane'[h] = hitLane[h]
                                 /\ freeCheck'[h] = freeCheck[h]
                                 /\ addr'[h] = addr[h]
                                 /\ loaded'[h] = loaded[h]
                                 /\ delStatus'[h] = delStatus[h]
<1>6. ASSUME DeleteRange(g) PROVE Others
  BY <1>5, <1>6 DEF DeleteRange, GoTo, countVars
<1>7. ASSUME DeleteScan(g) PROVE Others
  <2>1. /\ pc' = [pc EXCEPT ![g] = "idle"] \/ pc' = [pc EXCEPT ![g] = "tombstone"]
        /\ hitLane' = hitLane \/ \E r : hitLane' = [hitLane EXCEPT ![g] = r]
        /\ addr' = addr \/ \E s : addr' = [addr EXCEPT ![g] = s]
        /\ \E b : freeCheck' = [freeCheck EXCEPT ![g] = b]
        /\ UNCHANGED <<countVars, delStatus>>
    BY <1>7 DEF DeleteScan, GoTo
  <2> QED BY <1>5, <2>1 DEF countVars
<1>8. ASSUME WriteTombstone(g) \/ LoadCount(g) \/ StoreCount(g) PROVE Others
  BY <1>5, <1>8 DEF WriteTombstone, LoadCount, StoreCount, GoTo, countVars
<1>9. ASSUME FreeRange(g) PROVE Others
  BY <1>5, <1>9 DEF FreeRange, countVars
<1>10. Others
  BY <1>6, <1>7, <1>8, <1>9
<1> QED BY <1>1, <1>2, <1>3, <1>4, <1>10

LEMMA DeleteGroupsStep ==
  ASSUME HoHInv, DeleteGroups, NEW g \in Groups,
         \/ DeleteRange(g) \/ DeleteScan(g) \/ WriteTombstone(g)
         \/ LoadCount(g) \/ StoreCount(g) \/ FreeRange(g)
  PROVE  DeleteGroups'
<1>1. /\ phase = "delete" /\ UNCHANGED <<op, active, phase>>
      /\ g \in active /\ op[g].key \in Keys
      /\ \A h \in Groups : h # g => /\ pc'[h] = pc[h]
                                    /\ hitLane'[h] = hitLane[h]
                                    /\ freeCheck'[h] = freeCheck[h]
  BY DeleteMoves DEF hostVars
<1>2. /\ pc'[g] \in {"delRange", "delScan"} => hitLane'[g] = NoLane /\ ~freeCheck'[g]
      /\ pc'[g] \in {"tombstone", "loadCount", "storeCount"} => hitLane'[g] # NoLane
      /\ pc'[g] # "search"
  <2>0. /\ pc \in [Groups -> Steps] /\ hitLane \in [Groups -> Lanes \cup {NoLane}]
        /\ freeCheck \in [Groups -> BOOLEAN]
    BY DEF HoHInv, InsertInv, DriverTypeOK, RangeTypeOK
  <2>1. /\ pc[g] \in {"delRange", "delScan"} => hitLane[g] = NoLane /\ ~freeCheck[g]
        /\ pc[g] \in {"tombstone", "loadCount", "storeCount"} => hitLane[g] # NoLane
        /\ pc[g] # "search"
    BY <1>1 DEF DeleteGroups
  <2>2. CASE DeleteRange(g)
    <3>1. /\ pc[g] = "delRange" /\ pc'[g] \in {"delScan", "idle"}
          /\ UNCHANGED <<hitLane, freeCheck>>
      BY <2>0, <2>2 DEF DeleteRange, GoTo
    <3> QED BY <2>1, <3>1
  <2>3. CASE DeleteScan(g)
    <3>1. \/ pc'[g] = "idle"
          \/ pc'[g] = "tombstone" /\ hitLane'[g] # NoLane
      <4> DEFINE k == op[g].key
      <4>1. PICK cells \in {keyAt[GroupTable(g)], oldKeyAt[GroupTable(g)]} :
              \/ \E p \in Hits(cells, Home[k], k, Sentinel, EarlyLanes) :
                   /\ hitLane' = [hitLane EXCEPT ![g] = p[2]]
                   /\ GoTo(g, "tombstone")
              \/ GoTo(g, "idle")
        BY <2>3 DEF DeleteScan
      <4>2. CASE GoTo(g, "idle")
        BY <2>0, <4>2 DEF GoTo
      <4>3. ASSUME NEW p \in Hits(cells, Home[k], k, Sentinel, EarlyLanes),
                   hitLane' = [hitLane EXCEPT ![g] = p[2]], GoTo(g, "tombstone")
            PROVE  pc'[g] = "tombstone" /\ hitLane'[g] # NoLane
        <5>1. p[2] \in Lanes
          BY <1>1, HitsAreSlots
        <5>2. p[2] # NoLane
          BY <5>1, ProbeAssumption DEF Lanes, NoLane
        <5> QED BY <2>0, <4>3, <5>2 DEF GoTo
      <4> QED BY <4>1, <4>2, <4>3
    <3> QED BY <3>1
  <2>4. CASE WriteTombstone(g) \/ LoadCount(g)
    <3>1. /\ pc[g] \in {"tombstone", "loadCount"}
          /\ pc'[g] \in {"loadCount", "storeCount"} /\ hitLane' = hitLane
      BY <2>0, <2>4 DEF WriteTombstone, LoadCount, GoTo
    <3> QED BY <2>1, <3>1
  <2>5. CASE StoreCount(g)
    BY <2>0, <2>5 DEF StoreCount, GoTo
  <2>6. CASE FreeRange(g)
    <3>1. UNCHANGED <<pc, hitLane>> /\ ~freeCheck'[g]
      BY <2>0, <2>6 DEF FreeRange
    <3> QED BY <2>1, <3>1
  <2> QED BY <2>2, <2>3, <2>4, <2>5, <2>6
<1>3. ASSUME NEW h \in Groups
      PROVE  /\ pc'[h] # "idle" \/ freeCheck'[h] \/ hitLane'[h] # NoLane =>
                  h \in active /\ op[h].key \in Keys
             /\ pc'[h] \in {"delRange", "delScan"} => hitLane'[h] = NoLane /\ ~freeCheck'[h]
             /\ pc'[h] \in {"tombstone", "loadCount", "storeCount"} => hitLane'[h] # NoLane
             /\ pc'[h] # "search"
  <2>1. CASE h = g
    BY <1>1, <1>2, <2>1
  <2>2. CASE h # g
    BY <1>1, <2>2 DEF DeleteGroups
  <2> QED BY <2>1, <2>2
<1> QED BY <1>1, <1>3 DEF DeleteGroups

LEMMA DeleteGroupsPreserved ==
  HoHInv /\ DeleteGroups /\ [Next]_vars => DeleteGroups'
<1> SUFFICES ASSUME HoHInv, DeleteGroups, [Next]_vars
             PROVE  DeleteGroups'
  OBVIOUS
<1>1. CASE LaunchInsert \/ LaunchSearch
  <2>1. /\ Quiet /\ freeCheck' = freeCheck /\ phase' # "delete"
        /\ phase' = "search" \/ \A g \in Groups : pc'[g] # "search"
    BY <1>1 DEF LaunchInsert, LaunchSearch, FreshKernel, InsertBatch, SearchBatch, EnterPhase,
                StartKernel
  <2> QED BY <2>1 DEF Quiet, DeleteGroups
<1>2. CASE LaunchDelete
  <2>1. /\ Quiet /\ freeCheck' = freeCheck /\ phase' = "delete"
        /\ hitLane' = [g \in Groups |-> NoLane]
    BY <1>2 DEF LaunchDelete, FreshKernel, DeleteBatch, EnterPhase
  <2>2. PICK n \in Groups : \E keys \in [1 .. n -> Keys] :
          StartKernel([g \in 1 .. n |-> [key |-> keys[g], value |-> Sentinel]], "delRange")
    BY <1>2 DEF LaunchDelete, DeleteBatch
  <2>3. \A g \in Groups :
          /\ g \in 1 .. n => g \in active' /\ op'[g].key \in Keys /\ pc'[g] = "delRange"
          /\ g \notin 1 .. n => pc'[g] = "idle"
    BY <2>2 DEF StartKernel
  <2> QED BY <2>1, <2>3 DEF Quiet, DeleteGroups
<1>3. CASE Finished \/ UNCHANGED vars
  <2>1. UNCHANGED <<pc, op, phase, active, freeCheck, hitLane>>
    BY <1>3 DEF Finished, vars, insertVars, hostVars
  <2> QED BY <2>1 DEF DeleteGroups
<1>4. ASSUME NEW g \in Groups, GroupStep(g)
      PROVE  DeleteGroups'
  <2>1. CASE \/ ReadRange(g) \/ ClaimRange(g) \/ InsertBallot(g) \/ InsertClaim(g)
             \/ AddUnique(g) \/ InsertStore(g) \/ Search(g)
    <3>1. /\ pc[g] \in InsertSteps \cup {"search"} /\ UNCHANGED <<phase, freeCheck>>
          /\ \E to \in InsertSteps \cup {"idle"} : pc' = [pc EXCEPT ![g] = to]
      BY <2>1 DEF ReadRange, ClaimRange, InsertBallot, Ballot, InsertClaim, Claim, AddUnique,
                  InsertStore, StoreValue, Search, insertOnly, hostVars, InsertSteps,
                  NextWindow, GoTo, HoHInv, InsertInv, DriverTypeOK
    <3>2. phase # "delete"
      BY <3>1 DEF DeleteGroups, HoHInv, InsertInv, PhaseOK
    <3>3. \A h \in Groups : pc'[h] = "search" => pc[h] = "search"
      BY <3>1 DEF HoHInv, InsertInv, DriverTypeOK, InsertSteps
    <3> QED BY <3>1, <3>2, <3>3 DEF DeleteGroups
  <2> QED BY <1>4, <2>1, DeleteGroupsStep DEF GroupStep
<1> QED BY <1>1, <1>2, <1>3, <1>4 DEF Next

-----------------------------------------------------------------------------
(* The keys that are found, and the count that covers the others. *)

\* As many keys as slots that hold them, at most.
LEMMA KeysInSlots ==
  ASSUME NEW S \in SUBSET Slots, NEW cells, NEW K, \A k \in K : \E s \in S : cells[s] = k
  PROVE  IsFiniteSet(K) /\ Cardinality(K) \in Nat /\ Cardinality(K) <= Cardinality(S)
<1> DEFINE f == [k \in K |-> CHOOSE s \in S : cells[s] = k]
<1>1. \A k \in K : f[k] \in S /\ cells[f[k]] = k
  OBVIOUS
<1>2. f \in [K -> S]
  BY <1>1
<1>3. f \in Injection(K, S)
  <2>1. \A a, b \in K : f[a] = f[b] => a = b
    BY <1>1
  <2> HIDE DEF f
  <2> QED BY <1>2, <2>1 DEF Injection, IsInjective
<1>4. IsFiniteSet(S)
  BY TableIsFinite, FS_Subset
<1> HIDE DEF f
<1>5. IsFiniteSet(K) /\ Cardinality(K) <= Cardinality(S)
  BY <1>3, <1>4, FS_Injection
<1> QED BY <1>5, FS_CardinalityType

LEMMA LiveFits ==
  ASSUME NEW t \in Tables
  PROVE  /\ IsFiniteSet(Live(t)) /\ Cardinality(Live(t)) \in Nat
         /\ Cardinality(Live(t)) <= Cardinality(Occupied(t))
         /\ IsFiniteSet(OldLive(t))
<1>1. \A k \in Live(t) : \E s \in Occupied(t) : keyAt[t][s] = k
  BY WordsDiffer DEF Live, Holds, Occupied
<1>2. \A k \in OldLive(t) : \E s \in Slots : oldKeyAt[t][s] = k
  BY DEF OldLive
<1>3. Occupied(t) \in SUBSET Slots
  BY DEF Occupied
<1> QED BY <1>1, <1>2, <1>3, KeysInSlots

\* A key that is still there has not been taken from the count.
LEMMA LiveKept ==
  ASSUME HoHInv, FoundKeys, phase = "delete", NEW t \in Tables
  PROVE  Live(t) \subseteq Kept(t)
<1> SUFFICES ASSUME NEW k \in Live(t)
             PROVE  k \in Kept(t)
  OBVIOUS
<1>1. PICK s \in Slots : keyAt[t][s] = k /\ k \in Keys
  BY DEF Live, Holds
<1>2. oldKeyAt[t][s] = k
  BY <1>1, WordsDiffer DEF HoHInv, InsertInv, OldWords
<1>3. k \in OldLive(t)
  BY <1>1, <1>2 DEF OldLive
<1>4. \A g \in Stored(t) : op[g].key # k
  BY DEF Stored, FoundKeys
<1> QED BY <1>3, <1>4 DEF Kept

\* In a kernel that inserts nothing nobody has to count.
LEMMA NobodyCounts ==
  ASSUME HoHInv, NEW t \in Tables, phase # "insert" \/ Quiet
  PROVE  Cardinality(Counting(t)) = 0
<1>1. Counting(t) = {}
  BY DEF Counting, Quiet, HoHInv, InsertInv, PhaseOK, InsertSteps
<1> QED BY <1>1, FS_EmptySet

\* The invariant gives the two properties, in every phase.
LEMMA InvCovers ==
  ASSUME HoHInv, CountInv, NEW t \in Tables
  PROVE  /\ unique[t] + Cardinality(Counting(t)) >= Cardinality(Live(t))
         /\ range[t] = 0 => Live(t) = {}
<1>0. unique[t] \in Nat /\ t # 0 /\ phase \in {"insert", "delete", "search"}
  BY HoHAssumption DEF HoHInv, RangeTypeOK, InsertInv, DriverTypeOK
<1>1. CASE phase = "insert"
  <2>1. unique[t] + Cardinality(Counting(t)) = Cardinality(Occupied(t))
    BY <1>1 DEF CountInv, CountMatchesSlots
  <2>2. Live(t) # {} => range[t] = t
    BY <1>1 DEF CountInv, RangesOK
  <2> QED BY <1>0, <2>1, <2>2, LiveFits, CountsAreNumbers
<1>2. CASE phase = "delete"
  <2>1. Cardinality(Kept(t)) <= unique[t] /\ (range[t] = 0 => Kept(t) = {})
    BY <1>2 DEF CountInv, CountsCover
  <2>2. Live(t) \subseteq Kept(t)
    BY <1>2, LiveKept DEF CountInv
  <2>3. IsFiniteSet(Kept(t))
    <3>1. Kept(t) \subseteq OldLive(t)
      BY DEF Kept
    <3> QED BY <3>1, LiveFits, FS_Subset
  <2>4. Cardinality(Live(t)) <= Cardinality(Kept(t)) /\ Cardinality(Kept(t)) \in Nat
    BY <2>2, <2>3, FS_Subset, FS_CardinalityType
  <2>5. Cardinality(Counting(t)) = 0
    BY <1>2, NobodyCounts
  <2> QED BY <1>0, <2>1, <2>2, <2>4, <2>5, LiveFits
<1>3. CASE phase = "search"
  <2>1. Cardinality(Counting(t)) = 0
    BY <1>3, NobodyCounts
  <2>2. Cardinality(Live(t)) <= unique[t] /\ (range[t] = 0 => Live(t) = {})
    BY <1>3 DEF CountInv, SearchKeeps
  <2> QED BY <1>0, <2>1, <2>2, LiveFits
<1> QED BY <1>0, <1>1, <1>2, <1>3

\* The keys of a table that a step leaves alone.
LEMMA SameLive ==
  ASSUME keyAt' = keyAt
  PROVE  \A t : Live(t)' = Live(t)
BY DEF Live, Holds

\* The overwritten key is gone: it had one slot when the kernel started.
LEMMA TombstoneRemoves ==
  ASSUME HoHInv, DeleteGroups, FoundKeys, NEW g \in Groups, WriteTombstone(g)
  PROVE  /\ \A t \in Tables : Live(t)' \subseteq Live(t)
         /\ op[g].key \notin Live(GroupTable(g))'
<1>0. PICK T : T = GroupTable(g)
  OBVIOUS
<1>1. PICK a : a = addr[g]
  OBVIOUS
<1>2. PICK k : k = op[g].key
  OBVIOUS
<1>3. /\ phase = "delete" /\ T \in Tables /\ k \in Keys /\ a \in Slots
      /\ pc[g] = "tombstone"
  BY <1>0, <1>1, <1>2, DeleteMoves DEF WriteTombstone, HoHInv, InsertInv, DriverTypeOK
<1>4. \A t \in Tables, s \in Slots :
        keyAt'[t][s] = IF t = T /\ s = a THEN Tombstone ELSE keyAt[t][s]
  BY <1>0, <1>1, <1>3 DEF WriteTombstone, HoHInv, InsertInv, DriverTypeOK
<1>5. \A t \in Tables : Live(t)' \subseteq Live(t)
  BY <1>4, WordsDiffer DEF Live, Holds
<1>6. oldKeyAt[T][a] = k
  BY <1>0, <1>1, <1>2, <1>3 DEF FoundKeys
<1>7. ASSUME NEW s \in Slots, keyAt'[T][s] = k
      PROVE  FALSE
  <2>1. s # a /\ keyAt[T][s] = k
    BY <1>3, <1>4, <1>7, WordsDiffer
  <2>2. oldKeyAt[T][s] = k
    BY <1>3, <2>1, WordsDiffer DEF HoHInv, InsertInv, OldWords
  <2> QED BY <1>3, <1>6, <2>1, <2>2 DEF FoundKeys
<1>8. k \notin Live(T)'
  BY <1>7 DEF Live, Holds
<1>9. GroupTable(g)' = GroupTable(g)
  BY DEF WriteTombstone, deleteFixed, GroupTable
<1> QED BY <1>0, <1>2, <1>5, <1>8, <1>9

\* The delete kernel keeps what it knows of the keys it has found.
LEMMA FoundKeysStep ==
  ASSUME HoHInv, DeleteGroups, FoundKeys, NEW g \in Groups,
         \/ DeleteRange(g) \/ DeleteScan(g) \/ WriteTombstone(g)
         \/ LoadCount(g) \/ StoreCount(g) \/ FreeRange(g)
  PROVE  FoundKeys'
<1>0. PICK T : T = GroupTable(g)
  OBVIOUS
<1>1. /\ phase = "delete" /\ UNCHANGED <<oldKeyAt, op, active, phase>>
      /\ g \in active /\ op[g].key \in Keys /\ T \in Tables
      /\ \A h \in Groups : h # g => /\ pc'[h] = pc[h] /\ hitLane'[h] = hitLane[h]
                                    /\ addr'[h] = addr[h]
  BY <1>0, DeleteMoves DEF hostVars
<1>2. /\ \A h \in Groups : GroupTable(h)' = GroupTable(h)
      /\ \A t : OldLive(t)' = OldLive(t)
  BY <1>1 DEF GroupTable, OldLive
<1>3. /\ pc \in [Groups -> Steps] /\ hitLane \in [Groups -> Lanes \cup {NoLane}]
      /\ addr \in [Groups -> Slots]
  BY DEF HoHInv, InsertInv, DriverTypeOK, RangeTypeOK
<1> DEFINE Found(h) ==
      /\ pc[h] = "tombstone" => oldKeyAt[GroupTable(h)][addr[h]] = op[h].key
      /\ hitLane[h] # NoLane =>
           /\ op[h].key \in OldLive(GroupTable(h))
           /\ pc[h] # "tombstone" => op[h].key \notin Live(GroupTable(h))
<1>4. \A h \in Groups : Found(h)
  BY <1>1 DEF FoundKeys
<1>5. SUFFICES \A h \in Groups :
        /\ pc'[h] = "tombstone" => oldKeyAt[GroupTable(h)][addr'[h]] = op[h].key
        /\ hitLane'[h] # NoLane =>
             /\ op[h].key \in OldLive(GroupTable(h))
             /\ pc'[h] # "tombstone" => op[h].key \notin Live(GroupTable(h))'
  <2>1. \A h \in Groups : Live(GroupTable(h)') = Live(GroupTable(h))
    BY <1>2
  <2>2. \A h, j \in active : op[h].key = op[j].key => h = j
    BY <1>1 DEF FoundKeys
  <2>3. \A t \in Tables : \A s1, s2 \in Slots :
         oldKeyAt[t][s1] = oldKeyAt[t][s2] /\ oldKeyAt[t][s1] \in Keys => s1 = s2
    BY <1>1 DEF FoundKeys
  <2> QED BY <1>1, <1>2, <2>2, <2>3 DEF FoundKeys
<1>6. \A h \in Groups : hitLane[h] # NoLane => GroupTable(h) \in Tables
  BY <1>1, InsertAssumption DEF DeleteGroups, GroupTable
<1>7. \A h \in Groups : hitLane[h] # NoLane =>
        \A k : k \in Live(GroupTable(h))' => k \in Live(GroupTable(h))
  <2>1. \A t \in Tables : Live(t)' \subseteq Live(t)
    <3>1. CASE WriteTombstone(g)
      BY <3>1, TombstoneRemoves
    <3>2. CASE ~WriteTombstone(g)
      <4>1. keyAt' = keyAt
        BY <3>2 DEF DeleteRange, DeleteScan, LoadCount, StoreCount, FreeRange
      <4> QED BY <4>1, SameLive
    <3> QED BY <3>1, <3>2
  <2>2. \A h \in Groups : GroupTable(h)' = GroupTable(h)
    BY <1>2
  <2> QED BY <1>6, <2>1, <2>2
<1>8. ASSUME NEW h \in Groups, h # g
      PROVE  /\ pc'[h] = "tombstone" => oldKeyAt[GroupTable(h)][addr'[h]] = op[h].key
             /\ hitLane'[h] # NoLane =>
                  /\ op[h].key \in OldLive(GroupTable(h))
                  /\ pc'[h] # "tombstone" => op[h].key \notin Live(GroupTable(h))'
  BY <1>1, <1>4, <1>7, <1>8
<1> DEFINE Goal ==
      /\ pc'[g] = "tombstone" => oldKeyAt[T][addr'[g]] = op[g].key
      /\ hitLane'[g] # NoLane =>
           /\ op[g].key \in OldLive(T)
           /\ pc'[g] # "tombstone" => op[g].key \notin Live(GroupTable(g))'
<1>9. ASSUME DeleteScan(g) PROVE Goal
  <2>1. pc[g] = "delScan" /\ hitLane[g] = NoLane
    BY <1>1, <1>9 DEF DeleteScan, DeleteGroups
  <2>2. PICK k : k = op[g].key
    OBVIOUS
  <2>3. PICK cells \in {keyAt[T], oldKeyAt[T]} :
          \/ \E p \in Hits(cells, Home[k], k, Sentinel, EarlyLanes) :
               /\ addr' = [addr EXCEPT ![g] = SlotAt(Home[k], p[1], p[2])]
               /\ GoTo(g, "tombstone")
          \/ GoTo(g, "idle") /\ UNCHANGED hitLane
    BY <1>0, <1>9, <2>2 DEF DeleteScan
  <2>4. CASE GoTo(g, "idle") /\ UNCHANGED hitLane
    BY <1>3, <2>1, <2>4 DEF GoTo
  <2>5. ASSUME NEW p \in Hits(cells, Home[k], k, Sentinel, EarlyLanes),
               addr' = [addr EXCEPT ![g] = SlotAt(Home[k], p[1], p[2])],
               GoTo(g, "tombstone")
        PROVE  Goal
    <3>1. PICK s \in Slots : s = SlotAt(Home[k], p[1], p[2]) /\ cells[s] = k
      BY <1>1, <2>2, HitsAreSlots
    <3>2. oldKeyAt[T][s] = k
      BY <1>1, <2>2, <2>3, <3>1, WordsDiffer DEF HoHInv, InsertInv, OldWords
    <3>3. addr'[g] = s /\ pc'[g] = "tombstone"
      BY <1>3, <2>5, <3>1 DEF GoTo
    <3> QED BY <1>1, <2>2, <3>2, <3>3 DEF OldLive
  <2> QED BY <2>3, <2>4, <2>5
<1>10. ASSUME WriteTombstone(g) PROVE Goal
  <2>1. pc[g] = "tombstone" /\ pc'[g] = "loadCount" /\ hitLane' = hitLane
    BY <1>3, <1>10 DEF WriteTombstone, GoTo
  <2>2. op[g].key \notin Live(GroupTable(g))'
    BY <1>10, TombstoneRemoves
  <2> QED BY <1>0, <1>4, <2>1, <2>2
<1>11. ASSUME DeleteRange(g) \/ LoadCount(g) \/ StoreCount(g) \/ FreeRange(g) PROVE Goal
  <2>1. /\ hitLane' = hitLane /\ (pc[g] = "tombstone" => pc'[g] = "tombstone")
        /\ pc'[g] = "tombstone" => pc[g] = "tombstone" /\ addr' = addr
    BY <1>3, <1>11 DEF DeleteRange, LoadCount, StoreCount, FreeRange, GoTo
  <2> QED BY <1>0, <1>4, <1>7, <2>1
<1>12. Goal
  BY <1>9, <1>10, <1>11
<1> QED BY <1>0, <1>8, <1>12

LEMMA FoundKeysPreserved ==
  ASSUME DistinctDeletes, HoHInv, DeleteGroups, FoundKeys, [Next]_vars
  PROVE  FoundKeys'
<1>1. CASE LaunchInsert \/ LaunchSearch
  BY <1>1 DEF LaunchInsert, LaunchSearch, InsertBatch, SearchBatch, EnterPhase, FoundKeys
<1>2. CASE LaunchDelete
  <2>1. /\ hitLane' = [g \in Groups |-> NoLane] /\ oldKeyAt' = keyAt
        /\ \A g \in Groups : pc'[g] \in {"delRange", "idle"}
    BY <1>2 DEF LaunchDelete, FreshKernel, DeleteBatch, StartKernel
  <2>2. \A g, h \in active' : op'[g].key = op'[h].key => g = h
    <3>1. PICK n \in Groups : \E keys \in [1 .. n -> Keys] :
            /\ \A g, h \in 1 .. n : keys[g] = keys[h] => g = h
            /\ StartKernel([g \in 1 .. n |-> [key |-> keys[g], value |-> Sentinel]],
                           "delRange")
      BY <1>2 DEF LaunchDelete, DeleteBatch
    <3>2. PICK keys \in [1 .. n -> Keys] :
            /\ \A g, h \in 1 .. n : keys[g] = keys[h] => g = h
            /\ StartKernel([g \in 1 .. n |-> [key |-> keys[g], value |-> Sentinel]],
                           "delRange")
      BY <3>1
    <3>3. 1 .. n \subseteq Groups
      BY InsertAssumption DEF Groups
    <3>4. active' = 1 .. n /\ \A g \in 1 .. n : op'[g].key = keys[g]
      BY <3>2, <3>3 DEF StartKernel
    <3> QED BY <3>2, <3>4
  <2>3. \A t \in Tables : \A s1, s2 \in Slots :
          oldKeyAt'[t][s1] = oldKeyAt'[t][s2] /\ oldKeyAt'[t][s1] \in Keys => s1 = s2
    BY <2>1 DEF HoHInv, InsertInv, OneSlotPerKey
  <2> QED BY <2>1, <2>2, <2>3 DEF FoundKeys
<1>3. CASE Finished \/ UNCHANGED vars
  <2>1. UNCHANGED <<keyAt, oldKeyAt, pc, op, addr, phase, active, hitLane>>
    BY <1>3 DEF Finished, vars, insertVars, hostVars
  <2> QED BY <2>1 DEF FoundKeys, OldLive, Live, Holds, GroupTable
<1>4. ASSUME NEW g \in Groups, GroupStep(g)
      PROVE  FoundKeys'
  <2>1. CASE \/ ReadRange(g) \/ ClaimRange(g) \/ InsertBallot(g) \/ InsertClaim(g)
             \/ AddUnique(g) \/ InsertStore(g) \/ Search(g)
    <3>1. pc[g] \in InsertSteps \cup {"search"} /\ phase' = phase
      BY <2>1 DEF ReadRange, ClaimRange, InsertBallot, Ballot, InsertClaim, Claim, AddUnique,
                  InsertStore, StoreValue, Search, insertOnly, hostVars, InsertSteps
    <3>2. phase # "delete"
      BY <3>1 DEF DeleteGroups, HoHInv, InsertInv, PhaseOK
    <3> QED BY <3>1, <3>2 DEF FoundKeys
  <2> QED BY <1>4, <2>1, FoundKeysStep DEF GroupStep
<1> QED BY <1>1, <1>2, <1>3, <1>4 DEF Next

\* The keys still to be taken from a count are finitely many.
LEMMA KeptIsFinite ==
  ASSUME NEW t \in Tables
  PROVE  IsFiniteSet(Kept(t)) /\ Cardinality(Kept(t)) \in Nat
<1>1. Kept(t) \subseteq OldLive(t)
  BY DEF Kept
<1> QED BY <1>1, LiveFits, FS_Subset, FS_CardinalityType

\* A step that stores no count leaves the keys to be counted as they are.
LEMMA SameKept ==
  ASSUME HoHInv, DeleteGroups, NEW g \in Groups,
         DeleteRange(g) \/ DeleteScan(g) \/ WriteTombstone(g) \/ LoadCount(g) \/ FreeRange(g)
  PROVE  \A t : Kept(t)' = Kept(t)
<1>1. /\ phase = "delete" /\ UNCHANGED <<oldKeyAt, op>>
      /\ \A h \in Groups : h # g => pc'[h] = pc[h] /\ hitLane'[h] = hitLane[h]
  BY DeleteMoves
<1>2. /\ pc \in [Groups -> Steps] /\ hitLane \in [Groups -> Lanes \cup {NoLane}]
  BY DEF HoHInv, InsertInv, DriverTypeOK, RangeTypeOK
<1>3. (hitLane'[g] # NoLane /\ pc'[g] = "idle") = (hitLane[g] # NoLane /\ pc[g] = "idle")
  <2>1. CASE DeleteRange(g)
    <3>1. pc[g] = "delRange" /\ hitLane' = hitLane
      BY <2>1 DEF DeleteRange
    <3> QED BY <1>1, <3>1 DEF DeleteGroups
  <2>2. CASE DeleteScan(g)
    <3>1. pc[g] = "delScan" /\ (pc'[g] = "idle" => hitLane' = hitLane)
      BY <1>2, <2>2 DEF DeleteScan, GoTo
    <3>2. hitLane[g] = NoLane
      BY <1>1, <3>1 DEF DeleteGroups
    <3> QED BY <3>1, <3>2
  <2>3. CASE WriteTombstone(g) \/ LoadCount(g)
    BY <1>2, <2>3 DEF WriteTombstone, LoadCount, GoTo
  <2>4. CASE FreeRange(g)
    BY <2>4 DEF FreeRange
  <2> QED BY <2>1, <2>2, <2>3, <2>4
<1>4. \A h \in Groups : /\ GroupTable(h)' = GroupTable(h)
                        /\ (hitLane'[h] # NoLane /\ pc'[h] = "idle") =
                             (hitLane[h] # NoLane /\ pc[h] = "idle")
  BY <1>1, <1>3 DEF GroupTable
<1>5. \A t : Stored(t)' = Stored(t) /\ OldLive(t)' = OldLive(t)
  BY <1>1, <1>4 DEF Stored, OldLive
<1> QED BY <1>1, <1>5 DEF Kept

\* A decrement takes one key from the count, and one from the keys to be counted:
\* the key is the group's own, and no other group has taken it.
LEMMA StoreCountKeeps ==
  ASSUME HoHInv, DeleteGroups, FoundKeys, CountsCover, NEW g \in Groups, StoreCount(g)
  PROVE  /\ \A t \in Tables : Kept(t)' \subseteq Kept(t)
         /\ Cardinality(Kept(GroupTable(g))') <= LessOne(loaded[g])
         /\ LessOne(loaded[g]) \in Nat
<1>0. PICK T : T = GroupTable(g)
  OBVIOUS
<1>1. /\ phase = "delete" /\ UNCHANGED <<oldKeyAt, op>> /\ T \in Tables
      /\ g \in active /\ hitLane[g] # NoLane
      /\ pc[g] = "storeCount" /\ pc' = [pc EXCEPT ![g] = "idle"] /\ hitLane' = hitLane
  <2>1. pc[g] = "storeCount" /\ pc' = [pc EXCEPT ![g] = "idle"] /\ hitLane' = hitLane
    BY DEF StoreCount, GoTo
  <2> QED BY <1>0, <2>1, DeleteMoves DEF DeleteGroups
<1>2. \A h \in Groups : /\ GroupTable(h)' = GroupTable(h)
                        /\ pc'[h] = IF h = g THEN "idle" ELSE pc[h]
  BY <1>1 DEF GroupTable, HoHInv, InsertInv, DriverTypeOK
<1>3. \A t \in Tables : /\ OldLive(t)' = OldLive(t)
                        /\ Stored(t)' = Stored(t) \cup (IF t = T THEN {g} ELSE {})
  <2>1. \A t : OldLive(t)' = OldLive(t)
    BY <1>1 DEF OldLive
  <2>2. GroupTable(g) = T
    BY <1>0
  <2>3. \A t, h : h \in Stored(t)' <=> h \in Stored(t) \/ (h = g /\ t = T)
    BY <1>1, <1>2, <2>2 DEF Stored
  <2>4. ASSUME NEW t \in Tables
        PROVE  Stored(t)' = Stored(t) \cup (IF t = T THEN {g} ELSE {})
    BY <2>3
  <2> QED BY <2>1, <2>4
<1>4. \A t \in Tables : Kept(t)' \subseteq Kept(t)
  BY <1>1, <1>3 DEF Kept
<1>5. Kept(T)' = Kept(T) \ {op[g].key}
  BY <1>1, <1>3 DEF Kept
<1>6. op[g].key \in Kept(T)
  <2>1. op[g].key \in OldLive(T)
    BY <1>0, <1>1 DEF FoundKeys
  <2>2. ASSUME NEW h \in Stored(T), op[h].key = op[g].key
        PROVE  FALSE
    <3>1. h \in Groups /\ hitLane[h] # NoLane /\ pc[h] = "idle"
      BY <2>2 DEF Stored
    <3>2. h \in active
      BY <1>1, <3>1 DEF DeleteGroups
    <3> QED BY <1>1, <2>2, <3>1, <3>2 DEF FoundKeys
  <2> QED BY <2>1, <2>2 DEF Kept
<1>7. PICK n : n = loaded[g]
  OBVIOUS
<1>8. n \in 0 .. CounterMod - 1 /\ Cardinality(Kept(T)) <= n
  <2>1. loaded[g] \in pastUnique[T]
    BY <1>0, <1>1 DEF CountsCover
  <2> QED BY <1>1, <1>7, <2>1 DEF CountsCover, HoHInv, RangeTypeOK
<1>9. /\ Cardinality(Kept(T)') = Cardinality(Kept(T)) - 1
      /\ Cardinality(Kept(T)) \in Nat /\ Cardinality(Kept(T)') \in Nat
  <2>1. IsFiniteSet(Kept(T)) /\ Cardinality(Kept(T)) \in Nat
    BY <1>1, KeptIsFinite
  <2>2. /\ IsFiniteSet(Kept(T)')
        /\ Cardinality(Kept(T)') = Cardinality(Kept(T)) - 1
    BY ZenonT(40), <1>5, <1>6, <2>1, FS_RemoveElement
  <2> QED BY <2>1, <2>2, FS_CardinalityType
<1>10. n >= 1 /\ n \in Nat /\ CounterMod \in Nat /\ n < CounterMod
  BY <1>8, <1>9, HoHAssumption
<1>11. LessOne(n) = n - 1
  <2>1. (n + CounterMod - 1) % CounterMod = n - 1
    <3>1. n + CounterMod - 1 = 1 * CounterMod + (n - 1)
      BY <1>10
    <3> QED BY <1>10, <3>1
  <2> QED BY <2>1 DEF LessOne
<1>12. GroupTable(g)' = T
  BY <1>0, <1>2
<1>13. Cardinality(Kept(T)') <= n - 1 /\ n - 1 \in Nat
  BY <1>8, <1>9, <1>10
<1> QED BY <1>4, <1>7, <1>11, <1>12, <1>13

LEMMA CountsCoverStep ==
  ASSUME HoHInv, RangesOK, DeleteGroups, FoundKeys, CountsCover, NEW g \in Groups,
         \/ DeleteRange(g) \/ DeleteScan(g) \/ WriteTombstone(g)
         \/ LoadCount(g) \/ StoreCount(g) \/ FreeRange(g)
  PROVE  CountsCover'
<1>0. PICK T : T = GroupTable(g)
  OBVIOUS
<1>1. /\ phase = "delete" /\ UNCHANGED <<oldKeyAt, op, oldRange, phase>> /\ T \in Tables
      /\ g \in active /\ op[g].key \in Keys
      /\ \A h \in Groups : h # g => /\ pc'[h] = pc[h] /\ hitLane'[h] = hitLane[h]
                                    /\ loaded'[h] = loaded[h]
                                    /\ freeCheck'[h] = freeCheck[h]
  BY <1>0, DeleteMoves DEF hostVars
<1>2. /\ \A h \in Groups : GroupTable(h)' = GroupTable(h)
      /\ \A t : OldLive(t)' = OldLive(t)
  BY <1>1 DEF GroupTable, OldLive
<1>3. /\ pc \in [Groups -> Steps] /\ hitLane \in [Groups -> Lanes \cup {NoLane}]
      /\ freeCheck \in [Groups -> BOOLEAN] /\ range \in [Tables -> RangeWords]
      /\ loaded \in [Groups -> 0 .. CounterMod - 1]
      /\ unique \in [Tables -> 0 .. CounterMod - 1]
      /\ pastUnique \in [Tables -> SUBSET (0 .. CounterMod - 1)]
      /\ CounterMod \in Nat
  BY HoHAssumption DEF HoHInv, InsertInv, DriverTypeOK, RangeTypeOK
<1>4. /\ \A t \in Tables : /\ unique[t] \in pastUnique[t]
                           /\ \A n \in pastUnique[t] : Cardinality(Kept(t)) <= n
                           /\ range[t] = 0 => Kept(t) = {}
                           /\ OldLive(t) # {} => oldRange[t] = t
      /\ \A h \in Groups :
           /\ pc[h] = "storeCount" => loaded[h] \in pastUnique[GroupTable(h)]
           /\ freeCheck[h] /\ hitLane[h] = 0 =>
                pc[h] = "idle" /\ LessOne(loaded[h]) \in pastUnique[GroupTable(h)]
  BY <1>1 DEF CountsCover
<1>5. 0 # NoLane
  BY ProbeAssumption DEF NoLane
<1>6. \A h \in Groups : pc[h] # "idle" \/ freeCheck[h] => GroupTable(h) \in Tables
  BY <1>1, InsertAssumption DEF DeleteGroups, GroupTable
<1>7. \A t \in Tables : Kept(t)' \subseteq Kept(t)
  BY SameKept, StoreCountKeeps
\* What has to hold of every table and of every group.
<1>8. ASSUME \A t \in Tables : /\ unique'[t] \in pastUnique'[t]
                               /\ \A n \in pastUnique'[t] : Cardinality(Kept(t)') <= n
                               /\ range'[t] = 0 => Kept(t)' = {},
             \A t \in Tables : pastUnique[t] \subseteq pastUnique'[t],
             pc'[g] = "storeCount" => loaded'[g] \in pastUnique'[T],
             freeCheck'[g] /\ hitLane'[g] = 0 =>
               pc'[g] = "idle" /\ LessOne(loaded'[g]) \in pastUnique'[T]
      PROVE  CountsCover'
  <2>1. ASSUME NEW h \in Groups, h # g,
               \A t \in Tables : pastUnique[t] \subseteq pastUnique'[t]
        PROVE  /\ pc'[h] = "storeCount" => loaded'[h] \in pastUnique'[GroupTable(h)]
               /\ freeCheck'[h] /\ hitLane'[h] = 0 =>
                    pc'[h] = "idle" /\ LessOne(loaded'[h]) \in pastUnique'[GroupTable(h)]
    BY <1>1, <1>4, <1>6, <2>1
  <2>2. \A t \in Tables : OldLive(t)' # {} => oldRange'[t] = t
    BY <1>1, <1>2, <1>4
  <2>3. /\ \A h \in Groups : LessOne(loaded[h])' = LessOne(loaded'[h])
        /\ GroupTable(g)' = T
    BY <1>0, <1>2 DEF LessOne
  <2> QED BY <1>0, <1>1, <1>2, <1>8, <2>1, <2>2, <2>3 DEF CountsCover
\* Steps that leave the counts and the ranges alone.
<1>9. ASSUME UNCHANGED <<unique, pastUnique, range>>, \A t \in Tables : Kept(t)' = Kept(t),
             pc'[g] = "storeCount" => loaded'[g] \in pastUnique[T],
             ~(freeCheck'[g] /\ hitLane'[g] = 0)
      PROVE  CountsCover'
  BY <1>4, <1>8, <1>9
<1>10. CASE DeleteRange(g)
  <2>1. /\ pc[g] = "delRange" /\ pc'[g] \in {"delScan", "idle"}
        /\ UNCHANGED <<unique, pastUnique, range, freeCheck>>
    BY <1>3, <1>10 DEF DeleteRange, GoTo, countVars
  <2>2. ~freeCheck[g]
    BY <1>1, <2>1 DEF DeleteGroups
  <2> QED BY <1>9, <1>10, <2>1, <2>2, SameKept
<1>11. CASE DeleteScan(g)
  <2>1. /\ pc[g] = "delScan" /\ UNCHANGED <<unique, pastUnique, range>>
        /\ pc'[g] \in {"tombstone", "idle"}
    BY <1>3, <1>11 DEF DeleteScan, GoTo, countVars
  <2>2. hitLane[g] = NoLane
    BY <1>1, <2>1 DEF DeleteGroups
  <2>3. ~(freeCheck'[g] /\ hitLane'[g] = 0)
    <3>1. PICK k : k = op[g].key
      OBVIOUS
    <3>2. PICK cells \in {keyAt[T], oldKeyAt[T]} :
            \/ \E p \in Hits(cells, Home[k], k, Sentinel, EarlyLanes) :
                 /\ hitLane' = [hitLane EXCEPT ![g] = p[2]]
                 /\ freeCheck' = [freeCheck EXCEPT ![g] = p[2] # 0]
            \/ UNCHANGED hitLane
      BY <1>0, <1>11, <3>1 DEF DeleteScan
    <3> QED BY <1>3, <1>5, <2>2, <3>2
  <2> QED BY <1>9, <1>11, <2>1, <2>3, SameKept
<1>12. CASE WriteTombstone(g)
  <2>1. /\ pc[g] = "tombstone" /\ pc'[g] = "loadCount"
        /\ UNCHANGED <<unique, pastUnique, range, freeCheck, hitLane>>
    BY <1>3, <1>12 DEF WriteTombstone, GoTo, countVars
  <2> QED BY <1>4, <1>9, <1>12, <2>1, SameKept
<1>13. CASE LoadCount(g)
  <2>1. /\ pc[g] = "loadCount"
        /\ UNCHANGED <<unique, pastUnique, range, freeCheck, hitLane>>
        /\ \E n \in pastUnique[T] : loaded' = [loaded EXCEPT ![g] = n]
    BY <1>0, <1>13 DEF LoadCount
  <2>2. loaded'[g] \in pastUnique[T]
    BY <1>3, <2>1
  <2> QED BY <1>4, <1>9, <1>13, <2>1, <2>2, SameKept
<1>14. CASE StoreCount(g)
  <2>1. PICK n : n = LessOne(loaded[g])
    OBVIOUS
  <2>2. /\ unique' = [unique EXCEPT ![T] = n]
        /\ pastUnique' = [pastUnique EXCEPT ![T] = pastUnique[T] \cup {n}]
        /\ pc'[g] = "idle" /\ UNCHANGED <<range, loaded>>
    BY <1>0, <1>3, <1>14, <2>1 DEF StoreCount, GoTo
  <2>3. /\ n \in Nat /\ Cardinality(Kept(T)') <= n
        /\ \A t \in Tables : /\ Cardinality(Kept(t)') <= Cardinality(Kept(t))
                             /\ Cardinality(Kept(t)') \in Nat
                             /\ Cardinality(Kept(t)) \in Nat
    <3>1. GroupTable(g)' = T
      BY <1>0, <1>2
    <3>2. Cardinality(Kept(T)') <= n /\ n \in Nat
      BY <1>14, <2>1, <3>1, StoreCountKeeps
    <3>3. \A t \in Tables : /\ IsFiniteSet(Kept(t))
                            /\ Cardinality(Kept(t)) \in Nat
                            /\ Cardinality(Kept(t)') <= Cardinality(Kept(t))
                            /\ Cardinality(Kept(t)') \in Nat
      BY <1>7, KeptIsFinite, FS_Subset, FS_CardinalityType
    <3> QED BY <3>2, <3>3
  <2>4. \A t \in Tables : /\ unique'[t] = IF t = T THEN n ELSE unique[t]
                          /\ pastUnique'[t] = IF t = T THEN pastUnique[T] \cup {n}
                                                       ELSE pastUnique[t]
    BY <1>3, <2>2
  <2>5. ASSUME NEW t \in Tables
        PROVE  /\ unique'[t] \in pastUnique'[t]
               /\ \A m \in pastUnique'[t] : Cardinality(Kept(t)') <= m
               /\ range'[t] = 0 => Kept(t)' = {}
    <3>1. unique'[t] \in pastUnique'[t]
      BY <1>4, <2>4
    <3>2. \A m \in pastUnique[t] : m \in Nat /\ Cardinality(Kept(t)) <= m
      BY <1>3, <1>4
    <3>3. \A m \in pastUnique'[t] : Cardinality(Kept(t)') <= m
      BY <2>3, <2>4, <3>2
    <3> QED BY <1>4, <1>7, <2>2, <3>1, <3>3
  <2>6. n \in pastUnique'[T] /\ \A t \in Tables : pastUnique[t] \subseteq pastUnique'[t]
    BY <1>1, <2>4
  <2> QED BY <1>8, <2>1, <2>2, <2>5, <2>6
<1>15. CASE FreeRange(g)
  <2>1. /\ UNCHANGED <<unique, pastUnique, loaded, pc>> /\ ~freeCheck'[g] /\ freeCheck[g]
        /\ hitLane' = hitLane
    BY <1>3, <1>15 DEF FreeRange, countVars
  <2>2. PICK n \in IF hitLane[g] = 0 THEN {LessOne(loaded[g]), unique[T]} ELSE pastUnique[T] :
          range' = IF n = 0 THEN [range EXCEPT ![T] = 0] ELSE range
    BY <1>0, <1>15 DEF FreeRange
  <2>3. n \in pastUnique[T]
    BY <1>0, <1>1, <1>4, <2>1, <2>2
  <2>4. n = 0 => Kept(T) = {}
    <3>1. n = 0 => Cardinality(Kept(T)) = 0
      BY <1>1, <1>4, <2>3, KeptIsFinite
    <3> QED BY <1>1, <3>1, KeptIsFinite, FS_EmptySet
  <2>5. \A t \in Tables : range'[t] = 0 => Kept(t)' = {}
    <3>1. \A t \in Tables : range'[t] = 0 => Kept(t) = {}
      BY <1>3, <1>4, <2>2, <2>4
    <3> QED BY <1>7, <3>1
  <2> QED BY <1>0, <1>4, <1>8, <1>15, <2>1, <2>5, SameKept
<1> QED BY <1>10, <1>11, <1>12, <1>13, <1>14, <1>15

\* A delete kernel starts with a count that covers every key of the table.
LEMMA CountsCoverLaunch ==
  ASSUME HoHInv, CountInv, LaunchInsert \/ LaunchDelete \/ LaunchSearch
  PROVE  CountsCover'
<1>1. /\ Quiet /\ oldRange' = range /\ pastUnique' = [t \in Tables |-> {unique[t]}]
      /\ hitLane' = [g \in Groups |-> NoLane] /\ UNCHANGED <<range, unique, freeCheck>>
  BY DEF LaunchInsert, LaunchDelete, LaunchSearch, FreshKernel
<1>2. CASE LaunchInsert \/ LaunchSearch
  <2>1. phase' # "delete"
    BY <1>2 DEF LaunchInsert, LaunchSearch, InsertBatch, SearchBatch, EnterPhase
  <2> QED BY <1>1, <2>1 DEF CountsCover
<1>3. CASE LaunchDelete
  <2>1. oldKeyAt' = keyAt /\ \A g \in Groups : pc'[g] \in {"delRange", "idle"}
    BY <1>3 DEF LaunchDelete, DeleteBatch, StartKernel
  <2>2. \A t : OldLive(t)' = Live(t)
    BY <2>1 DEF OldLive, Live, Holds
  <2>3. \A t : Stored(t)' = {}
    BY <1>1 DEF Stored
  <2>4. \A t : Kept(t)' = Live(t)
    BY <2>2, <2>3 DEF Kept
  <2>5. ASSUME NEW t \in Tables
        PROVE  /\ Cardinality(Live(t)) <= unique[t]
               /\ Live(t) # {} => range[t] = t
               /\ range[t] = 0 => Live(t) = {}
    <3>1. /\ unique[t] + Cardinality(Counting(t)) >= Cardinality(Live(t))
          /\ range[t] = 0 => Live(t) = {}
      BY InvCovers
    <3>2. Cardinality(Counting(t)) = 0
      BY <1>1, NobodyCounts
    <3>3. unique[t] \in Nat /\ Cardinality(Live(t)) \in Nat
      BY LiveFits DEF HoHInv, RangeTypeOK
    <3>4. range[t] \in {0, t}
      BY DEF CountInv, RangesOK
    <3> QED BY <3>1, <3>2, <3>3, <3>4
  <2>6. \A g \in Groups : ~freeCheck'[g] /\ pc'[g] # "storeCount"
    BY <1>1, <2>1 DEF Quiet
  <2> QED BY <1>1, <2>2, <2>4, <2>5, <2>6 DEF CountsCover
<1> QED BY <1>2, <1>3

LEMMA CountsCoverPreserved ==
  ASSUME HoHInv, CountInv, [Next]_vars
  PROVE  CountsCover'
<1>1. CASE LaunchInsert \/ LaunchDelete \/ LaunchSearch
  BY <1>1, CountsCoverLaunch
<1>2. CASE Finished \/ UNCHANGED vars
  <2>1. /\ UNCHANGED <<oldKeyAt, pc, op, phase, range, oldRange, hitLane, freeCheck>>
        /\ UNCHANGED <<unique, pastUnique, loaded>>
    BY <1>2 DEF Finished, vars, insertVars, hostVars, countVars
  <2>2. \A t : OldLive(t)' = OldLive(t) /\ Stored(t)' = Stored(t)
    BY <2>1 DEF OldLive, Stored, GroupTable
  <2>3. \A t : Kept(t)' = Kept(t)
    BY <2>1, <2>2 DEF Kept
  <2> QED BY <2>1, <2>2, <2>3 DEF CountInv, CountsCover, GroupTable, LessOne
<1>3. ASSUME NEW g \in Groups, GroupStep(g)
      PROVE  CountsCover'
  <2>1. CASE \/ ReadRange(g) \/ ClaimRange(g) \/ InsertBallot(g) \/ InsertClaim(g)
             \/ AddUnique(g) \/ InsertStore(g) \/ Search(g)
    <3>1. pc[g] \in InsertSteps \cup {"search"} /\ phase' = phase
      BY <2>1 DEF ReadRange, ClaimRange, InsertBallot, Ballot, InsertClaim, Claim, AddUnique,
                  InsertStore, StoreValue, Search, insertOnly, hostVars, InsertSteps
    <3>2. phase' # "delete"
      BY <3>1 DEF CountInv, DeleteGroups, HoHInv, InsertInv, PhaseOK
    <3>3. \A t \in Tables : unique[t] \in pastUnique[t]
      BY DEF CountInv, CountsCover
    <3>4. \A t \in Tables : unique'[t] \in pastUnique'[t]
      <4>1. CASE AddUnique(g)
        <5>1. PICK T, n : /\ unique' = [unique EXCEPT ![T] = n]
                          /\ pastUnique' = [pastUnique EXCEPT ![T] = pastUnique[T] \cup {n}]
          BY <4>1 DEF AddUnique
        <5> QED BY <3>3, <5>1 DEF HoHInv, RangeTypeOK
      <4>2. CASE ~AddUnique(g)
        <5>1. UNCHANGED <<unique, pastUnique>>
          BY <2>1, <4>2 DEF ReadRange, ClaimRange, InsertBallot, InsertClaim, InsertStore,
                            Search, insertOnly, countVars
        <5> QED BY <3>3, <5>1
      <4> QED BY <4>1, <4>2
    <3> QED BY <3>2, <3>4 DEF CountsCover
  <2> QED BY <1>3, <2>1, CountsCoverStep DEF GroupStep, CountInv
<1> QED BY <1>1, <1>2, <1>3 DEF Next

LEMMA SearchKeepsPreserved ==
  ASSUME HoHInv, CountInv, [Next]_vars
  PROVE  SearchKeeps'
<1>1. CASE LaunchInsert \/ LaunchDelete
  BY <1>1 DEF LaunchInsert, LaunchDelete, InsertBatch, DeleteBatch, EnterPhase, SearchKeeps
<1>2. CASE LaunchSearch
  <2>1. Quiet /\ UNCHANGED <<keyAt, range, unique>>
    BY <1>2 DEF LaunchSearch, FreshKernel, SearchBatch, StartKernel
  <2>2. ASSUME NEW t \in Tables
        PROVE  Cardinality(Live(t)) <= unique[t] /\ (range[t] = 0 => Live(t) = {})
    <3>1. /\ unique[t] + Cardinality(Counting(t)) >= Cardinality(Live(t))
          /\ range[t] = 0 => Live(t) = {}
      BY InvCovers
    <3>2. Cardinality(Counting(t)) = 0
      BY <2>1, NobodyCounts
    <3>3. unique[t] \in Nat /\ Cardinality(Live(t)) \in Nat
      BY LiveFits DEF HoHInv, RangeTypeOK
    <3> QED BY <3>1, <3>2, <3>3
  <2>3. \A t : Live(t)' = Live(t)
    BY <2>1, SameLive
  <2> QED BY <2>1, <2>2, <2>3 DEF SearchKeeps
<1>3. CASE Finished \/ UNCHANGED vars
  <2>1. UNCHANGED <<keyAt, range, unique, phase>>
    BY <1>3 DEF Finished, vars, insertVars, hostVars, countVars
  <2> QED BY <2>1, SameLive DEF CountInv, SearchKeeps
<1>4. ASSUME NEW g \in Groups, GroupStep(g)
      PROVE  SearchKeeps'
  <2>1. CASE Search(g)
    <3>1. UNCHANGED <<keyAt, range, unique, phase>>
      BY <2>1 DEF Search, hostVars, countVars
    <3> QED BY <3>1, SameLive DEF CountInv, SearchKeeps
  <2>2. CASE \/ ReadRange(g) \/ ClaimRange(g) \/ InsertBallot(g) \/ InsertClaim(g)
             \/ AddUnique(g) \/ InsertStore(g)
    <3>1. pc[g] \in InsertSteps /\ phase' = phase
      BY <2>2 DEF ReadRange, ClaimRange, InsertBallot, Ballot, InsertClaim, Claim, AddUnique,
                  InsertStore, StoreValue, insertOnly, hostVars, InsertSteps
    <3>2. phase' # "search"
      BY <3>1 DEF HoHInv, InsertInv, PhaseOK
    <3> QED BY <3>2 DEF SearchKeeps
  <2>3. CASE \/ DeleteRange(g) \/ DeleteScan(g) \/ WriteTombstone(g)
             \/ LoadCount(g) \/ StoreCount(g) \/ FreeRange(g)
    <3>1. phase' = "delete"
      BY <2>3, DeleteMoves DEF CountInv, hostVars
    <3> QED BY <3>1 DEF SearchKeeps
  <2> QED BY <1>4, <2>1, <2>2, <2>3 DEF GroupStep
<1> QED BY <1>1, <1>2, <1>3, <1>4 DEF Next

LEMMA CountInvInit == Init => CountInv
<1> SUFFICES ASSUME Init
             PROVE  CountInv
  OBVIOUS
<1>1. /\ phase = "insert" /\ range = [t \in Tables |-> 0] /\ oldRange = range
      /\ pc = [g \in Groups |-> "idle"] /\ freeCheck = [g \in Groups |-> FALSE]
      /\ keyAt = [t \in Tables |-> [s \in Slots |-> Sentinel]]
      /\ unique = [t \in Tables |-> 0] /\ pastUnique = [t \in Tables |-> {0}]
  BY DEF Init, DriverInit
<1>2. \A t \in Tables : Live(t) = {} /\ t # 0
  BY <1>1, WordsDiffer, HoHAssumption DEF Live, Holds
<1>3. RangesOK
  BY <1>1, <1>2 DEF RangesOK
<1>4. DeleteGroups /\ FoundKeys /\ CountsCover /\ SearchKeeps
  BY <1>1 DEF DeleteGroups, FoundKeys, CountsCover, SearchKeeps
<1> QED BY <1>3, <1>4, CountMatchesInit DEF CountInv

LEMMA CountInvPreserved ==
  ASSUME DistinctDeletes, HoHInv, CountInv, [Next]_vars
  PROVE  CountInv'
BY CountMatchesPreserved, RangesPreserved, DeleteGroupsPreserved, FoundKeysPreserved,
   CountsCoverPreserved, SearchKeepsPreserved DEF CountInv

LEMMA CountInvariant ==
  ASSUME DistinctDeletes
  PROVE  Spec => [](HoHInv /\ CountInv)
<1>1. Init => HoHInv /\ CountInv
  BY InitEstablishes, CountInvInit
<1>2. (HoHInv /\ CountInv) /\ [Next]_vars => (HoHInv /\ CountInv)'
  BY NextPreserves, CountInvPreserved
<1> QED BY <1>1, <1>2, PTL DEF Spec

\* When no batch names a key to delete twice, unique_keys never falls below the keys
\* that are in the inner table: the plain load and store that decrement it
\* (deletegpu_inner_hashtable_CG) lose decrements of each other, and never take one
\* too many.
THEOREM CountsCoverKeys == ASSUME DistinctDeletes PROVE Spec => []CountCoversKeys
<1>1. HoHInv /\ CountInv => CountCoversKeys
  BY InvCovers DEF CountCoversKeys
<1> QED BY <1>1, CountInvariant, PTL

\* When no batch names a key to delete twice, the outer slot of a range is only zeroed
\* when its inner table holds no key, whichever group frees it and however old the
\* count it has read.
THEOREM FreedRangesAreEmpty == ASSUME DistinctDeletes PROVE Spec => []FreedRangeHoldsNoKey
<1>1. HoHInv /\ CountInv => FreedRangeHoldsNoKey
  BY InvCovers DEF FreedRangeHoldsNoKey
<1> QED BY <1>1, CountInvariant, PTL

-----------------------------------------------------------------------------
(***************************************************************************)
(* Between kernels the two-level hash table is the map that the batches    *)
(* describe, for every capacity, group size, batch size, number of batches *)
(* and choice of home slots, as long as no batch names a key to delete     *)
(* twice and the range of keys leaves the end of the table free.           *)
(***************************************************************************)
(* The inductive invariant: the map. *)

KeysOf(t) == {k \in Keys : TableOf[k] = t}

\* A key sits where the scans of deletes and searches, whose lane r leaves the loop
\* r windows early, reach it without passing a free slot.
EarlyAt(cells, k) == ReachedBy(EarlyLanes, cells, k)

\* The labels of a group that is still to find or put its key.
ToInsert == {"range", "claimRange", "probe", "claim"}
ToDelete == {"delRange", "delScan", "tombstone"}

\* Keys sit in the table of their range, with a value the host asked for, or a
\* group that will store one.
KeysPlaced ==
  /\ phase = "insert" => deleted = {}
  /\ \A t \in Tables, s \in Slots :
       /\ phase = "insert" => keyAt[t][s] # Tombstone
       /\ keyAt[t][s] \in Keys =>
            /\ TableOf[keyAt[t][s]] = t
            /\ requested[keyAt[t][s]] # {}
            /\ \/ valAt[t][s] \in requested[keyAt[t][s]]
               \/ \E g \in Groups : pc[g] \in InsertSteps /\ op[g].key = keyAt[t][s]
  /\ \A g \in Groups :
       pc[g] \in InsertSteps => op[g].value \in requested[op[g].key]

\* A requested key is there or under way; a deleted one is gone or looked for.
KeysAccounted ==
  /\ \A k \in Keys :
       /\ requested[k] # {} /\ k \notin deleted =>
            \/ Holds(TableOf[k], k)
            \/ \E g \in Groups : pc[g] \in ToInsert /\ op[g].key = k
       /\ k \in deleted /\ Holds(TableOf[k], k) =>
            \E g \in Groups : pc[g] \in ToDelete /\ op[g].key = k
  /\ \A g \in Groups : pc[g] \in DeleteSteps => op[g].key \in deleted

\* What was put can be found, as long as nothing is put.
KeysReachable ==
  phase # "insert" =>
    \A t \in Tables, k \in Keys :
      /\ k \in Live(t) => EarlyAt(keyAt[t], k)
      /\ k \in OldLive(t) => EarlyAt(oldKeyAt[t], k)

\* A group that has found its key has its status written, or somebody who will.
Reported(g) ==
  /\ hitLane[g] # NoLane
  /\ freeCheck[g] \/ delStatus[g] \/ (hitLane[g] = 0 /\ pc[g] # "idle")

\* A group whose key was there at launch is still to find it, or has found it.
FindsReported ==
  phase = "delete" =>
    \A g \in active :
      /\ op[g].key \in Keys
      /\ op[g].key \in OldLive(GroupTable(g)) =>
           IF pc[g] \in {"delRange", "delScan"} THEN op[g].key \in Live(GroupTable(g))
                                               ELSE Reported(g)

MapInv == KeysPlaced /\ KeysAccounted /\ KeysReachable /\ FindsReported

\* The keys of each range fit its inner table, and no lane leaves the loop of a delete
\* or search in a window they can reach.
Roomy ==
  \A t \in Tables :
    /\ Cardinality(KeysOf(t)) <= Capacity
    /\ \A w \in Windows, r \in Lanes :
         (w * Stride) + r < Cardinality(KeysOf(t)) => r \in EarlyLanes[w]

-----------------------------------------------------------------------------
(* The probe sequence, slot by slot. *)

\* The windows and lanes number the offsets row by row, and every offset below the
\* capacity has a window and a lane.
LEMMA OffsetsAndWindows ==
  /\ GroupSize \in Nat \ {0} /\ Stride = GroupSize /\ Capacity \in Nat \ {0}
  /\ \A w \in Windows : InsertLanes[w] = Lanes
  /\ \A home, w, r : SlotAt(home, w, r) = (home + (w * GroupSize) + r) % Capacity
  /\ \A o \in 0 .. Capacity - 1 :
       /\ o \div GroupSize \in Windows /\ o % GroupSize \in Lanes
       /\ o = ((o \div GroupSize) * GroupSize) + (o % GroupSize)
<1>1. GroupSize \in Nat \ {0} /\ Stride = GroupSize /\ Capacity \in Nat \ {0}
  BY ProbeAssumption, HoHAssumption
<1>2. \A w \in Windows : InsertLanes[w] = Lanes
  BY <1>1 DEF InsertLanes, AllLanes
<1>3. \A home, w, r : SlotAt(home, w, r) = (home + (w * GroupSize) + r) % Capacity
  BY <1>1 DEF SlotAt
<1>4. NumWindows = (Capacity \div GroupSize) + 1
  BY <1>1 DEF NumWindows
<1>5. ASSUME NEW o \in 0 .. Capacity - 1
      PROVE  /\ o \div GroupSize \in Windows /\ o % GroupSize \in Lanes
             /\ o = ((o \div GroupSize) * GroupSize) + (o % GroupSize)
  <2>1. o \in Nat /\ o <= Capacity
    BY <1>1
  <2>2. /\ o \div GroupSize \in Nat /\ o % GroupSize \in 0 .. GroupSize - 1
        /\ o = ((o \div GroupSize) * GroupSize) + (o % GroupSize)
        /\ Capacity \div GroupSize \in Nat
    BY <1>1, <2>1, DivisionExists
  <2>3. o \div GroupSize <= Capacity \div GroupSize
    BY <1>1, <2>1, DivisionMonotone
  <2>4. o \div GroupSize \in Windows
    BY <1>4, <2>2, <2>3 DEF Windows
  <2> QED BY <2>2, <2>4 DEF Lanes
<1> QED BY <1>1, <1>2, <1>3, <1>5

\* Earlier in the order of windows and lanes is nearer to the home.
LEMMA BeforeIsNearer ==
  ASSUME NEW w \in Nat, NEW v \in Nat, NEW r \in Lanes, NEW q \in Lanes
  PROVE  Before(w, r, v, q) <=> (w * GroupSize) + r < (v * GroupSize) + q
<1>1. GroupSize \in Nat \ {0} /\ r \in 0 .. GroupSize - 1 /\ q \in 0 .. GroupSize - 1
  BY ProbeAssumption DEF Lanes
<1>2. CASE w < v
  <2>1. (w * GroupSize) + r < (v * GroupSize) + q
    BY <1>1, <1>2, QuotientOrders
  <2> QED BY <1>2, <2>1 DEF Before
<1>3. CASE v < w
  <2>1. (v * GroupSize) + q < (w * GroupSize) + r
    BY <1>1, <1>3, QuotientOrders
  <2>2. /\ (v * GroupSize) + q \in Nat
        /\ (w * GroupSize) + r \in Nat
    BY <1>1
  <2>3. ~((w * GroupSize) + r < (v * GroupSize) + q)
    BY <2>1, <2>2
  <2> QED BY <1>3, <2>3 DEF Before
<1>4. CASE w = v
  <2>1. w * GroupSize \in Nat
    BY <1>1
  <2> QED BY <1>1, <1>4, <2>1 DEF Before
<1> QED BY <1>2, <1>3, <1>4

\* Two offsets below the capacity lead to two slots.
LEMMA OffsetsDiffer ==
  ASSUME NEW home \in Slots, NEW a \in 0 .. Capacity - 1, NEW b \in 0 .. Capacity - 1,
         AtOffset(home, a) = AtOffset(home, b)
  PROVE  a = b
<1> DEFINE C == Capacity
<1>1. C \in Nat \ {0} /\ home \in 0 .. C - 1 /\ a \in 0 .. C - 1 /\ b \in 0 .. C - 1
  BY ProbeAssumption DEF Slots
<1>2. PICK u \in Nat, v \in Nat : u = home + a /\ v = home + b
  BY <1>1
<1> HIDE DEF C
<1> DEFINE m == u \div C
           n == v \div C
           x == u % C
<1>3. /\ u = m * C + x /\ m \in Nat /\ x \in 0 .. C - 1
      /\ v = n * C + (v % C) /\ n \in Nat
  BY <1>1, DivisionExists
<1>4. v % C = x
  BY <1>2 DEF AtOffset, C
<1> HIDE DEF m, n, x
<1>5. home + a = m * C + x /\ home + b = n * C + x
  BY <1>2, <1>3, <1>4
<1>6. m = n
  <2>1. ASSUME NEW p \in Nat, NEW q \in Nat, NEW c \in Nat, NEW d \in Nat,
               home + c = p * C + x, home + d = q * C + x, p < q,
               c \in 0 .. C - 1, d \in 0 .. C - 1
        PROVE  FALSE
    <3>1. PICK e \in Nat : q = p + 1 + e
      <4>1. q - p - 1 \in Nat /\ q = p + 1 + (q - p - 1)
        BY <2>1
      <4> QED BY <4>1
    <3>2. q * C = p * C + C + e * C
      BY <1>1, <3>1
    <3>3. e * C >= 0 /\ p * C \in Nat /\ e * C \in Nat
      BY <1>1
    <3>4. d = c + C + e * C
      BY <1>1, <1>3, <2>1, <3>2, <3>3
    <3> QED BY <1>1, <2>1, <3>3, <3>4
  <2>2. ~(m < n) /\ ~(n < m)
    BY <1>1, <1>3, <1>5, <2>1
  <2> QED BY <1>3, <2>2
<1> QED BY <1>1, <1>3, <1>5, <1>6

-----------------------------------------------------------------------------
(* The keys of a range. *)

\* A range has finitely many keys.
LEMMA RangeIsFinite ==
  ASSUME NEW t \in Tables
  PROVE  IsFiniteSet(KeysOf(t)) /\ Cardinality(KeysOf(t)) \in Nat
<1>1. RangeSize \in Nat \ {0} /\ t \in Nat
  BY HoHAssumption
<1>2. KeysOf(t) \subseteq 0 .. t * RangeSize
  <2> SUFFICES ASSUME NEW k \in KeysOf(t)
               PROVE  k \in 0 .. t * RangeSize
    OBVIOUS
  <2>1. k \in Nat /\ (k \div RangeSize) + 1 = t
    BY InsertAssumption, HoHAssumption DEF KeysOf
  <2>2. PICK n \in Nat \ {0} : n = RangeSize
    BY <1>1
  <2>3. PICK q \in Nat : q = k \div n
    BY <2>1, <2>2, DivisionExists
  <2>4. PICK r \in 0 .. n - 1 : k = q * n + r
    BY <2>1, <2>2, <2>3, DivisionExists
  <2>5. t = q + 1
    BY <2>1, <2>2, <2>3
  <2>6. t * n = q * n + n
    BY <2>5
  <2>7. q * n \in Nat
    BY <2>2
  <2>8. k <= t * n
    BY <2>4, <2>6, <2>7
  <2> QED BY <2>1, <2>2, <2>8
<1>3. IsFiniteSet(0 .. t * RangeSize)
  BY <1>1, FS_Interval
<1> QED BY <1>2, <1>3, FS_Subset, FS_CardinalityType

\* A sufficient condition in numbers: (GroupSize - 1)^2 - 1 slots more than keys, and
\* no fewer slots than keys.
THEOREM RoomInNumbers ==
  ASSUME \A t \in Tables :
           /\ Cardinality(KeysOf(t)) <= Capacity
           /\ Cardinality(KeysOf(t)) + ((GroupSize - 1) * (GroupSize - 1)) <= Capacity + 1
  PROVE  Roomy
<1> SUFFICES ASSUME NEW t \in Tables
             PROVE  /\ Cardinality(KeysOf(t)) <= Capacity
                    /\ \A w \in Windows, r \in Lanes :
                         (w * Stride) + r < Cardinality(KeysOf(t)) => r \in EarlyLanes[w]
  BY DEF Roomy
<1>1. PICK G \in Nat \ {0}, C \in Nat \ {0}, n \in Nat, d \in Nat :
        /\ G = GroupSize /\ C = Capacity /\ n = Cardinality(KeysOf(t))
        /\ d = G - 1
  <2>1. /\ GroupSize \in Nat \ {0} /\ GroupSize - 1 \in Nat
        /\ Capacity \in Nat \ {0} /\ Cardinality(KeysOf(t)) \in Nat
    BY OffsetsAndWindows, RangeIsFinite
  <2> QED BY <2>1
<1>2. n + d * d <= C + 1 /\ G = d + 1 /\ d * d \in Nat
  BY <1>1
<1>3. ASSUME NEW w \in Windows, NEW r \in Lanes, (w * G) + r < n
      PROVE  r \in EarlyLanes[w]
  <2>1. w \in Nat /\ r \in 0 .. d
    BY <1>1, WindowsAreNumbers DEF Lanes
  <2>2. PICK q \in Nat, x \in 0 .. G - 1 : q = C \div G /\ C = (q * G) + x
    <3>1. /\ C \div G \in Nat /\ C % G \in 0 .. G - 1
          /\ C = ((C \div G) * G) + (C % G)
      BY <1>1, DivisionExists
    <3> QED BY <3>1
  <2>3. r * G = r * d + r /\ r * d <= d * d /\ r * d \in Nat
    <3>1. PICK e \in Nat : d = r + e
      <4>1. d - r \in Nat /\ d = r + (d - r)
        BY <2>1
      <4> QED BY <4>1
    <3>2. d * d = r * d + e * d /\ e * d \in Nat /\ r * d \in Nat
      BY <2>1, <3>1
    <3> QED BY <1>2, <2>1, <3>2
  <2>4. (w + r) * G = w * G + r * G /\ w * G \in Nat /\ (w + r) * G \in Nat
    BY <1>1, <2>1
  <2>5. (w + r) * G <= C
    BY <1>2, <1>3, <2>1, <2>3, <2>4
  <2>6. w + r <= q
    <3>1. CASE q < w + r
      <4>1. q * G + x < (w + r) * G + 0
        BY <1>1, <2>1, <2>2, <3>1, QuotientOrders
      <4>2. q * G + x \in Nat
        BY <2>2
      <4> QED BY <2>2, <2>4, <2>5, <4>1, <4>2
    <3> QED BY <2>1, <2>2, <3>1
  <2>7. NumWindows = q + 1
    BY <1>1, <2>2, OffsetsAndWindows DEF NumWindows
  <2> QED BY <2>1, <2>2, <2>6, <2>7 DEF EarlyLanes
<1> QED BY <1>1, <1>3, OffsetsAndWindows

\* Places that all hold other keys of the range of k, each a key of its own, are fewer
\* than the keys of the range.
LEMMA OtherKeysAreFewer ==
  ASSUME NEW t \in Tables, NEW k \in KeysOf(t), NEW D, NEW f \in [D -> KeysOf(t) \ {k}],
         \A a, b \in D : f[a] = f[b] => a = b
  PROVE  IsFiniteSet(D) /\ Cardinality(D) < Cardinality(KeysOf(t))
<1> DEFINE Others == KeysOf(t) \ {k}
<1>1. f \in Injection(D, Others)
  BY DEF Injection, IsInjective
<1>2. /\ IsFiniteSet(Others) /\ Cardinality(Others) = Cardinality(KeysOf(t)) - 1
      /\ Cardinality(KeysOf(t)) \in Nat
  BY RangeIsFinite, FS_RemoveElement
<1> HIDE DEF Others
<1>3. IsFiniteSet(D) /\ Cardinality(D) <= Cardinality(Others)
  BY <1>1, <1>2, FS_Injection
<1> QED BY <1>2, <1>3, FS_CardinalityType

\* Deletes and searches find what sits where they reach it.
LEMMA EarlyFinds ==
  ASSUME NEW cells, NEW k, EarlyAt(cells, k), k # Sentinel
  PROVE  Hits(cells, Home[k], k, Sentinel, EarlyLanes) # {}
BY ScanFinds DEF EarlyAt, EarlyLanes

\* While keys are inserted, what is not free is a key of the range.
LEMMA TakenByKeys ==
  ASSUME HoHInv, KeysPlaced, phase = "insert", NEW t \in Tables, NEW s \in Slots,
         keyAt[t][s] # Sentinel
  PROVE  keyAt[t][s] \in KeysOf(t)
<1>1. keyAt[t][s] \in Keys
  BY DEF HoHInv, InsertInv, DriverTypeOK, KeyWords, KeysPlaced
<1> QED BY <1>1 DEF KeysPlaced, KeysOf

\* After the inserts, every key sits where the scans of the deletes and searches reach
\* it: the slots before it hold other keys of its range, so it is at an offset below
\* the number of keys of the range.
LEMMA InsertedKeysAreNear ==
  ASSUME Roomy, HoHInv, KeysPlaced, phase = "insert", NEW t \in Tables, NEW k \in Live(t)
  PROVE  EarlyAt(keyAt[t], k)
<1>1. PICK s \in Slots : keyAt[t][s] = k /\ k \in Keys
  BY DEF Live, Holds
<1>2. PICK home \in Slots : home = Home[k]
  BY <1>1, InsertAssumption
<1>3. PICK w \in Windows, r \in Lanes :
        /\ s = SlotAt(home, w, r)
        /\ \A v \in Windows : \A q \in Lanes :
             Before(v, q, w, r) => keyAt[t][SlotAt(home, v, q)] # Sentinel
  <2>1. PICK w \in Windows : \E r \in InsertLanes[w] :
          /\ s = SlotAt(home, w, r)
          /\ \A v \in Windows : \A q \in InsertLanes[v] :
               Before(v, q, w, r) => keyAt[t][SlotAt(home, v, q)] # Sentinel
    BY <1>1, <1>2 DEF HoHInv, InsertInv, NoHole
  <2> QED BY <2>1, OffsetsAndWindows
<1>4. PICK o \in 0 .. Capacity - 1 : AtOffset(home, o) = s
  BY SlotHasOffset
<1>5. PICK w0 \in Windows, r0 \in Lanes : o = (w0 * GroupSize) + r0
  BY OffsetsAndWindows
<1>6. /\ \A v \in Windows : \A q \in Lanes :
           SlotAt(home, v, q) = AtOffset(home, (v * GroupSize) + q)
      /\ \A v \in Windows : v \in Nat
  <2>1. \A v \in Windows : \A q \in Lanes :
          SlotAt(home, v, q) = (home + (v * GroupSize) + q) % Capacity
    BY OffsetsAndWindows
  <2>2. \A v \in Windows : v \in Nat
    BY WindowsAreNumbers
  <2>3. ASSUME NEW v \in Windows, NEW q \in Lanes
        PROVE  home + (v * GroupSize) + q = home + ((v * GroupSize) + q)
    <3>1. v * GroupSize \in Nat /\ q \in Nat /\ home \in Nat
      BY <2>2, OffsetsAndWindows, WindowsAreNumbers
    <3> QED BY <3>1
  <2> QED BY <2>1, <2>2, <2>3 DEF AtOffset
<1>7. SlotAt(home, w0, r0) = s
  BY <1>4, <1>5, <1>6
\* The first way to the slot is the shortest.
<1>8. \A a \in 0 .. o - 1 : keyAt[t][AtOffset(home, a)] # Sentinel
  <2> SUFFICES ASSUME NEW a \in 0 .. o - 1
               PROVE  keyAt[t][AtOffset(home, a)] # Sentinel
    OBVIOUS
  <2>1. a \in 0 .. Capacity - 1 /\ a < o
    BY OffsetsAndWindows
  <2>2. PICK v \in Windows, q \in Lanes : a = (v * GroupSize) + q
    BY <2>1, OffsetsAndWindows
  <2>3. PICK m \in Nat : m = (w * GroupSize) + r
    <3>1. w \in Nat /\ r \in Nat /\ GroupSize \in Nat
      BY <1>6, OffsetsAndWindows, WindowsAreNumbers
    <3> QED BY <3>1
  <2>4. a < m
    <3>1. CASE m < o
      <4>1. m \in 0 .. Capacity - 1 /\ AtOffset(home, m) = s
        BY <1>3, <1>6, <2>3, <3>1, OffsetsAndWindows
      <4>2. m = o
        BY <1>4, <4>1, OffsetsDiffer
      <4> QED BY <3>1, <4>2
    <3>2. CASE ~(m < o)
      BY <2>1, <2>3, <3>2
    <3> QED BY <3>1, <3>2
  <2>5. Before(v, q, w, r)
    BY <1>6, <2>2, <2>3, <2>4, BeforeIsNearer
  <2> QED BY <1>3, <1>6, <2>2, <2>5
<1>9. \A a \in 0 .. o - 1 : /\ AtOffset(home, a) \in Slots
                            /\ keyAt[t][AtOffset(home, a)] \in KeysOf(t) \ {k}
  <2> SUFFICES ASSUME NEW a \in 0 .. o - 1
               PROVE  /\ AtOffset(home, a) \in Slots
                      /\ keyAt[t][AtOffset(home, a)] \in KeysOf(t) \ {k}
    OBVIOUS
  <2>1. a \in 0 .. Capacity - 1 /\ a < o /\ home \in Nat /\ Capacity \in Nat \ {0}
    BY OffsetsAndWindows, WindowsAreNumbers
  <2>2. AtOffset(home, a) \in Slots
    BY <2>1 DEF AtOffset, Slots
  <2>3. keyAt[t][AtOffset(home, a)] \in KeysOf(t)
    BY <1>8, <2>2, TakenByKeys
  <2>4. AtOffset(home, a) # s
    BY <1>4, <2>1, OffsetsDiffer
  <2>5. keyAt[t][AtOffset(home, a)] # k
    BY <1>1, <2>2, <2>4 DEF HoHInv, InsertInv, OneSlotPerKey
  <2> QED BY <2>2, <2>3, <2>5
<1>10. o < Cardinality(KeysOf(t))
  <2> DEFINE f == [a \in 0 .. o - 1 |-> keyAt[t][AtOffset(home, a)]]
  <2>1. f \in [0 .. o - 1 -> KeysOf(t) \ {k}]
    BY <1>9
  <2>2. \A a, b \in 0 .. o - 1 : f[a] = f[b] => a = b
    <3> SUFFICES ASSUME NEW a \in 0 .. o - 1, NEW b \in 0 .. o - 1,
                        keyAt[t][AtOffset(home, a)] = keyAt[t][AtOffset(home, b)]
                 PROVE  a = b
      OBVIOUS
    <3>1. keyAt[t][AtOffset(home, a)] \in Keys
      BY <1>9 DEF KeysOf
    <3>2. AtOffset(home, a) = AtOffset(home, b)
      BY <1>9, <3>1 DEF HoHInv, InsertInv, OneSlotPerKey
    <3>3. a \in 0 .. Capacity - 1 /\ b \in 0 .. Capacity - 1
      BY OffsetsAndWindows
    <3> QED BY <3>2, <3>3, OffsetsDiffer
  <2>3. k \in KeysOf(t)
    BY <1>1, WordsDiffer, TakenByKeys
  <2> HIDE DEF f
  <2>4. Cardinality(0 .. o - 1) < Cardinality(KeysOf(t))
    BY <2>1, <2>2, <2>3, OtherKeysAreFewer
  <2>5. Cardinality(0 .. o - 1) = o
    BY NumbersBelow, OffsetsAndWindows
  <2> QED BY <2>4, <2>5
<1>11. r0 \in EarlyLanes[w0]
  BY <1>5, <1>10, OffsetsAndWindows DEF Roomy
<1>12. ASSUME NEW v \in Windows, NEW q \in Lanes, Before(v, q, w0, r0)
       PROVE  keyAt[t][SlotAt(home, v, q)] # Sentinel
  <2>1. (v * GroupSize) + q < o
    BY <1>5, <1>6, <1>12, BeforeIsNearer
  <2>2. (v * GroupSize) + q \in Nat
    <3>1. v \in Nat /\ q \in Nat /\ GroupSize \in Nat
      BY <1>6, OffsetsAndWindows, WindowsAreNumbers
    <3> QED BY <3>1
  <2>3. (v * GroupSize) + q \in 0 .. o - 1
    BY <2>1, <2>2
  <2> QED BY <1>6, <1>8, <2>3
<1> QED BY <1>1, <1>2, <1>7, <1>11, <1>12 DEF EarlyAt, ReachedBy, EarlyLanes

\* What is in a table can be found, in every phase.
LEMMA LiveIsReachable ==
  ASSUME Roomy, HoHInv, KeysPlaced, KeysReachable, NEW t \in Tables, NEW k \in Live(t)
  PROVE  Hits(keyAt[t], Home[k], k, Sentinel, EarlyLanes) # {}
<1>1. k \in Keys /\ k # Sentinel
  BY WordsDiffer DEF Live
<1>2. EarlyAt(keyAt[t], k)
  BY <1>1, InsertedKeysAreNear DEF KeysReachable
<1> QED BY <1>1, <1>2, EarlyFinds

-----------------------------------------------------------------------------
(* Inserts find a place. *)

\* A table has room for the keys of its range, so a group that has given up on every
\* slot of a window has a next one.
LEMMA NeverFull ==
  ASSUME Roomy, HoHInv, KeysPlaced, NEW g \in Groups, pc[g] \in {"probe", "claim"},
         \A r \in InsertLanes[win[g]] : TakenByOther(g, LaneSlot(g, r))
  PROVE  win[g] + 1 \in Windows
<1>1. SUFFICES ASSUME win[g] + 1 \notin Windows
               PROVE  FALSE
  OBVIOUS
<1>2. PICK k \in Keys : k = op[g].key
  BY GroupOperands DEF HoHInv, InsertInv
<1>3. PICK T \in Tables : T = GroupTable(g) /\ k \in KeysOf(T)
  BY <1>2, GroupOperands DEF HoHInv, InsertInv, GroupTable, KeysOf
<1>4. phase = "insert" /\ Home[k] \in Slots /\ win[g] \in Windows
  BY InsertAssumption DEF HoHInv, InsertInv, PhaseOK, InsertSteps, OpOK
<1>5. \A w \in Windows : w < win[g] + 1
  BY <1>1, <1>4, WindowsAreNumbers DEF Windows
<1>6. \A w \in Windows : \A r \in Lanes : TakenByOther(g, SlotAt(Home[k], w, r))
  <2>1. \A w \in Windows : \A r \in InsertLanes[w] :
           w < win[g] + 1 => TakenByOther(g, SlotAt(Home[op[g].key], w, r))
    BY NextWindowPassed DEF HoHInv
  <2> QED BY <1>2, <1>5, <2>1, OffsetsAndWindows
<1>7. \A s \in Slots : keyAt[T][s] \in KeysOf(T) \ {k}
  <2> SUFFICES ASSUME NEW s \in Slots
               PROVE  keyAt[T][s] \in KeysOf(T) \ {k}
    OBVIOUS
  <2>1. PICK o \in 0 .. Capacity - 1 : AtOffset(Home[k], o) = s
    BY <1>4, SlotHasOffset
  <2>2. PICK w \in Windows, r \in Lanes : o = (w * GroupSize) + r
    BY OffsetsAndWindows
  <2>3. SlotAt(Home[k], w, r) = s
    <3>1. PICK h \in Nat : h = Home[k]
      BY <1>4, WindowsAreNumbers
    <3>2. w \in Nat /\ r \in Nat /\ GroupSize \in Nat
      BY OffsetsAndWindows, WindowsAreNumbers
    <3>3. PICK m \in Nat : m = w * GroupSize
      BY <3>2
    <3>4. h + m + r = h + (m + r)
      BY <3>2
    <3>5. SlotAt(h, w, r) = (h + m + r) % Capacity
      BY <3>3, OffsetsAndWindows
    <3> QED BY <2>1, <2>2, <3>1, <3>3, <3>4, <3>5 DEF AtOffset
  <2>4. keyAt[T][s] \notin {Sentinel, k}
    BY <1>2, <1>3, <1>6, <2>3 DEF TakenByOther
  <2> QED BY <1>4, <2>4, TakenByKeys
<1> DEFINE f == [s \in Slots |-> keyAt[T][s]]
<1>8. f \in [Slots -> KeysOf(T) \ {k}]
  BY <1>7
<1>9. \A a, b \in Slots : f[a] = f[b] => a = b
  BY <1>7 DEF KeysOf, HoHInv, InsertInv, OneSlotPerKey
<1> HIDE DEF f
<1>10. Cardinality(Slots) < Cardinality(KeysOf(T))
  BY <1>3, <1>8, <1>9, OtherKeysAreFewer
<1>11. Cardinality(KeysOf(T)) <= Capacity /\ Cardinality(KeysOf(T)) \in Nat
  BY RangeIsFinite DEF Roomy
<1> QED BY <1>10, <1>11, TableIsFinite, ProbeAssumption

\* No insert gives up: a group that probes goes on probing until it has its slot.
LEMMA InsertsGoOn ==
  ASSUME Roomy, HoHInv, KeysPlaced, NEW g \in Groups, InsertBallot(g) \/ InsertClaim(g)
  PROVE  pc'[g] \in {"probe", "claim", "count", "store"}
<1> DEFINE t == GroupTable(g)
           k == op[g].key
           lanes == InsertLanes[win[g]]
<1>0. pc \in [Groups -> Steps]
  BY DEF HoHInv, InsertInv, DriverTypeOK
<1>1. ASSUME pc[g] \in {"probe", "claim"}, NextWindow(g, "idle"),
             \A r \in lanes : TakenByOther(g, LaneSlot(g, r))
      PROVE  pc'[g] = "probe"
  BY <1>0, <1>1, NeverFull DEF NextWindow, GoTo
<1>2. CASE InsertBallot(g)
  <2>1. pc[g] = "probe"
    BY <1>2 DEF InsertBallot, Ballot
  <2>2. PICK seen \in [lanes -> KeyWords] :
          /\ \A r \in lanes :
               seen[r] \in {keyAt[t][LaneSlot(g, r)], oldKeyAt[t][LaneSlot(g, r)]}
          /\ \/ GoTo(g, "store")
             \/ GoTo(g, "claim")
             \/ /\ \A r \in lanes : seen[r] \notin {Sentinel, k}
                /\ NextWindow(g, "idle")
    BY <1>2 DEF InsertBallot, Ballot
  <2>3. \A r \in lanes : seen[r] \notin {Sentinel, k} => TakenByOther(g, LaneSlot(g, r))
    BY <2>1, <2>2, BallotSees DEF HoHInv
  <2> QED BY <1>0, <1>1, <2>1, <2>2, <2>3 DEF GoTo
<1>3. CASE InsertClaim(g)
  <2>1. pc[g] = "claim"
    BY <1>3 DEF InsertClaim, Claim
  <2>2. PICK r \in emptyMask[g] :
          \/ GoTo(g, "count")
          \/ GoTo(g, "store")
          \/ /\ keyAt[t][LaneSlot(g, r)] \notin {Sentinel, k}
             /\ IF emptyMask[g] = {r} THEN NextWindow(g, "idle") ELSE UNCHANGED <<win, pc>>
    BY <1>3 DEF InsertClaim, Claim, Duplicate
  <2>3. \A q \in lanes \ emptyMask[g] : TakenByOther(g, LaneSlot(g, q))
    BY <2>1 DEF HoHInv, InsertInv, PassedTaken
  <2>4. CASE emptyMask[g] = {r} /\ keyAt[t][LaneSlot(g, r)] \notin {Sentinel, k}
    <3>1. \A q \in lanes : TakenByOther(g, LaneSlot(g, q))
      BY <2>3, <2>4 DEF TakenByOther
    <3> QED BY <1>0, <1>1, <2>1, <2>2, <2>4, <3>1 DEF GoTo
  <2>5. CASE ~(emptyMask[g] = {r} /\ keyAt[t][LaneSlot(g, r)] \notin {Sentinel, k})
    BY <1>0, <2>1, <2>2, <2>5 DEF GoTo
  <2> QED BY <2>4, <2>5
<1> QED BY <1>2, <1>3

\* The steps of an insert kernel, as far as the map is concerned.
LEMMA InsertMoves ==
  ASSUME Roomy, HoHInv, KeysPlaced, NEW g \in Groups,
         \/ ReadRange(g) \/ ClaimRange(g) \/ InsertBallot(g) \/ InsertClaim(g)
         \/ AddUnique(g) \/ InsertStore(g)
  PROVE  /\ phase = "insert" /\ UNCHANGED <<op, hostVars, resultVars>>
         /\ pc[g] \in InsertSteps /\ op[g].key \in Keys /\ GroupTable(g) \in Tables
         /\ \A h \in Groups : h # g => pc'[h] = pc[h]
         /\ IF InsertStore(g) THEN pc'[g] = "idle" /\ pc[g] = "store"
                              ELSE pc'[g] \in InsertSteps /\ valAt' = valAt
         /\ \A t \in Tables, s \in Slots :
              keyAt'[t][s] # keyAt[t][s] =>
                /\ keyAt[t][s] = Sentinel /\ keyAt'[t][s] = op[g].key
                /\ t = GroupTable(g) /\ ~InsertStore(g)
<1>0. /\ pc \in [Groups -> Steps] /\ keyAt \in [Tables -> [Slots -> KeyWords]]
      /\ \A h \in Groups : pc[h] \in InsertSteps => phase = "insert"
  BY DEF HoHInv, InsertInv, DriverTypeOK, PhaseOK
<1>1. /\ pc[g] \in InsertSteps /\ UNCHANGED <<op, hostVars, resultVars>>
      /\ \E to : pc' = [pc EXCEPT ![g] = to]
  BY <1>0 DEF ReadRange, ClaimRange, InsertBallot, Ballot, InsertClaim, Claim, AddUnique,
              InsertStore, StoreValue, insertOnly, InsertSteps, NextWindow, GoTo
<1>2. /\ phase = "insert" /\ op[g].key \in Keys /\ GroupTable(g) \in Tables
      /\ \A h \in Groups : h # g => pc'[h] = pc[h]
  <2>1. pc[g] # "idle" /\ phase = "insert"
    BY <1>0, <1>1 DEF InsertSteps
  <2> QED BY <1>0, <1>1, <2>1, GroupOperands DEF HoHInv, InsertInv
<1>3. ASSUME InsertStore(g)
      PROVE  pc'[g] = "idle" /\ pc[g] = "store" /\ keyAt' = keyAt
  BY <1>0, <1>3 DEF InsertStore, StoreValue, GoTo
<1>4. ASSUME InsertClaim(g)
      PROVE  /\ pc'[g] \in InsertSteps /\ valAt' = valAt
             /\ \/ keyAt' = keyAt
                \/ \E s : /\ keyAt[GroupTable(g)][s] = Sentinel
                          /\ keyAt' = [keyAt EXCEPT ![GroupTable(g)][s] = op[g].key]
             /\ ~InsertStore(g)
  <2>1. pc'[g] \in InsertSteps
    BY <1>4, InsertsGoOn DEF InsertSteps
  <2>2. ~InsertStore(g)
    BY <1>4 DEF InsertClaim, Claim, InsertStore, StoreValue
  <2> QED BY <1>4, <2>1, <2>2 DEF InsertClaim, Claim
<1>5. ASSUME ReadRange(g) \/ ClaimRange(g) \/ InsertBallot(g) \/ AddUnique(g)
      PROVE  pc'[g] \in InsertSteps /\ valAt' = valAt /\ keyAt' = keyAt /\ ~InsertStore(g)
  <2>1. CASE InsertBallot(g)
    <3>1. pc'[g] \in InsertSteps
      BY <2>1, InsertsGoOn DEF InsertSteps
    <3> QED BY <2>1, <3>1 DEF InsertBallot, Ballot, InsertStore, StoreValue
  <2>2. CASE ReadRange(g)
    <3>1. pc'[g] \in {"probe", "claimRange"}
      BY <1>0, <2>2 DEF ReadRange, GoTo
    <3> QED BY <2>2, <3>1 DEF ReadRange, InsertStore, StoreValue, InsertSteps
  <2>3. CASE ClaimRange(g) \/ AddUnique(g)
    BY <1>0, <2>3 DEF ClaimRange, AddUnique, InsertStore, StoreValue, GoTo, InsertSteps
  <2> QED BY <1>5, <2>1, <2>2, <2>3
<1>6. \A t \in Tables, s \in Slots :
        keyAt'[t][s] # keyAt[t][s] =>
          /\ keyAt[t][s] = Sentinel /\ keyAt'[t][s] = op[g].key
          /\ t = GroupTable(g) /\ ~InsertStore(g)
  <2>1. CASE keyAt' = keyAt
    BY <2>1
  <2>2. ASSUME InsertClaim(g), NEW x, keyAt[GroupTable(g)][x] = Sentinel,
               keyAt' = [keyAt EXCEPT ![GroupTable(g)][x] = op[g].key]
        PROVE  \A t \in Tables, s \in Slots :
                 keyAt'[t][s] # keyAt[t][s] =>
                   /\ keyAt[t][s] = Sentinel /\ keyAt'[t][s] = op[g].key
                   /\ t = GroupTable(g)
    <3>1. PICK T, k : T = GroupTable(g) /\ k = op[g].key
      OBVIOUS
    <3> QED BY <1>0, <1>2, <2>2, <3>1
  <2> QED BY <1>3, <1>4, <1>5, <2>1, <2>2
<1> QED BY <1>1, <1>2, <1>3, <1>4, <1>5, <1>6

\* What an insert step leaves of the keys, and what it adds.
LEMMA InsertsKeepKeys ==
  ASSUME Roomy, HoHInv, KeysPlaced, NEW g \in Groups,
         \/ ReadRange(g) \/ ClaimRange(g) \/ InsertBallot(g) \/ InsertClaim(g)
         \/ AddUnique(g) \/ InsertStore(g)
  PROVE  \A t \in Tables, k \in Keys : Holds(t, k) => Holds(t, k)'
<1>1. ASSUME NEW t \in Tables, NEW k \in Keys, NEW s \in Slots, keyAt[t][s] = k
      PROVE  keyAt'[t][s] = k
  BY <1>1, InsertMoves, WordsDiffer
<1> QED BY <1>1 DEF Holds

-----------------------------------------------------------------------------
(* Keys sit in their tables with the values the host asked for. *)

\* A slot has a value the host asked for, or a group is on its way to store one.
ValueOK(t, s) ==
  \/ valAt[t][s] \in requested[keyAt[t][s]]
  \/ \E g \in Groups : pc[g] \in InsertSteps /\ op[g].key = keyAt[t][s]

LEMMA InsertKeepsPlaced ==
  ASSUME Roomy, HoHInv, KeysPlaced, NEW g \in Groups,
         \/ ReadRange(g) \/ ClaimRange(g) \/ InsertBallot(g) \/ InsertClaim(g)
         \/ AddUnique(g) \/ InsertStore(g)
  PROVE  KeysPlaced'
<1>0. PICK T : T = GroupTable(g)
  OBVIOUS
<1>1. PICK k : k = op[g].key
  OBVIOUS
<1>2. /\ phase = "insert" /\ UNCHANGED <<op, phase, requested, deleted>>
      /\ pc[g] \in InsertSteps /\ k \in Keys /\ T \in Tables /\ TableOf[k] = T
      /\ \A h \in Groups : h # g => pc'[h] = pc[h]
  BY <1>0, <1>1, InsertMoves DEF hostVars, GroupTable
<1>3. IF InsertStore(g) THEN pc'[g] = "idle" /\ pc[g] = "store"
                        ELSE pc'[g] \in InsertSteps /\ valAt' = valAt
  BY InsertMoves
<1>4. \A t \in Tables, s \in Slots :
        keyAt'[t][s] # keyAt[t][s] => keyAt'[t][s] = k /\ t = T /\ ~InsertStore(g)
  BY <1>0, <1>1, InsertMoves
<1>5. \A h \in Groups : pc[h] \in InsertSteps => op[h].value \in requested[op[h].key]
  BY DEF KeysPlaced
<1>6. \A h \in Groups : pc'[h] \in InsertSteps => op[h].value \in requested[op[h].key]
  BY <1>2, <1>5
<1>7. ASSUME NEW t \in Tables, NEW s \in Slots
      PROVE  /\ keyAt'[t][s] # Tombstone
             /\ keyAt'[t][s] \in Keys =>
                  /\ TableOf[keyAt'[t][s]] = t
                  /\ requested[keyAt'[t][s]] # {}
  <2>1. CASE keyAt'[t][s] = keyAt[t][s]
    BY <1>2, <2>1 DEF KeysPlaced
  <2>2. CASE keyAt'[t][s] # keyAt[t][s]
    <3>1. keyAt'[t][s] = k /\ t = T
      BY <1>4, <2>2
    <3>2. requested[k] # {}
      BY <1>1, <1>2, <1>5
    <3> QED BY <1>2, <3>1, <3>2, WordsDiffer
  <2> QED BY <2>1, <2>2
<1>8. ASSUME NEW t \in Tables, NEW s \in Slots, keyAt'[t][s] \in Keys
      PROVE  \/ valAt'[t][s] \in requested[keyAt'[t][s]]
             \/ \E h \in Groups : pc'[h] \in InsertSteps /\ op[h].key = keyAt'[t][s]
  <2>1. CASE keyAt'[t][s] # keyAt[t][s]
    <3>1. pc'[g] \in InsertSteps /\ op[g].key = keyAt'[t][s]
      BY <1>1, <1>3, <1>4, <2>1
    <3> QED BY <3>1
  <2>2. CASE keyAt'[t][s] = keyAt[t][s] /\ ~InsertStore(g)
    <3>1. ValueOK(t, s)
      BY <1>8, <2>2 DEF KeysPlaced, ValueOK
    <3>2. valAt' = valAt /\ \A h \in Groups : pc[h] \in InsertSteps => pc'[h] \in InsertSteps
      BY <1>2, <1>3, <2>2
    <3> QED BY <2>2, <3>1, <3>2 DEF ValueOK
  <2>3. CASE keyAt'[t][s] = keyAt[t][s] /\ InsertStore(g)
    <3>1. PICK a : a = addr[g]
      OBVIOUS
    <3>2. PICK v : v = op[g].value
      OBVIOUS
    <3>3. valAt' = [valAt EXCEPT ![T][a] = v] /\ a \in Slots /\ keyAt[T][a] = k
      BY <1>0, <1>1, <1>3, <2>3, <3>1, <3>2
         DEF InsertStore, StoreValue, HoHInv, InsertInv, DriverTypeOK, AddressOK
    <3>4. valAt'[T][a] = v /\ (~(t = T /\ s = a) => valAt'[t][s] = valAt[t][s])
      BY <1>2, <3>3 DEF HoHInv, InsertInv, DriverTypeOK
    <3>5. CASE keyAt[t][s] = k
      <4>1. t = T
        BY <1>2, <1>8, <2>3, <3>5 DEF KeysPlaced
      <4>2. s = a
        BY <1>2, <3>3, <3>5, <4>1 DEF HoHInv, InsertInv, OneSlotPerKey
      <4>3. v \in requested[k]
        BY <1>1, <1>2, <1>5, <3>2
      <4> QED BY <2>3, <3>4, <3>5, <4>1, <4>2, <4>3
    <3>6. CASE keyAt[t][s] # k
      <4>1. ValueOK(t, s)
        BY <1>8, <2>3 DEF KeysPlaced, ValueOK
      <4>2. valAt'[t][s] = valAt[t][s]
        BY <3>3, <3>4, <3>6
      <4>3. ASSUME NEW h \in Groups, pc[h] \in InsertSteps, op[h].key = keyAt[t][s]
            PROVE  pc'[h] \in InsertSteps
        BY <1>1, <1>2, <3>6, <4>3
      <4> QED BY <2>3, <4>1, <4>2, <4>3 DEF ValueOK
    <3> QED BY <3>5, <3>6
  <2> QED BY <2>1, <2>2, <2>3
<1>9. phase' = "insert" => deleted' = {}
  BY <1>2 DEF KeysPlaced
<1> QED BY <1>2, <1>6, <1>7, <1>8, <1>9 DEF KeysPlaced

LEMMA LaunchKeepsPlaced ==
  ASSUME HoHInv, KeysPlaced, LaunchInsert \/ LaunchDelete \/ LaunchSearch
  PROVE  KeysPlaced'
<1>1. Quiet /\ UNCHANGED <<keyAt, valAt>>
  BY DEF LaunchInsert, LaunchDelete, LaunchSearch, FreshKernel, InsertBatch, DeleteBatch,
         SearchBatch, StartKernel
<1>2. \A g \in Groups : pc[g] \notin InsertSteps
  BY <1>1 DEF Quiet, InsertSteps
<1>3. \A t \in Tables, s \in Slots :
        /\ phase = "insert" => keyAt[t][s] # Tombstone
        /\ keyAt[t][s] \in Keys => /\ TableOf[keyAt[t][s]] = t
                                   /\ requested[keyAt[t][s]] # {}
                                   /\ valAt[t][s] \in requested[keyAt[t][s]]
  BY <1>2 DEF KeysPlaced
<1>4. CASE LaunchDelete \/ LaunchSearch
  <2>1. /\ phase' # "insert" /\ requested' = requested
        /\ \A g \in Groups : pc'[g] \in {"delRange", "search", "idle"}
    BY <1>4 DEF LaunchDelete, LaunchSearch, DeleteBatch, SearchBatch, EnterPhase, StartKernel
  <2>2. \A g \in Groups : pc'[g] \notin InsertSteps
    BY <2>1 DEF InsertSteps
  <2> QED BY <1>1, <1>3, <2>1, <2>2 DEF KeysPlaced
<1>5. CASE LaunchInsert
  <2>1. phase = "insert" /\ phase' = "insert" /\ deleted' = deleted
    BY <1>5 DEF LaunchInsert, InsertBatch, EnterPhase
  <2>2. PICK n \in Groups : \E ops \in [1 .. n -> [key : Keys, value : Values]] :
          /\ StartKernel(ops, "range")
          /\ requested' = [k \in Keys |->
                             LET named == {g \in 1 .. n : ops[g].key = k}
                             IN  IF named = {} THEN requested[k]
                                               ELSE {ops[g].value : g \in named}]
    BY <1>5 DEF LaunchInsert, InsertBatch
  <2>3. PICK ops \in [1 .. n -> [key : Keys, value : Values]] :
          /\ StartKernel(ops, "range")
          /\ requested' = [k \in Keys |->
                             LET named == {g \in 1 .. n : ops[g].key = k}
                             IN  IF named = {} THEN requested[k]
                                               ELSE {ops[g].value : g \in named}]
    BY <2>2
  <2>4. 1 .. n \subseteq Groups
    BY InsertAssumption DEF Groups
  <2>5. /\ \A g \in 1 .. n : op'[g] = ops[g] /\ pc'[g] = "range"
        /\ \A g \in Groups \ (1 .. n) : pc'[g] = "idle"
    BY <2>3, <2>4 DEF StartKernel
  <2>6. \A k \in Keys : /\ (\E g \in 1 .. n : ops[g].key = k) => requested'[k] # {}
                        /\ ~(\E g \in 1 .. n : ops[g].key = k) =>
                             requested'[k] = requested[k]
                        /\ \A g \in 1 .. n : ops[g].key = k => ops[g].value \in requested'[k]
    <3> SUFFICES ASSUME NEW k \in Keys
                 PROVE  /\ (\E g \in 1 .. n : ops[g].key = k) => requested'[k] # {}
                        /\ ~(\E g \in 1 .. n : ops[g].key = k) =>
                             requested'[k] = requested[k]
                        /\ \A g \in 1 .. n : ops[g].key = k => ops[g].value \in requested'[k]
      OBVIOUS
    <3> DEFINE named == {g \in 1 .. n : ops[g].key = k}
    <3>1. requested'[k] = IF named = {} THEN requested[k] ELSE {ops[g].value : g \in named}
      BY <2>3
    <3>2. /\ \A g \in 1 .. n : ops[g].key = k <=> g \in named
          /\ \A g \in named : g \in 1 .. n
      OBVIOUS
    <3> HIDE DEF named
    <3>3. /\ named = {} => requested'[k] = requested[k]
          /\ \A g \in named : ops[g].value \in requested'[k]
      BY <3>1
    <3> QED BY <3>2, <3>3
  <2>7. \A g \in Groups : pc'[g] \in InsertSteps => op'[g].value \in requested'[op'[g].key]
    <3> SUFFICES ASSUME NEW g \in Groups, pc'[g] \in InsertSteps
                 PROVE  op'[g].value \in requested'[op'[g].key]
      OBVIOUS
    <3>1. g \in 1 .. n
      BY <2>5 DEF InsertSteps
    <3>2. op'[g] = ops[g] /\ ops[g].key \in Keys
      BY <2>5, <3>1
    <3> QED BY <2>6, <3>1, <3>2
  <2>8. ASSUME NEW t \in Tables, NEW s \in Slots, keyAt[t][s] \in Keys
        PROVE  /\ requested'[keyAt[t][s]] # {}
               /\ \/ valAt[t][s] \in requested'[keyAt[t][s]]
                  \/ \E g \in Groups : pc'[g] \in InsertSteps /\ op'[g].key = keyAt[t][s]
    <3>1. CASE \E g \in 1 .. n : ops[g].key = keyAt[t][s]
      <4>1. PICK g \in 1 .. n : ops[g].key = keyAt[t][s]
        BY <3>1
      <4>2. g \in Groups /\ pc'[g] \in InsertSteps /\ op'[g].key = keyAt[t][s]
        BY <2>4, <2>5, <4>1 DEF InsertSteps
      <4> QED BY <2>6, <2>8, <3>1, <4>2
    <3>2. CASE ~(\E g \in 1 .. n : ops[g].key = keyAt[t][s])
      BY <1>3, <2>6, <2>8, <3>2
    <3> QED BY <3>1, <3>2
  <2>9. deleted = {}
    BY <2>1 DEF KeysPlaced
  <2> QED BY <1>1, <1>3, <2>1, <2>7, <2>8, <2>9 DEF KeysPlaced
<1> QED BY <1>4, <1>5

\* What the delete kernel does to the words of a table: the slot of the deleted key
\* becomes a tombstone, in key and value.
LEMMA DeletesOverwrite ==
  ASSUME HoHInv, DeleteGroups, NEW g \in Groups,
         \/ DeleteRange(g) \/ DeleteScan(g) \/ WriteTombstone(g)
         \/ LoadCount(g) \/ StoreCount(g) \/ FreeRange(g)
  PROVE  \A t \in Tables, s \in Slots :
           \/ keyAt'[t][s] = keyAt[t][s] /\ valAt'[t][s] = valAt[t][s]
           \/ /\ keyAt'[t][s] = Tombstone /\ keyAt[t][s] \in {op[g].key, Tombstone}
              /\ pc[g] = "tombstone"
<1>1. CASE ~WriteTombstone(g)
  <2>1. UNCHANGED <<keyAt, valAt>>
    BY <1>1 DEF DeleteRange, DeleteScan, LoadCount, StoreCount, FreeRange
  <2> QED BY <2>1
<1>2. CASE WriteTombstone(g)
  <2>1. PICK T, a : T = GroupTable(g) /\ a = addr[g]
    OBVIOUS
  <2>2. /\ keyAt' = [keyAt EXCEPT ![T][a] = Tombstone]
        /\ valAt' = [valAt EXCEPT ![T][a] = Tombstone]
        /\ pc[g] = "tombstone"
    BY <1>2, <2>1 DEF WriteTombstone
  <2>3. keyAt[T][a] \in {op[g].key, Tombstone}
    BY <2>1, <2>2 DEF HoHInv, InsertInv, AddressOK
  <2> QED BY <2>2, <2>3 DEF HoHInv, InsertInv, DriverTypeOK
<1> QED BY <1>1, <1>2

LEMMA KeysPlacedPreserved ==
  ASSUME Roomy, HoHInv, DeleteGroups, KeysPlaced, [Next]_vars
  PROVE  KeysPlaced'
<1>1. CASE LaunchInsert \/ LaunchDelete \/ LaunchSearch
  BY <1>1, LaunchKeepsPlaced
<1>2. CASE Finished \/ UNCHANGED vars
  <2>1. UNCHANGED <<keyAt, valAt, pc, op, phase, requested, deleted>>
    BY <1>2 DEF Finished, vars, insertVars, hostVars
  <2> QED BY <2>1 DEF KeysPlaced
<1>3. ASSUME NEW g \in Groups, GroupStep(g)
      PROVE  KeysPlaced'
  <2>1. CASE \/ DeleteRange(g) \/ DeleteScan(g) \/ WriteTombstone(g)
             \/ LoadCount(g) \/ StoreCount(g) \/ FreeRange(g)
    <3>1. phase = "delete" /\ UNCHANGED <<op, phase, requested>>
      BY <2>1, DeleteMoves DEF hostVars
    <3>2. /\ \A h \in Groups : pc[h] \notin InsertSteps
          /\ \A h \in Groups : pc'[h] \notin InsertSteps
      <4>1. HoHInv'
        BY <2>1, DeleteStepPreserves
      <4>2. PhaseOK /\ PhaseOK'
        BY <4>1 DEF HoHInv, InsertInv
      <4> QED BY <3>1, <4>2 DEF PhaseOK
    <3>3. \A t \in Tables, s \in Slots :
            keyAt'[t][s] \in Keys => keyAt'[t][s] = keyAt[t][s] /\ valAt'[t][s] = valAt[t][s]
      BY <2>1, DeletesOverwrite, WordsDiffer
    <3> QED BY <3>1, <3>2, <3>3 DEF KeysPlaced
  <2>2. CASE Search(g)
    <3>1. /\ UNCHANGED <<keyAt, valAt, op, phase, requested, deleted>>
          /\ pc[g] = "search" /\ pc' = [pc EXCEPT ![g] = "idle"]
      BY <2>2 DEF Search, GoTo, hostVars
    <3>2. \A h \in Groups : (pc'[h] \in InsertSteps) = (pc[h] \in InsertSteps)
      BY <3>1 DEF InsertSteps, HoHInv, InsertInv, DriverTypeOK
    <3> QED BY <3>1, <3>2 DEF KeysPlaced
  <2> QED BY <1>3, <2>1, <2>2, InsertKeepsPlaced DEF GroupStep
<1> QED BY <1>1, <1>2, <1>3 DEF Next

-----------------------------------------------------------------------------
(* Keys are where they were put until they are deleted. *)

LEMMA InsertKeepsAccounts ==
  ASSUME Roomy, HoHInv, HoHInv', KeysPlaced, KeysAccounted, NEW g \in Groups,
         \/ ReadRange(g) \/ ClaimRange(g) \/ InsertBallot(g) \/ InsertClaim(g)
         \/ AddUnique(g) \/ InsertStore(g)
  PROVE  KeysAccounted'
<1>1. /\ phase = "insert" /\ UNCHANGED <<op, phase, requested, deleted>>
      /\ pc[g] \in InsertSteps /\ op[g].key \in Keys
      /\ \A h \in Groups : h # g => pc'[h] = pc[h]
  BY InsertMoves DEF hostVars
<1>2. deleted = {}
  BY <1>1 DEF KeysPlaced
<1>3. \A h \in Groups : pc'[h] \notin DeleteSteps
  BY <1>1 DEF HoHInv, InsertInv, PhaseOK
<1>4. ASSUME pc[g] \in ToInsert
      PROVE  pc'[g] \in ToInsert \/ Holds(TableOf[op[g].key], op[g].key)'
  <2>1. pc'[g] \in InsertSteps
    BY <1>4, InsertMoves DEF ToInsert
  <2>2. CASE pc'[g] \in {"count", "store"}
    <3>1. PICK T \in Tables, k \in Keys : T = TableOf[op[g].key] /\ k = op[g].key
      BY <1>1, InsertAssumption
    <3>2. keyAt'[GroupTable(g)'][addr'[g]] = op'[g].key /\ addr'[g] \in Slots
      BY <2>2 DEF HoHInv, InsertInv, AddressOK, DriverTypeOK
    <3>3. GroupTable(g)' = T /\ op'[g].key = k /\ TableOf[k] = T
      BY <1>1, <3>1 DEF GroupTable
    <3>4. \E s \in Slots : keyAt'[T][s] = k
      BY <3>2, <3>3
    <3> QED BY <1>1, <3>1, <3>3, <3>4 DEF Holds
  <2>3. CASE pc'[g] \notin {"count", "store"}
    BY <2>1, <2>3 DEF InsertSteps, ToInsert
  <2> QED BY <2>2, <2>3
<1>5. ASSUME NEW k \in Keys, requested[k] # {}
      PROVE  \/ Holds(TableOf[k], k)'
             \/ \E h \in Groups : pc'[h] \in ToInsert /\ op'[h].key = k
  <2>1. CASE Holds(TableOf[k], k)
    BY <2>1, InsertsKeepKeys, InsertAssumption
  <2>2. CASE \E h \in Groups : pc[h] \in ToInsert /\ op[h].key = k
    <3>1. PICK h \in Groups : pc[h] \in ToInsert /\ op[h].key = k
      BY <2>2
    <3>2. CASE h = g
      BY <1>1, <1>4, <3>1, <3>2
    <3>3. CASE h # g
      BY <1>1, <3>1, <3>3
    <3> QED BY <3>2, <3>3
  <2> QED BY <1>2, <1>5, <2>1, <2>2 DEF KeysAccounted
<1> QED BY <1>1, <1>2, <1>3, <1>5 DEF KeysAccounted

LEMMA LaunchKeepsAccounts ==
  ASSUME HoHInv, KeysPlaced, KeysAccounted, LaunchInsert \/ LaunchDelete \/ LaunchSearch
  PROVE  KeysAccounted'
<1>1. Quiet /\ keyAt' = keyAt
  BY DEF LaunchInsert, LaunchDelete, LaunchSearch, FreshKernel, InsertBatch, DeleteBatch,
         SearchBatch, StartKernel
<1>2. \A k \in Keys : Holds(TableOf[k], k)' = Holds(TableOf[k], k)
  BY <1>1 DEF Holds
<1>3. \A k \in Keys : /\ requested[k] # {} /\ k \notin deleted => Holds(TableOf[k], k)
                      /\ k \in deleted => ~Holds(TableOf[k], k)
  BY <1>1 DEF KeysAccounted, Quiet, ToInsert, ToDelete
<1>4. CASE LaunchSearch
  <2>1. UNCHANGED <<requested, deleted>> /\ \A g \in Groups : pc'[g] \in {"search", "idle"}
    BY <1>4 DEF LaunchSearch, SearchBatch, StartKernel
  <2> QED BY <1>2, <1>3, <2>1 DEF KeysAccounted, DeleteSteps
<1>5. CASE LaunchDelete
  <2>1. PICK n \in Groups : \E keys \in [1 .. n -> Keys] :
          /\ StartKernel([g \in 1 .. n |-> [key |-> keys[g], value |-> Sentinel]], "delRange")
          /\ deleted' = deleted \cup {keys[g] : g \in 1 .. n}
    BY <1>5 DEF LaunchDelete, DeleteBatch
  <2>2. PICK keys \in [1 .. n -> Keys] :
          /\ StartKernel([g \in 1 .. n |-> [key |-> keys[g], value |-> Sentinel]], "delRange")
          /\ deleted' = deleted \cup {keys[g] : g \in 1 .. n}
    BY <2>1
  <2>3. 1 .. n \subseteq Groups /\ requested' = requested
    BY <1>5, InsertAssumption DEF Groups, LaunchDelete, DeleteBatch
  <2>4. /\ \A g \in 1 .. n : op'[g].key = keys[g] /\ pc'[g] = "delRange"
        /\ \A g \in Groups \ (1 .. n) : pc'[g] = "idle"
    BY <2>2, <2>3 DEF StartKernel
  <2>5. ASSUME NEW k \in Keys, k \in deleted', Holds(TableOf[k], k)
        PROVE  \E g \in Groups : pc'[g] \in ToDelete /\ op'[g].key = k
    <3>1. PICK g \in 1 .. n : keys[g] = k
      BY <1>3, <2>2, <2>5
    <3> QED BY <2>3, <2>4, <3>1 DEF ToDelete
  <2>6. \A g \in Groups : pc'[g] \in DeleteSteps => op'[g].key \in deleted'
    BY <2>2, <2>4 DEF DeleteSteps
  <2>7. \A k \in Keys : k \notin deleted' => k \notin deleted
    BY <2>2
  <2> QED BY <1>2, <1>3, <2>3, <2>5, <2>6, <2>7 DEF KeysAccounted
<1>6. CASE LaunchInsert
  <2>1. phase = "insert" /\ deleted' = deleted
    BY <1>6 DEF LaunchInsert, InsertBatch
  <2>2. deleted = {}
    BY <2>1 DEF KeysPlaced
  <2>3. PICK n \in Groups : \E ops \in [1 .. n -> [key : Keys, value : Values]] :
          /\ StartKernel(ops, "range")
          /\ requested' = [k \in Keys |->
                             LET named == {g \in 1 .. n : ops[g].key = k}
                             IN  IF named = {} THEN requested[k]
                                               ELSE {ops[g].value : g \in named}]
    BY <1>6 DEF LaunchInsert, InsertBatch
  <2>4. PICK ops \in [1 .. n -> [key : Keys, value : Values]] :
          /\ StartKernel(ops, "range")
          /\ requested' = [k \in Keys |->
                             LET named == {g \in 1 .. n : ops[g].key = k}
                             IN  IF named = {} THEN requested[k]
                                               ELSE {ops[g].value : g \in named}]
    BY <2>3
  <2>5. 1 .. n \subseteq Groups
    BY InsertAssumption DEF Groups
  <2>6. /\ \A g \in 1 .. n : op'[g] = ops[g] /\ pc'[g] = "range"
        /\ \A g \in Groups \ (1 .. n) : pc'[g] = "idle"
    BY <2>4, <2>5 DEF StartKernel
  <2>7. ASSUME NEW k \in Keys, requested'[k] # {}
        PROVE  \/ Holds(TableOf[k], k)
               \/ \E g \in Groups : pc'[g] \in ToInsert /\ op'[g].key = k
    <3>1. CASE \E g \in 1 .. n : ops[g].key = k
      BY <2>5, <2>6, <3>1 DEF ToInsert
    <3>2. CASE ~(\E g \in 1 .. n : ops[g].key = k)
      <4>1. {g \in 1 .. n : ops[g].key = k} = {}
        BY <3>2
      <4>2. requested'[k] = requested[k]
        BY <2>4, <4>1
      <4> QED BY <1>3, <2>2, <2>7, <4>2
    <3> QED BY <3>1, <3>2
  <2>8. \A g \in Groups : pc'[g] \notin DeleteSteps
    BY <2>6 DEF DeleteSteps
  <2> QED BY <1>2, <2>1, <2>2, <2>7, <2>8 DEF KeysAccounted
<1> QED BY <1>4, <1>5, <1>6

\* A delete takes no other key out of a table.
LEMMA DeletesKeepOthers ==
  ASSUME HoHInv, DeleteGroups, NEW g \in Groups,
         \/ DeleteRange(g) \/ DeleteScan(g) \/ WriteTombstone(g)
         \/ LoadCount(g) \/ StoreCount(g) \/ FreeRange(g),
         NEW t \in Tables, NEW k \in Live(t), k # op[g].key
  PROVE  k \in Live(t)'
<1>1. PICK s \in Slots : keyAt[t][s] = k /\ k \in Keys
  BY DEF Live, Holds
<1>2. keyAt'[t][s] = k
  BY <1>1, DeletesOverwrite, WordsDiffer
<1> QED BY <1>1, <1>2 DEF Live, Holds

\* A delete whose key is there goes on until it has found it.
LEMMA DeletesFind ==
  ASSUME HoHInv, CountInv, KeysReachable, NEW g \in Groups,
         \/ DeleteRange(g) \/ DeleteScan(g) \/ WriteTombstone(g)
         \/ LoadCount(g) \/ StoreCount(g) \/ FreeRange(g),
         pc[g] \in {"delRange", "delScan"}, op[g].key \in Live(GroupTable(g))
  PROVE  /\ keyAt' = keyAt
         /\ \/ pc'[g] = "delScan"
            \/ /\ pc'[g] = "tombstone" /\ hitLane'[g] # NoLane
               /\ freeCheck'[g] \/ hitLane'[g] = 0
<1>1. PICK T, k : T = GroupTable(g) /\ k = op[g].key
  OBVIOUS
<1>2. /\ T \in Tables /\ k \in Keys /\ k \in Live(T) /\ phase = "delete"
      /\ TableOf[k] = T /\ T # 0
  BY <1>1, DeleteMoves, HoHAssumption DEF CountInv, GroupTable
<1>3. k \in OldLive(T)
  BY <1>2, LiveKept DEF CountInv, Kept
<1>4. range[T] = T /\ oldRange[T] = T
  <2>1. range[T] # 0
    BY <1>2, InvCovers
  <2>2. oldRange[T] = T
    BY <1>2, <1>3 DEF CountInv, CountsCover
  <2> QED BY <1>2, <2>1, <2>2 DEF CountInv, RangesOK
<1>5. /\ Hits(keyAt[T], Home[k], k, Sentinel, EarlyLanes) # {}
      /\ Hits(oldKeyAt[T], Home[k], k, Sentinel, EarlyLanes) # {}
  BY <1>2, <1>3, EarlyFinds, WordsDiffer DEF KeysReachable
<1>6. CASE DeleteRange(g)
  <2>1. /\ \E seen \in {range[T], oldRange[T]} :
             pc' = [pc EXCEPT ![g] = IF seen = T THEN "delScan" ELSE "idle"]
        /\ keyAt' = keyAt
    BY <1>1, <1>6 DEF DeleteRange, GoTo
  <2>2. pc' = [pc EXCEPT ![g] = "delScan"]
    BY <1>4, <2>1
  <2> QED BY <2>1, <2>2 DEF HoHInv, InsertInv, DriverTypeOK
<1>7. CASE DeleteScan(g)
  <2>1. PICK cells \in {keyAt[T], oldKeyAt[T]} :
          \/ \E p \in Hits(cells, Home[k], k, Sentinel, EarlyLanes) :
               /\ hitLane' = [hitLane EXCEPT ![g] = p[2]]
               /\ freeCheck' = [freeCheck EXCEPT ![g] = p[2] # 0]
               /\ pc' = [pc EXCEPT ![g] = "tombstone"]
          \/ Hits(cells, Home[k], k, Sentinel, EarlyLanes) = {}
    BY <1>1, <1>7 DEF DeleteScan, GoTo
  <2>2. PICK p \in Hits(cells, Home[k], k, Sentinel, EarlyLanes) :
          /\ hitLane' = [hitLane EXCEPT ![g] = p[2]]
          /\ freeCheck' = [freeCheck EXCEPT ![g] = p[2] # 0]
          /\ pc' = [pc EXCEPT ![g] = "tombstone"]
    BY <1>5, <2>1
  <2>3. PICK r : r = p[2] /\ r \in Lanes
    BY <1>2, <2>2, HitsAreSlots
  <2>4. r # NoLane
    BY <2>3, ProbeAssumption DEF Lanes, NoLane
  <2>5. /\ hitLane' = [hitLane EXCEPT ![g] = r]
        /\ freeCheck' = [freeCheck EXCEPT ![g] = r # 0]
    BY <2>2, <2>3
  <2>6. hitLane'[g] = r /\ freeCheck'[g] = (r # 0) /\ pc'[g] = "tombstone"
    BY <2>2, <2>5 DEF HoHInv, InsertInv, DriverTypeOK, RangeTypeOK
  <2>7. keyAt' = keyAt
    BY <1>7 DEF DeleteScan
  <2> QED BY <2>4, <2>6, <2>7
<1>8. ~WriteTombstone(g) /\ ~LoadCount(g) /\ ~StoreCount(g) /\ ~FreeRange(g)
  <2>1. ~freeCheck[g]
    BY <1>2 DEF CountInv, DeleteGroups
  <2> QED BY <2>1 DEF WriteTombstone, LoadCount, StoreCount, FreeRange
<1> QED BY <1>6, <1>7, <1>8

LEMMA DeleteKeepsAccounts ==
  ASSUME HoHInv, CountInv, KeysReachable, KeysAccounted, NEW g \in Groups,
         \/ DeleteRange(g) \/ DeleteScan(g) \/ WriteTombstone(g)
         \/ LoadCount(g) \/ StoreCount(g) \/ FreeRange(g)
  PROVE  KeysAccounted'
<1>1. /\ phase = "delete" /\ UNCHANGED <<op, requested, deleted>>
      /\ op[g].key \in Keys /\ GroupTable(g) \in Tables
      /\ \A h \in Groups : h # g => pc'[h] = pc[h]
  BY DeleteMoves DEF CountInv, hostVars
<1>2. \A t \in Tables : Live(t)' \subseteq Live(t)
  <2>1. CASE WriteTombstone(g)
    BY <2>1, TombstoneRemoves DEF CountInv
  <2>2. CASE ~WriteTombstone(g)
    <3>1. keyAt' = keyAt
      BY <2>2 DEF DeleteRange, DeleteScan, LoadCount, StoreCount, FreeRange
    <3> QED BY <3>1, SameLive
  <2> QED BY <2>1, <2>2
<1>3. \A k \in Keys : /\ TableOf[k] \in Tables
                      /\ Holds(TableOf[k], k) <=> k \in Live(TableOf[k])
  BY InsertAssumption DEF Live
<1>4. \A k \in Keys : Holds(TableOf[k], k)' <=> k \in Live(TableOf[k])'
  BY InsertAssumption DEF Live
\* A deleted key that is left is looked for.
<1>5. ASSUME NEW k \in Keys, k \in deleted, k \in Live(TableOf[k])'
      PROVE  \E h \in Groups : pc'[h] \in ToDelete /\ op'[h].key = k
  <2>1. k \in Live(TableOf[k])
    BY <1>2, <1>3, <1>5
  <2>2. PICK h \in Groups : pc[h] \in ToDelete /\ op[h].key = k
    BY <1>3, <1>5, <2>1 DEF KeysAccounted
  <2>3. CASE h # g
    BY <1>1, <2>2, <2>3
  <2>4. CASE h = g
    <3>1. GroupTable(g) = TableOf[k]
      BY <2>2, <2>4 DEF GroupTable
    <3>2. CASE pc[g] = "tombstone"
      <4>1. WriteTombstone(g) \/ FreeRange(g)
        BY <3>2 DEF DeleteRange, DeleteScan, LoadCount, StoreCount
      <4>2. CASE WriteTombstone(g)
        <5>1. op[g].key \notin Live(GroupTable(g))'
          BY <4>2, TombstoneRemoves DEF CountInv
        <5>2. GroupTable(g)' = GroupTable(g)
          BY <1>1 DEF GroupTable
        <5> QED BY <1>5, <2>2, <2>4, <3>1, <5>1, <5>2
      <4>3. CASE FreeRange(g)
        BY <1>1, <2>2, <2>4, <4>3 DEF FreeRange
      <4> QED BY <4>1, <4>2, <4>3
    <3>3. CASE pc[g] # "tombstone"
      <4>1. pc[g] \in {"delRange", "delScan"}
        BY <2>2, <2>4, <3>3 DEF ToDelete
      <4>2. pc'[g] \in {"delScan", "tombstone"}
        BY <2>1, <2>2, <2>4, <3>1, <4>1, DeletesFind
      <4> QED BY <1>1, <2>2, <2>4, <4>2 DEF ToDelete
    <3> QED BY <3>2, <3>3
  <2> QED BY <2>3, <2>4
\* A key that nobody deletes stays.
<1>6. ASSUME NEW k \in Keys, requested[k] # {}, k \notin deleted
      PROVE  k \in Live(TableOf[k])'
  <2>1. \A h \in Groups : pc[h] \notin ToInsert
    <3>1. \A h \in Groups : pc[h] \notin InsertSteps
      BY <1>1 DEF HoHInv, InsertInv, PhaseOK
    <3> QED BY <3>1 DEF ToInsert, InsertSteps
  <2>2. k \in Live(TableOf[k])
    BY <1>3, <1>6, <2>1 DEF KeysAccounted
  <2>3. CASE k # op[g].key
    BY <1>3, <2>2, <2>3, DeletesKeepOthers DEF CountInv
  <2>4. CASE k = op[g].key
    <3>1. pc[g] \notin DeleteSteps
      BY <1>6, <2>4 DEF KeysAccounted
    <3>2. keyAt' = keyAt
      BY <3>1 DEF DeleteRange, DeleteScan, WriteTombstone, LoadCount, StoreCount, FreeRange,
                  DeleteSteps
    <3> QED BY <2>2, <3>2, SameLive
  <2> QED BY <2>3, <2>4
<1>7. ASSUME NEW h \in Groups, pc'[h] \in DeleteSteps
      PROVE  op[h].key \in deleted
  <2>1. CASE h # g
    BY <1>1, <1>7, <2>1 DEF KeysAccounted
  <2>2. CASE h = g
    <3>1. CASE FreeRange(g)
      BY <1>7, <2>2, <3>1 DEF FreeRange, KeysAccounted
    <3>2. CASE ~FreeRange(g)
      <4>1. pc[g] \in DeleteSteps
        BY <3>2 DEF DeleteRange, DeleteScan, WriteTombstone, LoadCount, StoreCount, DeleteSteps
      <4> QED BY <2>2, <4>1 DEF KeysAccounted
    <3> QED BY <3>1, <3>2
  <2> QED BY <2>1, <2>2
<1>8. ASSUME NEW k \in Keys
      PROVE  /\ requested'[k] # {} /\ k \notin deleted' =>
                  \/ Holds(TableOf[k], k)'
                  \/ \E h \in Groups : pc'[h] \in ToInsert /\ op'[h].key = k
             /\ k \in deleted' /\ Holds(TableOf[k], k)' =>
                  \E h \in Groups : pc'[h] \in ToDelete /\ op'[h].key = k
  BY <1>1, <1>4, <1>5, <1>6
<1> QED BY <1>1, <1>7, <1>8 DEF KeysAccounted

LEMMA KeysAccountedPreserved ==
  ASSUME Roomy, HoHInv, CountInv, MapInv, [Next]_vars
  PROVE  KeysAccounted'
<1>1. CASE LaunchInsert \/ LaunchDelete \/ LaunchSearch
  BY <1>1, LaunchKeepsAccounts DEF MapInv
<1>2. CASE Finished \/ UNCHANGED vars
  <2>1. UNCHANGED <<keyAt, pc, op, requested, deleted>>
    BY <1>2 DEF Finished, vars, insertVars, hostVars
  <2> QED BY <2>1 DEF MapInv, KeysAccounted, Holds
<1>3. ASSUME NEW g \in Groups, GroupStep(g)
      PROVE  KeysAccounted'
  <2>1. CASE Search(g)
    <3>1. /\ UNCHANGED <<keyAt, op, requested, deleted>>
          /\ pc[g] = "search" /\ pc' = [pc EXCEPT ![g] = "idle"]
      BY <2>1 DEF Search, GoTo, hostVars
    <3>2. \A h \in Groups : /\ (pc'[h] \in DeleteSteps) = (pc[h] \in DeleteSteps)
                            /\ (pc'[h] \in ToInsert) = (pc[h] \in ToInsert)
                            /\ (pc'[h] \in ToDelete) = (pc[h] \in ToDelete)
      BY <3>1 DEF HoHInv, InsertInv, DriverTypeOK, DeleteSteps, ToInsert, ToDelete
    <3> QED BY <3>1, <3>2 DEF MapInv, KeysAccounted, Holds
  <2>2. HoHInv'
    BY <1>3, NextPreserves DEF Next
  <2> QED BY <1>3, <2>1, <2>2, InsertKeepsAccounts, DeleteKeepsAccounts DEF GroupStep, MapInv
<1> QED BY <1>1, <1>2, <1>3 DEF Next

-----------------------------------------------------------------------------
(* Scans keep reaching what is left. *)

\* A delete leaves the other keys where the scans reach them.
LEMMA StaysEarly ==
  ASSUME HoHInv, DeleteGroups, NEW g \in Groups,
         \/ DeleteRange(g) \/ DeleteScan(g) \/ WriteTombstone(g)
         \/ LoadCount(g) \/ StoreCount(g) \/ FreeRange(g),
         NEW t \in Tables, NEW k \in Keys, EarlyAt(keyAt[t], k), k \in Live(t)'
  PROVE  EarlyAt(keyAt'[t], k)
<1>1. PICK w \in Windows : \E r \in EarlyLanes[w] :
        /\ keyAt[t][SlotAt(Home[k], w, r)] = k
        /\ \A v \in Windows : \A q \in EarlyLanes[v] :
             Before(v, q, w, r) => keyAt[t][SlotAt(Home[k], v, q)] # Sentinel
  BY DEF EarlyAt, ReachedBy
<1>2. PICK r \in EarlyLanes[w] :
        /\ keyAt[t][SlotAt(Home[k], w, r)] = k
        /\ \A v \in Windows : \A q \in EarlyLanes[v] :
             Before(v, q, w, r) => keyAt[t][SlotAt(Home[k], v, q)] # Sentinel
  BY <1>1
<1>3. \A v \in Windows : \A q \in Lanes : SlotAt(Home[k], v, q) \in Slots
  BY SlotAtIsSlot, WindowsAreNumbers, InsertAssumption
<1>4. r \in Lanes
  BY DEF EarlyLanes
<1>5. PICK s \in Slots : s = SlotAt(Home[k], w, r)
  BY <1>3, <1>4
<1>6. keyAt'[t][s] = k
  <2>1. PICK s2 \in Slots : keyAt'[t][s2] = k
    BY DEF Live, Holds
  <2>2. keyAt[t][s2] = k
    BY <2>1, DeletesOverwrite, WordsDiffer
  <2>3. s2 = s
    BY <1>2, <1>5, <2>2 DEF HoHInv, InsertInv, OneSlotPerKey
  <2> QED BY <2>1, <2>3
<1>7. \A s2 \in Slots : keyAt[t][s2] # Sentinel => keyAt'[t][s2] # Sentinel
  BY DeletesOverwrite, WordsDiffer
<1>8. \A v \in Windows : \A q \in EarlyLanes[v] :
        Before(v, q, w, r) => keyAt'[t][SlotAt(Home[k], v, q)] # Sentinel
  BY <1>2, <1>3, <1>7 DEF EarlyLanes
<1> QED BY <1>5, <1>6, <1>8 DEF EarlyAt, ReachedBy

LEMMA KeysReachablePreserved ==
  ASSUME Roomy, HoHInv, CountInv, MapInv, [Next]_vars
  PROVE  KeysReachable'
<1>1. ASSUME UNCHANGED <<keyAt, oldKeyAt, phase>>
      PROVE  KeysReachable'
  BY <1>1 DEF MapInv, KeysReachable, Live, OldLive, Holds, EarlyAt, ReachedBy
<1>2. CASE LaunchInsert
  BY <1>2 DEF LaunchInsert, InsertBatch, EnterPhase, KeysReachable
<1>3. CASE LaunchDelete \/ LaunchSearch
  <2>1. keyAt' = keyAt /\ oldKeyAt' = keyAt
    BY <1>3 DEF LaunchDelete, LaunchSearch, DeleteBatch, SearchBatch, StartKernel
  <2>2. \A t \in Tables, k \in Keys : k \in Live(t) => EarlyAt(keyAt[t], k)
    BY InsertedKeysAreNear DEF MapInv, KeysReachable
  <2>3. \A t : Live(t)' = Live(t) /\ OldLive(t)' = Live(t)
    BY <2>1 DEF Live, OldLive, Holds
  <2> QED BY <2>1, <2>2, <2>3 DEF KeysReachable, EarlyAt, ReachedBy
<1>4. CASE Finished \/ UNCHANGED vars
  BY <1>1, <1>4 DEF Finished, vars, insertVars, hostVars
<1>5. ASSUME NEW g \in Groups, GroupStep(g)
      PROVE  KeysReachable'
  <2>1. CASE \/ ReadRange(g) \/ ClaimRange(g) \/ InsertBallot(g) \/ InsertClaim(g)
             \/ AddUnique(g) \/ InsertStore(g)
    <3>1. phase' = "insert"
      BY <2>1, InsertMoves DEF MapInv, hostVars
    <3> QED BY <3>1 DEF KeysReachable
  <2>2. CASE Search(g)
    BY <1>1, <2>2 DEF Search, hostVars
  <2>3. CASE \/ DeleteRange(g) \/ DeleteScan(g) \/ WriteTombstone(g)
             \/ LoadCount(g) \/ StoreCount(g) \/ FreeRange(g)
    <3>1. phase = "delete" /\ oldKeyAt' = oldKeyAt
      BY <2>3, DeleteMoves DEF CountInv
    <3>2. ASSUME NEW t \in Tables, NEW k \in Keys, k \in Live(t)'
          PROVE  EarlyAt(keyAt'[t], k)
      <4>1. k \in Live(t)
        BY <2>3, <3>2, DeletesOverwrite, WordsDiffer DEF CountInv, Live, Holds
      <4> QED BY <2>3, <3>1, <3>2, <4>1, StaysEarly DEF CountInv, MapInv, KeysReachable
    <3>3. ASSUME NEW t \in Tables, NEW k \in Keys, k \in OldLive(t)
          PROVE  EarlyAt(oldKeyAt[t], k)
      BY <3>1, <3>3 DEF MapInv, KeysReachable
    <3> QED BY <3>1, <3>2, <3>3 DEF KeysReachable, OldLive, EarlyAt, ReachedBy
  <2> QED BY <1>5, <2>1, <2>2, <2>3 DEF GroupStep
<1> QED BY <1>2, <1>3, <1>4, <1>5 DEF Next

-----------------------------------------------------------------------------
(* Deletes are reported. *)

\* What was found stays reported: lane 0 becomes the outer leader when it was the lane
\* that hit, and the leader writes the status.
LEMMA StaysReported ==
  ASSUME HoHInv, CountInv, NEW g \in Groups,
         \/ DeleteRange(g) \/ DeleteScan(g) \/ WriteTombstone(g)
         \/ LoadCount(g) \/ StoreCount(g) \/ FreeRange(g),
         pc[g] \notin {"delRange", "delScan"}, Reported(g)
  PROVE  pc'[g] \notin {"delRange", "delScan"} /\ Reported(g)'
<1>1. /\ pc \in [Groups -> Steps] /\ hitLane \in [Groups -> Lanes \cup {NoLane}]
      /\ freeCheck \in [Groups -> BOOLEAN] /\ delStatus \in [Groups -> BOOLEAN]
  BY DEF HoHInv, InsertInv, DriverTypeOK, RangeTypeOK
<1>2. NoLane' = NoLane
  BY DEF NoLane
<1>3. CASE WriteTombstone(g)
  <2>1. /\ pc'[g] = "loadCount" /\ pc[g] = "tombstone"
        /\ UNCHANGED <<hitLane, freeCheck, delStatus>>
    BY <1>1, <1>3 DEF WriteTombstone, GoTo
  <2> QED BY <1>2, <2>1 DEF Reported
<1>4. CASE LoadCount(g)
  <2>1. /\ pc'[g] = "storeCount" /\ pc[g] = "loadCount"
        /\ UNCHANGED <<hitLane, freeCheck, delStatus>>
    BY <1>1, <1>4 DEF LoadCount, GoTo
  <2> QED BY <1>2, <2>1 DEF Reported
<1>5. CASE StoreCount(g)
  <2>1. /\ pc'[g] = "idle" /\ UNCHANGED <<hitLane, delStatus>>
        /\ freeCheck'[g] = (freeCheck[g] \/ hitLane[g] = 0)
    BY <1>1, <1>5 DEF StoreCount, GoTo
  <2> QED BY <1>2, <2>1 DEF Reported
<1>6. CASE FreeRange(g)
  <2>1. /\ UNCHANGED <<pc, hitLane>>
        /\ delStatus'[g] = TRUE
    BY <1>1, <1>6 DEF FreeRange, Reported
  <2> QED BY <1>2, <2>1 DEF Reported
<1> QED BY <1>3, <1>4, <1>5, <1>6 DEF DeleteRange, DeleteScan

LEMMA FindsReportedStep ==
  ASSUME HoHInv, CountInv, MapInv, NEW g \in Groups,
         \/ DeleteRange(g) \/ DeleteScan(g) \/ WriteTombstone(g)
         \/ LoadCount(g) \/ StoreCount(g) \/ FreeRange(g)
  PROVE  FindsReported'
<1>1. /\ phase = "delete" /\ UNCHANGED <<oldKeyAt, op, active>>
      /\ g \in active /\ op[g].key \in Keys /\ GroupTable(g) \in Tables
      /\ \A h \in Groups : h # g => /\ pc'[h] = pc[h]
                                    /\ hitLane'[h] = hitLane[h]
                                    /\ freeCheck'[h] = freeCheck[h]
                                    /\ delStatus'[h] = delStatus[h]
  BY DeleteMoves DEF CountInv, hostVars
<1>2. active \subseteq Groups
  BY DEF HoHInv, InsertInv, DriverTypeOK
<1>3. \A t : OldLive(t)' = OldLive(t)
  BY <1>1 DEF OldLive
<1>4. \A h : GroupTable(h)' = GroupTable(h)
  BY <1>1 DEF GroupTable
<1> SUFFICES ASSUME NEW h \in active, op[h].key \in OldLive(GroupTable(h))
             PROVE  IF pc'[h] \in {"delRange", "delScan"}
                    THEN op[h].key \in Live(GroupTable(h))'
                    ELSE Reported(h)'
  <2>1. \A h \in active : op[h].key \in Keys
    BY <1>1 DEF MapInv, FindsReported
  <2> QED BY <1>1, <1>3, <1>4, <2>1 DEF FindsReported, Reported
<1>5. IF pc[h] \in {"delRange", "delScan"} THEN op[h].key \in Live(GroupTable(h))
                                           ELSE Reported(h)
  BY <1>1 DEF MapInv, FindsReported, Reported
<1>6. CASE h # g
  <2>1. pc'[h] = pc[h] /\ (Reported(h)' <=> Reported(h))
    BY <1>1, <1>2, <1>6 DEF Reported, NoLane
  <2>2. CASE pc[h] \in {"delRange", "delScan"}
    <3>1. op[h].key # op[g].key
      BY <1>1, <1>6 DEF CountInv, FoundKeys
    <3>2. op[h].key \in Keys /\ GroupTable(h) \in Tables
      BY InsertAssumption DEF OldLive, GroupTable
    <3>3. PICK t \in Tables, k \in Keys :
             t = GroupTable(h) /\ k = op[h].key /\ k \in Live(t)
      BY <1>5, <2>2, <3>2
    <3>4. k \in Live(t)'
      BY <3>1, <3>3, DeletesKeepOthers DEF CountInv
    <3>5. Live(GroupTable(h))' = Live(t)'
      BY <1>4, <3>3 DEF Live, Holds
    <3> QED BY <2>1, <2>2, <3>3, <3>4, <3>5
  <2> QED BY <1>5, <2>1, <2>2
<1>7. CASE h = g
  <2>1. CASE pc[g] \in {"delRange", "delScan"}
    <3>1. op[g].key \in Live(GroupTable(g))
      BY <1>5, <1>7, <2>1
    <3>2. /\ keyAt' = keyAt
          /\ \/ pc'[g] = "delScan"
             \/ /\ pc'[g] = "tombstone" /\ hitLane'[g] # NoLane
                /\ freeCheck'[g] \/ hitLane'[g] = 0
      BY <2>1, <3>1, DeletesFind DEF MapInv
    <3>3. op[g].key \in Live(GroupTable(g))'
      BY <1>4, <3>1, <3>2 DEF Live, Holds
    <3> QED BY <1>7, <3>2, <3>3 DEF Reported, NoLane
  <2>2. CASE pc[g] \notin {"delRange", "delScan"}
    BY <1>5, <1>7, <2>2, StaysReported
  <2> QED BY <2>1, <2>2
<1> QED BY <1>6, <1>7

LEMMA FindsReportedPreserved ==
  ASSUME HoHInv, CountInv, MapInv, [Next]_vars
  PROVE  FindsReported'
<1>1. CASE LaunchInsert \/ LaunchSearch
  BY <1>1 DEF LaunchInsert, LaunchSearch, InsertBatch, SearchBatch, EnterPhase, FindsReported
<1>2. CASE LaunchDelete
  <2>1. PICK n \in Groups : \E keys \in [1 .. n -> Keys] :
          StartKernel([g \in 1 .. n |-> [key |-> keys[g], value |-> Sentinel]], "delRange")
    BY <1>2 DEF LaunchDelete, DeleteBatch
  <2>2. 1 .. n \subseteq Groups /\ keyAt' = keyAt /\ oldKeyAt' = keyAt
    BY <2>1, InsertAssumption DEF Groups, StartKernel
  <2>3. \A g \in active' : pc'[g] = "delRange" /\ op'[g].key \in Keys
    BY <2>1, <2>2 DEF StartKernel
  <2>4. \A t : OldLive(t)' = Live(t)'
    BY <2>2 DEF OldLive, Live, Holds
  <2> QED BY <2>3, <2>4 DEF FindsReported
<1>3. CASE Finished \/ UNCHANGED vars
  <2>1. UNCHANGED <<keyAt, oldKeyAt, pc, op, phase, active, hitLane, freeCheck, delStatus>>
    BY <1>3 DEF Finished, vars, insertVars, hostVars, resultVars
  <2> QED BY <2>1 DEF MapInv, FindsReported, Reported, Live, OldLive, Holds, GroupTable, NoLane
<1>4. ASSUME NEW g \in Groups, GroupStep(g)
      PROVE  FindsReported'
  <2>1. CASE \/ ReadRange(g) \/ ClaimRange(g) \/ InsertBallot(g) \/ InsertClaim(g)
             \/ AddUnique(g) \/ InsertStore(g) \/ Search(g)
    <3>1. pc[g] \in InsertSteps \cup {"search"} /\ phase' = phase
      BY <2>1 DEF ReadRange, ClaimRange, InsertBallot, Ballot, InsertClaim, Claim, AddUnique,
                  InsertStore, StoreValue, Search, insertOnly, hostVars, InsertSteps
    <3>2. phase' # "delete"
      BY <3>1 DEF CountInv, DeleteGroups, HoHInv, InsertInv, PhaseOK
    <3> QED BY <3>2 DEF FindsReported
  <2> QED BY <1>4, <2>1, FindsReportedStep DEF GroupStep
<1> QED BY <1>1, <1>2, <1>3, <1>4 DEF Next

-----------------------------------------------------------------------------
(* The theorems. *)

LEMMA MapInvInit == Init => MapInv
<1> SUFFICES ASSUME Init
             PROVE  MapInv
  OBVIOUS
<1>1. /\ phase = "insert" /\ deleted = {} /\ requested = [k \in Keys |-> {}]
      /\ pc = [g \in Groups |-> "idle"]
      /\ keyAt = [t \in Tables |-> [s \in Slots |-> Sentinel]]
  BY DEF Init, DriverInit
<1>2. KeysPlaced
  BY <1>1, WordsDiffer DEF KeysPlaced, InsertSteps
<1>3. KeysAccounted
  BY <1>1 DEF KeysAccounted, DeleteSteps
<1> QED BY <1>1, <1>2, <1>3 DEF MapInv, KeysReachable, FindsReported

LEMMA MapInvPreserved ==
  ASSUME Roomy, HoHInv, CountInv, MapInv, [Next]_vars
  PROVE  MapInv'
<1>1. KeysPlaced'
  BY KeysPlacedPreserved DEF MapInv, CountInv
<1> QED BY <1>1, KeysAccountedPreserved, KeysReachablePreserved, FindsReportedPreserved
        DEF MapInv

LEMMA MapInvariant ==
  ASSUME Roomy, DistinctDeletes
  PROVE  Spec => [](HoHInv /\ CountInv /\ MapInv)
<1>1. Init => HoHInv /\ CountInv /\ MapInv
  BY InitEstablishes, CountInvInit, MapInvInit
<1>2. (HoHInv /\ CountInv /\ MapInv) /\ [Next]_vars => (HoHInv /\ CountInv /\ MapInv)'
  BY NextPreserves, CountInvPreserved, MapInvPreserved
<1> QED BY <1>1, <1>2, PTL DEF Spec

\* KeyCheckGPUHoH_Delete_CG never complains: once a delete batch is through, none of
\* its keys is left in a table, as long as no batch names a key twice and the end of
\* the table, where the scans stop short, stays free.
THEOREM DeletionsSucceed == ASSUME Roomy, DistinctDeletes PROVE Spec => []NoFailedDeletion
<1>1. HoHInv /\ CountInv /\ MapInv => NoFailedDeletion
  <2>1. Quiet => \A g \in Groups : pc[g] \notin ToDelete
    BY DEF Quiet, ToDelete
  <2>2. HoHInv => deleted \subseteq Keys
    BY DEF HoHInv, InsertInv, DriverTypeOK
  <2> QED BY <2>1, <2>2 DEF NoFailedDeletion, MapInv, KeysAccounted
<1> QED BY <1>1, MapInvariant, PTL

\* Under the same conditions the status buffer says of every delete that found its key
\* at launch that it succeeded, whichever lane hit and whoever freed the range.
THEOREM DeletesAreReported == ASSUME Roomy, DistinctDeletes PROVE Spec => []DeletesReported
<1>1. HoHInv /\ CountInv /\ MapInv => DeletesReported
  <2> SUFFICES ASSUME HoHInv, MapInv, Quiet, phase = "delete", NEW g \in active,
                      \E s \in Slots : oldKeyAt[GroupTable(g)][s] = op[g].key
               PROVE  delStatus[g]
    BY DEF DeletesReported
  <2>1. op[g].key \in OldLive(GroupTable(g))
    BY DEF MapInv, FindsReported, OldLive
  <2>2. pc[g] = "idle" /\ ~freeCheck[g]
    BY DEF Quiet, HoHInv, InsertInv, DriverTypeOK
  <2> QED BY <2>1, <2>2 DEF MapInv, FindsReported, Reported
<1> QED BY <1>1, MapInvariant, PTL

\* Between kernels the two-level table is the map that the batches describe: a search
\* returns a value the last insert batch with the key asked for, and the sentinel for a
\* key that was deleted or never inserted.  It takes batches that name no key to delete
\* twice, and ranges that leave the end of their inner table free.
THEOREM MapIsRight == ASSUME Roomy, DistinctDeletes PROVE Spec => []TableIsMap
<1>1. Roomy /\ HoHInv /\ CountInv /\ MapInv => TableIsMap
  <2> SUFFICES ASSUME Roomy, HoHInv, CountInv, MapInv, Quiet, NEW k \in Keys
               PROVE  IF k \in deleted \/ requested[k] = {} THEN SearchResult(k) = Sentinel
                      ELSE SearchResult(k) \in requested[k]
    BY DEF TableIsMap
  <2>1. PICK T \in Tables : T = TableOf[k]
    BY InsertAssumption
  <2>2. \A g \in Groups : pc[g] = "idle"
    BY DEF Quiet
  <2> DEFINE hits == Hits(keyAt[T], Home[k], k, Sentinel, EarlyLanes)
             slot(p) == SlotAt(Home[k], p[1], p[2])
  <2>3. SearchResult(k) = IF range[T] # T \/ hits = {} THEN Sentinel
                          ELSE valAt[T][slot(CHOOSE q \in hits : TRUE)]
    BY <2>1 DEF SearchResult
  <2>4. \A p \in hits : slot(p) \in Slots /\ keyAt[T][slot(p)] = k
    BY HitsAreSlots
  <2>5. ASSUME NEW s \in Slots, keyAt[T][s] = k
        PROVE  requested[k] # {} /\ valAt[T][s] \in requested[k]
    BY <2>2, <2>5 DEF MapInv, KeysPlaced, InsertSteps
  <2>6. CASE k \in deleted \/ requested[k] = {}
    <3>1. ~Holds(T, k)
      BY <2>1, <2>2, <2>5, <2>6 DEF MapInv, KeysAccounted, ToDelete, Holds
    <3>2. hits = {}
      BY <2>4, <3>1 DEF Holds
    <3> QED BY <2>3, <2>6, <3>2
  <2>7. CASE k \notin deleted /\ requested[k] # {}
    <3>1. k \in Live(T)
      BY <2>1, <2>2, <2>7 DEF MapInv, KeysAccounted, ToInsert, Live
    <3>2. range[T] = T
      BY <3>1, InvCovers DEF CountInv, RangesOK
    <3>3. hits # {}
      BY <3>1, LiveIsReachable DEF MapInv
    <3>4. PICK p \in hits : p = CHOOSE q \in hits : TRUE
      BY <3>3
    <3>5. SearchResult(k) = valAt[T][slot(p)]
      BY <2>3, <3>2, <3>3, <3>4
    <3> QED BY <2>4, <2>5, <2>7, <3>4, <3>5
  <2> QED BY <2>6, <2>7
<1> QED BY <1>1, MapInvariant, PTL
===============================================================================
