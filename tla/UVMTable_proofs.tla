-------------------------- MODULE UVMTable_proofs ----------------------------
(***************************************************************************)
(* Theorems about the flat hash table, for every capacity, group size,     *)
(* batch size, number of batches and runs, and choice of home slots.       *)
(***************************************************************************)
EXTENDS UVMTable, BatchDriver_proofs

-----------------------------------------------------------------------------
(* Divisibility.                                                           *)

Divides(n, x) == \E q \in Nat : x = n * q

Odd(n) == \E h \in Nat : n = 2 * h + 1

\* Two numbers with the same remainder differ by a multiple.
LEMMA SameRemainder ==
  ASSUME NEW n \in Nat \ {0}, NEW x \in Nat, NEW y \in Nat, x <= y, x % n = y % n
  PROVE  Divides(n, y - x)
<1>1. PICK p \in Nat, r \in Nat : p = x \div n /\ r = x % n /\ x = p * n + r
  <2>1. x \div n \in Nat /\ x % n \in 0 .. n - 1 /\ x = (x \div n) * n + (x % n)
    BY DivisionExists
  <2> QED BY <2>1
<1>2. PICK q \in Nat : q = y \div n /\ y = q * n + r
  <2>1. y \div n \in Nat /\ y = (y \div n) * n + (y % n)
    BY DivisionExists
  <2> QED BY <1>1, <2>1
<1>3. p <= q
  BY <1>1, <1>2, DivisionMonotone
<1>4. PICK e \in Nat : q = p + e
  <2>1. q - p \in Nat /\ q = p + (q - p)
    BY <1>3
  <2> QED BY <2>1
<1>5. q * n = p * n + n * e
  BY <1>4
<1>6. PICK i \in Nat, j \in Nat : i = p * n /\ j = n * e
  OBVIOUS
<1>7. y - x = n * e
  BY <1>1, <1>2, <1>5, <1>6
<1> QED BY <1>7 DEF Divides

\* A multiple of n below n is zero.
LEMMA SmallMultiple ==
  ASSUME NEW n \in Nat \ {0}, NEW x \in Nat, x < n, Divides(n, x)
  PROVE  x = 0
<1>1. PICK q \in Nat : x = n * q
  BY DEF Divides
<1>2. CASE q = 0
  BY <1>1, <1>2
<1>3. CASE q > 0
  <2>1. PICK e \in Nat : q = 1 + e
    <3>1. q - 1 \in Nat /\ q = 1 + (q - 1)
      BY <1>3
    <3> QED BY <3>1
  <2>2. n * q = n + n * e /\ n * e \in Nat
    BY <2>1
  <2>3. PICK i \in Nat : i = n * e
    BY <2>2
  <2> QED BY <1>1, <2>2, <2>3
<1> QED BY <1>2, <1>3

\* A number that an odd one divides when doubled is divided by it.
LEMMA OddDividesHalf ==
  ASSUME NEW c \in Nat, Odd(c), NEW x \in Nat, Divides(c, 2 * x)
  PROVE  Divides(c, x)
<1>1. PICK h \in Nat, m \in Nat : c = 2 * h + 1 /\ 2 * x = c * m
  BY DEF Odd, Divides
<1>2. PICK n \in Nat, b \in {0, 1} : m = 2 * n + b
  <2>1. m \div 2 \in Nat /\ m % 2 \in 0 .. 1 /\ m = (m \div 2) * 2 + (m % 2)
    BY DivisionExists
  <2> QED BY <2>1
<1>3. PICK y \in Nat, z \in Nat : y = c * n /\ z = h * b
  OBVIOUS
<1>4. c * m = 2 * y + 2 * z + b
  <2>1. c * m = c * (2 * n) + c * b
    BY <1>2
  <2>2. c * (2 * n) = 2 * y
    BY <1>3
  <2>3. c * b = 2 * z + b
    BY <1>1, <1>3
  <2> QED BY <2>1, <2>2, <2>3
<1>5. b = 0
  BY <1>1, <1>2, <1>4
<1>6. z = 0
  BY <1>3, <1>5
<1>7. x = c * n
  BY <1>1, <1>3, <1>4, <1>5, <1>6
<1> QED BY <1>7 DEF Divides

\* The same of thirty-two times a number.
LEMMA OddDividesThirtySecond ==
  ASSUME NEW c \in Nat, Odd(c), NEW x \in Nat, Divides(c, 32 * x)
  PROVE  Divides(c, x)
<1>1. PICK y2 \in Nat, y4 \in Nat, y8 \in Nat, y16 \in Nat :
        y2 = 2 * x /\ y4 = 2 * y2 /\ y8 = 2 * y4 /\ y16 = 2 * y8
  OBVIOUS
<1>2. 32 * x = 2 * y16
  BY <1>1
<1>3. Divides(c, y16)
  BY <1>2, OddDividesHalf
<1>4. Divides(c, y8)
  BY <1>1, <1>3, OddDividesHalf
<1>5. Divides(c, y4)
  BY <1>1, <1>4, OddDividesHalf
<1>6. Divides(c, y2)
  BY <1>1, <1>5, OddDividesHalf
<1> QED BY <1>1, <1>6, OddDividesHalf

-----------------------------------------------------------------------------
(* The invariant, and what the scans find.                                 *)

UVMInv == InsertInv /\ runs \in Nat

\* A scan hits a slot of the table that holds the key.
LEMMA HitsAreSlots ==
  ASSUME NEW cells, NEW k \in Keys,
         NEW lanes \in {InsertLanes, LookupLanes},
         NEW p \in Hits(cells, Home[k], k, Sentinel, lanes)
  PROVE  /\ SlotAt(Home[k], p[1], p[2]) \in Slots
         /\ cells[SlotAt(Home[k], p[1], p[2])] = k
<1>1. /\ p \in Windows \X Lanes
      /\ cells[SlotAt(Home[k], p[1], p[2])] = k
  BY DEF Hits
<1> QED BY <1>1, SlotAtIsSlot, WindowsAreNumbers, InsertAssumption

LEMMA InitEstablishes == Init => UVMInv
BY DriverInitEstablishes DEF Init, UVMInv

-----------------------------------------------------------------------------
(* The host. *)

\* Setting the table to zero between two runs.
LEMMA NextRunPreserves ==
  ASSUME UVMInv, NextRun
  PROVE  UVMInv'
<1> USE DEF UVMInv, InsertInv
<1>1. \A g \in Groups : pc'[g] = "idle"
  BY DEF NextRun, Quiet
<1>2. \A t \in Tables, s \in Slots :
        keyAt'[t][s] = Sentinel /\ oldKeyAt'[t][s] = Sentinel
  BY DEF NextRun
<1>3. DriverTypeOK'
  <2>1. /\ keyAt' \in [Tables -> [Slots -> KeyWords]]
        /\ oldKeyAt' \in [Tables -> [Slots -> KeyWords]]
        /\ valAt' \in [Tables -> [Slots -> Values \cup {Sentinel, Tombstone}]]
    BY DEF NextRun, KeyWords
  <2> QED BY <2>1 DEF DriverTypeOK, NextRun
<1>4. OpOK' /\ PhaseOK' /\ PassedTaken' /\ AddressOK'
  BY <1>1 DEF OpOK, PhaseOK, PassedTaken, AddressOK, InsertSteps, DeleteSteps
<1>5. OldWords'
  BY <1>2 DEF OldWords, NextRun
<1>6. NoHole' /\ OneSlotPerKey'
  BY <1>2, WordsDiffer DEF NoHole, OneSlotPerKey
<1>7. runs' \in Nat
  BY DEF NextRun
<1> QED BY <1>3, <1>4, <1>5, <1>6, <1>7

LEMMA LaunchPreserves ==
  ASSUME UVMInv, LaunchInsert \/ LaunchDelete \/ LaunchSearch
  PROVE  UVMInv'
<1>1. /\ InsertInv
      /\ \A g \in Groups : pc[g] = "idle"
      /\ runs' \in Nat
  BY DEF UVMInv, LaunchInsert, LaunchDelete, LaunchSearch, Quiet
<1>2. CASE LaunchInsert
  BY <1>1, <1>2, InsertBatchPreserves DEF LaunchInsert, UVMInv
<1>3. CASE LaunchDelete
  BY <1>1, <1>3, DeleteBatchPreserves DEF LaunchDelete, UVMInv
<1>4. CASE LaunchSearch
  BY <1>1, <1>4, SearchBatchPreserves DEF LaunchSearch, UVMInv
<1> QED BY <1>2, <1>3, <1>4

-----------------------------------------------------------------------------
(* The steps of the groups. *)

LEMMA GroupStepPreserves ==
  ASSUME UVMInv, NEW g \in Groups, GroupStep(g)
  PROVE  UVMInv'
<1> USE DEF UVMInv
<1> DEFINE t == GroupTable(g)
           k == op[g].key
<1>a. /\ delStatus \in [Groups -> BOOLEAN]
      /\ srchValue \in [Groups -> Values \cup {Sentinel, Tombstone}]
      /\ valAt \in [Tables -> [Slots -> Values \cup {Sentinel, Tombstone}]]
  BY DEF InsertInv, DriverTypeOK
<1>b. pc[g] # "idle" => t = 0 /\ t \in Tables /\ k \in Keys
  BY GroupOperands, UVMAssumption DEF InsertInv
<1>1. CASE InsertBallot(g)
  BY <1>1, BallotPreserves DEF InsertBallot, insertOnly
<1>2. CASE InsertClaim(g)
  BY <1>2, ClaimPreserves DEF InsertClaim, insertOnly
<1>3. CASE InsertStore(g)
  <2>1. /\ pc[g] = "store"
        /\ pc' = [pc EXCEPT ![g] = "idle"]
        /\ UNCHANGED <<keyAt, oldKeyAt, op, win, emptyMask, addr, hostVars,
                       resultVars, runs>>
        /\ valAt' = [valAt EXCEPT ![t][addr[g]] = op[g].value]
    BY <1>3 DEF InsertStore, StoreValue, GoTo, insertOnly
  <2>2. valAt' \in [Tables -> [Slots -> Values \cup {Sentinel, Tombstone}]]
    <3>1. op[g].value \in Values \cup {Sentinel} /\ t \in Tables
      BY <2>1, GroupOperands DEF InsertInv
    <3> QED BY <1>a, <2>1, <3>1
  <2> QED BY <1>a, <2>1, <2>2, PlainStepPreserves DEF Steps, resultVars
<1>4. CASE DeleteScan(g)
  <2>1. /\ pc[g] = "delScan"
        /\ UNCHANGED <<keyAt, valAt, oldKeyAt, op, win, emptyMask, hostVars,
                       resultVars, runs>>
    BY <1>4 DEF DeleteScan
  <2>2. PICK cells \in {keyAt[0], oldKeyAt[0]} :
          LET hits == Hits(cells, Home[k], k, Sentinel, InsertLanes)
          IN  \/ \E p \in hits :
                   /\ addr' = [addr EXCEPT ![g] = SlotAt(Home[k], p[1], p[2])]
                   /\ GoTo(g, "tombstone")
              \/ hits = {} /\ GoTo(g, "idle") /\ UNCHANGED addr
    BY <1>4 DEF DeleteScan, Cells
  <2>3. CASE \E p \in Hits(cells, Home[k], k, Sentinel, InsertLanes) :
               /\ addr' = [addr EXCEPT ![g] = SlotAt(Home[k], p[1], p[2])]
               /\ GoTo(g, "tombstone")
    <3>1. PICK p \in Hits(cells, Home[k], k, Sentinel, InsertLanes) :
            /\ addr' = [addr EXCEPT ![g] = SlotAt(Home[k], p[1], p[2])]
            /\ pc' = [pc EXCEPT ![g] = "tombstone"]
      BY <2>3 DEF GoTo
    <3>2. /\ SlotAt(Home[k], p[1], p[2]) \in Slots
          /\ cells[SlotAt(Home[k], p[1], p[2])] = k
      BY <1>b, <2>1, HitsAreSlots
    <3>3. cells \in {keyAt[t], oldKeyAt[t]}
      BY <1>b, <2>1
    <3> QED BY <2>1, <3>1, <3>2, <3>3, ScanPreserves
  <2>4. CASE GoTo(g, "idle") /\ UNCHANGED addr
    BY <1>a, <2>1, <2>4, PlainStepPreserves DEF GoTo, Steps, resultVars
  <2> QED BY <2>2, <2>3, <2>4
<1>5. CASE WriteTombstone(g)
  <2>1. /\ pc[g] = "tombstone"
        /\ pc' = [pc EXCEPT ![g] = "idle"]
        /\ keyAt' = [keyAt EXCEPT ![t][addr[g]] = Tombstone]
        /\ valAt' = [valAt EXCEPT ![t][addr[g]] = Tombstone]
        /\ UNCHANGED <<oldKeyAt, op, win, emptyMask, addr, hostVars,
                       srchValue, runs>>
    BY <1>5, <1>b DEF WriteTombstone, GoTo
  <2>2. delStatus' \in [Groups -> BOOLEAN]
    BY <1>5, <1>a DEF WriteTombstone
  <2> QED BY <2>1, <2>2, TombstonePreserves
<1>6. CASE Lookup(g)
  <2>1. /\ pc[g] = "search"
        /\ pc' = [pc EXCEPT ![g] = "idle"]
        /\ UNCHANGED <<keyAt, valAt, oldKeyAt, op, win, emptyMask, addr,
                       hostVars, delStatus, runs>>
    BY <1>6 DEF Lookup, GoTo
  <2>2. LookupResult(k) \in Values \cup {Sentinel, Tombstone}
    <3> DEFINE hits == Hits(Cells, Home[k], k, Sentinel, LookupLanes)
    <3>1. CASE hits = {}
      BY <3>1 DEF LookupResult
    <3>2. CASE hits # {}
      <4> DEFINE p == CHOOSE q \in hits : TRUE
      <4>1. p \in hits
        BY <3>2
      <4>2. SlotAt(Home[k], p[1], p[2]) \in Slots
        BY <1>b, <2>1, <4>1, HitsAreSlots
      <4>3. LookupResult(k) = valAt[0][SlotAt(Home[k], p[1], p[2])]
        BY <3>2 DEF LookupResult
      <4> HIDE DEF p
      <4> QED BY <1>a, <1>b, <2>1, <4>2, <4>3
    <3> QED BY <3>1, <3>2
  <2>3. srchValue' \in [Groups -> Values \cup {Sentinel, Tombstone}]
    BY <1>6, <1>a, <2>2 DEF Lookup
  <2> QED BY <1>a, <2>1, <2>3, PlainStepPreserves DEF Steps
<1>7. runs' = runs
  BY DEF GroupStep, InsertBallot, InsertClaim, InsertStore, insertOnly,
         DeleteScan, WriteTombstone, Lookup
<1> QED BY <1>1, <1>2, <1>3, <1>4, <1>5, <1>6, <1>7 DEF GroupStep

LEMMA StutterPreserves ==
  ASSUME UVMInv, UNCHANGED vars
  PROVE  UVMInv'
<1>1. UNCHANGED <<insertVars, hostVars, delStatus, srchValue, runs>>
  BY DEF vars, resultVars
<1>2. /\ delStatus \in [Groups -> BOOLEAN]
      /\ srchValue \in [Groups -> Values \cup {Sentinel, Tombstone}]
  BY DEF UVMInv, InsertInv, DriverTypeOK
<1> QED BY <1>1, <1>2, ResultStepPreserves DEF UVMInv

-----------------------------------------------------------------------------
(* The theorems. *)

LEMMA NextPreserves == UVMInv /\ [Next]_vars => UVMInv'
<1> SUFFICES ASSUME UVMInv, [Next]_vars
             PROVE  UVMInv'
  OBVIOUS
<1>1. CASE LaunchInsert \/ LaunchDelete \/ LaunchSearch
  BY <1>1, LaunchPreserves
<1>2. CASE NextRun
  BY <1>2, NextRunPreserves
<1>3. CASE \E g \in Groups : GroupStep(g)
  BY <1>3, GroupStepPreserves
<1>4. CASE Finished \/ UNCHANGED vars
  BY <1>4, StutterPreserves DEF Finished
<1> QED BY <1>1, <1>2, <1>3, <1>4 DEF Next

\* Every reachable state satisfies the inductive invariant.
THEOREM Invariant == Spec => []UVMInv
BY InitEstablishes, NextPreserves, PTL DEF Spec

\* Every variable keeps its type: no group ever addresses a slot outside the
\* table.
THEOREM TypeCorrect == Spec => []TypeOK
<1>1. UVMInv => TypeOK
  BY DEF UVMInv, InsertInv, TypeOK
<1> QED BY <1>1, Invariant, PTL

\* No key ever sits behind a free slot of its probe sequence
\* (insertgpuimpl_CG), so lookups and deletes may stop at a free slot.
THEOREM NoHoleAlways == Spec => []NoHole
<1>1. UVMInv => NoHole
  BY DEF UVMInv, InsertInv
<1> QED BY <1>1, Invariant, PTL

\* No two slots ever hold the same key, whatever groups race.
THEOREM KeysAreUnique == Spec => []OneSlotPerKey
<1>1. UVMInv => OneSlotPerKey
  BY DEF UVMInv, InsertInv
<1> QED BY <1>1, Invariant, PTL

\* The address a group stores its value through is the address of its key.
THEOREM AddressesAreRight == Spec => []ValueAddressIsOfKey
<1>1. UVMInv => ValueAddressIsOfKey
  BY DEF UVMInv, InsertInv, AddressOK, ValueAddressIsOfKey
<1> QED BY <1>1, Invariant, PTL

-----------------------------------------------------------------------------
(* The flat table implements the map: the inductive invariant.  The        *)
(* theorems below take the steps of the kernels and of the host one by     *)
(* one, as steps of BatchMap.                                              *)

\* The inserts of a run.
Inserts == MaxInserts * BatchSize

\* The slots that are not free, and the groups that are still to put their key.
Taken == {s \in Slots : Cells[s] # Sentinel}
Trying == {g \in Groups : pc[g] \in {"probe", "claim"}}

\* No more slots are taken than inserts were asked for, or than there are keys.
SlotsCounted ==
  /\ Cardinality(Taken) <= Inserts
  /\ IsFiniteSet(Keys) => Cardinality(Taken) <= Cardinality(Keys)
  /\ phase = "insert" =>
       /\ launched <= MaxInserts
       /\ Cardinality(Taken) + Cardinality(Trying) <= launched * BatchSize
       /\ \A s \in Slots : Cells[s] # Tombstone

\* A key has a value, or a group that will store one.
ValuesWritten ==
  /\ \A s \in Slots :
       /\ Cells[s] = Sentinel => valAt[0][s] = Sentinel
       /\ Cells[s] \in Keys =>
            \/ valAt[0][s] # Sentinel
            \/ \E g \in Groups : pc[g] = "store" /\ op[g].key = Cells[s]
  /\ \A g \in Groups : pc[g] \in InsertSteps => op[g].value \in Values

\* What the scans of a delete kernel may see: the table at launch, where every key had
\* one slot, and whose free slots stay free.
OldScans ==
  phase = "delete" =>
    /\ \A s \in Slots : oldKeyAt[0][s] = Sentinel => Cells[s] = Sentinel
    /\ \A s1, s2 \in Slots :
         oldKeyAt[0][s1] = oldKeyAt[0][s2] /\ oldKeyAt[0][s1] \in Keys => s1 = s2
    /\ \A g \in Groups : pc[g] = "tombstone" => oldKeyAt[0][addr[g]] = op[g].key

\* Lookups run in search kernels.
SearchPhase == \A g \in Groups : pc[g] = "search" => phase = "search"

MapInv == SlotsCounted /\ ValuesWritten /\ OldScans /\ SearchPhase

\* The windows of a group narrower than the stride are all different, and lookups,
\* which leave GroupSize windows early, go far enough.
UVMRoomy ==
  \/ Stride <= GroupSize
  \/ /\ \A home \in Slots, v, w \in Windows :
          SlotAt(home, v, 0) = SlotAt(home, w, 0) => v = w
     /\ \/ Inserts + GroupSize <= Capacity
        \/ IsFiniteSet(Keys) /\ Cardinality(Keys) + GroupSize <= Capacity

-----------------------------------------------------------------------------
(* The windows of an insert reach every slot, or enough of them. *)

LEMMA TableHasRoom ==
  /\ 0 \in Tables /\ Tables = {0}
  /\ Inserts \in Nat /\ Capacity \in Nat \ {0} /\ Inserts < Capacity
<1>1. PICK i \in Nat, c \in Nat \ {0}, m \in Nat, b \in Nat :
        /\ m = MaxInserts /\ b = BatchSize /\ i = m * b /\ c = Capacity
        /\ 10 * m * b <= 9 * c
  BY ProbeAssumption, InsertAssumption, DriverAssumption, UVMAssumption
<1>2. 10 * m * b = 10 * i
  BY <1>1
<1>3. i < c
  BY <1>1, <1>2
<1> QED BY <1>1, <1>3, UVMAssumption DEF Inserts

\* When the windows overlap or touch, every slot is in one of them.
LEMMA WindowsCover ==
  ASSUME Stride <= GroupSize, NEW home \in Slots, NEW s \in Slots
  PROVE  \E w \in Windows : \E r \in InsertLanes[w] : SlotAt(home, w, r) = s
<1>1. /\ Stride \in Nat \ {0} /\ GroupSize \in Nat \ {0} /\ Capacity \in Nat \ {0}
      /\ home \in Nat
  BY ProbeAssumption, WindowsAreNumbers
<1>2. PICK o \in 0 .. Capacity - 1 : AtOffset(home, o) = s
  BY SlotHasOffset
<1>3. o \in Nat /\ o <= Capacity
  BY <1>1
<1>4. PICK w \in Nat, r \in 0 .. Stride - 1 :
        w = o \div Stride /\ o = (w * Stride) + r
  <2>1. /\ o \div Stride \in Nat /\ o % Stride \in 0 .. Stride - 1
        /\ o = ((o \div Stride) * Stride) + (o % Stride)
    BY <1>1, <1>3, DivisionExists
  <2> QED BY <2>1
<1>5. w \in Windows
  <2>1. w <= Capacity \div Stride
    BY <1>1, <1>3, <1>4, DivisionMonotone
  <2>2. Capacity \div Stride \in Nat
    BY <1>1, DivisionExists
  <2> QED BY <2>1, <2>2 DEF Windows, NumWindows
<1>6. r \in InsertLanes[w]
  <2>1. r \in Lanes
    BY <1>1 DEF Lanes
  <2>2. ~(Stride > GroupSize)
    BY <1>1
  <2> QED BY <1>5, <2>1, <2>2 DEF InsertLanes, AllLanes
<1>7. SlotAt(home, w, r) = s
  <2>1. PICK m \in Nat : m = w * Stride
    BY <1>1
  <2>2. home + m + r = home + (m + r)
    BY <1>1
  <2> QED BY <1>2, <1>4, <2>1, <2>2 DEF AtOffset, SlotAt
<1> QED BY <1>5, <1>6, <1>7

\* When they do not, there are as many windows as slots, and lane 0 sees another slot
\* in each.
LEMMA WindowsDiffer ==
  ASSUME UVMRoomy, ~(Stride <= GroupSize)
  PROVE  /\ NumWindows = Capacity /\ Windows = 0 .. Capacity - 1
         /\ 0 \in Lanes /\ \A w \in Windows : 0 \in InsertLanes[w]
         /\ \A home \in Slots, v, w \in Windows :
              SlotAt(home, v, 0) = SlotAt(home, w, 0) => v = w
<1>1. /\ Stride \in Nat \ {0} /\ GroupSize \in Nat \ {0} /\ Capacity \in Nat \ {0}
  BY ProbeAssumption
<1>2. NumWindows = Capacity /\ Windows = 0 .. Capacity - 1
  BY DEF NumWindows, Windows
<1>3. 0 \in Lanes
  BY <1>1 DEF Lanes
<1>4. ASSUME NEW w \in Windows
      PROVE  0 \in InsertLanes[w]
  <2>1. w + 0 < NumWindows
    BY <1>1, <1>2
  <2> QED BY <1>1, <1>3, <2>1 DEF InsertLanes, EarlyLanes
<1> QED BY <1>2, <1>3, <1>4 DEF UVMRoomy

LEMMA TakenIsFinite ==
  /\ Taken \subseteq Slots
  /\ IsFiniteSet(Taken) /\ Cardinality(Taken) \in Nat
  /\ IsFiniteSet(Trying) /\ Cardinality(Trying) \in Nat /\ Cardinality(Trying) <= BatchSize
<1>1. Taken \in SUBSET Slots /\ Trying \in SUBSET Groups
  BY DEF Taken, Trying
<1> QED BY <1>1, TableIsFinite, FS_Subset, FS_CardinalityType

\* As many windows as one likes, each with a slot of its own among those in S: no more
\* windows than slots in S.
LEMMA WindowsInSlots ==
  ASSUME UVMRoomy, ~(Stride <= GroupSize), NEW home \in Slots,
         NEW w \in Nat, w <= Capacity, NEW S, IsFiniteSet(S),
         \A v \in 0 .. w - 1 : SlotAt(home, v, 0) \in S
  PROVE  w <= Cardinality(S)
<1> DEFINE f == [v \in 0 .. w - 1 |-> SlotAt(home, v, 0)]
<1>1. Capacity \in Nat
  BY TableHasRoom
<1>2. \A v \in 0 .. w - 1 : v \in Windows
  BY <1>1, WindowsDiffer
<1>3. f \in [0 .. w - 1 -> S] /\ \A a, b \in 0 .. w - 1 : f[a] = f[b] => a = b
  BY <1>2, WindowsDiffer
<1> HIDE DEF f
<1>4. f \in Injection(0 .. w - 1, S)
  BY <1>3 DEF Injection, IsInjective
<1>5. Cardinality(0 .. w - 1) <= Cardinality(S)
  BY <1>4, FS_Injection
<1> QED BY <1>5, NumbersBelow

\* A table has room for the keys of a run, so a group that has given up on every slot of
\* a window has a next one.
LEMMA NeverFull ==
  ASSUME UVMRoomy, UVMInv, SlotsCounted, NEW g \in Groups, pc[g] \in {"probe", "claim"},
         \A r \in InsertLanes[win[g]] : TakenByOther(g, LaneSlot(g, r))
  PROVE  win[g] + 1 \in Windows
<1>1. SUFFICES ASSUME win[g] + 1 \notin Windows
               PROVE  FALSE
  OBVIOUS
<1>2. PICK home \in Slots : home = Home[op[g].key]
  BY GroupOperands DEF UVMInv, InsertInv
<1>3. GroupTable(g) = 0 /\ win[g] \in Windows
  BY GroupOperands, UVMAssumption DEF UVMInv, InsertInv, OpOK
<1>4. \A w \in Windows : w < win[g] + 1
  BY <1>1, <1>3, WindowsAreNumbers DEF Windows
<1>5. \A w \in Windows : \A r \in InsertLanes[w] : SlotAt(home, w, r) \in Taken
  <2> SUFFICES ASSUME NEW w \in Windows, NEW r \in InsertLanes[w]
               PROVE  SlotAt(home, w, r) \in Taken
    OBVIOUS
  <2>1. Cells[SlotAt(home, w, r)] # Sentinel
    BY <1>2, <1>3, <1>4, NextWindowPassed DEF UVMInv, TakenByOther, Cells
  <2>2. SlotAt(home, w, r) \in Slots
    BY SlotAtIsSlot, InsertLanesAreLanes, WindowsAreNumbers
  <2> QED BY <2>1, <2>2 DEF Taken
<1>6. Cardinality(Taken) <= Inserts /\ Cardinality(Taken) \in Nat
  BY TakenIsFinite DEF SlotsCounted
<1>7. Capacity <= Cardinality(Taken)
  <2>1. CASE Stride <= GroupSize
    <3>1. Slots \subseteq Taken
      BY <1>5, <2>1, WindowsCover
    <3>2. Slots = Taken
      BY <3>1, TakenIsFinite
    <3> QED BY <3>2, TableIsFinite, TableHasRoom
  <2>2. CASE ~(Stride <= GroupSize)
    <3>1. \A v \in 0 .. Capacity - 1 : v \in Windows /\ 0 \in InsertLanes[v]
      BY <2>2, WindowsDiffer
    <3>2. \A v \in 0 .. Capacity - 1 : SlotAt(home, v, 0) \in Taken
      BY <1>5, <3>1
    <3> QED BY <2>2, <3>2, WindowsInSlots, TakenIsFinite, TableHasRoom
  <2> QED BY <2>1, <2>2
<1> QED BY <1>6, <1>7, TableHasRoom

-----------------------------------------------------------------------------
(* The steps of an insert kernel. *)

\* The three kinds of steps of an insert: it goes on looking or has found its key, puts
\* its key into a free slot, or stores its value and is through.
Looks(g) ==
  /\ pc[g] \in {"probe", "claim"}
  /\ \E to \in {"probe", "claim", "store"} : pc' = [pc EXCEPT ![g] = to]
  /\ UNCHANGED <<keyAt, valAt>>

Puts(g) ==
  /\ pc[g] = "claim" /\ pc' = [pc EXCEPT ![g] = "store"]
  /\ \E s \in Slots : /\ Cells[s] = Sentinel
                      /\ keyAt' = [keyAt EXCEPT ![0][s] = op[g].key]
  /\ UNCHANGED valAt

Stores(g) ==
  /\ pc[g] = "store" /\ pc' = [pc EXCEPT ![g] = "idle"]
  /\ valAt' = [valAt EXCEPT ![0][addr[g]] = op[g].value]
  /\ UNCHANGED keyAt

\* No insert gives up for want of room.
LEMMA InsertKinds ==
  ASSUME UVMRoomy, UVMInv, SlotsCounted, NEW g \in Groups,
         InsertBallot(g) \/ InsertClaim(g) \/ InsertStore(g)
  PROVE  /\ Looks(g) \/ Puts(g) \/ Stores(g)
         /\ InsertStore(g) <=> Stores(g)
         /\ phase = "insert" /\ op[g].key \in Keys /\ addr[g] \in Slots
         /\ UNCHANGED <<op, oldKeyAt, hostVars, resultVars, runs>>
<1>0. pc \in [Groups -> Steps] /\ addr[g] \in Slots
  BY DEF UVMInv, InsertInv, DriverTypeOK
<1>1. pc[g] \in {"probe", "claim", "store"}
  BY DEF InsertBallot, Ballot, InsertClaim, Claim, InsertStore, StoreValue
<1>2. /\ phase = "insert" /\ op[g].key \in Keys /\ GroupTable(g) = 0
      /\ \A r \in Lanes : LaneSlot(g, r) \in Slots
  BY <1>1, GroupOperands, UVMAssumption DEF UVMInv, InsertInv, PhaseOK, InsertSteps
<1>3. UNCHANGED <<op, oldKeyAt, hostVars, resultVars, runs>>
  BY DEF InsertBallot, Ballot, InsertClaim, Claim, InsertStore, StoreValue, insertOnly
<1>4. ASSUME pc[g] \in {"probe", "claim"}, NextWindow(g, "idle"), UNCHANGED <<keyAt, valAt>>,
             \A r \in InsertLanes[win[g]] : TakenByOther(g, LaneSlot(g, r))
      PROVE  Looks(g)
  <2>1. win[g] + 1 \in Windows
    BY <1>4, NeverFull
  <2> QED BY <1>4, <2>1 DEF NextWindow, GoTo, Looks
<1>5. CASE InsertStore(g)
  <2>1. Stores(g)
    BY <1>2, <1>5 DEF InsertStore, StoreValue, Stores, GoTo
  <2> QED BY <1>0, <1>2, <1>3, <1>5, <2>1
<1>6. CASE InsertBallot(g)
  <2>1. pc[g] = "probe" /\ UNCHANGED <<keyAt, valAt>>
    BY <1>6 DEF InsertBallot, Ballot
  <2>2. PICK seen \in [InsertLanes[win[g]] -> KeyWords] :
          /\ \A r \in InsertLanes[win[g]] :
               seen[r] \in {keyAt[GroupTable(g)][LaneSlot(g, r)],
                            oldKeyAt[GroupTable(g)][LaneSlot(g, r)]}
          /\ \/ GoTo(g, "store")
             \/ GoTo(g, "claim")
             \/ /\ \A r \in InsertLanes[win[g]] : seen[r] \notin {Sentinel, op[g].key}
                /\ NextWindow(g, "idle")
    BY <1>6 DEF InsertBallot, Ballot
  <2>3. \A r \in InsertLanes[win[g]] :
          seen[r] \notin {Sentinel, op[g].key} => TakenByOther(g, LaneSlot(g, r))
    BY <2>1, <2>2, BallotSees DEF UVMInv
  <2>4. Looks(g)
    <3>1. CASE GoTo(g, "store") \/ GoTo(g, "claim")
      BY <2>1, <3>1 DEF GoTo, Looks
    <3> QED BY <1>4, <2>1, <2>2, <2>3, <3>1
  <2>5. ~InsertStore(g) /\ ~Stores(g)
    BY <2>1 DEF InsertStore, StoreValue, Stores
  <2> QED BY <1>0, <1>2, <1>3, <2>4, <2>5
<1>7. CASE InsertClaim(g)
  <2>1. pc[g] = "claim" /\ UNCHANGED valAt
    BY <1>7 DEF InsertClaim, Claim
  <2>2. PICK r \in emptyMask[g] :
          \/ /\ keyAt[GroupTable(g)][LaneSlot(g, r)] = Sentinel
             /\ keyAt' = [keyAt EXCEPT ![GroupTable(g)][LaneSlot(g, r)] = op[g].key]
             /\ GoTo(g, "store")
          \/ GoTo(g, "store") /\ UNCHANGED keyAt
          \/ /\ keyAt[GroupTable(g)][LaneSlot(g, r)] \notin {Sentinel, op[g].key}
             /\ IF emptyMask[g] = {r} THEN NextWindow(g, "idle") ELSE UNCHANGED <<win, pc>>
             /\ UNCHANGED keyAt
    BY <1>7 DEF InsertClaim, Claim, Duplicate
  <2>3. LaneSlot(g, r) \in Slots
    <3>1. emptyMask[g] \subseteq InsertLanes[win[g]] /\ win[g] \in Windows
      BY <2>1 DEF UVMInv, InsertInv, OpOK
    <3> QED BY <1>2, <2>2, <3>1, InsertLanesAreLanes
  <2>4. ASSUME keyAt[GroupTable(g)][LaneSlot(g, r)] = Sentinel, GoTo(g, "store"),
               keyAt' = [keyAt EXCEPT ![GroupTable(g)][LaneSlot(g, r)] = op[g].key]
        PROVE  Puts(g)
    BY <1>2, <2>1, <2>3, <2>4 DEF Puts, GoTo, Cells
  <2>5. ASSUME GoTo(g, "store"), UNCHANGED keyAt
        PROVE  Looks(g)
    BY <2>1, <2>5 DEF Looks, GoTo
  <2>6. ASSUME keyAt[GroupTable(g)][LaneSlot(g, r)] \notin {Sentinel, op[g].key},
               IF emptyMask[g] = {r} THEN NextWindow(g, "idle") ELSE UNCHANGED <<win, pc>>,
               UNCHANGED keyAt
        PROVE  Looks(g)
    <3>1. CASE emptyMask[g] = {r}
      <4>1. \A q \in InsertLanes[win[g]] \ emptyMask[g] : TakenByOther(g, LaneSlot(g, q))
        BY <2>1 DEF UVMInv, InsertInv, PassedTaken
      <4>2. \A q \in InsertLanes[win[g]] : TakenByOther(g, LaneSlot(g, q))
        BY <2>6, <3>1, <4>1 DEF TakenByOther
      <4> QED BY <1>4, <2>1, <2>6, <3>1, <4>2
    <3>2. CASE emptyMask[g] # {r}
      <4>1. pc' = [pc EXCEPT ![g] = "claim"]
        BY <1>0, <2>1, <2>6, <3>2
      <4> QED BY <2>1, <2>6, <4>1 DEF Looks
    <3> QED BY <3>1, <3>2
  <2>7. Looks(g) \/ Puts(g)
    BY <2>2, <2>4, <2>5, <2>6
  <2>8. ~InsertStore(g) /\ ~Stores(g)
    BY <2>1 DEF InsertStore, StoreValue, Stores
  <2> QED BY <1>0, <1>2, <1>3, <2>7, <2>8
<1> QED BY <1>5, <1>6, <1>7

-----------------------------------------------------------------------------
(* Scans find the keys of the table. *)

\* A key in the table is where an insert, and a delete, finds it.
LEMMA KeysAreReached ==
  ASSUME UVMInv, NEW s \in Slots, NEW k \in Keys, Cells[s] = k
  PROVE  \E w \in Windows : \E r \in InsertLanes[w] :
           /\ s = SlotAt(Home[k], w, r)
           /\ \A v \in Windows : \A q \in InsertLanes[v] :
                Before(v, q, w, r) => Cells[SlotAt(Home[k], v, q)] # Sentinel
BY TableHasRoom DEF UVMInv, InsertInv, NoHole, Cells

\* A lookup finds it too: there are fewer windows before it than slots are taken.
LEMMA LookupsReach ==
  ASSUME UVMRoomy, UVMInv, SlotsCounted, NEW s \in Slots, NEW k \in Keys, Cells[s] = k
  PROVE  ReachedBy(LookupLanes, Cells, k)
<1> DEFINE Sees(w, r) == s = SlotAt(Home[k], w, r)
           Clear(w, r) == \A v \in Windows : \A q \in InsertLanes[v] :
                            Before(v, q, w, r) => Cells[SlotAt(Home[k], v, q)] # Sentinel
<1>1. PICK w0 \in Windows, r0 \in Lanes :
        r0 \in InsertLanes[w0] /\ Sees(w0, r0) /\ Clear(w0, r0)
  BY KeysAreReached, InsertLanesAreLanes
<1>2. CASE Stride <= GroupSize
  <2>1. ~(Stride > GroupSize)
    BY <1>2, ProbeAssumption
  <2>2. \A w \in Windows : LookupLanes[w] = InsertLanes[w]
    BY <1>2, <2>1 DEF LookupLanes, InsertLanes, AllLanes
  <2> QED BY <1>1, <2>2 DEF ReachedBy
<1>3. CASE ~(Stride <= GroupSize)
  <2> DEFINE Seen == {w \in Windows : w <= w0 /\ \E r \in InsertLanes[w] : Sees(w, r)}
  <2>1. PICK w1 \in Seen : \A v \in Seen : w1 <= v
    <3>1. w0 \in Nat /\ Seen \in SUBSET Nat
      BY WindowsAreNumbers
    <3>2. w0 <= w0
      BY <3>1
    <3>3. w0 \in Seen
      BY <1>1, <3>2
    <3> HIDE DEF Seen
    <3> QED BY <3>1, <3>3, LeastNatural
  <2>2. w1 \in Windows /\ w1 <= w0 /\ w0 \in Nat /\ w1 \in Nat /\ Home[k] \in Slots
    BY <1>1, <2>1, WindowsAreNumbers, InsertAssumption
  <2>3. PICK r1 \in InsertLanes[w1] : Sees(w1, r1) /\ Clear(w1, r1)
    <3>1. CASE w1 = w0
      BY <1>1, <3>1
    <3>2. CASE w1 < w0
      <4>1. PICK r \in InsertLanes[w1] : Sees(w1, r)
        BY <2>1
      <4>2. \A v \in Windows : \A q : Before(v, q, w1, r) => Before(v, q, w0, r0)
        BY <2>2, <3>2, WindowsAreNumbers DEF Before
      <4> QED BY <1>1, <4>1, <4>2
    <3> QED BY <2>2, <3>1, <3>2
  <2> DEFINE Others == Taken \ {s}
  <2>4. s \in Taken /\ IsFiniteSet(Others) /\ Cardinality(Others) = Cardinality(Taken) - 1
    <3>1. s \in Taken
      BY WordsDiffer DEF Taken
    <3> QED BY <3>1, TakenIsFinite, FS_RemoveElement
  <2>5. \A v \in 0 .. w1 - 1 : SlotAt(Home[k], v, 0) \in Others
    <3> SUFFICES ASSUME NEW v \in 0 .. w1 - 1
                 PROVE  SlotAt(Home[k], v, 0) \in Others
      OBVIOUS
    <3>1. v \in Windows /\ v \in Nat /\ v < w1
      BY <1>3, <2>2, WindowsDiffer, TableHasRoom
    <3>2. 0 \in InsertLanes[v] /\ SlotAt(Home[k], v, 0) \in Slots
      BY <1>3, <2>2, <3>1, WindowsDiffer, SlotAtIsSlot
    <3>3. SlotAt(Home[k], v, 0) # s
      BY <2>1, <2>2, <3>1, <3>2
    <3>4. Cells[SlotAt(Home[k], v, 0)] # Sentinel
      BY <2>3, <3>1, <3>2 DEF Before
    <3> QED BY <3>2, <3>3, <3>4 DEF Taken
  <2>6. w1 + 1 <= Cardinality(Taken) /\ Cardinality(Taken) \in Nat
    <3>1. w1 <= Capacity
      BY <1>3, <2>2, WindowsDiffer, TableHasRoom
    <3> HIDE DEF Others
    <3>2. w1 <= Cardinality(Others)
      BY <1>3, <2>2, <2>4, <2>5, <3>1, WindowsInSlots
    <3> QED BY <2>2, <2>4, <3>2, TakenIsFinite
  <2>7. w1 + GroupSize < NumWindows /\ NumWindows = Capacity /\ GroupSize \in Nat
    <3>1. NumWindows = Capacity /\ GroupSize \in Nat
      BY <1>3, WindowsDiffer, ProbeAssumption
    <3>2. CASE Inserts + GroupSize <= Capacity
      BY <2>2, <2>6, <3>1, <3>2, TableHasRoom DEF SlotsCounted
    <3>3. CASE IsFiniteSet(Keys) /\ Cardinality(Keys) + GroupSize <= Capacity
      BY <2>2, <2>6, <3>1, <3>3, TableHasRoom, FS_CardinalityType DEF SlotsCounted
    <3> QED BY <1>3, <3>1, <3>2, <3>3 DEF UVMRoomy
  <2>8. \A v \in Windows : v <= w1 => LookupLanes[v] = Lanes /\ InsertLanes[v] = Lanes
    <3> SUFFICES ASSUME NEW v \in Windows, v <= w1
                 PROVE  LookupLanes[v] = Lanes /\ InsertLanes[v] = Lanes
      OBVIOUS
    <3>1. v \in Nat /\ v + GroupSize < NumWindows /\ NumWindows \in Nat
      BY <2>2, <2>7, WindowsAreNumbers
    <3>2. \A r \in Lanes : v + r < NumWindows
      BY <2>7, <3>1 DEF Lanes
    <3>3. Stride > GroupSize
      BY <1>3, ProbeAssumption
    <3> QED BY <3>1, <3>2, <3>3 DEF LookupLanes, InsertLanes, EarlyLanes
  <2>9. r1 \in LookupLanes[w1] /\ w1 <= w1
    BY <2>2, <2>3, <2>8
  <2>10. \A v \in Windows : \A q \in LookupLanes[v] :
           Before(v, q, w1, r1) => Cells[SlotAt(Home[k], v, q)] # Sentinel
    <3> SUFFICES ASSUME NEW v \in Windows, NEW q \in LookupLanes[v], Before(v, q, w1, r1)
                 PROVE  Cells[SlotAt(Home[k], v, q)] # Sentinel
      OBVIOUS
    <3>1. v <= w1
      BY <2>2, WindowsAreNumbers DEF Before
    <3> QED BY <2>3, <2>8, <3>1
  <2> QED BY <2>2, <2>3, <2>9, <2>10 DEF ReachedBy
<1> QED BY <1>2, <1>3

LEMMA LookupLanesAreLanes == \A w \in Windows : LookupLanes[w] \subseteq Lanes
BY DEF LookupLanes

\* So a lookup or a delete that hits nothing works on a key that is not in the table.
LEMMA LookupsFind ==
  ASSUME UVMRoomy, UVMInv, SlotsCounted, NEW k \in Keys,
         Hits(Cells, Home[k], k, Sentinel, LookupLanes) = {}
  PROVE  \A s \in Slots : Cells[s] # k
BY LookupsReach, LookupLanesAreLanes, ScanFinds, WordsDiffer

\* A delete may see the slots as they were at the launch: none was free that is not
\* free now, and a key that is still there was there.
LEMMA DeletesFind ==
  ASSUME UVMInv, OldScans, phase = "delete", NEW k \in Keys,
         NEW cells \in {Cells, oldKeyAt[0]},
         Hits(cells, Home[k], k, Sentinel, InsertLanes) = {}
  PROVE  \A s \in Slots : Cells[s] # k
<1> SUFFICES ASSUME NEW s \in Slots, Cells[s] = k
             PROVE  FALSE
  OBVIOUS
<1>1. PICK w \in Windows, r \in Lanes :
        /\ r \in InsertLanes[w] /\ s = SlotAt(Home[k], w, r)
        /\ \A v \in Windows : \A q \in InsertLanes[v] :
             Before(v, q, w, r) => Cells[SlotAt(Home[k], v, q)] # Sentinel
  BY KeysAreReached, InsertLanesAreLanes
<1>2. \A v \in Windows : \A q \in InsertLanes[v] : SlotAt(Home[k], v, q) \in Slots
  BY SlotAtIsSlot, InsertLanesAreLanes, WindowsAreNumbers, InsertAssumption
<1>3. \A x \in Slots : Cells[x] # Sentinel => cells[x] # Sentinel
  BY DEF OldScans
<1>4. cells[s] = k
  BY WordsDiffer, TableHasRoom DEF UVMInv, InsertInv, OldWords, Cells
<1>5. ReachedBy(InsertLanes, cells, k)
  BY <1>1, <1>2, <1>3, <1>4 DEF ReachedBy
<1> QED BY <1>5, InsertLanesAreLanes, ScanFinds, WordsDiffer

-----------------------------------------------------------------------------
(* The taken slots are counted. *)

\* What the count needs of a step of an insert kernel or of the launch of one.  During the
\* inserts the slots hold different keys, so there are no more of them than keys.
LEMMA CountGoesOn ==
  ASSUME UVMInv', phase' = "insert", launched' \in Nat, launched' <= MaxInserts,
         (Cardinality(Taken) + Cardinality(Trying) <= launched * BatchSize)',
         (\A s \in Slots : Cells[s] # Tombstone)'
  PROVE  SlotsCounted'
<1>1. IsFiniteSet(Keys) => Cardinality(Taken') <= Cardinality(Keys)
  <2> DEFINE f == [s \in Taken' |-> keyAt'[0][s]]
  <2>1. \A s \in Taken' : keyAt'[0][s] \in Keys
    BY TableHasRoom DEF Taken, Cells, UVMInv, InsertInv, DriverTypeOK, KeyWords
  <2>2. f \in [Taken' -> Keys] /\ \A a, b \in Taken' : f[a] = f[b] => a = b
    BY <2>1, TableHasRoom DEF Taken, Cells, UVMInv, InsertInv, OneSlotPerKey
  <2> HIDE DEF f
  <2>3. f \in Injection(Taken', Keys)
    BY <2>2 DEF Injection, IsInjective
  <2> QED BY <2>3, FS_Injection
<1>2. Cardinality(Taken') <= Inserts
  <2>1. PICK l \in Nat, m \in Nat, b \in Nat, i \in Nat :
          /\ l = launched' /\ m = MaxInserts /\ b = BatchSize /\ i = l * b
          /\ l <= m /\ i <= m * b
    <3>1. launched' \in Nat /\ MaxInserts \in Nat /\ BatchSize \in Nat
      BY InsertAssumption, DriverAssumption
    <3>2. \A l, m, b \in Nat : l <= m => l * b <= m * b
      <4> SUFFICES ASSUME NEW l \in Nat, NEW m \in Nat, NEW b \in Nat, l <= m
                   PROVE  l * b <= m * b
        OBVIOUS
      <4>1. PICK e \in Nat : m = l + e
        <5>1. m - l \in Nat /\ m = l + (m - l)
          OBVIOUS
        <5> QED BY <5>1
      <4>2. m * b = l * b + e * b /\ e * b \in Nat
        BY <4>1
      <4> QED BY <4>2
    <3> QED BY <3>1, <3>2
  <2>2. Cardinality(Taken') \in Nat /\ Cardinality(Trying') \in Nat
    <3>1. Taken' \in SUBSET Slots /\ Trying' \in SUBSET Groups
      BY DEF Taken, Trying
    <3> QED BY <3>1, TableIsFinite, FS_Subset, FS_CardinalityType
  <2>3. Cardinality(Taken') + Cardinality(Trying') <= i
    BY <2>1
  <2>4. Cardinality(Taken') <= i /\ i \in Nat /\ Inserts \in Nat
    BY <2>2, <2>3, TableHasRoom
  <2>5. Inserts = m * b
    BY <2>1 DEF Inserts
  <2> QED BY <2>1, <2>2, <2>4, <2>5
<1> QED BY <1>1, <1>2 DEF SlotsCounted

LEMMA InsertKeepsCount ==
  ASSUME UVMRoomy, UVMInv, UVMInv', SlotsCounted, NEW g \in Groups,
         InsertBallot(g) \/ InsertClaim(g) \/ InsertStore(g)
  PROVE  SlotsCounted'
<1>1. /\ Looks(g) \/ Puts(g) \/ Stores(g)
      /\ phase = "insert" /\ op[g].key \in Keys
      /\ phase' = "insert" /\ launched' = launched /\ launched \in Nat
  BY InsertKinds DEF hostVars, UVMInv, InsertInv, DriverTypeOK
<1>2. /\ launched <= MaxInserts
      /\ Cardinality(Taken) + Cardinality(Trying) <= launched * BatchSize
      /\ \A s \in Slots : Cells[s] # Tombstone
  BY <1>1 DEF SlotsCounted
<1>3. /\ IsFiniteSet(Taken) /\ Cardinality(Taken) \in Nat
      /\ IsFiniteSet(Trying) /\ Cardinality(Trying) \in Nat
      /\ launched * BatchSize \in Nat
  BY <1>1, TakenIsFinite, InsertAssumption
<1>4. pc \in [Groups -> Steps] /\ keyAt \in [Tables -> [Slots -> KeyWords]]
  BY DEF UVMInv, InsertInv, DriverTypeOK
<1>5. CASE Looks(g) \/ Stores(g)
  <2>1. keyAt' = keyAt /\ Taken' = Taken
    BY <1>5 DEF Looks, Stores, Taken, Cells
  <2>2. Trying' \subseteq Trying
    BY <1>4, <1>5 DEF Looks, Stores, Trying
  <2>3. Cardinality(Trying') <= Cardinality(Trying) /\ Cardinality(Trying') \in Nat
    BY <1>3, <2>2, FS_Subset, FS_CardinalityType
  <2>4. (Cardinality(Taken) + Cardinality(Trying) <= launched * BatchSize)'
    BY <1>1, <1>2, <1>3, <2>1, <2>3
  <2>5. (\A s \in Slots : Cells[s] # Tombstone)'
    BY <1>2, <2>1 DEF Cells
  <2> QED BY <1>1, <1>2, <2>4, <2>5, CountGoesOn
<1>6. CASE Puts(g)
  <2>1. PICK s \in Slots : Cells[s] = Sentinel /\ keyAt' = [keyAt EXCEPT ![0][s] = op[g].key]
    BY <1>6 DEF Puts
  <2>2. Taken' = Taken \cup {s} /\ s \notin Taken
    BY <1>1, <1>4, <2>1, TableHasRoom, WordsDiffer DEF Taken, Cells
  <2>3. Trying' = Trying \ {g} /\ g \in Trying
    BY <1>4, <1>6 DEF Puts, Trying
  <2>4. /\ Cardinality(Taken') = Cardinality(Taken) + 1
        /\ Cardinality(Trying') = Cardinality(Trying) - 1
    BY <1>3, <2>2, <2>3, FS_AddElement, FS_RemoveElement
  <2>5. (Cardinality(Taken) + Cardinality(Trying) <= launched * BatchSize)'
    BY <1>1, <1>2, <1>3, <2>4
  <2>6. (\A x \in Slots : Cells[x] # Tombstone)'
    BY <1>1, <1>2, <1>4, <2>1, TableHasRoom, WordsDiffer DEF Cells
  <2> QED BY <1>1, <1>2, <2>5, <2>6, CountGoesOn
<1> QED BY <1>1, <1>5, <1>6

LEMMA LaunchKeepsCount ==
  ASSUME UVMInv, UVMInv', SlotsCounted, LaunchInsert \/ LaunchDelete \/ LaunchSearch
  PROVE  SlotsCounted'
<1>1. UNCHANGED keyAt /\ Taken' = Taken
  BY DEF LaunchInsert, LaunchDelete, LaunchSearch, InsertBatch, DeleteBatch, SearchBatch,
         StartKernel, Taken, Cells
<1>2. CASE LaunchDelete \/ LaunchSearch
  <2>1. phase' # "insert"
    BY <1>2 DEF LaunchDelete, LaunchSearch, DeleteBatch, SearchBatch, EnterPhase
  <2> QED BY <1>1, <2>1 DEF SlotsCounted
<1>3. CASE LaunchInsert
  <2>1. /\ phase = "insert" /\ phase' = "insert"
        /\ launched < MaxInserts /\ launched' = launched + 1
    BY <1>3 DEF LaunchInsert, InsertBatch, EnterPhase
  <2>2. launched \in Nat /\ MaxInserts \in Nat /\ BatchSize \in Nat
    BY InsertAssumption, DriverAssumption DEF UVMInv, InsertInv, DriverTypeOK
  <2>3. /\ Cardinality(Taken) + Cardinality(Trying) <= launched * BatchSize
        /\ \A s \in Slots : Cells[s] # Tombstone
    BY <2>1 DEF SlotsCounted
  <2>4. Cardinality(Trying') \in Nat /\ Cardinality(Trying') <= BatchSize
    <3>1. Trying' \in SUBSET Groups
      BY DEF Trying
    <3> QED BY <3>1, TableIsFinite, FS_Subset, FS_CardinalityType
  <2>5. (Cardinality(Taken) + Cardinality(Trying) <= launched * BatchSize)'
    <3>1. PICK i \in Nat : i = launched * BatchSize
      BY <2>2
    <3>2. launched' * BatchSize = i + BatchSize
      BY <2>1, <2>2, <3>1
    <3>3. Cardinality(Taken) <= i /\ Cardinality(Taken) \in Nat
      BY <2>3, <3>1, TakenIsFinite
    <3> QED BY <1>1, <2>2, <2>4, <3>2, <3>3
  <2>6. (\A s \in Slots : Cells[s] # Tombstone)'
    BY <1>1, <2>3 DEF Cells
  <2>7. launched' \in Nat /\ launched' <= MaxInserts
    BY <2>1, <2>2
  <2> QED BY <2>1, <2>5, <2>6, <2>7, CountGoesOn
<1> QED BY <1>2, <1>3

\* The host clears the table: the count starts again.
LEMMA NextRunStartsCount ==
  ASSUME NextRun
  PROVE  SlotsCounted'
<1>1. /\ phase' = "insert" /\ launched' = 0
      /\ \A s \in Slots : keyAt'[0][s] = Sentinel
      /\ \A g \in Groups : pc'[g] = "idle"
  BY TableHasRoom DEF NextRun, Quiet
<1>2. Taken' = {} /\ Trying' = {}
  BY <1>1 DEF Taken, Trying, Cells
<1>3. Cardinality(Taken') = 0 /\ Cardinality(Trying') = 0
  BY <1>2, FS_EmptySet
<1>4. IsFiniteSet(Keys) => 0 <= Cardinality(Keys)
  BY FS_CardinalityType
<1>5. MaxInserts \in Nat /\ 0 * BatchSize = 0
  BY DriverAssumption, InsertAssumption
<1> QED BY <1>1, <1>3, <1>4, <1>5, TableHasRoom, WordsDiffer DEF SlotsCounted, Cells

\* Deletes and lookups run when the inserts are through, and free no slot.
LEMMA OthersKeepCount ==
  ASSUME UVMInv, SlotsCounted, NEW g \in Groups,
         DeleteScan(g) \/ WriteTombstone(g) \/ Lookup(g)
  PROVE  SlotsCounted'
<1>1. /\ launched' = launched /\ phase' = phase
      /\ pc[g] \notin {"probe", "claim"} /\ pc' = [pc EXCEPT ![g] = pc'[g]]
      /\ pc'[g] \notin {"probe", "claim"}
  <2>1. pc \in [Groups -> Steps]
    BY DEF UVMInv, InsertInv, DriverTypeOK
  <2> QED BY <2>1 DEF DeleteScan, WriteTombstone, Lookup, hostVars, GoTo
<1>2. Trying' = Trying
  BY <1>1 DEF Trying, UVMInv, InsertInv, DriverTypeOK
<1>3. CASE WriteTombstone(g)
  <2>1. /\ phase = "delete" /\ addr[g] \in Slots /\ Cells[addr[g]] # Sentinel
    <3>1. pc[g] = "tombstone"
      BY <1>3 DEF WriteTombstone
    <3>2. GroupTable(g) = 0 /\ op[g].key \in Keys
      BY <3>1, GroupOperands, TableHasRoom DEF UVMInv, InsertInv
    <3> QED BY <3>1, <3>2, WordsDiffer
            DEF UVMInv, InsertInv, AddressOK, PhaseOK, DeleteSteps, DriverTypeOK, Cells
  <2>2. \A s \in Slots : Cells'[s] = Sentinel <=> Cells[s] = Sentinel
    BY <1>3, <2>1, TableHasRoom, WordsDiffer
       DEF WriteTombstone, Cells, UVMInv, InsertInv, DriverTypeOK
  <2>3. Taken' = Taken
    BY <2>2 DEF Taken
  <2> QED BY <1>1, <2>1, <2>3 DEF SlotsCounted
<1>4. CASE DeleteScan(g) \/ Lookup(g)
  <2>1. keyAt' = keyAt
    BY <1>4 DEF DeleteScan, Lookup
  <2>2. Taken' = Taken
    BY <2>1 DEF Taken, Cells
  <2> QED BY <1>1, <1>2, <2>1, <2>2 DEF SlotsCounted, Cells
<1> QED BY <1>3, <1>4

-----------------------------------------------------------------------------
(* Keys have values, and what the scans of a delete kernel may see. *)

LEMMA Types ==
  ASSUME UVMInv
  PROVE  /\ pc \in [Groups -> Steps] /\ addr \in [Groups -> Slots]
         /\ keyAt[0] \in [Slots -> KeyWords] /\ oldKeyAt[0] \in [Slots -> KeyWords]
         /\ valAt[0] \in [Slots -> Values \cup {Sentinel, Tombstone}]
         /\ keyAt \in [Tables -> [Slots -> KeyWords]]
         /\ valAt \in [Tables -> [Slots -> Values \cup {Sentinel, Tombstone}]]
         /\ delStatus \in [Groups -> BOOLEAN]
         /\ srchValue \in [Groups -> Values \cup {Sentinel, Tombstone}]
         /\ \A g \in Groups : pc[g] # "idle" => op[g].key \in Keys
         /\ \A g \in Groups : pc[g] \in InsertSteps => phase = "insert"
         /\ \A g \in Groups : pc[g] \in DeleteSteps => phase = "delete"
BY TableHasRoom DEF UVMInv, InsertInv, DriverTypeOK, OpOK, PhaseOK

\* The last step of a delete that found its key.
LEMMA TombstoneIsWritten ==
  ASSUME UVMInv, OldScans, NEW g \in Groups, WriteTombstone(g)
  PROVE  /\ phase = "delete" /\ op[g].key \in Keys /\ addr[g] \in Slots
         /\ oldKeyAt[0][addr[g]] = op[g].key
         /\ pc[g] = "tombstone" /\ pc' = [pc EXCEPT ![g] = "idle"]
         /\ \A s \in Slots : /\ keyAt'[0][s] = IF s = addr[g] THEN Tombstone ELSE Cells[s]
                             /\ valAt'[0][s] = IF s = addr[g] THEN Tombstone
                                                              ELSE valAt[0][s]
         /\ UNCHANGED <<oldKeyAt, op, addr, phase>>
<1>1. pc[g] = "tombstone" /\ UNCHANGED <<oldKeyAt, op, addr, phase>>
  BY DEF WriteTombstone, hostVars
<1>2. phase = "delete" /\ op[g].key \in Keys /\ addr[g] \in Slots
  BY <1>1, Types DEF DeleteSteps
<1>3. oldKeyAt[0][addr[g]] = op[g].key
  BY <1>1, <1>2 DEF OldScans
<1> QED BY <1>1, <1>2, <1>3, Types, TableHasRoom DEF WriteTombstone, GoTo, Cells

LEMMA InsertKeepsValues ==
  ASSUME UVMRoomy, UVMInv, UVMInv', SlotsCounted, ValuesWritten, NEW g \in Groups,
         InsertBallot(g) \/ InsertClaim(g) \/ InsertStore(g)
  PROVE  ValuesWritten'
<1>1. /\ Looks(g) \/ Puts(g) \/ Stores(g)
      /\ phase = "insert" /\ op[g].key \in Keys /\ addr[g] \in Slots /\ op' = op
  BY InsertKinds
<1>2. op[g].value \in Values
  <2>1. pc[g] \in InsertSteps
    BY <1>1 DEF Looks, Puts, Stores, InsertSteps
  <2> QED BY <2>1 DEF ValuesWritten
<1>3. \A h \in Groups : pc'[h] \in InsertSteps => op'[h].value \in Values
  BY <1>1, <1>2, Types DEF Looks, Puts, Stores, ValuesWritten, InsertSteps
<1>4. CASE Looks(g)
  BY <1>1, <1>3, <1>4, Types DEF Looks, ValuesWritten, Cells
<1>5. CASE Puts(g)
  <2>1. PICK x \in Slots : Cells[x] = Sentinel /\ keyAt' = [keyAt EXCEPT ![0][x] = op[g].key]
    BY <1>5 DEF Puts
  <2>2. \A s \in Slots : keyAt'[0][s] = IF s = x THEN op[g].key ELSE Cells[s]
    BY <2>1, Types, TableHasRoom DEF Cells
  <2>3. /\ \A h \in Groups : pc[h] = "store" => pc'[h] = "store"
        /\ pc'[g] = "store" /\ valAt' = valAt
    BY <1>5, Types DEF Puts
  <2> QED BY <1>1, <1>3, <2>1, <2>2, <2>3, WordsDiffer DEF ValuesWritten, Cells
<1>6. CASE Stores(g)
  <2>1. /\ pc[g] = "store" /\ keyAt' = keyAt
        /\ \A h \in Groups : pc[h] = "store" => h = g \/ pc'[h] = "store"
        /\ \A s \in Slots : valAt'[0][s] = IF s = addr[g] THEN op[g].value ELSE valAt[0][s]
    BY <1>1, <1>6, Types, TableHasRoom DEF Stores
  <2>2. Cells[addr[g]] = op[g].key
    <3>1. GroupTable(g) = 0
      BY <2>1, GroupOperands, TableHasRoom DEF UVMInv, InsertInv
    <3> QED BY <2>1, <3>1 DEF UVMInv, InsertInv, AddressOK, Cells
  <2>3. \A s \in Slots : Cells[s] = op[g].key => s = addr[g]
    BY <1>1, <2>2, TableHasRoom DEF UVMInv, InsertInv, OneSlotPerKey, Cells
  <2>4. op[g].value # Sentinel
    BY <1>2, InsertAssumption
  <2> QED BY <1>1, <1>3, <2>1, <2>2, <2>3, <2>4, WordsDiffer DEF ValuesWritten, Cells
<1> QED BY <1>1, <1>4, <1>5, <1>6

\* Between two kernels every key of the table has its value.
LEMMA QuietValues ==
  ASSUME Quiet, ValuesWritten, NEW s \in Slots, Cells[s] \in Keys
  PROVE  valAt[0][s] # Sentinel
BY DEF Quiet, ValuesWritten

LEMMA LaunchKeepsValues ==
  ASSUME UVMInv, ValuesWritten, LaunchInsert \/ LaunchDelete \/ LaunchSearch
  PROVE  ValuesWritten'
<1>1. Quiet /\ UNCHANGED <<keyAt, valAt>>
  BY DEF LaunchInsert, LaunchDelete, LaunchSearch, InsertBatch, DeleteBatch, SearchBatch,
         StartKernel
<1>2. \A s \in Slots : /\ Cells[s] = Sentinel => valAt[0][s] = Sentinel
                       /\ Cells[s] \in Keys => valAt[0][s] # Sentinel
  BY <1>1, QuietValues DEF ValuesWritten
<1>3. \A g \in Groups : pc'[g] \in InsertSteps => op'[g].value \in Values
  <2>1. CASE LaunchDelete \/ LaunchSearch
    <3>1. \A g \in Groups : pc'[g] \in {"delScan", "search", "idle"}
      BY <2>1 DEF LaunchDelete, LaunchSearch, DeleteBatch, SearchBatch, StartKernel
    <3> QED BY <3>1 DEF InsertSteps
  <2>2. CASE LaunchInsert
    <3>1. PICK n \in Groups : \E ops \in [1 .. n -> [key : Keys, value : Values]] :
                                StartKernel(ops, "probe")
      BY <2>2 DEF LaunchInsert, InsertBatch
    <3>2. PICK ops \in [1 .. n -> [key : Keys, value : Values]] : StartKernel(ops, "probe")
      BY <3>1
    <3>3. \A g \in Groups : pc'[g] \in InsertSteps => g \in 1 .. n /\ op'[g] = ops[g]
      BY <3>2 DEF StartKernel, InsertSteps
    <3> QED BY <3>2, <3>3
  <2> QED BY <2>1, <2>2
<1> QED BY <1>1, <1>2, <1>3 DEF ValuesWritten, Cells

LEMMA OthersKeepValues ==
  ASSUME UVMInv, ValuesWritten, OldScans, NEW g \in Groups,
         DeleteScan(g) \/ WriteTombstone(g) \/ Lookup(g)
  PROVE  ValuesWritten'
<1>1. /\ op' = op /\ \A h \in Groups : h # g => pc'[h] = pc[h]
      /\ pc[g] \notin InsertSteps /\ pc'[g] \notin InsertSteps
  BY Types DEF DeleteScan, WriteTombstone, Lookup, GoTo, InsertSteps
<1>2. \A h \in Groups : pc[h] \in InsertSteps <=> pc'[h] \in InsertSteps
  BY <1>1
<1>3. \A h \in Groups : pc[h] = "store" => pc'[h] = "store"
  BY <1>1 DEF InsertSteps
<1>4. CASE DeleteScan(g) \/ Lookup(g)
  <2>1. UNCHANGED <<keyAt, valAt>>
    BY <1>4 DEF DeleteScan, Lookup
  <2> QED BY <1>1, <1>2, <1>3, <2>1 DEF ValuesWritten, Cells
<1>5. CASE WriteTombstone(g)
  <2>1. \A s \in Slots : /\ keyAt'[0][s] = IF s = addr[g] THEN Tombstone ELSE Cells[s]
                         /\ valAt'[0][s] = IF s = addr[g] THEN Tombstone ELSE valAt[0][s]
    BY <1>5, TombstoneIsWritten
  <2> QED BY <1>1, <1>2, <1>3, <2>1, WordsDiffer DEF ValuesWritten, Cells
<1> QED BY <1>4, <1>5

LEMMA OldScansPreserved ==
  ASSUME UVMInv, UVMInv', OldScans, Next
  PROVE  OldScans'
<1>1. SUFFICES ASSUME phase' = "delete"
               PROVE  OldScans'
  BY DEF OldScans
<1>2. CASE LaunchDelete
  <2>1. oldKeyAt' = keyAt /\ keyAt' = keyAt
    BY <1>2 DEF LaunchDelete, DeleteBatch, StartKernel
  <2>2. \A g \in Groups : pc'[g] # "tombstone"
    BY <1>2 DEF LaunchDelete, DeleteBatch, StartKernel
  <2> QED BY <2>1, <2>2, TableHasRoom DEF OldScans, Cells, UVMInv, InsertInv, OneSlotPerKey
<1>3. CASE LaunchInsert \/ LaunchSearch \/ NextRun
  BY <1>1, <1>3 DEF LaunchInsert, LaunchSearch, InsertBatch, SearchBatch, EnterPhase, NextRun
<1>4. ASSUME NEW g \in Groups, InsertBallot(g) \/ InsertClaim(g) \/ InsertStore(g)
      PROVE  FALSE
  <2>1. pc[g] \in InsertSteps /\ phase' = phase
    BY <1>4 DEF InsertBallot, Ballot, InsertClaim, Claim, InsertStore, StoreValue, insertOnly,
                hostVars, InsertSteps
  <2> QED BY <1>1, <2>1, Types
<1>5. ASSUME NEW g \in Groups, DeleteScan(g)
      PROVE  OldScans'
  <2>1. /\ UNCHANGED <<keyAt, oldKeyAt, op, phase>> /\ phase = "delete"
        /\ pc[g] = "delScan" /\ op[g].key \in Keys
    BY <1>1, <1>5, Types DEF DeleteScan, hostVars
  <2>2. PICK cells \in {Cells, oldKeyAt[0]} :
          \/ \E p \in Hits(cells, Home[op[g].key], op[g].key, Sentinel, InsertLanes) :
               /\ addr' = [addr EXCEPT ![g] = SlotAt(Home[op[g].key], p[1], p[2])]
               /\ GoTo(g, "tombstone")
          \/ GoTo(g, "idle") /\ UNCHANGED addr
    BY <1>5 DEF DeleteScan
  <2>3. CASE GoTo(g, "idle") /\ UNCHANGED addr
    BY <2>1, <2>3, Types DEF GoTo, OldScans, Cells
  <2>4. ASSUME NEW p \in Hits(cells, Home[op[g].key], op[g].key, Sentinel, InsertLanes),
               addr' = [addr EXCEPT ![g] = SlotAt(Home[op[g].key], p[1], p[2])],
               GoTo(g, "tombstone")
        PROVE  OldScans'
    <3>1. PICK x \in Slots : x = SlotAt(Home[op[g].key], p[1], p[2]) /\ cells[x] = op[g].key
      <4>1. InsertLanes \in {InsertLanes, LookupLanes} /\ op[g].key \in Keys
        BY <2>1
      <4>2. /\ SlotAt(Home[op[g].key], p[1], p[2]) \in Slots
            /\ cells[SlotAt(Home[op[g].key], p[1], p[2])] = op[g].key
        BY <4>1, HitsAreSlots
      <4> QED BY <4>2
    <3>2. oldKeyAt[0][x] = op[g].key
      BY <2>1, <3>1, WordsDiffer, TableHasRoom DEF UVMInv, InsertInv, OldWords, Cells
    <3>3. addr'[g] = x /\ \A h \in Groups : h # g => addr'[h] = addr[h] /\ pc'[h] = pc[h]
      BY <2>4, <3>1, Types DEF GoTo
    <3> QED BY <2>1, <3>2, <3>3 DEF OldScans, Cells
  <2> QED BY <2>2, <2>3, <2>4
<1>6. ASSUME NEW g \in Groups, WriteTombstone(g)
      PROVE  OldScans'
  <2>1. /\ oldKeyAt[0][addr[g]] = op[g].key /\ op[g].key \in Keys /\ phase = "delete"
        /\ pc' = [pc EXCEPT ![g] = "idle"] /\ UNCHANGED <<oldKeyAt, op, addr, phase>>
        /\ \A s \in Slots : keyAt'[0][s] = IF s = addr[g] THEN Tombstone ELSE Cells[s]
    BY <1>6, TombstoneIsWritten
  <2> QED BY <2>1, Types, WordsDiffer DEF OldScans, Cells
<1>7. ASSUME NEW g \in Groups, Lookup(g)
      PROVE  OldScans'
  <2>1. UNCHANGED <<keyAt, oldKeyAt, op, addr, phase>> /\ pc' = [pc EXCEPT ![g] = "idle"]
    BY <1>7 DEF Lookup, hostVars, GoTo
  <2> QED BY <2>1, Types DEF OldScans, Cells
<1>8. CASE Finished
  BY <1>8 DEF Finished, vars, insertVars, hostVars, OldScans, Cells
<1> QED BY <1>2, <1>3, <1>4, <1>5, <1>6, <1>7, <1>8 DEF Next, GroupStep

-----------------------------------------------------------------------------
(* The invariant. *)

LEMMA MapInvInit == Init => MapInv
<1> SUFFICES ASSUME Init
             PROVE  MapInv
  OBVIOUS
<1>1. /\ phase = "insert" /\ launched = 0
      /\ \A s \in Slots : Cells[s] = Sentinel /\ valAt[0][s] = Sentinel
      /\ \A g \in Groups : pc[g] = "idle"
  BY TableHasRoom DEF Init, DriverInit, Cells
<1>2. Taken = {} /\ Trying = {}
  BY <1>1 DEF Taken, Trying
<1>3. Cardinality(Taken) = 0 /\ Cardinality(Trying) = 0 /\ 0 * BatchSize = 0
  BY <1>2, FS_EmptySet, InsertAssumption
<1>4. (IsFiniteSet(Keys) => 0 <= Cardinality(Keys)) /\ MaxInserts \in Nat
  BY FS_CardinalityType, DriverAssumption
<1>5. SlotsCounted
  BY <1>1, <1>3, <1>4, TableHasRoom, WordsDiffer DEF SlotsCounted
<1>6. ValuesWritten
  BY <1>1, WordsDiffer DEF ValuesWritten, InsertSteps
<1> QED BY <1>1, <1>5, <1>6 DEF MapInv, OldScans, SearchPhase

LEMMA SearchPhasePreserved ==
  ASSUME UVMInv, SearchPhase, Next
  PROVE  SearchPhase'
<1>1. CASE LaunchInsert \/ LaunchDelete \/ LaunchSearch
  <2>1. CASE LaunchSearch
    BY <2>1 DEF LaunchSearch, SearchBatch, EnterPhase, SearchPhase
  <2>2. CASE LaunchInsert \/ LaunchDelete
    <3>1. \A g \in Groups : pc'[g] # "search"
      BY <2>2 DEF LaunchInsert, LaunchDelete, InsertBatch, DeleteBatch, StartKernel
    <3> QED BY <3>1 DEF SearchPhase
  <2> QED BY <1>1, <2>1, <2>2
<1>2. CASE NextRun
  BY <1>2 DEF NextRun, Quiet, SearchPhase
<1>3. ASSUME NEW g \in Groups, GroupStep(g)
      PROVE  SearchPhase'
  <2>1. \/ pc' = [pc EXCEPT ![g] = pc'[g]] /\ pc'[g] # "search"
        \/ pc' = pc
    BY <1>3, Types
       DEF GroupStep, InsertBallot, Ballot, InsertClaim, Claim, InsertStore, StoreValue,
           DeleteScan, WriteTombstone, Lookup, NextWindow, GoTo, insertOnly, hostVars
  <2>2. phase' = phase
    BY <1>3
       DEF GroupStep, InsertBallot, InsertClaim, InsertStore, DeleteScan, WriteTombstone,
           Lookup, insertOnly, hostVars
  <2> QED BY <2>1, <2>2, Types DEF SearchPhase
<1>4. CASE Finished
  BY <1>4 DEF Finished, vars, insertVars, hostVars, SearchPhase
<1> QED BY <1>1, <1>2, <1>3, <1>4 DEF Next

LEMMA MapInvPreserved ==
  ASSUME UVMRoomy, UVMInv, UVMInv', MapInv, [Next]_vars
  PROVE  MapInv'
<1> USE DEF MapInv
<1>1. CASE Finished \/ UNCHANGED vars
  <2>1. UNCHANGED vars
    BY <1>1 DEF Finished
  <2>2. UNCHANGED <<keyAt, valAt, oldKeyAt, pc, op, addr, phase, launched>>
    BY <2>1 DEF vars, insertVars, hostVars
  <2>3. Taken' = Taken /\ Trying' = Trying
    BY <2>2 DEF Taken, Trying, Cells
  <2> QED BY <2>2, <2>3 DEF SlotsCounted, ValuesWritten, OldScans, SearchPhase, Cells
<1>2. ASSUME Next
      PROVE  OldScans' /\ SearchPhase'
  BY <1>2, OldScansPreserved, SearchPhasePreserved
<1>3. CASE LaunchInsert \/ LaunchDelete \/ LaunchSearch
  BY <1>2, <1>3, LaunchKeepsCount, LaunchKeepsValues DEF Next
<1>4. CASE NextRun
  <2>1. /\ \A s \in Slots : keyAt'[0][s] = Sentinel /\ valAt'[0][s] = Sentinel
        /\ \A g \in Groups : pc'[g] = "idle"
    BY <1>4, TableHasRoom DEF NextRun, Quiet
  <2>2. ValuesWritten'
    BY <2>1, WordsDiffer DEF ValuesWritten, InsertSteps, Cells
  <2> QED BY <1>2, <1>4, <2>2, NextRunStartsCount DEF Next
<1>5. CASE \E g \in Groups : GroupStep(g)
  <2>1. PICK g \in Groups : GroupStep(g)
    BY <1>5
  <2>2. CASE InsertBallot(g) \/ InsertClaim(g) \/ InsertStore(g)
    BY <1>2, <1>5, <2>2, InsertKeepsCount, InsertKeepsValues DEF Next
  <2>3. CASE DeleteScan(g) \/ WriteTombstone(g) \/ Lookup(g)
    BY <1>2, <1>5, <2>3, OthersKeepCount, OthersKeepValues DEF Next
  <2> QED BY <2>1, <2>2, <2>3 DEF GroupStep
<1> QED BY <1>1, <1>3, <1>4, <1>5 DEF Next

-----------------------------------------------------------------------------
(* The abstract state. *)

\* What a table's words say of a key.
LookUp(cells, values, k) ==
  IF \E s \in Slots : cells[s] = k THEN values[CHOOSE s \in Slots : cells[s] = k]
                                   ELSE Sentinel

LEMMA LookUpOne ==
  ASSUME NEW cells, NEW values, NEW k, NEW s \in Slots, cells[s] = k,
         \A x \in Slots : cells[x] = k => x = s
  PROVE  LookUp(cells, values, k) = values[s]
BY DEF LookUp

LEMMA LookUpNone ==
  ASSUME NEW cells, NEW values, NEW k, \A s \in Slots : cells[s] # k
  PROVE  LookUp(cells, values, k) = Sentinel
BY DEF LookUp

LEMMA ContentsAre ==
  /\ Contents = [k \in Keys |-> LookUp(keyAt[0], valAt[0], k)]
  /\ Contents' = [k \in Keys |-> LookUp(keyAt'[0], valAt'[0], k)]
BY DEF Contents, LookUp, Cells

\* A table in which no slot changes for a key says the same of it.
LEMMA LookUpSame ==
  ASSUME NEW cells, NEW values, NEW cells2, NEW values2, NEW k,
         \A x, y \in Slots : cells[x] = k /\ cells[y] = k => x = y,
         \A s \in Slots : cells2[s] = k <=> cells[s] = k,
         \A s \in Slots : cells[s] = k => values2[s] = values[s]
  PROVE  LookUp(cells2, values2, k) = LookUp(cells, values, k)
<1>1. CASE \A s \in Slots : cells[s] # k
  <2>1. LookUp(cells, values, k) = Sentinel
    BY <1>1, LookUpNone
  <2>2. LookUp(cells2, values2, k) = Sentinel
    BY <1>1, LookUpNone
  <2> QED BY <2>1, <2>2
<1>2. CASE \E s \in Slots : cells[s] = k
  <2>1. PICK s \in Slots : cells[s] = k
    BY <1>2
  <2>2. LookUp(cells, values, k) = values[s]
    BY <2>1, LookUpOne
  <2>3. LookUp(cells2, values2, k) = values2[s]
    BY <2>1, LookUpOne
  <2> QED BY <2>1, <2>2, <2>3
<1> QED BY <1>1, <1>2

\* The step that ends an operation takes it off the abstract list, the others leave it.
LEMMA OperationEnds ==
  ASSUME UVMInv, NEW g \in Groups, pc[g] # "idle", pc' = [pc EXCEPT ![g] = "idle"],
         UNCHANGED <<op, oldKeyAt, phase>>
  PROVE  Abstract!Through(g) /\ Todo[g] = op[g]
<1>1. Todo[g] = op[g] /\ op[g] # NoOp /\ Abstract!NoTask = NoOp
  BY Types, WordsDiffer DEF Todo, NoOp, Abstract!NoTask
<1>2. Todo' = [Todo EXCEPT ![g] = NoOp]
  BY Types DEF Todo
<1>3. Present' = Present
  BY DEF Present
<1> QED BY <1>1, <1>2, <1>3 DEF Abstract!Through

LEMMA OperationGoesOn ==
  ASSUME UVMInv, NEW g \in Groups, pc[g] # "idle", NEW to \in Steps \ {"idle"},
         pc' = [pc EXCEPT ![g] = to], UNCHANGED <<op, oldKeyAt>>
  PROVE  Todo' = Todo /\ Present' = Present
BY Types DEF Todo, Present

-----------------------------------------------------------------------------
(* Every step is a step of the map, or none. *)

LEMMA InitIsInit == UVMInv /\ Init => Abstract!Init
<1> SUFFICES ASSUME UVMInv, Init
             PROVE  Abstract!Init
  OBVIOUS
<1>1. /\ \A s \in Slots : keyAt[0][s] = Sentinel /\ oldKeyAt[0][s] = Sentinel
      /\ \A g \in Groups : pc[g] = "idle"
      /\ phase = "insert"
      /\ srchValue = [g \in Groups |-> Sentinel] /\ delStatus = [g \in Groups |-> FALSE]
  BY TableHasRoom DEF Init, DriverInit
<1>2. Contents = [k \in Keys |-> Sentinel]
  <2>1. \A k \in Keys : LookUp(keyAt[0], valAt[0], k) = Sentinel
    BY <1>1, WordsDiffer, LookUpNone
  <2> QED BY <2>1, ContentsAre
<1>3. Present = {} /\ Todo = [g \in Groups |-> Abstract!NoTask]
  BY <1>1, WordsDiffer DEF Present, Todo, NoOp, Abstract!NoTask
<1> QED BY <1>1, <1>2, <1>3 DEF Abstract!Init

\* An insert that goes on looking, or puts its key into a slot whose value word is still
\* zero, leaves the map alone; the value store is what inserts.
LEMMA InsertImplements ==
  ASSUME UVMRoomy, UVMInv, UVMInv', MapInv, NEW g \in Groups,
         InsertBallot(g) \/ InsertClaim(g) \/ InsertStore(g)
  PROVE  Abstract!Insert(g) \/ UNCHANGED Abstract!vars
<1>1. /\ Looks(g) \/ Puts(g) \/ Stores(g)
      /\ phase = "insert" /\ op[g].key \in Keys /\ addr[g] \in Slots
      /\ UNCHANGED <<op, oldKeyAt, phase, delStatus, srchValue>>
  BY InsertKinds DEF MapInv, hostVars, resultVars
<1>2. \A k \in Keys, x, y \in Slots :
        /\ keyAt[0][x] = k /\ keyAt[0][y] = k => x = y
        /\ keyAt'[0][x] = k /\ keyAt'[0][y] = k => x = y
  BY TableHasRoom DEF UVMInv, InsertInv, OneSlotPerKey
<1>3. CASE Looks(g)
  <2>1. Todo' = Todo /\ Present' = Present
    BY <1>1, <1>3, OperationGoesOn DEF Looks, Steps, InsertSteps
  <2>2. Contents' = Contents
    BY <1>3 DEF Looks, Contents, Cells
  <2> QED BY <1>1, <2>1, <2>2 DEF Abstract!vars
<1>4. CASE Puts(g)
  <2>1. Todo' = Todo /\ Present' = Present
    BY <1>1, <1>4, OperationGoesOn DEF Puts, Steps, InsertSteps
  <2>2. PICK x \in Slots : Cells[x] = Sentinel /\ keyAt' = [keyAt EXCEPT ![0][x] = op[g].key]
    BY <1>4 DEF Puts
  <2>3. /\ \A s \in Slots : keyAt'[0][s] = IF s = x THEN op[g].key ELSE keyAt[0][s]
        /\ valAt' = valAt /\ valAt[0][x] = Sentinel /\ keyAt[0][x] = Sentinel
    BY <1>4, <2>2, Types, TableHasRoom DEF Puts, MapInv, ValuesWritten, Cells
  <2>4. ASSUME NEW k \in Keys
        PROVE  LookUp(keyAt'[0], valAt'[0], k) = LookUp(keyAt[0], valAt[0], k)
    <3>1. CASE k = op[g].key
      <4>1. \A s \in Slots : keyAt[0][s] # k
        BY <1>2, <2>3, <3>1, WordsDiffer
      <4>2. LookUp(keyAt[0], valAt[0], k) = Sentinel
        BY <4>1, LookUpNone
      <4>3. LookUp(keyAt'[0], valAt'[0], k) = valAt'[0][x]
        BY <1>2, <2>3, <3>1, LookUpOne
      <4> QED BY <2>3, <4>2, <4>3
    <3>2. CASE k # op[g].key
      BY <1>2, <2>3, <3>2, LookUpSame, WordsDiffer
    <3> QED BY <3>1, <3>2
  <2>5. Contents' = Contents
    BY <2>4, ContentsAre
  <2> QED BY <1>1, <2>1, <2>5 DEF Abstract!vars
<1>5. CASE Stores(g)
  <2>1. /\ pc[g] = "store" /\ pc' = [pc EXCEPT ![g] = "idle"] /\ keyAt' = keyAt
        /\ \A s \in Slots : valAt'[0][s] = IF s = addr[g] THEN op[g].value ELSE valAt[0][s]
    BY <1>1, <1>5, Types, TableHasRoom DEF Stores
  <2>2. Abstract!Through(g) /\ Todo[g] = op[g]
    BY <1>1, <2>1, OperationEnds
  <2>3. keyAt[0][addr[g]] = op[g].key
    <3>1. GroupTable(g) = 0
      BY <2>1, GroupOperands, TableHasRoom DEF UVMInv, InsertInv
    <3> QED BY <2>1, <3>1 DEF UVMInv, InsertInv, AddressOK
  <2>4. LookUp(keyAt'[0], valAt'[0], op[g].key) = op[g].value
    <3>1. PICK k \in Keys, s \in Slots : k = op[g].key /\ s = addr[g]
      BY <1>1
    <3>2. keyAt'[0][s] = k /\ valAt'[0][s] = op[g].value
      BY <2>1, <2>3, <3>1
    <3>3. \A x \in Slots : keyAt'[0][x] = k => x = s
      BY <1>2, <3>2
    <3>4. LookUp(keyAt'[0], valAt'[0], k) = valAt'[0][s]
      BY <3>2, <3>3 DEF LookUp
    <3> QED BY <3>1, <3>2, <3>4
  <2>5. \A k \in Keys : k # op[g].key =>
          LookUp(keyAt'[0], valAt'[0], k) = LookUp(keyAt[0], valAt[0], k)
    <3> SUFFICES ASSUME NEW k \in Keys, k # op[g].key
                 PROVE  LookUp(keyAt'[0], valAt'[0], k) = LookUp(keyAt[0], valAt[0], k)
      OBVIOUS
    <3> QED BY <1>2, <2>1, <2>3, LookUpSame
  <2>6. Contents' = [Contents EXCEPT ![op[g].key] = op[g].value]
    BY <2>4, <2>5, ContentsAre
  <2> QED BY <1>1, <2>2, <2>6 DEF Abstract!Insert
<1> QED BY <1>1, <1>3, <1>4, <1>5

\* A delete that hits nothing is through with a key that is not there.
LEMMA DeleteScanImplements ==
  ASSUME UVMInv, MapInv, NEW g \in Groups, DeleteScan(g)
  PROVE  Abstract!Delete(g) \/ UNCHANGED Abstract!vars
<1>1. /\ pc[g] = "delScan" /\ phase = "delete" /\ op[g].key \in Keys
      /\ UNCHANGED <<keyAt, valAt, op, oldKeyAt, phase, delStatus, srchValue>>
  BY Types DEF DeleteScan, hostVars, resultVars, DeleteSteps
<1>2. Contents' = Contents
  BY <1>1 DEF Contents, Cells
<1>3. PICK cells \in {Cells, oldKeyAt[0]} :
        \/ GoTo(g, "tombstone")
        \/ /\ Hits(cells, Home[op[g].key], op[g].key, Sentinel, InsertLanes) = {}
           /\ GoTo(g, "idle")
  BY DEF DeleteScan
<1>4. CASE GoTo(g, "tombstone")
  <2>1. Todo' = Todo /\ Present' = Present
    BY <1>1, <1>4, OperationGoesOn DEF GoTo, Steps, DeleteSteps
  <2> QED BY <1>1, <1>2, <2>1 DEF Abstract!vars
<1>5. CASE /\ Hits(cells, Home[op[g].key], op[g].key, Sentinel, InsertLanes) = {}
           /\ GoTo(g, "idle")
  <2>1. Abstract!Through(g) /\ Todo[g] = op[g]
    BY <1>1, <1>5, OperationEnds DEF GoTo
  <2>2. \A s \in Slots : keyAt[0][s] # op[g].key
    BY <1>1, <1>5, DeletesFind DEF MapInv, Cells
  <2>3. Contents[op[g].key] = Sentinel
    BY <1>1, <2>2, LookUpNone, ContentsAre
  <2>4. Contents' = [Contents EXCEPT ![op[g].key] = Sentinel]
    BY <1>1, <1>2, <2>3, ContentsAre
  <2> QED BY <1>1, <2>1, <2>3, <2>4 DEF Abstract!Delete
<1> QED BY <1>3, <1>4, <1>5

\* The tombstone removes a key that was there at the launch, however many groups write it.
LEMMA TombstoneImplements ==
  ASSUME UVMInv, MapInv, NEW g \in Groups, WriteTombstone(g)
  PROVE  Abstract!Delete(g)
<1>1. /\ phase = "delete" /\ op[g].key \in Keys /\ addr[g] \in Slots
      /\ oldKeyAt[0][addr[g]] = op[g].key
      /\ pc[g] = "tombstone" /\ pc' = [pc EXCEPT ![g] = "idle"]
      /\ \A s \in Slots : /\ keyAt'[0][s] = IF s = addr[g] THEN Tombstone ELSE keyAt[0][s]
                          /\ valAt'[0][s] = IF s = addr[g] THEN Tombstone ELSE valAt[0][s]
      /\ UNCHANGED <<oldKeyAt, op, phase>>
  BY TombstoneIsWritten DEF MapInv, Cells
<1>2. Abstract!Through(g) /\ Todo[g] = op[g]
  BY <1>1, OperationEnds
<1>3. op[g].key \in Present
  BY <1>1 DEF Present
<1>4. \A s \in Slots : keyAt'[0][s] # op[g].key
  <2> SUFFICES ASSUME NEW s \in Slots, keyAt'[0][s] = op[g].key
               PROVE  FALSE
    OBVIOUS
  <2>1. s # addr[g] /\ keyAt[0][s] = op[g].key
    BY <1>1, WordsDiffer
  <2>2. oldKeyAt[0][s] = op[g].key
    BY <1>1, <2>1, WordsDiffer, TableHasRoom DEF UVMInv, InsertInv, OldWords
  <2> QED BY <1>1, <2>1, <2>2 DEF MapInv, OldScans
<1>5. LookUp(keyAt'[0], valAt'[0], op[g].key) = Sentinel
  BY <1>4, LookUpNone
<1>6. \A k \in Keys : k # op[g].key =>
        LookUp(keyAt'[0], valAt'[0], k) = LookUp(keyAt[0], valAt[0], k)
  <2> SUFFICES ASSUME NEW k \in Keys, k # op[g].key
               PROVE  LookUp(keyAt'[0], valAt'[0], k) = LookUp(keyAt[0], valAt[0], k)
    OBVIOUS
  <2>1. keyAt[0][addr[g]] \in {op[g].key, Tombstone}
    <3>1. GroupTable(g) = 0
      BY <1>1, GroupOperands, TableHasRoom DEF UVMInv, InsertInv
    <3> QED BY <1>1, <3>1 DEF UVMInv, InsertInv, AddressOK
  <2>2. \A x, y \in Slots : keyAt[0][x] = k /\ keyAt[0][y] = k => x = y
    BY TableHasRoom DEF UVMInv, InsertInv, OneSlotPerKey
  <2> QED BY <1>1, <2>1, <2>2, LookUpSame, WordsDiffer
<1>7. Contents' = [Contents EXCEPT ![op[g].key] = Sentinel]
  BY <1>5, <1>6, ContentsAre
<1>8. delStatus' = [delStatus EXCEPT ![g] = TRUE] /\ srchValue' = srchValue
  BY DEF WriteTombstone
<1> QED BY <1>1, <1>2, <1>3, <1>7, <1>8 DEF Abstract!Delete

\* A lookup delivers the value the map has for its key.
LEMMA LookupImplements ==
  ASSUME UVMRoomy, UVMInv, MapInv, NEW g \in Groups, Lookup(g)
  PROVE  Abstract!Lookup(g)
<1>1. /\ pc[g] = "search" /\ pc' = [pc EXCEPT ![g] = "idle"] /\ op[g].key \in Keys
      /\ UNCHANGED <<keyAt, valAt, oldKeyAt, op, phase, delStatus>>
      /\ srchValue' = IF LookupResult(op[g].key) # Sentinel
                        THEN [srchValue EXCEPT ![g] = LookupResult(op[g].key)]
                        ELSE srchValue
      /\ phase = "search"
  BY Types DEF Lookup, hostVars, GoTo, MapInv, SearchPhase
<1>2. Abstract!Through(g) /\ Todo[g] = op[g]
  BY <1>1, OperationEnds
<1>3. Contents' = Contents
  BY <1>1 DEF Contents, Cells
<1>4. PICK k \in Keys : k = op[g].key
  BY <1>1
<1>5. PICK hits : hits = Hits(Cells, Home[k], k, Sentinel, LookupLanes)
  OBVIOUS
<1>6. LookupResult(k) = LookUp(keyAt[0], valAt[0], k)
  <2>1. CASE hits = {}
    <3>1. \A s \in Slots : keyAt[0][s] # k
      BY <1>5, <2>1, LookupsFind DEF MapInv, Cells
    <3>2. LookUp(keyAt[0], valAt[0], k) = Sentinel
      BY <3>1, LookUpNone
    <3> QED BY <1>5, <2>1, <3>2 DEF LookupResult
  <2>2. CASE hits # {}
    <3>1. PICK p \in hits : LookupResult(k) = valAt[0][SlotAt(Home[k], p[1], p[2])]
      BY <1>5, <2>2 DEF LookupResult
    <3>2. PICK s \in Slots : s = SlotAt(Home[k], p[1], p[2]) /\ keyAt[0][s] = k
      BY <1>5, <3>1, HitsAreSlots DEF Cells
    <3>3. \A x \in Slots : keyAt[0][x] = k => x = s
      BY <3>2, TableHasRoom DEF UVMInv, InsertInv, OneSlotPerKey
    <3>4. LookUp(keyAt[0], valAt[0], k) = valAt[0][s]
      BY SMTT(30), <3>2, <3>3, LookUpOne
    <3> QED BY <3>1, <3>2, <3>4
  <2> QED BY <2>1, <2>2
<1>7. LookupResult(op[g].key) = Contents[Todo[g].key]
  BY <1>2, <1>4, <1>6, ContentsAre
<1> QED BY <1>1, <1>2, <1>3, <1>7 DEF Abstract!Lookup

\* The host: a launch tells the map what the kernel will do, clearing clears it.
LEMMA LaunchImplements ==
  ASSUME UVMInv, UVMInv', MapInv, LaunchInsert \/ LaunchDelete \/ LaunchSearch
  PROVE  Abstract!Launch
<1>1. /\ \A g \in Groups : pc[g] = "idle"
      /\ UNCHANGED <<keyAt, valAt, delStatus, srchValue>> /\ oldKeyAt' = keyAt
      /\ phase' \in {"insert", "delete", "search"}
  BY DEF LaunchInsert, LaunchDelete, LaunchSearch, InsertBatch, DeleteBatch, SearchBatch,
         EnterPhase, StartKernel, Quiet, resultVars
<1>2. \A g \in Groups : Todo[g] = Abstract!NoTask
  BY <1>1 DEF Todo, NoOp, Abstract!NoTask
<1>3. Todo' \in [Groups -> Abstract!Tasks \cup {Abstract!NoTask}]
  <2> SUFFICES ASSUME NEW g \in Groups, pc'[g] # "idle"
               PROVE  op'[g] \in Abstract!Tasks
    BY DEF Todo, NoOp, Abstract!NoTask
  <2>1. op'[g].key \in Keys
    BY DEF UVMInv, InsertInv, OpOK
  <2>2. op'[g] \in [key : Keys \cup {Sentinel}, value : Values \cup {Sentinel}]
    BY DEF UVMInv, InsertInv, DriverTypeOK
  <2> QED BY <2>1, <2>2 DEF Abstract!Tasks
<1>4. Present' = {k \in Keys : Contents[k] # Sentinel}
  <2> SUFFICES ASSUME NEW k \in Keys
               PROVE  (\E s \in Slots : keyAt[0][s] = k) <=> Contents[k] # Sentinel
    BY <1>1 DEF Present
  <2>1. CASE \A s \in Slots : keyAt[0][s] # k
    BY <2>1, LookUpNone, ContentsAre
  <2>2. CASE \E s \in Slots : keyAt[0][s] = k
    <3>1. PICK s \in Slots : keyAt[0][s] = k
      BY <2>2
    <3>2. \A x \in Slots : keyAt[0][x] = k => x = s
      BY <3>1, TableHasRoom DEF UVMInv, InsertInv, OneSlotPerKey
    <3>3. valAt[0][s] # Sentinel
      BY <1>1, <3>1, QuietValues DEF MapInv, Quiet, Cells
    <3>4. LookUp(keyAt[0], valAt[0], k) = valAt[0][s]
      BY <3>1, <3>2 DEF LookUp
    <3> QED BY <3>1, <3>3, <3>4, ContentsAre
  <2> QED BY <2>1, <2>2
<1>5. Contents' = Contents
  BY <1>1 DEF Contents, Cells
<1> QED BY <1>1, <1>2, <1>3, <1>4, <1>5 DEF Abstract!Launch, Abstract!Kinds

LEMMA NextRunImplements ==
  ASSUME NextRun
  PROVE  Abstract!Clear
<1>1. /\ \A g \in Groups : pc[g] = "idle"
      /\ pc' = pc /\ phase' = "insert"
      /\ \A s \in Slots : keyAt'[0][s] = Sentinel /\ oldKeyAt'[0][s] = Sentinel
      /\ delStatus' = [g \in Groups |-> FALSE]
      /\ srchValue' = [g \in Groups |-> Sentinel]
  BY TableHasRoom DEF NextRun, Quiet
<1>2. /\ \A g \in Groups : Todo[g] = Abstract!NoTask
      /\ Todo' = Todo
  BY <1>1 DEF Todo, NoOp, Abstract!NoTask
<1>3. Present' = {}
  BY <1>1, WordsDiffer DEF Present
<1>4. Contents' = [k \in Keys |-> Sentinel]
  <2>1. \A k \in Keys : LookUp(keyAt'[0], valAt'[0], k) = Sentinel
    BY <1>1, WordsDiffer, LookUpNone
  <2> QED BY <2>1, ContentsAre
<1> QED BY <1>1, <1>2, <1>3, <1>4 DEF Abstract!Clear

LEMMA StepImplements ==
  ASSUME UVMRoomy, UVMInv, UVMInv', MapInv, [Next]_vars
  PROVE  [Abstract!Next]_Abstract!vars
<1>1. CASE LaunchInsert \/ LaunchDelete \/ LaunchSearch
  BY <1>1, LaunchImplements DEF Abstract!Next
<1>2. CASE NextRun
  BY <1>2, NextRunImplements DEF Abstract!Next
<1>3. CASE \E g \in Groups : GroupStep(g)
  <2>1. PICK g \in Groups : GroupStep(g)
    BY <1>3
  <2>2. \/ Abstract!Insert(g) \/ Abstract!Delete(g) \/ Abstract!Lookup(g)
        \/ UNCHANGED Abstract!vars
    BY <2>1, InsertImplements, DeleteScanImplements, TombstoneImplements, LookupImplements
       DEF GroupStep
  <2> QED BY <2>2 DEF Abstract!Next
<1>4. CASE Finished \/ UNCHANGED vars
  <2>1. UNCHANGED vars
    BY <1>4 DEF Finished
  <2>2. UNCHANGED <<keyAt, valAt, oldKeyAt, pc, op, phase, srchValue, delStatus>>
    BY <2>1 DEF vars, insertVars, hostVars, resultVars
  <2>3. Contents' = Contents /\ Present' = Present /\ Todo' = Todo
    BY <2>2 DEF Contents, Cells, Present, Todo
  <2> QED BY <2>2, <2>3 DEF Abstract!vars
<1> QED BY <1>1, <1>2, <1>3, <1>4 DEF Next

\* The flat table (gpu_impl_UVM_CG.cuh) and its driver implement the map of BatchMap,
\* whatever groups race, whatever a plain load of a delete returns and however often the
\* table is used again: if the windows of a group reach enough slots, every insert finds a
\* place, and every delete and lookup finds what the map holds.
THEOREM TableImplementsMap == ASSUME UVMRoomy PROVE Spec => ImplementsMap
<1>1. Init => UVMInv /\ MapInv /\ Abstract!Init
  BY InitEstablishes, MapInvInit, InitIsInit
<1>2. UVMInv /\ MapInv /\ [Next]_vars => UVMInv' /\ MapInv'
  BY NextPreserves, MapInvPreserved
<1>3. UVMInv /\ MapInv /\ [Next]_vars => [Abstract!Next]_Abstract!vars
  BY NextPreserves, StepImplements
<1> QED BY <1>1, <1>2, <1>3, PTL DEF Spec, ImplementsMap, Abstract!Spec

-----------------------------------------------------------------------------
(* The capacities the driver chooses have that room. *)

\* The flat table's windows are 32 slots apart, and its capacity is a prime (getCapacity),
\* so an odd number; if it is at least ten times the group size, the table has the room
\* that TableImplementsMap asks for, whatever is inserted.
THEOREM UVMRoomInNumbers ==
  ASSUME Stride = 32, Odd(Capacity), 10 * GroupSize <= Capacity
  PROVE  UVMRoomy
<1>1. Capacity \in Nat \ {0} /\ GroupSize \in Nat \ {0} /\ Inserts \in Nat
  BY ProbeAssumption, TableHasRoom
<1>2. SUFFICES ASSUME ~(Stride <= GroupSize)
               PROVE  UVMRoomy
  BY DEF UVMRoomy
<1>3. NumWindows = Capacity /\ Windows = 0 .. Capacity - 1
  BY <1>2 DEF NumWindows, Windows
<1>4. ASSUME NEW home \in Slots, NEW v \in Windows, NEW w \in Windows, v < w,
             SlotAt(home, v, 0) = SlotAt(home, w, 0)
      PROVE  FALSE
  <2>1. home \in Nat /\ v \in Nat /\ w \in Nat /\ w < Capacity
    BY <1>1, <1>3, WindowsAreNumbers
  <2>2. PICK x \in Nat, y \in Nat : x = home + 32 * v /\ y = home + 32 * w
    BY <2>1
  <2>3. x % Capacity = y % Capacity
    <3>1. home + (v * Stride) + 0 = x
      BY <2>1, <2>2
    <3>2. home + (w * Stride) + 0 = y
      BY <2>1, <2>2
    <3>3. SlotAt(home, v, 0) = x % Capacity
      BY <3>1, Zenon DEF SlotAt
    <3>4. SlotAt(home, w, 0) = y % Capacity
      BY <3>2, Zenon DEF SlotAt
    <3> QED BY <1>4, <3>3, <3>4, Zenon
  <2>4. PICK d \in Nat : d = w - v /\ d > 0 /\ d < Capacity
    <3>1. w - v \in Nat /\ w - v > 0 /\ w - v < Capacity
      BY <1>1, <1>4, <2>1
    <3> QED BY <3>1
  <2>5. x <= y /\ y - x = 32 * d
    BY <2>1, <2>2, <2>4
  <2>6. Divides(Capacity, 32 * d)
    <3>1. Divides(Capacity, y - x)
      BY <1>1, <2>3, <2>5, SameRemainder
    <3> QED BY <2>5, <3>1
  <2>7. Divides(Capacity, d)
    BY <1>1, <2>6, OddDividesThirtySecond
  <2> QED BY <1>1, <2>4, <2>7, SmallMultiple
<1>5. Inserts + GroupSize <= Capacity
  <2>1. 10 * Inserts <= 9 * Capacity
    <3>1. PICK m \in Nat, b \in Nat : m = MaxInserts /\ b = BatchSize
      BY InsertAssumption, DriverAssumption
    <3>2. 10 * m * b = 10 * (m * b)
      OBVIOUS
    <3> QED BY <3>1, <3>2, UVMAssumption DEF Inserts
  <2> QED BY <1>1, <2>1
<1>6. \A home \in Slots, v, w \in Windows :
        SlotAt(home, v, 0) = SlotAt(home, w, 0) => v = w
  <2> SUFFICES ASSUME NEW home \in Slots, NEW v \in Windows, NEW w \in Windows,
                      SlotAt(home, v, 0) = SlotAt(home, w, 0)
               PROVE  v = w
    OBVIOUS
  <2>1. ~(v < w) /\ ~(w < v)
    BY <1>4
  <2> QED BY <2>1, WindowsAreNumbers
<1> QED BY <1>5, <1>6 DEF UVMRoomy
===============================================================================
