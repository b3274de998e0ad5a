------------------------- MODULE TwoLevelList_proofs --------------------------
(***************************************************************************)
(* Theorems about the two-level skip list, for every set of keys, width of *)
(* the ranges, number of warps and sequence of batches.                    *)
(***************************************************************************)
EXTENDS TwoLevelList, FiniteSets, FiniteSetTheorems, WellFoundedInduction, TLAPS

-----------------------------------------------------------------------------
(* Facts about numbers and finite sets of them that the proofs cite.       *)

\* Every non-empty set of naturals has a least element.
LEMMA LeastNatural ==
  ASSUME NEW S \in SUBSET Nat, S # {}
  PROVE  \E m \in S : \A n \in S : m <= n
<1>1. \E m \in S : \A n \in S : ~(<<n, m>> \in OpToRel(<, Nat))
  BY NatLessThanWellFounded, WFMin
<1>2. PICK m \in S : \A n \in S : ~(<<n, m>> \in OpToRel(<, Nat))
  BY <1>1
<1>3. \A n \in S : ~(n < m)
  BY <1>2 DEF OpToRel
<1> QED BY <1>3

\* Every non-empty finite set of naturals has a largest element: one with the
\* fewest elements above it.
LEMMA LargestNatural ==
  ASSUME NEW S \in SUBSET Nat, S # {}, IsFiniteSet(S)
  PROVE  \E m \in S : \A n \in S : n <= m
<1> DEFINE Above(m) == {n \in S : n > m}
           Counts == {Cardinality(Above(m)) : m \in S}
<1>1. \A m \in S : IsFiniteSet(Above(m)) /\ Cardinality(Above(m)) \in Nat
  BY FS_Subset, FS_CardinalityType
<1>2. Counts \in SUBSET Nat /\ Counts # {}
  BY <1>1
<1>3. PICK m \in S : \A n \in S : Cardinality(Above(m)) <= Cardinality(Above(n))
  <2> HIDE DEF Above
  <2>1. PICK c \in Counts : \A d \in Counts : c <= d
    BY <1>2, LeastNatural
  <2> QED BY <2>1
<1>4. SUFFICES ASSUME NEW n \in S, n > m
               PROVE  FALSE
  OBVIOUS
<1>5. Above(n) \subseteq Above(m) /\ n \in Above(m) /\ n \notin Above(n)
  <2>1. \A x \in S : x \in Nat
    OBVIOUS
  <2>2. \A x \in S : x > n => x > m
    BY <1>4, <2>1
  <2>3. ~(n > n)
    BY <2>1
  <2> QED BY <1>4, <2>2, <2>3
<1>6. Above(n) # Above(m)
  BY <1>5
<1>7. Cardinality(Above(n)) < Cardinality(Above(m))
  <2> HIDE DEF Above
  <2> QED BY <1>1, <1>5, <1>6, FS_Subset
<1> QED BY <1>1, <1>3, <1>7

\* A number with a larger quotient is larger, whatever the remainders.
LEMMA QuotientOrders ==
  ASSUME NEW n \in Nat \ {0}, NEW p \in Nat, NEW q \in Nat,
         NEW a \in 0 .. n - 1, NEW b \in 0 .. n - 1, p < q
  PROVE  p * n + a < q * n + b
<1>1. PICK e \in Nat : q = p + 1 + e
  <2>1. q - p - 1 \in Nat /\ q = p + 1 + (q - p - 1)
    OBVIOUS
  <2> QED BY <2>1
<1>2. q * n = p * n + n + e * n
  BY <1>1
<1>3. e * n >= 0 /\ p * n \in Nat /\ q * n \in Nat
  OBVIOUS
<1> QED BY <1>2, <1>3

\* Every natural has a quotient and a remainder.
LEMMA DivisionExists ==
  ASSUME NEW n \in Nat \ {0}, NEW x \in Nat
  PROVE  /\ x \div n \in Nat
         /\ x % n \in 0 .. n - 1
         /\ x = (x \div n) * n + (x % n)
OBVIOUS

\* Division is monotone.
LEMMA DivisionMonotone ==
  ASSUME NEW n \in Nat \ {0}, NEW x \in Nat, NEW y \in Nat, x <= y
  PROVE  x \div n <= y \div n
<1> DEFINE p == y \div n
           q == x \div n
           a == y % n
           b == x % n
<1>1. /\ p \in Nat /\ q \in Nat
      /\ a \in 0 .. n - 1 /\ b \in 0 .. n - 1
      /\ y = p * n + a /\ x = q * n + b
  BY DivisionExists
<1> HIDE DEF p, q, a, b
<1>2. ~(p < q)
  BY <1>1, QuotientOrders
<1>3. q <= p
  BY <1>1, <1>2
<1> QED BY <1>3 DEF p, q

-----------------------------------------------------------------------------
(* The parts of the inductive invariant. *)

InsertLabels == {"mark", "listRange", "insert", "readMin", "min", "readMax", "max"}
Labels == InsertLabels \cup {"idle", "erase"}

\* The labels at which an insert is still to tell the slot's bounds of its key.
MinPending == {"readMin", "min"}
MaxPending == MinPending \cup {"readMax", "max"}

ListTypeOK ==
  /\ range \in [Slots -> Nat]
  /\ inner \in [Slots -> SUBSET Keys]
  /\ minKey \in [Slots -> Keys \cup {UInt32Max}]
  /\ maxKey \in [Slots -> Keys \cup {0}]
  /\ rangeList \in SUBSET (Slots \ {0})
  /\ pastMin \in [Slots -> SUBSET (Keys \cup {UInt32Max})]
  /\ pastMax \in [Slots -> SUBSET (Keys \cup {0})]
  /\ pc \in [Warps -> Labels]
  /\ op \in [Warps -> Keys \cup {NegInf}]
  /\ phase \in {"insert", "delete"}
  /\ inserted \in SUBSET Keys
  /\ deleted \in SUBSET Keys

\* Warps run steps of the kernel the host launched, on a key of its batch, and a
\* warp past MarkRange has the range's word set.
WarpsOK ==
  \A w \in Warps :
    /\ pc[w] # "idle" => op[w] \in Keys
    /\ pc[w] \in InsertLabels => phase = "insert" /\ op[w] \in inserted
    /\ pc[w] = "erase" => phase = "delete" /\ op[w] \in deleted
    /\ pc[w] \in InsertLabels \ {"mark"} => range[Slot(w)] # 0
    /\ pc[w] \in MaxPending => op[w] \in inner[Slot(w)]

\* A slot's list holds keys of the slot that were inserted, and its word is set
\* if there is any.
InnerOK ==
  \A s \in Slots :
    \A k \in inner[s] : SlotOf(k) = s /\ k \in inserted /\ range[s] # 0

\* An inserted key is in its list, deleted or not there yet; a deleted one is out
\* of it, or about to be.
KeysAccounted ==
  /\ phase = "insert" => deleted = {}
  /\ \A k \in inserted \ deleted :
       \/ k \in inner[SlotOf(k)]
       \/ \E w \in Warps : op[w] = k /\ pc[w] \in {"mark", "listRange", "insert"}
  /\ \A k \in deleted :
       k \in inner[SlotOf(k)] => \E w \in Warps : op[w] = k /\ pc[w] = "erase"

LookupInv == ListTypeOK /\ WarpsOK /\ InnerOK /\ KeysAccounted

-----------------------------------------------------------------------------
(* Numbers. *)

\* The largest and the smallest element are the ones the definitions name.
LEMMA LargestIs ==
  ASSUME NEW S \in SUBSET Nat, NEW m \in S, \A n \in S : n <= m
  PROVE  Largest(S) = m
<1>1. /\ Largest(S) \in S
      /\ \A n \in S : n <= Largest(S)
  BY DEF Largest
<1>2. Largest(S) <= m /\ m <= Largest(S) /\ Largest(S) \in Nat /\ m \in Nat
  BY <1>1
<1> QED BY <1>2

LEMMA SmallestIs ==
  ASSUME NEW S \in SUBSET Nat, NEW m \in S, \A n \in S : m <= n
  PROVE  Smallest(S) = m
<1>1. /\ Smallest(S) \in S
      /\ \A n \in S : Smallest(S) <= n
  BY DEF Smallest
<1>2. Smallest(S) <= m /\ m <= Smallest(S) /\ Smallest(S) \in Nat /\ m \in Nat
  BY <1>1
<1> QED BY <1>2

\* Of two numbers.
LEMMA SmallestOfTwo ==
  ASSUME NEW a \in Nat, NEW b \in Nat
  PROVE  Smallest({a, b}) = IF a <= b THEN a ELSE b
<1>1. CASE a <= b
  BY <1>1, SmallestIs
<1>2. CASE ~(a <= b)
  BY <1>2, SmallestIs
<1> QED BY <1>1, <1>2

LEMMA LargestOfTwo ==
  ASSUME NEW a \in Nat, NEW b \in Nat
  PROVE  Largest({a, b}) = IF b <= a THEN a ELSE b
<1>1. CASE b <= a
  BY <1>1, LargestIs
<1>2. CASE ~(b <= a)
  BY <1>2, LargestIs
<1> QED BY <1>1, <1>2

\* UINT32_MAX is a number.
LEMMA SentinelIsNatural ==
  /\ UInt32Max \in Nat
  /\ Slots \subseteq Nat /\ 0 \in Slots
  /\ Keys \subseteq Nat
  /\ \A k \in Keys : k < UInt32Max
<1>1. Keys \in SUBSET Nat /\ Keys # {} /\ IsFiniteSet(Keys) /\ RangeWidth \in Nat \ {0}
  BY ListAssumption
<1>2. PICK m \in Keys : \A n \in Keys : n <= m
  BY <1>1, LargestNatural
<1>3. Largest(Keys) = m
  BY <1>1, <1>2, LargestIs
<1>4. UInt32Max = m + 1 /\ m \in Nat
  BY <1>1, <1>2, <1>3 DEF UInt32Max
<1>5. UInt32Max \in Nat /\ \A k \in Keys : k < UInt32Max
  BY <1>1, <1>2, <1>4
<1>6. SlotOf(UInt32Max) \in Nat
  BY <1>1, <1>5, DivisionExists DEF SlotOf
<1> QED BY <1>1, <1>5, <1>6 DEF Slots

\* UINT32_MAX is above every key, and every key has a slot.
LEMMA KeysHaveSlots ==
  ASSUME NEW k \in Keys
  PROVE  /\ k \in Nat \ {0}
         /\ UInt32Max \in Nat
         /\ k < UInt32Max
         /\ SlotOf(k) \in Slots
         /\ SlotOf(k) \in Nat
         /\ Slots \subseteq Nat
<1>1. Keys \in SUBSET Nat /\ RangeWidth \in Nat \ {0} /\ k \in Nat \ {0}
  BY ListAssumption
<1>5. UInt32Max \in Nat /\ k < UInt32Max
  BY SentinelIsNatural
<1>6. SlotOf(k) \in Nat /\ SlotOf(UInt32Max) \in Nat
  BY <1>1, <1>5, DivisionExists DEF SlotOf
<1>7. SlotOf(k) <= SlotOf(UInt32Max)
  BY <1>1, <1>5, DivisionMonotone DEF SlotOf
<1> QED BY <1>1, <1>5, <1>6, <1>7 DEF Slots

\* The operands of a warp that runs.
LEMMA WarpOperands ==
  ASSUME ListTypeOK, WarpsOK, NEW w \in Warps, pc[w] # "idle"
  PROVE  op[w] \in Keys /\ Slot(w) \in Slots /\ Slot(w) = SlotOf(op[w])
BY KeysHaveSlots DEF WarpsOK, Slot

-----------------------------------------------------------------------------
(* Lookups. *)

LEMMA LookupInit == Init => LookupInv
<1> SUFFICES ASSUME Init PROVE LookupInv
  OBVIOUS
<1>1. ListTypeOK
  BY DEF Init, ListTypeOK, Labels
<1>2. WarpsOK /\ InnerOK /\ KeysAccounted
  BY DEF Init, WarpsOK, InnerOK, KeysAccounted, InsertLabels, MaxPending, MinPending
<1> QED BY <1>1, <1>2 DEF LookupInv

LEMMA LaunchLookup ==
  ASSUME LookupInv, LaunchInsert \/ LaunchDelete
  PROVE  LookupInv'
<1> USE DEF LookupInv
<1>1. /\ Quiet
      /\ UNCHANGED slotVars
      /\ pastMin' = [s \in Slots |-> {minKey[s]}]
      /\ pastMax' = [s \in Slots |-> {maxKey[s]}]
  BY DEF LaunchInsert, LaunchDelete, StartKernel
<1>2. /\ \A k \in inserted \ deleted : k \in inner[SlotOf(k)]
      /\ \A k \in deleted : k \notin inner[SlotOf(k)]
  BY <1>1 DEF Quiet, KeysAccounted
<1>3. CASE LaunchInsert
  <2>1. PICK keys \in [Warps -> Keys] :
          /\ op' = keys
          /\ pc' = [w \in Warps |-> "mark"]
          /\ inserted' = inserted \cup {keys[w] : w \in Warps}
    BY <1>3 DEF LaunchInsert, StartKernel
  <2>2. phase = "insert" /\ phase' = "insert" /\ deleted' = deleted
    BY <1>3 DEF LaunchInsert
  <2>3. ListTypeOK'
    BY <1>1, <2>1, <2>2 DEF ListTypeOK, slotVars, Labels, InsertLabels
  <2>4. WarpsOK'
    BY <2>1, <2>2 DEF WarpsOK, MaxPending, MinPending
  <2>5. InnerOK'
    BY <1>1, <2>1 DEF InnerOK, slotVars
  <2>6. KeysAccounted'
    <3>1. \A k \in inserted' \ deleted' :
            k \in inner'[SlotOf(k)] \/ \E w \in Warps : op'[w] = k /\ pc'[w] = "mark"
      BY <1>1, <1>2, <2>1, <2>2 DEF slotVars
    <3> QED BY <1>1, <1>2, <2>2, <3>1 DEF KeysAccounted, slotVars
  <2> QED BY <2>3, <2>4, <2>5, <2>6
<1>4. CASE LaunchDelete
  <2>1. PICK keys \in [Warps -> Keys] :
          /\ op' = keys
          /\ pc' = [w \in Warps |-> "erase"]
          /\ deleted' = deleted \cup {keys[w] : w \in Warps}
    BY <1>4 DEF LaunchDelete, StartKernel
  <2>2. phase' = "delete" /\ inserted' = inserted
    BY <1>4 DEF LaunchDelete
  <2>3. ListTypeOK'
    BY <1>1, <2>1, <2>2 DEF ListTypeOK, slotVars, Labels
  <2>4. WarpsOK'
    BY <2>1, <2>2 DEF WarpsOK, MaxPending, MinPending, InsertLabels
  <2>5. InnerOK'
    BY <1>1, <2>2 DEF InnerOK, slotVars
  <2>6. KeysAccounted'
    BY <1>1, <1>2, <2>1, <2>2 DEF KeysAccounted, slotVars
  <2> QED BY <2>3, <2>4, <2>5, <2>6
<1> QED BY <1>3, <1>4

\* The steps of an insert before the key is in its list.
LEMMA MarkLookup ==
  ASSUME LookupInv, NEW w \in Warps, MarkRange(w)
  PROVE  LookupInv'
<1> USE DEF LookupInv
<1>1. /\ pc[w] = "mark"
      /\ pc' = [pc EXCEPT ![w] = "listRange"]
      /\ range' = [range EXCEPT ![Slot(w)] = Slot(w) + 1]
      /\ UNCHANGED <<inner, minKey, maxKey, rangeList, past, op, host>>
  BY DEF MarkRange, GoTo, Denoted
<1>2. Slot(w) \in Slots /\ Slot(w) \in Nat /\ phase = "insert"
  BY <1>1, WarpOperands, KeysHaveSlots DEF WarpsOK, InsertLabels
<1>3. \A s \in Slots : range[s] # 0 => range'[s] # 0
  BY <1>1, <1>2 DEF ListTypeOK
<1>4. ListTypeOK'
  BY <1>1, <1>2 DEF ListTypeOK, Labels, InsertLabels, past, host
<1>5. WarpsOK'
  <2> SUFFICES ASSUME NEW v \in Warps
               PROVE  /\ pc'[v] # "idle" => op[v] \in Keys
                      /\ pc'[v] \in InsertLabels =>
                           phase = "insert" /\ op[v] \in inserted
                      /\ pc'[v] = "erase" => phase = "delete" /\ op[v] \in deleted
                      /\ pc'[v] \in InsertLabels \ {"mark"} => range'[Slot(v)] # 0
                      /\ pc'[v] \in MaxPending => op[v] \in inner[Slot(v)]
    BY <1>1 DEF WarpsOK, host, Slot
  <2>1. CASE v = w
    BY <1>1, <1>2, <2>1
       DEF WarpsOK, ListTypeOK, InsertLabels, MaxPending, MinPending
  <2>2. CASE v # w
    <3>1. pc'[v] = pc[v]
      BY <1>1, <2>2 DEF ListTypeOK
    <3>2. pc[v] # "idle" => Slot(v) \in Slots
      BY WarpOperands
    <3> QED BY <1>3, <3>1, <3>2 DEF WarpsOK, InsertLabels
  <2> QED BY <2>1, <2>2
<1>6. InnerOK'
  BY <1>1, <1>3 DEF InnerOK, host
<1>7. KeysAccounted'
  <2>1. \A v \in Warps : /\ pc[v] \in {"mark", "listRange", "insert"} =>
                              pc'[v] \in {"mark", "listRange", "insert"}
                         /\ pc[v] = "erase" => pc'[v] = "erase"
    BY <1>1 DEF ListTypeOK
  <2> QED BY <1>1, <2>1 DEF KeysAccounted, host
<1> QED BY <1>4, <1>5, <1>6, <1>7

\* A step that leaves the words and the lists of keys alone, and takes no warp out
\* of an insert that has not put its key, or into one.
LEMMA BoundStepLookup ==
  ASSUME LookupInv, NEW w \in Warps, NEW to \in Labels,
         \/ pc[w] = "listRange" /\ to = "insert"
         \/ pc[w] \in MaxPending /\ to \in MaxPending \cup {"idle"},
         pc' = [pc EXCEPT ![w] = to],
         UNCHANGED <<range, inner, op, host>>,
         minKey' \in [Slots -> Keys \cup {UInt32Max}],
         maxKey' \in [Slots -> Keys \cup {0}],
         rangeList' \in SUBSET (Slots \ {0}),
         pastMin' \in [Slots -> SUBSET (Keys \cup {UInt32Max})],
         pastMax' \in [Slots -> SUBSET (Keys \cup {0})]
  PROVE  LookupInv'
<1> USE DEF LookupInv
<1>1. ListTypeOK'
  BY DEF ListTypeOK, host
<1>2. WarpsOK'
  <2> SUFFICES ASSUME NEW v \in Warps
               PROVE  /\ pc'[v] # "idle" => op[v] \in Keys
                      /\ pc'[v] \in InsertLabels =>
                           phase = "insert" /\ op[v] \in inserted
                      /\ pc'[v] = "erase" => phase = "delete" /\ op[v] \in deleted
                      /\ pc'[v] \in InsertLabels \ {"mark"} => range[Slot(v)] # 0
                      /\ pc'[v] \in MaxPending => op[v] \in inner[Slot(v)]
    BY DEF WarpsOK, host, Slot
  <2>1. CASE v = w
    BY <2>1 DEF WarpsOK, ListTypeOK, InsertLabels, MaxPending, MinPending
  <2>2. CASE v # w
    <3>1. pc'[v] = pc[v]
      BY <2>2 DEF ListTypeOK
    <3> QED BY <3>1 DEF WarpsOK
  <2> QED BY <2>1, <2>2
<1>3. InnerOK'
  BY DEF InnerOK, host
<1>4. KeysAccounted'
  <2>1. \A v \in Warps : /\ pc[v] \in {"mark", "listRange", "insert"} =>
                              pc'[v] \in {"mark", "listRange", "insert"}
                         /\ pc[v] = "erase" => pc'[v] = "erase"
    BY DEF ListTypeOK, MaxPending, MinPending
  <2> QED BY <2>1 DEF KeysAccounted, host
<1> QED BY <1>1, <1>2, <1>3, <1>4

LEMMA InsertLookup ==
  ASSUME LookupInv, NEW w \in Warps, InsertInner(w)
  PROVE  LookupInv'
<1> USE DEF LookupInv
<1> DEFINE to == IF op[w] \in inner[Slot(w)] THEN "idle" ELSE "readMin"
<1>1. /\ pc[w] = "insert"
      /\ pc' = [pc EXCEPT ![w] = to]
      /\ inner' = [inner EXCEPT ![Slot(w)] = inner[Slot(w)] \cup {op[w]}]
      /\ UNCHANGED <<range, minKey, maxKey, rangeList, past, op, host>>
  BY DEF InsertInner, GoTo
<1>2. /\ Slot(w) \in Slots /\ op[w] \in Keys /\ Slot(w) = SlotOf(op[w])
      /\ phase = "insert" /\ op[w] \in inserted /\ range[Slot(w)] # 0
  BY <1>1, WarpOperands DEF WarpsOK, InsertLabels
<1>3. \A s \in Slots : inner'[s] = IF s = Slot(w) THEN inner[s] \cup {op[w]}
                                                  ELSE inner[s]
  BY <1>1 DEF ListTypeOK
<1>4. ListTypeOK'
  BY <1>1, <1>2 DEF ListTypeOK, Labels, InsertLabels, past, host
<1>5. WarpsOK'
  <2> SUFFICES ASSUME NEW v \in Warps
               PROVE  /\ pc'[v] # "idle" => op[v] \in Keys
                      /\ pc'[v] \in InsertLabels =>
                           phase = "insert" /\ op[v] \in inserted
                      /\ pc'[v] = "erase" => phase = "delete" /\ op[v] \in deleted
                      /\ pc'[v] \in InsertLabels \ {"mark"} => range[Slot(v)] # 0
                      /\ pc'[v] \in MaxPending => op[v] \in inner'[Slot(v)]
    BY <1>1 DEF WarpsOK, host, Slot
  <2>1. CASE v = w
    BY <1>1, <1>2, <1>3, <2>1 DEF ListTypeOK
  <2>2. CASE v # w
    <3>1. pc'[v] = pc[v]
      BY <1>1, <2>2 DEF ListTypeOK
    <3>2. pc[v] # "idle" => Slot(v) \in Slots
      BY WarpOperands
    <3> QED BY <1>3, <3>1, <3>2 DEF WarpsOK, MaxPending, MinPending
  <2> QED BY <2>1, <2>2
<1>6. InnerOK'
  BY <1>1, <1>2, <1>3 DEF InnerOK, host
<1>7. KeysAccounted'
  <2>1. deleted' = {} /\ inserted' = inserted
    BY <1>1, <1>2 DEF KeysAccounted, host
  <2>2. ASSUME NEW k \in inserted
        PROVE  \/ k \in inner'[SlotOf(k)]
               \/ \E v \in Warps : op[v] = k /\ pc'[v] \in {"mark", "listRange", "insert"}
    <3>0. k \in Keys /\ SlotOf(k) \in Slots
      BY KeysHaveSlots DEF ListTypeOK
    <3>1. CASE k \in inner[SlotOf(k)]
      BY <1>3, <3>0, <3>1
    <3>2. CASE k \notin inner[SlotOf(k)]
      <4>1. PICK v \in Warps : op[v] = k /\ pc[v] \in {"mark", "listRange", "insert"}
        BY <1>1, <1>2, <2>1, <3>2 DEF KeysAccounted, host
      <4>2. CASE v = w
        BY <1>2, <1>3, <4>1, <4>2
      <4>3. CASE v # w
        BY <1>1, <4>1, <4>3 DEF ListTypeOK
      <4> QED BY <4>2, <4>3
    <3> QED BY <3>1, <3>2
  <2> QED BY <1>1, <2>1, <2>2 DEF KeysAccounted
<1> QED BY <1>4, <1>5, <1>6, <1>7

LEMMA EraseLookup ==
  ASSUME LookupInv, NEW w \in Warps, EraseInner(w)
  PROVE  LookupInv'
<1> USE DEF LookupInv
<1>1. /\ pc[w] = "erase"
      /\ pc' = [pc EXCEPT ![w] = "idle"]
      /\ inner' = IF range[Slot(w)] # 0
                    THEN [inner EXCEPT ![Slot(w)] = inner[Slot(w)] \ {op[w]}] ELSE inner
      /\ UNCHANGED <<range, minKey, maxKey, rangeList, past, op, host>>
  BY DEF EraseInner, GoTo
<1>2. /\ Slot(w) \in Slots /\ op[w] \in Keys /\ Slot(w) = SlotOf(op[w])
      /\ phase = "delete" /\ op[w] \in deleted
  BY <1>1, WarpOperands DEF WarpsOK
<1>3. \A s \in Slots : inner'[s] = IF s = Slot(w) THEN inner[s] \ {op[w]} ELSE inner[s]
  BY <1>1, <1>2 DEF ListTypeOK, InnerOK
<1>4. ListTypeOK'
  BY <1>1, <1>2 DEF ListTypeOK, Labels, past, host
<1>5. WarpsOK'
  <2> SUFFICES ASSUME NEW v \in Warps
               PROVE  /\ pc'[v] # "idle" => op[v] \in Keys
                      /\ pc'[v] \notin InsertLabels
                      /\ pc'[v] = "erase" => phase = "delete" /\ op[v] \in deleted
    BY <1>1 DEF WarpsOK, host, InsertLabels, MaxPending, MinPending
  <2> QED BY <1>1, <1>2 DEF WarpsOK, ListTypeOK, InsertLabels
<1>6. InnerOK'
  BY <1>1, <1>3 DEF InnerOK, host
<1>7. KeysAccounted'
  <2>1. ASSUME NEW k \in inserted \ deleted
        PROVE  k \in inner'[SlotOf(k)]
    <3>1. k \in inner[SlotOf(k)]
      BY <1>2 DEF KeysAccounted, WarpsOK, InsertLabels
    <3>2. SlotOf(k) \in Slots
      BY KeysHaveSlots DEF ListTypeOK
    <3> QED BY <1>2, <1>3, <3>1, <3>2
  <2>2. ASSUME NEW k \in deleted, k \in inner'[SlotOf(k)]
        PROVE  \E v \in Warps : op[v] = k /\ pc'[v] = "erase"
    <3>1. SlotOf(k) \in Slots
      BY KeysHaveSlots DEF ListTypeOK
    <3>2. k \in inner[SlotOf(k)] /\ k # op[w]
      BY <1>2, <1>3, <2>2, <3>1
    <3>3. PICK v \in Warps : op[v] = k /\ pc[v] = "erase"
      BY <3>2 DEF KeysAccounted
    <3> QED BY <1>1, <3>2, <3>3 DEF ListTypeOK
  <2> QED BY <1>1, <1>2, <2>1, <2>2 DEF KeysAccounted, host
<1> QED BY <1>4, <1>5, <1>6, <1>7

\* What the atomics store is a key, or the bound that was there.
LEMMA AtomicBounds ==
  ASSUME ListTypeOK, NEW k \in Keys, NEW s \in Slots
  PROVE  /\ minKey[s] \in Nat /\ maxKey[s] \in Nat
         /\ Smallest({minKey[s], k}) = IF minKey[s] <= k THEN minKey[s] ELSE k
         /\ Largest({maxKey[s], k}) = IF k <= maxKey[s] THEN maxKey[s] ELSE k
<1>1. minKey[s] \in Nat /\ maxKey[s] \in Nat /\ k \in Nat
  BY KeysHaveSlots DEF ListTypeOK
<1> QED BY <1>1, SmallestOfTwo, LargestOfTwo

LEMMA OtherStepsLookup ==
  ASSUME LookupInv, NEW w \in Warps,
         \/ ListRange(w) \/ ReadMin(w) \/ AtomicMin(w) \/ ReadMax(w) \/ AtomicMax(w)
  PROVE  LookupInv'
<1> DEFINE s == Slot(w)
<1>1. pc[w] # "idle" => op[w] \in Keys /\ s \in Slots /\ s \in Nat
  BY WarpOperands, KeysHaveSlots DEF LookupInv
<1>t. /\ minKey \in [Slots -> Keys \cup {UInt32Max}]
      /\ maxKey \in [Slots -> Keys \cup {0}]
      /\ rangeList \in SUBSET (Slots \ {0})
      /\ pastMin \in [Slots -> SUBSET (Keys \cup {UInt32Max})]
      /\ pastMax \in [Slots -> SUBSET (Keys \cup {0})]
  BY DEF LookupInv, ListTypeOK
<1>2. CASE ListRange(w)
  <2>1. /\ pc[w] = "listRange" /\ pc' = [pc EXCEPT ![w] = "insert"]
        /\ rangeList' \in {rangeList, rangeList \cup ({s} \ {0})}
        /\ UNCHANGED <<range, inner, minKey, maxKey, past, op, host>>
    BY <1>2 DEF ListRange, GoTo, NegInf
  <2>2. rangeList' \in SUBSET (Slots \ {0})
    BY <1>1, <1>t, <2>1
  <2> QED BY <1>t, <2>1, <2>2, BoundStepLookup DEF past, Labels, InsertLabels
<1>3. CASE ReadMin(w)
  <2>1. /\ pc[w] = "readMin"
        /\ \E to \in {"min", "readMax"} : pc' = [pc EXCEPT ![w] = to]
        /\ UNCHANGED <<slotVars, past, op, host>>
    BY <1>3 DEF ReadMin, GoTo
  <2> QED BY <1>t, <2>1, BoundStepLookup
          DEF slotVars, past, Labels, InsertLabels, MaxPending, MinPending
<1>4. CASE AtomicMin(w)
  <2>1. /\ pc[w] = "min" /\ pc' = [pc EXCEPT ![w] = "readMax"]
        /\ minKey' = [minKey EXCEPT ![s] = Smallest({minKey[s], op[w]})]
        /\ pastMin' = [pastMin EXCEPT ![s] = pastMin[s] \cup {minKey'[s]}]
        /\ UNCHANGED <<range, inner, maxKey, rangeList, pastMax, op, host>>
    BY <1>4 DEF AtomicMin, GoTo
  <2>2. Smallest({minKey[s], op[w]}) \in Keys \cup {UInt32Max}
    <3>1. op[w] \in Keys /\ s \in Slots /\ ListTypeOK
      BY <1>1, <2>1 DEF LookupInv
    <3>2. Smallest({minKey[s], op[w]}) \in {minKey[s], op[w]}
      BY <3>1, AtomicBounds
    <3> QED BY <1>t, <3>1, <3>2
  <2>3. /\ minKey' \in [Slots -> Keys \cup {UInt32Max}]
        /\ pastMin' \in [Slots -> SUBSET (Keys \cup {UInt32Max})]
    BY <1>1, <1>t, <2>1, <2>2
  <2> QED BY <1>t, <2>1, <2>3, BoundStepLookup
          DEF Labels, InsertLabels, MaxPending, MinPending
<1>5. CASE ReadMax(w)
  <2>1. /\ pc[w] = "readMax"
        /\ \E to \in {"max", "idle"} : pc' = [pc EXCEPT ![w] = to]
        /\ UNCHANGED <<slotVars, past, op, host>>
    BY <1>5 DEF ReadMax, GoTo
  <2> QED BY <1>t, <2>1, BoundStepLookup
          DEF slotVars, past, Labels, InsertLabels, MaxPending, MinPending
<1>6. CASE AtomicMax(w)
  <2>1. /\ pc[w] = "max" /\ pc' = [pc EXCEPT ![w] = "idle"]
        /\ maxKey' = [maxKey EXCEPT ![s] = Largest({maxKey[s], op[w]})]
        /\ pastMax' = [pastMax EXCEPT ![s] = pastMax[s] \cup {maxKey'[s]}]
        /\ UNCHANGED <<range, inner, minKey, rangeList, pastMin, op, host>>
    BY <1>6 DEF AtomicMax, GoTo
  <2>2. Largest({maxKey[s], op[w]}) \in Keys \cup {0}
    <3>1. op[w] \in Keys /\ s \in Slots /\ ListTypeOK
      BY <1>1, <2>1 DEF LookupInv
    <3>2. Largest({maxKey[s], op[w]}) \in {maxKey[s], op[w]}
      BY <3>1, AtomicBounds
    <3> QED BY <1>t, <3>1, <3>2
  <2>3. /\ maxKey' \in [Slots -> Keys \cup {0}]
        /\ pastMax' \in [Slots -> SUBSET (Keys \cup {0})]
    BY <1>1, <1>t, <2>1, <2>2
  <2> QED BY <1>t, <2>1, <2>3, BoundStepLookup
          DEF Labels, InsertLabels, MaxPending, MinPending
<1> QED BY <1>2, <1>3, <1>4, <1>5, <1>6

LEMMA LookupPreserved == LookupInv /\ [Next]_vars => LookupInv'
<1> SUFFICES ASSUME LookupInv, [Next]_vars PROVE LookupInv'
  OBVIOUS
<1>1. CASE Finished \/ UNCHANGED vars
  <2>1. UNCHANGED vars
    BY <1>1 DEF Finished
  <2>2. UNCHANGED <<slotVars, past, pc, op, host>>
    BY <2>1 DEF vars
  <2>3. ListTypeOK'
    BY <2>2 DEF LookupInv, ListTypeOK, slotVars, past, host
  <2>4. WarpsOK'
    BY <2>2 DEF LookupInv, WarpsOK, slotVars, host, Slot
  <2>5. InnerOK' /\ KeysAccounted'
    BY <2>2 DEF LookupInv, InnerOK, KeysAccounted, slotVars, host
  <2> QED BY <2>3, <2>4, <2>5 DEF LookupInv
<1>2. ASSUME NEW w \in Warps, WarpStep(w)
      PROVE  LookupInv'
  BY <1>2, MarkLookup, InsertLookup, EraseLookup, OtherStepsLookup DEF WarpStep
<1> QED BY <1>1, <1>2, LaunchLookup DEF Next

\* At every step of every kernel a present key lies in the slot of its range, which is
\* marked and, once its warps are through, listed (batch_insert, batch_delete).
THEOREM LookupInvariant == Spec => []LookupInv
BY LookupInit, LookupPreserved, PTL DEF Spec

\* Between kernels a lookup finds exactly the keys that were inserted and not
\* deleted (batch_insert, batch_delete, batch_contains), however the warps race to
\* mark a range, list it and insert into it.
THEOREM LookupsAreRight == Spec => []LookupsRight
<1>1. LookupInv => LookupsRight
  <2> SUFFICES ASSUME LookupInv, Quiet, NEW k \in Keys
               PROVE  Contains(k) = (k \in inserted \ deleted)
    BY DEF LookupsRight
  <2>1. SlotOf(k) \in Slots
    BY KeysHaveSlots
  <2>2. k \in inserted \ deleted => k \in inner[SlotOf(k)]
    BY DEF LookupInv, KeysAccounted, Quiet
  <2>3. k \in inner[SlotOf(k)] => k \in inserted \ deleted /\ range[SlotOf(k)] # 0
    BY <2>1 DEF LookupInv, KeysAccounted, InnerOK, Quiet
  <2> QED BY <2>2, <2>3 DEF Contains
<1> QED BY <1>1, LookupInvariant, PTL

-----------------------------------------------------------------------------
(* The bounds of the slots and the list of ranges. *)

\* While keys are inserted, a bound is a key of the list or the value it started
\* from; a stale load is a bound that is no tighter.
BoundsFromKeys ==
  /\ phase = "insert" =>
       \A s \in Slots : /\ minKey[s] \in inner[s] \cup {UInt32Max}
                        /\ maxKey[s] \in inner[s] \cup {0}
  /\ \A s \in Slots : /\ \A m \in pastMin[s] : minKey[s] <= m
                      /\ \A m \in pastMax[s] : m <= maxKey[s]

\* A key is within the bounds, or the warp that inserted it is still to see to it.
BoundsTold ==
  phase = "insert" =>
    \A s \in Slots : \A k \in inner[s] :
      /\ minKey[s] <= k \/ \E w \in Warps : op[w] = k /\ pc[w] \in MinPending
      /\ k <= maxKey[s] \/ \E w \in Warps : op[w] = k /\ pc[w] \in MaxPending

\* A range other than the first is listed before it gets a key, and listed only by
\* a warp that goes on to insert one.
RangesListed ==
  phase = "insert" =>
    \A s \in Slots \ {0} :
      /\ inner[s] # {} => s \in rangeList
      /\ s \in rangeList => \/ inner[s] # {}
                            \/ \E w \in Warps : pc[w] = "insert" /\ Slot(w) = s
      /\ \A w \in Warps : pc[w] = "insert" /\ Slot(w) = s => s \in rangeList

BoundsInv == BoundsFromKeys /\ BoundsTold /\ RangesListed

LEMMA BoundsInit == Init => BoundsInv
<1> SUFFICES ASSUME Init PROVE BoundsInv
  OBVIOUS
<1>1. BoundsFromKeys
  <2>1. \A s \in Slots : /\ minKey[s] = UInt32Max /\ maxKey[s] = 0
                         /\ pastMin[s] = {UInt32Max} /\ pastMax[s] = {0}
    BY DEF Init
  <2> QED BY <2>1, SentinelIsNatural DEF BoundsFromKeys
<1>2. BoundsTold /\ RangesListed
  BY DEF Init, BoundsTold, RangesListed
<1> QED BY <1>1, <1>2 DEF BoundsInv

LEMMA LaunchBounds ==
  ASSUME LookupInv, BoundsInv, LaunchInsert \/ LaunchDelete
  PROVE  BoundsInv'
<1>1. /\ Quiet
      /\ UNCHANGED slotVars
      /\ pastMin' = [s \in Slots |-> {minKey[s]}]
      /\ pastMax' = [s \in Slots |-> {maxKey[s]}]
  BY DEF LaunchInsert, LaunchDelete, StartKernel
<1>2. \A s \in Slots : minKey[s] \in Nat /\ maxKey[s] \in Nat
  <2>1. /\ minKey \in [Slots -> Keys \cup {UInt32Max}]
        /\ maxKey \in [Slots -> Keys \cup {0}]
    BY DEF LookupInv, ListTypeOK
  <2>2. Keys \cup {UInt32Max} \subseteq Nat /\ Keys \cup {0} \subseteq Nat
    BY SentinelIsNatural
  <2> QED BY <2>1, <2>2
<1>3. CASE LaunchInsert
  <2>1. phase = "insert" /\ phase' = "insert" /\ pc' = [w \in Warps |-> "mark"]
    BY <1>3 DEF LaunchInsert, StartKernel
  <2>2. BoundsFromKeys'
    BY <1>1, <1>2, <2>1 DEF BoundsInv, BoundsFromKeys, slotVars
  <2>3. BoundsTold'
    BY <1>1, <2>1 DEF BoundsInv, BoundsTold, Quiet, slotVars, MinPending, MaxPending
  <2>4. RangesListed'
    BY <1>1, <2>1 DEF BoundsInv, RangesListed, Quiet, slotVars
  <2> QED BY <2>2, <2>3, <2>4 DEF BoundsInv
<1>4. CASE LaunchDelete
  <2>1. phase' = "delete"
    BY <1>4 DEF LaunchDelete
  <2>2. BoundsFromKeys'
    BY <1>1, <1>2, <2>1 DEF BoundsFromKeys, slotVars
  <2> QED BY <2>1, <2>2 DEF BoundsInv, BoundsTold, RangesListed
<1> QED BY <1>3, <1>4

LEMMA EraseBounds ==
  ASSUME LookupInv, BoundsInv, NEW w \in Warps, EraseInner(w)
  PROVE  BoundsInv'
<1>1. phase' = "delete" /\ UNCHANGED <<minKey, maxKey, past>>
  BY DEF EraseInner, LookupInv, WarpsOK, host
<1> QED BY <1>1 DEF BoundsInv, BoundsFromKeys, BoundsTold, RangesListed, past

LEMMA MarkBounds ==
  ASSUME LookupInv, BoundsInv, NEW w \in Warps, MarkRange(w) \/ ListRange(w)
  PROVE  BoundsInv'
<1>1. /\ phase = "insert" /\ pc[w] \in {"mark", "listRange"}
      /\ op[w] \in Keys /\ Slot(w) \in Slots
      /\ UNCHANGED <<inner, minKey, maxKey, past, op, host>>
  BY WarpOperands DEF MarkRange, ListRange, LookupInv, WarpsOK, InsertLabels
<1>2. PICK to \in {"listRange", "insert"} : pc' = [pc EXCEPT ![w] = to]
  BY DEF MarkRange, ListRange, GoTo
<1>3. \A v \in Warps : pc'[v] = IF v = w THEN to ELSE pc[v]
  BY <1>2 DEF LookupInv, ListTypeOK
<1>4. BoundsFromKeys'
  BY <1>1 DEF BoundsInv, BoundsFromKeys, past, host
<1>5. BoundsTold'
  <2>1. \A v \in Warps : pc[v] \in MaxPending => pc'[v] = pc[v]
    BY <1>1, <1>3 DEF MaxPending, MinPending
  <2>2. MinPending \subseteq MaxPending
    BY DEF MaxPending
  <2> QED BY <1>1, <2>1, <2>2 DEF BoundsInv, BoundsTold, host
<1>6. RangesListed'
  <2> SUFFICES ASSUME NEW s \in Slots \ {0}
               PROVE  /\ inner[s] # {} => s \in rangeList'
                      /\ s \in rangeList' =>
                           \/ inner[s] # {}
                           \/ \E v \in Warps : pc'[v] = "insert" /\ Slot(v) = s
                      /\ \A v \in Warps :
                           pc'[v] = "insert" /\ Slot(v) = s => s \in rangeList'
    BY <1>1 DEF RangesListed, host, Slot
  <2>1. CASE MarkRange(w)
    <3>1. rangeList' = rangeList /\ to = "listRange"
      BY <2>1, <1>2, <1>3 DEF MarkRange, GoTo, LookupInv, ListTypeOK
    <3> QED BY <1>1, <1>3, <3>1 DEF BoundsInv, RangesListed
  <2>2. CASE ListRange(w)
    <3>1. range[Slot(w)] # 0 /\ pc[w] = "listRange"
      BY <2>2 DEF ListRange, LookupInv, WarpsOK, InsertLabels
    <3>2. rangeList' = rangeList \cup ({Slot(w)} \ {0})
      BY <2>2, <3>1 DEF ListRange, NegInf
    <3>3. to = "insert"
      BY <2>2, <1>2, <1>3 DEF ListRange, GoTo, LookupInv, ListTypeOK
    <3> QED BY <1>1, <1>3, <3>1, <3>2, <3>3 DEF BoundsInv, RangesListed
  <2> QED BY <2>1, <2>2
<1> QED BY <1>4, <1>5, <1>6 DEF BoundsInv

LEMMA InsertBounds ==
  ASSUME LookupInv, BoundsInv, NEW w \in Warps, InsertInner(w)
  PROVE  BoundsInv'
<1>1. /\ phase = "insert" /\ pc[w] = "insert"
      /\ op[w] \in Keys /\ Slot(w) \in Slots
      /\ UNCHANGED <<minKey, maxKey, rangeList, past, op, host>>
  BY WarpOperands DEF InsertInner, LookupInv, WarpsOK, InsertLabels
<1>2. pc' = [pc EXCEPT ![w] = IF op[w] \in inner[Slot(w)] THEN "idle" ELSE "readMin"]
  BY DEF InsertInner, GoTo
<1>3. /\ \A v \in Warps : v # w => pc'[v] = pc[v]
      /\ pc'[w] = IF op[w] \in inner[Slot(w)] THEN "idle" ELSE "readMin"
      /\ \A s \in Slots : inner'[s] = IF s = Slot(w) THEN inner[s] \cup {op[w]}
                                                    ELSE inner[s]
  BY <1>1, <1>2 DEF InsertInner, LookupInv, ListTypeOK
<1>4. BoundsFromKeys'
  BY <1>1, <1>3 DEF BoundsInv, BoundsFromKeys, past, host
<1>5. BoundsTold'
  <2> SUFFICES ASSUME NEW s \in Slots, NEW k \in inner'[s]
               PROVE  /\ \/ minKey[s] <= k
                         \/ \E v \in Warps : op[v] = k /\ pc'[v] \in MinPending
                      /\ \/ k <= maxKey[s]
                         \/ \E v \in Warps : op[v] = k /\ pc'[v] \in MaxPending
    BY <1>1 DEF BoundsTold, host
  <2>1. CASE k \in inner[s]
    <3>1. \A v \in Warps : pc[v] \in MaxPending => pc'[v] = pc[v]
      BY <1>1, <1>3 DEF MaxPending, MinPending
    <3>2. MinPending \subseteq MaxPending
      BY DEF MaxPending
    <3> QED BY <1>1, <2>1, <3>1, <3>2 DEF BoundsInv, BoundsTold
  <2>2. CASE k \notin inner[s]
    <3>1. s = Slot(w) /\ k = op[w]
      BY <1>3, <2>2
    <3> QED BY <1>3, <2>2, <3>1 DEF MinPending, MaxPending
  <2> QED BY <2>1, <2>2
<1>6. RangesListed'
  <2> SUFFICES ASSUME NEW s \in Slots \ {0}
               PROVE  /\ inner'[s] # {} => s \in rangeList
                      /\ s \in rangeList =>
                           \/ inner'[s] # {}
                           \/ \E v \in Warps : pc'[v] = "insert" /\ Slot(v) = s
                      /\ \A v \in Warps :
                           pc'[v] = "insert" /\ Slot(v) = s => s \in rangeList
    BY <1>1 DEF RangesListed, host, Slot
  <2> QED BY <1>1, <1>3 DEF BoundsInv, RangesListed
<1> QED BY <1>4, <1>5, <1>6 DEF BoundsInv

LEMMA MinBounds ==
  ASSUME LookupInv, BoundsInv, NEW w \in Warps, ReadMin(w) \/ AtomicMin(w)
  PROVE  BoundsInv'
<1> DEFINE s == Slot(w)
           k == op[w]
<1>1. /\ phase = "insert" /\ pc[w] \in MinPending
      /\ k \in Keys /\ s \in Slots /\ k \in inner[s] /\ SlotOf(k) = s
      /\ UNCHANGED <<range, inner, maxKey, rangeList, pastMax, op, host>>
  BY WarpOperands
     DEF ReadMin, AtomicMin, LookupInv, WarpsOK, InsertLabels, MaxPending, MinPending,
         slotVars, past
<1>2. PICK to \in {"min", "readMax"} : pc' = [pc EXCEPT ![w] = to]
  BY DEF ReadMin, AtomicMin, GoTo
<1>3. \A v \in Warps : pc'[v] = IF v = w THEN to ELSE pc[v]
  BY <1>2 DEF LookupInv, ListTypeOK
<1>4. /\ \A t \in Slots : minKey[t] \in Nat /\ pastMin[t] \subseteq Nat
      /\ k \in Nat
  <2>1. /\ minKey \in [Slots -> Keys \cup {UInt32Max}]
        /\ pastMin \in [Slots -> SUBSET (Keys \cup {UInt32Max})]
    BY DEF LookupInv, ListTypeOK
  <2>2. Keys \cup {UInt32Max} \subseteq Nat /\ Keys \cup {0} \subseteq Nat
    BY SentinelIsNatural
  <2> QED BY <1>1, <2>1, <2>2
\* The bound is lowered, and past the test it is not above the warp's key.
<1>5. /\ \A t \in Slots : /\ minKey'[t] \in Nat /\ minKey'[t] <= minKey[t]
                          /\ minKey'[t] \in inner[t] \cup {UInt32Max}
                          /\ \A m \in pastMin'[t] : minKey'[t] <= m
      /\ to = "min" \/ minKey'[s] <= k
  <2>1. CASE ReadMin(w)
    <3>1. minKey' = minKey /\ pastMin' = pastMin
      BY <2>1 DEF ReadMin, slotVars, past
    <3>2. PICK seen \in pastMin[s] : to = "min" \/ ~(seen > k)
      BY <2>1, <1>3, <1>2 DEF ReadMin, GoTo, LookupInv, ListTypeOK
    <3>3. seen \in Nat /\ minKey[s] <= seen
      BY <1>1, <1>4, <3>2 DEF BoundsInv, BoundsFromKeys
    <3> QED BY <1>1, <1>4, <3>1, <3>2, <3>3 DEF BoundsInv, BoundsFromKeys
  <2>2. CASE AtomicMin(w)
    <3>1. /\ minKey' = [minKey EXCEPT ![s] = Smallest({minKey[s], k})]
          /\ pastMin' = [pastMin EXCEPT ![s] = pastMin[s] \cup {minKey'[s]}]
      BY <2>2 DEF AtomicMin
    <3>2. Smallest({minKey[s], k}) = IF minKey[s] <= k THEN minKey[s] ELSE k
      BY <1>1, AtomicBounds DEF LookupInv
    <3> HIDE DEF s, k
    <3>3. \A t \in Slots :
            /\ t # s => minKey'[t] = minKey[t] /\ pastMin'[t] = pastMin[t]
            /\ minKey'[s] = IF minKey[s] <= k THEN minKey[s] ELSE k
            /\ pastMin'[s] = pastMin[s] \cup {minKey'[s]}
      BY <1>1, <3>1, <3>2 DEF LookupInv, ListTypeOK
    <3>4. \A t \in Slots : /\ minKey[t] \in inner[t] \cup {UInt32Max}
                           /\ \A m \in pastMin[t] : minKey[t] <= m
      BY <1>1 DEF BoundsInv, BoundsFromKeys
    <3>5. ASSUME NEW t \in Slots, t # s
          PROVE  /\ minKey'[t] \in Nat /\ minKey'[t] <= minKey[t]
                 /\ minKey'[t] \in inner[t] \cup {UInt32Max}
                 /\ \A m \in pastMin'[t] : minKey'[t] <= m
      BY <1>4, <3>3, <3>4, <3>5
    <3>6. /\ minKey'[s] \in Nat /\ minKey'[s] <= minKey[s] /\ minKey'[s] <= k
          /\ minKey'[s] \in inner[s] \cup {UInt32Max}
      BY <1>1, <1>4, <3>3, <3>4
    <3>7. \A m \in pastMin'[s] : minKey'[s] <= m
      BY <1>1, <1>4, <3>3, <3>4, <3>6
    <3> QED BY <3>5, <3>6, <3>7
  <2> QED BY <2>1, <2>2
<1>6. BoundsFromKeys'
  BY <1>1, <1>5 DEF BoundsInv, BoundsFromKeys, host
<1>7. BoundsTold'
  <2> SUFFICES ASSUME NEW t \in Slots, NEW j \in inner[t]
               PROVE  /\ \/ minKey'[t] <= j
                         \/ \E v \in Warps : op[v] = j /\ pc'[v] \in MinPending
                      /\ \/ j <= maxKey[t]
                         \/ \E v \in Warps : op[v] = j /\ pc'[v] \in MaxPending
    BY <1>1 DEF BoundsTold, host
  <2>1. \/ j <= maxKey[t]
        \/ \E v \in Warps : op[v] = j /\ pc'[v] \in MaxPending
    <3>1. \A v \in Warps : pc[v] \in MaxPending => pc'[v] \in MaxPending
      BY <1>2, <1>3 DEF MaxPending, MinPending
    <3> QED BY <1>1, <3>1 DEF BoundsInv, BoundsTold
  <2>2. j \in Nat /\ SlotOf(j) = t
    BY SentinelIsNatural DEF LookupInv, ListTypeOK, InnerOK
  <2>3. CASE minKey[t] <= j
    BY <1>4, <1>5, <2>1, <2>2, <2>3
  <2>4. CASE ~(minKey[t] <= j)
    <3>1. PICK v \in Warps : op[v] = j /\ pc[v] \in MinPending
      BY <1>1, <2>4 DEF BoundsInv, BoundsTold
    <3>2. CASE v # w
      BY <1>3, <2>1, <3>1, <3>2
    <3>3. CASE v = w
      <4>1. j = k /\ t = s
        BY <1>1, <2>2, <3>1, <3>3
      <4> QED BY <1>3, <1>5, <2>1, <3>1, <3>3, <4>1 DEF MinPending
    <3> QED BY <3>2, <3>3
  <2> QED BY <2>1, <2>3, <2>4
<1>8. RangesListed'
  <2>1. \A v \in Warps : (pc'[v] = "insert") = (pc[v] = "insert")
    BY <1>1, <1>2, <1>3 DEF MinPending
  <2> QED BY <1>1, <2>1 DEF BoundsInv, RangesListed, host, Slot
<1> QED BY <1>6, <1>7, <1>8 DEF BoundsInv

LEMMA MaxBounds ==
  ASSUME LookupInv, BoundsInv, NEW w \in Warps, ReadMax(w) \/ AtomicMax(w)
  PROVE  BoundsInv'
<1> DEFINE s == Slot(w)
           k == op[w]
<1>1. /\ phase = "insert" /\ pc[w] \in MaxPending \ MinPending
      /\ k \in Keys /\ s \in Slots /\ k \in inner[s] /\ SlotOf(k) = s
      /\ UNCHANGED <<range, inner, minKey, rangeList, pastMin, op, host>>
  BY WarpOperands
     DEF ReadMax, AtomicMax, LookupInv, WarpsOK, InsertLabels, MaxPending, MinPending,
         slotVars, past
<1>2. PICK to \in {"max", "idle"} : pc' = [pc EXCEPT ![w] = to]
  BY DEF ReadMax, AtomicMax, GoTo
<1>3. \A v \in Warps : pc'[v] = IF v = w THEN to ELSE pc[v]
  BY <1>2 DEF LookupInv, ListTypeOK
<1>4. /\ \A t \in Slots : maxKey[t] \in Nat /\ pastMax[t] \subseteq Nat
      /\ k \in Nat
  <2>1. /\ maxKey \in [Slots -> Keys \cup {0}]
        /\ pastMax \in [Slots -> SUBSET (Keys \cup {0})]
    BY DEF LookupInv, ListTypeOK
  <2>2. Keys \cup {UInt32Max} \subseteq Nat /\ Keys \cup {0} \subseteq Nat
    BY SentinelIsNatural
  <2> QED BY <1>1, <2>1, <2>2
\* The bound is raised, and past the test it is not below the warp's key.
<1>5. /\ \A t \in Slots : /\ maxKey'[t] \in Nat /\ maxKey[t] <= maxKey'[t]
                          /\ maxKey'[t] \in inner[t] \cup {0}
                          /\ \A m \in pastMax'[t] : m <= maxKey'[t]
      /\ to = "max" \/ k <= maxKey'[s]
  <2>1. CASE ReadMax(w)
    <3>1. maxKey' = maxKey /\ pastMax' = pastMax
      BY <2>1 DEF ReadMax, slotVars, past
    <3>2. PICK seen \in pastMax[s] : to = "max" \/ ~(seen < k)
      BY <2>1, <1>3, <1>2 DEF ReadMax, GoTo, LookupInv, ListTypeOK
    <3>3. seen \in Nat /\ seen <= maxKey[s]
      BY <1>1, <1>4, <3>2 DEF BoundsInv, BoundsFromKeys
    <3> QED BY <1>1, <1>4, <3>1, <3>2, <3>3 DEF BoundsInv, BoundsFromKeys
  <2>2. CASE AtomicMax(w)
    <3>1. /\ maxKey' = [maxKey EXCEPT ![s] = Largest({maxKey[s], k})]
          /\ pastMax' = [pastMax EXCEPT ![s] = pastMax[s] \cup {maxKey'[s]}]
      BY <2>2 DEF AtomicMax
    <3>2. Largest({maxKey[s], k}) = IF k <= maxKey[s] THEN maxKey[s] ELSE k
      BY <1>1, AtomicBounds DEF LookupInv
    <3> HIDE DEF s, k
    <3>3. \A t \in Slots :
            /\ t # s => maxKey'[t] = maxKey[t] /\ pastMax'[t] = pastMax[t]
            /\ maxKey'[s] = IF k <= maxKey[s] THEN maxKey[s] ELSE k
            /\ pastMax'[s] = pastMax[s] \cup {maxKey'[s]}
      BY <1>1, <3>1, <3>2 DEF LookupInv, ListTypeOK
    <3>4. \A t \in Slots : /\ maxKey[t] \in inner[t] \cup {0}
                           /\ \A m \in pastMax[t] : m <= maxKey[t]
      BY <1>1 DEF BoundsInv, BoundsFromKeys
    <3>5. ASSUME NEW t \in Slots, t # s
          PROVE  /\ maxKey'[t] \in Nat /\ maxKey[t] <= maxKey'[t]
                 /\ maxKey'[t] \in inner[t] \cup {0}
                 /\ \A m \in pastMax'[t] : m <= maxKey'[t]
      BY <1>4, <3>3, <3>4, <3>5
    <3>6. /\ maxKey'[s] \in Nat /\ maxKey[s] <= maxKey'[s] /\ k <= maxKey'[s]
          /\ maxKey'[s] \in inner[s] \cup {0}
      BY <1>1, <1>4, <3>3, <3>4
    <3>7. \A m \in pastMax'[s] : m <= maxKey'[s]
      BY <1>1, <1>4, <3>3, <3>4, <3>6
    <3> QED BY <3>5, <3>6, <3>7
  <2> QED BY <2>1, <2>2
<1>6. BoundsFromKeys'
  BY <1>1, <1>5 DEF BoundsInv, BoundsFromKeys, host
<1>7. BoundsTold'
  <2> SUFFICES ASSUME NEW t \in Slots, NEW j \in inner[t]
               PROVE  /\ \/ minKey[t] <= j
                         \/ \E v \in Warps : op[v] = j /\ pc'[v] \in MinPending
                      /\ \/ j <= maxKey'[t]
                         \/ \E v \in Warps : op[v] = j /\ pc'[v] \in MaxPending
    BY <1>1 DEF BoundsTold, host
  <2>1. \/ minKey[t] <= j
        \/ \E v \in Warps : op[v] = j /\ pc'[v] \in MinPending
    BY <1>1, <1>3 DEF BoundsInv, BoundsTold
  <2>2. j \in Nat /\ SlotOf(j) = t
    BY SentinelIsNatural DEF LookupInv, ListTypeOK, InnerOK
  <2>3. CASE j <= maxKey[t]
    BY <1>4, <1>5, <2>1, <2>2, <2>3
  <2>4. CASE ~(j <= maxKey[t])
    <3>1. PICK v \in Warps : op[v] = j /\ pc[v] \in MaxPending
      BY <1>1, <2>4 DEF BoundsInv, BoundsTold
    <3>2. CASE v # w
      BY <1>3, <2>1, <3>1, <3>2
    <3>3. CASE v = w
      <4>1. j = k /\ t = s
        BY <1>1, <2>2, <3>1, <3>3
      <4> QED BY <1>3, <1>5, <2>1, <3>1, <3>3, <4>1 DEF MaxPending
    <3> QED BY <3>2, <3>3
  <2> QED BY <2>1, <2>3, <2>4
<1>8. RangesListed'
  <2>1. \A v \in Warps : (pc'[v] = "insert") = (pc[v] = "insert")
    BY <1>1, <1>2, <1>3 DEF MaxPending, MinPending
  <2> QED BY <1>1, <2>1 DEF BoundsInv, RangesListed, host, Slot
<1> QED BY <1>6, <1>7, <1>8 DEF BoundsInv

LEMMA BoundsPreserved == LookupInv /\ BoundsInv /\ [Next]_vars => BoundsInv'
<1> SUFFICES ASSUME LookupInv, BoundsInv, [Next]_vars PROVE BoundsInv'
  OBVIOUS
<1>1. CASE Finished \/ UNCHANGED vars
  <2>1. UNCHANGED <<slotVars, past, pc, op, host>>
    BY <1>1 DEF Finished, vars
  <2> QED BY <2>1 DEF BoundsInv, BoundsFromKeys, BoundsTold, RangesListed,
                      slotVars, past, host, Slot
<1>2. ASSUME NEW w \in Warps, WarpStep(w)
      PROVE  BoundsInv'
  BY <1>2, MarkBounds, InsertBounds, MinBounds, MaxBounds, EraseBounds DEF WarpStep
<1> QED BY <1>1, <1>2, LaunchBounds DEF Next

\* At every step of an insert kernel minKey and maxKey are keys of the slot, or their
\* initial values, and a key outside them has a warp that is still to move them
\* (atomicMin and atomicMax of batch_insert).
THEOREM BoundsInvariant == Spec => [](LookupInv /\ BoundsInv)
BY LookupInit, LookupPreserved, BoundsInit, BoundsPreserved, PTL DEF Spec

\* What BoundsExact says of each slot.
LEMMA BoundsInvExact ==
  ASSUME LookupInv, BoundsInv, Quiet, phase = "insert", NEW s \in Slots
  PROVE  /\ inner[s] = {} => s \notin rangeList /\ minKey[s] = UInt32Max /\ maxKey[s] = 0
         /\ inner[s] # {} => /\ s # 0 => s \in rangeList
                             /\ minKey[s] \in inner[s]
                             /\ maxKey[s] \in inner[s]
         /\ \A k \in inner[s] : /\ k \in Nat \ {0} /\ SlotOf(k) = s
                                /\ minKey[s] <= k /\ k <= maxKey[s]
<1>1. \A k \in inner[s] : /\ k \in Nat \ {0} /\ k < UInt32Max /\ SlotOf(k) = s
  BY KeysHaveSlots DEF LookupInv, ListTypeOK, InnerOK
<1>2. \A w \in Warps : pc[w] \notin MaxPending /\ pc[w] # "insert"
  BY DEF Quiet, MaxPending, MinPending
<1>3. \A k \in inner[s] : minKey[s] <= k /\ k <= maxKey[s]
  BY <1>2 DEF BoundsInv, BoundsTold, MaxPending
<1>4. minKey[s] \in inner[s] \cup {UInt32Max} /\ maxKey[s] \in inner[s] \cup {0}
  BY DEF BoundsInv, BoundsFromKeys
<1>5. s \notin rangeList \/ (s # 0 /\ inner[s] # {})
  BY <1>2 DEF BoundsInv, RangesListed, LookupInv, ListTypeOK
<1>6. ASSUME NEW k \in inner[s]
      PROVE  minKey[s] # UInt32Max /\ maxKey[s] # 0
  BY <1>1, <1>3, SentinelIsNatural
<1> QED BY <1>1, <1>3, <1>4, <1>5, <1>6 DEF BoundsInv, RangesListed

\* When insert kernels end, the slot says exactly what its list holds, although the
\* tests of minKey and maxKey in batch_insert use loads that may be out of date: the
\* inductive invariant is that a key outside a bound has a warp that will move it.
THEOREM BoundsAreExact == Spec => []BoundsExact
<1>1. LookupInv /\ BoundsInv => BoundsExact
  <2> SUFFICES ASSUME LookupInv, BoundsInv, Quiet, phase = "insert", NEW s \in Slots
               PROVE  IF inner[s] = {}
                        THEN s \notin rangeList /\ minKey[s] = UInt32Max /\ maxKey[s] = 0
                        ELSE /\ s # 0 => s \in rangeList
                             /\ minKey[s] = Smallest(inner[s])
                             /\ maxKey[s] = Largest(inner[s])
    BY DEF BoundsExact
  <2>1. inner[s] \in SUBSET Nat
    BY BoundsInvExact
  <2>2. inner[s] # {} => /\ minKey[s] = Smallest(inner[s])
                         /\ maxKey[s] = Largest(inner[s])
    BY <2>1, BoundsInvExact, SmallestIs, LargestIs
  <2> QED BY <2>2, BoundsInvExact
<1> QED BY <1>1, BoundsInvariant, PTL

-----------------------------------------------------------------------------
(* Predecessors. *)

\* The predecessor is 0, or a smaller key below which there is no other gap.
LEMMA PredecessorIs ==
  ASSUME NEW S \in SUBSET Nat, NEW k \in Nat
  PROVE  /\ PredecessorIn(S, k) \in {0} \cup {m \in S : m < k}
         /\ \A m \in S : m < k => m <= PredecessorIn(S, k)
         /\ \A q \in {0} \cup {m \in S : m < k} :
              (\A m \in S : m < k => m <= q) => PredecessorIn(S, k) = q
<1> DEFINE B == {NegInf} \cup {m \in S : m < k}
<1>1. B \in SUBSET Nat /\ 0 \in B /\ IsFiniteSet(B)
  <2>1. B \in SUBSET (0 .. k) /\ 0 \in B
    <3>1. ASSUME NEW m \in B PROVE m \in 0 .. k
      <4>1. m = 0 \/ (m \in S /\ m < k)
        BY <3>1 DEF NegInf
      <4>2. m \in Nat /\ m <= k
        <5>1. CASE m = 0
          BY <5>1
        <5>2. CASE m \in S /\ m < k
          <6>1. m \in Nat
            BY <5>2
          <6> QED BY <5>2, <6>1
        <5> QED BY <4>1, <5>1, <5>2
      <4> HIDE DEF B
      <4> QED BY <4>2
    <3> QED BY <3>1 DEF NegInf
  <2> HIDE DEF B
  <2>2. IsFiniteSet(B)
    <3>1. k \in Int /\ 0 \in Int
      OBVIOUS
    <3>2. IsFiniteSet(0 .. k)
      BY <3>1, FS_Interval
    <3> QED BY <2>1, <3>2, FS_Subset
  <2> QED BY <2>1, <2>2
<1>2. PICK q \in B : \A m \in B : m <= q
  <2> HIDE DEF B
  <2> QED BY <1>1, LargestNatural
<1>3. Largest(B) = q
  BY <1>1, <1>2, LargestIs
<1>4. PredecessorIn(S, k) = q
  BY <1>3 DEF PredecessorIn
<1>5. ASSUME NEW r \in {0} \cup {m \in S : m < k}, \A m \in S : m < k => m <= r
      PROVE  q = r
  <2>1. r \in Nat /\ q \in Nat /\ r <= q
    BY <1>1, <1>2 DEF NegInf
  <2>2. q <= r
    BY <1>1, <1>2, <1>5, <2>1 DEF NegInf
  <2> QED BY <2>1, <2>2
<1> QED BY <1>2, <1>4, <1>5 DEF NegInf

\* A key of a lower range is the smaller one.
LEMMA LowerRangeSmaller ==
  ASSUME NEW a \in Keys, NEW b \in Keys
  PROVE  /\ a < b => SlotOf(a) <= SlotOf(b)
         /\ SlotOf(a) < SlotOf(b) => a < b
<1>1. a \in Nat /\ b \in Nat /\ SlotOf(a) \in Nat /\ SlotOf(b) \in Nat
  BY KeysHaveSlots
<1>2. RangeWidth \in Nat \ {0}
  BY ListAssumption
<1>3. (a <= b => SlotOf(a) <= SlotOf(b)) /\ (b <= a => SlotOf(b) <= SlotOf(a))
  BY <1>1, <1>2, DivisionMonotone DEF SlotOf
<1> QED BY <1>1, <1>3

\* As long as nothing was deleted, batch_predecessor finds the next smaller key,
\* in the key's own range or, when it is the smallest there, as the largest key of
\* the range before it in the list of ranges.
THEOREM PredecessorsAreRight == Spec => []PredecessorRight
<1>1. LookupInv /\ BoundsInv => PredecessorRight
  <2> SUFFICES ASSUME LookupInv, BoundsInv, Quiet, phase = "insert", NEW k \in Members
               PROVE  Predecessor(k) = PredecessorIn(Members, k)
    BY DEF PredecessorRight
  <2> DEFINE s == SlotOf(k)
  <2>1. Members \subseteq Keys /\ Keys \subseteq Nat /\ Members \in SUBSET Nat
    <3>1. \A t \in Slots : inner[t] \subseteq Keys
      BY DEF LookupInv, ListTypeOK
    <3>2. Members \subseteq Keys
      BY <3>1 DEF Members
    <3> QED BY <3>2, SentinelIsNatural
  <2>2. \A m \in Members : SlotOf(m) \in Slots /\ m \in inner[SlotOf(m)]
    BY DEF Members, LookupInv, InnerOK
  <2>3. \A t \in Slots : inner[t] \subseteq Members
    BY DEF Members
  <2>4. k \in Nat /\ k \in inner[s] /\ s \in Slots /\ s \in Nat /\ minKey[s] <= k
        /\ minKey[s] \in inner[s]
    BY <2>1, <2>2, BoundsInvExact, KeysHaveSlots
  \* Smaller keys are in the same range or a lower one.
  <2>5. \A m \in Members : m < k => SlotOf(m) <= s
    BY <2>1, LowerRangeSmaller
  <2>6. CASE minKey[s] # k
    <3> DEFINE q == PredecessorIn(inner[s], k)
    <3>1. inner[s] \in SUBSET Nat
      BY <2>1, <2>3, <2>4
    <3>2. /\ q \in {0} \cup {m \in inner[s] : m < k}
          /\ \A m \in inner[s] : m < k => m <= q
      BY <2>4, <3>1, PredecessorIs
    <3>3. minKey[s] <= q /\ minKey[s] \in Nat /\ q \in Nat
      BY <2>4, <2>6, <3>1, <3>2
    <3>4. ASSUME NEW m \in Members, m < k
          PROVE  m <= q
      <4>1. CASE SlotOf(m) = s
        BY <2>2, <3>2, <3>4, <4>1
      <4>2. CASE SlotOf(m) # s
        <5>1. SlotOf(m) < s
          BY <2>1, <2>4, <2>5, <3>4, <4>2, KeysHaveSlots
        <5>2. SlotOf(minKey[s]) = s /\ minKey[s] \in Keys
          BY <2>1, <2>3, <2>4, BoundsInvExact
        <5>3. m < minKey[s]
          BY <2>1, <5>1, <5>2, LowerRangeSmaller
        <5> QED BY <2>1, <3>3, <5>3
      <4> QED BY <4>1, <4>2
    <3>5. q \in {0} \cup {m \in Members : m < k}
      BY <2>3, <2>4, <3>2
    <3>6. PredecessorIn(Members, k) = q
      BY <2>1, <2>4, <3>4, <3>5, PredecessorIs
    <3> QED BY <2>6, <3>6 DEF Predecessor
  <2>7. CASE minKey[s] = k
    \* No smaller key in the same range.
    <3>1. \A m \in Members : m < k => SlotOf(m) < s /\ SlotOf(m) \in Nat
      <4> SUFFICES ASSUME NEW m \in Members, m < k
                   PROVE  SlotOf(m) < s /\ SlotOf(m) \in Nat
        OBVIOUS
      <4>1. SlotOf(m) # s
        BY <2>1, <2>2, <2>4, <2>7, BoundsInvExact
      <4> QED BY <2>1, <2>4, <2>5, <4>1, KeysHaveSlots
    <3>2. CASE s = 0
      <4>1. \A m \in Members : m < k => m <= 0
        BY <3>1, <3>2
      <4>2. PredecessorIn(Members, k) = 0
        BY <2>1, <2>4, <4>1, PredecessorIs
      <4> QED BY <2>7, <3>2, <4>2 DEF Predecessor
    <3>3. CASE s # 0
      <4> DEFINE p == PredecessorIn(rangeList, s)
      <4>1. rangeList \in SUBSET Slots /\ Slots \subseteq Nat
        BY SentinelIsNatural DEF LookupInv, ListTypeOK
      <4>2. /\ p \in {0} \cup {t \in rangeList : t < s}
            /\ \A t \in rangeList : t < s => t <= p
        BY <2>4, <4>1, PredecessorIs
      <4>3. p \in Slots /\ p \in Nat /\ p < s
        <5>1. 0 \in Slots
          BY SentinelIsNatural
        <5>2. p = 0 \/ (p \in rangeList /\ p < s)
          BY <4>2
        <5> HIDE DEF p, s
        <5>3. p \in Slots
          BY <4>1, <5>1, <5>2
        <5>4. s \in Nat /\ s # 0
          BY <2>4, <3>3
        <5> QED BY <4>1, <5>2, <5>3, <5>4
      \* Smaller keys are in the range before this one, or before that.
      <4>4. \A m \in Members : m < k => SlotOf(m) <= p
        <5> SUFFICES ASSUME NEW m \in Members, m < k
                     PROVE  SlotOf(m) <= p
          OBVIOUS
        <5>1. SlotOf(m) = 0 \/ SlotOf(m) \in rangeList
          BY <2>2, BoundsInvExact
        <5> QED BY <3>1, <4>2, <4>3, <5>1
      <4>5. Predecessor(k) = maxKey[p]
        BY <2>7, <3>3 DEF Predecessor
      <4>6. CASE inner[p] = {}
        <5>1. p = 0 /\ maxKey[p] = 0
          BY <4>2, <4>3, <4>6, BoundsInvExact
        <5>2. \A m \in Members : m < k => m <= 0
          BY <2>2, <3>1, <4>4, <4>6, <5>1
        <5> QED BY <2>1, <2>4, <4>5, <5>1, <5>2, PredecessorIs
      <4>7. CASE inner[p] # {}
        <5>1. maxKey[p] \in Members /\ maxKey[p] \in Keys /\ SlotOf(maxKey[p]) = p
          BY <2>1, <2>3, <4>3, <4>7, BoundsInvExact
        <5>2. maxKey[p] < k
          BY <2>1, <4>3, <5>1, LowerRangeSmaller
        <5>3. ASSUME NEW m \in Members, m < k
              PROVE  m <= maxKey[p]
          <6>1. CASE SlotOf(m) = p
            BY <2>2, <4>3, <6>1, BoundsInvExact
          <6>2. CASE SlotOf(m) # p
            <7>1. SlotOf(m) < SlotOf(maxKey[p])
              BY <3>1, <4>3, <4>4, <5>1, <5>3, <6>2
            <7>2. m < maxKey[p]
              <8> HIDE DEF p
              <8> QED BY <2>1, <5>1, <5>3, <7>1, LowerRangeSmaller
            <7>3. m \in Nat /\ maxKey[p] \in Nat
              BY <2>1, <5>1
            <7> QED BY <7>2, <7>3
          <6> QED BY <6>1, <6>2
        <5>4. PredecessorIn(Members, k) = maxKey[p]
          <6>1. maxKey[p] \in {0} \cup {m \in Members : m < k}
            BY <5>1, <5>2
          <6> HIDE DEF p
          <6> QED BY <2>1, <2>4, <5>3, <6>1, PredecessorIs
        <5> QED BY <4>5, <5>4
      <4> QED BY <4>6, <4>7
    <3> QED BY <3>2, <3>3
  <2> QED BY <2>6, <2>7
<1> QED BY <1>1, BoundsInvariant, PTL
=============================================================================
