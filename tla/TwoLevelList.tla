---------------------------- MODULE TwoLevelList -----------------------------
(***************************************************************************)
(* The two-level skip list of the hetero driver (trace_bm_gfsl_hetero.cu): *)
(* an array of slots, one per key range, each with a skip list of its own, *)
(* and a further skip list of the ranges in use.  The slot's smallest and  *)
(* largest key and the list of ranges serve the predecessor queries that   *)
(* leave a range.  The skip lists are the set GFSL implements: an insert   *)
(* or erase takes effect in one step.  What a warp does to the slot around *)
(* them is one step per memory instruction.                                *)
(***************************************************************************)
EXTENDS Integers, FiniteSets

CONSTANTS
  Keys,          \* keys a trace may have
  RangeWidth,    \* 2^perSLRange
  NumWarps,      \* operations of a kernel that run at a time
  MaxInserts,    \* bound: insert batches of a run
  MaxDeletes     \* bound: delete batches

\* 0 is the key of minus infinity; UINT32_MAX is not a key.
ASSUME ListAssumption ==
  /\ Keys \subseteq Nat \ {0} /\ Keys # {} /\ IsFiniteSet(Keys)
  /\ {RangeWidth, NumWarps} \subseteq Nat \ {0}
  /\ {MaxInserts, MaxDeletes} \subseteq Nat

Warps == 1 .. NumWarps
NegInf == 0
Largest(S) == CHOOSE m \in S : \A n \in S : n <= m
Smallest(S) == CHOOSE m \in S : \A n \in S : m <= n
UInt32Max == Largest(Keys) + 1

SlotOf(k) == k \div RangeWidth
Slots == 0 .. SlotOf(UInt32Max)

VARIABLES
  range,      \* the slot's word: 0, or its number plus one
  inner,      \* innerGFSL: the keys of each slot's skip list
  minKey,
  maxKey,
  rangeList,  \* rangeGFSL: the ranges in use
  pastMin,    \* values of minKey and maxKey since the launch: a plain load may
  pastMax,    \* return any of them
  pc,
  op,         \* the key of each warp's operation
  phase,      \* the host launches insert batches, then delete batches
  launched,
  inserted,   \* history: keys named by insert batches,
  deleted     \* and by delete batches

slotVars == <<range, inner, minKey, maxKey, rangeList>>
past == <<pastMin, pastMax>>
host == <<phase, launched, inserted, deleted>>
vars == <<slotVars, past, pc, op, host>>

Init ==
  /\ range = [s \in Slots |-> 0]
  /\ inner = [s \in Slots |-> {}]
  /\ minKey = [s \in Slots |-> UInt32Max]
  /\ maxKey = [s \in Slots |-> 0]
  /\ rangeList = {}
  /\ pastMin = [s \in Slots |-> {UInt32Max}]
  /\ pastMax = [s \in Slots |-> {0}]
  /\ pc = [w \in Warps |-> "idle"]
  /\ op = [w \in Warps |-> NegInf]
  /\ phase = "insert" /\ launched = 0 /\ inserted = {} /\ deleted = {}

Quiet == \A w \in Warps : pc[w] = "idle"

\* A kernel starts with any keys of a batch; a new kernel's loads are up to date.
StartKernel(keys, first) ==
  /\ Quiet
  /\ op' = keys
  /\ pc' = [w \in Warps |-> first]
  /\ pastMin' = [s \in Slots |-> {minKey[s]}]
  /\ pastMax' = [s \in Slots |-> {maxKey[s]}]
  /\ UNCHANGED slotVars

LaunchInsert ==
  /\ phase = "insert"
  /\ launched < MaxInserts
  /\ launched' = launched + 1
  /\ \E keys \in [Warps -> Keys] :
       /\ StartKernel(keys, "mark")
       /\ inserted' = inserted \cup {keys[w] : w \in Warps}
  /\ UNCHANGED <<phase, deleted>>

LaunchDelete ==
  /\ phase = "insert" => launched > 0
  /\ IF phase = "insert" THEN launched' = 1 ELSE launched' = launched + 1
  /\ launched' <= MaxDeletes
  /\ phase' = "delete"
  /\ \E keys \in [Warps -> Keys] :
       /\ StartKernel(keys, "erase")
       /\ deleted' = deleted \cup {keys[w] : w \in Warps}
  /\ UNCHANGED inserted

Slot(w) == SlotOf(op[w])
GoTo(w, label) == pc' = [pc EXCEPT ![w] = label]

\* Mutant of Denoted: the range's own number, which is zero for the first one.
DenotedFrom0(s) == s

\* The word that denotes range s.
Denoted(s) == s + 1

MarkRange(w) ==
  /\ pc[w] = "mark"
  /\ range' = [range EXCEPT ![Slot(w)] = Denoted(Slot(w))]
  /\ GoTo(w, "listRange")
  /\ UNCHANGED <<inner, minKey, maxKey, rangeList, past, op, host>>

\* rangeGFSL->insert: the key 0 is minus infinity, which every skip list holds.
ListRange(w) ==
  /\ pc[w] = "listRange"
  /\ rangeList' = IF range[Slot(w)] # 0 THEN rangeList \cup ({Slot(w)} \ {NegInf})
                                        ELSE rangeList
  /\ GoTo(w, "insert")
  /\ UNCHANGED <<range, inner, minKey, maxKey, past, op, host>>

\* innerGFSL->insert: only the warp that inserted the key goes on to the bounds.
InsertInner(w) ==
  /\ pc[w] = "insert"
  /\ inner' = [inner EXCEPT ![Slot(w)] = @ \cup {op[w]}]
  /\ GoTo(w, IF op[w] \in inner[Slot(w)] THEN "idle" ELSE "readMin")
  /\ UNCHANGED <<range, minKey, maxKey, rangeList, past, op, host>>

ReadMin(w) ==
  /\ pc[w] = "readMin"
  /\ \E seen \in pastMin[Slot(w)] : GoTo(w, IF seen > op[w] THEN "min" ELSE "readMax")
  /\ UNCHANGED <<slotVars, past, op, host>>

AtomicMin(w) ==
  /\ pc[w] = "min"
  /\ minKey' = [minKey EXCEPT ![Slot(w)] = Smallest({@, op[w]})]
  /\ pastMin' = [pastMin EXCEPT ![Slot(w)] = @ \cup {minKey'[Slot(w)]}]
  /\ GoTo(w, "readMax")
  /\ UNCHANGED <<range, inner, maxKey, rangeList, pastMax, op, host>>

\* Mutant of ReadMax: the test of minKey's update is the only one.
ReadMaxNever(w) ==
  /\ pc[w] = "readMax"
  /\ GoTo(w, IF maxKey[Slot(w)] = 0 THEN "max" ELSE "idle")
  /\ UNCHANGED <<slotVars, past, op, host>>

ReadMax(w) ==
  /\ pc[w] = "readMax"
  /\ \E seen \in pastMax[Slot(w)] : GoTo(w, IF seen < op[w] THEN "max" ELSE "idle")
  /\ UNCHANGED <<slotVars, past, op, host>>

AtomicMax(w) ==
  /\ pc[w] = "max"
  /\ maxKey' = [maxKey EXCEPT ![Slot(w)] = Largest({@, op[w]})]
  /\ pastMax' = [pastMax EXCEPT ![Slot(w)] = @ \cup {maxKey'[Slot(w)]}]
  /\ GoTo(w, "idle")
  /\ UNCHANGED <<range, inner, minKey, rangeList, pastMin, op, host>>

\* innerGFSL->erase, if the range is in use; the slot's bounds, its word and the
\* list of ranges stay as they are.
EraseInner(w) ==
  /\ pc[w] = "erase"
  /\ inner' = IF range[Slot(w)] # 0 THEN [inner EXCEPT ![Slot(w)] = @ \ {op[w]}]
                                    ELSE inner
  /\ GoTo(w, "idle")
  /\ UNCHANGED <<range, minKey, maxKey, rangeList, past, op, host>>

WarpStep(w) ==
  \/ MarkRange(w) \/ ListRange(w) \/ InsertInner(w) \/ ReadMin(w) \/ AtomicMin(w)
  \/ ReadMax(w) \/ AtomicMax(w) \/ EraseInner(w)

Finished == Quiet /\ launched > 0 /\ UNCHANGED vars

Next == LaunchInsert \/ LaunchDelete \/ (\E w \in Warps : WarpStep(w)) \/ Finished

Spec == Init /\ [][Next]_vars

-----------------------------------------------------------------------------
(* The queries run in kernels of their own, when nothing changes the list.  *)

Contains(k) == range[SlotOf(k)] # 0 /\ k \in inner[SlotOf(k)]

\* getPredecessorKey of a skip list with the keys S.
PredecessorIn(S, k) == Largest({NegInf} \cup {m \in S : m < k})

\* Mutant of Predecessor: the slot left of the key's instead of the range in use.
PredecessorNextDoor(k) ==
  LET s == SlotOf(k)
  IN  IF minKey[s] # k THEN PredecessorIn(inner[s], k)
      ELSE IF s = 0 THEN 0 ELSE maxKey[s - 1]

\* batch_predecessor.
Predecessor(k) ==
  LET s == SlotOf(k)
  IN  IF minKey[s] # k THEN PredecessorIn(inner[s], k)
      ELSE IF s = 0 THEN 0 ELSE maxKey[PredecessorIn(rangeList, s)]

-----------------------------------------------------------------------------
Members == UNION {inner[s] : s \in Slots}

(***************************************************************************)
(* Between kernels a lookup finds exactly the keys that were inserted and  *)
(* not deleted: no range that holds a key looks unused.                    *)
(***************************************************************************)
LookupsRight == Quiet => \A k \in Keys : Contains(k) = (k \in inserted \ deleted)

(***************************************************************************)
(* When insert kernels end, the slot says exactly what its list holds,     *)
(* although every warp tests the bounds with loads that may be out of date *)
(* and after other warps' inserts: the test may err only towards an        *)
(* update, and the atomics never widen a bound back.                       *)
(***************************************************************************)
BoundsExact ==
  Quiet /\ phase = "insert" =>
    \A s \in Slots :
      IF inner[s] = {} THEN s \notin rangeList /\ minKey[s] = UInt32Max /\ maxKey[s] = 0
      ELSE /\ s # 0 => s \in rangeList
           /\ minKey[s] = Smallest(inner[s])
           /\ maxKey[s] = Largest(inner[s])

(***************************************************************************)
(* As long as nothing was deleted, the predecessor of a key of the list is *)
(* the next smaller key, also when it is ranges away: through the bounds   *)
(* of two slots and the list of ranges, in which range 0 never is.         *)
(***************************************************************************)
PredecessorRight ==
  Quiet /\ phase = "insert" =>
    \A k \in Members : Predecessor(k) = PredecessorIn(Members, k)

(***************************************************************************)
(* The driver's key check reports a result of 0 as "No predecessor found": *)
(* then there is none, also after deletes.                                 *)
(***************************************************************************)
ZeroMeansNoPredecessor ==
  Quiet => \A k \in Members : Predecessor(k) = 0 => PredecessorIn(Members, k) = NegInf
=============================================================================
