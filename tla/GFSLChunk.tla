----------------------------- MODULE GFSLChunk ------------------------------
(***************************************************************************)
(* The chunk of the GPU-friendly skip list and what a warp computes from   *)
(* one it has read: 32 words, of which DSIZE are key-value entries, one    *)
(* holds the chunk's maximum and its successor, and one is the lock.  Lane *)
(* i of the warp holds word i, a ballot gives the set of lanes that agree, *)
(* and the highest of them is the answer.  No RECURSIVE operator.          *)
(***************************************************************************)
EXTENDS Integers, FiniteSets

CONSTANTS
  DSize,      \* entries of a chunk (DSIZE, 30 in the code)
  MaxKey,     \* bound: keys are 1 .. MaxKey
  TopLevel,   \* the highest level; TEAM_SIZE is TopLevel + 1
  PoolSize    \* limit of the pool's allocation counter

\* A split moves at least one entry from three on; the first chunks of the
\* levels come out of the pool.
ASSUME ChunkAssumption ==
  /\ DSize \in Nat /\ DSize >= 3
  /\ MaxKey \in Nat
  /\ TopLevel \in Nat \ {0}
  /\ PoolSize \in Nat /\ PoolSize > TopLevel

Lanes == 0 .. DSize - 1
TidNext == DSize
TidNone == DSize + 3
Levels == 0 .. TopLevel
MergeThreshold == DSize \div 3

NegInf == 0
PosInf == MaxKey + 1
Nil == -1                           \* CHK_INVALID
Chunks == 0 .. PoolSize

\* An entry's value is a user value at level 0 and a chunk above it.
Entries == [k : NegInf .. PosInf, v : Int]
EmptyEntry == [k |-> PosInf, v |-> Nil]
LockStates == {"unlocked", "locked", "zombie"}

ChunkType == [data : [Lanes -> Entries], max : NegInf .. PosInf,
              next : Chunks \cup {Nil}, lock : LockStates]

FreshChunk(next, lock) ==
  [data |-> [i \in Lanes |-> EmptyEntry], max |-> PosInf, next |-> next, lock |-> lock]

\* The highest lane of a ballot.
Highest(ballot) ==
  IF ballot = {} THEN TidNone ELSE CHOOSE t \in ballot : \A u \in ballot : u <= t

IsZombie(c) == c.lock = "zombie"
IsLastChunk(c) == c.max = PosInf /\ c.next = Nil
OccupiedLanes(c) == {i \in Lanes : c.data[i].k # PosInf}
OccupiedSlots(c) == Cardinality(OccupiedLanes(c))
KeysOf(c) == {c.data[i].k : i \in OccupiedLanes(c)}
TidWithKey(k, c) == Highest({i \in Lanes : c.data[i].k = k})
ChunkContains(k, c) == TidWithKey(k, c) # TidNone

\* Where a search for k goes from chunk c: right if k is above its maximum,
\* else down or to the entry of the highest lane whose key is at most k (below
\* k for a predecessor search).
TidForNextStep(k, c) ==
  Highest({i \in Lanes : c.data[i].k <= k} \cup (IF c.max < k THEN {TidNext} ELSE {}))

TidForNextStepPredecessor(k, c) ==
  Highest({i \in Lanes : c.data[i].k < k} \cup (IF c.max < k THEN {TidNext} ELSE {}))

TidOfDownStep(k, c) == Highest({i \in Lanes : c.data[i].k <= k})

\* One more than the highest lane with a smaller key.
InsertionIdx(data, k) ==
  LET smaller == {i \in Lanes : data[i].k < k}
  IN  IF smaller = {} THEN 0 ELSE Highest(smaller) + 1

\* What the lanes hold after an insertion at idx: the new entry there, and to
\* the right of it what the left neighbour held.
Shifted(data, idx, e) ==
  [i \in Lanes |-> IF i < idx THEN data[i] ELSE IF i = idx THEN e ELSE data[i - 1]]

\* A split of a chunk with n entries keeps lanes 0 .. n / 2.
Threshold(c) == c.data[OccupiedSlots(c) \div 2].k
MovedLanes(c) == {i \in OccupiedLanes(c) : c.data[i].k > Threshold(c)}

\* The new chunk gets the moved entries from lane 0 on, and the old maximum.
SplitOff(c, fresh) ==
  LET first == (OccupiedSlots(c) \div 2) + 1
  IN  [fresh EXCEPT
        !.data = [i \in Lanes |-> IF i + first \in MovedLanes(c)
                                    THEN c.data[i + first] ELSE fresh.data[i]],
        !.max = c.max]

\* A merge copies the entries but the deleted one to the front of the next.
CopiedTo(c, del, dst) ==
  [i \in Lanes |-> IF i < del /\ i \in OccupiedLanes(c) THEN c.data[i]
                   ELSE IF i >= del /\ i + 1 \in OccupiedLanes(c) THEN c.data[i + 1]
                   ELSE dst.data[i]]
=============================================================================
