----------------------------- MODULE GFSLQuery ------------------------------
(***************************************************************************)
(* The queries of the skip list: contains, predecessor, first and last     *)
(* key.  The drivers run them in kernels of their own, when no insert or   *)
(* delete is running, so a query is a function of the pool.  A search that *)
(* would start again would do so for ever; it ends in Nil here, like one   *)
(* that goes on with an invalid chunk.                                     *)
(***************************************************************************)
EXTENDS GFSLProperties

\* searchDown and searchDownPredecessor differ in the lane they choose.
NextStep(query, k, c) ==
  IF query = "contains" THEN TidForNextStep(k, c) ELSE TidForNextStepPredecessor(k, c)

\* backTrack leaves a predecessor of zeros: a second one takes chunk 0.
Zeroed == -2

SearchDownBy(query, k) ==
  LET down[h \in Levels, c \in Chunks, prev \in Chunks \cup {Nil, Zeroed}] ==
        LET kv == chunk[c]
            tid == NextStep(query, k, kv)
        IN  CASE h = 0 -> c
              [] h > 0 /\ IsZombie(kv) -> down[h, kv.next, prev]
              [] h > 0 /\ ~IsZombie(kv) /\ tid = TidNext -> down[h, kv.next, c]
              [] h > 0 /\ ~IsZombie(kv) /\ tid \in Lanes -> down[h - 1, kv.data[tid].v, Nil]
              [] h > 0 /\ ~IsZombie(kv) /\ tid = TidNone ->
                   IF prev = Zeroed THEN IF h = 1 THEN 0 ELSE Nil
                   ELSE IF prev = Nil \/ TidOfDownStep(k, chunk[prev]) = TidNone THEN Nil
                   ELSE down[h - 1, chunk[prev].data[TidOfDownStep(k, chunk[prev])].v, Zeroed]
  IN  down[Height, Height, Nil]

\* The walk at level 0: the chunk it ends at, and the one it came from.
LateralBy(query, k, start) ==
  LET walk[c \in Chunks, prev \in Chunks] ==
        IF NextStep(query, k, chunk[c]) = TidNext \/ IsZombie(chunk[c])
          THEN walk[chunk[c].next, c]
          ELSE [at |-> c, prev |-> prev]
  IN  walk[start, start]

\* Mutant of Contains: no walk at level 0.
ContainsAtOnce(k) ==
  LET start == SearchDownBy("contains", k)
  IN  start # Nil /\ ChunkContains(k, chunk[start])

Contains(k) ==
  LET start == SearchDownBy("contains", k)
  IN  /\ start # Nil
      /\ LET c == chunk[LateralBy("contains", k, start).at]
             tid == TidForNextStep(k, c)
         IN  tid # TidNone /\ c.data[tid].k = k

\* The search for the predecessor of k: where it ends, and the chunk it came from.
PredecessorWalk(k) ==
  LateralBy("predecessor", k, SearchDownBy("predecessor", k))

\* The keys just left of k in chunk c; if there is none the result is never assigned.
LeftOf(k, c) ==
  LET left == {i \in Lanes : i + 1 \in Lanes /\ c.data[i + 1].k = k /\ c.data[i].k < k}
  IN  IF left # {} THEN {c.data[i].k : i \in left} ELSE NegInf .. PosInf

\* Mutant of PredecessorKeys: the chunk left of the one found is not consulted.
PredecessorInChunk(k) == LeftOf(k, chunk[PredecessorWalk(k).at])

\* The keys getPredecessorKey may return.
PredecessorKeys(k) ==
  LET walk == PredecessorWalk(k)
  IN  IF chunk[walk.at].data[0].k >= k THEN {chunk[walk.prev].max}
                                       ELSE LeftOf(k, chunk[walk.at])

\* Of an empty chunk findLast takes lane -1, which is the lane of the lock.
LockWord == [k |-> 2, v |-> 0]

\* Mutant of LastEntry: one lane short.
LastEntryShort(c) == IF OccupiedSlots(c) < 2 THEN LockWord ELSE c.data[OccupiedSlots(c) - 2]

LastEntry(c) ==
  IF OccupiedSlots(c) = 0 THEN LockWord ELSE c.data[OccupiedSlots(c) - 1]

FindLast ==
  LET down[h \in Levels, c \in Chunks] ==
        IF ~IsLastChunk(chunk[c]) THEN down[h, chunk[c].next]
        ELSE IF h = 0 THEN LastEntry(chunk[c]).k
        ELSE down[h - 1, LastEntry(chunk[c]).v]
  IN  down[Height, Height]

\* Mutant of FindFirst: the entry of minus infinity.
FindNegInf == chunk[0].data[0].k

FindFirst == chunk[0].data[1].k

-----------------------------------------------------------------------------
Below(k) == {m \in Members \cup {NegInf} : m < k}
Greatest(S) == CHOOSE m \in S : \A n \in S : n <= m

\* Between kernels a lookup ends, and finds exactly the keys of the list, through
\* whatever zombies, late down pointers and keys left at upper levels.
ContainsRight ==
  BatchDone =>
    \A k \in 1 .. MaxKey : /\ SearchDownBy("contains", k) # Nil
                           /\ Contains(k) = (k \in Members)

\* The predecessor of a key in the list is the next smaller one, 0 if it has none,
\* unless the search came from a zombie (PredecessorIsBelow).
PredecessorRight ==
  BatchDone =>
    \A k \in Members : \/ PredecessorKeys(k) = {Greatest(Below(k))}
                       \/ IsZombie(chunk[PredecessorWalk(k).prev])

\* The drivers' check of a predecessor: below its key (a result of 0 is reported as
\* "no predecessor").
PredecessorIsBelow ==
  BatchDone => \A k \in Members : \A p \in PredecessorKeys(k) : p < k

\* What findFirst prints is the smallest key as long as chunk 0, which it looks at,
\* is no zombie.
FirstKeyRight ==
  BatchDone /\ Members # {} /\ ~IsZombie(chunk[0]) =>
    FindFirst \in Members /\ Below(FindFirst) = {NegInf}

\* What findLast prints is the largest key as long as no level ends in an empty
\* chunk: the down pointers of last entries lead to where the last key is.
LastKeyRight ==
  BatchDone /\ Members # {} =>
    \/ FindLast = Greatest(Members)
    \/ \E l \in 0 .. Height : \E c \in Alive(l) :
         IsLastChunk(chunk[c]) /\ OccupiedSlots(chunk[c]) = 0
=============================================================================
