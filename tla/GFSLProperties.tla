--------------------------- MODULE GFSLProperties ---------------------------
(* What makes the skip list of GFSL correct. *)
EXTENDS GFSL


\* The pool's counter has not wrapped: fewer chunks have been taken than the pool has.
PoolSuffices == allocated # 0

\* Every word of the pool, the counters and the results is of its kind; the pool
\* suffices and a chunk counter never goes below zero.
TypeOK ==
  /\ chunk \in [Chunks -> ChunkType]
  /\ ctr \in [Levels -> Nat]
  /\ allocated \in Chunks /\ PoolSuffices
  /\ trace \in DOMAIN Traces
  /\ batch \in DOMAIN Batches
  /\ result \in [Ops -> Answers]

\* Some level has a chunk, as far as the head's counters know: searches begin there.
HeadCounts == \E l \in Levels : ctr[l] > 0

\* The enclosing chunk of key k on the way right from chunk c: the first one that
\* is alive and whose maximum covers k.
Covers(c, k) == ~IsZombie(chunk[c]) /\ k <= chunk[c].max

FirstCovering(c, k) ==
  LET walk[d \in Chunks \cup {Nil}] ==
        IF d = Nil THEN Nil ELSE IF Covers(d, k) THEN d ELSE walk[chunk[d].next]
  IN  walk[c]

Home(l, k) == FirstCovering(l, k)

\* The keys at level l: those that the chunk that encloses them has.
LevelKeys(l) ==
  {k \in NegInf + 1 .. MaxKey :
     LET c == Home(l, k) IN c # Nil /\ k \in KeysOf(chunk[c])}

Members == LevelKeys(0)

\* The chunks a walk to the right from chunk c meets.
Reach(c) ==
  LET walk[d \in Chunks] ==
        {d} \cup (IF chunk[d].next = Nil THEN {} ELSE walk[chunk[d].next])
  IN  walk[c]

Alive(l) == {c \in Reach(l) : ~IsZombie(chunk[c])}

\* The operations some warp has taken.
Called ==
  {o \in OpsOf(trace) : \/ o[2] < batch
                        \/ /\ o[2] = batch
                           /\ LET w == (o[3] - 1) % NumWarps
                              IN  o[3] < pos[w] \/ (o[3] = pos[w] /\ ~At(w, "take"))}

Abstract == INSTANCE ConcurrentSet WITH members <- Members, called <- Called

-----------------------------------------------------------------------------
\* The skip list is linearizable: whatever splits, merges, shifts and unlinks are
\* under way, the set of keys at level 0 changes only by one key, at one moment
\* of the operation that answers for it, and every answer is that of the set.
ImplementsSet == Abstract!Spec

\* Chunks nobody has locked are packed, sorted and disjoint: entries first, keys
\* ascending, none above the chunk's maximum, none at or below that of a chunk to
\* the left (lock-free readers pick their lane by these facts).
ChunksSorted ==
  \A l \in Levels : \A c \in Alive(l) :
    chunk[c].lock = "unlocked" =>
      LET n == OccupiedSlots(chunk[c])
      IN  /\ \A i \in Lanes : (chunk[c].data[i].k # PosInf) = (i < n)
          /\ \A i \in 1 .. n - 1 : chunk[c].data[i - 1].k < chunk[c].data[i].k
          /\ \A k \in KeysOf(chunk[c]) :
               /\ k <= chunk[c].max
               /\ \A d \in Alive(l) \ Reach(c) : chunk[d].max < k

\* A down pointer never leads past its key: the key's enclosing chunk one level
\* down is reached from it by going right, also while updateDownPtrs lags behind
\* a split or a merge, and also from a zombie's entry.
DownPointersLagLeft ==
  \A l \in Levels \ {0} : \A c \in Reach(l) : \A i \in OccupiedLanes(chunk[c]) :
    LET e == chunk[c].data[i] IN Home(l - 1, e.k) \in Reach(e.v)

\* When a kernel has ended no level holds a key that is not in the list, as
\* deleteCorrectness looks for it.
DeleteCorrectness ==
  BatchDone =>
    \A l \in Levels : \A c \in Alive(l) : KeysOf(chunk[c]) \subseteq Members \cup {NegInf}

\* When a kernel has ended the head's counters, from which searches take the
\* height, count the chunks that are alive; a level without keys may count none.
CountersMatch ==
  BatchDone =>
    \A l \in Levels : \/ ctr[l] = Cardinality(Alive(l))
                      \/ l > 0 /\ ctr[l] = 0 /\ LevelKeys(l) = {}

\* When a kernel has ended no chunk is locked, whichever of the paths through
\* split, merge and unlinking its operations took.
LocksReleased == BatchDone => \A c \in Chunks : chunk[c].lock # "locked"

-----------------------------------------------------------------------------
(* Who has locked what: the lock word does not say, a warp knows it by where it is. *)

SearchLabels == {"search", "read", "reread", "tryLock", "searched"}
UnlinkLabels == {"recheck", "giveUp", "skip", "unlink", "unlinked"}
NextLabels == {"nextRead", "nextWalk", "nextLock", "nextCheck", "nextSet"}
SplitLabels == {"alloc", "unlockNext", "copy", "empty", "unlockNew"}
MergeLabels == {"mergeShift", "shiftBy", "mergeCopy", "markZombie", "uncount", "unlockMerged"}
DownLabels == {"downRead", "downLock", "downWrite", "downUnlock"}
LevelLabels == {"encCheck", "encRetry", "shift", "unlockOther", "isEmpty", "count",
                "lowerMax", "unshift", "unlockEnc", "mergeRead"}

\* In updateDownPtrs, or in a search that it has called.
GoingDown(w) == \/ pc[w] \in DownLabels
                \/ pc[w] \in SearchLabels \cup UnlinkLabels /\ loc[w].caller = "down"

\* Which registers name a chunk that the warp has locked and not unlocked.
HasBottom(w) == pc[w] \notin {"take", "return"}
HasEnc(w) ==
  GoingDown(w) \/ pc[w] \in LevelLabels \cup NextLabels \cup SplitLabels \cup MergeLabels
HasNxt(w) == GoingDown(w) \/ pc[w] \in NextLabels \cup SplitLabels \cup MergeLabels
HasNew(w) ==
  pc[w] \in {"unlockNext", "copy", "empty", "unlockNew", "shift", "unlockOther"}
HasCur(w) == pc[w] \in {"nextCheck", "nextSet", "alloc", "unlockNext", "mergeRead",
                       "downWrite", "downUnlock"}
HasPrev(w) == pc[w] \in UnlinkLabels

Holds(w, c) ==
  \/ HasBottom(w) /\ c = loc[w].bottom
  \/ HasEnc(w) /\ c = loc[w].enc
  \/ HasNxt(w) /\ c = loc[w].nxt
  \/ HasNew(w) /\ c = loc[w].new
  \/ HasCur(w) /\ c = loc[w].cur
  \/ HasPrev(w) /\ c = loc[w].prev

\* A locked chunk has been locked by one warp, which is going to unlock it or make it
\* a zombie, and by no other; nobody takes a chunk for his own that is unlocked.
LocksExclusive ==
  \A c \in Chunks :
    /\ chunk[c].lock = "locked" =>
         \E w \in Warps : Holds(w, c) /\ \A v \in Warps : Holds(v, c) => v = w
    /\ chunk[c].lock = "unlocked" => \A w \in Warps : ~Holds(w, c)

\* The pool is about to hand out a chunk that nobody has: its counter, which wraps
\* at the end of the pool, has not come back to a chunk in use.
NewChunkIsFree ==
  /\ chunk[allocated].lock = "unlocked"
  /\ \A w \in Warps : ~Holds(w, allocated)

\* What a step leaves of an unlocked chunk: all of it, or all but the lock it takes.
KeptOrLocked(c) == \/ chunk'[c] = chunk[c]
                   \/ chunk'[c] = [chunk[c] EXCEPT !.lock = "locked"]

\* Warps store only to chunks that they have locked, or that are dead: an unlocked
\* chunk stays as it is until it is locked, or handed out by the pool.
StoresAreLocked ==
  [][\A c \in Chunks : chunk[c].lock = "unlocked" => KeptOrLocked(c) \/ c = allocated]_vars

\* No step takes a key to a chunk that a walk to the right from its former chunk
\* does not meet: a reader that holds an old chunk still finds it.
KeysMoveRight ==
  [][\A l \in Levels : \A k \in LevelKeys(l) : \A h \in {Home(l, k)} :
       Home(l, k)' = h \/ Home(l, k)' \in Reach(h)']_chunk

\* Every operation returns.
AllReturn == <>(\A o \in OpsOf(trace) : result[o] # "none")

\* The drivers' check after a batch of deletes: each of them has deleted its key.
DeletesSucceed ==
  <>(\A o \in OpsOf(trace) : KindOf(o) = "erase" => result[o] = "true")
=============================================================================
