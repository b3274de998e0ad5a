-------------------------------- MODULE GFSL --------------------------------
(***************************************************************************)
(* The GPU-friendly skip list under the inserts and deletes of its drivers *)
(* (trace_bm_gfsl_uvm.cu): the host launches one kernel per batch and      *)
(* waits for it, all insert batches before all delete batches; warp w of W *)
(* takes the operations w, w + W, ... of the batch.                        *)
(*                                                                         *)
(* One memory instruction of a warp is one step: a read of a chunk (32     *)
(* words), a store by one lane or by several at once, a lock operation.    *)
(* What a warp computes from its registers belongs to the step that filled *)
(* them.  A spin is the guard of the step that ends it.  A chunk that no   *)
(* other warp can reach yet is filled in one step.                         *)
(***************************************************************************)
EXTENDS GFSLChunk, Sequences

CONSTANTS
  NumWarps,   \* warps of a kernel
  Traces      \* the traces a run may have, each a sequence of batches
              \* [kind |-> "insert" or "erase", keys |-> sequence]

Warps == 0 .. NumWarps - 1

\* Operation <<t, b, i>> is the i-th one of batch b of trace t.
OpsOf(t) == UNION {{<<t, b, i>> : i \in DOMAIN Traces[t][b].keys} : b \in DOMAIN Traces[t]}
Ops == UNION {OpsOf(t) : t \in DOMAIN Traces}
KindOf(o) == Traces[o[1]][o[2]].kind
KeyOf(o) == Traces[o[1]][o[2]].keys[o[3]]

\* No delete batch comes before an insert batch; 0 and UINT32_MAX are not keys.
ASSUME TraceAssumption ==
  /\ NumWarps \in Nat \ {0}
  /\ Traces \in Seq(Seq([kind : {"insert", "erase"}, keys : Seq(1 .. MaxKey)]))
  /\ \A t \in DOMAIN Traces : Traces[t] # <<>>
  /\ \A t \in DOMAIN Traces : \A b, c \in DOMAIN Traces[t] :
       Traces[t][b].kind = "erase" /\ b < c => Traces[t][c].kind = "erase"

VARIABLES
  chunk,      \* the pool
  ctr,        \* head: the chunk counter of each level
  allocated,  \* num_allocated
  pc,         \* where each warp is
  loc,        \* its registers
  trace,      \* the trace of this run
  batch,      \* the running kernel's batch
  pos,        \* the operation of the batch a warp has or takes next
  result,     \* the results buffer
  decided     \* history: the answer an operation is bound to give

mem == <<chunk, ctr, allocated>>
host == <<trace, batch, pos, result>>
vars == <<chunk, ctr, allocated, pc, loc, trace, batch, pos, result, decided>>

Answers == {"none", "true", "false"}
BlankKv == FreshChunk(Nil, "locked")

\* The registers of a warp between two operations.
NoOp ==
  [kind |-> "none", key |-> NegInf, ans |-> "none",
   caller |-> "op",                                 \* searchSlow's: itself, or updateDownPtrs
   sk |-> NegInf, h |-> 0, cur |-> Nil, prev |-> Nil,            \* searchSlow
   prevKv |-> BlankKv, kv |-> BlankKv, tid |-> TidNone,
   path |-> [l \in Levels |-> Nil],
   route |-> [l \in Levels |-> Nil],                             \* insert, erase
   level |-> 0, enc |-> Nil, bottom |-> Nil, val |-> Nil,
   up |-> FALSE, top |-> 0,
   ini |-> Nil, first |-> Nil, new |-> Nil, nxt |-> Nil,         \* split, merge
   over |-> FALSE, reg |-> BlankKv.data, i |-> 0, stop |-> 0, tgt |-> Nil,
   min |-> NegInf, max |-> NegInf, size |-> 0]                   \* updateDownPtrs

Init ==
  /\ chunk = [c \in Chunks |->
       IF c \in Levels
         THEN [FreshChunk(Nil, "unlocked") EXCEPT !.data[0] = [k |-> NegInf, v |-> c - 1]]
         ELSE FreshChunk(Nil, "unlocked")]
  /\ ctr = [l \in Levels |-> IF l = 0 THEN 1 ELSE 0]
  /\ allocated = TopLevel + 1
  /\ pc = [w \in Warps |-> "take"]
  /\ loc = [w \in Warps |-> NoOp]
  /\ trace \in DOMAIN Traces
  /\ batch = 1
  /\ pos = [w \in Warps |-> w + 1]
  /\ result = [o \in Ops |-> "none"]
  /\ decided = [o \in Ops |-> "none"]

(***************************************************************************)
(* Steps shared by the operations.                                         *)
(***************************************************************************)
At(w, label) == pc[w] = label
GoTo(w, label) == pc' = [pc EXCEPT ![w] = label]
Batches == Traces[trace]
OpOf(w) == <<trace, batch, pos[w]>>
Inserting(w) == loc[w].kind = "insert"

\* Mutant of Lock: it does not wait for the chunk's owner.
LockAnyway(c) ==
  chunk' = [chunk EXCEPT ![c].lock = IF @ = "zombie" THEN "zombie" ELSE "locked"]

Lock(c) ==
  /\ chunk[c].lock # "locked"
  /\ chunk' = [chunk EXCEPT ![c].lock = IF @ = "zombie" THEN "zombie" ELSE "locked"]

Unlock(c) ==
  chunk' = [chunk EXCEPT ![c].lock = IF @ = "locked" THEN "unlocked" ELSE @]

UpdateNextVal(c, next) == chunk' = [chunk EXCEPT ![c].next = next]

Write(c, lane, entry) == chunk' = [chunk EXCEPT ![c].data[lane] = entry]

Height == Highest({l \in Levels : ctr[l] > 0})

\* The answer of w's operation is fixed now.
Decide(w, ans) == decided' = [decided EXCEPT ![OpOf(w)] = ans]

(***************************************************************************)
(* Host and kernel.                                                        *)
(***************************************************************************)
BatchDone == \A w \in Warps : At(w, "take") /\ pos[w] > Len(Batches[batch].keys)

NextBatch ==
  /\ batch < Len(Batches)
  /\ BatchDone
  /\ batch' = batch + 1
  /\ pos' = [w \in Warps |-> w + 1]
  /\ UNCHANGED <<mem, pc, loc, trace, result, decided>>

StartOp(w) ==
  /\ At(w, "take")
  /\ pos[w] <= Len(Batches[batch].keys)
  /\ LET o == OpOf(w)
     IN  loc' = [loc EXCEPT ![w].kind = KindOf(o), ![w].key = KeyOf(o),
                            ![w].sk = KeyOf(o), ![w].val = KeyOf(o)]
  /\ GoTo(w, "search")
  /\ UNCHANGED <<mem, host, decided>>

ReturnResult(w) ==
  /\ At(w, "return")
  /\ result' = [result EXCEPT ![OpOf(w)] = loc[w].ans]
  /\ pos' = [pos EXCEPT ![w] = @ + NumWarps]
  /\ loc' = [loc EXCEPT ![w] = NoOp]
  /\ GoTo(w, "take")
  /\ UNCHANGED <<mem, trace, batch, decided>>

(***************************************************************************)
(* searchSlow: from the top level down to the enclosing chunk of level 0,  *)
(* remembering the path, and unlinking the zombies met behind a            *)
(* predecessor that can be locked at once.                                 *)
(***************************************************************************)
SearchStart(w) ==
  /\ At(w, "search")
  /\ loc' = [loc EXCEPT ![w].h = Height, ![w].path = [l \in Levels |-> l],
                        ![w].cur = Height, ![w].prev = Nil, ![w].prevKv = BlankKv]
  /\ GoTo(w, "read")
  /\ UNCHANGED <<mem, host, decided>>

\* On to the chunk right of c.  At level 0 the search is over when c was not
\* left behind because of its maximum.
GoRight(w, c) ==
  LET tid == TidForNextStep(loc[w].sk, c)
      over == loc[w].h = 0 /\ tid # TidNext
  IN  /\ loc' = [loc EXCEPT ![w].prev = loc[w].cur, ![w].prevKv = c,
                            ![w].cur = c.next, ![w].tid = tid,
                            ![w].kv = IF over THEN c ELSE BlankKv]
      /\ GoTo(w, IF over THEN "searched" ELSE "read")

SearchRead(w) ==
  /\ At(w, "read")
  /\ LET c == chunk[loc[w].cur]
         tid == TidForNextStep(loc[w].sk, c)
     IN  /\ ~IsZombie(c)
         /\ \/ /\ loc[w].h > 0
               /\ GoTo(w, "reread")
               /\ UNCHANGED loc
            \/ /\ loc[w].h = 0 /\ tid = TidNext
               /\ GoRight(w, c)
            \/ /\ loc[w].h = 0 /\ tid # TidNext
               /\ loc' = [loc EXCEPT ![w].kv = c, ![w].tid = tid]
               /\ GoTo(w, "searched")
  /\ UNCHANGED <<mem, host, decided>>

SearchMeetZombie(w) ==
  /\ At(w, "read")
  /\ LET c == chunk[loc[w].cur]
     IN  /\ IsZombie(c)
         /\ IF loc[w].prev # Nil /\ ~IsZombie(loc[w].prevKv)
              THEN /\ loc' = [loc EXCEPT ![w].kv = c,
                                         ![w].tid = TidForNextStep(loc[w].sk, c)]
                   /\ GoTo(w, "tryLock")
              ELSE GoRight(w, c)
  /\ UNCHANGED <<mem, host, decided>>

TryLockPrev(w) ==
  /\ At(w, "tryLock")
  /\ chunk[loc[w].prev].lock = "unlocked"
  /\ Lock(loc[w].prev)
  /\ GoTo(w, "recheck")
  /\ UNCHANGED <<ctr, allocated, loc, host, decided>>

TryLockFails(w) ==
  /\ At(w, "tryLock")
  /\ chunk[loc[w].prev].lock # "unlocked"
  /\ GoRight(w, loc[w].kv)
  /\ UNCHANGED <<mem, host, decided>>

\* Has the predecessor been split or redirected before it was locked?
RecheckPrev(w) ==
  /\ At(w, "recheck")
  /\ loc' = [loc EXCEPT ![w].prevKv = chunk[loc[w].prev]]
  /\ GoTo(w, IF chunk[loc[w].prev].next = loc[w].cur THEN "skip" ELSE "giveUp")
  /\ UNCHANGED <<mem, host, decided>>

GiveUpUnlink(w) ==
  /\ At(w, "giveUp")
  /\ Unlock(loc[w].prev)
  /\ GoRight(w, loc[w].kv)
  /\ UNCHANGED <<ctr, allocated, host, decided>>

SkipZombie(w) ==
  /\ At(w, "skip")
  /\ LET c == chunk[loc[w].kv.next]
     IN  /\ loc' = [loc EXCEPT ![w].cur = loc[w].kv.next, ![w].kv = c]
         /\ GoTo(w, IF IsZombie(c) THEN "skip" ELSE "unlink")
  /\ UNCHANGED <<mem, host, decided>>

UnlinkZombies(w) ==
  /\ At(w, "unlink")
  /\ UpdateNextVal(loc[w].prev, loc[w].cur)
  /\ GoTo(w, "unlinked")
  /\ UNCHANGED <<ctr, allocated, loc, host, decided>>

\* At level 0 the lane chosen in the zombie decides whether the search goes on.
UnlockPrev(w) ==
  /\ At(w, "unlinked")
  /\ Unlock(loc[w].prev)
  /\ GoTo(w, IF loc[w].h > 0 THEN "reread"
             ELSE IF loc[w].tid = TidNext THEN "read" ELSE "searched")
  /\ UNCHANGED <<ctr, allocated, loc, host, decided>>

\* Down from chunk p, read as c, through its entry in lane t.
GoDown(w, p, c, t) ==
  /\ loc' = [loc EXCEPT ![w].path[loc[w].h] = p, ![w].h = @ - 1,
                        ![w].prev = Nil, ![w].prevKv = BlankKv, ![w].kv = BlankKv,
                        ![w].cur = c.data[t].v]
  /\ GoTo(w, "read")

\* The second read above level 0: the chunk may have changed, or died.
StepRight(w) ==
  /\ At(w, "reread")
  /\ LET c == chunk[loc[w].cur]
     IN  TidForNextStep(loc[w].sk, c) = TidNext /\ GoRight(w, c)
  /\ UNCHANGED <<mem, host, decided>>

StepDown(w) ==
  /\ At(w, "reread")
  /\ LET c == chunk[loc[w].cur]
         tid == TidForNextStep(loc[w].sk, c)
     IN  tid \in Lanes /\ GoDown(w, loc[w].cur, c, tid)
  /\ UNCHANGED <<mem, host, decided>>

\* Every key of the chunk is above the key searched: down from the chunk left
\* of it, or all over again when there is none or it leads nowhere either.  The
\* code gives up, and has no chunk to go on with, after 10,000,000 restarts.
BackTrack(w) ==
  /\ At(w, "reread")
  /\ TidForNextStep(loc[w].sk, chunk[loc[w].cur]) = TidNone
  /\ loc[w].prev # Nil
  /\ LET tid == TidOfDownStep(loc[w].sk, loc[w].prevKv)
     IN  tid # TidNone /\ GoDown(w, loc[w].prev, loc[w].prevKv, tid)
  /\ UNCHANGED <<mem, host, decided>>

RestartSearch(w) ==
  /\ At(w, "reread")
  /\ TidForNextStep(loc[w].sk, chunk[loc[w].cur]) = TidNone
  /\ loc[w].prev = Nil \/ TidOfDownStep(loc[w].sk, loc[w].prevKv) = TidNone
  /\ GoTo(w, "search")
  /\ UNCHANGED <<mem, loc, host, decided>>

\* The search of an operation ends.  It looks for the key in what it read last.
Found(w) == loc[w].tid # TidNone /\ ChunkContains(loc[w].sk, loc[w].kv)
OwnSearch(w) == At(w, "searched") /\ loc[w].caller = "op"

Searched(w) ==
  [loc[w] EXCEPT !.route = [loc[w].path EXCEPT ![0] = loc[w].cur], !.enc = loc[w].cur,
                 !.prev = Nil, !.prevKv = BlankKv, !.kv = BlankKv, !.tid = TidNone]

SearchRefuses(w) ==
  /\ OwnSearch(w)
  /\ Found(w) = Inserting(w)
  /\ loc' = [loc EXCEPT ![w].ans = "false"]
  /\ Decide(w, "false")
  /\ GoTo(w, "return")
  /\ UNCHANGED <<mem, host>>

SearchLeads(w) ==
  /\ OwnSearch(w)
  /\ Found(w) # Inserting(w)
  /\ loc' = [loc EXCEPT ![w] = Searched(w)]
  /\ GoTo(w, "enclose")
  /\ UNCHANGED <<mem, host, decided>>

(***************************************************************************)
(* findAndLockEnclosing: right to the chunk whose maximum covers the key,  *)
(* lock it, look again.                                                    *)
(***************************************************************************)
Beyond(w, c) == IsZombie(c) \/ TidForNextStep(loc[w].key, c) = TidNext

WalkToEnclosing(w) ==
  /\ At(w, "enclose")
  /\ LET c == chunk[loc[w].enc]
     IN  IF Beyond(w, c)
           THEN loc' = [loc EXCEPT ![w].enc = c.next] /\ UNCHANGED pc
           ELSE GoTo(w, "encLock") /\ UNCHANGED loc
  /\ UNCHANGED <<mem, host, decided>>

LockEnclosing(w) ==
  /\ At(w, "encLock")
  /\ Lock(loc[w].enc)
  /\ GoTo(w, "encCheck")
  /\ UNCHANGED <<ctr, allocated, loc, host, decided>>

NotEnclosing(w) ==
  /\ At(w, "encCheck")
  /\ Beyond(w, chunk[loc[w].enc])
  /\ GoTo(w, "encRetry")
  /\ UNCHANGED <<mem, loc, host, decided>>

RetryEnclosing(w) ==
  /\ At(w, "encRetry")
  /\ Unlock(loc[w].enc)
  /\ GoTo(w, "enclose")
  /\ UNCHANGED <<ctr, allocated, loc, host, decided>>

\* Mutant of Enclosing: the chunk is not looked at again once it is locked.
EnclosingUnchecked(w) == At(w, "encCheck")

Enclosing(w) == At(w, "encCheck") /\ ~Beyond(w, chunk[loc[w].enc])

\* At level 0 the chunk is the operation's bottom chunk, locked to the end.
BottomOf(w) == IF loc[w].level = 0 THEN loc[w].enc ELSE loc[w].bottom

(***************************************************************************)
(* insertToLevel.                                                          *)
(***************************************************************************)
NewEntry(w) == [k |-> loc[w].key, v |-> loc[w].val]

\* The entries of chunk c, with the new one among them, about to be stored.
ShiftIn(w, c, data, n) ==
  loc' = [loc EXCEPT ![w].up = FALSE, ![w].tgt = c,
            ![w].bottom = IF loc[w].level = 0 THEN c ELSE @,
            ![w].stop = InsertionIdx(data, loc[w].key), ![w].i = n,
            ![w].reg = Shifted(data, InsertionIdx(data, loc[w].key), NewEntry(w))]

\* The key came first by another warp: at level 0 the operation fails; above
\* it raiseKey stays as it was.
InsertPresent(w) ==
  /\ Inserting(w) /\ Enclosing(w)
  /\ ChunkContains(loc[w].key, chunk[loc[w].enc])
  /\ IF loc[w].level = 0
       THEN /\ loc' = [loc EXCEPT ![w].bottom = loc[w].enc, ![w].ans = "false"]
            /\ Decide(w, "false")
            /\ GoTo(w, "unlockBottom")
       ELSE UNCHANGED <<loc, decided>> /\ GoTo(w, "unlockEnc")
  /\ UNCHANGED <<mem, host>>

InsertFits(w) ==
  /\ Inserting(w) /\ Enclosing(w)
  /\ LET c == chunk[loc[w].enc]
     IN  /\ ~ChunkContains(loc[w].key, c)
         /\ OccupiedSlots(c) < DSize
         /\ ShiftIn(w, loc[w].enc, c.data, OccupiedSlots(c))
  /\ GoTo(w, "shift")
  /\ UNCHANGED <<mem, host, decided>>

InsertOverflows(w) ==
  /\ Inserting(w) /\ Enclosing(w)
  /\ LET c == chunk[loc[w].enc]
     IN  ~ChunkContains(loc[w].key, c) /\ OccupiedSlots(c) = DSize
  /\ loc' = [loc EXCEPT ![w].ini = loc[w].enc]
  /\ GoTo(w, "nextRead")
  /\ UNCHANGED <<mem, host, decided>>

\* executeInsert stores the entries from the right, one at a time; the last
\* one is the new entry.
ShiftRight(w) ==
  /\ At(w, "shift")
  /\ Write(loc[w].tgt, loc[w].i, loc[w].reg[loc[w].i])
  /\ IF loc[w].i > loc[w].stop
       THEN /\ loc' = [loc EXCEPT ![w].i = @ - 1]
            /\ UNCHANGED <<pc, decided>>
       ELSE /\ IF loc[w].level = 0 THEN Decide(w, "true") ELSE UNCHANGED decided
            /\ loc' = [loc EXCEPT ![w].ans = "true", ![w].reg = BlankKv.data]
            /\ GoTo(w, IF loc[w].new # Nil THEN "unlockOther"
                       ELSE IF loc[w].level = 0 THEN "unlockBottom" ELSE "isEmpty")
  /\ UNCHANGED <<ctr, allocated, host>>

IsLevelEmpty(w) ==
  /\ At(w, "isEmpty")
  /\ GoTo(w, IF ctr[loc[w].level] = 0 THEN "count" ELSE "unlockEnc")
  /\ UNCHANGED <<mem, loc, host, decided>>

\* Mutant of IncrementNumChunks: splits of level 0 are not counted.
IncrementAbove(w) ==
  /\ At(w, "count")
  /\ ctr' = [ctr EXCEPT ![loc[w].level] = IF loc[w].level = 0 THEN @ ELSE @ + 1]
  /\ loc' = [loc EXCEPT ![w].up = loc[w].new # Nil, ![w].new = Nil]
  /\ GoTo(w, IF loc[w].level = 0 THEN "raise" ELSE "unlockEnc")
  /\ UNCHANGED <<chunk, allocated, host, decided>>

IncrementNumChunks(w) ==
  /\ At(w, "count")
  /\ ctr' = [ctr EXCEPT ![loc[w].level] = @ + 1]
  /\ loc' = [loc EXCEPT ![w].up = loc[w].new # Nil, ![w].new = Nil]
  /\ GoTo(w, IF loc[w].level = 0 THEN "raise" ELSE "unlockEnc")
  /\ UNCHANGED <<chunk, allocated, host, decided>>

(***************************************************************************)
(* findAndLockNextNonZombie from chunk ini.                                *)
(***************************************************************************)
\* What comes next: the new chunk of a split, or the rest of a merge.
AfterNext(w) == IF loc[w].ini = loc[w].enc /\ ~Inserting(w) THEN "mergeRead" ELSE "alloc"

ReadNext(w) ==
  /\ At(w, "nextRead")
  /\ LET n == chunk[loc[w].ini].next
     IN  /\ loc' = [loc EXCEPT ![w].first = n, ![w].cur = n]
         /\ GoTo(w, IF n = Nil THEN AfterNext(w) ELSE "nextWalk")
  /\ UNCHANGED <<mem, host, decided>>

\* Mutant of WalkToNext: the walk does not go past a zombie.
WalkStays(w) ==
  /\ At(w, "nextWalk")
  /\ IF IsZombie(chunk[loc[w].cur]) THEN UNCHANGED pc ELSE GoTo(w, "nextLock")
  /\ UNCHANGED <<mem, loc, host, decided>>

WalkToNext(w) ==
  /\ At(w, "nextWalk")
  /\ LET c == chunk[loc[w].cur]
     IN  IF IsZombie(c)
           THEN loc' = [loc EXCEPT ![w].cur = c.next] /\ UNCHANGED pc
           ELSE GoTo(w, "nextLock") /\ UNCHANGED loc
  /\ UNCHANGED <<mem, host, decided>>

LockNext(w) ==
  /\ At(w, "nextLock")
  /\ Lock(loc[w].cur)
  /\ GoTo(w, "nextCheck")
  /\ UNCHANGED <<ctr, allocated, loc, host, decided>>

\* Mutant of CheckNext: the chunk is not looked at again once it is locked.
CheckNextTrusts(w) ==
  /\ At(w, "nextCheck")
  /\ GoTo(w, "nextSet")
  /\ UNCHANGED <<mem, loc, host, decided>>

CheckNext(w) ==
  /\ At(w, "nextCheck")
  /\ IF IsZombie(chunk[loc[w].cur])
       THEN loc' = [loc EXCEPT ![w].cur = loc[w].first] /\ GoTo(w, "nextWalk")
       ELSE GoTo(w, "nextSet") /\ UNCHANGED loc
  /\ UNCHANGED <<mem, host, decided>>

RedirectNext(w) ==
  /\ At(w, "nextSet")
  /\ UpdateNextVal(loc[w].ini, loc[w].cur)
  /\ GoTo(w, AfterNext(w))
  /\ UNCHANGED <<ctr, allocated, loc, host, decided>>

(***************************************************************************)
(* Splits, by an insert and by a merge into a chunk that is too full.      *)
(***************************************************************************)
\* Mutant of GetNewChunk: the counter wraps at the chunks of the first list.
GetUsedChunk(w) ==
  /\ At(w, "alloc")
  /\ chunk' = [chunk EXCEPT ![allocated] = FreshChunk(loc[w].cur, "locked")]
  /\ allocated' = IF allocated >= 2 * TopLevel THEN 0 ELSE allocated + 1
  /\ loc' = [loc EXCEPT ![w].new = allocated]
  /\ GoTo(w, IF loc[w].cur = Nil THEN "copy" ELSE "unlockNext")
  /\ UNCHANGED <<ctr, host, decided>>

GetNewChunk(w) ==
  /\ At(w, "alloc")
  /\ chunk' = [chunk EXCEPT ![allocated] = FreshChunk(loc[w].cur, "locked")]
  /\ allocated' = IF allocated >= PoolSize THEN 0 ELSE allocated + 1
  /\ loc' = [loc EXCEPT ![w].new = allocated]
  /\ GoTo(w, IF loc[w].cur = Nil THEN "copy" ELSE "unlockNext")
  /\ UNCHANGED <<ctr, host, decided>>

UnlockNext(w) ==
  /\ At(w, "unlockNext")
  /\ Unlock(loc[w].cur)
  /\ GoTo(w, "copy")
  /\ UNCHANGED <<ctr, allocated, loc, host, decided>>

\* The new chunk becomes reachable before the moved entries are emptied.
SplitCopy(w) ==
  /\ At(w, "copy")
  /\ LET c == chunk[loc[w].ini]
     IN  /\ chunk' = [chunk EXCEPT ![loc[w].new] = SplitOff(c, @),
                                   ![loc[w].ini].max = Threshold(c),
                                   ![loc[w].ini].next = loc[w].new]
         /\ loc' = [loc EXCEPT ![w].kv = c]
  /\ GoTo(w, "empty")
  /\ UNCHANGED <<ctr, allocated, host, decided>>

Emptied(c) == [i \in Lanes |-> IF i \in MovedLanes(c) THEN EmptyEntry ELSE c.data[i]]

EmptyMoved(w) ==
  /\ At(w, "empty")
  /\ LET c == loc[w].kv
         goesRight == loc[w].key > Threshold(c)
         data == IF goesRight THEN chunk[loc[w].new].data ELSE Emptied(c)
         moved == Cardinality(MovedLanes(c))
     IN  /\ chunk' = [chunk EXCEPT ![loc[w].ini].data =
                        [i \in Lanes |-> IF i \in MovedLanes(c) THEN EmptyEntry ELSE @[i]]]
         /\ IF Inserting(w)
              THEN /\ ShiftIn(w, IF goesRight THEN loc[w].new ELSE loc[w].ini, data,
                              IF goesRight THEN moved ELSE OccupiedSlots(c) - moved)
                   /\ GoTo(w, "shift")
              ELSE /\ loc' = [loc EXCEPT ![w].kv = BlankKv]
                   /\ GoTo(w, "unlockNew")
  /\ UNCHANGED <<ctr, allocated, host, decided>>

\* The down pointers of the keys min .. max, on the level above, are to lead
\* to chunk val: a search for min finds where they begin.
BeginDown(w, min, max, val, done) ==
  LET atTop == loc[w].level + 1 > TopLevel
  IN  /\ loc' = [loc EXCEPT ![w].min = min, ![w].max = max, ![w].sk = min, ![w].tgt = val,
                            ![w].enc = IF Inserting(w) THEN loc[w].tgt ELSE @,
                            ![w].kv = BlankKv,
                            ![w].caller = IF atTop THEN @ ELSE "down"]
      /\ GoTo(w, IF atTop THEN done ELSE "search")

UnlockOther(w) ==
  /\ At(w, "unlockOther")
  /\ Unlock(IF loc[w].tgt = loc[w].new THEN loc[w].ini ELSE loc[w].new)
  /\ BeginDown(w, loc[w].kv.data[DSize \div 2 + 1].k, loc[w].kv.data[DSize - 1].k,
               loc[w].new, "count")
  /\ UNCHANGED <<ctr, allocated, host, decided>>

(***************************************************************************)
(* eraseFromLevel.                                                         *)
(***************************************************************************)
\* Mutant of EraseAbsent: a delete that comes too late keeps its chunk locked.
EraseAbsentStaysLocked(w) ==
  /\ ~Inserting(w) /\ Enclosing(w)
  /\ ~ChunkContains(loc[w].key, chunk[loc[w].enc])
  /\ IF loc[w].level = 0
       THEN /\ loc' = [loc EXCEPT ![w].bottom = loc[w].enc, ![w].ans = "false"]
            /\ Decide(w, "false")
            /\ GoTo(w, "return")
       ELSE /\ loc' = [loc EXCEPT ![w].up = FALSE]
            /\ GoTo(w, "unlockEnc")
            /\ UNCHANGED decided
  /\ UNCHANGED <<mem, host>>

EraseAbsent(w) ==
  /\ ~Inserting(w) /\ Enclosing(w)
  /\ ~ChunkContains(loc[w].key, chunk[loc[w].enc])
  /\ IF loc[w].level = 0
       THEN /\ loc' = [loc EXCEPT ![w].bottom = loc[w].enc, ![w].ans = "false"]
            /\ Decide(w, "false")
            /\ GoTo(w, "unlockBottom")
       ELSE /\ loc' = [loc EXCEPT ![w].up = FALSE]
            /\ GoTo(w, "unlockEnc")
            /\ UNCHANGED decided
  /\ UNCHANGED <<mem, host>>

Merges(c) == ~IsLastChunk(c) /\ OccupiedSlots(c) - 1 <= MergeThreshold

\* executeDelete: lower the maximum if it goes, then shift the entries right
\* of the key to the left, one at a time.
EraseInPlace(w) ==
  /\ ~Inserting(w) /\ Enclosing(w)
  /\ LET c == chunk[loc[w].enc]
         del == TidWithKey(loc[w].key, c)
         last == OccupiedSlots(c) - 1
     IN  /\ ChunkContains(loc[w].key, c)
         /\ ~Merges(c)
         /\ loc' = [loc EXCEPT ![w].bottom = BottomOf(w), ![w].up = TRUE, ![w].i = del,
                      ![w].stop = last,
                      ![w].reg = [i \in Lanes |-> IF i < last THEN c.data[i + 1]
                                                  ELSE EmptyEntry],
                      ![w].min = IF del > 0 THEN c.data[del - 1].k ELSE NegInf]
         /\ GoTo(w, IF del = last /\ ~IsLastChunk(c) THEN "lowerMax" ELSE "unshift")
  /\ UNCHANGED <<mem, host, decided>>

LowerMax(w) ==
  /\ At(w, "lowerMax")
  /\ chunk' = [chunk EXCEPT ![loc[w].enc].max = loc[w].min]
  /\ IF loc[w].level = 0 THEN Decide(w, "true") ELSE UNCHANGED decided
  /\ GoTo(w, "unshift")
  /\ UNCHANGED <<ctr, allocated, loc, host>>

AfterErase(w) == IF loc[w].level = 0 THEN "height" ELSE "unlockEnc"

ShiftLeft(w) ==
  /\ At(w, "unshift")
  /\ Write(loc[w].enc, loc[w].i, loc[w].reg[loc[w].i])
  /\ IF loc[w].level = 0 /\ decided[OpOf(w)] = "none" THEN Decide(w, "true")
                                                      ELSE UNCHANGED decided
  /\ IF loc[w].i < loc[w].stop
       THEN loc' = [loc EXCEPT ![w].i = @ + 1] /\ UNCHANGED pc
       ELSE /\ loc' = [loc EXCEPT ![w].ans = "true", ![w].reg = BlankKv.data]
            /\ GoTo(w, AfterErase(w))
  /\ UNCHANGED <<ctr, allocated, host>>

\* mergeDelete: the entries go to the next chunk, split first if they would
\* not fit, and the chunk becomes a zombie.
EraseByMerge(w) ==
  /\ ~Inserting(w) /\ Enclosing(w)
  /\ ChunkContains(loc[w].key, chunk[loc[w].enc])
  /\ Merges(chunk[loc[w].enc])
  /\ loc' = [loc EXCEPT ![w].bottom = BottomOf(w), ![w].up = TRUE, ![w].ini = loc[w].enc]
  /\ GoTo(w, "nextRead")
  /\ UNCHANGED <<mem, host, decided>>

\* The entries the merge moves.
Remaining(w) == OccupiedSlots(chunk[loc[w].enc]) - 1

MergeRead(w) ==
  /\ At(w, "mergeRead")
  /\ LET n == loc[w].cur
         over == OccupiedSlots(chunk[n]) + Remaining(w) > DSize
     IN  /\ loc' = [loc EXCEPT ![w].nxt = n, ![w].over = over,
                               ![w].ini = IF over THEN n ELSE @]
         /\ GoTo(w, IF over THEN "nextRead" ELSE "mergeShift")
  /\ UNCHANGED <<mem, host, decided>>

UnlockNew(w) ==
  /\ At(w, "unlockNew")
  /\ Unlock(loc[w].new)
  /\ GoTo(w, "mergeShift")
  /\ UNCHANGED <<ctr, allocated, loc, host, decided>>

MergeShift(w) ==
  /\ At(w, "mergeShift")
  /\ LET n == chunk[loc[w].nxt]
     IN  /\ loc' = [loc EXCEPT ![w].reg = n.data, ![w].i = OccupiedSlots(n) - 1,
                               ![w].stop = Remaining(w)]
         /\ GoTo(w, IF OccupiedSlots(n) = 0 THEN "mergeCopy" ELSE "shiftBy")
  /\ UNCHANGED <<mem, host, decided>>

ShiftData(w) ==
  /\ At(w, "shiftBy")
  /\ Write(loc[w].nxt, loc[w].i + loc[w].stop, loc[w].reg[loc[w].i])
  /\ loc' = [loc EXCEPT ![w].i = IF @ = 0 THEN 0 ELSE @ - 1]
  /\ GoTo(w, IF loc[w].i = 0 THEN "mergeCopy" ELSE "shiftBy")
  /\ UNCHANGED <<ctr, allocated, host, decided>>

MergeCopy(w) ==
  /\ At(w, "mergeCopy")
  /\ LET c == chunk[loc[w].enc]
     IN  /\ chunk' = [chunk EXCEPT ![loc[w].nxt].data =
                        CopiedTo(c, TidWithKey(loc[w].key, c), chunk[loc[w].nxt])]
         /\ loc' = [loc EXCEPT ![w].min = c.data[0].k, ![w].reg = BlankKv.data,
                               ![w].max = c.data[OccupiedSlots(c) - 1].k]
  /\ GoTo(w, "markZombie")
  /\ UNCHANGED <<ctr, allocated, host, decided>>

\* Mutants of MarkZombie: the zombie's successor is cut off; a merge that split
\* the next chunk lowers the count as well.
MarkZombieCuts(w) ==
  /\ At(w, "markZombie")
  /\ chunk' = [chunk EXCEPT ![loc[w].enc].lock = "zombie", ![loc[w].enc].next = Nil]
  /\ IF loc[w].level = 0 THEN Decide(w, "true") ELSE UNCHANGED decided
  /\ IF loc[w].over
       THEN BeginDown(w, loc[w].min, loc[w].max, loc[w].nxt, "unlockMerged")
       ELSE GoTo(w, "uncount") /\ UNCHANGED loc
  /\ UNCHANGED <<ctr, allocated, host>>

MarkZombieUncounts(w) ==
  /\ At(w, "markZombie")
  /\ chunk' = [chunk EXCEPT ![loc[w].enc].lock = "zombie"]
  /\ IF loc[w].level = 0 THEN Decide(w, "true") ELSE UNCHANGED decided
  /\ GoTo(w, "uncount")
  /\ UNCHANGED <<loc, ctr, allocated, host>>

MarkZombie(w) ==
  /\ At(w, "markZombie")
  /\ chunk' = [chunk EXCEPT ![loc[w].enc].lock = "zombie"]
  /\ IF loc[w].level = 0 THEN Decide(w, "true") ELSE UNCHANGED decided
  /\ IF loc[w].over
       THEN BeginDown(w, loc[w].min, loc[w].max, loc[w].nxt, "unlockMerged")
       ELSE GoTo(w, "uncount") /\ UNCHANGED loc
  /\ UNCHANGED <<ctr, allocated, host>>

DecrementNumChunks(w) ==
  /\ At(w, "uncount")
  /\ ctr' = [ctr EXCEPT ![loc[w].level] = @ - 1]
  /\ BeginDown(w, loc[w].min, loc[w].max, loc[w].nxt, "unlockMerged")
  /\ UNCHANGED <<chunk, allocated, host, decided>>

UnlockMerged(w) ==
  /\ At(w, "unlockMerged")
  /\ Unlock(loc[w].nxt)
  /\ loc' = [loc EXCEPT ![w].ans = "true", ![w].new = Nil, ![w].over = FALSE]
  /\ GoTo(w, AfterErase(w))
  /\ UNCHANGED <<ctr, allocated, host, decided>>

(***************************************************************************)
(* updateDownPtrs, on the level above the operation's.                     *)
(***************************************************************************)
AfterDown(w) == IF Inserting(w) THEN "count" ELSE "unlockMerged"

DownSearched(w) ==
  /\ At(w, "searched") /\ loc[w].caller = "down"
  /\ loc' = [loc EXCEPT ![w].cur = loc[w].path[loc[w].level + 1], ![w].prev = Nil,
                        ![w].prevKv = BlankKv, ![w].kv = BlankKv, ![w].tid = TidNone,
                        ![w].caller = "op"]
  /\ GoTo(w, "downRead")
  /\ UNCHANGED <<mem, host, decided>>

\* Mutant of Affected: no lower bound.
AffectedBelow(w, c, size) == {i \in Lanes : i < size /\ c.data[i].k <= loc[w].max}

Affected(w, c, size) ==
  {i \in Lanes : i < size /\ loc[w].min <= c.data[i].k /\ c.data[i].k <= loc[w].max}

\* Past chunk c: done, or one chunk to the right.
NextDown(w, c) ==
  IF c.max > loc[w].max \/ c.next = Nil
    THEN /\ loc' = [loc EXCEPT ![w].kv = BlankKv, ![w].cur = Nil, ![w].size = 0]
         /\ GoTo(w, AfterDown(w))
    ELSE /\ loc' = [loc EXCEPT ![w].kv = BlankKv, ![w].cur = c.next, ![w].size = 0]
         /\ GoTo(w, "downRead")

\* A zombie's entries are updated like any other's.
DownRead(w) ==
  /\ At(w, "downRead")
  /\ LET c == chunk[loc[w].cur]
     IN  IF Affected(w, c, OccupiedSlots(c)) # {}
           THEN /\ loc' = [loc EXCEPT ![w].size = OccupiedSlots(c)]
                /\ GoTo(w, "downLock")
           ELSE NextDown(w, c)
  /\ UNCHANGED <<mem, host, decided>>

DownLock(w) ==
  /\ At(w, "downLock")
  /\ Lock(loc[w].cur)
  /\ GoTo(w, "downWrite")
  /\ UNCHANGED <<ctr, allocated, loc, host, decided>>

\* The number of entries is the one read before the lock was taken.
DownWrite(w) ==
  /\ At(w, "downWrite")
  /\ LET c == chunk[loc[w].cur]
     IN  /\ chunk' = [chunk EXCEPT ![loc[w].cur].data =
                        [i \in Lanes |-> IF i \in Affected(w, c, loc[w].size)
                                           THEN [@[i] EXCEPT !.v = loc[w].tgt] ELSE @[i]]]
         /\ loc' = [loc EXCEPT ![w].kv = c]
  /\ GoTo(w, "downUnlock")
  /\ UNCHANGED <<ctr, allocated, host, decided>>

DownUnlock(w) ==
  /\ At(w, "downUnlock")
  /\ Unlock(loc[w].cur)
  /\ NextDown(w, loc[w].kv)
  /\ UNCHANGED <<ctr, allocated, host, decided>>

(***************************************************************************)
(* insert and erase: up the levels, then release the bottom chunk.         *)
(***************************************************************************)
\* An operation goes on at level l, from the chunk its search remembered.
EnterLevel(w, l, val) ==
  /\ loc' = [loc EXCEPT ![w].level = l, ![w].enc = loc[w].route[l], ![w].val = val,
                        ![w].ini = Nil, ![w].nxt = Nil, ![w].first = Nil]
  /\ GoTo(w, "enclose")

\* The key is raised when it split the bottom chunk.
RaiseKey(w) ==
  /\ At(w, "raise")
  /\ IF TopLevel > 1 THEN EnterLevel(w, 1, loc[w].bottom)
                     ELSE GoTo(w, "unlockBottom") /\ UNCHANGED loc
  /\ UNCHANGED <<mem, host, decided>>

\* The levels above are erased from up to the height the list has now.
ReadHeight(w) ==
  /\ At(w, "height")
  /\ IF Height >= 1
       THEN /\ loc' = [loc EXCEPT ![w].top = Height, ![w].level = 1,
                         ![w].enc = loc[w].route[1],
                         ![w].ini = Nil, ![w].nxt = Nil, ![w].first = Nil]
            /\ GoTo(w, "enclose")
       ELSE GoTo(w, "unlockBottom") /\ UNCHANGED loc
  /\ UNCHANGED <<mem, host, decided>>

\* Mutant of TopOf: an erase stops below the height.
TopOfLess(w) == IF Inserting(w) THEN TopLevel - 1 ELSE loc[w].top - 1

\* insert stops below MAX_LEVEL, erase at the height.
TopOf(w) == IF Inserting(w) THEN TopLevel - 1 ELSE loc[w].top

UnlockEnclosing(w) ==
  /\ At(w, "unlockEnc")
  /\ Unlock(loc[w].enc)
  /\ IF loc[w].up /\ loc[w].level < TopOf(w)
       THEN EnterLevel(w, loc[w].level + 1, loc[w].enc)
       ELSE GoTo(w, "unlockBottom") /\ UNCHANGED loc
  /\ UNCHANGED <<ctr, allocated, host, decided>>

UnlockBottom(w) ==
  /\ At(w, "unlockBottom")
  /\ Unlock(loc[w].bottom)
  /\ GoTo(w, "return")
  /\ UNCHANGED <<ctr, allocated, loc, host, decided>>

-----------------------------------------------------------------------------
Search(w) ==
  \/ SearchStart(w) \/ SearchRead(w) \/ SearchMeetZombie(w)
  \/ TryLockPrev(w) \/ TryLockFails(w) \/ RecheckPrev(w) \/ GiveUpUnlink(w)
  \/ SkipZombie(w) \/ UnlinkZombies(w) \/ UnlockPrev(w)
  \/ StepRight(w) \/ StepDown(w) \/ BackTrack(w) \/ RestartSearch(w)
  \/ SearchRefuses(w) \/ SearchLeads(w)

Enclose(w) ==
  WalkToEnclosing(w) \/ LockEnclosing(w) \/ NotEnclosing(w) \/ RetryEnclosing(w)

FindNext(w) ==
  ReadNext(w) \/ WalkToNext(w) \/ LockNext(w) \/ CheckNext(w) \/ RedirectNext(w)

Split(w) ==
  GetNewChunk(w) \/ UnlockNext(w) \/ SplitCopy(w) \/ EmptyMoved(w) \/ UnlockOther(w)

InsertToLevel(w) ==
  \/ InsertPresent(w) \/ InsertFits(w) \/ InsertOverflows(w) \/ ShiftRight(w)
  \/ IsLevelEmpty(w) \/ IncrementNumChunks(w) \/ RaiseKey(w)

EraseFromLevel(w) ==
  \/ EraseAbsent(w) \/ EraseInPlace(w) \/ LowerMax(w) \/ ShiftLeft(w)
  \/ EraseByMerge(w) \/ MergeRead(w) \/ UnlockNew(w) \/ MergeShift(w) \/ ShiftData(w)
  \/ MergeCopy(w) \/ MarkZombie(w) \/ DecrementNumChunks(w) \/ UnlockMerged(w)
  \/ ReadHeight(w)

UpdateDownPtrs(w) ==
  DownSearched(w) \/ DownRead(w) \/ DownLock(w) \/ DownWrite(w) \/ DownUnlock(w)

Step(w) ==
  \/ StartOp(w) \/ ReturnResult(w) \/ Search(w) \/ Enclose(w) \/ FindNext(w) \/ Split(w)
  \/ InsertToLevel(w) \/ EraseFromLevel(w) \/ UpdateDownPtrs(w)
  \/ UnlockEnclosing(w) \/ UnlockBottom(w)

\* The host has its results: the system stops.
Finished == batch = Len(Batches) /\ BatchDone /\ UNCHANGED vars

Next == NextBatch \/ (\E w \in Warps : Step(w)) \/ Finished

Spec == Init /\ [][Next]_vars

\* The hardware runs every warp of a kernel, and the host goes on when the
\* kernel has ended.  A spin gets a lock that stays free.
FairSpec == Spec /\ WF_vars(NextBatch) /\ \A w \in Warps : WF_vars(Step(w))
=============================================================================
