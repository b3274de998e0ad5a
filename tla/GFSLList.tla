------------------------------ MODULE GFSLList ------------------------------
EXTENDS GFSLProperties

\* Ghosts: of each chunk its level (Nil: not linked yet), the lower end of its keys and
\* its place in the order of successors; and the chunks that are in the chain.
Ghosts == [lvl : [Chunks -> Levels \cup {Nil}], low : [Chunks -> Int],
           chain : SUBSET Chunks, rank : [Chunks -> Nat]]

On(g, l, c) == c \in Chunks /\ g.lvl[c] = l
Linked(g, c) == c \in Chunks /\ g.lvl[c] # Nil

\* An entry above level 0 leads to a chunk one level down that begins below its key.
EntryOK(g, e, l) == l > 0 /\ e.k # PosInf => On(g, l - 1, e.v) /\ g.low[e.v] < e.k
Datas == [Lanes -> Entries]
DataOK(g, data, l) == data \in Datas /\ \A i \in Lanes : EntryOK(g, data[i], l)

Sorted(data) ==
  \A i, j \in Lanes : i < j /\ data[j].k # PosInf => data[i].k < data[j].k
Within(data, lo, hi) ==
  \A i \in Lanes : data[i].k # PosInf => lo < data[i].k /\ data[i].k <= hi
Fine(data, lo, hi) == Sorted(data) /\ Within(data, lo, hi)

\* The chunks whose entries w is about to change or has begun to.
Busy(w, c) ==
  \/ pc[w] = "shift" /\ c = loc[w].tgt
  \/ pc[w] = "empty" /\ c = loc[w].ini
  \/ pc[w] \in {"lowerMax", "unshift"} /\ c = loc[w].enc
  \/ pc[w] \in {"shiftBy", "mergeCopy", "markZombie"} /\ c = loc[w].nxt

\* Where the next chunk's keys begin.
EndOf(g, c) == IF IsZombie(chunk[c]) THEN g.low[c] ELSE chunk[c].max

Node(g, c) ==
  LET n == chunk[c].next
      dead == IsZombie(chunk[c])
  IN  /\ g.low[c] \in NegInf - 1 .. PosInf
      /\ DataOK(g, chunk[c].data, g.lvl[c])
      /\ n = Nil => ~dead /\ chunk[c].max = PosInf
      /\ n # Nil => /\ On(g, g.lvl[c], n)
                    /\ g.rank[n] < g.rank[c]
                    /\ c \in g.chain => n \in g.chain /\ g.low[n] = EndOf(g, c)
                    /\ dead => g.low[n] <= g.low[c]
      /\ ~dead => /\ c \in g.chain
                  /\ g.low[c] < chunk[c].max
                  /\ Fine(chunk[c].data, g.low[c], chunk[c].max) \/ \E w \in Warps : Busy(w, c)

ListOK(g) ==
  /\ \A l \in Levels : g.lvl[l] = l /\ g.low[l] = NegInf - 1 /\ l \in g.chain
  /\ \A l \in Levels : \E c \in Chunks : On(g, l, c) /\ chunk[c].next = Nil
  /\ \A c \in Chunks : c >= allocated => g.lvl[c] = Nil /\ chunk[c].lock = "unlocked"
  /\ \A c \in Chunks : Linked(g, c) => Node(g, c)
  /\ \A c, d \in Chunks :
       Linked(g, c) /\ g.lvl[d] = g.lvl[c] /\ c # d /\ ~IsZombie(chunk[c]) /\ ~IsZombie(chunk[d])
         => chunk[c].max <= g.low[d] \/ chunk[d].max <= g.low[c]

Mine(c) == chunk[c].lock = "locked"
\* A chunk on level l from which key k is found by going right.
From(g, l, c, k) == On(g, l, c) /\ g.low[c] < k
\* Chunk c can follow chunk p, which is held.
Follows(g, l, p, c) ==
  /\ On(g, l, p) /\ On(g, l, c) /\ c \in g.chain /\ g.low[c] = chunk[p].max /\ g.rank[c] < g.rank[p]
  /\ chunk[p].next # Nil

Walking == {"read", "reread"} \cup UnlinkLabels \cup {"tryLock", "searched"}
\* A chunk as it was read is a zombie, which has not changed since.
Corpse(c, kv) == IsZombie(kv) /\ IsZombie(chunk[c]) /\ kv.next = chunk[c].next

SearchOK(g, w) ==
  LET r == loc[w]
      l == pc[w]
  IN  /\ r.h \in Levels
      /\ From(g, r.h, r.cur, r.sk)
      /\ r.prev # Nil => From(g, r.h, r.prev, r.sk) /\ DataOK(g, r.prevKv.data, r.h)
      /\ r.path = [x \in Levels |-> r.path[x]]
      /\ \A x \in Levels : From(g, x, r.path[x], r.sk)
      /\ l = "searched" => r.h = 0
      /\ l = "reread" => r.h > 0
      /\ l \in UnlinkLabels \cup {"tryLock"} => r.prev # Nil
      /\ l \in UnlinkLabels => Mine(r.prev)
      /\ l \in {"tryLock", "recheck", "giveUp"} =>
           Corpse(r.cur, r.kv) /\ DataOK(g, r.kv.data, r.h)
      /\ l = "skip" => /\ IsZombie(r.kv) /\ Follows(g, r.h, r.prev, r.kv.next)
                       /\ g.low[r.kv.next] < r.sk
      /\ l = "unlink" => Follows(g, r.h, r.prev, r.cur)

EncLocked == NextLabels \cup SplitLabels
                \cup {"mergeRead", "mergeShift", "shiftBy", "mergeCopy", "markZombie",
                      "lowerMax", "unshift"}

\* Where an operation is on a level, and what its registers name there.
LevelOK(g, w) ==
  LET r == loc[w]
      l == pc[w]
  IN  /\ \A x \in Levels : From(g, x, r.route[x], r.key)
      /\ r.level \in Levels
      /\ From(g, r.level, r.enc, r.key)
      /\ r.bottom # Nil => From(g, 0, r.bottom, r.key)
      /\ l = "raise" => r.bottom # Nil
      /\ l = "height" => ~Inserting(w)
      /\ r.nxt # Nil => On(g, r.level, r.nxt)
      /\ r.new # Nil => r.new \in Chunks /\ r.new < allocated
      /\ Inserting(w) /\ r.level > 0 => From(g, r.level - 1, r.val, r.key)
      /\ l \in EncLocked => Mine(r.enc)
      /\ l \in NextLabels \cup SplitLabels => On(g, r.level, r.ini) /\ Mine(r.ini)
      /\ l = "unlockNew" => r.ini = r.nxt

\* findAndLockNextNonZombie, and the new chunk up to its first entries.
NextOK(g, w) ==
  LET r == loc[w]
      l == pc[w]
  IN  /\ l \in {"nextWalk", "nextLock", "nextCheck", "nextSet"} =>
           Follows(g, r.level, r.ini, r.cur) /\ Follows(g, r.level, r.ini, r.first)
      /\ l = "nextSet" => Mine(r.cur)
      /\ l = "alloc" => r.cur = chunk[r.ini].next /\ (r.cur # Nil => Mine(r.cur))
      /\ l \in {"unlockNext", "copy"} =>
           /\ g.lvl[r.new] = Nil
           /\ chunk[r.new] = FreshChunk(chunk[r.ini].next, "locked")
      /\ l = "unlockNext" => r.cur # Nil /\ r.cur = chunk[r.ini].next
      /\ l \in {"empty", "unlockNew"} => On(g, r.level, r.new) /\ Mine(r.new)

Full(data) == \A i \in Lanes : data[i].k # PosInf
HasKey(data, k) == \E i \in Lanes : data[i].k = k
Occ(data) == Cardinality({i \in Lanes : data[i].k # PosInf})
First(data) == Occ(data) \div 2 + 1
MovedData(data) ==
  [i \in Lanes |-> IF i + First(data) < Occ(data) THEN data[i + First(data)]
                   ELSE EmptyEntry]

InsertSplits == NextLabels \cup {"alloc", "unlockNext", "copy"}

SplitOK(g, w) ==
  LET r == loc[w]
      l == pc[w]
      c == chunk[r.enc]
  IN  /\ l \in InsertSplits /\ Inserting(w) =>
           Full(c.data) /\ ~HasKey(c.data, r.key) /\ r.key <= c.max
      /\ l = "empty" =>
           /\ r.kv \in ChunkType
           /\ chunk[r.ini].data = r.kv.data
           /\ chunk[r.ini].max = Threshold(r.kv) /\ chunk[r.ini].next = r.new
           /\ Fine(r.kv.data, g.low[r.ini], r.kv.max)
           /\ Occ(r.kv.data) >= 3
           /\ chunk[r.new].data = MovedData(r.kv.data)
           /\ chunk[r.new].max = r.kv.max
           /\ Inserting(w) => Full(r.kv.data) /\ ~HasKey(r.kv.data, r.key) /\ r.key <= r.kv.max
      /\ l \in {"shift", "unlockOther"} => From(g, r.level, r.tgt, r.key)
      /\ l \in {"shift", "unlockOther"} /\ r.new # Nil =>
           LET k == r.kv.data[DSize \div 2 + 1].k
           IN  /\ From(g, r.level, r.new, k) /\ k \in NegInf .. MaxKey
               /\ r.kv.data[DSize - 1].k \in NegInf .. MaxKey

\* executeInsert: lanes below stop and above i are done.
ShiftOK(g, w) ==
  LET r == loc[w]
      c == chunk[r.tgt]
  IN  pc[w] = "shift" =>
        /\ Mine(r.tgt)
        /\ r.i \in Lanes /\ r.stop \in 0 .. r.i
        /\ Fine(r.reg, g.low[r.tgt], c.max)
        /\ DataOK(g, r.reg, r.level)
        /\ \A j \in Lanes : j < r.stop \/ j > r.i => c.data[j].k = r.reg[j].k

\* executeDelete: lanes below i are done.
Left(c, r) == [j \in Lanes |-> IF j < r.i THEN c.data[j] ELSE r.reg[j]]

EraseOK(g, w) ==
  LET r == loc[w]
      c == chunk[r.enc]
  IN  pc[w] \in {"lowerMax", "unshift"} =>
        /\ r.stop \in Lanes /\ r.i \in 0 .. r.stop
        /\ DataOK(g, r.reg, r.level)
        /\ \A j \in Lanes : j > r.stop => c.data[j].k = PosInf /\ r.reg[j].k = PosInf
        /\ pc[w] = "unshift" => Fine(Left(c, r), g.low[r.enc], c.max)
        /\ pc[w] = "lowerMax" => /\ r.min \in NegInf .. MaxKey
                                 /\ g.low[r.enc] < r.min /\ r.min < c.max
                                 /\ Fine(Left(c, r), g.low[r.enc], r.min)
                                 /\ c.next # Nil

MergeTail == {"mergeShift", "shiftBy", "mergeCopy", "markZombie"}
Merging == NextLabels \cup SplitLabels \cup {"mergeRead"} \cup MergeTail

MergeOK(g, w) ==
  LET r == loc[w]
      l == pc[w]
      c == chunk[r.enc]
      n == chunk[r.nxt]
  IN  /\ l \in Merging /\ ~Inserting(w) =>
           /\ HasKey(c.data, r.key) /\ Occ(c.data) - 1 <= MergeThreshold /\ c.next # Nil
           /\ l \in NextLabels \cup SplitLabels => r.ini \in {r.enc, r.nxt}
           /\ l \in MergeTail \/ r.ini # r.enc => r.nxt = c.next
           /\ r.ini # r.enc /\ l \in InsertSplits => Occ(chunk[r.ini].data) >= 3
           /\ l = "empty" => First(r.kv.data) + Occ(c.data) - 1 <= DSize
      /\ l = "mergeRead" => r.cur = c.next /\ Mine(r.cur)
      /\ l \in MergeTail => Mine(r.nxt)
      /\ l \in {"unlockNew", "mergeShift"} => Occ(n.data) + Occ(c.data) - 1 <= DSize
      /\ l \in {"shiftBy", "mergeCopy"} =>
           /\ Fine(r.reg, g.low[r.nxt], n.max)
           /\ DataOK(g, r.reg, r.level)
           /\ r.stop = Occ(c.data) - 1
           /\ Occ(r.reg) + r.stop <= DSize
           /\ \A j \in Lanes : Occ(r.reg) + r.stop <= j => n.data[j].k = PosInf
      /\ l = "shiftBy" =>
           /\ r.i \in 0 .. Occ(r.reg) - 1
           /\ \A j \in r.i + 1 .. Occ(r.reg) - 1 : n.data[j + r.stop].k = r.reg[j].k
      /\ l = "mergeCopy" => \A j \in 0 .. Occ(r.reg) - 1 : n.data[j + r.stop].k = r.reg[j].k
      /\ l = "markZombie" =>
           /\ Fine(n.data, g.low[r.enc], n.max)
           /\ r.min \in NegInf .. MaxKey /\ g.low[r.enc] < r.min
           /\ r.max \in NegInf .. MaxKey
      /\ l = "uncount" => /\ r.min \in NegInf .. MaxKey /\ From(g, r.level, r.nxt, r.min)
                          /\ r.max \in NegInf .. MaxKey

DownOK(g, w) ==
  LET r == loc[w]
      l == pc[w]
  IN  GoingDown(w) =>
        /\ r.level + 1 \in Levels
        /\ r.min \in NegInf .. MaxKey /\ r.max \in NegInf .. MaxKey
        /\ r.sk = r.min
        /\ From(g, r.level, r.tgt, r.min)
        /\ l \in DownLabels => On(g, r.level + 1, r.cur)
        /\ l = "downUnlock" /\ r.kv.next # Nil => On(g, r.level + 1, r.kv.next)

\* In the search of an operation, and outside of it.
OwnLabels == SearchLabels \cup UnlinkLabels
OnLevel(w) == /\ pc[w] \notin {"take", "return"}
              /\ pc[w] \in OwnLabels => loc[w].caller = "down"

WarpOK(g, w) ==
  LET r == loc[w]
      l == pc[w]
  IN  /\ r.top \in Levels
      /\ l \notin {"take", "return"} => r.key \in 1 .. MaxKey /\ r.val \in Int
      /\ l \in OwnLabels =>
           r.sk \in NegInf .. MaxKey /\ (r.caller = "op" => r.sk = r.key)
      /\ l \in Walking => SearchOK(g, w)
      /\ OnLevel(w) => /\ LevelOK(g, w) /\ NextOK(g, w) /\ SplitOK(g, w) /\ ShiftOK(g, w)
                       /\ EraseOK(g, w) /\ MergeOK(g, w) /\ DownOK(g, w)

HostOK ==
  /\ trace \in DOMAIN Traces /\ batch \in DOMAIN Batches
  /\ pos \in [Warps -> Nat \ {0}]

ListInv(g) ==
  /\ HostOK
  /\ chunk \in [Chunks -> ChunkType]
  /\ allocated \in TopLevel + 1 .. PoolSize
  /\ g \in Ghosts
  /\ ListOK(g)
  /\ \A w \in Warps : WarpOK(g, w)

-----------------------------------------------------------------------------
(* The chunk counters of the head. *)

\* w has linked a chunk and not counted it.  A merge that has split counts the new
\* chunk by not counting the merged one down.
Lagging(w) ==
  \/ pc[w] \in {"empty", "unlockNew"}
  \/ pc[w] \in MergeTail /\ loc[w].over
  \/ Inserting(w) /\ loc[w].new # Nil
       /\ (pc[w] \in {"shift", "unlockOther", "count"} \/ GoingDown(w))

\* w has begun what only chunks with keys of their own are in for: a split, a removal.
Works(w) ==
  \/ Lagging(w)
  \/ pc[w] \in NextLabels \cup SplitLabels \cup MergeTail
                 \cup {"mergeRead", "lowerMax", "unshift", "uncount"}

\* w puts its key into chunk c, without a split, and is yet to see that the level was empty.
FitsIn(w, c) == pc[w] \in {"shift", "isEmpty", "count"} /\ loc[w].new = Nil /\ c = loc[w].enc

\* No key of its own: a level that is not counted has one chunk, and that is blank.
Blank(c) == \A i \in Lanes : c.data[i].k \in {NegInf, PosInf}

CountOK(w) ==
  LET r == loc[w]
      l == pc[w]
  IN  /\ r.ans \in Answers
      /\ Works(w) => ctr[r.level] > 0
      /\ Inserting(w) /\ (l \in {"shift", "unlockOther", "isEmpty", "count"} \/ GoingDown(w)) =>
           Mine(r.enc)
      /\ l = "unlockOther" => Mine(r.tgt)
      /\ Inserting(w) /\ GoingDown(w) => r.new # Nil
      /\ l = "count" /\ r.new = Nil => r.level > 0 /\ ctr[r.level] = 0
      /\ ~Inserting(w) /\ l \in NextLabels /\ r.ini # r.enc => r.over
      /\ ~Inserting(w) /\ l \in {"alloc", "unlockNext", "copy", "empty", "unlockNew"} => r.over

Laggers(l) == {w \in Warps : Lagging(w) /\ loc[w].level = l}
Uncounters(l) == {w \in Warps : pc[w] = "uncount" /\ loc[w].level = l}
Alives(g, l) == {c \in Chunks : On(g, l, c) /\ ~IsZombie(chunk[c])}

\* The counter of a level, the chunks there that are alive, and the warps on their way
\* to count one.
Counted(g, l) ==
  LET S == Alives(g, l)
  IN  IF ctr[l] > 0
        THEN /\ ctr[l] + Cardinality(Laggers(l)) = Cardinality(S) + Cardinality(Uncounters(l))
             /\ Cardinality(Laggers(l)) < Cardinality(S)
        ELSE /\ l > 0 /\ Cardinality(S) = 1
             /\ \A c \in S : Blank(chunk[c]) \/ \E w \in Warps : FitsIn(w, c)

CountInv(g) ==
  /\ ctr \in [Levels -> Nat]
  /\ \A l \in Levels : Counted(g, l)
  /\ \A w \in Warps : CountOK(w)
=============================================================================
