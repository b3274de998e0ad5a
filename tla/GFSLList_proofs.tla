--------------------------- MODULE GFSLList_proofs ---------------------------
(***************************************************************************)
(* The invariant of the skip list: whatever the warps are at, each level   *)
(* is a chain of chunks, sorted and disjoint, along which every key is     *)
(* found from wherever a search or a down pointer is on the way to it, and *)
(* the head counts the chunks of a level but for those that warps are on   *)
(* their way to count.                                                     *)
(***************************************************************************)
EXTENDS GFSL_proofs

-----------------------------------------------------------------------------
(* The list after a step that stores to a chunk. *)

\* UnlinkZombies keeps the list in order.
LEMMA UnlinkZombiesList ==
  ASSUME NEW g, NEW w, ListStep(g, w), UnlinkZombies(w)
  PROVE  chunk' \in [Chunks -> ChunkType] /\ ListOK(g)'
<1> DEFINE p == loc[w].prev
           e == loc[w].cur
<1>1. pc[w] = "unlink" /\ UpdateNextVal(p, e)
  BY DEF UnlinkZombies, At
<1>2. SearchOK(g, w)
  BY <1>1, StepFacts DEF WarpOK, Walking, UnlinkLabels
<1>3. Mine(p) /\ Follows(g, loc[w].h, p, e) /\ loc[w].h \in Levels
  BY <1>1, <1>2 DEF SearchOK, UnlinkLabels
<1>4. p \in Chunks /\ Linked(g, p) /\ g.lvl[p] = loc[w].h
  BY <1>3, OnIsLinked DEF Follows
<1> QED BY <1>1, <1>3, <1>4, NextList

\* RedirectNext keeps the list in order.
LEMMA RedirectNextList ==
  ASSUME NEW g, NEW w, ListStep(g, w), RedirectNext(w)
  PROVE  chunk' \in [Chunks -> ChunkType] /\ ListOK(g)'
<1> DEFINE p == loc[w].ini
           e == loc[w].cur
<1>1. pc[w] = "nextSet" /\ UpdateNextVal(p, e) /\ pc[w] \in NextLabels
  BY DEF RedirectNext, At, NextLabels
<1>2. /\ NextOK(g, w) /\ loc[w].level \in Levels /\ On(g, loc[w].level, p) /\ Mine(p)
  BY <1>1, NextFacts
<1>3. Follows(g, loc[w].level, p, e)
  BY <1>1, <1>2 DEF NextOK
<1>4. p \in Chunks /\ Linked(g, p) /\ g.lvl[p] = loc[w].level
  BY <1>2, OnIsLinked
<1> QED BY <1>1, <1>2, <1>3, <1>4, NextList

\* updateDownPtrs stores values only.
LEMMA DownWriteList ==
  ASSUME NEW g, NEW w, ListStep(g, w), DownWrite(w)
  PROVE  chunk' \in [Chunks -> ChunkType] /\ ListOK(g)'
<1> DEFINE d == loc[w].cur
           c == chunk[d]
           S == Affected(w, c, loc[w].size)
           t == loc[w].tgt
           new == [i \in Lanes |-> IF i \in S THEN [c.data[i] EXCEPT !.v = t] ELSE c.data[i]]
<1>1. /\ pc[w] = "downWrite" /\ pc[w] \in DownLabels /\ GoingDown(w)
      /\ chunk' = [chunk EXCEPT ![d].data = new]
  BY Zenon DEF DownWrite, At, DownLabels, GoingDown
<1>2. /\ RegistersOK /\ w \in Warps /\ DownOK(g, w) /\ WordsOK
      /\ loc[w].level + 1 \in Levels /\ On(g, loc[w].level + 1, d) /\ d \in Chunks
      /\ ListInv(g) /\ g \in Ghosts /\ chunk \in [Chunks -> ChunkType]
  BY <1>1, DownFacts, StepFacts DEF ListStep
<1>3. Linked(g, d) /\ g.lvl[d] = loc[w].level + 1 /\ c \in ChunkType /\ c.data \in Datas
  BY ZenonT(40), <1>2, OnIsLinked, ChunkIs
<1>4. /\ loc[w].min \in NegInf .. MaxKey
      /\ On(g, loc[w].level, t) /\ g.low[t] < loc[w].min
  BY <1>1, <1>2 DEF DownOK, From
<1>5. t \in Int /\ g.low[t] \in Int
  BY <1>2, <1>4, GhostsAre, LevelsAre DEF On
<1>6. \A i \in Lanes : new[i] = IF i \in S THEN [c.data[i] EXCEPT !.v = t] ELSE c.data[i]
  OBVIOUS
<1>7. \A i \in S : i \in Lanes /\ loc[w].min <= c.data[i].k
  BY DEF Affected
<1>8. new \in Datas
  <2>1. \A i \in Lanes : new[i] \in Entries
    BY <1>3, <1>5, <1>6 DEF Datas, Entries
  <2> QED BY <2>1 DEF Datas
<1>9. \A i \in Lanes : c.data[i].k = new[i].k
  BY <1>3, <1>6 DEF Datas, Entries
<1>10. DataOK(g, new, g.lvl[d])
  <2> SUFFICES ASSUME NEW i \in Lanes PROVE EntryOK(g, new[i], g.lvl[d])
    BY SMTT(30), <1>8 DEF DataOK
  <2>1. CASE i \in S
    <3>1. new[i].v = t /\ new[i].k = c.data[i].k
      BY <1>3, <1>6, <2>1 DEF Datas, Entries
    <3>2. loc[w].min <= c.data[i].k /\ c.data[i].k \in Int /\ loc[w].min \in Int
      BY <1>3, <1>4, <1>7, <2>1, KeysAre
    <3>3. g.low[t] < new[i].k
      BY <1>4, <1>5, <3>1, <3>2
    <3>4. g.lvl[d] - 1 = loc[w].level
      <4>1. loc[w].level \in Int
        BY <1>1, LevelFacts, LevelsAre DEF DownLabels, OwnLabels, SearchLabels, UnlinkLabels
      <4> QED BY <1>3, <4>1
    <3> QED BY Zenon, <1>4, <3>1, <3>3, <3>4 DEF EntryOK
  <2>2. CASE i \notin S
    BY <1>2, <1>3, <1>6, <2>2, DataOfNode DEF DataOK
  <2> QED BY <2>1, <2>2
<1> HIDE DEF new, S, t
<1>11. /\ chunk'[d].data = new /\ chunk'[d].max = c.max /\ chunk'[d].next = c.next
       /\ \A x \in Chunks \ {d} : Same(x)
  BY <1>1, <1>2 DEF WordsOK, Words, Same
<1>12. \A x : ~Busy(w, x)
  BY <1>1 DEF Busy
<1>13. ~IsZombie(c) => Fine(new, g.low[d], c.max)
  <2>1. ~IsZombie(c) => Fine(c.data, g.low[d], c.max)
    <3>1. Holds(w, d)
      BY <1>1 DEF Holds, HasCur
    <3> QED BY <1>2, <1>3, <1>12, <3>1, HeldIsFine DEF ListStep
  <2> QED BY <1>9, <2>1, SameKeys
<1>14. pc[w] \notin {"markZombie", "alloc"}
  BY <1>1
<1> QED BY <1>2, <1>3, <1>10, <1>11, <1>12, <1>13, <1>14, DataList

\* What getNewChunk does.
LEMMA NewFacts ==
  ASSUME NEW g, NEW w, ListStep(g, w), GetNewChunk(w)
  PROVE  LET i == loc[w].ini
             n == chunk[i].next
         IN  /\ pc[w] = "alloc" /\ pc[w] \notin {"take", "return"} /\ pc[w] \notin OwnLabels
             /\ allocated \in Chunks /\ g.lvl[allocated] = Nil /\ allocated < allocated'
             /\ Linked(g, i) /\ i \in Chunks /\ i # allocated /\ Mine(i)
             /\ loc[w].cur = n /\ (n # Nil => Mine(n))
             /\ chunk'[allocated] = FreshChunk(n, "locked")
             /\ \A c \in Chunks \ {allocated} : chunk'[c] = chunk[c]
             /\ \A c : Linked(g, c) => c # allocated
             /\ pc'[w] = (IF n = Nil THEN "copy" ELSE "unlockNext")
             /\ Rest(w, {"new"}) /\ loc'[w].new = allocated
<1> DEFINE i == loc[w].ini
           n == chunk[i].next
<1>1. /\ pc[w] = "alloc" /\ pc[w] \notin {"take", "return"} /\ pc[w] \notin OwnLabels
      /\ pc[w] \in SplitLabels
  BY DEF GetNewChunk, At, OwnLabels, SearchLabels, UnlinkLabels, SplitLabels
<1>2. /\ RegistersOK /\ w \in Warps /\ LevelOK(g, w) /\ NextOK(g, w) /\ WordsOK /\ ListInv(g)
      /\ loc[w].level \in Levels /\ g \in Ghosts
  BY <1>1, LevelFacts, StepFacts DEF ListStep
<1>3. /\ allocated \in Chunks /\ allocated >= allocated /\ allocated < allocated'
      /\ allocated \in Int
  BY <1>1, <1>2, StepAllocates, ConstantsAre DEF ListInv, Chunks
<1>4. g.lvl[allocated] = Nil
  BY <1>2, <1>3 DEF ListInv, ListOK
<1>5. \A c : Linked(g, c) => c # allocated
  BY <1>4 DEF Linked
<1>6. Linked(g, i) /\ i \in Chunks /\ Mine(i)
  BY ZenonT(40), <1>1, <1>2, OnIsLinked DEF LevelOK
<1>7. loc[w].cur = n /\ (n # Nil => Mine(n))
  BY <1>1, <1>2 DEF NextOK
<1>8. /\ chunk'[allocated] = FreshChunk(n, "locked")
      /\ \A c \in Chunks \ {allocated} : chunk'[c] = chunk[c]
  BY <1>2, <1>3, <1>7 DEF GetNewChunk, WordsOK
<1>9. /\ pc'[w] = (IF n = Nil THEN "copy" ELSE "unlockNext")
      /\ Rest(w, {"new"}) /\ loc'[w].new = allocated
  <2>1. loc' = [loc EXCEPT ![w].new = allocated]
    BY DEF GetNewChunk
  <2>2. pc' = [pc EXCEPT ![w] = IF n = Nil THEN "copy" ELSE "unlockNext"]
    BY <1>7 DEF GetNewChunk, GoTo
  <2> HIDE DEF n
  <2>3. Rest(w, {"new"}) /\ loc'[w].new = allocated
    BY <1>2, <2>1, FieldsAre DEF RegistersOK, Rest
  <2>4. pc'[w] = (IF n = Nil THEN "copy" ELSE "unlockNext")
    BY <1>2, <2>2 DEF RegistersOK
  <2> QED BY <2>3, <2>4
<1> QED BY <1>1, <1>3, <1>4, <1>5, <1>6, <1>7, <1>8, <1>9

\* GetNewChunk keeps the list in order.
LEMMA GetNewChunkList ==
  ASSUME NEW g, NEW w, ListStep(g, w), GetNewChunk(w)
  PROVE  chunk' \in [Chunks -> ChunkType] /\ ListOK(g)'
<1> DEFINE n == chunk[loc[w].ini].next
<1>1. /\ pc[w] = "alloc" /\ allocated \in Chunks /\ loc[w].ini \in Chunks
      /\ chunk'[allocated] = FreshChunk(n, "locked")
      /\ \A c \in Chunks \ {allocated} : chunk'[c] = chunk[c]
      /\ \A c : Linked(g, c) => c # allocated
  BY NewFacts
<1>2. ListInv(g) /\ WordsOK' /\ chunk \in [Chunks -> ChunkType]
  BY StepFacts DEF ListStep
<1>3. n \in Chunks \cup {Nil}
  BY <1>1, <1>2, ChunkIs
<1>4. chunk' \in [Chunks -> ChunkType]
  <2>1. \A c \in Chunks \ {allocated} : Same(c)
    BY <1>1 DEF Same
  <2>2. FreshChunk(n, "locked").data \in Datas
    BY EmptyIs DEF FreshChunk, Datas
  <2>3. /\ FreshChunk(n, "locked").max \in NegInf .. PosInf
        /\ FreshChunk(n, "locked").next = n
    BY ConstantsAre DEF FreshChunk, NegInf, PosInf
  <2>4. \A c \in {allocated} \cap Chunks : /\ chunk'[c].data \in Datas
                                           /\ chunk'[c].max \in NegInf .. PosInf
                                           /\ chunk'[c].next \in Chunks \cup {Nil}
    BY <1>1, <1>3, <2>2, <2>3
  <2> QED BY <1>2, <2>1, <2>4, TypedPool
<1>5. \A c : ~Busy(w, c)
  BY <1>1 DEF Busy
<1>6. ASSUME NEW c \in Chunks, Linked(g, c)
      PROVE  /\ chunk'[c].max = chunk[c].max /\ chunk'[c].next = chunk[c].next
             /\ DataOK(g, chunk'[c].data, g.lvl[c])
             /\ ~IsZombie(chunk[c]) =>
                  \/ Fine(chunk'[c].data, g.low[c], chunk[c].max)
                  \/ \E v \in Warps : Busy(v, c)'
  <2>1. chunk'[c] = chunk[c]
    BY <1>1, <1>6
  <2> QED BY <1>2, <1>5, <1>6, <2>1, DataOfNode, OthersBusy
<1>7. pc[w] # "markZombie"
  BY <1>1
<1> QED BY <1>4, <1>6, <1>7, ListKept

\* GetNewChunk keeps its warp in order.
LEMMA GetNewChunkOwn ==
  ASSUME NEW g, NEW w, ListStep(g, w), GetNewChunk(w)
  PROVE  WarpOK(g, w)'
<1> DEFINE e == loc[w].enc
           i == loc[w].ini
           n == chunk[i].next
<1>1. /\ pc[w] = "alloc" /\ pc[w] \notin {"take", "return"} /\ pc[w] \notin OwnLabels
      /\ allocated \in Chunks /\ g.lvl[allocated] = Nil /\ allocated < allocated'
      /\ Linked(g, i) /\ i \in Chunks /\ i # allocated /\ Mine(i)
      /\ loc[w].cur = n /\ (n # Nil => Mine(n))
      /\ chunk'[allocated] = FreshChunk(n, "locked")
      /\ \A c \in Chunks \ {allocated} : chunk'[c] = chunk[c]
      /\ \A c : Linked(g, c) => c # allocated
      /\ pc'[w] = (IF n = Nil THEN "copy" ELSE "unlockNext")
      /\ Rest(w, {"new"}) /\ loc'[w].new = allocated
  BY NewFacts
<1>2. /\ LevelOK(g, w) /\ SplitOK(g, w) /\ MergeOK(g, w) /\ loc[w].top \in Levels
      /\ loc[w].key \in 1 .. MaxKey /\ loc[w].val \in Int /\ e \in Chunks
      /\ Linked(g, e)
  BY <1>1, LevelFacts
<1>3. chunk'[e] = chunk[e] /\ chunk'[i] = chunk[i]
  BY <1>1, <1>2
<1>4. /\ loc'[w].kind = loc[w].kind /\ loc'[w].key = loc[w].key
      /\ loc'[w].route = loc[w].route /\ loc'[w].level = loc[w].level
      /\ loc'[w].enc = e /\ loc'[w].val = loc[w].val /\ loc'[w].top = loc[w].top
      /\ loc'[w].bottom = loc[w].bottom /\ loc'[w].ini = i /\ loc'[w].nxt = loc[w].nxt
      /\ loc'[w].cur = n
  BY <1>1, FieldsAre DEF Rest
<1>5. pc'[w] \in {"copy", "unlockNext"} /\ (pc'[w] = "unlockNext" => n # Nil)
  BY <1>1
<1>6. Inserting(w)' <=> Inserting(w)
  BY <1>4 DEF Inserting
<1> HIDE DEF e, i, n
<1>7. LevelOK(g, w)'
  <2>1. Mine(e) /\ On(g, loc[w].level, i)
    BY <1>1, <1>2 DEF LevelOK, EncLocked, SplitLabels, e, i
  <2>2. chunk'[e].lock = "locked" /\ chunk'[i].lock = "locked"
    BY <1>1, <1>3, <2>1 DEF Mine
  <2> QED BY <1>1, <1>2, <1>4, <1>5, <1>6, <2>1, <2>2 DEF LevelOK, Mine, e
<1>8. NextOK(g, w)'
  <2>1. chunk'[i].next = n
    BY Zenon, <1>3 DEF n
  <2> QED BY <1>1, <1>4, <1>5, <2>1 DEF NextOK
<1>9. SplitOK(g, w)'
  <2>1. Inserting(w) => Full(chunk[e].data) /\ ~HasKey(chunk[e].data, loc[w].key)
                        /\ loc[w].key <= chunk[e].max
    BY Zenon, <1>1, <1>2 DEF SplitOK, InsertSplits, e
  <2> QED BY <1>3, <1>4, <1>5, <1>6, <2>1 DEF SplitOK
<1>10. MergeOK(g, w)'
  <2>1. ~Inserting(w) =>
           /\ HasKey(chunk[e].data, loc[w].key) /\ Occ(chunk[e].data) - 1 <= MergeThreshold
           /\ chunk[e].next # Nil /\ i \in {e, loc[w].nxt}
           /\ i # e => loc[w].nxt = chunk[e].next
           /\ i # e => Occ(chunk[i].data) >= 3
    BY <1>1, <1>2 DEF MergeOK, Merging, SplitLabels, InsertSplits, e, i
  <2>2. pc'[w] \notin MergeTail /\ pc'[w] \notin {"empty", "mergeRead", "unlockNew", "uncount"}
    BY <1>5 DEF MergeTail
  <2> QED BY <1>3, <1>4, <1>6, <2>1, <2>2 DEF MergeOK, MergeTail
<1>11. /\ pc'[w] \notin {"take", "return"} /\ pc'[w] \notin OwnLabels /\ pc'[w] # "shift"
       /\ pc'[w] \notin {"lowerMax", "unshift"} /\ pc'[w] \notin DownLabels \cup OwnLabels
  BY <1>5 DEF OwnLabels, SearchLabels, UnlinkLabels, DownLabels
<1> QED BY <1>2, <1>4, <1>7, <1>8, <1>9, <1>10, <1>11, LevelBuilt, Elsewhere

\* DataList, of a chunk of a level that has a name.
LEMMA DataListOn ==
  ASSUME NEW g, NEW w, ListStep(g, w), pc[w] \notin {"markZombie", "alloc"},
         NEW l \in Levels, NEW d \in Chunks, On(g, l, d), \A c \in Chunks \ {d} : Same(c),
         chunk'[d].max = chunk[d].max, chunk'[d].next = chunk[d].next,
         DataOK(g, chunk'[d].data, l),
         ~IsZombie(chunk[d]) => \/ Fine(chunk'[d].data, g.low[d], chunk[d].max)
                                \/ \E v \in Warps : Busy(v, d)',
         \A c \in Chunks \ {d} : Busy(w, c) => Busy(w, c)'
  PROVE  chunk' \in [Chunks -> ChunkType] /\ ListOK(g)'
<1>1. Linked(g, d)
  BY OnIsLinked
<1>2. DataOK(g, chunk'[d].data, g.lvl[d])
  BY DEF On
<1> QED BY <1>1, <1>2, DataList

\* What a store of the shift to the right does.
LEMMA ShiftFacts ==
  ASSUME NEW g, NEW w, ListStep(g, w), ShiftRight(w)
  PROVE  LET d == loc[w].tgt
             i == loc[w].i
         IN  /\ pc[w] = "shift" /\ pc[w] \notin {"take", "return"} /\ pc[w] \notin OwnLabels
             /\ d \in Chunks /\ On(g, loc[w].level, d) /\ Mine(d) /\ loc[w].level \in Levels
             /\ ~IsZombie(chunk[d])
             /\ chunk'[d].data = [chunk[d].data EXCEPT ![i] = loc[w].reg[i]]
             /\ chunk'[d].max = chunk[d].max /\ chunk'[d].next = chunk[d].next
             /\ chunk'[d].lock = chunk[d].lock
             /\ \A c \in Chunks \ {d} : chunk'[c] = chunk[c]
             /\ i \in Lanes /\ loc[w].reg \in Datas /\ chunk[d].data \in Datas
             /\ allocated' = allocated
<1> DEFINE d == loc[w].tgt
           i == loc[w].i
<1>1. /\ pc[w] = "shift" /\ pc[w] \notin {"take", "return"} /\ pc[w] \notin OwnLabels
      /\ chunk' = [chunk EXCEPT ![d].data[i] = loc[w].reg[i]] /\ allocated' = allocated
  BY DEF ShiftRight, At, OwnLabels, SearchLabels, UnlinkLabels, Write
<1>2. /\ SplitOK(g, w) /\ ShiftOK(g, w) /\ loc[w].level \in Levels /\ WordsOK
      /\ chunk \in [Chunks -> ChunkType]
  BY SMTT(30), <1>1, LevelFacts, StepFacts
<1>3. On(g, loc[w].level, d) /\ Mine(d) /\ i \in Lanes /\ DataOK(g, loc[w].reg, loc[w].level)
  BY <1>1, <1>2 DEF SplitOK, ShiftOK, From
<1>4. d \in Chunks
  BY Zenon, <1>3 DEF On
<1>5. /\ chunk'[d].data = [chunk[d].data EXCEPT ![i] = loc[w].reg[i]]
      /\ chunk'[d].max = chunk[d].max /\ chunk'[d].next = chunk[d].next
      /\ chunk'[d].lock = chunk[d].lock
      /\ \A c \in Chunks \ {d} : chunk'[c] = chunk[c]
  BY <1>1, <1>2, <1>4 DEF WordsOK, Words
<1>6. loc[w].reg \in Datas /\ chunk[d].data \in Datas
  BY <1>2, <1>3, <1>4, ChunkIs DEF DataOK
<1> QED BY <1>1, <1>2, <1>3, <1>4, <1>5, <1>6 DEF Mine, IsZombie

\* One entry is stored: those that are there or that a register holds are in order.
LEMMA EntryStored ==
  ASSUME NEW g, NEW l, NEW a, NEW b, DataOK(g, a, l), DataOK(g, b, l), NEW i \in Lanes,
         NEW j \in Lanes
  PROVE  /\ DataOK(g, [a EXCEPT ![i] = b[j]], l)
         /\ \A x \in Lanes : [a EXCEPT ![i] = b[j]][x] = IF x = i THEN b[j] ELSE a[x]
<1>1. a \in Datas /\ b \in Datas
  BY DEF DataOK
<1>2. \A x \in Lanes : [a EXCEPT ![i] = b[j]][x] = IF x = i THEN b[j] ELSE a[x]
  BY <1>1 DEF Datas
<1>3. [a EXCEPT ![i] = b[j]] \in Datas
  BY Zenon, <1>1 DEF Datas
<1> QED BY <1>2, <1>3 DEF DataOK

\* The lanes that are done hold what the register holds.
LEMMA LanesDone ==
  ASSUME NEW g, NEW w, ListStep(g, w), ShiftRight(w)
  PROVE  LET d == loc[w].tgt
             i == loc[w].i
             r == loc[w].reg
         IN  /\ DataOK(g, chunk'[d].data, loc[w].level)
             /\ \A j \in Lanes : j < loc[w].stop \/ j > i - 1 => chunk'[d].data[j].k = r[j].k
             /\ i \in Int /\ loc[w].stop \in Int /\ 0 <= loc[w].stop /\ loc[w].stop <= i
             /\ i > loc[w].stop => i - 1 \in Lanes
             /\ Fine(r, g.low[d], chunk[d].max) /\ DataOK(g, r, loc[w].level)
<1> DEFINE d == loc[w].tgt
           i == loc[w].i
           r == loc[w].reg
<1>1. /\ pc[w] = "shift" /\ pc[w] \notin {"take", "return"} /\ pc[w] \notin OwnLabels
      /\ d \in Chunks /\ On(g, loc[w].level, d) /\ loc[w].level \in Levels
      /\ chunk'[d].data = [chunk[d].data EXCEPT ![i] = r[i]] /\ i \in Lanes
  BY ShiftFacts
<1>2. /\ ShiftOK(g, w) /\ ListInv(g)
  BY Zenon, <1>1, LevelFacts DEF ListStep
<1>3. /\ Fine(r, g.low[d], chunk[d].max) /\ DataOK(g, r, loc[w].level)
      /\ loc[w].stop \in 0 .. i
      /\ \A j \in Lanes : j < loc[w].stop \/ j > i => chunk[d].data[j].k = r[j].k
  BY <1>1, <1>2 DEF ShiftOK
<1>4. DataOK(g, chunk[d].data, loc[w].level)
  <2> DEFINE l == loc[w].level
  <2>0. l \in Levels /\ On(g, l, d)
    BY <1>1
  <2> HIDE DEF l, d
  <2>1. Linked(g, d)
    BY <2>0, OnIsLinked
  <2>2. DataOK(g, chunk[d].data, g.lvl[d])
    BY <1>2, <2>1, DataOfNode
  <2> QED BY <2>0, <2>2 DEF On, l
<1>5. /\ DataOK(g, chunk'[d].data, loc[w].level)
      /\ \A x \in Lanes : chunk'[d].data[x] = IF x = i THEN r[i] ELSE chunk[d].data[x]
  BY <1>1, <1>3, <1>4, EntryStored
<1>6. i \in Nat /\ i < DSize
  BY <1>1, ConstantsAre DEF Lanes
<1> HIDE DEF i, r
<1>7. loc[w].stop \in Int /\ 0 <= loc[w].stop /\ loc[w].stop <= i
  BY <1>3, <1>6
<1>8. \A j \in Lanes : j < loc[w].stop \/ j > i - 1 => chunk'[d].data[j].k = r[j].k
  <2> SUFFICES ASSUME NEW j \in Lanes, j < loc[w].stop \/ j > i - 1
               PROVE  chunk'[d].data[j].k = r[j].k
    OBVIOUS
  <2>1. j \in Nat
    BY LanesAre
  <2>2. j = i \/ j < loc[w].stop \/ j > i
    BY <1>6, <2>1
  <2> QED BY <1>3, <1>5, <2>2
<1>9. i > loc[w].stop => i - 1 \in Lanes
  BY <1>6, <1>7, LanesAre, ConstantsAre
<1> QED BY <1>3, <1>5, <1>6, <1>7, <1>8, <1>9 DEF r, i

\* Where the shift goes on, or is over.
LEMMA ShiftNames ==
  ASSUME NEW g, NEW w, ListStep(g, w), ShiftRight(w)
  PROVE  \/ /\ loc[w].i > loc[w].stop /\ pc'[w] = "shift"
            /\ Rest(w, {"i"}) /\ loc'[w].i = loc[w].i - 1
         \/ /\ ~(loc[w].i > loc[w].stop) /\ Rest(w, {"ans", "reg"})
            /\ pc'[w] = (IF loc[w].new # Nil THEN "unlockOther"
                         ELSE IF loc[w].level = 0 THEN "unlockBottom" ELSE "isEmpty")
<1>1. RegistersOK /\ w \in Warps
  BY StepFacts
<1>2. CASE loc[w].i > loc[w].stop
  <2>1. loc' = [loc EXCEPT ![w].i = @ - 1] /\ pc' = pc
    BY <1>2 DEF ShiftRight
  <2> DEFINE n == loc[w].i - 1
  <2>2. loc' = [loc EXCEPT ![w].i = n]
    BY <1>1, <2>1, FieldsAre DEF RegistersOK
  <2> HIDE DEF n
  <2>3. Rest(w, {"i"}) /\ loc'[w].i = n
    BY <1>1, <2>2, FieldsAre DEF RegistersOK, Rest
  <2> QED BY <1>2, <2>1, <2>3, ShiftFacts DEF n
<1>3. CASE ~(loc[w].i > loc[w].stop)
  <2> DEFINE l == IF loc[w].new # Nil THEN "unlockOther"
                  ELSE IF loc[w].level = 0 THEN "unlockBottom" ELSE "isEmpty"
             b == BlankKv.data
  <2>1. loc' = [loc EXCEPT ![w].ans = "true", ![w].reg = b] /\ pc' = [pc EXCEPT ![w] = l]
    BY <1>3 DEF ShiftRight, GoTo
  <2> HIDE DEF l, b
  <2>2. Rest(w, {"ans", "reg"}) /\ pc'[w] = l
    BY <1>1, <2>1, FieldsAre DEF RegistersOK, Rest
  <2> QED BY <1>3, <2>2 DEF l
<1> QED BY <1>2, <1>3

\* ShiftRight keeps the list in order.
LEMMA ShiftRightList ==
  ASSUME NEW g, NEW w, ListStep(g, w), ShiftRight(w)
  PROVE  chunk' \in [Chunks -> ChunkType] /\ ListOK(g)'
<1> SUFFICES ASSUME NEW d, d = loc[w].tgt
             PROVE  chunk' \in [Chunks -> ChunkType] /\ ListOK(g)'
  OBVIOUS
<1> DEFINE r == loc[w].reg
<1>1. /\ pc[w] = "shift" /\ d \in Chunks /\ On(g, loc[w].level, d) /\ loc[w].level \in Levels
      /\ chunk'[d].max = chunk[d].max /\ chunk'[d].next = chunk[d].next
      /\ r \in Datas
  BY ShiftFacts
<1>8. \A c \in Chunks \ {d} : chunk'[c] = chunk[c]
  BY ShiftFacts
<1>0. w \in Warps
  BY StepFacts
<1>2. /\ DataOK(g, chunk'[d].data, loc[w].level)
      /\ \A j \in Lanes : j < loc[w].stop \/ j > loc[w].i - 1 => chunk'[d].data[j].k = r[j].k
      /\ loc[w].i \in Int /\ loc[w].stop \in Int /\ loc[w].stop <= loc[w].i
      /\ Fine(r, g.low[d], chunk[d].max)
  BY LanesDone
<1>3. Fine(chunk'[d].data, g.low[d], chunk[d].max) \/ Busy(w, d)'
  <2>1. CASE loc[w].i > loc[w].stop /\ pc'[w] = "shift" /\ Rest(w, {"i"})
    <3>1. loc'[w].tgt = d
      BY <2>1, FieldsAre DEF Rest
    <3> QED BY <2>1, <3>1 DEF Busy
  <2>2. CASE ~(loc[w].i > loc[w].stop)
    <3>1. \A j \in Lanes : j < loc[w].stop \/ j > loc[w].i - 1
      <4>1. loc[w].i = loc[w].stop
        BY <1>2, <2>2
      <4> DEFINE a == loc[w].i
                 b == loc[w].stop
      <4>2. a = b /\ a \in Int
        BY <1>2, <4>1
      <4> HIDE DEF a, b
      <4>3. \A j \in Lanes : j < b \/ j > a - 1
        BY <4>2, ConstantsAre DEF Lanes
      <4> QED BY <4>3 DEF a, b
    <3>2. \A j \in Lanes : r[j].k = chunk'[d].data[j].k
      BY <1>2, <3>1
    <3> QED BY <1>2, <3>2, SameKeys
  <2> QED BY <2>1, <2>2, ShiftNames
<1>4. /\ \A c \in Chunks \ {d} : Same(c)
      /\ \A c \in Chunks \ {d} : Busy(w, c) => Busy(w, c)'
  BY <1>1, <1>8 DEF Same, Busy
<1>5. pc[w] \notin {"markZombie", "alloc"}
  BY <1>1
<1>6. DataOK(g, chunk'[d].data, loc[w].level)
  BY <1>2
<1>7. \/ Fine(chunk'[d].data, g.low[d], chunk[d].max)
      \/ \E v \in Warps : Busy(v, d)'
  BY <1>0, <1>3
<1> HIDE DEF r
<1> QED BY <1>1, <1>4, <1>5, <1>6, <1>7, DataListOn

\* ShiftRight keeps its warp in order.
LEMMA ShiftRightOwn ==
  ASSUME NEW g, NEW w, ListStep(g, w), ShiftRight(w)
  PROVE  WarpOK(g, w)'
<1> DEFINE d == loc[w].tgt
           r == loc[w].reg
<1>1. /\ pc[w] = "shift" /\ pc[w] \notin {"take", "return"} /\ pc[w] \notin OwnLabels
      /\ d \in Chunks /\ Mine(d) /\ chunk'[d].max = chunk[d].max
      /\ chunk'[d].lock = chunk[d].lock /\ r \in Datas
  BY ShiftFacts
<1>2. /\ LevelOK(g, w) /\ SplitOK(g, w) /\ loc[w].top \in Levels
      /\ loc[w].key \in 1 .. MaxKey /\ loc[w].val \in Int /\ Control(w) /\ w \in Warps
  BY <1>1, LevelFacts
<1>3. CASE /\ loc[w].i > loc[w].stop /\ pc'[w] = "shift"
           /\ Rest(w, {"i"}) /\ loc'[w].i = loc[w].i - 1
  <2>1. LevelRegs(w) /\ loc'[w].top = loc[w].top
    BY <1>3, FieldsAre DEF Rest, LevelRegs
  <2>2. /\ loc'[w].tgt = d /\ loc'[w].reg = r /\ loc'[w].stop = loc[w].stop
        /\ loc'[w].level = loc[w].level /\ loc'[w].kv = loc[w].kv
        /\ loc'[w].new = loc[w].new /\ loc'[w].key = loc[w].key
    BY <1>3, FieldsAre DEF Rest
  <2>3. LevelOK(g, w)'
    BY SMTT(30), <1>2, <1>3, <2>1, LevelKept DEF EncLocked, NextLabels, SplitLabels
  <2>4. SplitOK(g, w)'
    BY <1>1, <1>2, <1>3, <2>2 DEF SplitOK, InsertSplits, NextLabels
  <2>5. ShiftOK(g, w)'
    <3>1. /\ \A j \in Lanes : j < loc[w].stop \/ j > loc[w].i - 1 =>
               chunk'[d].data[j].k = r[j].k
          /\ loc[w].i \in Int /\ loc[w].stop \in Int /\ 0 <= loc[w].stop
          /\ loc[w].stop <= loc[w].i
          /\ loc[w].i > loc[w].stop => loc[w].i - 1 \in Lanes
          /\ Fine(r, g.low[d], chunk[d].max) /\ DataOK(g, r, loc[w].level)
      BY LanesDone
    <3>2. loc[w].i - 1 \in Lanes /\ loc[w].stop \in 0 .. loc[w].i - 1
      BY <1>3, <3>1
    <3>3. chunk'[d].lock = "locked"
      BY <1>1 DEF Mine
    <3> HIDE DEF d, r
    <3> QED BY <1>1, <1>3, <2>2, <3>1, <3>2, <3>3 DEF ShiftOK, Mine
  <2>6. /\ pc'[w] \notin {"take", "return"} /\ pc'[w] \notin OwnLabels
        /\ pc'[w] \notin {"nextWalk", "nextLock", "nextCheck", "nextSet"} \cup SplitLabels
        /\ pc'[w] \notin {"lowerMax", "unshift"} /\ pc'[w] \notin Merging \cup {"uncount"}
        /\ pc'[w] \notin DownLabels \cup OwnLabels
    BY <1>3 DEF OwnLabels, SearchLabels, UnlinkLabels, SplitLabels, Merging, NextLabels,
       MergeTail, DownLabels
  <2> QED BY <1>2, <2>1, <2>3, <2>4, <2>5, <2>6, LevelBuilt, Elsewhere DEF LevelRegs
<1>4. CASE /\ ~(loc[w].i > loc[w].stop) /\ Rest(w, {"ans", "reg"})
           /\ pc'[w] = (IF loc[w].new # Nil THEN "unlockOther"
                        ELSE IF loc[w].level = 0 THEN "unlockBottom" ELSE "isEmpty")
  <2>1. LevelRegs(w) /\ loc'[w].top = loc[w].top
    BY <1>4, FieldsAre DEF Rest, LevelRegs
  <2>2. CASE pc'[w] = "unlockOther"
    <3>1. /\ loc'[w].tgt = d /\ loc'[w].level = loc[w].level /\ loc'[w].kv = loc[w].kv
          /\ loc'[w].new = loc[w].new /\ loc'[w].key = loc[w].key
      BY <1>4, FieldsAre DEF Rest
    <3>2. LevelOK(g, w)'
      BY <1>2, <2>1, <2>2, LevelKept DEF EncLocked, NextLabels, SplitLabels
    <3>3. SplitOK(g, w)'
      BY <1>1, <1>2, <2>2, <3>1 DEF SplitOK, InsertSplits, NextLabels
    <3>4. /\ pc'[w] \notin {"take", "return"} /\ pc'[w] \notin OwnLabels /\ pc'[w] # "shift"
          /\ pc'[w] \notin {"nextWalk", "nextLock", "nextCheck", "nextSet"} \cup SplitLabels
          /\ pc'[w] \notin {"lowerMax", "unshift"} /\ pc'[w] \notin Merging \cup {"uncount"}
          /\ pc'[w] \notin DownLabels \cup OwnLabels
      BY <2>2 DEF OwnLabels, SearchLabels, UnlinkLabels, SplitLabels, Merging, NextLabels,
         MergeTail, DownLabels
    <3> QED BY <1>2, <2>1, <3>2, <3>3, <3>4, LevelBuilt, Elsewhere DEF LevelRegs
  <2>3. CASE pc'[w] \in {"unlockBottom", "isEmpty"}
    BY SMTT(30), <1>1, <2>1, <2>3, PlainOwn DEF Plain
  <2> QED BY <1>4, <2>2, <2>3
<1> QED BY <1>3, <1>4, ShiftNames

\* What a store of the shift to the left does.
LEMMA UnshiftFacts ==
  ASSUME NEW g, NEW w, ListStep(g, w), ShiftLeft(w)
  PROVE  LET d == loc[w].enc
             i == loc[w].i
         IN  /\ pc[w] = "unshift" /\ pc[w] \notin {"take", "return"} /\ pc[w] \notin OwnLabels
             /\ d \in Chunks /\ On(g, loc[w].level, d) /\ Mine(d) /\ loc[w].level \in Levels
             /\ ~IsZombie(chunk[d])
             /\ chunk'[d].data = [chunk[d].data EXCEPT ![i] = loc[w].reg[i]]
             /\ chunk'[d].max = chunk[d].max /\ chunk'[d].next = chunk[d].next
             /\ chunk'[d].lock = chunk[d].lock
             /\ \A c \in Chunks \ {d} : chunk'[c] = chunk[c]
             /\ i \in Lanes /\ i \in Int /\ loc[w].stop \in Lanes /\ loc[w].stop \in Int
             /\ 0 <= i /\ i <= loc[w].stop
             /\ allocated' = allocated /\ ~Inserting(w)
<1> DEFINE d == loc[w].enc
           i == loc[w].i
<1>1. /\ pc[w] = "unshift" /\ pc[w] \notin {"take", "return"} /\ pc[w] \notin OwnLabels
      /\ chunk' = [chunk EXCEPT ![d].data[i] = loc[w].reg[i]] /\ allocated' = allocated
  BY DEF ShiftLeft, At, OwnLabels, SearchLabels, UnlinkLabels, Write
<1>2. /\ LevelOK(g, w) /\ EraseOK(g, w) /\ loc[w].level \in Levels /\ WordsOK
      /\ chunk \in [Chunks -> ChunkType] /\ Control(w) /\ d \in Chunks
  BY Zenon, <1>1, LevelFacts, StepFacts
<1>3. On(g, loc[w].level, d) /\ Mine(d) /\ loc[w].stop \in Lanes /\ i \in 0 .. loc[w].stop
  BY <1>1, <1>2 DEF EraseOK, LevelOK, From, EncLocked
<1>4. ~Inserting(w)
  BY SMTT(30), <1>1, <1>2 DEF Control
<1>5. /\ chunk'[d].data = [chunk[d].data EXCEPT ![i] = loc[w].reg[i]]
      /\ chunk'[d].max = chunk[d].max /\ chunk'[d].next = chunk[d].next
      /\ chunk'[d].lock = chunk[d].lock
      /\ \A c \in Chunks \ {d} : chunk'[c] = chunk[c]
  BY <1>1, <1>2 DEF WordsOK, Words
<1>6. /\ i \in Lanes /\ i \in Int /\ loc[w].stop \in Int /\ 0 <= i /\ i <= loc[w].stop
  <2> DEFINE s == loc[w].stop
  <2>1. s \in 0 .. DSize - 1 /\ i \in 0 .. s
    BY <1>3 DEF Lanes
  <2> HIDE DEF s, i
  <2>2. i \in 0 .. DSize - 1 /\ i \in Int /\ s \in Int /\ 0 <= i /\ i <= s
    BY SMTT(30), <2>1, ConstantsAre
  <2> QED BY <2>2 DEF s, Lanes
<1> QED BY <1>1, <1>2, <1>3, <1>4, <1>5, <1>6 DEF Mine, IsZombie

\* What is left of the deleted entry's lane, and the registers' rest of it.
LEMMA LanesLeft ==
  ASSUME NEW g, NEW w, ListStep(g, w), ShiftLeft(w)
  PROVE  LET d == loc[w].enc
             i == loc[w].i
             r == loc[w].reg
             left == [j \in Lanes |-> IF j < i THEN chunk[d].data[j] ELSE r[j]]
         IN  /\ DataOK(g, chunk'[d].data, loc[w].level) /\ DataOK(g, r, loc[w].level)
             /\ Fine(left, g.low[d], chunk[d].max)
             /\ \A j \in Lanes : (IF j < i + 1 THEN chunk'[d].data[j] ELSE r[j]) = left[j]
             /\ \A j \in Lanes : j > loc[w].stop => chunk'[d].data[j].k = PosInf /\ r[j].k = PosInf
             /\ i = loc[w].stop => \A j \in Lanes : left[j].k = chunk'[d].data[j].k
<1> DEFINE d == loc[w].enc
           i == loc[w].i
           r == loc[w].reg
           s == loc[w].stop
           D == chunk[d].data
           left == [j \in Lanes |-> IF j < i THEN D[j] ELSE r[j]]
<1>1. /\ pc[w] = "unshift" /\ pc[w] \notin {"take", "return"} /\ pc[w] \notin OwnLabels
      /\ d \in Chunks /\ On(g, loc[w].level, d) /\ loc[w].level \in Levels
      /\ chunk'[d].data = [D EXCEPT ![i] = r[i]]
      /\ i \in Lanes /\ i \in Int /\ s \in Int /\ 0 <= i /\ i <= s
  BY UnshiftFacts
<1>2. /\ EraseOK(g, w) /\ ListInv(g)
  BY SMTT(30), <1>1, LevelFacts DEF ListStep
<1>3. /\ DataOK(g, r, loc[w].level)
      /\ Fine(left, g.low[d], chunk[d].max)
      /\ \A j \in Lanes : j > s => D[j].k = PosInf /\ r[j].k = PosInf
  BY <1>1, <1>2 DEF EraseOK, Left
<1>4. DataOK(g, D, loc[w].level)
  <2> DEFINE l == loc[w].level
  <2>0. l \in Levels /\ On(g, l, d)
    BY SMTT(30), <1>1
  <2> HIDE DEF l, d
  <2>1. Linked(g, d)
    BY <2>0, OnIsLinked
  <2>2. DataOK(g, chunk[d].data, g.lvl[d])
    BY <1>2, <2>1, DataOfNode
  <2> QED BY <2>0, <2>2 DEF On, l
<1>5. /\ DataOK(g, chunk'[d].data, loc[w].level)
      /\ \A x \in Lanes : chunk'[d].data[x] = IF x = i THEN r[i] ELSE D[x]
  BY <1>1, <1>3, <1>4, EntryStored
<1>6. \A j \in Lanes : left[j] = IF j < i THEN D[j] ELSE r[j]
  OBVIOUS
<1> HIDE DEF i, r, s, D, left
<1>7. \A j \in Lanes : (IF j < i + 1 THEN chunk'[d].data[j] ELSE r[j]) = left[j]
  <2> TAKE j \in Lanes
  <2>1. j \in Int
    BY LanesAre
  <2>2. CASE j = i
    BY <1>1, <1>5, <1>6, <2>1, <2>2
  <2>3. CASE j < i
    BY <1>1, <1>5, <1>6, <2>1, <2>3
  <2>4. CASE j > i
    <3>1. ~(j < i + 1) /\ ~(j < i)
      BY <1>1, <2>1, <2>4
    <3> QED BY <1>6, <3>1
  <2> QED BY <1>1, <2>1, <2>2, <2>3, <2>4
<1>8. \A j \in Lanes : j > s => chunk'[d].data[j].k = PosInf /\ r[j].k = PosInf
  <2> TAKE j \in Lanes
  <2>1. j \in Int
    BY LanesAre
  <2> QED BY <1>1, <1>3, <1>5, <2>1
<1>9. i = s => \A j \in Lanes : left[j].k = chunk'[d].data[j].k
  <2> SUFFICES ASSUME i = s, NEW j \in Lanes PROVE left[j].k = chunk'[d].data[j].k
    OBVIOUS
  <2>1. j \in Int
    BY LanesAre
  <2>2. CASE j < i
    BY <1>1, <1>5, <1>6, <2>1, <2>2
  <2>3. CASE j = i
    BY <1>1, <1>5, <1>6, <2>1, <2>3
  <2>4. CASE j > i
    <3>1. left[j] = r[j]
      BY <1>1, <1>6, <2>1, <2>4
    <3> QED BY <1>8, <2>4, <3>1
  <2> QED BY <1>1, <2>1, <2>2, <2>3, <2>4
<1>10. left = [j \in Lanes |-> IF j < i THEN D[j] ELSE r[j]]
  BY DEF left
<1> QED BY ZenonT(40), <1>3, <1>5, <1>7, <1>8, <1>9, <1>10 DEF i, r, s, D

\* Where the shift goes on, or is over.
LEMMA UnshiftNames ==
  ASSUME NEW g, NEW w, ListStep(g, w), ShiftLeft(w)
  PROVE  \/ /\ loc[w].i < loc[w].stop /\ pc'[w] = "unshift"
            /\ Rest(w, {"i"}) /\ loc'[w].i = loc[w].i + 1
         \/ /\ loc[w].i = loc[w].stop /\ Rest(w, {"ans", "reg"})
            /\ pc'[w] \in {"height", "unlockEnc"}
<1>1. RegistersOK /\ w \in Warps
  BY StepFacts
<1>2. CASE loc[w].i < loc[w].stop
  <2>1. loc' = [loc EXCEPT ![w].i = @ + 1] /\ pc' = pc
    BY <1>2 DEF ShiftLeft
  <2> DEFINE n == loc[w].i + 1
  <2>2. loc' = [loc EXCEPT ![w].i = n]
    BY <1>1, <2>1, FieldsAre DEF RegistersOK
  <2> HIDE DEF n
  <2>3. Rest(w, {"i"}) /\ loc'[w].i = n
    BY <1>1, <2>2, FieldsAre DEF RegistersOK, Rest
  <2> QED BY <1>2, <2>1, <2>3, UnshiftFacts DEF n
<1>3. CASE ~(loc[w].i < loc[w].stop)
  <2> DEFINE l == AfterErase(w)
             b == BlankKv.data
  <2>1. loc' = [loc EXCEPT ![w].ans = "true", ![w].reg = b] /\ pc' = [pc EXCEPT ![w] = l]
    BY <1>3 DEF ShiftLeft, GoTo
  <2>3. l \in {"height", "unlockEnc"}
    BY DEF AfterErase
  <2>4. loc[w].i \in Int /\ loc[w].stop \in Int /\ loc[w].i <= loc[w].stop
    BY UnshiftFacts
  <2>5. loc[w].i = loc[w].stop
    BY <1>3, <2>4
  <2> HIDE DEF l, b
  <2>2. Rest(w, {"ans", "reg"}) /\ pc'[w] = l
    BY <1>1, <2>1, FieldsAre DEF RegistersOK, Rest
  <2> QED BY <2>2, <2>3, <2>5
<1> QED BY <1>2, <1>3

\* ShiftLeft keeps the list in order.
LEMMA ShiftLeftList ==
  ASSUME NEW g, NEW w, ListStep(g, w), ShiftLeft(w)
  PROVE  chunk' \in [Chunks -> ChunkType] /\ ListOK(g)'
<1> SUFFICES ASSUME NEW d, d = loc[w].enc
             PROVE  chunk' \in [Chunks -> ChunkType] /\ ListOK(g)'
  OBVIOUS
<1>1. /\ pc[w] = "unshift" /\ d \in Chunks /\ On(g, loc[w].level, d) /\ loc[w].level \in Levels
      /\ chunk'[d].max = chunk[d].max /\ chunk'[d].next = chunk[d].next
  BY UnshiftFacts
<1>8. \A c \in Chunks \ {d} : chunk'[c] = chunk[c]
  BY UnshiftFacts
<1>0. w \in Warps
  BY StepFacts
<1> DEFINE left == [j \in Lanes |-> IF j < loc[w].i THEN chunk[d].data[j] ELSE loc[w].reg[j]]
<1>2. /\ DataOK(g, chunk'[d].data, loc[w].level)
      /\ Fine(left, g.low[d], chunk[d].max)
      /\ loc[w].i = loc[w].stop => \A j \in Lanes : left[j].k = chunk'[d].data[j].k
  BY LanesLeft
<1> HIDE DEF left
<1>3. Fine(chunk'[d].data, g.low[d], chunk[d].max) \/ Busy(w, d)'
  <2>1. CASE pc'[w] = "unshift" /\ Rest(w, {"i"})
    <3>1. loc'[w].enc = d
      BY <2>1, FieldsAre DEF Rest
    <3> QED BY <2>1, <3>1 DEF Busy
  <2>2. CASE loc[w].i = loc[w].stop
    BY <1>2, <2>2, SameKeys
  <2> QED BY <2>1, <2>2, UnshiftNames
<1>4. /\ \A c \in Chunks \ {d} : Same(c)
      /\ \A c \in Chunks \ {d} : Busy(w, c) => Busy(w, c)'
  BY <1>1, <1>8 DEF Same, Busy
<1>5. pc[w] \notin {"markZombie", "alloc"}
  BY <1>1
<1>7. \/ Fine(chunk'[d].data, g.low[d], chunk[d].max)
      \/ \E v \in Warps : Busy(v, d)'
  BY <1>0, <1>3
<1> QED BY <1>1, <1>2, <1>4, <1>5, <1>7, DataListOn

\* ShiftLeft keeps its warp in order.
LEMMA ShiftLeftOwn ==
  ASSUME NEW g, NEW w, ListStep(g, w), ShiftLeft(w)
  PROVE  WarpOK(g, w)'
<1> DEFINE d == loc[w].enc
           r == loc[w].reg
<1>1. /\ pc[w] = "unshift" /\ pc[w] \notin {"take", "return"} /\ pc[w] \notin OwnLabels
      /\ d \in Chunks /\ Mine(d) /\ chunk'[d].max = chunk[d].max
      /\ chunk'[d].lock = chunk[d].lock /\ ~Inserting(w) /\ loc[w].stop \in Lanes
      /\ loc[w].i \in Int /\ loc[w].stop \in Int /\ 0 <= loc[w].i /\ loc[w].i <= loc[w].stop
  BY UnshiftFacts
<1>2. /\ LevelOK(g, w) /\ loc[w].top \in Levels
      /\ loc[w].key \in 1 .. MaxKey /\ loc[w].val \in Int
  BY <1>1, LevelFacts
<1>3. CASE /\ loc[w].i < loc[w].stop /\ pc'[w] = "unshift"
           /\ Rest(w, {"i"}) /\ loc'[w].i = loc[w].i + 1
  <2>1. LevelRegs(w) /\ loc'[w].top = loc[w].top
    BY <1>3, FieldsAre DEF Rest, LevelRegs
  <2>2. /\ loc'[w].enc = d /\ loc'[w].reg = r /\ loc'[w].stop = loc[w].stop
        /\ loc'[w].level = loc[w].level
    BY <1>3, FieldsAre DEF Rest
  <2>6. chunk'[d].lock = "locked"
    BY <1>1 DEF Mine
  <2>3. LevelOK(g, w)'
    <3>1. Mine(loc[w].enc)'
      BY SMTT(30), <2>2, <2>6 DEF Mine
    <3> QED BY <1>2, <1>3, <2>1, <3>1, LevelKept DEF NextLabels, SplitLabels
  <2>4. EraseOK(g, w)'
    <3> DEFINE left == [j \in Lanes |-> IF j < loc[w].i THEN chunk[d].data[j] ELSE r[j]]
    <3>1. /\ DataOK(g, r, loc[w].level)
          /\ Fine(left, g.low[d], chunk[d].max)
          /\ \A j \in Lanes : (IF j < loc[w].i + 1 THEN chunk'[d].data[j] ELSE r[j]) = left[j]
          /\ \A j \in Lanes : j > loc[w].stop => chunk'[d].data[j].k = PosInf /\ r[j].k = PosInf
      BY LanesLeft
    <3>2. loc[w].i + 1 \in 0 .. loc[w].stop
      BY SMTT(30), <1>1, <1>3
    <3>3. [j \in Lanes |-> IF j < loc[w].i + 1 THEN chunk'[d].data[j] ELSE r[j]] = left
      BY <3>1
    <3> HIDE DEF left
    <3>4. Left(chunk[d], loc[w])' = left
      BY <1>3, <2>2, <3>3 DEF Left
    <3> QED BY <1>1, <1>3, <2>2, <3>1, <3>2, <3>4 DEF EraseOK, Left
  <2>5. /\ pc'[w] \notin {"take", "return"} /\ pc'[w] \notin OwnLabels /\ pc'[w] # "shift"
        /\ pc'[w] \notin {"nextWalk", "nextLock", "nextCheck", "nextSet"} \cup SplitLabels
        /\ pc'[w] \notin InsertSplits \cup {"empty", "shift", "unlockOther"}
        /\ pc'[w] \notin Merging \cup {"uncount"} /\ pc'[w] \notin DownLabels \cup OwnLabels
    BY <1>3 DEF OwnLabels, SearchLabels, UnlinkLabels, SplitLabels, Merging, NextLabels,
       MergeTail, DownLabels, InsertSplits
  <2> QED BY <1>2, <2>1, <2>3, <2>4, <2>5, LevelBuilt, Elsewhere DEF LevelRegs
<1>4. CASE Rest(w, {"ans", "reg"}) /\ pc'[w] \in {"height", "unlockEnc"}
  <2>1. LevelRegs(w) /\ loc'[w].top = loc[w].top
    BY SMTT(30), <1>4, FieldsAre DEF Rest, LevelRegs
  <2> QED BY <1>1, <1>4, <2>1, PlainOwn DEF Plain
<1> QED BY <1>3, <1>4, UnshiftNames

-----------------------------------------------------------------------------
(* A merge copies. *)

\* In the last part of a merge: the chunk that goes and the next one, which takes its entries.
LEMMA MergeFacts ==
  ASSUME NEW g, NEW w, ListStep(g, w), pc[w] \in {"shiftBy", "mergeCopy", "markZombie"}
  PROVE  LET e == loc[w].enc
             x == loc[w].nxt
         IN  /\ pc[w] \notin {"take", "return"} /\ pc[w] \notin OwnLabels
             /\ e \in Chunks /\ On(g, loc[w].level, e) /\ Mine(e) /\ loc[w].level \in Levels
             /\ x \in Chunks /\ On(g, loc[w].level, x) /\ Mine(x) /\ x # e
             /\ HasKey(chunk[e].data, loc[w].key) /\ Occ(chunk[e].data) - 1 <= MergeThreshold
             /\ chunk[e].next = x /\ x # Nil /\ ~Inserting(w) /\ loc[w].key \in 1 .. MaxKey
             /\ Fine(chunk[e].data, g.low[e], chunk[e].max)
             /\ DataOK(g, chunk[e].data, loc[w].level) /\ DataOK(g, chunk[x].data, loc[w].level)
             /\ chunk[e] \in ChunkType /\ chunk[x] \in ChunkType
             /\ g.low[x] = chunk[e].max /\ chunk[e].max <= chunk[x].max
             /\ g.low[e] \in Int /\ g.low[x] \in Int /\ g.low[e] < chunk[e].max
             /\ g.low[x] < chunk[x].max /\ g.rank[x] < g.rank[e] /\ e \in g.chain /\ x \in g.chain
<1> DEFINE e == loc[w].enc
           x == loc[w].nxt
           v == loc[w].level
<1>1. /\ pc[w] \notin {"take", "return"} /\ pc[w] \notin OwnLabels /\ pc[w] \in EncLocked
      /\ pc[w] \in MergeTail /\ pc[w] \in Merging /\ pc[w] \notin InsertSplits
      /\ pc[w] \in MergeLabels
  BY DEF OwnLabels, SearchLabels, UnlinkLabels, EncLocked, MergeTail, Merging, InsertSplits,
         NextLabels, MergeLabels
<1>2. /\ LevelOK(g, w) /\ MergeOK(g, w) /\ v \in Levels /\ Control(w) /\ w \in Warps
      /\ ListInv(g) /\ g \in Ghosts /\ chunk \in [Chunks -> ChunkType]
      /\ loc[w].key \in 1 .. MaxKey /\ ExclusiveInv
  BY <1>1, LevelFacts, StepFacts DEF ListStep
<1>3. ~Inserting(w)
  BY <1>1, <1>2 DEF Control
<1>4. On(g, v, e) /\ Mine(e)
  BY <1>1, <1>2 DEF LevelOK, From
<1>5. /\ HasKey(chunk[e].data, loc[w].key) /\ Occ(chunk[e].data) - 1 <= MergeThreshold
      /\ chunk[e].next = x /\ x # Nil /\ Mine(x)
  BY <1>1, <1>2, <1>3 DEF MergeOK
<1>6. On(g, v, x)
  BY <1>2, <1>5 DEF LevelOK
<1> HIDE DEF e, x, v
<1>7. /\ e \in Chunks /\ Linked(g, e) /\ x \in Chunks /\ Linked(g, x)
      /\ g.lvl[e] = v /\ g.lvl[x] = v
  BY <1>2, <1>4, <1>6, OnIsLinked
<1>8. x # e
  BY <1>1, <1>5, <1>7, HeldDiffer DEF Differs, HasNxt, x, e
<1>9. Holds(w, e) /\ ~Busy(w, e) /\ ~IsZombie(chunk[e]) /\ ~IsZombie(chunk[x])
  BY <1>1, <1>4, <1>5, <1>8
     DEF Holds, HasEnc, Busy, Mine, IsZombie, e, x
<1>10. Fine(chunk[e].data, g.low[e], chunk[e].max)
  BY <1>2, <1>7, <1>9, HeldIsFine
<1>11. Node(g, e) /\ Node(g, x) /\ chunk[e] \in ChunkType /\ chunk[x] \in ChunkType
  BY <1>2, <1>7, NodeIs
<1>12. /\ DataOK(g, chunk[e].data, v) /\ DataOK(g, chunk[x].data, v)
       /\ g.low[x] = chunk[e].max /\ g.low[e] < chunk[e].max /\ g.low[x] < chunk[x].max
       /\ g.rank[x] < g.rank[e] /\ e \in g.chain /\ x \in g.chain
  BY <1>5, <1>7, <1>9, <1>11 DEF Node, EndOf
<1>13. g.low[e] \in Int /\ g.low[x] \in Int /\ chunk[x].max \in Int
  BY <1>2, <1>7, <1>11, GhostsAre, ChunkIs
<1>14. chunk[e].max <= chunk[x].max
  BY SMTT(30), <1>12, <1>13
<1> QED BY <1>1, <1>2, <1>3, <1>4, <1>5, <1>6, <1>7, <1>8, <1>10, <1>11, <1>12, <1>13, <1>14
        DEF e, x, v

\* What a store of a merge's first shift does.
LEMMA ShiftDataFacts ==
  ASSUME NEW g, NEW w, ListStep(g, w), ShiftData(w)
  PROVE  LET x == loc[w].nxt
             i == loc[w].i
             s == loc[w].stop
             q == loc[w].reg
         IN  /\ pc[w] = "shiftBy" /\ allocated' = allocated
             /\ chunk'[x].data = [chunk[x].data EXCEPT ![i + s] = q[i]]
             /\ chunk'[x].max = chunk[x].max /\ chunk'[x].next = chunk[x].next
             /\ chunk'[x].lock = chunk[x].lock
             /\ \A c \in Chunks \ {x} : chunk'[c] = chunk[c]
             /\ i \in Int /\ i \in Lanes /\ i + s \in Lanes /\ s \in Int /\ 0 <= i /\ 0 <= s
             /\ i < Occ(q) /\ Occ(q) \in Int /\ Occ(q) <= DSize
             /\ Fine(q, g.low[x], chunk[x].max) /\ DataOK(g, q, loc[w].level)
             /\ s = Occ(chunk[loc[w].enc].data) - 1 /\ Occ(q) + s <= DSize
             /\ \A j \in Lanes : Occ(q) + s <= j => chunk[x].data[j].k = PosInf
             /\ \A j \in i + 1 .. Occ(q) - 1 : chunk[x].data[j + s].k = q[j].k
<1> DEFINE e == loc[w].enc
           x == loc[w].nxt
           i == loc[w].i
           s == loc[w].stop
           q == loc[w].reg
<1>1. /\ pc[w] = "shiftBy" /\ allocated' = allocated
      /\ chunk' = [chunk EXCEPT ![x].data[i + s] = q[i]]
  BY DEF ShiftData, At, Write
<1>2. /\ pc[w] \notin {"take", "return"} /\ pc[w] \notin OwnLabels /\ x \in Chunks
      /\ HasKey(chunk[e].data, loc[w].key) /\ loc[w].key \in 1 .. MaxKey
  BY <1>1, MergeFacts
<1>3. MergeOK(g, w) /\ WordsOK
  BY SMTT(30), <1>2, LevelFacts, StepFacts
<1>4. /\ Fine(q, g.low[x], chunk[x].max) /\ DataOK(g, q, loc[w].level)
      /\ s = Occ(chunk[e].data) - 1 /\ Occ(q) + s <= DSize
      /\ \A j \in Lanes : Occ(q) + s <= j => chunk[x].data[j].k = PosInf
      /\ i \in 0 .. Occ(q) - 1
      /\ \A j \in i + 1 .. Occ(q) - 1 : chunk[x].data[j + s].k = q[j].k
  BY SMTT(30), <1>1, <1>3 DEF MergeOK
<1>5. /\ chunk'[x].data = [chunk[x].data EXCEPT ![i + s] = q[i]]
      /\ chunk'[x].max = chunk[x].max /\ chunk'[x].next = chunk[x].next
      /\ chunk'[x].lock = chunk[x].lock
      /\ \A c \in Chunks \ {x} : chunk'[c] = chunk[c]
  BY <1>1, <1>2, <1>3 DEF WordsOK, Words
<1>6. Occ(q) \in 0 .. DSize /\ Occ(chunk[e].data) \in 0 .. DSize /\ Occ(chunk[e].data) > 0
  BY <1>2, OccBound, ConstantsAre DEF HasKey, PosInf
<1>7. /\ i \in Int /\ i \in Lanes /\ i + s \in Lanes /\ s \in Int /\ 0 <= i /\ 0 <= s
      /\ i < Occ(q) /\ Occ(q) \in Int /\ Occ(q) <= DSize
  <2> DEFINE a == Occ(q)
             b == Occ(chunk[e].data)
  <2>1. /\ i \in 0 .. a - 1 /\ s = b - 1 /\ a + s <= DSize
        /\ a \in 0 .. DSize /\ b \in 0 .. DSize /\ b > 0
    BY ZenonT(40), <1>4, <1>6
  <2> HIDE DEF a, b, i, s
  <2> QED BY SMTT(30), <2>1, ConstantsAre DEF Lanes, a
<1> QED BY ZenonT(40), <1>1, <1>4, <1>5, <1>7

\* The entries that have been moved, and those that have not.
LEMMA EntryMoved ==
  ASSUME NEW g, NEW w, ListStep(g, w), ShiftData(w)
  PROVE  LET x == loc[w].nxt
             i == loc[w].i
             s == loc[w].stop
             q == loc[w].reg
         IN  /\ DataOK(g, chunk'[x].data, loc[w].level)
             /\ \A j \in Lanes : Occ(q) + s <= j => chunk'[x].data[j].k = PosInf
             /\ \A j \in i .. Occ(q) - 1 : chunk'[x].data[j + s].k = q[j].k
<1> DEFINE x == loc[w].nxt
           i == loc[w].i
           s == loc[w].stop
           q == loc[w].reg
           D == chunk[x].data
           new == chunk'[x].data
           a == Occ(q)
<1>1. /\ pc[w] = "shiftBy" /\ new = [D EXCEPT ![i + s] = q[i]]
      /\ i \in Int /\ i \in Lanes /\ i + s \in Lanes /\ s \in Int /\ 0 <= i /\ 0 <= s
      /\ i < a /\ a \in Int /\ a <= DSize /\ a + s <= DSize
      /\ DataOK(g, q, loc[w].level)
      /\ \A j \in Lanes : a + s <= j => D[j].k = PosInf
      /\ \A j \in i + 1 .. a - 1 : D[j + s].k = q[j].k
  BY SMTT(30), ShiftDataFacts
<1>2. DataOK(g, D, loc[w].level)
  BY <1>1, MergeFacts
<1>3. /\ DataOK(g, new, loc[w].level)
      /\ \A j \in Lanes : new[j] = IF j = i + s THEN q[i] ELSE D[j]
  <2> DEFINE m == i + s
             l == loc[w].level
  <2> HIDE DEF m, i, s, D, q, l
  <2>1. new = [D EXCEPT ![m] = q[i]] /\ m \in Lanes /\ i \in Lanes
    BY <1>1 DEF m
  <2>2. DataOK(g, D, l) /\ DataOK(g, q, l)
    BY <1>1, <1>2 DEF l
  <2>3. /\ DataOK(g, [D EXCEPT ![m] = q[i]], l)
        /\ \A z \in Lanes : [D EXCEPT ![m] = q[i]][z] = IF z = m THEN q[i] ELSE D[z]
    BY <2>1, <2>2, EntryStored
  <2> HIDE DEF new
  <2> QED BY <2>1, <2>3 DEF m, l
<1> HIDE DEF i, s, D, q, new, a
<1>4. \A j \in Lanes : a + s <= j => new[j].k = PosInf
  <2> TAKE j \in Lanes
  <2>1. j \in Int
    BY LanesAre
  <2> QED BY <1>1, <1>3, <2>1
<1>5. \A j \in i .. a - 1 : new[j + s].k = q[j].k
  <2> TAKE j \in i .. a - 1
  <2>1. j \in Int /\ i <= j /\ j < a /\ j + s \in Lanes
    BY <1>1, ConstantsAre DEF Lanes
  <2>2. CASE j = i
    BY <1>1, <1>3, <2>1, <2>2
  <2>3. CASE j # i
    <3>1. j \in i + 1 .. a - 1 /\ j + s # i + s
      BY <1>1, <2>1, <2>3
    <3> QED BY <1>1, <1>3, <2>1, <3>1
  <2> QED BY <2>2, <2>3
<1> QED BY SMTT(30), <1>3, <1>4, <1>5 DEF i, s, q, a, new

\* Where that shift goes on.
LEMMA ShiftDataNames ==
  ASSUME NEW g, NEW w, ListStep(g, w), ShiftData(w)
  PROVE  /\ Rest(w, {"i"})
         /\ \/ loc[w].i = 0 /\ pc'[w] = "mergeCopy"
            \/ loc[w].i # 0 /\ pc'[w] = "shiftBy" /\ loc'[w].i = loc[w].i - 1
<1> DEFINE n == IF loc[w].i = 0 THEN 0 ELSE loc[w].i - 1
           l == IF loc[w].i = 0 THEN "mergeCopy" ELSE "shiftBy"
<1>1. RegistersOK /\ w \in Warps
  BY StepFacts
<1>2. loc' = [loc EXCEPT ![w].i = IF @ = 0 THEN 0 ELSE @ - 1] /\ pc' = [pc EXCEPT ![w] = l]
  BY DEF ShiftData, GoTo
<1>3. loc' = [loc EXCEPT ![w].i = n]
  BY <1>1, <1>2, FieldsAre DEF RegistersOK
<1>4. /\ loc[w].i = 0 => l = "mergeCopy"
      /\ loc[w].i # 0 => l = "shiftBy" /\ n = loc[w].i - 1
  OBVIOUS
<1> HIDE DEF n, l
<1>5. Rest(w, {"i"}) /\ loc'[w].i = n /\ pc'[w] = l
  BY <1>1, <1>2, <1>3, FieldsAre DEF RegistersOK, Rest
<1> QED BY <1>4, <1>5

\* ShiftData keeps the list in order.
LEMMA ShiftDataList ==
  ASSUME NEW g, NEW w, ListStep(g, w), ShiftData(w)
  PROVE  chunk' \in [Chunks -> ChunkType] /\ ListOK(g)'
<1> SUFFICES ASSUME NEW d, d = loc[w].nxt
             PROVE  chunk' \in [Chunks -> ChunkType] /\ ListOK(g)'
  OBVIOUS
<1>1. /\ pc[w] = "shiftBy"
      /\ chunk'[d].max = chunk[d].max /\ chunk'[d].next = chunk[d].next
  BY ZenonT(40), ShiftDataFacts
<1>2. \A c \in Chunks \ {d} : chunk'[c] = chunk[c]
  BY ShiftDataFacts
<1>3. d \in Chunks /\ On(g, loc[w].level, d) /\ loc[w].level \in Levels
  BY <1>1, MergeFacts
<1>4. w \in Warps
  BY StepFacts
<1>5. DataOK(g, chunk'[d].data, loc[w].level)
  BY EntryMoved
<1>6. Busy(w, d)'
  <2>1. Rest(w, {"i"}) /\ pc'[w] \in {"mergeCopy", "shiftBy"}
    BY ShiftDataNames
  <2>2. loc'[w].nxt = d
    BY <2>1, FieldsAre DEF Rest
  <2> QED BY <2>1, <2>2 DEF Busy
<1>7. /\ \A c \in Chunks \ {d} : Same(c)
      /\ \A c \in Chunks \ {d} : Busy(w, c) => Busy(w, c)'
  BY <1>1, <1>2 DEF Same, Busy
<1>8. \E v \in Warps : Busy(v, d)'
  BY <1>4, <1>6
<1> QED BY <1>1, <1>3, <1>5, <1>7, <1>8, DataListOn

\* A step of the last part of a merge that stores to the next chunk.
LEMMA MergeTailOwn ==
  ASSUME NEW g, NEW w, ListStep(g, w), pc[w] \in {"shiftBy", "mergeCopy"},
         pc'[w] \in {"shiftBy", "mergeCopy", "markZombie"},
         Rest(w, {"i", "min", "max", "reg"}),
         chunk'[loc[w].enc] = chunk[loc[w].enc], chunk'[loc[w].nxt].lock = "locked",
         MergeOK(g, w)'
  PROVE  WarpOK(g, w)'
<1>1. /\ pc[w] \notin {"take", "return"} /\ pc[w] \notin OwnLabels
      /\ Mine(loc[w].enc) /\ loc[w].level \in Levels
  BY MergeFacts
<1>2. /\ LevelOK(g, w) /\ loc[w].top \in Levels
      /\ loc[w].key \in 1 .. MaxKey /\ loc[w].val \in Int
  BY <1>1, LevelFacts
<1>3. LevelRegs(w) /\ loc'[w].top = loc[w].top
  BY FieldsAre DEF Rest, LevelRegs
<1>4. LevelOK(g, w)'
  <2>1. Mine(loc[w].enc)'
    BY <1>1, <1>3 DEF Mine, LevelRegs
  <2> QED BY <1>2, <1>3, <2>1, LevelKept DEF NextLabels, SplitLabels
<1>5. /\ pc'[w] \notin {"take", "return"} /\ pc'[w] \notin OwnLabels /\ pc'[w] # "shift"
      /\ pc'[w] \notin {"nextWalk", "nextLock", "nextCheck", "nextSet"} \cup SplitLabels
      /\ pc'[w] \notin InsertSplits \cup {"empty", "shift", "unlockOther"}
      /\ pc'[w] \notin {"lowerMax", "unshift"} /\ pc'[w] \notin DownLabels \cup OwnLabels
  BY SMTT(30) DEF OwnLabels, SearchLabels, UnlinkLabels, SplitLabels, NextLabels, DownLabels, InsertSplits
<1> QED BY <1>2, <1>3, <1>4, <1>5, LevelBuilt, Elsewhere DEF LevelRegs

\* ShiftData keeps its warp in order.
LEMMA ShiftDataOwn ==
  ASSUME NEW g, NEW w, ListStep(g, w), ShiftData(w)
  PROVE  WarpOK(g, w)'
<1> DEFINE e == loc[w].enc
           x == loc[w].nxt
           i == loc[w].i
           s == loc[w].stop
           q == loc[w].reg
           v == loc[w].level
<1>1. /\ pc[w] = "shiftBy" /\ chunk'[x].max = chunk[x].max /\ chunk'[x].lock = chunk[x].lock
      /\ i \in Int /\ 0 <= i /\ i < Occ(q) /\ Occ(q) \in Int
      /\ Fine(q, g.low[x], chunk[x].max) /\ DataOK(g, q, v)
      /\ s = Occ(chunk[e].data) - 1 /\ Occ(q) + s <= DSize
  BY ZenonT(40), ShiftDataFacts
<1>2. \A c \in Chunks \ {x} : chunk'[c] = chunk[c]
  BY ShiftDataFacts
<1>3. /\ e \in Chunks /\ x \in Chunks /\ Mine(x) /\ x # e
      /\ HasKey(chunk[e].data, loc[w].key) /\ Occ(chunk[e].data) - 1 <= MergeThreshold
      /\ chunk[e].next = x /\ x # Nil /\ ~Inserting(w)
  BY <1>1, MergeFacts
<1>4. /\ \A j \in Lanes : Occ(q) + s <= j => chunk'[x].data[j].k = PosInf
      /\ \A j \in i .. Occ(q) - 1 : chunk'[x].data[j + s].k = q[j].k
  BY EntryMoved
<1>5. /\ Rest(w, {"i"})
      /\ \/ i = 0 /\ pc'[w] = "mergeCopy"
         \/ i # 0 /\ pc'[w] = "shiftBy" /\ loc'[w].i = i - 1
  BY ShiftDataNames
<1>6. /\ loc'[w].enc = e /\ loc'[w].nxt = x /\ loc'[w].stop = s /\ loc'[w].reg = q
      /\ loc'[w].level = v /\ loc'[w].key = loc[w].key
  BY <1>5, FieldsAre DEF Rest
<1>7. chunk'[e] = chunk[e] /\ chunk'[x].lock = "locked"
  BY Zenon, <1>1, <1>2, <1>3 DEF Mine
<1>8. /\ pc'[w] \in {"shiftBy", "mergeCopy"}
      /\ pc'[w] = "shiftBy" => /\ loc'[w].i \in 0 .. Occ(q) - 1
                               /\ \A j \in loc'[w].i + 1 .. Occ(q) - 1 :
                                    chunk'[x].data[j + s].k = q[j].k
      /\ pc'[w] = "mergeCopy" => \A j \in 0 .. Occ(q) - 1 : chunk'[x].data[j + s].k = q[j].k
  <2>1. CASE i = 0 /\ pc'[w] = "mergeCopy"
    BY <1>4, <2>1
  <2>2. CASE i # 0 /\ pc'[w] = "shiftBy" /\ loc'[w].i = i - 1
    <3>1. i - 1 \in 0 .. Occ(q) - 1 /\ (i - 1) + 1 = i
      BY SMTT(30), <1>1, <2>2
    <3> QED BY <1>4, <2>2, <3>1
  <2> QED BY <1>5, <2>1, <2>2
<1> HIDE DEF e, x, i, s, q, v
<1>9. MergeOK(g, w)'
  <2>1. /\ Occ(chunk'[e].data) = Occ(chunk[e].data) /\ chunk'[e].next = x
        /\ HasKey(chunk'[e].data, loc[w].key)
    BY <1>3, <1>7
  <2>2. /\ pc'[w] \notin {"empty", "markZombie", "uncount", "mergeRead", "unlockNew", "mergeShift"}
        /\ pc'[w] \notin NextLabels \cup SplitLabels /\ pc'[w] \notin InsertSplits
    BY <1>8 DEF NextLabels, SplitLabels, InsertSplits
  <2> QED BY <1>1, <1>3, <1>4, <1>6, <1>7, <1>8, <2>1, <2>2 DEF MergeOK, Mine
<1>10. Rest(w, {"i", "min", "max", "reg"})
  BY SMTT(30), <1>5 DEF Rest
<1> QED BY ZenonT(40), <1>1, <1>7, <1>8, <1>9, <1>10, MergeTailOwn DEF e, x

\* What the copy of a merge does.
LEMMA MergeCopyFacts ==
  ASSUME NEW g, NEW w, ListStep(g, w), MergeCopy(w)
  PROVE  LET e == loc[w].enc
             x == loc[w].nxt
         IN  /\ pc[w] = "mergeCopy" /\ pc'[w] = "markZombie"
             /\ DataOK(g, chunk'[x].data, loc[w].level)
             /\ Fine(chunk'[x].data, g.low[e], chunk[x].max)
             /\ chunk'[x].max = chunk[x].max /\ chunk'[x].next = chunk[x].next
             /\ chunk'[x].lock = chunk[x].lock
             /\ \A c \in Chunks \ {x} : chunk'[c] = chunk[c]
             /\ Rest(w, {"min", "max", "reg"})
             /\ loc'[w].min \in NegInf .. MaxKey /\ g.low[e] < loc'[w].min
             /\ loc'[w].max \in NegInf .. MaxKey
<1> DEFINE e == loc[w].enc
           x == loc[w].nxt
           c == chunk[e]
           n == chunk[x]
           del == TidWithKey(loc[w].key, c)
           a == c.data[0].k
           b == c.data[OccupiedSlots(c) - 1].k
           blank == BlankKv.data
           q == loc[w].reg
           s == loc[w].stop
<1>1. /\ pc[w] = "mergeCopy" /\ chunk' = [chunk EXCEPT ![x].data = CopiedTo(c, del, n)]
      /\ loc' = [loc EXCEPT ![w].min = a, ![w].reg = blank, ![w].max = b]
      /\ pc' = [pc EXCEPT ![w] = "markZombie"]
  BY SMTT(30) DEF MergeCopy, At, GoTo
<1>2. /\ pc[w] \notin {"take", "return"} /\ pc[w] \notin OwnLabels
      /\ e \in Chunks /\ x \in Chunks /\ HasKey(c.data, loc[w].key)
      /\ loc[w].level \in Levels /\ loc[w].key \in 1 .. MaxKey
      /\ Fine(c.data, g.low[e], c.max)
      /\ DataOK(g, c.data, loc[w].level) /\ DataOK(g, n.data, loc[w].level)
      /\ c \in ChunkType /\ n \in ChunkType
      /\ g.low[x] = c.max /\ c.max <= n.max /\ g.low[e] \in Int /\ g.low[x] \in Int
  BY <1>1, MergeFacts
<1>3. MergeOK(g, w) /\ WordsOK /\ RegistersOK /\ w \in Warps /\ g \in Ghosts
  BY SMTT(30), <1>2, LevelFacts, StepFacts
<1>4. /\ Fine(q, g.low[x], n.max) /\ DataOK(g, q, loc[w].level)
      /\ s = Occ(c.data) - 1 /\ Occ(q) + s <= DSize
      /\ \A j \in Lanes : Occ(q) + s <= j => n.data[j].k = PosInf
      /\ \A j \in 0 .. Occ(q) - 1 : n.data[j + s].k = q[j].k
  BY ZenonT(40), <1>1, <1>3 DEF MergeOK
<1>5. del \in Lanes /\ c.data[del].k # PosInf
  BY <1>2, KeyLane, ConstantsAre DEF PosInf
<1>6. /\ CopiedTo(c, del, n) \in Datas
      /\ Fine(CopiedTo(c, del, n), g.low[e], n.max)
      /\ \A l \in Levels, h \in Ghosts : DataOK(h, c.data, l) /\ DataOK(h, n.data, l)
                                           => DataOK(h, CopiedTo(c, del, n), l)
  <2> HIDE DEF c, n, del, q, s, e, x
  <2>1. c.max \in Int /\ n.max \in Int /\ q \in Datas /\ g.low[x] \in Int /\ c.max <= g.low[x]
    BY <1>2, <1>4, ChunkIs DEF DataOK
  <2> QED BY <1>2, <1>4, <1>5, <2>1, MergeIsFine
<1>7. /\ a \in NegInf .. MaxKey /\ g.low[e] < a /\ b \in NegInf .. MaxKey
  <2> DEFINE D == c.data
             m == Occ(D)
  <2>1. D \in Datas /\ Sorted(D) /\ Within(D, g.low[e], c.max)
    BY Zenon, <1>2, ChunkIs DEF Fine
  <2>2. m \in 0 .. DSize /\ \A i \in Lanes : D[i].k # PosInf <=> i < m
    BY SMTT(30), <2>1, PackedIs
  <2>3. m > 0
    BY <1>5, <2>2, ConstantsAre DEF Lanes
  <2>4. OccupiedSlots(c) = m
    BY DEF OccupiedSlots, OccupiedLanes, Occ
  <2> HIDE DEF m, D
  <2>5. 0 \in Lanes /\ m - 1 \in Lanes /\ 0 < m /\ m - 1 < m
    BY <2>2, <2>3, ConstantsAre DEF Lanes
  <2>6. D[0].k # PosInf /\ D[m - 1].k # PosInf
    BY <2>2, <2>5
  <2>7. /\ D[0].k \in Int /\ NegInf <= D[0].k /\ D[0].k <= PosInf
        /\ D[m - 1].k \in Int /\ NegInf <= D[m - 1].k /\ D[m - 1].k <= PosInf
    BY <2>1, <2>5, KeysAre
  <2>8. g.low[e] < D[0].k
    BY SMTT(30), <2>1, <2>5, <2>6 DEF Within
  <2> QED BY <2>4, <2>6, <2>7, <2>8, ConstantsAre DEF D, PosInf, NegInf
<1>8. /\ chunk'[x].data = CopiedTo(c, del, n)
      /\ chunk'[x].max = n.max /\ chunk'[x].next = n.next /\ chunk'[x].lock = n.lock
      /\ \A d \in Chunks \ {x} : chunk'[d] = chunk[d]
  BY ZenonT(40), <1>1, <1>2, <1>3 DEF WordsOK, Words
<1> HIDE DEF a, b, blank, del
<1>9. /\ Rest(w, {"min", "max", "reg"}) /\ loc'[w].min = a /\ loc'[w].max = b
      /\ pc'[w] = "markZombie"
  BY <1>1, <1>3, FieldsAre DEF RegistersOK, Rest
<1> QED BY ZenonT(40), <1>1, <1>2, <1>3, <1>6, <1>7, <1>8, <1>9

\* MergeCopy keeps the list in order.
LEMMA MergeCopyList ==
  ASSUME NEW g, NEW w, ListStep(g, w), MergeCopy(w)
  PROVE  chunk' \in [Chunks -> ChunkType] /\ ListOK(g)'
<1> SUFFICES ASSUME NEW d, d = loc[w].nxt
             PROVE  chunk' \in [Chunks -> ChunkType] /\ ListOK(g)'
  OBVIOUS
<1>1. /\ pc[w] = "mergeCopy" /\ pc'[w] = "markZombie"
      /\ chunk'[d].max = chunk[d].max /\ chunk'[d].next = chunk[d].next
      /\ DataOK(g, chunk'[d].data, loc[w].level) /\ Rest(w, {"min", "max", "reg"})
  BY MergeCopyFacts
<1>2. \A c \in Chunks \ {d} : chunk'[c] = chunk[c]
  BY MergeCopyFacts
<1>3. d \in Chunks /\ On(g, loc[w].level, d) /\ loc[w].level \in Levels
  BY <1>1, MergeFacts
<1>4. w \in Warps
  BY StepFacts
<1>6. Busy(w, d)'
  <2>2. loc'[w].nxt = d
    BY <1>1, FieldsAre DEF Rest
  <2> QED BY <1>1, <2>2 DEF Busy
<1>7. /\ \A c \in Chunks \ {d} : Same(c)
      /\ \A c \in Chunks \ {d} : Busy(w, c) => Busy(w, c)'
  BY <1>1, <1>2 DEF Same, Busy
<1>8. \E v \in Warps : Busy(v, d)'
  BY <1>4, <1>6
<1> QED BY <1>1, <1>3, <1>7, <1>8, DataListOn

\* MergeCopy keeps its warp in order.
LEMMA MergeCopyOwn ==
  ASSUME NEW g, NEW w, ListStep(g, w), MergeCopy(w)
  PROVE  WarpOK(g, w)'
<1> DEFINE e == loc[w].enc
           x == loc[w].nxt
<1>1. /\ pc[w] = "mergeCopy" /\ pc'[w] = "markZombie"
      /\ Fine(chunk'[x].data, g.low[e], chunk[x].max)
      /\ chunk'[x].max = chunk[x].max /\ chunk'[x].lock = chunk[x].lock
      /\ Rest(w, {"min", "max", "reg"})
      /\ loc'[w].min \in NegInf .. MaxKey /\ g.low[e] < loc'[w].min
      /\ loc'[w].max \in NegInf .. MaxKey
  BY MergeCopyFacts
<1>2. \A c \in Chunks \ {x} : chunk'[c] = chunk[c]
  BY SMTT(30), MergeCopyFacts
<1>3. /\ e \in Chunks /\ x \in Chunks /\ Mine(x) /\ x # e
      /\ HasKey(chunk[e].data, loc[w].key) /\ Occ(chunk[e].data) - 1 <= MergeThreshold
      /\ chunk[e].next = x /\ x # Nil /\ ~Inserting(w)
  BY <1>1, MergeFacts
<1>4. /\ loc'[w].enc = e /\ loc'[w].nxt = x /\ loc'[w].key = loc[w].key
  BY <1>1, FieldsAre DEF Rest
<1>5. chunk'[e] = chunk[e] /\ chunk'[x].lock = "locked"
  BY <1>1, <1>2, <1>3 DEF Mine
<1> HIDE DEF e, x
<1>6. MergeOK(g, w)'
  <2>1. /\ Occ(chunk'[e].data) = Occ(chunk[e].data) /\ chunk'[e].next = x
        /\ HasKey(chunk'[e].data, loc[w].key)
    BY <1>3, <1>5
  <2>2. /\ pc'[w] \notin NextLabels \cup SplitLabels /\ pc'[w] \notin InsertSplits
    BY <1>1 DEF NextLabels, SplitLabels, InsertSplits
  <2> QED BY <1>1, <1>3, <1>4, <1>5, <2>1, <2>2 DEF MergeOK, Mine
<1>7. Rest(w, {"i", "min", "max", "reg"})
  BY <1>1 DEF Rest
<1> QED BY <1>1, <1>5, <1>6, <1>7, MergeTailOwn DEF e, x

-----------------------------------------------------------------------------
(* A split empties the lanes it has moved. *)

\* A split that is about to empty the lanes it has copied: the chunk that is split, as it
\* was read (r), and the new one.
LEMMA SplitFacts ==
  ASSUME NEW g, NEW w, ListStep(g, w), pc[w] = "empty"
  PROVE  LET d == loc[w].ini
             n == loc[w].new
             r == loc[w].kv
         IN  /\ pc[w] \notin {"take", "return"} /\ pc[w] \notin OwnLabels
             /\ loc[w].level \in Levels
             /\ d \in Chunks /\ On(g, loc[w].level, d) /\ Mine(d)
             /\ n \in Chunks /\ On(g, loc[w].level, n) /\ Mine(n) /\ n # Nil /\ d # n
             /\ r \in ChunkType /\ DataOK(g, r.data, loc[w].level)
             /\ chunk[d].data = r.data /\ chunk[d].max = Threshold(r) /\ chunk[d].next = n
             /\ chunk[n].data = MovedData(r.data) /\ chunk[n].max = r.max
             /\ g.low[d] \in Int /\ Fine(r.data, g.low[d], r.max) /\ Occ(r.data) >= 3
             /\ g.low[n] = Threshold(r)
<1> DEFINE d == loc[w].ini
           n == loc[w].new
           r == loc[w].kv
           v == loc[w].level
<1>1. /\ pc[w] \notin {"take", "return"} /\ pc[w] \notin OwnLabels /\ pc[w] \in SplitLabels
  BY DEF OwnLabels, SearchLabels, UnlinkLabels, SplitLabels
<1>2. /\ LevelOK(g, w) /\ NextOK(g, w) /\ SplitOK(g, w) /\ v \in Levels
      /\ ListInv(g) /\ g \in Ghosts
  BY <1>1, LevelFacts, StepFacts DEF ListStep
<1>3. /\ On(g, v, d) /\ Mine(d) /\ On(g, v, n) /\ Mine(n)
  BY <1>1, <1>2 DEF LevelOK, NextOK
<1>4. /\ r \in ChunkType
      /\ chunk[d].data = r.data /\ chunk[d].max = Threshold(r) /\ chunk[d].next = n
      /\ chunk[n].data = MovedData(r.data) /\ chunk[n].max = r.max
      /\ Fine(r.data, g.low[d], r.max) /\ Occ(r.data) >= 3
  BY <1>2 DEF SplitOK
<1> HIDE DEF d, n, r, v
<1>5. d \in Chunks /\ Linked(g, d) /\ g.lvl[d] = v /\ n \in Chunks /\ n # Nil
  BY <1>2, <1>3, OnIsLinked, LevelsAre
<1>6. Node(g, d) /\ DataOK(g, r.data, v) /\ g.low[d] \in Int
  BY <1>2, <1>4, <1>5, NodeIs, DataOfNode, GhostsAre
<1>7. ~IsZombie(chunk[d])
  BY <1>3 DEF Mine, IsZombie
<1>8. g.low[n] = Threshold(r)
  BY <1>4, <1>5, <1>6, <1>7 DEF Node, EndOf
<1>9. d # n
  <2>1. Threshold(r) < r.max /\ Threshold(r) \in NegInf .. MaxKey
    BY <1>4, <1>6, SplitIsFine
  <2>2. r.max \in Int /\ Threshold(r) \in Int
    BY <1>4, <2>1, ChunkIs, ConstantsAre DEF NegInf
  <2> QED BY <1>4, <2>1, <2>2
<1> QED BY <1>1, <1>2, <1>3, <1>4, <1>5, <1>6, <1>8, <1>9 DEF d, n, r, v

\* What emptying the moved lanes of a split does.
LEMMA EmptyFacts ==
  ASSUME NEW g, NEW w, ListStep(g, w), EmptyMoved(w)
  PROVE  LET d == loc[w].ini
         IN  /\ pc[w] = "empty" /\ allocated' = allocated
             /\ chunk'[d].data = Emptied(loc[w].kv)
             /\ chunk'[d].max = chunk[d].max /\ chunk'[d].next = chunk[d].next
             /\ chunk'[d].lock = chunk[d].lock
             /\ \A c \in Chunks \ {d} : chunk'[c] = chunk[c]
             /\ pc'[w] = IF Inserting(w) THEN "shift" ELSE "unlockNew"
<1> DEFINE d == loc[w].ini
           r == loc[w].kv
           M == MovedLanes(r)
<1>1. pc[w] = "empty" /\ allocated' = allocated
  BY DEF EmptyMoved, At
<1>2. /\ d \in Chunks /\ chunk[d].data = r.data /\ WordsOK /\ RegistersOK /\ w \in Warps
  BY <1>1, SplitFacts, StepFacts
<1>3. chunk' = [chunk EXCEPT ![d].data =
                  [i \in Lanes |-> IF i \in M THEN EmptyEntry ELSE @[i]]]
  BY DEF EmptyMoved
<1>4. [i \in Lanes |-> IF i \in M THEN EmptyEntry ELSE chunk[d].data[i]] = Emptied(r)
  BY Zenon, <1>2 DEF Emptied
<1>5. chunk' = [chunk EXCEPT ![d].data = Emptied(r)]
  <2> HIDE DEF M, r
  <2> QED BY <1>2, <1>3, <1>4 DEF WordsOK, Words
<1>6. pc' = [pc EXCEPT ![w] = IF Inserting(w) THEN "shift" ELSE "unlockNew"]
  BY DEF EmptyMoved, GoTo
<1> HIDE DEF r
<1>7. pc'[w] = IF Inserting(w) THEN "shift" ELSE "unlockNew"
  BY <1>2, <1>6 DEF RegistersOK
<1>8. /\ chunk'[d].data = Emptied(r)
      /\ chunk'[d].max = chunk[d].max /\ chunk'[d].next = chunk[d].next
      /\ chunk'[d].lock = chunk[d].lock
      /\ \A c \in Chunks \ {d} : chunk'[c] = chunk[c]
  BY <1>2, <1>5 DEF WordsOK, Words
<1> QED BY <1>1, <1>7, <1>8 DEF r

\* Emptying the moved lanes leaves the list in order.
LEMMA EmptyMovedList ==
  ASSUME NEW g, NEW w, ListStep(g, w), EmptyMoved(w)
  PROVE  chunk' \in [Chunks -> ChunkType] /\ ListOK(g)'
<1> SUFFICES ASSUME NEW d, d = loc[w].ini
             PROVE  chunk' \in [Chunks -> ChunkType] /\ ListOK(g)'
  OBVIOUS
<1> DEFINE r == loc[w].kv
           v == loc[w].level
<1>1. /\ pc[w] = "empty"
      /\ chunk'[d].data = Emptied(r)
      /\ chunk'[d].max = chunk[d].max /\ chunk'[d].next = chunk[d].next
  BY EmptyFacts
<1>2. \A c \in Chunks \ {d} : chunk'[c] = chunk[c]
  BY EmptyFacts
<1>3. /\ v \in Levels /\ d \in Chunks /\ On(g, v, d) /\ r \in ChunkType
      /\ DataOK(g, r.data, v) /\ chunk[d].max = Threshold(r)
      /\ g.low[d] \in Int /\ Fine(r.data, g.low[d], r.max) /\ Occ(r.data) >= 3
  BY <1>1, SplitFacts
<1>4. g \in Ghosts
  BY StepFacts
<1>5. /\ \A c \in Chunks \ {d} : Same(c)
      /\ \A c \in Chunks \ {d} : Busy(w, c) => Busy(w, c)'
  BY <1>1, <1>2 DEF Same, Busy
<1> HIDE DEF r, v
<1>6. Fine(Emptied(r), g.low[d], Threshold(r)) /\ DataOK(g, Emptied(r), v)
  BY <1>3, <1>4, SplitIsFine
<1>7. pc[w] \notin {"markZombie", "alloc"}
  BY <1>1
<1> QED BY <1>1, <1>3, <1>5, <1>6, <1>7, DataListOn

\* The key goes to one of the two halves, which has room for it.
LEMMA HalfIsFine ==
  ASSUME NEW c \in ChunkType, NEW lo \in Int, Fine(c.data, lo, c.max), Occ(c.data) = DSize,
         NEW k \in 1 .. MaxKey, lo < k, k <= c.max, ~HasKey(c.data, k),
         NEW half, half = IF k > Threshold(c) THEN MovedData(c.data) ELSE Emptied(c),
         NEW a, a = IF k > Threshold(c) THEN Threshold(c) ELSE lo,
         NEW b, b = IF k > Threshold(c) THEN c.max ELSE Threshold(c)
  PROVE  /\ a \in Int /\ b \in Int /\ half \in Datas /\ Fine(half, a, b)
         /\ a < k /\ k <= b /\ ~HasKey(half, k) /\ Occ(half) < DSize
         /\ Occ(half) = IF k > Threshold(c) THEN Cardinality(MovedLanes(c))
                        ELSE OccupiedSlots(c) - Cardinality(MovedLanes(c))
         /\ \A l \in Levels, g \in Ghosts : DataOK(g, c.data, l) => DataOK(g, half, l)
<1> DEFINE t == Threshold(c)
           m == MovedData(c.data)
           e == Emptied(c)
           f == First(c.data)
           n == Occ(c.data)
<1>1. DSize \in Nat /\ DSize >= 3 /\ n = DSize /\ k # PosInf /\ k \in Int
  BY ConstantsAre DEF PosInf
<1>2. /\ lo < t /\ t < c.max /\ t \in NegInf .. MaxKey /\ m \in Datas /\ Fine(m, t, c.max)
      /\ Occ(m) = n - f /\ Cardinality(MovedLanes(c)) = n - f
      /\ e \in Datas /\ Fine(e, lo, t) /\ Occ(e) = f /\ f \in Lanes /\ f < n
      /\ \A l \in Levels, g \in Ghosts : DataOK(g, c.data, l) =>
              DataOK(g, m, l) /\ DataOK(g, e, l)
  BY <1>1, SplitIsFine
<1>3. t \in Int /\ c.max \in Int /\ f \in Int /\ OccupiedSlots(c) = n
  <2>1. OccupiedSlots(c) = n
    BY DEF OccupiedSlots, OccupiedLanes, Occ
  <2>2. c.max \in Int
    BY ChunkIs
  <2> HIDE DEF t, m, e, f, n
  <2>3. t \in Int /\ f \in Int
    BY <1>2, LanesAre, ConstantsAre DEF NegInf
  <2> QED BY <2>1, <2>2, <2>3
<1>4. 0 < f
  <2>1. f = n \div 2 + 1
    BY DEF First
  <2> HIDE DEF f, n
  <2> QED BY <1>1, <2>1
<1>5. ~HasKey(m, k)
  <2> SUFFICES ASSUME NEW i \in Lanes, m[i].k = k PROVE FALSE
    BY DEF HasKey
  <2>1. m[i] = IF i + f < n THEN c.data[i + f] ELSE EmptyEntry
    BY DEF MovedData
  <2>2. i + f < n /\ m[i] = c.data[i + f]
    BY <1>1, <2>1, EmptyIs
  <2>3. i + f \in Lanes
    <3> HIDE DEF f, n, m
    <3> QED BY <1>1, <1>3, <1>4, <2>2, LanesAre
  <2> QED BY <2>2, <2>3 DEF HasKey
<1>6. ~HasKey(e, k)
  <2> SUFFICES ASSUME NEW i \in Lanes, e[i].k = k PROVE FALSE
    BY DEF HasKey
  <2>1. e[i] = IF i \in MovedLanes(c) THEN EmptyEntry ELSE c.data[i]
    BY DEF Emptied
  <2> QED BY <1>1, <2>1, EmptyIs DEF HasKey
<1> HIDE DEF t, m, e, f, n
<1>7. CASE k > t
  <2>1. half = m /\ a = t /\ b = c.max
    BY <1>7 DEF t, m
  <2> QED BY <1>1, <1>2, <1>3, <1>4, <1>5, <1>7, <2>1 DEF t
<1>8. CASE ~(k > t)
  <2>1. half = e /\ a = lo /\ b = t
    BY <1>8 DEF t, e
  <2>2. n - (n - f) = f
    BY <1>1, <1>3
  <2> QED BY <1>1, <1>2, <1>3, <1>4, <1>6, <1>8, <2>1, <2>2 DEF t
<1> QED BY <1>7, <1>8

\* The new entry goes to the half of the split chunk that has its key's place.
LEMMA EmptyInsertOwn ==
  ASSUME NEW g, NEW w, ListStep(g, w), EmptyMoved(w), Inserting(w)
  PROVE  WarpOK(g, w)'
<1> DEFINE d == loc[w].ini
           n == loc[w].new
           r == loc[w].kv
           v == loc[w].level
           k == loc[w].key
           right == k > Threshold(r)
           t == IF right THEN n ELSE d
           half == IF right THEN MovedData(r.data) ELSE Emptied(r)
           m == IF right THEN Cardinality(MovedLanes(r))
                ELSE OccupiedSlots(r) - Cardinality(MovedLanes(r))
           idx == InsertionIdx(half, k)
           new == Shifted(half, idx, NewEntry(w))
           b == IF v = 0 THEN t ELSE loc[w].bottom
           hi == IF right THEN r.max ELSE Threshold(r)
<1>1. /\ pc[w] = "empty" /\ allocated' = allocated
      /\ chunk'[d].data = Emptied(r)
      /\ chunk'[d].max = chunk[d].max /\ chunk'[d].next = chunk[d].next
      /\ chunk'[d].lock = chunk[d].lock
      /\ pc'[w] = "shift"
  BY EmptyFacts
<1>2. \A c \in Chunks \ {d} : chunk'[c] = chunk[c]
  BY Zenon, EmptyFacts
<1>3. /\ pc[w] \notin {"take", "return"} /\ pc[w] \notin OwnLabels
      /\ v \in Levels
      /\ d \in Chunks /\ On(g, v, d) /\ Mine(d)
      /\ n \in Chunks /\ On(g, v, n) /\ Mine(n) /\ n # Nil /\ d # n
      /\ r \in ChunkType /\ DataOK(g, r.data, v)
      /\ chunk[d].data = r.data /\ chunk[d].max = Threshold(r)
      /\ chunk[n].data = MovedData(r.data) /\ chunk[n].max = r.max
      /\ g.low[d] \in Int /\ Fine(r.data, g.low[d], r.max)
      /\ g.low[n] = Threshold(r)
  BY <1>1, SplitFacts
<1>4. /\ LevelOK(g, w) /\ SplitOK(g, w) /\ Control(w) /\ loc[w].top \in Levels
      /\ k \in 1 .. MaxKey /\ k \in Int /\ loc[w].val \in Int /\ RegistersOK /\ w \in Warps
      /\ g \in Ghosts /\ From(g, v, loc[w].enc, k)
  BY Zenon, <1>1, <1>3, LevelFacts, StepFacts
<1>5. /\ Full(r.data) /\ ~HasKey(r.data, k) /\ k <= r.max /\ loc[w].enc = d
  BY <1>1, <1>4 DEF SplitOK, Control
<1>6. /\ Rest(w, {"up", "tgt", "bottom", "stop", "i", "reg"})
      /\ loc'[w].tgt = t /\ loc'[w].stop = idx /\ loc'[w].i = m
      /\ loc'[w].reg = new /\ loc'[w].bottom = b
  <2>1. ShiftIn(w, t, half, m)
    BY <1>3 DEF EmptyMoved
  <2> HIDE DEF t, half, m
  <2>2. loc' = [loc EXCEPT ![w].up = FALSE, ![w].tgt = t,
                  ![w].bottom = IF v = 0 THEN t ELSE @, ![w].stop = idx,
                  ![w].i = m, ![w].reg = new]
    BY Zenon, <2>1 DEF ShiftIn
  <2> HIDE DEF idx, new
  <2>3. loc' = [loc EXCEPT ![w].up = FALSE, ![w].tgt = t, ![w].bottom = b, ![w].stop = idx,
                           ![w].i = m, ![w].reg = new]
    <3>1. CASE v = 0
      BY <2>2, <3>1
    <3>2. CASE v # 0
      BY <1>4, <2>2, <3>2, FieldsAre DEF RegistersOK
    <3> QED BY <3>1, <3>2
  <2> HIDE DEF b
  <2>4. /\ loc'[w].tgt = t /\ loc'[w].stop = idx /\ loc'[w].i = m
        /\ loc'[w].reg = new /\ loc'[w].bottom = b
    BY <1>4, <2>3, FieldsAre DEF RegistersOK
  <2>5. Rest(w, {"up", "tgt", "bottom", "stop", "i", "reg"})
    BY <1>4, <2>3, FieldsAre DEF RegistersOK, Rest
  <2> QED BY Zenon, <2>4, <2>5
<1>7. chunk'[t].data = half /\ chunk'[t].max = hi /\ chunk'[t].lock = "locked"
  <2>1. CASE right
    BY Zenon, <1>2, <1>3, <2>1 DEF Mine
  <2>2. CASE ~right
    BY <1>1, <1>3, <2>2 DEF Mine
  <2> QED BY <2>1, <2>2
<1>8. t \in Chunks /\ On(g, v, t) /\ g.low[t] = IF right THEN Threshold(r) ELSE g.low[d]
  BY <1>3
<1>9. Occ(r.data) = DSize /\ r.data \in Datas /\ Sorted(r.data)
  <2>1. r.data \in Datas /\ Sorted(r.data)
    BY <1>3, ChunkIs DEF Fine
  <2> HIDE DEF r
  <2>2. \A i \in Lanes : r.data[i].k # PosInf <=> i < DSize
    <3>1. \A i \in Lanes : i < DSize
      BY LanesAre
    <3>2. \A i \in Lanes : r.data[i].k # PosInf
      BY Zenon, <1>5 DEF Full
    <3> QED BY Zenon, <3>1, <3>2
  <2>3. DSize \in 0 .. DSize
    BY ConstantsAre
  <2> QED BY <2>1, <2>2, <2>3, CountIs
<1>10. g.low[d] < k
  BY <1>4, <1>5 DEF From
<1>11. /\ g.low[t] \in Int /\ hi \in Int /\ half \in Datas /\ Fine(half, g.low[t], hi)
       /\ g.low[t] < k /\ k <= hi /\ ~HasKey(half, k) /\ Occ(half) < DSize
       /\ Occ(half) = m /\ DataOK(g, half, v)
  <2> DEFINE a == IF right THEN Threshold(r) ELSE g.low[d]
  <2>1. g.low[t] = a
    BY <1>8
  <2>2. /\ a \in Int /\ hi \in Int /\ half \in Datas /\ Fine(half, a, hi)
        /\ a < k /\ k <= hi /\ ~HasKey(half, k) /\ Occ(half) < DSize
        /\ Occ(half) = m /\ DataOK(g, half, v)
    <3> HIDE DEF r, k, d, v
    <3>1. half = IF k > Threshold(r) THEN MovedData(r.data) ELSE Emptied(r)
      OBVIOUS
    <3>2. a = IF k > Threshold(r) THEN Threshold(r) ELSE g.low[d]
      OBVIOUS
    <3>3. hi = IF k > Threshold(r) THEN r.max ELSE Threshold(r)
      OBVIOUS
    <3>4. m = IF k > Threshold(r) THEN Cardinality(MovedLanes(r))
              ELSE OccupiedSlots(r) - Cardinality(MovedLanes(r))
      OBVIOUS
    <3> HIDE DEF half, a, hi, m
    <3> QED BY <1>3, <1>4, <1>5, <1>9, <1>10, <3>1, <3>2, <3>3, <3>4, HalfIsFine
  <2> QED BY <2>1, <2>2
<1> HIDE DEF right, t, half, m, hi
<1>12. NewEntry(w) \in Entries /\ NewEntry(w).k = k /\ k # PosInf
  BY <1>4, ConstantsAre DEF NewEntry, Entries, NegInf, PosInf
<1>13. EntryOK(g, NewEntry(w), v)
  BY <1>4 DEF EntryOK, NewEntry, LevelOK, From
<1>14. /\ new \in Datas /\ Fine(new, g.low[t], hi)
       /\ idx \in 0 .. m /\ m \in Lanes
       /\ \A j \in Lanes : j < idx \/ j > m => new[j].k = half[j].k
       /\ DataOK(g, new, v)
  <2>1. InsertionIdx(half, NewEntry(w).k) = idx
    BY <1>12
  <2> HIDE DEF k, v
  <2> QED BY <1>3, <1>4, <1>11, <1>12, <1>13, <2>1, InsertionIsFine
<1> HIDE DEF new, idx, b
<1>15. /\ loc'[w].kind = loc[w].kind /\ loc'[w].key = k
       /\ loc'[w].route = loc[w].route /\ loc'[w].level = v
       /\ loc'[w].enc = loc[w].enc
       /\ loc'[w].val = loc[w].val /\ loc'[w].top = loc[w].top
       /\ loc'[w].nxt = loc[w].nxt /\ loc'[w].new = n /\ loc'[w].kv = r
  BY <1>6, FieldsAre DEF Rest
<1>16. LevelOK(g, w)'
  <2>1. b = loc[w].bottom \/ From(g, 0, b, k)
    BY Zenon, <1>8, <1>11 DEF b, From
  <2>2. Mine(loc[w].enc)'
    BY SMTT(30), <1>1, <1>3, <1>5, <1>15 DEF Mine
  <2> QED BY <1>1, <1>4, <1>6, <1>15, <2>1, <2>2, BottomNamed
          DEF NextLabels, SplitLabels
<1>17. SplitOK(g, w)'
  <2> DEFINE f == DSize \div 2 + 1
             x == r.data[f].k
             y == r.data[DSize - 1].k
  <2>1. f = First(r.data)
    BY <1>9 DEF First
  <2>2. First(r.data) \in Lanes /\ Threshold(r) < r.data[First(r.data)].k
    <3> HIDE DEF r, d
    <3>1. Occ(r.data) >= 3
      BY <1>9, ConstantsAre
    <3> QED BY <1>3, <3>1, SplitIsFine
  <2>3. DSize - 1 \in Lanes
    BY LanesAre, ConstantsAre
  <2>4. f \in Lanes /\ Threshold(r) < x /\ x # PosInf /\ y # PosInf
    BY <1>5, <2>1, <2>2, <2>3 DEF Full
  <2>5. x \in Int /\ NegInf <= x /\ x <= PosInf /\ y \in Int /\ NegInf <= y /\ y <= PosInf
    BY <1>9, <2>3, <2>4, KeysAre
  <2> HIDE DEF x, y, f
  <2>6. x \in NegInf .. MaxKey /\ y \in NegInf .. MaxKey
    BY <2>4, <2>5, ConstantsAre DEF NegInf, PosInf
  <2>7. From(g, v, n, x)
    BY <1>3, <2>4 DEF From
  <2>8. From(g, v, t, k)
    BY <1>8, <1>11 DEF From
  <2>9. pc'[w] \notin InsertSplits /\ pc'[w] # "empty"
    BY <1>1 DEF InsertSplits, NextLabels
  <2> QED BY <1>6, <1>15, <2>6, <2>7, <2>8, <2>9 DEF SplitOK, x, y, f
<1>18. ShiftOK(g, w)'
  BY <1>6, <1>7, <1>14, <1>15 DEF ShiftOK, Mine
<1> QED BY <1>1, <1>4, <1>15, <1>16, <1>17, <1>18, LevelBuilt, Elsewhere
        DEF OwnLabels, SearchLabels, UnlinkLabels, SplitLabels, Merging, NextLabels, MergeTail,
            DownLabels

\* A merge goes on once the next chunk has been split.
LEMMA EmptyMergeOwn ==
  ASSUME NEW g, NEW w, ListStep(g, w), EmptyMoved(w), ~Inserting(w)
  PROVE  WarpOK(g, w)'
<1> DEFINE d == loc[w].ini
           n == loc[w].new
           r == loc[w].kv
           v == loc[w].level
           e == loc[w].enc
           blank == BlankKv
<1>1. /\ pc[w] = "empty" /\ allocated' = allocated
      /\ chunk'[d].data = Emptied(r)
      /\ chunk'[d].max = chunk[d].max /\ chunk'[d].next = chunk[d].next
      /\ chunk'[d].lock = chunk[d].lock
      /\ pc'[w] = "unlockNew"
  BY EmptyFacts
<1>2. \A c \in Chunks \ {d} : chunk'[c] = chunk[c]
  BY Zenon, EmptyFacts
<1>3. /\ pc[w] \notin {"take", "return"} /\ pc[w] \notin OwnLabels /\ v \in Levels
      /\ d \in Chunks /\ On(g, v, d) /\ Mine(d)
      /\ n \in Chunks /\ On(g, v, n) /\ Mine(n) /\ n # Nil /\ d # n
      /\ r \in ChunkType
      /\ g.low[d] \in Int /\ Fine(r.data, g.low[d], r.max) /\ Occ(r.data) >= 3
  BY <1>1, SplitFacts
<1>4. /\ LevelOK(g, w) /\ MergeOK(g, w) /\ Control(w) /\ loc[w].top \in Levels
      /\ loc[w].key \in 1 .. MaxKey /\ loc[w].val \in Int /\ RegistersOK /\ w \in Warps
      /\ e \in Chunks
  BY Zenon, <1>1, <1>3, LevelFacts, StepFacts
<1>5. loc[w].ini = loc[w].nxt /\ Mine(e)
  BY Zenon, <1>1, <1>4 DEF Control, LevelOK, EncLocked, SplitLabels
<1>6. e # d
  BY <1>1, <1>3, <1>5, HeldDiffer DEF Differs, HasNxt, SplitLabels
<1>7. /\ HasKey(chunk[e].data, loc[w].key) /\ Occ(chunk[e].data) - 1 <= MergeThreshold
      /\ chunk[e].next # Nil /\ loc[w].nxt = chunk[e].next
      /\ First(r.data) + Occ(chunk[e].data) - 1 <= DSize
  BY <1>1, <1>4, <1>5, <1>6 DEF MergeOK, Merging, SplitLabels
<1>8. Rest(w, {"kv"})
  <2>1. loc' = [loc EXCEPT ![w].kv = blank]
    BY DEF EmptyMoved
  <2> HIDE DEF blank
  <2> QED BY <1>4, <2>1, FieldsAre DEF RegistersOK, Rest
<1>9. /\ loc'[w].kind = loc[w].kind /\ loc'[w].key = loc[w].key
      /\ loc'[w].route = loc[w].route /\ loc'[w].level = v
      /\ loc'[w].enc = e /\ loc'[w].bottom = loc[w].bottom /\ loc'[w].ini = d
      /\ loc'[w].val = loc[w].val /\ loc'[w].top = loc[w].top
      /\ loc'[w].nxt = d /\ loc'[w].new = n
  BY <1>5, <1>8, FieldsAre DEF Rest
<1>10. Occ(chunk'[d].data) = First(r.data)
  <2> HIDE DEF r, d
  <2> QED BY <1>1, <1>3, SplitIsFine
<1>11. chunk'[e] = chunk[e] /\ chunk'[n] = chunk[n]
  BY <1>2, <1>3, <1>4, <1>6
<1>12. LevelOK(g, w)'
  <2>1. LevelRegs(w)
    BY <1>5, <1>9 DEF LevelRegs
  <2>2. Mine(loc[w].enc)' /\ Mine(loc[w].ini)'
    BY <1>1, <1>3, <1>5, <1>9, <1>11 DEF Mine
  <2> QED BY <1>1, <1>3, <1>4, <1>5, <1>9, <2>1, <2>2, LevelKept
<1> HIDE DEF d, n, r, v, e
<1>13. NextOK(g, w)'
  BY <1>1, <1>3, <1>9, <1>11 DEF NextOK, Mine
<1>14. MergeOK(g, w)'
  <2>1. /\ Occ(chunk'[e].data) = Occ(chunk[e].data) /\ chunk'[e].next = chunk[e].next
        /\ HasKey(chunk'[e].data, loc[w].key)
    BY <1>7, <1>11
  <2>2. pc'[w] \notin MergeTail /\ pc'[w] \notin InsertSplits
    BY <1>1 DEF MergeTail, InsertSplits, NextLabels
  <2>3. d \in {e, d} /\ chunk[e].next = d /\ chunk[e].next # Nil
    BY <1>5, <1>7 DEF d, e
  <2> QED BY <1>1, <1>7, <1>9, <1>10, <2>1, <2>2, <2>3 DEF MergeOK, e
<1>15. /\ pc'[w] \notin {"take", "return"} /\ pc'[w] \notin OwnLabels /\ pc'[w] # "shift"
       /\ pc'[w] \notin InsertSplits \cup {"empty", "shift", "unlockOther"}
       /\ pc'[w] \notin {"lowerMax", "unshift"} /\ pc'[w] \notin DownLabels \cup OwnLabels
  BY <1>1 DEF OwnLabels, SearchLabels, UnlinkLabels, DownLabels, InsertSplits, NextLabels
<1> QED BY <1>4, <1>9, <1>12, <1>13, <1>14, <1>15, LevelBuilt, Elsewhere

\* EmptyMoved keeps its warp in order.
LEMMA EmptyMovedOwn ==
  ASSUME NEW g, NEW w, ListStep(g, w), EmptyMoved(w)
  PROVE  WarpOK(g, w)'
BY EmptyInsertOwn, EmptyMergeOwn

-----------------------------------------------------------------------------
(* A split links the new chunk. *)

\* What the other warps rely on when the ghosts change.
LEMMA GhostSteady ==
  ASSUME NEW g, NEW h, NEW w, ListStep(g, w), Sinks(g, h), NEW v \in Warps, v # w,
         \A c \in Chunks : Mine(c) /\ Holds(v, c) /\ g.lvl[c] = Nil => h.lvl[c] = Nil,
         \A c, d \in Chunks : /\ Mine(c) /\ Holds(v, c) /\ Linked(g, c)
                             /\ Follows(g, g.lvl[c], c, d) =>
           d \in h.chain /\ h.low[d] = g.low[d] /\ h.rank[d] < h.rank[c]
  PROVE  Steady(g, h, v)
<1>1. Steady(g, g, v)
  BY StepSteady
<1>2. ASSUME NEW c \in Chunks, Mine(c), Holds(v, c)
      PROVE  /\ chunk'[c] = chunk[c]
             /\ \A l \in Levels : \A d : Follows(g, l, c, d) => Follows(h, l, c, d)'
  <2>1. chunk'[c] = chunk[c]
    BY <1>2, HeldStays
  <2> SUFFICES ASSUME NEW l \in Levels, NEW d, Follows(g, l, c, d)
               PROVE  Follows(h, l, c, d)'
    BY <2>1
  <2>2. On(g, l, c) /\ On(g, l, d) /\ l = g.lvl[c] /\ d \in Chunks /\ Linked(g, c)
    BY OnIsLinked DEF Follows, On
  <2>3. On(h, l, c) /\ On(h, l, d)
    BY <2>2, OnKept
  <2>4. d \in h.chain /\ h.low[d] = g.low[d] /\ h.rank[d] < h.rank[c]
    BY <1>2, <2>2
  <2> QED BY <2>1, <2>3, <2>4 DEF Follows
<1> QED BY <1>1, <1>2 DEF Steady

\* A split links the new chunk n behind chunk d.
Grown(g, d, n, l, t) ==
  [lvl |-> [g.lvl EXCEPT ![n] = l], low |-> [g.low EXCEPT ![n] = t],
   chain |-> g.chain \cup {n},
   rank |-> [x \in Chunks |-> IF x = n THEN 2 * g.rank[d] + 1 ELSE 2 * g.rank[x] + 2]]

\* The ghosts with a new chunk right of d: its keys begin at t, its rank is next to d's.
LEMMA GrownIs ==
  ASSUME NEW g \in Ghosts, NEW d \in Chunks, NEW n \in Chunks, n # d, NEW l \in Levels,
         NEW t \in Int, NEW h, h = Grown(g, d, n, l, t)
  PROVE  /\ h \in Ghosts
         /\ h.lvl[n] = l /\ h.low[n] = t /\ n \in h.chain /\ g.chain \subseteq h.chain
         /\ h.rank[n] < h.rank[d]
         /\ \A x \in Chunks \ {n} : /\ h.lvl[x] = g.lvl[x] /\ h.low[x] = g.low[x]
                                    /\ x \in h.chain <=> x \in g.chain
                                    /\ g.rank[x] < g.rank[d] => h.rank[x] < h.rank[n]
         /\ \A x, y \in Chunks \ {n} : g.rank[x] < g.rank[y] => h.rank[x] < h.rank[y]
<1>1. /\ g.lvl \in [Chunks -> Levels \cup {Nil}] /\ g.low \in [Chunks -> Int]
      /\ g.chain \in SUBSET Chunks /\ g.rank \in [Chunks -> Nat]
  BY DEF Ghosts
<1>2. h.rank \in [Chunks -> Nat]
  BY <1>1 DEF Grown
<1>3. h \in Ghosts
  <2>1. h.lvl \in [Chunks -> Levels \cup {Nil}] /\ h.low \in [Chunks -> Int]
    BY <1>1 DEF Grown
  <2>2. h.chain \in SUBSET Chunks
    BY <1>1 DEF Grown
  <2>3. h = [lvl |-> h.lvl, low |-> h.low, chain |-> h.chain, rank |-> h.rank]
    BY DEF Grown
  <2> QED BY <1>2, <2>1, <2>2, <2>3 DEF Ghosts
<1>4. /\ h.lvl[n] = l /\ h.low[n] = t /\ n \in h.chain /\ g.chain \subseteq h.chain
      /\ \A x \in Chunks \ {n} : /\ h.lvl[x] = g.lvl[x] /\ h.low[x] = g.low[x]
                                 /\ x \in h.chain <=> x \in g.chain
  BY <1>1 DEF Grown
<1>5. /\ h.rank[n] = 2 * g.rank[d] + 1
      /\ \A x \in Chunks \ {n} : h.rank[x] = 2 * g.rank[x] + 2
  BY DEF Grown
<1>6. \A x \in Chunks : g.rank[x] \in Nat
  BY <1>1
<1>7. h.rank[n] < h.rank[d]
  BY <1>5, <1>6
<1>8. \A x \in Chunks \ {n} : g.rank[x] < g.rank[d] => h.rank[x] < h.rank[n]
  BY <1>5, <1>6
<1>9. \A x, y \in Chunks \ {n} : g.rank[x] < g.rank[y] => h.rank[x] < h.rank[y]
  BY SMTT(30), <1>5, <1>6
<1> QED BY <1>3, <1>4, <1>7, <1>8, <1>9

\* What linking the new chunk of a split does.
LEMMA SplitCopyFacts ==
  ASSUME NEW g, NEW w, ListStep(g, w), SplitCopy(w),
         NEW d, d = loc[w].ini, NEW n, n = loc[w].new, NEW c, c = chunk[d],
         NEW v, v = loc[w].level
  PROVE  /\ pc[w] = "copy" /\ pc'[w] = "empty" /\ allocated' = allocated
         /\ d \in Chunks /\ On(g, v, d) /\ Mine(d) /\ Holds(w, d) /\ d # n
         /\ n \in Chunks /\ n # Nil /\ g.lvl[n] = Nil /\ n < allocated /\ Holds(w, n)
         /\ chunk[n] = FreshChunk(c.next, "locked")
         /\ v \in Levels /\ c \in ChunkType /\ DataOK(g, c.data, v)
         /\ g.low[d] \in Int /\ Fine(c.data, g.low[d], c.max) /\ Occ(c.data) >= 3
         /\ chunk'[d].data = c.data /\ chunk'[d].max = Threshold(c)
         /\ chunk'[d].next = n /\ chunk'[d].lock = "locked"
         /\ chunk'[n].data = MovedData(c.data) /\ chunk'[n].max = c.max
         /\ chunk'[n].next = c.next /\ chunk'[n].lock = "locked"
         /\ \A x \in Chunks \ {d, n} : chunk'[x] = chunk[x]
         /\ Rest(w, {"kv"}) /\ loc'[w].kv = c
<1> DEFINE e == loc[w].enc
<1>1. /\ pc[w] = "copy" /\ allocated' = allocated
      /\ chunk' = [chunk EXCEPT ![n] = SplitOff(c, @), ![d].max = Threshold(c),
                                ![d].next = n]
      /\ loc' = [loc EXCEPT ![w].kv = c] /\ pc' = [pc EXCEPT ![w] = "empty"]
  BY Zenon DEF SplitCopy, At, GoTo
<1>2. /\ pc[w] \notin {"take", "return"} /\ pc[w] \notin OwnLabels /\ pc[w] \in SplitLabels
      /\ pc[w] \in InsertSplits
  BY <1>1 DEF OwnLabels, SearchLabels, UnlinkLabels, SplitLabels, InsertSplits
<1>3. /\ LevelOK(g, w) /\ NextOK(g, w) /\ SplitOK(g, w) /\ MergeOK(g, w) /\ v \in Levels
      /\ ListInv(g) /\ g \in Ghosts /\ Control(w) /\ WordsOK /\ WordsOK' /\ RegistersOK
      /\ w \in Warps /\ ExclusiveInv /\ e \in Chunks
  BY <1>2, LevelFacts, StepFacts DEF ListStep
<1>4. On(g, v, d) /\ Mine(d) /\ Mine(e)
  BY <1>2, <1>3 DEF LevelOK, EncLocked
<1>5. d \in Chunks /\ Linked(g, d) /\ g.lvl[d] = v
  BY <1>3, <1>4, OnIsLinked
<1>6. n # Nil /\ n \in Chunks /\ n < allocated
  BY Zenon, <1>1, <1>3 DEF Control, LevelOK
<1>7. g.lvl[n] = Nil /\ chunk[n] = FreshChunk(c.next, "locked")
  BY <1>1, <1>3 DEF NextOK
<1>8. d # n
  BY Zenon, <1>5, <1>7 DEF Linked
<1>9. Inserting(w) => d = e
  BY <1>1, <1>3 DEF Control
<1>10. ~Inserting(w) => d = loc[w].nxt /\ d # e
  <2> SUFFICES ASSUME ~Inserting(w) PROVE d = loc[w].nxt /\ d # e
    OBVIOUS
  <2>1. d = loc[w].nxt
    BY <1>1, <1>3 DEF Control
  <2>2. Differs(w, d) /\ HasNxt(w)
    BY <1>2, <1>4, <1>5, <2>1, HeldDiffer, LevelsAre DEF HasNxt
  <2> QED BY <2>1, <2>2 DEF Differs
<1>11. Holds(w, d)
  <2>1. CASE Inserting(w)
    BY <1>2, <1>9, <2>1 DEF Holds, HasEnc
  <2>2. CASE ~Inserting(w)
    BY Zenon, <1>2, <1>5, <1>10, <2>2, LevelsAre DEF Holds, HasNxt
  <2> QED BY <2>1, <2>2
<1>12. Holds(w, n)
  BY <1>1, <1>2, <1>6 DEF Holds, HasNew
<1>13. c \in ChunkType /\ DataOK(g, c.data, v) /\ g.low[d] \in Int
  BY <1>3, <1>5, NodeIs, DataOfNode, GhostsAre
<1>14. Fine(c.data, g.low[d], c.max)
  <2>1. ~IsZombie(chunk[d]) /\ ~Busy(w, d)
    BY <1>1, <1>4 DEF Mine, IsZombie, Busy
  <2> QED BY Zenon, <1>3, <1>5, <1>11, <2>1, HeldIsFine
<1>15. Occ(c.data) >= 3
  <2>1. CASE Inserting(w)
    <3>1. Full(c.data)
      BY <1>2, <1>3, <1>9, <2>1 DEF SplitOK
    <3>2. \A i \in Lanes : c.data[i].k # PosInf <=> i < DSize
      BY <3>1, LanesAre, ConstantsAre DEF Full
    <3>3. DSize \in 0 .. DSize
      BY ConstantsAre
    <3>4. Occ(c.data) = DSize
      BY Zenon, <3>2, <3>3, CountIs
    <3> QED BY <3>4, ConstantsAre
  <2>2. CASE ~Inserting(w)
    BY <1>2, <1>3, <1>10, <2>2 DEF MergeOK, Merging
  <2> QED BY <2>1, <2>2
<1> HIDE DEF e
<1>16. SplitOff(c, chunk[n]).data = MovedData(c.data)
  BY <1>7, <1>13, <1>14, <1>15, SplitIsFine
<1>17. /\ SplitOff(c, chunk[n]).max = c.max /\ SplitOff(c, chunk[n]).next = c.next
       /\ SplitOff(c, chunk[n]).lock = "locked"
  BY SMTT(30), <1>7 DEF SplitOff, FreshChunk
<1>18. /\ chunk'[d] = [c EXCEPT !.max = Threshold(c), !.next = n]
       /\ chunk'[n] = SplitOff(c, chunk[n])
       /\ \A x \in Chunks \ {d, n} : chunk'[x] = chunk[x]
  <2> DEFINE t == Threshold(c)
             f == SplitOff(c, chunk[n])
  <2>1. chunk' = [chunk EXCEPT ![n] = f, ![d].max = t, ![d].next = n]
    BY ZenonT(40), <1>1, <1>3, <1>6 DEF WordsOK
  <2> HIDE DEF t, f
  <2>2. chunk' = [chunk EXCEPT ![n] = f, ![d] = [chunk[d] EXCEPT !.max = t, !.next = n]]
    BY ZenonT(40), <2>1, <1>3, <1>5, <1>6, <1>8 DEF WordsOK, Words
  <2> QED BY ZenonT(40), <2>2, <1>3, <1>5, <1>6, <1>8 DEF WordsOK, Words, t, f
<1>20. /\ chunk'[d].data = c.data /\ chunk'[d].max = Threshold(c)
       /\ chunk'[d].next = n /\ chunk'[d].lock = "locked"
  BY <1>4, <1>13, <1>18 DEF ChunkType, Mine
<1>19. Rest(w, {"kv"}) /\ loc'[w].kv = c /\ pc'[w] = "empty"
  BY SMTT(30), <1>1, <1>3, FieldsAre DEF RegistersOK, Rest
<1> QED BY ZenonT(40), <1>1, <1>3, <1>4, <1>5, <1>6, <1>7, <1>8, <1>11, <1>12, <1>13, <1>14, <1>15, <1>16,
           <1>17, <1>18, <1>19, <1>20

\* The ghosts after the step of a split that links the new chunk.
SplitGhosts(g, w) ==
  Grown(g, loc[w].ini, loc[w].new, loc[w].level, Threshold(chunk[loc[w].ini]))

\* The same facts, with the ghosts after the step.
LEMMA SplitGhostFacts ==
  ASSUME NEW g, NEW w, ListStep(g, w), SplitCopy(w),
         NEW h, h = SplitGhosts(g, w), NEW d, d = loc[w].ini, NEW n, n = loc[w].new,
         NEW t, t = Threshold(chunk[d]), NEW v, v = loc[w].level
  PROVE  /\ Sinks(g, h) /\ g \in Ghosts /\ h \in Ghosts
         /\ h.lvl[n] = v /\ h.low[n] = t /\ n \in h.chain /\ g.chain \subseteq h.chain
         /\ h.rank[n] < h.rank[d]
         /\ \A x \in Chunks \ {n} : /\ h.lvl[x] = g.lvl[x] /\ h.low[x] = g.low[x]
                                    /\ x \in h.chain <=> x \in g.chain
                                    /\ g.rank[x] < g.rank[d] => h.rank[x] < h.rank[n]
         /\ \A x, y \in Chunks \ {n} : g.rank[x] < g.rank[y] => h.rank[x] < h.rank[y]
         /\ g.low[d] < t /\ t < chunk[d].max /\ t \in NegInf .. MaxKey /\ t \in Int
         /\ chunk[d].max \in Int
         /\ MovedData(chunk[d].data) \in Datas
         /\ Fine(MovedData(chunk[d].data), t, chunk[d].max)
         /\ DataOK(h, MovedData(chunk[d].data), v) /\ DataOK(h, chunk[d].data, v)
<1>1. /\ d \in Chunks /\ n \in Chunks /\ d # n /\ v \in Levels /\ g \in Ghosts
      /\ g.lvl[n] = Nil /\ chunk[d] \in ChunkType /\ DataOK(g, chunk[d].data, v)
      /\ g.low[d] \in Int /\ Fine(chunk[d].data, g.low[d], chunk[d].max)
      /\ Occ(chunk[d].data) >= 3
  BY SplitCopyFacts, StepFacts
<1>2. h = Grown(g, d, n, v, t)
  BY Zenon DEF SplitGhosts
<1>3. /\ g.low[d] < t /\ t < chunk[d].max /\ t \in NegInf .. MaxKey
      /\ MovedData(chunk[d].data) \in Datas
      /\ Fine(MovedData(chunk[d].data), t, chunk[d].max)
      /\ DataOK(g, MovedData(chunk[d].data), v)
  BY Zenon, <1>1, SplitIsFine
<1>4. t \in Int /\ chunk[d].max \in Int
  BY SMTT(30), <1>1, <1>3, ChunkIs, ConstantsAre DEF NegInf
<1>5. /\ h \in Ghosts
      /\ h.lvl[n] = v /\ h.low[n] = t /\ n \in h.chain /\ g.chain \subseteq h.chain
      /\ h.rank[n] < h.rank[d]
      /\ \A x \in Chunks \ {n} : /\ h.lvl[x] = g.lvl[x] /\ h.low[x] = g.low[x]
                                 /\ x \in h.chain <=> x \in g.chain
                                 /\ g.rank[x] < g.rank[d] => h.rank[x] < h.rank[n]
      /\ \A x, y \in Chunks \ {n} : g.rank[x] < g.rank[y] => h.rank[x] < h.rank[y]
  <2>1. g \in Ghosts /\ d \in Chunks /\ n \in Chunks /\ n # d /\ v \in Levels /\ t \in Int
    BY <1>1, <1>4
  <2> QED BY <2>1, <1>2, GrownIs
<1>6. Sinks(g, h)
  BY <1>1, <1>5, GhostsAre DEF Sinks
<1>7. DataOK(h, MovedData(chunk[d].data), v) /\ DataOK(h, chunk[d].data, v)
  BY <1>1, <1>3, <1>6, DataKept
<1> QED BY <1>1, <1>3, <1>4, <1>5, <1>6, <1>7

\* Linking the new chunk keeps the other warps in order.
LEMMA SplitCopySteady ==
  ASSUME NEW g, NEW w, ListStep(g, w), SplitCopy(w), NEW v \in Warps, v # w
  PROVE  Steady(g, SplitGhosts(g, w), v)
<1> SUFFICES ASSUME NEW h, h = SplitGhosts(g, w), NEW n, n = loc[w].new
             PROVE  Steady(g, h, v)
  OBVIOUS
<1>1. /\ Sinks(g, h) /\ g.chain \subseteq h.chain
      /\ \A x \in Chunks \ {n} : h.lvl[x] = g.lvl[x] /\ h.low[x] = g.low[x]
      /\ \A x, y \in Chunks \ {n} : g.rank[x] < g.rank[y] => h.rank[x] < h.rank[y]
  BY SplitGhostFacts
<1>2. n \in Chunks /\ g.lvl[n] = Nil /\ Holds(w, n) /\ chunk[n].lock = "locked"
  <2>1. \E x : chunk[n] = FreshChunk(x, "locked")
    BY SplitCopyFacts
  <2>2. n \in Chunks /\ g.lvl[n] = Nil /\ Holds(w, n)
    BY SplitCopyFacts
  <2> QED BY <2>1, <2>2 DEF FreshChunk
<1>3. LocksExclusive /\ w \in Warps
  BY DEF ListStep, ExclusiveInv
<1>4. \A c \in Chunks : Mine(c) /\ Holds(v, c) => c # n
  BY <1>2, <1>3 DEF LocksExclusive, Mine
<1>5. \A c \in Chunks : Mine(c) /\ Holds(v, c) /\ g.lvl[c] = Nil => h.lvl[c] = Nil
  BY <1>1, <1>4
<1>6. ASSUME NEW c \in Chunks, NEW d \in Chunks, Mine(c), Holds(v, c), Linked(g, c),
             Follows(g, g.lvl[c], c, d)
      PROVE  d \in h.chain /\ h.low[d] = g.low[d] /\ h.rank[d] < h.rank[c]
  <2>1. d \in g.chain /\ g.rank[d] < g.rank[c] /\ g.lvl[d] = g.lvl[c] /\ chunk[c].next # Nil
    BY <1>6 DEF Follows, On
  <2>2. c # n
    BY <1>4, <1>6
  <2>3. d # n
    BY <1>2, <1>6, <2>1 DEF Linked
  <2> QED BY <1>1, <2>1, <2>2, <2>3
<1> QED BY <1>1, <1>5, <1>6, GhostSteady

\* The list after a chunk has been linked.
LEMMA SplitCopyList ==
  ASSUME NEW g, NEW w, ListStep(g, w), SplitCopy(w), NEW h, h = SplitGhosts(g, w)
  PROVE  chunk' \in [Chunks -> ChunkType] /\ ListOK(h)'
<1> SUFFICES ASSUME NEW d, d = loc[w].ini, NEW n, n = loc[w].new, NEW c, c = chunk[d],
                    NEW v, v = loc[w].level, NEW t, t = Threshold(c)
             PROVE  chunk' \in [Chunks -> ChunkType] /\ ListOK(h)'
  OBVIOUS
<1>1. /\ pc[w] = "copy" /\ pc'[w] = "empty" /\ allocated' = allocated
      /\ d \in Chunks /\ On(g, v, d) /\ Mine(d) /\ d # n
      /\ n \in Chunks /\ n # Nil /\ g.lvl[n] = Nil /\ n < allocated
      /\ v \in Levels /\ c \in ChunkType
      /\ chunk'[d].data = c.data /\ chunk'[d].max = t
      /\ chunk'[d].next = n /\ chunk'[d].lock = "locked"
      /\ chunk'[n].data = MovedData(c.data) /\ chunk'[n].max = c.max
      /\ chunk'[n].next = c.next /\ chunk'[n].lock = "locked"
      /\ \A x \in Chunks \ {d, n} : chunk'[x] = chunk[x]
      /\ Rest(w, {"kv"})
  BY SplitCopyFacts
<1>2. /\ Sinks(g, h) /\ g \in Ghosts /\ h \in Ghosts
      /\ h.lvl[n] = v /\ h.low[n] = t /\ n \in h.chain /\ g.chain \subseteq h.chain
      /\ h.rank[n] < h.rank[d]
      /\ \A x \in Chunks \ {n} : /\ h.lvl[x] = g.lvl[x] /\ h.low[x] = g.low[x]
                                 /\ x \in h.chain <=> x \in g.chain
                                 /\ g.rank[x] < g.rank[d] => h.rank[x] < h.rank[n]
      /\ \A x, y \in Chunks \ {n} : g.rank[x] < g.rank[y] => h.rank[x] < h.rank[y]
      /\ g.low[d] < t /\ t < c.max /\ t \in NegInf .. MaxKey /\ t \in Int
      /\ c.max \in Int
      /\ MovedData(c.data) \in Datas
      /\ Fine(MovedData(c.data), t, c.max)
      /\ DataOK(h, MovedData(c.data), v) /\ DataOK(h, c.data, v)
  BY SMTT(30), SplitGhostFacts
<1>3. /\ ListInv(g) /\ ListOK(g) /\ WordsOK' /\ chunk \in [Chunks -> ChunkType] /\ w \in Warps
      /\ allocated \in Int /\ NegInf \in Int /\ PosInf \in Int /\ NegInf - 1 < t /\ t < PosInf
  BY <1>2, StepFacts, ConstantsAre DEF ListStep, ListInv, NegInf, PosInf
<1>4. Node(g, d) /\ Linked(g, d) /\ g.lvl[d] = v /\ ~IsZombie(c) /\ v # Nil
  BY <1>1, <1>3, NodeIs, OnIsLinked, LevelsAre DEF Mine, IsZombie
<1>5. chunk' \in [Chunks -> ChunkType]
  <2>1. \A x \in Chunks \ {d, n} : Same(x)
    BY <1>1 DEF Same
  <2>2. c.data \in Datas /\ c.max \in NegInf .. PosInf /\ c.next \in Chunks \cup {Nil}
    BY Zenon, <1>1, ChunkIs
  <2>3. t \in NegInf .. PosInf
    BY SMTT(30), <1>2, ConstantsAre DEF NegInf, PosInf
  <2>4. \A x \in {d, n} \cap Chunks : /\ chunk'[x].data \in Datas
                                      /\ chunk'[x].max \in NegInf .. PosInf
                                      /\ chunk'[x].next \in Chunks \cup {Nil}
    BY SMTT(30), <1>1, <1>2, <2>2, <2>3
  <2> QED BY <1>3, <2>1, <2>4, TypedPool
<1>6. /\ \A x \in Chunks : g.lvl[x] # Nil => x # n
      /\ \A x \in Chunks : h.lvl[x] # Nil => x = n \/ Linked(g, x)
      /\ \A x \in Chunks : \A l \in Levels : On(g, l, x) => On(h, l, x)
  BY <1>1, <1>2, LevelsAre DEF Linked, On
<1>7. ASSUME NEW l \in Levels
      PROVE  /\ h.lvl[l] = l /\ h.low[l] = NegInf - 1 /\ l \in h.chain
             /\ \E x \in Chunks : On(h, l, x) /\ chunk'[x].next = Nil
  <2>1. l \in Chunks /\ g.lvl[l] = l /\ g.low[l] = NegInf - 1 /\ l \in g.chain
    <3>1. l \in Chunks
      BY ConstantsAre DEF Levels, Chunks
    <3> QED BY <3>1, <1>3 DEF ListOK
  <2>2. h.lvl[l] = l /\ h.low[l] = NegInf - 1 /\ l \in h.chain
    BY <1>2, <1>6, <2>1, LevelsAre
  <2>3. PICK x \in Chunks : On(g, l, x) /\ chunk[x].next = Nil
    BY <1>3 DEF ListOK
  <2>4. CASE x = d
    <3>1. On(h, l, n) /\ chunk'[n].next = Nil
      BY <1>1, <1>2, <1>4, <2>3, <2>4 DEF On
    <3> QED BY SMTT(30), <1>1, <2>2, <3>1
  <2>5. CASE x # d
    <3>1. x # n /\ On(h, l, x)
      BY <1>6, <2>3, LevelsAre DEF On
    <3> QED BY <1>1, <2>2, <2>3, <2>5, <3>1
  <2> QED BY <2>4, <2>5
<1>8. ASSUME NEW x \in Chunks, x >= allocated'
      PROVE  h.lvl[x] = Nil /\ chunk'[x].lock = "unlocked"
  <2>1. x >= allocated /\ x \in Int
    BY <1>1, <1>8, LevelsAre
  <2>2. x # n
    BY <1>1, <1>3, <2>1
  <2>3. g.lvl[x] = Nil /\ chunk'[x].lock = "unlocked"
    BY <1>8, FreeStays
  <2> QED BY <1>2, <2>2, <2>3
<1>9. ASSUME NEW x \in Chunks, Linked(h, x)
      PROVE  Node(h, x)'
  <2>1. CASE x = n
    <3>1. h.low[n] \in NegInf - 1 .. PosInf
      BY <1>2, <1>3
    <3>2. ~IsZombie(chunk'[n])
      BY SMTT(30), <1>1 DEF IsZombie
    <3>3. DataOK(h, chunk'[n].data, h.lvl[n])
      BY <1>1, <1>2
    <3>4. c.next = Nil => chunk'[n].max = PosInf
      BY SMTT(30), <1>1, <1>4 DEF Node
    <3>5. c.next # Nil =>
            /\ On(h, v, c.next) /\ h.rank[c.next] < h.rank[n]
            /\ c.next \in h.chain /\ h.low[c.next] = c.max
      <4> SUFFICES ASSUME c.next # Nil
                   PROVE  /\ On(h, v, c.next) /\ h.rank[c.next] < h.rank[n]
                          /\ c.next \in h.chain /\ h.low[c.next] = c.max
        OBVIOUS
      <4>1. /\ On(g, v, c.next) /\ g.rank[c.next] < g.rank[d] /\ d \in g.chain
            /\ c.next \in g.chain /\ g.low[c.next] = c.max
        BY <1>4 DEF Node, EndOf
      <4>2. c.next \in Chunks /\ c.next # n
        BY SMTT(30), <1>1, <1>4, <4>1 DEF On
      <4> QED BY ZenonT(40), <1>1, <1>2, <1>6, <4>1, <4>2
    <3>6. Fine(chunk'[n].data, h.low[n], chunk'[n].max)
      BY SMTT(30), <1>1, <1>2
    <3> QED BY ZenonT(40), <2>1, <3>1, <3>2, <3>3, <3>4, <3>5, <3>6, <1>1, <1>2 DEF Node, EndOf
  <2>2. CASE x = d
    <3>1. h.low[d] \in NegInf - 1 .. PosInf /\ h.low[d] < t /\ h.lvl[d] = v /\ d \in h.chain
      BY ZenonT(40), <1>1, <1>2, <1>4 DEF Node
    <3>2. ~IsZombie(chunk'[d])
      BY SMTT(30), <1>1 DEF IsZombie
    <3>3. On(h, v, n)
      BY <1>1, <1>2 DEF On
    <3>4. \E u \in Warps : Busy(u, d)'
      <4>1. loc'[w].ini = d
        BY SMTT(30), <1>1, FieldsAre DEF Rest
      <4> QED BY <1>1, <1>3, <4>1 DEF Busy
    <3>5. /\ chunk'[d].next = n /\ n # Nil /\ n \in h.chain /\ h.rank[n] < h.rank[d]
          /\ h.low[n] = chunk'[d].max /\ h.low[d] < chunk'[d].max
          /\ DataOK(h, chunk'[d].data, h.lvl[d])
      BY SMTT(30), <3>1, <1>1, <1>2
    <3> QED BY ZenonT(40), <2>2, <3>1, <3>2, <3>3, <3>4, <3>5 DEF Node, EndOf
  <2>3. CASE x # n /\ x # d
    <3>1. Linked(g, x) /\ Node(g, x) /\ h.lvl[x] = g.lvl[x] /\ h.low[x] = g.low[x]
          /\ (x \in h.chain <=> x \in g.chain) /\ chunk'[x] = chunk[x] /\ g.lvl[x] \in Levels
      BY <1>1, <1>2, <1>3, <1>6, <1>9, <2>3, NodeIs, LinkedIs DEF Linked
    <3>2. DataOK(h, chunk[x].data, g.lvl[x])
      BY Zenon, <1>2, <3>1, DataKept DEF Node
    <3>3. chunk[x].next # Nil =>
            LET m == chunk[x].next
            IN  /\ m \in Chunks /\ On(h, g.lvl[x], m) /\ h.rank[m] < h.rank[x]
                /\ h.low[m] = g.low[m] /\ (m \in h.chain <=> m \in g.chain)
      <4> SUFFICES ASSUME NEW m, m = chunk[x].next, m # Nil
                   PROVE  /\ m \in Chunks /\ On(h, g.lvl[x], m) /\ h.rank[m] < h.rank[x]
                          /\ h.low[m] = g.low[m] /\ (m \in h.chain <=> m \in g.chain)
        OBVIOUS
      <4>1. On(g, g.lvl[x], m) /\ g.rank[m] < g.rank[x]
        BY <3>1 DEF Node
      <4>2. m \in Chunks /\ m # n
        BY <1>1, <3>1, <4>1, LevelsAre DEF On
      <4> QED BY <1>2, <1>6, <2>3, <3>1, <4>1, <4>2
    <3>4. Fine(chunk[x].data, g.low[x], chunk[x].max) \/ (\A u \in Warps : ~Busy(u, x))
            \/ \E u \in Warps : Busy(u, x)'
      <4>1. ~Busy(w, x)
        BY <1>1 DEF Busy
      <4> QED BY <4>1, OthersBusy
    <3> QED BY SMTT(30), <3>1, <3>2, <3>3, <3>4 DEF Node, EndOf
  <2> QED BY SMTT(30), <2>1, <2>2, <2>3
<1>10. ASSUME NEW x \in Chunks, NEW y \in Chunks, Linked(h, x), h.lvl[y] = h.lvl[x], x # y,
              ~IsZombie(chunk'[x]), ~IsZombie(chunk'[y])
       PROVE  chunk'[x].max <= h.low[y] \/ chunk'[y].max <= h.low[x]
  <2>1. ASSUME NEW z \in Chunks \ {d, n}, h.lvl[z] = v, ~IsZombie(chunk'[z])
        PROVE  /\ chunk'[z].max = chunk[z].max /\ h.low[z] = g.low[z]
               /\ chunk[z].max <= g.low[d] \/ c.max <= g.low[z]
               /\ chunk[z].max \in Int /\ g.low[z] \in Int
    <3>1. chunk'[z] = chunk[z] /\ g.lvl[z] = v /\ h.low[z] = g.low[z]
      BY <1>1, <1>2, <2>1
    <3>2. chunk[z].max <= g.low[d] \/ c.max <= g.low[z]
      BY SMTT(30), <1>1, <1>3, <1>4, <2>1, <3>1 DEF ListOK, Linked
    <3> QED BY SMTT(30), <1>2, <1>3, <3>1, <3>2, ChunkIs, GhostsAre
  <2>2. g.low[d] \in Int /\ h.low[d] = g.low[d] /\ h.lvl[d] = v
    BY <1>1, <1>2, <1>4, GhostsAre
  <2>3. CASE x \notin {d, n} /\ y \notin {d, n}
    <3>1. /\ Linked(g, x) /\ g.lvl[y] = g.lvl[x] /\ chunk'[x] = chunk[x] /\ chunk'[y] = chunk[y]
          /\ h.low[x] = g.low[x] /\ h.low[y] = g.low[y]
      BY SMTT(30), <1>1, <1>2, <1>10, <2>3 DEF Linked
    <3> QED BY SMTT(30), <1>3, <1>10, <3>1 DEF ListOK
  <2>4. CASE x \in {d, n} /\ y \in {d, n}
    BY SMTT(30), <1>1, <1>2, <1>10, <2>4
  <2>5. CASE x \in {d, n} /\ y \notin {d, n}
    BY SMTT(30), <1>1, <1>2, <1>10, <2>1, <2>2, <2>5
  <2>6. CASE x \notin {d, n} /\ y \in {d, n}
    BY <1>1, <1>2, <1>10, <2>1, <2>2, <2>6
  <2> QED BY SMTT(30), <2>3, <2>4, <2>5, <2>6
<1> QED BY <1>5, <1>7, <1>8, <1>9, <1>10 DEF ListOK, On, Linked

-----------------------------------------------------------------------------
(* A removal lowers the maximum of its chunk. *)

\* The entries that stay in a chunk and those of another that may merge with it fit in one.
LEMMA HalvesFit ==
  ASSUME NEW m \in Nat, NEW n \in Nat, m <= DSize, n <= MergeThreshold
  PROVE  m \div 2 + 1 + n <= DSize
<1>1. /\ DSize \in Nat /\ DSize >= 3 /\ MergeThreshold = DSize \div 3
  BY ConstantsAre DEF MergeThreshold
<1> DEFINE p == m \div 2
           q == DSize \div 3
<1>2. p \in Nat /\ 2 * p <= m
  OBVIOUS
<1>3. q \in Nat /\ 3 * q <= DSize
  BY <1>1
<1> HIDE DEF p, q
<1>4. 2 * p <= DSize /\ 3 * q <= DSize
  BY <1>1, <1>2, <1>3
<1>5. p + 1 + q <= DSize
  <2>1. CASE DSize >= 6
    BY <1>1, <1>2, <1>3, <1>4, <2>1
  <2>2. CASE DSize = 3
    BY <1>1, <1>2, <1>3, <1>4, <2>2
  <2>3. CASE DSize = 4
    BY <1>1, <1>2, <1>3, <1>4, <2>3
  <2>4. CASE DSize = 5
    BY <1>1, <1>2, <1>3, <1>4, <2>4
  <2> QED BY <1>1, <2>1, <2>2, <2>3, <2>4
<1> QED BY <1>1, <1>2, <1>3, <1>5 DEF p, q

\* The splitting warp is about to empty the lanes it has copied.
LEMMA SplitCopyOwn ==
  ASSUME NEW g, NEW w, ListStep(g, w), SplitCopy(w), NEW h, h = SplitGhosts(g, w)
  PROVE  WarpOK(h, w)'
<1> SUFFICES ASSUME NEW d, d = loc[w].ini, NEW n, n = loc[w].new, NEW c, c = chunk[d],
                    NEW v, v = loc[w].level, NEW t, t = Threshold(c),
                    NEW e, e = loc[w].enc
             PROVE  WarpOK(h, w)'
  OBVIOUS
<1>1. /\ pc[w] = "copy" /\ pc'[w] = "empty" /\ allocated' = allocated
      /\ d \in Chunks /\ On(g, v, d) /\ Mine(d) /\ Holds(w, d) /\ d # n
      /\ n \in Chunks /\ n # Nil /\ g.lvl[n] = Nil /\ n < allocated
      /\ v \in Levels /\ c \in ChunkType
      /\ g.low[d] \in Int /\ Fine(c.data, g.low[d], c.max) /\ Occ(c.data) >= 3
      /\ chunk'[d].data = c.data /\ chunk'[d].max = t
      /\ chunk'[d].next = n /\ chunk'[d].lock = "locked"
      /\ chunk'[n].data = MovedData(c.data) /\ chunk'[n].max = c.max
      /\ chunk'[n].next = c.next /\ chunk'[n].lock = "locked"
      /\ \A x \in Chunks \ {d, n} : chunk'[x] = chunk[x]
      /\ Rest(w, {"kv"}) /\ loc'[w].kv = c
  BY SplitCopyFacts
<1>2. /\ Sinks(g, h) /\ h.lvl[n] = v /\ h.low[d] = g.low[d]
  <2>1. /\ Sinks(g, h) /\ h.lvl[n] = v
        /\ \A x \in Chunks \ {n} : h.lvl[x] = g.lvl[x] /\ h.low[x] = g.low[x]
    BY SplitGhostFacts
  <2> QED BY <1>1, <2>1
<1>3. /\ pc[w] \notin {"take", "return"} /\ pc[w] \notin OwnLabels /\ pc[w] \in SplitLabels
      /\ pc[w] \in InsertSplits /\ pc[w] \in EncLocked
  BY <1>1 DEF OwnLabels, SearchLabels, UnlinkLabels, SplitLabels, InsertSplits, EncLocked
<1>4. /\ LevelOK(g, w) /\ SplitOK(g, w) /\ MergeOK(g, w) /\ Control(w) /\ loc[w].top \in Levels
      /\ loc[w].key \in 1 .. MaxKey /\ loc[w].key \in Int /\ loc[w].val \in Int
      /\ e \in Chunks /\ Linked(g, e)
  BY Zenon, <1>3, LevelFacts
<1>5. Mine(e) /\ e # n /\ d # Nil
  BY Zenon, <1>1, <1>3, <1>4, LevelsAre DEF LevelOK, Linked
<1>6. Inserting(w) => d = e
  BY <1>1, <1>4 DEF Control
<1>7. ~Inserting(w) => d = loc[w].nxt /\ d # e
  <2> SUFFICES ASSUME ~Inserting(w) PROVE d = loc[w].nxt /\ d # e
    OBVIOUS
  <2>1. d = loc[w].nxt
    BY <1>1, <1>4 DEF Control
  <2>2. Differs(w, d) /\ HasNxt(w)
    BY Zenon, <1>1, <1>3, <1>5, <2>1, HeldDiffer DEF HasNxt
  <2> QED BY <2>1, <2>2 DEF Differs
<1>8. /\ loc'[w].kind = loc[w].kind /\ loc'[w].key = loc[w].key
      /\ loc'[w].route = loc[w].route /\ loc'[w].level = v
      /\ loc'[w].enc = e /\ loc'[w].bottom = loc[w].bottom /\ loc'[w].ini = d
      /\ loc'[w].val = loc[w].val /\ loc'[w].top = loc[w].top
      /\ loc'[w].nxt = loc[w].nxt /\ loc'[w].new = n
  BY Zenon, <1>1, FieldsAre DEF Rest
<1>9. /\ \A x \in Levels : From(h, x, loc[w].route[x], loc[w].key)
      /\ From(h, v, e, loc[w].key) /\ On(h, v, d)
      /\ loc[w].bottom # Nil => From(h, 0, loc[w].bottom, loc[w].key)
      /\ loc[w].nxt # Nil => On(h, v, loc[w].nxt)
      /\ Inserting(w) /\ v > 0 => From(h, v - 1, loc[w].val, loc[w].key)
  BY <1>1, <1>2, <1>4, FromKept, OnKept, LevelsAre DEF LevelOK
<1>10. Inserting(w)' <=> Inserting(w)
  BY Zenon, <1>8 DEF Inserting
<1>11. chunk'[e].lock = "locked"
  BY Zenon, <1>1, <1>4, <1>5 DEF Mine
<1>12. LevelOK(h, w)'
  BY Zenon, <1>1, <1>8, <1>9, <1>10, <1>11 DEF LevelOK, Mine, NextLabels, SplitLabels
<1>13. NextOK(h, w)'
  <2>1. On(h, v, n)
    BY Zenon, <1>1, <1>2 DEF On
  <2> QED BY Zenon, <1>1, <1>8, <2>1 DEF NextOK, Mine
<1>14. SplitOK(h, w)'
  <2>1. Inserting(w) => Full(c.data) /\ ~HasKey(c.data, loc[w].key) /\ loc[w].key <= c.max
    BY Zenon, <1>3, <1>4, <1>6 DEF SplitOK
  <2>2. pc'[w] \notin InsertSplits
    BY SMTT(30), <1>1 DEF InsertSplits, NextLabels
  <2> QED BY <1>1, <1>2, <1>8, <1>10, <2>1, <2>2 DEF SplitOK
<1>15. MergeOK(h, w)'
  <2> SUFFICES ASSUME ~Inserting(w) PROVE MergeOK(h, w)'
    BY SMTT(30), <1>1, <1>10 DEF MergeOK, MergeTail
  <2>1. /\ HasKey(chunk[e].data, loc[w].key) /\ Occ(chunk[e].data) - 1 <= MergeThreshold
        /\ chunk[e].next # Nil /\ loc[w].nxt = chunk[e].next
    BY Zenon, <1>1, <1>3, <1>4, <1>7 DEF MergeOK, Merging, MergeTail
  <2>2. chunk'[e] = chunk[e]
    BY <1>1, <1>4, <1>5, <1>7
  <2>3. First(c.data) + Occ(chunk[e].data) - 1 <= DSize
    <3> DEFINE m == Occ(c.data)
               a == Occ(chunk[e].data)
    <3>1. m \in 0 .. DSize /\ a \in 0 .. DSize
      BY OccBound
    <3>2. a > 0
      <4>1. \E i \in Lanes : chunk[e].data[i].k # PosInf
        BY <1>4, <2>1, ConstantsAre DEF HasKey, PosInf
      <4> QED BY <4>1, OccBound
    <3>3. First(c.data) = m \div 2 + 1
      BY DEF First
    <3>4. a - 1 <= MergeThreshold
      BY <2>1
    <3> HIDE DEF m, a
    <3>5. m \in Nat /\ a - 1 \in Nat /\ m <= DSize
      BY <3>1, <3>2, ConstantsAre
    <3>6. m \div 2 + 1 + (a - 1) <= DSize
      BY <3>4, <3>5, HalvesFit
    <3>7. m \div 2 \in Nat
      BY <3>5, DivisionExists
    <3>8. First(c.data) + a - 1 <= DSize
      BY Zenon, <3>3, <3>5, <3>6, <3>7, ConstantsAre
    <3> QED BY <3>8 DEF a
  <2>4. pc'[w] \notin MergeTail /\ pc'[w] \notin InsertSplits
    BY <1>1 DEF MergeTail, InsertSplits, NextLabels
  <2> QED BY ZenonT(40), <1>1, <1>7, <1>8, <1>10, <2>1, <2>2, <2>3, <2>4 DEF MergeOK
<1>16. /\ pc'[w] \notin {"take", "return"} /\ pc'[w] \notin OwnLabels /\ pc'[w] # "shift"
       /\ pc'[w] \notin {"lowerMax", "unshift"} /\ pc'[w] \notin DownLabels \cup OwnLabels
  BY <1>1 DEF OwnLabels, SearchLabels, UnlinkLabels, DownLabels
<1> QED BY <1>4, <1>8, <1>12, <1>13, <1>14, <1>15, <1>16, LevelBuilt, Elsewhere

\* Two chunks of a level that are both alive.
LEMMA LiveApart ==
  ASSUME NEW g, ListInv(g), NEW c, Linked(g, c), ~IsZombie(chunk[c])
  PROVE  /\ c \in Chunks /\ g.low[c] \in Int /\ chunk[c].max \in Int
         /\ g.low[c] < chunk[c].max /\ c \in g.chain
         /\ \A d \in Chunks : g.lvl[d] = g.lvl[c] /\ d # c /\ ~IsZombie(chunk[d]) =>
              /\ g.low[d] \in Int /\ chunk[d].max \in Int /\ g.low[d] < chunk[d].max
              /\ chunk[d].max <= g.low[c] \/ chunk[c].max <= g.low[d]
<1>1. ListOK(g) /\ g \in Ghosts
  BY DEF ListInv
<1>2. ASSUME NEW x, Linked(g, x), ~IsZombie(chunk[x])
      PROVE  /\ x \in Chunks /\ g.low[x] \in Int /\ chunk[x].max \in Int
             /\ g.low[x] < chunk[x].max /\ x \in g.chain
  BY <1>1, <1>2, NodeIs, LinkedIs, GhostsAre, ChunkIs DEF Node
<1>3. \A d \in Chunks : g.lvl[d] = g.lvl[c] => Linked(g, d)
  BY DEF Linked
<1> QED BY <1>1, <1>2, <1>3 DEF ListOK

\* A lower maximum m of a chunk of level l: whatever began between it and the old
\* maximum begins at m.
Sunk(g, l, m, hi) ==
  [lvl |-> g.lvl, chain |-> g.chain, rank |-> g.rank,
   low |-> [x \in Chunks |-> IF g.lvl[x] = l /\ m < g.low[x] /\ g.low[x] <= hi THEN m
                             ELSE g.low[x]]]

\* The ghosts with the lower ends of a level in (m, hi] sunk to m.
LEMMA SunkIs ==
  ASSUME NEW g \in Ghosts, NEW l \in Levels, NEW m \in Int, NEW hi \in Int,
         NEW h, h = Sunk(g, l, m, hi)
  PROVE  /\ h \in Ghosts /\ Sinks(g, h)
         /\ h.lvl = g.lvl /\ h.chain = g.chain /\ h.rank = g.rank
         /\ \A x \in Chunks : h.low[x] = IF g.lvl[x] = l /\ m < g.low[x] /\ g.low[x] <= hi THEN m
                                         ELSE g.low[x]
<1>1. /\ g.lvl \in [Chunks -> Levels \cup {Nil}] /\ g.low \in [Chunks -> Int]
      /\ g.chain \in SUBSET Chunks /\ g.rank \in [Chunks -> Nat]
  BY DEF Ghosts
<1>2. /\ h.lvl = g.lvl /\ h.chain = g.chain /\ h.rank = g.rank
      /\ \A x \in Chunks : h.low[x] = IF g.lvl[x] = l /\ m < g.low[x] /\ g.low[x] <= hi THEN m
                                      ELSE g.low[x]
  BY DEF Sunk
<1>3. h.low \in [Chunks -> Int]
  BY <1>1 DEF Sunk
<1>4. h \in Ghosts
  BY <1>1, <1>2, <1>3 DEF Sunk, Ghosts
<1>5. \A x \in Chunks : h.low[x] <= g.low[x]
  BY <1>1, <1>2
<1> QED BY <1>2, <1>4, <1>5 DEF Sinks

LowerGhosts(g, w) ==
  Sunk(g, loc[w].level, loc[w].min, chunk[loc[w].enc].max)

\* What lowering the maximum after its key is removed does.
LEMMA LowerMaxFacts ==
  ASSUME NEW g, NEW w, ListStep(g, w), LowerMax(w), NEW h, h = LowerGhosts(g, w),
         NEW e, e = loc[w].enc, NEW v, v = loc[w].level, NEW m, m = loc[w].min,
         NEW hi, hi = chunk[e].max
  PROVE  /\ pc[w] = "lowerMax" /\ pc'[w] = "unshift" /\ loc' = loc /\ allocated' = allocated
         /\ e \in Chunks /\ Linked(g, e) /\ g.lvl[e] = v /\ v \in Levels /\ Mine(e)
         /\ Holds(w, e) /\ ~IsZombie(chunk[e]) /\ chunk[e].next # Nil
         /\ m \in NegInf .. MaxKey /\ m \in Int /\ hi \in Int /\ g.low[e] \in Int
         /\ g.low[e] < m /\ m < hi
         /\ Fine(Left(chunk[e], loc[w]), g.low[e], m)
         /\ chunk'[e].data = chunk[e].data /\ chunk'[e].max = m
         /\ chunk'[e].next = chunk[e].next /\ chunk'[e].lock = "locked"
         /\ \A c \in Chunks \ {e} : chunk'[c] = chunk[c]
         /\ g \in Ghosts /\ h \in Ghosts /\ Sinks(g, h)
         /\ h.lvl = g.lvl /\ h.chain = g.chain /\ h.rank = g.rank
         /\ \A x \in Chunks : h.low[x] = IF g.lvl[x] = v /\ m < g.low[x] /\ g.low[x] <= hi THEN m
                                         ELSE g.low[x]
<1>1. /\ pc[w] = "lowerMax" /\ loc' = loc /\ allocated' = allocated
      /\ chunk' = [chunk EXCEPT ![e].max = m] /\ pc' = [pc EXCEPT ![w] = "unshift"]
  BY DEF LowerMax, At, GoTo
<1>2. /\ pc[w] \notin {"take", "return"} /\ pc[w] \notin OwnLabels /\ pc[w] \in EncLocked
  BY <1>1 DEF OwnLabels, SearchLabels, UnlinkLabels, EncLocked
<1>3. /\ LevelOK(g, w) /\ EraseOK(g, w) /\ v \in Levels /\ e \in Chunks /\ Linked(g, e)
      /\ g.lvl[e] = v /\ g \in Ghosts /\ WordsOK /\ RegistersOK /\ w \in Warps
      /\ chunk[e] \in ChunkType
  BY <1>2, LevelFacts, StepFacts
<1>4. Mine(e) /\ ~IsZombie(chunk[e])
  BY Zenon, <1>2, <1>3 DEF LevelOK, Mine, IsZombie
<1>5. /\ chunk[e].next # Nil /\ m \in NegInf .. MaxKey /\ g.low[e] < m /\ m < hi
      /\ Fine(Left(chunk[e], loc[w]), g.low[e], m)
  BY <1>1, <1>3 DEF EraseOK
<1>6. m \in Int /\ hi \in Int /\ g.low[e] \in Int
  BY <1>3, <1>5, ChunkIs, GhostsAre, ConstantsAre DEF NegInf
<1>7. Holds(w, e)
  BY Zenon, <1>1, <1>3, LevelsAre DEF Holds, HasEnc, LevelLabels
<1>8. /\ chunk'[e].data = chunk[e].data /\ chunk'[e].max = m
      /\ chunk'[e].next = chunk[e].next /\ chunk'[e].lock = "locked"
      /\ \A c \in Chunks \ {e} : chunk'[c] = chunk[c]
  BY <1>1, <1>3, <1>4 DEF WordsOK, Words, Mine
<1>9. pc'[w] = "unshift"
  BY Zenon, <1>1, <1>3 DEF RegistersOK
<1>10. /\ h \in Ghosts /\ Sinks(g, h)
       /\ h.lvl = g.lvl /\ h.chain = g.chain /\ h.rank = g.rank
       /\ \A x \in Chunks : h.low[x] = IF g.lvl[x] = v /\ m < g.low[x] /\ g.low[x] <= hi THEN m
                                       ELSE g.low[x]
  <2>1. h = Sunk(g, v, m, hi)
    BY DEF LowerGhosts
  <2>2. g \in Ghosts /\ v \in Levels
    BY <1>3
  <2> QED BY <1>6, <2>1, <2>2, SunkIs
<1> QED BY <1>1, <1>3, <1>4, <1>5, <1>6, <1>7, <1>8, <1>9, <1>10

\* Lowering the maximum keeps the other warps in order.
LEMMA LowerMaxSteady ==
  ASSUME NEW g, NEW w, ListStep(g, w), LowerMax(w), NEW u \in Warps, u # w,
         NEW h, h = LowerGhosts(g, w)
  PROVE  Steady(g, h, u)
<1> SUFFICES ASSUME NEW e, e = loc[w].enc, NEW v, v = loc[w].level, NEW m, m = loc[w].min,
                    NEW hi, hi = chunk[e].max
             PROVE  Steady(g, h, u)
  OBVIOUS
<1>1. /\ e \in Chunks /\ Linked(g, e) /\ g.lvl[e] = v /\ Mine(e) /\ Holds(w, e)
      /\ ~IsZombie(chunk[e]) /\ m \in Int /\ hi \in Int /\ g.low[e] \in Int
      /\ g.low[e] < m /\ m < hi
      /\ Sinks(g, h) /\ h.lvl = g.lvl /\ h.chain = g.chain /\ h.rank = g.rank
      /\ \A x \in Chunks : h.low[x] = IF g.lvl[x] = v /\ m < g.low[x] /\ g.low[x] <= hi THEN m
                                      ELSE g.low[x]
  BY LowerMaxFacts
<1>2. LocksExclusive /\ ListInv(g) /\ w \in Warps
  BY DEF ListStep, ExclusiveInv
<1>3. \A c \in Chunks : Mine(c) /\ Holds(u, c) => c # e
  BY <1>1, <1>2 DEF LocksExclusive, Mine
<1>4. ASSUME NEW c \in Chunks, NEW d \in Chunks, Mine(c), Holds(u, c), Linked(g, c),
             Follows(g, g.lvl[c], c, d)
      PROVE  d \in h.chain /\ h.low[d] = g.low[d] /\ h.rank[d] < h.rank[c]
  <2>1. /\ g.lvl[d] = g.lvl[c] /\ d \in g.chain /\ g.low[d] = chunk[c].max
        /\ g.rank[d] < g.rank[c] /\ c # e /\ ~IsZombie(chunk[c])
    BY <1>3, <1>4 DEF Follows, On, Mine, IsZombie
  <2>2. g.lvl[c] = v =>
          /\ g.low[c] \in Int /\ chunk[c].max \in Int /\ g.low[c] < chunk[c].max
          /\ chunk[c].max <= g.low[e] \/ hi <= g.low[c]
    BY <1>1, <1>2, <2>1, LiveApart
  <2>3. ~(g.lvl[c] = v /\ m < chunk[c].max /\ chunk[c].max <= hi)
    BY <1>1, <2>2
  <2>4. ~(g.lvl[d] = v /\ m < g.low[d] /\ g.low[d] <= hi)
    BY <2>1, <2>3
  <2> QED BY <1>1, <2>1, <2>4
<1>5. \A c \in Chunks : Mine(c) /\ Holds(u, c) /\ g.lvl[c] = Nil => h.lvl[c] = Nil
  BY <1>1
<1> QED BY <1>1, <1>4, <1>5, GhostSteady

\* LowerMax keeps the list in order.
LEMMA LowerMaxList ==
  ASSUME NEW g, NEW w, ListStep(g, w), LowerMax(w), NEW h, h = LowerGhosts(g, w)
  PROVE  chunk' \in [Chunks -> ChunkType] /\ ListOK(h)'
<1> SUFFICES ASSUME NEW e, e = loc[w].enc, NEW v, v = loc[w].level, NEW m, m = loc[w].min,
                    NEW hi, hi = chunk[e].max
             PROVE  chunk' \in [Chunks -> ChunkType] /\ ListOK(h)'
  OBVIOUS
<1>1. /\ pc[w] = "lowerMax" /\ pc'[w] = "unshift" /\ loc' = loc /\ allocated' = allocated
      /\ e \in Chunks /\ Linked(g, e) /\ g.lvl[e] = v /\ v \in Levels /\ Mine(e)
      /\ ~IsZombie(chunk[e]) /\ chunk[e].next # Nil
      /\ m \in NegInf .. MaxKey /\ m \in Int /\ hi \in Int /\ g.low[e] \in Int
      /\ g.low[e] < m /\ m < hi
      /\ chunk'[e].data = chunk[e].data /\ chunk'[e].max = m
      /\ chunk'[e].next = chunk[e].next /\ chunk'[e].lock = "locked"
      /\ \A c \in Chunks \ {e} : chunk'[c] = chunk[c]
      /\ g \in Ghosts /\ h \in Ghosts /\ Sinks(g, h)
      /\ h.lvl = g.lvl /\ h.chain = g.chain /\ h.rank = g.rank
      /\ \A x \in Chunks : h.low[x] = IF g.lvl[x] = v /\ m < g.low[x] /\ g.low[x] <= hi THEN m
                                      ELSE g.low[x]
  BY LowerMaxFacts
<1>2. /\ ListInv(g) /\ ListOK(g) /\ WordsOK' /\ chunk \in [Chunks -> ChunkType] /\ w \in Warps
      /\ NegInf \in Int /\ PosInf \in Int /\ NegInf - 1 < m /\ m < PosInf
  <2>1. /\ ListInv(g) /\ ListOK(g) /\ WordsOK' /\ chunk \in [Chunks -> ChunkType] /\ w \in Warps
    BY StepFacts DEF ListStep
  <2>2. NegInf \in Int /\ PosInf \in Int /\ NegInf - 1 < m /\ m < PosInf
    BY <1>1, ConstantsAre DEF NegInf, PosInf
  <2> QED BY <2>1, <2>2
<1>3. /\ h.low[e] = g.low[e] /\ Node(g, e)
      /\ \A x \in Chunks : g.low[x] \in Int /\ h.low[x] \in Int /\ h.low[x] <= g.low[x]
  BY <1>1, <1>2, NodeIs, GhostsAre
<1>4. chunk' \in [Chunks -> ChunkType]
  <2>1. \A x \in Chunks \ {e} : Same(x)
    BY <1>1 DEF Same
  <2>2. chunk[e].data \in Datas /\ chunk[e].next \in Chunks \cup {Nil}
    BY <1>1, <1>2, ChunkIs
  <2>3. m \in NegInf .. PosInf
    BY <1>1, ConstantsAre DEF NegInf, PosInf
  <2>4. \A x \in {e} \cap Chunks : /\ chunk'[x].data \in Datas
                                   /\ chunk'[x].max \in NegInf .. PosInf
                                   /\ chunk'[x].next \in Chunks \cup {Nil}
    BY <1>1, <2>2, <2>3
  <2> QED BY <1>2, <2>1, <2>4, TypedPool
<1>5. ASSUME NEW l \in Levels
      PROVE  /\ h.lvl[l] = l /\ h.low[l] = NegInf - 1 /\ l \in h.chain
             /\ \E x \in Chunks : On(h, l, x) /\ chunk'[x].next = Nil
  <2>1. l \in Chunks /\ g.lvl[l] = l /\ g.low[l] = NegInf - 1 /\ l \in g.chain
    <3>1. l \in Chunks
      BY ConstantsAre DEF Levels, Chunks
    <3> QED BY <3>1, <1>2 DEF ListOK
  <2>2. h.low[l] = NegInf - 1 /\ l \in h.chain
    BY <1>1, <1>2, <2>1
  <2>3. PICK x \in Chunks : On(g, l, x) /\ chunk[x].next = Nil
    BY <1>2 DEF ListOK
  <2>4. On(h, l, x) /\ chunk'[x].next = Nil
    BY <1>1, <2>3 DEF On
  <2> QED BY <1>1, <2>1, <2>2, <2>4
<1>6. \A x \in Chunks : x >= allocated' => h.lvl[x] = Nil /\ chunk'[x].lock = "unlocked"
  BY <1>1, FreeStays
<1>7. ASSUME NEW x \in Chunks, g.lvl[x] = v, x # e, ~IsZombie(chunk[x])
      PROVE  /\ g.low[x] \in Int /\ chunk[x].max \in Int /\ g.low[x] < chunk[x].max
             /\ chunk[x].max <= g.low[e] \/ hi <= g.low[x]
             /\ ~(m < chunk[x].max /\ chunk[x].max <= hi)
  <2>1. /\ g.low[x] \in Int /\ chunk[x].max \in Int /\ g.low[x] < chunk[x].max
        /\ chunk[x].max <= g.low[e] \/ hi <= g.low[x]
    BY <1>1, <1>2, <1>7, LiveApart
  <2> QED BY <1>1, <2>1
<1>8. ASSUME NEW x \in Chunks, Linked(h, x)
      PROVE  Node(h, x)'
  <2>1. /\ Linked(g, x) /\ Node(g, x) /\ g.lvl[x] \in Levels /\ chunk'[x].data = chunk[x].data
        /\ chunk'[x].next = chunk[x].next /\ (IsZombie(chunk'[x]) <=> IsZombie(chunk[x]))
        /\ (x # e => chunk'[x] = chunk[x])
    <3>1. Linked(g, x) /\ Node(g, x) /\ g.lvl[x] \in Levels
      BY <1>1, <1>2, <1>8, NodeIs, LinkedIs DEF Linked
    <3> QED BY <3>1, <1>1 DEF IsZombie
  <2>2. h.low[x] \in NegInf - 1 .. PosInf
    BY <1>1, <1>2, <2>1 DEF Node
  <2>3. DataOK(h, chunk[x].data, g.lvl[x])
    BY <1>1, <2>1, DataKept DEF Node
  <2>4. chunk[x].next = Nil => ~IsZombie(chunk[x]) /\ chunk'[x].max = PosInf
    BY <1>1, <2>1 DEF Node
  <2>5. ASSUME NEW n, n = chunk[x].next, n # Nil
        PROVE  /\ On(h, h.lvl[x], n) /\ h.rank[n] < h.rank[x]
               /\ x \in h.chain => n \in h.chain /\ h.low[n] = EndOf(h, x)'
               /\ IsZombie(chunk[x]) => h.low[n] <= h.low[x]
    <3>1. /\ On(g, g.lvl[x], n) /\ g.rank[n] < g.rank[x] /\ n \in Chunks /\ g.lvl[n] = g.lvl[x]
          /\ x \in g.chain => n \in g.chain /\ g.low[n] = EndOf(g, x)
          /\ IsZombie(chunk[x]) => g.low[n] <= g.low[x]
      BY <2>1, <2>5 DEF Node, On
    <3>2. IsZombie(chunk[x]) => h.low[n] <= h.low[x]
      BY <1>1, <1>3, <3>1
    <3>3. ASSUME x \in g.chain PROVE h.low[n] = EndOf(h, x)'
      <4>1. g.low[n] = EndOf(g, x)
        BY <3>1, <3>3
      <4>2. CASE IsZombie(chunk[x])
        BY <1>1, <2>1, <3>1, <4>1, <4>2 DEF EndOf
      <4>3. CASE x = e
        <5>1. g.low[n] = hi /\ ~IsZombie(chunk'[x]) /\ chunk'[x].max = m
          BY <1>1, <2>1, <4>1, <4>3 DEF EndOf
        <5> QED BY <1>1, <3>1, <4>3, <5>1 DEF EndOf
      <4>4. CASE x # e /\ ~IsZombie(chunk[x])
        <5>1. g.low[n] = chunk[x].max /\ ~IsZombie(chunk'[x]) /\ chunk'[x].max = chunk[x].max
          BY Zenon, <2>1, <4>1, <4>4 DEF EndOf
        <5>2. h.low[n] = g.low[n]
          BY <1>1, <1>7, <3>1, <4>4, <5>1
        <5> QED BY <5>1, <5>2 DEF EndOf
      <4> QED BY <4>2, <4>3, <4>4
    <3> QED BY <1>1, <3>1, <3>2, <3>3 DEF On
  <2>6. ASSUME ~IsZombie(chunk[x])
        PROVE  /\ x \in h.chain /\ h.low[x] < chunk'[x].max
               /\ Fine(chunk'[x].data, h.low[x], chunk'[x].max) \/ \E u \in Warps : Busy(u, x)'
    <3>1. CASE x = e
      <4>1. Busy(w, x)'
        BY <1>1, <3>1 DEF Busy
      <4> QED BY ZenonT(40), <1>1, <1>2, <1>3, <2>1, <2>6, <3>1, <4>1 DEF Node
    <3>2. CASE x # e
      <4>1. x \in g.chain /\ g.low[x] < chunk[x].max /\ chunk[x].max \in Int
        BY <2>1, <2>6, <1>2, LiveApart
      <4>2. Fine(chunk[x].data, g.low[x], chunk[x].max) \/ \E u \in Warps : Busy(u, x)
        BY <2>1, <2>6 DEF Node
      <4>3. CASE Fine(chunk[x].data, g.low[x], chunk[x].max)
        <5>1. chunk[x].data \in Datas
          BY <1>2, ChunkIs
        <5>2. Fine(chunk[x].data, h.low[x], chunk[x].max)
          BY Zenon, <1>3, <4>1, <4>3, <5>1, FineBelow
        <5> QED BY <1>1, <1>3, <2>1, <3>2, <4>1, <5>2
      <4>4. CASE \E u \in Warps : Busy(u, x)
        <5>1. ~Busy(w, x)
          BY <1>1, <3>2 DEF Busy
        <5>2. \E u \in Warps : Busy(u, x)'
          BY <4>4, <5>1, OthersBusy
        <5> QED BY <1>1, <1>3, <2>1, <3>2, <4>1, <5>2
      <4> QED BY <4>2, <4>3, <4>4
    <3> QED BY SMTT(30), <3>1, <3>2
  <2> QED BY <1>1, <2>1, <2>2, <2>3, <2>4, <2>5, <2>6 DEF Node
<1>9. ASSUME NEW x \in Chunks, NEW y \in Chunks, Linked(h, x), h.lvl[y] = h.lvl[x], x # y,
             ~IsZombie(chunk'[x]), ~IsZombie(chunk'[y])
      PROVE  chunk'[x].max <= h.low[y]
               \/ chunk'[y].max <= h.low[x]
  <2>1. /\ Linked(g, x) /\ g.lvl[y] = g.lvl[x] /\ ~IsZombie(chunk[x]) /\ ~IsZombie(chunk[y])
    BY <1>1, <1>9 DEF Linked, IsZombie
  <2>2. /\ chunk[x].max <= g.low[y] \/ chunk[y].max <= g.low[x]
        /\ chunk[x].max \in Int /\ chunk[y].max \in Int
    BY Zenon, <1>2, <1>9, <2>1, LiveApart
  <2>3. CASE x = e
    BY <1>1, <1>3, <1>7, <1>9, <2>1, <2>2, <2>3
  <2>4. CASE y = e
    BY <1>1, <1>3, <1>7, <1>9, <2>1, <2>2, <2>4
  <2>5. CASE x # e /\ y # e /\ g.lvl[x] # v
    BY <1>1, <1>9, <2>1, <2>2, <2>5
  <2>6. CASE x # e /\ y # e /\ g.lvl[x] = v
    <3>1. chunk'[x].max = chunk[x].max /\ chunk'[y].max = chunk[y].max
      BY Zenon, <1>1, <2>6
    <3>2. chunk[x].max <= g.low[y] => chunk[x].max <= h.low[y]
      BY <1>1, <1>3, <1>7, <2>1, <2>2, <2>6
    <3>3. chunk[y].max <= g.low[x] => chunk[y].max <= h.low[x]
      BY <1>1, <1>3, <1>7, <2>1, <2>2, <2>6
    <3> QED BY <2>2, <3>1, <3>2, <3>3
  <2> QED BY <2>3, <2>4, <2>5, <2>6
<1> QED BY <1>4, <1>5, <1>6, <1>8, <1>9 DEF ListOK, On, Linked

\* What stays true of a level's registers when the keys of chunks begin further down.
LEMMA LevelSinks ==
  ASSUME NEW g, NEW h, NEW w, ListStep(g, w), Sinks(g, h), LevelOK(g, w), loc[w].key \in Int
  PROVE  LET r == loc[w]
         IN  /\ \A x \in Levels : From(h, x, r.route[x], r.key)
             /\ r.level \in Levels
             /\ From(h, r.level, r.enc, r.key)
             /\ r.bottom # Nil => From(h, 0, r.bottom, r.key)
             /\ r.nxt # Nil => On(h, r.level, r.nxt)
             /\ Inserting(w) /\ r.level > 0 => From(h, r.level - 1, r.val, r.key)
BY FromKept, OnKept, LevelsAre DEF LevelOK

\* LowerMax keeps its warp in order.
LEMMA LowerMaxOwn ==
  ASSUME NEW g, NEW w, ListStep(g, w), LowerMax(w), NEW h, h = LowerGhosts(g, w)
  PROVE  WarpOK(h, w)'
<1> SUFFICES ASSUME NEW e, e = loc[w].enc, NEW v, v = loc[w].level, NEW m, m = loc[w].min,
                    NEW hi, hi = chunk[e].max
             PROVE  WarpOK(h, w)'
  OBVIOUS
<1>1. /\ pc[w] = "lowerMax" /\ pc'[w] = "unshift" /\ loc' = loc /\ allocated' = allocated
      /\ e \in Chunks /\ v \in Levels
      /\ g.low[e] < m /\ Fine(Left(chunk[e], loc[w]), g.low[e], m) /\ g.low[e] \in Int
      /\ m \in Int
      /\ chunk'[e].data = chunk[e].data /\ chunk'[e].max = m /\ chunk'[e].lock = "locked"
      /\ g \in Ghosts /\ h \in Ghosts /\ Sinks(g, h)
      /\ \A x \in Chunks : h.low[x] = IF g.lvl[x] = v /\ m < g.low[x] /\ g.low[x] <= hi THEN m
                                      ELSE g.low[x]
  BY LowerMaxFacts
<1>2. pc[w] \notin {"take", "return"} /\ pc[w] \notin OwnLabels
  BY <1>1 DEF OwnLabels, SearchLabels, UnlinkLabels
<1>3. /\ LevelOK(g, w) /\ EraseOK(g, w) /\ loc[w].top \in Levels
      /\ loc[w].key \in 1 .. MaxKey /\ loc[w].key \in Int /\ loc[w].val \in Int
  BY Zenon, <1>2, LevelFacts
<1>4. LevelOK(h, w)'
  <2>1. LET r == loc[w]
        IN  /\ \A x \in Levels : From(h, x, r.route[x], r.key)
            /\ r.level \in Levels
            /\ From(h, r.level, r.enc, r.key)
            /\ r.bottom # Nil => From(h, 0, r.bottom, r.key)
            /\ r.nxt # Nil => On(h, r.level, r.nxt)
            /\ Inserting(w) /\ r.level > 0 => From(h, r.level - 1, r.val, r.key)
    BY <1>1, <1>3, LevelSinks
  <2>2. Mine(loc[w].enc)'
    BY <1>1 DEF Mine
  <2>3. loc[w].new # Nil => loc[w].new \in Chunks /\ loc[w].new < allocated'
    BY SMTT(30), <1>1, <1>3 DEF LevelOK
  <2> QED BY Zenon, <1>1, <2>1, <2>2, <2>3 DEF LevelOK, Inserting, NextLabels, SplitLabels
<1>5. EraseOK(h, w)'
  <2>1. /\ loc[w].stop \in Lanes /\ loc[w].i \in 0 .. loc[w].stop
        /\ DataOK(h, loc[w].reg, v)
        /\ \A j \in Lanes : j > loc[w].stop => chunk[e].data[j].k = PosInf
                                               /\ loc[w].reg[j].k = PosInf
    BY <1>1, <1>3, DataKept DEF EraseOK
  <2>2. h.low[e] = g.low[e]
    BY <1>1
  <2>3. Left(chunk[e], loc[w])' = Left(chunk[e], loc[w])
    BY <1>1 DEF Left
  <2> QED BY SMTT(30), <1>1, <2>1, <2>2, <2>3 DEF EraseOK
<1>6. /\ pc'[w] \notin {"take", "return"} /\ pc'[w] \notin OwnLabels /\ pc'[w] # "shift"
      /\ pc'[w] \notin {"nextWalk", "nextLock", "nextCheck", "nextSet"} \cup SplitLabels
      /\ pc'[w] \notin InsertSplits \cup {"empty", "shift", "unlockOther"}
      /\ pc'[w] \notin Merging \cup {"uncount"} /\ pc'[w] \notin DownLabels \cup OwnLabels
  BY <1>1 DEF OwnLabels, SearchLabels, UnlinkLabels, DownLabels, SplitLabels, InsertSplits,
              NextLabels, Merging, MergeTail
<1> QED BY <1>1, <1>3, <1>4, <1>5, <1>6, LevelBuilt, Elsewhere

-----------------------------------------------------------------------------
(* A merge leaves a zombie. *)

\* A dead chunk e of level l leaves its keys, which begin at m, to chunk x; what was dead
\* between the two is no longer in the chain.
Buried(g, l, x, m) ==
  [lvl |-> g.lvl, rank |-> g.rank, low |-> [g.low EXCEPT ![x] = m],
   chain |-> {z \in g.chain : ~(g.lvl[z] = l /\ IsZombie(chunk[z]) /\ g.low[z] = g.low[x])}]

\* The chain after a chunk has become a zombie: its dead neighbours to the left leave it.
LEMMA BuriedChain ==
  ASSUME NEW g, NEW l, NEW x, NEW m, NEW h, h = Buried(g, l, x, m)
  PROVE  \A z : z \in h.chain <=>
           z \in g.chain /\ ~(g.lvl[z] = l /\ IsZombie(chunk[z]) /\ g.low[z] = g.low[x])
BY DEF Buried

\* The ghosts after a merge: the next chunk's keys begin where the zombie's did.
LEMMA BuriedIs ==
  ASSUME NEW g \in Ghosts, NEW l, NEW x \in Chunks, NEW m \in Int, m <= g.low[x],
         NEW h, h = Buried(g, l, x, m)
  PROVE  /\ h \in Ghosts /\ Sinks(g, h)
         /\ h.lvl = g.lvl /\ h.rank = g.rank /\ h.low[x] = m
         /\ \A z \in Chunks \ {x} : h.low[z] = g.low[z]
<1>1. /\ g.lvl \in [Chunks -> Levels \cup {Nil}] /\ g.low \in [Chunks -> Int]
      /\ g.chain \in SUBSET Chunks /\ g.rank \in [Chunks -> Nat]
  BY DEF Ghosts
<1>2. h.lvl = g.lvl /\ h.rank = g.rank /\ h.low = [g.low EXCEPT ![x] = m]
  BY DEF Buried
<1>3. /\ h.low \in [Chunks -> Int] /\ h.low[x] = m
      /\ \A z \in Chunks \ {x} : h.low[z] = g.low[z]
  BY <1>1, <1>2
<1>4. h \in Ghosts
  <2>1. h.chain \in SUBSET Chunks
    BY <1>1, BuriedChain
  <2>2. h = [lvl |-> h.lvl, rank |-> h.rank, low |-> h.low, chain |-> h.chain]
    BY DEF Buried
  <2> QED BY <1>1, <1>2, <1>3, <2>1, <2>2 DEF Ghosts
<1>5. \A z \in Chunks : h.low[z] <= g.low[z]
  BY SMTT(30), <1>1, <1>3
<1> QED BY <1>2, <1>3, <1>4, <1>5 DEF Sinks

BuryGhosts(g, w) == Buried(g, loc[w].level, loc[w].nxt, g.low[loc[w].enc])

\* What marking the zombie of a merge does.
LEMMA MarkZombieFacts ==
  ASSUME NEW g, NEW w, ListStep(g, w), MarkZombie(w), NEW h, h = BuryGhosts(g, w),
         NEW e, e = loc[w].enc, NEW v, v = loc[w].level, NEW x, x = loc[w].nxt,
         NEW c, c = chunk[e]
  PROVE  /\ pc[w] = "markZombie" /\ allocated' = allocated
         /\ e \in Chunks /\ Linked(g, e) /\ g.lvl[e] = v /\ v \in Levels /\ Mine(e)
         /\ Holds(w, e) /\ Holds(w, x) /\ ~IsZombie(c) /\ c.next = x /\ x # Nil
         /\ x \in Chunks /\ g.lvl[x] = v /\ x # e /\ Mine(x) /\ Linked(g, x)
         /\ g.low[x] = c.max /\ g.low[e] \in Int /\ c.max \in Int /\ g.low[e] < c.max
         /\ g.low[x] < chunk[x].max /\ x \in g.chain /\ e \in g.chain
         /\ g.rank[x] < g.rank[e]
         /\ Fine(chunk[x].data, g.low[e], chunk[x].max)
         /\ chunk'[e].data = c.data /\ chunk'[e].max = c.max
         /\ chunk'[e].next = c.next /\ chunk'[e].lock = "zombie"
         /\ \A z \in Chunks \ {e} : chunk'[z] = chunk[z]
         /\ g \in Ghosts /\ h \in Ghosts /\ Sinks(g, h)
         /\ h.lvl = g.lvl /\ h.rank = g.rank /\ h.low[x] = g.low[e]
         /\ \A z \in Chunks \ {x} : h.low[z] = g.low[z]
         /\ \A z : z \in h.chain <=>
              z \in g.chain /\ ~(g.lvl[z] = v /\ IsZombie(chunk[z]) /\ g.low[z] = c.max)
<1>1. /\ pc[w] = "markZombie" /\ allocated' = allocated
      /\ chunk' = [chunk EXCEPT ![e].lock = "zombie"]
  BY Zenon DEF MarkZombie, At
<1>2. /\ pc[w] \notin {"take", "return"} /\ pc[w] \notin OwnLabels /\ v \in Levels
      /\ e \in Chunks /\ On(g, v, e) /\ Mine(e)
      /\ x \in Chunks /\ On(g, v, x) /\ Mine(x) /\ x # e
      /\ c.next = x /\ x # Nil
      /\ c \in ChunkType
      /\ g.low[x] = c.max /\ g.low[e] \in Int /\ g.low[e] < c.max
      /\ g.low[x] < chunk[x].max /\ g.rank[x] < g.rank[e] /\ e \in g.chain /\ x \in g.chain
  BY <1>1, MergeFacts
<1>3. MergeOK(g, w) /\ WordsOK /\ g \in Ghosts /\ w \in Warps /\ Control(w)
  BY Zenon, <1>2, LevelFacts, StepFacts
<1>4. Fine(chunk[x].data, g.low[e], chunk[x].max)
  BY <1>1, <1>3 DEF MergeOK
<1>5. /\ Linked(g, e) /\ g.lvl[e] = v /\ Linked(g, x) /\ g.lvl[x] = v /\ ~IsZombie(c)
      /\ e # Nil /\ c.max \in Int
  BY <1>2, OnIsLinked, LevelsAre, ChunkIs DEF Mine, IsZombie
<1>6. Holds(w, e) /\ Holds(w, x)
  BY SMTT(30), <1>1, <1>2, <1>5 DEF Holds, HasEnc, HasNxt, MergeLabels
<1>7. /\ chunk'[e].data = c.data /\ chunk'[e].max = c.max
      /\ chunk'[e].next = c.next /\ chunk'[e].lock = "zombie"
      /\ \A z \in Chunks \ {e} : chunk'[z] = chunk[z]
  BY <1>1, <1>2, <1>3 DEF WordsOK, Words
<1>8. /\ h \in Ghosts /\ Sinks(g, h)
      /\ h.lvl = g.lvl /\ h.rank = g.rank /\ h.low[x] = g.low[e]
      /\ \A z \in Chunks \ {x} : h.low[z] = g.low[z]
      /\ \A z : z \in h.chain <=>
           z \in g.chain /\ ~(g.lvl[z] = v /\ IsZombie(chunk[z]) /\ g.low[z] = c.max)
  <2>1. h = Buried(g, v, x, g.low[e])
    BY DEF BuryGhosts
  <2>2. g.low[e] <= g.low[x]
    BY <1>2, <1>5
  <2>3. x \in Chunks /\ g.low[e] \in Int /\ g \in Ghosts
    BY Zenon, <1>2, <1>3
  <2>4. /\ h \in Ghosts /\ Sinks(g, h)
        /\ h.lvl = g.lvl /\ h.rank = g.rank /\ h.low[x] = g.low[e]
        /\ \A z \in Chunks \ {x} : h.low[z] = g.low[z]
    BY <2>1, <2>2, <2>3, BuriedIs
  <2>5. \A z : z \in h.chain <=>
          z \in g.chain /\ ~(g.lvl[z] = v /\ IsZombie(chunk[z]) /\ g.low[z] = g.low[x])
    BY <2>1, BuriedChain
  <2> QED BY <1>2, <2>4, <2>5
<1> QED BY <1>1, <1>2, <1>4, <1>5, <1>6, <1>7, <1>8, <1>3

\* Another chunk that is alive does not end where the dying one does.
LEMMA EndsElsewhere ==
  ASSUME NEW g, ListInv(g), NEW e, Linked(g, e), ~IsZombie(chunk[e]),
         NEW z \in Chunks, g.lvl[z] = g.lvl[e], z # e, ~IsZombie(chunk[z])
  PROVE  chunk[z].max # chunk[e].max
BY LiveApart

\* Marking the zombie keeps the other warps in order.
LEMMA MarkZombieSteady ==
  ASSUME NEW g, NEW w, ListStep(g, w), MarkZombie(w), NEW u \in Warps, u # w,
         NEW h, h = BuryGhosts(g, w)
  PROVE  Steady(g, h, u)
<1> SUFFICES ASSUME NEW e, e = loc[w].enc, NEW v, v = loc[w].level, NEW x, x = loc[w].nxt,
                    NEW c, c = chunk[e]
             PROVE  Steady(g, h, u)
  OBVIOUS
<1>1. /\ e \in Chunks /\ Linked(g, e) /\ g.lvl[e] = v /\ Mine(e) /\ Holds(w, e)
      /\ ~IsZombie(c) /\ g.low[x] = c.max
      /\ Sinks(g, h) /\ h.lvl = g.lvl /\ h.rank = g.rank
      /\ g.lvl[x] = v
      /\ \A z \in Chunks \ {x} : h.low[z] = g.low[z]
      /\ \A z : z \in h.chain <=>
           z \in g.chain /\ ~(g.lvl[z] = v /\ IsZombie(chunk[z]) /\ g.low[z] = c.max)
  BY MarkZombieFacts
<1>2. LocksExclusive /\ ListInv(g) /\ w \in Warps
  BY DEF ListStep, ExclusiveInv
<1>3. \A z \in Chunks : Mine(z) /\ Holds(u, z) => z # e
  BY <1>1, <1>2 DEF LocksExclusive, Mine
<1>4. ASSUME NEW z \in Chunks, NEW d \in Chunks, Mine(z), Holds(u, z), Linked(g, z),
             Follows(g, g.lvl[z], z, d)
      PROVE  d \in h.chain /\ h.low[d] = g.low[d] /\ h.rank[d] < h.rank[z]
  <2>1. /\ g.lvl[d] = g.lvl[z] /\ d \in g.chain /\ g.low[d] = chunk[z].max
        /\ g.rank[d] < g.rank[z] /\ z # e /\ ~IsZombie(chunk[z])
    BY <1>3, <1>4 DEF Follows, On, Mine, IsZombie
  <2>2. g.lvl[z] = v => chunk[z].max # c.max
    BY <1>1, <1>2, <2>1, EndsElsewhere
  <2>3. ~(g.lvl[d] = v /\ g.low[d] = c.max)
    BY <2>1, <2>2
  <2> QED BY <1>1, <2>1, <2>3
<1>5. \A z \in Chunks : Mine(z) /\ Holds(u, z) /\ g.lvl[z] = Nil => h.lvl[z] = Nil
  BY <1>1
<1> QED BY <1>1, <1>4, <1>5, GhostSteady

\* MarkZombie keeps the list in order.
LEMMA MarkZombieList ==
  ASSUME NEW g, NEW w, ListStep(g, w), MarkZombie(w), NEW h, h = BuryGhosts(g, w)
  PROVE  chunk' \in [Chunks -> ChunkType] /\ ListOK(h)'
<1> SUFFICES ASSUME NEW e, e = loc[w].enc, NEW v, v = loc[w].level, NEW x, x = loc[w].nxt,
                    NEW c, c = chunk[e]
             PROVE  chunk' \in [Chunks -> ChunkType] /\ ListOK(h)'
  OBVIOUS
<1>1. /\ pc[w] = "markZombie" /\ allocated' = allocated
      /\ e \in Chunks /\ Linked(g, e) /\ g.lvl[e] = v /\ v \in Levels
      /\ ~IsZombie(c) /\ c.next = x /\ x # Nil
      /\ x \in Chunks /\ g.lvl[x] = v /\ x # e /\ Mine(x) /\ Linked(g, x)
      /\ g.low[x] = c.max /\ g.low[e] \in Int /\ c.max \in Int /\ g.low[e] < c.max
      /\ g.low[x] < chunk[x].max /\ x \in g.chain /\ e \in g.chain
      /\ g.rank[x] < g.rank[e]
      /\ Fine(chunk[x].data, g.low[e], chunk[x].max)
      /\ chunk'[e].data = c.data /\ chunk'[e].max = c.max
      /\ chunk'[e].next = c.next /\ chunk'[e].lock = "zombie"
      /\ \A z \in Chunks \ {e} : chunk'[z] = chunk[z]
      /\ g \in Ghosts /\ h \in Ghosts /\ Sinks(g, h)
      /\ h.lvl = g.lvl /\ h.rank = g.rank /\ h.low[x] = g.low[e]
      /\ \A z \in Chunks \ {x} : h.low[z] = g.low[z]
      /\ \A z : z \in h.chain <=>
           z \in g.chain /\ ~(g.lvl[z] = v /\ IsZombie(chunk[z]) /\ g.low[z] = c.max)
  BY MarkZombieFacts
<1>2. /\ ListInv(g) /\ ListOK(g) /\ WordsOK' /\ chunk \in [Chunks -> ChunkType] /\ w \in Warps
      /\ Node(g, e) /\ Node(g, x) /\ ~IsZombie(chunk[x])
  BY <1>1, StepFacts, NodeIs DEF ListStep, Mine, IsZombie
<1>3. NegInf \in Int /\ PosInf \in Int /\ g.low[e] >= NegInf - 1
  <2>1. g.low[e] \in NegInf - 1 .. PosInf
    BY Zenon, <1>2 DEF Node
  <2>2. NegInf \in Int /\ PosInf \in Int
    BY ConstantsAre DEF NegInf, PosInf
  <2> QED BY <2>1, <2>2
<1>4. /\ h.low[e] = g.low[e]
      /\ \A z \in Chunks : g.low[z] \in Int /\ h.low[z] \in Int /\ h.low[z] <= g.low[z]
  BY <1>1, GhostsAre
<1>5. chunk' \in [Chunks -> ChunkType]
  <2>1. \A z \in Chunks \ {e} : Same(z)
    BY <1>1 DEF Same
  <2>2. \A z \in {e} \cap Chunks : /\ chunk'[z].data \in Datas
                                   /\ chunk'[z].max \in NegInf .. PosInf
                                   /\ chunk'[z].next \in Chunks \cup {Nil}
    BY SMTT(30), <1>1, <1>2, ChunkIs
  <2> QED BY <1>2, <2>1, <2>2, TypedPool
<1>6. ASSUME NEW l \in Levels
      PROVE  /\ h.lvl[l] = l /\ h.low[l] = NegInf - 1 /\ l \in h.chain
             /\ \E z \in Chunks : On(h, l, z) /\ chunk'[z].next = Nil
  <2>1. l \in Chunks /\ g.lvl[l] = l /\ g.low[l] = NegInf - 1 /\ l \in g.chain
    <3>1. l \in Chunks
      BY ConstantsAre DEF Levels, Chunks
    <3> QED BY <3>1, <1>2 DEF ListOK
  <2>2. h.low[l] = NegInf - 1 /\ l \in h.chain
    BY <1>1, <1>3, <2>1
  <2>3. PICK z \in Chunks : On(g, l, z) /\ chunk[z].next = Nil
    BY Zenon, <1>2 DEF ListOK
  <2>4. On(h, l, z) /\ chunk'[z].next = Nil
    BY <1>1, <2>3 DEF On
  <2> QED BY <1>1, <2>1, <2>2, <2>4
<1>7. \A z \in Chunks : z >= allocated' => h.lvl[z] = Nil /\ chunk'[z].lock = "unlocked"
  BY SMTT(30), <1>1, FreeStays
<1>8. \A z \in Chunks : g.lvl[z] = v /\ z # e /\ ~IsZombie(chunk[z]) => chunk[z].max # c.max
  BY SMTT(30), <1>1, <1>2, EndsElsewhere
<1>9. ASSUME NEW z \in Chunks, Linked(h, z)
      PROVE  Node(h, z)'
  <2>1. /\ Linked(g, z) /\ Node(g, z) /\ g.lvl[z] \in Levels /\ chunk'[z].data = chunk[z].data
        /\ chunk'[z].next = chunk[z].next /\ chunk'[z].max = chunk[z].max
        /\ IsZombie(chunk'[z]) <=> z = e \/ IsZombie(chunk[z])
    <3>1. Linked(g, z) /\ Node(g, z) /\ g.lvl[z] \in Levels
      BY SMTT(30), <1>1, <1>2, <1>9, NodeIs, LinkedIs DEF Linked
    <3> QED BY SMTT(30), <3>1, <1>1 DEF IsZombie
  <2>2. h.low[z] \in NegInf - 1 .. PosInf
    BY ZenonT(40), <1>1, <1>2, <2>1 DEF Node
  <2>3. DataOK(h, chunk[z].data, g.lvl[z])
    BY Zenon, <1>1, <2>1, DataKept DEF Node
  <2>4. chunk[z].next = Nil => ~IsZombie(chunk'[z]) /\ chunk'[z].max = PosInf
    BY <1>1, <2>1 DEF Node
  <2>5. ASSUME NEW n, n = chunk[z].next, n # Nil
        PROVE  /\ On(h, h.lvl[z], n) /\ h.rank[n] < h.rank[z]
               /\ z \in h.chain => n \in h.chain /\ h.low[n] = EndOf(h, z)'
               /\ IsZombie(chunk'[z]) => h.low[n] <= h.low[z]
    <3>1. /\ On(g, g.lvl[z], n) /\ g.rank[n] < g.rank[z] /\ n \in Chunks /\ g.lvl[n] = g.lvl[z]
          /\ z \in g.chain => n \in g.chain /\ g.low[n] = EndOf(g, z)
          /\ IsZombie(chunk[z]) => g.low[n] <= g.low[z]
      BY Zenon, <2>1, <2>5 DEF Node, On
    <3>2. CASE z = e
      <4>1. n = x /\ h.low[n] = h.low[z] /\ IsZombie(chunk'[z])
        BY Zenon, <1>1, <1>4, <2>1, <2>5, <3>2
      <4>2. x \in h.chain
        BY Zenon, <1>1, <1>2
      <4> QED BY SMTT(30), <1>1, <1>4, <3>1, <4>1, <4>2 DEF On, EndOf
    <3>3. CASE z # e
      <4>1. EndOf(g, z)' = EndOf(g, z) /\ (IsZombie(chunk'[z]) <=> IsZombie(chunk[z]))
        BY SMTT(30), <1>1, <3>3 DEF EndOf, IsZombie
      <4>2. IsZombie(chunk[z]) => h.low[n] <= h.low[z]
        <5> SUFFICES ASSUME IsZombie(chunk[z]) PROVE h.low[n] <= h.low[z]
          OBVIOUS
        <5>1. z # x /\ g.low[n] <= g.low[z]
          BY <1>2, <3>1
        <5> QED BY <1>1, <1>4, <3>1, <5>1
      <4>3. ASSUME z \in h.chain PROVE n \in h.chain /\ h.low[n] = EndOf(h, z)'
        <5>1. z \in g.chain /\ ~(g.lvl[z] = v /\ IsZombie(chunk[z]) /\ g.low[z] = c.max)
          BY <1>1, <4>3
        <5>2. n \in g.chain /\ g.low[n] = EndOf(g, z)
          BY <3>1, <5>1
        <5>3. ~(g.lvl[z] = v /\ EndOf(g, z) = c.max)
          <6>1. CASE IsZombie(chunk[z])
            BY <5>1, <6>1 DEF EndOf
          <6>2. CASE ~IsZombie(chunk[z])
            BY Zenon, <1>8, <3>3, <6>2 DEF EndOf
          <6> QED BY <6>1, <6>2
        <5>4. n # x /\ n \in h.chain /\ h.low[n] = g.low[n]
          BY <1>1, <3>1, <5>2, <5>3
        <5>5. EndOf(h, z)' = EndOf(g, z)
          <6>1. CASE IsZombie(chunk[z])
            <7>1. z # x
              BY <1>2, <6>1
            <7> QED BY <1>1, <4>1, <6>1, <7>1 DEF EndOf
          <6>2. CASE ~IsZombie(chunk[z])
            BY <2>1, <4>1, <6>2 DEF EndOf
          <6> QED BY Zenon, <6>1, <6>2
        <5> QED BY Zenon, <5>2, <5>4, <5>5
      <4> QED BY Zenon, <1>1, <3>1, <4>1, <4>2, <4>3 DEF On
    <3> QED BY <3>2, <3>3
  <2>6. ASSUME ~IsZombie(chunk'[z])
        PROVE  /\ z \in h.chain /\ h.low[z] < chunk'[z].max
               /\ Fine(chunk'[z].data, h.low[z], chunk'[z].max) \/ \E u \in Warps : Busy(u, z)'
    <3>1. /\ z # e /\ ~IsZombie(chunk[z]) /\ z \in g.chain /\ g.low[z] < chunk[z].max
          /\ chunk[z].max \in Int
      BY Zenon, <2>1, <2>6, <1>2, LiveApart
    <3>2. z \in h.chain /\ h.low[z] < chunk[z].max
      BY <1>1, <1>4, <3>1
    <3>3. CASE z = x
      BY Zenon, <1>1, <2>1, <3>2, <3>3
    <3>4. CASE z # x
      <4>1. Fine(chunk[z].data, g.low[z], chunk[z].max) \/ \E u \in Warps : Busy(u, z)
        BY Zenon, <2>1, <3>1 DEF Node
      <4>2. ~Busy(w, z)
        BY <1>1, <3>4 DEF Busy
      <4>3. Fine(chunk[z].data, g.low[z], chunk[z].max) \/ \E u \in Warps : Busy(u, z)'
        BY <4>1, <4>2, OthersBusy
      <4> QED BY <1>1, <2>1, <3>2, <3>4, <4>3
    <3> QED BY <3>3, <3>4
  <2> QED BY <1>1, <2>1, <2>2, <2>3, <2>4, <2>5, <2>6 DEF Node
<1>10. ASSUME NEW y \in Chunks, NEW z \in Chunks, Linked(h, y), h.lvl[z] = h.lvl[y], y # z,
              ~IsZombie(chunk'[y]), ~IsZombie(chunk'[z])
       PROVE  chunk'[y].max <= h.low[z] \/ chunk'[z].max <= h.low[y]
  <2>1. /\ Linked(g, y) /\ Linked(g, z) /\ g.lvl[z] = g.lvl[y] /\ y # e /\ z # e
        /\ ~IsZombie(chunk[y]) /\ ~IsZombie(chunk[z])
        /\ chunk'[y].max = chunk[y].max /\ chunk'[z].max = chunk[z].max
    BY <1>1, <1>10 DEF Linked, IsZombie
  <2>2. ASSUME NEW p \in Chunks, NEW q \in Chunks, g.lvl[p] = g.lvl[q], p # e, q # e,
               ~IsZombie(chunk[p]), Linked(g, p), chunk[p].max <= g.low[q]
        PROVE  chunk[p].max <= h.low[q]
    <3>1. CASE q = x
      <4>1. /\ g.low[p] \in Int /\ chunk[p].max \in Int /\ g.low[p] < chunk[p].max
            /\ chunk[p].max <= g.low[e] \/ c.max <= g.low[p]
        BY SMTT(30), <1>1, <1>2, <2>2, <3>1, LiveApart
      <4> QED BY SMTT(30), <1>1, <2>2, <3>1, <4>1
    <3>2. CASE q # x
      BY <1>1, <2>2, <3>2
    <3> QED BY Zenon, <3>1, <3>2
  <2>3. chunk[y].max <= g.low[z] \/ chunk[z].max <= g.low[y]
    BY <1>2, <1>10, <2>1, LiveApart
  <2> QED BY Zenon, <1>10, <2>1, <2>2, <2>3
<1> QED BY <1>5, <1>6, <1>7, <1>9, <1>10 DEF ListOK, On, Linked

\* MarkZombie keeps its warp in order.
LEMMA MarkZombieOwn ==
  ASSUME NEW g, NEW w, ListStep(g, w), MarkZombie(w), NEW h, h = BuryGhosts(g, w)
  PROVE  WarpOK(h, w)'
<1> SUFFICES ASSUME NEW e, e = loc[w].enc, NEW v, v = loc[w].level, NEW x, x = loc[w].nxt
             PROVE  WarpOK(h, w)'
  OBVIOUS
<1>1. /\ pc[w] = "markZombie" /\ allocated' = allocated /\ v \in Levels
      /\ x \in Chunks /\ g.lvl[x] = v /\ x # e /\ Mine(x)
      /\ g \in Ghosts /\ Sinks(g, h) /\ h.low[x] = g.low[e] /\ h.lvl = g.lvl
  BY MarkZombieFacts
<1>2. pc[w] \notin {"take", "return"} /\ pc[w] \notin OwnLabels
  BY <1>1 DEF OwnLabels, SearchLabels, UnlinkLabels
<1>3. /\ LevelOK(g, w) /\ MergeOK(g, w) /\ Control(w) /\ loc[w].top \in Levels
      /\ loc[w].key \in 1 .. MaxKey /\ loc[w].key \in Int /\ loc[w].val \in Int
      /\ RegistersOK /\ w \in Warps
  BY <1>2, LevelFacts
<1>4. ~Inserting(w)
  BY Zenon, <1>1, <1>3 DEF Control, MergeLabels
<1>5. /\ loc[w].min \in NegInf .. MaxKey /\ loc[w].max \in NegInf .. MaxKey
      /\ From(h, v, x, loc[w].min)
  BY <1>1, <1>3 DEF MergeOK, From, On
<1>6. CASE loc[w].over
  <2>1. BeginDown(w, loc[w].min, loc[w].max, loc[w].nxt, "unlockMerged")
    BY <1>6 DEF MarkZombie
  <2> QED BY <1>1, <1>4, <1>5, <2>1, BeginDownOwn
<1>7. CASE ~loc[w].over
  <2>1. pc'[w] = "uncount" /\ loc' = loc
    BY <1>3, <1>7 DEF MarkZombie, GoTo, RegistersOK
  <2>2. LevelOK(h, w)'
    <3>1. LET r == loc[w]
          IN  /\ \A y \in Levels : From(h, y, r.route[y], r.key)
              /\ r.level \in Levels
              /\ From(h, r.level, r.enc, r.key)
              /\ r.bottom # Nil => From(h, 0, r.bottom, r.key)
              /\ r.nxt # Nil => On(h, r.level, r.nxt)
              /\ Inserting(w) /\ r.level > 0 => From(h, r.level - 1, r.val, r.key)
      BY <1>1, <1>3, LevelSinks
    <3>2. loc[w].new # Nil => loc[w].new \in Chunks /\ loc[w].new < allocated'
      BY <1>1, <1>3 DEF LevelOK
    <3> QED BY <2>1, <3>1, <3>2 DEF LevelOK, Inserting, EncLocked, NextLabels, SplitLabels
  <2>3. MergeOK(h, w)'
    BY <1>5, <2>1 DEF MergeOK, Merging, MergeTail, NextLabels, SplitLabels
  <2>4. /\ pc'[w] \notin {"take", "return"} /\ pc'[w] \notin OwnLabels /\ pc'[w] # "shift"
        /\ pc'[w] \notin {"nextWalk", "nextLock", "nextCheck", "nextSet"} \cup SplitLabels
        /\ pc'[w] \notin InsertSplits \cup {"empty", "shift", "unlockOther"}
        /\ pc'[w] \notin {"lowerMax", "unshift"} /\ pc'[w] \notin DownLabels \cup OwnLabels
    BY <2>1 DEF OwnLabels, SearchLabels, UnlinkLabels, DownLabels, SplitLabels, InsertSplits,
                NextLabels
  <2> QED BY <1>3, <2>1, <2>2, <2>3, <2>4, LevelBuilt, Elsewhere
<1> QED BY <1>6, <1>7

-----------------------------------------------------------------------------
(* All steps. *)

\* A step that moves no key range leaves its own warp in order.
LEMMA QuietOwn ==
  ASSUME NEW g, NEW w, ListStep(g, w), pc[w] \notin {"copy", "lowerMax", "markZombie"}
  PROVE  WarpOK(g, w)'
<1>0. Step(w)
  BY DEF ListStep
<1>1. CASE StartOp(w)
  BY <1>1, StartOpOwn
<1>2. CASE ReturnResult(w)
  BY <1>2, ReturnResultOwn
<1>3. CASE SearchStart(w)
  BY <1>3, SearchStartOwn
<1>4. CASE SearchRead(w)
  BY <1>4, SearchReadOwn
<1>5. CASE SearchMeetZombie(w)
  BY <1>5, SearchMeetZombieOwn
<1>6. CASE TryLockPrev(w)
  BY <1>6, TryLockPrevOwn
<1>7. CASE TryLockFails(w)
  BY <1>7, TryLockFailsOwn
<1>8. CASE RecheckPrev(w)
  BY <1>8, RecheckPrevOwn
<1>9. CASE GiveUpUnlink(w)
  BY <1>9, GiveUpUnlinkOwn
<1>10. CASE SkipZombie(w)
  BY <1>10, SkipZombieOwn
<1>11. CASE UnlinkZombies(w)
  BY <1>11, UnlinkZombiesOwn
<1>12. CASE UnlockPrev(w)
  BY <1>12, UnlockPrevOwn
<1>13. CASE StepRight(w)
  BY <1>13, StepRightOwn
<1>14. CASE StepDown(w)
  BY <1>14, StepDownOwn
<1>15. CASE BackTrack(w)
  BY <1>15, BackTrackOwn
<1>16. CASE RestartSearch(w)
  BY <1>16, RestartSearchOwn
<1>17. CASE SearchRefuses(w)
  BY <1>17, SearchRefusesOwn
<1>18. CASE SearchLeads(w)
  BY <1>18, SearchLeadsOwn
<1>19. CASE WalkToEnclosing(w)
  BY <1>19, WalkToEnclosingOwn
<1>20. CASE LockEnclosing(w)
  BY <1>20, PlainSteps
<1>21. CASE NotEnclosing(w)
  BY <1>21, PlainSteps
<1>22. CASE RetryEnclosing(w)
  BY <1>22, PlainSteps
<1>23. CASE ReadNext(w)
  BY <1>23, ReadNextOwn
<1>24. CASE WalkToNext(w)
  BY <1>24, WalkToNextOwn
<1>25. CASE LockNext(w)
  BY <1>25, LockNextOwn
<1>26. CASE CheckNext(w)
  BY <1>26, CheckNextOwn
<1>27. CASE RedirectNext(w)
  BY <1>27, RedirectNextOwn
<1>28. CASE GetNewChunk(w)
  BY <1>28, GetNewChunkOwn
<1>29. CASE UnlockNext(w)
  BY <1>29, UnlockNextOwn
<1>30. CASE SplitCopy(w)
  BY <1>30 DEF SplitCopy, At
<1>31. CASE EmptyMoved(w)
  BY <1>31, EmptyMovedOwn
<1>32. CASE UnlockOther(w)
  BY <1>32, UnlockOtherOwn
<1>33. CASE InsertPresent(w)
  BY <1>33, InsertPresentOwn
<1>34. CASE InsertFits(w)
  BY <1>34, InsertFitsOwn
<1>35. CASE InsertOverflows(w)
  BY <1>35, InsertOverflowsOwn
<1>36. CASE ShiftRight(w)
  BY <1>36, ShiftRightOwn
<1>37. CASE IsLevelEmpty(w)
  BY <1>37, PlainSteps
<1>38. CASE IncrementNumChunks(w)
  BY <1>38, IncrementNumChunksOwn
<1>39. CASE RaiseKey(w)
  BY <1>39, RaiseKeyOwn
<1>40. CASE EraseAbsent(w)
  BY <1>40, EraseAbsentOwn
<1>41. CASE EraseInPlace(w)
  BY <1>41, EraseInPlaceOwn
<1>42. CASE LowerMax(w)
  BY <1>42 DEF LowerMax, At
<1>43. CASE ShiftLeft(w)
  BY <1>43, ShiftLeftOwn
<1>44. CASE EraseByMerge(w)
  BY <1>44, EraseByMergeOwn
<1>45. CASE MergeRead(w)
  BY <1>45, MergeReadOwn
<1>46. CASE UnlockNew(w)
  BY <1>46, UnlockNewOwn
<1>47. CASE MergeShift(w)
  BY <1>47, MergeShiftOwn
<1>48. CASE ShiftData(w)
  BY <1>48, ShiftDataOwn
<1>49. CASE MergeCopy(w)
  BY <1>49, MergeCopyOwn
<1>50. CASE MarkZombie(w)
  BY <1>50 DEF MarkZombie, At
<1>51. CASE DecrementNumChunks(w)
  BY <1>51, DecrementNumChunksOwn
<1>52. CASE UnlockMerged(w)
  BY <1>52, UnlockMergedOwn
<1>53. CASE ReadHeight(w)
  BY <1>53, ReadHeightOwn
<1>54. CASE DownSearched(w)
  BY <1>54, DownSearchedOwn
<1>55. CASE DownRead(w)
  BY <1>55, DownReadOwn
<1>56. CASE DownLock(w)
  BY <1>56, DownLockOwn
<1>57. CASE DownWrite(w)
  BY <1>57, DownWriteOwn
<1>58. CASE DownUnlock(w)
  BY <1>58, DownUnlockOwn
<1>59. CASE UnlockEnclosing(w)
  BY <1>59, UnlockEnclosingOwn
<1>60. CASE UnlockBottom(w)
  BY <1>60, UnlockBottomOwn
<1> QED BY <1>0, <1>1, <1>2, <1>3, <1>4, <1>5, <1>6, <1>7, <1>8, <1>9, <1>10, <1>11, <1>12,
           <1>13, <1>14, <1>15, <1>16, <1>17, <1>18, <1>19, <1>20, <1>21, <1>22, <1>23,
           <1>24, <1>25, <1>26, <1>27, <1>28, <1>29, <1>30, <1>31, <1>32, <1>33, <1>34,
           <1>35, <1>36, <1>37, <1>38, <1>39, <1>40, <1>41, <1>42, <1>43, <1>44, <1>45,
           <1>46, <1>47, <1>48, <1>49, <1>50, <1>51, <1>52, <1>53, <1>54, <1>55, <1>56,
           <1>57, <1>58, <1>59, <1>60
         DEF Step, Search, Enclose, FindNext, Split, InsertToLevel, EraseFromLevel,
             UpdateDownPtrs

\* It leaves the list in order, too.
LEMMA QuietLevels ==
  ASSUME NEW g, NEW w, ListStep(g, w), pc[w] \notin {"copy", "lowerMax", "markZombie"}
  PROVE  chunk' \in [Chunks -> ChunkType] /\ ListOK(g)'
<1>1. CASE pc[w] \notin StoreLabels
  BY <1>1, QuietList
<1>2. CASE pc[w] \in StoreLabels
  <2>0. w \in Warps /\ Step(w)
    BY DEF ListStep
  <2>1. CASE UnlinkZombies(w)
    BY <2>1, UnlinkZombiesList
  <2>2. CASE RedirectNext(w)
    BY <2>2, RedirectNextList
  <2>3. CASE ShiftRight(w)
    BY <2>3, ShiftRightList
  <2>4. CASE EmptyMoved(w)
    BY <2>4, EmptyMovedList
  <2>5. CASE ShiftLeft(w)
    BY <2>5, ShiftLeftList
  <2>6. CASE ShiftData(w)
    BY <2>6, ShiftDataList
  <2>7. CASE MergeCopy(w)
    BY <2>7, MergeCopyList
  <2>8. CASE DownWrite(w)
    BY <2>8, DownWriteList
  <2>9. CASE GetNewChunk(w)
    BY <2>9, GetNewChunkList
  <2>10. CASE SplitCopy(w)
    BY <2>10 DEF SplitCopy, At
  <2>11. CASE LowerMax(w)
    BY <2>11 DEF LowerMax, At
  <2>12. CASE MarkZombie(w)
    BY <2>12 DEF MarkZombie, At
  <2> QED BY <1>2, StoreActions, <2>0, <2>1, <2>2, <2>3, <2>4, <2>5, <2>6, <2>7, <2>8, <2>9,
             <2>10, <2>11, <2>12
<1> QED BY <1>1, <1>2

\* What a step leaves in order makes up the invariant.
LEMMA ListAssembled ==
  ASSUME NEW g, NEW w, ListStep(g, w), NEW h, h \in Ghosts,
         chunk' \in [Chunks -> ChunkType] /\ ListOK(h)', WarpOK(h, w)',
         \A v \in Warps : v # w => Steady(g, h, v)
  PROVE  ListInv(h)'
<1>1. /\ w \in Warps /\ Step(w) /\ HostOK /\ chunk \in [Chunks -> ChunkType]
      /\ \A v \in Warps : WarpOK(g, v) /\ Control(v)
  BY DEF ListStep, ListInv, ExclusiveInv, ReleaseInv
<1>2. ASSUME NEW v \in Warps PROVE WarpOK(h, v)'
  <2>1. CASE v = w
    BY <2>1
  <2>2. CASE v # w
    <3>1. Steady(g, h, v) /\ WarpOK(g, v) /\ Control(v) /\ chunk \in [Chunks -> ChunkType]
      BY <1>1, <2>2
    <3> QED BY <3>1, OthersOK
  <2> QED BY <2>1, <2>2
<1>3. HostOK'
  BY <1>1, StepHost
<1>4. allocated' \in TopLevel + 1 .. PoolSize
  BY StepAllocates
<1> QED BY <1>2, <1>3, <1>4 DEF ListInv

\* The ghosts as they are or moved on.
NextGhosts(g, w) ==
  CASE pc[w] = "copy" -> SplitGhosts(g, w)
    [] pc[w] = "lowerMax" -> LowerGhosts(g, w)
    [] pc[w] = "markZombie" -> BuryGhosts(g, w)
    [] OTHER -> g

\* Every step of a warp keeps the list in order.
LEMMA StepKeepsList ==
  ASSUME NEW g, NEW w, ListStep(g, w), NEW h, h = NextGhosts(g, w)
  PROVE  Sinks(g, h) /\ ListInv(h)'
<1>1. w \in Warps /\ Step(w) /\ g \in Ghosts
  BY StepFacts
<1>2. CASE pc[w] \notin {"copy", "lowerMax", "markZombie"}
  <2>1. chunk' \in [Chunks -> ChunkType] /\ ListOK(g)'
    BY <1>2, QuietLevels
  <2>2. WarpOK(g, w)'
    BY <1>2, QuietOwn
  <2>3. \A v \in Warps : v # w => Steady(g, g, v)
    BY StepSteady
  <2>4. ListInv(g)'
    BY <1>1, <2>1, <2>2, <2>3, ListAssembled
  <2>5. h = g
    BY <1>2 DEF NextGhosts
  <2> QED BY <1>1, <2>4, <2>5, SinksSelf
<1>3. CASE SplitCopy(w)
  <2>0. h = SplitGhosts(g, w)
    BY <1>3 DEF NextGhosts, SplitCopy, At
  <2>1. chunk' \in [Chunks -> ChunkType] /\ ListOK(h)'
    BY <1>3, <2>0, SplitCopyList
  <2>2. WarpOK(h, w)'
    BY <1>3, <2>0, SplitCopyOwn
  <2>3. \A v \in Warps : v # w => Steady(g, h, v)
    BY <1>3, <2>0, SplitCopySteady
  <2>4. h \in Ghosts /\ Sinks(g, h)
    BY <1>3, <2>0, SplitGhostFacts
  <2> QED BY <2>1, <2>2, <2>3, <2>4, ListAssembled
<1>4. CASE LowerMax(w)
  <2>0. h = LowerGhosts(g, w)
    BY <1>4 DEF NextGhosts, LowerMax, At
  <2>1. chunk' \in [Chunks -> ChunkType] /\ ListOK(h)'
    BY <1>4, <2>0, LowerMaxList
  <2>2. WarpOK(h, w)'
    BY <1>4, <2>0, LowerMaxOwn
  <2>3. \A v \in Warps : v # w => Steady(g, h, v)
    BY <1>4, <2>0, LowerMaxSteady
  <2>4. h \in Ghosts /\ Sinks(g, h)
    BY <1>4, <2>0, LowerMaxFacts
  <2> QED BY <2>1, <2>2, <2>3, <2>4, ListAssembled
<1>5. CASE MarkZombie(w)
  <2>0. h = BuryGhosts(g, w)
    BY <1>5 DEF NextGhosts, MarkZombie, At
  <2>1. chunk' \in [Chunks -> ChunkType] /\ ListOK(h)'
    BY <1>5, <2>0, MarkZombieList
  <2>2. WarpOK(h, w)'
    BY <1>5, <2>0, MarkZombieOwn
  <2>3. \A v \in Warps : v # w => Steady(g, h, v)
    BY <1>5, <2>0, MarkZombieSteady
  <2>4. h \in Ghosts /\ Sinks(g, h)
    BY <1>5, <2>0, MarkZombieFacts
  <2> QED BY <2>1, <2>2, <2>3, <2>4, ListAssembled
<1>6. CASE pc[w] \in {"copy", "lowerMax", "markZombie"}
  <2>1. pc[w] \in StoreLabels
    BY <1>6 DEF StoreLabels
  <2>2. ~UnlinkZombies(w)
    BY <1>6 DEF UnlinkZombies, At
  <2>3. ~RedirectNext(w)
    BY <1>6 DEF RedirectNext, At
  <2>4. ~ShiftRight(w)
    BY <1>6 DEF ShiftRight, At
  <2>5. ~EmptyMoved(w)
    BY <1>6 DEF EmptyMoved, At
  <2>6. ~ShiftLeft(w)
    BY <1>6 DEF ShiftLeft, At
  <2>7. ~ShiftData(w)
    BY Zenon, <1>6 DEF ShiftData, At
  <2>8. ~MergeCopy(w)
    BY <1>6 DEF MergeCopy, At
  <2>9. ~DownWrite(w)
    BY <1>6 DEF DownWrite, At
  <2>10. ~GetNewChunk(w)
    BY <1>6 DEF GetNewChunk, At
  <2> QED BY <1>1, <1>3, <1>4, <1>5, StoreActions, <2>1, <2>2, <2>3, <2>4, <2>5, <2>6, <2>7,
             <2>8, <2>9, <2>10
<1> QED BY <1>2, <1>6

-----------------------------------------------------------------------------
(* The steps of the host. *)

\* The host's next batch keeps what the host has in order.
LEMMA HostNext ==
  ASSUME HostOK, NextBatch
  PROVE  HostOK'
<1>1. /\ trace \in DOMAIN Traces /\ batch \in DOMAIN Batches
      /\ batch < Len(Batches) /\ batch' = batch + 1 /\ trace' = trace
      /\ pos' = [w \in Warps |-> w + 1]
  BY DEF HostOK, NextBatch
<1>2. Traces \in Seq(Seq([kind : {"insert", "erase"}, keys : Seq(1 .. MaxKey)]))
  BY TraceAssumption
<1>3. Batches \in Seq([kind : {"insert", "erase"}, keys : Seq(1 .. MaxKey)])
  BY <1>1, <1>2 DEF Batches
<1>4. batch' \in DOMAIN Batches
  BY <1>1, <1>3
<1>5. pos' \in [Warps -> Nat \ {0}]
  BY <1>1 DEF Warps
<1>6. Batches' = Batches
  BY <1>1 DEF Batches
<1> QED BY <1>1, <1>4, <1>5, <1>6 DEF HostOK

\* Steps that touch no word of memory and no register.
LEMMA ListUnchanged ==
  ASSUME NEW g, ListInv(g), HostOK', UNCHANGED <<chunk, allocated, pc, loc>>
  PROVE  ListInv(g)'
<1>1. chunk' = chunk /\ allocated' = allocated /\ pc' = pc /\ loc' = loc
  OBVIOUS
<1>2. \A w \in Warps : \A c : Busy(w, c)' <=> Busy(w, c)
  BY <1>1 DEF Busy
<1>3. ListOK(g)'
  BY <1>1, <1>2 DEF ListInv, ListOK, Node, EndOf, On, Linked
<1>4. ASSUME NEW w \in Warps PROVE WarpOK(g, w)'
  <2>0. WarpOK(g, w)
    BY DEF ListInv
  <2>1. SearchOK(g, w)' <=> SearchOK(g, w)
    BY <1>1 DEF SearchOK, Mine, Corpse, Follows
  <2>2. LevelOK(g, w)' <=> LevelOK(g, w)
    BY <1>1 DEF LevelOK, Mine, Inserting
  <2>3. NextOK(g, w)' <=> NextOK(g, w)
    BY <1>1 DEF NextOK, Mine, Follows
  <2>4. SplitOK(g, w)' <=> SplitOK(g, w)
    BY <1>1 DEF SplitOK, Inserting
  <2>5. ShiftOK(g, w)' <=> ShiftOK(g, w)
    BY <1>1 DEF ShiftOK, Mine
  <2>6. EraseOK(g, w)' <=> EraseOK(g, w)
    BY <1>1 DEF EraseOK, Left
  <2>7. MergeOK(g, w)' <=> MergeOK(g, w)
    BY <1>1 DEF MergeOK, Mine, Inserting
  <2>8. DownOK(g, w)' <=> DownOK(g, w)
    BY <1>1 DEF DownOK, GoingDown
  <2> QED BY <1>1, <2>0, <2>1, <2>2, <2>3, <2>4, <2>5, <2>6, <2>7, <2>8 DEF WarpOK, OnLevel
<1> QED BY <1>1, <1>3, <1>4 DEF ListInv

\* The ghosts when the list has been created: the first chunk of every level is there.
FirstGhosts ==
  [lvl |-> [c \in Chunks |-> IF c \in Levels THEN c ELSE Nil],
   low |-> [c \in Chunks |-> NegInf - 1],
   chain |-> Chunks, rank |-> [c \in Chunks |-> 0]]

-----------------------------------------------------------------------------
(* The beginning. *)

\* The list has just been created.
LEMMA ListInit == Init => ListInv(FirstGhosts)
<1> SUFFICES ASSUME Init PROVE ListInv(FirstGhosts)
  OBVIOUS
<1> DEFINE g == FirstGhosts
           blank == [i \in Lanes |-> EmptyEntry]
           first(c) == [blank EXCEPT ![0] = [k |-> NegInf, v |-> c - 1]]
<1>1. /\ \A l \in Levels : l \in Chunks /\ l \in Int /\ l < allocated /\ l >= 0
      /\ allocated = TopLevel + 1 /\ allocated \in TopLevel + 1 .. PoolSize
      /\ Chunks \subseteq Nat /\ 0 \in Lanes /\ 0 \in Levels /\ Nil \notin Chunks
      /\ NegInf < PosInf /\ NegInf \in Int /\ PosInf \in Int
      /\ \A c \in Chunks : c >= allocated => c \notin Levels
  BY ConstantsAre DEF Init, Levels, Chunks, Lanes, NegInf, PosInf, Nil
<1>2. \A c \in Chunks : FreshChunk(Nil, "unlocked") =
        [data |-> blank, max |-> PosInf, next |-> Nil, lock |-> "unlocked"]
  BY DEF FreshChunk
<1>3. EmptyEntry \in Entries /\ EmptyEntry.k = PosInf
  BY <1>1, ConstantsAre DEF EmptyEntry, Entries, NegInf, PosInf, Nil
<1>4. ASSUME NEW c \in Chunks
      PROVE  /\ first(c) \in Datas /\ first(c)[0].k = NegInf /\ first(c)[0].v = c - 1
             /\ \A i \in Lanes \ {0} : first(c)[i] = EmptyEntry
  <2>1. [k |-> NegInf, v |-> c - 1] \in Entries
    BY <1>1, ConstantsAre DEF Entries, NegInf, PosInf
  <2>2. blank \in Datas
    BY <1>3 DEF Datas
  <2> QED BY <1>1, <2>1, <2>2 DEF Datas
<1>5. ASSUME NEW c \in Chunks
      PROVE  /\ chunk[c] = [data |-> chunk[c].data, max |-> PosInf, next |-> Nil,
                            lock |-> "unlocked"]
             /\ chunk[c].data = IF c \in Levels THEN first(c) ELSE blank
             /\ chunk[c].max = PosInf /\ chunk[c].next = Nil
             /\ chunk[c].lock = "unlocked" /\ ~IsZombie(chunk[c])
  <2> HIDE DEF blank
  <2>1. CASE c \in Levels
    BY <1>2, <2>1 DEF Init, IsZombie
  <2>2. CASE c \notin Levels
    BY <1>2, <2>2 DEF Init, IsZombie
  <2> QED BY <2>1, <2>2
<1>6. chunk \in [Chunks -> ChunkType]
  <2>1. \A c \in Chunks : chunk[c] \in ChunkType
    <3> HIDE DEF first, blank
    <3>1. blank \in [Lanes -> Entries]
      BY <1>3 DEF blank
    <3>2. \A c \in Chunks : first(c) \in [Lanes -> Entries]
      BY <1>4 DEF Datas
    <3>3. PosInf \in NegInf .. PosInf
      BY <1>1
    <3> SUFFICES ASSUME NEW c \in Chunks PROVE chunk[c] \in ChunkType
      OBVIOUS
    <3>4. chunk[c].data \in [Lanes -> Entries]
      BY <1>5, <3>1, <3>2
    <3>5. chunk[c] = [data |-> chunk[c].data, max |-> PosInf, next |-> Nil,
                      lock |-> "unlocked"]
      BY <1>5
    <3> QED BY <3>3, <3>4, <3>5 DEF ChunkType, LockStates
  <2> QED BY <2>1 DEF Init
<1>7. /\ g \in Ghosts
      /\ \A c \in Chunks : /\ g.lvl[c] = IF c \in Levels THEN c ELSE Nil
                           /\ g.low[c] = NegInf - 1 /\ c \in g.chain
  BY <1>1 DEF FirstGhosts, Ghosts
<1> HIDE DEF g, first, blank
<1>8. ASSUME NEW c \in Chunks, Linked(g, c)
      PROVE  Node(g, c)
  <2>1. c \in Levels /\ g.lvl[c] = c
    BY <1>1, <1>7, <1>8 DEF Linked
  <2>2. chunk[c].data = first(c) /\ chunk[c].max = PosInf /\ chunk[c].next = Nil
        /\ ~IsZombie(chunk[c])
    BY <1>5, <2>1
  <2>3. DataOK(g, first(c), c)
    <3>1. EntryOK(g, first(c)[0], c)
      <4>1. ASSUME c > 0 PROVE On(g, c - 1, c - 1) /\ g.low[c - 1] < NegInf
        <5>1. c - 1 \in Levels
          BY <2>1, <4>1, ConstantsAre DEF Levels
        <5> QED BY <1>1, <1>7, <5>1 DEF On
      <4> QED BY <1>4, <4>1 DEF EntryOK
    <3>2. \A i \in Lanes \ {0} : EntryOK(g, first(c)[i], c)
      BY <1>3, <1>4 DEF EntryOK
    <3> QED BY <1>4, <3>1, <3>2 DEF DataOK
  <2>4. Fine(first(c), NegInf - 1, PosInf)
    <3>1. Sorted(first(c))
      <4> SUFFICES ASSUME NEW i \in Lanes, NEW j \in Lanes, i < j, first(c)[j].k # PosInf
                   PROVE  FALSE
        BY DEF Sorted
      <4>1. j # 0
        BY LanesAre
      <4> QED BY <1>3, <1>4, <4>1
    <3>2. Within(first(c), NegInf - 1, PosInf)
      <4> SUFFICES ASSUME NEW i \in Lanes, first(c)[i].k # PosInf
                   PROVE  NegInf - 1 < first(c)[i].k /\ first(c)[i].k <= PosInf
        BY DEF Within
      <4>1. i = 0
        BY <1>3, <1>4
      <4> QED BY <1>1, <1>4, <4>1
    <3> QED BY <3>1, <3>2 DEF Fine
  <2>5. g.low[c] \in NegInf - 1 .. PosInf /\ g.low[c] < PosInf
    BY <1>1, <1>7
  <2> QED BY <1>1, <1>7, <2>1, <2>2, <2>3, <2>4, <2>5 DEF Node
<1>9. ListOK(g)
  <2>1. \A l \in Levels : g.lvl[l] = l /\ g.low[l] = NegInf - 1 /\ l \in g.chain
    BY <1>1, <1>7
  <2>2. \A l \in Levels : \E c \in Chunks : On(g, l, c) /\ chunk[c].next = Nil
    BY <1>1, <1>5, <1>7 DEF On
  <2>3. \A c \in Chunks : c >= allocated => g.lvl[c] = Nil /\ chunk[c].lock = "unlocked"
    BY <1>1, <1>5, <1>7
  <2>4. \A c, d \in Chunks : Linked(g, c) /\ g.lvl[d] = g.lvl[c] => d = c
    BY <1>1, <1>7 DEF Linked
  <2> QED BY <1>8, <2>1, <2>2, <2>3, <2>4 DEF ListOK
<1>10. ASSUME NEW w \in Warps PROVE WarpOK(g, w)
  <2>1. pc[w] = "take" /\ loc[w].top = 0
    BY DEF Init, NoOp
  <2> QED BY <1>1, <2>1 DEF WarpOK, OwnLabels, SearchLabels, UnlinkLabels, Walking, OnLevel
<1>11. HostOK
  <2>1. trace \in DOMAIN Traces /\ Traces[trace] # <<>>
    BY TraceAssumption DEF Init
  <2>2. Batches \in Seq([kind : {"insert", "erase"}, keys : Seq(1 .. MaxKey)])
    BY <2>1, TraceAssumption DEF Batches
  <2>3. 1 \in DOMAIN Batches
    BY <2>1, <2>2 DEF Batches
  <2>4. pos \in [Warps -> Nat \ {0}]
    BY DEF Init, Warps
  <2> QED BY <2>1, <2>3, <2>4 DEF HostOK, Init
<1> QED BY <1>1, <1>6, <1>7, <1>9, <1>10, <1>11 DEF ListInv, g

-----------------------------------------------------------------------------
(* The invariant of the list. *)

ListedInv == ExclusiveInv /\ \E g : ListInv(g)

\* A head that counts a chunk on some level gives a height.
LEMMA HeightIsLevel ==
  ASSUME HeadCounts
  PROVE  Height \in Levels
<1> DEFINE S == {l \in Levels : ctr[l] > 0}
<1>1. S # {} /\ S \in SUBSET Levels
  BY DEF HeadCounts
<1>2. Levels \in SUBSET Nat /\ IsFiniteSet(Levels)
  BY FS_Interval, ConstantsAre DEF Levels
<1>3. S \in SUBSET Nat /\ IsFiniteSet(S)
  BY <1>1, <1>2, FS_Subset
<1>4. \E t \in S : \A u \in S : u <= t
  BY <1>1, <1>3, LargestNatural
<1> QED BY <1>1, <1>4 DEF Height, Highest

-----------------------------------------------------------------------------
(* Walks to the right.  The recursive functions have a value: the smallest    *)
(* closed set of chunks serves as one.                                        *)

\* The chunks of T have their successors in S.
ClosedOver(S, T) == \A x \in S \cap T : chunk[x].next # Nil => chunk[x].next \in S
\* What a walk from d meets that goes on from the chunks of T only.
Walk(d, T) == {e \in Chunks : \A S \in SUBSET Chunks : d \in S /\ ClosedOver(S, T) => e \in S}

\* A function by recursion along the successors satisfies its equation.
LEMMA WalkIs ==
  ASSUME chunk \in [Chunks -> ChunkType], NEW T, NEW d \in Chunks
  PROVE  Walk(d, T) = {d} \cup (IF d \in T /\ chunk[d].next # Nil
                                  THEN Walk(chunk[d].next, T) ELSE {})
<1> DEFINE n == chunk[d].next
<1>1. n # Nil => n \in Chunks
  BY ChunkIs
<1>2. d \in Walk(d, T)
  BY DEF Walk
<1>3. ASSUME d \in T, n # Nil, NEW e \in Walk(n, T)
      PROVE  e \in Walk(d, T)
  BY <1>3 DEF Walk, ClosedOver
<1>4. ASSUME NEW e \in Walk(d, T), e # d
      PROVE  d \in T /\ n # Nil /\ e \in Walk(n, T)
  <2>1. d \in T /\ n # Nil
    <3> SUFFICES ASSUME ~(d \in T /\ n # Nil) PROVE FALSE
      OBVIOUS
    <3>1. ClosedOver({d}, T)
      BY DEF ClosedOver
    <3>2. e \in {d}
      BY <3>1 DEF Walk
    <3> QED BY <1>4, <3>2
  <2>2. ASSUME NEW S \in SUBSET Chunks, n \in S, ClosedOver(S, T)
        PROVE  e \in S
    <3>1. ClosedOver(S \cup {d}, T)
      BY <2>2 DEF ClosedOver
    <3>2. e \in S \cup {d}
      BY <3>1 DEF Walk
    <3> QED BY <1>4, <3>2
  <2>3. e \in Chunks
    BY DEF Walk
  <2> QED BY <2>1, <2>2, <2>3 DEF Walk
<1> QED BY <1>2, <1>3, <1>4

\* The equation of Reach.
LEMMA ReachIs ==
  ASSUME chunk \in [Chunks -> ChunkType], NEW c \in Chunks
  PROVE  Reach(c) = {c} \cup (IF chunk[c].next = Nil THEN {} ELSE Reach(chunk[c].next))
<1> DEFINE walk[d \in Chunks] ==
             {d} \cup (IF chunk[d].next = Nil THEN {} ELSE walk[chunk[d].next])
           f == [d \in Chunks |-> Walk(d, Chunks)]
<1>1. f = [d \in Chunks |-> {d} \cup (IF chunk[d].next = Nil THEN {} ELSE f[chunk[d].next])]
  <2>1. ASSUME NEW d \in Chunks
        PROVE  f[d] = {d} \cup (IF chunk[d].next = Nil THEN {} ELSE f[chunk[d].next])
    <3>1. chunk[d].next = Nil \/ chunk[d].next \in Chunks
      BY ChunkIs
    <3> QED BY <3>1, WalkIs
  <2> QED BY <2>1
<1> HIDE DEF f
<1>2. walk = [d \in Chunks |-> {d} \cup (IF chunk[d].next = Nil THEN {}
                                           ELSE walk[chunk[d].next])]
  BY <1>1
<1>3. \A d : Reach(d) = walk[d]
  BY DEF Reach
<1> HIDE DEF walk
<1> QED BY <1>2, <1>3

\* The chunks from which a search for k goes on.
Short(k) == {d \in Chunks : ~Covers(d, k)}

\* The equation of FirstCovering.
LEMMA FirstCoveringIs ==
  ASSUME chunk \in [Chunks -> ChunkType], NEW k, NEW c \in Chunks
  PROVE  /\ Covers(c, k) => FirstCovering(c, k) = c
         /\ ~Covers(c, k) /\ chunk[c].next # Nil =>
              FirstCovering(c, k) = FirstCovering(chunk[c].next, k)
<1> DEFINE walk[d \in Chunks \cup {Nil}] ==
             IF d = Nil THEN Nil ELSE IF Covers(d, k) THEN d ELSE walk[chunk[d].next]
           Ends(d) == {e \in Walk(d, Short(k)) : Covers(e, k)}
           The(S) == CHOOSE e : e \in S
           f == [d \in Chunks \cup {Nil} |->
                   IF d = Nil \/ Ends(d) = {} THEN Nil ELSE The(Ends(d))]
<1>0. Nil \notin Chunks
  BY DEF Nil, Chunks
<1>1. f = [d \in Chunks \cup {Nil} |->
             IF d = Nil THEN Nil ELSE IF Covers(d, k) THEN d ELSE f[chunk[d].next]]
  <2>1. ASSUME NEW d \in Chunks
        PROVE  f[d] = IF Covers(d, k) THEN d ELSE f[chunk[d].next]
    <3>1. chunk[d].next \in Chunks \cup {Nil}
      BY ChunkIs
    <3>2. CASE Covers(d, k)
      <4>1. Walk(d, Short(k)) = {d}
        BY <3>2, WalkIs DEF Short
      <4>2. Ends(d) = {d}
        BY <3>2, <4>1
      <4> HIDE DEF Ends
      <4> QED BY <1>0, <3>2, <4>2
    <3>3. CASE ~Covers(d, k) /\ chunk[d].next = Nil
      <4>1. Walk(d, Short(k)) = {d}
        BY <3>3, WalkIs DEF Short
      <4>2. Ends(d) = {}
        BY <3>3, <4>1
      <4> HIDE DEF Ends
      <4> QED BY <1>0, <3>3, <4>2
    <3>4. CASE ~Covers(d, k) /\ chunk[d].next # Nil
      <4>1. Walk(d, Short(k)) = {d} \cup Walk(chunk[d].next, Short(k))
        BY <3>4, WalkIs DEF Short
      <4>2. Ends(d) = Ends(chunk[d].next)
        BY <3>4, <4>1
      <4>3. The(Ends(d)) = The(Ends(chunk[d].next))
        BY <4>2
      <4> HIDE DEF Ends, The
      <4>4. f[d] = IF Ends(d) = {} THEN Nil ELSE The(Ends(d))
        BY <1>0
      <4>5. f[chunk[d].next] = IF Ends(chunk[d].next) = {} THEN Nil
                               ELSE The(Ends(chunk[d].next))
        BY <3>1, <3>4
      <4> HIDE DEF f
      <4> QED BY <3>4, <4>2, <4>3, <4>4, <4>5
    <3> QED BY <3>2, <3>3, <3>4
  <2> HIDE DEF walk, Ends, The
  <2>2. f[Nil] = Nil /\ f = [d \in Chunks \cup {Nil} |-> f[d]]
    OBVIOUS
  <2> HIDE DEF f
  <2> QED BY <1>0, <2>1, <2>2
<1> HIDE DEF f
<1>2. walk = [d \in Chunks \cup {Nil} |->
                IF d = Nil THEN Nil ELSE IF Covers(d, k) THEN d ELSE walk[chunk[d].next]]
  BY <1>1
<1>3. \A d : FirstCovering(d, k) = walk[d]
  BY DEF FirstCovering
<1> HIDE DEF walk
<1> QED BY <1>0, <1>2, <1>3

-----------------------------------------------------------------------------
(* Walks on the levels of the list. *)

\* What a chunk of a level and its successor are.
LEMMA NextOfNode ==
  ASSUME NEW g, ListInv(g), NEW l \in Levels, NEW c, On(g, l, c)
  PROVE  /\ c \in Chunks /\ chunk \in [Chunks -> ChunkType]
         /\ g.low[c] \in Int /\ chunk[c].max \in Int /\ chunk[c].max <= PosInf /\ g.rank[c] \in Nat
         /\ chunk[c].next = Nil => ~IsZombie(chunk[c]) /\ chunk[c].max = PosInf
         /\ chunk[c].next # Nil =>
              /\ On(g, l, chunk[c].next) /\ chunk[c].next \in Chunks
              /\ g.rank[chunk[c].next] < g.rank[c] /\ g.rank[chunk[c].next] \in Nat
              /\ g.low[chunk[c].next] \in Int
              /\ c \in g.chain =>
                   chunk[c].next \in g.chain /\ g.low[chunk[c].next] = EndOf(g, c)
              /\ IsZombie(chunk[c]) => g.low[chunk[c].next] <= g.low[c]
         /\ ~IsZombie(chunk[c]) => c \in g.chain /\ g.low[c] < chunk[c].max
<1>1. Linked(g, c) /\ c \in Chunks /\ g.lvl[c] = l
  BY OnIsLinked
<1>2. Node(g, c) /\ g \in Ghosts /\ chunk \in [Chunks -> ChunkType]
  BY <1>1, NodeIs DEF ListInv
<1>3. chunk[c].max \in NegInf .. PosInf /\ chunk[c].max \in Int /\ PosInf \in Int
  BY <1>1, <1>2, ChunkIs, ConstantsAre DEF PosInf
<1>4. g.rank[c] \in Nat /\ g.low[c] \in Int
  BY <1>1, <1>2, GhostsAre
<1>5. ASSUME chunk[c].next # Nil
      PROVE  /\ On(g, l, chunk[c].next) /\ chunk[c].next \in Chunks
             /\ g.rank[chunk[c].next] \in Nat /\ g.low[chunk[c].next] \in Int
  <2>1. On(g, l, chunk[c].next)
    BY <1>1, <1>2, <1>5 DEF Node
  <2> QED BY <2>1, <1>2, GhostsAre DEF On
<1> QED BY <1>1, <1>2, <1>3, <1>4, <1>5, ConstantsAre DEF Node, NegInf, PosInf

\* Chunks of a level that are alive do not overlap.
LEMMA AliveApart ==
  ASSUME NEW g, ListInv(g), NEW l \in Levels, NEW c, NEW d, On(g, l, c), On(g, l, d),
         c # d, ~IsZombie(chunk[c]), ~IsZombie(chunk[d])
  PROVE  chunk[c].max <= g.low[d] \/ chunk[d].max <= g.low[c]
<1>1. Linked(g, c) /\ c \in Chunks /\ d \in Chunks /\ g.lvl[d] = g.lvl[c]
  BY OnIsLinked DEF On
<1> QED BY <1>1 DEF ListInv, ListOK

\* Reach, along a level.
LEMMA ReachNext ==
  ASSUME NEW g, ListInv(g), NEW l \in Levels, NEW c, On(g, l, c)
  PROVE  /\ c \in Reach(c)
         /\ chunk[c].next = Nil => Reach(c) = {c}
         /\ chunk[c].next # Nil => Reach(c) = {c} \cup Reach(chunk[c].next)
<1>1. c \in Chunks /\ chunk \in [Chunks -> ChunkType]
  BY NextOfNode
<1>2. Reach(c) = {c} \cup (IF chunk[c].next = Nil THEN {} ELSE Reach(chunk[c].next))
  BY <1>1, ReachIs
<1> QED BY <1>2

\* A walk stays on its level.
LEMMA ReachOnLevel ==
  ASSUME NEW g, ListInv(g), NEW l \in Levels, NEW c, On(g, l, c)
  PROVE  \A d \in Reach(c) : On(g, l, d)
<1> DEFINE Bad == {x \in Chunks : On(g, l, x) /\ \E d \in Reach(x) : ~On(g, l, d)}
           Ranks == {g.rank[x] : x \in Bad}
<1> SUFFICES ASSUME Bad # {} PROVE FALSE
  BY DEF On
<1>1. Ranks \in SUBSET Nat /\ Ranks # {}
  BY NextOfNode
<1>2. PICK m \in Ranks : \A n \in Ranks : m <= n
  BY <1>1, LeastNatural
<1>3. PICK x \in Bad : \A y \in Bad : g.rank[x] <= g.rank[y]
  BY <1>2
<1>4. On(g, l, x) /\ g.rank[x] \in Nat
  BY NextOfNode
<1>5. CASE chunk[x].next = Nil
  BY <1>4, <1>5, ReachNext
<1>6. CASE chunk[x].next # Nil
  <2> DEFINE n == chunk[x].next
  <2>1. On(g, l, n) /\ n \in Chunks /\ g.rank[n] < g.rank[x] /\ g.rank[n] \in Nat
    BY <1>4, <1>6, NextOfNode
  <2>2. Reach(x) = {x} \cup Reach(n)
    BY <1>4, <1>6, ReachNext
  <2>3. n \in Bad
    BY <1>4, <2>1, <2>2
  <2> QED BY <1>3, <1>4, <2>1, <2>3
<1> QED BY <1>5, <1>6

\* From a chunk of the chain all chunks that are alive and begin where its keys end, or
\* further up, are reached.
LEMMA ReachesAlive ==
  ASSUME NEW g, ListInv(g), NEW l \in Levels, NEW d, On(g, l, d), ~IsZombie(chunk[d]),
         NEW c, On(g, l, c), c \in g.chain, EndOf(g, c) <= g.low[d]
  PROVE  d \in Reach(c)
<1> DEFINE Bad == {x \in Chunks : /\ On(g, l, x) /\ x \in g.chain /\ EndOf(g, x) <= g.low[d]
                                  /\ d \notin Reach(x)}
           Ranks == {g.rank[x] : x \in Bad}
<1> SUFFICES ASSUME Bad # {} PROVE FALSE
  BY DEF On
<1>1. Ranks \in SUBSET Nat /\ Ranks # {}
  BY NextOfNode
<1>2. PICK m \in Ranks : \A n \in Ranks : m <= n
  BY <1>1, LeastNatural
<1>3. PICK x \in Bad : \A y \in Bad : g.rank[x] <= g.rank[y]
  BY <1>2
<1>4. /\ On(g, l, x) /\ g.rank[x] \in Nat /\ x \in g.chain /\ EndOf(g, x) <= g.low[d]
      /\ d \notin Reach(x)
  BY NextOfNode
<1>5. g.low[d] \in Int /\ chunk[d].max \in Int /\ g.low[d] < chunk[d].max /\ PosInf \in Int
      /\ chunk[d].max <= PosInf
  BY NextOfNode, ConstantsAre DEF PosInf
<1>6. CASE chunk[x].next = Nil
  <2>1. EndOf(g, x) = PosInf
    BY <1>4, <1>6, NextOfNode DEF EndOf
  <2> QED BY <1>4, <1>5, <2>1
<1>7. CASE chunk[x].next # Nil
  <2> DEFINE n == chunk[x].next
  <2>1. /\ On(g, l, n) /\ n \in Chunks /\ g.rank[n] < g.rank[x] /\ g.rank[n] \in Nat
        /\ n \in g.chain /\ g.low[n] = EndOf(g, x)
    BY <1>4, <1>7, NextOfNode
  <2>2. Reach(x) = {x} \cup Reach(n) /\ n \in Reach(n)
    BY <1>4, <1>7, <2>1, ReachNext
  <2>3. n \notin Bad
    BY <1>3, <1>4, <2>1
  <2>4. ~(EndOf(g, n) <= g.low[d]) /\ n # d
    BY <1>4, <2>1, <2>2, <2>3
  <2>5. ~IsZombie(chunk[n]) /\ EndOf(g, n) = chunk[n].max
    BY <1>4, <2>1, <2>4 DEF EndOf
  <2>6. chunk[n].max <= g.low[d] \/ chunk[d].max <= g.low[n]
    BY <2>1, <2>4, <2>5, AliveApart
  <2>7. g.low[n] \in Int
    BY <2>1, NextOfNode
  <2> QED BY <1>4, <1>5, <2>1, <2>4, <2>5, <2>6, <2>7
<1> QED BY <1>6, <1>7

\* The chunk of a level that encloses a key.
Encloses(g, l, c, k) ==
  On(g, l, c) /\ ~IsZombie(chunk[c]) /\ g.low[c] < k /\ k <= chunk[c].max

\* One chunk of a level encloses a key,
LEMMA EnclosesOne ==
  ASSUME NEW g, ListInv(g), NEW l \in Levels, NEW k \in Int,
         NEW c, NEW d, Encloses(g, l, c, k), Encloses(g, l, d, k)
  PROVE  c = d
<1>1. g.low[c] \in Int /\ chunk[c].max \in Int /\ g.low[d] \in Int /\ chunk[d].max \in Int
  BY NextOfNode DEF Encloses
<1> QED BY <1>1, AliveApart DEF Encloses

\* A walk to the right for key k from a chunk that begins below k ends at the chunk that
\* encloses k.
LEMMA CoveringFrom ==
  ASSUME NEW g, ListInv(g), NEW l \in Levels, NEW k \in Int, k <= PosInf,
         NEW c, From(g, l, c, k)
  PROVE  FirstCovering(c, k) \in Reach(c) /\ Encloses(g, l, FirstCovering(c, k), k)
<1> DEFINE Good(x) == FirstCovering(x, k) \in Reach(x)
                        /\ Encloses(g, l, FirstCovering(x, k), k)
           Bad == {x \in Chunks : From(g, l, x, k) /\ ~Good(x)}
           Ranks == {g.rank[x] : x \in Bad}
<1> SUFFICES ASSUME Bad # {} PROVE FALSE
  BY DEF From, On
<1>1. Ranks \in SUBSET Nat /\ Ranks # {}
  BY NextOfNode DEF From
<1>2. PICK m \in Ranks : \A n \in Ranks : m <= n
  BY <1>1, LeastNatural
<1>3. PICK x \in Bad : \A y \in Bad : g.rank[x] <= g.rank[y]
  BY <1>2
<1>4. /\ On(g, l, x) /\ g.low[x] < k /\ x \in Chunks /\ ~Good(x)
  BY DEF From
<1>5. /\ chunk \in [Chunks -> ChunkType] /\ g.low[x] \in Int /\ chunk[x].max \in Int
      /\ g.rank[x] \in Nat
  BY <1>4, NextOfNode
<1>6. CASE Covers(x, k)
  <2>1. FirstCovering(x, k) = x
    BY <1>4, <1>5, <1>6, FirstCoveringIs
  <2>2. x \in Reach(x)
    BY <1>4, ReachNext
  <2> QED BY <1>4, <1>6, <2>1, <2>2 DEF Covers, Encloses
<1>7. CASE ~Covers(x, k)
  <2> DEFINE n == chunk[x].next
  <2>1. n # Nil
    BY <1>4, <1>7, NextOfNode DEF Covers
  <2>2. /\ On(g, l, n) /\ n \in Chunks /\ g.rank[n] < g.rank[x] /\ g.rank[n] \in Nat
        /\ g.low[n] \in Int
    BY <1>4, <2>1, NextOfNode
  <2>3. g.low[n] < k
    <3>1. CASE IsZombie(chunk[x])
      <4>1. g.low[n] <= g.low[x]
        BY <1>4, <2>1, <3>1, NextOfNode
      <4> QED BY <1>4, <1>5, <2>2, <4>1
    <3>2. CASE ~IsZombie(chunk[x])
      <4>1. g.low[n] = chunk[x].max
        BY <1>4, <2>1, <3>2, NextOfNode DEF EndOf
      <4> QED BY <1>5, <1>7, <3>2, <4>1 DEF Covers
    <3> QED BY <3>1, <3>2
  <2>4. Good(n)
    <3>1. n \notin Bad
      BY <1>3, <1>5, <2>2
    <3> QED BY <2>2, <2>3, <3>1 DEF From
  <2>5. FirstCovering(x, k) = FirstCovering(n, k)
    BY <1>4, <1>5, <1>7, <2>1, FirstCoveringIs
  <2>6. Reach(x) = {x} \cup Reach(n)
    BY <1>4, <2>1, ReachNext
  <2> QED BY <1>4, <2>4, <2>5, <2>6
<1> QED BY <1>6, <1>7

\* the one that a walk from the head of the level finds.
LEMMA HomeIs ==
  ASSUME NEW g, ListInv(g), NEW l \in Levels, NEW k \in NegInf .. PosInf
  PROVE  Encloses(g, l, Home(l, k), k) /\ k \in Int /\ k <= PosInf
<1>1. From(g, l, l, k) /\ k \in Int /\ k <= PosInf
  <2>1. g.lvl[l] = l /\ g.low[l] = NegInf - 1 /\ l \in Chunks
    BY ConstantsAre DEF ListInv, ListOK, Levels, Chunks
  <2> QED BY <2>1, ConstantsAre DEF From, On, NegInf, PosInf
<1>2. Encloses(g, l, FirstCovering(l, k), k)
  BY <1>1, CoveringFrom
<1> QED BY <1>1, <1>2 DEF Home

-----------------------------------------------------------------------------
(* Sorted chunks, down pointers and keys. *)

\* The keys of a level: those that a chunk that encloses them has.
LEMMA LevelKeysAre ==
  ASSUME NEW g, ListInv(g), NEW l \in Levels, NEW k
  PROVE  k \in LevelKeys(l) <=>
           /\ k \in NegInf + 1 .. MaxKey
           /\ \E c \in Chunks : Encloses(g, l, c, k) /\ HasKey(chunk[c].data, k)
<1> SUFFICES ASSUME k \in NegInf + 1 .. MaxKey
             PROVE  k \in LevelKeys(l) <=>
                      \E c \in Chunks : Encloses(g, l, c, k) /\ HasKey(chunk[c].data, k)
  BY DEF LevelKeys
<1> DEFINE h == Home(l, k)
<1>1. k \in NegInf .. PosInf /\ k # PosInf /\ k \in Int
  BY ConstantsAre DEF NegInf, PosInf
<1>2. Encloses(g, l, h, k)
  BY <1>1, HomeIs
<1>3. h \in Chunks /\ h # Nil
  BY <1>2, LevelsAre DEF Encloses, On
<1>4. k \in KeysOf(chunk[h]) <=> HasKey(chunk[h].data, k)
  BY <1>1 DEF KeysOf, OccupiedLanes, HasKey
<1>5. k \in LevelKeys(l) <=> HasKey(chunk[h].data, k)
  BY <1>3, <1>4 DEF LevelKeys
<1>6. \A c \in Chunks : Encloses(g, l, c, k) => c = h
  BY <1>1, <1>2, EnclosesOne
<1> QED BY <1>2, <1>3, <1>5, <1>6

\* Chunks are in order.
LEMMA ListSorted == ListedInv => ChunksSorted
<1> SUFFICES ASSUME NEW g, ListInv(g), ExclusiveInv,
                    NEW l \in Levels, NEW c \in Alive(l), chunk[c].lock = "unlocked"
             PROVE  LET n == OccupiedSlots(chunk[c])
                    IN  /\ \A i \in Lanes : (chunk[c].data[i].k # PosInf) = (i < n)
                        /\ \A i \in 1 .. n - 1 :
                             chunk[c].data[i - 1].k < chunk[c].data[i].k
                        /\ \A k \in KeysOf(chunk[c]) :
                             /\ k <= chunk[c].max
                             /\ \A d \in Alive(l) \ Reach(c) : chunk[d].max < k
  BY DEF ListedInv, ChunksSorted
<1> DEFINE data == chunk[c].data
           n == Occ(data)
<1>1. On(g, l, l)
  BY ConstantsAre DEF ListInv, ListOK, On, Levels, Chunks
<1>2. On(g, l, c) /\ ~IsZombie(chunk[c]) /\ Linked(g, c) /\ c \in Chunks
  BY <1>1, ReachOnLevel, OnIsLinked DEF Alive
<1>3. Fine(data, g.low[c], chunk[c].max) /\ data \in Datas /\ g.low[c] \in Int
  <2>1. \A w \in Warps : ~Holds(w, c)
    BY <1>2 DEF ExclusiveInv, LocksExclusive
  <2>2. ASSUME NEW w \in Warps, Busy(w, c) PROVE FALSE
    BY <2>1, <2>2 DEF ExclusiveInv, ReleaseInv, Control, Busy, Holds, HasEnc, HasNxt, HasNew,
                      Shifting, LevelLabels, SplitLabels, MergeLabels
  <2> QED BY <1>2, <2>2, DataOfNode, NextOfNode DEF DataOK
<1>4. OccupiedSlots(chunk[c]) = n
  BY DEF OccupiedSlots, OccupiedLanes, Occ
<1>5. n \in 0 .. DSize /\ \A i \in Lanes : data[i].k # PosInf <=> i < n
  BY <1>3, PackedIs DEF Fine
<1> HIDE DEF n
<1>6. ASSUME NEW i \in 1 .. n - 1
      PROVE  data[i - 1].k < data[i].k
  <2>1. i - 1 \in Lanes /\ i \in Lanes /\ i - 1 < i /\ i < n
    BY <1>5, LanesAre, ConstantsAre
  <2> QED BY <1>3, <1>5, <2>1 DEF Fine, Sorted
<1>7. ASSUME NEW k \in KeysOf(chunk[c])
      PROVE  /\ k <= chunk[c].max
             /\ \A d \in Alive(l) \ Reach(c) : chunk[d].max < k
  <2>1. PICK i \in Lanes : k = data[i].k /\ data[i].k # PosInf
    BY DEF KeysOf, OccupiedLanes
  <2>2. g.low[c] < k /\ k <= chunk[c].max /\ k \in Int
    BY <1>3, <2>1, KeysAre DEF Fine, Within
  <2>3. ASSUME NEW d \in Alive(l) \ Reach(c)
        PROVE  chunk[d].max < k
    <3>1. On(g, l, d) /\ ~IsZombie(chunk[d])
      BY <1>1, ReachOnLevel DEF Alive
    <3>2. d # c
      BY <1>2, ReachNext
    <3>3. ~(chunk[c].max <= g.low[d])
      <4>1. c \in g.chain /\ EndOf(g, c) = chunk[c].max
        BY <1>2, NextOfNode DEF EndOf
      <4> QED BY <1>2, <3>1, <4>1, ReachesAlive
    <3>4. chunk[d].max <= g.low[c]
      BY <1>2, <3>1, <3>2, <3>3, AliveApart
    <3>5. chunk[d].max \in Int
      BY <3>1, NextOfNode
    <3> QED BY <1>3, <2>2, <3>4, <3>5
  <2> QED BY <2>2, <2>3
<1>8. \A i \in Lanes : (data[i].k # PosInf) = (i < n)
  BY <1>5
<1> QED BY <1>4, <1>6, <1>7, <1>8

\* A down pointer leads to the left of its key.
LEMMA ListLagsLeft == ListedInv => DownPointersLagLeft
<1> SUFFICES ASSUME NEW g, ListInv(g), NEW l \in Levels \ {0}, NEW c \in Reach(l),
                    NEW i \in OccupiedLanes(chunk[c])
             PROVE  Home(l - 1, chunk[c].data[i].k) \in Reach(chunk[c].data[i].v)
  BY DEF ListedInv, DownPointersLagLeft
<1> DEFINE e == chunk[c].data[i]
<1>1. On(g, l, l)
  BY ConstantsAre DEF ListInv, ListOK, On, Levels, Chunks
<1>2. On(g, l, c) /\ Linked(g, c) /\ g.lvl[c] = l /\ l > 0 /\ l - 1 \in Levels
  <2>1. On(g, l, c)
    BY <1>1, ReachOnLevel
  <2>2. Linked(g, c) /\ g.lvl[c] = l
    BY <2>1, OnIsLinked
  <2> QED BY <2>1, <2>2, ConstantsAre DEF Levels
<1>3. i \in Lanes /\ e.k # PosInf
  BY DEF OccupiedLanes
<1>4. DataOK(g, chunk[c].data, l)
  BY <1>2, DataOfNode
<1>5. From(g, l - 1, e.v, e.k) /\ e.k \in NegInf .. PosInf
  <2>1. EntryOK(g, e, l) /\ chunk[c].data \in Datas
    BY <1>3, <1>4 DEF DataOK
  <2>2. e.k \in NegInf .. PosInf
    BY <1>3, <2>1, KeysAre, ConstantsAre DEF NegInf, PosInf
  <2> QED BY <1>2, <1>3, <2>1, <2>2 DEF EntryOK, From
<1> HIDE DEF e
<1>6. e.k \in Int /\ e.k <= PosInf /\ Encloses(g, l - 1, Home(l - 1, e.k), e.k)
  BY <1>2, <1>5, HomeIs
<1>7. /\ FirstCovering(e.v, e.k) \in Reach(e.v)
      /\ Encloses(g, l - 1, FirstCovering(e.v, e.k), e.k)
  BY <1>2, <1>5, <1>6, CoveringFrom
<1>8. FirstCovering(e.v, e.k) = Home(l - 1, e.k)
  BY <1>2, <1>6, <1>7, EnclosesOne
<1>9. Home(l - 1, e.k) \in Reach(e.v)
  BY <1>7, <1>8
<1> QED BY <1>9 DEF e

\* A walk to the right for a key from a chunk that begins below it ends at the chunk that
\* encloses the key, in every state.
LEMMA Goes ==
  \A h : \A l \in Levels : \A k \in NegInf .. PosInf : \A c :
    ListInv(h) /\ From(h, l, c, k) =>
      FirstCovering(c, k) \in Reach(c) /\ FirstCovering(c, k) = Home(l, k)
<1> SUFFICES ASSUME NEW h, NEW l \in Levels, NEW k \in NegInf .. PosInf, NEW c,
                    ListInv(h), From(h, l, c, k)
             PROVE  FirstCovering(c, k) \in Reach(c) /\ FirstCovering(c, k) = Home(l, k)
  OBVIOUS
<1>1. Encloses(h, l, Home(l, k), k) /\ k \in Int /\ k <= PosInf
  BY HomeIs
<1>2. /\ FirstCovering(c, k) \in Reach(c)
      /\ Encloses(h, l, FirstCovering(c, k), k)
  BY <1>1, CoveringFrom
<1> QED BY <1>1, <1>2, EnclosesOne

\* That, in the next state.
LEMMA GoesNext ==
  (\A h : \A l \in Levels : \A k \in NegInf .. PosInf : \A c :
    ListInv(h) /\ From(h, l, c, k) =>
      FirstCovering(c, k) \in Reach(c) /\ FirstCovering(c, k) = Home(l, k))'
BY Goes, PTL

\* Where a key is enclosed after a step is reached from where it was before.
LEMMA MovesRight ==
  ASSUME NEW g, NEW h, ListInv(g), ListInv(h)', Sinks(g, h),
         NEW l \in Levels, NEW k \in NegInf .. PosInf,
         NEW c, c = Home(l, k)
  PROVE  Home(l, k)' \in Reach(c)'
<1>1. Encloses(g, l, c, k) /\ k \in Int /\ k <= PosInf
  BY HomeIs
<1>2. From(g, l, c, k)
  BY <1>1 DEF Encloses, From
<1>3. From(h, l, c, k)
  BY <1>1, <1>2, FromKept
<1>4. ListInv(h)' /\ From(h, l, c, k)' =>
        FirstCovering(c, k)' \in Reach(c)' /\ FirstCovering(c, k)' = Home(l, k)'
  BY GoesNext
<1>5. From(h, l, c, k)'
  BY <1>3 DEF From, On
<1> QED BY <1>4, <1>5

\* No step takes a key to a chunk that a walk from its former chunk does not meet.
LEMMA KeysMovedRight ==
  ListedInv /\ PoolSuffices' /\ HeadCounts /\ [Next]_vars =>
    [\A l \in Levels : \A k \in LevelKeys(l) : \A h \in {Home(l, k)} :
       Home(l, k)' = h \/ Home(l, k)' \in Reach(h)']_chunk
<1> SUFFICES ASSUME ListedInv, PoolSuffices', HeadCounts, [Next]_vars, chunk' # chunk,
                    NEW l \in Levels, NEW k \in LevelKeys(l), NEW c, c = Home(l, k)
             PROVE  Home(l, k)' \in Reach(c)'
  OBVIOUS
<1>1. PICK g : ListInv(g)
  BY DEF ListedInv
<1>2. PICK w \in Warps : Step(w)
  BY DEF Next, NextBatch, Finished, mem, vars
<1>3. ListStep(g, w)
  BY <1>1, <1>2, HeightIsLevel DEF ListStep, ListedInv, PoolSuffices
<1>4. PICK q : q = NextGhosts(g, w)
  OBVIOUS
<1>6. Sinks(g, q) /\ ListInv(q)'
  BY <1>3, <1>4, StepKeepsList
<1>5. k \in NegInf .. PosInf
  BY ConstantsAre DEF LevelKeys, NegInf, PosInf
<1> QED BY <1>1, <1>5, <1>6, MovesRight

-----------------------------------------------------------------------------
(* Where a step goes, and which registers it keeps. *)

\* The labels that can follow label l.
Follow(l) ==
  CASE l = "take" -> {"search"}
    [] l \in {"return"} -> {"take"}
    [] l = "search" -> {"read"}
    [] l = "read" -> {"reread", "read", "searched", "tryLock"}
    [] l = "tryLock" -> {"recheck", "searched", "read"}
    [] l = "recheck" -> {"skip", "giveUp"}
    [] l = "giveUp" -> {"searched", "read"}
    [] l = "skip" -> {"skip", "unlink"}
    [] l = "unlink" -> {"unlinked"}
    [] l = "unlinked" -> {"reread", "read", "searched"}
    [] l = "reread" -> {"searched", "read", "search"}
    [] l = "searched" -> {"return", "enclose", "downRead"}
    [] l = "enclose" -> {"enclose", "encLock"}
    [] l = "encLock" -> {"encCheck"}
    [] l = "encCheck" -> {"encRetry", "unlockBottom", "unlockEnc", "shift", "nextRead",
                          "lowerMax", "unshift"}
    [] l = "encRetry" -> {"enclose"}
    [] l \in {"nextRead", "nextSet"} -> {"nextWalk", "mergeRead", "alloc"}
    [] l = "nextWalk" -> {"nextWalk", "nextLock"}
    [] l = "nextLock" -> {"nextCheck"}
    [] l = "nextCheck" -> {"nextWalk", "nextSet"}
    [] l = "alloc" -> {"copy", "unlockNext"}
    [] l = "unlockNext" -> {"copy"}
    [] l = "copy" -> {"empty"}
    [] l = "empty" -> {"shift", "unlockNew"}
    [] l = "unlockOther" -> {"count", "search"}
    [] l = "shift" -> {"shift", "unlockOther", "unlockBottom", "isEmpty"}
    [] l = "isEmpty" -> {"count", "unlockEnc"}
    [] l = "count" -> {"raise", "unlockEnc"}
    [] l \in {"raise", "height", "unlockEnc"} -> {"enclose", "unlockBottom"}
    [] l = "lowerMax" -> {"unshift"}
    [] l = "unshift" -> {"unshift", "height", "unlockEnc"}
    [] l = "mergeRead" -> {"nextRead", "mergeShift"}
    [] l = "unlockNew" -> {"mergeShift"}
    [] l \in {"mergeShift", "shiftBy"} -> {"shiftBy", "mergeCopy"}
    [] l = "mergeCopy" -> {"markZombie"}
    [] l = "markZombie" -> {"uncount", "search", "unlockMerged"}
    [] l = "uncount" -> {"search", "unlockMerged"}
    [] l = "unlockMerged" -> {"height", "unlockEnc"}
    [] l \in {"downRead", "downUnlock"} -> {"downLock", "downRead", "count", "unlockMerged"}
    [] l = "downLock" -> {"downWrite"}
    [] l = "downWrite" -> {"downUnlock"}
    [] OTHER -> {"return"}

\* Steps go from label to label as Follow says.
LEMMA StepFollows ==
  ASSUME RegistersOK, NEW w \in Warps, Step(w)
  PROVE  pc'[w] \in Follow(pc[w])
<1>0. pc = [v \in Warps |-> pc[v]]
  BY ZenonT(20) DEF RegistersOK
<1> USE DEF At, GoTo, Follow
<1>1. CASE StartOp(w)
  BY ZenonT(20), <1>0, <1>1 DEF StartOp
<1>2. CASE ReturnResult(w)
  BY ZenonT(20), <1>0, <1>2 DEF ReturnResult
<1>3. CASE SearchStart(w)
  BY ZenonT(20), <1>0, <1>3 DEF SearchStart
<1>4. CASE SearchRead(w)
  BY ZenonT(20), <1>0, <1>4 DEF SearchRead, GoRight
<1>5. CASE SearchMeetZombie(w)
  BY Zenon, <1>0, <1>5 DEF SearchMeetZombie, GoRight
<1>6. CASE TryLockPrev(w)
  BY Zenon, <1>0, <1>6 DEF TryLockPrev
<1>7. CASE TryLockFails(w)
  BY Zenon, <1>0, <1>7 DEF TryLockFails, GoRight
<1>8. CASE RecheckPrev(w)
  BY Zenon, <1>0, <1>8 DEF RecheckPrev
<1>9. CASE GiveUpUnlink(w)
  BY Zenon, <1>0, <1>9 DEF GiveUpUnlink, GoRight
<1>10. CASE SkipZombie(w)
  BY <1>0, <1>10 DEF SkipZombie
<1>11. CASE UnlinkZombies(w)
  BY <1>0, <1>11 DEF UnlinkZombies
<1>12. CASE UnlockPrev(w)
  BY ZenonT(20), <1>0, <1>12 DEF UnlockPrev
<1>13. CASE StepRight(w)
  BY ZenonT(20), <1>0, <1>13 DEF StepRight, GoRight
<1>14. CASE StepDown(w)
  BY Zenon, <1>0, <1>14 DEF StepDown, GoDown
<1>15. CASE BackTrack(w)
  BY Zenon, <1>0, <1>15 DEF BackTrack, GoDown
<1>16. CASE RestartSearch(w)
  BY Zenon, <1>0, <1>16 DEF RestartSearch
<1>17. CASE SearchRefuses(w)
  BY Zenon, <1>0, <1>17 DEF SearchRefuses, OwnSearch
<1>18. CASE SearchLeads(w)
  BY <1>0, <1>18 DEF SearchLeads, OwnSearch
<1>19. CASE WalkToEnclosing(w)
  BY Zenon, <1>0, <1>19 DEF WalkToEnclosing
<1>20. CASE LockEnclosing(w)
  BY <1>0, <1>20 DEF LockEnclosing
<1>21. CASE NotEnclosing(w)
  BY Zenon, <1>0, <1>21 DEF NotEnclosing
<1>22. CASE RetryEnclosing(w)
  BY Zenon, <1>0, <1>22 DEF RetryEnclosing
<1>23. CASE ReadNext(w)
  BY <1>0, <1>23 DEF ReadNext, AfterNext
<1>24. CASE WalkToNext(w)
  BY <1>0, <1>24 DEF WalkToNext
<1>25. CASE LockNext(w)
  BY <1>0, <1>25 DEF LockNext
<1>26. CASE CheckNext(w)
  BY Zenon, <1>0, <1>26 DEF CheckNext
<1>27. CASE RedirectNext(w)
  BY <1>0, <1>27 DEF RedirectNext, AfterNext
<1>28. CASE GetNewChunk(w)
  BY <1>0, <1>28 DEF GetNewChunk
<1>29. CASE UnlockNext(w)
  BY Zenon, <1>0, <1>29 DEF UnlockNext
<1>30. CASE SplitCopy(w)
  BY <1>0, <1>30 DEF SplitCopy
<1>31. CASE EmptyMoved(w)
  BY ZenonT(20), <1>0, <1>31 DEF EmptyMoved
<1>32. CASE UnlockOther(w)
  BY ZenonT(20), <1>0, <1>32 DEF UnlockOther, BeginDown
<1>33. CASE InsertPresent(w)
  BY Zenon, <1>0, <1>33 DEF InsertPresent, Enclosing
<1>34. CASE InsertFits(w)
  BY <1>0, <1>34 DEF InsertFits, Enclosing
<1>35. CASE InsertOverflows(w)
  BY <1>0, <1>35 DEF InsertOverflows, Enclosing
<1>36. CASE ShiftRight(w)
  BY <1>0, <1>36 DEF ShiftRight
<1>37. CASE IsLevelEmpty(w)
  BY <1>0, <1>37 DEF IsLevelEmpty
<1>38. CASE IncrementNumChunks(w)
  BY Zenon, <1>0, <1>38 DEF IncrementNumChunks
<1>39. CASE RaiseKey(w)
  BY <1>0, <1>39 DEF RaiseKey, EnterLevel
<1>40. CASE EraseAbsent(w)
  BY ZenonT(40), <1>0, <1>40 DEF EraseAbsent, Enclosing
<1>41. CASE EraseInPlace(w)
  BY <1>0, <1>41 DEF EraseInPlace, Enclosing
<1>42. CASE LowerMax(w)
  BY <1>0, <1>42 DEF LowerMax
<1>43. CASE ShiftLeft(w)
  BY <1>0, <1>43 DEF ShiftLeft, AfterErase
<1>44. CASE EraseByMerge(w)
  BY <1>0, <1>44 DEF EraseByMerge, Enclosing
<1>45. CASE MergeRead(w)
  BY <1>0, <1>45 DEF MergeRead
<1>46. CASE UnlockNew(w)
  BY <1>0, <1>46 DEF UnlockNew
<1>47. CASE MergeShift(w)
  BY ZenonT(20), <1>0, <1>47 DEF MergeShift
<1>48. CASE ShiftData(w)
  BY ZenonT(20), <1>0, <1>48 DEF ShiftData
<1>49. CASE MergeCopy(w)
  BY Zenon, <1>0, <1>49 DEF MergeCopy
<1>50. CASE MarkZombie(w)
  BY <1>0, <1>50 DEF MarkZombie, BeginDown
<1>51. CASE DecrementNumChunks(w)
  BY <1>0, <1>51 DEF DecrementNumChunks, BeginDown
<1>52. CASE UnlockMerged(w)
  BY ZenonT(20), <1>0, <1>52 DEF UnlockMerged, AfterErase
<1>53. CASE ReadHeight(w)
  BY ZenonT(20), <1>0, <1>53 DEF ReadHeight
<1>54. CASE DownSearched(w)
  BY SMTT(30), <1>0, <1>54 DEF DownSearched
<1>55. CASE DownRead(w)
  BY <1>0, <1>55 DEF DownRead, NextDown, AfterDown
<1>56. CASE DownLock(w)
  BY <1>0, <1>56 DEF DownLock
<1>57. CASE DownWrite(w)
  BY ZenonT(20), <1>0, <1>57 DEF DownWrite
<1>58. CASE DownUnlock(w)
  BY ZenonT(20), <1>0, <1>58 DEF DownUnlock, NextDown, AfterDown
<1>59. CASE UnlockEnclosing(w)
  BY ZenonT(20), <1>0, <1>59 DEF UnlockEnclosing, EnterLevel
<1>60. CASE UnlockBottom(w)
  BY ZenonT(20), <1>0, <1>60 DEF UnlockBottom
<1> QED BY ZenonT(20), <1>1, <1>2, <1>3, <1>4, <1>5, <1>6, <1>7, <1>8, <1>9, <1>10, <1>11, <1>12, <1>13,
           <1>14, <1>15, <1>16, <1>17, <1>18, <1>19, <1>20, <1>21, <1>22, <1>23, <1>24,
           <1>25, <1>26, <1>27, <1>28, <1>29, <1>30, <1>31, <1>32, <1>33, <1>34, <1>35,
           <1>36, <1>37, <1>38, <1>39, <1>40, <1>41, <1>42, <1>43, <1>44, <1>45, <1>46,
           <1>47, <1>48, <1>49, <1>50, <1>51, <1>52, <1>53, <1>54, <1>55, <1>56, <1>57,
           <1>58, <1>59, <1>60
         DEF Step, Search, Enclose, FindNext, Split, InsertToLevel, EraseFromLevel,
             UpdateDownPtrs

\* What a step leaves of the registers and counters, and what it answers.
Keeps(w) ==
  LET r == loc[w]
      s == loc'[w]
      l == pc[w]
  IN  /\ l \notin {"mergeRead", "unlockMerged", "return"} => s.over = r.over
      /\ l \notin {"alloc", "count", "unlockMerged", "return"} => s.new = r.new
      /\ l \notin {"raise", "height", "unlockEnc", "return"} => s.level = r.level
      /\ l \notin {"take", "return"} => s.kind = r.kind /\ s.key = r.key
      /\ l \notin {"raise", "height", "unlockEnc", "return", "encCheck", "mergeRead"} =>
           s.ini = r.ini
      /\ l \notin {"encCheck", "empty", "unlockOther", "markZombie", "uncount", "return"} =>
           s.tgt = r.tgt
      /\ l \notin {"raise", "height", "unlockEnc", "return", "searched", "enclose",
                   "unlockOther"} /\ ~(Inserting(w) /\ l \in {"markZombie", "uncount"}) =>
           s.enc = r.enc
      /\ l \notin {"searched", "unlockOther", "markZombie", "uncount", "return"} =>
           s.caller = r.caller
      /\ l \notin {"return", "searched", "encCheck", "shift", "unshift", "unlockMerged"} =>
           s.ans = r.ans
      /\ r.ans \in Answers => s.ans \in Answers
      /\ l \notin {"count", "uncount"} => ctr' = ctr

\* The registers that Keeps is about.
LEMMA StepKeepsRegs ==
  ASSUME RegistersOK, NEW w \in Warps, Step(w)
  PROVE  Keeps(w)
<1>0. /\ loc = [v \in Warps |-> loc[v]]
      /\ loc[w] = [f \in Fields |-> loc[w][f]]
  BY DEF RegistersOK
<1> USE FieldsAre DEF At, Keeps, mem, Inserting, Answers
<1>1. CASE StartOp(w)
  BY <1>0, <1>1 DEF StartOp
<1>2. CASE ReturnResult(w)
  BY ZenonT(20), <1>0, <1>2 DEF ReturnResult, NoOp
<1>3. CASE SearchStart(w)
  BY ZenonT(40), <1>0, <1>3 DEF SearchStart
<1>4. CASE SearchRead(w)
  BY <1>0, <1>4 DEF SearchRead, GoRight
<1>5. CASE SearchMeetZombie(w)
  BY <1>0, <1>5 DEF SearchMeetZombie, GoRight
<1>6. CASE TryLockPrev(w)
  BY Zenon, <1>0, <1>6 DEF TryLockPrev
<1>7. CASE TryLockFails(w)
  BY <1>0, <1>7 DEF TryLockFails, GoRight
<1>8. CASE RecheckPrev(w)
  BY ZenonT(20), <1>0, <1>8 DEF RecheckPrev
<1>9. CASE GiveUpUnlink(w)
  BY <1>0, <1>9 DEF GiveUpUnlink, GoRight
<1>10. CASE SkipZombie(w)
  BY <1>0, <1>10 DEF SkipZombie
<1>11. CASE UnlinkZombies(w)
  BY <1>0, <1>11 DEF UnlinkZombies
<1>12. CASE UnlockPrev(w)
  BY ZenonT(20), <1>0, <1>12 DEF UnlockPrev
<1>13. CASE StepRight(w)
  BY ZenonT(20), <1>0, <1>13 DEF StepRight, GoRight
<1>14. CASE StepDown(w)
  BY ZenonT(20), <1>0, <1>14 DEF StepDown, GoDown
<1>15. CASE BackTrack(w)
  BY ZenonT(20), <1>0, <1>15 DEF BackTrack, GoDown
<1>16. CASE RestartSearch(w)
  BY <1>0, <1>16 DEF RestartSearch
<1>17. CASE SearchRefuses(w)
  BY <1>0, <1>17 DEF SearchRefuses, OwnSearch
<1>18. CASE SearchLeads(w)
  BY <1>0, <1>18 DEF SearchLeads, OwnSearch, Searched
<1>19. CASE WalkToEnclosing(w)
  BY <1>0, <1>19 DEF WalkToEnclosing
<1>20. CASE LockEnclosing(w)
  BY <1>0, <1>20 DEF LockEnclosing
<1>21. CASE NotEnclosing(w)
  BY <1>0, <1>21 DEF NotEnclosing
<1>22. CASE RetryEnclosing(w)
  BY SMTT(30), <1>0, <1>22 DEF RetryEnclosing
<1>23. CASE ReadNext(w)
  BY <1>0, <1>23 DEF ReadNext
<1>24. CASE WalkToNext(w)
  BY <1>0, <1>24 DEF WalkToNext
<1>25. CASE LockNext(w)
  BY <1>0, <1>25 DEF LockNext
<1>26. CASE CheckNext(w)
  BY <1>0, <1>26 DEF CheckNext
<1>27. CASE RedirectNext(w)
  BY <1>0, <1>27 DEF RedirectNext
<1>28. CASE GetNewChunk(w)
  BY <1>0, <1>28 DEF GetNewChunk
<1>29. CASE UnlockNext(w)
  BY Zenon, <1>0, <1>29 DEF UnlockNext
<1>30. CASE SplitCopy(w)
  BY <1>0, <1>30 DEF SplitCopy
<1>31. CASE EmptyMoved(w)
  BY <1>0, <1>31 DEF EmptyMoved, ShiftIn
<1>32. CASE UnlockOther(w)
  <2>1. /\ pc[w] = "unlockOther" /\ ctr' = ctr
        /\ \E min, max : BeginDown(w, min, max, loc[w].new, "count")
    BY <1>32 DEF UnlockOther
  <2>2. PICK min, max : BeginDown(w, min, max, loc[w].new, "count")
    BY <2>1
  <2> QED BY ZenonT(20), <1>0, <2>1, <2>2 DEF BeginDown
<1>33. CASE InsertPresent(w)
  BY <1>0, <1>33 DEF InsertPresent, Enclosing
<1>34. CASE InsertFits(w)
  BY ZenonT(20), <1>0, <1>34 DEF InsertFits, Enclosing, ShiftIn
<1>35. CASE InsertOverflows(w)
  BY <1>0, <1>35 DEF InsertOverflows, Enclosing
<1>36. CASE ShiftRight(w)
  BY <1>0, <1>36 DEF ShiftRight
<1>37. CASE IsLevelEmpty(w)
  BY <1>0, <1>37 DEF IsLevelEmpty
<1>38. CASE IncrementNumChunks(w)
  BY <1>0, <1>38 DEF IncrementNumChunks
<1>39. CASE RaiseKey(w)
  BY <1>0, <1>39 DEF RaiseKey, EnterLevel
<1>40. CASE EraseAbsent(w)
  BY <1>0, <1>40 DEF EraseAbsent, Enclosing
<1>41. CASE EraseInPlace(w)
  BY ZenonT(20), <1>0, <1>41 DEF EraseInPlace, Enclosing
<1>42. CASE LowerMax(w)
  BY <1>0, <1>42 DEF LowerMax
<1>43. CASE ShiftLeft(w)
  BY <1>0, <1>43 DEF ShiftLeft
<1>44. CASE EraseByMerge(w)
  BY <1>0, <1>44 DEF EraseByMerge, Enclosing
<1>45. CASE MergeRead(w)
  BY <1>0, <1>45 DEF MergeRead
<1>46. CASE UnlockNew(w)
  BY ZenonT(20), <1>0, <1>46 DEF UnlockNew
<1>47. CASE MergeShift(w)
  BY <1>0, <1>47 DEF MergeShift
<1>48. CASE ShiftData(w)
  BY ZenonT(20), <1>0, <1>48 DEF ShiftData
<1>49. CASE MergeCopy(w)
  BY ZenonT(20), <1>0, <1>49 DEF MergeCopy
<1>50. CASE MarkZombie(w)
  BY <1>0, <1>50 DEF MarkZombie, BeginDown
<1>51. CASE DecrementNumChunks(w)
  BY ZenonT(60), <1>0, <1>51 DEF DecrementNumChunks, BeginDown
<1>52. CASE UnlockMerged(w)
  BY <1>0, <1>52 DEF UnlockMerged
<1>53. CASE ReadHeight(w)
  BY <1>0, <1>53 DEF ReadHeight
<1>54. CASE DownSearched(w)
  BY ZenonT(20), <1>0, <1>54 DEF DownSearched
<1>55. CASE DownRead(w)
  BY <1>0, <1>55 DEF DownRead, NextDown
<1>56. CASE DownLock(w)
  BY <1>0, <1>56 DEF DownLock
<1>57. CASE DownWrite(w)
  BY <1>0, <1>57 DEF DownWrite
<1>58. CASE DownUnlock(w)
  BY <1>0, <1>58 DEF DownUnlock, NextDown
<1>59. CASE UnlockEnclosing(w)
  BY <1>0, <1>59 DEF UnlockEnclosing, EnterLevel
<1>60. CASE UnlockBottom(w)
  BY ZenonT(20), <1>0, <1>60 DEF UnlockBottom
<1> QED BY ZenonT(20), <1>1, <1>2, <1>3, <1>4, <1>5, <1>6, <1>7, <1>8, <1>9, <1>10, <1>11, <1>12, <1>13,
           <1>14, <1>15, <1>16, <1>17, <1>18, <1>19, <1>20, <1>21, <1>22, <1>23, <1>24,
           <1>25, <1>26, <1>27, <1>28, <1>29, <1>30, <1>31, <1>32, <1>33, <1>34, <1>35,
           <1>36, <1>37, <1>38, <1>39, <1>40, <1>41, <1>42, <1>43, <1>44, <1>45, <1>46,
           <1>47, <1>48, <1>49, <1>50, <1>51, <1>52, <1>53, <1>54, <1>55, <1>56, <1>57,
           <1>58, <1>59, <1>60
         DEF Step, Search, Enclose, FindNext, Split, InsertToLevel, EraseFromLevel,
             UpdateDownPtrs

\* What the registers say about where a step goes.
Turns(w) ==
  LET r == loc[w]
      s == loc'[w]
      l == pc[w]
      m == pc'[w]
  IN  /\ l = "searched" => (r.caller = "down" <=> m = "downRead")
      /\ l = "searched" /\ m = "downRead" => s.enc = r.enc
      /\ l = "shift" /\ m # "shift" => (r.new # Nil <=> m = "unlockOther")
      /\ l = "shift" /\ m = "unlockBottom" => r.level = 0
      /\ l = "mergeRead" => (s.over <=> m = "nextRead")
      /\ l \in {"nextRead", "nextSet"} /\ m = "alloc" => Inserting(w) \/ r.ini # r.enc
      /\ l = "encCheck" /\ m = "shift" => InsertFits(w)
      /\ l = "encCheck" /\ m = "nextRead" => /\ InsertOverflows(w) \/ EraseByMerge(w)
                                             /\ s.ini = r.enc
      /\ l = "encCheck" /\ m \in {"lowerMax", "unshift"} => EraseInPlace(w)
      /\ l = "isEmpty" => (ctr[r.level] = 0 <=> m = "count")
      /\ l = "count" => ctr' = [ctr EXCEPT ![r.level] = @ + 1]
      /\ l = "uncount" => ctr' = [ctr EXCEPT ![r.level] = @ - 1]
      /\ l = "unlockOther" /\ Inserting(w) => s.enc = r.tgt
      /\ l = "alloc" => s.new = allocated
      /\ l = "count" => s.new = Nil
      /\ l = "copy" => SplitCopy(w)
      /\ l = "markZombie" => MarkZombie(w) /\ (r.over <=> m # "uncount")

\* Those are the registers that steer a step.
LEMMA StepTurns ==
  ASSUME RegistersOK, NEW w \in Warps, Step(w)
  PROVE  Turns(w)
<1>0. /\ loc = [v \in Warps |-> loc[v]] /\ pc = [v \in Warps |-> pc[v]]
      /\ loc[w] = [f \in Fields |-> loc[w][f]]
  BY DEF RegistersOK
<1>1. pc[w] \in {"searched", "shift", "mergeRead", "nextRead", "nextSet", "encCheck", "isEmpty",
               "count", "uncount", "unlockOther", "alloc", "copy", "markZombie"} \/ Turns(w)
  BY DEF Turns
<1> USE FieldsAre DEF At, GoTo, Turns, Inserting
<1>2. CASE StartOp(w)
  BY <1>1, <1>2 DEF StartOp
<1>3. CASE ReturnResult(w)
  BY <1>1, <1>3 DEF ReturnResult
<1>4. CASE SearchStart(w)
  BY <1>1, <1>4 DEF SearchStart
<1>5. CASE SearchRead(w)
  BY <1>1, <1>5 DEF SearchRead
<1>6. CASE SearchMeetZombie(w)
  BY <1>1, <1>6 DEF SearchMeetZombie
<1>7. CASE TryLockPrev(w)
  BY <1>1, <1>7 DEF TryLockPrev
<1>8. CASE TryLockFails(w)
  BY <1>1, <1>8 DEF TryLockFails
<1>9. CASE RecheckPrev(w)
  BY <1>1, <1>9 DEF RecheckPrev
<1>10. CASE GiveUpUnlink(w)
  BY <1>1, <1>10 DEF GiveUpUnlink
<1>11. CASE SkipZombie(w)
  BY <1>1, <1>11 DEF SkipZombie
<1>12. CASE UnlinkZombies(w)
  BY <1>1, <1>12 DEF UnlinkZombies
<1>13. CASE UnlockPrev(w)
  BY <1>1, <1>13 DEF UnlockPrev
<1>14. CASE StepRight(w)
  BY <1>1, <1>14 DEF StepRight
<1>15. CASE StepDown(w)
  BY <1>1, <1>15 DEF StepDown
<1>16. CASE BackTrack(w)
  BY <1>1, <1>16 DEF BackTrack
<1>17. CASE RestartSearch(w)
  BY <1>1, <1>17 DEF RestartSearch
<1>18. CASE SearchRefuses(w)
  BY <1>0, <1>18 DEF SearchRefuses, OwnSearch
<1>19. CASE SearchLeads(w)
  BY <1>0, <1>19 DEF SearchLeads, OwnSearch
<1>20. CASE WalkToEnclosing(w)
  BY <1>1, <1>20 DEF WalkToEnclosing
<1>21. CASE LockEnclosing(w)
  BY <1>1, <1>21 DEF LockEnclosing
<1>22. CASE NotEnclosing(w)
  BY <1>0, <1>22 DEF NotEnclosing
<1>23. CASE RetryEnclosing(w)
  BY <1>1, <1>23 DEF RetryEnclosing
<1>24. CASE ReadNext(w)
  BY <1>0, <1>24 DEF ReadNext, AfterNext
<1>25. CASE WalkToNext(w)
  BY <1>1, <1>25 DEF WalkToNext
<1>26. CASE LockNext(w)
  BY <1>1, <1>26 DEF LockNext
<1>27. CASE CheckNext(w)
  BY <1>1, <1>27 DEF CheckNext
<1>28. CASE RedirectNext(w)
  BY <1>0, <1>28 DEF RedirectNext, AfterNext
<1>29. CASE GetNewChunk(w)
  BY <1>0, <1>29 DEF GetNewChunk
<1>30. CASE UnlockNext(w)
  BY <1>1, <1>30 DEF UnlockNext
<1>31. CASE SplitCopy(w)
  BY <1>0, <1>31 DEF SplitCopy
<1>32. CASE EmptyMoved(w)
  BY <1>1, <1>32 DEF EmptyMoved
<1>33. CASE UnlockOther(w)
  <2>1. /\ pc[w] = "unlockOther"
        /\ \E min, max : BeginDown(w, min, max, loc[w].new, "count")
    BY <1>33 DEF UnlockOther
  <2>2. loc'[w].enc = IF Inserting(w) THEN loc[w].tgt ELSE loc[w].enc
    BY <2>1, BeginDownNames
  <2> QED BY <2>1, <2>2
<1>34. CASE InsertPresent(w)
  BY <1>0, <1>34 DEF InsertPresent, Enclosing
<1>35. CASE InsertFits(w)
  <2>1. pc[w] = "encCheck" /\ pc'[w] = "shift"
    BY <1>0, <1>35 DEF InsertFits, Enclosing
  <2> QED BY <1>35, <2>1
<1>36. CASE InsertOverflows(w)
  BY <1>0, <1>36 DEF InsertOverflows, Enclosing
<1>37. CASE ShiftRight(w)
  BY <1>0, <1>37 DEF ShiftRight
<1>38. CASE IsLevelEmpty(w)
  BY <1>0, <1>38 DEF IsLevelEmpty
<1>39. CASE IncrementNumChunks(w)
  BY <1>0, <1>39 DEF IncrementNumChunks
<1>40. CASE RaiseKey(w)
  BY <1>1, <1>40 DEF RaiseKey
<1>41. CASE EraseAbsent(w)
  BY <1>0, <1>41 DEF EraseAbsent, Enclosing
<1>42. CASE EraseInPlace(w)
  BY <1>42, EraseInPlaceNames, <1>0
<1>43. CASE LowerMax(w)
  BY <1>1, <1>43 DEF LowerMax
<1>44. CASE ShiftLeft(w)
  BY <1>1, <1>44 DEF ShiftLeft
<1>45. CASE EraseByMerge(w)
  BY <1>0, <1>45 DEF EraseByMerge, Enclosing
<1>46. CASE MergeRead(w)
  BY <1>0, <1>46 DEF MergeRead
<1>47. CASE UnlockNew(w)
  BY <1>1, <1>47 DEF UnlockNew
<1>48. CASE MergeShift(w)
  BY <1>1, <1>48 DEF MergeShift
<1>49. CASE ShiftData(w)
  BY <1>1, <1>49 DEF ShiftData
<1>50. CASE MergeCopy(w)
  BY <1>1, <1>50 DEF MergeCopy
<1>51. CASE MarkZombie(w)
  <2>1. pc[w] = "markZombie" /\ (loc[w].over <=> pc'[w] # "uncount")
    <3>1. CASE loc[w].over
      BY ZenonT(20), <1>0, <1>51, <3>1, BeginDownNames DEF MarkZombie, BeginDown
    <3>2. CASE ~loc[w].over
      BY <1>0, <1>51, <3>2 DEF MarkZombie
    <3> QED BY ZenonT(20), <1>51, <3>1, <3>2 DEF MarkZombie
  <2> QED BY <1>51, <2>1
<1>52. CASE DecrementNumChunks(w)
  <2>1. pc[w] = "uncount" /\ ctr' = [ctr EXCEPT ![loc[w].level] = @ - 1]
    BY <1>52 DEF DecrementNumChunks
  <2> QED BY <2>1
<1>53. CASE UnlockMerged(w)
  BY <1>1, <1>53 DEF UnlockMerged
<1>54. CASE ReadHeight(w)
  BY ZenonT(20), <1>1, <1>54 DEF ReadHeight
<1>55. CASE DownSearched(w)
  BY ZenonT(20), <1>0, <1>55 DEF DownSearched
<1>56. CASE DownRead(w)
  BY <1>1, <1>56 DEF DownRead
<1>57. CASE DownLock(w)
  BY <1>1, <1>57 DEF DownLock
<1>58. CASE DownWrite(w)
  BY <1>1, <1>58 DEF DownWrite
<1>59. CASE DownUnlock(w)
  BY <1>1, <1>59 DEF DownUnlock
<1>60. CASE UnlockEnclosing(w)
  BY <1>1, <1>60 DEF UnlockEnclosing
<1>61. CASE UnlockBottom(w)
  BY Zenon, <1>1, <1>61 DEF UnlockBottom
<1> QED BY ZenonT(20), <1>2, <1>3, <1>4, <1>5, <1>6, <1>7, <1>8, <1>9, <1>10, <1>11, <1>12, <1>13, <1>14,
           <1>15, <1>16, <1>17, <1>18, <1>19, <1>20, <1>21, <1>22, <1>23, <1>24, <1>25,
           <1>26, <1>27, <1>28, <1>29, <1>30, <1>31, <1>32, <1>33, <1>34, <1>35, <1>36,
           <1>37, <1>38, <1>39, <1>40, <1>41, <1>42, <1>43, <1>44, <1>45, <1>46, <1>47,
           <1>48, <1>49, <1>50, <1>51, <1>52, <1>53, <1>54, <1>55, <1>56, <1>57, <1>58,
           <1>59, <1>60, <1>61
         DEF Step, Search, Enclose, FindNext, Split, InsertToLevel, EraseFromLevel,
             UpdateDownPtrs

-----------------------------------------------------------------------------
(* Who has yet to count a chunk. *)

\* Where a step ends, as StepFollows says, for one label.
LEMMA FromLabel ==
  ASSUME RegistersOK, NEW w \in Warps, Step(w)
  PROVE  /\ pc[w] = "empty" => pc'[w] \in {"shift", "unlockNew"}
         /\ pc[w] = "unlockNew" => pc'[w] = "mergeShift"
         /\ pc[w] \in {"mergeShift", "shiftBy"} => pc'[w] \in {"shiftBy", "mergeCopy"}
         /\ pc[w] = "mergeCopy" => pc'[w] = "markZombie"
         /\ pc[w] = "markZombie" => pc'[w] \in {"uncount", "search", "unlockMerged"}
         /\ pc[w] = "uncount" => pc'[w] \in {"search", "unlockMerged"}
         /\ pc[w] = "copy" => pc'[w] = "empty"
         /\ pc[w] = "count" => pc'[w] \in {"raise", "unlockEnc"}
         /\ pc[w] = "shift" => pc'[w] \in {"shift", "unlockOther", "unlockBottom", "isEmpty"}
         /\ pc[w] = "unlockOther" => pc'[w] \in {"count", "search"}
         /\ pc[w] \in DownLabels =>
              pc'[w] \in DownLabels \cup {"count", "unlockMerged"}
         /\ pc[w] \in (SearchLabels \cup UnlinkLabels) \ {"searched"} =>
              pc'[w] \in SearchLabels \cup UnlinkLabels
         /\ pc[w] = "searched" => pc'[w] \in {"return", "enclose", "downRead"}
         /\ pc[w] = "isEmpty" => pc'[w] \in {"count", "unlockEnc"}
         /\ pc[w] = "encCheck" => pc'[w] \in {"encRetry", "unlockBottom", "unlockEnc", "shift",
                                              "nextRead", "lowerMax", "unshift"}
         /\ pc[w] \in NextLabels => pc'[w] \in NextLabels \cup {"mergeRead", "alloc"}
         /\ pc[w] = "mergeRead" => pc'[w] \in {"nextRead", "mergeShift"}
         /\ pc[w] \in {"alloc", "unlockNext"} => pc'[w] \in {"copy", "unlockNext"}
         /\ pc[w] \in {"take", "return", "enclose", "encLock", "encRetry", "raise", "height",
                       "unlockEnc", "lowerMax", "unshift", "unlockMerged", "unlockBottom"}
              => pc'[w] \in {"search", "take", "enclose", "encLock", "encCheck", "unlockBottom",
                             "unshift", "height", "unlockEnc", "return"}
<1> DEFINE l == pc[w]
           m == pc'[w]
<1>1. m \in Follow(l)
  BY StepFollows
<1> QED BY <1>1 DEF Follow, DownLabels, SearchLabels, UnlinkLabels, NextLabels

\* Where it may have begun.
LEMMA ToLabel ==
  ASSUME RegistersOK, NEW w \in Warps, Step(w)
  PROVE  /\ pc'[w] \in NextLabels => pc[w] \in NextLabels \cup {"encCheck", "mergeRead"}
         /\ pc'[w] = "alloc" => pc[w] \in {"nextRead", "nextSet"}
         /\ pc'[w] \in {"unlockNext", "copy"} => pc[w] \in {"alloc", "unlockNext"}
         /\ pc'[w] = "empty" => pc[w] = "copy"
         /\ pc'[w] = "unlockNew" => pc[w] = "empty"
         /\ pc'[w] = "mergeRead" => pc[w] \in {"nextRead", "nextSet"}
         /\ pc'[w] = "mergeShift" => pc[w] \in {"mergeRead", "unlockNew"}
         /\ pc'[w] \in {"shiftBy", "mergeCopy"} => pc[w] \in {"mergeShift", "shiftBy"}
         /\ pc'[w] = "markZombie" => pc[w] = "mergeCopy"
         /\ pc'[w] = "uncount" => pc[w] = "markZombie"
         /\ pc'[w] \in {"lowerMax", "unshift"} => pc[w] \in {"encCheck", "lowerMax", "unshift"}
         /\ pc'[w] = "shift" => pc[w] \in {"encCheck", "empty", "shift"}
         /\ pc'[w] \in {"unlockOther", "isEmpty"} => pc[w] = "shift"
         /\ pc'[w] = "count" => pc[w] \in {"unlockOther", "isEmpty"} \cup DownLabels
         /\ pc'[w] \in DownLabels => pc[w] \in DownLabels \cup {"searched"}
         /\ pc'[w] \in SearchLabels \cup UnlinkLabels =>
              pc[w] \in SearchLabels \cup UnlinkLabels
                          \cup {"take", "unlockOther", "markZombie", "uncount"}
<1> DEFINE l == pc[w]
           m == pc'[w]
<1>1. m \in Follow(l)
  BY StepFollows
<1> QED BY <1>1 DEF Follow, DownLabels, SearchLabels, UnlinkLabels, NextLabels

\* A step brings nobody to the labels of Lagging, nor away from them, but where a chunk is
\* linked, counted or made a zombie.
LEMMA LagKept ==
  ASSUME RegistersOK, NEW w \in Warps, Control(w), Control(w)', Step(w), CountOK(w),
         pc[w] \notin {"copy", "markZombie", "count"}
  PROVE  Lagging(w)' <=> Lagging(w)
<1> DEFINE l == pc[w]
           m == pc'[w]
           r == loc[w]
           s == loc'[w]
           SU == SearchLabels \cup UnlinkLabels
<1>1. /\ l \notin {"mergeRead", "unlockMerged", "return"} => s.over = r.over
      /\ l \notin {"alloc", "count", "unlockMerged", "return"} => s.new = r.new
      /\ l \notin {"take", "return"} => s.kind = r.kind
      /\ l \notin {"searched", "unlockOther", "markZombie", "uncount", "return"} =>
           s.caller = r.caller
  BY StepKeepsRegs DEF Keeps
<1>2. CASE l \in {"empty", "unlockNew"}
  <2>1. l = "empty" => m \in {"shift", "unlockNew"}
    BY FromLabel
  <2>2. l = "unlockNew" => m = "mergeShift"
    BY FromLabel
  <2>3. ~Inserting(w) => r.over
    BY <1>2 DEF CountOK
  <2>4. l = "unlockNew" => ~Inserting(w)
    BY DEF Control
  <2>5. l = "empty" => r.new # Nil
    BY DEF Control
  <2>6. m = "shift" => s.kind = "insert"
    BY DEF Control, Shifting, Inserting
  <2> QED BY <1>1, <1>2, <2>1, <2>2, <2>3, <2>4, <2>5, <2>6 DEF Lagging, MergeTail, Inserting
<1>3. CASE l \in {"mergeShift", "shiftBy", "mergeCopy"}
  <2>1. m \in {"shiftBy", "mergeCopy", "markZombie"}
    BY <1>3, FromLabel
  <2> QED BY <1>1, <1>3, <2>1 DEF Lagging, MergeTail, GoingDown, DownLabels, SearchLabels,
                                  UnlinkLabels
<1>4. CASE l \in {"shift", "unlockOther"}
  <2>1. Inserting(w)
    BY <1>4 DEF Control, Shifting
  <2>2. l = "unlockOther" => r.new # Nil /\ m \in {"count", "search"}
    BY FromLabel DEF Control
  <2>3. l = "shift" => /\ m \in {"shift", "unlockOther", "unlockBottom", "isEmpty"}
                       /\ m # "shift" => (r.new # Nil <=> m = "unlockOther")
    BY FromLabel, StepTurns DEF Turns
  <2>4. m = "search" => s.caller = "down" \/ s.new = Nil
    BY DEF Control, SearchLabels
  <2> QED BY <1>1, <1>4, <2>1, <2>2, <2>3, <2>4
          DEF Lagging, MergeTail, GoingDown, DownLabels, SearchLabels, UnlinkLabels, Inserting
<1>5. CASE GoingDown(w)
  <2>1. CASE l \in DownLabels
    <3>1. m \in DownLabels \cup {"count", "unlockMerged"}
      BY <2>1, FromLabel
    <3>2. m = "unlockMerged" => s.kind # "insert"
      BY DEF Control, MergeLabels, Inserting
    <3> QED BY <1>1, <2>1, <3>1, <3>2 DEF Lagging, MergeTail, GoingDown, DownLabels, Inserting
  <2>2. CASE l \in SU /\ r.caller = "down"
    <3>1. CASE l = "searched"
      <4>1. m = "downRead"
        BY <2>2, <3>1, StepTurns DEF Turns
      <4> QED BY <1>1, <2>2, <3>1, <4>1
              DEF Lagging, MergeTail, GoingDown, DownLabels, SearchLabels, Inserting
    <3>2. CASE l # "searched"
      <4>1. m \in SU
        BY <2>2, <3>2, FromLabel
      <4> QED BY <1>1, <2>2, <3>2, <4>1
              DEF Lagging, MergeTail, GoingDown, DownLabels, SearchLabels, UnlinkLabels, Inserting
    <3> QED BY <3>1, <3>2
  <2> QED BY <1>5, <2>1, <2>2 DEF GoingDown
<1>6. CASE /\ l \notin {"empty", "unlockNew", "mergeShift", "shiftBy", "mergeCopy", "shift",
                        "unlockOther"}
           /\ ~GoingDown(w)
  <2>1. ~Lagging(w)
    BY <1>6 DEF Lagging, MergeTail
  <2>2. m \notin {"empty", "unlockNew", "shiftBy", "mergeCopy", "markZombie", "unlockOther"}
    BY <1>6, ToLabel
  <2>3. m = "mergeShift" => ~s.over
    <3>1. m = "mergeShift" => l = "mergeRead"
      BY <1>6, ToLabel
    <3>2. l = "mergeRead" => (s.over <=> m = "nextRead")
      BY StepTurns DEF Turns
    <3> QED BY <3>1, <3>2
  <2>4. m \in {"shift", "count"} => s.new = Nil
    <3>1. m \in {"shift", "count"} => l \in {"encCheck", "isEmpty"}
      BY <1>6, ToLabel DEF GoingDown
    <3>2. l \in {"encCheck", "isEmpty"} => r.new = Nil
      BY DEF Control
    <3> QED BY <1>1, <3>1, <3>2
  <2>5. GoingDown(w)' => s.kind # "insert" \/ s.new = Nil
    <3>1. CASE m \in DownLabels
      <4>1. l = "searched"
        BY <1>6, <3>1, ToLabel DEF GoingDown
      <4>2. r.caller # "down"
        BY <1>6, <4>1 DEF GoingDown, SearchLabels
      <4>3. m # "downRead"
        BY <4>1, <4>2, StepTurns DEF Turns
      <4>4. m \in {"return", "enclose", "downRead"}
        BY <4>1, FromLabel
      <4> QED BY <3>1, <4>3, <4>4 DEF DownLabels
    <3>2. CASE m \in SU
      <4>1. l \in SU \cup {"take", "uncount"}
        BY <1>6, <3>2, ToLabel
      <4>2. l = "uncount" => s.kind # "insert"
        BY <1>1 DEF Control, MergeLabels, Inserting
      <4>3. l \in SU => r.caller # "down" /\ r.new = Nil
        BY <1>6 DEF GoingDown, Control
      <4>4. l = "take" => r.caller # "down" /\ r.new = Nil
        BY DEF Control, SearchLabels, UnlinkLabels
      <4> QED BY <1>1, <4>1, <4>2, <4>3, <4>4 DEF SearchLabels, UnlinkLabels
    <3> QED BY <3>1, <3>2 DEF GoingDown
  <2> QED BY <2>1, <2>2, <2>3, <2>4, <2>5 DEF Lagging, MergeTail, Inserting
<1> QED BY <1>2, <1>3, <1>4, <1>5, <1>6

-----------------------------------------------------------------------------
(* What the warp that steps counts. *)

\* What a warp has locked and still names stays locked.
LEMMA MineHeld ==
  ASSUME NEW g, NEW w, ListStep(g, w), NEW c \in Chunks, Mine(c), Holds(w, c)',
         pc[w] # "markZombie"
  PROVE  Mine(c)'
<1>1. /\ w \in Warps /\ Step(w) /\ Control(w) /\ RegistersOK /\ WordsOK
  BY StepFacts
<1>2. Apart(w) /\ LocksExclusive
  BY <1>1 DEF ListStep, ExclusiveInv
<1>3. ~IsZombie(chunk[c]) /\ chunk[c].lock \in LockStates
  BY DEF Mine, IsZombie, LockStates
<1>4. Differs(w, c)
  BY <1>1, <1>2, <1>3, ApartMeansDiffers
<1>5. ~Gives(w, c)
  BY <1>1, <1>4, StepGives
<1> QED BY <1>5, MineStays

\* A step that brings its warp to the work that only chunks with keys are in for goes on with
\* such work, or begins it at the enclosing chunk.
LEMMA WorkBegins ==
  ASSUME RegistersOK, NEW w \in Warps, Control(w), Control(w)', Step(w), CountOK(w), Works(w)'
  PROVE  /\ loc'[w].level = loc[w].level
         /\ \/ Works(w)
            \/ pc[w] = "encCheck" /\ pc'[w] \in {"nextRead", "lowerMax", "unshift"}
         /\ pc[w] # "count"
         /\ pc[w] # "uncount"
<1> DEFINE l == pc[w]
           m == pc'[w]
<1>1. l \notin {"raise", "height", "unlockEnc", "return"} => loc'[w].level = loc[w].level
  BY StepKeepsRegs DEF Keeps
<1>2. CASE Lagging(w)'
  <2>1. CASE l \in {"copy", "markZombie"}
    BY <1>1, <2>1 DEF Works, SplitLabels, MergeTail
  <2>2. l # "count"
    <3>1. l = "count" => m \in {"raise", "unlockEnc"}
      BY FromLabel
    <3> QED BY <1>2, <3>1 DEF Lagging, MergeTail, GoingDown, DownLabels, SearchLabels, UnlinkLabels
  <2>3. CASE l \notin {"copy", "markZombie"}
    <3>1. Lagging(w)
      BY <1>2, <2>2, <2>3, LagKept
    <3>2. l \notin {"raise", "height", "unlockEnc", "return"}
      BY <3>1 DEF Lagging, MergeTail, GoingDown, DownLabels, SearchLabels, UnlinkLabels
    <3>3. l = "uncount" => ~Inserting(w)
      BY DEF Control, MergeLabels
    <3>4. l # "uncount"
      BY <3>1, <3>3 DEF Lagging, MergeTail
    <3> QED BY <1>1, <2>2, <3>1, <3>2, <3>4 DEF Works
  <2> QED BY <2>1, <2>3
<1>3. CASE m \in NextLabels \cup SplitLabels \cup MergeTail
                  \cup {"mergeRead", "lowerMax", "unshift", "uncount"}
  <2>1. m \in NextLabels =>
          l \in NextLabels \cup {"mergeRead"} \/ (l = "encCheck" /\ m = "nextRead")
    <3>1. m \in NextLabels => l \in NextLabels \cup {"encCheck", "mergeRead"}
      BY ToLabel
    <3>2. l = "encCheck" => m \in {"encRetry", "unlockBottom", "unlockEnc", "shift",
                                   "nextRead", "lowerMax", "unshift"}
      BY FromLabel
    <3> QED BY <3>1, <3>2 DEF NextLabels
  <2>2. m \in SplitLabels => l \in NextLabels \cup SplitLabels
    BY ToLabel DEF SplitLabels, NextLabels
  <2>3. m \in MergeTail \cup {"uncount"} => l \in MergeTail \cup {"mergeRead", "unlockNew"}
    BY ToLabel DEF MergeTail
  <2>4. m = "mergeRead" => l \in NextLabels
    BY ToLabel DEF NextLabels
  <2>5. m \in {"lowerMax", "unshift"} => l \in {"encCheck", "lowerMax", "unshift"}
    BY ToLabel
  <2>6. \/ l \in NextLabels \cup SplitLabels \cup MergeTail
                 \cup {"mergeRead", "lowerMax", "unshift"}
        \/ l = "encCheck" /\ m \in {"nextRead", "lowerMax", "unshift"}
    BY <1>3, <2>1, <2>2, <2>3, <2>4, <2>5 DEF SplitLabels
  <2> QED BY <1>1, <2>6 DEF Works, NextLabels, SplitLabels, MergeTail
<1> QED BY <1>2, <1>3 DEF Works

\* The level of the enclosing chunk is counted when such work begins there.
LEMMA WorkIsCounted ==
  ASSUME NEW g, NEW w, ListStep(g, w), CountInv(g),
         pc[w] = "encCheck", pc'[w] \in {"nextRead", "lowerMax", "unshift"}
  PROVE  ctr[loc[w].level] > 0
<1> DEFINE e == loc[w].enc
           c == chunk[e]
           l == loc[w].level
<1>1. /\ w \in Warps /\ Step(w) /\ RegistersOK /\ Control(w)
  BY StepFacts
<1>2. InsertOverflows(w) \/ EraseByMerge(w) \/ EraseInPlace(w)
  BY Zenon, <1>1, StepTurns DEF Turns
<1>3. Enclosing(w)
  BY Zenon, <1>2 DEF InsertOverflows, EraseByMerge, EraseInPlace
<1>4. /\ ~IsZombie(c) /\ Mine(e) /\ Fine(c.data, g.low[e], c.max) /\ c.data \in Datas
  BY <1>3, EnclosingFacts
<1>5. /\ l \in Levels /\ e \in Chunks /\ g.lvl[e] = l /\ loc[w].key \in 1 .. MaxKey
  BY LevelFacts DEF OwnLabels, SearchLabels, UnlinkLabels
<1>6. SUFFICES ASSUME ~(ctr[l] > 0) PROVE FALSE
  OBVIOUS
<1>7. e \in Alives(g, l)
  BY <1>4, <1>5 DEF Alives, On
<1>8. Counted(g, l)
  BY <1>5 DEF CountInv
<1>9. Blank(c) \/ \E v \in Warps : FitsIn(v, e)
  BY <1>6, <1>7, <1>8 DEF Counted
<1>10. ASSUME NEW v \in Warps, FitsIn(v, e) PROVE FALSE
  <2>1. v # w /\ Holds(v, e)
    BY <1>10 DEF FitsIn, Holds, HasEnc, LevelLabels
  <2>2. Holds(w, e)
    BY DEF Holds, HasEnc, LevelLabels
  <2>3. LocksExclusive
    BY DEF ListStep, ExclusiveInv
  <2> QED BY <1>1, <1>4, <1>5, <2>1, <2>2, <2>3 DEF LocksExclusive, Mine
<1>11. Blank(c)
  BY <1>9, <1>10
<1>12. CASE InsertOverflows(w)
  <2>1. Occ(c.data) = DSize
    BY <1>12 DEF InsertOverflows, OccupiedSlots, OccupiedLanes, Occ
  <2>2. Full(c.data)
    BY <2>1, OccBound
  <2>3. 0 \in Lanes /\ 1 \in Lanes
    BY ConstantsAre DEF Lanes
  <2>4. c.data[0].k = NegInf /\ c.data[1].k = NegInf
    BY Zenon, <1>11, <2>2, <2>3 DEF Blank, Full
  <2>5. c.data[0].k < c.data[1].k
    BY <1>4, <2>2, <2>3 DEF Fine, Sorted, Full
  <2> QED BY <2>4, <2>5 DEF NegInf
<1>13. CASE EraseByMerge(w) \/ EraseInPlace(w)
  <2>1. ChunkContains(loc[w].key, c)
    BY Zenon, <1>13 DEF EraseByMerge, EraseInPlace
  <2>2. PICK i \in Lanes : c.data[i].k = loc[w].key
    BY <2>1, KeyLane DEF HasKey
  <2>3. c.data[i].k \in {NegInf, PosInf}
    BY <1>11, <2>2 DEF Blank
  <2> QED BY <1>5, <2>2, <2>3, ConstantsAre DEF NegInf, PosInf
<1> QED BY <1>2, <1>12, <1>13

\* An insert goes down to update pointers after a split.
LEMMA DownBegins ==
  ASSUME RegistersOK, NEW w \in Warps, Control(w), Step(w), GoingDown(w)', Inserting(w)'
  PROVE  Inserting(w) /\ (GoingDown(w) \/ pc[w] = "unlockOther")
<1> DEFINE l == pc[w]
           m == pc'[w]
           SU == SearchLabels \cup UnlinkLabels
<1>1. /\ l \notin {"take", "return"} => loc'[w].kind = loc[w].kind
      /\ l \notin {"searched", "unlockOther", "markZombie", "uncount", "return"} =>
           loc'[w].caller = loc[w].caller
  BY StepKeepsRegs DEF Keeps
<1>2. l = "return" => m \notin DownLabels \cup SU
  <2>1. l = "return" => m = "take"
    BY StepFollows DEF Follow
  <2> QED BY Zenon, <2>1 DEF DownLabels, SearchLabels, UnlinkLabels
<1>3. l # "return"
  BY <1>2 DEF GoingDown
<1>4. l = "take" => m = "search" /\ loc[w].caller = "op"
  BY StepFollows DEF Follow, Control, SearchLabels, UnlinkLabels
<1>5. l # "take"
  BY <1>1, <1>4 DEF GoingDown, DownLabels
<1>6. Inserting(w)
  BY <1>1, <1>3, <1>5 DEF Inserting
<1>7. CASE m \in DownLabels
  <2>1. l \in DownLabels \cup {"searched"}
    BY <1>7, ToLabel
  <2>2. l = "searched" => loc[w].caller = "down"
    <3>1. l = "searched" => /\ m \in {"return", "enclose", "downRead"}
                            /\ loc[w].caller = "down" <=> m = "downRead"
      BY FromLabel, StepTurns DEF Turns
    <3> QED BY <1>7, <3>1 DEF DownLabels
  <2> QED BY <1>6, <2>1, <2>2 DEF GoingDown, SearchLabels
<1>8. CASE m \in SU /\ loc'[w].caller = "down"
  <2>1. l \in SU \cup {"unlockOther", "markZombie", "uncount"}
    BY <1>5, <1>8, ToLabel
  <2>2. l \notin {"markZombie", "uncount"}
    BY <1>6 DEF Control, MergeLabels
  <2>3. l # "searched"
    <3>1. l = "searched" => m \in {"return", "enclose", "downRead"}
      BY FromLabel
    <3> QED BY <1>8, <3>1 DEF SearchLabels, UnlinkLabels
  <2> QED BY <1>1, <1>6, <1>8, <2>1, <2>2, <2>3 DEF GoingDown, SearchLabels, UnlinkLabels
<1> QED BY <1>7, <1>8 DEF GoingDown

\* A step keeps what its warp knows of the counters.
LEMMA CountOwn ==
  ASSUME NEW g, NEW w, ListStep(g, w), CountInv(g)
  PROVE  CountOK(w)'
<1> DEFINE l == pc[w]
           m == pc'[w]
           r == loc[w]
           s == loc'[w]
<1>1. /\ w \in Warps /\ Step(w) /\ RegistersOK /\ Control(w) /\ CountOK(w) /\ WarpOK(g, w)
  BY StepFacts DEF CountInv
<1>2. PoolOK
  BY DEF ListStep, ExclusiveInv, ReleaseInv
<1>3. Control(w)'
  BY <1>1, <1>2, StepControl
<1>4. Keeps(w) /\ Turns(w)
  BY <1>1, StepKeepsRegs, StepTurns
<1>5. s.ans \in Answers
  BY <1>1, <1>4 DEF CountOK, Keeps
<1>6. Works(w)' => ctr'[s.level] > 0
  <2>1. SUFFICES ASSUME Works(w)' PROVE ctr'[s.level] > 0
    OBVIOUS
  <2>2. /\ s.level = r.level
        /\ Works(w) \/ (l = "encCheck" /\ m \in {"nextRead", "lowerMax", "unshift"})
        /\ l # "count" /\ l # "uncount"
    BY <1>1, <1>3, <2>1, WorkBegins
  <2>3. ctr[r.level] > 0
    BY <1>1, <2>2, WorkIsCounted DEF CountOK
  <2>4. ctr' = ctr
    BY <1>4, <2>2 DEF Keeps
  <2> QED BY <2>2, <2>3, <2>4
<1>7. OnLevel(w) => LevelOK(g, w) /\ ShiftOK(g, w)
  BY <1>1 DEF WarpOK
<1>8. l \in {"shift", "unlockOther"} => From(g, r.level, r.tgt, r.key) /\ r.level \in Levels
  BY <1>1 DEF WarpOK, OnLevel, OwnLabels, SearchLabels, UnlinkLabels, SplitOK, LevelOK
<1>9. l \in {"shift", "unlockOther"} => r.tgt \in Chunks
  BY <1>8 DEF From, On
<1>10. From(g, r.level, r.enc, r.key) \/ ~OnLevel(w)
  BY <1>7 DEF LevelOK
<1>11. OnLevel(w) => r.enc \in Chunks
  BY <1>10 DEF From, On
<1>12. ASSUME Inserting(w)', m \in {"shift", "unlockOther", "isEmpty", "count"} \/ GoingDown(w)'
       PROVE  Mine(loc[w].enc)' /\ (l # "unlockOther" => s.enc = r.enc) /\ Inserting(w)
              /\ (GoingDown(w) \/ l \in {"encCheck", "empty", "shift", "unlockOther", "isEmpty"})
  <2>1. /\ Inserting(w)
        /\ GoingDown(w) \/ l \in {"encCheck", "empty", "shift", "unlockOther", "isEmpty"}
    <3>1. CASE GoingDown(w)'
      BY <1>1, <1>12, <3>1, DownBegins
    <3>2. CASE m \in {"shift", "unlockOther", "isEmpty", "count"}
      <4>1. l \in {"encCheck", "empty", "shift", "unlockOther", "isEmpty"} \cup DownLabels
        BY <1>1, <3>2, ToLabel
      <4>2. s.kind = r.kind
        BY <1>4, <4>1 DEF Keeps, DownLabels
      <4> QED BY <1>12, <4>1, <4>2 DEF Inserting, GoingDown
    <3> QED BY <1>12, <3>1, <3>2
  <2>2. l \notin {"take", "return", "markZombie", "uncount"}
    BY <1>1, <2>1 DEF Control, MergeLabels, GoingDown, DownLabels, SearchLabels, UnlinkLabels
  <2>3. OnLevel(w)
    BY <2>1, <2>2 DEF OnLevel, GoingDown, OwnLabels, SearchLabels, UnlinkLabels, DownLabels
  <2>4. l # "unlockOther" => s.enc = r.enc
    <3>1. l \notin {"raise", "height", "unlockEnc", "return", "enclose"}
      BY <2>1 DEF GoingDown, SearchLabels, UnlinkLabels, DownLabels
    <3>2. l # "searched" => (l # "unlockOther" => s.enc = r.enc)
      BY <1>4, <2>2, <3>1 DEF Keeps
    <3>3. l = "searched" => s.enc = r.enc
      <4>1. SUFFICES ASSUME l = "searched" PROVE s.enc = r.enc
        OBVIOUS
      <4>2. GoingDown(w)
        BY <2>1, <4>1
      <4>3. r.caller = "down"
        BY <4>1, <4>2 DEF GoingDown, DownLabels
      <4> QED BY <1>4, <4>1, <4>3 DEF Turns
    <3> QED BY <3>2, <3>3
  <2>5. s.enc \in Chunks /\ Mine(s.enc)
    <3>1. CASE l = "unlockOther"
      BY <1>1, <1>4, <1>9, <2>1, <3>1 DEF Turns, CountOK
    <3>2. CASE l # "unlockOther"
      <4>1. Mine(r.enc)
        <5>1. CASE GoingDown(w) \/ l \in {"shift", "isEmpty"}
          BY <1>1, <2>1, <5>1 DEF CountOK
        <5>2. CASE l = "empty"
          BY <1>7, <2>3, <5>2 DEF LevelOK, EncLocked, SplitLabels
        <5>3. CASE l = "encCheck"
          <6>1. m = "shift"
            <7>1. ~GoingDown(w)
              BY <5>3 DEF GoingDown, DownLabels, SearchLabels, UnlinkLabels
            <7>2. ~GoingDown(w)'
              BY <1>1, <5>3, <7>1, <1>12, DownBegins
            <7>3. m \in {"encRetry", "unlockBottom", "unlockEnc", "shift", "nextRead",
                         "lowerMax", "unshift"}
              BY <1>1, <5>3, FromLabel
            <7> QED BY <1>12, <7>2, <7>3
          <6>2. Enclosing(w)
            BY <1>4, <5>3, <6>1 DEF Turns, InsertFits
          <6> QED BY <6>2, EnclosingFacts
        <5> QED BY <2>1, <3>2, <5>1, <5>2, <5>3
      <4> QED BY <1>11, <2>3, <2>4, <3>2, <4>1
    <3> QED BY <3>1, <3>2
  <2>6. ASSUME NEW e, e = s.enc PROVE Mine(e)'
    <3>1. Holds(w, e)'
      BY <1>12, <2>6 DEF Holds, HasEnc, LevelLabels
    <3> QED BY <2>2, <2>5, <2>6, <3>1, MineHeld
  <2> QED BY <2>1, <2>4, <2>6
<1>13. ASSUME m = "unlockOther" PROVE Mine(loc[w].tgt)'
  <2>1. l = "shift"
    BY <1>1, <1>13, ToLabel
  <2>2. s.tgt = r.tgt
    BY <1>4, <2>1 DEF Keeps
  <2>3. Mine(r.tgt)
    BY <1>7, <2>1 DEF OnLevel, OwnLabels, SearchLabels, UnlinkLabels, ShiftOK
  <2>4. ASSUME NEW e, e = s.tgt PROVE Mine(e)'
    <3>1. Holds(w, e)'
      BY <1>3, <1>13, <2>4 DEF Control, Shifting, Holds, HasEnc, HasNew, LevelLabels
    <3> QED BY <1>9, <2>1, <2>2, <2>3, <2>4, <3>1, MineHeld
  <2> QED BY <2>4
<1>14. ASSUME Inserting(w)', GoingDown(w)' PROVE s.new # Nil
  <2>1. Inserting(w) /\ (GoingDown(w) \/ l = "unlockOther")
    BY <1>1, <1>14, DownBegins
  <2>2. r.new # Nil
    BY <1>1, <2>1 DEF CountOK, Control
  <2>3. l \notin {"alloc", "count", "unlockMerged", "return"}
    BY <2>1 DEF GoingDown, DownLabels, SearchLabels, UnlinkLabels
  <2> QED BY <1>4, <2>2, <2>3 DEF Keeps
<1>15. ASSUME m = "count", s.new = Nil PROVE s.level > 0 /\ ctr'[s.level] = 0
  <2>1. l \in {"unlockOther", "isEmpty"} \cup DownLabels
    BY <1>1, <1>15, ToLabel
  <2>2. s.new = r.new /\ s.kind = r.kind /\ s.level = r.level /\ ctr' = ctr
    BY <1>4, <2>1 DEF Keeps, DownLabels
  <2>3. Inserting(w)
    BY <1>3, <1>15, <2>2 DEF Control, Inserting
  <2>4. l = "isEmpty"
    BY <1>1, <1>15, <2>1, <2>2, <2>3 DEF Control, CountOK, GoingDown
  <2> QED BY <1>1, <1>4, <1>15, <2>2, <2>4 DEF Turns, Control
<1>16. ASSUME ~Inserting(w)', m \in NextLabels, s.ini # s.enc PROVE s.over
  <2>1. l \in NextLabels \cup {"encCheck", "mergeRead"}
    BY <1>1, <1>16, ToLabel
  <2>2. s.enc = r.enc /\ s.kind = r.kind
    BY <1>4, <2>1 DEF Keeps, NextLabels
  <2>3. CASE l = "encCheck"
    <3>1. m = "nextRead"
      <4>1. m \in {"encRetry", "unlockBottom", "unlockEnc", "shift", "nextRead",
                   "lowerMax", "unshift"}
        BY <1>1, <2>3, FromLabel
      <4> QED BY <1>16, <4>1 DEF NextLabels
    <3> QED BY <1>4, <1>16, <2>2, <2>3, <3>1 DEF Turns
  <2>4. CASE l = "mergeRead"
    <3>1. m = "nextRead"
      BY <1>1, <1>16, <2>4, FromLabel DEF NextLabels
    <3> QED BY <1>4, <2>4, <3>1 DEF Turns
  <2>5. CASE l \in NextLabels
    BY <1>1, <1>4, <1>16, <2>2, <2>5 DEF Keeps, NextLabels, CountOK, Inserting
  <2> QED BY <2>1, <2>3, <2>4, <2>5
<1>17. ASSUME ~Inserting(w)', m \in {"alloc", "unlockNext", "copy", "empty", "unlockNew"}
       PROVE  s.over
  <2>1. l \in {"nextRead", "nextSet", "alloc", "unlockNext", "copy", "empty"}
    BY <1>1, <1>17, ToLabel
  <2>2. s.over = r.over /\ s.kind = r.kind
    BY <1>4, <2>1 DEF Keeps
  <2>3. CASE l \in {"nextRead", "nextSet"}
    <3>1. m = "alloc"
      BY <1>1, <1>17, <2>3, ToLabel
    <3>2. r.ini # r.enc
      BY <1>4, <1>17, <2>2, <2>3, <3>1 DEF Turns, Inserting
    <3> QED BY <1>1, <1>17, <2>2, <2>3, <3>2 DEF CountOK, NextLabels, Inserting
  <2>4. CASE l \notin {"nextRead", "nextSet"}
    BY <1>1, <1>17, <2>1, <2>2, <2>4 DEF CountOK, Inserting
  <2> QED BY <2>3, <2>4
<1> QED BY <1>5, <1>6, <1>12, <1>13, <1>14, <1>15, <1>16, <1>17 DEF CountOK

-----------------------------------------------------------------------------
(* What the counters say of a level. *)

\* The sets that are counted are finite.
LEMMA CountsAre ==
  ASSUME NEW g, NEW l
  PROVE  /\ IsFiniteSet(Laggers(l)) /\ IsFiniteSet(Uncounters(l)) /\ IsFiniteSet(Alives(g, l))
         /\ Cardinality(Laggers(l)) \in Nat /\ Cardinality(Uncounters(l)) \in Nat
         /\ Cardinality(Alives(g, l)) \in Nat
<1>1. IsFiniteSet(Warps) /\ IsFiniteSet(Chunks)
  <2>1. NumWarps - 1 \in Int /\ PoolSize \in Int
    BY TraceAssumption, ConstantsAre
  <2> QED BY <2>1, FS_Interval DEF Warps, Chunks
<1>2. /\ Laggers(l) \in SUBSET Warps /\ Uncounters(l) \in SUBSET Warps
      /\ Alives(g, l) \in SUBSET Chunks
  BY DEF Laggers, Uncounters, Alives
<1>3. IsFiniteSet(Laggers(l)) /\ IsFiniteSet(Uncounters(l)) /\ IsFiniteSet(Alives(g, l))
  BY <1>1, <1>2, FS_Subset
<1> QED BY <1>3, FS_CardinalityType

\* The warp on its way to count down a chunk is not the last to be counted.
LEMMA UncountLeaves ==
  ASSUME NEW g, NEW w, ListStep(g, w), CountInv(g), pc[w] = "uncount"
  PROVE  /\ loc[w].level \in Levels /\ w \in Uncounters(loc[w].level)
         /\ ctr[loc[w].level] >= 2
<1> DEFINE l == loc[w].level
<1>1. w \in Warps /\ CountOK(w)
  BY DEF ListStep, CountInv
<1>2. l \in Levels
  BY LevelFacts DEF OwnLabels, SearchLabels, UnlinkLabels
<1>3. ctr \in [Levels -> Nat] /\ Counted(g, l) /\ ctr[l] > 0
  BY <1>1, <1>2 DEF CountInv, CountOK, Works
<1>4. w \in Uncounters(l)
  BY <1>1 DEF Uncounters
<1>5. Cardinality(Uncounters(l)) # 0
  BY <1>4, CountsAre, FS_EmptySet
<1> DEFINE a == Cardinality(Laggers(l))
           b == Cardinality(Alives(g, l))
           u == Cardinality(Uncounters(l))
<1>6. a \in Nat /\ b \in Nat /\ u \in Nat
  BY CountsAre
<1>7. ctr[l] + a = b + u /\ a < b
  BY <1>3 DEF Counted
<1>8. ctr[l] \in Nat
  BY <1>2, <1>3
<1> HIDE DEF a, b, u
<1>9. u # 0
  BY <1>5 DEF u
<1>10. ctr[l] >= 2
  BY <1>6, <1>7, <1>8, <1>9
<1> QED BY <1>2, <1>4, <1>10

\* What a step does to the counters.
LEMMA CounterStep ==
  ASSUME NEW g, NEW w, ListStep(g, w), CountInv(g)
  PROVE  /\ ctr' \in [Levels -> Nat]
         /\ pc[w] \notin {"count", "uncount"} => ctr' = ctr
         /\ pc[w] \in {"count", "uncount"} => loc[w].level \in Levels
         /\ pc[w] = "count" => ctr'[loc[w].level] = ctr[loc[w].level] + 1
         /\ pc[w] = "uncount" => ctr'[loc[w].level] = ctr[loc[w].level] - 1
         /\ \A x \in Levels : pc[w] \in {"count", "uncount"} /\ x # loc[w].level =>
                                ctr'[x] = ctr[x]
<1> DEFINE l == loc[w].level
<1>1. w \in Warps /\ Step(w) /\ RegistersOK
  BY StepFacts
<1>2. Keeps(w) /\ Turns(w)
  BY <1>1, StepKeepsRegs, StepTurns
<1>3. ctr \in [Levels -> Nat]
  BY DEF CountInv
<1>4. pc[w] \in {"count", "uncount"} => l \in Levels
  BY LevelFacts DEF OwnLabels, SearchLabels, UnlinkLabels
<1>5. pc[w] \notin {"count", "uncount"} => ctr' = ctr
  BY <1>2 DEF Keeps
<1>6. CASE pc[w] = "count"
  <2>1. ctr' = [ctr EXCEPT ![l] = @ + 1]
    BY <1>2, <1>6 DEF Turns
  <2> QED BY <1>3, <1>4, <1>6, <2>1
<1>7. CASE pc[w] = "uncount"
  <2>1. ctr' = [ctr EXCEPT ![l] = @ - 1]
    BY <1>2, <1>7 DEF Turns
  <2>2. ctr[l] >= 2
    BY <1>7, UncountLeaves
  <2> QED BY <1>3, <1>4, <1>7, <2>1, <2>2
<1> QED BY <1>3, <1>5, <1>6, <1>7

\* Nobody else waits to count the first chunk of a level that w counts.
LEMMA CountsAlone ==
  ASSUME NEW g, NEW w, ListStep(g, w), CountInv(g), NEW v \in Warps, v # w,
         pc[v] = "count", loc[v].new = Nil, pc[w] \in {"count", "uncount"}
  PROVE  loc[v].level \in Levels /\ loc[w].level # loc[v].level
<1> DEFINE l == loc[v].level
<1>1. w \in Warps /\ CountOK(w) /\ CountOK(v) /\ Control(w) /\ Control(v)
  BY StepFacts DEF CountInv, ListStep, ExclusiveInv, ReleaseInv
<1>2. WarpOK(g, v) /\ WarpOK(g, w)
  BY StepFacts DEF ListStep, ListInv
<1>3. LevelOK(g, v) /\ LevelOK(g, w)
  BY <1>2 DEF WarpOK, OnLevel, OwnLabels, SearchLabels, UnlinkLabels
<1>4. l \in Levels
  BY <1>3 DEF LevelOK
<1>5. ctr[l] = 0 /\ l > 0
  BY <1>1 DEF CountOK
<1>6. SUFFICES ASSUME loc[w].level = l PROVE FALSE
  BY <1>4
<1>7. ~Works(w)
  BY <1>1, <1>5, <1>6, LevelsAre DEF CountOK
<1>8. pc[w] = "count" /\ Inserting(w) /\ loc[w].new = Nil
  BY <1>1, <1>7 DEF Works, Lagging, Control
<1>9. Inserting(v)
  BY <1>1 DEF Control
<1>10. Mine(loc[v].enc) /\ Mine(loc[w].enc)
  BY Zenon, <1>1, <1>8, <1>9 DEF CountOK
<1>11. On(g, l, loc[v].enc) /\ On(g, l, loc[w].enc)
  BY <1>3, <1>6 DEF LevelOK, From
<1>12. loc[v].enc \in Alives(g, l) /\ loc[w].enc \in Alives(g, l)
  BY <1>10, <1>11 DEF Alives, Mine, IsZombie, On
<1>13. Cardinality(Alives(g, l)) = 1
  BY <1>4, <1>5 DEF CountInv, Counted
<1>14. loc[v].enc = loc[w].enc
  BY <1>12, <1>13, CountsAre, FS_Singleton
<1>15. Holds(v, loc[v].enc) /\ Holds(w, loc[w].enc)
  BY <1>8 DEF Holds, HasEnc, LevelLabels
<1>16. LocksExclusive
  BY DEF ListStep, ExclusiveInv
<1> QED BY <1>1, <1>10, <1>11, <1>14, <1>15, <1>16 DEF LocksExclusive, Mine, On

\* A step keeps what the other warps know of the counters.
LEMMA CountOthers ==
  ASSUME NEW g, NEW w, ListStep(g, w), CountInv(g), NEW v \in Warps, v # w
  PROVE  CountOK(v)'
<1>1. w \in Warps /\ pc'[v] = pc[v] /\ loc'[v] = loc[v] /\ CountOK(v) /\ WarpOK(g, v)
  BY StepFacts DEF CountInv, ListStep, ListInv
<1>2. ASSUME NEW c \in Chunks, Mine(c), Holds(v, c) PROVE Mine(c)'
  <2>1. chunk'[c] = chunk[c]
    BY <1>2, HeldStays
  <2> QED BY <1>2, <2>1 DEF Mine
<1>3. OnLevel(v) => LevelOK(g, v)
  BY <1>1 DEF WarpOK
<1>4. OnLevel(v) => loc[v].level \in Levels /\ loc[v].enc \in Chunks
  BY <1>3 DEF LevelOK, From, On
<1>5. Works(v) => ctr'[loc[v].level] > 0
  <2>1. SUFFICES ASSUME Works(v) PROVE ctr'[loc[v].level] > 0
    OBVIOUS
  <2>2. OnLevel(v)
    BY <2>1 DEF Works, Lagging, OnLevel, OwnLabels, GoingDown, SearchLabels, UnlinkLabels,
                DownLabels, NextLabels, SplitLabels, MergeTail
  <2>3. ctr[loc[v].level] > 0 /\ ctr \in [Levels -> Nat]
    BY <1>1, <2>1 DEF CountOK, CountInv
  <2>4. CASE pc[w] = "uncount" /\ loc[w].level = loc[v].level
    BY <1>4, <2>2, <2>3, <2>4, UncountLeaves, CounterStep
  <2>5. CASE pc[w] # "uncount" \/ loc[w].level # loc[v].level
    BY <1>4, <2>2, <2>3, <2>5, CounterStep
  <2> QED BY <2>4, <2>5
<1>6. ASSUME Inserting(v), pc[v] \in {"shift", "unlockOther", "isEmpty", "count"} \/ GoingDown(v)
      PROVE  Mine(loc[v].enc)'
  <2>1. OnLevel(v) /\ Holds(v, loc[v].enc)
    BY <1>6 DEF OnLevel, OwnLabels, GoingDown, SearchLabels, UnlinkLabels, DownLabels, Holds,
                HasEnc, LevelLabels
  <2>2. Mine(loc[v].enc)
    BY <1>1, <1>6 DEF CountOK
  <2>3. ASSUME NEW e, e = loc[v].enc PROVE Mine(e)'
    BY <1>2, <1>4, <2>1, <2>2, <2>3
  <2> QED BY <1>1, <2>3 DEF Mine
<1>7. ASSUME pc[v] = "unlockOther" PROVE Mine(loc[v].tgt)'
  <2>1. Control(v) /\ Mine(loc[v].tgt)
    BY <1>1, <1>7 DEF CountOK, ListStep, ExclusiveInv, ReleaseInv
  <2>2. Holds(v, loc[v].tgt)
    BY <1>7, <2>1 DEF Control, Shifting, Holds, HasEnc, HasNew, LevelLabels
  <2>3. loc[v].tgt \in Chunks
    BY <1>1, <1>7 DEF WarpOK, OnLevel, OwnLabels, SearchLabels, UnlinkLabels, SplitOK, From, On
  <2>4. ASSUME NEW e, e = loc[v].tgt PROVE Mine(e)'
    BY <1>2, <2>1, <2>2, <2>3, <2>4
  <2> QED BY <1>1, <2>4 DEF Mine
<1>8. ASSUME pc[v] = "count", loc[v].new = Nil
      PROVE  loc[v].level > 0 /\ ctr'[loc[v].level] = 0
  <2>1. loc[v].level > 0 /\ ctr[loc[v].level] = 0
    BY <1>1, <1>8 DEF CountOK
  <2>2. CASE pc[w] \in {"count", "uncount"}
    BY <1>8, <2>1, <2>2, CountsAlone, CounterStep
  <2>3. CASE pc[w] \notin {"count", "uncount"}
    BY <2>1, <2>3, CounterStep
  <2> QED BY <2>1, <2>2, <2>3
<1>9. /\ Works(v)' <=> Works(v)
      /\ GoingDown(v)' <=> GoingDown(v)
      /\ Inserting(v)' <=> Inserting(v)
  BY <1>1 DEF Works, Lagging, GoingDown, Inserting
<1> QED BY <1>1, <1>5, <1>6, <1>7, <1>8, <1>9 DEF CountOK

-----------------------------------------------------------------------------
(* What a step does to the sets that are counted. *)

\* A chunk joins those of its level when a split links it, and leaves them as a zombie.
LEMMA AlivesNext ==
  ASSUME NEW g, NEW w, ListStep(g, w), NEW h, h = NextGhosts(g, w), NEW l \in Levels
  PROVE  /\ pc[w] \notin {"copy", "markZombie"} \/ loc[w].level # l =>
              Alives(h, l)' = Alives(g, l)
         /\ pc[w] = "copy" /\ loc[w].level = l =>
              loc[w].new \notin Alives(g, l) /\ Alives(h, l)' = Alives(g, l) \cup {loc[w].new}
         /\ pc[w] = "markZombie" /\ loc[w].level = l =>
              loc[w].enc \in Alives(g, l) /\ Alives(h, l)' = Alives(g, l) \ {loc[w].enc}
<1>1. w \in Warps /\ Step(w) /\ RegistersOK
  BY StepFacts
<1>2. Turns(w)
  BY <1>1, StepTurns
<1>3. Nil \notin Levels
  BY LevelsAre
<1>4. \A c \in Chunks : ~(pc[w] = "markZombie" /\ c = loc[w].enc) =>
        (IsZombie(chunk'[c]) <=> IsZombie(chunk[c]))
  BY AliveStays
<1>5. CASE pc[w] = "copy"
  <2>1. SplitCopy(w)
    BY <1>2, <1>5 DEF Turns
  <2>2. h = SplitGhosts(g, w)
    BY <1>5 DEF NextGhosts
  <2>3. h.lvl[loc[w].new] = loc[w].level /\ \A x \in Chunks \ {loc[w].new} : h.lvl[x] = g.lvl[x]
    BY <2>1, <2>2, SplitGhostFacts
  <2>4. PICK d, n, c, v : d = loc[w].ini /\ n = loc[w].new /\ c = chunk[d] /\ v = loc[w].level
    OBVIOUS
  <2>5. /\ n \in Chunks /\ g.lvl[n] = Nil /\ chunk'[n].lock = "locked"
    BY <2>1, <2>4, SplitCopyFacts
  <2>6. \A x \in Chunks : IsZombie(chunk'[x]) <=> IsZombie(chunk[x])
    BY <1>4, <1>5
  <2>7. ~IsZombie(chunk'[n])
    BY <2>5 DEF IsZombie
  <2>8. \A x \in Chunks : /\ x # n => (x \in Alives(h, l)' <=> x \in Alives(g, l))
                          /\ x = n => x \notin Alives(g, l)
                                      /\ (x \in Alives(h, l)' <=> loc[w].level = l)
    BY <1>3, <2>3, <2>4, <2>5, <2>6, <2>7 DEF Alives, On
  <2>9. Alives(h, l)' \in SUBSET Chunks /\ Alives(g, l) \in SUBSET Chunks
    BY DEF Alives
  <2> QED BY <1>5, <2>4, <2>5, <2>8, <2>9
<1>6. CASE pc[w] = "markZombie"
  <2>1. MarkZombie(w)
    BY <1>2, <1>6 DEF Turns
  <2>2. h = BuryGhosts(g, w)
    BY <1>6 DEF NextGhosts
  <2>3. PICK e, v, x, c : e = loc[w].enc /\ v = loc[w].level /\ x = loc[w].nxt /\ c = chunk[e]
    OBVIOUS
  <2>4. /\ e \in Chunks /\ g.lvl[e] = v /\ ~IsZombie(c) /\ chunk'[e].lock = "zombie"
        /\ h.lvl = g.lvl
    BY <2>1, <2>2, <2>3, MarkZombieFacts
  <2>5. IsZombie(chunk'[e])
    BY <2>4 DEF IsZombie
  <2>6. \A y \in Chunks : /\ y # e => (y \in Alives(h, l)' <=> y \in Alives(g, l))
                          /\ y = e => y \notin Alives(h, l)'
                                      /\ (y \in Alives(g, l) <=> loc[w].level = l)
    BY <1>4, <2>3, <2>4, <2>5 DEF Alives, On
  <2>7. Alives(h, l)' \in SUBSET Chunks /\ Alives(g, l) \in SUBSET Chunks
    BY DEF Alives
  <2> QED BY <1>6, <2>3, <2>4, <2>6, <2>7
<1>7. CASE pc[w] \notin {"copy", "markZombie"}
  <2>1. h.lvl = g.lvl
    BY <1>7 DEF NextGhosts, LowerGhosts, Sunk
  <2>2. \A x \in Chunks : x \in Alives(h, l)' <=> x \in Alives(g, l)
    BY <1>4, <1>7, <2>1 DEF Alives, On
  <2>3. Alives(h, l)' \in SUBSET Chunks /\ Alives(g, l) \in SUBSET Chunks
    BY DEF Alives
  <2> QED BY <1>7, <2>2, <2>3
<1> QED BY <1>5, <1>6, <1>7

\* Who has yet to count a chunk: w from the moment it links one.
LEMMA LaggersNext ==
  ASSUME NEW g, NEW w, ListStep(g, w), CountInv(g), NEW l \in Levels
  PROVE  /\ pc[w] \notin {"copy", "markZombie", "count"} \/ loc[w].level # l =>
              Laggers(l)' = Laggers(l)
         /\ pc[w] = "copy" /\ loc[w].level = l =>
              w \notin Laggers(l) /\ Laggers(l)' = Laggers(l) \cup {w}
         /\ pc[w] = "markZombie" /\ loc[w].level = l =>
              (w \in Laggers(l) <=> loc[w].over) /\ Laggers(l)' = Laggers(l) \ {w}
         /\ pc[w] = "count" /\ loc[w].level = l =>
              (w \in Laggers(l) <=> loc[w].new # Nil) /\ Laggers(l)' = Laggers(l) \ {w}
<1> DEFINE p == pc[w]
           m == pc'[w]
<1>1. /\ w \in Warps /\ Step(w) /\ RegistersOK /\ Control(w) /\ CountOK(w)
      /\ \A v \in Warps \ {w} : pc'[v] = pc[v] /\ loc'[v] = loc[v]
  BY StepFacts DEF CountInv
<1>2. Control(w)'
  BY <1>1, StepControl DEF ListStep, ExclusiveInv, ReleaseInv
<1>3. Keeps(w)
  BY <1>1, StepKeepsRegs
<1>4. \A v \in Warps \ {w} : v \in Laggers(l)' <=> v \in Laggers(l)
  BY <1>1 DEF Laggers, Lagging, GoingDown, Inserting
<1>5. Laggers(l) \in SUBSET Warps /\ Laggers(l)' \in SUBSET Warps
  BY DEF Laggers
<1>6. /\ w \in Laggers(l) <=> Lagging(w) /\ loc[w].level = l
      /\ w \in Laggers(l)' <=> Lagging(w)' /\ loc'[w].level = l
  BY <1>1 DEF Laggers
<1>7. CASE p = "copy"
  <2>1. m = "empty" /\ loc'[w].level = loc[w].level
    BY <1>1, <1>3, <1>7, FromLabel DEF Keeps
  <2>2. Lagging(w)' /\ ~Lagging(w)
    BY <1>7, <2>1 DEF Lagging, MergeTail, GoingDown, DownLabels, SearchLabels, UnlinkLabels
  <2> QED BY <1>1, <1>4, <1>5, <1>6, <1>7, <2>1, <2>2
<1>8. CASE p = "markZombie"
  <2>1. /\ m \in {"uncount", "search", "unlockMerged"} /\ loc'[w].level = loc[w].level
        /\ loc'[w].kind = loc[w].kind /\ ~Inserting(w)
    BY <1>1, <1>3, <1>8, FromLabel DEF Keeps, Control, MergeLabels
  <2>2. ~Lagging(w)' /\ (Lagging(w) <=> loc[w].over)
    BY <1>8, <2>1 DEF Lagging, MergeTail, Inserting
  <2> QED BY <1>1, <1>4, <1>5, <1>6, <1>8, <2>1, <2>2
<1>9. CASE p = "count"
  <2>1. /\ m \in {"raise", "unlockEnc"} /\ loc'[w].level = loc[w].level /\ Inserting(w)
    BY <1>1, <1>3, <1>9, FromLabel DEF Keeps, Control
  <2>2. ~Lagging(w)' /\ (Lagging(w) <=> loc[w].new # Nil)
    BY <1>9, <2>1 DEF Lagging, MergeTail, GoingDown, DownLabels, SearchLabels, UnlinkLabels
  <2> QED BY <1>1, <1>4, <1>5, <1>6, <1>9, <2>1, <2>2
<1>10. CASE p \notin {"copy", "markZombie", "count"}
  <2>1. Lagging(w)' <=> Lagging(w)
    BY <1>1, <1>2, <1>10, LagKept
  <2>2. Lagging(w) => loc'[w].level = loc[w].level
    <3>1. Lagging(w) => p \notin {"raise", "height", "unlockEnc", "return"}
      BY DEF Lagging, MergeTail, GoingDown, DownLabels, SearchLabels, UnlinkLabels
    <3> QED BY <1>3, <3>1 DEF Keeps
  <2> QED BY <1>4, <1>5, <1>6, <1>10, <2>1, <2>2
<1> QED BY <1>7, <1>8, <1>9, <1>10

\* Who is to count down one: w from the moment it has marked the zombie.
LEMMA UncountersNext ==
  ASSUME NEW g, NEW w, ListStep(g, w), NEW l \in Levels
  PROVE  /\ \/ ~(pc[w] = "markZombie" /\ ~loc[w].over) /\ pc[w] # "uncount"
            \/ loc[w].level # l
          =>
              Uncounters(l)' = Uncounters(l)
         /\ pc[w] = "markZombie" /\ ~loc[w].over /\ loc[w].level = l =>
              w \notin Uncounters(l) /\ Uncounters(l)' = Uncounters(l) \cup {w}
         /\ pc[w] = "uncount" /\ loc[w].level = l => Uncounters(l)' = Uncounters(l) \ {w}
<1>1. /\ w \in Warps /\ Step(w) /\ RegistersOK
      /\ \A v \in Warps \ {w} : pc'[v] = pc[v] /\ loc'[v] = loc[v]
  BY StepFacts
<1>2. Keeps(w) /\ Turns(w)
  BY <1>1, StepKeepsRegs, StepTurns
<1>3. \A v \in Warps \ {w} : v \in Uncounters(l)' <=> v \in Uncounters(l)
  BY <1>1 DEF Uncounters
<1>4. Uncounters(l) \in SUBSET Warps /\ Uncounters(l)' \in SUBSET Warps
  BY DEF Uncounters
<1>5. /\ w \in Uncounters(l) <=> pc[w] = "uncount" /\ loc[w].level = l
      /\ w \in Uncounters(l)' <=> pc'[w] = "uncount" /\ loc'[w].level = l
  BY <1>1 DEF Uncounters
<1>6. CASE pc[w] = "markZombie"
  <2>1. (loc[w].over <=> pc'[w] # "uncount") /\ loc'[w].level = loc[w].level
    BY <1>2, <1>6 DEF Turns, Keeps
  <2> QED BY <1>1, <1>3, <1>4, <1>5, <1>6, <2>1
<1>7. CASE pc[w] = "uncount"
  <2>1. pc'[w] # "uncount"
    BY <1>1, <1>7, FromLabel
  <2> QED BY <1>1, <1>3, <1>4, <1>5, <1>7, <2>1
<1>8. CASE pc[w] \notin {"markZombie", "uncount"}
  <2>1. pc'[w] # "uncount"
    BY <1>1, <1>8, ToLabel
  <2> QED BY <1>3, <1>4, <1>5, <1>8, <2>1
<1> QED BY <1>6, <1>7, <1>8

\* Links and down pointers are changed without touching a key.
LEMMA KeysStay ==
  ASSUME NEW g, NEW w, ListStep(g, w), pc[w] \in {"unlink", "nextSet", "downWrite"},
         NEW c \in Chunks
  PROVE  \A i \in Lanes : chunk'[c].data[i].k = chunk[c].data[i].k
<1>1. /\ w \in Warps /\ Step(w) /\ chunk \in [Chunks -> ChunkType]
  BY StepFacts
<1>2. /\ chunk[c].data \in Datas
      /\ chunk[c] \in [data : Datas, max : NegInf .. PosInf, next : Chunks \cup {Nil},
                       lock : LockStates]
  BY <1>1 DEF ChunkType, Datas
<1>3. CASE UnlinkZombies(w) \/ RedirectNext(w)
  <2>1. PICK d, x : chunk' = [chunk EXCEPT ![d].next = x]
    BY <1>3 DEF UnlinkZombies, RedirectNext, UpdateNextVal
  <2>2. chunk'[c].data = chunk[c].data
    BY <1>1, <1>2, <2>1
  <2> QED BY <2>2
<1>4. CASE DownWrite(w)
  <2>1. PICK d, S, t : chunk' = [chunk EXCEPT ![d].data =
                         [i \in Lanes |-> IF i \in S THEN [@[i] EXCEPT !.v = t] ELSE @[i]]]
    BY <1>4 DEF DownWrite
  <2>2. \A i \in Lanes : chunk[c].data[i] \in [k : NegInf .. PosInf, v : Int]
    BY <1>2 DEF Datas, Entries
  <2>3. CASE c = d
    <3>1. chunk'[c].data = [i \in Lanes |-> IF i \in S THEN [chunk[c].data[i] EXCEPT !.v = t]
                                             ELSE chunk[c].data[i]]
      BY <1>1, <1>2, <2>1, <2>3
    <3> QED BY <2>2, <3>1
  <2>4. CASE c # d
    BY <1>1, <2>1, <2>4
  <2> QED BY SMTT(30), <2>3, <2>4
<1>5. pc[w] \in StoreLabels
  BY DEF StoreLabels
<1>6. /\ ~ShiftRight(w) /\ ~EmptyMoved(w) /\ ~LowerMax(w) /\ ~ShiftLeft(w) /\ ~ShiftData(w)
  BY Zenon DEF ShiftRight, EmptyMoved, LowerMax, ShiftLeft, ShiftData, At
<1>7. ~MergeCopy(w) /\ ~SplitCopy(w) /\ ~GetNewChunk(w) /\ ~MarkZombie(w)
  BY Zenon DEF MergeCopy, SplitCopy, GetNewChunk, MarkZombie, At
<1> QED BY <1>1, <1>3, <1>4, <1>5, <1>6, <1>7, StoreActions

\* The chunk of a level that is not counted stays blank, but for the key of the warp that
\* is about to see the level empty.
LEMMA BlankStays ==
  ASSUME NEW g, NEW w, ListStep(g, w), CountInv(g), NEW l \in Levels, ctr[l] = 0, l # 0,
         NEW c \in Alives(g, l), Blank(chunk[c]),
         ~FitsIn(w, c)
  PROVE  Blank(chunk[c])'
<1>1. /\ w \in Warps /\ Step(w) /\ RegistersOK /\ WordsOK /\ Control(w) /\ WarpOK(g, w)
      /\ CountOK(w)
  BY StepFacts DEF CountInv
<1>2. c \in Chunks /\ g.lvl[c] = l /\ On(g, l, c)
  BY DEF Alives, On
<1>3. SUFFICES \A i \in Lanes : chunk'[c].data[i].k = chunk[c].data[i].k
  BY DEF Blank
<1>4. CASE ~Target(w, c)
  <2>1. Same(c)
    BY <1>1, <1>2, <1>4, StepTargets
  <2> QED BY <2>1 DEF Same
<1>5. CASE Target(w, c)
  <2>1. CASE pc[w] \in {"unlink", "nextSet", "downWrite"}
    BY <1>2, <2>1, KeysStay
  <2>2. CASE pc[w] = "alloc"
    <3>1. c = allocated
      BY <1>5, <2>2 DEF Target
    <3>2. Linked(g, c) /\ ListInv(g)
      BY <1>2, LevelsAre DEF Linked, ListStep
    <3> QED BY <3>1, <3>2, LinkedIs
  <2>3. CASE pc[w] \notin {"unlink", "nextSet", "downWrite", "alloc"}
    <3>1. pc[w] \in {"empty", "copy", "shift", "lowerMax", "unshift", "shiftBy", "mergeCopy"}
      BY <1>5, <2>3 DEF Target
    <3>2. LevelOK(g, w) /\ NextOK(g, w) /\ SplitOK(g, w) /\ MergeOK(g, w) /\ loc[w].level \in Levels
      BY <3>1, LevelFacts DEF OwnLabels, SearchLabels, UnlinkLabels
    <3>3. On(g, loc[w].level, loc[w].enc)
      BY <3>2 DEF LevelOK, From
    <3>4. loc[w].level = l
      <4>1. CASE pc[w] = "copy"
        <5>1. c \in {loc[w].ini, loc[w].new}
          BY <1>5, <4>1 DEF Target
        <5>2. g.lvl[loc[w].new] = Nil
          BY <3>2, <4>1 DEF NextOK
        <5>3. On(g, loc[w].level, loc[w].ini)
          BY <3>2, <4>1 DEF LevelOK, SplitLabels
        <5> QED BY <1>2, <5>1, <5>2, <5>3, LevelsAre DEF On
      <4>2. CASE pc[w] = "empty"
        BY <1>2, <1>5, <3>2, <4>2 DEF Target, LevelOK, SplitLabels, On
      <4>3. CASE pc[w] = "shift"
        BY <1>2, <1>5, <3>2, <4>3 DEF Target, SplitOK, From, On
      <4>4. CASE pc[w] \in {"lowerMax", "unshift"}
        BY <1>2, <1>5, <3>3, <4>4 DEF Target, On
      <4>5. CASE pc[w] \in {"shiftBy", "mergeCopy"}
        BY <1>2, <1>5, <3>2, <4>5, LevelsAre DEF Target, LevelOK, On
      <4> QED BY <3>1, <4>1, <4>2, <4>3, <4>4, <4>5
    <3>5. ~Works(w)
      <4>1. Works(w) => ctr[l] > 0
        BY <1>1, <3>4 DEF CountOK
      <4> QED BY <4>1
    <3>6. pc[w] = "shift"
      BY <3>1, <3>5 DEF Works, SplitLabels, MergeTail
    <3>7. Shifting(w) /\ loc[w].new = Nil
      BY <1>1, <3>5, <3>6 DEF Control, Shifting, Works, Lagging
    <3>8. c = loc[w].enc
      BY <1>5, <3>6, <3>7 DEF Target, Shifting
    <3> QED BY <3>6, <3>7, <3>8 DEF FitsIn
  <2> QED BY <2>1, <2>2, <2>3
<1> QED BY <1>4, <1>5

\* And that warp goes on to count it.
LEMMA FitsGoesOn ==
  ASSUME NEW g, NEW w, ListStep(g, w), CountInv(g), NEW l \in Levels, ctr[l] = 0, l # 0,
         NEW c, On(g, l, c), FitsIn(w, c), pc[w] # "count"
  PROVE  FitsIn(w, c)'
<1>1. /\ w \in Warps /\ Step(w) /\ RegistersOK
  BY StepFacts
<1>2. Keeps(w) /\ Turns(w)
  BY <1>1, StepKeepsRegs, StepTurns
<1>3. pc[w] \in {"shift", "isEmpty"} /\ loc[w].new = Nil /\ c = loc[w].enc
  BY DEF FitsIn
<1>4. LevelOK(g, w)
  BY <1>3, LevelFacts DEF OwnLabels, SearchLabels, UnlinkLabels
<1>5. loc[w].level = l
  BY <1>3, <1>4 DEF LevelOK, From, On
<1>6. loc'[w].new = Nil /\ loc'[w].enc = c
  BY <1>2, <1>3 DEF Keeps
<1>7. CASE pc[w] = "shift"
  <2>1. pc'[w] \in {"shift", "unlockOther", "unlockBottom", "isEmpty"}
    BY <1>1, <1>7, FromLabel
  <2>2. pc'[w] # "unlockOther"
    BY <1>2, <1>3, <1>7 DEF Turns
  <2>3. pc'[w] # "unlockBottom"
    BY <1>2, <1>5, <1>7 DEF Turns
  <2> QED BY <1>6, <2>1, <2>2, <2>3 DEF FitsIn
<1>8. CASE pc[w] = "isEmpty"
  <2>1. pc'[w] = "count"
    BY <1>2, <1>5, <1>8 DEF Turns
  <2> QED BY <1>6, <2>1 DEF FitsIn
<1> QED BY <1>3, <1>7, <1>8

\* Away from the steps that link, count, count down and mark, a level keeps its count.
LEMMA CountedElse ==
  ASSUME NEW g, NEW w, ListStep(g, w), CountInv(g), NEW h, h = NextGhosts(g, w),
         NEW l \in Levels,
         loc[w].level # l \/ pc[w] \notin {"copy", "markZombie", "count", "uncount"}
  PROVE  Counted(h, l)'
<1>1. w \in Warps /\ \A v \in Warps \ {w} : pc'[v] = pc[v] /\ loc'[v] = loc[v]
  BY StepFacts
<1>2. Alives(h, l)' = Alives(g, l)
  BY AlivesNext
<1>3. Laggers(l)' = Laggers(l)
  BY LaggersNext
<1>4. Uncounters(l)' = Uncounters(l)
  BY UncountersNext
<1>5. ctr'[l] = ctr[l]
  BY CounterStep
<1>6. Counted(g, l)
  BY DEF CountInv
<1>7. ASSUME ~(ctr[l] > 0), NEW c \in Alives(g, l)
      PROVE  Blank(chunk[c])' \/ \E v \in Warps : FitsIn(v, c)'
  <2>1. l > 0 /\ ctr[l] = 0
    BY <1>6, <1>7 DEF Counted, CountInv
  <2>2. Blank(chunk[c]) \/ \E v \in Warps : FitsIn(v, c)
    BY <1>6, <1>7 DEF Counted
  <2>3. l # 0 /\ On(g, l, c)
    BY <2>1 DEF Alives
  <2>4. CASE FitsIn(w, c)
    <3>1. pc[w] # "count"
      <4>1. SUFFICES ASSUME pc[w] = "count" PROVE FALSE
        OBVIOUS
      <4>2. LevelOK(g, w) /\ c = loc[w].enc
        BY <2>4, <4>1, LevelFacts DEF FitsIn, OwnLabels, SearchLabels, UnlinkLabels
      <4> QED BY <2>3, <4>1, <4>2 DEF LevelOK, From, On
    <3> QED BY <1>1, <2>1, <2>3, <2>4, <3>1, FitsGoesOn
  <2>5. CASE \E v \in Warps \ {w} : FitsIn(v, c)
    BY <1>1, <2>5 DEF FitsIn
  <2>6. CASE Blank(chunk[c]) /\ ~FitsIn(w, c)
    BY <2>1, <2>3, <2>6, BlankStays
  <2> QED BY <2>2, <2>4, <2>5, <2>6
<1> QED BY <1>2, <1>3, <1>4, <1>5, <1>6, <1>7 DEF Counted

-----------------------------------------------------------------------------
(* The steps that change a count, or what is counted. *)

\* A split links a chunk, which its warp is yet to count.
LEMMA CountedLink ==
  ASSUME NEW g, NEW w, ListStep(g, w), CountInv(g), NEW h, h = NextGhosts(g, w),
         NEW l \in Levels, loc[w].level = l, pc[w] = "copy"
  PROVE  Counted(h, l)'
<1>1. w \in Warps /\ CountOK(w)
  BY StepFacts DEF CountInv
<1>2. ctr[l] > 0 /\ ctr[l] \in Nat
  BY <1>1 DEF CountOK, Works, SplitLabels, CountInv
<1> DEFINE n == loc[w].new
           S == Alives(g, l)
           L == Laggers(l)
           U == Uncounters(l)
<1>3. n \notin S /\ Alives(h, l)' = S \cup {n}
  BY AlivesNext
<1>4. w \notin L /\ Laggers(l)' = L \cup {w}
  BY LaggersNext
<1>5. Uncounters(l)' = U
  BY UncountersNext
<1>6. ctr'[l] = ctr[l]
  BY CounterStep
<1>7. /\ IsFiniteSet(S) /\ IsFiniteSet(L) /\ Cardinality(S) \in Nat /\ Cardinality(L) \in Nat
      /\ Cardinality(U) \in Nat
  BY CountsAre
<1>8. ctr[l] + Cardinality(L) = Cardinality(S) + Cardinality(U) /\ Cardinality(L) < Cardinality(S)
  BY <1>2 DEF CountInv, Counted
<1> HIDE DEF S, L, U, n
<1>9. Cardinality(S \cup {n}) = Cardinality(S) + 1
  BY <1>3, <1>7, FS_AddElement
<1>10. Cardinality(L \cup {w}) = Cardinality(L) + 1
  BY <1>4, <1>7, FS_AddElement
<1>11. /\ ctr[l] + (Cardinality(L) + 1) = (Cardinality(S) + 1) + Cardinality(U)
       /\ Cardinality(L) + 1 < Cardinality(S) + 1
  BY <1>2, <1>7, <1>8
<1> QED BY <1>2, <1>3, <1>4, <1>5, <1>6, <1>9, <1>10, <1>11 DEF Counted

\* A warp counts the chunk it has linked, or the first one of the level.
LEMMA CountedUp ==
  ASSUME NEW g, NEW w, ListStep(g, w), CountInv(g), NEW h, h = NextGhosts(g, w),
         NEW l \in Levels, loc[w].level = l, pc[w] = "count"
  PROVE  Counted(h, l)'
<1>1. w \in Warps /\ CountOK(w) /\ Control(w)
  BY StepFacts DEF CountInv
<1>2. ctr[l] \in Nat
  BY DEF CountInv
<1> DEFINE S == Alives(g, l)
           L == Laggers(l)
           U == Uncounters(l)
<1>3. Alives(h, l)' = S
  BY AlivesNext
<1>4. (w \in L <=> loc[w].new # Nil) /\ Laggers(l)' = L \ {w}
  BY LaggersNext
<1>5. Uncounters(l)' = U
  BY UncountersNext
<1>6. ctr'[l] = ctr[l] + 1
  BY CounterStep
<1>7. /\ IsFiniteSet(S) /\ IsFiniteSet(L) /\ IsFiniteSet(U)
      /\ Cardinality(S) \in Nat /\ Cardinality(L) \in Nat /\ Cardinality(U) \in Nat
  BY CountsAre
<1>8. Counted(g, l)
  BY DEF CountInv
<1>9. CASE loc[w].new # Nil
  <2>1. ctr[l] > 0
    BY <1>1, <1>4, <1>9 DEF CountOK, Works, Laggers
  <2>2. /\ ctr[l] + Cardinality(L) = Cardinality(S) + Cardinality(U)
        /\ Cardinality(L) < Cardinality(S)
    BY <1>8, <2>1 DEF Counted
  <2> HIDE DEF S, L, U
  <2>3. Cardinality(L \ {w}) = Cardinality(L) - 1
    BY <1>4, <1>7, <1>9, FS_RemoveElement
  <2>4. /\ (ctr[l] + 1) + (Cardinality(L) - 1) = Cardinality(S) + Cardinality(U)
        /\ Cardinality(L) - 1 < Cardinality(S) /\ ctr[l] + 1 > 0
    BY <1>2, <1>7, <2>2
  <2> QED BY <1>3, <1>4, <1>5, <1>6, <2>3, <2>4 DEF Counted
<1>10. CASE loc[w].new = Nil
  <2>1. ctr[l] = 0
    BY <1>1, <1>10 DEF CountOK
  <2>2. Cardinality(S) = 1
    BY <1>8, <2>1 DEF Counted
  <2>3. \A v \in Warps : loc[v].level = l => ~Works(v)
    <3> SUFFICES ASSUME NEW v \in Warps, loc[v].level = l, Works(v) PROVE FALSE
      OBVIOUS
    <3>1. CountOK(v)
      BY DEF CountInv
    <3>2. ctr[l] > 0
      BY <3>1 DEF CountOK
    <3> QED BY <2>1, <3>2
  <2>4. L = {} /\ U = {}
    BY <2>3 DEF Laggers, Uncounters, Works
  <2>5. Laggers(l)' = {} /\ Uncounters(l)' = {}
    BY <1>4, <1>5, <2>4
  <2>6. Cardinality({}) = 0
    BY FS_EmptySet
  <2> HIDE DEF S, L, U
  <2> QED BY <1>3, <1>6, <2>1, <2>2, <2>5, <2>6 DEF Counted
<1> QED BY <1>9, <1>10

\* A warp counts down the chunk it has emptied.
LEMMA CountedDown ==
  ASSUME NEW g, NEW w, ListStep(g, w), CountInv(g), NEW h, h = NextGhosts(g, w),
         NEW l \in Levels, loc[w].level = l, pc[w] = "uncount"
  PROVE  Counted(h, l)'
<1> DEFINE S == Alives(g, l)
           L == Laggers(l)
           U == Uncounters(l)
<1>1. w \in U /\ ctr[l] >= 2 /\ ctr[l] \in Nat
  BY UncountLeaves DEF CountInv
<1>2. Alives(h, l)' = S
  BY AlivesNext
<1>3. Laggers(l)' = L
  BY LaggersNext
<1>4. Uncounters(l)' = U \ {w}
  BY UncountersNext
<1>5. ctr'[l] = ctr[l] - 1
  BY CounterStep
<1>6. /\ IsFiniteSet(U) /\ Cardinality(U) \in Nat
      /\ Cardinality(S) \in Nat /\ Cardinality(L) \in Nat
  BY CountsAre
<1>7. ctr[l] + Cardinality(L) = Cardinality(S) + Cardinality(U) /\ Cardinality(L) < Cardinality(S)
  BY <1>1 DEF CountInv, Counted
<1> HIDE DEF S, L, U
<1>8. Cardinality(U \ {w}) = Cardinality(U) - 1
  BY <1>1, <1>6, FS_RemoveElement
<1>9. /\ (ctr[l] - 1) + Cardinality(L) = Cardinality(S) + (Cardinality(U) - 1)
      /\ ctr[l] - 1 > 0
  BY <1>1, <1>6, <1>7
<1> QED BY <1>2, <1>3, <1>4, <1>5, <1>7, <1>8, <1>9 DEF Counted

\* A warp that has linked a chunk and not counted it holds another one alive on the level.
LEMMA LaggerHolds ==
  ASSUME NEW g, NEW w, ListStep(g, w), CountInv(g), NEW l \in Levels, NEW v \in Laggers(l)
  PROVE  /\ v \in Warps /\ loc[v].enc \in Alives(g, l) /\ Mine(loc[v].enc)
         /\ Holds(v, loc[v].enc)
<1>1. v \in Warps /\ Lagging(v) /\ loc[v].level = l
  BY DEF Laggers
<1>2. CountOK(v) /\ WarpOK(g, v)
  BY <1>1 DEF CountInv, ListStep, ListInv
<1>3. OnLevel(v) /\ Holds(v, loc[v].enc)
  BY <1>1 DEF Lagging, MergeTail, OnLevel, OwnLabels, GoingDown, SearchLabels, UnlinkLabels,
              DownLabels, Holds, HasEnc, LevelLabels, NextLabels, SplitLabels, MergeLabels
<1>4. LevelOK(g, v)
  BY <1>2, <1>3 DEF WarpOK
<1>5. On(g, l, loc[v].enc)
  BY <1>1, <1>4 DEF LevelOK, From
<1>6. Mine(loc[v].enc)
  <2>1. CASE pc[v] \in {"empty", "unlockNew"} \cup MergeTail
    BY <1>4, <2>1 DEF LevelOK, EncLocked, SplitLabels, MergeTail
  <2>2. CASE pc[v] \notin {"empty", "unlockNew"} \cup MergeTail
    BY <1>1, <1>2, <2>2 DEF Lagging, CountOK
  <2> QED BY <2>1, <2>2
<1>7. ~IsZombie(chunk[loc[v].enc])
  BY <1>6 DEF Mine, IsZombie
<1> QED BY <1>1, <1>3, <1>5, <1>6, <1>7 DEF Alives, On

\* A warp that marks a zombie leaves more chunks than there are to be counted.
LEMMA RoomForZombie ==
  ASSUME NEW g, NEW w, ListStep(g, w), CountInv(g), NEW l \in Levels, loc[w].level = l,
         pc[w] = "markZombie", ~loc[w].over
  PROVE  Cardinality(Laggers(l)) + 1 < Cardinality(Alives(g, l))
<1> DEFINE e == loc[w].enc
           x == loc[w].nxt
           S == Alives(g, l)
           L == Laggers(l)
           T == (S \ {e}) \ {x}
           f == [v \in L |-> loc[v].enc]
<1>1. w \in Warps /\ Control(w)
  BY StepFacts
<1>2. e \in Chunks /\ On(g, l, e) /\ Mine(e) /\ x \in Chunks /\ On(g, l, x) /\ Mine(x) /\ x # e
  BY MergeFacts
<1>3. e \in S /\ x \in S
  BY <1>2 DEF Alives, Mine, IsZombie
<1>4. Holds(w, e) /\ Holds(w, x)
  BY DEF Holds, HasEnc, HasNxt, MergeLabels
<1>5. w \notin L
  BY LaggersNext
<1>6. LocksExclusive
  BY DEF ListStep, ExclusiveInv
<1>7. \A v \in L : v \in Warps /\ loc[v].enc \in S /\ Mine(loc[v].enc) /\ Holds(v, loc[v].enc)
  BY LaggerHolds
<1>8. \A c \in S : c \in Chunks
  BY DEF Alives
<1>9. ASSUME NEW v \in L PROVE loc[v].enc \in T
  <2>1. v # w
    BY <1>5
  <2>2. loc[v].enc # e /\ loc[v].enc # x
    BY <1>1, <1>2, <1>4, <1>6, <1>7, <2>1 DEF LocksExclusive, Mine
  <2> QED BY <1>7, <2>2
<1>10. \A u, v \in L : loc[u].enc = loc[v].enc => u = v
  BY <1>6, <1>7, <1>8 DEF LocksExclusive, Mine
<1>11. f \in Injection(L, T)
  BY <1>9, <1>10 DEF Injection, IsInjective
<1>12. IsFiniteSet(S) /\ Cardinality(S) \in Nat /\ Cardinality(L) \in Nat
  BY CountsAre
<1> HIDE DEF S, L, f, e, x
<1>13. IsFiniteSet(S \ {e}) /\ Cardinality(S \ {e}) = Cardinality(S) - 1
  BY <1>3, <1>12, FS_RemoveElement
<1>14. IsFiniteSet(T) /\ Cardinality(T) = Cardinality(S \ {e}) - 1
  BY <1>2, <1>3, <1>13, FS_RemoveElement
<1> HIDE DEF T
<1>15. Cardinality(L) <= Cardinality(T)
  BY <1>11, <1>14, FS_Injection
<1>16. Cardinality(L) + 1 < Cardinality(S)
  BY <1>12, <1>13, <1>14, <1>15
<1> QED BY <1>16 DEF S, L

\* A chunk becomes a zombie: its warp is to count it down, or has one less to count.
LEMMA CountedBury ==
  ASSUME NEW g, NEW w, ListStep(g, w), CountInv(g), NEW h, h = NextGhosts(g, w),
         NEW l \in Levels, loc[w].level = l, pc[w] = "markZombie"
  PROVE  Counted(h, l)'
<1>1. w \in Warps /\ CountOK(w)
  BY StepFacts DEF CountInv
<1>2. ctr[l] > 0 /\ ctr[l] \in Nat
  BY <1>1 DEF CountOK, Works, MergeTail, CountInv
<1> DEFINE e == loc[w].enc
           S == Alives(g, l)
           L == Laggers(l)
           U == Uncounters(l)
<1>3. e \in S /\ Alives(h, l)' = S \ {e}
  BY AlivesNext
<1>4. (w \in L <=> loc[w].over) /\ Laggers(l)' = L \ {w}
  BY LaggersNext
<1>5. ctr'[l] = ctr[l]
  BY CounterStep
<1>6. /\ IsFiniteSet(S) /\ IsFiniteSet(L) /\ IsFiniteSet(U)
      /\ Cardinality(S) \in Nat /\ Cardinality(L) \in Nat /\ Cardinality(U) \in Nat
  BY CountsAre
<1>7. ctr[l] + Cardinality(L) = Cardinality(S) + Cardinality(U) /\ Cardinality(L) < Cardinality(S)
  BY <1>2 DEF CountInv, Counted
<1>8. CASE loc[w].over
  <2>1. Uncounters(l)' = U
    BY <1>8, UncountersNext
  <2> HIDE DEF S, L, U, e
  <2>2. Cardinality(S \ {e}) = Cardinality(S) - 1
    BY <1>3, <1>6, FS_RemoveElement
  <2>3. Cardinality(L \ {w}) = Cardinality(L) - 1
    BY <1>4, <1>6, <1>8, FS_RemoveElement
  <2>4. /\ ctr[l] + (Cardinality(L) - 1) = (Cardinality(S) - 1) + Cardinality(U)
        /\ Cardinality(L) - 1 < Cardinality(S) - 1
    BY <1>2, <1>6, <1>7
  <2> QED BY <1>2, <1>3, <1>4, <1>5, <2>1, <2>2, <2>3, <2>4 DEF Counted
<1>9. CASE ~loc[w].over
  <2>1. w \notin U /\ Uncounters(l)' = U \cup {w}
    BY <1>9, UncountersNext
  <2>2. Cardinality(L) + 1 < Cardinality(S)
    BY <1>9, RoomForZombie
  <2>3. Laggers(l)' = L
    BY <1>4, <1>9
  <2> HIDE DEF S, L, U, e
  <2>4. Cardinality(S \ {e}) = Cardinality(S) - 1
    BY <1>3, <1>6, FS_RemoveElement
  <2>5. Cardinality(U \cup {w}) = Cardinality(U) + 1
    BY <1>6, <2>1, FS_AddElement
  <2>6. /\ ctr[l] + Cardinality(L) = (Cardinality(S) - 1) + (Cardinality(U) + 1)
        /\ Cardinality(L) < Cardinality(S) - 1
    BY <1>2, <1>6, <1>7, <2>2
  <2> QED BY <1>2, <1>3, <1>5, <2>1, <2>3, <2>4, <2>5, <2>6 DEF Counted
<1> QED BY <1>8, <1>9

\* Every step keeps what the head knows of the levels.
LEMMA StepKeepsCounts ==
  ASSUME NEW g, NEW w, ListStep(g, w), CountInv(g), NEW h, h = NextGhosts(g, w)
  PROVE  CountInv(h)'
<1>1. \A v \in Warps : CountOK(v)'
  BY CountOwn, CountOthers
<1>2. ctr' \in [Levels -> Nat]
  BY CounterStep
<1>3. ASSUME NEW l \in Levels PROVE Counted(h, l)'
  <2>1. CASE loc[w].level # l \/ pc[w] \notin {"copy", "markZombie", "count", "uncount"}
    BY <2>1, CountedElse
  <2>2. CASE loc[w].level = l /\ pc[w] = "copy"
    BY <2>2, CountedLink
  <2>3. CASE loc[w].level = l /\ pc[w] = "count"
    BY <2>3, CountedUp
  <2>4. CASE loc[w].level = l /\ pc[w] = "uncount"
    BY <2>4, CountedDown
  <2>5. CASE loc[w].level = l /\ pc[w] = "markZombie"
    BY <2>5, CountedBury
  <2> QED BY <2>1, <2>2, <2>3, <2>4, <2>5
<1> QED BY <1>1, <1>2, <1>3 DEF CountInv

\* Level 0 always counts one chunk at least: the head tells searches where to begin.
LEMMA HeadIsCounted ==
  ASSUME NEW g, CountInv(g)
  PROVE  HeadCounts
<1>1. 0 \in Levels
  BY LevelsAre
<1>2. ctr[0] > 0
  BY <1>1 DEF CountInv, Counted
<1> QED BY <1>1, <1>2 DEF HeadCounts

\* Steps that touch neither memory nor registers.
LEMMA CountUnchanged ==
  ASSUME NEW g, CountInv(g), UNCHANGED <<chunk, ctr, pc, loc>>
  PROVE  CountInv(g)'
<1>1. chunk' = chunk /\ ctr' = ctr /\ pc' = pc /\ loc' = loc
  OBVIOUS
<1>2. \A w \in Warps : Lagging(w)' <=> Lagging(w)
  BY <1>1 DEF Lagging, GoingDown, Inserting
<1>3. \A w \in Warps : \A c : FitsIn(w, c)' <=> FitsIn(w, c)
  BY <1>1 DEF FitsIn
<1>4. \A w \in Warps : CountOK(w)' <=> CountOK(w)
  BY <1>1 DEF CountOK, Works, Lagging, Inserting, Mine, GoingDown
<1>5. \A l : Laggers(l)' = Laggers(l)
  BY <1>1, <1>2 DEF Laggers
<1>6. \A l : Uncounters(l)' = Uncounters(l)
  BY <1>1 DEF Uncounters
<1>7. \A l : Alives(g, l)' = Alives(g, l)
  BY <1>1 DEF Alives
<1>8. \A l \in Levels : Counted(g, l)' <=> Counted(g, l)
  BY <1>1, <1>3, <1>5, <1>6, <1>7 DEF Counted
<1> QED BY <1>1, <1>4, <1>8 DEF CountInv

\* When the list has been created level 0 counts its only chunk, and the others are blank.
LEMMA CountInit == Init => CountInv(FirstGhosts)
<1> SUFFICES ASSUME Init PROVE CountInv(FirstGhosts)
  OBVIOUS
<1> DEFINE g == FirstGhosts
<1>1. /\ pc = [w \in Warps |-> "take"] /\ loc = [w \in Warps |-> NoOp]
      /\ ctr = [l \in Levels |-> IF l = 0 THEN 1 ELSE 0]
  BY DEF Init
<1>2. \A l \in Levels : Laggers(l) = {} /\ Uncounters(l) = {}
  BY <1>1 DEF Laggers, Uncounters, Lagging, MergeTail, GoingDown, DownLabels, SearchLabels,
              UnlinkLabels
<1>3. ASSUME NEW l \in Levels PROVE Alives(g, l) = {l} /\ Blank(chunk[l])
  <2>1. l \in Chunks /\ l # Nil
    BY ConstantsAre DEF Levels, Chunks, Nil
  <2>2. \A c \in Chunks : g.lvl[c] = l <=> c = l
    BY <2>1, LevelsAre DEF FirstGhosts
  <2>3. chunk[l] = [FreshChunk(Nil, "unlocked") EXCEPT !.data[0] = [k |-> NegInf, v |-> l - 1]]
    BY <2>1 DEF Init
  <2>4. chunk[l].lock = "unlocked" /\ \A i \in Lanes : chunk[l].data[i].k \in {NegInf, PosInf}
    BY <2>3 DEF FreshChunk, EmptyEntry
  <2> QED BY <2>1, <2>2, <2>4 DEF Alives, On, IsZombie, Blank
<1> HIDE DEF g
<1>4. ASSUME NEW l \in Levels PROVE Counted(g, l)
  <2>1. Cardinality({l}) = 1 /\ Cardinality({}) = 0
    BY FS_Singleton, FS_EmptySet
  <2>2. l \in Int /\ l >= 0
    BY ConstantsAre DEF Levels
  <2>3. CASE l = 0
    BY <1>1, <1>2, <1>3, <2>1, <2>3 DEF Counted
  <2>4. CASE l # 0
    BY <1>1, <1>2, <1>3, <2>1, <2>2, <2>4 DEF Counted
  <2> QED BY <2>3, <2>4
<1>5. ASSUME NEW w \in Warps PROVE CountOK(w)
  <2>1. pc[w] = "take" /\ loc[w].ans \in Answers
    BY <1>1 DEF NoOp, Answers
  <2> QED BY <2>1 DEF CountOK, Works, Lagging, MergeTail, GoingDown, DownLabels, SearchLabels,
                      UnlinkLabels, NextLabels, SplitLabels
<1>6. ctr \in [Levels -> Nat]
  BY <1>1
<1> QED BY <1>4, <1>5, <1>6 DEF CountInv, g

\* Only the return of an operation stores a result.
LEMMA StepResults ==
  ASSUME NEW w \in Warps, Step(w)
  PROVE  ReturnResult(w) \/ result' = result
<1> USE DEF host
<1>1. CASE StartOp(w)
  BY <1>1 DEF StartOp
<1>2. CASE ReturnResult(w)
  BY <1>2
<1>3. CASE SearchStart(w)
  BY <1>3 DEF SearchStart
<1>4. CASE SearchRead(w)
  BY <1>4 DEF SearchRead
<1>5. CASE SearchMeetZombie(w)
  BY <1>5 DEF SearchMeetZombie
<1>6. CASE TryLockPrev(w)
  BY <1>6 DEF TryLockPrev
<1>7. CASE TryLockFails(w)
  BY <1>7 DEF TryLockFails
<1>8. CASE RecheckPrev(w)
  BY <1>8 DEF RecheckPrev
<1>9. CASE GiveUpUnlink(w)
  BY <1>9 DEF GiveUpUnlink
<1>10. CASE SkipZombie(w)
  BY <1>10 DEF SkipZombie
<1>11. CASE UnlinkZombies(w)
  BY <1>11 DEF UnlinkZombies
<1>12. CASE UnlockPrev(w)
  BY <1>12 DEF UnlockPrev
<1>13. CASE StepRight(w)
  BY <1>13 DEF StepRight
<1>14. CASE StepDown(w)
  BY <1>14 DEF StepDown
<1>15. CASE BackTrack(w)
  BY <1>15 DEF BackTrack
<1>16. CASE RestartSearch(w)
  BY <1>16 DEF RestartSearch
<1>17. CASE SearchRefuses(w)
  BY <1>17 DEF SearchRefuses, OwnSearch
<1>18. CASE SearchLeads(w)
  BY <1>18 DEF SearchLeads, OwnSearch
<1>19. CASE WalkToEnclosing(w)
  BY <1>19 DEF WalkToEnclosing
<1>20. CASE LockEnclosing(w)
  BY <1>20 DEF LockEnclosing
<1>21. CASE NotEnclosing(w)
  BY <1>21 DEF NotEnclosing
<1>22. CASE RetryEnclosing(w)
  BY <1>22 DEF RetryEnclosing
<1>23. CASE ReadNext(w)
  BY <1>23 DEF ReadNext
<1>24. CASE WalkToNext(w)
  BY <1>24 DEF WalkToNext
<1>25. CASE LockNext(w)
  BY <1>25 DEF LockNext
<1>26. CASE CheckNext(w)
  BY <1>26 DEF CheckNext
<1>27. CASE RedirectNext(w)
  BY <1>27 DEF RedirectNext
<1>28. CASE GetNewChunk(w)
  BY <1>28 DEF GetNewChunk
<1>29. CASE UnlockNext(w)
  BY SMTT(30), <1>29 DEF UnlockNext
<1>30. CASE SplitCopy(w)
  BY <1>30 DEF SplitCopy
<1>31. CASE EmptyMoved(w)
  BY <1>31 DEF EmptyMoved
<1>32. CASE UnlockOther(w)
  BY <1>32 DEF UnlockOther
<1>33. CASE InsertPresent(w)
  BY <1>33 DEF InsertPresent, Enclosing
<1>34. CASE InsertFits(w)
  BY <1>34 DEF InsertFits, Enclosing
<1>35. CASE InsertOverflows(w)
  BY <1>35 DEF InsertOverflows, Enclosing
<1>36. CASE ShiftRight(w)
  BY <1>36 DEF ShiftRight
<1>37. CASE IsLevelEmpty(w)
  BY <1>37 DEF IsLevelEmpty
<1>38. CASE IncrementNumChunks(w)
  BY <1>38 DEF IncrementNumChunks
<1>39. CASE RaiseKey(w)
  BY <1>39 DEF RaiseKey
<1>40. CASE EraseAbsent(w)
  BY ZenonT(40), <1>40 DEF EraseAbsent, Enclosing
<1>41. CASE EraseInPlace(w)
  BY <1>41 DEF EraseInPlace, Enclosing
<1>42. CASE LowerMax(w)
  BY <1>42 DEF LowerMax
<1>43. CASE ShiftLeft(w)
  BY <1>43 DEF ShiftLeft
<1>44. CASE EraseByMerge(w)
  BY <1>44 DEF EraseByMerge, Enclosing
<1>45. CASE MergeRead(w)
  BY <1>45 DEF MergeRead
<1>46. CASE UnlockNew(w)
  BY <1>46 DEF UnlockNew
<1>47. CASE MergeShift(w)
  BY <1>47 DEF MergeShift
<1>48. CASE ShiftData(w)
  BY Zenon, <1>48 DEF ShiftData
<1>49. CASE MergeCopy(w)
  BY <1>49 DEF MergeCopy
<1>50. CASE MarkZombie(w)
  BY <1>50 DEF MarkZombie
<1>51. CASE DecrementNumChunks(w)
  BY <1>51 DEF DecrementNumChunks
<1>52. CASE UnlockMerged(w)
  BY <1>52 DEF UnlockMerged
<1>53. CASE ReadHeight(w)
  BY Zenon, <1>53 DEF ReadHeight
<1>54. CASE DownSearched(w)
  BY <1>54 DEF DownSearched
<1>55. CASE DownRead(w)
  BY <1>55 DEF DownRead
<1>56. CASE DownLock(w)
  BY <1>56 DEF DownLock
<1>57. CASE DownWrite(w)
  BY <1>57 DEF DownWrite
<1>58. CASE DownUnlock(w)
  BY <1>58 DEF DownUnlock
<1>59. CASE UnlockEnclosing(w)
  BY <1>59 DEF UnlockEnclosing
<1>60. CASE UnlockBottom(w)
  BY <1>60 DEF UnlockBottom
<1> QED BY <1>1, <1>2, <1>3, <1>4, <1>5, <1>6, <1>7, <1>8, <1>9, <1>10, <1>11, <1>12, <1>13,
           <1>14, <1>15, <1>16, <1>17, <1>18, <1>19, <1>20, <1>21, <1>22, <1>23, <1>24,
           <1>25, <1>26, <1>27, <1>28, <1>29, <1>30, <1>31, <1>32, <1>33, <1>34, <1>35,
           <1>36, <1>37, <1>38, <1>39, <1>40, <1>41, <1>42, <1>43, <1>44, <1>45, <1>46,
           <1>47, <1>48, <1>49, <1>50, <1>51, <1>52, <1>53, <1>54, <1>55, <1>56, <1>57,
           <1>58, <1>59, <1>60
         DEF Step, Search, Enclose, FindNext, Split, InsertToLevel, EraseFromLevel,
             UpdateDownPtrs

-----------------------------------------------------------------------------
(* The invariant of the list and of its counters. *)

CountedInv ==
  /\ ExclusiveInv
  /\ \E g : ListInv(g) /\ CountInv(g)
  /\ result \in [Ops -> Answers]

\* The list, and searches that find a level to begin on.
LEMMA CountedIsListed == CountedInv => ListedInv /\ HeadCounts
BY HeadIsCounted DEF CountedInv, ListedInv

\* It holds when the list has been created,
LEMMA CountedInit == Init => CountedInv
<1> SUFFICES ASSUME Init PROVE CountedInv
  OBVIOUS
<1>1. ListInv(FirstGhosts) /\ CountInv(FirstGhosts) /\ ExclusiveInv
  BY ListInit, CountInit, ExclusiveInit
<1>2. result \in [Ops -> Answers]
  BY DEF Init, Answers
<1> QED BY <1>1, <1>2 DEF CountedInv

\* and every step keeps it while the pool suffices.
LEMMA CountedNext == CountedInv /\ PoolSuffices' /\ [Next]_vars => CountedInv'
<1> SUFFICES ASSUME CountedInv, PoolSuffices', [Next]_vars PROVE CountedInv'
  OBVIOUS
<1>1. PICK g : ListInv(g) /\ CountInv(g)
  BY DEF CountedInv
<1>2. ExclusiveInv /\ HeadCounts /\ result \in [Ops -> Answers]
  BY CountedIsListed DEF CountedInv
<1>3. NewChunkIsFree
  BY <1>1, <1>2, NewIsFree
<1>4. ExclusiveInv'
  BY <1>2, <1>3, ExclusiveNext
<1>5. CASE NextBatch
  <2>1. HostOK'
    BY <1>1, <1>5, HostNext DEF ListInv
  <2>2. UNCHANGED <<chunk, ctr, allocated, pc, loc, result>>
    BY <1>5 DEF NextBatch, mem
  <2>3. ListInv(g)'
    BY <1>1, <2>1, <2>2, ListUnchanged
  <2>4. CountInv(g)'
    BY <1>1, <2>2, CountUnchanged
  <2> QED BY <1>2, <1>4, <2>2, <2>3, <2>4 DEF CountedInv
<1>6. ASSUME NEW w \in Warps, Step(w) PROVE CountedInv'
  <2>1. ListStep(g, w)
    BY <1>1, <1>2, <1>6, HeightIsLevel DEF ListStep, PoolSuffices
  <2>2. PICK h : h = NextGhosts(g, w)
    OBVIOUS
  <2>3. ListInv(h)'
    BY <2>1, <2>2, StepKeepsList
  <2>4. CountInv(h)'
    BY <1>1, <2>1, <2>2, StepKeepsCounts
  <2>5. loc[w].ans \in Answers
    BY <1>1 DEF CountInv, CountOK
  <2>6. result' \in [Ops -> Answers]
    BY <1>2, <1>6, <2>5, StepResults DEF ReturnResult
  <2> QED BY <1>4, <2>3, <2>4, <2>6 DEF CountedInv
<1>7. CASE UNCHANGED vars
  <2>1. HostOK'
    BY <1>1, <1>7 DEF ListInv, HostOK, vars, Batches
  <2>2. UNCHANGED <<chunk, ctr, allocated, pc, loc, result>>
    BY <1>7 DEF vars
  <2>3. ListInv(g)'
    BY <1>1, <2>1, <2>2, ListUnchanged
  <2>4. CountInv(g)'
    BY <1>1, <2>2, CountUnchanged
  <2> QED BY <1>2, <1>4, <2>2, <2>3, <2>4 DEF CountedInv
<1> QED BY <1>5, <1>6, <1>7 DEF Next, Finished

-----------------------------------------------------------------------------
(* What follows from it. *)

\* The chunks a walk finds alive on a level are those that are.
LEMMA AliveIs ==
  ASSUME NEW g, ListInv(g), NEW l \in Levels
  PROVE  Alive(l) = Alives(g, l)
<1>1. On(g, l, l) /\ g.low[l] = NegInf - 1 /\ l \in g.chain
  BY ConstantsAre DEF ListInv, ListOK, On, Levels, Chunks
<1>2. Alive(l) \in SUBSET Alives(g, l)
  BY <1>1, ReachOnLevel DEF Alive, Alives, On
<1>3. ASSUME NEW d \in Alives(g, l) PROVE d \in Alive(l)
  <2>1. On(g, l, d) /\ ~IsZombie(chunk[d])
    BY <1>3 DEF Alives
  <2>2. CASE d = l
    <3>1. l \in Reach(l)
      BY <1>1, ReachNext
    <3> QED BY <2>1, <2>2, <3>1 DEF Alive
  <2>3. CASE d # l
    <3>1. /\ g.low[d] \in Int /\ g.low[d] \in NegInf - 1 .. PosInf
          /\ chunk[d].max \in Int /\ g.low[d] < chunk[d].max
      BY <2>1, OnIsLinked, NodeIs, NextOfNode, ConstantsAre DEF Node, NegInf, PosInf
    <3>2. EndOf(g, l) <= g.low[d]
      <4>1. CASE IsZombie(chunk[l])
        BY <1>1, <3>1, <4>1, ConstantsAre DEF EndOf, NegInf, PosInf
      <4>2. CASE ~IsZombie(chunk[l])
        <5>1. chunk[l].max <= g.low[d] \/ chunk[d].max <= g.low[l]
          BY <1>1, <2>1, <2>3, <4>2, AliveApart
        <5>2. ~(chunk[d].max <= g.low[l])
          BY <1>1, <3>1, ConstantsAre DEF NegInf, PosInf
        <5> QED BY <4>2, <5>1, <5>2 DEF EndOf
      <4> QED BY <4>1, <4>2
    <3>3. d \in Reach(l)
      BY <1>1, <2>1, <3>2, ReachesAlive
    <3> QED BY <2>1, <3>3 DEF Alive
  <2> QED BY <2>2, <2>3
<1> QED BY <1>2, <1>3

\* With no operation under way a counter counts its level's chunks, or there is no key.
LEMMA CountersAgree == CountedInv => CountersMatch
<1> SUFFICES ASSUME NEW g, ListInv(g), CountInv(g), BatchDone, NEW l \in Levels
             PROVE  \/ ctr[l] = Cardinality(Alive(l))
                    \/ l > 0 /\ ctr[l] = 0 /\ LevelKeys(l) = {}
  BY DEF CountedInv, CountersMatch
<1>1. \A w \in Warps : pc[w] = "take"
  BY DEF BatchDone, At
<1>2. Laggers(l) = {} /\ Uncounters(l) = {}
  BY <1>1 DEF Laggers, Uncounters, Lagging, MergeTail, GoingDown, DownLabels, SearchLabels,
              UnlinkLabels
<1>3. Cardinality({}) = 0
  BY FS_EmptySet
<1>4. \A w \in Warps : \A c : ~FitsIn(w, c)
  BY <1>1 DEF FitsIn
<1>5. Counted(g, l) /\ ctr[l] \in Nat /\ Alive(l) = Alives(g, l)
  BY AliveIs DEF CountInv
<1>6. Cardinality(Alives(g, l)) \in Nat
  BY CountsAre
<1>7. CASE ctr[l] > 0
  <2>1. ctr[l] + 0 = Cardinality(Alives(g, l)) + 0
    BY <1>2, <1>3, <1>5, <1>7 DEF Counted
  <2> QED BY <1>5, <1>6, <2>1
<1>8. CASE ~(ctr[l] > 0)
  <2>1. ctr[l] = 0 /\ l > 0 /\ \A c \in Alives(g, l) : Blank(chunk[c])
    BY <1>4, <1>5, <1>8 DEF Counted
  <2>2. ASSUME NEW k \in LevelKeys(l) PROVE FALSE
    <3>1. k \in NegInf + 1 .. MaxKey
      BY LevelKeysAre
    <3>2. PICK c \in Chunks : Encloses(g, l, c, k) /\ HasKey(chunk[c].data, k)
      BY LevelKeysAre
    <3>3. k \in {NegInf, PosInf}
      BY <2>1, <3>2 DEF Alives, Encloses, Blank, HasKey
    <3> QED BY <3>1, <3>3, ConstantsAre DEF NegInf, PosInf
  <2> QED BY <2>1, <2>2
<1> QED BY <1>7, <1>8

\* Every word is of its kind.
LEMMA WordsAreTyped == CountedInv => TypeOK
<1> SUFFICES ASSUME NEW g, ListInv(g), CountInv(g), result \in [Ops -> Answers] PROVE TypeOK
  BY DEF CountedInv
<1>1. allocated \in Chunks /\ PoolSuffices
  BY ConstantsAre DEF ListInv, Chunks, PoolSuffices
<1>2. chunk \in [Chunks -> ChunkType] /\ trace \in DOMAIN Traces /\ batch \in DOMAIN Batches
  BY DEF ListInv, HostOK
<1>3. ctr \in [Levels -> Nat]
  BY DEF CountInv
<1> QED BY <1>1, <1>2, <1>3 DEF TypeOK

\* The invariant of the list holds as long as the pool has chunks to hand out.
THEOREM ListIsKept == Spec /\ []PoolSuffices => []CountedInv
<1>1. Init => CountedInv
  BY CountedInit
<1>2. CountedInv /\ PoolSuffices /\ PoolSuffices' /\ [Next]_vars => CountedInv'
  BY CountedNext
<1> QED BY <1>1, <1>2, PTL DEF Spec

\* A pool whose counter has not wrapped hands out a chunk that nobody has.
THEOREM NewChunksAreFree == Spec /\ []PoolSuffices => []NewChunkIsFree
<1>1. CountedInv => NewChunkIsFree
  <2> SUFFICES ASSUME CountedInv PROVE NewChunkIsFree
    OBVIOUS
  <2>1. PICK g : ListInv(g)
    BY DEF CountedInv
  <2> QED BY <2>1, NewIsFree DEF CountedInv
<1> QED BY <1>1, ListIsKept, PTL

\* So nobody else has what a warp has locked, the pool being large enough.
THEOREM LocksStayExclusive == Spec /\ []PoolSuffices => []LocksExclusive
BY NewChunksAreFree, LocksAreExclusive, PTL

\* Nor does anybody store to it.
THEOREM WritesStayLocked == Spec /\ []PoolSuffices => StoresAreLocked
BY NewChunksAreFree, WritesAreLocked, PTL

\* Chunks nobody has locked are packed, sorted and disjoint.
THEOREM ChunksAreSorted == Spec /\ []PoolSuffices => []ChunksSorted
BY ListIsKept, CountedIsListed, ListSorted, PTL

\* A down pointer never leads past its key.
THEOREM DownPointersAreLeft == Spec /\ []PoolSuffices => []DownPointersLagLeft
BY ListIsKept, CountedIsListed, ListLagsLeft, PTL

\* A reader that holds an old chunk still finds its key by going right.
THEOREM KeysGoRight == Spec /\ []PoolSuffices => KeysMoveRight
<1>1. ListedInv /\ HeadCounts /\ PoolSuffices /\ PoolSuffices' /\ [Next]_vars =>
        [\A l \in Levels : \A k \in LevelKeys(l) : \A h \in {Home(l, k)} :
           Home(l, k)' = h \/ Home(l, k)' \in Reach(h)']_chunk
  BY KeysMovedRight
<1>2. Spec /\ []PoolSuffices => [](ListedInv /\ HeadCounts)
  BY ListIsKept, CountedIsListed, PTL
<1> QED BY <1>1, <1>2, PTL DEF Spec, KeysMoveRight

\* When a kernel has ended the head's counters count the chunks that are alive, and a
\* level that counts none has no keys.
THEOREM CountersAreRight == Spec /\ []PoolSuffices => []CountersMatch
BY ListIsKept, CountersAgree, PTL

\* Every word of the pool, the counters and the results is of its kind; no counter ever
\* goes below zero.
THEOREM TypesAreKept == Spec /\ []PoolSuffices => []TypeOK
BY ListIsKept, WordsAreTyped, PTL
=============================================================================
