----------------------------- MODULE GFSL_proofs -----------------------------
(***************************************************************************)
(* The locks of the skip list, for every number of warps, levels and       *)
(* chunks and every trace: an operation leaves no chunk locked, and a lock *)
(* is held by one warp.  A lock word does not name its owner; the          *)
(* invariant ties it to the program counters and registers of the warps.   *)
(* Then, of the invariant of the list (GFSLList): what the other warps     *)
(* rely on when one of them steps, and that a step keeps its own warp in   *)
(* order.                                                                  *)
(***************************************************************************)
EXTENDS GFSLList, FiniteSets, FiniteSetTheorems, WellFoundedInduction, TLAPS

-----------------------------------------------------------------------------
(* Facts about numbers and finite sets of them that the proofs cite. *)

\* Every non-empty set of naturals has a least element.
LEMMA LeastNatural ==
  ASSUME NEW S \in SUBSET Nat, S # {}
  PROVE  \E m \in S : \A n \in S : m <= n
<1>1. \E m \in S : \A n \in S : ~(<<n, m>> \in OpToRel(<, Nat))
  BY NatLessThanWellFounded, WFMin
<1>2. PICK m \in S : \A n \in S : ~(<<n, m>> \in OpToRel(<, Nat))
  BY <1>1
<1>3. \A n \in S : ~(n < m)
  BY <1>2 DEF OpToRel
<1> QED BY <1>3

\* Every non-empty finite set of naturals has a largest element: one with the
\* fewest elements above it.
LEMMA LargestNatural ==
  ASSUME NEW S \in SUBSET Nat, S # {}, IsFiniteSet(S)
  PROVE  \E m \in S : \A n \in S : n <= m
<1> DEFINE Above(m) == {n \in S : n > m}
           Counts == {Cardinality(Above(m)) : m \in S}
<1>1. \A m \in S : IsFiniteSet(Above(m)) /\ Cardinality(Above(m)) \in Nat
  BY FS_Subset, FS_CardinalityType
<1>2. Counts \in SUBSET Nat /\ Counts # {}
  BY <1>1
<1>3. PICK m \in S : \A n \in S : Cardinality(Above(m)) <= Cardinality(Above(n))
  <2> HIDE DEF Above
  <2>1. PICK c \in Counts : \A d \in Counts : c <= d
    BY <1>2, LeastNatural
  <2> QED BY <2>1
<1>4. SUFFICES ASSUME NEW n \in S, n > m
               PROVE  FALSE
  OBVIOUS
<1>5. Above(n) \subseteq Above(m) /\ n \in Above(m) /\ n \notin Above(n)
  <2>1. \A x \in S : x \in Nat
    OBVIOUS
  <2>2. \A x \in S : x > n => x > m
    BY <1>4, <2>1
  <2>3. ~(n > n)
    BY <2>1
  <2> QED BY <1>4, <2>2, <2>3
<1>6. Above(n) # Above(m)
  BY <1>5
<1>7. Cardinality(Above(n)) < Cardinality(Above(m))
  <2> HIDE DEF Above
  <2> QED BY <1>1, <1>5, <1>6, FS_Subset
<1> QED BY <1>1, <1>3, <1>7

\* There are n numbers below n.
LEMMA NumbersBelow ==
  ASSUME NEW n \in Nat
  PROVE  IsFiniteSet(0 .. n - 1) /\ Cardinality(0 .. n - 1) = n
<1>1. CASE n = 0
  <2>1. 0 .. n - 1 = {}
    BY <1>1
  <2> QED BY <1>1, <2>1, FS_EmptySet
<1>2. CASE n > 0
  <2>1. 0 \in Int /\ n - 1 \in Int /\ ~(0 > n - 1) /\ (n - 1) - 0 + 1 = n
    BY <1>2
  <2> QED BY <2>1, FS_Interval
<1> QED BY <1>1, <1>2

\* Every natural has a quotient and a remainder.
LEMMA DivisionExists ==
  ASSUME NEW n \in Nat \ {0}, NEW x \in Nat
  PROVE  /\ x \div n \in Nat
         /\ x % n \in 0 .. n - 1
         /\ x = (x \div n) * n + (x % n)
OBVIOUS

(***************************************************************************)
(* The invariants.                                                         *)
(***************************************************************************)
\* The registers of a warp and the words of a chunk.
Fields == DOMAIN NoOp
Words == {"data", "max", "next", "lock"}

RegistersOK ==
  /\ pc = [w \in Warps |-> pc[w]]
  /\ loc = [w \in Warps |-> loc[w]]
  /\ \A w \in Warps : loc[w] = [f \in Fields |-> loc[w][f]]

PoolOK ==
  /\ chunk = [c \in Chunks |-> chunk[c]]
  /\ \A c \in Chunks : /\ chunk[c] = [f \in Words |-> chunk[c][f]]
                       /\ chunk[c].lock \in LockStates
  /\ allocated \in Nat

\* What the registers that name chunks are, where the warp is.
AtBottom(w) == loc[w].level = 0 => loc[w].bottom = loc[w].enc
Shifting(w) ==
  /\ Inserting(w)
  /\ loc[w].level = 0 => loc[w].bottom = loc[w].tgt
  /\ IF loc[w].new = Nil THEN loc[w].tgt = loc[w].enc
     ELSE loc[w].ini = loc[w].enc /\ loc[w].tgt \in {loc[w].ini, loc[w].new}

Control(w) ==
  LET r == loc[w]
      l == pc[w]
  IN  /\ r.level \in Nat /\ r.caller \in {"op", "down"}
      /\ Inserting(w) => r.nxt = Nil
      /\ r.caller = "down" => l \in SearchLabels \cup UnlinkLabels
      /\ l \in {"take"} \cup SearchLabels \cup UnlinkLabels /\ r.caller = "op" =>
           r.level = 0 /\ r.bottom = Nil /\ r.new = Nil /\ r.nxt = Nil
      /\ l \in {"enclose", "encLock", "encCheck", "encRetry"} =>
           /\ r.new = Nil /\ r.nxt = Nil
           /\ r.level = 0 => r.bottom = Nil
      /\ l \in {"shift", "unlockOther"} => Shifting(w)
      /\ l = "unlockOther" => r.new # Nil
      /\ l = "isEmpty" => Inserting(w) /\ r.level # 0 /\ r.new = Nil
      /\ l = "count" => Inserting(w) /\ AtBottom(w)
      /\ l \in {"raise", "height"} => r.new = Nil
      /\ l = "unlockEnc" => r.level # 0 /\ r.new = Nil
      /\ l \in {"lowerMax", "unshift"} => ~Inserting(w) /\ r.new = Nil /\ AtBottom(w)
      /\ l \in NextLabels =>
           /\ r.new = Nil
           /\ \/ r.ini = r.enc /\ r.nxt = Nil
              \/ r.ini = r.nxt /\ ~Inserting(w)
      /\ l \in {"alloc", "unlockNext", "copy", "empty"} =>
           /\ l = "alloc" <=> r.new = Nil
           /\ IF Inserting(w) THEN r.ini = r.enc ELSE r.ini = r.nxt
      /\ l \in NextLabels \cup SplitLabels =>
           IF Inserting(w) THEN r.level = 0 => r.bottom = Nil ELSE AtBottom(w)
      /\ l = "unlockNew" => ~Inserting(w) /\ r.new # Nil
      /\ l = "mergeRead" => /\ ~Inserting(w) /\ AtBottom(w)
                            /\ r.new = Nil /\ r.ini = r.enc /\ r.nxt \in {Nil, r.enc}
      /\ l \in MergeLabels => ~Inserting(w) /\ AtBottom(w)
      /\ GoingDown(w) => AtBottom(w)

\* A locked chunk has somebody who will unlock it.
Accounted ==
  \A c \in Chunks : chunk[c].lock = "locked" => \E w \in Warps : Holds(w, c)

ReleaseInv == RegistersOK /\ PoolOK /\ (\A w \in Warps : Control(w)) /\ Accounted

\* A chunk that w has locked under one name is not another of its chunks, but where w
\* knows the two to be the same.
Differs(w, c) ==
  LET r == loc[w]
  IN  /\ HasEnc(w) /\ c = r.enc /\ r.level # 0 => c # r.bottom
      /\ HasNxt(w) /\ c = r.nxt => c # r.enc /\ c # r.bottom
      /\ HasNew(w) /\ c = r.new =>
           /\ c # r.enc /\ c # r.nxt
           /\ (pc[w] \in {"shift", "unlockOther"} /\ r.level = 0) \/ c # r.bottom
      /\ HasCur(w) /\ c = r.cur => /\ c # r.enc /\ c # r.bottom
                                   /\ HasNxt(w) => c # r.nxt
                                   /\ HasNew(w) => c # r.new
      /\ HasPrev(w) /\ c = r.prev => /\ c # r.bottom
                                     /\ HasEnc(w) => c # r.enc
                                     /\ HasNxt(w) => c # r.nxt

Apart(w) == \A c \in Chunks : chunk[c].lock = "locked" => Differs(w, c)

ExclusiveInv == ReleaseInv /\ LocksExclusive /\ \A w \in Warps : Apart(w)

-----------------------------------------------------------------------------
(* A step of a warp changes the program counter and the registers of that warp. *)

\* The names of a warp's registers.
LEMMA FieldsAre ==
  Fields = {"kind", "key", "ans", "caller", "sk", "h", "cur", "prev", "prevKv", "kv",
            "tid", "path", "route", "level", "enc", "bottom", "val", "up", "top", "ini",
            "first", "new", "nxt", "over", "reg", "i", "stop", "tgt", "min", "max", "size"}
BY DEF Fields, NoOp

\* The registers between two operations are all there.
LEMMA NoOpIsRecord == NoOp = [f \in Fields |-> NoOp[f]]
BY DEF Fields, NoOp

PcChanges(w) ==
  /\ pc' = [v \in Warps |-> pc'[v]]
  /\ \A v \in Warps \ {w} : pc'[v] = pc[v]

LocChanges(w) ==
  /\ loc' = [v \in Warps |-> loc'[v]]
  /\ \A v \in Warps : loc'[v] = [f \in Fields |-> loc'[v][f]]
  /\ \A v \in Warps \ {w} : loc'[v] = loc[v]

\* Going right in a search (searchSlow) touches the warp's own state only.
LEMMA GoRightFrame ==
  ASSUME RegistersOK, NEW w \in Warps, NEW c,
         GoRight(w, c)
  PROVE  PcChanges(w) /\ LocChanges(w)
BY ZenonT(40) DEF RegistersOK, PcChanges, LocChanges, GoTo, GoRight

\* Going down in a search (searchSlow) touches the warp's own state only.
LEMMA GoDownFrame ==
  ASSUME RegistersOK, NEW w \in Warps, NEW p, NEW c, NEW t,
         GoDown(w, p, c, t)
  PROVE  PcChanges(w) /\ LocChanges(w)
BY ZenonT(40) DEF RegistersOK, PcChanges, LocChanges, GoTo, GoDown

\* Preparing an insert into a chunk (executeInsert) touches the warp's own registers only.
LEMMA ShiftInFrame ==
  ASSUME RegistersOK, NEW w \in Warps, NEW c, NEW data, NEW n,
         ShiftIn(w, c, data, n)
  PROVE  LocChanges(w)
BY DEF RegistersOK, PcChanges, LocChanges, GoTo, ShiftIn

\* Calling updateDownPtrs touches the warp's own state only.
LEMMA BeginDownFrame ==
  ASSUME RegistersOK, NEW w \in Warps, NEW min, NEW max, NEW val, NEW done,
         BeginDown(w, min, max, val, done)
  PROVE  PcChanges(w) /\ LocChanges(w)
BY ZenonT(40) DEF RegistersOK, PcChanges, LocChanges, GoTo, BeginDown

\* The loop of updateDownPtrs touches the warp's own state only.
LEMMA NextDownFrame ==
  ASSUME RegistersOK, NEW w \in Warps, NEW c,
         NextDown(w, c)
  PROVE  PcChanges(w) /\ LocChanges(w)
BY SMTT(30) DEF RegistersOK, PcChanges, LocChanges, GoTo, NextDown

\* Going up a level (insert, erase) touches the warp's own state only.
LEMMA EnterLevelFrame ==
  ASSUME RegistersOK, NEW w \in Warps, NEW l, NEW val,
         EnterLevel(w, l, val)
  PROVE  PcChanges(w) /\ LocChanges(w)
BY DEF RegistersOK, PcChanges, LocChanges, GoTo, EnterLevel

\* A step of a warp changes no other warp's program counter and registers.
LEMMA StepFrame ==
  ASSUME RegistersOK, NEW w \in Warps, Step(w)
  PROVE  RegistersOK' /\ \A v \in Warps \ {w} : pc'[v] = pc[v] /\ loc'[v] = loc[v]
<1> USE DEF RegistersOK, GoTo, mem, host
<1>1. CASE StartOp(w)
  BY <1>1 DEF StartOp
<1>2. CASE ReturnResult(w)
  BY <1>2, NoOpIsRecord DEF ReturnResult
<1>3. CASE SearchStart(w)
  BY Zenon, <1>3 DEF SearchStart
<1>4. CASE SearchRead(w)
  BY <1>4, GoRightFrame DEF SearchRead, PcChanges, LocChanges
<1>5. CASE SearchMeetZombie(w)
  BY <1>5, GoRightFrame DEF SearchMeetZombie, PcChanges, LocChanges
<1>6. CASE TryLockPrev(w)
  BY <1>6 DEF TryLockPrev, Lock
<1>7. CASE TryLockFails(w)
  BY <1>7, GoRightFrame DEF TryLockFails, PcChanges, LocChanges
<1>8. CASE RecheckPrev(w)
  BY <1>8 DEF RecheckPrev
<1>9. CASE GiveUpUnlink(w)
  BY <1>9, GoRightFrame DEF GiveUpUnlink, Unlock, PcChanges, LocChanges
<1>10. CASE SkipZombie(w)
  BY <1>10 DEF SkipZombie
<1>11. CASE UnlinkZombies(w)
  BY <1>11 DEF UnlinkZombies, UpdateNextVal
<1>12. CASE UnlockPrev(w)
  BY <1>12 DEF UnlockPrev, Unlock
<1>13. CASE StepRight(w)
  BY <1>13, GoRightFrame DEF StepRight, PcChanges, LocChanges
<1>14. CASE StepDown(w)
  BY <1>14, GoDownFrame DEF StepDown, PcChanges, LocChanges
<1>15. CASE BackTrack(w)
  BY <1>15, GoDownFrame DEF BackTrack, PcChanges, LocChanges
<1>16. CASE RestartSearch(w)
  BY <1>16 DEF RestartSearch
<1>17. CASE SearchRefuses(w)
  BY <1>17 DEF SearchRefuses, OwnSearch
<1>18. CASE SearchLeads(w)
  BY <1>18 DEF SearchLeads, OwnSearch, Searched
<1>19. CASE WalkToEnclosing(w)
  BY <1>19 DEF WalkToEnclosing
<1>20. CASE LockEnclosing(w)
  BY <1>20 DEF LockEnclosing, Lock
<1>21. CASE NotEnclosing(w)
  BY <1>21 DEF NotEnclosing
<1>22. CASE RetryEnclosing(w)
  BY <1>22 DEF RetryEnclosing, Unlock
<1>23. CASE ReadNext(w)
  BY <1>23 DEF ReadNext, AfterNext
<1>24. CASE WalkToNext(w)
  BY <1>24 DEF WalkToNext
<1>25. CASE LockNext(w)
  BY <1>25 DEF LockNext, Lock
<1>26. CASE CheckNext(w)
  <2>1. CASE IsZombie(chunk[loc[w].cur])
    BY <1>26, <2>1 DEF CheckNext
  <2>2. CASE ~IsZombie(chunk[loc[w].cur])
    BY <1>26, <2>2 DEF CheckNext
  <2> QED BY <2>1, <2>2
<1>27. CASE RedirectNext(w)
  BY <1>27 DEF RedirectNext, UpdateNextVal, AfterNext
<1>28. CASE GetNewChunk(w)
  BY <1>28 DEF GetNewChunk, FreshChunk
<1>29. CASE UnlockNext(w)
  BY <1>29 DEF UnlockNext, Unlock
<1>30. CASE SplitCopy(w)
  BY Zenon, <1>30 DEF SplitCopy, SplitOff
<1>31. CASE EmptyMoved(w)
  <2>1. CASE Inserting(w)
    <3>1. PcChanges(w) /\ LocChanges(w)
      BY <1>31, <2>1, ShiftInFrame DEF EmptyMoved, PcChanges
    <3> QED BY <3>1 DEF PcChanges, LocChanges
  <2>2. CASE ~Inserting(w)
    BY <1>31, <2>2 DEF EmptyMoved
  <2> QED BY <2>1, <2>2
<1>32. CASE UnlockOther(w)
  BY <1>32, BeginDownFrame DEF UnlockOther, Unlock, PcChanges, LocChanges
<1>33. CASE InsertPresent(w)
  BY <1>33 DEF InsertPresent, Enclosing
<1>34. CASE InsertFits(w)
  BY <1>34, ShiftInFrame DEF InsertFits, Enclosing, PcChanges, LocChanges
<1>35. CASE InsertOverflows(w)
  BY <1>35 DEF InsertOverflows, Enclosing
<1>36. CASE ShiftRight(w)
  BY <1>36 DEF ShiftRight, Write
<1>37. CASE IsLevelEmpty(w)
  BY <1>37 DEF IsLevelEmpty
<1>38. CASE IncrementNumChunks(w)
  BY <1>38 DEF IncrementNumChunks
<1>39. CASE RaiseKey(w)
  BY <1>39, EnterLevelFrame DEF RaiseKey, PcChanges, LocChanges
<1>40. CASE EraseAbsent(w)
  BY <1>40 DEF EraseAbsent, Enclosing
<1>41. CASE EraseInPlace(w)
  BY ZenonT(40), <1>41 DEF EraseInPlace, Enclosing, BottomOf
<1>42. CASE LowerMax(w)
  BY <1>42 DEF LowerMax
<1>43. CASE ShiftLeft(w)
  <2>1. CASE loc[w].i < loc[w].stop
    BY <1>43, <2>1 DEF ShiftLeft
  <2>2. CASE ~(loc[w].i < loc[w].stop)
    <3>1. /\ loc' = [loc EXCEPT ![w].ans = "true", ![w].reg = BlankKv.data]
          /\ pc' = [pc EXCEPT ![w] = AfterErase(w)]
      BY <1>43, <2>2 DEF ShiftLeft
    <3> QED BY <3>1
  <2> QED BY <2>1, <2>2
<1>44. CASE EraseByMerge(w)
  BY <1>44 DEF EraseByMerge, Enclosing, BottomOf
<1>45. CASE MergeRead(w)
  BY <1>45 DEF MergeRead
<1>46. CASE UnlockNew(w)
  BY <1>46 DEF UnlockNew, Unlock
<1>47. CASE MergeShift(w)
  BY <1>47 DEF MergeShift
<1>48. CASE ShiftData(w)
  BY <1>48 DEF ShiftData, Write
<1>49. CASE MergeCopy(w)
  BY Zenon, <1>49 DEF MergeCopy
<1>50. CASE MarkZombie(w)
  BY <1>50, BeginDownFrame DEF MarkZombie, PcChanges, LocChanges
<1>51. CASE DecrementNumChunks(w)
  BY <1>51, BeginDownFrame DEF DecrementNumChunks, PcChanges, LocChanges
<1>52. CASE UnlockMerged(w)
  BY <1>52 DEF UnlockMerged, Unlock, AfterErase
<1>53. CASE ReadHeight(w)
  BY <1>53 DEF ReadHeight
<1>54. CASE DownSearched(w)
  BY Zenon, <1>54 DEF DownSearched
<1>55. CASE DownRead(w)
  BY <1>55, NextDownFrame DEF DownRead, AfterDown, PcChanges, LocChanges
<1>56. CASE DownLock(w)
  BY <1>56 DEF DownLock, Lock
<1>57. CASE DownWrite(w)
  BY <1>57 DEF DownWrite
<1>58. CASE DownUnlock(w)
  BY <1>58, NextDownFrame DEF DownUnlock, Unlock, AfterDown, PcChanges, LocChanges
<1>59. CASE UnlockEnclosing(w)
  BY <1>59, EnterLevelFrame DEF UnlockEnclosing, Unlock, PcChanges, LocChanges
<1>60. CASE UnlockBottom(w)
  BY <1>60 DEF UnlockBottom, Unlock
<1> QED BY <1>1, <1>2, <1>3, <1>4, <1>5, <1>6, <1>7, <1>8, <1>9, <1>10, <1>11, <1>12, <1>13,
           <1>14, <1>15, <1>16, <1>17, <1>18, <1>19, <1>20, <1>21, <1>22, <1>23, <1>24,
           <1>25, <1>26, <1>27, <1>28, <1>29, <1>30, <1>31, <1>32, <1>33, <1>34, <1>35,
           <1>36, <1>37, <1>38, <1>39, <1>40, <1>41, <1>42, <1>43, <1>44, <1>45, <1>46,
           <1>47, <1>48, <1>49, <1>50, <1>51, <1>52, <1>53, <1>54, <1>55, <1>56, <1>57,
           <1>58, <1>59, <1>60
         DEF Step, Search, Enclose, FindNext, Split, InsertToLevel, EraseFromLevel,
             UpdateDownPtrs

-----------------------------------------------------------------------------
(* The lock words a step changes. *)

WordsOK ==
  /\ chunk = [c \in Chunks |-> chunk[c]]
  /\ \A c \in Chunks : /\ chunk[c] = [f \in Words |-> chunk[c][f]]
                       /\ chunk[c].lock \in LockStates

Taken(l) == IF l = "unlocked" THEN "locked" ELSE l
Given(l) == IF l = "locked" THEN "unlocked" ELSE l

\* Locking a chunk that is not locked locks it, unless it is dead (lockChunk).
LEMMA LockEffect ==
  ASSUME WordsOK, NEW d, Lock(d)
  PROVE  /\ WordsOK'
         /\ chunk[d].lock # "locked"
         /\ \A c \in Chunks :
              chunk'[c].lock = IF c = d THEN Taken(chunk[c].lock) ELSE chunk[c].lock
BY ZenonT(40) DEF WordsOK, Lock, Words, LockStates, Taken

\* Unlocking a chunk unlocks it if it was locked, and leaves it as it is otherwise.
LEMMA UnlockEffect ==
  ASSUME WordsOK, NEW d, Unlock(d)
  PROVE  /\ WordsOK'
         /\ \A c \in Chunks :
              chunk'[c].lock = IF c = d THEN Given(chunk[c].lock) ELSE chunk[c].lock
BY ZenonT(40) DEF WordsOK, Unlock, Words, LockStates, Given

\* Storing a next pointer leaves the lock words alone.
LEMMA NextEffect ==
  ASSUME WordsOK, NEW d, NEW next, UpdateNextVal(d, next)
  PROVE  WordsOK' /\ \A c \in Chunks : chunk'[c].lock = chunk[c].lock
BY ZenonT(40) DEF WordsOK, UpdateNextVal, Words, LockStates

\* Storing one entry leaves the lock words alone.
LEMMA WriteEffect ==
  ASSUME WordsOK, NEW d, NEW lane, NEW entry, Write(d, lane, entry)
  PROVE  WordsOK' /\ \A c \in Chunks : chunk'[c].lock = chunk[c].lock
BY DEF WordsOK, Write, Words, LockStates

\* Storing the entries of a chunk leaves the lock words alone.
LEMMA DataEffect ==
  ASSUME WordsOK, NEW d, NEW data, chunk' = [chunk EXCEPT ![d].data = data]
  PROVE  WordsOK' /\ \A c \in Chunks : chunk'[c].lock = chunk[c].lock
BY ZenonT(40) DEF WordsOK, Words, LockStates

\* Storing the maximum of a chunk leaves the lock words alone.
LEMMA MaxEffect ==
  ASSUME WordsOK, NEW d, NEW max, chunk' = [chunk EXCEPT ![d].max = max]
  PROVE  WordsOK' /\ \A c \in Chunks : chunk'[c].lock = chunk[c].lock
BY ZenonT(40) DEF WordsOK, Words, LockStates

\* The chunk that a step of w locks, unlocks, makes a zombie or takes from the pool.
Takes(w, c) ==
  \/ pc[w] = "tryLock" /\ pc'[w] = "recheck" /\ c = loc[w].prev
  \/ pc[w] = "encLock" /\ c = loc[w].enc
  \/ pc[w] \in {"nextLock", "downLock"} /\ c = loc[w].cur

Gives(w, c) ==
  \/ pc[w] \in {"giveUp", "unlinked"} /\ c = loc[w].prev
  \/ pc[w] \in {"encRetry", "unlockEnc"} /\ c = loc[w].enc
  \/ pc[w] \in {"unlockNext", "downUnlock"} /\ c = loc[w].cur
  \/ pc[w] = "unlockNew" /\ c = loc[w].new
  \/ pc[w] = "unlockOther" /\ c = IF loc[w].tgt = loc[w].new THEN loc[w].ini ELSE loc[w].new
  \/ pc[w] = "unlockMerged" /\ c = loc[w].nxt
  \/ pc[w] = "unlockBottom" /\ c = loc[w].bottom

StepLock(w, c) ==
  CASE Takes(w, c) -> Taken(chunk[c].lock)
    [] Gives(w, c) -> Given(chunk[c].lock)
    [] pc[w] = "markZombie" /\ c = loc[w].enc -> "zombie"
    [] pc[w] = "alloc" /\ c = allocated -> "locked"
    [] OTHER -> chunk[c].lock

LockStep(w) ==
  \A c \in Chunks : /\ chunk'[c].lock = StepLock(w, c)
                    /\ Takes(w, c) => chunk[c].lock # "locked"

\* A step changes the lock words of the chunks that StepLock names, and of no other.
LEMMA StepPool ==
  ASSUME RegistersOK, PoolOK, NEW w \in Warps, Step(w)
  PROVE  PoolOK' /\ LockStep(w)
<1>1. WordsOK /\ allocated \in Nat /\ PoolSize \in Nat
  BY ChunkAssumption DEF PoolOK, WordsOK
<1> SUFFICES WordsOK' /\ LockStep(w) /\ allocated' \in Nat
  BY DEF PoolOK, WordsOK
<1>2. pc = [v \in Warps |-> pc[v]]
  BY DEF RegistersOK
<1> USE DEF At, GoTo, LockStep, StepLock, Takes, Gives, mem
<1>3. CASE StartOp(w)
  BY <1>3, <1>1, <1>2 DEF StartOp, WordsOK
<1>4. CASE ReturnResult(w)
  BY <1>4, <1>1, <1>2 DEF ReturnResult, WordsOK
<1>5. CASE SearchStart(w)
  BY Zenon, <1>5, <1>1, <1>2 DEF SearchStart, WordsOK
<1>6. CASE SearchRead(w)
  BY <1>6, <1>1, <1>2 DEF SearchRead, WordsOK
<1>7. CASE SearchMeetZombie(w)
  BY <1>7, <1>1, <1>2 DEF SearchMeetZombie, WordsOK
<1>8. CASE TryLockPrev(w)
  BY <1>8, <1>1, <1>2, LockEffect DEF TryLockPrev
<1>9. CASE TryLockFails(w)
  BY <1>9, <1>1, <1>2 DEF TryLockFails, WordsOK, GoRight
<1>10. CASE RecheckPrev(w)
  BY <1>10, <1>1, <1>2 DEF RecheckPrev, WordsOK
<1>11. CASE GiveUpUnlink(w)
  BY <1>11, <1>1, <1>2, UnlockEffect DEF GiveUpUnlink
<1>12. CASE SkipZombie(w)
  BY <1>12, <1>1, <1>2 DEF SkipZombie, WordsOK
<1>13. CASE UnlinkZombies(w)
  BY <1>13, <1>1, <1>2, NextEffect DEF UnlinkZombies
<1>14. CASE UnlockPrev(w)
  BY <1>14, <1>1, <1>2, UnlockEffect DEF UnlockPrev
<1>15. CASE StepRight(w)
  BY <1>15, <1>1, <1>2 DEF StepRight, WordsOK
<1>16. CASE StepDown(w)
  BY <1>16, <1>1, <1>2 DEF StepDown, WordsOK
<1>17. CASE BackTrack(w)
  BY <1>17, <1>1, <1>2 DEF BackTrack, WordsOK
<1>18. CASE RestartSearch(w)
  BY <1>18, <1>1, <1>2 DEF RestartSearch, WordsOK
<1>19. CASE SearchRefuses(w)
  BY <1>19, <1>1, <1>2 DEF SearchRefuses, WordsOK, OwnSearch
<1>20. CASE SearchLeads(w)
  BY <1>20, <1>1, <1>2 DEF SearchLeads, WordsOK, OwnSearch
<1>21. CASE WalkToEnclosing(w)
  BY <1>21, <1>1, <1>2 DEF WalkToEnclosing, WordsOK
<1>22. CASE LockEnclosing(w)
  BY <1>22, <1>1, <1>2, LockEffect DEF LockEnclosing
<1>23. CASE NotEnclosing(w)
  BY <1>23, <1>1, <1>2 DEF NotEnclosing, WordsOK
<1>24. CASE RetryEnclosing(w)
  BY <1>24, <1>1, <1>2, UnlockEffect DEF RetryEnclosing
<1>25. CASE ReadNext(w)
  BY <1>25, <1>1, <1>2 DEF ReadNext, WordsOK
<1>26. CASE WalkToNext(w)
  BY <1>26, <1>1, <1>2 DEF WalkToNext, WordsOK
<1>27. CASE LockNext(w)
  BY <1>27, <1>1, <1>2, LockEffect DEF LockNext
<1>28. CASE CheckNext(w)
  BY <1>28, <1>1, <1>2 DEF CheckNext, WordsOK
<1>29. CASE RedirectNext(w)
  BY <1>29, <1>1, <1>2, NextEffect DEF RedirectNext
<1>30. CASE GetNewChunk(w)
  BY SMTT(30), <1>30, <1>1, <1>2 DEF GetNewChunk, WordsOK, Words, LockStates, FreshChunk
<1>31. CASE UnlockNext(w)
  BY <1>31, <1>1, <1>2, UnlockEffect DEF UnlockNext
<1>32. CASE SplitCopy(w)
  <2>1. /\ pc[w] = "copy" /\ allocated' = allocated
        /\ chunk' = [chunk EXCEPT ![loc[w].new] = SplitOff(chunk[loc[w].ini], @),
                                 ![loc[w].ini].max = Threshold(chunk[loc[w].ini]),
                                 ![loc[w].ini].next = loc[w].new]
    BY <1>32 DEF SplitCopy
  <2> DEFINE mid == [chunk EXCEPT ![loc[w].new] = SplitOff(chunk[loc[w].ini], @)]
  <2>2. /\ mid = [c \in Chunks |-> mid[c]]
        /\ \A c \in Chunks : /\ mid[c] = [f \in Words |-> mid[c][f]]
                             /\ mid[c].lock = chunk[c].lock
    BY ZenonT(20), <1>1 DEF SplitOff, WordsOK, Words, LockStates
  <2>3. chunk' = [mid EXCEPT ![loc[w].ini].max = Threshold(chunk[loc[w].ini]),
                             ![loc[w].ini].next = loc[w].new]
    BY <2>1
  <2> HIDE DEF mid
  <2>4. \A c \in Chunks : chunk'[c].lock = chunk[c].lock
    BY <2>2, <2>3, <1>1 DEF WordsOK, Words
  <2>5. WordsOK'
    <3>1. /\ chunk' = [c \in Chunks |-> chunk'[c]]
          /\ \A c \in Chunks : chunk'[c] = [f \in Words |-> chunk'[c][f]]
      BY ZenonT(20), <2>2, <2>3
    <3> QED BY <3>1, <2>4, <1>1 DEF WordsOK
  <2> QED BY <2>1, <2>4, <2>5, <1>1
<1>33. CASE EmptyMoved(w)
  <2> DEFINE moved == [i \in Lanes |-> IF i \in MovedLanes(loc[w].kv) THEN EmptyEntry
                                       ELSE chunk[loc[w].ini].data[i]]
  <2>1. /\ pc[w] = "empty" /\ allocated' = allocated
        /\ chunk' = [chunk EXCEPT ![loc[w].ini].data = moved]
    BY <1>33 DEF EmptyMoved
  <2> HIDE DEF moved
  <2>2. WordsOK' /\ \A c \in Chunks : chunk'[c].lock = chunk[c].lock
    BY <2>1, <1>1, DataEffect
  <2> QED BY <2>1, <2>2, <1>1
<1>34. CASE UnlockOther(w)
  BY <1>34, <1>1, <1>2, UnlockEffect DEF UnlockOther
<1>35. CASE InsertPresent(w)
  BY <1>35, <1>1, <1>2 DEF InsertPresent, WordsOK, Enclosing
<1>36. CASE InsertFits(w)
  BY <1>36, <1>1, <1>2 DEF InsertFits, WordsOK, Enclosing
<1>37. CASE InsertOverflows(w)
  BY <1>37, <1>1, <1>2 DEF InsertOverflows, WordsOK, Enclosing
<1>38. CASE ShiftRight(w)
  BY <1>38, <1>1, <1>2, WriteEffect DEF ShiftRight
<1>39. CASE IsLevelEmpty(w)
  BY <1>39, <1>1, <1>2 DEF IsLevelEmpty, WordsOK
<1>40. CASE IncrementNumChunks(w)
  BY <1>40, <1>1, <1>2 DEF IncrementNumChunks, WordsOK
<1>41. CASE RaiseKey(w)
  BY <1>41, <1>1, <1>2 DEF RaiseKey, WordsOK
<1>42. CASE EraseAbsent(w)
  BY <1>42, <1>1, <1>2 DEF EraseAbsent, WordsOK, Enclosing
<1>43. CASE EraseInPlace(w)
  BY Zenon, <1>43, <1>1, <1>2 DEF EraseInPlace, WordsOK, Enclosing
<1>44. CASE LowerMax(w)
  <2>1. /\ pc[w] = "lowerMax" /\ allocated' = allocated
        /\ \E d, max : chunk' = [chunk EXCEPT ![d].max = max]
    BY <1>44 DEF LowerMax
  <2> QED BY <1>1, <1>2, <2>1, MaxEffect
<1>45. CASE ShiftLeft(w)
  BY <1>45, <1>1, <1>2, WriteEffect DEF ShiftLeft
<1>46. CASE EraseByMerge(w)
  BY <1>46, <1>1, <1>2 DEF EraseByMerge, WordsOK, Enclosing
<1>47. CASE MergeRead(w)
  BY Zenon, <1>47, <1>1, <1>2 DEF MergeRead, WordsOK
<1>48. CASE UnlockNew(w)
  BY <1>48, <1>1, <1>2, UnlockEffect DEF UnlockNew
<1>49. CASE MergeShift(w)
  BY Zenon, <1>49, <1>1, <1>2 DEF MergeShift, WordsOK
<1>50. CASE ShiftData(w)
  BY <1>50, <1>1, <1>2, WriteEffect DEF ShiftData
<1>51. CASE MergeCopy(w)
  <2>1. /\ pc[w] = "mergeCopy" /\ allocated' = allocated
        /\ \E d, data : chunk' = [chunk EXCEPT ![d].data = data]
    BY <1>51 DEF MergeCopy
  <2> QED BY <1>1, <1>2, <2>1, DataEffect
<1>52. CASE MarkZombie(w)
  <2>1. /\ pc[w] = "markZombie" /\ allocated' = allocated
        /\ chunk' = [chunk EXCEPT ![loc[w].enc].lock = "zombie"]
    BY ZenonT(20), <1>52 DEF MarkZombie
  <2>2. WordsOK'
    BY ZenonT(60), <2>1, <1>1 DEF WordsOK, Words, LockStates
  <2>3. \A c \in Chunks :
          chunk'[c].lock = IF c = loc[w].enc THEN "zombie" ELSE chunk[c].lock
    BY <2>1, <1>1 DEF WordsOK, Words
  <2> QED BY <2>1, <2>2, <2>3, <1>1
<1>53. CASE DecrementNumChunks(w)
  BY <1>53, <1>1, <1>2 DEF DecrementNumChunks, WordsOK
<1>54. CASE UnlockMerged(w)
  BY <1>54, <1>1, <1>2, UnlockEffect DEF UnlockMerged
<1>55. CASE ReadHeight(w)
  BY <1>55, <1>1, <1>2 DEF ReadHeight, WordsOK
<1>56. CASE DownSearched(w)
  BY <1>56, <1>1, <1>2 DEF DownSearched, WordsOK
<1>57. CASE DownRead(w)
  BY <1>57, <1>1, <1>2 DEF DownRead, WordsOK
<1>58. CASE DownLock(w)
  BY <1>58, <1>1, <1>2, LockEffect DEF DownLock
<1>59. CASE DownWrite(w)
  <2>1. /\ pc[w] = "downWrite" /\ allocated' = allocated
        /\ \E d, data : chunk' = [chunk EXCEPT ![d].data = data]
    BY <1>59 DEF DownWrite
  <2> QED BY <1>1, <1>2, <2>1, DataEffect
<1>60. CASE DownUnlock(w)
  BY <1>60, <1>1, <1>2, UnlockEffect DEF DownUnlock
<1>61. CASE UnlockEnclosing(w)
  BY <1>61, <1>1, <1>2, UnlockEffect DEF UnlockEnclosing
<1>62. CASE UnlockBottom(w)
  BY <1>62, <1>1, <1>2, UnlockEffect DEF UnlockBottom
<1> QED BY Zenon, <1>3, <1>4, <1>5, <1>6, <1>7, <1>8, <1>9, <1>10, <1>11, <1>12, <1>13,
           <1>14, <1>15, <1>16, <1>17, <1>18, <1>19, <1>20, <1>21, <1>22, <1>23, <1>24,
           <1>25, <1>26, <1>27, <1>28, <1>29, <1>30, <1>31, <1>32, <1>33, <1>34, <1>35,
           <1>36, <1>37, <1>38, <1>39, <1>40, <1>41, <1>42, <1>43, <1>44, <1>45, <1>46,
           <1>47, <1>48, <1>49, <1>50, <1>51, <1>52, <1>53, <1>54, <1>55, <1>56, <1>57,
           <1>58, <1>59, <1>60, <1>61, <1>62
         DEF Step, Search, Enclose, FindNext, Split, InsertToLevel, EraseFromLevel,
             UpdateDownPtrs

-----------------------------------------------------------------------------
(* What the longer steps do to the registers that name chunks. *)

\* The registers that name chunks, when an operation goes on at a level.
LEMMA EnterLevelNames ==
  ASSUME RegistersOK, NEW w \in Warps, NEW l, NEW val, EnterLevel(w, l, val)
  PROVE  /\ pc'[w] = "enclose"
         /\ loc'[w].level = l /\ loc'[w].nxt = Nil
         /\ loc'[w].new = loc[w].new /\ loc'[w].caller = loc[w].caller
         /\ loc'[w].kind = loc[w].kind /\ loc'[w].bottom = loc[w].bottom
BY FieldsAre DEF RegistersOK, EnterLevel, GoTo

\* The registers that name chunks, when updateDownPtrs begins.
LEMMA BeginDownNames ==
  ASSUME RegistersOK, NEW w \in Warps, NEW min, NEW max, NEW val, NEW done,
         BeginDown(w, min, max, val, done)
  PROVE  /\ \/ pc'[w] = done /\ loc'[w].caller = loc[w].caller
            \/ pc'[w] = "search" /\ loc'[w].caller = "down"
         /\ loc'[w].enc = IF Inserting(w) THEN loc[w].tgt ELSE loc[w].enc
         /\ loc'[w].level = loc[w].level /\ loc'[w].bottom = loc[w].bottom
         /\ loc'[w].nxt = loc[w].nxt /\ loc'[w].new = loc[w].new
         /\ loc'[w].kind = loc[w].kind
<1>1. CASE loc[w].level + 1 > TopLevel
  BY SMTT(30), <1>1, FieldsAre DEF RegistersOK, BeginDown, GoTo, Inserting
<1>2. CASE ~(loc[w].level + 1 > TopLevel)
  BY <1>2, FieldsAre DEF RegistersOK, BeginDown, GoTo, Inserting
<1> QED BY SMTT(30), <1>1, <1>2

\* The registers that name chunks, when the target of an insert is chosen.
LEMMA ShiftInNames ==
  ASSUME RegistersOK, NEW w \in Warps, NEW c, NEW data, NEW n, ShiftIn(w, c, data, n)
  PROVE  /\ loc'[w].tgt = c
         /\ loc'[w].bottom = IF loc[w].level = 0 THEN c ELSE loc[w].bottom
         /\ loc'[w].level = loc[w].level /\ loc'[w].enc = loc[w].enc
         /\ loc'[w].nxt = loc[w].nxt /\ loc'[w].new = loc[w].new
         /\ loc'[w].ini = loc[w].ini /\ loc'[w].caller = loc[w].caller
         /\ loc'[w].kind = loc[w].kind
BY FieldsAre DEF RegistersOK, ShiftIn

\* The registers that name chunks, when an erase goes up.
LEMMA ReadHeightNames ==
  ASSUME RegistersOK, NEW w \in Warps, ReadHeight(w), Height >= 1
  PROVE  /\ pc'[w] = "enclose"
         /\ loc'[w].level = 1 /\ loc'[w].nxt = Nil
         /\ loc'[w].new = loc[w].new /\ loc'[w].caller = loc[w].caller
         /\ loc'[w].kind = loc[w].kind /\ loc'[w].bottom = loc[w].bottom
<1>1. /\ loc' = [loc EXCEPT ![w].top = Height, ![w].level = 1, ![w].enc = loc[w].route[1],
                             ![w].ini = Nil, ![w].nxt = Nil, ![w].first = Nil]
      /\ pc' = [pc EXCEPT ![w] = "enclose"]
  BY DEF ReadHeight, GoTo
<1> QED BY <1>1, FieldsAre DEF RegistersOK

\* The registers of an operation's way through the levels, as a search leaves them.
RestKept(w) ==
  /\ loc'[w].kind = loc[w].kind /\ loc'[w].level = loc[w].level
  /\ loc'[w].enc = loc[w].enc /\ loc'[w].ini = loc[w].ini /\ loc'[w].new = loc[w].new
  /\ loc'[w].nxt = loc[w].nxt /\ loc'[w].tgt = loc[w].tgt

\* A search that begins keeps them.
LEMMA SearchStartNames ==
  ASSUME RegistersOK, NEW w \in Warps, SearchStart(w)
  PROVE  /\ pc[w] = "search" /\ pc'[w] = "read"
         /\ RestKept(w)
         /\ loc'[w].bottom = loc[w].bottom /\ loc'[w].caller = loc[w].caller
<1> DEFINE H == Height
           P == [l \in Levels |-> l]
<1>1. /\ pc[w] = "search" /\ pc' = [pc EXCEPT ![w] = "read"]
      /\ loc' = [loc EXCEPT ![w].h = H, ![w].path = P, ![w].cur = H, ![w].prev = Nil,
                             ![w].prevKv = BlankKv]
  BY DEF SearchStart, At, GoTo
<1> HIDE DEF H, P
<1> QED BY <1>1, FieldsAre DEF RegistersOK, RestKept

\* A search that goes right keeps them.
LEMMA GoRightNames ==
  ASSUME RegistersOK, NEW w \in Warps, NEW c, GoRight(w, c)
  PROVE  /\ pc'[w] \in {"searched", "read"}
         /\ RestKept(w)
         /\ loc'[w].bottom = loc[w].bottom /\ loc'[w].caller = loc[w].caller
<1> DEFINE tid == TidForNextStep(loc[w].sk, c)
           over == loc[w].h = 0 /\ tid # TidNext
<1>1. /\ pc' = [pc EXCEPT ![w] = IF over THEN "searched" ELSE "read"]
      /\ loc' = [loc EXCEPT ![w].prev = loc[w].cur, ![w].prevKv = c, ![w].cur = c.next,
                             ![w].tid = tid, ![w].kv = IF over THEN c ELSE BlankKv]
  BY SMTT(30) DEF GoRight, GoTo
<1> HIDE DEF tid, over
<1> QED BY <1>1, FieldsAre DEF RegistersOK, RestKept

\* A search that goes down keeps them.
LEMMA GoDownNames ==
  ASSUME RegistersOK, NEW w \in Warps, NEW p, NEW c, NEW t, GoDown(w, p, c, t)
  PROVE  /\ pc'[w] = "read"
         /\ RestKept(w)
         /\ loc'[w].bottom = loc[w].bottom /\ loc'[w].caller = loc[w].caller
BY SMTT(30), FieldsAre DEF RegistersOK, RestKept, GoDown, GoTo

\* An erase in place names the bottom chunk at level 0.
LEMMA EraseInPlaceNames ==
  ASSUME RegistersOK, NEW w \in Warps, EraseInPlace(w)
  PROVE  /\ pc[w] = "encCheck" /\ pc'[w] \in {"lowerMax", "unshift"}
         /\ RestKept(w) /\ ~Inserting(w)
         /\ loc'[w].caller = loc[w].caller
         /\ loc'[w].bottom = IF loc[w].level = 0 THEN loc[w].enc ELSE loc[w].bottom
<1>1. /\ pc[w] = "encCheck" /\ ~Inserting(w)
      /\ \E l \in {"lowerMax", "unshift"} : pc' = [pc EXCEPT ![w] = l]
      /\ \E del, last, reg, min :
           loc' = [loc EXCEPT ![w].bottom = BottomOf(w), ![w].up = TRUE, ![w].i = del,
                              ![w].stop = last, ![w].reg = reg, ![w].min = min]
  BY ZenonT(40) DEF EraseInPlace, Enclosing, At, GoTo
<1> QED BY SMTT(30), <1>1, FieldsAre DEF RegistersOK, RestKept, BottomOf

\* The copy of a merge keeps them.
LEMMA MergeCopyNames ==
  ASSUME RegistersOK, NEW w \in Warps, MergeCopy(w)
  PROVE  /\ pc[w] = "mergeCopy" /\ pc'[w] = "markZombie"
         /\ RestKept(w)
         /\ loc'[w].bottom = loc[w].bottom /\ loc'[w].caller = loc[w].caller
<1>1. /\ pc[w] = "mergeCopy" /\ pc' = [pc EXCEPT ![w] = "markZombie"]
      /\ \E min, reg, max :
           loc' = [loc EXCEPT ![w].min = min, ![w].reg = reg, ![w].max = max]
  BY DEF MergeCopy, At, GoTo
<1> QED BY SMTT(30), <1>1, FieldsAre DEF RegistersOK, RestKept

\* updateDownPtrs, when its search returns, keeps them.
LEMMA DownSearchedNames ==
  ASSUME RegistersOK, NEW w \in Warps, DownSearched(w)
  PROVE  /\ pc[w] = "searched" /\ pc'[w] = "downRead" /\ RestKept(w)
         /\ loc[w].caller = "down" /\ loc'[w].caller = "op"
         /\ loc'[w].bottom = loc[w].bottom
<1> DEFINE c == loc[w].path[loc[w].level + 1]
<1>1. /\ pc[w] = "searched" /\ pc' = [pc EXCEPT ![w] = "downRead"]
      /\ loc[w].caller = "down"
      /\ loc' = [loc EXCEPT ![w].cur = c, ![w].prev = Nil, ![w].prevKv = BlankKv,
                             ![w].kv = BlankKv, ![w].tid = TidNone, ![w].caller = "op"]
  BY DEF DownSearched, At, GoTo
<1> HIDE DEF c
<1> QED BY <1>1, FieldsAre DEF RegistersOK, RestKept

-----------------------------------------------------------------------------
(* The registers fit the program counter. *)

\* A step keeps the registers of its warp as Control says.
LEMMA StepControl ==
  ASSUME RegistersOK, PoolOK, NEW w \in Warps, Control(w), Step(w)
  PROVE  Control(w)'
<1>1. /\ pc = [v \in Warps |-> pc[v]] /\ loc = [v \in Warps |-> loc[v]]
      /\ loc[w] = [f \in Fields |-> loc[w][f]]
      /\ allocated \in Nat
  BY DEF RegistersOK, PoolOK
<1>2. CASE UnlockEnclosing(w)
  <2>1. CASE loc[w].up /\ loc[w].level < TopOf(w)
    <3>1. pc[w] = "unlockEnc" /\ EnterLevel(w, loc[w].level + 1, loc[w].enc)
      BY <1>2, <2>1 DEF UnlockEnclosing, At
    <3> QED BY <3>1, EnterLevelNames, <1>1
         DEF Control, Inserting, GoingDown, Shifting, AtBottom, Nil, SearchLabels,
             UnlinkLabels, NextLabels, SplitLabels, MergeLabels, DownLabels
  <2>2. CASE ~(loc[w].up /\ loc[w].level < TopOf(w))
    BY <1>1, <1>2, <2>2, FieldsAre
       DEF UnlockEnclosing, EnterLevel, At, GoTo, Control, Inserting, GoingDown, Shifting,
           AtBottom, Nil, SearchLabels, UnlinkLabels, NextLabels, SplitLabels, MergeLabels,
           DownLabels, mem, host
  <2> QED BY <2>1, <2>2
<1>3. CASE RaiseKey(w)
  <2>1. CASE TopLevel > 1
    <3>1. pc[w] = "raise" /\ EnterLevel(w, 1, loc[w].bottom)
      BY <1>3, <2>1 DEF RaiseKey, At
    <3> QED BY <3>1, EnterLevelNames, <1>1
         DEF Control, Inserting, GoingDown, Shifting, AtBottom, Nil, SearchLabels,
             UnlinkLabels, NextLabels, SplitLabels, MergeLabels, DownLabels
  <2>2. CASE ~(TopLevel > 1)
    BY <1>1, <1>3, <2>2, FieldsAre
       DEF RaiseKey, EnterLevel, At, GoTo, Control, Inserting, GoingDown, Shifting, AtBottom,
           Nil, SearchLabels, UnlinkLabels, NextLabels, SplitLabels, MergeLabels, DownLabels,
           mem, host
  <2> QED BY <2>1, <2>2
<1>4. CASE ReadHeight(w)
  <2>1. CASE Height >= 1
    <3>1. pc[w] = "height" /\ ReadHeight(w)
      BY <1>4, <2>1 DEF ReadHeight, At
    <3> QED BY <3>1, <2>1, ReadHeightNames, <1>1
         DEF Control, Inserting, GoingDown, Shifting, AtBottom, Nil, SearchLabels,
             UnlinkLabels, NextLabels, SplitLabels, MergeLabels, DownLabels
  <2>2. CASE ~(Height >= 1)
    BY <1>1, <1>4, <2>2, FieldsAre
       DEF ReadHeight, At, GoTo, Control, Inserting, GoingDown, Shifting, AtBottom, Nil,
           SearchLabels, UnlinkLabels, NextLabels, SplitLabels, MergeLabels, DownLabels, mem,
           host
  <2> QED BY <2>1, <2>2
<1>5. CASE MarkZombie(w)
  <2>1. CASE loc[w].over
    <3>1. /\ pc[w] = "markZombie"
          /\ BeginDown(w, loc[w].min, loc[w].max, loc[w].nxt, "unlockMerged")
      BY <1>5, <2>1 DEF MarkZombie, At
    <3> QED BY <3>1, BeginDownNames, <1>1
         DEF Control, Inserting, GoingDown, Shifting, AtBottom, Nil, SearchLabels,
             UnlinkLabels, NextLabels, SplitLabels, MergeLabels, DownLabels
  <2>2. CASE ~(loc[w].over)
    BY <1>1, <1>5, <2>2, FieldsAre
       DEF MarkZombie, BeginDown, At, GoTo, Control, Inserting, GoingDown, Shifting,
           AtBottom, Nil, SearchLabels, UnlinkLabels, NextLabels, SplitLabels, MergeLabels,
           DownLabels, mem, host
  <2> QED BY <2>1, <2>2
<1>6. CASE EmptyMoved(w)
  <2>1. CASE Inserting(w)
    <3> DEFINE right == loc[w].key > Threshold(loc[w].kv)
               c == IF right THEN loc[w].new ELSE loc[w].ini
               data == IF right THEN chunk[loc[w].new].data ELSE Emptied(loc[w].kv)
               moved == Cardinality(MovedLanes(loc[w].kv))
               m == IF right THEN moved ELSE OccupiedSlots(loc[w].kv) - moved
    <3>1. pc[w] = "empty" /\ pc' = [pc EXCEPT ![w] = "shift"] /\ ShiftIn(w, c, data, m)
      BY <1>6, <2>1 DEF EmptyMoved, At, GoTo
    <3>2. c \in {loc[w].new, loc[w].ini}
      OBVIOUS
    <3> HIDE DEF c, data, m
    <3> QED BY <3>1, <3>2, <2>1, ShiftInNames, <1>1
         DEF Control, Inserting, GoingDown, Shifting, AtBottom, Nil, SearchLabels,
             UnlinkLabels, NextLabels, SplitLabels, MergeLabels, DownLabels
  <2>2. CASE ~(Inserting(w))
    BY <1>1, <1>6, <2>2, FieldsAre
       DEF EmptyMoved, ShiftIn, At, GoTo, Control, Inserting, GoingDown, Shifting, AtBottom,
           Nil, SearchLabels, UnlinkLabels, NextLabels, SplitLabels, MergeLabels, DownLabels,
           mem, host
  <2> QED BY <2>1, <2>2
<1>7. CASE UnlockOther(w)
  <2>1. /\ pc[w] = "unlockOther"
        /\ \E min, max : BeginDown(w, min, max, loc[w].new, "count")
    BY <1>7 DEF UnlockOther, At
  <2> QED BY <2>1, BeginDownNames, <1>1
         DEF Control, Inserting, GoingDown, Shifting, AtBottom, Nil, SearchLabels,
             UnlinkLabels, NextLabels, SplitLabels, MergeLabels, DownLabels
<1> USE DEF Control, Inserting, GoingDown, SearchLabels, UnlinkLabels, NextLabels,
            SplitLabels, MergeLabels, DownLabels, AtBottom, Shifting, Nil
<1>10. CASE SearchStart(w)
  BY <1>1, <1>10, SearchStartNames DEF RestKept
<1>14. CASE TryLockFails(w)
  <2>1. pc[w] = "tryLock" /\ \E d : GoRight(w, d)
    BY <1>14 DEF TryLockFails, At
  <2> QED BY <1>1, <2>1, GoRightNames DEF RestKept
<1>16. CASE GiveUpUnlink(w)
  <2>1. pc[w] = "giveUp" /\ \E d : GoRight(w, d)
    BY <1>16 DEF GiveUpUnlink, At
  <2> QED BY <1>1, <2>1, GoRightNames DEF RestKept
<1>20. CASE StepRight(w)
  <2>1. pc[w] = "reread" /\ \E d : GoRight(w, d)
    BY <1>20 DEF StepRight, At
  <2> QED BY <1>1, <2>1, GoRightNames DEF RestKept
<1>21. CASE StepDown(w)
  <2>1. pc[w] = "reread" /\ \E p, d, t : GoDown(w, p, d, t)
    BY <1>21 DEF StepDown, At
  <2> QED BY <1>1, <2>1, GoDownNames DEF RestKept
<1>22. CASE BackTrack(w)
  <2>1. pc[w] = "reread" /\ \E p, d, t : GoDown(w, p, d, t)
    BY <1>22 DEF BackTrack, At
  <2> QED BY <1>1, <2>1, GoDownNames DEF RestKept
<1>45. CASE EraseInPlace(w)
  BY <1>1, <1>45, EraseInPlaceNames DEF RestKept
<1>53. CASE MergeCopy(w)
  BY <1>1, <1>53, MergeCopyNames DEF RestKept
<1>56. CASE DownSearched(w)
  BY <1>1, <1>56, DownSearchedNames DEF RestKept
<1>54. CASE DecrementNumChunks(w)
  <2>1. /\ pc[w] = "uncount"
        /\ BeginDown(w, loc[w].min, loc[w].max, loc[w].nxt, "unlockMerged")
    BY <1>54 DEF DecrementNumChunks, At
  <2> QED BY <1>1, <2>1, BeginDownNames
<1>39. CASE InsertFits(w)
  <2>1. /\ pc[w] = "encCheck" /\ pc' = [pc EXCEPT ![w] = "shift"] /\ Inserting(w)
        /\ \E data, m : ShiftIn(w, loc[w].enc, data, m)
    BY SMTT(30), <1>39 DEF InsertFits, At, Enclosing, GoTo
  <2> QED BY <1>1, <2>1, ShiftInNames
<1> USE FieldsAre DEF At, GoTo, mem, host
<1>8. CASE StartOp(w)
  BY <1>1, <1>8 DEF StartOp
<1>9. CASE ReturnResult(w)
  BY <1>1, <1>9 DEF ReturnResult, NoOp
<1>11. CASE SearchRead(w)
  BY <1>1, <1>11 DEF SearchRead, GoRight
<1>12. CASE SearchMeetZombie(w)
  BY <1>1, <1>12 DEF SearchMeetZombie, GoRight
<1>13. CASE TryLockPrev(w)
  BY <1>1, <1>13 DEF TryLockPrev
<1>15. CASE RecheckPrev(w)
  BY SMTT(30), <1>1, <1>15 DEF RecheckPrev
<1>17. CASE SkipZombie(w)
  BY ZenonT(40), <1>1, <1>17 DEF SkipZombie
<1>18. CASE UnlinkZombies(w)
  BY <1>1, <1>18 DEF UnlinkZombies
<1>19. CASE UnlockPrev(w)
  BY <1>1, <1>19 DEF UnlockPrev
<1>23. CASE RestartSearch(w)
  BY <1>1, <1>23 DEF RestartSearch
<1>24. CASE SearchRefuses(w)
  BY ZenonT(20), <1>1, <1>24 DEF SearchRefuses, OwnSearch
<1>25. CASE SearchLeads(w)
  BY <1>1, <1>25 DEF SearchLeads, OwnSearch, Searched
<1>26. CASE WalkToEnclosing(w)
  BY <1>1, <1>26 DEF WalkToEnclosing
<1>27. CASE LockEnclosing(w)
  BY <1>1, <1>27 DEF LockEnclosing
<1>28. CASE NotEnclosing(w)
  BY <1>1, <1>28 DEF NotEnclosing
<1>29. CASE RetryEnclosing(w)
  BY <1>1, <1>29 DEF RetryEnclosing
<1>30. CASE ReadNext(w)
  BY ZenonT(40), <1>1, <1>30 DEF ReadNext, AfterNext
<1>31. CASE WalkToNext(w)
  BY <1>1, <1>31 DEF WalkToNext
<1>32. CASE LockNext(w)
  BY <1>1, <1>32 DEF LockNext
<1>33. CASE CheckNext(w)
  BY <1>1, <1>33 DEF CheckNext
<1>34. CASE RedirectNext(w)
  BY <1>1, <1>34 DEF RedirectNext, AfterNext
<1>35. CASE GetNewChunk(w)
  BY <1>1, <1>35 DEF GetNewChunk
<1>36. CASE UnlockNext(w)
  BY <1>1, <1>36 DEF UnlockNext
<1>37. CASE SplitCopy(w)
  BY <1>1, <1>37 DEF SplitCopy
<1>38. CASE InsertPresent(w)
  BY SMTT(30), <1>1, <1>38 DEF InsertPresent, Enclosing
<1>40. CASE InsertOverflows(w)
  BY <1>1, <1>40 DEF InsertOverflows, Enclosing
<1>41. CASE ShiftRight(w)
  BY <1>1, <1>41 DEF ShiftRight
<1>42. CASE IsLevelEmpty(w)
  BY ZenonT(20), <1>1, <1>42 DEF IsLevelEmpty
<1>43. CASE IncrementNumChunks(w)
  BY ZenonT(40), <1>1, <1>43 DEF IncrementNumChunks
<1>44. CASE EraseAbsent(w)
  BY <1>1, <1>44 DEF EraseAbsent, Enclosing
<1>46. CASE LowerMax(w)
  BY <1>1, <1>46 DEF LowerMax
<1>47. CASE ShiftLeft(w)
  BY SMTT(30), <1>1, <1>47 DEF ShiftLeft, AfterErase
<1>48. CASE EraseByMerge(w)
  BY ZenonT(20), <1>1, <1>48 DEF EraseByMerge, Enclosing, BottomOf
<1>49. CASE MergeRead(w)
  BY <1>1, <1>49 DEF MergeRead
<1>50. CASE UnlockNew(w)
  BY <1>1, <1>50 DEF UnlockNew
<1>51. CASE MergeShift(w)
  BY Zenon, <1>1, <1>51 DEF MergeShift
<1>52. CASE ShiftData(w)
  BY SMTT(30), <1>1, <1>52 DEF ShiftData
<1>55. CASE UnlockMerged(w)
  BY <1>1, <1>55 DEF UnlockMerged, AfterErase
<1>57. CASE DownRead(w)
  BY <1>1, <1>57 DEF DownRead, NextDown, AfterDown
<1>58. CASE DownLock(w)
  BY <1>1, <1>58 DEF DownLock
<1>59. CASE DownWrite(w)
  BY <1>1, <1>59 DEF DownWrite
<1>60. CASE DownUnlock(w)
  BY <1>1, <1>60 DEF DownUnlock, NextDown, AfterDown
<1>61. CASE UnlockBottom(w)
  BY <1>1, <1>61 DEF UnlockBottom
<1> QED BY Zenon, <1>2, <1>3, <1>4, <1>5, <1>6, <1>7, <1>8, <1>9, <1>10, <1>11, <1>12, <1>13,
           <1>14, <1>15, <1>16, <1>17, <1>18, <1>19, <1>20, <1>21, <1>22, <1>23, <1>24,
           <1>25, <1>26, <1>27, <1>28, <1>29, <1>30, <1>31, <1>32, <1>33, <1>34, <1>35,
           <1>36, <1>37, <1>38, <1>39, <1>40, <1>41, <1>42, <1>43, <1>44, <1>45, <1>46,
           <1>47, <1>48, <1>49, <1>50, <1>51, <1>52, <1>53, <1>54, <1>55, <1>56, <1>57,
           <1>58, <1>59, <1>60, <1>61
         DEF Step, Search, Enclose, FindNext, Split, InsertToLevel, EraseFromLevel,
             UpdateDownPtrs

-----------------------------------------------------------------------------
(* What a warp holds before and after a step. *)

HoldStep(w) ==
  \A c \in Chunks :
    /\ Holds(w, c) => Holds(w, c)' \/ Gives(w, c) \/ IsZombie(chunk[c])
    /\ Holds(w, c)' => \/ Holds(w, c) \/ Takes(w, c)
                       \/ pc[w] = "alloc" /\ c = allocated
    /\ Takes(w, c) \/ (pc[w] = "alloc" /\ c = allocated) => Holds(w, c)'

\* A warp that holds a chunk goes on holding it until the step that unlocks it, and comes
\* to hold only the chunk that its step locks or takes from the pool.
LEMMA StepHolds ==
  ASSUME RegistersOK, NEW w \in Warps, Control(w), Step(w)
  PROVE  HoldStep(w)
<1> SUFFICES ASSUME NEW c \in Chunks
             PROVE  /\ Holds(w, c) => Holds(w, c)' \/ Gives(w, c) \/ IsZombie(chunk[c])
                    /\ Holds(w, c)' => \/ Holds(w, c) \/ Takes(w, c)
                                       \/ pc[w] = "alloc" /\ c = allocated
                    /\ Takes(w, c) \/ (pc[w] = "alloc" /\ c = allocated) => Holds(w, c)'
  BY DEF HoldStep
<1>1. /\ pc = [v \in Warps |-> pc[v]] /\ loc = [v \in Warps |-> loc[v]]
      /\ loc[w] = [f \in Fields |-> loc[w][f]]
  BY DEF RegistersOK
<1> c # Nil
  BY DEF Chunks, Nil
<1> USE DEF Control, Inserting, GoingDown, AtBottom, Nil, SearchLabels, UnlinkLabels,
            NextLabels, SplitLabels, MergeLabels, DownLabels, LevelLabels, Holds, HasBottom,
            HasEnc, HasNxt, HasNew, HasCur, HasPrev, Takes, Gives
<1>2. CASE UnlockEnclosing(w)
  <2>1. CASE loc[w].up /\ loc[w].level < TopOf(w)
    <3>1. pc[w] = "unlockEnc" /\ EnterLevel(w, loc[w].level + 1, loc[w].enc)
      BY <1>2, <2>1 DEF UnlockEnclosing, At
    <3> QED BY <3>1, <1>1, EnterLevelNames
  <2>2. CASE ~(loc[w].up /\ loc[w].level < TopOf(w))
    BY SMTT(30), <1>1, <1>2, <2>2, FieldsAre DEF UnlockEnclosing, EnterLevel, At, GoTo
  <2> QED BY <2>1, <2>2
<1>3. CASE RaiseKey(w)
  <2>1. CASE TopLevel > 1
    <3>1. pc[w] = "raise" /\ EnterLevel(w, 1, loc[w].bottom)
      BY <1>3, <2>1 DEF RaiseKey, At
    <3> QED BY <3>1, <1>1, EnterLevelNames
  <2>2. CASE ~(TopLevel > 1)
    BY SMTT(30), <1>1, <1>3, <2>2, FieldsAre DEF RaiseKey, EnterLevel, At, GoTo
  <2> QED BY <2>1, <2>2
<1>4. CASE ReadHeight(w)
  <2>1. CASE Height >= 1
    <3>1. pc[w] = "height" /\ ReadHeight(w)
      BY <1>4, <2>1 DEF ReadHeight, At
    <3> QED BY <3>1, <1>1, <2>1, ReadHeightNames
  <2>2. CASE ~(Height >= 1)
    BY <1>1, <1>4, <2>2, FieldsAre DEF ReadHeight, At, GoTo
  <2> QED BY <2>1, <2>2
<1>5. CASE MarkZombie(w)
  <2>1. CASE loc[w].over
    <3>1. /\ pc[w] = "markZombie"
          /\ BeginDown(w, loc[w].min, loc[w].max, loc[w].nxt, "unlockMerged")
      BY <1>5, <2>1 DEF MarkZombie, At
    <3> QED BY <3>1, <1>1, BeginDownNames
  <2>2. CASE ~(loc[w].over)
    BY <1>1, <1>5, <2>2, FieldsAre DEF MarkZombie, BeginDown, At, GoTo
  <2> QED BY <2>1, <2>2
<1>6. CASE DecrementNumChunks(w)
  <2>1. /\ pc[w] = "uncount"
        /\ BeginDown(w, loc[w].min, loc[w].max, loc[w].nxt, "unlockMerged")
    BY <1>6 DEF DecrementNumChunks, At
  <2> QED BY <2>1, <1>1, BeginDownNames
<1>7. CASE EmptyMoved(w)
  <2>1. CASE Inserting(w)
    <3> DEFINE right == loc[w].key > Threshold(loc[w].kv)
               d == IF right THEN loc[w].new ELSE loc[w].ini
               data == IF right THEN chunk[loc[w].new].data ELSE Emptied(loc[w].kv)
               moved == Cardinality(MovedLanes(loc[w].kv))
               m == IF right THEN moved ELSE OccupiedSlots(loc[w].kv) - moved
    <3>1. pc[w] = "empty" /\ pc' = [pc EXCEPT ![w] = "shift"] /\ ShiftIn(w, d, data, m)
      BY <1>7, <2>1 DEF EmptyMoved, At, GoTo
    <3>2. d \in {loc[w].new, loc[w].ini}
      OBVIOUS
    <3> HIDE DEF d, data, m
    <3> QED BY <3>1, <3>2, <2>1, ShiftInNames, <1>1
  <2>2. CASE ~Inserting(w)
    BY <1>1, <1>7, <2>2, FieldsAre DEF EmptyMoved, At, GoTo
  <2> QED BY <2>1, <2>2
<1>8. CASE UnlockOther(w)
  <2>1. /\ pc[w] = "unlockOther"
        /\ \E min, max : BeginDown(w, min, max, loc[w].new, "count")
    BY <1>8 DEF UnlockOther, At
  <2> QED BY <2>1, <1>1, BeginDownNames DEF Shifting
<1>9. CASE InsertFits(w)
  <2>1. /\ pc[w] = "encCheck" /\ pc' = [pc EXCEPT ![w] = "shift"]
        /\ \E data, m : ShiftIn(w, loc[w].enc, data, m)
    BY <1>9 DEF InsertFits, At, Enclosing, GoTo
  <2> QED BY <2>1, <1>1, ShiftInNames
<1>12. CASE SearchStart(w)
  BY <1>1, <1>12, SearchStartNames DEF RestKept
<1>16. CASE TryLockFails(w)
  <2>1. pc[w] = "tryLock" /\ \E d : GoRight(w, d)
    BY <1>16 DEF TryLockFails, At
  <2> QED BY <1>1, <2>1, GoRightNames DEF RestKept
<1>18. CASE GiveUpUnlink(w)
  <2>1. pc[w] = "giveUp" /\ \E d : GoRight(w, d)
    BY <1>18 DEF GiveUpUnlink, At
  <2> QED BY <1>1, <2>1, GoRightNames DEF RestKept
<1>22. CASE StepRight(w)
  <2>1. pc[w] = "reread" /\ \E d : GoRight(w, d)
    BY <1>22 DEF StepRight, At
  <2> QED BY <1>1, <2>1, GoRightNames DEF RestKept
<1>23. CASE StepDown(w)
  <2>1. pc[w] = "reread" /\ \E p, d, t : GoDown(w, p, d, t)
    BY <1>23 DEF StepDown, At
  <2> QED BY <1>1, <2>1, GoDownNames DEF RestKept
<1>24. CASE BackTrack(w)
  <2>1. pc[w] = "reread" /\ \E p, d, t : GoDown(w, p, d, t)
    BY <1>24 DEF BackTrack, At
  <2> QED BY <1>1, <2>1, GoDownNames DEF RestKept
<1>46. CASE EraseInPlace(w)
  BY <1>1, <1>46, EraseInPlaceNames DEF RestKept
<1>54. CASE MergeCopy(w)
  BY <1>1, <1>54, MergeCopyNames DEF RestKept
<1>56. CASE DownSearched(w)
  BY SMTT(30), <1>1, <1>56, DownSearchedNames DEF RestKept
<1> USE FieldsAre DEF At, GoTo, mem, host
<1>10. CASE StartOp(w)
  BY <1>1, <1>10 DEF StartOp
<1>11. CASE ReturnResult(w)
  BY <1>1, <1>11 DEF ReturnResult, NoOp
<1>13. CASE SearchRead(w)
  BY <1>1, <1>13 DEF SearchRead, GoRight
<1>14. CASE SearchMeetZombie(w)
  BY <1>1, <1>14 DEF SearchMeetZombie, GoRight
<1>15. CASE TryLockPrev(w)
  BY <1>1, <1>15 DEF TryLockPrev
<1>17. CASE RecheckPrev(w)
  BY SMTT(30), <1>1, <1>17 DEF RecheckPrev
<1>19. CASE SkipZombie(w)
  BY <1>1, <1>19 DEF SkipZombie
<1>20. CASE UnlinkZombies(w)
  BY <1>1, <1>20 DEF UnlinkZombies
<1>21. CASE UnlockPrev(w)
  BY <1>1, <1>21 DEF UnlockPrev
<1>25. CASE RestartSearch(w)
  BY <1>1, <1>25 DEF RestartSearch
<1>26. CASE SearchRefuses(w)
  BY <1>1, <1>26 DEF SearchRefuses, OwnSearch
<1>27. CASE SearchLeads(w)
  BY <1>1, <1>27 DEF SearchLeads, OwnSearch, Searched
<1>28. CASE WalkToEnclosing(w)
  BY <1>1, <1>28 DEF WalkToEnclosing
<1>29. CASE LockEnclosing(w)
  BY <1>1, <1>29 DEF LockEnclosing
<1>30. CASE NotEnclosing(w)
  BY <1>1, <1>30 DEF NotEnclosing
<1>31. CASE RetryEnclosing(w)
  BY ZenonT(20), <1>1, <1>31 DEF RetryEnclosing
<1>32. CASE ReadNext(w)
  BY ZenonT(40), <1>1, <1>32 DEF ReadNext, AfterNext
<1>33. CASE WalkToNext(w)
  BY <1>1, <1>33 DEF WalkToNext
<1>34. CASE LockNext(w)
  BY <1>1, <1>34 DEF LockNext
<1>35. CASE CheckNext(w)
  BY <1>1, <1>35 DEF CheckNext
<1>36. CASE RedirectNext(w)
  BY <1>1, <1>36 DEF RedirectNext, AfterNext
<1>37. CASE GetNewChunk(w)
  BY <1>1, <1>37 DEF GetNewChunk
<1>38. CASE UnlockNext(w)
  BY <1>1, <1>38 DEF UnlockNext
<1>39. CASE SplitCopy(w)
  BY <1>1, <1>39 DEF SplitCopy
<1>40. CASE InsertPresent(w)
  BY <1>1, <1>40 DEF InsertPresent, Enclosing
<1>41. CASE InsertOverflows(w)
  BY <1>1, <1>41 DEF InsertOverflows, Enclosing
<1>42. CASE ShiftRight(w)
  BY <1>1, <1>42 DEF ShiftRight, Shifting
<1>43. CASE IsLevelEmpty(w)
  BY ZenonT(20), <1>1, <1>43 DEF IsLevelEmpty
<1>44. CASE IncrementNumChunks(w)
  BY <1>1, <1>44 DEF IncrementNumChunks
<1>45. CASE EraseAbsent(w)
  BY <1>1, <1>45 DEF EraseAbsent, Enclosing
<1>47. CASE LowerMax(w)
  BY ZenonT(20), <1>1, <1>47 DEF LowerMax
<1>48. CASE ShiftLeft(w)
  BY <1>1, <1>48 DEF ShiftLeft, AfterErase
<1>49. CASE EraseByMerge(w)
  BY ZenonT(20), <1>1, <1>49 DEF EraseByMerge, Enclosing, BottomOf
<1>50. CASE MergeRead(w)
  BY <1>1, <1>50 DEF MergeRead
<1>51. CASE UnlockNew(w)
  BY ZenonT(20), <1>1, <1>51 DEF UnlockNew
<1>52. CASE MergeShift(w)
  BY SMTT(30), <1>1, <1>52 DEF MergeShift
<1>53. CASE ShiftData(w)
  BY <1>1, <1>53 DEF ShiftData
<1>55. CASE UnlockMerged(w)
  BY <1>1, <1>55 DEF UnlockMerged, AfterErase
<1>57. CASE DownRead(w)
  BY <1>1, <1>57 DEF DownRead, NextDown, AfterDown
<1>58. CASE DownLock(w)
  BY ZenonT(20), <1>1, <1>58 DEF DownLock
<1>59. CASE DownWrite(w)
  BY <1>1, <1>59 DEF DownWrite
<1>60. CASE DownUnlock(w)
  BY <1>1, <1>60 DEF DownUnlock, NextDown, AfterDown
<1>61. CASE UnlockBottom(w)
  BY <1>1, <1>61 DEF UnlockBottom
<1> QED BY Zenon, <1>2, <1>3, <1>4, <1>5, <1>6, <1>7, <1>8, <1>9, <1>10, <1>11, <1>12, <1>13,
           <1>14, <1>15, <1>16, <1>17, <1>18, <1>19, <1>20, <1>21, <1>22, <1>23, <1>24,
           <1>25, <1>26, <1>27, <1>28, <1>29, <1>30, <1>31, <1>32, <1>33, <1>34, <1>35,
           <1>36, <1>37, <1>38, <1>39, <1>40, <1>41, <1>42, <1>43, <1>44, <1>45, <1>46,
           <1>47, <1>48, <1>49, <1>50, <1>51, <1>52, <1>53, <1>54, <1>55, <1>56, <1>57,
           <1>58, <1>59, <1>60, <1>61
         DEF Step, Search, Enclose, FindNext, Split, InsertToLevel, EraseFromLevel,
             UpdateDownPtrs

-----------------------------------------------------------------------------
(* No lock is lost. *)

\* A locked chunk has somebody who will unlock it, after every step of a warp.
LEMMA StepAccounted ==
  ASSUME ReleaseInv, NEW w \in Warps, Step(w)
  PROVE  Accounted'
<1> SUFFICES ASSUME NEW c \in Chunks, chunk'[c].lock = "locked"
             PROVE  \E v \in Warps : Holds(v, c)'
  BY DEF Accounted
<1>1. LockStep(w) /\ HoldStep(w)
  BY StepPool, StepHolds DEF ReleaseInv
<1>2. \A v \in Warps \ {w} : pc'[v] = pc[v] /\ loc'[v] = loc[v]
  BY StepFrame DEF ReleaseInv
<1>3. chunk[c].lock \in LockStates
  BY DEF ReleaseInv, PoolOK
<1>4. CASE Takes(w, c) \/ (pc[w] = "alloc" /\ c = allocated)
  BY <1>1, <1>4 DEF HoldStep
<1>5. CASE ~(Takes(w, c) \/ (pc[w] = "alloc" /\ c = allocated))
  <2>1. chunk[c].lock = "locked" /\ ~Gives(w, c)
    <3>1. StepLock(w, c) = "locked"
      BY <1>1 DEF LockStep
    <3>2. CASE Gives(w, c)
      BY <3>1, <3>2, <1>3, <1>5 DEF StepLock, Given, Gives, LockStates
    <3>3. CASE ~Gives(w, c)
      BY <3>1, <3>3, <1>5 DEF StepLock
    <3> QED BY <3>2, <3>3
  <2>2. PICK v \in Warps : Holds(v, c)
    BY <2>1 DEF ReleaseInv, Accounted
  <2>3. CASE v = w
    BY <1>1, <2>1, <2>2, <2>3 DEF HoldStep, IsZombie
  <2>4. CASE v # w
    BY <1>2, <2>2, <2>4
       DEF Holds, HasBottom, HasEnc, HasNxt, HasNew, HasCur, HasPrev, GoingDown
  <2> QED BY <2>3, <2>4
<1> QED BY <1>4, <1>5

\* What Control says of a warp stays while others move.
LEMMA OthersControl ==
  ASSUME NEW v, Control(v), pc'[v] = pc[v], loc'[v] = loc[v]
  PROVE  Control(v)'
BY DEF Control, Inserting, Shifting, AtBottom, GoingDown

\* The invariant holds when the list has been created.
LEMMA ReleaseInit == Init => ReleaseInv
<1> SUFFICES ASSUME Init PROVE ReleaseInv
  OBVIOUS
<1>1. PoolOK
  <2> DEFINE Start(c) ==
               IF c \in Levels
                 THEN [FreshChunk(Nil, "unlocked")
                         EXCEPT !.data[0] = [k |-> NegInf, v |-> c - 1]]
                 ELSE FreshChunk(Nil, "unlocked")
  <2>1. chunk = [c \in Chunks |-> Start(c)]
    BY DEF Init
  <2>2. \A c : Start(c) = [f \in Words |-> Start(c)[f]] /\ Start(c).lock = "unlocked"
    BY DEF FreshChunk, Words
  <2>3. allocated \in Nat
    BY ChunkAssumption DEF Init
  <2> HIDE DEF Start
  <2>4. /\ chunk = [c \in Chunks |-> chunk[c]]
        /\ \A c \in Chunks : chunk[c] = Start(c)
    BY <2>1
  <2> QED BY <2>2, <2>3, <2>4 DEF PoolOK, LockStates
<1>2. RegistersOK
  BY NoOpIsRecord DEF Init, RegistersOK
<1>3. \A w \in Warps : Control(w)
  BY
     DEF Init, NoOp, Control, Inserting, GoingDown, SearchLabels, UnlinkLabels, NextLabels,
         SplitLabels, MergeLabels, DownLabels
<1>4. Accounted
  <2>1. \A c \in Chunks : chunk[c].lock = "unlocked"
    BY DEF Init, FreshChunk
  <2> QED BY <2>1 DEF Accounted
<1> QED BY <1>1, <1>2, <1>3, <1>4 DEF ReleaseInv

\* The steps of the host leave the invariant alone.
LEMMA ReleaseUnchanged ==
  ASSUME ReleaseInv, UNCHANGED <<chunk, allocated, pc, loc>>
  PROVE  ReleaseInv'
<1>1. /\ chunk' = chunk /\ allocated' = allocated /\ pc' = pc /\ loc' = loc
  OBVIOUS
<1>2. RegistersOK' /\ PoolOK'
  BY <1>1 DEF ReleaseInv, RegistersOK, PoolOK
<1>3. \A w \in Warps : Control(w)'
  BY <1>1, OthersControl DEF ReleaseInv
<1>4. Accounted'
  BY <1>1
     DEF ReleaseInv, Accounted, Holds, HasBottom, HasEnc, HasNxt, HasNew, HasCur, HasPrev,
         GoingDown
<1> QED BY <1>2, <1>3, <1>4 DEF ReleaseInv

\* The invariant is inductive.
LEMMA ReleaseNext == ReleaseInv /\ [Next]_vars => ReleaseInv'
<1> SUFFICES ASSUME ReleaseInv, [Next]_vars PROVE ReleaseInv'
  OBVIOUS
<1>1. CASE NextBatch
  BY <1>1, ReleaseUnchanged DEF NextBatch, mem
<1>2. ASSUME NEW w \in Warps, Step(w)
      PROVE  ReleaseInv'
  <2>1. RegistersOK' /\ \A v \in Warps \ {w} : pc'[v] = pc[v] /\ loc'[v] = loc[v]
    BY <1>2, StepFrame DEF ReleaseInv
  <2>2. PoolOK'
    BY <1>2, StepPool DEF ReleaseInv
  <2>3. \A v \in Warps : Control(v)'
    <3>1. Control(w)'
      BY <1>2, StepControl DEF ReleaseInv
    <3>2. ASSUME NEW v \in Warps \ {w}
          PROVE  Control(v)'
      BY <2>1, OthersControl DEF ReleaseInv
    <3> QED BY <3>1, <3>2
  <2>4. Accounted'
    BY <1>2, StepAccounted
  <2> QED BY <2>1, <2>2, <2>3, <2>4 DEF ReleaseInv
<1>3. CASE Finished
  BY <1>3, ReleaseUnchanged DEF Finished, vars
<1>4. CASE UNCHANGED vars
  BY <1>4, ReleaseUnchanged DEF vars
<1> QED BY <1>1, <1>2, <1>3, <1>4 DEF Next

\* When a kernel has ended no chunk is locked, whichever of the paths through split,
\* merge, unlinking and retries its operations took.
THEOREM LocksAreReleased == Spec => []LocksReleased
<1>1. Init => ReleaseInv
  BY ReleaseInit
<1>2. ReleaseInv /\ [Next]_vars => ReleaseInv'
  BY ReleaseNext
<1>3. ReleaseInv => LocksReleased
  <2> SUFFICES ASSUME ReleaseInv, BatchDone, NEW c \in Chunks
               PROVE  chunk[c].lock # "locked"
    BY DEF LocksReleased
  <2>1. \A w \in Warps : pc[w] = "take" /\ loc[w].caller = "op"
    BY DEF ReleaseInv, BatchDone, At, Control, SearchLabels, UnlinkLabels
  <2>2. \A w \in Warps : ~Holds(w, c)
    BY <2>1
       DEF Holds, HasBottom, HasEnc, HasNxt, HasNew, HasCur, HasPrev, GoingDown,
           SearchLabels, UnlinkLabels, NextLabels, SplitLabels, MergeLabels, DownLabels,
           LevelLabels
  <2> QED BY <2>2 DEF ReleaseInv, Accounted
<1> QED BY <1>1, <1>2, <1>3, PTL DEF Spec

-----------------------------------------------------------------------------
(* The locks of a warp stay apart. *)

\* Chunk c is one that the step of w does not unlock or make a zombie.
Free(w, c) == ~Gives(w, c) /\ ~(pc[w] = "markZombie" /\ c = loc[w].enc)
Fresh(w, c) == Takes(w, c) \/ (pc[w] = "alloc" /\ c = allocated)

\* A step keeps a warp's names for a chunk apart, when it takes only chunks that it does
\* not hold.
LEMMA StepDiffers ==
  ASSUME RegistersOK, NEW w \in Warps, Control(w), Step(w), NEW c \in Chunks,
         Differs(w, c), Free(w, c),
         Fresh(w, c) => ~Holds(w, c)
  PROVE  Differs(w, c)'
<1>1. /\ pc = [v \in Warps |-> pc[v]] /\ loc = [v \in Warps |-> loc[v]]
      /\ loc[w] = [f \in Fields |-> loc[w][f]]
  BY DEF RegistersOK
<1> c # Nil
  BY DEF Chunks, Nil
<1> USE DEF Control, Inserting, GoingDown, Nil, SearchLabels, UnlinkLabels, NextLabels,
            SplitLabels, MergeLabels, DownLabels, LevelLabels, AtBottom, Holds, HasBottom,
            HasEnc, HasNxt, HasNew, HasCur, HasPrev, Takes, Gives, Free, Differs, Fresh
<1>2. CASE UnlockEnclosing(w)
  <2>1. CASE loc[w].up /\ loc[w].level < TopOf(w)
    <3>1. pc[w] = "unlockEnc" /\ EnterLevel(w, loc[w].level + 1, loc[w].enc)
      BY <1>2, <2>1 DEF UnlockEnclosing, At
    <3> QED BY <3>1, <1>1, EnterLevelNames
  <2>2. CASE ~(loc[w].up /\ loc[w].level < TopOf(w))
    BY <1>1, <1>2, <2>2, FieldsAre DEF UnlockEnclosing, EnterLevel, At, GoTo
  <2> QED BY <2>1, <2>2
<1>3. CASE RaiseKey(w)
  <2>1. CASE TopLevel > 1
    <3>1. pc[w] = "raise" /\ EnterLevel(w, 1, loc[w].bottom)
      BY <1>3, <2>1 DEF RaiseKey, At
    <3> QED BY <3>1, <1>1, EnterLevelNames
  <2>2. CASE ~(TopLevel > 1)
    BY <1>1, <1>3, <2>2, FieldsAre DEF RaiseKey, EnterLevel, At, GoTo
  <2> QED BY <2>1, <2>2
<1>4. CASE ReadHeight(w)
  <2>1. CASE Height >= 1
    <3>1. pc[w] = "height" /\ ReadHeight(w)
      BY <1>4, <2>1 DEF ReadHeight, At
    <3> QED BY <3>1, <1>1, <2>1, ReadHeightNames
  <2>2. CASE ~(Height >= 1)
    BY <1>1, <1>4, <2>2, FieldsAre DEF ReadHeight, At, GoTo
  <2> QED BY <2>1, <2>2
<1>5. CASE MarkZombie(w)
  <2>1. CASE loc[w].over
    <3>1. /\ pc[w] = "markZombie"
          /\ BeginDown(w, loc[w].min, loc[w].max, loc[w].nxt, "unlockMerged")
      BY <1>5, <2>1 DEF MarkZombie, At
    <3> QED BY <3>1, <1>1, BeginDownNames
  <2>2. CASE ~(loc[w].over)
    BY <1>1, <1>5, <2>2, FieldsAre DEF MarkZombie, BeginDown, At, GoTo
  <2> QED BY <2>1, <2>2
<1>6. CASE DecrementNumChunks(w)
  <2>1. /\ pc[w] = "uncount"
        /\ BeginDown(w, loc[w].min, loc[w].max, loc[w].nxt, "unlockMerged")
    BY <1>6 DEF DecrementNumChunks, At
  <2> QED BY <2>1, <1>1, BeginDownNames
<1>7. CASE EmptyMoved(w)
  <2>1. CASE Inserting(w)
    <3> DEFINE right == loc[w].key > Threshold(loc[w].kv)
               d == IF right THEN loc[w].new ELSE loc[w].ini
               data == IF right THEN chunk[loc[w].new].data ELSE Emptied(loc[w].kv)
               moved == Cardinality(MovedLanes(loc[w].kv))
               m == IF right THEN moved ELSE OccupiedSlots(loc[w].kv) - moved
    <3>1. pc[w] = "empty" /\ pc' = [pc EXCEPT ![w] = "shift"] /\ ShiftIn(w, d, data, m)
      BY <1>7, <2>1 DEF EmptyMoved, At, GoTo
    <3>2. d \in {loc[w].new, loc[w].ini}
      OBVIOUS
    <3> HIDE DEF d, data, m
    <3> QED BY <3>1, <3>2, <2>1, ShiftInNames, <1>1
  <2>2. CASE ~Inserting(w)
    BY <1>1, <1>7, <2>2, FieldsAre DEF EmptyMoved, At, GoTo
  <2> QED BY <2>1, <2>2
<1>8. CASE UnlockOther(w)
  <2>1. /\ pc[w] = "unlockOther"
        /\ \E min, max : BeginDown(w, min, max, loc[w].new, "count")
    BY <1>8 DEF UnlockOther, At
  <2> QED BY <2>1, <1>1, BeginDownNames DEF Shifting
<1>9. CASE InsertFits(w)
  <2>1. /\ pc[w] = "encCheck" /\ pc' = [pc EXCEPT ![w] = "shift"]
        /\ \E data, m : ShiftIn(w, loc[w].enc, data, m)
    BY <1>9 DEF InsertFits, At, Enclosing, GoTo
  <2> QED BY <2>1, <1>1, ShiftInNames
<1>12. CASE SearchStart(w)
  BY <1>1, <1>12, SearchStartNames DEF RestKept
<1>16. CASE TryLockFails(w)
  <2>1. pc[w] = "tryLock" /\ \E d : GoRight(w, d)
    BY <1>16 DEF TryLockFails, At
  <2> QED BY <1>1, <2>1, GoRightNames DEF RestKept
<1>18. CASE GiveUpUnlink(w)
  <2>1. pc[w] = "giveUp" /\ \E d : GoRight(w, d)
    BY <1>18 DEF GiveUpUnlink, At
  <2> QED BY <1>1, <2>1, GoRightNames DEF RestKept
<1>22. CASE StepRight(w)
  <2>1. pc[w] = "reread" /\ \E d : GoRight(w, d)
    BY <1>22 DEF StepRight, At
  <2> QED BY <1>1, <2>1, GoRightNames DEF RestKept
<1>23. CASE StepDown(w)
  <2>1. pc[w] = "reread" /\ \E p, d, t : GoDown(w, p, d, t)
    BY <1>23 DEF StepDown, At
  <2> QED BY <1>1, <2>1, GoDownNames DEF RestKept
<1>24. CASE BackTrack(w)
  <2>1. pc[w] = "reread" /\ \E p, d, t : GoDown(w, p, d, t)
    BY <1>24 DEF BackTrack, At
  <2> QED BY <1>1, <2>1, GoDownNames DEF RestKept
<1>46. CASE EraseInPlace(w)
  BY <1>1, <1>46, EraseInPlaceNames DEF RestKept
<1>54. CASE MergeCopy(w)
  BY <1>1, <1>54, MergeCopyNames DEF RestKept
<1>56. CASE DownSearched(w)
  BY SMTT(30), <1>1, <1>56, DownSearchedNames DEF RestKept
<1> USE FieldsAre DEF At, GoTo, mem, host
<1>10. CASE StartOp(w)
  BY <1>1, <1>10 DEF StartOp
<1>11. CASE ReturnResult(w)
  BY <1>1, <1>11 DEF ReturnResult, NoOp
<1>13. CASE SearchRead(w)
  BY <1>1, <1>13 DEF SearchRead, GoRight
<1>14. CASE SearchMeetZombie(w)
  BY <1>1, <1>14 DEF SearchMeetZombie, GoRight
<1>15. CASE TryLockPrev(w)
  BY <1>1, <1>15 DEF TryLockPrev
<1>17. CASE RecheckPrev(w)
  BY ZenonT(20), <1>1, <1>17 DEF RecheckPrev
<1>19. CASE SkipZombie(w)
  BY <1>1, <1>19 DEF SkipZombie
<1>20. CASE UnlinkZombies(w)
  BY <1>1, <1>20 DEF UnlinkZombies
<1>21. CASE UnlockPrev(w)
  BY <1>1, <1>21 DEF UnlockPrev
<1>25. CASE RestartSearch(w)
  BY <1>1, <1>25 DEF RestartSearch
<1>26. CASE SearchRefuses(w)
  BY <1>1, <1>26 DEF SearchRefuses, OwnSearch
<1>27. CASE SearchLeads(w)
  BY <1>1, <1>27 DEF SearchLeads, OwnSearch, Searched
<1>28. CASE WalkToEnclosing(w)
  BY <1>1, <1>28 DEF WalkToEnclosing
<1>29. CASE LockEnclosing(w)
  BY <1>1, <1>29 DEF LockEnclosing
<1>30. CASE NotEnclosing(w)
  BY <1>1, <1>30 DEF NotEnclosing
<1>31. CASE RetryEnclosing(w)
  BY ZenonT(20), <1>1, <1>31 DEF RetryEnclosing
<1>32. CASE ReadNext(w)
  BY ZenonT(40), <1>1, <1>32 DEF ReadNext, AfterNext
<1>33. CASE WalkToNext(w)
  BY <1>1, <1>33 DEF WalkToNext
<1>34. CASE LockNext(w)
  BY <1>1, <1>34 DEF LockNext
<1>35. CASE CheckNext(w)
  BY <1>1, <1>35 DEF CheckNext
<1>36. CASE RedirectNext(w)
  BY <1>1, <1>36 DEF RedirectNext, AfterNext
<1>37. CASE GetNewChunk(w)
  BY <1>1, <1>37 DEF GetNewChunk
<1>38. CASE UnlockNext(w)
  BY <1>1, <1>38 DEF UnlockNext
<1>39. CASE SplitCopy(w)
  BY <1>1, <1>39 DEF SplitCopy
<1>40. CASE InsertPresent(w)
  BY <1>1, <1>40 DEF InsertPresent, Enclosing
<1>41. CASE InsertOverflows(w)
  BY <1>1, <1>41 DEF InsertOverflows, Enclosing
<1>42. CASE ShiftRight(w)
  BY <1>1, <1>42 DEF ShiftRight, Shifting
<1>43. CASE IsLevelEmpty(w)
  BY <1>1, <1>43 DEF IsLevelEmpty
<1>44. CASE IncrementNumChunks(w)
  BY <1>1, <1>44 DEF IncrementNumChunks
<1>45. CASE EraseAbsent(w)
  BY <1>1, <1>45 DEF EraseAbsent, Enclosing
<1>47. CASE LowerMax(w)
  BY <1>1, <1>47 DEF LowerMax
<1>48. CASE ShiftLeft(w)
  BY <1>1, <1>48 DEF ShiftLeft, AfterErase
<1>49. CASE EraseByMerge(w)
  BY ZenonT(20), <1>1, <1>49 DEF EraseByMerge, Enclosing, BottomOf
<1>50. CASE MergeRead(w)
  BY <1>1, <1>50 DEF MergeRead
<1>51. CASE UnlockNew(w)
  BY ZenonT(20), <1>1, <1>51 DEF UnlockNew
<1>52. CASE MergeShift(w)
  BY ZenonT(20), <1>1, <1>52 DEF MergeShift
<1>53. CASE ShiftData(w)
  BY ZenonT(20), <1>1, <1>53 DEF ShiftData
<1>55. CASE UnlockMerged(w)
  BY <1>1, <1>55 DEF UnlockMerged, AfterErase
<1>57. CASE DownRead(w)
  BY <1>1, <1>57 DEF DownRead, NextDown, AfterDown
<1>58. CASE DownLock(w)
  BY <1>1, <1>58 DEF DownLock
<1>59. CASE DownWrite(w)
  BY <1>1, <1>59 DEF DownWrite
<1>60. CASE DownUnlock(w)
  BY <1>1, <1>60 DEF DownUnlock, NextDown, AfterDown
<1>61. CASE UnlockBottom(w)
  BY <1>1, <1>61 DEF UnlockBottom
<1> QED BY Zenon, <1>2, <1>3, <1>4, <1>5, <1>6, <1>7, <1>8, <1>9, <1>10, <1>11, <1>12, <1>13,
           <1>14, <1>15, <1>16, <1>17, <1>18, <1>19, <1>20, <1>21, <1>22, <1>23, <1>24,
           <1>25, <1>26, <1>27, <1>28, <1>29, <1>30, <1>31, <1>32, <1>33, <1>34, <1>35,
           <1>36, <1>37, <1>38, <1>39, <1>40, <1>41, <1>42, <1>43, <1>44, <1>45, <1>46,
           <1>47, <1>48, <1>49, <1>50, <1>51, <1>52, <1>53, <1>54, <1>55, <1>56, <1>57,
           <1>58, <1>59, <1>60, <1>61
         DEF Step, Search, Enclose, FindNext, Split, InsertToLevel, EraseFromLevel,
             UpdateDownPtrs

\* A warp unlocks only what it holds.
LEMMA GivesOwn ==
  ASSUME NEW w \in Warps, Control(w), NEW c, Gives(w, c)
  PROVE  Holds(w, c)
BY
   DEF Control, Inserting, GoingDown, Nil, SearchLabels, UnlinkLabels, NextLabels,
       SplitLabels, MergeLabels, DownLabels, LevelLabels, AtBottom, Holds, HasBottom, HasEnc,
       HasNxt, HasNew, HasCur, HasPrev, Takes, Gives, Free, Differs, Shifting

\* A chunk that a warp has unlocked it does not hold under another name.
LEMMA StepGives ==
  ASSUME RegistersOK, NEW w \in Warps, Control(w), Step(w), NEW c \in Chunks,
         Differs(w, c), Gives(w, c)
  PROVE  ~Holds(w, c)'
<1>1. /\ pc = [v \in Warps |-> pc[v]] /\ loc = [v \in Warps |-> loc[v]]
      /\ loc[w] = [f \in Fields |-> loc[w][f]]
  BY DEF RegistersOK
<1> c # Nil
  BY DEF Chunks, Nil
<1> USE DEF Control, Inserting, GoingDown, Nil, SearchLabels, UnlinkLabels, NextLabels,
            SplitLabels, MergeLabels, DownLabels, LevelLabels, AtBottom, Holds, HasBottom,
            HasEnc, HasNxt, HasNew, HasCur, HasPrev, Takes, Gives, Free, Differs
<1>2. CASE UnlockEnclosing(w)
  <2>1. CASE loc[w].up /\ loc[w].level < TopOf(w)
    <3>1. pc[w] = "unlockEnc" /\ EnterLevel(w, loc[w].level + 1, loc[w].enc)
      BY <1>2, <2>1 DEF UnlockEnclosing, At
    <3> QED BY <3>1, <1>1, EnterLevelNames
  <2>2. CASE ~(loc[w].up /\ loc[w].level < TopOf(w))
    BY <1>1, <1>2, <2>2, FieldsAre DEF UnlockEnclosing, EnterLevel, At, GoTo
  <2> QED BY <2>1, <2>2
<1>3. CASE UnlockOther(w)
  <2>1. /\ pc[w] = "unlockOther"
        /\ \E min, max : BeginDown(w, min, max, loc[w].new, "count")
    BY <1>3 DEF UnlockOther, At
  <2> QED BY <2>1, <1>1, BeginDownNames DEF Shifting
<1>4. CASE GiveUpUnlink(w)
  <2>1. pc[w] = "giveUp" /\ \E d : GoRight(w, d)
    BY <1>4 DEF GiveUpUnlink, At
  <2> QED BY <1>1, <2>1, GoRightNames DEF RestKept
<1> USE FieldsAre DEF At, GoTo, mem, host
<1>5. CASE RetryEnclosing(w)
  BY <1>1, <1>5 DEF RetryEnclosing
<1>6. CASE UnlockNext(w)
  BY <1>1, <1>6 DEF UnlockNext
<1>7. CASE UnlockPrev(w)
  BY <1>1, <1>7 DEF UnlockPrev
<1>8. CASE UnlockNew(w)
  BY <1>1, <1>8 DEF UnlockNew
<1>9. CASE UnlockMerged(w)
  BY <1>1, <1>9 DEF UnlockMerged, AfterErase
<1>10. CASE DownUnlock(w)
  BY <1>1, <1>10 DEF DownUnlock, NextDown, AfterDown
<1>11. CASE UnlockBottom(w)
  BY <1>1, <1>11 DEF UnlockBottom
<1>12. pc[w] \in {"giveUp", "unlinked", "encRetry", "unlockEnc", "unlockNext", "downUnlock",
                "unlockNew", "unlockOther", "unlockMerged", "unlockBottom"}
  BY DEF Gives
<1>13. Search(w) => GiveUpUnlink(w) \/ UnlockPrev(w)
  BY Zenon, <1>12
     DEF Search, SearchStart, SearchRead, SearchMeetZombie, TryLockPrev, TryLockFails,
         RecheckPrev, SkipZombie, UnlinkZombies, StepRight, StepDown, BackTrack,
         RestartSearch, SearchRefuses, SearchLeads, OwnSearch
<1>14. Enclose(w) => RetryEnclosing(w)
  BY <1>12 DEF Enclose, WalkToEnclosing, LockEnclosing, NotEnclosing
<1>15. FindNext(w) => FALSE
  BY <1>12 DEF FindNext, ReadNext, WalkToNext, LockNext, CheckNext, RedirectNext
<1>16. Split(w) => UnlockNext(w) \/ UnlockOther(w)
  BY Zenon, <1>12 DEF Split, GetNewChunk, SplitCopy, EmptyMoved
<1>17. InsertToLevel(w) => FALSE
  BY <1>12
     DEF InsertToLevel, InsertPresent, InsertFits, InsertOverflows, ShiftRight, IsLevelEmpty,
         IncrementNumChunks, RaiseKey, Enclosing
<1>18. EraseFromLevel(w) => UnlockNew(w) \/ UnlockMerged(w)
  BY Zenon, <1>12
     DEF EraseFromLevel, EraseAbsent, EraseInPlace, LowerMax, ShiftLeft, EraseByMerge,
         MergeRead, MergeShift, ShiftData, MergeCopy, MarkZombie, DecrementNumChunks,
         ReadHeight, Enclosing
<1>19. UpdateDownPtrs(w) => DownUnlock(w)
  BY Zenon, <1>12 DEF UpdateDownPtrs, DownSearched, DownRead, DownLock, DownWrite
<1>20. ~StartOp(w) /\ ~ReturnResult(w)
  BY <1>12 DEF StartOp, ReturnResult
<1> QED BY <1>2, <1>3, <1>4, <1>5, <1>6, <1>7, <1>8, <1>9, <1>10, <1>11, <1>13, <1>14, <1>15,
           <1>16, <1>17, <1>18, <1>19, <1>20
         DEF Step

-----------------------------------------------------------------------------
(* A lock has one owner, as long as the pool does not hand out a chunk in use. *)

\* A chunk that is alive goes by different names, locked or not.
LEMMA ApartMeansDiffers ==
  ASSUME NEW w \in Warps, Apart(w), LocksExclusive, NEW c \in Chunks, ~IsZombie(chunk[c]),
         chunk[c].lock \in LockStates
  PROVE  Differs(w, c)
<1>1. CASE chunk[c].lock = "locked"
  BY <1>1 DEF Apart
<1>2. CASE chunk[c].lock = "unlocked"
  BY <1>2 DEF LocksExclusive, Differs, Holds
<1> QED BY <1>1, <1>2 DEF LockStates, IsZombie

\* A chunk is taken when nobody has it.
LEMMA TakesUnheld ==
  ASSUME ExclusiveInv, NewChunkIsFree, NEW w \in Warps, Step(w), NEW c \in Chunks,
         Fresh(w, c), ~IsZombie(chunk[c])
  PROVE  chunk[c].lock = "unlocked" /\ \A v \in Warps : ~Holds(v, c)
<1>1. LockStep(w)
  BY StepPool DEF ExclusiveInv, ReleaseInv
<1>2. CASE Takes(w, c)
  BY <1>1, <1>2
     DEF LockStep, ExclusiveInv, ReleaseInv, PoolOK, LockStates, IsZombie, LocksExclusive
<1>3. CASE pc[w] = "alloc" /\ c = allocated
  BY <1>3 DEF NewChunkIsFree
<1> QED BY <1>2, <1>3 DEF Fresh

\* A dead chunk stays dead.
LEMMA ZombieStays ==
  ASSUME ExclusiveInv, NewChunkIsFree, NEW w \in Warps, Step(w), NEW c \in Chunks,
         ~IsZombie(chunk'[c])
  PROVE  ~IsZombie(chunk[c])
<1>1. chunk'[c].lock = StepLock(w, c)
  BY StepPool DEF ExclusiveInv, ReleaseInv, LockStep
<1>2. CASE pc[w] = "alloc" /\ c = allocated
  BY <1>2 DEF NewChunkIsFree, IsZombie
<1>3. CASE ~(pc[w] = "alloc" /\ c = allocated)
  <2>1. SUFFICES ASSUME chunk[c].lock = "zombie" PROVE StepLock(w, c) = "zombie"
    BY <1>1 DEF IsZombie
  <2>2. CASE Takes(w, c)
    BY <2>1, <2>2, <1>3 DEF StepLock, Takes, Gives, Taken
  <2>3. CASE ~Takes(w, c) /\ Gives(w, c)
    BY <2>1, <2>3, <1>3 DEF StepLock, Gives, Given
  <2>4. CASE ~Takes(w, c) /\ ~Gives(w, c)
    BY <2>1, <2>4, <1>3 DEF StepLock
  <2> QED BY <2>2, <2>3, <2>4
<1> QED BY <1>2, <1>3

\* What a warp holds stays while others move.
LEMMA OthersHold ==
  ASSUME NEW v, NEW c, pc'[v] = pc[v], loc'[v] = loc[v]
  PROVE  Holds(v, c)' = Holds(v, c) /\ Differs(v, c)' = Differs(v, c)
BY DEF Holds, Differs, HasBottom, HasEnc, HasNxt, HasNew, HasCur, HasPrev, GoingDown

\* After a step of one warp the locks of every warp are apart.
LEMMA StepApart ==
  ASSUME ExclusiveInv, NewChunkIsFree, NEW w \in Warps, Step(w)
  PROVE  \A v \in Warps : Apart(v)'
<1> SUFFICES ASSUME NEW v \in Warps, NEW c \in Chunks, chunk'[c].lock = "locked"
             PROVE  Differs(v, c)'
  BY DEF Apart
<1>1. LockStep(w) /\ chunk[c].lock \in LockStates
  BY StepPool DEF ExclusiveInv, ReleaseInv, PoolOK
<1>2. ~IsZombie(chunk[c])
  BY ZombieStays DEF IsZombie
<1>3. Differs(v, c)
  BY <1>1, <1>2, ApartMeansDiffers DEF ExclusiveInv
<1>4. CASE v = w
  <2>1. StepLock(w, c) = "locked"
    BY <1>1 DEF LockStep
  <2>2. Free(w, c)
    <3>1. CASE Gives(w, c)
      BY <2>1, <3>1, <1>1 DEF StepLock, Given, Gives, Takes, LockStates
    <3>2. CASE pc[w] = "markZombie" /\ c = loc[w].enc
      BY <2>1, <3>2 DEF StepLock, Gives, Takes
    <3> QED BY <3>1, <3>2 DEF Free
  <2>3. Fresh(w, c) => ~Holds(w, c)
    BY <1>2, TakesUnheld
  <2> QED BY <1>3, <1>4, <2>2, <2>3, StepDiffers DEF ExclusiveInv, ReleaseInv
<1>5. CASE v # w
  BY <1>3, <1>5, StepFrame, OthersHold DEF ExclusiveInv, ReleaseInv
<1> QED BY <1>4, <1>5

\* After a step of one warp every lock has one owner.
LEMMA StepExclusive ==
  ASSUME ExclusiveInv, NewChunkIsFree, NEW w \in Warps, Step(w)
  PROVE  LocksExclusive'
<1> SUFFICES ASSUME NEW c \in Chunks
             PROVE  /\ chunk'[c].lock = "locked" =>
                         \E u \in Warps : Holds(u, c)' /\ \A v \in Warps : Holds(v,
                             c)' => v = u
                    /\ chunk'[c].lock = "unlocked" => \A v \in Warps : ~Holds(v, c)'
  BY DEF LocksExclusive
<1>1. /\ chunk'[c].lock = StepLock(w, c)
      /\ Takes(w, c) => chunk[c].lock # "locked"
      /\ chunk[c].lock \in LockStates
  BY StepPool DEF ExclusiveInv, ReleaseInv, PoolOK, LockStep
<1>2. \A v \in Warps \ {w} : Holds(v, c)' = Holds(v, c)
  BY StepFrame, OthersHold DEF ExclusiveInv, ReleaseInv
<1>3. /\ Holds(w, c) => Holds(w, c)' \/ Gives(w, c) \/ IsZombie(chunk[c])
      /\ Holds(w, c)' => Holds(w, c) \/ Fresh(w, c)
      /\ Fresh(w, c) => Holds(w, c)'
  BY StepHolds DEF ExclusiveInv, ReleaseInv, HoldStep, Fresh
<1>4. ~IsZombie(chunk'[c]) => ~IsZombie(chunk[c])
  BY ZombieStays
<1>5. ASSUME chunk'[c].lock = "locked"
      PROVE  \E u \in Warps : Holds(u, c)' /\ \A v \in Warps : Holds(v, c)' => v = u
  <2>1. PICK u \in Warps : Holds(u, c)'
    BY <1>5, StepAccounted DEF ExclusiveInv, Accounted
  <2>2. CASE Fresh(w, c)
    BY <1>2, <1>3, <1>4, <1>5, <2>2, TakesUnheld DEF IsZombie
  <2>3. CASE ~Fresh(w, c)
    <3>1. \A v \in Warps : Holds(v, c)' => Holds(v, c)
      BY <1>2, <1>3, <2>3
    <3>2. chunk[c].lock = "locked"
      BY <3>1, <2>1, <1>1, <1>4, <1>5 DEF ExclusiveInv, LocksExclusive, LockStates, IsZombie
    <3> QED BY <3>1, <3>2, <2>1 DEF ExclusiveInv, LocksExclusive
  <2> QED BY <2>2, <2>3
<1>6. ASSUME chunk'[c].lock = "unlocked", NEW v \in Warps, Holds(v, c)'
      PROVE  FALSE
  <2>1. StepLock(w, c) = "unlocked" /\ ~IsZombie(chunk[c])
    BY <1>1, <1>4, <1>6 DEF IsZombie
  <2>2. ~Fresh(w, c)
    BY <2>1, <1>1 DEF StepLock, Fresh, Takes, Gives, Taken, LockStates
  <2>3. Holds(v, c)
    BY <1>2, <1>3, <1>6, <2>2
  <2>4. chunk[c].lock = "locked"
    BY <2>1, <2>3, <1>1 DEF ExclusiveInv, LocksExclusive, LockStates, IsZombie
  <2>5. Gives(w, c)
    BY <2>1, <2>2, <2>4 DEF StepLock, Fresh
  <2>6. v = w
    BY <2>3, <2>4, <2>5, GivesOwn DEF ExclusiveInv, ReleaseInv, LocksExclusive
  <2>7. Differs(w, c)
    BY <2>4 DEF ExclusiveInv, Apart
  <2> QED BY <1>6, <2>5, <2>6, <2>7, StepGives DEF ExclusiveInv, ReleaseInv
<1> QED BY <1>5, <1>6

\* The steps of the host leave the invariant alone.
LEMMA ExclusiveUnchanged ==
  ASSUME ExclusiveInv, UNCHANGED <<chunk, allocated, pc, loc>>
  PROVE  ExclusiveInv'
<1>1. chunk' = chunk /\ pc' = pc /\ loc' = loc
  OBVIOUS
<1>2. \A v \in Warps, c \in Chunks :
        Holds(v, c)' = Holds(v, c) /\ Differs(v, c)' = Differs(v, c)
  BY <1>1, OthersHold
<1>3. ReleaseInv'
  BY ReleaseUnchanged DEF ExclusiveInv
<1> QED BY <1>1, <1>2, <1>3 DEF ExclusiveInv, LocksExclusive, Apart

\* The invariant holds when the list has been created.
LEMMA ExclusiveInit == Init => ExclusiveInv
<1> SUFFICES ASSUME Init PROVE ExclusiveInv
  OBVIOUS
<1>1. \A c \in Chunks : chunk[c].lock = "unlocked"
  BY DEF Init, FreshChunk
<1>2. ASSUME NEW w \in Warps, NEW c
      PROVE  ~Holds(w, c)
  <2>1. pc[w] = "take"
    BY DEF Init
  <2>2. loc[w].caller = "op"
    BY DEF Init, NoOp
  <2> QED BY <2>1, <2>2
         DEF Holds, HasBottom, HasEnc, HasNxt, HasNew, HasCur, HasPrev, GoingDown,
             SearchLabels, UnlinkLabels, NextLabels, SplitLabels, MergeLabels, DownLabels,
             LevelLabels
<1>3. ReleaseInv
  BY ReleaseInit
<1> QED BY <1>1, <1>2, <1>3 DEF ExclusiveInv, LocksExclusive, Apart

\* The invariant is inductive, as long as the pool hands out free chunks.
LEMMA ExclusiveNext == ExclusiveInv /\ NewChunkIsFree /\ [Next]_vars => ExclusiveInv'
<1> SUFFICES ASSUME ExclusiveInv, NewChunkIsFree, [Next]_vars PROVE ExclusiveInv'
  OBVIOUS
<1>1. CASE NextBatch
  BY <1>1, ExclusiveUnchanged DEF NextBatch, mem
<1>2. ASSUME NEW w \in Warps, Step(w)
      PROVE  ExclusiveInv'
  <2>1. ReleaseInv'
    <3>1. Next
      BY <1>2 DEF Next
    <3> QED BY <3>1, ReleaseNext DEF ExclusiveInv
  <2>2. LocksExclusive'
    BY <1>2, StepExclusive
  <2>3. \A v \in Warps : Apart(v)'
    BY <1>2, StepApart
  <2> QED BY <2>1, <2>2, <2>3 DEF ExclusiveInv
<1>3. CASE Finished
  BY <1>3, ExclusiveUnchanged DEF Finished, vars
<1>4. CASE UNCHANGED vars
  BY <1>4, ExclusiveUnchanged DEF vars
<1> QED BY <1>1, <1>2, <1>3, <1>4 DEF Next

\* A locked chunk has been locked by one warp, which is going to unlock it or make it a
\* zombie, and by no other; and nobody takes a chunk for his own that is unlocked.  It
\* takes that the pool, whose counter wraps, does not hand out a chunk in use.
THEOREM LocksAreExclusive == Spec /\ []NewChunkIsFree => []LocksExclusive
<1>1. Init => ExclusiveInv
  BY ExclusiveInit
<1>2. ExclusiveInv /\ NewChunkIsFree /\ [Next]_vars => ExclusiveInv'
  BY ExclusiveNext
<1>3. ExclusiveInv => LocksExclusive
  BY DEF ExclusiveInv
<1> QED BY <1>1, <1>2, <1>3, PTL DEF Spec

-----------------------------------------------------------------------------
(* A chunk changes in the hands of its owner only. *)

\* Locking and unlocking leave an unlocked chunk as it is, but for its lock.
LEMMA LocksKeep ==
  ASSUME NEW c \in Chunks, WordsOK, chunk[c].lock = "unlocked", NEW d, Lock(d) \/ Unlock(d)
  PROVE  KeptOrLocked(c)
<1>1. CASE c # d
  BY <1>1 DEF Lock, Unlock, WordsOK, KeptOrLocked
<1>2. CASE c = d
  <2>1. chunk[c] = [f \in Words |-> chunk[c][f]] /\ c \in DOMAIN chunk
    BY DEF WordsOK
  <2>2. CASE Lock(d)
    <3>1. chunk' = [chunk EXCEPT ![d].lock = "locked"]
      BY <1>2, <2>2 DEF Lock
    <3> QED BY <1>2, <2>1, <3>1 DEF KeptOrLocked
  <2>3. CASE Unlock(d)
    <3>1. chunk' = [chunk EXCEPT ![d].lock = "unlocked"]
      BY <1>2, <2>3 DEF Unlock
    <3>2. [chunk[c] EXCEPT !.lock = "unlocked"] = chunk[c]
      BY <2>1 DEF Words
    <3> QED BY <1>2, <2>1, <3>1, <3>2 DEF KeptOrLocked
  <2> QED BY <2>2, <2>3
<1> QED BY <1>1, <1>2

\* A step leaves an unlocked chunk as it is, but for its lock.
LEMMA StepKeeps ==
  ASSUME ExclusiveInv, NEW w \in Warps, Step(w), NEW c \in Chunks, chunk[c].lock = "unlocked",
         ~(pc[w] = "alloc" /\ c = allocated)
  PROVE  KeptOrLocked(c)
<1>1. WordsOK /\ Control(w) /\ ~Holds(w, c)
  BY DEF ExclusiveInv, ReleaseInv, PoolOK, WordsOK, LocksExclusive
<1>3. CASE StartOp(w)
  BY <1>3 DEF StartOp, KeptOrLocked, mem
<1>4. CASE ReturnResult(w)
  BY <1>4 DEF ReturnResult, KeptOrLocked, mem
<1>5. CASE SearchStart(w)
  BY <1>5 DEF SearchStart, KeptOrLocked, mem
<1>6. CASE SearchRead(w)
  BY <1>6 DEF SearchRead, KeptOrLocked, mem
<1>7. CASE SearchMeetZombie(w)
  BY <1>7 DEF SearchMeetZombie, KeptOrLocked, mem
<1>8. CASE TryLockPrev(w)
  BY <1>1, <1>8, LocksKeep DEF TryLockPrev
<1>9. CASE TryLockFails(w)
  BY <1>9 DEF TryLockFails, KeptOrLocked, mem
<1>10. CASE RecheckPrev(w)
  BY <1>10 DEF RecheckPrev, KeptOrLocked, mem
<1>11. CASE GiveUpUnlink(w)
  BY <1>1, <1>11, LocksKeep DEF GiveUpUnlink
<1>12. CASE SkipZombie(w)
  BY <1>12 DEF SkipZombie, KeptOrLocked, mem
<1>13. CASE UnlinkZombies(w)
  BY <1>1, <1>13
     DEF UnlinkZombies, UpdateNextVal, At, WordsOK, KeptOrLocked, Control, Inserting, Nil,
         UnlinkLabels, NextLabels, SplitLabels, MergeLabels, LevelLabels, Holds, HasEnc,
         HasNxt, HasNew, HasCur, HasPrev
<1>14. CASE UnlockPrev(w)
  BY <1>1, <1>14, LocksKeep DEF UnlockPrev
<1>15. CASE StepRight(w)
  BY <1>15 DEF StepRight, KeptOrLocked, mem
<1>16. CASE StepDown(w)
  BY <1>16 DEF StepDown, KeptOrLocked, mem
<1>17. CASE BackTrack(w)
  BY <1>17 DEF BackTrack, KeptOrLocked, mem
<1>18. CASE RestartSearch(w)
  BY <1>18 DEF RestartSearch, KeptOrLocked, mem
<1>19. CASE SearchRefuses(w)
  BY <1>19 DEF SearchRefuses, OwnSearch, KeptOrLocked, mem
<1>20. CASE SearchLeads(w)
  BY <1>20 DEF SearchLeads, OwnSearch, KeptOrLocked, mem
<1>21. CASE WalkToEnclosing(w)
  BY <1>21 DEF WalkToEnclosing, KeptOrLocked, mem
<1>22. CASE LockEnclosing(w)
  BY <1>1, <1>22, LocksKeep DEF LockEnclosing
<1>23. CASE NotEnclosing(w)
  BY <1>23 DEF NotEnclosing, KeptOrLocked, mem
<1>24. CASE RetryEnclosing(w)
  BY <1>1, <1>24, LocksKeep DEF RetryEnclosing
<1>25. CASE ReadNext(w)
  BY <1>25 DEF ReadNext, KeptOrLocked, mem
<1>26. CASE WalkToNext(w)
  BY <1>26 DEF WalkToNext, KeptOrLocked, mem
<1>27. CASE LockNext(w)
  BY <1>1, <1>27, LocksKeep DEF LockNext
<1>28. CASE CheckNext(w)
  BY <1>28 DEF CheckNext, KeptOrLocked, mem
<1>29. CASE RedirectNext(w)
  BY <1>1, <1>29
     DEF RedirectNext, UpdateNextVal, At, WordsOK, KeptOrLocked, Control, Inserting, Nil,
         UnlinkLabels, NextLabels, SplitLabels, MergeLabels, LevelLabels, Holds, HasEnc,
         HasNxt, HasNew, HasCur, HasPrev
<1>30. CASE GetNewChunk(w)
  BY <1>1, <1>30
     DEF GetNewChunk, At, WordsOK, KeptOrLocked, Control, Inserting, Nil, UnlinkLabels,
         NextLabels, SplitLabels, MergeLabels, LevelLabels, Holds, HasEnc, HasNxt, HasNew,
         HasCur, HasPrev
<1>31. CASE UnlockNext(w)
  BY ZenonT(20), <1>1, <1>31, LocksKeep DEF UnlockNext
<1>32. CASE SplitCopy(w)
  BY ZenonT(20), <1>1, <1>32
     DEF SplitCopy, At, WordsOK, KeptOrLocked, Control, Inserting, Nil, UnlinkLabels,
         NextLabels, SplitLabels, MergeLabels, LevelLabels, Holds, HasEnc, HasNxt, HasNew,
         HasCur, HasPrev
<1>33. CASE EmptyMoved(w)
  BY <1>1, <1>33
     DEF EmptyMoved, At, WordsOK, KeptOrLocked, Control, Inserting, Nil, UnlinkLabels,
         NextLabels, SplitLabels, MergeLabels, LevelLabels, Holds, HasEnc, HasNxt, HasNew,
         HasCur, HasPrev
<1>34. CASE UnlockOther(w)
  BY <1>1, <1>34, LocksKeep DEF UnlockOther
<1>35. CASE InsertPresent(w)
  BY <1>35 DEF InsertPresent, Enclosing, KeptOrLocked, mem
<1>36. CASE InsertFits(w)
  BY <1>36 DEF InsertFits, Enclosing, KeptOrLocked, mem
<1>37. CASE InsertOverflows(w)
  BY <1>37 DEF InsertOverflows, Enclosing, KeptOrLocked, mem
<1>38. CASE ShiftRight(w)
  BY <1>1, <1>38
     DEF ShiftRight, Write, Shifting, At, WordsOK, KeptOrLocked, Control, Inserting, Nil,
         UnlinkLabels, NextLabels, SplitLabels, MergeLabels, LevelLabels, Holds, HasEnc,
         HasNxt, HasNew, HasCur, HasPrev
<1>39. CASE IsLevelEmpty(w)
  BY <1>39 DEF IsLevelEmpty, KeptOrLocked, mem
<1>40. CASE IncrementNumChunks(w)
  BY <1>40 DEF IncrementNumChunks, KeptOrLocked, mem
<1>41. CASE RaiseKey(w)
  BY <1>41 DEF RaiseKey, KeptOrLocked, mem
<1>42. CASE EraseAbsent(w)
  BY SMTT(30), <1>42 DEF EraseAbsent, Enclosing, KeptOrLocked, mem
<1>43. CASE EraseInPlace(w)
  BY <1>43 DEF EraseInPlace, Enclosing, KeptOrLocked, mem
<1>44. CASE LowerMax(w)
  BY <1>1, <1>44
     DEF LowerMax, At, WordsOK, KeptOrLocked, Control, Inserting, Nil, UnlinkLabels,
         NextLabels, SplitLabels, MergeLabels, LevelLabels, Holds, HasEnc, HasNxt, HasNew,
         HasCur, HasPrev
<1>45. CASE ShiftLeft(w)
  BY <1>1, <1>45
     DEF ShiftLeft, Write, At, WordsOK, KeptOrLocked, Control, Inserting, Nil, UnlinkLabels,
         NextLabels, SplitLabels, MergeLabels, LevelLabels, Holds, HasEnc, HasNxt, HasNew,
         HasCur, HasPrev
<1>46. CASE EraseByMerge(w)
  BY <1>46 DEF EraseByMerge, Enclosing, KeptOrLocked, mem
<1>47. CASE MergeRead(w)
  BY <1>47 DEF MergeRead, KeptOrLocked, mem
<1>48. CASE UnlockNew(w)
  BY <1>1, <1>48, LocksKeep DEF UnlockNew
<1>49. CASE MergeShift(w)
  BY <1>49 DEF MergeShift, KeptOrLocked, mem
<1>50. CASE ShiftData(w)
  BY ZenonT(20), <1>1, <1>50
     DEF ShiftData, Write, At, WordsOK, KeptOrLocked, Control, Inserting, Nil, UnlinkLabels,
         NextLabels, SplitLabels, MergeLabels, LevelLabels, Holds, HasEnc, HasNxt, HasNew,
         HasCur, HasPrev
<1>51. CASE MergeCopy(w)
  BY ZenonT(20), <1>1, <1>51
     DEF MergeCopy, At, WordsOK, KeptOrLocked, Control, Inserting, Nil, UnlinkLabels,
         NextLabels, SplitLabels, MergeLabels, LevelLabels, Holds, HasEnc, HasNxt, HasNew,
         HasCur, HasPrev
<1>52. CASE MarkZombie(w)
  BY <1>1, <1>52
     DEF MarkZombie, At, WordsOK, KeptOrLocked, Control, Inserting, Nil, UnlinkLabels,
         NextLabels, SplitLabels, MergeLabels, LevelLabels, Holds, HasEnc, HasNxt, HasNew,
         HasCur, HasPrev
<1>53. CASE DecrementNumChunks(w)
  BY <1>53 DEF DecrementNumChunks, KeptOrLocked, mem
<1>54. CASE UnlockMerged(w)
  BY <1>1, <1>54, LocksKeep DEF UnlockMerged
<1>55. CASE ReadHeight(w)
  BY <1>55 DEF ReadHeight, KeptOrLocked, mem
<1>56. CASE DownSearched(w)
  BY <1>56 DEF DownSearched, KeptOrLocked, mem
<1>57. CASE DownRead(w)
  BY <1>57 DEF DownRead, NextDown, KeptOrLocked, mem
<1>58. CASE DownLock(w)
  BY SMTT(30), <1>1, <1>58, LocksKeep DEF DownLock
<1>59. CASE DownWrite(w)
  BY <1>1, <1>59
     DEF DownWrite, At, WordsOK, KeptOrLocked, Control, Inserting, Nil, UnlinkLabels,
         NextLabels, SplitLabels, MergeLabels, LevelLabels, Holds, HasEnc, HasNxt, HasNew,
         HasCur, HasPrev
<1>60. CASE DownUnlock(w)
  BY <1>1, <1>60, LocksKeep DEF DownUnlock
<1>61. CASE UnlockEnclosing(w)
  BY <1>1, <1>61, LocksKeep DEF UnlockEnclosing
<1>62. CASE UnlockBottom(w)
  BY <1>1, <1>62, LocksKeep DEF UnlockBottom
<1> QED BY Zenon, <1>3, <1>4, <1>5, <1>6, <1>7, <1>8, <1>9, <1>10, <1>11, <1>12, <1>13,
           <1>14, <1>15, <1>16, <1>17, <1>18, <1>19, <1>20, <1>21, <1>22, <1>23, <1>24,
           <1>25, <1>26, <1>27, <1>28, <1>29, <1>30, <1>31, <1>32, <1>33, <1>34, <1>35,
           <1>36, <1>37, <1>38, <1>39, <1>40, <1>41, <1>42, <1>43, <1>44, <1>45, <1>46,
           <1>47, <1>48, <1>49, <1>50, <1>51, <1>52, <1>53, <1>54, <1>55, <1>56, <1>57,
           <1>58, <1>59, <1>60, <1>61, <1>62
         DEF Step, Search, Enclose, FindNext, Split, InsertToLevel, EraseFromLevel,
             UpdateDownPtrs

\* A warp stores only to chunks that it has locked, or that are dead: what a reader or
\* the next owner finds in an unlocked chunk is what its last owner left there.
THEOREM WritesAreLocked == Spec /\ []NewChunkIsFree => StoresAreLocked
<1>1. Init => ExclusiveInv
  BY ExclusiveInit
<1>2. ExclusiveInv /\ NewChunkIsFree /\ [Next]_vars => ExclusiveInv'
  BY ExclusiveNext
<1>3. ExclusiveInv /\ [Next]_vars =>
        [\A c \in Chunks : chunk[c].lock = "unlocked" => KeptOrLocked(c) \/ c = allocated]_vars
  <2> SUFFICES ASSUME ExclusiveInv, Next, NEW c \in Chunks, chunk[c].lock = "unlocked"
               PROVE  KeptOrLocked(c) \/ c = allocated
    OBVIOUS
  <2>1. CASE NextBatch \/ Finished
    BY <2>1 DEF NextBatch, Finished, mem, vars, KeptOrLocked
  <2>2. CASE \E w \in Warps : Step(w)
    BY <2>2, StepKeeps
  <2> QED BY <2>1, <2>2 DEF Next
<1> QED BY <1>1, <1>2, <1>3, PTL DEF Spec, StoresAreLocked

-----------------------------------------------------------------------------
(* The constants, the lanes of a chunk and what the search picks of them. *)

\* What the constants are.
LEMMA ConstantsAre ==
  /\ DSize \in Nat /\ DSize >= 3 /\ MaxKey \in Nat /\ TopLevel \in Nat \ {0}
  /\ PoolSize \in Nat /\ PoolSize > TopLevel
BY ChunkAssumption

\* The highest lane of a ballot is one of it.
LEMMA HighestIsIn ==
  ASSUME NEW S \in SUBSET (0 .. DSize), S # {}
  PROVE  Highest(S) \in S /\ \A u \in S : u <= Highest(S)
<1>1. S \in SUBSET Nat /\ IsFiniteSet(S)
  <2>1. IsFiniteSet(0 .. DSize)
    BY FS_Interval, ConstantsAre
  <2>2. 0 .. DSize \in SUBSET Nat
    BY ConstantsAre
  <2>3. IsFiniteSet(S)
    BY <2>1, FS_Subset
  <2> QED BY <2>2, <2>3
<1>2. \E t \in S : \A u \in S : u <= t
  BY <1>1, LargestNatural
<1> QED BY <1>2 DEF Highest

\* The lane that tidForNextStep answers: to the right iff the maximum is below the key,
\* else a lane whose key is not above it.
LEMMA NextLane ==
  ASSUME NEW c, NEW k
  PROVE  /\ TidForNextStep(k, c) = TidNext <=> c.max < k
         /\ TidForNextStep(k, c) \in Lanes \cup {TidNext, TidNone}
         /\ TidForNextStep(k, c) \in Lanes => c.data[TidForNextStep(k, c)].k <= k
<1> DEFINE S == {i \in Lanes : c.data[i].k <= k} \cup (IF c.max < k THEN {TidNext} ELSE {})
           t == TidForNextStep(k, c)
<1>1. S \in SUBSET (0 .. DSize) /\ t = Highest(S)
  BY ConstantsAre DEF Lanes, TidNext, TidForNextStep
<1>2. CASE S = {}
  BY <1>1, <1>2, ConstantsAre DEF Highest, TidNone, TidNext, Lanes
<1>3. CASE S # {}
  <2>1. t \in S /\ \A u \in S : u <= t
    BY <1>1, <1>3, HighestIsIn
  <2>2. DSize \notin Lanes
    BY ConstantsAre DEF Lanes
  <2>3. CASE c.max < k
    <3>1. t = DSize
      BY <2>1, <2>3, ConstantsAre DEF Lanes, TidNext
    <3> QED BY <3>1, <2>2, <2>3 DEF TidNext
  <2>4. CASE ~(c.max < k)
    BY <2>1, <2>2, <2>4 DEF TidNext
  <2> QED BY <2>3, <2>4
<1> QED BY <1>2, <1>3

\* A lane that tidOfDownStep answers has a key that is not above the searched one.
LEMMA DownStep ==
  ASSUME NEW c, NEW k, TidOfDownStep(k, c) # TidNone
  PROVE  TidOfDownStep(k, c) \in Lanes /\ c.data[TidOfDownStep(k, c)].k <= k
<1> DEFINE S == {i \in Lanes : c.data[i].k <= k}
<1>1. S \in SUBSET (0 .. DSize) /\ TidOfDownStep(k, c) = Highest(S)
  BY ConstantsAre DEF Lanes, TidOfDownStep
<1>2. S # {}
  BY <1>1 DEF Highest
<1>3. Highest(S) \in S
  BY <1>1, <1>2, HighestIsIn
<1> QED BY <1>1, <1>3

\* A chunk contains a key iff a lane has it, and tidWithKey answers that lane.
LEMMA KeyLane ==
  ASSUME NEW c, NEW k
  PROVE  /\ ChunkContains(k, c) <=> HasKey(c.data, k)
         /\ HasKey(c.data, k) =>
              TidWithKey(k, c) \in Lanes /\ c.data[TidWithKey(k, c)].k = k
<1> DEFINE S == {i \in Lanes : c.data[i].k = k}
<1>1. S \in SUBSET (0 .. DSize) /\ TidWithKey(k, c) = Highest(S) /\ TidNone \notin Lanes
  BY ConstantsAre DEF Lanes, TidWithKey, TidNone
<1>2. CASE S = {}
  BY <1>1, <1>2 DEF Highest, ChunkContains, HasKey
<1>3. CASE S # {}
  <2>1. Highest(S) \in S
    BY <1>1, <1>3, HighestIsIn
  <2> QED BY <1>1, <1>3, <2>1 DEF ChunkContains, HasKey
<1> QED BY <1>2, <1>3

\* A sorted chunk is packed.
LEMMA PackedIs ==
  ASSUME NEW data \in Datas, Sorted(data)
  PROVE  /\ Occ(data) \in 0 .. DSize
         /\ \A i \in Lanes : data[i].k # PosInf <=> i < Occ(data)
<1> DEFINE Used == {i \in Lanes : data[i].k # PosInf}
           Unused == {i \in 0 .. DSize : i \in Lanes => data[i].k = PosInf}
<1>1. \E n \in Unused : \A m \in Unused : n <= m
  <2>1. Unused \in SUBSET Nat /\ DSize \in Unused
    BY ConstantsAre DEF Lanes
  <2> HIDE DEF Unused
  <2> QED BY <2>1, LeastNatural
<1>2. PICK n \in Unused : \A m \in Unused : n <= m
  BY <1>1
<1>3. n \in Nat /\ n <= DSize
  BY <1>2, ConstantsAre
<1>4. ASSUME NEW i \in Lanes PROVE data[i].k # PosInf <=> i < n
  <2>1. CASE i < n
    <3>1. i \in 0 .. DSize
      BY ConstantsAre DEF Lanes
    <3> QED BY <1>2, <1>3, <2>1, <3>1 DEF Lanes
  <2>2. CASE i = n
    BY <1>2, <2>2
  <2>3. CASE n < i
    <3>1. n \in Lanes /\ data[n].k = PosInf
      BY <1>2, <1>3, <2>3, ConstantsAre DEF Lanes
    <3>2. data[i].k \in NegInf .. PosInf
      BY DEF Datas, Entries
    <3> QED BY <3>1, <3>2, <2>3, ConstantsAre DEF Sorted, PosInf, NegInf, Lanes
  <2> QED BY <2>1, <2>2, <2>3, <1>3, ConstantsAre DEF Lanes
<1>5. Used = 0 .. n - 1
  BY <1>3, <1>4, ConstantsAre DEF Lanes
<1>6. Occ(data) = n
  BY <1>3, <1>5, NumbersBelow DEF Occ
<1> QED BY <1>3, <1>4, <1>6, ConstantsAre

\* A packed chunk has as many keys as it has.
LEMMA CountIs ==
  ASSUME NEW data, NEW n \in 0 .. DSize,
         \A i \in Lanes : data[i].k # PosInf <=> i < n
  PROVE  Occ(data) = n
<1> DEFINE Used == {i \in Lanes : data[i].k # PosInf}
<1>1. Used = 0 .. n - 1
  BY ConstantsAre DEF Lanes
<1>2. Occ(data) = Cardinality(Used)
  BY DEF Occ
<1>3. Cardinality(0 .. n - 1) = n
  BY NumbersBelow, ConstantsAre
<1> QED BY <1>1, <1>2, <1>3

\* At most all lanes are occupied.
LEMMA OccBound ==
  ASSUME NEW data
  PROVE  /\ Occ(data) \in 0 .. DSize
         /\ Occ(data) = DSize => Full(data)
         /\ (\E i \in Lanes : data[i].k # PosInf) => Occ(data) > 0
<1> DEFINE Used == {i \in Lanes : data[i].k # PosInf}
<1>1. IsFiniteSet(Lanes) /\ Cardinality(Lanes) = DSize
  BY NumbersBelow, ConstantsAre DEF Lanes
<1>2. /\ IsFiniteSet(Used) /\ Cardinality(Used) <= DSize
      /\ Cardinality(Used) = DSize => Used = Lanes
  BY <1>1, FS_Subset
<1>3. Cardinality(Used) \in Nat /\ (Cardinality(Used) = 0 => Used = {})
  <2> HIDE DEF Used
  <2> QED BY <1>2, FS_CardinalityType, FS_EmptySet
<1>4. Occ(data) = Cardinality(Used)
  BY DEF Occ
<1>5. Occ(data) \in 0 .. DSize
  BY <1>2, <1>3, <1>4, ConstantsAre
<1>6. Occ(data) = DSize => Full(data)
  BY <1>2, <1>4 DEF Full
<1>7. (\E i \in Lanes : data[i].k # PosInf) => Occ(data) > 0
  BY <1>3, <1>4, <1>5
<1> QED BY <1>5, <1>6, <1>7

\* What the lanes of a chunk's entries are.
LEMMA KeysAre ==
  ASSUME NEW data \in Datas, NEW i \in Lanes
  PROVE  /\ data[i] \in Entries /\ data[i].k \in Int /\ data[i].v \in Int
         /\ NegInf <= data[i].k /\ data[i].k <= PosInf
BY ConstantsAre DEF Datas, Entries, NegInf, PosInf

\* The empty entry.
LEMMA EmptyIs == EmptyEntry \in Entries /\ EmptyEntry.k = PosInf
BY ConstantsAre DEF EmptyEntry, Entries, NegInf, PosInf, Nil

\* Where a key goes.
LEMMA IdxIs ==
  ASSUME NEW data \in Datas, NEW k \in Int
  PROVE  LET idx == InsertionIdx(data, k)
         IN  /\ idx \in 0 .. DSize
             /\ \A i \in Lanes : data[i].k < k => i < idx
             /\ idx > 0 => idx - 1 \in Lanes /\ data[idx - 1].k < k
<1> DEFINE S == {i \in Lanes : data[i].k < k}
           idx == InsertionIdx(data, k)
<1>1. idx = IF S = {} THEN 0 ELSE Highest(S) + 1
  BY DEF InsertionIdx
<1>2. CASE S = {}
  BY <1>1, <1>2, ConstantsAre
<1>3. CASE S # {}
  <2>1. S \in SUBSET (0 .. DSize)
    BY ConstantsAre DEF Lanes
  <2>2. Highest(S) \in S /\ \A u \in S : u <= Highest(S)
    BY <1>3, <2>1, HighestIsIn
  <2> QED BY <1>1, <1>3, <2>2, ConstantsAre DEF Lanes
<1> QED BY <1>2, <1>3

\* Room for one more entry: insertInPlace and the shift that carries it out.
LEMMA InsertionIsFine ==
  ASSUME NEW data \in Datas, NEW lo \in Int, NEW hi \in Int, Fine(data, lo, hi),
         NEW e \in Entries, e.k # PosInf, lo < e.k, e.k <= hi,
         ~HasKey(data, e.k), Occ(data) < DSize
  PROVE  LET idx == InsertionIdx(data, e.k)
             new == Shifted(data, idx, e)
         IN  /\ new \in Datas /\ Fine(new, lo, hi)
             /\ idx \in 0 .. Occ(data) /\ Occ(data) \in Lanes
             /\ \A j \in Lanes : j < idx \/ j > Occ(data) => new[j].k = data[j].k
             /\ \A l \in Levels, g \in Ghosts : DataOK(g, data, l) /\ EntryOK(g, e, l)
                                                  => DataOK(g, new, l)
<1> DEFINE idx == InsertionIdx(data, e.k)
           new == Shifted(data, idx, e)
           n == Occ(data)
<1>1. n \in Lanes /\ \A i \in Lanes : data[i].k # PosInf <=> i < n
  BY PackedIs, ConstantsAre DEF Fine, Lanes
<1>2. e.k \in Int /\ NegInf <= e.k /\ e.k < PosInf
  BY ConstantsAre DEF Entries, NegInf, PosInf
<1>3. /\ idx \in 0 .. DSize
      /\ \A i \in Lanes : data[i].k < e.k => i < idx
      /\ idx > 0 => idx - 1 \in Lanes /\ data[idx - 1].k < e.k
  BY <1>2, IdxIs
<1> HIDE DEF n, idx
<1>4. idx \in 0 .. n
  <2>1. CASE idx > 0
    <3>1. data[idx - 1].k # PosInf
      BY <1>2, <1>3, <2>1, KeysAre
    <3>2. idx - 1 < n
      BY <1>1, <1>3, <2>1, <3>1
    <3> QED BY <1>1, <1>3, <2>1, <3>2, ConstantsAre DEF Lanes
  <2> QED BY <1>1, <1>3, <2>1, ConstantsAre DEF Lanes
<1> Lanes \in SUBSET Nat /\ n \in Nat /\ idx \in Nat
  BY <1>1, <1>4, ConstantsAre DEF Lanes
<1>5. \A i \in Lanes : new[i] = IF i < idx THEN data[i] ELSE IF i = idx THEN e ELSE data[i - 1]
  BY DEF Shifted
<1>6. new \in Datas
  <2>1. \A i \in Lanes : ~(i < idx) /\ i # idx => i - 1 \in Lanes
    BY <1>4, ConstantsAre DEF Lanes
  <2>2. new = [i \in Lanes |-> new[i]]
    BY DEF Shifted
  <2>3. \A i \in Lanes : new[i] \in Entries
    BY <1>5, <2>1, KeysAre
  <2> HIDE DEF new
  <2> QED BY <2>2, <2>3 DEF Datas
<1> HIDE DEF new
<1>7. \A i \in Lanes : i >= idx => data[i].k > e.k
  <2> TAKE i \in Lanes
  <2>1. data[i].k # e.k
    BY DEF HasKey
  <2> QED BY <1>2, <1>3, <2>1, KeysAre, <1>4 DEF Lanes
<1>8. \A i \in Lanes : i < idx => data[i].k < e.k
  <2> SUFFICES ASSUME NEW i \in Lanes, i < idx PROVE data[i].k < e.k
    OBVIOUS
  <2>1. idx > 0 /\ idx - 1 \in Lanes /\ data[idx - 1].k < e.k
    BY <1>3, <1>4 DEF Lanes
  <2>2. CASE i = idx - 1
    BY <2>1, <2>2
  <2>3. CASE i < idx - 1
    <3>1. data[idx - 1].k # PosInf
      BY <1>2, <2>1, KeysAre
    <3>2. data[i].k < data[idx - 1].k
      BY <2>1, <2>3, <3>1 DEF Fine, Sorted
    <3> QED BY <2>1, <3>2, KeysAre, <1>2
  <2> QED BY <2>2, <2>3, <1>4 DEF Lanes
<1>9. Sorted(new)
  <2> SUFFICES ASSUME NEW i \in Lanes, NEW j \in Lanes, i < j, new[j].k # PosInf
               PROVE  new[i].k < new[j].k
    BY DEF Sorted
  <2> i \in Nat /\ j \in Nat
    OBVIOUS
  <2>1. CASE j < idx
    <3>1. new[i] = data[i] /\ new[j] = data[j]
      BY <2>1, <1>5
    <3> QED BY <3>1 DEF Fine, Sorted
  <2>2. CASE j = idx
    BY <2>2, <1>5, <1>8
  <2>3. CASE j > idx
    <3>1. new[j] = data[j - 1] /\ j - 1 \in Lanes /\ j - 1 >= idx
      <4>1. j - 1 \in Lanes /\ j - 1 >= idx
        BY <2>3, <1>4, ConstantsAre DEF Lanes
      <4> QED BY <4>1, <2>3, <1>5
    <3>2. CASE i < idx
      BY <3>1, <3>2, <1>5, <1>8, <1>7, KeysAre, <1>2
    <3>3. CASE i = idx
      BY <3>1, <3>3, <1>5, <1>7, KeysAre, <1>2
    <3>4. CASE i > idx
      <4>1. new[i] = data[i - 1] /\ i - 1 \in Lanes
        <5>1. i - 1 \in Lanes
          BY <3>4, <1>4, ConstantsAre DEF Lanes
        <5> QED BY <5>1, <3>4, <1>5
      <4>2. i - 1 < j - 1
        OBVIOUS
      <4> QED BY <3>1, <4>1, <4>2 DEF Fine, Sorted
    <3> QED BY <3>2, <3>3, <3>4
  <2> QED BY <2>1, <2>2, <2>3
<1>10. \A i \in Lanes : new[i] = e \/ \E j \in Lanes : new[i] = data[j]
  <2> TAKE i \in Lanes
  <2>1. ~(i < idx) /\ i # idx => i - 1 \in Lanes
    BY <1>4, ConstantsAre DEF Lanes
  <2>2. CASE i < idx \/ i = idx
    BY <2>2, <1>5
  <2>3. CASE ~(i < idx) /\ i # idx
    BY <2>1, <2>3, <1>5
  <2> QED BY <2>2, <2>3
<1>11. Within(new, lo, hi)
  BY <1>10 DEF Fine, Within
<1>12. \A j \in Lanes : j < idx \/ j > n => new[j].k = data[j].k
  <2> SUFFICES ASSUME NEW j \in Lanes, j > n PROVE new[j].k = data[j].k
    BY <1>5
  <2>1. new[j] = data[j - 1] /\ j - 1 \in Lanes /\ ~(j - 1 < n) /\ ~(j < n)
    <3>1. j - 1 \in Lanes
      BY <1>4, <1>1, ConstantsAre DEF Lanes
    <3> QED BY <3>1, <1>4, <1>5
  <2> QED BY <2>1, <1>1
<1>13. \A l \in Levels, g \in Ghosts : DataOK(g, data, l) /\ EntryOK(g, e, l)
                                         => DataOK(g, new, l)
  BY <1>6, <1>10 DEF DataOK
<1> QED BY <1>1, <1>4, <1>6, <1>9, <1>11, <1>12, <1>13 DEF Fine, n, idx, new

\* Two chunks' keys of which one is as full as the other.
LEMMA SameKeys ==
  ASSUME NEW a, NEW b, \A i \in Lanes : a[i].k = b[i].k, NEW lo, NEW hi
  PROVE  /\ Fine(a, lo, hi) <=> Fine(b, lo, hi)
         /\ Occ(a) = Occ(b)
<1>1. Fine(a, lo, hi) <=> Fine(b, lo, hi)
  BY DEF Fine, Sorted, Within
<1>2. {i \in Lanes : a[i].k # PosInf} = {i \in Lanes : b[i].k # PosInf}
  OBVIOUS
<1> QED BY <1>1, <1>2 DEF Occ

\* A lower bound may sink.
LEMMA FineBelow ==
  ASSUME NEW data \in Datas, NEW lo \in Int, NEW lo2 \in Int, lo2 <= lo, NEW hi \in Int,
         Fine(data, lo, hi)
  PROVE  Fine(data, lo2, hi)
BY KeysAre DEF Fine, Within

\* The lanes are the numbers below DSize.
LEMMA LanesAre == Lanes \in SUBSET Nat /\ \A i \in Int : i \in Lanes <=> 0 <= i /\ i < DSize
BY ConstantsAre DEF Lanes

\* What the words of a chunk are.
LEMMA ChunkIs ==
  ASSUME NEW c \in ChunkType
  PROVE  /\ c.data \in Datas /\ c.max \in NegInf .. PosInf /\ c.max \in Int
         /\ c.next \in Chunks \cup {Nil} /\ c.lock \in LockStates
BY ConstantsAre DEF ChunkType, Datas, NegInf, PosInf

\* What an erase in place leaves: the entries left of the deleted one, and the registers
\* that hold the entries right of it.
LEMMA ErasureIsFine ==
  ASSUME NEW data \in Datas, NEW lo \in Int, NEW hi \in Int, Fine(data, lo, hi),
         NEW del \in Lanes, data[del].k # PosInf,
         NEW reg,
         reg = [i \in Lanes |-> IF i < Occ(data) - 1 THEN data[i + 1] ELSE EmptyEntry],
         NEW left, left = [j \in Lanes |-> IF j < del THEN data[j] ELSE reg[j]]
  PROVE  /\ Occ(data) - 1 \in Lanes /\ del <= Occ(data) - 1
         /\ reg \in Datas
         /\ \A j \in Lanes : j > Occ(data) - 1 => data[j].k = PosInf /\ reg[j].k = PosInf
         /\ Fine(left, lo, hi)
         /\ del = Occ(data) - 1 /\ del > 0 =>
              /\ lo < data[del - 1].k /\ data[del - 1].k < hi
              /\ data[del - 1].k \in NegInf .. MaxKey
              /\ Fine(left, lo, data[del - 1].k)
         /\ \A l \in Levels, g \in Ghosts : DataOK(g, data, l) => DataOK(g, reg, l)
<1> DEFINE n == Occ(data)
<1>1. n \in 0 .. DSize /\ \A i \in Lanes : data[i].k # PosInf <=> i < n
  BY PackedIs DEF Fine
<1> HIDE DEF n
<1>2. n - 1 \in Lanes /\ del <= n - 1 /\ n \in Nat /\ del \in Nat
  BY <1>1, LanesAre, ConstantsAre
<1>3. \A i \in Lanes : i < n - 1 => i + 1 \in Lanes
  BY <1>1, <1>2, LanesAre, ConstantsAre
<1>4. /\ \A i \in Lanes : i < n - 1 => reg[i] = data[i + 1]
      /\ \A i \in Lanes : ~(i < n - 1) => reg[i] = EmptyEntry
  BY DEF n
<1>5. reg \in Datas
  <2>1. \A i \in Lanes : reg[i] \in Entries
    BY <1>3, <1>4, KeysAre, EmptyIs
  <2>2. reg = [i \in Lanes |-> reg[i]]
    OBVIOUS
  <2> QED BY <2>1, <2>2 DEF Datas
<1>6. \A j \in Lanes : j > n - 1 => data[j].k = PosInf /\ reg[j].k = PosInf
  <2> SUFFICES ASSUME NEW j \in Lanes, j > n - 1
               PROVE  data[j].k = PosInf /\ reg[j].k = PosInf
    OBVIOUS
  <2>1. ~(j < n) /\ ~(j < n - 1)
    BY <1>2, LanesAre
  <2> QED BY <2>1, <1>1, <1>4, EmptyIs
<1>7. /\ \A j \in Lanes : j < del => left[j] = data[j]
      /\ \A j \in Lanes : ~(j < del) => left[j] = reg[j]
  OBVIOUS
<1>8. \A j \in Lanes : left[j].k # PosInf =>
        /\ j < n - 1
        /\ \E i \in Lanes : left[j] = data[i] /\ i >= j /\ i <= j + 1 /\ (j >= del => i = j + 1)
                            /\ (j < del => i = j)
  <2> SUFFICES ASSUME NEW j \in Lanes, left[j].k # PosInf
               PROVE  /\ j < n - 1
                      /\ \E i \in Lanes : left[j] = data[i] /\ i >= j /\ i <= j + 1
                            /\ (j >= del => i = j + 1) /\ (j < del => i = j)
    OBVIOUS
  <2> j \in Nat
    BY LanesAre
  <2>1. CASE j < del
    BY <2>1, <1>7, <1>2
  <2>2. CASE ~(j < del)
    <3>1. left[j] = reg[j] /\ j < n - 1
      BY <2>2, <1>7, <1>4, EmptyIs
    <3>2. left[j] = data[j + 1] /\ j + 1 \in Lanes
      BY <3>1, <1>3, <1>4
    <3> QED BY <2>2, <3>1, <3>2, <1>2
  <2> QED BY <2>1, <2>2
<1>9. Sorted(left)
  <2> SUFFICES ASSUME NEW i \in Lanes, NEW j \in Lanes, i < j, left[j].k # PosInf
               PROVE  left[i].k < left[j].k
    BY DEF Sorted
  <2> i \in Nat /\ j \in Nat
    BY LanesAre
  <2>1. PICK y \in Lanes : left[j] = data[y] /\ y >= j /\ (j >= del => y = j + 1)
    BY <1>8
  <2>2. j < n - 1
    BY <1>8
  <2>3. PICK x \in Lanes : left[i] = data[x] /\ x < y
    <3>1. CASE i < del
      <4>1. left[i] = data[i] /\ i < y
        BY <3>1, <1>7, <2>1, LanesAre
      <4> QED BY <4>1
    <3>2. CASE ~(i < del)
      <4>1. left[i] = data[i + 1] /\ i + 1 \in Lanes
        BY <3>2, <1>7, <1>4, <1>3, <2>2, <1>2
      <4>2. i + 1 < y
        BY <3>2, <2>1, <1>2, LanesAre
      <4> QED BY <4>1, <4>2
    <3> QED BY <3>1, <3>2
  <2> QED BY <2>1, <2>3 DEF Fine, Sorted
<1>10. Within(left, lo, hi)
  BY <1>8 DEF Within, Fine
<1>11. ASSUME del = n - 1, del > 0
       PROVE  /\ lo < data[del - 1].k /\ data[del - 1].k < hi
              /\ data[del - 1].k \in NegInf .. MaxKey
              /\ Within(left, lo, data[del - 1].k)
  <2>1. del - 1 \in Lanes
    BY <1>11, <1>2, LanesAre, ConstantsAre
  <2>2. del - 1 < n /\ del - 1 < del
    BY <1>11, <1>2
  <2>3. data[del - 1].k # PosInf /\ data[del - 1].k < data[del].k
    BY <2>1, <2>2, <1>1 DEF Fine, Sorted
  <2>4. lo < data[del - 1].k /\ data[del].k <= hi
    BY <2>1, <2>3 DEF Fine, Within
  <2>5. data[del - 1].k \in NegInf .. MaxKey
    BY <2>1, <2>3, KeysAre, ConstantsAre DEF NegInf, PosInf
  <2>6. ASSUME NEW j \in Lanes, left[j].k # PosInf
        PROVE  lo < left[j].k /\ left[j].k <= data[del - 1].k
    <3>1. j < del /\ left[j] = data[j] /\ j \in Nat
      BY <2>6, <1>8, <1>7, <1>11, LanesAre
    <3>2. j = del - 1 \/ j < del - 1
      BY <3>1, <1>2
    <3>3. lo < left[j].k
      BY <2>6, <3>1 DEF Fine, Within
    <3> QED BY <2>1, <2>3, <3>1, <3>2, <3>3, <2>5, KeysAre DEF Fine, Sorted
  <2> QED BY <2>1, <2>3, <2>4, <2>5, <2>6, KeysAre DEF Within
<1>12. \A l \in Levels, g \in Ghosts : DataOK(g, data, l) => DataOK(g, reg, l)
  <2> SUFFICES ASSUME NEW l \in Levels, NEW g \in Ghosts, DataOK(g, data, l), NEW i \in Lanes
               PROVE  EntryOK(g, reg[i], l)
    BY <1>5 DEF DataOK
  <2>1. CASE i < n - 1
    BY <2>1, <1>3, <1>4 DEF DataOK
  <2>2. CASE ~(i < n - 1)
    BY <2>2, <1>4, EmptyIs DEF EntryOK
  <2> QED BY <2>1, <2>2
<1> QED BY <1>2, <1>5, <1>6, <1>9, <1>10, <1>11, <1>12 DEF Fine, n

-----------------------------------------------------------------------------
(* What splits, shifts and removals make of a chunk's entries. *)

\* What a split makes of a chunk: the half of the entries that stays, and the half that
\* goes to the new chunk.
LEMMA SplitIsFine ==
  ASSUME NEW c \in ChunkType, NEW lo \in Int, Fine(c.data, lo, c.max), Occ(c.data) >= 3
  PROVE  /\ lo < Threshold(c) /\ Threshold(c) < c.max /\ Threshold(c) \in NegInf .. MaxKey
         /\ \A x : SplitOff(c, FreshChunk(x, "locked")).data = MovedData(c.data)
         /\ MovedData(c.data) \in Datas
         /\ Fine(MovedData(c.data), Threshold(c), c.max)
         /\ Occ(MovedData(c.data)) = Occ(c.data) - First(c.data)
         /\ Cardinality(MovedLanes(c)) = Occ(c.data) - First(c.data)
         /\ Emptied(c) \in Datas
         /\ Fine(Emptied(c), lo, Threshold(c))
         /\ Occ(Emptied(c)) = First(c.data)
         /\ First(c.data) \in Lanes /\ First(c.data) < Occ(c.data)
         /\ Threshold(c) < c.data[First(c.data)].k
         /\ \A l \in Levels, g \in Ghosts : DataOK(g, c.data, l) =>
              DataOK(g, MovedData(c.data), l) /\ DataOK(g, Emptied(c), l)
<1> DEFINE n == Occ(c.data)
           h == n \div 2
           t == Threshold(c)
           f == First(c.data)
           moved == MovedData(c.data)
           kept == Emptied(c)
<1>1. c.data \in Datas /\ c.max \in Int /\ Sorted(c.data) /\ Within(c.data, lo, c.max)
  BY ChunkIs DEF Fine
<1>2. n \in 0 .. DSize /\ \A i \in Lanes : c.data[i].k # PosInf <=> i < n
  BY <1>1, PackedIs
<1>3. OccupiedLanes(c) = {i \in Lanes : i < n}
  BY <1>2 DEF OccupiedLanes
<1>4. n = OccupiedSlots(c) /\ t = c.data[h].k /\ f = h + 1
  BY DEF Occ, OccupiedSlots, OccupiedLanes, Threshold, First
<1>5. moved = [i \in Lanes |-> IF i + f < n THEN c.data[i + f] ELSE EmptyEntry]
  BY DEF MovedData
<1>6. kept = [i \in Lanes |-> IF i \in MovedLanes(c) THEN EmptyEntry ELSE c.data[i]]
  BY DEF Emptied
<1>7. \A x : SplitOff(c, FreshChunk(x, "locked")).data =
               [i \in Lanes |-> IF i + f \in MovedLanes(c) THEN c.data[i + f]
                                ELSE EmptyEntry]
  BY <1>4 DEF SplitOff, FreshChunk
<1>8. n \in Nat /\ n >= 3 /\ n <= DSize
  BY <1>2, ConstantsAre
<1> HIDE DEF n
<1>9. h \in Nat /\ 1 <= h /\ h + 1 < n
  BY <1>8
<1> HIDE DEF h, t, f, moved, kept
<1>10. f \in Nat /\ 2 <= f /\ f < n /\ f <= DSize
  BY <1>4, <1>8, <1>9, ConstantsAre
<1>11. h \in Lanes /\ f \in Lanes /\ h < f /\ h < n
  BY <1>4, <1>8, <1>9, <1>10, LanesAre, ConstantsAre
<1>12. t \in Int /\ t \in NegInf .. MaxKey /\ lo < t /\ t < c.data[f].k /\ c.data[f].k <= c.max
  <2>1. c.data[h].k # PosInf /\ c.data[f].k # PosInf
    BY <1>2, <1>10, <1>11
  <2>2. c.data[h].k < c.data[f].k
    BY <1>1, <1>11, <2>1 DEF Sorted
  <2>3. lo < c.data[h].k /\ c.data[f].k <= c.max
    BY <1>1, <1>11, <2>1 DEF Within
  <2> QED BY <1>1, <1>4, <1>11, <2>1, <2>2, <2>3, KeysAre, ConstantsAre DEF NegInf, PosInf
<1>13. \A i \in Lanes : i \in MovedLanes(c) <=> f <= i /\ i < n
  <2> TAKE i \in Lanes
  <2> i \in Nat
    BY LanesAre
  <2>1. i \in MovedLanes(c) <=> i < n /\ c.data[i].k > t
    BY <1>3 DEF MovedLanes, t
  <2>2. CASE i >= n
    BY <2>1, <2>2, <1>8
  <2>3. CASE i < n /\ i > h
    <3>1. c.data[h].k < c.data[i].k
      BY <1>1, <1>2, <1>11, <2>3 DEF Sorted
    <3> QED BY <2>1, <2>3, <3>1, <1>1, <1>4, <1>9, <1>11, KeysAre
  <2>4. CASE i < n /\ i = h
    BY <2>1, <2>4, <1>4, <1>9, <1>12
  <2>5. CASE i < n /\ i < h
    <3>1. c.data[i].k < c.data[h].k
      BY <1>1, <1>2, <1>11, <2>5 DEF Sorted
    <3> QED BY <2>1, <2>5, <3>1, <1>1, <1>4, <1>9, <1>11, KeysAre
  <2> QED BY <2>2, <2>3, <2>4, <2>5, <1>8, <1>9
<1>14. \A x : SplitOff(c, FreshChunk(x, "locked")).data = moved
  <2>1. MovedLanes(c) \subseteq Lanes
    BY DEF MovedLanes, OccupiedLanes
  <2>2. ASSUME NEW i \in Lanes PROVE i + f \in MovedLanes(c) <=> i + f < n
    <3>1. i \in Nat /\ f <= i + f
      BY LanesAre, <1>10
    <3>2. i + f < n => i + f \in Lanes
      BY <3>1, <1>8, <1>10, LanesAre, ConstantsAre
    <3>3. i + f \in Lanes => (i + f \in MovedLanes(c) <=> i + f < n)
      BY <1>13, <3>1
    <3> QED BY <2>1, <3>2, <3>3
  <2> QED BY <1>5, <1>7, <2>2
<1>15. \A i \in Lanes : i + f < n => i + f \in Lanes
  BY <1>8, <1>10, LanesAre, ConstantsAre
<1>16. /\ \A i \in Lanes : i + f < n => moved[i] = c.data[i + f]
       /\ \A i \in Lanes : ~(i + f < n) => moved[i] = EmptyEntry
  BY <1>5
<1>17. moved \in Datas
  <2>1. \A i \in Lanes : moved[i] \in Entries
    BY <1>1, <1>15, <1>16, KeysAre, EmptyIs
  <2>2. moved = [i \in Lanes |-> moved[i]]
    BY <1>5
  <2> QED BY <2>1, <2>2 DEF Datas
<1>18. \A i \in Lanes : moved[i].k # PosInf <=> i + f < n
  BY <1>2, <1>15, <1>16, EmptyIs
<1>19. Fine(moved, t, c.max)
  <2>1. Sorted(moved)
    <3> SUFFICES ASSUME NEW i \in Lanes, NEW j \in Lanes, i < j, moved[j].k # PosInf
                 PROVE  moved[i].k < moved[j].k
      BY DEF Sorted
    <3>1. i \in Nat /\ j \in Nat /\ j + f < n /\ i + f < n /\ i + f < j + f
      BY <1>10, <1>18, <1>8, LanesAre
    <3>2. moved[i] = c.data[i + f] /\ moved[j] = c.data[j + f]
      BY <3>1, <1>16
    <3> QED BY <1>1, <1>15, <3>1, <3>2 DEF Sorted
  <2>2. ASSUME NEW i \in Lanes, moved[i].k # PosInf
        PROVE  t < moved[i].k /\ moved[i].k <= c.max
    <3>1. i + f < n /\ moved[i] = c.data[i + f] /\ i + f \in Lanes
      BY <2>2, <1>18, <1>16, <1>15
    <3>2. c.data[i + f].k # PosInf /\ i + f \in MovedLanes(c)
      BY <3>1, <1>2, <1>13, <1>10, LanesAre
    <3> QED BY <3>1, <3>2, <1>1 DEF Within, MovedLanes, t
  <2> QED BY <2>1, <2>2 DEF Fine, Within
<1>20. Occ(moved) = n - f
  <2>1. n - f \in 0 .. DSize
    BY <1>8, <1>10, ConstantsAre
  <2>2. \A i \in Lanes : moved[i].k # PosInf <=> i < n - f
    BY <1>18, <1>8, <1>10, LanesAre
  <2> QED BY <2>1, <2>2, CountIs
<1>21. Cardinality(MovedLanes(c)) = n - f
  <2>1. MovedLanes(c) = f .. n - 1
    <3>1. MovedLanes(c) \subseteq Lanes
      BY DEF MovedLanes, OccupiedLanes
    <3>2. f .. n - 1 \subseteq Lanes
      BY <1>8, <1>10, LanesAre, ConstantsAre
    <3>3. \A i \in Lanes : i \in f .. n - 1 <=> f <= i /\ i < n
      BY <1>8, <1>10, LanesAre
    <3> QED BY <3>1, <3>2, <3>3, <1>13
  <2>2. f \in Int /\ n - 1 \in Int /\ ~(f > n - 1) /\ (n - 1) - f + 1 = n - f
    BY <1>8, <1>10
  <2> QED BY <2>1, <2>2, FS_Interval
<1>22. /\ \A i \in Lanes : f <= i => kept[i].k = PosInf
       /\ \A i \in Lanes : i < f => kept[i] = c.data[i] /\ kept[i].k # PosInf
  <2>1. ASSUME NEW i \in Lanes, f <= i PROVE kept[i].k = PosInf
    <3>1. i \in MovedLanes(c) \/ ~(i < n)
      BY <2>1, <1>13
    <3> QED BY <3>1, <1>6, <1>2, EmptyIs
  <2>2. ASSUME NEW i \in Lanes, i < f PROVE kept[i] = c.data[i] /\ kept[i].k # PosInf
    <3>1. i \notin MovedLanes(c) /\ i < n
      BY <2>2, <1>13, <1>10, <1>8, LanesAre
    <3> QED BY <3>1, <1>6, <1>2
  <2> QED BY <2>1, <2>2
<1>23. kept \in Datas
  <2>1. \A i \in Lanes : kept[i] \in Entries
    BY <1>1, <1>6, KeysAre, EmptyIs
  <2>2. kept = [i \in Lanes |-> kept[i]]
    BY <1>6
  <2> QED BY <2>1, <2>2 DEF Datas
<1>24. Fine(kept, lo, t)
  <2>1. Sorted(kept)
    <3> SUFFICES ASSUME NEW i \in Lanes, NEW j \in Lanes, i < j, kept[j].k # PosInf
                 PROVE  kept[i].k < kept[j].k
      BY DEF Sorted
    <3>1. i < f /\ j < f
      BY <1>22, <1>10, LanesAre
    <3> QED BY <1>1, <1>22, <3>1 DEF Sorted
  <2>2. ASSUME NEW i \in Lanes, kept[i].k # PosInf
        PROVE  lo < kept[i].k /\ kept[i].k <= t
    <3>1. i < f /\ kept[i] = c.data[i] /\ i \in Nat
      BY <2>2, <1>22, <1>10, LanesAre
    <3>2. i \notin MovedLanes(c) /\ i < n
      BY <3>1, <1>13, <1>10, <1>8
    <3>3. ~(c.data[i].k > t)
      BY <3>2, <1>3 DEF MovedLanes, t
    <3> QED BY <1>1, <1>12, <2>2, <3>1, <3>3, KeysAre DEF Within
  <2> QED BY <2>1, <2>2 DEF Fine, Within
<1>25. Occ(kept) = f
  <2>1. f \in 0 .. DSize
    BY <1>10
  <2>2. \A i \in Lanes : kept[i].k # PosInf <=> i < f
    BY <1>22, <1>10, LanesAre
  <2> QED BY <2>1, <2>2, CountIs
<1>26. ASSUME NEW l \in Levels, NEW g \in Ghosts, DataOK(g, c.data, l)
       PROVE  DataOK(g, moved, l) /\ DataOK(g, kept, l)
  <2>1. \A i \in Lanes : EntryOK(g, moved[i], l)
    BY <1>26, <1>15, <1>16, EmptyIs DEF EntryOK, DataOK
  <2>2. \A i \in Lanes : EntryOK(g, kept[i], l)
    BY <1>26, <1>6, EmptyIs DEF EntryOK, DataOK
  <2> QED BY <2>1, <2>2, <1>17, <1>23 DEF DataOK
<1>27. t < c.max
  BY <1>1, <1>11, <1>12, KeysAre
<1> QED
  BY <1>11, <1>10, <1>12, <1>14, <1>17, <1>19, <1>20, <1>21, <1>23, <1>24, <1>25, <1>26, <1>27
  DEF n, t, f, moved, kept

\* What a merge makes of the next chunk, whose entries have been moved out of the way.
LEMMA MergeIsFine ==
  ASSUME NEW c \in ChunkType, NEW n \in ChunkType, NEW reg \in Datas,
         NEW lo \in Int, NEW mid \in Int, Fine(c.data, lo, mid),
         NEW lo2 \in Int, mid <= lo2, mid <= n.max, Fine(reg, lo2, n.max),
         NEW del \in Lanes, c.data[del].k # PosInf,
         NEW s, s = Occ(c.data) - 1, Occ(reg) + s <= DSize,
         \A j \in 0 .. Occ(reg) - 1 : n.data[j + s].k = reg[j].k,
         \A j \in Lanes : Occ(reg) + s <= j => n.data[j].k = PosInf
  PROVE  /\ CopiedTo(c, del, n) \in Datas
         /\ Fine(CopiedTo(c, del, n), lo, n.max)
         /\ \A l \in Levels, g \in Ghosts : DataOK(g, c.data, l) /\ DataOK(g, n.data, l)
                                              => DataOK(g, CopiedTo(c, del, n), l)
<1> DEFINE m == Occ(c.data)
           q == Occ(reg)
           new == CopiedTo(c, del, n)
<1>1. /\ c.data \in Datas /\ n.data \in Datas /\ n.max \in Int /\ n.max <= PosInf
      /\ Sorted(c.data) /\ Within(c.data, lo, mid)
      /\ Sorted(reg) /\ Within(reg, lo2, n.max)
  BY ChunkIs, ConstantsAre DEF Fine, NegInf, PosInf
<1>2. /\ m \in 0 .. DSize /\ \A i \in Lanes : c.data[i].k # PosInf <=> i < m
      /\ q \in 0 .. DSize /\ \A i \in Lanes : reg[i].k # PosInf <=> i < q
  BY <1>1, PackedIs
<1>3. OccupiedLanes(c) = {i \in Lanes : i < m}
  BY <1>2 DEF OccupiedLanes
<1> HIDE DEF m, q
<1>4. s = m - 1 /\ s \in Nat /\ q \in Nat /\ m \in Nat /\ del \in Nat /\ del <= s /\ q + s <= DSize
  BY <1>2, LanesAre, ConstantsAre DEF m, q
<1>5. \A i \in Lanes : /\ i < del => new[i] = c.data[i]
                       /\ i >= del /\ i < s => i + 1 \in Lanes /\ new[i] = c.data[i + 1]
                       /\ i >= s => new[i] = n.data[i]
  <2> TAKE i \in Lanes
  <2>1. i \in Nat /\ (i + 1 \in Lanes <=> i + 1 < DSize)
    BY LanesAre
  <2>2. i \in OccupiedLanes(c) <=> i < m
    BY <1>3
  <2>3. i + 1 \in OccupiedLanes(c) <=> i + 1 < m
    BY <1>3, <1>4, <1>2, <2>1, ConstantsAre
  <2>4. i + 1 < m => i + 1 \in Lanes
    BY <1>3, <1>4, <1>2, <2>1, ConstantsAre
  <2>5. new[i] = IF i < del /\ i \in OccupiedLanes(c) THEN c.data[i]
                 ELSE IF i >= del /\ i + 1 \in OccupiedLanes(c) THEN c.data[i + 1]
                 ELSE n.data[i]
    BY DEF CopiedTo
  <2>6. i < s <=> i + 1 < m
    BY <1>4, <2>1
  <2>7. i < del => i < m
    BY <1>4, <2>1
  <2>8. i >= s => ~(i < del)
    BY <1>4, <2>1
  <2>9. i < del <=> ~(i >= del)
    BY <1>4, <2>1
  <2>10. i < s <=> ~(i >= s)
    BY <1>4, <2>1
  <2> HIDE DEF new
  <2> QED BY <2>2, <2>3, <2>4, <2>5, <2>6, <2>7, <2>8, <2>9, <2>10
<1>6. new \in Datas
  <2>1. ASSUME NEW i \in Lanes PROVE new[i] \in Entries
    <3>1. i < del \/ (i >= del /\ i < s) \/ i >= s
      BY <1>4, LanesAre
    <3> HIDE DEF new
    <3> QED BY <3>1, <1>1, <1>5, KeysAre
  <2>2. new = [i \in Lanes |-> new[i]]
    BY DEF CopiedTo
  <2> HIDE DEF new
  <2> QED BY <2>1, <2>2 DEF Datas
<1> HIDE DEF new
\* The left part has keys of c, the right part keys of reg.
<1>7. ASSUME NEW i \in Lanes, i < s
      PROVE  \E x \in Lanes : new[i] = c.data[x] /\ c.data[x].k # PosInf
                /\ (i < del => x = i) /\ (i >= del => x = i + 1)
  <2>0. i \in Nat
    BY LanesAre
  <2>1. CASE i < del
    BY <2>1, <1>4, <1>2, <1>5, <1>7, <2>0
  <2>2. CASE i >= del
    <3>1. i + 1 \in Lanes /\ new[i] = c.data[i + 1] /\ i + 1 < m
      BY <2>2, <1>4, <1>5, <1>7, <2>0
    <3> QED BY <2>2, <3>1, <1>2, <1>4, <2>0
  <2> QED BY <2>1, <2>2, <2>0, <1>4
<1>8. ASSUME NEW i \in Lanes, i >= s, new[i].k # PosInf
      PROVE  i - s \in Lanes /\ i - s < q /\ new[i].k = reg[i - s].k
  <2>0. i \in Nat /\ i - s \in Nat
    <3>1. i \in Nat
      BY LanesAre
    <3> QED BY <3>1, <1>4, <1>8
  <2>1. new[i] = n.data[i]
    BY <1>5, <1>8
  <2>2. ~(q + s <= i)
    BY <1>8, <2>1 DEF q
  <2>3. i - s \in 0 .. q - 1 /\ (i - s) + s = i
    BY <2>0, <2>2, <1>4
  <2>4. n.data[(i - s) + s].k = reg[i - s].k
    BY <2>3 DEF q
  <2>5. i - s \in Lanes
    BY <2>3, <1>2, LanesAre, ConstantsAre
  <2> QED BY <2>1, <2>3, <2>4, <2>5, <1>4
<1>9. Sorted(new)
  <2> SUFFICES ASSUME NEW i \in Lanes, NEW j \in Lanes, i < j, new[j].k # PosInf
               PROVE  new[i].k < new[j].k
    BY DEF Sorted
  <2>0. i \in Nat /\ j \in Nat
    BY LanesAre
  <2>1. CASE j < s
    <3>1. PICK x \in Lanes : new[i] = c.data[x] /\ c.data[x].k # PosInf
                /\ (i < del => x = i) /\ (i >= del => x = i + 1)
      BY <1>7, <2>1, <2>0, <1>4
    <3>2. PICK y \in Lanes : new[j] = c.data[y] /\ c.data[y].k # PosInf
                /\ (j < del => y = j) /\ (j >= del => y = j + 1)
      BY <1>7, <2>1
    <3>3. x < y
      BY <3>1, <3>2, <2>0, <1>4
    <3> QED BY <3>1, <3>2, <3>3, <1>1 DEF Sorted
  <2>2. CASE i < s /\ j >= s
    <3>1. PICK x \in Lanes : new[i] = c.data[x] /\ c.data[x].k # PosInf
      BY <1>7, <2>2
    <3>2. j - s \in Lanes /\ new[j].k = reg[j - s].k
      BY <1>8, <2>2
    <3>3. new[i].k <= mid /\ lo2 < new[j].k
      BY <3>1, <3>2, <1>1 DEF Within
    <3> QED BY <1>6, <3>3, KeysAre
  <2>3. CASE i >= s
    <3>0. j >= s
      BY <2>0, <2>3, <1>4
    <3>1. j - s \in Lanes /\ j - s < q /\ new[j].k = reg[j - s].k
      BY <1>8, <3>0
    <3>2. i - s \in Nat /\ i - s < j - s
      BY <2>0, <2>3, <1>4
    <3>3. i - s \in 0 .. q - 1 /\ (i - s) + s = i /\ i - s \in Lanes
      BY <3>1, <3>2, <2>0, <1>4, <1>2, ConstantsAre, LanesAre
    <3>4. n.data[(i - s) + s].k = reg[i - s].k
      BY <3>3 DEF q
    <3>5. new[i].k = reg[i - s].k
      BY <3>3, <3>4, <2>3, <1>5
    <3> QED BY <3>1, <3>2, <3>3, <3>5, <1>1 DEF Sorted
  <2> QED BY <2>1, <2>2, <2>3, <2>0, <1>4
<1>10. Within(new, lo, n.max)
  <2> SUFFICES ASSUME NEW i \in Lanes, new[i].k # PosInf
               PROVE  lo < new[i].k /\ new[i].k <= n.max
    BY DEF Within
  <2>1. CASE i < s
    <3>1. PICK x \in Lanes : new[i] = c.data[x] /\ c.data[x].k # PosInf
      BY <1>7, <2>1
    <3>2. lo < new[i].k /\ new[i].k <= mid
      BY <3>1, <1>1 DEF Within
    <3> QED BY <1>1, <1>6, <3>2, KeysAre
  <2>2. CASE i >= s
    <3>1. i - s \in Lanes /\ i - s < q /\ new[i].k = reg[i - s].k
      BY <1>8, <2>2
    <3>2. lo2 < new[i].k /\ new[i].k <= n.max
      BY <3>1, <1>1 DEF Within
    <3>3. lo < mid
      <4>1. 0 \in Lanes /\ 0 < m
        BY <1>2, <1>4, LanesAre, ConstantsAre
      <4> QED BY <4>1, <1>1, <1>2, KeysAre DEF Within
    <3> QED BY <1>6, <3>2, <3>3, KeysAre
  <2>0. i \in Nat
    BY LanesAre
  <2> QED BY <2>0, <2>1, <2>2, <1>4
<1>11. ASSUME NEW l \in Levels, NEW g \in Ghosts, DataOK(g, c.data, l), DataOK(g, n.data, l)
       PROVE  DataOK(g, new, l)
  <2> SUFFICES ASSUME NEW i \in Lanes PROVE EntryOK(g, new[i], l)
    BY <1>6 DEF DataOK
  <2>1. i < del \/ (i >= del /\ i < s) \/ i >= s
    BY <1>4, LanesAre
  <2> QED BY <2>1, <1>5, <1>11 DEF DataOK
<1> QED BY <1>6, <1>9, <1>10, <1>11 DEF Fine, new

-----------------------------------------------------------------------------
(* What the other warps rely on stays so when a warp steps. *)

\* How the ghosts may change: a chunk's keys may begin further down.
Sinks(g, h) ==
  /\ g \in Ghosts /\ h \in Ghosts
  /\ \A c \in Chunks : g.lvl[c] # Nil => h.lvl[c] = g.lvl[c] /\ h.low[c] <= g.low[c]

\* What the ghosts of a chunk are.
LEMMA GhostsAre ==
  ASSUME NEW g \in Ghosts, NEW c \in Chunks
  PROVE  /\ g.lvl[c] \in Levels \cup {Nil} /\ g.low[c] \in Int /\ g.rank[c] \in Nat
         /\ g.chain \subseteq Chunks
BY DEF Ghosts

\* Levels and chunks are numbers, and Nil is none of them.
LEMMA LevelsAre == /\ Levels \in SUBSET Int /\ Nil \notin Levels /\ Nil \notin Chunks
                   /\ \A l \in Levels : l > 0 => l - 1 \in Levels
                   /\ Chunks \in SUBSET Int /\ 0 \in Levels
BY ConstantsAre DEF Levels, Nil, Chunks

\* A chunk stays on its level.
LEMMA OnKept ==
  ASSUME NEW g, NEW h, Sinks(g, h), NEW l \in Levels, NEW c, On(g, l, c)
  PROVE  On(h, l, c)
BY LevelsAre DEF Sinks, On

\* A key is found from a chunk from which it was found before.
LEMMA FromKept ==
  ASSUME NEW g, NEW h, Sinks(g, h), NEW l \in Levels, NEW c, NEW k \in Int, From(g, l, c, k)
  PROVE  From(h, l, c, k)
<1>1. c \in Chunks /\ g.lvl[c] = l /\ g.low[c] < k
  BY DEF From, On
<1>2. h.lvl[c] = l /\ h.low[c] <= g.low[c] /\ h.low[c] \in Int /\ g.low[c] \in Int
  BY <1>1, LevelsAre, GhostsAre DEF Sinks
<1> QED BY <1>1, <1>2 DEF From, On

\* Entries stay in order for their level.
LEMMA DataKept ==
  ASSUME NEW g, NEW h, Sinks(g, h), NEW l \in Levels, NEW data, DataOK(g, data, l)
  PROVE  DataOK(h, data, l)
<1> SUFFICES ASSUME NEW i \in Lanes PROVE EntryOK(h, data[i], l)
  BY DEF DataOK
<1>1. data[i].k \in Int
  BY KeysAre DEF DataOK
<1>2. EntryOK(g, data[i], l)
  BY DEF DataOK
<1> SUFFICES ASSUME l > 0, data[i].k # PosInf
             PROVE  On(h, l - 1, data[i].v) /\ h.low[data[i].v] < data[i].k
  BY DEF EntryOK
<1>3. l - 1 \in Levels /\ From(g, l - 1, data[i].v, data[i].k)
  BY <1>2, LevelsAre DEF EntryOK, From
<1> QED BY <1>1, <1>3, FromKept DEF From

\* What a step of another warp leaves of the world of warp v.
Steady(g, h, v) ==
  /\ Sinks(g, h)
  /\ allocated \in Int /\ allocated' \in Int /\ allocated <= allocated'
  /\ \A c \in Chunks : IsZombie(chunk[c]) =>
       IsZombie(chunk'[c]) /\ chunk'[c].next = chunk[c].next
  /\ \A c \in Chunks : Mine(c) /\ Holds(v, c) =>
       /\ chunk'[c] = chunk[c]
       /\ g.lvl[c] = Nil => h.lvl[c] = Nil
       /\ \A l \in Levels : \A d : Follows(g, l, c, d) => Follows(h, l, c, d)'
  /\ pc'[v] = pc[v] /\ loc'[v] = loc[v]

\* A search stays in order when others step.
LEMMA SearchSteady ==
  ASSUME NEW v \in Warps, NEW g, NEW h, Steady(g, h, v), SearchOK(g, v), loc[v].sk \in Int
  PROVE  SearchOK(h, v)'
<1> DEFINE r == loc[v]
           l == pc[v]
<1>1. Sinks(g, h) /\ pc'[v] = l /\ loc'[v] = r
  BY DEF Steady
<1>2. /\ r.h \in Levels
      /\ From(h, r.h, r.cur, r.sk)
      /\ r.prev # Nil => From(h, r.h, r.prev, r.sk) /\ DataOK(h, r.prevKv.data, r.h)
      /\ \A x \in Levels : From(h, x, r.path[x], r.sk)
  BY <1>1, FromKept, DataKept DEF SearchOK
<1>3. l \in {"tryLock", "recheck", "giveUp"} => Corpse(r.cur, r.kv)' /\ DataOK(h, r.kv.data, r.h)
  <2> SUFFICES ASSUME l \in {"tryLock", "recheck", "giveUp"}
               PROVE  Corpse(r.cur, r.kv)' /\ DataOK(h, r.kv.data, r.h)
    OBVIOUS
  <2>1. Corpse(r.cur, r.kv) /\ DataOK(g, r.kv.data, r.h) /\ r.cur \in Chunks
    BY DEF SearchOK, From, On
  <2>2. Corpse(r.cur, r.kv)'
    BY <1>1, <2>1 DEF Corpse, Steady, IsZombie
  <2> QED BY <1>1, <1>2, <2>1, <2>2, DataKept
<1>4. l \in UnlinkLabels => /\ r.prev \in Chunks /\ Mine(r.prev)'
                            /\ \A d : Follows(g, r.h, r.prev, d) => Follows(h, r.h, r.prev, d)'
  <2> SUFFICES ASSUME l \in UnlinkLabels
               PROVE  /\ r.prev \in Chunks /\ Mine(r.prev)'
                      /\ \A d : Follows(g, r.h, r.prev, d) => Follows(h, r.h, r.prev, d)'
    OBVIOUS
  <2>1. r.prev \in Chunks /\ Mine(r.prev) /\ Holds(v, r.prev)
    BY DEF SearchOK, From, On, Holds, HasPrev
  <2>2. chunk'[r.prev] = chunk[r.prev]
    BY <2>1 DEF Steady
  <2>3. Mine(r.prev)'
    BY <2>1, <2>2, <1>1 DEF Mine
  <2> QED BY <2>1, <2>3, <1>1, <1>2 DEF Steady
<1>5. l = "skip" => /\ IsZombie(r.kv) /\ Follows(h, r.h, r.prev, r.kv.next)'
                    /\ h.low[r.kv.next] < r.sk
  <2> SUFFICES ASSUME l = "skip"
               PROVE  /\ IsZombie(r.kv) /\ Follows(h, r.h, r.prev, r.kv.next)'
                      /\ h.low[r.kv.next] < r.sk
    OBVIOUS
  <2>1. IsZombie(r.kv) /\ Follows(g, r.h, r.prev, r.kv.next) /\ g.low[r.kv.next] < r.sk
    BY DEF SearchOK
  <2>2. From(g, r.h, r.kv.next, r.sk)
    BY <2>1 DEF From, Follows
  <2>3. From(h, r.h, r.kv.next, r.sk)
    BY <1>1, <1>2, <2>2, FromKept
  <2> QED BY <1>1, <1>4, <2>1, <2>3 DEF From, UnlinkLabels
<1>6. l = "unlink" => Follows(h, r.h, r.prev, r.cur)'
  BY <1>1, <1>4 DEF SearchOK, UnlinkLabels
<1>7. /\ l = "searched" => r.h = 0
      /\ l = "reread" => r.h > 0
      /\ l \in UnlinkLabels \cup {"tryLock"} => r.prev # Nil
  BY DEF SearchOK
<1> QED BY <1>1, <1>2, <1>3, <1>4, <1>5, <1>6, <1>7 DEF SearchOK

\* So does the work of an operation on a level,
LEMMA LevelSteady ==
  ASSUME NEW v \in Warps, NEW g, NEW h, Steady(g, h, v), LevelOK(g, v), Control(v),
         loc[v].key \in Int
  PROVE  LevelOK(h, v)'
<1> DEFINE r == loc[v]
           l == pc[v]
<1>1. Sinks(g, h) /\ pc'[v] = l /\ loc'[v] = r
  BY DEF Steady
<1>2. /\ \A x \in Levels : From(h, x, r.route[x], r.key)
      /\ r.level \in Levels
      /\ From(h, r.level, r.enc, r.key)
      /\ r.bottom # Nil => From(h, 0, r.bottom, r.key)
      /\ r.nxt # Nil => On(h, r.level, r.nxt)
  BY <1>1, FromKept, OnKept, LevelsAre DEF LevelOK
<1>3. Inserting(v)' /\ r.level > 0 => From(h, r.level - 1, r.val, r.key)
  BY <1>1, <1>2, FromKept, LevelsAre DEF LevelOK, Inserting
<1>4. r.new # Nil => r.new \in Chunks /\ r.new < allocated'
  BY ConstantsAre DEF LevelOK, Steady, Chunks
<1>5. l \in EncLocked => Mine(r.enc)'
  <2> SUFFICES ASSUME l \in EncLocked PROVE Mine(r.enc)'
    OBVIOUS
  <2>1. Mine(r.enc) /\ r.enc \in Chunks
    BY DEF LevelOK, From, On
  <2>2. Holds(v, r.enc)
    BY DEF Holds, HasEnc, EncLocked, LevelLabels, MergeLabels
  <2> QED BY <2>1, <2>2 DEF Steady, Mine
<1>6. l \in NextLabels \cup SplitLabels => On(h, r.level, r.ini) /\ Mine(r.ini)'
  <2> SUFFICES ASSUME l \in NextLabels \cup SplitLabels
               PROVE  On(h, r.level, r.ini) /\ Mine(r.ini)'
    OBVIOUS
  <2>1. On(g, r.level, r.ini) /\ Mine(r.ini) /\ r.ini \in Chunks
    BY DEF LevelOK, On
  <2>2. Mine(r.ini)'
    <3>1. r.ini = r.enc \/ r.ini = r.nxt
      BY DEF Control, LevelOK, NextLabels, SplitLabels
    <3>2. Holds(v, r.ini)
      BY <3>1 DEF Holds, HasEnc, HasNxt
    <3> QED BY <2>1, <3>2 DEF Steady, Mine
  <2> QED BY <1>1, <1>2, <2>1, <2>2, OnKept
<1>7. /\ l = "raise" => r.bottom # Nil
      /\ l = "height" => ~Inserting(v)'
      /\ l = "unlockNew" => r.ini = r.nxt
  BY <1>1 DEF LevelOK, Inserting
<1> HIDE DEF r, l
<1> QED BY <1>1, <1>2, <1>3, <1>4, <1>5, <1>6, <1>7 DEF LevelOK, r, l

\* The chunks that the registers of v name and that v has locked are as they were.
LEMMA NamedSteady ==
  ASSUME NEW v \in Warps, NEW g, NEW h, Steady(g, h, v), LevelOK(g, v), NextOK(g, v),
         Control(v)
  PROVE  LET r == loc[v]
             l == pc[v]
         IN  /\ l \in EncLocked => chunk'[r.enc] = chunk[r.enc] /\ Mine(r.enc)
             /\ l \in NextLabels \cup SplitLabels => chunk'[r.ini] = chunk[r.ini] /\ Mine(r.ini)
             /\ l \in NextLabels \cup SplitLabels => r.ini = r.enc \/ r.ini = r.nxt
             /\ l \in NextLabels \cup SplitLabels =>
                  \A d : Follows(g, r.level, r.ini, d) => Follows(h, r.level, r.ini, d)'
             /\ l \in {"empty", "unlockNew"} => chunk'[r.new] = chunk[r.new] /\ Mine(r.new)
<1> DEFINE r == loc[v]
           l == pc[v]
<1>1. ASSUME l \in EncLocked PROVE chunk'[r.enc] = chunk[r.enc] /\ Mine(r.enc)
  <2>1. Mine(r.enc) /\ r.enc \in Chunks
    BY <1>1 DEF LevelOK, From, On
  <2>2. Holds(v, r.enc)
    BY <1>1 DEF Holds, HasEnc, EncLocked, LevelLabels, MergeLabels
  <2> QED BY <2>1, <2>2 DEF Steady
<1>2. ASSUME l \in NextLabels \cup SplitLabels
      PROVE  /\ chunk'[r.ini] = chunk[r.ini] /\ Mine(r.ini)
             /\ r.ini = r.enc \/ r.ini = r.nxt
             /\ \A d : Follows(g, r.level, r.ini, d) => Follows(h, r.level, r.ini, d)'
  <2>1. Mine(r.ini) /\ r.ini \in Chunks /\ r.level \in Levels
    BY <1>2 DEF LevelOK, On
  <2>2. r.ini = r.enc \/ r.ini = r.nxt
    BY <1>2 DEF Control, LevelOK, NextLabels, SplitLabels
  <2>3. Holds(v, r.ini)
    BY <1>2, <2>2 DEF Holds, HasEnc, HasNxt
  <2> QED BY <2>1, <2>2, <2>3 DEF Steady
<1>3. ASSUME l \in {"empty", "unlockNew"} PROVE chunk'[r.new] = chunk[r.new] /\ Mine(r.new)
  <2>1. Mine(r.new) /\ r.new \in Chunks
    BY <1>3 DEF NextOK, On
  <2>2. Holds(v, r.new)
    BY <1>3 DEF Holds, HasNew
  <2> QED BY <2>1, <2>2 DEF Steady
<1> QED BY <1>1, <1>2, <1>3

\* findAndLockNextNonZombie up to the new chunk,
LEMMA NextSteady ==
  ASSUME NEW v \in Warps, NEW g, NEW h, Steady(g, h, v), LevelOK(g, v), NextOK(g, v),
         Control(v), chunk \in [Chunks -> ChunkType]
  PROVE  NextOK(h, v)'
<1> DEFINE r == loc[v]
           l == pc[v]
<1>1. Sinks(g, h) /\ pc'[v] = l /\ loc'[v] = r /\ r.level \in Levels
  BY DEF Steady, LevelOK
<1>2. ASSUME NEW c, Mine(c), c \in Chunks, Holds(v, c)
      PROVE  Mine(c)' /\ chunk'[c] = chunk[c] /\ (g.lvl[c] = Nil => h.lvl[c] = Nil)
  BY <1>2 DEF Steady, Mine
<1>3. l \in {"nextWalk", "nextLock", "nextCheck", "nextSet"} =>
        Follows(h, r.level, r.ini, r.cur)' /\ Follows(h, r.level, r.ini, r.first)'
  BY <1>1, NamedSteady DEF NextOK, NextLabels
<1>4. l = "nextSet" => Mine(r.cur)'
  <2> SUFFICES ASSUME l = "nextSet" PROVE Mine(r.cur)'
    OBVIOUS
  <2>1. Mine(r.cur) /\ r.cur \in Chunks /\ Holds(v, r.cur)
    BY DEF NextOK, Follows, On, Holds, HasCur
  <2> QED BY <1>1, <1>2, <2>1
<1>5. l = "alloc" => r.cur = chunk'[r.ini].next /\ (r.cur # Nil => Mine(r.cur)')
  <2> SUFFICES ASSUME l = "alloc"
               PROVE  r.cur = chunk'[r.ini].next /\ (r.cur # Nil => Mine(r.cur)')
    OBVIOUS
  <2>1. r.cur = chunk[r.ini].next /\ (r.cur # Nil => Mine(r.cur)) /\ chunk'[r.ini] = chunk[r.ini]
    BY NamedSteady DEF NextOK, SplitLabels
  <2>2. ASSUME r.cur # Nil PROVE Mine(r.cur)'
    <3>1. r.ini \in Chunks
      BY DEF LevelOK, SplitLabels, On
    <3>2. r.cur \in Chunks
      BY <2>1, <2>2, <3>1, ChunkIs
    <3>3. Holds(v, r.cur) /\ Mine(r.cur)
      BY <2>1, <2>2 DEF Holds, HasCur
    <3> QED BY <3>2, <3>3, <1>1, <1>2
  <2> QED BY <2>1, <2>2
<1>6. l \in {"unlockNext", "copy"} =>
           /\ h.lvl[r.new] = Nil
           /\ chunk'[r.new] = FreshChunk(chunk'[r.ini].next, "locked")
  <2> SUFFICES ASSUME l \in {"unlockNext", "copy"}
               PROVE  /\ h.lvl[r.new] = Nil
                      /\ chunk'[r.new] = FreshChunk(chunk'[r.ini].next, "locked")
    OBVIOUS
  <2>1. g.lvl[r.new] = Nil /\ chunk[r.new] = FreshChunk(chunk[r.ini].next, "locked")
    BY DEF NextOK
  <2>2. r.new \in Chunks /\ Holds(v, r.new)
    BY DEF LevelOK, Holds, HasNew, Control
  <2>3. Mine(r.new)
    BY <2>1 DEF Mine, FreshChunk
  <2>4. chunk'[r.ini] = chunk[r.ini]
    BY NamedSteady DEF SplitLabels
  <2> QED BY <2>1, <2>2, <2>3, <2>4, <1>2
<1>7. l = "unlockNext" => r.cur # Nil /\ r.cur = chunk'[r.ini].next
  BY NamedSteady DEF NextOK, SplitLabels
<1>8. l \in {"empty", "unlockNew"} => On(h, r.level, r.new) /\ Mine(r.new)'
  BY SMTT(30), <1>1, NamedSteady, OnKept DEF NextOK, Mine
<1> HIDE DEF r, l
<1> QED BY <1>1, <1>3, <1>4, <1>5, <1>6, <1>7, <1>8 DEF NextOK, r, l

\* a split,
LEMMA SplitSteady ==
  ASSUME NEW v \in Warps, NEW g, NEW h, Steady(g, h, v), LevelOK(g, v), NextOK(g, v),
         Control(v), SplitOK(g, v), loc[v].key \in Int
  PROVE  SplitOK(h, v)'
<1> DEFINE r == loc[v]
           l == pc[v]
<1>1. Sinks(g, h) /\ pc'[v] = l /\ loc'[v] = r /\ r.level \in Levels
  BY DEF Steady, LevelOK
<1>2. l \in InsertSplits /\ Inserting(v)' =>
        /\ Full(chunk'[r.enc].data) /\ ~HasKey(chunk'[r.enc].data, r.key)
        /\ r.key <= chunk'[r.enc].max
  BY <1>1, NamedSteady DEF SplitOK, InsertSplits, EncLocked, SplitLabels, Inserting
<1>3. l = "empty" =>
           /\ r.kv \in ChunkType
           /\ chunk'[r.ini].data = r.kv.data
           /\ chunk'[r.ini].max = Threshold(r.kv) /\ chunk'[r.ini].next = r.new
           /\ Occ(r.kv.data) >= 3
           /\ chunk'[r.new].data = MovedData(r.kv.data)
           /\ chunk'[r.new].max = r.kv.max
           /\ Inserting(v)' => Full(r.kv.data) /\ ~HasKey(r.kv.data, r.key) /\ r.key <= r.kv.max
  BY <1>1, NamedSteady DEF SplitOK, SplitLabels, Inserting
<1>4. l = "empty" => Fine(r.kv.data, h.low[r.ini], r.kv.max)
  <2> SUFFICES ASSUME l = "empty" PROVE Fine(r.kv.data, h.low[r.ini], r.kv.max)
    OBVIOUS
  <2>1. On(g, r.level, r.ini) /\ Fine(r.kv.data, g.low[r.ini], r.kv.max) /\ r.kv \in ChunkType
    BY DEF SplitOK, LevelOK, SplitLabels
  <2>2. h.low[r.ini] <= g.low[r.ini] /\ h.low[r.ini] \in Int /\ g.low[r.ini] \in Int
    BY <1>1, <2>1, LevelsAre, GhostsAre DEF Sinks, On
  <2> QED BY <2>1, <2>2, FineBelow, ChunkIs
<1>5. l \in {"shift", "unlockOther"} => From(h, r.level, r.tgt, r.key)
  BY <1>1, FromKept DEF SplitOK
<1>6. l \in {"shift", "unlockOther"} /\ r.new # Nil =>
           LET k == r.kv.data[DSize \div 2 + 1].k
           IN  /\ From(h, r.level, r.new, k) /\ k \in NegInf .. MaxKey
               /\ r.kv.data[DSize - 1].k \in NegInf .. MaxKey
  BY SMTT(30), <1>1, FromKept DEF SplitOK
<1> HIDE DEF r, l
<1> QED BY <1>1, <1>2, <1>3, <1>4, <1>5, <1>6 DEF SplitOK, r, l

\* a shift to the right,
LEMMA ShiftSteady ==
  ASSUME NEW v \in Warps, NEW g, NEW h, Steady(g, h, v), LevelOK(g, v),
         Control(v), SplitOK(g, v), ShiftOK(g, v), chunk \in [Chunks -> ChunkType]
  PROVE  ShiftOK(h, v)'
<1> DEFINE r == loc[v]
           l == pc[v]
<1>1. Sinks(g, h) /\ pc'[v] = l /\ loc'[v] = r /\ r.level \in Levels
  BY SMTT(30) DEF Steady, LevelOK
<1> SUFFICES ASSUME l = "shift" PROVE ShiftOK(h, v)'
  BY SMTT(30), <1>1 DEF ShiftOK
<1>2. On(g, r.level, r.tgt) /\ Mine(r.tgt) /\ Fine(r.reg, g.low[r.tgt], chunk[r.tgt].max)
      /\ DataOK(g, r.reg, r.level)
  BY DEF SplitOK, From, ShiftOK
<1>3. Holds(v, r.tgt)
  BY DEF Control, Shifting, Holds, HasEnc, HasNew, LevelLabels
<1>4. chunk'[r.tgt] = chunk[r.tgt] /\ Mine(r.tgt)'
  BY <1>2, <1>3 DEF Steady, Mine, On
<1>5. h.low[r.tgt] <= g.low[r.tgt] /\ h.low[r.tgt] \in Int /\ g.low[r.tgt] \in Int
  BY <1>1, <1>2, LevelsAre, GhostsAre DEF Sinks, On
<1>6. r.reg \in Datas /\ chunk[r.tgt].max \in Int
  BY <1>2, ChunkIs DEF DataOK, On
<1>7. Fine(r.reg, h.low[r.tgt], chunk[r.tgt].max) /\ DataOK(h, r.reg, r.level)
  BY <1>1, <1>2, <1>5, <1>6, FineBelow, DataKept
<1>8. /\ r.i \in Lanes /\ r.stop \in 0 .. r.i
      /\ \A j \in Lanes : j < r.stop \/ j > r.i => chunk[r.tgt].data[j].k = r.reg[j].k
  BY DEF ShiftOK
<1> HIDE DEF r, l
<1> QED BY <1>1, <1>4, <1>7, <1>8 DEF ShiftOK, r, l

\* the removal of a key from its chunk,
LEMMA EraseSteady ==
  ASSUME NEW v \in Warps, NEW g, NEW h, Steady(g, h, v), LevelOK(g, v), NextOK(g, v),
         Control(v), EraseOK(g, v), chunk \in [Chunks -> ChunkType]
  PROVE  EraseOK(h, v)'
<1> DEFINE r == loc[v]
           l == pc[v]
           c == chunk[r.enc]
<1>1. Sinks(g, h) /\ pc'[v] = l /\ loc'[v] = r /\ r.level \in Levels
  BY DEF Steady, LevelOK
<1> SUFFICES ASSUME l \in {"lowerMax", "unshift"} PROVE EraseOK(h, v)'
  BY <1>1 DEF EraseOK
<1>2. chunk'[r.enc] = c /\ On(g, r.level, r.enc)
  BY NamedSteady DEF EncLocked, LevelOK, From
<1>3. h.low[r.enc] <= g.low[r.enc] /\ h.low[r.enc] \in Int /\ g.low[r.enc] \in Int
  BY <1>1, <1>2, LevelsAre, GhostsAre DEF Sinks, On
<1>4. c \in ChunkType /\ c.max \in Int /\ c.data \in Datas /\ r.reg \in Datas
  BY <1>2, ChunkIs DEF EraseOK, DataOK, On
<1>5. Left(c, r) \in Datas
  BY <1>4, KeysAre DEF Left, Datas
<1>6. DataOK(h, r.reg, r.level)
  BY <1>1, DataKept DEF EraseOK
<1>7. l = "unshift" => Fine(Left(c, r), h.low[r.enc], c.max)
  BY <1>3, <1>4, <1>5, FineBelow DEF EraseOK
<1>8. l = "lowerMax" => /\ r.min \in NegInf .. MaxKey /\ r.min \in Int
                        /\ h.low[r.enc] < r.min /\ r.min < c.max
                        /\ Fine(Left(c, r), h.low[r.enc], r.min)
                        /\ c.next # Nil
  <2> SUFFICES ASSUME l = "lowerMax"
               PROVE  /\ r.min \in NegInf .. MaxKey /\ r.min \in Int
                      /\ h.low[r.enc] < r.min /\ r.min < c.max
                      /\ Fine(Left(c, r), h.low[r.enc], r.min)
                      /\ c.next # Nil
    OBVIOUS
  <2>1. /\ r.min \in NegInf .. MaxKey /\ r.min < c.max /\ c.next # Nil
        /\ g.low[r.enc] < r.min /\ Fine(Left(c, r), g.low[r.enc], r.min)
    BY DEF EraseOK
  <2>2. r.min \in Int
    BY <2>1, ConstantsAre DEF NegInf
  <2> QED BY <2>1, <2>2, <1>3, <1>5, FineBelow
<1>9. /\ r.stop \in Lanes /\ r.i \in 0 .. r.stop
      /\ \A j \in Lanes : j > r.stop => c.data[j].k = PosInf /\ r.reg[j].k = PosInf
  BY SMTT(30) DEF EraseOK
<1> HIDE DEF r, l
<1> QED BY <1>1, <1>2, <1>6, <1>7, <1>8, <1>9 DEF EraseOK, r, l

\* a merge,
LEMMA MergeSteady ==
  ASSUME NEW v \in Warps, NEW g, NEW h, Steady(g, h, v), LevelOK(g, v), NextOK(g, v),
         Control(v), MergeOK(g, v), chunk \in [Chunks -> ChunkType]
  PROVE  MergeOK(h, v)'
<1> DEFINE r == loc[v]
           l == pc[v]
           c == chunk[r.enc]
           n == chunk[r.nxt]
<1>1. Sinks(g, h) /\ pc'[v] = l /\ loc'[v] = r /\ r.level \in Levels
  BY DEF Steady, LevelOK
<1>2. Inserting(v)' = Inserting(v)
  BY <1>1 DEF Inserting
<1>3. l \in Merging => chunk'[r.enc] = c
  BY NamedSteady DEF Merging, EncLocked, MergeTail
<1>4. l \in MergeTail \cup {"unlockNew"} =>
        chunk'[r.nxt] = n /\ Mine(r.nxt) /\ Mine(r.nxt)' /\ r.nxt \in Chunks
  <2>1. CASE l = "unlockNew"
    <3>1. r.nxt = r.ini /\ r.ini \in Chunks /\ chunk'[r.ini] = chunk[r.ini] /\ Mine(r.ini)
      BY <2>1, NamedSteady DEF LevelOK, SplitLabels, On
    <3> QED BY <1>1, <3>1 DEF Mine
  <2>2. CASE l \in MergeTail
    <3>1. Mine(r.nxt)
      BY SMTT(30), <2>2 DEF MergeOK
    <3>2. r.enc \in Chunks /\ c.next = r.nxt /\ c.next # Nil
      BY <2>2, <1>1 DEF MergeOK, Merging, LevelOK, From, On, Control, MergeTail, MergeLabels
    <3>3. r.nxt \in Chunks
      BY <3>2, ChunkIs
    <3>4. Holds(v, r.nxt)
      BY <2>2 DEF Holds, HasNxt, MergeTail, MergeLabels
    <3> QED BY <1>1, <3>1, <3>3, <3>4 DEF Steady, Mine
  <2> QED BY <2>1, <2>2
<1>5. l \in Merging /\ ~Inserting(v) =>
        /\ HasKey(c.data, r.key) /\ Occ(c.data) - 1 <= MergeThreshold /\ c.next # Nil
        /\ l \in NextLabels \cup SplitLabels => r.ini \in {r.enc, r.nxt}
        /\ l \in MergeTail \/ r.ini # r.enc => r.nxt = c.next
        /\ r.ini # r.enc /\ l \in InsertSplits => Occ(chunk'[r.ini].data) >= 3
        /\ l = "empty" => First(r.kv.data) + Occ(c.data) - 1 <= DSize
  <2>1. l \in InsertSplits => chunk'[r.ini] = chunk[r.ini]
    BY NamedSteady DEF InsertSplits, SplitLabels
  <2> QED BY <2>1 DEF MergeOK
<1>6. l = "mergeRead" => r.cur = c.next /\ Mine(r.cur)'
  <2> SUFFICES ASSUME l = "mergeRead" PROVE r.cur = c.next /\ Mine(r.cur)'
    OBVIOUS
  <2>1. r.cur = c.next /\ Mine(r.cur) /\ r.enc \in Chunks /\ c.next # Nil
    BY DEF MergeOK, Merging, LevelOK, From, On, Control
  <2>2. r.cur \in Chunks /\ Holds(v, r.cur)
    BY <2>1, ChunkIs DEF Holds, HasCur
  <2> QED BY <1>1, <2>1, <2>2 DEF Steady, Mine
<1>7. l \in {"unlockNew", "mergeShift"} => Occ(n.data) + Occ(c.data) - 1 <= DSize
  BY DEF MergeOK
<1>8. r.nxt \in Chunks /\ g.lvl[r.nxt] # Nil =>
        h.low[r.nxt] <= g.low[r.nxt] /\ h.low[r.nxt] \in Int /\ g.low[r.nxt] \in Int
  BY <1>1, GhostsAre DEF Sinks
<1>9. h.low[r.enc] <= g.low[r.enc] /\ h.low[r.enc] \in Int /\ g.low[r.enc] \in Int
  BY <1>1, LevelsAre, GhostsAre DEF Sinks, LevelOK, From, On
<1>10. l \in MergeTail => n \in ChunkType /\ n.max \in Int /\ n.data \in Datas /\ g.lvl[r.nxt] # Nil
  <2>1. l \in MergeTail => r.nxt \in Chunks /\ g.lvl[r.nxt] = r.level
    BY SMTT(30), <1>4, LevelsAre DEF LevelOK, On
  <2> QED BY <2>1, <1>1, LevelsAre, ChunkIs
<1>11. l \in {"shiftBy", "mergeCopy"} =>
           /\ Fine(r.reg, h.low[r.nxt], n.max)
           /\ DataOK(h, r.reg, r.level)
           /\ r.stop = Occ(c.data) - 1
           /\ Occ(r.reg) + r.stop <= DSize
           /\ \A j \in Lanes : Occ(r.reg) + r.stop <= j => n.data[j].k = PosInf
  <2> SUFFICES ASSUME l \in {"shiftBy", "mergeCopy"}
               PROVE  /\ Fine(r.reg, h.low[r.nxt], n.max)
                      /\ DataOK(h, r.reg, r.level)
                      /\ r.stop = Occ(c.data) - 1
                      /\ Occ(r.reg) + r.stop <= DSize
                      /\ \A j \in Lanes : Occ(r.reg) + r.stop <= j => n.data[j].k = PosInf
    OBVIOUS
  <2>1. /\ Fine(r.reg, g.low[r.nxt], n.max)
        /\ DataOK(g, r.reg, r.level)
        /\ r.stop = Occ(c.data) - 1
        /\ Occ(r.reg) + r.stop <= DSize
        /\ \A j \in Lanes : Occ(r.reg) + r.stop <= j => n.data[j].k = PosInf
    BY DEF MergeOK
  <2>2. r.reg \in Datas
    BY <2>1 DEF DataOK
  <2>3. Fine(r.reg, h.low[r.nxt], n.max)
    BY SMTT(30), <2>1, <2>2, <1>4, <1>8, <1>10, FineBelow DEF MergeTail
  <2> QED BY <1>1, <2>1, <2>3, DataKept
<1>12. l = "shiftBy" =>
         /\ r.i \in 0 .. Occ(r.reg) - 1
         /\ \A j \in r.i + 1 .. Occ(r.reg) - 1 : n.data[j + r.stop].k = r.reg[j].k
  BY SMTT(30) DEF MergeOK
<1>13. l = "mergeCopy" => \A j \in 0 .. Occ(r.reg) - 1 : n.data[j + r.stop].k = r.reg[j].k
  BY DEF MergeOK
<1>14. l = "markZombie" =>
         /\ Fine(n.data, h.low[r.enc], n.max)
         /\ r.min \in NegInf .. MaxKey /\ h.low[r.enc] < r.min
         /\ r.max \in NegInf .. MaxKey
  <2> SUFFICES ASSUME l = "markZombie"
               PROVE  /\ Fine(n.data, h.low[r.enc], n.max)
                      /\ r.min \in NegInf .. MaxKey /\ h.low[r.enc] < r.min
                      /\ r.max \in NegInf .. MaxKey
    OBVIOUS
  <2>1. /\ Fine(n.data, g.low[r.enc], n.max)
        /\ r.min \in NegInf .. MaxKey /\ g.low[r.enc] < r.min
        /\ r.max \in NegInf .. MaxKey
    BY DEF MergeOK
  <2>2. r.min \in Int
    BY <2>1, ConstantsAre DEF NegInf
  <2> QED BY <2>1, <2>2, <1>9, <1>10, FineBelow DEF MergeTail
<1>15. l = "uncount" => /\ r.min \in NegInf .. MaxKey /\ From(h, r.level, r.nxt, r.min)
                        /\ r.max \in NegInf .. MaxKey
  <2>1. l = "uncount" => /\ r.min \in NegInf .. MaxKey /\ From(g, r.level, r.nxt, r.min)
                         /\ r.max \in NegInf .. MaxKey
    BY DEF MergeOK
  <2>2. r.min \in NegInf .. MaxKey => r.min \in Int
    BY ConstantsAre DEF NegInf
  <2> QED BY <1>1, <2>1, <2>2, FromKept
<1>16. Mine(r.nxt)' = (chunk'[r.nxt].lock = "locked") /\ Mine(r.cur)' = (chunk'[r.cur].lock = "locked")
  BY <1>1 DEF Mine
<1> DEFINE P1 == l \in Merging /\ ~Inserting(v) =>
              /\ HasKey(chunk'[r.enc].data, r.key) /\ Occ(chunk'[r.enc].data) - 1 <= MergeThreshold
              /\ chunk'[r.enc].next # Nil
              /\ l \in NextLabels \cup SplitLabels => r.ini \in {r.enc, r.nxt}
              /\ l \in MergeTail \/ r.ini # r.enc => r.nxt = chunk'[r.enc].next
              /\ r.ini # r.enc /\ l \in InsertSplits => Occ(chunk'[r.ini].data) >= 3
              /\ l = "empty" => First(r.kv.data) + Occ(chunk'[r.enc].data) - 1 <= DSize
<1>20. P1
  BY <1>3, <1>5
<1> QED
  <2>1. l \in {"mergeRead", "unlockNew", "mergeShift", "shiftBy", "mergeCopy", "markZombie"}
           => l \in Merging
    BY DEF Merging, MergeTail, SplitLabels
  <2>2. l \in {"unlockNew", "mergeShift", "shiftBy", "mergeCopy", "markZombie"}
           => l \in MergeTail \cup {"unlockNew"}
    BY DEF MergeTail
  <2> HIDE DEF r, l, P1
  <2>3. P1 /\ pc'[v] = l /\ loc'[v] = r
    BY <1>20, <1>1
  <2> QED
    BY <2>1, <2>2, <2>3, <1>2, <1>3, <1>4, <1>6, <1>7, <1>11, <1>12, <1>13, <1>14, <1>15, <1>16
    DEF MergeOK, P1, r, l

\* updateDownPtrs,
LEMMA DownSteady ==
  ASSUME NEW v \in Warps, NEW g, NEW h, Steady(g, h, v), LevelOK(g, v), DownOK(g, v)
  PROVE  DownOK(h, v)'
<1> DEFINE r == loc[v]
           l == pc[v]
<1>1. Sinks(g, h) /\ pc'[v] = l /\ loc'[v] = r /\ r.level \in Levels
  BY DEF Steady, LevelOK
<1>2. GoingDown(v)' = GoingDown(v)
  BY <1>1 DEF GoingDown
<1> SUFFICES ASSUME GoingDown(v) PROVE DownOK(h, v)'
  BY <1>2 DEF DownOK
<1>3. /\ r.level + 1 \in Levels
      /\ r.min \in NegInf .. MaxKey /\ r.max \in NegInf .. MaxKey
      /\ r.sk = r.min
      /\ From(g, r.level, r.tgt, r.min)
      /\ l \in DownLabels => On(g, r.level + 1, r.cur)
      /\ l = "downUnlock" /\ r.kv.next # Nil => On(g, r.level + 1, r.kv.next)
  BY DEF DownOK
<1>4. r.min \in Int
  BY <1>3, ConstantsAre DEF NegInf
<1>5. /\ From(h, r.level, r.tgt, r.min)
      /\ l \in DownLabels => On(h, r.level + 1, r.cur)
      /\ l = "downUnlock" /\ r.kv.next # Nil => On(h, r.level + 1, r.kv.next)
  BY <1>1, <1>3, <1>4, FromKept, OnKept
<1> HIDE DEF r, l
<1> QED BY <1>1, <1>3, <1>5 DEF DownOK, r, l

\* and the whole warp.
LEMMA OthersOK ==
  ASSUME NEW v \in Warps, NEW g, NEW h, Steady(g, h, v), WarpOK(g, v), Control(v),
         chunk \in [Chunks -> ChunkType]
  PROVE  WarpOK(h, v)'
<1> DEFINE r == loc[v]
           l == pc[v]
<1>1. pc'[v] = l /\ loc'[v] = r
  BY DEF Steady
<1>2. /\ r.top \in Levels
      /\ l \notin {"take", "return"} => r.key \in 1 .. MaxKey /\ r.val \in Int
      /\ l \in OwnLabels =>
           r.sk \in NegInf .. MaxKey /\ (r.caller = "op" => r.sk = r.key)
  BY DEF WarpOK
<1>3. l \in Walking => SearchOK(h, v)'
  <2>1. l \in Walking => l \in OwnLabels
    BY DEF Walking, OwnLabels, SearchLabels, UnlinkLabels
  <2>2. r.sk \in NegInf .. MaxKey => r.sk \in Int
    BY ConstantsAre DEF NegInf
  <2> QED BY <1>2, <2>1, <2>2, SearchSteady DEF WarpOK
<1>4. OnLevel(v)' = OnLevel(v)
  BY <1>1 DEF OnLevel
<1>5. ASSUME OnLevel(v)
      PROVE  /\ LevelOK(h, v)' /\ NextOK(h, v)' /\ SplitOK(h, v)' /\ ShiftOK(h, v)'
             /\ EraseOK(h, v)' /\ MergeOK(h, v)' /\ DownOK(h, v)'
  <2>1. /\ LevelOK(g, v) /\ NextOK(g, v) /\ SplitOK(g, v) /\ ShiftOK(g, v)
        /\ EraseOK(g, v) /\ MergeOK(g, v) /\ DownOK(g, v)
    BY <1>5 DEF WarpOK
  <2>2. r.key \in Int
    BY <1>2, <1>5 DEF OnLevel
  <2> QED
    BY <2>1, <2>2, LevelSteady, NextSteady, SplitSteady, ShiftSteady, EraseSteady,
       MergeSteady, DownSteady
<1> HIDE DEF r, l
<1> QED BY <1>1, <1>2, <1>3, <1>4, <1>5 DEF WarpOK, r, l

(* What a step stores. *)

\* Where a warp stores a word of a chunk, or takes a chunk from the pool.
StoreLabels ==
  {"unlink", "nextSet", "shift", "empty", "lowerMax", "unshift", "shiftBy", "mergeCopy",
   "downWrite", "copy", "alloc", "markZombie"}

Same(c) == /\ chunk'[c].data = chunk[c].data
           /\ chunk'[c].max = chunk[c].max
           /\ chunk'[c].next = chunk[c].next

\* Locking or unlocking a chunk changes no other word.
LEMMA LockSame ==
  ASSUME WordsOK, NEW d, Lock(d) \/ Unlock(d)
  PROVE  \A c \in Chunks : Same(c)
BY DEF WordsOK, Lock, Unlock, Same, Words

\* Elsewhere a step stores lock words only.
LEMMA StepStores ==
  ASSUME WordsOK, NEW w \in Warps, Step(w), pc[w] \notin StoreLabels
  PROVE  allocated' = allocated /\ \A c \in Chunks : Same(c)
<1> USE DEF At, mem, StoreLabels
<1>1. CASE StartOp(w)
  BY <1>1 DEF StartOp, Same
<1>2. CASE ReturnResult(w)
  BY <1>2 DEF ReturnResult, Same
<1>3. CASE SearchStart(w)
  BY <1>3 DEF SearchStart, Same
<1>4. CASE SearchRead(w)
  BY <1>4 DEF SearchRead, Same
<1>5. CASE SearchMeetZombie(w)
  BY <1>5 DEF SearchMeetZombie, Same
<1>6. CASE TryLockPrev(w)
  BY <1>6, LockSame DEF TryLockPrev
<1>7. CASE TryLockFails(w)
  BY <1>7 DEF TryLockFails, Same
<1>8. CASE RecheckPrev(w)
  BY <1>8 DEF RecheckPrev, Same
<1>9. CASE GiveUpUnlink(w)
  BY <1>9, LockSame DEF GiveUpUnlink
<1>10. CASE SkipZombie(w)
  BY <1>10 DEF SkipZombie, Same
<1>11. CASE UnlinkZombies(w)
  BY <1>11 DEF UnlinkZombies
<1>12. CASE UnlockPrev(w)
  BY <1>12, LockSame DEF UnlockPrev
<1>13. CASE StepRight(w)
  BY <1>13 DEF StepRight, Same
<1>14. CASE StepDown(w)
  BY <1>14 DEF StepDown, Same
<1>15. CASE BackTrack(w)
  BY <1>15 DEF BackTrack, Same
<1>16. CASE RestartSearch(w)
  BY <1>16 DEF RestartSearch, Same
<1>17. CASE SearchRefuses(w)
  BY <1>17 DEF SearchRefuses, Same, OwnSearch
<1>18. CASE SearchLeads(w)
  BY <1>18 DEF SearchLeads, Same, OwnSearch
<1>19. CASE WalkToEnclosing(w)
  BY <1>19 DEF WalkToEnclosing, Same
<1>20. CASE LockEnclosing(w)
  BY <1>20, LockSame DEF LockEnclosing
<1>21. CASE NotEnclosing(w)
  BY <1>21 DEF NotEnclosing, Same
<1>22. CASE RetryEnclosing(w)
  BY <1>22, LockSame DEF RetryEnclosing
<1>23. CASE ReadNext(w)
  BY <1>23 DEF ReadNext, Same
<1>24. CASE WalkToNext(w)
  BY <1>24 DEF WalkToNext, Same
<1>25. CASE LockNext(w)
  BY <1>25, LockSame DEF LockNext
<1>26. CASE CheckNext(w)
  BY <1>26 DEF CheckNext, Same
<1>27. CASE RedirectNext(w)
  BY <1>27 DEF RedirectNext
<1>28. CASE GetNewChunk(w)
  BY <1>28 DEF GetNewChunk
<1>29. CASE UnlockNext(w)
  BY <1>29, LockSame DEF UnlockNext
<1>30. CASE SplitCopy(w)
  BY <1>30 DEF SplitCopy
<1>31. CASE EmptyMoved(w)
  BY <1>31 DEF EmptyMoved
<1>32. CASE UnlockOther(w)
  BY <1>32, LockSame DEF UnlockOther
<1>33. CASE InsertPresent(w)
  BY <1>33 DEF InsertPresent, Same, Enclosing
<1>34. CASE InsertFits(w)
  BY <1>34 DEF InsertFits, Same, Enclosing
<1>35. CASE InsertOverflows(w)
  BY <1>35 DEF InsertOverflows, Same, Enclosing
<1>36. CASE ShiftRight(w)
  BY <1>36 DEF ShiftRight
<1>37. CASE IsLevelEmpty(w)
  BY <1>37 DEF IsLevelEmpty, Same
<1>38. CASE IncrementNumChunks(w)
  BY <1>38 DEF IncrementNumChunks, Same
<1>39. CASE RaiseKey(w)
  BY <1>39 DEF RaiseKey, Same
<1>40. CASE EraseAbsent(w)
  BY SMTT(30), <1>40 DEF EraseAbsent, Same, Enclosing
<1>41. CASE EraseInPlace(w)
  BY <1>41 DEF EraseInPlace, Same, Enclosing
<1>42. CASE LowerMax(w)
  BY <1>42 DEF LowerMax
<1>43. CASE ShiftLeft(w)
  BY <1>43 DEF ShiftLeft
<1>44. CASE EraseByMerge(w)
  BY <1>44 DEF EraseByMerge, Same, Enclosing
<1>45. CASE MergeRead(w)
  BY <1>45 DEF MergeRead, Same
<1>46. CASE UnlockNew(w)
  BY <1>46, LockSame DEF UnlockNew
<1>47. CASE MergeShift(w)
  BY <1>47 DEF MergeShift, Same
<1>48. CASE ShiftData(w)
  BY <1>48 DEF ShiftData
<1>49. CASE MergeCopy(w)
  BY <1>49 DEF MergeCopy
<1>50. CASE MarkZombie(w)
  BY <1>50 DEF MarkZombie
<1>51. CASE DecrementNumChunks(w)
  BY <1>51 DEF DecrementNumChunks, Same
<1>52. CASE UnlockMerged(w)
  BY <1>52, LockSame DEF UnlockMerged
<1>53. CASE ReadHeight(w)
  BY <1>53 DEF ReadHeight, Same
<1>54. CASE DownSearched(w)
  BY <1>54 DEF DownSearched, Same
<1>55. CASE DownRead(w)
  BY <1>55 DEF DownRead, Same
<1>56. CASE DownLock(w)
  BY <1>56, LockSame DEF DownLock
<1>57. CASE DownWrite(w)
  BY <1>57 DEF DownWrite
<1>58. CASE DownUnlock(w)
  BY <1>58, LockSame DEF DownUnlock
<1>59. CASE UnlockEnclosing(w)
  BY <1>59, LockSame DEF UnlockEnclosing
<1>60. CASE UnlockBottom(w)
  BY <1>60, LockSame DEF UnlockBottom
<1> QED BY <1>1, <1>2, <1>3, <1>4, <1>5, <1>6, <1>7, <1>8, <1>9, <1>10, <1>11, <1>12, <1>13,
           <1>14, <1>15, <1>16, <1>17, <1>18, <1>19, <1>20, <1>21, <1>22, <1>23, <1>24,
           <1>25, <1>26, <1>27, <1>28, <1>29, <1>30, <1>31, <1>32, <1>33, <1>34, <1>35,
           <1>36, <1>37, <1>38, <1>39, <1>40, <1>41, <1>42, <1>43, <1>44, <1>45, <1>46,
           <1>47, <1>48, <1>49, <1>50, <1>51, <1>52, <1>53, <1>54, <1>55, <1>56, <1>57,
           <1>58, <1>59, <1>60
         DEF Step, Search, Enclose, FindNext, Split, InsertToLevel, EraseFromLevel,
             UpdateDownPtrs

\* A step leaves the host's variables in order.
LEMMA StepHost ==
  ASSUME HostOK, NEW w \in Warps, Step(w)
  PROVE  HostOK'
<1> SUFFICES HostOK' \/ UNCHANGED host
  BY DEF HostOK, host, Batches
<1>1. CASE ReturnResult(w)
  <2>1. NumWarps \in Nat
    BY TraceAssumption
  <2> QED BY <1>1, <2>1 DEF ReturnResult, HostOK, Batches
<1>2. CASE StartOp(w)
  BY <1>2 DEF StartOp, host
<1>3. CASE SearchStart(w)
  BY <1>3 DEF SearchStart, host
<1>4. CASE SearchRead(w)
  BY <1>4 DEF SearchRead, host
<1>5. CASE SearchMeetZombie(w)
  BY <1>5 DEF SearchMeetZombie, host
<1>6. CASE TryLockPrev(w)
  BY <1>6 DEF TryLockPrev, host
<1>7. CASE TryLockFails(w)
  BY <1>7 DEF TryLockFails, host
<1>8. CASE RecheckPrev(w)
  BY <1>8 DEF RecheckPrev, host
<1>9. CASE GiveUpUnlink(w)
  BY <1>9 DEF GiveUpUnlink, host
<1>10. CASE SkipZombie(w)
  BY <1>10 DEF SkipZombie, host
<1>11. CASE UnlinkZombies(w)
  BY <1>11 DEF UnlinkZombies, host
<1>12. CASE UnlockPrev(w)
  BY <1>12 DEF UnlockPrev, host
<1>13. CASE StepRight(w)
  BY <1>13 DEF StepRight, host
<1>14. CASE StepDown(w)
  BY <1>14 DEF StepDown, host
<1>15. CASE BackTrack(w)
  BY <1>15 DEF BackTrack, host
<1>16. CASE RestartSearch(w)
  BY <1>16 DEF RestartSearch, host
<1>17. CASE SearchRefuses(w)
  BY <1>17 DEF SearchRefuses, host
<1>18. CASE SearchLeads(w)
  BY <1>18 DEF SearchLeads, host
<1>19. CASE WalkToEnclosing(w)
  BY <1>19 DEF WalkToEnclosing, host
<1>20. CASE LockEnclosing(w)
  BY <1>20 DEF LockEnclosing, host
<1>21. CASE NotEnclosing(w)
  BY <1>21 DEF NotEnclosing, host
<1>22. CASE RetryEnclosing(w)
  BY <1>22 DEF RetryEnclosing, host
<1>23. CASE ReadNext(w)
  BY <1>23 DEF ReadNext, host
<1>24. CASE WalkToNext(w)
  BY <1>24 DEF WalkToNext, host
<1>25. CASE LockNext(w)
  BY <1>25 DEF LockNext, host
<1>26. CASE CheckNext(w)
  BY <1>26 DEF CheckNext, host
<1>27. CASE RedirectNext(w)
  BY <1>27 DEF RedirectNext, host
<1>28. CASE GetNewChunk(w)
  BY <1>28 DEF GetNewChunk, host
<1>29. CASE UnlockNext(w)
  BY SMTT(30), <1>29 DEF UnlockNext, host
<1>30. CASE SplitCopy(w)
  BY <1>30 DEF SplitCopy, host
<1>31. CASE EmptyMoved(w)
  BY <1>31 DEF EmptyMoved, host
<1>32. CASE UnlockOther(w)
  BY <1>32 DEF UnlockOther, host
<1>33. CASE InsertPresent(w)
  BY <1>33 DEF InsertPresent, host
<1>34. CASE InsertFits(w)
  BY <1>34 DEF InsertFits, host
<1>35. CASE InsertOverflows(w)
  BY <1>35 DEF InsertOverflows, host
<1>36. CASE ShiftRight(w)
  BY <1>36 DEF ShiftRight, host
<1>37. CASE IsLevelEmpty(w)
  BY <1>37 DEF IsLevelEmpty, host
<1>38. CASE IncrementNumChunks(w)
  BY <1>38 DEF IncrementNumChunks, host
<1>39. CASE RaiseKey(w)
  BY <1>39 DEF RaiseKey, host
<1>40. CASE EraseAbsent(w)
  BY SMTT(30), <1>40 DEF EraseAbsent, host
<1>41. CASE EraseInPlace(w)
  BY <1>41 DEF EraseInPlace, host
<1>42. CASE LowerMax(w)
  BY <1>42 DEF LowerMax, host
<1>43. CASE ShiftLeft(w)
  BY <1>43 DEF ShiftLeft, host
<1>44. CASE EraseByMerge(w)
  BY <1>44 DEF EraseByMerge, host
<1>45. CASE MergeRead(w)
  BY <1>45 DEF MergeRead, host
<1>46. CASE UnlockNew(w)
  BY <1>46 DEF UnlockNew, host
<1>47. CASE MergeShift(w)
  BY <1>47 DEF MergeShift, host
<1>48. CASE ShiftData(w)
  BY <1>48 DEF ShiftData, host
<1>49. CASE MergeCopy(w)
  BY <1>49 DEF MergeCopy, host
<1>50. CASE MarkZombie(w)
  BY <1>50 DEF MarkZombie, host
<1>51. CASE DecrementNumChunks(w)
  BY <1>51 DEF DecrementNumChunks, host
<1>52. CASE UnlockMerged(w)
  BY <1>52 DEF UnlockMerged, host
<1>53. CASE ReadHeight(w)
  BY <1>53 DEF ReadHeight, host
<1>54. CASE DownSearched(w)
  BY <1>54 DEF DownSearched, host
<1>55. CASE DownRead(w)
  BY <1>55 DEF DownRead, host
<1>56. CASE DownLock(w)
  BY <1>56 DEF DownLock, host
<1>57. CASE DownWrite(w)
  BY <1>57 DEF DownWrite, host
<1>58. CASE DownUnlock(w)
  BY <1>58 DEF DownUnlock, host
<1>59. CASE UnlockEnclosing(w)
  BY <1>59 DEF UnlockEnclosing, host
<1>60. CASE UnlockBottom(w)
  BY <1>60 DEF UnlockBottom, host
<1> QED BY <1>1, <1>2, <1>3, <1>4, <1>5, <1>6, <1>7, <1>8, <1>9, <1>10, <1>11, <1>12, <1>13,
           <1>14, <1>15, <1>16, <1>17, <1>18, <1>19, <1>20, <1>21, <1>22, <1>23, <1>24,
           <1>25, <1>26, <1>27, <1>28, <1>29, <1>30, <1>31, <1>32, <1>33, <1>34, <1>35,
           <1>36, <1>37, <1>38, <1>39, <1>40, <1>41, <1>42, <1>43, <1>44, <1>45, <1>46,
           <1>47, <1>48, <1>49, <1>50, <1>51, <1>52, <1>53, <1>54, <1>55, <1>56, <1>57,
           <1>58, <1>59, <1>60
         DEF Step, Search, Enclose, FindNext, Split, InsertToLevel, EraseFromLevel,
             UpdateDownPtrs

\* At a store label a step is the store of that label.
LEMMA StoreActions ==
  ASSUME NEW w \in Warps, Step(w), pc[w] \in StoreLabels
  PROVE  \/ UnlinkZombies(w) \/ RedirectNext(w) \/ ShiftRight(w) \/ EmptyMoved(w)
         \/ LowerMax(w) \/ ShiftLeft(w) \/ ShiftData(w) \/ MergeCopy(w) \/ DownWrite(w)
         \/ SplitCopy(w) \/ GetNewChunk(w) \/ MarkZombie(w)
<1> USE DEF At, StoreLabels
<1>1. ~StartOp(w)
  BY DEF StartOp
<1>2. ~ReturnResult(w)
  BY DEF ReturnResult
<1>3. ~SearchStart(w)
  BY DEF SearchStart
<1>4. ~SearchRead(w)
  BY DEF SearchRead
<1>5. ~SearchMeetZombie(w)
  BY DEF SearchMeetZombie
<1>6. ~TryLockPrev(w)
  BY DEF TryLockPrev
<1>7. ~TryLockFails(w)
  BY DEF TryLockFails
<1>8. ~RecheckPrev(w)
  BY DEF RecheckPrev
<1>9. ~GiveUpUnlink(w)
  BY DEF GiveUpUnlink
<1>10. ~SkipZombie(w)
  BY DEF SkipZombie
<1>11. ~UnlockPrev(w)
  BY DEF UnlockPrev
<1>12. ~StepRight(w)
  BY DEF StepRight
<1>13. ~StepDown(w)
  BY DEF StepDown
<1>14. ~BackTrack(w)
  BY DEF BackTrack
<1>15. ~RestartSearch(w)
  BY DEF RestartSearch
<1>16. ~SearchRefuses(w)
  BY DEF SearchRefuses, OwnSearch
<1>17. ~SearchLeads(w)
  BY DEF SearchLeads, OwnSearch
<1>18. ~WalkToEnclosing(w)
  BY DEF WalkToEnclosing
<1>19. ~LockEnclosing(w)
  BY DEF LockEnclosing
<1>20. ~NotEnclosing(w)
  BY DEF NotEnclosing
<1>21. ~RetryEnclosing(w)
  BY DEF RetryEnclosing
<1>22. ~ReadNext(w)
  BY DEF ReadNext
<1>23. ~WalkToNext(w)
  BY DEF WalkToNext
<1>24. ~LockNext(w)
  BY DEF LockNext
<1>25. ~CheckNext(w)
  BY DEF CheckNext
<1>26. ~UnlockNext(w)
  BY DEF UnlockNext
<1>27. ~UnlockOther(w)
  BY DEF UnlockOther
<1>28. ~InsertPresent(w)
  BY DEF InsertPresent, Enclosing
<1>29. ~InsertFits(w)
  BY DEF InsertFits, Enclosing
<1>30. ~InsertOverflows(w)
  BY DEF InsertOverflows, Enclosing
<1>31. ~IsLevelEmpty(w)
  BY DEF IsLevelEmpty
<1>32. ~IncrementNumChunks(w)
  BY DEF IncrementNumChunks
<1>33. ~RaiseKey(w)
  BY DEF RaiseKey
<1>34. ~EraseAbsent(w)
  BY SMTT(30) DEF EraseAbsent, Enclosing
<1>35. ~EraseInPlace(w)
  BY DEF EraseInPlace, Enclosing
<1>36. ~EraseByMerge(w)
  BY DEF EraseByMerge, Enclosing
<1>37. ~MergeRead(w)
  BY DEF MergeRead
<1>38. ~UnlockNew(w)
  BY DEF UnlockNew
<1>39. ~MergeShift(w)
  BY DEF MergeShift
<1>40. ~DecrementNumChunks(w)
  BY DEF DecrementNumChunks
<1>41. ~UnlockMerged(w)
  BY DEF UnlockMerged
<1>42. ~ReadHeight(w)
  BY DEF ReadHeight
<1>43. ~DownSearched(w)
  BY DEF DownSearched
<1>44. ~DownRead(w)
  BY DEF DownRead
<1>45. ~DownLock(w)
  BY DEF DownLock
<1>46. ~DownUnlock(w)
  BY DEF DownUnlock
<1>47. ~UnlockEnclosing(w)
  BY DEF UnlockEnclosing
<1>48. ~UnlockBottom(w)
  BY DEF UnlockBottom
<1> QED BY <1>1, <1>2, <1>3, <1>4, <1>5, <1>6, <1>7, <1>8, <1>9, <1>10, <1>11, <1>12, <1>13,
           <1>14, <1>15, <1>16, <1>17, <1>18, <1>19, <1>20, <1>21, <1>22, <1>23, <1>24,
           <1>25, <1>26, <1>27, <1>28, <1>29, <1>30, <1>31, <1>32, <1>33, <1>34, <1>35,
           <1>36, <1>37, <1>38, <1>39, <1>40, <1>41, <1>42, <1>43, <1>44, <1>45, <1>46,
           <1>47, <1>48
         DEF Step, Search, Enclose, FindNext, Split, InsertToLevel, EraseFromLevel,
             UpdateDownPtrs

\* The chunk that a step of w stores to.
Target(w, c) ==
  \/ pc[w] = "unlink" /\ c = loc[w].prev
  \/ pc[w] \in {"nextSet", "empty"} /\ c = loc[w].ini
  \/ pc[w] = "copy" /\ c \in {loc[w].ini, loc[w].new}
  \/ pc[w] = "shift" /\ c = loc[w].tgt
  \/ pc[w] \in {"lowerMax", "unshift"} /\ c = loc[w].enc
  \/ pc[w] \in {"shiftBy", "mergeCopy"} /\ c = loc[w].nxt
  \/ pc[w] = "downWrite" /\ c = loc[w].cur
  \/ pc[w] = "alloc" /\ c = allocated

\* A step changes the words only of the chunk it targets.
LEMMA StepTargets ==
  ASSUME WordsOK, NEW w \in Warps, Step(w), NEW c \in Chunks, ~Target(w, c)
  PROVE  Same(c)
<1>1. CASE pc[w] \notin StoreLabels
  BY <1>1, StepStores
<1>2. CASE pc[w] \in StoreLabels
  <2> USE DEF At, Same, Target, WordsOK, Words
  <2>1. CASE UnlinkZombies(w)
    BY <2>1 DEF UnlinkZombies, UpdateNextVal
  <2>2. CASE RedirectNext(w)
    BY <2>2 DEF RedirectNext, UpdateNextVal
  <2>3. CASE ShiftRight(w)
    BY <2>3 DEF ShiftRight, Write
  <2>4. CASE EmptyMoved(w)
    BY <2>4 DEF EmptyMoved
  <2>5. CASE LowerMax(w)
    BY <2>5 DEF LowerMax
  <2>6. CASE ShiftLeft(w)
    BY <2>6 DEF ShiftLeft, Write
  <2>7. CASE ShiftData(w)
    BY SMTT(30), <2>7 DEF ShiftData, Write
  <2>8. CASE MergeCopy(w)
    BY ZenonT(40), <2>8 DEF MergeCopy
  <2>9. CASE DownWrite(w)
    BY ZenonT(40), <2>9 DEF DownWrite
  <2>10. CASE SplitCopy(w)
    BY ZenonT(40), <2>10 DEF SplitCopy
  <2>11. CASE GetNewChunk(w)
    BY <2>11 DEF GetNewChunk
  <2>12. CASE MarkZombie(w)
    BY <2>12 DEF MarkZombie
  <2> QED BY <1>2, StoreActions, <2>1, <2>2, <2>3, <2>4, <2>5, <2>6, <2>7, <2>8, <2>9, <2>10, <2>11, <2>12
<1> QED BY <1>1, <1>2

\* It targets a chunk that the warp holds, or the one it allocates.
LEMMA TargetsAreHeld ==
  ASSUME NEW w \in Warps, Control(w), NEW c, Target(w, c), pc[w] # "alloc"
  PROVE  Holds(w, c)
BY DEF Target, Control, Inserting, Holds, HasEnc, HasNxt, HasNew, HasCur, HasPrev, Shifting,
       NextLabels, SplitLabels, MergeLabels, LevelLabels, UnlinkLabels

\* A pool whose changed chunks are of their kind is of its kind.
LEMMA TypedPool ==
  ASSUME WordsOK', chunk \in [Chunks -> ChunkType],
         NEW T, \A c \in Chunks \ T : Same(c),
         \A c \in T \cap Chunks : /\ chunk'[c].data \in Datas
                                  /\ chunk'[c].max \in NegInf .. PosInf
                                  /\ chunk'[c].next \in Chunks \cup {Nil}
  PROVE  chunk' \in [Chunks -> ChunkType]
<1> SUFFICES ASSUME NEW c \in Chunks PROVE chunk'[c] \in ChunkType
  BY DEF WordsOK
<1>1. /\ chunk'[c] = [f \in Words |-> chunk'[c][f]]
      /\ chunk'[c].lock \in LockStates
  BY DEF WordsOK
<1>2. /\ chunk'[c].data \in Datas
      /\ chunk'[c].max \in NegInf .. PosInf
      /\ chunk'[c].next \in Chunks \cup {Nil}
  BY ChunkIs DEF Same
<1> QED BY <1>1, <1>2 DEF ChunkType, Words, Datas

-----------------------------------------------------------------------------
(* A step keeps its own warp in order: what all of them have in common. *)

\* The invariants before a step of w.
ListStep(g, w) ==
  /\ ExclusiveInv /\ ListInv(g)
  /\ w \in Warps /\ Step(w) /\ allocated' # 0 /\ Height \in Levels

\* A linked chunk has been allocated.
LEMMA LinkedIs ==
  ASSUME NEW g, ListInv(g), NEW c, Linked(g, c)
  PROVE  c \in Chunks /\ c \in Int /\ c < allocated /\ allocated \in Int /\ g.lvl[c] \in Levels
BY GhostsAre, ConstantsAre DEF ListInv, ListOK, Linked, Chunks

\* A chunk of a level is linked.
LEMMA OnIsLinked ==
  ASSUME NEW g, NEW l \in Levels, NEW c, On(g, l, c)
  PROVE  Linked(g, c) /\ c \in Chunks /\ g.lvl[c] = l
BY LevelsAre DEF On, Linked

\* What a linked chunk is.
LEMMA NodeIs ==
  ASSUME NEW g, ListInv(g), NEW c, Linked(g, c)
  PROVE  Node(g, c) /\ chunk[c] \in ChunkType
BY LinkedIs DEF ListInv, ListOK

\* Whatever a warp holds has been handed out by the pool.
LEMMA HeldIsAllocated ==
  ASSUME NEW g, ListInv(g), NEW w \in Warps, Control(w), NEW c \in Chunks, Holds(w, c)
  PROVE  c < allocated
<1> DEFINE r == loc[w]
           l == pc[w]
<1>0. /\ WarpOK(g, w) /\ c # Nil /\ allocated \in Int
      /\ \A d : Linked(g, d) => d < allocated
      /\ \A x \in Levels : \A d : On(g, x, d) => d < allocated
  BY LinkedIs, OnIsLinked, LevelsAre DEF ListInv
<1>1. CASE ~OnLevel(w)
  <2>1. CASE l \in {"take", "return"}
    BY <2>1 DEF Holds, HasBottom, HasEnc, HasNxt, HasNew, HasCur, HasPrev, GoingDown,
                NextLabels, SplitLabels, MergeLabels, DownLabels, LevelLabels, UnlinkLabels,
                SearchLabels
  <2>2. CASE l \in OwnLabels /\ r.caller # "down"
    <3>1. r.bottom = Nil
      BY <2>2 DEF Control, OwnLabels
    <3>2. HasPrev(w) /\ c = r.prev
      BY <2>2, <3>1, <1>0
         DEF Holds, HasBottom, HasEnc, HasNxt, HasNew, HasCur, HasPrev, GoingDown, OwnLabels,
             NextLabels, SplitLabels, MergeLabels, DownLabels, LevelLabels, UnlinkLabels,
             SearchLabels
    <3>3. SearchOK(g, w)
      BY <1>0, <3>2 DEF WarpOK, Walking, HasPrev
    <3> QED BY <1>0, <3>2, <3>3 DEF SearchOK, From
  <2> QED BY <1>1, <2>1, <2>2 DEF OnLevel
<1>2. CASE OnLevel(w)
  <2>1. LevelOK(g, w) /\ NextOK(g, w) /\ MergeOK(g, w) /\ DownOK(g, w)
    BY <1>0, <1>2 DEF WarpOK
  <2>2. r.level \in Levels /\ 0 \in Levels
    BY <2>1, LevelsAre DEF LevelOK
  <2>3. CASE c = r.bottom
    BY <2>1, <2>2, <2>3, <1>0 DEF LevelOK, From
  <2>4. CASE c = r.enc
    BY <2>1, <2>2, <2>4, <1>0 DEF LevelOK, From
  <2>5. CASE c = r.nxt
    BY <2>1, <2>2, <2>5, <1>0 DEF LevelOK
  <2>6. CASE c = r.new
    BY <2>1, <2>6, <1>0 DEF LevelOK
  <2>7. CASE HasCur(w) /\ c = r.cur
    <3>1. CASE l \in {"nextCheck", "nextSet"}
      BY <2>1, <2>2, <2>7, <3>1, <1>0 DEF NextOK, Follows
    <3>2. CASE l \in {"alloc", "unlockNext"}
      <4>1. On(g, r.level, r.ini) /\ r.cur = chunk[r.ini].next
        BY <2>1, <3>2 DEF LevelOK, NextOK, SplitLabels
      <4>2. On(g, r.level, r.cur)
        BY <4>1, <2>2, <2>7, <1>0, NodeIs, OnIsLinked DEF Node
      <4> QED BY <4>2, <2>2, <2>7, <1>0
    <3>3. CASE l = "mergeRead"
      <4>1. r.cur = chunk[r.enc].next /\ On(g, r.level, r.enc)
        BY <2>1, <3>3 DEF MergeOK, LevelOK, From
      <4>2. On(g, r.level, r.cur)
        BY <4>1, <2>2, <2>7, <1>0, NodeIs, OnIsLinked DEF Node
      <4> QED BY <4>2, <2>2, <2>7, <1>0
    <3>4. CASE l \in {"downWrite", "downUnlock"}
      BY <2>1, <2>2, <2>7, <3>4, <1>0 DEF DownOK, GoingDown, DownLabels
    <3> QED BY <2>7, <3>1, <3>2, <3>3, <3>4 DEF HasCur
  <2>8. CASE HasPrev(w) /\ c = r.prev
    <3>1. SearchOK(g, w)
      BY <1>0, <2>8 DEF WarpOK, Walking, HasPrev
    <3> QED BY <1>0, <2>8, <3>1 DEF SearchOK, From
  <2> QED BY <2>3, <2>4, <2>5, <2>6, <2>7, <2>8 DEF Holds
<1> QED BY <1>1, <1>2

\* A warp locks chunks of the list only.
LEMMA TakesLinked ==
  ASSUME NEW g, ListInv(g), NEW w \in Warps, Control(w), NEW c, Takes(w, c)
  PROVE  Linked(g, c)
<1> DEFINE r == loc[w]
           l == pc[w]
<1>0. WarpOK(g, w)
  BY DEF ListInv
<1>1. CASE l = "tryLock"
  BY <1>0, <1>1, OnIsLinked DEF Takes, WarpOK, Walking, SearchOK, From
<1>2. CASE l # "tryLock"
  <2>1. LevelOK(g, w) /\ NextOK(g, w) /\ DownOK(g, w)
    BY <1>0, <1>2
       DEF Takes, WarpOK, OnLevel, OwnLabels, SearchLabels, UnlinkLabels
  <2>2. r.level \in Levels
    BY <2>1 DEF LevelOK
  <2>3. CASE l = "encLock"
    <3>1. On(g, r.level, r.enc)
      BY <2>1 DEF LevelOK, From
    <3> QED BY ZenonT(40), <3>1, <2>2, <2>3, OnIsLinked DEF Takes
  <2>4. CASE l = "nextLock"
    BY ZenonT(40), <2>1, <2>2, <2>4, OnIsLinked DEF Takes, NextOK, Follows
  <2>5. CASE l = "downLock"
    BY SMTT(30), <2>1, <2>2, <2>5, OnIsLinked DEF Takes, DownOK, GoingDown, DownLabels
  <2> QED BY <1>2, <2>3, <2>4, <2>5 DEF Takes
<1> QED BY <1>1, <1>2

\* The chunk that the pool hands out next is nobody's.
LEMMA NewIsFree ==
  ASSUME NEW g, ListInv(g), ExclusiveInv
  PROVE  NewChunkIsFree
<1>1. allocated \in Chunks /\ allocated >= allocated /\ allocated \in Int
  BY ConstantsAre DEF ListInv, Chunks
<1>2. chunk[allocated].lock = "unlocked"
  BY <1>1 DEF ListInv, ListOK
<1>3. \A w \in Warps : ~Holds(w, allocated)
  BY <1>1, HeldIsAllocated DEF ExclusiveInv, ReleaseInv
<1> QED BY <1>2, <1>3 DEF NewChunkIsFree

\* Only getNewChunk moves the pool's counter, by one.
LEMMA StepAllocates ==
  ASSUME NEW g, NEW w, ListStep(g, w)
  PROVE  /\ allocated \in Int /\ allocated' \in Int
         /\ allocated' \in TopLevel + 1 .. PoolSize
         /\ allocated' = IF pc[w] = "alloc" THEN allocated + 1 ELSE allocated
<1>0. allocated \in TopLevel + 1 .. PoolSize /\ WordsOK /\ w \in Warps /\ Step(w) /\ allocated' # 0
  BY DEF ListStep, ListInv, ExclusiveInv, ReleaseInv, PoolOK, WordsOK
<1>1. CASE pc[w] \notin StoreLabels
  BY <1>0, <1>1, StepStores, ConstantsAre DEF StoreLabels
<1>2. CASE pc[w] \in StoreLabels
  <2>1. CASE GetNewChunk(w)
    BY <1>0, <2>1, ConstantsAre DEF GetNewChunk, At
  <2>2. CASE ~GetNewChunk(w)
    <3>1. allocated' = allocated /\ pc[w] # "alloc"
      BY ZenonT(40), <1>0, <1>2, <2>2, StoreActions
         DEF UnlinkZombies, RedirectNext, ShiftRight, EmptyMoved, LowerMax, ShiftLeft,
             ShiftData, MergeCopy, DownWrite, SplitCopy, MarkZombie, At
    <3> QED BY SMTT(30), <1>0, <3>1, ConstantsAre
  <2> QED BY <2>1, <2>2
<1> QED BY <1>1, <1>2

\* The chunks that the pool has not handed out stay as they are.
LEMMA FreeStays ==
  ASSUME NEW g, NEW w, ListStep(g, w), NEW c \in Chunks, c >= allocated'
  PROVE  g.lvl[c] = Nil /\ chunk'[c].lock = "unlocked" /\ c >= allocated
<1>1. c \in Int /\ c >= allocated /\ (pc[w] = "alloc" => c # allocated)
  BY StepAllocates, LevelsAre
<1>2. g.lvl[c] = Nil /\ chunk[c].lock = "unlocked"
  BY <1>1 DEF ListStep, ListInv, ListOK
<1>3. ~Takes(w, c)
  BY <1>2, TakesLinked DEF ListStep, ExclusiveInv, ReleaseInv, Linked
<1>4. Control(w) /\ ListInv(g) /\ w \in Warps /\ allocated \in Int
  BY StepAllocates DEF ListStep, ExclusiveInv, ReleaseInv
<1>5. ~Holds(w, c)
  BY <1>1, <1>4, HeldIsAllocated
<1>6. ~(pc[w] = "markZombie" /\ c = loc[w].enc)
  BY <1>5 DEF Holds, HasEnc, MergeLabels
<1>7. chunk'[c].lock = StepLock(w, c)
  BY StepPool DEF ListStep, ExclusiveInv, ReleaseInv, LockStep
<1> QED BY <1>1, <1>2, <1>3, <1>6, <1>7 DEF StepLock, Given

\* What another warp has locked stays as it is.
LEMMA HeldStays ==
  ASSUME NEW g, NEW w, ListStep(g, w), NEW v \in Warps, v # w,
         NEW c \in Chunks, Mine(c), Holds(v, c)
  PROVE  chunk'[c] = chunk[c]
<1>0. /\ Control(w) /\ w \in Warps /\ WordsOK /\ Step(w) /\ NewChunkIsFree
      /\ LocksExclusive /\ ExclusiveInv
  BY NewIsFree DEF ListStep, ExclusiveInv, ReleaseInv, PoolOK, WordsOK
<1>1. chunk[c].lock = "locked"
  BY DEF Mine
<1>2. ~Holds(w, c)
  BY <1>0, <1>1 DEF LocksExclusive
<1>3. c # allocated
  BY <1>0, <1>1 DEF NewChunkIsFree
<1>4. ~Target(w, c)
  BY <1>0, <1>2, <1>3, TargetsAreHeld DEF Target
<1>5. Same(c)
  BY <1>0, <1>4, StepTargets
<1>6. chunk'[c].lock = chunk[c].lock
  <2>1. chunk'[c].lock = StepLock(w, c) /\ ~Takes(w, c)
    BY <1>0, <1>1, StepPool DEF ExclusiveInv, ReleaseInv, LockStep
  <2>2. ~Gives(w, c)
    BY <1>0, <1>2, GivesOwn
  <2>3. ~(pc[w] = "markZombie" /\ c = loc[w].enc)
    BY <1>2 DEF Holds, HasEnc, MergeLabels
  <2> QED BY <2>1, <2>2, <2>3, <1>3 DEF StepLock
<1>7. WordsOK'
  BY StepPool DEF ListStep, ExclusiveInv, ReleaseInv, PoolOK, WordsOK
<1> QED BY <1>0, <1>5, <1>6, <1>7 DEF WordsOK, Same, Words

\* A dead chunk keeps its successor.
LEMMA CorpseStays ==
  ASSUME NEW g, NEW w, ListStep(g, w), NEW c \in Chunks, IsZombie(chunk[c])
  PROVE  IsZombie(chunk'[c]) /\ chunk'[c].next = chunk[c].next /\ chunk'[c].max = chunk[c].max
<1>0. /\ Control(w) /\ w \in Warps /\ WordsOK /\ Step(w) /\ NewChunkIsFree
      /\ ExclusiveInv /\ WarpOK(g, w)
  BY NewIsFree DEF ListStep, ListInv, ExclusiveInv, ReleaseInv, PoolOK, WordsOK
<1>1. chunk[c].lock = "zombie" /\ c # allocated
  BY <1>0 DEF NewChunkIsFree, IsZombie
<1>2. chunk'[c].lock = "zombie"
  BY <1>0, <1>1, StepPool
     DEF ExclusiveInv, ReleaseInv, LockStep, StepLock, Taken, Given
<1>3. CASE pc[w] \in {"downWrite", "shift", "empty", "unshift", "shiftBy", "mergeCopy"}
  <2>1. \/ DownWrite(w) \/ ShiftRight(w) \/ EmptyMoved(w) \/ ShiftLeft(w) \/ ShiftData(w)
        \/ MergeCopy(w)
    BY <1>0, <1>3, StoreActions
       DEF StoreLabels, UnlinkZombies, RedirectNext, LowerMax, SplitCopy, GetNewChunk,
           MarkZombie, At
  <2>2. chunk'[c].next = chunk[c].next /\ chunk'[c].max = chunk[c].max
    <3> USE <1>0 DEF WordsOK, Words
    <3>1. CASE DownWrite(w)
      BY <3>1 DEF DownWrite
    <3>2. CASE ShiftRight(w)
      BY <3>2 DEF ShiftRight, Write
    <3>3. CASE EmptyMoved(w)
      BY <3>3 DEF EmptyMoved
    <3>4. CASE ShiftLeft(w)
      BY <3>4 DEF ShiftLeft, Write
    <3>5. CASE ShiftData(w)
      BY SMTT(30), <3>5 DEF ShiftData, Write
    <3>6. CASE MergeCopy(w)
      BY ZenonT(40), <3>6 DEF MergeCopy
    <3> QED BY <2>1, <3>1, <3>2, <3>3, <3>4, <3>5, <3>6
  <2> QED BY <1>2, <2>2 DEF IsZombie
<1>4. CASE pc[w] \notin {"downWrite", "shift", "empty", "unshift", "shiftBy", "mergeCopy"}
  <2>1. ASSUME Target(w, c) PROVE FALSE
    <3>1. CASE pc[w] = "unlink"
      <4>1. SearchOK(g, w)
        BY <1>0, <3>1 DEF WarpOK, Walking, UnlinkLabels
      <4> QED BY <2>1, <3>1, <4>1, <1>1 DEF SearchOK, UnlinkLabels, Mine, Target
    <3>2. CASE pc[w] # "unlink"
      <4>1. LevelOK(g, w) /\ NextOK(g, w)
        BY <1>0, <2>1, <3>2
           DEF Target, WarpOK, OnLevel, OwnLabels, SearchLabels, UnlinkLabels
      <4>2. pc[w] = "copy" => chunk[loc[w].new].lock = "locked"
        BY <4>1 DEF NextOK, FreshChunk
      <4> QED BY <2>1, <3>2, <4>1, <4>2, <1>1, <1>4
              DEF LevelOK, EncLocked, NextLabels, SplitLabels, Mine, Target
    <3> QED BY <3>1, <3>2
  <2> QED BY <1>0, <1>2, <2>1, StepTargets DEF Same, IsZombie
<1> QED BY <1>3, <1>4

\* Ghosts that stay as they are have sunk by nothing.
LEMMA SinksSelf ==
  ASSUME NEW g \in Ghosts
  PROVE  Sinks(g, g)
BY GhostsAre DEF Sinks

\* A step of one warp leaves the world of another in order.
LEMMA StepSteady ==
  ASSUME NEW g, NEW w, ListStep(g, w), NEW v \in Warps, v # w
  PROVE  Steady(g, g, v)
<1>1. Sinks(g, g)
  BY SinksSelf DEF ListStep, ListInv
<1>2. allocated \in Int /\ allocated' \in Int /\ allocated <= allocated'
  BY StepAllocates
<1>3. \A c \in Chunks : IsZombie(chunk[c]) =>
        IsZombie(chunk'[c]) /\ chunk'[c].next = chunk[c].next
  BY CorpseStays
<1>4. ASSUME NEW c \in Chunks, Mine(c), Holds(v, c)
      PROVE  /\ chunk'[c] = chunk[c]
             /\ \A l \in Levels : \A d : Follows(g, l, c, d) => Follows(g, l, c, d)'
  <2>1. chunk'[c] = chunk[c]
    BY <1>4, HeldStays
  <2> QED BY <2>1 DEF Follows, On
<1>5. pc'[v] = pc[v] /\ loc'[v] = loc[v]
  BY StepFrame DEF ListStep, ExclusiveInv, ReleaseInv
<1> QED BY <1>1, <1>2, <1>3, <1>4, <1>5 DEF Steady

\* What the proofs about a step use of it.
LEMMA StepFacts ==
  ASSUME NEW g, NEW w, ListStep(g, w)
  PROVE  /\ w \in Warps /\ Step(w) /\ Control(w) /\ WarpOK(g, w) /\ RegistersOK
         /\ WordsOK /\ WordsOK' /\ LockStep(w)
         /\ g \in Ghosts /\ ListOK(g) /\ chunk \in [Chunks -> ChunkType]
         /\ \A v \in Warps \ {w} : pc'[v] = pc[v] /\ loc'[v] = loc[v]
BY StepPool, StepFrame DEF ListStep, ListInv, ExclusiveInv, ReleaseInv, PoolOK, WordsOK

\* Only the end of a merge kills a chunk.
LEMMA AliveStays ==
  ASSUME NEW g, NEW w, ListStep(g, w), NEW c \in Chunks,
         ~(pc[w] = "markZombie" /\ c = loc[w].enc)
  PROVE  IsZombie(chunk'[c]) <=> IsZombie(chunk[c])
<1>0. LockStep(w) /\ WordsOK
  BY StepFacts
<1>1. chunk'[c].lock = StepLock(w, c) /\ chunk[c].lock \in LockStates
  BY <1>0 DEF LockStep, WordsOK
<1>2. IsZombie(chunk[c]) => IsZombie(chunk'[c])
  BY CorpseStays
<1>3. chunk[c].lock # "zombie" => StepLock(w, c) # "zombie"
  BY <1>1 DEF StepLock, Taken, Given
<1> QED BY <1>1, <1>2, <1>3 DEF IsZombie

\* The other warps are as busy after the step as before.
LEMMA OthersBusy ==
  ASSUME NEW g, NEW w, ListStep(g, w), NEW v \in Warps \ {w}, NEW c
  PROVE  Busy(v, c)' <=> Busy(v, c)
BY StepFacts DEF Busy

\* The list stays in order when no chunk's range changes.
LEMMA ListKept ==
  ASSUME NEW g, NEW w, ListStep(g, w), pc[w] # "markZombie",
         chunk' \in [Chunks -> ChunkType],
         \A c \in Chunks : Linked(g, c) =>
           /\ chunk'[c].max = chunk[c].max
           /\ chunk'[c].next # chunk[c].next =>
                /\ ~IsZombie(chunk[c]) /\ chunk[c].next # Nil
                /\ Follows(g, g.lvl[c], c, chunk'[c].next)
           /\ DataOK(g, chunk'[c].data, g.lvl[c])
           /\ ~IsZombie(chunk[c]) =>
                \/ Fine(chunk'[c].data, g.low[c], chunk[c].max)
                \/ \E v \in Warps : Busy(v, c)'
  PROVE  ListOK(g)'
<1>0. ListOK(g) /\ ListInv(g)
  BY DEF ListStep, ListInv
<1>1. ASSUME NEW l \in Levels
      PROVE  \E c \in Chunks : On(g, l, c) /\ chunk'[c].next = Nil
  <2>1. PICK c \in Chunks : On(g, l, c) /\ chunk[c].next = Nil
    BY <1>0 DEF ListOK
  <2> QED BY <2>1, OnIsLinked
<1>2. \A c \in Chunks : c >= allocated' => g.lvl[c] = Nil /\ chunk'[c].lock = "unlocked"
  BY FreeStays
<1>3. ASSUME NEW c \in Chunks, Linked(g, c)
      PROVE  Node(g, c)'
  <2> DEFINE n == chunk[c].next
             m == chunk'[c].next
  <2>1. IsZombie(chunk'[c]) <=> IsZombie(chunk[c])
    BY AliveStays
  <2>2. Node(g, c)
    BY <1>0, <1>3, NodeIs
  <2>3. /\ chunk'[c].max = chunk[c].max
        /\ DataOK(g, chunk'[c].data, g.lvl[c])
        /\ ~IsZombie(chunk[c]) => \/ Fine(chunk'[c].data, g.low[c], chunk'[c].max)
                                  \/ \E v \in Warps : Busy(v, c)'
    BY <1>3
  <2>4. EndOf(g, c)' = EndOf(g, c)
    BY <2>1, <2>3 DEF EndOf
  <2>5. CASE m = n
    BY <2>1, <2>2, <2>3, <2>4, <2>5 DEF Node
  <2>6. CASE m # n
    <3>1. ~IsZombie(chunk[c]) /\ n # Nil /\ Follows(g, g.lvl[c], c, m)
      BY <1>3, <2>6
    <3>2. m # Nil
      BY <3>1, LevelsAre DEF Follows, On
    <3> QED BY <2>1, <2>2, <2>3, <2>4, <3>1, <3>2 DEF Node, Follows, EndOf
  <2> QED BY <2>5, <2>6
<1>4. ASSUME NEW c \in Chunks, NEW d \in Chunks, Linked(g, c), g.lvl[d] = g.lvl[c], c # d,
             ~IsZombie(chunk'[c]), ~IsZombie(chunk'[d])
      PROVE  chunk'[c].max <= g.low[d] \/ chunk'[d].max <= g.low[c]
  <2>1. ~IsZombie(chunk[c]) /\ ~IsZombie(chunk[d])
    BY <1>4, AliveStays
  <2>2. Linked(g, d)
    BY <1>4 DEF Linked
  <2>3. chunk'[c].max = chunk[c].max /\ chunk'[d].max = chunk[d].max
    BY <1>4, <2>2
  <2> QED BY <1>0, <1>4, <2>1, <2>3 DEF ListOK
<1>5. \A l \in Levels : g.lvl[l] = l /\ g.low[l] = NegInf - 1 /\ l \in g.chain
  BY <1>0 DEF ListOK
<1> QED BY <1>1, <1>2, <1>3, <1>4, <1>5 DEF ListOK, On, Linked

\* The entries of a linked chunk.
LEMMA DataOfNode ==
  ASSUME NEW g, ListInv(g), NEW c, Linked(g, c)
  PROVE  /\ DataOK(g, chunk[c].data, g.lvl[c])
         /\ ~IsZombie(chunk[c]) =>
              \/ Fine(chunk[c].data, g.low[c], chunk[c].max)
              \/ \E v \in Warps : Busy(v, c)
BY NodeIs DEF Node

\* A step that stores no word of a chunk but locks.
LEMMA QuietList ==
  ASSUME NEW g, NEW w, ListStep(g, w), pc[w] \notin StoreLabels
  PROVE  chunk' \in [Chunks -> ChunkType] /\ ListOK(g)' /\ allocated' = allocated
<1>1. allocated' = allocated /\ \A c \in Chunks : Same(c)
  BY StepFacts, StepStores
<1>2. chunk' \in [Chunks -> ChunkType]
  <2>1. WordsOK' /\ chunk \in [Chunks -> ChunkType]
    BY StepFacts
  <2>2. (\A c \in Chunks \ {} : Same(c)) /\ {} \cap Chunks = {}
    BY <1>1
  <2> QED BY <2>1, <2>2, TypedPool
<1>3. pc[w] # "markZombie"
  BY DEF StoreLabels
<1>5. \A c : ~Busy(w, c)
  BY DEF Busy, StoreLabels
<1>6. ListInv(g)
  BY DEF ListStep
<1>7. ASSUME NEW c \in Chunks, Linked(g, c)
      PROVE  /\ chunk'[c].max = chunk[c].max /\ chunk'[c].next = chunk[c].next
             /\ DataOK(g, chunk'[c].data, g.lvl[c])
             /\ ~IsZombie(chunk[c]) =>
                  \/ Fine(chunk'[c].data, g.low[c], chunk[c].max)
                  \/ \E v \in Warps : Busy(v, c)'
  BY <1>1, <1>5, <1>6, <1>7, DataOfNode, OthersBusy DEF Same
<1> QED BY <1>1, <1>2, <1>3, <1>7, ListKept

\* A step that stores entries of chunk d.
LEMMA DataList ==
  ASSUME NEW g, NEW w, ListStep(g, w), pc[w] \notin {"markZombie", "alloc"},
         NEW d \in Chunks, Linked(g, d), \A c \in Chunks \ {d} : Same(c),
         chunk'[d].max = chunk[d].max, chunk'[d].next = chunk[d].next,
         DataOK(g, chunk'[d].data, g.lvl[d]),
         ~IsZombie(chunk[d]) => \/ Fine(chunk'[d].data, g.low[d], chunk[d].max)
                                \/ \E v \in Warps : Busy(v, d)',
         \A c \in Chunks \ {d} : Busy(w, c) => Busy(w, c)'
  PROVE  chunk' \in [Chunks -> ChunkType] /\ ListOK(g)'
<1>1. chunk[d] \in ChunkType /\ ListInv(g)
  BY StepFacts DEF ListStep
<1>2. chunk' \in [Chunks -> ChunkType]
  <2>1. WordsOK' /\ chunk \in [Chunks -> ChunkType]
    BY StepFacts
  <2>2. /\ chunk'[d].data \in Datas
        /\ chunk'[d].max \in NegInf .. PosInf
        /\ chunk'[d].next \in Chunks \cup {Nil}
    BY <1>1, ChunkIs DEF DataOK
  <2>3. \A c \in {d} \cap Chunks : /\ chunk'[c].data \in Datas
                                   /\ chunk'[c].max \in NegInf .. PosInf
                                   /\ chunk'[c].next \in Chunks \cup {Nil}
    BY <2>2
  <2> QED BY <2>1, <2>3, TypedPool
<1>3. ASSUME NEW c \in Chunks, Linked(g, c)
      PROVE  /\ chunk'[c].max = chunk[c].max /\ chunk'[c].next = chunk[c].next
             /\ DataOK(g, chunk'[c].data, g.lvl[c])
             /\ ~IsZombie(chunk[c]) =>
                  \/ Fine(chunk'[c].data, g.low[c], chunk[c].max)
                  \/ \E v \in Warps : Busy(v, c)'
  <2>1. CASE c = d
    BY <2>1
  <2>2. CASE c # d
    BY <2>2, <1>1, <1>3, DataOfNode, OthersBusy DEF Same
  <2> QED BY <2>1, <2>2
<1> QED BY <1>2, <1>3, ListKept

\* A step that stores the next pointer of chunk d, which is locked.
LEMMA NextList ==
  ASSUME NEW g, NEW w, ListStep(g, w), pc[w] \in {"unlink", "nextSet"},
         NEW d \in Chunks, NEW e, Mine(d), Follows(g, g.lvl[d], d, e), Linked(g, d),
         UpdateNextVal(d, e)
  PROVE  chunk' \in [Chunks -> ChunkType] /\ ListOK(g)'
<1>1. chunk[d] \in ChunkType /\ ListInv(g) /\ WordsOK /\ WordsOK' /\ chunk \in [Chunks -> ChunkType]
  BY StepFacts DEF ListStep
<1>2. /\ \A c \in Chunks \ {d} : Same(c)
      /\ chunk'[d].data = chunk[d].data /\ chunk'[d].max = chunk[d].max /\ chunk'[d].next = e
  BY <1>1 DEF UpdateNextVal, WordsOK, Words, Same
<1>3. e \in Chunks
  BY DEF Follows, On
<1>4. chunk' \in [Chunks -> ChunkType]
  <2>1. /\ chunk'[d].data \in Datas
        /\ chunk'[d].max \in NegInf .. PosInf
        /\ chunk'[d].next \in Chunks \cup {Nil}
    BY <1>1, <1>2, <1>3, ChunkIs
  <2>2. \A c \in {d} \cap Chunks : /\ chunk'[c].data \in Datas
                                   /\ chunk'[c].max \in NegInf .. PosInf
                                   /\ chunk'[c].next \in Chunks \cup {Nil}
    BY <2>1
  <2> QED BY <1>1, <1>2, <2>2, TypedPool
<1>5. \A c : ~Busy(w, c)
  BY DEF Busy
<1>6. ASSUME NEW c \in Chunks, Linked(g, c)
      PROVE  /\ chunk'[c].max = chunk[c].max /\ chunk'[c].data = chunk[c].data
             /\ chunk'[c].next # chunk[c].next => c = d
             /\ DataOK(g, chunk'[c].data, g.lvl[c])
             /\ ~IsZombie(chunk[c]) =>
                  \/ Fine(chunk'[c].data, g.low[c], chunk[c].max)
                  \/ \E v \in Warps : Busy(v, c)'
  <2>1. chunk'[c].max = chunk[c].max /\ chunk'[c].data = chunk[c].data
        /\ (chunk'[c].next # chunk[c].next => c = d)
    BY <1>2 DEF Same
  <2> QED BY <2>1, <1>1, <1>5, <1>6, DataOfNode, OthersBusy
<1>7. chunk'[d].next # chunk[d].next =>
        /\ ~IsZombie(chunk[d]) /\ chunk[d].next # Nil
        /\ Follows(g, g.lvl[d], d, chunk'[d].next)
  BY <1>2 DEF Mine, IsZombie, Follows
<1> QED BY <1>4, <1>6, <1>7, ListKept

\* A chunk that one warp holds and has not begun to change is in order.
LEMMA HeldIsFine ==
  ASSUME NEW g, ListInv(g), ExclusiveInv, NEW w \in Warps, NEW c \in Chunks,
         Linked(g, c), Holds(w, c), ~IsZombie(chunk[c]), ~Busy(w, c)
  PROVE  Mine(c) /\ Fine(chunk[c].data, g.low[c], chunk[c].max)
<1>1. chunk[c].lock = "locked" /\ \A v \in Warps : Holds(v, c) => v = w
  BY DEF ExclusiveInv, ReleaseInv, PoolOK, LocksExclusive, LockStates, IsZombie
<1>2. ASSUME NEW v \in Warps, Busy(v, c) PROVE Holds(v, c)
  BY <1>2 DEF ExclusiveInv, ReleaseInv, Control, Busy, Holds, HasEnc, HasNxt, HasNew, Shifting,
              LevelLabels, SplitLabels, MergeLabels
<1> QED BY <1>1, <1>2, DataOfNode DEF Mine

-----------------------------------------------------------------------------
(* The steps of a search. *)

\* To the right of a chunk left behind there is a chunk to go on with.
LEMMA RightOf ==
  ASSUME NEW g, ListInv(g), NEW l \in Levels, NEW k \in NegInf .. MaxKey, NEW c,
         From(g, l, c, k), IsZombie(chunk[c]) \/ TidForNextStep(k, chunk[c]) = TidNext
  PROVE  From(g, l, chunk[c].next, k)
<1>1. Linked(g, c) /\ c \in Chunks /\ g.lvl[c] = l /\ g.low[c] < k
  BY OnIsLinked DEF From
<1>2. Node(g, c) /\ chunk[c] \in ChunkType /\ g \in Ghosts
  BY <1>1, NodeIs DEF ListInv
<1>3. k \in Int /\ k # PosInf /\ k < PosInf /\ g.low[c] \in Int /\ chunk[c].max \in Int
  BY <1>1, <1>2, ConstantsAre, GhostsAre, ChunkIs DEF NegInf, PosInf
<1>4. CASE IsZombie(chunk[c])
  <2>1. chunk[c].next # Nil
    BY <1>2, <1>4 DEF Node
  <2>2. On(g, l, chunk[c].next) /\ g.low[chunk[c].next] <= g.low[c]
    BY <1>1, <1>2, <1>4, <2>1 DEF Node
  <2>3. g.low[chunk[c].next] \in Int
    BY <2>2, <1>2, GhostsAre DEF On
  <2> QED BY <1>1, <1>3, <2>2, <2>3 DEF From
<1>5. CASE ~IsZombie(chunk[c]) /\ TidForNextStep(k, chunk[c]) = TidNext
  <2>1. chunk[c].max < k
    BY <1>5, NextLane
  <2>2. chunk[c].next # Nil /\ c \in g.chain
    BY <1>2, <1>3, <1>5, <2>1 DEF Node
  <2>3. On(g, l, chunk[c].next) /\ g.low[chunk[c].next] = chunk[c].max
    BY <1>1, <1>2, <1>5, <2>2 DEF Node, EndOf
  <2> QED BY <2>1, <2>3 DEF From
<1> QED BY <1>4, <1>5

\* A chunk that follows a zombie which follows p follows p.
LEMMA FollowsDead ==
  ASSUME NEW g, ListInv(g), NEW l \in Levels, NEW p, NEW c, Follows(g, l, p, c),
         IsZombie(chunk[c])
  PROVE  Follows(g, l, p, chunk[c].next) /\ g.low[chunk[c].next] = g.low[c]
<1>1. /\ On(g, l, p) /\ On(g, l, c) /\ c \in g.chain /\ g.low[c] = chunk[p].max
      /\ g.rank[c] < g.rank[p] /\ chunk[p].next # Nil /\ g \in Ghosts
  BY DEF Follows, ListInv
<1>2. Node(g, c) /\ g.lvl[c] = l
  BY ZenonT(40), <1>1, OnIsLinked, NodeIs
<1> DEFINE n == chunk[c].next
<1>3. n # Nil
  BY <1>2 DEF Node
<1>4. On(g, l, n) /\ g.rank[n] < g.rank[c] /\ n \in g.chain /\ g.low[n] = g.low[c]
  BY <1>1, <1>2, <1>3 DEF Node, EndOf
<1>5. g.rank[n] < g.rank[p]
  <2>1. g.rank[n] \in Nat /\ g.rank[c] \in Nat /\ g.rank[p] \in Nat
    BY <1>1, <1>4, GhostsAre DEF On
  <2> QED BY <1>1, <1>4, <2>1
<1> QED BY <1>1, <1>4, <1>5 DEF Follows

\* A chunk next to one that is alive.
LEMMA FollowsNext ==
  ASSUME NEW g, ListInv(g), NEW l \in Levels, NEW p, On(g, l, p), ~IsZombie(chunk[p]),
         chunk[p].next # Nil
  PROVE  Follows(g, l, p, chunk[p].next)
<1>1. Node(g, p) /\ g.lvl[p] = l
  BY OnIsLinked, NodeIs
<1> QED BY <1>1 DEF Node, EndOf, Follows

\* A locked chunk stays locked unless the warp unlocks it or makes it a zombie.
LEMMA MineStays ==
  ASSUME NEW g, NEW w, ListStep(g, w), NEW c \in Chunks, Mine(c), ~Gives(w, c),
         ~(pc[w] = "markZombie" /\ c = loc[w].enc)
  PROVE  Mine(c)'
<1>1. LockStep(w)
  BY StepFacts
<1> QED BY <1>1 DEF Mine, LockStep, StepLock

\* The registers of the level an operation is on.
LevelRegs(w) ==
  /\ loc'[w].kind = loc[w].kind /\ loc'[w].key = loc[w].key /\ loc'[w].route = loc[w].route
  /\ loc'[w].level = loc[w].level /\ loc'[w].enc = loc[w].enc
  /\ loc'[w].bottom = loc[w].bottom /\ loc'[w].val = loc[w].val
  /\ loc'[w].nxt = loc[w].nxt /\ loc'[w].new = loc[w].new

\* An operation stays in order on its level while the registers of the level stay.
LEMMA LevelKept ==
  ASSUME NEW g, NEW w, ListStep(g, w), LevelOK(g, w), LevelRegs(w),
         pc'[w] = "raise" => loc[w].bottom # Nil,
         pc'[w] = "height" => ~Inserting(w),
         pc'[w] \in EncLocked => Mine(loc[w].enc)',
         pc'[w] \in NextLabels \cup SplitLabels =>
           On(g, loc[w].level, loc'[w].ini) /\ Mine(loc[w].ini)',
         pc'[w] = "unlockNew" => loc'[w].ini = loc[w].nxt
  PROVE  LevelOK(g, w)'
<1>1. loc[w].new # Nil => loc[w].new < allocated'
  <2>1. loc[w].new # Nil => loc[w].new \in Chunks /\ loc[w].new < allocated
    BY DEF LevelOK
  <2>2. allocated \in Int /\ allocated' \in Int /\ allocated <= allocated'
    BY StepAllocates
  <2>3. loc[w].new # Nil => loc[w].new \in Int
    BY <2>1, LevelsAre
  <2> QED BY <2>1, <2>2, <2>3
<1>2. loc'[w].new # Nil => loc'[w].new \in Chunks /\ loc'[w].new < allocated'
  BY <1>1 DEF LevelOK, LevelRegs
<1>3. /\ \A x \in Levels : From(g, x, loc'[w].route[x], loc'[w].key)
      /\ loc'[w].level \in Levels
      /\ From(g, loc'[w].level, loc'[w].enc, loc'[w].key)
      /\ loc'[w].bottom # Nil => From(g, 0, loc'[w].bottom, loc'[w].key)
      /\ loc'[w].nxt # Nil => On(g, loc'[w].level, loc'[w].nxt)
      /\ Inserting(w)' /\ loc'[w].level > 0 =>
           From(g, loc'[w].level - 1, loc'[w].val, loc'[w].key)
  BY DEF LevelOK, LevelRegs, Inserting
<1>4. /\ pc'[w] = "raise" => loc'[w].bottom # Nil
      /\ pc'[w] = "height" => ~Inserting(w)'
      /\ pc'[w] \in EncLocked => Mine(loc[w].enc)'
      /\ pc'[w] \in NextLabels \cup SplitLabels =>
           On(g, loc'[w].level, loc'[w].ini) /\ Mine(loc[w].ini)'
      /\ pc'[w] = "unlockNew" => loc'[w].ini = loc'[w].nxt
  BY DEF LevelRegs, Inserting, Mine
<1> HIDE DEF LevelRegs
<1> QED BY <1>2, <1>3, <1>4 DEF LevelOK

\* What a search leaves alone.
OpRegs(w) ==
  /\ LevelRegs(w)
  /\ loc'[w].caller = loc[w].caller /\ loc'[w].sk = loc[w].sk /\ loc'[w].top = loc[w].top
  /\ loc'[w].tgt = loc[w].tgt /\ loc'[w].min = loc[w].min /\ loc'[w].max = loc[w].max

\* A step within a search keeps the warp in order if it keeps the search in order.
LEMMA SearchRest ==
  ASSUME NEW g, NEW w, ListStep(g, w), pc[w] \in OwnLabels, pc'[w] \in OwnLabels,
         OpRegs(w), pc'[w] \in Walking => SearchOK(g, w)'
  PROVE  WarpOK(g, w)'
<1> USE DEF OwnLabels, SearchLabels, UnlinkLabels, OpRegs
<1>1. WarpOK(g, w)
  BY StepFacts
<1>2. /\ loc'[w].top \in Levels
      /\ loc'[w].key \in 1 .. MaxKey /\ loc'[w].val \in Int
      /\ loc'[w].sk \in NegInf .. MaxKey /\ (loc'[w].caller = "op" => loc'[w].sk = loc'[w].key)
  BY <1>1 DEF WarpOK, LevelRegs
<1>3. OnLevel(w)' <=> OnLevel(w)
  BY DEF OnLevel
<1>4. ASSUME OnLevel(w)
      PROVE  /\ LevelOK(g, w)' /\ NextOK(g, w)' /\ SplitOK(g, w)' /\ ShiftOK(g, w)'
             /\ EraseOK(g, w)' /\ MergeOK(g, w)' /\ DownOK(g, w)'
  <2>1. LevelOK(g, w) /\ DownOK(g, w) /\ GoingDown(w) /\ GoingDown(w)'
    BY <1>1, <1>4 DEF WarpOK, OnLevel, GoingDown
  <2>2. LevelOK(g, w)'
    BY SMTT(30), <2>1, LevelKept DEF EncLocked, NextLabels, SplitLabels
  <2>3. NextOK(g, w)' /\ SplitOK(g, w)' /\ ShiftOK(g, w)' /\ EraseOK(g, w)'
    BY DEF NextOK, SplitOK, ShiftOK, EraseOK, InsertSplits, NextLabels
  <2>4. MergeOK(g, w)'
    BY DEF MergeOK, Merging, NextLabels, SplitLabels, MergeTail
  <2>5. DownOK(g, w)'
    BY <2>1 DEF DownOK, DownLabels, LevelRegs
  <2> QED BY <2>2, <2>3, <2>4, <2>5
<1> QED BY <1>2, <1>3, <1>4 DEF WarpOK

\* What a search knows where it reads.
LEMMA SearchFacts ==
  ASSUME NEW g, NEW w, ListStep(g, w), pc[w] \in Walking
  PROVE  /\ SearchOK(g, w) /\ loc[w].sk \in NegInf .. MaxKey /\ loc[w].sk \in Int
         /\ loc[w].h \in Levels /\ From(g, loc[w].h, loc[w].cur, loc[w].sk)
         /\ loc[w].cur \in Chunks /\ Linked(g, loc[w].cur) /\ g.lvl[loc[w].cur] = loc[w].h
         /\ DataOK(g, chunk[loc[w].cur].data, loc[w].h)
         /\ loc[w].prev # Nil =>
              /\ loc[w].prev \in Chunks /\ Linked(g, loc[w].prev)
              /\ g.lvl[loc[w].prev] = loc[w].h
              /\ DataOK(g, chunk[loc[w].prev].data, loc[w].h)
<1>1. WarpOK(g, w) /\ ListInv(g)
  BY StepFacts DEF ListStep
<1>2. SearchOK(g, w) /\ loc[w].sk \in NegInf .. MaxKey
  BY <1>1 DEF WarpOK, Walking, OwnLabels, SearchLabels, UnlinkLabels
<1>3. /\ loc[w].h \in Levels /\ From(g, loc[w].h, loc[w].cur, loc[w].sk)
      /\ loc[w].prev # Nil => From(g, loc[w].h, loc[w].prev, loc[w].sk)
  BY <1>2 DEF SearchOK
<1>4. loc[w].sk \in Int
  BY <1>2, ConstantsAre DEF NegInf
<1>5. ASSUME NEW c, From(g, loc[w].h, c, loc[w].sk)
      PROVE  c \in Chunks /\ Linked(g, c) /\ g.lvl[c] = loc[w].h
             /\ DataOK(g, chunk[c].data, loc[w].h)
  BY <1>1, <1>3, <1>5, OnIsLinked, DataOfNode DEF From
<1> QED BY <1>2, <1>3, <1>4, <1>5

\* A search that begins leaves its warp in order.
LEMMA SearchStartOwn ==
  ASSUME NEW g, NEW w, ListStep(g, w), SearchStart(w)
  PROVE  WarpOK(g, w)'
<1>1. RegistersOK /\ w \in Warps /\ WarpOK(g, w) /\ ListOK(g) /\ Height \in Levels
  BY StepFacts DEF ListStep
<1> DEFINE H == Height
           P == [l \in Levels |-> l]
<1>2. /\ pc[w] = "search" /\ pc' = [pc EXCEPT ![w] = "read"]
      /\ loc' = [loc EXCEPT ![w].h = H, ![w].path = P, ![w].cur = H, ![w].prev = Nil,
                             ![w].prevKv = BlankKv]
  BY DEF SearchStart, At, GoTo
<1>3. H \in Levels /\ P = [x \in Levels |-> P[x]] /\ \A l \in Levels : P[l] = l
  BY <1>1
<1> HIDE DEF H, P
<1>4. pc'[w] = "read" /\ OpRegs(w)
  BY <1>1, <1>2, FieldsAre DEF RegistersOK, OpRegs, LevelRegs
<1>5. loc'[w].h = H /\ loc'[w].path = P /\ loc'[w].cur = H /\ loc'[w].prev = Nil
  BY <1>1, <1>2, FieldsAre DEF RegistersOK
<1>6. loc'[w].sk = loc[w].sk /\ loc[w].sk \in NegInf .. MaxKey
  BY <1>1, <1>2, <1>4 DEF WarpOK, OpRegs, OwnLabels, SearchLabels
<1>7. \A l \in Levels : From(g, l, l, loc[w].sk)
  <2>1. \A l \in Levels : g.lvl[l] = l /\ g.low[l] = NegInf - 1 /\ l \in Chunks
    BY <1>1, ConstantsAre DEF ListOK, Levels, Chunks
  <2>2. NegInf - 1 < loc[w].sk
    BY <1>6, ConstantsAre DEF NegInf
  <2> QED BY <2>1, <2>2 DEF From, On
<1>8. SearchOK(g, w)'
  BY <1>3, <1>4, <1>5, <1>6, <1>7 DEF SearchOK, UnlinkLabels
<1> QED BY <1>2, <1>4, <1>8, SearchRest DEF OwnLabels, SearchLabels

\* On from chunk cur to the one right of it.
LEMMA GoRightOwn ==
  ASSUME NEW g, NEW w, ListStep(g, w), NEW c, GoRight(w, c),
         pc[w] \in {"read", "reread", "tryLock", "giveUp"},
         DataOK(g, c.data, loc[w].h), From(g, loc[w].h, c.next, loc[w].sk)
  PROVE  WarpOK(g, w)'
<1> DEFINE tid == TidForNextStep(loc[w].sk, c)
           over == loc[w].h = 0 /\ tid # TidNext
<1>1. RegistersOK /\ w \in Warps
  BY StepFacts
<1>2. /\ pc' = [pc EXCEPT ![w] = IF over THEN "searched" ELSE "read"]
      /\ loc' = [loc EXCEPT ![w].prev = loc[w].cur, ![w].prevKv = c, ![w].cur = c.next,
                             ![w].tid = tid, ![w].kv = IF over THEN c ELSE BlankKv]
  BY DEF GoRight, GoTo
<1>3. over => loc[w].h = 0
  OBVIOUS
<1>4. SearchOK(g, w)
  BY SearchFacts DEF Walking, UnlinkLabels
<1> HIDE DEF tid, over
<1>5. /\ pc'[w] = IF over THEN "searched" ELSE "read"
      /\ OpRegs(w)
  BY <1>1, <1>2, FieldsAre DEF RegistersOK, OpRegs, LevelRegs
<1>6. /\ loc'[w].h = loc[w].h /\ loc'[w].path = loc[w].path /\ loc'[w].cur = c.next
      /\ loc'[w].prev = loc[w].cur /\ loc'[w].prevKv = c /\ loc'[w].sk = loc[w].sk
  BY <1>1, <1>2, FieldsAre DEF RegistersOK
<1>7. SearchOK(g, w)'
  BY <1>3, <1>4, <1>5, <1>6 DEF SearchOK, UnlinkLabels
<1> QED BY <1>5, <1>7, SearchRest DEF OwnLabels, SearchLabels, UnlinkLabels

\* Down from a chunk that was read as c.
LEMMA GoDownOwn ==
  ASSUME NEW g, NEW w, ListStep(g, w), NEW p, NEW c, NEW t \in Lanes, GoDown(w, p, c, t),
         pc[w] = "reread", From(g, loc[w].h, p, loc[w].sk),
         DataOK(g, c.data, loc[w].h), c.data[t].k <= loc[w].sk
  PROVE  WarpOK(g, w)'
<1>1. RegistersOK /\ w \in Warps
  BY StepFacts
<1>2. /\ SearchOK(g, w) /\ loc[w].h \in Levels /\ loc[w].h > 0 /\ loc[w].sk \in Int
      /\ loc[w].sk \in NegInf .. MaxKey /\ g \in Ghosts
  BY SearchFacts, StepFacts DEF Walking, SearchOK
<1>3. From(g, loc[w].h - 1, c.data[t].v, loc[w].sk)
  <2>1. c.data[t].k # PosInf /\ c.data[t].k \in Int
    BY <1>2, KeysAre, ConstantsAre DEF DataOK, PosInf, NegInf
  <2>2. On(g, loc[w].h - 1, c.data[t].v) /\ g.low[c.data[t].v] < c.data[t].k
    BY <1>2, <2>1 DEF DataOK, EntryOK
  <2>3. g.low[c.data[t].v] \in Int
    BY SMTT(30), <2>2, <1>2, GhostsAre DEF On
  <2> QED BY <2>1, <2>2, <2>3, <1>2 DEF From
<1>4. pc'[w] = "read" /\ OpRegs(w)
  BY <1>1, FieldsAre DEF RegistersOK, OpRegs, LevelRegs, GoDown, GoTo
<1>5. /\ loc'[w].h = loc[w].h - 1 /\ loc'[w].path = [loc[w].path EXCEPT ![loc[w].h] = p]
      /\ loc'[w].cur = c.data[t].v /\ loc'[w].prev = Nil /\ loc'[w].sk = loc[w].sk
  BY <1>1, FieldsAre DEF RegistersOK, GoDown
<1>6. \A x \in Levels : From(g, x, loc'[w].path[x], loc[w].sk)
  <2> SUFFICES ASSUME NEW x \in Levels PROVE From(g, x, loc'[w].path[x], loc[w].sk)
    OBVIOUS
  <2>1. loc'[w].path[x] = loc[w].path[x] \/ (x = loc[w].h /\ loc'[w].path[x] = p)
    BY <1>5
  <2> QED BY <2>1, <1>2 DEF SearchOK
<1>7. loc[w].h - 1 \in Levels
  BY <1>2, LevelsAre
<1>9. loc'[w].path = [x \in Levels |-> loc'[w].path[x]]
  BY <1>2, <1>5 DEF SearchOK
<1>8. SearchOK(g, w)'
  BY <1>3, <1>4, <1>5, <1>6, <1>7, <1>9 DEF SearchOK, UnlinkLabels
<1> QED BY <1>4, <1>8, SearchRest DEF OwnLabels, SearchLabels, UnlinkLabels

\* The search has gone on to another label and read at most the chunk into kv.
LEMMA SearchMoved ==
  ASSUME NEW g, NEW w, ListStep(g, w), pc[w] \in Walking, OpRegs(w),
         loc'[w].h = loc[w].h, loc'[w].path = loc[w].path,
         loc'[w].prev = loc[w].prev, From(g, loc[w].h, loc'[w].cur, loc[w].sk),
         loc'[w].prevKv = loc[w].prevKv \/ DataOK(g, loc'[w].prevKv.data, loc[w].h),
         pc'[w] \in Walking,
         pc'[w] = "searched" => loc[w].h = 0,
         pc'[w] = "reread" => loc[w].h > 0,
         pc'[w] \in UnlinkLabels \cup {"tryLock"} => loc[w].prev # Nil,
         pc'[w] \in UnlinkLabels => Mine(loc[w].prev)',
         pc'[w] \in {"tryLock", "recheck", "giveUp"} =>
           Corpse(loc[w].cur, loc[w].kv)' /\ DataOK(g, loc'[w].kv.data, loc[w].h),
         pc'[w] = "skip" => /\ IsZombie(loc'[w].kv)
                            /\ Follows(g, loc[w].h, loc[w].prev, loc[w].kv.next)'
                            /\ g.low[loc'[w].kv.next] < loc[w].sk,
         pc'[w] = "unlink" => Follows(g, loc[w].h, loc[w].prev, loc[w].cur)'
  PROVE  WarpOK(g, w)'
<1>1. SearchOK(g, w)
  BY SearchFacts
<1>2. pc[w] \in OwnLabels /\ pc'[w] \in OwnLabels
  BY DEF Walking, OwnLabels, SearchLabels, UnlinkLabels
<1>3. SearchOK(g, w)'
  <2>1. loc'[w].sk = loc[w].sk
    BY DEF OpRegs
  <2>2. /\ loc'[w].h \in Levels
        /\ From(g, loc'[w].h, loc'[w].cur, loc'[w].sk)
        /\ loc'[w].prev # Nil => From(g, loc'[w].h, loc'[w].prev, loc'[w].sk)
                                 /\ DataOK(g, loc'[w].prevKv.data, loc'[w].h)
        /\ loc'[w].path = [x \in Levels |-> loc'[w].path[x]]
        /\ \A x \in Levels : From(g, x, loc'[w].path[x], loc'[w].sk)
    BY <1>1, <2>1 DEF SearchOK
  <2> HIDE DEF OpRegs
  <2> QED BY <2>1, <2>2 DEF SearchOK
<1> QED BY <1>2, <1>3, SearchRest

\* Going right from a zombie or from a chunk whose maximum is below the key keeps the
\* key ahead.
LEMMA WalkRight ==
  ASSUME NEW g, NEW w, ListStep(g, w), pc[w] \in Walking,
         IsZombie(chunk[loc[w].cur]) \/ TidForNextStep(loc[w].sk, chunk[loc[w].cur]) = TidNext
  PROVE  From(g, loc[w].h, chunk[loc[w].cur].next, loc[w].sk)
BY SearchFacts, RightOf DEF ListStep

\* SearchRead keeps its warp in order.
LEMMA SearchReadOwn ==
  ASSUME NEW g, NEW w, ListStep(g, w), SearchRead(w)
  PROVE  WarpOK(g, w)'
<1> DEFINE c == chunk[loc[w].cur]
           t == TidForNextStep(loc[w].sk, c)
<1>1. RegistersOK /\ w \in Warps /\ pc[w] = "read" /\ pc[w] \in Walking
  BY StepFacts DEF SearchRead, At, Walking
<1>2. SearchOK(g, w) /\ DataOK(g, c.data, loc[w].h) /\ From(g, loc[w].h, loc[w].cur, loc[w].sk)
      /\ loc[w].h \in Levels
  BY <1>1, SearchFacts
<1>3. CASE loc[w].h > 0 /\ pc' = [pc EXCEPT ![w] = "reread"] /\ loc' = loc
  <2>1. pc'[w] = "reread" /\ OpRegs(w)
    BY <1>1, <1>3 DEF RegistersOK, OpRegs, LevelRegs
  <2> QED BY <1>1, <1>2, <1>3, <2>1, SearchMoved DEF Walking, UnlinkLabels
<1>4. CASE loc[w].h = 0 /\ t = TidNext /\ GoRight(w, c)
  BY <1>1, <1>2, <1>4, WalkRight, GoRightOwn
<1>5. CASE /\ loc[w].h = 0
           /\ loc' = [loc EXCEPT ![w].kv = c, ![w].tid = t]
           /\ pc' = [pc EXCEPT ![w] = "searched"]
  <2> HIDE DEF c, t
  <2>1. pc'[w] = "searched" /\ OpRegs(w) /\ loc'[w].h = loc[w].h /\ loc'[w].path = loc[w].path
        /\ loc'[w].cur = loc[w].cur /\ loc'[w].prev = loc[w].prev
        /\ loc'[w].prevKv = loc[w].prevKv
    BY <1>1, <1>5, FieldsAre DEF RegistersOK, OpRegs, LevelRegs
  <2> QED BY <1>1, <1>2, <1>5, <2>1, SearchMoved DEF Walking, UnlinkLabels
<1> QED BY <1>3, <1>4, <1>5 DEF SearchRead, GoTo

\* SearchMeetZombie keeps its warp in order.
LEMMA SearchMeetZombieOwn ==
  ASSUME NEW g, NEW w, ListStep(g, w), SearchMeetZombie(w)
  PROVE  WarpOK(g, w)'
<1> DEFINE c == chunk[loc[w].cur]
           t == TidForNextStep(loc[w].sk, c)
<1>1. /\ RegistersOK /\ w \in Warps /\ pc[w] = "read" /\ pc[w] \in Walking /\ IsZombie(c)
      /\ chunk' = chunk
  BY StepFacts DEF SearchMeetZombie, At, Walking, mem
<1>2. SearchOK(g, w) /\ DataOK(g, c.data, loc[w].h) /\ From(g, loc[w].h, loc[w].cur, loc[w].sk)
  BY SMTT(30), <1>1, SearchFacts
<1>3. CASE /\ loc[w].prev # Nil
           /\ loc' = [loc EXCEPT ![w].kv = c, ![w].tid = t]
           /\ pc' = [pc EXCEPT ![w] = "tryLock"]
  <2>1. c = chunk[loc[w].cur]
    OBVIOUS
  <2> HIDE DEF c, t
  <2>2. pc'[w] = "tryLock" /\ OpRegs(w) /\ loc'[w].h = loc[w].h /\ loc'[w].path = loc[w].path
        /\ loc'[w].cur = loc[w].cur /\ loc'[w].prev = loc[w].prev
        /\ loc'[w].prevKv = loc[w].prevKv /\ loc'[w].kv = c
    BY <1>1, <1>3, FieldsAre DEF RegistersOK, OpRegs, LevelRegs
  <2>3. Corpse(loc[w].cur, loc[w].kv)'
    BY <1>1, <2>1, <2>2 DEF Corpse
  <2> QED BY <1>1, <1>2, <1>3, <2>2, <2>3, SearchMoved DEF Walking, UnlinkLabels
<1>4. CASE GoRight(w, c)
  BY <1>1, <1>2, <1>4, WalkRight, GoRightOwn
<1> QED BY <1>3, <1>4 DEF SearchMeetZombie, GoTo

\* TryLockPrev keeps its warp in order.
LEMMA TryLockPrevOwn ==
  ASSUME NEW g, NEW w, ListStep(g, w), TryLockPrev(w)
  PROVE  WarpOK(g, w)'
<1>1. /\ RegistersOK /\ w \in Warps /\ pc[w] = "tryLock" /\ pc[w] \in Walking
      /\ chunk[loc[w].prev].lock = "unlocked" /\ loc' = loc /\ WordsOK
      /\ Lock(loc[w].prev)
  BY StepFacts DEF TryLockPrev, At, Walking
<1>2. /\ SearchOK(g, w) /\ From(g, loc[w].h, loc[w].cur, loc[w].sk) /\ loc[w].prev # Nil
      /\ loc[w].prev \in Chunks /\ loc[w].cur \in Chunks
  BY <1>1, SearchFacts DEF SearchOK
<1>3. pc'[w] = "recheck" /\ OpRegs(w)
  BY <1>1 DEF RegistersOK, OpRegs, LevelRegs, TryLockPrev, GoTo
<1>4. Mine(loc[w].prev)'
  BY <1>1, <1>2, LockEffect DEF Mine, Taken
<1>5. Corpse(loc[w].cur, loc[w].kv)' /\ DataOK(g, loc[w].kv.data, loc[w].h)
  BY <1>1, <1>2, CorpseStays DEF SearchOK, Corpse
<1> QED BY <1>1, <1>2, <1>3, <1>4, <1>5, SearchMoved DEF Walking, UnlinkLabels

\* So does going right from a zombie that was read before.
LEMMA CorpseRight ==
  ASSUME NEW g, NEW w, ListStep(g, w), pc[w] \in {"tryLock", "recheck", "giveUp"}
  PROVE  /\ From(g, loc[w].h, loc[w].kv.next, loc[w].sk) /\ IsZombie(chunk[loc[w].cur])
         /\ DataOK(g, loc[w].kv.data, loc[w].h)
<1>1. /\ SearchOK(g, w) /\ pc[w] \in Walking
  BY SearchFacts DEF Walking, UnlinkLabels
<1>2. Corpse(loc[w].cur, loc[w].kv) /\ DataOK(g, loc[w].kv.data, loc[w].h)
  BY <1>1 DEF SearchOK
<1> QED BY <1>1, <1>2, WalkRight DEF Corpse

\* TryLockFails keeps its warp in order.
LEMMA TryLockFailsOwn ==
  ASSUME NEW g, NEW w, ListStep(g, w), TryLockFails(w)
  PROVE  WarpOK(g, w)'
BY CorpseRight, GoRightOwn DEF TryLockFails, At

\* RecheckPrev keeps its warp in order.
LEMMA RecheckPrevOwn ==
  ASSUME NEW g, NEW w, ListStep(g, w), RecheckPrev(w)
  PROVE  WarpOK(g, w)'
<1> DEFINE p == loc[w].prev
           l == IF chunk[p].next = loc[w].cur THEN "skip" ELSE "giveUp"
           d == chunk[p]
<1>1. /\ RegistersOK /\ w \in Warps /\ pc[w] = "recheck" /\ pc[w] \in Walking
      /\ chunk' = chunk /\ ListInv(g)
  BY StepFacts DEF RecheckPrev, At, Walking, mem, UnlinkLabels, ListStep
<1>2. /\ SearchOK(g, w) /\ From(g, loc[w].h, loc[w].cur, loc[w].sk) /\ p # Nil
      /\ p \in Chunks /\ loc[w].cur \in Chunks /\ Mine(p)
      /\ DataOK(g, chunk[p].data, loc[w].h) /\ From(g, loc[w].h, p, loc[w].sk)
      /\ Corpse(loc[w].cur, loc[w].kv) /\ DataOK(g, loc[w].kv.data, loc[w].h)
      /\ loc[w].h \in Levels
  BY <1>1, SearchFacts DEF SearchOK, UnlinkLabels
<1>3. loc' = [loc EXCEPT ![w].prevKv = d] /\ pc' = [pc EXCEPT ![w] = l]
  BY DEF RecheckPrev, GoTo
<1>4. DataOK(g, d.data, loc[w].h) /\ l \in {"skip", "giveUp"}
  BY <1>2
<1>5. l = "skip" => Follows(g, loc[w].h, p, loc[w].kv.next)
                    /\ g.low[loc[w].kv.next] < loc[w].sk
  <2> SUFFICES ASSUME chunk[p].next = loc[w].cur
               PROVE  Follows(g, loc[w].h, p, loc[w].kv.next)
                      /\ g.low[loc[w].kv.next] < loc[w].sk
    OBVIOUS
  <2>1. Follows(g, loc[w].h, p, loc[w].cur)
    <3>1. ~IsZombie(chunk[p]) /\ On(g, loc[w].h, p) /\ chunk[p].next # Nil
      BY <1>2, LevelsAre DEF Mine, IsZombie, From
    <3> QED BY <3>1, <1>1, <1>2, FollowsNext
  <2>2. IsZombie(chunk[loc[w].cur]) /\ loc[w].kv.next = chunk[loc[w].cur].next
    BY <1>2 DEF Corpse
  <2>3. g.low[loc[w].kv.next] = g.low[loc[w].cur]
        /\ Follows(g, loc[w].h, p, loc[w].kv.next)
    BY <2>1, <2>2, <1>1, <1>2, FollowsDead
  <2> QED BY <2>3, <1>2 DEF From
<1> HIDE DEF l, d
<1>6. pc'[w] = l /\ OpRegs(w) /\ loc'[w].h = loc[w].h /\ loc'[w].path = loc[w].path
        /\ loc'[w].cur = loc[w].cur /\ loc'[w].prev = loc[w].prev
        /\ loc'[w].prevKv = d /\ loc'[w].kv = loc[w].kv
  BY <1>1, <1>3, FieldsAre DEF RegistersOK, OpRegs, LevelRegs
<1>7. /\ Corpse(loc[w].cur, loc[w].kv)' /\ Mine(loc[w].prev)'
      /\ Follows(g, loc[w].h, p, loc[w].kv.next) =>
           Follows(g, loc[w].h, loc[w].prev, loc[w].kv.next)'
  BY <1>1, <1>2, <1>6 DEF Corpse, Mine, Follows
<1>8. IsZombie(loc[w].kv)
  BY <1>2 DEF Corpse
<1> QED BY <1>1, <1>2, <1>4, <1>5, <1>6, <1>7, <1>8, SearchMoved DEF Walking, UnlinkLabels

\* GiveUpUnlink keeps its warp in order.
LEMMA GiveUpUnlinkOwn ==
  ASSUME NEW g, NEW w, ListStep(g, w), GiveUpUnlink(w)
  PROVE  WarpOK(g, w)'
BY CorpseRight, GoRightOwn DEF GiveUpUnlink, At

\* SkipZombie keeps its warp in order.
LEMMA SkipZombieOwn ==
  ASSUME NEW g, NEW w, ListStep(g, w), SkipZombie(w)
  PROVE  WarpOK(g, w)'
<1> DEFINE n == loc[w].kv.next
           c == chunk[n]
           l == IF IsZombie(c) THEN "skip" ELSE "unlink"
<1>1. /\ RegistersOK /\ w \in Warps /\ pc[w] = "skip" /\ pc[w] \in Walking
      /\ chunk' = chunk /\ ListInv(g)
  BY StepFacts DEF SkipZombie, At, Walking, mem, UnlinkLabels, ListStep
<1>2. /\ SearchOK(g, w) /\ loc[w].h \in Levels
      /\ Follows(g, loc[w].h, loc[w].prev, n) /\ g.low[n] < loc[w].sk
      /\ Mine(loc[w].prev) /\ loc[w].prev # Nil
  BY <1>1, SearchFacts DEF SearchOK, UnlinkLabels
<1>3. loc' = [loc EXCEPT ![w].cur = n, ![w].kv = c] /\ pc' = [pc EXCEPT ![w] = l]
  BY DEF SkipZombie, GoTo
<1>4. From(g, loc[w].h, n, loc[w].sk)
  BY <1>2 DEF From, Follows
<1>5. l \in {"skip", "unlink"}
  OBVIOUS
<1>6. l = "skip" => /\ IsZombie(c) /\ Follows(g, loc[w].h, loc[w].prev, c.next)
                    /\ g.low[c.next] < loc[w].sk
  BY <1>1, <1>2, FollowsDead
<1> HIDE DEF l, c, n
<1>7. pc'[w] = l /\ OpRegs(w) /\ loc'[w].h = loc[w].h /\ loc'[w].path = loc[w].path
        /\ loc'[w].cur = n /\ loc'[w].prev = loc[w].prev
        /\ loc'[w].prevKv = loc[w].prevKv /\ loc'[w].kv = c
  <2>1. pc'[w] = l
    BY <1>1, <1>3 DEF RegistersOK
  <2>2. OpRegs(w)
    BY <1>1, <1>3, FieldsAre DEF RegistersOK, OpRegs, LevelRegs
  <2>3. /\ loc'[w].h = loc[w].h /\ loc'[w].path = loc[w].path
        /\ loc'[w].cur = n /\ loc'[w].prev = loc[w].prev
        /\ loc'[w].prevKv = loc[w].prevKv /\ loc'[w].kv = c
    <3> loc[w] = [f \in Fields |-> loc[w][f]] /\ loc = [v \in Warps |-> loc[v]] /\ w \in Warps
      BY <1>1 DEF RegistersOK
    <3>1. loc'[w].h = loc[w].h
      BY <1>3, FieldsAre
    <3>2. loc'[w].path = loc[w].path
      BY <1>3, FieldsAre
    <3>3. loc'[w].cur = n
      BY <1>3, FieldsAre
    <3>4. loc'[w].kv = c
      BY <1>3, FieldsAre
    <3>5. loc'[w].prev = loc[w].prev
      BY <1>3, FieldsAre
    <3>6. loc'[w].prevKv = loc[w].prevKv
      BY <1>3, FieldsAre
    <3> QED BY <3>1, <3>2, <3>3, <3>4, <3>5, <3>6
  <2> QED BY <2>1, <2>2, <2>3
<1>8. /\ Mine(loc[w].prev)'
      /\ Follows(g, loc[w].h, loc[w].prev, c.next) =>
           Follows(g, loc[w].h, loc[w].prev, loc[w].kv.next)'
      /\ Follows(g, loc[w].h, loc[w].prev, loc[w].cur)'
  BY <1>1, <1>2, <1>7 DEF Mine, Follows
<1> QED BY <1>1, <1>2, <1>4, <1>5, <1>6, <1>7, <1>8, SearchMoved DEF Walking, UnlinkLabels

\* UnlinkZombies keeps its warp in order.
LEMMA UnlinkZombiesOwn ==
  ASSUME NEW g, NEW w, ListStep(g, w), UnlinkZombies(w)
  PROVE  WarpOK(g, w)'
<1>1. /\ RegistersOK /\ w \in Warps /\ pc[w] = "unlink" /\ pc[w] \in Walking
      /\ loc' = loc
  BY StepFacts DEF UnlinkZombies, At, Walking, UnlinkLabels
<1>2. /\ SearchOK(g, w) /\ From(g, loc[w].h, loc[w].cur, loc[w].sk) /\ loc[w].prev # Nil
      /\ loc[w].prev \in Chunks /\ Mine(loc[w].prev)
  BY <1>1, SearchFacts DEF SearchOK, UnlinkLabels
<1>3. pc'[w] = "unlinked" /\ OpRegs(w)
  BY <1>1 DEF RegistersOK, OpRegs, LevelRegs, UnlinkZombies, GoTo
<1>4. Mine(loc[w].prev)'
  <2>1. Mine(loc[w].prev)' <=> chunk'[loc[w].prev].lock = "locked"
    BY <1>1 DEF Mine
  <2>2. ~Gives(w, loc[w].prev)
    BY <1>1 DEF Gives
  <2>3. LockStep(w)
    BY StepFacts
  <2> QED BY <2>1, <2>2, <2>3, <1>1, <1>2 DEF Mine, LockStep, StepLock
<1> QED BY <1>1, <1>2, <1>3, <1>4, SearchMoved DEF Walking, UnlinkLabels

\* UnlockPrev keeps its warp in order.
LEMMA UnlockPrevOwn ==
  ASSUME NEW g, NEW w, ListStep(g, w), UnlockPrev(w)
  PROVE  WarpOK(g, w)'
<1>1. /\ RegistersOK /\ w \in Warps /\ pc[w] = "unlinked" /\ pc[w] \in Walking
      /\ loc' = loc
  BY StepFacts DEF UnlockPrev, At, Walking, UnlinkLabels
<1>2. /\ SearchOK(g, w) /\ From(g, loc[w].h, loc[w].cur, loc[w].sk) /\ loc[w].h \in Levels
  BY <1>1, SearchFacts
<1>3. loc[w].h > 0 \/ loc[w].h = 0
  BY <1>2, ConstantsAre DEF Levels
<1>4. OpRegs(w) /\ IF loc[w].h > 0 THEN pc'[w] = "reread" ELSE pc'[w] \in {"read", "searched"}
  BY <1>1 DEF RegistersOK, OpRegs, LevelRegs, UnlockPrev, GoTo
<1> QED BY <1>1, <1>2, <1>3, <1>4, SearchMoved DEF Walking, UnlinkLabels

\* StepRight keeps its warp in order.
LEMMA StepRightOwn ==
  ASSUME NEW g, NEW w, ListStep(g, w), StepRight(w)
  PROVE  WarpOK(g, w)'
<1>1. pc[w] = "reread" /\ pc[w] \in Walking
  BY DEF StepRight, At, Walking
<1>2. DataOK(g, chunk[loc[w].cur].data, loc[w].h)
  BY <1>1, SearchFacts
<1> QED BY <1>1, <1>2, WalkRight, GoRightOwn DEF StepRight

\* StepDown keeps its warp in order.
LEMMA StepDownOwn ==
  ASSUME NEW g, NEW w, ListStep(g, w), StepDown(w)
  PROVE  WarpOK(g, w)'
<1> DEFINE c == chunk[loc[w].cur]
           tid == TidForNextStep(loc[w].sk, c)
<1>1. pc[w] = "reread" /\ pc[w] \in Walking /\ tid \in Lanes /\ GoDown(w, loc[w].cur, c, tid)
  BY DEF StepDown, At, Walking
<1>2. DataOK(g, c.data, loc[w].h) /\ From(g, loc[w].h, loc[w].cur, loc[w].sk)
  BY <1>1, SearchFacts
<1>3. c.data[tid].k <= loc[w].sk
  BY <1>1, NextLane
<1> HIDE DEF c, tid
<1> QED BY <1>1, <1>2, <1>3, GoDownOwn

\* BackTrack keeps its warp in order.
LEMMA BackTrackOwn ==
  ASSUME NEW g, NEW w, ListStep(g, w), BackTrack(w)
  PROVE  WarpOK(g, w)'
<1> DEFINE c == loc[w].prevKv
           tid == TidOfDownStep(loc[w].sk, c)
<1>1. pc[w] = "reread" /\ pc[w] \in Walking /\ tid # TidNone /\ GoDown(w, loc[w].prev, c, tid)
      /\ loc[w].prev # Nil
  BY DEF BackTrack, At, Walking
<1>2. DataOK(g, c.data, loc[w].h) /\ From(g, loc[w].h, loc[w].prev, loc[w].sk)
  BY <1>1, SearchFacts DEF SearchOK
<1>3. tid \in Lanes /\ c.data[tid].k <= loc[w].sk
  BY <1>1, DownStep
<1> HIDE DEF c, tid
<1> QED BY <1>1, <1>2, <1>3, GoDownOwn

\* RestartSearch keeps its warp in order.
LEMMA RestartSearchOwn ==
  ASSUME NEW g, NEW w, ListStep(g, w), RestartSearch(w)
  PROVE  WarpOK(g, w)'
<1>1. RegistersOK /\ w \in Warps /\ pc[w] = "reread" /\ loc' = loc
  BY StepFacts DEF RestartSearch, At
<1>2. pc'[w] = "search" /\ OpRegs(w)
  BY <1>1 DEF RegistersOK, RestartSearch, GoTo, OpRegs, LevelRegs
<1> QED BY <1>1, <1>2, SearchRest DEF Walking, OwnLabels, SearchLabels, UnlinkLabels

-----------------------------------------------------------------------------
(* The steps of an operation on a level. *)

\* What an operation knows on a level.
LEMMA LevelFacts ==
  ASSUME NEW g, NEW w, ListStep(g, w), pc[w] \notin {"take", "return"},
         pc[w] \notin OwnLabels
  PROVE  /\ LevelOK(g, w) /\ NextOK(g, w) /\ SplitOK(g, w) /\ ShiftOK(g, w)
         /\ EraseOK(g, w) /\ MergeOK(g, w) /\ DownOK(g, w) /\ Control(w)
         /\ loc[w].top \in Levels
         /\ loc[w].key \in 1 .. MaxKey /\ loc[w].key \in Int /\ loc[w].val \in Int
         /\ loc[w].level \in Levels /\ From(g, loc[w].level, loc[w].enc, loc[w].key)
         /\ loc[w].enc \in Chunks /\ Linked(g, loc[w].enc) /\ g.lvl[loc[w].enc] = loc[w].level
         /\ chunk[loc[w].enc] \in ChunkType
         /\ RegistersOK /\ w \in Warps
<1>1. WarpOK(g, w) /\ ListInv(g) /\ Control(w) /\ RegistersOK /\ w \in Warps
      /\ chunk \in [Chunks -> ChunkType]
  BY StepFacts DEF ListStep
<1>2. /\ LevelOK(g, w) /\ NextOK(g, w) /\ SplitOK(g, w) /\ ShiftOK(g, w)
      /\ EraseOK(g, w) /\ MergeOK(g, w) /\ DownOK(g, w)
      /\ loc[w].top \in Levels /\ loc[w].key \in 1 .. MaxKey /\ loc[w].val \in Int
  BY <1>1 DEF WarpOK, OnLevel
<1>3. loc[w].level \in Levels /\ From(g, loc[w].level, loc[w].enc, loc[w].key)
  BY <1>2 DEF LevelOK
<1>4. loc[w].key \in Int
  BY <1>2
<1> QED BY <1>1, <1>2, <1>3, <1>4, OnIsLinked DEF From

\* A warp on a level is in order if its parts are.
LEMMA LevelBuilt ==
  ASSUME NEW h, NEW w, pc'[w] \notin {"take", "return"}, pc'[w] \notin OwnLabels,
         loc'[w].top \in Levels, loc'[w].key \in 1 .. MaxKey, loc'[w].val \in Int,
         LevelOK(h, w)', NextOK(h, w)', SplitOK(h, w)', ShiftOK(h, w)', EraseOK(h, w)',
         MergeOK(h, w)', DownOK(h, w)'
  PROVE  WarpOK(h, w)'
<1>1. pc'[w] \notin Walking
  BY DEF Walking, OwnLabels, SearchLabels, UnlinkLabels
<1> QED BY <1>1 DEF WarpOK

\* What says nothing of a warp that is elsewhere.
LEMMA Elsewhere ==
  ASSUME NEW h, NEW w
  PROVE  /\ pc'[w] \notin {"nextWalk", "nextLock", "nextCheck", "nextSet"} \cup SplitLabels =>
              NextOK(h, w)'
         /\ pc'[w] \notin InsertSplits \cup {"empty", "shift", "unlockOther"} => SplitOK(h, w)'
         /\ pc'[w] # "shift" => ShiftOK(h, w)'
         /\ pc'[w] \notin {"lowerMax", "unshift"} => EraseOK(h, w)'
         /\ pc'[w] \notin Merging \cup {"uncount"} => MergeOK(h, w)'
         /\ pc'[w] \notin DownLabels \cup OwnLabels => DownOK(h, w)'
<1>1. pc'[w] \notin {"nextWalk", "nextLock", "nextCheck", "nextSet"} \cup SplitLabels =>
        NextOK(h, w)'
  BY DEF NextOK, SplitLabels
<1>2. pc'[w] \notin InsertSplits \cup {"empty", "shift", "unlockOther"} => SplitOK(h, w)'
  BY DEF SplitOK
<1>3. pc'[w] \notin Merging \cup {"uncount"} => MergeOK(h, w)'
  BY DEF MergeOK, Merging, SplitLabels, MergeTail
<1>4. pc'[w] \notin DownLabels \cup OwnLabels => DownOK(h, w)'
  BY DEF DownOK, GoingDown, OwnLabels
<1> QED BY <1>1, <1>2, <1>3, <1>4 DEF ShiftOK, EraseOK

\* Labels at which a warp's chunks are as LevelOK says, and nothing more is known.
Plain == {"enclose", "encLock", "encCheck", "encRetry", "unlockEnc", "unlockBottom",
          "isEmpty", "count", "raise", "height", "unlockMerged"}

\* At the labels that no part but the level speaks about, the level suffices.
LEMMA PlainBuilt ==
  ASSUME NEW h, NEW w, pc'[w] \in Plain,
         loc'[w].top \in Levels, loc'[w].key \in 1 .. MaxKey, loc'[w].val \in Int,
         LevelOK(h, w)'
  PROVE  WarpOK(h, w)'
<1>1. /\ pc'[w] \notin {"take", "return"} /\ pc'[w] \notin OwnLabels
      /\ pc'[w] \notin {"nextWalk", "nextLock", "nextCheck", "nextSet"} \cup SplitLabels
      /\ pc'[w] \notin InsertSplits \cup {"empty", "shift", "unlockOther"}
      /\ pc'[w] # "shift" /\ pc'[w] \notin {"lowerMax", "unshift"}
      /\ pc'[w] \notin Merging \cup {"uncount"} /\ pc'[w] \notin DownLabels \cup OwnLabels
  BY DEF Plain, OwnLabels, SearchLabels, UnlinkLabels, SplitLabels, InsertSplits, NextLabels,
         Merging, MergeTail, DownLabels
<1> QED BY <1>1, Elsewhere, LevelBuilt

\* A step to such a label that leaves the registers of the level alone.
LEMMA PlainOwn ==
  ASSUME NEW g, NEW w, ListStep(g, w), pc[w] \notin {"take", "return"},
         pc[w] \notin OwnLabels, pc'[w] \in Plain, LevelRegs(w),
         loc'[w].top = loc[w].top,
         pc'[w] = "raise" => loc[w].bottom # Nil,
         pc'[w] = "height" => ~Inserting(w)
  PROVE  WarpOK(g, w)'
<1>1. /\ LevelOK(g, w) /\ loc'[w].top \in Levels /\ loc'[w].key \in 1 .. MaxKey
      /\ loc'[w].val \in Int
  BY LevelFacts DEF LevelRegs
<1>2. LevelOK(g, w)'
  BY <1>1, LevelKept DEF Plain, EncLocked, NextLabels, SplitLabels
<1> QED BY <1>1, <1>2, PlainBuilt

\* WalkToEnclosing keeps its warp in order.
LEMMA WalkToEnclosingOwn ==
  ASSUME NEW g, NEW w, ListStep(g, w), WalkToEnclosing(w)
  PROVE  WarpOK(g, w)'
<1> DEFINE c == chunk[loc[w].enc]
<1>1. pc[w] = "enclose" /\ pc[w] \notin {"take", "return"} /\ pc[w] \notin OwnLabels
  BY DEF WalkToEnclosing, At, OwnLabels, SearchLabels, UnlinkLabels
<1>2. /\ LevelOK(g, w) /\ From(g, loc[w].level, loc[w].enc, loc[w].key) /\ loc[w].level \in Levels
      /\ loc[w].key \in 1 .. MaxKey /\ loc[w].val \in Int /\ loc[w].top \in Levels
      /\ RegistersOK /\ w \in Warps
  BY <1>1, LevelFacts
<1>3. CASE Beyond(w, c) /\ loc' = [loc EXCEPT ![w].enc = c.next] /\ pc' = pc
  <2>1. From(g, loc[w].level, c.next, loc[w].key)
    <3>1. loc[w].key \in NegInf .. MaxKey
      BY <1>2 DEF NegInf
    <3> QED BY <1>2, <1>3, <3>1, RightOf DEF Beyond, ListStep
  <2> HIDE DEF c
  <2>2. /\ loc'[w].enc = c.next /\ loc'[w].level = loc[w].level /\ loc'[w].key = loc[w].key
        /\ loc'[w].val = loc[w].val /\ loc'[w].top = loc[w].top /\ loc'[w].route = loc[w].route
        /\ loc'[w].bottom = loc[w].bottom
    BY <1>2, <1>3, FieldsAre DEF RegistersOK
  <2>3. /\ loc'[w].nxt = loc[w].nxt /\ loc'[w].new = loc[w].new /\ loc'[w].kind = loc[w].kind
    BY <1>2, <1>3, FieldsAre DEF RegistersOK
  <2>4. allocated' = allocated
    BY DEF WalkToEnclosing, mem
  <2>5. LevelOK(g, w)'
    BY <1>1, <1>2, <1>3, <2>1, <2>2, <2>3, <2>4
       DEF LevelOK, Inserting, EncLocked, NextLabels, SplitLabels
  <2> QED BY <1>1, <1>2, <1>3, <2>2, <2>5, PlainBuilt DEF Plain
<1>4. CASE pc' = [pc EXCEPT ![w] = "encLock"] /\ loc' = loc
  <2>1. pc'[w] = "encLock" /\ LevelRegs(w) /\ loc'[w].top = loc[w].top
    BY <1>2, <1>4 DEF RegistersOK, LevelRegs
  <2> QED BY <1>1, <2>1, PlainOwn DEF Plain
<1> QED BY <1>3, <1>4 DEF WalkToEnclosing, GoTo

\* Steps between such labels that touch no register.
LEMMA PlainSteps ==
  ASSUME NEW g, NEW w, ListStep(g, w),
         LockEnclosing(w) \/ NotEnclosing(w) \/ RetryEnclosing(w) \/ IsLevelEmpty(w)
  PROVE  WarpOK(g, w)'
<1>1. pc[w] \notin {"take", "return"} /\ pc[w] \notin OwnLabels
  BY DEF LockEnclosing, NotEnclosing, RetryEnclosing, IsLevelEmpty, At, OwnLabels,
         SearchLabels, UnlinkLabels
<1>2. loc' = loc /\ RegistersOK
  BY StepFacts DEF LockEnclosing, NotEnclosing, RetryEnclosing, IsLevelEmpty
<1>3. pc'[w] \in {"encCheck", "encRetry", "enclose", "count", "unlockEnc"}
  BY <1>2, StepFacts
     DEF LockEnclosing, NotEnclosing, RetryEnclosing, IsLevelEmpty, GoTo, RegistersOK
<1> QED BY <1>1, <1>2, <1>3, PlainOwn DEF Plain, LevelRegs

\* UnlockBottom keeps its warp in order.
LEMMA UnlockBottomOwn ==
  ASSUME NEW g, NEW w, ListStep(g, w), UnlockBottom(w)
  PROVE  WarpOK(g, w)'
<1>1. pc'[w] = "return" /\ loc' = loc
  BY StepFacts DEF UnlockBottom, GoTo, RegistersOK
<1>2. loc[w].top \in Levels
  BY StepFacts DEF WarpOK
<1> QED BY <1>1, <1>2
        DEF WarpOK, OwnLabels, SearchLabels, UnlinkLabels, Walking, OnLevel

\* What an operation knows when it has locked the enclosing chunk.
LEMMA EnclosingFacts ==
  ASSUME NEW g, NEW w, ListStep(g, w), Enclosing(w)
  PROVE  LET e == loc[w].enc
             c == chunk[e]
         IN  /\ pc[w] = "encCheck" /\ pc[w] \notin {"take", "return"} /\ pc[w] \notin OwnLabels
             /\ ~IsZombie(c) /\ loc[w].key <= c.max /\ g.low[e] < loc[w].key
             /\ Mine(e) /\ Fine(c.data, g.low[e], c.max) /\ DataOK(g, c.data, loc[w].level)
             /\ c.data \in Datas /\ c.max \in Int /\ g.low[e] \in Int
             /\ loc[w].new = Nil /\ loc[w].nxt = Nil
             /\ e # Nil /\ (loc[w].level = 0 => From(g, 0, e, loc[w].key))
<1> DEFINE e == loc[w].enc
           c == chunk[e]
<1>1. pc[w] = "encCheck" /\ pc[w] \notin {"take", "return"} /\ pc[w] \notin OwnLabels
      /\ ~Beyond(w, c)
  BY DEF Enclosing, At, OwnLabels, SearchLabels, UnlinkLabels
<1>2. /\ From(g, loc[w].level, e, loc[w].key) /\ e \in Chunks /\ Linked(g, e)
      /\ g.lvl[e] = loc[w].level /\ loc[w].key \in Int /\ c \in ChunkType /\ Control(w)
      /\ w \in Warps
  BY <1>1, LevelFacts
<1>3. ~IsZombie(c) /\ ~(c.max < loc[w].key)
  BY <1>1, NextLane DEF Beyond
<1>4. Holds(w, e) /\ ~Busy(w, e)
  BY <1>1 DEF Holds, HasEnc, LevelLabels, Busy
<1>5. Mine(e) /\ Fine(c.data, g.low[e], c.max)
  BY <1>2, <1>3, <1>4, HeldIsFine DEF ListStep
<1>6. DataOK(g, c.data, loc[w].level)
  BY <1>2, DataOfNode DEF ListStep
<1>7. c.data \in Datas /\ c.max \in Int /\ g.low[e] \in Int
  BY <1>2, ChunkIs, GhostsAre, StepFacts
<1>8. loc[w].new = Nil /\ loc[w].nxt = Nil
  BY <1>1, <1>2 DEF Control
<1>9. e # Nil
  BY <1>2, LevelsAre
<1> QED BY <1>1, <1>2, <1>3, <1>5, <1>6, <1>7, <1>8, <1>9 DEF From

\* The bottom chunk gets its name when the enclosing chunk of level 0 is locked.
LEMMA BottomNamed ==
  ASSUME NEW g, NEW w, ListStep(g, w), LevelOK(g, w), allocated' = allocated,
         loc'[w].bottom = loc[w].bottom \/ From(g, 0, loc'[w].bottom, loc[w].key),
         loc'[w].kind = loc[w].kind, loc'[w].key = loc[w].key, loc'[w].route = loc[w].route,
         loc'[w].level = loc[w].level, loc'[w].enc = loc[w].enc, loc'[w].val = loc[w].val,
         loc'[w].nxt = loc[w].nxt, loc'[w].new = loc[w].new,
         pc'[w] = "raise" => loc'[w].bottom # Nil,
         pc'[w] = "height" => ~Inserting(w),
         pc'[w] \in EncLocked => Mine(loc[w].enc)',
         pc'[w] \in NextLabels \cup SplitLabels =>
           On(g, loc[w].level, loc'[w].ini) /\ Mine(loc[w].ini)',
         pc'[w] # "unlockNew"
  PROVE  LevelOK(g, w)'
<1>1. loc'[w].new # Nil => loc'[w].new \in Chunks /\ loc'[w].new < allocated'
  BY DEF LevelOK
<1>2. /\ \A x \in Levels : From(g, x, loc'[w].route[x], loc'[w].key)
      /\ loc'[w].level \in Levels
      /\ From(g, loc'[w].level, loc'[w].enc, loc'[w].key)
      /\ loc'[w].bottom # Nil => From(g, 0, loc'[w].bottom, loc'[w].key)
      /\ loc'[w].nxt # Nil => On(g, loc'[w].level, loc'[w].nxt)
      /\ Inserting(w)' /\ loc'[w].level > 0 =>
           From(g, loc'[w].level - 1, loc'[w].val, loc'[w].key)
  BY DEF LevelOK, Inserting
<1>3. pc'[w] = "height" => ~Inserting(w)'
  BY DEF Inserting
<1> QED BY <1>1, <1>2, <1>3 DEF LevelOK

\* What an operation that fails on the bottom level leaves in its registers.
LEMMA FailNames ==
  ASSUME RegistersOK, NEW w \in Warps, NEW e,
         loc' = [loc EXCEPT ![w].bottom = e, ![w].ans = "false"]
  PROVE  /\ loc'[w].bottom = e /\ loc'[w].kind = loc[w].kind /\ loc'[w].key = loc[w].key
         /\ loc'[w].route = loc[w].route /\ loc'[w].level = loc[w].level
         /\ loc'[w].enc = loc[w].enc /\ loc'[w].val = loc[w].val /\ loc'[w].top = loc[w].top
         /\ loc'[w].nxt = loc[w].nxt /\ loc'[w].new = loc[w].new
BY FieldsAre DEF RegistersOK

\* InsertPresent keeps its warp in order.
LEMMA InsertPresentOwn ==
  ASSUME NEW g, NEW w, ListStep(g, w), InsertPresent(w)
  PROVE  WarpOK(g, w)'
<1>1. /\ Enclosing(w) /\ RegistersOK /\ w \in Warps /\ allocated' = allocated
  BY StepFacts DEF InsertPresent, mem
<1>2. /\ pc[w] \notin {"take", "return"} /\ pc[w] \notin OwnLabels
      /\ loc[w].level = 0 => From(g, 0, loc[w].enc, loc[w].key)
  BY <1>1, EnclosingFacts
<1>3. /\ LevelOK(g, w) /\ loc[w].top \in Levels /\ loc[w].key \in 1 .. MaxKey
      /\ loc[w].val \in Int
  BY <1>2, LevelFacts
<1>4. CASE /\ loc[w].level = 0
           /\ loc' = [loc EXCEPT ![w].bottom = loc[w].enc, ![w].ans = "false"]
           /\ pc' = [pc EXCEPT ![w] = "unlockBottom"]
  <2>1. pc'[w] = "unlockBottom"
    BY <1>1, <1>4 DEF RegistersOK
  <2>2. /\ loc'[w].bottom = loc[w].enc /\ loc'[w].kind = loc[w].kind
        /\ loc'[w].key = loc[w].key /\ loc'[w].route = loc[w].route
        /\ loc'[w].level = loc[w].level
        /\ loc'[w].enc = loc[w].enc /\ loc'[w].val = loc[w].val /\ loc'[w].top = loc[w].top
        /\ loc'[w].nxt = loc[w].nxt /\ loc'[w].new = loc[w].new
    BY <1>1, <1>4, FailNames
  <2>3. LevelOK(g, w)'
    BY <1>1, <1>2, <1>3, <1>4, <2>1, <2>2, BottomNamed DEF EncLocked, NextLabels, SplitLabels
  <2> QED BY <1>3, <2>1, <2>2, <2>3, PlainBuilt DEF Plain
<1>5. CASE loc' = loc /\ pc' = [pc EXCEPT ![w] = "unlockEnc"]
  <2>1. pc'[w] = "unlockEnc" /\ LevelRegs(w) /\ loc'[w].top = loc[w].top
    BY <1>1, <1>5 DEF RegistersOK, LevelRegs
  <2> QED BY <1>2, <2>1, PlainOwn DEF Plain
<1> QED BY <1>4, <1>5 DEF InsertPresent, GoTo

\* EraseAbsent keeps its warp in order.
LEMMA EraseAbsentOwn ==
  ASSUME NEW g, NEW w, ListStep(g, w), EraseAbsent(w)
  PROVE  WarpOK(g, w)'
<1>1. /\ Enclosing(w) /\ RegistersOK /\ w \in Warps /\ allocated' = allocated
  BY StepFacts DEF EraseAbsent, mem
<1>2. /\ pc[w] \notin {"take", "return"} /\ pc[w] \notin OwnLabels
      /\ loc[w].level = 0 => From(g, 0, loc[w].enc, loc[w].key)
  BY <1>1, EnclosingFacts
<1>3. /\ LevelOK(g, w) /\ loc[w].top \in Levels /\ loc[w].key \in 1 .. MaxKey
      /\ loc[w].val \in Int
  BY <1>2, LevelFacts
<1>4. CASE /\ loc[w].level = 0
           /\ loc' = [loc EXCEPT ![w].bottom = loc[w].enc, ![w].ans = "false"]
           /\ pc' = [pc EXCEPT ![w] = "unlockBottom"]
  <2>1. pc'[w] = "unlockBottom"
    BY <1>1, <1>4 DEF RegistersOK
  <2>2. /\ loc'[w].bottom = loc[w].enc /\ loc'[w].kind = loc[w].kind
        /\ loc'[w].key = loc[w].key /\ loc'[w].route = loc[w].route
        /\ loc'[w].level = loc[w].level
        /\ loc'[w].enc = loc[w].enc /\ loc'[w].val = loc[w].val /\ loc'[w].top = loc[w].top
        /\ loc'[w].nxt = loc[w].nxt /\ loc'[w].new = loc[w].new
    BY <1>1, <1>4, FailNames
  <2>3. LevelOK(g, w)'
    BY <1>1, <1>2, <1>3, <1>4, <2>1, <2>2, BottomNamed DEF EncLocked, NextLabels, SplitLabels
  <2> QED BY <1>3, <2>1, <2>2, <2>3, PlainBuilt DEF Plain
<1>5. CASE loc' = [loc EXCEPT ![w].up = FALSE] /\ pc' = [pc EXCEPT ![w] = "unlockEnc"]
  <2>1. pc'[w] = "unlockEnc" /\ LevelRegs(w) /\ loc'[w].top = loc[w].top
    BY <1>1, <1>5, FieldsAre DEF RegistersOK, LevelRegs
  <2> QED BY <1>2, <2>1, PlainOwn DEF Plain
<1> QED BY <1>4, <1>5 DEF EraseAbsent, GoTo

\* InsertFits keeps its warp in order.
LEMMA InsertFitsOwn ==
  ASSUME NEW g, NEW w, ListStep(g, w), InsertFits(w)
  PROVE  WarpOK(g, w)'
<1> DEFINE e == loc[w].enc
           c == chunk[e]
           n == OccupiedSlots(c)
           data == c.data
           idx == InsertionIdx(data, loc[w].key)
           new == Shifted(data, idx, NewEntry(w))
           b == IF loc[w].level = 0 THEN e ELSE loc[w].bottom
<1>1. /\ Enclosing(w) /\ Inserting(w) /\ RegistersOK /\ w \in Warps /\ allocated' = allocated
      /\ chunk' = chunk /\ ~ChunkContains(loc[w].key, c) /\ n < DSize
      /\ pc' = [pc EXCEPT ![w] = "shift"]
  BY StepFacts DEF InsertFits, mem, GoTo
<1>2. loc' = [loc EXCEPT ![w].up = FALSE, ![w].tgt = e, ![w].bottom = b, ![w].stop = idx,
                         ![w].i = n, ![w].reg = new]
  <2>1. loc' = [loc EXCEPT ![w].up = FALSE, ![w].tgt = e,
                ![w].bottom = IF loc[w].level = 0 THEN e ELSE @, ![w].stop = idx,
                         ![w].i = n, ![w].reg = new]
    BY DEF InsertFits, ShiftIn
  <2>2. CASE loc[w].level = 0
    BY <2>1, <2>2
  <2>3. CASE loc[w].level # 0
    BY <2>1, <2>3, <1>1, FieldsAre DEF RegistersOK
  <2> QED BY <2>2, <2>3
<1>3. /\ pc[w] \notin {"take", "return"} /\ pc[w] \notin OwnLabels
      /\ loc[w].level = 0 => From(g, 0, e, loc[w].key)
      /\ loc[w].key <= c.max /\ g.low[e] < loc[w].key
      /\ Mine(e) /\ Fine(c.data, g.low[e], c.max) /\ DataOK(g, c.data, loc[w].level)
      /\ c.data \in Datas /\ c.max \in Int /\ g.low[e] \in Int /\ loc[w].new = Nil
  BY <1>1, EnclosingFacts
<1>4. /\ LevelOK(g, w) /\ loc[w].top \in Levels /\ loc[w].key \in 1 .. MaxKey
      /\ loc[w].val \in Int /\ loc[w].level \in Levels
      /\ From(g, loc[w].level, e, loc[w].key)
  BY <1>3, LevelFacts
<1>5. NewEntry(w) \in Entries /\ NewEntry(w).k = loc[w].key /\ loc[w].key # PosInf
  BY <1>4, ConstantsAre DEF NewEntry, Entries, NegInf, PosInf
<1>6. EntryOK(g, NewEntry(w), loc[w].level)
  BY <1>1, <1>4 DEF EntryOK, NewEntry, LevelOK, From
<1>7. n = Occ(c.data) /\ ~HasKey(c.data, loc[w].key)
  BY <1>1, KeyLane DEF OccupiedSlots, OccupiedLanes, Occ
<1>8. /\ new \in Datas /\ Fine(new, g.low[e], c.max)
      /\ idx \in 0 .. n /\ n \in Lanes
      /\ \A j \in Lanes : j < idx \/ j > n => new[j].k = c.data[j].k
      /\ DataOK(g, new, loc[w].level)
  <2>1. g \in Ghosts
    BY StepFacts
  <2> HIDE DEF c
  <2> QED BY <1>1, <1>3, <1>4, <1>5, <1>6, <1>7, <2>1, InsertionIsFine
<1> HIDE DEF new, idx, n, b
<1>9. /\ pc'[w] = "shift" /\ loc'[w].tgt = e /\ loc'[w].bottom = b /\ loc'[w].stop = idx
      /\ loc'[w].i = n /\ loc'[w].reg = new
  BY <1>1, <1>2, FieldsAre DEF RegistersOK
<1>10. /\ loc'[w].kind = loc[w].kind /\ loc'[w].key = loc[w].key
       /\ loc'[w].route = loc[w].route /\ loc'[w].level = loc[w].level
       /\ loc'[w].enc = loc[w].enc
  BY <1>1, <1>2, FieldsAre DEF RegistersOK
<1>11. /\ loc'[w].val = loc[w].val /\ loc'[w].top = loc[w].top
       /\ loc'[w].nxt = loc[w].nxt /\ loc'[w].new = loc[w].new
  BY <1>1, <1>2, FieldsAre DEF RegistersOK
<1>12. LevelOK(g, w)'
  <2>1. b = loc[w].bottom \/ From(g, 0, b, loc[w].key)
    BY <1>3 DEF b
  <2> QED BY <1>1, <1>4, <1>9, <1>10, <1>11, <2>1, BottomNamed
          DEF EncLocked, NextLabels, SplitLabels
<1>13. SplitOK(g, w)'
  BY <1>3, <1>4, <1>9, <1>10, <1>11 DEF SplitOK, InsertSplits, NextLabels
<1>14. ShiftOK(g, w)'
  <2>1. Mine(loc[w].tgt)' /\ chunk'[loc'[w].tgt] = c
    BY <1>1, <1>3, <1>9 DEF Mine
  <2> HIDE DEF c
  <2> QED BY <1>8, <1>9, <1>10, <2>1 DEF ShiftOK
<1> QED BY <1>4, <1>9, <1>10, <1>11, <1>12, <1>13, <1>14, LevelBuilt, Elsewhere
        DEF OwnLabels, SearchLabels, UnlinkLabels, SplitLabels, Merging, NextLabels, MergeTail,
            DownLabels

\* InsertOverflows keeps its warp in order.
LEMMA InsertOverflowsOwn ==
  ASSUME NEW g, NEW w, ListStep(g, w), InsertOverflows(w)
  PROVE  WarpOK(g, w)'
<1> DEFINE e == loc[w].enc
           c == chunk[e]
<1>1. /\ Enclosing(w) /\ Inserting(w) /\ RegistersOK /\ w \in Warps /\ allocated' = allocated
      /\ chunk' = chunk /\ ~ChunkContains(loc[w].key, c) /\ OccupiedSlots(c) = DSize
      /\ pc' = [pc EXCEPT ![w] = "nextRead"] /\ loc' = [loc EXCEPT ![w].ini = e]
  BY StepFacts DEF InsertOverflows, mem, GoTo
<1>3. /\ pc[w] \notin {"take", "return"} /\ pc[w] \notin OwnLabels
      /\ loc[w].key <= c.max /\ Mine(e)
  BY <1>1, EnclosingFacts
<1>4. /\ LevelOK(g, w) /\ loc[w].top \in Levels /\ loc[w].key \in 1 .. MaxKey
      /\ loc[w].val \in Int /\ loc[w].level \in Levels
      /\ From(g, loc[w].level, e, loc[w].key)
  BY <1>3, LevelFacts
<1>7. Full(c.data) /\ ~HasKey(c.data, loc[w].key)
  BY <1>1, KeyLane, OccBound DEF OccupiedSlots, OccupiedLanes, Occ
<1>9. /\ pc'[w] = "nextRead" /\ LevelRegs(w) /\ loc'[w].top = loc[w].top /\ loc'[w].ini = e
  BY <1>1, FieldsAre DEF RegistersOK, LevelRegs
<1>10. LevelOK(g, w)'
  <2>1. Mine(loc[w].enc)' /\ Mine(loc[w].ini)' /\ On(g, loc[w].level, e)
    BY <1>1, <1>3, <1>4, <1>9 DEF Mine, LevelRegs, From
  <2> QED BY <1>4, <1>9, <2>1, LevelKept DEF NextLabels
<1>11. SplitOK(g, w)'
  <2>1. chunk'[loc'[w].enc] = c /\ loc'[w].key = loc[w].key
    BY <1>1, <1>9 DEF LevelRegs
  <2> QED BY <1>3, <1>7, <1>9, <2>1 DEF SplitOK
<1>12. MergeOK(g, w)'
  <2>1. Inserting(w)'
    BY <1>1, <1>9 DEF LevelRegs, Inserting
  <2> QED BY <1>9, <2>1 DEF MergeOK, MergeTail
<1> QED BY <1>4, <1>9, <1>10, <1>11, <1>12, LevelBuilt, Elsewhere
        DEF OwnLabels, SearchLabels, UnlinkLabels, SplitLabels, DownLabels, LevelRegs

\* The registers but those of S stay.
Rest(w, S) == \A f \in Fields \ S : loc'[w][f] = loc[w][f]

\* A step to such a label that may name the bottom chunk or forget the new one.
LEMMA PlainNamed ==
  ASSUME NEW g, NEW w, ListStep(g, w), pc[w] \notin {"take", "return"},
         pc[w] \notin OwnLabels, pc'[w] \in Plain, allocated' = allocated,
         loc'[w].kind = loc[w].kind, loc'[w].key = loc[w].key, loc'[w].route = loc[w].route,
         loc'[w].level = loc[w].level, loc'[w].enc = loc[w].enc, loc'[w].val = loc[w].val,
         loc'[w].nxt = loc[w].nxt, loc'[w].new \in {loc[w].new, Nil},
         loc'[w].top = loc[w].top, loc'[w].bottom = loc[w].bottom,
         pc'[w] = "raise" => loc[w].bottom # Nil,
         pc'[w] = "height" => ~Inserting(w)
  PROVE  WarpOK(g, w)'
<1>1. /\ LevelOK(g, w) /\ loc'[w].top \in Levels /\ loc'[w].key \in 1 .. MaxKey
      /\ loc'[w].val \in Int
  BY LevelFacts
<1>2. pc'[w] \notin EncLocked /\ pc'[w] \notin NextLabels \cup SplitLabels /\ pc'[w] # "unlockNew"
  BY DEF Plain, EncLocked, NextLabels, SplitLabels
<1>3. LevelOK(g, w)'
  BY <1>1, <1>2 DEF LevelOK, Inserting
<1> QED BY <1>1, <1>3, PlainBuilt

\* What entering a level leaves of the registers.
LEMMA EnterNames ==
  ASSUME RegistersOK, NEW w \in Warps, NEW l, NEW e, NEW v,
         loc' = [loc EXCEPT ![w].level = l, ![w].enc = e, ![w].val = v,
                            ![w].ini = Nil, ![w].nxt = Nil, ![w].first = Nil]
  PROVE  /\ loc'[w].level = l /\ loc'[w].enc = e /\ loc'[w].val = v /\ loc'[w].nxt = Nil
         /\ loc'[w].kind = loc[w].kind /\ loc'[w].key = loc[w].key
         /\ loc'[w].route = loc[w].route /\ loc'[w].bottom = loc[w].bottom
         /\ loc'[w].new = loc[w].new /\ loc'[w].top = loc[w].top
BY FieldsAre DEF RegistersOK

\* An operation goes on one level up.
LEMMA EnterOwn ==
  ASSUME NEW g, NEW w, ListStep(g, w), pc[w] \notin {"take", "return"},
         pc[w] \notin OwnLabels, pc'[w] = "enclose", allocated' = allocated,
         loc'[w].kind = loc[w].kind, loc'[w].key = loc[w].key, loc'[w].route = loc[w].route,
         loc'[w].level \in Levels, loc'[w].enc = loc[w].route[loc'[w].level],
         loc'[w].nxt = Nil, loc'[w].new = loc[w].new, loc'[w].bottom = loc[w].bottom,
         loc'[w].top \in Levels, loc'[w].val \in Int,
         Inserting(w) => From(g, loc'[w].level - 1, loc'[w].val, loc[w].key)
  PROVE  WarpOK(g, w)'
<1>1. /\ LevelOK(g, w) /\ loc'[w].key \in 1 .. MaxKey
  BY LevelFacts
<1>2. LevelOK(g, w)'
  BY <1>1 DEF LevelOK, Inserting, EncLocked, NextLabels, SplitLabels
<1> QED BY <1>1, <1>2, PlainBuilt DEF Plain

\* RaiseKey keeps its warp in order.
LEMMA RaiseKeyOwn ==
  ASSUME NEW g, NEW w, ListStep(g, w), RaiseKey(w)
  PROVE  WarpOK(g, w)'
<1>1. /\ pc[w] = "raise" /\ pc[w] \notin {"take", "return"} /\ pc[w] \notin OwnLabels
      /\ allocated' = allocated
  BY DEF RaiseKey, At, OwnLabels, SearchLabels, UnlinkLabels, mem
<1>2. /\ LevelOK(g, w) /\ loc[w].top \in Levels /\ RegistersOK /\ w \in Warps
  BY <1>1, LevelFacts
<1>3. From(g, 0, loc[w].bottom, loc[w].key)
  BY <1>1, <1>2 DEF LevelOK
<1>4. CASE EnterLevel(w, 1, loc[w].bottom)
  <2>1. pc'[w] = "enclose"
    BY <1>2, <1>4 DEF EnterLevel, GoTo, RegistersOK
  <2>2. /\ loc'[w].level = 1 /\ loc'[w].enc = loc[w].route[1] /\ loc'[w].val = loc[w].bottom
        /\ loc'[w].nxt = Nil
        /\ loc'[w].kind = loc[w].kind /\ loc'[w].key = loc[w].key
        /\ loc'[w].route = loc[w].route /\ loc'[w].bottom = loc[w].bottom
        /\ loc'[w].new = loc[w].new /\ loc'[w].top = loc[w].top
    <3> DEFINE e == loc[w].route[1]
               v == loc[w].bottom
    <3>1. loc' = [loc EXCEPT ![w].level = 1, ![w].enc = e, ![w].val = v,
                             ![w].ini = Nil, ![w].nxt = Nil, ![w].first = Nil]
      BY SMTT(30), <1>4 DEF EnterLevel
    <3> HIDE DEF e, v
    <3>2. /\ loc'[w].level = 1 /\ loc'[w].enc = e /\ loc'[w].val = v /\ loc'[w].nxt = Nil
          /\ loc'[w].kind = loc[w].kind /\ loc'[w].key = loc[w].key
          /\ loc'[w].route = loc[w].route /\ loc'[w].bottom = loc[w].bottom
          /\ loc'[w].new = loc[w].new /\ loc'[w].top = loc[w].top
      BY <1>2, <3>1, EnterNames
    <3> QED BY <3>2 DEF e, v
  <2>3. 1 \in Levels /\ 1 - 1 = 0
    BY ConstantsAre DEF Levels
  <2>4. loc[w].bottom \in Int
    BY <1>3, LevelsAre DEF From, On
  <2> QED BY <1>1, <1>2, <1>3, <2>1, <2>2, <2>3, <2>4, EnterOwn
<1>5. CASE pc' = [pc EXCEPT ![w] = "unlockBottom"] /\ loc' = loc
  <2>1. pc'[w] = "unlockBottom" /\ LevelRegs(w) /\ loc'[w].top = loc[w].top
    BY <1>2, <1>5 DEF RegistersOK, LevelRegs
  <2> QED BY <1>1, <2>1, PlainOwn DEF Plain
<1> QED BY <1>4, <1>5 DEF RaiseKey, GoTo

\* What reading the height leaves of the registers.
LEMMA HeightNames ==
  ASSUME RegistersOK, NEW w \in Warps, NEW t, NEW e,
         loc' = [loc EXCEPT ![w].top = t, ![w].level = 1, ![w].enc = e,
                            ![w].ini = Nil, ![w].nxt = Nil, ![w].first = Nil]
  PROVE  /\ loc'[w].level = 1 /\ loc'[w].enc = e /\ loc'[w].val = loc[w].val
         /\ loc'[w].nxt = Nil
         /\ loc'[w].kind = loc[w].kind /\ loc'[w].key = loc[w].key
         /\ loc'[w].route = loc[w].route /\ loc'[w].bottom = loc[w].bottom
         /\ loc'[w].new = loc[w].new /\ loc'[w].top = t
BY FieldsAre DEF RegistersOK

\* ReadHeight keeps its warp in order.
LEMMA ReadHeightOwn ==
  ASSUME NEW g, NEW w, ListStep(g, w), ReadHeight(w)
  PROVE  WarpOK(g, w)'
<1>1. /\ pc[w] = "height" /\ pc[w] \notin {"take", "return"} /\ pc[w] \notin OwnLabels
      /\ allocated' = allocated
  BY DEF ReadHeight, At, OwnLabels, SearchLabels, UnlinkLabels, mem
<1>2. /\ LevelOK(g, w) /\ loc[w].top \in Levels /\ RegistersOK /\ w \in Warps
      /\ loc[w].val \in Int
  BY <1>1, LevelFacts
<1>3. ~Inserting(w)
  BY <1>1, <1>2 DEF LevelOK
<1> DEFINE H == Height
           e == loc[w].route[1]
<1>4. H \in Levels
  BY DEF ListStep
<1>5. CASE /\ loc' = [loc EXCEPT ![w].top = H, ![w].level = 1, ![w].enc = e,
                                 ![w].ini = Nil, ![w].nxt = Nil, ![w].first = Nil]
           /\ pc' = [pc EXCEPT ![w] = "enclose"]
  <2>1. pc'[w] = "enclose"
    BY SMTT(30), <1>2, <1>5 DEF RegistersOK
  <2>2. /\ loc'[w].level = 1 /\ loc'[w].enc = e /\ loc'[w].val = loc[w].val
        /\ loc'[w].nxt = Nil
        /\ loc'[w].kind = loc[w].kind /\ loc'[w].key = loc[w].key
        /\ loc'[w].route = loc[w].route /\ loc'[w].bottom = loc[w].bottom
        /\ loc'[w].new = loc[w].new /\ loc'[w].top = H
    BY ZenonT(40), <1>2, <1>5, HeightNames
  <2>3. 1 \in Levels
    BY ConstantsAre DEF Levels
  <2> HIDE DEF H
  <2> QED BY <1>1, <1>2, <1>3, <1>4, <2>1, <2>2, <2>3, EnterOwn
<1>6. CASE pc' = [pc EXCEPT ![w] = "unlockBottom"] /\ loc' = loc
  <2>1. pc'[w] = "unlockBottom" /\ LevelRegs(w) /\ loc'[w].top = loc[w].top
    BY <1>2, <1>6 DEF RegistersOK, LevelRegs
  <2> QED BY <1>1, <2>1, PlainOwn DEF Plain
<1> QED BY <1>5, <1>6 DEF ReadHeight, GoTo

\* UnlockEnclosing keeps its warp in order.
LEMMA UnlockEnclosingOwn ==
  ASSUME NEW g, NEW w, ListStep(g, w), UnlockEnclosing(w)
  PROVE  WarpOK(g, w)'
<1>1. /\ pc[w] = "unlockEnc" /\ pc[w] \notin {"take", "return"} /\ pc[w] \notin OwnLabels
      /\ allocated' = allocated
  BY DEF UnlockEnclosing, At, OwnLabels, SearchLabels, UnlinkLabels
<1>2. /\ LevelOK(g, w) /\ loc[w].top \in Levels /\ RegistersOK /\ w \in Warps
      /\ loc[w].level \in Levels /\ From(g, loc[w].level, loc[w].enc, loc[w].key)
  BY <1>1, LevelFacts
<1>4. CASE loc[w].level < TopOf(w) /\ EnterLevel(w, loc[w].level + 1, loc[w].enc)
  <2> DEFINE l == loc[w].level + 1
  <2>1. pc'[w] = "enclose"
    BY <1>2, <1>4 DEF EnterLevel, GoTo, RegistersOK
  <2>2. /\ loc'[w].level = l /\ loc'[w].enc = loc[w].route[l] /\ loc'[w].val = loc[w].enc
        /\ loc'[w].nxt = Nil
        /\ loc'[w].kind = loc[w].kind /\ loc'[w].key = loc[w].key
        /\ loc'[w].route = loc[w].route /\ loc'[w].bottom = loc[w].bottom
        /\ loc'[w].new = loc[w].new /\ loc'[w].top = loc[w].top
    <3> DEFINE e == loc[w].route[l]
               v == loc[w].enc
    <3>1. loc' = [loc EXCEPT ![w].level = l, ![w].enc = e, ![w].val = v,
                             ![w].ini = Nil, ![w].nxt = Nil, ![w].first = Nil]
      BY SMTT(30), <1>4 DEF EnterLevel
    <3> HIDE DEF l, e, v
    <3>2. /\ loc'[w].level = l /\ loc'[w].enc = e /\ loc'[w].val = v /\ loc'[w].nxt = Nil
          /\ loc'[w].kind = loc[w].kind /\ loc'[w].key = loc[w].key
          /\ loc'[w].route = loc[w].route /\ loc'[w].bottom = loc[w].bottom
          /\ loc'[w].new = loc[w].new /\ loc'[w].top = loc[w].top
      BY <1>2, <3>1, EnterNames
    <3> QED BY <3>2 DEF e, v
  <2>3. l \in Levels /\ l - 1 = loc[w].level
    BY <1>2, <1>4, ConstantsAre DEF Levels, TopOf
  <2>4. loc[w].enc \in Int
    BY <1>2, LevelsAre DEF From, On
  <2> HIDE DEF l
  <2> QED BY <1>1, <1>2, <2>1, <2>2, <2>3, <2>4, EnterOwn
<1>5. CASE pc' = [pc EXCEPT ![w] = "unlockBottom"] /\ loc' = loc
  <2>1. pc'[w] = "unlockBottom" /\ LevelRegs(w) /\ loc'[w].top = loc[w].top
    BY <1>2, <1>5 DEF RegistersOK, LevelRegs
  <2> QED BY <1>1, <2>1, PlainOwn DEF Plain
<1> QED BY <1>4, <1>5 DEF UnlockEnclosing, GoTo

\* What counting a chunk leaves of the registers.
LEMMA CountNames ==
  ASSUME RegistersOK, NEW w \in Warps, NEW u,
         loc' = [loc EXCEPT ![w].up = u, ![w].new = Nil]
  PROVE  /\ loc'[w].kind = loc[w].kind /\ loc'[w].key = loc[w].key
         /\ loc'[w].route = loc[w].route /\ loc'[w].level = loc[w].level
         /\ loc'[w].enc = loc[w].enc /\ loc'[w].val = loc[w].val /\ loc'[w].top = loc[w].top
         /\ loc'[w].bottom = loc[w].bottom /\ loc'[w].nxt = loc[w].nxt /\ loc'[w].new = Nil
<1>1. Rest(w, {"up", "new"})
  BY DEF RegistersOK, Rest
<1>2. loc'[w].new = Nil
  BY ZenonT(40), FieldsAre DEF RegistersOK
<1> QED BY <1>1, <1>2, FieldsAre DEF Rest

\* IncrementNumChunks keeps its warp in order.
LEMMA IncrementNumChunksOwn ==
  ASSUME NEW g, NEW w, ListStep(g, w), IncrementNumChunks(w)
  PROVE  WarpOK(g, w)'
<1>1. /\ pc[w] = "count" /\ pc[w] \notin {"take", "return"} /\ pc[w] \notin OwnLabels
      /\ allocated' = allocated
  BY DEF IncrementNumChunks, At, OwnLabels, SearchLabels, UnlinkLabels
<1>2. /\ LevelOK(g, w) /\ RegistersOK /\ w \in Warps /\ Control(w)
      /\ loc[w].enc \in Chunks
  BY <1>1, LevelFacts
<1>3. /\ loc'[w].kind = loc[w].kind /\ loc'[w].key = loc[w].key
      /\ loc'[w].route = loc[w].route /\ loc'[w].level = loc[w].level
      /\ loc'[w].enc = loc[w].enc /\ loc'[w].val = loc[w].val /\ loc'[w].top = loc[w].top
      /\ loc'[w].bottom = loc[w].bottom /\ loc'[w].nxt = loc[w].nxt /\ loc'[w].new = Nil
  BY <1>2, CountNames DEF IncrementNumChunks
<1>4. pc'[w] = IF loc[w].level = 0 THEN "raise" ELSE "unlockEnc"
  BY <1>2 DEF IncrementNumChunks, GoTo, RegistersOK
<1>5. loc[w].level = 0 => loc[w].bottom # Nil
  BY <1>1, <1>2, LevelsAre DEF Control, AtBottom
<1> QED BY <1>1, <1>3, <1>4, <1>5, PlainNamed DEF Plain

\* What the end of a merge leaves of the registers.
LEMMA MergedNames ==
  ASSUME RegistersOK, NEW w \in Warps,
         loc' = [loc EXCEPT ![w].ans = "true", ![w].new = Nil, ![w].over = FALSE]
  PROVE  /\ loc'[w].kind = loc[w].kind /\ loc'[w].key = loc[w].key
         /\ loc'[w].route = loc[w].route /\ loc'[w].level = loc[w].level
         /\ loc'[w].enc = loc[w].enc /\ loc'[w].val = loc[w].val /\ loc'[w].top = loc[w].top
         /\ loc'[w].bottom = loc[w].bottom /\ loc'[w].nxt = loc[w].nxt /\ loc'[w].new = Nil
BY FieldsAre DEF RegistersOK

\* UnlockMerged keeps its warp in order.
LEMMA UnlockMergedOwn ==
  ASSUME NEW g, NEW w, ListStep(g, w), UnlockMerged(w)
  PROVE  WarpOK(g, w)'
<1>1. /\ pc[w] = "unlockMerged" /\ pc[w] \notin {"take", "return"} /\ pc[w] \notin OwnLabels
      /\ allocated' = allocated
  BY DEF UnlockMerged, At, OwnLabels, SearchLabels, UnlinkLabels
<1>2. /\ LevelOK(g, w) /\ RegistersOK /\ w \in Warps /\ Control(w)
  BY <1>1, LevelFacts
<1>3. /\ loc'[w].kind = loc[w].kind /\ loc'[w].key = loc[w].key
      /\ loc'[w].route = loc[w].route /\ loc'[w].level = loc[w].level
      /\ loc'[w].enc = loc[w].enc /\ loc'[w].val = loc[w].val /\ loc'[w].top = loc[w].top
      /\ loc'[w].bottom = loc[w].bottom /\ loc'[w].nxt = loc[w].nxt /\ loc'[w].new = Nil
  BY <1>2, MergedNames DEF UnlockMerged
<1>4. pc'[w] = IF loc[w].level = 0 THEN "height" ELSE "unlockEnc"
  BY <1>2 DEF UnlockMerged, GoTo, RegistersOK, AfterErase
<1>5. ~Inserting(w)
  BY <1>1, <1>2 DEF Control, MergeLabels
<1> QED BY <1>1, <1>3, <1>4, <1>5, PlainNamed DEF Plain

\* StartOp keeps its warp in order.
LEMMA StartOpOwn ==
  ASSUME NEW g, NEW w, ListStep(g, w), StartOp(w)
  PROVE  WarpOK(g, w)'
<1> DEFINE o == OpOf(w)
           k == KeyOf(o)
<1>1. /\ RegistersOK /\ w \in Warps /\ WarpOK(g, w) /\ Control(w)
      /\ pc[w] = "take" /\ pos[w] <= Len(Batches[batch].keys)
  BY StepFacts DEF StartOp, At
<1>2. k \in 1 .. MaxKey
  <2>1. trace \in DOMAIN Traces /\ batch \in DOMAIN Batches /\ pos[w] \in Nat \ {0}
    BY <1>1 DEF ListStep, ListInv, HostOK
  <2> DEFINE R == [kind : {"insert", "erase"}, keys : Seq(1 .. MaxKey)]
  <2>2. Batches[batch].keys \in Seq(1 .. MaxKey)
    <3>1. Traces \in Seq(Seq(R))
      BY TraceAssumption
    <3> HIDE DEF R
    <3>2. Traces[trace] \in Seq(R)
      BY <2>1, <3>1
    <3>3. Traces[trace][batch] \in R
      BY <2>1, <3>2 DEF Batches
    <3> QED BY <3>3 DEF R, Batches
  <2> DEFINE S == Batches[batch].keys
             p == pos[w]
  <2>5. S \in Seq(1 .. MaxKey) /\ p \in Nat \ {0} /\ p <= Len(S)
    BY <1>1, <2>1, <2>2
  <2>6. p \in 1 .. Len(S)
    BY <2>5 DEF S
  <2>7. S[p] \in 1 .. MaxKey
    <3> DEFINE T == 1 .. MaxKey
    <3>1. S \in Seq(T)
      BY <2>5
    <3> HIDE DEF S, T, p
    <3>2. S[p] \in T
      BY <3>1, <2>6
    <3> QED BY <3>2 DEF T
  <2>4. k = Batches[batch].keys[pos[w]]
    BY DEF OpOf, KeyOf, Batches
  <2> QED BY <2>4, <2>7 DEF S, p
<1> DEFINE d == KindOf(o)
<1>3. loc' = [loc EXCEPT ![w].kind = d, ![w].key = k, ![w].sk = k, ![w].val = k]
  BY DEF StartOp
<1>4. pc'[w] = "search"
  BY <1>1 DEF StartOp, GoTo, RegistersOK
<1>5. loc[w].caller = "op"
  BY <1>1 DEF Control, SearchLabels, UnlinkLabels
<1> HIDE DEF k, d
<1>6. loc'[w].key = k /\ loc'[w].sk = k /\ loc'[w].val = k
  BY <1>1, <1>3, FieldsAre DEF RegistersOK
<1>7. loc'[w].top = loc[w].top /\ loc'[w].caller = "op"
  <2>1. Rest(w, {"kind", "key", "sk", "val"})
    BY <1>1, <1>3 DEF RegistersOK, Rest
  <2> QED BY <1>5, <2>1, FieldsAre DEF Rest
<1>8. k \in Int /\ k \in NegInf .. MaxKey
  BY <1>2, ConstantsAre DEF NegInf
<1>9. loc[w].top \in Levels
  BY <1>1 DEF WarpOK
<1> QED BY <1>2, <1>4, <1>6, <1>7, <1>8, <1>9
        DEF WarpOK, Walking, UnlinkLabels, OnLevel, OwnLabels, SearchLabels

\* ReturnResult keeps its warp in order.
LEMMA ReturnResultOwn ==
  ASSUME NEW g, NEW w, ListStep(g, w), ReturnResult(w)
  PROVE  WarpOK(g, w)'
<1>1. RegistersOK /\ w \in Warps
  BY StepFacts
<1>2. pc'[w] = "take" /\ loc'[w] = NoOp
  BY <1>1 DEF ReturnResult, GoTo, RegistersOK
<1>3. NoOp.top = 0 /\ 0 \in Levels
  BY LevelsAre DEF NoOp
<1> QED BY <1>2, <1>3
        DEF WarpOK, Walking, UnlinkLabels, OnLevel, OwnLabels, SearchLabels

\* SearchRefuses keeps its warp in order.
LEMMA SearchRefusesOwn ==
  ASSUME NEW g, NEW w, ListStep(g, w), SearchRefuses(w)
  PROVE  WarpOK(g, w)'
<1>1. RegistersOK /\ w \in Warps /\ loc[w].top \in Levels
  BY StepFacts DEF WarpOK
<1>2. pc'[w] = "return" /\ loc'[w].top = loc[w].top
  BY <1>1, FieldsAre DEF SearchRefuses, GoTo, RegistersOK
<1> QED BY <1>1, <1>2
        DEF WarpOK, Walking, UnlinkLabels, OnLevel, OwnLabels, SearchLabels

\* SearchLeads keeps its warp in order.
LEMMA SearchLeadsOwn ==
  ASSUME NEW g, NEW w, ListStep(g, w), SearchLeads(w)
  PROVE  WarpOK(g, w)'
<1>1. /\ pc[w] = "searched" /\ loc[w].caller = "op" /\ RegistersOK /\ w \in Warps
      /\ Control(w) /\ WarpOK(g, w) /\ allocated' = allocated
  BY StepFacts DEF SearchLeads, OwnSearch, At, mem
<1>2. /\ SearchOK(g, w) /\ loc[w].h = 0 /\ loc[w].sk = loc[w].key
      /\ loc[w].key \in 1 .. MaxKey /\ loc[w].val \in Int /\ loc[w].top \in Levels
  BY <1>1 DEF WarpOK, SearchOK, Walking, OwnLabels, SearchLabels
<1>3. loc[w].level = 0 /\ loc[w].bottom = Nil /\ loc[w].new = Nil /\ loc[w].nxt = Nil
  BY <1>1 DEF Control, SearchLabels
<1>4. pc'[w] = "enclose"
  BY <1>1 DEF SearchLeads, GoTo, RegistersOK
<1> DEFINE R == [loc[w].path EXCEPT ![0] = loc[w].cur]
           c == loc[w].cur
<1>5. loc' = [loc EXCEPT ![w] = Searched(w)]
  BY DEF SearchLeads
<1>6. loc'[w] = [loc[w] EXCEPT !.route = R, !.enc = c, !.prev = Nil, !.prevKv = BlankKv,
                               !.kv = BlankKv, !.tid = TidNone]
  BY <1>1, <1>5 DEF RegistersOK, Searched
<1>7. \A x \in Levels : From(g, x, R[x], loc[w].key)
  <2> SUFFICES ASSUME NEW x \in Levels PROVE From(g, x, R[x], loc[w].key)
    OBVIOUS
  <2>1. R[x] = loc[w].path[x] \/ (x = 0 /\ R[x] = c)
    <3> DEFINE P == loc[w].path
    <3>1. P = [y \in Levels |-> P[y]]
      BY <1>2 DEF SearchOK
    <3> HIDE DEF P, c
    <3>2. [P EXCEPT ![0] = c][x] = P[x] \/ (x = 0 /\ [P EXCEPT ![0] = c][x] = c)
      BY <3>1
    <3> QED BY <3>2 DEF P, c
  <2> QED BY <1>2, <2>1 DEF SearchOK
<1>8. From(g, 0, c, loc[w].key)
  BY <1>2 DEF SearchOK
<1> HIDE DEF R, c
<1>9. loc'[w].route = R /\ loc'[w].enc = c
  BY <1>1, <1>6, FieldsAre DEF RegistersOK
<1>10. /\ loc'[w].kind = loc[w].kind /\ loc'[w].key = loc[w].key
       /\ loc'[w].level = 0 /\ loc'[w].val = loc[w].val /\ loc'[w].top = loc[w].top
       /\ loc'[w].bottom = Nil /\ loc'[w].nxt = Nil /\ loc'[w].new = Nil
  <2>1. Rest(w, {"route", "enc", "prev", "prevKv", "kv", "tid"})
    BY <1>1, <1>6 DEF RegistersOK, Rest
  <2> QED BY <1>3, <2>1, FieldsAre DEF Rest
<1>11. LevelOK(g, w)'
  <2>1. \A x \in Levels : From(g, x, loc'[w].route[x], loc'[w].key)
    BY <1>7, <1>9, <1>10
  <2>2. From(g, loc'[w].level, loc'[w].enc, loc'[w].key) /\ loc'[w].level \in Levels
    BY <1>8, <1>9, <1>10, LevelsAre
  <2>3. /\ pc'[w] \notin EncLocked \cup NextLabels \cup SplitLabels \cup {"raise", "height"}
        /\ pc'[w] # "unlockNew"
    BY <1>4 DEF EncLocked, NextLabels, SplitLabels
  <2> QED BY <1>10, <2>1, <2>2, <2>3 DEF LevelOK
<1> QED BY <1>2, <1>4, <1>10, <1>11, PlainBuilt DEF Plain

\* DownSearched keeps its warp in order.
LEMMA DownSearchedOwn ==
  ASSUME NEW g, NEW w, ListStep(g, w), DownSearched(w)
  PROVE  WarpOK(g, w)'
<1>1. /\ pc[w] = "searched" /\ loc[w].caller = "down" /\ RegistersOK /\ w \in Warps
      /\ Control(w) /\ WarpOK(g, w) /\ allocated' = allocated
  BY StepFacts DEF DownSearched, At, mem
<1>2. SearchOK(g, w) /\ LevelOK(g, w) /\ DownOK(g, w) /\ loc[w].top \in Levels
      /\ loc[w].key \in 1 .. MaxKey /\ loc[w].val \in Int
  BY <1>1 DEF WarpOK, Walking, OnLevel
<1> DEFINE c == loc[w].path[loc[w].level + 1]
<1>3. pc'[w] = "downRead"
  BY <1>1 DEF DownSearched, GoTo, RegistersOK
<1>4. GoingDown(w)
  BY <1>1 DEF GoingDown, SearchLabels
<1>5. /\ loc[w].level + 1 \in Levels /\ loc[w].min \in NegInf .. MaxKey
      /\ loc[w].max \in NegInf .. MaxKey /\ loc[w].sk = loc[w].min
      /\ From(g, loc[w].level, loc[w].tgt, loc[w].min)
  BY <1>2, <1>4 DEF DownOK
<1>6. On(g, loc[w].level + 1, c)
  BY <1>2, <1>5 DEF SearchOK, From
<1> HIDE DEF c
<1>7. loc' = [loc EXCEPT ![w].cur = c, ![w].prev = Nil, ![w].prevKv = BlankKv,
                         ![w].kv = BlankKv, ![w].tid = TidNone, ![w].caller = "op"]
  BY DEF DownSearched, c
<1>8. loc'[w].cur = c /\ loc'[w].caller = "op"
  BY <1>1, <1>7, FieldsAre DEF RegistersOK
<1>9. Rest(w, {"cur", "prev", "prevKv", "kv", "tid", "caller"})
  BY <1>1, <1>7 DEF RegistersOK, Rest
<1>10. /\ LevelRegs(w) /\ loc'[w].top = loc[w].top /\ loc'[w].sk = loc[w].sk
       /\ loc'[w].tgt = loc[w].tgt /\ loc'[w].min = loc[w].min /\ loc'[w].max = loc[w].max
  BY <1>9, FieldsAre DEF Rest, LevelRegs
<1>11. LevelOK(g, w)'
  BY <1>2, <1>3, <1>10, LevelKept DEF EncLocked, NextLabels, SplitLabels
<1>12. DownOK(g, w)'
  BY <1>3, <1>5, <1>6, <1>8, <1>10 DEF DownOK, LevelRegs
<1> QED BY SMTT(30), <1>2, <1>3, <1>10, <1>11, <1>12, LevelBuilt, Elsewhere
        DEF OwnLabels, SearchLabels, UnlinkLabels, InsertSplits, NextLabels, SplitLabels,
            Merging, MergeTail, LevelRegs

\* updateDownPtrs begins, or there is no level above.
LEMMA BeginDownOwn ==
  ASSUME NEW g, NEW h, NEW w, ListStep(g, w), Sinks(g, h),
         NEW min \in NegInf .. MaxKey, NEW max \in NegInf .. MaxKey, NEW val,
         NEW done \in {"count", "unlockMerged"}, BeginDown(w, min, max, val, done),
         pc[w] \in {"unlockOther", "markZombie", "uncount"}, allocated' = allocated,
         From(h, loc[w].level, val, min),
         Inserting(w) => From(h, loc[w].level, loc[w].tgt, loc[w].key)
  PROVE  WarpOK(h, w)'
<1>1. pc[w] \notin {"take", "return"} /\ pc[w] \notin OwnLabels
  BY DEF OwnLabels, SearchLabels, UnlinkLabels
<1>2. /\ LevelOK(g, w) /\ loc[w].top \in Levels /\ RegistersOK /\ w \in Warps
      /\ loc[w].level \in Levels /\ loc[w].key \in 1 .. MaxKey /\ loc[w].key \in Int
      /\ loc[w].val \in Int /\ Control(w)
  BY <1>1, LevelFacts
<1> DEFINE atTop == loc[w].level + 1 > TopLevel
           e == IF Inserting(w) THEN loc[w].tgt ELSE loc[w].enc
<1>3. Rest(w, {"min", "max", "sk", "tgt", "enc", "kv", "caller"})
  BY <1>2 DEF RegistersOK, Rest, BeginDown
<1>4. /\ loc'[w].kind = loc[w].kind /\ loc'[w].key = loc[w].key /\ loc'[w].route = loc[w].route
      /\ loc'[w].level = loc[w].level /\ loc'[w].bottom = loc[w].bottom
      /\ loc'[w].val = loc[w].val /\ loc'[w].top = loc[w].top
      /\ loc'[w].nxt = loc[w].nxt /\ loc'[w].new = loc[w].new
  BY <1>3, FieldsAre DEF Rest
<1>5. /\ loc'[w].min = min /\ loc'[w].max = max /\ loc'[w].sk = min /\ loc'[w].tgt = val
      /\ loc'[w].enc = e
      /\ loc'[w].caller = IF atTop THEN loc[w].caller ELSE "down"
  <2> DEFINE a == IF atTop THEN loc[w].caller ELSE "down"
  <2>1. loc' = [loc EXCEPT ![w].min = min, ![w].max = max, ![w].sk = min, ![w].tgt = val,
                           ![w].enc = IF Inserting(w) THEN loc[w].tgt ELSE @,
                           ![w].kv = BlankKv, ![w].caller = IF atTop THEN @ ELSE "down"]
    BY DEF BeginDown
  <2>2. loc'[w] = [loc[w] EXCEPT !.min = min, !.max = max, !.sk = min, !.tgt = val,
                                 !.enc = e, !.kv = BlankKv, !.caller = a]
    BY <1>2, <2>1 DEF RegistersOK
  <2> HIDE DEF e, a
  <2>3. /\ loc'[w].min = min /\ loc'[w].max = max /\ loc'[w].sk = min /\ loc'[w].tgt = val
        /\ loc'[w].enc = e /\ loc'[w].caller = a
    BY <1>2, <2>2, FieldsAre DEF RegistersOK
  <2> QED BY <2>3 DEF a
<1>6. pc'[w] = IF atTop THEN done ELSE "search"
  BY <1>2 DEF BeginDown, GoTo, RegistersOK
<1>7. From(h, loc[w].level, e, loc[w].key)
  BY <1>1, <1>2, LevelFacts, FromKept
<1>8. LevelOK(h, w)'
  <2>1. \A x \in Levels : From(h, x, loc[w].route[x], loc[w].key)
    BY <1>2, FromKept DEF LevelOK
  <2>2. loc[w].bottom # Nil => From(h, 0, loc[w].bottom, loc[w].key)
    BY <1>2, FromKept, LevelsAre DEF LevelOK
  <2>3. loc[w].nxt # Nil => On(h, loc[w].level, loc[w].nxt)
    BY <1>2, OnKept DEF LevelOK
  <2>4. Inserting(w) /\ loc[w].level > 0 =>
          From(h, loc[w].level - 1, loc[w].val, loc[w].key)
    BY <1>2, FromKept, LevelsAre DEF LevelOK
  <2>5. loc[w].new # Nil => loc[w].new \in Chunks /\ loc[w].new < allocated'
    BY <1>2 DEF LevelOK
  <2>6. pc'[w] \notin EncLocked \cup NextLabels \cup SplitLabels \cup {"raise", "height"}
        /\ pc'[w] # "unlockNew"
    BY <1>6 DEF EncLocked, NextLabels, SplitLabels
  <2> HIDE DEF e
  <2>7. From(h, loc[w].level, loc'[w].enc, loc[w].key)
    BY <1>5, <1>7
  <2>8. Inserting(w)' <=> Inserting(w)
    BY <1>4 DEF Inserting
  <2> QED BY <1>2, <1>4, <2>1, <2>2, <2>3, <2>4, <2>5, <2>6, <2>7, <2>8 DEF LevelOK
<1>9. CASE atTop
  BY <1>2, <1>4, <1>6, <1>8, <1>9, PlainBuilt DEF Plain
<1>10. CASE ~atTop
  <2>1. pc'[w] = "search" /\ loc'[w].caller = "down" /\ loc'[w].sk = min
    BY <1>5, <1>6, <1>10
  <2>2. loc[w].level + 1 \in Levels
    BY <1>2, <1>10, ConstantsAre DEF Levels
  <2>3. DownOK(h, w)'
    BY <1>4, <1>5, <2>1, <2>2 DEF DownOK, DownLabels
  <2>4. /\ pc'[w] \notin {"nextWalk", "nextLock", "nextCheck", "nextSet"} \cup SplitLabels
        /\ pc'[w] \notin InsertSplits \cup {"empty", "shift", "unlockOther"}
        /\ pc'[w] # "shift" /\ pc'[w] \notin {"lowerMax", "unshift"}
        /\ pc'[w] \notin Merging \cup {"uncount"} /\ pc'[w] \notin Walking
    BY <2>1 DEF SplitLabels, InsertSplits, NextLabels, Merging, MergeTail, Walking, UnlinkLabels
  <2> QED BY <1>2, <1>4, <1>8, <2>1, <2>3, <2>4, Elsewhere DEF WarpOK
<1> QED BY <1>9, <1>10

\* UnlockOther keeps its warp in order.
LEMMA UnlockOtherOwn ==
  ASSUME NEW g, NEW w, ListStep(g, w), UnlockOther(w)
  PROVE  WarpOK(g, w)'
<1>1. /\ pc[w] = "unlockOther" /\ pc[w] \notin {"take", "return"} /\ pc[w] \notin OwnLabels
      /\ allocated' = allocated
  BY DEF UnlockOther, At, OwnLabels, SearchLabels, UnlinkLabels
<1>2. SplitOK(g, w) /\ Control(w) /\ g \in Ghosts
  BY <1>1, LevelFacts, StepFacts
<1> DEFINE min == loc[w].kv.data[DSize \div 2 + 1].k
           max == loc[w].kv.data[DSize - 1].k
<1>3. loc[w].new # Nil
  BY <1>1, <1>2 DEF Control
<1>4. /\ From(g, loc[w].level, loc[w].tgt, loc[w].key)
      /\ From(g, loc[w].level, loc[w].new, min) /\ min \in NegInf .. MaxKey
      /\ max \in NegInf .. MaxKey
  BY <1>1, <1>2, <1>3 DEF SplitOK
<1>5. BeginDown(w, min, max, loc[w].new, "count")
  BY DEF UnlockOther
<1>6. Sinks(g, g)
  BY <1>2, SinksSelf
<1> HIDE DEF min, max
<1> QED BY <1>1, <1>4, <1>5, <1>6, BeginDownOwn

\* DecrementNumChunks keeps its warp in order.
LEMMA DecrementNumChunksOwn ==
  ASSUME NEW g, NEW w, ListStep(g, w), DecrementNumChunks(w)
  PROVE  WarpOK(g, w)'
<1>1. /\ pc[w] = "uncount" /\ pc[w] \notin {"take", "return"} /\ pc[w] \notin OwnLabels
      /\ allocated' = allocated
  BY DEF DecrementNumChunks, At, OwnLabels, SearchLabels, UnlinkLabels
<1>2. MergeOK(g, w) /\ Control(w) /\ g \in Ghosts
  BY <1>1, LevelFacts, StepFacts
<1>3. ~Inserting(w)
  BY <1>1, <1>2 DEF Control, MergeLabels
<1>4. /\ From(g, loc[w].level, loc[w].nxt, loc[w].min)
      /\ loc[w].min \in NegInf .. MaxKey /\ loc[w].max \in NegInf .. MaxKey
  BY <1>1, <1>2 DEF MergeOK
<1>5. BeginDown(w, loc[w].min, loc[w].max, loc[w].nxt, "unlockMerged")
  BY DEF DecrementNumChunks
<1>6. Sinks(g, g)
  BY <1>2, SinksSelf
<1> QED BY <1>1, <1>3, <1>4, <1>5, <1>6, BeginDownOwn

\* The chunks w holds under several names.
LEMMA HeldDiffer ==
  ASSUME NEW g, NEW w, ListStep(g, w), NEW c \in Chunks, Mine(c)
  PROVE  Differs(w, c)
BY DEF ListStep, ExclusiveInv, Apart, Mine

\* UnlockNew keeps its warp in order.
LEMMA UnlockNewOwn ==
  ASSUME NEW g, NEW w, ListStep(g, w), UnlockNew(w)
  PROVE  WarpOK(g, w)'
<1> DEFINE e == loc[w].enc
           x == loc[w].nxt
<1>1. /\ pc[w] = "unlockNew" /\ pc[w] \notin {"take", "return"} /\ pc[w] \notin OwnLabels
      /\ pc[w] \in SplitLabels /\ pc[w] \notin StoreLabels /\ loc' = loc
  BY DEF UnlockNew, At, OwnLabels, SearchLabels, UnlinkLabels, SplitLabels, StoreLabels
<1>2. /\ LevelOK(g, w) /\ NextOK(g, w) /\ MergeOK(g, w) /\ loc[w].top \in Levels
      /\ loc[w].key \in 1 .. MaxKey
      /\ loc[w].val \in Int /\ Control(w) /\ e \in Chunks /\ RegistersOK /\ w \in Warps /\ WordsOK
      /\ loc[w].level \in Levels
  BY <1>1, LevelFacts, StepFacts
<1>3. pc'[w] = "mergeShift"
  BY <1>2 DEF UnlockNew, GoTo, RegistersOK
<1>4. /\ ~Inserting(w) /\ On(g, loc[w].level, loc[w].new) /\ Mine(loc[w].new) /\ loc[w].ini = x
      /\ Mine(e) /\ Mine(x) /\ On(g, loc[w].level, x)
  BY <1>1, <1>2 DEF Control, NextOK, LevelOK, EncLocked
<1>5. loc[w].new \in Chunks /\ x \in Chunks
  BY <1>2, <1>4, OnIsLinked
<1>6. loc[w].new # e /\ loc[w].new # x
  <2>1. Differs(w, loc[w].new)
    BY <1>4, <1>5, HeldDiffer
  <2>2. HasNew(w)
    BY <1>1, <1>2, <1>4, <1>5, LevelsAre DEF HasNew, Control
  <2> QED BY <2>1, <2>2 DEF Differs
<1>7. x # e
  <2>1. Differs(w, x)
    BY <1>4, <1>5, HeldDiffer
  <2>2. HasNxt(w)
    BY <1>1, <1>4, <1>5, LevelsAre DEF HasNxt
  <2> QED BY <2>1, <2>2 DEF Differs
<1>8. Mine(e)' /\ Mine(x)'
  <2>1. ~Gives(w, e) /\ ~Gives(w, x)
    BY <1>1, <1>6 DEF Gives
  <2>2. chunk'[e].lock = "locked" /\ chunk'[x].lock = "locked"
    <3>1. \A c \in Chunks : Mine(c) /\ ~Gives(w, c) => chunk'[c].lock = "locked"
      BY <1>1, MineStays DEF Mine
    <3> QED BY <1>2, <1>4, <1>5, <2>1, <3>1
  <2> QED BY <1>1, <2>2 DEF Mine
<1>9. Same(e) /\ Same(x)
  BY <1>1, <1>2, <1>5, StepStores DEF ListStep
<1>10. LevelRegs(w)
  BY <1>1 DEF LevelRegs
<1>11. LevelOK(g, w)'
  BY SMTT(30), <1>1, <1>2, <1>3, <1>8, <1>10, LevelKept DEF NextLabels, SplitLabels, Mine
<1>12. MergeOK(g, w)'
  <2>1. /\ HasKey(chunk[e].data, loc[w].key) /\ Occ(chunk[e].data) - 1 <= MergeThreshold
        /\ chunk[e].next # Nil /\ x = chunk[e].next
        /\ Occ(chunk[x].data) + Occ(chunk[e].data) - 1 <= DSize
    BY <1>1, <1>2, <1>4, <1>7 DEF MergeOK, Merging
  <2>2. /\ HasKey(chunk'[e].data, loc[w].key) /\ Occ(chunk'[e].data) - 1 <= MergeThreshold
        /\ chunk'[e].next # Nil /\ x = chunk'[e].next
        /\ Occ(chunk'[x].data) + Occ(chunk'[e].data) - 1 <= DSize
    BY <1>9, <2>1 DEF Same
  <2>3. chunk'[x].lock = "locked"
    BY <1>1, <1>8 DEF Mine
  <2> QED BY <1>1, <1>3, <2>2, <2>3
          DEF MergeOK, MergeTail, NextLabels, SplitLabels, InsertSplits, Mine
<1> QED BY <1>1, <1>2, <1>3, <1>11, <1>12, LevelBuilt, Elsewhere
        DEF OwnLabels, SearchLabels, UnlinkLabels, InsertSplits, NextLabels, SplitLabels,
            DownLabels

\* EraseByMerge keeps its warp in order.
LEMMA EraseByMergeOwn ==
  ASSUME NEW g, NEW w, ListStep(g, w), EraseByMerge(w)
  PROVE  WarpOK(g, w)'
<1> DEFINE e == loc[w].enc
           c == chunk[e]
           b == BottomOf(w)
<1>1. /\ Enclosing(w) /\ ~Inserting(w) /\ RegistersOK /\ w \in Warps /\ allocated' = allocated
      /\ chunk' = chunk /\ ChunkContains(loc[w].key, c) /\ Merges(c)
      /\ pc' = [pc EXCEPT ![w] = "nextRead"]
      /\ loc' = [loc EXCEPT ![w].bottom = b, ![w].up = TRUE, ![w].ini = e]
  BY StepFacts DEF EraseByMerge, mem, GoTo
<1>3. /\ pc[w] \notin {"take", "return"} /\ pc[w] \notin OwnLabels
      /\ Mine(e) /\ ~IsZombie(c) /\ (loc[w].level = 0 => From(g, 0, e, loc[w].key))
  BY <1>1, EnclosingFacts
<1>4. /\ LevelOK(g, w) /\ loc[w].top \in Levels /\ loc[w].key \in 1 .. MaxKey
      /\ loc[w].val \in Int /\ loc[w].level \in Levels
      /\ From(g, loc[w].level, e, loc[w].key) /\ Linked(g, e)
  BY <1>3, LevelFacts
<1>5. /\ HasKey(c.data, loc[w].key) /\ Occ(c.data) - 1 <= MergeThreshold
      /\ c.next # Nil
  <2>1. HasKey(c.data, loc[w].key) /\ Occ(c.data) - 1 <= MergeThreshold
    BY <1>1, KeyLane DEF Merges, OccupiedSlots, OccupiedLanes, Occ
  <2>2. Node(g, e)
    BY <1>4, NodeIs DEF ListStep
  <2>3. ~(c.max = PosInf /\ c.next = Nil)
    BY <1>1 DEF Merges, IsLastChunk
  <2> QED BY <2>1, <2>2, <2>3 DEF Node
<1>6. b = loc[w].bottom \/ From(g, 0, b, loc[w].key)
  BY <1>3 DEF BottomOf
<1> HIDE DEF b
<1>9. pc'[w] = "nextRead" /\ loc'[w].bottom = b /\ loc'[w].ini = e
  BY <1>1, FieldsAre DEF RegistersOK
<1>10. /\ loc'[w].kind = loc[w].kind /\ loc'[w].key = loc[w].key
       /\ loc'[w].route = loc[w].route /\ loc'[w].level = loc[w].level
       /\ loc'[w].enc = e /\ loc'[w].val = loc[w].val /\ loc'[w].top = loc[w].top
       /\ loc'[w].nxt = loc[w].nxt /\ loc'[w].new = loc[w].new
  <2>1. Rest(w, {"bottom", "up", "ini"})
    BY SMTT(30), <1>1 DEF RegistersOK, Rest
  <2> QED BY <2>1, FieldsAre DEF Rest
<1>11. LevelOK(g, w)'
  <2>1. Mine(loc[w].enc)' /\ Mine(loc[w].ini)'
    BY <1>1, <1>3, <1>9, <1>10 DEF Mine
  <2> QED BY <1>1, <1>4, <1>6, <1>9, <1>10, <2>1, BottomNamed DEF From, NextLabels
<1>12. MergeOK(g, w)'
  <2>1. chunk'[e] = c
    BY <1>1
  <2> HIDE DEF c
  <2> QED BY <1>5, <1>9, <1>10, <2>1 DEF MergeOK, MergeTail
<1>13. SplitOK(g, w)'
  <2>1. ~Inserting(w)'
    BY <1>1, <1>10 DEF Inserting
  <2> QED BY <1>9, <2>1 DEF SplitOK
<1> QED BY <1>4, <1>9, <1>10, <1>11, <1>12, <1>13, LevelBuilt, Elsewhere
        DEF OwnLabels, SearchLabels, UnlinkLabels, SplitLabels, DownLabels

\* EraseInPlace keeps its warp in order.
LEMMA EraseInPlaceOwn ==
  ASSUME NEW g, NEW w, ListStep(g, w), EraseInPlace(w)
  PROVE  WarpOK(g, w)'
<1> DEFINE e == loc[w].enc
           c == chunk[e]
           b == BottomOf(w)
           del == TidWithKey(loc[w].key, c)
           last == OccupiedSlots(c) - 1
           reg == [i \in Lanes |-> IF i < last THEN c.data[i + 1] ELSE EmptyEntry]
           min == IF del > 0 THEN c.data[del - 1].k ELSE NegInf
           l == IF del = last /\ ~IsLastChunk(c) THEN "lowerMax" ELSE "unshift"
           left == [j \in Lanes |-> IF j < del THEN c.data[j] ELSE reg[j]]
<1>1. /\ Enclosing(w) /\ ~Inserting(w) /\ RegistersOK /\ w \in Warps /\ allocated' = allocated
      /\ chunk' = chunk /\ ChunkContains(loc[w].key, c) /\ ~Merges(c)
      /\ pc' = [pc EXCEPT ![w] = l]
      /\ loc' = [loc EXCEPT ![w].bottom = b, ![w].up = TRUE, ![w].i = del,
                            ![w].stop = last, ![w].reg = reg, ![w].min = min]
  BY ZenonT(40), StepFacts DEF EraseInPlace, mem, GoTo
<1>3. /\ pc[w] \notin {"take", "return"} /\ pc[w] \notin OwnLabels
      /\ Mine(e) /\ ~IsZombie(c) /\ (loc[w].level = 0 => From(g, 0, e, loc[w].key))
      /\ Fine(c.data, g.low[e], c.max) /\ DataOK(g, c.data, loc[w].level)
      /\ c.data \in Datas /\ c.max \in Int /\ g.low[e] \in Int
  BY <1>1, EnclosingFacts
<1>4. /\ LevelOK(g, w) /\ loc[w].top \in Levels /\ loc[w].key \in 1 .. MaxKey
      /\ loc[w].val \in Int /\ loc[w].level \in Levels
      /\ From(g, loc[w].level, e, loc[w].key) /\ Linked(g, e) /\ g \in Ghosts
  BY <1>3, LevelFacts, StepFacts
<1>5. /\ last = Occ(c.data) - 1 /\ del \in Lanes /\ c.data[del].k # PosInf
  <2>1. last = Occ(c.data) - 1
    BY SMTT(30) DEF OccupiedSlots, OccupiedLanes, Occ
  <2>2. del \in Lanes /\ c.data[del].k = loc[w].key
    BY ZenonT(40), <1>1, KeyLane
  <2> QED BY <2>1, <2>2, <1>4, ConstantsAre DEF PosInf
<1>6. /\ last \in Lanes /\ del <= last
      /\ \A j \in Lanes : j > last => c.data[j].k = PosInf /\ reg[j].k = PosInf
      /\ Fine(left, g.low[e], c.max)
      /\ del = last /\ del > 0 =>
           /\ g.low[e] < c.data[del - 1].k /\ c.data[del - 1].k < c.max
           /\ c.data[del - 1].k \in NegInf .. MaxKey
           /\ Fine(left, g.low[e], c.data[del - 1].k)
      /\ DataOK(g, reg, loc[w].level)
  <2>1. reg = [i \in Lanes |-> IF i < Occ(c.data) - 1 THEN c.data[i + 1] ELSE EmptyEntry]
    BY <1>5
  <2>2. left = [j \in Lanes |-> IF j < del THEN c.data[j] ELSE reg[j]]
    BY SMTT(30)
  <2> DEFINE D == c.data
  <2>3. /\ D \in Datas /\ Fine(D, g.low[e], c.max) /\ del \in Lanes /\ D[del].k # PosInf
        /\ reg = [i \in Lanes |-> IF i < Occ(D) - 1 THEN D[i + 1] ELSE EmptyEntry]
        /\ left = [j \in Lanes |-> IF j < del THEN D[j] ELSE reg[j]]
        /\ last = Occ(D) - 1 /\ DataOK(g, D, loc[w].level)
    BY <1>3, <1>5, <2>1, <2>2
  <2> HIDE DEF del, last, reg, left, D
  <2>4. /\ Occ(D) - 1 \in Lanes /\ del <= Occ(D) - 1
        /\ \A j \in Lanes : j > Occ(D) - 1 => D[j].k = PosInf /\ reg[j].k = PosInf
        /\ Fine(left, g.low[e], c.max)
        /\ del = Occ(D) - 1 /\ del > 0 =>
             /\ g.low[e] < D[del - 1].k /\ D[del - 1].k < c.max
             /\ D[del - 1].k \in NegInf .. MaxKey
             /\ Fine(left, g.low[e], D[del - 1].k)
        /\ DataOK(g, reg, loc[w].level)
    BY SMTT(30), <1>3, <1>4, <2>3, ErasureIsFine
  <2> QED BY ZenonT(40), <2>3, <2>4 DEF D
<1>15. del \in Lanes /\ last \in Lanes /\ del <= last
  BY ZenonT(40), <1>5, <1>6
<1>7. l = "lowerMax" => del = last /\ del > 0 /\ min = c.data[del - 1].k /\ c.next # Nil
  <2> SUFFICES ASSUME del = last, ~IsLastChunk(c)
               PROVE  del > 0 /\ c.next # Nil
    BY DEF IsLastChunk
  <2>1. last > 0
    <3>1. DSize \div 3 \in Nat /\ DSize \div 3 >= 0
      BY SMTT(30), ConstantsAre, DivisionExists
    <3>2. ~Merges(c)
      BY <1>1
    <3>3. ~(last <= DSize \div 3)
      BY <3>2 DEF Merges, MergeThreshold
    <3> HIDE DEF last
    <3>4. last \in Int
      BY <1>15, LanesAre
    <3> QED BY <3>1, <3>3, <3>4
  <2>2. Node(g, e)
    BY <1>4, NodeIs DEF ListStep
  <2>3. c.next # Nil
    <3>1. ~(c.max = PosInf /\ c.next = Nil)
      BY DEF IsLastChunk
    <3> QED BY <2>2, <3>1 DEF Node
  <2> QED BY <2>1, <2>3
<1>8. l \in {"lowerMax", "unshift"}
  OBVIOUS
<1>14. b = loc[w].bottom \/ From(g, 0, b, loc[w].key)
  BY <1>3 DEF BottomOf
<1> HIDE DEF b, del, last, reg, min, l
<1>9. /\ pc'[w] = l /\ loc'[w].bottom = b /\ loc'[w].i = del /\ loc'[w].stop = last
      /\ loc'[w].reg = reg /\ loc'[w].min = min
  BY <1>1, FieldsAre DEF RegistersOK
<1>10. /\ loc'[w].kind = loc[w].kind /\ loc'[w].key = loc[w].key
       /\ loc'[w].route = loc[w].route /\ loc'[w].level = loc[w].level
       /\ loc'[w].enc = e /\ loc'[w].val = loc[w].val /\ loc'[w].top = loc[w].top
       /\ loc'[w].nxt = loc[w].nxt /\ loc'[w].new = loc[w].new
  <2>1. Rest(w, {"bottom", "up", "i", "stop", "reg", "min"})
    BY SMTT(30), <1>1 DEF RegistersOK, Rest
  <2> QED BY <2>1, FieldsAre DEF Rest
<1>11. LevelOK(g, w)'
  <2>1. Mine(loc[w].enc)'
    BY <1>1, <1>3, <1>10 DEF Mine
  <2> QED BY ZenonT(40), <1>1, <1>4, <1>8, <1>9, <1>10, <1>14, <2>1, BottomNamed
          DEF NextLabels, SplitLabels
<1>12. EraseOK(g, w)'
  <2>1. chunk'[e] = c
    BY <1>1
  <2>2. Left(chunk'[e], loc'[w]) = left
    BY <1>9, <2>1 DEF Left
  <2>3. del \in 0 .. last
    BY <1>15, LanesAre
  <2> HIDE DEF c, left
  <2>4. /\ l = "lowerMax" => /\ min \in NegInf .. MaxKey /\ g.low[e] < min /\ min < c.max
                             /\ Fine(left, g.low[e], min) /\ c.next # Nil
    BY <1>6, <1>7
  <2> QED BY <1>6, <1>9, <1>10, <1>15, <2>1, <2>2, <2>3, <2>4 DEF EraseOK
<1> QED BY SMTT(30), <1>4, <1>8, <1>9, <1>10, <1>11, <1>12, LevelBuilt, Elsewhere
        DEF OwnLabels, SearchLabels, UnlinkLabels, SplitLabels, DownLabels, InsertSplits,
            NextLabels, Merging, MergeTail

\* MergeRead keeps its warp in order.
LEMMA MergeReadOwn ==
  ASSUME NEW g, NEW w, ListStep(g, w), MergeRead(w)
  PROVE  WarpOK(g, w)'
<1> DEFINE e == loc[w].enc
           c == chunk[e]
           x == loc[w].cur
           n == chunk[x]
           over == OccupiedSlots(n) + Remaining(w) > DSize
           i == IF over THEN x ELSE loc[w].ini
           l == IF over THEN "nextRead" ELSE "mergeShift"
<1>1. /\ pc[w] = "mergeRead" /\ pc[w] \notin {"take", "return"} /\ pc[w] \notin OwnLabels
      /\ allocated' = allocated /\ chunk' = chunk
  BY DEF MergeRead, At, OwnLabels, SearchLabels, UnlinkLabels, mem
<1>2. /\ LevelOK(g, w) /\ MergeOK(g, w) /\ loc[w].top \in Levels /\ loc[w].key \in 1 .. MaxKey
      /\ loc[w].val \in Int /\ Control(w) /\ RegistersOK /\ w \in Warps
      /\ loc[w].level \in Levels /\ Linked(g, e) /\ g.lvl[e] = loc[w].level
  BY <1>1, LevelFacts
<1>3. /\ ~Inserting(w) /\ loc[w].new = Nil /\ Mine(e)
  BY <1>1, <1>2 DEF Control, LevelOK, EncLocked
<1>4. /\ HasKey(c.data, loc[w].key) /\ Occ(c.data) - 1 <= MergeThreshold
      /\ c.next # Nil /\ x = c.next /\ Mine(x)
  BY SMTT(30), <1>1, <1>2, <1>3 DEF MergeOK, Merging
<1>5. On(g, loc[w].level, x)
  <2>1. Node(g, e)
    BY <1>2, NodeIs DEF ListStep
  <2> QED BY <1>2, <1>4, <2>1 DEF Node
<1>6. /\ OccupiedSlots(n) = Occ(n.data) /\ Remaining(w) = Occ(c.data) - 1
      /\ Occ(n.data) \in Int /\ Occ(c.data) \in Int
  BY OccBound DEF OccupiedSlots, OccupiedLanes, Occ, Remaining
<1>7. /\ over => Occ(n.data) >= 3
      /\ ~over => Occ(n.data) + Occ(c.data) - 1 <= DSize
  <2> DEFINE q == DSize \div 3
             r == DSize % 3
  <2>1. q \in Nat /\ r \in 0 .. 2 /\ DSize = q * 3 + r /\ DSize >= 3
    BY ConstantsAre, DivisionExists
  <2>2. Occ(c.data) - 1 <= q
    BY <1>4 DEF MergeThreshold
  <2> DEFINE a == Occ(n.data)
             b == Occ(c.data)
  <2>3. /\ a \in Int /\ b \in Int /\ b - 1 <= q /\ (over <=> a + (b - 1) > DSize)
    BY <1>6, <2>2
  <2> HIDE DEF q, r, a, b, over
  <2>4. over => a >= 3
    BY <2>1, <2>3
  <2>5. ~over => a + b - 1 <= DSize
    BY <2>1, <2>3
  <2> QED BY <2>4, <2>5 DEF a, b
<1>8. /\ pc' = [pc EXCEPT ![w] = l]
      /\ loc' = [loc EXCEPT ![w].nxt = x, ![w].over = over, ![w].ini = i]
  <2>1. /\ pc' = [pc EXCEPT ![w] = l]
        /\ loc' = [loc EXCEPT ![w].nxt = x, ![w].over = over,
                              ![w].ini = IF over THEN x ELSE @]
    BY DEF MergeRead, GoTo
  <2>2. loc' = [loc EXCEPT ![w].nxt = x, ![w].over = over, ![w].ini = i]
    <3> HIDE DEF over, x
    <3>1. CASE over
      BY <2>1, <3>1
    <3>2. CASE ~over
      <4>1. loc' = [loc EXCEPT ![w].nxt = x, ![w].over = over, ![w].ini = @]
        BY <2>1, <3>2
      <4> QED BY <4>1, <3>2, <1>2, FieldsAre DEF RegistersOK
    <3> QED BY <3>1, <3>2
  <2> QED BY <2>1, <2>2
<1>9. l = IF over THEN "nextRead" ELSE "mergeShift"
  OBVIOUS
<1>10. i = IF over THEN x ELSE loc[w].ini
  OBVIOUS
<1> HIDE DEF over, i, l, x
<1>11. pc'[w] = l /\ loc'[w].nxt = x /\ loc'[w].ini = i
  BY <1>2, <1>8, FieldsAre DEF RegistersOK
<1>12. /\ loc'[w].kind = loc[w].kind /\ loc'[w].key = loc[w].key
       /\ loc'[w].route = loc[w].route /\ loc'[w].level = loc[w].level
       /\ loc'[w].enc = e /\ loc'[w].val = loc[w].val /\ loc'[w].top = loc[w].top
       /\ loc'[w].bottom = loc[w].bottom /\ loc'[w].new = Nil
  <2>1. Rest(w, {"nxt", "over", "ini"})
    BY <1>2, <1>8 DEF RegistersOK, Rest
  <2> QED BY <1>3, <2>1, FieldsAre DEF Rest
<1>13. ~Inserting(w)'
  BY <1>3, <1>12 DEF Inserting
<1>14. LevelOK(g, w)'
  <2>1. Mine(loc[w].enc)'
    BY <1>1, <1>3, <1>12 DEF Mine
  <2>2. over => Mine(loc[w].ini)'
    BY <1>1, <1>4, <1>10, <1>11 DEF Mine
  <2>3. /\ pc'[w] \in NextLabels \cup SplitLabels => over
        /\ pc'[w] \notin {"raise", "height", "unlockNew"}
    BY <1>9, <1>11 DEF NextLabels, SplitLabels
  <2>4. over => On(g, loc[w].level, i)
    BY SMTT(30), <1>5, <1>10
  <2> QED BY <1>1, <1>2, <1>5, <1>11, <1>12, <1>13, <2>1, <2>2, <2>3, <2>4 DEF LevelOK, Mine
<1>15. MergeOK(g, w)'
  <2>1. chunk'[e] = c /\ chunk'[x] = n
    BY <1>1
  <2>2. ~over => chunk'[x].lock = "locked"
    BY <1>1, <1>4 DEF Mine
  <2>3. pc'[w] \notin {"empty", "shiftBy", "mergeCopy", "markZombie", "uncount", "mergeRead",
                        "unlockNew"}
    BY <1>9, <1>11
  <2>4. pc'[w] \in MergeTail => ~over
    BY <1>9, <1>11 DEF MergeTail
  <2>5. pc'[w] \in NextLabels \cup SplitLabels => over
    BY <1>9, <1>11 DEF NextLabels, SplitLabels
  <2> HIDE DEF c, n
  <2>6. loc'[w].ini # loc'[w].enc /\ pc'[w] \in InsertSplits
          => over /\ loc'[w].ini = x
    BY <1>9, <1>10, <1>11 DEF InsertSplits, NextLabels
  <2>7. /\ HasKey(chunk'[e].data, loc'[w].key) /\ Occ(chunk'[e].data) - 1 <= MergeThreshold
        /\ chunk'[e].next # Nil /\ loc'[w].nxt = chunk'[e].next
    BY <1>4, <1>11, <1>12, <2>1 DEF x
  <2>8. pc'[w] \in NextLabels \cup SplitLabels => loc'[w].ini \in {loc'[w].enc, loc'[w].nxt}
    BY <1>10, <1>11, <2>5
  <2>9. loc'[w].ini # loc'[w].enc /\ pc'[w] \in InsertSplits
          => Occ(chunk'[loc'[w].ini].data) >= 3
    BY <1>7, <2>1, <2>6
  <2>10. pc'[w] \in MergeTail => Mine(loc[w].nxt)'
    BY <1>11, <2>2, <2>4 DEF Mine
  <2>11. pc'[w] = "mergeShift" =>
           Occ(chunk'[loc'[w].nxt].data) + Occ(chunk'[loc'[w].enc].data) - 1 <= DSize
    BY <1>7, <1>9, <1>11, <1>12, <2>1
  <2> QED BY ZenonT(40), <1>12, <2>3, <2>7, <2>8, <2>9, <2>10, <2>11 DEF MergeOK
<1>16. SplitOK(g, w)' /\ NextOK(g, w)'
  BY <1>9, <1>11, <1>13 DEF SplitOK, NextOK
<1>17. /\ pc'[w] \notin {"take", "return"} /\ pc'[w] \notin OwnLabels /\ pc'[w] # "shift"
       /\ pc'[w] \notin {"lowerMax", "unshift"} /\ pc'[w] \notin DownLabels \cup OwnLabels
  BY <1>9, <1>11 DEF OwnLabels, SearchLabels, UnlinkLabels, DownLabels
<1> QED BY <1>2, <1>12, <1>14, <1>15, <1>16, <1>17, LevelBuilt, Elsewhere

\* MergeShift keeps its warp in order.
LEMMA MergeShiftOwn ==
  ASSUME NEW g, NEW w, ListStep(g, w), MergeShift(w)
  PROVE  WarpOK(g, w)'
<1> DEFINE e == loc[w].enc
           c == chunk[e]
           x == loc[w].nxt
           n == chunk[x]
           D == n.data
           i == OccupiedSlots(n) - 1
           s == Remaining(w)
           l == IF OccupiedSlots(n) = 0 THEN "mergeCopy" ELSE "shiftBy"
<1>1. /\ pc[w] = "mergeShift" /\ pc[w] \notin {"take", "return"} /\ pc[w] \notin OwnLabels
      /\ allocated' = allocated /\ chunk' = chunk
      /\ pc' = [pc EXCEPT ![w] = l]
      /\ loc' = [loc EXCEPT ![w].reg = D, ![w].i = i, ![w].stop = s]
  BY DEF MergeShift, At, OwnLabels, SearchLabels, UnlinkLabels, mem, GoTo
<1>2. /\ LevelOK(g, w) /\ MergeOK(g, w) /\ loc[w].top \in Levels /\ loc[w].key \in 1 .. MaxKey
      /\ loc[w].val \in Int /\ Control(w) /\ RegistersOK /\ w \in Warps
      /\ loc[w].level \in Levels /\ g \in Ghosts
  BY <1>1, LevelFacts, StepFacts
<1>3. /\ ~Inserting(w) /\ Mine(e)
  BY <1>1, <1>2 DEF Control, LevelOK, EncLocked, MergeLabels
<1>4. /\ HasKey(c.data, loc[w].key) /\ Occ(c.data) - 1 <= MergeThreshold
      /\ c.next # Nil /\ x = c.next /\ Mine(x) /\ Occ(D) + Occ(c.data) - 1 <= DSize
  BY <1>1, <1>2, <1>3 DEF MergeOK, Merging, MergeTail
<1>5. /\ On(g, loc[w].level, x) /\ x \in Chunks /\ Linked(g, x) /\ g.lvl[x] = loc[w].level
  <2>1. loc[w].nxt # Nil
    BY <1>4
  <2>2. On(g, loc[w].level, x) /\ loc[w].level \in Levels
    BY <1>2, <2>1 DEF LevelOK
  <2> HIDE DEF x
  <2> QED BY <2>2, OnIsLinked
<1>6. Fine(D, g.low[x], n.max) /\ DataOK(g, D, loc[w].level)
  <2>1. Holds(w, x)
    BY ZenonT(40), <1>1, <1>4, <1>5, LevelsAre DEF Holds, HasNxt, MergeLabels
  <2>2. ~Busy(w, x)
    BY <1>1 DEF Busy
  <2>3. ~IsZombie(chunk[x])
    BY <1>4 DEF Mine, IsZombie
  <2> QED BY SMTT(30), <1>2, <1>5, <2>1, <2>2, <2>3, HeldIsFine, DataOfNode DEF ListStep
<1>7. /\ OccupiedSlots(n) = Occ(D) /\ s = Occ(c.data) - 1
      /\ Occ(D) \in 0 .. DSize /\ Occ(c.data) \in 0 .. DSize
  BY OccBound DEF OccupiedSlots, OccupiedLanes, Occ, Remaining
<1>8. Occ(c.data) > 0
  BY <1>2, <1>4, OccBound, ConstantsAre DEF HasKey, PosInf
<1>9. \A j \in Lanes : D[j].k # PosInf <=> j < Occ(D)
  BY <1>6, PackedIs DEF DataOK, Fine
<1>10. /\ s = Occ(c.data) - 1 /\ Occ(D) + s <= DSize
       /\ \A j \in Lanes : Occ(D) + s <= j => D[j].k = PosInf
       /\ l = "shiftBy" => i \in 0 .. Occ(D) - 1 /\ i = Occ(D) - 1
       /\ l = "mergeCopy" => Occ(D) = 0
       /\ l \in {"shiftBy", "mergeCopy"}
  <2> DEFINE a == Occ(D)
             b == Occ(c.data)
  <2>1. /\ a \in 0 .. DSize /\ b \in 0 .. DSize /\ b > 0 /\ s = b - 1 /\ i = a - 1
        /\ a + b - 1 <= DSize
        /\ \A j \in Lanes : D[j].k # PosInf <=> j < a
        /\ l = IF a = 0 THEN "mergeCopy" ELSE "shiftBy"
    BY ZenonT(40), <1>4, <1>7, <1>8, <1>9
  <2> HIDE DEF a, b, s, i, l, D
  <2>2. DSize \in Nat
    BY ConstantsAre
  <2>3. /\ s = b - 1 /\ a + s <= DSize
        /\ \A j \in Lanes : a + s <= j => D[j].k = PosInf
    BY <2>1, <2>2, LanesAre
  <2>4. /\ l = "shiftBy" => i \in 0 .. a - 1 /\ i = a - 1
        /\ l = "mergeCopy" => a = 0
        /\ l \in {"shiftBy", "mergeCopy"}
    BY <2>1, <2>2
  <2> QED BY SMTT(30), <2>3, <2>4 DEF a, b
<1> HIDE DEF D, i, s, l
<1>11. pc'[w] = l /\ loc'[w].reg = D /\ loc'[w].i = i /\ loc'[w].stop = s
  BY <1>1, <1>2, FieldsAre DEF RegistersOK
<1>12. Rest(w, {"reg", "i", "stop"})
  BY <1>1, <1>2 DEF RegistersOK, Rest
<1>13. LevelRegs(w) /\ loc'[w].top = loc[w].top
  BY <1>12, FieldsAre DEF Rest, LevelRegs
<1>14. LevelOK(g, w)'
  <2>1. Mine(loc[w].enc)'
    BY <1>1, <1>3, <1>13 DEF Mine, LevelRegs
  <2> QED BY <1>2, <1>10, <1>11, <1>13, <2>1, LevelKept DEF NextLabels, SplitLabels
<1>15. MergeOK(g, w)'
  <2>1. chunk'[e] = c /\ chunk'[x] = n /\ n.data = D
    BY <1>1 DEF D
  <2>2. Mine(loc[w].nxt)'
    BY <1>1, <1>4, <1>13 DEF Mine, LevelRegs
  <2>3. l = "shiftBy" => \A j \in i + 1 .. Occ(D) - 1 : FALSE
    BY <1>7, <1>10
  <2>4. l = "mergeCopy" => \A j \in 0 .. Occ(D) - 1 : FALSE
    BY <1>10
  <2>5. /\ pc'[w] \notin {"empty", "markZombie", "uncount", "mergeRead", "unlockNew", "mergeShift"}
        /\ pc'[w] \notin NextLabels \cup SplitLabels /\ pc'[w] \notin InsertSplits
    BY <1>10, <1>11 DEF NextLabels, SplitLabels, InsertSplits
  <2> HIDE DEF c, n, e, x
  <2>6. loc'[w].enc = e /\ loc'[w].nxt = x /\ loc'[w].key = loc[w].key
        /\ loc'[w].level = loc[w].level
    BY <1>13 DEF LevelRegs, e, x
  <2>7. pc'[w] \in {"shiftBy", "mergeCopy"} =>
          /\ Fine(D, g.low[x], n.max) /\ DataOK(g, D, loc[w].level)
          /\ s = Occ(c.data) - 1 /\ Occ(D) + s <= DSize
          /\ \A j \in Lanes : Occ(D) + s <= j => n.data[j].k = PosInf
    BY <1>6, <1>10, <2>1
  <2>8. /\ pc'[w] = "shiftBy" => i \in 0 .. Occ(D) - 1
    BY <1>10, <1>11
  <2>9. /\ HasKey(c.data, loc[w].key) /\ Occ(c.data) - 1 <= MergeThreshold /\ c.next # Nil
        /\ x = c.next
    BY <1>4 DEF c, x, e
  <2> QED BY <1>11, <2>1, <2>2, <2>3, <2>4, <2>5, <2>6, <2>7, <2>8, <2>9 DEF MergeOK
<1>16. /\ pc'[w] \notin {"take", "return"} /\ pc'[w] \notin OwnLabels /\ pc'[w] # "shift"
       /\ pc'[w] \notin {"lowerMax", "unshift"} /\ pc'[w] \notin DownLabels \cup OwnLabels
       /\ pc'[w] \notin {"nextWalk", "nextLock", "nextCheck", "nextSet"} \cup SplitLabels
       /\ pc'[w] \notin InsertSplits \cup {"empty", "shift", "unlockOther"}
  BY <1>10, <1>11 DEF OwnLabels, SearchLabels, UnlinkLabels, DownLabels, SplitLabels,
     InsertSplits, NextLabels
<1> QED BY <1>2, <1>13, <1>14, <1>15, <1>16, LevelBuilt, Elsewhere DEF LevelRegs

-----------------------------------------------------------------------------
(* Finding the next chunk, and updating the down pointers. *)

\* A step of findAndLockNextNonZombie, which changes the walk's registers only.
LEMMA NextKept ==
  ASSUME NEW g, NEW w, ListStep(g, w), pc[w] \in NextLabels \cup {"unlockNext"},
         pc'[w] \in NextLabels \cup {"mergeRead", "alloc", "copy"},
         Rest(w, {"cur", "first"}),
         \A c \in Chunks : chunk'[c].data = chunk[c].data /\ chunk'[c].max = chunk[c].max,
         Mine(loc[w].enc)', Mine(loc[w].ini)',
         chunk[loc[w].enc].next # Nil => chunk'[loc[w].enc].next # Nil,
         loc[w].ini # loc[w].enc => chunk'[loc[w].enc].next = chunk[loc[w].enc].next,
         NextOK(g, w)',
         pc'[w] = "mergeRead" => loc'[w].cur = chunk'[loc[w].enc].next /\ Mine(loc[w].cur)'
  PROVE  WarpOK(g, w)'
<1> DEFINE e == loc[w].enc
           i == loc[w].ini
<1>1. /\ pc[w] \notin {"take", "return"} /\ pc[w] \notin OwnLabels
      /\ pc[w] \in NextLabels \cup SplitLabels /\ pc[w] \in InsertSplits /\ pc[w] \in Merging
  BY DEF NextLabels, SplitLabels, OwnLabels, SearchLabels, UnlinkLabels, InsertSplits, Merging
<1>2. /\ LevelOK(g, w) /\ SplitOK(g, w) /\ MergeOK(g, w) /\ loc[w].top \in Levels
      /\ loc[w].key \in 1 .. MaxKey /\ loc[w].val \in Int /\ e \in Chunks
      /\ loc[w].level \in Levels
  BY <1>1, LevelFacts
<1>3. LevelRegs(w) /\ loc'[w].top = loc[w].top /\ loc'[w].ini = i
  BY FieldsAre DEF Rest, LevelRegs
<1>4. On(g, loc[w].level, i) /\ i \in Chunks
  BY <1>1, <1>2, OnIsLinked DEF LevelOK
<1>5. pc'[w] \notin {"raise", "height", "unlockNew", "empty", "shift", "unlockOther", "uncount"}
      /\ pc'[w] \notin MergeTail
  BY DEF NextLabels, MergeTail
<1>6. LevelOK(g, w)'
  BY <1>2, <1>3, <1>4, <1>5, LevelKept
<1>7. SplitOK(g, w)'
  <2>1. Inserting(w) => Full(chunk[e].data) /\ ~HasKey(chunk[e].data, loc[w].key)
                        /\ loc[w].key <= chunk[e].max
    BY <1>1, <1>2 DEF SplitOK
  <2>2. Inserting(w)' <=> Inserting(w)
    BY SMTT(30), <1>3 DEF Inserting, LevelRegs
  <2> QED BY <1>2, <1>3, <1>5, <2>1, <2>2 DEF SplitOK, LevelRegs
<1>8. MergeOK(g, w)'
  <2>1. Inserting(w)' <=> Inserting(w)
    BY <1>3 DEF Inserting, LevelRegs
  <2>2. ~Inserting(w) =>
           /\ HasKey(chunk[e].data, loc[w].key) /\ Occ(chunk[e].data) - 1 <= MergeThreshold
           /\ chunk[e].next # Nil /\ i \in {e, loc[w].nxt}
           /\ i # e => loc[w].nxt = chunk[e].next
           /\ i # e => Occ(chunk[i].data) >= 3
    BY <1>1, <1>2 DEF MergeOK
  <2>3. ~Inserting(w) =>
           /\ HasKey(chunk'[e].data, loc[w].key) /\ Occ(chunk'[e].data) - 1 <= MergeThreshold
           /\ chunk'[e].next # Nil
           /\ i # e => loc[w].nxt = chunk'[e].next
           /\ i # e => Occ(chunk'[i].data) >= 3
    BY <1>2, <1>4, <2>2
  <2>4. /\ loc'[w].enc = e /\ loc'[w].ini = i /\ loc'[w].nxt = loc[w].nxt
        /\ loc'[w].key = loc[w].key
    BY <1>3 DEF LevelRegs
  <2>5. pc'[w] = "mergeRead" => Mine(loc[w].cur)'
    OBVIOUS
  <2>6. pc'[w] \notin {"unlockNew", "mergeShift", "shiftBy", "mergeCopy", "markZombie"}
    BY <1>5 DEF MergeTail
  <2> HIDE DEF e, i
  <2> QED BY SMTT(30), <1>5, <2>1, <2>2, <2>3, <2>4, <2>5, <2>6 DEF MergeOK, e, i
<1>9. /\ pc'[w] \notin {"take", "return"} /\ pc'[w] \notin OwnLabels /\ pc'[w] # "shift"
      /\ pc'[w] \notin {"lowerMax", "unshift"} /\ pc'[w] \notin DownLabels \cup OwnLabels
  BY DEF NextLabels, OwnLabels, SearchLabels, UnlinkLabels, DownLabels
<1> QED BY <1>2, <1>3, <1>6, <1>7, <1>8, <1>9, LevelBuilt, Elsewhere DEF LevelRegs

\* What a warp knows in findAndLockNextNonZombie.
LEMMA NextFacts ==
  ASSUME NEW g, NEW w, ListStep(g, w), pc[w] \in NextLabels
  PROVE  /\ RegistersOK /\ w \in Warps /\ Control(w) /\ WordsOK /\ g \in Ghosts
         /\ LevelOK(g, w) /\ NextOK(g, w) /\ MergeOK(g, w) /\ loc[w].level \in Levels
         /\ loc[w].enc \in Chunks /\ loc[w].ini \in Chunks
         /\ On(g, loc[w].level, loc[w].ini)
         /\ Mine(loc[w].enc) /\ Mine(loc[w].ini)
         /\ chunk'[loc[w].enc].lock = "locked" /\ chunk'[loc[w].ini].lock = "locked"
<1>1. /\ pc[w] \notin {"take", "return"} /\ pc[w] \notin OwnLabels
      /\ pc[w] \in NextLabels \cup SplitLabels /\ pc[w] \in EncLocked
      /\ pc[w] # "markZombie" /\ \A c : ~Gives(w, c)
  BY DEF NextLabels, SplitLabels, OwnLabels, SearchLabels, UnlinkLabels, EncLocked, Gives
<1>2. /\ RegistersOK /\ w \in Warps /\ Control(w) /\ WordsOK /\ g \in Ghosts
      /\ LevelOK(g, w) /\ NextOK(g, w) /\ MergeOK(g, w) /\ loc[w].level \in Levels
      /\ loc[w].enc \in Chunks
  BY <1>1, LevelFacts, StepFacts
<1>3. /\ On(g, loc[w].level, loc[w].ini) /\ Mine(loc[w].enc) /\ Mine(loc[w].ini)
      /\ loc[w].ini \in Chunks
  BY ZenonT(40), <1>1, <1>2, OnIsLinked DEF LevelOK
<1>4. \A c \in Chunks : Mine(c) => chunk'[c].lock = "locked"
  BY <1>1, MineStays DEF Mine
<1> QED BY <1>2, <1>3, <1>4

\* What findAndLockNextNonZombie leaves of the registers.
LEMMA NextRegs ==
  ASSUME NEW w, Rest(w, {"cur", "first"})
  PROVE  /\ loc'[w].enc = loc[w].enc /\ loc'[w].ini = loc[w].ini
         /\ loc'[w].level = loc[w].level /\ loc'[w].new = loc[w].new
         /\ loc'[w].kind = loc[w].kind /\ loc'[w].nxt = loc[w].nxt
BY FieldsAre DEF Rest

\* ReadNext keeps its warp in order.
LEMMA ReadNextOwn ==
  ASSUME NEW g, NEW w, ListStep(g, w), ReadNext(w)
  PROVE  WarpOK(g, w)'
<1> DEFINE i == loc[w].ini
           n == chunk[i].next
           l == IF n = Nil THEN AfterNext(w) ELSE "nextWalk"
<1>1. /\ pc[w] = "nextRead" /\ pc[w] \in NextLabels /\ chunk' = chunk
      /\ pc' = [pc EXCEPT ![w] = l] /\ loc' = [loc EXCEPT ![w].first = n, ![w].cur = n]
  BY DEF ReadNext, At, NextLabels, mem, GoTo
<1>2. /\ RegistersOK /\ w \in Warps /\ MergeOK(g, w) /\ i \in Chunks /\ g \in Ghosts
      /\ loc[w].level \in Levels /\ On(g, loc[w].level, i) /\ Mine(i)
      /\ chunk'[loc[w].enc].lock = "locked" /\ chunk'[i].lock = "locked"
  BY <1>1, NextFacts
<1>3. n = Nil => l = "alloc"
  <2>1. ~Inserting(w) => chunk[loc[w].enc].next # Nil
    BY <1>1, <1>2 DEF MergeOK, Merging
  <2> QED BY <2>1 DEF AfterNext
<1>4. n # Nil => l = "nextWalk" /\ Follows(g, loc[w].level, i, n)
  BY <1>2, FollowsNext DEF ListStep, Mine, IsZombie
<1>5. l \in {"alloc", "nextWalk"} /\ (l = "alloc" => n = Nil)
  BY <1>3, <1>4
<1> HIDE DEF n, l
<1>6. pc'[w] = l /\ loc'[w].cur = n /\ loc'[w].first = n /\ Rest(w, {"cur", "first"})
  BY ZenonT(40), <1>1, <1>2, FieldsAre DEF RegistersOK, Rest
<1>7. NextOK(g, w)'
  <2>1. Follows(g, loc[w].level, i, n)' <=> Follows(g, loc[w].level, i, n)
    <3>1. loc'[w].level = loc[w].level /\ loc'[w].ini = i
      BY <1>6, NextRegs
    <3>2. n' = n
      BY <1>1, <3>1 DEF n
    <3> QED BY <1>1, <3>1, <3>2 DEF Follows
  <2>2. loc'[w].level = loc[w].level /\ loc'[w].ini = i
    BY <1>6, NextRegs
  <2>3. n = chunk'[i].next
    BY <1>1 DEF n
  <2> QED BY <1>1, <1>3, <1>4, <1>5, <1>6, <2>2, <2>3 DEF NextOK, Follows
<1>8. Mine(loc[w].enc)' /\ Mine(loc[w].ini)'
  BY <1>2, <1>6, NextRegs DEF Mine
<1> QED BY <1>1, <1>5, <1>6, <1>7, <1>8, NextKept DEF NextLabels

\* WalkToNext keeps its warp in order.
LEMMA WalkToNextOwn ==
  ASSUME NEW g, NEW w, ListStep(g, w), WalkToNext(w)
  PROVE  WarpOK(g, w)'
<1> DEFINE i == loc[w].ini
           x == loc[w].cur
           y == loc'[w].cur
<1>1. /\ pc[w] = "nextWalk" /\ pc[w] \in NextLabels /\ chunk' = chunk
  BY DEF WalkToNext, At, NextLabels, mem
<1>2. /\ RegistersOK /\ w \in Warps /\ i \in Chunks /\ g \in Ghosts
      /\ NextOK(g, w) /\ loc[w].level \in Levels
      /\ chunk'[loc[w].enc].lock = "locked" /\ chunk'[i].lock = "locked"
  BY <1>1, NextFacts
<1>3. Follows(g, loc[w].level, i, x) /\ Follows(g, loc[w].level, i, loc[w].first)
  BY <1>1, <1>2 DEF NextOK
<1>4. /\ pc'[w] \in {"nextWalk", "nextLock"} /\ Rest(w, {"cur", "first"})
      /\ loc'[w].first = loc[w].first /\ Follows(g, loc[w].level, i, y)
  <2> DEFINE n == chunk[x].next
  <2>1. CASE IsZombie(chunk[x]) /\ loc' = [loc EXCEPT ![w].cur = n] /\ pc' = pc
    <3>1. Follows(g, loc[w].level, i, n)
      BY <1>2, <1>3, <2>1, FollowsDead DEF ListStep
    <3> HIDE DEF n
    <3>2. loc'[w].cur = n /\ Rest(w, {"cur", "first"}) /\ loc'[w].first = loc[w].first
      BY <1>2, <2>1, FieldsAre DEF RegistersOK, Rest
    <3> QED BY <1>1, <2>1, <3>1, <3>2
  <2>2. CASE pc' = [pc EXCEPT ![w] = "nextLock"] /\ loc' = loc
    BY <1>2, <1>3, <2>2 DEF RegistersOK, Rest
  <2> QED BY <2>1, <2>2 DEF WalkToNext, GoTo
<1>5. loc'[w].level = loc[w].level /\ loc'[w].ini = i
  BY <1>4, NextRegs
<1>7. NextOK(g, w)'
  BY <1>1, <1>3, <1>4, <1>5 DEF NextOK, Follows
<1>8. Mine(loc[w].enc)' /\ Mine(loc[w].ini)'
  BY <1>2, <1>4, NextRegs DEF Mine
<1> QED BY <1>1, <1>4, <1>7, <1>8, NextKept DEF NextLabels

\* LockNext keeps its warp in order.
LEMMA LockNextOwn ==
  ASSUME NEW g, NEW w, ListStep(g, w), LockNext(w)
  PROVE  WarpOK(g, w)'
<1> DEFINE i == loc[w].ini
<1>1. /\ pc[w] = "nextLock" /\ pc[w] \in NextLabels /\ pc[w] \notin StoreLabels /\ loc' = loc
  BY DEF LockNext, At, NextLabels, StoreLabels
<1>2. /\ RegistersOK /\ w \in Warps /\ i \in Chunks /\ WordsOK /\ loc[w].enc \in Chunks
      /\ NextOK(g, w)
      /\ chunk'[loc[w].enc].lock = "locked" /\ chunk'[i].lock = "locked"
  BY <1>1, NextFacts
<1>3. \A c \in Chunks : Same(c)
  BY <1>1, <1>2, StepStores DEF ListStep
<1>4. pc'[w] = "nextCheck" /\ Rest(w, {"cur", "first"})
  BY <1>1, <1>2 DEF LockNext, GoTo, RegistersOK, Rest
<1>7. NextOK(g, w)'
  <2>1. Follows(g, loc[w].level, i, loc[w].cur) /\ Follows(g, loc[w].level, i, loc[w].first)
    BY <1>1, <1>2 DEF NextOK
  <2>2. chunk'[i].max = chunk[i].max /\ chunk'[i].next = chunk[i].next
    BY <1>2, <1>3 DEF Same
  <2> QED BY <1>1, <1>4, <2>1, <2>2 DEF NextOK, Follows
<1>8. Mine(loc[w].enc)' /\ Mine(loc[w].ini)'
  BY <1>1, <1>2 DEF Mine
<1> QED BY <1>1, <1>2, <1>3, <1>4, <1>7, <1>8, NextKept DEF NextLabels, Same

\* CheckNext keeps its warp in order.
LEMMA CheckNextOwn ==
  ASSUME NEW g, NEW w, ListStep(g, w), CheckNext(w)
  PROVE  WarpOK(g, w)'
<1> DEFINE i == loc[w].ini
           x == loc[w].cur
<1>1. /\ pc[w] = "nextCheck" /\ pc[w] \in NextLabels /\ chunk' = chunk
  BY DEF CheckNext, At, NextLabels, mem
<1>2. /\ RegistersOK /\ w \in Warps /\ i \in Chunks /\ g \in Ghosts
      /\ NextOK(g, w) /\ loc[w].level \in Levels
      /\ chunk'[loc[w].enc].lock = "locked" /\ chunk'[i].lock = "locked"
  BY <1>1, NextFacts
<1>3. Follows(g, loc[w].level, i, x) /\ Follows(g, loc[w].level, i, loc[w].first)
  BY <1>1, <1>2 DEF NextOK
<1>4. CASE loc' = [loc EXCEPT ![w].cur = loc[w].first] /\ pc' = [pc EXCEPT ![w] = "nextWalk"]
  <2> DEFINE y == loc[w].first
  <2>1. loc' = [loc EXCEPT ![w].cur = y]
    BY <1>4
  <2> HIDE DEF y
  <2>2. /\ pc'[w] = "nextWalk" /\ Rest(w, {"cur", "first"}) /\ loc'[w].cur = y
        /\ loc'[w].first = loc[w].first
    BY <1>2, <1>4, <2>1, FieldsAre DEF RegistersOK, Rest
  <2>3. loc'[w].level = loc[w].level /\ loc'[w].ini = i
    BY <2>2, NextRegs
  <2>4. NextOK(g, w)'
    BY <1>1, <1>3, <2>2, <2>3 DEF NextOK, Follows, y
  <2>5. Mine(loc[w].enc)' /\ Mine(loc[w].ini)'
    BY <1>2, <2>2, NextRegs DEF Mine
  <2> QED BY <1>1, <2>2, <2>4, <2>5, NextKept DEF NextLabels
<1>5. CASE loc' = loc /\ pc' = [pc EXCEPT ![w] = "nextSet"] /\ ~IsZombie(chunk[x])
  <2>1. pc'[w] = "nextSet" /\ Rest(w, {"cur", "first"})
    BY <1>2, <1>5 DEF RegistersOK, Rest
  <2>2. chunk[x].lock = "locked"
    <3>1. Linked(g, x) /\ x \in Chunks
      BY <1>2, <1>3, OnIsLinked DEF Follows
    <3>2. Holds(w, x) /\ ~Busy(w, x)
      BY <1>1 DEF Holds, HasCur, Busy
    <3> QED BY <1>2, <1>5, <3>1, <3>2, HeldIsFine DEF ListStep, Mine
  <2>4. NextOK(g, w)'
    BY <1>1, <1>3, <1>5, <2>1, <2>2 DEF NextOK, Follows, Mine
  <2>5. Mine(loc[w].enc)' /\ Mine(loc[w].ini)'
    BY <1>2, <1>5 DEF Mine
  <2> QED BY <1>1, <2>1, <2>4, <2>5, NextKept DEF NextLabels
<1> QED BY <1>4, <1>5 DEF CheckNext, GoTo

\* RedirectNext keeps its warp in order.
LEMMA RedirectNextOwn ==
  ASSUME NEW g, NEW w, ListStep(g, w), RedirectNext(w)
  PROVE  WarpOK(g, w)'
<1> DEFINE i == loc[w].ini
           x == loc[w].cur
           e == loc[w].enc
<1>1. /\ pc[w] = "nextSet" /\ pc[w] \in NextLabels /\ loc' = loc
      /\ chunk' = [chunk EXCEPT ![i].next = x]
  BY DEF RedirectNext, At, NextLabels, UpdateNextVal
<1>2. /\ RegistersOK /\ w \in Warps /\ i \in Chunks /\ g \in Ghosts /\ WordsOK /\ e \in Chunks
      /\ NextOK(g, w) /\ loc[w].level \in Levels
      /\ chunk'[loc[w].enc].lock = "locked" /\ chunk'[i].lock = "locked"
  BY <1>1, NextFacts
<1>3. Follows(g, loc[w].level, i, x) /\ Mine(x)
  BY <1>1, <1>2 DEF NextOK
<1>4. x \in Chunks /\ x # Nil
  <2>1. x \in Chunks
    BY <1>3 DEF Follows, On
  <2> QED BY <2>1, LevelsAre
<1>5. /\ \A c \in Chunks : chunk'[c].data = chunk[c].data /\ chunk'[c].max = chunk[c].max
      /\ \A c \in Chunks \ {i} : chunk'[c].next = chunk[c].next
      /\ chunk'[i].next = x /\ chunk'[x].lock = chunk[x].lock
  BY <1>1, <1>2, <1>4 DEF WordsOK, Words
<1>6. pc'[w] = AfterNext(w) /\ Rest(w, {"cur", "first"})
  BY <1>1, <1>2 DEF RedirectNext, GoTo, RegistersOK, Rest
<1>7. /\ pc'[w] \in {"mergeRead", "alloc"} /\ (pc'[w] = "mergeRead" => i = e)
  BY <1>6 DEF AfterNext
<1>8. NextOK(g, w)'
  BY <1>1, <1>3, <1>5, <1>7 DEF NextOK, Mine
<1>9. Mine(loc[w].enc)' /\ Mine(loc[w].ini)' /\ Mine(loc[w].cur)'
  BY SMTT(30), <1>1, <1>2, <1>3, <1>5 DEF Mine
<1> QED BY <1>1, <1>2, <1>4, <1>5, <1>6, <1>7, <1>8, <1>9, NextKept

\* UnlockNext keeps its warp in order.
LEMMA UnlockNextOwn ==
  ASSUME NEW g, NEW w, ListStep(g, w), UnlockNext(w)
  PROVE  WarpOK(g, w)'
<1> DEFINE i == loc[w].ini
           x == loc[w].cur
           e == loc[w].enc
           n == loc[w].new
<1>1. /\ pc[w] = "unlockNext" /\ pc[w] \in SplitLabels /\ pc[w] \notin StoreLabels /\ loc' = loc
      /\ pc[w] \notin {"take", "return"} /\ pc[w] \notin OwnLabels
      /\ chunk' = [chunk EXCEPT ![x].lock = IF @ = "locked" THEN "unlocked" ELSE @]
  BY DEF UnlockNext, At, SplitLabels, StoreLabels, OwnLabels, SearchLabels, UnlinkLabels, Unlock
<1>2. /\ RegistersOK /\ w \in Warps /\ WordsOK /\ e \in Chunks /\ NextOK(g, w) /\ LevelOK(g, w)
      /\ Control(w) /\ loc[w].level \in Levels
  BY <1>1, LevelFacts, StepFacts
<1>3. /\ On(g, loc[w].level, i) /\ Mine(e) /\ Mine(i) /\ i \in Chunks
      /\ n # Nil /\ n \in Chunks
      /\ (i = e \/ i = loc[w].nxt)
      /\ i # e => loc[w].nxt # Nil
  <2>1. On(g, loc[w].level, i) /\ Mine(e) /\ Mine(i)
    BY <1>1, <1>2 DEF LevelOK, EncLocked
  <2>2. n # Nil
    BY <1>1, <1>2 DEF Control
  <2>3. i = e \/ i = loc[w].nxt
    BY <1>1, <1>2 DEF Control
  <2>4. i \in Chunks
    BY <1>2, <2>1, OnIsLinked
  <2>5. n \in Chunks /\ (i # e => loc[w].nxt # Nil)
    BY <1>2, <2>2, <2>3, <2>4, LevelsAre DEF LevelOK
  <2> QED BY <2>1, <2>2, <2>3, <2>4, <2>5
<1>4. /\ g.lvl[n] = Nil /\ chunk[n] = FreshChunk(chunk[i].next, "locked")
      /\ x # Nil /\ x = chunk[i].next
  BY SMTT(30), <1>1, <1>2 DEF NextOK
<1>5. n # e /\ n # i
  BY <1>2, <1>3, <1>4, LevelFacts, <1>1, LevelsAre DEF On
<1>6. /\ x # e /\ x # i /\ x # n
  <2>1. x \in Chunks
    <3>1. chunk[i] \in ChunkType
      BY <1>3 DEF ListStep, ListInv
    <3> QED BY <3>1, <1>4, ChunkIs
  <2>2. CASE ~Mine(x)
    <3>1. Mine(n)
      BY <1>4 DEF Mine, FreshChunk
    <3> QED BY <1>3, <2>2, <3>1
  <2>3. CASE Mine(x)
    <3>1. Differs(w, x)
      BY <2>1, <2>3, HeldDiffer
    <3>2. HasCur(w) /\ HasNew(w)
      BY <1>1, <1>3, LevelsAre DEF HasCur, HasNew, Control
    <3>3. i # e => HasNxt(w)
      BY <1>1, <1>3 DEF HasNxt
    <3> QED BY <1>3, <3>1, <3>2, <3>3 DEF Differs
  <2> QED BY <2>2, <2>3
<1>7. \A c \in Chunks \ {x} : chunk'[c] = chunk[c]
  BY <1>1, <1>2 DEF WordsOK
<1>8. \A c \in Chunks : Same(c)
  BY <1>1, <1>2, StepStores DEF ListStep
<1>9. chunk'[e] = chunk[e] /\ chunk'[i] = chunk[i] /\ chunk'[n] = chunk[n]
  BY <1>2, <1>3, <1>6, <1>7
<1>10. pc'[w] = "copy" /\ Rest(w, {"cur", "first"})
  BY SMTT(30), <1>1, <1>2 DEF UnlockNext, GoTo, RegistersOK, Rest
<1>11. NextOK(g, w)'
  BY <1>1, <1>4, <1>9, <1>10 DEF NextOK
<1>12. Mine(loc[w].enc)' /\ Mine(loc[w].ini)'
  BY <1>1, <1>3, <1>9 DEF Mine
<1> QED BY <1>1, <1>8, <1>9, <1>10, <1>11, <1>12, NextKept DEF NextLabels, Same

\* A step of updateDownPtrs, which changes the walk's registers only.
LEMMA DownKept ==
  ASSUME NEW g, NEW w, ListStep(g, w), pc[w] \in DownLabels,
         pc'[w] \in DownLabels \cup {"count", "unlockMerged"},
         Rest(w, {"kv", "cur", "size"}),
         pc'[w] \in DownLabels => On(g, loc[w].level + 1, loc'[w].cur),
         pc'[w] = "downUnlock" /\ loc'[w].kv.next # Nil =>
           On(g, loc[w].level + 1, loc'[w].kv.next)
  PROVE  WarpOK(g, w)'
<1>1. /\ pc[w] \notin {"take", "return"} /\ pc[w] \notin OwnLabels /\ GoingDown(w)
  BY DEF DownLabels, OwnLabels, SearchLabels, UnlinkLabels, GoingDown
<1>2. /\ LevelOK(g, w) /\ DownOK(g, w) /\ loc[w].top \in Levels
      /\ loc[w].key \in 1 .. MaxKey /\ loc[w].val \in Int
  BY <1>1, LevelFacts
<1>3. /\ LevelRegs(w) /\ loc'[w].top = loc[w].top /\ loc'[w].min = loc[w].min
      /\ loc'[w].max = loc[w].max /\ loc'[w].sk = loc[w].sk /\ loc'[w].tgt = loc[w].tgt
  BY FieldsAre DEF Rest, LevelRegs
<1>4. CASE pc'[w] \in {"count", "unlockMerged"}
  BY <1>1, <1>3, <1>4, PlainOwn DEF Plain
<1>5. CASE pc'[w] \in DownLabels
  <2>1. LevelOK(g, w)'
    BY <1>2, <1>3, <1>5, LevelKept DEF DownLabels, EncLocked, NextLabels, SplitLabels
  <2>2. DownOK(g, w)'
    BY <1>1, <1>2, <1>3, <1>5 DEF DownOK, LevelRegs
  <2>3. /\ pc'[w] \notin {"take", "return"} /\ pc'[w] \notin OwnLabels /\ pc'[w] # "shift"
        /\ pc'[w] \notin {"lowerMax", "unshift"} /\ pc'[w] \notin Merging \cup {"uncount"}
        /\ pc'[w] \notin {"nextWalk", "nextLock", "nextCheck", "nextSet"} \cup SplitLabels
        /\ pc'[w] \notin InsertSplits \cup {"empty", "shift", "unlockOther"}
    BY <1>5 DEF DownLabels, OwnLabels, SearchLabels, UnlinkLabels, Merging, MergeTail,
       SplitLabels, InsertSplits, NextLabels
  <2> QED BY <1>2, <1>3, <2>1, <2>2, <2>3, LevelBuilt, Elsewhere DEF LevelRegs
<1> QED BY <1>4, <1>5

\* What a warp knows in updateDownPtrs.
LEMMA DownFacts ==
  ASSUME NEW g, NEW w, ListStep(g, w), pc[w] \in DownLabels
  PROVE  /\ RegistersOK /\ w \in Warps /\ DownOK(g, w) /\ WordsOK
         /\ loc[w].level + 1 \in Levels /\ On(g, loc[w].level + 1, loc[w].cur)
         /\ loc[w].cur \in Chunks
         /\ chunk[loc[w].cur].next # Nil => On(g, loc[w].level + 1, chunk[loc[w].cur].next)
<1>1. pc[w] \notin {"take", "return"} /\ pc[w] \notin OwnLabels /\ GoingDown(w)
  BY DEF DownLabels, OwnLabels, SearchLabels, UnlinkLabels, GoingDown
<1>2. RegistersOK /\ w \in Warps /\ DownOK(g, w) /\ WordsOK
  BY <1>1, LevelFacts, StepFacts
<1>3. loc[w].level + 1 \in Levels /\ On(g, loc[w].level + 1, loc[w].cur)
  BY <1>1, <1>2 DEF DownOK
<1>4. /\ loc[w].cur \in Chunks /\ Linked(g, loc[w].cur)
      /\ g.lvl[loc[w].cur] = loc[w].level + 1
  BY ZenonT(40), <1>3, OnIsLinked
<1>5. Node(g, loc[w].cur)
  BY <1>4, NodeIs DEF ListStep
<1> QED BY <1>2, <1>3, <1>4, <1>5 DEF Node

\* Where updateDownPtrs goes on.
LEMMA NextDownNames ==
  ASSUME RegistersOK, NEW w \in Warps, NEW c, NextDown(w, c)
  PROVE  /\ Rest(w, {"kv", "cur", "size"})
         /\ \/ pc'[w] \in {"count", "unlockMerged"}
            \/ pc'[w] = "downRead" /\ loc'[w].cur = c.next /\ c.next # Nil
<1>1. CASE c.max > loc[w].max \/ c.next = Nil
  <2>1. /\ loc' = [loc EXCEPT ![w].kv = BlankKv, ![w].cur = Nil, ![w].size = 0]
        /\ pc' = [pc EXCEPT ![w] = AfterDown(w)]
    BY <1>1 DEF NextDown, GoTo
  <2>2. AfterDown(w) \in {"count", "unlockMerged"}
    BY DEF AfterDown
  <2>3. pc'[w] = AfterDown(w)
    BY <2>1 DEF RegistersOK
  <2> QED BY <2>1, <2>2, <2>3 DEF RegistersOK, Rest
<1>2. CASE ~(c.max > loc[w].max \/ c.next = Nil)
  <2> DEFINE n == c.next
  <2>1. /\ loc' = [loc EXCEPT ![w].kv = BlankKv, ![w].cur = n, ![w].size = 0]
        /\ pc' = [pc EXCEPT ![w] = "downRead"] /\ n # Nil
    BY <1>2 DEF NextDown, GoTo
  <2> HIDE DEF n
  <2>2. pc'[w] = "downRead" /\ loc'[w].cur = n
    BY <2>1, FieldsAre DEF RegistersOK
  <2>3. Rest(w, {"kv", "cur", "size"})
    BY <2>1 DEF RegistersOK, Rest
  <2> QED BY <2>1, <2>2, <2>3 DEF n
<1> QED BY <1>1, <1>2

\* DownRead keeps its warp in order.
LEMMA DownReadOwn ==
  ASSUME NEW g, NEW w, ListStep(g, w), DownRead(w)
  PROVE  WarpOK(g, w)'
<1> DEFINE c == chunk[loc[w].cur]
           s == OccupiedSlots(c)
<1>1. pc[w] = "downRead" /\ pc[w] \in DownLabels
  BY DEF DownRead, At, DownLabels
<1>2. /\ RegistersOK /\ w \in Warps /\ On(g, loc[w].level + 1, loc[w].cur)
      /\ c.next # Nil => On(g, loc[w].level + 1, c.next)
  BY <1>1, DownFacts
<1>3. CASE loc' = [loc EXCEPT ![w].size = s] /\ pc' = [pc EXCEPT ![w] = "downLock"]
  <2> HIDE DEF s
  <2>1. pc'[w] = "downLock" /\ loc'[w].cur = loc[w].cur
    BY <1>2, <1>3, FieldsAre DEF RegistersOK
  <2>2. Rest(w, {"kv", "cur", "size"})
    BY <1>2, <1>3 DEF RegistersOK, Rest
  <2> QED BY <1>1, <1>2, <2>1, <2>2, DownKept DEF DownLabels
<1>4. CASE NextDown(w, c)
  <2> HIDE DEF c
  <2>1. /\ Rest(w, {"kv", "cur", "size"})
        /\ \/ pc'[w] \in {"count", "unlockMerged"}
           \/ pc'[w] = "downRead" /\ loc'[w].cur = c.next /\ c.next # Nil
    BY <1>2, <1>4, NextDownNames
  <2> QED BY <1>1, <1>2, <2>1, DownKept DEF DownLabels
<1> QED BY <1>3, <1>4 DEF DownRead, GoTo

\* DownLock keeps its warp in order.
LEMMA DownLockOwn ==
  ASSUME NEW g, NEW w, ListStep(g, w), DownLock(w)
  PROVE  WarpOK(g, w)'
<1>1. pc[w] = "downLock" /\ pc[w] \in DownLabels /\ loc' = loc
  BY DEF DownLock, At, DownLabels
<1>2. /\ RegistersOK /\ w \in Warps /\ On(g, loc[w].level + 1, loc[w].cur)
  BY <1>1, DownFacts
<1>3. pc'[w] = "downWrite" /\ Rest(w, {"kv", "cur", "size"})
  BY <1>1, <1>2 DEF DownLock, GoTo, RegistersOK, Rest
<1> QED BY <1>1, <1>2, <1>3, DownKept DEF DownLabels

\* DownWrite keeps its warp in order.
LEMMA DownWriteOwn ==
  ASSUME NEW g, NEW w, ListStep(g, w), DownWrite(w)
  PROVE  WarpOK(g, w)'
<1> DEFINE c == chunk[loc[w].cur]
<1>1. /\ pc[w] = "downWrite" /\ pc[w] \in DownLabels /\ loc' = [loc EXCEPT ![w].kv = c]
  BY DEF DownWrite, At, DownLabels
<1>2. /\ RegistersOK /\ w \in Warps /\ On(g, loc[w].level + 1, loc[w].cur)
      /\ c.next # Nil => On(g, loc[w].level + 1, c.next)
  BY <1>1, DownFacts
<1> HIDE DEF c
<1>3. pc'[w] = "downUnlock" /\ loc'[w].kv = c /\ loc'[w].cur = loc[w].cur
  BY <1>1, <1>2, FieldsAre DEF DownWrite, GoTo, RegistersOK
<1>4. Rest(w, {"kv", "cur", "size"})
  BY <1>1, <1>2 DEF RegistersOK, Rest
<1> QED BY <1>1, <1>2, <1>3, <1>4, DownKept DEF DownLabels

\* DownUnlock keeps its warp in order.
LEMMA DownUnlockOwn ==
  ASSUME NEW g, NEW w, ListStep(g, w), DownUnlock(w)
  PROVE  WarpOK(g, w)'
<1> DEFINE c == loc[w].kv
<1>1. /\ pc[w] = "downUnlock" /\ pc[w] \in DownLabels /\ NextDown(w, c)
  BY DEF DownUnlock, At, DownLabels
<1>2. /\ RegistersOK /\ w \in Warps /\ DownOK(g, w)
  BY <1>1, DownFacts
<1>3. c.next # Nil => On(g, loc[w].level + 1, c.next)
  BY <1>1, <1>2 DEF DownOK, GoingDown
<1> HIDE DEF c
<1>4. /\ Rest(w, {"kv", "cur", "size"})
      /\ \/ pc'[w] \in {"count", "unlockMerged"}
         \/ pc'[w] = "downRead" /\ loc'[w].cur = c.next /\ c.next # Nil
  BY <1>1, <1>2, NextDownNames
<1> QED BY <1>1, <1>3, <1>4, DownKept DEF DownLabels
=============================================================================
