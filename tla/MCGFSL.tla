------------------------------- MODULE MCGFSL --------------------------------
(* Batches for model checking: a list is built by batches of one operation, *)
(* then batches of several operations race.                                 *)
EXTENDS GFSLQuery

Each(kind, s) == [i \in DOMAIN s |-> [kind |-> kind, keys |-> <<s[i]>>]]
Inserts(s) == [kind |-> "insert", keys |-> s]
Erases(s) == [kind |-> "erase", keys |-> s]
UpTo(n) == [i \in 1 .. n |-> i]
DownFrom(n) == [i \in 1 .. n |-> n + 1 - i]

\* Two inserts race: for one full chunk, for the same key, for neighbours that
\* both split, and for the first chunks of level 2.
InsertPlan ==
  Each("insert", <<2, 4, 6, 8, 10>>) \o <<Inserts(<<5, 7>>), Inserts(<<9, 9>>),
    Inserts(<<11, 12>>), Inserts(<<3, 1>>)>>

\* Two erases race: neighbours of one chunk, the same key, merges with and
\* without a split, the last keys of the list.
ErasePlan ==
  Each("insert", UpTo(8)) \o <<Erases(<<3, 4>>), Erases(<<6, 6>>), Erases(<<1, 5>>),
    Erases(<<2, 7>>), Erases(<<8, 8>>)>>

\* A chunk that follows a full one dies; then a search that would unlink it races
\* with a merge that splits the full one.
UnlinkPlan ==
  Each("insert", <<1, 9, 8, 6, 3, 5, 4, 7, 2>>) \o Each("erase", <<9, 6, 5>>)
    \o <<Erases(<<5, 1>>)>>

\* Two erases race on a list with two chunks at level 2.
HighPlan == Each("insert", DownFrom(10)) \o <<Erases(<<1, 5>>)>>

\* An erase shortens the last chunk of level 1, so that the other one, coming down
\* through the key on level 2, finds nothing there and searches all over again.
RestartPlan == Each("insert", <<1, 10, 2, 9, 3, 8, 4, 7, 5, 6>>) \o <<Erases(<<8, 9>>)>>

\* One erase, with nothing else running, of a key that begins its chunks on three
\* levels.
DeepPlan == Each("insert", DownFrom(13)) \o <<Erases(<<4>>)>>

\* Three erases race for two chunks that merge.
ThreePlan == Each("insert", UpTo(6)) \o <<Erases(<<2, 3, 5>>)>>

\* Deletes that leave a zombie left of the chunk its keys went to.
ZombiePlan == Each("insert", UpTo(9)) \o Each("erase", <<7, 9, 3, 5, 6, 1, 2>>)

\* Traces whose lists have chunks of three entries, and of four.
SmallTraces == <<InsertPlan, ErasePlan, UnlinkPlan, ThreePlan, HighPlan, RestartPlan>>
DeepTraces == <<DeepPlan>>
ZombieTraces == <<ZombiePlan>>
=============================================================================
