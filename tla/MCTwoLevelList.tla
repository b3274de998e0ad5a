--------------------------- MODULE MCTwoLevelList ----------------------------
(* Instances of TwoLevelList for TLC. *)
EXTENDS TwoLevelList

\* One key in the first range, three in the second, none in the third and one in
\* the fourth.
MCKeys == {1, 4, 5, 6, 13}
=============================================================================
