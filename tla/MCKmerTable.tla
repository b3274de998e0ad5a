---------------------------- MODULE MCKmerTable ------------------------------
(* Instances of KmerTable for TLC. *)
EXTENDS KmerTable

\* There is one table.
MCTableOf == [k \in Keys |-> 0]

\* All k-mers collide on one home slot.
MCHome == [k \in Keys |-> 1]
=============================================================================
