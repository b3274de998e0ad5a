----------------------------- MODULE MCHoHTable ------------------------------
(* Instances of HoHTable for TLC. *)
EXTENDS HoHTable

\* The range of a key, plus one, names its table.
MCTableOf == [k \in Keys |-> (k \div RangeSize) + 1]

\* The keys of every range collide on one home slot.
MCHome == [k \in Keys |-> 1]
=============================================================================
