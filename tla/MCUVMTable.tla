----------------------------- MODULE MCUVMTable ------------------------------
(* Instances of UVMTable for TLC. *)
EXTENDS UVMTable

\* There is one table.
MCTableOf == [k \in Keys |-> 0]

\* Two keys share a home and the third overlaps their windows.
MCHome == [k \in Keys |-> IF k < 3 THEN 1 ELSE 2]
=============================================================================
