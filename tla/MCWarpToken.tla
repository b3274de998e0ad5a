----------------------------- MODULE MCWarpToken -----------------------------
(* Instances of WarpToken for TLC. *)
EXTENDS WarpToken

Batch(kind, len) == [kind |-> kind, len |-> len]

\* Batches of several turns of the loop, with short last chunks; then a delete
\* batch that starts with some flags set.
MCKernels == <<Batch("insert", 15), Batch("insert", 5), Batch("delete", 7)>>
=============================================================================
