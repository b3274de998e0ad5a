---------------------------- MODULE ConcurrentSet ----------------------------
(***************************************************************************)
(* What the skip list promises its drivers: a set of keys, and operations  *)
(* that each take effect at one moment between their call and their return *)
(* and answer whether they changed the set.                                *)
(***************************************************************************)
CONSTANTS
  Ops,         \* the operations of a run
  KindOf(_),   \* "insert" or "erase"
  KeyOf(_)

VARIABLES
  members,     \* the keys in the set
  called,      \* the operations called so far
  decided,     \* the answer of an operation that took effect
  result       \* the answer it returned

vars == <<members, called, decided, result>>

Init ==
  /\ members = {}
  /\ called = {}
  /\ decided = [o \in Ops |-> "none"]
  /\ result = [o \in Ops |-> "none"]

\* More operations are called.
Call ==
  /\ called' \in SUBSET Ops
  /\ called \subseteq called'
  /\ UNCHANGED <<members, decided, result>>

\* The operation takes effect: it changes the set if it can, and says so.
TakeEffect(o, ans) ==
  /\ decided[o] = "none"
  /\ decided' = [decided EXCEPT ![o] = ans]
  /\ IF KindOf(o) = "insert"
       THEN /\ (ans = "true") = (KeyOf(o) \notin members)
            /\ members' = members \cup {KeyOf(o)}
       ELSE /\ (ans = "true") = (KeyOf(o) \in members)
            /\ members' = members \ {KeyOf(o)}
  /\ UNCHANGED <<called, result>>

Return(o) ==
  /\ decided[o] # "none"
  /\ result[o] = "none"
  /\ result' = [result EXCEPT ![o] = decided[o]]
  /\ UNCHANGED <<members, called, decided>>

Next ==
  \/ Call
  \/ \E o \in called : Return(o) \/ \E ans \in {"true", "false"} : TakeEffect(o, ans)

Spec == Init /\ [][Next]_vars
=============================================================================
