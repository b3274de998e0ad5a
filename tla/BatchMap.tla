------------------------------ MODULE BatchMap -------------------------------
(***************************************************************************)
(* What a hash table promises its driver: a map from keys to values that   *)
(* is worked on in batches.  A batch is a set of operations of one kind;   *)
(* each takes effect in one step, in any order; the next batch starts when *)
(* all are through.  Inserts replace the value, deletes remove the key,    *)
(* lookups deliver the value of a key that is there.                       *)
(***************************************************************************)
CONSTANTS
  Keys, Values,
  Absent,   \* the value of a key that is not in the map
  Slots     \* the operation slots of a batch

VARIABLES
  map,      \* map[k]: the value of k, or Absent
  present,  \* the keys in the map when the running batch started
  kind,     \* the kind of the running batch
  todo,     \* todo[i]: the operation slot i still has to do, or none
  answer,   \* answer[i]: what the lookups of slot i delivered last
  status    \* status[i]: whether a delete of slot i found its key

vars == <<map, present, kind, todo, answer, status>>

Kinds == {"insert", "delete", "search"}
NoTask == [key |-> Absent, value |-> Absent]
Tasks == [key : Keys, value : Values \cup {Absent}]

Init ==
  /\ map = [k \in Keys |-> Absent]
  /\ present = {}
  /\ kind = "insert"
  /\ todo = [i \in Slots |-> NoTask]
  /\ answer = [i \in Slots |-> Absent]
  /\ status = [i \in Slots |-> FALSE]

Launch ==
  /\ \A i \in Slots : todo[i] = NoTask
  /\ kind' \in Kinds
  /\ todo' \in [Slots -> Tasks \cup {NoTask}]
  /\ present' = {k \in Keys : map[k] # Absent}
  /\ UNCHANGED <<map, answer, status>>

Through(i) ==
  /\ todo[i] # NoTask
  /\ todo' = [todo EXCEPT ![i] = NoTask]
  /\ UNCHANGED <<present, kind>>

Insert(i) ==
  /\ kind = "insert"
  /\ Through(i)
  /\ map' = [map EXCEPT ![todo[i].key] = todo[i].value]
  /\ UNCHANGED <<answer, status>>

\* A delete finds its key only if the batch started with it, and misses only
\* if the key is gone; either way the key is out of the map.
Delete(i) ==
  LET k == todo[i].key
  IN  /\ kind = "delete"
      /\ Through(i)
      /\ \/ k \in present /\ status' = [status EXCEPT ![i] = TRUE]
         \/ map[k] = Absent /\ UNCHANGED status
      /\ map' = [map EXCEPT ![k] = Absent]
      /\ UNCHANGED answer

Lookup(i) ==
  LET v == map[todo[i].key]
  IN  /\ kind = "search"
      /\ Through(i)
      /\ answer' = IF v = Absent THEN answer ELSE [answer EXCEPT ![i] = v]
      /\ UNCHANGED <<map, status>>

\* The host may clear the table between two runs.
Clear ==
  /\ \A i \in Slots : todo[i] = NoTask
  /\ map' = [k \in Keys |-> Absent]
  /\ answer' = [i \in Slots |-> Absent]
  /\ status' = [i \in Slots |-> FALSE]
  /\ kind' = "insert"
  /\ present' = {}
  /\ UNCHANGED todo

Next ==
  \/ Launch
  \/ \E i \in Slots : Insert(i) \/ Delete(i) \/ Lookup(i)
  \/ Clear

Spec == Init /\ [][Next]_vars
=============================================================================
