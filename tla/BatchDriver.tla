----------------------------- MODULE BatchDriver -----------------------------
(***************************************************************************)
(* The host side shared by the hash-table drivers: all insert batches come *)
(* first, then all delete batches, then all search batches; a batch is     *)
(* copied into one buffer that every batch of its kind reuses, one kernel  *)
(* is launched on it, and the host waits for the kernel to end.  The order *)
(* of the operations inside a batch (sorting by range) has no effect on    *)
(* which group runs when, so a batch is any assignment of operations to    *)
(* groups 1 .. n.                                                          *)
(***************************************************************************)
EXTENDS GroupInsert

CONSTANTS
  MaxInserts,       \* bound: insert batches of a run
  MaxDeletes,       \* bound: delete batches
  MaxSearches,      \* bound: search batches
  DistinctDeletes   \* TRUE: a delete batch names a key at most once (traces
                    \* generated without duplicates), FALSE: any batch

\* The drivers draw keys and values from 1 .. UINT32_MAX.
ASSUME DriverAssumption ==
  /\ Sentinel \notin Keys
  /\ {MaxInserts, MaxDeletes, MaxSearches} \subseteq Nat
  /\ DistinctDeletes \in BOOLEAN

VARIABLES
  phase,      \* the kind of the batches the host is launching
  launched,   \* the batches launched in this phase
  active,     \* the groups of the running, or of the last, kernel
  delStatus,  \* delete_result: one buffer for all delete batches
  srchValue,  \* searched_results: one buffer for all search batches
  requested,  \* history: the values the last insert batch with a key names
  deleted     \* history: the keys some delete batch named

hostVars == <<phase, launched, active, requested, deleted>>
resultVars == <<delStatus, srchValue>>

\* The steps of the groups of each kernel.
InsertSteps == {"range", "claimRange", "probe", "claim", "count", "store"}
DeleteSteps == {"delRange", "delScan", "tombstone", "loadCount", "storeCount"}
Steps == InsertSteps \cup DeleteSteps \cup {"search", "idle"}

NoOp == [key |-> Sentinel, value |-> Sentinel]

DriverInit ==
  /\ keyAt = [t \in Tables |-> [s \in Slots |-> Sentinel]]
  /\ valAt = keyAt
  /\ oldKeyAt = keyAt
  /\ pc = [g \in Groups |-> "idle"]
  /\ op = [g \in Groups |-> NoOp]
  /\ win = [g \in Groups |-> 0]
  /\ emptyMask = [g \in Groups |-> {}]
  /\ addr = [g \in Groups |-> 0]
  /\ phase = "insert"
  /\ launched = 0
  /\ active = {}
  /\ delStatus = [g \in Groups |-> FALSE]
  /\ srchValue = [g \in Groups |-> Sentinel]
  /\ requested = [k \in Keys |-> {}]
  /\ deleted = {}

\* The next batch of kind p: the first one of its phase, or one more.
EnterPhase(p, bound) ==
  /\ phase' = p
  /\ IF phase = p THEN launched < bound /\ launched' = launched + 1
                  ELSE launched > 0 /\ bound > 0 /\ launched' = 1

\* The kernel starts: operation g of the batch is at step `first`, and plain
\* loads can return nothing older than what memory holds now.
StartKernel(ops, first) ==
  /\ active' = DOMAIN ops
  /\ op' = [g \in Groups |-> IF g \in DOMAIN ops THEN ops[g] ELSE op[g]]
  /\ pc' = [g \in Groups |-> IF g \in DOMAIN ops THEN first ELSE "idle"]
  /\ win' = [g \in Groups |-> 0]
  /\ oldKeyAt' = keyAt
  /\ UNCHANGED <<keyAt, valAt, emptyMask, addr>>

InsertBatch(first) ==
  /\ phase = "insert"
  /\ EnterPhase("insert", MaxInserts)
  /\ \E n \in Groups :
       \E ops \in [1 .. n -> [key : Keys, value : Values]] :
         /\ StartKernel(ops, first)
         /\ requested' =
              [k \in Keys |->
                 LET named == {g \in 1 .. n : ops[g].key = k}
                 IN  IF named = {} THEN requested[k]
                                   ELSE {ops[g].value : g \in named}]
  /\ UNCHANGED <<deleted, resultVars>>

\* The result buffers start out as zero pages and are never cleared.
DeleteBatch(first) ==
  /\ phase \in {"insert", "delete"}
  /\ EnterPhase("delete", MaxDeletes)
  /\ \E n \in Groups :
       \E keys \in [1 .. n -> Keys] :
         /\ DistinctDeletes =>
              \A g, h \in 1 .. n : keys[g] = keys[h] => g = h
         /\ StartKernel([g \in 1 .. n |->
                           [key |-> keys[g], value |-> Sentinel]], first)
         /\ deleted' = deleted \cup {keys[g] : g \in 1 .. n}
  /\ UNCHANGED <<requested, resultVars>>

SearchBatch(first) ==
  /\ EnterPhase("search", MaxSearches)
  /\ \E n \in Groups :
       \E keys \in [1 .. n -> Keys] :
         StartKernel([g \in 1 .. n |->
                        [key |-> keys[g], value |-> Sentinel]], first)
  /\ UNCHANGED <<requested, deleted, resultVars>>

-----------------------------------------------------------------------------
\* The domains of the table, the groups' registers and the host's variables.
DriverTypeOK ==
  /\ keyAt \in [Tables -> [Slots -> KeyWords]]
  /\ valAt \in [Tables -> [Slots -> Values \cup {Sentinel, Tombstone}]]
  /\ oldKeyAt \in [Tables -> [Slots -> KeyWords]]
  /\ pc \in [Groups -> Steps]
  /\ op \in [Groups -> [key : Keys \cup {Sentinel},
                        value : Values \cup {Sentinel}]]
  /\ win \in [Groups -> 0 .. NumWindows]
  /\ emptyMask \in [Groups -> SUBSET Lanes]
  /\ addr \in [Groups -> Slots]
  /\ phase \in {"insert", "delete", "search"}
  /\ launched \in Nat
  /\ active \in SUBSET Groups
  /\ delStatus \in [Groups -> BOOLEAN]
  /\ srchValue \in [Groups -> Values \cup {Sentinel, Tombstone}]
  /\ requested \in [Keys -> SUBSET Values]
  /\ deleted \in SUBSET Keys
=============================================================================
