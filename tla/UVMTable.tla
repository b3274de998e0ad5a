------------------------------ MODULE UVMTable -------------------------------
(***************************************************************************)
(* The flat hash table HTUVM (gpu_impl_UVM_CG.cuh) and its driver          *)
(* (driver_hashtable_UVM.cu): one table for all keys, no count, windows 32 *)
(* slots apart (smallerPrimeGPU = 32) whatever the group size, and a table *)
(* that is cleared and used again when the driver does several runs.       *)
(***************************************************************************)
EXTENDS BatchDriver

CONSTANT MaxRuns  \* bound: runs of the driver

\* The table has room for every insert of the trace: its capacity is at least
\* NUM_ADD_OPS / LOAD_FACTOR, with LOAD_FACTOR = 0.9.
ASSUME UVMAssumption ==
  /\ Tables = {0}
  /\ MaxRuns \in Nat
  /\ 10 * MaxInserts * BatchSize <= 9 * Capacity

VARIABLE runs  \* the runs done so far

vars == <<insertVars, hostVars, resultVars, runs>>

Cells == keyAt[0]

Init == DriverInit /\ runs = 0

Quiet == \A g \in Groups : pc[g] = "idle"

LaunchInsert == Quiet /\ InsertBatch("probe") /\ UNCHANGED runs
LaunchDelete == Quiet /\ DeleteBatch("delScan") /\ UNCHANGED runs
LaunchSearch == Quiet /\ SearchBatch("search") /\ UNCHANGED runs

\* Mutant of NextRun: the table is not set to zero.
NextRunKeepsTable ==
  /\ Quiet
  /\ launched > 0
  /\ runs + 1 < MaxRuns
  /\ runs' = runs + 1
  /\ phase' = "insert"
  /\ launched' = 0
  /\ active' = {}
  /\ delStatus' = [g \in Groups |-> FALSE]
  /\ srchValue' = [g \in Groups |-> Sentinel]
  /\ requested' = [k \in Keys |-> {}]
  /\ deleted' = {}
  /\ UNCHANGED insertVars

\* The next run: new result buffers, and the table set to zero.
NextRun ==
  /\ Quiet
  /\ launched > 0
  /\ runs + 1 < MaxRuns
  /\ runs' = runs + 1
  /\ keyAt' = [t \in Tables |-> [s \in Slots |-> Sentinel]]
  /\ valAt' = keyAt'
  /\ oldKeyAt' = keyAt'
  /\ phase' = "insert"
  /\ launched' = 0
  /\ active' = {}
  /\ delStatus' = [g \in Groups |-> FALSE]
  /\ srchValue' = [g \in Groups |-> Sentinel]
  /\ requested' = [k \in Keys |-> {}]
  /\ deleted' = {}
  /\ UNCHANGED <<pc, op, win, emptyMask, addr>>

-----------------------------------------------------------------------------
(* The kernels. *)

insertOnly == <<hostVars, resultVars, runs>>

InsertBallot(g) == Ballot(g, "idle") /\ UNCHANGED insertOnly

\* A won slot and a duplicate both go on to the value store.
InsertClaim(g) == Claim(g, "store", "idle") /\ UNCHANGED insertOnly

InsertStore(g) == StoreValue(g) /\ UNCHANGED insertOnly

\* The scan that ends in a hit, at a free slot, or after the last window.
\* Other groups of the kernel only turn the key itself into a tombstone, so
\* the scan is one step that sees the slots as they are or as they were.
DeleteScan(g) ==
  LET k == op[g].key
  IN  /\ pc[g] = "delScan"
      /\ \E cells \in {Cells, oldKeyAt[0]} :
           LET hits == Hits(cells, Home[k], k, Sentinel, InsertLanes)
           IN  \/ \E p \in hits :
                    /\ addr' = [addr EXCEPT ![g] = SlotAt(Home[k], p[1], p[2])]
                    /\ GoTo(g, "tombstone")
               \/ hits = {} /\ GoTo(g, "idle") /\ UNCHANGED addr
      /\ UNCHANGED <<keyAt, valAt, oldKeyAt, op, win, emptyMask, hostVars,
                     resultVars, runs>>

\* The lane that hit overwrites both words of the slot, whatever they are by
\* now, and rank 0 reports the status.
WriteTombstone(g) ==
  /\ pc[g] = "tombstone"
  /\ keyAt' = [keyAt EXCEPT ![0][addr[g]] = Tombstone]
  /\ valAt' = [valAt EXCEPT ![0][addr[g]] = Tombstone]
  /\ delStatus' = [delStatus EXCEPT ![g] = TRUE]
  /\ GoTo(g, "idle")
  /\ UNCHANGED <<oldKeyAt, op, win, emptyMask, addr, hostVars, srchValue,
                 runs>>

\* What lookupgpuimpl_CG returns for a key.
LookupResult(k) ==
  LET hits == Hits(Cells, Home[k], k, Sentinel, LookupLanes)
  IN  IF hits = {} THEN Sentinel
      ELSE LET p == CHOOSE q \in hits : TRUE
           IN  valAt[0][SlotAt(Home[k], p[1], p[2])]

Lookup(g) ==
  LET v == LookupResult(op[g].key)
  IN  /\ pc[g] = "search"
      /\ srchValue' = IF v # Sentinel THEN [srchValue EXCEPT ![g] = v]
                                       ELSE srchValue
      /\ GoTo(g, "idle")
      /\ UNCHANGED <<keyAt, valAt, oldKeyAt, op, win, emptyMask, addr,
                     hostVars, delStatus, runs>>

GroupStep(g) ==
  \/ InsertBallot(g)
  \/ InsertClaim(g)
  \/ InsertStore(g)
  \/ DeleteScan(g)
  \/ WriteTombstone(g)
  \/ Lookup(g)

Finished == Quiet /\ launched > 0 /\ UNCHANGED vars

Next ==
  \/ LaunchInsert
  \/ LaunchDelete
  \/ LaunchSearch
  \/ NextRun
  \/ Finished
  \/ \E g \in Groups : GroupStep(g)

Spec == Init /\ [][Next]_vars

-----------------------------------------------------------------------------
(***************************************************************************)
(* The table's words, the groups' registers and the host's buffers stay in *)
(* their domains: no value word holds a key.                               *)
(***************************************************************************)
TypeOK ==
  /\ DriverTypeOK
  /\ runs \in Nat

(***************************************************************************)
(* The flat table is the map its driver expects (BatchMap).  The map of a  *)
(* state: the value word of the slot that holds the key; the zero word of  *)
(* a slot that was claimed but not yet written means "not there".  Inserts *)
(* take effect at the value store, deletes at the tombstone or, when they  *)
(* find nothing, at the ballot that ends the scan.                         *)
(***************************************************************************)
Contents ==
  [k \in Keys |->
     IF \E s \in Slots : Cells[s] = k
     THEN valAt[0][CHOOSE s \in Slots : Cells[s] = k] ELSE Sentinel]

\* The keys at launch, and the operations that are not through.
Present == {k \in Keys : \E s \in Slots : oldKeyAt[0][s] = k}
Todo == [g \in Groups |-> IF pc[g] = "idle" THEN NoOp ELSE op[g]]

Abstract == INSTANCE BatchMap WITH
  Absent <- Sentinel,
  Slots <- Groups,
  map <- Contents,
  present <- Present,
  kind <- phase,
  todo <- Todo,
  answer <- srchValue,
  status <- delStatus

\* Every step of the kernels and of the host is a step of the abstract map, or
\* none: races, duplicate deletes, reused buffers and the clearing included.
ImplementsMap == Abstract!Spec
=============================================================================
