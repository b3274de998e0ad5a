------------------------------ MODULE WarpToken ------------------------------
(***************************************************************************)
(* How the skip-list drivers (trace_bm_gfsl_uvm.cu and _hetero.cu) hand    *)
(* the operations of a batch to the warps of a kernel.  In the plain build *)
(* warp w takes the operations w, w + numWarps, ...; with BUSY_WAIT it     *)
(* takes chunks of KEYS_PER_WARP operations, and before each chunk spins   *)
(* for a flag that another warp sets when it has finished a chunk.  The    *)
(* host never takes a flag back (the reset after a batch is commented      *)
(* out), and launches some kernels with more warps than it tells them.     *)
(***************************************************************************)
EXTENDS Integers, Sequences, FiniteSets

CONSTANTS
  Kernels,         \* the batches of a run: [kind |-> "insert" or "delete", len |-> ...]
  TokenKinds,      \* the kinds whose kernels spin: both in the BUSY_WAIT build of
                   \* the UVM driver, deletes in the hetero driver's, none without
  BusyWait,        \* built with BUSY_WAIT
  KeysPerWarp,     \* KEYS_PER_WARP
  WaitingWarps,    \* WAITING_WARPS
  WarpsPerBlock,   \* BLOCK_SIZE >> 5
  OpsPerBlock,     \* the 16 of (len + 15) >> 4
  InsertBlocks,    \* NUM_BLOCKS of the insert kernels before the division
  DividedDeletes,  \* the UVM driver divides the deletes' numWarps by KEYS_PER_WARP
  Resident         \* blocks that run at a time

CeilDiv(a, b) == (a + b - 1) \div b

ASSUME TokenAssumption ==
  /\ {KeysPerWarp, WaitingWarps, WarpsPerBlock, OpsPerBlock, InsertBlocks, Resident}
       \subseteq Nat \ {0}
  /\ Kernels \in Seq([kind : {"insert", "delete"}, len : Nat \ {0}]) /\ Kernels # <<>>
  /\ TokenKinds \subseteq {"insert", "delete"} /\ (TokenKinds # {} => BusyWait)
  /\ DividedDeletes \in BOOLEAN

VARIABLES
  kernel,      \* the kernel that runs
  dispatched,  \* its blocks that were given to a multiprocessor
  pc,          \* where each warp is
  at,          \* i of the loop
  off,         \* j of the loop
  flag,        \* allowWarp
  times,       \* history: how often each operation of the batch was executed
  handedOn     \* history: the warps that have finished a chunk of this run

vars == <<kernel, dispatched, pc, at, off, flag, times, handedOn>>

Inserting(k) == Kernels[k].kind = "insert"
Spins(k) == Kernels[k].kind \in TokenKinds
LenOf(k) == Kernels[k].len

\* The grid of a kernel, and the number of warps it is told.
NumBlocks(k) ==
  IF ~Inserting(k) THEN CeilDiv(LenOf(k), OpsPerBlock)
  ELSE IF BusyWait THEN CeilDiv(InsertBlocks, KeysPerWarp) ELSE InsertBlocks

NumWarps(k) ==
  (IF Inserting(k) \/ ~DividedDeletes THEN NumBlocks(k)
   ELSE CeilDiv(NumBlocks(k), KeysPerWarp)) * WarpsPerBlock

Warps(k) == 0 .. NumBlocks(k) * WarpsPerBlock - 1
BlockOf(w) == w \div WarpsPerBlock
Flags == 0 .. WaitingWarps - 1

\* The operations of one turn of the loop, and where a warp's loop begins.
Chunk == IF BusyWait THEN KeysPerWarp ELSE 1
FirstAt(w) == Chunk * w

\* Mutant of NextAt: the stride leaves out KEYS_PER_WARP.
NextAtShort(k, i) == i + NumWarps(k)

NextAt(k, i) == i + Chunk * NumWarps(k)

\* The head of the loop: out of the kernel, to the flag, or to work.
LoopHead(k, i) ==
  IF i >= LenOf(k) THEN "done" ELSE IF Spins(k) THEN "spin" ELSE "work"

\* The host starts kernel k.
Started(k) ==
  [dispatched |-> 0, pc |-> [w \in Warps(k) |-> "queued"],
   at |-> [w \in Warps(k) |-> FirstAt(w)], off |-> [w \in Warps(k) |-> 0],
   times |-> [e \in 0 .. LenOf(k) - 1 |-> 0]]

Init ==
  /\ kernel = 1
  /\ dispatched = Started(1).dispatched
  /\ pc = Started(1).pc
  /\ at = Started(1).at
  /\ off = Started(1).off
  /\ times = Started(1).times
  /\ flag = [f \in Flags |-> IF f = 0 THEN 1 ELSE 0]
  /\ handedOn = {}

KernelDone == \A w \in Warps(kernel) : pc[w] = "done"

NextKernel ==
  /\ KernelDone
  /\ kernel < Len(Kernels)
  /\ kernel' = kernel + 1
  /\ dispatched' = Started(kernel + 1).dispatched
  /\ pc' = Started(kernel + 1).pc
  /\ at' = Started(kernel + 1).at
  /\ off' = Started(kernel + 1).off
  /\ times' = Started(kernel + 1).times
  /\ UNCHANGED <<flag, handedOn>>

\* The hardware starts the next block, in the order of the block numbers, when a
\* multiprocessor has room for it.
Dispatch ==
  LET running == {b \in 0 .. dispatched - 1 :
                    \E w \in Warps(kernel) : BlockOf(w) = b /\ pc[w] # "done"}
  IN  /\ dispatched < NumBlocks(kernel)
      /\ Cardinality(running) < Resident
      /\ dispatched' = dispatched + 1
      /\ pc' = [w \in Warps(kernel) |-> IF BlockOf(w) = dispatched
                                          THEN LoopHead(kernel, at[w]) ELSE pc[w]]
      /\ UNCHANGED <<kernel, at, off, flag, times, handedOn>>

\* Mutant of LockId: everybody waits for the first flag.
LockIdFirst(w) == 0

LockId(w) == IF w < WaitingWarps THEN w ELSE WaitingWarps - 1

Spin(w) ==
  /\ pc[w] = "spin"
  /\ pc' = IF flag[LockId(w)] = 0 THEN pc ELSE [pc EXCEPT ![w] = "work"]
  /\ UNCHANGED <<kernel, dispatched, at, off, flag, times, handedOn>>

\* One turn of the inner loop; the last chunk may reach past the batch.
Execute(w) ==
  /\ pc[w] = "work"
  /\ off[w] < Chunk
  /\ off' = [off EXCEPT ![w] = @ + 1]
  /\ times' = [e \in DOMAIN times |-> IF e = at[w] + off[w] THEN times[e] + 1 ELSE times[e]]
  /\ UNCHANGED <<kernel, dispatched, pc, at, flag, handedOn>>

\* Mutant of Allowed: the last waiting warp is not let in.
AllowedShort(w) == IF w + 2 < WaitingWarps THEN LockId(w) + 1 ELSE 0

\* The flag a warp sets after a chunk.
Allowed(w) == IF w + 1 < WaitingWarps THEN LockId(w) + 1 ELSE 0

EndOfChunk(w) ==
  /\ pc[w] = "work"
  /\ off[w] = Chunk
  /\ off' = [off EXCEPT ![w] = 0]
  /\ at' = [at EXCEPT ![w] = NextAt(kernel, @)]
  /\ pc' = [pc EXCEPT ![w] = LoopHead(kernel, at'[w])]
  /\ IF Spins(kernel) THEN /\ flag' = [flag EXCEPT ![Allowed(w)] = 1]
                           /\ handedOn' = handedOn \cup {w}
                      ELSE UNCHANGED <<flag, handedOn>>
  /\ UNCHANGED <<kernel, dispatched, times>>

Finished == KernelDone /\ kernel = Len(Kernels) /\ UNCHANGED vars

WarpStep(w) == Spin(w) \/ Execute(w) \/ EndOfChunk(w)

Next == NextKernel \/ Dispatch \/ (\E w \in Warps(kernel) : WarpStep(w)) \/ Finished

Spec == Init /\ [][Next]_vars

\* Every running warp runs; blocks start in order as others end (what CUDA's
\* hardware does, though its documentation promises no order).
FairSpec ==
  /\ Spec
  /\ WF_vars(NextKernel)
  /\ WF_vars(Dispatch)
  /\ \A w \in UNION {Warps(k) : k \in DOMAIN Kernels} :
       WF_vars(w \in Warps(kernel) /\ WarpStep(w))

-----------------------------------------------------------------------------
(***************************************************************************)
(* KEY_CHECK's premise: each operation of a batch is executed exactly      *)
(* once, whatever the grid, the chunks and the warps of the last turn (a   *)
(* delete executed twice answers 0 the second time).                       *)
(***************************************************************************)
EachOnce ==
  \A e \in DOMAIN times : times[e] <= 1 /\ (KernelDone => times[e] = 1)

(***************************************************************************)
(* The waiting warps start one after the other: a warp executes its first  *)
(* chunk only when every waiting warp before it has finished one, and a    *)
(* warp that is none when all but the last have.                           *)
(***************************************************************************)
FirstChunksInOrder ==
  Spins(kernel) =>
    \A w \in Warps(kernel) :
      pc[w] = "work" => \A v \in Flags : v < w /\ v < WaitingWarps - 1 => v \in handedOn

(***************************************************************************)
(* Nobody spins for ever, although blocks that spin keep others out.       *)
(***************************************************************************)
AllKernelsEnd == <>(kernel = Len(Kernels) /\ KernelDone)
=============================================================================
