--------------------------- MODULE WarpToken_proofs ---------------------------
(***************************************************************************)
(* Theorems about the hand-out of a batch to the warps of a kernel, for    *)
(* every sequence of batches, grid, chunk length and number of waiting     *)
(* warps.                                                                  *)
(***************************************************************************)
EXTENDS WarpToken, FiniteSets, FiniteSetTheorems, TLAPS

-----------------------------------------------------------------------------
(* Facts about numbers and finite sets of them that the proofs cite.       *)

\* A number with a larger quotient is larger, whatever the remainders.
LEMMA QuotientOrders ==
  ASSUME NEW n \in Nat \ {0}, NEW p \in Nat, NEW q \in Nat,
         NEW a \in 0 .. n - 1, NEW b \in 0 .. n - 1, p < q
  PROVE  p * n + a < q * n + b
<1>1. PICK e \in Nat : q = p + 1 + e
  <2>1. q - p - 1 \in Nat /\ q = p + 1 + (q - p - 1)
    OBVIOUS
  <2> QED BY <2>1
<1>2. q * n = p * n + n + e * n
  BY <1>1
<1>3. e * n >= 0 /\ p * n \in Nat /\ q * n \in Nat
  OBVIOUS
<1> QED BY <1>2, <1>3

\* A quotient and a remainder determine each other.
LEMMA DivisionUnique ==
  ASSUME NEW n \in Nat \ {0}, NEW p \in Nat, NEW q \in Nat,
         NEW a \in 0 .. n - 1, NEW b \in 0 .. n - 1,
         p * n + a = q * n + b
  PROVE  p = q /\ a = b
<1>1. p * n + a \in Int /\ q * n + b \in Int
  OBVIOUS
<1>2. ~(p < q) /\ ~(q < p)
  BY <1>1, QuotientOrders
<1>3. p = q
  BY <1>2
<1> QED BY <1>3

\* Every natural has a quotient and a remainder.
LEMMA DivisionExists ==
  ASSUME NEW n \in Nat \ {0}, NEW x \in Nat
  PROVE  /\ x \div n \in Nat
         /\ x % n \in 0 .. n - 1
         /\ x = (x \div n) * n + (x % n)
OBVIOUS

\* Division is monotone.
LEMMA DivisionMonotone ==
  ASSUME NEW n \in Nat \ {0}, NEW x \in Nat, NEW y \in Nat, x <= y
  PROVE  x \div n <= y \div n
<1> DEFINE p == y \div n
           q == x \div n
           a == y % n
           b == x % n
<1>1. /\ p \in Nat /\ q \in Nat
      /\ a \in 0 .. n - 1 /\ b \in 0 .. n - 1
      /\ y = p * n + a /\ x = q * n + b
  BY DivisionExists
<1> HIDE DEF p, q, a, b
<1>2. ~(p < q)
  BY <1>1, QuotientOrders
<1>3. q <= p
  BY <1>1, <1>2
<1> QED BY <1>3 DEF p, q

-----------------------------------------------------------------------------
(* The parts of the inductive invariant. *)

TokenTypeOK ==
  /\ kernel \in DOMAIN Kernels
  /\ dispatched \in Nat
  /\ pc \in [Warps(kernel) -> {"queued", "spin", "work", "done"}]
  /\ at \in [Warps(kernel) -> Nat]
  /\ off \in [Warps(kernel) -> 0 .. Chunk]
  /\ flag \in [Flags -> {0, 1}]
  /\ handedOn \subseteq Nat

\* A flag other than the first is set only after all waiting warps before its
\* own have finished a chunk.
FlagsInOrder ==
  \A f \in Flags : flag[f] = 1 => \A v \in Flags : v < f => v \in handedOn

\* In a kernel that spins, a warp works only behind a flag that is set: nobody
\* takes a flag back.
WorkBehindFlag ==
  Spins(kernel) => \A w \in Warps(kernel) : pc[w] = "work" => flag[LockId(w)] = 1

OrderInv == TokenTypeOK /\ FlagsInOrder /\ WorkBehindFlag

-----------------------------------------------------------------------------
(* The grid. *)

\* Chunks and grids are not empty.
LEMMA GridIsPositive ==
  /\ Chunk \in Nat \ {0}
  /\ \A k \in DOMAIN Kernels :
       /\ LenOf(k) \in Nat \ {0}
       /\ NumBlocks(k) \in Nat \ {0}
       /\ NumWarps(k) \in Nat \ {0}
       /\ NextAt(k, 0) \in Nat
       /\ Warps(k) \subseteq Nat
<1>1. \A a \in Nat \ {0}, b \in Nat \ {0} : CeilDiv(a, b) \in Nat \ {0}
  <2> SUFFICES ASSUME NEW a \in Nat \ {0}, NEW b \in Nat \ {0}
               PROVE  CeilDiv(a, b) \in Nat \ {0}
    OBVIOUS
  <2>1. a + b - 1 \in Nat /\ b <= a + b - 1
    OBVIOUS
  <2>2. b \div b = 1
    OBVIOUS
  <2>3. b \div b <= (a + b - 1) \div b
    BY <2>1, DivisionMonotone
  <2>4. (a + b - 1) \div b \in Nat
    BY <2>1, DivisionExists
  <2> QED BY <2>2, <2>3, <2>4 DEF CeilDiv
<1>2. Chunk \in Nat \ {0}
  BY TokenAssumption DEF Chunk
<1>3. ASSUME NEW k \in DOMAIN Kernels
      PROVE  LenOf(k) \in Nat \ {0} /\ NumBlocks(k) \in Nat \ {0}
  <2>1. Kernels[k] \in [kind : {"insert", "delete"}, len : Nat \ {0}]
    <3> DEFINE Batches == [kind : {"insert", "delete"}, len : Nat \ {0}]
    <3>1. Kernels \in Seq(Batches)
      BY TokenAssumption
    <3> HIDE DEF Batches
    <3>2. k \in 1 .. Len(Kernels)
      BY <3>1
    <3>3. Kernels[k] \in Batches
      BY <3>1, <3>2
    <3> QED BY <3>3 DEF Batches
  <2>2. LenOf(k) \in Nat \ {0}
    BY <2>1 DEF LenOf
  <2>3. {OpsPerBlock, InsertBlocks, KeysPerWarp} \subseteq Nat \ {0}
    BY TokenAssumption
  <2> QED BY <1>1, <2>2, <2>3 DEF NumBlocks
<1>4. ASSUME NEW k \in DOMAIN Kernels
      PROVE  NumWarps(k) \in Nat \ {0}
  <2>1. ASSUME NEW a \in Nat \ {0}
        PROVE  a * WarpsPerBlock \in Nat \ {0}
    BY TokenAssumption
  <2> QED BY <1>1, <1>3, <2>1, TokenAssumption DEF NumWarps
<1>5. ASSUME NEW k \in DOMAIN Kernels
      PROVE  NextAt(k, 0) \in Nat
  BY <1>2, <1>4 DEF NextAt
<1> QED BY <1>2, <1>3, <1>4, <1>5 DEF Warps

\* The next turn of a loop starts at a number.
LEMMA NextAtIsNumber ==
  ASSUME NEW k \in DOMAIN Kernels, NEW i \in Nat
  PROVE  NextAt(k, i) \in Nat
<1>1. Chunk * NumWarps(k) \in Nat
  BY GridIsPositive
<1> QED BY <1>1 DEF NextAt

\* Every warp has a flag to wait for, and one to set.
LEMMA FlagsOfWarps ==
  ASSUME NEW w \in Nat
  PROVE  /\ LockId(w) \in Flags
         /\ Allowed(w) \in Flags
         /\ w + 1 < WaitingWarps => LockId(w) = w /\ Allowed(w) = w + 1
         /\ ~(w + 1 < WaitingWarps) => Allowed(w) = 0
BY TokenAssumption DEF LockId, Allowed, Flags

\* The state a kernel starts in.
LEMMA KernelStarts ==
  ASSUME NEW k \in DOMAIN Kernels
  PROVE  /\ Started(k).dispatched = 0
         /\ Started(k).pc \in [Warps(k) -> {"queued"}]
         /\ Started(k).at \in [Warps(k) -> Nat]
         /\ Started(k).off \in [Warps(k) -> {0}]
<1>1. \A w \in Warps(k) : FirstAt(w) \in Nat
  BY GridIsPositive DEF FirstAt
<1> QED BY <1>1 DEF Started

-----------------------------------------------------------------------------
(* First chunks. *)

LEMMA OrderInit == Init => OrderInv
<1> SUFFICES ASSUME Init PROVE OrderInv
  OBVIOUS
<1>1. kernel = 1 /\ 1 \in DOMAIN Kernels
  BY TokenAssumption DEF Init
<1>2. TokenTypeOK
  BY <1>1, KernelStarts, GridIsPositive DEF Init, TokenTypeOK
<1>3. FlagsInOrder
  BY DEF Init, FlagsInOrder, Flags
<1>4. WorkBehindFlag
  BY <1>1, KernelStarts DEF Init, WorkBehindFlag
<1> QED BY <1>2, <1>3, <1>4 DEF OrderInv

\* The host starts the next kernel: the flags stay.
LEMMA NextKernelOrder ==
  ASSUME OrderInv, NextKernel
  PROVE  OrderInv'
<1> USE DEF OrderInv
<1>1. kernel' = kernel + 1 /\ kernel' \in DOMAIN Kernels
  BY TokenAssumption DEF NextKernel, TokenTypeOK
<1>2. TokenTypeOK'
  BY SMTT(30), <1>1, KernelStarts, GridIsPositive DEF NextKernel, TokenTypeOK
<1>3. FlagsInOrder'
  BY DEF NextKernel, FlagsInOrder
<1>4. WorkBehindFlag'
  BY <1>1, KernelStarts DEF NextKernel, WorkBehindFlag
<1> QED BY <1>2, <1>3, <1>4

LEMMA DispatchOrder ==
  ASSUME OrderInv, Dispatch
  PROVE  OrderInv'
<1> USE DEF OrderInv
<1>1. /\ UNCHANGED <<kernel, at, off, flag, handedOn>>
      /\ dispatched' = dispatched + 1
      /\ pc' = [w \in Warps(kernel) |-> IF BlockOf(w) = dispatched
                                          THEN LoopHead(kernel, at[w]) ELSE pc[w]]
  BY DEF Dispatch
<1>2. TokenTypeOK'
  BY <1>1 DEF TokenTypeOK, LoopHead
<1>3. FlagsInOrder'
  BY <1>1 DEF FlagsInOrder
<1>4. WorkBehindFlag'
  BY <1>1 DEF WorkBehindFlag, LoopHead, TokenTypeOK
<1> QED BY <1>2, <1>3, <1>4

LEMMA WarpStepOrder ==
  ASSUME OrderInv, NEW w \in Warps(kernel), WarpStep(w)
  PROVE  OrderInv'
<1> USE DEF OrderInv
<1>1. kernel' = kernel /\ dispatched' = dispatched /\ w \in Nat /\ LockId(w) \in Flags
  BY GridIsPositive, FlagsOfWarps
     DEF WarpStep, Spin, Execute, EndOfChunk, TokenTypeOK
<1>2. CASE Spin(w)
  <2>1. /\ UNCHANGED <<at, off, flag, handedOn>>
        /\ \/ pc' = pc
           \/ flag[LockId(w)] # 0 /\ pc' = [pc EXCEPT ![w] = "work"]
    BY <1>2 DEF Spin
  <2>2. TokenTypeOK'
    BY <1>1, <2>1 DEF TokenTypeOK
  <2>3. FlagsInOrder'
    BY <2>1 DEF FlagsInOrder
  <2>4. WorkBehindFlag'
    BY <1>1, <2>1 DEF WorkBehindFlag, TokenTypeOK
  <2> QED BY <2>2, <2>3, <2>4
<1>3. CASE Execute(w)
  <2>1. UNCHANGED <<pc, at, flag, handedOn>> /\ off' \in [Warps(kernel) -> 0 .. Chunk]
    BY <1>3, GridIsPositive DEF Execute, TokenTypeOK
  <2>2. TokenTypeOK'
    BY <1>1, <2>1 DEF TokenTypeOK
  <2>3. FlagsInOrder' /\ WorkBehindFlag'
    BY <1>1, <2>1 DEF FlagsInOrder, WorkBehindFlag
  <2> QED BY <2>2, <2>3
<1>4. CASE EndOfChunk(w)
  <2>1. /\ pc[w] = "work"
        /\ off' = [off EXCEPT ![w] = 0]
        /\ at' = [at EXCEPT ![w] = NextAt(kernel, at[w])]
        /\ pc' = [pc EXCEPT ![w] = LoopHead(kernel, at'[w])]
    BY <1>4 DEF EndOfChunk
  <2>2. LoopHead(kernel, at'[w]) \in {"done", "spin", "work"}
    BY DEF LoopHead
  <2>3. /\ pc' \in [Warps(kernel) -> {"queued", "spin", "work", "done"}]
        /\ at' \in [Warps(kernel) -> Nat]
        /\ off' \in [Warps(kernel) -> 0 .. Chunk]
    BY <2>1, <2>2, NextAtIsNumber, GridIsPositive DEF TokenTypeOK
  <2>4. CASE ~Spins(kernel)
    <3>1. UNCHANGED <<flag, handedOn>>
      BY <1>4, <2>4 DEF EndOfChunk
    <3> QED BY <1>1, <2>3, <2>4, <3>1
            DEF TokenTypeOK, FlagsInOrder, WorkBehindFlag, Spins
  <2>5. CASE Spins(kernel)
    <3>1. /\ flag' = [flag EXCEPT ![Allowed(w)] = 1]
          /\ handedOn' = handedOn \cup {w}
      BY <1>4, <2>5 DEF EndOfChunk
    <3>2. TokenTypeOK'
      BY <1>1, <2>3, <3>1, FlagsOfWarps DEF TokenTypeOK
    <3>3. FlagsInOrder'
      <4> SUFFICES ASSUME NEW f \in Flags, flag'[f] = 1, NEW v \in Flags, v < f
                   PROVE  v \in handedOn'
        BY DEF FlagsInOrder
      <4>1. CASE flag[f] = 1
        BY <3>1, <4>1 DEF FlagsInOrder
      <4>2. CASE flag[f] # 1
        <5>1. f = Allowed(w)
          BY <3>1, <4>2, <1>1, FlagsOfWarps DEF TokenTypeOK
        <5>2. LockId(w) = w /\ f = w + 1
          BY <1>1, <5>1, FlagsOfWarps DEF Flags
        <5>3. flag[LockId(w)] = 1
          BY <2>1, <2>5 DEF WorkBehindFlag
        <5>4. v < w \/ v = w
          BY <1>1, <5>2 DEF Flags
        <5> QED BY <1>1, <3>1, <5>2, <5>3, <5>4 DEF FlagsInOrder
      <4> QED BY <4>1, <4>2
    <3>4. WorkBehindFlag'
      <4> SUFFICES ASSUME NEW v \in Warps(kernel), pc'[v] = "work"
                   PROVE  flag'[LockId(v)] = 1
        BY <1>1 DEF WorkBehindFlag
      <4>1. v # w /\ pc[v] = "work"
        BY <2>1, <2>5 DEF LoopHead, TokenTypeOK
      <4>2. flag[LockId(v)] = 1 /\ LockId(v) \in Flags
        BY <2>5, <4>1, <1>1, GridIsPositive, FlagsOfWarps
           DEF WorkBehindFlag, TokenTypeOK
      <4> QED BY <3>1, <4>2 DEF TokenTypeOK
    <3> QED BY <3>2, <3>3, <3>4
  <2> QED BY <2>4, <2>5
<1> QED BY <1>2, <1>3, <1>4 DEF WarpStep

LEMMA OrderPreserved == OrderInv /\ [Next]_vars => OrderInv'
<1> SUFFICES ASSUME OrderInv, [Next]_vars PROVE OrderInv'
  OBVIOUS
<1>1. CASE Finished \/ UNCHANGED vars
  <2>1. UNCHANGED vars
    BY <1>1 DEF Finished
  <2> QED BY <2>1
          DEF vars, OrderInv, TokenTypeOK, FlagsInOrder, WorkBehindFlag
<1> QED BY <1>1, NextKernelOrder, DispatchOrder, WarpStepOrder DEF Next

\* At every step a set flag means that all waiting warps before its own have finished
\* a chunk, and a warp that works does so behind a set flag (the head of the kernels'
\* loops, and the hand-on at their end).
THEOREM OrderInvariant == Spec => []OrderInv
BY OrderInit, OrderPreserved, PTL DEF Spec

\* The waiting warps start one after the other, in every kernel that spins
\* (batch_insert, batch_delete with BUSY_WAIT): a warp executes its first chunk
\* only when all waiting warps before it have finished one.
THEOREM WarpsStartInOrder == Spec => []FirstChunksInOrder
<1>1. OrderInv => FirstChunksInOrder
  <2> SUFFICES ASSUME OrderInv, Spins(kernel), NEW w \in Warps(kernel),
                      pc[w] = "work", NEW v \in Flags, v < w, v < WaitingWarps - 1
               PROVE  v \in handedOn
    BY DEF FirstChunksInOrder
  <2>1. flag[LockId(w)] = 1
    BY DEF OrderInv, WorkBehindFlag
  <2>2. w \in Nat
    BY GridIsPositive DEF OrderInv, TokenTypeOK
  <2>3. LockId(w) \in Flags /\ v < LockId(w)
    BY <2>2, FlagsOfWarps DEF LockId
  <2> QED BY <2>1, <2>3 DEF OrderInv, FlagsInOrder
<1> QED BY <1>1, OrderInvariant, PTL

-----------------------------------------------------------------------------
(* Every operation once. *)

\* What the drivers have to be configured with: when the deletes' numWarps is
\* divided by KEYS_PER_WARP, a block has a warp for each of the OpsPerBlock
\* operations it is launched for (BLOCK_SIZE >= 512, the default), and the warps
\* take chunks of KEYS_PER_WARP, which is 1 when they do not spin.
GridCovers ==
  DividedDeletes => /\ WarpsPerBlock >= OpsPerBlock
                    /\ BusyWait \/ KeysPerWarp = 1

\* The warp whose turns an operation belongs to.
Owner(k, e) == (e \div Chunk) % NumWarps(k)

\* A warp is at the beginning of one of its turns, works or spins only inside the
\* batch, and does neither before its block was dispatched.
AtTurn ==
  \A w \in Warps(kernel) :
    /\ \E j \in Nat : at[w] = Chunk * (w + j * NumWarps(kernel))
    /\ pc[w] \in {"spin", "work"} => at[w] < LenOf(kernel)
    /\ pc[w] = "done" => at[w] >= LenOf(kernel)
    /\ pc[w] # "work" => off[w] = 0
    /\ pc[w] # "queued" => BlockOf(w) < dispatched

\* An operation was executed once if its owner is past it, and not yet if not.
OwnersDo ==
  /\ DOMAIN times = 0 .. LenOf(kernel) - 1
  /\ \A e \in DOMAIN times :
       times[e] = IF e < at[Owner(kernel, e)] + off[Owner(kernel, e)] THEN 1 ELSE 0

OnceInv == TokenTypeOK /\ AtTurn /\ OwnersDo

\* A rounded-up quotient times the divisor covers the dividend, and a quotient
\* is no larger than it.
LEMMA CeilDivBounds ==
  ASSUME NEW a \in Nat \ {0}, NEW b \in Nat \ {0}
  PROVE  CeilDiv(a, b) \in Nat /\ CeilDiv(a, b) * b >= a /\ CeilDiv(a, b) <= a
<1> DEFINE q == (a + b - 1) \div b
           r == (a + b - 1) % b
<1>1. q \in Nat /\ r \in 0 .. b - 1 /\ a + b - 1 = q * b + r
  <2>1. a + b - 1 \in Nat
    OBVIOUS
  <2> QED BY <2>1, DivisionExists
<1>2. q * b \in Nat /\ a * b \in Nat
  BY <1>1
<1> HIDE DEF q, r
<1>3. q * b >= a
  BY <1>1, <1>2
<1>4. ~(a < q)
  <2> SUFFICES ASSUME a < q PROVE FALSE
    OBVIOUS
  <2>1. a * b + (b - 1) < q * b + r
    BY <1>1, QuotientOrders
  <2>2. a * b >= a
    OBVIOUS
  <2> QED BY <1>1, <1>2, <2>1, <2>2
<1> QED BY <1>1, <1>3, <1>4 DEF CeilDiv, q

\* The warps that are told of are warps of the grid, and warps of the grid that
\* are not have no operation to begin with.
LEMMA GridFits ==
  ASSUME GridCovers, NEW k \in DOMAIN Kernels
  PROVE  /\ 0 .. NumWarps(k) - 1 \subseteq Warps(k)
         /\ \A w \in Warps(k) : w >= NumWarps(k) => FirstAt(w) >= LenOf(k)
<1> DEFINE NB == NumBlocks(k)
           P == NumWarps(k)
<1>1. /\ NB \in Nat \ {0} /\ P \in Nat \ {0} /\ LenOf(k) \in Nat \ {0}
      /\ {KeysPerWarp, WarpsPerBlock, OpsPerBlock} \subseteq Nat \ {0}
      /\ NB * WarpsPerBlock \in Nat
  BY GridIsPositive, TokenAssumption
<1>2. CASE Inserting(k) \/ ~DividedDeletes
  <2>1. P = NB * WarpsPerBlock
    BY <1>2 DEF NumWarps
  <2> HIDE DEF NB, P
  <2> QED BY <1>1, <2>1 DEF Warps, NB, P
<1>3. CASE ~(Inserting(k) \/ ~DividedDeletes)
  <2> DEFINE C == CeilDiv(NB, KeysPerWarp)
  <2>1. P = C * WarpsPerBlock /\ NB = CeilDiv(LenOf(k), OpsPerBlock)
    BY <1>3 DEF NumWarps, NumBlocks
  <2>2. C \in Nat /\ C <= NB /\ C * KeysPerWarp >= NB
    BY <1>1, CeilDivBounds
  <2>3. NB * OpsPerBlock >= LenOf(k)
    BY <1>1, <2>1, CeilDivBounds
  <2>4. WarpsPerBlock >= OpsPerBlock /\ (BusyWait \/ KeysPerWarp = 1)
    BY <1>3 DEF GridCovers
  <2>5. Warps(k) = 0 .. NB * WarpsPerBlock - 1
    BY DEF Warps
  <2> HIDE DEF NB, P, C
  <2>6. NB * WarpsPerBlock >= NB * OpsPerBlock
    <3>1. PICK d \in Nat : WarpsPerBlock = OpsPerBlock + d
      <4>1. WarpsPerBlock - OpsPerBlock \in Nat
        BY <1>1, <2>4
      <4> QED BY <1>1, <4>1
    <3>2. NB * WarpsPerBlock = NB * OpsPerBlock + NB * d
      BY <1>1, <3>1
    <3>3. NB * d \in Nat /\ NB * OpsPerBlock \in Nat
      BY <1>1
    <3> QED BY <3>2, <3>3
  <2>7. P <= NB * WarpsPerBlock
    <3>1. PICK d \in Nat : NB = C + d
      <4>1. NB - C \in Nat
        BY <1>1, <2>2
      <4> QED BY <1>1, <2>2, <4>1
    <3>2. NB * WarpsPerBlock = C * WarpsPerBlock + d * WarpsPerBlock
      BY <1>1, <2>2, <3>1
    <3>3. C * WarpsPerBlock \in Nat /\ d * WarpsPerBlock \in Nat
      BY <1>1, <2>2
    <3> QED BY <2>1, <3>2, <3>3
  <2>8. ASSUME NEW w \in Warps(k), w >= P
        PROVE  FirstAt(w) >= LenOf(k)
    <3>1. CASE BusyWait
      <4>1. FirstAt(w) = KeysPerWarp * w /\ w \in Nat
        BY <2>5, <3>1 DEF FirstAt, Chunk
      <4>2. PICK d \in Nat : w = P + d
        <5>1. w - P \in Nat
          BY <1>1, <2>8, <4>1
        <5> QED BY <1>1, <4>1, <5>1
      <4>3. PICK c \in Nat : C * KeysPerWarp = NB + c
        <5>1. C * KeysPerWarp - NB \in Nat
          BY <1>1, <2>2
        <5> QED BY <1>1, <2>2, <5>1
      <4>4. KeysPerWarp * w = KeysPerWarp * P + KeysPerWarp * d
        BY <1>1, <4>2
      <4>5. KeysPerWarp * P = (C * KeysPerWarp) * WarpsPerBlock
        BY <1>1, <2>1, <2>2
      <4>6. (C * KeysPerWarp) * WarpsPerBlock = NB * WarpsPerBlock + c * WarpsPerBlock
        BY <1>1, <4>3
      <4>7. /\ c * WarpsPerBlock \in Nat /\ KeysPerWarp * d \in Nat
            /\ NB * OpsPerBlock \in Nat
        BY <1>1
      <4> QED BY <1>1, <2>3, <2>6, <4>1, <4>4, <4>5, <4>6, <4>7
    <3>2. CASE ~BusyWait
      <4>1. KeysPerWarp = 1
        BY <2>4, <3>2
      <4>2. C >= NB
        BY <1>1, <2>2, <4>1
      <4>3. P = NB * WarpsPerBlock
        BY <1>1, <2>1, <2>2, <4>2
      <4> QED BY <1>1, <2>5, <2>8, <4>3
    <3> QED BY <3>1, <3>2
  <2>9. 0 .. P - 1 \subseteq Warps(k)
    BY <1>1, <2>5, <2>7
  <2> QED BY <2>8, <2>9 DEF P
<1> QED BY <1>2, <1>3

\* The owner of an operation is one of the warps the kernel is told, and the
\* operation is one of a chunk of it.
LEMMA OwnerForm ==
  ASSUME NEW k \in DOMAIN Kernels, NEW e \in Nat
  PROVE  /\ Owner(k, e) \in 0 .. NumWarps(k) - 1
         /\ \E j \in Nat, o \in 0 .. Chunk - 1 :
              e = Chunk * (Owner(k, e) + j * NumWarps(k)) + o
<1> DEFINE P == NumWarps(k)
           q == e \div Chunk
<1>1. P \in Nat \ {0} /\ Chunk \in Nat \ {0}
  BY GridIsPositive
<1>2. q \in Nat /\ e % Chunk \in 0 .. Chunk - 1 /\ e = q * Chunk + (e % Chunk)
  BY <1>1, DivisionExists
<1>3. q \div P \in Nat /\ q % P \in 0 .. P - 1 /\ q = (q \div P) * P + (q % P)
  BY <1>1, <1>2, DivisionExists
<1>4. Owner(k, e) = q % P
  BY DEF Owner
<1> HIDE DEF P, q
<1>5. q = Owner(k, e) + (q \div P) * P
  BY <1>1, <1>2, <1>3, <1>4
<1>6. e = Chunk * (Owner(k, e) + (q \div P) * P) + (e % Chunk)
  BY <1>1, <1>2, <1>5
<1> QED BY <1>2, <1>3, <1>4, <1>6 DEF P

\* The operations of a warp's chunks are its own.
LEMMA OwnerIs ==
  ASSUME NEW k \in DOMAIN Kernels, NEW w \in 0 .. NumWarps(k) - 1,
         NEW j \in Nat, NEW o \in 0 .. Chunk - 1
  PROVE  Owner(k, Chunk * (w + j * NumWarps(k)) + o) = w
<1> DEFINE P == NumWarps(k)
           a == w + j * P
           e == Chunk * a + o
           q == e \div Chunk
<1>1. P \in Nat \ {0} /\ Chunk \in Nat \ {0} /\ w \in 0 .. P - 1
  BY GridIsPositive
<1>2. a \in Nat /\ j * P \in Nat
  BY <1>1
<1>3. e \in Nat
  <2> HIDE DEF a
  <2>1. Chunk * a \in Nat
    BY <1>1, <1>2
  <2> QED BY <1>1, <2>1
<1>4. Owner(k, e) = q % P
  BY DEF Owner
<1>5. q \in Nat /\ e % Chunk \in 0 .. Chunk - 1 /\ e = q * Chunk + (e % Chunk)
  <2> HIDE DEF e
  <2> QED BY <1>1, <1>3, DivisionExists
<1>6. q = a
  <2> DEFINE b == e % Chunk
  <2>1. q * Chunk + b = a * Chunk + o
    BY <1>1, <1>2, <1>5
  <2> HIDE DEF q, a, e
  <2>2. b \in 0 .. Chunk - 1
    BY <1>5
  <2> HIDE DEF b
  <2> QED BY <1>1, <1>2, <1>5, <2>1, <2>2, DivisionUnique
<1>7. q \div P \in Nat /\ q % P \in 0 .. P - 1 /\ q = (q \div P) * P + (q % P)
  <2> HIDE DEF q, P
  <2> QED BY <1>1, <1>5, DivisionExists
<1>8. q % P = w
  <2> DEFINE c == q \div P
             d == q % P
  <2>1. c * P + d = j * P + w
    BY <1>1, <1>2, <1>6, <1>7
  <2>2. c \in Nat /\ d \in 0 .. P - 1
    BY <1>7
  <2> HIDE DEF c, d, P, q
  <2>3. d = w
    BY <1>1, <2>1, <2>2, DivisionUnique
  <2> QED BY <2>3 DEF d
<1> QED BY <1>4, <1>8

\* Between a warp's chunk and its next turn there is no operation of the warp.
LEMMA TurnsApart ==
  ASSUME NEW k \in DOMAIN Kernels, NEW e \in Nat, NEW j \in Nat,
         NEW i \in Nat, i = Chunk * (Owner(k, e) + j * NumWarps(k))
  PROVE  e < i + Chunk <=> e < NextAt(k, i)
<1> DEFINE P == NumWarps(k)
           w == Owner(k, e)
<1>1. P \in Nat \ {0} /\ Chunk \in Nat \ {0}
  BY GridIsPositive
<1>2. w \in Nat
  BY OwnerForm, GridIsPositive
<1>3. PICK l \in Nat, o \in 0 .. Chunk - 1 : e = Chunk * (w + l * P) + o
  BY OwnerForm
<1>4. NextAt(k, i) = i + Chunk * P
  BY DEF NextAt
<1> HIDE DEF P, w
<1>5. Chunk * P \in Nat /\ Chunk * P >= Chunk
  <2>1. PICK d \in Nat : P = d + 1
    <3>1. P - 1 \in Nat /\ P = (P - 1) + 1
      BY <1>1
    <3> QED BY <3>1
  <2>2. Chunk * P = Chunk * d + Chunk /\ Chunk * d \in Nat
    BY <1>1, <2>1
  <2> QED BY <1>1, <2>2
<1>6. CASE l <= j
  <2>1. PICK d \in Nat : j = l + d
    <3>1. j - l \in Nat /\ j = l + (j - l)
      BY <1>6
    <3> QED BY <3>1
  <2>2. i = Chunk * (w + l * P) + Chunk * d * P
    BY <1>1, <1>2, <2>1 DEF P, w
  <2>3. Chunk * d * P \in Nat /\ Chunk * (w + l * P) \in Nat
    <3>1. l * P \in Nat /\ Chunk * d \in Nat
      BY <1>1
    <3> QED BY <1>1, <1>2, <3>1
  <2> QED BY <1>1, <1>3, <1>4, <1>5, <2>2, <2>3
<1>7. CASE l > j
  <2>1. PICK d \in Nat : l = j + 1 + d
    <3>1. l - j - 1 \in Nat /\ l = j + 1 + (l - j - 1)
      BY <1>7
    <3> QED BY <3>1
  <2>2. Chunk * (w + l * P) = i + Chunk * P + Chunk * d * P
    BY <1>1, <1>2, <2>1 DEF P, w
  <2>3. Chunk * d * P \in Nat
    <3>1. Chunk * d \in Nat
      BY <1>1
    <3> QED BY <1>1, <3>1
  <2> QED BY <1>1, <1>3, <1>4, <1>5, <2>2, <2>3
<1> QED BY <1>6, <1>7

\* In its first turn no warp is past an operation.
LEMMA FirstTurn ==
  ASSUME GridCovers, NEW k \in DOMAIN Kernels, NEW e \in 0 .. LenOf(k) - 1
  PROVE  Owner(k, e) \in Warps(k) /\ ~(e < FirstAt(Owner(k, e)))
<1> DEFINE a == Owner(k, e)
<1>1. e \in Nat /\ a \in Warps(k) /\ a \in Nat /\ Chunk \in Nat \ {0}
  BY GridIsPositive, GridFits, OwnerForm
<1>2. PICK j \in Nat, o \in 0 .. Chunk - 1 : e = Chunk * (a + j * NumWarps(k)) + o
  BY <1>1, OwnerForm
<1> DEFINE b == j * NumWarps(k)
<1>3. b \in Nat
  BY GridIsPositive
<1> HIDE DEF a, b
<1>4. Chunk * (a + b) = Chunk * a + Chunk * b /\ Chunk * a \in Nat /\ Chunk * b \in Nat
  BY <1>1, <1>3
<1>5. e = Chunk * a + Chunk * b + o
  BY <1>1, <1>2, <1>3, <1>4 DEF b
<1>6. ~(e < Chunk * a)
  BY <1>1, <1>4, <1>5
<1> QED BY <1>1, <1>6 DEF a, FirstAt

\* Every warp starts at its first turn.
LEMMA FirstTurnIsTurn ==
  ASSUME NEW k \in DOMAIN Kernels, NEW w \in Warps(k)
  PROVE  \E j \in Nat : FirstAt(w) = Chunk * (w + j * NumWarps(k))
<1>1. w + 0 * NumWarps(k) = w
  BY GridIsPositive
<1> QED BY <1>1 DEF FirstAt

LEMMA OnceInit ==
  ASSUME GridCovers, Init
  PROVE  OnceInv
<1>1. kernel = 1 /\ 1 \in DOMAIN Kernels /\ TokenTypeOK
  BY OrderInit, TokenAssumption DEF Init, OrderInv
<1>2. /\ pc = [w \in Warps(kernel) |-> "queued"]
      /\ at = [w \in Warps(kernel) |-> FirstAt(w)]
      /\ off = [w \in Warps(kernel) |-> 0]
      /\ times = [e \in 0 .. LenOf(kernel) - 1 |-> 0]
  BY <1>1 DEF Init, Started
<1>3. AtTurn
  BY <1>1, <1>2, FirstTurnIsTurn DEF AtTurn
<1>4. OwnersDo
  <2> SUFFICES ASSUME NEW e \in 0 .. LenOf(kernel) - 1
               PROVE  ~(e < at[Owner(kernel, e)] + off[Owner(kernel, e)])
    BY <1>2 DEF OwnersDo
  <2>1. Owner(kernel, e) \in Warps(kernel) /\ ~(e < FirstAt(Owner(kernel, e)))
    BY <1>1, FirstTurn
  <2>2. FirstAt(Owner(kernel, e)) \in Nat
    BY <1>1, <1>2, <2>1 DEF TokenTypeOK
  <2> QED BY <1>2, <2>1, <2>2
<1> QED BY <1>1, <1>3, <1>4 DEF OnceInv

LEMMA NextKernelOnce ==
  ASSUME GridCovers, OnceInv, TokenTypeOK', NextKernel
  PROVE  OnceInv'
<1>1. kernel' \in DOMAIN Kernels
  BY DEF TokenTypeOK
<1>2. /\ pc' = [w \in Warps(kernel') |-> "queued"]
      /\ at' = [w \in Warps(kernel') |-> FirstAt(w)]
      /\ off' = [w \in Warps(kernel') |-> 0]
      /\ times' = [e \in 0 .. LenOf(kernel') - 1 |-> 0]
  BY DEF NextKernel, Started
<1>3. AtTurn'
  BY <1>1, <1>2, FirstTurnIsTurn DEF AtTurn
<1>4. OwnersDo'
  <2> SUFFICES ASSUME NEW e \in 0 .. LenOf(kernel') - 1
               PROVE  ~(e < at'[Owner(kernel', e)] + off'[Owner(kernel', e)])
    BY <1>2 DEF OwnersDo
  <2>1. Owner(kernel', e) \in Warps(kernel') /\ ~(e < FirstAt(Owner(kernel', e)))
    BY <1>1, FirstTurn
  <2>2. FirstAt(Owner(kernel', e)) \in Nat
    BY <1>2, <2>1 DEF TokenTypeOK
  <2> QED BY <1>2, <2>1, <2>2
<1> QED BY <1>3, <1>4 DEF OnceInv

LEMMA DispatchOnce ==
  ASSUME OnceInv, TokenTypeOK', Dispatch
  PROVE  OnceInv'
<1> USE DEF OnceInv
<1>1. /\ UNCHANGED <<kernel, at, off, times>>
      /\ pc' = [w \in Warps(kernel) |-> IF BlockOf(w) = dispatched
                                          THEN LoopHead(kernel, at[w]) ELSE pc[w]]
  BY DEF Dispatch
<1>2. OwnersDo'
  BY <1>1 DEF OwnersDo
<1>3. ASSUME NEW w \in Warps(kernel)
      PROVE  /\ \E j \in Nat : at[w] = Chunk * (w + j * NumWarps(kernel))
             /\ pc'[w] \in {"spin", "work"} => at[w] < LenOf(kernel)
             /\ pc'[w] = "done" => at[w] >= LenOf(kernel)
             /\ pc'[w] # "work" => off[w] = 0
             /\ pc'[w] # "queued" => BlockOf(w) < dispatched'
  <2>1. at[w] \in Nat /\ LenOf(kernel) \in Nat /\ dispatched \in Nat
        /\ BlockOf(w) \in Nat /\ dispatched' = dispatched + 1
    BY GridIsPositive, DivisionExists, TokenAssumption
       DEF TokenTypeOK, BlockOf, Dispatch
  <2>2. CASE BlockOf(w) = dispatched
    <3>1. pc[w] = "queued" /\ pc'[w] = LoopHead(kernel, at[w])
      BY <1>1, <2>1, <2>2 DEF AtTurn
    <3> QED BY <2>1, <2>2, <3>1 DEF AtTurn, LoopHead
  <2>3. CASE BlockOf(w) # dispatched
    BY <1>1, <2>1, <2>3 DEF AtTurn
  <2> QED BY <2>2, <2>3
<1>4. AtTurn'
  BY <1>1, <1>3 DEF AtTurn
<1> QED BY <1>2, <1>4

\* The warp executes the operation it is at: it is the owner's, and it was not
\* executed before.
LEMMA ExecuteOnce ==
  ASSUME GridCovers, OnceInv, NEW w \in Warps(kernel), Execute(w)
  PROVE  OwnersDo'
<1> USE DEF OnceInv
<1> DEFINE here == at[w] + off[w]
<1>1. /\ UNCHANGED <<kernel, at>>
      /\ pc[w] = "work" /\ off[w] < Chunk
      /\ off' = [off EXCEPT ![w] = off[w] + 1]
      /\ times' = [e \in DOMAIN times |-> IF e = here THEN times[e] + 1 ELSE times[e]]
  BY DEF Execute
<1>2. /\ kernel \in DOMAIN Kernels /\ w \in Nat /\ at[w] \in Nat /\ off[w] \in Nat
      /\ NumWarps(kernel) \in Nat \ {0} /\ Chunk \in Nat \ {0}
      /\ LenOf(kernel) \in Nat
  BY GridIsPositive DEF TokenTypeOK
<1>3. PICK j \in Nat : at[w] = Chunk * (w + j * NumWarps(kernel))
  BY DEF AtTurn
<1>4. w \in 0 .. NumWarps(kernel) - 1
  <2>1. at[w] < LenOf(kernel)
    BY <1>1 DEF AtTurn
  <2>2. at[w] >= FirstAt(w)
    <3> DEFINE b == j * NumWarps(kernel)
    <3>1. b \in Nat
      BY <1>2
    <3>2. at[w] = Chunk * (w + b)
      BY <1>3
    <3> HIDE DEF b
    <3>3. Chunk * (w + b) = Chunk * w + Chunk * b /\ Chunk * w \in Nat /\ Chunk * b \in Nat
      BY <1>2, <3>1
    <3> QED BY <3>2, <3>3 DEF FirstAt
  <2>3. FirstAt(w) \in Nat
    BY <1>2 DEF FirstAt
  <2>4. ~(w >= NumWarps(kernel))
    BY <1>2, <2>1, <2>2, <2>3, GridFits
  <2> QED BY <1>2, <2>4
<1>5. Owner(kernel, here) = w
  BY <1>1, <1>2, <1>3, <1>4, OwnerIs
<1> SUFFICES ASSUME NEW e \in DOMAIN times
             PROVE  times'[e] = IF e < at[Owner(kernel, e)] + off'[Owner(kernel, e)]
                                THEN 1 ELSE 0
  BY <1>1 DEF OwnersDo
<1> DEFINE v == Owner(kernel, e)
<1>6. e \in Nat /\ v \in Warps(kernel)
  <2>1. e \in Nat
    BY DEF OwnersDo
  <2> QED BY <1>2, <2>1, OwnerForm, GridFits
<1>7. times[e] = IF e < at[v] + off[v] THEN 1 ELSE 0
  BY DEF OwnersDo
<1>8. CASE v = w
  <2>1. off'[v] = off[w] + 1
    BY <1>1, <1>8 DEF TokenTypeOK
  <2> HIDE DEF v
  <2>2. e < at[w] + (off[w] + 1) <=> e < here \/ e = here
    BY <1>2, <1>6
  <2>3. ~(here < here)
    BY <1>2
  <2>4. times'[e] = IF e = here THEN times[e] + 1 ELSE times[e]
    BY <1>1
  <2> HIDE DEF here
  <2> QED BY <1>7, <1>8, <2>1, <2>2, <2>3, <2>4 DEF here, v
<1>9. CASE v # w
  <2>1. off'[v] = off[v] /\ e # here
    BY <1>1, <1>5, <1>6, <1>9 DEF TokenTypeOK
  <2> QED BY <1>1, <1>7, <2>1
<1> QED BY <1>8, <1>9

\* At the end of a chunk the warp moves over operations that are not its own.
LEMMA EndOfChunkOnce ==
  ASSUME GridCovers, OnceInv, NEW w \in Warps(kernel), EndOfChunk(w)
  PROVE  OwnersDo'
<1> USE DEF OnceInv
<1>1. /\ UNCHANGED <<kernel, times>>
      /\ off[w] = Chunk
      /\ off' = [off EXCEPT ![w] = 0]
      /\ at' = [at EXCEPT ![w] = NextAt(kernel, at[w])]
  BY DEF EndOfChunk
<1>2. kernel \in DOMAIN Kernels /\ at[w] \in Nat /\ NextAt(kernel, at[w]) \in Nat
  BY NextAtIsNumber DEF TokenTypeOK
<1>3. PICK j \in Nat : at[w] = Chunk * (w + j * NumWarps(kernel))
  BY DEF AtTurn
<1> SUFFICES ASSUME NEW e \in DOMAIN times
             PROVE  times[e] = IF e < at'[Owner(kernel, e)] + off'[Owner(kernel, e)]
                               THEN 1 ELSE 0
  BY <1>1 DEF OwnersDo
<1> DEFINE v == Owner(kernel, e)
<1>4. times[e] = IF e < at[v] + off[v] THEN 1 ELSE 0
  BY DEF OwnersDo
<1>5. e \in Nat /\ v \in Warps(kernel)
  <2>1. e \in Nat
    BY <1>2, GridIsPositive DEF OwnersDo
  <2> QED BY <1>2, <2>1, OwnerForm, GridFits
<1>6. CASE v = w
  <2>1. e < at[w] + Chunk <=> e < NextAt(kernel, at[w])
    BY <1>2, <1>3, <1>5, <1>6, TurnsApart
  <2>2. at'[v] = NextAt(kernel, at[w]) /\ off'[v] = 0
    BY <1>1, <1>6 DEF TokenTypeOK
  <2>3. at'[v] + off'[v] = NextAt(kernel, at[w])
    BY <1>2, <2>2
  <2> QED BY <1>1, <1>4, <1>6, <2>1, <2>3
<1>7. CASE v # w
  BY <1>1, <1>4, <1>7 DEF TokenTypeOK
<1> QED BY <1>6, <1>7

LEMMA WarpStepOnce ==
  ASSUME GridCovers, OnceInv, TokenTypeOK', NEW w \in Warps(kernel), WarpStep(w)
  PROVE  OnceInv'
<1> USE DEF OnceInv
<1>1. CASE Spin(w)
  <2>1. /\ UNCHANGED <<kernel, dispatched, at, off, times>>
        /\ pc[w] = "spin"
        /\ pc' = pc \/ pc' = [pc EXCEPT ![w] = "work"]
    BY <1>1 DEF Spin
  <2>2. AtTurn'
    BY <2>1 DEF AtTurn, TokenTypeOK
  <2>3. OwnersDo'
    BY <2>1 DEF OwnersDo
  <2> QED BY <2>2, <2>3
<1>2. CASE Execute(w)
  <2>1. /\ UNCHANGED <<kernel, dispatched, pc, at>>
        /\ pc[w] = "work"
        /\ \A v \in Warps(kernel) : v # w => off'[v] = off[v]
    BY <1>2 DEF Execute, TokenTypeOK
  <2>2. AtTurn'
    BY <2>1 DEF AtTurn
  <2> QED BY <1>2, <2>2, ExecuteOnce
<1>3. CASE EndOfChunk(w)
  <2>1. /\ UNCHANGED <<kernel, dispatched>>
        /\ pc[w] = "work"
        /\ off' = [off EXCEPT ![w] = 0]
        /\ at' = [at EXCEPT ![w] = NextAt(kernel, at[w])]
        /\ pc' = [pc EXCEPT ![w] = LoopHead(kernel, at'[w])]
    BY <1>3 DEF EndOfChunk
  <2>2. kernel \in DOMAIN Kernels /\ at[w] \in Nat /\ NextAt(kernel, at[w]) \in Nat
        /\ LenOf(kernel) \in Nat
    BY NextAtIsNumber, GridIsPositive DEF TokenTypeOK
  <2>3. \E j \in Nat : NextAt(kernel, at[w]) = Chunk * (w + j * NumWarps(kernel))
    <3>1. PICK j \in Nat : at[w] = Chunk * (w + j * NumWarps(kernel))
      BY DEF AtTurn
    <3> DEFINE P == NumWarps(kernel)
    <3>2. P \in Nat /\ Chunk \in Nat /\ w \in Nat
      BY <2>2, GridIsPositive
    <3>3. at[w] = Chunk * (w + j * P) /\ NextAt(kernel, at[w]) = at[w] + Chunk * P
      BY <3>1 DEF NextAt
    <3> HIDE DEF P
    <3>4. NextAt(kernel, at[w]) = Chunk * (w + (j + 1) * P)
      <4>1. (j + 1) * P = j * P + P /\ j * P \in Nat
        BY <3>2
      <4>2. ASSUME NEW b \in Nat
            PROVE  Chunk * (w + b) + Chunk * P = Chunk * (w + (b + P))
        BY <3>2
      <4> QED BY <3>3, <4>1, <4>2
    <3> QED BY <3>4 DEF P
  <2>4. AtTurn'
    <3> SUFFICES ASSUME NEW v \in Warps(kernel)
                 PROVE  /\ \E j \in Nat : at'[v] = Chunk * (v + j * NumWarps(kernel))
                        /\ pc'[v] \in {"spin", "work"} => at'[v] < LenOf(kernel)
                        /\ pc'[v] = "done" => at'[v] >= LenOf(kernel)
                        /\ pc'[v] # "work" => off'[v] = 0
                        /\ pc'[v] # "queued" => BlockOf(v) < dispatched
      BY <2>1 DEF AtTurn
    <3>1. CASE v = w
      <4>1. /\ at'[v] = NextAt(kernel, at[w]) /\ off'[v] = 0
            /\ pc'[v] = LoopHead(kernel, NextAt(kernel, at[w]))
            /\ BlockOf(v) < dispatched
        BY <2>1, <3>1 DEF TokenTypeOK, AtTurn
      <4> QED BY <2>2, <2>3, <3>1, <4>1 DEF LoopHead
    <3>2. CASE v # w
      <4>1. at'[v] = at[v] /\ off'[v] = off[v] /\ pc'[v] = pc[v]
        BY <2>1, <3>2 DEF TokenTypeOK
      <4> QED BY <4>1 DEF AtTurn
    <3> QED BY <3>1, <3>2
  <2> QED BY <1>3, <2>4, EndOfChunkOnce
<1> QED BY <1>1, <1>2, <1>3 DEF WarpStep

LEMMA OncePreserved ==
  ASSUME GridCovers
  PROVE  OnceInv /\ OrderInv' /\ [Next]_vars => OnceInv'
<1> SUFFICES ASSUME OnceInv, OrderInv', [Next]_vars PROVE OnceInv'
  OBVIOUS
<1>1. TokenTypeOK'
  BY DEF OrderInv
<1>2. CASE Finished \/ UNCHANGED vars
  <2>1. UNCHANGED vars
    BY <1>2 DEF Finished
  <2>2. AtTurn'
    BY <2>1 DEF vars, OnceInv, AtTurn
  <2>3. OwnersDo'
    BY <2>1 DEF vars, OnceInv, OwnersDo
  <2> QED BY <1>1, <2>2, <2>3 DEF OnceInv
<1> QED BY <1>1, <1>2, NextKernelOnce, DispatchOnce, WarpStepOnce DEF Next

\* KEY_CHECK's premise: whatever the grid, the chunks and the batches, no operation
\* is executed twice, and when a kernel ends none is left out, as long as
\* the grid covers the batch (GridCovers: with fewer warps in a block, or
\* divided deletes in a build that does not spin, a delete runs twice).
THEOREM OperationsRunOnce ==
  ASSUME GridCovers
  PROVE  Spec => []EachOnce
<1>1. OnceInv => EachOnce
  <2> SUFFICES ASSUME OnceInv, NEW e \in DOMAIN times
               PROVE  times[e] <= 1 /\ (KernelDone => times[e] = 1)
    BY DEF EachOnce
  <2> DEFINE v == Owner(kernel, e)
  <2>1. times[e] = IF e < at[v] + off[v] THEN 1 ELSE 0
    BY DEF OnceInv, OwnersDo
  <2>2. e \in Nat /\ e < LenOf(kernel) /\ v \in Warps(kernel) /\ LenOf(kernel) \in Nat
    <3>1. kernel \in DOMAIN Kernels /\ e \in 0 .. LenOf(kernel) - 1
      BY DEF OnceInv, OwnersDo, TokenTypeOK
    <3>2. LenOf(kernel) \in Nat /\ e \in Nat
      BY <3>1, GridIsPositive
    <3> QED BY <3>1, <3>2, OwnerForm, GridFits
  <2>3. KernelDone => at[v] >= LenOf(kernel) /\ at[v] \in Nat /\ off[v] \in Nat
    BY <2>2, GridIsPositive DEF KernelDone, OnceInv, AtTurn, TokenTypeOK
  <2> HIDE DEF v
  <2>4. KernelDone => e < at[v] + off[v]
    BY <2>2, <2>3
  <2> QED BY <2>1, <2>4
<1>2. Init => OnceInv
  BY OnceInit
<1>3. OnceInv /\ OrderInv' /\ [Next]_vars => OnceInv'
  BY OncePreserved
<1> QED BY <1>1, <1>2, <1>3, OrderInvariant, PTL DEF Spec
=============================================================================
