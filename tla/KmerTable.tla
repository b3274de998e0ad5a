------------------------------ MODULE KmerTable ------------------------------
(***************************************************************************)
(* The k-mer counter (kmer_counting.cu on gpu_impl_UVM_CG_kmer.cuh): the   *)
(* insertion protocol on one table, but the value of a key is a count that *)
(* every insert of the key adds one to with an atomicAdd.  A k-mer is      *)
(* packed two bits a base, 'A' and every unknown character as 0, so unlike *)
(* the drivers of the hash tables this one can insert the key 0, which is  *)
(* also the word of a free slot.                                           *)
(***************************************************************************)
EXTENDS GroupInsert, FiniteSets, Functions

CONSTANT MaxKmers  \* bound: k-mers of the genome, num_kmers

\* The table is sized num_kmers / 0.9 or more; a packed k-mer is a word of 32 bits.
\* The stride is 32 and the groups have 16 lanes, as no build of the counter defines
\* CG; the capacity is a prime, so odd or within one window.
ASSUME KmerAssumption ==
  /\ IsFiniteSet(Keys)
  /\ \/ Stride <= GroupSize
     \/ Capacity <= GroupSize
     \/ \A d \in 2 .. Stride : Stride % d # 0 \/ Capacity % d # 0
  /\ Tables = {0}
  /\ MaxKmers \in Nat
  /\ MaxKmers <= Capacity

VARIABLE genome  \* history: genome[k], how often k was in the batches so far

vars == <<insertVars, genome>>

\* The kvpairs of a k-mer batch carry the value 0, which no kernel reads.
Kmer(k) == [key |-> k, value |-> Sentinel]

Init ==
  /\ keyAt = [t \in Tables |-> [s \in Slots |-> Sentinel]]
  /\ valAt = keyAt
  /\ oldKeyAt = keyAt
  /\ pc = [g \in Groups |-> "idle"]
  /\ op = [g \in Groups |-> Kmer(Sentinel)]
  /\ win = [g \in Groups |-> 0]
  /\ emptyMask = [g \in Groups |-> {}]
  /\ addr = [g \in Groups |-> 0]
  /\ genome = [k \in Keys |-> 0]

Quiet == \A g \in Groups : pc[g] = "idle"

\* The k-mers that the batches so far had, all keys together.
KmersSoFar == SumFunction(genome)

\* The next batch of the genome, when the kernel of the last one is over.
Launch ==
  /\ Quiet
  /\ \E n \in Groups :
       /\ KmersSoFar + n <= MaxKmers
       /\ \E batch \in [1 .. n -> Keys] :
            /\ op' = [g \in Groups |-> IF g <= n THEN Kmer(batch[g]) ELSE op[g]]
            /\ pc' = [g \in Groups |-> IF g <= n THEN "probe" ELSE "idle"]
            /\ genome' = [k \in Keys |-> genome[k] +
                            Cardinality({g \in 1 .. n : batch[g] = k})]
  /\ win' = [g \in Groups |-> 0]
  /\ oldKeyAt' = keyAt
  /\ UNCHANGED <<keyAt, valAt, emptyMask, addr>>

InsertBallot(g) == Ballot(g, "idle") /\ UNCHANGED genome

\* Mutant of InsertClaim: the group that claims the slot does not go on to add.
InsertClaimOnly(g) == Claim(g, "idle", "idle") /\ UNCHANGED genome

InsertClaim(g) == Claim(g, "store", "idle") /\ UNCHANGED genome

\* Mutants of AddOne: the count is set, and the key is added.
SetOne(g) ==
  /\ pc[g] = "store"
  /\ valAt' = [valAt EXCEPT ![0][addr[g]] = 1]
  /\ GoTo(g, "idle")
  /\ UNCHANGED <<keyAt, oldKeyAt, op, win, emptyMask, addr, genome>>

AddKey(g) ==
  /\ pc[g] = "store"
  /\ valAt' = [valAt EXCEPT ![0][addr[g]] = @ + op[g].key]
  /\ GoTo(g, "idle")
  /\ UNCHANGED <<keyAt, oldKeyAt, op, win, emptyMask, addr, genome>>

\* Rank 0 adds one to the value word of the key, atomically.
AddOne(g) ==
  /\ pc[g] = "store"
  /\ valAt' = [valAt EXCEPT ![0][addr[g]] = @ + 1]
  /\ GoTo(g, "idle")
  /\ UNCHANGED <<keyAt, oldKeyAt, op, win, emptyMask, addr, genome>>

GroupStep(g) == InsertBallot(g) \/ InsertClaim(g) \/ AddOne(g)

\* The genome is through.
Finished == Quiet /\ KmersSoFar > 0 /\ UNCHANGED vars

Next ==
  \/ Launch
  \/ Finished
  \/ \E g \in Groups : GroupStep(g)

Spec == Init /\ [][Next]_vars

-----------------------------------------------------------------------------
(***************************************************************************)
(* Words, registers and counts stay in their domains: no count exceeds the *)
(* k-mers of the genome.                                                   *)
(***************************************************************************)
TypeOK ==
  /\ keyAt \in [Tables -> [Slots -> KeyWords]]
  /\ valAt \in [Tables -> [Slots -> 0 .. MaxKmers]]
  /\ oldKeyAt \in [Tables -> [Slots -> KeyWords]]
  /\ pc \in [Groups -> {"idle", "probe", "claim", "store"}]
  /\ op \in [Groups -> {Kmer(k) : k \in Keys \cup {Sentinel}}]
  /\ win \in [Groups -> 0 .. NumWindows]
  /\ emptyMask \in [Groups -> SUBSET Lanes]
  /\ addr \in [Groups -> Slots]
  /\ genome \in [Keys -> 0 .. MaxKmers]

\* The slots that hold a key, and the groups still to count one of it.
SlotsOf(k) == {s \in Slots : keyAt[0][s] = k}
StillToCount(k) == {g \in Groups : pc[g] # "idle" /\ op[g].key = k}

\* How often the genome so far has the k-mer 0, whose adds land on a slot that
\* was free when its group looked.
PolyA == IF Sentinel \in Keys THEN genome[Sentinel] ELSE 0

(***************************************************************************)
(* A k-mer's own occurrences all get to its slot, be it that groups race   *)
(* to insert it or that some of them find it: its count is that of its     *)
(* occurrences less those whose group is still on its way, and too high by *)
(* no more than the poly-A k-mers.                                         *)
(***************************************************************************)
CountsAreExact ==
  \A k \in Keys \ {Sentinel} :
    LET pending == Cardinality(StillToCount(k))
    IN  IF SlotsOf(k) = {} THEN genome[k] = pending
        ELSE \A s \in SlotsOf(k) :
               valAt[0][s] + pending \in genome[k] .. genome[k] + PolyA

(***************************************************************************)
(* Every k-mer adds one somewhere: all counts together, those of free      *)
(* slots too, are the k-mers whose groups are through.  A poly-A k-mer is  *)
(* not lost but counted for whoever has, or will have, the slot.           *)
(***************************************************************************)
EveryKmerAddsOne ==
  SumFunction(valAt[0]) + Cardinality({g \in Groups : pc[g] # "idle"}) = KmersSoFar
=============================================================================
