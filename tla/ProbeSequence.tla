---------------------------- MODULE ProbeSequence ----------------------------
(***************************************************************************)
(* The probe sequence of the cooperative-group hash tables.  A group of    *)
(* GroupSize lanes looks at GroupSize consecutive slots at a time (a       *)
(* window) and moves on by the second hash, a constant: COOP_GROUP_SIZE    *)
(* for the two-level table, built with CG, and 32 for the flat table and   *)
(* the k-mer counter, whose groups are narrower in most builds.  The hash  *)
(* of a key is abstracted to its home slot.                                *)
(***************************************************************************)
EXTENDS Naturals

CONSTANTS
  Capacity,   \* slots of one table: getCapacity(rangeSize) or getCapacity(n)
  GroupSize,  \* COOP_GROUP_SIZE
  Stride      \* primeDH: smallerPrimeInner or smallerPrimeGPU

ASSUME ProbeAssumption ==
  /\ Capacity \in Nat \ {0}
  /\ GroupSize \in Nat \ {0}
  /\ Stride \in Nat \ {0}

Slots == 0 .. Capacity - 1
Lanes == 0 .. GroupSize - 1

\* The windows a lane that starts with pos = 0 goes through: the loop ends
\* when pos >= capacity / primeDH + 1, or when pos >= capacity if the stride
\* leaves out slots between two windows.
NumWindows == IF Stride <= GroupSize THEN (Capacity \div Stride) + 1
                                     ELSE Capacity
Windows == 0 .. NumWindows - 1

\* The slot lane r of a group looks at in its w-th window.
SlotAt(home, w, r) == (home + (w * Stride) + r) % Capacity

-----------------------------------------------------------------------------
(* Which lanes still take part in the ballots of each window. *)

\* A loop that starts with pos = 0: all lanes leave it together.
AllLanes == [w \in Windows |-> Lanes]

\* A loop that starts lane r with pos = r, as the inner delete and search of
\* the two-level table do: lane r leaves it r windows before lane 0 does.
EarlyLanes == [w \in Windows |-> {r \in Lanes : w = 0 \/ w + r < NumWindows}]

\* Inserts, and the deletes of the flat table.
InsertLanes == IF Stride > GroupSize THEN EarlyLanes ELSE AllLanes

\* Lookups in the flat table: with a stride wider than the group all lanes
\* start with pos = COOP_GROUP_SIZE and leave that many windows early.
LookupLanes ==
  [w \in Windows |->
     {r \in Lanes : Stride <= GroupSize \/ w = 0 \/ w + GroupSize < NumWindows}]

\* A ballot ends the scan of a window: some lane sees the key or a free slot.
Stops(cells, home, key, free, lanes, w) ==
  \E r \in lanes[w] : cells[SlotAt(home, w, r)] \in {key, free}

\* The window and lane at which a read-only scan finds the key: at most one
\* pair, none when the scan meets a free slot first or runs out of windows.
Hits(cells, home, key, free, lanes) ==
  {p \in Windows \X Lanes :
     LET w == p[1]
         r == p[2]
     IN  /\ r \in lanes[w]
         /\ cells[SlotAt(home, w, r)] = key
         /\ \A q \in lanes[w] : q < r => cells[SlotAt(home, w, q)] # key
         /\ \A v \in Windows :
              v < w => ~Stops(cells, home, key, free, lanes, v)}
=============================================================================
