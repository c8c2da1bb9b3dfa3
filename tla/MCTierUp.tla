------------------------------ MODULE MCTierUp ------------------------------
(* Small instances of TierUp: loops within one page; a loop that spans the *)
(* pages of two entries; code that a rewrite turns into, or from, a loop.  *)
EXTENDS TierUp, TLC

VcpuSymmetry == Permutations(Vcpus)

OwnPage == [k \in Keys |-> {k}]
AllPages == [k \in Keys |-> Keys]
IsLoop == [k \in Keys |-> [n \in 0 .. MaxWrites |-> TRUE]]
NoLoop == [k \in Keys |-> [n \in 0 .. MaxWrites |-> FALSE]]
LoopUntilWritten == [k \in Keys |-> [n \in 0 .. MaxWrites |-> n = 0]]
=============================================================================
