------------------------------ MODULE MCRelay ------------------------------
(* Instances of Relay for TLC. *)
EXTENDS Relay, TLC

CONSTANTS a1, a2, a3, d1, k1, k2

SameDevice == [a \in Agents |-> d1]
ToD1 == [k \in Calls |-> d1]
Writes == [k \in Calls |-> "file_write"]
Reads == [k \in Calls |-> "file_read"]
ConnsUpTo1 == 1 .. 1
ConnsUpTo2 == 1 .. 2
ConnsUpTo3 == 1 .. 3
ConnsUpTo4 == 1 .. 4
AnySize == Calls \X {"request", "response"}
CallSymmetry == Permutations(Calls)
=============================================================================
