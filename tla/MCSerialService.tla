-------------------------- MODULE MCSerialService --------------------------
(* An instance of SerialService small enough for TLC. *)
EXTENDS SerialService, TLC

CONSTANTS t1, p1

OneProcess == [t \in Threads |-> p1]

MCSymmetry == Permutations(Riders) \cup Permutations(Drivers)
                \cup Permutations(RideIds)
=============================================================================
