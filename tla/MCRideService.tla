--------------------------- MODULE MCRideService ---------------------------
(* Instances of RideService small enough for TLC. *)
EXTENDS RideService, TLC

CONSTANTS t1, t2, t3, p1

OneProcess == [t \in Threads |-> p1]

MCSymmetry == Permutations(Riders) \cup Permutations(Drivers)
                \cup Permutations(RideIds) \cup Permutations(Threads)
=============================================================================
