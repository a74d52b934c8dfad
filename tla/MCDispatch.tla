----------------------------- MODULE MCDispatch -----------------------------
(* Instances of Dispatch small enough for TLC. *)
EXTENDS Dispatch, TLC

MCSymmetry == Permutations(Drivers) \cup Permutations(RideIds)
                \cup Permutations(Workers)
=============================================================================
