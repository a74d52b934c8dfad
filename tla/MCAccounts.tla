----------------------------- MODULE MCAccounts -----------------------------
(* An instance of Accounts small enough for TLC. *)
EXTENDS Accounts, TLC

MCSymmetry == Permutations(Ids) \cup Permutations(Names)
                \cup Permutations(RideIds) \cup Permutations(Threads)
=============================================================================
