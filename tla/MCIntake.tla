------------------------------ MODULE MCIntake ------------------------------
(* An instance of Intake small enough for TLC: two cells, a box that spans *)
(* them, and ticks of thirty seconds.                                      *)
EXTENDS Intake

CONSTANTS p1, p2

MCCellOf == [p \in Places |-> p]
MCBox == [p \in Places |-> Places]
=============================================================================
