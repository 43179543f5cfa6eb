------------------------------ MODULE MCSnush ------------------------------
(* TLC instances of Snush. *)
EXTENDS Snush

CONSTANTS p1, p2, p3

TwoPids == {p1, p2}
ThreePids == {p1, p2, p3}
=============================================================================
