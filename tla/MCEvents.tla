------------------------------ MODULE MCEvents ------------------------------
(* Two dispatches over two hooks; x is used up by its first call, and the *)
(* second dispatch filters out y.                                           *)
EXTENDS Events, TLC
CONSTANTS x, y, c1, c2
MCHeard == [c \in Call |-> IF c = c2 THEN Hook \ {y} ELSE Hook]
=============================================================================
