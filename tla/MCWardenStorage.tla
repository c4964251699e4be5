---------------------------- MODULE MCWardenStorage ----------------------------
(* WardenStorage for TLC: two realms, one with two applications.            *)
EXTENDS WardenStorage

CONSTANTS r1, r2, a1, a2

MCHome == [a \in {a1, a2} |-> r1]
===============================================================================
