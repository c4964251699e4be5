----------------------------- MODULE MCNatManager -----------------------------
(* NatManager for TLC: three realms, two of them with the same tap device,  *)
(* as with the command line client's default, and interchangeable.          *)
EXTENDS NatManager, TLC

CONSTANTS r1, r2, r3, tap100, tap101

MCTapDevice == [r \in {r1, r2, r3} |-> IF r = r3 THEN tap101 ELSE tap100]
RealmSymmetry == Permutations({r1, r2})
===============================================================================
