------------------------- MODULE MCApplicationSetup -------------------------
(* Two images of one vendor, one of another, one whose signature does not  *)
(* verify and one without annotations.                                      *)
EXTENDS ApplicationSetup, TLC

CONSTANTS v1, v2, v3, v4, v5, n1, n2

MCVersions == {v1, v2, v3, v4, v5}
MCAnnotated == {v1, v2, v3, v4}
MCSigned == {v1, v2, v3}
MCVendorData == [v \in MCVersions |-> IF v = v3 THEN <<"vendor2", "signature2">> ELSE <<"vendor1", "signature1">>]

(* The two images of one vendor can be exchanged, and so can the names. *)
Symmetry == Permutations({v1, v2}) \cup Permutations({n1, n2})
=============================================================================
