----------------------------- MODULE MCDerived -----------------------------
(***************************************************************************)
(* One sidecar for Derived: two cache types, two flag strings and one      *)
(* replacement of the weights, over any number of launches.                *)
(***************************************************************************)
EXTENDS Derived

TwoTypes  == {"q8_0", "f16"}
TwoShapes == {"-ub 512", "-ub 2048"}
=============================================================================
