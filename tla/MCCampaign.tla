----------------------------- MODULE MCCampaign -----------------------------
(***************************************************************************)
(* Launches for Campaign: two packers, each running once.  The second      *)
(* meets what the first left, a crash and its orphan server included.      *)
(***************************************************************************)
EXTENDS Campaign

CONSTANTS p1, p2

TwoProcs == {p1, p2}
=============================================================================
