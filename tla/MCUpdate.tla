------------------------------- MODULE MCUpdate -------------------------------
(* Install directories small enough for TLC: enough releases of each kind    *)
(* for its pruner to have work, and one source build.                        *)
EXTENDS Update

ReleasesVal == [cpp |-> 1 .. 4, swap |-> 1 .. 3, bundle |-> 1 .. 3]
CppOnly     == [cpp |-> 1 .. 4]
BuildsVal   == {4}
=============================================================================
