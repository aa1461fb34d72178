------------------------------- MODULE Rollout -------------------------------
(***************************************************************************)
(* What an engine's updater promises of the directory it works in: the     *)
(* stable name only ever runs a version that is installed whole, and what  *)
(* it runs is taken away only while the same version is being replaced.    *)
(* Update implements this specification.                                   *)
(***************************************************************************)
EXTENDS Integers

CONSTANT Versions

VARIABLES
  phase,      \* "quiet", "installing" or "settling"
  installed,  \* the versions present whole under their own name
  served,     \* what the stable name runs: nothing, its own file, or a version
  careful     \* whether the retirement of old versions minds what is served

vars == <<phase, installed, served, careful>>

Nothing == [is |-> "nothing", of |-> 0]
Link(v) == [is |-> "link", of |-> v]
File(v) == [is |-> "file", of |-> v]
Names   == {Nothing} \cup {Link(v) : v \in Versions} \cup {File(v) : v \in Versions}

\* What is served once v is gone from under its name.
Without(v) == IF served = Link(v) THEN Nothing ELSE served

Init ==
  /\ phase = "quiet"
  /\ installed \in SUBSET Versions
  /\ served \in {Nothing} \cup {Link(v) : v \in installed} \cup {File(v) : v \in Versions}
  /\ careful \in BOOLEAN

Begin ==
  /\ phase = "quiet" /\ phase' = "installing"
  /\ UNCHANGED <<installed, served, careful>>

\* An installed version is taken aside for its own replacement.
Withdraw(v) ==
  /\ phase = "installing"
  /\ installed' = installed \ {v} /\ served' = Without(v)
  /\ UNCHANGED <<phase, careful>>

\* The new version lands whole, and a link that was waiting for it runs again.
Land(v) ==
  /\ phase = "installing" /\ phase' = "settling"
  /\ installed' = installed \cup {v}
  /\ served' \in {served} \cup (IF served = Nothing THEN {Link(v)} ELSE {})
  /\ UNCHANGED careful

\* The stable name is removed before it is made again.
Blink ==
  /\ phase = "settling" /\ served' = Nothing
  /\ UNCHANGED <<phase, installed, careful>>

\* By the updater while it settles, by the operator while all is quiet.
Move(v) ==
  /\ phase \in {"quiet", "settling"}
  /\ v \in installed /\ served' = Link(v)
  /\ phase' \in {phase, "quiet"}
  /\ UNCHANGED <<installed, careful>>

Retire(v) ==
  /\ phase = "settling"
  /\ careful => served # Link(v)
  /\ installed' = installed \ {v} /\ served' = Without(v)
  /\ UNCHANGED <<phase, careful>>

End == phase' = "quiet" /\ UNCHANGED <<installed, served, careful>>

Next ==
  \/ Begin \/ Blink \/ End
  \/ \E v \in Versions : Withdraw(v) \/ Land(v) \/ Move(v) \/ Retire(v)

Spec == Init /\ [][Next]_vars
=============================================================================
