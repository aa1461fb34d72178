------------------------------ MODULE MCPlanner ------------------------------
(***************************************************************************)
(* Fleets for Planner.  Contexts are counted in units of 1024 tokens and   *)
(* memory in units of 256 MiB, so the card of the runs holds 80 units for  *)
(* models, the emit floor is 4 and the rounding step 8.                    *)
(***************************************************************************)
EXTENDS Planner

Task(id, minCtx, minPar, require, keep, sacrifice) ==
  [id |-> id, minCtx |-> minCtx, minPar |-> minPar, require |-> require,
   keep |-> keep, sacrifice |-> sacrifice]

MCIds == {"coding", "aux", "look", "qa"}

MCCatalogue ==
  [id \in MCIds |->
     CASE id = "coding" -> Task(id, 16, 1, {}, {}, <<"vision", "draft">>)
       [] id = "aux"    -> Task(id, 8, 2, {}, {}, <<>>)
       [] id = "look"   -> Task(id, 8, 1, {"vision"}, {}, <<"draft">>)
       [] id = "qa"     -> Task(id, 0, 1, {}, {}, <<"draft">>)]

MCSets == {"rag", "ragz"}
MCShed == <<"vision", "draft">>

NoCost == [mem |-> 0, kv |-> 0, slot |-> 0]
Draft  == [mem |-> 6, kv |-> 1, slot |-> 0]

Plain == [base |-> 40, kv |-> 1, slot |-> 0, vision |-> 0, overlay |-> FALSE,
          mtp |-> FALSE, draft |-> NoCost, design |-> 32, ceiling |-> 0,
          floor |-> 0, pin |-> 0, image |-> 0, keepImage |-> FALSE,
          cpu |-> FALSE, habit |-> 16, measured |-> TRUE, claims |-> <<>>]

Claims == {<<"coding">>, <<"aux", "coding">>}

\* Text models over the whole range of sizes, floors and pins.
Texts ==
  {[Plain EXCEPT !.base = b, !.slot = s, !.floor = f, !.pin = p, !.claims = t] :
     b \in {20, 48, 62, 74}, s \in {0, 2}, f \in {0, 24}, p \in {0, 2},
     t \in Claims \cup {<<>>, <<"qa", "look">>}}

\* Models with a projector and, some of them, a draft.
Seers ==
  {[Plain EXCEPT !.base = b, !.vision = v, !.overlay = o, !.mtp = d # NoCost,
                 !.draft = d, !.pin = p, !.image = i, !.ceiling = c,
                 !.claims = t] :
     b \in {40, 58}, v \in {6, 20}, o \in BOOLEAN, d \in {NoCost, Draft},
     p \in {0, 1}, i \in {0, 10}, c \in {0, 12}, t \in Claims}
  \cup
  {[Plain EXCEPT !.base = 50, !.vision = v, !.overlay = TRUE, !.keepImage = TRUE,
                 !.image = i, !.claims = <<"look", "coding">>] :
     v \in {6, 14}, i \in {0, 10}}

\* Host-RAM models, and models no estimate source can measure.
Others ==
  {[Plain EXCEPT !.cpu = c, !.measured = m, !.base = b, !.floor = 24,
                 !.claims = t] :
     c \in BOOLEAN, m \in BOOLEAN, b \in {20, 62}, t \in {<<>>, <<"coding">>}}

Solo   == <<[par |-> 1, declared |-> FALSE, spare |-> 0]>>
Duo    == <<[par |-> 1, declared |-> TRUE, spare |-> 4],
            [par |-> 2, declared |-> TRUE, spare |-> 0]>>
Spared == <<[par |-> 1, declared |-> FALSE, spare |-> 12]>>

Roster(ms, gs, base, rag, ragz, target) ==
  [models |-> ms, groups |-> gs, base |-> base,
   overhead |-> [s \in MCSets |-> IF s = "rag" THEN rag ELSE ragz],
   target |-> target, pin |-> 0, auto |-> TRUE, spare |-> 0, host |-> 60]

Pinned(r, pin)   == [r EXCEPT !.pin = pin]
Spares(r, spare) == [r EXCEPT !.spare = spare]

WideRosters ==
  {Roster(<<m>>, Solo, 2, 4, 20, 0) : m \in Texts \cup Seers}
  \cup {Roster(<<m>>, Duo, 2, 4, 20, 0) : m \in {t \in Texts : t.pin = 0}}
  \cup {Spares(Roster(<<m>>, Spared, 0, 0, 8, 16), 8) : m \in Seers \cup Others}
  \cup {Pinned(Roster(<<m>>, Solo, 2, 4, 20, 0), pin) :
          m \in {t \in Texts : t.pin = 0}, pin \in {3, 12}}
  \cup {Roster(<<m, n>>, Solo, 2, 4, 20, 0) :
          m \in Others, n \in {o \in Others : o.measured}}

-----------------------------------------------------------------------------
(* One fleet per disagreement between the code and what it says of itself *)

One(m) == {Roster(<<m>>, Solo, 0, 0, 0, 0)}

\* A sidecar min_context below its category's.
FloorRosters == One([Plain EXCEPT !.base = 60, !.floor = 4, !.claims = <<"coding">>])

\* A projector without an mmproj block, which the category sheds.
ProjectorRosters ==
  One([Plain EXCEPT !.base = 50, !.vision = 14, !.claims = <<"coding">>])

\* A two-slot claim that joins a set heavier than the charge.
SetRosters ==
  {Roster(<<[Plain EXCEPT !.base = 46, !.claims = <<"aux", "coding">>]>>, Solo,
          0, 4, 26, 0)}

\* Images that need more than the operator's ceiling.
CeilingRosters ==
  One([Plain EXCEPT !.base = 50, !.vision = 6, !.overlay = TRUE,
                    !.image = 14, !.ceiling = 12])

\* A projector too large to keep, which the category may shed; the fallback may
\* only when the default order names it.
NamedRosters ==
  One([Plain EXCEPT !.base = 58, !.vision = 20, !.overlay = TRUE, !.claims = <<"coding">>])
NamedShed == <<"draft">>
=============================================================================
