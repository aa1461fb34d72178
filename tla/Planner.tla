------------------------------- MODULE Planner -------------------------------
(***************************************************************************)
(* Planner.plan() (llama_packer/writer.py): every chat model is solved     *)
(* once per profile group and per category it claims, then once more for   *)
(* the unnamed fallback entry.  Each solve is charged for the heaviest set *)
(* the model was probed into, its entry is judged for the sets it may      *)
(* join, and the last pass re-derives the memory of everything emitted.    *)
(*                                                                         *)
(* The inputs of one run (sidecars, profile groups, what the co-residents  *)
(* of each set cost, the matrix context) are a roster chosen in Init and   *)
(* never changed: one model checking run covers many fleets.               *)
(***************************************************************************)
EXTENDS Serving

CONSTANTS
  Ids,           \* task ids of profiles.yaml, without "fallback"
  Catalogue,     \* [Ids -> DemandRecord(Ids)], the declared tasks
  Sets,          \* names of the chat sets of the matrix section
  Rosters        \* the inputs a run may start from

\* A profile group: its slots, whether a profile of it declares them, and the
\* spare after the pool's override.
Group == [par : Nat \ {0}, declared : BOOLEAN, spare : Nat]

\* The sidecars and profile groups; `base' is extra_reserve_mb and `overhead'
\* what each set's residents cost; `target' the matrix chat context (0: no
\* matrix), `pin' the --max-context, `auto' the auto_parallel knob, `spare' the
\* fleet's spare and `host' the host pool left after its residents.
RosterRecord ==
  [models : Seq(ModelRecord(Ids)), groups : Seq(Group),
   base : Nat, overhead : [Sets -> Nat], target : Nat, pin : Nat,
   auto : BOOLEAN, spare : Nat, host : Nat]

ASSUME PlannerAssumption ==
  /\ "fallback" \notin Ids
  /\ Catalogue \in [Ids -> DemandRecord(Ids)]
  /\ \A id \in Ids : Catalogue[id].id = id
  /\ Rosters \subseteq RosterRecord

VARIABLES
  roster,     \* the inputs, frozen
  phase,      \* "group", "demands", "verify", "done" or "crashed"
  mi, gi, di, \* the model, the group and the demand being planned
  charge,     \* _coresident_charge of the current solve
  serves,     \* the servings resolved for the current group
  plan,       \* the variants of every finished group
  entries,    \* the indices of plan that are emitted
  admission   \* set_admission: the sets a category's entry may join

vars == <<roster, phase, mi, gi, di, charge, serves, plan, entries,
          admission>>

Model  == roster.models[mi]
Grp    == roster.groups[gi]
CatIds == Ids \cup {Fallback.id}

-----------------------------------------------------------------------------
(* What one model asks for *)

\* demands_for: a declared image size turns vision into a kept capability.
Claimed(m, id) ==
  [Catalogue[id] EXCEPT !.keep =
     IF m.keepImage /\ HasVision(m) THEN @ \cup {"vision"} ELSE @]

Order(m) ==
  [i \in 1 .. Len(m.claims) + 1 |->
     IF i <= Len(m.claims) THEN Claimed(m, m.claims[i]) ELSE Fallback]

Slots(m, g) == IF m.pin # 0 THEN m.pin ELSE g.par

AutoParallel(r, m, g) == r.auto /\ ~m.cpu /\ m.pin = 0 /\ ~g.declared

\* The spare of a solve: the group's, plus the co-residents charged to it.
Spare == Grp.spare + charge

\* cap_ctx: the architectural context under --max-context.
Cap(r, m) == AtMost(m.design, r.pin)

-----------------------------------------------------------------------------
(* Admission to the sets of the matrix *)

\* _probe_at_overhead: one sequence, every companion, the overhead alone.
Probe(r, m, s) ==
  BoundedCtx(m, TRUE, TRUE, 1, r.overhead[s], 0, r.pin)

\* The sets _coresident_charge charges for: some claim is met on one slot.
MetSets(r, m) ==
  {s \in Sets : /\ Probe(r, m, s) > 0
                /\ \E i \in DOMAIN m.claims :
                     LET d == Catalogue[m.claims[i]]
                     IN  Probe(r, m, s) >= d.minCtx /\ d.minPar <= 1}

ChargedSets(r, m) == IF MetSets(r, m) = {} THEN Sets ELSE MetSets(r, m)

\* Mutant of IsCharge: the fleet-wide reserve alone.
IsChargeFleetWide(c, r, m) == c = r.base

\* The base reserve, or the priciest charged set when that is more.
IsCharge(c, r, m) ==
  IF Sets = {} \/ m.claims = <<>> THEN c = r.base
  ELSE /\ c = r.base \/ \E s \in ChargedSets(r, m) : c = r.overhead[s]
       /\ c >= r.base
       /\ \A s \in ChargedSets(r, m) : c >= r.overhead[s]

\* _serves_beside: the context half against the probe, the slot half against
\* the serving just resolved.
ServesBeside(r, m, d, s, par) ==
  /\ Probe(r, m, s) > 0
  /\ Probe(r, m, s) >= d.minCtx
  /\ par >= d.minPar

\* record_admission
Admitted(r, m, d, par) ==
  IF d.id = Fallback.id THEN {} ELSE {s \in Sets : ServesBeside(r, m, d, s, par)}

-----------------------------------------------------------------------------
(* One solve *)

\* view_for: without an mmproj block both views are the model itself, so the
\* entry keeps its projector whatever the ladder shed.
Projector(m, shed) == HasVision(m) /\ ~("vision" \in shed /\ m.overlay)

Serving(d, vision, par, ctx) ==
  [demand |-> d, vision |-> vision, par |-> par, ctx |-> ctx]

Solved(m, shed, par) ==
  BoundedCtx(m, "vision" \notin shed, TRUE, par, Spare, roster.target, Cap(roster, m))

\* _auto_parallel's candidates for a rung, in the view the rung shed down to.
Candidates(m, d, shed) ==
  SlotCandidates(m, "vision" \notin shed, SearchFloor(m, d, roster.pin), Spare,
                 roster.target, Cap(roster, m), roster.pin)

\* Any serving auto-parallel may return: the best candidate, or what the
\* group's own slots afford when the floor is out of reach.
AutoServing(c, m, d, shed) ==
  LET cands == Candidates(m, d, shed)
  IN  IF cands = {} THEN c = [par |-> Grp.par, ctx |-> Solved(m, shed, Grp.par)]
      ELSE c \in cands /\ BestCandidate(c, cands, d)

AutoServings(m, d, shed) ==
  Candidates(m, d, shed) \cup
  {[par |-> Grp.par, ctx |-> Solved(m, shed, Grp.par)]}

Demand == Order(Model)[di]

\* The shed level solve_rung settles on.
Level(shed) ==
  BestRung(shed, Model, Demand, Slots(Model, Grp), Spare, roster.target, Cap(roster, Model))

Qualifying ==
  Rungs(Model, Demand, Slots(Model, Grp), Spare, roster.target, Cap(roster, Model))

\* The entry is appended and its admission overwrites the category's last one.
Record(vision, par, ctx) ==
  /\ serves' = Append(serves, Serving(Demand, vision, par, ctx))
  /\ admission' = [admission EXCEPT ![<<mi, Demand.id>>] =
                     Admitted(roster, Model, Demand, par)]

-----------------------------------------------------------------------------
(* The planning loop *)

Init ==
  /\ roster \in Rosters
  /\ phase = "group"
  /\ mi = 1 /\ gi = 1 /\ di = 1
  /\ charge = 0
  /\ serves = <<>> /\ plan = <<>> /\ entries = {}
  /\ admission = [p \in (DOMAIN roster.models) \X CatIds |-> {}]

StartGroup ==
  /\ phase = "group"
  /\ mi \in DOMAIN roster.models /\ gi \in DOMAIN roster.groups
  /\ \E c \in {roster.base} \cup {roster.overhead[s] : s \in Sets} :
       IsCharge(c, roster, Model) /\ charge' = c
  /\ phase' = "demands" /\ di' = 1 /\ serves' = <<>>
  /\ UNCHANGED <<roster, mi, gi, plan, entries, admission>>

Deciding == phase = "demands" /\ di \in DOMAIN Order(Model)

NextDemand ==
  /\ di' = di + 1
  /\ UNCHANGED <<roster, phase, mi, gi, charge, plan, entries>>

\* A capability the category requires is missing: nothing may be named for it.
Lacks ==
  /\ Deciding /\ ~CanMeet(Model, Demand)
  /\ NextDemand /\ UNCHANGED <<serves, admission>>

\* No rung holds the category's minimum within the budget.
Unserved ==
  /\ Deciding /\ CanMeet(Model, Demand) /\ Qualifying = {}
  /\ NextDemand /\ UNCHANGED <<serves, admission>>

\* parallel_value divides by the floor.
ZeroFloor ==
  /\ Deciding /\ CanMeet(Model, Demand) /\ Qualifying # {}
  /\ AutoParallel(roster, Model, Grp) /\ SearchFloor(Model, Demand, roster.pin) = 0
  /\ phase' = "crashed"
  /\ UNCHANGED <<roster, mi, gi, di, charge, serves, plan, entries, admission>>

ServeAuto ==
  /\ Deciding /\ CanMeet(Model, Demand)
  /\ AutoParallel(roster, Model, Grp) /\ SearchFloor(Model, Demand, roster.pin) # 0
  /\ \E shed \in Qualifying :
       /\ Level(shed)
       /\ \E c \in AutoServings(Model, Demand, shed) :
            /\ AutoServing(c, Model, Demand, shed)
            /\ Record(Projector(Model, shed), c.par, c.ctx)
  /\ NextDemand

\* A pinned slot count solves once more, and only here is the minimum checked
\* again: the rung may have given up a draft the final solve counts.
ServePinned ==
  /\ Deciding /\ CanMeet(Model, Demand) /\ ~AutoParallel(roster, Model, Grp)
  /\ \E shed \in Qualifying :
       LET par == Slots(Model, Grp)
           ctx == Solved(Model, shed, par)
       IN  /\ Level(shed)
           /\ IF ctx < Demand.minCtx THEN UNCHANGED <<serves, admission>>
              ELSE Record(Projector(Model, shed), par, ctx)
  /\ NextDemand

-----------------------------------------------------------------------------
(* From servings to variants *)

\* _unestimated_ctx: the shared chat context, or the guessed floor.
UnestimatedCtx(m) ==
  LET wanted == IF roster.target # 0 THEN roster.target
                ELSE IF m.floor # 0 THEN m.floor
                ELSE IF roster.pin # 0 THEN roster.pin ELSE m.habit
  IN  AtLeast(AtMost(wanted, Cap(roster, m)), MinCtx)

\* A model no source could measure keeps one entry, at its type's floor.
Kept(m) ==
  IF m.measured \/ m.cpu THEN serves
  ELSE <<Serving(Fallback, HasVision(m), Slots(m, Grp), UnestimatedCtx(m))>>

\* A serving at all, or a model an earlier group already found unmeasured.
Made ==
  IF serves = <<>> /\ (gi = 1 \/ Model.measured \/ Model.cpu) THEN <<>>
  ELSE Kept(Model)

\* The host pool takes or refuses a CPU entry whole.
HostFits(m, v) ==
  m.cpu /\ m.measured =>
    Footprint(m, v.vision, TRUE, v.ctx, v.par) <= roster.host

Variant(v) ==
  [model |-> mi, spare |-> Grp.spare, demand |-> v.demand,
   vision |-> v.vision, par |-> v.par, ctx |-> v.ctx]

AfterGroup ==
  IF gi < Len(roster.groups) THEN gi' = gi + 1 /\ mi' = mi /\ phase' = "group"
  ELSE /\ gi' = 1 /\ mi' = mi + 1
       /\ phase' = IF mi < Len(roster.models) THEN "group" ELSE "verify"

FinishGroup ==
  /\ phase = "demands" /\ di \notin DOMAIN Order(Model)
  /\ plan' = plan \o [i \in 1 .. Len(Made) |-> Variant(Made[i])]
  /\ entries' = entries \cup
       {Len(plan) + i : i \in {j \in 1 .. Len(Made) : HostFits(Model, Made[j])}}
  /\ AfterGroup
  /\ UNCHANGED <<roster, di, charge, serves, admission>>

-----------------------------------------------------------------------------
(* _verify_no_overallocation *)

\* The variant the pass takes for an entry: the model's first of that context.
Matched(v) ==
  plan[CHOOSE j \in DOMAIN plan :
         /\ plan[j].model = v.model /\ plan[j].ctx = v.ctx
         /\ \A k \in DOMAIN plan :
              plan[k].model = v.model /\ plan[k].ctx = v.ctx => j <= k]

\* The measured block alone, against the fleet's spare.
Overallocated(v) ==
  LET m == roster.models[v.model]
  IN  /\ m.measured /\ ~m.cpu
      /\ Footprint(m, FALSE, FALSE, v.ctx, Matched(v).par)
           > Available(roster.spare)

Verify ==
  /\ phase = "verify"
  /\ entries' = {i \in entries : ~Overallocated(plan[i])}
  /\ phase' = "done"
  /\ UNCHANGED <<roster, mi, gi, di, charge, serves, plan, admission>>

Next == StartGroup \/ Lacks \/ Unserved \/ ZeroFloor \/ ServeAuto
          \/ ServePinned \/ FinishGroup \/ Verify

Spec == Init /\ [][Next]_vars

-----------------------------------------------------------------------------
(* What the plan promises *)

ServingRecord ==
  [demand : DemandRecord(CatIds), vision : BOOLEAN, par : Nat \ {0}, ctx : Int]

VariantRecord ==
  [model : Nat \ {0}, spare : Nat, demand : DemandRecord(CatIds),
   vision : BOOLEAN, par : Nat \ {0}, ctx : Int]

TypeOK ==
  /\ roster \in RosterRecord
  /\ phase \in {"group", "demands", "verify", "done", "crashed"}
  /\ mi \in Nat \ {0} /\ gi \in Nat \ {0} /\ di \in Nat \ {0}
  /\ charge \in Nat
  /\ serves \in Seq(ServingRecord)
  /\ plan \in Seq(VariantRecord)
  /\ entries \subseteq DOMAIN plan
  /\ admission \in [(DOMAIN roster.models) \X CatIds -> SUBSET Sets]

OnCard(m) == m.measured /\ ~m.cpu
Fits(m, v, spare) ==
  Footprint(m, v.vision, TRUE, v.ctx, v.par) <= Available(spare)

\* Every entry on the card fits in what the card has left of its reserve and
\* of the group's spare ("degrades visibly instead of emitting entries that
\* OOM at load time", SPEC.md).
EntriesFit ==
  \A i \in entries :
    LET m == roster.models[plan[i].model]
    IN  OnCard(m) => Fits(m, plan[i], plan[i].spare)

\* The two shapes whose final solve does not count what the entry will load:
\* a separately folded draft, which a rung may shed and the solve re-adds, and
\* a projector without an mmproj block, which no view can take off the entry.
Sound(m) == /\ m.draft.mem = 0 /\ m.draft.kv = 0 /\ m.draft.slot = 0
            /\ HasVision(m) => m.overlay

\* The same for every model outside those two shapes.
SoundEntriesFit ==
  \A i \in entries :
    LET m == roster.models[plan[i].model]
    IN  OnCard(m) /\ Sound(m) => Fits(m, plan[i], plan[i].spare)

\* An entry admitted to a set fits beside that set's residents: the solve was
\* charged for the priciest set it may join (_coresident_charge).
AdmittedEntriesFit ==
  \A i \in entries :
    LET v == plan[i]
        m == roster.models[v.model]
    IN  OnCard(m) =>
          \A s \in admission[<<v.model, v.demand.id>>] :
            Fits(m, v, v.spare + roster.overhead[s])

\* The same outside the two shapes, for claims of a single slot: a claim of
\* more is never met by the one-slot probe the charge is taken from.
SoundAdmittedFit ==
  \A i \in entries :
    LET v == plan[i]
        m == roster.models[v.model]
    IN  OnCard(m) /\ Sound(m) /\ v.demand.minPar = 1 =>
          \A s \in admission[<<v.model, v.demand.id>>] :
            Fits(m, v, v.spare + roster.overhead[s])

\* An entry carrying a category's name serves the category's minimum context
\* (SPEC.md: the floor the search will not trade below).
CategoryFloor ==
  \A i \in entries :
    roster.models[plan[i].model].measured => plan[i].ctx >= plan[i].demand.minCtx

\* The same where no sidecar min_context replaces the category's minimum in
\* the search and no draft is re-added behind the ladder's back.
SoundCategoryFloor ==
  \A i \in entries :
    LET v == plan[i]
        m == roster.models[v.model]
    IN  m.measured /\ Sound(m) /\ (m.floor = 0 \/ m.floor >= v.demand.minCtx)
          => v.ctx >= v.demand.minCtx

\* The served context stays under the sidecar's context_length, "an operator
\* ceiling", whichever branch of calc_ctx produced it.
UnderCeiling ==
  \A i \in entries :
    LET m == roster.models[plan[i].model]
    IN  m.ceiling # 0 /\ OnCard(m) => plan[i].ctx <= m.ceiling

\* The fallback is the floor under every category: no group of a model serves
\* a category of at least the minimum context without also serving it.
FallbackStands ==
  phase \in {"group", "verify"} =>
    \A i \in entries :
      Sound(roster.models[plan[i].model]) /\ plan[i].demand.minCtx >= MinCtx =>
        \E j \in entries : /\ plan[j].model = plan[i].model
                           /\ plan[j].spare = plan[i].spare
                           /\ plan[j].demand.id = Fallback.id

\* "Planning must never traceback" (__main__.py): main catches ValueError and
\* RuntimeError, and a division by a floor of 0 is neither.
NeverTracebacks == phase # "crashed"

=============================================================================
