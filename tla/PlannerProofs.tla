---------------------------- MODULE PlannerProofs ----------------------------
(***************************************************************************)
(* For every card, catalogue and fleet: the plan is well typed, and an     *)
(* entry outside the two unsound shapes fits on the card, alone and beside *)
(* the residents of every set it was admitted to, and serves the minimum   *)
(* of the category it is named for.                                        *)
(*                                                                         *)
(* The inductive invariant carries what links a solve to an admission: the *)
(* charge of the current group is the one _coresident_charge defines, what *)
(* was served fits under that charge, and every admitted set passed the    *)
(* probe the charge was taken from. It rests on the memory law of Serving, *)
(* proved first: what calc_ctx returns without flagging the budget never   *)
(* asks for more memory than the budget holds.                             *)
(***************************************************************************)
EXTENDS Planner, TLAPS

-----------------------------------------------------------------------------
(* The memory law *)

\* Integer division by a positive divisor rounds down.
LEMMA DivBelow ==
  ASSUME NEW n \in Int, NEW d \in Nat \ {0}
  PROVE  n \div d \in Int /\ d * (n \div d) <= n
  BY SMT

\* Division keeps the order of the dividends.
LEMMA DivMonotone ==
  ASSUME NEW a \in Int, NEW b \in Int, NEW d \in Nat \ {0}, a <= b
  PROVE  a \div d <= b \div d
  BY SMT

\* A product grows with a non-negative factor.
LEMMA TimesMonotone ==
  ASSUME NEW a \in Int, NEW b \in Int, NEW k \in Nat, a <= b
  PROVE  k * a <= k * b
  BY SMT

\* Setting more memory aside never leaves more of it.
LEMMA AvailableAntitone ==
  ASSUME NEW a \in Int, NEW b \in Int, a <= b
  PROVE  /\ Available(a) \in Int /\ Available(b) \in Int
         /\ Available(b) <= Available(a)
<1> DEFINE na == (VramTotal - Reserve - a) * 100
           nb == (VramTotal - Reserve - b) * 100
           d  == 100 + MarginPct
<1>1. na \in Int /\ nb \in Int /\ d \in Nat \ {0} /\ nb <= na
  BY ServingAssumption
<1>2. na \div d \in Int /\ nb \div d \in Int
  BY <1>1, DivBelow
<1>3. nb \div d <= na \div d
  BY <1>1, DivMonotone
<1> QED
  BY <1>2, <1>3 DEF Available

-----------------------------------------------------------------------------
(* The law, applied to a model *)

\* The costs of a sidecar are the naturals its record says they are.
LEMMA CostsTyped ==
  ASSUME NEW m \in ModelRecord(Ids),
         NEW vision \in BOOLEAN, NEW draft \in BOOLEAN
  PROVE  /\ Fixed(m, vision, draft) \in Nat
         /\ PerToken(m, draft) \in Nat \ {0}
         /\ PerSlot(m, draft) \in Nat
<1>1. /\ m.base \in Nat /\ m.vision \in Nat
      /\ m.kv \in Nat \ {0} /\ m.slot \in Nat
      /\ m.draft \in Cost
  BY DEF ModelRecord
<1>2. m.draft.mem \in Nat /\ m.draft.kv \in Nat /\ m.draft.slot \in Nat
  BY <1>1 DEF Cost
<1>3. /\ (IF vision THEN m.vision ELSE 0) \in Nat
      /\ (IF draft THEN m.draft.mem ELSE 0) \in Nat
      /\ (IF draft THEN m.draft.kv ELSE 0) \in Nat
      /\ (IF draft THEN m.draft.slot ELSE 0) \in Nat
  BY <1>1, <1>2
<1> QED
  BY <1>1, <1>3 DEF Fixed, PerToken, PerSlot

\* More context never costs less.
LEMMA ContextMonotone ==
  ASSUME NEW m \in ModelRecord(Ids), NEW draft \in BOOLEAN,
         NEW slots \in Nat \ {0}, NEW c \in Int, NEW goal \in Int, c <= goal
  PROVE  Context(m, draft, c, slots) <= Context(m, draft, goal, slots)
<1> DEFINE k == PerToken(m, draft)
           s == PerSlot(m, draft)
<1>1. k \in Nat /\ s \in Nat
  BY CostsTyped, TRUE \in BOOLEAN
<1> HIDE DEF k, s
<1>2. k * c <= k * goal /\ k * c \in Int /\ k * goal \in Int
  BY <1>1, TimesMonotone
<1>3. slots * (k * c + s) <= slots * (k * goal + s)
  BY <1>1, <1>2, TimesMonotone
<1>4. (k * c + s) * slots <= (k * goal + s) * slots
  BY <1>1, <1>2, <1>3
<1> QED
  BY <1>4 DEF Context, k, s

\* A context up to what the remainder buys fits in the remainder.
LEMMA AffordableFits ==
  ASSUME NEW m \in ModelRecord(Ids), NEW draft \in BOOLEAN,
         NEW slots \in Nat \ {0}, NEW remaining \in Int, NEW c \in Int,
         c <= Affordable(m, draft, remaining, slots)
  PROVE  Context(m, draft, c, slots) <= remaining
<1> DEFINE k == PerToken(m, draft)
           s == PerSlot(m, draft)
           n == remaining - s * slots
           d == k * slots
           q == n \div d
<1>1. k \in Nat \ {0} /\ s \in Nat
  BY CostsTyped, TRUE \in BOOLEAN
<1> HIDE DEF k, s
<1>2. n \in Int /\ d \in Nat \ {0}
  BY <1>1
<1>3. q \in Int /\ d * q <= n
  BY <1>2, DivBelow
<1>4. c <= q
  BY DEF Affordable, k, s
<1> HIDE DEF q, n, d
<1>5. d * c <= d * q /\ d * c \in Int /\ d * q \in Int
  BY <1>2, <1>3, <1>4, TimesMonotone
<1>6. d * c <= n
  BY <1>2, <1>3, <1>5
<1>7. (k * c + s) * slots = d * c + s * slots
  BY <1>1 DEF d
<1>8. d * c + s * slots <= remaining
  BY <1>1, <1>5, <1>6 DEF n
<1> QED
  BY <1>7, <1>8 DEF Context, k, s

\* A squeezed context never exceeds what the budget buys.
LEMMA SqueezedBelow ==
  ASSUME NEW m \in ModelRecord(Ids), NEW vision \in BOOLEAN,
         NEW buys \in Int, MinCtx <= buys
  PROVE  /\ Squeezed(m, vision, buys) \in Int
         /\ Squeezed(m, vision, buys) <= buys
<1> DEFINE r == (buys \div RoundTo) * RoundTo
<1>1. r \in Int /\ r <= buys
  BY ServingAssumption, DivBelow
<1> HIDE DEF r
<1> DEFINE c == AtMost(AtLeast(r, MinCtx), m.ceiling)
           f == IF vision THEN m.image ELSE 0
<1>2. c \in Int /\ c <= buys /\ f \in Nat
  BY <1>1, ServingAssumption DEF AtMost, AtLeast, ModelRecord
<1> HIDE DEF c, f
<1>3. /\ RaiseToImageFloor(c, f, buys) \in Int
      /\ RaiseToImageFloor(c, f, buys) <= buys
  BY <1>2 DEF RaiseToImageFloor, AtLeast
<1> QED
  BY <1>3 DEF Squeezed, c, f, r

\* A solve that does not flag the budget returns a context the budget holds,
\* for a measured model on the card, at any slot count (calc_ctx).
THEOREM CalcCtxFits ==
  ASSUME NEW m \in ModelRecord(Ids),
         NEW vision \in BOOLEAN, NEW draft \in BOOLEAN,
         NEW slots \in Nat \ {0}, NEW spare \in Nat, NEW target \in Nat,
         m.measured, ~m.cpu,
         ~CalcCtx(m, vision, draft, slots, spare, target).over,
         NEW c \in Int,
         c <= CalcCtx(m, vision, draft, slots, spare, target).ctx
  PROVE  Footprint(m, vision, draft, c, slots) <= Available(spare)
<1> DEFINE goal == IF target # 0 THEN target ELSE m.design
           remaining == Remaining(m, vision, draft, spare)
           buys == Affordable(m, draft, remaining, slots)
           solve == CalcCtx(m, vision, draft, slots, spare, target)
           k == PerToken(m, draft)
           s == PerSlot(m, draft)
<1>1. goal \in Nat /\ m.ceiling \in Nat
  BY DEF ModelRecord
<1>2. Fixed(m, vision, draft) \in Nat /\ k \in Nat \ {0} /\ s \in Nat
  BY CostsTyped
<1>3. Available(spare) \in Int
  BY AvailableAntitone
<1>4. remaining \in Int
  BY <1>2, <1>3 DEF Remaining
<1>5. ~(remaining <= 0)
  BY DEF CalcCtx
<1>6. Context(m, draft, c, slots) <= remaining
  <2>1. CASE Context(m, draft, goal, slots) <= remaining
    <3>1. solve.ctx = AtMost(goal, m.ceiling)
      BY <1>5, <2>1 DEF CalcCtx
    <3>2. c <= goal
      BY <1>1, <3>1 DEF AtMost
    <3>3. Context(m, draft, c, slots) <= Context(m, draft, goal, slots)
      BY <1>1, <3>2, ContextMonotone
    <3>4. /\ Context(m, draft, c, slots) \in Int
          /\ Context(m, draft, goal, slots) \in Int
      BY <1>1, <1>2 DEF Context
    <3> QED
      BY <1>4, <2>1, <3>3, <3>4
  <2>2. CASE ~(Context(m, draft, goal, slots) <= remaining)
    <3>1. solve.ctx = Squeezed(m, vision, buys) /\ ~(buys < MinCtx)
      BY <1>5, <2>2 DEF CalcCtx
    <3>2. buys \in Int
      <4>1. remaining - s * slots \in Int /\ k * slots \in Nat \ {0}
        BY <1>2, <1>4
      <4> QED
        BY <4>1, DivBelow DEF Affordable
    <3>3. MinCtx <= buys
      BY <3>1, <3>2, ServingAssumption
    <3>4. c <= buys
      BY <3>1, <3>2, <3>3, SqueezedBelow
    <3> QED
      BY <1>4, <3>4, AffordableFits
  <2> QED
    BY <2>1, <2>2
<1>7. Context(m, draft, c, slots) \in Int
  BY <1>2 DEF Context
<1> QED
  BY <1>2, <1>3, <1>6, <1>7 DEF Footprint, Remaining

-----------------------------------------------------------------------------
(* The plan *)

\* What a model may be planned for: a category it claims, or the fallback.
Asked(m) == {Fallback} \cup {Claimed(m, m.claims[k]) : k \in DOMAIN m.claims}

\* A solve is under way for a model and a group of the roster, under its charge.
Charged ==
  phase = "demands" =>
    /\ mi \in DOMAIN roster.models /\ gi \in DOMAIN roster.groups
    /\ IsCharge(charge, roster, Model)

ServesFit ==
  phase = "demands" =>
    \A i \in DOMAIN serves :
      /\ serves[i].demand \in Asked(Model)
      /\ OnCard(Model) /\ Sound(Model) =>
           Fits(Model, serves[i], Grp.spare + charge)

PlanFits ==
  \A i \in DOMAIN plan :
    LET v == plan[i]
        m == roster.models[v.model]
    IN  /\ v.model \in DOMAIN roster.models
        /\ v.demand \in Asked(m)
        /\ OnCard(m) /\ Sound(m) =>
             \E c \in {roster.base} \cup {roster.overhead[s] : s \in Sets} :
               IsCharge(c, roster, m) /\ Fits(m, v, v.spare + c)

AdmissionProbed ==
  \A k \in DOMAIN roster.models, id \in CatIds :
    \A s \in admission[<<k, id>>] :
      /\ id \in Ids
      /\ Probe(roster, roster.models[k], s) > 0
      /\ Probe(roster, roster.models[k], s) >= Catalogue[id].minCtx

IInv == TypeOK /\ Charged /\ ServesFit /\ PlanFits /\ AdmissionProbed

-----------------------------------------------------------------------------
(* Sizes are integers, and a cap only lowers them *)

LEMMA CalcCtxInt ==
  ASSUME NEW m \in ModelRecord(Ids), NEW vision \in BOOLEAN,
         NEW draft \in BOOLEAN, NEW slots \in Nat \ {0}, NEW spare \in Nat,
         NEW target \in Nat
  PROVE  CalcCtx(m, vision, draft, slots, spare, target).ctx \in Int
<1> DEFINE goal == IF target # 0 THEN target ELSE m.design
           remaining == Remaining(m, vision, draft, spare)
           buys == Affordable(m, draft, remaining, slots)
<1>1. goal \in Nat /\ m.design \in Nat /\ m.ceiling \in Nat
  BY DEF ModelRecord
<1>2. remaining \in Int
  BY CostsTyped, AvailableAntitone DEF Remaining
<1>3. buys \in Int
  <2>1. PerSlot(m, draft) \in Nat /\ PerToken(m, draft) \in Nat \ {0}
    BY CostsTyped
  <2>2. /\ remaining - PerSlot(m, draft) * slots \in Int
        /\ PerToken(m, draft) * slots \in Nat \ {0}
    BY <1>2, <2>1
  <2> QED
    BY <2>2, DivBelow DEF Affordable
<1>4. MinCtx \in Int
  BY ServingAssumption
<1>5. AtMost(goal, m.ceiling) \in Int
  BY <1>1 DEF AtMost
<1>6. ~(buys < MinCtx) => Squeezed(m, vision, buys) \in Int
  BY <1>3, <1>4, SqueezedBelow
<1> HIDE DEF goal, remaining, buys
<1> QED
  BY <1>1, <1>4, <1>5, <1>6 DEF CalcCtx, goal, remaining, buys

LEMMA BoundedBelow ==
  ASSUME NEW m \in ModelRecord(Ids), NEW vision \in BOOLEAN,
         NEW draft \in BOOLEAN, NEW slots \in Nat \ {0}, NEW spare \in Nat,
         NEW target \in Nat, NEW cap \in Nat
  PROVE  /\ BoundedCtx(m, vision, draft, slots, spare, target, cap) \in Int
         /\ BoundedCtx(m, vision, draft, slots, spare, target, cap)
              <= CalcCtx(m, vision, draft, slots, spare, target).ctx
  BY CalcCtxInt DEF BoundedCtx, AtMost

\* Without a separately folded draft, shedding it changes nothing.
LEMMA NoDraft ==
  ASSUME NEW m \in ModelRecord(Ids), Sound(m), NEW vision, NEW draft, NEW other,
         NEW slots, NEW spare, NEW target
  PROVE  CalcCtx(m, vision, draft, slots, spare, target)
           = CalcCtx(m, vision, other, slots, spare, target)
<1>1. /\ m.base \in Nat /\ m.vision \in Nat /\ m.kv \in Nat /\ m.slot \in Nat
  BY DEF ModelRecord
<1>2. /\ Fixed(m, vision, draft) = Fixed(m, vision, other)
      /\ PerToken(m, draft) = PerToken(m, other)
      /\ PerSlot(m, draft) = PerSlot(m, other)
  BY <1>1 DEF Sound, Fixed, PerToken, PerSlot
<1> DEFINE goal == IF target # 0 THEN target ELSE m.design
           remaining == Remaining(m, vision, draft, spare)
<1>3. remaining = Remaining(m, vision, other, spare)
  BY <1>2 DEF Remaining
<1>4. Affordable(m, draft, remaining, slots) = Affordable(m, other, remaining, slots)
  BY <1>2 DEF Affordable
<1>5. Context(m, draft, goal, slots) = Context(m, other, goal, slots)
  BY <1>2 DEF Context
<1> QED
  BY <1>3, <1>4, <1>5, Zenon DEF CalcCtx

\* With an mmproj block, the entry carries the projector exactly when the rung
\* kept it; without a projector there is nothing to carry.
LEMMA ProjectorCounted ==
  ASSUME NEW m \in ModelRecord(Ids), Sound(m), NEW shed,
         NEW ctx \in Int, NEW slots \in Nat \ {0}
  PROVE  Footprint(m, Projector(m, shed), TRUE, ctx, slots)
           = Footprint(m, "vision" \notin shed, TRUE, ctx, slots)
<1>1. m.vision \in Nat
  BY DEF ModelRecord
<1>2. Fixed(m, Projector(m, shed), TRUE) = Fixed(m, "vision" \notin shed, TRUE)
  BY <1>1 DEF Fixed, Projector, Sound, HasVision
<1> QED
  BY <1>2 DEF Footprint

-----------------------------------------------------------------------------
(* What a demand step may serve fits under the group's charge *)

LEMMA SolvedFits ==
  ASSUME NEW m \in ModelRecord(Ids), OnCard(m), NEW vision \in BOOLEAN,
         NEW slots \in Nat \ {0}, NEW spare \in Nat, NEW target \in Nat,
         NEW cap \in Nat,
         ~CalcCtx(m, vision, TRUE, slots, spare, target).over
  PROVE  Footprint(m, vision, TRUE,
                   BoundedCtx(m, vision, TRUE, slots, spare, target, cap), slots)
           <= Available(spare)
<1> DEFINE c == BoundedCtx(m, vision, TRUE, slots, spare, target, cap)
<1>1. /\ c \in Int
      /\ c <= CalcCtx(m, vision, TRUE, slots, spare, target).ctx
  BY BoundedBelow, TRUE \in BOOLEAN
<1> HIDE DEF c
<1>2. Footprint(m, vision, TRUE, c, slots) <= Available(spare)
  BY <1>1, CalcCtxFits, TRUE \in BOOLEAN DEF OnCard
<1> QED
  BY <1>2 DEF c

LEMMA RungLoads ==
  ASSUME NEW m \in ModelRecord(Ids), Sound(m), NEW d, NEW slots \in Nat \ {0},
         NEW spare \in Nat, NEW target \in Nat, NEW cap,
         NEW shed \in Rungs(m, d, slots, spare, target, cap)
  PROVE  ~CalcCtx(m, "vision" \notin shed, TRUE, slots, spare,
                  target).over
<1> DEFINE vision == "vision" \notin shed
           draft  == "draft" \notin shed
           full   == TRUE
<1>1. ~CalcCtx(m, vision, draft, slots, spare, target).over
  BY DEF Rungs
<1> HIDE DEF vision, draft, full
<1>2. CalcCtx(m, vision, draft, slots, spare, target)
        = CalcCtx(m, vision, full, slots, spare, target)
  BY NoDraft
<1> QED
  BY <1>1, <1>2, Zenon DEF vision, full

\* A solve that affords anything at some slots was not refused there, once the
\* fixed part alone is known to fit.
LEMMA AffordedLoads ==
  ASSUME NEW m \in ModelRecord(Ids), OnCard(m), NEW vision \in BOOLEAN,
         NEW slots \in Nat \ {0}, NEW other \in Nat \ {0}, NEW spare \in Nat,
         NEW target \in Nat,
         ~CalcCtx(m, vision, TRUE, slots, spare, target).over,
         CalcCtx(m, vision, TRUE, other, spare, target).ctx # 0
  PROVE  ~CalcCtx(m, vision, TRUE, other, spare, target).over
<1> DEFINE remaining == Remaining(m, vision, TRUE, spare)
<1>1. ~(remaining <= 0)
  BY DEF CalcCtx, OnCard
<1> QED
  BY <1>1 DEF CalcCtx, OnCard

LEMMA CandidateTyped ==
  ASSUME NEW m \in ModelRecord(Ids), NEW vision \in BOOLEAN, NEW floor \in Nat,
         NEW spare \in Nat, NEW target \in Nat, NEW cap \in Nat, NEW pin \in Nat,
         NEW c \in SlotCandidates(m, vision, floor, spare, target, cap, pin)
  PROVE  /\ c.par \in Nat \ {0} /\ c.ctx \in Int
         /\ BoundedCtx(m, vision, TRUE, c.par, spare, target, cap) >= floor
         /\ c.ctx <= BoundedCtx(m, vision, TRUE, c.par, spare, target, cap)
<1> DEFINE most(p)  == BoundedCtx(m, vision, TRUE, p, spare, target, cap)
           serve(p) == IF pin # 0 THEN AtMost(pin, cap) ELSE most(p)
<1>1. PICK p \in 1 .. AutoParallelMax :
        /\ c = [par |-> p, ctx |-> serve(p)]
        /\ \A r \in 1 .. p : most(r) >= floor
        /\ pin # 0 => most(p) >= pin
  BY DEF SlotCandidates
<1>2. p \in Nat \ {0} /\ p \in 1 .. p
  BY ServingAssumption
<1>3. most(p) \in Int
  BY <1>2, BoundedBelow, TRUE \in BOOLEAN
<1>4. most(p) >= floor
  BY <1>1, <1>2
<1>5. AtMost(pin, cap) \in Int /\ AtMost(pin, cap) <= pin
  BY DEF AtMost
<1> HIDE DEF most
<1>6. serve(p) \in Int /\ serve(p) <= most(p)
  BY <1>1, <1>3, <1>5
<1> HIDE DEF serve
<1> QED
  BY <1>1, <1>2, <1>4, <1>6 DEF most

LEMMA CandidateFits ==
  ASSUME NEW m \in ModelRecord(Ids), OnCard(m), NEW vision \in BOOLEAN,
         NEW slots \in Nat \ {0}, NEW floor \in Nat \ {0}, NEW spare \in Nat,
         NEW target \in Nat, NEW cap \in Nat, NEW pin \in Nat,
         ~CalcCtx(m, vision, TRUE, slots, spare, target).over,
         NEW c \in SlotCandidates(m, vision, floor, spare, target, cap, pin)
  PROVE  Footprint(m, vision, TRUE, c.ctx, c.par) <= Available(spare)
<1> DEFINE most  == BoundedCtx(m, vision, TRUE, c.par, spare, target, cap)
           solve == CalcCtx(m, vision, TRUE, c.par, spare, target)
<1>1. c.par \in Nat \ {0} /\ c.ctx \in Int /\ most >= floor /\ c.ctx <= most
  BY CandidateTyped
<1>2. most \in Int /\ most <= solve.ctx /\ solve.ctx \in Int
  BY <1>1, BoundedBelow, CalcCtxInt, TRUE \in BOOLEAN
<1> HIDE DEF most, solve
<1>3. solve.ctx # 0 /\ c.ctx <= solve.ctx
  BY <1>1, <1>2
<1>4. ~solve.over
  BY <1>1, <1>3, AffordedLoads DEF solve
<1> QED
  BY <1>1, <1>3, <1>4, CalcCtxFits, TRUE \in BOOLEAN DEF OnCard, solve
-----------------------------------------------------------------------------
(* The inputs of a step are typed *)

LEMMA Inputs ==
  ASSUME TypeOK, mi \in DOMAIN roster.models, gi \in DOMAIN roster.groups
  PROVE  /\ Model \in ModelRecord(Ids) /\ Grp \in Group
         /\ Slots(Model, Grp) \in Nat \ {0} /\ Spare \in Nat
         /\ Cap(roster, Model) \in Nat
         /\ roster.target \in Nat /\ roster.pin \in Nat
<1>1. roster \in RosterRecord /\ charge \in Nat
  BY DEF TypeOK
<1>2. /\ roster.models \in Seq(ModelRecord(Ids)) /\ roster.groups \in Seq(Group)
      /\ roster.target \in Nat /\ roster.pin \in Nat
  BY <1>1 DEF RosterRecord
<1>3. Model \in ModelRecord(Ids) /\ Grp \in Group
  BY <1>2 DEF Model, Grp
<1>4. /\ Model.pin \in Nat /\ Model.design \in Nat
      /\ Grp.par \in Nat \ {0} /\ Grp.spare \in Nat
  BY <1>3 DEF ModelRecord, Group
<1>5. Slots(Model, Grp) \in Nat \ {0}
  BY <1>4 DEF Slots
<1>6. Spare \in Nat
  BY <1>1, <1>4 DEF Spare
<1>7. Cap(roster, Model) \in Nat
  BY <1>2, <1>4 DEF Cap, AtMost
<1> QED
  BY <1>2, <1>3, <1>5, <1>6, <1>7

LEMMA FallbackTyped == Fallback \in DemandRecord(CatIds)
  BY ServingAssumption DEF Fallback, DemandRecord, CatIds

\* A claim keeps the name and the minimums of the catalogue's task.
LEMMA ClaimedTyped ==
  ASSUME NEW m, NEW id \in Ids
  PROVE  /\ Claimed(m, id) \in DemandRecord(CatIds)
         /\ Claimed(m, id).id = id
         /\ Claimed(m, id).minCtx = Catalogue[id].minCtx
         /\ Claimed(m, id).minPar = Catalogue[id].minPar
<1>1. Catalogue[id] \in DemandRecord(Ids) /\ Catalogue[id].id = id
  BY PlannerAssumption
<1>2. "vision" \in Capabilities
  BY DEF Capabilities
<1> QED
  BY <1>1, <1>2 DEF Claimed, DemandRecord, CatIds

\* What a model is planned for is a typed demand it asked for.
LEMMA OrderTyped ==
  ASSUME NEW m \in ModelRecord(Ids), NEW i \in DOMAIN Order(m)
  PROVE  Order(m)[i] \in Asked(m) /\ Order(m)[i] \in DemandRecord(CatIds)
<1>1. m.claims \in Seq(Ids)
  BY DEF ModelRecord
<1>2. i \in 1 .. Len(m.claims) + 1
  BY DEF Order
<1>3. CASE i <= Len(m.claims)
  <2>1. i \in DOMAIN m.claims /\ m.claims[i] \in Ids
    BY <1>1, <1>2, <1>3
  <2>2. Order(m)[i] = Claimed(m, m.claims[i])
    BY <1>2, <1>3 DEF Order
  <2> QED
    BY <2>1, <2>2, ClaimedTyped DEF Asked
<1>4. CASE ~(i <= Len(m.claims))
  <2>1. Order(m)[i] = Fallback
    BY <1>2, <1>4 DEF Order
  <2> QED
    BY <2>1, FallbackTyped DEF Asked
<1> QED
  BY <1>3, <1>4

\* A named demand that was asked for is a claim of the model.
LEMMA AskedNamed ==
  ASSUME NEW m \in ModelRecord(Ids), NEW d \in Asked(m), d.id \in Ids
  PROVE  /\ \E k \in DOMAIN m.claims : m.claims[k] = d.id
         /\ d.minCtx = Catalogue[d.id].minCtx
         /\ d.minPar = Catalogue[d.id].minPar
<1>1. d # Fallback
  BY PlannerAssumption DEF Fallback
<1>2. PICK k \in DOMAIN m.claims : d = Claimed(m, m.claims[k])
  BY <1>1 DEF Asked
<1>3. m.claims[k] \in Ids
  BY DEF ModelRecord
<1> QED
  BY <1>2, <1>3, ClaimedTyped

-----------------------------------------------------------------------------
(* What the two serving steps record fits *)

\* The slot search: its winner, or what the group's own slots afford.
LEMMA AutoFits ==
  ASSUME TypeOK, mi \in DOMAIN roster.models, gi \in DOMAIN roster.groups,
         OnCard(Model), Sound(Model), Demand \in DemandRecord(CatIds),
         AutoParallel(roster, Model, Grp), SearchFloor(Model, Demand, roster.pin) # 0,
         NEW shed \in Qualifying,
         NEW c \in AutoServings(Model, Demand, shed)
  PROVE  Footprint(Model, Projector(Model, shed), TRUE, c.ctx, c.par)
           <= Available(Spare)
<1> DEFINE vision == "vision" \notin shed
           slots  == Slots(Model, Grp)
           cap    == Cap(roster, Model)
           floor  == SearchFloor(Model, Demand, roster.pin)
<1>1. /\ Model \in ModelRecord(Ids) /\ slots \in Nat \ {0} /\ Spare \in Nat
      /\ cap \in Nat /\ roster.target \in Nat /\ roster.pin \in Nat
  BY Inputs
<1>2. floor \in Nat \ {0}
  <2>1. Model.floor \in Nat
    BY <1>1 DEF ModelRecord
  <2>2. Demand.minCtx \in Nat
    BY DEF DemandRecord
  <2> QED
    BY <1>1, <2>1, <2>2 DEF SearchFloor
<1>3. ~CalcCtx(Model, vision, TRUE, slots, Spare, roster.target).over
  <2>1. shed \in Rungs(Model, Demand, slots, Spare, roster.target, cap)
    BY DEF Qualifying
  <2>2. ~CalcCtx(Model, "vision" \notin shed, TRUE, slots, Spare, roster.target).over
    BY <1>1, <2>1, RungLoads
  <2> QED
    BY <2>2
<1>4. vision \in BOOLEAN
  OBVIOUS
<1>5. c \in Candidates(Model, Demand, shed)
        \/ c = [par |-> Grp.par, ctx |-> Solved(Model, shed, Grp.par)]
  BY DEF AutoServings
<1>6. c.par \in Nat \ {0} /\ c.ctx \in Int
      /\ Footprint(Model, vision, TRUE, c.ctx, c.par) <= Available(Spare)
  <2>1. CASE c \in Candidates(Model, Demand, shed)
    <3>1. c \in SlotCandidates(Model, vision, floor, Spare, roster.target, cap,
                               roster.pin)
      BY <2>1 DEF Candidates
    <3> HIDE DEF vision, slots, cap, floor
    <3> QED
      BY <1>1, <1>2, <1>3, <1>4, <3>1, CandidateTyped, CandidateFits
  <2>2. CASE c = [par |-> Grp.par, ctx |-> Solved(Model, shed, Grp.par)]
    <3>1. slots = Grp.par
      BY DEF AutoParallel, Slots
    <3>2. c.par = slots
          /\ c.ctx = BoundedCtx(Model, vision, TRUE, slots, Spare, roster.target, cap)
      BY <2>2, <3>1 DEF Solved
    <3> HIDE DEF vision, slots, cap, floor
    <3>3. BoundedCtx(Model, vision, TRUE, slots, Spare, roster.target, cap) \in Int
      BY <1>1, <1>4, BoundedBelow, TRUE \in BOOLEAN
    <3> QED
      BY <1>1, <1>3, <1>4, <3>2, <3>3, SolvedFits
  <2> QED
    BY <1>5, <2>1, <2>2
<1>7. Footprint(Model, Projector(Model, shed), TRUE, c.ctx, c.par)
        = Footprint(Model, vision, TRUE, c.ctx, c.par)
  BY <1>1, <1>6, ProjectorCounted
<1> QED
  BY <1>6, <1>7

\* The pinned slot count: the solve at those slots.
LEMMA PinnedFits ==
  ASSUME TypeOK, mi \in DOMAIN roster.models, gi \in DOMAIN roster.groups,
         OnCard(Model), Sound(Model), NEW shed \in Qualifying
  PROVE  Footprint(Model, Projector(Model, shed), TRUE,
                   Solved(Model, shed, Slots(Model, Grp)), Slots(Model, Grp))
           <= Available(Spare)
<1> DEFINE vision == "vision" \notin shed
           slots  == Slots(Model, Grp)
           cap    == Cap(roster, Model)
           ctx    == BoundedCtx(Model, vision, TRUE, slots, Spare, roster.target, cap)
<1>1. /\ Model \in ModelRecord(Ids) /\ slots \in Nat \ {0} /\ Spare \in Nat
      /\ cap \in Nat /\ roster.target \in Nat
  BY Inputs
<1>2. ~CalcCtx(Model, vision, TRUE, slots, Spare, roster.target).over
  <2>1. shed \in Rungs(Model, Demand, slots, Spare, roster.target, cap)
    BY DEF Qualifying
  <2>2. ~CalcCtx(Model, "vision" \notin shed, TRUE, slots, Spare, roster.target).over
    BY <1>1, <2>1, RungLoads
  <2> QED
    BY <2>2
<1>3. vision \in BOOLEAN
  OBVIOUS
<1>4. Solved(Model, shed, slots) = ctx
  BY DEF Solved
<1>5. Footprint(Model, Projector(Model, shed), TRUE, ctx, slots)
        = Footprint(Model, vision, TRUE, ctx, slots)
  <2>1. ctx \in Int
    BY <1>1, <1>3, BoundedBelow, TRUE \in BOOLEAN
  <2> QED
    BY <1>1, <2>1, ProjectorCounted
<1> HIDE DEF vision
<1>6. Footprint(Model, vision, TRUE, ctx, slots) <= Available(Spare)
  BY <1>1, <1>2, <1>3, SolvedFits
<1> QED
  BY <1>4, <1>5, <1>6

-----------------------------------------------------------------------------
(* Their types, for every model *)

LEMMA SolvedTyped ==
  ASSUME TypeOK, mi \in DOMAIN roster.models, gi \in DOMAIN roster.groups,
         NEW shed, NEW par \in Nat \ {0}
  PROVE  Solved(Model, shed, par) \in Int
<1> DEFINE vision == "vision" \notin shed
<1>1. vision \in BOOLEAN
  OBVIOUS
<1> HIDE DEF vision
<1>2. BoundedCtx(Model, vision, TRUE, par, Spare, roster.target,
                 Cap(roster, Model)) \in Int
  BY <1>1, Inputs, BoundedBelow, TRUE \in BOOLEAN
<1> QED
  BY <1>2 DEF Solved, vision

LEMMA AutoTyped ==
  ASSUME TypeOK, mi \in DOMAIN roster.models, gi \in DOMAIN roster.groups,
         Demand \in DemandRecord(CatIds), NEW shed,
         NEW c \in AutoServings(Model, Demand, shed)
  PROVE  c.par \in Nat \ {0} /\ c.ctx \in Int
<1> DEFINE vision == "vision" \notin shed
           cap    == Cap(roster, Model)
           floor  == SearchFloor(Model, Demand, roster.pin)
<1>1. /\ Model \in ModelRecord(Ids) /\ Grp \in Group /\ Spare \in Nat
      /\ cap \in Nat /\ roster.target \in Nat /\ roster.pin \in Nat
  BY Inputs
<1>2. floor \in Nat
  <2>1. Model.floor \in Nat
    BY <1>1 DEF ModelRecord
  <2>2. Demand.minCtx \in Nat
    BY DEF DemandRecord
  <2> QED
    BY <1>1, <2>1, <2>2 DEF SearchFloor
<1>3. vision \in BOOLEAN
  OBVIOUS
<1>4. CASE c \in Candidates(Model, Demand, shed)
  <2>1. c \in SlotCandidates(Model, vision, floor, Spare, roster.target, cap,
                             roster.pin)
    BY <1>4 DEF Candidates
  <2> HIDE DEF vision, cap, floor
  <2> QED
    BY <1>1, <1>2, <1>3, <2>1, CandidateTyped
<1>5. CASE c = [par |-> Grp.par, ctx |-> Solved(Model, shed, Grp.par)]
  <2>1. Grp.par \in Nat \ {0}
    BY <1>1 DEF Group
  <2> QED
    BY <1>5, <2>1, SolvedTyped
<1> QED
  BY <1>4, <1>5 DEF AutoServings

-----------------------------------------------------------------------------
(* Each action preserves the invariant *)

\* What both serving steps do with what they solved.
LEMMA RecordKeeps ==
  ASSUME IInv, Deciding, NEW vision \in BOOLEAN, NEW par \in Nat \ {0},
         NEW ctx \in Int,
         OnCard(Model) /\ Sound(Model) =>
           Footprint(Model, vision, TRUE, ctx, par) <= Available(Spare),
         Record(vision, par, ctx), NextDemand
  PROVE  IInv'
<1> DEFINE v == Serving(Demand, vision, par, ctx)
<1>1. /\ phase = "demands" /\ phase' = phase /\ roster' = roster
      /\ mi' = mi /\ gi' = gi /\ di' = di + 1 /\ charge' = charge
      /\ plan' = plan /\ entries' = entries
      /\ serves' = Append(serves, v)
  BY DEF Deciding, NextDemand, Record
<1>2. /\ mi \in DOMAIN roster.models /\ gi \in DOMAIN roster.groups
      /\ IsCharge(charge, roster, Model) /\ TypeOK
  BY <1>1 DEF IInv, Charged
<1>3. Model \in ModelRecord(Ids) /\ Model' = Model /\ Grp' = Grp
  BY <1>1, <1>2, Inputs DEF Model, Grp
<1>4. Demand \in Asked(Model) /\ Demand \in DemandRecord(CatIds)
  BY <1>3, OrderTyped DEF Deciding, Demand
<1>5. v \in ServingRecord /\ serves \in Seq(ServingRecord)
  BY <1>2, <1>4 DEF Serving, ServingRecord, TypeOK
<1>6. /\ serves' \in Seq(ServingRecord)
      /\ DOMAIN serves' = DOMAIN serves \cup {Len(serves) + 1}
      /\ \A i \in DOMAIN serves : serves'[i] = serves[i]
      /\ serves'[Len(serves) + 1] = v
  BY <1>1, <1>5
<1>7. /\ admission' \in [(DOMAIN roster.models) \X CatIds -> SUBSET Sets]
      /\ \A k \in DOMAIN roster.models, id \in CatIds :
           \/ admission'[<<k, id>>] = admission[<<k, id>>]
           \/ /\ k = mi /\ id = Demand.id
              /\ admission'[<<k, id>>] = Admitted(roster, Model, Demand, par)
  <2>1. admission \in [(DOMAIN roster.models) \X CatIds -> SUBSET Sets]
    BY <1>2 DEF TypeOK
  <2>2. admission' = [admission EXCEPT ![<<mi, Demand.id>>] =
                        Admitted(roster, Model, Demand, par)]
    BY DEF Record
  <2>3. Admitted(roster, Model, Demand, par) \in SUBSET Sets
    BY DEF Admitted
  <2> QED
    BY <2>1, <2>2, <2>3
<1>8. TypeOK'
  BY <1>1, <1>2, <1>6, <1>7 DEF TypeOK
<1>9. Charged'
  BY <1>1, <1>2, <1>3 DEF Charged
<1>10. ServesFit'
  <2>1. /\ v.demand = Demand
        /\ OnCard(Model) /\ Sound(Model) => Fits(Model, v, Grp.spare + charge)
    BY DEF Serving, Fits, Spare
  <2>2. ServesFit
    BY DEF IInv
  <2> QED
    BY <1>1, <1>3, <1>4, <1>6, <2>1, <2>2 DEF ServesFit
<1>11. PlanFits'
  BY <1>1 DEF IInv, PlanFits
<1>12. AdmissionProbed'
  <2> SUFFICES ASSUME NEW k \in DOMAIN roster.models, NEW id \in CatIds,
                      NEW s \in admission'[<<k, id>>]
               PROVE  /\ id \in Ids
                      /\ Probe(roster, roster.models[k], s) > 0
                      /\ Probe(roster, roster.models[k], s)
                           >= Catalogue[id].minCtx
    BY <1>1 DEF AdmissionProbed
  <2>1. CASE admission'[<<k, id>>] = admission[<<k, id>>]
    BY <2>1 DEF IInv, AdmissionProbed
  <2>2. CASE /\ k = mi /\ id = Demand.id
             /\ admission'[<<k, id>>] = Admitted(roster, Model, Demand, par)
    <3>1. id # Fallback.id /\ ServesBeside(roster, Model, Demand, s, par)
      BY <2>2 DEF Admitted
    <3>2. id \in Ids
      BY <3>1 DEF CatIds
    <3>3. Demand.minCtx = Catalogue[id].minCtx
      BY <1>3, <1>4, <2>2, <3>2, AskedNamed
    <3> QED
      BY <2>2, <3>1, <3>2, <3>3 DEF ServesBeside, Model
  <2> QED
    BY <1>7, <2>1, <2>2
<1> QED
  BY <1>8, <1>9, <1>10, <1>11, <1>12 DEF IInv

\* A demand passed over keeps everything but the index.
LEMMA SkipKeeps ==
  ASSUME IInv, NextDemand, UNCHANGED <<serves, admission>>
  PROVE  IInv'
<1>1. TypeOK'
  BY DEF IInv, TypeOK, NextDemand
<1>2. Charged' /\ ServesFit' /\ PlanFits' /\ AdmissionProbed'
  BY DEF IInv, NextDemand, Charged, ServesFit, PlanFits, AdmissionProbed,
         Model, Grp
<1> QED
  BY <1>1, <1>2 DEF IInv

LEMMA StartGroupKeeps ==
  ASSUME IInv, StartGroup
  PROVE  IInv'
<1>1. /\ roster' = roster /\ mi' = mi /\ gi' = gi /\ plan' = plan
      /\ entries' = entries /\ admission' = admission
      /\ serves' = <<>> /\ phase' = "demands" /\ di' = 1
      /\ mi \in DOMAIN roster.models /\ gi \in DOMAIN roster.groups
  BY DEF StartGroup
<1>2. /\ charge' \in {roster.base} \cup {roster.overhead[s] : s \in Sets}
      /\ IsCharge(charge', roster, Model)
  BY DEF StartGroup
<1>3. Model' = Model
  BY <1>1 DEF Model
<1>4. charge' \in Nat
  <2>1. roster.base \in Nat /\ roster.overhead \in [Sets -> Nat]
    BY DEF IInv, TypeOK, RosterRecord
  <2> QED
    BY <1>2, <2>1
<1>5. TypeOK'
  <2>1. serves' \in Seq(ServingRecord)
    BY <1>1
  <2> QED
    BY <1>1, <1>4, <2>1 DEF IInv, TypeOK
<1>6. Charged'
  BY <1>1, <1>2, <1>3 DEF Charged
<1>7. ServesFit'
  BY <1>1 DEF ServesFit
<1>8. PlanFits' /\ AdmissionProbed'
  BY <1>1 DEF IInv, PlanFits, AdmissionProbed
<1> QED
  BY <1>5, <1>6, <1>7, <1>8 DEF IInv

LEMMA ServeAutoKeeps ==
  ASSUME IInv, ServeAuto
  PROVE  IInv'
<1>1. Deciding /\ NextDemand /\ AutoParallel(roster, Model, Grp)
      /\ SearchFloor(Model, Demand, roster.pin) # 0
  BY DEF ServeAuto
<1>2. TypeOK /\ mi \in DOMAIN roster.models /\ gi \in DOMAIN roster.groups
  BY <1>1 DEF IInv, Charged, Deciding
<1>3. Demand \in DemandRecord(CatIds)
  BY <1>1, <1>2, Inputs, OrderTyped DEF Deciding, Demand
<1>4. PICK shed \in Qualifying :
        \E c \in AutoServings(Model, Demand, shed) :
          Record(Projector(Model, shed), c.par, c.ctx)
  BY DEF ServeAuto
<1>5. PICK c \in AutoServings(Model, Demand, shed) :
        Record(Projector(Model, shed), c.par, c.ctx)
  BY <1>4
<1>6. c.par \in Nat \ {0} /\ c.ctx \in Int
  BY <1>2, <1>3, AutoTyped
<1>7. Projector(Model, shed) \in BOOLEAN
  BY DEF Projector
<1>8. OnCard(Model) /\ Sound(Model) =>
        Footprint(Model, Projector(Model, shed), TRUE, c.ctx, c.par)
          <= Available(Spare)
  BY <1>1, <1>2, <1>3, AutoFits
<1> QED
  BY <1>1, <1>5, <1>6, <1>7, <1>8, RecordKeeps

LEMMA ServePinnedKeeps ==
  ASSUME IInv, ServePinned
  PROVE  IInv'
<1>1. Deciding /\ NextDemand
  BY DEF ServePinned
<1>2. TypeOK /\ mi \in DOMAIN roster.models /\ gi \in DOMAIN roster.groups
  BY <1>1 DEF IInv, Charged, Deciding
<1> DEFINE par == Slots(Model, Grp)
<1>3. PICK shed \in Qualifying :
        \/ UNCHANGED <<serves, admission>>
        \/ Record(Projector(Model, shed), par, Solved(Model, shed, par))
  BY DEF ServePinned
<1>4. CASE UNCHANGED <<serves, admission>>
  BY <1>1, <1>4, SkipKeeps
<1>5. CASE Record(Projector(Model, shed), par, Solved(Model, shed, par))
  <2>1. par \in Nat \ {0}
    BY <1>2, Inputs
  <2>2. Solved(Model, shed, par) \in Int
    BY <1>2, <2>1, SolvedTyped
  <2>3. Projector(Model, shed) \in BOOLEAN
    BY DEF Projector
  <2>4. OnCard(Model) /\ Sound(Model) =>
          Footprint(Model, Projector(Model, shed), TRUE,
                    Solved(Model, shed, par), par) <= Available(Spare)
    BY <1>2, PinnedFits
  <2> HIDE DEF par
  <2> QED
    BY <1>1, <1>5, <2>1, <2>2, <2>3, <2>4, RecordKeeps
<1> QED
  BY <1>3, <1>4, <1>5

\* The entry of a model no source could measure.
LEMMA UnestimatedTyped ==
  ASSUME TypeOK, mi \in DOMAIN roster.models, gi \in DOMAIN roster.groups
  PROVE  Serving(Fallback, HasVision(Model), Slots(Model, Grp), UnestimatedCtx(Model)) \in ServingRecord
<1>1. /\ Model \in ModelRecord(Ids) /\ roster.target \in Nat /\ roster.pin \in Nat
      /\ Cap(roster, Model) \in Nat /\ MinCtx \in Nat
  BY Inputs, ServingAssumption
<1>2. Model.floor \in Nat /\ Model.habit \in Nat
  BY <1>1 DEF ModelRecord
<1>3. UnestimatedCtx(Model) \in Int
  BY <1>1, <1>2 DEF UnestimatedCtx, AtLeast, AtMost
<1>4. HasVision(Model) \in BOOLEAN /\ Slots(Model, Grp) \in Nat \ {0}
  BY Inputs DEF HasVision
<1> QED
  BY <1>3, <1>4, FallbackTyped DEF Serving, ServingRecord

\* A finished group appends a variant for every serving it made.
LEMMA PlanGrows ==
  ASSUME TypeOK, mi \in DOMAIN roster.models, gi \in DOMAIN roster.groups,
         NEW made \in Seq(ServingRecord),
         plan' = plan \o [i \in 1 .. Len(made) |-> Variant(made[i])]
  PROVE  /\ plan' \in Seq(VariantRecord)
         /\ Len(plan') = Len(plan) + Len(made) /\ Len(made) \in Nat
         /\ \A i \in DOMAIN plan : i \in DOMAIN plan' /\ plan'[i] = plan[i]
         /\ \A i \in DOMAIN plan' :
              \/ i \in DOMAIN plan /\ plan'[i] = plan[i]
              \/ /\ i - Len(plan) \in 1 .. Len(made)
                 /\ plan'[i] = Variant(made[i - Len(plan)])
<1> DEFINE added == [i \in 1 .. Len(made) |-> Variant(made[i])]
<1>1. plan \in Seq(VariantRecord)
  BY DEF TypeOK
<1>2. added \in Seq(VariantRecord) /\ Len(added) = Len(made)
  <2>1. \A i \in 1 .. Len(made) : made[i] \in ServingRecord
    OBVIOUS
  <2>2. Grp.spare \in Nat /\ mi \in Nat \ {0}
    BY Inputs DEF Group, TypeOK
  <2>3. \A i \in 1 .. Len(made) : Variant(made[i]) \in VariantRecord
    BY <2>1, <2>2 DEF Variant, ServingRecord, VariantRecord
  <2>4. Len(made) \in Nat
    OBVIOUS
  <2> QED
    BY <2>3, <2>4
<1>3. \A i \in 1 .. Len(made) : added[i] = Variant(made[i])
  OBVIOUS
<1>4. plan' = plan \o added /\ Len(made) \in Nat
  OBVIOUS
<1> HIDE DEF added
<1>5. plan' \in Seq(VariantRecord) /\ Len(plan') = Len(plan) + Len(made)
  <2>1. plan \o added \in Seq(VariantRecord)
    BY <1>1, <1>2
  <2>2. Len(plan \o added) = Len(plan) + Len(added)
    <3>1. \A p, q \in Seq(VariantRecord) : Len(p \o q) = Len(p) + Len(q)
      OBVIOUS
    <3> QED
      BY <1>1, <1>2, <3>1, Zenon
  <2> QED
    BY <1>2, <1>4, <2>1, <2>2
<1>6. \A i \in DOMAIN plan : i \in DOMAIN plan' /\ plan'[i] = plan[i]
  BY <1>1, <1>2, <1>4
<1>7. \A i \in DOMAIN plan' :
         \/ i \in DOMAIN plan
         \/ /\ i - Len(plan) \in 1 .. Len(made)
            /\ plan'[i] = added[i - Len(plan)]
  <2> SUFFICES ASSUME NEW i \in DOMAIN plan', i \notin DOMAIN plan
               PROVE  /\ i - Len(plan) \in 1 .. Len(made)
                      /\ plan'[i] = added[i - Len(plan)]
    OBVIOUS
  <2>1. i \in 1 .. Len(plan) + Len(made) /\ Len(plan) \in Nat
    BY <1>1, <1>5
  <2>2. i > Len(plan)
    BY <1>1, <2>1
  <2> QED
    BY <1>1, <1>2, <1>4, <2>1, <2>2
<1> QED
  BY <1>3, <1>4, <1>5, <1>6, <1>7

LEMMA FinishGroupKeeps ==
  ASSUME IInv, FinishGroup
  PROVE  IInv'
<1> DEFINE made  == Made
           added == [i \in 1 .. Len(made) |-> Variant(made[i])]
<1>1. /\ phase = "demands" /\ roster' = roster /\ di' = di
      /\ charge' = charge /\ serves' = serves /\ admission' = admission
      /\ plan' = plan \o added /\ AfterGroup
      /\ entries' = entries \cup
           {Len(plan) + i : i \in {j \in 1 .. Len(made) : HostFits(Model, made[j])}}
  BY DEF FinishGroup
<1>2. /\ mi \in DOMAIN roster.models /\ gi \in DOMAIN roster.groups
      /\ IsCharge(charge, roster, Model) /\ TypeOK
  BY <1>1 DEF IInv, Charged
<1>3. Model \in ModelRecord(Ids) /\ Grp \in Group
  BY <1>2, Inputs
<1> HIDE DEF made
<1>4. /\ made \in Seq(ServingRecord)
      /\ \A i \in 1 .. Len(made) :
           /\ made[i].demand \in Asked(Model)
           /\ OnCard(Model) /\ Sound(Model) =>
                Fits(Model, made[i], Grp.spare + charge)
  <2>1. serves \in Seq(ServingRecord) /\ ServesFit
    BY <1>2 DEF TypeOK, IInv
  <2>2. CASE made = serves
    BY <1>1, <2>1, <2>2 DEF ServesFit
  <2>3. CASE made = <<>>
    BY <2>3
  <2>4. CASE /\ ~(Model.measured \/ Model.cpu)
             /\ made = <<Serving(Fallback, HasVision(Model), Slots(Model, Grp),
                                UnestimatedCtx(Model))>>
    <3> DEFINE v == Serving(Fallback, HasVision(Model), Slots(Model, Grp),
                            UnestimatedCtx(Model))
    <3>3. v \in ServingRecord /\ v.demand = Fallback
      BY <1>2, UnestimatedTyped DEF Serving
    <3> HIDE DEF v
    <3>4. made = <<v>>
      BY <2>4 DEF v
    <3>5. ~OnCard(Model)
      BY <2>4 DEF OnCard
    <3> QED
      BY <3>3, <3>4, <3>5 DEF Asked
  <2> QED
    BY <2>2, <2>3, <2>4 DEF Kept, made, Made
<1>5. plan \in Seq(VariantRecord) /\ entries \subseteq DOMAIN plan
  BY <1>2 DEF TypeOK
<1>7. plan' = plan \o added
  BY <1>1
<1>8. /\ plan' \in Seq(VariantRecord)
      /\ Len(plan') = Len(plan) + Len(made) /\ Len(made) \in Nat
      /\ \A i \in DOMAIN plan : i \in DOMAIN plan' /\ plan'[i] = plan[i]
      /\ \A i \in DOMAIN plan' :
           \/ i \in DOMAIN plan /\ plan'[i] = plan[i]
           \/ /\ i - Len(plan) \in 1 .. Len(made)
              /\ plan'[i] = Variant(made[i - Len(plan)])
  BY <1>2, <1>4, <1>7, PlanGrows
<1>9. entries' \subseteq DOMAIN plan'
  <2>1. \A i \in 1 .. Len(made) : Len(plan) + i \in DOMAIN plan'
    BY <1>5, <1>8
  <2> QED
    BY <1>1, <1>5, <1>8, <2>1
<1>10. /\ phase' \in {"group", "verify"}
       /\ mi' \in Nat \ {0} /\ gi' \in Nat \ {0}
  BY <1>1, <1>2 DEF AfterGroup, TypeOK
<1>11. TypeOK'
  BY <1>1, <1>2, <1>8, <1>9, <1>10 DEF TypeOK
<1>12. Charged' /\ ServesFit'
  BY <1>10 DEF Charged, ServesFit
<1>13. PlanFits'
  <2> SUFFICES ASSUME NEW i \in DOMAIN plan'
      PROVE LET v == plan'[i]
                m == roster.models[v.model]
            IN  /\ v.model \in DOMAIN roster.models
                /\ v.demand \in Asked(m)
                /\ OnCard(m) /\ Sound(m) =>
                     \E c \in {roster.base} \cup {roster.overhead[s] : s \in Sets} :
                       IsCharge(c, roster, m) /\ Fits(m, v, v.spare + c)
    BY <1>1 DEF PlanFits
  <2>1. CASE i \in DOMAIN plan /\ plan'[i] = plan[i]
    BY <2>1 DEF IInv, PlanFits
  <2>2. CASE /\ i - Len(plan) \in 1 .. Len(made)
             /\ plan'[i] = Variant(made[i - Len(plan)])
    <3> DEFINE w == made[i - Len(plan)]
    <3>1. /\ w.demand \in Asked(Model)
          /\ OnCard(Model) /\ Sound(Model) => Fits(Model, w, Grp.spare + charge)
      BY <1>4, <2>2
    <3> HIDE DEF w
    <3>2. /\ plan'[i].model = mi /\ plan'[i].demand = w.demand
          /\ plan'[i].spare = Grp.spare /\ plan'[i].vision = w.vision
          /\ plan'[i].par = w.par /\ plan'[i].ctx = w.ctx
      BY <2>2 DEF Variant, w
    <3>3. charge \in {roster.base} \cup {roster.overhead[s] : s \in Sets}
      BY <1>2 DEF IsCharge, ChargedSets, MetSets
    <3>4. roster.models[plan'[i].model] = Model
      BY <3>2 DEF Model
    <3>5. OnCard(Model) /\ Sound(Model) =>
            Fits(Model, plan'[i], plan'[i].spare + charge)
      BY <3>1, <3>2 DEF Fits
    <3>6. OnCard(Model) /\ Sound(Model) =>
            \E c \in {roster.base} \cup {roster.overhead[s] : s \in Sets} :
              /\ IsCharge(c, roster, Model)
              /\ Fits(Model, plan'[i], plan'[i].spare + c)
      BY <1>2, <3>3, <3>5
    <3>7. plan'[i].model \in DOMAIN roster.models /\ plan'[i].demand \in Asked(Model)
      BY <1>2, <3>1, <3>2
    <3> QED
      BY <3>4, <3>6, <3>7
  <2> QED
    BY <1>8, <2>1, <2>2
<1>14. AdmissionProbed'
  BY <1>1 DEF IInv, AdmissionProbed
<1> QED
  BY <1>11, <1>12, <1>13, <1>14 DEF IInv

LEMMA VerifyKeeps ==
  ASSUME IInv, Verify
  PROVE  IInv'
<1>1. /\ phase' = "done" /\ entries' \subseteq entries
      /\ UNCHANGED <<roster, mi, gi, di, charge, serves, plan, admission>>
  BY DEF Verify
<1>2. TypeOK'
  BY <1>1 DEF IInv, TypeOK
<1> QED
  BY <1>1, <1>2 DEF IInv, Charged, ServesFit, PlanFits, AdmissionProbed

LEMMA InitHolds ==
  ASSUME Init
  PROVE  IInv
<1>1. roster \in RosterRecord
  BY PlannerAssumption DEF Init
<1>2. TypeOK
  BY <1>1 DEF Init, TypeOK
<1>3. Charged /\ ServesFit /\ PlanFits
  BY DEF Init, Charged, ServesFit, PlanFits
<1>4. AdmissionProbed
  BY DEF Init, AdmissionProbed
<1> QED
  BY <1>2, <1>3, <1>4 DEF IInv

LEMMA StepKeeps ==
  ASSUME IInv, [Next]_vars
  PROVE  IInv'
<1>1. CASE StartGroup
  BY <1>1, StartGroupKeeps
<1>2. CASE Lacks
  BY <1>2, SkipKeeps DEF Lacks
<1>3. CASE Unserved
  BY <1>3, SkipKeeps DEF Unserved
<1>4. CASE ZeroFloor
  <2>1. phase' = "crashed"
        /\ UNCHANGED <<roster, mi, gi, di, charge, serves, plan, entries,
                      admission>>
    BY <1>4 DEF ZeroFloor
  <2>2. TypeOK'
    BY <2>1 DEF IInv, TypeOK
  <2> QED
    BY <2>1, <2>2 DEF IInv, Charged, ServesFit, PlanFits, AdmissionProbed
<1>5. CASE ServeAuto
  BY <1>5, ServeAutoKeeps
<1>6. CASE ServePinned
  BY <1>6, ServePinnedKeeps
<1>7. CASE FinishGroup
  BY <1>7, FinishGroupKeeps
<1>8. CASE Verify
  BY <1>8, VerifyKeeps
<1>9. CASE UNCHANGED vars
  <2>1. TypeOK'
    BY <1>9 DEF vars, IInv, TypeOK
  <2> QED
    BY <1>9, <2>1 DEF vars, IInv, Charged, ServesFit, PlanFits,
                      AdmissionProbed, Model, Grp
<1> QED
  BY <1>1, <1>2, <1>3, <1>4, <1>5, <1>6, <1>7, <1>8, <1>9 DEF Next

\* The invariant of the planning loop: charge, servings, plan and admission
\* stay linked through every step of plan().
THEOREM Inductive == Spec => []IInv
<1>1. Init => IInv
  BY InitHolds
<1>2. IInv /\ [Next]_vars => IInv'
  BY StepKeeps
<1> QED
  BY <1>1, <1>2, PTL DEF Spec

-----------------------------------------------------------------------------
(* What follows from it *)

\* For every fleet plan() starts from, its state keeps its type: no entry
\* refers to a variant that does not exist, no admission to an unknown set.
THEOREM TypeCorrect == Spec => []TypeOK
<1>1. IInv => TypeOK
  BY DEF IInv
<1> QED
  BY <1>1, Inductive, PTL

LEMMA FootprintInt ==
  ASSUME NEW m \in ModelRecord(Ids), NEW vision \in BOOLEAN, NEW ctx \in Int,
         NEW par \in Nat
  PROVE  Footprint(m, vision, TRUE, ctx, par) \in Int
<1> DEFINE k == PerToken(m, TRUE)
           s == PerSlot(m, TRUE)
           f == Fixed(m, vision, TRUE)
<1>1. f \in Nat /\ k \in Nat /\ s \in Nat
  BY CostsTyped, TRUE \in BOOLEAN
<1> HIDE DEF k, s, f
<1>2. f + (k * ctx + s) * par \in Int
  BY <1>1
<1> QED
  BY <1>2 DEF Footprint, Context, k, s, f

\* The footprint of a variant of the plan is a size.
LEMMA FootprintTyped ==
  ASSUME TypeOK, NEW i \in DOMAIN plan, NEW m \in ModelRecord(Ids)
  PROVE  /\ Footprint(m, plan[i].vision, TRUE, plan[i].ctx, plan[i].par) \in Int
         /\ plan[i].spare \in Nat
<1>1. plan[i] \in VariantRecord
  BY DEF TypeOK
<1>2. /\ plan[i].vision \in BOOLEAN /\ plan[i].ctx \in Int
      /\ plan[i].par \in Nat /\ plan[i].spare \in Nat
  BY <1>1 DEF VariantRecord
<1>3. Footprint(m, plan[i].vision, TRUE, plan[i].ctx, plan[i].par) \in Int
  BY <1>2, FootprintInt
<1> QED
  BY <1>2, <1>3

\* A variant that fits under some charge fits under anything smaller.
LEMMA FitsBelow ==
  ASSUME TypeOK, NEW i \in DOMAIN plan, NEW m \in ModelRecord(Ids),
         NEW a \in Nat, NEW b \in Nat, a <= b, Fits(m, plan[i], b)
  PROVE  Fits(m, plan[i], a)
<1>1. /\ Available(a) \in Int /\ Available(b) \in Int
      /\ Available(b) <= Available(a)
  BY AvailableAntitone
<1>2. Footprint(m, plan[i].vision, TRUE, plan[i].ctx, plan[i].par) \in Int
  BY FootprintTyped
<1> DEFINE need == Footprint(m, plan[i].vision, TRUE, plan[i].ctx, plan[i].par)
<1>3. need <= Available(b)
  BY DEF Fits
<1>4. need \in Int
  BY <1>2
<1> HIDE DEF need
<1>5. need <= Available(a)
  BY <1>1, <1>3, <1>4
<1> QED
  BY <1>5 DEF Fits, need

\* What the invariant knows of a variant on the card.
LEMMA VariantFits ==
  ASSUME IInv, NEW i \in DOMAIN plan,
         OnCard(roster.models[plan[i].model]), Sound(roster.models[plan[i].model])
  PROVE  /\ roster.models[plan[i].model] \in ModelRecord(Ids)
         /\ plan[i].demand \in Asked(roster.models[plan[i].model])
         /\ \E c \in Nat :
              /\ IsCharge(c, roster, roster.models[plan[i].model])
              /\ Fits(roster.models[plan[i].model], plan[i], plan[i].spare + c)
<1>1. /\ roster.models \in Seq(ModelRecord(Ids))
      /\ roster.base \in Nat /\ roster.overhead \in [Sets -> Nat]
  BY DEF IInv, TypeOK, RosterRecord
<1>2. /\ plan[i].model \in DOMAIN roster.models
      /\ plan[i].demand \in Asked(roster.models[plan[i].model])
      /\ \E c \in {roster.base} \cup {roster.overhead[s] : s \in Sets} :
           /\ IsCharge(c, roster, roster.models[plan[i].model])
           /\ Fits(roster.models[plan[i].model], plan[i], plan[i].spare + c)
  BY DEF IInv, PlanFits
<1>3. \A c \in {roster.base} \cup {roster.overhead[s] : s \in Sets} : c \in Nat
  BY <1>1
<1> QED
  BY <1>1, <1>2, <1>3

\* On every card and for every fleet, an entry of a model outside the two
\* unsound shapes fits in what its group leaves of the card.
THEOREM EntriesFitTheCard == Spec => []SoundEntriesFit
<1>1. IInv => SoundEntriesFit
  <2> SUFFICES ASSUME IInv, NEW i \in entries,
                      OnCard(roster.models[plan[i].model]),
                      Sound(roster.models[plan[i].model])
               PROVE  Fits(roster.models[plan[i].model], plan[i], plan[i].spare)
    BY DEF SoundEntriesFit
  <2>1. TypeOK /\ i \in DOMAIN plan
    BY DEF IInv, TypeOK
  <2> DEFINE m == roster.models[plan[i].model]
  <2>2. m \in ModelRecord(Ids)
    BY <2>1, VariantFits
  <2>3. PICK c \in Nat : Fits(m, plan[i], plan[i].spare + c)
    BY <2>1, VariantFits
  <2> HIDE DEF m
  <2>4. plan[i].spare \in Nat
    BY <2>1, <2>2, FootprintTyped
  <2>5. plan[i].spare + c \in Nat /\ plan[i].spare <= plan[i].spare + c
    BY <2>4
  <2>6. Fits(m, plan[i], plan[i].spare)
    BY <2>1, <2>2, <2>3, <2>4, <2>5, FitsBelow
  <2> QED
    BY <2>6 DEF m
<1> QED
  BY <1>1, Inductive, PTL

\* And, when its claim is of a single slot, it fits beside the residents of
\* every set its category may join: each was charged for.
THEOREM AdmittedEntriesFitTheirSets == Spec => []SoundAdmittedFit
<1>1. IInv => SoundAdmittedFit
  <2> SUFFICES ASSUME IInv, NEW i \in entries,
                      OnCard(roster.models[plan[i].model]),
                      Sound(roster.models[plan[i].model]),
                      plan[i].demand.minPar = 1,
                      NEW s \in admission[<<plan[i].model, plan[i].demand.id>>]
               PROVE  Fits(roster.models[plan[i].model], plan[i],
                           plan[i].spare + roster.overhead[s])
    BY DEF SoundAdmittedFit
  <2> DEFINE v == plan[i]
             m == roster.models[v.model]
  <2>1. TypeOK /\ i \in DOMAIN plan
    BY DEF IInv, TypeOK
  <2>2. m \in ModelRecord(Ids) /\ v.demand \in Asked(m)
    BY <2>1, VariantFits
  <2>3. PICK c \in Nat : IsCharge(c, roster, m) /\ Fits(m, plan[i], v.spare + c)
    BY <2>1, VariantFits
  <2>4. v.model \in DOMAIN roster.models /\ v.demand.id \in CatIds
    <3>1. v \in VariantRecord
      BY <2>1 DEF TypeOK
    <3>2. v.demand \in DemandRecord(CatIds)
      BY <3>1 DEF VariantRecord
    <3> QED
      BY <2>1, <3>2 DEF IInv, PlanFits, DemandRecord
  <2>5. /\ s \in Sets /\ v.demand.id \in Ids /\ Probe(roster, m, s) > 0
        /\ Probe(roster, m, s) >= Catalogue[v.demand.id].minCtx
    BY <2>1, <2>4 DEF IInv, TypeOK, AdmissionProbed
  <2>6. v.spare \in Nat /\ roster.overhead[s] \in Nat
    <3>1. roster.overhead \in [Sets -> Nat]
      BY <2>1 DEF TypeOK, RosterRecord
    <3> QED
      BY <2>1, <2>2, <2>5, <3>1, FootprintTyped
  <2> HIDE DEF m
  <2>7. PICK k \in DOMAIN m.claims : m.claims[k] = v.demand.id
    BY <2>2, <2>5, AskedNamed
  <2>8. Catalogue[m.claims[k]].minPar = 1
    BY <2>2, <2>5, <2>7, AskedNamed
  <2>9. s \in MetSets(roster, m)
    BY <2>5, <2>7, <2>8 DEF MetSets
  <2>10. m.claims # <<>> /\ Sets # {} /\ s \in ChargedSets(roster, m)
    BY <2>5, <2>7, <2>9 DEF ChargedSets
  <2>11. roster.overhead[s] <= c
    BY <2>3, <2>6, <2>10 DEF IsCharge
  <2>12. /\ v.spare + roster.overhead[s] \in Nat /\ v.spare + c \in Nat
         /\ v.spare + roster.overhead[s] <= v.spare + c
    BY <2>6, <2>11
  <2>13. Fits(m, plan[i], v.spare + roster.overhead[s])
    BY <2>1, <2>2, <2>3, <2>12, FitsBelow
  <2> QED
    BY <2>13 DEF m
<1> QED
  BY <1>1, Inductive, PTL
-----------------------------------------------------------------------------
(* The floor a category's name promises *)

\* What a rung qualifies with, on a model a shed draft costs nothing, is at
\* least the category's minimum and at most the cap.
LEMMA RungReaches ==
  ASSUME NEW m \in ModelRecord(Ids), Sound(m), NEW d \in DemandRecord(CatIds),
         NEW slots, NEW spare, NEW target, NEW cap,
         NEW shed \in Rungs(m, d, slots, spare, target, cap)
  PROVE  BoundedCtx(m, "vision" \notin shed, TRUE, slots, spare,
                    target, cap) >= d.minCtx
<1> DEFINE vision == "vision" \notin shed
           draft  == "draft" \notin shed
           full   == TRUE
<1>1. BoundedCtx(m, vision, draft, slots, spare, target, cap) >= d.minCtx
  BY DEF Rungs, RungCtx
<1> HIDE DEF vision, draft, full
<1>2. CalcCtx(m, vision, draft, slots, spare, target)
        = CalcCtx(m, vision, full, slots, spare, target)
  BY NoDraft
<1> QED
  BY <1>1, <1>2, Zenon DEF vision, full, BoundedCtx

\* Every candidate of the slot search serves the floor it searched for.
LEMMA CandidateReaches ==
  ASSUME NEW m, NEW vision, NEW floor \in Nat, NEW spare, NEW target, NEW cap, NEW pin,
         NEW c \in SlotCandidates(m, vision, floor, spare, target, cap, pin)
  PROVE  c.ctx >= floor
<1> DEFINE most(p)  == BoundedCtx(m, vision, TRUE, p, spare, target, cap)
           serve(p) == IF pin # 0 THEN AtMost(pin, cap) ELSE most(p)
<1>1. PICK p \in 1 .. AutoParallelMax :
        c = [par |-> p, ctx |-> serve(p)] /\ serve(p) >= floor
  BY DEF SlotCandidates
<1> HIDE DEF serve
<1> QED
  BY <1>1

\* The premise of SoundCategoryFloor, for a demand of a model.
Promised(m, d) == m.measured /\ Sound(m) /\ (m.floor = 0 \/ m.floor >= d.minCtx)

\* The floor of the search is no lower than the category's: the rung that
\* qualified was solved under --max-context too.
LEMMA FloorCovers ==
  ASSUME TypeOK, mi \in DOMAIN roster.models, gi \in DOMAIN roster.groups,
         Demand \in DemandRecord(CatIds), Promised(Model, Demand), NEW shed \in Qualifying
  PROVE  /\ SearchFloor(Model, Demand, roster.pin) \in Nat
         /\ SearchFloor(Model, Demand, roster.pin) >= Demand.minCtx
         /\ Solved(Model, shed, Slots(Model, Grp)) >= Demand.minCtx
<1> DEFINE vision == "vision" \notin shed
           cap    == Cap(roster, Model)
           ctx    == BoundedCtx(Model, vision, TRUE, Slots(Model, Grp), Spare, roster.target, cap)
<1>1. /\ Model \in ModelRecord(Ids) /\ Slots(Model, Grp) \in Nat \ {0} /\ Spare \in Nat
      /\ cap \in Nat /\ roster.target \in Nat /\ roster.pin \in Nat
  BY Inputs
<1>2. Model.floor \in Nat /\ Model.design \in Nat \ {0} /\ Demand.minCtx \in Nat
  BY <1>1 DEF ModelRecord, DemandRecord
<1>3. ctx >= Demand.minCtx
  <2>1. shed \in Rungs(Model, Demand, Slots(Model, Grp), Spare, roster.target, cap)
    BY DEF Qualifying
  <2> QED
    BY <1>1, <2>1, RungReaches DEF Promised
<1>4. Solved(Model, shed, Slots(Model, Grp)) = ctx
  BY DEF Solved
<1>5. vision \in BOOLEAN
  OBVIOUS
<1> HIDE DEF vision
<1>6. roster.pin # 0 => ctx <= roster.pin
  <2>1. roster.pin # 0 => cap # 0 /\ cap <= roster.pin
    BY <1>1, <1>2 DEF Cap, AtMost
  <2>2. CalcCtx(Model, vision, TRUE, Slots(Model, Grp), Spare, roster.target).ctx \in Int
    BY <1>1, <1>5, CalcCtxInt, TRUE \in BOOLEAN
  <2> DEFINE solve == CalcCtx(Model, vision, TRUE, Slots(Model, Grp), Spare, roster.target).ctx
  <2>3. ctx = AtMost(solve, cap) /\ solve \in Int /\ cap \in Nat
    BY <1>1, <2>2 DEF BoundedCtx
  <2> HIDE DEF cap, ctx, solve
  <2>4. cap # 0 => ctx <= cap /\ ctx \in Int
    BY <2>3 DEF AtMost
  <2> QED
    BY <1>1, <2>1, <2>3, <2>4
<1>7. ctx \in Int
  BY <1>1, <1>5, BoundedBelow, TRUE \in BOOLEAN
<1> HIDE DEF ctx
<1> QED
  BY <1>1, <1>2, <1>3, <1>4, <1>6, <1>7 DEF SearchFloor, Promised

\* What is served, and what was planned, keeps the floors it promises.
ServesFloor ==
  phase = "demands" =>
    \A k \in DOMAIN serves :
      Promised(Model, serves[k].demand) => serves[k].ctx >= serves[k].demand.minCtx

PlanFloor ==
  \A k \in DOMAIN plan :
    Promised(roster.models[plan[k].model], plan[k].demand) => plan[k].ctx >= plan[k].demand.minCtx

LEMMA RecordFloors ==
  ASSUME IInv, ServesFloor, PlanFloor, Deciding, NEW vision, NEW par, NEW ctx,
         Promised(Model, Demand) => ctx >= Demand.minCtx,
         Record(vision, par, ctx), NextDemand
  PROVE  ServesFloor' /\ PlanFloor'
<1> DEFINE v == Serving(Demand, vision, par, ctx)
<1>1. /\ phase = "demands" /\ roster' = roster /\ mi' = mi /\ plan' = plan
      /\ serves' = Append(serves, v)
  BY DEF Deciding, NextDemand, Record
<1>2. serves \in Seq(ServingRecord) /\ Model' = Model
  BY <1>1 DEF IInv, TypeOK, Model
<1>3. v.demand = Demand /\ v.ctx = ctx
  BY DEF Serving
<1> HIDE DEF v
<1>4. /\ DOMAIN serves' = DOMAIN serves \cup {Len(serves) + 1}
      /\ \A k \in DOMAIN serves : serves'[k] = serves[k]
      /\ serves'[Len(serves) + 1] = v
  BY <1>1, <1>2
<1>5. ServesFloor'
  <2> SUFFICES ASSUME NEW k \in DOMAIN serves', Promised(Model, serves'[k].demand)
               PROVE  serves'[k].ctx >= serves'[k].demand.minCtx
    BY <1>1, <1>2 DEF ServesFloor, Promised, Sound, HasVision
  <2> QED
    BY <1>1, <1>3, <1>4 DEF ServesFloor
<1>6. PlanFloor'
  BY <1>1 DEF PlanFloor, Promised, Sound, HasVision
<1> QED
  BY <1>5, <1>6

LEMMA ServeAutoFloors ==
  ASSUME IInv, ServesFloor, PlanFloor, ServeAuto
  PROVE  ServesFloor' /\ PlanFloor'
<1>1. Deciding /\ NextDemand /\ AutoParallel(roster, Model, Grp)
  BY DEF ServeAuto
<1>2. TypeOK /\ mi \in DOMAIN roster.models /\ gi \in DOMAIN roster.groups
  BY <1>1 DEF IInv, Charged, Deciding
<1>3. Demand \in DemandRecord(CatIds)
  BY <1>1, <1>2, Inputs, OrderTyped DEF Deciding, Demand
<1>4. PICK shed \in Qualifying :
        \E c \in AutoServings(Model, Demand, shed) :
          Record(Projector(Model, shed), c.par, c.ctx)
  BY DEF ServeAuto
<1>5. PICK c \in AutoServings(Model, Demand, shed) :
        Record(Projector(Model, shed), c.par, c.ctx)
  BY <1>4
<1>6. Promised(Model, Demand) => c.ctx >= Demand.minCtx
  <2> SUFFICES ASSUME Promised(Model, Demand) PROVE c.ctx >= Demand.minCtx
    OBVIOUS
  <2> DEFINE floor == SearchFloor(Model, Demand, roster.pin)
  <2>1. /\ floor \in Nat /\ floor >= Demand.minCtx
        /\ Solved(Model, shed, Slots(Model, Grp)) >= Demand.minCtx
    BY <1>2, <1>3, FloorCovers
  <2>2. CASE c \in Candidates(Model, Demand, shed)
    <3>1. c.ctx >= floor
      BY <2>1, <2>2, CandidateReaches DEF Candidates
    <3>2. c.ctx \in Int /\ Demand.minCtx \in Nat
      BY <1>2, <1>3, AutoTyped DEF DemandRecord
    <3> HIDE DEF floor
    <3> QED
      BY <2>1, <3>1, <3>2
  <2>3. CASE c = [par |-> Grp.par, ctx |-> Solved(Model, shed, Grp.par)]
    <3>1. Slots(Model, Grp) = Grp.par
      BY <1>1 DEF AutoParallel, Slots
    <3> QED
      BY <2>1, <2>3, <3>1
  <2> QED
    BY <2>2, <2>3 DEF AutoServings
<1> QED
  BY <1>1, <1>5, <1>6, RecordFloors

LEMMA ServePinnedFloors ==
  ASSUME IInv, ServesFloor, PlanFloor, ServePinned
  PROVE  ServesFloor' /\ PlanFloor'
<1>1. Deciding /\ NextDemand
  BY DEF ServePinned
<1>2. PICK shed \in Qualifying :
        LET par == Slots(Model, Grp)
            ctx == Solved(Model, shed, par)
        IN  IF ctx < Demand.minCtx THEN UNCHANGED <<serves, admission>>
            ELSE Record(Projector(Model, shed), par, ctx)
  BY DEF ServePinned
<1> DEFINE par == Slots(Model, Grp)
           ctx == Solved(Model, shed, par)
<1>3. CASE UNCHANGED <<serves, admission>>
  BY <1>1, <1>3 DEF NextDemand, ServesFloor, PlanFloor, Promised, Sound, HasVision, Model
<1>4. CASE ~(ctx < Demand.minCtx) /\ Record(Projector(Model, shed), par, ctx)
  <2>1. TypeOK /\ mi \in DOMAIN roster.models /\ gi \in DOMAIN roster.groups
    BY <1>1 DEF IInv, Charged, Deciding
  <2>2. Demand.minCtx \in Nat
    BY <1>1, <2>1, Inputs, OrderTyped DEF Deciding, Demand, DemandRecord
  <2>3. ctx \in Int
    <3>1. par \in Nat \ {0}
      BY <2>1, Inputs
    <3> QED
      BY <2>1, <3>1, SolvedTyped
  <2> HIDE DEF ctx
  <2>4. ctx >= Demand.minCtx
    BY <1>4, <2>2, <2>3
  <2> QED
    BY <1>1, <1>4, <2>4, RecordFloors
<1> QED
  BY <1>2, <1>3, <1>4

\* A group makes what it served, nothing, or the one entry of a model no
\* source could measure, to which no floor is promised.
LEMMA MadeFloors ==
  ASSUME IInv, ServesFloor, phase = "demands", mi \in DOMAIN roster.models,
         gi \in DOMAIN roster.groups
  PROVE  /\ Made \in Seq(ServingRecord)
         /\ \A i \in 1 .. Len(Made) :
              Promised(Model, Made[i].demand) => Made[i].ctx >= Made[i].demand.minCtx
<1> DEFINE made == Made
<1>1. TypeOK /\ serves \in Seq(ServingRecord)
  BY DEF IInv, TypeOK
<1>2. \/ made = serves \/ made = <<>>
      \/ /\ ~Model.measured
         /\ made = <<Serving(Fallback, HasVision(Model), Slots(Model, Grp),
                            UnestimatedCtx(Model))>>
  BY DEF Made, Kept
<1> HIDE DEF made
<1>3. CASE made = serves
  BY <1>1, <1>3 DEF ServesFloor, made
<1>4. CASE made = <<>>
  BY <1>4 DEF made
<1>5. CASE /\ ~Model.measured
           /\ made = <<Serving(Fallback, HasVision(Model), Slots(Model, Grp),
                              UnestimatedCtx(Model))>>
  <2>1. Serving(Fallback, HasVision(Model), Slots(Model, Grp), UnestimatedCtx(Model)) \in ServingRecord
    BY <1>1, UnestimatedTyped
  <2> QED
    BY <1>5, <2>1 DEF Promised, made
<1> QED
  BY <1>2, <1>3, <1>4, <1>5

LEMMA FinishGroupFloors ==
  ASSUME IInv, ServesFloor, PlanFloor, FinishGroup
  PROVE  ServesFloor' /\ PlanFloor'
<1> DEFINE made == Made
<1>1. /\ phase = "demands" /\ roster' = roster /\ AfterGroup
      /\ plan' = plan \o [i \in 1 .. Len(made) |-> Variant(made[i])]
  BY DEF FinishGroup
<1>2. TypeOK /\ mi \in DOMAIN roster.models /\ gi \in DOMAIN roster.groups
  BY <1>1 DEF IInv, Charged
<1>3. /\ made \in Seq(ServingRecord)
      /\ \A i \in 1 .. Len(made) : Promised(Model, made[i].demand) => made[i].ctx >= made[i].demand.minCtx
  BY <1>1, <1>2, MadeFloors
<1> HIDE DEF made
<1>4. \A i \in DOMAIN plan' :
        \/ i \in DOMAIN plan /\ plan'[i] = plan[i]
        \/ /\ i - Len(plan) \in 1 .. Len(made)
           /\ plan'[i] = Variant(made[i - Len(plan)])
  BY <1>1, <1>2, <1>3, PlanGrows
<1>5. ServesFloor'
  BY <1>1 DEF AfterGroup, ServesFloor
<1>6. PlanFloor'
  <2> SUFFICES ASSUME NEW k \in DOMAIN plan',
                      Promised(roster.models[plan'[k].model], plan'[k].demand)
               PROVE  plan'[k].ctx >= plan'[k].demand.minCtx
    BY <1>1 DEF PlanFloor, Promised, Sound, HasVision
  <2>1. CASE k \in DOMAIN plan /\ plan'[k] = plan[k]
    BY <2>1 DEF PlanFloor
  <2>2. CASE /\ k - Len(plan) \in 1 .. Len(made)
             /\ plan'[k] = Variant(made[k - Len(plan)])
    <3> DEFINE w == made[k - Len(plan)]
    <3>1. /\ plan'[k].model = mi /\ plan'[k].demand = w.demand /\ plan'[k].ctx = w.ctx
      BY <2>2 DEF Variant
    <3>2. Promised(Model, w.demand) => w.ctx >= w.demand.minCtx
      BY <1>3, <2>2
    <3> HIDE DEF w
    <3> QED
      BY <3>1, <3>2 DEF Model
  <2> QED
    BY <1>4, <2>1, <2>2
<1> QED
  BY <1>5, <1>6

LEMMA FloorsKept ==
  ASSUME IInv, ServesFloor, PlanFloor, [Next]_vars
  PROVE  ServesFloor' /\ PlanFloor'
<1>1. CASE StartGroup
  BY <1>1 DEF StartGroup, ServesFloor, PlanFloor, Promised, Sound, HasVision
<1>2. CASE Lacks \/ Unserved \/ ZeroFloor \/ Verify \/ UNCHANGED vars
  BY <1>2 DEF Lacks, Unserved, ZeroFloor, Verify, NextDemand, vars, ServesFloor, PlanFloor,
              Promised, Sound, HasVision, Model
<1>3. CASE ServeAuto
  BY <1>3, ServeAutoFloors
<1>4. CASE ServePinned
  BY <1>4, ServePinnedFloors
<1>5. CASE FinishGroup
  BY <1>5, FinishGroupFloors
<1> QED
  BY <1>1, <1>2, <1>3, <1>4, <1>5 DEF Next

\* For every fleet: an entry carrying a category's name serves its minimum,
\* unless the sidecar's own min_context replaced it or a draft was folded in
\* behind the ladder's back.
THEOREM NamesKeepTheirFloor == Spec => []SoundCategoryFloor
<1>1. Init => ServesFloor /\ PlanFloor
  BY DEF Init, ServesFloor, PlanFloor
<1>2. IInv /\ ServesFloor /\ PlanFloor /\ [Next]_vars => (ServesFloor /\ PlanFloor)'
  BY FloorsKept
<1>3. IInv /\ PlanFloor => SoundCategoryFloor
  BY DEF IInv, TypeOK, PlanFloor, Promised, SoundCategoryFloor
<1> QED
  BY <1>1, <1>2, <1>3, Inductive, PTL DEF Spec

-----------------------------------------------------------------------------
(* The floor under every category *)

\* What the fallback may give up is the whole default order; a category may
\* name more than that, and then nothing backs what it named.
ShedCovers ==
  \A id \in Ids : "vision" \in ToSet(Catalogue[id].sacrifice) => "vision" \in ToSet(DefaultShed)

Covered(d) == "vision" \in Sheddable(d) => "vision" \in ToSet(DefaultShed)

\* The fallback's ladder at the current solve has a rung to stand on.
Backed ==
  Rungs(Model, Fallback, Slots(Model, Grp), Spare, roster.target, Cap(roster, Model)) # {}

\* Host-RAM entries of a solve are all alike: what a capability costs never
\* enters their context, so nothing is shed for it.
Alike(v) ==
  /\ v.vision = HasVision(Model) /\ v.par = Slots(Model, Grp)
  /\ v.ctx = Solved(Model, {}, Slots(Model, Grp))

ServesBacked ==
  phase = "demands" =>
    \A k \in DOMAIN serves :
      Sound(Model) /\ (Model.measured \/ Model.cpu) =>
        /\ Model.cpu => Alike(serves[k])
        /\ serves[k].demand.minCtx >= MinCtx =>
             /\ Backed
             /\ di > Len(Model.claims) + 1 =>
                  \E l \in DOMAIN serves : serves[l].demand.id = Fallback.id

PlanBacked ==
  phase # "done" =>
    \A i \in entries :
      Sound(roster.models[plan[i].model]) /\ plan[i].demand.minCtx >= MinCtx =>
        \E j \in entries : /\ plan[j].model = plan[i].model
                           /\ plan[j].spare = plan[i].spare
                           /\ plan[j].demand.id = Fallback.id

LEMMA FallbackLadder ==
  /\ {} \in ShedLevels(Fallback)
  /\ ToSet(DefaultShed) \in ShedLevels(Fallback)
BY DEF ShedLevels, Sheddable, Fallback, ToSet

LEMMA NothingFirst ==
  ASSUME NEW d
  PROVE  {} \in ShedLevels(d)
BY DEF ShedLevels

\* A claim gives up what its task names, or what the default order names.
LEMMA AskedCovered ==
  ASSUME ShedCovers, NEW m \in ModelRecord(Ids), NEW d \in Asked(m)
  PROVE  Covered(d)
<1>1. CASE d = Fallback
  BY <1>1 DEF Covered, Sheddable, Fallback, ToSet
<1>2. CASE \E k \in DOMAIN m.claims : d = Claimed(m, m.claims[k])
  <2>1. PICK k \in DOMAIN m.claims : d = Claimed(m, m.claims[k])
    BY <1>2
  <2>2. m.claims[k] \in Ids /\ Catalogue[m.claims[k]] \in DemandRecord(Ids)
    <3>1. m.claims \in Seq(Ids)
      BY DEF ModelRecord
    <3> QED
      BY <3>1, PlannerAssumption
  <2>3. d.sacrifice = Catalogue[m.claims[k]].sacrifice
    BY <2>1, <2>2 DEF Claimed, DemandRecord
  <2> QED
    BY <2>2, <2>3 DEF ShedCovers, Covered, Sheddable
<1> QED
  BY <1>1, <1>2 DEF Asked

\* A category served at all leaves the fallback a rung: the same solve with the
\* projector kept, or with everything of the default order given up.
LEMMA RungBacks ==
  ASSUME TypeOK, mi \in DOMAIN roster.models, gi \in DOMAIN roster.groups,
         Sound(Model), NEW d \in DemandRecord(CatIds), d.minCtx >= MinCtx, Covered(d),
         NEW shed \in Rungs(Model, d, Slots(Model, Grp), Spare, roster.target, Cap(roster, Model))
  PROVE  Backed
<1> DEFINE slots == Slots(Model, Grp)
           cap   == Cap(roster, Model)
           ctx(vision, draft)  == BoundedCtx(Model, vision, draft, slots, Spare, roster.target, cap)
           over(vision, draft) == CalcCtx(Model, vision, draft, slots, Spare, roster.target).over
           kept  == IF "vision" \in shed THEN ToSet(DefaultShed) ELSE {}
<1>1. /\ Model \in ModelRecord(Ids) /\ slots \in Nat \ {0} /\ Spare \in Nat
      /\ cap \in Nat /\ roster.target \in Nat /\ roster.pin \in Nat
  BY Inputs
<1>2. /\ ctx("vision" \notin shed, "draft" \notin shed) > 0
      /\ ctx("vision" \notin shed, "draft" \notin shed) >= d.minCtx
      /\ ~over("vision" \notin shed, "draft" \notin shed)
      /\ shed \in SUBSET Sheddable(d)
  BY DEF Rungs, RungCtx, ShedLevels
<1>3. kept \in ShedLevels(Fallback) /\ ("vision" \in kept <=> "vision" \in shed)
  BY <1>2, FallbackLadder DEF Covered
<1> HIDE DEF kept
<1>4. ASSUME NEW vision, NEW draft, NEW other
      PROVE  /\ ctx(vision, draft) = ctx(vision, other)
             /\ over(vision, draft) = over(vision, other)
  <2>1. CalcCtx(Model, vision, draft, slots, Spare, roster.target)
          = CalcCtx(Model, vision, other, slots, Spare, roster.target)
    BY <1>1, NoDraft
  <2> QED
    BY <2>1 DEF BoundedCtx
<1>5. ctx("vision" \notin shed, "draft" \notin shed) \in Int
  <2> HIDE DEF slots, cap
  <2>1. ("vision" \notin shed) \in BOOLEAN /\ ("draft" \notin shed) \in BOOLEAN
    OBVIOUS
  <2> QED
    BY <1>1, <2>1, BoundedBelow
<1> HIDE DEF ctx, over
<1> DEFINE vision == "vision" \notin shed
           draft  == "draft" \notin kept
<1>6. /\ ctx(vision, draft) > 0 /\ ctx(vision, draft) >= MinCtx /\ ~over(vision, draft)
  <2>1. d.minCtx \in Nat /\ MinCtx \in Nat
    BY ServingAssumption DEF DemandRecord
  <2>2. ctx(vision, draft) = ctx(vision, "draft" \notin shed)
        /\ over(vision, draft) = over(vision, "draft" \notin shed)
    BY <1>4
  <2> HIDE DEF vision, draft
  <2>3. /\ ctx(vision, "draft" \notin shed) > 0
        /\ ctx(vision, "draft" \notin shed) >= d.minCtx
        /\ ~over(vision, "draft" \notin shed)
    BY <1>2 DEF vision
  <2>4. ctx(vision, "draft" \notin shed) >= MinCtx
    BY <1>5, <2>1, <2>3 DEF vision
  <2> QED
    BY <2>2, <2>3, <2>4, Zenon
<1>7. vision = ("vision" \notin kept)
  BY <1>3
<1>8. kept \in Rungs(Model, Fallback, slots, Spare, roster.target, cap)
  <2>1. Fallback.minCtx = MinCtx
    BY DEF Fallback
  <2> QED
    BY <1>3, <1>6, <1>7, <2>1 DEF Rungs, RungCtx, ctx, over
<1> QED
  BY <1>8 DEF Backed

\* The claims come first, then the fallback, then the group ends.
LEMMA LastIsFallback ==
  ASSUME IInv, Deciding
  PROVE  /\ di \in Nat /\ Len(Model.claims) \in Nat /\ di <= Len(Model.claims) + 1
         /\ di = Len(Model.claims) + 1 => Demand = Fallback
         /\ Demand \in DemandRecord(CatIds) /\ Demand \in Asked(Model)
<1>1. TypeOK /\ mi \in DOMAIN roster.models /\ gi \in DOMAIN roster.groups
  BY DEF IInv, Charged, Deciding
<1>2. Model \in ModelRecord(Ids)
  BY <1>1, Inputs
<1>3. Len(Model.claims) \in Nat
  BY <1>2 DEF ModelRecord
<1>4. di \in 1 .. Len(Model.claims) + 1
  BY DEF Deciding, Order
<1>5. Demand \in DemandRecord(CatIds) /\ Demand \in Asked(Model)
  BY <1>2, OrderTyped DEF Deciding, Demand
<1> QED
  BY <1>3, <1>4, <1>5 DEF Demand, Order

LEMMA SkipBacks ==
  ASSUME IInv, ServesBacked, Deciding, NextDemand, UNCHANGED serves,
         Demand = Fallback /\ Sound(Model) => ~Backed
  PROVE  ServesBacked'
<1>1. /\ phase = "demands" /\ roster' = roster /\ mi' = mi /\ gi' = gi
      /\ charge' = charge /\ di' = di + 1
  BY DEF Deciding, NextDemand
<1>2. Model' = Model /\ Grp' = Grp /\ Spare' = Spare
  BY <1>1 DEF Model, Grp, Spare
<1>3. (Backed <=> Backed') /\ \A v : Alike(v) <=> Alike(v)'
  BY <1>1, <1>2 DEF Backed, Alike, Solved
<1> SUFFICES ASSUME NEW k \in DOMAIN serves, Sound(Model), Model.measured \/ Model.cpu
             PROVE  /\ Model.cpu => Alike(serves[k])
                    /\ serves[k].demand.minCtx >= MinCtx =>
                         /\ Backed
                         /\ di + 1 > Len(Model.claims) + 1 =>
                              \E l \in DOMAIN serves : serves[l].demand.id = Fallback.id
  BY <1>1, <1>2, <1>3 DEF ServesBacked, Sound, HasVision
<1>4. serves[k].demand.minCtx >= MinCtx => Backed
  BY <1>1 DEF ServesBacked
<1>5. Backed => ~(di + 1 > Len(Model.claims) + 1)
  BY LastIsFallback
<1> QED
  BY <1>1, <1>4, <1>5 DEF ServesBacked

LEMMA RecordBacks ==
  ASSUME IInv, ServesBacked, Deciding, NextDemand,
         NEW v, serves' = Append(serves, v), v.demand = Demand,
         Sound(Model) => /\ Demand.minCtx >= MinCtx => Backed
                         /\ Model.cpu => Alike(v)
  PROVE  ServesBacked'
<1>1. /\ phase = "demands" /\ roster' = roster /\ mi' = mi /\ gi' = gi
      /\ charge' = charge /\ di' = di + 1
  BY DEF Deciding, NextDemand
<1>2. Model' = Model /\ Grp' = Grp /\ Spare' = Spare
  BY <1>1 DEF Model, Grp, Spare
<1>3. (Backed <=> Backed') /\ \A w : Alike(w) <=> Alike(w)'
  BY <1>1, <1>2 DEF Backed, Alike, Solved
<1>4. serves \in Seq(ServingRecord)
  BY DEF IInv, TypeOK
<1>5. /\ DOMAIN serves' = DOMAIN serves \cup {Len(serves) + 1}
      /\ \A k \in DOMAIN serves : serves'[k] = serves[k]
      /\ serves'[Len(serves) + 1] = v
  BY <1>4
<1> SUFFICES ASSUME NEW k \in DOMAIN serves', Sound(Model), Model.measured \/ Model.cpu
             PROVE  /\ Model.cpu => Alike(serves'[k])
                    /\ serves'[k].demand.minCtx >= MinCtx =>
                         /\ Backed
                         /\ di + 1 > Len(Model.claims) + 1 =>
                              \E l \in DOMAIN serves' : serves'[l].demand.id = Fallback.id
  BY <1>1, <1>2, <1>3 DEF ServesBacked, Sound, HasVision
<1>6. /\ Model.cpu => Alike(serves'[k])
      /\ serves'[k].demand.minCtx >= MinCtx => Backed
  <2>1. CASE k \in DOMAIN serves
    BY <1>1, <1>5, <2>1 DEF ServesBacked
  <2>2. CASE k = Len(serves) + 1
    BY <1>5, <2>2
  <2> QED
    BY <1>5, <2>1, <2>2
<1>7. di + 1 > Len(Model.claims) + 1 => v.demand.id = Fallback.id
  BY LastIsFallback
<1> QED
  BY <1>5, <1>6, <1>7

\* A model in host memory affords the same whatever it sheds, so the winning
\* rung sheds nothing.
LEMMA HostShedsNothing ==
  ASSUME Model.cpu, NEW shed, Level(shed), Model.design \in Nat \ {0}, Cap(roster, Model) \in Nat
  PROVE  shed = {}
<1> DEFINE slots == Slots(Model, Grp)
           cap   == Cap(roster, Model)
           all   == Rungs(Model, Demand, slots, Spare, roster.target, cap)
           ctx(more) == RungCtx(Model, more, slots, Spare, roster.target, cap)
<1>1. \A more : ctx(more) = AtMost(Model.design, cap)
  BY DEF RungCtx, BoundedCtx, CalcCtx
<1>2. AtMost(Model.design, cap) \in Nat
  BY DEF AtMost
<1>3. shed \in all /\ \A more \in all :
        IF Demand.id = Fallback.id THEN shed \subseteq more
        ELSE \/ ctx(more) < ctx(shed)
             \/ ctx(more) = ctx(shed) /\ shed \subseteq more
  BY DEF Level, BestRung
<1>4. {} \in all
  <2>1. \A vision, draft : ~CalcCtx(Model, vision, draft, slots, Spare, roster.target).over
    BY DEF CalcCtx
  <2>2. ctx(shed) > 0 /\ ctx(shed) >= Demand.minCtx
    BY <1>3 DEF Rungs
  <2>3. ctx({}) > 0 /\ ctx({}) >= Demand.minCtx
    <3> HIDE DEF ctx
    <3> QED
      BY <1>1, <2>2
  <2> QED
    BY <2>1, <2>3, NothingFirst DEF Rungs
<1> HIDE DEF ctx, all
<1>5. shed \subseteq {}
  BY <1>1, <1>2, <1>3, <1>4
<1> QED
  BY <1>5

LEMMA ServePinnedBacks ==
  ASSUME IInv, ServesBacked, ShedCovers, ServePinned
  PROVE  ServesBacked'
<1> DEFINE par       == Slots(Model, Grp)
           ctx(shed) == Solved(Model, shed, par)
<1>1. Deciding /\ NextDemand
  BY DEF ServePinned
<1>2. PICK shed \in Qualifying :
        /\ Level(shed)
        /\ IF ctx(shed) < Demand.minCtx THEN UNCHANGED <<serves, admission>>
           ELSE Record(Projector(Model, shed), par, ctx(shed))
  BY DEF ServePinned
<1>3. TypeOK /\ mi \in DOMAIN roster.models /\ gi \in DOMAIN roster.groups
  BY <1>1 DEF IInv, Charged, Deciding
<1>4. /\ Model \in ModelRecord(Ids) /\ par \in Nat \ {0} /\ Spare \in Nat
      /\ Cap(roster, Model) \in Nat
  BY <1>3, Inputs
<1>5. Demand \in DemandRecord(CatIds) /\ Demand \in Asked(Model)
  BY <1>1, LastIsFallback
<1>6. shed \in Rungs(Model, Demand, par, Spare, roster.target, Cap(roster, Model))
  BY DEF Qualifying
<1>7. Sound(Model) /\ Demand.minCtx >= MinCtx => Backed
  BY <1>3, <1>4, <1>5, <1>6, AskedCovered, RungBacks
<1>8. Sound(Model) => ctx(shed) >= Demand.minCtx
  BY <1>4, <1>5, <1>6, RungReaches DEF Solved
<1>9. ctx(shed) \in Int /\ Demand.minCtx \in Nat
  BY <1>3, <1>4, <1>5, SolvedTyped DEF DemandRecord
<1>10. CASE ctx(shed) < Demand.minCtx
  <2>1. ~Sound(Model) /\ UNCHANGED serves
    <3> HIDE DEF ctx
    <3> QED
      BY <1>2, <1>8, <1>9, <1>10
  <2> QED
    BY <1>1, <2>1, SkipBacks
<1>11. CASE ~(ctx(shed) < Demand.minCtx)
  <2> DEFINE v == Serving(Demand, Projector(Model, shed), par, ctx(shed))
  <2>1. serves' = Append(serves, v) /\ v.demand = Demand
    BY <1>2, <1>11 DEF Record, Serving
  <2>2. Model.cpu => Alike(v)
    <3> SUFFICES ASSUME Model.cpu PROVE Alike(v)
      OBVIOUS
    <3>1. Model.design \in Nat \ {0}
      BY <1>4 DEF ModelRecord
    <3>2. shed = {}
      BY <1>2, <1>4, <3>1, HostShedsNothing
    <3> QED
      BY <3>2 DEF Alike, Serving, Projector, HasVision
  <2> HIDE DEF v
  <2> QED
    BY <1>1, <1>7, <2>1, <2>2, RecordBacks
<1> QED
  BY <1>10, <1>11

LEMMA ServeAutoBacks ==
  ASSUME IInv, ServesBacked, ShedCovers, ServeAuto
  PROVE  ServesBacked'
<1>1. Deciding /\ NextDemand /\ ~Model.cpu
  BY DEF ServeAuto, AutoParallel
<1>2. PICK shed \in Qualifying : \E c : Record(Projector(Model, shed), c.par, c.ctx)
  BY DEF ServeAuto
<1>3. PICK c : Record(Projector(Model, shed), c.par, c.ctx)
  BY <1>2
<1>4. TypeOK /\ mi \in DOMAIN roster.models /\ gi \in DOMAIN roster.groups
  BY <1>1 DEF IInv, Charged, Deciding
<1>5. Model \in ModelRecord(Ids)
  BY <1>4, Inputs
<1>6. Demand \in DemandRecord(CatIds) /\ Demand \in Asked(Model)
  BY <1>1, LastIsFallback
<1>7. shed \in Rungs(Model, Demand, Slots(Model, Grp), Spare, roster.target, Cap(roster, Model))
  BY DEF Qualifying
<1>8. Sound(Model) /\ Demand.minCtx >= MinCtx => Backed
  BY <1>4, <1>5, <1>6, <1>7, AskedCovered, RungBacks
<1> DEFINE v == Serving(Demand, Projector(Model, shed), c.par, c.ctx)
<1>9. serves' = Append(serves, v) /\ v.demand = Demand
  BY <1>3 DEF Record, Serving
<1> HIDE DEF v
<1> QED
  BY <1>1, <1>8, <1>9, RecordBacks

LEMMA MadeTyped ==
  ASSUME TypeOK, mi \in DOMAIN roster.models, gi \in DOMAIN roster.groups
  PROVE  Made \in Seq(ServingRecord)
<1> DEFINE other == Serving(Fallback, HasVision(Model), Slots(Model, Grp), UnestimatedCtx(Model))
<1>1. serves \in Seq(ServingRecord) /\ other \in ServingRecord
  BY UnestimatedTyped DEF TypeOK
<1>2. Made = <<>> \/ Made = serves \/ Made = <<other>>
  BY DEF Made, Kept
<1> HIDE DEF other
<1>3. <<other>> \in Seq(ServingRecord) /\ <<>> \in Seq(ServingRecord)
  BY <1>1
<1> QED
  BY <1>1, <1>2, <1>3

\* What a finished group emits for a category comes with its fallback.
LEMMA MadeBacked ==
  ASSUME IInv, ServesBacked, phase = "demands", di \notin DOMAIN Order(Model),
         Sound(Model), NEW k \in 1 .. Len(Made), HostFits(Model, Made[k]),
         Made[k].demand.minCtx >= MinCtx
  PROVE  \E l \in 1 .. Len(Made) :
           HostFits(Model, Made[l]) /\ Made[l].demand.id = Fallback.id
<1> DEFINE made == Made
           other == Serving(Fallback, HasVision(Model), Slots(Model, Grp), UnestimatedCtx(Model))
<1>1. TypeOK /\ mi \in DOMAIN roster.models /\ gi \in DOMAIN roster.groups
  BY DEF IInv, Charged
<1>2. Model \in ModelRecord(Ids) /\ serves \in Seq(ServingRecord)
  BY <1>1, Inputs DEF TypeOK
<1>3. \/ made = <<>>
      \/ made = serves /\ (Model.measured \/ Model.cpu)
      \/ made = <<other>>
  BY DEF Made, Kept
<1>4. CASE made = <<>>
  BY <1>4
<1>5. CASE made = <<other>>
  <2>1. k = 1 /\ made[k] = other
    BY <1>5
  <2>2. other.demand = Fallback
    BY DEF Serving
  <2> HIDE DEF other
  <2> QED
    BY <2>1, <2>2
<1>6. CASE made = serves /\ (Model.measured \/ Model.cpu)
  <2>1. k \in DOMAIN serves /\ serves[k].demand.minCtx >= MinCtx
    BY <1>2, <1>6
  <2>2. di > Len(Model.claims) + 1
    <3>1. di \in Nat \ {0} /\ Len(Model.claims) \in Nat
      BY <1>1, <1>2 DEF TypeOK, ModelRecord
    <3> QED
      BY <3>1 DEF Order
  <2>3. PICK l \in DOMAIN serves : serves[l].demand.id = Fallback.id
    BY <1>6, <2>1, <2>2 DEF ServesBacked
  <2>4. Model.cpu => Alike(serves[k]) /\ Alike(serves[l])
    BY <1>6, <2>1 DEF ServesBacked
  <2>5. HostFits(Model, serves[l])
    BY <1>6, <2>4 DEF HostFits, Alike
  <2> QED
    BY <1>2, <1>6, <2>3, <2>5
<1> QED
  BY <1>3, <1>4, <1>5, <1>6

LEMMA FinishGroupBacks ==
  ASSUME IInv, ServesBacked, PlanBacked, FinishGroup
  PROVE  ServesBacked' /\ PlanBacked'
<1> DEFINE made == Made
           fits == {j \in 1 .. Len(made) : HostFits(Model, made[j])}
<1>1. /\ phase = "demands" /\ roster' = roster /\ AfterGroup /\ di \notin DOMAIN Order(Model)
      /\ plan' = plan \o [i \in 1 .. Len(made) |-> Variant(made[i])]
      /\ entries' = entries \cup {Len(plan) + i : i \in fits}
  BY DEF FinishGroup
<1>2. TypeOK /\ mi \in DOMAIN roster.models /\ gi \in DOMAIN roster.groups
  BY <1>1 DEF IInv, Charged
<1>3. made \in Seq(ServingRecord) /\ plan \in Seq(VariantRecord) /\ entries \subseteq DOMAIN plan
  BY <1>2, MadeTyped DEF TypeOK
<1>4. \A k \in fits : Sound(Model) /\ made[k].demand.minCtx >= MinCtx =>
        \E l \in fits : made[l].demand.id = Fallback.id
  BY <1>1, MadeBacked
<1> HIDE DEF made, fits
<1>5. /\ \A i \in DOMAIN plan : plan'[i] = plan[i]
      /\ \A i \in fits : plan'[Len(plan) + i] = Variant(made[i])
  BY <1>1, <1>3 DEF fits
<1>6. ServesBacked'
  BY <1>1 DEF AfterGroup, ServesBacked
<1>7. PlanBacked'
  <2> SUFFICES ASSUME NEW k \in entries', Sound(roster.models[plan'[k].model]),
                      plan'[k].demand.minCtx >= MinCtx
               PROVE  \E j \in entries' : /\ plan'[j].model = plan'[k].model
                                          /\ plan'[j].spare = plan'[k].spare
                                          /\ plan'[j].demand.id = Fallback.id
    BY <1>1 DEF PlanBacked, Sound, HasVision
  <2>1. CASE k \in entries
    <3>1. plan'[k] = plan[k] /\ \A j \in entries : plan'[j] = plan[j]
      BY <1>3, <1>5, <2>1
    <3>2. PICK j \in entries : /\ plan[j].model = plan[k].model
                               /\ plan[j].spare = plan[k].spare
                               /\ plan[j].demand.id = Fallback.id
      BY <1>1, <2>1, <3>1 DEF PlanBacked
    <3> QED
      BY <1>1, <3>1, <3>2
  <2>2. CASE \E i \in fits : k = Len(plan) + i
    <3>1. PICK i \in fits : k = Len(plan) + i
      BY <2>2
    <3>2. ASSUME NEW l \in fits
          PROVE  /\ plan'[Len(plan) + l].model = mi
                 /\ plan'[Len(plan) + l].spare = Grp.spare
                 /\ plan'[Len(plan) + l].demand = made[l].demand
      <4> DEFINE w == Variant(made[l])
      <4>1. plan'[Len(plan) + l] = w
        BY <1>5
      <4>2. w.model = mi /\ w.spare = Grp.spare /\ w.demand = made[l].demand
        BY DEF Variant
      <4> HIDE DEF w
      <4> QED
        BY <4>1, <4>2
    <3>3. PICK l \in fits : made[l].demand.id = Fallback.id
      BY <1>4, <3>1, <3>2 DEF Model
    <3> QED
      BY <1>1, <3>1, <3>2, <3>3
  <2> QED
    BY <1>1, <2>1, <2>2
<1> QED
  BY <1>6, <1>7

LEMMA BackingKept ==
  ASSUME IInv, ServesBacked, PlanBacked, ShedCovers, [Next]_vars
  PROVE  ServesBacked' /\ PlanBacked'
<1>1. CASE StartGroup
  BY <1>1 DEF StartGroup, ServesBacked, PlanBacked, Sound, HasVision
<1>2. CASE ZeroFloor \/ Verify
  BY <1>2 DEF ZeroFloor, Verify, Deciding, ServesBacked, PlanBacked, Sound, HasVision
<1>3. CASE UNCHANGED vars
  BY <1>3 DEF vars, ServesBacked, PlanBacked, Sound, HasVision, Backed, Alike, Solved, Model, Grp, Spare
<1>4. CASE Lacks \/ Unserved \/ ServeAuto \/ ServePinned
  <2>1. PlanBacked'
    BY <1>4 DEF Lacks, Unserved, ServeAuto, ServePinned, Deciding, NextDemand, PlanBacked, Sound, HasVision
  <2>2. CASE Lacks
    <3>1. Demand = Fallback /\ Sound(Model) => ~Backed
      BY <2>2 DEF Lacks, CanMeet, Fallback
    <3>2. Deciding /\ NextDemand /\ UNCHANGED serves
      BY <2>2 DEF Lacks
    <3> QED
      BY <2>1, <3>1, <3>2, SkipBacks
  <2>3. CASE Unserved
    <3>1. Demand = Fallback /\ Sound(Model) => ~Backed
      BY <2>3 DEF Unserved, Qualifying, Backed
    <3>2. Deciding /\ NextDemand /\ UNCHANGED serves
      BY <2>3 DEF Unserved
    <3> QED
      BY <2>1, <3>1, <3>2, SkipBacks
  <2> QED
    BY <1>4, <2>1, <2>2, <2>3, ServeAutoBacks, ServePinnedBacks
<1>5. CASE FinishGroup
  BY <1>5, FinishGroupBacks
<1> QED
  BY <1>1, <1>2, <1>3, <1>4, <1>5 DEF Next

\* For every fleet whose default order holds what its tasks may give up: no
\* group of a sound model serves a category of at least the minimum context
\* without its unnamed fallback beside it.
THEOREM FallbackUnderEveryCategory ==
  ASSUME ShedCovers
  PROVE  Spec => []FallbackStands
<1>1. Init => ServesBacked /\ PlanBacked
  BY DEF Init, ServesBacked, PlanBacked
<1>2. IInv /\ ServesBacked /\ PlanBacked /\ [Next]_vars => (ServesBacked /\ PlanBacked)'
  BY BackingKept
<1>3. PlanBacked => FallbackStands
  BY DEF PlanBacked, FallbackStands
<1> QED
  BY <1>1, <1>2, <1>3, Inductive, PTL DEF Spec

=============================================================================
