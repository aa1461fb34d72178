------------------------------- MODULE Serving -------------------------------
(***************************************************************************)
(* How one chat model is sized against a VRAM budget: the affine memory    *)
(* law and the context it affords (llama_packer/vram.py), the shed ladder  *)
(* of a category, the floor of the (context, slots) search and the value   *)
(* function that ranks its candidates (llama_packer/writer.py).            *)
(*                                                                         *)
(* Everything here is a pure operator: the budget is an argument, so the   *)
(* planner's passes, the admission probe and the proofs read the same law. *)
(* Memory is in MiB, contexts are in tokens of any granularity; 0 stands   *)
(* for the "None" of an optional size, which no real size can be.          *)
(***************************************************************************)
EXTENDS Integers, FiniteSets, SequencesExt

CONSTANTS
  VramTotal,      \* MiB on the card
  Reserve,        \* _RESERVE_SYSTEM + max(_RESERVE_VIDEO, baseline_mb)
  MarginPct,      \* hardware.memory_margin, in percent
  MinCtx,         \* _MIN_CTX_SIZE
  RoundTo,        \* _CTX_ROUND_TO
  AutoParallelMax,\* matrix: auto_parallel_max
  SlotPower,      \* four times matrix: parallel_power
  DefaultShed     \* profiles.yaml shed:, a sequence of capabilities

ASSUME ServingAssumption ==
  /\ VramTotal \in Nat /\ Reserve \in Nat /\ MarginPct \in Nat
  /\ MinCtx \in Nat \ {0} /\ RoundTo \in Nat \ {0}
  /\ AutoParallelMax \in Nat \ {0}
  /\ SlotPower \in Nat
  /\ DefaultShed \in Seq({"vision", "draft"})

Capabilities == {"vision", "draft"}

AtMost(x, cap) == IF cap # 0 /\ cap < x THEN cap ELSE x
AtLeast(x, floor) == IF x < floor THEN floor ELSE x

(***************************************************************************)
(* A sidecar as the planner sees it.  `base' is weights plus compute of    *)
(* the measured block and `kv', `slot' its per-token and per-slot terms;   *)
(* `vision' is what folding the projector adds (0: the model has none) and *)
(* `draft' what folding a separate MTP draft adds to all three (zeroes     *)
(* when the block was measured with the draft running, or without one).    *)
(* `overlay' says the sidecar has an mmproj block, hence a second view.    *)
(* `design' is the architectural context, `ceiling' the sidecar's          *)
(* context_length, `floor' its min_context, `pin' its parallel, `image'    *)
(* the tokens one image and its answer need, `keepImage' a declared        *)
(* min_image_megapixels, `habit' the floor resolve_min_ctx guesses when    *)
(* nothing is declared, `measured' whether any estimate source works, and  *)
(* `claims' the ids of its tasks.                                          *)
(***************************************************************************)
Cost == [mem : Nat, kv : Nat, slot : Nat]

ModelRecord(TaskIds) ==
  [base : Nat, kv : Nat \ {0}, slot : Nat, vision : Nat, overlay : BOOLEAN,
   mtp : BOOLEAN, draft : Cost, design : Nat \ {0}, ceiling : Nat,
   floor : Nat, pin : Nat, image : Nat, keepImage : BOOLEAN, cpu : BOOLEAN,
   habit : Nat \ {0}, measured : BOOLEAN, claims : Seq(TaskIds)]

HasVision(m) == m.vision > 0
HasDraft(m)  == m.mtp

-----------------------------------------------------------------------------
(* The affine law *)

Available(spare) ==
  ((VramTotal - Reserve - spare) * 100) \div (100 + MarginPct)

\* effective_static: the measured block plus the companions a view carries.
Fixed(m, vision, draft) ==
  m.base + (IF vision THEN m.vision ELSE 0) + (IF draft THEN m.draft.mem ELSE 0)

PerToken(m, draft) == m.kv + (IF draft THEN m.draft.kv ELSE 0)
PerSlot(m, draft)  == m.slot + (IF draft THEN m.draft.slot ELSE 0)

Context(m, draft, ctx, slots) ==
  (PerToken(m, draft) * ctx + PerSlot(m, draft)) * slots

Footprint(m, vision, draft, ctx, slots) ==
  Fixed(m, vision, draft) + Context(m, draft, ctx, slots)

Remaining(m, vision, draft, spare) ==
  Available(spare) - Fixed(m, vision, draft)

\* The per-slot context the remainder buys.
Affordable(m, draft, remaining, slots) ==
  (remaining - PerSlot(m, draft) * slots) \div (PerToken(m, draft) * slots)

\* Room for one image and its answer, never above what is affordable.
RaiseToImageFloor(ctx, floor, affordable) ==
  IF floor <= ctx THEN ctx
  ELSE AtLeast(ctx, IF floor < affordable THEN floor ELSE affordable)

\* What a squeezed solve serves: rounded down, at least the minimum, under the
\* sidecar's ceiling, then raised for an image if the budget holds it.
Squeezed(m, vision, affordable) ==
  RaiseToImageFloor(
    AtMost(AtLeast((affordable \div RoundTo) * RoundTo, MinCtx), m.ceiling),
    IF vision THEN m.image ELSE 0, affordable)

\* Mutant of CalcCtx: clamp up to the minimum instead of reporting over budget.
CalcCtxClampsUp(m, vision, draft, slots, spare, target) ==
  LET goal == IF target # 0 THEN target ELSE m.design
      remaining == Remaining(m, vision, draft, spare)
  IN  [ctx |-> IF Context(m, draft, goal, slots) <= remaining
                 THEN AtMost(goal, m.ceiling)
               ELSE Squeezed(m, vision, Affordable(m, draft, remaining, slots)),
       over |-> FALSE]

\* calc_ctx: the context, and whether the solve flagged the budget.
CalcCtx(m, vision, draft, slots, spare, target) ==
  LET goal      == IF target # 0 THEN target ELSE m.design
      remaining == Remaining(m, vision, draft, spare)
      buys      == Affordable(m, draft, remaining, slots)
  IN  IF m.cpu
        THEN [ctx |-> m.design, over |-> FALSE]
      ELSE IF Available(spare) > 0 /\ ~m.measured
        THEN [ctx |-> goal, over |-> FALSE]
      ELSE IF remaining <= 0
        THEN [ctx |-> MinCtx, over |-> TRUE]
      ELSE IF Context(m, draft, goal, slots) <= remaining
        THEN [ctx |-> AtMost(goal, m.ceiling), over |-> FALSE]
      ELSE IF buys < MinCtx
        THEN [ctx |-> 0, over |-> TRUE]
      ELSE [ctx |-> Squeezed(m, vision, buys), over |-> FALSE]

\* _bounded_ctx: the solve under the entry's cap (0: none), --max-context
\* included.
BoundedCtx(m, vision, draft, slots, spare, target, cap) ==
  AtMost(CalcCtx(m, vision, draft, slots, spare, target).ctx, cap)

-----------------------------------------------------------------------------
(* A category and its ladder *)

DemandRecord(Ids) ==
  [id : Ids, minCtx : Nat, minPar : Nat \ {0}, require : SUBSET Capabilities,
   keep : SUBSET Capabilities, sacrifice : Seq(Capabilities)]

Fallback == [id |-> "fallback", minCtx |-> MinCtx, minPar |-> 1,
             require |-> {}, keep |-> {}, sacrifice |-> <<>>]

\* What a demand's ladder may give up, declared or not.
Sheddable(d) ==
  (ToSet(d.sacrifice) \cup ToSet(DefaultShed)) \ (d.require \cup d.keep)

Place(c, s) == CHOOSE i \in DOMAIN s : s[i] = c /\ \A j \in 1 .. i - 1 : s[j] # c

\* The turn a capability is given up at: the declared ones, then the rest.
Turn(c, d) ==
  IF c \in ToSet(d.sacrifice) THEN Place(c, d.sacrifice)
  ELSE Len(d.sacrifice) + Place(c, DefaultShed)

\* Mutant of ShedLevels: the fallback never gives a capability up.
ShedLevelsOfTheNamed(d) ==
  {shed \in SUBSET Sheddable(d) :
     /\ d.id = "fallback" => shed = {}
     /\ \A c \in shed, e \in Sheddable(d) \ shed : Turn(c, d) < Turn(e, d)}

\* One level per prefix of that order: nothing before its turn.
ShedLevels(d) ==
  {shed \in SUBSET Sheddable(d) :
     \A c \in shed, e \in Sheddable(d) \ shed : Turn(c, d) < Turn(e, d)}

CanMeet(m, d) ==
  /\ "vision" \in d.require => HasVision(m)
  /\ "draft" \in d.require => HasDraft(m)

RungCtx(m, shed, slots, spare, target, cap) ==
  BoundedCtx(m, "vision" \notin shed, "draft" \notin shed, slots, spare,
             target, cap)

\* Mutant of Rungs: any level that loads will do, whatever it affords.
RungsOfAnySize(m, d, slots, spare, target, cap) ==
  {shed \in ShedLevels(d) :
     ~CalcCtx(m, "vision" \notin shed, "draft" \notin shed, slots, spare, target).over}

\* Levels whose serving meets the category and loads.
Rungs(m, d, slots, spare, target, cap) ==
  {shed \in ShedLevels(d) :
     LET ctx == RungCtx(m, shed, slots, spare, target, cap)
     IN  /\ ctx > 0 /\ ctx >= d.minCtx
         /\ ~CalcCtx(m, "vision" \notin shed, "draft" \notin shed, slots, spare, target).over}

\* solve_rung's winner: most context then least shed for a category, least
\* shed for the fallback.
BestRung(shed, m, d, slots, spare, target, cap) ==
  LET ctx(more) == RungCtx(m, more, slots, spare, target, cap)
      all       == Rungs(m, d, slots, spare, target, cap)
  IN  /\ shed \in all
      /\ \A more \in all :
           IF d.id = Fallback.id THEN shed \subseteq more
           ELSE \/ ctx(more) < ctx(shed)
                \/ ctx(more) = ctx(shed) /\ shed \subseteq more

-----------------------------------------------------------------------------
(* The (context, slots) search *)

\* resolve_min_ctx as plan() calls it: the sidecar's min_context, then the
\* context --max-context pins, then the category's own minimum.
SearchFloor(m, d, pin) ==
  IF m.floor # 0 THEN m.floor ELSE IF pin # 0 THEN pin ELSE d.minCtx

\* Slot counts that reach the floor, before the first one that does not, with
\* the context each would serve: the pinned one, or the most it affords.
SlotCandidates(m, vision, floor, spare, target, cap, pin) ==
  LET most(p)  == BoundedCtx(m, vision, TRUE, p, spare, target, cap)
      serve(p) == IF pin # 0 THEN AtMost(pin, cap) ELSE most(p)
  IN  {[par |-> p, ctx |-> serve(p)] :
         p \in {q \in 1 .. AutoParallelMax :
                  /\ \A r \in 1 .. q : most(r) >= floor
                  /\ pin # 0 => most(q) >= pin
                  /\ serve(q) >= floor}}

\* A demand's min_parallel is preferred among the candidates, not required.
Preferred(cands, d) ==
  LET enough == {c \in cands : c.par >= d.minPar}
  IN  IF enough = {} THEN cands ELSE enough

\* parallel_value to the fourth power; slots count for nothing in a fallback.
Value(c, d) ==
  c.ctx * c.ctx * (IF d.id = Fallback.id THEN 1 ELSE c.par ^ SlotPower)

BestCandidate(c, cands, d) ==
  /\ c \in Preferred(cands, d)
  /\ \A o \in Preferred(cands, d) :
       Value(o, d) < Value(c, d) \/ (Value(o, d) = Value(c, d) /\ o.par <= c.par)

=============================================================================
