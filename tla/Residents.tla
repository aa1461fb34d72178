------------------------------ MODULE Residents -------------------------------
(***************************************************************************)
(* The shared solve of llama_packer/writer.py: the chat context a card     *)
(* affords beside the heaviest routing set, the squeeze that makes the     *)
(* embedding and rerank models yield context, the co-loads added while     *)
(* chat keeps its floor, and the price of every set afterwards.            *)
(*                                                                         *)
(* A set is what its expression allows to be resident at once: one option  *)
(* for every choice among its alternatives (SetExpr).  An option names the *)
(* embedding model, the rerank model, the co-loads, and declared           *)
(* categories, whose costs are fixed and enter as their sum.  A model is   *)
(* named by its variable or, as llama-swap allows, by its id.              *)
(***************************************************************************)
EXTENDS FiniteSets, FiniteSetsExt, Integers

CONSTANTS
  MinCtx, RoundTo,           \* _MIN_CTX_SIZE, _CTX_ROUND_TO
  ToolsMin, MinChat,         \* tools_min_ctx, min_chat_ctx
  ColoadMin, GainMin,        \* coload_min_ctx, ctx_gain_min
  RagCap,                    \* embed_context, rerank_context: per role
  Instances                  \* cards with their fleets: see InstanceRecord

Roles == {"emb", "rnk"}

\* mib: weights and compute; kv and slot: per token and per slot; kv = 0 for
\* a model no source can size, which rides along.
ChatRecord ==
  [mib : Nat, kv : Nat, slot : Nat, par : Nat \ {0}, design : Nat \ {0}, tools : BOOLEAN]

\* A resident on the CPU, or without an estimate, costs no VRAM.
RagRecord == [mib : Nat, kv : Nat, design : Nat \ {0}, cap : Nat]

\* vars, ids: which of the two are named by variable, which by id; fixed,
\* fixedIds: what the declared categories named either way cost.
Option ==
  [vars : SUBSET Roles, ids : SUBSET Roles, coloads : BOOLEAN, fixed : Nat, fixedIds : Nat]

\* sets: the chat-capable ones; elsewhere: some other set names the co-loads;
\* categories: what each declared category costs.
InstanceRecord(i) ==
  /\ i.available \in Int /\ i.chats \subseteq ChatRecord
  /\ i.rag \in [Roles -> RagRecord]
  /\ i.routed \in BOOLEAN /\ i.elsewhere \in BOOLEAN
  /\ i.sets \in [DOMAIN i.sets -> SUBSET Option]
  /\ ~i.routed => DOMAIN i.sets = {}
  /\ \A s \in DOMAIN i.sets : IsFiniteSet(i.sets[s])
  /\ i.categories \in [DOMAIN i.categories -> Nat] /\ i.candidates \in [DOMAIN i.candidates -> Nat]

ASSUME ResidentsAssumption ==
  /\ MinCtx \in Nat \ {0} /\ RoundTo \in Nat \ {0}
  /\ ToolsMin \in Nat /\ MinChat \in Nat /\ MinCtx < MinChat /\ MinChat <= ToolsMin
  /\ ColoadMin \in Nat \ {0} /\ GainMin \in Nat \ {0}
  /\ RagCap \in [Roles -> Nat \ {0}]
  /\ \A i \in Instances : InstanceRecord(i)

VARIABLES
  in,        \* the card and the fleet
  pc,
  chat,      \* the shared chat context
  rag,       \* the contexts the embedding and rerank models serve
  squeezed,
  floor,     \* what chat keeps when something is added
  used,      \* what was added
  coloads,   \* the co-loads among it
  left,      \* categories or candidates still to try
  price      \* what each set costs

vars == <<in, pc, chat, rag, squeezed, floor, used, coloads, left, price>>

Lesser(a, b) == IF a <= b THEN a ELSE b

\* The greatest members of a set of integers: one, or none when it is empty.
Greatest(S) == {x \in S : \A y \in S : y <= x}

RoundDown(c) == (c \div RoundTo) * RoundTo

-----------------------------------------------------------------------------
(* What things cost *)

Cost(role, ctx) == in.rag[role].mib + in.rag[role].kv * ctx

CostOf(roles, ctx) ==
  (IF "emb" \in roles THEN Cost("emb", ctx["emb"]) ELSE 0)
    + (IF "rnk" \in roles THEN Cost("rnk", ctx["rnk"]) ELSE 0)

\* What an option names by variable, with the co-loads costing extra together:
\* all that the pricing of the sets knows of.
Priced(o, ctx, extra) ==
  o.fixed + CostOf(o.vars, ctx) + (IF o.coloads THEN extra ELSE 0)

\* The solve charges what is named by id as well.
Held(o, ctx, extra) == Priced(o, ctx, extra) + o.fixedIds + CostOf(o.ids, ctx)

\* The worst option; a set of nothing costs nothing.
SetCost(s, ctx, extra) == {0} \cup {Held(o, ctx, extra) : o \in in.sets[s]}

\* Everything chat shares the card with, and how it is bounded: the worst set;
\* or, with no sets, the two of them and whatever is added.
Overheads(ctx, extra) ==
  IF in.routed
  THEN Greatest({0} \cup UNION {SetCost(s, ctx, extra) : s \in DOMAIN in.sets})
  ELSE {Cost("emb", ctx["emb"]) + Cost("rnk", ctx["rnk"]) + extra}

-----------------------------------------------------------------------------
(* solve_matrix_ctx *)

Need(m, c) == m.mib + m.slot * m.par + m.kv * m.par * c

Raw(m, overhead) ==
  (in.available - overhead - m.mib - m.slot * m.par) \div (m.kv * m.par)

\* A model without an estimate sets no bar, and one that cannot afford the
\* minimum is skipped, not clamped up.
Offering(overhead) ==
  {m \in in.chats : m.kv > 0 /\ in.available - overhead - m.mib > 0 /\ Raw(m, overhead) >= MinCtx}

\* Mutant of Offers: the architecture's limit is applied, the rounding is not down.
OffersRoundedUp(overhead) ==
  {Lesser(RoundDown(Raw(m, overhead)) + RoundTo, m.design) : m \in Offering(overhead)}

Offers(overhead) ==
  {Lesser(RoundDown(Raw(m, overhead)), m.design) : m \in Offering(overhead)}

\* Mutant of Solutions: the least offer, as if all had to run at once.
SolutionsOfTheLeast(overhead) ==
  IF Offers(overhead) \subseteq {0} THEN {MinCtx}
  ELSE {c \in Offers(overhead) : \A d \in Offers(overhead) : c <= d}

\* The chat models evict each other: the best offer is the shared context,
\* unless rounding leaves nothing of it.
Solutions(overhead) ==
  IF Offers(overhead) \subseteq {0} THEN {MinCtx} ELSE Greatest(Offers(overhead))

-----------------------------------------------------------------------------
(* The passes *)

ServedAt(role) ==
  LET ctx == Lesser(in.rag[role].design, RagCap[role]) IN
  IF in.rag[role].cap > 0 THEN Lesser(ctx, in.rag[role].cap) ELSE ctx

Configured == [role \in Roles |-> ServedAt(role)]

Init ==
  /\ in \in Instances /\ in.chats # {}
  /\ pc = "baseline" /\ chat = 0 /\ rag = Configured
  /\ squeezed = FALSE /\ floor = 0 /\ used = 0 /\ coloads = {} /\ left = {} /\ price = <<>>

Baseline ==
  /\ pc = "baseline"
  /\ \E overhead \in Overheads(rag, 0) : \E c \in Solutions(overhead) : chat' = c
  /\ pc' = "squeeze"
  /\ UNCHANGED <<in, rag, squeezed, floor, used, coloads, left, price>>

Squeezable == [role \in Roles |-> Lesser(rag[role], ColoadMin)]

SqueezedChat == UNION {Solutions(overhead) : overhead \in Overheads(Squeezable, 0)}

\* Only below the tools threshold, only when there is context to take.
Squeeze ==
  /\ pc = "squeeze" /\ chat < ToolsMin /\ Squeezable # rag
  /\ \E c \in SqueezedChat : c - chat >= GainMin /\ chat' = c
  /\ rag' = Squeezable /\ squeezed' = TRUE
  /\ pc' = "floor"
  /\ UNCHANGED <<in, floor, used, coloads, left, price>>

NoSqueeze ==
  /\ pc = "squeeze"
  /\ \/ chat >= ToolsMin
     \/ Squeezable = rag
     \/ \E c \in SqueezedChat : c - chat < GainMin
  /\ pc' = "floor"
  /\ UNCHANGED <<in, chat, rag, squeezed, floor, used, coloads, left, price>>

AnyTools == \E m \in in.chats : m.tools

Floor == IF AnyTools /\ chat >= ToolsMin THEN ToolsMin ELSE MinChat

\* Some set must name the co-loads for one to be considered: any set, whether
\* chat is in it or not.
Coloadable == in.elsewhere \/ \E s \in DOMAIN in.sets : \E o \in in.sets[s] : o.coloads

SetFloor ==
  /\ pc = "floor" /\ floor' = Floor
  /\ pc' = IF chat < Floor THEN "price" ELSE "add"
  /\ left' = IF ~in.routed THEN DOMAIN in.categories
             ELSE IF Coloadable THEN DOMAIN in.candidates ELSE {}
  /\ UNCHANGED <<in, chat, rag, squeezed, used, coloads, price>>

\* Declared categories one by one when there are no sets; the smallest
\* co-load first when there are.
Size(x) == IF in.routed THEN in.candidates[x] ELSE in.categories[x]

Smallest(x) == in.routed => \A y \in left : Size(x) <= Size(y)

Fits(x) == \E overhead \in Overheads(rag, used + Size(x)) :
             \E c \in Solutions(overhead) : c >= floor

\* Mutant of Add: what was added before is forgotten when the next is tried.
AddAlone(x) ==
  /\ pc = "add" /\ x \in left /\ Smallest(x)
  /\ \E overhead \in Overheads(rag, Size(x)) : \E c \in Solutions(overhead) : c >= floor
  /\ used' = used + Size(x)
  /\ coloads' = IF in.routed THEN coloads \cup {x} ELSE coloads
  /\ left' = left \ {x}
  /\ UNCHANGED <<in, pc, chat, rag, squeezed, floor, price>>

Add(x) ==
  /\ pc = "add" /\ x \in left /\ Smallest(x) /\ Fits(x)
  /\ used' = used + Size(x)
  /\ coloads' = IF in.routed THEN coloads \cup {x} ELSE coloads
  /\ left' = left \ {x}
  /\ UNCHANGED <<in, pc, chat, rag, squeezed, floor, price>>

Skip(x) ==
  /\ pc = "add" /\ x \in left /\ Smallest(x) /\ ~Fits(x)
  /\ left' = left \ {x}
  /\ UNCHANGED <<in, pc, chat, rag, squeezed, floor, used, coloads, price>>

Added ==
  /\ pc = "add" /\ left = {} /\ pc' = "price"
  /\ UNCHANGED <<in, chat, rag, squeezed, floor, used, coloads, left, price>>

\* Mutant of PricedAt: the configured contexts, whatever the solve settled on.
PricedAsConfigured == [role \in Roles |-> Lesser(in.rag[role].design, Configured[role])]

\* _price_sets asks the models again, at the contexts the solve settled on.
PricedAt == [role \in Roles |-> Lesser(in.rag[role].design, rag[role])]

\* A variable of its own table costs what it names; an id is in no table.
PriceOf(s) == Max({0} \cup {Priced(o, PricedAt, used) : o \in in.sets[s]})

Price ==
  /\ pc = "price"
  /\ price' = [s \in DOMAIN in.sets |-> PriceOf(s)]
  /\ pc' = "done"
  /\ UNCHANGED <<in, chat, rag, squeezed, floor, used, coloads, left>>

Next ==
  \/ Baseline \/ Squeeze \/ NoSqueeze \/ SetFloor \/ Added \/ Price
  \/ \E x \in left : Add(x) \/ Skip(x)

Spec == Init /\ [][Next]_vars

-----------------------------------------------------------------------------
(* Properties *)

\* The types of the variables.
TypeOK ==
  /\ pc \in {"baseline", "squeeze", "floor", "add", "price", "done"}
  /\ chat \in Nat /\ floor \in Nat /\ used \in Nat
  /\ rag \in [Roles -> Nat] /\ squeezed \in BOOLEAN

\* Everything that may be resident beside chat.
Beside(ctx, extra) ==
  IF in.routed THEN {0} \cup {Held(o, ctx, extra) : o \in UNION {in.sets[s] : s \in DOMAIN in.sets}}
  ELSE {Cost("emb", ctx["emb"]) + Cost("rnk", ctx["rnk"]) + extra}

\* A model has the context with that much beside it.
Affords(m, c, held) == m.kv > 0 /\ c <= m.design /\ Need(m, c) + held <= in.available

Bears(ctx, c, extra) == \E m \in in.chats : \A held \in Beside(ctx, extra) : Affords(m, c, held)

\* A shared context above the minimum is one that a chat model really has
\* beside the worst of the sets before anything is added, at the contexts the
\* embedding and rerank models are served, squeezed or not.
SharedContextServed ==
  pc # "baseline" /\ chat > MinCtx => Bears(rag, chat, 0)

\* Whatever was added, some chat model keeps the floor beside it.
AdditionsKeepFloor ==
  used > 0 => Bears(rag, floor, used)

RoundUp(c) == ((c + RoundTo - 1) \div RoundTo) * RoundTo

\* Chat stays below the tools threshold, and the embedding and rerank models
\* give up context for it, only where no chat model could have had the
\* threshold, in the steps contexts come in, beside them as configured.
SqueezeNeeded ==
  pc # "baseline" /\ (squeezed \/ chat < ToolsMin) => ~Bears(Configured, RoundUp(ToolsMin), 0)

\* What entries are charged for a set stays within what the solve found beside
\* a chat model: the floor is affordable beside the price of every set when
\* something was added, and the shared context when nothing was.  The prices
\* come from other tables and contexts than the solve's.
PricesReserved ==
  pc = "done" =>
    \A s \in DOMAIN price :
      /\ used > 0 => \E m \in in.chats : Affords(m, floor, price[s])
      /\ used = 0 /\ chat > MinCtx => \E m \in in.chats : Affords(m, chat, price[s])

\* The prices are those the solve reserved, as _price_sets says of itself.  An
\* id in a set refutes it.
PricesAgree ==
  pc = "done" => \A s \in DOMAIN price : price[s] = Max(SetCost(s, rag, used))

=============================================================================
