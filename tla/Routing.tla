------------------------------- MODULE Routing --------------------------------
(***************************************************************************)
(* From a fleet and a matrix: section to the routing sets of config.yaml   *)
(* (llama_packer/__main__.py with the host pool of llama_packer/writer.py):*)
(* categories bound to models, host compositions judged as units, residents*)
(* committed to the host ledger, variables for the entries that were       *)
(* planned, chat lists per set, pinned helpers, refused categories pruned. *)
(***************************************************************************)
EXTENDS SetExpr

CONSTANTS
  CHAT, COLOAD,    \* the placeholders of set expressions
  Sorted,          \* the names of categories and variables as they sort
  None,            \* no selector, no cost, no model
  Everywhere,      \* an entry nobody judged against the sets
  Instances        \* fleets and configurations: see Instance

Pair == {"emb", "rnk"}

\* The members of a list that are in a set, in their order.
Only(list, S) ==
  LET upTo[k \in 0 .. Len(list)] ==
        IF k = 0 THEN <<>>
        ELSE IF list[k] \in S THEN Append(upTo[k - 1], list[k]) ELSE upTo[k - 1]
  IN upTo[Len(list)]

\* cost: None when nothing can size it; ram: what it holds on the host.
ModelRecord ==
  [stem : STRING, role : STRING, cpu : BOOLEAN, cost : Nat \cup {None}, size : Nat, ram : Nat]

\* The configured expressions.
Configured(i) ==
  [s \in {i.sets[k].name : k \in DOMAIN i.sets} |-> (CHOOSE e \in ToSet(i.sets) : e.name = s).expr]

\* What a category, a chat entry and a set may not share a name with.
CategoryNames(i) == Pair \cup {i.specs[k].name : k \in DOMAIN i.specs}
ChatNames(i) == {i.chats[k].var : k \in DOMAIN i.chats}
Apart(i) ==
  /\ CHAT # COLOAD /\ {CHAT, COLOAD} \cap {"s2t", "s2t2"} = {}
  /\ {CHAT, COLOAD, "s2t2"} \cap CategoryNames(i) = {}
  /\ ChatNames(i) \cap ({CHAT, COLOAD, "s2t", "s2t2"} \cup CategoryNames(i)) = {}
  /\ \A s \in DOMAIN Configured(i) : \A k \in DOMAIN Configured(i)[s] :
       \A t \in Configured(i)[s][k].refs : "+" \o t \notin CategoryNames(i)

\* As a text reads: a group is a name, a reference or an operation, and the
\* co-loads are a term of '&' beside another one.
Written(e) ==
  /\ Expression(e) /\ e # Nothing /\ e[Len(e)] # Leaf(COLOAD)
  /\ \A k \in DOMAIN e :
       /\ \/ \E n \in e[k].names : e[k] = Leaf(n)
          \/ \E t \in e[k].refs : e[k] = Reference(t)
          \/ e[k].names = {} /\ e[k].refs = {} /\ e[k].parts # {}
       /\ \/ \A j \in e[k].parts : e[j] # Leaf(COLOAD)
          \/ e[k].op = "and" /\ \E j \in e[k].parts : e[j] # Leaf(COLOAD)

\* embed, rerank: the stems a selector matches; specs: declared categories;
\* pool: what the host has; coload: whether the solve included one.
Instance(i) ==
  /\ i.models \subseteq ModelRecord /\ i.pool \in Nat /\ i.coload \in BOOLEAN
  /\ i.specs \in Seq([name : Name, role : STRING, selector : {None} \cup SUBSET STRING])
  /\ i.chats \in Seq([var : Name, stem : STRING])
  /\ i.sets \in Seq([name : STRING, expr : Seq(Group)])
  /\ Acyclic(Configured(i)) /\ \A s \in DOMAIN Configured(i) : Written(Configured(i)[s])
  /\ Apart(i)

ASSUME SortedAssumption == Sorted \in Seq(Name) /\ ToSet(Sorted) = Name

ASSUME NameAssumption == {"emb", "rnk", "s2t", "s2t2"} \subseteq Name

ASSUME RoutingAssumption == \A i \in Instances : Instance(i)

VARIABLES
  in,          \* the fleet and its configuration
  pc,
  categories,  \* category name -> model
  refused,     \* categories refused with their compositions
  ledger,      \* categories charged to the host pool
  entries,     \* planned chat entries, in order
  admitted,    \* of an entry: the sets it was admitted to, or Everywhere
  vars_,       \* variable -> stem
  lists,       \* set -> chat variables
  expanded,    \* set -> expression with its placeholders filled
  pins,        \* pinned helpers
  final        \* set -> expression as emitted

vars == <<in, pc, categories, refused, ledger, entries, admitted, vars_, lists, expanded, pins, final>>

Sets == Configured(in)

SetNames == DOMAIN Sets

HasChatSlot(s, sets) ==
  \/ \E i \in DOMAIN sets[s] : CHAT \in sets[s][i].names
  \/ Leaves(s, sets) \cap ChatNames(in) # {}

-----------------------------------------------------------------------------
(* Which model a role gets *)

Least(pool, Key(_)) == CHOOSE m \in pool : \A n \in pool : Key(m) <= Key(n)

Of(role) == {m \in in.models : m.role = role}

Matches(role, selector) == {m \in Of(role) : m.stem \in selector}

\* A selector that names none or several ends the run.
Ambiguous(role, selector) ==
  Of(role) # {} /\ selector # None /\ Cardinality(Matches(role, selector)) # 1

\* A model placed on the CPU wins, then the cheapest that can be sized, then
\* the smallest file.
Selected(role, selector) ==
  IF Of(role) = {} THEN None
  ELSE IF selector # None THEN CHOOSE m \in Matches(role, selector) : TRUE
  ELSE LET onCpu  == {m \in Of(role) : m.cpu}
           pool   == IF onCpu # {} THEN onCpu ELSE Of(role)
           priced == {m \in pool : m.cost # None}
       IN IF priced # {} THEN Least(priced, LAMBDA m : m.cost) ELSE Least(pool, LAMBDA m : m.size)

Default == <<[name |-> "emb", role |-> "embeddings", selector |-> None],
             [name |-> "rnk", role |-> "rerank", selector |-> None]>>

Specs == IF in.specs = <<>> THEN Default ELSE in.specs

\* Declared categories that find a model, in order, and the pair's names.
Bound == Only(Specs, {spec \in ToSet(Specs) : Selected(spec.role, spec.selector) # None})

Order ==
  LET names == [i \in DOMAIN Bound |-> Bound[i].name] IN
  names \o Only(<<"emb", "rnk">>, Pair \ ToSet(names))

Categories ==
  [n \in ToSet(Order) |->
     IF \E i \in DOMAIN Bound : Bound[i].name = n
     THEN LET spec == CHOOSE s \in ToSet(Bound) : s.name = n IN Selected(spec.role, spec.selector)
     ELSE IF n = "emb" THEN Selected("embeddings", in.embed) ELSE Selected("rerank", in.rerank)]

Refusing ==
  \/ Ambiguous("embeddings", in.embed) \/ Ambiguous("rerank", in.rerank)
  \/ Of("embeddings") # {} /\ Of("rerank") # {}
     /\ \E i \in DOMAIN Specs : Ambiguous(Specs[i].role, Specs[i].selector)

Init ==
  /\ in \in Instances /\ pc = "detect"
  /\ categories = <<>> /\ refused = {} /\ ledger = {} /\ entries = <<>> /\ admitted = <<>>
  /\ vars_ = <<>> /\ lists = <<>> /\ expanded = <<>> /\ pins = <<>> /\ final = <<>>

Detect ==
  /\ pc = "detect" /\ ~Refusing
  /\ Of("embeddings") # {} /\ Of("rerank") # {}
  /\ categories' = Categories /\ pc' = "judge"
  /\ UNCHANGED <<in, refused, ledger, entries, admitted, vars_, lists, expanded, pins, final>>

Disabled ==
  /\ pc = "detect" /\ (Refusing \/ Of("embeddings") = {} \/ Of("rerank") = {})
  /\ pc' = IF Refusing THEN "fatal" ELSE "no matrix"
  /\ UNCHANGED <<in, categories, refused, ledger, entries, admitted, vars_, lists, expanded, pins, final>>

-----------------------------------------------------------------------------
(* The host pool *)

PairModels == {categories[n] : n \in Pair}

Fixed == {n \in DOMAIN categories : categories[n] \notin PairModels}

Available == in.pool - SumFunctionOnSet([m \in PairModels |-> m.ram], {m \in PairModels : m.cpu})

\* A name is told from the pair's stems, as the code compares them.
Judged ==
  {n \in Fixed : categories[n].cpu /\ n \notin {m.stem : m \in {k \in PairModels : k.cpu}}}

Ram(names) == SumFunctionOnSet([n \in names |-> categories[n].ram], names)

ChatSets == {s \in SetNames : HasChatSlot(s, Sets)}

\* Everything a set names, alternatives included.
Members(s) == Leaves(s, Sets) \cap Judged

Fails == {s \in ChatSets : Ram(Members(s)) > Available}

\* Mutant of Refusals: one composition that does not fit is enough.
RefusalsOfAny ==
  {n \in Judged : \E s \in Fails : n \in Members(s)}

\* A category goes when every composition that names it fails.
Refusals ==
  IF in.pool = 0 THEN {}
  ELSE IF SetNames = {} THEN {n \in Judged : categories[n].ram > Available}
  ELSE IF Fails = {} THEN {}
  ELSE {n \in Judged :
          LET named == {s \in ChatSets : n \in Members(s)} IN
          IF named # {} THEN named \subseteq Fails ELSE categories[n].ram > Available}

Judge ==
  /\ pc = "judge" /\ refused' = Refusals /\ pc' = "commit"
  /\ UNCHANGED <<in, categories, ledger, entries, admitted, vars_, lists, expanded, pins, final>>

\* Mutant of Commit: the pair alone is charged.
CommitPair ==
  /\ pc = "commit"
  /\ ledger' = {n \in Pair : categories[n].cpu}
  /\ pc' = "plan"
  /\ UNCHANGED <<in, categories, refused, entries, admitted, vars_, lists, expanded, pins, final>>

Commit ==
  /\ pc = "commit"
  /\ ledger' = {n \in Pair : categories[n].cpu} \cup {n \in Fixed : categories[n].cpu /\ n \notin refused}
  /\ pc' = "plan"
  /\ UNCHANGED <<in, categories, refused, entries, admitted, vars_, lists, expanded, pins, final>>

\* Planner: any of the chat models emits, and is admitted to any chat sets.
Plan ==
  /\ pc = "plan"
  /\ \E emitted \in SUBSET ToSet(in.chats) :
       /\ entries' = Only(in.chats, emitted)
       /\ admitted' \in [{c.stem : c \in emitted} -> IF ChatSets = {} THEN {Everywhere} ELSE {Everywhere} \cup SUBSET ChatSets]
  /\ pc' = "vars"
  /\ UNCHANGED <<in, categories, refused, ledger, vars_, lists, expanded, pins, final>>

-----------------------------------------------------------------------------
(* Variables, chat lists, sets *)

ChatVars == {in.chats[i].var : i \in DOMAIN entries}

\* A model refused under one name emits nothing under another.
Emits(m) == \A n \in refused : categories[n].stem # m.stem

CategoryVars == {n \in DOMAIN categories : Emits(categories[n])}

\* s2t, numbered when a category has the name.
ColoadVar == IF "s2t" \in CategoryVars THEN "s2t2" ELSE "s2t"

ColoadVars == IF in.coload THEN {ColoadVar} ELSE {}

BuildVars ==
  /\ pc = "vars"
  /\ vars_' = [v \in ChatVars \cup CategoryVars \cup ColoadVars |->
                 IF v \in CategoryVars THEN categories[v].stem
                 ELSE IF v \in ColoadVars THEN "coload"
                 ELSE LET i == CHOOSE j \in DOMAIN entries : in.chats[j].var = v IN entries[i].stem]
  /\ pc' = IF entries = <<>> THEN "no matrix" ELSE "lists"
  /\ UNCHANGED <<in, categories, refused, ledger, entries, admitted, lists, expanded, pins, final>>

AdmittedTo(v, s) == admitted[vars_[v]] = Everywhere \/ s \in admitted[vars_[v]]

Verdicts == \E stem \in DOMAIN admitted : admitted[stem] # Everywhere

LastSet == in.sets[Len(in.sets)].name

\* The loop over variables runs once, after the loop over sets, with the name
\* of the last one; the others' lists stay empty.
ChatLists ==
  /\ pc = "lists"
  /\ lists' = [s \in SetNames |->
                 IF Verdicts /\ s = LastSet THEN {v \in ChatVars : AdmittedTo(v, s)} ELSE {}]
  /\ pc' = "expand"
  /\ UNCHANGED <<in, categories, refused, ledger, entries, admitted, vars_, expanded, pins, final>>

RoleOf(v) == IF v \in DOMAIN categories THEN categories[v].role ELSE None

\* One name for each role: the pair's, or the first declared.
Canonical(role) ==
  LET names == Only(Order, {n \in DOMAIN categories : RoleOf(n) = role})
      pair  == Only(names, Pair) IN
  IF pair # <<>> THEN pair[Len(pair)] ELSE names[1]

\* canonical_cpu_pins, sorted.
PinNames ==
  Only(Sorted, {n \in DOMAIN categories : categories[n].cpu /\ n = Canonical(RoleOf(n))})

\* An empty list falls back to every chat variable.
ChatOf(s) == IF lists[s] # {} THEN lists[s] ELSE ChatVars

Filled(s) ==
  LET withChat == Substituted(Sets[s], CHAT, ChatOf(s)) IN
  IF ColoadVars # {} THEN Substituted(withChat, COLOAD, ColoadVars)
  ELSE Pruned(s, [t \in {s} |-> withChat], {COLOAD})

\* The configured sets, with another expression for one of them.
With(s, e) == [Sets EXCEPT ![s] = e]

\* Mutant of Joins: a set's own choice for the role is not asked.
JoinsRegardless(s, e, n) == HasChatSlot(s, With(s, e)) /\ n \notin Leaves(s, With(s, e))

\* A helper joins a chat set that has not chosen its role's resident.
Joins(s, e, n) ==
  /\ HasChatSlot(s, With(s, e)) /\ n \notin Leaves(s, With(s, e))
  /\ \A leaf \in Leaves(s, With(s, e)) : RoleOf(leaf) # RoleOf(n)

\* The expression once the first pins had their turn.
Pinned(s) ==
  LET names == PinNames
      upTo[k \in 0 .. Len(names)] ==
        IF k = 0 THEN Filled(s)
        ELSE LET e == upTo[k - 1] IN IF Joins(s, e, names[k]) THEN Extended(e, names[k]) ELSE e
  IN upTo[Len(names)]

Expand ==
  /\ pc = "expand"
  /\ expanded' = [s \in SetNames |-> Pinned(s)]
  /\ pins' = PinNames /\ pc' = "drop"
  /\ UNCHANGED <<in, categories, refused, ledger, entries, admitted, vars_, lists, final>>

Survivors == {s \in SetNames : Survives(s, expanded, refused)}

\* Refused categories leave every set, and sets that hold nothing else.
Drop ==
  /\ pc = "drop"
  /\ IF refused = {} THEN final' = expanded /\ UNCHANGED pins
     ELSE /\ final' = [s \in Survivors |-> Pruned(s, expanded, refused)]
          /\ pins' = Only(pins, ToSet(pins) \ refused)
  /\ pc' = "done"
  /\ UNCHANGED <<in, categories, refused, ledger, entries, admitted, vars_, lists, expanded>>

Next ==
  \/ Detect \/ Disabled \/ Judge \/ Commit \/ Plan \/ BuildVars \/ ChatLists \/ Expand \/ Drop

Spec == Init /\ [][Next]_vars

-----------------------------------------------------------------------------
(* Properties *)

Done == pc = "done"

\* The operator's sets name what there is, and refer to sets.
WellNamed ==
  \A s \in SetNames : \A k \in DOMAIN Sets[s] :
    /\ Sets[s][k].names \subseteq {CHAT, COLOAD} \cup DOMAIN categories \cup ChatVars
    /\ Sets[s][k].refs \subseteq SetNames

\* llama-swap rejects a configuration in which a set names what no variable
\* is.  Refusals, references and placeholders leave no such name, as long as
\* no two categories are bound to one model.
NoDanglingLeaf ==
  Done /\ WellNamed /\ (\A m, n \in DOMAIN categories : m # n => categories[m].stem # categories[n].stem) =>
    \A s \in DOMAIN final : Leaves(s, final) \subseteq DOMAIN vars_

Named(s, sets) == {option \cap Leaves(s, Sets) : option \in Options(s, sets)}

\* The co-loads did not take the name of a category that was refused.
ColoadApart == ColoadVars \cap DOMAIN categories = {}

\* A composition that fits the host pool keeps whatever it names: it loses
\* nothing to the refusal of others.
FittingSetsWhole ==
  Done /\ ColoadApart => \A s \in ChatSets \ Fails :
    s \in DOMAIN final /\ Named(s, final) = Named(s, expanded)

Twins(option) == \E v, w \in option : v # w /\ RoleOf(v) # None /\ RoleOf(v) = RoleOf(w)

\* Pinned helpers put no second model of a role into anything a set may hold,
\* as long as no set refers to one that gets helpers of its own.
NoForcedTwin ==
  Done /\ ColoadApart /\ (\A s \in SetNames : \A k \in DOMAIN Sets[s] : Sets[s][k].refs \cap ChatSets = {}) =>
    \A s \in DOMAIN final :
      (\E option \in Options(s, final) : Twins(option)) => \E option \in Options(s, Sets) : Twins(option)

\* Every helper that a set keeps warm was charged to the host pool.
PinsCommitted ==
  Done => \A s \in DOMAIN final : \A n \in Leaves(s, final) :
    n \in DOMAIN categories /\ categories[n].cpu =>
      n \in ledger \/ \E k \in ledger : categories[k] = categories[n]

Prices == [n \in DOMAIN categories |-> IF categories[n].cpu THEN 0 ELSE categories[n].size]

\* What a set is charged covers everything it may hold at once.
PriceCoversOptions ==
  pc = "judge" => \A s \in SetNames : \A option \in Options(s, Sets) :
    SumFunctionOnSet(Prices, option \cap DOMAIN Prices) <= Overhead(s, Prices, Sets)

\* A chat entry that was not admitted to a set is not in it, as the comment
\* in main says of the per-set lists.
ListsFollowAdmission ==
  Done => \A s \in ChatSets \cap DOMAIN final : \A v \in Leaves(s, final) \cap ChatVars :
    AdmittedTo(v, s)

\* The operator's --embed and --rerank name the pair, as SPEC.md says.
SelectorDecides ==
  pc = "judge" =>
    /\ in.embed # None => categories["emb"].stem \in in.embed
    /\ in.rerank # None => categories["rnk"].stem \in in.rerank
=============================================================================
