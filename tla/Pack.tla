--------------------------------- MODULE Pack ---------------------------------
(***************************************************************************)
(* One invocation of llama-packer after another (main of                   *)
(* llama_packer/__main__.py, emit_config and write_yaml of writer.py): the *)
(* stages in order, each of which may refuse, what they write aside, the   *)
(* ids the planned servings are published under, config.yaml and the       *)
(* config.env beside it. A plan is any outcome Planner may reach.          *)
(***************************************************************************)
EXTENDS Naturals, FiniteSets, SequencesExt, FiniteSetsExt

CONSTANTS
  Fleets,     \* sequences of models, in the order of discovery
  Options,    \* command lines
  MaxPacks    \* bound on the number of invocations

\* id: its dotted parts; categories: slugs, which may be empty; letters: the
\* flags it has by its capabilities; projector: whether vision can be shed.
Group == [profiles : Seq(STRING) \ {<<>>}, cache : STRING]
ModelRecord ==
  [id : Seq(STRING), stem : STRING, groups : Seq(Group), categories : Seq(STRING),
   letters : SUBSET {"t", "i"}, projector : BOOLEAN]

Fallback == "fallback"

\* Profiles are grouped by what they have in common, categories are resolved
\* to tasks, each once; the fallback is none of them.
Proper(m) == IsInjective(m.groups) /\ IsInjective(m.categories) /\ Fallback \notin ToSet(m.categories)

ASSUME PackAssumption ==
  /\ MaxPacks \in Nat \ {0}
  /\ Fleets \subseteq Seq(ModelRecord)
  /\ \A models \in Fleets : \A i \in DOMAIN models : Proper(models[i])

VARIABLES
  fleet,
  pack, opt, pc,
  plan,      \* stem -> variants
  todo,      \* pairs of a model and a variant still to be emitted
  used,      \* stem -> tails already given
  entries,   \* what emit_config built
  aside,     \* files other than the outputs that were written
  config, env,
  was,       \* both as they were when this invocation began
  known      \* every entry ever published

vars == <<fleet, pack, opt, pc, plan, todo, used, entries, aside, config, env, was, known>>

-----------------------------------------------------------------------------
(* Ids *)

\* An id does not depend on the solve beyond what is served.
FlagsLabel(S) == CASE S = {} -> "" [] S = {"t"} -> "t" [] S = {"i"} -> "i" [] OTHER -> "ti"

ServedFlags(m, v) ==
  FlagsLabel(m.letters \ ((IF v.vision \/ ~m.projector THEN {} ELSE {"i"})
                          \cup (IF v.demoted THEN {"t"} ELSE {})))

\* A part that is empty is left out of an id.
Part(x) == IF x = "" THEN <<>> ELSE <<x>>

CategoryPart(v) == Part(IF v.category = Fallback THEN "" ELSE v.category)

\* Slip: the id of a serving without vision or tools is that of the full one.
TailsWithoutFlags(m, v) == CategoryPart(v)

Tails(m, v) == CategoryPart(v) \o Part(ServedFlags(m, v))

\* The first candidate no serving of this stem has: the tail, the tail and
\* its key, and then the key numbered from 3.
UniqueTail(taken, tail, key) ==
  LET candidate(n) == <<tail, CASE n = 1 -> <<>> [] n = 2 -> <<key>> [] OTHER -> <<key, n>>>>
  IN candidate(Min({n \in 1..(Cardinality(taken) + 1) : candidate(n) \notin taken}))

Base(m, v) ==
  IF "default" \in ToSet(v.group.profiles) \/ Len(v.group.profiles) > 1
  THEN m.id ELSE Append(m.id, v.group.profiles[1])

\* A mark joins the last part of the tail, and makes one of an empty tail.
EntryId(m, v, tail) ==
  <<Base(m, v) \o (IF tail[1] = <<>> /\ tail[2] # <<>> THEN <<"">> ELSE tail[1]), tail[2]>>

-----------------------------------------------------------------------------
(* Plans *)

Only(s, kept) == FlattenSeq([i \in DOMAIN s |-> IF s[i] \in kept THEN <<s[i]>> ELSE <<>>])

\* What a group serves of its categories: those kept and the fallback, each
\* with or without what it can shed.
Served(m, g, kept, shed, low) ==
  LET served == Only(Append(m.categories, Fallback), kept \cup {Fallback})
  IN [i \in DOMAIN served |->
        [group |-> g, category |-> served[i], vision |-> served[i] \notin shed, demoted |-> served[i] \in low]]

\* A group may also serve nothing.
GroupOutcomes(m, g) ==
  {<<>>} \cup {Served(m, g, kept, shed, low) :
                 kept \in SUBSET ToSet(m.categories),
                 shed \in IF m.projector THEN SUBSET ToSet(m.categories) ELSE {{}},
                 low \in IF "t" \in m.letters THEN {{}, {Fallback}} ELSE {{}}}

\* One outcome for each of some things, in order.
OneOfEach(outcomes) ==
  {f \in [DOMAIN outcomes -> UNION {outcomes[i] : i \in DOMAIN outcomes}] :
     \A i \in DOMAIN outcomes : f[i] \in outcomes[i]}

ModelOutcomes(m) ==
  {FlattenSeq(f) : f \in OneOfEach([i \in DOMAIN m.groups |-> GroupOutcomes(m, m.groups[i])])}

\* One outcome per model.
Planned == OneOfEach([i \in DOMAIN fleet |-> ModelOutcomes(fleet[i])])

Stems == {fleet[i].stem : i \in DOMAIN fleet}

\* The plan is filed by stem: of two models with one stem the later one that
\* has variants stands.
Filed(planned) ==
  [s \in Stems |->
     LET full == {i \in DOMAIN fleet : fleet[i].stem = s /\ planned[i] # <<>>}
     IN IF full = {} THEN <<>> ELSE planned[Max(full)]]

\* Models in order, each with the variants filed under its stem.
Pairs(filed) ==
  FlattenSeq([i \in DOMAIN fleet |-> [j \in DOMAIN filed[fleet[i].stem] |-> <<i, filed[fleet[i].stem][j]>>]])

-----------------------------------------------------------------------------
(* The stages *)

\* Slip: the idle time is looked at when everything is written.
AfterChecksLast ==
  [setup |-> "configure", configure |-> "discover", discover |-> "budget", budget |-> "plan", plan |-> "emit",
   emit |-> "open", open |-> "write", write |-> "env", env |-> "accept", accept |-> "done"]

\* Slip: the environment is written first.
AfterEnvFirst ==
  [setup |-> "configure", configure |-> "discover", discover |-> "budget", budget |-> "plan", plan |-> "emit",
   emit |-> "accept", accept |-> "env", env |-> "open", open |-> "write", write |-> "done"]

After ==
  [setup |-> "configure", configure |-> "discover", discover |-> "budget", budget |-> "plan", plan |-> "emit",
   emit |-> "accept", accept |-> "open", open |-> "write", write |-> "env", env |-> "done"]

Outputs == <<config, env>>

\* What a stage writes beside the outputs: the guide for agents, stubs, the
\* measured blocks.
Asked(stage) ==
  CASE stage = "setup" /\ opt.agents -> {"guide"}
    [] stage = "discover" /\ opt.stubs -> {"stubs"}
    [] stage = "plan" \/ (stage = "discover" /\ opt.probe) -> {"blocks"}
    [] OTHER -> {}

\* A readable link to a blob is made in a dry run too.
Effects(stage) ==
  (IF opt.dry THEN {} ELSE Asked(stage)) \cup (IF stage = "discover" THEN {"links"} ELSE {})

\* None of these writes has to succeed.
SideEffects == \E S \in SUBSET Effects(pc) : aside' = aside \cup S

Begin ==
  /\ pc \in {"idle", "done", "refused", "clash", "failed"} /\ pack < MaxPacks
  /\ pack' = pack + 1 /\ opt' \in Options /\ pc' = "setup"
  /\ was' = Outputs /\ aside' = {}
  /\ plan' = [s \in Stems |-> <<>>] /\ todo' = <<>> /\ entries' = {} /\ used' = [s \in Stems |-> {}]
  /\ UNCHANGED <<fleet, config, env, known>>

Gates == {"setup", "configure", "discover", "budget", "plan", "accept"}

\* fatal: a missing profile or directory, no models, an exhausted budget, a
\* plan that cannot be made, no entries, a negative idle time.
Refuse ==
  /\ pc \in Gates
  /\ SideEffects
  /\ pc' = "refused"
  /\ UNCHANGED <<fleet, pack, opt, plan, todo, used, entries, config, env, was, known>>

\* A probe ends where the models are known.
Advance ==
  /\ pc \in {"setup", "configure", "discover", "budget"}
  /\ SideEffects
  /\ pc' = IF pc = "discover" /\ opt.probe THEN "done" ELSE After[pc]
  /\ UNCHANGED <<fleet, pack, opt, plan, todo, used, entries, config, env, was, known>>

Plan ==
  /\ pc = "plan"
  /\ SideEffects
  /\ \E planned \in Planned :
       /\ plan' = Filed(planned)
       /\ todo' = Pairs(plan')
  /\ pc' = After[pc]
  /\ UNCHANGED <<fleet, pack, opt, used, entries, config, env, was, known>>

Ids(S) == {e.id : e \in S}

\* Slip: an entry of the same id is replaced.
TakenOver(id) == FALSE

Taken(id) == id \in Ids(entries)

\* One turn of emit_config's loop: a second entry of an id is a ValueError.
Emit ==
  /\ pc = "emit" /\ todo # <<>>
  /\ LET m == fleet[Head(todo)[1]]
         v == Head(todo)[2]
         tail == UniqueTail(used[m.stem], Tails(m, v), <<v.group.cache, v.vision>>)
         id == EntryId(m, v, tail)
     IN /\ used' = [used EXCEPT ![m.stem] = @ \cup {tail}]
        /\ IF Taken(id)
           THEN pc' = "clash" /\ UNCHANGED entries
           ELSE /\ entries' = {e \in entries : e.id # id} \cup {[id |-> id, model |-> Head(todo)[1], variant |-> v]}
                /\ UNCHANGED pc
  /\ todo' = Tail(todo)
  /\ UNCHANGED <<fleet, pack, opt, plan, aside, config, env, was, known>>

Emitted ==
  /\ pc = "emit" /\ todo = <<>>
  /\ pc' = After[pc]
  /\ UNCHANGED <<fleet, pack, opt, plan, todo, used, entries, aside, config, env, was, known>>

\* Without entries there is only Refuse. A dry run prints instead.
Accept ==
  /\ pc = "accept" /\ entries # {}
  /\ pc' = IF opt.dry THEN "done" ELSE After[pc]
  /\ UNCHANGED <<fleet, pack, opt, plan, todo, used, entries, aside, config, env, was, known>>

-----------------------------------------------------------------------------
(* The outputs: the pack they are of, whole or cut short *)

Torn == [pack |-> pack, whole |-> FALSE, entries |-> {}]

\* open(path, "w") truncates; the text is made after that.
OpenConfig ==
  /\ pc = "open"
  /\ config' = Torn
  /\ pc' = After[pc]
  /\ UNCHANGED <<fleet, pack, opt, plan, todo, used, entries, aside, env, was, known>>

WriteConfig ==
  /\ pc = "write"
  /\ config' = [pack |-> pack, whole |-> TRUE, entries |-> entries]
  /\ known' = known \cup entries
  /\ pc' = IF opt.noEnv THEN "done" ELSE After[pc]
  /\ UNCHANGED <<fleet, pack, opt, plan, todo, used, entries, aside, env, was>>

WriteEnv ==
  /\ pc = "env"
  /\ env' = [pack |-> pack, whole |-> TRUE]
  /\ pc' = After[pc]
  /\ UNCHANGED <<fleet, pack, opt, plan, todo, used, entries, aside, config, was, known>>

\* The disk is full, a path cannot be opened, or the process is killed; what
\* was opened is cut short.
Fails ==
  /\ pc \in DOMAIN After
  /\ pc' = "failed"
  /\ env' \in IF pc = "env" THEN {env, [pack |-> pack, whole |-> FALSE]} ELSE {env}
  /\ UNCHANGED <<fleet, pack, opt, plan, todo, used, entries, aside, config, was, known>>

Init ==
  /\ fleet \in Fleets
  /\ pack = 0 /\ opt = [dry |-> FALSE, noEnv |-> FALSE, agents |-> FALSE, stubs |-> FALSE, probe |-> FALSE]
  /\ pc = "idle" /\ plan = <<>> /\ todo = <<>> /\ used = <<>> /\ entries = {} /\ aside = {} /\ known = {}
  /\ config = [pack |-> 0, whole |-> TRUE, entries |-> {}] /\ env = [pack |-> 0, whole |-> TRUE]
  /\ was = Outputs

Next ==
  \/ Begin \/ Refuse \/ Advance \/ Plan \/ Emit \/ Emitted \/ Accept
  \/ OpenConfig \/ WriteConfig \/ WriteEnv \/ Fails

Spec == Init /\ [][Next]_vars

-----------------------------------------------------------------------------
(* Properties *)

\* A run that refuses, for whatever reason and however late, leaves the
\* configuration that is being served and its environment alone.
RefusalKeepsOutputs == pc \in {"refused", "clash"} => Outputs = was

\* Over any history of refusals, failures, kills, previews and runs without
\* an environment, config.env never describes a later run than a whole
\* config.yaml beside it, and a run that ends well leaves two of its own.
OutputsAgree ==
  /\ config.whole => env.pack <= config.pack
  /\ pc = "done" /\ ~opt.dry /\ ~opt.probe =>
       /\ config.whole /\ config.pack = pack
       /\ ~opt.noEnv => env = [pack |-> pack, whole |-> TRUE]

\* __main__.py, of --dry-run: no side effects at all.
DryRunWithholds == opt.dry => aside = {} /\ Outputs = was

\* The shapes of models whose ids no other serving can take.
OwnStem(m) == Cardinality({i \in DOMAIN fleet : fleet[i].stem = m.stem}) = 1
OneGroup(m) == Len(m.groups) = 1

\* No category reads as flags, or as nothing.
NoFlagLike(m) == ToSet(m.categories) \cap {"", "t", "i", "ti"} = {}

Apart(m) == \A i \in DOMAIN fleet : fleet[i] = m \/ ~(IsPrefix(fleet[i].id, m.id) \/ IsPrefix(m.id, fleet[i].id))

ModelOf(e) == fleet[e.model]

\* Every serving the plan holds under a model's stem is published for that
\* model, once, under an id of its own, whatever else is packed with it.
PlanPublished ==
  pc \in {"accept", "open", "write", "env", "done"} /\ ~opt.probe =>
    \A i \in DOMAIN fleet : \A j \in DOMAIN plan[fleet[i].stem] :
      /\ Cardinality({e \in entries : e.model = i /\ e.variant = plan[fleet[i].stem][j]}) = 1
      /\ \A d, e \in entries : d.id = e.id => d = e

\* What a client reaches under an id.
Serving(e) == <<e.model, e.variant.group, e.variant.category, ServedFlags(ModelOf(e), e.variant)>>

\* An id a client kept from any earlier pack reaches the serving it named
\* then or nothing, however the solve moved in between: for models of one
\* profile group, whose id extends no other's and whose categories do not look
\* like flags.
SoundIdsStable ==
  \A d, e \in known :
    /\ d.id = e.id
    /\ OneGroup(ModelOf(d)) /\ OwnStem(ModelOf(d)) /\ Apart(ModelOf(d)) /\ NoFlagLike(ModelOf(d))
    => Serving(d) = Serving(e)

\* SPEC.md, tests: ids are stable across repacks, and a repack never repoints
\* one to a different serving.
IdsStable == \A d, e \in known : d.id = e.id => Serving(d) = Serving(e)

\* emit_config: an id is duplicate when two models slug to the same id.
OnlyModelsClash ==
  pc = "clash" => \E i, j \in DOMAIN fleet : i # j /\ IsPrefix(fleet[i].id, fleet[j].id)

\* emit_config: each variant becomes one entry.
VariantsOnce ==
  \A d, e \in entries : d.variant = e.variant /\ ModelOf(d).stem = ModelOf(e).stem => d = e

=============================================================================
