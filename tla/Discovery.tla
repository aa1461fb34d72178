------------------------------ MODULE Discovery -------------------------------
(***************************************************************************)
(* The walk that turns directories into models (llama_packer/discover.py,  *)
(* scope.py, overrides.py and the registry of model.py): a depth-first     *)
(* descent that opens a scope per directory, builds the authored sidecars  *)
(* and remembers the other weights; weights nobody claimed are served with *)
(* a stub once the walk is over; then duplicates go. Runs follow each      *)
(* other over the files they leave.                                        *)
(***************************************************************************)
EXTENDS Refs

CONSTANTS
  Roots,        \* the models directories, in order
  Listed,       \* directory -> its entries in order: files, and slots of sidecars
  Children,     \* directory -> its subdirectories in order
  DirRoles,     \* depth-1 directory -> role, for the whitelisted ones
  Global,       \* the scope of profiles.yaml
  Keys, ListKeys,   \* what layers set, and which of it are lists
  Unset, Null,      \* a key a layer does not mention, and one it deletes
  Every,            \* a condition that every model meets
  TaskRoles,    \* task -> scheduling role
  EngineOrder,  \* engines in the order inference tries them
  Serves,       \* <<engine, format, role>> that the registry offers here
  NoEngine,
  Absent,       \* no sidecar
  Id,           \* of a slot: the model_id
  Trees, Options, MaxRuns

ASSUME DiscoveryAssumption ==
  /\ ListKeys = {"engines", "tasks"} /\ Keys = {"cache", "draft"} \cup ListKeys
  /\ MaxRuns \in Nat \ {0} /\ DOMAIN DirRoles \subseteq Dirs /\ Unset # Null
  /\ \A d \in DOMAIN DirRoles : DirRoles[d] # Unset

\* Directories are a forest, none of the roots is inside another, and each
\* lists what is in it, and all of it.
ASSUME PlacesAssumption ==
  /\ Parent \in [Dirs -> Dirs \cup {NoDir}] /\ Roots \in Seq(Dirs)
  /\ \A S \in SUBSET Dirs : S # {} => \E d \in S : Parent[d] \notin S
  /\ \A d \in Dirs :
       /\ Children[d] \in Seq(Dirs) /\ Listed[d] \in Seq(Files \cup (Dirs \X STRING))
       /\ \A c \in ToSet(Children[d]) : Parent[c] = d /\ c \notin ToSet(Roots)
       /\ \A e \in ToSet(Listed[d]) : IF e \in Files THEN Spot[e].dir = d ELSE e[1] = d
  /\ \A d \in Dirs \ ToSet(Roots) : Parent[d] \in Dirs => d \in ToSet(Children[Parent[d]])
  /\ \A f \in Files : f \in ToSet(Listed[Spot[f].dir])

IsWeight(f) == Spot[f].ext \in WeightExts

\* What is so of every file system: the inode is the file's, whatever it is
\* called. And of the trees considered: all names of one file are weights or
\* none is, and the readable name of a blob leads to that blob, once it is
\* there (eight digits of a hash tell the blobs of a repository apart).
Lawful(t) ==
  /\ {"here", "real", "inode", "side", "cfg", "ignored"} \subseteq DOMAIN t /\ t.here \subseteq Files
  /\ \A d \in Dirs : \A e \in ToSet(Listed[d]) \ Files : e \in DOMAIN t.side
  /\ \A f \in Files : <<Spot[f].dir, Spot[f].stem>> \in DOMAIN t.side
  /\ \A s \in Dirs \cup {Global} : t.cfg[s].rules \in Seq(ToSet(t.cfg[s].rules))
  /\ \A f, g \in Files : t.real[f] = t.real[g] => t.inode[f] = t.inode[g] /\ (IsWeight(f) <=> IsWeight(g))
  /\ \A f \in Files : Spot[f].link # NoFile => t.real[Spot[f].link] = t.real[f]

ASSUME TreesAssumption == \A t \in Trees : Lawful(t)

VARIABLES
  tree,      \* the files, their links and sidecars
  run,       \* how many runs began
  opt,       \* the options of the run: create stubs, dry run
  pc,
  roots,     \* models directories still to walk
  agenda,    \* the open directories, innermost first
  scopes,    \* the scope stack, outermost first
  claims,    \* real files some model is registered for
  orphans,   \* weights remembered by the walk
  models,    \* models built
  out,       \* the models discover() returned
  before     \* what the run before returned

vars == <<tree, run, opt, pc, roots, agenda, scopes, claims, orphans, models, out, before>>

-----------------------------------------------------------------------------
(* Layers *)

Nothing == [k \in Keys |-> Unset]

Union2(below, above) == below \o SelectSeq(above, LAMBDA x : x \notin ToSet(below))

Merge(below, above) ==
  [k \in Keys |->
     CASE above[k] = Unset -> below[k]
       [] above[k] = Null -> Unset
       [] above[k] \notin {Unset, Null} /\ k \in ListKeys /\ below[k] # Unset -> Union2(below[k], above[k])
       [] OTHER -> above[k]]

Layer(defaults, rules) == [defaults |-> defaults, rules |-> rules]

\* What a stack of scopes, outermost first, adds up to.
Stacked(cfg, sc) ==
  LET upTo[n \in 0 .. Len(sc)] ==
        IF n = 0 THEN Layer(Nothing, <<>>)
        ELSE Layer(Merge(upTo[n - 1].defaults, cfg[sc[n]].defaults), upTo[n - 1].rules \o cfg[sc[n]].rules)
  IN upTo[Len(sc)]

RuleMatches(rule, stem, merged) ==
  /\ rule.stem \in {Every, stem}
  /\ rule.cache \in {Every, merged["cache"]}

Over(below, rule) == [k \in Keys |-> IF rule.set[k] = Unset THEN below[k] ELSE rule.set[k]]

\* The last matching rule of a key wins.
Ruled(rules, stem, merged) ==
  LET upTo[n \in 0 .. Len(rules)] ==
        IF n = 0 THEN Nothing
        ELSE IF RuleMatches(rules[n], stem, merged) THEN Over(upTo[n - 1], rules[n]) ELSE upTo[n - 1]
  IN upTo[Len(rules)]

\* One merge of what the rules set over the model.
ApplyRules(rules, stem, merged) == Merge(merged, Ruled(rules, stem, merged))

-----------------------------------------------------------------------------
(* One model *)

Special == {"embeddings", "rerank", "image", "s2t", "t2s"}

EffectiveRole(fm, role) == IF role \in Special \/ fm.type = Unset THEN role ELSE fm.type

Shared(S) == IF Cardinality(S) = 1 THEN CHOOSE r \in S : TRUE ELSE Unset

Format(weight) == IF weight = NoFile THEN "hf_repo" ELSE Spot[weight].ext

ResolveEngines(names, weight, role) ==
  LET able == SelectSeq(names, LAMBDA e : <<e, Format(weight), role>> \in Serves)
  IN IF able = <<>> THEN NoEngine ELSE Head(able)

\* The role a list of tasks implies, Unset when they do not share one.
RoleOf(tasks) == Shared({TaskRoles[x] : x \in ToSet(tasks) \cap DOMAIN TaskRoles})

AsList(v) == IF v = Unset THEN <<>> ELSE v

\* The settings of a sidecar over the defaults of its scopes.
Layers(cfg, fm, sc) == Merge(Stacked(cfg, sc).defaults, fm.keys)

\* The same once rules are applied.
Configured(cfg, slot, fm, sc) == ApplyRules(Stacked(cfg, sc).rules, slot[2], Layers(cfg, fm, sc))

\* The role the directory gives, unless the layers declare tasks; what rules
\* say of them comes later.
DirectoryRole(layers, role) == IF role \in Special /\ layers["tasks"] = Unset THEN role ELSE "chat"

FinalRole(early, implied) == IF implied = Unset THEN early ELSE implied

\* resolve_companions, under the role known by then, and finalize; only a
\* model without an authored sidecar falls back to inference.
Finalize(t, slot, fm, keys, weight, early, role, stub) ==
  [slot |-> slot, stub |-> stub, weight |-> weight, cache |-> keys["cache"], role |-> role,
   mmproj |-> Projector(t, fm.block, fm.repo, weight, early),
   draft |-> Draft(t, IF keys["draft"] = Unset THEN NoRef ELSE keys["draft"], fm.repo, weight),
   engine |-> ResolveEngines(IF keys["engines"] = Unset /\ stub THEN EngineOrder ELSE AsList(keys["engines"]),
                             weight, role),
   error |-> \/ keys["tasks"] # Unset /\ RoleOf(keys["tasks"]) = Unset
             \/ fm.block = Bad /\ weight # NoFile
             \/ fm.template # NoRef /\ ResolvePath(t, fm.template, <<slot[1]>>, fm.repo, FALSE) = NoFile]

\* merge, construct, rules, companions, finalize: the model of a sidecar.
Model(t, slot, fm, sc, dirRole, stub) ==
  LET keys  == Configured(t.cfg, slot, fm, sc)
      early == DirectoryRole(Layers(t.cfg, fm, sc), dirRole)
  IN Finalize(t, slot, fm, keys, Weight(t, slot, fm), early,
              FinalRole(early, RoleOf(AsList(keys["tasks"]))), stub)

\* Models the writer skips: no engine, or an error.
Refused(m) == m.engine = NoEngine \/ m.error

\* Header guards: image weights and the image role go together.
KindFits(m) == m.weight # NoFile => ((m.role = "image") <=> (Spot[m.weight].kind = "image"))

\* Slip: claims are looked up by name instead of by real path.
ClaimedByName(f) == f \in claims

Claimed(f) == tree.real[f] \in claims

ClaimsOf(m) == {tree.real[f] : f \in {m.weight, m.mmproj, m.draft} \ {NoFile}}

\* _build: registers whatever it resolved, also for a model the guards drop.
Build(t, slot, fm, dirRole, sc, stub) ==
  IF Unloadable(t, slot, fm)
  THEN UNCHANGED <<claims, models>>
  ELSE \E m \in {Model(t, slot, fm, sc, dirRole, stub)} :
         /\ claims' = claims \cup ClaimsOf(m)
         /\ models' = IF KindFits(m) THEN Append(models, m) ELSE models

-----------------------------------------------------------------------------
(* The walk *)

HasSidecar(slot) == tree.side[slot] # Absent

SlotOf(f) == <<Spot[f].dir, Spot[f].stem>>

NoData == [ignore |-> FALSE, model |-> NoRef, repo |-> NoRepo, block |-> NoRef, template |-> NoRef,
           type |-> Unset, keys |-> Nothing]

\* What is there to read of the entries a directory may have.
Present(e) == e \notin tree.ignored /\ (e \in tree.here \/ (e \notin Files /\ HasSidecar(e)))

Frame(d, role) == [dir |-> d, role |-> role, files |-> Listed[d], dirs |-> Children[d]]

Here == Head(agenda)

EnterRoot ==
  /\ pc = "walk" /\ agenda = <<>> /\ roots # <<>>
  /\ agenda' = <<Frame(Head(roots), Unset)>>
  /\ scopes' = Append(scopes, Head(roots))
  /\ roots' = Tail(roots)
  /\ UNCHANGED <<tree, run, opt, pc, claims, orphans, models, out, before>>

NextFile == agenda' = <<[Here EXCEPT !.files = Tail(@)]>> \o Tail(agenda)

\* _model_from_sidecar
ReadSidecar ==
  /\ pc = "walk" /\ agenda # <<>> /\ Here.files # <<>>
  /\ LET slot == Head(Here.files)
         fm == tree.side[slot]
     IN /\ slot \notin Files
        /\ IF ~Present(slot) \/ (fm = NoData /\ OwnWeight(tree, slot) = NoFile) \/ fm.ignore
           THEN UNCHANGED <<claims, models>>
           ELSE Build(tree, slot, fm, EffectiveRole(fm, Here.role), scopes, FALSE)
  /\ NextFile
  /\ UNCHANGED <<tree, run, opt, pc, roots, scopes, orphans, out, before>>

\* A weight the walk remembers: no companion, no sidecar of its own.
Candidate(f, role) ==
  /\ Spot[f].ext \in {"gguf", "safetensors"} /\ Spot[f].comp = "no"
  /\ ~HasSidecar(SlotOf(f))
  /\ ~(role = "image" /\ Spot[f].ext = "safetensors")

ReadWeight ==
  /\ pc = "walk" /\ agenda # <<>> /\ Here.files # <<>>
  /\ LET f == Head(Here.files)
     IN /\ f \in Files
        /\ orphans' = IF Present(f) /\ Candidate(f, Here.role)
                      THEN Append(orphans, [file |-> f, role |-> Here.role, scopes |-> scopes]) ELSE orphans
  /\ NextFile
  /\ UNCHANGED <<tree, run, opt, pc, roots, scopes, claims, models, out, before>>

\* Slip: every directory is looked up by its own name.
ChildRoleByName(role, d) == IF d \in DOMAIN DirRoles THEN DirRoles[d] ELSE Unset

\* A directory at depth 1 needs a role; deeper ones inherit it.
ChildRole(role, d) ==
  IF role # Unset THEN role ELSE IF d \in DOMAIN DirRoles THEN DirRoles[d] ELSE Unset

Descend ==
  /\ pc = "walk" /\ agenda # <<>> /\ Here.files = <<>> /\ Here.dirs # <<>>
  /\ LET d == Head(Here.dirs)
         rest == <<[Here EXCEPT !.dirs = Tail(@)]>> \o Tail(agenda)
         role == ChildRole(Here.role, d)
     IN IF role = Unset
        THEN agenda' = rest /\ UNCHANGED scopes
        ELSE /\ agenda' = <<Frame(d, role)>> \o rest
             /\ scopes' = Append(scopes, d)
  /\ UNCHANGED <<tree, run, opt, pc, roots, claims, orphans, models, out, before>>

Leave ==
  /\ pc = "walk" /\ agenda # <<>> /\ Here.files = <<>> /\ Here.dirs = <<>>
  /\ agenda' = Tail(agenda)
  /\ scopes' = Front(scopes)
  /\ UNCHANGED <<tree, run, opt, pc, roots, claims, orphans, models, out, before>>

EndWalk ==
  /\ pc = "walk" /\ agenda = <<>> /\ roots = <<>>
  /\ pc' = "orphans"
  /\ UNCHANGED <<tree, run, opt, roots, agenda, scopes, claims, orphans, models, out, before>>

-----------------------------------------------------------------------------
(* Weights without a sidecar *)

\* Snapshot entries that lead to the same file.
EntriesOf(t, f) == {g \in t.here \ {f} : Spot[g].snap # NoDir /\ t.real[g] = t.real[f]}

\* In a blobs/ tree without a snapshot entry, a readable link is made.
Linked(f) ==
  IF Spot[f].link # NoFile /\ EntriesOf(tree, f) = {} /\ tree.writable
  THEN [tree EXCEPT !.here = @ \cup {Spot[f].link}] ELSE tree

\* _materialize_sidecar: where the sidecar of an orphan belongs.
Home(t, f) ==
  CASE Spot[f].link # NoFile /\ EntriesOf(t, f) # {} -> SlotOf(CHOOSE g \in EntriesOf(t, f) : TRUE)
    [] Spot[f].link # NoFile /\ EntriesOf(t, f) = {} /\ Spot[f].link \in t.here -> SlotOf(Spot[f].link)
    [] OTHER -> SlotOf(f)

\* _write_stub: asked for, not withheld, never over a sidecar, never in blobs/.
Stubbed(t, f) ==
  LET slot == Home(t, f)
  IN IF /\ opt.stubs /\ ~opt.dry /\ t.writable
        /\ t.side[slot] = Absent
        /\ Spot[f].link # NoFile => slot # SlotOf(f)
     THEN [t EXCEPT !.side[slot] = NoData] ELSE t

\* Slip: orphans are built under the live stack instead of a copy.
ScopesOfLive(c) == scopes

\* The scopes an orphan is built under.
ScopesOf(c) == c.scopes

ServeOrphan ==
  /\ pc = "orphans" /\ orphans # <<>>
  /\ LET c == Head(orphans)
     IN IF Claimed(c.file) \/ HasSidecar(SlotOf(c.file))
        THEN UNCHANGED <<tree, claims, models>>
        ELSE LET t == Linked(c.file)
             IN /\ Build(t, Home(t, c.file), NoData, c.role, ScopesOf(c), TRUE)
                /\ tree' = Stubbed(t, c.file)
  /\ orphans' = Tail(orphans)
  /\ UNCHANGED <<run, opt, pc, roots, agenda, scopes, out, before>>

-----------------------------------------------------------------------------
(* Duplicates *)

\* Every model whose key no earlier one has.
Firsts(ms, key) ==
  LET kept[n \in 0 .. Len(ms)] ==
        CASE n = 0 -> <<>>
          [] n # 0 /\ (\E j \in 1 .. n - 1 : key[ms[j]] = key[ms[n]]) -> kept[n - 1]
          [] OTHER -> Append(kept[n - 1], ms[n])
  IN kept[Len(ms)]

\* Slip: duplicates are told apart by the name of the weight.
FileKeyByName(m) == IF m.weight = NoFile THEN m.slot ELSE <<m.weight, m.weight>>

FileKey(m) == IF m.weight = NoFile THEN m.slot ELSE <<tree.real[m.weight], tree.inode[m.weight]>>

Distinct == Firsts(models, [m \in ToSet(models) |-> FileKey(m)])

OfEachId == Firsts(Distinct, [m \in ToSet(Distinct) |-> Id[m.slot]])

SidecarFile(slot) == IF HasSidecar(slot) THEN tree.mdfile[slot] ELSE slot

\* Two sidecars, not links of one, that give the same model_id.
Clash ==
  \E m, n \in ToSet(Distinct) : Id[m.slot] = Id[n.slot] /\ SidecarFile(m.slot) # SidecarFile(n.slot)

Return ==
  /\ pc = "orphans" /\ orphans = <<>>
  /\ IF Clash THEN pc' = "clash" /\ out' = <<>>
     ELSE pc' = "done" /\ out' = OfEachId
  /\ UNCHANGED <<tree, run, opt, roots, agenda, scopes, claims, orphans, models, before>>

-----------------------------------------------------------------------------
Init ==
  /\ tree \in Trees
  /\ run = 0 /\ opt = [stubs |-> FALSE, dry |-> FALSE] /\ pc = "idle"
  /\ roots = <<>> /\ agenda = <<>> /\ scopes = <<Global>>
  /\ claims = {} /\ orphans = <<>> /\ models = <<>> /\ out = <<>> /\ before = <<>>

\* Slip: the registry survives into the next discovery of a process.
FreshRegistryKept == claims

\* clear_registry
FreshRegistry == {}

\* main: profiles.yaml is the outermost scope; discover clears the registry.
Begin ==
  /\ pc \in {"idle", "done"} /\ run < MaxRuns
  /\ run' = run + 1 /\ opt' \in Options
  /\ pc' = "walk" /\ roots' = Roots
  /\ agenda' = <<>> /\ scopes' = <<Global>>
  /\ claims' = FreshRegistry /\ orphans' = <<>> /\ models' = <<>> /\ out' = <<>> /\ before' = out
  /\ UNCHANGED tree

Next ==
  \/ Begin \/ EnterRoot \/ ReadSidecar \/ ReadWeight \/ Descend \/ Leave
  \/ EndWalk \/ ServeOrphan \/ Return

Spec == Init /\ [][Next]_vars

-----------------------------------------------------------------------------
(* Properties *)

Done == pc = "done"

\* The scopes of a directory, outermost first, from its parent's; none outside
\* the roots.
Below(above, d) ==
  CASE d \in ToSet(Roots) -> <<Global, d>>
    [] d \notin ToSet(Roots) /\ Parent[d] \in Dirs /\ above # <<>> -> Append(above, d)
    [] OTHER -> <<>>

Path[d \in Dirs] == Below(Path[Parent[d]], d)

\* Depth 1 decides: <<Global, root, directory, ...>>.
Reached(d) == Path[d] # <<>> /\ (Len(Path[d]) > 2 => Path[d][3] \in DOMAIN DirRoles)

DirRole(d) == IF Len(Path[d]) > 2 THEN DirRoles[Path[d][3]] ELSE Unset

Clean(v) == IF v = Null THEN Unset ELSE v

\* Which layer decides the cache type, looked up instead of folded: the
\* innermost matching rule, else the sidecar, else the innermost default.
Decided(cfg, path, stem, own) ==
  LET set == {i \in DOMAIN path : cfg[path[i]].defaults["cache"] # Unset}
      base == CASE own # Unset -> Clean(own)
                [] own = Unset /\ set # {} -> Clean(cfg[path[Max(set)]].defaults["cache"])
                [] OTHER -> Unset
      rules == Stacked(cfg, path).rules
      hits == {i \in DOMAIN rules : /\ rules[i].stem \in {Every, stem} /\ rules[i].cache \in {Every, base}
                                    /\ rules[i].set["cache"] # Unset}
  IN IF hits = {} THEN base ELSE Clean(rules[Max(hits)].set["cache"])

OwnData(m) == IF m.stub THEN NoData ELSE tree.side[m.slot]

\* The weight of a blobs/ tree, housed under the name that leads to it, stands
\* in the scopes of whichever of the two names the walk met.
Housed(m) ==
  m.stub /\ \E f, g \in Files : Spot[f].link # NoFile /\ tree.real[g] = tree.real[f] /\ m.slot = SlotOf(g)

\* Every model is configured by the scopes of its own directory, inner over
\* outer over global, whatever other directories the walk opened in between
\* and however late its weight was served.
InnermostDecides ==
  \A m \in ToSet(models) :
    ~Housed(m) => m.cache = Decided(tree.cfg, Path[m.slot[1]], m.slot[2], OwnData(m).keys["cache"])

\* Weights of several formats under one stem: a sidecar without a name means
\* the first of them, whichever of them it was made for.
Twins(slot) == Cardinality({f \in tree.here : SlotOf(f) = slot /\ IsWeight(f)}) > 1

\* A weight is served without a sidecar only when no sidecar anywhere in the
\* tree serves it, be it by another name, or uses it as a companion.
OrphansUnclaimed ==
  \A m, n \in ToSet(models) : m.stub /\ ~n.stub /\ ~Twins(m.slot) => tree.real[m.weight] \notin ClaimsOf(n)

\* The same file never becomes two entries through symbolic links or two
\* sidecars; and of the models of a file one stays, unless its sidecar is the
\* second link of one that does.
EachFileOnce ==
  Done => /\ \A i, j \in DOMAIN out : i # j /\ out[i].weight # NoFile /\ out[j].weight # NoFile
                                     => tree.real[out[i].weight] # tree.real[out[j].weight]
          /\ \A m \in ToSet(models) : \E k \in ToSet(models), n \in ToSet(out) :
               FileKey(k) = FileKey(m) /\ (k = n \/ SidecarFile(k.slot) = SidecarFile(n.slot))

\* No sidecar drops out but for a duplicate of its weight, or of itself. The
\* second link of a sidecar takes the others that name its weight along.
DuplicatesCostNothing ==
  Done => \A m \in ToSet(models) : \E n \in ToSet(out) :
            FileKey(n) = FileKey(m) \/ SidecarFile(n.slot) = SidecarFile(m.slot)

\* A weight under a served directory that no model is registered for and no
\* sidecar decides about.
Forgotten(f) ==
  /\ Reached(Spot[f].dir) /\ f \notin tree.ignored /\ Spot[f].comp = "no"
  /\ Spot[f].ext \in {"gguf", "safetensors"}
  /\ ~(Spot[f].ext = "safetensors" /\ DirRole(Spot[f].dir) = "image")
  /\ ~Claimed(f) /\ ~HasSidecar(SlotOf(f)) /\ Spot[f].link = NoFile

\* Nothing disappears silently, but for the second weight of a stem.
NothingForgotten == Done => \A f \in tree.here : Forgotten(f) => Twins(SlotOf(f))

\* glossary.md: a model file without a sidecar is still discovered and served.
OrphansServed == Done => \A f \in tree.here : ~Forgotten(f)

\* The stubs and links one run leaves never change what the next one makes of
\* the models that have no stub; the stub of a second format would serve the
\* first one in the place of the sidecar that serves it, by whatever name.
RerunStable ==
  Done /\ before # <<>> =>
    \A m \in ToSet(before) :
      \/ m \in ToSet(out)
      \/ m.stub /\ HasSidecar(m.slot)
      \/ Housed(m)
      \/ m.weight # NoFile /\ \E f \in tree.here : tree.real[f] = tree.real[m.weight] /\ Twins(SlotOf(f))

\* SPEC.md: a stub and an authored sidecar behave identically.
StubServesAgain ==
  Done /\ before # <<>> =>
    \A m \in ToSet(before) : m.stub /\ ~Refused(m) => \E n \in ToSet(out) : n.slot = m.slot /\ ~Refused(n)

\* model.py: rerank, embeddings and media models never auto-attach vision.
VisionForChatOnly ==
  \A m \in ToSet(models) : m.mmproj # NoFile /\ OwnData(m).block = NoRef => m.role = "chat"

\* SPEC.md: hard links of one inode are one model.
EachInodeOnce ==
  Done => \A i, j \in DOMAIN out : i # j /\ out[i].weight # NoFile /\ out[j].weight # NoFile
                                  => tree.inode[out[i].weight] # tree.inode[out[j].weight]

\* SPEC.md: a dry run creates no files.
DryRunCreatesNothing == [][opt.dry /\ run' = run => tree' = tree]_vars

=============================================================================
