# llama-packer: a TLA+ development

llama-packer reads a tree of model files and their hand-written sidecars
(`.md` with a YAML frontmatter), sizes every model against the machine's memory
and writes the configuration of llama-swap; `extras/` keeps the engines it runs
up to date. This directory holds TLA+ modules for the parts of it that decide
something, TLC configurations that check them, and theorems about them that
TLAPS checks. `PROJECT.json` maps every definition to the lines it models and
lists the runs, mutants, hazards and findings.

    tlc -workers 2 -config Planner.cfg MCPlanner      # a run
    tlapm PlannerProofs.tla                           # its proofs

## 1. The system

| Component | Code | State | Operations | What is hard | What makes it correct | Model |
|---|---|---|---|---|---|---|
| Discovery and inheritance | `discover.py`, `scope.py`, `overrides.py` | the scope stack, orphans, stubs and links on disk | walk, enter and leave a scope, build, serve orphans, drop duplicates | what one directory says is used after the walk has left it; a run walks what the last one wrote | the innermost layer decides; no file served twice or lost; a second run finds the same | `Discovery` |
| Model registry | `model.py` `Model`, `WeightFinder`; `utils.py` hub lookups | registered models, claimed files | resolve a weight, projector, draft, template | names, links and hub snapshots of one file | a file claimed by a model is not served as an orphan | `Refs`, `Discovery` |
| Measured-block persistence | `model.py` `sync_measured_file`, `persist_measured`; `vram.py` `fit_params_static`; `memory_probe.py` `affine_report`; `extras/clear-measured` | the `derived:` block of each sidecar, memory's copy, the `.md.tmp` | load, sync, reuse, re-measure, probe, persist, purge | histories of launches, edits, failed writes and crashes | no reuse across cache types or flags; sidecars never torn; dry runs write nothing | `Derived` |
| Measurement campaigns | `gpu_state.py`, `memory_probe.py` `run_probe`, `vram.py` `_run_measure_server` | a lock file, child processes | acquire, steal, scan, launch, wait, kill, release | several packers; crashes that leave a lock and an orphan server; hung and unkillable children | one campaign at a time, each measurement alone on the card, no wedged lock | `Campaign` |
| Sizing law | `vram.py` `effective_static`, `calc_ctx`; `writer.py` `shed_levels`, `_auto_parallel`, `parallel_value` | none (per-solve flags) | context for a budget, shed ladder, slot search | roundings and clamps applied in sequence; one budget seen by several solves | what a solve says fits does fit; a floor is kept | `Serving` |
| Matrix solve | `writer.py` `_solve_matrix_context` | the shared chat context, the contexts of the embedding and rerank models | baseline, squeeze, floor, add categories and co-loads, price the sets | every step is a solve beside the results of the steps before | the shared context is one some model affords; an addition keeps the floor | `Residents` |
| Planner | `writer.py` `Planner`, `_verify_no_overallocation`; `tasks.py`, `profiles.py` | servings, variants, set admission | solve per model, group and category; admit; emit; verify | several solves and probes with different inputs decide one entry | entries fit, alone and beside the residents of their sets; names promise what they serve | `Planner` |
| Set expressions | `writer.py` `_expr_leaves`, `_prune_leaves`, `set_overhead_mb` | none | leaves, price, prune, substitute | references, nesting | the worst alternative is the one charged | `SetExpr` |
| Routing, host pool | `__main__.py` `_detect_matrix`, `_build_matrix_vars`, `_expand_matrix_sets`; `writer.py` `HostLedger`, `_host_unit_refusals` | categories, refusals, ledger, variables, sets | bind, judge, commit, list, expand, pin, drop | compositions overlap; what is refused in one is named in another | nothing dangling, nobody in a set that did not admit it, pins paid for | `Routing` |
| Emission, pipeline | `writer.py` `emit_config`, `write_yaml`; `__main__.py` `main` | ids, entries, `config.yaml`, `config.env` | gates, plan, emit, write | a failure between two outputs; ids that must survive repacks | a refusal leaves the outputs alone; a known id keeps its meaning | `Pack` |
| Engine updater | `extras/update.py`, the swap of `extras/build_engine.py` | versioned entries, the stable name, other links, the backup | check, stage, promote, back up, relink, prune, roll back | a kill between any two file operations, and the next run | the stable name runs something whole; the backup is the previous version | `Update`, `Rollout` |
| Updater's command line | `extras/update.py` `main` | the targets of one run, where each engine lives | parse, select, locate, install in order | a selector that is nearly a version; the directory depends on where one stands | an ambiguous word installs nothing; exit 0 means all done; no second copy | `Targets` |
| Hardware, header and log readers, backends' text | `hardware.py`, `ggufmeta.py`, `vram_log.py`, `backends/` | none | parse, render | formats | | not modelled: I/O and text; their numbers are constants of the models |
| Installer, engine build, bench, monitors | `install.py`, `build_engine.py`, `bench.py` ... | | a line of external commands; reports | | | not modelled, but for the source build's swap, in `Update` |

How they interact. Discovery builds the models, syncs each sidecar's block
(`Derived`) and registers the files they claim. `_detect_matrix` binds the
categories (`Routing`), the matrix solve fixes the context the chat models share
and what every set costs (`Residents`), and the planner sizes each model's
servings with them (`Serving`, `Planner`), asking the model's budget for its
constants, which answers from the block or measures and persists (`Derived`).
Routing turns the entries and the admission map into sets, emission publishes
them under ids (`Pack`). A campaign (`--probe-memory`) is another mode of the
same program: it never plans, it starts llama-servers (`Campaign`) and files
what it measured in the sidecars (`Derived`). The updater is a program of its
own whose stable names are what the configuration runs.

The seams between the modules are constants: `Planner`'s rosters hold a target
and a charge per set, any numbers, where `Residents` computes them;
`Routing` and `Pack` take any outcome of the planner (any entries admitted to
any sets, any variants) instead of composing with it. What they prove holds for more
than the planner produces; what they cannot see is listed in section 5.

The program is single-threaded. Its concurrency is between launches of it,
between a launch and its children, and between a launch and the operator; what
is hard inside one launch is that many solves, with inputs that differ a
little, decide one entry, and that later steps use what earlier ones left.

## 2. The modules

| Module | What it is |
|---|---|
| `Serving` | pure operators: the affine law, the ladder, the slot search |
| `Planner` (extends `Serving`), `MCPlanner` | the planning loop, and what a plan promises |
| `Residents`, `MCResidents` | the shared solve before it |
| `SetExpr` | set expressions as lists of groups |
| `Routing` (extends `SetExpr`), `MCRouting` | from a fleet and a `matrix:` section to the sets |
| `Pack`, `MCPack` | one invocation after another: stages, ids, outputs |
| `Refs` | what a file reference denotes, as functions of a tree |
| `Discovery` (extends `Refs`), `MCDiscovery` | the walk, over several runs |
| `Derived`, `MCDerived` | one sidecar's block over many launches |
| `Campaign`, `MCCampaign` | packers, the lock file, measurement servers |
| `Rollout` | what an engine's updater promises, as a specification |
| `Update`, `MCUpdate` | one engine's directory; implements `Rollout` |
| `Targets`, `MCTargets` | the updater's command line and install directories |
| `PlannerProofs` (with `Serving`'s), `ResidentsProofs`, `RoutingProofs`, `PackProofs`, `DiscoveryProofs`, `MeasuredProofs` (of `Derived` and `Campaign`), `UpdateProofs`, `TargetsProofs` | theorems |

An operator whose comment says "Mutant of X" or "Slip" is a plausible bug in X,
used to show that a property would notice it; nothing else refers to it.

### Serving and Planner

A model is a record of what the planner reads of a sidecar: `base` (weights and
compute), `kv` and `slot` (the affine terms), what a projector and a separate
draft add, its ceiling, floor, pin and claims. `CalcCtx` is `calc_ctx` with its
two results, the context and the over-budget flag; 0 stands for an absent
optional. Memory is linear in integers: the code's constants are floats and
truncated with `int()`, the model's are integers and `\div` rounds down, which
keeps every comparison the properties make. The value function
`(ctx/floor)^0.5 * slots^power` is compared after raising to the fourth power
(`Value`), with the floor, a common factor, left out, so `SlotPower` is four
times `parallel_power`.

`Planner` runs the loop of `plan()`: `StartGroup` fixes the co-resident charge
of a (model, group), one of `Lacks`, `Unserved`, `ZeroFloor`, `ServeAuto`,
`ServePinned` decides each demand, `FinishGroup` turns servings into variants
(unestimated models and the host pool included) and `Verify` is
`_verify_no_overallocation`. A `roster` holds one run's inputs: models, groups,
the residents' overhead per set, the matrix solve's context, `--max-context`.
It is chosen in `Init`, so one run of TLC covers many fleets, and a theorem
about `Spec` holds for all of them.

Two shapes of models are sized without something their entry loads (section 3,
"Disagreements"), so the memory properties come in two forms: one as documented,
which the code does not keep, and one (`Sound...`) restricted to `Sound` models,
which the run checks and TLAPS proves.

### Residents

`Baseline` is the best context any chat model gets beside the heaviest set;
`Squeeze` takes the embedding and rerank models down to their caps when that
lifts the chat context to a useful size and by enough; `SetFloor` fixes what
chat must keep; `Add` and `Skip` are the loop over declared categories, then
co-loads, in the order of their sizes; `Price` is what every set costs at the
contexts adopted. A set is what its expression lets be resident at once, the
result of `SetExpr`'s `Options`, with declared categories entering as a sum.
A model may be named by its variable or by its id. The solve charges both
(`Held`); the prices come from a table of variables only, where an id costs
nothing (`Priced`), as in the code. Only chat-capable sets are in `sets`; that
some other set holds the co-loads' placeholder is `elsewhere`, which is enough
for candidates to be considered and charged (`Coloadable`).

### SetExpr and Routing

An expression is the list of its groups, inner ones first, as parentheses close:
a group is an operation on earlier groups, or a name, or a reference to another
set. `LeavesAt`, `OptionsAt`, `OverheadAt` and `Remains` are the code's
`_expr_leaves`, `_resident_options`, `set_overhead_mb` and the question
`_prune_leaves` asks of every part, each as one function over the groups of all
sets (`Places`), defined from the groups a group is made of (`Under`: its parts,
and the last group of the set it refers to). `Pruned`, `Substituted` and
`Extended` edit a list as the code edits its text: `Extended` has the text's
precedence, a term appended to `a | b` binds `b`. The code's guard against
references that come back to where they start (`_seen`) is left out:
configurations are `Acyclic`.

`Routing` runs `Detect` (bind categories), `Judge` (host compositions as units),
`Commit` (the ledger), `Plan` (any outcome), `BuildVars`, `ChatLists` (with the
loop variable the code really uses, `LastSet`), `Expand` (placeholders, then a
pin after the other), `Drop`. A configuration is any fleet and any sets that are
`Written` (an expression as text reads, with `__COLOAD_VARS__` a term beside
another one) and whose names are `Apart` (no category is called as a chat
variable, a placeholder or the second co-load).

### Refs and Discovery

`Refs` resolves a reference against a tree of files: directories in the order
of the anchors, then the hub's snapshot, by pick, glob or only candidate.
`Discovery` is the recursion of `discover()` unfolded into an agenda of open directories with
their scopes: `EnterRoot`, `NextFile`, `ReadSidecar`, `ReadWeight`, `Descend`,
`Leave`, `ServeOrphan`, `Return`. `Stacked` folds the open scopes, `Ruled` the rules
that match. `Build` composes the layers as the code does:
the early role is judged on the merged layers before rules (`Layers`,
`DirectoryRole`) and decides what applies, the sidecar wins, `Finalize` adds
what is implied. `Begin` starts the next run on the tree the last one left, with
stubs and readable links in it. Weights of several formats under one stem are
resolved in the code's order of formats, which is what makes the second of them
a special case (section 3, "Disagreements").

### Derived

Numbers are abstracted to their provenance: a block's `params` say with which
weights, cache type and flags they were really measured, beside what the block's
stamps claim. A launch runs discovery (`Load`, `Sync`), then either
`fit_params_static` (`Answer`, `Recompute`, `Trio`, `Fast`) or `affine_report`
(`Estimate`, `Grid`, `File`, `Reject`), and persists through `Open`, `Write`,
`Replace`. Any write may fail when `writable` is FALSE. `Crash` may come at any
step; `Swap`, `Reconfigure` and `Clear` are the operator's, between launches.
`Clear` (`extras/clear-measured`) rewrites the file in place and may tear it.

### Campaign

A process is one launch. The lock file is identified by its creator and
`written` says whose file has the pid in it, so the file at the path, the file a
process still has open and the pid a reader sees are three different things.
`pc` follows `run_probe`, `measurement_lock` and `_run_measure_server`
statement by statement where another process can look in between. The server
(`leader`) loads, hangs, listens or exits by itself at any time; `kin` is a
descendant in its process group. `Crash` is a SIGKILL: no `finally` runs and the
server goes on. `Interrupt` is a Ctrl-C in the scan or the wait, the places a
campaign spends its hours in.

`Overlap` says whether a launch may enter the acquisition while another is in
it. A created lock is empty until the pid is written and an empty lock reads as
a dead owner's, so with overlap the lock excludes nobody (run
`campaign_overlap`). With `Overlap = FALSE`, launches at least one acquisition
apart, which is how a person or a nightly timer starts them, it does its work:
that is what `campaign` checks and `MeasuredProofs` proves.

### Rollout and Update

`Update` has one install directory, of a kind: `cpp` (llama.cpp, whole build
directories, no backup), `swap` (llama-swap, single files, asked for their
version) or `bundle` (whisper.cpp, stable-diffusion.cpp, audio.cpp, also built
from source). An entry's contents are abstracted to the version inside. Each
action is one file operation: `SetAside`/`Land` the two renames of a promotion,
`OpenBackup`/`CopyBackup` a copy that truncates and then fills,
`Unlink`/`Symlink` the swap of a name, `Prune` one removal. `Crash` is a kill
between any two; the next run starts from the directory that leaves, links that
dangle and versions that are away included. `Publish` and `Relink` are
upstream's and the operator's.

`Rollout` is the promise without names, backups or steps: a phase, the versions
installed whole, what the stable name runs, and whether retirement minds it.
`Update` maps to it by `R == INSTANCE Rollout WITH ...` (`Phase`, `Present`,
`Served`); checking or staging a version and copying a backup are stutters.

### Targets

The positionals one at a time (`Selector`, `AmbiguousSelector`, `OtherWord`),
`Locate` every engine's home from the option, the environment, the config map or
the search from the directory the run stands in, then `Install`, `TargetFails`,
`Abandon` and `Exit` in the order of `ALL_TARGETS`.

### Pack

`main` as a list of stages; a stage may `Refuse`, `Advance` (with its side
effects: stubs, measured blocks, the projects' notes), `Plan`, `Emit` one
(model, variant), `Accept`, `OpenConfig` (which truncates), `WriteConfig`,
`WriteEnv`; a write may fail and the process be killed at any of them
(`Fails`). Ids are their dotted parts, and `known` is every entry ever
published, which stands for a client that cached its id.

## 3. The runs

Passing runs:

| Run | Bounds | What it shows |
|---|---|---|
| `planner` | 984 fleets of one or two models, one or two profile groups, two sets, four categories; 6872 states | what an entry promises, at every step |
| `residents` | cards of 10 to 60 units, fleets with and without tools, sets, residents named by id, categories and co-loads; 189 968 states | what the shared solve adopts is affordable, its squeeze is needed, and prices stay within what was reserved |
| `routing` | 8 fleets, host pools of 0 to 14, every plan; 66 768 states | the sets name what there is and the host holds what it keeps |
| `discovery` | 14 files in 11 directories, several trees of links, hub files and linked sidecars, two runs; 81 573 states | layers, orphans, duplicates, and what a second run finds |
| `pack` | 5 fleets, 4 command lines, two invocations, failures and kills; 1.3 million states | outputs and ids over a history |
| `derived` | one sidecar, two cache types, two flag strings, two weight files, any number of launches; 1.1 million states | what a history of launches and accidents leaves |
| `campaign` | two launches, two points each; 8036 states | exclusion, exclusive measurement, cleanup, progress |
| `update` | 4 versions, three kinds, a source build, `CppKeep` 3, `Keep` 1, any number of runs and kills; 1.7 million states | the stable name and the backup over any history, and the refinement |
| `targets` | every command line of at most two of eleven words, engines anywhere in a small tree, one run from any directory; 410 344 states | what is installed, where, and what exit 0 means |

Why the bounds are enough. `planner`: card and models are scaled (a unit of
memory is 256 MiB, of context 1024 tokens) so that the sizes of `Texts` and
`Seers` sit on both sides of every branch: fits at design, squeezed, below the
minimum, over budget, each with and without projector, draft, image floor,
ceiling, pin and floor. Groups, sets and categories interact only through the
charge, the admission map and the entries, and two of each make every such pair.
`residents`: every card size in steps finer than a rounding step; a category and
a co-load each that fit and that do not. `routing`: the fleets have two models
of a role, CPU and GPU, sets with alternatives, nesting and references, and a
pool for each sum of their sizes. `discovery`: each tree has one shape of link
or claim; two runs are one that writes and one that walks what was written.
`pack`: two invocations are one whose outputs and ids the other finds.
`campaign`: the first launch may crash anywhere and leave its lock and orphan to
the second; a third adds no new pair (three launches of one point were checked
too). Two points are one with a successor and a last one. `derived`: launches
are unbounded; a second value of each attribute is what it takes to be
different. `update`: four versions are the served one, the backup's, the new one
and one to prune. `targets`: one run, because `Init` puts engines anywhere an
earlier run may have; two words are what it takes for one to change the other's
meaning.

Properties of the runs (each has a mutant of the code that breaks it):

- `planner`. `SoundEntriesFit`, `SoundAdmittedFit`: an entry's real footprint, companions
  included, fits the card, and fits it beside the residents of every set the
  entry was admitted to. `SoundCategoryFloor`: an entry with a category's name
  serves its minimum. `FallbackStands`: the fallback is there wherever a
  category is.
- `residents`. `SharedContextServed`: above the minimum, some chat model affords
  the shared context beside anything a set may hold before co-loads or
  categories are added. `AdditionsKeepFloor`: beside all that was added some
  chat model keeps the floor.
  `SqueezeNeeded`: the embedding and rerank models are squeezed, or chat stays
  below the tools threshold, only where no chat model of the fleet could have
  had the threshold beside them as configured, though the solve looks at one
  model after the other. `PricesReserved`: beside what entries are charged for a
  set, by other tables and contexts than the solve's, some chat model still
  affords what the solve promised.
- `routing`. `NoDanglingLeaf`: a name in an emitted set is a variable, as long as
  no two categories share a model.
  `FittingSetsWhole`: a set whose compositions fit loses nothing to the refusal
  of others.
  `NoForcedTwin`: a pin never makes two models of a role resident in an option
  that chose one. `PinsCommitted`: a pinned helper was charged to the ledger.
  `PriceCoversOptions`: an expression's price is the dearest option's.
- `discovery`. `InnermostDecides`: a value comes from the innermost layer that
  has one, also for what is built after the walk. `OrphansUnclaimed`: no file a
  model claims is served by itself. `EachFileOnce`: one model a file, and a model
  is dropped only for a duplicate of its weight, or of a sidecar that is another
  link to one that stays. `NothingForgotten`: no weight is lost silently.
  `RerunStable`: the stubs and links of a run do not change what the next makes
  of the models that have no stub. The last two and `OrphansUnclaimed` except a
  second format of one stem: `RerunStable` wherever a name of the weight has
  one, since the stub of the second format then serves the first one.
- `pack`. `RefusalKeepsOutputs`: a refused invocation leaves `config.yaml` and
  `config.env`. `OutputsAgree`: the environment never describes a later run than a whole
  configuration. `PlanPublished`: at the end of a pack what it published is the
  plan, one entry a serving and each under an id of its own model. `SoundIdsStable`: an id once published
  means the same serving for ever, for models alone with their stem, of one
  profile group, whose id extends no other's and whose categories do not look
  like flags.
- `derived`. `ServedAsAsked`: constants are never reused across cache types, nor compute
  terms across flags. `SidecarWhole`: no launch tears a sidecar.
  `LaterRunsPayNothing`: what was served is kept. `ServerTruthSurvives`: a
  probe's truth about the present weights is not traded for an estimate.
- `campaign`. `SingleFlight`, `LockKept`, `StaleLockFalls`: one campaign past its lock;
  nobody else removes it; a dead owner's lock does not wedge the tool.
  `ExclusiveMeasurement`: no measured server shares the card. `LaunchEnds`.
- `update`. `BackupKept`: from the swap on, the backup is what the stable name
  ran. `SwapServes`: a llama-swap run that reports success leaves its version
  running. `CppServes`: a llama.cpp run that lands the latest release and
  reports success leaves the stable name running it, though the pruner comes
  before the links and asks none of them.
  `HarmlessUnlessLanded`: a run that installs nothing changes nothing.
  `ImplementsRollout`.
- `targets`. `AmbiguityInstallsNothing`, `ZeroMeansAllDone`, and `NoSecondCopy`:
  an engine that is in sight of the run is updated where it is.

Type invariants and `DryRunReadOnly` (`Derived`) have no run: they are proved.

Fairness. Only the campaigns state it. Every
wait of a campaign has a timeout (`_MEASURE_TIMEOUT_S`, the stall window,
`_KILL_GRACE_S`), so a packer that is not killed keeps stepping:
`WF_vars(Step(p))` per process, and none for children, crashes, interrupts or
the operator. The other specifications state none and no liveness: their loops
run over finite sequences the model consumes. Deadlock is checked in `Derived`,
which has always a next launch; the others end, or are bounded in invocations.

### Disagreements

Violation runs, one property each, on the smallest input that shows it:

| Run | What the code does |
|---|---|
| `campaign_overlap` | an unstamped lock is stolen from a live owner (`gpu_state.py:177`) |
| `routing_sets` | the per-set chat lists are filtered for the last set only (`__main__.py:1320`), the other sets fall back to the full list |
| `pack_ids` | which serving gets a stem's bare id depends on the plan (`writer.py:3316`), so a repack can repoint a cached id |

More of them are stated in the modules, as definitions that no run of the
project checks; TLC refutes each under the change given.

| Definition | To see it | What the code does |
|---|---|---|
| `Planner.EntriesFit` | `Planner.cfg`, `Rosters <- ProjectorRosters` | a projector without an `mmproj:` block is shed for the solve and loaded by the entry (`writer.py:2679`) |
| `Planner.AdmittedEntriesFit` | `Rosters <- SetRosters` | a claim of two slots joins a set its solve was not charged for (`writer.py:2143`) |
| `Planner.FallbackStands` | `Rosters <- NamedRosters`, `DefaultShed <- NamedShed` | with a `shed:` that does not name vision, the fallback cannot concede a projector a category conceded and is missing beside it (`writer.py:810-816`: it concedes whatever leaves no other serving) |
| `Planner.CategoryFloor` | `Rosters <- FloorRosters` | a sidecar `min_context` below the category's becomes the category's floor (`writer.py:2605`) |
| `Planner.NeverTracebacks` | `Planner.cfg` | a claimed category of minimum 0, on a model without `min_context`, divides by zero (`writer.py:1191`, action `ZeroFloor`) where `__main__.py:1225` has planning never traceback |
| `Planner.UnderCeiling` | `Rosters <- CeilingRosters` | the image floor lifts a context over the operator's ceiling (`vram.py:1572`) |
| `Residents.PricesAgree` | `Residents.cfg` | a resident named by its id is charged by the solve (`writer.py:3060-3064`) and priced 0 afterwards (`writer.py:1939-1945` says the prices agree) |
| `Campaign.GroupGone` | `Campaign.cfg`, `Points = 1` | a descendant outlives the group kill (`gpu_state.py:120`) |
| `Derived.FileChangeInvalidates` | `Derived.cfg` | new weights are sized with the old file's constants (`model.py:1217`) |
| `Derived.ProbePersists` | `Derived.cfg`, as PROPERTY | a probe persists only baked-in drafts, and raises for a model without any (`memory_probe.py:291`) |
| `Update.NeverPrunedUnderLink` | `Update.cfg`, as PROPERTY, `Kinds = {"cpp"}`, `Releases <- CppOnly`, `Builds = {}` | llama.cpp's pruner counts and never asks what a link names (`update.py:901`; `docs/glossary.md`, "versioned entry") |
| `Routing.SelectorDecides` | `Routing.cfg` | a declared category's own selector overrides `--embed` and `--rerank` (`__main__.py:502`, against SPEC.md) |
| `Discovery.OrphansServed` | `Trees <- TwinTrees` | of several formats under one stem only the first is served, the others silently not (`model.py:885`; SPEC.md:1582-1583, `docs/glossary.md:15`), and the stub of a second format serves the first on the next run in place of the sidecar that serves it |
| `Discovery.DuplicatesCostNothing` | `Discovery.cfg` (`Trees <- LinkedSidecars` is enough) | a sidecar linked into a second directory is dropped after it took the place of another sidecar of its weight, so that weight is served by nobody (`discover.py:106-164`) |
| `Discovery.StubServesAgain` | `Discovery.cfg` | a stub without `engines` is refused by the next run (SPEC.md:1573-1575) |
| `Discovery.VisionForChatOnly` | `Discovery.cfg`, `Trees <- Tagged` | a projector is attached by the role known early, before tasks decide it (`discover.py:299`, `model.py:796`) |
| `Discovery.EachInodeOnce` | `Trees <- HardLinked` | hard links are two files (`discover.py:111`, SPEC.md:1493-1494) |
| `Discovery.DryRunCreatesNothing` | `Trees <- BlobTree`, as PROPERTY | a dry run creates the readable links of a `blobs/` tree (`discover.py:444`, SPEC.md:1771-1772) |
| `Pack.DryRunWithholds` | `Pack.cfg`, as PROPERTY | discovery links blobs under readable names in a dry run as well (`discover.py:443-447`, against `__main__.py:838`) |
| `Pack.OnlyModelsClash` | `Pack.cfg` | a category named like a single-profile group refuses the whole pack, as a clash of models (`writer.py:3286`) |
| `Pack.VariantsOnce` | `Pack.cfg` | two sidecars of one stem share one plan (`emit_config`'s filing by stem) |

Others met while reading, without a definition of their own:

- Planner: a draft shed by a rung is counted again by the final solve
  (`writer.py:2618`); a second profile group overwrites the admission of the
  first (`writer.py:2191`); the last pass drops entries when a profile's spare is below
  the fleet's.
- Derived: a legacy block that `sync_measured_file` has to touch loses its
  constants before they can be migrated (`model.py:1232`, in `Sync`); a probe
  without an estimate reads residuals that were never computed (`Grid`);
  `--remeasure` writes the sidecars FAQ.md says it leaves alone (`Trio`).
- Residents: an alias of a pair model is priced 0 in a set; the chat
  context is not lowered after co-loads were added; a co-load placeholder that
  only a set without chat holds admits every candidate that fits and charges
  the ledger for it (`writer.py:2847`), though no chat set names it.
- Routing: pins join after the host's judgement and are not counted in it; a pin
  appended to an unparenthesised `a | b` binds the last alternative only;
  categories named `embed` or `rerank` on the CPU trip the ledger's assertion;
  a CPU model under two names is charged twice; `emb & (__COLOAD_VARS__)` without
  co-loads leaves `()`. A set that refers to a chat set may hold two models of a
  role: `base: "__CHAT_VARS__ & emb"` gets the pin `rnk`, and `full: "+base &
  rnk2"`, judged against `base` as configured, names both (`__main__.py:763`;
  the premise of `NoForcedTwin`). A category named `s2t` that is refused leaves
  its name to a co-load, which is then pruned from every set with it
  (`__main__.py:635`, `:546`; the premise `ColoadApart`).
- Discovery: a `model_id` used twice raises a `ValueError` nobody catches
  (`pc = "clash"`); an orphan that is another orphan's draft is served or not by
  the order of their names.
- Update: promotion leaves the name absent between its renames, where its
  docstring denies it; a `.bak` that is a link is written through; a bundle's
  backup is a binary without its libraries; an unanswered `--version` counts as
  version 0; llama.cpp's downloads bypass the check of archives; an old llama.cpp
  asked for by name is pruned right after its installation; leftovers of a
  killed staging are never reclaimed; a llama.cpp run killed between its prune
  and its links may leave the stable name dangling, and the next run finds the
  release already there and does not repair the name, as llama-swap's would.
- Targets: a selector that matches nothing is taken for a version and the
  defaults are installed; an `ApiError` of llama.cpp or llama-swap, or an
  unsupported architecture, abandons the targets after it.
- Pack: `config.yaml` is truncated before its text is built, so a kill or a full
  disk leaves it torn; a refused run has already written stubs, blocks and notes;
  a category called `t`, `i` or `ti` gives ids another serving's flags give, so a
  repack can repoint such an id.

## 4. The proofs

All of it is for every value of the constants: any card, catalogue, set of
rosters or fleets, tree of files, number of launches, points, runs and
invocations, cache types, flags and releases, from the assumptions named in the
modules, which TLC evaluates on every run:

- `ServingAssumption`, `PlannerAssumption`, `ResidentsAssumption`,
  `DerivedAssumption`, `CampaignAssumption`, `UpdateAssumption` type the
  constants and keep the code's bounds (`MinCtx < MinChat`, positive rounding
  and counts; sets, options and models a YAML file can hold are finite in
  number).
- `PackAssumption`: a model's profile groups and categories are the keys of a
  mapping, so each is named once (`Proper`), and no category is called like the
  fallback.
- `RefsAssumption`, `DiscoveryAssumption`, `TreesAssumption`: finitely many
  files, each with one place; a tree is `Lawful` when the inode belongs to the real
  file, all names of a file are weights or none is, and the readable name of a
  blob, once it is there, leads to that blob (the code names it by eight hash digits).
  The rest of `Lawful` types a tree: configuration for every scope, rules in order,
  an entry for every sidecar slot.
- `PlacesAssumption`: directories are a forest, none of the roots is inside
  another, and a directory lists what is in it and all of it.
- `RoutingAssumption`: an instance's expressions are `Written` and `Acyclic` and
  its names `Apart` (section 2); `SortedAssumption`: `Sorted` lists the names
  categories may have.
- `TargetsAssumption`: a directory's parent is another one, and a version's
  directory is among an engine's installs.

Nothing else is taken on trust. Induction over data is done where the data are
finite and a number measures them (`SetInduction`, from the well-foundedness of
the naturals): the greatest of a list, a list of the members of a set, a prefix
of a list.

`PlannerProofs.CalcCtxFits`: a context that `CalcCtx` does not flag fits the
remainder with its slots and companions. The only step that is not linear is
that `(a \div b) * b <= a` carries through the slots' product.

`PlannerProofs`: `EntriesFitTheCard` and `AdmittedEntriesFitTheirSets`. Neither
is inductive: an entry's fit follows from the solve made when its demand was
served, so the invariant carries the solve along: the charge of the current
group is the one `_coresident_charge` defines (`Charged`), every serving of the
group fits beside it (`ServesFit`), every variant fits beside some charge of that
definition (`PlanFits`), and every set a variant was admitted to passed the probe
that charge was taken from (`AdmissionProbed`). The charge is at least the overhead of every set
a single-slot claim can be admitted to, because the probe that judges admission
is the probe the charge was taken from: that is where the two-slot claims fall
out. `TypeCorrect` comes from the same induction. `NamesKeepTheirFloor`
(`SoundCategoryFloor`) adds `ServesFloor` and `PlanFloor` to it: a rung qualifies
at the group's slots with the draft shed, the search runs with it, and
`RungReaches` and `FloorCovers` show that on a `Sound` model this makes no
difference and that `--max-context`, which replaces the minimum in the search,
cannot be below a minimum some rung met.
`FallbackUnderEveryCategory` (`FallbackStands`) takes the premise `ShedCovers`,
that the default order names vision whenever a task may give it up: without it
the code does not do it (section 3). The ladder of a demand is a set of rungs;
a category served at its minimum stands on a rung that the fallback, giving up
the whole default order, has under it as well, so the fallback's ladder is not
empty (`Backed`). `ServesBacked` carries that from the demand to the end of the
group, where the fallback is decided last, and `PlanBacked` to the variants.
Models in host RAM have no ladder: their servings are alike (`Alike`), so what
merges away never takes the fallback with it.

`ResidentsProofs`: `SharedContextIsServed`, `AdditionsKeepTheFloor`,
`SqueezeIsNeeded`, `PricesAreReserved`, `TypesHold`. A model's offer beside an
overhead is the floor of a quotient, rounded down again; `OfferAffordable` shows
that what it offers it can pay beside that overhead, `OverheadCovers` that the
overhead the solve uses is at least what any option of any set holds, and
`SolutionServed` joins them. A step then has to show that what was affordable
stays so (`BearsKept`): a squeeze only lowers what is held beside it, and an
addition is made only after a solve with it. The invariant adds to the
properties how the chat context relates to the first solve.

`SqueezeIsNeeded` (`SqueezeNeeded`) goes the other way: what a model affords, the
solve finds. A context in whole steps that a model affords survives the rounding
of its offer (`RoundUpKept`), so the model offers at least as much
(`AffordedIsOffered`) and the solve, which takes the best of the fleet, reaches
it (`SolutionReaches`); with the contexts still as configured
(`ConfiguredKept`) a squeeze would not have been tried.
`PricesAreReserved` (`PricesReserved`) compares two tables: option by option a
price is at most what the solve charged (`PriceOfOption`), ids being free in one
of them and the contexts asked for being the ones served (`AskedAsServed`), so
what was affordable beside the set is affordable beside its price (`BorneBesidePrice`).

`RoutingProofs`: `RoutingInv`, `CompositionInv`, `PinsAreCharged`, `LeavesAreBound`,
`ChargesCoverOptions`, `FittingSetsKept`, `TwinsNotForced`. The functions of `SetExpr` are recursive over the groups
of all sets. That each equation has one solution is shown from the order of the
groups and the rank `Acyclic` gives the sets (`Upwards`, the induction over
groups, and `FiniteRecursion`, its use), so what a function is at a group follows
from what it is at the groups under it. The sum of a conjunction is a fold: from
its definition come the facts about sums over finite sets (`SumBasics`,
`SumAdd`, `SumUnion`, `SumMonotone`), by an induction over subsets the library
states of an operator and `SubsetInduction` of a set.

The invariant says, phase by phase, where each variable comes from and, of the
expanded sets, how their groups are spelled: with chat variables, categories,
co-loads and pins, a reference alone or parts alone (`Expanded`, `Spelled`). It is needed
because what is emitted is the work of three edits, each of which must leave an
expression the next one can take. From it: `PinsAreCharged` (`PinsCommitted`), as
what is emitted names no refused category (`RefusedGone`) and every other one on
the CPU is in the ledger under a name of its model (`PinsPaid`); `LeavesAreBound`
(`NoDanglingLeaf`), as every leaf is a name some group spells (`LeavesNamed`,
`PrunedNames`), and placeholders are not among them (`TokensApart`);
`ChargesCoverOptions` (`PriceCoversOptions`), by induction over the groups: an
option of a conjunction is one choice per member (`OptionsAnd`), whose price is
at most the sum of the members' (`PaidTogether`), an option of alternatives is an option of one
of them (`PaidAlternatives`).

`FittingSetsKept` (`FittingSetsWhole`) and `TwinsNotForced` (`NoForcedTwin`)
compare what a set may hold before and after an edit. `CompositionInv` carries
what they need of the expanded sets (`Composed`). A set that names no refused
category is `Sturdy`: some of its groups, the whole among them, lose to the
refusals nothing of an alternative, and of a conjunction only leaves that pins
added. Placeholders leave it so and every pin does (`FilledSturdy`, `ExtendedSturdy`). Such
groups remain (`StandingRemains`), and their options are afterwards what they
were before, without the refused names (`StandingRelieved`): both directions are
needed, as a composition is to lose no choice and to gain none. For twins it is
enough that an edit shrinks: when every group of one family has at another's
place members that are members there, each of its options is, as far as
categories go, within one of the other's (`Below`, `Shrinks`). So it is from the
emitted set to the expanded one (`FinalBelow`), and from there to the configured
sets with one expression expanded, as long as the sets it refers to got no pin
(`EasedBelow`, `PinnedOnlyChat`); a pin joins that one where no leaf has its role,
which makes no twin of it (`ExtendedOptions`, `ExtendedUntwinned`). Without
`ColoadApart` or the premise on references the steps fail as the code does
(section 3).

`PackProofs`: `RefusalIsHarmless`, `OutputsBelongTogether`.
The invariant relates the packs' numbers (`Numbers`), says that the outputs are
untouched before their stage (`Untouched`), that the environment follows the
configuration (`InOrder`) and what is written once a stage is past (`Written`,
`Ended`). It uses of the gates only
that none of them comes after `config.yaml` is opened.

About the ids, `PlanIsPublished` (`PlanPublished`) says that while a pack emits,
what is still to do and what has been issued make up the plan, and that the tails
given to a stem are those of its entries. `SoundIdsKeepTheirMeaning`
(`SoundIdsStable`): for a model alone with its stem, of one group, whose id
extends no other's and whose categories do not look like flags, the tail is
determined by the serving alone, whatever the order of the
plan, so every entry under its ids, of this pack or any before, is that serving.

`DiscoveryProofs`: `OrphansAreUnclaimed`, `EveryFileOnce`,
`InnermostLayerDecides` and `NoWeightForgotten`. A directory's
sidecars are all read before any orphan of the walk is served, so what must
carry is that the claims are registered by then (`Registered`), that a model
without a sidecar is built after the walk (`StubsLate`), and that a stub built
from a weight and a sidecar's model that claims the same real file are the same
slot's (`OwnIsSole`, `HomeIsIts`), which is where `Lawful` enters: the two names
of one file. Serving an orphan in a run may create a link, and the invariant has
to survive the tree it leaves (`Grown`, `Shrunk`, `OServeOrphan`). `Return` keeps the
first model of each key, once by sidecar and once by weight; `FirstsOf` says what
the first occurrences of a list are, and `Kept` that of the models of a weight
one stays or was taken by another link of its sidecar.

`InnermostLayerDecides` (`InnermostDecides`) has two halves. That folding layers
comes to looking a value up, for any number of layers and rules, is
`FoldIsLookup`: in a list of steps of which some replace the value, the last one
that does decides (`LastDecides`). It is used twice, for the defaults and for the
rules. That a model's stack is the path of its own directory is the invariant:
the open directories are inside each other, and the scope stack is the path of
the innermost (`Standing`); a weight kept for after the walk remembers the path
of its directory (`Waiting`), which is what a stack shared by reference would
lose; a model is built from the slot it stands for (`Sourced`). `Path` is
recursive over directories; that its equation has one solution is shown from the
forest (`OneSolution`, `SomeSolution`).

`NoWeightForgotten` (`NothingForgotten`): during the walk, whatever a path of
served directories leads to has been met or is ahead (`Covered`), where ahead
means that its root, a directory on its path or the file itself is still in a
list that an open directory, or the walk, has to work off (`Pending`, `Ahead`).
Opening a directory trades it for the next one on the path (`OnTheWay`); a child
is passed over only when no role is declared for it at depth 1, which the roles
carried by the open frames settle (`RolesRight`). A weight remembered is
registered when its turn comes, under its own name or the one a link gave it
(`HousedIsServed`), unless its stem has two formats.

`MeasuredProofs`, of the sidecars: every block, on disk or in memory, is stamped with what was
measured (`Honest`), the file about to be renamed is the block in memory
(`Writing`), memory and disk agree where a launch relies on it (`Follows`), and
what is written over a trusted measurement is one (`Tracks`). From it:
`MeasuredAsAsked`, `SidecarSurvives`, `DryRunsRead`, `ServedIsKept`,
`ProbesAreTrusted`, `TypeCorrect`.

Of the campaigns it assumes `~Overlap`. The invariant says that whoever is past the
lock holds the file at the path, with its pid in it (`Held`), that whoever is
still stamping created the file at the path (`Stamping`), that one process at a time is in the
acquisition (`OneAcquirer`), that while a process is on its way from a dead
owner's file to a new one nobody holds the lock (`ThiefAlone`), and that from
the preflight to the end of the kill the holder's server is the only one
(`CardClear`). `OneCampaign`, `MeasuresAlone` and `HolderKeepsLock`
follow.

`UpdateProofs`: `Inv` is `Types`, what a run has done at each operation
(`Progress`), the backup while the stable name is being moved (`Backups`), the
directory being as the run found it until it lands something (`Kept`), and the
stable name at the end of a run that succeeded (`Leads`), and that nothing newer
stands beside what a llama.cpp run brings (`Newest`), with one `...Keeps`
lemma per action. `BackupsKept`, `SwapsServe`, `LatestIsServed`,
`FailuresHarmless` and `TypesCorrect` follow. `LatestIsServed` (`CppServes`)
needs `Newest`: a run asked for the latest starts only where nothing newer is
present, so what it lands is the newest there is, and a pruner that keeps at
least one never takes it. `Refinement` is
`Spec => ImplementsRollout`: `InitMaps`, and one `...Maps` lemma per action that
says which step of `Rollout`, or which stutter, it is; the invariant is needed
where a step is one of `Rollout`'s only because of what the run did before (the
version that is linked landed whole).

`TargetsProofs`: `DoubtInstallsNothing` and `ZeroIsEarned`. A word that could
mean several engines is still ahead of the parser or has ended the run
(`StillAhead`): `ResolvedIsClear` shows that no other way of resolving a word
consumes it. As long as nothing failed, every selected engine is done or still
to come (`SoFarDone`). `OneCopyStaysOne` (`NoSecondCopy`): when an
engine in sight is held by one directory, whichever candidate the search stops at
leads to that directory and no other (`HeldBelow`), and until the engine's turn comes
nothing changes what the search found (`HomesSettled`).

Model-checked only, and why:

- liveness (`LaunchEnds`, `StaleLockFalls`): it needs fairness and
  ENABLED, which are out of the prover's reach;
- `RerunStable` of `Discovery`: it holds of the trees the run enumerates, and not
  of every tree `Lawful` admits. A readable link the first walk made can be
  matched by a reference of a sidecar in the second, or complete a sidecar that
  had no weight; an orphan can be the draft that the rules or the defaults give
  another one, and then the order of the names decides. A theorem would need
  laws about the names in a tree that the code does not enforce.

## 5. What is left out

Of the modelled parts:

- Planner: embedding, rerank and fixed-overhead entries (they enter as the
  sets' overheads), vLLM's uncapped slots, more than one VRAM pool, tool
  demotion, failures of the estimate in the middle of a group (a model is
  estimable or not, for a whole run). `FinishGroup` merges a group's servings
  into variants (`Made`) in one step; the code's early exit for a model an
  earlier group found unmeasured (`writer.py:2567-2569`) is modelled by planning
  its demands again and replacing what they give. No property rests on either.
- Residents: chat models skipped for their role, floats inside a cost, image
  floors (logged only), the solve without a chat model; with no sets the
  reservation is only logged.
- Routing: the spelling of expressions (empty parentheses, spaces),
  `__COLOAD_VARS__` alone or as an alternative (without co-loads it leaves
  broken text), variables whose names collide, categories whose entry the planner drops (they dangle,
  as two categories on one model do: the premise of `NoDanglingLeaf`), VRAM
  pools, cyclic sets.
- Discovery: removals from lists and scaled numbers in layers, list-valued
  settings of rules, `.onnx` and sharded weights, explicit `Sub/file`
  references, a hub cache outside the walked roots. A weight is one per
  directory and stem apart from its extension. A weight of a `blobs/` tree
  served without a sidecar is housed under the readable name and stands in the
  scopes of whichever of the two the walk met: `InnermostDecides` leaves it out
  (`Housed`). Roots inside each other are not modelled.
- Derived: stub sidecars, `file:` values other than the identity, the
  in-process cache, vLLM and safetensors sources, a write that fails halfway and
  leaves its temporary file, two launches on one sidecar.
- Campaign: what the logs say, the journal, pids that are reused, `ps` failing
  (the scan then reports an empty card), Ctrl-C outside the scan and the wait.
- Pack: parsing and precedence of arguments, two invocations with one output, a
  reader of a half-written file, the text of an entry. What
  `_verify_no_overallocation` drops is in `Planner`.
- Update: what happens inside the staging directory (one step that succeeds or
  fails), the quarantined archive, two runs at once. Links are canonical, and
  `master-` tags, which no pruner names, are left out.
- Targets: the versions and backends handed on to an engine, `--print-paths`,
  unreadable configuration. `NoSecondCopy` speaks of engines in sight of the
  run (`InSight`): standing in a version's own directory makes that directory
  the home.

Not modelled: hardware detection, the header and log readers and the rendering
of command lines parse and print, without a state to be wrong in; `install.py`,
`build_engine.py` up to its swap, the bench and the monitors are lines of
external commands and reports.

## 6. The plan

Done: the modules of section 2, their runs and proofs. What is left, in this
order:

1. Two launches on one sidecar and its `.md.tmp`, composed from `Derived`'s
   persist steps: lost updates and torn files (`model.py:1320`).
2. `Planner` over `Residents`: the rosters' target and charges as results of the
   shared solve instead of any numbers.
3. A part of `Discovery.RerunStable` that holds of every tree (an authored sidecar
   served once is served again) with its proof, under a law that keeps the names
   discovery makes out of the reach of references.
4. The scan that fails (`gpu_state.py:75`) as an outcome in `Campaign`, with
   the weaker exclusive measurement that survives it.
5. Two packs at once on one output, and the reader of a half-written
   `config.yaml`.
