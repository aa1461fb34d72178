------------------------------- MODULE Derived -------------------------------
(***************************************************************************)
(* The derived: block of one GGUF sidecar: what a launch of the packer     *)
(* reads of it, when it measures again, and how it is written back         *)
(* (llama_packer/model.py sync_measured_file and persist_measured, vram.py *)
(* fit_params_static, memory_probe.py affine_report).                      *)
(*                                                                         *)
(* The numbers of a block are abstracted to where they come from: the      *)
(* weight file, cache type and serve flags they were measured with, beside *)
(* the stamps the block carries about them.  Launches follow one another;  *)
(* between them the operator replaces the weights, edits the fleet's flags *)
(* or deletes the block, and any of them may be killed at any step.        *)
(***************************************************************************)
EXTENDS Integers

CONSTANTS
  Types,        \* KV cache types
  Shapes,       \* serve-flag strings (measurement_args)
  MaxWeights,   \* weight files the sidecar may see, one after the other
  None,         \* no constants, no file
  Torn          \* a file with only part of its content

VARIABLES
  weights,    \* the weight file on disk, told by its (size, mtime)
  fleet,      \* the cache type and the flags profiles.yaml asks for
  kind,       \* the model's draft: "plain", "companion" or "baked"
  writable,   \* whether a write beside the sidecar always succeeds
  disk,       \* the block in the sidecar, or Torn
  tmp,        \* what the .md.tmp beside it holds
  pc,         \* where the launch is
  after,      \* where it goes once the block is persisted
  ask,        \* what the launch asks of the block
  mem,        \* its frontmatter's block
  served      \* the constants fit_params_static returned

world == <<weights, fleet, kind, writable>>
vars  == <<weights, fleet, kind, writable, disk, tmp, pc, after, ask, mem, served>>

Versions == 1 .. MaxWeights
Modes    == {"pack", "remeasure", "probe"}
Kinds    == {"plain", "companion", "baked"}
Over     == {"off", "done", "traceback"}

\* _MEASURED_SOURCES, for a GGUF; "fit-params" is the transient estimate.
Sources == {"llama-server", "fit-estimate"}

\* `of', `at' and `under': the weights, cache type and flags that were really
\* measured; `type', `shape' and `source': the stamps.
Params ==
  [of : Versions, at : Types, under : Shapes, type : Types, shape : Shapes,
   source : Sources \cup {"fit-params"}]

\* `file' is the identity under file:, 0 when there is none.
Block ==
  [key : {"none", "derived", "legacy"}, file : 0 .. MaxWeights,
   params : Params \cup {None}]

ASSUME DerivedAssumption ==
  /\ MaxWeights \in Nat \ {0}
  /\ None \notin Params /\ Torn \notin Block

NoBlock == [key |-> "none", file |-> 0, params |-> None]

Asks == [dry : BOOLEAN, mode : Modes, type : Types, shape : Shapes]

Measured(source) ==
  [of |-> weights, at |-> ask.type, under |-> ask.shape, type |-> ask.type,
   shape |-> ask.shape, source |-> source]

\* persist_measured merges into the derived: key only.
Merge(params) ==
  [key |-> "derived", file |-> IF mem.key = "derived" THEN mem.file ELSE 0,
   params |-> params]

\* A dry run keeps the block in memory.
Save(then) ==
  /\ pc' = IF ask.dry THEN then ELSE "open"
  /\ after' = then

-----------------------------------------------------------------------------
(* Discovery *)

Launch ==
  /\ pc \in Over
  /\ \E dry \in BOOLEAN, mode \in Modes :
       ask' = [dry |-> dry, mode |-> mode, type |-> fleet.type, shape |-> fleet.shape]
  /\ served' = None /\ mem' = NoBlock /\ after' = "done"
  /\ pc' = "load"
  /\ UNCHANGED <<world, disk, tmp>>

Load ==
  /\ pc = "load"
  /\ mem' = IF disk = Torn THEN NoBlock ELSE disk
  /\ pc' = "sync"
  /\ UNCHANGED <<world, disk, tmp, after, ask, served>>

\* sync_measured_file: a file that changed gets a new file: and nothing else;
\* without a derived: key the block starts from nothing.
Sync ==
  /\ pc = "sync"
  /\ IF mem.file = weights THEN pc' = "ask" /\ UNCHANGED <<after, mem>>
     ELSE /\ mem' = [key |-> "derived", file |-> weights,
                     params |-> IF mem.key = "derived" THEN mem.params ELSE None]
          /\ Save("ask")
  /\ UNCHANGED <<world, disk, tmp, ask, served>>

-----------------------------------------------------------------------------
(* fit_params_static *)

\* Mutant of Reusable: the cache type is not asked for.
ReusableAnyType == mem.params # None

\* Mutant of Reusable: "llama-server" is missing from _MEASURED_SOURCES.
ReusableEstimates ==
  mem.params # None /\ mem.params.type = ask.type /\ mem.params.source = "fit-estimate"

\* invariant_from_dict: weights, KV and slot terms, for this cache type.
Reusable == mem.params # None /\ mem.params.type = ask.type

\* saved_for: and a compute term measured under these flags.
Saved == Reusable /\ mem.params.shape = ask.shape

Answer ==
  /\ pc = "ask" /\ ask.mode = "pack" /\ Saved
  /\ served' = mem.params
  /\ IF mem.key = "derived" THEN pc' = "done" /\ UNCHANGED <<after, mem>>
     ELSE mem' = Merge(mem.params) /\ Save("done")
  /\ UNCHANGED <<world, disk, tmp, ask>>

Keep(params) ==
  /\ served' = params
  /\ mem' = Merge(params)
  /\ Save("done")

\* Only the compute term is measured, and the block keeps its source.
Recompute ==
  /\ pc = "ask" /\ ask.mode = "pack" /\ Reusable /\ ~Saved
  /\ \/ Keep([mem.params EXCEPT !.under = ask.shape, !.shape = ask.shape])
     \/ pc' = "trio" /\ UNCHANGED <<after, mem, served>>
  /\ UNCHANGED <<world, disk, tmp, ask>>

\* Mutant of Trio: the estimate is served and not kept.
TrioTransient ==
  /\ \/ pc = "trio"
     \/ pc = "ask" /\ ask.mode = "pack" /\ ~Reusable
     \/ pc = "ask" /\ ask.mode = "remeasure"
  /\ \/ pc' = "done" /\ served' = Measured("fit-estimate")
     \/ pc' = "fast" /\ served' = served
  /\ UNCHANGED <<world, disk, tmp, after, mem, ask>>

\* Three fit-params runs, or a failure of one of them.
Trio ==
  /\ \/ pc = "trio"
     \/ pc = "ask" /\ ask.mode = "pack" /\ ~Reusable
     \/ pc = "ask" /\ ask.mode = "remeasure"
  /\ \/ Keep(Measured("fit-estimate"))
     \/ pc' = "fast" /\ UNCHANGED <<after, mem, served>>
  /\ UNCHANGED <<world, disk, tmp, ask>>

\* The same runs once more, for an estimate that is never persisted.
Fast ==
  /\ pc = "fast"
  /\ served' \in {Measured("fit-params"), None}
  /\ pc' = "done"
  /\ UNCHANGED <<world, disk, tmp, after, ask, mem>>

-----------------------------------------------------------------------------
(* affine_report, for a family's representative *)

\* The estimate the server's grid is compared with, if it can be had.
Estimate ==
  /\ pc = "ask" /\ ask.mode = "probe"
  /\ pc' \in {"grid", "blind"}
  /\ UNCHANGED <<world, disk, tmp, after, ask, mem, served>>

\* Too few points make no report.  Without an estimate the residuals were
\* never computed, and the report reads them.
Grid ==
  /\ pc \in {"grid", "blind"}
  /\ pc' \in {"done"} \cup IF pc = "grid" THEN {"lawful", "lawless"}
                           ELSE {"traceback"}
  /\ UNCHANGED <<world, disk, tmp, after, ask, mem, served>>

\* Only a baked-in draft is filed; the line that says so of the others reads
\* the stem of a companion.
File ==
  /\ pc = "lawful"
  /\ IF kind = "baked" THEN mem' = Merge(Measured("llama-server")) /\ Save("done")
     ELSE /\ pc' = IF kind = "plain" THEN "traceback" ELSE "done"
          /\ UNCHANGED <<after, mem>>
  /\ UNCHANGED <<world, disk, tmp, ask, served>>

Reject ==
  /\ pc = "lawless"
  /\ pc' = IF kind = "plain" THEN "traceback" ELSE "done"
  /\ UNCHANGED <<world, disk, tmp, after, ask, mem, served>>

-----------------------------------------------------------------------------
(* persist_measured *)

\* Mutant of Open: the sidecar is rewritten in place.
OpenInPlace ==
  /\ pc = "open"
  /\ \/ disk # Torn /\ pc' = "write" /\ disk' = Torn
     \/ (disk = Torn \/ ~writable) /\ pc' = after /\ disk' = disk
  /\ UNCHANGED <<world, tmp, after, ask, mem, served>>

\* A sidecar that is not a frontmatter is left alone, and so is one whose
\* write fails.
Open ==
  /\ pc = "open"
  /\ \/ disk # Torn /\ pc' = "write" /\ tmp' = Torn
     \/ (disk = Torn \/ ~writable) /\ pc' = after /\ tmp' = tmp
  /\ UNCHANGED <<world, disk, after, ask, mem, served>>

Write ==
  /\ pc = "write"
  /\ \/ tmp' = mem /\ pc' = "replace"
     \/ ~writable /\ tmp' = None /\ pc' = after
  /\ UNCHANGED <<world, disk, after, ask, mem, served>>

Replace ==
  /\ pc = "replace"
  /\ disk' = tmp /\ tmp' = None
  /\ pc' = after
  /\ UNCHANGED <<world, after, ask, mem, served>>

\* A step of a launch.
Work == Launch \/ Load \/ Sync \/ Answer \/ Recompute \/ Trio \/ Fast
          \/ Estimate \/ Grid \/ File \/ Reject \/ Open \/ Write \/ Replace

-----------------------------------------------------------------------------
(* What happens around a launch *)

\* The process is gone, and what it knew.
Forget ==
  /\ pc' = "off" /\ after' = "done"
  /\ mem' = NoBlock /\ served' = None
  /\ ask' = ask

Crash ==
  /\ pc \notin Over
  /\ Forget
  /\ UNCHANGED <<world, disk, tmp>>

\* A new weight file, between launches.
Swap ==
  /\ pc \in Over /\ weights < MaxWeights
  /\ weights' = weights + 1
  /\ Forget
  /\ UNCHANGED <<fleet, kind, writable, disk, tmp>>

\* Other flags, or another cache type.
Reconfigure ==
  /\ pc \in Over
  /\ fleet' \in [type : Types, shape : Shapes]
  /\ Forget
  /\ UNCHANGED <<weights, kind, writable, disk, tmp>>

\* "Delete to force re-evaluation": extras/clear-measured rewrites a sidecar
\* that has a block in place, and may be killed there.
Clear ==
  /\ pc \in Over /\ disk # Torn /\ disk # NoBlock
  /\ disk' \in {NoBlock, Torn}
  /\ Forget
  /\ UNCHANGED <<world, tmp>>

\* A legacy block, with or without a file: of its own.
Legacy ==
  {[key |-> "legacy", file |-> f,
    params |-> [of |-> 1, at |-> t, under |-> s, type |-> t, shape |-> s,
                source |-> "llama-server"]] :
     f \in {0, 1}, t \in Types, s \in Shapes}

Init ==
  /\ weights = 1
  /\ fleet \in [type : Types, shape : Shapes]
  /\ kind \in Kinds /\ writable \in BOOLEAN
  /\ disk \in {NoBlock} \cup Legacy
  /\ tmp = None
  /\ pc = "off" /\ after = "done"
  /\ ask = [dry |-> TRUE, mode |-> "pack", type |-> fleet.type, shape |-> fleet.shape]
  /\ mem = NoBlock /\ served = None

Next == Work \/ Crash \/ Swap \/ Reconfigure \/ Clear

Spec == Init /\ [][Next]_vars

-----------------------------------------------------------------------------
(* What the block promises *)

TypeOK ==
  /\ weights \in Versions
  /\ fleet \in [type : Types, shape : Shapes]
  /\ kind \in Kinds /\ writable \in BOOLEAN
  /\ disk \in Block \cup {Torn}
  /\ tmp \in Block \cup {Torn, None}
  /\ pc \in Over \cup {"load", "sync", "ask", "trio", "fast", "grid", "blind",
                      "lawful", "lawless", "open", "write", "replace"}
  /\ after \in {"ask", "done"}
  /\ ask \in Asks
  /\ mem \in Block
  /\ served \in Params \cup {None}

\* What a launch sizes with was measured at the cache type and, its compute
\* term, under the flags it asked for ("blocks are never reused across shapes",
\* "never derived across cache types", SPEC.md), whatever history of launches,
\* edits and crashes left the block.
ServedAsAsked ==
  pc = "done" /\ served # None => served.at = ask.type /\ served.under = ask.shape

\* A launch never leaves the operator's sidecar half written ("written
\* atomically", README.md), wherever it is killed.
SidecarWhole == [][pc \notin Over /\ disk # Torn => disk' # Torn]_vars

\* "--dry-run is contractually read-only" (SPEC.md): sidecar and .tmp alike,
\* on every path that persists.
DryRunReadOnly == [][pc \notin Over /\ ask.dry => UNCHANGED <<disk, tmp>>]_vars

\* "New estimates are persisted to the sidecar so later runs pay nothing"
\* (fit_params_static): what a launch served is what the next one reads, unless
\* the sidecar was torn before it.
LaterRunsPayNothing ==
  [][/\ pc \notin Over /\ pc' = "done" /\ ask.mode # "probe" /\ ~ask.dry
     /\ writable /\ disk # Torn /\ served' # None /\ served'.source # "fit-params"
     => disk' # Torn /\ disk'.key = "derived" /\ disk'.params = served']_vars

FromServer(b) ==
  b # Torn /\ b.key = "derived" /\ b.params # None /\ b.params.source = "llama-server"

\* A probe's measurement of the present weights is not traded for an estimate
\* by a launch that asks for what was measured ("invalidated only by a file
\* change or a serve-flag change", README.md), unless it was told to with
\* --remeasure.
ServerTruthSurvives ==
  [][/\ pc \notin Over /\ FromServer(disk) /\ ask.mode # "remeasure"
     /\ disk.params.of = weights
     /\ ask.type = disk.params.type /\ ask.shape = disk.params.shape
     => FromServer(disk')]_vars

\* A file change (size or mtime) invalidates the block (README.md).
FileChangeInvalidates ==
  pc = "done" /\ ask.mode = "pack" /\ served # None => served.of = weights

\* The probe persists the constants of each representative whose grid obeys
\* the affine law (README.md).
ProbePersists ==
  [][pc = "lawful" /\ pc' # "lawful" /\ pc' # "off"
     => mem'.params # None /\ mem'.params.source = "llama-server"]_vars

=============================================================================
