-------------------------------- MODULE Update --------------------------------
(***************************************************************************)
(* One engine's install directory under extras/update.py and               *)
(* extras/build_engine.py: the versioned entries, the stable name, another *)
(* link an operator keeps there, and the backup.  One run of a tool at a   *)
(* time; every run may be killed between any two file operations, and the  *)
(* next one starts from what it left.                                      *)
(*                                                                         *)
(* A directory holds one kind of engine: "cpp" (llama.cpp: whole build     *)
(* directories, no backup), "swap" (llama-swap: single files, asked for    *)
(* its version) or "bundle" (whisper.cpp, stable-diffusion.cpp, audio.cpp: *)
(* directories, also built from source).                                   *)
(***************************************************************************)
EXTENDS FiniteSets, Integers

CONSTANTS
  MaxVersion,   \* versions are numbered in the order their names sort
  Kinds,
  Releases,     \* per kind, the versions upstream may ever release
  Builds,       \* versions a source build makes; their names carry "src"
  CppKeep,      \* KEEP_VERSIONS
  Keep          \* --keep-swap, --keep-engine-versions

ASSUME UpdateAssumption ==
  /\ MaxVersion \in Nat \ {0}
  /\ Kinds \subseteq {"cpp", "swap", "bundle"}
  /\ Releases \in [Kinds -> SUBSET (1 .. MaxVersion)]
  /\ Builds \subseteq 1 .. MaxVersion
  /\ CppKeep \in Nat \ {0} /\ Keep \in Nat \ {0}

VARIABLES
  kind,       \* the engine this directory is home to
  upstream,   \* the newest release
  entry,      \* per version, what is under its name: see Contents
  link,       \* the stable name
  alias,      \* the version another link names, 0 when there is none
  bak,        \* the backup
  pc,         \* the next file operation of the run
  run,        \* the run's arguments and outcome
  before      \* the directory as the run found it

tree == <<entry, link, alias, bak>>
vars == <<kind, upstream, entry, link, alias, bak, pc, run, before>>

Versions == 1 .. MaxVersion

\* An entry holds the version it is named for, or another (a backup written
\* through a link), or no server, or a server without its libraries.
Absent == 0
Husk   == -1
Shell  == -2
Contents == Versions \cup {Absent, Husk, Shell}

Nothing == [is |-> "nothing", of |-> 0]
Torn    == [is |-> "torn", of |-> 0]
Link(v) == [is |-> "link", of |-> v]
File(v) == [is |-> "file", of |-> v]
Names   == {Nothing} \cup {Link(v) : v \in Versions} \cup {File(v) : v \in Versions}

Whole   == {v \in Versions : entry[v] = v}
Present == {v \in Versions : entry[v] # Absent}

IsFile(name) == name.is = "file"
IsLink(name) == name.is = "link"
Named(name)  == {v \in Versions : name = Link(v)}

\* A name that leads to no server: Path.is_file() of what it resolves to.
Dangling(name) == IsLink(name) /\ entry[name.of] \in {Absent, Husk}

\* The version that answers when a name is run, 0 when none does.
Runs(name) ==
  IF IsFile(name) THEN name.of
  ELSE IF IsLink(name) /\ entry[name.of] > 0 THEN entry[name.of] ELSE 0

Snapshot == [entry |-> entry, link |-> link, alias |-> alias, bak |-> bak]

NoRun == [mode |-> "update", ask |-> 0, tag |-> 0, was |-> 0, landed |-> FALSE,
          result |-> "none"]

Init ==
  /\ kind \in Kinds
  /\ upstream \in Releases[kind]
  /\ entry \in [Versions -> Contents]
  /\ \A v \in Versions :
       \/ entry[v] = Absent
       \/ v \in Releases[kind] \cup (IF kind = "bundle" THEN Builds ELSE {}) /\ entry[v] = v
       \/ v \in Releases[kind] /\ kind = "cpp" /\ entry[v] = Husk
  /\ link \in {Nothing} \cup {File(v) : v \in Releases[kind]} \cup {Link(v) : v \in Whole}
  /\ alias \in {0} \cup Whole
  /\ bak = Nothing
  /\ pc = "idle" /\ run = NoRun /\ before = Snapshot

-----------------------------------------------------------------------------
(* The world *)

Publish(v) ==
  /\ v \in Releases[kind] /\ v > upstream /\ upstream' = v
  /\ UNCHANGED <<kind, tree, pc, run, before>>

\* Rolling back, or forward, is a symlink change.
Relink(v) ==
  /\ pc = "idle" /\ v \in Whole /\ link' = Link(v)
  /\ run' = NoRun
  /\ UNCHANGED <<kind, upstream, entry, alias, bak, pc, before>>

\* SIGKILL, Ctrl-C, or an error no caller catches.
Crash ==
  /\ pc # "idle" /\ pc' = "idle" /\ run' = NoRun
  /\ UNCHANGED <<kind, upstream, tree, before>>

-----------------------------------------------------------------------------
(* From the command line to a staged tree *)

Finish(result) == pc' = "idle" /\ run' = [run EXCEPT !.result = result]

\* ask is 0 for the latest release.
Start(mode, ask) ==
  /\ pc = "idle"
  /\ mode = "update" => ask \in {0} \cup Releases[kind]
  /\ mode # "update" => kind = "bundle" /\ ask \in Builds
  /\ run' = [mode |-> mode, ask |-> ask, tag |-> IF ask = 0 THEN upstream ELSE ask,
             was |-> Runs(link), landed |-> FALSE, result |-> "none"]
  /\ before' = Snapshot
  /\ pc' = "resolve"
  /\ UNCHANGED <<kind, upstream, tree>>

\* Nothing is done when a newer build is there, or this one already is.
CppHas ==
  \/ (run.ask = 0 /\ \E v \in Present : v > run.tag)
  \/ entry[run.tag] > 0 \/ entry[run.tag] = Shell

\* Mutant of SwapHas: an entry of that name will do.
SwapHasName == entry[run.tag] # Absent

\* Asked through the stable name; a binary that does not answer is version 0.
SwapHas ==
  \E probe \in {Runs(link), 0} :
    IF run.ask = 0 THEN probe > 0 /\ run.tag <= probe ELSE probe = run.tag

SwapLacks ==
  \E probe \in {Runs(link), 0} :
    IF run.ask = 0 THEN probe = 0 \/ run.tag > probe ELSE probe # run.tag

\* Any regular file makes a bundle intact; what is left of a husk may be
\* empty directories.  A source build goes by the directory's name.
BundleHas   == entry[run.tag] # Absent
BundleLacks == entry[run.tag] \in {Absent, Husk}

Has ==
  /\ run.mode = "build" => entry[run.tag] # Absent
  /\ run.mode # "rebuild"
  /\ run.mode = "update" =>
       IF kind = "cpp" THEN CppHas ELSE IF kind = "swap" THEN SwapHas ELSE BundleHas

Lacks ==
  /\ run.mode = "build" => entry[run.tag] = Absent
  /\ run.mode = "update" =>
       IF kind = "cpp" THEN ~CppHas ELSE IF kind = "swap" THEN SwapLacks ELSE BundleLacks

\* Mutant of AlreadyThere: a run with nothing to do goes on to prune and rewire.
AlreadyThereRewires ==
  /\ pc = "resolve" /\ Has
  /\ IF kind = "cpp" THEN pc' = "prune" /\ UNCHANGED run ELSE Finish("ok")
  /\ UNCHANGED <<kind, upstream, tree, before>>

AlreadyThere ==
  /\ pc = "resolve" /\ Has /\ Finish("ok")
  /\ UNCHANGED <<kind, upstream, tree, before>>

Needed ==
  /\ pc = "resolve" /\ Lacks /\ pc' = "fetch"
  /\ UNCHANGED <<kind, upstream, tree, run, before>>

\* The API, the download, the checksum, the extraction, the build or its
\* smoke test: all of it happens in the staging directory.
Fail ==
  /\ pc \in {"resolve", "fetch"} /\ Finish("failed")
  /\ UNCHANGED <<kind, upstream, tree, before>>

-----------------------------------------------------------------------------
(* promote *)

SetAside ==
  /\ pc = "fetch" /\ entry[run.tag] # Absent
  /\ entry' = [entry EXCEPT ![run.tag] = Absent]
  /\ pc' = "land"
  /\ UNCHANGED <<kind, upstream, link, alias, bak, run, before>>

\* Mutant of Land: what was extracted is promoted without a look for the server.
LandUnchecked ==
  /\ pc = "land" \/ (pc = "fetch" /\ entry[run.tag] = Absent)
  /\ \E got \in {run.tag, Husk} : entry' = [entry EXCEPT ![run.tag] = got]
  /\ run' = [run EXCEPT !.landed = TRUE]
  /\ pc' = IF run.mode # "update" THEN "unlink"
           ELSE IF kind = "cpp" THEN "prune" ELSE "backup"
  /\ UNCHANGED <<kind, upstream, link, alias, bak, before>>

Land ==
  /\ pc = "land" \/ (pc = "fetch" /\ entry[run.tag] = Absent)
  /\ entry' = [entry EXCEPT ![run.tag] = run.tag]
  /\ run' = [run EXCEPT !.landed = TRUE]
  /\ pc' = IF run.mode # "update" THEN "unlink"
           ELSE IF kind = "cpp" THEN "prune" ELSE "backup"
  /\ UNCHANGED <<kind, upstream, link, alias, bak, before>>

-----------------------------------------------------------------------------
(* swap_symlink *)

\* There is nothing to keep.
NoBackup ==
  /\ pc = "backup" /\ link = Nothing /\ pc' = "unlink"
  /\ UNCHANGED <<kind, upstream, tree, run, before>>

\* The server behind a link is copied, not the link.
Source == IF Runs(link) > 0 THEN Runs(link) ELSE link.of

OpenBackup ==
  /\ pc = "backup" /\ link # Nothing /\ ~Dangling(link) /\ ~IsLink(bak)
  /\ bak' = Torn /\ pc' = "copy"
  /\ UNCHANGED <<kind, upstream, entry, link, alias, run, before>>

CopyBackup ==
  /\ pc = "copy" /\ bak' = File(Source) /\ pc' = "unlink"
  /\ UNCHANGED <<kind, upstream, entry, link, alias, run, before>>

\* Mutant of BackupRefused: a backup that cannot be written is let go.
BackupIgnored ==
  /\ pc \in {"backup", "copy"} /\ link # Nothing
  /\ pc' = "unlink"
  /\ UNCHANGED <<kind, upstream, tree, run, before>>

\* A full disk; and a backup that is itself a link to what is being copied,
\* or in the way of a link that is copied as a link.
BackupRefused ==
  /\ pc \in {"backup", "copy"} /\ link # Nothing
  /\ Finish("failed")
  /\ UNCHANGED <<kind, upstream, tree, before>>

\* The copy follows a backup that is a link, and lands under another name.
CopyThrough ==
  /\ pc = "backup" /\ link # Nothing /\ ~Dangling(link)
  /\ IsLink(bak) /\ bak # link
  /\ LET to == bak.of IN
     /\ kind = "swap" \/ entry[to] # Absent
     /\ entry' = [entry EXCEPT ![to] =
          IF kind = "bundle" /\ entry[to] \in {Husk, Shell} THEN Shell ELSE Source]
  /\ pc' = "unlink"
  /\ UNCHANGED <<kind, upstream, link, alias, bak, run, before>>

\* A dangling link is kept as a link.
CopyLink ==
  /\ pc = "backup" /\ Dangling(link) /\ bak = Nothing
  /\ bak' = link /\ pc' = "unlink"
  /\ UNCHANGED <<kind, upstream, entry, link, alias, run, before>>

\* replace_symlink.  A source build refuses to replace a file.
Unlink ==
  /\ pc = "unlink" /\ ~(run.mode # "update" /\ IsFile(link))
  /\ link' = Nothing /\ pc' = "symlink"
  /\ UNCHANGED <<kind, upstream, entry, alias, bak, run, before>>

FileInTheWay ==
  /\ pc = "unlink" /\ run.mode # "update" /\ IsFile(link) /\ Finish("failed")
  /\ UNCHANGED <<kind, upstream, tree, before>>

Symlink ==
  /\ pc = "symlink" /\ link' = Link(run.tag)
  /\ IF run.mode # "update" \/ kind = "cpp" THEN Finish("ok")
     ELSE pc' = (IF kind = "swap" THEN "alias" ELSE "prune") /\ UNCHANGED run
  /\ UNCHANGED <<kind, upstream, entry, alias, bak, before>>

-----------------------------------------------------------------------------
(* The other links, and the old versions *)

AfterAliases == IF kind = "swap" THEN "prune" ELSE "primary"

\* llama.cpp's links are left alone when the new build is gone again.
NoTarget ==
  /\ pc = "alias" /\ entry[run.tag] = Absent /\ Finish("ok")
  /\ UNCHANGED <<kind, upstream, tree, before>>

UnlinkAlias ==
  /\ pc = "alias" /\ entry[run.tag] # Absent
  /\ alias' = 0
  /\ pc' = IF alias = 0 THEN "others" ELSE "realias"
  /\ UNCHANGED <<kind, upstream, entry, link, bak, run, before>>

Realias ==
  /\ pc = "realias" /\ alias' = run.tag /\ pc' = "others"
  /\ UNCHANGED <<kind, upstream, entry, link, bak, run, before>>

\* Every link in the directory that names a version is one of them, a backup
\* that is a link too.
OtherLinks ==
  /\ pc = "others"
  /\ bak' = IF IsLink(bak) THEN Link(run.tag) ELSE bak
  /\ pc' = AfterAliases
  /\ UNCHANGED <<kind, upstream, entry, link, alias, run, before>>

\* _ensure_stable_primary
Primary ==
  /\ pc = "primary"
  /\ IF IsFile(link) \/ link = Link(run.tag) THEN Finish("ok")
     ELSE pc' = "unlink" /\ UNCHANGED run
  /\ UNCHANGED <<kind, upstream, tree, before>>

Referenced == Named(link) \cup Named(bak) \cup ({alias} \ {0})

Prunable == {v \in Releases[kind] : entry[v] # Absent}

Newer(v) == {u \in Prunable : u > v}

\* Mutant of Victims: the versions are sorted the other way round.
VictimsOldestKept ==
  IF kind = "cpp" THEN {v \in Prunable : Cardinality({u \in Prunable : u < v}) >= CppKeep}
  ELSE {v \in Prunable : Cardinality(Newer(v)) >= Keep} \ Referenced

Victims ==
  IF kind = "cpp" THEN {v \in Prunable : Cardinality(Newer(v)) >= CppKeep}
  ELSE {v \in Prunable : Cardinality(Newer(v)) >= Keep} \ Referenced

\* Newest first; a directory goes file by file.
Prune(v) ==
  /\ pc = "prune" /\ v \in Victims /\ \A u \in Victims : u <= v
  /\ \E left \in IF kind = "swap" \/ entry[v] < 0 THEN {Absent} ELSE {Husk, Shell} :
       entry' = [entry EXCEPT ![v] = left]
  /\ UNCHANGED <<kind, upstream, link, alias, bak, pc, run, before>>

Pruned ==
  /\ pc = "prune" /\ Victims = {}
  /\ IF kind = "cpp" THEN pc' = "alias" /\ UNCHANGED run ELSE Finish("ok")
  /\ UNCHANGED <<kind, upstream, tree, before>>

Next ==
  \/ Crash \/ AlreadyThere \/ Needed \/ Fail \/ SetAside \/ Land
  \/ NoBackup \/ OpenBackup \/ CopyBackup \/ BackupRefused \/ CopyThrough \/ CopyLink
  \/ Unlink \/ FileInTheWay \/ Symlink
  \/ NoTarget \/ UnlinkAlias \/ Realias \/ OtherLinks \/ Primary \/ Pruned
  \/ \E v \in Versions : Publish(v) \/ Relink(v) \/ Prune(v)
  \/ \E mode \in {"update", "build", "rebuild"}, ask \in 0 .. MaxVersion : Start(mode, ask)

Spec == Init /\ [][Next]_vars

-----------------------------------------------------------------------------
(* Properties *)

\* The types of the variables.
TypeOK ==
  /\ kind \in Kinds /\ upstream \in Versions
  /\ entry \in [Versions -> Contents]
  /\ link \in Names /\ alias \in 0 .. MaxVersion /\ bak \in Names \cup {Torn}
  /\ run.tag \in 0 .. MaxVersion
  /\ pc # "idle" => run.tag \in Versions

Served == IF IsFile(link) \/ \E v \in Whole : link = Link(v) THEN link ELSE Nothing

Phase ==
  IF pc = "idle" THEN "quiet"
  ELSE IF pc \in {"resolve", "fetch", "land"} THEN "installing" ELSE "settling"

R == INSTANCE Rollout WITH
       phase <- Phase, installed <- Whole, served <- Served, careful <- kind # "cpp"

\* The tools implement Rollout: over any history of runs, crashes and
\* rollbacks the stable name moves only to a version that is whole under its
\* name, and a version is taken away under it only to be replaced by itself
\* (promote) or by llama.cpp's pruner.
ImplementsRollout == R!Spec

\* swap_symlink refuses to destroy the old binary when the backup cannot be
\* written: from the moment the stable name is touched, the backup holds what
\* it ran when the run started (unless the backup's own name is a link).
BackupKept ==
  /\ kind # "cpp" /\ run.mode = "update" /\ run.was > 0 /\ ~IsLink(bak)
  /\ pc \in {"symlink", "alias", "realias", "others", "prune"}
  => bak = File(run.was)

\* A llama-swap run that reports success leaves the stable name running what
\* was asked for, whatever crash or rollback came before: a run that was
\* killed is repaired by the next one.  (A backup whose own name is a link can
\* be written through, over the version just installed: it is excluded.)
SwapServes ==
  kind = "swap" /\ run.result = "ok" /\ ~IsLink(before.bak) =>
    IF run.ask = 0 THEN Runs(link) >= run.tag ELSE Runs(link) = run.tag

\* A run that installs nothing, whether it fails or finds the version there,
\* leaves every entry, link and backup as it found them.
HarmlessUnlessLanded == ~run.landed /\ run.result # "none" => Snapshot = before

\* A run of update_llama_cpp that installs the latest release and reports
\* success leaves the stable name running it, though prune_old comes before
\* the links and asks none of them: what was killed before, a husk of a newer
\* name or a release published meanwhile does not put it among the victims.
\* (A regular file under the stable name is the operator's and is left there.)
CppServes ==
  kind = "cpp" /\ run.result = "ok" /\ run.landed /\ run.ask = 0 =>
    IsFile(link) \/ Runs(link) = run.tag

\* What a link names is never pruned (docs/glossary.md, "versioned entry").
NeverPrunedUnderLink == [][\A v \in Versions : Prune(v) => v \notin Referenced]_vars

=============================================================================
