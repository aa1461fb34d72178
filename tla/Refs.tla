--------------------------------- MODULE Refs ---------------------------------
(***************************************************************************)
(* What a file reference of a sidecar denotes (WeightFinder and the weight *)
(* and companion resolution of llama_packer/model.py, the hub lookups of   *)
(* llama_packer/utils.py), as functions of a tree t of files: t.here are   *)
(* the names that exist, t.real the file a name leads to through symbolic  *)
(* links, t.inode its inode, t.snaps the snapshots of a repository in the  *)
(* order of their mtime and t.main the one refs/main names.                *)
(***************************************************************************)
EXTENDS FiniteSets, SequencesExt, FiniteSetsExt

CONSTANTS
  Dirs, Files, Repos,
  Spot,       \* of a file: see SpotRecord
  Parent,     \* of a directory
  Vision,     \* of the stem of a weight: stems of projectors of its family
  NoDir, NoFile, NoRepo, NoRef,
  Off, Bad    \* mmproj: false, and a block that is refused

\* snap: the snapshot the file is in; comp: what its name makes it a companion
\* of; f16: a 16-bit projector; kind: what its header says; link: the readable
\* name discovery gives a file of a blobs/ tree.
SpotRecord ==
  [dir : Dirs, stem : STRING, ext : {"gguf", "safetensors", "bin", "jinja"}, snap : Dirs \cup {NoDir},
   comp : {"no", "mmproj", "mtp"}, f16 : BOOLEAN, kind : {"text", "image", "unknown"},
   link : Files \cup {NoFile}]

ASSUME RefsAssumption ==
  /\ Spot \in [Files -> SpotRecord] /\ IsFiniteSet(Files)
  /\ NoFile \notin Files /\ NoDir \notin Dirs /\ NoRepo \notin Repos

WeightExts == {"gguf", "safetensors", "bin"}

Name(f) == <<Spot[f].stem, Spot[f].ext>>

\* A reference: the names it matches (several for a glob), the repository it
\* names, and its pick.
Ref(names, repo, pick, top) == [names |-> names, repo |-> repo, pick |-> pick, top |-> top]

Only(S) == IF Cardinality(S) = 1 THEN CHOOSE f \in S : TRUE ELSE NoFile

FindLocal(t, names, anchors) ==
  LET At(d) == {f \in t.here : Spot[f].dir = d /\ names = {Name(f)}}
      held == {i \in DOMAIN anchors : At(anchors[i]) # {}}
  IN IF held = {} THEN NoFile ELSE Only(At(anchors[Min(held)]))

SnapshotDir(t, repo, pick) ==
  LET dirs == t.snaps[repo]
  IN CASE dirs = <<>> -> NoDir
       [] dirs # <<>> /\ pick = "oldest" -> Head(dirs)
       [] dirs # <<>> /\ pick = "main" /\ t.main[repo] \in ToSet(dirs) -> t.main[repo]
       [] OTHER -> Last(dirs)

Listing(t, snap, weightsOnly) ==
  {f \in t.here : Spot[f].snap = snap /\ snap # NoDir /\ (weightsOnly => Spot[f].ext \in WeightExts)}

Top(f) == Spot[f].dir = Spot[f].snap

Matches(t, repo, ref, weightsOnly) ==
  {f \in Listing(t, SnapshotDir(t, repo, ref.pick), weightsOnly) : Name(f) \in ref.names /\ (ref.top => Top(f))}

\* Files of the anchors win over files of the hub; several hits are none.
ResolvePath(t, ref, anchors, repo, weightsOnly) ==
  LET local == FindLocal(t, ref.names, anchors)
      hub == IF ref.repo # NoRepo THEN ref.repo ELSE repo
  IN CASE local # NoFile -> local
       [] local = NoFile /\ hub = NoRepo -> NoFile
       [] OTHER -> Only(Matches(t, hub, ref, weightsOnly))

-----------------------------------------------------------------------------
(* The weight of a sidecar: a slot is its directory and stem, fm its data *)

Formats == <<"gguf", "safetensors", "bin">>

OfFormat(t, slot, i) == FindLocal(t, {<<slot[2], Formats[i]>>}, <<slot[1]>>)

OwnWeight(t, slot) ==
  LET found == {i \in DOMAIN Formats : OfFormat(t, slot, i) # NoFile}
  IN IF found = {} THEN NoFile ELSE OfFormat(t, slot, Min(found))

\* Without a name, a snapshot serves when it holds one model; files in its
\* subdirectories count when the top holds none.
SoleModels(t, repo) ==
  LET models == {f \in Listing(t, SnapshotDir(t, repo, "main"), TRUE) : Spot[f].comp # "mmproj"}
      top == {f \in models : Top(f)}
  IN IF top # {} THEN top ELSE models

Weight(t, slot, fm) ==
  LET own == OwnWeight(t, slot)
  IN CASE fm.model # NoRef -> ResolvePath(t, fm.model, <<slot[1], Parent[slot[1]]>>, fm.repo, TRUE)
       [] fm.model = NoRef /\ own # NoFile -> own
       [] fm.model = NoRef /\ own = NoFile /\ fm.repo # NoRepo -> Only(SoleModels(t, fm.repo))
       [] OTHER -> NoFile

\* The sidecars Model() raises on: nothing to serve, a named file that is not
\* there, a repository with several models.
Unloadable(t, slot, fm) ==
  /\ Weight(t, slot, fm) = NoFile
  /\ \/ fm.repo = NoRepo
     \/ fm.model # NoRef
     \/ Cardinality(SoleModels(t, fm.repo)) > 1

-----------------------------------------------------------------------------
(* Companions *)

Projectors(t, repo, pick, top) ==
  {f \in Listing(t, SnapshotDir(t, repo, pick), TRUE) :
     Spot[f].comp = "mmproj" /\ Spot[f].ext = "gguf" /\ (top => Top(f))}

\* The projector beside a weight that lies in its own snapshot; which of
\* several equally preferred ones (the first by name) is left open.
OwnProjector(t, repo, weight) ==
  LET family == {f \in Projectors(t, repo, "main", FALSE) : Spot[f].stem \in Vision[Spot[weight].stem]}
      best == IF \E f \in family : Spot[f].f16 THEN {f \in family : Spot[f].f16} ELSE family
  IN IF family = {} \/ Spot[weight].dir # SnapshotDir(t, repo, "main") THEN NoFile
     ELSE CHOOSE f \in best : TRUE

\* block: NoRef when there is none, Off, Bad or a reference, which falls back
\* to the only projector of the repository. role: the model's at this point.
Projector(t, block, repo, weight, role) ==
  CASE weight = NoFile \/ block \in {Off, Bad} -> NoFile
    [] weight # NoFile /\ block = NoRef ->
         IF repo # NoRepo /\ role = "chat" THEN OwnProjector(t, repo, weight) ELSE NoFile
    [] OTHER -> LET named == ResolvePath(t, block, <<Spot[weight].dir>>, repo, TRUE)
                IN IF named = NoFile /\ repo # NoRepo THEN Only(Projectors(t, repo, block.pick, block.top)) ELSE named

\* A speculative: reference that is flagged or named as an MTP companion.
Draft(t, ref, repo, weight) ==
  IF weight = NoFile \/ ref = NoRef THEN NoFile
  ELSE ResolvePath(t, ref, <<Spot[weight].dir>>, repo, TRUE)

=============================================================================
