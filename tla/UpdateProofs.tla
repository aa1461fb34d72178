----------------------------- MODULE UpdateProofs -----------------------------
(* Proofs about Update.  Inv is what a run leaves behind it at each step, on *)
(* which every property of the module rests.                                 *)
EXTENDS Update, FiniteSetTheorems, TLAPS

Steps == {"idle", "resolve", "fetch", "land", "backup", "copy", "unlink", "symlink",
          "alias", "realias", "others", "prune", "primary"}

RunRecord == [mode : {"update", "build", "rebuild"}, ask : 0 .. MaxVersion,
              tag : 0 .. MaxVersion, was : 0 .. MaxVersion, landed : BOOLEAN,
              result : {"none", "ok", "failed"}]

Types ==
  /\ kind \in Kinds /\ upstream \in Versions
  /\ entry \in [Versions -> Contents]
  /\ link \in Names /\ alias \in 0 .. MaxVersion /\ bak \in Names \cup {Torn}
  /\ run \in RunRecord /\ pc \in Steps
  /\ pc # "idle" => run.tag \in Versions

\* Where a run may be, and what it has done by then.
Progress ==
  /\ pc # "idle" => run.result = "none"
  /\ pc \in {"resolve", "fetch"} => ~run.landed /\ Snapshot = before
  /\ pc \notin {"idle", "resolve", "fetch", "land"} => run.landed
  /\ pc = "idle" /\ run.result # "none" /\ ~run.landed => Snapshot = before
  /\ pc = "symlink" => link = Nothing
  /\ pc \in {"backup", "copy"} => kind # "cpp" /\ run.mode = "update" /\ entry[run.tag] =
        run.tag
  /\ pc \in {"alias", "realias", "others"} /\ kind # "cpp" => kind = "swap" /\ link =
        Link(run.tag)
  /\ pc = "copy" => link # Nothing /\ ~Dangling(link) /\ ~IsLink(bak)
  /\ pc = "primary" => kind = "cpp"
  /\ pc \in {"primary", "alias", "realias", "others", "prune"} => run.mode = "update"

\* A backup that is a link: only where a link once dangled.
Backups ==
  /\ kind = "cpp" => bak = Nothing
  /\ IsLink(bak) => ~IsFile(link)
  /\ \A v \in Versions : link = Link(v) /\ entry[v] > 0 /\ entry[v] # v => bak = link
  /\ \A v \in Versions : kind = "cpp" /\ entry[v] > 0 => entry[v] = v
  /\ pc \in {"unlink", "symlink"} /\ entry[run.tag] > 0 /\ entry[run.tag] # run.tag
       => bak = Link(run.tag)

\* What the stable name ran when the run started, followed to the backup.
Kept ==
  /\ (pc \in {"resolve", "fetch"} => run.was = Runs(link))
  /\ (run.mode # "update" => kind = "bundle")
  /\ kind # "cpp" /\ run.mode = "update" /\ run.was > 0 /\ ~IsLink(bak) =>
       /\ pc \in {"land", "backup", "copy"} =>
            \/ link = File(run.was)
            \/ /\ link = Link(run.was)
               /\ ((pc = "land" /\ run.was = run.tag) \/ entry[run.was] = run.was)
       /\ pc = "unlink" => bak = File(run.was)
       /\ BackupKept

\* What a llama-swap run leads to.
Leads ==
  kind = "swap" /\ ~IsLink(before.bak) =>
    /\ pc \in {"resolve", "fetch", "land", "backup"} => bak = before.bak
    /\ pc = "copy" => ~IsLink(bak)
    /\ pc \in {"unlink", "symlink", "alias", "realias", "others", "prune"} =>
         run.landed /\ entry[run.tag] = run.tag
    /\ pc \in {"alias", "realias", "others", "prune"} => link = Link(run.tag)
    /\ SwapServes

\* What a llama.cpp run to the latest release leads to: it only starts where
\* nothing newer is present, so the pruner has no more than CppKeep - 1 to
\* spare before it.
Newest ==
  kind = "cpp" /\ run.ask = 0 =>
    /\ pc \notin {"idle", "resolve"} =>
         \A v \in Versions : entry[v] # Absent => v <= run.tag
    /\ pc \notin {"idle", "resolve", "fetch", "land"} => entry[run.tag] = run.tag
    /\ CppServes

Inv == Types /\ Progress /\ Backups /\ Kept /\ Leads /\ Newest

-----------------------------------------------------------------------------
(* Every step keeps Inv. *)

LEMMA NewRun ==
  ASSUME NEW m \in {"update", "build", "rebuild"}, NEW a \in 0 .. MaxVersion,
         NEW t \in Versions, NEW w \in 0 .. MaxVersion
  PROVE  LET r == [mode |-> m, ask |-> a, tag |-> t, was |-> w, landed |-> FALSE,
                   result |-> "none"]
         IN  r.tag \in Versions /\ r \in RunRecord
BY UpdateAssumption DEF RunRecord, Versions

LEMMA CrashKeeps ==
  ASSUME Inv, Crash
  PROVE  Inv'
<1> USE UpdateAssumption DEF Inv, Crash, NoRun, Versions, Contents, Names, Nothing, Torn,
      Link, File, IsLink, IsFile, Runs, Dangling, Snapshot, Absent, Husk, Shell, Steps,
      RunRecord, tree, Whole
<1>1. Types' BY DEF Types
<1>2. Progress' BY DEF Types, Progress
<1>3. Backups' BY DEF Types, Progress, Backups
<1>4. Kept' BY DEF Types, Progress, Backups, Kept, BackupKept
<1>5. Leads' BY DEF Types, Progress, Backups, Leads, SwapServes
<1>6. Newest' BY DEF Types, Progress, Newest, CppServes
<1> QED BY <1>1, <1>2, <1>3, <1>4, <1>5, <1>6

LEMMA AlreadyThereKeeps ==
  ASSUME Inv, AlreadyThere
  PROVE  Inv'
<1> USE UpdateAssumption DEF Inv, AlreadyThere, Finish, Has, Lacks, CppHas, SwapHas,
      SwapLacks, BundleHas, BundleLacks, Versions, Contents, Names, Nothing, Torn, Link, File,
      IsLink, IsFile, Runs, Dangling, Snapshot, Absent, Husk, Shell, Steps, RunRecord, tree,
      Whole
<1>1. Types' BY DEF Types
<1>2. Progress' BY DEF Types, Progress
<1>3. Backups' BY DEF Types, Progress, Backups
<1>4. Kept' BY DEF Types, Progress, Backups, Kept, BackupKept
<1>5. Leads' BY DEF Types, Progress, Backups, Leads, SwapServes, Kept
<1>6. Newest' BY DEF Types, Progress, Newest, CppServes
<1> QED BY <1>1, <1>2, <1>3, <1>4, <1>5, <1>6

LEMMA NeededKeeps ==
  ASSUME Inv, Needed
  PROVE  Inv'
<1> USE UpdateAssumption DEF Inv, Needed, Versions, Contents, Names, Nothing, Torn, Link,
      File, IsLink, IsFile, Runs, Dangling, Snapshot, Absent, Husk, Shell, Steps, RunRecord,
      tree, Whole
<1>1. Types' BY DEF Types
<1>2. Progress' BY DEF Types, Progress
<1>3. Backups' BY DEF Types, Progress, Backups
<1>4. Kept' BY DEF Types, Progress, Backups, Kept, BackupKept
<1>5. Leads' BY DEF Types, Progress, Backups, Leads, SwapServes
<1>6. Newest' BY DEF Types, Progress, Newest, CppServes, Lacks, CppHas, Present, Kept
<1> QED BY <1>1, <1>2, <1>3, <1>4, <1>5, <1>6

LEMMA FailKeeps ==
  ASSUME Inv, Fail
  PROVE  Inv'
<1> USE UpdateAssumption DEF Inv, Fail, Finish, Versions, Contents, Names, Nothing, Torn,
      Link, File, IsLink, IsFile, Runs, Dangling, Snapshot, Absent, Husk, Shell, Steps,
      RunRecord, tree, Whole
<1>1. Types' BY DEF Types
<1>2. Progress' BY DEF Types, Progress
<1>3. Backups' BY DEF Types, Progress, Backups
<1>4. Kept' BY DEF Types, Progress, Backups, Kept, BackupKept
<1>5. Leads' BY DEF Types, Progress, Backups, Leads, SwapServes
<1>6. Newest' BY DEF Types, Progress, Newest, CppServes
<1> QED BY <1>1, <1>2, <1>3, <1>4, <1>5, <1>6

LEMMA SetAsideKeeps ==
  ASSUME Inv, SetAside
  PROVE  Inv'
<1> USE UpdateAssumption DEF Inv, SetAside, Versions, Contents, Names, Nothing, Torn,
      Link, File, IsLink, IsFile, Runs, Dangling, Snapshot, Absent, Husk, Shell, Steps,
      RunRecord, tree, Whole
<1>1. Types' BY DEF Types
<1>2. Progress' BY DEF Types, Progress
<1>3. Backups' BY DEF Types, Progress, Backups
<1>4. Kept' BY DEF Types, Progress, Backups, Kept, BackupKept
<1>5. Leads' BY DEF Types, Progress, Backups, Leads, SwapServes
<1>6. Newest' BY DEF Types, Progress, Newest, CppServes
<1> QED BY <1>1, <1>2, <1>3, <1>4, <1>5, <1>6

LEMMA LandKeeps ==
  ASSUME Inv, Land
  PROVE  Inv'
<1> USE UpdateAssumption DEF Inv, Land, Versions, Contents, Names, Nothing, Torn, Link,
      File, IsLink, IsFile, Runs, Dangling, Snapshot, Absent, Husk, Shell, Steps, RunRecord,
      tree, Whole
<1>1. Types' BY DEF Types
<1>2. Progress'
  <2>1. /\ run'.landed /\ run'.mode = run.mode /\ run'.tag = run.tag /\ run'.result = "none"
        /\ entry'[run.tag] = run.tag
    BY DEF Types, Progress
  <2>2. pc' \in {"unlink", "prune", "backup"}
    OBVIOUS
  <2>3. /\ pc' = "backup" => kind # "cpp" /\ run.mode = "update"
        /\ pc' = "prune" => run.mode = "update"
    OBVIOUS
  <2> QED BY <2>1, <2>2, <2>3 DEF Progress
<1>3. Backups' BY DEF Types, Progress, Backups
<1>4. Kept' BY DEF Types, Progress, Backups, Kept, BackupKept
<1>5. Leads' BY DEF Types, Progress, Backups, Leads, SwapServes
<1>6. Newest' BY DEF Types, Progress, Newest, CppServes
<1> QED BY <1>1, <1>2, <1>3, <1>4, <1>5, <1>6

LEMMA NoBackupKeeps ==
  ASSUME Inv, NoBackup
  PROVE  Inv'
<1> USE UpdateAssumption DEF Inv, NoBackup, Versions, Contents, Names, Nothing, Torn,
      Link, File, IsLink, IsFile, Runs, Dangling, Snapshot, Absent, Husk, Shell, Steps,
      RunRecord, tree, Whole
<1>1. Types' BY DEF Types
<1>2. Progress' BY DEF Types, Progress
<1>3. Backups' BY DEF Types, Progress, Backups
<1>4. Kept' BY DEF Types, Progress, Backups, Kept, BackupKept
<1>5. Leads' BY DEF Types, Progress, Backups, Leads, SwapServes
<1>6. Newest' BY DEF Types, Progress, Newest, CppServes
<1> QED BY <1>1, <1>2, <1>3, <1>4, <1>5, <1>6

LEMMA OpenBackupKeeps ==
  ASSUME Inv, OpenBackup
  PROVE  Inv'
<1> USE UpdateAssumption DEF Inv, OpenBackup, Versions, Contents, Names, Nothing, Torn,
      Link, File, IsLink, IsFile, Runs, Dangling, Snapshot, Absent, Husk, Shell, Steps,
      RunRecord, tree, Whole
<1>1. Types' BY DEF Types
<1>2. Progress' BY DEF Types, Progress
<1>3. Backups' BY DEF Types, Progress, Backups
<1>4. Kept' BY DEF Types, Progress, Backups, Kept, BackupKept
<1>5. Leads' BY DEF Types, Progress, Backups, Leads, SwapServes
<1>6. Newest' BY DEF Types, Progress, Newest, CppServes
<1> QED BY <1>1, <1>2, <1>3, <1>4, <1>5, <1>6

\* What the stable name runs is a version, or nothing.
LEMMA RunsTyped ==
  ASSUME entry \in [Versions -> Contents], link \in Names
  PROVE  Runs(link) \in Versions \cup {0}
<1> USE DEF Names, Runs
<1>1. CASE link = Nothing
  BY <1>1 DEF Nothing, IsFile, IsLink
<1>2. ASSUME NEW v \in Versions, link = Link(v) PROVE Runs(link) \in Versions \cup {0}
  <2>1. ~IsFile(link) /\ link.of = v /\ entry[v] \in Contents
    BY <1>2 DEF Link, IsFile
  <2>2. entry[v] > 0 => entry[v] \in Versions
    BY <2>1, UpdateAssumption DEF Contents, Absent, Husk, Shell, Versions
  <2> QED BY <2>1, <2>2
<1>3. ASSUME NEW v \in Versions, link = File(v) PROVE Runs(link) \in Versions \cup {0}
  BY <1>3 DEF File, IsFile
<1> QED BY <1>1, <1>2, <1>3

LEMMA CopyBackupKeeps ==
  ASSUME Inv, CopyBackup
  PROVE  Inv'
<1> USE UpdateAssumption DEF Inv, CopyBackup, Source, Versions, Contents, Names, Nothing,
      Torn, Link, File, IsLink, IsFile, Runs, Dangling, Snapshot, Absent, Husk, Shell, Steps,
      RunRecord, tree, Whole
<1>1. Types'
  <2>1. link # Nothing /\ link \in Names
    BY DEF Types, Progress
  <2>2. link.of \in Versions
    BY <2>1
  <2>3. Runs(link) \in Versions \cup {0}
    BY RunsTyped DEF Types
  <2>4. Source \in Versions
    BY <2>2, <2>3
  <2>5. bak' \in Names
    BY <2>4
  <2> QED BY <2>5 DEF Types
<1>2. Progress' BY DEF Types, Progress
<1>3. Backups' BY DEF Types, Progress, Backups
<1>4. Kept' BY DEF Types, Progress, Backups, Kept, BackupKept
<1>5. Leads' BY DEF Types, Progress, Backups, Leads, SwapServes
<1>6. Newest' BY DEF Types, Progress, Newest, CppServes
<1> QED BY <1>1, <1>2, <1>3, <1>4, <1>5, <1>6

LEMMA BackupRefusedKeeps ==
  ASSUME Inv, BackupRefused
  PROVE  Inv'
<1> USE UpdateAssumption DEF Inv, BackupRefused, Finish, Versions, Contents, Names,
      Nothing, Torn, Link, File, IsLink, IsFile, Runs, Dangling, Snapshot, Absent, Husk, Shell,
      Steps, RunRecord, tree, Whole
<1>1. Types' BY DEF Types
<1>2. Progress' BY DEF Types, Progress
<1>3. Backups' BY DEF Types, Progress, Backups
<1>4. Kept' BY DEF Types, Progress, Backups, Kept, BackupKept
<1>5. Leads' BY DEF Types, Progress, Backups, Leads, SwapServes
<1>6. Newest' BY DEF Types, Progress, Newest, CppServes
<1> QED BY <1>1, <1>2, <1>3, <1>4, <1>5, <1>6

LEMMA CopyThroughKeeps ==
  ASSUME Inv, CopyThrough
  PROVE  Inv'
<1> USE UpdateAssumption DEF Inv, CopyThrough, Source, Versions, Contents, Names, Nothing,
      Torn, Link, File, IsLink, IsFile, Runs, Dangling, Snapshot, Absent, Husk, Shell, Steps,
      RunRecord, tree, Whole
<1>1. Types' BY DEF Types
<1>2. Progress' BY DEF Types, Progress
<1>3. Backups' BY DEF Types, Progress, Backups
<1>4. Kept' BY DEF Types, Progress, Backups, Kept, BackupKept
<1>5. Leads' BY DEF Types, Progress, Backups, Leads, SwapServes
<1>6. Newest' BY DEF Types, Progress, Newest, CppServes
<1> QED BY <1>1, <1>2, <1>3, <1>4, <1>5, <1>6

LEMMA CopyLinkKeeps ==
  ASSUME Inv, CopyLink
  PROVE  Inv'
<1> USE UpdateAssumption DEF Inv, CopyLink, Versions, Contents, Names, Nothing, Torn,
      Link, File, IsLink, IsFile, Runs, Dangling, Snapshot, Absent, Husk, Shell, Steps,
      RunRecord, tree, Whole
<1>1. Types' BY DEF Types
<1>2. Progress' BY DEF Types, Progress
<1>3. Backups' BY DEF Types, Progress, Backups
<1>4. Kept' BY DEF Types, Progress, Backups, Kept, BackupKept
<1>5. Leads' BY DEF Types, Progress, Backups, Leads, SwapServes
<1>6. Newest' BY DEF Types, Progress, Newest, CppServes
<1> QED BY <1>1, <1>2, <1>3, <1>4, <1>5, <1>6

LEMMA UnlinkKeeps ==
  ASSUME Inv, Unlink
  PROVE  Inv'
<1> USE UpdateAssumption DEF Inv, Unlink, Versions, Contents, Names, Nothing, Torn, Link,
      File, IsLink, IsFile, Runs, Dangling, Snapshot, Absent, Husk, Shell, Steps, RunRecord,
      tree, Whole
<1>1. Types' BY DEF Types
<1>2. Progress' BY DEF Types, Progress
<1>3. Backups' BY DEF Types, Progress, Backups
<1>4. Kept' BY DEF Types, Progress, Backups, Kept, BackupKept
<1>5. Leads' BY DEF Types, Progress, Backups, Leads, SwapServes
<1>6. Newest' BY DEF Types, Progress, Newest, CppServes
<1> QED BY <1>1, <1>2, <1>3, <1>4, <1>5, <1>6

LEMMA FileInTheWayKeeps ==
  ASSUME Inv, FileInTheWay
  PROVE  Inv'
<1> USE UpdateAssumption DEF Inv, FileInTheWay, Finish, Versions, Contents, Names,
      Nothing, Torn, Link, File, IsLink, IsFile, Runs, Dangling, Snapshot, Absent, Husk, Shell,
      Steps, RunRecord, tree, Whole
<1>1. Types' BY DEF Types
<1>2. Progress' BY DEF Types, Progress
<1>3. Backups' BY DEF Types, Progress, Backups
<1>4. Kept' BY DEF Types, Progress, Backups, Kept, BackupKept
<1>5. Leads' BY DEF Types, Progress, Backups, Leads, SwapServes
<1>6. Newest' BY DEF Types, Progress, Newest, CppServes
<1> QED BY <1>1, <1>2, <1>3, <1>4, <1>5, <1>6

LEMMA SymlinkKeeps ==
  ASSUME Inv, Symlink
  PROVE  Inv'
<1> USE UpdateAssumption DEF Inv, Symlink, Finish, Versions, Contents, Names, Nothing,
      Torn, Link, File, IsLink, IsFile, Runs, Dangling, Snapshot, Absent, Husk, Shell, Steps,
      RunRecord, tree, Whole
<1>1. Types' BY DEF Types
<1>2. Progress'
  <2>1. CASE run.mode # "update" \/ kind = "cpp"
    <3>1. pc' = "idle" /\ run' = [run EXCEPT !.result = "ok"]
      BY <2>1
    <3>2. run'.landed
      BY <3>1 DEF Types, Progress
    <3> QED BY <3>1, <3>2 DEF Progress
  <2>2. CASE run.mode = "update" /\ kind = "swap"
    BY <2>2 DEF Types, Progress
  <2>3. CASE run.mode = "update" /\ kind \notin {"cpp", "swap"}
    BY <2>3 DEF Types, Progress
  <2> QED BY <2>1, <2>2, <2>3
<1>3. Backups' BY DEF Types, Progress, Backups
<1>4. Kept' BY DEF Types, Progress, Backups, Kept, BackupKept
<1>5. Leads' BY DEF Types, Progress, Backups, Leads, SwapServes
<1>6. Newest' BY DEF Types, Progress, Newest, CppServes, Kept
<1> QED BY <1>1, <1>2, <1>3, <1>4, <1>5, <1>6

LEMMA NoTargetKeeps ==
  ASSUME Inv, NoTarget
  PROVE  Inv'
<1> USE UpdateAssumption DEF Inv, NoTarget, Finish, Versions, Contents, Names, Nothing,
      Torn, Link, File, IsLink, IsFile, Runs, Dangling, Snapshot, Absent, Husk, Shell, Steps,
      RunRecord, tree, Whole
<1>1. Types' BY DEF Types
<1>2. Progress' BY DEF Types, Progress
<1>3. Backups' BY DEF Types, Progress, Backups
<1>4. Kept' BY DEF Types, Progress, Backups, Kept, BackupKept
<1>5. Leads' BY DEF Types, Progress, Backups, Leads, SwapServes
<1>6. Newest' BY DEF Types, Progress, Newest, CppServes
<1> QED BY <1>1, <1>2, <1>3, <1>4, <1>5, <1>6

LEMMA UnlinkAliasKeeps ==
  ASSUME Inv, UnlinkAlias
  PROVE  Inv'
<1> USE UpdateAssumption DEF Inv, UnlinkAlias, Versions, Contents, Names, Nothing, Torn,
      Link, File, IsLink, IsFile, Runs, Dangling, Snapshot, Absent, Husk, Shell, Steps,
      RunRecord, tree, Whole
<1>1. Types' BY DEF Types
<1>2. Progress' BY DEF Types, Progress
<1>3. Backups' BY DEF Types, Progress, Backups
<1>4. Kept' BY DEF Types, Progress, Backups, Kept, BackupKept
<1>5. Leads' BY DEF Types, Progress, Backups, Leads, SwapServes
<1>6. Newest' BY DEF Types, Progress, Newest, CppServes
<1> QED BY <1>1, <1>2, <1>3, <1>4, <1>5, <1>6

LEMMA RealiasKeeps ==
  ASSUME Inv, Realias
  PROVE  Inv'
<1> USE UpdateAssumption DEF Inv, Realias, Versions, Contents, Names, Nothing, Torn, Link,
      File, IsLink, IsFile, Runs, Dangling, Snapshot, Absent, Husk, Shell, Steps, RunRecord,
      tree, Whole
<1>1. Types' BY DEF Types
<1>2. Progress' BY DEF Types, Progress
<1>3. Backups' BY DEF Types, Progress, Backups
<1>4. Kept' BY DEF Types, Progress, Backups, Kept, BackupKept
<1>5. Leads' BY DEF Types, Progress, Backups, Leads, SwapServes
<1>6. Newest' BY DEF Types, Progress, Newest, CppServes
<1> QED BY <1>1, <1>2, <1>3, <1>4, <1>5, <1>6

LEMMA OtherLinksKeeps ==
  ASSUME Inv, OtherLinks
  PROVE  Inv'
<1> USE UpdateAssumption DEF Inv, OtherLinks, AfterAliases, Versions, Contents, Names,
      Nothing, Torn, Link, File, IsLink, IsFile, Runs, Dangling, Snapshot, Absent, Husk, Shell,
      Steps, RunRecord, tree, Whole
<1>1. Types' BY DEF Types
<1>2. Progress' BY DEF Types, Progress
<1>3. Backups' BY DEF Types, Progress, Backups
<1>4. Kept' BY DEF Types, Progress, Backups, Kept, BackupKept
<1>5. Leads' BY DEF Types, Progress, Backups, Leads, SwapServes
<1>6. Newest' BY DEF Types, Progress, Newest, CppServes
<1> QED BY <1>1, <1>2, <1>3, <1>4, <1>5, <1>6

LEMMA PrimaryKeeps ==
  ASSUME Inv, Primary
  PROVE  Inv'
<1> USE UpdateAssumption DEF Inv, Primary, Finish, Versions, Contents, Names, Nothing,
      Torn, Link, File, IsLink, IsFile, Runs, Dangling, Snapshot, Absent, Husk, Shell, Steps,
      RunRecord, tree, Whole
<1>1. Types' BY DEF Types
<1>2. Progress' BY DEF Types, Progress
<1>3. Backups' BY DEF Types, Progress, Backups
<1>4. Kept' BY DEF Types, Progress, Backups, Kept, BackupKept
<1>5. Leads' BY DEF Types, Progress, Backups, Leads, SwapServes
<1>6. Newest' BY DEF Types, Progress, Newest, CppServes
<1> QED BY <1>1, <1>2, <1>3, <1>4, <1>5, <1>6

LEMMA PrunedKeeps ==
  ASSUME Inv, Pruned
  PROVE  Inv'
<1> USE UpdateAssumption DEF Inv, Pruned, Finish, Versions, Contents, Names, Nothing,
      Torn, Link, File, IsLink, IsFile, Runs, Dangling, Snapshot, Absent, Husk, Shell, Steps,
      RunRecord, tree, Whole
<1>1. Types' BY DEF Types
<1>2. Progress' BY DEF Types, Progress
<1>3. Backups' BY DEF Types, Progress, Backups
<1>4. Kept' BY DEF Types, Progress, Backups, Kept, BackupKept
<1>5. Leads' BY DEF Types, Progress, Backups, Leads, SwapServes
<1>6. Newest' BY DEF Types, Progress, Newest, CppServes
<1> QED BY <1>1, <1>2, <1>3, <1>4, <1>5, <1>6

LEMMA PublishKeeps ==
  ASSUME Inv, NEW v \in Versions, Publish(v)
  PROVE  Inv'
<1> USE UpdateAssumption DEF Inv, Publish, Versions, Contents, Names, Nothing, Torn, Link,
      File, IsLink, IsFile, Runs, Dangling, Snapshot, Absent, Husk, Shell, Steps, RunRecord,
      tree, Whole
<1>1. Types' BY DEF Types
<1>2. Progress' BY DEF Types, Progress
<1>3. Backups' BY DEF Types, Progress, Backups
<1>4. Kept' BY DEF Types, Progress, Backups, Kept, BackupKept
<1>5. Leads' BY DEF Types, Progress, Backups, Leads, SwapServes
<1>6. Newest' BY DEF Types, Progress, Newest, CppServes
<1> QED BY <1>1, <1>2, <1>3, <1>4, <1>5, <1>6

LEMMA RelinkKeeps ==
  ASSUME Inv, NEW v \in Versions, Relink(v)
  PROVE  Inv'
<1> USE UpdateAssumption DEF Inv, Relink, NoRun, Versions, Contents, Names, Nothing, Torn,
      Link, File, IsLink, IsFile, Runs, Dangling, Snapshot, Absent, Husk, Shell, Steps,
      RunRecord, tree, Whole
<1>1. Types' BY DEF Types
<1>2. Progress' BY DEF Types, Progress
<1>3. Backups' BY DEF Types, Progress, Backups
<1>4. Kept' BY DEF Types, Progress, Backups, Kept, BackupKept
<1>5. Leads' BY DEF Types, Progress, Backups, Leads, SwapServes
<1>6. Newest' BY DEF Types, Progress, Newest, CppServes
<1> QED BY <1>1, <1>2, <1>3, <1>4, <1>5, <1>6

LEMMA PruneKeeps ==
  ASSUME Inv, NEW v \in Versions, Prune(v)
  PROVE  Inv'
<1> USE UpdateAssumption DEF Inv, Prune, Victims, Referenced, Named, Prunable, Versions,
      Contents, Names, Nothing, Torn, Link, File, IsLink, IsFile, Runs, Dangling, Snapshot,
      Absent, Husk, Shell, Steps, RunRecord, tree, Whole
<1>1. Types' BY DEF Types
<1>2. Progress' BY DEF Types, Progress
<1>3. Backups' BY DEF Types, Progress, Backups
<1>4. Kept' BY DEF Types, Progress, Backups, Kept, BackupKept
<1>5. Leads' BY DEF Types, Progress, Backups, Leads, SwapServes
<1>6. Newest'
  <2>1. CASE kind = "cpp" /\ run.ask = 0
    <3>1. Cardinality(Newer(v)) >= CppKeep
      BY <2>1
    <3>2. Newer(v) # {}
      BY <3>1, FS_EmptySet
    <3>3. \A u \in Versions : entry[u] # Absent => u <= run.tag
      BY <2>1 DEF Newest
    <3>4. v # run.tag
      BY <3>2, <3>3 DEF Newer, Types
    <3>5. entry'[run.tag] = run.tag
      BY <2>1, <3>4 DEF Types, Newest
    <3>6. \A u \in Versions : entry'[u] # Absent => entry[u] # Absent
      BY DEF Types
    <3> QED BY <2>1, <3>3, <3>5, <3>6 DEF Types, Progress, Newest, CppServes
  <2>2. CASE ~(kind = "cpp" /\ run.ask = 0)
    BY <2>2 DEF Newest
  <2> QED BY <2>1, <2>2
<1> QED BY <1>1, <1>2, <1>3, <1>4, <1>5, <1>6

LEMMA StartKeeps ==
  ASSUME Inv, NEW mode \in {"update", "build", "rebuild"}, NEW ask \in 0 .. MaxVersion,
        Start(mode, ask)
  PROVE  Inv'
<1> USE UpdateAssumption DEF Inv, Start, NoRun, Versions, Contents, Names, Nothing, Torn,
      Link, File, IsLink, IsFile, Runs, Dangling, Snapshot, Absent, Husk, Shell, Steps,
      RunRecord, tree, Whole
<1>1. Types'
  <2>1. ask = 0 \/ ask \in Versions
    BY DEF Types
  <2>2. Runs(link) \in 0 .. MaxVersion
    BY DEF Types
  <2>3. run' = [mode |-> mode, ask |-> ask, tag |-> IF ask = 0 THEN upstream ELSE ask,
                was |-> Runs(link), landed |-> FALSE, result |-> "none"]
    BY DEF Types
  <2>4. (IF ask = 0 THEN upstream ELSE ask) \in Versions
    BY <2>1 DEF Types
  <2>5. run'.tag \in Versions /\ run' \in RunRecord
    BY <2>2, <2>3, <2>4, NewRun
  <2> QED BY <2>5 DEF Types
<1>2. Progress' BY DEF Types, Progress
<1>3. Backups' BY DEF Types, Progress, Backups
<1>4. Kept' BY DEF Types, Progress, Backups, Kept, BackupKept
<1>5. Leads' BY DEF Types, Progress, Backups, Leads, SwapServes
<1>6. Newest' BY DEF Types, Progress, Newest, CppServes
<1> QED BY <1>1, <1>2, <1>3, <1>4, <1>5, <1>6
-----------------------------------------------------------------------------
(* What follows for every behaviour. *)

LEMMA InitInv == Init => Inv
<1> USE UpdateAssumption DEF Init, NoRun, Versions, Contents, Names, Nothing, Torn, Link,
      File, IsLink, IsFile, Runs, Dangling, Snapshot, Absent, Husk, Shell, Steps, RunRecord,
      Whole
<1> SUFFICES ASSUME Init PROVE Inv
  OBVIOUS
<1>1. Types BY DEF Types
<1>2. Progress BY <1>1 DEF Types, Progress
<1>3. Backups BY <1>1 DEF Types, Backups
<1>4. Kept BY <1>1 DEF Types, Kept, BackupKept
<1>5. Leads BY <1>1 DEF Types, Leads, SwapServes
<1>6. Newest BY <1>1 DEF Types, Newest, CppServes
<1> QED BY <1>1, <1>2, <1>3, <1>4, <1>5, <1>6 DEF Inv

\* No sequence of runs, kills and rollbacks leaves Inv.
THEOREM Invariance == Spec => []Inv
<1>1. Inv /\ [Next]_vars => Inv'
  <2> SUFFICES ASSUME Inv, [Next]_vars PROVE Inv'
    OBVIOUS
  <2>1. CASE Crash BY <2>1, CrashKeeps
  <2>2. CASE AlreadyThere BY <2>2, AlreadyThereKeeps
  <2>3. CASE Needed BY <2>3, NeededKeeps
  <2>4. CASE Fail BY <2>4, FailKeeps
  <2>5. CASE SetAside BY <2>5, SetAsideKeeps
  <2>6. CASE Land BY <2>6, LandKeeps
  <2>7. CASE NoBackup BY <2>7, NoBackupKeeps
  <2>8. CASE OpenBackup BY <2>8, OpenBackupKeeps
  <2>9. CASE CopyBackup BY <2>9, CopyBackupKeeps
  <2>10. CASE BackupRefused BY <2>10, BackupRefusedKeeps
  <2>11. CASE CopyThrough BY <2>11, CopyThroughKeeps
  <2>12. CASE CopyLink BY <2>12, CopyLinkKeeps
  <2>13. CASE Unlink BY <2>13, UnlinkKeeps
  <2>14. CASE FileInTheWay BY <2>14, FileInTheWayKeeps
  <2>15. CASE Symlink BY <2>15, SymlinkKeeps
  <2>16. CASE NoTarget BY <2>16, NoTargetKeeps
  <2>17. CASE UnlinkAlias BY <2>17, UnlinkAliasKeeps
  <2>18. CASE Realias BY <2>18, RealiasKeeps
  <2>19. CASE OtherLinks BY <2>19, OtherLinksKeeps
  <2>20. CASE Primary BY <2>20, PrimaryKeeps
  <2>21. CASE Pruned BY <2>21, PrunedKeeps
  <2>22. CASE \E v \in Versions : Publish(v) BY <2>22, PublishKeeps
  <2>23. CASE \E v \in Versions : Relink(v) BY <2>23, RelinkKeeps
  <2>24. CASE \E v \in Versions : Prune(v) BY <2>24, PruneKeeps
  <2>25. CASE \E mode \in {"update", "build", "rebuild"}, ask \in 0 .. MaxVersion :
        Start(mode, ask)
    BY <2>25, StartKeeps
  <2>26. CASE UNCHANGED vars
    BY <2>26 DEF vars, tree, Inv, Types, Progress, Backups, Kept, Leads, Newest,
          BackupKept, SwapServes, CppServes, Snapshot, Dangling, Runs, Whole
  <2> QED BY <2>1, <2>2, <2>3, <2>4, <2>5, <2>6, <2>7, <2>8, <2>9, <2>10, <2>11, <2>12,
        <2>13, <2>14, <2>15, <2>16, <2>17, <2>18, <2>19, <2>20, <2>21, <2>22, <2>23, <2>24,
        <2>25, <2>26 DEF Next
<1> QED BY InitInv, <1>1, PTL DEF Spec

\* The variables keep their types.
THEOREM TypesCorrect == Spec => []TypeOK
<1>1. Inv => TypeOK
  BY UpdateAssumption DEF Inv, Types, TypeOK, RunRecord
<1> QED BY <1>1, Invariance, PTL

\* swap_symlink: the backup holds what ran before the stable name is touched.
THEOREM BackupsKept == Spec => []BackupKept
<1>1. Inv => BackupKept
  <2> SUFFICES ASSUME Inv, kind # "cpp", run.mode = "update", run.was > 0, ~IsLink(bak),
                      pc \in {"symlink", "alias", "realias", "others", "prune"}
               PROVE  bak = File(run.was)
    BY DEF BackupKept
  <2> QED BY DEF Inv, Kept, BackupKept
<1> QED BY <1>1, Invariance, PTL

\* update_llama_swap: success means the stable name runs what was asked for.
THEOREM SwapsServe == Spec => []SwapServes
<1>1. Inv => SwapServes
  <2> SUFFICES ASSUME Inv, kind = "swap", run.result = "ok", ~IsLink(before.bak)
               PROVE  SwapServes
    BY DEF SwapServes
  <2> QED BY DEF Inv, Leads
<1> QED BY <1>1, Invariance, PTL

\* A run that lands nothing changes nothing, in every kind of directory.
THEOREM FailuresHarmless == Spec => []HarmlessUnlessLanded
<1>1. Inv => HarmlessUnlessLanded
  BY DEF Inv, Types, Progress, HarmlessUnlessLanded, Steps
<1> QED BY <1>1, Invariance, PTL

\* A latest llama.cpp that was installed is what the stable name runs: the
\* pruner, which comes first and asks no link, never takes it.
THEOREM LatestIsServed == Spec => []CppServes
<1>1. Inv => CppServes
  <2> SUFFICES ASSUME Inv, kind = "cpp", run.result = "ok", run.landed, run.ask = 0
               PROVE  CppServes
    BY DEF CppServes
  <2> QED BY DEF Inv, Newest
<1> QED BY <1>1, Invariance, PTL

-----------------------------------------------------------------------------
(* The refinement: what a step of a tool is to Rollout. *)

LEMMA CrashMaps ==
  ASSUME Inv, Crash
  PROVE  R!End
BY UpdateAssumption DEF Inv, Types, Progress, Backups, Crash, NoRun, Runs, Dangling,
      Phase, Served, Versions, Contents, Names, Nothing, Link, File, IsFile, IsLink, Whole,
      Absent, Husk, Shell, tree, Steps, R!Link, R!File, R!Nothing, R!Without, R!vars, R!End

LEMMA AlreadyThereMaps ==
  ASSUME Inv, AlreadyThere
  PROVE  R!End
BY UpdateAssumption DEF Inv, Types, Progress, Backups, AlreadyThere, Finish, Has, Lacks,
      CppHas, SwapHas, SwapLacks, BundleHas, BundleLacks, Runs, Dangling, Phase, Served,
      Versions, Contents, Names, Nothing, Link, File, IsFile, IsLink, Whole, Absent, Husk,
      Shell, tree, Steps, R!Link, R!File, R!Nothing, R!Without, R!vars, R!End

LEMMA NeededMaps ==
  ASSUME Inv, Needed
  PROVE  UNCHANGED R!vars
BY UpdateAssumption DEF Inv, Types, Progress, Backups, Needed, Runs, Dangling, Phase,
      Served, Versions, Contents, Names, Nothing, Link, File, IsFile, IsLink, Whole, Absent,
      Husk, Shell, tree, Steps, R!Link, R!File, R!Nothing, R!Without, R!vars

LEMMA FailMaps ==
  ASSUME Inv, Fail
  PROVE  R!End
BY UpdateAssumption DEF Inv, Types, Progress, Backups, Fail, Finish, Runs, Dangling,
      Phase, Served, Versions, Contents, Names, Nothing, Link, File, IsFile, IsLink, Whole,
      Absent, Husk, Shell, tree, Steps, R!Link, R!File, R!Nothing, R!Without, R!vars, R!End

LEMMA SetAsideMaps ==
  ASSUME Inv, SetAside
  PROVE  R!Withdraw(run.tag)
BY UpdateAssumption DEF Inv, Types, Progress, Backups, SetAside, Runs, Dangling, Phase,
      Served, Versions, Contents, Names, Nothing, Link, File, IsFile, IsLink, Whole, Absent,
      Husk, Shell, tree, Steps, R!Link, R!File, R!Nothing, R!Without, R!vars, R!Withdraw

LEMMA LandMaps ==
  ASSUME Inv, Land
  PROVE  R!Land(run.tag)
BY UpdateAssumption DEF Inv, Types, Progress, Backups, Land, Runs, Dangling, Phase,
      Served, Versions, Contents, Names, Nothing, Link, File, IsFile, IsLink, Whole, Absent,
      Husk, Shell, tree, Steps, R!Link, R!File, R!Nothing, R!Without, R!vars, R!Land

LEMMA NoBackupMaps ==
  ASSUME Inv, NoBackup
  PROVE  UNCHANGED R!vars
BY UpdateAssumption DEF Inv, Types, Progress, Backups, NoBackup, Runs, Dangling, Phase,
      Served, Versions, Contents, Names, Nothing, Link, File, IsFile, IsLink, Whole, Absent,
      Husk, Shell, tree, Steps, R!Link, R!File, R!Nothing, R!Without, R!vars

LEMMA OpenBackupMaps ==
  ASSUME Inv, OpenBackup
  PROVE  UNCHANGED R!vars
BY UpdateAssumption DEF Inv, Types, Progress, Backups, OpenBackup, Runs, Dangling, Phase,
      Served, Versions, Contents, Names, Nothing, Link, File, IsFile, IsLink, Whole, Absent,
      Husk, Shell, tree, Steps, R!Link, R!File, R!Nothing, R!Without, R!vars

LEMMA CopyBackupMaps ==
  ASSUME Inv, CopyBackup
  PROVE  UNCHANGED R!vars
BY UpdateAssumption DEF Inv, Types, Progress, Backups, CopyBackup, Source, Runs, Dangling,
      Phase, Served, Versions, Contents, Names, Nothing, Link, File, IsFile, IsLink, Whole,
      Absent, Husk, Shell, tree, Steps, R!Link, R!File, R!Nothing, R!Without, R!vars

LEMMA BackupRefusedMaps ==
  ASSUME Inv, BackupRefused
  PROVE  R!End \/ UNCHANGED R!vars
BY UpdateAssumption DEF Inv, Types, Progress, Backups, BackupRefused, Finish, Runs,
      Dangling, Phase, Served, Versions, Contents, Names, Nothing, Link, File, IsFile, IsLink,
      Whole, Absent, Husk, Shell, tree, Steps, R!Link, R!File, R!Nothing, R!Without, R!vars,
      R!End

LEMMA CopyThroughMaps ==
  ASSUME Inv, CopyThrough
  PROVE  bak.of \in Versions /\ R!Retire(bak.of)
<1> DEFINE to == bak.of
<1> USE UpdateAssumption DEF Nothing, Link, File, IsLink, IsFile, Versions, Absent, Husk, Shell
<1>1. PICK u \in Versions : link = Link(u) /\ u # to
  BY DEF Inv, Types, Backups, CopyThrough, Names, Torn
<1>2. entry[u] > 0 => entry[u] = u
  BY <1>1 DEF Inv, Backups, CopyThrough
<1>3. Source = u
  BY <1>1, <1>2 DEF Source, Runs
<1>4. entry' = [entry EXCEPT ![to] = IF kind = "bundle" /\ entry[to] \in {Husk, Shell}
                                   THEN Shell ELSE u]
  BY <1>3 DEF CopyThrough
<1>5. to \in Versions
  BY DEF Inv, Types, CopyThrough, Names, Torn
<1>6. Whole' = Whole \ {to}
  BY <1>1, <1>4, <1>5 DEF Whole, Inv, Types
<1>7. Served # Link(to) /\ Served' = Served
  BY <1>1, <1>5, <1>6 DEF Served, CopyThrough
<1>8. Phase = "settling" /\ Phase' = "settling" /\ kind' = kind
  BY DEF CopyThrough, Phase
<1> QED BY <1>5, <1>6, <1>7, <1>8 DEF R!Retire, R!Without, R!Link

LEMMA CopyLinkMaps ==
  ASSUME Inv, CopyLink
  PROVE  UNCHANGED R!vars
BY UpdateAssumption DEF Inv, Types, Progress, Backups, CopyLink, Runs, Dangling, Phase,
      Served, Versions, Contents, Names, Nothing, Link, File, IsFile, IsLink, Whole, Absent,
      Husk, Shell, tree, Steps, R!Link, R!File, R!Nothing, R!Without, R!vars

LEMMA UnlinkMaps ==
  ASSUME Inv, Unlink
  PROVE  R!Blink \/ UNCHANGED R!vars
BY UpdateAssumption DEF Inv, Types, Progress, Backups, Unlink, Runs, Dangling, Phase,
      Served, Versions, Contents, Names, Nothing, Link, File, IsFile, IsLink, Whole, Absent,
      Husk, Shell, tree, Steps, R!Link, R!File, R!Nothing, R!Without, R!vars, R!Blink

LEMMA FileInTheWayMaps ==
  ASSUME Inv, FileInTheWay
  PROVE  R!End
BY UpdateAssumption DEF Inv, Types, Progress, Backups, FileInTheWay, Finish, Runs,
      Dangling, Phase, Served, Versions, Contents, Names, Nothing, Link, File, IsFile, IsLink,
      Whole, Absent, Husk, Shell, tree, Steps, R!Link, R!File, R!Nothing, R!Without, R!vars,
      R!End

LEMMA SymlinkMaps ==
  ASSUME Inv, Symlink
  PROVE  R!Move(run.tag) \/ R!End \/ UNCHANGED R!vars
BY UpdateAssumption DEF Inv, Types, Progress, Backups, Symlink, Finish, Runs, Dangling,
      Phase, Served, Versions, Contents, Names, Nothing, Link, File, IsFile, IsLink, Whole,
      Absent, Husk, Shell, tree, Steps, R!Link, R!File, R!Nothing, R!Without, R!vars, R!Move,
      R!End

LEMMA NoTargetMaps ==
  ASSUME Inv, NoTarget
  PROVE  R!End
BY UpdateAssumption DEF Inv, Types, Progress, Backups, NoTarget, Finish, Runs, Dangling,
      Phase, Served, Versions, Contents, Names, Nothing, Link, File, IsFile, IsLink, Whole,
      Absent, Husk, Shell, tree, Steps, R!Link, R!File, R!Nothing, R!Without, R!vars, R!End

LEMMA UnlinkAliasMaps ==
  ASSUME Inv, UnlinkAlias
  PROVE  UNCHANGED R!vars
BY UpdateAssumption DEF Inv, Types, Progress, Backups, UnlinkAlias, Runs, Dangling, Phase,
      Served, Versions, Contents, Names, Nothing, Link, File, IsFile, IsLink, Whole, Absent,
      Husk, Shell, tree, Steps, R!Link, R!File, R!Nothing, R!Without, R!vars

LEMMA RealiasMaps ==
  ASSUME Inv, Realias
  PROVE  UNCHANGED R!vars
BY UpdateAssumption DEF Inv, Types, Progress, Backups, Realias, Runs, Dangling, Phase,
      Served, Versions, Contents, Names, Nothing, Link, File, IsFile, IsLink, Whole, Absent,
      Husk, Shell, tree, Steps, R!Link, R!File, R!Nothing, R!Without, R!vars

LEMMA OtherLinksMaps ==
  ASSUME Inv, OtherLinks
  PROVE  UNCHANGED R!vars
BY UpdateAssumption DEF Inv, Types, Progress, Backups, OtherLinks, AfterAliases, Runs,
      Dangling, Phase, Served, Versions, Contents, Names, Nothing, Link, File, IsFile, IsLink,
      Whole, Absent, Husk, Shell, tree, Steps, R!Link, R!File, R!Nothing, R!Without, R!vars

LEMMA PrimaryMaps ==
  ASSUME Inv, Primary
  PROVE  R!End \/ UNCHANGED R!vars
BY UpdateAssumption DEF Inv, Types, Progress, Backups, Primary, Finish, Runs, Dangling,
      Phase, Served, Versions, Contents, Names, Nothing, Link, File, IsFile, IsLink, Whole,
      Absent, Husk, Shell, tree, Steps, R!Link, R!File, R!Nothing, R!Without, R!vars, R!End

LEMMA PrunedMaps ==
  ASSUME Inv, Pruned
  PROVE  R!End \/ UNCHANGED R!vars
BY UpdateAssumption DEF Inv, Types, Progress, Backups, Pruned, Finish, Runs, Dangling,
      Phase, Served, Versions, Contents, Names, Nothing, Link, File, IsFile, IsLink, Whole,
      Absent, Husk, Shell, tree, Steps, R!Link, R!File, R!Nothing, R!Without, R!vars, R!End

LEMMA PublishMaps ==
  ASSUME Inv, NEW v \in Versions, Publish(v)
  PROVE  UNCHANGED R!vars
BY UpdateAssumption DEF Inv, Types, Progress, Backups, Publish, Runs, Dangling, Phase,
      Served, Versions, Contents, Names, Nothing, Link, File, IsFile, IsLink, Whole, Absent,
      Husk, Shell, tree, Steps, R!Link, R!File, R!Nothing, R!Without, R!vars

LEMMA RelinkMaps ==
  ASSUME Inv, NEW v \in Versions, Relink(v)
  PROVE  R!Move(v)
BY UpdateAssumption DEF Inv, Types, Progress, Backups, Relink, NoRun, Runs, Dangling,
      Phase, Served, Versions, Contents, Names, Nothing, Link, File, IsFile, IsLink, Whole,
      Absent, Husk, Shell, tree, Steps, R!Link, R!File, R!Nothing, R!Without, R!vars, R!Move

LEMMA PruneMaps ==
  ASSUME Inv, NEW v \in Versions, Prune(v)
  PROVE  R!Retire(v) \/ UNCHANGED R!vars
BY UpdateAssumption DEF Inv, Types, Progress, Backups, Prune, Victims, Referenced, Named,
      Prunable, Runs, Dangling, Phase, Served, Versions, Contents, Names, Nothing, Link, File,
      IsFile, IsLink, Whole, Absent, Husk, Shell, tree, Steps, R!Link, R!File, R!Nothing,
      R!Without, R!vars, R!Retire

LEMMA StartMaps ==
  ASSUME Inv, NEW mode \in {"update", "build", "rebuild"}, NEW ask \in 0 .. MaxVersion,
        Start(mode, ask)
  PROVE  R!Begin
BY UpdateAssumption DEF Inv, Types, Progress, Backups, Start, NoRun, Runs, Dangling,
      Phase, Served, Versions, Contents, Names, Nothing, Link, File, IsFile, IsLink, Whole,
      Absent, Husk, Shell, tree, Steps, R!Link, R!File, R!Nothing, R!Without, R!vars, R!Begin

LEMMA InitMaps == Init => R!Init
BY UpdateAssumption DEF Init, R!Init, Phase, Served, Versions, Contents, Names, Nothing,
      Link, File, IsFile, IsLink, Whole, Absent, Husk, Shell, tree, Steps, R!Link, R!File,
      R!Nothing, R!Without

LEMMA RunTag == Inv /\ pc # "idle" => run.tag \in Versions
BY DEF Inv, Types

\* The tools implement Rollout.
THEOREM Refinement == Spec => ImplementsRollout
<1>1. Inv /\ [Next]_vars => [R!Next]_(R!vars)
  <2> SUFFICES ASSUME Inv, [Next]_vars PROVE [R!Next]_(R!vars)
    OBVIOUS
  <2> USE RunTag DEF R!Next
  <2>1. CASE Crash BY <2>1, CrashMaps
  <2>2. CASE AlreadyThere BY <2>2, AlreadyThereMaps
  <2>3. CASE Needed BY <2>3, NeededMaps
  <2>4. CASE Fail BY <2>4, FailMaps
  <2>5. CASE SetAside BY <2>5, SetAsideMaps DEF SetAside
  <2>6. CASE Land BY <2>6, LandMaps DEF Land
  <2>7. CASE NoBackup BY <2>7, NoBackupMaps
  <2>8. CASE OpenBackup BY <2>8, OpenBackupMaps
  <2>9. CASE CopyBackup BY <2>9, CopyBackupMaps
  <2>10. CASE BackupRefused BY <2>10, BackupRefusedMaps
  <2>11. CASE CopyThrough BY <2>11, CopyThroughMaps
  <2>12. CASE CopyLink BY <2>12, CopyLinkMaps
  <2>13. CASE Unlink BY <2>13, UnlinkMaps
  <2>14. CASE FileInTheWay BY <2>14, FileInTheWayMaps
  <2>15. CASE Symlink BY <2>15, SymlinkMaps DEF Symlink
  <2>16. CASE NoTarget BY <2>16, NoTargetMaps
  <2>17. CASE UnlinkAlias BY <2>17, UnlinkAliasMaps
  <2>18. CASE Realias BY <2>18, RealiasMaps
  <2>19. CASE OtherLinks BY <2>19, OtherLinksMaps
  <2>20. CASE Primary BY <2>20, PrimaryMaps
  <2>21. CASE Pruned BY <2>21, PrunedMaps
  <2>22. CASE \E v \in Versions : Publish(v) BY <2>22, PublishMaps
  <2>23. CASE \E v \in Versions : Relink(v) BY <2>23, RelinkMaps
  <2>24. CASE \E v \in Versions : Prune(v) BY <2>24, PruneMaps
  <2>25. CASE \E mode \in {"update", "build", "rebuild"}, ask \in 0 .. MaxVersion :
        Start(mode, ask)
    BY <2>25, StartMaps
  <2>26. CASE UNCHANGED vars
    BY <2>26 DEF vars, tree, R!vars, Phase, Served, Whole
  <2> QED BY <2>1, <2>2, <2>3, <2>4, <2>5, <2>6, <2>7, <2>8, <2>9, <2>10, <2>11, <2>12,
        <2>13, <2>14, <2>15, <2>16, <2>17, <2>18, <2>19, <2>20, <2>21, <2>22, <2>23, <2>24,
        <2>25, <2>26 DEF Next
<1> QED BY InitMaps, <1>1, Invariance, PTL DEF Spec, R!Spec, ImplementsRollout
=============================================================================
