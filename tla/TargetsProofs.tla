---------------------------- MODULE TargetsProofs -----------------------------
(***************************************************************************)
(* For every table of engines and aliases, every tools tree and every      *)
(* command line: an ambiguous word installs nothing, and exit status 0     *)
(* means that all targets of the run were brought up to date.              *)
(***************************************************************************)
EXTENDS Targets, FiniteSetTheorems, TLAPS

\* A word that could mean several engines.
Doubtful(w) ==
  LET s == Spelling[w] IN s.alias = {} /\ ~s.all /\ ~s.glob /\ Cardinality(s.hits) > 1

InDoubt == \E i \in DOMAIN asked.words : Doubtful(asked.words[i])

Types ==
  /\ pc \in {"idle", "parse", "install"}
  /\ asked.words \in Seq(DOMAIN Spelling) /\ rest \in Seq(DOMAIN Spelling)
  /\ outcome \in [AllEngines -> {"none", "ok", "failed"}]

\* While an ambiguous word is on the command line, it is still ahead of the
\* parser or has ended the run.
StillAhead ==
  InDoubt =>
    /\ outcome = Nobody /\ pc # "install"
    /\ pc = "parse" => \E i \in DOMAIN rest : Doubtful(rest[i])
    /\ pc = "idle" => status # 0

\* As long as nothing failed, what is not to come is done.
SoFarDone ==
  /\ pc = "install" /\ status = 0 => \A e \in selected \ left : outcome[e] = "ok"
  /\ pc = "idle" /\ runs > 0 /\ status = 0 => \A e \in selected : outcome[e] = "ok"

IInv == Types /\ StillAhead /\ SoFarDone

\* A word that is a selector, or none, is not in doubt.
LEMMA ResolvedIsClear ==
  ASSUME NEW w \in DOMAIN Spelling, Resolve(w).is # "ambiguous"
  PROVE  ~Doubtful(w)
<1> DEFINE s == Spelling[w]
<1>1. s.alias # {} \/ s.all \/ s.hits = {} \/ s.glob \/ Cardinality(s.hits) = 1
  BY DEF Resolve, Ambiguous
<1>2. Cardinality({}) = 0
  BY FS_EmptySet
<1> QED
  BY <1>1, <1>2 DEF Doubtful

LEMMA InitHolds == Init => IInv
<1> SUFFICES ASSUME Init PROVE IInv
  OBVIOUS
<1>1. asked.words = <<>> /\ rest = <<>> /\ pc = "idle" /\ runs = 0
  BY DEF Init, NotAsked
<1>2. outcome \in [AllEngines -> {"none", "ok", "failed"}]
  BY DEF Init, Nobody
<1> QED
  BY <1>1, <1>2 DEF IInv, Types, StillAhead, InDoubt, SoFarDone

LEMMA InvokeKeeps ==
  ASSUME IInv, NEW request \in Requests, Invoke(request)
  PROVE  IInv'
<1>1. /\ asked' = request /\ rest' = request.words /\ pc' = "parse" /\ outcome' = Nobody
  BY DEF Invoke
<1>2. request.words \in Seq(DOMAIN Spelling)
  BY TargetsAssumption
<1>3. Types'
  BY <1>1, <1>2 DEF Types, Nobody
<1>4. StillAhead'
  BY <1>1 DEF StillAhead, InDoubt, Doubtful
<1>5. SoFarDone'
  BY <1>1 DEF SoFarDone
<1> QED
  BY <1>3, <1>4, <1>5 DEF IInv

\* A word that is not in doubt leaves the one that is ahead.
LEMMA WordKeeps ==
  ASSUME IInv, NEW w \in DOMAIN Spelling, Parsing(w), Resolve(w).is # "ambiguous",
         rest' = Tail(rest), UNCHANGED <<pc, asked, outcome>>
  PROVE  IInv'
<1>1. /\ pc = "parse" /\ rest # <<>> /\ w = Head(rest) /\ rest \in Seq(DOMAIN Spelling)
  BY DEF Parsing, IInv, Types
<1>2. rest' \in Seq(DOMAIN Spelling)
  BY <1>1
<1>3. Types'
  BY <1>2 DEF IInv, Types
<1>4. StillAhead'
  <2> SUFFICES ASSUME InDoubt PROVE outcome = Nobody /\ \E i \in DOMAIN rest' : Doubtful(rest'[i])
    BY <1>1 DEF StillAhead, InDoubt, Doubtful
  <2>1. outcome = Nobody /\ \E i \in DOMAIN rest : Doubtful(rest[i])
    BY <1>1 DEF IInv, StillAhead
  <2>2. PICK i \in DOMAIN rest : Doubtful(rest[i])
    BY <2>1
  <2>3. i # 1
    BY <1>1, <2>2, ResolvedIsClear
  <2>4. i - 1 \in DOMAIN rest' /\ rest'[i - 1] = rest[i]
    BY <1>1, <2>3
  <2> QED
    BY <2>1, <2>2, <2>4
<1>5. SoFarDone'
  BY <1>1 DEF SoFarDone
<1> QED
  BY <1>3, <1>4, <1>5 DEF IInv

\* A run that ends before it installs ends with a status of its own.
LEMMA ExitKeeps ==
  ASSUME IInv, pc = "parse", NEW code \in Nat \ {0}, Exit(code), UNCHANGED <<asked, rest, outcome>>
  PROVE  IInv'
<1>1. Types'
  BY DEF IInv, Types, Exit
<1>2. StillAhead'
  BY DEF IInv, StillAhead, InDoubt, Doubtful, Exit
<1>3. SoFarDone'
  BY DEF SoFarDone, Exit
<1> QED
  BY <1>1, <1>2, <1>3 DEF IInv

LEMMA LocateKeeps ==
  ASSUME IInv, Locate
  PROVE  IInv'
<1>1. /\ pc = "parse" /\ rest = <<>> /\ pc' = "install" /\ left' = selected'
      /\ UNCHANGED <<asked, rest, outcome>>
  BY DEF Locate, parsing
<1>2. ~InDoubt
  BY <1>1 DEF IInv, StillAhead
<1>3. Types'
  BY <1>1 DEF IInv, Types
<1>4. StillAhead'
  BY <1>1, <1>2 DEF StillAhead, InDoubt, Doubtful
<1>5. SoFarDone'
  BY <1>1 DEF SoFarDone
<1> QED
  BY <1>3, <1>4, <1>5 DEF IInv

\* What the steps on one target have in common: nothing is in doubt any more.
LEMMA TargetKeeps ==
  ASSUME IInv, pc = "install", NEW e \in AllEngines, NEW how \in {"ok", "failed"},
         outcome' = [outcome EXCEPT ![e] = how], UNCHANGED <<asked, rest>>,
         pc' \in {"idle", "install"}, SoFarDone'
  PROVE  IInv'
<1>1. Types'
  BY DEF IInv, Types
<1>2. StillAhead'
  BY DEF IInv, StillAhead, InDoubt, Doubtful
<1> QED
  BY <1>1, <1>2 DEF IInv

LEMMA InstallKeeps ==
  ASSUME IInv, NEW e \in AllEngines, Install(e)
  PROVE  IInv'
<1>1. /\ pc = "install" /\ pc' = pc /\ outcome' = [outcome EXCEPT ![e] = "ok"]
      /\ left' = left \ {e} /\ UNCHANGED <<asked, rest, status, selected>>
  BY DEF Install, parsing
<1>2. SoFarDone'
  <2> SUFFICES ASSUME status = 0, NEW f \in selected \ left' PROVE outcome'[f] = "ok"
    BY <1>1 DEF SoFarDone
  <2>1. f = e \/ outcome[f] = "ok"
    BY <1>1 DEF IInv, SoFarDone
  <2>2. outcome \in [AllEngines -> {"none", "ok", "failed"}]
    BY DEF IInv, Types
  <2> QED
    BY <1>1, <2>1, <2>2
<1> QED
  BY <1>1, <1>2, TargetKeeps

LEMMA FailureKeeps ==
  ASSUME IInv, NEW e \in AllEngines, TargetFails(e) \/ Abandon(e)
  PROVE  IInv'
<1>1. /\ pc = "install" /\ pc' \in {"idle", "install"} /\ status' # 0
      /\ outcome' = [outcome EXCEPT ![e] = "failed"] /\ UNCHANGED <<asked, rest>>
  BY DEF TargetFails, Abandon, Exit, parsing
<1>2. SoFarDone'
  BY <1>1 DEF SoFarDone
<1> QED
  BY <1>1, <1>2, TargetKeeps

LEMMA DoneKeeps ==
  ASSUME IInv, Done
  PROVE  IInv'
<1>1. /\ pc = "install" /\ left = {} /\ pc' = "idle" /\ status' = status
      /\ UNCHANGED <<asked, rest, outcome, selected, runs>>
  BY DEF Done, Exit, parsing
<1>2. Types'
  BY <1>1 DEF IInv, Types
<1>3. StillAhead'
  BY <1>1 DEF IInv, StillAhead, InDoubt, Doubtful
<1>4. SoFarDone'
  BY <1>1 DEF IInv, SoFarDone
<1> QED
  BY <1>2, <1>3, <1>4 DEF IInv

LEMMA StepKeeps == IInv /\ [Next]_vars => IInv'
<1> SUFFICES ASSUME IInv, [Next]_vars PROVE IInv'
  OBVIOUS
<1>1. CASE Refuse
  BY <1>1, ExitKeeps DEF Refuse, parsing
<1>2. CASE Locate
  BY <1>2, LocateKeeps
<1>3. CASE Done
  BY <1>3, DoneKeeps
<1>4. CASE \E request \in Requests : Invoke(request)
  BY <1>4, InvokeKeeps
<1>5. ASSUME NEW w \in DOMAIN Spelling, Selector(w) PROVE IInv'
  BY <1>5, WordKeeps DEF Selector
<1>6. ASSUME NEW w \in DOMAIN Spelling, AmbiguousSelector(w) PROVE IInv'
  BY <1>6, ExitKeeps DEF AmbiguousSelector, Parsing, parsing
<1>7. ASSUME NEW w \in DOMAIN Spelling, OtherWord(w) PROVE IInv'
  BY <1>7, WordKeeps DEF OtherWord
<1>8. ASSUME NEW e \in AllEngines, Install(e) PROVE IInv'
  BY <1>8, InstallKeeps
<1>9. ASSUME NEW e \in AllEngines, TargetFails(e) \/ Abandon(e) PROVE IInv'
  BY <1>9, FailureKeeps
<1>10. CASE UNCHANGED vars
  BY <1>10 DEF vars, IInv, Types, StillAhead, InDoubt, Doubtful, SoFarDone
<1> QED
  BY <1>1, <1>2, <1>3, <1>4, <1>5, <1>6, <1>7, <1>8, <1>9, <1>10 DEF Next

\* The invariant of an invocation, over any history of them.
THEOREM Inductive == Spec => []IInv
<1> QED
  BY InitHolds, StepKeeps, PTL DEF Spec

\* A command line with a word that could mean several engines installs nothing
\* and does not exit with 0, whatever else is on it.
THEOREM DoubtInstallsNothing == Spec => []AmbiguityInstallsNothing
<1>1. IInv => AmbiguityInstallsNothing
  BY DEF IInv, StillAhead, InDoubt, Doubtful, AmbiguityInstallsNothing
<1> QED
  BY <1>1, Inductive, PTL

\* Exit status 0 is earned by every target of the run.
THEOREM ZeroIsEarned == Spec => []ZeroMeansAllDone
<1>1. IInv => ZeroMeansAllDone
  BY DEF IInv, SoFarDone, ZeroMeansAllDone
<1> QED
  BY <1>1, Inductive, PTL

-----------------------------------------------------------------------------
(* One place for one engine *)

\* Until an engine's turn comes, its home is what its directories say.
HomesSettled ==
  /\ asked.cwd \in Dirs /\ asked.env \in Dirs \cup {NoDir}
  /\ has = [e \in AllEngines |-> has[e]]
  /\ pc = "install" => \A e \in left \cap AllEngines : home[e] = InstallDir(e)

\* What a candidate holds, and nothing directly, it holds in the one place
\* there is.
LEMMA HeldBelow ==
  ASSUME NEW e \in AllEngines, NEW d \in Dirs, Homes(e) = {d}, NEW c \in Dirs,
         c \notin VersionDirs[e], ~HoldsDirectly(e, c),
         \A x \in Children(c) : \A y \in Children(x) :
           /\ y = d => d \in Children(c)
           /\ \A z \in Children(y) : z = d => d \in Children(c)
  PROVE  /\ HoldingChildren(e, c) \subseteq {d}
         /\ Holds(e, c) => HoldingChildren(e, c) = {d}
<1>1. \A x \in Dirs \ VersionDirs[e] : HoldsDirectly(e, x) <=> x = d
  BY DEF Homes
<1>2. \A x \in Children(c) : x \in Dirs /\ x # c /\ x \notin VersionDirs[e] /\ Parent[x] = c /\ Parent[c] # x
  BY TargetsAssumption DEF Children, HoldsDirectly
<1>3. \A x, y \in Dirs : y \in Children(x) <=> Parent[y] = x
  BY DEF Children
<1>4. \A x, y \in Dirs : y \in Children(x) /\ y \in VersionDirs[e] => HoldsDirectly(e, x)
  BY DEF HoldsDirectly
<1>5. \A x \in Dirs : Children(x) \subseteq Dirs
  BY DEF Children
<1>6. ASSUME NEW x \in Children(c), NEW y \in Children(x), y = d
      PROVE  FALSE
  BY <1>2, <1>3, <1>5, <1>6
<1>7. ASSUME NEW x \in Children(c), NEW y \in Children(x), NEW z \in Children(y), z = d
      PROVE  FALSE
  <2>1. d \in Children(c)
    BY <1>7
  <2>2. y = c
    BY <1>2, <1>3, <1>5, <1>7, <2>1
  <2> QED
    BY <1>2, <1>3, <1>5, <2>2
<1>8. ASSUME NEW x \in Children(c), Holds(e, x)
      PROVE  x = d
  <2> SUFFICES ASSUME ~HoldsDirectly(e, x) PROVE FALSE
    BY <1>1, <1>2
  <2>1. PICK y \in Children(x) : y \in has[e] \/ Children(y) \cap has[e] # {}
    BY <1>8 DEF Holds
  <2>2. y \in Dirs /\ y \notin VersionDirs[e] /\ y # d
    BY <1>2, <1>4, <1>5, <1>6, <2>1
  <2>3. ~HoldsDirectly(e, y)
    BY <1>1, <2>2
  <2>4. PICK z \in Children(y) : z \in has[e]
    BY <2>1, <2>3 DEF HoldsDirectly
  <2>5. z \in Dirs /\ z \notin VersionDirs[e] /\ HoldsDirectly(e, z)
    BY <1>4, <1>5, <2>2, <2>3, <2>4 DEF HoldsDirectly
  <2> QED
    BY <1>1, <1>7, <2>1, <2>4, <2>5
<1>9. ASSUME Holds(e, c)
      PROVE  \E x \in Children(c) : HoldsDirectly(e, x)
  <2> SUFFICES ASSUME \A x \in Children(c) : ~HoldsDirectly(e, x) PROVE FALSE
    OBVIOUS
  <2>1. PICK x \in Children(c) : x \in has[e] \/ Children(x) \cap has[e] # {}
    BY <1>9 DEF Holds
  <2>2. x \notin has[e]
    BY DEF HoldsDirectly
  <2>3. PICK z \in Children(x) : z \in has[e]
    BY <2>1, <2>2
  <2>4. z \in Dirs /\ z \notin VersionDirs[e] /\ HoldsDirectly(e, z)
    BY <1>2, <1>4, <1>5, <2>1, <2>3 DEF HoldsDirectly
  <2> QED
    BY <1>1, <1>6, <2>1, <2>3, <2>4
<1>10. \A x : HoldsDirectly(e, x) => Holds(e, x)
  BY DEF Holds
<1>11. HoldingChildren(e, c) \subseteq {d}
  BY <1>8 DEF HoldingChildren
<1>12. ASSUME Holds(e, c) PROVE HoldingChildren(e, c) = {d}
  BY <1>2, <1>9, <1>10, <1>11, <1>12 DEF HoldingChildren
<1> QED
  BY <1>11, <1>12

\* A candidate that sees the one place finds it, and no candidate finds
\* another.
LEMMA FoundOnlyThere ==
  ASSUME NEW e \in AllEngines, NEW d \in Dirs, Homes(e) = {d}, NEW c \in Dirs,
         c \notin VersionDirs[e],
         \A x \in {c} \cup Children(c) : \A y \in {x} \cup Children(x) :
           d \in Children(y) => d \in {c} \cup Children(c)
  PROVE  /\ FoundAt(e, c) \subseteq {d}
         /\ d \in {c} \cup Children(c) => FoundAt(e, c) = {d}
<1>1. HoldsDirectly(e, d) /\ d \notin VersionDirs[e]
  BY DEF Homes
<1>2. Holds(e, d)
  BY <1>1 DEF Holds
<1>3. CASE HoldsDirectly(e, c)
  <2>1. c = d
    BY <1>3 DEF Homes
  <2> QED
    BY <1>2, <1>3, <2>1 DEF FoundAt, DescendsInto
<1>4. CASE ~HoldsDirectly(e, c)
  <2>1. c # d
    BY <1>1, <1>4
  <2>2. \A x \in Children(c) : \A y \in Children(x) :
          /\ y = d => d \in Children(c)
          /\ \A z \in Children(y) : z = d => d \in Children(c)
    BY <2>1
  <2>3. HoldingChildren(e, c) \subseteq {d} /\ (Holds(e, c) => HoldingChildren(e, c) = {d})
    BY <1>4, <2>2, HeldBelow
  <2>4. d \in Children(c) => d \in HoldingChildren(e, c)
    BY <1>1, <1>2 DEF HoldingChildren
  <2>5. Cardinality({d}) = 1 /\ Cardinality({}) = 0
    BY FS_Singleton, FS_EmptySet
  <2>6. HoldingChildren(e, c) = {d} => FoundAt(e, c) = {d}
    BY <1>4, <2>5 DEF FoundAt, DescendsInto
  <2>7. HoldingChildren(e, c) = {} => FoundAt(e, c) = {}
    BY <1>4, <2>3, <2>5 DEF FoundAt, DescendsInto
  <2> QED
    BY <2>1, <2>3, <2>4, <2>6, <2>7
<1> QED
  BY <1>3, <1>4

\* An engine that is in one place, in sight, is looked for there.
LEMMA HomeIsFound ==
  ASSUME HomesSettled, NEW e \in AllEngines, NEW d \in Dirs, Homes(e) = {d}, InSight(e, d),
         asked.dirs[e] = NoDir, asked.config[e] = NoDir
  PROVE  InstallDir(e) = d
<1> DEFINE looked == {Candidates[i] : i \in 1 .. 4} \ {NoDir}
<1>1. looked \subseteq Dirs
  <2>1. Repo \in Dirs /\ Parent[Repo] \in Dirs \cup {NoDir}
    BY TargetsAssumption
  <2> QED
    BY <2>1 DEF HomesSettled, Candidates
<1>2. \A c \in looked : /\ FoundAt(e, c) \subseteq {d}
                        /\ d \in {c} \cup Children(c) => FoundAt(e, c) = {d}
  <2> TAKE c \in looked
  <2>1. c \notin VersionDirs[e]
    BY DEF InSight
  <2>2. \A x \in {c} \cup Children(c) : \A y \in {x} \cup Children(x) :
          d \in Children(y) => d \in {c} \cup Children(c)
    BY DEF InSight
  <2> QED
    BY <1>1, <2>1, <2>2, FoundOnlyThere
<1>3. \E c \in looked : d \in {c} \cup Children(c)
  BY DEF InSight
<1>4. Hits(e) # {}
  BY <1>2, <1>3 DEF Hits
<1>5. First(Hits(e)) \in Hits(e)
  <2>1. \A i \in Hits(e) : i = 1 \/ i = 2 \/ i = 3 \/ i = 4
    BY SMT DEF Hits
  <2>2. \E i \in Hits(e) : \A j \in Hits(e) : i <= j
    BY <1>4, <2>1, SMT
  <2> QED
    BY <2>2 DEF First
<1>6. ASSUME NEW i \in Hits(e) PROVE FoundAt(e, Candidates[i]) = {d}
  <2>1. Candidates[i] \in looked /\ FoundAt(e, Candidates[i]) # {}
    BY DEF Hits
  <2> HIDE DEF looked
  <2> QED
    BY <1>2, <2>1
<1>7. Found(e) = {d}
  BY <1>4, <1>5, <1>6 DEF Found
<1> QED
  BY <1>7 DEF InstallDir

\* Where an engine belongs depends on its own directories and the invocation.
LEMMA SameDirsSameHome ==
  ASSUME NEW e, has'[e] = has[e], asked' = asked
  PROVE  InstallDir(e)' = InstallDir(e)
<1>1. \A d : HoldsDirectly(e, d)' = HoldsDirectly(e, d)
  BY DEF HoldsDirectly
<1>2. \A d : Holds(e, d)' = Holds(e, d)
  BY <1>1 DEF Holds
<1>3. \A d : HoldingChildren(e, d)' = HoldingChildren(e, d)
  BY <1>2 DEF HoldingChildren
<1>4. \A d : DescendsInto(e, d)' = DescendsInto(e, d)
  BY <1>1, <1>3 DEF DescendsInto
<1>5. \A d : FoundAt(e, d)' = FoundAt(e, d)
  BY <1>2, <1>4 DEF FoundAt
<1>6. Candidates' = Candidates
  BY DEF Candidates
<1>7. Hits(e)' = Hits(e)
  BY <1>5, <1>6 DEF Hits
<1>8. Found(e)' = Found(e)
  BY <1>5, <1>6, <1>7 DEF Found
<1> QED
  BY <1>8 DEF InstallDir, NewHome

LEMMA HomesSettledHolds == Spec => []HomesSettled
<1>1. Init => HomesSettled
  <2> SUFFICES ASSUME Init PROVE HomesSettled
    OBVIOUS
  <2>1. asked = NotAsked /\ pc = "idle" /\ has \in [AllEngines -> SUBSET Dirs]
    BY TargetsAssumption DEF Init
  <2> QED
    BY <2>1, TargetsAssumption DEF HomesSettled, NotAsked
<1>2. HomesSettled /\ [Next]_vars => HomesSettled'
  <2> SUFFICES ASSUME HomesSettled, [Next]_vars PROVE HomesSettled'
    OBVIOUS
  <2>1. ASSUME UNCHANGED <<asked, has>>, pc' # "install" \/ (pc = "install" /\ UNCHANGED home /\ left' \subseteq left)
        PROVE  HomesSettled'
    <3>1. \A e \in AllEngines : InstallDir(e)' = InstallDir(e)
      BY <2>1, SameDirsSameHome
    <3> QED
      BY <2>1, <3>1 DEF HomesSettled
  <2>2. CASE Refuse
    BY <2>1, <2>2 DEF Refuse, Exit, parsing
  <2>3. CASE Locate
    <3>1. /\ UNCHANGED <<asked, has>> /\ home' = [e \in AllEngines |-> InstallDir(e)]
      BY <2>3 DEF Locate, parsing
    <3> QED
      BY <3>1, SameDirsSameHome DEF HomesSettled
  <2>4. CASE Done
    BY <2>1, <2>4 DEF Done, Exit, parsing
  <2>5. ASSUME NEW request \in Requests, Invoke(request) PROVE HomesSettled'
    BY <2>5, TargetsAssumption DEF Invoke, HomesSettled
  <2>6. ASSUME NEW w \in DOMAIN Spelling, Selector(w) \/ AmbiguousSelector(w) \/ OtherWord(w)
        PROVE  HomesSettled'
    BY <2>1, <2>6 DEF Selector, AmbiguousSelector, OtherWord, Parsing, Exit, parsing
  <2>7. ASSUME NEW e \in AllEngines, Install(e) PROVE HomesSettled'
    <3>1. /\ has' = [has EXCEPT ![e] = @ \cup {home[e]}] /\ left' = left \ {e}
          /\ UNCHANGED <<asked, home, pc>>
      BY <2>7 DEF Install, parsing
    <3>2. \A f \in AllEngines \ {e} : has'[f] = has[f]
      BY <3>1 DEF HomesSettled
    <3>3. ASSUME NEW f \in AllEngines \ {e} PROVE InstallDir(f)' = InstallDir(f)
      BY <3>1, <3>2, SameDirsSameHome
    <3>4. has' = [f \in AllEngines |-> has'[f]]
      BY <3>1 DEF HomesSettled
    <3> QED
      BY <3>1, <3>3, <3>4 DEF HomesSettled
  <2>8. ASSUME NEW e \in AllEngines, TargetFails(e) \/ Abandon(e) PROVE HomesSettled'
    BY <2>1, <2>8 DEF TargetFails, Abandon, Exit, parsing
  <2>9. CASE UNCHANGED vars
    BY <2>1, <2>9 DEF vars
  <2> QED
    BY <2>2, <2>3, <2>4, <2>5, <2>6, <2>7, <2>8, <2>9 DEF Next
<1> QED
  BY <1>1, <1>2, PTL DEF Spec

\* An engine that is in one place is updated in that place, for every tree of
\* directories and every command line that leaves the place to the updater.
THEOREM OneCopyStaysOne == Spec => NoSecondCopy
<1> DEFINE Stays ==
      \A e \in AllEngines, d \in Dirs :
        /\ Install(e) /\ Homes(e) = {d} /\ InSight(e, d)
        /\ asked.dirs[e] = NoDir /\ asked.config[e] = NoDir
        => has'[e] = has[e] \cup {d}
<1>1. HomesSettled /\ [Next]_vars => [Stays]_vars
  <2> SUFFICES ASSUME HomesSettled, NEW e \in AllEngines, NEW d \in Dirs,
                      Install(e), Homes(e) = {d}, InSight(e, d),
                      asked.dirs[e] = NoDir, asked.config[e] = NoDir
               PROVE  has'[e] = has[e] \cup {d}
    OBVIOUS
  <2>1. pc = "install" /\ e \in left /\ has' = [has EXCEPT ![e] = @ \cup {home[e]}]
    BY DEF Install, Turn
  <2>2. home[e] = d
    BY <2>1, HomeIsFound DEF HomesSettled
  <2> QED
    BY <2>1, <2>2 DEF HomesSettled
<1> QED
  BY <1>1, HomesSettledHolds, PTL DEF Spec, NoSecondCopy

===============================================================================
