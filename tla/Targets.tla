------------------------------- MODULE Targets --------------------------------
(***************************************************************************)
(* From the command line of extras/update.py to the directories its        *)
(* engines are installed in: selectors, backends and versions among the    *)
(* positionals, the legacy flags, where each engine lives, and the targets *)
(* in their order.  One invocation follows another, from any directory.    *)
(***************************************************************************)
EXTENDS FiniteSets, Integers, Sequences

CONSTANTS
  Engines,       \* ALL_TARGETS, a sequence in the order of installation
  Groups,        \* TARGET_GROUPS: group name -> set of engines
  Default,       \* DEFAULT_TARGETS
  Spelling,      \* what the alias table says of a positional: see Resolve
  Dirs, Parent,  \* the directories, each under another or under NoDir
  VersionDirs,   \* per engine, directories named like one of its versions
  NoDir, Repo,   \* the checkout update.py runs from
  Requests,      \* invocations: see NotAsked
  Installs,      \* where the engines may already be
  MaxRuns

AllEngines == {Engines[i] : i \in DOMAIN Engines}

ASSUME TargetsAssumption ==
  /\ Default \subseteq AllEngines
  /\ Groups \in [DOMAIN Groups -> SUBSET AllEngines]
  /\ NoDir \notin Dirs /\ Repo \in Dirs
  /\ Parent \in [Dirs -> Dirs \cup {NoDir}]
  /\ \A d \in Dirs : Parent[d] # d /\ (Parent[d] # NoDir => Parent[Parent[d]] # d)
  /\ Installs \subseteq [AllEngines -> SUBSET Dirs]
  /\ \A has0 \in Installs, e \in AllEngines : VersionDirs[e] \subseteq has0[e]
  /\ \A request \in Requests :
       /\ request.words \in Seq(DOMAIN Spelling)
       /\ request.cwd \in Dirs /\ request.env \in Dirs \cup {NoDir}
  /\ MaxRuns \in Nat

VARIABLES
  has,       \* per engine, the directories with its stable name or a version
  pc, runs,
  asked,     \* the invocation: words, flags, directory, environment, config
  rest,      \* positionals not yet looked at
  chosen,    \* engines the selectors named so far
  swapTag,   \* a llama-swap version was recognised
  selected,  \* the targets of this run
  home,      \* per engine, where it will be installed
  left,      \* targets still to come
  outcome,   \* per target attempted: "ok" or "failed"
  status     \* the exit status

vars == <<has, pc, runs, asked, rest, chosen, swapTag, selected, home, left, outcome, status>>

parsing == <<asked, rest, chosen, swapTag>>

-----------------------------------------------------------------------------
(* Selectors *)

NotASelector == [is |-> "none", of |-> {}]
Ambiguous    == [is |-> "ambiguous", of |-> {}]
Names(s)     == [is |-> "targets", of |-> s]

\* Mutant of Resolve: an ambiguous prefix is not a selector.
ResolveLoosely(w) ==
  LET s == Spelling[w] IN
  IF s.alias # {} THEN Names(UNION {Groups[g] : g \in s.alias})
  ELSE IF s.all THEN Names(AllEngines)
  ELSE IF Cardinality(s.hits) # 1 THEN NotASelector
  ELSE Names(UNION {Groups[g] : g \in s.hits})

\* alias: the group the word spells exactly; hits: the groups some spelling of
\* which it matches, as a glob or as a prefix.  A glob's hits are groups, of
\* which those that are engines are chosen.
Resolve(w) ==
  LET s == Spelling[w] IN
  IF s.alias # {} THEN Names(UNION {Groups[g] : g \in s.alias})
  ELSE IF s.all THEN Names(AllEngines)
  ELSE IF s.hits = {} THEN NotASelector
  ELSE IF s.glob THEN Names(s.hits \cap AllEngines)
  ELSE IF Cardinality(s.hits) = 1 THEN Names(UNION {Groups[g] : g \in s.hits})
  ELSE Ambiguous

-----------------------------------------------------------------------------
(* Where an engine lives *)

Children(d) == {c \in Dirs : Parent[c] = d}

\* A version or the stable name in the directory itself.
HoldsDirectly(e, d) == d \in has[e] \/ Children(d) \cap VersionDirs[e] # {}

\* Or the stable name one or two levels down.
Holds(e, d) ==
  \/ HoldsDirectly(e, d)
  \/ \E c \in Children(d) : c \in has[e] \/ Children(c) \cap has[e] # {}

HoldingChildren(e, d) == {c \in Children(d) \ VersionDirs[e] : Holds(e, c)}

\* The engine's own subdirectory, when it has exactly one and the directory
\* itself holds nothing.
DescendsInto(e, d) ==
  IF HoldsDirectly(e, d) \/ Cardinality(HoldingChildren(e, d)) # 1 THEN {}
  ELSE HoldingChildren(e, d)

Candidates == <<asked.cwd, Repo, Parent[Repo], asked.env>>

\* Mutant of FoundAt: a directory that holds the engine somewhere is its home.
FoundAtRoot(e, d) == IF Holds(e, d) THEN {d} ELSE {}

\* Several subdirectories of the engine are warned about, and not chosen from.
FoundAt(e, d) ==
  IF DescendsInto(e, d) # {} THEN DescendsInto(e, d)
  ELSE IF Holds(e, d) THEN {d} ELSE {}

\* The candidates, by their place, where the engine is found.
Hits(e) == {i \in 1 .. 4 : Candidates[i] # NoDir /\ FoundAt(e, Candidates[i]) # {}}

First(places) == CHOOSE i \in places : \A j \in places : i <= j

Found(e) == IF Hits(e) = {} THEN {} ELSE FoundAt(e, Candidates[First(Hits(e))])

\* engines.ini's root, then $LLAMA_DIR, then the current directory.
NewHome ==
  IF asked.root # NoDir THEN asked.root ELSE IF asked.env # NoDir THEN asked.env ELSE asked.cwd

InstallDir(e) ==
  IF asked.dirs[e] # NoDir THEN asked.dirs[e]
  ELSE IF asked.config[e] # NoDir THEN asked.config[e]
  ELSE IF Found(e) # {} THEN CHOOSE d \in Found(e) : TRUE
  ELSE NewHome

-----------------------------------------------------------------------------
(* An invocation *)

Nobody == [e \in AllEngines |-> "none"]

NoHome == [e \in AllEngines |-> NoDir]

NotAsked == [words |-> <<>>, only |-> {}, skip |-> FALSE, cwd |-> Repo, env |-> NoDir,
             root |-> NoDir, config |-> NoHome, dirs |-> NoHome]

Init ==
  /\ has \in Installs
  /\ pc = "idle" /\ runs = 0 /\ asked = NotAsked
  /\ rest = <<>> /\ chosen = {} /\ swapTag = FALSE
  /\ selected = {} /\ home = NoHome /\ left = {} /\ outcome = Nobody /\ status = 0

Invoke(request) ==
  /\ pc = "idle" /\ runs < MaxRuns /\ runs' = runs + 1
  /\ asked' = request /\ rest' = request.words
  /\ chosen' = {} /\ swapTag' = FALSE
  /\ selected' = {} /\ home' = NoHome /\ left' = {} /\ outcome' = Nobody /\ status' = 0
  /\ pc' = "parse"
  /\ UNCHANGED has

Exit(code) == pc' = "idle" /\ status' = code

\* --swap-only with --cpp-only, and both with selectors.
Refuse ==
  /\ pc = "parse"
  /\ \/ Cardinality(asked.only) > 1 /\ rest = asked.words
     \/ Cardinality(asked.only) = 1 /\ rest = <<>> /\ chosen # {}
  /\ Exit(1)
  /\ UNCHANGED <<has, runs, parsing, selected, home, left, outcome>>

Parsing(w) ==
  /\ pc = "parse" /\ Cardinality(asked.only) < 2 /\ rest # <<>> /\ w = Head(rest)

Selector(w) ==
  /\ Parsing(w) /\ Resolve(w).is = "targets"
  /\ chosen' = chosen \cup Resolve(w).of /\ rest' = Tail(rest)
  /\ UNCHANGED <<has, pc, runs, asked, swapTag, selected, home, left, outcome, status>>

\* Nothing is installed when a selector could mean several engines.
AmbiguousSelector(w) ==
  /\ Parsing(w) /\ Resolve(w).is = "ambiguous" /\ Exit(1)
  /\ UNCHANGED <<has, runs, parsing, selected, home, left, outcome>>

\* A backend, llama-swap's version, or else a version of llama.cpp.
OtherWord(w) ==
  /\ Parsing(w) /\ Resolve(w).is = "none"
  /\ swapTag' = (swapTag \/ (Spelling[w].swapTag /\ asked.only # {"cpp"}))
  /\ rest' = Tail(rest)
  /\ UNCHANGED <<has, pc, runs, asked, chosen, selected, home, left, outcome, status>>

Selected ==
  IF chosen # {} THEN chosen
  ELSE IF asked.only # {} THEN asked.only
  ELSE IF asked.skip THEN {"cpp"} ELSE Default

\* The targets are taken in the order of ALL_TARGETS.
Turn(e) ==
  e \in left /\ \A i, j \in DOMAIN Engines : Engines[i] = e /\ Engines[j] \in left => i <= j

\* Every target's directory is settled before anything is downloaded.
Locate ==
  /\ pc = "parse" /\ rest = <<>> /\ Cardinality(asked.only) < 2
  /\ ~(asked.only # {} /\ chosen # {})
  /\ selected' = Selected
  /\ left' = Selected
  /\ home' = [e \in AllEngines |-> InstallDir(e)]
  /\ pc' = "install"
  /\ UNCHANGED <<has, runs, parsing, outcome, status>>

Install(e) ==
  /\ pc = "install" /\ Turn(e)
  /\ has' = [has EXCEPT ![e] = @ \cup {home[e]}]
  /\ outcome' = [outcome EXCEPT ![e] = "ok"]
  /\ left' = left \ {e}
  /\ UNCHANGED <<pc, runs, parsing, selected, home, status>>

\* Mutant of TargetFails: only the serving stack's failures count.
TargetFailsQuietly(e) ==
  /\ pc = "install" /\ Turn(e)
  /\ outcome' = [outcome EXCEPT ![e] = "failed"]
  /\ status' = IF e \in Default THEN 1 ELSE status
  /\ left' = left \ {e}
  /\ UNCHANGED <<has, pc, runs, parsing, selected, home>>

TargetFails(e) ==
  /\ pc = "install" /\ Turn(e)
  /\ outcome' = [outcome EXCEPT ![e] = "failed"]
  /\ status' = 1
  /\ left' = left \ {e}
  /\ UNCHANGED <<has, pc, runs, parsing, selected, home>>

\* The API's error is caught for the other engines, not for these two; an
\* architecture nobody builds for ends the run wherever it is met.
Abandon(e) ==
  /\ pc = "install" /\ Turn(e)
  /\ outcome' = [outcome EXCEPT ![e] = "failed"]
  /\ \/ e \in Default /\ Exit(1)
     \/ Exit(2)
  /\ UNCHANGED <<has, runs, parsing, selected, home, left>>

Done ==
  /\ pc = "install" /\ left = {} /\ Exit(status)
  /\ UNCHANGED <<has, runs, parsing, selected, home, left, outcome>>

Next ==
  \/ Refuse \/ Locate \/ Done
  \/ \E request \in Requests : Invoke(request)
  \/ \E w \in DOMAIN Spelling : Selector(w) \/ AmbiguousSelector(w) \/ OtherWord(w)
  \/ \E e \in AllEngines : Install(e) \/ TargetFails(e) \/ Abandon(e)

Spec == Init /\ [][Next]_vars

-----------------------------------------------------------------------------
(* Properties *)

\* A selector that could mean several engines installs nothing, whatever
\* stands beside it on the command line.
AmbiguityInstallsNothing ==
  (\E i \in DOMAIN asked.words :
     LET s == Spelling[asked.words[i]] IN
     s.alias = {} /\ ~s.all /\ ~s.glob /\ Cardinality(s.hits) > 1)
  => outcome = Nobody /\ (pc = "idle" => status # 0)

\* Exit status 0 means that every target of the run was brought up to date.
ZeroMeansAllDone ==
  pc = "idle" /\ runs > 0 /\ status = 0 => \A e \in selected : outcome[e] = "ok"

Homes(e) == {d \in Dirs \ VersionDirs[e] : HoldsDirectly(e, d)}

\* A directory the run looks at, or directly below one; not deeper below
\* another, and the run is not invoked from inside a version of the engine.
InSight(e, d) ==
  LET looked == {Candidates[i] : i \in 1 .. 4} \ {NoDir}
      near(c) == {c} \cup Children(c)
      below(c) == UNION {UNION {Children(y) : y \in near(x)} : x \in near(c)}
  IN
  /\ \E c \in looked : d \in near(c)
  /\ \A c \in looked : d \in below(c) => d \in near(c)
  /\ looked \cap VersionDirs[e] = {}

\* An engine that is installed in one place is updated in that place, from
\* wherever the run is invoked: no second copy beside the first.
NoSecondCopy ==
  [][\A e \in AllEngines, d \in Dirs :
       /\ Install(e) /\ Homes(e) = {d} /\ InSight(e, d)
       /\ asked.dirs[e] = NoDir /\ asked.config[e] = NoDir
       => has'[e] = has[e] \cup {d}]_vars

=============================================================================
