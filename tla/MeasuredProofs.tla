---------------------------- MODULE MeasuredProofs ----------------------------
(***************************************************************************)
(* What becomes of measurements (Derived, for any cache types, flags and   *)
(* number of replaced weight files) and of the campaigns that take them    *)
(* (Campaign, for any number of launches and points, when no launch        *)
(* reaches the lock while another acquires it).                            *)
(*                                                                         *)
(* ServedAsAsked is not inductive: a launch trusts the stamps of a block   *)
(* an earlier launch left, so the invariant says that every block, on disk *)
(* or in memory, is stamped with what was measured (Honest), and that the  *)
(* block about to be renamed over the sidecar is the one in memory.        *)
(*                                                                         *)
(* The campaigns' invariant says what the lock is worth at each place:     *)
(* past it, the file at the path is the holder's and carries its pid; a    *)
(* thief on its way to a new file is alone; and from the preflight of a    *)
(* point to the end of its kill, the holder's server is the only one.      *)
(***************************************************************************)
EXTENDS Campaign, Derived, TLAPS

Persisting == {"open", "write", "replace"}

\* The stamps tell what was measured.
Honest(b) == b.params # None =>
  b.params.at = b.params.type /\ b.params.under = b.params.shape

\* Whatever is written was whole in memory, and no dry run writes.
Writing ==
  /\ pc = "replace" => tmp = mem
  /\ pc \in Persisting => ~ask.dry

Serves == served # None => served.at = ask.type /\ served.under = ask.shape

\* A launch whose writes succeed answers from what the sidecar holds, and
\* leaves there what it served.
Follows ==
  /\ pc = "sync" /\ disk # Torn => disk = mem
  /\ pc \in {"grid", "blind", "lawful", "lawless"} => ask.mode = "probe"
  /\ pc \in {"ask", "trio", "fast"} /\ ~ask.dry /\ writable /\ disk # Torn =>
       disk = mem
  /\ pc \in Persisting /\ after = "done" /\ ask.mode # "probe" =>
       mem.key = "derived" /\ mem.params = served

\* The sidecar holds a probe's measurement of what the launch asks for, of
\* these weights or of earlier ones.
Trusted ==
  /\ FromServer(disk) /\ ask.mode # "remeasure"
  /\ ask.type = disk.params.type /\ ask.shape = disk.params.shape

\* From discovery to the answer memory has the sidecar's measurement, and what
\* is then written over a trusted one is a probe's as well.
Tracks ==
  /\ pc \in {"sync", "ask"} \/ (pc \in Persisting /\ after = "ask") =>
       (disk # Torn /\ disk.key = "derived" => mem.key = "derived" /\ mem.params = disk.params)
  /\ pc = "trio" => ~Trusted
  /\ pc \in Persisting /\ after = "done" => (Trusted => FromServer(mem))

IInv ==
  /\ TypeOK
  /\ disk # Torn => Honest(disk)
  /\ Honest(mem)
  /\ Writing /\ Serves /\ Follows /\ Tracks

-----------------------------------------------------------------------------
(* The invariant holds at first and every action keeps it *)

\* The initial states satisfy the invariant.
LEMMA InitInv == Init => IInv
<1> SUFFICES ASSUME Init PROVE IInv
  OBVIOUS
<1>1. disk \in Block /\ disk # Torn /\ Honest(disk) /\ NoBlock \in Block
  <2>1. NoBlock \in Block /\ Honest(NoBlock)
    BY DerivedAssumption DEF NoBlock, Block, Honest
  <2>2. ASSUME NEW b \in Legacy PROVE b \in Block /\ Honest(b)
    BY DerivedAssumption DEF Legacy, Block, Params, Sources, Versions, Honest
  <2> QED
    BY <2>1, <2>2, DerivedAssumption DEF Init
<1>2. TypeOK
  BY <1>1, DerivedAssumption DEF Init, TypeOK, Asks, Modes, Over, Versions
<1>3. Honest(mem) /\ pc = "off" /\ served = None
  BY DEF Init, Honest, NoBlock
<1> QED
  BY <1>1, <1>2, <1>3
  DEF IInv, Writing, Serves, Follows, Tracks, Persisting

\* A launch starts without a memory of the last one.
LEMMA LaunchKeeps == IInv /\ Launch => IInv'
  BY DerivedAssumption
  DEF Launch, world, IInv, TypeOK, Honest, Writing, Serves, Follows, Tracks,
         Persisting, NoBlock, Block, Asks, Over, Versions

\* Memory is the sidecar's block.
LEMMA LoadKeeps == IInv /\ Load => IInv'
  BY DerivedAssumption
  DEF Load, world, IInv, TypeOK, Honest, Writing, Serves, Follows, Tracks,
      Persisting, NoBlock, Block, Over, Versions

\* A new file: leaves the measurement as it was.
LEMMA SyncKeeps == IInv /\ Sync => IInv'
<1> SUFFICES ASSUME IInv, Sync PROVE IInv'
  OBVIOUS
<1>1. mem' \in Block /\ Honest(mem)'
  <2>1. CASE mem.file = weights
    BY <2>1 DEF Sync, IInv, TypeOK, Honest
  <2>2. CASE mem.file # weights
    BY <2>2, DerivedAssumption DEF Sync, IInv, TypeOK, Honest, Block, Versions
  <2> QED
    BY <2>1, <2>2
<1>2. TypeOK'
  BY <1>1 DEF Sync, Save, world, IInv, TypeOK, Over
<1>3. mem.key = "derived" => mem'.key = "derived" /\ mem'.params = mem.params
  BY DEF Sync
<1>4. Tracks'
  BY <1>3 DEF Sync, Save, world, IInv, Tracks, Persisting
<1>5. Follows'
  BY DEF Sync, Save, world, IInv, Follows, Persisting
<1> QED
  BY <1>1, <1>2, <1>4, <1>5
  DEF Sync, Save, world, IInv, Honest, Writing, Serves, Persisting

\* The saved block answers, moved under derived: if it was elsewhere.
LEMMA AnswerKeeps == IInv /\ Answer => IInv'
  BY DerivedAssumption
  DEF Answer, Saved, Reusable, Merge, Save, world, IInv, TypeOK, Honest,
         Writing, Serves, Follows, Tracks, Trusted, FromServer, Persisting, Block,
         Over, Versions

\* A new compute term is stamped with the flags it was measured under.
LEMMA RecomputeKeeps == IInv /\ Recompute => IInv'
<1> SUFFICES ASSUME IInv, Recompute PROVE IInv'
  OBVIOUS
<1>1. CASE pc' = "trio" /\ UNCHANGED <<after, mem, served>>
  BY <1>1
  DEF Recompute, Saved, Reusable, world, IInv, TypeOK, Honest, Writing, Serves,
      Follows, Tracks, Trusted, FromServer, Persisting, Over
<1>2. CASE Keep([mem.params EXCEPT !.under = ask.shape, !.shape = ask.shape])
  <2> DEFINE new == [mem.params EXCEPT !.under = ask.shape, !.shape = ask.shape]
  <2>1. mem.params \in Params
    BY DEF Recompute, Reusable, IInv, TypeOK, Block
  <2>2. new \in Params
    BY <2>1 DEF Params, IInv, TypeOK, Asks
  <2>3. /\ new.at = ask.type /\ new.type = ask.type
        /\ new.under = ask.shape /\ new.shape = ask.shape
        /\ new.source = mem.params.source
    BY <2>1 DEF Params, Recompute, Reusable, IInv, Honest
  <2>4. mem' = Merge(new) /\ served' = new
    BY <1>2 DEF Keep
  <2> HIDE DEF new
  <2>5. Merge(new) \in Block /\ Merge(new).params = new /\ Merge(new).key = "derived"
    BY <2>2, DerivedAssumption DEF Merge, Block, IInv, TypeOK
  <2> QED
    BY <1>2, <2>2, <2>3, <2>4, <2>5
    DEF Recompute, Keep, Saved, Reusable, Save, world, IInv, TypeOK, Honest,
        Writing, Serves, Follows, Tracks, Trusted, FromServer, Persisting, Over
<1> QED
  BY <1>1, <1>2 DEF Recompute

\* An estimate is stamped with what was asked for and measured.
LEMMA TrioKeeps == IInv /\ Trio => IInv'
  BY DerivedAssumption
  DEF Trio, Keep, Measured, Reusable, Merge, Save, world, IInv, TypeOK, Honest,
         Writing, Serves, Follows, Tracks, Trusted, FromServer, Persisting, Block,
         Params, Sources, Asks, Over, Versions

\* A transient estimate touches no block.
LEMMA FastKeeps == IInv /\ Fast => IInv'
  BY DEF Fast, Measured, world, IInv, TypeOK, Honest, Writing, Serves, Follows,
         Tracks, Persisting, Params, Asks, Over, Versions

\* A probe's measurement is stamped like an estimate.
LEMMA FileKeeps == IInv /\ File => IInv'
<1> SUFFICES ASSUME IInv, File PROVE IInv'
  OBVIOUS
<1>1. CASE kind # "baked"
  BY <1>1
  DEF File, world, IInv, TypeOK, Honest, Writing, Serves, Follows, Tracks,
      Trusted, FromServer, Persisting, Over
<1>2. CASE kind = "baked"
  <2> DEFINE new == Measured("llama-server")
  <2>1. new \in Params
    BY DEF Measured, Params, Sources, IInv, TypeOK, Asks
  <2>2. new.at = new.type /\ new.under = new.shape /\ new.source = "llama-server"
    BY DEF Measured
  <2>3. mem' = Merge(new)
    BY <1>2 DEF File
  <2> HIDE DEF new
  <2>4. Merge(new) \in Block /\ Merge(new).params = new /\ Merge(new).key = "derived"
    BY <2>1, DerivedAssumption DEF Merge, Block, IInv, TypeOK
  <2> QED
    BY <1>2, <2>1, <2>2, <2>3, <2>4, DerivedAssumption
    DEF File, Save, world, IInv, TypeOK, Honest, Writing, Serves, Follows, Tracks,
        Trusted, FromServer, Persisting, Over
<1> QED
  BY <1>1, <1>2

\* The other steps of a probe only move on.
LEMMA ProbeKeeps == IInv /\ (Estimate \/ Grid \/ Reject) => IInv'
  BY DEF Estimate, Grid, Reject, world, IInv, TypeOK, Honest, Writing, Serves,
         Follows, Tracks, Trusted, FromServer, Persisting, Over
\* Nothing but the temporary file is written before the rename.
LEMMA WriteKeeps == IInv /\ (Open \/ Write) => IInv'
  BY DEF Open, Write, world, IInv, TypeOK, Honest, Writing, Serves, Follows, Tracks,
         Trusted, FromServer, Persisting, Over

\* The rename puts memory's block, whole, in the sidecar's place.
LEMMA ReplaceKeeps == IInv /\ Replace => IInv'
  BY DerivedAssumption
  DEF Replace, world, IInv, TypeOK, Honest, Writing, Serves, Follows, Tracks,
      Trusted, FromServer, Persisting, Over

\* A crash or an edit leaves nothing of the launch but its files.
LEMMA AroundKeeps == IInv /\ (Crash \/ Swap \/ Reconfigure \/ Clear) => IInv'
  BY DerivedAssumption
  DEF Crash, Swap, Reconfigure, Clear, Forget, NoBlock, Block, Versions, world,
      IInv, TypeOK, Honest, Writing, Serves, Follows, Tracks, Persisting, Over

LEMMA NextKeeps == IInv /\ [Next]_vars => IInv'
<1>1. IInv /\ UNCHANGED vars => IInv'
  BY DEF vars, IInv, TypeOK, Honest, Writing, Serves, Follows, Tracks, Trusted,
         FromServer
<1> QED
  BY <1>1, LaunchKeeps, LoadKeeps, SyncKeeps, AnswerKeeps, RecomputeKeeps, TrioKeeps,
     FastKeeps, FileKeeps, ProbeKeeps, WriteKeeps, ReplaceKeeps, AroundKeeps
  DEF Next, Work

-----------------------------------------------------------------------------
(* The theorems *)

\* Every reachable state satisfies the invariant.
THEOREM Inductive == Spec => []IInv
  BY InitInv, NextKeeps, PTL DEF Spec

\* Every variable keeps its type.
THEOREM TypeCorrect == Spec => []TypeOK
<1>1. IInv => TypeOK
  BY DEF IInv
<1> QED
  BY <1>1, Inductive, PTL

\* What a launch sizes with was measured at the cache type and under the flags
\* it asked for, after any history of launches, edits and crashes.
THEOREM MeasuredAsAsked == Spec => []ServedAsAsked
<1>1. IInv => ServedAsAsked
  BY DEF IInv, Serves, ServedAsAsked
<1> QED
  BY <1>1, Inductive, PTL

\* No step and no crash of a launch tears the operator's sidecar.
THEOREM SidecarSurvives == Spec => SidecarWhole
<1>1. IInv /\ [Next]_vars => (pc \notin Over /\ disk # Torn => disk' # Torn)
  <2>1. ASSUME IInv, Replace PROVE disk' # Torn
    BY <2>1, DerivedAssumption DEF Replace, IInv, TypeOK, Writing
  <2> QED
    BY <2>1 DEF Next, Work, Launch, Load, Sync, Answer, Recompute, Trio, Fast,
         Estimate, Grid, File, Reject, Open, Write, Crash, Swap, Reconfigure, Clear,
         world, vars
<1> QED
  BY <1>1, Inductive, PTL DEF Spec, SidecarWhole

\* No step of a dry run writes the sidecar or the file beside it.
THEOREM DryRunsRead == Spec => DryRunReadOnly
<1>1. IInv /\ [Next]_vars => (pc \notin Over /\ ask.dry => UNCHANGED <<disk, tmp>>)
  BY DEF IInv, Writing, Persisting, Next, Work, Launch, Load, Sync, Answer,
         Recompute, Trio, Fast, Estimate, Grid, File, Reject, Open, Write, Replace,
         Crash, Swap, Reconfigure, Clear, world, vars
<1> QED
  BY <1>1, Inductive, PTL DEF Spec, DryRunReadOnly

\* What a launch serves is what it leaves for the next one to read.
THEOREM ServedIsKept == Spec => LaterRunsPayNothing
<1> DEFINE Kept ==
      /\ pc \notin Over /\ pc' = "done" /\ ask.mode # "probe" /\ ~ask.dry
      /\ writable /\ disk # Torn /\ served' # None /\ served'.source # "fit-params"
      => disk' # Torn /\ disk'.key = "derived" /\ disk'.params = served'
<1>1. IInv /\ Answer => Kept
  BY DEF IInv, Writing, Follows, Persisting, Answer, Save
<1>2. IInv /\ (Recompute \/ Trio) => Kept
  BY DEF Recompute, Trio, Keep, Save
<1>3. IInv /\ Fast => Kept
  BY DEF Fast, Measured
<1>4. IInv /\ (Open \/ Write) => Kept
  BY DEF IInv, Writing, Follows, Persisting, Open, Write
<1>5. IInv /\ Replace => Kept
  BY DerivedAssumption DEF IInv, TypeOK, Writing, Follows, Persisting, Replace
<1>6. IInv /\ (Launch \/ Load \/ Sync \/ Estimate) => Kept
  BY DEF Launch, Load, Sync, Save, Estimate
<1>7. IInv /\ (Grid \/ File \/ Reject) => Kept
  BY DEF IInv, Follows, Grid, File, Save, Reject
<1>8. IInv /\ (Crash \/ Swap \/ Reconfigure \/ Clear \/ UNCHANGED vars) => Kept
  BY DEF Crash, Swap, Reconfigure, Clear, Forget, Over, vars
<1>9. IInv /\ [Next]_vars => Kept
  BY <1>1, <1>2, <1>3, <1>4, <1>5, <1>6, <1>7, <1>8 DEF Next, Work
<1> QED
  BY <1>9, Inductive, PTL DEF Spec, LaterRunsPayNothing

\* A probe's measurement of the present weights outlives every launch that asks
\* for what it measured.
THEOREM ProbesAreTrusted == Spec => ServerTruthSurvives
<1>1. IInv /\ [Next]_vars =>
        (/\ pc \notin Over /\ FromServer(disk) /\ ask.mode # "remeasure"
         /\ disk.params.of = weights
         /\ ask.type = disk.params.type /\ ask.shape = disk.params.shape
         => FromServer(disk'))
  <2>1. ASSUME IInv, Next, pc \notin Over, disk' # disk PROVE Replace
    BY <2>1 DEF Next, Work, Launch, Load, Sync, Answer, Recompute, Trio, Fast,
         Estimate, Grid, File, Reject, Open, Write, Crash, Swap, Reconfigure, Clear,
         world
  <2>2. ASSUME IInv, Replace, Trusted PROVE FromServer(disk')
    BY <2>2, DerivedAssumption
    DEF Replace, IInv, TypeOK, Writing, Tracks, Trusted, FromServer, Persisting
  <2> QED
    BY <2>1, <2>2 DEF Trusted, FromServer, vars
<1> QED
  BY <1>1, Inductive, PTL DEF Spec, ServerTruthSurvives

-----------------------------------------------------------------------------
(* The campaigns that measure *)

Held == \A p \in Procs : at[p] \in Holding => lock = p /\ p \in written

Stamping == \A p \in Procs : at[p] = "stamp" => lock = p

OneAcquirer ==
  \A p, q \in Procs : at[p] \in Acquiring /\ at[q] \in Acquiring => p = q

ThiefAlone ==
  \A p, q \in Procs : at[p] \in {"steal", "recreate"} => at[q] \notin Holding

Attended == {"wait", "finally", "grace", "verify"}

CardClear ==
  \A p, q \in Procs :
    /\ at[p] = "launch" => leader[q] \notin Up
    /\ at[p] \in Attended /\ leader[q] \in Up => p = q

LockInv == CampaignTypes /\ Held /\ Stamping /\ OneAcquirer /\ ThiefAlone /\ CardClear

-----------------------------------------------------------------------------
(* The acquisition *)

LEMMA ScanKeeps ==
  ASSUME LockInv, NEW p \in Procs, Scan(p)
  PROVE  LockInv'
  BY DEF LockInv, CampaignTypes, Held, Stamping, OneAcquirer, ThiefAlone, CardClear,
         Attended, Go, lockVars, childVars, Running, Ended, Holding, Acquiring,
         Up, Scan

\* The only step that needs the launches spaced: it lets one process in.
LEMMA CreateLockKeeps ==
  ASSUME LockInv, NEW p \in Procs, CreateLock(p), ~Overlap
  PROVE  LockInv'
  BY CampaignAssumption DEF LockInv, CampaignTypes, Held, Stamping, OneAcquirer, ThiefAlone, CardClear,
         Attended, Go, lockVars, childVars, Running, Ended, Holding, Acquiring,
         Up, CreateLock, Create

\* A thief found no live owner, so nobody holds the lock.
LEMMA ReadOwnerKeeps ==
  ASSUME LockInv, NEW p \in Procs, ReadOwner(p)
  PROVE  LockInv'
  BY CampaignAssumption DEF LockInv, CampaignTypes, Held, Stamping, OneAcquirer, ThiefAlone, CardClear,
         Attended, Go, lockVars, childVars, Running, Ended, Holding, Acquiring,
         Up, ReadOwner, OwnerLives, Alive

LEMMA UnlinkStaleKeeps ==
  ASSUME LockInv, NEW p \in Procs, UnlinkStale(p)
  PROVE  LockInv'
  BY DEF LockInv, CampaignTypes, Held, Stamping, OneAcquirer, ThiefAlone, CardClear,
         Attended, Go, lockVars, childVars, Running, Ended, Holding, Acquiring,
         Up, UnlinkStale

LEMMA RecreateKeeps ==
  ASSUME LockInv, NEW p \in Procs, Recreate(p)
  PROVE  LockInv'
  BY CampaignAssumption DEF LockInv, CampaignTypes, Held, Stamping, OneAcquirer, ThiefAlone, CardClear,
         Attended, Go, lockVars, childVars, Running, Ended, Holding, Acquiring,
         Up, Recreate, Create

LEMMA StampPidKeeps ==
  ASSUME LockInv, NEW p \in Procs, StampPid(p)
  PROVE  LockInv'
  BY DEF LockInv, CampaignTypes, Held, Stamping, OneAcquirer, ThiefAlone, CardClear,
         Attended, Go, lockVars, childVars, Running, Ended, Holding, Acquiring,
         Up, StampPid

LEMMA ReleaseKeeps ==
  ASSUME LockInv, NEW p \in Procs, Release(p)
  PROVE  LockInv'
  BY CampaignAssumption DEF LockInv, CampaignTypes, Held, Stamping, OneAcquirer, ThiefAlone, CardClear,
         Attended, Go, lockVars, childVars, Running, Ended, Holding, Acquiring,
         Up, Release

-----------------------------------------------------------------------------
(* A point *)

\* The scan that makes CardClear true.
LEMMA PreflightKeeps ==
  ASSUME LockInv, NEW p \in Procs, Preflight(p)
  PROVE  LockInv'
  BY CampaignAssumption DEF LockInv, CampaignTypes, Held, Stamping, OneAcquirer, ThiefAlone, CardClear,
         Attended, Go, lockVars, childVars, Running, Ended, Holding, Acquiring,
         Up, Preflight, NextPoint, Residents

LEMMA ServerKeeps ==
  ASSUME LockInv, NEW p \in Procs, StartServer(p)
  PROVE  LockInv'
  BY CampaignAssumption DEF LockInv, CampaignTypes, Held, Stamping, OneAcquirer, ThiefAlone, CardClear,
         Attended, Go, lockVars, childVars, Running, Ended, Holding, Acquiring,
         Up, StartServer, NextPoint

LEMMA ReapKeeps ==
  ASSUME LockInv, NEW p \in Procs, Reap(p)
  PROVE  LockInv'
  BY CampaignAssumption DEF LockInv, CampaignTypes, Held, Stamping, OneAcquirer, ThiefAlone, CardClear,
         Attended, Go, lockVars, childVars, Running, Ended, Holding, Acquiring,
         Up, Reap, NextPoint

LEMMA LeaderGoneKeeps ==
  ASSUME LockInv, NEW p \in Procs, LeaderGone(p)
  PROVE  LockInv'
  BY CampaignAssumption DEF LockInv, CampaignTypes, Held, Stamping, OneAcquirer, ThiefAlone, CardClear,
         Attended, Go, lockVars, childVars, Running, Ended, Holding, Acquiring,
         Up, LeaderGone, NextPoint

LEMMA EscalateKeeps ==
  ASSUME LockInv, NEW p \in Procs, Escalate(p)
  PROVE  LockInv'
  BY CampaignAssumption DEF LockInv, CampaignTypes, Held, Stamping, OneAcquirer, ThiefAlone, CardClear,
         Attended, Go, lockVars, childVars, Running, Ended, Holding, Acquiring,
         Up, Escalate, NextPoint

LEMMA GiveUpKeeps ==
  ASSUME LockInv, NEW p \in Procs, GiveUp(p)
  PROVE  LockInv'
  BY CampaignAssumption DEF LockInv, CampaignTypes, Held, Stamping, OneAcquirer, ThiefAlone, CardClear,
         Attended, Go, lockVars, childVars, Running, Ended, Holding, Acquiring,
         Up, GiveUp, NextPoint

LEMMA WaitReadyKeeps ==
  ASSUME LockInv, NEW p \in Procs, WaitReady(p)
  PROVE  LockInv'
  BY DEF LockInv, CampaignTypes, Held, Stamping, OneAcquirer, ThiefAlone, CardClear,
         Attended, Go, lockVars, childVars, Running, Ended, Holding, Acquiring,
         Up, WaitReady

LEMMA TerminateKeeps ==
  ASSUME LockInv, NEW p \in Procs, Terminate(p)
  PROVE  LockInv'
  BY DEF LockInv, CampaignTypes, Held, Stamping, OneAcquirer, ThiefAlone, CardClear,
         Attended, Go, lockVars, childVars, Running, Ended, Holding, Acquiring,
         Up, Terminate

-----------------------------------------------------------------------------
(* What may happen to them *)

LEMMA InterruptKeeps ==
  ASSUME LockInv, NEW p \in Procs, Interrupt(p)
  PROVE  LockInv'
  BY DEF LockInv, CampaignTypes, Held, Stamping, OneAcquirer, ThiefAlone, CardClear,
         Attended, Go, lockVars, childVars, Running, Ended, Holding, Acquiring,
         Up, Interrupt

LEMMA DieKeeps ==
  ASSUME LockInv, NEW p \in Procs, Die(p)
  PROVE  LockInv'
  BY DEF LockInv, CampaignTypes, Held, Stamping, OneAcquirer, ThiefAlone, CardClear,
         Attended, Go, lockVars, childVars, Running, Ended, Holding, Acquiring,
         Up, Die, Alive

LEMMA ChildKeeps ==
  ASSUME LockInv, NEW p \in Procs, Child(p)
  PROVE  LockInv'
  BY DEF LockInv, CampaignTypes, Held, Stamping, OneAcquirer, ThiefAlone, CardClear,
         Attended, Go, lockVars, childVars, Running, Ended, Holding, Acquiring,
         Up, Child, Becomes, Alive

LEMMA KinKeeps ==
  ASSUME LockInv, NEW p \in Procs, Fork(p) \/ KinEnds(p)
  PROVE  LockInv'
  BY DEF LockInv, CampaignTypes, Held, Stamping, OneAcquirer, ThiefAlone, CardClear,
         Attended, Go, lockVars, childVars, Running, Ended, Holding, Acquiring,
         Up, Fork, KinEnds

-----------------------------------------------------------------------------
(* The invariant, and what follows *)

LEMMA InitHolds ==
  ASSUME CampaignInit
  PROVE  LockInv
  BY CampaignAssumption
     DEF CampaignInit, LockInv, CampaignTypes, Held, Stamping, OneAcquirer, ThiefAlone, CardClear,
         Attended, Running, Ended, Holding, Acquiring, Up

LEMMA StepKeeps ==
  ASSUME ~Overlap, LockInv, [CampaignNext]_campaignVars
  PROVE  LockInv'
<1>1. CASE CampaignNext
  <2>1. PICK p \in Procs : \/ Step(p) \/ Interrupt(p) \/ Die(p)
                           \/ Child(p) \/ Fork(p) \/ KinEnds(p)
    BY <1>1 DEF CampaignNext
  <2>2. CASE Step(p)
    BY <2>2, ScanKeeps, CreateLockKeeps, ReadOwnerKeeps, UnlinkStaleKeeps,
       RecreateKeeps, StampPidKeeps, PreflightKeeps, ServerKeeps,
       WaitReadyKeeps, ReapKeeps, TerminateKeeps, LeaderGoneKeeps,
       EscalateKeeps, GiveUpKeeps, ReleaseKeeps DEF Step
  <2> QED
    BY <2>1, <2>2, InterruptKeeps, DieKeeps, ChildKeeps, KinKeeps
<1>2. CASE UNCHANGED campaignVars
  BY <1>2 DEF campaignVars, LockInv, CampaignTypes, Held, Stamping, OneAcquirer, ThiefAlone,
              CardClear
<1> QED
  BY <1>1, <1>2

\* With the launches spaced, what the lock and the preflight are worth at each
\* place of a campaign, for any number of launches, crashes and interrupts.
THEOREM LockInductive ==
  ASSUME ~Overlap
  PROVE  CampaignSpec => []LockInv
<1>1. CampaignInit => LockInv
  BY InitHolds
<1>2. LockInv /\ [CampaignNext]_campaignVars => LockInv'
  BY StepKeeps
<1> QED
  BY <1>1, <1>2, PTL DEF CampaignSpec

\* measurement_lock is single flight: no two live campaigns are past it.
THEOREM OneCampaign ==
  ASSUME ~Overlap
  PROVE  CampaignSpec => []SingleFlight
<1>1. LockInv => SingleFlight
  BY DEF LockInv, Held, SingleFlight
<1> QED
  BY <1>1, LockInductive, PTL

\* And no server it waits for shares the card with another one, orphans of
\* crashed packers included.
THEOREM MeasuresAlone ==
  ASSUME ~Overlap
  PROVE  CampaignSpec => []ExclusiveMeasurement
<1>1. LockInv => ExclusiveMeasurement
  BY DEF LockInv, CardClear, Attended, ExclusiveMeasurement
<1> QED
  BY <1>1, LockInductive, PTL

\* Nobody but its holder takes the lock file of a live campaign off its path.
THEOREM HolderKeepsLock ==
  ASSUME ~Overlap
  PROVE  CampaignSpec => LockKept
<1>1. LockInv /\ [CampaignNext]_campaignVars =>
        [\A p \in Procs :
           at[p] \in Holding \ {"release"} /\ lock = p => lock' = p]_campaignVars
  <2> SUFFICES ASSUME LockInv, CampaignNext, NEW p \in Procs,
                      at[p] \in Holding \ {"release"}, lock = p
               PROVE  lock' = p
    BY DEF campaignVars
  <2>1. PICK q \in Procs : \/ Step(q) \/ Interrupt(q) \/ Die(q)
                           \/ Child(q) \/ Fork(q) \/ KinEnds(q)
    BY DEF CampaignNext
  <2>2. p # NoProc
    BY CampaignAssumption
  <2>3. CASE CreateLock(q) \/ Recreate(q)
    BY <2>2, <2>3 DEF CreateLock, Recreate, Create, lockVars
  <2>4. CASE UnlinkStale(q)
    BY <2>4 DEF UnlinkStale, LockInv, ThiefAlone
  <2>5. CASE Release(q)
    BY <2>5 DEF Release, LockInv, Held, Holding
  <2>6. CASE lock' = lock
    BY <2>6
  <2>7. \/ CreateLock(q) \/ Recreate(q) \/ UnlinkStale(q) \/ Release(q)
        \/ lock' = lock
    BY <2>1 DEF Step, Scan, ReadOwner, StampPid, Preflight, StartServer, WaitReady,
                Reap, Terminate, LeaderGone, Escalate, GiveUp, Interrupt,
                Die, Child, Becomes, Fork, KinEnds, lockVars
  <2> QED
    BY <2>3, <2>4, <2>5, <2>6, <2>7
<1> QED
  BY <1>1, LockInductive, PTL DEF CampaignSpec, LockKept
=============================================================================
