------------------------------ MODULE Campaign ------------------------------
(***************************************************************************)
(* Measurement campaigns (llama-packer --probe-memory): packers contend    *)
(* for the single-flight lock file, and the one that holds it starts a     *)
(* llama-server per point of the grid, waits for it, and kills it          *)
(* (llama_packer/gpu_state.py, memory_probe.py run_probe, vram.py          *)
(* _run_measure_server and _wait_ready).                                   *)
(*                                                                         *)
(* A process of Procs is one launch of the packer.  The lock file is known *)
(* by the process that created it, so an unlinked file that is still open  *)
(* is told from the file now at the path.  A child is a process group of   *)
(* its own: it outlives a packer that dies.                                *)
(***************************************************************************)
EXTENDS Integers, FiniteSets

CONSTANTS
  Procs,      \* launches of the packer
  NoProc,     \* no lock file
  Points,     \* grid points a campaign measures
  Overlap     \* whether a launch may reach the lock while another acquires it

ASSUME CampaignAssumption ==
  /\ NoProc \notin Procs
  /\ Points \in Nat \ {0}
  /\ Overlap \in BOOLEAN

VARIABLES
  lock,       \* the creator of the file at the lock's path
  written,    \* the processes whose lock file holds their pid
  at,         \* where each process is
  point,      \* the grid point each process is at
  aborting,   \* the processes unwinding from a KeyboardInterrupt
  leader,     \* the state of each process's llama-server
  kin         \* the processes whose servers left a descendant alive

lockVars  == <<lock, written>>
childVars == <<leader, kin>>
campaignVars == <<lock, written, at, point, aborting, leader, kin>>

Acquiring == {"contend", "steal", "recreate", "stamp"}
Holding   == {"point", "launch", "wait", "finally", "grace", "verify", "release"}
Running   == {"idle", "lock"} \cup Acquiring \cup Holding
Ended     == {"refused", "failed", "done", "dead"}

Up == {"loading", "hung", "listening", "stuck"}

Alive(p) == at[p] \in Running

\* llama_residents: every llama-server of the machine, whoever started it.
\* A zombie's command line no longer matches.
Residents == {q \in Procs : leader[q] \in Up}

Go(p, place) == at' = [at EXCEPT ![p] = place]

-----------------------------------------------------------------------------
(* The lock (measurement_lock) *)

\* run_probe refuses beside any resident, before it asks for the lock.
Scan(p) ==
  /\ at[p] = "idle"
  /\ Go(p, IF Residents = {} THEN "lock" ELSE "refused")
  /\ UNCHANGED <<lockVars, point, aborting, childVars>>

Create(p) == lock' = p /\ written' = written \ {p}

\* O_CREAT | O_EXCL
CreateLock(p) ==
  /\ at[p] = "lock"
  /\ Overlap \/ \A q \in Procs : at[q] \notin Acquiring
  /\ IF lock = NoProc THEN Create(p) /\ Go(p, "stamp")
     ELSE Go(p, "contend") /\ UNCHANGED lockVars
  /\ UNCHANGED <<point, aborting, childVars>>

\* The pid in the file, 0 when it is gone or not written yet.
OwnerLives == lock # NoProc /\ lock \in written /\ Alive(lock)

\* Mutant of ReadOwner: a lock is taken over without asking for its owner.
ReadOwnerTrusting(p) ==
  /\ at[p] = "contend"
  /\ Go(p, "steal")
  /\ UNCHANGED <<lockVars, point, aborting, childVars>>

\* Mutant of ReadOwner: the refusal unwinds through the release of the lock.
ReadOwnerReleases(p) ==
  /\ at[p] = "contend"
  /\ IF OwnerLives THEN Go(p, "refused") /\ lock' = NoProc ELSE Go(p, "steal") /\ lock' = lock
  /\ UNCHANGED <<written, point, aborting, childVars>>

\* Mutant of ReadOwner: a dead owner keeps its lock.
ReadOwnerAnyPid(p) ==
  /\ at[p] = "contend"
  /\ Go(p, IF lock # NoProc /\ lock \in written THEN "refused" ELSE "steal")
  /\ UNCHANGED <<lockVars, point, aborting, childVars>>

\* A live owner refuses the launch with RuntimeError.
ReadOwner(p) ==
  /\ at[p] = "contend"
  /\ Go(p, IF OwnerLives THEN "refused" ELSE "steal")
  /\ UNCHANGED <<lockVars, point, aborting, childVars>>

\* unlink removes whatever file is at the path by now.
UnlinkStale(p) ==
  /\ at[p] = "steal"
  /\ lock' = NoProc
  /\ Go(p, "recreate")
  /\ UNCHANGED <<written, point, aborting, childVars>>

\* The second O_EXCL has no handler: a file that came back ends the launch.
Recreate(p) ==
  /\ at[p] = "recreate"
  /\ IF lock = NoProc THEN Create(p) /\ Go(p, "stamp")
     ELSE Go(p, "failed") /\ UNCHANGED lockVars
  /\ UNCHANGED <<point, aborting, childVars>>

\* The pid goes to the file this process opened, wherever it is now.
StampPid(p) ==
  /\ at[p] = "stamp"
  /\ written' = written \cup {p}
  /\ Go(p, "point")
  /\ UNCHANGED <<lock, point, aborting, childVars>>

Release(p) ==
  /\ at[p] = "release"
  /\ lock' = NoProc
  /\ Go(p, "done")
  /\ UNCHANGED <<written, point, aborting, childVars>>

-----------------------------------------------------------------------------
(* One point (_run_measure_server, kill_process_group) *)

\* A point is over, measured or not; an interrupt unwinds past the others.
NextPoint(p) ==
  IF p \in aborting \/ point[p] = Points
    THEN Go(p, "release") /\ point' = point
  ELSE Go(p, "point") /\ point' = [point EXCEPT ![p] = @ + 1]

\* Mutant of Preflight: the scan before the lock is thought to be enough.
PreflightOnce(p) ==
  /\ at[p] = "point"
  /\ Go(p, "launch") /\ point' = point
  /\ UNCHANGED <<lockVars, aborting, childVars>>

\* A resident refuses the point, not the campaign.
Preflight(p) ==
  /\ at[p] = "point"
  /\ IF Residents = {} THEN Go(p, "launch") /\ point' = point ELSE NextPoint(p)
  /\ UNCHANGED <<lockVars, aborting, childVars>>

\* Popen in a session of its own, or an OSError.
StartServer(p) ==
  /\ at[p] = "launch"
  /\ \/ Go(p, "wait") /\ leader' = [leader EXCEPT ![p] = "loading"] /\ point' = point
     \/ NextPoint(p) /\ leader' = leader
  /\ UNCHANGED <<lockVars, aborting, kin>>

\* Mutant of WaitReady: no deadline and no stall window.
WaitReadyPatient(p) ==
  /\ at[p] = "wait"
  /\ leader[p] \in {"none", "exited", "listening"}
  /\ Go(p, "finally")
  /\ UNCHANGED <<lockVars, point, aborting, childVars>>

\* Any outcome leads to the same finally: the deadline may pass whatever the
\* child does, the other three are what the child shows (a leader gone, a log
\* and reads that stand still, the marker in the log).
WaitReady(p) ==
  /\ at[p] = "wait"
  /\ Go(p, "finally")
  /\ UNCHANGED <<lockVars, point, aborting, childVars>>

\* KeyboardInterrupt, in the long waits of a campaign.
Interrupt(p) ==
  /\ at[p] \in {"point", "wait"} /\ p \notin aborting
  /\ aborting' = aborting \cup {p}
  /\ Go(p, IF at[p] = "point" THEN "release" ELSE "finally")
  /\ UNCHANGED <<lockVars, point, childVars>>

\* A leader that exited by itself is reaped, and its group is left alone.
Reap(p) ==
  /\ at[p] = "finally" /\ leader[p] = "exited"
  /\ leader' = [leader EXCEPT ![p] = "none"]
  /\ NextPoint(p)
  /\ UNCHANGED <<lockVars, aborting, kin>>

\* SIGTERM to the group: either of its members may be deaf to it.
Terminate(p) ==
  /\ at[p] = "finally" /\ leader[p] # "exited"
  /\ \/ leader' = leader
     \/ leader' = [leader EXCEPT ![p] = "exited"]
  /\ kin' = kin \/ kin' = kin \ {p}
  /\ Go(p, "grace")
  /\ UNCHANGED <<lockVars, point, aborting>>

\* The wait reaps the leader: its pid is gone, and the check returns there.
LeaderGone(p) ==
  /\ at[p] = "grace" /\ leader[p] = "exited"
  /\ leader' = [leader EXCEPT ![p] = "none"]
  /\ NextPoint(p)
  /\ UNCHANGED <<lockVars, aborting, kin>>

\* SIGKILL to the group once the grace is over: the second wait reaps the
\* leader, or leaves it in uninterruptible I/O.
Escalate(p) ==
  /\ at[p] = "grace" /\ leader[p] # "exited"
  /\ kin' = kin \ {p}
  /\ \/ leader' = [leader EXCEPT ![p] = "none"] /\ NextPoint(p)
     \/ leader' = [leader EXCEPT ![p] = "stuck"] /\ Go(p, "verify") /\ point' = point
  /\ UNCHANGED <<lockVars, aborting>>

\* Reported, the group killed once more, and given up on.
GiveUp(p) ==
  /\ at[p] = "verify"
  /\ kin' = kin \ {p}
  /\ NextPoint(p)
  /\ UNCHANGED <<lockVars, aborting, leader>>

Step(p) ==
  \/ Scan(p) \/ CreateLock(p) \/ ReadOwner(p) \/ UnlinkStale(p) \/ Recreate(p)
  \/ StampPid(p) \/ Preflight(p) \/ StartServer(p) \/ WaitReady(p) \/ Reap(p)
  \/ Terminate(p) \/ LeaderGone(p) \/ Escalate(p) \/ GiveUp(p) \/ Release(p)

-----------------------------------------------------------------------------
(* What may happen to them *)

\* A packer killed outright: no finally runs, its child goes on.
Die(p) ==
  /\ Alive(p) /\ at[p] # "idle"
  /\ Go(p, "dead")
  /\ leader' = [leader EXCEPT ![p] = IF @ = "exited" THEN "none" ELSE @]
  /\ UNCHANGED <<lockVars, point, aborting, kin>>

\* The zombie of a dead packer is init's to reap.
Becomes(p, state) ==
  /\ leader' = [leader EXCEPT ![p] =
                  IF state = "exited" /\ ~Alive(p) THEN "none" ELSE state]
  /\ UNCHANGED <<lockVars, at, point, aborting, kin>>

Child(p) ==
  \/ leader[p] = "loading" /\ \E s \in {"hung", "listening"} : Becomes(p, s)
  \/ leader[p] = "hung" /\ Becomes(p, "loading")
  \/ leader[p] \in Up /\ Becomes(p, "exited")

\* A server starts a helper, and a helper ends.
Fork(p) ==
  /\ leader[p] \in Up \ {"stuck"} /\ p \notin kin
  /\ kin' = kin \cup {p}
  /\ UNCHANGED <<lockVars, at, point, aborting, leader>>

KinEnds(p) ==
  /\ p \in kin
  /\ kin' = kin \ {p}
  /\ UNCHANGED <<lockVars, at, point, aborting, leader>>

CampaignInit ==
  /\ lock = NoProc /\ written = {}
  /\ at = [p \in Procs |-> "idle"]
  /\ point = [p \in Procs |-> 1]
  /\ aborting = {}
  /\ leader = [p \in Procs |-> "none"]
  /\ kin = {}

CampaignNext ==
  \E p \in Procs : \/ Step(p) \/ Interrupt(p) \/ Die(p)
                  \/ Child(p) \/ Fork(p) \/ KinEnds(p)

CampaignSpec == CampaignInit /\ [][CampaignNext]_campaignVars

\* Every wait of the packer is bounded (_MEASURE_TIMEOUT_S, _KILL_GRACE_S), so
\* a packer that is not killed keeps stepping, whatever its child does.
FairSpec == CampaignSpec /\ \A p \in Procs : WF_campaignVars(Step(p))

-----------------------------------------------------------------------------
(* What the campaigns promise *)

CampaignTypes ==
  /\ lock \in Procs \cup {NoProc}
  /\ written \subseteq Procs
  /\ at \in [Procs -> Running \cup Ended]
  /\ point \in [Procs -> 1 .. Points]
  /\ aborting \subseteq Procs
  /\ leader \in [Procs -> Up \cup {"none", "exited"}]
  /\ kin \subseteq Procs

\* At most one live campaign is past its lock ("two concurrent measurement
\* campaigns would contend for the GPU", measurement_lock), crashed owners and
\* stolen locks included.
SingleFlight ==
  \A p, q \in Procs : at[p] \in Holding /\ at[q] \in Holding => p = q

\* No server a live campaign waits for shares the card with another server,
\* be it a crashed packer's: the lock keeps the living out, the preflight of
\* every point sees what the dead left behind.
ExclusiveMeasurement ==
  \A p, q \in Procs :
    at[p] = "wait" /\ leader[p] \in Up /\ leader[q] \in Up => p = q

\* And with nothing of its group alive, when the leader is dead ("the whole
\* process group dies, so a server's children cannot outlive it",
\* tests/test_gpu_state.py).
GroupGone ==
  \A p \in Procs :
    at[p] \in {"point", "release", "done"} /\ leader[p] = "none" => p \notin kin

\* The lock file of a live campaign leaves its path only by its own release.
LockKept ==
  [][\A p \in Procs :
       at[p] \in Holding \ {"release"} /\ lock = p => lock' = p]_campaignVars

\* A launch ends, whatever its servers do, unless it is never run at all.
LaunchEnds == \A p \in Procs : at[p] = "lock" ~> at[p] \in Ended

\* A crashed owner does not wedge the tool ("crashed runs must not wedge the
\* tool forever"): a launch that meets its lock clears it, or dies trying.
StaleLockFalls ==
  \A p, q \in Procs :
    (at[p] = "contend" /\ lock = q /\ at[q] = "dead")
      ~> (lock # q \/ at[p] = "dead")

=============================================================================
