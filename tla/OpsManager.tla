----------------------------- MODULE OpsManager -----------------------------
(***************************************************************************)
(* The deploy daemon (chat-service/internal/ops/manager.go, started by     *)
(* cmd/ops): it replaces the running chat server by a downloaded build,    *)
(* rolls back when the new build is not healthy, and relaunches the last   *)
(* deployed build after a restart of its own.                              *)
(*                                                                         *)
(* deployMu serializes Deploy, Resume and Bootstrap, so the daemon has one *)
(* program counter.  Beside it run the server processes, which all bind    *)
(* the same ports, and crashes of a server or of the daemon.  The builds'  *)
(* files and state.json survive a crash of the daemon; its children do not *)
(* (the systemd unit says KillMode=control-group).                         *)
(***************************************************************************)
EXTENDS Integers

CONSTANTS
  Versions,        \* build versions; a binary's path is derived from its version
  Initial,         \* OPS_INITIAL_VERSION
  NoVersion,       \* no state.json, or no state in memory
  TornRecord,            \* a state.json that does not parse
  Procs, NoProc,   \* process slots, and the nil runningProcess
  MaxDeploys, MaxCrashes, MaxOpsCrashes, MaxLaunchErrors, MaxSaveErrors  \* bounds

ASSUME OpsAssumption ==
  /\ Initial \in Versions
  /\ NoVersion \notin Versions /\ TornRecord \notin Versions /\ NoVersion # TornRecord
  /\ NoProc \notin Procs
  /\ {MaxDeploys, MaxCrashes, MaxOpsCrashes, MaxLaunchErrors, MaxSaveErrors} \subseteq Nat

VARIABLES
  \* --- on disk -----------------------------------------------------------
  bin,       \* the file of each version: absent, partial or complete
  record,    \* the version state.json names, Torn, or NoVersion
  \* --- the operating system ----------------------------------------------
  st,        \* each process: gone, starting, up, stopping (SIGTERM), killed
  ver,       \* the build it runs
  port,      \* the process bound to the ports
  \* --- the daemon --------------------------------------------------------
  opsPc, task,  \* where it is, and in which of Deploy, Resume and Bootstrap
  target,    \* the version being brought up
  current,   \* m.current
  previous, new,  \* Deploy's locals
  mem,       \* m.state, served by GET /version
  \* --- history and bounds ------------------------------------------------
  reply,     \* what the last POST /deploy was answered
  repeated,  \* whether a version was deployed twice, or the Initial one was
  used,      \* versions deployed so far
  opsFaults     \* how often each bounded fault happened

disk == <<bin, record>>
os == <<st, ver, port>>
daemon == <<opsPc, task, target, current, previous, new, mem>>
opsHistory == <<reply, used, repeated>>
opsVars == <<disk, os, daemon, opsHistory, opsFaults>>

Alive == {"starting", "up", "stopping"}

OpsFault(kind, max) ==
  opsFaults[kind] < max /\ opsFaults' = [opsFaults EXCEPT ![kind] = @ + 1]

OpsInit ==
  /\ bin = [v \in Versions |-> "absent"]
  /\ record = NoVersion
  /\ st = [p \in Procs |-> "gone"]
  /\ ver = [p \in Procs |-> Initial]
  /\ port = NoProc
  /\ opsPc = "down" /\ task = "resume" /\ target = Initial
  /\ current = NoProc /\ previous = NoProc /\ new = NoProc
  /\ mem = NoVersion
  /\ reply = "none" /\ used = {Initial} /\ repeated = FALSE
  /\ opsFaults = [k \in {"deploy", "crash", "ops", "launch", "save"} |-> 0]

-----------------------------------------------------------------------------
(* Server processes.                                                       *)

\* cmd/server binds its listeners, or exits because something else holds them.
Bind(p) ==
  /\ st[p] = "starting"
  /\ IF port = NoProc
     THEN st' = [st EXCEPT ![p] = "up"] /\ port' = p
     ELSE st' = [st EXCEPT ![p] = "gone"] /\ UNCHANGED port
  /\ UNCHANGED <<disk, ver, daemon, opsHistory, opsFaults>>

Vanish(p) ==
  /\ st' = [st EXCEPT ![p] = "gone"]
  /\ port' = IF port = p THEN NoProc ELSE port
  /\ UNCHANGED <<disk, ver, daemon, opsHistory>>

\* The end of a graceful shutdown, or of a SIGKILL.
Exit(p) == st[p] \in {"stopping", "killed"} /\ Vanish(p) /\ UNCHANGED opsFaults

Crash(p) == st[p] \in {"starting", "up"} /\ OpsFault("crash", MaxCrashes) /\ Vanish(p)

-----------------------------------------------------------------------------
(* Steps shared by Deploy, Resume and Bootstrap.                           *)

\* The call returns; what it answers is recorded for a POST /deploy only.
Done(answer) ==
  /\ opsPc' = "idle"
  /\ previous' = NoProc /\ new' = NoProc
  /\ reply' = IF task = "deploy" THEN answer ELSE reply
  /\ UNCHANGED <<task, target, used, repeated>>

\* Linux refuses to write to a binary that a process executes (ETXTBSY).
Busy(v) == \E p \in Procs : ver[p] = v /\ st[p] # "gone"

\* exec of the version's file, into a process slot nothing refers to.
Exec(p, v) ==
  /\ bin[v] = "complete"
  /\ st[p] = "gone" /\ p \notin {current, previous, new}
  /\ st' = [st EXCEPT ![p] = "starting"]
  /\ ver' = [ver EXCEPT ![p] = v]
  /\ UNCHANGED port

\* A file that is missing or truncated cannot be executed; others may fail.
ExecFails(v) ==
  /\ IF bin[v] = "complete" THEN OpsFault("launch", MaxLaunchErrors) ELSE UNCHANGED opsFaults
  /\ UNCHANGED os

Signalled(p) == IF st[p] = "gone" THEN "gone" ELSE "killed"
LeaveNew == UNCHANGED st
KillNew == st' = [st EXCEPT ![new] = Signalled(new)]

\* os.Remove(path): an error is ignored.
Removed(v) == [bin EXCEPT ![v] = "absent"]

\* A build that did not come up is deleted again, unless Resume merely found it.
Discarded == IF task = "resume" THEN bin ELSE Removed(target)

Launch(p) ==
  /\ opsPc = "launch"
  /\ Exec(p, target)
  /\ new' = p
  /\ opsPc' = "health"
  /\ UNCHANGED <<disk, task, target, current, previous, mem, opsHistory, opsFaults>>

LaunchFails ==
  /\ opsPc = "launch"
  /\ ExecFails(target)
  /\ bin' = Discarded
  /\ Done("failed")
  /\ UNCHANGED <<record, current, mem>>

\* GET /healthz is answered by whichever process holds the port.
Responds == port # NoProc /\ st[port] \in {"up", "stopping"}

\* The new process becomes current and the old binary is deleted, before
\* state.json is written.
DropOld == IF previous = NoProc THEN bin ELSE Removed(ver[previous])

Healthy ==
  /\ opsPc = "health"
  /\ Responds
  /\ bin' = DropOld
  /\ current' = new
  /\ IF task = "resume"
     THEN Done("ok")
     ELSE opsPc' = "save" /\ UNCHANGED <<task, target, previous, new, opsHistory>>
  /\ UNCHANGED <<record, os, mem, opsFaults>>

\* The poll may fail whatever the process does: the request's context ends
\* when the webhook's client goes away.
Unhealthy ==
  /\ opsPc = "health"
  /\ KillNew
  /\ bin' = Discarded
  /\ IF previous = NoProc
     THEN Done("failed")
     ELSE opsPc' = "rollback" /\ UNCHANGED <<task, target, previous, new, opsHistory>>
  /\ UNCHANGED <<record, ver, port, current, mem, opsFaults>>

\* os.WriteFile truncates the file and then writes it; either may fail, and
\* the deploy still succeeds.
OpenState ==
  /\ opsPc = "save"
  /\ record' = TornRecord
  /\ opsPc' = "write"
  /\ UNCHANGED <<bin, os, task, target, current, previous, new, mem, opsHistory, opsFaults>>

SavedBefore == IF mem = NoVersion THEN target ELSE mem
Saved == target

WriteState ==
  /\ opsPc = "write"
  /\ record' = Saved
  /\ mem' = target
  /\ Done("ok")
  /\ UNCHANGED <<bin, os, current, opsFaults>>

SaveFails ==
  /\ opsPc \in {"save", "write"}
  /\ OpsFault("save", MaxSaveErrors)
  /\ Done("ok")
  /\ UNCHANGED <<disk, os, current, mem>>

-----------------------------------------------------------------------------
(* Deploy.                                                                 *)

Deploy(v) ==
  /\ opsPc = "idle"
  /\ OpsFault("deploy", MaxDeploys)
  /\ opsPc' = "download" /\ task' = "deploy" /\ target' = v
  /\ used' = used \cup {v} /\ repeated' = (repeated \/ v \in used)
  /\ reply' = "none"
  /\ UNCHANGED <<disk, os, current, previous, new, mem>>

Download ==
  /\ opsPc = "download"
  /\ ~Busy(target)
  /\ bin' = [bin EXCEPT ![target] = "complete"]
  /\ previous' = current
  /\ opsPc' = IF current = NoProc THEN "launch" ELSE "terminate"
  /\ UNCHANGED <<record, os, task, target, current, new, mem, opsHistory, opsFaults>>

DownloadFails ==
  /\ opsPc = "download"
  /\ \/ UNCHANGED bin
     \/ ~Busy(target) /\ bin' = [bin EXCEPT ![target] = "partial"]
  /\ Done("failed")
  /\ UNCHANGED <<record, os, current, mem, opsFaults>>

Terminate ==
  /\ opsPc = "terminate"
  /\ st' = [st EXCEPT ![previous] = IF @ \in Alive THEN "stopping" ELSE @]
  /\ opsPc' = "wait"
  /\ UNCHANGED <<disk, ver, port, task, target, current, previous, new, mem,
                 opsHistory, opsFaults>>

\* waitForExit: the process is gone, or previousExitWait passed.
NotAwaited(p) == TRUE
HasExited(p) == st[p] = "gone"

Exited ==
  /\ opsPc = "wait"
  /\ HasExited(previous)
  /\ opsPc' = "launch"
  /\ UNCHANGED <<disk, os, task, target, current, previous, new, mem, opsHistory, opsFaults>>

AskedAgain(p) == "stopping"
Forced(p) == "killed"

ForceKill ==
  /\ opsPc = "wait"
  /\ st[previous] \notin {"gone", "killed"}
  /\ st' = [st EXCEPT ![previous] = Forced(previous)]
  /\ UNCHANGED <<disk, ver, port, daemon, opsHistory, opsFaults>>

\* The relaunched process becomes current without a health check.
Rollback(p) ==
  /\ opsPc = "rollback"
  /\ Exec(p, ver[previous])
  /\ current' = p
  /\ Done("rolled_back")
  /\ UNCHANGED <<disk, mem, opsFaults>>

RollbackFails ==
  /\ opsPc = "rollback"
  /\ ExecFails(ver[previous])
  /\ current' = NoProc
  /\ Done("failed")
  /\ UNCHANGED <<disk, mem>>

-----------------------------------------------------------------------------
(* The daemon's own life.                                                  *)

\* NewManager loads state.json; main then resumes, or bootstraps the binary
\* the host was provisioned with.
LoadedAsIs == record
Loaded == IF record \in Versions THEN record ELSE NoVersion

Boot ==
  /\ opsPc = "down"
  /\ mem' = Loaded
  /\ IF record \in Versions
     THEN opsPc' = "resume" /\ task' = "resume" /\ target' = record
     ELSE opsPc' = "stage" /\ task' = "bootstrap" /\ target' = Initial
  /\ UNCHANGED <<disk, os, current, previous, new, opsHistory, opsFaults>>

Resume ==
  /\ opsPc = "resume"
  /\ IF bin[target] = "absent"
     THEN Done("failed")
     ELSE opsPc' = "launch" /\ UNCHANGED <<task, target, previous, new, opsHistory>>
  /\ UNCHANGED <<disk, os, current, mem, opsFaults>>

Stage ==
  /\ opsPc = "stage"
  /\ bin' = [bin EXCEPT ![target] = "complete"]
  /\ opsPc' = "launch"
  /\ UNCHANGED <<record, os, task, target, current, previous, new, mem, opsHistory, opsFaults>>

StageFails ==
  /\ opsPc = "stage"
  /\ bin' \in {bin, [bin EXCEPT ![target] = "partial"]}
  /\ Done("failed")
  /\ UNCHANGED <<record, os, current, mem, opsFaults>>

OpsCrash ==
  /\ opsPc # "down"
  /\ OpsFault("ops", MaxOpsCrashes)
  /\ opsPc' = "down"
  /\ st' = [p \in Procs |-> "gone"] /\ port' = NoProc
  /\ current' = NoProc /\ previous' = NoProc /\ new' = NoProc
  /\ mem' = NoVersion
  /\ reply' = "none"
  /\ UNCHANGED <<disk, ver, task, target, used, repeated>>

-----------------------------------------------------------------------------
DaemonStep ==
  \/ \E p \in Procs : Launch(p) \/ Rollback(p)
  \/ LaunchFails \/ RollbackFails
  \/ Healthy \/ Unhealthy
  \/ OpenState \/ WriteState \/ SaveFails
  \/ Download \/ DownloadFails
  \/ Terminate \/ Exited \/ ForceKill
  \/ Boot \/ Resume \/ Stage \/ StageFails

OpsNext ==
  \/ \E v \in Versions : Deploy(v)
  \/ DaemonStep
  \/ \E p \in Procs : Bind(p) \/ Exit(p) \/ Crash(p)
  \/ OpsCrash

OpsSpec == OpsInit /\ [][OpsNext]_opsVars

\* The daemon's goroutine runs, its timers fire, and the kernel ends a process
\* it was told to kill.  A SIGTERM may be ignored for ever.
OpsFairness ==
  /\ WF_opsVars(DaemonStep)
  /\ \A p \in Procs : WF_opsVars(st[p] = "killed" /\ Exit(p))

-----------------------------------------------------------------------------
OpsTypeOK ==
  /\ bin \in [Versions -> {"absent", "partial", "complete"}]
  /\ record \in Versions \cup {NoVersion, TornRecord}
  /\ st \in [Procs -> Alive \cup {"gone", "killed"}]
  /\ ver \in [Procs -> Versions]
  /\ port \in Procs \cup {NoProc}
  /\ opsPc \in {"down", "resume", "stage", "launch", "health", "save", "write",
             "idle", "download", "terminate", "wait", "rollback"}
  /\ task \in {"deploy", "resume", "bootstrap"}
  /\ target \in Versions
  /\ {current, previous, new} \subseteq Procs \cup {NoProc}
  /\ mem \in Versions \cup {NoVersion}
  /\ reply \in {"none", "ok", "failed", "rolled_back"}
  /\ used \subseteq Versions
  /\ repeated \in BOOLEAN
  /\ opsFaults \in [{"deploy", "crash", "ops", "launch", "save"} -> Nat]

(* A server process that nobody has killed is the current one or the one   *)
(* whose health is being checked: no failed launch, rollback or restart    *)
(* leaves behind a process that would hold the ports of every later one.   *)
NoStrays ==
  \A p \in Procs : st[p] \in Alive => p = current \/ (opsPc = "health" /\ p = new)

(* The health check that makes a build the current one was answered by     *)
(* that build, although it polls a fixed URL: the process before it is     *)
(* gone by then.                                                           *)
AdoptsResponder ==
  [][current' # current /\ current' # NoProc /\ opsPc = "health" => port = new]_opsVars

(* While a build is current its file is there to roll back to, until a     *)
(* healthier one has taken over; this is for builds that have versions of  *)
(* their own.                                                              *)
FallbackExists ==
  (current # NoProc /\ ~repeated) => bin[ver[current]] = "complete"

(* When no write of state.json failed, the version it names is the one     *)
(* that is current, after deploys, rollbacks and restarts alike.           *)
RecordIsCurrent ==
  (opsFaults["save"] = 0 /\ opsPc = "idle" /\ current # NoProc) => record = ver[current]

(* Both: a restart of the daemon starts the build that is current, and a   *)
(* rollback has a build to go back to.                                     *)
RecordAndFallback == RecordIsCurrent /\ FallbackExists

(* Every deploy is answered, even when the old server ignores SIGTERM.     *)
DeployEnds ==
  (task = "deploy" /\ opsPc \notin {"idle", "down"}) ~> (opsPc \in {"idle", "down"})

(* deployHandler's comment: rolled_back means that the previous version is *)
(* back up and serving.                                                    *)
RolledBackServes ==
  (reply = "rolled_back" /\ opsPc = "idle" /\ opsFaults["crash"] = 0)
    => st[current] # "gone"

=============================================================================
