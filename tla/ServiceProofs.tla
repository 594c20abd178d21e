---------------------------- MODULE ServiceProofs ---------------------------
(***************************************************************************)
(* Proofs about what surrounds the hub: OpsManager, for any versions, any  *)
(* number of processes and any number of deploys and faults; Metrics, for  *)
(* any items, any hash and any number of starts; and UsernameRegistry, for *)
(* any names, any filter and any number of callers, calls, stops and       *)
(* faults; and about the three side by side, as MCService composes them.   *)
(***************************************************************************)
EXTENDS MCService, SequenceTheorems, FiniteSetTheorems, TLAPS

-----------------------------------------------------------------------------
(* OpsManager.                                                             *)

\* Where the daemon is while it brings a build up.
Bringing == {"download", "terminate", "wait", "launch", "health"}

\* The build that is replaced is the current one until it is gone.
OldFirst ==
  /\ opsPc \in {"down", "resume", "stage"} => current = NoProc /\ previous = NoProc
  /\ opsPc \in {"terminate", "wait", "rollback"} => current \in Procs /\ previous = current
  /\ opsPc \in {"launch", "health", "rollback"} =>
       previous = current /\ (current = NoProc \/ st[current] = "gone")
  /\ opsPc \in {"launch", "health"} /\ task # "deploy" => current = NoProc
  /\ opsPc \in {"download", "terminate", "wait", "rollback"} => task = "deploy"
  /\ opsPc = "resume" => task = "resume"
  /\ opsPc = "stage" => task = "bootstrap"

\* The process whose health is checked runs the version asked for, from its file.
NewRuns ==
  /\ opsPc = "health" => new \in Procs /\ ver[new] = target /\ bin[target] = "complete"
  /\ opsPc \in {"save", "write"} => current \in Procs /\ ver[current] = target

RecordFollows ==
  /\ opsFaults["save"] = 0 /\ current # NoProc /\ opsPc \notin {"save", "write"} =>
       record = ver[current]
  /\ task = "resume" /\ opsPc \in {"resume", "launch", "health"} => record = target

\* Versions that were not deployed twice have files of their own.
OwnFiles ==
  /\ Initial \in used /\ target \in used
  /\ record \in Versions => record \in used
  /\ current # NoProc => ver[current] \in used
  /\ current # NoProc /\ ~repeated => bin[ver[current]] = "complete"
  /\ opsPc \in Bringing /\ task = "deploy" /\ current # NoProc /\ ~repeated =>
       target # ver[current]

OpsInv == OpsTypeOK /\ NoStrays /\ OldFirst /\ NewRuns /\ RecordFollows /\ OwnFiles

-----------------------------------------------------------------------------
LEMMA OpsInitInv == OpsInit => OpsInv
<1> SUFFICES ASSUME OpsInit PROVE OpsInv
  OBVIOUS
<1> USE OpsAssumption DEF OpsInit
<1>1. OpsTypeOK
  BY DEF OpsTypeOK
<1>2. NoStrays /\ OldFirst
  BY DEF NoStrays, OldFirst, Alive
<1>3. NewRuns /\ RecordFollows /\ OwnFiles
  BY DEF NewRuns, RecordFollows, OwnFiles, Bringing
<1> QED
  BY <1>1, <1>2, <1>3 DEF OpsInv

\* A process binds the ports, ends or crashes.
LEMMA ProcessInv ==
  ASSUME OpsInv, NEW p \in Procs, Bind(p) \/ Exit(p) \/ Crash(p)
  PROVE  OpsInv'
<1> USE OpsAssumption DEF OpsInv
<1>1. OpsTypeOK'
  BY DEF OpsTypeOK, Alive, Bind, Exit, Crash, Vanish, OpsFault, disk, daemon, opsHistory
<1>2. /\ \A q \in Procs : st'[q] = st[q] \/ st'[q] = "gone" \/ (st[q] = "starting" /\ st'[q] = "up")
      /\ UNCHANGED <<disk, ver, daemon, opsHistory>>
      /\ opsFaults'["save"] = opsFaults["save"]
  BY DEF OpsTypeOK, Bind, Exit, Crash, Vanish, OpsFault
<1>3. NoStrays'
  BY <1>2 DEF NoStrays, Alive, daemon
<1>4. OldFirst'
  BY <1>2 DEF OldFirst, OpsTypeOK, daemon
<1>5. NewRuns' /\ RecordFollows' /\ OwnFiles'
  BY <1>2 DEF NewRuns, RecordFollows, OwnFiles, daemon, disk, opsHistory
<1> QED
  BY <1>1, <1>3, <1>4, <1>5

\* A build is started, as a new one or to go back to.
LEMMA ExecInv ==
  ASSUME OpsInv, NEW p \in Procs, Launch(p) \/ Rollback(p)
  PROVE  OpsInv'
<1> USE OpsAssumption DEF OpsInv
<1>1. OpsTypeOK'
  <2>1. target \in Versions /\ (opsPc = "rollback" => ver[previous] \in Versions)
    BY DEF OpsTypeOK, OldFirst
  <2>2. CASE Launch(p)
    BY <2>1, <2>2 DEF OpsTypeOK, Alive, Launch, Exec, disk, opsHistory
  <2>3. CASE Rollback(p)
    BY <2>1, <2>3 DEF OpsTypeOK, Alive, Rollback, Exec, Done, disk
  <2> QED
    BY <2>2, <2>3
<1>2. /\ st[p] = "gone" /\ p \notin {current, previous, new}
      /\ \A q \in Procs : q # p => st'[q] = st[q] /\ ver'[q] = ver[q]
      /\ UNCHANGED <<disk, opsFaults, target, used, repeated, task>>
  BY DEF OpsTypeOK, Launch, Rollback, Exec, Done, opsHistory
<1>3. CASE Launch(p)
  <2>1. /\ opsPc = "launch" /\ opsPc' = "health" /\ new' = p /\ ver'[p] = target
        /\ bin[target] = "complete" /\ current' = current /\ previous' = previous
    BY <1>3 DEF OpsTypeOK, Launch, Exec
  <2>2. NoStrays' /\ OldFirst' /\ NewRuns'
    BY <1>2, <2>1 DEF NoStrays, OldFirst, NewRuns, OpsTypeOK, disk
  <2>3. RecordFollows' /\ OwnFiles'
    BY <1>2, <2>1 DEF RecordFollows, OwnFiles, OpsTypeOK, disk, Bringing
  <2> QED
    BY <1>1, <2>2, <2>3
<1>4. CASE Rollback(p)
  <2>1. /\ opsPc = "rollback" /\ opsPc' = "idle" /\ current' = p /\ ver'[p] = ver[previous]
        /\ bin[ver[previous]] = "complete" /\ task = "deploy"
    BY <1>4 DEF OpsTypeOK, Rollback, Exec, Done, OldFirst
  <2>2. NoStrays'
    BY <1>2, <2>1 DEF NoStrays, OldFirst, OpsTypeOK, Alive
  <2>3. OldFirst' /\ NewRuns'
    BY <1>2, <2>1 DEF OldFirst, NewRuns
  <2>4. current \in Procs /\ previous = current
    BY <1>4 DEF Rollback, OldFirst
  <2>5. RecordFollows' /\ OwnFiles'
    BY <1>2, <2>1, <2>4 DEF RecordFollows, OwnFiles, Bringing, disk
  <2> QED
    BY <1>1, <2>2, <2>3, <2>5
<1> QED
  BY <1>3, <1>4

\* A build that could not be started, or is not healthy.
LEMMA GivenUpInv ==
  ASSUME OpsInv, LaunchFails \/ RollbackFails \/ Unhealthy
  PROVE  OpsInv'
<1> USE OpsAssumption DEF OpsInv
<1>1. CASE LaunchFails
  <2>1. OpsTypeOK'
    BY <1>1 DEF OpsTypeOK, LaunchFails, ExecFails, OpsFault, os, Done, Discarded, Removed
  <2>2. /\ opsPc = "launch" /\ opsPc' = "idle" /\ bin' = Discarded
        /\ UNCHANGED <<record, current, os, task, target, used, repeated>>
        /\ opsFaults'["save"] = opsFaults["save"]
    BY <1>1 DEF OpsTypeOK, LaunchFails, ExecFails, OpsFault, Done
  <2>3. NoStrays' /\ OldFirst' /\ NewRuns'
    BY <2>2 DEF NoStrays, OldFirst, NewRuns, os
  <2>4. RecordFollows' /\ OwnFiles'
    BY <2>2 DEF RecordFollows, OwnFiles, Bringing, os, Discarded, Removed, OldFirst, OpsTypeOK
  <2> QED
    BY <2>1, <2>3, <2>4
<1>2. CASE RollbackFails
  <2>1. OpsTypeOK'
    BY <1>2 DEF OpsTypeOK, RollbackFails, ExecFails, OpsFault, os, disk, Done
  <2>2. /\ opsPc = "rollback" /\ opsPc' = "idle" /\ current' = NoProc
        /\ UNCHANGED <<disk, os, task, target, used, repeated>>
    BY <1>2 DEF RollbackFails, ExecFails, Done
  <2>3. NoStrays' /\ OldFirst' /\ NewRuns'
    BY <2>2 DEF NoStrays, OldFirst, NewRuns, os, OpsTypeOK, Alive
  <2>4. RecordFollows' /\ OwnFiles'
    BY <2>2 DEF RecordFollows, OwnFiles, Bringing, disk
  <2> QED
    BY <2>1, <2>3, <2>4
<1>3. CASE Unhealthy
  <2>1. /\ opsPc = "health" /\ new \in Procs /\ st' = [st EXCEPT ![new] = Signalled(new)]
        /\ bin' = Discarded
        /\ UNCHANGED <<record, ver, port, current, mem, opsFaults, task, target, used, repeated>>
        /\ \/ opsPc' = "rollback" /\ previous # NoProc /\ UNCHANGED <<previous, new, reply>>
           \/ opsPc' = "idle" /\ previous' = NoProc /\ new' = NoProc
    BY <1>3 DEF Unhealthy, KillNew, Done, opsHistory, NewRuns
  <2>2. Signalled(new) \in {"gone", "killed"}
    BY DEF Signalled
  <2>3. Discarded \in [Versions -> {"absent", "partial", "complete"}]
    BY DEF OpsTypeOK, Discarded, Removed
  <2>4. OpsTypeOK'
    BY <1>3, <2>1, <2>2, <2>3 DEF OpsTypeOK, Unhealthy, Done, opsHistory
  <2>5. NoStrays'
    BY <2>1, <2>2 DEF NoStrays, Alive, OpsTypeOK
  <2>6. OldFirst'
    BY <2>1, <2>2 DEF OldFirst, OpsTypeOK, NewRuns, Signalled
  <2>7. NewRuns' /\ RecordFollows'
    BY <2>1 DEF NewRuns, RecordFollows
  <2>8. OwnFiles'
    BY <2>1 DEF OwnFiles, Bringing, Discarded, Removed, OldFirst, OpsTypeOK
  <2> QED
    BY <2>4, <2>5, <2>6, <2>7, <2>8
<1> QED
  BY <1>1, <1>2, <1>3

\* The new build takes over, and the old one's file is deleted.
LEMMA HealthyInv ==
  ASSUME OpsInv, Healthy
  PROVE  OpsInv'
<1> USE OpsAssumption DEF OpsInv
<1>1. /\ opsPc = "health" /\ bin' = DropOld /\ current' = new /\ new \in Procs
      /\ UNCHANGED <<record, os, mem, opsFaults, task, target, used, repeated>>
      /\ \/ task = "resume" /\ opsPc' = "idle" /\ previous' = NoProc /\ new' = NoProc
         \/ task # "resume" /\ opsPc' = "save" /\ UNCHANGED <<previous, new, reply>>
      /\ reply' \in {reply, "ok"}
  BY DEF Healthy, Done, opsHistory, NewRuns
<1>2. DropOld \in [Versions -> {"absent", "partial", "complete"}]
  BY DEF OpsTypeOK, DropOld, Removed
<1>3. OpsTypeOK'
  BY <1>1, <1>2 DEF OpsTypeOK, os
<1>4. NoStrays' /\ OldFirst'
  BY <1>1 DEF NoStrays, OldFirst, os, Alive, OpsTypeOK
<1>5. NewRuns' /\ RecordFollows'
  BY <1>1 DEF NewRuns, RecordFollows, os
<1>6. bin[target] = "complete" /\ ver[new] = target
  BY <1>1 DEF NewRuns
<1>7. ~repeated => bin'[target] = "complete"
  <2>1. CASE previous = NoProc
    BY <1>1, <1>6, <2>1 DEF DropOld
  <2>2. CASE previous # NoProc
    <3>1. previous = current /\ task = "deploy"
      BY <1>1, <2>2 DEF OldFirst
    <3>2. ~repeated => target # ver[previous]
      BY <1>1, <2>2, <3>1 DEF OwnFiles, Bringing
    <3>3. DropOld = [bin EXCEPT ![ver[previous]] = "absent"]
      BY <2>2 DEF DropOld, Removed
    <3> QED
      BY <1>1, <1>6, <3>2, <3>3 DEF OpsTypeOK
  <2> QED
    BY <2>1, <2>2
<1>8. OwnFiles'
  BY <1>1, <1>6, <1>7 DEF OwnFiles, Bringing, os
<1> QED
  BY <1>3, <1>4, <1>5, <1>8

\* state.json is written, or is not.
LEMMA SaveInv ==
  ASSUME OpsInv, OpenState \/ WriteState \/ SaveFails
  PROVE  OpsInv'
<1> USE OpsAssumption DEF OpsInv
<1>1. OpsTypeOK'
  <2>1. CASE OpenState
    BY <2>1 DEF OpsTypeOK, OpenState, os, opsHistory
  <2>2. CASE WriteState
    BY <2>2 DEF OpsTypeOK, WriteState, Saved, Done, os
  <2>3. CASE SaveFails
    BY <2>3 DEF OpsTypeOK, SaveFails, OpsFault, Done, os, disk
  <2> QED
    BY <2>1, <2>2, <2>3
<1>2. /\ opsPc \in {"save", "write"} /\ opsPc' \in {"write", "idle"}
      /\ UNCHANGED <<bin, os, current, task, target, used, repeated>>
      /\ record' \in {record, TornRecord, target}
  BY DEF OpenState, WriteState, SaveFails, Done, Saved, disk, opsHistory
<1>3. NoStrays' /\ OldFirst' /\ NewRuns' /\ OwnFiles'
  BY <1>2 DEF NoStrays, OldFirst, NewRuns, OwnFiles, os, Bringing
<1>4. RecordFollows'
  <2>1. CASE OpenState
    BY <2>1 DEF RecordFollows, OpenState
  <2>2. CASE WriteState
    BY <1>2, <2>2 DEF RecordFollows, WriteState, Saved, Done, NewRuns, os
  <2>3. CASE SaveFails
    <3>1. opsFaults'["save"] # 0 /\ opsPc' = "idle"
      BY <2>3 DEF SaveFails, OpsFault, OpsTypeOK, Done
    <3> QED
      BY <3>1 DEF RecordFollows
  <2> QED
    BY <2>1, <2>2, <2>3
<1> QED
  BY <1>1, <1>3, <1>4

\* A deploy comes in, downloads its build and stops the old one.
LEMMA DeployInv ==
  ASSUME OpsInv,
         (\E v \in Versions : Deploy(v)) \/ Download \/ DownloadFails
         \/ Terminate \/ Exited \/ ForceKill
  PROVE  OpsInv'
<1> USE OpsAssumption DEF OpsInv
<1>1. ASSUME NEW v \in Versions, Deploy(v)
      PROVE  OpsInv'
  <2>1. OpsTypeOK'
    BY <1>1 DEF OpsTypeOK, Deploy, OpsFault, disk, os
  <2>2. NoStrays' /\ OldFirst' /\ NewRuns'
    BY <1>1 DEF NoStrays, OldFirst, NewRuns, Deploy, os
  <2>3. RecordFollows' /\ OwnFiles'
    BY <1>1 DEF RecordFollows, OwnFiles, Deploy, OpsFault, OpsTypeOK, os, disk
  <2> QED
    BY <2>1, <2>2, <2>3
<1>2. CASE Download
  <2>1. OpsTypeOK' /\ NoStrays' /\ OldFirst' /\ NewRuns'
    BY <1>2 DEF OpsTypeOK, NoStrays, OldFirst, NewRuns, Download, os, opsHistory
  <2>2. RecordFollows' /\ OwnFiles'
    BY <1>2 DEF RecordFollows, OwnFiles, Download, os, opsHistory, Bringing, OldFirst, OpsTypeOK
  <2> QED
    BY <2>1, <2>2
<1>3. CASE DownloadFails
  <2>1. OpsTypeOK'
    BY <1>3 DEF OpsTypeOK, DownloadFails, os, Done
  <2>2. NoStrays' /\ OldFirst' /\ NewRuns'
    BY <1>3 DEF NoStrays, OldFirst, NewRuns, DownloadFails, os, Done
  <2>3. RecordFollows' /\ OwnFiles'
    BY <1>3 DEF RecordFollows, OwnFiles, DownloadFails, os, Done, Bringing, OldFirst, OpsTypeOK
  <2> QED
    BY <2>1, <2>2, <2>3
<1>4. CASE Terminate \/ Exited \/ ForceKill
  <2>1. OpsTypeOK'
    BY <1>4 DEF OpsTypeOK, Terminate, Exited, ForceKill, Forced, HasExited, disk, os, daemon,
       opsHistory, Alive
  <2>2. /\ opsPc \in {"terminate", "wait"} /\ opsPc' \in {"wait", "launch"}
        /\ opsPc' = "launch" => st[previous] = "gone"
        /\ UNCHANGED <<disk, ver, port, task, target, current, previous, new, mem,
                       opsHistory, opsFaults>>
        /\ \A p \in Procs : st'[p] = st[p] \/ (p = previous /\ st'[p] \in {"stopping", "killed"})
        /\ opsPc' = "launch" => st' = st
    BY <1>4 DEF OpsTypeOK, Terminate, Exited, ForceKill, Forced, HasExited, os, daemon, disk,
       opsHistory, Alive
  <2>3. NoStrays' /\ OldFirst'
    BY <2>2 DEF NoStrays, OldFirst, Alive, OpsTypeOK, opsHistory, disk
  <2>4. NewRuns' /\ RecordFollows' /\ OwnFiles'
    BY <2>2 DEF NewRuns, RecordFollows, OwnFiles, Bringing, disk, opsHistory, OldFirst
  <2> QED
    BY <2>1, <2>3, <2>4
<1> QED
  BY <1>1, <1>2, <1>3, <1>4

\* The daemon starts, with what state.json and the host say, or crashes.
LEMMA DaemonLifeInv ==
  ASSUME OpsInv, Boot \/ Resume \/ Stage \/ StageFails \/ OpsCrash
  PROVE  OpsInv'
<1> USE OpsAssumption DEF OpsInv
<1>1. CASE Boot
  <2>1. OpsTypeOK'
    BY <1>1 DEF OpsTypeOK, Boot, Loaded, disk, os, opsHistory
  <2>2. NoStrays' /\ OldFirst' /\ NewRuns'
    BY <1>1 DEF NoStrays, OldFirst, NewRuns, Boot, os
  <2>3. Initial \in used
    BY DEF OwnFiles
  <2>4. RecordFollows' /\ OwnFiles'
    BY <1>1, <2>3 DEF RecordFollows, OwnFiles, Boot, disk, os, opsHistory, OldFirst, Bringing
  <2> QED
    BY <2>1, <2>2, <2>4
<1>2. CASE Resume
  <2>1. OpsTypeOK'
    BY <1>2 DEF OpsTypeOK, Resume, Done, disk, os, opsHistory
  <2>2. NoStrays' /\ OldFirst' /\ NewRuns'
    BY <1>2 DEF NoStrays, OldFirst, NewRuns, Resume, Done, disk, os
  <2>3. RecordFollows' /\ OwnFiles'
    BY <1>2 DEF RecordFollows, OwnFiles, Resume, Done, disk, os, opsHistory, OldFirst, Bringing
  <2> QED
    BY <2>1, <2>2, <2>3
<1>3. CASE Stage \/ StageFails
  <2>1. OpsTypeOK'
    BY <1>3 DEF OpsTypeOK, Stage, StageFails, Done, os, opsHistory
  <2>2. NoStrays' /\ OldFirst' /\ NewRuns'
    BY <1>3 DEF NoStrays, OldFirst, NewRuns, Stage, StageFails, Done, os
  <2>3. RecordFollows' /\ OwnFiles'
    BY <1>3 DEF RecordFollows, OwnFiles, Stage, StageFails, Done, os, opsHistory, OldFirst, Bringing
  <2> QED
    BY <2>1, <2>2, <2>3
<1>4. CASE OpsCrash
  <2>1. OpsTypeOK'
    BY <1>4 DEF OpsTypeOK, OpsCrash, OpsFault, disk
  <2>2. NoStrays' /\ OldFirst' /\ NewRuns'
    BY <1>4 DEF NoStrays, OldFirst, NewRuns, OpsCrash, Alive
  <2>3. RecordFollows' /\ OwnFiles'
    BY <1>4 DEF RecordFollows, OwnFiles, OpsCrash, disk, Bringing
  <2> QED
    BY <2>1, <2>2, <2>3
<1> QED
  BY <1>1, <1>2, <1>3, <1>4

LEMMA OpsStepInv == OpsInv /\ [OpsNext]_opsVars => OpsInv'
<1> SUFFICES ASSUME OpsInv, [OpsNext]_opsVars
             PROVE  OpsInv'
  OBVIOUS
<1>1. CASE UNCHANGED opsVars
  <2>1. UNCHANGED <<disk, os, daemon, opsHistory, opsFaults>>
    BY <1>1 DEF opsVars
  <2>2. OpsTypeOK' /\ NoStrays' /\ OldFirst'
    BY <2>1 DEF OpsInv, OpsTypeOK, NoStrays, OldFirst, disk, os, daemon, opsHistory
  <2>3. NewRuns' /\ RecordFollows' /\ OwnFiles'
    BY <2>1 DEF OpsInv, NewRuns, RecordFollows, OwnFiles, disk, os, daemon, opsHistory
  <2> QED
    BY <2>2, <2>3 DEF OpsInv
<1>2. CASE OpsNext
  BY <1>2, ProcessInv, ExecInv, GivenUpInv, HealthyInv, SaveInv, DeployInv, DaemonLifeInv
     DEF OpsNext, DaemonStep
<1> QED
  BY <1>1, <1>2

\* The invariant the theorems below are read off.
LEMMA OpsInvariant == OpsSpec => []OpsInv
BY OpsInitInv, OpsStepInv, PTL DEF OpsSpec

-----------------------------------------------------------------------------
(* The daemon's variables keep their types: above all, what it refers to as  *)
(* a process or a version is one.                                            *)
THEOREM OpsTypes == OpsSpec => []OpsTypeOK
<1>1. OpsInv => OpsTypeOK
  BY DEF OpsInv
<1> QED
  BY <1>1, OpsInvariant, PTL

(* No process outlives the daemon's interest in it (manager.go Deploy and    *)
(* waitForExit): the old one is gone before the new one starts, and a new    *)
(* one that is not healthy is killed before the old one is back.             *)
THEOREM NoProcessLeftBehind == OpsSpec => []NoStrays
<1>1. OpsInv => NoStrays
  BY DEF OpsInv
<1> QED
  BY <1>1, OpsInvariant, PTL

(* A restart starts the build that was current, and a rollback finds its     *)
(* file (manager.go Deploy, saveState and Resume).                           *)
THEOREM FallbackAndRecord == OpsSpec => []RecordAndFallback
<1>1. OpsInv => RecordAndFallback
  BY DEF OpsInv, RecordFollows, OwnFiles, RecordAndFallback, RecordIsCurrent, FallbackExists
<1> QED
  BY <1>1, OpsInvariant, PTL

(* The health check polls a fixed URL, yet what answers it is the build that *)
(* becomes the current one (manager.go Deploy and pollHealthy).              *)
THEOREM AnswerIsTheNewBuilds == OpsSpec => AdoptsResponder
<1> DEFINE Own == current' # current /\ current' # NoProc /\ opsPc = "health" => port = new
<1>1. ASSUME OpsInv, [OpsNext]_opsVars
      PROVE  Own
  <2> SUFFICES ASSUME current' # current, current' # NoProc, opsPc = "health"
               PROVE  port = new
    OBVIOUS
  <2>1. Healthy
    BY <1>1 DEF OpsNext, DaemonStep, Deploy, Launch, LaunchFails, Rollback, RollbackFails,
       Unhealthy, OpenState, WriteState, SaveFails, Download, DownloadFails, Terminate, Exited,
       ForceKill, Boot, Resume, Stage, StageFails, Bind, Exit, Crash, Vanish, OpsCrash, daemon,
       opsVars
  <2>2. port \in Procs /\ st[port] \in Alive
    BY <1>1, <2>1 DEF Healthy, Responds, OpsInv, OpsTypeOK, Alive
  <2>3. port = current \/ port = new
    BY <1>1, <2>2 DEF OpsInv, NoStrays
  <2>4. current = NoProc \/ st[current] = "gone"
    BY <1>1 DEF OpsInv, OldFirst
  <2> QED
    BY <2>2, <2>3, <2>4, OpsAssumption DEF Alive
<1>2. OpsInv /\ [OpsNext]_opsVars => [Own]_opsVars
  BY <1>1
<1> QED
  BY <1>2, OpsInvariant, PTL DEF OpsSpec, AdoptsResponder

-------------------------------------------------------------------------------
(* Metrics.                                                                *)

\* r is the highest rank among the items of register s, 0 if there are none.
IsRegister(r, items, s) ==
  /\ \A x \in items : SlotOf[x] = s => RankOf[x] <= r
  /\ \/ r = 0 /\ \A x \in items : SlotOf[x] # s
     \/ \E x \in items : SlotOf[x] = s /\ RankOf[x] = r

\* An estimator, in memory, in a file or in a copy, that has counted a set.
Exact(regs, items) ==
  /\ items \subseteq Items
  /\ regs \in [Slots -> Ranks \cup {0}]
  /\ \A s \in Slots : IsRegister(regs[s], items, s)

MemoryExact ==
  /\ registers \in [Kinds -> [Slots -> Ranks \cup {0}]]
  /\ counted \in [Kinds -> SUBSET Items]
  /\ \A k \in Kinds : Exact(registers[k], counted[k])

FilesExact ==
  /\ files \in [Kinds -> [Slots -> Ranks \cup {0}]]
  /\ stored \in [Kinds -> SUBSET Items]
  /\ \A k \in Kinds : Exact(files[k], stored[k]) /\ stored[k] \subseteq counted[k]

\* Save holds the mutex, so what it copied is what the estimator still holds.
CopyCurrent ==
  saving.at # "none" =>
    /\ saving.kind \in Kinds
    /\ saving.copy = registers[saving.kind]
    /\ saving.items = counted[saving.kind]

Control ==
  /\ process \in {"running", "stopping", "broken", "down"}
  /\ saving.at \in {"none", "write", "rename"}
  /\ finalSave \in {"no", "begun", "done"}
  /\ boots \in 1..Boots
  /\ process = "down" => saving.at = "none"

MetricsInv == MemoryExact /\ FilesExact /\ CopyCurrent /\ Control

-----------------------------------------------------------------------------
\* Ranks are positive naturals.
LEMMA RanksAreNat == \A r \in Ranks \cup {0} : r \in Nat
BY MetricsAssumption DEF Ranks

\* What RegisterOf picks is the only rank that IsRegister admits.
LEMMA RegisterUnique ==
  ASSUME NEW items \in SUBSET Items, NEW s, NEW r \in Ranks \cup {0},
         IsRegister(r, items, s)
  PROVE  r = RegisterOf(items, s)
<1> DEFINE ranks == {RankOf[x] : x \in {y \in items : SlotOf[y] = s}}
<1>1. \A q \in ranks : q \in Nat \ {0}
  BY MetricsAssumption
<1>2. r \in Nat
  BY RanksAreNat
<1>3. \A q \in ranks : q <= r
  BY DEF IsRegister
<1>4. CASE ranks = {}
  <2>1. \A x \in items : SlotOf[x] # s
    BY <1>4
  <2>2. r = 0
    BY <2>1 DEF IsRegister
  <2> QED
    BY <1>4, <2>2 DEF RegisterOf
<1>5. CASE ranks # {}
  <2>1. r \in ranks
    BY <1>5 DEF IsRegister
  <2>2. \A q \in ranks : (\A p \in ranks : p <= q) => q = r
    BY <1>1, <1>2, <1>3, <2>1
  <2> DEFINE top == CHOOSE q \in ranks : \A p \in ranks : p <= q
  <2>3. top \in ranks /\ \A p \in ranks : p <= top
    BY <2>1, <1>3
  <2>4. top = r
    BY <2>2, <2>3
  <2>5. RegisterOf(items, s) = top
    BY <1>5 DEF RegisterOf
  <2> QED
    BY <2>4, <2>5
<1> QED
  BY <1>4, <1>5

\* Adding an item to an estimator keeps it exact, however often it is added.
LEMMA AddedExact ==
  ASSUME NEW regs, NEW items, NEW x \in Items, Exact(regs, items)
  PROVE  Exact(Added(regs, x), items \cup {x})
<1> DEFINE s == SlotOf[x]
<1>1. s \in Slots /\ RankOf[x] \in Ranks /\ RankOf[x] \in Nat \ {0}
  BY MetricsAssumption DEF Slots, Ranks
<1>2. \A q \in Slots : regs[q] \in Nat /\ regs[q] \in Ranks \cup {0}
  BY RanksAreNat DEF Exact
<1>3. \A y \in items \cup {x} : RankOf[y] \in Nat
  BY MetricsAssumption DEF Exact
<1>4. Added(regs, x) \in [Slots -> Ranks \cup {0}]
  BY <1>1, <1>2 DEF Added, Exact
<1>5. ASSUME NEW q \in Slots, q # s
      PROVE  IsRegister(Added(regs, x)[q], items \cup {x}, q)
  <2>1. Added(regs, x)[q] = regs[q]
    BY <1>5, <1>1 DEF Added, Exact
  <2>2. IsRegister(regs[q], items, q)
    BY DEF Exact
  <2> QED
    BY <1>5, <2>1, <2>2 DEF IsRegister
<1>6. IsRegister(Added(regs, x)[s], items \cup {x}, s)
  <2>1. IsRegister(regs[s], items, s)
    BY <1>1 DEF Exact
  <2>2. CASE RankOf[x] > regs[s]
    <3>1. Added(regs, x)[s] = RankOf[x]
      BY <1>1, <2>2 DEF Added, Exact
    <3>2. \A y \in items : SlotOf[y] = s => RankOf[y] <= RankOf[x]
      BY <1>1, <1>2, <1>3, <2>1, <2>2 DEF IsRegister
    <3> QED
      BY <1>1, <3>1, <3>2 DEF IsRegister
  <2>3. CASE ~(RankOf[x] > regs[s])
    <3>1. Added(regs, x)[s] = regs[s]
      BY <1>1, <2>3 DEF Added, Exact
    <3>2. RankOf[x] <= regs[s] /\ regs[s] # 0
      BY <1>1, <1>2, <2>3
    <3> QED
      BY <2>1, <3>1, <3>2 DEF IsRegister
  <2> QED
    BY <2>2, <2>3
<1> QED
  BY <1>4, <1>5, <1>6 DEF Exact

\* Highest ranks grow with the set.
LEMMA RegistersGrow ==
  ASSUME NEW a, NEW b, NEW few, NEW more, few \subseteq more,
         Exact(a, few), Exact(b, more), NEW s \in Slots
  PROVE  a[s] <= b[s]
<1>1. a[s] \in Nat /\ b[s] \in Nat
  BY RanksAreNat DEF Exact
<1>2. IsRegister(a[s], few, s) /\ IsRegister(b[s], more, s)
  BY DEF Exact
<1> QED
  BY <1>1, <1>2 DEF IsRegister

-----------------------------------------------------------------------------
\* An estimator that has counted nothing is all zeros.
LEMMA MetricsInitInv == MetricsInit => MetricsInv
<1> SUFFICES ASSUME MetricsInit PROVE MetricsInv
  OBVIOUS
<1> USE DEF MetricsInit
<1>1. Exact([s \in Slots |-> 0], {})
  BY DEF Exact, IsRegister
<1>2. MemoryExact
  BY <1>1 DEF MemoryExact
<1>3. FilesExact
  BY <1>1 DEF FilesExact
<1>4. CopyCurrent
  BY DEF CopyCurrent, NoSave
<1>5. Control
  BY MetricsAssumption DEF Control, NoSave
<1> QED
  BY <1>2, <1>3, <1>4, <1>5 DEF MetricsInv

\* Counting an item changes the memory, which no save is copying just then.
LEMMA CountItemInv ==
  ASSUME MetricsInv, NEW kind \in Kinds, NEW x \in Items, CountItem(kind, x)
  PROVE  MetricsInv'
<1> USE DEF MetricsInv, CountItem
<1>1. Exact(Added(registers[kind], x), counted[kind] \cup {x})
  BY AddedExact DEF MemoryExact
<1>2. /\ registers' \in [Kinds -> [Slots -> Ranks \cup {0}]]
      /\ counted' \in [Kinds -> SUBSET Items]
  BY <1>1 DEF MemoryExact, Exact
<1>3. \A k \in Kinds : Exact(registers'[k], counted'[k])
  BY <1>1 DEF MemoryExact
<1>4. MemoryExact'
  BY <1>2, <1>3 DEF MemoryExact
<1>5. \A k \in Kinds : counted[k] \subseteq counted'[k]
  BY DEF MemoryExact
<1>6. FilesExact'
  BY <1>5 DEF FilesExact
<1> QED
  BY <1>4, <1>6 DEF CopyCurrent, Control

\* A rename replaces a file by the estimator as it is now.
LEMMA RenameInv ==
  ASSUME MetricsInv, Rename
  PROVE  MetricsInv'
<1> USE DEF MetricsInv, Rename, Up
<1>1. /\ saving.kind \in Kinds
      /\ saving.copy = registers[saving.kind]
      /\ saving.items = counted[saving.kind]
  BY DEF CopyCurrent
<1>2. MemoryExact'
  BY DEF MemoryExact
<1>3. Exact(saving.copy, saving.items) /\ saving.items \subseteq Items
  BY <1>1 DEF MemoryExact
<1>4. FilesExact'
  BY <1>1, <1>3 DEF FilesExact, Exact
<1>5. CopyCurrent'
  BY <1>1 DEF CopyCurrent, Copied, NoSave, Kinds
<1>6. Control'
  BY DEF Control, Copied, NoSave, Ended
<1> QED
  BY <1>2, <1>4, <1>5, <1>6

\* A start takes the files for the estimators.
LEMMA StartProcessInv ==
  ASSUME MetricsInv, StartProcess
  PROVE  MetricsInv'
<1> USE DEF MetricsInv, StartProcess, Up, LoadedFiles
<1>1. MemoryExact'
  BY DEF FilesExact, MemoryExact
<1>2. FilesExact'
  BY DEF FilesExact
<1>3. CopyCurrent'
  BY DEF Control, CopyCurrent
<1>4. Control'
  BY MetricsAssumption DEF Control
<1> QED
  BY <1>1, <1>2, <1>3, <1>4

\* The other steps leave the estimators and the files alone.
LEMMA OtherMetricsInv ==
  ASSUME MetricsInv,
         \/ BeginSave \/ WriteTemporary \/ RecorderSaveFails
         \/ Signal \/ ListenerFails \/ MainReturns \/ Killed
         \/ UNCHANGED metricsVars
  PROVE  MetricsInv'
<1> USE DEF MetricsInv, Up
<1>1. UNCHANGED <<registers, files, counted, stored>>
  BY DEF BeginSave, WriteTemporary, RecorderSaveFails, Signal, ListenerFails,
         MainReturns, Killed, metricsVars
<1>2. MemoryExact' /\ FilesExact'
  BY <1>1 DEF MemoryExact, FilesExact
<1>3. CASE BeginSave
  BY <1>2, <1>3 DEF BeginSave, CopyCurrent, Control, Copied, Kinds
<1>4. CASE WriteTemporary
  BY <1>2, <1>4 DEF WriteTemporary, CopyCurrent, Control
<1>5. CASE RecorderSaveFails
  BY <1>2, <1>5 DEF RecorderSaveFails, CopyCurrent, Control, NoSave, Ended
<1>6. CASE Signal \/ ListenerFails \/ UNCHANGED metricsVars
  BY <1>2, <1>6 DEF Signal, ListenerFails, CopyCurrent, Control, metricsVars
<1>7. CASE MainReturns \/ Killed
  BY <1>2, <1>7 DEF MainReturns, Killed, Down, CopyCurrent, Control, NoSave
<1> QED
  BY <1>3, <1>4, <1>5, <1>6, <1>7

LEMMA MetricsStepInv == MetricsInv /\ [MetricsNext]_metricsVars => MetricsInv'
BY CountItemInv, RenameInv, StartProcessInv, OtherMetricsInv DEF MetricsNext

\* The invariant the theorems below are read off.
LEMMA MetricsInvariant == MetricsSpec => []MetricsInv
BY MetricsInitInv, MetricsStepInv, PTL DEF MetricsSpec

-----------------------------------------------------------------------------
(* The recorder's variables keep their types: a register only ever holds    *)
(* the rank of some item, or 0.                                              *)
THEOREM RecorderTypes == MetricsSpec => []MetricsTypeOK
<1>1. MetricsInv => MetricsTypeOK
  BY DEF MetricsInv, MemoryExact, FilesExact, Control, MetricsTypeOK
<1> QED
  BY <1>1, MetricsInvariant, PTL

(* Counting in any order, twice, across saves that fail half way, kills and  *)
(* restarts: the registers are always those of the set of items counted, in  *)
(* memory and in the files (hll.go Add, recorder.go Save and load).          *)
THEOREM CountsAreExact == MetricsSpec => []EstimatorsExact
<1>1. MetricsInv => EstimatorsExact
  <2> SUFFICES ASSUME MetricsInv, NEW k \in Kinds, NEW s \in Slots
               PROVE  /\ registers[k][s] = RegisterOf(counted[k], s)
                      /\ files[k][s] = RegisterOf(stored[k], s)
    BY DEF EstimatorsExact, MetricsInv, FilesExact
  <2>1. /\ counted[k] \in SUBSET Items /\ registers[k][s] \in Ranks \cup {0}
        /\ IsRegister(registers[k][s], counted[k], s)
    BY DEF MetricsInv, MemoryExact, Exact
  <2>2. /\ stored[k] \in SUBSET Items /\ files[k][s] \in Ranks \cup {0}
        /\ IsRegister(files[k][s], stored[k], s)
    BY DEF MetricsInv, FilesExact, Exact
  <2> QED
    BY <2>1, <2>2, RegisterUnique
<1> QED
  BY <1>1, MetricsInvariant, PTL

(* No file ever loses a count: a rename puts a larger set in the place of a  *)
(* smaller one (recorder.go, the rename that ends saveFile).                 *)
THEOREM SavesNeverLose == MetricsSpec => SavedStays
<1> DEFINE Grows == \A k \in Kinds, s \in Slots : files[k][s] <= files'[k][s]
<1>1. ASSUME MetricsInv, [MetricsNext]_metricsVars
      PROVE  Grows
  <2> SUFFICES ASSUME NEW k \in Kinds, NEW s \in Slots
               PROVE  files[k][s] <= files'[k][s]
    OBVIOUS
  <2>1. Exact(files[k], stored[k]) /\ Exact(registers[k], counted[k])
        /\ stored[k] \subseteq counted[k]
    BY <1>1 DEF MetricsInv, FilesExact, MemoryExact
  <2>2. CASE Rename /\ k = saving.kind
    <3>1. files'[k] = registers[k]
      BY <1>1, <2>2 DEF Rename, Up, MetricsInv, CopyCurrent, FilesExact
    <3> QED
      BY <2>1, <3>1, RegistersGrow
  <2>3. CASE ~(Rename /\ k = saving.kind)
    <3>1. files'[k] = files[k]
      BY <1>1, <2>3 DEF MetricsInv, FilesExact, MetricsNext, CountItem, BeginSave,
         WriteTemporary, Rename, RecorderSaveFails, Signal, ListenerFails,
         MainReturns, Killed, StartProcess, metricsVars
    <3> QED
      BY <2>1, <3>1, RegistersGrow
  <2> QED
    BY <2>2, <2>3
<1>2. MetricsInv /\ [MetricsNext]_metricsVars => [Grows]_metricsVars
  BY <1>1
<1> QED
  BY <1>2, MetricsInvariant, PTL DEF MetricsSpec, SavedStays

-----------------------------------------------------------------------------
Inside == {"write", "sync", "commit"}
Piece == [name : Names, whole : BOOLEAN]
torn == faults["torn"]

\* The line of a name, whole, among those that are on stable storage.
Held(k) ==
  \/ k \in Reserved
  \/ \E n \in Names : KeyOf[n] = k /\ \E i \in 1..durable : file[i] = <<Whole(n)>>

\* A write that reached the file in part and has not spoiled another one yet.
Open == IF ended THEN 0 ELSE 1
One(held) == IF held THEN 1 ELSE 0

\* The keys that were granted and that the file has lost.
Lost == {k \in Keys : granted[k] > 0 /\ ~Held(k)}

RegistryTypes ==
  /\ file \in Seq(Seq(Piece)) /\ ended \in BOOLEAN /\ durable \in 0..Len(file)
  /\ up \in BOOLEAN /\ claimed \subseteq Keys /\ bits \subseteq Bits
  /\ holder \in Callers \cup {NoCaller}
  /\ callPc \in [Callers -> Inside \cup {"idle", "answer"}]
  /\ name \in [Callers -> Names \cup {NoName}]
  /\ granted \in [Keys -> Nat] /\ tokens \subseteq Names /\ refused \in BOOLEAN
  /\ faults \in [{"call", "torn", "sync"} -> Nat]

\* Who is inside TryClaim, and how far the file is then.
Locked ==
  /\ \A c \in Callers : (holder = c) <=> callPc[c] \in Inside
  /\ \A c \in Callers : callPc[c] # "idle" => name[c] \in Names
  /\ \A c \in Callers : callPc[c] \in {"sync", "commit"} => ended
  /\ \A c \in Callers : callPc[c] = "commit" => durable = Len(file)
  /\ ~ended => durable < Len(file) /\ torn > 0

\* The bloom filter has no false negative, so it never hides a claimed name.
Filtered == \A k \in claimed : HashOf[k] \subseteq bits

(* A grant of a plain key is on file or in the map, or a torn write paid for *)
(* it; a torn write that has spoiled no other yet is still to be spent.      *)
Counted ==
  /\ \A k \in Keys : Plain(k) => granted[k] + Open <= torn + One(Held(k))
  /\ up => \A k \in Keys : Plain(k) => granted[k] + Open <= torn + One(k \in claimed)

LostFew == IsFiniteSet(Lost) /\ Cardinality(Lost) + Open <= torn

\* The same for the claim that is under way: room for its grant, and for more.
Afford(k, more) == Plain(k) => granted[k] + more <= torn

ClaimCounted ==
  \A c \in Callers :
    /\ callPc[c] = "write" => Afford(KeyOf[name[c]], Open)
    /\ callPc[c] \in {"sync", "commit"} =>
         /\ Afford(KeyOf[name[c]], 0)
         /\ \/ \E i \in 1..Len(file) : file[i] = <<Whole(name[c])>>
            \/ Afford(KeyOf[name[c]], 1) /\ Cardinality(Lost) + 1 <= torn

(* A name of any kind is granted once in each run of the server: it is in    *)
(* the map from then on, and the map is lost when the server stops.          *)
OncePerRun ==
  /\ stops \in Nat
  /\ \A k \in Keys : granted[k] <= stops + One(k \in claimed)
  /\ \A c \in Callers : callPc[c] \in Inside => up /\ KeyOf[name[c]] \notin claimed
  /\ ~up => claimed = {}

RegistryInv == RegistryTypes /\ Locked /\ Filtered
GrantInv == RegistryInv /\ Counted /\ LostFew /\ ClaimCounted

-----------------------------------------------------------------------------
\* Keys of names are keys.
LEMMA KeysOfNames ==
  /\ \A n \in Names : KeyOf[n] \in Keys
  /\ Reserved \subseteq Keys
  /\ \A k \in Keys : HashOf[k] \subseteq Bits
BY DEF Keys, Bits

LEMMA RegistryInitInv == RegistryInit => RegistryInv
<1> SUFFICES ASSUME RegistryInit PROVE RegistryInv
  OBVIOUS
<1> USE DEF RegistryInit
<1>1. BitsOf(Reserved) \subseteq Bits /\ \A k \in Reserved : HashOf[k] \subseteq BitsOf(Reserved)
  BY KeysOfNames DEF BitsOf
<1>2. RegistryTypes
  <2>1. /\ file \in Seq(Seq(Piece)) /\ Len(file) = 0 /\ ended \in BOOLEAN
        /\ durable \in 0..Len(file) /\ up \in BOOLEAN /\ refused \in BOOLEAN
    <3>1. <<>> \in Seq(Seq(Piece)) /\ Len(<<>>) = 0
      BY EmptySeq
    <3>2. file \in Seq(Seq(Piece)) /\ Len(file) = 0 /\ durable \in 0..Len(file)
      BY <3>1
    <3>3. ended \in BOOLEAN /\ up \in BOOLEAN /\ refused \in BOOLEAN
      OBVIOUS
    <3> QED
      BY <3>2, <3>3
  <2>2. claimed \subseteq Keys /\ bits \subseteq Bits /\ tokens \subseteq Names
    BY <1>1, KeysOfNames
  <2>3. /\ holder \in Callers \cup {NoCaller}
        /\ callPc \in [Callers -> Inside \cup {"idle", "answer"}]
        /\ name \in [Callers -> Names \cup {NoName}]
        /\ granted \in [Keys -> Nat]
    OBVIOUS
  <2>4. faults \in [{"call", "torn", "sync"} -> Nat]
    OBVIOUS
  <2> QED
    BY <2>1, <2>2, <2>3, <2>4 DEF RegistryTypes
<1>3. Locked
  BY UsernameAssumption DEF Locked, Inside
<1>4. Filtered
  BY <1>1 DEF Filtered
<1> QED
  BY <1>2, <1>3, <1>4 DEF RegistryInv

\* A piece of a write on its way into the file.
LEMMA PieceAppended ==
  ASSUME RegistryTypes, Locked, NEW piece \in Piece
  PROVE  /\ AppendPiece(piece) \in Seq(Seq(Piece))
         /\ Len(AppendPiece(piece)) = IF ended THEN Len(file) + 1 ELSE Len(file)
         /\ \A i \in 1..durable : AppendPiece(piece)[i] = file[i]
         /\ ended => AppendPiece(piece)[Len(file) + 1] = <<piece>>
         /\ durable < Len(AppendPiece(piece))
<1>1. file \in Seq(Seq(Piece)) /\ Len(file) \in Nat /\ durable \in 0..Len(file)
  BY DEF RegistryTypes
<1>2. CASE ended
  <2>1. <<piece>> \in Seq(Piece)
    OBVIOUS
  <2>2. AppendPiece(piece) = Append(file, <<piece>>)
    BY <1>2 DEF AppendPiece
  <2> DEFINE line == <<piece>>
  <2> HIDE DEF line
  <2>3. /\ Append(file, line) \in Seq(Seq(Piece))
        /\ Len(Append(file, line)) = Len(file) + 1
        /\ \A i \in 1..Len(file) : Append(file, line)[i] = file[i]
        /\ Append(file, line)[Len(file) + 1] = line
    BY <1>1, <2>1, AppendProperties DEF line
  <2> QED
    BY <1>1, <1>2, <2>2, <2>3 DEF line
<1>3. CASE ~ended
  <2>1. durable < Len(file) /\ Len(file) \in 1..Len(file)
    BY <1>1, <1>3 DEF Locked
  <2>2. file[Len(file)] \in Seq(Piece)
    BY <1>1, <2>1
  <2> DEFINE line == Append(file[Len(file)], piece)
  <2>3. line \in Seq(Piece)
    BY <2>2
  <2>4. AppendPiece(piece) = [file EXCEPT ![Len(file)] = line]
    BY <1>3 DEF AppendPiece
  <2> HIDE DEF line
  <2>5. /\ [file EXCEPT ![Len(file)] = line] \in Seq(Seq(Piece))
        /\ Len([file EXCEPT ![Len(file)] = line]) = Len(file)
        /\ \A j \in 1..Len(file) : j # Len(file) => [file EXCEPT ![Len(file)] = line][j] = file[j]
    BY <1>1, <2>1, <2>3, ExceptSeq
  <2>6. Len(AppendPiece(piece)) = Len(file)
    BY <2>4, <2>5
  <2>7. \A i \in 1..durable : AppendPiece(piece)[i] = file[i]
    <3> TAKE i \in 1..durable
    <3>1. i \in 1..Len(file) /\ i # Len(file)
      BY <1>1, <2>1
    <3> QED
      BY <2>4, <2>5, <3>1
  <2>8. AppendPiece(piece) \in Seq(Seq(Piece))
    BY <2>4, <2>5
  <2> QED
    BY <1>3, <2>1, <2>6, <2>7, <2>8
<1> QED
  BY <1>2, <1>3

\* What a stop leaves of the file.
LEMMA StopFile ==
  ASSUME RegistryTypes, Locked, NEW kept \in durable..Len(file),
         LinesSurvive(kept) \/ LineIsCut(kept)
  PROVE  /\ file' \in Seq(Seq(Piece)) /\ ended' \in BOOLEAN /\ durable' \in 0..Len(file')
         /\ durable <= durable'
         /\ \A i \in 1..durable : file'[i] = file[i]
         /\ ~ended' => durable' < Len(file') /\ faults'["torn"] > 0
         /\ faults' \in [{"call", "torn", "sync"} -> Nat]
         /\ faults["torn"] + (IF ended' THEN 0 ELSE 1) <= faults'["torn"] + Open
<1>1. file \in Seq(Seq(Piece)) /\ Len(file) \in Nat /\ durable \in 0..Len(file) /\ kept \in Nat
      /\ faults \in [{"call", "torn", "sync"} -> Nat] /\ ended \in BOOLEAN
  BY DEF RegistryTypes
<1> DEFINE first == SubSeq(file, 1, kept)
<1>2. /\ first \in Seq(Seq(Piece)) /\ Len(first) = kept
      /\ \A i \in 1..kept : first[i] = file[i]
  <2>1. \A i \in 1..kept : file[i] \in Seq(Piece)
    BY <1>1
  <2> QED
    BY <1>1, <2>1
<1> HIDE DEF first
<1>3. CASE LinesSurvive(kept)
  <2>1. file' = first /\ ended' = (ended \/ kept < Len(file)) /\ faults' = faults
        /\ durable' = IF ended' THEN kept ELSE kept - 1
    BY <1>3 DEF LinesSurvive, first
  <2>2. CASE ended'
    BY <1>1, <1>2, <2>1, <2>2 DEF Open
  <2>3. CASE ~ended'
    <3>1. ~ended /\ ~(kept < Len(file))
      BY <2>1, <2>3, Zenon
    <3>2. kept = Len(file) /\ durable < Len(file) /\ faults["torn"] > 0
      BY <1>1, <3>1 DEF Locked, torn
    <3>3. durable' = kept - 1
      BY <2>1, <2>3
    <3>4. /\ durable' \in 0..Len(file') /\ durable <= durable' /\ durable' < Len(file')
          /\ \A i \in 1..durable : file'[i] = file[i]
      <4>1. Len(file') = kept
        BY <1>2, <2>1
      <4>2. durable \in Nat /\ kept \in Nat /\ durable < kept
        BY <1>1, <3>2
      <4>3. kept - 1 \in 0..kept /\ durable <= kept - 1 /\ kept - 1 < kept
        BY <4>2
      <4>4. \A i \in 1..durable : i \in 1..kept
        BY <4>2
      <4>5. \A i \in 1..durable : file'[i] = file[i]
        BY <1>2, <2>1, <4>4
      <4> QED
        BY <3>3, <4>1, <4>3, <4>5
    <3>5. faults["torn"] + (IF ended' THEN 0 ELSE 1) <= faults'["torn"] + Open
      BY <1>1, <2>1, <2>3, <3>1 DEF Open
    <3> QED
      BY <1>1, <1>2, <2>1, <2>3, <3>2, <3>4, <3>5
  <2> QED
    BY <2>1, <2>2, <2>3
<1>4. CASE LineIsCut(kept)
  <2> DEFINE line == Cut(file[kept + 1])
  <2>1. /\ kept < Len(file) /\ file' = Append(first, line) /\ ended' = FALSE /\ durable' = kept
        /\ faults' = [faults EXCEPT !["torn"] = @ + 1]
    BY <1>4 DEF LineIsCut, Fault, first
  <2>2. file[kept + 1] \in Seq(Piece)
    BY <1>1, <2>1
  <2>3. line \in Seq(Piece)
    <3> DEFINE old == file[kept + 1]
    <3>1. old \in Seq(Piece)
      BY <2>2
    <3> HIDE DEF old
    <3>2. line = [old EXCEPT ![Len(old)] = Torn(old[Len(old)].name)]
      BY DEF Cut, old
    <3>3. CASE Len(old) = 0
      <4>1. DOMAIN old = {} /\ Len(old) \notin DOMAIN old
        BY <3>1, <3>3
      <4>2. line = old
        BY <3>1, <3>2, <4>1
      <4> QED
        BY <3>1, <4>2
    <3>4. CASE Len(old) # 0
      <4>1. Len(old) \in 1..Len(old)
        BY <3>1, <3>4
      <4>2. old[Len(old)] \in Piece
        BY <3>1, <4>1
      <4>3. Torn(old[Len(old)].name) \in Piece
        BY <4>2 DEF Torn, Piece
      <4> QED
        BY <3>1, <3>2, <4>1, <4>3, ExceptSeq
    <3> QED
      BY <3>3, <3>4
  <2> HIDE DEF line
  <2>4. /\ Append(first, line) \in Seq(Seq(Piece)) /\ Len(Append(first, line)) = kept + 1
        /\ \A i \in 1..kept : Append(first, line)[i] = file[i]
    BY <1>2, <2>3, AppendProperties
  <2>5. faults' \in [{"call", "torn", "sync"} -> Nat] /\ faults'["torn"] = faults["torn"] + 1
    BY <1>1, <2>1
  <2>6. /\ durable' \in 0..Len(file') /\ durable <= durable' /\ durable' < Len(file')
        /\ \A i \in 1..durable : file'[i] = file[i]
    BY <1>1, <2>1, <2>4
  <2>7. faults["torn"] + (IF ended' THEN 0 ELSE 1) <= faults'["torn"] + Open /\ faults'["torn"] > 0
    BY <1>1, <2>1, <2>5 DEF Open
  <2> QED
    BY <2>1, <2>4, <2>5, <2>6, <2>7
<1> QED
  BY <1>3, <1>4

-----------------------------------------------------------------------------
\* What is held stays held while lines on stable storage stay.
LEMMA HeldKept ==
  ASSUME durable \in Nat, durable' \in Nat, durable <= durable',
         \A i \in 1..durable : file'[i] = file[i]
  PROVE  \A k \in Keys : Held(k) => Held(k)'
<1>1. 1..durable \subseteq 1..durable'
  OBVIOUS
<1> QED
  BY <1>1 DEF Held

\* Counted and LostFew, for every step that grants nothing and starts nothing.
LEMMA CountKept ==
  ASSUME RegistryTypes, RegistryTypes', Counted, LostFew,
         UNCHANGED granted,
         \A k \in Keys : Held(k) => Held(k)',
         torn + Open' <= torn' + Open,
         up' => up /\ claimed \subseteq claimed'
  PROVE  Counted' /\ LostFew' /\ Cardinality(Lost') <= Cardinality(Lost)
<1>1. torn \in Nat /\ torn' \in Nat /\ granted \in [Keys -> Nat]
  BY DEF RegistryTypes, torn
<1>2. Open \in Nat /\ Open' \in Nat
  BY DEF Open
<1>3. \A k \in Keys : One(Held(k)) <= One(Held(k)') /\ One(Held(k)) \in Nat /\ One(Held(k)') \in Nat
  BY DEF One
<1>4. up' => \A k \in Keys : /\ One(k \in claimed) <= One(k \in claimed')
                             /\ One(k \in claimed) \in Nat /\ One(k \in claimed') \in Nat
  BY DEF One
<1>5. Counted'
  <2>1. ASSUME NEW k \in Keys, Plain(k) PROVE granted'[k] + Open' <= torn' + One(Held(k)')
    <3>1. granted[k] + Open <= torn + One(Held(k)) /\ granted[k] \in Nat
      BY <1>1, <2>1 DEF Counted
    <3> DEFINE before == One(Held(k))
               after == One(Held(k)')
    <3>2. before <= after /\ before \in Nat /\ after \in Nat
      BY <1>3
    <3> HIDE DEF before, after
    <3>3. granted[k] + Open <= torn + before
      BY <3>1 DEF before
    <3>4. granted[k] + Open' <= torn' + after
      BY <1>2, <1>1, <3>1, <3>2, <3>3 DEF torn, Open
    <3> QED
      BY <3>4 DEF after
  <2>2. ASSUME NEW k \in Keys, Plain(k), up'
        PROVE  granted'[k] + Open' <= torn' + One(k \in claimed')
    <3>1. granted[k] + Open <= torn + One(k \in claimed) /\ granted[k] \in Nat
      BY <1>1, <2>2 DEF Counted
    <3> DEFINE before == One(k \in claimed)
               after == One(k \in claimed')
    <3>2. before <= after /\ before \in Nat /\ after \in Nat
      BY <1>4, <2>2
    <3> HIDE DEF before, after
    <3>3. granted[k] + Open <= torn + before
      BY <3>1 DEF before
    <3>4. granted[k] + Open' <= torn' + after
      BY <1>2, <1>1, <3>1, <3>2, <3>3 DEF torn, Open
    <3> QED
      BY <3>4 DEF after
  <2> QED
    BY <2>1, <2>2 DEF Counted
<1>6. IsFiniteSet(Lost') /\ Cardinality(Lost') <= Cardinality(Lost)
  <2>1. Lost' \subseteq Lost
    BY DEF Lost
  <2> QED
    BY <2>1, FS_Subset DEF LostFew
<1>7. LostFew'
  <2>1. Cardinality(Lost) \in Nat /\ Cardinality(Lost') \in Nat
    BY <1>6, FS_CardinalityType DEF LostFew
  <2> QED
    <3> DEFINE card == Cardinality(Lost)
               card2 == Cardinality(Lost')
    <3>1. card \in Nat /\ card2 \in Nat /\ card2 <= card /\ card + Open <= torn
      BY <1>6, <2>1 DEF LostFew
    <3> HIDE DEF card, card2
    <3>2. card2 + Open' <= torn'
      BY <1>2, <1>1, <3>1 DEF torn, Open
    <3> QED
      BY <1>6, <3>2 DEF LostFew, card2
<1> QED
  BY <1>5, <1>6, <1>7

-----------------------------------------------------------------------------
\* Only the holder of the lock is inside TryClaim.
LEMMA OneInside ==
  ASSUME Locked, NEW c \in Callers, callPc[c] \in Inside
  PROVE  holder = c /\ \A d \in Callers : d # c => callPc[d] \notin Inside
BY DEF Locked

\* A fault of another kind leaves the count of torn writes.
LEMMA OtherFault ==
  ASSUME RegistryTypes, NEW kind \in {"call", "sync"}, NEW max, Fault(kind, max)
  PROVE  torn' = torn /\ faults' \in [{"call", "torn", "sync"} -> Nat]
BY DEF RegistryTypes, Fault, torn

LEMMA TornFault ==
  ASSUME RegistryTypes, NEW max, Fault("torn", max)
  PROVE  torn' = torn + 1 /\ torn \in Nat /\ faults' \in [{"call", "torn", "sync"} -> Nat]
BY DEF RegistryTypes, Fault, torn

\* Nobody else's claim is touched by a step that leaves the file and the counts.
LEMMA QuietStep ==
  ASSUME GrantInv, RegistryTypes', UNCHANGED <<file, ended, durable, granted>>, torn' = torn,
         up' => up /\ claimed \subseteq claimed'
  PROVE  Counted' /\ LostFew' /\ Lost' = Lost /\ Open' = Open
<1>1. Open' = Open /\ Open \in Nat /\ torn \in Nat
  BY DEF Open, torn, GrantInv, RegistryInv, RegistryTypes
<1>2. \A k \in Keys : Held(k)' = Held(k)
  BY DEF Held
<1>3. Lost' = Lost
  BY <1>2 DEF Lost
<1>4. torn + Open' <= torn' + Open
  BY <1>1 DEF torn, Open
<1> QED
  BY <1>1, <1>2, <1>3, <1>4, CountKept DEF GrantInv, RegistryInv

LEMMA ClaimInv ==
  ASSUME RegistryInv, NEW c \in Callers, NEW n \in Names, Claim(c, n)
  PROVE  RegistryInv' /\ (GrantInv => GrantInv')
<1>1. /\ up /\ callPc[c] = "idle" /\ holder = NoCaller
      /\ UNCHANGED <<file, ended, durable, up, claimed, bits, granted, tokens, refused>>
  BY DEF Claim, store, memory, history
<1>2. torn' = torn /\ faults' \in [{"call", "torn", "sync"} -> Nat]
  BY OtherFault DEF Claim, RegistryInv
<1>3. \A d \in Callers : callPc[d] \notin Inside
  BY <1>1, UsernameAssumption DEF RegistryInv, Locked
<1>4. CASE UNCHANGED <<holder, callPc, name>>
  <2>1. RegistryTypes'
    BY <1>1, <1>2, <1>4 DEF RegistryInv, RegistryTypes
  <2>2. Locked'
    BY <1>1, <1>2, <1>4 DEF RegistryInv, Locked
  <2>3. Filtered'
    BY <1>1 DEF RegistryInv, Filtered
  <2>4. ClaimCounted'
    BY <1>3, <1>4 DEF ClaimCounted, Inside
  <2>5. GrantInv => Counted' /\ LostFew'
    BY <1>1, <1>2, <2>1, QuietStep
  <2> QED
    BY <2>1, <2>2, <2>3, <2>4, <2>5 DEF RegistryInv, GrantInv
<1>5. CASE /\ ~IsClaimed(KeyOf[n])
           /\ holder' = c /\ name' = [name EXCEPT ![c] = n] /\ CallGoto(c, "write")
  <2>1. callPc' = [callPc EXCEPT ![c] = "write"]
    BY <1>5 DEF CallGoto
  <2>2. RegistryTypes'
    BY <1>1, <1>2, <1>5, <2>1 DEF RegistryInv, RegistryTypes, Inside
  <2>3. Locked'
    BY <1>1, <1>2, <1>3, <1>5, <2>1 DEF RegistryInv, Locked, RegistryTypes, Inside
  <2>4. Filtered'
    BY <1>1 DEF RegistryInv, Filtered
  <2>5. ASSUME GrantInv PROVE GrantInv'
    <3>1. Counted' /\ LostFew' /\ Open' = Open
      BY <1>1, <1>2, <2>2, <2>5, QuietStep
    <3>2. KeyOf[n] \in Keys /\ KeyOf[n] \notin claimed
      BY <1>5, KeysOfNames DEF IsClaimed, MightContain, RegistryInv, Filtered
    <3>3. Afford(KeyOf[n], Open)
      <4>1. Plain(KeyOf[n]) => granted[KeyOf[n]] + Open <= torn + One(KeyOf[n] \in claimed)
        BY <1>1, <2>5, <3>2 DEF GrantInv, Counted
      <4>2. One(KeyOf[n] \in claimed) = 0 /\ torn \in Nat
        BY <3>2 DEF One, RegistryInv, RegistryTypes, torn
      <4> QED
        BY <4>1, <4>2 DEF Afford
    <3>4. ClaimCounted'
      <4>1. ASSUME NEW d \in Callers, d # c PROVE callPc'[d] \notin Inside
        BY <1>3, <2>1, <4>1 DEF RegistryInv, RegistryTypes
      <4>2. callPc'[c] = "write" /\ name'[c] = n
        BY <1>5, <2>1 DEF RegistryInv, RegistryTypes
      <4>3. Afford(KeyOf[name[c]], Open)'
        BY <1>1, <1>2, <3>1, <3>3, <4>2 DEF Afford
      <4> QED
        BY <4>1, <4>2, <4>3 DEF ClaimCounted, Inside
    <3> QED
      BY <2>2, <2>3, <2>4, <3>1, <3>4 DEF GrantInv, RegistryInv
  <2> QED
    BY <2>2, <2>3, <2>4, <2>5 DEF RegistryInv
<1> QED
  BY <1>4, <1>5 DEF Claim

\* A step after which its caller is outside, and that leaves the file, adds nothing.
LEMMA LeaveInv ==
  ASSUME RegistryInv, NEW c \in Callers, Answer(c) \/ SyncFails(c) \/ \E n \in Names : Reconnect(c, n)
  PROVE  RegistryInv' /\ (GrantInv => GrantInv')
<1>1. /\ UNCHANGED <<file, ended, durable, up, claimed, bits, granted>>
      /\ \/ callPc' = [callPc EXCEPT ![c] = "idle"] /\ name' = [name EXCEPT ![c] = NoName]
         \/ UNCHANGED <<callPc, name>>
      /\ \/ UNCHANGED holder /\ callPc[c] \notin Inside
         \/ holder' = NoCaller /\ callPc[c] = "sync" /\ callPc' = [callPc EXCEPT ![c] = "idle"]
      /\ tokens' \subseteq Names /\ refused' \in BOOLEAN
  <2>1. CASE Answer(c)
    BY <2>1 DEF Answer, store, memory, CallGoto, Inside, RegistryInv, RegistryTypes, Locked
  <2>2. CASE SyncFails(c)
    BY <2>2 DEF SyncFails, store, memory, CallGoto, Unlock, RegistryInv, RegistryTypes
  <2>3. ASSUME NEW n \in Names, Reconnect(c, n)
        PROVE  /\ UNCHANGED <<file, ended, durable, up, claimed, bits, granted, callPc, name, holder, tokens>>
               /\ callPc[c] \notin Inside /\ refused' \in BOOLEAN
    BY <2>3 DEF Reconnect, store, memory, Inside, RegistryInv, RegistryTypes
  <2> QED
    BY <2>1, <2>2, <2>3 DEF RegistryInv, RegistryTypes
<1>2. torn' = torn /\ faults' \in [{"call", "torn", "sync"} -> Nat]
  <2>1. CASE Answer(c)
    BY <2>1 DEF Answer, torn, RegistryInv, RegistryTypes
  <2>2. CASE SyncFails(c)
    BY <2>2, OtherFault DEF SyncFails, RegistryInv
  <2>3. ASSUME NEW n \in Names, Reconnect(c, n)
        PROVE  torn' = torn /\ faults' \in [{"call", "torn", "sync"} -> Nat]
    BY <2>3, OtherFault DEF Reconnect, RegistryInv
  <2> QED
    BY <2>1, <2>2, <2>3
<1>3. RegistryTypes'
  BY <1>1, <1>2 DEF RegistryInv, RegistryTypes
<1>4. \A d \in Callers : \/ callPc'[d] = callPc[d] /\ name'[d] = name[d]
                         \/ callPc'[d] = "idle"
  BY <1>1 DEF RegistryInv, RegistryTypes
<1>5. Locked'
  <2>1. \A d \in Callers : (holder' = d) <=> callPc'[d] \in Inside
    BY <1>1, OneInside, UsernameAssumption DEF RegistryInv, RegistryTypes, Locked, Inside
  <2>2. ~ended' => durable' < Len(file') /\ torn' > 0
    BY <1>1, <1>2 DEF RegistryInv, Locked
  <2> QED
    BY <1>1, <1>4, <2>1, <2>2 DEF RegistryInv, Locked
<1>6. Filtered'
  BY <1>1 DEF RegistryInv, Filtered
<1>7. ASSUME GrantInv PROVE Counted' /\ LostFew' /\ ClaimCounted'
  <2>1. Counted' /\ LostFew' /\ Lost' = Lost /\ Open' = Open
    BY <1>1, <1>2, <1>3, <1>7, QuietStep
  <2>2. ClaimCounted'
    <3>1. SUFFICES ASSUME NEW d \in Callers, callPc'[d] \in Inside
                   PROVE  /\ callPc'[d] = "write" => Afford(KeyOf[name[d]], Open)'
                          /\ callPc'[d] \in {"sync", "commit"} =>
                               /\ Afford(KeyOf[name[d]], 0)'
                               /\ \/ \E i \in 1..Len(file') : file'[i] = <<Whole(name'[d])>>
                                  \/ /\ Afford(KeyOf[name[d]], 1)'
                                     /\ Cardinality(Lost') + 1 <= torn'
      BY DEF ClaimCounted, Inside
    <3>2. callPc'[d] = callPc[d] /\ name'[d] = name[d]
      BY <1>4, <3>1 DEF Inside
    <3> QED
      BY <1>1, <1>2, <1>7, <2>1, <3>2 DEF GrantInv, ClaimCounted, Afford
  <2> QED
    BY <2>1, <2>2
<1> QED
  BY <1>3, <1>5, <1>6, <1>7 DEF RegistryInv, GrantInv

\* The line of a write, whole, and what it joins when the last line is open.
LEMMA WriteInv ==
  ASSUME RegistryInv, NEW c \in Callers, Write(c)
  PROVE  RegistryInv' /\ (GrantInv => GrantInv')
<1>1. /\ callPc[c] = "write" /\ callPc' = [callPc EXCEPT ![c] = "sync"]
      /\ file' = AppendPiece(Whole(name[c])) /\ ended' = TRUE
      /\ UNCHANGED <<durable, up, claimed, bits, holder, name, granted, tokens, refused, faults>>
  BY DEF Write, memory, history, CallGoto
<1>2. name[c] \in Names /\ Whole(name[c]) \in Piece /\ holder = c
      /\ \A d \in Callers : d # c => callPc[d] \notin Inside
  BY <1>1, OneInside DEF RegistryInv, Locked, Whole, Piece, Inside
<1>3. /\ file' \in Seq(Seq(Piece)) /\ durable' \in 0..Len(file')
      /\ \A i \in 1..durable : file'[i] = file[i]
      /\ ended => Len(file) + 1 = Len(file') /\ file'[Len(file')] = <<Whole(name[c])>>
  <2>1. Len(file) \in Nat /\ durable \in 0..Len(file)
    BY DEF RegistryInv, RegistryTypes
  <2> DEFINE piece == Whole(name[c])
  <2>2. piece \in Piece
    BY <1>2
  <2> HIDE DEF piece
  <2>3. file' = AppendPiece(piece)
    BY <1>1 DEF piece
  <2>4. /\ file' \in Seq(Seq(Piece))
        /\ Len(file') = IF ended THEN Len(file) + 1 ELSE Len(file)
        /\ \A i \in 1..durable : file'[i] = file[i]
        /\ ended => file'[Len(file) + 1] = <<piece>>
    BY <2>2, <2>3, PieceAppended DEF RegistryInv
  <2>5. durable' \in 0..Len(file')
    BY <1>1, <2>1, <2>4
  <2> QED
    BY <2>4, <2>5 DEF piece
<1>4. RegistryTypes'
  BY <1>1, <1>3 DEF RegistryInv, RegistryTypes, Inside
<1>5. Locked'
  BY <1>1, <1>2 DEF RegistryInv, Locked, RegistryTypes, Inside
<1>6. Filtered'
  BY <1>1 DEF RegistryInv, Filtered
<1>7. ASSUME GrantInv PROVE Counted' /\ LostFew' /\ ClaimCounted'
  <2>0. torn \in Nat /\ torn' = torn /\ Open \in Nat /\ Open' = 0 /\ (~ended => Open = 1)
    BY <1>1 DEF RegistryInv, RegistryTypes, torn, Open
  <2>1. \A k \in Keys : Held(k) => Held(k)'
    BY <1>1, <1>3 DEF Held
  <2>2. torn + Open' <= torn' + Open
    BY <1>1, <2>0 DEF torn, Open, RegistryInv, RegistryTypes
  <2>3. Counted' /\ LostFew' /\ Cardinality(Lost') <= Cardinality(Lost)
    BY <1>1, <1>4, <1>7, <2>1, <2>2, CountKept DEF GrantInv, RegistryInv
  <2>4. callPc'[c] = "sync" /\ name'[c] = name[c] /\ \A d \in Callers : d # c => callPc'[d] \notin Inside
    BY <1>1, <1>2 DEF RegistryInv, RegistryTypes
  <2>5. KeyOf[name[c]] \in Keys /\ Afford(KeyOf[name[c]], Open)
    BY <1>1, <1>2, <1>7, KeysOfNames DEF GrantInv, ClaimCounted
  <2>6. granted[KeyOf[name[c]]] \in Nat
    BY <2>5 DEF RegistryInv, RegistryTypes
  <2>7. Afford(KeyOf[name[c]], 0)
    BY <2>0, <2>5, <2>6 DEF torn, Open, Afford
  <2>8. \/ \E i \in 1..Len(file') : file'[i] = <<Whole(name[c])>>
        \/ Afford(KeyOf[name[c]], 1) /\ Cardinality(Lost') + 1 <= torn
    <3>1. CASE ended
      <4>1. Len(file') \in 1..Len(file')
        BY <1>3, <3>1 DEF RegistryInv, RegistryTypes
      <4> QED
        BY <1>3, <3>1, <4>1
    <3>2. CASE ~ended
      <4> DEFINE card == Cardinality(Lost)
                 card2 == Cardinality(Lost')
      <4>1. card \in Nat /\ card2 \in Nat /\ card2 <= card /\ card + 1 <= torn
        BY <1>7, <2>0, <2>3, <3>2, FS_CardinalityType DEF GrantInv, LostFew
      <4> HIDE DEF card, card2
      <4>2. card2 + 1 <= torn
        BY <2>0, <4>1 DEF torn
      <4>3. Afford(KeyOf[name[c]], 1)
        BY <2>0, <2>5, <3>2 DEF Afford
      <4> QED
        BY <4>2, <4>3 DEF card2
    <3> QED
      BY <3>1, <3>2
  <2>9. ClaimCounted'
    BY <1>1, <2>0, <2>4, <2>7, <2>8 DEF ClaimCounted, Inside, Afford
  <2> QED
    BY <2>3, <2>9
<1> QED
  BY <1>4, <1>5, <1>6, <1>7 DEF RegistryInv, GrantInv

LEMMA WriteFailsInv ==
  ASSUME RegistryInv, NEW c \in Callers, WriteFails(c)
  PROVE  RegistryInv' /\ (GrantInv => GrantInv')
<1>1. /\ callPc[c] = "write" /\ callPc' = [callPc EXCEPT ![c] = "idle"]
      /\ holder' = NoCaller /\ name' = [name EXCEPT ![c] = NoName]
      /\ UNCHANGED <<durable, up, claimed, bits, granted, tokens, refused>>
  BY DEF WriteFails, memory, CallGoto, Unlock
<1>2. name[c] \in Names /\ holder = c /\ \A d \in Callers : d # c => callPc[d] \notin Inside
  BY <1>1, OneInside DEF RegistryInv, Locked, Inside
<1>3. \A d \in Callers : callPc'[d] \notin Inside
  BY <1>1, <1>2 DEF RegistryInv, RegistryTypes, Inside
<1>4. /\ file' \in Seq(Seq(Piece)) /\ durable' \in 0..Len(file') /\ ended' \in BOOLEAN
      /\ faults' \in [{"call", "torn", "sync"} -> Nat]
      /\ \A i \in 1..durable : file'[i] = file[i]
      /\ ~ended' => durable' < Len(file') /\ torn' > 0
      /\ torn + Open' <= torn' + Open
  <2>0. /\ file \in Seq(Seq(Piece)) /\ Len(file) \in Nat /\ durable \in 0..Len(file)
        /\ torn \in Nat /\ ended \in BOOLEAN /\ faults \in [{"call", "torn", "sync"} -> Nat]
    BY DEF RegistryInv, RegistryTypes, torn
  <2>1. CASE UNCHANGED <<file, ended, faults>>
    <3>1. torn' = torn /\ Open' = Open
      BY <2>1 DEF torn, Open
    <3>2. torn + Open' <= torn' + Open
      BY <2>0, <3>1 DEF torn, Open
    <3> QED
      BY <1>1, <2>0, <2>1, <3>1, <3>2 DEF RegistryInv, Locked
  <2>2. CASE /\ Fault("torn", MaxTorn)
             /\ file' = AppendPiece(Torn(name[c])) /\ ended' = FALSE
    <3> DEFINE piece == Torn(name[c])
    <3>1. piece \in Piece
      BY <1>2 DEF Torn, Piece
    <3> HIDE DEF piece
    <3>2. file' = AppendPiece(piece)
      BY <2>2 DEF piece
    <3>3. /\ file' \in Seq(Seq(Piece)) /\ \A i \in 1..durable : file'[i] = file[i]
          /\ durable < Len(file') /\ Len(file') \in Nat
      BY <3>1, <3>2, PieceAppended DEF RegistryInv
    <3>4. torn' = torn + 1 /\ faults' \in [{"call", "torn", "sync"} -> Nat]
      BY <2>2, TornFault DEF RegistryInv
    <3>5. torn' > 0 /\ torn + Open' <= torn' + Open
      BY <2>0, <2>2, <3>4 DEF torn, Open
    <3>6. durable' = durable /\ durable \in Nat
      BY <1>1, <2>0
    <3>7. durable' \in 0..Len(file') /\ durable' < Len(file')
      BY <3>3, <3>6
    <3>8. ended' \in BOOLEAN
      BY <2>2
    <3> QED
      BY <3>3, <3>4, <3>5, <3>7, <3>8
  <2> QED
    BY <2>1, <2>2 DEF WriteFails
<1>5. RegistryTypes'
  BY <1>1, <1>4 DEF RegistryInv, RegistryTypes, Inside
<1>6. Locked'
  <2>1. \A d \in Callers : callPc'[d] # "idle" => callPc'[d] = callPc[d] /\ name'[d] = name[d]
    BY <1>1 DEF RegistryInv, RegistryTypes
  <2> QED
    BY <1>1, <1>3, <1>4, <2>1, UsernameAssumption DEF RegistryInv, Locked, Inside
<1>7. Filtered'
  BY <1>1 DEF RegistryInv, Filtered
<1>8. ASSUME GrantInv PROVE Counted' /\ LostFew' /\ ClaimCounted'
  <2>1. \A k \in Keys : Held(k) => Held(k)'
    BY <1>1, <1>4 DEF Held
  <2>2. Counted' /\ LostFew'
    BY <1>1, <1>4, <1>5, <1>8, <2>1, CountKept DEF GrantInv, RegistryInv
  <2>3. ClaimCounted'
    BY <1>3 DEF ClaimCounted, Inside
  <2> QED
    BY <2>2, <2>3
<1> QED
  BY <1>5, <1>6, <1>7, <1>8 DEF RegistryInv, GrantInv

LEMMA SyncInv ==
  ASSUME RegistryInv, NEW c \in Callers, Sync(c)
  PROVE  RegistryInv' /\ (GrantInv => GrantInv')
<1>1. /\ callPc[c] = "sync" /\ callPc' = [callPc EXCEPT ![c] = "commit"]
      /\ durable' = Len(file)
      /\ UNCHANGED <<file, ended, up, claimed, bits, holder, name, granted, tokens, refused, faults>>
  BY DEF Sync, Synced, memory, history, CallGoto
<1>2. holder = c /\ ended /\ \A d \in Callers : d # c => callPc[d] \notin Inside
  BY <1>1, OneInside DEF RegistryInv, Locked, Inside
<1>3. /\ Len(file) \in Nat /\ durable \in 0..Len(file) /\ durable' \in 0..Len(file')
      /\ durable <= durable'
  BY <1>1 DEF RegistryInv, RegistryTypes
<1>4. RegistryTypes'
  BY <1>1, <1>3 DEF RegistryInv, RegistryTypes, Inside
<1>5. Locked'
  BY <1>1, <1>2, <1>3 DEF RegistryInv, Locked, RegistryTypes, Inside
<1>6. Filtered'
  BY <1>1 DEF RegistryInv, Filtered
<1>7. ASSUME GrantInv PROVE Counted' /\ LostFew' /\ ClaimCounted'
  <2>0. torn \in Nat /\ torn' = torn /\ Open' = Open
    BY <1>1 DEF RegistryInv, RegistryTypes, torn, Open
  <2>1. \A k \in Keys : Held(k) => Held(k)'
    BY <1>1, <1>3, HeldKept
  <2>2. torn + Open' <= torn' + Open
    BY <1>1, <2>0 DEF torn, Open
  <2>3. Counted' /\ LostFew' /\ Cardinality(Lost') <= Cardinality(Lost)
    BY <1>1, <1>4, <1>7, <2>1, <2>2, CountKept DEF GrantInv, RegistryInv
  <2>4. callPc'[c] = "commit" /\ name'[c] = name[c] /\ \A d \in Callers : d # c => callPc'[d] \notin Inside
    BY <1>1, <1>2 DEF RegistryInv, RegistryTypes
  <2>5. /\ Afford(KeyOf[name[c]], 0)
        /\ \/ \E i \in 1..Len(file) : file[i] = <<Whole(name[c])>>
           \/ Afford(KeyOf[name[c]], 1) /\ Cardinality(Lost) + 1 <= torn
    BY <1>1, <1>7 DEF GrantInv, ClaimCounted
  <2>6. Cardinality(Lost) + 1 <= torn => Cardinality(Lost') + 1 <= torn
    <3> DEFINE card == Cardinality(Lost)
               card2 == Cardinality(Lost')
    <3>1. card \in Nat /\ card2 \in Nat /\ card2 <= card
      BY <1>7, <2>3, FS_CardinalityType DEF GrantInv, LostFew
    <3> HIDE DEF card, card2
    <3>2. card + 1 <= torn => card2 + 1 <= torn
      BY <2>0, <3>1 DEF torn
    <3> QED
      BY <3>2 DEF card, card2
  <2>7. ClaimCounted'
    BY <1>1, <2>0, <2>4, <2>5, <2>6 DEF ClaimCounted, Inside, Afford
  <2> QED
    BY <2>3, <2>7
<1> QED
  BY <1>4, <1>5, <1>6, <1>7 DEF RegistryInv, GrantInv

\* The claim succeeds: the grant is on file, or a torn write has paid for it.
LEMMA CommitInv ==
  ASSUME RegistryInv, NEW c \in Callers, Commit(c)
  PROVE  RegistryInv' /\ (GrantInv => GrantInv')
<1>1. callPc[c] = "commit"
  BY DEF Commit
<1>2. /\ name[c] \in Names /\ holder = c /\ ended /\ durable = Len(file)
      /\ \A d \in Callers : d # c => callPc[d] \notin Inside
  BY <1>1, OneInside DEF RegistryInv, Locked, Inside
<1>3. PICK k \in Keys : k = KeyOf[name[c]]
  BY <1>2, KeysOfNames
<1>4. /\ callPc[c] = "commit" /\ callPc' = [callPc EXCEPT ![c] = "answer"]
      /\ claimed' = claimed \cup {k} /\ bits' = bits \cup HashOf[k]
      /\ granted' = [granted EXCEPT ![k] = @ + 1] /\ holder' = NoCaller
      /\ UNCHANGED <<file, ended, durable, up, name, tokens, refused, faults>>
  BY <1>3 DEF Commit, store, CallGoto
<1>5. /\ granted \in [Keys -> Nat] /\ granted' \in [Keys -> Nat] /\ granted'[k] = granted[k] + 1
      /\ \A j \in Keys : j # k => granted'[j] = granted[j]
  BY <1>4, <1>3 DEF RegistryInv, RegistryTypes
<1>6. \A d \in Callers : callPc'[d] \notin Inside
  BY <1>4, <1>2 DEF RegistryInv, RegistryTypes, Inside
<1>7. RegistryTypes'
  <2>1. callPc' \in [Callers -> Inside \cup {"idle", "answer"}] /\ holder' \in Callers \cup {NoCaller}
    BY <1>4 DEF RegistryInv, RegistryTypes
  <2>2. claimed' \subseteq Keys /\ bits' \subseteq Bits
    BY <1>4, <1>3, KeysOfNames DEF RegistryInv, RegistryTypes
  <2> QED
    BY <1>4, <1>5, <2>1, <2>2 DEF RegistryInv, RegistryTypes
<1>8. Locked'
  <2>1. \A d \in Callers : callPc'[d] # "idle" => name'[d] \in Names
    BY <1>4, <1>2 DEF RegistryInv, RegistryTypes, Locked
  <2> QED
    BY <1>4, <1>2, <1>6, <2>1, UsernameAssumption DEF RegistryInv, Locked, Inside
<1>9. Filtered'
  BY <1>4 DEF RegistryInv, Filtered
<1>10. ASSUME GrantInv PROVE Counted' /\ LostFew' /\ ClaimCounted'
  <2>0. torn \in Nat /\ torn' = torn /\ Open = 0 /\ Open' = 0
    BY <1>4, <1>2 DEF RegistryInv, RegistryTypes, torn, Open
  <2>1. \A j \in Keys : Held(j)' = Held(j)
    BY <1>4 DEF Held
  <2>2. /\ Afford(k, 0)
        /\ Held(k) \/ (Afford(k, 1) /\ Cardinality(Lost) + 1 <= torn)
    <3>1. /\ Afford(k, 0)
          /\ \/ \E i \in 1..Len(file) : file[i] = <<Whole(name[c])>>
             \/ Afford(k, 1) /\ Cardinality(Lost) + 1 <= torn
      BY <1>4, <1>3, <1>10 DEF GrantInv, ClaimCounted
    <3> QED
      BY <1>2, <1>3, <3>1 DEF Held
  <2>3. \A j \in Keys : Plain(j) => granted'[j] + Open' <= torn' + One(Held(j)')
    <3>1. ASSUME NEW j \in Keys, j # k, Plain(j) PROVE granted'[j] + Open' <= torn' + One(Held(j)')
      BY <1>5, <1>10, <2>0, <2>1, <3>1 DEF GrantInv, Counted
    <3>2. ASSUME Plain(k) PROVE granted'[k] + Open' <= torn' + One(Held(k)')
      <4>1. CASE Held(k)
        <5>1. One(Held(k)') = 1
          BY <1>3, <2>1, <4>1 DEF One
        <5> QED
          BY <1>3, <1>5, <2>0, <2>2, <3>2, <5>1 DEF Afford
      <4>2. CASE ~Held(k)
        <5>1. One(Held(k)') = 0
          BY <1>3, <2>1, <4>2 DEF One
        <5> QED
          BY <1>3, <1>5, <2>0, <2>2, <3>2, <4>2, <5>1 DEF Afford
      <4> QED
        BY <4>1, <4>2
    <3> QED
      BY <3>1, <3>2
  <2>4. up' => \A j \in Keys : Plain(j) => granted'[j] + Open' <= torn' + One(j \in claimed')
    <3>1. SUFFICES ASSUME up', NEW j \in Keys, Plain(j)
                   PROVE granted'[j] + Open' <= torn' + One(j \in claimed')
      OBVIOUS
    <3>2. CASE j = k
      <4>1. One(j \in claimed') = 1
        BY <1>4, <3>2 DEF One
      <4> QED
        BY <1>3, <1>5, <2>0, <2>2, <3>1, <3>2, <4>1 DEF Afford
    <3>3. CASE j # k
      <4>1. (j \in claimed') = (j \in claimed)
        BY <1>4, <3>3
      <4>2. granted[j] + Open <= torn + One(j \in claimed)
        BY <1>4, <1>10, <3>1 DEF GrantInv, Counted
      <4> QED
        BY <1>5, <2>0, <3>3, <4>1, <4>2
    <3> QED
      BY <3>2, <3>3
  <2>5. LostFew'
    <3>1. IsFiniteSet(Lost) /\ Cardinality(Lost) \in Nat /\ Cardinality(Lost) + 0 <= torn
      BY <1>10, <2>0, FS_CardinalityType DEF GrantInv, LostFew
    <3>2. CASE Held(k)
      <4>1. Lost' = Lost
        BY <1>5, <2>1, <3>2 DEF Lost
      <4> QED
        BY <2>0, <3>1, <4>1 DEF LostFew
    <3>3. CASE ~Held(k)
      <4>1. Lost' \subseteq Lost \cup {k}
        BY <1>5, <2>1 DEF Lost
      <4> DEFINE more == Lost \cup {k}
                 card == Cardinality(Lost)
                 card2 == Cardinality(more)
                 card3 == Cardinality(Lost')
      <4>2. IsFiniteSet(more) /\ (card2 = card \/ card2 = card + 1)
        BY <3>1, FS_AddElement
      <4>3. IsFiniteSet(Lost') /\ card3 <= card2
        BY <4>1, <4>2, FS_Subset
      <4>4. card \in Nat /\ card2 \in Nat /\ card3 \in Nat /\ card + 1 <= torn
        BY <2>2, <3>1, <3>3, <4>2, <4>3, FS_CardinalityType
      <4> HIDE DEF more, card, card2, card3
      <4>5. card3 + 0 <= torn
        BY <2>0, <4>2, <4>3, <4>4 DEF torn
      <4> QED
        BY <2>0, <4>3, <4>5 DEF LostFew, card3
    <3> QED
      BY <3>2, <3>3
  <2>6. ClaimCounted'
    BY <1>6 DEF ClaimCounted, Inside
  <2> QED
    BY <2>3, <2>4, <2>5, <2>6 DEF Counted
<1> QED
  BY <1>7, <1>8, <1>9, <1>10 DEF RegistryInv, GrantInv

LEMMA StopInv ==
  ASSUME RegistryInv, Stop
  PROVE  RegistryInv' /\ (GrantInv => GrantInv')
<1>1. PICK kept \in durable..Len(file) : LinesSurvive(kept) \/ LineIsCut(kept)
  BY DEF Stop
<1>2. /\ up' = FALSE /\ claimed' = {} /\ bits' = {} /\ holder' = NoCaller
      /\ callPc' = [d \in Callers |-> "idle"] /\ name' = [d \in Callers |-> NoName]
      /\ UNCHANGED <<granted, tokens, refused>>
  BY DEF Stop, history
<1>3. /\ file' \in Seq(Seq(Piece)) /\ ended' \in BOOLEAN /\ durable' \in 0..Len(file')
      /\ durable <= durable'
      /\ \A i \in 1..durable : file'[i] = file[i]
      /\ ~ended' => durable' < Len(file') /\ faults'["torn"] > 0
      /\ faults' \in [{"call", "torn", "sync"} -> Nat]
      /\ faults["torn"] + (IF ended' THEN 0 ELSE 1) <= faults'["torn"] + Open
  BY <1>1, StopFile DEF RegistryInv
<1>4. RegistryTypes'
  BY <1>2, <1>3 DEF RegistryInv, RegistryTypes
<1>5. Locked'
  BY <1>2, <1>3, UsernameAssumption DEF Locked, Inside, torn
<1>6. Filtered'
  BY <1>2 DEF Filtered
<1>7. ASSUME GrantInv PROVE Counted' /\ LostFew' /\ ClaimCounted'
  <2>1. durable \in Nat /\ durable' \in Nat
    BY <1>4 DEF RegistryInv, RegistryTypes
  <2>2. \A k \in Keys : Held(k) => Held(k)'
    BY <1>3, <2>1, HeldKept
  <2>3. torn + Open' <= torn' + Open
    BY <1>3 DEF torn, Open
  <2>4. Counted' /\ LostFew'
    BY <1>2, <1>4, <1>7, <2>2, <2>3, CountKept DEF GrantInv, RegistryInv
  <2>5. ClaimCounted'
    BY <1>2 DEF ClaimCounted
  <2> QED
    BY <2>4, <2>5
<1> QED
  BY <1>4, <1>5, <1>6, <1>7 DEF RegistryInv, GrantInv

\* What is on stable storage is loaded, as load reads it: a plain key as it is.
LEMMA HeldLoaded ==
  ASSUME NEW lines \in Seq(Seq(Piece)), durable \in 0..Len(lines),
         \A i \in 1..durable : lines[i] = file[i],
         NEW k \in Keys, Held(k)
  PROVE  /\ Plain(k) => k \in LoadedKeys(lines)
         /\ \/ k \in Reserved
            \/ \E n \in Names :
                 KeyOf[n] = k /\ (TrimmedTo[n] # NoName => KeyOf[TrimmedTo[n]] \in LoadedKeys(lines))
<1>1. CASE k \in Reserved
  BY <1>1 DEF LoadedKeys
<1>2. ASSUME NEW n \in Names, KeyOf[n] = k, NEW i \in 1..durable, file[i] = <<Whole(n)>>
      PROVE  /\ Plain(k) => k \in LoadedKeys(lines)
             /\ TrimmedTo[n] = NoName \/ KeyOf[TrimmedTo[n]] \in LoadedKeys(lines)
  <2>1. i \in DOMAIN lines /\ lines[i] = <<Whole(n)>>
    BY <1>2
  <2>2. TrimmedTo[n] = NoName \/ TrimmedTo[n] \in NamesIn(lines)
    BY <2>1 DEF NamesIn
  <2>3. TrimmedTo[n] = NoName \/ KeyOf[TrimmedTo[n]] \in LoadedKeys(lines)
    BY <2>2 DEF LoadedKeys
  <2>4. Plain(k) => TrimmedTo[n] # NoName /\ KeyOf[TrimmedTo[n]] = k
    BY <1>2, UsernameAssumption DEF Plain
  <2> QED
    BY <2>3, <2>4
<1> QED
  BY <1>1, <1>2 DEF Held

LEMMA StartInv ==
  ASSUME RegistryInv, Start, UNCHANGED stops
  PROVE  RegistryInv' /\ (GrantInv => GrantInv')
<1>1. /\ ~up /\ up' = TRUE
      /\ claimed' = LoadedKeys(file) /\ bits' = BitsOf(LoadedKeys(file))
      /\ UNCHANGED <<file, ended, durable, holder, callPc, name, granted, tokens, refused, faults>>
  BY DEF Start, store, history
<1>2. LoadedKeys(file) \subseteq Keys
  BY KeysOfNames, UsernameAssumption DEF LoadedKeys, NamesIn
<1>3. BitsOf(LoadedKeys(file)) \subseteq Bits
      /\ \A k \in LoadedKeys(file) : HashOf[k] \subseteq BitsOf(LoadedKeys(file))
  BY <1>2, KeysOfNames DEF BitsOf
<1>4. RegistryTypes'
  BY <1>1, <1>2, <1>3 DEF RegistryInv, RegistryTypes
<1>5. Locked'
  BY <1>1 DEF RegistryInv, Locked, torn
<1>6. Filtered'
  BY <1>1, <1>3 DEF Filtered
<1>7. ASSUME GrantInv PROVE Counted' /\ LostFew' /\ ClaimCounted'
  <2>1. Open' = Open /\ torn' = torn /\ Lost' = Lost /\ \A k \in Keys : Held(k)' = Held(k)
    BY <1>1 DEF Open, torn, Lost, Held
  <2>2. LostFew'
    BY <1>7, <2>1 DEF GrantInv, LostFew
  <2>3. ClaimCounted'
    BY <1>1, <1>7, <2>1 DEF GrantInv, ClaimCounted, Afford
  <2>4. \A k \in Keys : Plain(k) => granted'[k] + Open' <= torn' + One(Held(k)')
    BY <1>1, <1>7, <2>1 DEF GrantInv, Counted
  <2>5. ASSUME NEW k \in Keys, Plain(k) PROVE granted'[k] + Open' <= torn' + One(k \in claimed')
    <3>1. Held(k) => k \in claimed'
      BY <1>1, <1>7, <2>5, HeldLoaded DEF RegistryInv, RegistryTypes
    <3> DEFINE before == One(Held(k))
               after == One(k \in claimed')
    <3>2. before <= after /\ before \in Nat /\ after \in Nat
      BY <3>1 DEF One
    <3>3. granted[k] + Open <= torn + before /\ granted[k] \in Nat
      BY <1>7, <2>5 DEF GrantInv, Counted, RegistryInv, RegistryTypes
    <3>4. Open \in Nat /\ torn \in Nat
      BY DEF Open, torn, RegistryInv, RegistryTypes
    <3> HIDE DEF before, after
    <3>5. granted[k] + Open <= torn + after
      BY <3>2, <3>3, <3>4 DEF torn, Open
    <3> QED
      BY <1>1, <2>1, <3>5 DEF after
  <2> QED
    BY <2>2, <2>3, <2>4, <2>5 DEF Counted
<1> QED
  BY <1>4, <1>5, <1>6, <1>7 DEF RegistryInv, GrantInv

-----------------------------------------------------------------------------
LEMMA RegistryStepInv ==
  RegistryInv /\ [RegistryNext]_registryVars =>
    RegistryInv' /\ (GrantInv => GrantInv')
<1> SUFFICES ASSUME RegistryInv, [RegistryNext]_registryVars
             PROVE  RegistryInv' /\ (GrantInv => GrantInv')
  OBVIOUS
<1>1. ASSUME NEW c \in Callers, CallerNext(c)
      PROVE  RegistryInv' /\ (GrantInv => GrantInv')
  BY <1>1, ClaimInv, WriteInv, WriteFailsInv, SyncInv, CommitInv, LeaveInv DEF CallerNext
<1>2. CASE UNCHANGED registryVars
  <2>1. UNCHANGED <<file, ended, durable, up, claimed, bits, holder, callPc, name, granted, tokens,
                    refused, faults>>
    BY <1>2 DEF registryVars, store, memory, history
  <2>2. RegistryInv'
    BY <2>1 DEF RegistryInv, RegistryTypes, Locked, Filtered, torn
  <2>3. GrantInv => GrantInv'
    BY <2>1, <2>2 DEF GrantInv, Counted, LostFew, ClaimCounted, Afford, Lost, Held, Open, torn
  <2> QED
    BY <2>2, <2>3
<1> QED
  BY <1>1, <1>2, StopInv, StartInv DEF RegistryNext

LEMMA GrantInitInv == RegistryInit => GrantInv
<1> SUFFICES ASSUME RegistryInit PROVE GrantInv
  OBVIOUS
<1>1. RegistryInv
  BY RegistryInitInv
<1>2. /\ ended = TRUE /\ claimed = Reserved /\ callPc = [c \in Callers |-> "idle"]
      /\ granted = [k \in Keys |-> 0] /\ torn = 0
  BY DEF RegistryInit, torn
<1>3. Open = 0
  BY <1>2 DEF Open
<1>4. Counted
  BY <1>2, <1>3 DEF Counted, One
<1>5. Lost = {}
  BY <1>2 DEF Lost
<1>6. LostFew
  BY <1>2, <1>3, <1>5, FS_EmptySet DEF LostFew
<1>7. ClaimCounted
  BY <1>2 DEF ClaimCounted
<1> QED
  BY <1>1, <1>4, <1>6, <1>7 DEF GrantInv

LEMMA RegistryInvariant == RegistrySpec => []RegistryInv
<1>1. RegistryInv /\ [RegistryNext]_registryVars => RegistryInv'
  BY RegistryStepInv
<1> QED
  BY <1>1, RegistryInitInv, PTL DEF RegistrySpec

LEMMA GrantInvariant == RegistrySpec => []GrantInv
<1>1. GrantInv /\ [RegistryNext]_registryVars => GrantInv'
  BY RegistryStepInv DEF GrantInv
<1> QED
  BY <1>1, GrantInitInv, PTL DEF RegistrySpec

(* The registry's variables keep their types, and exactly the caller inside *)
(* TryClaim holds the lock.                                                 *)
THEOREM RegistryTypesKept == RegistrySpec => []RegistryTypeOK
<1>1. RegistryInv => RegistryTypeOK
  <2> SUFFICES ASSUME RegistryInv PROVE RegistryTypeOK
    OBVIOUS
  <2>1. \A i \in DOMAIN file : \A j \in DOMAIN file[i] : file[i][j] \in [name : Names, whole : BOOLEAN]
    <3> SUFFICES ASSUME NEW i \in DOMAIN file, NEW j \in DOMAIN file[i] PROVE file[i][j] \in Piece
      BY DEF Piece
    <3>1. file[i] \in Seq(Piece)
      BY DEF RegistryInv, RegistryTypes
    <3> QED
      BY <3>1
  <2> QED
    BY <2>1 DEF RegistryInv, RegistryTypes, RegistryTypeOK, Locked, Inside
<1> QED
  BY <1>1, RegistryInvariant, PTL

LEMMA OncePerRunInit == RegistryInit => OncePerRun
BY DEF RegistryInit, OncePerRun, Inside, One

LEMMA OncePerRunStep ==
  ASSUME RegistryInv, OncePerRun, [RegistryNext]_registryVars
  PROVE  OncePerRun'
<1> USE DEF RegistryInv
<1>0. /\ stops \in Nat /\ granted \in [Keys -> Nat] /\ callPc \in [Callers -> Inside \cup {"idle", "answer"}]
      /\ name \in [Callers -> Names \cup {NoName}] /\ claimed \subseteq Keys
  BY DEF OncePerRun, RegistryTypes
<1>1. ASSUME NEW c \in Callers, NEW n \in Names, Claim(c, n), UNCHANGED stops PROVE OncePerRun'
  <2>1. UNCHANGED <<up, claimed, granted>> /\ up
    BY <1>1 DEF Claim, memory, history
  <2>2. \/ UNCHANGED <<callPc, name>>
        \/ /\ ~IsClaimed(KeyOf[n]) /\ name' = [name EXCEPT ![c] = n]
           /\ callPc' = [callPc EXCEPT ![c] = "write"]
    BY <1>1 DEF Claim, CallGoto
  <2>3. ~IsClaimed(KeyOf[n]) => KeyOf[n] \notin claimed
    BY DEF IsClaimed, MightContain, Filtered
  <2>4. \A d \in Callers : callPc'[d] \in Inside => up' /\ KeyOf[name'[d]] \notin claimed'
    BY <1>0, <2>1, <2>2, <2>3 DEF OncePerRun
  <2> QED
    BY <1>1, <2>1, <2>4 DEF OncePerRun
<1>2. ASSUME NEW c \in Callers, UNCHANGED stops,
             \/ Write(c) \/ WriteFails(c) \/ Sync(c) \/ SyncFails(c) \/ Answer(c)
             \/ \E n \in Names : Reconnect(c, n)
      PROVE  OncePerRun'
  <2>1. UNCHANGED <<up, claimed, granted>>
    BY <1>2 DEF Write, WriteFails, Sync, SyncFails, Answer, Reconnect, memory, history
  <2>2. \A d \in Callers : callPc'[d] \in Inside => callPc[d] \in Inside /\ name'[d] = name[d]
    <3>1. CASE Write(c) \/ Sync(c)
      BY <1>0, <3>1 DEF Write, Sync, CallGoto, Inside
    <3>2. CASE WriteFails(c) \/ SyncFails(c) \/ Answer(c)
      BY <1>0, <3>2 DEF WriteFails, SyncFails, Answer, CallGoto, Unlock, Inside
    <3>3. CASE \E n \in Names : Reconnect(c, n)
      BY <3>3 DEF Reconnect
    <3> QED
      BY <1>2, <3>1, <3>2, <3>3
  <2> QED
    BY <1>2, <2>1, <2>2 DEF OncePerRun
<1>3. ASSUME NEW c \in Callers, Commit(c), UNCHANGED stops PROVE OncePerRun'
  <2>1. callPc[c] \in Inside /\ name[c] \in Names
    BY <1>3 DEF Commit, Inside, Locked
  <2>2. PICK k \in Keys : k = KeyOf[name[c]]
    BY <2>1, KeysOfNames
  <2>3. /\ callPc' = [callPc EXCEPT ![c] = "answer"] /\ claimed' = claimed \cup {k}
        /\ granted' = [granted EXCEPT ![k] = @ + 1] /\ up' = up
    BY <1>3, <2>2 DEF Commit, CallGoto
  <2>4. up /\ k \notin claimed
    BY <2>1, <2>2 DEF OncePerRun
  <2>5. \A d \in Callers : callPc'[d] \notin Inside
    BY <1>0, <2>1, <2>3, OneInside DEF Inside
  <2>6. ASSUME NEW j \in Keys PROVE granted'[j] <= stops + One(j \in claimed')
    <3>1. CASE j = k
      <4>1. granted[k] <= stops + 0
        BY <2>2, <2>4 DEF OncePerRun, One
      <4>2. granted'[j] = granted[k] + 1 /\ One(j \in claimed') = 1
        BY <1>0, <2>2, <2>3, <3>1 DEF One
      <4> QED
        BY <1>0, <2>2, <4>1, <4>2
    <3>2. CASE j # k
      <4>1. granted'[j] = granted[j] /\ (j \in claimed' <=> j \in claimed)
        BY <1>0, <2>2, <2>3, <3>2
      <4>2. One(j \in claimed') = One(j \in claimed)
        BY <4>1 DEF One
      <4> QED
        BY <4>1, <4>2 DEF OncePerRun
    <3> QED
      BY <3>1, <3>2
  <2> QED
    BY <1>3, <2>3, <2>4, <2>5, <2>6 DEF OncePerRun
<1>4. ASSUME Stop PROVE OncePerRun'
  <2>1. /\ stops' = stops + 1 /\ up' = FALSE /\ claimed' = {} /\ granted' = granted
        /\ callPc' = [d \in Callers |-> "idle"]
    BY <1>4 DEF Stop, history
  <2>2. ASSUME NEW k \in Keys PROVE granted'[k] <= stops' + One(k \in claimed')
    <3>1. granted[k] <= stops + One(k \in claimed) /\ One(k \in claimed) \in {0, 1}
      BY DEF OncePerRun, One
    <3>2. One(k \in claimed') = 0
      BY <2>1 DEF One
    <3> QED
      BY <1>0, <2>1, <3>1, <3>2
  <2> QED
    BY <1>0, <2>1, <2>2 DEF OncePerRun, Inside
<1>5. ASSUME Start, UNCHANGED stops PROVE OncePerRun'
  <2>1. ~up /\ up' = TRUE /\ UNCHANGED <<granted, callPc, name>>
    BY <1>5 DEF Start, history
  <2>2. ASSUME NEW k \in Keys PROVE granted'[k] <= stops' + One(k \in claimed')
    <3>1. granted[k] <= stops + 0
      BY <2>1 DEF OncePerRun, One
    <3>2. One(k \in claimed') \in {0, 1}
      BY DEF One
    <3> QED
      BY <1>0, <1>5, <2>1, <3>1, <3>2
  <2> QED
    BY <1>5, <2>1, <2>2 DEF OncePerRun
<1>6. CASE UNCHANGED registryVars
  BY <1>6 DEF registryVars, memory, history, OncePerRun
<1> QED
  BY <1>1, <1>2, <1>3, <1>4, <1>5, <1>6 DEF RegistryNext, CallerNext

LEMMA OncePerRunInvariant == RegistrySpec => []OncePerRun
<1>1. RegistryInv /\ OncePerRun /\ [RegistryNext]_registryVars => OncePerRun'
  BY OncePerRunStep
<1> QED
  BY <1>1, OncePerRunInit, RegistryInvariant, PTL DEF RegistrySpec

(* A name, in whatever casing, is granted once and never again, but for     *)
(* those whose line a torn write took from the file; a name with blanks     *)
(* around it, which a restart forgets, once in each run of the server.      *)
THEOREM NamesGrantedOnce == RegistrySpec => []GrantedOnce
<1>1. GrantInv /\ OncePerRun => GrantedOnce
  <2> SUFFICES ASSUME GrantInv, OncePerRun, NEW k \in Keys
               PROVE  granted[k] <= 1 + IF Plain(k) THEN faults["torn"] ELSE stops
    BY DEF GrantedOnce
  <2>1. granted[k] \in Nat /\ torn \in Nat /\ Open \in Nat
    BY DEF GrantInv, RegistryInv, RegistryTypes, torn, Open
  <2>2. CASE Plain(k)
    <3> DEFINE held == One(Held(k))
    <3>1. granted[k] + Open <= torn + held /\ held \in {0, 1}
      BY <2>2 DEF GrantInv, Counted, One
    <3> HIDE DEF held
    <3> QED
      BY <2>1, <2>2, <3>1 DEF torn, Open
  <2>3. CASE ~Plain(k)
    <3> DEFINE known == One(k \in claimed)
    <3>1. stops \in Nat /\ granted[k] <= stops + known /\ known \in {0, 1}
      BY DEF OncePerRun, One
    <3> HIDE DEF known
    <3> QED
      BY <2>1, <2>3, <3>1
  <2> QED
    BY <2>2, <2>3
<1> QED
  BY <1>1, GrantInvariant, OncePerRunInvariant, PTL

(* A torn write costs at most one granted name, whatever else fails and     *)
(* however often the server stops: the file has every other, as load reads  *)
(* it, whatever blanks are around it.                                       *)
THEOREM TornWritesCostOne == RegistrySpec => []TornCostsOne
<1>1. GrantInv => TornCostsOne
  <2> SUFFICES ASSUME GrantInv PROVE TornCostsOne
    OBVIOUS
  <2> DEFINE lines == SubSeq(file, 1, durable)
             gone == {k \in Keys : granted[k] > 0 /\ ~Recorded(k)}
  <2>1. file \in Seq(Seq(Piece)) /\ Len(file) \in Nat /\ durable \in 0..Len(file) /\ torn \in Nat
    BY DEF GrantInv, RegistryInv, RegistryTypes, torn
  <2>2. /\ lines \in Seq(Seq(Piece)) /\ Len(lines) = durable
        /\ \A i \in 1..durable : lines[i] = file[i]
    <3>1. \A i \in 1..durable : file[i] \in Seq(Piece)
      BY <2>1
    <3> QED
      BY <2>1, <3>1
  <2> HIDE DEF lines
  <2>3. gone \subseteq Lost
    <3> SUFFICES ASSUME NEW k \in gone PROVE ~Held(k)
      BY DEF Lost
    <3>1. durable \in 0..Len(lines)
      BY <2>1, <2>2
    <3>2. /\ k \notin Reserved
          /\ \A n \in Names : KeyOf[n] = k => /\ TrimmedTo[n] # NoName
                                            /\ KeyOf[TrimmedTo[n]] \notin LoadedKeys(lines)
      BY DEF Recorded, lines
    <3>3. k \in Keys
      OBVIOUS
    <3>4. SUFFICES ASSUME Held(k) PROVE FALSE
      OBVIOUS
    <3>5. \/ k \in Reserved
          \/ \E n \in Names :
               KeyOf[n] = k /\ (TrimmedTo[n] # NoName => KeyOf[TrimmedTo[n]] \in LoadedKeys(lines))
      BY <2>2, <3>1, <3>3, <3>4, HeldLoaded
    <3> QED
      BY <3>2, <3>5
  <2>4. IsFiniteSet(Lost) /\ Cardinality(Lost) + Open <= torn
    BY DEF GrantInv, LostFew
  <2>5. IsFiniteSet(gone) /\ Cardinality(gone) <= Cardinality(Lost)
    BY <2>3, <2>4, FS_Subset
  <2>6. Cardinality(gone) <= torn
    <3> DEFINE card == Cardinality(Lost)
               card2 == Cardinality(gone)
    <3>1. card \in Nat /\ card2 \in Nat /\ card2 <= card /\ card + Open <= torn
      BY <2>4, <2>5, FS_CardinalityType
    <3> HIDE DEF card, card2
    <3>2. card2 <= torn
      BY <2>1, <3>1 DEF torn, Open
    <3> QED
      BY <3>2 DEF card2
  <2> QED
    BY <2>6 DEF TornCostsOne, torn
<1> QED
  BY <1>1, GrantInvariant, PTL

-----------------------------------------------------------------------------
(* The service: what is proved of a part holds of it beside the others.      *)
LEMMA PartsStep ==
  ASSUME [ServiceNext]_serviceVars
  PROVE  [OpsNext]_opsVars /\ [RegistryNext]_registryVars /\ [MetricsNext]_metricsVars
<1>1. CASE UNCHANGED serviceVars
  BY <1>1 DEF serviceVars
<1>2. CASE OpsNext /\ UNCHANGED <<registryVars, metricsVars>>
  BY <1>2
<1>3. CASE RegistryNext /\ UNCHANGED <<opsVars, metricsVars>>
  BY <1>3
<1>4. CASE MetricsNext /\ UNCHANGED <<opsVars, registryVars>>
  BY <1>4
<1> QED
  BY <1>1, <1>2, <1>3, <1>4 DEF ServiceNext

(* The variables of the daemon, the registry and the recorder keep their     *)
(* types, whichever of them is at work.                                      *)
THEOREM ServiceTypes == ServiceSpec => []ServiceTypeOK
<1>1. ServiceSpec => OpsSpec /\ RegistrySpec /\ MetricsSpec
  <2>1. ServiceInit => OpsInit /\ RegistryInit /\ MetricsInit
    BY DEF ServiceInit
  <2>2. [ServiceNext]_serviceVars =>
          [OpsNext]_opsVars /\ [RegistryNext]_registryVars /\ [MetricsNext]_metricsVars
    BY PartsStep
  <2> QED
    BY <2>1, <2>2, PTL DEF ServiceSpec, OpsSpec, RegistrySpec, MetricsSpec
<1>2. OpsTypeOK /\ RegistryTypeOK /\ MetricsTypeOK => ServiceTypeOK
  BY DEF ServiceTypeOK
<1> QED
  BY <1>1, <1>2, OpsTypes, RegistryTypesKept, RecorderTypes, PTL
=============================================================================
