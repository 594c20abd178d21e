------------------------------ MODULE Metrics ------------------------------
(***************************************************************************)
(* The unique-room and unique-user counts of the chat service: the two     *)
(* HyperLogLog estimators, the recorder that saves them, and the process   *)
(* around it that is started, stopped and killed.                          *)
(***************************************************************************)
EXTENDS Naturals, FiniteSets

CONSTANTS
  Items,     \* room ids and user names
  SlotOf,    \* the register an item is hashed to
  RankOf,    \* and its rank: leading zeros of the rest of the hash, plus one
  Boots      \* bound: starts of the process

ASSUME MetricsAssumption ==
  /\ \A x \in Items : RankOf[x] \in Nat \ {0}
  /\ Boots \in Nat \ {0}

VARIABLES
  process,    \* "running", "stopping" after a signal, "broken", or "down"
  stopped,    \* whether it went down on a signal, with all its listeners drained
  registers,  \* the two estimators in memory
  saving,     \* Recorder.Save: the estimator it is at, its step, what it copied
  finalSave,  \* StartPersisting's last save: "no", "begun", "done"
  files,      \* the registers in rooms.hll and users.hll
  counted,    \* history: the items in each estimator
  stored,     \* history: the items in each file
  boots

metricsVars == <<process, stopped, registers, saving, finalSave, files, counted, stored, boots>>

Kinds == {"rooms", "users"}
Slots == {SlotOf[x] : x \in Items}
Ranks == {RankOf[x] : x \in Items}
NoSave == [at |-> "none", kind |-> "rooms", copy |-> [s \in Slots |-> 0], items |-> {}]
Up == process # "down"

-----------------------------------------------------------------------------
(* hll.Add keeps the highest rank of each register; AddRoom and AddUser take *)
(* the mutex that Save holds throughout.                                     *)
LastAdded(regs, x) == [regs EXCEPT ![SlotOf[x]] = RankOf[x]]
Added(regs, x) == [regs EXCEPT ![SlotOf[x]] = IF RankOf[x] > @ THEN RankOf[x] ELSE @]

CountItem(kind, x) ==
  /\ Up /\ saving.at = "none"
  /\ registers' = [registers EXCEPT ![kind] = Added(@, x)]
  /\ counted' = [counted EXCEPT ![kind] = @ \cup {x}]
  /\ UNCHANGED <<process, stopped, saving, finalSave, files, stored, boots>>

(* Save writes rooms, then users, each to a temporary file that is synced    *)
(* and renamed; an error ends it there.                                      *)
Copied(kind) == [at |-> "write", kind |-> kind, copy |-> registers[kind], items |-> counted[kind]]

BeginSave ==
  /\ Up /\ saving.at = "none"
  /\ \/ finalSave = "no" /\ process = "stopping" /\ finalSave' = "begun"
     \/ process \in {"running", "broken"} /\ UNCHANGED finalSave
  /\ saving' = Copied("rooms")
  /\ UNCHANGED <<process, stopped, registers, files, counted, stored, boots>>

WriteTemporary ==
  /\ Up /\ saving.at = "write"
  /\ saving' = [saving EXCEPT !.at = "rename"]
  /\ UNCHANGED <<process, stopped, registers, finalSave, files, counted, stored, boots>>

Ended == finalSave' = IF finalSave = "begun" THEN "done" ELSE finalSave

Rename ==
  /\ Up /\ saving.at = "rename"
  /\ files' = [files EXCEPT ![saving.kind] = saving.copy]
  /\ stored' = [stored EXCEPT ![saving.kind] = saving.items]
  /\ IF saving.kind = "rooms" THEN saving' = Copied("users") /\ UNCHANGED finalSave
     ELSE saving' = NoSave /\ Ended
  /\ UNCHANGED <<process, stopped, registers, counted, boots>>

RecorderSaveFails ==
  /\ Up /\ saving.at # "none"
  /\ saving' = NoSave /\ Ended
  /\ UNCHANGED <<process, stopped, registers, files, counted, stored, boots>>

-----------------------------------------------------------------------------
(* main: a signal ends the context; a listener that fails does not.  Then    *)
(* main drains the listeners and returns, with whatever goroutine is left.   *)
Signal ==
  /\ process = "running"
  /\ process' = "stopping"
  /\ UNCHANGED <<stopped, registers, saving, finalSave, files, counted, stored, boots>>

ListenerFails ==
  /\ process = "running"
  /\ process' = "broken"
  /\ UNCHANGED <<stopped, registers, saving, finalSave, files, counted, stored, boots>>

Down == process' = "down" /\ saving' = NoSave

MainReturns ==
  /\ process \in {"stopping", "broken"}
  /\ Down /\ stopped' = (process = "stopping")
  /\ UNCHANGED <<registers, finalSave, files, counted, stored, boots>>

Killed ==
  /\ Up
  /\ Down /\ stopped' = FALSE
  /\ UNCHANGED <<registers, finalSave, files, counted, stored, boots>>

(* NewRecorder loads both files; one that is missing is all zeros.           *)
LoadedNothing == [k \in Kinds |-> [s \in Slots |-> 0]]
LoadedFiles == files

StartProcess ==
  /\ ~Up /\ boots < Boots
  /\ process' = "running" /\ stopped' = FALSE
  /\ registers' = LoadedFiles
  /\ counted' = stored
  /\ finalSave' = "no"
  /\ boots' = boots + 1
  /\ UNCHANGED <<saving, files, stored>>

MetricsInit ==
  /\ process = "running" /\ stopped = FALSE
  /\ registers = [k \in Kinds |-> [s \in Slots |-> 0]]
  /\ saving = NoSave /\ finalSave = "no"
  /\ files = registers
  /\ counted = [k \in Kinds |-> {}] /\ stored = counted
  /\ boots = 1

MetricsNext ==
  \/ \E kind \in Kinds, x \in Items : CountItem(kind, x)
  \/ BeginSave \/ WriteTemporary \/ Rename \/ RecorderSaveFails
  \/ Signal \/ ListenerFails \/ MainReturns \/ Killed \/ StartProcess

MetricsSpec == MetricsInit /\ [][MetricsNext]_metricsVars

-----------------------------------------------------------------------------
MetricsTypeOK ==
  /\ process \in {"running", "stopping", "broken", "down"}
  /\ registers \in [Kinds -> [Slots -> Ranks \cup {0}]]
  /\ files \in [Kinds -> [Slots -> Ranks \cup {0}]]
  /\ saving.at \in {"none", "write", "rename"}
  /\ finalSave \in {"no", "begun", "done"}
  /\ boots \in 1..Boots

(* However often an item is counted, whatever the order, and however many    *)
(* saves, crashes and restarts lie between, the registers in memory and on   *)
(* disk are those of the set of items counted so far: no restart starts from *)
(* a file that is half of one save and half of another.                      *)
RegisterOf(items, s) ==
  LET ranks == {RankOf[x] : x \in {y \in items : SlotOf[y] = s}} IN
  IF ranks = {} THEN 0 ELSE CHOOSE r \in ranks : \A q \in ranks : q <= r

EstimatorsExact ==
  \A k \in Kinds, s \in Slots :
    /\ registers[k][s] = RegisterOf(counted[k], s)
    /\ files[k][s] = RegisterOf(stored[k], s)
    /\ stored[k] \subseteq counted[k]

(* Nothing that was saved once is ever lost: not by a later save, not by a   *)
(* save that fails half way, not by a restart.                               *)
SavedStays == [][\A k \in Kinds, s \in Slots : files[k][s] <= files'[k][s]]_metricsVars

(* main.go:48-51: a crash may lose up to one interval, "as opposed to a      *)
(* graceful shutdown, which always saves once more".                         *)
ShutdownSaves == process = "down" /\ stopped => stored = counted
=============================================================================
