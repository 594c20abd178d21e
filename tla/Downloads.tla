------------------------------ MODULE Downloads ------------------------------
(***************************************************************************)
(* Downloads: Electron's items, the list shown in the panel, and the       *)
(* entries kept on disk, which are those that ended.  A saved chat image   *)
(* is a download that has ended at once.                                   *)
(***************************************************************************)
EXTENDS Lists, FiniteSets

CONSTANTS
  Downloads,  \* bound: downloads ever started
  Steps       \* bound: progress events, and stops of the application

ASSUME DownloadsAssumption == Downloads \in Nat /\ Steps \in Nat

VARIABLES
  next,       \* the next download
  liveItems,  \* the items that are under way
  state,      \* state of each record; the list and the file share the records
  records,    \* the list, newest first
  persisted,  \* the entries that ended, oldest first
  file,       \* downloads.json: the entries, each with its state
  panelList,      \* the list as the panel was last sent it
  ended,      \* history: what ended since the list was cleared or lost, in that order
  steps

dlVars == <<next, liveItems, state, records, persisted, file, panelList, ended, steps>>

Ids == 1..Downloads
Terminal == {"completed", "cancelled", "interrupted"}
Rows(list, s) == [i \in DOMAIN list |-> [id |-> list[i], state |-> s[list[i]]]]
Backwards(list) == [i \in DOMAIN list |-> list[Len(list) + 1 - i]]
DlStep == steps < Steps /\ steps' = steps + 1

(* onChange: the panel gets the whole list.                                  *)
Broadcast == panelList' = Rows(records', state')

(* persist, with the entries as they are at the end of the handler.          *)
Persist == file' = Rows(persisted', state')

TrackDownload ==
  /\ next <= Downloads
  /\ next' = next + 1
  /\ liveItems' = liveItems \cup {next}
  /\ state' = [state EXCEPT ![next] = "progressing"]
  /\ records' = <<next>> \o records
  /\ Broadcast
  /\ UNCHANGED <<persisted, file, ended, steps>>

(* updated: an interrupted item may go on later.                             *)
Updated(id) ==
  /\ id \in liveItems /\ DlStep
  /\ \E s \in {"progressing", "interrupted"} : state' = [state EXCEPT ![id] = s]
  /\ UNCHANGED <<next, liveItems, records, persisted, file, ended>>
  /\ Broadcast

(* done: AtEnd is where the entry goes.                                      *)
InFront(entries, id) == <<id>> \o entries
AtEnd(entries, id) == Append(entries, id)

ItemDone(id, s) ==
  /\ id \in liveItems
  /\ state' = [state EXCEPT ![id] = s]
  /\ liveItems' = liveItems \ {id}
  /\ persisted' = AtEnd(persisted, id)
  /\ ended' = Append(ended, id)
  /\ UNCHANGED <<next, records, steps>>
  /\ Persist /\ Broadcast

(* cancelDownload, for a row the panel shows as progressing.                 *)
CancelDownload(id) ==
  /\ \E i \in DOMAIN panelList : panelList[i] = [id |-> id, state |-> "progressing"]
  /\ ItemDone(id, "cancelled")

(* clearFinished keeps the rows that are progressing.                        *)
Progressing == {id \in Ids : state[id] = "progressing"}

ClearFinished ==
  /\ \E i \in DOMAIN panelList : panelList[i].state # "progressing"
  /\ persisted' = <<>>
  /\ records' = Filtered(records, Progressing)
  /\ ended' = <<>>
  /\ UNCHANGED <<next, liveItems, state, steps>>
  /\ Persist /\ Broadcast

SaveImageToDownloads ==
  /\ next <= Downloads
  /\ next' = next + 1
  /\ state' = [state EXCEPT ![next] = "completed"]
  /\ records' = <<next>> \o records
  /\ persisted' = AtEnd(persisted, next)
  /\ ended' = Append(ended, next)
  /\ UNCHANGED <<liveItems, steps>>
  /\ Persist /\ Broadcast

(* The application stops, and what was under way with it; a new one reads    *)
(* the file, and the panel asks for the list.                                *)
Launch ==
  /\ DlStep
  /\ liveItems' = {}
  /\ records' = Backwards(persisted')
  /\ Broadcast
  /\ UNCHANGED next

Restart ==
  /\ persisted' = [i \in DOMAIN file |-> file[i].id]
  /\ state' = [id \in Ids |->
       IF \E i \in DOMAIN file : file[i].id = id
       THEN file[CHOOSE i \in DOMAIN file : file[i].id = id].state ELSE state[id]]
  /\ Launch
  /\ UNCHANGED <<file, ended>>

(* A write that was cut off leaves a file that does not parse: it loads as   *)
(* no entries at all, and the next write replaces it.                        *)
RestartUnreadable ==
  /\ file' = <<>> /\ persisted' = <<>> /\ ended' = <<>>
  /\ Launch
  /\ UNCHANGED state

DownloadsInit ==
  /\ next = 1 /\ liveItems = {} /\ state = [id \in Ids |-> "progressing"]
  /\ records = <<>> /\ persisted = <<>> /\ file = <<>> /\ panelList = <<>>
  /\ ended = <<>> /\ steps = 0

DownloadsNext ==
  \/ TrackDownload \/ SaveImageToDownloads \/ ClearFinished
  \/ Restart \/ RestartUnreadable
  \/ \E id \in Ids : Updated(id) \/ CancelDownload(id) \/ \E s \in Terminal : ItemDone(id, s)

DownloadsSpec == DownloadsInit /\ [][DownloadsNext]_dlVars

-----------------------------------------------------------------------------
DownloadsTypeOK ==
  /\ next \in 1..Downloads + 1 /\ liveItems \subseteq Ids
  /\ state \in [Ids -> Terminal \cup {"progressing"}]
  /\ records \in Seq(Ids) /\ persisted \in Seq(Ids) /\ ended \in Seq(Ids)
  /\ steps \in 0..Steps

(* What ended stays known until it is cleared, or the file is found          *)
(* unreadable, across restarts, and only                                     *)
(* that: the file holds each download that ended, once, in the order they    *)
(* ended and as they ended, though a record is shared with the live list     *)
(* that goes on changing; the panel never shows an old picture, and lists a    *)
(* download only once, while it is under way or known.                       *)
DownloadsKept ==
  /\ file = Rows(ended, state)
  /\ \A i \in DOMAIN file : file[i].state \in Terminal
  /\ panelList = Rows(records, state)
  /\ \A i, j \in DOMAIN records : records[i] = records[j] => i = j
  /\ \A i \in DOMAIN records :
       records[i] \in liveItems \/ \E j \in DOMAIN ended : ended[j] = records[i]

(* downloadStore.ts:39-40: the list is "persisted (terminal) entries plus    *)
(* whatever's currently progressing".                                        *)
ListIsPersistedPlusLive ==
  {records[i] : i \in DOMAIN records} =
    {persisted[i] : i \in DOMAIN persisted} \cup liveItems
=============================================================================
