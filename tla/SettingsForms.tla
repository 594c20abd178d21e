---------------------------- MODULE SettingsForms ----------------------------
(***************************************************************************)
(* Settings > AI agents and Settings > MCP servers: the section's list and *)
(* form in the window, the store in the main process with its file, and    *)
(* the messages between them.  The two sections work alike and share       *)
(* nothing, so a behaviour is about one of them.                           *)
(***************************************************************************)
EXTENDS Naturals, Sequences

CONSTANTS
  Entries,      \* ids of agents or of servers
  NullId,       \* no id: null
  Labels,       \* what is typed into the fields that are no secret
  Secrets,      \* keys, variables and headers that are typed
  OnFile,       \* the entries of an earlier run, with a secret each
  UserSteps,    \* bound: things the user does
  SaveErrors,   \* bound: saves that fail
  Relaunches    \* bound: how often the program ends and starts again

ASSUME SettingsAssumption ==
  /\ NullId \notin Entries /\ OnFile \subseteq Entries
  /\ Labels # {} /\ "" \notin Labels /\ "" \notin Secrets /\ "noise" \notin Secrets
  /\ UserSteps \in Nat /\ SaveErrors \in Nat /\ Relaunches \in Nat

VARIABLES
  section,    \* the section this is about
  \* the main process
  entry,      \* agents, servers: what is stored of each id
  file,       \* what is saved: whether it can be read, and its entries
  usedIds,    \* ids given out
  probes,     \* connection tests under way
  \* between the processes
  requests,   \* from the window, in order
  answers,    \* to the window, in order
  \* the window
  open,       \* whether the section is shown
  rows,       \* its list
  editing,    \* editingAgent, editingServer: the row whose Edit was clicked
  ofList,     \* whether that row is one of the list's objects
  form,       \* fields
  tested,     \* testResult
  \* history
  lastTyped,  \* the last secret typed for each id and sent
  outdated,   \* the row being edited was behind the store when it was clicked
  behind,     \* a save failed since the last broadcast
  unsaved,    \* a save failed since the last one that did not
  userSteps, saveErrors, relaunches

mainVars == <<entry, file, usedIds, probes>>
listVars == <<open, rows, editing, ofList, form, tested, outdated>>
settingsFormVars ==
  <<section, mainVars, requests, answers, listVars, lastTyped, behind, unsaved,
    userSteps, saveErrors, relaunches>>

(* A secret remembers the entry the form was about when it was typed.        *)
NoSecret == [text |-> "", for |-> NullId]
Typed == [text : Secrets \cup {"", "noise"}, for : Entries \cup {NullId}]

Absent == [kind |-> "absent", label |-> "", secret |-> NoSecret]
Nothing == [e \in Entries |-> Absent]
NoRow == [kind |-> "absent", label |-> "", hasSecret |-> FALSE]
NoRows == [e \in Entries |-> NoRow]
NotEditing == [id |-> NullId, row |-> NoRow]

KindsOf(s) == IF s = "agents" THEN {"hosted", "ollama"} ELSE {"stdio", "http"}

(* getAgentConfigs, getMcpServers: a row has no secret, only whether there   *)
(* is one.                                                                   *)
RowOf(e) == [kind |-> e.kind, label |-> e.label, hasSecret |-> e.secret # NoSecret]
Public(list) == [e \in Entries |-> RowOf(list[e])]

Do == userSteps < UserSteps /\ userSteps' = userSteps + 1
Send(request) == requests' = Append(requests, request)
Request(op, id, draft) == [op |-> op, id |-> id, draft |-> draft]

-----------------------------------------------------------------------------
(* The form.  An MCP server's fields depend on its transport, an agent's are *)
(* the same for each provider.  A side is the fields of one transport: its   *)
(* label is blank until every field that must be filled in is.               *)
Sides == {"key", "env", "header"}
SideOf(kind) == CASE kind = "stdio" -> "env" [] kind = "http" -> "header" [] OTHER -> "key"
BlankSide == [label |-> "", secret |-> NoSecret]
FirstKind == IF section = "agents" THEN "hosted" ELSE "stdio"
BlankFields == [kind |-> FirstKind, side |-> [s \in Sides |-> BlankSide]]

(* The effect on [editingServer]: the row's fields, and no secret.           *)
FieldsOf(row) ==
  [kind |-> row.kind,
   side |-> [BlankFields.side EXCEPT ![SideOf(row.kind)] = [label |-> row.label, secret |-> NoSecret]]]
Refilled(id, row) == IF id = NullId THEN BlankFields ELSE FieldsOf(row)

Shown == form.side[SideOf(form.kind)]

(* Spaces, and lines that are no KEY=value, are no secret.                   *)
ParsedSecret(typed) == IF typed.text \in Secrets THEN typed ELSE NoSecret

(* canSave: a new agent needs a key, unless it runs here.                    *)
AgentReady ==
  Shown.label # "" /\ (form.kind = "ollama" \/ editing.id # NullId \/ ParsedSecret(Shown.secret) # NoSecret)
ServerReady == Shown.label # ""
Ready == IF section = "agents" THEN AgentReady ELSE ServerReady

AgentSecret == IF form.kind = "ollama" THEN NoSecret ELSE ParsedSecret(Shown.secret)
ServerSecret == ParsedSecret(Shown.secret)
Draft ==
  [kind |-> form.kind, label |-> Shown.label,
   secret |-> IF section = "agents" THEN AgentSecret ELSE ServerSecret]

-----------------------------------------------------------------------------
(* The window.  The section's state lives while the section is shown.        *)
SectionReset ==
  /\ open' = FALSE /\ rows' = NoRows /\ editing' = NotEditing /\ ofList' = FALSE
  /\ form' = BlankFields /\ tested' = "none" /\ outdated' = FALSE

ShowSection ==
  /\ Do /\ ~open
  /\ open' = TRUE
  /\ Send(Request("list", NullId, Absent))
  /\ UNCHANGED <<section, mainVars, answers, rows, editing, ofList, form, tested, outdated,
                 lastTyped, behind, unsaved, saveErrors, relaunches>>

LeaveSection ==
  /\ Do /\ open
  /\ SectionReset
  /\ UNCHANGED <<section, mainVars, requests, answers, lastTyped, behind, unsaved, saveErrors,
                 relaunches>>

(* setEditingServer with its effect.                                         *)
SetEditing(id, row, late) ==
  /\ editing' = [id |-> id, row |-> row]
  /\ ofList' = (id # NullId)
  /\ outdated' = late
  /\ form' = Refilled(id, row)
  /\ tested' = "none"

(* A change of the entry is on its way to the store.                         *)
ChangePending(e) ==
  \E i \in DOMAIN requests : requests[i].id = e /\ requests[i].op \in {"update", "remove"}

(* Nothing happens if the object is the same.                                *)
ClickEdit(e) ==
  /\ Do /\ open
  /\ rows[e] # NoRow /\ ~(e = editing.id /\ ofList)
  /\ SetEditing(e, rows[e], rows[e] # RowOf(entry[e]) \/ ChangePending(e))
  /\ UNCHANGED <<section, mainVars, requests, answers, open, rows, lastTyped, behind, unsaved,
                 saveErrors, relaunches>>

CancelEdit ==
  /\ Do /\ open
  /\ editing.id # NullId
  /\ SetEditing(NullId, NoRow, FALSE)
  /\ UNCHANGED <<section, mainVars, requests, answers, open, rows, lastTyped, behind, unsaved,
                 saveErrors, relaunches>>

ClickRemove(e) ==
  /\ Do /\ open
  /\ rows[e] # NoRow
  /\ \/ editing.id = e /\ SetEditing(NullId, NoRow, FALSE)
     \/ editing.id # e /\ UNCHANGED <<editing, ofList, form, tested, outdated>>
  /\ Send(Request("remove", e, Absent))
  /\ UNCHANGED <<section, mainVars, answers, open, rows, lastTyped, behind, unsaved, saveErrors,
                 relaunches>>

Types(fields) ==
  /\ Do /\ open
  /\ form' = fields /\ form # fields
  /\ UNCHANGED <<section, mainVars, requests, answers, open, rows, editing, ofList, tested,
                 outdated, lastTyped, behind, unsaved, saveErrors, relaunches>>

ChooseKind(kind) == editing.id = NullId /\ Types([form EXCEPT !.kind = kind])
TypeLabel(label) == Types([form EXCEPT !.side[SideOf(form.kind)].label = label])

(* An agent that runs here has no field for a key.                           *)
TypeSecret(text) ==
  /\ form.kind # "ollama"
  /\ Types([form EXCEPT !.side[SideOf(form.kind)].secret = [text |-> text, for |-> editing.id]])

ClickTest ==
  /\ Do /\ open /\ section = "servers"
  /\ Ready
  /\ tested' = "testing"
  /\ Send(Request("test", NullId, Absent))
  /\ UNCHANGED <<section, mainVars, answers, open, rows, editing, ofList, form, outdated,
                 lastTyped, behind, unsaved, saveErrors, relaunches>>

SubmitForm ==
  /\ Do /\ open
  /\ Ready
  /\ Send(Request(IF editing.id = NullId THEN "create" ELSE "update", editing.id, Draft))
  /\ lastTyped' = IF editing.id = NullId \/ Draft.secret = NoSecret THEN lastTyped
                  ELSE [lastTyped EXCEPT ![editing.id] = Draft.secret]
  /\ form' = BlankFields /\ tested' = "none"
  /\ editing' = NotEditing /\ ofList' = FALSE /\ outdated' = FALSE
  /\ UNCHANGED <<section, mainVars, answers, open, rows, behind, unsaved, saveErrors, relaunches>>

(* A section that is not shown does not listen.                              *)
ListArrives ==
  /\ answers # <<>> /\ Head(answers).what = "list"
  /\ answers' = Tail(answers)
  /\ rows' = IF open THEN Head(answers).rows ELSE rows
  /\ ofList' = FALSE
  /\ UNCHANGED <<section, mainVars, requests, open, editing, form, tested, outdated, lastTyped,
                 behind, unsaved, userSteps, saveErrors, relaunches>>

ResultArrives ==
  /\ answers # <<>> /\ Head(answers).what = "result"
  /\ answers' = Tail(answers)
  /\ tested' = IF open THEN "answered" ELSE tested
  /\ UNCHANGED <<section, mainVars, requests, open, rows, editing, ofList, form, outdated,
                 lastTyped, behind, unsaved, userSteps, saveErrors, relaunches>>

-----------------------------------------------------------------------------
(* The main process handles a request in one go.  A save that fails ends the *)
(* handler: the change stays in memory, there is no broadcast, and the file  *)
(* is as it was or cut off.                                                  *)
Takes(op) ==
  /\ requests # <<>> /\ Head(requests).op = op
  /\ requests' = Tail(requests)

Broadcast(list) == answers' = Append(answers, [what |-> "list", rows |-> Public(list)])

Stores(list) ==
  /\ entry' = list
  /\ \/ /\ file' = [readable |-> TRUE, entries |-> list]
        /\ Broadcast(list)
        /\ behind' = FALSE /\ unsaved' = FALSE
        /\ UNCHANGED saveErrors
     \/ /\ saveErrors < SaveErrors /\ saveErrors' = saveErrors + 1
        /\ file' \in {file, [readable |-> FALSE, entries |-> Nothing]}
        /\ behind' = TRUE /\ unsaved' = TRUE
        /\ UNCHANGED answers

HandleList ==
  /\ Takes("list")
  /\ Broadcast(entry) /\ behind' = FALSE
  /\ UNCHANGED <<section, mainVars, listVars, lastTyped, unsaved, userSteps, saveErrors, relaunches>>

HandleAdd(e) ==
  /\ Takes("create")
  /\ e \notin usedIds /\ usedIds' = usedIds \cup {e}
  /\ Stores([entry EXCEPT ![e] = Head(requests).draft])
  /\ lastTyped' = [lastTyped EXCEPT ![e] = Head(requests).draft.secret]
  /\ UNCHANGED <<section, probes, listVars, userSteps, relaunches>>

(* updateAgent, updateMcpServer: the kind stays, and so does the secret if   *)
(* none was typed.                                                           *)
OverwrittenSecret(old, new) == new
KeptSecret(old, new) == IF new = NoSecret THEN old ELSE new
Changed(old, draft) ==
  [old EXCEPT !.label = draft.label, !.secret = KeptSecret(old.secret, draft.secret)]

HandleUpdate ==
  LET id == Head(requests).id IN
  /\ Takes("update")
  /\ \/ entry[id] # Absent /\ Stores([entry EXCEPT ![id] = Changed(entry[id], Head(requests).draft)])
     \/ /\ entry[id] = Absent /\ Broadcast(entry) /\ behind' = FALSE
        /\ UNCHANGED <<entry, file, unsaved, saveErrors>>
  /\ UNCHANGED <<section, usedIds, probes, listVars, lastTyped, userSteps, relaunches>>

HandleRemove ==
  /\ Takes("remove")
  /\ Stores([entry EXCEPT ![Head(requests).id] = Absent])
  /\ UNCHANGED <<section, usedIds, probes, listVars, lastTyped, userSteps, relaunches>>

HandleTest ==
  /\ Takes("test")
  /\ probes' = probes + 1
  /\ UNCHANGED <<section, entry, file, usedIds, answers, listVars, lastTyped, behind, unsaved,
                 userSteps, saveErrors, relaunches>>

(* testConnection catches every error, and always answers.                   *)
TestEnds ==
  /\ probes > 0 /\ probes' = probes - 1
  /\ answers' = Append(answers, [what |-> "result", rows |-> NoRows])
  /\ UNCHANGED <<section, entry, file, usedIds, requests, listVars, lastTyped, behind, unsaved,
                 userSteps, saveErrors, relaunches>>

(* loadFromDisk.  Without a file that can be read there are no agents, and   *)
(* the servers are the default ones (one stands for both), which are saved.  *)
Seed == [kind |-> "stdio", label |-> CHOOSE l \in Labels : TRUE, secret |-> NoSecret]
Loaded(list) ==
  /\ entry' = list /\ file' = [readable |-> TRUE, entries |-> list]
  /\ lastTyped' = [e \in Entries |-> list[e].secret]

Relaunch ==
  /\ relaunches < Relaunches /\ relaunches' = relaunches + 1
  /\ \/ file.readable /\ Loaded(file.entries) /\ UNCHANGED usedIds
     \/ /\ ~file.readable /\ section = "agents"
        /\ Loaded(Nothing) /\ UNCHANGED usedIds
     \/ /\ ~file.readable /\ section = "servers"
        /\ \E e \in Entries \ usedIds :
             Loaded([Nothing EXCEPT ![e] = Seed]) /\ usedIds' = usedIds \cup {e}
  /\ probes' = 0 /\ requests' = <<>> /\ answers' = <<>>
  /\ SectionReset
  /\ behind' = FALSE /\ unsaved' = FALSE
  /\ UNCHANGED <<section, userSteps, saveErrors>>

-----------------------------------------------------------------------------
Earlier(kind, label, secret) == [kind |-> kind, label |-> label, secret |-> secret]

SettingsFormsInit ==
  /\ section \in {"agents", "servers"}
  /\ \E kind \in KindsOf(section), label \in Labels, text \in Secrets :
       entry = [e \in Entries |->
                 IF e \in OnFile
                 THEN Earlier(kind, label,
                              IF kind = "ollama" THEN NoSecret ELSE [text |-> text, for |-> NullId])
                 ELSE Absent]
  /\ file = [readable |-> TRUE, entries |-> entry]
  /\ usedIds = OnFile /\ probes = 0
  /\ requests = <<>> /\ answers = <<>>
  /\ open = FALSE /\ rows = NoRows /\ editing = NotEditing /\ ofList = FALSE
  /\ form = BlankFields /\ tested = "none" /\ outdated = FALSE
  /\ lastTyped = [e \in Entries |-> entry[e].secret]
  /\ behind = FALSE /\ unsaved = FALSE
  /\ userSteps = 0 /\ saveErrors = 0 /\ relaunches = 0

WindowSteps ==
  \/ ShowSection \/ LeaveSection \/ CancelEdit \/ ClickTest \/ SubmitForm
  \/ \E e \in Entries : ClickEdit(e) \/ ClickRemove(e)
  \/ \E kind \in KindsOf(section) : ChooseKind(kind)
  \/ \E label \in Labels \cup {""} : TypeLabel(label)
  \/ \E text \in Secrets \cup {"", "noise"} : TypeSecret(text)
  \/ ListArrives \/ ResultArrives

MainSteps ==
  \/ HandleList \/ HandleUpdate \/ HandleRemove \/ HandleTest \/ TestEnds
  \/ \E e \in Entries : HandleAdd(e)
  \/ Relaunch

SettingsFormsNext == WindowSteps \/ MainSteps

SettingsFormsSpec == SettingsFormsInit /\ [][SettingsFormsNext]_settingsFormVars

-----------------------------------------------------------------------------
Kinds == {"hosted", "ollama", "stdio", "http", "absent"}
StoredEntry == [kind : Kinds, label : Labels \cup {""}, secret : Typed]
RowType == [kind : Kinds, label : Labels \cup {""}, hasSecret : BOOLEAN]
Ops == {"list", "create", "update", "remove", "test"}

SettingsFormsTypeOK ==
  /\ section \in {"agents", "servers"}
  /\ entry \in [Entries -> StoredEntry]
  /\ file \in [readable : BOOLEAN, entries : [Entries -> StoredEntry]]
  /\ usedIds \subseteq Entries /\ probes \in Nat
  /\ requests \in Seq([op : Ops, id : Entries \cup {NullId}, draft : StoredEntry])
  /\ answers \in Seq([what : {"list", "result"}, rows : [Entries -> RowType]])
  /\ open \in BOOLEAN /\ rows \in [Entries -> RowType]
  /\ editing \in [id : Entries \cup {NullId}, row : RowType] /\ ofList \in BOOLEAN
  /\ form \in [kind : Kinds, side : [Sides -> [label : Labels \cup {""}, secret : Typed]]]
  /\ tested \in {"none", "testing", "answered"}
  /\ lastTyped \in [Entries -> Typed]
  /\ outdated \in BOOLEAN /\ behind \in BOOLEAN /\ unsaved \in BOOLEAN
  /\ userSteps \in 0..UserSteps /\ saveErrors \in 0..SaveErrors /\ relaunches \in 0..Relaunches

(* agentStore.ts:97-99, mcpStore.ts:158: a secret is only replaced by one    *)
(* the form "actually supplied": once the changes to an entry are handled,   *)
(* its secret is the last one typed for it, however many forms were opened,  *)
(* left and saved blank since, and never one typed for another entry.        *)
SecretsKept ==
  \A e \in Entries : entry[e] # Absent =>
    /\ ChangePending(e) \/ entry[e].secret = lastTyped[e]
    /\ entry[e].secret.for \in {e, NullId}

(* A hosted agent always has a key to be asked with.                         *)
HostedKeyed == \A e \in Entries : entry[e].kind = "hosted" => entry[e].secret # NoSecret

(* The list shown is that of the store once everything sent has arrived,     *)
(* unless a save failed; and an entry does not change under an open form,    *)
(* unless the row clicked was late.                                          *)
SectionCurrent ==
  /\ open /\ ~behind /\ requests = <<>> /\ answers = <<>> => rows = Public(entry)
  /\ editing.id # NullId /\ ~outdated => editing.row = RowOf(entry[editing.id])

(* "Testing" is shown only while an answer is on its way.                    *)
TestAnswered ==
  tested = "testing" =>
    \/ probes > 0
    \/ \E i \in DOMAIN requests : requests[i].op = "test"
    \/ \E i \in DOMAIN answers : answers[i].what = "result"

(* The file is what is in memory, unless the last save failed.               *)
FileCurrent == unsaved \/ file = [readable |-> TRUE, entries |-> entry]

CredentialsSound ==
  SecretsKept /\ HostedKeyed /\ SectionCurrent /\ TestAnswered /\ FileCurrent
=============================================================================
