----------------------------- MODULE AgentTurns -----------------------------
(***************************************************************************)
(* Private agent threads of the browser: the main process                  *)
(* (browser/src/main/ipc.ts with agentThreadStore.ts and the adapters of   *)
(* agents/) and the chat panel that shows them (AgentPanel.tsx and         *)
(* AgentConversation.tsx), joined by two FIFO pipes of IPC events.         *)
(*                                                                         *)
(* A turn is one run of runAgentTurn: it awaits the tools, then streams    *)
(* from the provider, with tool calls in between.  Texts are abstracted to *)
(* the turns that wrote their chunks.  The history sent to the model, the  *)
(* "Working" status, titles and screenshots are left out.                  *)
(***************************************************************************)
EXTENDS Integers, SequencesExt

CONSTANTS
  Threads, NoThread,  \* ids of threads, and null
  Agents, AgentOf,    \* the agent a thread is created for
  AgentLimit, Total   \* bounds: how often each thing of AgentBudget may happen,
                      \* and all of them together

\* Messages and retries; threads opened; what disturbs a turn (a stop, a deletion,
\* the agent removed, a crash); and what a provider sends before it ends a reply.
AgentBudget == {"ask", "open", "disturb", "delta"}

ASSUME AgentAssumption ==
  /\ NoThread \notin Threads
  /\ AgentOf \in [Threads -> Agents]
  /\ AgentLimit \in [AgentBudget -> Nat] /\ Total \in Nat

VARIABLES
  \* --- the main process --------------------------------------------------
  store,    \* agentThreadStore's store: threads, latest first, and messages
  saved,    \* agentThreads.json
  agents,   \* the configured agents
  turns,    \* the runs of runAgentTurn that have not ended, and the lost ones
  active,   \* activeAgentStreams: the turn whose controller a thread has
  \* --- the panel ---------------------------------------------------------
  panel,    \* AgentPanel's and AgentConversation's state
  \* --- the pipes between them --------------------------------------------
  toMain, toPanel,
  \* --- ids that were given out, and bounds -------------------------------
  born, ids, agentUsed

main == <<store, saved, agents, turns, active>>
counters == <<born, ids>>
agentVars == <<main, panel, toMain, toPanel, counters, agentUsed>>

NoMsg == 0
NoTurn == 0

AgentSpend(what) ==
  /\ agentUsed[what] < AgentLimit[what] /\ MapThenSumSet(LAMBDA b : agentUsed[b], AgentBudget) < Total
  /\ agentUsed' = [agentUsed EXCEPT ![what] = @ + 1]

Event(kind, t, body) == [kind |-> kind, thread |-> t, body |-> body]

-----------------------------------------------------------------------------
(* agentThreadStore.                                                       *)

Empty == [threads |-> <<>>, messages |-> <<>>]

\* A thread is listed once.
Others(list, t) ==
  IF t \in ToSet(list) THEN RemoveAt(list, CHOOSE i \in DOMAIN list : list[i] = t) ELSE list

Prepended(list, t) == <<t>> \o list
ToFront(list, t) == <<t>> \o Others(list, t)

Put(map, key, value) ==
  [x \in DOMAIN map \cup {key} |-> IF x = key THEN value ELSE map[x]]

Created(s, t) ==
  [threads |-> ToFront(s.threads, t), messages |-> Put(s.messages, t, <<>>)]

Without(s, t) ==
  [threads |-> Others(s.threads, t),
   messages |-> [x \in DOMAIN s.messages \ {t} |-> s.messages[x]]]

MessagesOf(s, t) == IF t \in DOMAIN s.messages THEN s.messages[t] ELSE <<>>

Message(id, role) == [id |-> id, role |-> role, text |-> <<>>, error |-> FALSE]

Added(s, t, m) ==
  [threads |-> ToFront(s.threads, t),
   messages |-> Put(s.messages, t, Append(MessagesOf(s, t), m))]

\* What happens to a message of a list, in the store and on the panel alike.
WithChunk(list, id, turn) ==
  [i \in DOMAIN list |-> IF list[i].id = id
                         THEN [list[i] EXCEPT !.text = Append(@, turn)] ELSE list[i]]

WithError(list, id) ==
  [i \in DOMAIN list |-> IF list[i].id = id
                         THEN [list[i] EXCEPT !.error = TRUE] ELSE list[i]]

KeptText(list, id) ==
  [i \in DOMAIN list |-> IF list[i].id = id
                         THEN [list[i] EXCEPT !.error = FALSE] ELSE list[i]]

Blank(list, id) ==
  [i \in DOMAIN list |-> IF list[i].id = id
                         THEN [list[i] EXCEPT !.text = <<>>, !.error = FALSE] ELSE list[i]]

\* store.messages[t]?. ...: nothing happens once the thread was deleted.
Recreated(s, t, list) == [s EXCEPT !.messages = Put(@, t, list)]
Updated(s, t, list) ==
  IF t \in DOMAIN s.messages THEN [s EXCEPT !.messages[t] = list] ELSE s

Finalized(s, t, id, failed) ==
  IF failed THEN Updated(s, t, WithError(MessagesOf(s, t), id)) ELSE s

Persist(s) == store' = s /\ saved' = s

-----------------------------------------------------------------------------
(* The panel: a conversation is mounted while the selected thread is in    *)
(* the list, and asks for its messages when it is.                         *)

Mounted(p) == IF p.selected \in ToSet(p.list) THEN p.selected ELSE NoThread

\* Settings' agents and the threads are requested when AgentPanel mounts.
Opening == <<Event("agents", NoThread, NoMsg), Event("threads", NoThread, NoMsg)>>

FreshPanel == [agents |-> {}, list |-> <<>>, selected |-> NoThread, awaiting |-> FALSE,
               shown |-> <<>>, streaming |-> NoMsg]

StaleMount(p) == [p EXCEPT !.shown = <<>>]
OnMount(p) == [p EXCEPT !.shown = <<>>, !.streaming = NoMsg]

Render(p, calls) ==
  LET mounts == Mounted(p) # Mounted(panel)
  IN  /\ panel' = IF mounts THEN OnMount(p) ELSE p
      /\ toMain' = toMain \o calls
                   \o IF mounts /\ Mounted(p) # NoThread
                      THEN <<Event("messages", Mounted(p), NoMsg)>> ELSE <<>>

UserActs == UNCHANGED <<main, toPanel, counters>>

\* Without agents the list of threads is not on screen.
ListRow(t) ==
  Mounted(panel) = NoThread /\ panel.agents # {} /\ t \in ToSet(panel.list)

Select(t) ==
  /\ ListRow(t)
  /\ AgentSpend("open")
  /\ Render([panel EXCEPT !.selected = t], <<>>)
  /\ UserActs

Back ==
  /\ Mounted(panel) # NoThread
  /\ Render([panel EXCEPT !.selected = NoThread], <<>>)
  /\ UNCHANGED agentUsed /\ UserActs

NewThread(a) ==
  /\ Mounted(panel) = NoThread /\ a \in panel.agents
  /\ AgentSpend("open")
  /\ Render([panel EXCEPT !.awaiting = TRUE], <<Event("create", NoThread, a)>>)
  /\ UserActs

Submit ==
  /\ Mounted(panel) # NoThread /\ panel.streaming = NoMsg
  /\ AgentOf[Mounted(panel)] \in panel.agents
  /\ AgentSpend("ask")
  /\ Render(panel, <<Event("send", Mounted(panel), NoMsg)>>)
  /\ UserActs

Retry(i) ==
  /\ Mounted(panel) # NoThread /\ panel.shown[i].error
  /\ AgentSpend("ask")
  /\ Render(panel, <<Event("retry", Mounted(panel), panel.shown[i].id)>>)
  /\ UserActs

PressStop ==
  /\ Mounted(panel) # NoThread /\ panel.streaming # NoMsg
  /\ AgentSpend("disturb")
  /\ Render(panel, <<Event("stop", Mounted(panel), NoMsg)>>)
  /\ UserActs

Delete(t) ==
  /\ ListRow(t) \/ t = Mounted(panel)
  /\ AgentSpend("disturb")
  /\ Render([panel EXCEPT !.selected = IF Mounted(panel) = t THEN NoThread ELSE @],
            <<Event("delete", t, NoMsg)>>)
  /\ UserActs

\* The panel's mode is switched to the page chat and back: AgentPanel remounts.
Reopen ==
  /\ AgentSpend("open")
  /\ panel' = FreshPanel
  /\ toMain' = toMain \o Opening
  /\ UserActs

\* Events for a conversation are discarded unless it is the one on screen.
Ours(t) == Mounted(panel) = t

Deliver ==
  LET e == Head(toPanel)
      p == panel
  IN
  /\ toPanel # <<>>
  /\ toPanel' = Tail(toPanel)
  /\ IF e.kind = "agents"
     THEN Render([p EXCEPT !.agents = e.body], <<>>)
     ELSE IF e.kind = "threads"
     THEN IF p.awaiting /\ e.body # <<>>
          THEN Render([p EXCEPT !.list = e.body, !.awaiting = FALSE,
                                !.selected = e.body[1]], <<>>)
          ELSE Render([p EXCEPT !.list = e.body], <<>>)
     ELSE
       /\ UNCHANGED toMain
       /\ panel' =
            IF ~Ours(e.thread) THEN p
            ELSE CASE e.kind = "messages" -> [p EXCEPT !.shown = e.body]
                   [] e.kind = "added" ->
                        [p EXCEPT !.shown = Append(@, e.body),
                                  !.streaming = IF e.body.role = "assistant"
                                                THEN e.body.id ELSE @]
                   [] e.kind = "chunk" ->
                        [p EXCEPT !.shown = WithChunk(@, e.body[1], e.body[2])]
                   [] e.kind = "done" ->
                        [p EXCEPT !.streaming = IF @ = e.body THEN NoMsg ELSE @]
                   [] e.kind = "error" ->
                        [p EXCEPT !.streaming = IF @ = e.body THEN NoMsg ELSE @,
                                  !.shown = WithError(@, e.body)]
                   [] e.kind = "retry" ->
                        [p EXCEPT !.streaming = e.body, !.shown = Blank(@, e.body)]
  /\ UNCHANGED <<main, counters, agentUsed>>

-----------------------------------------------------------------------------
(* The handlers of the main process.                                       *)

ThreadList(s) == Event("threads", NoThread, s.threads)

Receives(kind) ==
  /\ toMain # <<>> /\ Head(toMain).kind = kind
  /\ toMain' = Tail(toMain)
  /\ UNCHANGED <<panel, agentUsed>>

Tell(events) == toPanel' = toPanel \o events

Abort(ts) ==
  turns' = [k \in DOMAIN turns |->
              [turns[k] EXCEPT !.aborted = @ \/ k \in {active[t] : t \in ts}]]

HandleRequestAgents ==
  /\ Receives("agents")
  /\ Tell(<<Event("agents", NoThread, agents)>>)
  /\ UNCHANGED <<main, counters>>

HandleRequestThreads ==
  /\ Receives("threads")
  /\ Tell(<<ThreadList(store)>>)
  /\ UNCHANGED <<main, counters>>

HandleRequestMessages ==
  LET t == Head(toMain).thread
  IN
  /\ Receives("messages")
  /\ Tell(<<Event("messages", t, MessagesOf(store, t))>>)
  /\ UNCHANGED <<main, counters>>

HandleCreate(t) ==
  /\ Receives("create")
  /\ t \notin born /\ AgentOf[t] = Head(toMain).body
  /\ born' = born \cup {t}
  /\ Persist(Created(store, t))
  /\ Tell(<<ThreadList(store')>>)
  /\ UNCHANGED <<agents, turns, active, ids>>

HandleDelete ==
  LET t == Head(toMain).thread
  IN
  /\ Receives("delete")
  /\ Abort({t})
  /\ active' = [active EXCEPT ![t] = NoTurn]
  /\ Persist(Without(store, t))
  /\ Tell(<<ThreadList(store')>>)
  /\ UNCHANGED <<agents, counters>>

HandleStop ==
  /\ Receives("stop")
  /\ Abort({Head(toMain).thread})
  /\ UNCHANGED <<store, saved, agents, active, toPanel, counters>>

\* runAgentTurn up to its first await; s is the store, news the events so far.
BeginTurn(s, t, id, news) ==
  LET k == ids.turn + 1
  IN  IF AgentOf[t] \in agents
      THEN /\ turns' = Put(turns, k, [thread |-> t, msg |-> id, pc |-> "tools",
                                    aborted |-> FALSE])
           /\ ids' = [turn |-> k, msg |-> Max({ids.msg, id})]
           /\ Persist(s)
           /\ Tell(news)
      ELSE /\ ids' = [ids EXCEPT !.msg = Max({@, id})]
           /\ Persist(Finalized(s, t, id, TRUE))
           /\ Tell(Append(news, Event("error", t, id)))
           /\ UNCHANGED turns

HandleSend ==
  LET t == Head(toMain).thread
      question == Message(ids.msg + 1, "user")
      reply == Message(ids.msg + 2, "assistant")
      asked == Added(store, t, question)
  IN
  /\ Receives("send")
  /\ IF t \in ToSet(store.threads)
     THEN BeginTurn(Added(asked, t, reply), t, reply.id,
                    <<Event("added", t, question), ThreadList(asked),
                      Event("added", t, reply)>>)
     ELSE UNCHANGED <<store, saved, turns, toPanel, ids>>
  /\ UNCHANGED <<agents, active, born>>

\* Only a failed reply that follows a question is retried.
Retriable(t, id) ==
  \E i \in DOMAIN MessagesOf(store, t) :
    LET list == MessagesOf(store, t)
    IN  /\ list[i].id = id /\ list[i].role = "assistant" /\ list[i].error
        /\ i > 1 /\ list[i - 1].role = "user"

HandleRetry ==
  LET t == Head(toMain).thread
      id == Head(toMain).body
  IN
  /\ Receives("retry")
  /\ IF t \in ToSet(store.threads) /\ Retriable(t, id)
     THEN BeginTurn(Updated(store, t, Blank(store.messages[t], id)), t, id,
                    <<Event("retry", t, id)>>)
     ELSE UNCHANGED <<store, saved, turns, toPanel, ids>>
  /\ UNCHANGED <<agents, active, born>>

\* From Settings, which is another renderer.
ClearAll ==
  /\ AgentSpend("disturb")
  /\ Abort(Threads)
  /\ active' = [t \in Threads |-> NoTurn]
  /\ Persist(Empty)
  /\ Tell(<<ThreadList(Empty)>>)
  /\ UNCHANGED <<agents, panel, toMain, counters>>

RemoveAgent(a) ==
  /\ a \in agents
  /\ AgentSpend("disturb")
  /\ agents' = agents \ {a}
  /\ Tell(<<Event("agents", NoThread, agents')>>)
  /\ UNCHANGED <<store, saved, turns, active, panel, toMain, counters>>

-----------------------------------------------------------------------------
(* A turn, from its first await on.                                        *)

At(k, labels) == k \in DOMAIN turns /\ turns[k].pc \in labels

Goes(k, label) == turns' = [turns EXCEPT ![k].pc = label]

\* The controller is registered only now.
ToolsListed(k) ==
  /\ At(k, {"tools"})
  /\ Goes(k, "stream")
  /\ active' = [active EXCEPT ![turns[k].thread] = k]
  /\ UNCHANGED <<store, saved, agents, panel, toMain, toPanel, counters, agentUsed>>

\* The call rejects (one server's settings suffice, see McpTools), outside the
\* try: the turn is over, nothing is finalized, and nobody is told.
ToolsRejected(k) ==
  /\ At(k, {"tools"})
  /\ Goes(k, "lost")
  /\ UNCHANGED <<store, saved, agents, active, panel, toMain, toPanel, counters, agentUsed>>

\* Ollama's notice that a model takes no tools follows a request of its own,
\* which no abort ends.
Chunk(k) ==
  LET t == turns[k].thread
      id == turns[k].msg
  IN
  /\ At(k, {"stream"})
  /\ AgentSpend("delta")
  /\ store' = Updated(store, t, WithChunk(MessagesOf(store, t), id, k))
  /\ Tell(<<Event("chunk", t, <<id, k>>)>>)
  /\ UNCHANGED <<saved, agents, turns, active, panel, toMain, counters>>

CallTool(k) ==
  /\ At(k, {"stream"}) /\ ~turns[k].aborted
  /\ AgentSpend("delta")
  /\ Goes(k, "call")
  /\ UNCHANGED <<store, saved, agents, active, panel, toMain, toPanel, counters>>

\* A tool call cannot be aborted; the next request of the loop can.
ToolAnswered(k) ==
  /\ At(k, {"call"})
  /\ Goes(k, "stream")
  /\ UNCHANGED <<store, saved, agents, active, panel, toMain, toPanel, counters, agentUsed>>

\* finalizeMessage persists on every path; the finally block drops the entry
\* of the thread, whosever it is.
SaveFailures(s, failed) == IF failed THEN s ELSE saved
SaveAlways(s, failed) == s
KeptEntry(t) == active
NoEntry(t) == [active EXCEPT ![t] = NoTurn]

End(k, failed) ==
  LET t == turns[k].thread
      id == turns[k].msg
      s == Finalized(store, t, id, failed)
  IN
  /\ store' = s
  /\ saved' = SaveAlways(s, failed)
  /\ active' = NoEntry(t)
  /\ turns' = [j \in DOMAIN turns \ {k} |-> turns[j]]
  /\ Tell(<<Event(IF failed THEN "error" ELSE "done", t, id), ThreadList(s)>>)
  /\ UNCHANGED <<agents, panel, toMain, counters, agentUsed>>

\* The stream ends, or the last of the allowed rounds was a tool call.
Done(k) ==
  /\ At(k, {"stream", "call"})
  /\ turns[k].pc = "stream" => ~turns[k].aborted
  /\ End(k, FALSE)

Stopped(k) == At(k, {"stream"}) /\ turns[k].aborted /\ End(k, FALSE)

\* An abort while the body of an error response is read is lost in the error.
Fails(k) == At(k, {"stream", "call"}) /\ End(k, TRUE)

-----------------------------------------------------------------------------
\* The application dies and is started again.  In the middle of a write the
\* file is lost: one that does not parse loads as an empty store.
Crash ==
  /\ AgentSpend("disturb")
  /\ \E s \in {saved, Empty} : Persist(s)
  /\ turns' = <<>>
  /\ active' = [t \in Threads |-> NoTurn]
  /\ panel' = FreshPanel
  /\ toPanel' = <<>>
  /\ toMain' = Opening
  /\ UNCHANGED <<agents, counters>>

AgentInit ==
  /\ store = Empty /\ saved = Empty
  /\ agents = Agents
  /\ turns = <<>>
  /\ active = [t \in Threads |-> NoTurn]
  /\ panel = FreshPanel
  /\ toPanel = <<>>
  /\ toMain = Opening
  /\ born = {} /\ ids = [turn |-> NoTurn, msg |-> NoMsg]
  /\ agentUsed = [b \in AgentBudget |-> 0]

User ==
  \/ \E t \in Threads : Select(t) \/ Delete(t)
  \/ \E a \in Agents : NewThread(a) \/ RemoveAgent(a)
  \/ \E i \in DOMAIN panel.shown : Retry(i)
  \/ Back \/ Submit \/ PressStop \/ Reopen \/ ClearAll

Handler ==
  \/ \E t \in Threads : HandleCreate(t)
  \/ HandleRequestAgents \/ HandleRequestThreads \/ HandleRequestMessages
  \/ HandleSend \/ HandleRetry \/ HandleStop \/ HandleDelete

Turn(k) ==
  \/ ToolsListed(k) \/ ToolsRejected(k) \/ Chunk(k) \/ CallTool(k) \/ ToolAnswered(k)
  \/ Done(k) \/ Stopped(k) \/ Fails(k)

AgentNext ==
  \/ User \/ Deliver \/ Handler \/ Crash
  \/ \E k \in DOMAIN turns : Turn(k)

AgentSpec == AgentInit /\ [][AgentNext]_agentVars

-----------------------------------------------------------------------------
StoreType(s) ==
  /\ ToSet(s.threads) \subseteq Threads /\ IsInjective(s.threads)
  /\ DOMAIN s.messages \subseteq Threads
  /\ \A t \in DOMAIN s.messages : \A i \in DOMAIN s.messages[t] :
       s.messages[t][i] \in [id : 1..ids.msg, role : {"user", "assistant"},
                             text : Seq(1..ids.turn), error : BOOLEAN]

(* Types; and no thread is listed twice.                                   *)
AgentTypeOK ==
  /\ StoreType(store) /\ StoreType(saved)
  /\ agents \subseteq Agents
  /\ \A k \in DOMAIN turns :
       turns[k] \in [thread : Threads, msg : 1..ids.msg,
                     pc : {"tools", "stream", "call", "lost"}, aborted : BOOLEAN]
  /\ active \in [Threads -> 0..ids.turn]
  /\ panel.agents \subseteq Agents
  /\ panel.selected \in Threads \cup {NoThread}
  /\ panel.awaiting \in BOOLEAN
  /\ panel.streaming \in 0..ids.msg
  /\ born \subseteq Threads

(* A reply is the work of one attempt: no two turns write to a message at  *)
(* a time, and what an earlier attempt wrote is never mixed with it,       *)
(* however stops, retries and late chunks are ordered.                     *)
OneAttempt ==
  /\ \A k, j \in DOMAIN turns : turns[k].msg = turns[j].msg => k = j
  /\ \A t \in DOMAIN store.messages : \A i \in DOMAIN store.messages[t] :
       \A a, b \in ToSet(store.messages[t][i].text) : a = b

(* What no turn is writing, because it has ended, waits for its tools or    *)
(* was lost, is on disk as it is in memory, so a crash between two chunks   *)
(* costs unfinished replies only.                                          *)
Writing == {k \in DOMAIN turns : turns[k].pc \in {"stream", "call"}}

SettledSaved ==
  /\ saved.threads = store.threads
  /\ \A t \in DOMAIN store.messages : \A i \in DOMAIN store.messages[t] :
       LET m == store.messages[t][i]
       IN  (\A k \in Writing : turns[k].msg # m.id)
             => t \in DOMAIN saved.messages /\ saved.messages[t][i] = m

(* A turn that outlives its thread, because it was not registered yet when *)
(* the thread was deleted or all were cleared, never brings a message list *)
(* back without its thread, neither in memory nor on disk.                 *)
NoGhosts ==
  \A s \in {store, saved} : DOMAIN s.messages = ToSet(s.threads)

(* When every event has arrived, the panel shows the store: agents, threads *)
(* and every message of the open one, whatever happened while it was       *)
(* mounted, left and mounted again; and it says "streaming" only of a      *)
(* reply that a turn is working on, or whose turn was lost when its tools   *)
(* could not be listed.                                                    *)
PanelAgrees ==
  (toMain = <<>> /\ toPanel = <<>>) =>
    /\ panel.agents = agents /\ panel.list = store.threads
    /\ Mounted(panel) # NoThread => panel.shown = MessagesOf(store, Mounted(panel))
    /\ panel.streaming # NoMsg => \E k \in DOMAIN turns : turns[k].msg = panel.streaming

(* ipc.ts:1020-1022: a server that is down or misconfigured contributes "no *)
(* tools this turn rather than failing the whole send", so that whatever is *)
(* shown as streaming, once every event has arrived, has a turn at work.    *)
StreamingHasTurn ==
  (toMain = <<>> /\ toPanel = <<>> /\ panel.streaming # NoMsg) =>
    \E k \in DOMAIN turns : turns[k].msg = panel.streaming /\ turns[k].pc # "lost"

(* The controller registered for a thread belongs to a turn of that thread  *)
(* that still streams or calls a tool: Stop ends some turn of its thread, if *)
(* any is registered, and never one of another thread.                     *)
RegistryLive ==
  \A t \in Threads : active[t] # NoTurn =>
    /\ active[t] \in DOMAIN turns
    /\ turns[active[t]].thread = t /\ active[t] \in Writing

(* AgentPanel's comment: the list that arrives after "New thread" was      *)
(* pressed is guaranteed to have the new thread first, so the thread that  *)
(* is selected then was not there before.                                  *)
NewThreadSelected ==
  [][panel.awaiting /\ ~panel'.awaiting /\ panel'.selected # NoThread
     => panel'.selected \notin ToSet(panel.list)]_agentVars

=============================================================================
