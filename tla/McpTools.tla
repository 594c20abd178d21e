------------------------------ MODULE McpTools ------------------------------
(***************************************************************************)
(* The tools of MCP servers in an agent's turn: the servers' settings, the *)
(* cached connections, the aliases in the tools' names, and the loop the   *)
(* four provider adapters share: ask the model, run the tools it calls,    *)
(* ask again.  A server offers one tool of the same name as the others'.   *)
(***************************************************************************)
EXTENDS Naturals, Sequences, FiniteSets

CONSTANTS
  Servers,   \* ids of servers, the browser's own one included
  Builtin,   \* BUILTIN_SERVER_ID
  Turns,     \* agent turns, each on a thread of its own
  Rounds,    \* MAX_TOOL_CALL_ROUNDS
  Calls,     \* bound: tool calls the model makes
  Asked,     \* bound: messages that are sent
  Edits      \* bound: changes of the servers' settings

ASSUME McpAssumption ==
  /\ Rounds \in Nat \ {0}
  /\ Calls \in Nat /\ Asked \in Nat /\ Edits \in Nat

VARIABLES
  mcpConfig,       \* each server: whether it is configured, its settings' version,
                \* and whether its command or URL can be read at all
  aliases,      \* the servers given an alias, in that order
  connections,  \* the cached client of a server: the version it was made with
  connecting,   \* connects under way: for which turn, with which version
  overtaken,    \* history: servers edited while a connect to them was under way
  turn,         \* each turn
  asked,        \* messages sent
  called,       \* tool calls the model made
  edits

mcpVars == <<mcpConfig, aliases, connections, connecting, overtaken, turn, asked, called, edits>>
settingsVars == <<mcpConfig, connections, overtaken, edits>>

NoClient == 0
IdleTurn == [pc |-> "idle", offered |-> {}, round |-> 0, calls |-> <<>>, results |-> <<>>,
           stopped |-> FALSE]

Exists(s) == mcpConfig[s].exists
Cached(s) == connections[s] # NoClient

(* aliasFor: an alias is given once and kept; a tool's name is its alias.    *)
Assigned(server) == \E i \in DOMAIN aliases : aliases[i] = server
AliasOf(list, server) == CHOOSE i \in DOMAIN list : list[i] = server
WithAlias(server) == IF Assigned(server) THEN aliases ELSE Append(aliases, server)
ToolOf(list, server) == [name |-> AliasOf(list, server), server |-> server]

-----------------------------------------------------------------------------
(* Settings > MCP.  Adding, editing and removing a server; the last two drop *)
(* its cached connection.  An id is never used again.                        *)
Edit == edits < Edits /\ edits' = edits + 1

NotDropped(s) == connections
Dropped(s) == [connections EXCEPT ![s] = NoClient]

Overtake(s) ==
  overtaken' = IF \E c \in connecting : c.server = s THEN overtaken \cup {s} ELSE overtaken

AddMcpServer(s) ==
  /\ Edit
  /\ mcpConfig[s].version = 0
  /\ \E valid \in BOOLEAN :
       mcpConfig' = [mcpConfig EXCEPT ![s] = [exists |-> TRUE, version |-> 1, valid |-> valid]]
  /\ UNCHANGED <<aliases, connections, connecting, overtaken, turn, asked, called>>

UpdateMcpServer(s) ==
  /\ Edit
  /\ s # Builtin /\ Exists(s)
  /\ connections' = Dropped(s)
  /\ \E valid \in BOOLEAN :
       mcpConfig' = [mcpConfig EXCEPT ![s].version = @ + 1, ![s].valid = valid]
  /\ Overtake(s)
  /\ UNCHANGED <<aliases, connecting, turn, asked, called>>

DeleteMcpServer(s) ==
  /\ Edit
  /\ s # Builtin /\ Exists(s)
  /\ connections' = Dropped(s)
  /\ mcpConfig' = [mcpConfig EXCEPT ![s].exists = FALSE]
  /\ Overtake(s)
  /\ UNCHANGED <<aliases, connecting, turn, asked, called>>

(* The browser's own server is switched off, or off and on again: its        *)
(* clients' sessions end, and nobody drops the cached one.                   *)
SwitchBuiltin ==
  /\ Edit
  /\ mcpConfig' = [mcpConfig EXCEPT ![Builtin].exists = ~@, ![Builtin].version = @ + 1]
  /\ UNCHANGED <<aliases, connections, connecting, overtaken, turn, asked, called>>

-----------------------------------------------------------------------------
(* getAllAvailableTools: connected servers offer their tools at once, and    *)
(* every other one is connected to, all at the same time.  The browser's own *)
(* one is asked for its cached client before anyone looks whether it is on.  *)
(* A command or URL that cannot be read throws outside connectAndCache's try: *)
(* the turn is lost, while the other connects go on.                         *)
Reusable(s) == Cached(s) /\ (s = Builtin \/ Exists(s))
ToConnect == {s \in Servers : Exists(s) /\ ~Cached(s)}
Readable == {s \in ToConnect : mcpConfig[s].valid}

GetTools(t) ==
  /\ turn[t].pc = "idle" /\ asked < Asked
  /\ asked' = asked + 1
  /\ turn' = [turn EXCEPT ![t] = [IdleTurn EXCEPT
       !.pc = IF ToConnect = Readable THEN "connecting" ELSE "lost",
       !.offered = {ToolOf(aliases, s) : s \in {x \in Servers : Reusable(x)}}]]
  /\ connecting' = connecting \cup
       {[turn |-> t, server |-> s, version |-> mcpConfig[s].version] : s \in Readable}
  /\ UNCHANGED <<mcpConfig, aliases, connections, overtaken, called, edits>>

(* connectAndCache: a server that cannot be reached offers nothing.          *)
McpConnectOk(c) ==
  /\ c \in connecting
  /\ connecting' = connecting \ {c}
  /\ aliases' = WithAlias(c.server)
  /\ connections' = [connections EXCEPT ![c.server] = c.version]
  /\ turn' = [turn EXCEPT ![c.turn].offered = @ \cup {ToolOf(aliases', c.server)}]
  /\ UNCHANGED <<mcpConfig, overtaken, asked, called, edits>>

McpConnectFailed(c) ==
  /\ c \in connecting
  /\ connecting' = connecting \ {c}
  /\ UNCHANGED <<settingsVars, aliases, turn, asked, called>>

ToolsReady(t) ==
  /\ turn[t].pc = "connecting"
  /\ ~\E c \in connecting : c.turn = t
  /\ turn' = [turn EXCEPT ![t].pc = "asking"]
  /\ UNCHANGED <<settingsVars, aliases, connecting, asked, called>>

-----------------------------------------------------------------------------
(* The adapters' loop.  The model answers with text alone, which ends the    *)
(* turn, or with calls, of tools it was offered or of a name it made up.     *)
MadeUp == 0
Names(t) == {o.name : o \in turn[t].offered} \cup {MadeUp}

(* Text alone ends the turn; so does a failed request, an answer that cannot *)
(* be read, and the request that finds the turn stopped.                     *)
EndTurn(t) ==
  /\ turn[t].pc = "asking"
  /\ turn' = [turn EXCEPT ![t] = IdleTurn]
  /\ UNCHANGED <<settingsVars, aliases, connecting, asked, called>>

AnswerCalls(t) ==
  /\ turn[t].pc = "asking" /\ ~turn[t].stopped
  /\ turn[t].offered # {}
  /\ \E n \in 1..Calls - called : \E calls \in [1..n -> Names(t)] :
       /\ turn' = [turn EXCEPT ![t].pc = "calling", ![t].calls = calls, ![t].results = <<>>]
       /\ called' = called + n
  /\ UNCHANGED <<settingsVars, aliases, connecting, asked>>

(* Ollama says the model takes no tools: it goes on without them.            *)
ToolsUnsupported(t) ==
  /\ turn[t].pc = "asking"
  /\ turn[t].offered # {}
  /\ turn' = [turn EXCEPT ![t].offered = {}]
  /\ UNCHANGED <<settingsVars, aliases, connecting, asked, called>>

(* The user stops the turn: the signal reaches requests to the model, not a  *)
(* tool that runs, so the calls of the round go on.                          *)
StopTurn(t) ==
  /\ turn[t].pc = "calling" /\ ~turn[t].stopped
  /\ turn' = [turn EXCEPT ![t].stopped = TRUE]
  /\ UNCHANGED <<settingsVars, aliases, connecting, asked, called>>

(* callTool: the name leads to a server, whose client as it is cached now    *)
(* runs the tool; an unknown name, a client that is gone and a tool that     *)
(* fails give a result too.  Arguments that are no JSON end the turn.        *)
Target(name) == aliases[name]
NextCall(t) == turn[t].calls[Len(turn[t].results) + 1]

WithResult(t) == Append(turn[t].results, NextCall(t))

Call(t) ==
  /\ turn[t].pc = "calling"
  /\ Len(turn[t].results) < Len(turn[t].calls)
  /\ \/ turn' = [turn EXCEPT ![t].results = WithResult(t)]
     \/ turn' = [turn EXCEPT ![t] = IdleTurn]
  /\ UNCHANGED <<settingsVars, aliases, connecting, asked, called>>

(* After a round's last result the model is asked again, a few times.        *)
EndRound(t) ==
  /\ turn[t].pc = "calling"
  /\ Len(turn[t].results) = Len(turn[t].calls)
  /\ turn' = IF turn[t].round + 1 < Rounds
             THEN [turn EXCEPT ![t].pc = "asking", ![t].round = @ + 1]
             ELSE [turn EXCEPT ![t] = IdleTurn]
  /\ UNCHANGED <<settingsVars, aliases, connecting, asked, called>>

McpInit ==
  /\ mcpConfig = [s \in Servers |-> [exists |-> s = Builtin, valid |-> TRUE,
                                version |-> IF s = Builtin THEN 1 ELSE 0]]
  /\ aliases = <<>>
  /\ connections = [s \in Servers |-> NoClient]
  /\ connecting = {}
  /\ overtaken = {}
  /\ turn = [t \in Turns |-> IdleTurn]
  /\ asked = 0
  /\ called = 0
  /\ edits = 0

TurnNext(t) ==
  \/ GetTools(t) \/ ToolsReady(t) \/ EndTurn(t) \/ AnswerCalls(t)
  \/ ToolsUnsupported(t) \/ StopTurn(t) \/ Call(t) \/ EndRound(t)

McpNext ==
  \/ \E s \in Servers : AddMcpServer(s) \/ UpdateMcpServer(s) \/ DeleteMcpServer(s)
  \/ SwitchBuiltin
  \/ \E c \in connecting : McpConnectOk(c) \/ McpConnectFailed(c)
  \/ \E t \in Turns : TurnNext(t)

McpSpec == McpInit /\ [][McpNext]_mcpVars

-----------------------------------------------------------------------------
McpTypeOK ==
  /\ mcpConfig \in [Servers -> [exists : BOOLEAN, valid : BOOLEAN, version : Nat]]
  /\ aliases \in Seq(Servers)
  /\ connections \in [Servers -> Nat]
  /\ connecting \subseteq [turn : Turns, server : Servers, version : Nat]
  /\ overtaken \subseteq Servers
  /\ \A t \in Turns : turn[t].pc \in {"idle", "connecting", "asking", "calling", "lost"}
                      /\ turn[t].round \in 0..Rounds - 1
  /\ asked \in 0..Asked /\ called \in 0..Calls /\ edits \in 0..Edits

(* A tool's name leads to the server that offered the tool, for as long as   *)
(* the turn it was offered to may call it, though servers are edited, removed *)
(* and connected to again and other turns' connects give out names of their  *)
(* own meanwhile.                                                            *)
RunsWhereOffered ==
  \A t \in Turns : \A o \in turn[t].offered :
    o.name \in DOMAIN aliases /\ Target(o.name) = o.server

(* The model is asked again with one result for each of its calls, in the    *)
(* order of the calls, which the providers insist on - also when a server    *)
(* went away in the middle of the round.                                     *)
CallsAnswered ==
  \A t \in Turns : turn[t].pc = "asking" =>
     /\ Len(turn[t].results) = Len(turn[t].calls)
     /\ \A i \in DOMAIN turn[t].calls : turn[t].results[i] = turn[t].calls[i]

(* ipc.ts:717-719: an edit drops the connection "so the next message         *)
(* reconnects with the new command/url/secrets instead of silently           *)
(* continuing to use the stale one".  Only a connect that was under way      *)
(* while the server was edited caches a client of the old settings.          *)
ClientsCurrent ==
  \A s \in Servers \ {Builtin} :
    Cached(s) => s \in overtaken \/ (Exists(s) /\ connections[s] = mcpConfig[s].version)

(* client.ts:15-17: a server that fails to connect, for a bad command or an   *)
(* unreachable URL, never blocks the rest - its tools are left out of that   *)
(* turn and the message is sent.                                             *)
ServersNeverBlock == \A t \in Turns : turn[t].pc # "lost"

(* The three together, over the loop the adapters share and the handlers of   *)
(* Settings: a call runs at the server that offered its tool, every call of  *)
(* a round gets its result in order, and no stale client is used unless an   *)
(* edit overtook its connect.                                                *)
ToolCallsSound == RunsWhereOffered /\ CallsAnswered /\ ClientsCurrent
=============================================================================
