--------------------------- MODULE MCConversations ---------------------------
(* TLC instances of the browser's conversations with people and agents:    *)
(* the chat session and the servers it may be with, the agents' turns, the *)
(* tools of MCP servers they use, the browser's own MCP server, and the    *)
(* settings of agents and servers.  focus says which of them is at work in *)
(* a behaviour.                                                            *)
EXTENDS ChatSession, AgentTurns, ChatServers, McpTools, McpServer, SettingsForms

CONSTANTS
  Syncs, Texts, Notices, Faults,        \* how often in ChatSession
  Asks, Opens, Disturbances, Deltas     \* how often in AgentTurns

VARIABLE focus

Limits == ("sync" :> Syncs) @@ ("text" :> Texts) @@ ("notice" :> Notices)
          @@ ("fault" :> Faults)

AgentLimits ==
  ("ask" :> Asks) @@ ("open" :> Opens) @@ ("disturb" :> Disturbances)
  @@ ("delta" :> Deltas)

SoleAgent == [t \in Threads |-> CHOOSE a \in Agents : TRUE]

ThreadSymmetry == Permutations(Threads)

conversationVars ==
  <<sessionVars, agentVars, chatServerVars, mcpVars, mcpServerVars,
    settingsFormVars, focus>>

OneOf(set) == CHOOSE x \in set : TRUE

(* A part that is not at work starts in one way.                           *)
ConversationsInit ==
  /\ focus \in {"session", "agents", "servers", "tools", "mcp server", "settings"}
  /\ SessionInit /\ AgentInit /\ ChatServersInit /\ McpInit /\ McpServerInit
  /\ SettingsFormsInit
  /\ \A e \in OnFile : /\ entry[e].label = OneOf(Labels)
                       /\ entry[e].secret.text \in {OneOf(Secrets), ""}
  /\ focus # "servers" =>
       /\ default = OneOf(Configs) /\ room = OneOf(Rooms)
       /\ config[default].url = OneOf(BaseUrls)
  /\ focus # "mcp server" => preferred
  /\ focus # "session" => ~cached
  /\ focus # "settings" => section = "agents" /\ \A e \in OnFile : entry[e].kind = "hosted"

ConversationsNext ==
  /\ UNCHANGED focus
  /\ \/ /\ focus = "session" /\ SessionNext
        /\ UNCHANGED <<agentVars, chatServerVars, mcpVars, mcpServerVars, settingsFormVars>>
     \/ /\ focus = "agents" /\ AgentNext
        /\ UNCHANGED <<sessionVars, chatServerVars, mcpVars, mcpServerVars, settingsFormVars>>
     \/ /\ focus = "servers" /\ ChatServersNext
        /\ UNCHANGED <<sessionVars, agentVars, mcpVars, mcpServerVars, settingsFormVars>>
     \/ /\ focus = "tools" /\ McpNext
        /\ UNCHANGED <<sessionVars, agentVars, chatServerVars, mcpServerVars, settingsFormVars>>
     \/ /\ focus = "mcp server" /\ McpServerNext
        /\ UNCHANGED <<sessionVars, agentVars, chatServerVars, mcpVars, settingsFormVars>>
     \/ /\ focus = "settings" /\ SettingsFormsNext
        /\ UNCHANGED <<sessionVars, agentVars, chatServerVars, mcpVars, mcpServerVars>>

ConversationsSpec == ConversationsInit /\ [][ConversationsNext]_conversationVars

(* The variables of the parts keep their types.                            *)
ConversationsTypeOK ==
  /\ SessionTypeOK /\ AgentTypeOK /\ ChatServersTypeOK /\ McpTypeOK /\ McpServerTypeOK
  /\ SettingsFormsTypeOK
=============================================================================
