----------------------------- MODULE McpServer -----------------------------
(***************************************************************************)
(* The browser's own MCP server: the tokens on file, the listening socket  *)
(* and its switch in Settings, the sessions clients open, and the tools    *)
(* with the scope each of them asks for.                                   *)
(***************************************************************************)
EXTENDS Naturals, Sequences

CONSTANTS
  Tokens,    \* tokens that may be made, the internal one not among them
  Internal,  \* the internal token
  Tools,     \* the tools clients call, some of the domain of ScopeOf
  Flights,   \* requests that may be in flight together
  Switches,  \* bound: uses of the switch in Settings
  Requests   \* bound: requests that are made

VARIABLES
  granted,    \* the scopes a token was signed with, {} if there is no such token
  onFile,     \* the tokens in mcpAuth.json
  listening,  \* the sockets that accept connections
  httpServer,     \* httpServer, 0 for null
  hasWindow,  \* whether currentWm is set
  listens,    \* listen calls under way, by whom
  bound,      \* sockets bound so far
  sessions,   \* open sessions
  opened,     \* the sessions opened so far, with the scopes of the token that did
  preferred,  \* mcpServerEnabled.json
  status,     \* whether Settings shows the switch on
  pushes,     \* status pushes on their way to Settings
  flight,     \* requests
  switched,
  requested

serverVars == <<listening, httpServer, hasWindow, listens, sessions, bound, preferred, status,
                pushes>>
tokenVars == <<granted, onFile>>
countVars == <<switched, requested>>
mcpServerVars == <<tokenVars, serverVars, opened, flight, countVars>>

(* registerTools: every tool tests its scope first.                          *)
ScopeOf ==
  [list_bookmarks         |-> "bookmarks:read",  add_bookmark           |-> "bookmarks:write",
   remove_bookmark        |-> "bookmarks:write", rename_bookmark        |-> "bookmarks:write",
   move_bookmark          |-> "bookmarks:write", create_bookmark_folder |-> "bookmarks:write",
   rename_bookmark_folder |-> "bookmarks:write", delete_bookmark_folder |-> "bookmarks:write",
   search_history         |-> "history:read",    delete_history_entry   |-> "history:write",
   clear_history          |-> "history:write",   list_trusted_domains   |-> "domains:read",
   add_trusted_domain     |-> "domains:write",   add_untrusted_domain   |-> "domains:write",
   remove_domain          |-> "domains:write",   get_proxy_status       |-> "proxy:read",
   list_tabs              |-> "tabs:read",       open_tab               |-> "tabs:write",
   close_tab              |-> "tabs:write",      switch_tab             |-> "tabs:write"]

Scopes == {ScopeOf[tool] : tool \in DOMAIN ScopeOf}

ASSUME McpServerAssumption ==
  /\ Tools \subseteq DOMAIN ScopeOf
  /\ Switches \in Nat /\ Requests \in Nat

NoMcpSession == 0
NoFlight == [pc |-> "none", token |-> Internal, revoked |-> FALSE, scopes |-> {},
             session |-> NoMcpSession, tool |-> "list_tabs"]

-----------------------------------------------------------------------------
(* Tokens: made once with at least one scope, revoked for good, or expired;  *)
(* the internal one is always on file.                                       *)
Signed == {Internal} \cup {t \in Tokens : granted[t] # {}}
Valid(token) == token \in {Internal} \cup onFile

CreateToken(token, scopes) ==
  /\ granted[token] = {} /\ scopes # {}
  /\ granted' = [granted EXCEPT ![token] = scopes]
  /\ onFile' = onFile \cup {token}
  /\ UNCHANGED <<serverVars, opened, flight, countVars>>

RevokeToken(token) ==
  /\ token \in onFile
  /\ onFile' = onFile \ {token}
  /\ UNCHANGED <<granted, serverVars, opened, flight, countVars>>

-----------------------------------------------------------------------------
(* startBuiltinMcpServer: nothing to do once httpServer is set, which it is  *)
(* only after the listen: two starts in a row listen on two ports.           *)
Start(by) ==
  IF httpServer # 0
  THEN UNCHANGED <<hasWindow, listens>> /\ pushes' = pushes + 1
  ELSE hasWindow' = TRUE /\ listens' = Append(listens, by) /\ UNCHANGED pushes

(* stopBuiltinMcpServer closes the sessions and the socket it knows of.      *)
StopServer ==
  /\ listening' = listening \ {httpServer}
  /\ httpServer' = 0
  /\ hasWindow' = FALSE
  /\ sessions' = {}
  /\ pushes' = pushes + 1

(* The switch in Settings asks for the opposite of what it shows.            *)
SetEnabled ==
  /\ switched < Switches /\ switched' = switched + 1
  /\ preferred' = ~status
  /\ \/ ~status /\ Start("switch") /\ UNCHANGED <<listening, httpServer, sessions>>
     \/ status /\ StopServer /\ UNCHANGED listens
  /\ UNCHANGED <<tokenVars, status, bound, opened, flight, requested>>

Bound ==
  /\ listens # <<>>
  /\ bound' = bound + 1
  /\ listening' = listening \cup {bound'}
  /\ httpServer' = bound'
  /\ listens' = Tail(listens)
  /\ pushes' = IF Head(listens) = "switch" THEN pushes + 1 ELSE pushes
  /\ UNCHANGED <<tokenVars, hasWindow, sessions, preferred, status, opened, flight, countVars>>

(* A status push, or the answer to Settings when it is opened, tells how it  *)
(* is at that moment.                                                        *)
ShowStatus ==
  /\ status' = (httpServer # 0)
  /\ pushes' = IF pushes > 0 THEN pushes - 1 ELSE 0
  /\ UNCHANGED <<tokenVars, listening, httpServer, hasWindow, listens, bound, sessions, preferred,
                 opened, flight, countVars>>

-----------------------------------------------------------------------------
(* handleHttpRequest.  A request names a token and a session, its own or     *)
(* another client's.                                                         *)
Flight(f, record) ==
  /\ flight' = [flight EXCEPT ![f] = record]
  /\ UNCHANGED <<tokenVars, serverVars, countVars>>

Arrive(f, token, session, tool) ==
  /\ flight[f].pc = "none" /\ requested < Requests
  /\ listening # {}
  /\ token \in Signed
  /\ requested' = requested + 1
  /\ flight' = [flight EXCEPT ![f] = [NoFlight EXCEPT !.pc = "arrived", !.token = token,
                  !.revoked = ~Valid(token), !.session = session, !.tool = tool]]
  /\ UNCHANGED <<tokenVars, serverVars, opened, switched>>

(* verifyToken: the signature carries the scopes, the file says whether the  *)
(* token was revoked; it may have expired as well.                           *)
ScopesOf(token) == IF token = Internal THEN Scopes ELSE granted[token]

Verify(f) ==
  /\ flight[f].pc = "arrived"
  /\ \/ /\ Valid(flight[f].token)
        /\ Flight(f, [flight[f] EXCEPT !.pc = "verified", !.scopes = ScopesOf(flight[f].token)])
     \/ flight[f].token # Internal /\ Flight(f, NoFlight)
  /\ UNCHANGED opened

(* A request of an open session runs its tool with the scopes of this        *)
(* request's token; another one opens a session, unless the server is off or *)
(* the session it names is gone.                                             *)
EntitledByOpener(f) == ScopeOf[flight[f].tool] \in opened[flight[f].session]
Entitled(f) == ScopeOf[flight[f].tool] \in flight[f].scopes

Serve(f) ==
  /\ flight[f].pc = "verified"
  /\ \/ /\ flight[f].session \in sessions
        /\ Flight(f, IF Entitled(f) THEN [flight[f] EXCEPT !.pc = "ran"] ELSE NoFlight)
     \/ /\ flight[f].session \notin sessions
        /\ Flight(f, IF hasWindow /\ flight[f].session = NoMcpSession
                     THEN [flight[f] EXCEPT !.pc = "opening"] ELSE NoFlight)
  /\ UNCHANGED opened

OpenSession(f) ==
  /\ flight[f].pc = "opening"
  /\ opened' = Append(opened, flight[f].scopes)
  /\ sessions' = sessions \cup {Len(opened')}
  /\ flight' = [flight EXCEPT ![f] = NoFlight]
  /\ UNCHANGED <<tokenVars, listening, httpServer, hasWindow, listens, bound, preferred, status,
                 pushes, countVars>>

Answer(f) ==
  /\ flight[f].pc = "ran"
  /\ Flight(f, NoFlight)
  /\ UNCHANGED opened

CloseSession(session) ==
  /\ session \in sessions
  /\ sessions' = sessions \ {session}
  /\ UNCHANGED <<tokenVars, listening, httpServer, hasWindow, listens, bound, preferred, status,
                 pushes, opened, flight, countVars>>

(* On by default; the start is under way when the window opens.              *)
McpServerInit ==
  /\ granted = [t \in Tokens |-> {}]
  /\ onFile = {}
  /\ preferred \in BOOLEAN
  /\ hasWindow = preferred
  /\ listens = IF preferred THEN <<"launch">> ELSE <<>>
  /\ listening = {} /\ httpServer = 0 /\ bound = 0
  /\ sessions = {} /\ opened = <<>>
  /\ status = FALSE /\ pushes = 0
  /\ flight = [f \in Flights |-> NoFlight]
  /\ switched = 0 /\ requested = 0

FlightNext(f) ==
  \/ \E token \in Tokens \cup {Internal}, session \in 0..Len(opened), tool \in Tools :
       Arrive(f, token, session, tool)
  \/ Verify(f) \/ Serve(f) \/ OpenSession(f) \/ Answer(f)

McpServerNext ==
  \/ \E t \in Tokens : \E scopes \in SUBSET {ScopeOf[tool] : tool \in Tools} :
       CreateToken(t, scopes)
  \/ \E t \in Tokens : RevokeToken(t)
  \/ SetEnabled \/ Bound \/ ShowStatus
  \/ \E f \in Flights : FlightNext(f)
  \/ \E s \in sessions : CloseSession(s)

McpServerSpec == McpServerInit /\ [][McpServerNext]_mcpServerVars

-----------------------------------------------------------------------------
McpServerTypeOK ==
  /\ granted \in [Tokens -> SUBSET Scopes] /\ onFile \subseteq Tokens
  /\ httpServer \in listening \cup {0}
  /\ sessions \subseteq 1..Len(opened)
  /\ \A f \in Flights : flight[f].scopes \subseteq Scopes
  /\ switched \in 0..Switches /\ requested \in 0..Requests

(* A tool runs for a request whose own token was signed with the tool's      *)
(* scope and had not been revoked when the request arrived - whichever       *)
(* client opened the session it comes on, and whatever that one may do.      *)
OnlyEntitled ==
  \A f \in Flights : flight[f].pc = "ran" =>
    /\ flight[f].token # Internal => ScopeOf[flight[f].tool] \in granted[flight[f].token]
    /\ ~flight[f].revoked
=============================================================================
