---------------------------- MODULE ChatServers ----------------------------
(***************************************************************************)
(* The chat servers of the browser: their settings, the claim of a user    *)
(* name, the cached tokens, the server a tab follows, and the one session  *)
(* that resyncChatSession keeps in step with them.                         *)
(***************************************************************************)
EXTENDS Integers, SequencesExt

CONSTANTS
  Configs,    \* ids of configured servers
  BaseUrls,   \* the servers' addresses
  UserNames,  \* names the user asks for
  Rooms,      \* pages of the active tab
  NoConfig,   \* no server: null
  Works       \* bound: things the user does

ASSUME ChatServersAssumption ==
  /\ NoConfig \notin Configs
  /\ "none" \notin BaseUrls \cup UserNames
  /\ Works \in Nat

VARIABLES
  servers,    \* ids in the order of the list
  config,     \* what is stored of each id
  default,    \* defaultServerId
  override,   \* the active tab's chatServerId
  room,       \* the active tab's page
  session,    \* the chat session: the key it was synced with, and its state
  field,      \* the user name field of the open form: server, status, name sent
  claims,     \* claims under way
  held,       \* names the servers have given out to this browser
  raced,      \* history: ids changed or claimed again while a request was under way
  works

chatServerVars ==
  <<servers, config, default, override, room, session, field, claims, held, raced, works>>

NoChatToken == [url |-> "none", user |-> "none"]
NoUser == "none"
NoSession == [key |-> <<>>, server |-> NoConfig, url |-> "none", token |-> NoChatToken, state |-> "idle"]
NoField == [server |-> NoConfig, status |-> "idle", user |-> NoUser]
Unnamed(url) == [url |-> url, user |-> NoUser, token |-> NoChatToken]

Ids == {servers[i] : i \in DOMAIN servers}
Duplicate(url, except) == \E s \in Ids \ {except} : config[s].url = url
Work == works < Works /\ works' = works + 1

-----------------------------------------------------------------------------
(* resyncChatSession with syncChatSession: no user name means no session; a  *)
(* session starts when the key of server, page and name changed.             *)
Resynced(list, conf, def, over, page) ==
  LET effective == IF over # NoConfig THEN over ELSE def
      known == effective \in {list[i] : i \in DOMAIN list}
      key == <<effective, page, conf[effective].user>>
  IN IF ~known THEN NoSession
     ELSE IF conf[effective].user = NoUser THEN NoSession
     ELSE IF key = session.key THEN session
     ELSE [key |-> key, server |-> effective, url |-> conf[effective].url,
           token |-> conf[effective].token, state |-> "connecting"]

Resync == session' = Resynced(servers', config', default', override', room')

(* A request under way for s was overtaken.                                  *)
UnderWay(s) ==
  \/ \E c \in claims : c.server = s
  \/ session.server = s /\ session.state = "connecting"

Race(s) == raced' = IF UnderWay(s) THEN raced \cup {s} ELSE raced

-----------------------------------------------------------------------------
(* Settings > Chat servers.                                                  *)
AddServer(s, url) ==
  /\ Work
  /\ s \notin Ids /\ config[s].url = "none" /\ ~Duplicate(url, s)
  /\ servers' = Append(servers, s)
  /\ config' = [config EXCEPT ![s] = Unnamed(url)]
  /\ default' = IF default = NoConfig THEN s ELSE default
  /\ UNCHANGED <<override, room>> /\ Resync
  /\ UNCHANGED <<field, claims, held, raced>>

(* A token is only good on the server that signed it.                        *)
TokenKept(s, url) == config[s].token
TokenAfter(s, url) == IF config[s].url = url THEN config[s].token ELSE NoChatToken

UpdateServer(s, url) ==
  /\ Work
  /\ s \in Ids /\ field.server = s /\ ~Duplicate(url, s)
  /\ config' = [config EXCEPT ![s].url = url, ![s].token = TokenAfter(s, url)]
  /\ Race(s)
  /\ field' = NoField
  /\ UNCHANGED <<servers, default, override, room>> /\ Resync
  /\ UNCHANGED <<claims, held>>

(* An id is listed once.                                                     *)
ListWithout(s) == RemoveAt(servers, CHOOSE i \in DOMAIN servers : servers[i] = s)
DefaultAfter(s) ==
  IF default # s THEN default ELSE IF ListWithout(s) = <<>> THEN NoConfig ELSE Head(ListWithout(s))

RemoveServer(s) ==
  /\ Work
  /\ s \in Ids
  /\ servers' = ListWithout(s)
  /\ default' = DefaultAfter(s)
  /\ field' = IF field.server = s THEN NoField ELSE field
  /\ UNCHANGED <<config, override, room>> /\ Resync
  /\ UNCHANGED <<claims, held, raced>>

SetDefault(s) ==
  /\ Work
  /\ s \in Ids /\ s # default
  /\ default' = s
  /\ UNCHANGED <<servers, config, override, room>> /\ Resync
  /\ UNCHANGED <<field, claims, held, raced>>

(* ChatServerPicker: this tab's own server, or the default again.            *)
SetOverride(s) ==
  /\ Work
  /\ s \in Ids \cup {NoConfig} /\ s # override
  /\ override' = s
  /\ UNCHANGED <<servers, config, default, room>> /\ Resync
  /\ UNCHANGED <<field, claims, held, raced>>

Navigate(page) ==
  /\ Work
  /\ page # room
  /\ room' = page
  /\ UNCHANGED <<servers, config, default, override>> /\ Resync
  /\ UNCHANGED <<field, claims, held, raced>>

-----------------------------------------------------------------------------
(* The form: opening another server keeps the field's state, closing it does *)
(* not.                                                                      *)
EditServer(s) ==
  /\ Work
  /\ s \in Ids \cup {NoConfig} /\ s # field.server
  /\ field' = IF s = NoConfig \/ field.server = NoConfig
              THEN [NoField EXCEPT !.server = s] ELSE [field EXCEPT !.server = s]
  /\ UNCHANGED <<servers, config, default, override, room, session, claims, held, raced>>

(* claimChatServerUsername up to its await.  Enter leaves the 600 ms timer    *)
(* armed, which sends the same name once more.                               *)
Sends(name) == field.status # "pending" \/ name = field.user

Claim(name) ==
  LET s == field.server IN
  /\ Work
  /\ s # NoConfig /\ Sends(name)
  /\ config[s].user = NoUser
  /\ field' = [field EXCEPT !.status = "pending", !.user = name]
  /\ claims' = claims \cup {[server |-> s, url |-> config[s].url, user |-> name, no |-> works]}
  /\ Race(s)
  /\ UNCHANGED <<servers, config, default, override, room, session, held>>

(* After it: the name is set unless one is, the token is stored in any case. *)
Named(s, name) == IF config[s].user = NoUser THEN name ELSE config[s].user
Result(c, status) ==
  field' = IF field.server = c.server /\ field.user = c.user
           THEN [field EXCEPT !.status = status] ELSE field

ClaimGranted(c) ==
  /\ c \in claims /\ claims' = claims \ {c}
  /\ [url |-> c.url, user |-> c.user] \notin held
  /\ held' = held \cup {[url |-> c.url, user |-> c.user]}
  /\ config' = IF c.server \notin Ids THEN config
               ELSE [config EXCEPT ![c.server].user = Named(c.server, c.user),
                                   ![c.server].token = [url |-> c.url, user |-> c.user]]
  /\ UNCHANGED <<servers, default, override, room>> /\ Resync
  /\ Result(c, "idle")
  /\ UNCHANGED <<raced, works>>

ClaimFailed(c) ==
  /\ c \in claims /\ claims' = claims \ {c}
  /\ \E status \in {"taken", "error"} : Result(c, status)
  /\ UNCHANGED <<servers, config, default, override, room, session, held, raced, works>>

-----------------------------------------------------------------------------
(* startSession's /connect: a token of that address is taken, and a new one  *)
(* is issued for a name nobody holds; the answer is stored under the id.     *)
Stored(token) ==
  IF session.server \notin Ids THEN config ELSE [config EXCEPT ![session.server].token = token]

Issued == [url |-> session.url, user |-> IF session.token = NoChatToken THEN session.key[3]
                                         ELSE session.token.user]
Accepted == IF session.token = NoChatToken THEN Issued \notin held ELSE session.token.url = session.url

ConnectOk ==
  /\ session.state = "connecting"
  /\ Accepted
  /\ session' = [session EXCEPT !.state = "connected", !.token = Issued]
  /\ held' = held \cup {Issued}
  /\ config' = Stored(Issued)
  /\ UNCHANGED <<servers, default, override, room, field, claims, raced, works>>

(* A 401 forgets the token; a name that is taken and any other error do not. *)
ConnectRefused ==
  /\ session.state = "connecting"
  /\ session' = [session EXCEPT !.state = "error"]
  /\ \/ session.token # NoChatToken /\ config' = Stored(NoChatToken)
     \/ UNCHANGED config
  /\ UNCHANGED <<servers, default, override, room, field, claims, held, raced, works>>

(* First run: one server, the default one, without a name.                   *)
ChatServersInit ==
  \E s \in Configs : \E url \in BaseUrls :
    /\ servers = <<s>> /\ default = s
    /\ config = [x \in Configs |-> IF x = s THEN Unnamed(url) ELSE Unnamed("none")]
    /\ override = NoConfig
    /\ room \in Rooms
    /\ session = NoSession /\ field = NoField
    /\ claims = {} /\ held = {} /\ raced = {} /\ works = 0

ChatServersNext ==
  \/ \E s \in Configs, url \in BaseUrls : AddServer(s, url) \/ UpdateServer(s, url)
  \/ \E s \in Configs : RemoveServer(s) \/ SetDefault(s)
  \/ \E s \in Configs \cup {NoConfig} : SetOverride(s) \/ EditServer(s)
  \/ \E page \in Rooms : Navigate(page)
  \/ \E name \in UserNames : Claim(name)
  \/ \E c \in claims : ClaimGranted(c) \/ ClaimFailed(c)
  \/ ConnectOk \/ ConnectRefused

ChatServersSpec == ChatServersInit /\ [][ChatServersNext]_chatServerVars

-----------------------------------------------------------------------------
ChatServersTypeOK ==
  /\ servers \in Seq(Configs) /\ Cardinality(Ids) = Len(servers)
  /\ default \in Configs \cup {NoConfig} /\ override \in Configs \cup {NoConfig}
  /\ session.state \in {"idle", "connecting", "connected", "error"}
  /\ field.status \in {"idle", "pending", "taken", "error"}
  /\ raced \subseteq Configs /\ works \in 0..Works

(* While there is a server there is a default one, and no two servers have   *)
(* the same address.                                                         *)
DefaultListed ==
  /\ IF servers = <<>> THEN default = NoConfig ELSE default \in Ids
  /\ \A s \in Ids : ~Duplicate(config[s].url, s)

(* chatServerStore.ts:160-161: "A cached token proves a specific (baseUrl,   *)
(* username) pair" - that of the settings it is stored with, unless they were *)
(* changed or a second name was claimed while the request was under way.     *)
TokenProvesIdentity ==
  \A s \in Ids : config[s].token # NoChatToken =>
    \/ config[s].token = [url |-> config[s].url, user |-> config[s].user]
    \/ s \in raced

(* The session is that of the tab's server, page and name.                   *)
Effective == IF override # NoConfig THEN override ELSE default
SessionOfTab ==
  IF Effective \in Ids /\ config[Effective].user # NoUser
  THEN session.key = <<Effective, room, config[Effective].user>>
  ELSE session.state = "idle"

ServersSound == DefaultListed /\ TokenProvesIdentity /\ SessionOfTab

(* ipc.ts:1093-1100: the session is resynced "to match" the effective server, *)
(* from "any chat-server CRUD mutation" - so it talks to the address the     *)
(* settings give, not to the one they gave before.                           *)
SessionFollowsSettings ==
  session.state # "idle" /\ session.server \in Ids => session.url = config[session.server].url
=============================================================================
