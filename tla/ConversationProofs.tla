-------------------------- MODULE ConversationProofs --------------------------
(***************************************************************************)
(* Three parts of MCConversations, for any number of servers, agents,      *)
(* rooms, threads and steps: the chat servers of a tab (ChatServers), the  *)
(* settings of agents and of MCP servers (SettingsForms), and the private  *)
(* threads of agents (AgentTurns).                                         *)
(***************************************************************************)
EXTENDS ChatServers, SettingsForms, AgentTurns, SequenceTheorems, TLAPS

-----------------------------------------------------------------------------
(* ChatServers.                                                            *)

UserOrNone == UserNames \cup {NoUser}
UrlOrNone == BaseUrls \cup {"none"}
ChatTokens == [url : UrlOrNone, user : UserOrNone]
Keys == {<<>>} \cup (Configs \X Rooms \X UserOrNone)

SessionRecords ==
  [key : Keys, server : Configs \cup {NoConfig}, url : UrlOrNone, token : ChatTokens,
   state : {"idle", "connecting", "connected", "error"}]
ConfigRecords == [url : UrlOrNone, user : UserOrNone, token : ChatTokens]

FieldRecords ==
  [server : Configs \cup {NoConfig}, status : {"idle", "pending", "taken", "error"}, user : UserOrNone]

ChatServersTypes ==
  /\ servers \in Seq(Configs)
  /\ \A i, j \in 1..Len(servers) : servers[i] = servers[j] => i = j
  /\ config \in [Configs -> ConfigRecords]
  /\ default \in Configs \cup {NoConfig} /\ override \in Configs \cup {NoConfig}
  /\ room \in Rooms
  /\ session \in SessionRecords
  /\ field \in FieldRecords
  /\ claims \subseteq [server : Configs, url : UrlOrNone, user : UserNames, no : Nat]
  /\ works \in Nat

(* A removed id is not given out again.                                      *)
IdsSpent ==
  /\ \A s \in Ids : config[s].url # "none"
  /\ \A c \in claims : config[c.server].url # "none"
  /\ field.server # NoConfig => config[field.server].url # "none"

(* The session is none, or the one of the tab's server, page and name.       *)
SessionFits(x, known, conf, effective, page) ==
  IF effective \in known /\ conf[effective].user # NoUser
  THEN /\ x.state # "idle" /\ x.server = effective
       /\ x.key = <<effective, page, conf[effective].user>>
  ELSE x = NoSession

(* Nothing overtook what is under way for a server: its claim is the only    *)
(* one and for the address and the missing name still stored, and what       *)
(* /connect is asked with is what is stored.                                 *)
ClaimFits(c, ss) ==
  /\ c.url = config[c.server].url
  /\ config[c.server].user = NoUser
  /\ \A d \in ss : d.server = c.server => d = c
ConnectFits(x, conf) ==
  /\ x.url = conf[x.server].url
  /\ x.token # NoChatToken => x.token = [url |-> x.url, user |-> x.key[3]]

NotOvertaken ==
  /\ \A c \in claims : c.server \notin raced => ClaimFits(c, claims)
  /\ session.state = "connecting" /\ session.server \notin raced => ConnectFits(session, config)

ServersInv ==
  /\ ChatServersTypes
  /\ IdsSpent
  /\ DefaultListed
  /\ TokenProvesIdentity
  /\ SessionFits(session, Ids, config, Effective, room)
  /\ NotOvertaken

-----------------------------------------------------------------------------
LEMMA Listed ==
  ASSUME NEW list \in Seq(Configs)
  PROVE  /\ {list[i] : i \in DOMAIN list} = {list[i] : i \in 1..Len(list)}
         /\ {list[i] : i \in DOMAIN list} \subseteq Configs
BY DEF Ids

ResyncedTo(x, known, conf, eff, page) ==
  /\ x \in SessionRecords
  /\ SessionFits(x, known, conf, eff, page)
  /\ \/ x = session
     \/ x = NoSession
     \/ /\ x.server = eff /\ eff \in known
        /\ x.url = conf[eff].url /\ x.token = conf[eff].token
        /\ x.key[3] = conf[eff].user

(* What resyncChatSession leaves: the session it found, or the one that is   *)
(* due, with the address and the token stored at this moment.                *)
LEMMA ResyncedSession ==
  ASSUME ChatServersAssumption,
         session \in SessionRecords,
         SessionFits(session, Ids, config, Effective, room),
         NEW list \in Seq(Configs), NEW conf \in [Configs -> ConfigRecords],
         NEW def, NEW over, NEW page \in Rooms,
         NEW eff, eff = IF over # NoConfig THEN over ELSE def,
         NEW x, x = Resynced(list, conf, def, over, page)
  PROVE  ResyncedTo(x, {list[i] : i \in DOMAIN list}, conf, eff, page)
<1> DEFINE ids1 == {list[i] : i \in DOMAIN list}
           key == <<eff, page, conf[eff].user>>
<1>0. ids1 \subseteq Configs
  OBVIOUS
<1>1. NoSession \in SessionRecords /\ NoSession.key = <<>> /\ NoSession.state = "idle"
  BY DEF NoSession, SessionRecords, Keys, NoChatToken, ChatTokens, UserOrNone, UrlOrNone, NoUser
<1>2. CASE eff \notin ids1 \/ conf[eff].user = NoUser
  <2>1. x = NoSession
    BY <1>2 DEF Resynced
  <2> QED
    BY <1>1, <1>2, <2>1 DEF SessionFits, ResyncedTo
<1>3. CASE eff \in ids1 /\ conf[eff].user # NoUser /\ key = session.key
  <2>1. x = session
    BY <1>3 DEF Resynced
  <2>2. session # NoSession
    <3>1. <<eff, page, conf[eff].user>> # <<>>
      OBVIOUS
    <3> QED
      BY <1>1, <1>3, <3>1
  <2>3. session.state # "idle" /\ session.key = <<Effective, room, config[Effective].user>> /\ session.server = Effective
    BY <2>2 DEF SessionFits
  <2>4. Effective = eff
    BY <1>3, <2>3
  <2> QED
    BY <1>3, <2>1, <2>3, <2>4 DEF SessionFits, ResyncedTo
<1>4. CASE eff \in ids1 /\ conf[eff].user # NoUser /\ key # session.key
  <2>1. x = [key |-> key, server |-> eff, url |-> conf[eff].url,
             token |-> conf[eff].token, state |-> "connecting"]
    BY <1>4 DEF Resynced
  <2>2. conf[eff] \in ConfigRecords /\ eff \in Configs
    BY <1>0, <1>4
  <2>3. key \in Keys
    BY <2>2 DEF Keys, ConfigRecords
  <2> HIDE DEF key
  <2>4. /\ x \in SessionRecords
        /\ x.key = key /\ x.server = eff /\ x.url = conf[eff].url
        /\ x.token = conf[eff].token /\ x.state = "connecting"
    BY <2>1, <2>2, <2>3 DEF SessionRecords, ConfigRecords
  <2>5. SessionFits(x, ids1, conf, eff, page)
    BY <1>4, <2>4 DEF SessionFits, key
  <2>6. x.key[3] = conf[eff].user
    BY <2>4 DEF key
  <2> QED
    BY <1>4, <2>4, <2>5, <2>6 DEF ResyncedTo
<1> QED
  BY <1>2, <1>3, <1>4

ConnectSound(x, conf, over) ==
  x.state = "connecting" /\ x.server \notin over => ConnectFits(x, conf)

(* A step after which the session is resynced.                               *)
LEMMA ResyncInv ==
  ASSUME ServersInv, Resync,
         servers' \in Seq(Configs), config' \in [Configs -> ConfigRecords], room' \in Rooms,
         TokenProvesIdentity', raced \subseteq raced',
         \A s \in Configs : session.state = "connecting" /\ session.server = s /\ s \notin raced' =>
            config'[s].url = config[s].url
  PROVE  /\ session' \in SessionRecords
         /\ SessionFits(session, Ids, config, Effective, room)'
         /\ ConnectSound(session, config, raced)'
<1>1. session \in SessionRecords /\ SessionFits(session, Ids, config, Effective, room)
  BY DEF ServersInv, ChatServersTypes
<1>2. /\ session' \in SessionRecords
      /\ SessionFits(session', Ids', config', Effective', room')
      /\ \/ session' = session
         \/ session' = NoSession
         \/ /\ session'.server = Effective' /\ Effective' \in Ids'
            /\ session'.url = config'[Effective'].url /\ session'.token = config'[Effective'].token
            /\ session'.key[3] = config'[Effective'].user
  <2>1. PICK list, conf, page, def, over, eff, x :
          /\ list \in Seq(Configs) /\ conf \in [Configs -> ConfigRecords] /\ page \in Rooms
          /\ list = servers' /\ conf = config' /\ page = room' /\ def = default' /\ over = override'
          /\ eff = (IF over # NoConfig THEN over ELSE def) /\ x = session'
    OBVIOUS
  <2>2. x = Resynced(list, conf, def, over, page)
    BY <2>1 DEF Resync
  <2>3. eff = IF over # NoConfig THEN over ELSE def
    BY <2>1
  <2>4. Ids' = {list[i] : i \in DOMAIN list} /\ Effective' = eff
    BY <2>1 DEF Ids, Effective
  <2>5. ResyncedTo(x, {list[i] : i \in DOMAIN list}, conf, eff, page)
    BY <1>1, <2>1, <2>2, <2>3, ResyncedSession, ChatServersAssumption
  <2>6. ResyncedTo(x, Ids', conf, eff, page)
    BY <2>4, <2>5
  <2> QED
    BY <2>1, <2>4, <2>6 DEF ResyncedTo
<1>3. ConnectSound(session', config', raced')
  <2>1. CASE session' = session
    <3>1. ASSUME session.state = "connecting", session.server \notin raced'
          PROVE  /\ session.url = config'[session.server].url
                 /\ session.token # NoChatToken => session.token = [url |-> session.url, user |-> session.key[3]]
      <4>1. session.server \in Configs
        <5>1. session # NoSession
          BY <3>1 DEF NoSession
        <5>2. session.server \in Ids /\ servers \in Seq(Configs)
          BY <1>1, <5>1 DEF SessionFits, ServersInv, ChatServersTypes
        <5> QED
          BY <5>2 DEF Ids
      <4>2. session.server \notin raced /\ ConnectFits(session, config)
        BY <3>1 DEF ServersInv, NotOvertaken
      <4> QED
        BY <3>1, <4>1, <4>2 DEF ConnectFits
    <3> QED
      BY <2>1, <3>1 DEF ConnectSound, ConnectFits
  <2>2. CASE session' = NoSession
    BY <2>2 DEF ConnectSound, NoSession
  <2>3. CASE /\ session'.server = Effective' /\ Effective' \in Ids'
             /\ session'.url = config'[Effective'].url /\ session'.token = config'[Effective'].token
             /\ session'.key[3] = config'[Effective'].user
    <3>1. session'.server \notin raced' /\ session'.token # NoChatToken =>
            session'.token = [url |-> session'.url, user |-> session'.key[3]]
      BY <2>3 DEF TokenProvesIdentity
    <3> QED
      BY <2>3, <3>1 DEF ConnectSound, ConnectFits
  <2> QED
    BY <1>2, <2>1, <2>2, <2>3
<1> QED
  BY <1>2, <1>3

ClaimsSound(ss, over) == \A c \in ss : c.server \notin over => ClaimFits(c, ss)

(* What is left to show of a step after which the session is resynced.       *)
LEMMA ResyncedStep ==
  ASSUME ServersInv, Resync,
         servers' \in Seq(Configs),
         \A i, j \in 1..Len(servers') : servers'[i] = servers'[j] => i = j,
         config' \in [Configs -> ConfigRecords], room' \in Rooms,
         default' \in Configs \cup {NoConfig}, override' \in Configs \cup {NoConfig},
         field' \in FieldRecords,
         claims' \subseteq claims, works' \in Nat,
         IdsSpent', DefaultListed', TokenProvesIdentity', ClaimsSound(claims, raced)',
         raced \subseteq raced',
         \A s \in Configs : session.state = "connecting" /\ session.server = s /\ s \notin raced' =>
            config'[s].url = config[s].url
  PROVE  ServersInv'
<1>1. /\ session' \in SessionRecords
      /\ SessionFits(session, Ids, config, Effective, room)'
      /\ ConnectSound(session, config, raced)'
  BY ResyncInv
<1>2. ChatServersTypes'
  BY <1>1 DEF ServersInv, ChatServersTypes
<1>3. NotOvertaken'
  BY <1>1 DEF NotOvertaken, ClaimsSound, ConnectSound
<1> QED
  BY <1>1, <1>2, <1>3 DEF ServersInv

(* Claims whose server keeps its address and name stay what they were.       *)
LEMMA ClaimsKept ==
  ASSUME ServersInv, claims' \subseteq claims, raced \subseteq raced',
         \A c \in claims' : c.server \notin raced' =>
            config'[c.server].url = config[c.server].url /\ config'[c.server].user = config[c.server].user
  PROVE  ClaimsSound(claims, raced)'
BY DEF ServersInv, NotOvertaken, ClaimsSound, ClaimFits

LEMMA IdsAppended ==
  ASSUME servers \in Seq(Configs), NEW s \in Configs, servers' = Append(servers, s)
  PROVE  /\ servers' \in Seq(Configs) /\ servers' # <<>>
         /\ Ids' = Ids \cup {s}
         /\ s \notin Ids /\ (\A i, j \in 1..Len(servers) : servers[i] = servers[j] => i = j)
              => \A i, j \in 1..Len(servers') : servers'[i] = servers'[j] => i = j
<1>1. /\ servers' \in Seq(Configs) /\ Len(servers') = Len(servers) + 1 /\ Len(servers) \in Nat
      /\ servers'[Len(servers) + 1] = s
      /\ \A i \in 1..Len(servers) : servers'[i] = servers[i]
      /\ DOMAIN servers = 1..Len(servers) /\ DOMAIN servers' = 1..Len(servers')
  OBVIOUS
<1>2. Ids' = Ids \cup {s}
  BY <1>1 DEF Ids
<1>3. ASSUME s \notin Ids, \A i, j \in 1..Len(servers) : servers[i] = servers[j] => i = j
      PROVE  \A i, j \in 1..Len(servers') : servers'[i] = servers'[j] => i = j
  <2>1. \A i \in 1..Len(servers) : servers[i] # s
    BY <1>1, <1>3 DEF Ids
  <2> QED
    BY <1>1, <1>3, <2>1
<1> QED
  BY <1>1, <1>2, <1>3

(* filter of a list without repetitions: all but one place.                  *)
LEMMA RemovedAt ==
  ASSUME NEW S, NEW q \in Seq(S), NEW k \in 1..Len(q)
  PROVE  /\ RemoveAt(q, k) \in Seq(S) /\ Len(RemoveAt(q, k)) = Len(q) - 1
         /\ \A i \in 1..(Len(q) - 1) : RemoveAt(q, k)[i] = IF i < k THEN q[i] ELSE q[i + 1]
<1> DEFINE list == RemoveAt(q, k)
<1>1. PICK n \in Nat : n = Len(q)
  OBVIOUS
<1>2. \A i \in 1..n : q[i] \in S
  BY <1>1
<1>3. PICK a : a = SubSeq(q, 1, k - 1)
  OBVIOUS
<1>4. PICK b : b = SubSeq(q, k + 1, n)
  OBVIOUS
<1>5. a \in Seq(S) /\ Len(a) = k - 1 /\ \A i \in 1..(k - 1) : a[i] = q[i]
  <2>1. k - 1 \in Int /\ 1 \in Int /\ \A i \in 1..(k - 1) : q[i] \in S
    BY <1>1, <1>2
  <2>2. /\ a \in Seq(S) /\ Len(a) = (IF 1 <= k - 1 THEN k - 1 - 1 + 1 ELSE 0)
        /\ \A i \in 1..(k - 1 - 1 + 1) : a[i] = q[1 + i - 1]
    BY <1>3, <2>1, SubSeqProperties
  <2> QED
    BY <1>1, <2>2
<1>6. b \in Seq(S) /\ Len(b) = n - k /\ \A i \in 1..(n - k) : b[i] = q[i + k]
  <2>1. k + 1 \in Int /\ n \in Int /\ \A i \in (k + 1)..n : q[i] \in S
    BY <1>1, <1>2
  <2>2. /\ b \in Seq(S) /\ Len(b) = (IF k + 1 <= n THEN n - (k + 1) + 1 ELSE 0)
        /\ \A i \in 1..(n - (k + 1) + 1) : b[i] = q[k + 1 + i - 1]
    BY <1>4, <2>1, SubSeqProperties
  <2> QED
    BY <1>1, <2>2
<1>7. list = a \o b
  BY <1>1, <1>3, <1>4 DEF RemoveAt
<1> HIDE DEF list
<1>8. /\ list \in Seq(S) /\ Len(list) = Len(a) + Len(b)
      /\ \A i \in 1..(Len(a) + Len(b)) : list[i] = IF i <= Len(a) THEN a[i] ELSE b[i - Len(a)]
  <2>1. a \in Seq(S) /\ b \in Seq(S)
    BY <1>5, <1>6
  <2>2. /\ a \o b \in Seq(S) /\ Len(a \o b) = Len(a) + Len(b)
        /\ \A i \in 1..(Len(a) + Len(b)) : (a \o b)[i] = IF i <= Len(a) THEN a[i] ELSE b[i - Len(a)]
    BY <2>1, ConcatProperties
  <2> QED
    BY <1>7, <2>2, Zenon
<1>9. Len(list) = n - 1
  BY <1>1, <1>5, <1>6, <1>8
<1>10. ASSUME NEW i \in 1..(n - 1)
       PROVE  list[i] = IF i < k THEN q[i] ELSE q[i + 1]
  <2>1. list[i] = IF i <= k - 1 THEN a[i] ELSE b[i - (k - 1)]
    BY <1>1, <1>5, <1>6, <1>8
  <2>2. CASE i < k
    BY <1>1, <1>5, <2>1, <2>2
  <2>3. CASE ~(i < k)
    <3>1. i - (k - 1) \in 1..(n - k) /\ i - (k - 1) + k = i + 1 /\ ~(i <= k - 1)
      BY <1>1, <2>3
    <3> QED
      BY <1>6, <2>1, <2>3, <3>1
  <2> QED
    BY <2>2, <2>3
<1>11. /\ list \in Seq(S) /\ Len(list) = Len(q) - 1
       /\ \A i \in 1..(Len(q) - 1) : list[i] = IF i < k THEN q[i] ELSE q[i + 1]
  BY <1>1, <1>8, <1>9, <1>10
<1> QED
  BY <1>11 DEF list

LEMMA IdsRemoved ==
  ASSUME servers \in Seq(Configs), \A i, j \in 1..Len(servers) : servers[i] = servers[j] => i = j,
         NEW s \in Ids, NEW list, list = ListWithout(s)
  PROVE  /\ list \in Seq(Configs)
         /\ {list[i] : i \in DOMAIN list} = Ids \ {s}
         /\ \A i, j \in 1..Len(list) : list[i] = list[j] => i = j
         /\ list = <<>> <=> Ids \ {s} = {}
         /\ list # <<>> => Head(list) \in Ids \ {s}
<1> DEFINE n == Len(servers)
           k == CHOOSE i \in DOMAIN servers : servers[i] = s
<1>1. n \in Nat /\ DOMAIN servers = 1..n /\ \A i \in 1..n : servers[i] \in Configs
  OBVIOUS
<1>2. k \in 1..n /\ servers[k] = s
  BY <1>1 DEF Ids
<1> HIDE DEF k
<1>3. list = RemoveAt(servers, k)
  BY DEF ListWithout, k
<1>4. /\ list \in Seq(Configs) /\ Len(list) = Len(servers) - 1
      /\ \A i \in 1..(Len(servers) - 1) : list[i] = IF i < k THEN servers[i] ELSE servers[i + 1]
  <2>1. /\ RemoveAt(servers, k) \in Seq(Configs) /\ Len(RemoveAt(servers, k)) = Len(servers) - 1
        /\ \A i \in 1..(Len(servers) - 1) :
             RemoveAt(servers, k)[i] = IF i < k THEN servers[i] ELSE servers[i + 1]
    BY <1>2, RemovedAt
  <2> QED
    BY <1>3, <2>1, Zenon
<1>5. list \in Seq(Configs) /\ Len(list) = n - 1
  BY <1>4
<1>6. \A i \in 1..(n - 1) : list[i] = IF i < k THEN servers[i] ELSE servers[i + 1]
  BY <1>4
<1> HIDE DEF n
<1>7. \A i \in 1..(n - 1) : list[i] \in Ids \ {s}
  <2>1. ASSUME NEW i \in 1..(n - 1)
        PROVE  list[i] \in Ids \ {s}
    <3>1. PICK j \in 1..n : list[i] = servers[j] /\ j # k
      BY <1>1, <1>2, <1>6
    <3>2. servers[j] # s
      BY <1>2, <3>1 DEF n
    <3> QED
      BY <1>1, <3>1, <3>2 DEF Ids
  <2> QED
    BY <2>1
<1>8. \A x \in Ids \ {s} : \E i \in 1..(n - 1) : list[i] = x
  <2>1. ASSUME NEW i \in 1..n, servers[i] # s
        PROVE  \E j \in 1..(n - 1) : list[j] = servers[i]
    <3>1. CASE i < k
      BY <1>1, <1>2, <1>6, <3>1
    <3>2. CASE i > k
      <4>1. i - 1 \in 1..(n - 1) /\ ~(i - 1 < k) /\ (i - 1) + 1 = i
        BY <1>1, <1>2, <3>2
      <4> QED
        BY <1>6, <4>1
    <3> QED
      BY <1>1, <1>2, <2>1, <3>1, <3>2
  <2> QED
    BY <1>1, <2>1 DEF Ids
<1>9. DOMAIN list = 1..(n - 1)
  BY <1>5
<1>10. {list[i] : i \in DOMAIN list} = Ids \ {s}
  <2>1. {list[i] : i \in 1..(n - 1)} = Ids \ {s}
    BY <1>7, <1>8
  <2> QED
    BY <1>9, <2>1
<1>11. \A i, j \in 1..Len(list) : list[i] = list[j] => i = j
  BY <1>1, <1>2, <1>5, <1>6 DEF n
<1>12. list = <<>> <=> Ids \ {s} = {}
  <2>1. list = <<>> <=> n - 1 = 0
    BY <1>1, <1>5
  <2> QED
    BY <1>1, <1>2, <1>7, <1>8, <2>1
<1>13. list # <<>> => Head(list) \in Ids \ {s}
  <2>1. list # <<>> => 1 \in 1..(n - 1) /\ Head(list) = list[1]
    BY <1>1, <1>2, <1>5
  <2> QED
    BY <1>7, <2>1
<1> QED
  BY <1>5, <1>10, <1>11, <1>12, <1>13

(* One server's record is replaced.                                          *)
LEMMA ConfigChanged ==
  ASSUME config \in [Configs -> ConfigRecords], NEW s \in Configs, NEW r \in ConfigRecords,
         config' = [config EXCEPT ![s] = r]
  PROVE  /\ config' \in [Configs -> ConfigRecords] /\ config'[s] = r
         /\ \A t \in Configs \ {s} : config'[t] = config[t]
OBVIOUS

LEMMA AddServerInv ==
  ASSUME ServersInv, NEW s \in Configs, NEW url \in BaseUrls, AddServer(s, url)
  PROVE  ServersInv'
<1>1. ChatServersTypes /\ IdsSpent /\ DefaultListed /\ TokenProvesIdentity
  BY DEF ServersInv
<1>2. /\ s \notin Ids /\ config[s].url = "none"
      /\ \A t \in Ids \ {s} : config[t].url # url
      /\ servers' = Append(servers, s)
      /\ config' = [config EXCEPT ![s] = Unnamed(url)]
      /\ default' = IF default = NoConfig THEN s ELSE default
      /\ Resync /\ works' = works + 1
      /\ UNCHANGED <<override, room, field, claims, held, raced>>
  BY DEF AddServer, Work, Duplicate
<1>3. Unnamed(url) \in ConfigRecords /\ Unnamed(url).url = url /\ Unnamed(url).token = NoChatToken
  BY DEF Unnamed, ConfigRecords, NoChatToken, ChatTokens, UrlOrNone, UserOrNone, NoUser
<1>4. /\ config' \in [Configs -> ConfigRecords] /\ config'[s] = Unnamed(url)
      /\ \A t \in Configs \ {s} : config'[t] = config[t]
  BY <1>1, <1>2, <1>3, ConfigChanged DEF ChatServersTypes
<1>5. /\ servers' \in Seq(Configs) /\ servers' # <<>> /\ Ids' = Ids \cup {s}
      /\ \A i, j \in 1..Len(servers') : servers'[i] = servers'[j] => i = j
  BY <1>1, <1>2, IdsAppended DEF ChatServersTypes
<1>6. Ids \subseteq Configs
  BY <1>1 DEF ChatServersTypes, Ids
<1>7. url # "none"
  BY ChatServersAssumption
<1>8. IdsSpent'
  BY <1>1, <1>2, <1>3, <1>4, <1>5, <1>6, <1>7 DEF IdsSpent, ChatServersTypes
<1>9. DefaultListed'
  <2>1. default' \in Ids'
    BY <1>1, <1>2, <1>5, ChatServersAssumption DEF DefaultListed
  <2>2. \A t, u \in Ids' : t # u => config'[t].url # config'[u].url
    BY <1>1, <1>2, <1>3, <1>4, <1>5, <1>6 DEF DefaultListed, Duplicate
  <2> QED
    BY <1>5, <2>1, <2>2 DEF DefaultListed, Duplicate
<1>10. TokenProvesIdentity'
  BY <1>1, <1>2, <1>3, <1>4, <1>5, <1>6 DEF TokenProvesIdentity
<1>11. \A c \in claims : c.server # s /\ c.server \in Configs
  BY <1>1, <1>2 DEF IdsSpent, ChatServersTypes
<1>12. ClaimsSound(claims, raced)'
  BY <1>2, <1>4, <1>11, ClaimsKept
<1>13. session.state = "connecting" => session.server \in Ids
  BY DEF ServersInv, SessionFits, NoSession
<1>14. \A t \in Configs : session.state = "connecting" /\ session.server = t /\ t \notin raced' =>
         config'[t].url = config[t].url
  BY <1>2, <1>4, <1>6, <1>13
<1>15. /\ default' \in Configs \cup {NoConfig} /\ override' \in Configs \cup {NoConfig} /\ room' \in Rooms
       /\ field' \in FieldRecords /\ claims' \subseteq claims /\ works' \in Nat
       /\ raced \subseteq raced'
  BY <1>1, <1>2 DEF ChatServersTypes
<1> QED
  BY <1>2, <1>4, <1>5, <1>8, <1>9, <1>10, <1>12, <1>14, <1>15, ResyncedStep

LEMMA UpdateServerInv ==
  ASSUME ServersInv, NEW s \in Configs, NEW url \in BaseUrls, UpdateServer(s, url)
  PROVE  ServersInv'
<1> DEFINE r == [config[s] EXCEPT !.url = url, !.token = TokenAfter(s, url)]
<1>1. ChatServersTypes /\ IdsSpent /\ DefaultListed /\ TokenProvesIdentity
  BY DEF ServersInv
<1>2. /\ s \in Ids /\ \A t \in Ids \ {s} : config[t].url # url
      /\ config' = [config EXCEPT ![s] = r]
      /\ raced' = IF UnderWay(s) THEN raced \cup {s} ELSE raced
      /\ field' = NoField
      /\ Resync /\ works' = works + 1
      /\ UNCHANGED <<servers, default, override, room, claims, held>>
  <2>1. config' = [config EXCEPT ![s].url = url, ![s].token = TokenAfter(s, url)]
    BY DEF UpdateServer
  <2>2. config' = [config EXCEPT ![s] = r]
    BY <1>1, <2>1 DEF ChatServersTypes
  <2> QED
    BY <2>2 DEF UpdateServer, Work, Duplicate, Race
<1>3. /\ r \in ConfigRecords /\ r.url = url /\ r.user = config[s].user
      /\ r.token = IF config[s].url = url THEN config[s].token ELSE NoChatToken
  <2>1. config[s] \in ConfigRecords
    BY <1>1 DEF ChatServersTypes
  <2>2. NoChatToken \in ChatTokens /\ url \in UrlOrNone
    BY DEF NoChatToken, ChatTokens, UrlOrNone, UserOrNone, NoUser
  <2>3. TokenAfter(s, url) \in ChatTokens
    BY <2>1, <2>2 DEF TokenAfter, ConfigRecords
  <2> QED
    BY <2>1, <2>2, <2>3 DEF ConfigRecords, TokenAfter
<1> HIDE DEF r
<1>4. /\ config' \in [Configs -> ConfigRecords] /\ config'[s] = r
      /\ \A t \in Configs \ {s} : config'[t] = config[t]
  BY <1>1, <1>2, <1>3, ConfigChanged DEF ChatServersTypes
<1>5. Ids' = Ids /\ Ids \subseteq Configs
  BY <1>1, <1>2 DEF ChatServersTypes, Ids
<1>6. url # "none"
  BY ChatServersAssumption
<1>7. IdsSpent'
  BY <1>1, <1>2, <1>3, <1>4, <1>5, <1>6 DEF IdsSpent, ChatServersTypes, NoField
<1>8. DefaultListed'
  <2>1. \A t, u \in Ids' : t # u => config'[t].url # config'[u].url
    BY <1>1, <1>2, <1>3, <1>4, <1>5 DEF DefaultListed, Duplicate
  <2> QED
    BY <1>1, <1>2, <1>5, <2>1 DEF DefaultListed, Duplicate
<1>9. TokenProvesIdentity'
  <2>1. ASSUME NEW t \in Ids', config'[t].token # NoChatToken, t \notin raced'
        PROVE  config'[t].token = [url |-> config'[t].url, user |-> config'[t].user]
    BY <1>1, <1>2, <1>3, <1>4, <1>5, <2>1 DEF TokenProvesIdentity
  <2> QED
    BY <2>1 DEF TokenProvesIdentity
<1>10. \A c \in claims : c.server \notin raced' => c.server # s /\ c.server \in Configs
  BY <1>1, <1>2 DEF UnderWay, ChatServersTypes
<1>11. raced \subseteq raced'
  BY <1>2
<1>12. ClaimsSound(claims, raced)'
  BY <1>2, <1>4, <1>10, <1>11, ClaimsKept
<1>13. \A t \in Configs : session.state = "connecting" /\ session.server = t /\ t \notin raced' =>
         config'[t].url = config[t].url
  BY <1>2, <1>4 DEF UnderWay
<1>14. /\ default' \in Configs \cup {NoConfig} /\ override' \in Configs \cup {NoConfig} /\ room' \in Rooms
       /\ field' \in FieldRecords /\ claims' \subseteq claims /\ works' \in Nat
       /\ servers' \in Seq(Configs) /\ \A i, j \in 1..Len(servers') : servers'[i] = servers'[j] => i = j
  BY <1>1, <1>2 DEF ChatServersTypes, NoField, FieldRecords, UserOrNone, NoUser
<1> QED
  BY <1>2, <1>4, <1>7, <1>8, <1>9, <1>11, <1>12, <1>13, <1>14, ResyncedStep

LEMMA RemoveServerInv ==
  ASSUME ServersInv, NEW s \in Configs, RemoveServer(s)
  PROVE  ServersInv'
<1>1. ChatServersTypes /\ IdsSpent /\ DefaultListed /\ TokenProvesIdentity
  BY DEF ServersInv
<1>2. /\ s \in Ids /\ servers' = ListWithout(s) /\ default' = DefaultAfter(s)
      /\ field' = IF field.server = s THEN NoField ELSE field
      /\ Resync /\ works' = works + 1
      /\ UNCHANGED <<config, override, room, claims, held, raced>>
  BY DEF RemoveServer, Work
<1>3. /\ servers' \in Seq(Configs) /\ Ids' = Ids \ {s}
      /\ \A i, j \in 1..Len(servers') : servers'[i] = servers'[j] => i = j
      /\ servers' = <<>> <=> Ids \ {s} = {}
      /\ servers' # <<>> => Head(servers') \in Ids \ {s}
  <2>1. PICK list : list = ListWithout(s)
    OBVIOUS
  <2>2. /\ list \in Seq(Configs) /\ {list[i] : i \in DOMAIN list} = Ids \ {s}
        /\ \A i, j \in 1..Len(list) : list[i] = list[j] => i = j
        /\ list = <<>> <=> Ids \ {s} = {}
        /\ list # <<>> => Head(list) \in Ids \ {s}
    BY <1>1, <1>2, <2>1, IdsRemoved DEF ChatServersTypes
  <2>3. servers' = list
    BY <1>2, <2>1
  <2>4. Ids' = {list[i] : i \in DOMAIN list}
    BY <2>3 DEF Ids
  <2> QED
    BY <2>2, <2>3, <2>4
<1>4. Ids \subseteq Configs
  BY <1>1 DEF ChatServersTypes, Ids
<1>5. IdsSpent'
  BY <1>1, <1>2, <1>3 DEF IdsSpent, NoField
<1>6. DefaultListed'
  <2>1. default' = IF default # s THEN default ELSE IF servers' = <<>> THEN NoConfig ELSE Head(servers')
    BY <1>2 DEF DefaultAfter
  <2>2. servers # <<>>
    BY <1>2 DEF Ids
  <2>3. default \in Ids
    BY <1>1, <2>2 DEF DefaultListed
  <2>4. IF servers' = <<>> THEN default' = NoConfig ELSE default' \in Ids'
    BY <1>3, <2>1, <2>3
  <2> QED
    BY <1>1, <1>2, <1>3, <2>4 DEF DefaultListed, Duplicate
<1>7. TokenProvesIdentity'
  BY <1>1, <1>2, <1>3 DEF TokenProvesIdentity
<1>8. ClaimsSound(claims, raced)'
  BY <1>2, ClaimsKept
<1>9. /\ default' \in Configs \cup {NoConfig} /\ override' \in Configs \cup {NoConfig} /\ room' \in Rooms
      /\ field' \in FieldRecords /\ claims' \subseteq claims /\ works' \in Nat
      /\ config' \in [Configs -> ConfigRecords] /\ raced \subseteq raced'
  BY <1>1, <1>2, <1>3, <1>4, <1>6 DEF ChatServersTypes, NoField, FieldRecords, UserOrNone, NoUser, DefaultListed
<1> QED
  BY <1>2, <1>3, <1>5, <1>6, <1>7, <1>8, <1>9, ResyncedStep

(* Another default, another server of the tab or another page.               *)
LEMMA ChoiceInv ==
  ASSUME ServersInv, Resync, UNCHANGED <<servers, config, field, claims, held, raced>>,
         works' = works + 1,
         default' = default \/ default' \in Ids,
         override' \in Configs \cup {NoConfig}, room' \in Rooms
  PROVE  ServersInv'
<1>1. ChatServersTypes /\ IdsSpent /\ DefaultListed /\ TokenProvesIdentity
  BY DEF ServersInv
<1>2. Ids' = Ids /\ Ids \subseteq Configs /\ (Ids # {} => servers # <<>>)
  BY <1>1 DEF ChatServersTypes, Ids
<1>3. IdsSpent' /\ TokenProvesIdentity'
  BY <1>1, <1>2 DEF IdsSpent, TokenProvesIdentity
<1>4. DefaultListed'
  BY <1>1, <1>2 DEF DefaultListed, Duplicate
<1>5. ClaimsSound(claims, raced)'
  BY ClaimsKept
<1>6. /\ default' \in Configs \cup {NoConfig}
      /\ field' \in FieldRecords /\ claims' \subseteq claims /\ works' \in Nat
      /\ config' \in [Configs -> ConfigRecords] /\ raced \subseteq raced'
      /\ servers' \in Seq(Configs) /\ \A i, j \in 1..Len(servers') : servers'[i] = servers'[j] => i = j
  BY <1>1, <1>2 DEF ChatServersTypes
<1> QED
  BY <1>3, <1>4, <1>5, <1>6, ResyncedStep

(* A step that leaves the session and the settings as they are.              *)
LEMMA QuietStep ==
  ASSUME ServersInv, UNCHANGED <<servers, config, default, override, room, session>>,
         raced \subseteq raced',
         field' \in FieldRecords, works' \in Nat,
         field'.server # NoConfig => config[field'.server].url # "none",
         claims' \subseteq [server : Configs, url : UrlOrNone, user : UserNames, no : Nat],
         \A c \in claims' : config[c.server].url # "none",
         ClaimsSound(claims, raced)'
  PROVE  ServersInv'
<1>1. ChatServersTypes'
  BY DEF ServersInv, ChatServersTypes
<1>2. Ids' = Ids /\ Effective' = Effective
  BY DEF Ids, Effective
<1>3. IdsSpent'
  BY <1>2 DEF ServersInv, IdsSpent
<1>4. DefaultListed'
  BY <1>2 DEF ServersInv, DefaultListed, Duplicate
<1>5. TokenProvesIdentity'
  BY <1>2 DEF ServersInv, TokenProvesIdentity
<1>6. SessionFits(session, Ids, config, Effective, room)'
  BY <1>2 DEF ServersInv
<1>7. NotOvertaken'
  BY DEF ServersInv, NotOvertaken, ClaimsSound, ConnectFits
<1> QED
  BY <1>1, <1>3, <1>4, <1>5, <1>6, <1>7 DEF ServersInv

LEMMA EditServerInv ==
  ASSUME ServersInv, NEW s \in Configs \cup {NoConfig}, EditServer(s)
  PROVE  ServersInv'
<1>1. /\ s \in Ids \cup {NoConfig} /\ field'.server = s /\ field' \in FieldRecords /\ works' = works + 1
      /\ UNCHANGED <<servers, config, default, override, room, session, claims, held, raced>>
  <2>1. field' = (IF s = NoConfig \/ field.server = NoConfig
                 THEN [NoField EXCEPT !.server = s] ELSE [field EXCEPT !.server = s])
    BY DEF EditServer
  <2>2. field \in FieldRecords
    BY DEF ServersInv, ChatServersTypes
  <2> QED
    BY <2>1, <2>2 DEF EditServer, Work, NoField, NoUser, UserOrNone, FieldRecords
<1>2. ClaimsSound(claims, raced)'
  BY <1>1, ClaimsKept
<1> QED
  BY <1>1, <1>2, QuietStep DEF ServersInv, ChatServersTypes, IdsSpent

LEMMA ClaimInv ==
  ASSUME ServersInv, NEW name \in UserNames, Claim(name)
  PROVE  ServersInv'
<1> DEFINE s == field.server
           c == [server |-> s, url |-> config[s].url, user |-> name, no |-> works]
<1>1. ChatServersTypes /\ IdsSpent
  BY DEF ServersInv
<1>2. /\ s \in Configs /\ config[s].user = NoUser
      /\ claims' = claims \cup {c}
      /\ raced' = IF UnderWay(s) THEN raced \cup {s} ELSE raced
      /\ works' = works + 1
      /\ UNCHANGED <<servers, config, default, override, room, session, held>>
  BY <1>1 DEF Claim, Work, Race, ChatServersTypes, FieldRecords
<1>3. field'.server = s /\ field' \in FieldRecords
  BY <1>1 DEF Claim, ChatServersTypes, FieldRecords, UserOrNone
<1>4. c \in [server : Configs, url : UrlOrNone, user : UserNames, no : Nat]
  BY <1>1, <1>2 DEF ChatServersTypes, ConfigRecords
<1>5. c.server = s /\ c.url = config[s].url
  OBVIOUS
<1> HIDE DEF c
<1>6. ASSUME NEW d \in claims', d.server \notin raced'
      PROVE  ClaimFits(d, claims)'
  <2>1. CASE d.server = s
    <3>1. ~UnderWay(s)
      BY <1>2, <1>6, <2>1
    <3>2. \A e \in claims : e.server # s
      BY <3>1 DEF UnderWay
    <3>3. d = c
      BY <1>2, <2>1, <3>2
    <3> QED
      BY <1>2, <1>5, <3>2, <3>3 DEF ClaimFits
  <2>2. CASE d.server # s
    <3>1. d \in claims /\ d.server \notin raced
      BY <1>2, <1>5, <1>6, <2>2
    <3>2. ClaimFits(d, claims)
      BY <3>1 DEF ServersInv, NotOvertaken
    <3> QED
      BY <1>2, <1>5, <2>2, <3>2 DEF ClaimFits
  <2> QED
    BY <2>1, <2>2
<1>7. ClaimsSound(claims, raced)'
  BY <1>6 DEF ClaimsSound
<1>8. /\ claims' \subseteq [server : Configs, url : UrlOrNone, user : UserNames, no : Nat]
      /\ \A d \in claims' : config[d.server].url # "none"
      /\ raced \subseteq raced' /\ works' \in Nat
      /\ field'.server # NoConfig => config[field'.server].url # "none"
      /\ field' \in FieldRecords
  <2>1. config[s].url # "none"
    BY <1>1, <1>2, ChatServersAssumption DEF IdsSpent
  <2> QED
    BY <1>1, <1>2, <1>3, <1>4, <1>5, <2>1 DEF ChatServersTypes, IdsSpent, FieldRecords
<1> QED
  BY <1>2, <1>7, <1>8, QuietStep

LEMMA ResultField ==
  ASSUME ServersInv, NEW c, NEW status \in {"idle", "taken", "error"}, Result(c, status)
  PROVE  field'.server = field.server /\ field' \in FieldRecords
BY DEF ServersInv, ChatServersTypes, Result, FieldRecords

LEMMA ClaimGrantedInv ==
  ASSUME ServersInv, NEW c \in claims, ClaimGranted(c)
  PROVE  ServersInv'
<1> DEFINE s == c.server
           token == [url |-> c.url, user |-> c.user]
           r == [config[s] EXCEPT !.user = Named(s, c.user), !.token = token]
<1>1. ChatServersTypes /\ IdsSpent /\ DefaultListed /\ TokenProvesIdentity
  BY DEF ServersInv
<1>2. /\ claims' = claims \ {c} /\ Resync /\ Result(c, "idle")
      /\ UNCHANGED <<servers, default, override, room, raced, works>>
      /\ s \in Configs /\ c.url \in UrlOrNone /\ c.user \in UserNames
  BY <1>1 DEF ClaimGranted, ChatServersTypes
<1>3. field'.server = field.server /\ field' \in FieldRecords
  BY <1>2, ResultField
<1>4. Ids' = Ids /\ Ids \subseteq Configs
  BY <1>1, <1>2 DEF ChatServersTypes, Ids
<1>5. /\ r \in ConfigRecords /\ r.url = config[s].url /\ r.token = token
      /\ r.user = IF config[s].user = NoUser THEN c.user ELSE config[s].user
  <2>1. config[s] \in ConfigRecords /\ token \in ChatTokens
    BY <1>1, <1>2 DEF ChatServersTypes, ChatTokens, UserOrNone
  <2>2. Named(s, c.user) \in UserOrNone
    BY <1>2, <2>1 DEF Named, ConfigRecords, UserOrNone
  <2> HIDE DEF token
  <2> QED
    BY <2>1, <2>2 DEF ConfigRecords, Named
<1>6. /\ config' \in [Configs -> ConfigRecords]
      /\ s \in Ids => config'[s] = r
      /\ \A t \in Configs : t # s \/ s \notin Ids => config'[t] = config[t]
  <2>1. CASE s \in Ids
    <3>1. config' = [config EXCEPT ![s].user = Named(s, c.user), ![s].token = token]
      BY <2>1 DEF ClaimGranted
    <3>2. config' = [config EXCEPT ![s] = r]
      BY <1>1, <1>2, <3>1 DEF ChatServersTypes
    <3> HIDE DEF r
    <3>3. /\ config' \in [Configs -> ConfigRecords] /\ config'[s] = r
          /\ \A t \in Configs \ {s} : config'[t] = config[t]
      BY <1>1, <1>2, <1>5, <3>2, ConfigChanged DEF ChatServersTypes
    <3> QED
      BY <2>1, <3>3
  <2>2. CASE s \notin Ids
    <3>1. config' = config
      BY <2>2 DEF ClaimGranted
    <3> QED
      BY <1>1, <2>2, <3>1 DEF ChatServersTypes
  <2> QED
    BY <2>1, <2>2
<1>7. s \notin raced => ClaimFits(c, claims)
  BY DEF ServersInv, NotOvertaken
<1>8. \A t \in Configs : config'[t].url = config[t].url
  BY <1>5, <1>6
<1> HIDE DEF r
<1>9. IdsSpent'
  BY <1>1, <1>2, <1>3, <1>4, <1>8 DEF IdsSpent, ChatServersTypes, FieldRecords
<1>10. DefaultListed'
  BY <1>1, <1>2, <1>4, <1>8 DEF DefaultListed, Duplicate
<1>11. TokenProvesIdentity'
  <2>1. ASSUME NEW t \in Ids', config'[t].token # NoChatToken, t \notin raced'
        PROVE  config'[t].token = [url |-> config'[t].url, user |-> config'[t].user]
    <3>1. CASE t = s
      BY <1>2, <1>4, <1>5, <1>6, <1>7, <2>1, <3>1 DEF ClaimFits
    <3>2. CASE t # s
      BY <1>1, <1>2, <1>4, <1>6, <2>1, <3>2 DEF TokenProvesIdentity
    <3> QED
      BY <3>1, <3>2
  <2> QED
    BY <2>1 DEF TokenProvesIdentity
<1>12. ClaimsSound(claims, raced)'
  <2>1. \A d \in claims' : d.server \notin raced' => d.server # s /\ d.server \in Configs
    BY <1>1, <1>2, <1>7 DEF ClaimFits, ServersInv, NotOvertaken, ChatServersTypes
  <2> QED
    BY <1>2, <1>6, <2>1, ClaimsKept
<1>13. /\ default' \in Configs \cup {NoConfig} /\ override' \in Configs \cup {NoConfig} /\ room' \in Rooms
       /\ field' \in FieldRecords /\ claims' \subseteq claims /\ works' \in Nat
       /\ raced \subseteq raced'
       /\ servers' \in Seq(Configs) /\ \A i, j \in 1..Len(servers') : servers'[i] = servers'[j] => i = j
  BY <1>1, <1>2, <1>3 DEF ChatServersTypes
<1> QED
  BY <1>2, <1>6, <1>8, <1>9, <1>10, <1>11, <1>12, <1>13, ResyncedStep

LEMMA ClaimFailedInv ==
  ASSUME ServersInv, NEW c \in claims, ClaimFailed(c)
  PROVE  ServersInv'
<1>1. /\ claims' = claims \ {c}
      /\ UNCHANGED <<servers, config, default, override, room, session, held, raced, works>>
      /\ field'.server = field.server /\ field' \in FieldRecords
  BY ResultField DEF ClaimFailed
<1>2. ClaimsSound(claims, raced)'
  BY <1>1, ClaimsKept
<1> QED
  BY <1>1, <1>2, QuietStep DEF ServersInv, ChatServersTypes, IdsSpent

(* /connect was answered: what is stored is the session's server's token.    *)
LEMMA AnsweredInv ==
  ASSUME ServersInv, session.state = "connecting",
         NEW token \in ChatTokens, NEW kept \in ChatTokens, NEW state \in {"connected", "error"},
         session' = [session EXCEPT !.state = state, !.token = kept],
         config' = Stored(token) \/ config' = config,
         session.server \notin raced /\ ConnectFits(session, config) /\ config' # config =>
           token \in {NoChatToken, [url |-> session.url, user |-> session.key[3]]},
         UNCHANGED <<servers, default, override, room, field, claims, raced, works>>
  PROVE  ServersInv'
<1> DEFINE s == session.server
           r == [config[s] EXCEPT !.token = token]
<1>1. ChatServersTypes /\ IdsSpent /\ DefaultListed /\ TokenProvesIdentity
  BY DEF ServersInv
<1>2. /\ s = Effective /\ s \in Ids /\ config[s].user # NoUser
      /\ session.key = <<Effective, room, config[Effective].user>>
      /\ s \in Configs
  <2>1. session # NoSession
    BY DEF NoSession
  <2>2. s = Effective /\ s \in Ids /\ config[s].user # NoUser
        /\ session.key = <<Effective, room, config[Effective].user>>
    BY <2>1 DEF ServersInv, SessionFits
  <2> QED
    BY <1>1, <2>2 DEF ChatServersTypes, Ids
<1>3. Ids' = Ids /\ Effective' = Effective /\ Ids \subseteq Configs
  BY <1>1 DEF ChatServersTypes, Ids, Effective
<1>4. /\ r \in ConfigRecords /\ r.url = config[s].url /\ r.token = token /\ r.user = config[s].user
  BY <1>1, <1>2 DEF ChatServersTypes, ConfigRecords
<1>5. /\ config' \in [Configs -> ConfigRecords]
      /\ config' = config \/ config'[s] = r
      /\ \A t \in Configs \ {s} : config'[t] = config[t]
  <2>1. CASE config' = Stored(token)
    <3>1. config' = [config EXCEPT ![s] = r]
      BY <1>1, <1>2, <2>1 DEF ChatServersTypes, Stored
    <3> HIDE DEF r
    <3> QED
      BY <1>1, <1>2, <1>4, <3>1, ConfigChanged DEF ChatServersTypes
  <2>2. CASE config' = config
    BY <1>1, <2>2 DEF ChatServersTypes
  <2> QED
    BY <2>1, <2>2
<1> HIDE DEF r
<1>6. \A t \in Configs : config'[t].url = config[t].url /\ config'[t].user = config[t].user
  BY <1>4, <1>5
<1>7. /\ session' \in SessionRecords /\ session'.state = state
      /\ session'.server = s /\ session'.key = session.key
  BY <1>1 DEF ChatServersTypes, SessionRecords
<1>8. ChatServersTypes'
  BY <1>1, <1>5, <1>7 DEF ChatServersTypes
<1>9. IdsSpent'
  BY <1>1, <1>3, <1>6 DEF IdsSpent, ChatServersTypes, FieldRecords
<1>10. DefaultListed'
  BY <1>1, <1>3, <1>6 DEF DefaultListed, Duplicate
<1>11. TokenProvesIdentity'
  <2>1. ASSUME NEW t \in Ids', config'[t].token # NoChatToken, t \notin raced'
        PROVE  config'[t].token = [url |-> config'[t].url, user |-> config'[t].user]
    <3>1. CASE t = s /\ config' # config
      <4>1. s \notin raced /\ ConnectFits(session, config)
        BY <2>1, <3>1 DEF ServersInv, NotOvertaken
      <4>2. token = [url |-> session.url, user |-> session.key[3]]
        BY <1>4, <1>5, <2>1, <3>1, <4>1
      <4>3. session.url = config[s].url /\ session.key[3] = config[s].user
        BY <1>2, <4>1 DEF ConnectFits
      <4> QED
        BY <1>2, <1>4, <1>5, <1>6, <3>1, <4>2, <4>3
    <3>2. CASE t # s \/ config' = config
      <4>1. config'[t] = config[t]
        BY <1>3, <1>5, <2>1, <3>2
      <4> QED
        BY <1>1, <1>3, <2>1, <4>1 DEF TokenProvesIdentity
    <3> QED
      BY <3>1, <3>2
  <2> QED
    BY <2>1 DEF TokenProvesIdentity
<1>12. SessionFits(session, Ids, config, Effective, room)'
  BY <1>2, <1>3, <1>6, <1>7 DEF SessionFits
<1>13. NotOvertaken'
  <2>1. ClaimsSound(claims, raced)'
    BY <1>1, <1>6, ClaimsKept DEF ChatServersTypes
  <2> QED
    BY <1>7, <2>1 DEF NotOvertaken, ClaimsSound
<1> QED
  BY <1>8, <1>9, <1>10, <1>11, <1>12, <1>13 DEF ServersInv

LEMMA ConnectOkInv ==
  ASSUME ServersInv, ConnectOk
  PROVE  ServersInv'
<1>1. /\ session.state = "connecting" /\ Accepted
      /\ session' = [session EXCEPT !.state = "connected", !.token = Issued]
      /\ config' = Stored(Issued)
      /\ UNCHANGED <<servers, default, override, room, field, claims, raced, works>>
  BY DEF ConnectOk
<1>2. session # NoSession
  BY <1>1 DEF NoSession
<1>3. session.key = <<Effective, room, config[Effective].user>> /\ Effective \in Ids
  BY <1>2 DEF ServersInv, SessionFits
<1>4. Effective \in Configs /\ config[Effective].user \in UserOrNone
  BY <1>3 DEF ServersInv, ChatServersTypes, Ids, ConfigRecords
<1>5. Issued \in ChatTokens
  BY <1>3, <1>4 DEF Issued, ServersInv, ChatServersTypes, SessionRecords, ChatTokens
<1>6. ConnectFits(session, config) => Issued = [url |-> session.url, user |-> session.key[3]]
  BY DEF ConnectFits, Issued
<1> QED
  BY <1>1, <1>5, <1>6, AnsweredInv

LEMMA ConnectRefusedInv ==
  ASSUME ServersInv, ConnectRefused
  PROVE  ServersInv'
<1>1. /\ session.state = "connecting" /\ session' = [session EXCEPT !.state = "error"]
      /\ config' = Stored(NoChatToken) \/ config' = config
      /\ UNCHANGED <<servers, default, override, room, field, claims, raced, works>>
  BY DEF ConnectRefused
<1>2. session \in SessionRecords
  BY DEF ServersInv, ChatServersTypes
<1>3. session' = [session EXCEPT !.state = "error", !.token = session.token] /\ session.token \in ChatTokens
  BY <1>1, <1>2 DEF SessionRecords
<1>4. NoChatToken \in ChatTokens
  BY DEF NoChatToken, ChatTokens, UrlOrNone, UserOrNone, NoUser
<1> QED
  BY <1>1, <1>3, <1>4, AnsweredInv

LEMMA ServersInitInv == ChatServersInit => ServersInv
<1> SUFFICES ASSUME ChatServersInit PROVE ServersInv
  OBVIOUS
<1>1. PICK s \in Configs, url \in BaseUrls :
        /\ servers = <<s>> /\ default = s
        /\ config = [x \in Configs |-> IF x = s THEN Unnamed(url) ELSE Unnamed("none")]
        /\ override = NoConfig /\ room \in Rooms /\ session = NoSession /\ field = NoField
        /\ claims = {} /\ held = {} /\ raced = {} /\ works = 0
  BY DEF ChatServersInit
<1>2. NoChatToken \in ChatTokens /\ NoSession \in SessionRecords /\ NoField.server = NoConfig
      /\ Unnamed(url) \in ConfigRecords /\ Unnamed("none") \in ConfigRecords
      /\ Unnamed(url).url = url /\ Unnamed(url).token = NoChatToken /\ Unnamed(url).user = NoUser
  BY DEF NoSession, SessionRecords, Keys, NoField, Unnamed, ConfigRecords, NoChatToken, ChatTokens,
         UserOrNone, UrlOrNone, NoUser
<1>3. config \in [Configs -> ConfigRecords] /\ config[s] = Unnamed(url)
  BY <1>1, <1>2
<1>4. servers \in Seq(Configs) /\ Len(servers) = 1 /\ Ids = {s}
  BY <1>1 DEF Ids
<1>5. url # "none" /\ s # NoConfig /\ NoSession.state # "connecting"
  BY ChatServersAssumption DEF NoSession
<1>6. ChatServersTypes
  BY <1>1, <1>2, <1>3, <1>4 DEF ChatServersTypes, NoField, FieldRecords, UserOrNone, NoUser
<1>7. IdsSpent /\ DefaultListed /\ TokenProvesIdentity /\ NotOvertaken
  BY <1>1, <1>2, <1>3, <1>4, <1>5 DEF IdsSpent, DefaultListed, Duplicate, TokenProvesIdentity, NotOvertaken
<1>8. SessionFits(session, Ids, config, Effective, room)
  BY <1>1, <1>2, <1>3, <1>4 DEF SessionFits, Effective
<1> QED
  BY <1>6, <1>7, <1>8 DEF ServersInv

LEMMA ServersStepInv == ServersInv /\ [ChatServersNext]_chatServerVars => ServersInv'
<1> SUFFICES ASSUME ServersInv, [ChatServersNext]_chatServerVars PROVE ServersInv'
  OBVIOUS
<1>1. ASSUME NEW s \in Configs, NEW url \in BaseUrls, AddServer(s, url) \/ UpdateServer(s, url)
      PROVE  ServersInv'
  BY <1>1, AddServerInv, UpdateServerInv
<1>2. ASSUME NEW s \in Configs, RemoveServer(s) PROVE ServersInv'
  BY <1>2, RemoveServerInv
<1>3. ASSUME NEW s \in Configs, SetDefault(s) PROVE ServersInv'
  BY <1>3, ChoiceInv DEF SetDefault, Work, ServersInv, ChatServersTypes
<1>4. ASSUME NEW s \in Configs \cup {NoConfig}, SetOverride(s) PROVE ServersInv'
  BY <1>4, ChoiceInv DEF SetOverride, Work, ServersInv, ChatServersTypes
<1>5. ASSUME NEW s \in Configs \cup {NoConfig}, EditServer(s) PROVE ServersInv'
  BY <1>5, EditServerInv
<1>6. ASSUME NEW page \in Rooms, Navigate(page) PROVE ServersInv'
  BY <1>6, ChoiceInv DEF Navigate, Work, ServersInv, ChatServersTypes
<1>7. ASSUME NEW name \in UserNames, Claim(name) PROVE ServersInv'
  BY <1>7, ClaimInv
<1>8. ASSUME NEW c \in claims, ClaimGranted(c) \/ ClaimFailed(c) PROVE ServersInv'
  BY <1>8, ClaimGrantedInv, ClaimFailedInv
<1>9. CASE ConnectOk \/ ConnectRefused
  BY <1>9, ConnectOkInv, ConnectRefusedInv
<1>10. CASE UNCHANGED chatServerVars
  <2>1. /\ UNCHANGED <<servers, config, default, override, room, session>>
        /\ UNCHANGED <<field, claims, raced, works>>
    BY <1>10 DEF chatServerVars
  <2>2. ClaimsSound(claims, raced)'
    BY <2>1, ClaimsKept
  <2> QED
    BY <2>1, <2>2, QuietStep DEF ServersInv, ChatServersTypes, IdsSpent
<1> QED
  BY <1>1, <1>2, <1>3, <1>4, <1>5, <1>6, <1>7, <1>8, <1>9, <1>10 DEF ChatServersNext

(* ServersSound: while there are servers one is the default and no two share *)
(* an address, a cached token is for the address and name it is stored with  *)
(* unless something overtook its request, and the session is the tab's.      *)
THEOREM ServersStaySound == ChatServersSpec => []ServersSound
<1>1. ServersInv => ServersSound
  BY DEF ServersInv, ServersSound, SessionOfTab, SessionFits, NoSession
<1> QED
  BY <1>1, ServersInitInv, ServersStepInv, PTL DEF ChatServersSpec

-----------------------------------------------------------------------------
(* SettingsForms.                                                          *)

RequestRecords == [op : Ops, id : Entries \cup {NullId}, draft : StoredEntry]
AnswerRecords == [what : {"list", "result"}, rows : [Entries -> RowType]]
FormRecords == [kind : Kinds, side : [Sides -> [label : Labels \cup {""}, secret : Typed]]]

FormsTypes ==
  /\ section \in {"agents", "servers"}
  /\ entry \in [Entries -> StoredEntry]
  /\ file \in [readable : BOOLEAN, entries : [Entries -> StoredEntry]]
  /\ usedIds \subseteq Entries /\ probes \in Nat
  /\ requests \in Seq(RequestRecords)
  /\ answers \in Seq(AnswerRecords)
  /\ open \in BOOLEAN /\ rows \in [Entries -> RowType]
  /\ editing \in [id : Entries \cup {NullId}, row : RowType]
  /\ form \in FormRecords
  /\ lastTyped \in [Entries -> Typed]
  /\ outdated \in BOOLEAN /\ behind \in BOOLEAN /\ unsaved \in BOOLEAN

(* What is stored, in memory or on file: of ids that were given out, with a  *)
(* secret that was typed for it.                                             *)
EntriesFit(list, known, sec) ==
  \A e \in Entries :
    /\ list[e] # Absent => e \in known
    /\ list[e].secret.for \in {e, NullId}
    /\ list[e].kind = "hosted" => sec = "agents" /\ list[e].secret # NoSecret

RowsFit(list, known, sec) ==
  \A e \in Entries : /\ list[e] # NoRow => e \in known
                     /\ list[e].kind = "hosted" => sec = "agents"

RequestFits(r, known, sec) ==
  /\ r.op \in {"update", "remove"} => r.id \in known
  /\ r.op \notin {"update", "remove"} => r.id = NullId
  /\ r.op \in {"create", "update"} => r.draft.secret.for \in {r.id, NullId}
  /\ r.op = "create" /\ r.draft.kind = "hosted" => sec = "agents" /\ r.draft.secret # NoSecret

RequestsFit(q, known, sec) == \A i \in 1..Len(q) : RequestFits(q[i], known, sec)
AnswersFit(q, known, sec) == \A i \in 1..Len(q) : RowsFit(q[i].rows, known, sec)

FieldsFit(fields, id) ==
  /\ fields.kind = "hosted" => section = "agents"
  /\ \A s \in Sides : fields.side[s].secret.for \in {id, NullId}
FormFits ==
  /\ editing.id # NullId => editing.id \in usedIds
  /\ FieldsFit(form, editing.id)

Supplies(r, e) == r.op = "update" /\ r.id = e /\ r.draft.secret # NoSecret

(* After the requests of q the secret, now old, will be the last one typed.  *)
LastSupplied(q, e, old, typed) ==
  /\ \A i \in 1..Len(q) :
       Supplies(q[i], e) /\ (\A j \in (i + 1)..Len(q) : ~Supplies(q[j], e)) => q[i].draft.secret = typed
  /\ (\A i \in 1..Len(q) : ~Supplies(q[i], e)) => old = typed

SecretsFollow(q, list, typed) ==
  \A e \in Entries : list[e] # Absent => LastSupplied(q, e, list[e].secret, typed[e])

HasOp(q, op) == \E i \in 1..Len(q) : q[i].op = op
ChangeIn(q, e) == \E i \in 1..Len(q) : q[i].id = e /\ q[i].op \in {"update", "remove"}
HasWhat(q, what) == \E i \in 1..Len(q) : q[i].what = what
LastListIs(q, list) ==
  \A i \in 1..Len(q) :
    q[i].what = "list" /\ (\A j \in (i + 1)..Len(q) : q[j].what # "list") => q[i].rows = list

ListFollows ==
  /\ ~behind => LastListIs(answers, Public(entry))
  /\ open /\ ~behind /\ ~HasWhat(answers, "list") /\ ~HasOp(requests, "list")
       => rows = Public(entry)

EditedRowCurrent ==
  editing.id # NullId /\ ~outdated =>
    /\ editing.row = RowOf(entry[editing.id])
    /\ ~ChangeIn(requests, editing.id)

TestFollows ==
  tested = "testing" => probes > 0 \/ HasOp(requests, "test") \/ HasWhat(answers, "result")

StoreFits ==
  /\ EntriesFit(entry, usedIds, section) /\ EntriesFit(file.entries, usedIds, section)
  /\ FileCurrent

FormsInv ==
  /\ FormsTypes
  /\ StoreFits
  /\ RowsFit(rows, usedIds, section)
  /\ RequestsFit(requests, usedIds, section)
  /\ AnswersFit(answers, usedIds, section)
  /\ FormFits
  /\ SecretsFollow(requests, entry, lastTyped)
  /\ ListFollows
  /\ EditedRowCurrent
  /\ ~open => tested = "none"
  /\ TestFollows

-----------------------------------------------------------------------------
LEMMA BlankTypes ==
  ASSUME SettingsAssumption
  PROVE  /\ NoSecret \in Typed /\ NoSecret.for = NullId
         /\ Absent \in StoredEntry /\ Absent.kind = "absent" /\ Absent.secret = NoSecret
         /\ NoRow \in RowType /\ NoRow.kind = "absent"
         /\ RowOf(Absent) = NoRow
         /\ NotEditing \in [id : Entries \cup {NullId}, row : RowType] /\ NotEditing.id = NullId
<1>1. NoSecret \in Typed /\ NoSecret.for = NullId
  BY DEF NoSecret, Typed
<1>2. Absent \in StoredEntry /\ Absent.kind = "absent" /\ Absent.secret = NoSecret /\ Absent.label = ""
  BY <1>1 DEF Absent, StoredEntry, Kinds
<1>3. NoRow \in RowType /\ NoRow.kind = "absent"
  BY DEF NoRow, RowType, Kinds
<1>4. RowOf(Absent) = NoRow
  BY <1>2 DEF RowOf, NoRow
<1>5. NotEditing \in [id : Entries \cup {NullId}, row : RowType] /\ NotEditing.id = NullId
  BY <1>3 DEF NotEditing
<1> QED
  BY <1>1, <1>2, <1>3, <1>4, <1>5

(* A row of the list shown says no more than is stored.                      *)
LEMMA PublicRows ==
  ASSUME SettingsAssumption,
         NEW list \in [Entries -> StoredEntry], NEW known, NEW sec, EntriesFit(list, known, sec)
  PROVE  /\ Public(list) \in [Entries -> RowType]
         /\ RowsFit(Public(list), known, sec)
<1> DEFINE p == Public(list)
<1>1. ASSUME NEW e \in Entries
      PROVE  /\ p[e] \in RowType
             /\ p[e] # NoRow => e \in known
             /\ p[e].kind = "hosted" => sec = "agents"
  <2>1. p[e] = RowOf(list[e])
    BY DEF Public
  <2>2. list[e] \in StoredEntry
    OBVIOUS
  <2>3. RowOf(list[e]) \in RowType /\ RowOf(list[e]).kind = list[e].kind
    BY <2>2 DEF RowOf, RowType, StoredEntry
  <2>4. p[e] # NoRow => list[e] # Absent
    BY <2>1, BlankTypes
  <2> QED
    BY <2>1, <2>3, <2>4 DEF EntriesFit
<1>2. p = [e \in Entries |-> p[e]]
  BY DEF Public
<1> HIDE DEF p
<1>3. p \in [Entries -> RowType]
  BY <1>1, <1>2
<1>4. RowsFit(p, known, sec)
  BY <1>1 DEF RowsFit
<1> QED
  BY <1>3, <1>4 DEF p

-----------------------------------------------------------------------------
(* One more request, and the first one taken.                                *)
LEMMA Appended ==
  ASSUME NEW S, NEW q \in Seq(S), NEW r \in S
  PROVE  /\ Append(q, r) \in Seq(S)
         /\ Len(q) \in Nat /\ Len(Append(q, r)) = Len(q) + 1
         /\ \A i \in 1..Len(q) : Append(q, r)[i] = q[i]
         /\ Append(q, r)[Len(q) + 1] = r
OBVIOUS

LEMMA Taken ==
  ASSUME NEW S, NEW q \in Seq(S), q # <<>>
  PROVE  /\ Tail(q) \in Seq(S)
         /\ Len(q) \in Nat /\ Len(q) >= 1 /\ Len(Tail(q)) = Len(q) - 1
         /\ \A i \in 1..Len(Tail(q)) : Tail(q)[i] = q[i + 1]
         /\ Head(q) = q[1] /\ Head(q) \in S
BY HeadTailProperties

LEMMA RequestsAppended ==
  ASSUME NEW q \in Seq(RequestRecords), NEW r \in RequestRecords, NEW known, NEW sec,
         RequestsFit(q, known, sec), RequestFits(r, known, sec)
  PROVE  RequestsFit(Append(q, r), known, sec)
<1> DEFINE q1 == Append(q, r)
<1>1. /\ Len(q) \in Nat /\ Len(q1) = Len(q) + 1
      /\ \A i \in 1..Len(q) : q1[i] = q[i]
      /\ q1[Len(q) + 1] = r
  BY Appended
<1> HIDE DEF q1
<1>2. \A i \in 1..Len(q1) : i \in 1..Len(q) \/ i = Len(q) + 1
  BY <1>1
<1>3. RequestsFit(q1, known, sec)
  BY <1>1, <1>2 DEF RequestsFit
<1> QED
  BY <1>3 DEF q1

LEMMA RequestsTaken ==
  ASSUME NEW q \in Seq(RequestRecords), q # <<>>, NEW known, NEW sec, RequestsFit(q, known, sec)
  PROVE  RequestsFit(Tail(q), known, sec) /\ RequestFits(Head(q), known, sec)
<1> DEFINE q1 == Tail(q)
<1>1. /\ Len(q) \in Nat /\ Len(q) >= 1 /\ Len(q1) = Len(q) - 1
      /\ \A i \in 1..Len(q1) : q1[i] = q[i + 1]
      /\ Head(q) = q[1]
  BY Taken
<1> HIDE DEF q1
<1>2. \A i \in 1..Len(q1) : i + 1 \in 1..Len(q)
  BY <1>1
<1>3. RequestsFit(q1, known, sec)
  BY <1>1, <1>2 DEF RequestsFit
<1>4. RequestFits(Head(q), known, sec)
  BY <1>1 DEF RequestsFit
<1> QED
  BY <1>3, <1>4 DEF q1

LEMMA AnswersAppended ==
  ASSUME NEW q \in Seq(AnswerRecords), NEW r \in AnswerRecords, NEW known, NEW sec,
         AnswersFit(q, known, sec), RowsFit(r.rows, known, sec)
  PROVE  AnswersFit(Append(q, r), known, sec)
<1> DEFINE q1 == Append(q, r)
<1>1. /\ Len(q) \in Nat /\ Len(q1) = Len(q) + 1
      /\ \A i \in 1..Len(q) : q1[i] = q[i]
      /\ q1[Len(q) + 1] = r
  BY Appended
<1> HIDE DEF q1
<1>2. \A i \in 1..Len(q1) : i \in 1..Len(q) \/ i = Len(q) + 1
  BY <1>1
<1>3. AnswersFit(q1, known, sec)
  BY <1>1, <1>2 DEF AnswersFit
<1> QED
  BY <1>3 DEF q1

LEMMA AnswersTaken ==
  ASSUME NEW q \in Seq(AnswerRecords), q # <<>>, NEW known, NEW sec, AnswersFit(q, known, sec)
  PROVE  AnswersFit(Tail(q), known, sec) /\ RowsFit(Head(q).rows, known, sec)
<1> DEFINE q1 == Tail(q)
<1>1. /\ Len(q) \in Nat /\ Len(q) >= 1 /\ Len(q1) = Len(q) - 1
      /\ \A i \in 1..Len(q1) : q1[i] = q[i + 1]
      /\ Head(q) = q[1]
  BY Taken
<1> HIDE DEF q1
<1>2. \A i \in 1..Len(q1) : i + 1 \in 1..Len(q)
  BY <1>1
<1>3. AnswersFit(q1, known, sec)
  BY <1>1, <1>2 DEF AnswersFit
<1>4. RowsFit(Head(q).rows, known, sec)
  BY <1>1 DEF AnswersFit
<1> QED
  BY <1>3, <1>4 DEF q1

(* More ids are given out, and none is taken back.                           *)
LEMMA MoreIds ==
  ASSUME NEW known, NEW more, known \subseteq more, NEW sec
  PROVE  /\ \A list : EntriesFit(list, known, sec) => EntriesFit(list, more, sec)
         /\ \A list : RowsFit(list, known, sec) => RowsFit(list, more, sec)
         /\ \A q : RequestsFit(q, known, sec) => RequestsFit(q, more, sec)
         /\ \A q : AnswersFit(q, known, sec) => AnswersFit(q, more, sec)
<1>1. \A list : EntriesFit(list, known, sec) => EntriesFit(list, more, sec)
  BY DEF EntriesFit
<1>2. \A list : RowsFit(list, known, sec) => RowsFit(list, more, sec)
  BY DEF RowsFit
<1>3. \A r : RequestFits(r, known, sec) => RequestFits(r, more, sec)
  BY DEF RequestFits
<1>4. \A q : RequestsFit(q, known, sec) => RequestsFit(q, more, sec)
  BY <1>3 DEF RequestsFit
<1>5. \A q : AnswersFit(q, known, sec) => AnswersFit(q, more, sec)
  BY <1>2 DEF AnswersFit
<1> QED
  BY <1>1, <1>2, <1>4, <1>5

(* The secret typed last is that of the request sent last.                   *)
LEMMA SuppliedAppended ==
  ASSUME NEW q \in Seq(RequestRecords), NEW r \in RequestRecords, NEW e, NEW old, NEW typed,
         LastSupplied(q, e, old, typed)
  PROVE  LastSupplied(Append(q, r), e, old, IF Supplies(r, e) THEN r.draft.secret ELSE typed)
<1> DEFINE q1 == Append(q, r)
<1>1. /\ Len(q) \in Nat /\ Len(q1) = Len(q) + 1
      /\ \A i \in 1..Len(q) : q1[i] = q[i]
      /\ q1[Len(q) + 1] = r
  BY Appended
<1> HIDE DEF q1
<1>2. /\ \A i \in 1..Len(q1) : i \in 1..Len(q) \/ i = Len(q) + 1
      /\ Len(q) + 1 \in 1..Len(q1)
      /\ \A i \in 1..Len(q) : /\ i \in 1..Len(q1) /\ Len(q) + 1 \in (i + 1)..Len(q1)
                             /\ \A j \in (i + 1)..Len(q) : j \in 1..Len(q) /\ j \in (i + 1)..Len(q1)
  BY <1>1
<1>3. CASE Supplies(r, e)
  <2>1. \A i \in 1..Len(q1) :
          Supplies(q1[i], e) /\ (\A j \in (i + 1)..Len(q1) : ~Supplies(q1[j], e)) => i = Len(q) + 1
    BY <1>1, <1>2, <1>3
  <2>2. LastSupplied(q1, e, old, r.draft.secret)
    BY <1>1, <1>2, <1>3, <2>1 DEF LastSupplied
  <2> QED
    BY <1>3, <2>2 DEF q1
<1>4. CASE ~Supplies(r, e)
  <2>1. \A i \in 1..Len(q1) : Supplies(q1[i], e) => i \in 1..Len(q)
    BY <1>1, <1>2, <1>4
  <2>2. \A i \in 1..Len(q) :
          (\A j \in (i + 1)..Len(q1) : ~Supplies(q1[j], e)) => (\A j \in (i + 1)..Len(q) : ~Supplies(q[j], e))
    BY <1>1, <1>2
  <2>3. (\A i \in 1..Len(q1) : ~Supplies(q1[i], e)) => (\A i \in 1..Len(q) : ~Supplies(q[i], e))
    BY <1>1, <1>2
  <2>4. LastSupplied(q1, e, old, typed)
    BY <1>1, <2>1, <2>2, <2>3 DEF LastSupplied
  <2> QED
    BY <1>4, <2>4 DEF q1
<1> QED
  BY <1>3, <1>4

(* The request taken decides what the entry's secret is from now on.         *)
LEMMA SuppliedTaken ==
  ASSUME NEW q \in Seq(RequestRecords), q # <<>>, NEW e, NEW old, NEW typed,
         LastSupplied(q, e, old, typed)
  PROVE  LastSupplied(Tail(q), e, IF Supplies(Head(q), e) THEN Head(q).draft.secret ELSE old, typed)
<1> DEFINE q1 == Tail(q)
<1>1. /\ Len(q) \in Nat /\ Len(q) >= 1 /\ Len(q1) = Len(q) - 1
      /\ \A i \in 1..Len(q1) : q1[i] = q[i + 1]
      /\ Head(q) = q[1]
  BY Taken
<1> HIDE DEF q1
<1>2. /\ \A i \in 1..Len(q1) : /\ i + 1 \in 1..Len(q)
                              /\ \A k \in (i + 2)..Len(q) : k - 1 \in (i + 1)..Len(q1) /\ (k - 1) + 1 = k
                                                          /\ k - 1 \in 1..Len(q1)
      /\ \A k \in 2..Len(q) : k - 1 \in 1..Len(q1) /\ (k - 1) + 1 = k
      /\ 1 \in 1..Len(q) /\ \A i \in 1..Len(q) : i = 1 \/ i \in 2..Len(q)
  BY <1>1
<1>3. ASSUME NEW i \in 1..Len(q1), Supplies(q1[i], e), \A j \in (i + 1)..Len(q1) : ~Supplies(q1[j], e)
      PROVE  q1[i].draft.secret = typed
  <2>1. \A k \in (i + 2)..Len(q) : ~Supplies(q[k], e)
    BY <1>1, <1>2, <1>3
  <2>2. i + 1 \in 1..Len(q) /\ q[i + 1] = q1[i] /\ (i + 1) + 1 = i + 2
    BY <1>1, <1>2
  <2> QED
    BY <1>3, <2>1, <2>2 DEF LastSupplied
<1>4. ASSUME \A i \in 1..Len(q1) : ~Supplies(q1[i], e)
      PROVE  (IF Supplies(Head(q), e) THEN Head(q).draft.secret ELSE old) = typed
  <2>1. \A k \in 2..Len(q) : ~Supplies(q[k], e)
    BY <1>1, <1>2, <1>4
  <2>2. CASE Supplies(Head(q), e)
    <3>1. 1 + 1 = 2
      OBVIOUS
    <3>2. q[1].draft.secret = typed
      BY <1>1, <1>2, <2>1, <2>2, <3>1 DEF LastSupplied
    <3> QED
      BY <1>1, <2>2, <3>2
  <2>3. CASE ~Supplies(Head(q), e)
    <3>1. \A i \in 1..Len(q) : ~Supplies(q[i], e)
      BY <1>1, <1>2, <2>1, <2>3
    <3> QED
      BY <2>3, <3>1 DEF LastSupplied
  <2> QED
    BY <2>2, <2>3
<1>5. LastSupplied(q1, e, IF Supplies(Head(q), e) THEN Head(q).draft.secret ELSE old, typed)
  BY <1>3, <1>4 DEF LastSupplied
<1> QED
  BY <1>5 DEF q1

(* What the queues hold, and what they will have changed.                    *)
LEMMA SentOps ==
  ASSUME NEW q \in Seq(RequestRecords), NEW r \in RequestRecords
  PROVE  /\ \A op : HasOp(Append(q, r), op) <=> HasOp(q, op) \/ r.op = op
         /\ \A e : ChangeIn(Append(q, r), e) <=>
                    ChangeIn(q, e) \/ (r.id = e /\ r.op \in {"update", "remove"})
<1> DEFINE q1 == Append(q, r)
<1>1. /\ Len(q) \in Nat /\ Len(q1) = Len(q) + 1
      /\ \A i \in 1..Len(q) : q1[i] = q[i]
      /\ q1[Len(q) + 1] = r
  BY Appended
<1> HIDE DEF q1
<1>2. /\ \A i \in 1..Len(q1) : i \in 1..Len(q) \/ i = Len(q) + 1
      /\ Len(q) + 1 \in 1..Len(q1) /\ \A i \in 1..Len(q) : i \in 1..Len(q1)
  BY <1>1
<1>3. \A op : HasOp(q1, op) <=> HasOp(q, op) \/ r.op = op
  BY <1>1, <1>2 DEF HasOp
<1>4. \A e : ChangeIn(q1, e) <=> ChangeIn(q, e) \/ (r.id = e /\ r.op \in {"update", "remove"})
  BY <1>1, <1>2 DEF ChangeIn
<1> QED
  BY <1>3, <1>4 DEF q1

LEMMA TakenOps ==
  ASSUME NEW q \in Seq(RequestRecords), q # <<>>
  PROVE  /\ \A op : HasOp(q, op) <=> HasOp(Tail(q), op) \/ Head(q).op = op
         /\ \A e : ChangeIn(q, e) <=>
                    ChangeIn(Tail(q), e) \/ (Head(q).id = e /\ Head(q).op \in {"update", "remove"})
<1> DEFINE q1 == Tail(q)
<1>1. /\ Len(q) \in Nat /\ Len(q) >= 1 /\ Len(q1) = Len(q) - 1
      /\ \A i \in 1..Len(q1) : q1[i] = q[i + 1]
      /\ Head(q) = q[1]
  BY Taken
<1> HIDE DEF q1
<1>2. /\ \A i \in 1..Len(q) : i = 1 \/ (i - 1 \in 1..Len(q1) /\ (i - 1) + 1 = i)
      /\ 1 \in 1..Len(q) /\ \A i \in 1..Len(q1) : i + 1 \in 1..Len(q)
  BY <1>1
<1>3. ASSUME NEW op PROVE HasOp(q, op) <=> HasOp(q1, op) \/ Head(q).op = op
  <2>1. ASSUME NEW i \in 1..Len(q), q[i].op = op PROVE HasOp(q1, op) \/ Head(q).op = op
    <3>1. CASE i = 1
      BY <1>1, <2>1, <3>1
    <3>2. CASE i - 1 \in 1..Len(q1) /\ (i - 1) + 1 = i
      <4>1. q1[i - 1] = q[i]
        BY <1>1, <3>2
      <4> QED
        BY <2>1, <3>2, <4>1 DEF HasOp
    <3> QED
      BY <1>2, <3>1, <3>2
  <2>2. ASSUME NEW i \in 1..Len(q1), q1[i].op = op PROVE HasOp(q, op)
    BY <1>1, <1>2, <2>2 DEF HasOp
  <2>3. Head(q).op = op => HasOp(q, op)
    BY <1>1, <1>2 DEF HasOp
  <2> QED
    BY <2>1, <2>2, <2>3 DEF HasOp
<1>4. \A e : ChangeIn(q, e) <=>
             ChangeIn(q1, e) \/ (Head(q).id = e /\ Head(q).op \in {"update", "remove"})
  BY <1>1, <1>2 DEF ChangeIn
<1> QED
  BY <1>3, <1>4 DEF q1

LEMMA AnswerSent ==
  ASSUME NEW q \in Seq(AnswerRecords), NEW r \in AnswerRecords
  PROVE  /\ \A what : HasWhat(Append(q, r), what) <=> HasWhat(q, what) \/ r.what = what
         /\ r.what = "list" => LastListIs(Append(q, r), r.rows)
         /\ r.what # "list" => \A list : LastListIs(q, list) => LastListIs(Append(q, r), list)
<1> DEFINE q1 == Append(q, r)
<1>1. /\ Len(q) \in Nat /\ Len(q1) = Len(q) + 1
      /\ \A i \in 1..Len(q) : q1[i] = q[i]
      /\ q1[Len(q) + 1] = r
  BY Appended
<1> HIDE DEF q1
<1>2. /\ \A i \in 1..Len(q1) : i \in 1..Len(q) \/ i = Len(q) + 1
      /\ Len(q) + 1 \in 1..Len(q1)
      /\ \A i \in 1..Len(q) : /\ i \in 1..Len(q1) /\ Len(q) + 1 \in (i + 1)..Len(q1)
                             /\ \A j \in (i + 1)..Len(q) : j \in 1..Len(q) /\ j \in (i + 1)..Len(q1)
  BY <1>1
<1>3. \A what : HasWhat(q1, what) <=> HasWhat(q, what) \/ r.what = what
  BY <1>1, <1>2 DEF HasWhat
<1>4. r.what = "list" => LastListIs(q1, r.rows)
  <2>1. r.what = "list" =>
          \A i \in 1..Len(q1) : (\A j \in (i + 1)..Len(q1) : q1[j].what # "list") => i = Len(q) + 1
    BY <1>1, <1>2
  <2> QED
    BY <1>1, <2>1 DEF LastListIs
<1>5. ASSUME r.what # "list", NEW list, LastListIs(q, list)
      PROVE  LastListIs(q1, list)
  <2>1. \A i \in 1..Len(q1) : q1[i].what = "list" => i \in 1..Len(q)
    BY <1>1, <1>2, <1>5
  <2>2. \A i \in 1..Len(q) :
          (\A j \in (i + 1)..Len(q1) : q1[j].what # "list") => (\A j \in (i + 1)..Len(q) : q[j].what # "list")
    BY <1>1, <1>2
  <2> QED
    BY <1>1, <1>5, <2>1, <2>2 DEF LastListIs
<1> QED
  BY <1>3, <1>4, <1>5 DEF q1

LEMMA AnswerTaken ==
  ASSUME NEW q \in Seq(AnswerRecords), q # <<>>
  PROVE  /\ \A what : HasWhat(q, what) <=> HasWhat(Tail(q), what) \/ Head(q).what = what
         /\ \A list : LastListIs(q, list) => LastListIs(Tail(q), list)
         /\ Head(q).what = "list" /\ ~HasWhat(Tail(q), "list") =>
              \A list : LastListIs(q, list) => Head(q).rows = list
<1> DEFINE q1 == Tail(q)
<1>1. /\ Len(q) \in Nat /\ Len(q) >= 1 /\ Len(q1) = Len(q) - 1
      /\ \A i \in 1..Len(q1) : q1[i] = q[i + 1]
      /\ Head(q) = q[1]
  BY Taken
<1> HIDE DEF q1
<1>2. /\ \A i \in 1..Len(q) : i = 1 \/ (i - 1 \in 1..Len(q1) /\ (i - 1) + 1 = i)
      /\ 1 \in 1..Len(q) /\ \A i \in 1..Len(q1) : i + 1 \in 1..Len(q)
  BY <1>1
<1>3. ASSUME NEW what PROVE HasWhat(q, what) <=> HasWhat(q1, what) \/ Head(q).what = what
  <2>1. ASSUME NEW i \in 1..Len(q), q[i].what = what PROVE HasWhat(q1, what) \/ Head(q).what = what
    <3>1. CASE i = 1
      BY <1>1, <2>1, <3>1
    <3>2. CASE i - 1 \in 1..Len(q1) /\ (i - 1) + 1 = i
      <4>1. q1[i - 1] = q[i]
        BY <1>1, <3>2
      <4> QED
        BY <2>1, <3>2, <4>1 DEF HasWhat
    <3> QED
      BY <1>2, <3>1, <3>2
  <2>2. ASSUME NEW i \in 1..Len(q1), q1[i].what = what PROVE HasWhat(q, what)
    BY <1>1, <1>2, <2>2 DEF HasWhat
  <2>3. Head(q).what = what => HasWhat(q, what)
    BY <1>1, <1>2 DEF HasWhat
  <2> QED
    BY <2>1, <2>2, <2>3 DEF HasWhat
<1>4. ASSUME NEW list, LastListIs(q, list)
      PROVE  LastListIs(q1, list)
  <2> SUFFICES ASSUME NEW i \in 1..Len(q1), q1[i].what = "list",
                      \A j \in (i + 1)..Len(q1) : q1[j].what # "list"
               PROVE  q1[i].rows = list
    BY DEF LastListIs
  <2>1. /\ i + 1 \in 1..Len(q) /\ q[i + 1] = q1[i]
        /\ \A k \in ((i + 1) + 1)..Len(q) : k - 1 \in (i + 1)..Len(q1) /\ k - 1 \in 1..Len(q1) /\ (k - 1) + 1 = k
    BY <1>1, <1>2
  <2>2. ASSUME NEW k \in ((i + 1) + 1)..Len(q) PROVE q[k].what # "list"
    <3>1. k - 1 \in (i + 1)..Len(q1) /\ k - 1 \in 1..Len(q1) /\ (k - 1) + 1 = k
      BY <2>1
    <3>2. q1[k - 1] = q[k]
      BY <1>1, <3>1
    <3>3. q1[k - 1].what # "list"
      BY <3>1
    <3> QED
      BY <3>2, <3>3
  <2> QED
    BY <1>4, <2>1, <2>2 DEF LastListIs
<1>5. ASSUME Head(q).what = "list", ~HasWhat(q1, "list"), NEW list, LastListIs(q, list)
      PROVE  Head(q).rows = list
  <2>1. \A k \in (1 + 1)..Len(q) : k - 1 \in 1..Len(q1) /\ (k - 1) + 1 = k
    BY <1>1
  <2>2. \A k \in (1 + 1)..Len(q) : q[k].what # "list"
    BY <1>1, <1>5, <2>1 DEF HasWhat
  <2> QED
    BY <1>1, <1>2, <1>5, <2>2 DEF LastListIs
<1> QED
  BY <1>3, <1>4, <1>5 DEF q1

-----------------------------------------------------------------------------
(* The form, blank or filled with a row.                                     *)
LEMMA BlankForm ==
  ASSUME SettingsAssumption, section \in {"agents", "servers"}
  PROVE  /\ BlankFields \in FormRecords
         /\ \A id : FieldsFit(BlankFields, id)
<1>1. BlankSide \in [label : Labels \cup {""}, secret : Typed] /\ BlankSide.secret.for = NullId
  BY BlankTypes DEF BlankSide
<1>2. FirstKind \in Kinds /\ (FirstKind = "hosted" => section = "agents")
  BY DEF FirstKind, Kinds
<1>3. BlankFields \in FormRecords
  BY <1>1, <1>2 DEF BlankFields, FormRecords
<1>4. \A id : FieldsFit(BlankFields, id)
  BY <1>1, <1>2 DEF BlankFields, FieldsFit
<1> QED
  BY <1>3, <1>4

LEMMA RefilledForm ==
  ASSUME SettingsAssumption, section \in {"agents", "servers"},
         NEW id, NEW row \in RowType, row.kind = "hosted" => section = "agents"
  PROVE  /\ Refilled(id, row) \in FormRecords
         /\ \A x : FieldsFit(Refilled(id, row), x)
<1> DEFINE new == [label |-> row.label, secret |-> NoSecret]
           sides == [BlankFields.side EXCEPT ![SideOf(row.kind)] = new]
<1>1. new \in [label : Labels \cup {""}, secret : Typed] /\ new.secret.for = NullId
  BY BlankTypes DEF RowType
<1>2. BlankFields.side \in [Sides -> [label : Labels \cup {""}, secret : Typed]]
  BY BlankForm DEF FormRecords
<1>3. \A s \in Sides : BlankFields.side[s].secret.for = NullId
  BY BlankTypes DEF BlankFields, BlankSide
<1> HIDE DEF new
<1>4. /\ sides \in [Sides -> [label : Labels \cup {""}, secret : Typed]]
      /\ \A s \in Sides : sides[s] \in {new, BlankFields.side[s]}
  BY <1>1, <1>2
<1>5. \A s \in Sides : sides[s].secret.for = NullId
  BY <1>1, <1>3, <1>4
<1>6. FieldsOf(row) = [kind |-> row.kind, side |-> sides]
  BY DEF FieldsOf, new
<1> HIDE DEF sides
<1>7. [kind |-> row.kind, side |-> sides] \in FormRecords
  <2>1. row.kind \in Kinds
    BY DEF RowType
  <2> QED
    BY <1>4, <2>1 DEF FormRecords
<1>8. ASSUME NEW x PROVE FieldsFit([kind |-> row.kind, side |-> sides], x)
  BY <1>5 DEF FieldsFit
<1> QED
  BY <1>6, <1>7, <1>8, BlankForm DEF Refilled

(* What the fields send: a secret only of the entry the form is about.       *)
LEMMA DraftFits ==
  ASSUME SettingsAssumption, FormsTypes, FormFits
  PROVE  /\ Draft \in StoredEntry
         /\ Draft.secret.for \in {editing.id, NullId}
         /\ Ready /\ editing.id = NullId /\ Draft.kind = "hosted" =>
              section = "agents" /\ Draft.secret # NoSecret
<1>1. /\ Shown \in [label : Labels \cup {""}, secret : Typed]
      /\ Shown.secret.for \in {editing.id, NullId}
  <2>1. SideOf(form.kind) \in Sides
    BY DEF SideOf, Sides
  <2> QED
    BY <2>1 DEF Shown, FormsTypes, FormRecords, FormFits, FieldsFit
<1>2. ParsedSecret(Shown.secret) \in Typed /\ ParsedSecret(Shown.secret).for \in {editing.id, NullId}
  BY <1>1, BlankTypes DEF ParsedSecret
<1> DEFINE secret == IF section = "agents" THEN AgentSecret ELSE ServerSecret
<1>3. secret \in Typed /\ secret.for \in {editing.id, NullId}
  BY <1>2, BlankTypes DEF AgentSecret, ServerSecret
<1>4. form.kind \in Kinds /\ (form.kind = "hosted" => section = "agents")
  BY DEF FormsTypes, FormRecords, FormFits, FieldsFit
<1>5. Ready /\ editing.id = NullId /\ form.kind = "hosted" => secret # NoSecret
  BY <1>4 DEF Ready, AgentReady, AgentSecret
<1>6. Draft = [kind |-> form.kind, label |-> Shown.label, secret |-> secret]
  BY DEF Draft
<1> HIDE DEF secret
<1> QED
  BY <1>1, <1>3, <1>4, <1>5, <1>6 DEF StoredEntry

-----------------------------------------------------------------------------
(* A step of the window that sends nothing and takes no answer.              *)
LEMMA QuietWindow ==
  ASSUME SettingsAssumption, FormsInv,
         UNCHANGED <<section, mainVars, requests, answers, lastTyped, behind, unsaved>>,
         open' \in BOOLEAN, open' => open /\ rows' = rows,
         rows' \in [Entries -> RowType], RowsFit(rows', usedIds, section),
         editing' \in [id : Entries \cup {NullId}, row : RowType],
         editing'.id # NullId => editing'.id \in usedIds,
         form' \in FormRecords, FieldsFit(form', editing'.id),
         outdated' \in BOOLEAN, EditedRowCurrent',
         tested' \in {tested, "none"}, ~open' => tested' = "none"
  PROVE  FormsInv'
<1>1. FormsTypes'
  BY DEF FormsInv, FormsTypes, mainVars
<1>2. StoreFits'
  BY DEF FormsInv, StoreFits, FileCurrent, EntriesFit, mainVars
<1>3. /\ RowsFit(rows, usedIds, section)' /\ RequestsFit(requests, usedIds, section)'
      /\ AnswersFit(answers, usedIds, section)'
  BY DEF FormsInv, mainVars
<1>4. FormFits'
  BY DEF FormFits, FieldsFit, mainVars
<1>5. SecretsFollow(requests, entry, lastTyped)'
  BY DEF FormsInv, mainVars
<1>6. ListFollows'
  BY DEF FormsInv, ListFollows, mainVars
<1>7. TestFollows'
  BY DEF FormsInv, TestFollows, mainVars
<1> QED
  BY <1>1, <1>2, <1>3, <1>4, <1>5, <1>6, <1>7 DEF FormsInv

(* A step of the window that sends r.                                        *)
LEMMA SendingWindow ==
  ASSUME SettingsAssumption, FormsInv,
         NEW r \in RequestRecords, RequestFits(r, usedIds, section),
         requests' = Append(requests, r),
         UNCHANGED <<section, mainVars, answers, rows, behind, unsaved>>,
         open' \in BOOLEAN, open' = open \/ r.op = "list",
         lastTyped' \in [Entries -> Typed],
         \A e \in Entries :
           lastTyped'[e] = IF Supplies(r, e) THEN r.draft.secret ELSE lastTyped[e],
         editing' \in [id : Entries \cup {NullId}, row : RowType],
         editing'.id # NullId => editing'.id \in usedIds,
         form' \in FormRecords, FieldsFit(form', editing'.id),
         outdated' \in BOOLEAN, EditedRowCurrent',
         ~open' => tested' = "none", tested' = "testing" => tested = "testing" \/ r.op = "test"
  PROVE  FormsInv'
<1>0. requests \in Seq(RequestRecords)
  BY DEF FormsInv, FormsTypes
<1>1. FormsTypes'
  <2>1. requests' \in Seq(RequestRecords)
    BY <1>0, Appended
  <2> QED
    BY <2>1 DEF FormsInv, FormsTypes, mainVars
<1>2. StoreFits'
  BY DEF FormsInv, StoreFits, FileCurrent, EntriesFit, mainVars
<1>3. /\ RowsFit(rows, usedIds, section)'
      /\ AnswersFit(answers, usedIds, section)'
  BY DEF FormsInv, mainVars
<1>4. RequestsFit(requests, usedIds, section)'
  <2>1. RequestsFit(Append(requests, r), usedIds, section)
    BY <1>0, RequestsAppended DEF FormsInv
  <2> QED
    BY <2>1 DEF mainVars
<1>5. FormFits'
  BY DEF FormFits, FieldsFit, mainVars
<1>6. SecretsFollow(requests, entry, lastTyped)'
  <2> SUFFICES ASSUME NEW e \in Entries, entry[e] # Absent
               PROVE  LastSupplied(Append(requests, r), e, entry[e].secret, lastTyped'[e])
    BY DEF SecretsFollow, mainVars
  <2>1. LastSupplied(requests, e, entry[e].secret, lastTyped[e])
    BY DEF FormsInv, SecretsFollow
  <2>2. LastSupplied(Append(requests, r), e, entry[e].secret,
                     IF Supplies(r, e) THEN r.draft.secret ELSE lastTyped[e])
    BY <1>0, <2>1, SuppliedAppended
  <2> QED
    BY <2>2
<1>7. \A op : HasOp(requests', op) <=> HasOp(requests, op) \/ r.op = op
  BY <1>0, SentOps
<1>8. ListFollows'
  BY <1>7 DEF FormsInv, ListFollows, mainVars
<1>9. TestFollows'
  BY <1>7 DEF FormsInv, TestFollows, mainVars
<1> QED
  BY <1>1, <1>2, <1>3, <1>4, <1>5, <1>6, <1>8, <1>9 DEF FormsInv

(* A step of the main process that takes the first request.                  *)
LEMMA HandlingStep ==
  ASSUME SettingsAssumption, FormsInv,
         requests # <<>>, requests' = Tail(requests),
         UNCHANGED <<section, listVars>>,
         entry' \in [Entries -> StoredEntry],
         file' \in [readable : BOOLEAN, entries : [Entries -> StoredEntry]],
         usedIds \subseteq usedIds', usedIds' \subseteq Entries,
         probes' \in Nat, Head(requests).op = "test" => probes' > 0, probes > 0 => probes' > 0,
         StoreFits',
         lastTyped' \in [Entries -> Typed], SecretsFollow(requests', entry', lastTyped'),
         behind' \in BOOLEAN, unsaved' \in BOOLEAN,
         \/ answers' = Append(answers, [what |-> "list", rows |-> Public(entry')])
         \/ answers' = answers /\ behind'
         \/ UNCHANGED <<answers, entry, behind>> /\ Head(requests).op # "list",
         editing.id # NullId /\ ~ChangeIn(requests, editing.id) => entry'[editing.id] = entry[editing.id]
  PROVE  FormsInv'
<1>0. requests \in Seq(RequestRecords) /\ answers \in Seq(AnswerRecords)
  BY DEF FormsInv, FormsTypes
<1> DEFINE a == [what |-> "list", rows |-> Public(entry')]
<1>1. EntriesFit(entry', usedIds', section)
  BY DEF StoreFits
<1>2. a \in AnswerRecords /\ RowsFit(a.rows, usedIds', section) /\ a.what = "list" /\ a.rows = Public(entry')
  BY <1>1, PublicRows DEF AnswerRecords
<1> HIDE DEF a
<1>3. answers' \in Seq(AnswerRecords)
  <2>1. Append(answers, a) \in Seq(AnswerRecords)
    BY <1>0, <1>2, Appended
  <2>2. answers' = Append(answers, a) \/ answers' = answers
    BY DEF a
  <2> QED
    BY <1>0, <2>1, <2>2
<1>4. requests' \in Seq(RequestRecords)
  BY <1>0, Taken
<1>5. FormsTypes'
  BY <1>3, <1>4 DEF FormsInv, FormsTypes, listVars
<1>6. /\ RowsFit(rows, usedIds', section) /\ RequestsFit(requests, usedIds', section)
      /\ AnswersFit(answers, usedIds', section)
  BY MoreIds DEF FormsInv
<1>7. RowsFit(rows, usedIds, section)'
  BY <1>6 DEF listVars
<1>8. RequestsFit(requests, usedIds, section)'
  <2>1. RequestsFit(Tail(requests), usedIds', section)
    BY <1>0, <1>6, RequestsTaken
  <2> QED
    BY <2>1
<1>9. AnswersFit(answers, usedIds, section)'
  <2>1. AnswersFit(Append(answers, a), usedIds', section)
    BY <1>0, <1>2, <1>6, AnswersAppended
  <2>2. AnswersFit(answers', usedIds', section)
    BY <1>6, <2>1 DEF a
  <2> QED
    BY <2>2
<1>10. FormFits'
  BY DEF FormsInv, FormFits, FieldsFit, listVars
<1>11. SecretsFollow(requests, entry, lastTyped)'
  OBVIOUS
<1>12. /\ \A op : HasOp(requests, op) <=> HasOp(requests', op) \/ Head(requests).op = op
       /\ \A e : ChangeIn(requests', e) => ChangeIn(requests, e)
  BY <1>0, TakenOps
<1>13. ASSUME answers' = Append(answers, a) PROVE ListFollows' /\ TestFollows'
  <2>1. /\ \A what : HasWhat(answers', what) <=> HasWhat(answers, what) \/ a.what = what
        /\ LastListIs(answers', a.rows)
    BY <1>0, <1>2, <1>13, AnswerSent
  <2>2. ListFollows'
    BY <1>2, <2>1 DEF ListFollows
  <2>3. TestFollows'
    BY <1>12, <2>1 DEF FormsInv, TestFollows, listVars
  <2> QED
    BY <2>2, <2>3
<1>14. ASSUME answers' = answers,
              behind' = TRUE \/ (entry' = entry /\ behind' = behind /\ Head(requests).op # "list")
       PROVE  ListFollows' /\ TestFollows'
  <2>1. ASSUME entry' = entry, behind' = behind, Head(requests).op # "list" PROVE ListFollows'
    <3>1. open' = open /\ rows' = rows
      BY DEF listVars
    <3>2. HasOp(requests', "list") <=> HasOp(requests, "list")
      BY <1>12, <2>1
    <3>3. ListFollows
      BY DEF FormsInv
    <3> QED
      BY <1>14, <2>1, <3>1, <3>2, <3>3 DEF ListFollows
  <2>3. behind' = TRUE => ListFollows'
    BY DEF ListFollows
  <2>2. TestFollows'
    BY <1>12, <1>14 DEF FormsInv, TestFollows, listVars
  <2> QED
    BY <1>14, <2>1, <2>2, <2>3
<1>15. ListFollows' /\ TestFollows'
  <2>1. \/ answers' = Append(answers, a)
        \/ answers' = answers /\ behind' = TRUE
        \/ answers' = answers /\ entry' = entry /\ behind' = behind /\ Head(requests).op # "list"
    BY DEF a
  <2> QED
    BY <1>13, <1>14, <2>1
<1>16. EditedRowCurrent'
  BY <1>12 DEF FormsInv, EditedRowCurrent, listVars
<1>17. (~open => tested = "none")'
  BY DEF FormsInv, listVars
<1> QED
  BY <1>5, <1>7, <1>8, <1>9, <1>10, <1>11, <1>15, <1>16, <1>17 DEF FormsInv

(* What a save leaves, whether it fails or not.                              *)
LEMMA StoresEffect ==
  ASSUME SettingsAssumption, FormsInv,
         NEW list \in [Entries -> StoredEntry], Stores(list), UNCHANGED section,
         usedIds \subseteq usedIds', EntriesFit(list, usedIds', section)
  PROVE  /\ entry' = list
         /\ file' \in [readable : BOOLEAN, entries : [Entries -> StoredEntry]]
         /\ StoreFits'
         /\ behind' \in BOOLEAN /\ unsaved' \in BOOLEAN
         /\ \/ answers' = Append(answers, [what |-> "list", rows |-> Public(list)])
            \/ answers' = answers /\ behind'
<1>1. /\ Nothing \in [Entries -> StoredEntry]
      /\ EntriesFit(Nothing, usedIds', section)
  BY BlankTypes DEF Nothing, EntriesFit
<1>2. file \in [readable : BOOLEAN, entries : [Entries -> StoredEntry]]
  BY DEF FormsInv, FormsTypes
<1>3. EntriesFit(file.entries, usedIds', section)
  BY MoreIds DEF FormsInv, StoreFits
<1>4. entry' = list
  BY DEF Stores
<1>5. file' \in {file, [readable |-> TRUE, entries |-> list], [readable |-> FALSE, entries |-> Nothing]}
  BY DEF Stores
<1> DEFINE kept == [readable |-> TRUE, entries |-> list]
           cutOff == [readable |-> FALSE, entries |-> Nothing]
<1>61. /\ kept \in [readable : BOOLEAN, entries : [Entries -> StoredEntry]] /\ kept.entries = list
       /\ cutOff \in [readable : BOOLEAN, entries : [Entries -> StoredEntry]] /\ cutOff.entries = Nothing
  BY <1>1
<1>62. file' = file \/ file' = kept \/ file' = cutOff
  BY <1>5
<1> HIDE DEF kept, cutOff
<1>6. file' \in [readable : BOOLEAN, entries : [Entries -> StoredEntry]]
  BY <1>2, <1>61, <1>62
<1>7. EntriesFit(file'.entries, usedIds', section)
  BY <1>1, <1>3, <1>61, <1>62
<1>8. unsaved' \/ file' = [readable |-> TRUE, entries |-> list]
  BY DEF Stores
<1>9. StoreFits'
  BY <1>4, <1>7, <1>8 DEF StoreFits, FileCurrent
<1>10. behind' \in BOOLEAN /\ unsaved' \in BOOLEAN
  BY DEF Stores
<1>11. \/ answers' = Append(answers, [what |-> "list", rows |-> Public(list)])
       \/ answers' = answers /\ behind'
  BY DEF Stores, Broadcast
<1> QED
  BY <1>4, <1>6, <1>9, <1>10, <1>11

-----------------------------------------------------------------------------
LEMMA ShowSectionInv == ASSUME SettingsAssumption, FormsInv, ShowSection PROVE FormsInv'
<1> DEFINE r == Request("list", NullId, Absent)
<1>1. r \in RequestRecords /\ RequestFits(r, usedIds, section) /\ r.op = "list" /\ r.id = NullId
  BY BlankTypes DEF Request, RequestRecords, RequestFits, Ops
<1>2. \A e : ~Supplies(r, e)
  BY <1>1 DEF Supplies
<1> HIDE DEF r
<1>3. requests' = Append(requests, r)
  BY DEF ShowSection, Send, r
<1>4. ~ChangeIn(requests, editing.id) => ~ChangeIn(requests', editing.id)
  BY <1>1, <1>3, SentOps DEF FormsInv, FormsTypes
<1>5. EditedRowCurrent'
  BY <1>4 DEF FormsInv, EditedRowCurrent, ShowSection, mainVars
<1>6. UNCHANGED <<section, mainVars, answers, rows, editing, form, tested, outdated, lastTyped, behind, unsaved>>
      /\ open' = TRUE
  BY DEF ShowSection
<1> QED
  BY <1>1, <1>2, <1>3, <1>5, <1>6, SendingWindow DEF FormsInv, FormsTypes, FormFits

LEMMA LeaveSectionInv == ASSUME SettingsAssumption, FormsInv, LeaveSection PROVE FormsInv'
<1>1. NoRows \in [Entries -> RowType] /\ RowsFit(NoRows, usedIds, section)
  BY BlankTypes DEF NoRows, RowsFit
<1>2. /\ UNCHANGED <<section, mainVars, requests, answers, lastTyped, behind, unsaved>>
      /\ open' = FALSE /\ rows' = NoRows /\ editing' = NotEditing
      /\ form' = BlankFields /\ tested' = "none" /\ outdated' = FALSE
  BY DEF LeaveSection, SectionReset
<1>3. EditedRowCurrent'
  BY <1>2, BlankTypes DEF EditedRowCurrent
<1>4. BlankFields \in FormRecords /\ FieldsFit(BlankFields, NullId)
  BY BlankForm DEF FormsInv, FormsTypes
<1> QED
  BY <1>1, <1>2, <1>3, <1>4, BlankTypes, QuietWindow

LEMMA PendingChanges ==
  ASSUME FormsTypes, NEW e
  PROVE  ChangePending(e) <=> ChangeIn(requests, e)
BY DEF FormsTypes, ChangePending, ChangeIn

LEMMA ClickEditInv ==
  ASSUME SettingsAssumption, FormsInv, NEW e \in Entries, ClickEdit(e) PROVE FormsInv'
<1> DEFINE late == rows[e] # RowOf(entry[e]) \/ ChangePending(e)
<1>1. /\ UNCHANGED <<section, mainVars, requests, answers, open, rows, lastTyped, behind, unsaved>>
      /\ open /\ rows[e] # NoRow
      /\ editing' = [id |-> e, row |-> rows[e]] /\ outdated' = late
      /\ form' = Refilled(e, rows[e]) /\ tested' = "none"
  BY DEF ClickEdit, SetEditing
<1>2. /\ rows \in [Entries -> RowType] /\ rows[e] \in RowType
      /\ e \in usedIds /\ (rows[e].kind = "hosted" => section = "agents")
      /\ section \in {"agents", "servers"} /\ open \in BOOLEAN
      /\ RowsFit(rows, usedIds, section)
  BY <1>1 DEF FormsInv, FormsTypes, RowsFit
<1>3. editing' \in [id : Entries \cup {NullId}, row : RowType] /\ editing'.id = e /\ editing'.row = rows[e]
  BY <1>1, <1>2
<1>4. ChangePending(e) <=> ChangeIn(requests, e)
  BY PendingChanges DEF FormsInv
<1>5. outdated' \in BOOLEAN /\ EditedRowCurrent'
  BY <1>1, <1>3, <1>4 DEF EditedRowCurrent, mainVars
<1>6. form' \in FormRecords /\ FieldsFit(form', editing'.id)
  BY <1>1, <1>2, RefilledForm
<1>7. rows' = rows /\ open' = open /\ open' = TRUE
  BY <1>1, <1>2
<1> QED
  BY <1>1, <1>2, <1>3, <1>5, <1>6, <1>7, QuietWindow

LEMMA CancelEditInv == ASSUME SettingsAssumption, FormsInv, CancelEdit PROVE FormsInv'
<1>1. /\ UNCHANGED <<section, mainVars, requests, answers, open, rows, lastTyped, behind, unsaved>>
      /\ editing' = NotEditing /\ outdated' = FALSE
      /\ form' = BlankFields /\ tested' = "none"
  BY DEF CancelEdit, SetEditing, Refilled, NotEditing
<1>2. EditedRowCurrent'
  BY <1>1, BlankTypes DEF EditedRowCurrent
<1>3. BlankFields \in FormRecords /\ FieldsFit(BlankFields, NullId)
  BY BlankForm DEF FormsInv, FormsTypes
<1>4. /\ rows \in [Entries -> RowType] /\ open \in BOOLEAN
      /\ RowsFit(rows, usedIds, section)
  BY DEF FormsInv, FormsTypes
<1> QED
  BY <1>1, <1>2, <1>3, <1>4, BlankTypes, QuietWindow

LEMMA ClickRemoveInv ==
  ASSUME SettingsAssumption, FormsInv, NEW e \in Entries, ClickRemove(e) PROVE FormsInv'
<1> DEFINE r == Request("remove", e, Absent)
<1>1. /\ rows[e] # NoRow
      /\ requests' = Append(requests, r)
      /\ UNCHANGED <<section, mainVars, answers, open, rows, lastTyped, behind, unsaved>>
  BY DEF ClickRemove, Send
<1>2. e \in usedIds
  BY <1>1 DEF FormsInv, RowsFit
<1>3. r \in RequestRecords /\ RequestFits(r, usedIds, section) /\ r.op = "remove" /\ r.id = e
  BY <1>2, BlankTypes DEF Request, RequestRecords, RequestFits, Ops
<1>4. \A x : ~Supplies(r, x)
  BY <1>3 DEF Supplies
<1> HIDE DEF r
<1>5. lastTyped' \in [Entries -> Typed] /\ open' \in BOOLEAN /\ open' = open
  BY <1>1 DEF FormsInv, FormsTypes
<1>6. CASE editing.id = e
  <2>1. /\ editing' = NotEditing /\ outdated' = FALSE
        /\ form' = BlankFields /\ tested' = "none"
    BY <1>6 DEF ClickRemove, SetEditing, Refilled, NotEditing
  <2>2. EditedRowCurrent'
    BY <2>1, BlankTypes DEF EditedRowCurrent
  <2>3. BlankFields \in FormRecords /\ FieldsFit(BlankFields, NullId)
    BY BlankForm DEF FormsInv, FormsTypes
  <2> QED
    BY <1>1, <1>3, <1>4, <1>5, <2>1, <2>2, <2>3, BlankTypes, SendingWindow
<1>7. CASE editing.id # e
  <2>1. UNCHANGED <<editing, ofList, form, tested, outdated>>
    BY <1>7 DEF ClickRemove
  <2>0. requests \in Seq(RequestRecords)
    BY DEF FormsInv, FormsTypes
  <2>2. ChangeIn(requests', editing.id) => ChangeIn(requests, editing.id)
    <3>1. ChangeIn(Append(requests, r), editing.id) <=>
            ChangeIn(requests, editing.id) \/ (r.id = editing.id /\ r.op \in {"update", "remove"})
      BY <1>3, <2>0, SentOps
    <3> QED
      BY <1>1, <1>3, <1>7, <3>1
  <2>3. EditedRowCurrent'
    BY <1>1, <2>1, <2>2 DEF FormsInv, EditedRowCurrent, mainVars
  <2>4. /\ editing' \in [id : Entries \cup {NullId}, row : RowType]
        /\ editing'.id # NullId => editing'.id \in usedIds
        /\ form' \in FormRecords /\ FieldsFit(form', editing'.id)
        /\ outdated' \in BOOLEAN /\ (~open => tested = "none")
    BY <2>1 DEF FormsInv, FormsTypes, FormFits
  <2>5. (~open' => tested' = "none") /\ (tested' = "testing" => tested = "testing")
    BY <1>5, <2>1, <2>4
  <2>6. \A x \in Entries :
          lastTyped'[x] = IF Supplies(r, x) THEN r.draft.secret ELSE lastTyped[x]
    BY <1>1, <1>4
  <2>7. UNCHANGED <<section, mainVars, answers, rows, behind, unsaved>>
    BY <1>1
  <2>8. requests' = Append(requests, r)
    BY <1>1
  <2> QED
    BY <1>3, <1>5, <2>3, <2>4, <2>5, <2>6, <2>7, <2>8, SendingWindow
<1> QED
  BY <1>6, <1>7

LEMMA TypesInv ==
  ASSUME SettingsAssumption, FormsInv,
         NEW fields \in FormRecords, FieldsFit(fields, editing.id), Types(fields)
  PROVE  FormsInv'
<1>1. /\ UNCHANGED <<section, mainVars, requests, answers, open, rows, editing, tested, outdated,
                     lastTyped, behind, unsaved>>
      /\ form' = fields
  BY DEF Types
<1>2. EditedRowCurrent'
  BY <1>1 DEF FormsInv, EditedRowCurrent, mainVars
<1>3. /\ rows \in [Entries -> RowType] /\ open \in BOOLEAN /\ outdated \in BOOLEAN
      /\ RowsFit(rows, usedIds, section) /\ (~open => tested = "none")
      /\ editing \in [id : Entries \cup {NullId}, row : RowType]
      /\ (editing.id # NullId => editing.id \in usedIds)
  BY DEF FormsInv, FormsTypes, FormFits
<1> QED
  BY <1>1, <1>2, <1>3, QuietWindow

LEMMA SideIsOne == ASSUME NEW kind PROVE SideOf(kind) \in Sides
BY DEF SideOf, Sides

LEMMA ChooseKindInv ==
  ASSUME SettingsAssumption, FormsInv, NEW kind \in KindsOf(section), ChooseKind(kind)
  PROVE  FormsInv'
<1>1. form \in FormRecords /\ FieldsFit(form, editing.id)
  BY DEF FormsInv, FormsTypes, FormFits
<1>2. kind \in Kinds /\ (kind = "hosted" => section = "agents")
  BY DEF KindsOf, Kinds, FormsInv, FormsTypes
<1> DEFINE fields == [form EXCEPT !.kind = kind]
<1>3. fields \in FormRecords /\ fields.kind = kind /\ fields.side = form.side
  BY <1>1, <1>2 DEF FormRecords
<1> HIDE DEF fields
<1>4. FieldsFit(fields, editing.id)
  BY <1>1, <1>2, <1>3 DEF FieldsFit
<1>5. Types(fields)
  BY DEF ChooseKind, fields
<1> QED
  BY <1>3, <1>4, <1>5, TypesInv

LEMMA TypeLabelInv ==
  ASSUME SettingsAssumption, FormsInv, NEW label \in Labels \cup {""}, TypeLabel(label)
  PROVE  FormsInv'
<1>1. form \in FormRecords /\ FieldsFit(form, editing.id)
  BY DEF FormsInv, FormsTypes, FormFits
<1> DEFINE at == SideOf(form.kind)
           fields == [form EXCEPT !.side[at].label = label]
<1>2. at \in Sides
  BY SideIsOne
<1>3. Types(fields)
  BY DEF TypeLabel
<1> HIDE DEF at
<1>4. /\ fields \in FormRecords /\ fields.kind = form.kind
      /\ \A s \in Sides : fields.side[s].secret = form.side[s].secret
  BY <1>1, <1>2 DEF FormRecords
<1> HIDE DEF fields
<1>5. FieldsFit(fields, editing.id)
  BY <1>1, <1>4 DEF FieldsFit
<1> QED
  BY <1>3, <1>4, <1>5, TypesInv

LEMMA TypeSecretInv ==
  ASSUME SettingsAssumption, FormsInv, NEW text \in Secrets \cup {"", "noise"}, TypeSecret(text)
  PROVE  FormsInv'
<1>1. /\ form \in FormRecords /\ FieldsFit(form, editing.id)
      /\ editing.id \in Entries \cup {NullId}
  BY DEF FormsInv, FormsTypes, FormFits
<1> DEFINE at == SideOf(form.kind)
           secret == [text |-> text, for |-> editing.id]
           fields == [form EXCEPT !.side[at].secret = secret]
<1>2. at \in Sides
  BY SideIsOne
<1>3. secret \in Typed /\ secret.for = editing.id
  BY <1>1 DEF Typed
<1>4. Types(fields)
  BY DEF TypeSecret
<1> HIDE DEF at, secret
<1>5. /\ fields \in FormRecords /\ fields.kind = form.kind
      /\ \A s \in Sides : fields.side[s].secret \in {secret, form.side[s].secret}
  BY <1>1, <1>2, <1>3 DEF FormRecords
<1> HIDE DEF fields
<1>6. FieldsFit(fields, editing.id)
  BY <1>1, <1>3, <1>5 DEF FieldsFit
<1> QED
  BY <1>4, <1>5, <1>6, TypesInv

LEMMA ClickTestInv == ASSUME SettingsAssumption, FormsInv, ClickTest PROVE FormsInv'
<1> DEFINE r == Request("test", NullId, Absent)
<1>1. r \in RequestRecords /\ RequestFits(r, usedIds, section) /\ r.op = "test" /\ r.id = NullId
  BY BlankTypes DEF Request, RequestRecords, RequestFits, Ops
<1>2. \A e : ~Supplies(r, e)
  BY <1>1 DEF Supplies
<1> HIDE DEF r
<1>3. /\ requests' = Append(requests, r) /\ open = TRUE
      /\ UNCHANGED <<section, mainVars, answers, open, rows, editing, form, outdated, lastTyped, behind, unsaved>>
  BY DEF ClickTest, Send, r, FormsInv, FormsTypes
<1>4. ~ChangeIn(requests, editing.id) => ~ChangeIn(requests', editing.id)
  BY <1>1, <1>3, SentOps DEF FormsInv, FormsTypes
<1>5. EditedRowCurrent'
  BY <1>3, <1>4 DEF FormsInv, EditedRowCurrent, mainVars
<1>6. open' \in BOOLEAN /\ open' = open /\ open'
  BY <1>3
<1> QED
  BY <1>1, <1>2, <1>3, <1>5, <1>6, SendingWindow DEF FormsInv, FormsTypes, FormFits

LEMMA SubmitFormInv == ASSUME SettingsAssumption, FormsInv, SubmitForm PROVE FormsInv'
<1> DEFINE r == Request(IF editing.id = NullId THEN "create" ELSE "update", editing.id, Draft)
<1>1. /\ Draft \in StoredEntry /\ Draft.secret.for \in {editing.id, NullId}
      /\ editing.id = NullId /\ Draft.kind = "hosted" => section = "agents" /\ Draft.secret # NoSecret
  BY DraftFits DEF FormsInv, SubmitForm
<1>2. editing.id \in Entries \cup {NullId} /\ (editing.id # NullId => editing.id \in usedIds)
  BY DEF FormsInv, FormsTypes, FormFits
<1>3. /\ r \in RequestRecords /\ r.id = editing.id /\ r.draft = Draft
      /\ r.op = IF editing.id = NullId THEN "create" ELSE "update"
  BY <1>1, <1>2 DEF Request, RequestRecords, Ops
<1> HIDE DEF r
<1>4. RequestFits(r, usedIds, section)
  BY <1>1, <1>2, <1>3 DEF RequestFits
<1>5. /\ requests' = Append(requests, r)
      /\ UNCHANGED <<section, mainVars, answers, open, rows, behind, unsaved>>
      /\ form' = BlankFields /\ tested' = "none" /\ editing' = NotEditing /\ outdated' = FALSE
  BY DEF SubmitForm, Send, r
<1>6. /\ lastTyped' \in [Entries -> Typed]
      /\ \A e \in Entries :
           lastTyped'[e] = IF Supplies(r, e) THEN r.draft.secret ELSE lastTyped[e]
  <2>0. lastTyped \in [Entries -> Typed] /\ Draft.secret \in Typed
    BY <1>1 DEF FormsInv, FormsTypes, StoredEntry
  <2>1. CASE editing.id = NullId \/ Draft.secret = NoSecret
    <3>1. lastTyped' = lastTyped
      BY <2>1 DEF SubmitForm
    <3>2. \A e \in Entries : ~Supplies(r, e)
      BY <1>3, <2>1 DEF Supplies, SettingsAssumption
    <3> QED
      BY <2>0, <3>1, <3>2
  <2>2. CASE editing.id # NullId /\ Draft.secret # NoSecret
    <3>1. lastTyped' = [lastTyped EXCEPT ![editing.id] = Draft.secret]
      BY <2>2 DEF SubmitForm
    <3>2. \A e \in Entries : Supplies(r, e) <=> e = editing.id
      BY <1>3, <2>2 DEF Supplies
    <3> QED
      BY <1>2, <1>3, <2>0, <2>2, <3>1, <3>2
  <2> QED
    BY <2>1, <2>2
<1>7. EditedRowCurrent'
  BY <1>5, BlankTypes DEF EditedRowCurrent
<1>8. BlankFields \in FormRecords /\ FieldsFit(BlankFields, NullId)
  BY BlankForm DEF FormsInv, FormsTypes
<1>9. open' \in BOOLEAN /\ open' = open
  BY <1>5 DEF FormsInv, FormsTypes
<1> QED
  BY <1>3, <1>4, <1>5, <1>6, <1>7, <1>8, <1>9, BlankTypes, SendingWindow

(* A step of the window that takes the first answer.                         *)
LEMMA AnsweredWindow ==
  ASSUME SettingsAssumption, FormsInv, answers # <<>>, answers' = Tail(answers),
         UNCHANGED <<section, mainVars, requests, open, editing, form, outdated, lastTyped, behind,
                     unsaved>>,
         rows' \in [Entries -> RowType], RowsFit(rows', usedIds, section),
         Head(answers).what = "list" /\ open => rows' = Head(answers).rows,
         Head(answers).what # "list" => rows' = rows,
         ~open => tested' = tested,
         tested' = "testing" => tested = "testing" /\ Head(answers).what # "result"
  PROVE  FormsInv'
<1>0. answers \in Seq(AnswerRecords)
  BY DEF FormsInv, FormsTypes
<1>1. FormsTypes'
  <2>1. answers' \in Seq(AnswerRecords)
    BY <1>0, Taken
  <2> QED
    BY <2>1 DEF FormsInv, FormsTypes, mainVars
<1>2. StoreFits'
  BY DEF FormsInv, StoreFits, FileCurrent, EntriesFit, mainVars
<1>3. RowsFit(rows, usedIds, section)' /\ RequestsFit(requests, usedIds, section)'
  BY DEF FormsInv, mainVars
<1>4. AnswersFit(answers, usedIds, section)'
  <2>1. AnswersFit(Tail(answers), usedIds, section)
    BY <1>0, AnswersTaken DEF FormsInv
  <2> QED
    BY <2>1 DEF mainVars
<1>5. FormFits'
  BY DEF FormsInv, FormFits, FieldsFit, mainVars
<1>6. SecretsFollow(requests, entry, lastTyped)'
  BY DEF FormsInv, mainVars
<1>7. /\ \A what : HasWhat(answers, what) <=> HasWhat(answers', what) \/ Head(answers).what = what
      /\ \A list : LastListIs(answers, list) => LastListIs(answers', list)
      /\ Head(answers).what = "list" /\ ~HasWhat(answers', "list") =>
           \A list : LastListIs(answers, list) => Head(answers).rows = list
  BY <1>0, AnswerTaken
<1>8. Public(entry)' = Public(entry)
  BY DEF Public, mainVars
<1>9. ListFollows'
  <2>1. ListFollows
    BY DEF FormsInv
  <2>2. (~behind => LastListIs(answers, Public(entry)))'
    BY <1>7, <1>8, <2>1 DEF ListFollows
  <2>3. ASSUME open, ~behind, ~HasWhat(answers', "list"), ~HasOp(requests, "list")
        PROVE  rows' = Public(entry)
    <3>1. CASE Head(answers).what = "list"
      BY <1>7, <2>1, <2>3, <3>1 DEF ListFollows
    <3>2. CASE Head(answers).what # "list"
      BY <1>7, <2>1, <2>3, <3>2 DEF ListFollows
    <3> QED
      BY <3>1, <3>2
  <2> QED
    BY <1>8, <2>2, <2>3 DEF ListFollows
<1>10. EditedRowCurrent'
  BY DEF FormsInv, EditedRowCurrent, mainVars
<1>11. TestFollows'
  BY <1>7 DEF FormsInv, TestFollows, mainVars
<1>12. (~open => tested = "none")'
  BY DEF FormsInv
<1> QED
  BY <1>1, <1>2, <1>3, <1>4, <1>5, <1>6, <1>9, <1>10, <1>11, <1>12 DEF FormsInv

LEMMA ListArrivesInv == ASSUME SettingsAssumption, FormsInv, ListArrives PROVE FormsInv'
<1>1. /\ answers # <<>> /\ Head(answers).what = "list" /\ answers' = Tail(answers)
      /\ rows' = IF open THEN Head(answers).rows ELSE rows
      /\ UNCHANGED <<section, mainVars, requests, open, editing, form, tested, outdated, lastTyped,
                     behind, unsaved>>
  BY DEF ListArrives
<1>2. answers \in Seq(AnswerRecords) /\ rows \in [Entries -> RowType]
  BY DEF FormsInv, FormsTypes
<1>3. Head(answers) \in AnswerRecords
  BY <1>1, <1>2, Taken
<1>4. Head(answers).rows \in [Entries -> RowType]
  BY <1>3 DEF AnswerRecords
<1>5. RowsFit(Head(answers).rows, usedIds, section)
  BY <1>1, <1>2, AnswersTaken DEF FormsInv
<1>6. rows' \in [Entries -> RowType] /\ RowsFit(rows', usedIds, section)
  BY <1>1, <1>2, <1>4, <1>5 DEF FormsInv
<1> QED
  BY <1>1, <1>6, AnsweredWindow

LEMMA ResultArrivesInv == ASSUME SettingsAssumption, FormsInv, ResultArrives PROVE FormsInv'
<1>1. /\ answers # <<>> /\ Head(answers).what = "result" /\ answers' = Tail(answers)
      /\ tested' = IF open THEN "answered" ELSE tested
      /\ UNCHANGED <<section, mainVars, requests, open, rows, editing, form, outdated, lastTyped,
                     behind, unsaved>>
  BY DEF ResultArrives
<1>2. rows \in [Entries -> RowType] /\ RowsFit(rows, usedIds, section)
  BY DEF FormsInv, FormsTypes
<1>3. tested' # "testing"
  BY <1>1 DEF FormsInv
<1> QED
  BY <1>1, <1>2, <1>3, AnsweredWindow

-----------------------------------------------------------------------------
(* What is stored and typed stays as it is, and a request is taken that      *)
(* supplies nothing.                                                         *)
LEMMA NothingSupplied ==
  ASSUME NEW q \in Seq(RequestRecords), q # <<>>, NEW list, NEW typed,
         SecretsFollow(q, list, typed),
         NEW list1, NEW typed1,
         \A e \in Entries : list1[e] # Absent /\ list1[e] = list[e] /\ typed1[e] = typed[e] => ~Supplies(Head(q), e),
         \A e \in Entries : list1[e] # Absent /\ ~(list1[e] = list[e] /\ typed1[e] = typed[e]) =>
            LastSupplied(Tail(q), e, list1[e].secret, typed1[e])
  PROVE  SecretsFollow(Tail(q), list1, typed1)
<1> SUFFICES ASSUME NEW e \in Entries, list1[e] # Absent, list1[e] = list[e], typed1[e] = typed[e]
             PROVE  LastSupplied(Tail(q), e, list1[e].secret, typed1[e])
  BY DEF SecretsFollow
<1>1. LastSupplied(q, e, list[e].secret, typed[e])
  BY DEF SecretsFollow
<1>2. LastSupplied(Tail(q), e, IF Supplies(Head(q), e) THEN Head(q).draft.secret ELSE list[e].secret, typed[e])
  BY <1>1, SuppliedTaken
<1>3. ~Supplies(Head(q), e)
  OBVIOUS
<1> QED
  BY <1>2, <1>3

LEMMA HandleListInv == ASSUME SettingsAssumption, FormsInv, HandleList PROVE FormsInv'
<1>1. /\ requests # <<>> /\ Head(requests).op = "list" /\ requests' = Tail(requests)
      /\ answers' = Append(answers, [what |-> "list", rows |-> Public(entry)]) /\ behind' = FALSE
      /\ UNCHANGED <<section, mainVars, listVars, lastTyped, unsaved>>
  BY DEF HandleList, Takes, Broadcast
<1>2. requests \in Seq(RequestRecords)
  BY DEF FormsInv, FormsTypes
<1>3. \A e : ~Supplies(Head(requests), e)
  BY <1>1 DEF Supplies
<1>4. SecretsFollow(requests', entry', lastTyped')
  <2>1. SecretsFollow(Tail(requests), entry, lastTyped)
    BY <1>1, <1>2, <1>3, NothingSupplied DEF FormsInv
  <2> QED
    BY <1>1, <2>1 DEF mainVars
<1>5. StoreFits'
  BY <1>1 DEF FormsInv, StoreFits, FileCurrent, EntriesFit, mainVars
<1>6. /\ entry' \in [Entries -> StoredEntry]
      /\ file' \in [readable : BOOLEAN, entries : [Entries -> StoredEntry]]
      /\ usedIds \subseteq usedIds' /\ usedIds' \subseteq Entries
      /\ probes' \in Nat /\ probes' = probes /\ entry' = entry
      /\ lastTyped' \in [Entries -> Typed]
      /\ behind' \in BOOLEAN /\ unsaved' \in BOOLEAN
  BY <1>1 DEF FormsInv, FormsTypes, mainVars
<1>7. UNCHANGED <<section, listVars>>
  BY <1>1
<1>8. answers' = Append(answers, [what |-> "list", rows |-> Public(entry')])
  BY <1>1, <1>6
<1> QED
  BY <1>1, <1>4, <1>5, <1>6, <1>7, <1>8, HandlingStep

LEMMA OneMore == \A n \in Nat : n + 1 \in Nat /\ n + 1 > 0
OBVIOUS

LEMMA OneLess == \A n \in Nat : n > 0 => n - 1 \in Nat
OBVIOUS

LEMMA HandleTestInv == ASSUME SettingsAssumption, FormsInv, HandleTest PROVE FormsInv'
<1>1. /\ requests # <<>> /\ Head(requests).op = "test" /\ requests' = Tail(requests)
      /\ probes' = probes + 1
      /\ UNCHANGED <<section, entry, file, usedIds, answers, listVars, lastTyped, behind, unsaved>>
  BY DEF HandleTest, Takes
<1>2. requests \in Seq(RequestRecords)
  BY DEF FormsInv, FormsTypes
<1>3. \A e : ~Supplies(Head(requests), e)
  BY <1>1 DEF Supplies
<1>4. SecretsFollow(requests', entry', lastTyped')
  <2>1. SecretsFollow(Tail(requests), entry, lastTyped)
    BY <1>1, <1>2, <1>3, NothingSupplied DEF FormsInv
  <2> QED
    BY <1>1, <2>1
<1>5. StoreFits'
  BY <1>1 DEF FormsInv, StoreFits, FileCurrent, EntriesFit
<1>6. /\ entry' \in [Entries -> StoredEntry]
      /\ file' \in [readable : BOOLEAN, entries : [Entries -> StoredEntry]]
      /\ usedIds \subseteq usedIds' /\ usedIds' \subseteq Entries
      /\ entry' = entry
      /\ lastTyped' \in [Entries -> Typed]
      /\ behind' \in BOOLEAN /\ unsaved' \in BOOLEAN
  BY <1>1 DEF FormsInv, FormsTypes
<1>7. probes' \in Nat /\ probes' > 0
  <2>1. probes \in Nat
    BY DEF FormsInv, FormsTypes
  <2>2. probes' = probes + 1
    BY <1>1
  <2> QED
    BY <2>1, <2>2, OneMore, Zenon
<1>8. UNCHANGED <<section, listVars>> /\ UNCHANGED <<answers, entry, behind>> /\ Head(requests).op # "list"
  BY <1>1
<1> QED
  BY <1>1, <1>4, <1>5, <1>6, <1>7, <1>8, HandlingStep

LEMMA HandleAddInv ==
  ASSUME SettingsAssumption, FormsInv, NEW e \in Entries, HandleAdd(e) PROVE FormsInv'
<1> DEFINE r == Head(requests)
           list == [entry EXCEPT ![e] = r.draft]
<1>1. /\ requests # <<>> /\ r.op = "create" /\ requests' = Tail(requests)
      /\ e \notin usedIds /\ usedIds' = usedIds \cup {e}
      /\ Stores(list)
      /\ lastTyped' = [lastTyped EXCEPT ![e] = r.draft.secret]
      /\ UNCHANGED <<section, probes, listVars>>
  BY DEF HandleAdd, Takes
<1>2. /\ requests \in Seq(RequestRecords) /\ entry \in [Entries -> StoredEntry]
      /\ lastTyped \in [Entries -> Typed] /\ usedIds \subseteq Entries
      /\ probes \in Nat
  BY DEF FormsInv, FormsTypes
<1>3. r \in RequestRecords /\ RequestFits(r, usedIds, section)
  BY <1>1, <1>2, Taken, RequestsTaken DEF FormsInv
<1> HIDE DEF r
<1>4. /\ r.draft \in StoredEntry /\ r.draft.secret \in Typed /\ r.id = NullId
      /\ r.draft.secret.for \in {NullId}
      /\ r.draft.kind = "hosted" => section = "agents" /\ r.draft.secret # NoSecret
  BY <1>1, <1>3 DEF RequestRecords, StoredEntry, RequestFits
<1>5. /\ list \in [Entries -> StoredEntry] /\ list[e] = r.draft
      /\ \A x \in Entries : x # e => list[x] = entry[x]
  BY <1>2, <1>4
<1>6. /\ lastTyped' \in [Entries -> Typed] /\ lastTyped'[e] = r.draft.secret
      /\ \A x \in Entries : x # e => lastTyped'[x] = lastTyped[x]
  BY <1>1, <1>2, <1>4
<1> HIDE DEF list
<1>7. usedIds \subseteq usedIds' /\ usedIds' \subseteq Entries
  BY <1>1, <1>2
<1>8. EntriesFit(list, usedIds', section)
  BY <1>1, <1>4, <1>5 DEF FormsInv, StoreFits, EntriesFit
<1>9. /\ entry' = list
      /\ file' \in [readable : BOOLEAN, entries : [Entries -> StoredEntry]]
      /\ StoreFits'
      /\ behind' \in BOOLEAN /\ unsaved' \in BOOLEAN
      /\ \/ answers' = Append(answers, [what |-> "list", rows |-> Public(list)])
         \/ answers' = answers /\ behind'
  BY <1>1, <1>5, <1>7, <1>8, StoresEffect
<1>10. SecretsFollow(requests', entry', lastTyped')
  <2>1. \A x : ~Supplies(Head(requests), x)
    BY <1>1 DEF Supplies, r
  <2>2. entry[e] = Absent
    BY <1>1 DEF FormsInv, StoreFits, EntriesFit
  <2>3. LastSupplied(Tail(requests), e, r.draft.secret, r.draft.secret)
    <3> DEFINE q1 == Tail(requests)
    <3>1. RequestsFit(q1, usedIds, section)
      BY <1>1, <1>2, RequestsTaken DEF FormsInv
    <3> HIDE DEF q1
    <3>2. \A i \in 1..Len(q1) : ~Supplies(q1[i], e)
      BY <1>1, <3>1 DEF RequestsFit, RequestFits, Supplies
    <3>3. LastSupplied(q1, e, r.draft.secret, r.draft.secret)
      BY <3>2 DEF LastSupplied
    <3> QED
      BY <3>3 DEF q1
  <2>4. \A x \in Entries : list[x] # Absent /\ ~(list[x] = entry[x] /\ lastTyped'[x] = lastTyped[x]) => x = e
    BY <1>5, <1>6
  <2>5. PICK typed1 : typed1 = lastTyped'
    OBVIOUS
  <2>6. SecretsFollow(Tail(requests), list, typed1)
    <3>1. \A x \in Entries : list[x] # Absent /\ ~(list[x] = entry[x] /\ typed1[x] = lastTyped[x]) =>
            LastSupplied(Tail(requests), x, list[x].secret, typed1[x])
      BY <1>5, <1>6, <2>3, <2>4, <2>5
    <3>2. SecretsFollow(requests, entry, lastTyped)
      BY DEF FormsInv
    <3> QED
      BY <1>1, <1>2, <2>1, <3>1, <3>2, NothingSupplied
  <2> QED
    BY <1>1, <1>9, <2>5, <2>6
<1>11. editing.id # NullId => entry'[editing.id] = entry[editing.id]
  BY <1>1, <1>5, <1>9 DEF FormsInv, FormsTypes, FormFits
<1>12. entry' \in [Entries -> StoredEntry] /\ probes' \in Nat /\ probes' = probes
  BY <1>1, <1>2, <1>5, <1>9
<1>13. UNCHANGED <<section, listVars>> /\ Head(requests).op # "test"
  BY <1>1 DEF r
<1>14. \/ answers' = Append(answers, [what |-> "list", rows |-> Public(entry')])
       \/ answers' = answers /\ behind'
  BY <1>9
<1> QED
  BY <1>1, <1>6, <1>7, <1>9, <1>10, <1>11, <1>12, <1>13, <1>14, HandlingStep

(* A request that puts x where id is, with the secret supplied, if any.      *)
LEMMA ReplacedInv ==
  ASSUME SettingsAssumption, FormsInv,
         requests # <<>>, requests' = Tail(requests),
         NEW id, id = Head(requests).id, id \in Entries, id \in usedIds,
         Head(requests).op \in {"update", "remove"},
         NEW x \in StoredEntry, Stores([entry EXCEPT ![id] = x]),
         x # Absent => entry[id] # Absent /\
                       x.secret = IF Supplies(Head(requests), id) THEN Head(requests).draft.secret
                                  ELSE entry[id].secret,
         x.secret.for \in {id, NullId},
         x.kind = "hosted" => section = "agents" /\ x.secret # NoSecret,
         UNCHANGED <<section, usedIds, probes, listVars, lastTyped>>
  PROVE  FormsInv'
<1> DEFINE list == [entry EXCEPT ![id] = x]
<1>1. /\ requests \in Seq(RequestRecords) /\ entry \in [Entries -> StoredEntry]
      /\ lastTyped \in [Entries -> Typed] /\ usedIds \subseteq Entries
      /\ probes \in Nat
  BY DEF FormsInv, FormsTypes
<1>2. /\ list \in [Entries -> StoredEntry] /\ list[id] = x
      /\ \A e \in Entries : e # id => list[e] = entry[e]
  BY <1>1
<1>3. Stores(list)
  OBVIOUS
<1> HIDE DEF list
<1>4. EntriesFit(list, usedIds', section)
  BY <1>2 DEF FormsInv, StoreFits, EntriesFit
<1>5. /\ entry' = list
      /\ file' \in [readable : BOOLEAN, entries : [Entries -> StoredEntry]]
      /\ StoreFits'
      /\ behind' \in BOOLEAN /\ unsaved' \in BOOLEAN
      /\ \/ answers' = Append(answers, [what |-> "list", rows |-> Public(list)])
         \/ answers' = answers /\ behind'
  BY <1>2, <1>3, <1>4, StoresEffect
<1>6. SecretsFollow(Tail(requests), list, lastTyped)
  <2> SUFFICES ASSUME NEW e \in Entries, list[e] # Absent
               PROVE  LastSupplied(Tail(requests), e, list[e].secret, lastTyped[e])
    BY DEF SecretsFollow
  <2>1. entry[e] # Absent
    BY <1>2
  <2>2. LastSupplied(requests, e, entry[e].secret, lastTyped[e])
    BY <2>1 DEF FormsInv, SecretsFollow
  <2>3. LastSupplied(Tail(requests), e,
                     IF Supplies(Head(requests), e) THEN Head(requests).draft.secret ELSE entry[e].secret,
                     lastTyped[e])
    BY <1>1, <2>2, SuppliedTaken
  <2>4. CASE e = id
    BY <1>2, <2>3, <2>4
  <2>5. CASE e # id
    <3>1. ~Supplies(Head(requests), e)
      BY <2>5 DEF Supplies
    <3> QED
      BY <1>2, <2>3, <2>5, <3>1
  <2> QED
    BY <2>4, <2>5
<1>7. SecretsFollow(requests', entry', lastTyped')
  BY <1>5, <1>6
<1>8. ChangeIn(requests, id)
  BY <1>1, TakenOps
<1>9. editing.id # NullId /\ ~ChangeIn(requests, editing.id) => entry'[editing.id] = entry[editing.id]
  BY <1>2, <1>5, <1>8 DEF FormsInv, FormsTypes
<1>10. /\ entry' \in [Entries -> StoredEntry] /\ probes' \in Nat /\ probes' = probes
       /\ usedIds \subseteq usedIds' /\ usedIds' \subseteq Entries
       /\ lastTyped' \in [Entries -> Typed]
  BY <1>1, <1>2, <1>5
<1>11. UNCHANGED <<section, listVars>> /\ Head(requests).op # "test"
  OBVIOUS
<1>12. \/ answers' = Append(answers, [what |-> "list", rows |-> Public(entry')])
       \/ answers' = answers /\ behind'
  BY <1>5
<1> QED
  BY <1>5, <1>7, <1>9, <1>10, <1>11, <1>12, HandlingStep

LEMMA HandleUpdateInv == ASSUME SettingsAssumption, FormsInv, HandleUpdate PROVE FormsInv'
<1> DEFINE r == Head(requests)
           id == Head(requests).id
           old == entry[id]
           x == Changed(old, r.draft)
<1>1. /\ requests # <<>> /\ r.op = "update" /\ requests' = Tail(requests)
      /\ UNCHANGED <<section, usedIds, probes, listVars, lastTyped>>
  BY DEF HandleUpdate, Takes
<1>2. /\ requests \in Seq(RequestRecords) /\ entry \in [Entries -> StoredEntry]
      /\ usedIds \subseteq Entries
  BY DEF FormsInv, FormsTypes
<1>3. r \in RequestRecords /\ RequestFits(r, usedIds, section)
  BY <1>1, <1>2, Taken, RequestsTaken DEF FormsInv
<1>4. /\ r.draft \in StoredEntry
      /\ id \in usedIds /\ id \in Entries /\ r.draft.secret.for \in {id, NullId}
  BY <1>1, <1>2, <1>3 DEF RequestRecords, RequestFits
<1>5. CASE entry[id] # Absent /\ Stores([entry EXCEPT ![id] = x])
  <2>1. old \in StoredEntry /\ old.secret.for \in {id, NullId}
        /\ (old.kind = "hosted" => section = "agents" /\ old.secret # NoSecret)
    BY <1>2, <1>4 DEF FormsInv, StoreFits, EntriesFit
  <2>2. Supplies(r, id) <=> r.draft.secret # NoSecret
    BY <1>1 DEF Supplies
  <2> DEFINE secret == KeptSecret(old.secret, r.draft.secret)
  <2>3. secret = IF Supplies(r, id) THEN r.draft.secret ELSE old.secret
    BY <2>2 DEF KeptSecret
  <2>4. /\ secret \in Typed /\ secret.for \in {id, NullId}
        /\ old.kind = "hosted" => secret # NoSecret
    BY <1>4, <2>1, <2>2, <2>3 DEF StoredEntry
  <2>5. x = [old EXCEPT !.label = r.draft.label, !.secret = secret]
    BY DEF Changed
  <2>6. r.draft.label \in Labels \cup {""}
    BY <1>4 DEF StoredEntry
  <2>7. entry[id] = old
    OBVIOUS
  <2>8. Stores([entry EXCEPT ![id] = x])
    BY <1>5
  <2> HIDE DEF old, secret, x
  <2>9. x \in StoredEntry /\ x.secret = secret /\ x.kind = old.kind
    BY <2>1, <2>4, <2>5, <2>6 DEF StoredEntry
  <2>10. x.secret = IF Supplies(Head(requests), id) THEN Head(requests).draft.secret ELSE entry[id].secret
    BY <2>3, <2>7, <2>9
  <2>11. x.secret.for \in {id, NullId} /\ (x.kind = "hosted" => section = "agents" /\ x.secret # NoSecret)
    BY <2>1, <2>4, <2>9
  <2> QED
    BY <1>1, <1>4, <1>5, <2>8, <2>9, <2>10, <2>11, ReplacedInv
<1>6. CASE /\ entry[id] = Absent /\ Broadcast(entry) /\ behind' = FALSE
           /\ UNCHANGED <<entry, file, unsaved, saveErrors>>
  <2>1. SecretsFollow(Tail(requests), entry, lastTyped)
    <3>1. \A e \in Entries : Supplies(r, e) => entry[e] = Absent
      BY <1>6 DEF Supplies
    <3> HIDE DEF r
    <3> QED
      BY <1>1, <1>2, <3>1, NothingSupplied DEF FormsInv, r
  <2>2. SecretsFollow(requests', entry', lastTyped')
    BY <1>1, <1>6, <2>1
  <2>3. StoreFits'
    BY <1>1, <1>6 DEF FormsInv, StoreFits, FileCurrent, EntriesFit
  <2>4. /\ entry' \in [Entries -> StoredEntry]
        /\ file' \in [readable : BOOLEAN, entries : [Entries -> StoredEntry]]
        /\ usedIds \subseteq usedIds' /\ usedIds' \subseteq Entries
        /\ probes' \in Nat /\ probes' = probes /\ entry' = entry
        /\ lastTyped' \in [Entries -> Typed]
        /\ behind' \in BOOLEAN /\ unsaved' \in BOOLEAN
    BY <1>1, <1>6 DEF FormsInv, FormsTypes
  <2>5. UNCHANGED <<section, listVars>> /\ Head(requests).op # "test"
    BY <1>1
  <2>6. answers' = Append(answers, [what |-> "list", rows |-> Public(entry')])
    BY <1>6, <2>4 DEF Broadcast
  <2> QED
    BY <1>1, <2>2, <2>3, <2>4, <2>5, <2>6, HandlingStep
<1> QED
  BY <1>5, <1>6 DEF HandleUpdate

LEMMA HandleRemoveInv == ASSUME SettingsAssumption, FormsInv, HandleRemove PROVE FormsInv'
<1> DEFINE r == Head(requests)
<1>1. /\ requests # <<>> /\ r.op = "remove" /\ requests' = Tail(requests)
      /\ Stores([entry EXCEPT ![r.id] = Absent])
      /\ UNCHANGED <<section, usedIds, probes, listVars, lastTyped>>
  BY DEF HandleRemove, Takes
<1>2. requests \in Seq(RequestRecords) /\ usedIds \subseteq Entries
  BY DEF FormsInv, FormsTypes
<1>3. r.id \in usedIds /\ r.id \in Entries
  BY <1>1, <1>2, RequestsTaken DEF FormsInv, RequestFits
<1>4. Absent \in StoredEntry /\ Absent.secret.for = NullId /\ Absent.kind # "hosted"
  BY BlankTypes
<1> QED
  BY <1>1, <1>3, <1>4, ReplacedInv

LEMMA TestEndsInv == ASSUME SettingsAssumption, FormsInv, TestEnds PROVE FormsInv'
<1> DEFINE a == [what |-> "result", rows |-> NoRows]
<1>1. /\ probes' = probes - 1 /\ probes > 0
      /\ answers' = Append(answers, a)
      /\ UNCHANGED <<section, entry, file, usedIds, requests, listVars, lastTyped, behind, unsaved>>
  BY DEF TestEnds
<1>2. a \in AnswerRecords /\ RowsFit(a.rows, usedIds, section) /\ a.what = "result"
  BY BlankTypes DEF AnswerRecords, NoRows, RowsFit
<1> HIDE DEF a
<1>3. answers \in Seq(AnswerRecords)
  BY DEF FormsInv, FormsTypes
<1>4. FormsTypes'
  <2>1. answers' \in Seq(AnswerRecords)
    BY <1>1, <1>2, <1>3, Appended
  <2>2. probes' \in Nat
    <3>1. probes \in Nat
      BY DEF FormsInv, FormsTypes
    <3>2. probes' = probes - 1 /\ probes > 0
      BY <1>1
    <3> QED
      BY <3>1, <3>2, OneLess, Zenon
  <2> QED
    BY <1>1, <2>1, <2>2 DEF FormsInv, FormsTypes, listVars
<1>5. StoreFits'
  BY <1>1 DEF FormsInv, StoreFits, FileCurrent, EntriesFit
<1>6. RowsFit(rows, usedIds, section)' /\ RequestsFit(requests, usedIds, section)'
  BY <1>1 DEF FormsInv, listVars
<1>7. AnswersFit(answers, usedIds, section)'
  <2>1. AnswersFit(Append(answers, a), usedIds, section)
    BY <1>2, <1>3, AnswersAppended DEF FormsInv
  <2> QED
    BY <1>1, <2>1
<1>8. FormFits'
  BY <1>1 DEF FormsInv, FormFits, FieldsFit, listVars
<1>9. SecretsFollow(requests, entry, lastTyped)'
  BY <1>1 DEF FormsInv
<1>10. /\ \A what : HasWhat(answers', what) <=> HasWhat(answers, what) \/ a.what = what
       /\ \A list : LastListIs(answers, list) => LastListIs(answers', list)
  BY <1>1, <1>2, <1>3, AnswerSent
<1>11. Public(entry)' = Public(entry)
  BY <1>1
<1>12. ListFollows'
  BY <1>1, <1>2, <1>10, <1>11 DEF FormsInv, ListFollows, listVars
<1>13. EditedRowCurrent'
  BY <1>1 DEF FormsInv, EditedRowCurrent, listVars
<1>14. TestFollows'
  BY <1>2, <1>10 DEF TestFollows
<1>15. (~open => tested = "none")'
  BY <1>1 DEF FormsInv, listVars
<1> QED
  BY <1>4, <1>5, <1>6, <1>7, <1>8, <1>9, <1>12, <1>13, <1>14, <1>15 DEF FormsInv

LEMMA NothingQueued ==
  /\ \A S : <<>> \in Seq(S)
  /\ \A i \in 1..Len(<<>>) : FALSE
<1>1. Len(<<>>) = 0
  OBVIOUS
<1>2. \A i \in 1..0 : FALSE
  OBVIOUS
<1>3. \A S : <<>> \in Seq(S)
  OBVIOUS
<1> QED
  BY <1>1, <1>2, <1>3

(* With nothing under way and no section shown, what was typed last is what  *)
(* is stored.                                                                *)
FreshStart ==
  /\ section \in {"agents", "servers"}
  /\ entry \in [Entries -> StoredEntry] /\ usedIds \subseteq Entries
  /\ EntriesFit(entry, usedIds, section)
  /\ file = [readable |-> TRUE, entries |-> entry]
  /\ lastTyped = [e \in Entries |-> entry[e].secret]
  /\ probes = 0 /\ requests = <<>> /\ answers = <<>>
  /\ open = FALSE /\ rows = NoRows /\ editing = NotEditing
  /\ form = BlankFields /\ tested = "none" /\ outdated = FALSE
  /\ behind = FALSE /\ unsaved = FALSE

LEMMA FreshInv == FreshStart => FormsInv
<1> SUFFICES ASSUME FreshStart PROVE FormsInv
  OBVIOUS
<1> USE SettingsAssumption DEF FreshStart
<1>1. NoRows \in [Entries -> RowType] /\ RowsFit(NoRows, usedIds, section)
  BY BlankTypes DEF NoRows, RowsFit
<1>2. /\ file \in [readable : BOOLEAN, entries : [Entries -> StoredEntry]]
      /\ file.entries = entry
  OBVIOUS
<1>3. lastTyped \in [Entries -> Typed]
  BY DEF StoredEntry
<1>4. <<>> \in Seq(RequestRecords) /\ <<>> \in Seq(AnswerRecords) /\ \A i \in 1..Len(<<>>) : FALSE
  BY NothingQueued
<1>5. BlankFields \in FormRecords /\ FieldsFit(BlankFields, NullId)
  BY BlankForm
<1>6. FormsTypes
  BY <1>1, <1>2, <1>3, <1>4, <1>5, BlankTypes DEF FormsTypes
<1>7. StoreFits
  BY <1>2 DEF StoreFits, FileCurrent
<1>8. RequestsFit(requests, usedIds, section) /\ AnswersFit(answers, usedIds, section)
  BY <1>4 DEF RequestsFit, AnswersFit
<1>9. FormFits
  BY <1>5, BlankTypes DEF FormFits
<1>10. SecretsFollow(requests, entry, lastTyped)
  <2> SUFFICES ASSUME NEW e \in Entries PROVE LastSupplied(<<>>, e, entry[e].secret, lastTyped[e])
    BY DEF SecretsFollow
  <2>1. lastTyped[e] = entry[e].secret
    OBVIOUS
  <2> QED
    BY <1>4, <2>1 DEF LastSupplied
<1>11. ListFollows
  BY <1>4 DEF ListFollows, LastListIs
<1>12. EditedRowCurrent
  BY BlankTypes DEF EditedRowCurrent
<1>13. TestFollows /\ (~open => tested = "none")
  BY DEF TestFollows
<1> QED
  BY <1>1, <1>6, <1>7, <1>8, <1>9, <1>10, <1>11, <1>12, <1>13 DEF FormsInv

LEMMA FreshInvNext == FreshStart' => FormsInv'
BY FreshInv, PTL

LEMMA NothingFits ==
  ASSUME SettingsAssumption, NEW known, NEW sec
  PROVE  Nothing \in [Entries -> StoredEntry] /\ EntriesFit(Nothing, known, sec)
BY BlankTypes DEF Nothing, EntriesFit

LEMMA RelaunchInv == ASSUME SettingsAssumption, FormsInv, Relaunch PROVE FormsInv'
<1>1. /\ section \in {"agents", "servers"}
      /\ file.entries \in [Entries -> StoredEntry] /\ EntriesFit(file.entries, usedIds, section)
      /\ usedIds \subseteq Entries
  BY DEF FormsInv, FormsTypes, StoreFits
<1>2. PICK list : /\ list \in [Entries -> StoredEntry] /\ usedIds' \subseteq Entries
                  /\ EntriesFit(list, usedIds', section) /\ Loaded(list)
  <2>1. CASE file.readable /\ Loaded(file.entries) /\ UNCHANGED usedIds
    BY <1>1, <2>1
  <2>2. CASE Loaded(Nothing) /\ UNCHANGED usedIds
    BY <1>1, <2>2, NothingFits
  <2>3. ASSUME NEW e \in Entries \ usedIds,
               Loaded([Nothing EXCEPT ![e] = Seed]), usedIds' = usedIds \cup {e}
        PROVE  /\ [Nothing EXCEPT ![e] = Seed] \in [Entries -> StoredEntry] /\ usedIds' \subseteq Entries
               /\ EntriesFit([Nothing EXCEPT ![e] = Seed], usedIds', section)
    <3>1. Seed \in StoredEntry /\ Seed.kind = "stdio" /\ Seed.secret = NoSecret
      <4>1. (CHOOSE l \in Labels : TRUE) \in Labels
        BY DEF SettingsAssumption
      <4> QED
        BY <4>1, BlankTypes DEF Seed, StoredEntry, Kinds
    <3>2. Nothing \in [Entries -> StoredEntry] /\ EntriesFit(Nothing, usedIds', section)
      BY NothingFits
    <3> QED
      BY <1>1, <2>3, <3>1, <3>2, BlankTypes DEF EntriesFit
  <2>4. \/ file.readable /\ Loaded(file.entries) /\ UNCHANGED usedIds
        \/ Loaded(Nothing) /\ UNCHANGED usedIds
        \/ \E e \in Entries \ usedIds :
             Loaded([Nothing EXCEPT ![e] = Seed]) /\ usedIds' = usedIds \cup {e}
    BY DEF Relaunch
  <2> QED
    BY <2>1, <2>2, <2>3, <2>4
<1>3. /\ entry' = list /\ file' = [readable |-> TRUE, entries |-> list]
      /\ lastTyped' = [e \in Entries |-> list[e].secret]
  BY <1>2 DEF Loaded
<1>4. /\ probes' = 0 /\ requests' = <<>> /\ answers' = <<>> /\ open' = FALSE /\ rows' = NoRows
      /\ editing' = NotEditing /\ form' = BlankFields /\ tested' = "none" /\ outdated' = FALSE
      /\ behind' = FALSE /\ unsaved' = FALSE /\ section' = section
  BY DEF Relaunch, SectionReset
<1>5. form' = BlankFields'
  BY <1>4 DEF BlankFields, FirstKind
<1>6. /\ entry' \in [Entries -> StoredEntry] /\ EntriesFit(entry', usedIds', section')
      /\ file' = [readable |-> TRUE, entries |-> entry']
      /\ lastTyped' = [e \in Entries |-> entry'[e].secret]
      /\ section' \in {"agents", "servers"}
  BY <1>1, <1>2, <1>3, <1>4
<1> QED
  BY <1>2, <1>4, <1>5, <1>6, FreshInvNext DEF FreshStart

LEMMA FormsInitInv == ASSUME SettingsAssumption, SettingsFormsInit PROVE FormsInv
<1>1. /\ section \in {"agents", "servers"}
      /\ file = [readable |-> TRUE, entries |-> entry]
      /\ usedIds = OnFile /\ probes = 0 /\ requests = <<>> /\ answers = <<>>
      /\ open = FALSE /\ rows = NoRows /\ editing = NotEditing
      /\ form = BlankFields /\ tested = "none" /\ outdated = FALSE
      /\ lastTyped = [e \in Entries |-> entry[e].secret]
      /\ behind = FALSE /\ unsaved = FALSE
  BY DEF SettingsFormsInit
<1>2. PICK kind \in KindsOf(section), label \in Labels, text \in Secrets :
        entry = [e \in Entries |->
                  IF e \in OnFile
                  THEN Earlier(kind, label,
                               IF kind = "ollama" THEN NoSecret ELSE [text |-> text, for |-> NullId])
                  ELSE Absent]
  BY DEF SettingsFormsInit
<1> DEFINE secret == IF kind = "ollama" THEN NoSecret ELSE [text |-> text, for |-> NullId]
           earlier == Earlier(kind, label, secret)
<1>3. [text |-> text, for |-> NullId] \in Typed /\ [text |-> text, for |-> NullId] # NoSecret
  BY DEF Typed, NoSecret, SettingsAssumption
<1>4. secret \in Typed /\ secret.for = NullId /\ (kind # "ollama" => secret # NoSecret)
  BY <1>3, BlankTypes
<1>5. kind \in Kinds /\ (kind = "hosted" => section = "agents")
  BY <1>1 DEF KindsOf, Kinds
<1> HIDE DEF secret
<1>6. earlier \in StoredEntry /\ earlier.kind = kind /\ earlier.secret = secret
  BY <1>4, <1>5 DEF Earlier, StoredEntry
<1>7. \A e \in Entries : entry[e] = IF e \in OnFile THEN earlier ELSE Absent
  BY <1>2 DEF secret
<1>8. entry \in [Entries -> StoredEntry]
  <2>1. entry = [e \in Entries |-> entry[e]]
    BY <1>2
  <2>2. \A e \in Entries : entry[e] \in StoredEntry
    BY <1>6, <1>7, BlankTypes
  <2> QED
    BY <2>1, <2>2
<1> HIDE DEF earlier
<1>9. EntriesFit(entry, usedIds, section)
  BY <1>1, <1>4, <1>5, <1>6, <1>7, BlankTypes DEF EntriesFit
<1>10. usedIds \subseteq Entries
  BY <1>1 DEF SettingsAssumption
<1> QED
  BY <1>1, <1>8, <1>9, <1>10, FreshInv DEF FreshStart

LEMMA FormsQuiet == ASSUME FormsInv, UNCHANGED settingsFormVars PROVE FormsInv'
<1> USE DEF settingsFormVars, mainVars, listVars
<1>1. FormsTypes'
  BY DEF FormsInv, FormsTypes
<1>2. StoreFits'
  BY DEF FormsInv, StoreFits, FileCurrent, EntriesFit
<1>3. /\ RowsFit(rows, usedIds, section)' /\ RequestsFit(requests, usedIds, section)'
      /\ AnswersFit(answers, usedIds, section)' /\ SecretsFollow(requests, entry, lastTyped)'
      /\ (~open => tested = "none")'
  BY DEF FormsInv
<1>4. FormFits' /\ TestFollows'
  BY DEF FormsInv, FormFits, FieldsFit, TestFollows
<1>5. ListFollows' /\ EditedRowCurrent'
  BY DEF FormsInv, ListFollows, EditedRowCurrent
<1> QED
  BY <1>1, <1>2, <1>3, <1>4, <1>5 DEF FormsInv

LEMMA FormsStepInv ==
  ASSUME SettingsAssumption, FormsInv, [SettingsFormsNext]_settingsFormVars PROVE FormsInv'
<1>1. ASSUME WindowSteps PROVE FormsInv'
  <2>1. ASSUME NEW e \in Entries, ClickEdit(e) \/ ClickRemove(e) PROVE FormsInv'
    BY <2>1, ClickEditInv, ClickRemoveInv
  <2>2. ASSUME NEW kind \in KindsOf(section), ChooseKind(kind) PROVE FormsInv'
    BY <2>2, ChooseKindInv
  <2>3. ASSUME NEW label \in Labels \cup {""}, TypeLabel(label) PROVE FormsInv'
    BY <2>3, TypeLabelInv
  <2>4. ASSUME NEW text \in Secrets \cup {"", "noise"}, TypeSecret(text) PROVE FormsInv'
    BY <2>4, TypeSecretInv
  <2> QED
    BY <1>1, <2>1, <2>2, <2>3, <2>4, ShowSectionInv, LeaveSectionInv, CancelEditInv, ClickTestInv,
       SubmitFormInv, ListArrivesInv, ResultArrivesInv DEF WindowSteps
<1>2. ASSUME MainSteps PROVE FormsInv'
  BY <1>2, HandleListInv, HandleUpdateInv, HandleRemoveInv, HandleTestInv, TestEndsInv, HandleAddInv,
     RelaunchInv DEF MainSteps
<1> QED
  BY <1>1, <1>2, FormsQuiet DEF SettingsFormsNext

LEMMA FormsInvSound == ASSUME SettingsAssumption, FormsInv PROVE CredentialsSound
<1>1. \A e : ChangePending(e) <=> ChangeIn(requests, e)
  BY PendingChanges DEF FormsInv
<1>2. SecretsKept
  <2> SUFFICES ASSUME NEW e \in Entries, entry[e] # Absent
               PROVE  /\ ChangePending(e) \/ entry[e].secret = lastTyped[e]
                      /\ entry[e].secret.for \in {e, NullId}
    BY DEF SecretsKept
  <2>1. entry[e].secret.for \in {e, NullId}
    BY DEF FormsInv, StoreFits, EntriesFit
  <2>2. LastSupplied(requests, e, entry[e].secret, lastTyped[e])
    BY DEF FormsInv, SecretsFollow
  <2>3. ~ChangeIn(requests, e) => \A i \in 1..Len(requests) : ~Supplies(requests[i], e)
    BY DEF ChangeIn, Supplies
  <2> QED
    BY <1>1, <2>1, <2>2, <2>3 DEF LastSupplied
<1>3. HostedKeyed
  BY DEF HostedKeyed, FormsInv, StoreFits, EntriesFit
<1>4. SectionCurrent
  <2>1. requests = <<>> => ~HasOp(requests, "list")
    BY NothingQueued DEF HasOp
  <2>2. answers = <<>> => ~HasWhat(answers, "list")
    BY NothingQueued DEF HasWhat
  <2> QED
    BY <2>1, <2>2 DEF SectionCurrent, FormsInv, ListFollows, EditedRowCurrent
<1>5. TestAnswered
  <2>0. DOMAIN requests = 1..Len(requests) /\ DOMAIN answers = 1..Len(answers)
    <3>1. requests \in Seq(RequestRecords) /\ answers \in Seq(AnswerRecords)
      BY DEF FormsInv, FormsTypes
    <3> QED
      BY <3>1, LenProperties
  <2>1. HasOp(requests, "test") => \E i \in DOMAIN requests : requests[i].op = "test"
    BY <2>0 DEF HasOp
  <2>2. HasWhat(answers, "result") => \E i \in DOMAIN answers : answers[i].what = "result"
    BY <2>0 DEF HasWhat
  <2> QED
    BY <2>1, <2>2 DEF TestAnswered, FormsInv, TestFollows
<1>6. FileCurrent
  BY DEF FormsInv, StoreFits
<1> QED
  BY <1>2, <1>3, <1>4, <1>5, <1>6 DEF CredentialsSound

(* CredentialsSound: a secret is only replaced by one typed for the same     *)
(* entry, a hosted agent always has a key, the list and the open form follow *)
(* the store, "Testing" ends, and the file is what is in memory, however     *)
(* many requests and answers are under way and however often saves fail and  *)
(* the program is restarted.                                                 *)
THEOREM CredentialsStaySound == SettingsFormsSpec => []CredentialsSound
<1>1. SettingsFormsInit => FormsInv
  BY SettingsAssumption, FormsInitInv
<1>2. FormsInv /\ [SettingsFormsNext]_settingsFormVars => FormsInv'
  BY SettingsAssumption, FormsStepInv
<1>3. FormsInv => CredentialsSound
  BY SettingsAssumption, FormsInvSound
<1> QED
  BY <1>1, <1>2, <1>3, PTL DEF SettingsFormsSpec

-----------------------------------------------------------------------------
(* AgentTurns.                                                             *)

MessageRecords == [id : Nat, role : {"user", "assistant"}, text : Seq(Nat), error : BOOLEAN]
TurnRecords ==
  [thread : Threads, msg : Nat, pc : {"tools", "stream", "call", "lost"}, aborted : BOOLEAN]

\* A turn in this state may write to its message.
Writes(x) == x.pc \in {"stream", "call"}

MessageLists(m) == DOMAIN m \subseteq Threads /\ m \in [DOMAIN m -> Seq(MessageRecords)]

(* One turn wrote what there is of a message.                                *)
OneWriter(m) == \A i, j \in 1..Len(m.text) : m.text[i] = m.text[j]

(* All of set, each once.                                                    *)
Lists(q, set) ==
  /\ q \in Seq(Threads)
  /\ \A i, j \in 1..Len(q) : q[i] = q[j] => i = j
  /\ {q[i] : i \in 1..Len(q)} = set

(* The threads are those that have messages, each listed once; and a message *)
(* has an id, up to n, of its own.                                           *)
StoreSound(s, n) ==
  /\ s = [threads |-> s.threads, messages |-> s.messages]
  /\ Lists(s.threads, DOMAIN s.messages)
  /\ MessageLists(s.messages)
  /\ \A t \in DOMAIN s.messages : \A i \in 1..Len(s.messages[t]) :
       /\ s.messages[t][i].id \in 1..n
       /\ OneWriter(s.messages[t][i])
       /\ \A u \in DOMAIN s.messages : \A j \in 1..Len(s.messages[u]) :
            s.messages[t][i].id = s.messages[u][j].id => t = u /\ i = j

(* What a turn is working on is in its thread, not failed, and its own.      *)
WorkedOn(m, k, x, t) ==
  x.thread = t /\ m.error = FALSE /\ \A i \in 1..Len(m.text) : m.text[i] = k
TurnsFit(s, ts) ==
  \A k \in DOMAIN ts : \A t \in DOMAIN s.messages : \A i \in 1..Len(s.messages[t]) :
    s.messages[t][i].id = ts[k].msg => WorkedOn(s.messages[t][i], k, ts[k], t)

TurnsSound(ts, x) ==
  /\ DOMAIN ts \subseteq 1..x.turn /\ ts \in [DOMAIN ts -> TurnRecords]
  /\ \A k \in DOMAIN ts : ts[k].msg \in 1..x.msg
  /\ \A k, j \in DOMAIN ts : ts[k].msg = ts[j].msg => k = j

Registered(act, ts) ==
  \A t \in Threads : act[t] # NoTurn =>
    act[t] \in DOMAIN ts /\ ts[act[t]].thread = t /\ Writes(ts[act[t]])

(* What no turn of ts is writing is the same in s and in d.                  *)
Settled(s, d, ts) ==
  /\ d.threads = s.threads
  /\ \A t \in DOMAIN s.messages : \A i \in 1..Len(s.messages[t]) :
       (\A k \in DOMAIN ts : Writes(ts[k]) => ts[k].msg # s.messages[t][i].id) =>
         i \in 1..Len(d.messages[t]) /\ d.messages[t][i] = s.messages[t][i]

AgentInv ==
  /\ ids \in [turn : Nat, msg : Nat]
  /\ active \in [Threads -> Nat]
  /\ StoreSound(store, ids.msg) /\ StoreSound(saved, ids.msg)
  /\ TurnsSound(turns, ids)
  /\ TurnsFit(store, turns)
  /\ Registered(active, turns)
  /\ Settled(store, saved, turns)

-----------------------------------------------------------------------------
(* agentThreadStore's lists.                                                 *)
LEMMA OthersListed ==
  ASSUME NEW q, NEW set, Lists(q, set), NEW t
  PROVE  Lists(Others(q, t), set \ {t})
<1> DEFINE r == Others(q, t)
<1> USE DEF Lists
<1>0. DOMAIN q = 1..Len(q) /\ Len(q) \in Nat
  BY LenProperties
<1>1. CASE t \notin ToSet(q)
  <2>1. r = q
    BY <1>1 DEF Others
  <2>2. \A i \in 1..Len(q) : q[i] # t
    BY <1>0, <1>1 DEF ToSet
  <2> HIDE DEF r
  <2>3. {r[i] : i \in 1..Len(r)} = {q[i] : i \in 1..Len(q)} \ {t}
    BY <2>1, <2>2
  <2>4. r \in Seq(Threads) /\ \A i, j \in 1..Len(r) : r[i] = r[j] => i = j
    BY <2>1
  <2> QED
    BY <2>3, <2>4 DEF r
<1>2. CASE t \in ToSet(q)
  <2> DEFINE k == CHOOSE i \in DOMAIN q : q[i] = t
  <2>1. k \in 1..Len(q) /\ q[k] = t
    BY <1>0, <1>2 DEF ToSet
  <2>2. r = RemoveAt(q, k)
    BY <1>2 DEF Others
  <2> HIDE DEF k, r
  <2>3. PICK n \in Nat : n = Len(q)
    BY <1>0
  <2>4. /\ r \in Seq(Threads) /\ Len(r) = n - 1
        /\ \A i \in 1..(n - 1) : r[i] = IF i < k THEN q[i] ELSE q[i + 1]
    BY <2>1, <2>2, <2>3, RemovedAt
  <2>5. \A i \in 1..(n - 1) : i \in 1..n /\ i + 1 \in 1..n /\ k \in 1..n
    BY <2>1, <2>3
  <2>6. ASSUME NEW i \in 1..Len(r), NEW j \in 1..Len(r), r[i] = r[j] PROVE i = j
    <3>1. PICK a \in 1..n : a = (IF i < k THEN i ELSE i + 1) /\ r[i] = q[a]
      BY <2>4, <2>5
    <3>2. PICK b \in 1..n : b = (IF j < k THEN j ELSE j + 1) /\ r[j] = q[b]
      BY <2>4, <2>5
    <3>3. a = b
      BY <2>3, <2>6, <3>1, <3>2
    <3> QED
      BY <2>1, <2>3, <2>4, <3>1, <3>2, <3>3
  <2>7. ASSUME NEW i \in 1..Len(r) PROVE r[i] \in {q[x] : x \in 1..Len(q)} \ {t}
    <3>1. PICK a \in 1..n : a = (IF i < k THEN i ELSE i + 1) /\ r[i] = q[a]
      BY <2>4, <2>5
    <3>2. a # k
      BY <2>1, <2>3, <2>4, <3>1
    <3>3. q[a] # t
      BY <2>1, <2>3, <3>1, <3>2
    <3> QED
      BY <2>3, <3>1, <3>3
  <2>8. ASSUME NEW a \in 1..Len(q), q[a] # t PROVE q[a] \in {r[i] : i \in 1..Len(r)}
    <3>1. CASE a < k
      <4>1. a \in 1..(n - 1)
        BY <2>1, <2>3, <3>1
      <4>2. r[a] = q[a]
        BY <2>4, <3>1, <4>1
      <4> QED
        BY <2>4, <4>1, <4>2
    <3>2. CASE a > k
      <4>1. a - 1 \in 1..(n - 1) /\ ~(a - 1 < k) /\ (a - 1) + 1 = a
        BY <2>1, <2>3, <3>2
      <4>2. r[a - 1] = q[a]
        BY <2>4, <4>1
      <4> QED
        BY <2>4, <4>1, <4>2
    <3>3. a # k
      BY <2>1, <2>8
    <3> QED
      BY <2>1, <2>3, <3>1, <3>2, <3>3
  <2>9. {r[i] : i \in 1..Len(r)} = {q[i] : i \in 1..Len(q)} \ {t}
    <3>1. {r[i] : i \in 1..Len(r)} \subseteq {q[i] : i \in 1..Len(q)} \ {t}
      BY <2>7
    <3>2. {q[i] : i \in 1..Len(q)} \ {t} \subseteq {r[i] : i \in 1..Len(r)}
      BY <2>8
    <3> QED
      BY <3>1, <3>2
  <2> QED
    BY <2>4, <2>6, <2>9 DEF r
<1> QED
  BY <1>1, <1>2

LEMMA FirstListed ==
  ASSUME NEW q, NEW set, Lists(q, set), NEW t \in Threads
  PROVE  Lists(ToFront(q, t), set \cup {t})
<1> DEFINE r == ToFront(q, t)
<1>1. PICK o : o = Others(q, t) /\ Lists(o, set \ {t})
  BY OthersListed
<1>2. /\ o \in Seq(Threads) /\ \A i, j \in 1..Len(o) : o[i] = o[j] => i = j
      /\ {o[i] : i \in 1..Len(o)} = set \ {t}
  BY <1>1 DEF Lists
<1>3. PICK n \in Nat : n = Len(o)
  BY <1>2
<1>4. /\ r \in Seq(Threads) /\ Len(r) = 1 + n
      /\ \A i \in 1..(1 + n) : r[i] = IF i <= 1 THEN t ELSE o[i - 1]
  <2>1. <<t>> \in Seq(Threads) /\ Len(<<t>>) = 1 /\ <<t>>[1] = t
    OBVIOUS
  <2>2. /\ <<t>> \o o \in Seq(Threads) /\ Len(<<t>> \o o) = Len(<<t>>) + Len(o)
        /\ \A i \in 1..(Len(<<t>>) + Len(o)) :
             (<<t>> \o o)[i] = IF i <= Len(<<t>>) THEN <<t>>[i] ELSE o[i - Len(<<t>>)]
    BY <1>2, <2>1, ConcatProperties
  <2>3. r = <<t>> \o o
    BY <1>1 DEF ToFront
  <2>4. PICK one : one = <<t>>
    OBVIOUS
  <2>5. /\ one \o o \in Seq(Threads) /\ Len(one \o o) = 1 + n
        /\ \A i \in 1..(1 + n) : (one \o o)[i] = IF i <= 1 THEN one[i] ELSE o[i - 1]
    BY <1>3, <2>1, <2>2, <2>4
  <2>6. \A i \in 1..(1 + n) : i <= 1 => i = 1
    OBVIOUS
  <2>7. one[1] = t /\ r = one \o o
    BY <2>1, <2>3, <2>4
  <2> HIDE DEF r
  <2> QED
    BY <2>5, <2>6, <2>7
<1> HIDE DEF r
<1>5. /\ 1 \in 1..Len(r) /\ r[1] = t
      /\ \A i \in 1..Len(r) : i = 1 \/ (i - 1 \in 1..n /\ r[i] = o[i - 1])
      /\ \A i \in 1..n : i + 1 \in 1..Len(r) /\ (i + 1) - 1 = i /\ ~(i + 1 <= 1)
  BY <1>4
<1>6. t \notin {o[i] : i \in 1..n}
  BY <1>2, <1>3
<1>7. ASSUME NEW i \in 1..Len(r), NEW j \in 1..Len(r), r[i] = r[j] PROVE i = j
  <2>1. i = 1 /\ j # 1 => FALSE
    BY <1>5, <1>6, <1>7
  <2>2. j = 1 /\ i # 1 => FALSE
    BY <1>5, <1>6, <1>7
  <2>3. ASSUME i # 1, j # 1 PROVE i = j
    <3>1. PICK a \in 1..n : a = i - 1 /\ r[i] = o[a]
      BY <1>5, <2>3
    <3>2. PICK b \in 1..n : b = j - 1 /\ r[j] = o[b]
      BY <1>5, <2>3
    <3>3. a = b
      BY <1>2, <1>3, <1>7, <3>1, <3>2
    <3> QED
      BY <1>4, <3>1, <3>2, <3>3
  <2> QED
    BY <2>1, <2>2, <2>3
<1>8. {r[i] : i \in 1..Len(r)} = {o[i] : i \in 1..n} \cup {t}
  <2>1. ASSUME NEW i \in 1..Len(r) PROVE r[i] \in {o[x] : x \in 1..n} \cup {t}
    BY <1>5
  <2>2. ASSUME NEW i \in 1..n PROVE o[i] \in {r[x] : x \in 1..Len(r)}
    <3>1. r[i + 1] = o[i] /\ i + 1 \in 1..Len(r)
      BY <1>4, <1>5
    <3> QED
      BY <3>1
  <2>3. t \in {r[x] : x \in 1..Len(r)}
    BY <1>5
  <2>4. {r[i] : i \in 1..Len(r)} \subseteq {o[i] : i \in 1..n} \cup {t}
    BY <2>1
  <2>5. {o[i] : i \in 1..n} \subseteq {r[i] : i \in 1..Len(r)}
    BY <2>2
  <2> QED
    BY <2>3, <2>4, <2>5
<1>9. {r[i] : i \in 1..Len(r)} = set \cup {t}
  BY <1>2, <1>3, <1>8
<1> QED
  BY <1>4, <1>7, <1>9 DEF r, Lists

-----------------------------------------------------------------------------
(* What happens to a message of a list.                                      *)
SameBut(r, list, id) ==
  /\ r \in Seq(MessageRecords) /\ Len(r) = Len(list)
  /\ \A i \in 1..Len(list) : r[i].id = list[i].id /\ (list[i].id # id => r[i] = list[i])

LEMMA Mapped ==
  ASSUME NEW S, NEW n \in Nat, NEW r \in [1..n -> S]
  PROVE  r \in Seq(S) /\ Len(r) = n
OBVIOUS

Changing(list, id, new) ==
  [i \in DOMAIN list |-> IF list[i].id = id THEN new[i] ELSE list[i]]

Replaces(new, list, id) ==
  \A i \in 1..Len(list) : list[i].id = id => new[i] \in MessageRecords /\ new[i].id = id

LEMMA OneChanged ==
  ASSUME NEW list \in Seq(MessageRecords), NEW id, NEW new, Replaces(new, list, id)
  PROVE  /\ SameBut(Changing(list, id, new), list, id)
         /\ \A i \in 1..Len(list) : list[i].id = id => Changing(list, id, new)[i] = new[i]
<1>0. PICK r : r = Changing(list, id, new)
  OBVIOUS
<1>1. PICK n \in Nat : n = Len(list) /\ DOMAIN list = 1..n
  BY LenProperties
<1>2. \A i \in 1..n : list[i] \in MessageRecords
  BY <1>1
<1>3. \A i \in 1..n : r[i] = IF list[i].id = id THEN new[i] ELSE list[i]
  BY <1>0, <1>1 DEF Changing
<1>4. r \in [1..n -> MessageRecords]
  BY <1>0, <1>1, <1>2 DEF Changing, Replaces
<1>5. r \in Seq(MessageRecords) /\ Len(r) = n
  BY <1>4, Mapped
<1> QED
  BY <1>0, <1>1, <1>3, <1>5 DEF SameBut, Replaces

ChunkIn(r, list, id, k) ==
  /\ SameBut(r, list, id)
  /\ \A i \in 1..Len(list) : list[i].id = id =>
       r[i] = [list[i] EXCEPT !.text = Append(list[i].text, k)]

LEMMA ChunkAdded ==
  ASSUME NEW list \in Seq(MessageRecords), NEW id, NEW k \in Nat
  PROVE  ChunkIn(WithChunk(list, id, k), list, id, k)
<1>0. DOMAIN list = 1..Len(list) /\ \A i \in 1..Len(list) : list[i] \in MessageRecords
  BY LenProperties
<1>1. ASSUME NEW m \in MessageRecords
      PROVE  /\ [m EXCEPT !.text = Append(m.text, k)] \in MessageRecords
             /\ [m EXCEPT !.text = Append(m.text, k)].id = m.id
  <2>1. m.text \in Seq(Nat)
    BY DEF MessageRecords
  <2>2. PICK text \in Seq(Nat) : text = Append(m.text, k)
    BY <2>1, Appended
  <2> QED
    BY <2>2 DEF MessageRecords
<1>2. PICK new : new = [i \in DOMAIN list |-> [list[i] EXCEPT !.text = Append(list[i].text, k)]]
  OBVIOUS
<1>3. \A i \in 1..Len(list) : new[i] = [list[i] EXCEPT !.text = Append(list[i].text, k)]
  BY <1>0, <1>2
<1>4. \A i \in 1..Len(list) : new[i] \in MessageRecords /\ new[i].id = list[i].id
  BY <1>0, <1>1, <1>3
<1>5. Replaces(new, list, id)
  BY <1>4 DEF Replaces
<1>6. WithChunk(list, id, k) = Changing(list, id, new)
  <2>1. \A i \in DOMAIN list : new[i] = [list[i] EXCEPT !.text = Append(list[i].text, k)]
    BY <1>2
  <2> QED
    BY <2>1 DEF WithChunk, Changing
<1>7. /\ SameBut(Changing(list, id, new), list, id)
      /\ \A i \in 1..Len(list) : list[i].id = id => Changing(list, id, new)[i] = new[i]
  BY <1>5, OneChanged
<1> QED
  BY <1>3, <1>6, <1>7 DEF ChunkIn

LEMMA ErrorSet ==
  ASSUME NEW list \in Seq(MessageRecords), NEW id
  PROVE  /\ SameBut(WithError(list, id), list, id)
         /\ \A i \in 1..Len(list) : list[i].id = id =>
              WithError(list, id)[i] = [list[i] EXCEPT !.error = TRUE]
<1>0. DOMAIN list = 1..Len(list) /\ \A i \in 1..Len(list) : list[i] \in MessageRecords
  BY LenProperties
<1>1. \A m \in MessageRecords : [m EXCEPT !.error = TRUE] \in MessageRecords
                                /\ [m EXCEPT !.error = TRUE].id = m.id
  BY DEF MessageRecords
<1>2. PICK new : new = [i \in DOMAIN list |-> [list[i] EXCEPT !.error = TRUE]]
  OBVIOUS
<1>3. \A i \in 1..Len(list) : new[i] = [list[i] EXCEPT !.error = TRUE]
  BY <1>0, <1>2
<1>4. \A i \in 1..Len(list) : new[i] \in MessageRecords /\ new[i].id = list[i].id
  BY <1>0, <1>1, <1>3
<1>5. Replaces(new, list, id)
  BY <1>4 DEF Replaces
<1>6. WithError(list, id) = Changing(list, id, new)
  <2>1. \A i \in DOMAIN list : new[i] = [list[i] EXCEPT !.error = TRUE]
    BY <1>2
  <2> QED
    BY <2>1 DEF WithError, Changing
<1>7. /\ SameBut(Changing(list, id, new), list, id)
      /\ \A i \in 1..Len(list) : list[i].id = id => Changing(list, id, new)[i] = new[i]
  BY <1>5, OneChanged
<1> QED
  BY <1>3, <1>6, <1>7

LEMMA Blanked ==
  ASSUME NEW list \in Seq(MessageRecords), NEW id
  PROVE  /\ SameBut(Blank(list, id), list, id)
         /\ \A i \in 1..Len(list) : list[i].id = id =>
              Blank(list, id)[i].text = <<>> /\ Blank(list, id)[i].error = FALSE
<1>0. DOMAIN list = 1..Len(list) /\ \A i \in 1..Len(list) : list[i] \in MessageRecords
  BY LenProperties
<1>1. ASSUME NEW m \in MessageRecords
      PROVE  /\ [m EXCEPT !.text = <<>>, !.error = FALSE] \in MessageRecords
             /\ [m EXCEPT !.text = <<>>, !.error = FALSE].id = m.id
             /\ [m EXCEPT !.text = <<>>, !.error = FALSE].text = <<>>
             /\ [m EXCEPT !.text = <<>>, !.error = FALSE].error = FALSE
  <2>1. <<>> \in Seq(Nat)
    OBVIOUS
  <2>2. PICK text \in Seq(Nat) : text = <<>>
    BY <2>1
  <2>3. [m EXCEPT !.text = text] \in MessageRecords
    BY DEF MessageRecords
  <2>4. [m EXCEPT !.text = text, !.error = FALSE] \in MessageRecords
    BY <2>3 DEF MessageRecords
  <2> QED
    BY <2>2, <2>4 DEF MessageRecords
<1>2. PICK new : new = [i \in DOMAIN list |-> [list[i] EXCEPT !.text = <<>>, !.error = FALSE]]
  OBVIOUS
<1>3. \A i \in 1..Len(list) : new[i] = [list[i] EXCEPT !.text = <<>>, !.error = FALSE]
  BY <1>0, <1>2
<1>4. \A i \in 1..Len(list) : new[i] \in MessageRecords /\ new[i].id = list[i].id
  BY <1>0, <1>1, <1>3
<1>5. Replaces(new, list, id)
  BY <1>4 DEF Replaces
<1>6. Blank(list, id) = Changing(list, id, new)
  <2>1. \A i \in DOMAIN list : new[i] = [list[i] EXCEPT !.text = <<>>, !.error = FALSE]
    BY <1>2
  <2> QED
    BY <2>1 DEF Blank, Changing
<1>7. /\ SameBut(Changing(list, id, new), list, id)
      /\ \A i \in 1..Len(list) : list[i].id = id => Changing(list, id, new)[i] = new[i]
  BY <1>5, OneChanged
<1>8. ASSUME NEW i \in 1..Len(list)
      PROVE  new[i].text = <<>> /\ new[i].error = FALSE
  <2>1. PICK m \in MessageRecords : m = list[i]
    BY <1>0
  <2>2. new[i] = [m EXCEPT !.text = <<>>, !.error = FALSE]
    BY <1>3, <2>1
  <2> QED
    BY <1>1, <2>2
<1> QED
  BY <1>8, <1>6, <1>7

-----------------------------------------------------------------------------
(* store.messages[t]?. changes the messages of t to r.                       *)
UpdatedTo(u, s, t, r) ==
  /\ u = [threads |-> s.threads, messages |-> u.messages]
  /\ DOMAIN u.messages = DOMAIN s.messages
  /\ u.messages = [x \in DOMAIN s.messages |-> u.messages[x]]
  /\ \A x \in DOMAIN s.messages : u.messages[x] = IF x = t THEN r ELSE s.messages[x]

LEMMA UpdatedFields ==
  ASSUME NEW s, NEW n, StoreSound(s, n), NEW t, NEW r
  PROVE  UpdatedTo(Updated(s, t, r), s, t, r)
<1>1. PICK threads, messages :
        /\ s = [threads |-> threads, messages |-> messages]
        /\ threads = s.threads /\ messages = s.messages
        /\ messages \in [DOMAIN messages -> Seq(MessageRecords)]
  BY DEF StoreSound, MessageLists
<1>2. CASE t \in DOMAIN messages
  <2>1. Updated(s, t, r) = [s EXCEPT !.messages[t] = r]
    BY <1>1, <1>2 DEF Updated
  <2>2. PICK new : new = [messages EXCEPT ![t] = r]
    OBVIOUS
  <2>3. /\ DOMAIN new = DOMAIN messages
        /\ new = [x \in DOMAIN messages |-> new[x]]
        /\ \A x \in DOMAIN messages : new[x] = IF x = t THEN r ELSE messages[x]
    BY <1>1, <2>2
  <2>4. Updated(s, t, r) = [threads |-> threads, messages |-> new]
    BY <1>1, <2>1, <2>2
  <2> QED
    BY <1>1, <2>3, <2>4 DEF UpdatedTo
<1>3. CASE t \notin DOMAIN messages
  <2>1. Updated(s, t, r) = s
    BY <1>1, <1>3 DEF Updated
  <2>2. messages = [x \in DOMAIN messages |-> messages[x]]
    BY <1>1
  <2> QED
    BY <1>1, <1>3, <2>1, <2>2 DEF UpdatedTo
<1> QED
  BY <1>2, <1>3

LEMMA UpdatedSound ==
  ASSUME NEW s, NEW n, StoreSound(s, n), NEW t, NEW r, NEW id,
         t \in DOMAIN s.messages => SameBut(r, s.messages[t], id),
         t \in DOMAIN s.messages => \A i \in 1..Len(r) : r[i].id = id => OneWriter(r[i]),
         NEW u, UpdatedTo(u, s, t, r)
  PROVE  StoreSound(u, n)
<1>1. u = [threads |-> u.threads, messages |-> u.messages] /\ u.threads = s.threads
  BY DEF UpdatedTo
<1>2. DOMAIN u.messages = DOMAIN s.messages
  BY DEF UpdatedTo
<1>3. Lists(u.threads, DOMAIN u.messages)
  BY <1>1, <1>2 DEF StoreSound
<1>4. \A x \in DOMAIN s.messages : u.messages[x] = IF x = t THEN r ELSE s.messages[x]
  BY DEF UpdatedTo
<1>5. /\ s.messages \in [DOMAIN s.messages -> Seq(MessageRecords)]
      /\ DOMAIN s.messages \subseteq Threads
  BY DEF StoreSound, MessageLists
<1>6. ASSUME NEW x \in DOMAIN s.messages
      PROVE  /\ u.messages[x] \in Seq(MessageRecords)
             /\ Len(u.messages[x]) = Len(s.messages[x])
             /\ \A i \in 1..Len(s.messages[x]) :
                  u.messages[x][i].id = s.messages[x][i].id /\ OneWriter(u.messages[x][i])
  <2>1. \A i \in 1..Len(s.messages[x]) : OneWriter(s.messages[x][i])
    BY DEF StoreSound
  <2>2. CASE x = t
    BY <1>4, <2>1, <2>2 DEF SameBut
  <2>3. CASE x # t
    BY <1>4, <1>5, <2>1, <2>3
  <2> QED
    BY <2>2, <2>3
<1>7. MessageLists(u.messages)
  <2>1. u.messages = [x \in DOMAIN s.messages |-> u.messages[x]]
    BY DEF UpdatedTo
  <2>2. u.messages \in [DOMAIN s.messages -> Seq(MessageRecords)]
    BY <1>6, <2>1
  <2> QED
    BY <1>2, <1>5, <2>2 DEF MessageLists
<1>8. ASSUME NEW x \in DOMAIN u.messages, NEW i \in 1..Len(u.messages[x])
      PROVE  /\ u.messages[x][i].id \in 1..n
             /\ OneWriter(u.messages[x][i])
             /\ \A y \in DOMAIN u.messages : \A j \in 1..Len(u.messages[y]) :
                  u.messages[x][i].id = u.messages[y][j].id => x = y /\ i = j
  BY <1>2, <1>6 DEF StoreSound
<1> QED
  BY <1>1, <1>3, <1>7, <1>8 DEF StoreSound

LEMMA UpdatedFits ==
  ASSUME NEW s, NEW ts, TurnsFit(s, ts), NEW t, NEW r, NEW id,
         t \in DOMAIN s.messages => SameBut(r, s.messages[t], id),
         t \in DOMAIN s.messages =>
           \A k \in DOMAIN ts : \A i \in 1..Len(r) :
             r[i].id = id /\ ts[k].msg = id => WorkedOn(r[i], k, ts[k], t),
         NEW u, UpdatedTo(u, s, t, r)
  PROVE  TurnsFit(u, ts)
<1> SUFFICES ASSUME NEW k \in DOMAIN ts, NEW x \in DOMAIN s.messages, NEW i \in 1..Len(u.messages[x]),
                    u.messages[x][i].id = ts[k].msg
             PROVE  WorkedOn(u.messages[x][i], k, ts[k], x)
  BY DEF TurnsFit, UpdatedTo
<1>1. u.messages[x] = IF x = t THEN r ELSE s.messages[x]
  BY DEF UpdatedTo
<1>2. CASE x = t /\ r[i].id = id
  BY <1>1, <1>2
<1>3. CASE x = t /\ r[i].id # id
  <2>1. i \in 1..Len(s.messages[x]) /\ r[i] = s.messages[x][i]
    BY <1>1, <1>3 DEF SameBut
  <2> QED
    BY <1>1, <1>3, <2>1 DEF TurnsFit
<1>4. CASE x # t
  BY <1>1, <1>4 DEF TurnsFit
<1> QED
  BY <1>2, <1>3, <1>4

LEMMA UpdatedSettled ==
  ASSUME NEW s, NEW d, NEW ts, Settled(s, d, ts), NEW t, NEW r, NEW id,
         t \in DOMAIN s.messages => SameBut(r, s.messages[t], id),
         NEW k \in DOMAIN ts, ts[k].msg = id, Writes(ts[k]),
         NEW u, UpdatedTo(u, s, t, r)
  PROVE  Settled(u, d, ts)
<1>1. d.threads = u.threads /\ DOMAIN u.messages = DOMAIN s.messages
  BY DEF Settled, UpdatedTo
<1>2. ASSUME NEW x \in DOMAIN s.messages, NEW i \in 1..Len(u.messages[x]),
             \A j \in DOMAIN ts : Writes(ts[j]) => ts[j].msg # u.messages[x][i].id
      PROVE  i \in 1..Len(d.messages[x]) /\ d.messages[x][i] = u.messages[x][i]
  <2>1. u.messages[x] = IF x = t THEN r ELSE s.messages[x]
    BY DEF UpdatedTo
  <2>2. u.messages[x][i].id # id
    BY <1>2
  <2>3. i \in 1..Len(s.messages[x]) /\ u.messages[x][i] = s.messages[x][i]
    BY <2>1, <2>2 DEF SameBut
  <2> QED
    BY <1>2, <2>3 DEF Settled
<1> QED
  BY <1>1, <1>2 DEF Settled

(* A message added to a thread that is there.                                *)
AddedTo(u, s, t, m) ==
  /\ DOMAIN u.messages = DOMAIN s.messages
  /\ \A x \in DOMAIN s.messages :
       u.messages[x] = IF x = t THEN Append(s.messages[t], m) ELSE s.messages[x]

LEMMA AddedSound ==
  ASSUME NEW s, NEW n \in Nat, StoreSound(s, n), NEW t \in DOMAIN s.messages,
         NEW m \in MessageRecords, m.id = n + 1, m.text = <<>>,
         NEW u, u = Added(s, t, m)
  PROVE  StoreSound(u, n + 1) /\ AddedTo(u, s, t, m)
<1> DEFINE old == s.messages[t]
           new == Append(old, m)
           map == Put(s.messages, t, new)
<1>1. /\ s.messages \in [DOMAIN s.messages -> Seq(MessageRecords)]
      /\ DOMAIN s.messages \subseteq Threads /\ t \in Threads
      /\ Lists(s.threads, DOMAIN s.messages)
  BY DEF StoreSound, MessageLists
<1>2. old \in Seq(MessageRecords)
  BY <1>1
<1>3. /\ new \in Seq(MessageRecords) /\ Len(old) \in Nat /\ Len(new) = Len(old) + 1
      /\ \A i \in 1..Len(old) : new[i] = old[i]
      /\ new[Len(old) + 1] = m
  BY <1>2, Appended
<1>4. u = [threads |-> ToFront(s.threads, t), messages |-> map]
  BY DEF Added, MessagesOf
<1> HIDE DEF new
<1>5. /\ DOMAIN map = DOMAIN s.messages
      /\ map \in [DOMAIN s.messages -> Seq(MessageRecords)]
      /\ \A x \in DOMAIN s.messages : map[x] = IF x = t THEN new ELSE s.messages[x]
  BY <1>1, <1>3 DEF Put
<1> HIDE DEF map, old
<1>6. u = [threads |-> u.threads, messages |-> u.messages]
      /\ u.threads = ToFront(s.threads, t) /\ u.messages = map
  BY <1>4
<1>7. Lists(u.threads, DOMAIN u.messages)
  <2>1. Lists(ToFront(s.threads, t), DOMAIN s.messages \cup {t})
    BY <1>1, FirstListed
  <2>2. DOMAIN s.messages \cup {t} = DOMAIN s.messages
    OBVIOUS
  <2> QED
    BY <1>5, <1>6, <2>1, <2>2
<1>8. MessageLists(u.messages)
  BY <1>1, <1>5, <1>6 DEF MessageLists
<1>9. \A i \in 1..Len(new) : i \in 1..Len(old) \/ (i = Len(old) + 1 /\ new[i] = m)
  BY <1>3
<1>10. OneWriter(m)
  BY DEF OneWriter
<1>11. ASSUME NEW x \in DOMAIN s.messages, NEW i \in 1..Len(map[x])
       PROVE  \/ /\ i \in 1..Len(s.messages[x]) /\ map[x][i] = s.messages[x][i]
                 /\ map[x][i].id \in 1..n /\ OneWriter(map[x][i])
              \/ x = t /\ i = Len(old) + 1 /\ map[x][i] = m
  <2>1. CASE x = t /\ i \in 1..Len(old)
    <3>1. i \in 1..Len(s.messages[x]) /\ map[x][i] = s.messages[x][i]
      BY <1>3, <1>5, <2>1 DEF old
    <3> QED
      BY <3>1 DEF StoreSound
  <2>2. CASE x = t /\ i \notin 1..Len(old)
    BY <1>5, <1>9, <2>2
  <2>3. CASE x # t
    <3>1. i \in 1..Len(s.messages[x]) /\ map[x][i] = s.messages[x][i]
      BY <1>5, <2>3
    <3> QED
      BY <3>1 DEF StoreSound
  <2> QED
    BY <2>1, <2>2, <2>3
<1>12. ASSUME NEW x \in DOMAIN s.messages, NEW i \in 1..Len(map[x])
       PROVE  map[x][i].id \in 1..(n + 1) /\ OneWriter(map[x][i])
  <2>1. n + 1 \in 1..(n + 1) /\ 1..n \subseteq 1..(n + 1)
    OBVIOUS
  <2> QED
    BY <1>10, <1>11, <2>1
<1>13. ASSUME NEW x \in DOMAIN s.messages, NEW i \in 1..Len(map[x]),
              NEW y \in DOMAIN s.messages, NEW j \in 1..Len(map[y]), map[x][i].id = map[y][j].id
       PROVE  x = y /\ i = j
  <2>1. n + 1 \notin 1..n
    OBVIOUS
  <2>2. CASE /\ i \in 1..Len(s.messages[x]) /\ map[x][i] = s.messages[x][i]
             /\ j \in 1..Len(s.messages[y]) /\ map[y][j] = s.messages[y][j]
    BY <1>13, <2>2 DEF StoreSound
  <2>3. CASE map[x][i] = m \/ map[y][j] = m
    BY <1>11, <1>13, <2>1, <2>3
  <2> QED
    BY <1>11, <2>2, <2>3
<1>14. StoreSound(u, n + 1)
  BY <1>5, <1>6, <1>7, <1>8, <1>12, <1>13 DEF StoreSound
<1>15. AddedTo(u, s, t, m)
  BY <1>5, <1>6 DEF AddedTo, new, old
<1> QED
  BY <1>14, <1>15

(* What stays of a store when messages are only taken away.                  *)
Fewer(u, s) ==
  \A x \in DOMAIN u.messages : \A i \in 1..Len(u.messages[x]) :
    /\ x \in DOMAIN s.messages /\ i \in 1..Len(s.messages[x])
    /\ u.messages[x][i] = s.messages[x][i]

LEMMA FewerSound ==
  ASSUME NEW s, NEW n, StoreSound(s, n), NEW u, Fewer(u, s),
         u = [threads |-> u.threads, messages |-> u.messages],
         Lists(u.threads, DOMAIN u.messages), MessageLists(u.messages)
  PROVE  StoreSound(u, n)
<1>1. ASSUME NEW x \in DOMAIN u.messages, NEW i \in 1..Len(u.messages[x])
      PROVE  /\ u.messages[x][i].id \in 1..n
             /\ OneWriter(u.messages[x][i])
             /\ \A y \in DOMAIN u.messages : \A j \in 1..Len(u.messages[y]) :
                  u.messages[x][i].id = u.messages[y][j].id => x = y /\ i = j
  BY DEF StoreSound, Fewer
<1> QED
  BY <1>1 DEF StoreSound

LEMMA FewerFits ==
  ASSUME NEW s, NEW ts, TurnsFit(s, ts), NEW u, Fewer(u, s)
  PROVE  TurnsFit(u, ts)
BY DEF TurnsFit, Fewer

LEMMA EmptyStore ==
  ASSUME NEW s, NEW n, StoreSound(s, n)
  PROVE  StoreSound(Empty, n) /\ Fewer(Empty, s)
<1>1. PICK u : u = Empty
  OBVIOUS
<1>2. /\ u = [threads |-> <<>>, messages |-> <<>>]
      /\ u.threads = <<>> /\ u.messages = <<>> /\ DOMAIN u.messages = {}
  BY <1>1 DEF Empty
<1>3. u = [threads |-> u.threads, messages |-> u.messages]
  BY <1>2
<1>4. Lists(u.threads, DOMAIN u.messages)
  BY <1>2 DEF Lists
<1>5. MessageLists(u.messages)
  BY <1>2 DEF MessageLists
<1>6. Fewer(u, s)
  BY <1>2 DEF Fewer
<1> QED
  BY <1>1, <1>3, <1>4, <1>5, <1>6, FewerSound

LEMMA CreatedStore ==
  ASSUME NEW s, NEW n, StoreSound(s, n), NEW t \in Threads
  PROVE  StoreSound(Created(s, t), n) /\ Fewer(Created(s, t), s)
<1>1. PICK threads, messages :
        /\ threads = s.threads /\ messages = s.messages
        /\ messages \in [DOMAIN messages -> Seq(MessageRecords)]
        /\ DOMAIN messages \subseteq Threads
        /\ Lists(threads, DOMAIN messages)
  BY DEF StoreSound, MessageLists
<1>2. PICK list : list = ToFront(threads, t) /\ Lists(list, DOMAIN messages \cup {t})
  BY <1>1, FirstListed
<1>3. PICK map : map = Put(messages, t, <<>>)
  OBVIOUS
<1>4. /\ DOMAIN map = DOMAIN messages \cup {t}
      /\ map \in [DOMAIN map -> Seq(MessageRecords)]
      /\ \A x \in DOMAIN map : map[x] = IF x = t THEN <<>> ELSE messages[x]
  <2>1. <<>> \in Seq(MessageRecords)
    OBVIOUS
  <2> QED
    BY <1>1, <1>3, <2>1 DEF Put
<1>5. PICK u : u = Created(s, t)
  OBVIOUS
<1>6. u = [threads |-> list, messages |-> map]
  BY <1>1, <1>2, <1>3, <1>5 DEF Created
<1>7. u.threads = list /\ u.messages = map
  BY <1>6
<1>8. Lists(u.threads, DOMAIN u.messages)
  BY <1>2, <1>4, <1>7
<1>9. MessageLists(u.messages)
  BY <1>1, <1>4, <1>7 DEF MessageLists
<1>10. ASSUME NEW x \in DOMAIN map, NEW i \in 1..Len(map[x])
       PROVE  x \in DOMAIN messages /\ i \in 1..Len(messages[x]) /\ map[x][i] = messages[x][i]
  <2>1. x # t
    BY <1>4
  <2> QED
    BY <1>4, <2>1
<1>11. Fewer(u, s)
  BY <1>1, <1>7, <1>10 DEF Fewer
<1>12. u = [threads |-> u.threads, messages |-> u.messages]
  BY <1>6, <1>7
<1> QED
  BY <1>5, <1>8, <1>9, <1>11, <1>12, FewerSound

LEMMA WithoutStore ==
  ASSUME NEW s, NEW n, StoreSound(s, n), NEW t
  PROVE  StoreSound(Without(s, t), n) /\ Fewer(Without(s, t), s)
<1>1. PICK threads, messages :
        /\ threads = s.threads /\ messages = s.messages
        /\ messages \in [DOMAIN messages -> Seq(MessageRecords)]
        /\ DOMAIN messages \subseteq Threads
        /\ Lists(threads, DOMAIN messages)
  BY DEF StoreSound, MessageLists
<1>2. PICK list : list = Others(threads, t) /\ Lists(list, DOMAIN messages \ {t})
  BY <1>1, OthersListed
<1>3. PICK map : map = [x \in DOMAIN messages \ {t} |-> messages[x]]
  OBVIOUS
<1>4. /\ DOMAIN map = DOMAIN messages \ {t}
      /\ map \in [DOMAIN map -> Seq(MessageRecords)]
      /\ \A x \in DOMAIN map : map[x] = messages[x]
  BY <1>1, <1>3
<1>5. PICK u : u = Without(s, t)
  OBVIOUS
<1>6. u = [threads |-> list, messages |-> map]
  BY <1>1, <1>2, <1>3, <1>5 DEF Without
<1>7. u.threads = list /\ u.messages = map
  BY <1>6
<1>8. Lists(u.threads, DOMAIN u.messages)
  BY <1>2, <1>4, <1>7
<1>9. MessageLists(u.messages)
  BY <1>1, <1>4, <1>7 DEF MessageLists
<1>10. Fewer(u, s)
  BY <1>1, <1>4, <1>7 DEF Fewer
<1>11. u = [threads |-> u.threads, messages |-> u.messages]
  BY <1>6, <1>7
<1> QED
  BY <1>5, <1>8, <1>9, <1>10, <1>11, FewerSound

LEMMA GrownSound ==
  ASSUME NEW s, NEW n \in Nat, StoreSound(s, n), NEW m \in Nat, m >= n
  PROVE  StoreSound(s, m)
<1>1. \A i \in 1..n : i \in 1..m
  OBVIOUS
<1>2. \A t \in DOMAIN s.messages : \A i \in 1..Len(s.messages[t]) : s.messages[t][i].id \in 1..m
  BY <1>1 DEF StoreSound
<1> QED
  BY <1>2 DEF StoreSound

(* A store is settled once it is written.                                    *)
LEMMA Written ==
  ASSUME NEW s, NEW ts
  PROVE  Settled(s, s, ts)
BY DEF Settled

LEMMA NoTurns ==
  ASSUME NEW s, NEW x
  PROVE  TurnsFit(s, <<>>) /\ TurnsSound(<<>>, x)
<1>1. PICK ts : ts = <<>>
  OBVIOUS
<1>2. DOMAIN ts = {} /\ ts \in [DOMAIN ts -> TurnRecords]
  BY <1>1
<1>3. TurnsFit(s, ts) /\ TurnsSound(ts, x)
  BY <1>2 DEF TurnsFit, TurnsSound
<1> QED
  BY <1>1, <1>3

LEMMA Larger ==
  ASSUME NEW a \in Nat, NEW b \in Nat
  PROVE  /\ Max({a, b}) \in Nat /\ Max({a, b}) >= a /\ Max({a, b}) >= b
         /\ Max({a, b}) \in {a, b}
<1>1. \E x \in {a, b} : \A y \in {a, b} : x >= y
  <2>1. CASE a >= b
    BY <2>1
  <2>2. CASE b >= a
    BY <2>2
  <2> QED
    BY <2>1, <2>2
<1>2. Max({a, b}) \in {a, b} /\ \A y \in {a, b} : Max({a, b}) >= y
  BY <1>1 DEF Max
<1> QED
  BY <1>2

-----------------------------------------------------------------------------
(* The turns work on the same messages as before.                            *)
SameWork(new, old) ==
  /\ DOMAIN new = DOMAIN old /\ new \in [DOMAIN new -> TurnRecords]
  /\ \A k \in DOMAIN old :
       /\ new[k].thread = old[k].thread /\ new[k].msg = old[k].msg
       /\ Writes(old[k]) => Writes(new[k])

LEMMA SameSound ==
  ASSUME NEW new, NEW old, SameWork(new, old), NEW x, TurnsSound(old, x)
  PROVE  TurnsSound(new, x)
BY DEF SameWork, TurnsSound

LEMMA SameFits ==
  ASSUME NEW new, NEW old, SameWork(new, old), NEW s, TurnsFit(s, old)
  PROVE  TurnsFit(s, new)
BY DEF SameWork, TurnsFit, WorkedOn

LEMMA SameRegistered ==
  ASSUME NEW new, NEW old, SameWork(new, old), NEW act, Registered(act, old)
  PROVE  Registered(act, new)
BY DEF SameWork, Registered

LEMMA SameSettled ==
  ASSUME NEW new, NEW old, SameWork(new, old), NEW s, NEW d, Settled(s, d, old)
  PROVE  Settled(s, d, new)
BY DEF SameWork, Settled

LEMMA StoppedWork ==
  ASSUME AgentInv, NEW ts, Abort(ts)
  PROVE  SameWork(turns', turns)
<1>1. turns \in [DOMAIN turns -> TurnRecords]
  BY DEF AgentInv, TurnsSound
<1>2. DOMAIN turns' = DOMAIN turns
  BY DEF Abort
<1>3. ASSUME NEW k \in DOMAIN turns
      PROVE  /\ turns'[k] \in TurnRecords /\ turns'[k].thread = turns[k].thread
             /\ turns'[k].msg = turns[k].msg /\ turns'[k].pc = turns[k].pc
  <2>1. turns'[k] = [turns[k] EXCEPT !.aborted = turns[k].aborted \/ k \in {active[t] : t \in ts}]
    BY DEF Abort
  <2>2. PICK r \in TurnRecords : r = turns[k]
    BY <1>1
  <2>3. PICK b \in BOOLEAN : b = (r.aborted \/ k \in {active[t] : t \in ts})
    OBVIOUS
  <2>4. turns'[k] = [r EXCEPT !.aborted = b]
    BY <2>1, <2>2, <2>3
  <2> QED
    BY <2>2, <2>4 DEF TurnRecords
<1>4. turns' \in [DOMAIN turns -> TurnRecords]
  <2>1. turns' = [k \in DOMAIN turns |-> turns'[k]]
    BY DEF Abort
  <2> QED
    BY <1>3, <2>1
<1> QED
  BY <1>2, <1>3, <1>4 DEF SameWork, Writes

LEMMA MovedWork ==
  ASSUME AgentInv, NEW k \in DOMAIN turns, NEW label \in {"stream", "call", "lost"}, Goes(k, label),
         Writes(turns[k]) => label # "lost"
  PROVE  SameWork(turns', turns) /\ turns'[k].pc = label
<1>1. turns \in [DOMAIN turns -> TurnRecords]
  BY DEF AgentInv, TurnsSound
<1>2. PICK r \in TurnRecords : r = [turns[k] EXCEPT !.pc = label]
                               /\ r.thread = turns[k].thread /\ r.msg = turns[k].msg /\ r.pc = label
  <2>1. PICK x \in TurnRecords : x = turns[k]
    BY <1>1
  <2>2. PICK y : y = [x EXCEPT !.pc = label]
    OBVIOUS
  <2>3. y \in TurnRecords /\ y.thread = x.thread /\ y.msg = x.msg /\ y.pc = label
    BY <2>2 DEF TurnRecords
  <2> QED
    BY <2>1, <2>2, <2>3
<1>3. turns' = [turns EXCEPT ![k] = r]
  BY <1>1, <1>2 DEF Goes
<1>4. /\ DOMAIN turns' = DOMAIN turns /\ turns' \in [DOMAIN turns -> TurnRecords]
      /\ \A j \in DOMAIN turns : turns'[j] = IF j = k THEN r ELSE turns[j]
  BY <1>1, <1>3
<1> QED
  BY <1>2, <1>4 DEF SameWork, Writes

-----------------------------------------------------------------------------
(* runAgentTurn up to its first await, on a store with a message id that is  *)
(* blank and that nobody works on.                                           *)
ReadyFor(s, t, id) ==
  \A x \in DOMAIN s.messages : \A i \in 1..Len(s.messages[x]) :
    s.messages[x][i].id = id => /\ x = t /\ s.messages[x][i].text = <<>>
                                /\ s.messages[x][i].error = FALSE

NobodyOn(id, ts) == \A k \in DOMAIN ts : ts[k].msg # id

LEMMA FinalizedStore ==
  ASSUME NEW s, NEW n, StoreSound(s, n), NEW t, NEW id, NEW failed \in BOOLEAN,
         NEW ts, TurnsFit(s, ts), NobodyOn(id, ts)
  PROVE  StoreSound(Finalized(s, t, id, failed), n) /\ TurnsFit(Finalized(s, t, id, failed), ts)
<1>1. CASE failed = FALSE
  BY <1>1 DEF Finalized
<1>2. CASE failed = TRUE
  <2>1. PICK r : r = WithError(MessagesOf(s, t), id)
    OBVIOUS
  <2>2. PICK u : u = Updated(s, t, r) /\ UpdatedTo(u, s, t, r)
    BY UpdatedFields
  <2>3. Finalized(s, t, id, failed) = u
    BY <1>2, <2>1, <2>2 DEF Finalized
  <2>4. ASSUME t \in DOMAIN s.messages
        PROVE  /\ SameBut(r, s.messages[t], id)
               /\ \A i \in 1..Len(r) : r[i].id = id => OneWriter(r[i])
    <3>1. PICK list \in Seq(MessageRecords) : list = s.messages[t] /\ r = WithError(list, id)
      BY <2>1, <2>4 DEF StoreSound, MessageLists, MessagesOf
    <3>2. /\ SameBut(r, list, id)
          /\ \A i \in 1..Len(list) : list[i].id = id => r[i] = [list[i] EXCEPT !.error = TRUE]
      BY <3>1, ErrorSet
    <3>3. ASSUME NEW i \in 1..Len(r), r[i].id = id PROVE OneWriter(r[i])
      <4>1. i \in 1..Len(list) /\ list[i].id = id
        BY <3>2, <3>3 DEF SameBut
      <4>2. PICK m \in MessageRecords : m = list[i] /\ OneWriter(m)
        BY <2>4, <3>1, <4>1 DEF StoreSound
      <4>3. r[i] = [m EXCEPT !.error = TRUE]
        BY <3>2, <4>1, <4>2
      <4>4. r[i].text = m.text
        BY <4>3 DEF MessageRecords
      <4> QED
        BY <4>2, <4>4 DEF OneWriter
    <3> QED
      BY <3>1, <3>2, <3>3
  <2>5. StoreSound(u, n)
    BY <2>2, <2>4, UpdatedSound
  <2>6. \A k \in DOMAIN ts : \A i \in 1..Len(r) :
          r[i].id = id /\ ts[k].msg = id => WorkedOn(r[i], k, ts[k], t)
    BY DEF NobodyOn
  <2>7. TurnsFit(u, ts)
    BY <2>2, <2>4, <2>6, UpdatedFits
  <2> QED
    BY <2>3, <2>5, <2>7
<1> QED
  BY <1>1, <1>2

LEMMA TurnBegun ==
  ASSUME AgentInv, UNCHANGED active,
         NEW s, NEW t \in Threads, NEW id \in Nat \ {0}, NEW news, BeginTurn(s, t, id, news),
         StoreSound(s, Max({ids.msg, id})), TurnsFit(s, turns),
         ReadyFor(s, t, id), NobodyOn(id, turns)
  PROVE  AgentInv'
<1> DEFINE k == ids.turn + 1
           n == Max({ids.msg, id})
           rec == [thread |-> t, msg |-> id, pc |-> "tools", aborted |-> FALSE]
<1>1. /\ ids \in [turn : Nat, msg : Nat] /\ TurnsSound(turns, ids)
      /\ active \in [Threads -> Nat] /\ Registered(active, turns)
  BY DEF AgentInv
<1>2. n \in Nat /\ n >= ids.msg /\ n >= id
  BY <1>1, Larger
<1>3. CASE AgentOf[t] \in agents
  <2>1. /\ turns' = Put(turns, k, rec) /\ ids' = [turn |-> k, msg |-> n]
        /\ store' = s /\ saved' = s
    BY <1>3 DEF BeginTurn, Persist
  <2>2. k \in Nat /\ k \in 1..k /\ k \notin 1..ids.turn /\ 1..ids.turn \subseteq 1..k /\ k # NoTurn
    BY <1>1 DEF NoTurn
  <2>3. id \in 1..n /\ 1..ids.msg \subseteq 1..n
    BY <1>1, <1>2
  <2>4. rec \in TurnRecords
    BY DEF TurnRecords
  <2>5. rec.thread = t /\ rec.msg = id
    OBVIOUS
  <2> HIDE DEF rec, k, n
  <2>6. ids'.turn = k /\ ids'.msg = n /\ ids' \in [turn : Nat, msg : Nat]
    BY <1>2, <2>1, <2>2
  <2>7. /\ DOMAIN turns \subseteq 1..ids.turn /\ turns \in [DOMAIN turns -> TurnRecords]
        /\ \A j \in DOMAIN turns : turns[j].msg \in 1..ids.msg
        /\ \A j, i \in DOMAIN turns : turns[j].msg = turns[i].msg => j = i
    BY <1>1 DEF TurnsSound
  <2>8. /\ DOMAIN turns' = DOMAIN turns \cup {k}
        /\ turns' \in [DOMAIN turns' -> TurnRecords]
        /\ turns'[k] = rec /\ \A j \in DOMAIN turns : turns'[j] = turns[j]
    <3>1. k \notin DOMAIN turns
      BY <2>2, <2>7
    <3> QED
      BY <2>1, <2>4, <2>7, <3>1 DEF Put
  <2>9. TurnsSound(turns, ids)'
    <3>1. DOMAIN turns' \subseteq 1..k
      BY <2>2, <2>7, <2>8
    <3>2. \A j \in DOMAIN turns' : turns'[j].msg \in 1..n
      BY <2>3, <2>5, <2>7, <2>8
    <3>3. \A j, i \in DOMAIN turns' : turns'[j].msg = turns'[i].msg => j = i
      BY <2>5, <2>7, <2>8 DEF NobodyOn
    <3> QED
      BY <2>6, <2>8, <3>1, <3>2, <3>3 DEF TurnsSound
  <2>10. TurnsFit(s, turns')
    <3>1. ASSUME NEW j \in DOMAIN turns', NEW x \in DOMAIN s.messages,
                 NEW i \in 1..Len(s.messages[x]), s.messages[x][i].id = turns'[j].msg
          PROVE  WorkedOn(s.messages[x][i], j, turns'[j], x)
      <4>1. CASE j = k
        <5>1. /\ s.messages[x][i].id = id /\ turns'[j].thread = t
          BY <2>5, <2>8, <3>1, <4>1
        <5>2. x = t /\ s.messages[x][i].text = <<>> /\ s.messages[x][i].error = FALSE
          BY <5>1 DEF ReadyFor
        <5> QED
          BY <5>1, <5>2 DEF WorkedOn
      <4>2. CASE j # k
        <5>1. j \in DOMAIN turns /\ turns'[j] = turns[j]
          BY <2>8, <4>2
        <5> QED
          BY <3>1, <5>1 DEF TurnsFit
      <4> QED
        BY <4>1, <4>2
    <3> QED
      BY <3>1 DEF TurnsFit
  <2>11. Registered(active, turns)'
    <3>1. active' = active
      OBVIOUS
    <3> QED
      BY <1>1, <2>8, <3>1 DEF Registered
  <2>12. StoreSound(store, ids.msg)' /\ StoreSound(saved, ids.msg)'
    BY <2>1, <2>6 DEF n
  <2>13. TurnsFit(store, turns)'
    BY <2>1, <2>10
  <2>14. Settled(store, saved, turns)'
    BY <2>1, Written
  <2>15. (active \in [Threads -> Nat])'
    BY <1>1
  <2> QED
    BY <2>6, <2>9, <2>11, <2>12, <2>13, <2>14, <2>15 DEF AgentInv
<1>4. CASE AgentOf[t] \notin agents
  <2>1. /\ turns' = turns /\ ids' = [ids EXCEPT !.msg = n]
        /\ store' = Finalized(s, t, id, TRUE) /\ saved' = store'
    BY <1>4 DEF BeginTurn, Persist
  <2> HIDE DEF rec, k
  <2>2. StoreSound(s, n)
    OBVIOUS
  <2> HIDE DEF n
  <2>3. ids'.turn = ids.turn /\ ids'.msg = n /\ ids' \in [turn : Nat, msg : Nat]
    BY <1>1, <1>2, <2>1
  <2>4. StoreSound(store', n) /\ TurnsFit(store', turns)
    BY <2>1, <2>2, FinalizedStore
  <2>5. TurnsSound(turns, ids)'
    <3>1. 1..ids.msg \subseteq 1..n
      BY <1>1, <1>2
    <3> QED
      BY <1>1, <2>1, <2>3, <3>1 DEF TurnsSound
  <2>6. Registered(active, turns)' /\ (active \in [Threads -> Nat])'
    BY <1>1, <2>1
  <2>7. StoreSound(store, ids.msg)' /\ StoreSound(saved, ids.msg)'
    BY <2>1, <2>3, <2>4
  <2>8. TurnsFit(store, turns)'
    BY <2>1, <2>4
  <2>9. Settled(store, saved, turns)'
    BY <2>1, Written
  <2> QED
    BY <2>3, <2>5, <2>6, <2>7, <2>8, <2>9 DEF AgentInv
<1> QED
  BY <1>3, <1>4

-----------------------------------------------------------------------------
LEMMA AgentUnchanged ==
  ASSUME AgentInv, UNCHANGED <<store, saved, turns, active, ids>>
  PROVE  AgentInv'
BY DEF AgentInv, StoreSound, Lists, MessageLists, OneWriter, TurnsSound, TurnsFit, WorkedOn,
       Registered, Settled

(* Every thread that ts is about is stopped, and a store with fewer messages *)
(* is written.                                                               *)
LEMMA Cleared ==
  ASSUME AgentInv, NEW ts, Abort(ts), NEW s, Persist(s), StoreSound(s, ids.msg), Fewer(s, store),
         active' \in [Threads -> Nat], \A t \in Threads : active'[t] \in {active[t], NoTurn},
         UNCHANGED ids
  PROVE  AgentInv'
<1>1. SameWork(turns', turns)
  BY StoppedWork
<1>2. store' = s /\ saved' = s /\ ids' = ids
  BY DEF Persist
<1>3. TurnsSound(turns, ids)'
  <2>1. TurnsSound(turns', ids)
    BY <1>1, SameSound DEF AgentInv
  <2> QED
    BY <1>2, <2>1
<1>4. TurnsFit(store, turns)'
  <2>1. TurnsFit(s, turns)
    BY FewerFits DEF AgentInv
  <2>2. TurnsFit(s, turns')
    BY <1>1, <2>1, SameFits
  <2> QED
    BY <1>2, <2>2
<1>5. Registered(active, turns)'
  <2>1. Registered(active, turns')
    BY <1>1, SameRegistered DEF AgentInv
  <2> QED
    BY <2>1 DEF Registered
<1>6. Settled(store, saved, turns)'
  BY <1>2, Written
<1>7. StoreSound(store, ids.msg)' /\ StoreSound(saved, ids.msg)'
  BY <1>2
<1>8. (ids \in [turn : Nat, msg : Nat])'
  BY <1>2 DEF AgentInv
<1> QED
  BY <1>3, <1>4, <1>5, <1>6, <1>7, <1>8 DEF AgentInv

LEMMA CreateKeeps ==
  ASSUME AgentInv, NEW t \in Threads, HandleCreate(t)
  PROVE  AgentInv'
<1>1. PICK s : s = Created(store, t) /\ StoreSound(s, ids.msg) /\ Fewer(s, store)
  BY CreatedStore DEF AgentInv
<1>2. store' = s /\ saved' = s /\ UNCHANGED <<turns, active, ids>>
  BY <1>1 DEF HandleCreate, Persist
<1>3. StoreSound(store, ids.msg)' /\ StoreSound(saved, ids.msg)'
  BY <1>1, <1>2
<1>4. TurnsFit(store, turns)'
  <2>1. TurnsFit(s, turns)
    BY <1>1, FewerFits DEF AgentInv
  <2> QED
    BY <1>2, <2>1
<1>5. Settled(store, saved, turns)'
  BY <1>2, Written
<1>6. TurnsSound(turns, ids)' /\ Registered(active, turns)'
  BY <1>2 DEF AgentInv, TurnsSound, Registered
<1>7. (ids \in [turn : Nat, msg : Nat])' /\ (active \in [Threads -> Nat])'
  BY <1>2 DEF AgentInv
<1> QED
  BY <1>3, <1>4, <1>5, <1>6, <1>7 DEF AgentInv

LEMMA DeleteKeeps ==
  ASSUME AgentInv, HandleDelete
  PROVE  AgentInv'
<1>1. PICK t : t = Head(toMain).thread
  OBVIOUS
<1>2. /\ Abort({t}) /\ active' = [active EXCEPT ![t] = NoTurn]
      /\ Persist(Without(store, t)) /\ UNCHANGED ids
  BY <1>1 DEF HandleDelete, counters
<1>3. PICK s : s = Without(store, t) /\ StoreSound(s, ids.msg) /\ Fewer(s, store)
  BY WithoutStore DEF AgentInv
<1>4. /\ active' \in [Threads -> Nat]
      /\ \A u \in Threads : active'[u] \in {active[u], NoTurn}
  BY <1>2 DEF AgentInv, NoTurn
<1> QED
  BY <1>2, <1>3, <1>4, Cleared

LEMMA ClearAllKeeps ==
  ASSUME AgentInv, ClearAll
  PROVE  AgentInv'
<1>1. /\ Abort(Threads) /\ active' = [t \in Threads |-> NoTurn]
      /\ Persist(Empty) /\ UNCHANGED ids
  BY DEF ClearAll, counters
<1>2. StoreSound(Empty, ids.msg) /\ Fewer(Empty, store)
  BY EmptyStore DEF AgentInv
<1>3. /\ active' \in [Threads -> Nat]
      /\ \A u \in Threads : active'[u] \in {active[u], NoTurn}
  BY <1>1 DEF NoTurn
<1> QED
  BY <1>1, <1>2, <1>3, Cleared

LEMMA WorkMoved ==
  ASSUME AgentInv, SameWork(turns', turns), UNCHANGED <<store, saved, ids>>,
         active' \in [Threads -> Nat], Registered(active', turns')
  PROVE  AgentInv'
<1>1. TurnsSound(turns, ids)'
  BY SameSound DEF AgentInv
<1>2. TurnsFit(store, turns)'
  BY SameFits DEF AgentInv
<1>3. Settled(store, saved, turns)'
  BY SameSettled DEF AgentInv
<1>4. StoreSound(store, ids.msg)' /\ StoreSound(saved, ids.msg)'
  BY DEF AgentInv
<1>5. Registered(active, turns)'
  OBVIOUS
<1>6. (ids \in [turn : Nat, msg : Nat])'
  BY DEF AgentInv
<1> QED
  BY <1>1, <1>2, <1>3, <1>4, <1>5, <1>6 DEF AgentInv

LEMMA StopKeeps ==
  ASSUME AgentInv, HandleStop
  PROVE  AgentInv'
<1>1. Abort({Head(toMain).thread}) /\ UNCHANGED <<store, saved, active, ids>>
  BY DEF HandleStop, counters
<1>2. SameWork(turns', turns)
  BY <1>1, StoppedWork
<1>3. Registered(active, turns')
  BY <1>2, SameRegistered DEF AgentInv
<1>4. active' \in [Threads -> Nat] /\ Registered(active', turns')
  BY <1>1, <1>3 DEF AgentInv
<1> QED
  BY <1>1, <1>2, <1>4, WorkMoved

LEMMA ToolsListedKeeps ==
  ASSUME AgentInv, NEW k \in DOMAIN turns, ToolsListed(k)
  PROVE  AgentInv'
<1>1. /\ Goes(k, "stream") /\ active' = [active EXCEPT ![turns[k].thread] = k]
      /\ UNCHANGED <<store, saved, ids>>
  BY DEF ToolsListed, counters
<1>2. SameWork(turns', turns) /\ turns'[k].pc = "stream"
  BY <1>1, MovedWork
<1>3. k \in Nat
  <2>1. DOMAIN turns \subseteq 1..ids.turn
    BY DEF AgentInv, TurnsSound
  <2> QED
    BY <2>1 DEF AgentInv
<1>4. active' \in [Threads -> Nat]
  BY <1>1, <1>3 DEF AgentInv
<1>5. Registered(active, turns')
  BY <1>2, SameRegistered DEF AgentInv
<1>6. turns'[k].thread = turns[k].thread /\ k \in DOMAIN turns'
  BY <1>2 DEF SameWork
<1>7. ASSUME NEW u \in Threads, active'[u] # NoTurn
      PROVE  active'[u] \in DOMAIN turns' /\ turns'[active'[u]].thread = u
             /\ Writes(turns'[active'[u]])
  <2>1. CASE u = turns[k].thread
    <3>1. active'[u] = k
      BY <1>1, <2>1 DEF AgentInv
    <3> QED
      BY <1>2, <1>6, <2>1, <3>1 DEF Writes
  <2>2. CASE u # turns[k].thread
    <3>1. active'[u] = active[u]
      BY <1>1, <2>2 DEF AgentInv
    <3> QED
      BY <1>5, <1>7, <3>1 DEF Registered
  <2> QED
    BY <2>1, <2>2
<1>8. Registered(active', turns')
  BY <1>7 DEF Registered
<1> QED
  BY <1>1, <1>2, <1>4, <1>8, WorkMoved

LEMMA ToolsRejectedKeeps ==
  ASSUME AgentInv, NEW k \in DOMAIN turns, ToolsRejected(k)
  PROVE  AgentInv'
<1>1. Goes(k, "lost") /\ turns[k].pc = "tools" /\ UNCHANGED <<store, saved, active, ids>>
  BY DEF ToolsRejected, At, counters
<1>2. ~Writes(turns[k])
  BY <1>1 DEF Writes
<1>3. SameWork(turns', turns)
  BY <1>1, <1>2, MovedWork
<1>4. Registered(active, turns')
  BY <1>3, SameRegistered DEF AgentInv
<1>5. active' \in [Threads -> Nat] /\ Registered(active', turns')
  BY <1>1, <1>4 DEF AgentInv
<1> QED
  BY <1>1, <1>3, <1>5, WorkMoved

LEMMA CallKeeps ==
  ASSUME AgentInv, NEW k \in DOMAIN turns, CallTool(k) \/ ToolAnswered(k)
  PROVE  AgentInv'
<1>1. PICK label \in {"stream", "call"} : Goes(k, label)
  BY DEF CallTool, ToolAnswered
<1>2. UNCHANGED <<store, saved, active, ids>>
  BY DEF CallTool, ToolAnswered, counters
<1>3. SameWork(turns', turns)
  BY <1>1, MovedWork
<1>4. Registered(active, turns')
  BY <1>3, SameRegistered DEF AgentInv
<1>5. active' \in [Threads -> Nat] /\ Registered(active', turns')
  BY <1>2, <1>4 DEF AgentInv
<1> QED
  BY <1>2, <1>3, <1>5, WorkMoved

LEMMA ChunkKeeps ==
  ASSUME AgentInv, NEW k \in DOMAIN turns, Chunk(k)
  PROVE  AgentInv'
<1>1. PICK t, id, r : /\ t = turns[k].thread /\ id = turns[k].msg
                      /\ r = WithChunk(MessagesOf(store, t), id, k)
  OBVIOUS
<1>2. store' = Updated(store, t, r) /\ UNCHANGED <<saved, turns, active, ids>>
  BY <1>1 DEF Chunk, counters
<1>3. StoreSound(store, ids.msg) /\ TurnsSound(turns, ids) /\ TurnsFit(store, turns)
  BY DEF AgentInv
<1>4. PICK u : u = store' /\ UpdatedTo(u, store, t, r)
  BY <1>2, <1>3, UpdatedFields
<1>5. k \in Nat
  <2>1. DOMAIN turns \subseteq 1..ids.turn
    BY <1>3 DEF TurnsSound
  <2> QED
    BY <2>1 DEF AgentInv
<1>6. ASSUME t \in DOMAIN store.messages
      PROVE  /\ SameBut(r, store.messages[t], id)
             /\ \A i \in 1..Len(r) : r[i].id = id => OneWriter(r[i]) /\ WorkedOn(r[i], k, turns[k], t)
  <2>1. PICK list \in Seq(MessageRecords) : list = store.messages[t] /\ r = WithChunk(list, id, k)
    BY <1>1, <1>3, <1>6 DEF StoreSound, MessageLists, MessagesOf
  <2>2. /\ SameBut(r, list, id)
        /\ \A i \in 1..Len(list) : list[i].id = id =>
             r[i] = [list[i] EXCEPT !.text = Append(list[i].text, k)]
    <3>1. ChunkIn(WithChunk(list, id, k), list, id, k)
      BY <1>5, <2>1, ChunkAdded
    <3> QED
      BY <2>1, <3>1 DEF ChunkIn
  <2>3. ASSUME NEW i \in 1..Len(r), r[i].id = id
        PROVE  OneWriter(r[i]) /\ WorkedOn(r[i], k, turns[k], t)
    <3>1. i \in 1..Len(list) /\ list[i].id = id
      BY <2>2, <2>3 DEF SameBut
    <3>2. PICK m \in MessageRecords : m = list[i] /\ WorkedOn(m, k, turns[k], t)
      BY <1>1, <1>3, <1>6, <2>1, <3>1 DEF TurnsFit
    <3>3. m.text \in Seq(Nat) /\ m.error = FALSE /\ \A j \in 1..Len(m.text) : m.text[j] = k
      BY <3>2 DEF MessageRecords, WorkedOn
    <3>4. PICK text : text = Append(m.text, k)
      OBVIOUS
    <3>5. text \in Seq(Nat) /\ \A j \in 1..Len(text) : text[j] = k
      <4>1. /\ text \in Seq(Nat) /\ Len(m.text) \in Nat /\ Len(text) = Len(m.text) + 1
            /\ \A j \in 1..Len(m.text) : text[j] = m.text[j]
            /\ text[Len(m.text) + 1] = k
        BY <1>5, <3>3, <3>4, Appended
      <4>2. PICK n \in Nat : n = Len(m.text)
        BY <4>1
      <4>3. \A j \in 1..(n + 1) : j \in 1..n \/ j = n + 1
        OBVIOUS
      <4> QED
        BY <3>3, <4>1, <4>2, <4>3
    <3>6. r[i] = [m EXCEPT !.text = text]
      BY <2>2, <3>1, <3>2, <3>4
    <3>7. r[i].text = text /\ r[i].error = FALSE
      BY <3>3, <3>6 DEF MessageRecords
    <3> QED
      BY <1>1, <3>5, <3>7 DEF OneWriter, WorkedOn
  <2> QED
    BY <2>1, <2>2, <2>3
<1>7. StoreSound(u, ids.msg)
  BY <1>3, <1>4, <1>6, UpdatedSound
<1>8. TurnsFit(u, turns)
  <2>1. ASSUME t \in DOMAIN store.messages, NEW j \in DOMAIN turns, NEW i \in 1..Len(r),
               r[i].id = id, turns[j].msg = id
        PROVE  WorkedOn(r[i], j, turns[j], t)
    <3>1. j = k
      BY <1>1, <1>3, <2>1 DEF TurnsSound
    <3> QED
      BY <1>6, <2>1, <3>1
  <2> QED
    BY <1>3, <1>4, <1>6, <2>1, UpdatedFits
<1>9. Settled(u, saved, turns)
  <2>1. Writes(turns[k])
    BY DEF Chunk, At, Writes
  <2> QED
    BY <1>1, <1>4, <1>6, <2>1, UpdatedSettled DEF AgentInv
<1>10. StoreSound(store, ids.msg)' /\ TurnsFit(store, turns)' /\ Settled(store, saved, turns)'
  BY <1>2, <1>4, <1>7, <1>8, <1>9
<1>11. StoreSound(saved, ids.msg)' /\ TurnsSound(turns, ids)' /\ Registered(active, turns)'
  BY <1>2 DEF AgentInv
<1>12. (ids \in [turn : Nat, msg : Nat])' /\ (active \in [Threads -> Nat])'
  BY <1>2 DEF AgentInv
<1> QED
  BY <1>10, <1>11, <1>12 DEF AgentInv

LEMMA EndKeeps ==
  ASSUME AgentInv, NEW k \in DOMAIN turns, NEW failed \in BOOLEAN, End(k, failed)
  PROVE  AgentInv'
<1>1. PICK t, id, left : /\ t = turns[k].thread /\ id = turns[k].msg
                         /\ left = [j \in DOMAIN turns \ {k} |-> turns[j]]
  OBVIOUS
<1>2. PICK s : s = Finalized(store, t, id, failed)
  OBVIOUS
<1>3. /\ store' = s /\ saved' = s /\ active' = [active EXCEPT ![t] = NoTurn]
      /\ turns' = left /\ ids' = ids
  BY <1>1, <1>2 DEF End, SaveAlways, NoEntry, counters
<1>4. StoreSound(store, ids.msg) /\ TurnsSound(turns, ids) /\ TurnsFit(store, turns)
  BY DEF AgentInv
<1>5. DOMAIN left = DOMAIN turns \ {k} /\ \A j \in DOMAIN left : left[j] = turns[j]
  BY <1>1
<1>6. NobodyOn(id, left)
  BY <1>1, <1>4, <1>5 DEF TurnsSound, NobodyOn
<1>7. TurnsFit(store, left)
  BY <1>4, <1>5 DEF TurnsFit
<1>8. StoreSound(s, ids.msg) /\ TurnsFit(s, left)
  BY <1>2, <1>4, <1>6, <1>7, FinalizedStore
<1>9. TurnsSound(left, ids)
  <2>1. left \in [DOMAIN left -> TurnRecords]
    BY <1>1, <1>4 DEF TurnsSound
  <2> QED
    BY <1>4, <1>5, <2>1 DEF TurnsSound
<1>10. active' \in [Threads -> Nat]
  BY <1>3 DEF AgentInv, NoTurn
<1>11. ASSUME NEW u \in Threads, active'[u] # NoTurn
       PROVE  active'[u] \in DOMAIN left /\ left[active'[u]].thread = u
              /\ Writes(left[active'[u]])
  <2>1. u # t /\ active'[u] = active[u]
    BY <1>3, <1>11 DEF AgentInv
  <2>2. active[u] \in DOMAIN turns /\ turns[active[u]].thread = u /\ Writes(turns[active[u]])
    BY <1>11, <2>1 DEF AgentInv, Registered
  <2>3. active[u] # k
    BY <1>1, <2>1, <2>2
  <2> QED
    BY <1>5, <2>1, <2>2, <2>3
<1>12. Registered(active, turns)'
  BY <1>3, <1>11 DEF Registered
<1>13. StoreSound(store, ids.msg)' /\ StoreSound(saved, ids.msg)' /\ TurnsFit(store, turns)'
       /\ TurnsSound(turns, ids)'
  BY <1>3, <1>8, <1>9
<1>14. Settled(store, saved, turns)'
  BY <1>3, Written
<1>15. (ids \in [turn : Nat, msg : Nat])'
  BY <1>3 DEF AgentInv
<1> QED
  BY <1>10, <1>12, <1>13, <1>14, <1>15 DEF AgentInv

LEMMA SendKeeps ==
  ASSUME AgentInv, HandleSend
  PROVE  AgentInv'
<1>0. PICK t : t = Head(toMain).thread
  OBVIOUS
<1>1. PICK n \in Nat : n = ids.msg /\ t = Head(toMain).thread
  BY <1>0 DEF AgentInv
<1>2. PICK question, reply, asked, s :
        /\ question = Message(n + 1, "user") /\ reply = Message(n + 2, "assistant")
        /\ asked = Added(store, t, question) /\ s = Added(asked, t, reply)
  OBVIOUS
<1>3. UNCHANGED active
  BY DEF HandleSend
<1>4. CASE t \notin ToSet(store.threads)
  <2>1. UNCHANGED <<store, saved, turns, ids>>
    BY <1>1, <1>4 DEF HandleSend
  <2> QED
    BY <1>3, <2>1, AgentUnchanged
<1>5. CASE t \in ToSet(store.threads)
  <2>1. /\ question \in MessageRecords /\ question.id = n + 1 /\ question.text = <<>>
        /\ reply \in MessageRecords /\ reply.id = n + 2 /\ reply.text = <<>> /\ reply.error = FALSE
    <3>1. <<>> \in Seq(Nat) /\ n + 1 \in Nat /\ n + 2 \in Nat
      OBVIOUS
    <3> QED
      BY <1>2, <3>1 DEF Message, MessageRecords
  <2>2. PICK news : BeginTurn(s, t, reply.id, news)
    BY <1>1, <1>2, <1>5 DEF HandleSend
  <2>3. StoreSound(store, n) /\ TurnsFit(store, turns) /\ TurnsSound(turns, ids)
    BY <1>1 DEF AgentInv
  <2>4. t \in DOMAIN store.messages /\ t \in Threads
    <3>1. /\ store.threads \in Seq(Threads) /\ DOMAIN store.messages \subseteq Threads
          /\ {store.threads[i] : i \in 1..Len(store.threads)} = DOMAIN store.messages
      BY <2>3 DEF StoreSound, Lists, MessageLists
    <3>2. DOMAIN store.threads = 1..Len(store.threads)
      BY <3>1, LenProperties
    <3>3. t \in {store.threads[i] : i \in 1..Len(store.threads)}
      BY <1>5, <3>2 DEF ToSet
    <3> QED
      BY <3>1, <3>3
  <2>5. StoreSound(asked, n + 1) /\ AddedTo(asked, store, t, question)
    BY <1>2, <2>1, <2>3, <2>4, AddedSound
  <2>6. t \in DOMAIN asked.messages
    BY <2>4, <2>5 DEF AddedTo
  <2>7. PICK a \in Nat : a = n + 1 /\ reply.id = a + 1 /\ a + 1 = n + 2
    BY <2>1
  <2>8. StoreSound(s, a + 1) /\ AddedTo(s, asked, t, reply)
    BY <1>2, <2>1, <2>5, <2>6, <2>7, AddedSound
  <2>9. Max({ids.msg, reply.id}) = a + 1
    <3>1. PICK b \in Nat : b = reply.id /\ b = n + 2
      BY <2>1
    <3>2. Max({n, b}) = b
      BY <3>1, Larger
    <3> QED
      BY <1>1, <2>7, <3>1, <3>2
  <2>10. ASSUME NEW x \in DOMAIN s.messages, NEW i \in 1..Len(s.messages[x])
         PROVE  \/ /\ x \in DOMAIN store.messages /\ i \in 1..Len(store.messages[x])
                   /\ s.messages[x][i] = store.messages[x][i]
                \/ x = t /\ s.messages[x][i] = question
                \/ x = t /\ s.messages[x][i] = reply
    <3>1. store.messages[t] \in Seq(MessageRecords) /\ asked.messages[t] \in Seq(MessageRecords)
      BY <2>3, <2>4, <2>5, <2>6 DEF StoreSound, MessageLists
    <3>2. CASE x # t
      BY <2>5, <2>8, <3>2 DEF AddedTo
    <3>3. CASE x = t
      <4>1. /\ asked.messages[t] = Append(store.messages[t], question)
            /\ s.messages[t] = Append(asked.messages[t], reply)
        BY <2>4, <2>5, <2>6, <2>8 DEF AddedTo
      <4>2. /\ i \in 1..Len(asked.messages[t]) /\ s.messages[t][i] = asked.messages[t][i]
            \/ s.messages[t][i] = reply
        BY <2>1, <3>1, <3>3, <4>1, Appended
      <4>3. \A j \in 1..Len(asked.messages[t]) :
              \/ j \in 1..Len(store.messages[t]) /\ asked.messages[t][j] = store.messages[t][j]
              \/ asked.messages[t][j] = question
        BY <2>1, <3>1, <4>1, Appended
      <4> QED
        BY <2>4, <3>3, <4>2, <4>3
    <3> QED
      BY <3>2, <3>3
  <2>11. NobodyOn(n + 1, turns) /\ NobodyOn(n + 2, turns)
    <3>1. \A k \in DOMAIN turns : turns[k].msg \in 1..n
      BY <1>1, <2>3 DEF TurnsSound
    <3>2. n + 1 \notin 1..n /\ n + 2 \notin 1..n
      OBVIOUS
    <3> QED
      BY <3>1, <3>2 DEF NobodyOn
  <2>12. TurnsFit(s, turns)
    <3>1. ASSUME NEW k \in DOMAIN turns, NEW x \in DOMAIN s.messages, NEW i \in 1..Len(s.messages[x]),
                 s.messages[x][i].id = turns[k].msg
          PROVE  WorkedOn(s.messages[x][i], k, turns[k], x)
      <4>1. s.messages[x][i] # question /\ s.messages[x][i] # reply
        BY <2>1, <2>11, <3>1 DEF NobodyOn
      <4>2. /\ x \in DOMAIN store.messages /\ i \in 1..Len(store.messages[x])
            /\ s.messages[x][i] = store.messages[x][i]
        BY <2>10, <4>1
      <4> QED
        BY <2>3, <3>1, <4>2 DEF TurnsFit
    <3> QED
      BY <3>1 DEF TurnsFit
  <2>13. ReadyFor(s, t, n + 2)
    <3>1. ASSUME NEW x \in DOMAIN s.messages, NEW i \in 1..Len(s.messages[x]),
                 s.messages[x][i].id = n + 2
          PROVE  x = t /\ s.messages[x][i].text = <<>> /\ s.messages[x][i].error = FALSE
      <4>1. n + 2 \notin 1..n /\ n + 2 # n + 1
        OBVIOUS
      <4>2. s.messages[x][i] # question
        BY <2>1, <3>1, <4>1
      <4>3. ~(x \in DOMAIN store.messages /\ i \in 1..Len(store.messages[x])
              /\ s.messages[x][i] = store.messages[x][i])
        BY <2>3, <3>1, <4>1 DEF StoreSound
      <4>4. x = t /\ s.messages[x][i] = reply
        BY <2>10, <4>2, <4>3
      <4> QED
        BY <2>1, <4>4
    <3> QED
      BY <3>1 DEF ReadyFor
  <2>14. PICK id \in Nat \ {0} : id = reply.id /\ id = n + 2
    BY <2>1
  <2>15. StoreSound(s, Max({ids.msg, id}))
    BY <2>8, <2>9, <2>14
  <2>16. BeginTurn(s, t, id, news) /\ ReadyFor(s, t, id) /\ NobodyOn(id, turns)
    BY <2>2, <2>11, <2>13, <2>14
  <2> QED
    BY <1>3, <2>4, <2>12, <2>15, <2>16, TurnBegun
<1> QED
  BY <1>4, <1>5

(* A message that may be retried is nobody's, and is blank afterwards.       *)
LEMMA RetriedStore ==
  ASSUME AgentInv, NEW t, NEW id, Retriable(t, id), NEW n, n = ids.msg,
         NEW r, r = Blank(store.messages[t], id), NEW s, s = Updated(store, t, r)
  PROVE  /\ t \in DOMAIN store.messages /\ t \in Threads /\ id \in 1..n /\ NobodyOn(id, turns)
         /\ SameBut(r, store.messages[t], id)
         /\ \A j \in 1..Len(r) : r[j].id = id => r[j].text = <<>> /\ r[j].error = FALSE
         /\ UpdatedTo(s, store, t, r) /\ StoreSound(s, n) /\ ReadyFor(s, t, id)
<1>1. StoreSound(store, n) /\ TurnsFit(store, turns)
  BY DEF AgentInv
<1>2. PICK list : list = MessagesOf(store, t)
  OBVIOUS
<1>3. PICK i \in DOMAIN list : list[i].id = id /\ list[i].error
  BY <1>2 DEF Retriable
<1>4. t \in DOMAIN store.messages /\ list = store.messages[t]
  BY <1>2, <1>3 DEF MessagesOf
<1>5. list \in Seq(MessageRecords) /\ t \in Threads
  BY <1>1, <1>4 DEF StoreSound, MessageLists
<1>6. i \in 1..Len(list) /\ list[i] \in MessageRecords
  BY <1>3, <1>5, LenProperties
<1>7. list[i].error = TRUE
  BY <1>3, <1>6 DEF MessageRecords
<1>8. id \in 1..n
  BY <1>1, <1>3, <1>4, <1>6 DEF StoreSound
<1>9. NobodyOn(id, turns)
  <2>1. ASSUME NEW k \in DOMAIN turns, turns[k].msg = id PROVE FALSE
    <3>1. WorkedOn(store.messages[t][i], k, turns[k], t)
      BY <1>1, <1>3, <1>4, <1>6, <2>1 DEF TurnsFit
    <3> QED
      BY <1>4, <1>7, <3>1 DEF WorkedOn
  <2> QED
    BY <2>1 DEF NobodyOn
<1>10. /\ SameBut(r, list, id)
       /\ \A j \in 1..Len(list) : list[j].id = id => r[j].text = <<>> /\ r[j].error = FALSE
  <2>1. /\ SameBut(Blank(list, id), list, id)
        /\ \A j \in 1..Len(list) : list[j].id = id =>
             Blank(list, id)[j].text = <<>> /\ Blank(list, id)[j].error = FALSE
    BY <1>5, Blanked
  <2>2. r = Blank(list, id)
    BY <1>4
  <2> QED
    BY <2>1, <2>2, Zenon
<1>11. UpdatedTo(s, store, t, r)
  BY <1>1, UpdatedFields
<1>12. ASSUME NEW j \in 1..Len(r), r[j].id = id
       PROVE  r[j].text = <<>> /\ r[j].error = FALSE
  <2>1. j \in 1..Len(list) /\ list[j].id = id
    BY <1>10, <1>12 DEF SameBut
  <2> QED
    BY <1>10, <2>1
<1>13. \A j \in 1..Len(r) : r[j].id = id => OneWriter(r[j])
  <2>1. ASSUME NEW j \in 1..Len(r), r[j].id = id PROVE OneWriter(r[j])
    <3>1. PICK text : text = r[j].text /\ text = <<>>
      BY <1>12, <2>1
    <3>2. \A x, y \in 1..Len(text) : text[x] = text[y]
      BY <3>1
    <3> QED
      BY <3>1, <3>2 DEF OneWriter
  <2> QED
    BY <2>1
<1>14. StoreSound(s, n)
  BY <1>1, <1>4, <1>10, <1>11, <1>13, UpdatedSound
<1>15. ReadyFor(s, t, id)
  <2>1. ASSUME NEW x \in DOMAIN s.messages, NEW j \in 1..Len(s.messages[x]),
               s.messages[x][j].id = id
        PROVE  x = t /\ s.messages[x][j].text = <<>> /\ s.messages[x][j].error = FALSE
    <3>1. s.messages[t] = r /\ t \in DOMAIN s.messages
      BY <1>4, <1>11 DEF UpdatedTo
    <3>2. i \in 1..Len(r) /\ r[i].id = id
      BY <1>3, <1>6, <1>10 DEF SameBut
    <3>3. x = t
      BY <1>14, <2>1, <3>1, <3>2 DEF StoreSound
    <3> QED
      BY <1>12, <2>1, <3>1, <3>3
  <2> QED
    BY <2>1 DEF ReadyFor
<1>16. SameBut(r, store.messages[t], id)
  BY <1>4, <1>10
<1> QED
  BY <1>4, <1>5, <1>8, <1>9, <1>11, <1>12, <1>14, <1>15, <1>16

LEMMA RetryKeeps ==
  ASSUME AgentInv, HandleRetry
  PROVE  AgentInv'
<1>1. PICK t, id : t = Head(toMain).thread /\ id = Head(toMain).body
  OBVIOUS
<1>2. UNCHANGED active
  BY DEF HandleRetry
<1>3. CASE ~(t \in ToSet(store.threads) /\ Retriable(t, id))
  <2>1. UNCHANGED <<store, saved, turns, ids>>
    BY <1>1, <1>3 DEF HandleRetry
  <2> QED
    BY <1>2, <2>1, AgentUnchanged
<1>4. CASE t \in ToSet(store.threads) /\ Retriable(t, id)
  <2>1. PICK n \in Nat : n = ids.msg
    BY DEF AgentInv
  <2>2. TurnsFit(store, turns)
    BY DEF AgentInv
  <2>3. PICK r, s : r = Blank(store.messages[t], id) /\ s = Updated(store, t, r)
    OBVIOUS
  <2>4. /\ t \in DOMAIN store.messages /\ t \in Threads /\ id \in 1..n /\ NobodyOn(id, turns)
        /\ SameBut(r, store.messages[t], id)
        /\ UpdatedTo(s, store, t, r) /\ StoreSound(s, n) /\ ReadyFor(s, t, id)
    BY <1>4, <2>1, <2>3, RetriedStore
  <2>5. PICK news : BeginTurn(s, t, id, news)
    BY <1>1, <1>4, <2>3 DEF HandleRetry
  <2>6. Max({ids.msg, id}) = n
    <3>1. id \in Nat /\ id <= n
      BY <2>4
    <3> QED
      BY <2>1, <3>1, Larger
  <2>7. TurnsFit(s, turns)
    <3>1. \A k \in DOMAIN turns : \A j \in 1..Len(r) :
            r[j].id = id /\ turns[k].msg = id => WorkedOn(r[j], k, turns[k], t)
      BY <2>4 DEF NobodyOn
    <3> QED
      BY <2>2, <2>4, <3>1, UpdatedFits
  <2>8. id \in Nat \ {0} /\ StoreSound(s, Max({ids.msg, id}))
    BY <2>4, <2>6
  <2> QED
    BY <1>2, <2>4, <2>5, <2>7, <2>8, TurnBegun
<1> QED
  BY <1>3, <1>4

LEMMA CrashKeeps ==
  ASSUME AgentInv, Crash
  PROVE  AgentInv'
<1>1. PICK s \in {saved, Empty} : store' = s /\ saved' = s
  BY DEF Crash, Persist
<1>2. turns' = <<>> /\ active' = [t \in Threads |-> NoTurn] /\ ids' = ids
  BY DEF Crash, counters
<1>3. StoreSound(saved, ids.msg)
  BY DEF AgentInv
<1>4. StoreSound(s, ids.msg)
  BY <1>3, EmptyStore
<1>5. StoreSound(store, ids.msg)' /\ StoreSound(saved, ids.msg)'
  BY <1>1, <1>2, <1>4
<1>6. TurnsSound(turns, ids)' /\ TurnsFit(store, turns)'
  BY <1>2, NoTurns
<1>7. Settled(store, saved, turns)'
  BY <1>1, Written
<1>8. Registered(active, turns)' /\ (active \in [Threads -> Nat])'
  BY <1>2 DEF Registered, NoTurn
<1>9. (ids \in [turn : Nat, msg : Nat])'
  BY <1>2 DEF AgentInv
<1> QED
  BY <1>5, <1>6, <1>7, <1>8, <1>9 DEF AgentInv

LEMMA AgentStarts == AgentInit => AgentInv
<1> SUFFICES ASSUME AgentInit PROVE AgentInv
  OBVIOUS
<1>1. /\ store = Empty /\ saved = Empty /\ turns = <<>>
      /\ active = [t \in Threads |-> NoTurn] /\ ids = [turn |-> NoTurn, msg |-> NoMsg]
  BY DEF AgentInit
<1>2. StoreSound(Empty, ids.msg)
  <2>1. PICK u : u = Empty
    OBVIOUS
  <2>2. /\ u = [threads |-> <<>>, messages |-> <<>>]
        /\ u.threads = <<>> /\ u.messages = <<>> /\ DOMAIN u.messages = {}
    BY <2>1 DEF Empty
  <2>3. Lists(u.threads, DOMAIN u.messages)
    BY <2>2 DEF Lists
  <2>4. MessageLists(u.messages)
    BY <2>2 DEF MessageLists
  <2>5. StoreSound(u, ids.msg)
    BY <2>2, <2>3, <2>4 DEF StoreSound
  <2> QED
    BY <2>1, <2>5
<1>3. StoreSound(store, ids.msg) /\ StoreSound(saved, ids.msg)
  BY <1>1, <1>2
<1>4. TurnsSound(turns, ids) /\ TurnsFit(store, turns)
  BY <1>1, NoTurns
<1>5. Settled(store, saved, turns)
  BY <1>1, Written
<1>6. Registered(active, turns) /\ active \in [Threads -> Nat]
  BY <1>1 DEF Registered, NoTurn
<1>7. ids \in [turn : Nat, msg : Nat]
  BY <1>1 DEF NoTurn, NoMsg
<1> QED
  BY <1>3, <1>4, <1>5, <1>6, <1>7 DEF AgentInv

LEMMA AgentStep == AgentInv /\ [AgentNext]_agentVars => AgentInv'
<1> SUFFICES ASSUME AgentInv, [AgentNext]_agentVars PROVE AgentInv'
  OBVIOUS
<1>1. CASE UNCHANGED agentVars
  <2>1. UNCHANGED <<store, saved, turns, active, ids>>
    BY <1>1 DEF agentVars, main, counters
  <2> QED
    BY <2>1, AgentUnchanged
<1>2. CASE User
  <2>1. CASE ClearAll
    BY <2>1, ClearAllKeeps
  <2>2. ASSUME NEW t \in Threads, Select(t) \/ Delete(t)
        PROVE  UNCHANGED <<store, saved, turns, active, ids>>
    BY <2>2 DEF Select, Delete, UserActs, main, counters
  <2>3. ASSUME NEW a \in Agents, NewThread(a) \/ RemoveAgent(a)
        PROVE  UNCHANGED <<store, saved, turns, active, ids>>
    BY <2>3 DEF NewThread, RemoveAgent, UserActs, main, counters
  <2>4. ASSUME NEW i \in DOMAIN panel.shown, Retry(i)
        PROVE  UNCHANGED <<store, saved, turns, active, ids>>
    BY <2>4 DEF Retry, UserActs, main, counters
  <2>5. CASE Back \/ Submit \/ PressStop \/ Reopen
    <3>1. UNCHANGED <<store, saved, turns, active, ids>>
      BY <2>5 DEF Back, Submit, PressStop, Reopen, UserActs, main, counters
    <3> QED
      BY <3>1, AgentUnchanged
  <2> QED
    BY <1>2, <2>1, <2>2, <2>3, <2>4, <2>5, AgentUnchanged DEF User
<1>3. CASE Deliver
  <2>1. UNCHANGED <<store, saved, turns, active, ids>>
    BY <1>3 DEF Deliver, main, counters
  <2> QED
    BY <2>1, AgentUnchanged
<1>4. CASE Handler
  <2>1. ASSUME NEW t \in Threads, HandleCreate(t) PROVE AgentInv'
    BY <2>1, CreateKeeps
  <2>2. CASE HandleRequestAgents \/ HandleRequestThreads \/ HandleRequestMessages
    <3>1. UNCHANGED <<store, saved, turns, active, ids>>
      BY <2>2 DEF HandleRequestAgents, HandleRequestThreads, HandleRequestMessages, main, counters
    <3> QED
      BY <3>1, AgentUnchanged
  <2>3. CASE HandleSend
    BY <2>3, SendKeeps
  <2>4. CASE HandleRetry
    BY <2>4, RetryKeeps
  <2>5. CASE HandleStop
    BY <2>5, StopKeeps
  <2>6. CASE HandleDelete
    BY <2>6, DeleteKeeps
  <2> QED
    BY <1>4, <2>1, <2>2, <2>3, <2>4, <2>5, <2>6 DEF Handler
<1>5. CASE Crash
  BY <1>5, CrashKeeps
<1>6. ASSUME NEW k \in DOMAIN turns, Turn(k) PROVE AgentInv'
  <2>1. CASE ToolsListed(k)
    BY <2>1, ToolsListedKeeps
  <2>2. CASE Chunk(k)
    BY <2>2, ChunkKeeps
  <2>3. CASE CallTool(k) \/ ToolAnswered(k)
    BY <2>3, CallKeeps
  <2>4. CASE Done(k) \/ Stopped(k)
    <3>1. End(k, FALSE)
      BY <2>4 DEF Done, Stopped
    <3> QED
      BY <3>1, EndKeeps
  <2>5. CASE Fails(k)
    <3>1. End(k, TRUE)
      BY <2>5 DEF Fails
    <3> QED
      BY <3>1, EndKeeps
  <2>6. CASE ToolsRejected(k)
    BY <2>6, ToolsRejectedKeeps
  <2> QED
    BY <1>6, <2>1, <2>2, <2>3, <2>4, <2>5, <2>6 DEF Turn
<1> QED
  BY <1>1, <1>2, <1>3, <1>4, <1>5, <1>6 DEF AgentNext

(* The inductive invariant holds in every reachable state.                   *)
LEMMA AgentAlways == AgentSpec => []AgentInv
  BY AgentStarts, AgentStep, PTL DEF AgentSpec

(* Stop never ends a turn of another thread: the controller that a thread    *)
(* has in activeAgentStreams is one of a turn of that thread that still      *)
(* streams or calls a tool, although the finally block of runAgentTurn drops *)
(* the entry of the thread whosever it is.                                   *)
THEOREM RegistryStaysLive == AgentSpec => []RegistryLive
<1>1. AgentInv => RegistryLive
  BY DEF AgentInv, Registered, RegistryLive, Writing, Writes
<1> QED
  BY <1>1, AgentAlways, PTL

(* No two runs of runAgentTurn write to a message, and a retried reply holds *)
(* nothing that an earlier attempt wrote, whatever stops, deletions and      *)
(* crashes lie between.                                                      *)
THEOREM RepliesHaveOneAuthor == AgentSpec => []OneAttempt
<1>1. ASSUME AgentInv PROVE OneAttempt
  <2>1. TurnsSound(turns, ids) /\ StoreSound(store, ids.msg)
    BY <1>1 DEF AgentInv
  <2>2. ASSUME NEW t \in DOMAIN store.messages, NEW i \in DOMAIN store.messages[t],
               NEW a \in ToSet(store.messages[t][i].text), NEW b \in ToSet(store.messages[t][i].text)
        PROVE  a = b
    <3>1. PICK list \in Seq(MessageRecords) : list = store.messages[t]
      BY <2>1 DEF StoreSound, MessageLists
    <3>2. i \in 1..Len(list) /\ list[i] \in MessageRecords
      BY <3>1, LenProperties
    <3>3. PICK m \in MessageRecords : m = list[i] /\ OneWriter(m)
      BY <2>1, <3>1, <3>2 DEF StoreSound
    <3>4. m.text \in Seq(Nat)
      BY DEF MessageRecords
    <3>5. DOMAIN m.text = 1..Len(m.text)
      BY <3>4, LenProperties
    <3> QED
      BY <3>1, <3>3, <3>5 DEF ToSet, OneWriter
  <2> QED
    BY <2>1, <2>2 DEF OneAttempt, TurnsSound
<1> QED
  BY <1>1, AgentAlways, PTL

(* A turn that outlives its thread never brings a list of messages back      *)
(* without the thread, nor a thread without one, in memory and on disk:      *)
(* appendToMessage and finalizeMessage do nothing once the list is gone.     *)
THEOREM NoGhostsAppear == AgentSpec => []NoGhosts
<1>1. ASSUME AgentInv PROVE NoGhosts
  <2>1. ASSUME NEW s, StoreSound(s, ids.msg) PROVE DOMAIN s.messages = ToSet(s.threads)
    <3>1. /\ s.threads \in Seq(Threads)
          /\ {s.threads[i] : i \in 1..Len(s.threads)} = DOMAIN s.messages
      BY <2>1 DEF StoreSound, Lists
    <3>2. DOMAIN s.threads = 1..Len(s.threads)
      BY <3>1, LenProperties
    <3> QED
      BY <3>1, <3>2 DEF ToSet
  <2>2. \A s \in {store, saved} : StoreSound(s, ids.msg)
    BY <1>1 DEF AgentInv
  <2> QED
    BY <2>1, <2>2 DEF NoGhosts
<1> QED
  BY <1>1, AgentAlways, PTL

(* Chunks are not written to disk, but every message no turn is writing is   *)
(* there as it is in memory: a crash costs unfinished replies only.          *)
THEOREM SettledIsOnDisk == AgentSpec => []SettledSaved
<1>1. ASSUME AgentInv PROVE SettledSaved
  <2>1. /\ StoreSound(store, ids.msg) /\ StoreSound(saved, ids.msg)
        /\ Settled(store, saved, turns)
    BY <1>1 DEF AgentInv
  <2>2. DOMAIN store.messages = DOMAIN saved.messages /\ saved.threads = store.threads
    <3>1. saved.threads = store.threads
      BY <2>1 DEF Settled
    <3>2. /\ {store.threads[i] : i \in 1..Len(store.threads)} = DOMAIN store.messages
          /\ {saved.threads[i] : i \in 1..Len(saved.threads)} = DOMAIN saved.messages
      BY <2>1 DEF StoreSound, Lists
    <3>3. PICK list : list = store.threads /\ list = saved.threads
      BY <3>1
    <3>4. /\ {list[i] : i \in 1..Len(list)} = DOMAIN store.messages
          /\ {list[i] : i \in 1..Len(list)} = DOMAIN saved.messages
      BY <3>2, <3>3
    <3> QED
      BY <3>1, <3>4
  <2>3. ASSUME NEW t \in DOMAIN store.messages, NEW i \in DOMAIN store.messages[t],
               \A k \in Writing : turns[k].msg # store.messages[t][i].id
        PROVE  saved.messages[t][i] = store.messages[t][i]
    <3>1. store.messages[t] \in Seq(MessageRecords)
      BY <2>1 DEF StoreSound, MessageLists
    <3>2. i \in 1..Len(store.messages[t])
      BY <3>1, LenProperties
    <3>3. \A k \in DOMAIN turns : Writes(turns[k]) => turns[k].msg # store.messages[t][i].id
      BY <2>3 DEF Writing, Writes
    <3> QED
      BY <2>1, <3>2, <3>3 DEF Settled
  <2> QED
    BY <2>2, <2>3 DEF SettledSaved
<1> QED
  BY <1>1, AgentAlways, PTL

-----------------------------------------------------------------------------
(* The panel of AgentTurns: it shows the store as soon as every event that   *)
(* is under way has arrived.                                                 *)

Pipe(q) == \E S : q \in Seq(S)

Requested(q, kind, t) == \E i \in 1..Len(q) : q[i].kind = kind /\ q[i].thread = t

(* From some event of the kind on, every one brings value.                   *)
Coming(q, kind, value) ==
  \E i \in 1..Len(q) :
    /\ q[i].kind = kind
    /\ \A j \in 1..Len(q) : j >= i /\ q[j].kind = kind => q[j].body = value

(* What the panel shows of the agents, or of the threads, will be value.     *)
Arrives(m, q, kind, shown, value) ==
  \/ Coming(q, kind, value)
  \/ /\ \A i \in 1..Len(q) : q[i].kind # kind
     /\ shown = value \/ Requested(m, kind, NoThread)

(* What an event makes of the messages shown for t.                          *)
Applied(list, e, t) ==
  IF e.thread # t THEN list
  ELSE IF e.kind = "messages" THEN e.body
  ELSE IF e.kind = "added" THEN Append(list, e.body)
  ELSE IF e.kind = "chunk" THEN WithChunk(list, e.body[1], e.body[2])
  ELSE IF e.kind = "error" THEN WithError(list, e.body)
  ELSE IF e.kind = "retry" THEN Blank(list, e.body)
  ELSE list

(* w is what is shown for t after each event of q from the j-th on: from     *)
(* what is shown now, or from an answer to "messages".                       *)
Follows(w, j, q, first, t) ==
  /\ j \in 0..Len(q)
  /\ j = 0 => w[0] = first
  /\ j # 0 => q[j].kind = "messages" /\ q[j].thread = t /\ w[j] = q[j].body
  /\ \A i \in 1..Len(q) : i > j => w[i] = Applied(w[i - 1], q[i], t)

Tracks(q, first, t, list) ==
  \E w, j : Follows(w, j, q, first, t) /\ w[Len(q)] = list

(* A turn works on m, or the event that it has ended is still to come.       *)
Ends(e, t, m) == e.kind \in {"done", "error"} /\ e.thread = t /\ e.body = m
Served(ts, q, t, m, from) ==
  \/ \E k \in DOMAIN ts : ts[k].thread = t /\ ts[k].msg = m
  \/ \E j \in 1..Len(q) : j > from /\ Ends(q[j], t, m)

IsStart(e) == e.kind = "retry" \/ (e.kind = "added" /\ e.body.role = "assistant")
StartId(e) == IF e.kind = "added" THEN e.body.id ELSE e.body
StartsServed(ts, q) ==
  \A i \in 1..Len(q) : IsStart(q[i]) => Served(ts, q, q[i].thread, StartId(q[i]), i)

EventKinds == {"agents", "threads", "messages", "added", "chunk", "done", "error", "retry"}
PanelFields == {"agents", "list", "selected", "awaiting", "shown", "streaming"}

(* Every thread that is listed somewhere was created, so a new one is not on *)
(* screen already.                                                           *)
AllBorn(b, p, q, s, d) ==
  /\ ToSet(p.list) \subseteq b
  /\ DOMAIN s.messages \subseteq b /\ DOMAIN d.messages \subseteq b
  /\ \A i \in 1..Len(q) : q[i].kind = "threads" => ToSet(q[i].body) \subseteq b

(* The messages shown of the open thread, changed by the events to come, are *)
(* the store's, or are asked for.                                            *)
ShownFollows(p, m, q, s) ==
  \A t \in DOMAIN s.messages : t = Mounted(p) =>
    Requested(m, "messages", t) \/ Tracks(q, p.shown, t, s.messages[t])

(* What is shown as streaming is being written, or its end is to come.       *)
StreamingServed(p, ts, q) ==
  p.streaming # NoMsg => Served(ts, q, Mounted(p), p.streaming, 0)

PanelInv ==
  /\ Pipe(toMain) /\ Pipe(toPanel)
  /\ DOMAIN panel = PanelFields
  /\ \A i \in 1..Len(toPanel) : toPanel[i].kind \in EventKinds
  /\ Arrives(toMain, toPanel, "agents", panel.agents, agents)
  /\ Arrives(toMain, toPanel, "threads", panel.list, store.threads)
  /\ AllBorn(born, panel, toPanel, store, saved)
  /\ ShownFollows(panel, toMain, toPanel, store)
  /\ StreamingServed(panel, turns, toPanel) /\ StartsServed(turns, toPanel)

-----------------------------------------------------------------------------
(* Pipes: events are appended at one end and taken from the other.           *)
JoinedTo(r, q, news) ==
  /\ Len(q) \in Nat /\ Len(news) \in Nat /\ Len(r) = Len(q) + Len(news)
  /\ \A i \in 1..Len(q) : r[i] = q[i]
  /\ \A i \in 1..Len(news) : r[Len(q) + i] = news[i]

TakenFrom(r, q) ==
  /\ Len(q) \in Nat \ {0} /\ Len(r) = Len(q) - 1
  /\ \A i \in 1..Len(r) : r[i] = q[i + 1]

LEMMA PipeJoined ==
  ASSUME NEW q, Pipe(q), NEW news, Pipe(news)
  PROVE  Pipe(q \o news) /\ JoinedTo(q \o news, q, news)
<1>1. PICK A : q \in Seq(A)
  BY DEF Pipe
<1>2. PICK B : news \in Seq(B)
  BY DEF Pipe
<1>3. PICK S : S = A \cup B
  OBVIOUS
<1>4. q \in Seq(S) /\ news \in Seq(S)
  BY <1>1, <1>2, <1>3, SeqMonotonic
<1>5. PICK n \in Nat, k \in Nat : n = Len(q) /\ k = Len(news)
  BY <1>4
<1>6. /\ q \o news \in Seq(S) /\ Len(q \o news) = Len(q) + Len(news)
      /\ \A i \in 1..(Len(q) + Len(news)) :
           (q \o news)[i] = IF i <= Len(q) THEN q[i] ELSE news[i - Len(q)]
  BY <1>4, ConcatProperties
<1>7. PICK r : r = q \o news
  OBVIOUS
<1>8. /\ r \in Seq(S) /\ Len(r) = n + k
      /\ \A i \in 1..(n + k) : r[i] = IF i <= n THEN q[i] ELSE news[i - n]
  BY <1>5, <1>6, <1>7
<1>9. \A i \in 1..n : r[i] = q[i]
  BY <1>8
<1>10. ASSUME NEW i \in 1..k PROVE r[n + i] = news[i]
  <2>1. n + i \in 1..(n + k) /\ ~(n + i <= n) /\ (n + i) - n = i
    OBVIOUS
  <2> QED
    BY <1>8, <2>1
<1> QED
  BY <1>5, <1>7, <1>8, <1>9, <1>10 DEF Pipe, JoinedTo

LEMMA PipeTaken ==
  ASSUME NEW q, Pipe(q), q # <<>>
  PROVE  Pipe(Tail(q)) /\ TakenFrom(Tail(q), q) /\ Head(q) = q[1]
<1>1. PICK S : q \in Seq(S)
  BY DEF Pipe
<1>2. /\ Tail(q) \in Seq(S) /\ Len(Tail(q)) = Len(q) - 1 /\ Head(q) = q[1]
      /\ Len(q) \in Nat \ {0}
      /\ \A i \in 1..Len(Tail(q)) : Tail(q)[i] = q[i + 1]
  BY <1>1
<1> QED
  BY <1>2 DEF Pipe, TakenFrom

LEMMA PipeTuples ==
  /\ Pipe(<<>>) /\ Len(<<>>) = 0
  /\ \A a : Pipe(<<a>>) /\ Len(<<a>>) = 1 /\ <<a>>[1] = a
  /\ \A a, b : Pipe(<<a, b>>) /\ Len(<<a, b>>) = 2 /\ <<a, b>>[1] = a /\ <<a, b>>[2] = b
<1>1. Pipe(<<>>) /\ Len(<<>>) = 0
  <2>1. <<>> \in Seq({})
    OBVIOUS
  <2> QED
    BY <2>1 DEF Pipe
<1>2. ASSUME NEW a PROVE Pipe(<<a>>) /\ Len(<<a>>) = 1 /\ <<a>>[1] = a
  <2>1. <<a>> \in Seq({a})
    OBVIOUS
  <2> QED
    BY <2>1 DEF Pipe
<1>3. ASSUME NEW a, NEW b
      PROVE Pipe(<<a, b>>) /\ Len(<<a, b>>) = 2 /\ <<a, b>>[1] = a /\ <<a, b>>[2] = b
  <2>1. <<a, b>> \in Seq({a, b})
    OBVIOUS
  <2> QED
    BY <2>1 DEF Pipe
<1> QED
  BY <1>1, <1>2, <1>3

LEMMA PipeAppended ==
  ASSUME NEW q, Pipe(q), NEW news, Pipe(news), NEW e
  PROVE  /\ Pipe(Append(news, e)) /\ JoinedTo(Append(news, e), news, <<e>>)
         /\ JoinedTo(q \o Append(news, e), q \o news, <<e>>)
<1>1. PICK B : news \in Seq(B)
  BY DEF Pipe
<1>2. PICK S : S = B \cup {e}
  OBVIOUS
<1>3. news \in Seq(S) /\ e \in S
  BY <1>1, <1>2, SeqMonotonic
<1>4. PICK k \in Nat : k = Len(news)
  BY <1>3
<1>5. PICK more : more = Append(news, e)
  OBVIOUS
<1>6. /\ more \in Seq(S) /\ Len(more) = k + 1
      /\ \A i \in 1..k : more[i] = news[i]
      /\ more[k + 1] = e
  BY <1>3, <1>4, <1>5, Appended
<1>7. PICK one : one = <<e>> /\ Len(one) = 1 /\ one[1] = e
  BY PipeTuples
<1>8. \A i \in 1..1 : i = 1
  OBVIOUS
<1>9. Pipe(more) /\ JoinedTo(more, news, one)
  BY <1>4, <1>6, <1>7, <1>8 DEF Pipe, JoinedTo
<1>10. PICK r, s : /\ r = q \o more /\ s = q \o news
                   /\ JoinedTo(r, q, more) /\ JoinedTo(s, q, news)
  BY <1>9, PipeJoined
<1>11. PICK n \in Nat : n = Len(q)
  BY <1>10 DEF JoinedTo
<1>12. Len(r) = n + k + 1 /\ Len(s) = n + k
  BY <1>4, <1>6, <1>10, <1>11 DEF JoinedTo
<1>13. ASSUME NEW i \in 1..(n + k) PROVE r[i] = s[i]
  <2>1. CASE i <= n
    <3>1. i \in 1..n
      BY <2>1
    <3> QED
      BY <1>10, <1>11, <3>1 DEF JoinedTo
  <2>2. CASE ~(i <= n)
    <3>1. PICK a \in 1..k : i = n + a /\ a \in 1..(k + 1)
      <4>1. i - n \in 1..k /\ i = n + (i - n) /\ i - n \in 1..(k + 1)
        BY <2>2
      <4> QED
        BY <4>1
    <3>2. r[n + a] = more[a] /\ s[n + a] = news[a]
      BY <1>4, <1>6, <1>10, <1>11, <3>1 DEF JoinedTo
    <3> QED
      BY <1>6, <3>1, <3>2
  <2> QED
    BY <2>1, <2>2
<1>14. r[n + k + 1] = e
  <2>1. k + 1 \in 1..(k + 1) /\ n + (k + 1) = n + k + 1
    OBVIOUS
  <2>2. r[n + (k + 1)] = more[k + 1]
    BY <1>6, <1>10, <1>11, <2>1 DEF JoinedTo
  <2> QED
    BY <1>6, <2>1, <2>2
<1>15. JoinedTo(r, s, one)
  <2>1. n + k \in Nat
    OBVIOUS
  <2> QED
    BY <1>7, <1>8, <1>12, <1>13, <1>14, <2>1 DEF JoinedTo
<1> QED
  BY <1>5, <1>7, <1>9, <1>10, <1>15
-----------------------------------------------------------------------------
(* Lists that are sent whole.                                                *)

(* What news does to a list: it is brought anew, or neither it nor the       *)
(* request for it is touched.                                                *)
Answers(m, mm, news, kind, old, new) ==
  /\ \A i \in 1..Len(news) : news[i].kind = kind => news[i].body = new
  /\ \/ new = old /\ (Requested(m, kind, NoThread) => Requested(mm, kind, NoThread))
     \/ \E i \in 1..Len(news) : news[i].kind = kind

LEMMA NewOrOld ==
  ASSUME NEW r, NEW q, NEW news, JoinedTo(r, q, news), NEW i \in 1..Len(r)
  PROVE  \/ i \in 1..Len(q) /\ r[i] = q[i]
         \/ \E a \in 1..Len(news) : i = Len(q) + a /\ r[i] = news[a]
<1>1. PICK n \in Nat, k \in Nat : n = Len(q) /\ k = Len(news) /\ Len(r) = n + k
  BY DEF JoinedTo
<1>2. CASE i <= n
  <2>1. i \in 1..n
    BY <1>1, <1>2
  <2> QED
    BY <1>1, <2>1 DEF JoinedTo
<1>3. CASE ~(i <= n)
  <2>1. PICK a \in 1..k : i = n + a
    <3>1. i - n \in 1..k /\ i = n + (i - n)
      BY <1>1, <1>3
    <3> QED
      BY <3>1
  <2>2. r[n + a] = news[a]
    BY <1>1 DEF JoinedTo
  <2> QED
    BY <1>1, <2>1, <2>2
<1> QED
  BY <1>2, <1>3

LEMMA JoinedPlaces ==
  ASSUME NEW r, NEW q, NEW news, JoinedTo(r, q, news)
  PROVE  /\ \A i \in 1..Len(q) : i \in 1..Len(r) /\ r[i] = q[i]
         /\ \A a \in 1..Len(news) : /\ Len(q) + a \in 1..Len(r) /\ r[Len(q) + a] = news[a]
                                    /\ \A i \in 1..Len(q) : Len(q) + a > i
<1>1. PICK n \in Nat, k \in Nat : n = Len(q) /\ k = Len(news) /\ Len(r) = n + k
  BY DEF JoinedTo
<1>2. \A i \in 1..n : i \in 1..(n + k)
  OBVIOUS
<1>3. \A a \in 1..k : n + a \in 1..(n + k) /\ \A i \in 1..n : n + a > i
  OBVIOUS
<1> QED
  BY <1>1, <1>2, <1>3 DEF JoinedTo

LEMMA ArrivesTold ==
  ASSUME NEW m, NEW mm, NEW q, NEW news, NEW r, JoinedTo(r, q, news),
         NEW kind, NEW shown, NEW old, NEW new,
         Arrives(m, q, kind, shown, old), Answers(m, mm, news, kind, old, new)
  PROVE  Arrives(mm, r, kind, shown, new)
<1>1. CASE \E i \in 1..Len(news) : news[i].kind = kind
  <2>1. PICK a \in 1..Len(news) : news[a].kind = kind
    BY <1>1
  <2>2. PICK b \in 1..Len(r) : b = Len(q) + a /\ r[b] = news[a] /\ \A i \in 1..Len(q) : b > i
    BY JoinedPlaces
  <2>3. ASSUME NEW j \in 1..Len(r), j >= b, r[j].kind = kind PROVE r[j].body = new
    <3>1. ~(j \in 1..Len(q))
      <4>1. ASSUME j \in 1..Len(q) PROVE FALSE
        <5>1. b > j /\ j \in Int /\ b \in Int
          BY <2>2, <4>1
        <5> QED
          BY <2>3, <5>1
      <4> QED
        BY <4>1
    <3>2. PICK c \in 1..Len(news) : r[j] = news[c]
      BY <3>1, NewOrOld
    <3> QED
      BY <2>3, <3>2 DEF Answers
  <2>4. Coming(r, kind, new)
    BY <2>1, <2>2, <2>3 DEF Coming
  <2> QED
    BY <2>4 DEF Arrives
<1>2. CASE \A i \in 1..Len(news) : news[i].kind # kind
  <2>1. new = old /\ (Requested(m, kind, NoThread) => Requested(mm, kind, NoThread))
    BY <1>2 DEF Answers
  <2>2. ASSUME NEW j \in 1..Len(r), r[j].kind = kind PROVE j \in 1..Len(q) /\ r[j] = q[j]
    <3>1. ~(\E a \in 1..Len(news) : j = Len(q) + a /\ r[j] = news[a])
      BY <1>2, <2>2
    <3> QED
      BY <3>1, NewOrOld
  <2>3. CASE Coming(q, kind, old)
    <3>1. PICK i \in 1..Len(q) : /\ q[i].kind = kind
            /\ \A j \in 1..Len(q) : j >= i /\ q[j].kind = kind => q[j].body = old
      BY <2>3 DEF Coming
    <3>2. i \in 1..Len(r) /\ r[i] = q[i]
      BY JoinedPlaces
    <3>3. \A j \in 1..Len(r) : j >= i /\ r[j].kind = kind => r[j].body = new
      BY <2>1, <2>2, <3>1
    <3>4. Coming(r, kind, new)
      BY <3>1, <3>2, <3>3 DEF Coming
    <3> QED
      BY <3>4 DEF Arrives
  <2>4. CASE ~Coming(q, kind, old)
    <3>1. /\ \A i \in 1..Len(q) : q[i].kind # kind
          /\ shown = old \/ Requested(m, kind, NoThread)
      BY <2>4 DEF Arrives
    <3>2. \A i \in 1..Len(r) : r[i].kind # kind
      BY <2>2, <3>1
    <3> QED
      BY <2>1, <3>1, <3>2 DEF Arrives
  <2> QED
    BY <2>3, <2>4
<1> QED
  BY <1>1, <1>2

LEMMA TakenPlaces ==
  ASSUME NEW r, NEW q, TakenFrom(r, q)
  PROVE  /\ 1 \in 1..Len(q)
         /\ \A i \in 1..Len(r) : i + 1 \in 1..Len(q) /\ r[i] = q[i + 1]
         /\ \A j \in 1..Len(q) : j # 1 => j - 1 \in 1..Len(r) /\ r[j - 1] = q[j]
<1>1. PICK n \in Nat \ {0} : n = Len(q) /\ Len(r) = n - 1
  BY DEF TakenFrom
<1>2. \A i \in 1..(n - 1) : i + 1 \in 1..n
  OBVIOUS
<1>3. \A j \in 1..n : j # 1 => j - 1 \in 1..(n - 1) /\ (j - 1) + 1 = j
  OBVIOUS
<1>4. \A i \in 1..(n - 1) : r[i] = q[i + 1]
  BY <1>1 DEF TakenFrom
<1>5. ASSUME NEW j \in 1..n, j # 1 PROVE r[j - 1] = q[j]
  <2>1. PICK i \in 1..(n - 1) : i = j - 1 /\ i + 1 = j
    BY <1>3, <1>5
  <2> QED
    BY <1>4, <2>1
<1>6. 1 \in 1..n
  OBVIOUS
<1> QED
  BY <1>1, <1>2, <1>3, <1>4, <1>5, <1>6

LEMMA ArrivesTaken ==
  ASSUME NEW m, NEW mm, NEW q, NEW r, TakenFrom(r, q),
         NEW kind, NEW shown, NEW value, Arrives(m, q, kind, shown, value),
         Requested(m, kind, NoThread) => Requested(mm, kind, NoThread),
         NEW then, then = IF q[1].kind = kind THEN q[1].body ELSE shown
  PROVE  Arrives(mm, r, kind, then, value)
<1>1. CASE Coming(q, kind, value)
  <2>1. PICK i \in 1..Len(q) : /\ q[i].kind = kind
          /\ \A j \in 1..Len(q) : j >= i /\ q[j].kind = kind => q[j].body = value
    BY <1>1 DEF Coming
  <2>2. ASSUME NEW a \in 1..Len(r), r[a].kind = kind, a + 1 >= i PROVE Coming(r, kind, value)
    <3>1. ASSUME NEW j \in 1..Len(r), j >= a, r[j].kind = kind PROVE r[j].body = value
      <4>1. j + 1 \in 1..Len(q) /\ r[j] = q[j + 1]
        BY TakenPlaces
      <4>2. j + 1 >= i
        BY <2>2, <3>1
      <4> QED
        BY <2>1, <3>1, <4>1, <4>2
    <3> QED
      BY <2>2, <3>1 DEF Coming
  <2>3. CASE i # 1
    <3>1. PICK a \in 1..Len(r) : a = i - 1 /\ r[a] = q[i] /\ a + 1 >= i
      <4>1. i - 1 \in 1..Len(r) /\ r[i - 1] = q[i] /\ (i - 1) + 1 >= i
        BY <2>3, TakenPlaces
      <4> QED
        BY <4>1
    <3>2. Coming(r, kind, value)
      BY <2>1, <2>2, <3>1
    <3> QED
      BY <3>2 DEF Arrives
  <2>4. CASE i = 1 /\ \E a \in 1..Len(r) : r[a].kind = kind
    <3>1. PICK a \in 1..Len(r) : r[a].kind = kind
      BY <2>4
    <3>2. a + 1 >= i
      BY <2>4
    <3>3. Coming(r, kind, value)
      BY <2>2, <3>1, <3>2
    <3> QED
      BY <3>3 DEF Arrives
  <2>5. CASE i = 1 /\ \A a \in 1..Len(r) : r[a].kind # kind
    <3>1. 1 >= 1
      OBVIOUS
    <3>2. then = value
      BY <2>1, <2>5, <3>1
    <3> QED
      BY <2>5, <3>2 DEF Arrives
  <2> QED
    BY <2>3, <2>4, <2>5
<1>2. CASE ~Coming(q, kind, value)
  <2>1. /\ \A i \in 1..Len(q) : q[i].kind # kind
        /\ shown = value \/ Requested(m, kind, NoThread)
    BY <1>2 DEF Arrives
  <2>2. \A i \in 1..Len(r) : r[i].kind # kind
    BY <2>1, TakenPlaces
  <2>3. then = shown
    BY <2>1, TakenPlaces
  <2> QED
    BY <2>1, <2>2, <2>3 DEF Arrives
<1> QED
  BY <1>1, <1>2

LEMMA ArrivesAsked ==
  ASSUME NEW m, NEW mm, NEW q, NEW kind, NEW shown, NEW then, NEW value,
         Arrives(m, q, kind, shown, value),
         \/ then = shown /\ (Requested(m, kind, NoThread) => Requested(mm, kind, NoThread))
         \/ Requested(mm, kind, NoThread)
  PROVE  Arrives(mm, q, kind, then, value)
BY DEF Arrives
-----------------------------------------------------------------------------
(* The messages shown for a thread, event by event.                          *)
LEMMA TracksTold ==
  ASSUME NEW q, NEW e, NEW r, JoinedTo(r, q, <<e>>),
         NEW first, NEW t, NEW list, Tracks(q, first, t, list)
  PROVE  Tracks(r, first, t, Applied(list, e, t))
<1>1. PICK w, j : Follows(w, j, q, first, t) /\ w[Len(q)] = list
  BY DEF Tracks
<1>2. PICK n \in Nat : n = Len(q)
  BY DEF JoinedTo
<1>3. /\ Len(r) = n + 1 /\ r[n + 1] = e /\ \A i \in 1..n : r[i] = q[i]
  <2>1. Len(<<e>>) = 1 /\ <<e>>[1] = e
    BY PipeTuples
  <2>2. 1 \in 1..1
    OBVIOUS
  <2> QED
    BY <1>2, <2>1, <2>2 DEF JoinedTo
<1>4. PICK v : v = [i \in 0..(n + 1) |-> IF i <= n THEN w[i] ELSE Applied(list, e, t)]
  OBVIOUS
<1>5. v[n + 1] = Applied(list, e, t) /\ \A i \in 0..n : v[i] = w[i]
  BY <1>4
<1>6. j \in 0..n /\ (j = 0 => w[0] = first)
  BY <1>1, <1>2 DEF Follows
<1>7. j \in 0..(n + 1)
  BY <1>6
<1>8. j = 0 => v[0] = first
  BY <1>5, <1>6
<1>9. j # 0 => r[j].kind = "messages" /\ r[j].thread = t /\ v[j] = r[j].body
  <2>1. ASSUME j # 0 PROVE r[j].kind = "messages" /\ r[j].thread = t /\ v[j] = r[j].body
    <3>1. j \in 1..n /\ j \in 0..n
      BY <1>6, <2>1
    <3>2. q[j].kind = "messages" /\ q[j].thread = t /\ w[j] = q[j].body
      BY <1>1, <2>1 DEF Follows
    <3> QED
      BY <1>3, <1>5, <3>1, <3>2
  <2> QED
    BY <2>1
<1>10. ASSUME NEW i \in 1..(n + 1), i > j PROVE v[i] = Applied(v[i - 1], r[i], t)
  <2>1. CASE i = n + 1
    <3>1. i - 1 = n /\ n \in 0..n
      BY <2>1
    <3>2. v[i - 1] = list
      BY <1>1, <1>2, <1>5, <3>1
    <3> QED
      BY <1>3, <1>5, <2>1, <3>2
  <2>2. CASE i # n + 1
    <3>1. i \in 1..n /\ i \in 0..n /\ i - 1 \in 0..n
      BY <2>2
    <3>2. w[i] = Applied(w[i - 1], q[i], t)
      BY <1>1, <1>2, <1>10, <3>1 DEF Follows
    <3>3. v[i] = w[i] /\ v[i - 1] = w[i - 1] /\ r[i] = q[i]
      BY <1>3, <1>5, <3>1
    <3> QED
      BY <3>2, <3>3
  <2> QED
    BY <2>1, <2>2
<1>11. Follows(v, j, r, first, t)
  BY <1>3, <1>7, <1>8, <1>9, <1>10 DEF Follows
<1> QED
  BY <1>3, <1>5, <1>11 DEF Tracks

LEMMA TracksAnew ==
  ASSUME NEW q, NEW e, e.kind = "messages", NEW r, JoinedTo(r, q, <<e>>), NEW first
  PROVE  Tracks(r, first, e.thread, e.body)
<1>1. PICK n \in Nat : n = Len(q)
  BY DEF JoinedTo
<1>2. Len(r) = n + 1 /\ r[n + 1] = e
  <2>1. Len(<<e>>) = 1 /\ <<e>>[1] = e
    BY PipeTuples
  <2>2. 1 \in 1..1
    OBVIOUS
  <2> QED
    BY <1>1, <2>1, <2>2 DEF JoinedTo
<1>3. PICK w : w = [i \in 0..(n + 1) |-> e.body]
  OBVIOUS
<1>4. n + 1 \in 0..(n + 1) /\ n + 1 # 0 /\ w[n + 1] = e.body
  BY <1>3
<1>5. \A i \in 1..(n + 1) : ~(i > n + 1)
  OBVIOUS
<1>6. Follows(w, n + 1, r, first, e.thread)
  BY <1>2, <1>4, <1>5 DEF Follows
<1> QED
  BY <1>2, <1>4, <1>6 DEF Tracks

LEMMA TracksTaken ==
  ASSUME NEW q, NEW r, TakenFrom(r, q),
         NEW first, NEW t, NEW list, Tracks(q, first, t, list)
  PROVE  Tracks(r, Applied(first, q[1], t), t, list)
<1>1. PICK w, j : Follows(w, j, q, first, t) /\ w[Len(q)] = list
  BY DEF Tracks
<1>2. PICK n \in Nat : Len(q) = n + 1 /\ Len(r) = n
  <2>1. PICK k \in Nat \ {0} : Len(q) = k /\ Len(r) = k - 1
    BY DEF TakenFrom
  <2>2. k - 1 \in Nat /\ k = (k - 1) + 1
    OBVIOUS
  <2> QED
    BY <2>1, <2>2
<1>3. PICK v : v = [i \in 0..n |-> w[i + 1]]
  OBVIOUS
<1>4. /\ j \in 0..(n + 1)
      /\ \A i \in 1..n : r[i] = q[i + 1] /\ i + 1 \in 1..(n + 1)
  <2>1. j \in 0..(n + 1)
    BY <1>1, <1>2 DEF Follows
  <2>2. \A i \in 1..n : r[i] = q[i + 1]
    BY <1>2 DEF TakenFrom
  <2> QED
    BY <2>1, <2>2
<1>5. v[n] = list
  BY <1>1, <1>2, <1>3
<1>6. ASSUME NEW i \in 1..n, i + 1 > j PROVE v[i] = Applied(v[i - 1], r[i], t)
  <2>1. w[i + 1] = Applied(w[(i + 1) - 1], q[i + 1], t)
    BY <1>1, <1>2, <1>4, <1>6 DEF Follows
  <2>2. i - 1 \in 0..n /\ i \in 0..n /\ (i - 1) + 1 = (i + 1) - 1
    OBVIOUS
  <2>3. v[i] = w[i + 1] /\ v[i - 1] = w[(i + 1) - 1]
    BY <1>3, <2>2
  <2> QED
    BY <1>4, <2>1, <2>3
<1>7. CASE j = 0 \/ j = 1
  <2>1. v[0] = Applied(first, q[1], t)
    <3>1. v[0] = w[1]
      BY <1>3
    <3>2. CASE j = 0
      <4>1. 1 \in 1..(n + 1) /\ 1 > j /\ 1 - 1 = 0
        BY <3>2
      <4>2. w[1] = Applied(w[1 - 1], q[1], t) /\ w[0] = first
        BY <1>1, <1>2, <3>2, <4>1 DEF Follows
      <4> QED
        BY <3>1, <4>1, <4>2
    <3>3. CASE j = 1
      <4>1. q[1].kind = "messages" /\ q[1].thread = t /\ w[1] = q[1].body
        BY <1>1, <3>3 DEF Follows
      <4> QED
        BY <3>1, <4>1 DEF Applied
    <3> QED
      BY <1>7, <3>2, <3>3
  <2>2. \A i \in 1..n : i + 1 > j
    BY <1>7
  <2>3. 0 \in 0..n
    OBVIOUS
  <2>4. Follows(v, 0, r, Applied(first, q[1], t), t)
    BY <1>2, <1>6, <2>1, <2>2, <2>3 DEF Follows
  <2> QED
    BY <1>2, <1>5, <2>4 DEF Tracks
<1>8. CASE j # 0 /\ j # 1
  <2>1. PICK a \in 1..n : a = j - 1 /\ j = a + 1
    <3>1. j - 1 \in 1..n /\ j = (j - 1) + 1
      BY <1>4, <1>8
    <3> QED
      BY <3>1
  <2>2. q[j].kind = "messages" /\ q[j].thread = t /\ w[j] = q[j].body
    BY <1>1, <1>8 DEF Follows
  <2>3. r[a] = q[j] /\ v[a] = w[j]
    BY <1>3, <1>4, <2>1
  <2>4. a \in 0..n /\ a # 0
    OBVIOUS
  <2>5. \A i \in 1..n : i > a => i + 1 > j
    BY <2>1
  <2>6. Follows(v, a, r, Applied(first, q[1], t), t)
    BY <1>2, <1>6, <2>2, <2>3, <2>4, <2>5 DEF Follows
  <2> QED
    BY <1>2, <1>5, <2>6 DEF Tracks
<1> QED
  BY <1>7, <1>8

-----------------------------------------------------------------------------
(* Replies that somebody works on.                                           *)
TurnsAnswered(ts, tt, news) ==
  \A k \in DOMAIN ts :
    \/ k \in DOMAIN tt /\ tt[k].thread = ts[k].thread /\ tt[k].msg = ts[k].msg
    \/ \E a \in 1..Len(news) : Ends(news[a], ts[k].thread, ts[k].msg)

LEMMA ServedTold ==
  ASSUME NEW ts, NEW tt, NEW q, NEW news, NEW r, JoinedTo(r, q, news),
         TurnsAnswered(ts, tt, news), NEW t, NEW m, NEW from \in 0..Len(q), Served(ts, q, t, m, from)
  PROVE  Served(tt, r, t, m, from)
<1>1. ASSUME NEW a \in 1..Len(news), Ends(news[a], t, m) PROVE Served(tt, r, t, m, from)
  <2>1. PICK b \in 1..Len(r) : b = Len(q) + a /\ r[b] = news[a]
    BY JoinedPlaces
  <2>2. b > from
    BY <2>1 DEF JoinedTo
  <2> QED
    BY <1>1, <2>1, <2>2 DEF Served
<1>2. CASE \E k \in DOMAIN ts : ts[k].thread = t /\ ts[k].msg = m
  <2>1. PICK k \in DOMAIN ts : ts[k].thread = t /\ ts[k].msg = m
    BY <1>2
  <2>2. CASE k \in DOMAIN tt /\ tt[k].thread = ts[k].thread /\ tt[k].msg = ts[k].msg
    BY <2>1, <2>2 DEF Served
  <2> QED
    BY <1>1, <2>1, <2>2 DEF TurnsAnswered
<1>3. CASE \E j \in 1..Len(q) : j > from /\ Ends(q[j], t, m)
  <2>1. PICK j \in 1..Len(q) : j > from /\ Ends(q[j], t, m)
    BY <1>3
  <2>2. j \in 1..Len(r) /\ r[j] = q[j]
    BY JoinedPlaces
  <2> QED
    BY <2>1, <2>2 DEF Served
<1> QED
  BY <1>2, <1>3 DEF Served

LEMMA StartsTold ==
  ASSUME NEW ts, NEW tt, NEW q, NEW news, NEW r, JoinedTo(r, q, news),
         TurnsAnswered(ts, tt, news), StartsServed(ts, q), StartsServed(tt, news)
  PROVE  StartsServed(tt, r)
<1>1. ASSUME NEW i \in 1..Len(r), IsStart(r[i])
      PROVE  Served(tt, r, r[i].thread, StartId(r[i]), i)
  <2>1. CASE i \in 1..Len(q) /\ r[i] = q[i]
    <3>1. Served(ts, q, r[i].thread, StartId(r[i]), i)
      BY <1>1, <2>1 DEF StartsServed
    <3>2. i \in 0..Len(q)
      BY <2>1
    <3> QED
      BY <3>1, <3>2, ServedTold
  <2>2. CASE \E a \in 1..Len(news) : i = Len(q) + a /\ r[i] = news[a]
    <3>1. PICK a \in 1..Len(news) : i = Len(q) + a /\ r[i] = news[a]
      BY <2>2
    <3>2. Served(tt, news, r[i].thread, StartId(r[i]), a)
      BY <1>1, <3>1 DEF StartsServed
    <3>3. CASE \E k \in DOMAIN tt : tt[k].thread = r[i].thread /\ tt[k].msg = StartId(r[i])
      BY <3>3 DEF Served
    <3>4. CASE \E c \in 1..Len(news) : c > a /\ Ends(news[c], r[i].thread, StartId(r[i]))
      <4>1. PICK c \in 1..Len(news) : c > a /\ Ends(news[c], r[i].thread, StartId(r[i]))
        BY <3>4
      <4>2. PICK b \in 1..Len(r) : b = Len(q) + c /\ r[b] = news[c]
        BY JoinedPlaces
      <4>3. b > i
        BY <3>1, <4>1, <4>2 DEF JoinedTo
      <4> QED
        BY <4>1, <4>2, <4>3 DEF Served
    <3> QED
      BY <3>2, <3>3, <3>4 DEF Served
  <2> QED
    BY <2>1, <2>2, NewOrOld
<1> QED
  BY <1>1 DEF StartsServed

LEMMA ServedTaken ==
  ASSUME NEW ts, NEW q, NEW r, TakenFrom(r, q), NEW t, NEW m, NEW from \in 0..Len(r),
         \/ Served(ts, q, t, m, from + 1)
         \/ from = 0 /\ Served(ts, q, t, m, 0) /\ ~Ends(q[1], t, m)
  PROVE  Served(ts, r, t, m, from)
<1>1. CASE \E k \in DOMAIN ts : ts[k].thread = t /\ ts[k].msg = m
  BY <1>1 DEF Served
<1>2. CASE ~(\E k \in DOMAIN ts : ts[k].thread = t /\ ts[k].msg = m)
  <2>1. PICK j \in 1..Len(q) : /\ Ends(q[j], t, m)
                               /\ j > from + 1 \/ (from = 0 /\ j > 0 /\ ~Ends(q[1], t, m))
    BY <1>2 DEF Served
  <2>2. j # 1
    BY <2>1
  <2>3. PICK a \in 1..Len(r) : a = j - 1 /\ r[a] = q[j]
    BY <2>2, TakenPlaces
  <2>4. a > from
    BY <2>1, <2>2, <2>3
  <2> QED
    BY <2>1, <2>3, <2>4 DEF Served
<1> QED
  BY <1>1, <1>2

LEMMA StartsTaken ==
  ASSUME NEW ts, NEW q, NEW r, TakenFrom(r, q), StartsServed(ts, q)
  PROVE  /\ StartsServed(ts, r)
         /\ IsStart(q[1]) => Served(ts, r, q[1].thread, StartId(q[1]), 0)
<1>1. ASSUME NEW i \in 1..Len(r), IsStart(r[i])
      PROVE  Served(ts, r, r[i].thread, StartId(r[i]), i)
  <2>1. i + 1 \in 1..Len(q) /\ r[i] = q[i + 1]
    BY TakenPlaces
  <2>2. Served(ts, q, r[i].thread, StartId(r[i]), i + 1)
    BY <1>1, <2>1 DEF StartsServed
  <2>3. i \in 0..Len(r)
    BY DEF TakenFrom
  <2> QED
    BY <2>2, <2>3, ServedTaken
<1>2. ASSUME IsStart(q[1]) PROVE Served(ts, r, q[1].thread, StartId(q[1]), 0)
  <2>1. 1 \in 1..Len(q)
    BY TakenPlaces
  <2>2. Served(ts, q, q[1].thread, StartId(q[1]), 0 + 1)
    BY <1>2, <2>1 DEF StartsServed
  <2>3. 0 \in 0..Len(r)
    BY DEF TakenFrom
  <2> QED
    BY <2>2, <2>3, ServedTaken
<1> QED
  BY <1>1, <1>2 DEF StartsServed
-----------------------------------------------------------------------------
(* Requests, and what a render adds to them.                                 *)
LEMMA EventFields ==
  ASSUME NEW kind, NEW t, NEW body
  PROVE  /\ Event(kind, t, body).kind = kind
         /\ Event(kind, t, body).thread = t
         /\ Event(kind, t, body).body = body
BY DEF Event

LEMMA RequestJoined ==
  ASSUME NEW r, NEW q, NEW news, JoinedTo(r, q, news), NEW kind, NEW t
  PROVE  /\ Requested(q, kind, t) => Requested(r, kind, t)
         /\ Requested(news, kind, t) => Requested(r, kind, t)
<1>1. ASSUME Requested(q, kind, t) PROVE Requested(r, kind, t)
  <2>1. PICK i \in 1..Len(q) : q[i].kind = kind /\ q[i].thread = t
    BY <1>1 DEF Requested
  <2>2. i \in 1..Len(r) /\ r[i] = q[i]
    BY JoinedPlaces
  <2> QED
    BY <2>1, <2>2 DEF Requested
<1>2. ASSUME Requested(news, kind, t) PROVE Requested(r, kind, t)
  <2>1. PICK a \in 1..Len(news) : news[a].kind = kind /\ news[a].thread = t
    BY <1>2 DEF Requested
  <2>2. PICK b \in 1..Len(r) : b = Len(q) + a /\ r[b] = news[a]
    BY JoinedPlaces
  <2> QED
    BY <2>1, <2>2 DEF Requested
<1> QED
  BY <1>1, <1>2

LEMMA RequestTaken ==
  ASSUME NEW r, NEW q, TakenFrom(r, q), NEW kind, NEW t, Requested(q, kind, t),
         ~(q[1].kind = kind /\ q[1].thread = t)
  PROVE  Requested(r, kind, t)
<1>1. PICK j \in 1..Len(q) : q[j].kind = kind /\ q[j].thread = t
  BY DEF Requested
<1>2. j # 1
  BY <1>1
<1>3. PICK a \in 1..Len(r) : a = j - 1 /\ r[a] = q[j]
  BY <1>2, TakenPlaces
<1> QED
  BY <1>1, <1>3 DEF Requested

LEMMA OneRequest ==
  ASSUME NEW kind, NEW t, NEW body
  PROVE  Pipe(<<Event(kind, t, body)>>) /\ Requested(<<Event(kind, t, body)>>, kind, t)
<1>1. PICK one, e : one = <<e>> /\ e = Event(kind, t, body)
  OBVIOUS
<1>2. Pipe(one) /\ Len(one) = 1 /\ one[1] = e
  BY <1>1, PipeTuples
<1>3. e.kind = kind /\ e.thread = t
  BY <1>1, EventFields
<1>4. 1 \in 1..1
  OBVIOUS
<1> QED
  BY <1>1, <1>2, <1>3, <1>4 DEF Requested

LEMMA OpeningAsks ==
  /\ Pipe(Opening)
  /\ Requested(Opening, "agents", NoThread) /\ Requested(Opening, "threads", NoThread)
<1>1. PICK a, b, q : /\ a = Event("agents", NoThread, NoMsg) /\ b = Event("threads", NoThread, NoMsg)
                     /\ q = <<a, b>> /\ q = Opening
  BY DEF Opening
<1>2. Pipe(q) /\ Len(q) = 2 /\ q[1] = a /\ q[2] = b
  BY <1>1, PipeTuples
<1>3. /\ a.kind = "agents" /\ a.thread = NoThread
      /\ b.kind = "threads" /\ b.thread = NoThread
  BY <1>1, EventFields
<1>4. 1 \in 1..2 /\ 2 \in 1..2
  OBVIOUS
<1> QED
  BY <1>1, <1>2, <1>3, <1>4 DEF Requested

Rendered(p) ==
  /\ DOMAIN panel' = PanelFields
  /\ panel'.agents = p.agents /\ panel'.list = p.list /\ Mounted(panel') = Mounted(p)
  /\ Pipe(toMain')
  /\ \A kind, t : Requested(toMain, kind, t) => Requested(toMain', kind, t)
  /\ \/ /\ Mounted(p) = Mounted(panel)
        /\ panel'.shown = p.shown /\ panel'.streaming = p.streaming
     \/ /\ panel'.streaming = NoMsg
        /\ Mounted(p) # NoThread => Requested(toMain', "messages", Mounted(p))

LEMMA Renders ==
  ASSUME Pipe(toMain), NEW p, DOMAIN p = PanelFields, NEW calls, Pipe(calls), Render(p, calls)
  PROVE  Rendered(p)
<1>1. PICK more : more = toMain \o calls /\ Pipe(more) /\ JoinedTo(more, toMain, calls)
  BY PipeJoined
<1>2. \A kind, t : Requested(toMain, kind, t) => Requested(more, kind, t)
  BY <1>1, RequestJoined
<1>3. CASE Mounted(p) = Mounted(panel)
  <2>1. panel' = p
    BY <1>3 DEF Render
  <2>2. toMain' = more \o <<>>
    BY <1>1, <1>3 DEF Render
  <2>3. PICK none : none = <<>> /\ Pipe(none)
    BY PipeTuples
  <2>4. Pipe(more \o none) /\ JoinedTo(more \o none, more, none)
    BY <1>1, <2>3, PipeJoined
  <2>5. Pipe(toMain') /\ \A kind, t : Requested(more, kind, t) => Requested(toMain', kind, t)
    BY <2>2, <2>3, <2>4, RequestJoined
  <2> QED
    BY <1>2, <1>3, <2>1, <2>5 DEF Rendered
<1>4. CASE Mounted(p) # Mounted(panel)
  <2>1. panel' = OnMount(p)
    BY <1>4 DEF Render
  <2>2. /\ DOMAIN panel' = PanelFields /\ panel'.agents = p.agents /\ panel'.list = p.list
        /\ panel'.selected = p.selected /\ panel'.streaming = NoMsg
    BY <2>1 DEF OnMount, PanelFields
  <2>3. Mounted(panel') = Mounted(p)
    BY <2>2 DEF Mounted
  <2>4. PICK last : /\ last = (IF Mounted(p) # NoThread
                               THEN <<Event("messages", Mounted(p), NoMsg)>> ELSE <<>>)
                    /\ toMain' = more \o last
    BY <1>1, <1>4 DEF Render
  <2>5. Pipe(last)
    BY <2>4, OneRequest, PipeTuples
  <2>6. Pipe(toMain') /\ JoinedTo(toMain', more, last)
    BY <1>1, <2>4, <2>5, PipeJoined
  <2>7. \A kind, t : Requested(more, kind, t) => Requested(toMain', kind, t)
    BY <2>6, RequestJoined
  <2>8. ASSUME Mounted(p) # NoThread PROVE Requested(toMain', "messages", Mounted(p))
    <3>1. Requested(last, "messages", Mounted(p))
      BY <2>4, <2>8, OneRequest
    <3> QED
      BY <2>6, <3>1, RequestJoined
  <2> QED
    BY <1>2, <2>2, <2>3, <2>6, <2>7, <2>8 DEF Rendered
<1> QED
  BY <1>3, <1>4

-----------------------------------------------------------------------------
(* What the user does, and lists that arrive.                                *)
LEMMA ThreadsListed ==
  ASSUME NEW s, NEW n, StoreSound(s, n)
  PROVE  DOMAIN s.messages \subseteq Threads /\ ToSet(s.threads) = DOMAIN s.messages
<1>1. /\ s.threads \in Seq(Threads) /\ DOMAIN s.messages \subseteq Threads
      /\ {s.threads[i] : i \in 1..Len(s.threads)} = DOMAIN s.messages
  BY DEF StoreSound, Lists, MessageLists
<1>2. DOMAIN s.threads = 1..Len(s.threads)
  BY <1>1, LenProperties
<1> QED
  BY <1>1, <1>2 DEF ToSet

LEMMA MessagesOfThreads ==
  ASSUME AgentAssumption, AgentInv
  PROVE  NoThread \notin DOMAIN store.messages /\ ToSet(store.threads) = DOMAIN store.messages
BY ThreadsListed DEF AgentInv, AgentAssumption

LEMMA AppliedElsewhere ==
  ASSUME NEW list, NEW e, NEW t, e.thread # t \/ e.kind \in {"agents", "threads", "done"}
  PROVE  Applied(list, e, t) = list
BY DEF Applied

MainUntouched == UNCHANGED <<store, saved, agents, turns, born>>

LEMMA UserRendered ==
  ASSUME AgentInv, PanelInv, MainUntouched, toPanel' = toPanel,
         NEW p, Rendered(p), p.agents = panel.agents, p.list = panel.list,
         p.shown = panel.shown, p.streaming = panel.streaming
  PROVE  PanelInv'
<1>1. Arrives(toMain', toPanel', "agents", panel'.agents, agents')
  <2>1. panel'.agents = panel.agents /\ Arrives(toMain, toPanel, "agents", panel.agents, agents)
    BY DEF Rendered, PanelInv
  <2>2. Arrives(toMain', toPanel, "agents", panel'.agents, agents)
    BY <2>1, ArrivesAsked DEF Rendered
  <2> QED
    BY <2>2 DEF MainUntouched
<1>2. Arrives(toMain', toPanel', "threads", panel'.list, store'.threads)
  <2>1. panel'.list = panel.list /\ Arrives(toMain, toPanel, "threads", panel.list, store.threads)
    BY DEF Rendered, PanelInv
  <2>2. Arrives(toMain', toPanel, "threads", panel'.list, store.threads)
    BY <2>1, ArrivesAsked DEF Rendered
  <2> QED
    BY <2>2 DEF MainUntouched
<1>3. AllBorn(born', panel', toPanel', store', saved')
  BY DEF AllBorn, PanelInv, Rendered, MainUntouched
<1>4. ShownFollows(panel', toMain', toPanel', store')
  <2>1. ASSUME NEW t \in DOMAIN store.messages, t = Mounted(panel')
        PROVE  Requested(toMain', "messages", t) \/ Tracks(toPanel, panel'.shown, t, store.messages[t])
    <3>1. t # NoThread /\ t = Mounted(p)
      BY <2>1, MessagesOfThreads, AgentAssumption DEF Rendered
    <3>2. CASE Mounted(p) = Mounted(panel) /\ panel'.shown = p.shown
      <4>1. Requested(toMain, "messages", t) \/ Tracks(toPanel, panel'.shown, t, store.messages[t])
        BY <3>1, <3>2 DEF PanelInv, ShownFollows
      <4> QED
        BY <4>1 DEF Rendered
    <3> QED
      BY <3>1, <3>2 DEF Rendered
  <2> QED
    BY <2>1 DEF ShownFollows, MainUntouched
<1>5. StreamingServed(panel', turns', toPanel')
  BY DEF StreamingServed, PanelInv, Rendered, MainUntouched
<1>6. StartsServed(turns', toPanel')
  BY DEF PanelInv, MainUntouched
<1>7. DOMAIN panel' = PanelFields /\ Pipe(toMain') /\ Pipe(toPanel')
  BY DEF Rendered, PanelInv
<1>8. \A i \in 1..Len(toPanel') : toPanel'[i].kind \in EventKinds
  BY DEF PanelInv
<1> QED
  BY <1>1, <1>2, <1>3, <1>4, <1>5, <1>6, <1>7, <1>8 DEF PanelInv

LEMMA ListRendered ==
  ASSUME AgentInv, PanelInv, MainUntouched, Pipe(toPanel'), TakenFrom(toPanel', toPanel),
         NEW e, e = toPanel[1], e.kind \in {"agents", "threads"},
         NEW p, Rendered(p),
         p.agents = IF e.kind = "agents" THEN e.body ELSE panel.agents,
         p.list = IF e.kind = "threads" THEN e.body ELSE panel.list,
         p.shown = panel.shown, p.streaming = panel.streaming
  PROVE  PanelInv'
<1>0. 1 \in 1..Len(toPanel)
  BY TakenPlaces
<1>1. Arrives(toMain', toPanel', "agents", panel'.agents, agents')
  <2>1. panel'.agents = p.agents /\ Arrives(toMain, toPanel, "agents", panel.agents, agents)
    BY DEF Rendered, PanelInv
  <2>2. Arrives(toMain', toPanel', "agents", panel'.agents, agents)
    BY <2>1, ArrivesTaken DEF Rendered
  <2> QED
    BY <2>2 DEF MainUntouched
<1>2. Arrives(toMain', toPanel', "threads", panel'.list, store'.threads)
  <2>1. panel'.list = p.list /\ Arrives(toMain, toPanel, "threads", panel.list, store.threads)
    BY DEF Rendered, PanelInv
  <2>2. Arrives(toMain', toPanel', "threads", panel'.list, store.threads)
    BY <2>1, ArrivesTaken DEF Rendered
  <2> QED
    BY <2>2 DEF MainUntouched
<1>3. AllBorn(born', panel', toPanel', store', saved')
  <2>1. AllBorn(born, panel, toPanel, store, saved)
    BY DEF PanelInv
  <2>2. ASSUME NEW i \in 1..Len(toPanel'), toPanel'[i].kind = "threads"
        PROVE  ToSet(toPanel'[i].body) \subseteq born
    <3>1. i + 1 \in 1..Len(toPanel) /\ toPanel'[i] = toPanel[i + 1]
      BY TakenPlaces
    <3> QED
      BY <2>1, <2>2, <3>1 DEF AllBorn
  <2>3. ToSet(panel'.list) \subseteq born
    BY <1>0, <2>1 DEF AllBorn, Rendered
  <2> QED
    BY <2>1, <2>2, <2>3 DEF AllBorn, MainUntouched
<1>4. ShownFollows(panel', toMain', toPanel', store')
  <2>1. ASSUME NEW t \in DOMAIN store.messages, t = Mounted(panel')
        PROVE  Requested(toMain', "messages", t) \/ Tracks(toPanel', panel'.shown, t, store.messages[t])
    <3>1. t # NoThread /\ t = Mounted(p)
      BY <2>1, MessagesOfThreads, AgentAssumption DEF Rendered
    <3>2. CASE Mounted(p) = Mounted(panel) /\ panel'.shown = p.shown
      <4>1. Requested(toMain, "messages", t) \/ Tracks(toPanel, panel'.shown, t, store.messages[t])
        BY <3>1, <3>2 DEF PanelInv, ShownFollows
      <4>2. Applied(panel'.shown, toPanel[1], t) = panel'.shown
        BY AppliedElsewhere
      <4>3. Tracks(toPanel, panel'.shown, t, store.messages[t])
              => Tracks(toPanel', panel'.shown, t, store.messages[t])
        BY <4>2, TracksTaken
      <4> QED
        BY <4>1, <4>3 DEF Rendered
    <3> QED
      BY <3>1, <3>2 DEF Rendered
  <2> QED
    BY <2>1 DEF ShownFollows, MainUntouched
<1>5. StreamingServed(panel', turns', toPanel')
  <2>1. ASSUME panel'.streaming # NoMsg PROVE Served(turns, toPanel', Mounted(panel'), panel'.streaming, 0)
    <3>1. Mounted(panel') = Mounted(panel) /\ panel'.streaming = panel.streaming
      BY <2>1 DEF Rendered
    <3>2. Served(turns, toPanel, Mounted(panel'), panel'.streaming, 0)
      BY <2>1, <3>1 DEF PanelInv, StreamingServed
    <3>3. ~Ends(toPanel[1], Mounted(panel'), panel'.streaming)
      BY DEF Ends
    <3>4. 0 \in 0..Len(toPanel')
      BY DEF TakenFrom
    <3> QED
      BY <3>2, <3>3, <3>4, ServedTaken
  <2> QED
    BY <2>1 DEF StreamingServed, MainUntouched
<1>6. StartsServed(turns', toPanel')
  BY StartsTaken DEF PanelInv, MainUntouched
<1>7. DOMAIN panel' = PanelFields /\ Pipe(toMain') /\ Pipe(toPanel')
  BY DEF Rendered
<1>8. \A i \in 1..Len(toPanel') : toPanel'[i].kind \in EventKinds
  BY TakenPlaces DEF PanelInv
<1> QED
  BY <1>1, <1>2, <1>3, <1>4, <1>5, <1>6, <1>7, <1>8 DEF PanelInv
LEMMA UserKeepsPanel ==
  ASSUME AgentInv, PanelInv,
         \/ \E t \in Threads : Select(t) \/ Delete(t)
         \/ \E a \in Agents : NewThread(a)
         \/ \E i \in DOMAIN panel.shown : Retry(i)
         \/ Back \/ Submit \/ PressStop
  PROVE  PanelInv'
<1>1. Pipe(toMain) /\ DOMAIN panel = PanelFields
  BY DEF PanelInv
<1>2. ASSUME NEW p, NEW calls, Render(p, calls), UserActs, Pipe(calls), DOMAIN p = PanelFields,
             p.agents = panel.agents, p.list = panel.list,
             p.shown = panel.shown, p.streaming = panel.streaming
      PROVE  PanelInv'
  <2>1. MainUntouched /\ toPanel' = toPanel
    BY <1>2 DEF UserActs, main, counters, MainUntouched
  <2>2. Rendered(p)
    BY <1>1, <1>2, Renders
  <2> QED
    BY <1>2, <2>1, <2>2, UserRendered
<1>3. \A kind, t, body : Pipe(<<Event(kind, t, body)>>)
  BY OneRequest
<1>4. Pipe(<<>>)
  BY PipeTuples
<1>5. ASSUME NEW t \in Threads, Select(t) PROVE PanelInv'
  <2>1. PICK p : p = [panel EXCEPT !.selected = t]
    OBVIOUS
  <2>2. Render(p, <<>>) /\ UserActs
    BY <1>5, <2>1 DEF Select
  <2>3. /\ DOMAIN p = PanelFields /\ p.agents = panel.agents /\ p.list = panel.list
        /\ p.shown = panel.shown /\ p.streaming = panel.streaming
    BY <1>1, <2>1 DEF PanelFields
  <2> QED
    BY <1>2, <1>4, <2>2, <2>3
<1>6. ASSUME NEW t \in Threads, Delete(t) PROVE PanelInv'
  <2>1. PICK sel : sel = (IF Mounted(panel) = t THEN NoThread ELSE panel.selected)
    OBVIOUS
  <2>2. PICK p : p = [panel EXCEPT !.selected = sel]
    OBVIOUS
  <2>3. p = [panel EXCEPT !.selected = IF Mounted(panel) = t THEN NoThread ELSE @]
    BY <2>1, <2>2
  <2>4. Render(p, <<Event("delete", t, NoMsg)>>) /\ UserActs
    BY <1>6, <2>3 DEF Delete
  <2>5. /\ DOMAIN p = PanelFields /\ p.agents = panel.agents /\ p.list = panel.list
        /\ p.shown = panel.shown /\ p.streaming = panel.streaming
    BY <1>1, <2>2 DEF PanelFields
  <2> QED
    BY <1>2, <1>3, <2>4, <2>5
<1>7. ASSUME NEW a \in Agents, NewThread(a) PROVE PanelInv'
  <2>1. PICK p : p = [panel EXCEPT !.awaiting = TRUE]
    OBVIOUS
  <2>2. Render(p, <<Event("create", NoThread, a)>>) /\ UserActs
    BY <1>7, <2>1 DEF NewThread
  <2>3. /\ DOMAIN p = PanelFields /\ p.agents = panel.agents /\ p.list = panel.list
        /\ p.shown = panel.shown /\ p.streaming = panel.streaming
    BY <1>1, <2>1 DEF PanelFields
  <2> QED
    BY <1>2, <1>3, <2>2, <2>3
<1>8. CASE Back
  <2>1. PICK p : p = [panel EXCEPT !.selected = NoThread]
    OBVIOUS
  <2>2. Render(p, <<>>) /\ UserActs
    BY <1>8, <2>1 DEF Back
  <2>3. /\ DOMAIN p = PanelFields /\ p.agents = panel.agents /\ p.list = panel.list
        /\ p.shown = panel.shown /\ p.streaming = panel.streaming
    BY <1>1, <2>1 DEF PanelFields
  <2> QED
    BY <1>2, <1>4, <2>2, <2>3
<1>9. ASSUME NEW i \in DOMAIN panel.shown, Retry(i) PROVE PanelInv'
  <2>1. Render(panel, <<Event("retry", Mounted(panel), panel.shown[i].id)>>) /\ UserActs
    BY <1>9 DEF Retry
  <2> QED
    BY <1>1, <1>2, <1>3, <2>1
<1>10. CASE Submit
  <2>1. Render(panel, <<Event("send", Mounted(panel), NoMsg)>>) /\ UserActs
    BY <1>10 DEF Submit
  <2> QED
    BY <1>1, <1>2, <1>3, <2>1
<1>11. CASE PressStop
  <2>1. Render(panel, <<Event("stop", Mounted(panel), NoMsg)>>) /\ UserActs
    BY <1>11 DEF PressStop
  <2> QED
    BY <1>1, <1>2, <1>3, <2>1
<1> QED
  BY <1>5, <1>6, <1>7, <1>8, <1>9, <1>10, <1>11

LEMMA FreshFields ==
  /\ DOMAIN FreshPanel = PanelFields /\ FreshPanel.list = <<>> /\ ToSet(FreshPanel.list) = {}
  /\ Mounted(FreshPanel) = NoThread /\ FreshPanel.streaming = NoMsg
<1>1. PICK p : p = FreshPanel
  OBVIOUS
<1>2. DOMAIN p = PanelFields /\ p.list = <<>> /\ p.selected = NoThread /\ p.streaming = NoMsg
  BY <1>1 DEF FreshPanel, PanelFields
<1>3. PICK list : list = p.list /\ list = <<>>
  BY <1>2
<1>4. ToSet(list) = {}
  BY <1>3 DEF ToSet
<1>5. Mounted(p) = NoThread
  BY <1>2, <1>3, <1>4 DEF Mounted
<1> QED
  BY <1>1, <1>2, <1>3, <1>4, <1>5

LEMMA ReopenKeepsPanel ==
  ASSUME AgentInv, PanelInv, Reopen
  PROVE  PanelInv'
<1>1. /\ panel' = FreshPanel /\ toMain' = toMain \o Opening /\ toPanel' = toPanel /\ MainUntouched
  BY DEF Reopen, UserActs, main, counters, MainUntouched
<1>2. Pipe(toMain') /\ JoinedTo(toMain', toMain, Opening)
  BY <1>1, OpeningAsks, PipeJoined DEF PanelInv
<1>3. Requested(toMain', "agents", NoThread) /\ Requested(toMain', "threads", NoThread)
  BY <1>2, OpeningAsks, RequestJoined
<1>4. Arrives(toMain', toPanel', "agents", panel'.agents, agents')
  BY <1>1, <1>3, ArrivesAsked DEF PanelInv, MainUntouched
<1>5. Arrives(toMain', toPanel', "threads", panel'.list, store'.threads)
  BY <1>1, <1>3, ArrivesAsked DEF PanelInv, MainUntouched
<1>6. AllBorn(born', panel', toPanel', store', saved')
  BY <1>1, FreshFields DEF PanelInv, AllBorn, MainUntouched
<1>7. ShownFollows(panel', toMain', toPanel', store')
  <2>1. Mounted(panel') = NoThread /\ NoThread \notin DOMAIN store'.messages
    BY <1>1, FreshFields, MessagesOfThreads, AgentAssumption DEF MainUntouched
  <2> QED
    BY <2>1 DEF ShownFollows
<1>8. StreamingServed(panel', turns', toPanel') /\ StartsServed(turns', toPanel')
  BY <1>1, FreshFields DEF PanelInv, StreamingServed, MainUntouched
<1>9. DOMAIN panel' = PanelFields /\ Pipe(toPanel')
  BY <1>1, FreshFields DEF PanelInv
<1>10. \A i \in 1..Len(toPanel') : toPanel'[i].kind \in EventKinds
  BY <1>1 DEF PanelInv
<1> QED
  BY <1>2, <1>4, <1>5, <1>6, <1>7, <1>8, <1>9, <1>10 DEF PanelInv

(* Pipes are empty, and both lists are requested.                            *)
LEMMA PanelOpens ==
  ASSUME NEW b, NEW s, NEW d, NEW ts, NEW ags, NEW q, q = <<>>,
         DOMAIN s.messages \subseteq b, DOMAIN d.messages \subseteq b, NoThread \notin DOMAIN s.messages
  PROVE  /\ Pipe(q) /\ \A i \in 1..Len(q) : q[i].kind \in EventKinds
         /\ Arrives(Opening, q, "agents", FreshPanel.agents, ags)
         /\ Arrives(Opening, q, "threads", FreshPanel.list, s.threads)
         /\ AllBorn(b, FreshPanel, q, s, d)
         /\ ShownFollows(FreshPanel, Opening, q, s)
         /\ StreamingServed(FreshPanel, ts, q) /\ StartsServed(ts, q)
<1>1. Pipe(q) /\ Len(q) = 0
  BY PipeTuples
<1>2. 1..0 = {}
  OBVIOUS
<1>3. \A i \in 1..Len(q) : FALSE
  BY <1>1, <1>2
<1>4. /\ Arrives(Opening, q, "agents", FreshPanel.agents, ags)
      /\ Arrives(Opening, q, "threads", FreshPanel.list, s.threads)
  BY <1>3, OpeningAsks DEF Arrives
<1>5. AllBorn(b, FreshPanel, q, s, d)
  BY <1>3, FreshFields DEF AllBorn
<1>6. ShownFollows(FreshPanel, Opening, q, s)
  BY FreshFields DEF ShownFollows
<1>7. StreamingServed(FreshPanel, ts, q) /\ StartsServed(ts, q)
  BY <1>3, FreshFields DEF StreamingServed, StartsServed
<1> QED
  BY <1>1, <1>3, <1>4, <1>5, <1>6, <1>7

LEMMA CrashKeepsPanel ==
  ASSUME AgentInv, AgentInv', PanelInv, Crash
  PROVE  PanelInv'
<1>1. PICK s \in {saved, Empty} : store' = s /\ saved' = s
  BY DEF Crash, Persist
<1>2. /\ panel' = FreshPanel /\ toPanel' = <<>> /\ toMain' = Opening /\ born' = born
  BY DEF Crash, counters
<1>3. DOMAIN s.messages \subseteq born
  <2>1. CASE s = saved
    BY <2>1 DEF PanelInv, AllBorn
  <2>2. CASE s = Empty
    <3>1. s.messages = <<>>
      BY <2>2 DEF Empty
    <3>2. PICK map : map = <<>> /\ DOMAIN map = {}
      OBVIOUS
    <3> QED
      BY <3>1, <3>2
  <2> QED
    BY <1>1, <2>1, <2>2
<1>4. NoThread \notin DOMAIN s.messages
  <2>1. StoreSound(s, ids'.msg)
    BY <1>1 DEF AgentInv
  <2> QED
    BY <2>1, AgentAssumption DEF StoreSound, MessageLists
<1>5. PICK q : q = toPanel' /\ q = <<>>
  BY <1>2
<1>6. /\ Pipe(q) /\ \A i \in 1..Len(q) : q[i].kind \in EventKinds
      /\ Arrives(Opening, q, "agents", FreshPanel.agents, agents')
      /\ Arrives(Opening, q, "threads", FreshPanel.list, s.threads)
      /\ AllBorn(born, FreshPanel, q, s, s)
      /\ ShownFollows(FreshPanel, Opening, q, s)
      /\ StreamingServed(FreshPanel, turns', q) /\ StartsServed(turns', q)
  BY <1>3, <1>4, <1>5, PanelOpens
<1>7. DOMAIN panel' = PanelFields /\ Pipe(toMain')
  BY <1>2, FreshFields, OpeningAsks
<1> QED
  BY <1>1, <1>2, <1>5, <1>6, <1>7 DEF PanelInv

LEMMA PanelStarts ==
  ASSUME AgentInit
  PROVE  PanelInv
<1>1. /\ store = Empty /\ saved = Empty /\ panel = FreshPanel /\ toPanel = <<>> /\ toMain = Opening
  BY DEF AgentInit
<1>2. DOMAIN Empty.messages = {}
  <2>1. PICK map : map = <<>> /\ DOMAIN map = {}
    OBVIOUS
  <2>2. Empty.messages = map
    BY <2>1 DEF Empty
  <2> QED
    BY <2>1, <2>2
<1>3. PICK q : q = toPanel /\ q = <<>>
  BY <1>1
<1>4. /\ Pipe(q) /\ \A i \in 1..Len(q) : q[i].kind \in EventKinds
      /\ Arrives(Opening, q, "agents", FreshPanel.agents, agents)
      /\ Arrives(Opening, q, "threads", FreshPanel.list, Empty.threads)
      /\ AllBorn(born, FreshPanel, q, Empty, Empty)
      /\ ShownFollows(FreshPanel, Opening, q, Empty)
      /\ StreamingServed(FreshPanel, turns, q) /\ StartsServed(turns, q)
  BY <1>2, <1>3, PanelOpens
<1>5. DOMAIN panel = PanelFields /\ Pipe(toMain)
  BY <1>1, FreshFields, OpeningAsks
<1> QED
  BY <1>1, <1>3, <1>4, <1>5 DEF PanelInv

-----------------------------------------------------------------------------
(* An event of a conversation: it is shown if the conversation is mounted.   *)
ConversationTook(e) ==
  /\ DOMAIN panel' = PanelFields
  /\ panel'.agents = panel.agents /\ panel'.list = panel.list /\ Mounted(panel') = Mounted(panel)
  /\ panel'.shown = Applied(panel.shown, e, Mounted(panel))
  /\ \/ panel'.streaming = NoMsg
     \/ panel'.streaming = panel.streaming /\ ~Ends(e, Mounted(panel), panel.streaming)
     \/ IsStart(e) /\ e.thread = Mounted(panel) /\ panel'.streaming = StartId(e)

LEMMA ConversationTakes ==
  ASSUME DOMAIN panel = PanelFields, NEW e, e.kind \in EventKinds \ {"agents", "threads"},
         panel' = IF ~Ours(e.thread) THEN panel
                  ELSE CASE e.kind = "messages" -> [panel EXCEPT !.shown = e.body]
                   [] e.kind = "added" ->
                        [panel EXCEPT !.shown = Append(@, e.body),
                                  !.streaming = IF e.body.role = "assistant"
                                                THEN e.body.id ELSE @]
                   [] e.kind = "chunk" ->
                        [panel EXCEPT !.shown = WithChunk(@, e.body[1], e.body[2])]
                   [] e.kind = "done" ->
                        [panel EXCEPT !.streaming = IF @ = e.body THEN NoMsg ELSE @]
                   [] e.kind = "error" ->
                        [panel EXCEPT !.streaming = IF @ = e.body THEN NoMsg ELSE @,
                                  !.shown = WithError(@, e.body)]
                   [] e.kind = "retry" ->
                        [panel EXCEPT !.streaming = e.body, !.shown = Blank(@, e.body)]
  PROVE  ConversationTook(e)
<1> DEFINE Became(shown, streaming) ==
             /\ DOMAIN panel' = PanelFields
             /\ panel'.agents = panel.agents /\ panel'.list = panel.list
             /\ panel'.selected = panel.selected
             /\ panel'.shown = shown /\ panel'.streaming = streaming
<1>1. CASE ~Ours(e.thread)
  <2>1. panel' = panel /\ e.thread # Mounted(panel)
    BY <1>1 DEF Ours
  <2> QED
    BY <2>1, AppliedElsewhere DEF ConversationTook, Ends
<1>2. CASE Ours(e.thread)
  <2>0. e.thread = Mounted(panel)
    BY <1>2 DEF Ours
  <2>1. ASSUME NEW shown, NEW streaming, Became(shown, streaming),
               shown = Applied(panel.shown, e, Mounted(panel)),
               \/ streaming = NoMsg
               \/ streaming = panel.streaming /\ ~Ends(e, Mounted(panel), panel.streaming)
               \/ IsStart(e) /\ streaming = StartId(e)
        PROVE  ConversationTook(e)
    <3>1. Mounted(panel') = Mounted(panel)
      BY <2>1 DEF Mounted
    <3> QED
      BY <2>0, <2>1, <3>1 DEF ConversationTook
  <2>2. CASE e.kind = "messages"
    <3>1. Became(e.body, panel.streaming)
      BY <1>2, <2>2 DEF PanelFields
    <3> QED
      BY <2>0, <2>1, <2>2, <3>1 DEF Applied, Ends
  <2>3. CASE e.kind = "added" /\ e.body.role = "assistant"
    <3>1. Became(Append(panel.shown, e.body), e.body.id)
      BY <1>2, <2>3 DEF PanelFields
    <3> QED
      BY <2>0, <2>1, <2>3, <3>1 DEF Applied, IsStart, StartId
  <2>4. CASE e.kind = "added" /\ e.body.role # "assistant"
    <3>1. Became(Append(panel.shown, e.body), panel.streaming)
      BY <1>2, <2>4 DEF PanelFields
    <3> QED
      BY <2>0, <2>1, <2>4, <3>1 DEF Applied, Ends
  <2>5. CASE e.kind = "chunk"
    <3>1. Became(WithChunk(panel.shown, e.body[1], e.body[2]), panel.streaming)
      BY <1>2, <2>5 DEF PanelFields
    <3> QED
      BY <2>0, <2>1, <2>5, <3>1 DEF Applied, Ends
  <2>6. CASE e.kind = "done"
    <3>1. Became(panel.shown, IF panel.streaming = e.body THEN NoMsg ELSE panel.streaming)
      BY <1>2, <2>6 DEF PanelFields
    <3>2. Applied(panel.shown, e, Mounted(panel)) = panel.shown
      BY <2>6, AppliedElsewhere
    <3> QED
      BY <2>0, <2>1, <2>6, <3>1, <3>2 DEF Ends
  <2>7. CASE e.kind = "error"
    <3>1. Became(WithError(panel.shown, e.body),
                 IF panel.streaming = e.body THEN NoMsg ELSE panel.streaming)
      BY <1>2, <2>7 DEF PanelFields
    <3> QED
      BY <2>0, <2>1, <2>7, <3>1 DEF Applied, Ends
  <2>8. CASE e.kind = "retry"
    <3>1. Became(Blank(panel.shown, e.body), e.body)
      BY <1>2, <2>8 DEF PanelFields
    <3> QED
      BY <2>0, <2>1, <2>8, <3>1 DEF Applied, IsStart, StartId
  <2> QED
    BY <2>2, <2>3, <2>4, <2>5, <2>6, <2>7, <2>8 DEF EventKinds
<1> QED
  BY <1>1, <1>2
LEMMA ConversationKeepsPanel ==
  ASSUME AgentInv, PanelInv, MainUntouched, toMain' = toMain,
         Pipe(toPanel'), TakenFrom(toPanel', toPanel),
         NEW e, e = toPanel[1], e.kind \notin {"agents", "threads"}, ConversationTook(e)
  PROVE  PanelInv'
<1>0. 1 \in 1..Len(toPanel)
  BY TakenPlaces
<1>1. Arrives(toMain', toPanel', "agents", panel'.agents, agents')
  <2>1. panel'.agents = panel.agents /\ Arrives(toMain, toPanel, "agents", panel.agents, agents)
    BY DEF ConversationTook, PanelInv
  <2>2. Arrives(toMain', toPanel', "agents", panel'.agents, agents)
    BY <2>1, ArrivesTaken
  <2> QED
    BY <2>2 DEF MainUntouched
<1>2. Arrives(toMain', toPanel', "threads", panel'.list, store'.threads)
  <2>1. panel'.list = panel.list /\ Arrives(toMain, toPanel, "threads", panel.list, store.threads)
    BY DEF ConversationTook, PanelInv
  <2>2. Arrives(toMain', toPanel', "threads", panel'.list, store.threads)
    BY <2>1, ArrivesTaken
  <2> QED
    BY <2>2 DEF MainUntouched
<1>3. AllBorn(born', panel', toPanel', store', saved')
  <2>1. AllBorn(born, panel, toPanel, store, saved)
    BY DEF PanelInv
  <2>2. ASSUME NEW i \in 1..Len(toPanel'), toPanel'[i].kind = "threads"
        PROVE  ToSet(toPanel'[i].body) \subseteq born
    <3>1. i + 1 \in 1..Len(toPanel) /\ toPanel'[i] = toPanel[i + 1]
      BY TakenPlaces
    <3> QED
      BY <2>1, <2>2, <3>1 DEF AllBorn
  <2> QED
    BY <2>1, <2>2 DEF AllBorn, MainUntouched, ConversationTook
<1>4. ShownFollows(panel', toMain', toPanel', store')
  <2>1. ASSUME NEW t \in DOMAIN store.messages, t = Mounted(panel')
        PROVE  Requested(toMain, "messages", t) \/ Tracks(toPanel', panel'.shown, t, store.messages[t])
    <3>1. t = Mounted(panel) /\ panel'.shown = Applied(panel.shown, toPanel[1], t)
      BY <2>1 DEF ConversationTook
    <3>2. Requested(toMain, "messages", t) \/ Tracks(toPanel, panel.shown, t, store.messages[t])
      BY <3>1 DEF PanelInv, ShownFollows
    <3> QED
      BY <3>1, <3>2, TracksTaken
  <2> QED
    BY <2>1 DEF ShownFollows, MainUntouched
<1>5. StreamingServed(panel', turns', toPanel')
  <2>1. ASSUME panel'.streaming # NoMsg PROVE Served(turns, toPanel', Mounted(panel'), panel'.streaming, 0)
    <3>1. Mounted(panel') = Mounted(panel) /\ 0 \in 0..Len(toPanel')
      BY DEF ConversationTook, TakenFrom
    <3>2. CASE panel'.streaming = panel.streaming /\ ~Ends(e, Mounted(panel), panel.streaming)
      <4>1. Served(turns, toPanel, Mounted(panel), panel.streaming, 0)
        BY <2>1, <3>2 DEF PanelInv, StreamingServed
      <4> QED
        BY <3>1, <3>2, <4>1, ServedTaken
    <3>3. CASE IsStart(e) /\ e.thread = Mounted(panel) /\ panel'.streaming = StartId(e)
      BY <3>1, <3>3, StartsTaken DEF PanelInv
    <3> QED
      BY <2>1, <3>2, <3>3 DEF ConversationTook
  <2> QED
    BY <2>1 DEF StreamingServed, MainUntouched
<1>6. StartsServed(turns', toPanel')
  BY StartsTaken DEF PanelInv, MainUntouched
<1>7. DOMAIN panel' = PanelFields /\ Pipe(toMain') /\ Pipe(toPanel')
  BY DEF ConversationTook, PanelInv
<1>8. \A i \in 1..Len(toPanel') : toPanel'[i].kind \in EventKinds
  BY TakenPlaces DEF PanelInv
<1> QED
  BY <1>1, <1>2, <1>3, <1>4, <1>5, <1>6, <1>7, <1>8 DEF PanelInv

LEMMA DeliverKeepsPanel ==
  ASSUME AgentInv, PanelInv, Deliver
  PROVE  PanelInv'
<1>1. PICK e : e = Head(toPanel)
  OBVIOUS
<1>2. toPanel # <<>> /\ toPanel' = Tail(toPanel) /\ MainUntouched
  BY DEF Deliver, main, counters, MainUntouched
<1>3. Pipe(toPanel') /\ TakenFrom(toPanel', toPanel) /\ e = toPanel[1]
  BY <1>1, <1>2, PipeTaken DEF PanelInv
<1>4. e.kind \in EventKinds
  BY <1>3, TakenPlaces DEF PanelInv
<1>5. Pipe(toMain) /\ DOMAIN panel = PanelFields
  BY DEF PanelInv
<1>6. ASSUME NEW p, Render(p, <<>>), e.kind \in {"agents", "threads"}, DOMAIN p = PanelFields,
             p.agents = IF e.kind = "agents" THEN e.body ELSE panel.agents,
             p.list = IF e.kind = "threads" THEN e.body ELSE panel.list,
             p.shown = panel.shown, p.streaming = panel.streaming
      PROVE  PanelInv'
  <2>1. Rendered(p)
    BY <1>5, <1>6, PipeTuples, Renders
  <2> QED
    BY <1>2, <1>3, <1>6, <2>1, ListRendered
<1>7. CASE e.kind = "agents"
  <2>1. PICK p : p = [panel EXCEPT !.agents = e.body]
    OBVIOUS
  <2>2. Render(p, <<>>)
    BY <1>1, <1>7, <2>1 DEF Deliver
  <2>3. /\ DOMAIN p = PanelFields /\ p.agents = e.body /\ p.list = panel.list
        /\ p.shown = panel.shown /\ p.streaming = panel.streaming
    BY <1>5, <2>1 DEF PanelFields
  <2> QED
    BY <1>6, <1>7, <2>2, <2>3
<1>8. CASE e.kind = "threads"
  <2>1. ASSUME NEW p, Render(p, <<>>), DOMAIN p = PanelFields, p.agents = panel.agents,
               p.list = e.body, p.shown = panel.shown, p.streaming = panel.streaming
        PROVE  PanelInv'
    BY <1>6, <1>8, <2>1
  <2>2. CASE panel.awaiting /\ e.body # <<>>
    <3>1. PICK p : p = [panel EXCEPT !.list = e.body, !.awaiting = FALSE, !.selected = e.body[1]]
      OBVIOUS
    <3>2. Render(p, <<>>)
      BY <1>1, <1>8, <2>2, <3>1 DEF Deliver
    <3>3. /\ DOMAIN p = PanelFields /\ p.agents = panel.agents /\ p.list = e.body
          /\ p.shown = panel.shown /\ p.streaming = panel.streaming
      BY <1>5, <3>1 DEF PanelFields
    <3> QED
      BY <2>1, <3>2, <3>3
  <2>3. CASE ~(panel.awaiting /\ e.body # <<>>)
    <3>1. PICK p : p = [panel EXCEPT !.list = e.body]
      OBVIOUS
    <3>2. Render(p, <<>>)
      BY <1>1, <1>8, <2>3, <3>1 DEF Deliver
    <3>3. /\ DOMAIN p = PanelFields /\ p.agents = panel.agents /\ p.list = e.body
          /\ p.shown = panel.shown /\ p.streaming = panel.streaming
      BY <1>5, <3>1 DEF PanelFields
    <3> QED
      BY <2>1, <3>2, <3>3
  <2> QED
    BY <2>2, <2>3
<1>9. CASE e.kind \notin {"agents", "threads"}
  <2>1. toMain' = toMain
    BY <1>1, <1>9 DEF Deliver
  <2>2. ConversationTook(e)
    BY <1>1, <1>4, <1>5, <1>9, ConversationTakes DEF Deliver
  <2> QED
    BY <1>2, <1>3, <1>9, <2>1, <2>2, ConversationKeepsPanel
<1> QED
  BY <1>7, <1>8, <1>9

-----------------------------------------------------------------------------
(* What the main process tells the panel.                                    *)

(* Each open conversation gets every change of its messages, or all of them. *)
Carries(mm, r, new) ==
  \A t \in DOMAIN new.messages :
    \/ t \notin born
    \/ \A first : Tracks(r, first, t, new.messages[t])
    \/ /\ t \in DOMAIN store.messages
       /\ Requested(toMain, "messages", t) => Requested(mm, "messages", t)
       /\ \A first : Tracks(toPanel, first, t, store.messages[t])
                       => Tracks(r, first, t, new.messages[t])

Told(news) ==
  /\ panel' = panel /\ Pipe(toMain') /\ toPanel' = toPanel \o news /\ Pipe(news)
  /\ \A i \in 1..Len(news) : news[i].kind \in EventKinds
  /\ Answers(toMain, toMain', news, "agents", agents, agents')
  /\ Answers(toMain, toMain', news, "threads", store.threads, store'.threads)
  /\ TurnsAnswered(turns, turns', news) /\ StartsServed(turns', news)
  /\ born \subseteq born' /\ DOMAIN store'.messages \subseteq born' /\ saved' \in {saved, store'}

LEMMA ToldKeepsPanel ==
  ASSUME AgentInv, AgentInv', PanelInv, NEW news, Told(news), Carries(toMain', toPanel', store')
  PROVE  PanelInv'
<1>1. Pipe(toPanel') /\ JoinedTo(toPanel', toPanel, news)
  BY PipeJoined DEF Told, PanelInv
<1>2. Arrives(toMain', toPanel', "agents", panel'.agents, agents')
  BY <1>1, ArrivesTold DEF Told, PanelInv
<1>3. Arrives(toMain', toPanel', "threads", panel'.list, store'.threads)
  BY <1>1, ArrivesTold DEF Told, PanelInv
<1>4. AllBorn(born', panel', toPanel', store', saved')
  <2>1. AllBorn(born, panel, toPanel, store, saved)
    BY DEF PanelInv
  <2>2. ToSet(store'.threads) = DOMAIN store'.messages
    BY ThreadsListed DEF AgentInv
  <2>3. ASSUME NEW i \in 1..Len(toPanel'), toPanel'[i].kind = "threads"
        PROVE  ToSet(toPanel'[i].body) \subseteq born'
    <3>1. CASE i \in 1..Len(toPanel) /\ toPanel'[i] = toPanel[i]
      BY <2>1, <2>3, <3>1 DEF AllBorn, Told
    <3>2. CASE \E a \in 1..Len(news) : toPanel'[i] = news[a]
      <4>1. toPanel'[i].body = store'.threads
        BY <2>3, <3>2 DEF Told, Answers
      <4> QED
        BY <2>2, <4>1 DEF Told
    <3> QED
      BY <1>1, <3>1, <3>2, NewOrOld
  <2>4. DOMAIN saved'.messages \subseteq born'
    BY <2>1 DEF AllBorn, Told
  <2> QED
    BY <2>1, <2>3, <2>4 DEF AllBorn, Told
<1>5. ShownFollows(panel', toMain', toPanel', store')
  <2>1. ASSUME NEW t \in DOMAIN store'.messages, t = Mounted(panel)
        PROVE  Requested(toMain', "messages", t) \/ Tracks(toPanel', panel.shown, t, store'.messages[t])
    <3>1. StoreSound(store', ids'.msg)
      BY DEF AgentInv
    <3>2. t # NoThread
      BY <3>1, AgentAssumption DEF StoreSound, MessageLists
    <3>3. t \in ToSet(panel.list)
      BY <2>1, <3>2 DEF Mounted
    <3>4. t \in born
      BY <3>3 DEF PanelInv, AllBorn
    <3>5. t \in DOMAIN store.messages
            => Requested(toMain, "messages", t) \/ Tracks(toPanel, panel.shown, t, store.messages[t])
      BY <2>1 DEF PanelInv, ShownFollows
    <3> QED
      BY <3>4, <3>5 DEF Carries
  <2> QED
    BY <2>1 DEF ShownFollows, Told
<1>6. StreamingServed(panel', turns', toPanel')
  <2>1. ASSUME panel.streaming # NoMsg PROVE Served(turns', toPanel', Mounted(panel), panel.streaming, 0)
    <3>1. Served(turns, toPanel, Mounted(panel), panel.streaming, 0)
      BY <2>1 DEF PanelInv, StreamingServed
    <3>2. 0 \in 0..Len(toPanel)
      BY <1>1 DEF JoinedTo
    <3> QED
      BY <1>1, <3>1, <3>2, ServedTold DEF Told
  <2> QED
    BY <2>1 DEF StreamingServed, Told
<1>7. StartsServed(turns', toPanel')
  BY <1>1, StartsTold DEF PanelInv, Told
<1>8. DOMAIN panel' = PanelFields /\ Pipe(toMain')
  BY DEF PanelInv, Told
<1>9. \A i \in 1..Len(toPanel') : toPanel'[i].kind \in EventKinds
  <2>1. ASSUME NEW i \in 1..Len(toPanel') PROVE toPanel'[i].kind \in EventKinds
    BY <1>1, NewOrOld DEF PanelInv, Told
  <2> QED
    BY <2>1
<1> QED
  BY <1>1, <1>2, <1>3, <1>4, <1>5, <1>6, <1>7, <1>8, <1>9 DEF PanelInv
LEMMA HeadTaken ==
  ASSUME PanelInv, NEW kind, Receives(kind)
  PROVE  /\ panel' = panel /\ Pipe(toMain') /\ Head(toMain).kind = kind
         /\ \A k, t : Requested(toMain, k, t) /\ ~(k = kind /\ t = Head(toMain).thread)
                        => Requested(toMain', k, t)
<1>1. /\ toMain # <<>> /\ Head(toMain).kind = kind /\ toMain' = Tail(toMain) /\ panel' = panel
  BY DEF Receives
<1>2. Pipe(toMain') /\ TakenFrom(toMain', toMain) /\ Head(toMain) = toMain[1]
  BY <1>1, PipeTaken DEF PanelInv
<1>3. \A k, t : Requested(toMain, k, t) /\ ~(k = kind /\ t = Head(toMain).thread)
                  => Requested(toMain', k, t)
  BY <1>1, <1>2, RequestTaken
<1> QED
  BY <1>1, <1>2, <1>3

(* The requests that are answered by what they ask for wait as before.       *)
RequestsKept ==
  \A kind \in {"agents", "threads", "messages"} : \A t :
    Requested(toMain, kind, t) => Requested(toMain', kind, t)

LEMMA NothingTold ==
  ASSUME AgentInv, AgentInv', PanelInv, UNCHANGED <<panel, store, saved, agents, toPanel, born>>,
         Pipe(toMain'), RequestsKept,
         \A k \in DOMAIN turns : /\ k \in DOMAIN turns' /\ turns'[k].thread = turns[k].thread
                                 /\ turns'[k].msg = turns[k].msg
  PROVE  PanelInv'
<1>1. PICK none : none = <<>> /\ Pipe(none) /\ Len(none) = 0
  BY PipeTuples
<1>2. \A i \in 1..Len(none) : FALSE
  BY <1>1
<1>3. toPanel' = toPanel \o none
  <2>1. PICK S : toPanel \in Seq(S)
    BY DEF PanelInv, Pipe
  <2>2. toPanel \o <<>> = toPanel
    BY <2>1, ConcatEmptySeq
  <2> QED
    BY <1>1, <2>2
<1>4. /\ Answers(toMain, toMain', none, "agents", agents, agents')
      /\ Answers(toMain, toMain', none, "threads", store.threads, store'.threads)
  BY <1>2 DEF Answers, RequestsKept
<1>5. TurnsAnswered(turns, turns', none) /\ StartsServed(turns', none)
  BY <1>2 DEF TurnsAnswered, StartsServed
<1>6. DOMAIN store.messages \subseteq born
  BY DEF PanelInv, AllBorn
<1>7. Told(none)
  BY <1>1, <1>2, <1>3, <1>4, <1>5, <1>6 DEF Told
<1>8. Carries(toMain', toPanel', store')
  BY DEF Carries, RequestsKept
<1> QED
  BY <1>7, <1>8, ToldKeepsPanel

(* One event, or two.                                                        *)
LEMMA AnswersOne ==
  ASSUME NEW m, NEW mm, NEW e, NEW kind, NEW old, NEW new, e.kind = kind => e.body = new,
         \/ e.kind = kind
         \/ new = old /\ (Requested(m, kind, NoThread) => Requested(mm, kind, NoThread))
  PROVE  Answers(m, mm, <<e>>, kind, old, new)
<1>1. PICK news : news = <<e>> /\ Len(news) = 1 /\ news[1] = e
  BY PipeTuples
<1>2. 1 \in 1..1 /\ \A i \in 1..1 : i = 1
  OBVIOUS
<1>3. Answers(m, mm, news, kind, old, new)
  BY <1>1, <1>2 DEF Answers
<1> QED
  BY <1>1, <1>3

LEMMA OneTold ==
  ASSUME AgentInv, AgentInv', PanelInv, panel' = panel, Pipe(toMain'),
         NEW e, toPanel' = toPanel \o <<e>>, e.kind \in EventKinds, ~IsStart(e),
         e.kind = "agents" => e.body = agents',
         \/ e.kind = "agents"
         \/ agents' = agents /\ (Requested(toMain, "agents", NoThread) => Requested(toMain', "agents", NoThread)),
         e.kind = "threads" => e.body = store'.threads,
         \/ e.kind = "threads"
         \/ /\ store'.threads = store.threads
            /\ Requested(toMain, "threads", NoThread) => Requested(toMain', "threads", NoThread),
         \A k \in DOMAIN turns : /\ k \in DOMAIN turns' /\ turns'[k].thread = turns[k].thread
                                 /\ turns'[k].msg = turns[k].msg,
         born \subseteq born', DOMAIN store'.messages \subseteq born', saved' \in {saved, store'},
         Carries(toMain', toPanel', store')
  PROVE  PanelInv'
<1>1. PICK news : news = <<e>> /\ Pipe(news) /\ Len(news) = 1 /\ news[1] = e
  BY PipeTuples
<1>2. \A i \in 1..Len(news) : news[i] = e
  <2>1. \A i \in 1..1 : i = 1
    OBVIOUS
  <2> QED
    BY <1>1, <2>1
<1>3. Answers(toMain, toMain', news, "agents", agents, agents')
  BY <1>1, AnswersOne
<1>4. Answers(toMain, toMain', news, "threads", store.threads, store'.threads)
  BY <1>1, AnswersOne
<1>5. TurnsAnswered(turns, turns', news) /\ StartsServed(turns', news)
  BY <1>2 DEF TurnsAnswered, StartsServed
<1>6. Told(news)
  BY <1>1, <1>2, <1>3, <1>4, <1>5 DEF Told
<1> QED
  BY <1>6, ToldKeepsPanel

(* An event about something else changes nothing that is shown for t.        *)
LEMMA TracksPast ==
  ASSUME Pipe(toPanel), NEW e, NEW first, NEW t, NEW list, Tracks(toPanel, first, t, list)
  PROVE  Tracks(toPanel \o <<e>>, first, t, Applied(list, e, t))
<1>1. PICK news : news = <<e>> /\ Pipe(news)
  BY PipeTuples
<1>2. JoinedTo(toPanel \o news, toPanel, news)
  BY <1>1, PipeJoined
<1> QED
  BY <1>1, <1>2, TracksTold

LEMMA RequestsKeepPanel ==
  ASSUME AgentInv, AgentInv', PanelInv,
         HandleRequestAgents \/ HandleRequestThreads \/ HandleRequestMessages
  PROVE  PanelInv'
<1>1. /\ Pipe(toPanel) /\ DOMAIN store.messages \subseteq born
  BY DEF PanelInv, AllBorn
<1>2. CASE HandleRequestAgents
  <2>1. /\ Receives("agents") /\ toPanel' = toPanel \o <<Event("agents", NoThread, agents)>>
        /\ UNCHANGED <<store, saved, agents, turns, born>>
    BY <1>2 DEF HandleRequestAgents, Tell, main, counters
  <2>2. PICK e : /\ e = Event("agents", NoThread, agents)
                 /\ e.kind = "agents" /\ e.body = agents
    BY EventFields
  <2>3. /\ panel' = panel /\ Pipe(toMain')
        /\ \A t : Requested(toMain, "threads", t) => Requested(toMain', "threads", t)
        /\ \A t : Requested(toMain, "messages", t) => Requested(toMain', "messages", t)
    BY <2>1, HeadTaken
  <2>4. \A list, t : Applied(list, e, t) = list
    BY <2>2, AppliedElsewhere
  <2>5. toPanel' = toPanel \o <<e>>
    BY <2>1, <2>2
  <2>6. Carries(toMain', toPanel', store')
    BY <1>1, <2>1, <2>3, <2>4, <2>5, TracksPast DEF Carries
  <2>7. e.kind \in EventKinds /\ ~IsStart(e)
    BY <2>2 DEF EventKinds, IsStart
  <2> QED
    BY <1>1, <2>1, <2>2, <2>3, <2>5, <2>6, <2>7, OneTold
<1>3. CASE HandleRequestThreads
  <2>1. /\ Receives("threads") /\ toPanel' = toPanel \o <<ThreadList(store)>>
        /\ UNCHANGED <<store, saved, agents, turns, born>>
    BY <1>3 DEF HandleRequestThreads, Tell, main, counters
  <2>2. PICK e : /\ e = ThreadList(store)
                 /\ e.kind = "threads" /\ e.body = store.threads
    BY EventFields DEF ThreadList
  <2>3. /\ panel' = panel /\ Pipe(toMain')
        /\ \A t : Requested(toMain, "agents", t) => Requested(toMain', "agents", t)
        /\ \A t : Requested(toMain, "messages", t) => Requested(toMain', "messages", t)
    BY <2>1, HeadTaken
  <2>4. \A list, t : Applied(list, e, t) = list
    BY <2>2, AppliedElsewhere
  <2>5. toPanel' = toPanel \o <<e>>
    BY <2>1, <2>2
  <2>6. Carries(toMain', toPanel', store')
    BY <1>1, <2>1, <2>3, <2>4, <2>5, TracksPast DEF Carries
  <2>7. e.kind \in EventKinds /\ ~IsStart(e)
    BY <2>2 DEF EventKinds, IsStart
  <2> QED
    BY <1>1, <2>1, <2>2, <2>3, <2>5, <2>6, <2>7, OneTold
<1>4. CASE HandleRequestMessages
  <2>0. PICK t : t = Head(toMain).thread
    OBVIOUS
  <2>1. /\ Receives("messages")
        /\ toPanel' = toPanel \o <<Event("messages", t, MessagesOf(store, t))>>
        /\ UNCHANGED <<store, saved, agents, turns, born>>
    BY <1>4, <2>0 DEF HandleRequestMessages, Tell, main, counters
  <2>2. PICK e : /\ e = Event("messages", t, MessagesOf(store, t))
                 /\ e.kind = "messages" /\ e.thread = t /\ e.body = MessagesOf(store, t)
    BY EventFields
  <2>3. /\ panel' = panel /\ Pipe(toMain')
        /\ \A x : Requested(toMain, "agents", x) => Requested(toMain', "agents", x)
        /\ \A x : Requested(toMain, "threads", x) => Requested(toMain', "threads", x)
        /\ \A x : Requested(toMain, "messages", x) /\ x # t => Requested(toMain', "messages", x)
    BY <2>0, <2>1, HeadTaken
  <2>4. toPanel' = toPanel \o <<e>>
    BY <2>1, <2>2
  <2>5. ASSUME NEW x \in DOMAIN store.messages, x # t
        PROVE  /\ Requested(toMain, "messages", x) => Requested(toMain', "messages", x)
               /\ \A first : Tracks(toPanel, first, x, store.messages[x])
                               => Tracks(toPanel', first, x, store.messages[x])
    <3>1. Applied(store.messages[x], e, x) = store.messages[x]
      BY <2>2, <2>5, AppliedElsewhere
    <3> QED
      BY <1>1, <2>3, <2>4, <2>5, <3>1, TracksPast
  <2>6. ASSUME t \in DOMAIN store.messages, NEW first PROVE Tracks(toPanel', first, t, store.messages[t])
    <3>1. e.body = store.messages[t]
      BY <2>2, <2>6 DEF MessagesOf
    <3>2. PICK news : news = <<e>> /\ Pipe(news)
      BY PipeTuples
    <3>3. JoinedTo(toPanel', toPanel, <<e>>)
      BY <1>1, <2>4, <3>2, PipeJoined
    <3> QED
      BY <2>2, <3>1, <3>3, TracksAnew
  <2>7. Carries(toMain', toPanel', store')
    BY <2>1, <2>5, <2>6 DEF Carries
  <2>8. e.kind \in EventKinds /\ ~IsStart(e)
    BY <2>2 DEF EventKinds, IsStart
  <2> QED
    BY <1>1, <2>1, <2>2, <2>3, <2>4, <2>7, <2>8, OneTold
<1> QED
  BY <1>2, <1>3, <1>4
(* A step that tells the new list of threads, and leaves the messages of     *)
(* every thread that it keeps.                                               *)
LEMMA ListTold ==
  ASSUME AgentInv, AgentInv', PanelInv, panel' = panel, agents' = agents, Pipe(toMain'), RequestsKept,
         NEW e, e.kind = "threads", e.body = store'.threads, toPanel' = toPanel \o <<e>>,
         \A k \in DOMAIN turns : /\ k \in DOMAIN turns' /\ turns'[k].thread = turns[k].thread
                                 /\ turns'[k].msg = turns[k].msg,
         born \subseteq born', DOMAIN store'.messages \subseteq born', saved' = store',
         \A x \in DOMAIN store'.messages :
           x \in born => x \in DOMAIN store.messages /\ store'.messages[x] = store.messages[x]
  PROVE  PanelInv'
<1>1. Pipe(toPanel)
  BY DEF PanelInv
<1>2. \A list, t : Applied(list, e, t) = list
  BY AppliedElsewhere
<1>3. \A first, t, list : Tracks(toPanel, first, t, list) => Tracks(toPanel', first, t, list)
  BY <1>1, <1>2, TracksPast
<1>4. Carries(toMain', toPanel', store')
  BY <1>3 DEF Carries, RequestsKept
<1>5. e.kind \in EventKinds /\ ~IsStart(e)
  BY DEF EventKinds, IsStart
<1>6. /\ Requested(toMain, "agents", NoThread) => Requested(toMain', "agents", NoThread)
      /\ Requested(toMain, "threads", NoThread) => Requested(toMain', "threads", NoThread)
  BY DEF RequestsKept
<1> QED
  BY <1>4, <1>5, <1>6, OneTold

LEMMA OtherHead ==
  ASSUME PanelInv, NEW kind, kind \notin {"agents", "threads", "messages"}, Receives(kind)
  PROVE  panel' = panel /\ Pipe(toMain') /\ RequestsKept
BY HeadTaken DEF RequestsKept

LEMMA CreateKeepsPanel ==
  ASSUME AgentInv, AgentInv', PanelInv, NEW t \in Threads, HandleCreate(t)
  PROVE  PanelInv'
<1>1. /\ Receives("create") /\ t \notin born /\ born' = born \cup {t}
      /\ store' = Created(store, t) /\ saved' = store'
      /\ toPanel' = toPanel \o <<ThreadList(store')>> /\ UNCHANGED <<agents, turns>>
  BY DEF HandleCreate, Tell, Persist
<1>2. panel' = panel /\ Pipe(toMain') /\ RequestsKept
  BY <1>1, OtherHead
<1>3. PICK e : e = ThreadList(store') /\ e.kind = "threads" /\ e.body = store'.threads
  BY EventFields DEF ThreadList
<1>4. store'.messages = Put(store.messages, t, <<>>)
  BY <1>1 DEF Created
<1>5. /\ DOMAIN store'.messages = DOMAIN store.messages \cup {t}
      /\ \A x \in DOMAIN store.messages : x # t => store'.messages[x] = store.messages[x]
  BY <1>4 DEF Put
<1>6. DOMAIN store.messages \subseteq born
  BY DEF PanelInv, AllBorn
<1>7. DOMAIN store'.messages \subseteq born' /\ born \subseteq born'
  BY <1>1, <1>5, <1>6
<1>8. \A x \in DOMAIN store'.messages :
        x \in born => x \in DOMAIN store.messages /\ store'.messages[x] = store.messages[x]
  BY <1>1, <1>5
<1> QED
  BY <1>1, <1>2, <1>3, <1>7, <1>8, ListTold

LEMMA DeleteKeepsPanel ==
  ASSUME AgentInv, AgentInv', PanelInv, HandleDelete
  PROVE  PanelInv'
<1>0. PICK t : t = Head(toMain).thread
  OBVIOUS
<1>1. /\ Receives("delete") /\ Abort({t}) /\ store' = Without(store, t) /\ saved' = store'
      /\ toPanel' = toPanel \o <<ThreadList(store')>> /\ UNCHANGED <<agents, born>>
  BY <1>0 DEF HandleDelete, Tell, Persist, counters
<1>2. panel' = panel /\ Pipe(toMain') /\ RequestsKept
  BY <1>1, OtherHead
<1>3. PICK e : e = ThreadList(store') /\ e.kind = "threads" /\ e.body = store'.threads
  BY EventFields DEF ThreadList
<1>4. store'.messages = [x \in DOMAIN store.messages \ {t} |-> store.messages[x]]
  BY <1>1 DEF Without
<1>5. /\ DOMAIN store'.messages \subseteq DOMAIN store.messages
      /\ \A x \in DOMAIN store'.messages : store'.messages[x] = store.messages[x]
  BY <1>4
<1>6. DOMAIN store'.messages \subseteq born'
  BY <1>1, <1>5 DEF PanelInv, AllBorn
<1>7. \A k \in DOMAIN turns : /\ k \in DOMAIN turns' /\ turns'[k].thread = turns[k].thread
                              /\ turns'[k].msg = turns[k].msg
  BY <1>1, StoppedWork DEF SameWork
<1> QED
  BY <1>1, <1>2, <1>3, <1>5, <1>6, <1>7, ListTold

LEMMA ClearAllKeepsPanel ==
  ASSUME AgentInv, AgentInv', PanelInv, ClearAll
  PROVE  PanelInv'
<1>1. /\ Abort(Threads) /\ store' = Empty /\ saved' = store'
      /\ toPanel' = toPanel \o <<ThreadList(Empty)>> /\ UNCHANGED <<agents, born, panel, toMain>>
  BY DEF ClearAll, Tell, Persist, counters
<1>2. Pipe(toMain') /\ RequestsKept
  BY <1>1 DEF PanelInv, RequestsKept
<1>3. PICK e : e = ThreadList(Empty) /\ e.kind = "threads" /\ e.body = store'.threads
  BY <1>1, EventFields DEF ThreadList
<1>4. DOMAIN store'.messages = {}
  <2>1. PICK map : map = <<>> /\ DOMAIN map = {}
    OBVIOUS
  <2>2. store'.messages = map
    BY <1>1, <2>1 DEF Empty
  <2> QED
    BY <2>1, <2>2
<1>5. \A k \in DOMAIN turns : /\ k \in DOMAIN turns' /\ turns'[k].thread = turns[k].thread
                              /\ turns'[k].msg = turns[k].msg
  BY <1>1, StoppedWork DEF SameWork
<1> QED
  BY <1>1, <1>2, <1>3, <1>4, <1>5, ListTold

LEMMA RemoveAgentKeepsPanel ==
  ASSUME AgentInv, AgentInv', PanelInv, NEW a, RemoveAgent(a)
  PROVE  PanelInv'
<1>1. /\ toPanel' = toPanel \o <<Event("agents", NoThread, agents')>>
      /\ UNCHANGED <<store, saved, turns, born, panel, toMain>>
  BY DEF RemoveAgent, Tell, counters
<1>2. PICK e : e = Event("agents", NoThread, agents') /\ e.kind = "agents" /\ e.body = agents'
  BY EventFields
<1>3. Pipe(toMain') /\ Pipe(toPanel) /\ DOMAIN store.messages \subseteq born
  BY <1>1 DEF PanelInv, AllBorn
<1>4. \A list, t : Applied(list, e, t) = list
  BY <1>2, AppliedElsewhere
<1>5. toPanel' = toPanel \o <<e>>
  BY <1>1, <1>2
<1>6. Carries(toMain', toPanel', store')
  BY <1>1, <1>3, <1>4, <1>5, TracksPast DEF Carries
<1>7. e.kind \in EventKinds /\ ~IsStart(e)
  BY <1>2 DEF EventKinds, IsStart
<1> QED
  BY <1>1, <1>2, <1>3, <1>5, <1>6, <1>7, OneTold

LEMMA QuietKeepsPanel ==
  ASSUME AgentInv, AgentInv', PanelInv,
         \/ HandleStop
         \/ \E k \in DOMAIN turns :
              ToolsListed(k) \/ ToolsRejected(k) \/ CallTool(k) \/ ToolAnswered(k)
  PROVE  PanelInv'
<1>1. CASE HandleStop
  <2>1. /\ Receives("stop") /\ Abort({Head(toMain).thread})
        /\ UNCHANGED <<store, saved, agents, toPanel, born>>
    BY <1>1 DEF HandleStop, counters
  <2>2. panel' = panel /\ Pipe(toMain') /\ RequestsKept
    BY <2>1, OtherHead
  <2>3. \A k \in DOMAIN turns : /\ k \in DOMAIN turns' /\ turns'[k].thread = turns[k].thread
                                /\ turns'[k].msg = turns[k].msg
    BY <2>1, StoppedWork DEF SameWork
  <2> QED
    BY <2>1, <2>2, <2>3, NothingTold
<1>2. ASSUME NEW k \in DOMAIN turns,
             ToolsListed(k) \/ ToolsRejected(k) \/ CallTool(k) \/ ToolAnswered(k)
      PROVE  PanelInv'
  <2>1. PICK label \in {"stream", "call", "lost"} :
          Goes(k, label) /\ (Writes(turns[k]) => label # "lost")
    BY <1>2 DEF ToolsListed, ToolsRejected, CallTool, ToolAnswered, At, Writes
  <2>2. UNCHANGED <<store, saved, agents, panel, toMain, toPanel, born>>
    BY <1>2 DEF ToolsListed, ToolsRejected, CallTool, ToolAnswered, counters
  <2>3. Pipe(toMain') /\ RequestsKept
    BY <2>2 DEF PanelInv, RequestsKept
  <2>4. \A j \in DOMAIN turns : /\ j \in DOMAIN turns' /\ turns'[j].thread = turns[j].thread
                                /\ turns'[j].msg = turns[j].msg
    BY <2>1, MovedWork DEF SameWork
  <2> QED
    BY <2>2, <2>3, <2>4, NothingTold
<1> QED
  BY <1>1, <1>2

LEMMA ChunkKeepsPanel ==
  ASSUME AgentInv, AgentInv', PanelInv, NEW k \in DOMAIN turns, Chunk(k)
  PROVE  PanelInv'
<1>0. PICK t, id : t = turns[k].thread /\ id = turns[k].msg
  OBVIOUS
<1>1. PICK r : r = WithChunk(MessagesOf(store, t), id, k)
  OBVIOUS
<1>2. /\ store' = Updated(store, t, r) /\ toPanel' = toPanel \o <<Event("chunk", t, <<id, k>>)>>
      /\ UNCHANGED <<saved, agents, turns, panel, toMain, born>>
  BY <1>0, <1>1 DEF Chunk, Tell, counters
<1>3. UpdatedTo(store', store, t, r)
  BY <1>2, UpdatedFields DEF AgentInv
<1>4. PICK e : /\ e = Event("chunk", t, <<id, k>>)
               /\ e.kind = "chunk" /\ e.thread = t /\ e.body[1] = id /\ e.body[2] = k
  <2>1. <<id, k>>[1] = id /\ <<id, k>>[2] = k
    BY PipeTuples, Zenon
  <2>2. PICK b : b = <<id, k>> /\ b[1] = id /\ b[2] = k
    BY <2>1, Zenon
  <2> QED
    BY <2>2, EventFields
<1>5. Pipe(toMain') /\ Pipe(toPanel) /\ DOMAIN store.messages \subseteq born
  BY <1>2 DEF PanelInv, AllBorn
<1>6. DOMAIN store'.messages = DOMAIN store.messages /\ store'.threads = store.threads
  BY <1>3 DEF UpdatedTo
<1>7. ASSUME NEW x \in DOMAIN store.messages PROVE store'.messages[x] = Applied(store.messages[x], e, x)
  <2>1. CASE x = t
    <3>1. store'.messages[x] = r
      BY <1>3, <2>1 DEF UpdatedTo
    <3>2. r = WithChunk(store.messages[x], e.body[1], e.body[2])
      BY <1>1, <1>4, <2>1 DEF MessagesOf
    <3> QED
      BY <1>4, <2>1, <3>1, <3>2 DEF Applied
  <2>2. CASE x # t
    <3>1. store'.messages[x] = store.messages[x]
      BY <1>3, <2>2 DEF UpdatedTo
    <3> QED
      BY <1>4, <2>2, <3>1, AppliedElsewhere
  <2> QED
    BY <2>1, <2>2
<1>8. toPanel' = toPanel \o <<e>>
  BY <1>2, <1>4
<1>9. Carries(toMain', toPanel', store')
  BY <1>2, <1>5, <1>6, <1>7, <1>8, TracksPast DEF Carries
<1>10. e.kind \in EventKinds /\ ~IsStart(e)
  BY <1>4 DEF EventKinds, IsStart
<1> QED
  BY <1>2, <1>4, <1>5, <1>6, <1>8, <1>9, <1>10, OneTold
LEMMA TuplesAppended ==
  /\ \A a, b : Append(<<a>>, b) = <<a, b>>
  /\ \A a, b, c : Append(<<a, b>>, c) = <<a, b, c>>
  /\ \A a, b, c : /\ Pipe(<<a, b, c>>) /\ Len(<<a, b, c>>) = 3
                  /\ <<a, b, c>>[1] = a /\ <<a, b, c>>[2] = b /\ <<a, b, c>>[3] = c
<1>1. ASSUME NEW a, NEW b PROVE Append(<<a>>, b) = <<a, b>>
  <2>1. PICK S : S = {a, b}
    OBVIOUS
  <2>2. PICK x : x = Append(<<a>>, b)
    OBVIOUS
  <2>3. PICK y : y = <<a, b>>
    OBVIOUS
  <2>4. x \in Seq(S) /\ Len(x) = 2 /\ x[1] = a /\ x[2] = b
    BY <2>1, <2>2
  <2>5. y \in Seq(S) /\ Len(y) = 2 /\ y[1] = a /\ y[2] = b
    BY <2>1, <2>3
  <2>6. \A i \in 1..2 : i = 1 \/ i = 2
    OBVIOUS
  <2>7. x = y
    BY <2>4, <2>5, <2>6, SeqEqual
  <2> QED
    BY <2>2, <2>3, <2>7
<1>2. ASSUME NEW a, NEW b, NEW c PROVE Append(<<a, b>>, c) = <<a, b, c>>
  <2>1. PICK S : S = {a, b, c}
    OBVIOUS
  <2>2. PICK x : x = Append(<<a, b>>, c)
    OBVIOUS
  <2>3. PICK y : y = <<a, b, c>>
    OBVIOUS
  <2>4. x \in Seq(S) /\ Len(x) = 3 /\ x[1] = a /\ x[2] = b /\ x[3] = c
    BY <2>1, <2>2
  <2>5. y \in Seq(S) /\ Len(y) = 3 /\ y[1] = a /\ y[2] = b /\ y[3] = c
    BY <2>1, <2>3
  <2>6. \A i \in 1..3 : i = 1 \/ i = 2 \/ i = 3
    OBVIOUS
  <2>7. x = y
    BY <2>4, <2>5, <2>6, SeqEqual
  <2> QED
    BY <2>2, <2>3, <2>7
<1>3. ASSUME NEW a, NEW b, NEW c
      PROVE  /\ Pipe(<<a, b, c>>) /\ Len(<<a, b, c>>) = 3
             /\ <<a, b, c>>[1] = a /\ <<a, b, c>>[2] = b /\ <<a, b, c>>[3] = c
  <2>1. <<a, b, c>> \in Seq({a, b, c})
    OBVIOUS
  <2> QED
    BY <2>1 DEF Pipe
<1> QED
  BY <1>1, <1>2, <1>3

LEMMA TracksMore ==
  ASSUME Pipe(toPanel), NEW news, Pipe(news), NEW e, NEW first, NEW t, NEW list,
         Tracks(toPanel \o news, first, t, list)
  PROVE  Tracks(toPanel \o Append(news, e), first, t, Applied(list, e, t))
<1>1. JoinedTo(toPanel \o Append(news, e), toPanel \o news, <<e>>)
  BY PipeAppended
<1> QED
  BY <1>1, TracksTold

(* A failed reply is marked in the store as the panel marks it.              *)
ShownAs(u, s, e) ==
  /\ u.threads = s.threads /\ DOMAIN u.messages = DOMAIN s.messages
  /\ \A x \in DOMAIN s.messages : u.messages[x] = Applied(s.messages[x], e, x)

LEMMA UpdatedShown ==
  ASSUME NEW u, NEW s, NEW t, NEW r, UpdatedTo(u, s, t, r),
         NEW e, e.thread = t, t \in DOMAIN s.messages => Applied(s.messages[t], e, t) = r
  PROVE  ShownAs(u, s, e)
<1>1. u.threads = s.threads
  BY DEF UpdatedTo
<1>2. DOMAIN u.messages = DOMAIN s.messages
  BY DEF UpdatedTo
<1>3. ASSUME NEW x \in DOMAIN s.messages PROVE u.messages[x] = Applied(s.messages[x], e, x)
  <2>1. CASE x = t
    BY <1>3, <2>1 DEF UpdatedTo
  <2>2. CASE x # t
    <3>1. u.messages[x] = s.messages[x]
      BY <1>3, <2>2 DEF UpdatedTo
    <3> QED
      BY <2>2, <3>1, AppliedElsewhere
  <2> QED
    BY <2>1, <2>2
<1> QED
  BY <1>1, <1>2, <1>3 DEF ShownAs

LEMMA FailedShown ==
  ASSUME NEW s, NEW n, StoreSound(s, n), NEW t, NEW id
  PROVE  ShownAs(Finalized(s, t, id, TRUE), s, Event("error", t, id))
<1>1. PICK r : r = WithError(MessagesOf(s, t), id)
  OBVIOUS
<1>2. Finalized(s, t, id, TRUE) = Updated(s, t, r)
  BY <1>1 DEF Finalized
<1>3. PICK u : u = Updated(s, t, r) /\ UpdatedTo(u, s, t, r)
  BY UpdatedFields
<1>4. PICK e : e = Event("error", t, id) /\ e.kind = "error" /\ e.thread = t /\ e.body = id
  BY EventFields
<1>5. ASSUME t \in DOMAIN s.messages PROVE Applied(s.messages[t], e, t) = r
  <2>1. r = WithError(s.messages[t], id)
    BY <1>1, <1>5 DEF MessagesOf
  <2> QED
    BY <1>4, <2>1 DEF Applied
<1>6. ShownAs(u, s, e)
  BY <1>3, <1>4, <1>5, UpdatedShown
<1> QED
  BY <1>2, <1>3, <1>4, <1>6

LEMMA EndKeepsPanel ==
  ASSUME AgentInv, AgentInv', PanelInv, NEW k \in DOMAIN turns, NEW failed \in BOOLEAN, End(k, failed)
  PROVE  PanelInv'
<1>0. PICK t, id : t = turns[k].thread /\ id = turns[k].msg
  OBVIOUS
<1>1. PICK e, f : /\ e = Event(IF failed THEN "error" ELSE "done", t, id)
                  /\ f = ThreadList(store')
  OBVIOUS
<1>2. /\ store' = Finalized(store, t, id, failed) /\ saved' = store'
      /\ turns' = [j \in DOMAIN turns \ {k} |-> turns[j]]
      /\ UNCHANGED <<agents, panel, toMain, born>>
  BY <1>0 DEF End, SaveAlways, counters
<1>3. toPanel' = toPanel \o <<e, f>>
  BY <1>0, <1>1, <1>2 DEF End, Tell
<1>4. /\ e.kind = (IF failed THEN "error" ELSE "done") /\ e.thread = t /\ e.body = id
      /\ f.kind = "threads" /\ f.body = store'.threads
  BY <1>1, EventFields DEF ThreadList
<1>5. /\ store'.threads = store.threads /\ DOMAIN store'.messages = DOMAIN store.messages
      /\ \A x \in DOMAIN store.messages : store'.messages[x] = Applied(store.messages[x], e, x)
  <2>1. CASE failed = TRUE
    <3>1. StoreSound(store, ids.msg)
      BY DEF AgentInv
    <3>2. store' = Finalized(store, t, id, TRUE)
      BY <1>2, <2>1
    <3>3. e = Event("error", t, id)
      BY <1>1, <2>1
    <3>4. ShownAs(store', store, e)
      BY <3>1, <3>2, <3>3, FailedShown
    <3> QED
      BY <3>4 DEF ShownAs
  <2>2. CASE failed = FALSE
    <3>1. store' = store
      BY <1>2, <2>2 DEF Finalized
    <3>2. e.kind = "done"
      BY <1>4, <2>2
    <3> QED
      BY <3>1, <3>2, AppliedElsewhere
  <2> QED
    BY <2>1, <2>2
<1>6. PICK news : news = <<e, f>> /\ Pipe(news) /\ Len(news) = 2 /\ news[1] = e /\ news[2] = f
  <2>1. /\ Pipe(<<e, f>>) /\ Len(<<e, f>>) = 2
        /\ <<e, f>>[1] = e /\ <<e, f>>[2] = f
    BY PipeTuples, Zenon
  <2> QED
    BY <2>1, Zenon
<1>7. \A i \in 1..Len(news) : (i = 1 /\ news[i] = e) \/ (i = 2 /\ news[i] = f)
  <2>1. \A i \in 1..2 : i = 1 \/ i = 2
    OBVIOUS
  <2> QED
    BY <1>6, <2>1
<1>8. e.kind \in {"done", "error"} /\ 1 \in 1..Len(news)
  BY <1>4, <1>6
<1>9. Answers(toMain, toMain', news, "agents", agents, agents')
  BY <1>2, <1>4, <1>7, <1>8 DEF Answers
<1>10. Answers(toMain, toMain', news, "threads", store.threads, store'.threads)
  BY <1>2, <1>4, <1>5, <1>7, <1>8 DEF Answers
<1>11. TurnsAnswered(turns, turns', news)
  <2>1. ASSUME NEW j \in DOMAIN turns, j # k
        PROVE  j \in DOMAIN turns' /\ turns'[j].thread = turns[j].thread /\ turns'[j].msg = turns[j].msg
    BY <1>2, <2>1
  <2>2. Ends(news[1], turns[k].thread, turns[k].msg)
    BY <1>0, <1>4, <1>6, <1>8 DEF Ends
  <2> QED
    BY <1>8, <2>1, <2>2 DEF TurnsAnswered
<1>12. StartsServed(turns', news)
  BY <1>4, <1>7, <1>8 DEF StartsServed, IsStart
<1>13. \A i \in 1..Len(news) : news[i].kind \in EventKinds
  BY <1>4, <1>7, <1>8 DEF EventKinds
<1>14. Pipe(toMain') /\ Pipe(toPanel) /\ DOMAIN store'.messages \subseteq born'
  BY <1>2, <1>5 DEF PanelInv, AllBorn
<1>15. Told(news)
  BY <1>2, <1>3, <1>6, <1>9, <1>10, <1>11, <1>12, <1>13, <1>14 DEF Told
<1>16. Carries(toMain', toPanel', store')
  <2>1. ASSUME NEW x \in DOMAIN store.messages, NEW first, Tracks(toPanel, first, x, store.messages[x])
        PROVE  Tracks(toPanel', first, x, store'.messages[x])
    <3>1. Tracks(toPanel \o <<e>>, first, x, store'.messages[x])
      BY <1>5, <1>14, <2>1, TracksPast
    <3>2. PICK one : one = <<e>> /\ Pipe(one) /\ toPanel' = toPanel \o Append(one, f)
      BY <1>3, PipeTuples, TuplesAppended
    <3>3. Applied(store'.messages[x], f, x) = store'.messages[x]
      BY <1>4, AppliedElsewhere
    <3> QED
      BY <1>14, <3>1, <3>2, <3>3, TracksMore
  <2> QED
    BY <1>2, <1>5, <2>1 DEF Carries
<1> QED
  BY <1>15, <1>16, ToldKeepsPanel

(* A turn begins on a store s that the events before it tell of.             *)
LEMMA BegunKeepsPanel ==
  ASSUME AgentInv, AgentInv', PanelInv, panel' = panel, Pipe(toMain'), RequestsKept,
         UNCHANGED <<agents, born>>,
         NEW s, NEW n, StoreSound(s, n), NEW t, NEW id, NEW news, BeginTurn(s, t, id, news),
         Pipe(news), \A i \in 1..Len(news) : news[i].kind \in {"threads", "added", "retry"},
         \A i \in 1..Len(news) : news[i].kind = "threads" => news[i].body = s.threads,
         s.threads = store.threads \/ \E i \in 1..Len(news) : news[i].kind = "threads",
         \A i \in 1..Len(news) : IsStart(news[i]) => news[i].thread = t /\ StartId(news[i]) = id,
         DOMAIN s.messages = DOMAIN store.messages,
         \A x \in DOMAIN store.messages : \A first :
           Tracks(toPanel, first, x, store.messages[x]) => Tracks(toPanel \o news, first, x, s.messages[x])
  PROVE  PanelInv'
<1>1. /\ Pipe(toPanel) /\ DOMAIN store.messages \subseteq born
  BY DEF PanelInv, AllBorn
<1>2. CASE AgentOf[t] \in agents
  <2>1. PICK k : k = ids.turn + 1
    OBVIOUS
  <2>2. /\ turns' = Put(turns, k, [thread |-> t, msg |-> id, pc |-> "tools", aborted |-> FALSE])
        /\ store' = s /\ saved' = store' /\ toPanel' = toPanel \o news
    BY <1>2, <2>1 DEF BeginTurn, Persist, Tell
  <2>3. k \notin DOMAIN turns
    <3>1. ids.turn \in Nat /\ DOMAIN turns \subseteq 1..ids.turn
      BY DEF AgentInv, TurnsSound
    <3> QED
      BY <2>1, <3>1
  <2>4. PICK rec : /\ rec = [thread |-> t, msg |-> id, pc |-> "tools", aborted |-> FALSE]
                   /\ rec.thread = t /\ rec.msg = id
    <3>1. PICK rec : rec = [thread |-> t, msg |-> id, pc |-> "tools", aborted |-> FALSE]
      OBVIOUS
    <3>2. rec.thread = t /\ rec.msg = id
      BY <3>1
    <3> QED
      BY <3>1, <3>2
  <2>5. /\ DOMAIN turns' = DOMAIN turns \cup {k} /\ turns'[k] = rec
        /\ \A j \in DOMAIN turns : turns'[j] = turns[j]
    BY <2>2, <2>3, <2>4 DEF Put
  <2>6. TurnsAnswered(turns, turns', news)
    BY <2>5 DEF TurnsAnswered
  <2>7. StartsServed(turns', news)
    BY <2>4, <2>5 DEF StartsServed, Served
  <2>8. Answers(toMain, toMain', news, "agents", agents, agents')
    BY DEF Answers, RequestsKept
  <2>9. Answers(toMain, toMain', news, "threads", store.threads, store'.threads)
    BY <2>2 DEF Answers, RequestsKept
  <2>10. Told(news)
    BY <1>1, <2>2, <2>6, <2>7, <2>8, <2>9 DEF Told, EventKinds
  <2>11. Carries(toMain', toPanel', store')
    BY <2>2 DEF Carries, RequestsKept
  <2> QED
    BY <2>10, <2>11, ToldKeepsPanel
<1>3. CASE AgentOf[t] \notin agents
  <2>1. PICK e : /\ e = Event("error", t, id)
                 /\ e.kind = "error" /\ e.thread = t /\ e.body = id
    BY EventFields
  <2>2. PICK more : more = Append(news, e) /\ Pipe(more) /\ JoinedTo(more, news, <<e>>)
    BY PipeAppended
  <2>3. /\ store' = Finalized(s, t, id, TRUE) /\ saved' = store'
        /\ turns' = turns /\ toPanel' = toPanel \o more
    BY <1>3, <2>1, <2>2 DEF BeginTurn, Persist, Tell
  <2>4. PICK c \in Nat : c = Len(news)
    BY <2>2 DEF JoinedTo
  <2>5. Len(more) = c + 1 /\ more[c + 1] = e /\ \A i \in 1..c : more[i] = news[i]
    <3>1. Len(<<e>>) = 1 /\ <<e>>[1] = e
      BY PipeTuples
    <3>2. 1 \in 1..1
      OBVIOUS
    <3> QED
      BY <2>2, <2>4, <3>1, <3>2 DEF JoinedTo
  <2>6. \A i \in 1..(c + 1) : i \in 1..c \/ i = c + 1
    OBVIOUS
  <2>7. \A i \in 1..c : i \in 1..(c + 1) /\ c + 1 > i /\ c + 1 \in 1..(c + 1)
    OBVIOUS
  <2>8. /\ store'.threads = s.threads /\ DOMAIN store'.messages = DOMAIN s.messages
        /\ \A x \in DOMAIN s.messages : store'.messages[x] = Applied(s.messages[x], e, x)
    <3>1. ShownAs(store', s, e)
      BY <2>1, <2>3, FailedShown
    <3> QED
      BY <3>1 DEF ShownAs
  <2>9. TurnsAnswered(turns, turns', more)
    BY <2>3 DEF TurnsAnswered
  <2>10. ~IsStart(e) /\ e.kind \in EventKinds /\ e.kind # "threads" /\ e.kind # "agents"
    BY <2>1 DEF IsStart, EventKinds
  <2>11. StartsServed(turns', more)
    <3>1. ASSUME NEW i \in 1..(c + 1), IsStart(more[i])
          PROVE  Served(turns', more, more[i].thread, StartId(more[i]), i)
      <4>1. i \in 1..c
        BY <2>5, <2>6, <2>10, <3>1
      <4>2. more[i].thread = t /\ StartId(more[i]) = id
        BY <2>4, <2>5, <3>1, <4>1
      <4>3. Ends(more[c + 1], t, id)
        BY <2>1, <2>5 DEF Ends
      <4> QED
        BY <2>5, <2>7, <4>1, <4>2, <4>3 DEF Served
    <3> QED
      BY <2>5, <3>1 DEF StartsServed
  <2>12. \A i \in 1..Len(more) : more[i] = e \/ \E j \in 1..Len(news) : more[i] = news[j]
    BY <2>4, <2>5, <2>6
  <2>13. \A i \in 1..Len(more) : more[i].kind \in EventKinds /\ more[i].kind # "agents"
    BY <2>10, <2>12 DEF EventKinds
  <2>14. Answers(toMain, toMain', more, "agents", agents, agents')
    BY <2>13 DEF Answers, RequestsKept
  <2>15. Answers(toMain, toMain', more, "threads", store.threads, store'.threads)
    <3>1. \A i \in 1..Len(more) : more[i].kind = "threads" => more[i].body = store'.threads
      BY <2>8, <2>10, <2>12
    <3>2. CASE s.threads = store.threads
      BY <2>8, <3>1, <3>2 DEF Answers, RequestsKept
    <3>3. CASE \E i \in 1..Len(news) : news[i].kind = "threads"
      <4>1. PICK i \in 1..c : news[i].kind = "threads"
        BY <2>4, <3>3
      <4>2. i \in 1..Len(more) /\ more[i].kind = "threads"
        BY <2>5, <2>7, <4>1
      <4> QED
        BY <3>1, <4>2 DEF Answers
    <3> QED
      BY <3>2, <3>3
  <2>16. Told(more)
    BY <1>1, <2>2, <2>3, <2>8, <2>9, <2>11, <2>13, <2>14, <2>15 DEF Told
  <2>17. ASSUME NEW x \in DOMAIN store.messages, NEW first, Tracks(toPanel, first, x, store.messages[x])
         PROVE  Tracks(toPanel', first, x, store'.messages[x])
    <3>1. Tracks(toPanel \o news, first, x, s.messages[x])
      BY <2>17
    <3>2. Tracks(toPanel \o Append(news, e), first, x, Applied(s.messages[x], e, x))
      BY <1>1, <3>1, TracksMore
    <3> QED
      BY <2>2, <2>3, <2>8, <3>2
  <2>18. Carries(toMain', toPanel', store')
    BY <2>8, <2>17 DEF Carries, RequestsKept
  <2> QED
    BY <2>16, <2>18, ToldKeepsPanel
<1> QED
  BY <1>2, <1>3
(* A thread that is brought to the front twice is there already.             *)
LEMMA FrontAgain ==
  ASSUME NEW q, NEW set, Lists(q, set), NEW t \in Threads
  PROVE  ToFront(ToFront(q, t), t) = ToFront(q, t)
<1>1. PICK o : o = Others(q, t) /\ Lists(o, set \ {t})
  BY OthersListed
<1>2. PICK l : l = ToFront(q, t) /\ Lists(l, set \cup {t})
  BY FirstListed
<1>3. l = <<t>> \o o
  BY <1>1, <1>2 DEF ToFront
<1>4. PICK n \in Nat : n = Len(o) /\ o \in Seq(Threads)
  BY <1>1 DEF Lists
<1>5. l \in Seq(Threads) /\ Len(l) = n + 1 /\ l[1] = t /\ \A i \in 1..n : l[i + 1] = o[i]
  <2>1. PICK one : one = <<t>> /\ one \in Seq(Threads) /\ Len(one) = 1 /\ one[1] = t
    <3>1. <<t>> \in Seq(Threads) /\ Len(<<t>>) = 1 /\ <<t>>[1] = t
      OBVIOUS
    <3> QED
      BY <3>1
  <2>2. Len(one \o o) = 1 + n /\ \A i \in 1..(1 + n) : (one \o o)[i] = IF i <= 1 THEN one[i] ELSE o[i - 1]
    BY <1>4, <2>1, ConcatProperties
  <2>3. \A i \in 1..(1 + n) : l[i] = IF i <= 1 THEN one[i] ELSE o[i - 1]
    BY <1>3, <2>1, <2>2
  <2>4. l[1] = t
    BY <2>1, <2>3
  <2>5. ASSUME NEW i \in 1..n PROVE l[i + 1] = o[i]
    <3>1. i + 1 \in 1..(1 + n) /\ ~(i + 1 <= 1) /\ (i + 1) - 1 = i
      OBVIOUS
    <3> QED
      BY <2>3, <3>1
  <2>6. Len(l) = n + 1
    BY <1>3, <2>1, <2>2
  <2> QED
    BY <1>2, <2>4, <2>5, <2>6 DEF Lists
<1>6. DOMAIN l = 1..(n + 1) /\ 1 \in 1..(n + 1)
  BY <1>5, LenProperties
<1>7. \A i \in 1..(n + 1) : l[i] = t => i = 1
  BY <1>2, <1>5, <1>6 DEF Lists
<1>8. t \in ToSet(l)
  BY <1>5, <1>6 DEF ToSet
<1>9. (CHOOSE i \in DOMAIN l : l[i] = t) = 1
  BY <1>5, <1>6, <1>7
<1>10. Others(l, t) = RemoveAt(l, 1)
  BY <1>8, <1>9 DEF Others
<1>11. RemoveAt(l, 1) = o
  <2>1. PICK r : r = RemoveAt(l, 1)
    OBVIOUS
  <2>2. /\ RemoveAt(l, 1) \in Seq(Threads) /\ Len(RemoveAt(l, 1)) = Len(l) - 1
        /\ \A i \in 1..(Len(l) - 1) : RemoveAt(l, 1)[i] = IF i < 1 THEN l[i] ELSE l[i + 1]
    BY <1>5, <1>6, RemovedAt
  <2>3. r \in Seq(Threads) /\ Len(r) = n /\ \A i \in 1..n : r[i] = IF i < 1 THEN l[i] ELSE l[i + 1]
    BY <1>5, <2>1, <2>2
  <2>4. \A i \in 1..n : r[i] = o[i]
    BY <1>5, <2>3
  <2>5. r = o
    BY <1>4, <2>3, <2>4, SeqEqual
  <2> QED
    BY <2>1, <2>5
<1> QED
  BY <1>2, <1>3, <1>10, <1>11 DEF ToFront

LEMMA AddedShown ==
  ASSUME NEW u, NEW s, NEW t, NEW m, AddedTo(u, s, t, m), NEW e, e.kind = "added", e.thread = t, e.body = m,
         NEW x \in DOMAIN s.messages
  PROVE  u.messages[x] = Applied(s.messages[x], e, x)
<1>1. CASE x = t
  BY <1>1 DEF AddedTo, Applied
<1>2. CASE x # t
  <2>1. u.messages[x] = s.messages[x]
    BY <1>2 DEF AddedTo
  <2> QED
    BY <1>2, <2>1, AppliedElsewhere
<1> QED
  BY <1>1, <1>2

LEMMA SendKeepsPanel ==
  ASSUME AgentInv, AgentInv', PanelInv, HandleSend
  PROVE  PanelInv'
<1>0. PICK t : t = Head(toMain).thread
  OBVIOUS
<1>1. PICK n \in Nat : n = ids.msg
  BY DEF AgentInv
<1>2. PICK question : question = Message(n + 1, "user")
  OBVIOUS
<1>3. PICK reply : reply = Message(n + 2, "assistant")
  OBVIOUS
<1>4. PICK asked : asked = Added(store, t, question)
  OBVIOUS
<1>5. PICK s : s = Added(asked, t, reply)
  OBVIOUS
<1>6. PICK a, b, c : /\ a = Event("added", t, question) /\ b = ThreadList(asked)
                     /\ c = Event("added", t, reply)
  OBVIOUS
<1>7. /\ panel' = panel /\ Pipe(toMain') /\ RequestsKept /\ UNCHANGED <<agents, born>>
  <2>1. Receives("send") /\ UNCHANGED <<agents, born>>
    BY DEF HandleSend
  <2> QED
    BY <2>1, OtherHead
<1>8. CASE t \notin ToSet(store.threads)
  <2>1. UNCHANGED <<store, saved, turns, toPanel>>
    BY <1>0, <1>8 DEF HandleSend
  <2> QED
    BY <1>7, <2>1, NothingTold
<1>9. CASE t \in ToSet(store.threads)
  <2>1. BeginTurn(s, t, reply.id, <<a, b, c>>)
    BY <1>0, <1>1, <1>2, <1>3, <1>4, <1>5, <1>6, <1>9 DEF HandleSend
  <2>2. /\ question \in MessageRecords /\ question.id = n + 1 /\ question.text = <<>>
        /\ question.role = "user"
        /\ reply \in MessageRecords /\ reply.id = n + 2 /\ reply.text = <<>>
        /\ reply.role = "assistant"
    <3>1. <<>> \in Seq(Nat) /\ n + 1 \in Nat /\ n + 2 \in Nat
      OBVIOUS
    <3> QED
      BY <1>2, <1>3, <3>1 DEF Message, MessageRecords
  <2>3. StoreSound(store, n)
    BY <1>1 DEF AgentInv
  <2>4. t \in DOMAIN store.messages /\ t \in Threads
    BY <1>9, <2>3, ThreadsListed
  <2>5. StoreSound(asked, n + 1) /\ AddedTo(asked, store, t, question)
    BY <1>4, <2>2, <2>3, <2>4, AddedSound
  <2>6. t \in DOMAIN asked.messages
    BY <2>4, <2>5 DEF AddedTo
  <2>7. PICK n1 \in Nat : n1 = n + 1 /\ reply.id = n1 + 1
    BY <2>2
  <2>8. StoreSound(s, n1 + 1) /\ AddedTo(s, asked, t, reply)
    BY <1>5, <2>2, <2>5, <2>6, <2>7, AddedSound
  <2>9. s.threads = asked.threads
    <3>1. asked.threads = ToFront(store.threads, t)
      BY <1>4 DEF Added
    <3>2. s.threads = ToFront(asked.threads, t)
      BY <1>5 DEF Added
    <3>3. PICK set : Lists(store.threads, set)
      BY <2>3 DEF StoreSound
    <3>4. ToFront(ToFront(store.threads, t), t) = ToFront(store.threads, t)
      BY <2>4, <3>3, FrontAgain
    <3> QED
      BY <3>1, <3>2, <3>4
  <2>10. /\ a.kind = "added" /\ a.thread = t /\ a.body = question
         /\ b.kind = "threads" /\ b.body = asked.threads
         /\ c.kind = "added" /\ c.thread = t /\ c.body = reply
    BY <1>6, EventFields DEF ThreadList
  <2>11. PICK news : news = <<a, b, c>> /\ Pipe(news) /\ Len(news) = 3
                     /\ news[1] = a /\ news[2] = b /\ news[3] = c
    <3>1. /\ Pipe(<<a, b, c>>) /\ Len(<<a, b, c>>) = 3
          /\ <<a, b, c>>[1] = a /\ <<a, b, c>>[2] = b /\ <<a, b, c>>[3] = c
      BY TuplesAppended, Zenon
    <3> QED
      BY <3>1, Zenon
  <2>12. 2 \in 1..3 /\ \A i \in 1..3 : i = 1 \/ i = 2 \/ i = 3
    OBVIOUS
  <2>13. \A i \in 1..Len(news) : news[i] \in {a, b, c}
    BY <2>11, <2>12
  <2>14. \A i \in 1..Len(news) : news[i].kind \in {"threads", "added", "retry"}
    BY <2>10, <2>13
  <2>15. \A i \in 1..Len(news) : news[i].kind = "threads" => news[i].body = s.threads
    BY <2>9, <2>10, <2>13
  <2>16. \E i \in 1..Len(news) : news[i].kind = "threads"
    BY <2>10, <2>11, <2>12
  <2>17. \A i \in 1..Len(news) : IsStart(news[i]) => news[i].thread = t /\ StartId(news[i]) = reply.id
    <3>1. ~IsStart(a) /\ ~IsStart(b)
      BY <2>2, <2>10 DEF IsStart
    <3>2. c.thread = t /\ StartId(c) = reply.id
      BY <2>10 DEF StartId
    <3> QED
      BY <2>13, <3>1, <3>2
  <2>18. DOMAIN s.messages = DOMAIN store.messages /\ DOMAIN asked.messages = DOMAIN store.messages
    BY <2>5, <2>8 DEF AddedTo
  <2>19. ASSUME NEW x \in DOMAIN store.messages, NEW first, Tracks(toPanel, first, x, store.messages[x])
         PROVE  Tracks(toPanel \o news, first, x, s.messages[x])
    <3>0. Pipe(toPanel)
      BY DEF PanelInv
    <3>1. PICK one : one = <<a>> /\ Pipe(one)
      BY PipeTuples
    <3>2. PICK two : two = <<a, b>> /\ Pipe(two)
      BY PipeTuples
    <3>3. two = Append(one, b) /\ news = Append(two, c)
      BY <2>11, <3>1, <3>2, TuplesAppended
    <3>4. asked.messages[x] = Applied(store.messages[x], a, x)
      BY <2>5, <2>10, AddedShown
    <3>5. Applied(asked.messages[x], b, x) = asked.messages[x]
      BY <2>10, AppliedElsewhere
    <3>6. s.messages[x] = Applied(asked.messages[x], c, x)
      BY <2>8, <2>10, <2>18, AddedShown
    <3>7. Tracks(toPanel \o one, first, x, asked.messages[x])
      BY <2>19, <3>0, <3>1, <3>4, TracksPast
    <3>8. Tracks(toPanel \o two, first, x, asked.messages[x])
      BY <3>0, <3>1, <3>3, <3>5, <3>7, TracksMore
    <3> QED
      BY <3>0, <3>2, <3>3, <3>6, <3>8, TracksMore
  <2>20. BeginTurn(s, t, reply.id, news)
    BY <2>1, <2>11
  <2> QED
    BY <1>7, <2>8, <2>11, <2>14, <2>15, <2>16, <2>17, <2>18, <2>19, <2>20, BegunKeepsPanel
<1> QED
  BY <1>8, <1>9

LEMMA RetryKeepsPanel ==
  ASSUME AgentInv, AgentInv', PanelInv, HandleRetry
  PROVE  PanelInv'
<1>0. PICK t, id : t = Head(toMain).thread /\ id = Head(toMain).body
  OBVIOUS
<1>1. panel' = panel /\ Pipe(toMain') /\ RequestsKept /\ UNCHANGED <<agents, born>>
  <2>1. Receives("retry") /\ UNCHANGED <<agents, born>>
    BY DEF HandleRetry
  <2> QED
    BY <2>1, OtherHead
<1>2. CASE ~(t \in ToSet(store.threads) /\ Retriable(t, id))
  <2>1. UNCHANGED <<store, saved, turns, toPanel>>
    BY <1>0, <1>2 DEF HandleRetry
  <2> QED
    BY <1>1, <2>1, NothingTold
<1>3. CASE t \in ToSet(store.threads) /\ Retriable(t, id)
  <2>1. PICK r, s : r = Blank(store.messages[t], id) /\ s = Updated(store, t, r)
    OBVIOUS
  <2>2. PICK n : n = ids.msg
    OBVIOUS
  <2>3. t \in DOMAIN store.messages /\ UpdatedTo(s, store, t, r) /\ StoreSound(s, n)
    BY <1>3, <2>1, <2>2, RetriedStore
  <2>4. PICK e : /\ e = Event("retry", t, id)
                 /\ e.kind = "retry" /\ e.thread = t /\ e.body = id
    BY EventFields
  <2>5. BeginTurn(s, t, id, <<e>>)
    BY <1>0, <1>3, <2>1, <2>4 DEF HandleRetry
  <2>6. PICK news : news = <<e>> /\ Pipe(news) /\ Len(news) = 1 /\ news[1] = e
    BY PipeTuples
  <2>7. \A i \in 1..Len(news) : news[i] = e
    <3>1. \A i \in 1..1 : i = 1
      OBVIOUS
    <3> QED
      BY <2>6, <3>1
  <2>8. ShownAs(s, store, e)
    <3>1. Applied(store.messages[t], e, t) = r
      BY <2>1, <2>4 DEF Applied
    <3> QED
      BY <2>3, <2>4, <3>1, UpdatedShown
  <2>9. /\ s.threads = store.threads /\ DOMAIN s.messages = DOMAIN store.messages
        /\ \A x \in DOMAIN store.messages : s.messages[x] = Applied(store.messages[x], e, x)
    BY <2>8 DEF ShownAs
  <2>10. Pipe(toPanel)
    BY DEF PanelInv
  <2>11. \A x \in DOMAIN store.messages : \A first :
           Tracks(toPanel, first, x, store.messages[x]) => Tracks(toPanel \o news, first, x, s.messages[x])
    BY <2>6, <2>9, <2>10, TracksPast
  <2>12. BeginTurn(s, t, id, news)
    BY <2>5, <2>6
  <2>13. /\ \A i \in 1..Len(news) : news[i].kind \in {"threads", "added", "retry"}
         /\ \A i \in 1..Len(news) : news[i].kind = "threads" => news[i].body = s.threads
         /\ \A i \in 1..Len(news) : IsStart(news[i]) => news[i].thread = t /\ StartId(news[i]) = id
    BY <2>4, <2>7 DEF StartId
  <2> QED
    BY <1>1, <2>3, <2>6, <2>9, <2>11, <2>12, <2>13, BegunKeepsPanel
<1> QED
  BY <1>2, <1>3

LEMMA PanelStep == AgentInv /\ PanelInv /\ [AgentNext]_agentVars => PanelInv'
<1> SUFFICES ASSUME AgentInv, PanelInv, [AgentNext]_agentVars PROVE PanelInv'
  OBVIOUS
<1>0. AgentInv'
  BY AgentStep
<1>1. CASE UNCHANGED agentVars
  BY <1>1 DEF agentVars, main, counters, PanelInv
<1>2. CASE User
  <2>1. CASE ClearAll
    BY <1>0, <2>1, ClearAllKeepsPanel
  <2>2. ASSUME NEW a \in Agents, RemoveAgent(a) PROVE PanelInv'
    BY <1>0, <2>2, RemoveAgentKeepsPanel
  <2>3. CASE Reopen
    BY <2>3, ReopenKeepsPanel
  <2> QED
    BY <1>2, <2>1, <2>2, <2>3, UserKeepsPanel DEF User
<1>3. CASE Deliver
  BY <1>3, DeliverKeepsPanel
<1>4. CASE Handler
  <2>1. ASSUME NEW t \in Threads, HandleCreate(t) PROVE PanelInv'
    BY <1>0, <2>1, CreateKeepsPanel
  <2>2. CASE HandleRequestAgents \/ HandleRequestThreads \/ HandleRequestMessages
    BY <1>0, <2>2, RequestsKeepPanel
  <2>3. CASE HandleSend
    BY <1>0, <2>3, SendKeepsPanel
  <2>4. CASE HandleRetry
    BY <1>0, <2>4, RetryKeepsPanel
  <2>5. CASE HandleStop
    BY <1>0, <2>5, QuietKeepsPanel
  <2>6. CASE HandleDelete
    BY <1>0, <2>6, DeleteKeepsPanel
  <2> QED
    BY <1>4, <2>1, <2>2, <2>3, <2>4, <2>5, <2>6 DEF Handler
<1>5. CASE Crash
  BY <1>0, <1>5, CrashKeepsPanel
<1>6. ASSUME NEW k \in DOMAIN turns, Turn(k) PROVE PanelInv'
  <2>1. CASE ToolsListed(k) \/ ToolsRejected(k) \/ CallTool(k) \/ ToolAnswered(k)
    BY <1>0, <2>1, QuietKeepsPanel
  <2>2. CASE Chunk(k)
    BY <1>0, <2>2, ChunkKeepsPanel
  <2>3. CASE Done(k) \/ Stopped(k) \/ Fails(k)
    <3>1. PICK failed \in BOOLEAN : End(k, failed)
      BY <2>3 DEF Done, Stopped, Fails
    <3> QED
      BY <1>0, <3>1, EndKeepsPanel
  <2> QED
    BY <1>6, <2>1, <2>2, <2>3 DEF Turn
<1> QED
  BY <1>1, <1>2, <1>3, <1>4, <1>5, <1>6 DEF AgentNext

(* When every event has arrived the panel shows what the main process has:   *)
(* the agents, the list of threads and the messages of the open one,         *)
(* whatever was deleted, retried, left and opened again meanwhile; and it    *)
(* says "streaming" only of a reply that a turn is working on, or whose turn *)
(* was lost when its tools could not be listed.                              *)
THEOREM PanelShowsStore == AgentSpec => []PanelAgrees
<1>1. AgentInit => AgentInv /\ PanelInv
  BY AgentStarts, PanelStarts
<1>2. AgentInv /\ PanelInv /\ [AgentNext]_agentVars => (AgentInv /\ PanelInv)'
  BY AgentStep, PanelStep
<1>3. ASSUME AgentInv, PanelInv PROVE PanelAgrees
  <2>1. SUFFICES ASSUME toMain = <<>>, toPanel = <<>>
                 PROVE  /\ panel.agents = agents /\ panel.list = store.threads
                        /\ Mounted(panel) # NoThread => panel.shown = MessagesOf(store, Mounted(panel))
                        /\ panel.streaming # NoMsg => \E k \in DOMAIN turns : turns[k].msg = panel.streaming
    BY DEF PanelAgrees
  <2>2. Len(toMain) = 0 /\ Len(toPanel) = 0
    BY <2>1, PipeTuples
  <2>3. \A i \in 1..0 : FALSE
    OBVIOUS
  <2>4. (\A i \in 1..Len(toMain) : FALSE) /\ (\A i \in 1..Len(toPanel) : FALSE)
    BY <2>2, <2>3
  <2>5. \A kind, t : ~Requested(toMain, kind, t)
    BY <2>4 DEF Requested
  <2>6. panel.agents = agents /\ panel.list = store.threads
    BY <1>3, <2>4, <2>5 DEF PanelInv, Arrives, Coming
  <2>7. ASSUME Mounted(panel) # NoThread PROVE panel.shown = MessagesOf(store, Mounted(panel))
    <3>1. PICK t : t = Mounted(panel)
      OBVIOUS
    <3>2. t \in ToSet(store.threads)
      BY <2>6, <2>7, <3>1 DEF Mounted
    <3>3. t \in DOMAIN store.messages
      BY <1>3, <3>2, ThreadsListed DEF AgentInv
    <3>4. Tracks(toPanel, panel.shown, t, store.messages[t])
      BY <1>3, <2>5, <3>1, <3>3 DEF PanelInv, ShownFollows
    <3>5. PICK w, j : Follows(w, j, toPanel, panel.shown, t) /\ w[Len(toPanel)] = store.messages[t]
      BY <3>4 DEF Tracks
    <3>6. j = 0
      BY <2>2, <3>5 DEF Follows
    <3>7. w[0] = panel.shown
      BY <3>5, <3>6 DEF Follows
    <3> QED
      BY <2>2, <3>1, <3>3, <3>5, <3>7 DEF MessagesOf
  <2>8. ASSUME panel.streaming # NoMsg PROVE \E k \in DOMAIN turns : turns[k].msg = panel.streaming
    <3>1. Served(turns, toPanel, Mounted(panel), panel.streaming, 0)
      BY <1>3, <2>8 DEF PanelInv, StreamingServed
    <3> QED
      BY <2>4, <3>1 DEF Served
  <2> QED
    BY <2>6, <2>7, <2>8
<1> QED
  BY <1>1, <1>2, <1>3, PTL DEF AgentSpec

-----------------------------------------------------------------------------
(* The types of AgentTurns, which need those of the events under way, and    *)
(* that chunks are written by turns that have begun.                         *)

TextWithin(text, n) == \A j \in 1..Len(text) : text[j] \in 1..n
TextsWithin(s, n) ==
  \A t \in DOMAIN s.messages : \A i \in 1..Len(s.messages[t]) :
    TextWithin(s.messages[t][i].text, n)

EventTyped(e, n) ==
  /\ e.kind = "agents" => e.body \subseteq Agents
  /\ e.kind = "threads" => e.body \in Seq(Threads)
  /\ IsStart(e) => StartId(e) \in 0..n
EventsTyped(q, n) == \A i \in 1..Len(q) : EventTyped(q[i], n)

PanelTyped(p, n) ==
  /\ p.agents \subseteq Agents /\ p.selected \in Threads \cup {NoThread}
  /\ p.awaiting \in BOOLEAN /\ p.streaming \in 0..n

AgentTyped ==
  /\ TextsWithin(store, ids.turn) /\ TextsWithin(saved, ids.turn)
  /\ born \subseteq Threads /\ agents \subseteq Agents
  /\ PanelTyped(panel, ids.msg) /\ EventsTyped(toPanel, ids.msg)

LEMMA TextsMore ==
  ASSUME NEW s, NEW n \in Nat, TextsWithin(s, n), NEW m \in Nat, m >= n
  PROVE  TextsWithin(s, m)
<1>1. \A i \in 1..n : i \in 1..m
  OBVIOUS
<1> QED
  BY <1>1 DEF TextsWithin, TextWithin

LEMMA TextsFewer ==
  ASSUME NEW s, NEW u, NEW n, TextsWithin(s, n), Fewer(u, s)
  PROVE  TextsWithin(u, n)
BY DEF TextsWithin, Fewer

LEMMA NoTexts ==
  ASSUME NEW n
  PROVE  TextsWithin(Empty, n)
<1>1. PICK map : map = <<>> /\ DOMAIN map = {}
  OBVIOUS
<1>2. Empty.messages = map
  BY <1>1 DEF Empty
<1> QED
  BY <1>1, <1>2 DEF TextsWithin

LEMMA TextsUpdated ==
  ASSUME NEW s, NEW n, TextsWithin(s, n), NEW t, NEW r, NEW id, NEW u, UpdatedTo(u, s, t, r),
         t \in DOMAIN s.messages => SameBut(r, s.messages[t], id),
         t \in DOMAIN s.messages =>
           \A i \in 1..Len(r) : r[i].id = id => TextWithin(r[i].text, n)
  PROVE  TextsWithin(u, n)
<1>1. ASSUME NEW x \in DOMAIN u.messages, NEW i \in 1..Len(u.messages[x])
      PROVE  TextWithin(u.messages[x][i].text, n)
  <2>1. x \in DOMAIN s.messages /\ u.messages[x] = IF x = t THEN r ELSE s.messages[x]
    BY DEF UpdatedTo
  <2>2. CASE x # t
    BY <2>1, <2>2 DEF TextsWithin
  <2>3. CASE x = t
    <3>1. /\ SameBut(r, s.messages[t], id) /\ i \in 1..Len(r) /\ u.messages[x] = r
          /\ i \in 1..Len(s.messages[t])
      BY <2>1, <2>3 DEF SameBut
    <3>2. CASE r[i].id = id
      BY <2>1, <2>3, <3>1, <3>2
    <3>3. CASE r[i].id # id
      <4>1. r[i] = s.messages[t][i]
        BY <3>1, <3>3 DEF SameBut
      <4> QED
        BY <2>1, <2>3, <3>1, <4>1 DEF TextsWithin
    <3> QED
      BY <3>2, <3>3
  <2> QED
    BY <2>2, <2>3
<1> QED
  BY <1>1 DEF TextsWithin

LEMMA TextsAdded ==
  ASSUME NEW s, NEW k, StoreSound(s, k), NEW n, TextsWithin(s, n), NEW t \in DOMAIN s.messages,
         NEW m \in MessageRecords, m.text = <<>>, NEW u, AddedTo(u, s, t, m)
  PROVE  TextsWithin(u, n)
<1>1. s.messages[t] \in Seq(MessageRecords)
  BY DEF StoreSound, MessageLists
<1>2. TextWithin(m.text, n)
  <2>1. PICK text : text = m.text /\ text = <<>>
    OBVIOUS
  <2>2. TextWithin(text, n)
    BY <2>1 DEF TextWithin
  <2> QED
    BY <2>1, <2>2
<1>3. ASSUME NEW x \in DOMAIN u.messages, NEW i \in 1..Len(u.messages[x])
      PROVE  TextWithin(u.messages[x][i].text, n)
  <2>1. x \in DOMAIN s.messages
    BY DEF AddedTo
  <2>2. CASE x # t
    BY <2>1, <2>2 DEF AddedTo, TextsWithin
  <2>3. CASE x = t
    <3>1. u.messages[t] = Append(s.messages[t], m)
      BY <2>3 DEF AddedTo
    <3>2. \/ i \in 1..Len(s.messages[t]) /\ u.messages[t][i] = s.messages[t][i]
          \/ u.messages[t][i] = m
      BY <1>1, <2>3, <3>1, Appended
    <3> QED
      BY <1>2, <2>3, <3>2 DEF TextsWithin
  <2> QED
    BY <2>2, <2>3
<1> QED
  BY <1>3 DEF TextsWithin

LEMMA TextsFinalized ==
  ASSUME NEW s, NEW k, StoreSound(s, k), NEW n, TextsWithin(s, n), NEW t, NEW id,
         NEW failed \in BOOLEAN
  PROVE  TextsWithin(Finalized(s, t, id, failed), n)
<1>1. CASE failed = FALSE
  BY <1>1 DEF Finalized
<1>2. CASE failed = TRUE
  <2>1. PICK r : r = WithError(MessagesOf(s, t), id)
    OBVIOUS
  <2>2. PICK u : u = Updated(s, t, r) /\ UpdatedTo(u, s, t, r)
    BY UpdatedFields
  <2>3. Finalized(s, t, id, failed) = u
    BY <1>2, <2>1, <2>2 DEF Finalized
  <2>4. ASSUME t \in DOMAIN s.messages
        PROVE  /\ SameBut(r, s.messages[t], id)
               /\ \A i \in 1..Len(r) : r[i].id = id => TextWithin(r[i].text, n)
    <3>1. PICK list \in Seq(MessageRecords) : list = s.messages[t] /\ r = WithError(list, id)
      BY <2>1, <2>4 DEF StoreSound, MessageLists, MessagesOf
    <3>2. /\ SameBut(r, list, id)
          /\ \A i \in 1..Len(list) : list[i].id = id => r[i] = [list[i] EXCEPT !.error = TRUE]
      BY <3>1, ErrorSet
    <3>3. ASSUME NEW i \in 1..Len(r), r[i].id = id PROVE TextWithin(r[i].text, n)
      <4>1. i \in 1..Len(list) /\ list[i].id = id
        BY <3>2, <3>3 DEF SameBut
      <4>2. PICK m \in MessageRecords : m = list[i] /\ TextWithin(m.text, n)
        BY <2>4, <3>1, <4>1 DEF TextsWithin
      <4>3. r[i] = [m EXCEPT !.error = TRUE]
        BY <3>2, <4>1, <4>2
      <4>4. r[i].text = m.text
        BY <4>3 DEF MessageRecords
      <4> QED
        BY <4>2, <4>4
    <3> QED
      BY <3>1, <3>2, <3>3
  <2>5. TextsWithin(u, n)
    BY <2>2, <2>4, TextsUpdated
  <2> QED
    BY <2>3, <2>5
<1> QED
  BY <1>1, <1>2

LEMMA ListTyped ==
  ASSUME NEW s, NEW k, StoreSound(s, k), NEW n
  PROVE  EventTyped(ThreadList(s), n)
<1>1. s.threads \in Seq(Threads)
  BY DEF StoreSound, Lists
<1>2. PICK e : e = ThreadList(s) /\ e.kind = "threads" /\ e.body = s.threads
  BY EventFields DEF ThreadList
<1> QED
  BY <1>1, <1>2 DEF EventTyped, IsStart

LEMMA EventsTold ==
  ASSUME NEW q, Pipe(q), NEW news, Pipe(news), NEW n \in Nat, NEW m \in Nat, m >= n,
         EventsTyped(q, n), EventsTyped(news, m)
  PROVE  EventsTyped(q \o news, m)
<1>1. PICK r : r = q \o news /\ JoinedTo(r, q, news)
  BY PipeJoined
<1>2. \A i \in 0..n : i \in 0..m
  OBVIOUS
<1>3. ASSUME NEW i \in 1..Len(r) PROVE EventTyped(r[i], m)
  <2>1. CASE i \in 1..Len(q) /\ r[i] = q[i]
    BY <1>2, <2>1 DEF EventsTyped, EventTyped
  <2>2. CASE \E a \in 1..Len(news) : i = Len(q) + a /\ r[i] = news[a]
    BY <2>2 DEF EventsTyped
  <2> QED
    BY <1>1, <2>1, <2>2, NewOrOld
<1> QED
  BY <1>1, <1>3 DEF EventsTyped

LEMMA OneTyped ==
  ASSUME NEW e, NEW n, EventTyped(e, n)
  PROVE  Pipe(<<e>>) /\ EventsTyped(<<e>>, n)
<1>1. PICK q : q = <<e>> /\ Pipe(q) /\ Len(q) = 1 /\ q[1] = e
  BY PipeTuples
<1>2. \A i \in 1..1 : i = 1
  OBVIOUS
<1>3. EventsTyped(q, n)
  BY <1>1, <1>2 DEF EventsTyped
<1> QED
  BY <1>1, <1>3
LEMMA OtherTyped ==
  ASSUME NEW kind, NEW t, NEW body, NEW n,
         \/ kind \in {"messages", "chunk", "done", "error"}
         \/ kind = "agents" /\ body \subseteq Agents
         \/ kind = "retry" /\ body \in 0..n
  PROVE  EventTyped(Event(kind, t, body), n)
<1>1. PICK e : e = Event(kind, t, body) /\ e.kind = kind /\ e.body = body
  BY EventFields
<1> QED
  BY <1>1 DEF EventTyped, IsStart, StartId

(* What the main process tells is typed.                                     *)
LEMMA TypedTold ==
  ASSUME AgentInv, AgentInv', PanelInv, AgentTyped, panel' = panel,
         ids'.turn >= ids.turn, ids'.msg >= ids.msg, NEW news, Pipe(news),
         toPanel' = toPanel \o news, EventsTyped(news, ids'.msg),
         TextsWithin(store', ids'.turn), TextsWithin(saved', ids'.turn),
         born' \subseteq Threads, agents' \subseteq Agents
  PROVE  AgentTyped'
<1>1. /\ ids.turn \in Nat /\ ids.msg \in Nat /\ ids'.turn \in Nat /\ ids'.msg \in Nat
  BY DEF AgentInv
<1>2. EventsTyped(toPanel', ids'.msg)
  BY <1>1, EventsTold DEF PanelInv, AgentTyped
<1>3. PanelTyped(panel', ids'.msg)
  <2>1. \A i \in 0..ids.msg : i \in 0..ids'.msg
    BY <1>1
  <2> QED
    BY <2>1 DEF AgentTyped, PanelTyped
<1> QED
  BY <1>2, <1>3 DEF AgentTyped

LEMMA OneTypedTold ==
  ASSUME AgentInv, AgentInv', PanelInv, AgentTyped, panel' = panel, ids' = ids,
         NEW e, toPanel' = toPanel \o <<e>>, EventTyped(e, ids.msg),
         TextsWithin(store', ids.turn), TextsWithin(saved', ids.turn),
         born' \subseteq Threads, agents' \subseteq Agents
  PROVE  AgentTyped'
<1>1. ids.turn \in Nat /\ ids.msg \in Nat
  BY DEF AgentInv
<1>2. PICK news : news = <<e>> /\ Pipe(news) /\ EventsTyped(news, ids.msg)
  BY OneTyped
<1>3. ids'.turn >= ids.turn /\ ids'.msg >= ids.msg
  BY <1>1
<1> QED
  BY <1>2, <1>3, TypedTold

LEMMA UserTyped ==
  ASSUME AgentInv, PanelInv, AgentTyped,
         \/ \E t \in Threads : Select(t) \/ Delete(t)
         \/ \E a \in Agents : NewThread(a)
         \/ \E i \in DOMAIN panel.shown : Retry(i)
         \/ Back \/ Submit \/ PressStop
  PROVE  AgentTyped'
<1>1. DOMAIN panel = PanelFields /\ PanelTyped(panel, ids.msg) /\ ids.msg \in Nat
  BY DEF PanelInv, AgentTyped, AgentInv
<1>2. ASSUME NEW p, NEW calls, Render(p, calls), UserActs, DOMAIN p = PanelFields,
             p.agents = panel.agents, p.selected \in Threads \cup {NoThread},
             p.awaiting \in BOOLEAN, p.streaming = panel.streaming
      PROVE  AgentTyped'
  <2>1. PanelTyped(p, ids.msg)
    BY <1>1, <1>2 DEF PanelTyped
  <2>2. PanelTyped(panel', ids.msg)
    <3>1. CASE Mounted(p) = Mounted(panel)
      <4>1. panel' = p
        BY <1>2, <3>1 DEF Render
      <4> QED
        BY <2>1, <4>1
    <3>2. CASE Mounted(p) # Mounted(panel)
      <4>1. panel' = OnMount(p)
        BY <1>2, <3>2 DEF Render
      <4>2. /\ panel'.agents = p.agents /\ panel'.selected = p.selected
            /\ panel'.awaiting = p.awaiting /\ panel'.streaming = NoMsg
        BY <1>2, <4>1 DEF OnMount, PanelFields
      <4>3. NoMsg \in 0..ids.msg
        BY <1>1 DEF NoMsg
      <4> QED
        BY <2>1, <4>2, <4>3 DEF PanelTyped
    <3> QED
      BY <3>1, <3>2
  <2>3. UNCHANGED <<store, saved, agents, toPanel, born, ids>>
    BY <1>2 DEF UserActs, main, counters
  <2> QED
    BY <2>2, <2>3 DEF AgentTyped
<1>3. ASSUME NEW t \in Threads \cup {NoThread}, NEW calls,
             Render([panel EXCEPT !.selected = t], calls), UserActs
      PROVE  AgentTyped'
  <2>1. PICK p : p = [panel EXCEPT !.selected = t]
    OBVIOUS
  <2>2. /\ DOMAIN p = PanelFields /\ p.agents = panel.agents /\ p.selected = t
        /\ p.awaiting = panel.awaiting /\ p.streaming = panel.streaming
    BY <1>1, <2>1 DEF PanelFields
  <2>3. p.selected \in Threads \cup {NoThread} /\ p.awaiting \in BOOLEAN
    BY <1>1, <2>2 DEF PanelTyped
  <2> QED
    BY <1>2, <1>3, <2>1, <2>2, <2>3
<1>4. ASSUME NEW calls, Render(panel, calls), UserActs PROVE AgentTyped'
  <2>1. panel.selected \in Threads \cup {NoThread} /\ panel.awaiting \in BOOLEAN
    BY <1>1 DEF PanelTyped
  <2> QED
    BY <1>1, <1>2, <1>4, <2>1
<1>5. ASSUME NEW t \in Threads, Select(t) PROVE AgentTyped'
  BY <1>3, <1>5 DEF Select
<1>6. ASSUME NEW t \in Threads, Delete(t) PROVE AgentTyped'
  <2>1. PICK sel : sel = (IF Mounted(panel) = t THEN NoThread ELSE panel.selected)
    OBVIOUS
  <2>2. sel \in Threads \cup {NoThread}
    BY <1>1, <2>1 DEF PanelTyped
  <2>3. PICK p : p = [panel EXCEPT !.selected = sel]
    OBVIOUS
  <2>4. p = [panel EXCEPT !.selected = IF Mounted(panel) = t THEN NoThread ELSE @]
    BY <2>1, <2>3
  <2>5. Render(p, <<Event("delete", t, NoMsg)>>) /\ UserActs
    BY <1>6, <2>4 DEF Delete
  <2> QED
    BY <1>3, <2>2, <2>3, <2>5
<1>7. ASSUME NEW a \in Agents, NewThread(a) PROVE AgentTyped'
  <2>1. PICK p : p = [panel EXCEPT !.awaiting = TRUE]
    OBVIOUS
  <2>2. Render(p, <<Event("create", NoThread, a)>>) /\ UserActs
    BY <1>7, <2>1 DEF NewThread
  <2>3. /\ DOMAIN p = PanelFields /\ p.agents = panel.agents /\ p.selected = panel.selected
        /\ p.awaiting = TRUE /\ p.streaming = panel.streaming
    BY <1>1, <2>1 DEF PanelFields
  <2>4. p.selected \in Threads \cup {NoThread} /\ p.awaiting \in BOOLEAN
    BY <1>1, <2>3 DEF PanelTyped
  <2> QED
    BY <1>2, <2>2, <2>3, <2>4
<1>8. CASE Back
  <2>1. Render([panel EXCEPT !.selected = NoThread], <<>>) /\ UserActs
    BY <1>8 DEF Back
  <2> QED
    BY <1>3, <2>1
<1>9. ASSUME NEW i \in DOMAIN panel.shown, Retry(i) PROVE AgentTyped'
  BY <1>4, <1>9 DEF Retry
<1>10. CASE Submit
  BY <1>4, <1>10 DEF Submit
<1>11. CASE PressStop
  BY <1>4, <1>11 DEF PressStop
<1> QED
  BY <1>5, <1>6, <1>7, <1>8, <1>9, <1>10, <1>11

LEMMA FreshTyped ==
  ASSUME NEW n \in Nat
  PROVE  PanelTyped(FreshPanel, n)
<1>1. PICK p : p = FreshPanel
  OBVIOUS
<1>2. p.agents = {} /\ p.selected = NoThread /\ p.awaiting = FALSE /\ p.streaming = 0
  BY <1>1 DEF FreshPanel, NoMsg
<1>3. p.agents \subseteq Agents /\ p.selected \in Threads \cup {NoThread} /\ p.awaiting \in BOOLEAN
  BY <1>2
<1>4. p.streaming \in 0..n
  BY <1>2
<1>5. PanelTyped(p, n)
  BY <1>3, <1>4 DEF PanelTyped
<1> QED
  BY <1>1, <1>5

LEMMA ReopenTyped ==
  ASSUME AgentInv, PanelInv, AgentTyped, Reopen
  PROVE  AgentTyped'
<1>1. panel' = FreshPanel /\ UNCHANGED <<store, saved, agents, toPanel, born, ids>>
  BY DEF Reopen, UserActs, main, counters
<1>2. PanelTyped(panel', ids.msg)
  BY <1>1, FreshTyped DEF AgentInv
<1> QED
  BY <1>1, <1>2 DEF AgentTyped

LEMMA StartTyped ==
  ASSUME NEW p, p = FreshPanel, NEW q, q = <<>>, NEW n \in Nat
  PROVE  PanelTyped(p, n) /\ EventsTyped(q, n)
<1>1. Len(q) = 0
  BY PipeTuples
<1>2. \A i \in 1..0 : FALSE
  OBVIOUS
<1> QED
  BY <1>1, <1>2, FreshTyped DEF EventsTyped

LEMMA CrashTyped ==
  ASSUME AgentInv, PanelInv, AgentTyped, Crash
  PROVE  AgentTyped'
<1>1. PICK s \in {saved, Empty} : store' = s /\ saved' = s
  BY DEF Crash, Persist
<1>2. panel' = FreshPanel /\ toPanel' = <<>> /\ UNCHANGED <<agents, born, ids>>
  BY DEF Crash, counters
<1>3. TextsWithin(s, ids.turn)
  BY <1>1, NoTexts DEF AgentTyped
<1>4. PanelTyped(panel', ids.msg) /\ EventsTyped(toPanel', ids.msg)
  BY <1>2, StartTyped DEF AgentInv
<1> QED
  BY <1>1, <1>2, <1>3, <1>4 DEF AgentTyped

LEMMA AgentStartsTyped ==
  ASSUME AgentInit
  PROVE  AgentTyped
<1>1. /\ store = Empty /\ saved = Empty /\ panel = FreshPanel /\ toPanel = <<>>
      /\ agents = Agents /\ born = {} /\ ids = [turn |-> 0, msg |-> 0]
  BY DEF AgentInit, NoTurn, NoMsg
<1>2. PanelTyped(panel, ids.msg) /\ EventsTyped(toPanel, ids.msg)
  BY <1>1, StartTyped
<1>3. TextsWithin(store, ids.turn) /\ TextsWithin(saved, ids.turn)
  BY <1>1, NoTexts
<1> QED
  BY <1>1, <1>2, <1>3 DEF AgentTyped

LEMMA ListDelivered ==
  ASSUME AgentInv, PanelInv, AgentTyped, NEW p, Render(p, <<>>), DOMAIN p = PanelFields,
         PanelTyped(p, ids.msg), UNCHANGED <<store, saved, agents, born, ids>>,
         EventsTyped(toPanel', ids.msg)
  PROVE  AgentTyped'
<1>1. PanelTyped(panel', ids.msg)
  <2>1. CASE Mounted(p) = Mounted(panel)
    <3>1. panel' = p
      BY <2>1 DEF Render
    <3> QED
      BY <3>1
  <2>2. CASE Mounted(p) # Mounted(panel)
    <3>1. panel' = OnMount(p)
      BY <2>2 DEF Render
    <3>2. /\ panel'.agents = p.agents /\ panel'.selected = p.selected
          /\ panel'.awaiting = p.awaiting /\ panel'.streaming = NoMsg
      BY <3>1 DEF OnMount, PanelFields
    <3>3. NoMsg \in 0..ids.msg
      BY DEF NoMsg, AgentInv
    <3> QED
      BY <3>2, <3>3 DEF PanelTyped
  <2> QED
    BY <2>1, <2>2
<1> QED
  BY <1>1 DEF AgentTyped

LEMMA ConversationTyped ==
  ASSUME DOMAIN panel = PanelFields, NEW n \in Nat, PanelTyped(panel, n),
         NEW e, e.kind \in EventKinds \ {"agents", "threads"}, EventTyped(e, n),
         panel' = IF ~Ours(e.thread) THEN panel
                  ELSE CASE e.kind = "messages" -> [panel EXCEPT !.shown = e.body]
                   [] e.kind = "added" ->
                        [panel EXCEPT !.shown = Append(@, e.body),
                                  !.streaming = IF e.body.role = "assistant"
                                                THEN e.body.id ELSE @]
                   [] e.kind = "chunk" ->
                        [panel EXCEPT !.shown = WithChunk(@, e.body[1], e.body[2])]
                   [] e.kind = "done" ->
                        [panel EXCEPT !.streaming = IF @ = e.body THEN NoMsg ELSE @]
                   [] e.kind = "error" ->
                        [panel EXCEPT !.streaming = IF @ = e.body THEN NoMsg ELSE @,
                                  !.shown = WithError(@, e.body)]
                   [] e.kind = "retry" ->
                        [panel EXCEPT !.streaming = e.body, !.shown = Blank(@, e.body)]
  PROVE  PanelTyped(panel', n)
<1> DEFINE Streams(streaming) ==
             /\ panel'.agents = panel.agents /\ panel'.selected = panel.selected
             /\ panel'.awaiting = panel.awaiting /\ panel'.streaming = streaming
<1>1. ASSUME NEW streaming, Streams(streaming),
             \/ streaming = NoMsg \/ streaming = panel.streaming
             \/ IsStart(e) /\ streaming = StartId(e)
      PROVE  PanelTyped(panel', n)
  <2>1. panel.streaming \in 0..n /\ NoMsg \in 0..n
    BY DEF PanelTyped, NoMsg
  <2>2. streaming \in 0..n
    BY <1>1, <2>1 DEF EventTyped
  <2> QED
    BY <1>1, <2>2 DEF PanelTyped
<1>2. CASE ~Ours(e.thread)
  BY <1>2
<1>3. CASE Ours(e.thread)
  <2>2. CASE e.kind = "messages"
    <3>1. Streams(panel.streaming)
      BY <1>3, <2>2 DEF PanelFields
    <3> QED
      BY <1>1, <3>1
  <2>3. CASE e.kind = "added" /\ e.body.role = "assistant"
    <3>1. Streams(e.body.id)
      BY <1>3, <2>3 DEF PanelFields
    <3> QED
      BY <1>1, <2>3, <3>1 DEF IsStart, StartId
  <2>4. CASE e.kind = "added" /\ e.body.role # "assistant"
    <3>1. Streams(panel.streaming)
      BY <1>3, <2>4 DEF PanelFields
    <3> QED
      BY <1>1, <3>1
  <2>5. CASE e.kind = "chunk"
    <3>1. Streams(panel.streaming)
      BY <1>3, <2>5 DEF PanelFields
    <3> QED
      BY <1>1, <3>1
  <2>6. CASE e.kind = "done"
    <3>1. Streams(IF panel.streaming = e.body THEN NoMsg ELSE panel.streaming)
      BY <1>3, <2>6 DEF PanelFields
    <3> QED
      BY <1>1, <3>1
  <2>7. CASE e.kind = "error"
    <3>1. Streams(IF panel.streaming = e.body THEN NoMsg ELSE panel.streaming)
      BY <1>3, <2>7 DEF PanelFields
    <3> QED
      BY <1>1, <3>1
  <2>8. CASE e.kind = "retry"
    <3>1. Streams(e.body)
      BY <1>3, <2>8 DEF PanelFields
    <3> QED
      BY <1>1, <2>8, <3>1 DEF IsStart, StartId
  <2> QED
    BY <2>2, <2>3, <2>4, <2>5, <2>6, <2>7, <2>8 DEF EventKinds
<1> QED
  BY <1>2, <1>3

LEMMA DeliverTyped ==
  ASSUME AgentInv, PanelInv, AgentTyped, Deliver
  PROVE  AgentTyped'
<1>1. PICK e : e = Head(toPanel)
  OBVIOUS
<1>2. toPanel # <<>> /\ toPanel' = Tail(toPanel) /\ UNCHANGED <<store, saved, agents, born, ids>>
  BY DEF Deliver, main, counters
<1>3. Pipe(toPanel') /\ TakenFrom(toPanel', toPanel) /\ e = toPanel[1]
  BY <1>1, <1>2, PipeTaken DEF PanelInv
<1>4. e.kind \in EventKinds /\ EventTyped(e, ids.msg)
  BY <1>3, TakenPlaces DEF PanelInv, AgentTyped, EventsTyped
<1>5. EventsTyped(toPanel', ids.msg)
  BY <1>3, TakenPlaces DEF AgentTyped, EventsTyped
<1>6. /\ DOMAIN panel = PanelFields /\ ids.msg \in Nat /\ PanelTyped(panel, ids.msg)
  BY DEF PanelInv, AgentInv, AgentTyped
<1>7. CASE e.kind = "agents"
  <2>1. PICK p : p = [panel EXCEPT !.agents = e.body]
    OBVIOUS
  <2>2. Render(p, <<>>)
    BY <1>1, <1>7, <2>1 DEF Deliver
  <2>3. /\ DOMAIN p = PanelFields /\ p.agents = e.body /\ p.selected = panel.selected
        /\ p.awaiting = panel.awaiting /\ p.streaming = panel.streaming
    BY <1>6, <2>1 DEF PanelFields
  <2>4. PanelTyped(p, ids.msg)
    BY <1>4, <1>6, <1>7, <2>3 DEF PanelTyped, EventTyped
  <2> QED
    BY <1>2, <1>5, <2>2, <2>3, <2>4, ListDelivered
<1>8. CASE e.kind = "threads"
  <2>0. e.body \in Seq(Threads)
    BY <1>4, <1>8 DEF EventTyped
  <2>2. CASE panel.awaiting /\ e.body # <<>>
    <3>1. PICK p : p = [panel EXCEPT !.list = e.body, !.awaiting = FALSE, !.selected = e.body[1]]
      OBVIOUS
    <3>2. Render(p, <<>>)
      BY <1>1, <1>8, <2>2, <3>1 DEF Deliver
    <3>3. /\ DOMAIN p = PanelFields /\ p.agents = panel.agents /\ p.selected = e.body[1]
          /\ p.awaiting = FALSE /\ p.streaming = panel.streaming
      BY <1>6, <3>1 DEF PanelFields
    <3>4. e.body[1] \in Threads
      <4>1. PICK q \in Seq(Threads) : q = e.body /\ q # <<>>
        BY <2>0, <2>2
      <4>2. q[1] \in Threads
        BY <4>1
      <4> QED
        BY <4>1, <4>2
    <3>5. PanelTyped(p, ids.msg)
      BY <1>6, <3>3, <3>4 DEF PanelTyped
    <3> QED
      BY <1>2, <1>5, <3>2, <3>3, <3>5, ListDelivered
  <2>3. CASE ~(panel.awaiting /\ e.body # <<>>)
    <3>1. PICK p : p = [panel EXCEPT !.list = e.body]
      OBVIOUS
    <3>2. Render(p, <<>>)
      BY <1>1, <1>8, <2>3, <3>1 DEF Deliver
    <3>3. /\ DOMAIN p = PanelFields /\ p.agents = panel.agents /\ p.selected = panel.selected
          /\ p.awaiting = panel.awaiting /\ p.streaming = panel.streaming
      BY <1>6, <3>1 DEF PanelFields
    <3>5. PanelTyped(p, ids.msg)
      BY <1>6, <3>3 DEF PanelTyped
    <3> QED
      BY <1>2, <1>5, <3>2, <3>3, <3>5, ListDelivered
  <2> QED
    BY <2>2, <2>3
<1>9. CASE e.kind \notin {"agents", "threads"}
  <2>1. PanelTyped(panel', ids.msg)
    BY <1>1, <1>4, <1>6, <1>9, ConversationTyped DEF Deliver
  <2> QED
    BY <1>2, <1>5, <2>1 DEF AgentTyped
<1> QED
  BY <1>7, <1>8, <1>9

LEMMA AskedTyped ==
  ASSUME AgentInv, AgentInv', PanelInv, AgentTyped,
         HandleRequestAgents \/ HandleRequestThreads \/ HandleRequestMessages
  PROVE  AgentTyped'
<1>0. TextsWithin(store, ids.turn) /\ TextsWithin(saved, ids.turn) /\ agents \subseteq Agents
      /\ born \subseteq Threads
  BY DEF AgentTyped
<1>1. CASE HandleRequestAgents
  <2>1. /\ toPanel' = toPanel \o <<Event("agents", NoThread, agents)>>
        /\ UNCHANGED <<store, saved, agents, panel, born, ids>>
    BY <1>1 DEF HandleRequestAgents, Receives, Tell, main, counters
  <2>2. EventTyped(Event("agents", NoThread, agents), ids.msg)
    BY <1>0, OtherTyped
  <2> QED
    BY <1>0, <2>1, <2>2, OneTypedTold
<1>2. CASE HandleRequestThreads
  <2>1. /\ toPanel' = toPanel \o <<ThreadList(store)>>
        /\ UNCHANGED <<store, saved, agents, panel, born, ids>>
    BY <1>2 DEF HandleRequestThreads, Receives, Tell, main, counters
  <2>2. EventTyped(ThreadList(store), ids.msg)
    BY ListTyped DEF AgentInv
  <2> QED
    BY <1>0, <2>1, <2>2, OneTypedTold
<1>3. CASE HandleRequestMessages
  <2>1. PICK t, list : /\ toPanel' = toPanel \o <<Event("messages", t, list)>>
                       /\ UNCHANGED <<store, saved, agents, panel, born, ids>>
    BY <1>3 DEF HandleRequestMessages, Receives, Tell, main, counters
  <2>2. EventTyped(Event("messages", t, list), ids.msg)
    BY OtherTyped
  <2> QED
    BY <1>0, <2>1, <2>2, OneTypedTold
<1> QED
  BY <1>1, <1>2, <1>3

(* The store is written and its list of threads is told.                     *)
LEMMA ListedTyped ==
  ASSUME AgentInv, AgentInv', PanelInv, AgentTyped, panel' = panel, ids' = ids, agents' = agents,
         store' = saved', TextsWithin(store', ids.turn), born' \subseteq Threads,
         toPanel' = toPanel \o <<ThreadList(store')>>
  PROVE  AgentTyped'
<1>1. EventTyped(ThreadList(store'), ids.msg)
  BY ListTyped DEF AgentInv
<1>2. agents' \subseteq Agents
  BY DEF AgentTyped
<1> QED
  BY <1>1, <1>2, OneTypedTold

LEMMA CreateTyped ==
  ASSUME AgentInv, AgentInv', PanelInv, AgentTyped, NEW t \in Threads, HandleCreate(t)
  PROVE  AgentTyped'
<1>1. /\ born' = born \cup {t} /\ store' = Created(store, t) /\ saved' = store'
      /\ toPanel' = toPanel \o <<ThreadList(store')>> /\ UNCHANGED <<agents, ids, panel>>
  BY DEF HandleCreate, Receives, Tell, Persist
<1>2. TextsWithin(store', ids.turn)
  BY <1>1, CreatedStore, TextsFewer DEF AgentInv, AgentTyped
<1>3. born' \subseteq Threads
  BY <1>1 DEF AgentTyped
<1> QED
  BY <1>1, <1>2, <1>3, ListedTyped

LEMMA DeleteTyped ==
  ASSUME AgentInv, AgentInv', PanelInv, AgentTyped, HandleDelete
  PROVE  AgentTyped'
<1>1. PICK t : /\ store' = Without(store, t) /\ saved' = store'
               /\ toPanel' = toPanel \o <<ThreadList(store')>>
               /\ UNCHANGED <<agents, ids, born, panel>>
  BY DEF HandleDelete, Receives, Tell, Persist, counters
<1>2. TextsWithin(store', ids.turn)
  BY <1>1, WithoutStore, TextsFewer DEF AgentInv, AgentTyped
<1>3. born' \subseteq Threads
  BY <1>1 DEF AgentTyped
<1> QED
  BY <1>1, <1>2, <1>3, ListedTyped

LEMMA ClearAllTyped ==
  ASSUME AgentInv, AgentInv', PanelInv, AgentTyped, ClearAll
  PROVE  AgentTyped'
<1>1. /\ store' = Empty /\ saved' = store'
      /\ toPanel' = toPanel \o <<ThreadList(store')>>
      /\ UNCHANGED <<agents, ids, born, panel>>
  BY DEF ClearAll, Tell, Persist, counters
<1>2. TextsWithin(store', ids.turn)
  BY <1>1, NoTexts
<1>3. born' \subseteq Threads
  BY <1>1 DEF AgentTyped
<1> QED
  BY <1>1, <1>2, <1>3, ListedTyped

LEMMA RemoveAgentTyped ==
  ASSUME AgentInv, AgentInv', PanelInv, AgentTyped, NEW a, RemoveAgent(a)
  PROVE  AgentTyped'
<1>1. /\ agents' = agents \ {a} /\ toPanel' = toPanel \o <<Event("agents", NoThread, agents')>>
      /\ UNCHANGED <<store, saved, born, ids, panel>>
  BY DEF RemoveAgent, Tell, counters
<1>2. agents' \subseteq Agents /\ TextsWithin(store', ids.turn) /\ TextsWithin(saved', ids.turn)
      /\ born' \subseteq Threads
  BY <1>1 DEF AgentTyped
<1>3. EventTyped(Event("agents", NoThread, agents'), ids.msg)
  BY <1>2, OtherTyped
<1> QED
  BY <1>1, <1>2, <1>3, OneTypedTold

LEMMA QuietTyped ==
  ASSUME AgentTyped, UNCHANGED <<store, saved, agents, panel, toPanel, born, ids>>
  PROVE  AgentTyped'
BY DEF AgentTyped

LEMMA ChunkTyped ==
  ASSUME AgentInv, AgentInv', PanelInv, AgentTyped, NEW k \in DOMAIN turns, Chunk(k)
  PROVE  AgentTyped'
<1>0. PICK t, id : t = turns[k].thread /\ id = turns[k].msg
  OBVIOUS
<1>1. PICK r : r = WithChunk(MessagesOf(store, t), id, k)
  OBVIOUS
<1>2. /\ store' = Updated(store, t, r) /\ toPanel' = toPanel \o <<Event("chunk", t, <<id, k>>)>>
      /\ UNCHANGED <<saved, agents, panel, born, ids>>
  BY <1>0, <1>1 DEF Chunk, Tell, counters
<1>3. UpdatedTo(store', store, t, r)
  BY <1>2, UpdatedFields DEF AgentInv
<1>4. ids.turn \in Nat /\ k \in 1..ids.turn /\ k \in Nat
  <2>1. ids.turn \in Nat /\ DOMAIN turns \subseteq 1..ids.turn
    BY DEF AgentInv, TurnsSound
  <2> QED
    BY <2>1
<1>5. ASSUME t \in DOMAIN store.messages
      PROVE  /\ SameBut(r, store.messages[t], id)
             /\ \A i \in 1..Len(r) : r[i].id = id => TextWithin(r[i].text, ids.turn)
  <2>1. PICK list \in Seq(MessageRecords) : list = store.messages[t] /\ r = WithChunk(list, id, k)
    BY <1>1, <1>5 DEF AgentInv, StoreSound, MessageLists, MessagesOf
  <2>2. /\ SameBut(r, list, id)
        /\ \A i \in 1..Len(list) : list[i].id = id =>
             r[i] = [list[i] EXCEPT !.text = Append(list[i].text, k)]
    <3>1. ChunkIn(WithChunk(list, id, k), list, id, k)
      BY <1>4, <2>1, ChunkAdded
    <3> QED
      BY <2>1, <3>1 DEF ChunkIn
  <2>3. ASSUME NEW i \in 1..Len(r), r[i].id = id PROVE TextWithin(r[i].text, ids.turn)
    <3>1. i \in 1..Len(list) /\ list[i].id = id
      BY <2>2, <2>3 DEF SameBut
    <3>2. PICK m \in MessageRecords : m = list[i] /\ TextWithin(m.text, ids.turn)
      BY <1>5, <2>1, <3>1 DEF AgentTyped, TextsWithin
    <3>3. m.text \in Seq(Nat)
      BY <3>2 DEF MessageRecords
    <3>4. PICK text : text = Append(m.text, k)
      OBVIOUS
    <3>5. /\ Len(m.text) \in Nat /\ Len(text) = Len(m.text) + 1
          /\ \A j \in 1..Len(m.text) : text[j] = m.text[j]
          /\ text[Len(m.text) + 1] = k
      BY <1>4, <3>3, <3>4, Appended
    <3>6. PICK n \in Nat : n = Len(m.text)
      BY <3>5
    <3>7. \A j \in 1..(n + 1) : j \in 1..n \/ j = n + 1
      OBVIOUS
    <3>8. TextWithin(text, ids.turn)
      BY <1>4, <3>2, <3>5, <3>6, <3>7 DEF TextWithin
    <3>9. r[i] = [m EXCEPT !.text = text]
      BY <2>2, <3>1, <3>2, <3>4
    <3>10. r[i].text = text
      BY <3>9 DEF MessageRecords
    <3> QED
      BY <3>8, <3>10
  <2> QED
    BY <2>1, <2>2, <2>3
<1>6. TextsWithin(store', ids.turn)
  BY <1>3, <1>5, TextsUpdated DEF AgentTyped
<1>7. EventTyped(Event("chunk", t, <<id, k>>), ids.msg)
  BY OtherTyped
<1>8. TextsWithin(saved', ids.turn) /\ born' \subseteq Threads /\ agents' \subseteq Agents
  BY <1>2 DEF AgentTyped
<1> QED
  BY <1>2, <1>6, <1>7, <1>8, OneTypedTold

(* Two events that are typed.                                                *)
LEMMA TwoTyped ==
  ASSUME NEW a, NEW b, NEW n, EventTyped(a, n), EventTyped(b, n)
  PROVE  Pipe(<<a, b>>) /\ EventsTyped(<<a, b>>, n)
<1>1. PICK q : q = <<a, b>> /\ Pipe(q) /\ Len(q) = 2 /\ q[1] = a /\ q[2] = b
  <2>1. Pipe(<<a, b>>) /\ Len(<<a, b>>) = 2 /\ <<a, b>>[1] = a /\ <<a, b>>[2] = b
    BY PipeTuples, Zenon
  <2> QED
    BY <2>1, Zenon
<1>2. \A i \in 1..2 : i = 1 \/ i = 2
  OBVIOUS
<1>3. EventsTyped(q, n)
  BY <1>1, <1>2 DEF EventsTyped
<1> QED
  BY <1>1, <1>3

LEMMA EndTyped ==
  ASSUME AgentInv, AgentInv', PanelInv, AgentTyped, NEW k \in DOMAIN turns,
         NEW failed \in BOOLEAN, End(k, failed)
  PROVE  AgentTyped'
<1>0. PICK t, id : t = turns[k].thread /\ id = turns[k].msg
  OBVIOUS
<1>1. PICK s : s = Finalized(store, t, id, failed)
  OBVIOUS
<1>2. PICK a, b : a = Event(IF failed THEN "error" ELSE "done", t, id) /\ b = ThreadList(s)
  OBVIOUS
<1>3. /\ store' = s /\ saved' = s /\ toPanel' = toPanel \o <<a, b>>
      /\ UNCHANGED <<agents, panel, born, ids>>
  BY <1>0, <1>1, <1>2 DEF End, Tell, SaveAlways, counters
<1>4. TextsWithin(s, ids.turn)
  BY <1>1, TextsFinalized DEF AgentInv, AgentTyped
<1>5. EventTyped(a, ids.msg)
  BY <1>2, OtherTyped
<1>6. EventTyped(b, ids.msg)
  BY <1>2, <1>3, ListTyped DEF AgentInv
<1>7. PICK news : news = <<a, b>> /\ Pipe(news) /\ EventsTyped(news, ids.msg)
  BY <1>5, <1>6, TwoTyped
<1>8. born' \subseteq Threads /\ agents' \subseteq Agents
  BY <1>3 DEF AgentTyped
<1>9. ids'.turn >= ids.turn /\ ids'.msg >= ids.msg
  BY <1>3 DEF AgentInv
<1> QED
  BY <1>3, <1>4, <1>7, <1>8, <1>9, TypedTold

(* A turn begins, or fails for want of its agent.                            *)
LEMMA BegunTyped ==
  ASSUME AgentInv, AgentInv', PanelInv, AgentTyped, UNCHANGED <<panel, agents, born>>,
         NEW s, NEW k, StoreSound(s, k), TextsWithin(s, ids.turn), NEW t, NEW id \in 1..(ids.msg + 2),
         NEW news, BeginTurn(s, t, id, news), Pipe(news), EventsTyped(news, Max({ids.msg, id}))
  PROVE  AgentTyped'
<1>1. ids.turn \in Nat /\ ids.msg \in Nat /\ ids = [turn |-> ids.turn, msg |-> ids.msg]
  BY DEF AgentInv
<1>2. PICK n : n = Max({ids.msg, id}) /\ n \in Nat /\ n >= ids.msg
  BY <1>1, Larger
<1>3. born' \subseteq Threads /\ agents' \subseteq Agents
  BY DEF AgentTyped
<1>4. CASE AgentOf[t] \in agents
  <2>1. /\ ids' = [turn |-> ids.turn + 1, msg |-> n] /\ store' = s /\ saved' = s
        /\ toPanel' = toPanel \o news
    BY <1>2, <1>4 DEF BeginTurn, Persist, Tell
  <2>2. ids'.turn = ids.turn + 1 /\ ids'.msg = n
    BY <2>1
  <2>3. ids'.turn >= ids.turn /\ ids'.turn \in Nat
    BY <1>1, <2>2
  <2>4. TextsWithin(s, ids'.turn)
    BY <1>1, <2>3, TextsMore
  <2> QED
    BY <1>2, <1>3, <2>1, <2>2, <2>3, <2>4, TypedTold
<1>5. CASE AgentOf[t] \notin agents
  <2>1. PICK e : e = Event("error", t, id)
    OBVIOUS
  <2>2. PICK u : u = Finalized(s, t, id, TRUE)
    OBVIOUS
  <2>3. /\ ids' = [ids EXCEPT !.msg = n] /\ store' = u /\ saved' = u
        /\ toPanel' = toPanel \o Append(news, e)
    BY <1>2, <1>5, <2>1, <2>2 DEF BeginTurn, Persist, Tell
  <2>4. ids'.turn = ids.turn /\ ids'.msg = n
    BY <1>1, <2>3
  <2>5. TextsWithin(u, ids'.turn)
    BY <2>2, <2>4, TextsFinalized
  <2>6. EventTyped(e, n)
    BY <2>1, OtherTyped
  <2>7. PICK more : more = Append(news, e) /\ Pipe(more) /\ EventsTyped(more, n)
    <3>1. PICK one : one = <<e>> /\ Pipe(one) /\ EventsTyped(one, n)
      BY <2>6, OneTyped
    <3>2. Append(news, e) = news \o <<e>> /\ Pipe(Append(news, e))
      BY PipeAppended
    <3>3. EventsTyped(news \o one, n)
      BY <1>2, <3>1, EventsTold
    <3> QED
      BY <3>1, <3>2, <3>3
  <2>8. ids'.turn >= ids.turn /\ ids'.msg >= ids.msg
    BY <1>1, <1>2, <2>4
  <2> QED
    BY <1>3, <2>3, <2>4, <2>5, <2>7, <2>8, TypedTold
<1> QED
  BY <1>4, <1>5

LEMMA SendTyped ==
  ASSUME AgentInv, AgentInv', PanelInv, AgentTyped, HandleSend
  PROVE  AgentTyped'
<1>0. PICK t : t = Head(toMain).thread
  OBVIOUS
<1>1. PICK n \in Nat : n = ids.msg
  BY DEF AgentInv
<1>2. PICK question : question = Message(n + 1, "user")
  OBVIOUS
<1>3. PICK reply : reply = Message(n + 2, "assistant")
  OBVIOUS
<1>4. PICK asked : asked = Added(store, t, question)
  OBVIOUS
<1>5. PICK s : s = Added(asked, t, reply)
  OBVIOUS
<1>6. PICK a, b, c : /\ a = Event("added", t, question) /\ b = ThreadList(asked)
                     /\ c = Event("added", t, reply)
  OBVIOUS
<1>7. UNCHANGED <<panel, agents, born>>
  BY DEF HandleSend, Receives
<1>8. CASE t \notin ToSet(store.threads)
  <2>1. UNCHANGED <<store, saved, toPanel, ids>>
    BY <1>0, <1>8 DEF HandleSend
  <2> QED
    BY <1>7, <2>1, QuietTyped
<1>9. CASE t \in ToSet(store.threads)
  <2>1. BeginTurn(s, t, reply.id, <<a, b, c>>)
    BY <1>0, <1>1, <1>2, <1>3, <1>4, <1>5, <1>6, <1>9 DEF HandleSend
  <2>2. /\ question \in MessageRecords /\ question.id = n + 1 /\ question.text = <<>>
        /\ question.role = "user"
        /\ reply \in MessageRecords /\ reply.id = n + 2 /\ reply.text = <<>>
        /\ reply.role = "assistant"
    <3>1. <<>> \in Seq(Nat) /\ n + 1 \in Nat /\ n + 2 \in Nat
      OBVIOUS
    <3> QED
      BY <1>2, <1>3, <3>1 DEF Message, MessageRecords
  <2>3. StoreSound(store, n) /\ TextsWithin(store, ids.turn)
    BY <1>1 DEF AgentInv, AgentTyped
  <2>4. t \in DOMAIN store.messages /\ t \in Threads
    BY <1>9, <2>3, ThreadsListed
  <2>5. StoreSound(asked, n + 1) /\ AddedTo(asked, store, t, question)
    BY <1>4, <2>2, <2>3, <2>4, AddedSound
  <2>6. t \in DOMAIN asked.messages
    BY <2>4, <2>5 DEF AddedTo
  <2>7. PICK n1 \in Nat : n1 = n + 1 /\ reply.id = n1 + 1
    BY <2>2
  <2>8. StoreSound(s, n1 + 1) /\ AddedTo(s, asked, t, reply)
    BY <1>5, <2>2, <2>5, <2>6, <2>7, AddedSound
  <2>9. TextsWithin(asked, ids.turn)
    BY <2>2, <2>3, <2>4, <2>5, TextsAdded
  <2>10. TextsWithin(s, ids.turn)
    BY <2>2, <2>5, <2>6, <2>8, <2>9, TextsAdded
  <2>11. PICK id \in 1..(ids.msg + 2) : id = reply.id /\ Max({ids.msg, id}) = id /\ id \in Nat
    <3>1. PICK id \in Nat : id = reply.id /\ id = n + 2
      BY <2>2
    <3>2. id \in 1..(ids.msg + 2)
      BY <1>1, <3>1
    <3>3. Max({ids.msg, id}) = id
      BY <1>1, <3>1, Larger
    <3> QED
      BY <3>1, <3>2, <3>3
  <2>12. /\ a.kind = "added" /\ a.body = question
         /\ c.kind = "added" /\ c.body = reply
    BY <1>6, EventFields
  <2>13. EventTyped(a, id) /\ EventTyped(c, id) /\ EventTyped(b, id)
    <3>1. EventTyped(a, id)
      BY <2>2, <2>12 DEF EventTyped, IsStart
    <3>2. EventTyped(c, id)
      BY <2>11, <2>12 DEF EventTyped, StartId
    <3>3. EventTyped(b, id)
      BY <1>6, <2>5, ListTyped
    <3> QED
      BY <3>1, <3>2, <3>3
  <2>14. PICK news : news = <<a, b, c>> /\ Pipe(news) /\ EventsTyped(news, id)
    <3>1. /\ Pipe(<<a, b, c>>) /\ Len(<<a, b, c>>) = 3
          /\ <<a, b, c>>[1] = a /\ <<a, b, c>>[2] = b /\ <<a, b, c>>[3] = c
      BY TuplesAppended, Zenon
    <3>2. PICK news : news = <<a, b, c>> /\ Pipe(news) /\ Len(news) = 3
                      /\ news[1] = a /\ news[2] = b /\ news[3] = c
      BY <3>1, Zenon
    <3>3. \A i \in 1..3 : i = 1 \/ i = 2 \/ i = 3
      OBVIOUS
    <3>4. EventsTyped(news, id)
      BY <2>13, <3>2, <3>3 DEF EventsTyped
    <3> QED
      BY <3>2, <3>4
  <2>15. BeginTurn(s, t, id, news) /\ EventsTyped(news, Max({ids.msg, id}))
    BY <2>1, <2>11, <2>14
  <2> QED
    BY <1>7, <2>8, <2>10, <2>14, <2>15, BegunTyped
<1> QED
  BY <1>8, <1>9

LEMMA RetryTyped ==
  ASSUME AgentInv, AgentInv', PanelInv, AgentTyped, HandleRetry
  PROVE  AgentTyped'
<1>0. PICK t, id : t = Head(toMain).thread /\ id = Head(toMain).body
  OBVIOUS
<1>1. UNCHANGED <<panel, agents, born>>
  BY DEF HandleRetry, Receives
<1>2. CASE ~(t \in ToSet(store.threads) /\ Retriable(t, id))
  <2>1. UNCHANGED <<store, saved, toPanel, ids>>
    BY <1>0, <1>2 DEF HandleRetry
  <2> QED
    BY <1>1, <2>1, QuietTyped
<1>3. CASE t \in ToSet(store.threads) /\ Retriable(t, id)
  <2>1. PICK r, s : r = Blank(store.messages[t], id) /\ s = Updated(store, t, r)
    OBVIOUS
  <2>2. PICK n : n = ids.msg
    OBVIOUS
  <2>3. /\ t \in DOMAIN store.messages /\ id \in 1..n /\ SameBut(r, store.messages[t], id)
        /\ \A j \in 1..Len(r) : r[j].id = id => r[j].text = <<>>
        /\ UpdatedTo(s, store, t, r) /\ StoreSound(s, n)
    <3>1. Retriable(t, id)
      BY <1>3
    <3>2. t \in DOMAIN store.messages /\ id \in 1..n
      BY <2>1, <2>2, <3>1, RetriedStore
    <3>3. SameBut(r, store.messages[t], id) /\ UpdatedTo(s, store, t, r) /\ StoreSound(s, n)
      BY <2>1, <2>2, <3>1, RetriedStore
    <3>4. ReadyFor(s, t, id)
      BY <2>1, <2>2, <3>1, RetriedStore
    <3>5. t \in DOMAIN s.messages /\ s.messages[t] = r
      BY <3>2, <3>3 DEF UpdatedTo
    <3>6. \A j \in 1..Len(r) : r[j].id = id => r[j].text = <<>>
      BY <3>4, <3>5 DEF ReadyFor
    <3> QED
      BY <3>2, <3>3, <3>6
  <2>4. BeginTurn(s, t, id, <<Event("retry", t, id)>>)
    BY <1>0, <1>3, <2>1 DEF HandleRetry
  <2>5. \A j \in 1..Len(r) : r[j].id = id => TextWithin(r[j].text, ids.turn)
    <3>1. ASSUME NEW j \in 1..Len(r), r[j].id = id PROVE TextWithin(r[j].text, ids.turn)
      <4>1. PICK text : text = r[j].text /\ text = <<>>
        BY <2>3, <3>1
      <4>2. TextWithin(text, ids.turn)
        BY <4>1 DEF TextWithin
      <4> QED
        BY <4>1, <4>2
    <3> QED
      BY <3>1
  <2>6. TextsWithin(s, ids.turn)
    BY <2>3, <2>5, TextsUpdated DEF AgentTyped
  <2>7. ids.msg \in Nat /\ id \in 1..(ids.msg + 2) /\ Max({ids.msg, id}) \in Nat
        /\ id \in 0..Max({ids.msg, id})
    <3>1. PICK a \in Nat : a = ids.msg
      BY DEF AgentInv
    <3>2. id \in Nat /\ id \in 1..(a + 2)
      BY <2>2, <2>3, <3>1
    <3>3. PICK b : b = Max({a, id}) /\ b \in Nat /\ b >= id
      BY <3>1, <3>2, Larger
    <3>4. id \in 0..b
      BY <3>2, <3>3
    <3> QED
      BY <3>1, <3>2, <3>3, <3>4
  <2>8. EventTyped(Event("retry", t, id), Max({ids.msg, id}))
    BY <2>7, OtherTyped
  <2>9. PICK news : news = <<Event("retry", t, id)>> /\ Pipe(news) /\ EventsTyped(news, Max({ids.msg, id}))
    BY <2>8, OneTyped
  <2> QED
    BY <1>1, <2>3, <2>4, <2>6, <2>7, <2>9, BegunTyped
<1> QED
  BY <1>2, <1>3

LEMMA AgentTypedStep == AgentInv /\ PanelInv /\ AgentTyped /\ [AgentNext]_agentVars => AgentTyped'
<1> SUFFICES ASSUME AgentInv, PanelInv, AgentTyped, [AgentNext]_agentVars PROVE AgentTyped'
  OBVIOUS
<1>0. AgentInv'
  BY AgentStep
<1>1. CASE UNCHANGED agentVars
  BY <1>1, QuietTyped DEF agentVars, main, counters
<1>2. CASE User
  <2>1. CASE ClearAll
    BY <1>0, <2>1, ClearAllTyped
  <2>2. ASSUME NEW a \in Agents, RemoveAgent(a) PROVE AgentTyped'
    BY <1>0, <2>2, RemoveAgentTyped
  <2>3. CASE Reopen
    BY <2>3, ReopenTyped
  <2> QED
    BY <1>2, <2>1, <2>2, <2>3, UserTyped DEF User
<1>3. CASE Deliver
  BY <1>3, DeliverTyped
<1>4. CASE Handler
  <2>1. ASSUME NEW t \in Threads, HandleCreate(t) PROVE AgentTyped'
    BY <1>0, <2>1, CreateTyped
  <2>2. CASE HandleRequestAgents \/ HandleRequestThreads \/ HandleRequestMessages
    BY <1>0, <2>2, AskedTyped
  <2>3. CASE HandleSend
    BY <1>0, <2>3, SendTyped
  <2>4. CASE HandleRetry
    BY <1>0, <2>4, RetryTyped
  <2>5. CASE HandleStop
    BY <2>5, QuietTyped DEF HandleStop, Receives, counters
  <2>6. CASE HandleDelete
    BY <1>0, <2>6, DeleteTyped
  <2> QED
    BY <1>4, <2>1, <2>2, <2>3, <2>4, <2>5, <2>6 DEF Handler
<1>5. CASE Crash
  BY <1>5, CrashTyped
<1>6. ASSUME NEW k \in DOMAIN turns, Turn(k) PROVE AgentTyped'
  <2>1. CASE ToolsListed(k) \/ ToolsRejected(k) \/ CallTool(k) \/ ToolAnswered(k)
    BY <2>1, QuietTyped DEF ToolsListed, ToolsRejected, CallTool, ToolAnswered, counters
  <2>2. CASE Chunk(k)
    BY <1>0, <2>2, ChunkTyped
  <2>3. CASE Done(k) \/ Stopped(k) \/ Fails(k)
    <3>1. PICK failed \in BOOLEAN : End(k, failed)
      BY <2>3 DEF Done, Stopped, Fails
    <3> QED
      BY <1>0, <3>1, EndTyped
  <2> QED
    BY <1>6, <2>1, <2>2, <2>3 DEF Turn
<1> QED
  BY <1>1, <1>2, <1>3, <1>4, <1>5, <1>6 DEF AgentNext

(* What AgentTurns' variables are.                                           *)
LEMMA StoreIs ==
  ASSUME NEW s, StoreSound(s, ids.msg), TextsWithin(s, ids.turn), ids \in [turn : Nat, msg : Nat]
  PROVE  StoreType(s)
<1>1. /\ s.threads \in Seq(Threads) /\ DOMAIN s.messages \subseteq Threads
      /\ \A i, j \in 1..Len(s.threads) : s.threads[i] = s.threads[j] => i = j
      /\ s.messages \in [DOMAIN s.messages -> Seq(MessageRecords)]
  BY DEF StoreSound, Lists, MessageLists
<1>2. DOMAIN s.threads = 1..Len(s.threads)
  BY <1>1, LenProperties
<1>3. ToSet(s.threads) \subseteq Threads
  BY <1>1, <1>2 DEF ToSet
<1>4. IsInjective(s.threads)
  BY <1>1, <1>2 DEF IsInjective
<1>5. ASSUME NEW t \in DOMAIN s.messages, NEW i \in DOMAIN s.messages[t]
      PROVE  s.messages[t][i] \in [id : 1..ids.msg, role : {"user", "assistant"},
                                   text : Seq(1..ids.turn), error : BOOLEAN]
  <2>1. PICK list \in Seq(MessageRecords) : list = s.messages[t]
    BY <1>1
  <2>2. i \in 1..Len(list)
    BY <2>1, LenProperties
  <2>3. PICK m \in MessageRecords : m = list[i]
    BY <2>2
  <2>4. m.id \in 1..ids.msg
    BY <2>1, <2>2, <2>3 DEF StoreSound
  <2>5. PICK text \in Seq(Nat) : text = m.text
    BY <2>3 DEF MessageRecords
  <2>6. \A j \in 1..Len(text) : text[j] \in 1..ids.turn
    BY <2>1, <2>2, <2>3, <2>5 DEF TextsWithin, TextWithin
  <2>7. text \in Seq(1..ids.turn)
    <3>1. PICK n \in Nat : n = Len(text) /\ text \in [1..n -> Nat]
      BY <2>5, LenProperties
    <3>2. text \in [1..n -> 1..ids.turn]
      BY <2>6, <3>1
    <3> QED
      BY <3>2, Mapped
  <2>8. m = [id |-> m.id, role |-> m.role, text |-> m.text, error |-> m.error]
        /\ m.role \in {"user", "assistant"} /\ m.error \in BOOLEAN
    BY <2>3 DEF MessageRecords
  <2>9. m \in [id : 1..ids.msg, role : {"user", "assistant"},
               text : Seq(1..ids.turn), error : BOOLEAN]
    BY <2>4, <2>5, <2>7, <2>8
  <2> QED
    BY <2>1, <2>3, <2>9
<1> QED
  BY <1>1, <1>3, <1>4, <1>5 DEF StoreType

LEMMA AgentIsTyped == AgentInv /\ AgentTyped => AgentTypeOK
<1> SUFFICES ASSUME AgentInv, AgentTyped PROVE AgentTypeOK
  OBVIOUS
<1>1. StoreType(store) /\ StoreType(saved)
  BY StoreIs DEF AgentInv, AgentTyped
<1>2. ASSUME NEW k \in DOMAIN turns
      PROVE  turns[k] \in [thread : Threads, msg : 1..ids.msg,
                           pc : {"tools", "stream", "call", "lost"}, aborted : BOOLEAN]
  <2>1. turns[k] \in TurnRecords /\ turns[k].msg \in 1..ids.msg
    BY DEF AgentInv, TurnsSound
  <2> QED
    BY <2>1 DEF TurnRecords
<1>3. active \in [Threads -> 0..ids.turn]
  <2>1. active \in [Threads -> Nat] /\ ids.turn \in Nat /\ DOMAIN turns \subseteq 1..ids.turn
    BY DEF AgentInv, TurnsSound
  <2>2. ASSUME NEW t \in Threads PROVE active[t] \in 0..ids.turn
    <3>1. CASE active[t] = NoTurn
      BY <2>1, <3>1 DEF NoTurn
    <3>2. CASE active[t] # NoTurn
      <4>1. active[t] \in 1..ids.turn
        BY <2>1, <3>2 DEF AgentInv, Registered
      <4> QED
        BY <2>1, <4>1
    <3> QED
      BY <3>1, <3>2
  <2> QED
    BY <2>1, <2>2
<1> QED
  BY <1>1, <1>2, <1>3 DEF AgentTypeOK, AgentTyped, PanelTyped

(* The variables of AgentTurns keep their types, and the store never lists a *)
(* thread twice: a text is the work of turns that have begun.                *)
THEOREM AgentTypes == AgentSpec => []AgentTypeOK
<1>1. AgentInit => AgentInv /\ PanelInv /\ AgentTyped
  BY AgentStarts, PanelStarts, AgentStartsTyped
<1>2. AgentInv /\ PanelInv /\ AgentTyped /\ [AgentNext]_agentVars
        => (AgentInv /\ PanelInv /\ AgentTyped)'
  BY AgentStep, PanelStep, AgentTypedStep
<1>3. AgentInv /\ PanelInv /\ AgentTyped => AgentTypeOK
  BY AgentIsTyped
<1> QED
  BY <1>1, <1>2, <1>3, PTL DEF AgentSpec
=============================================================================
