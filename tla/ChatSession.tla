---------------------------- MODULE ChatSession ----------------------------
(***************************************************************************)
(* The browser's one chat session (browser/src/main/chatSession.ts on      *)
(* chatClient.ts): it follows the active tab's room, prefers the event     *)
(* stream, falls back to polling, and pauses when the server announces a   *)
(* restart.                                                                *)
(*                                                                         *)
(* JavaScript runs one callback at a time, so each action is a callback.   *)
(* The record m holds the module's variables and, in m.jobs, everything    *)
(* that will call back: requests, open streams and armed timers.  A handle *)
(* (pollTimer, eventStream, restartTimer) is the id of a job; it may       *)
(* outlive the job, and a job may outlive its handle.  The functions of    *)
(* the source that update the variables are operators from m to m.         *)
(*                                                                         *)
(* The server is an ideal room log: Hub says what a real one adds to that. *)
(* Delays and the back-off curve are left out: an armed timer fires at any *)
(* moment.                                                                 *)
(***************************************************************************)
EXTENDS Integers, SequencesExt

CONSTANTS
  Targets,   \* what a session can be for: a room on a server
  NoTarget,
  Limit,     \* bounds: how often each thing of Budget may happen
  MaxJobs    \* bound: how many callbacks are pending at a time

Budget == {"sync", "text", "notice", "fault"}

ASSUME SessionAssumption ==
  /\ NoTarget \notin Targets
  /\ Limit \in [Budget -> Nat]
  /\ MaxJobs \in Nat

VARIABLES
  m,        \* the module's variables and its pending callbacks
  log,      \* each room: "chat" and "restart" messages, the seq is the index
  claimed,  \* whether the server has granted the username
  cached,   \* whether chatServerStore holds a token
  \* --- history and bounds ------------------------------------------------
  began,    \* the cursor /connect gave the session
  sent,     \* <<room typed in, room sent to>> of every text
  used

server == <<log, claimed>>
sessionVars == <<m, server, cached, began, sent, used>>

NoJob == 0

Spend(what) ==
  /\ used[what] < Limit[what]
  /\ used' = [used EXCEPT ![what] = @ + 1]

-----------------------------------------------------------------------------
(* Jobs and handles.                                                       *)

Handles(x) == Range(x.handles) \cup {NoJob}

InUse(x) == DOMAIN x.jobs \cup Handles(x)
FreshJob(x) == CHOOSE i \in 1..(Cardinality(InUse(x)) + 1) : i \notin InUse(x)

\* A pending callback, and its handle where the source keeps one.  from: the
\* cursor a request carries, or the position of a stream; least: how much of the
\* room's log the answer to a poll holds at least, or how many requests of a
\* flushed queue are not answered.
Started(x, kind, gen, room, from, least) ==
  LET id == FreshJob(x)
      job == [kind |-> kind, gen |-> gen, room |-> room, from |-> from, least |-> least]
  IN  [x EXCEPT !.jobs = [i \in DOMAIN @ \cup {id} |-> IF i = id THEN job ELSE @[i]],
                !.handles = IF kind \in DOMAIN @ THEN [@ EXCEPT ![kind] = id] ELSE @]

\* A callback ran: it is pending no more.
Closed(x, i) == [x EXCEPT !.jobs = [j \in DOMAIN @ \ {i} |-> @[j]]]

\* clearTimeout, or close, and the handle set to null.
Cleared(x, kinds) ==
  [x EXCEPT !.jobs = Restrict(@, DOMAIN @ \ {x.handles[k] : k \in kinds}),
            !.handles = [k \in DOMAIN @ |-> IF k \in kinds THEN NoJob ELSE @[k]]]

AnySession(x, i) == x.room # NoTarget
Current(x, i) == x.jobs[i].gen = x.generation

-----------------------------------------------------------------------------
(* The functions of chatSession.ts.                                        *)

EmptyQueue(x) == <<>>
NoToken(x) == FALSE
SameGeneration(x) == x.generation
NextGeneration(x) == x.generation + 1

Teardown(x) ==
  [Cleared(x, DOMAIN x.handles) EXCEPT
     !.generation = NextGeneration(x), !.pollInFlight = FALSE,
     !.token = NoToken(x), !.cursor = 0, !.room = NoTarget,
     !.buffered = {}, !.sendQueue = EmptyQueue(x)]

\* from 1 asserts the username, from 0 presents a token.
StartSession(x, room, reuse) ==
  Started([Teardown(x) EXCEPT !.room = room, !.reuse = reuse, !.status = "connecting"],
          "connect", NextGeneration(x), room, IF reuse THEN 0 ELSE 1, 0)

\* Without a token the request goes to no room and can only be refused.
StartEventStream(x, gen) ==
  Started(x, "eventStream", gen, IF x.token THEN x.room ELSE NoTarget, x.cursor, 0)

SchedulePoll(x, gen) == Started(x, "pollTimer", gen, NoTarget, 0, 0)

ScheduleRestartRetry(x, gen) == Started(x, "restartTimer", gen, NoTarget, 0, 0)

BeginRestartSequence(x, gen) ==
  IF x.handles.restartTimer # NoJob THEN x
  ELSE ScheduleRestartRetry(
         [Cleared(x, {"eventStream", "pollTimer"}) EXCEPT !.status = "connecting"], gen)

Notice(room, from, to) == \E s \in (from + 1)..to : log[room][s] = "restart"

UpToNotice(batch) ==
  {c \in batch : \A d \in batch : d.seq <= c.seq => log[d.room][d.seq] = "chat"}
Visible(batch) == {c \in batch : log[c.room][c.seq] = "chat"}

\* ingestMessages of the messages from + 1 .. to of a room.
Ingest(x, gen, room, from, to) ==
  LET batch == {[room |-> room, seq |-> s] : s \in (from + 1)..to}
      y == [x EXCEPT !.buffered = @ \cup Visible(batch)]
  IN  IF Notice(room, from, to) THEN BeginRestartSequence(y, gen) ELSE y

\* A 401: a cached token is given up, a username is asserted afresh.
Rejected(x) ==
  IF x.reuse THEN [x EXCEPT !.status = "error"]
  ELSE StartSession(x, x.room, FALSE)

FlushSendQueue(x) ==
  IF x.token /\ x.sendQueue # <<>>
  THEN [Started(x, "flush", x.generation, x.room, 0, Len(x.sendQueue)) EXCEPT !.sendQueue = <<>>]
  ELSE x

-----------------------------------------------------------------------------
(* The actions: what the rest of the browser calls, then the callbacks.    *)

SessionInit ==
  /\ m = [generation |-> 0, target |-> NoTarget, room |-> NoTarget,
          reuse |-> FALSE, token |-> FALSE, cursor |-> 0,
          handles |-> [k \in {"pollTimer", "eventStream", "restartTimer"} |-> NoJob],
          pollInFlight |-> FALSE, sendQueue |-> <<>>, buffered |-> {},
          status |-> "idle", jobs |-> <<>>]
  /\ log = [t \in Targets |-> <<>>]
  /\ cached \in BOOLEAN
  /\ claimed = cached
  /\ began = 0 /\ sent = {}
  /\ used = [k \in Budget |-> 0]

\* syncChatSession: nothing happens unless the target changed.
Sync(t) ==
  /\ t # m.target
  /\ Spend("sync")
  /\ m' = [StartSession(m, t, cached) EXCEPT !.target = t]
  /\ UNCHANGED <<server, cached, began, sent>>

Stop ==
  /\ m.target # NoTarget
  /\ Spend("sync")
  /\ m' = [Teardown(m) EXCEPT !.target = NoTarget, !.status = "idle"]
  /\ UNCHANGED <<server, cached, began, sent>>

\* sendChatMessage, up to its request.
Type ==
  /\ Spend("text")
  /\ \/ /\ m.handles.restartTimer # NoJob
        /\ m' = [m EXCEPT !.sendQueue = Append(@, m.room)]
        /\ UNCHANGED sent
     \/ /\ m.handles.restartTimer = NoJob /\ m.token
        /\ m' = Started(m, "send", m.generation, m.room, 0, 0)
        /\ sent' = sent \cup {<<m.room, m.room>>}
  /\ UNCHANGED <<server, cached, began>>

Pending(i, kind) == i \in DOMAIN m.jobs /\ m.jobs[i].kind = kind

NetworkError == Spend("fault") /\ UNCHANGED cached

\* A 401 for the token of session x; only a current callback reports it.
TokenRefused(i) ==
  /\ Spend("fault")
  /\ cached' = IF Current(m, i) /\ m.reuse THEN FALSE ELSE cached

Connected(i) ==
  LET job == m.jobs[i]
      x == Closed(m, i)
      seq == Len(log[job.room])
  IN
  /\ Pending(i, "connect")
  /\ job.from = 1 => ~claimed
  /\ claimed' = TRUE
  /\ IF Current(m, i)
     THEN /\ m' = StartEventStream([x EXCEPT !.token = TRUE, !.cursor = seq,
                                             !.status = "connected"], job.gen)
          /\ cached' = TRUE
          /\ began' = seq
     ELSE m' = x /\ UNCHANGED <<cached, began>>
  /\ UNCHANGED <<log, sent, used>>

\* The answer may be lost after the server granted the name (error), the name
\* be taken (409), or the token be refused (401).
ConnectFails(i) ==
  LET job == m.jobs[i]
      x == Closed(m, i)
  IN
  /\ Pending(i, "connect")
  /\ \/ NetworkError /\ claimed' \in {claimed, claimed \/ job.from = 1}
     \/ job.from = 1 /\ claimed /\ UNCHANGED <<claimed, cached, used>>
     \/ job.from = 0 /\ TokenRefused(i) /\ UNCHANGED claimed
  /\ m' = IF Current(m, i) THEN [x EXCEPT !.status = "error"] ELSE x
  /\ UNCHANGED <<log, began, sent>>

\* One read of the stream: any number of messages, each to onMessage.
StreamDelivers(i) ==
  LET job == m.jobs[i]
  IN
  /\ Pending(i, "eventStream") /\ job.room # NoTarget
  /\ \E to \in (job.from + 1)..Len(log[job.room]) :
       LET x == [m EXCEPT !.jobs[i].from = to]
           y == [x EXCEPT !.cursor = Max({@, to})]
       IN  m' = IF Current(m, i) THEN Ingest(y, job.gen, job.room, job.from, to) ELSE x
  /\ UNCHANGED <<server, cached, began, sent, used>>

\* onError nulls the handle whichever stream of the session it came from.
StreamFails(i) ==
  LET job == m.jobs[i]
      x == Closed(m, i)
      y == [x EXCEPT !.handles.eventStream = NoJob]
  IN
  /\ Pending(i, "eventStream")
  /\ \/ NetworkError /\ m' = IF Current(m, i) THEN SchedulePoll(y, job.gen) ELSE x
     \/ TokenRefused(i) /\ m' = IF Current(m, i) THEN Rejected(y) ELSE x
     \/ job.room = NoTarget /\ m' = x /\ UNCHANGED <<cached, used>>
  /\ UNCHANGED <<server, began, sent>>

PollTimerFires(i) ==
  LET x == Closed(m, i)
  IN
  /\ Pending(i, "pollTimer")
  /\ m' = IF Current(m, i) /\ m.token
          THEN [Started(x, "poll", m.generation, m.room, m.cursor, Len(log[m.room]))
                  EXCEPT !.pollInFlight = TRUE]
          ELSE x
  /\ UNCHANGED <<server, cached, began, sent, used>>

\* The finally block runs whatever the generation.
Polled(i) == [Closed(m, i) EXCEPT !.pollInFlight = FALSE]

PollAnswered(i) ==
  LET job == m.jobs[i]
  IN
  /\ Pending(i, "poll")
  /\ \E to \in job.least..Len(log[job.room]) :
       m' = IF Current(m, i)
            THEN SchedulePoll(Ingest([Polled(i) EXCEPT !.cursor = to],
                                     job.gen, job.room, job.from, to), job.gen)
            ELSE Polled(i)
  /\ UNCHANGED <<server, cached, began, sent, used>>

GaveUp(x) == x
AfterPollError(x) == SchedulePoll(x, x.generation)

PollFails(i) ==
  LET x == Polled(i)
  IN
  /\ Pending(i, "poll")
  /\ \/ /\ NetworkError
        /\ m' = IF Current(m, i)
                THEN AfterPollError([x EXCEPT !.status = "error"]) ELSE x
     \/ TokenRefused(i) /\ m' = IF Current(m, i) THEN Rejected(x) ELSE x
  /\ UNCHANGED <<server, began, sent>>

\* attemptRestartReconnect up to its await: the generation is checked here.
RestartTimerFires(i) ==
  LET x == [Closed(m, i) EXCEPT !.handles.restartTimer = NoJob]
  IN
  /\ Pending(i, "restartTimer")
  /\ m' = IF Current(m, i) /\ m.token
          THEN Started(x, "ping", m.generation, m.room, 0, 0) ELSE x
  /\ UNCHANGED <<server, cached, began, sent, used>>

\* ... and from there on it is not: the variables may be another session's.
\* Without a session there is no currentIdentity to read the url of.
PingAnswered(i) ==
  LET job == m.jobs[i]
      x == Closed(m, i)
      y == [x EXCEPT !.status = "connected"]
  IN
  /\ Pending(i, "ping")
  /\ IF m.room = NoTarget
     THEN m' = x /\ UNCHANGED sent
     ELSE /\ m' = FlushSendQueue(StartEventStream(y, job.gen))
          /\ sent' = IF m.token THEN sent \cup {<<t, m.room>> : t \in ToSet(m.sendQueue)}
                     ELSE sent
  /\ UNCHANGED <<server, cached, began, used>>

PingFails(i) ==
  /\ Pending(i, "ping")
  /\ NetworkError
  /\ m' = ScheduleRestartRetry(Closed(m, i), m.jobs[i].gen)
  /\ UNCHANGED <<server, began, sent>>

\* One request of a job less.
Answered(i) == IF m.jobs[i].least > 1 THEN [m EXCEPT !.jobs[i].least = @ - 1] ELSE Closed(m, i)

\* /send answered: a text of sendChatMessage hastens the next poll.
SendAnswered(i) ==
  LET x == Answered(i)
  IN
  /\ Pending(i, "send") \/ Pending(i, "flush")
  /\ log' = [log EXCEPT ![m.jobs[i].room] = Append(@, "chat")]
  /\ m' = IF m.jobs[i].kind = "send" /\ ~m.pollInFlight /\ m.handles.pollTimer # NoJob
          THEN SchedulePoll(Cleared(x, {"pollTimer"}), m.generation) ELSE x
  /\ UNCHANGED <<claimed, cached, began, sent, used>>

SendFails(i) ==
  /\ Pending(i, "send") \/ Pending(i, "flush")
  /\ NetworkError
  /\ m' = Answered(i)
  /\ UNCHANGED <<server, began, sent>>

-----------------------------------------------------------------------------
(* The server's side: what others post, and a restart it announces to all. *)

Post(t) ==
  /\ Spend("text")
  /\ log' = [log EXCEPT ![t] = Append(@, "chat")]
  /\ UNCHANGED <<m, claimed, cached, began, sent>>

AnnounceRestart ==
  /\ Spend("notice")
  /\ log' = [t \in Targets |-> Append(log[t], "restart")]
  /\ UNCHANGED <<m, claimed, cached, began, sent>>

Callback(i) ==
  \/ Connected(i) \/ ConnectFails(i)
  \/ StreamDelivers(i) \/ StreamFails(i)
  \/ PollTimerFires(i) \/ PollAnswered(i) \/ PollFails(i)
  \/ RestartTimerFires(i) \/ PingAnswered(i) \/ PingFails(i)
  \/ SendAnswered(i) \/ SendFails(i)

SessionNext ==
  \/ \E t \in Targets : Sync(t) \/ Post(t)
  \/ Stop \/ Type
  \/ AnnounceRestart
  \/ \E i \in DOMAIN m.jobs : Callback(i)

SessionSpec == SessionInit /\ [][SessionNext]_sessionVars

-----------------------------------------------------------------------------
Job == [kind : {"connect", "eventStream", "pollTimer", "poll", "restartTimer", "ping",
                "send", "flush"},
        gen : Nat, room : Targets \cup {NoTarget}, from : Nat, least : Nat]

(* Types; and no more callbacks pile up than MaxJobs.                      *)
SessionTypeOK ==
  /\ DOMAIN m.jobs \subseteq 1..MaxJobs
  /\ \A i \in DOMAIN m.jobs : m.jobs[i] \in Job
  /\ m.generation \in Nat /\ m.cursor \in Nat
  /\ m.target \in Targets \cup {NoTarget} /\ m.room \in {m.target, NoTarget}
  /\ m.token => m.room # NoTarget
  /\ {m.reuse, m.token, m.pollInFlight} \subseteq BOOLEAN
  /\ Handles(m) \subseteq 0..MaxJobs
  /\ m.sendQueue \in Seq(Targets \cup {NoTarget})
  /\ \A c \in m.buffered : c \in [room : Targets, seq : Nat]
  /\ m.status \in {"idle", "connecting", "connected", "error"}
  /\ log \in [Targets -> Seq({"chat", "restart"})]
  /\ {claimed, cached} \subseteq BOOLEAN
  /\ began \in Nat /\ sent \subseteq (Targets \cup {NoTarget}) \X Targets
  /\ used \in [Budget -> Nat]

(* What the panel shows belongs to the room of the session, whatever late  *)
(* answer of an earlier session, or stream nobody closed, still comes in;  *)
(* and a text waiting for a restart to pass is never sent to another room  *)
(* than the one it was typed in.                                           *)
RoomsKeptApart ==
  /\ \A c \in m.buffered : c.room = m.room
  /\ \A d \in sent : d[1] = d[2]

(* Across both transports, their hand-overs, restarts of the server and    *)
(* 401s, every message up to the cursor since /connect was shown.          *)
NoGap ==
  m.token => \A s \in (began + 1)..m.cursor :
    log[m.room][s] = "chat" => [room |-> m.room, seq |-> s] \in m.buffered

Live(i) == Current(m, i) /\ m.jobs[i].kind \notin {"send", "flush"}

(* While the current session waits for /connect nothing else works for it: *)
(* no transport, timer or second /connect.                                 *)
ConnectAlone ==
  \A i, j \in DOMAIN m.jobs :
    Live(i) /\ Live(j) /\ m.jobs[i].kind = "connect" => i = j

(* A connected session always has something that will bring it messages or *)
(* lead it back to them, whatever failed or restarted: an open stream, a   *)
(* poll, or a recovery.  Only a refused cached token ends it (in "error"). *)
NeverDeaf ==
  (m.token /\ ~(m.reuse /\ ~cached)) =>
    \E i \in DOMAIN m.jobs :
      /\ Live(i)
      /\ m.jobs[i].kind \in {"eventStream", "pollTimer", "poll", "restartTimer", "ping"}

(* The two together: what works for a session fits the state it is in.     *)
JobsFitState == ConnectAlone /\ NeverDeaf

(* eventStream's comment: only one transport is ever live.                 *)
OneTransport ==
  ~ \E i, j \in DOMAIN m.jobs :
      /\ Live(i) /\ m.jobs[i].kind = "eventStream" /\ m.jobs[i].room # NoTarget
      /\ Live(j) /\ m.jobs[j].kind \in {"poll", "pollTimer"}

=============================================================================
