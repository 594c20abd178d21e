-------------------------------- MODULE Hub --------------------------------
(***************************************************************************)
(* The in-memory message hub of the chat service                           *)
(* (chat-service/internal/hub/hub.go) together with the HTTP handlers that *)
(* drive it: POST /connect, POST /send and GET /poll (internal/api) and    *)
(* GET /events (internal/sse).                                             *)
(*                                                                         *)
(* A room NAME is looked up in h.rooms under h.mu and yields a roomState   *)
(* OBJECT with a mutex of its own.  Every handler drops h.mu before it     *)
(* takes r.mu, so it goes on with a pointer that GC may meanwhile have     *)
(* removed from h.rooms.  The model therefore keeps objects (RoomObjs)     *)
(* apart from names (Rooms), and has one action per critical section.      *)
(***************************************************************************)
EXTENDS Integers, Sequences, FiniteSets

CONSTANTS
  Rooms,            \* room names
  RoomObjs,         \* addresses of roomState objects (bound on room creations)
  Publishers,       \* goroutines that run SendHandler or Broadcast
  Clients,          \* token holders that run /connect, /poll and /events
  Readers,          \* the clients that go on reading what is written to them
  RoomOf,           \* the room baked into each client's token
  NoRoom, NoObj,    \* "not allocated", and the nil pointer
  MaxBufferSize,    \* hub.MaxBufferSize
  SubscriberBuffer, \* hub.sseSubscriberBuffer
  MaxSubscribers,   \* hub.MaxSSESubscribersTotal
  TTL,              \* hub.BufferTTL, in clock units
  Burst,            \* environment: messages a room may run ahead of the clock
  MaxDelay,         \* environment: age of a timestamp when its message is published
  MaxNow,           \* bound on the clock
  MaxSends          \* bound on the number of Send and Broadcast calls

ASSUME HubAssumption ==
  /\ NoRoom \notin Rooms
  /\ NoObj \notin RoomObjs
  /\ IsFiniteSet(Clients) /\ Readers \subseteq Clients
  /\ RoomOf \in [Clients -> Rooms]
  /\ MaxBufferSize \in Nat \ {0}
  /\ SubscriberBuffer \in Nat \ {0}
  /\ MaxSubscribers \in Nat
  /\ TTL \in Nat \ {0}
  /\ Burst \in Nat
  /\ MaxDelay \in Nat
  /\ MaxNow \in Nat
  /\ MaxSends \in Nat
  \* GC only takes rooms idle for 2 * TTL.  A room would have to be fed faster
  \* than that, 1000 messages a second for minutes, to outrun its next seed.
  /\ Burst + MaxDelay <= 2 * TTL + 1

VARIABLES
  now,          \* the wall clock; UnixMilli() and time.Now() both read it
  \* --- the hub -----------------------------------------------------------
  table,        \* h.rooms: the object of each tracked name, or NoObj
  owner,        \* the name an object was created for, or NoRoom
  seq, messages, lastPublish, subs,   \* the fields of roomState
  totalSubs,    \* h.totalSubs
  \* --- publishers --------------------------------------------------------
  pubPc, pubTodo, pubSender, pubTs, pubObj,
  sends,        \* calls started so far
  \* --- the GC goroutine --------------------------------------------------
  gcPc, gcCutoff, gcDelete,
  \* --- clients and the handlers serving them -----------------------------
  pc, op,       \* where the handler is, and what it serves
  sub,          \* the object Subscribe registered with (its closure's r)
  ptr,          \* the object h.rooms gave to Poll or Seq
  chan,         \* the subscriber channel
  lastSeq,      \* the handler's high-water mark, and the client's cursor
  \* --- history -----------------------------------------------------------
  log,          \* everything ever published into an object
  start,        \* the cursor /connect handed out
  delivered,    \* seqs the client received since that /connect
  missed,       \* seqs the hub dropped or aged out before this client saw them
  strayed       \* clients served from an object that h.rooms no longer held

objVars == <<owner, seq, messages, lastPublish, subs>>
hubVars == <<table, objVars, totalSubs>>
pubVars == <<pubPc, pubTodo, pubSender, pubTs, pubObj, sends>>
gcVars == <<gcPc, gcCutoff, gcDelete>>
clientVars == <<pc, op, sub, ptr, chan, lastSeq>>
histVars == <<log, start, delivered, missed, strayed>>
vars == <<now, hubVars, pubVars, gcVars, clientVars, histVars>>

UserSender == "user"
SystemSender == "system"

\* The zero time.Time: before every cutoff the program can compute.
Never == -(2 * TTL) - 1

\* What sort.Search promises about its result i over 0..n, whatever the
\* predicate: it holds at i (unless i = n) and fails at i - 1 (unless i = 0).
\* Timestamps need not be sorted, so there may be several such i.
SearchIndex(n, P(_)) ==
  {i \in 0..n : (i < n => P(i + 1)) /\ (i > 0 => ~P(i))}

Drop(s, n) == SubSeq(s, n + 1, Len(s))

Seqs(buf) == {buf[i].seq : i \in DOMAIN buf}

Idle(o, cutoff) == lastPublish[o] < cutoff /\ subs[o] = {}

\* What a new room's counter starts from: UnixMilli.
UnseededSeq == 0
InitialSeq == now

\* What /connect answers for an object, or for an unknown room.
SeqOrMissing(o) == IF o = NoObj THEN -1 ELSE seq[o]
SeqOf(o) == IF o = NoObj THEN 0 ELSE seq[o]

\* The predicate of Publish's search, and that of Poll's.
WithinTTL(m) == m.ts >= now - TTL

AfterNext(m, cursor) == m.seq > cursor + 1
NotBefore(m, cursor) == m.seq >= cursor
After(m, cursor) == m.seq > cursor

-----------------------------------------------------------------------------
Init ==
  /\ now = 0
  /\ table = [rm \in Rooms |-> NoObj]
  /\ owner = [o \in RoomObjs |-> NoRoom]
  /\ seq = [o \in RoomObjs |-> 0]
  /\ messages = [o \in RoomObjs |-> <<>>]
  /\ lastPublish = [o \in RoomObjs |-> Never]
  /\ subs = [o \in RoomObjs |-> {}]
  /\ totalSubs = 0
  /\ pubPc = [p \in Publishers |-> "idle"]
  /\ pubTodo = [p \in Publishers |-> {}]
  /\ pubSender = [p \in Publishers |-> UserSender]
  /\ pubTs = [p \in Publishers |-> 0]
  /\ pubObj = [p \in Publishers |-> NoObj]
  /\ sends = 0
  /\ gcPc = "wait" /\ gcCutoff = 0 /\ gcDelete = {}
  /\ pc = [c \in Clients |-> "idle"]
  /\ op = [c \in Clients |-> "join"]
  /\ sub = [c \in Clients |-> NoObj]
  /\ ptr = [c \in Clients |-> NoObj]
  /\ chan = [c \in Clients |-> <<>>]
  /\ lastSeq = [c \in Clients |-> 0]
  /\ log = [o \in RoomObjs |-> <<>>]
  /\ start = [c \in Clients |-> 0]
  /\ delivered = [c \in Clients |-> <<>>]
  /\ missed = [c \in Clients |-> {}]
  /\ strayed = {}

-----------------------------------------------------------------------------
(* Time.  A message is published at most MaxDelay after its handler took   *)
(* its timestamp.                                                          *)

Tick ==
  /\ now < MaxNow
  /\ \A p \in Publishers : pubPc[p] # "idle" => now - pubTs[p] < MaxDelay
  /\ now' = now + 1
  /\ UNCHANGED <<hubVars, pubVars, gcVars, clientVars, histVars>>

(* ensureRoom: the tracked object of rm, or a fresh one seeded from the    *)
(* clock.  The slow path repeats the lookup under the write lock, so the   *)
(* call takes effect in one step.                                          *)
EnsureRoom(rm, o) ==
  \/ /\ table[rm] = o
     /\ UNCHANGED <<table, owner, seq>>
  \/ /\ table[rm] = NoObj
     /\ owner[o] = NoRoom
     /\ table' = [table EXCEPT ![rm] = o]
     /\ owner' = [owner EXCEPT ![o] = rm]
     /\ seq' = [seq EXCEPT ![o] = InitialSeq]

-----------------------------------------------------------------------------
(* Publishing: SendHandler, and Broadcast to a snapshot of the names.      *)

StartPublish(p, sender, rooms) ==
  /\ pubPc[p] = "idle"
  /\ sends < MaxSends
  /\ sends' = sends + 1
  /\ pubPc' = [pubPc EXCEPT ![p] = "ensure"]
  /\ pubTodo' = [pubTodo EXCEPT ![p] = rooms]
  /\ pubSender' = [pubSender EXCEPT ![p] = sender]
  /\ pubTs' = [pubTs EXCEPT ![p] = now]
  /\ UNCHANGED <<now, hubVars, pubObj, gcVars, clientVars, histVars>>

Send(p, rm) == StartPublish(p, UserSender, {rm})

Broadcast(p) ==
  LET rooms == {rm \in Rooms : table[rm] # NoObj}
  IN  rooms # {} /\ StartPublish(p, SystemSender, rooms)

PublishEnsureRoom(p, rm, o) ==
  /\ pubPc[p] = "ensure"
  /\ rm \in pubTodo[p]
  /\ EnsureRoom(rm, o)
  /\ pubPc' = [pubPc EXCEPT ![p] = "locked"]
  /\ pubTodo' = [pubTodo EXCEPT ![p] = @ \ {rm}]
  /\ pubObj' = [pubObj EXCEPT ![p] = o]
  /\ UNCHANGED <<now, messages, lastPublish, subs, totalSubs, pubSender, pubTs,
                 sends, gcVars, clientVars, histVars>>

\* Prune by age with a binary search, then by count; both drop a prefix.
PrunedByAge(buf, i) == Drop(buf, i)
Pruned(buf, i) ==
  LET fresh == Drop(buf, i)
  IN  IF Len(fresh) > MaxBufferSize
      THEN Drop(fresh, Len(fresh) - MaxBufferSize)
      ELSE fresh

\* The subscribers a message is fanned out to, and those that cannot take it.
FanOutUsers(o, m) == IF m.sender = UserSender THEN subs[o] ELSE {}
FanOut(o, m) == subs[o]

Full(c) == Len(chan[c]) >= SubscriberBuffer

\* The body of Publish under r.mu, up to and including the fan-out.
PublishLocked(p) ==
  LET o == pubObj[p]
      m == [room |-> owner[o], seq |-> seq[o] + 1, sender |-> pubSender[p],
            ts |-> pubTs[p]]
      buf == Append(messages[o], m)
  IN
  /\ pubPc[p] = "locked"
  /\ seq[o] + 1 <= now + Burst
  /\ seq' = [seq EXCEPT ![o] = @ + 1]
  /\ lastPublish' = [lastPublish EXCEPT ![o] = pubTs[p]]
  /\ \E i \in SearchIndex(Len(buf), LAMBDA j : WithinTTL(buf[j])) :
       messages' = [messages EXCEPT ![o] = Pruned(buf, i)]
  /\ chan' = [c \in Clients |-> IF c \in FanOut(o, m) /\ ~Full(c)
                                THEN Append(chan[c], m) ELSE chan[c]]
  /\ missed' = [c \in Clients |-> IF c \in FanOut(o, m) /\ Full(c)
                                  THEN missed[c] \cup {m.seq} ELSE missed[c]]
  /\ log' = [log EXCEPT ![o] = Append(@, m)]
  /\ pubPc' = [pubPc EXCEPT ![p] = IF pubTodo[p] = {} THEN "idle" ELSE "ensure"]
  /\ pubTs' = [pubTs EXCEPT ![p] = IF pubTodo[p] = {} THEN 0 ELSE @]
  /\ pubObj' = [pubObj EXCEPT ![p] = NoObj]
  /\ UNCHANGED <<now, table, owner, subs, totalSubs, pubTodo, pubSender, sends,
                 gcVars, pc, op, sub, ptr, lastSeq, start, delivered, strayed>>

-----------------------------------------------------------------------------
(* Garbage collection: the candidate pass, which locks each room in turn   *)
(* and may therefore see only some of the idle rooms, then the sweep under *)
(* h.mu, which checks every candidate again.  Bound: a cycle starts only   *)
(* while RoomObjs can still give every name a new object.                  *)

FreshObjs == {o \in RoomObjs : owner[o] = NoRoom}

GCScan(found) ==
  LET cutoff == now - 2 * TTL
  IN
  /\ gcPc = "wait"
  /\ Cardinality(FreshObjs) >= Cardinality(Rooms)
  /\ found # {}
  /\ \A rm \in found : table[rm] # NoObj /\ Idle(table[rm], cutoff)
  /\ gcPc' = "sweep"
  /\ gcCutoff' = cutoff
  /\ gcDelete' = found
  /\ UNCHANGED <<now, hubVars, pubVars, clientVars, histVars>>

GCSweep ==
  LET dead == {rm \in gcDelete :
                 table[rm] # NoObj /\ Idle(table[rm], gcCutoff)}
  IN
  /\ gcPc = "sweep"
  /\ table' = [rm \in Rooms |-> IF rm \in dead THEN NoObj ELSE table[rm]]
  /\ gcPc' = "wait"
  /\ gcCutoff' = 0
  /\ gcDelete' = {}
  /\ UNCHANGED <<now, objVars, totalSubs, pubVars, clientVars, histVars>>

-----------------------------------------------------------------------------
(* Clients.  /connect reads h.Seq, /poll runs h.Poll, /events subscribes   *)
(* and then runs h.Poll; the two reads share the steps Lookup and Read.    *)

Goto(c, label) == pc' = [pc EXCEPT ![c] = label]

Request(c, what) ==
  /\ pc[c] = "idle"
  /\ op' = [op EXCEPT ![c] = what]
  /\ UNCHANGED <<now, hubVars, pubVars, gcVars, sub, ptr, chan, lastSeq, histVars>>

Join(c) == Request(c, "join") /\ Goto(c, "lookup")

Poll(c) == Request(c, "poll") /\ Goto(c, "lookup")

\* The budget check; at the cap the handler answers 503 and nothing changes.
Subscribe(c) ==
  totalSubs < MaxSubscribers /\ Request(c, "stream") /\ Goto(c, "ensure")

SubscribeEnsureRoom(c, o) ==
  /\ pc[c] = "ensure"
  /\ EnsureRoom(RoomOf[c], o)
  /\ sub' = [sub EXCEPT ![c] = o]
  /\ Goto(c, "register")
  /\ UNCHANGED <<now, messages, lastPublish, subs, totalSubs, pubVars, gcVars,
                 op, ptr, chan, lastSeq, histVars>>

Register(c) ==
  /\ pc[c] = "register"
  /\ subs' = [subs EXCEPT ![sub[c]] = @ \cup {c}]
  /\ strayed' = IF table[RoomOf[c]] # sub[c] THEN strayed \cup {c} ELSE strayed
  /\ Goto(c, "count")
  /\ UNCHANGED <<now, table, owner, seq, messages, lastPublish, totalSubs,
                 pubVars, gcVars, op, sub, ptr, chan, lastSeq, log, start,
                 delivered, missed>>

Count(c) ==
  /\ pc[c] = "count"
  /\ totalSubs' = totalSubs + 1
  /\ Goto(c, "lookup")
  /\ UNCHANGED <<now, table, objVars, pubVars, gcVars, op, sub, ptr, chan,
                 lastSeq, histVars>>

\* h.rooms[roomID] under the read lock: the first half of Seq and of Poll.
Lookup(c) ==
  /\ pc[c] = "lookup"
  /\ ptr' = [ptr EXCEPT ![c] = table[RoomOf[c]]]
  /\ Goto(c, "read")
  /\ UNCHANGED <<now, hubVars, pubVars, gcVars, op, sub, chan, lastSeq, histVars>>

Stale(c) == ptr[c] # NoObj /\ ptr[c] # table[RoomOf[c]]

\* The second half of Seq: the answer to /connect starts a new session.
ReadSeq(c) ==
  LET s == SeqOf(ptr[c])
  IN
  /\ pc[c] = "read" /\ op[c] = "join"
  /\ lastSeq' = [lastSeq EXCEPT ![c] = s]
  /\ start' = [start EXCEPT ![c] = s]
  /\ delivered' = [delivered EXCEPT ![c] = <<>>]
  /\ missed' = [missed EXCEPT ![c] = {}]
  /\ strayed' = IF Stale(c) THEN strayed \cup {c} ELSE strayed \ {c}
  /\ ptr' = [ptr EXCEPT ![c] = NoObj]
  /\ Goto(c, "idle")
  /\ UNCHANGED <<now, hubVars, pubVars, gcVars, op, sub, chan, log>>

\* The second half of Poll, and the handler's writes of what it returned.
ReadMessages(c) ==
  LET buf == IF ptr[c] = NoObj THEN <<>> ELSE messages[ptr[c]]
      all == IF ptr[c] = NoObj THEN <<>> ELSE log[ptr[c]]
      aged == {s \in Seqs(all) : s > lastSeq[c]} \ Seqs(buf)
  IN
  /\ pc[c] = "read" /\ op[c] # "join"
  /\ \E i \in SearchIndex(Len(buf), LAMBDA j : After(buf[j], lastSeq[c])) :
       LET batch == Drop(buf, i)
       IN  /\ delivered' = [delivered EXCEPT
                  ![c] = @ \o [k \in 1..Len(batch) |-> batch[k].seq]]
           /\ lastSeq' = [lastSeq EXCEPT
                  ![c] = IF batch = <<>> THEN @ ELSE batch[Len(batch)].seq]
  /\ missed' = [missed EXCEPT ![c] = @ \cup aged]
  /\ strayed' = IF Stale(c) THEN strayed \cup {c} ELSE strayed
  /\ ptr' = [ptr EXCEPT ![c] = NoObj]
  /\ Goto(c, IF op[c] = "stream" THEN "live" ELSE "idle")
  /\ UNCHANGED <<now, hubVars, pubVars, gcVars, op, sub, chan, log, start>>

\* One live event, deduplicated by Seq against what was already written.
AlreadyLast(c, s) == s < lastSeq[c]
AlreadySent(c, s) == s <= lastSeq[c]

EventNew(c) == pc[c] = "live" /\ chan[c] # <<>> /\ Head(chan[c]).seq > lastSeq[c]
EventReady(c) == pc[c] = "live" /\ chan[c] # <<>>

Receive(c) ==
  LET s == Head(chan[c]).seq
  IN
  /\ EventReady(c)
  /\ chan' = [chan EXCEPT ![c] = Tail(@)]
  /\ IF AlreadySent(c, s)
     THEN UNCHANGED <<lastSeq, delivered>>
     ELSE /\ lastSeq' = [lastSeq EXCEPT ![c] = s]
          /\ delivered' = [delivered EXCEPT ![c] = Append(@, s)]
  /\ UNCHANGED <<now, hubVars, pubVars, gcVars, pc, op, sub, ptr, log, start,
                 missed, strayed>>

\* ctx.Done(): the deferred unsubscribe, in its two critical sections.
KeptSubs(c) == subs[sub[c]]
SubsWithout(c) == subs[sub[c]] \ {c}

Disconnect(c) ==
  /\ pc[c] = "live"
  /\ subs' = [subs EXCEPT ![sub[c]] = SubsWithout(c)]
  /\ Goto(c, "release")
  /\ UNCHANGED <<now, table, owner, seq, messages, lastPublish, totalSubs,
                 pubVars, gcVars, op, sub, ptr, chan, lastSeq, histVars>>

Release(c) ==
  /\ pc[c] = "release"
  /\ totalSubs' = totalSubs - 1
  /\ sub' = [sub EXCEPT ![c] = NoObj]
  /\ chan' = [chan EXCEPT ![c] = <<>>]
  /\ Goto(c, "idle")
  /\ UNCHANGED <<now, table, objVars, pubVars, gcVars, op, ptr, lastSeq, histVars>>

-----------------------------------------------------------------------------
PublisherNext(p) ==
  \/ \E rm \in Rooms : Send(p, rm)
  \/ Broadcast(p)
  \/ \E rm \in Rooms, o \in RoomObjs : PublishEnsureRoom(p, rm, o)
  \/ PublishLocked(p)

GCNext == (\E found \in SUBSET Rooms : GCScan(found)) \/ GCSweep

\* The steps a handler takes on its own once a request has started.
HandlerStep(c) ==
  \/ \E o \in RoomObjs : SubscribeEnsureRoom(c, o)
  \/ Register(c)
  \/ Count(c)
  \/ Lookup(c)
  \/ ReadSeq(c)
  \/ ReadMessages(c)
  \/ Receive(c)
  \/ Release(c)

ClientNext(c) ==
  \/ Join(c)
  \/ Poll(c)
  \/ Subscribe(c)
  \/ HandlerStep(c)
  \/ Disconnect(c)

Next ==
  \/ Tick
  \/ \E p \in Publishers : PublisherNext(p)
  \/ GCNext
  \/ \E c \in Clients : ClientNext(c)

Spec == Init /\ [][Next]_vars

\* Every goroutine that can run does: Go schedules a runnable goroutine, and
\* each critical section is short.  A write to a client returns once the client
\* reads; the server sets no WriteTimeout, so the handler of a client that has
\* stopped reading may stand for ever, at any step.  Nothing is assumed of new
\* requests, of disconnections, of the clock or of GC.
FairSpec == Spec /\ \A c \in Readers : WF_vars(HandlerStep(c))

-----------------------------------------------------------------------------
(* Properties.                                                             *)

Labels == {"idle", "ensure", "register", "count", "lookup", "read", "live",
           "release"}

Message == [room : Rooms, seq : Nat, sender : {UserSender, SystemSender}, ts : Nat]

HubTypes ==
  /\ now \in Nat
  /\ table \in [Rooms -> RoomObjs \cup {NoObj}]
  /\ owner \in [RoomObjs -> Rooms \cup {NoRoom}]
  /\ seq \in [RoomObjs -> Nat]
  /\ messages \in [RoomObjs -> Seq(Message)]
  /\ lastPublish \in [RoomObjs -> Nat \cup {Never}]
  /\ subs \in [RoomObjs -> SUBSET Clients]
  /\ totalSubs \in Int

PublisherTypes ==
  /\ pubPc \in [Publishers -> {"idle", "ensure", "locked"}]
  /\ pubTodo \in [Publishers -> SUBSET Rooms]
  /\ pubSender \in [Publishers -> {UserSender, SystemSender}]
  /\ pubTs \in [Publishers -> Nat]
  /\ pubObj \in [Publishers -> RoomObjs \cup {NoObj}]
  /\ sends \in Nat

GCTypes ==
  /\ gcPc \in {"wait", "sweep"}
  /\ gcCutoff \in Int
  /\ gcDelete \in SUBSET Rooms

ClientTypes ==
  /\ pc \in [Clients -> Labels]
  /\ op \in [Clients -> {"join", "poll", "stream"}]
  /\ sub \in [Clients -> RoomObjs \cup {NoObj}]
  /\ ptr \in [Clients -> RoomObjs \cup {NoObj}]
  /\ chan \in [Clients -> Seq(Message)]
  /\ lastSeq \in [Clients -> Nat]

HistoryTypes ==
  /\ log \in [RoomObjs -> Seq(Message)]
  /\ start \in [Clients -> Nat]
  /\ delivered \in [Clients -> Seq(Nat)]
  /\ missed \in [Clients -> SUBSET Nat]
  /\ strayed \in SUBSET Clients

(* Every variable keeps its type.                                          *)
TypeOK ==
  HubTypes /\ PublisherTypes /\ GCTypes /\ ClientTypes /\ HistoryTypes

\* The objects h.rooms holds.
Tracked == {table[rm] : rm \in Rooms} \ {NoObj}

\* The room's current object, when the client has one to read.
Current(c) == table[RoomOf[c]]

(* A room's buffer is always a contiguous tail of everything published     *)
(* into it, never longer than the cap, and the seqs of a room are          *)
(* consecutive up to its counter: pruning by age, pruning by count and the *)
(* assignment of seqs under one lock never leave a hole in the middle.     *)
BufferIsTail ==
  \A o \in RoomObjs :
    LET all == log[o]
        n == Len(messages[o])
    IN  /\ n <= MaxBufferSize
        /\ messages[o] = Drop(all, Len(all) - n)
        /\ \A i \in DOMAIN all : all[i].seq = seq[o] - (Len(all) - i)

(* What Publish prunes by age is really old, although timestamps are taken *)
(* before the lock and so are not sorted when the binary search runs: a    *)
(* message younger than TTL - MaxDelay is dropped only by the cap.         *)
FreshKept ==
  \A o \in RoomObjs : \A i \in DOMAIN log[o] :
    (/\ now - log[o][i].ts <= TTL - MaxDelay
     /\ Len(log[o]) - i < MaxBufferSize)
    => Len(log[o]) - i < Len(messages[o])

(* Both: pruning leaves a tail of what was published, and takes nothing    *)
(* from it that is still fresh.                                            *)
BufferKept == BufferIsTail /\ FreshKept

\* d ascends strictly from beyond the cursor it started at up to the last one.
InOrder(d, from, last) ==
  /\ \A i, j \in DOMAIN d : i < j => d[i] < d[j]
  /\ last = IF d = <<>> THEN from ELSE d[Len(d)]
  /\ d # <<>> => d[1] > from

(* Across /poll, the catch-up of /events, its live events and reconnects   *)
(* with its own cursor, a client never sees a message twice nor out of     *)
(* order, and its cursor is the last seq it saw.                           *)
InOrderOnce ==
  \A c \in Clients : InOrder(delivered[c], start[c], lastSeq[c])

(* Whatever a client's cursor has passed since /connect was delivered to   *)
(* it, or was dropped for it by a full channel, or had left the buffer     *)
(* before it read; nothing is lost between the catch-up read and the live  *)
(* stream.                                                                 *)
NoSilentGap ==
  \A c \in Clients \ strayed :
    Current(c) # NoObj =>
      \A m \in {log[Current(c)][i] : i \in DOMAIN log[Current(c)]} :
        start[c] < m.seq /\ m.seq <= lastSeq[c]
        => m.seq \in {delivered[c][i] : i \in DOMAIN delivered[c]} \cup missed[c]

(* While a stream is live, every message beyond the client's cursor is     *)
(* waiting in its channel, unless it was dropped because that channel was  *)
(* full or had aged out before the stream opened.                          *)
LiveComplete ==
  \A c \in Clients \ strayed :
    pc[c] = "live" =>
      \A m \in {log[Current(c)][i] : i \in DOMAIN log[Current(c)]} :
        m.seq > lastSeq[c]
        => m.seq \in Seqs(chan[c]) \cup missed[c]

(* A client's cursor is never ahead of its room, even after GC deleted the *)
(* room and a later call created it again: the new room, seeded from the   *)
(* clock, cannot publish a message the old cursor would skip.              *)
CursorBehindRoom ==
  \A c \in Clients \ strayed :
    Current(c) # NoObj => lastSeq[c] <= seq[Current(c)]

Registered == {"count", "lookup", "read", "live"}

Subscribed(c) == op[c] = "stream" /\ pc[c] \in Registered

(* The two halves of the subscription ledger agree with the handlers: the  *)
(* server-wide budget counts exactly the streams between Add(1) and        *)
(* Add(-1), and a room's map holds exactly the streams registered with it, *)
(* whatever GC and re-creation did to the room's name meanwhile.           *)
Counted(c) == op[c] = "stream" /\ pc[c] \in {"lookup", "read", "live", "release"}

Ledger == {c \in Clients : Counted(c)}

SubscriptionLedger ==
  /\ totalSubs = Cardinality(Ledger)
  /\ \A o \in RoomObjs : subs[o] = {c \in Clients : Subscribed(c) /\ sub[c] = o}

(* A client that reads gets past every message in its channel, or its      *)
(* stream ends, although the handlers of others stand still in a write to  *)
(* a client that does not: a handler needs nothing of another's.           *)
StreamDelivers ==
  \A c \in Readers : \A s \in 1..(MaxNow + Burst) :
    (pc[c] = "live" /\ s \in Seqs(chan[c])) ~> (lastSeq[c] >= s \/ pc[c] # "live")

\* Refinement: the hub with its objects, channels and GC implements the plain
\* log of a room.  posted gathers every object a name ever had.
Posted == [rm \in Rooms |->
             UNION {Seqs(log[o]) : o \in {x \in RoomObjs : owner[x] = rm}}]

RL == INSTANCE RoomLog WITH posted <- Posted, view <- delivered

(* Clients of the hub see what clients of a room log see: an ascending     *)
(* selection of what was posted to their own room.                         *)
ImplementsRoomLog == RL!Spec

(* GC's comment: a room with an active subscriber is kept, since deleting  *)
(* it would orphan that subscriber's channel.                              *)
SubscribersKeepRoom ==
  \A c \in Clients : Subscribed(c) => sub[c] \in Tracked

-----------------------------------------------------------------------------
(* The parts of the inductive invariants that the proofs need beside the   *)
(* properties above.                                                       *)

Streaming(c) ==
  \/ pc[c] \in {"register", "count", "live", "release"}
  \/ pc[c] \in {"lookup", "read"} /\ op[c] = "stream"

(* Every pointer a goroutine holds leads to an object made for its room.   *)
Ownership ==
  /\ \A rm \in Rooms : table[rm] # NoObj => owner[table[rm]] = rm
  /\ \A p \in Publishers : pubPc[p] = "locked" =>
       pubObj[p] \in RoomObjs /\ owner[pubObj[p]] \in Rooms
  /\ \A c \in Clients : pc[c] = "ensure" => op[c] = "stream"
  /\ \A c \in Clients : Streaming(c) =>
       op[c] = "stream" /\ sub[c] \in RoomObjs /\ owner[sub[c]] = RoomOf[c]
  /\ \A c \in Clients : ptr[c] # NoObj => owner[ptr[c]] = RoomOf[c]

(* Seqs ascend along a buffer and never exceed the room's counter, and an  *)
(* object nobody allocated holds none.                                     *)
BuffersAscend ==
  \A o \in RoomObjs :
    /\ owner[o] = NoRoom => messages[o] = <<>>
    /\ \A i, j \in DOMAIN messages[o] : i < j => messages[o][i].seq < messages[o][j].seq
    /\ \A i \in DOMAIN messages[o] : messages[o][i].seq <= seq[o]

(* A registered stream is in its object's map and only there, and only a   *)
(* handler of /events has a channel with something in it.                  *)
Registration ==
  /\ \A o \in RoomObjs : subs[o] = {c \in Clients : Subscribed(c) /\ sub[c] = o}
  /\ \A c \in Clients : chan[c] # <<>> => Streaming(c)

(* What the clock knows of publishers, of GC and of tracked objects.       *)
Timing ==
  /\ \A p \in Publishers : pubPc[p] # "idle" =>
       pubTs[p] <= now /\ now <= pubTs[p] + MaxDelay
  /\ gcPc = "sweep" => gcCutoff <= now - 2 * TTL
  /\ \A o \in RoomObjs : owner[o] = NoRoom => lastPublish[o] = Never
  /\ \A rm \in Rooms : table[rm] # NoObj =>
       IF lastPublish[table[rm]] = Never
       THEN seq[table[rm]] <= now
       ELSE seq[table[rm]] <= lastPublish[table[rm]] + MaxDelay + Burst

(* A stream that did not stray is registered with its room's current       *)
(* object, its channel holds no seq beyond that object's counter, and a    *)
(* cursor whose room was collected is not ahead of the clock.              *)
Cursors ==
  /\ \A c \in Clients \ strayed : Subscribed(c) => sub[c] = Current(c)
  /\ \A c \in Clients : Streaming(c) =>
       \A i \in DOMAIN chan[c] : chan[c][i].seq <= seq[sub[c]]
  /\ \A c \in Clients \ strayed :
       IF Current(c) = NoObj THEN lastSeq[c] <= now
       ELSE lastSeq[c] <= seq[Current(c)]

=============================================================================
