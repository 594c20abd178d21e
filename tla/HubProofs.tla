------------------------------ MODULE HubProofs -----------------------------
(***************************************************************************)
(* Proofs about Hub, for every number of rooms, clients, publishers and    *)
(* roomState objects and every value of the limits. After the hub's own    *)
(* invariants come those of Hub's history (log, delivered, missed): a      *)
(* client that did not stray misses a message only when the hub dropped    *)
(* it, the hub with its objects, channels and GC implements RoomLog, and   *)
(* pruning leaves each buffer the fresh tail of its room's log.            *)
(***************************************************************************)
EXTENDS Hub, SequenceTheorems, FiniteSetTheorems, TLAPS

-----------------------------------------------------------------------------
\* Dropping a prefix of a sequence.
LEMMA DropType ==
  ASSUME NEW S, NEW s \in Seq(S), NEW n \in 0..Len(s)
  PROVE  /\ Drop(s, n) \in Seq(S)
         /\ Len(Drop(s, n)) = Len(s) - n
         /\ \A i \in 1..(Len(s) - n) : Drop(s, n)[i] = s[i + n]
BY DEF Drop

\* Dropping twice is dropping once.
LEMMA DropDrop ==
  ASSUME NEW S, NEW s \in Seq(S), NEW n \in 0..Len(s), NEW k \in 0..(Len(s) - n)
  PROVE  Drop(Drop(s, n), k) = Drop(s, n + k)
<1> DEFINE t == Drop(s, n)
           u == Drop(t, k)
           v == Drop(s, n + k)
<1>1. /\ t \in Seq(S)
      /\ Len(t) = Len(s) - n
      /\ \A i \in 1..(Len(s) - n) : t[i] = s[i + n]
  BY DropType
<1> HIDE DEF t
<1>2. /\ u \in Seq(S)
      /\ Len(u) = Len(t) - k
      /\ \A i \in 1..(Len(t) - k) : u[i] = t[i + k]
  BY <1>1, DropType
<1>3. /\ n + k \in 0..Len(s)
      /\ v \in Seq(S)
      /\ Len(v) = Len(s) - (n + k)
      /\ \A i \in 1..(Len(s) - (n + k)) : v[i] = s[i + (n + k)]
  BY DropType
<1> HIDE DEF u, v
<1>4. Len(u) = Len(v) /\ \A i \in 1..Len(u) : u[i] = v[i]
  BY <1>1, <1>2, <1>3
<1>5. u = v
  BY <1>2, <1>3, <1>4, SeqEqual
<1> QED
  BY <1>5 DEF u, v, t

\* What Publish leaves of a buffer is the buffer without some prefix.
LEMMA PrunedIsTail ==
  ASSUME NEW S, NEW s \in Seq(S), NEW i \in 0..Len(s)
  PROVE  \E n \in 0..Len(s) : /\ Pruned(s, i) = Drop(s, n)
                              /\ Len(s) - n <= MaxBufferSize
<1> USE HubAssumption
<1> DEFINE fresh == Drop(s, i)
           n == Len(fresh) - MaxBufferSize
<1>1. Len(fresh) = Len(s) - i
  BY DropType
<1>2. CASE Len(fresh) > MaxBufferSize
  <2>1. /\ n \in 0..(Len(s) - i)
        /\ i + n \in 0..Len(s)
        /\ Len(s) - (i + n) <= MaxBufferSize
    BY <1>1, <1>2
  <2>2. Pruned(s, i) = Drop(s, i + n)
    BY <1>2, <2>1, DropDrop DEF Pruned
  <2> QED
    BY <2>1, <2>2
<1>3. CASE ~(Len(fresh) > MaxBufferSize)
  BY <1>1, <1>3 DEF Pruned
<1> QED
  BY <1>2, <1>3

-----------------------------------------------------------------------------
(* Types, and the pointers that typing the published messages rests on.    *)

Typed == TypeOK /\ Ownership

\* What EnsureRoom does to the types, and to who owns what.
LEMMA EnsureRoomTyped ==
  ASSUME Typed, NEW rm \in Rooms, NEW o \in RoomObjs, EnsureRoom(rm, o)
  PROVE  /\ table' \in [Rooms -> RoomObjs \cup {NoObj}]
         /\ owner' \in [RoomObjs -> Rooms \cup {NoRoom}]
         /\ seq' \in [RoomObjs -> Nat]
         /\ owner'[o] = rm
         /\ \A x \in RoomObjs : owner[x] # NoRoom => owner'[x] = owner[x]
         /\ \A x \in Rooms : table'[x] # NoObj => owner'[table'[x]] = x
<1> USE HubAssumption DEF Typed, TypeOK, HubTypes, Ownership, InitialSeq
<1>1. CASE table[rm] = o /\ UNCHANGED <<table, owner, seq>>
  BY <1>1
<1>2. CASE /\ table[rm] = NoObj
           /\ owner[o] = NoRoom
           /\ table' = [table EXCEPT ![rm] = o]
           /\ owner' = [owner EXCEPT ![o] = rm]
           /\ seq' = [seq EXCEPT ![o] = InitialSeq]
  BY <1>2
<1> QED
  BY <1>1, <1>2 DEF EnsureRoom

\* The fields of the messages in a buffer, a channel or a log.
LEMMA MessageFields ==
  ASSUME NEW s \in Seq(Message), NEW k \in 1..Len(s)
  PROVE  s[k].room \in Rooms /\ s[k].seq \in Nat /\ s[k].ts \in Nat
<1>1. s[k] \in Message
  OBVIOUS
<1> QED
  BY <1>1 DEF Message

\* The message a publisher appends is well-formed.
LEMMA PublishedMessage ==
  ASSUME Typed, NEW p \in Publishers, pubPc[p] = "locked"
  PROVE  /\ pubObj[p] \in RoomObjs
         /\ seq[pubObj[p]] \in Nat
         /\ messages[pubObj[p]] \in Seq(Message)
         /\ [room |-> owner[pubObj[p]], seq |-> seq[pubObj[p]] + 1,
             sender |-> pubSender[p], ts |-> pubTs[p]] \in Message
<1>1. pubObj[p] \in RoomObjs /\ owner[pubObj[p]] \in Rooms
  BY DEF Typed, Ownership
<1>2. seq[pubObj[p]] \in Nat /\ messages[pubObj[p]] \in Seq(Message)
  BY <1>1 DEF Typed, TypeOK, HubTypes
<1>3. pubSender[p] \in {UserSender, SystemSender} /\ pubTs[p] \in Nat
  BY DEF Typed, TypeOK, PublisherTypes
<1> QED
  BY <1>1, <1>2, <1>3 DEF Message

LEMMA TypedInit == Init => Typed
BY HubAssumption DEF Init, Typed, TypeOK, HubTypes, PublisherTypes, GCTypes,
   ClientTypes, HistoryTypes, Ownership, Labels, Never, Streaming, UserSender,
   SystemSender

\* The steps of publishers preserve types and ownership.
LEMMA TypedPublisher ==
  ASSUME Typed, NEW p \in Publishers, PublisherNext(p)
  PROVE  Typed'
<1> USE HubAssumption DEF Typed, TypeOK, hubVars, objVars, gcVars, clientVars, histVars
<1>1. ASSUME NEW sender \in {UserSender, SystemSender}, NEW rooms \in SUBSET Rooms,
             StartPublish(p, sender, rooms)
      PROVE  Typed'
  BY <1>1 DEF StartPublish, Ownership, Streaming, HubTypes, PublisherTypes, GCTypes,
              ClientTypes, HistoryTypes
<1>2. ASSUME NEW rm \in Rooms, NEW o \in RoomObjs, PublishEnsureRoom(p, rm, o)
      PROVE  Typed'
  <2>1. EnsureRoom(rm, o)
    BY <1>2 DEF PublishEnsureRoom
  <2>2. HubTypes'
    BY <1>2, <2>1, EnsureRoomTyped DEF PublishEnsureRoom, HubTypes
  <2>3. PublisherTypes'
    BY <1>2 DEF PublishEnsureRoom, PublisherTypes
  <2>4. GCTypes' /\ ClientTypes' /\ HistoryTypes'
    BY <1>2 DEF PublishEnsureRoom, GCTypes, ClientTypes, HistoryTypes
  <2>5. Ownership'
    <3>1. /\ owner'[o] = rm
          /\ \A x \in RoomObjs : owner[x] # NoRoom => owner'[x] = owner[x]
          /\ \A x \in Rooms : table'[x] # NoObj => owner'[table'[x]] = x
      BY <2>1, EnsureRoomTyped
    <3>2. \A q \in Publishers : pubPc'[q] = "locked" =>
            pubObj'[q] \in RoomObjs /\ owner'[pubObj'[q]] \in Rooms
      BY <1>2, <3>1 DEF PublishEnsureRoom, Ownership, PublisherTypes, HubTypes
    <3>3. ASSUME NEW c \in Clients, Streaming(c)
          PROVE  op[c] = "stream" /\ sub[c] \in RoomObjs /\ owner'[sub[c]] = RoomOf[c]
      <4>1. /\ op[c] = "stream" /\ sub[c] \in RoomObjs
            /\ owner[sub[c]] = RoomOf[c] /\ RoomOf[c] # NoRoom
        BY <3>3 DEF Ownership
      <4> QED
        BY <3>1, <4>1
    <3>4. ASSUME NEW c \in Clients, ptr[c] # NoObj
          PROVE  owner'[ptr[c]] = RoomOf[c]
      <4>1. /\ ptr[c] \in RoomObjs
            /\ owner[ptr[c]] = RoomOf[c] /\ RoomOf[c] # NoRoom
        BY <3>4 DEF Ownership, ClientTypes
      <4> QED
        BY <3>1, <4>1
    <3> QED
      BY <1>2, <3>1, <3>2, <3>3, <3>4 DEF PublishEnsureRoom, Ownership, Streaming
  <2> QED
    BY <2>2, <2>3, <2>4, <2>5
<1>3. CASE PublishLocked(p)
  <2> DEFINE o == pubObj[p]
             m == [room |-> owner[o], seq |-> seq[o] + 1,
                   sender |-> pubSender[p], ts |-> pubTs[p]]
             buf == Append(messages[o], m)
  <2>1. /\ o \in RoomObjs /\ seq[o] \in Nat
        /\ m \in Message /\ buf \in Seq(Message)
    BY <1>3, PublishedMessage, AppendProperties DEF PublishLocked
  <2>2. m.seq \in Nat
    BY <2>1
  <2>3. seq' = [seq EXCEPT ![o] = @ + 1] /\ lastPublish' = [lastPublish EXCEPT ![o] = pubTs[p]]
    BY <1>3 DEF PublishLocked
  <2>4. PICK i \in SearchIndex(Len(buf), LAMBDA j : WithinTTL(buf[j])) :
           messages' = [messages EXCEPT ![o] = Pruned(buf, i)]
    BY <1>3 DEF PublishLocked
  <2>5. chan' = [c \in Clients |-> IF c \in FanOut(o, m) /\ ~Full(c)
                                   THEN Append(chan[c], m) ELSE chan[c]]
    BY <1>3 DEF PublishLocked
  <2>6. missed' = [c \in Clients |-> IF c \in FanOut(o, m) /\ Full(c)
                                     THEN missed[c] \cup {m.seq} ELSE missed[c]]
    BY <1>3 DEF PublishLocked
  <2>7. log' = [log EXCEPT ![o] = Append(@, m)]
    BY <1>3 DEF PublishLocked
  <2> HIDE DEF m, buf
  <2>8. Pruned(buf, i) \in Seq(Message)
    <3>1. i \in 0..Len(buf)
      BY <2>4 DEF SearchIndex
    <3>2. PICK n \in 0..Len(buf) : Pruned(buf, i) = Drop(buf, n)
      BY <2>1, <3>1, PrunedIsTail
    <3> QED
      BY <2>1, <3>2, DropType
  <2>9. HubTypes'
    <3>1. messages' \in [RoomObjs -> Seq(Message)]
      BY <2>1, <2>4, <2>8 DEF HubTypes
    <3>2. seq' \in [RoomObjs -> Nat]
      <4>1. seq[o] + 1 \in Nat
        BY <2>1
      <4> QED
        BY <2>3, <4>1 DEF HubTypes
    <3>3. lastPublish' \in [RoomObjs -> Nat \cup {Never}]
      BY <2>1, <2>3 DEF HubTypes, PublisherTypes
    <3> QED
      BY <1>3, <3>1, <3>2, <3>3 DEF PublishLocked, HubTypes
  <2>10. PublisherTypes'
    BY <1>3 DEF PublishLocked, PublisherTypes
  <2>11. ClientTypes'
    <3>1. \A c \in Clients : Append(chan[c], m) \in Seq(Message)
      BY <2>1, AppendProperties DEF ClientTypes
    <3>2. chan' \in [Clients -> Seq(Message)]
      BY <2>5, <3>1 DEF ClientTypes
    <3> QED
      BY <1>3, <3>2 DEF PublishLocked, ClientTypes
  <2>12. HistoryTypes'
    <3>1. Append(log[o], m) \in Seq(Message)
      BY <2>1, AppendProperties DEF HistoryTypes
    <3>2. log' \in [RoomObjs -> Seq(Message)]
      BY <2>1, <2>7, <3>1 DEF HistoryTypes
    <3>3. missed' \in [Clients -> SUBSET Nat]
      BY <2>2, <2>6 DEF HistoryTypes
    <3> QED
      BY <1>3, <3>2, <3>3 DEF PublishLocked, HistoryTypes
  <2>13. GCTypes'
    BY <1>3 DEF PublishLocked, GCTypes
  <2>14. Ownership'
    BY <1>3 DEF PublishLocked, Ownership, Streaming, PublisherTypes
  <2> QED
    BY <2>9, <2>10, <2>11, <2>12, <2>13, <2>14
<1> QED
  <2>1. CASE \E rm \in Rooms : Send(p, rm)
    BY <1>1, <2>1 DEF Send
  <2>2. CASE Broadcast(p)
    BY <1>1, <2>2 DEF Broadcast
  <2> QED
    BY <1>2, <1>3, <2>1, <2>2 DEF PublisherNext

\* The clock and the GC goroutine preserve types and ownership.
LEMMA TypedClockAndGC ==
  ASSUME Typed, Tick \/ GCNext \/ UNCHANGED vars
  PROVE  Typed'
<1> USE DEF Typed, TypeOK, HubTypes, PublisherTypes, GCTypes, ClientTypes,
            HistoryTypes, Ownership, Streaming, hubVars, objVars, pubVars,
            gcVars, clientVars, histVars
<1>1. CASE Tick
  BY <1>1 DEF Tick
<1>2. ASSUME NEW found \in SUBSET Rooms, GCScan(found)
      PROVE  Typed'
  BY <1>2 DEF GCScan
<1>3. CASE GCSweep
  BY <1>3 DEF GCSweep
<1>4. CASE UNCHANGED vars
  BY <1>4 DEF vars
<1> QED
  BY <1>1, <1>2, <1>3, <1>4 DEF GCNext
\* The steps of clients, and of the handlers that serve them, preserve types
\* and ownership.
LEMMA TypedClient ==
  ASSUME Typed, NEW c \in Clients, ClientNext(c)
  PROVE  Typed'
<1> USE DEF Typed, TypeOK, hubVars, objVars, pubVars, gcVars, clientVars,
            histVars, Request, Goto
<1>1. CASE Join(c) \/ Poll(c) \/ Subscribe(c)
  <2>1. PICK what \in {"join", "poll", "stream"}, label \in {"lookup", "ensure"} :
          /\ Request(c, what) /\ Goto(c, label)
          /\ label = IF what = "stream" THEN "ensure" ELSE "lookup"
    BY <1>1 DEF Join, Poll, Subscribe
  <2>2. TypeOK'
    BY <2>1 DEF HubTypes, PublisherTypes, GCTypes, ClientTypes, HistoryTypes, Labels
  <2>3. Ownership'
    <3>1. /\ UNCHANGED <<table, owner, pubPc, pubObj, ptr, sub>>
          /\ pc[c] = "idle" /\ pc'[c] = label /\ op'[c] = what
          /\ \A d \in Clients \ {c} : pc'[d] = pc[d] /\ op'[d] = op[d]
      BY <2>1 DEF ClientTypes
    <3>2. ~Streaming(c)' /\ (pc'[c] = "ensure" => op'[c] = "stream")
      BY <2>1, <3>1 DEF Streaming
    <3>3. \A d \in Clients \ {c} : Streaming(d)' = Streaming(d)
      BY <3>1 DEF Streaming
    <3> QED
      BY <3>1, <3>2, <3>3 DEF Ownership
  <2> QED
    BY <2>2, <2>3
<1>2. ASSUME NEW o \in RoomObjs, SubscribeEnsureRoom(c, o)
      PROVE  Typed'
  <2>1. EnsureRoom(RoomOf[c], o) /\ RoomOf[c] \in Rooms
    BY <1>2, HubAssumption DEF SubscribeEnsureRoom
  <2>2. /\ owner'[o] = RoomOf[c]
        /\ \A x \in RoomObjs : owner[x] # NoRoom => owner'[x] = owner[x]
        /\ \A x \in Rooms : table'[x] # NoObj => owner'[table'[x]] = x
    BY <2>1, EnsureRoomTyped
  <2>3. HubTypes'
    BY <1>2, <2>1, EnsureRoomTyped DEF SubscribeEnsureRoom, HubTypes
  <2>4. PublisherTypes' /\ GCTypes' /\ ClientTypes' /\ HistoryTypes'
    BY <1>2 DEF SubscribeEnsureRoom, PublisherTypes, GCTypes, ClientTypes,
                HistoryTypes, Labels
  <2>5. \A q \in Publishers : pubPc'[q] = "locked" =>
          pubObj'[q] \in RoomObjs /\ owner'[pubObj'[q]] \in Rooms
    <3>1. \A q \in Publishers : pubPc[q] = "locked" =>
            pubObj[q] \in RoomObjs /\ owner[pubObj[q]] \in Rooms
      BY DEF Ownership
    <3> QED
      BY <1>2, <2>2, <3>1, HubAssumption DEF SubscribeEnsureRoom
  <2>6. ASSUME NEW d \in Clients, Streaming(d)'
        PROVE  op'[d] = "stream" /\ sub'[d] \in RoomObjs /\ owner'[sub'[d]] = RoomOf[d]
    <3>1. CASE d = c
      <4>1. op[c] = "stream" /\ pc[c] = "ensure"
        BY <1>2 DEF SubscribeEnsureRoom, Ownership
      <4> QED
        BY <1>2, <2>2, <3>1, <4>1 DEF SubscribeEnsureRoom, ClientTypes
    <3>2. CASE d # c
      <4>1. /\ op[d] = "stream" /\ sub[d] \in RoomObjs
            /\ owner[sub[d]] = RoomOf[d] /\ RoomOf[d] \in Rooms
        BY <1>2, <2>6, <3>2, HubAssumption
           DEF SubscribeEnsureRoom, Ownership, Streaming, ClientTypes
      <4> QED
        BY <1>2, <2>2, <3>2, <4>1, HubAssumption DEF SubscribeEnsureRoom, ClientTypes
    <3> QED
      BY <3>1, <3>2
  <2>7. ASSUME NEW d \in Clients, ptr'[d] # NoObj
        PROVE  owner'[ptr'[d]] = RoomOf[d]
    <3>1. /\ ptr'[d] = ptr[d] /\ ptr[d] \in RoomObjs
          /\ owner[ptr[d]] = RoomOf[d] /\ RoomOf[d] \in Rooms
      BY <1>2, <2>7, HubAssumption DEF SubscribeEnsureRoom, Ownership, ClientTypes
    <3> QED
      BY <2>2, <3>1, HubAssumption
  <2>8. \A d \in Clients : pc'[d] = "ensure" => op'[d] = "stream"
    BY <1>2 DEF SubscribeEnsureRoom, Ownership, ClientTypes
  <2>9. Ownership'
    BY <2>2, <2>5, <2>6, <2>7, <2>8 DEF Ownership
  <2> QED
    BY <2>3, <2>4, <2>9
<1>3. CASE Register(c)
  <2>1. sub[c] \in RoomObjs
    BY <1>3 DEF Register, Ownership, Streaming
  <2> QED
    BY <1>3, <2>1 DEF Register, HubTypes, PublisherTypes, GCTypes, ClientTypes,
       HistoryTypes, Ownership, Streaming, Labels
<1>4. CASE Count(c)
  BY <1>4 DEF Count, HubTypes, PublisherTypes, GCTypes, ClientTypes,
     HistoryTypes, Ownership, Streaming, Labels
<1>5. CASE Lookup(c)
  <2>1. RoomOf[c] \in Rooms
    BY HubAssumption
  <2>2. TypeOK'
    BY <1>5, <2>1 DEF Lookup, HubTypes, PublisherTypes, GCTypes, ClientTypes,
       HistoryTypes, Labels
  <2>3. \A d \in Clients : ptr'[d] # NoObj => owner'[ptr'[d]] = RoomOf[d]
    BY <1>5, <2>1 DEF Lookup, ClientTypes, Ownership
  <2>4. \A d \in Clients : /\ Streaming(d)' => Streaming(d)
                           /\ pc'[d] = "ensure" => pc[d] = "ensure"
    BY <1>5 DEF Lookup, Streaming, ClientTypes
  <2> QED
    BY <1>5, <2>2, <2>3, <2>4 DEF Lookup, Ownership
<1>6. CASE ReadSeq(c)
  <2>1. SeqOf(ptr[c]) \in Nat
    BY DEF SeqOf, HubTypes, ClientTypes
  <2>2. <<>> \in Seq(Nat)
    OBVIOUS
  <2>3. HubTypes' /\ PublisherTypes' /\ GCTypes'
    BY <1>6 DEF ReadSeq, HubTypes, PublisherTypes, GCTypes
  <2>4. ClientTypes' /\ HistoryTypes'
    BY <1>6, <2>1, <2>2 DEF ReadSeq, ClientTypes, HistoryTypes, Labels
  <2> QED
    BY <1>6, <2>3, <2>4 DEF ReadSeq, ClientTypes, Ownership, Streaming
<1>7. CASE ReadMessages(c)
  <2> DEFINE buf == IF ptr[c] = NoObj THEN <<>> ELSE messages[ptr[c]]
             all == IF ptr[c] = NoObj THEN <<>> ELSE log[ptr[c]]
             aged == {s \in Seqs(all) : s > lastSeq[c]} \ Seqs(buf)
  <2>1. buf \in Seq(Message) /\ all \in Seq(Message)
    BY DEF HubTypes, ClientTypes, HistoryTypes
  <2>2. PICK i \in SearchIndex(Len(buf), LAMBDA j : After(buf[j], lastSeq[c])) :
          LET batch == Drop(buf, i)
          IN  /\ delivered' = [delivered EXCEPT
                      ![c] = @ \o [k \in 1..Len(batch) |-> batch[k].seq]]
              /\ lastSeq' = [lastSeq EXCEPT
                      ![c] = IF batch = <<>> THEN @ ELSE batch[Len(batch)].seq]
    BY <1>7 DEF ReadMessages
  <2>3. missed' = [missed EXCEPT ![c] = @ \cup aged]
    BY <1>7 DEF ReadMessages
  <2> DEFINE batch == Drop(buf, i)
             shown == [k \in 1..Len(batch) |-> batch[k].seq]
  <2>4. /\ delivered' = [delivered EXCEPT ![c] = @ \o shown]
        /\ lastSeq' = [lastSeq EXCEPT ![c] = IF batch = <<>> THEN @
                                             ELSE batch[Len(batch)].seq]
    BY <2>2
  <2> HIDE DEF buf, all
  <2>5. batch \in Seq(Message)
    <3>1. i \in 0..Len(buf)
      BY <2>2 DEF SearchIndex
    <3> QED
      BY <2>1, <3>1, DropType
  <2>6. aged \in SUBSET Nat
    <3>1. \A k \in DOMAIN all : all[k].seq \in Nat
      BY <2>1, MessageFields
    <3> QED
      BY <3>1 DEF Seqs
  <2> HIDE DEF batch, aged
  <2>7. Len(batch) \in Nat /\ \A k \in 1..Len(batch) : batch[k].seq \in Nat
    BY <2>5, MessageFields
  <2>8. shown \in Seq(Nat)
    BY <2>7
  <2>9. batch # <<>> => batch[Len(batch)].seq \in Nat
    BY <2>5, <2>7
  <2> HIDE DEF shown
  <2>10. delivered' \in [Clients -> Seq(Nat)]
    <3>1. delivered[c] \o shown \in Seq(Nat)
      BY <2>8, ConcatProperties DEF HistoryTypes
    <3> QED
      BY <2>4, <3>1 DEF HistoryTypes
  <2>11. lastSeq' \in [Clients -> Nat]
    BY <2>4, <2>9 DEF ClientTypes
  <2>12. missed' \in [Clients -> SUBSET Nat]
    BY <2>3, <2>6 DEF HistoryTypes
  <2>13. HubTypes' /\ PublisherTypes' /\ GCTypes'
    BY <1>7 DEF ReadMessages, HubTypes, PublisherTypes, GCTypes
  <2>14. ClientTypes'
    BY <1>7, <2>11 DEF ReadMessages, ClientTypes, Labels
  <2>15. HistoryTypes'
    BY <1>7, <2>10, <2>12 DEF ReadMessages, HistoryTypes
  <2>16. Ownership'
    BY <1>7 DEF ReadMessages, ClientTypes, Ownership, Streaming
  <2> QED
    BY <2>13, <2>14, <2>15, <2>16
<1>8. CASE Receive(c)
  <2>1. /\ chan[c] \in Seq(Message) /\ chan[c] # <<>>
        /\ chan' = [chan EXCEPT ![c] = Tail(@)]
        /\ \/ UNCHANGED <<lastSeq, delivered>>
           \/ /\ lastSeq' = [lastSeq EXCEPT ![c] = Head(chan[c]).seq]
              /\ delivered' = [delivered EXCEPT ![c] = Append(@, Head(chan[c]).seq)]
    BY <1>8 DEF Receive, EventReady, ClientTypes
  <2>2. Head(chan[c]) \in Message /\ Tail(chan[c]) \in Seq(Message)
    BY <2>1, HeadTailProperties
  <2>3. Head(chan[c]).seq \in Nat
    BY <2>2 DEF Message
  <2>4. Append(delivered[c], Head(chan[c]).seq) \in Seq(Nat)
    BY <2>3, AppendProperties DEF HistoryTypes
  <2>5. /\ lastSeq' \in [Clients -> Nat] /\ delivered' \in [Clients -> Seq(Nat)]
        /\ chan' \in [Clients -> Seq(Message)]
    BY <2>1, <2>2, <2>3, <2>4 DEF ClientTypes, HistoryTypes
  <2>6. HubTypes' /\ PublisherTypes' /\ GCTypes'
    BY <1>8 DEF Receive, HubTypes, PublisherTypes, GCTypes
  <2>7. ClientTypes' /\ HistoryTypes'
    BY <1>8, <2>5 DEF Receive, ClientTypes, HistoryTypes
  <2>8. Ownership'
    BY <1>8 DEF Receive, Ownership, Streaming
  <2> QED
    BY <2>6, <2>7, <2>8
<1>9. CASE Disconnect(c)
  <2>1. sub[c] \in RoomObjs
    BY <1>9 DEF Disconnect, Ownership, Streaming
  <2> QED
    BY <1>9, <2>1 DEF Disconnect, SubsWithout, HubTypes, PublisherTypes, GCTypes,
       ClientTypes, HistoryTypes, Ownership, Streaming, Labels
<1>10. CASE Release(c)
  <2>1. <<>> \in Seq(Message)
    OBVIOUS
  <2> QED
    BY <1>10, <2>1 DEF Release, HubTypes, PublisherTypes, GCTypes, ClientTypes,
       HistoryTypes, Ownership, Streaming, Labels
<1> QED
  BY <1>1, <1>2, <1>3, <1>4, <1>5, <1>6, <1>7, <1>8, <1>9, <1>10
     DEF ClientNext, HandlerStep

LEMMA TypedNext == Typed /\ [Next]_vars => Typed'
BY TypedPublisher, TypedClockAndGC, TypedClient DEF Next

THEOREM AlwaysTyped == Spec => []Typed
BY TypedInit, TypedNext, PTL DEF Spec

\* Every variable of the hub and of its handlers keeps its type: no handler
\* writes through a nil room pointer, whatever GC removed from h.rooms.
THEOREM TypeCorrect == Spec => []TypeOK
<1>1. Typed => TypeOK
  BY DEF Typed
<1> QED
  BY <1>1, AlwaysTyped, PTL

-----------------------------------------------------------------------------
(* Nothing is shown twice or out of order.  The buffer of a room ascends,  *)
(* so everything from Poll's search index on is beyond the cursor; a live  *)
(* event passes only if it is.                                             *)

\* Appending a message under the next seq, and pruning a prefix.
LEMMA AscendNext ==
  ASSUME NEW buf \in Seq(Message), NEW last \in Nat, NEW m \in Message,
         m.seq = last + 1,
         \A i, j \in DOMAIN buf : i < j => buf[i].seq < buf[j].seq,
         \A i \in DOMAIN buf : buf[i].seq <= last,
         NEW n \in 0..(Len(buf) + 1)
  PROVE  LET b == Drop(Append(buf, m), n)
         IN  /\ \A i, j \in DOMAIN b : i < j => b[i].seq < b[j].seq
             /\ \A i \in DOMAIN b : b[i].seq <= last + 1
<1> DEFINE a == Append(buf, m)
           b == Drop(a, n)
<1>1. /\ a \in Seq(Message) /\ Len(a) = Len(buf) + 1
      /\ \A i \in 1..Len(buf) : a[i] = buf[i]
      /\ a[Len(buf) + 1] = m
  BY AppendProperties
<1> HIDE DEF a
<1>2. ASSUME NEW i \in 1..Len(a)
      PROVE  a[i].seq \in Nat /\ a[i].seq <= last + 1
  <2>1. CASE i \in 1..Len(buf)
    <3>1. a[i] = buf[i] /\ buf[i].seq \in Nat /\ buf[i].seq <= last
      BY <1>1, <2>1, MessageFields
    <3> QED
      BY <3>1
  <2>2. CASE i = Len(buf) + 1
    BY <1>1, <2>2
  <2> QED
    BY <1>1, <2>1, <2>2
<1>3. ASSUME NEW i \in 1..Len(a), NEW j \in 1..Len(a), i < j
      PROVE  a[i].seq < a[j].seq
  <2>1. i \in 1..Len(buf) /\ a[i] = buf[i] /\ buf[i].seq \in Nat /\ buf[i].seq <= last
    <3>1. i \in 1..Len(buf)
      BY <1>1, <1>3
    <3> QED
      BY <1>1, <3>1, MessageFields
  <2>2. CASE j \in 1..Len(buf)
    <3>1. a[j] = buf[j] /\ buf[i].seq < buf[j].seq
      BY <1>1, <1>3, <2>1, <2>2
    <3> QED
      BY <2>1, <3>1
  <2>3. CASE j = Len(buf) + 1
    BY <1>1, <2>1, <2>3
  <2> QED
    BY <1>1, <2>2, <2>3
<1>4. /\ n \in 0..Len(a)
      /\ b \in Seq(Message) /\ Len(b) = Len(a) - n
      /\ \A i \in 1..(Len(a) - n) : b[i] = a[i + n]
  <2>1. n \in 0..Len(a)
    BY <1>1
  <2> QED
    BY <1>1, <2>1, DropType
<1> HIDE DEF b
<1>5. ASSUME NEW i \in DOMAIN b
      PROVE  i \in 1..(Len(a) - n) /\ i + n \in 1..Len(a) /\ b[i] = a[i + n]
  <2>1. i \in 1..(Len(a) - n)
    BY <1>4
  <2> QED
    BY <1>1, <1>4, <2>1
<1>6. \A i \in DOMAIN b : b[i].seq <= last + 1
  BY <1>2, <1>5
<1>7. ASSUME NEW i \in DOMAIN b, NEW j \in DOMAIN b, i < j
      PROVE  b[i].seq < b[j].seq
  <2>1. i + n < j + n
    BY <1>5, <1>7
  <2> QED
    BY <1>3, <1>5, <2>1
<1>8. /\ \A i, j \in DOMAIN b : i < j => b[i].seq < b[j].seq
      /\ \A i \in DOMAIN b : b[i].seq <= last + 1
  BY <1>6, <1>7
<1> QED
  BY <1>8 DEF b, a

\* What PublishLocked does to its object.
LEMMA PublishedBuffer ==
  ASSUME Typed, NEW p \in Publishers, PublishLocked(p)
  PROVE  LET o == pubObj[p]
             m == [room |-> owner[o], seq |-> seq[o] + 1,
                   sender |-> pubSender[p], ts |-> pubTs[p]]
         IN  /\ o \in RoomObjs /\ m \in Message
             /\ \E n \in 0..(Len(messages[o]) + 1) :
                  messages' = [messages EXCEPT ![o] = Drop(Append(messages[o], m), n)]
<1> DEFINE o == pubObj[p]
           m == [room |-> owner[o], seq |-> seq[o] + 1,
                 sender |-> pubSender[p], ts |-> pubTs[p]]
           buf == Append(messages[o], m)
<1>1. o \in RoomObjs /\ messages[o] \in Seq(Message) /\ m \in Message
  BY PublishedMessage DEF PublishLocked
<1>2. PICK i \in SearchIndex(Len(buf), LAMBDA j : WithinTTL(buf[j])) :
         messages' = [messages EXCEPT ![o] = Pruned(buf, i)]
  BY DEF PublishLocked
<1> HIDE DEF m
<1>3. buf \in Seq(Message) /\ Len(buf) = Len(messages[o]) + 1
  BY <1>1, AppendProperties
<1> HIDE DEF buf
<1>4. i \in 0..Len(buf)
  BY <1>2 DEF SearchIndex
<1>5. PICK n \in 0..Len(buf) : Pruned(buf, i) = Drop(buf, n)
  BY <1>3, <1>4, PrunedIsTail
<1>6. /\ n \in 0..(Len(messages[o]) + 1)
      /\ messages' = [messages EXCEPT ![o] = Drop(buf, n)]
  BY <1>2, <1>3, <1>5
<1> QED
  BY <1>1, <1>6 DEF buf, m

\* Allocating a room disturbs no buffer.
LEMMA AscendEnsure ==
  ASSUME Typed, BuffersAscend, NEW rm \in Rooms, NEW o \in RoomObjs,
         EnsureRoom(rm, o), UNCHANGED messages
  PROVE  BuffersAscend'
<1>1. CASE UNCHANGED <<owner, seq>>
  BY <1>1 DEF BuffersAscend
<1>2. CASE /\ owner[o] = NoRoom
           /\ owner' = [owner EXCEPT ![o] = rm]
           /\ seq' = [seq EXCEPT ![o] = InitialSeq]
  <2>1. messages[o] = <<>> /\ DOMAIN messages[o] = {}
    BY <1>2 DEF BuffersAscend
  <2>2. \A x \in RoomObjs \ {o} : owner'[x] = owner[x] /\ seq'[x] = seq[x]
    BY <1>2 DEF Typed, TypeOK, HubTypes
  <2> QED
    BY <2>1, <2>2 DEF BuffersAscend
<1> QED
  BY <1>1, <1>2 DEF EnsureRoom

LEMMA AscendStep ==
  ASSUME Typed, BuffersAscend, [Next]_vars
  PROVE  BuffersAscend'
<1> USE DEF hubVars, objVars, pubVars, gcVars, clientVars, histVars
<1>1. ASSUME UNCHANGED <<owner, seq, messages>>
      PROVE  BuffersAscend'
  BY <1>1 DEF BuffersAscend
<1>2. ASSUME NEW p \in Publishers, PublisherNext(p)
      PROVE  BuffersAscend'
  <2>1. CASE (\E rm \in Rooms : Send(p, rm)) \/ Broadcast(p)
    BY <1>1, <2>1 DEF Send, Broadcast, StartPublish
  <2>2. CASE \E rm \in Rooms, o \in RoomObjs : PublishEnsureRoom(p, rm, o)
    BY <2>2, AscendEnsure DEF PublishEnsureRoom
  <2>3. CASE PublishLocked(p)
    <3> DEFINE o == pubObj[p]
               m == [room |-> owner[o], seq |-> seq[o] + 1,
                     sender |-> pubSender[p], ts |-> pubTs[p]]
    <3>1. /\ o \in RoomObjs /\ owner[o] # NoRoom
          /\ messages[o] \in Seq(Message) /\ seq[o] \in Nat
      BY <2>3, HubAssumption DEF PublishLocked, Typed, TypeOK, HubTypes, Ownership
    <3>2. PICK n \in 0..(Len(messages[o]) + 1) :
            messages' = [messages EXCEPT ![o] = Drop(Append(messages[o], m), n)]
      BY <2>3, PublishedBuffer
    <3>3. m \in Message /\ m.seq = seq[o] + 1
      BY <2>3, PublishedBuffer
    <3>4. UNCHANGED owner /\ seq' = [seq EXCEPT ![o] = @ + 1]
      BY <2>3 DEF PublishLocked
    <3> HIDE DEF m
    <3>5. /\ \A i, j \in DOMAIN messages'[o] :
               i < j => messages'[o][i].seq < messages'[o][j].seq
          /\ \A i \in DOMAIN messages'[o] : messages'[o][i].seq <= seq'[o]
      <4>1. /\ \A i, j \in DOMAIN messages[o] :
                 i < j => messages[o][i].seq < messages[o][j].seq
            /\ \A i \in DOMAIN messages[o] : messages[o][i].seq <= seq[o]
        BY <3>1 DEF BuffersAscend
      <4>2. /\ messages'[o] = Drop(Append(messages[o], m), n)
            /\ seq'[o] = seq[o] + 1
        BY <3>1, <3>2, <3>4 DEF Typed, TypeOK, HubTypes
      <4> QED
        BY <3>1, <3>3, <4>1, <4>2, AscendNext
    <3>6. \A x \in RoomObjs \ {o} : messages'[x] = messages[x] /\ seq'[x] = seq[x]
      BY <3>1, <3>2, <3>4 DEF Typed, TypeOK, HubTypes
    <3> HIDE DEF o
    <3> QED
      BY <3>1, <3>4, <3>5, <3>6 DEF BuffersAscend
  <2> QED
    BY <1>2, <2>1, <2>2, <2>3 DEF PublisherNext
<1>3. ASSUME NEW c \in Clients, ClientNext(c)
      PROVE  BuffersAscend'
  <2>1. CASE \E o \in RoomObjs : SubscribeEnsureRoom(c, o)
    BY <2>1, AscendEnsure, HubAssumption DEF SubscribeEnsureRoom
  <2>2. CASE ~ \E o \in RoomObjs : SubscribeEnsureRoom(c, o)
    BY <1>1, <1>3, <2>2 DEF ClientNext, HandlerStep, Join, Poll, Subscribe, Request,
       Register, Count, Lookup, ReadSeq, ReadMessages, Receive, Disconnect, Release
  <2> QED
    BY <2>1, <2>2
<1>4. CASE Tick \/ GCNext \/ UNCHANGED vars
  BY <1>1, <1>4 DEF Tick, GCNext, GCScan, GCSweep, vars
<1> QED
  BY <1>2, <1>3, <1>4 DEF Next

\* Showing a client a batch beyond its cursor.
LEMMA ShowBatch ==
  ASSUME NEW d \in Seq(Nat), NEW from \in Nat, NEW last \in Nat,
         InOrder(d, from, last), NEW e \in Seq(Nat),
         \A i, j \in DOMAIN e : i < j => e[i] < e[j],
         \A i \in DOMAIN e : e[i] > last
  PROVE  InOrder(d \o e, from, IF e = <<>> THEN last ELSE e[Len(e)])
<1> DEFINE f == d \o e
<1>1. /\ f \in Seq(Nat) /\ Len(f) = Len(d) + Len(e)
      /\ \A i \in 1..Len(f) : f[i] = IF i <= Len(d) THEN d[i] ELSE e[i - Len(d)]
  BY ConcatProperties
<1> HIDE DEF f
<1>2. \A i \in 1..Len(d) : d[i] \in Nat
  OBVIOUS
<1>3. ASSUME NEW i \in 1..Len(d)
      PROVE  d[i] <= last
  <2>1. d # <<>> /\ last = d[Len(d)] /\ Len(d) \in 1..Len(d)
    BY <1>3 DEF InOrder
  <2>2. i = Len(d) \/ d[i] < d[Len(d)]
    BY <2>1 DEF InOrder
  <2> QED
    BY <1>2, <2>1, <2>2
<1>4. last >= from
  <2>1. CASE d = <<>>
    BY <2>1 DEF InOrder
  <2>2. CASE d # <<>>
    <3>1. 1 \in 1..Len(d) /\ d[1] > from
      BY <2>2 DEF InOrder
    <3>2. d[1] \in Nat /\ d[1] <= last
      BY <1>2, <1>3, <3>1
    <3> QED
      BY <3>1, <3>2
  <2> QED
    BY <2>1, <2>2
<1>5. \A i \in 1..Len(e) : e[i] \in Nat /\ e[i] > last
  OBVIOUS
<1>6. ASSUME NEW i \in DOMAIN f, NEW j \in DOMAIN f, i < j
      PROVE  f[i] < f[j]
  <2>1. i \in 1..Len(f) /\ j \in 1..Len(f) /\ Len(d) \in Nat /\ Len(e) \in Nat
    BY <1>1
  <2>2. f[i] = IF i <= Len(d) THEN d[i] ELSE e[i - Len(d)]
    BY <1>1, <2>1
  <2>3. f[j] = IF j <= Len(d) THEN d[j] ELSE e[j - Len(d)]
    BY <1>1, <2>1
  <2>4. CASE j <= Len(d)
    <3>1. i \in 1..Len(d) /\ j \in 1..Len(d) /\ f[i] = d[i] /\ f[j] = d[j]
      BY <1>6, <2>1, <2>4, <2>2, <2>3
    <3> QED
      BY <1>6, <3>1 DEF InOrder
  <2>5. CASE i <= Len(d) /\ Len(d) < j
    <3>1. i \in 1..Len(d) /\ j - Len(d) \in 1..Len(e) /\ f[i] = d[i] /\ f[j] = e[j - Len(d)]
      <4>1. i \in 1..Len(d) /\ j - Len(d) \in 1..Len(e) /\ ~(j <= Len(d))
        <5>1. Len(f) = Len(d) + Len(e)
          BY <1>1
        <5> QED
          BY <2>1, <2>5, <5>1
      <4> QED
        BY <2>5, <2>2, <2>3, <4>1
    <3>2. d[i] \in Nat /\ d[i] <= last /\ e[j - Len(d)] \in Nat /\ e[j - Len(d)] > last
      BY <1>2, <1>3, <1>5, <3>1
    <3> QED
      BY <3>1, <3>2
  <2>6. CASE Len(d) < i
    <3>1. /\ i - Len(d) \in DOMAIN e /\ j - Len(d) \in DOMAIN e
          /\ i - Len(d) < j - Len(d)
          /\ f[i] = e[i - Len(d)] /\ f[j] = e[j - Len(d)]
      <4>1. /\ i - Len(d) \in 1..Len(e) /\ j - Len(d) \in 1..Len(e)
            /\ i - Len(d) < j - Len(d)
            /\ ~(i <= Len(d)) /\ ~(j <= Len(d))
        <5>1. Len(f) = Len(d) + Len(e)
          BY <1>1
        <5> QED
          BY <1>6, <2>1, <2>6, <5>1
      <4> QED
        BY <2>2, <2>3, <4>1
    <3> QED
      BY <3>1
  <2> QED
    BY <1>1, <1>6, <2>1, <2>4, <2>5, <2>6
<1>7. (IF e = <<>> THEN last ELSE e[Len(e)]) = IF f = <<>> THEN from ELSE f[Len(f)]
  <2>1. CASE e = <<>>
    <3>1. Len(f) = Len(d) /\ (f = <<>>) = (d = <<>>)
      BY <1>1, <2>1
    <3>2. d # <<>> => f[Len(f)] = d[Len(d)]
      BY <1>1, <3>1
    <3> QED
      BY <2>1, <3>1, <3>2 DEF InOrder
  <2>2. CASE e # <<>>
    <3>1. /\ f # <<>> /\ Len(f) \in 1..Len(f)
          /\ ~(Len(f) <= Len(d)) /\ Len(f) - Len(d) = Len(e)
      BY <1>1, <2>2
    <3>2. f[Len(f)] = e[Len(e)]
      BY <1>1, <3>1
    <3> QED
      BY <2>2, <3>1, <3>2
  <2> QED
    BY <2>1, <2>2
<1>8. ASSUME f # <<>>
      PROVE  f[1] > from
  <2>1. 1 \in 1..Len(f)
    BY <1>1, <1>8
  <2>2. CASE d = <<>>
    <3>1. 1 \in 1..Len(e) /\ f[1] = e[1] /\ last = from
      BY <1>1, <2>1, <2>2 DEF InOrder
    <3> QED
      BY <1>5, <3>1
  <2>3. CASE d # <<>>
    <3>1. f[1] = d[1] /\ d[1] > from
      BY <1>1, <2>1, <2>3 DEF InOrder
    <3> QED
      BY <3>1
  <2> QED
    BY <2>2, <2>3
<1>9. InOrder(f, from, IF e = <<>> THEN last ELSE e[Len(e)])
  BY <1>6, <1>7, <1>8 DEF InOrder
<1> QED
  BY <1>9 DEF f

\* Showing a client one event beyond its cursor.
LEMMA ShowEvent ==
  ASSUME NEW d \in Seq(Nat), NEW from \in Nat, NEW last \in Nat,
         InOrder(d, from, last), NEW s \in Nat, s > last
  PROVE  InOrder(Append(d, s), from, s)
<1> DEFINE e == <<s>>
<1>1. e \in Seq(Nat) /\ Len(e) = 1 /\ e[1] = s /\ e # <<>>
  OBVIOUS
<1>2. Append(d, s) = d \o e
  BY AppendIsConcat
<1> HIDE DEF e
<1>3. InOrder(d \o e, from, IF e = <<>> THEN last ELSE e[Len(e)])
  BY <1>1, ShowBatch
<1> QED
  BY <1>1, <1>2, <1>3

\* The part of an ascending buffer from the search index on is beyond the cursor.
LEMMA BatchAfterCursor ==
  ASSUME NEW buf \in Seq(Message), NEW cursor \in Nat,
         \A i, j \in DOMAIN buf : i < j => buf[i].seq < buf[j].seq,
         NEW n \in SearchIndex(Len(buf), LAMBDA j : After(buf[j], cursor))
  PROVE  LET batch == Drop(buf, n)
             shown == [k \in 1..Len(batch) |-> batch[k].seq]
         IN  /\ shown \in Seq(Nat) /\ Len(shown) = Len(batch)
             /\ \A i, j \in DOMAIN shown : i < j => shown[i] < shown[j]
             /\ \A i \in DOMAIN shown : shown[i] > cursor
<1> DEFINE batch == Drop(buf, n)
           shown == [k \in 1..Len(batch) |-> batch[k].seq]
<1>1. n \in 0..Len(buf) /\ (n < Len(buf) => buf[n + 1].seq > cursor)
  BY DEF SearchIndex, After
<1>2. /\ batch \in Seq(Message) /\ Len(batch) = Len(buf) - n
      /\ \A i \in 1..(Len(buf) - n) : batch[i] = buf[i + n]
  BY <1>1, DropType
<1> HIDE DEF batch
<1>3. \A i \in 1..Len(buf) : buf[i].seq \in Nat
  BY MessageFields
<1>4. \A i \in (n + 1)..Len(buf) : buf[i].seq > cursor
  BY <1>1, <1>3
<1>5. ASSUME NEW i \in 1..Len(batch)
      PROVE  i + n \in (n + 1)..Len(buf) /\ i + n \in 1..Len(buf) /\ batch[i] = buf[i + n]
  BY <1>1, <1>2
<1>6. /\ \A i \in 1..Len(batch) : batch[i].seq \in Nat /\ batch[i].seq > cursor
      /\ \A i, j \in 1..Len(batch) : i < j => batch[i].seq < batch[j].seq
  <2>1. \A i \in 1..Len(batch) : batch[i].seq \in Nat /\ batch[i].seq > cursor
    BY <1>3, <1>4, <1>5
  <2>2. ASSUME NEW i \in 1..Len(batch), NEW j \in 1..Len(batch), i < j
        PROVE  batch[i].seq < batch[j].seq
    <3>1. i + n < j + n
      BY <1>1, <2>2
    <3> QED
      BY <1>5, <3>1
  <2> QED
    BY <2>1, <2>2
<1>7. Len(batch) \in Nat
  BY <1>2
<1>8. shown \in Seq(Nat) /\ Len(shown) = Len(batch)
  BY <1>6, <1>7
<1> QED
  BY <1>6, <1>8 DEF batch

InOrderInv == Typed /\ BuffersAscend /\ InOrderOnce

LEMMA InOrderStep ==
  ASSUME InOrderInv, [Next]_vars
  PROVE  InOrderOnce'
<1> USE DEF InOrderInv, hubVars, objVars, pubVars, gcVars, clientVars, histVars
<1>1. ASSUME UNCHANGED <<delivered, start, lastSeq>>
      PROVE  InOrderOnce'
  BY <1>1 DEF InOrderOnce
<1>2. ASSUME NEW c \in Clients, ReadSeq(c)
      PROVE  InOrderOnce'
  <2>1. /\ delivered'[c] = <<>> /\ start'[c] = lastSeq'[c]
        /\ \A x \in Clients \ {c} : /\ delivered'[x] = delivered[x]
                                    /\ start'[x] = start[x] /\ lastSeq'[x] = lastSeq[x]
    BY <1>2 DEF ReadSeq, Typed, TypeOK, ClientTypes, HistoryTypes
  <2>2. InOrder(delivered'[c], start'[c], lastSeq'[c])
    BY <2>1 DEF InOrder
  <2> QED
    BY <2>1, <2>2 DEF InOrderOnce
<1>3. ASSUME NEW c \in Clients, ReadMessages(c)
      PROVE  InOrderOnce'
  <2> DEFINE buf == IF ptr[c] = NoObj THEN <<>> ELSE messages[ptr[c]]
  <2>1. PICK n \in SearchIndex(Len(buf), LAMBDA j : After(buf[j], lastSeq[c])) :
          LET batch == Drop(buf, n)
          IN  /\ delivered' = [delivered EXCEPT
                      ![c] = @ \o [k \in 1..Len(batch) |-> batch[k].seq]]
              /\ lastSeq' = [lastSeq EXCEPT
                      ![c] = IF batch = <<>> THEN @ ELSE batch[Len(batch)].seq]
    BY <1>3 DEF ReadMessages
  <2> DEFINE batch == Drop(buf, n)
             shown == [k \in 1..Len(batch) |-> batch[k].seq]
  <2>2. UNCHANGED start
    BY <1>3 DEF ReadMessages
  <2>3. /\ delivered'[c] = delivered[c] \o shown
        /\ lastSeq'[c] = IF batch = <<>> THEN lastSeq[c] ELSE batch[Len(batch)].seq
        /\ \A x \in Clients \ {c} : /\ delivered'[x] = delivered[x]
                                    /\ lastSeq'[x] = lastSeq[x]
    BY <2>1 DEF Typed, TypeOK, ClientTypes, HistoryTypes
  <2>4. /\ buf \in Seq(Message)
        /\ \A i, j \in DOMAIN buf : i < j => buf[i].seq < buf[j].seq
    BY DEF Typed, TypeOK, HubTypes, ClientTypes, BuffersAscend
  <2>5. /\ delivered[c] \in Seq(Nat) /\ start[c] \in Nat /\ lastSeq[c] \in Nat
        /\ InOrder(delivered[c], start[c], lastSeq[c])
    BY DEF Typed, TypeOK, ClientTypes, HistoryTypes, InOrderOnce
  <2> HIDE DEF buf
  <2>6. /\ shown \in Seq(Nat) /\ Len(shown) = Len(batch)
        /\ \A i, j \in DOMAIN shown : i < j => shown[i] < shown[j]
        /\ \A i \in DOMAIN shown : shown[i] > lastSeq[c]
    BY <2>1, <2>4, <2>5, BatchAfterCursor
  <2>7. batch \in Seq(Message)
    BY <2>1, <2>4, DropType DEF SearchIndex
  <2> HIDE DEF batch
  <2>8. (IF shown = <<>> THEN lastSeq[c] ELSE shown[Len(shown)]) = lastSeq'[c]
    <3>1. CASE batch = <<>>
      BY <2>3, <2>6, <3>1
    <3>2. CASE batch # <<>>
      BY <2>3, <2>6, <2>7, <3>2
    <3> QED
      BY <3>1, <3>2
  <2> HIDE DEF shown
  <2>9. InOrder(delivered[c] \o shown, start[c],
                IF shown = <<>> THEN lastSeq[c] ELSE shown[Len(shown)])
    BY <2>5, <2>6, ShowBatch
  <2> QED
    BY <2>2, <2>3, <2>8, <2>9 DEF InOrderOnce
<1>4. ASSUME NEW c \in Clients, Receive(c)
      PROVE  InOrderOnce'
  <2> DEFINE s == Head(chan[c]).seq
  <2>1. chan[c] \in Seq(Message) /\ chan[c] # <<>> /\ UNCHANGED start
    BY <1>4 DEF Receive, EventReady, Typed, TypeOK, ClientTypes
  <2>2. s \in Nat
    <3>1. Head(chan[c]) \in Message
      BY <2>1, HeadTailProperties
    <3> QED
      BY <3>1 DEF Message
  <2>3. /\ delivered[c] \in Seq(Nat) /\ start[c] \in Nat /\ lastSeq[c] \in Nat
        /\ InOrder(delivered[c], start[c], lastSeq[c])
    BY DEF Typed, TypeOK, ClientTypes, HistoryTypes, InOrderOnce
  <2>4. CASE AlreadySent(c, s)
    BY <1>1, <1>4, <2>1, <2>4 DEF Receive
  <2>5. CASE ~AlreadySent(c, s)
    <3>1. /\ delivered' = [delivered EXCEPT ![c] = Append(@, s)]
          /\ lastSeq' = [lastSeq EXCEPT ![c] = s]
      BY <1>4, <2>5 DEF Receive
    <3> HIDE DEF s
    <3>2. /\ delivered'[c] = Append(delivered[c], s) /\ lastSeq'[c] = s
          /\ \A x \in Clients \ {c} : /\ delivered'[x] = delivered[x]
                                      /\ lastSeq'[x] = lastSeq[x]
      BY <3>1 DEF Typed, TypeOK, ClientTypes, HistoryTypes
    <3>3. InOrder(Append(delivered[c], s), start[c], s)
      <4>1. s > lastSeq[c]
        BY <2>2, <2>3, <2>5 DEF AlreadySent
      <4> QED
        BY <2>2, <2>3, <4>1, ShowEvent
    <3> QED
      BY <2>1, <3>2, <3>3 DEF InOrderOnce
  <2> QED
    BY <2>4, <2>5
<1>5. CASE Tick \/ GCNext \/ UNCHANGED vars
  BY <1>1, <1>5 DEF Tick, GCNext, GCScan, GCSweep, vars
<1>6. ASSUME NEW p \in Publishers, PublisherNext(p)
      PROVE  InOrderOnce'
  BY <1>1, <1>6 DEF PublisherNext, Send, Broadcast, StartPublish,
     PublishEnsureRoom, PublishLocked
<1>7. ASSUME NEW c \in Clients, ClientNext(c)
      PROVE  InOrderOnce'
  BY <1>1, <1>2, <1>3, <1>4, <1>7 DEF ClientNext, HandlerStep, Join, Poll,
     Subscribe, Request, SubscribeEnsureRoom, Register, Count, Lookup, Disconnect,
     Release
<1> QED
  BY <1>5, <1>6, <1>7 DEF Next

\* A client never sees a message twice nor out of order, whatever mix of /poll,
\* /events catch-up, live events and reconnects it uses.
THEOREM SeenInOrderOnce == Spec => []InOrderOnce
<1>1. Init => InOrderInv
  <2>1. Init => BuffersAscend
    BY DEF Init, BuffersAscend
  <2>2. Init => InOrderOnce
    BY DEF Init, InOrderOnce, InOrder
  <2> QED
    BY <2>1, <2>2, TypedInit DEF InOrderInv
<1>2. InOrderInv /\ [Next]_vars => InOrderInv'
  BY TypedNext, AscendStep, InOrderStep DEF InOrderInv
<1>3. InOrderInv => InOrderOnce
  BY DEF InOrderInv
<1> QED
  BY <1>1, <1>2, <1>3, PTL DEF Spec

-----------------------------------------------------------------------------
(* No cursor is ahead of its room.  The hard step is GCSweep: a collected  *)
(* room has been idle for 2 * TTL, so its counter, which ran at most Burst *)
(* ahead of the clock when it was last published to, is not ahead of the   *)
(* clock any more, and the clock seeds the room's next counter.            *)

CursorInv == Typed /\ BuffersAscend /\ Registration /\ Timing /\ Cursors

\* A publisher's fan-out reaches streams of its own object only.
LEMMA FanOutReaches ==
  ASSUME Typed, Registration, NEW p \in Publishers, PublishLocked(p)
  PROVE  LET o == pubObj[p]
             m == [room |-> owner[o], seq |-> seq[o] + 1,
                   sender |-> pubSender[p], ts |-> pubTs[p]]
         IN  /\ o \in RoomObjs /\ m \in Message
             /\ \A c \in Clients :
                  \/ chan'[c] = chan[c]
                  \/ Streaming(c) /\ sub[c] = o /\ chan'[c] = Append(chan[c], m)
<1> DEFINE o == pubObj[p]
           m == [room |-> owner[o], seq |-> seq[o] + 1,
                 sender |-> pubSender[p], ts |-> pubTs[p]]
<1>1. o \in RoomObjs /\ m \in Message
  BY PublishedMessage DEF PublishLocked
<1>2. chan' = [c \in Clients |-> IF c \in FanOut(o, m) /\ ~Full(c)
                                 THEN Append(chan[c], m) ELSE chan[c]]
  BY DEF PublishLocked
<1> HIDE DEF m
<1>3. ASSUME NEW c \in Clients, c \in subs[o]
      PROVE  Streaming(c) /\ sub[c] = o
  BY <1>1, <1>3 DEF Registration, Subscribed, Registered, Streaming
<1>4. \A c \in Clients :
        \/ chan'[c] = chan[c]
        \/ Streaming(c) /\ sub[c] = o /\ chan'[c] = Append(chan[c], m)
  BY <1>2, <1>3 DEF FanOut
<1> QED
  BY <1>1, <1>4 DEF m

LEMMA RegistrationStep ==
  ASSUME Typed, Registration, [Next]_vars
  PROVE  Registration'
<1> USE DEF hubVars, objVars, pubVars, gcVars, clientVars, histVars
<1>1. ASSUME UNCHANGED <<subs, pc, op, sub, chan>>
      PROVE  Registration'
  BY <1>1 DEF Registration, Subscribed, Streaming
<1>2. ASSUME NEW p \in Publishers, PublisherNext(p)
      PROVE  Registration'
  <2>1. CASE PublishLocked(p)
    <3>1. \A c \in Clients : chan'[c] # <<>> => Streaming(c)
      BY <2>1, FanOutReaches DEF Registration
    <3> QED
      BY <2>1, <3>1 DEF PublishLocked, Registration, Subscribed, Streaming
  <2>2. CASE ~PublishLocked(p)
    BY <1>1, <1>2, <2>2 DEF PublisherNext, Send, Broadcast, StartPublish, PublishEnsureRoom
  <2> QED
    BY <2>1, <2>2
<1>3. CASE Tick \/ GCNext \/ UNCHANGED vars
  BY <1>1, <1>3 DEF Tick, GCNext, GCScan, GCSweep, vars
<1>4. ASSUME NEW c \in Clients, ClientNext(c)
      PROVE  Registration'
  <2> USE DEF Request, Goto
  <2>1. ASSUME UNCHANGED subs,
               Subscribed(c)' <=> Subscribed(c), Subscribed(c) => sub'[c] = sub[c],
               chan'[c] # <<>> => Streaming(c)',
               \A d \in Clients \ {c} :
                 pc'[d] = pc[d] /\ op'[d] = op[d] /\ sub'[d] = sub[d] /\ chan'[d] = chan[d]
        PROVE  Registration'
    BY <2>1 DEF Registration, Subscribed, Streaming
  <2>2. CASE Join(c) \/ Poll(c) \/ Subscribe(c)
    <3>1. pc[c] = "idle" /\ chan[c] = <<>> /\ UNCHANGED <<subs, sub, chan>>
      BY <2>2 DEF Join, Poll, Subscribe, Registration, Streaming
    <3>2. ~Subscribed(c) /\ ~Subscribed(c)'
      BY <2>2, <3>1 DEF Join, Poll, Subscribe, Subscribed, Registered, Typed, TypeOK, ClientTypes
    <3>3. \A d \in Clients \ {c} : pc'[d] = pc[d] /\ op'[d] = op[d]
      BY <2>2 DEF Join, Poll, Subscribe, Typed, TypeOK, ClientTypes
    <3> QED
      BY <2>1, <3>1, <3>2, <3>3
  <2>3. CASE \E o \in RoomObjs : SubscribeEnsureRoom(c, o)
    <3>1. Streaming(c)' /\ ~Subscribed(c) /\ ~Subscribed(c)'
      BY <2>3 DEF SubscribeEnsureRoom, Streaming, Subscribed, Registered, Typed, TypeOK, ClientTypes
    <3>2. /\ UNCHANGED <<subs, op, chan>>
          /\ \A d \in Clients \ {c} : pc'[d] = pc[d] /\ sub'[d] = sub[d]
      BY <2>3 DEF SubscribeEnsureRoom, Typed, TypeOK, ClientTypes
    <3> QED
      BY <2>1, <3>1, <3>2
  <2>4. CASE Register(c)
    <3>1. /\ sub[c] \in RoomObjs /\ op[c] = "stream" /\ pc[c] = "register"
          /\ pc' = [pc EXCEPT ![c] = "count"] /\ UNCHANGED <<op, sub, chan>>
          /\ subs' = [subs EXCEPT ![sub[c]] = @ \cup {c}]
      BY <2>4 DEF Register, Typed, Ownership, Streaming
    <3>2. ~Subscribed(c) /\ Subscribed(c)' /\ Streaming(c) /\ Streaming(c)'
      BY <3>1 DEF Subscribed, Registered, Streaming, Typed, TypeOK, ClientTypes
    <3>3. \A d \in Clients \ {c} : (Subscribed(d)' <=> Subscribed(d)) /\ Streaming(d)' = Streaming(d)
      BY <3>1 DEF Subscribed, Streaming, Typed, TypeOK, ClientTypes
    <3>4. ASSUME NEW o \in RoomObjs
          PROVE  subs'[o] = {d \in Clients : Subscribed(d)' /\ sub'[d] = o}
      <4>1. subs[o] = {d \in Clients : Subscribed(d) /\ sub[d] = o}
        BY DEF Registration
      <4>2. subs'[o] = IF o = sub[c] THEN subs[o] \cup {c} ELSE subs[o]
        BY <3>1 DEF Typed, TypeOK, HubTypes
      <4> QED
        BY <3>1, <3>2, <3>3, <4>1, <4>2
    <3> QED
      BY <3>1, <3>2, <3>3, <3>4 DEF Registration
  <2>5. CASE Disconnect(c)
    <3>1. /\ sub[c] \in RoomObjs /\ op[c] = "stream" /\ pc[c] = "live"
          /\ pc' = [pc EXCEPT ![c] = "release"] /\ UNCHANGED <<op, sub, chan>>
          /\ subs' = [subs EXCEPT ![sub[c]] = @ \ {c}]
      BY <2>5 DEF Disconnect, SubsWithout, Typed, Ownership, Streaming
    <3>2. ~Subscribed(c)' /\ Streaming(c) /\ Streaming(c)'
      BY <3>1 DEF Subscribed, Registered, Streaming, Typed, TypeOK, ClientTypes
    <3>3. \A d \in Clients \ {c} : (Subscribed(d)' <=> Subscribed(d)) /\ Streaming(d)' = Streaming(d)
      BY <3>1 DEF Subscribed, Streaming, Typed, TypeOK, ClientTypes
    <3>4. ASSUME NEW o \in RoomObjs
          PROVE  subs'[o] = {d \in Clients : Subscribed(d)' /\ sub'[d] = o}
      <4>1. subs[o] = {d \in Clients : Subscribed(d) /\ sub[d] = o}
        BY DEF Registration
      <4>2. subs'[o] = IF o = sub[c] THEN subs[o] \ {c} ELSE subs[o]
        BY <3>1 DEF Typed, TypeOK, HubTypes
      <4> QED
        BY <3>1, <3>2, <3>3, <4>1, <4>2
    <3> QED
      BY <3>1, <3>2, <3>3, <3>4 DEF Registration
  <2>6. CASE Count(c) \/ Lookup(c)
    <3>1. (Subscribed(c)' <=> Subscribed(c)) /\ (Streaming(c) => Streaming(c)')
      BY <2>6 DEF Count, Lookup, Subscribed, Registered, Streaming, Typed, TypeOK,
         ClientTypes, Ownership
    <3> QED
      BY <2>1, <2>6, <3>1 DEF Count, Lookup, Registration, Typed, TypeOK, ClientTypes
  <2>7. CASE ReadSeq(c) \/ ReadMessages(c)
    <3>1. (Subscribed(c)' <=> Subscribed(c)) /\ (Streaming(c) => Streaming(c)')
      BY <2>7 DEF ReadSeq, ReadMessages, Subscribed, Registered, Streaming, Typed,
         TypeOK, ClientTypes
    <3> QED
      BY <2>1, <2>7, <3>1 DEF ReadSeq, ReadMessages, Registration, Typed, TypeOK, ClientTypes
  <2>8. CASE Receive(c)
    <3>1. Streaming(c) /\ Streaming(c)' /\ (Subscribed(c)' <=> Subscribed(c))
      BY <2>8 DEF Receive, EventReady, Subscribed, Streaming
    <3>2. /\ UNCHANGED <<subs, pc, op, sub>>
          /\ \A d \in Clients \ {c} : chan'[d] = chan[d]
      BY <2>8 DEF Receive, Typed, TypeOK, ClientTypes
    <3> QED
      BY <2>1, <3>1, <3>2
  <2>9. CASE Release(c)
    <3>1. chan'[c] = <<>> /\ ~Subscribed(c) /\ ~Subscribed(c)'
      BY <2>9 DEF Release, Subscribed, Registered, Typed, TypeOK, ClientTypes
    <3>2. /\ UNCHANGED <<subs, op>>
          /\ \A d \in Clients \ {c} :
               pc'[d] = pc[d] /\ sub'[d] = sub[d] /\ chan'[d] = chan[d]
      BY <2>9 DEF Release, Typed, TypeOK, ClientTypes
    <3> QED
      BY <2>1, <3>1, <3>2
  <2> QED
    BY <1>4, <2>2, <2>3, <2>4, <2>5, <2>6, <2>7, <2>8, <2>9 DEF ClientNext, HandlerStep
<1> QED
  BY <1>2, <1>3, <1>4 DEF Next

\* An allocation, whoever asks for it, leaves the other objects and names
\* alone and seeds a new object from the clock.
LEMMA EnsureRoomFrame ==
  ASSUME Typed, NEW rm \in Rooms, NEW o \in RoomObjs, EnsureRoom(rm, o)
  PROVE  /\ \A x \in RoomObjs : owner[x] # NoRoom => seq'[x] = seq[x] /\ owner'[x] = owner[x]
         /\ \A x \in RoomObjs : owner'[x] = NoRoom => owner[x] = NoRoom
         /\ \A x \in Rooms :
              \/ table'[x] = table[x] /\ (table[x] # NoObj => seq'[table[x]] = seq[table[x]])
              \/ /\ table[x] = NoObj /\ table'[x] \in RoomObjs
                 /\ owner[table'[x]] = NoRoom /\ seq'[table'[x]] = now
<1> USE HubAssumption DEF Typed, TypeOK, HubTypes, Ownership
<1>1. CASE table[rm] = o /\ UNCHANGED <<table, owner, seq>>
  BY <1>1
<1>2. CASE /\ table[rm] = NoObj
           /\ owner[o] = NoRoom
           /\ table' = [table EXCEPT ![rm] = o]
           /\ owner' = [owner EXCEPT ![o] = rm]
           /\ seq' = [seq EXCEPT ![o] = InitialSeq]
  <2>1. \A x \in RoomObjs \ {o} : owner'[x] = owner[x] /\ seq'[x] = seq[x]
    BY <1>2
  <2>2. owner'[o] = rm /\ seq'[o] = now
    BY <1>2 DEF InitialSeq
  <2>3. /\ table'[rm] = o
        /\ \A x \in Rooms \ {rm} : table'[x] = table[x]
        /\ \A x \in Rooms : table[x] # NoObj => table[x] \in RoomObjs \ {o}
    BY <1>2
  <2> QED
    BY <1>2, <2>1, <2>2, <2>3
<1> QED
  BY <1>1, <1>2 DEF EnsureRoom

LEMMA TimingEnsure ==
  ASSUME Typed, Timing, NEW rm \in Rooms, NEW o \in RoomObjs, EnsureRoom(rm, o),
         UNCHANGED <<now, lastPublish, gcPc, gcCutoff>>
  PROVE  /\ \A x \in RoomObjs : owner'[x] = NoRoom => lastPublish'[x] = Never
         /\ \A x \in Rooms : table'[x] # NoObj =>
              IF lastPublish'[table'[x]] = Never
              THEN seq'[table'[x]] <= now'
              ELSE seq'[table'[x]] <= lastPublish'[table'[x]] + MaxDelay + Burst
<1>1. \A x \in RoomObjs : owner'[x] = NoRoom => lastPublish'[x] = Never
  BY EnsureRoomFrame DEF Timing
<1>2. ASSUME NEW x \in Rooms, table'[x] # NoObj
      PROVE  IF lastPublish'[table'[x]] = Never
             THEN seq'[table'[x]] <= now'
             ELSE seq'[table'[x]] <= lastPublish'[table'[x]] + MaxDelay + Burst
  <2>1. CASE table'[x] = table[x] /\ seq'[table[x]] = seq[table[x]]
    BY <1>2, <2>1 DEF Timing
  <2>2. CASE /\ table[x] = NoObj /\ table'[x] \in RoomObjs
             /\ owner[table'[x]] = NoRoom /\ seq'[table'[x]] = now
    <3>1. lastPublish[table'[x]] = Never
      BY <2>2 DEF Timing
    <3>2. now \in Nat
      BY DEF Typed, TypeOK, HubTypes
    <3> QED
      BY <2>2, <3>1, <3>2
  <2> QED
    BY <1>2, <2>1, <2>2, EnsureRoomFrame
<1> QED
  BY <1>1, <1>2

LEMMA TimingStep ==
  ASSUME Typed, Timing, [Next]_vars
  PROVE  Timing'
<1> USE HubAssumption DEF hubVars, objVars, pubVars, gcVars, clientVars, histVars
<1>1. ASSUME UNCHANGED <<now, table, owner, seq, lastPublish, pubPc, pubTs, gcPc, gcCutoff>>
      PROVE  Timing'
  BY <1>1 DEF Timing
<1>2. CASE Tick
  <2>1. now \in Nat /\ now' = now + 1 /\ pubTs \in [Publishers -> Nat]
    BY <1>2 DEF Tick, Typed, TypeOK, HubTypes, PublisherTypes
  <2>2. \A p \in Publishers : pubPc'[p] # "idle" =>
          pubTs'[p] <= now' /\ now' <= pubTs'[p] + MaxDelay
    BY <1>2, <2>1 DEF Tick, Timing
  <2>3. gcPc' = "sweep" => gcCutoff' <= now' - 2 * TTL
    BY <1>2, <2>1 DEF Tick, Timing, Typed, TypeOK, GCTypes
  <2>4. \A rm \in Rooms : table[rm] # NoObj => seq[table[rm]] \in Nat
    BY DEF Typed, TypeOK, HubTypes
  <2>5. \A rm \in Rooms : table'[rm] # NoObj =>
          IF lastPublish'[table'[rm]] = Never
          THEN seq'[table'[rm]] <= now'
          ELSE seq'[table'[rm]] <= lastPublish'[table'[rm]] + MaxDelay + Burst
    BY <1>2, <2>1, <2>4 DEF Tick, Timing
  <2> QED
    BY <1>2, <2>2, <2>3, <2>5 DEF Tick, Timing
<1>3. ASSUME NEW found \in SUBSET Rooms, GCScan(found)
      PROVE  Timing'
  BY <1>3 DEF GCScan, Timing, Typed, TypeOK, HubTypes
<1>4. CASE GCSweep
  BY <1>4 DEF GCSweep, Timing
<1>5. ASSUME NEW p \in Publishers, PublisherNext(p)
      PROVE  Timing'
  <2>1. ASSUME NEW sender, NEW rooms, StartPublish(p, sender, rooms)
        PROVE  Timing'
    <3>1. \A q \in Publishers : pubPc'[q] # "idle" =>
            pubTs'[q] <= now' /\ now' <= pubTs'[q] + MaxDelay
      <4>1. now \in Nat /\ now' = now /\ pubTs' = [pubTs EXCEPT ![p] = now]
        BY <2>1 DEF StartPublish, Typed, TypeOK, HubTypes
      <4> QED
        BY <2>1, <4>1 DEF StartPublish, Timing, Typed, TypeOK, PublisherTypes
    <3> QED
      BY <2>1, <3>1 DEF StartPublish, Timing
  <2>2. ASSUME NEW rm \in Rooms, NEW o \in RoomObjs, PublishEnsureRoom(p, rm, o)
        PROVE  Timing'
    <3>1. /\ EnsureRoom(rm, o) /\ UNCHANGED <<now, lastPublish, gcPc, gcCutoff>>
      BY <2>2 DEF PublishEnsureRoom
    <3>2. \A q \in Publishers : pubPc'[q] # "idle" =>
            pubTs'[q] <= now' /\ now' <= pubTs'[q] + MaxDelay
      BY <2>2 DEF PublishEnsureRoom, Timing, Typed, TypeOK, PublisherTypes
    <3> QED
      BY <3>1, <3>2, TimingEnsure DEF Timing
  <2>3. CASE PublishLocked(p)
    <3> DEFINE o == pubObj[p]
    <3>1. /\ o \in RoomObjs /\ owner[o] \in Rooms /\ seq[o] \in Nat
          /\ pubTs[p] \in Nat /\ now \in Nat /\ pubTs[p] # Never
      <4>1. o \in RoomObjs /\ owner[o] \in Rooms
        BY <2>3 DEF PublishLocked, Typed, Ownership
      <4>2. seq[o] \in Nat /\ pubTs[p] \in Nat /\ now \in Nat
        BY <4>1 DEF Typed, TypeOK, HubTypes, PublisherTypes
      <4> QED
        BY <4>1, <4>2 DEF Never
    <3>2. /\ pubTs[p] <= now /\ now <= pubTs[p] + MaxDelay
          /\ seq[o] + 1 <= now + Burst
      BY <2>3 DEF PublishLocked, Timing
    <3>3. /\ UNCHANGED <<now, table, owner, gcPc, gcCutoff>>
          /\ seq' = [seq EXCEPT ![o] = @ + 1]
          /\ lastPublish' = [lastPublish EXCEPT ![o] = pubTs[p]]
      BY <2>3 DEF PublishLocked
    <3>4. /\ seq'[o] = seq[o] + 1 /\ lastPublish'[o] = pubTs[p]
          /\ \A x \in RoomObjs \ {o} : seq'[x] = seq[x] /\ lastPublish'[x] = lastPublish[x]
      BY <3>1, <3>3 DEF Typed, TypeOK, HubTypes
    <3>5. \A q \in Publishers : pubPc'[q] # "idle" =>
            pubTs'[q] <= now' /\ now' <= pubTs'[q] + MaxDelay
      BY <2>3 DEF PublishLocked, Timing, Typed, TypeOK, PublisherTypes
    <3>6. \A x \in RoomObjs : owner'[x] = NoRoom => lastPublish'[x] = Never
      BY <3>1, <3>3, <3>4 DEF Timing
    <3>7. seq'[o] <= lastPublish'[o] + MaxDelay + Burst /\ lastPublish'[o] # Never
      BY <3>1, <3>2, <3>4
    <3> HIDE DEF o
    <3>8. ASSUME NEW rm \in Rooms, table'[rm] # NoObj
          PROVE  IF lastPublish'[table'[rm]] = Never
                 THEN seq'[table'[rm]] <= now'
                 ELSE seq'[table'[rm]] <= lastPublish'[table'[rm]] + MaxDelay + Burst
      <4>1. CASE table[rm] = o
        BY <3>3, <3>7, <4>1
      <4>2. CASE table[rm] # o
        <5>1. table[rm] \in RoomObjs \ {o} /\ table'[rm] = table[rm]
          BY <3>3, <3>8, <4>2 DEF Typed, TypeOK, HubTypes
        <5> QED
          BY <3>3, <3>4, <3>8, <5>1 DEF Timing
      <4> QED
        BY <4>1, <4>2
    <3> QED
      BY <3>3, <3>5, <3>6, <3>8 DEF Timing
  <2> QED
    BY <1>5, <2>1, <2>2, <2>3 DEF PublisherNext, Send, Broadcast
<1>6. ASSUME NEW c \in Clients, ClientNext(c)
      PROVE  Timing'
  <2>1. CASE \E o \in RoomObjs : SubscribeEnsureRoom(c, o)
    <3>1. PICK o \in RoomObjs : SubscribeEnsureRoom(c, o)
      BY <2>1
    <3>2. /\ EnsureRoom(RoomOf[c], o) /\ RoomOf[c] \in Rooms
          /\ UNCHANGED <<now, lastPublish, pubPc, pubTs, gcPc, gcCutoff>>
      BY <3>1 DEF SubscribeEnsureRoom
    <3> QED
      BY <3>2, TimingEnsure DEF Timing
  <2>2. CASE ~ \E o \in RoomObjs : SubscribeEnsureRoom(c, o)
    BY <1>1, <1>6, <2>2 DEF ClientNext, HandlerStep, Join, Poll, Subscribe, Request,
       Register, Count, Lookup, ReadSeq, ReadMessages, Receive, Disconnect, Release
  <2> QED
    BY <2>1, <2>2
<1>7. CASE UNCHANGED vars
  BY <1>1, <1>7 DEF vars
<1> QED
  BY <1>2, <1>3, <1>4, <1>5, <1>6, <1>7 DEF Next, GCNext

\* A client that reads its room reads from the room's current object, unless
\* it strays; what it reads is not beyond that object's counter.
LEMMA CursorsStep ==
  ASSUME CursorInv, [Next]_vars
  PROVE  Cursors'
<1> USE HubAssumption DEF CursorInv, Current, hubVars, objVars, pubVars, gcVars,
        clientVars, histVars
<1>1. ASSUME UNCHANGED <<now, table, seq, pc, op, sub, chan, lastSeq, strayed>>
      PROVE  Cursors'
  BY <1>1 DEF Cursors, Subscribed, Streaming
<1>2. CASE Tick
  <2>1. now \in Nat /\ now' = now + 1 /\ lastSeq \in [Clients -> Nat]
    BY <1>2 DEF Tick, Typed, TypeOK, HubTypes, ClientTypes
  <2> QED
    BY <1>2, <2>1 DEF Tick, Cursors, Subscribed, Streaming
<1>3. ASSUME NEW found \in SUBSET Rooms, GCScan(found)
      PROVE  Cursors'
  BY <1>1, <1>3 DEF GCScan
<1>4. CASE GCSweep
  <2>1. /\ UNCHANGED <<now, seq, pc, op, sub, chan, lastSeq, strayed>>
        /\ \A rm \in Rooms :
             \/ table'[rm] = table[rm]
             \/ /\ table'[rm] = NoObj /\ table[rm] # NoObj
                /\ Idle(table[rm], gcCutoff) /\ gcPc = "sweep"
    BY <1>4 DEF GCSweep
  <2>2. ASSUME NEW rm \in Rooms, table'[rm] # table[rm]
        PROVE  /\ table[rm] \in RoomObjs /\ subs[table[rm]] = {}
               /\ seq[table[rm]] <= now
    <3>1. /\ table[rm] \in RoomObjs /\ subs[table[rm]] = {}
          /\ lastPublish[table[rm]] < gcCutoff /\ gcCutoff <= now - 2 * TTL
      BY <2>1, <2>2 DEF Idle, Timing, Typed, TypeOK, HubTypes
    <3>2. IF lastPublish[table[rm]] = Never
          THEN seq[table[rm]] <= now
          ELSE seq[table[rm]] <= lastPublish[table[rm]] + MaxDelay + Burst
      BY <2>1, <2>2 DEF Timing
    <3>3. /\ now \in Nat /\ gcCutoff \in Int /\ seq[table[rm]] \in Nat
          /\ lastPublish[table[rm]] \in Nat \cup {Never}
      BY <3>1 DEF Typed, TypeOK, HubTypes, GCTypes
    <3> QED
      BY <3>1, <3>2, <3>3
  <2>3. ASSUME NEW c \in Clients \ strayed, Subscribed(c)
        PROVE  sub[c] = table'[RoomOf[c]]
    <3>1. sub[c] = table[RoomOf[c]] /\ RoomOf[c] \in Rooms
      BY <2>3 DEF Cursors
    <3>2. sub[c] \in RoomObjs
      BY <2>3 DEF Typed, Ownership, Subscribed, Registered, Streaming
    <3>3. c \in subs[sub[c]]
      BY <2>3, <3>2 DEF Registration
    <3> QED
      BY <2>2, <3>1, <3>3
  <2>4. ASSUME NEW c \in Clients \ strayed
        PROVE  IF table'[RoomOf[c]] = NoObj THEN lastSeq[c] <= now
               ELSE lastSeq[c] <= seq[table'[RoomOf[c]]]
    <3>1. /\ RoomOf[c] \in Rooms /\ lastSeq[c] \in Nat /\ now \in Nat
          /\ IF table[RoomOf[c]] = NoObj THEN lastSeq[c] <= now
             ELSE lastSeq[c] <= seq[table[RoomOf[c]]]
      BY DEF Cursors, Typed, TypeOK, HubTypes, ClientTypes
    <3>2. CASE table'[RoomOf[c]] = table[RoomOf[c]]
      BY <3>1, <3>2
    <3>3. CASE table'[RoomOf[c]] # table[RoomOf[c]]
      <4>1. /\ table[RoomOf[c]] \in RoomObjs /\ seq[table[RoomOf[c]]] <= now
            /\ table[RoomOf[c]] # NoObj /\ table'[RoomOf[c]] = NoObj
        BY <2>1, <2>2, <3>1, <3>3
      <4>2. seq[table[RoomOf[c]]] \in Nat
        BY <4>1 DEF Typed, TypeOK, HubTypes
      <4> QED
        BY <3>1, <4>1, <4>2
    <3> QED
      BY <3>2, <3>3
  <2> QED
    BY <2>1, <2>3, <2>4 DEF Cursors, Subscribed, Streaming
<1>5. ASSUME NEW rm \in Rooms, NEW o \in RoomObjs, EnsureRoom(rm, o),
             UNCHANGED <<now, chan, lastSeq, strayed>>,
             \A c \in Clients : /\ Subscribed(c)' <=> Subscribed(c)
                                /\ Subscribed(c) => sub'[c] = sub[c]
                                /\ Streaming(c) => sub'[c] = sub[c]
                                /\ chan[c] # <<>> => Streaming(c)
      PROVE  Cursors'
  <2>1. ASSUME NEW c \in Clients \ strayed, Subscribed(c)
        PROVE  sub[c] = table'[RoomOf[c]]
    <3>1. sub[c] = table[RoomOf[c]] /\ RoomOf[c] \in Rooms
      BY <2>1 DEF Cursors
    <3>2. sub[c] # NoObj
      BY <2>1 DEF Typed, Ownership, Subscribed, Registered, Streaming
    <3> QED
      BY <1>5, <3>1, <3>2, EnsureRoomFrame
  <2>2. ASSUME NEW c \in Clients, NEW i \in DOMAIN chan[c]
        PROVE  chan[c][i].seq <= seq'[sub'[c]]
    <3>1. Streaming(c)
      BY <1>5, <2>2
    <3>2. sub[c] \in RoomObjs /\ owner[sub[c]] # NoRoom /\ chan[c][i].seq <= seq[sub[c]]
      BY <2>2, <3>1 DEF Cursors, Typed, Ownership
    <3> QED
      BY <1>5, <3>1, <3>2, EnsureRoomFrame
  <2>3. ASSUME NEW c \in Clients \ strayed
        PROVE  IF table'[RoomOf[c]] = NoObj THEN lastSeq[c] <= now
               ELSE lastSeq[c] <= seq'[table'[RoomOf[c]]]
    <3>1. /\ RoomOf[c] \in Rooms
          /\ IF table[RoomOf[c]] = NoObj THEN lastSeq[c] <= now
             ELSE lastSeq[c] <= seq[table[RoomOf[c]]]
      BY DEF Cursors
    <3>2. CASE /\ table'[RoomOf[c]] = table[RoomOf[c]]
               /\ table[RoomOf[c]] # NoObj => seq'[table[RoomOf[c]]] = seq[table[RoomOf[c]]]
      BY <3>1, <3>2
    <3>3. CASE /\ table[RoomOf[c]] = NoObj /\ table'[RoomOf[c]] \in RoomObjs
               /\ seq'[table'[RoomOf[c]]] = now
      BY <3>1, <3>3
    <3> QED
      BY <1>5, <3>1, <3>2, <3>3, EnsureRoomFrame
  <2> QED
    BY <1>5, <2>1, <2>2, <2>3 DEF Cursors
<1>6. ASSUME NEW p \in Publishers, PublisherNext(p)
      PROVE  Cursors'
  <2>1. CASE (\E rm \in Rooms : Send(p, rm)) \/ Broadcast(p)
    BY <1>1, <2>1 DEF Send, Broadcast, StartPublish
  <2>2. CASE \E rm \in Rooms, o \in RoomObjs : PublishEnsureRoom(p, rm, o)
    <3>1. PICK rm \in Rooms, o \in RoomObjs : PublishEnsureRoom(p, rm, o)
      BY <2>2
    <3>2. EnsureRoom(rm, o) /\ UNCHANGED <<now, chan, lastSeq, strayed, pc, op, sub>>
      BY <3>1 DEF PublishEnsureRoom
    <3>3. \A c \in Clients : /\ Subscribed(c)' <=> Subscribed(c)
                             /\ chan[c] # <<>> => Streaming(c)
      BY <3>2 DEF Subscribed, Registration
    <3> QED
      BY <1>5, <3>2, <3>3
  <2>3. CASE PublishLocked(p)
    <3> DEFINE o == pubObj[p]
               m == [room |-> owner[o], seq |-> seq[o] + 1,
                     sender |-> pubSender[p], ts |-> pubTs[p]]
    <3>1. /\ UNCHANGED <<now, table, pc, op, sub, lastSeq, strayed>>
          /\ seq' = [seq EXCEPT ![o] = @ + 1]
      BY <2>3 DEF PublishLocked
    <3>2. /\ o \in RoomObjs /\ seq[o] \in Nat /\ m \in Message /\ m.seq = seq[o] + 1
          /\ \A c \in Clients :
               \/ chan'[c] = chan[c]
               \/ Streaming(c) /\ sub[c] = o /\ chan'[c] = Append(chan[c], m)
      BY <2>3, FanOutReaches DEF Typed, TypeOK, HubTypes
    <3> HIDE DEF m
    <3>3. /\ seq'[o] = seq[o] + 1
          /\ \A x \in RoomObjs : seq[x] \in Nat /\ seq'[x] \in Nat /\ seq[x] <= seq'[x]
      <4>1. seq \in [RoomObjs -> Nat]
        BY DEF Typed, TypeOK, HubTypes
      <4>2. /\ seq'[o] = seq[o] + 1
            /\ \A x \in RoomObjs \ {o} : seq'[x] = seq[x]
        BY <3>1, <3>2, <4>1
      <4> QED
        BY <3>2, <4>1, <4>2
    <3> HIDE DEF o
    <3>4. ASSUME NEW c \in Clients, Streaming(c), NEW i \in DOMAIN chan'[c]
          PROVE  chan'[c][i].seq <= seq'[sub[c]]
      <4>1. /\ sub[c] \in RoomObjs /\ chan[c] \in Seq(Message)
            /\ \A k \in DOMAIN chan[c] : chan[c][k].seq <= seq[sub[c]]
        BY <3>4 DEF Cursors, Typed, TypeOK, Ownership, ClientTypes
      <4>2. ASSUME NEW k \in 1..Len(chan[c])
            PROVE  chan[c][k].seq \in Nat /\ chan[c][k].seq <= seq'[sub[c]]
        <5>1. chan[c][k].seq \in Nat /\ chan[c][k].seq <= seq[sub[c]]
          BY <4>1, MessageFields
        <5>2. seq[sub[c]] \in Nat /\ seq'[sub[c]] \in Nat /\ seq[sub[c]] <= seq'[sub[c]]
          BY <3>3, <4>1
        <5> DEFINE cut == chan[c][k].seq
                   old == seq[sub[c]]
                   new == seq'[sub[c]]
        <5>3. cut \in Nat /\ old \in Nat /\ new \in Nat /\ cut <= old /\ old <= new
          BY <5>1, <5>2
        <5> HIDE DEF cut, old, new
        <5>4. cut \in Nat /\ cut <= new
          BY <5>3
        <5> QED
          BY <5>4 DEF cut, new
      <4>3. CASE chan'[c] = chan[c]
        BY <4>1, <4>2, <4>3, <3>4
      <4>4. CASE sub[c] = o /\ chan'[c] = Append(chan[c], m)
        <5>1. /\ Len(chan'[c]) = Len(chan[c]) + 1 /\ DOMAIN chan'[c] = 1..(Len(chan[c]) + 1)
              /\ \A k \in 1..Len(chan[c]) : chan'[c][k] = chan[c][k]
              /\ chan'[c][Len(chan[c]) + 1] = m
          BY <3>2, <4>1, <4>4, AppendProperties
        <5>2. CASE i \in 1..Len(chan[c])
          BY <4>2, <5>1, <5>2
        <5>3. CASE i = Len(chan[c]) + 1
          BY <3>2, <3>3, <4>4, <5>1, <5>3
        <5> QED
          BY <3>4, <4>1, <5>1, <5>2, <5>3
      <4> QED
        BY <3>2, <4>3, <4>4
    <3>5. ASSUME NEW c \in Clients \ strayed
          PROVE  IF table[RoomOf[c]] = NoObj THEN lastSeq[c] <= now
                 ELSE lastSeq[c] <= seq'[table[RoomOf[c]]]
      <4>1. /\ table[RoomOf[c]] \in RoomObjs \cup {NoObj} /\ lastSeq[c] \in Nat
            /\ IF table[RoomOf[c]] = NoObj THEN lastSeq[c] <= now
               ELSE lastSeq[c] <= seq[table[RoomOf[c]]]
        BY DEF Cursors, Typed, TypeOK, HubTypes, ClientTypes
      <4> QED
        BY <3>3, <4>1
    <3> QED
      BY <3>1, <3>4, <3>5 DEF Cursors, Subscribed, Streaming
  <2> QED
    BY <1>6, <2>1, <2>2, <2>3 DEF PublisherNext
<1>7. CASE UNCHANGED vars
  BY <1>1, <1>7 DEF vars
<1>8. ASSUME NEW c \in Clients, ClientNext(c)
      PROVE  Cursors'
  <2> USE DEF Request, Goto
  \* The other clients, and the channels, are as they were.
  <2>1. ASSUME UNCHANGED <<now, table, seq>>,
               \A d \in Clients \ {c} :
                 /\ pc'[d] = pc[d] /\ op'[d] = op[d] /\ sub'[d] = sub[d]
                 /\ chan'[d] = chan[d] /\ lastSeq'[d] = lastSeq[d]
                 /\ d \in strayed' <=> d \in strayed,
               Subscribed(c)' /\ c \notin strayed' => sub'[c] = Current(c),
               \A i \in DOMAIN chan'[c] : Streaming(c)' => chan'[c][i].seq <= seq[sub'[c]],
               c \notin strayed' =>
                 IF Current(c) = NoObj THEN lastSeq'[c] <= now
                 ELSE lastSeq'[c] <= seq[Current(c)]
        PROVE  Cursors'
    <3>1. ASSUME NEW d \in Clients \ strayed', Subscribed(d)'
          PROVE  sub'[d] = Current(d)'
      BY <2>1, <3>1 DEF Cursors, Subscribed
    <3>2. ASSUME NEW d \in Clients, Streaming(d)', NEW i \in DOMAIN chan'[d]
          PROVE  chan'[d][i].seq <= seq'[sub'[d]]
      BY <2>1, <3>2 DEF Cursors, Streaming
    <3>3. ASSUME NEW d \in Clients \ strayed'
          PROVE  IF Current(d)' = NoObj THEN lastSeq'[d] <= now'
                 ELSE lastSeq'[d] <= seq'[Current(d)']
      BY <2>1, <3>3 DEF Cursors
    <3> QED
      BY <3>1, <3>2, <3>3 DEF Cursors
  \* Steps that touch neither the cursor nor the channel's contents.
  <2>2. ASSUME UNCHANGED <<now, table, seq, lastSeq>>,
               \A d \in Clients \ {c} :
                 /\ pc'[d] = pc[d] /\ op'[d] = op[d] /\ sub'[d] = sub[d]
                 /\ chan'[d] = chan[d]
                 /\ d \in strayed' <=> d \in strayed,
               c \in strayed => c \in strayed',
               Subscribed(c)' /\ c \notin strayed' => sub'[c] = Current(c),
               chan'[c] = <<>> \/ (chan'[c] = chan[c] /\ sub'[c] = sub[c])
        PROVE  Cursors'
    <3>1. \A i \in DOMAIN chan'[c] : Streaming(c)' => chan'[c][i].seq <= seq[sub'[c]]
      <4>1. CASE chan'[c] = <<>>
        BY <4>1
      <4>2. CASE chan[c] # <<>> /\ chan'[c] = chan[c] /\ sub'[c] = sub[c]
        BY <4>2 DEF Registration, Cursors
      <4> QED
        BY <2>2, <4>1, <4>2
    <3>2. c \notin strayed' =>
            IF Current(c) = NoObj THEN lastSeq'[c] <= now
            ELSE lastSeq'[c] <= seq[Current(c)]
      BY <2>2 DEF Cursors
    <3>3. \A d \in Clients \ {c} :
            /\ pc'[d] = pc[d] /\ op'[d] = op[d] /\ sub'[d] = sub[d]
            /\ chan'[d] = chan[d] /\ lastSeq'[d] = lastSeq[d]
            /\ d \in strayed' <=> d \in strayed
      BY <2>2
    <3> QED
      BY <2>1, <2>2, <3>1, <3>2, <3>3
  <2>3. CASE Join(c) \/ Poll(c) \/ Subscribe(c)
    <3>1. /\ UNCHANGED <<now, table, seq, lastSeq, sub, chan, strayed>>
          /\ \A d \in Clients \ {c} : pc'[d] = pc[d] /\ op'[d] = op[d]
      BY <2>3 DEF Join, Poll, Subscribe, Typed, TypeOK, ClientTypes
    <3>2. ~Subscribed(c)'
      BY <2>3 DEF Join, Poll, Subscribe, Subscribed, Registered, Typed, TypeOK, ClientTypes
    <3> QED
      BY <2>2, <3>1, <3>2
  <2>4. CASE \E o \in RoomObjs : SubscribeEnsureRoom(c, o)
    <3>1. PICK o \in RoomObjs : SubscribeEnsureRoom(c, o)
      BY <2>4
    <3>2. /\ EnsureRoom(RoomOf[c], o) /\ RoomOf[c] \in Rooms
          /\ UNCHANGED <<now, chan, lastSeq, strayed, op>>
          /\ \A d \in Clients \ {c} : pc'[d] = pc[d] /\ sub'[d] = sub[d]
      BY <3>1 DEF SubscribeEnsureRoom, Typed, TypeOK, ClientTypes
    <3>3. ~Subscribed(c) /\ ~Subscribed(c)' /\ ~Streaming(c)
      BY <3>1 DEF SubscribeEnsureRoom, Subscribed, Registered, Streaming, Typed,
         TypeOK, ClientTypes
    <3>4. \A d \in Clients : /\ Subscribed(d)' <=> Subscribed(d)
                             /\ Subscribed(d) => sub'[d] = sub[d]
                             /\ Streaming(d) => sub'[d] = sub[d]
                             /\ chan[d] # <<>> => Streaming(d)
      <4>1. \A d \in Clients : chan[d] # <<>> => Streaming(d)
        BY DEF Registration
      <4>2. \A d \in Clients \ {c} : Subscribed(d)' <=> Subscribed(d)
        BY <3>2 DEF Subscribed
      <4> QED
        BY <3>2, <3>3, <4>1, <4>2
    <3> QED
      BY <1>5, <3>2, <3>4
  <2>5. CASE Register(c)
    <3>1. /\ UNCHANGED <<now, table, seq, lastSeq, op, sub, chan>>
          /\ \A d \in Clients \ {c} : pc'[d] = pc[d]
          /\ strayed' = IF table[RoomOf[c]] # sub[c] THEN strayed \cup {c} ELSE strayed
      BY <2>5 DEF Register, Typed, TypeOK, ClientTypes
    <3> QED
      BY <2>2, <3>1
  <2>6. CASE Count(c) \/ Lookup(c) \/ Disconnect(c)
    <3>1. /\ UNCHANGED <<now, table, seq, lastSeq, op, sub, chan, strayed>>
          /\ \A d \in Clients \ {c} : pc'[d] = pc[d]
      BY <2>6 DEF Count, Lookup, Disconnect, Typed, TypeOK, ClientTypes
    <3>2. Subscribed(c)' => Subscribed(c)
      BY <2>6 DEF Count, Lookup, Disconnect, Subscribed, Registered, Typed, TypeOK,
         ClientTypes
    <3> QED
      BY <2>2, <3>1, <3>2 DEF Cursors
  <2>7. CASE Release(c)
    <3>1. /\ UNCHANGED <<now, table, seq, lastSeq, op, strayed>> /\ chan'[c] = <<>>
          /\ \A d \in Clients \ {c} :
               pc'[d] = pc[d] /\ sub'[d] = sub[d] /\ chan'[d] = chan[d]
      BY <2>7 DEF Release, Typed, TypeOK, ClientTypes
    <3>2. ~Subscribed(c)'
      BY <2>7 DEF Release, Subscribed, Registered, Typed, TypeOK, ClientTypes
    <3> QED
      BY <2>2, <3>1, <3>2
  <2>8. CASE ReadSeq(c)
    <3> DEFINE s == SeqOf(ptr[c])
    <3>1. /\ UNCHANGED <<now, table, seq, op, sub, chan>> /\ lastSeq'[c] = s
          /\ op[c] = "join" /\ pc[c] = "read" /\ pc'[c] = "idle"
          /\ \A d \in Clients \ {c} : pc'[d] = pc[d] /\ lastSeq'[d] = lastSeq[d]
          /\ strayed' = IF Stale(c) THEN strayed \cup {c} ELSE strayed \ {c}
      BY <2>8 DEF ReadSeq, Typed, TypeOK, ClientTypes
    <3>2. ~Subscribed(c)' /\ ~Streaming(c)
      BY <3>1 DEF Subscribed, Registered, Streaming
    <3>3. c \notin strayed' =>
            IF Current(c) = NoObj THEN lastSeq'[c] <= now
            ELSE lastSeq'[c] <= seq[Current(c)]
      <4>1. CASE ptr[c] = NoObj
        <5>1. lastSeq'[c] = 0 /\ now \in Nat /\ seq \in [RoomObjs -> Nat]
              /\ table[RoomOf[c]] \in RoomObjs \cup {NoObj}
          BY <3>1, <4>1 DEF SeqOf, Typed, TypeOK, HubTypes
        <5> QED
          BY <5>1
      <4>2. CASE ptr[c] # NoObj /\ ~Stale(c)
        <5>1. ptr[c] = Current(c) /\ lastSeq'[c] = seq[ptr[c]] /\ seq[ptr[c]] \in Nat
          BY <3>1, <4>2 DEF Stale, SeqOf, Typed, TypeOK, HubTypes, ClientTypes
        <5> QED
          BY <4>2, <5>1
      <4>3. CASE Stale(c)
        BY <3>1, <4>3
      <4> QED
        BY <4>1, <4>2, <4>3
    <3>4. chan[c] = <<>>
      BY <3>2 DEF Registration
    <3>5. \A d \in Clients \ {c} : d \in strayed' <=> d \in strayed
      BY <3>1
    <3> QED
      BY <2>1, <3>1, <3>2, <3>3, <3>4, <3>5
  <2>9. CASE ReadMessages(c)
    <3> DEFINE buf == IF ptr[c] = NoObj THEN <<>> ELSE messages[ptr[c]]
    <3>1. PICK n \in SearchIndex(Len(buf), LAMBDA j : After(buf[j], lastSeq[c])) :
            lastSeq' = [lastSeq EXCEPT ![c] =
              IF Drop(buf, n) = <<>> THEN @ ELSE Drop(buf, n)[Len(Drop(buf, n))].seq]
      BY <2>9 DEF ReadMessages
    <3>2. /\ UNCHANGED <<now, table, seq, op, sub, chan>> /\ pc[c] = "read"
          /\ op[c] # "join"
          /\ pc' = [pc EXCEPT ![c] = IF op[c] = "stream" THEN "live" ELSE "idle"]
          /\ strayed' = IF Stale(c) THEN strayed \cup {c} ELSE strayed
      BY <2>9 DEF ReadMessages
    <3>3. \A d \in Clients \ {c} :
            /\ pc'[d] = pc[d] /\ lastSeq'[d] = lastSeq[d]
            /\ d \in strayed' <=> d \in strayed
      BY <3>1, <3>2 DEF Typed, TypeOK, ClientTypes
    <3>4. Subscribed(c)' => Subscribed(c)
      BY <3>2 DEF Subscribed, Registered, Typed, TypeOK, ClientTypes
    <3>5. \A i \in DOMAIN chan[c] : chan[c][i].seq <= seq[sub[c]]
      BY DEF Registration, Cursors
    <3>6. buf \in Seq(Message) /\ n \in 0..Len(buf)
      BY <3>1 DEF SearchIndex, Typed, TypeOK, HubTypes, ClientTypes
    <3>7. lastSeq'[c] = IF Drop(buf, n) = <<>> THEN lastSeq[c]
                        ELSE Drop(buf, n)[Len(Drop(buf, n))].seq
      BY <3>1 DEF Typed, TypeOK, ClientTypes
    <3>8. CASE lastSeq'[c] = lastSeq[c]
      <4>1. c \notin strayed' =>
              IF Current(c) = NoObj THEN lastSeq'[c] <= now
              ELSE lastSeq'[c] <= seq[Current(c)]
        BY <3>2, <3>8 DEF Cursors
      <4> QED
        BY <2>1, <3>2, <3>3, <3>4, <3>5, <4>1 DEF Cursors
    <3>9. CASE lastSeq'[c] # lastSeq[c]
      <4> DEFINE batch == Drop(buf, n)
      <4>1. batch # <<>> /\ lastSeq'[c] = batch[Len(batch)].seq
        BY <3>7, <3>9
      <4> HIDE DEF buf
      <4>2. /\ batch \in Seq(Message) /\ Len(batch) = Len(buf) - n
            /\ \A k \in 1..(Len(buf) - n) : batch[k] = buf[k + n]
        BY <3>6, DropType
      <4> HIDE DEF batch
      <4>3. lastSeq'[c] = buf[Len(buf)].seq /\ Len(buf) \in DOMAIN buf
        <5>1. /\ Len(batch) \in Nat /\ Len(batch) # 0 /\ Len(batch) = Len(buf) - n
              /\ Len(buf) \in Nat /\ n \in Nat /\ DOMAIN buf = 1..Len(buf)
          BY <3>6, <4>1, <4>2
        <5>2. /\ Len(batch) \in 1..(Len(buf) - n) /\ Len(batch) + n = Len(buf)
              /\ Len(buf) \in 1..Len(buf)
          <6>1. \A k, l, x \in Nat :
                  k # 0 /\ k = l - x => k \in 1..(l - x) /\ k + x = l /\ l \in 1..l
            OBVIOUS
          <6> QED
            BY <5>1, <6>1
        <5>3. batch[Len(batch)] = buf[Len(batch) + n]
          BY <4>2, <5>2
        <5> QED
          BY <4>1, <5>1, <5>2, <5>3
      <4>4. /\ ptr[c] \in RoomObjs /\ ptr[c] # NoObj
            /\ lastSeq'[c] <= seq[ptr[c]]
        <5>1. ptr[c] # NoObj
          BY <3>6, <4>3 DEF buf
        <5>2. ptr[c] \in RoomObjs
          BY <5>1 DEF Typed, TypeOK, ClientTypes
        <5> QED
          BY <4>3, <5>1, <5>2 DEF BuffersAscend, buf
      <4>5. c \notin strayed' =>
              IF Current(c) = NoObj THEN lastSeq'[c] <= now
              ELSE lastSeq'[c] <= seq[Current(c)]
        BY <3>2, <4>4 DEF Stale
      <4> QED
        BY <2>1, <3>2, <3>3, <3>4, <3>5, <4>5 DEF Cursors
    <3> QED
      BY <3>8, <3>9
  <2>10. CASE Receive(c)
    <3> DEFINE s == Head(chan[c]).seq
    <3>1. /\ UNCHANGED <<now, table, seq, pc, op, sub, strayed>>
          /\ pc[c] = "live" /\ chan[c] # <<>> /\ chan' = [chan EXCEPT ![c] = Tail(@)]
          /\ lastSeq'[c] = lastSeq[c] \/ lastSeq'[c] = s
          /\ \A d \in Clients \ {c} : lastSeq'[d] = lastSeq[d]
      BY <2>10 DEF Receive, EventReady, Typed, TypeOK, ClientTypes
    <3>2. /\ Subscribed(c) /\ Streaming(c) /\ chan[c] \in Seq(Message)
      BY <3>1 DEF Subscribed, Registered, Streaming, Typed, Ownership, TypeOK, ClientTypes
    <3>3. \A i \in DOMAIN chan[c] : chan[c][i].seq <= seq[sub[c]]
      BY <3>2 DEF Cursors
    <3>4. /\ s <= seq[sub[c]]
          /\ \A i \in DOMAIN Tail(chan[c]) : Tail(chan[c])[i].seq <= seq[sub[c]]
      <4>1. /\ Head(chan[c]) = chan[c][1] /\ 1 \in DOMAIN chan[c]
            /\ Len(Tail(chan[c])) = Len(chan[c]) - 1
            /\ DOMAIN Tail(chan[c]) = 1..(Len(chan[c]) - 1)
            /\ \A i \in 1..(Len(chan[c]) - 1) :
                 Tail(chan[c])[i] = chan[c][i + 1] /\ i + 1 \in DOMAIN chan[c]
        BY <3>1, <3>2, HeadTailProperties
      <4> QED
        BY <3>3, <4>1
    <3> HIDE DEF s
    <3>5. /\ chan'[c] = Tail(chan[c])
          /\ \A d \in Clients \ {c} : chan'[d] = chan[d]
      BY <3>1 DEF Typed, TypeOK, ClientTypes
    <3>6. c \notin strayed =>
            IF Current(c) = NoObj THEN lastSeq'[c] <= now
            ELSE lastSeq'[c] <= seq[Current(c)]
      <4>1. sub[c] # NoObj
        BY <3>2 DEF Typed, Ownership
      <4> QED
        BY <3>1, <3>2, <3>4, <4>1 DEF Cursors
    <3> QED
      BY <2>1, <3>1, <3>2, <3>4, <3>5, <3>6 DEF Cursors
  <2> QED
    BY <1>8, <2>3, <2>4, <2>5, <2>6, <2>7, <2>8, <2>9, <2>10 DEF ClientNext, HandlerStep
<1> QED
  BY <1>2, <1>3, <1>4, <1>6, <1>7, <1>8 DEF Next, GCNext

\* The cursor a client keeps across /poll, /events, reconnects and the deletion
\* and re-creation of its room never skips a message the room is yet to publish.
THEOREM CursorNeverAhead == Spec => []CursorBehindRoom
<1>1. Init => CursorInv
  <2>1. Init => BuffersAscend /\ Registration
    BY DEF Init, BuffersAscend, Registration, Subscribed, Registered
  <2>2. Init => Timing /\ Cursors
    BY HubAssumption DEF Init, Timing, Cursors, Subscribed, Registered, Current
  <2> QED
    BY <2>1, <2>2, TypedInit DEF CursorInv
<1>2. CursorInv /\ [Next]_vars => CursorInv'
  BY TypedNext, AscendStep, RegistrationStep, TimingStep, CursorsStep DEF CursorInv
<1>3. CursorInv => CursorBehindRoom
  BY DEF CursorInv, Cursors, CursorBehindRoom
<1> QED
  BY <1>1, <1>2, <1>3, PTL DEF Spec

-----------------------------------------------------------------------------
(* The subscription ledger.                                                *)

LedgerInv == Typed /\ Registration /\ totalSubs = Cardinality(Ledger)

LEMMA LedgerStep ==
  ASSUME LedgerInv, [Next]_vars
  PROVE  totalSubs' = Cardinality(Ledger)'
<1> USE DEF LedgerInv, hubVars, objVars, pubVars, gcVars, clientVars, histVars
<1>1. IsFiniteSet(Ledger)
  BY HubAssumption, FS_Subset DEF Ledger
<1>2. ASSUME UNCHANGED totalSubs, \A c \in Clients : Counted(c)' <=> Counted(c)
      PROVE  totalSubs' = Cardinality(Ledger)'
  <2>1. Ledger' = Ledger
    BY <1>2 DEF Ledger
  <2> QED
    BY <1>2, <2>1
<1>3. ASSUME NEW p \in Publishers, PublisherNext(p)
      PROVE  totalSubs' = Cardinality(Ledger)'
  <2>1. UNCHANGED <<totalSubs, pc, op>>
    BY <1>3 DEF PublisherNext, Send, Broadcast, StartPublish, PublishEnsureRoom, PublishLocked
  <2> QED
    BY <1>2, <2>1 DEF Counted
<1>4. CASE Tick \/ GCNext \/ UNCHANGED vars
  <2>1. UNCHANGED <<totalSubs, pc, op>>
    BY <1>4 DEF Tick, GCNext, GCScan, GCSweep, vars
  <2> QED
    BY <1>2, <2>1 DEF Counted
<1>5. ASSUME NEW c \in Clients, ClientNext(c)
      PROVE  totalSubs' = Cardinality(Ledger)'
  <2> USE DEF Request, Goto, Typed, TypeOK, ClientTypes, HubTypes
  <2>1. ASSUME UNCHANGED totalSubs, Counted(c)' <=> Counted(c),
               \A d \in Clients \ {c} : pc'[d] = pc[d] /\ op'[d] = op[d]
        PROVE  totalSubs' = Cardinality(Ledger)'
    <3>1. \A d \in Clients : Counted(d)' <=> Counted(d)
      BY <2>1 DEF Counted
    <3> QED
      BY <1>2, <2>1, <3>1
  <2>2. CASE Join(c) \/ Poll(c) \/ Subscribe(c)
    <3>1. /\ UNCHANGED totalSubs /\ ~Counted(c) /\ ~Counted(c)'
          /\ \A d \in Clients \ {c} : pc'[d] = pc[d] /\ op'[d] = op[d]
      BY <2>2 DEF Join, Poll, Subscribe, Counted
    <3> QED
      BY <2>1, <3>1
  <2>3. CASE (\E o \in RoomObjs : SubscribeEnsureRoom(c, o)) \/ Register(c)
    <3>1. /\ UNCHANGED totalSubs /\ ~Counted(c) /\ ~Counted(c)'
          /\ \A d \in Clients \ {c} : pc'[d] = pc[d] /\ op'[d] = op[d]
      BY <2>3 DEF SubscribeEnsureRoom, Register, Counted
    <3> QED
      BY <2>1, <3>1
  <2>4. CASE Count(c)
    <3>1. op[c] = "stream" /\ pc[c] = "count"
      BY <2>4 DEF Count, Ownership, Streaming
    <3>2. /\ totalSubs' = totalSubs + 1 /\ UNCHANGED op
          /\ pc' = [pc EXCEPT ![c] = "lookup"]
      BY <2>4 DEF Count
    <3>3. /\ ~Counted(c) /\ Counted(c)'
          /\ \A d \in Clients \ {c} : Counted(d)' <=> Counted(d)
      BY <3>1, <3>2 DEF Counted
    <3>4. c \notin Ledger /\ Ledger' = Ledger \cup {c}
      BY <3>3 DEF Ledger
    <3>5. Cardinality(Ledger \cup {c}) = Cardinality(Ledger) + 1
      BY <1>1, <3>4, FS_AddElement
    <3> QED
      BY <3>2, <3>4, <3>5
  <2>5. CASE Lookup(c) \/ ReadSeq(c) \/ ReadMessages(c) \/ Receive(c) \/ Disconnect(c)
    <3>1. /\ UNCHANGED <<totalSubs, op>>
          /\ \A d \in Clients \ {c} : pc'[d] = pc[d]
      BY <2>5 DEF Lookup, ReadSeq, ReadMessages, Receive, Disconnect
    <3>2. Counted(c)' <=> Counted(c)
      BY <2>5 DEF Lookup, ReadSeq, ReadMessages, Receive, Disconnect, Counted
    <3> QED
      BY <2>1, <3>1, <3>2
  <2>6. CASE Release(c)
    <3>1. op[c] = "stream" /\ pc[c] = "release"
      BY <2>6 DEF Release, Ownership, Streaming
    <3>2. /\ totalSubs' = totalSubs - 1 /\ UNCHANGED op
          /\ pc' = [pc EXCEPT ![c] = "idle"]
      BY <2>6 DEF Release
    <3>3. /\ Counted(c) /\ ~Counted(c)'
          /\ \A d \in Clients \ {c} : Counted(d)' <=> Counted(d)
      BY <3>1, <3>2 DEF Counted
    <3>4. c \in Ledger /\ Ledger' = Ledger \ {c}
      BY <3>3 DEF Ledger
    <3>5. Cardinality(Ledger \ {c}) = Cardinality(Ledger) - 1
      BY <1>1, <3>4, FS_RemoveElement
    <3> QED
      BY <3>2, <3>4, <3>5
  <2> QED
    BY <1>5, <2>2, <2>3, <2>4, <2>5, <2>6 DEF ClientNext, HandlerStep
<1> QED
  BY <1>3, <1>4, <1>5 DEF Next

\* The budget counter is the number of open streams and each room's map holds
\* its streams, through every disconnection and every collected room: nothing
\* leaks from the server-wide subscriber budget.
THEOREM LedgerBalanced == Spec => []SubscriptionLedger
<1>1. Init => LedgerInv
  <2>1. Init => Registration
    BY DEF Init, Registration, Subscribed, Registered
  <2>2. Init => Ledger = {} /\ totalSubs = 0
    BY DEF Init, Ledger, Counted
  <2> QED
    BY <2>1, <2>2, TypedInit, FS_EmptySet DEF LedgerInv
<1>2. LedgerInv /\ [Next]_vars => LedgerInv'
  BY TypedNext, RegistrationStep, LedgerStep DEF LedgerInv
<1>3. LedgerInv => SubscriptionLedger
  BY DEF LedgerInv, Registration, SubscriptionLedger
<1> QED
  BY <1>1, <1>2, <1>3, PTL DEF Spec

-----------------------------------------------------------------------------
(* Nothing is lost between the catch-up read and the live stream.  A       *)
(* stream that did not stray is registered with the object it reads, so    *)
(* whatever is published after the read is in its channel or was dropped   *)
(* from it; and a channel ascends, so that an event received out of it     *)
(* passes over nothing that is still in it.                                *)

\* s reached the client, or is known to have missed it.
Accounted(c, s) == (\E k \in DOMAIN delivered[c] : delivered[c][k] = s) \/ s \in missed[c]

\* s is still on its way to the client, or is known to have missed it.
Waiting(c, s) == (\E k \in DOMAIN chan[c] : chan[c][k].seq = s) \/ s \in missed[c]

\* NoSilentGap and LiveComplete of one client.
GapFree(c) ==
  \A i \in DOMAIN log[Current(c)] :
    LET s == log[Current(c)][i].seq
    IN  start[c] < s /\ s <= lastSeq[c] => Accounted(c, s)

NothingBehind(c) ==
  \A i \in DOMAIN log[Current(c)] :
    LET s == log[Current(c)][i].seq
    IN  s > lastSeq[c] => Waiting(c, s)

EmptyUntilOwned == \A o \in RoomObjs : owner[o] = NoRoom => log[o] = <<>>

ChannelsAscend ==
  \A c \in Clients : \A i, j \in DOMAIN chan[c] : i < j => chan[c][i].seq < chan[c][j].seq

StreamsReadARoom ==
  \A c \in Clients \ strayed : op[c] = "stream" /\ pc[c] = "read" => ptr[c] # NoObj

Complete == /\ \A c \in Clients \ strayed : Current(c) # NoObj => GapFree(c)
            /\ \A c \in Clients \ strayed : pc[c] = "live" => NothingBehind(c)

GapInv == /\ CursorInv
          /\ EmptyUntilOwned
          /\ ChannelsAscend
          /\ StreamsReadARoom
          /\ Complete

LEMMA CompleteMeans == Complete <=> NoSilentGap /\ LiveComplete
BY DEF Complete, GapFree, NothingBehind, Accounted, Waiting, NoSilentGap, LiveComplete, Seqs

LEMMA CursorInvNext == CursorInv /\ [Next]_vars => CursorInv'
BY TypedNext, AscendStep, RegistrationStep, TimingStep, CursorsStep DEF CursorInv

\* A live stream that did not stray reads from the object it is registered with.
LEMMA LiveReadsItsOwn ==
  ASSUME Typed, Cursors, NEW c \in Clients \ strayed, pc[c] = "live"
  PROVE  Current(c) = sub[c] /\ Current(c) \in RoomObjs /\ Current(c) # NoObj
<1>1. op[c] = "stream" /\ sub[c] \in RoomObjs
  BY DEF Typed, Ownership, Streaming
<1> QED
  BY <1>1, HubAssumption DEF Cursors, Subscribed, Registered

\* Objects without an owner have published nothing.
LEMMA EmptyStep ==
  ASSUME Typed, EmptyUntilOwned, [Next]_vars
  PROVE  EmptyUntilOwned'
<1> USE DEF hubVars, objVars, pubVars, gcVars, clientVars, histVars
<1>1. ASSUME UNCHANGED <<owner, log>>
      PROVE  EmptyUntilOwned'
  BY <1>1 DEF EmptyUntilOwned
<1>2. ASSUME NEW rm \in Rooms, NEW o \in RoomObjs, EnsureRoom(rm, o), UNCHANGED log
      PROVE  EmptyUntilOwned'
  BY <1>2, EnsureRoomFrame DEF EmptyUntilOwned
<1>3. ASSUME NEW p \in Publishers, PublishLocked(p)
      PROVE  EmptyUntilOwned'
  <2>1. pubObj[p] \in RoomObjs /\ owner[pubObj[p]] # NoRoom
    BY <1>3, HubAssumption DEF PublishLocked, Typed, Ownership
  <2>2. UNCHANGED owner /\ \A o \in RoomObjs : o # pubObj[p] => log'[o] = log[o]
    BY <1>3 DEF PublishLocked, Typed, TypeOK, HistoryTypes
  <2> QED
    BY <2>1, <2>2 DEF EmptyUntilOwned
<1>4. ASSUME NEW p \in Publishers, PublisherNext(p)
      PROVE  EmptyUntilOwned'
  BY <1>1, <1>2, <1>3, <1>4 DEF PublisherNext, Send, Broadcast, StartPublish, PublishEnsureRoom
<1>5. ASSUME NEW c \in Clients, ClientNext(c)
      PROVE  EmptyUntilOwned'
  <2>1. RoomOf[c] \in Rooms
    BY HubAssumption
  <2>2. CASE \E o \in RoomObjs : SubscribeEnsureRoom(c, o)
    BY <1>2, <2>1, <2>2 DEF SubscribeEnsureRoom
  <2>3. CASE ~ \E o \in RoomObjs : SubscribeEnsureRoom(c, o)
    <3>1. CASE Join(c) \/ Poll(c) \/ Subscribe(c) \/ Register(c) \/ Count(c) \/ Lookup(c)
      BY <1>1, <3>1 DEF Join, Poll, Subscribe, Request, Register, Count, Lookup
    <3>2. CASE ReadSeq(c) \/ ReadMessages(c) \/ Receive(c) \/ Disconnect(c) \/ Release(c)
      BY <1>1, <3>2 DEF ReadSeq, ReadMessages, Receive, Disconnect, Release
    <3> QED
      BY <1>5, <2>3, <3>1, <3>2 DEF ClientNext, HandlerStep
  <2> QED
    BY <2>2, <2>3
<1>6. CASE Tick \/ GCNext \/ UNCHANGED vars
  BY <1>1, <1>6 DEF Tick, GCNext, GCScan, GCSweep, vars
<1> QED
  BY <1>4, <1>5, <1>6 DEF Next

\* Appending to a channel, and taking its first event.
LEMMA AscendAppend ==
  ASSUME NEW s \in Seq(Message), NEW m \in Message,
         \A i, j \in DOMAIN s : i < j => s[i].seq < s[j].seq,
         \A i \in DOMAIN s : s[i].seq < m.seq
  PROVE  \A i, j \in DOMAIN Append(s, m) : i < j => Append(s, m)[i].seq < Append(s, m)[j].seq
<1> DEFINE t == Append(s, m)
<1>1. /\ DOMAIN t = 1..(Len(s) + 1) /\ Len(s) \in Nat /\ DOMAIN s = 1..Len(s)
      /\ \A i \in 1..Len(s) : t[i] = s[i]
      /\ t[Len(s) + 1] = m
  BY AppendProperties
<1> HIDE DEF t
<1>2. ASSUME NEW i \in DOMAIN t, NEW j \in DOMAIN t, i < j
      PROVE  t[i].seq < t[j].seq
  <2>1. i \in 1..Len(s) /\ (j \in 1..Len(s) \/ j = Len(s) + 1)
    BY <1>1, <1>2
  <2> QED
    BY <1>1, <1>2, <2>1
<1> QED
  BY <1>2 DEF t

LEMMA AppendEntries ==
  ASSUME NEW s \in Seq(Message), NEW m \in Message
  PROVE  /\ \A i \in DOMAIN s : i \in DOMAIN Append(s, m) /\ Append(s, m)[i] = s[i]
         /\ Len(s) + 1 \in DOMAIN Append(s, m) /\ Append(s, m)[Len(s) + 1] = m
         /\ \A i \in DOMAIN Append(s, m) : i \in DOMAIN s \/ i = Len(s) + 1
<1> DEFINE t == Append(s, m)
<1>1. /\ DOMAIN t = 1..(Len(s) + 1) /\ Len(s) \in Nat /\ DOMAIN s = 1..Len(s)
      /\ \A i \in 1..Len(s) : t[i] = s[i]
      /\ t[Len(s) + 1] = m
  BY AppendProperties
<1> HIDE DEF t
<1>2. /\ \A i \in DOMAIN s : i \in DOMAIN t
      /\ Len(s) + 1 \in DOMAIN t
      /\ \A i \in DOMAIN t : i \in DOMAIN s \/ i = Len(s) + 1
  BY <1>1
<1> QED
  BY <1>1, <1>2 DEF t

LEMMA TailOf ==
  ASSUME NEW s \in Seq(Message), s # <<>>
  PROVE  /\ Head(s) = s[1] /\ Head(s) \in Message /\ 1 \in DOMAIN s
         /\ DOMAIN Tail(s) = 1..(Len(s) - 1)
         /\ \A i \in DOMAIN Tail(s) : i + 1 \in DOMAIN s /\ Tail(s)[i] = s[i + 1]
         /\ \A i \in DOMAIN s : i = 1 \/ (i - 1 \in DOMAIN Tail(s) /\ Tail(s)[i - 1] = s[i])
<1>1. /\ Head(s) = s[1] /\ Head(s) \in Message /\ Len(s) \in Nat \ {0}
      /\ DOMAIN s = 1..Len(s)
      /\ Tail(s) \in Seq(Message) /\ Len(Tail(s)) = Len(s) - 1
      /\ \A i \in 1..(Len(s) - 1) : Tail(s)[i] = s[i + 1]
  BY HeadTailProperties
<1>2. DOMAIN Tail(s) = 1..(Len(s) - 1)
  BY <1>1
<1>3. \A i \in DOMAIN Tail(s) : i + 1 \in DOMAIN s
  BY <1>1, <1>2
<1>4. ASSUME NEW i \in DOMAIN s, i # 1
      PROVE  i - 1 \in 1..(Len(s) - 1) /\ (i - 1) + 1 = i
  BY <1>1, <1>4
<1> QED
  BY <1>1, <1>2, <1>3, <1>4

LEMMA ChannelsAscendStep ==
  ASSUME CursorInv, ChannelsAscend, [Next]_vars
  PROVE  ChannelsAscend'
<1> USE DEF CursorInv, hubVars, objVars, pubVars, gcVars, clientVars, histVars
<1>1. ASSUME UNCHANGED chan
      PROVE  ChannelsAscend'
  BY <1>1 DEF ChannelsAscend
<1>2. ASSUME NEW p \in Publishers, PublishLocked(p)
      PROVE  ChannelsAscend'
  <2> DEFINE o == pubObj[p]
             m == [room |-> owner[o], seq |-> seq[o] + 1,
                   sender |-> pubSender[p], ts |-> pubTs[p]]
  <2>1. /\ o \in RoomObjs /\ m \in Message /\ m.seq = seq[o] + 1
        /\ \A c \in Clients :
             \/ chan'[c] = chan[c]
             \/ Streaming(c) /\ sub[c] = o /\ chan'[c] = Append(chan[c], m)
    BY <1>2, FanOutReaches
  <2> HIDE DEF o, m
  <2>2. ASSUME NEW c \in Clients, Streaming(c), sub[c] = o
        PROVE  \A i \in DOMAIN chan[c] : chan[c][i].seq < m.seq
    <3>1. chan[c] \in Seq(Message) /\ seq[o] \in Nat
      BY <2>1 DEF Typed, TypeOK, ClientTypes, HubTypes
    <3>2. \A i \in DOMAIN chan[c] : chan[c][i].seq \in Nat /\ chan[c][i].seq <= seq[o]
      BY <2>2, <3>1, MessageFields DEF Cursors
    <3> QED
      BY <2>1, <3>1, <3>2
  <2>3. ASSUME NEW c \in Clients
        PROVE  \A i, j \in DOMAIN chan'[c] : i < j => chan'[c][i].seq < chan'[c][j].seq
    <3>1. /\ chan[c] \in Seq(Message)
          /\ \A i, j \in DOMAIN chan[c] : i < j => chan[c][i].seq < chan[c][j].seq
      BY DEF Typed, TypeOK, ClientTypes, ChannelsAscend
    <3>2. CASE chan'[c] = chan[c]
      BY <3>1, <3>2
    <3>3. CASE Streaming(c) /\ sub[c] = o /\ chan'[c] = Append(chan[c], m)
      BY <2>1, <2>2, <3>1, <3>3, AscendAppend
    <3> QED
      BY <2>1, <3>2, <3>3
  <2> QED
    BY <2>3 DEF ChannelsAscend
<1>3. ASSUME NEW p \in Publishers, PublisherNext(p)
      PROVE  ChannelsAscend'
  BY <1>1, <1>2, <1>3 DEF PublisherNext, Send, Broadcast, StartPublish, PublishEnsureRoom
<1>4. ASSUME NEW c \in Clients, Receive(c)
      PROVE  ChannelsAscend'
  <2>1. /\ chan[c] \in Seq(Message) /\ chan[c] # <<>>
        /\ chan'[c] = Tail(chan[c])
        /\ \A d \in Clients \ {c} : chan'[d] = chan[d]
    BY <1>4 DEF Receive, EventReady, Typed, TypeOK, ClientTypes
  <2>2. \A i, j \in DOMAIN chan[c] : i < j => chan[c][i].seq < chan[c][j].seq
    BY DEF ChannelsAscend
  <2>3. ASSUME NEW i \in DOMAIN Tail(chan[c]), NEW j \in DOMAIN Tail(chan[c]), i < j
        PROVE  Tail(chan[c])[i].seq < Tail(chan[c])[j].seq
    <3>1. /\ i + 1 \in DOMAIN chan[c] /\ Tail(chan[c])[i] = chan[c][i + 1]
          /\ j + 1 \in DOMAIN chan[c] /\ Tail(chan[c])[j] = chan[c][j + 1]
          /\ i \in Nat /\ j \in Nat
      BY <2>1, TailOf
    <3>2. i + 1 < j + 1
      BY <2>3, <3>1
    <3> QED
      BY <2>2, <3>1, <3>2
  <2> QED
    BY <2>1, <2>3 DEF ChannelsAscend
<1>5. ASSUME NEW c \in Clients, Release(c)
      PROVE  ChannelsAscend'
  BY <1>5 DEF Release, ChannelsAscend, Typed, TypeOK, ClientTypes
<1>6. ASSUME NEW c \in Clients, ClientNext(c)
      PROVE  ChannelsAscend'
  <2>1. CASE Join(c) \/ Poll(c) \/ Subscribe(c) \/ \E o \in RoomObjs : SubscribeEnsureRoom(c, o)
    BY <1>1, <2>1 DEF Join, Poll, Subscribe, Request, SubscribeEnsureRoom
  <2>2. CASE \/ Register(c) \/ Count(c) \/ Lookup(c) \/ ReadSeq(c) \/ ReadMessages(c)
             \/ Disconnect(c)
    BY <1>1, <2>2 DEF Register, Count, Lookup, ReadSeq, ReadMessages, Disconnect
  <2> QED
    BY <1>4, <1>5, <1>6, <2>1, <2>2 DEF ClientNext, HandlerStep
<1>7. CASE Tick \/ GCNext \/ UNCHANGED vars
  BY <1>1, <1>7 DEF Tick, GCNext, GCScan, GCSweep, vars
<1> QED
  BY <1>3, <1>6, <1>7 DEF Next

\* A stream looks its room up after it registered, and GC keeps a room with a
\* subscriber: unless it strayed, it finds the room.
LEMMA StreamsReadStep ==
  ASSUME CursorInv, StreamsReadARoom, [Next]_vars
  PROVE  StreamsReadARoom'
<1> USE DEF CursorInv, hubVars, objVars, pubVars, gcVars, clientVars, histVars
<1>1. ASSUME UNCHANGED <<pc, op, ptr, strayed>>
      PROVE  StreamsReadARoom'
  BY <1>1 DEF StreamsReadARoom
<1>2. ASSUME NEW p \in Publishers, PublisherNext(p)
      PROVE  StreamsReadARoom'
  BY <1>1, <1>2 DEF PublisherNext, Send, Broadcast, StartPublish, PublishEnsureRoom,
     PublishLocked
<1>3. CASE Tick \/ GCNext \/ UNCHANGED vars
  BY <1>1, <1>3 DEF Tick, GCNext, GCScan, GCSweep, vars
<1>4. ASSUME NEW c \in Clients, ClientNext(c)
      PROVE  StreamsReadARoom'
  <2> USE DEF Typed, TypeOK, ClientTypes
  <2>1. ASSUME \A d \in Clients \ {c} :
                 /\ pc'[d] = pc[d] /\ op'[d] = op[d] /\ ptr'[d] = ptr[d]
                 /\ d \notin strayed' => d \notin strayed,
               c \notin strayed' /\ op'[c] = "stream" /\ pc'[c] = "read" => ptr'[c] # NoObj
        PROVE  StreamsReadARoom'
    BY <2>1 DEF StreamsReadARoom
  <2>2. CASE Lookup(c)
    <3>1. /\ UNCHANGED <<op, strayed>> /\ pc[c] = "lookup" /\ ptr'[c] = table[RoomOf[c]]
          /\ \A d \in Clients \ {c} : pc'[d] = pc[d] /\ ptr'[d] = ptr[d]
      BY <2>2 DEF Lookup, Goto
    <3>2. ASSUME c \notin strayed, op[c] = "stream"
          PROVE  table[RoomOf[c]] # NoObj
      <4>1. Current(c) = sub[c] /\ sub[c] \in RoomObjs
        BY <3>1, <3>2 DEF Cursors, Subscribed, Registered, Ownership, Streaming
      <4> QED
        BY <4>1, HubAssumption DEF Current
    <3> QED
      BY <2>1, <3>1, <3>2
  <2>3. CASE Join(c) \/ Poll(c) \/ Subscribe(c)
    <3>1. /\ UNCHANGED <<ptr, strayed>> /\ pc'[c] # "read"
          /\ \A d \in Clients \ {c} : pc'[d] = pc[d] /\ op'[d] = op[d]
      BY <2>3 DEF Join, Poll, Subscribe, Request, Goto
    <3> QED
      BY <2>1, <3>1
  <2>4. CASE (\E o \in RoomObjs : SubscribeEnsureRoom(c, o)) \/ Register(c) \/ Count(c)
    <3>1. /\ UNCHANGED <<op, ptr>> /\ strayed \subseteq strayed' /\ pc'[c] # "read"
          /\ \A d \in Clients \ {c} : pc'[d] = pc[d]
      BY <2>4 DEF SubscribeEnsureRoom, Register, Count, Goto
    <3> QED
      BY <2>1, <3>1
  <2>5. CASE ReadSeq(c) \/ ReadMessages(c)
    <3>1. /\ UNCHANGED op /\ pc'[c] # "read"
          /\ \A d \in Clients \ {c} :
               pc'[d] = pc[d] /\ ptr'[d] = ptr[d] /\ (d \notin strayed' => d \notin strayed)
      BY <2>5 DEF ReadSeq, ReadMessages, Goto
    <3> QED
      BY <2>1, <3>1
  <2>6. CASE Receive(c) \/ Disconnect(c) \/ Release(c)
    <3>1. /\ UNCHANGED <<op, ptr, strayed>> /\ pc'[c] # "read"
          /\ \A d \in Clients \ {c} : pc'[d] = pc[d]
      BY <2>6 DEF Receive, EventReady, Disconnect, Release, Goto
    <3> QED
      BY <2>1, <3>1
  <2> QED
    BY <1>4, <2>2, <2>3, <2>4, <2>5, <2>6 DEF ClientNext, HandlerStep
<1> QED
  BY <1>2, <1>3, <1>4 DEF Next

\* Steps that publish nothing and show nothing: a room's name may change its
\* object only for none, or for one with an empty log.
LEMMA CompleteAside ==
  ASSUME CursorInv, CursorInv', Complete,
         UNCHANGED <<log, start, lastSeq, delivered, missed>>,
         \A rm \in Rooms : table'[rm] \in {table[rm], NoObj} \/ log[table'[rm]] = <<>>,
         \A c \in Clients :
           /\ c \notin strayed' => c \notin strayed
           /\ pc'[c] = "live" => pc[c] = "live" /\ sub'[c] = sub[c] /\ chan'[c] = chan[c]
  PROVE  Complete'
<1>1. ASSUME NEW c \in Clients \ strayed', Current(c)' # NoObj
      PROVE  GapFree(c)'
  <2>1. c \in Clients \ strayed /\ RoomOf[c] \in Rooms
    BY HubAssumption
  <2>2. CASE Current(c)' = Current(c)
    BY <1>1, <2>1, <2>2 DEF Complete, GapFree, Accounted
  <2>3. CASE log[Current(c)'] = <<>>
    <3>1. DOMAIN log'[Current(c)'] = {}
      BY <2>3
    <3> QED
      BY <3>1 DEF GapFree
  <2> QED
    BY <1>1, <2>1, <2>2, <2>3 DEF Current
<1>2. ASSUME NEW c \in Clients \ strayed', pc'[c] = "live"
      PROVE  NothingBehind(c)'
  <2>1. c \in Clients \ strayed /\ pc[c] = "live" /\ sub'[c] = sub[c] /\ chan'[c] = chan[c]
    BY <1>2
  <2>2. Current(c) = sub[c]
    BY <2>1, LiveReadsItsOwn DEF CursorInv
  <2>3. Current(c)' = sub'[c]
    <3>1. op'[c] = "stream"
      BY <1>2 DEF CursorInv, Typed, Ownership, Streaming
    <3> QED
      BY <1>2, <3>1 DEF CursorInv, Cursors, Subscribed, Registered
  <2> QED
    BY <2>1, <2>2, <2>3 DEF Complete, NothingBehind, Waiting
<1> QED
  BY <1>1, <1>2 DEF Complete

\* EnsureRoom gives a name an object with an empty log, if any.
LEMMA EnsureRoomEmpty ==
  ASSUME Typed, EmptyUntilOwned, NEW rm \in Rooms, NEW o \in RoomObjs, EnsureRoom(rm, o)
  PROVE  \A x \in Rooms : table'[x] \in {table[x], NoObj} \/ log[table'[x]] = <<>>
BY EnsureRoomFrame DEF EmptyUntilOwned

\* A message published to a stream's room goes to its channel or is dropped.
LEMMA CompletePublish ==
  ASSUME CursorInv, CursorInv', Complete, NEW p \in Publishers, PublishLocked(p)
  PROVE  Complete'
<1> DEFINE o == pubObj[p]
           m == [room |-> owner[o], seq |-> seq[o] + 1,
                 sender |-> pubSender[p], ts |-> pubTs[p]]
<1> USE DEF CursorInv, Typed, TypeOK, HubTypes, ClientTypes, HistoryTypes
<1>1. o \in RoomObjs /\ seq[o] \in Nat /\ m \in Message /\ m.seq = seq[o] + 1
  BY PublishedMessage DEF PublishLocked
<1>2. /\ UNCHANGED <<table, subs, pc, op, sub, lastSeq, start, delivered, strayed>>
      /\ log' = [log EXCEPT ![o] = Append(@, m)]
      /\ chan' = [c \in Clients |-> IF c \in FanOut(o, m) /\ ~Full(c)
                                    THEN Append(chan[c], m) ELSE chan[c]]
      /\ missed' = [c \in Clients |-> IF c \in FanOut(o, m) /\ Full(c)
                                      THEN missed[c] \cup {m.seq} ELSE missed[c]]
  BY DEF PublishLocked
<1> HIDE DEF o, m
<1>3. /\ log'[o] = Append(log[o], m) /\ log[o] \in Seq(Message)
      /\ \A x : x # o => log'[x] = log[x]
  BY <1>1, <1>2
<1>4. \A i \in DOMAIN log'[o] :
        \/ i \in DOMAIN log[o] /\ log'[o][i] = log[o][i]
        \/ log'[o][i] = m
  BY <1>1, <1>3, AppendEntries
<1>5. ASSUME NEW c \in Clients
      PROVE  /\ missed[c] \subseteq missed'[c]
             /\ \A s : Accounted(c, s) => Accounted(c, s)'
             /\ \A s : Waiting(c, s) => Waiting(c, s)'
             /\ \A s : s = m.seq /\ c \in subs[o] => Waiting(c, s)'
  <2>1. missed[c] \subseteq missed'[c]
    BY <1>2
  <2>2. /\ chan[c] \in Seq(Message)
        /\ \/ chan'[c] = chan[c]
           \/ chan'[c] = Append(chan[c], m)
        /\ c \in subs[o] => chan'[c] = Append(chan[c], m) \/ m.seq \in missed'[c]
    BY <1>2 DEF FanOut
  <2>3. /\ \A i \in DOMAIN chan[c] :
             i \in DOMAIN Append(chan[c], m) /\ Append(chan[c], m)[i] = chan[c][i]
        /\ \E i \in DOMAIN Append(chan[c], m) : Append(chan[c], m)[i] = m
    <3> HIDE DEF CursorInv, Typed, TypeOK, HubTypes, ClientTypes, HistoryTypes
    <3>1. /\ \A i \in DOMAIN chan[c] :
               i \in DOMAIN Append(chan[c], m) /\ Append(chan[c], m)[i] = chan[c][i]
          /\ Len(chan[c]) + 1 \in DOMAIN Append(chan[c], m)
          /\ Append(chan[c], m)[Len(chan[c]) + 1] = m
      BY <1>1, <2>2, AppendEntries
    <3> QED
      BY <3>1
  <2>4. \A i \in DOMAIN chan[c] : i \in DOMAIN chan'[c] /\ chan'[c][i] = chan[c][i]
    BY <2>2, <2>3
  <2>5. \A s : Waiting(c, s) => Waiting(c, s)'
    BY <2>1, <2>4 DEF Waiting
  <2>6. \A s : s = m.seq /\ c \in subs[o] => Waiting(c, s)'
    <3>1. CASE chan'[c] = Append(chan[c], m)
      BY <2>3, <3>1 DEF Waiting
    <3>2. CASE m.seq \in missed'[c]
      BY <3>2 DEF Waiting
    <3> QED
      BY <2>2, <3>1, <3>2
  <2>7. \A s : Accounted(c, s) => Accounted(c, s)'
    BY <1>2, <2>1 DEF Accounted
  <2> QED
    BY <2>1, <2>5, <2>6, <2>7
<1>6. ASSUME NEW c \in Clients \ strayed, Current(c) # NoObj
      PROVE  GapFree(c)'
  <2>1. GapFree(c) /\ Current(c)' = Current(c)
    BY <1>2, <1>6 DEF Complete, Current
  <2>2. CASE Current(c) # o
    BY <1>2, <1>3, <1>5, <2>1, <2>2 DEF GapFree
  <2>3. CASE Current(c) = o
    <3>1. lastSeq[c] <= seq[o] /\ lastSeq[c] \in Nat
      BY <1>6, <2>3 DEF Cursors
    <3>2. ~(m.seq <= lastSeq[c])
      BY <1>1, <3>1
    <3>3. UNCHANGED <<start, lastSeq>>
      BY <1>2
    <3> QED
      BY <1>4, <1>5, <2>1, <2>3, <3>2, <3>3 DEF GapFree
  <2> QED
    BY <2>2, <2>3
<1>7. ASSUME NEW c \in Clients \ strayed, pc[c] = "live"
      PROVE  NothingBehind(c)'
  <2>1. NothingBehind(c) /\ Current(c)' = Current(c) /\ Current(c) = sub[c]
    BY <1>2, <1>7, LiveReadsItsOwn DEF Complete, Current
  <2>2. CASE Current(c) # o
    BY <1>2, <1>3, <1>5, <2>1, <2>2 DEF NothingBehind
  <2>3. CASE Current(c) = o
    <3>1. c \in subs[o]
      <4>1. Subscribed(c)
        BY <1>7 DEF Ownership, Streaming, Subscribed, Registered
      <4>2. sub[c] = o
        BY <2>1, <2>3
      <4>3. subs[o] = {d \in Clients : Subscribed(d) /\ sub[d] = o}
        BY <1>1 DEF Registration
      <4> QED
        BY <4>1, <4>2, <4>3
    <3>2. UNCHANGED lastSeq
      BY <1>2
    <3> QED
      BY <1>4, <1>5, <2>1, <2>3, <3>1, <3>2 DEF NothingBehind
  <2> QED
    BY <2>2, <2>3
<1> QED
  BY <1>2, <1>6, <1>7 DEF Complete, Current

\* Only what concerns the client that steps can change.
LEMMA CompleteOthers ==
  ASSUME Complete, NEW c \in Clients, UNCHANGED <<table, log>>,
         \A d \in Clients \ {c} :
           /\ start'[d] = start[d] /\ lastSeq'[d] = lastSeq[d]
           /\ delivered'[d] = delivered[d] /\ missed'[d] = missed[d]
           /\ pc'[d] = pc[d] /\ chan'[d] = chan[d]
           /\ d \notin strayed' => d \notin strayed,
         c \notin strayed' =>
           /\ Current(c) # NoObj => GapFree(c)'
           /\ pc'[c] = "live" => NothingBehind(c)'
  PROVE  Complete'
<1>1. ASSUME NEW d \in Clients \ strayed', d # c
      PROVE  /\ Current(d)' # NoObj => GapFree(d)'
             /\ pc'[d] = "live" => NothingBehind(d)'
  BY <1>1 DEF Complete, GapFree, NothingBehind, Accounted, Waiting, Current
<1> QED
  BY <1>1 DEF Complete, Current

\* A new session has a cursor and has seen nothing before it.
LEMMA CompleteReadSeq ==
  ASSUME CursorInv, Complete, NEW c \in Clients, ReadSeq(c)
  PROVE  Complete'
<1> USE DEF CursorInv, Typed, TypeOK, HubTypes, ClientTypes, HistoryTypes, hubVars, objVars
<1>1. /\ UNCHANGED <<table, log, chan>> /\ pc'[c] = "idle"
      /\ start'[c] = SeqOf(ptr[c]) /\ lastSeq'[c] = SeqOf(ptr[c])
      /\ \A d \in Clients \ {c} :
           /\ start'[d] = start[d] /\ lastSeq'[d] = lastSeq[d]
           /\ delivered'[d] = delivered[d] /\ missed'[d] = missed[d]
           /\ pc'[d] = pc[d] /\ (d \notin strayed' => d \notin strayed)
  BY DEF ReadSeq, Goto
<1>2. SeqOf(ptr[c]) \in Nat
  BY DEF SeqOf
<1>3. Current(c) # NoObj => GapFree(c)'
  <2>1. ASSUME Current(c) # NoObj, NEW i \in DOMAIN log[Current(c)]
        PROVE  log[Current(c)][i].seq \in Nat
    <3>1. log[Current(c)] \in Seq(Message)
      <4>1. RoomOf[c] \in Rooms
        BY HubAssumption
      <4>2. Current(c) \in RoomObjs
        BY <2>1, <4>1 DEF Current
      <4> QED
        BY <4>2
    <3> HIDE DEF CursorInv, Typed, TypeOK, HubTypes, ClientTypes, HistoryTypes
    <3>2. i \in 1..Len(log[Current(c)])
      BY <2>1, <3>1
    <3> QED
      BY <3>1, <3>2, MessageFields
  <2>2. \A s \in Nat : ~(SeqOf(ptr[c]) < s /\ s <= SeqOf(ptr[c]))
    BY <1>2
  <2>3. Current(c)' = Current(c) /\ UNCHANGED log
    BY <1>1 DEF Current
  <2> HIDE DEF CursorInv, Typed, TypeOK, HubTypes, ClientTypes, HistoryTypes
  <2> QED
    BY <1>1, <2>1, <2>2, <2>3 DEF GapFree
<1> QED
  BY <1>1, <1>3, CompleteOthers

\* Poll's batch holds everything in the buffer that is beyond the cursor.
LEMMA BatchTakesAll ==
  ASSUME NEW buf \in Seq(Message), NEW cursor \in Nat,
         \A i, j \in DOMAIN buf : i < j => buf[i].seq < buf[j].seq,
         NEW n \in SearchIndex(Len(buf), LAMBDA j : After(buf[j], cursor)),
         NEW j \in DOMAIN buf, buf[j].seq > cursor
  PROVE  LET batch == Drop(buf, n)
             shown == [k \in 1..Len(batch) |-> batch[k].seq]
         IN  /\ \E k \in DOMAIN shown : shown[k] = buf[j].seq
             /\ batch # <<>>
             /\ buf[j].seq <= batch[Len(batch)].seq
<1> DEFINE batch == Drop(buf, n)
           shown == [k \in 1..Len(batch) |-> batch[k].seq]
<1>1. n \in 0..Len(buf) /\ (n > 0 => ~(buf[n].seq > cursor))
  BY DEF SearchIndex, After
<1>2. /\ batch \in Seq(Message) /\ Len(batch) = Len(buf) - n
      /\ \A i \in 1..(Len(buf) - n) : batch[i] = buf[i + n]
  BY <1>1, DropType
<1> HIDE DEF batch
<1>3. \A i \in 1..Len(buf) : buf[i].seq \in Nat
  BY MessageFields
<1>4. j \in 1..Len(buf) /\ Len(buf) \in Nat /\ n \in Nat
  BY <1>1
<1>5. j > n
  <2>1. SUFFICES ASSUME j <= n PROVE FALSE
    BY <1>4
  <2>2. n \in 1..Len(buf) /\ buf[n].seq <= cursor
    BY <1>1, <1>3, <1>4, <2>1
  <2>3. j = n \/ buf[j].seq < buf[n].seq
    BY <1>4, <2>1, <2>2
  <2> QED
    BY <1>3, <1>4, <2>2, <2>3
<1>6. /\ j - n \in 1..Len(batch) /\ (j - n) + n = j /\ Len(batch) \in 1..Len(batch)
      /\ Len(batch) + n = Len(buf) /\ Len(batch) # 0
  BY <1>2, <1>4, <1>5
<1>7. batch[j - n] = buf[j] /\ batch[Len(batch)] = buf[Len(buf)]
  BY <1>2, <1>6
<1>8. buf[j].seq <= buf[Len(buf)].seq
  <2>1. Len(buf) \in DOMAIN buf /\ (j = Len(buf) \/ j < Len(buf))
    BY <1>4
  <2> QED
    BY <1>3, <1>4, <2>1
<1>9. shown[j - n] = buf[j].seq /\ j - n \in DOMAIN shown
  BY <1>6, <1>7
<1>10. batch # <<>>
  BY <1>6
<1> QED
  BY <1>7, <1>8, <1>9, <1>10 DEF batch

\* The entries of a concatenation are those of its parts.
LEMMA ConcatEntries ==
  ASSUME NEW d \in Seq(Nat), NEW e \in Seq(Nat)
  PROVE  /\ \A k \in DOMAIN d : k \in DOMAIN (d \o e) /\ (d \o e)[k] = d[k]
         /\ \A k \in DOMAIN e : Len(d) + k \in DOMAIN (d \o e) /\ (d \o e)[Len(d) + k] = e[k]
         /\ \A k \in DOMAIN (d \o e) :
              \/ k \in DOMAIN d /\ (d \o e)[k] = d[k]
              \/ k - Len(d) \in DOMAIN e /\ (d \o e)[k] = e[k - Len(d)]
<1> DEFINE f == d \o e
<1>1. /\ f \in Seq(Nat) /\ Len(f) = Len(d) + Len(e)
      /\ \A k \in 1..Len(f) : f[k] = IF k <= Len(d) THEN d[k] ELSE e[k - Len(d)]
  BY ConcatProperties
<1> HIDE DEF f
<1>2. /\ DOMAIN f = 1..Len(f) /\ DOMAIN d = 1..Len(d) /\ DOMAIN e = 1..Len(e)
      /\ Len(d) \in Nat /\ Len(e) \in Nat
  BY <1>1
<1>3. ASSUME NEW k \in DOMAIN d
      PROVE  k \in DOMAIN f /\ f[k] = d[k]
  BY <1>1, <1>2
<1>4. ASSUME NEW k \in DOMAIN e
      PROVE  Len(d) + k \in DOMAIN f /\ f[Len(d) + k] = e[k]
  <2>1. Len(d) + k \in 1..Len(f) /\ ~(Len(d) + k <= Len(d)) /\ (Len(d) + k) - Len(d) = k
    BY <1>1, <1>2
  <2> QED
    BY <1>1, <1>2, <2>1
<1>5. ASSUME NEW k \in DOMAIN f
      PROVE  \/ k \in DOMAIN d /\ f[k] = d[k]
             \/ k - Len(d) \in DOMAIN e /\ f[k] = e[k - Len(d)]
  BY <1>1, <1>2
<1> QED
  BY <1>3, <1>4, <1>5 DEF f

\* What /poll and the catch-up of /events show of a room.
LEMMA ReadShows ==
  ASSUME Typed, BuffersAscend, NEW c \in Clients, ReadMessages(c), ptr[c] # NoObj
  PROVE  /\ \A k \in DOMAIN delivered[c] :
              k \in DOMAIN delivered'[c] /\ delivered'[c][k] = delivered[c][k]
         /\ lastSeq'[c] \in Nat /\ lastSeq'[c] >= lastSeq[c]
         /\ missed[c] \subseteq missed'[c]
         /\ \A i \in DOMAIN log[ptr[c]] :
              LET s == log[ptr[c]][i].seq
              IN  s > lastSeq[c] =>
                    \/ s \in missed'[c]
                    \/ /\ s <= lastSeq'[c]
                       /\ \E k \in DOMAIN delivered'[c] : delivered'[c][k] = s
         /\ \A k \in DOMAIN delivered'[c] :
              \/ k \in DOMAIN delivered[c] /\ delivered'[c][k] = delivered[c][k]
              \/ delivered'[c][k] \in Seqs(messages[ptr[c]])
<1> DEFINE buf == IF ptr[c] = NoObj THEN <<>> ELSE messages[ptr[c]]
           all == IF ptr[c] = NoObj THEN <<>> ELSE log[ptr[c]]
<1>1. ptr[c] \in RoomObjs /\ buf = messages[ptr[c]] /\ all = log[ptr[c]]
  BY DEF Typed, TypeOK, ClientTypes
<1>2. /\ buf \in Seq(Message) /\ all \in Seq(Message)
      /\ \A i, j \in DOMAIN buf : i < j => buf[i].seq < buf[j].seq
  BY <1>1 DEF Typed, TypeOK, HubTypes, HistoryTypes, BuffersAscend
<1>3. delivered[c] \in Seq(Nat) /\ lastSeq[c] \in Nat
  BY DEF Typed, TypeOK, ClientTypes, HistoryTypes
<1>4. missed'[c] = missed[c] \cup ({s \in Seqs(all) : s > lastSeq[c]} \ Seqs(buf))
  BY DEF ReadMessages, Typed, TypeOK, HistoryTypes
<1>5. PICK n \in SearchIndex(Len(buf), LAMBDA j : After(buf[j], lastSeq[c])) :
        LET batch == Drop(buf, n)
        IN  /\ delivered' = [delivered EXCEPT
                    ![c] = @ \o [k \in 1..Len(batch) |-> batch[k].seq]]
            /\ lastSeq' = [lastSeq EXCEPT
                    ![c] = IF batch = <<>> THEN @ ELSE batch[Len(batch)].seq]
  BY DEF ReadMessages
<1> DEFINE batch == Drop(buf, n)
           shown == [k \in 1..Len(batch) |-> batch[k].seq]
<1>6. /\ delivered'[c] = delivered[c] \o shown
      /\ lastSeq'[c] = IF batch = <<>> THEN lastSeq[c] ELSE batch[Len(batch)].seq
  BY <1>5 DEF Typed, TypeOK, ClientTypes, HistoryTypes
<1> HIDE DEF buf, all
<1>7. /\ shown \in Seq(Nat) /\ Len(shown) = Len(batch)
      /\ \A i \in DOMAIN shown : shown[i] > lastSeq[c]
  BY <1>2, <1>3, <1>5, BatchAfterCursor
<1>8. /\ n \in 0..Len(buf) /\ batch \in Seq(Message) /\ Len(batch) = Len(buf) - n
      /\ \A i \in 1..(Len(buf) - n) : batch[i] = buf[i + n]
  <2>1. n \in 0..Len(buf)
    BY DEF SearchIndex
  <2> QED
    BY <1>2, <2>1, DropType
<1>9. ASSUME NEW i \in DOMAIN buf, buf[i].seq > lastSeq[c]
      PROVE  /\ \E k \in DOMAIN shown : shown[k] = buf[i].seq
             /\ batch # <<>> /\ buf[i].seq <= batch[Len(batch)].seq
  BY <1>2, <1>3, <1>5, <1>9, BatchTakesAll
<1>10. \A k \in DOMAIN shown : shown[k] \in Seqs(buf)
  <2>1. ASSUME NEW k \in DOMAIN shown
        PROVE  k + n \in DOMAIN buf /\ shown[k] = buf[k + n].seq
    BY <1>2, <1>8
  <2> QED
    BY <2>1 DEF Seqs
<1>11. lastSeq'[c] \in Nat /\ lastSeq'[c] >= lastSeq[c]
  <2>1. CASE batch = <<>>
    BY <1>3, <1>6, <2>1
  <2>2. CASE batch # <<>>
    <3>1. Len(batch) \in 1..Len(batch)
      BY <1>8, <2>2
    <3> HIDE DEF batch
    <3>2. shown[Len(batch)] = batch[Len(batch)].seq /\ Len(batch) \in DOMAIN shown
      BY <3>1
    <3>3. shown[Len(batch)] \in Nat /\ shown[Len(batch)] > lastSeq[c]
      BY <1>7, <3>2
    <3> QED
      BY <1>3, <1>6, <2>2, <3>2, <3>3
  <2> QED
    BY <2>1, <2>2
<1> HIDE DEF shown
<1>12. /\ \A k \in DOMAIN delivered[c] :
            k \in DOMAIN delivered'[c] /\ delivered'[c][k] = delivered[c][k]
       /\ \A k \in DOMAIN shown :
            \E l \in DOMAIN delivered'[c] : delivered'[c][l] = shown[k]
       /\ \A k \in DOMAIN delivered'[c] :
            \/ k \in DOMAIN delivered[c] /\ delivered'[c][k] = delivered[c][k]
            \/ delivered'[c][k] \in Seqs(buf)
  <2> DEFINE d == delivered[c]
             f == d \o shown
  <2>1. f = delivered'[c] /\ d \in Seq(Nat) /\ shown \in Seq(Nat)
    BY <1>3, <1>6, <1>7
  <2>2. /\ \A k \in DOMAIN d : k \in DOMAIN f /\ f[k] = d[k]
        /\ \A k \in DOMAIN shown : Len(d) + k \in DOMAIN f /\ f[Len(d) + k] = shown[k]
        /\ \A k \in DOMAIN f : \/ k \in DOMAIN d /\ f[k] = d[k]
                               \/ k - Len(d) \in DOMAIN shown /\ f[k] = shown[k - Len(d)]
    <3> HIDE DEF d
    <3> QED
      BY <2>1, ConcatEntries
  <2> HIDE DEF f
  <2> QED
    BY <1>10, <2>1, <2>2
<1>13. ASSUME NEW i \in DOMAIN all, all[i].seq > lastSeq[c]
       PROVE  \/ all[i].seq \in missed'[c]
              \/ /\ all[i].seq <= lastSeq'[c]
                 /\ \E k \in DOMAIN delivered'[c] : delivered'[c][k] = all[i].seq
  <2>1. CASE all[i].seq \notin Seqs(buf)
    BY <1>4, <1>13, <2>1 DEF Seqs
  <2>2. CASE all[i].seq \in Seqs(buf)
    <3>1. PICK j \in DOMAIN buf : buf[j].seq = all[i].seq
      BY <2>2 DEF Seqs
    <3> QED
      BY <1>6, <1>9, <1>12, <1>13, <3>1
  <2> QED
    BY <2>1, <2>2
<1> QED
  BY <1>1, <1>4, <1>11, <1>12, <1>13

\* A client whose room has no object reads nothing.
LEMMA ReadNothing ==
  ASSUME Typed, NEW c \in Clients, ReadMessages(c), ptr[c] = NoObj
  PROVE  delivered'[c] = delivered[c] /\ lastSeq'[c] = lastSeq[c]
<1> DEFINE buf == IF ptr[c] = NoObj THEN <<>> ELSE messages[ptr[c]]
<1>1. PICK n \in SearchIndex(Len(buf), LAMBDA j : After(buf[j], lastSeq[c])) :
        LET batch == Drop(buf, n)
        IN  /\ delivered' = [delivered EXCEPT
                    ![c] = @ \o [k \in 1..Len(batch) |-> batch[k].seq]]
            /\ lastSeq' = [lastSeq EXCEPT
                    ![c] = IF batch = <<>> THEN @ ELSE batch[Len(batch)].seq]
  BY DEF ReadMessages
<1> DEFINE batch == Drop(buf, n)
           shown == [k \in 1..Len(batch) |-> batch[k].seq]
<1>2. /\ delivered'[c] = delivered[c] \o shown
      /\ lastSeq'[c] = IF batch = <<>> THEN lastSeq[c] ELSE batch[Len(batch)].seq
  BY <1>1 DEF Typed, TypeOK, HistoryTypes, ClientTypes
<1>3. batch = <<>> /\ shown = <<>>
  <2>1. buf = <<>> /\ n \in 0..Len(buf)
    BY DEF SearchIndex
  <2>2. Len(buf) = 0 /\ n = 0
    BY <2>1
  <2> HIDE DEF buf
  <2> QED
    BY <2>1, <2>2 DEF Drop
<1> HIDE DEF batch, shown
<1> QED
  <2>1. delivered[c] \in Seq(Nat)
    BY DEF Typed, TypeOK, HistoryTypes
  <2> QED
    BY <1>2, <1>3, <2>1

LEMMA CompleteReadMessages ==
  ASSUME CursorInv, StreamsReadARoom, Complete, NEW c \in Clients, ReadMessages(c)
  PROVE  Complete'
<1> USE DEF CursorInv, hubVars, objVars
<1>1. /\ UNCHANGED <<table, log, chan, start>> /\ pc[c] = "read"
      /\ pc'[c] = "live" => op[c] = "stream"
      /\ strayed' = IF Stale(c) THEN strayed \cup {c} ELSE strayed
      /\ \A d \in Clients \ {c} :
           /\ lastSeq'[d] = lastSeq[d] /\ delivered'[d] = delivered[d]
           /\ missed'[d] = missed[d] /\ pc'[d] = pc[d]
           /\ (d \notin strayed' => d \notin strayed)
  BY DEF ReadMessages, Goto, Typed, TypeOK, ClientTypes, HistoryTypes
<1>2. CASE ptr[c] = NoObj
  <2>4. delivered'[c] = delivered[c] /\ lastSeq'[c] = lastSeq[c]
    BY <1>2, ReadNothing
  <2>5. missed[c] \subseteq missed'[c]
    BY DEF ReadMessages, Typed, TypeOK, HistoryTypes
  <2>6. ASSUME c \notin strayed', Current(c) # NoObj
        PROVE  GapFree(c)'
    <3>1. GapFree(c)
      BY <1>1, <2>6 DEF Complete
    <3> QED
      BY <1>1, <2>4, <2>5, <3>1 DEF GapFree, Accounted, Current
  <2>7. c \notin strayed' => pc'[c] # "live"
    BY <1>1, <1>2 DEF StreamsReadARoom
  <2> QED
    BY <1>1, <2>6, <2>7, CompleteOthers
<1>3. CASE ptr[c] # NoObj
  <2>1. c \notin strayed' => c \notin strayed /\ Current(c) = ptr[c] /\ Current(c)' = ptr[c]
    BY <1>1, <1>3 DEF Stale, Current
  <2>2. /\ ptr[c] \in RoomObjs /\ log[ptr[c]] \in Seq(Message) /\ lastSeq[c] \in Nat
    BY <1>3 DEF Typed, TypeOK, ClientTypes, HistoryTypes
  <2>3. \A i \in DOMAIN log[ptr[c]] : log[ptr[c]][i].seq \in Nat
    BY <2>2, MessageFields
  <2>4. /\ \A k \in DOMAIN delivered[c] :
              k \in DOMAIN delivered'[c] /\ delivered'[c][k] = delivered[c][k]
        /\ lastSeq'[c] \in Nat /\ lastSeq'[c] >= lastSeq[c]
        /\ missed[c] \subseteq missed'[c]
        /\ \A i \in DOMAIN log[ptr[c]] :
             LET s == log[ptr[c]][i].seq
             IN  s > lastSeq[c] =>
                   \/ s \in missed'[c]
                   \/ /\ s <= lastSeq'[c]
                      /\ \E k \in DOMAIN delivered'[c] : delivered'[c][k] = s
    BY <1>3, ReadShows
  <2>5. \A s : Accounted(c, s) => Accounted(c, s)'
    BY <2>4 DEF Accounted
  <2>6. ASSUME c \notin strayed'
        PROVE  GapFree(c)' /\ NothingBehind(c)'
    <3>1. GapFree(c)
      BY <1>3, <2>1, <2>6 DEF Complete
    <3>2. ASSUME NEW i \in DOMAIN log[ptr[c]],
                 start[c] < log[ptr[c]][i].seq, log[ptr[c]][i].seq <= lastSeq'[c]
          PROVE  \E s : s = log[ptr[c]][i].seq /\ Accounted(c, s)'
      <4>1. CASE log[ptr[c]][i].seq <= lastSeq[c]
        BY <2>1, <2>5, <2>6, <3>1, <3>2, <4>1 DEF GapFree
      <4>2. CASE log[ptr[c]][i].seq > lastSeq[c]
        BY <2>4, <4>2 DEF Accounted
      <4> QED
        BY <2>2, <2>3, <4>1, <4>2
    <3>3. ASSUME NEW i \in DOMAIN log[ptr[c]], log[ptr[c]][i].seq > lastSeq'[c]
          PROVE  log[ptr[c]][i].seq \in missed'[c]
      <4>1. log[ptr[c]][i].seq > lastSeq[c] /\ ~(log[ptr[c]][i].seq <= lastSeq'[c])
        BY <2>2, <2>3, <2>4, <3>3
      <4> QED
        BY <2>4, <4>1
    <3>4. Current(c)' = ptr[c] /\ UNCHANGED <<log, start>>
      BY <1>1, <2>1, <2>6
    <3>5. GapFree(c)'
      BY <3>2, <3>4 DEF GapFree
    <3>6. NothingBehind(c)'
      BY <3>3, <3>4 DEF NothingBehind, Waiting
    <3> QED
      BY <3>5, <3>6
  <2> QED
    BY <1>1, <2>6, CompleteOthers
<1> QED
  BY <1>2, <1>3

\* A live event: whatever it passes over was dropped from the channel.
LEMMA CompleteReceive ==
  ASSUME CursorInv, ChannelsAscend, Complete, NEW c \in Clients, Receive(c)
  PROVE  Complete'
<1> USE DEF CursorInv, hubVars, objVars
<1> DEFINE s == Head(chan[c]).seq
<1>1. /\ UNCHANGED <<table, log, pc, start, missed, strayed>> /\ pc[c] = "live"
      /\ \A d \in Clients \ {c} :
           lastSeq'[d] = lastSeq[d] /\ delivered'[d] = delivered[d] /\ chan'[d] = chan[d]
  BY DEF Receive, EventReady, Typed, TypeOK, ClientTypes, HistoryTypes
<1>2. /\ chan[c] \in Seq(Message) /\ chan[c] # <<>> /\ chan'[c] = Tail(chan[c])
      /\ lastSeq[c] \in Nat /\ delivered[c] \in Seq(Nat)
  BY DEF Receive, EventReady, Typed, TypeOK, ClientTypes, HistoryTypes
<1>3. /\ Head(chan[c]) = chan[c][1] /\ Head(chan[c]) \in Message /\ 1 \in DOMAIN chan[c]
      /\ \A k \in DOMAIN chan[c] :
           k = 1 \/ (k - 1 \in DOMAIN Tail(chan[c]) /\ Tail(chan[c])[k - 1] = chan[c][k])
  BY <1>2, TailOf
<1>4. s \in Nat
  BY <1>3 DEF Message
<1>5. \/ s <= lastSeq[c] /\ lastSeq'[c] = lastSeq[c] /\ delivered'[c] = delivered[c]
      \/ s > lastSeq[c] /\ lastSeq'[c] = s /\ delivered'[c] = Append(delivered[c], s)
  <2>1. CASE AlreadySent(c, s)
    BY <2>1 DEF Receive, AlreadySent
  <2>2. CASE ~AlreadySent(c, s)
    <3>1. ~(s <= lastSeq[c]) /\ lastSeq' = [lastSeq EXCEPT ![c] = s]
          /\ delivered' = [delivered EXCEPT ![c] = Append(@, s)]
      BY <2>2 DEF Receive, AlreadySent
    <3> HIDE DEF s
    <3>2. s > lastSeq[c]
      BY <1>2, <1>4, <3>1
    <3> QED
      BY <3>1, <3>2 DEF Typed, TypeOK, ClientTypes, HistoryTypes
  <2> QED
    BY <2>1, <2>2
<1>6. \A k \in DOMAIN chan[c] : chan[c][k].seq \in Nat /\ (k = 1 \/ s < chan[c][k].seq)
  <2>1. ASSUME NEW k \in DOMAIN chan[c], k # 1
        PROVE  1 < k
    BY <1>2, <2>1
  <2>2. \A i, j \in DOMAIN chan[c] : i < j => chan[c][i].seq < chan[c][j].seq
    BY DEF ChannelsAscend
  <2> QED
    BY <1>2, <1>3, <2>1, <2>2, MessageFields
<1>7. chan[c][1].seq = s
  BY <1>3
<1> HIDE DEF s
<1>8. /\ \A x : Accounted(c, x) => Accounted(c, x)'
      /\ \A x : s > lastSeq[c] /\ x = s => Accounted(c, x)'
  <2>1. CASE delivered'[c] = delivered[c] /\ ~(s > lastSeq[c])
    BY <1>1, <2>1 DEF Accounted
  <2>2. CASE delivered'[c] = Append(delivered[c], s)
    <3>1. /\ \A k \in DOMAIN delivered[c] : k \in DOMAIN delivered'[c]
                /\ delivered'[c][k] = delivered[c][k]
          /\ \E k \in DOMAIN delivered'[c] : delivered'[c][k] = s
      <4> DEFINE e == <<s>>
      <4>1. e \in Seq(Nat) /\ 1 \in DOMAIN e /\ e[1] = s
        BY <1>4
      <4>2. delivered'[c] = delivered[c] \o e
        BY <1>2, <1>4, <2>2, AppendIsConcat
      <4> HIDE DEF e
      <4>3. /\ \A k \in DOMAIN delivered[c] :
                 k \in DOMAIN delivered'[c] /\ delivered'[c][k] = delivered[c][k]
            /\ \A k \in DOMAIN e : Len(delivered[c]) + k \in DOMAIN delivered'[c]
                 /\ delivered'[c][Len(delivered[c]) + k] = e[k]
        <5> DEFINE d == delivered[c]
                   f == d \o e
        <5>1. d \in Seq(Nat) /\ delivered'[c] = f
          BY <1>2, <4>2
        <5>2. /\ \A k \in DOMAIN d : k \in DOMAIN f /\ f[k] = d[k]
              /\ \A k \in DOMAIN e : Len(d) + k \in DOMAIN f /\ f[Len(d) + k] = e[k]
          <6> HIDE DEF d
          <6> QED
            BY <4>1, <5>1, ConcatEntries
        <5> HIDE DEF f
        <5> QED
          BY <5>1, <5>2
      <4> QED
        BY <4>1, <4>3
    <3> QED
      BY <1>1, <3>1 DEF Accounted
  <2>3. s <= lastSeq[c] => ~(s > lastSeq[c])
    BY <1>2, <1>4
  <2> QED
    BY <1>5, <2>1, <2>2, <2>3
<1>9. ASSUME c \notin strayed
      PROVE  GapFree(c)' /\ NothingBehind(c)'
  <2>1. /\ Current(c) \in RoomObjs /\ Current(c) # NoObj /\ Current(c)' = Current(c)
        /\ GapFree(c) /\ NothingBehind(c)
    BY <1>1, <1>9, LiveReadsItsOwn DEF Complete, Current
  <2>2. ASSUME NEW i \in DOMAIN log[Current(c)]
        PROVE  log[Current(c)][i].seq \in Nat
    <3>1. log[Current(c)] \in Seq(Message)
      BY <2>1 DEF Typed, TypeOK, HistoryTypes
    <3> QED
      BY <3>1, MessageFields
  <2>3. ASSUME NEW x \in Nat, x > lastSeq[c], Waiting(c, x)
        PROVE  /\ x <= lastSeq'[c] => Accounted(c, x)'
               /\ x > lastSeq'[c] => Waiting(c, x)'
    <3>1. CASE x \in missed[c]
      BY <1>1, <3>1 DEF Accounted, Waiting
    <3>2. CASE \E k \in DOMAIN chan[c] : chan[c][k].seq = x
      <4>1. PICK k \in DOMAIN chan[c] : chan[c][k].seq = x
        BY <3>2
      <4>2. CASE k = 1
        <5>1. x = s
          BY <1>7, <4>1, <4>2
        <5>2. lastSeq'[c] = x
          BY <1>2, <1>4, <1>5, <2>3, <5>1
        <5> QED
          BY <1>8, <2>3, <5>1, <5>2
      <4>3. CASE k # 1
        <5>1. s < x
          BY <1>6, <4>1, <4>3
        <5>2. ~(x <= lastSeq'[c])
          BY <1>2, <1>4, <1>5, <2>3, <5>1
        <5>3. k - 1 \in DOMAIN chan'[c] /\ chan'[c][k - 1].seq = x
          BY <1>2, <1>3, <4>1, <4>3
        <5> QED
          BY <5>2, <5>3 DEF Waiting
      <4> QED
        BY <4>2, <4>3
    <3> QED
      BY <2>3, <3>1, <3>2 DEF Waiting
  <2>4. \A x \in Nat : /\ x > lastSeq'[c] => x > lastSeq[c]
                       /\ x <= lastSeq[c] \/ x > lastSeq[c]
    BY <1>2, <1>4, <1>5
  <2>5. GapFree(c)'
    <3>1. ASSUME NEW i \in DOMAIN log[Current(c)], NEW x \in Nat, x = log[Current(c)][i].seq,
                 start[c] < x, x <= lastSeq'[c]
          PROVE  Accounted(c, x)'
      BY <1>8, <2>1, <2>3, <2>4, <3>1 DEF GapFree, NothingBehind
    <3> QED
      BY <1>1, <2>1, <2>2, <3>1 DEF GapFree
  <2>6. NothingBehind(c)'
    <3>1. ASSUME NEW i \in DOMAIN log[Current(c)], NEW x \in Nat, x = log[Current(c)][i].seq,
                 x > lastSeq'[c]
          PROVE  Waiting(c, x)'
      BY <2>1, <2>3, <2>4, <3>1 DEF NothingBehind
    <3> QED
      BY <1>1, <2>1, <2>2, <3>1 DEF NothingBehind
  <2> QED
    BY <2>5, <2>6
<1> QED
  BY <1>1, <1>9, CompleteOthers

LEMMA CompleteStep ==
  ASSUME GapInv, [Next]_vars
  PROVE  Complete'
<1> USE DEF GapInv, hubVars, objVars, pubVars, gcVars, clientVars, histVars
<1>1. CursorInv'
  BY CursorInvNext
<1>2. ASSUME NEW p \in Publishers, PublisherNext(p)
      PROVE  Complete'
  <2>1. CASE (\E rm \in Rooms : Send(p, rm)) \/ Broadcast(p)
    BY <1>1, <2>1, CompleteAside DEF Send, Broadcast, StartPublish
  <2>2. ASSUME NEW rm \in Rooms, NEW o \in RoomObjs, PublishEnsureRoom(p, rm, o)
        PROVE  Complete'
    <3>1. /\ EnsureRoom(rm, o)
          /\ UNCHANGED <<log, start, lastSeq, delivered, missed, strayed, pc, sub, chan>>
      BY <2>2 DEF PublishEnsureRoom
    <3>2. \A x \in Rooms : table'[x] \in {table[x], NoObj} \/ log[table'[x]] = <<>>
      BY <3>1, EnsureRoomEmpty DEF CursorInv
    <3> QED
      BY <1>1, <3>1, <3>2, CompleteAside
  <2>3. CASE PublishLocked(p)
    BY <1>1, <2>3, CompletePublish
  <2> QED
    BY <1>2, <2>1, <2>2, <2>3 DEF PublisherNext
<1>3. CASE Tick \/ (\E found \in SUBSET Rooms : GCScan(found)) \/ UNCHANGED vars
  <2>1. UNCHANGED <<table, log, start, lastSeq, delivered, missed, strayed, pc, sub, chan>>
    BY <1>3 DEF Tick, GCScan, vars
  <2> QED
    BY <1>1, <2>1, CompleteAside
<1>4. CASE GCSweep
  <2>1. /\ UNCHANGED <<log, start, lastSeq, delivered, missed, strayed, pc, sub, chan>>
        /\ \A rm \in Rooms : table'[rm] \in {table[rm], NoObj}
    BY <1>4 DEF GCSweep
  <2> QED
    BY <1>1, <2>1, CompleteAside
<1>5. ASSUME NEW c \in Clients, ClientNext(c)
      PROVE  Complete'
  <2> USE DEF Goto
  <2>1. CASE Join(c) \/ Poll(c) \/ Subscribe(c) \/ Count(c) \/ Lookup(c) \/ Disconnect(c)
    <3>1. /\ UNCHANGED <<table, log, start, lastSeq, delivered, missed, strayed, sub, chan>>
          /\ pc'[c] # "live" /\ \A d \in Clients \ {c} : pc'[d] = pc[d]
      BY <2>1 DEF Join, Poll, Subscribe, Request, Count, Lookup, Disconnect, CursorInv,
         Typed, TypeOK, ClientTypes
    <3> QED
      BY <1>1, <3>1, CompleteAside
  <2>2. ASSUME NEW o \in RoomObjs, SubscribeEnsureRoom(c, o)
        PROVE  Complete'
    <3>1. /\ EnsureRoom(RoomOf[c], o) /\ RoomOf[c] \in Rooms
          /\ UNCHANGED <<log, start, lastSeq, delivered, missed, strayed, chan>>
          /\ pc'[c] # "live"
          /\ \A d \in Clients \ {c} : pc'[d] = pc[d] /\ sub'[d] = sub[d]
      BY <2>2, HubAssumption DEF SubscribeEnsureRoom, CursorInv, Typed, TypeOK, ClientTypes
    <3>2. \A x \in Rooms : table'[x] \in {table[x], NoObj} \/ log[table'[x]] = <<>>
      BY <3>1, EnsureRoomEmpty DEF CursorInv
    <3> QED
      BY <1>1, <3>1, <3>2, CompleteAside
  <2>3. CASE Register(c)
    <3>1. /\ UNCHANGED <<table, log, start, lastSeq, delivered, missed, sub, chan>>
          /\ strayed \subseteq strayed'
          /\ pc'[c] # "live" /\ \A d \in Clients \ {c} : pc'[d] = pc[d]
      BY <2>3 DEF Register, CursorInv, Typed, TypeOK, ClientTypes
    <3> QED
      BY <1>1, <3>1, CompleteAside
  <2>4. CASE Release(c)
    <3>1. /\ UNCHANGED <<table, log, start, lastSeq, delivered, missed, strayed>>
          /\ pc'[c] # "live"
          /\ \A d \in Clients \ {c} :
               pc'[d] = pc[d] /\ sub'[d] = sub[d] /\ chan'[d] = chan[d]
      BY <2>4 DEF Release, CursorInv, Typed, TypeOK, ClientTypes
    <3> QED
      BY <1>1, <3>1, CompleteAside
  <2> QED
    BY <1>5, <2>1, <2>2, <2>3, <2>4, CompleteReadSeq, CompleteReadMessages,
       CompleteReceive DEF ClientNext, HandlerStep
<1> QED
  BY <1>2, <1>3, <1>4, <1>5 DEF Next, GCNext

LEMMA GapInvariant == Spec => []GapInv
<1>1. Init => GapInv
  <2>1. Init => BuffersAscend /\ Registration
    BY DEF Init, BuffersAscend, Registration, Subscribed, Registered
  <2>2. Init => Timing /\ Cursors
    BY HubAssumption DEF Init, Timing, Cursors, Subscribed, Registered, Current
  <2>3. Init => EmptyUntilOwned /\ ChannelsAscend /\ StreamsReadARoom
    BY DEF Init, EmptyUntilOwned, ChannelsAscend, StreamsReadARoom
  <2>4. Init => Complete
    BY HubAssumption DEF Init, Complete, Current
  <2> QED
    BY <2>1, <2>2, <2>3, <2>4, TypedInit DEF GapInv, CursorInv
<1>2. GapInv /\ [Next]_vars => GapInv'
  BY CursorInvNext, EmptyStep, ChannelsAscendStep, StreamsReadStep, CompleteStep
     DEF GapInv, CursorInv
<1> QED
  BY <1>1, <1>2, PTL DEF Spec

\* Whatever a client's cursor has passed since /connect was delivered to it, was
\* dropped for it by a full channel, or had left the buffer before it read: the
\* overlap of catch-up and live stream hides nothing.
THEOREM NothingSkipped == Spec => []NoSilentGap
<1>1. GapInv => NoSilentGap
  BY CompleteMeans DEF GapInv
<1> QED
  BY <1>1, GapInvariant, PTL

\* While a stream is live, whatever is beyond its cursor waits in its channel,
\* was dropped for it by a full channel, or had left the buffer before it read.
THEOREM NothingStranded == Spec => []LiveComplete
<1>1. GapInv => LiveComplete
  BY CompleteMeans DEF GapInv
<1> QED
  BY <1>1, GapInvariant, PTL

-----------------------------------------------------------------------------
(* The hub implements RoomLog.  What a room has posted is what its objects *)
(* ever logged; a publish posts one number, a read or a live event shows   *)
(* numbers of the client's own room, and everything else, allocation and   *)
(* collection of objects included, is invisible.                           *)

\* Buffers, channels and views hold what was logged, in the client's room.
BuffersLogged == \A o \in RoomObjs : Seqs(messages[o]) \subseteq Seqs(log[o])

ChannelsLogged ==
  \A c \in Clients : Streaming(c) => Seqs(chan[c]) \subseteq Seqs(log[sub[c]])

ViewsPosted ==
  \A c \in Clients : \A k \in DOMAIN delivered[c] : delivered[c][k] \in Posted[RoomOf[c]]

LogInv == /\ Typed
          /\ BuffersAscend
          /\ Registration
          /\ InOrderOnce
          /\ EmptyUntilOwned
          /\ BuffersLogged
          /\ ChannelsLogged
          /\ ViewsPosted

\* What the object of a room has logged is posted to the room.
LEMMA LoggedIsPosted ==
  ASSUME NEW o \in RoomObjs, owner[o] \in Rooms
  PROVE  Seqs(log[o]) \subseteq Posted[owner[o]]
BY DEF Posted

\* A message published under the room's lock is logged once.
LEMMA PublishLogs ==
  ASSUME Typed, NEW p \in Publishers, PublishLocked(p)
  PROVE  LET o == pubObj[p]
         IN  /\ o \in RoomObjs /\ owner[o] \in Rooms
             /\ Seqs(log'[o]) = Seqs(log[o]) \cup {seq[o] + 1}
             /\ \A x \in RoomObjs \ {o} : log'[x] = log[x]
<1> DEFINE o == pubObj[p]
           m == [room |-> owner[o], seq |-> seq[o] + 1,
                 sender |-> pubSender[p], ts |-> pubTs[p]]
<1>1. o \in RoomObjs /\ owner[o] \in Rooms /\ m \in Message /\ m.seq = seq[o] + 1
  BY PublishedMessage DEF PublishLocked, Typed, Ownership
<1>2. /\ log'[o] = Append(log[o], m) /\ log[o] \in Seq(Message)
      /\ \A x \in RoomObjs \ {o} : log'[x] = log[x]
  BY <1>1 DEF PublishLocked, Typed, TypeOK, HistoryTypes
<1> HIDE DEF m
<1>3. /\ \A i \in DOMAIN log[o] : i \in DOMAIN log'[o] /\ log'[o][i] = log[o][i]
      /\ \E i \in DOMAIN log'[o] : log'[o][i] = m
      /\ \A i \in DOMAIN log'[o] : i \in DOMAIN log[o] \/ log'[o][i] = m
  <2> DEFINE s == log[o]
             t == Append(s, m)
  <2>1. s \in Seq(Message) /\ log'[o] = t
    BY <1>2
  <2>2. /\ \A i \in DOMAIN s : i \in DOMAIN t /\ t[i] = s[i]
        /\ Len(s) + 1 \in DOMAIN t /\ t[Len(s) + 1] = m
        /\ \A i \in DOMAIN t : i \in DOMAIN s \/ i = Len(s) + 1
    <3> HIDE DEF s
    <3> QED
      BY <1>1, <2>1, AppendEntries
  <2> HIDE DEF t
  <2> QED
    BY <2>1, <2>2
<1>4. Seqs(log'[o]) = Seqs(log[o]) \cup {m.seq}
  BY <1>3 DEF Seqs
<1> QED
  BY <1>1, <1>2, <1>4

\* What a step does to the posted numbers: nothing, or one more to one room.
LEMMA PostedStep ==
  ASSUME Typed, EmptyUntilOwned, [Next]_vars
  PROVE  \/ Posted' = Posted
         \/ /\ UNCHANGED delivered
            /\ \E rm \in Rooms, s \in Nat : Posted' = [Posted EXCEPT ![rm] = @ \cup {s}]
<1> USE DEF hubVars, objVars, pubVars, gcVars, clientVars, histVars
<1>1. ASSUME UNCHANGED <<owner, log>>
      PROVE  Posted' = Posted
  BY <1>1 DEF Posted
<1>2. ASSUME NEW rm \in Rooms, NEW o \in RoomObjs, EnsureRoom(rm, o), UNCHANGED log
      PROVE  Posted' = Posted
  <2>1. ASSUME NEW x \in Rooms, NEW y \in RoomObjs, Seqs(log[y]) # {}
        PROVE  owner'[y] = x <=> owner[y] = x
    <3>1. owner[y] # NoRoom
      BY <2>1 DEF EmptyUntilOwned, Seqs
    <3> QED
      BY <1>2, <3>1, EnsureRoomFrame
  <2>2. ASSUME NEW x \in Rooms
        PROVE  UNION {Seqs(log[y]) : y \in {z \in RoomObjs : owner'[z] = x}}
                 = UNION {Seqs(log[y]) : y \in {z \in RoomObjs : owner[z] = x}}
    BY <2>1
  <2> QED
    BY <1>2, <2>2 DEF Posted
<1>3. ASSUME NEW p \in Publishers, PublishLocked(p)
      PROVE  /\ UNCHANGED delivered
             /\ \E rm \in Rooms, s \in Nat : Posted' = [Posted EXCEPT ![rm] = @ \cup {s}]
  <2> DEFINE o == pubObj[p]
             s == seq[o] + 1
  <2>1. /\ o \in RoomObjs /\ owner[o] \in Rooms
        /\ Seqs(log'[o]) = Seqs(log[o]) \cup {s}
        /\ \A x \in RoomObjs \ {o} : log'[x] = log[x]
    BY <1>3, PublishLogs
  <2>2. s \in Nat /\ UNCHANGED <<owner, delivered>>
    BY <1>3, <2>1 DEF PublishLocked, Typed, TypeOK, HubTypes
  <2> HIDE DEF o, s
  <2>3. ASSUME NEW x \in Rooms
        PROVE  UNION {Seqs(log'[y]) : y \in {z \in RoomObjs : owner[z] = x}}
                 = IF x = owner[o] THEN Posted[x] \cup {s} ELSE Posted[x]
    <3>1. Posted[x] = UNION {Seqs(log[y]) : y \in {z \in RoomObjs : owner[z] = x}}
      BY DEF Posted
    <3> QED
      BY <2>1, <3>1
  <2>4. Posted' = [Posted EXCEPT ![owner[o]] = @ \cup {s}]
    <3>1. Posted' = [x \in Rooms |-> IF x = owner[o] THEN Posted[x] \cup {s} ELSE Posted[x]]
      BY <2>2, <2>3 DEF Posted
    <3>2. Posted = [x \in Rooms |-> Posted[x]]
      BY DEF Posted
    <3> QED
      BY <2>1, <3>1, <3>2
  <2> QED
    BY <2>1, <2>2, <2>4
<1>4. ASSUME NEW p \in Publishers, PublisherNext(p), ~PublishLocked(p)
      PROVE  Posted' = Posted
  BY <1>1, <1>2, <1>4 DEF PublisherNext, Send, Broadcast, StartPublish, PublishEnsureRoom
<1>5. ASSUME NEW c \in Clients, ClientNext(c)
      PROVE  Posted' = Posted
  <2>1. RoomOf[c] \in Rooms
    BY HubAssumption
  <2>2. CASE \E o \in RoomObjs : SubscribeEnsureRoom(c, o)
    BY <1>2, <2>1, <2>2 DEF SubscribeEnsureRoom
  <2>3. CASE Join(c) \/ Poll(c) \/ Subscribe(c) \/ Register(c) \/ Count(c) \/ Lookup(c)
    BY <1>1, <2>3 DEF Join, Poll, Subscribe, Request, Register, Count, Lookup
  <2>4. CASE ReadSeq(c) \/ ReadMessages(c) \/ Receive(c) \/ Disconnect(c) \/ Release(c)
    BY <1>1, <2>4 DEF ReadSeq, ReadMessages, Receive, Disconnect, Release
  <2> QED
    BY <1>5, <2>2, <2>3, <2>4 DEF ClientNext, HandlerStep
<1>6. CASE Tick \/ GCNext \/ UNCHANGED vars
  BY <1>1, <1>6 DEF Tick, GCNext, GCScan, GCSweep, vars
<1> QED
  BY <1>3, <1>4, <1>5, <1>6 DEF Next

\* Logs only grow.
LEMMA LogsGrow ==
  ASSUME Typed, [Next]_vars
  PROVE  \A o \in RoomObjs : Seqs(log[o]) \subseteq Seqs(log'[o])
<1> USE DEF hubVars, objVars, pubVars, gcVars, clientVars, histVars
<1>1. ASSUME NEW p \in Publishers, PublishLocked(p)
      PROVE  \A o \in RoomObjs : Seqs(log[o]) \subseteq Seqs(log'[o])
  BY <1>1, PublishLogs
<1>2. ASSUME NEW p \in Publishers, PublisherNext(p), ~PublishLocked(p)
      PROVE  UNCHANGED log
  BY <1>2 DEF PublisherNext, Send, Broadcast, StartPublish, PublishEnsureRoom
<1>3. ASSUME NEW c \in Clients, ClientNext(c)
      PROVE  UNCHANGED log
  <2>1. CASE Join(c) \/ Poll(c) \/ Subscribe(c) \/ Register(c) \/ Count(c) \/ Lookup(c)
             \/ \E o \in RoomObjs : SubscribeEnsureRoom(c, o)
    BY <2>1 DEF Join, Poll, Subscribe, Request, Register, Count, Lookup, SubscribeEnsureRoom
  <2>2. CASE ReadSeq(c) \/ ReadMessages(c) \/ Receive(c) \/ Disconnect(c) \/ Release(c)
    BY <2>2 DEF ReadSeq, ReadMessages, Receive, Disconnect, Release
  <2> QED
    BY <1>3, <2>1, <2>2 DEF ClientNext, HandlerStep
<1>4. CASE Tick \/ GCNext \/ UNCHANGED vars
  BY <1>4 DEF Tick, GCNext, GCScan, GCSweep, vars
<1> QED
  BY <1>1, <1>2, <1>3, <1>4 DEF Next

\* A buffer keeps some of what it held and of what is published.
LEMMA BuffersLoggedStep ==
  ASSUME Typed, BuffersLogged, [Next]_vars
  PROVE  BuffersLogged'
<1> USE DEF hubVars, objVars, pubVars, gcVars, clientVars, histVars
<1>1. ASSUME UNCHANGED messages
      PROVE  BuffersLogged'
  BY <1>1, LogsGrow DEF BuffersLogged
<1>2. ASSUME NEW p \in Publishers, PublishLocked(p)
      PROVE  BuffersLogged'
  <2> DEFINE o == pubObj[p]
             m == [room |-> owner[o], seq |-> seq[o] + 1,
                   sender |-> pubSender[p], ts |-> pubTs[p]]
             buf == Append(messages[o], m)
  <2>1. o \in RoomObjs /\ m \in Message /\ m.seq = seq[o] + 1
    BY <1>2, PublishedMessage DEF PublishLocked
  <2>2. PICK n \in 0..(Len(messages[o]) + 1) : messages' = [messages EXCEPT ![o] = Drop(buf, n)]
    BY <1>2, PublishedBuffer
  <2>3. messages[o] \in Seq(Message) /\ messages'[o] = Drop(buf, n)
        /\ \A x \in RoomObjs \ {o} : messages'[x] = messages[x]
    BY <2>1, <2>2 DEF Typed, TypeOK, HubTypes
  <2> HIDE DEF m
  <2>4. /\ buf \in Seq(Message) /\ Len(buf) = Len(messages[o]) + 1
        /\ \A i \in DOMAIN buf : buf[i].seq \in Seqs(messages[o]) \cup {m.seq}
    <3> DEFINE s == messages[o]
               t == Append(s, m)
    <3>1. s \in Seq(Message)
      BY <2>3
    <3>2. /\ t \in Seq(Message) /\ Len(t) = Len(s) + 1
          /\ \A i \in DOMAIN s : i \in DOMAIN t /\ t[i] = s[i]
          /\ Len(s) + 1 \in DOMAIN t /\ t[Len(s) + 1] = m
          /\ \A i \in DOMAIN t : i \in DOMAIN s \/ i = Len(s) + 1
      <4> HIDE DEF s
      <4> QED
        BY <2>1, <3>1, AppendEntries, AppendProperties
    <3> HIDE DEF t
    <3>3. \A i \in DOMAIN t : t[i].seq \in Seqs(s) \cup {m.seq}
      BY <3>2 DEF Seqs
    <3> QED
      BY <3>2, <3>3 DEF t
  <2> HIDE DEF buf
  <2>5. /\ n \in 0..Len(buf) /\ Len(Drop(buf, n)) = Len(buf) - n /\ Drop(buf, n) \in Seq(Message)
        /\ \A i \in 1..(Len(buf) - n) : Drop(buf, n)[i] = buf[i + n]
    BY <2>2, <2>4, DropType
  <2>6. \A i \in DOMAIN Drop(buf, n) : i + n \in DOMAIN buf /\ Drop(buf, n)[i] = buf[i + n]
    <3> DEFINE b == Drop(buf, n)
    <3>1. DOMAIN b = 1..(Len(buf) - n) /\ DOMAIN buf = 1..Len(buf) /\ Len(buf) \in Nat
      BY <2>4, <2>5
    <3>2. \A i \in 1..(Len(buf) - n) : i + n \in 1..Len(buf)
      BY <2>5, <3>1
    <3> QED
      BY <2>5, <3>1, <3>2
  <2>7. Seqs(messages'[o]) \subseteq Seqs(messages[o]) \cup {m.seq}
    BY <2>3, <2>4, <2>6 DEF Seqs
  <2>8. /\ Seqs(log'[o]) = Seqs(log[o]) \cup {m.seq}
        /\ \A x \in RoomObjs \ {o} : log'[x] = log[x]
    BY <1>2, <2>1, PublishLogs
  <2> HIDE DEF o
  <2> QED
    BY <2>1, <2>3, <2>7, <2>8 DEF BuffersLogged
<1>3. ASSUME NEW p \in Publishers, PublisherNext(p), ~PublishLocked(p)
      PROVE  UNCHANGED messages
  BY <1>3 DEF PublisherNext, Send, Broadcast, StartPublish, PublishEnsureRoom
<1>4. ASSUME NEW c \in Clients, ClientNext(c)
      PROVE  UNCHANGED messages
  <2>1. CASE Join(c) \/ Poll(c) \/ Subscribe(c) \/ Register(c) \/ Count(c) \/ Lookup(c)
             \/ \E o \in RoomObjs : SubscribeEnsureRoom(c, o)
    BY <2>1 DEF Join, Poll, Subscribe, Request, Register, Count, Lookup, SubscribeEnsureRoom
  <2>2. CASE ReadSeq(c) \/ ReadMessages(c) \/ Receive(c) \/ Disconnect(c) \/ Release(c)
    BY <2>2 DEF ReadSeq, ReadMessages, Receive, Disconnect, Release
  <2> QED
    BY <1>4, <2>1, <2>2 DEF ClientNext, HandlerStep
<1>5. CASE Tick \/ GCNext \/ UNCHANGED vars
  BY <1>1, <1>5 DEF Tick, GCNext, GCScan, GCSweep, vars
<1> QED
  BY <1>1, <1>2, <1>3, <1>4, <1>5 DEF Next

\* A fan-out brings a channel what its own object has just logged.
LEMMA ChannelsLoggedStep ==
  ASSUME Typed, Registration, ChannelsLogged, [Next]_vars
  PROVE  ChannelsLogged'
<1> USE DEF hubVars, objVars, pubVars, gcVars, clientVars, histVars
<1>1. ASSUME NEW c \in Clients, Streaming(c)', Streaming(c), sub'[c] = sub[c],
             Seqs(chan'[c]) \subseteq Seqs(chan[c])
      PROVE  Seqs(chan'[c]) \subseteq Seqs(log'[sub'[c]])
  <2>1. sub[c] \in RoomObjs
    BY <1>1 DEF Typed, Ownership
  <2> QED
    BY <1>1, <2>1, LogsGrow DEF ChannelsLogged
<1>2. ASSUME UNCHANGED <<pc, op, sub, chan>>
      PROVE  ChannelsLogged'
  BY <1>1, <1>2 DEF ChannelsLogged, Streaming
<1>3. ASSUME NEW p \in Publishers, PublishLocked(p)
      PROVE  ChannelsLogged'
  <2> DEFINE o == pubObj[p]
             m == [room |-> owner[o], seq |-> seq[o] + 1,
                   sender |-> pubSender[p], ts |-> pubTs[p]]
  <2>1. /\ o \in RoomObjs /\ m \in Message /\ m.seq = seq[o] + 1
        /\ \A c \in Clients :
             \/ chan'[c] = chan[c]
             \/ Streaming(c) /\ sub[c] = o /\ chan'[c] = Append(chan[c], m)
        /\ UNCHANGED <<pc, op, sub>>
    BY <1>3, FanOutReaches DEF PublishLocked
  <2>2. m.seq \in Seqs(log'[o])
    BY <1>3, <2>1, PublishLogs
  <2> HIDE DEF m, o
  <2>3. ASSUME NEW c \in Clients, Streaming(c), sub[c] = o, chan'[c] = Append(chan[c], m)
        PROVE  Seqs(chan'[c]) \subseteq Seqs(log'[sub'[c]])
    <3> DEFINE s == chan[c]
               t == Append(s, m)
    <3>1. s \in Seq(Message)
      BY DEF Typed, TypeOK, ClientTypes
    <3>2. \A i \in DOMAIN t : (i \in DOMAIN s /\ t[i] = s[i]) \/ t[i] = m
      <4> HIDE DEF s
      <4> QED
        BY <2>1, <3>1, AppendEntries
    <3> HIDE DEF t
    <3>3. Seqs(t) \subseteq Seqs(s) \cup {m.seq}
      BY <3>2 DEF Seqs
    <3>4. Seqs(chan[c]) \subseteq Seqs(log'[o])
      BY <2>1, <2>3, LogsGrow DEF ChannelsLogged
    <3> QED
      BY <2>1, <2>2, <2>3, <3>3, <3>4 DEF t
  <2>4. ASSUME NEW c \in Clients, Streaming(c)'
        PROVE  Seqs(chan'[c]) \subseteq Seqs(log'[sub'[c]])
    <3>1. Streaming(c) /\ sub'[c] = sub[c]
      BY <2>1, <2>4 DEF Streaming
    <3> QED
      BY <1>1, <2>1, <2>3, <2>4, <3>1
  <2> QED
    BY <2>4 DEF ChannelsLogged
<1>4. ASSUME NEW p \in Publishers, PublisherNext(p)
      PROVE  ChannelsLogged'
  BY <1>2, <1>3, <1>4 DEF PublisherNext, Send, Broadcast, StartPublish, PublishEnsureRoom
<1>5. ASSUME NEW c \in Clients, ClientNext(c)
      PROVE  ChannelsLogged'
  <2> USE DEF Request, Goto
  <2>1. ASSUME \A d \in Clients \ {c} :
                 pc'[d] = pc[d] /\ op'[d] = op[d] /\ sub'[d] = sub[d] /\ chan'[d] = chan[d],
               Streaming(c)' => Seqs(chan'[c]) \subseteq Seqs(log'[sub'[c]])
        PROVE  ChannelsLogged'
    <3>1. ASSUME NEW d \in Clients \ {c}, Streaming(d)'
          PROVE  Seqs(chan'[d]) \subseteq Seqs(log'[sub'[d]])
      <4>1. Streaming(d) /\ sub'[d] = sub[d] /\ chan'[d] = chan[d]
        BY <2>1, <3>1 DEF Streaming
      <4> QED
        BY <1>1, <3>1, <4>1
    <3> QED
      BY <2>1, <3>1 DEF ChannelsLogged
  <2>2. CASE Join(c) \/ Poll(c) \/ Subscribe(c)
    <3>1. /\ UNCHANGED <<sub, chan>> /\ ~Streaming(c)'
          /\ \A d \in Clients \ {c} : pc'[d] = pc[d] /\ op'[d] = op[d]
      BY <2>2 DEF Join, Poll, Subscribe, Streaming, Typed, TypeOK, ClientTypes
    <3> QED
      BY <2>1, <3>1
  <2>3. CASE \E o \in RoomObjs : SubscribeEnsureRoom(c, o)
    <3>1. /\ UNCHANGED <<op, chan>> /\ ~Streaming(c)
          /\ \A d \in Clients \ {c} : pc'[d] = pc[d] /\ sub'[d] = sub[d]
      BY <2>3 DEF SubscribeEnsureRoom, Streaming, Typed, TypeOK, ClientTypes
    <3>2. Seqs(chan'[c]) = {}
      BY <3>1 DEF Registration, Seqs
    <3> QED
      BY <2>1, <3>1, <3>2
  <2>4. CASE Register(c) \/ Count(c) \/ Lookup(c) \/ Disconnect(c) \/ ReadSeq(c) \/ ReadMessages(c)
    <3>1. /\ UNCHANGED <<op, sub, chan>> /\ (Streaming(c)' => Streaming(c))
          /\ \A d \in Clients \ {c} : pc'[d] = pc[d]
      BY <2>4 DEF Register, Count, Lookup, Disconnect, ReadSeq, ReadMessages, Streaming,
         Typed, TypeOK, ClientTypes
    <3> QED
      BY <1>1, <2>1, <3>1
  <2>5. CASE Receive(c)
    <3>1. /\ UNCHANGED <<pc, op, sub>> /\ pc[c] = "live"
          /\ chan[c] \in Seq(Message) /\ chan[c] # <<>> /\ chan'[c] = Tail(chan[c])
          /\ \A d \in Clients \ {c} : chan'[d] = chan[d]
      BY <2>5 DEF Receive, EventReady, Typed, TypeOK, ClientTypes
    <3>2. \A i \in DOMAIN chan'[c] : i + 1 \in DOMAIN chan[c] /\ chan'[c][i] = chan[c][i + 1]
      BY <3>1, TailOf
    <3>3. Seqs(chan'[c]) \subseteq Seqs(chan[c])
      BY <3>2 DEF Seqs
    <3>4. Streaming(c) /\ Streaming(c)'
      BY <3>1 DEF Streaming
    <3> QED
      BY <1>1, <2>1, <3>1, <3>3, <3>4
  <2>6. CASE Release(c)
    <3>1. /\ UNCHANGED op /\ chan'[c] = <<>>
          /\ \A d \in Clients \ {c} :
               pc'[d] = pc[d] /\ sub'[d] = sub[d] /\ chan'[d] = chan[d]
      BY <2>6 DEF Release, Typed, TypeOK, ClientTypes
    <3>2. Seqs(chan'[c]) = {}
      BY <3>1 DEF Seqs
    <3> QED
      BY <2>1, <3>1, <3>2
  <2> QED
    BY <1>5, <2>2, <2>3, <2>4, <2>5, <2>6 DEF ClientNext, HandlerStep
<1>6. CASE Tick \/ GCNext \/ UNCHANGED vars
  BY <1>2, <1>6 DEF Tick, GCNext, GCScan, GCSweep, vars
<1> QED
  BY <1>4, <1>5, <1>6 DEF Next

\* A step shows a client nothing, or starts its view again, or shows it more of
\* what its room has posted.
LEMMA ViewStep ==
  ASSUME LogInv, NEW c \in Clients, ReadMessages(c) \/ Receive(c)
  PROVE  /\ \A d \in Clients \ {c} : delivered'[d] = delivered[d]
         /\ \A k \in DOMAIN delivered[c] :
              k \in DOMAIN delivered'[c] /\ delivered'[c][k] = delivered[c][k]
         /\ \A k \in DOMAIN delivered'[c] :
              \/ k \in DOMAIN delivered[c] /\ delivered'[c][k] = delivered[c][k]
              \/ delivered'[c][k] \in Posted[RoomOf[c]]
<1> USE DEF LogInv
<1>1. RoomOf[c] \in Rooms /\ delivered[c] \in Seq(Nat)
  BY HubAssumption DEF Typed, TypeOK, HistoryTypes
<1>2. \A d \in Clients \ {c} : delivered'[d] = delivered[d]
  BY DEF ReadMessages, Receive, Typed, TypeOK, HistoryTypes
<1>3. CASE ReadMessages(c) /\ ptr[c] # NoObj
  <2>1. ptr[c] \in RoomObjs /\ owner[ptr[c]] = RoomOf[c]
    BY <1>3 DEF Typed, TypeOK, ClientTypes, Ownership
  <2>2. Seqs(messages[ptr[c]]) \subseteq Posted[RoomOf[c]]
    BY <1>1, <2>1, LoggedIsPosted DEF BuffersLogged
  <2> QED
    BY <1>2, <1>3, <2>2, ReadShows
<1>4. CASE ReadMessages(c) /\ ptr[c] = NoObj
  <2>1. delivered'[c] = delivered[c]
    BY <1>4, ReadNothing
  <2> QED
    BY <1>2, <2>1
<1>5. CASE Receive(c)
  <2> DEFINE s == Head(chan[c]).seq
  <2>1. /\ pc[c] = "live" /\ chan[c] \in Seq(Message) /\ chan[c] # <<>>
        /\ delivered'[c] = delivered[c] \/ delivered'[c] = Append(delivered[c], s)
    BY <1>5 DEF Receive, EventReady, Typed, TypeOK, ClientTypes, HistoryTypes
  <2>2. Head(chan[c]) = chan[c][1] /\ Head(chan[c]) \in Message /\ 1 \in DOMAIN chan[c]
    BY <2>1, TailOf
  <2>3. s \in Nat /\ s \in Seqs(chan[c])
    BY <2>2 DEF Message, Seqs
  <2>4. Streaming(c)
    BY <2>1 DEF Streaming
  <2>5. sub[c] \in RoomObjs /\ owner[sub[c]] = RoomOf[c]
    BY <2>4 DEF Typed, Ownership
  <2>6. s \in Posted[RoomOf[c]]
    BY <1>1, <2>3, <2>4, <2>5, LoggedIsPosted DEF ChannelsLogged
  <2> HIDE DEF s
  <2>7. CASE delivered'[c] = Append(delivered[c], s)
    <3> DEFINE d == delivered[c]
               e == <<s>>
               f == d \o e
    <3>1. e \in Seq(Nat) /\ \A k \in DOMAIN e : e[k] = s
      BY <2>3
    <3>2. delivered'[c] = f /\ d \in Seq(Nat)
      BY <1>1, <2>3, <2>7, AppendIsConcat
    <3>3. /\ \A k \in DOMAIN d : k \in DOMAIN f /\ f[k] = d[k]
          /\ \A k \in DOMAIN f : \/ k \in DOMAIN d /\ f[k] = d[k]
                                 \/ k - Len(d) \in DOMAIN e /\ f[k] = e[k - Len(d)]
      <4> HIDE DEF d, e
      <4> QED
        BY <3>1, <3>2, ConcatEntries
    <3> HIDE DEF e, f
    <3> QED
      BY <1>2, <2>6, <3>1, <3>2, <3>3
  <2> QED
    BY <1>2, <2>1, <2>7
<1> QED
  BY <1>3, <1>4, <1>5

\* Every other step but a new session leaves what was shown alone.
LEMMA ViewKept ==
  ASSUME [Next]_vars, ~\E c \in Clients : ReadSeq(c) \/ ReadMessages(c) \/ Receive(c)
  PROVE  UNCHANGED delivered
<1> USE DEF hubVars, objVars, pubVars, gcVars, clientVars, histVars
<1>1. ASSUME NEW p \in Publishers, PublisherNext(p)
      PROVE  UNCHANGED delivered
  BY <1>1 DEF PublisherNext, Send, Broadcast, StartPublish, PublishEnsureRoom, PublishLocked
<1>2. ASSUME NEW c \in Clients, ClientNext(c)
      PROVE  UNCHANGED delivered
  BY <1>2 DEF ClientNext, HandlerStep, Join, Poll, Subscribe, Request, SubscribeEnsureRoom,
     Register, Count, Lookup, Disconnect, Release
<1>3. CASE Tick \/ GCNext \/ UNCHANGED vars
  BY <1>3 DEF Tick, GCNext, GCScan, GCSweep, vars
<1> QED
  BY <1>1, <1>2, <1>3 DEF Next

\* A new session starts with an empty view.
LEMMA ViewReset ==
  ASSUME Typed, NEW c \in Clients, ReadSeq(c)
  PROVE  delivered' = [delivered EXCEPT ![c] = <<>>]
BY DEF ReadSeq

LEMMA ViewsPostedStep ==
  ASSUME LogInv, [Next]_vars
  PROVE  ViewsPosted'
<1> USE DEF LogInv
<1>1. \A rm \in Rooms : Posted[rm] \subseteq Posted'[rm]
  BY PostedStep DEF Posted
<1>2. \A c \in Clients : RoomOf[c] \in Rooms
  BY HubAssumption
<1>3. \A c \in Clients : \A k \in DOMAIN delivered[c] : delivered[c][k] \in Posted'[RoomOf[c]]
  BY <1>1, <1>2 DEF ViewsPosted
<1>4. ASSUME NEW c \in Clients, ReadSeq(c)
      PROVE  ViewsPosted'
  <2>1. /\ delivered'[c] = <<>> /\ DOMAIN <<>> = {}
        /\ \A d \in Clients \ {c} : delivered'[d] = delivered[d]
    BY <1>4, ViewReset DEF Typed, TypeOK, HistoryTypes
  <2> QED
    BY <1>3, <2>1 DEF ViewsPosted
<1>5. ASSUME NEW c \in Clients, ReadMessages(c) \/ Receive(c)
      PROVE  ViewsPosted'
  <2>1. /\ \A d \in Clients \ {c} : delivered'[d] = delivered[d]
        /\ \A k \in DOMAIN delivered'[c] :
              \/ k \in DOMAIN delivered[c] /\ delivered'[c][k] = delivered[c][k]
              \/ delivered'[c][k] \in Posted[RoomOf[c]]
    BY <1>5, ViewStep
  <2> QED
    BY <1>1, <1>2, <1>3, <2>1 DEF ViewsPosted
<1>6. CASE ~\E c \in Clients : ReadSeq(c) \/ ReadMessages(c) \/ Receive(c)
  BY <1>3, <1>6, ViewKept DEF ViewsPosted
<1> QED
  BY <1>4, <1>5, <1>6

LEMMA LogInvariant == Spec => []LogInv
<1>1. Init => LogInv
  <2>1. Init => BuffersAscend /\ Registration /\ EmptyUntilOwned
    BY DEF Init, BuffersAscend, Registration, Subscribed, Registered, EmptyUntilOwned
  <2>2. Init => InOrderOnce
    BY DEF Init, InOrderOnce, InOrder
  <2>3. Init => BuffersLogged /\ ChannelsLogged /\ ViewsPosted
    BY DEF Init, BuffersLogged, ChannelsLogged, ViewsPosted, Streaming
  <2> QED
    BY <2>1, <2>2, <2>3, TypedInit DEF LogInv
<1>2. LogInv /\ [Next]_vars => LogInv'
  <2>1. LogInv /\ [Next]_vars => InOrderOnce'
    BY InOrderStep DEF LogInv, InOrderInv
  <2> QED
    BY <2>1, TypedNext, AscendStep, RegistrationStep, EmptyStep, BuffersLoggedStep,
       ChannelsLoggedStep, ViewsPostedStep DEF LogInv
<1> QED
  BY <1>1, <1>2, PTL DEF Spec

\* Every step of the hub is a step of RoomLog or invisible to it.
LEMMA RoomLogStep ==
  ASSUME LogInv, LogInv', [Next]_vars
  PROVE  [RL!Next]_<<Posted, delivered>>
<1> USE DEF LogInv
<1>1. ASSUME UNCHANGED delivered,
             NEW rm \in Rooms, NEW s \in Nat, Posted' = [Posted EXCEPT ![rm] = @ \cup {s}]
      PROVE  RL!Post(rm)
  <2>1. s \in Posted'[rm]
    BY <1>1 DEF Posted
  <2> QED
    BY <1>1, <2>1 DEF RL!Post
<1>2. ASSUME NEW c \in Clients, ReadSeq(c), Posted' = Posted
      PROVE  RL!Reconnect(c)
  BY <1>2, ViewReset DEF RL!Reconnect
<1>3. ASSUME NEW c \in Clients, ReadMessages(c) \/ Receive(c), Posted' = Posted
      PROVE  RL!Show(c)
  <2>1. /\ \A d \in Clients \ {c} : delivered'[d] = delivered[d]
        /\ \A k \in DOMAIN delivered[c] :
             k \in DOMAIN delivered'[c] /\ delivered'[c][k] = delivered[c][k]
    BY <1>3, ViewStep
  <2>2. RL!Ascending(delivered'[c])
    BY DEF InOrderOnce, InOrder, RL!Ascending
  <2>3. \A k \in DOMAIN delivered'[c] : delivered'[c][k] \in Posted[RoomOf[c]]
    BY <1>3 DEF ViewsPosted
  <2> QED
    BY <1>3, <2>1, <2>2, <2>3 DEF RL!Show
<1>4. CASE Posted' # Posted
  BY <1>1, <1>4, PostedStep DEF RL!Next
<1>5. CASE Posted' = Posted
  <2>1. CASE \E c \in Clients : ReadSeq(c) \/ ReadMessages(c) \/ Receive(c)
    BY <1>2, <1>3, <1>5, <2>1 DEF RL!Next
  <2>2. CASE ~\E c \in Clients : ReadSeq(c) \/ ReadMessages(c) \/ Receive(c)
    BY <1>5, <2>2, ViewKept
  <2> QED
    BY <2>1, <2>2
<1> QED
  BY <1>4, <1>5

\* To its clients the hub is a plain log per room: what a client is shown since
\* its last /connect is an ascending selection of what was posted to the one
\* room its token names, whatever objects, channels and GC do underneath.
THEOREM HubImplementsRoomLog == Spec => ImplementsRoomLog
<1>1. Init => RL!Init
  <2>1. ASSUME Init
        PROVE  Posted = [rm \in Rooms |-> {}]
    <3>1. \A o \in RoomObjs : Seqs(log[o]) = {}
      BY <2>1 DEF Init, Seqs
    <3> QED
      BY <3>1 DEF Posted
  <2> QED
    BY <2>1 DEF Init, RL!Init
<1>2. LogInv /\ LogInv' /\ [Next]_vars => [RL!Next]_<<Posted, delivered>>
  BY RoomLogStep
<1> QED
  BY <1>1, <1>2, LogInvariant, PTL DEF Spec, ImplementsRoomLog, RL!Spec

-----------------------------------------------------------------------------
(* What pruning leaves.  Timestamps are taken before the lock, so they do  *)
(* not ascend along a log; but a message is published at most MaxDelay     *)
(* after its timestamp, so an earlier one is at most MaxDelay younger than *)
(* a later one, and whatever the binary search drops is nearly as old as   *)
(* the message it stops at.                                                *)

Stamped ==
  \A o \in RoomObjs :
    /\ \A i \in DOMAIN log[o] : log[o][i].ts <= now
    /\ \A i, j \in DOMAIN log[o] : i < j => log[o][i].ts <= log[o][j].ts + MaxDelay

BuffersWithinLogs == \A o \in RoomObjs : Len(messages[o]) <= Len(log[o])

TailInv == /\ Typed
           /\ Timing
           /\ EmptyUntilOwned
           /\ BuffersWithinLogs
           /\ BufferIsTail
           /\ Stamped
           /\ FreshKept

LEMMA DropAppend ==
  ASSUME NEW S, NEW s \in Seq(S), NEW m \in S, NEW n \in 0..Len(s)
  PROVE  Append(Drop(s, n), m) = Drop(Append(s, m), n)
<1> DEFINE d == Drop(s, n)
           u == Append(d, m)
           t == Append(s, m)
           v == Drop(t, n)
<1>1. /\ d \in Seq(S) /\ Len(d) = Len(s) - n
      /\ \A i \in 1..(Len(s) - n) : d[i] = s[i + n]
  BY DropType
<1> HIDE DEF d
<1>2. /\ u \in Seq(S) /\ Len(u) = Len(d) + 1 /\ u[Len(d) + 1] = m
      /\ \A i \in 1..Len(d) : u[i] = d[i]
  BY <1>1, AppendProperties
<1>3. /\ t \in Seq(S) /\ Len(t) = Len(s) + 1 /\ t[Len(s) + 1] = m
      /\ \A i \in 1..Len(s) : t[i] = s[i]
  BY AppendProperties
<1> HIDE DEF t, u
<1>4. n \in 0..Len(t)
  BY <1>3
<1>5. /\ v \in Seq(S) /\ Len(v) = Len(t) - n
      /\ \A i \in 1..(Len(t) - n) : v[i] = t[i + n]
  BY <1>3, <1>4, DropType
<1> HIDE DEF v
<1>6. Len(u) = Len(v) /\ Len(u) = Len(s) - n + 1
  BY <1>1, <1>2, <1>3, <1>5
<1>7. ASSUME NEW i \in 1..Len(u)
      PROVE  u[i] = v[i]
  <2>1. CASE i = Len(s) - n + 1
    <3>1. i = Len(d) + 1 /\ i + n = Len(s) + 1 /\ i \in 1..(Len(t) - n)
      BY <1>1, <1>3, <1>6, <2>1
    <3> QED
      BY <1>2, <1>3, <1>5, <3>1
  <2>2. CASE i # Len(s) - n + 1
    <3>1. i \in 1..(Len(s) - n) /\ i + n \in 1..Len(s) /\ i \in 1..(Len(t) - n) /\ i \in 1..Len(d)
      BY <1>1, <1>3, <1>6, <2>2
    <3> QED
      BY <1>1, <1>2, <1>3, <1>5, <3>1
  <2> QED
    BY <2>1, <2>2
<1>8. u = v
  BY <1>2, <1>5, <1>6, <1>7, SeqEqual
<1> QED
  BY <1>8 DEF u, v, t, d

\* Pruning drops what the search points at, or all but the cap.
LEMMA PrunedByAgeOrCount ==
  ASSUME NEW S, NEW s \in Seq(S), NEW i \in 0..Len(s)
  PROVE  \E n \in 0..Len(s) : /\ Pruned(s, i) = Drop(s, n)
                              /\ Len(s) - n <= MaxBufferSize
                              /\ n = i \/ Len(s) - n = MaxBufferSize
<1> USE HubAssumption
<1> DEFINE fresh == Drop(s, i)
           n == Len(fresh) - MaxBufferSize
<1>1. Len(fresh) = Len(s) - i
  BY DropType
<1>2. CASE Len(fresh) > MaxBufferSize
  <2>1. /\ n \in 0..(Len(s) - i)
        /\ i + n \in 0..Len(s)
        /\ Len(s) - (i + n) = MaxBufferSize
    BY <1>1, <1>2
  <2>2. Pruned(s, i) = Drop(s, i + n)
    BY <1>2, <2>1, DropDrop DEF Pruned
  <2>3. Len(s) - (i + n) <= MaxBufferSize
    BY <2>1
  <2> QED
    BY <2>1, <2>2, <2>3
<1>3. CASE ~(Len(fresh) > MaxBufferSize)
  BY <1>1, <1>3 DEF Pruned
<1> QED
  BY <1>2, <1>3

\* What is at or before the search's index is older than the TTL, give or take
\* the delay between a timestamp and the lock.
LEMMA PrunedIsOld ==
  ASSUME NEW buf \in Seq(Message), NEW i \in 0..Len(buf), NEW q \in 1..i,
         now \in Nat, MaxDelay \in Nat, TTL \in Nat,
         i > 0 => ~WithinTTL(buf[i]),
         \A j, k \in DOMAIN buf : j < k => buf[j].ts <= buf[k].ts + MaxDelay
  PROVE  ~(now - buf[q].ts <= TTL - MaxDelay)
<1>1. /\ i \in DOMAIN buf /\ q \in DOMAIN buf /\ i > 0 /\ (q = i \/ q < i)
  OBVIOUS
<1>2. buf[i].ts \in Nat /\ buf[q].ts \in Nat
  BY <1>1, MessageFields
<1>3. ~(buf[i].ts >= now - TTL)
  BY <1>1 DEF WithinTTL
<1>4. q = i \/ buf[q].ts <= buf[i].ts + MaxDelay
  BY <1>1
<1> QED
  BY <1>2, <1>3, <1>4

\* What Append(s, m) holds.
LEMMA AppendHolds ==
  ASSUME NEW S, NEW s \in Seq(S), NEW m \in S, NEW l \in Nat, l = Len(s)
  PROVE  /\ Append(s, m) \in Seq(S) /\ Len(Append(s, m)) = l + 1
         /\ DOMAIN Append(s, m) = 1..(l + 1)
         /\ Append(s, m)[l + 1] = m /\ \A j \in 1..l : Append(s, m)[j] = s[j]
<1> DEFINE u == Append(s, m)
<1>1. /\ u \in Seq(S) /\ Len(u) = l + 1
      /\ u[l + 1] = m /\ \A j \in 1..l : u[j] = s[j]
  BY AppendProperties
<1> HIDE DEF u
<1>2. DOMAIN u = 1..(l + 1)
  BY <1>1
<1> QED
  BY <1>1, <1>2 DEF u

LEMMA NumberedAppend ==
  ASSUME NEW s \in Seq(Message), NEW m \in Message, NEW l \in Nat, l = Len(s),
         NEW k \in Nat, m.seq = k + 1, \A j \in 1..l : s[j].seq = k - (l - j)
  PROVE  \A j \in 1..(l + 1) : Append(s, m)[j].seq = (k + 1) - ((l + 1) - j)
<1> DEFINE u == Append(s, m)
<1>1. u[l + 1] = m /\ \A j \in 1..l : u[j] = s[j]
  BY AppendHolds
<1> HIDE DEF u
<1>2. ASSUME NEW j \in 1..l
      PROVE  u[j].seq = (k + 1) - ((l + 1) - j)
  <2>1. u[j].seq = k - (l - j)
    BY <1>1
  <2> QED
    BY <2>1
<1>3. u[l + 1].seq = (k + 1) - ((l + 1) - (l + 1))
  BY <1>1
<1>4. \A j \in 1..(l + 1) : j \in 1..l \/ j = l + 1
  OBVIOUS
<1> QED
  BY <1>2, <1>3, <1>4 DEF u

LEMMA StampedAppend ==
  ASSUME NEW s \in Seq(Message), NEW m \in Message, NEW l \in Nat, l = Len(s),
         NEW t \in Nat, NEW w \in Nat, m.ts <= t, t <= m.ts + w,
         \A j \in 1..l : s[j].ts <= t,
         \A j, k \in 1..l : j < k => s[j].ts <= s[k].ts + w
  PROVE  /\ \A j \in 1..(l + 1) : Append(s, m)[j].ts <= t
         /\ \A j, k \in 1..(l + 1) : j < k => Append(s, m)[j].ts <= Append(s, m)[k].ts + w
<1> DEFINE u == Append(s, m)
<1>1. u[l + 1] = m /\ \A j \in 1..l : u[j] = s[j]
  BY AppendHolds
<1> HIDE DEF u
<1>2. ASSUME NEW j \in 1..l
      PROVE  u[j].ts <= t /\ u[j].ts <= u[l + 1].ts + w
  <2>1. s[j] \in Message /\ m.ts \in Nat
    <3>1. s[j] \in Message
      OBVIOUS
    <3> QED
      BY <3>1 DEF Message
  <2>2. s[j].ts \in Nat /\ s[j].ts <= t
    BY <2>1, MessageFields
  <2> QED
    BY <1>1, <2>1, <2>2
<1>3. \A j \in 1..(l + 1) : j \in 1..l \/ j = l + 1
  OBVIOUS
<1>4. \A j, k \in 1..(l + 1) : j < k => j \in 1..l /\ (k \in 1..l \/ k = l + 1)
  OBVIOUS
<1>5. \A j, k \in 1..l : j < k => u[j].ts <= u[k].ts + w
  BY <1>1
<1>6. \A j \in 1..(l + 1) : u[j].ts <= t
  BY <1>1, <1>2, <1>3
<1>7. \A j, k \in 1..(l + 1) : j < k => u[j].ts <= u[k].ts + w
  BY <1>2, <1>4, <1>5
<1> QED
  BY <1>6, <1>7 DEF u

\* A message young enough and among the last MaxBufferSize is kept: a is the log
\* and u the buffer, both with the new message, b and l their lengths before.
LEMMA FreshSurvives ==
  ASSUME NEW a \in Seq(Message), NEW u \in Seq(Message),
         NEW l \in Nat, NEW b \in Nat, Len(a) = l + 1, Len(u) = b + 1, b <= l,
         \A j \in 1..(b + 1) : u[j] = a[j + (l - b)],
         now \in Nat, MaxDelay \in Nat, TTL \in Nat, MaxBufferSize \in Nat,
         \A j, k \in 1..(l + 1) : j < k => a[j].ts <= a[k].ts + MaxDelay,
         NEW i \in 0..(b + 1), i > 0 => ~WithinTTL(u[i]),
         NEW n \in 0..(b + 1), n = i \/ (b + 1) - n = MaxBufferSize,
         NEW k \in 1..(l + 1),
         now - a[k].ts <= TTL - MaxDelay, (l + 1) - k < MaxBufferSize,
         k <= l => l - k < b
  PROVE  (l + 1) - k < (b + 1) - n
<1>1. CASE (b + 1) - n = MaxBufferSize
  BY <1>1
<1>2. CASE n = i /\ k > (l - b) + i
  BY <1>2
<1>3. CASE n = i /\ k <= (l - b) + i
  <2>1. k > l - b
    OBVIOUS
  <2>2. PICK q \in 1..i : q + (l - b) = k
    <3>1. k - (l - b) \in 1..i /\ (k - (l - b)) + (l - b) = k
      BY <1>3, <2>1
    <3> QED
      BY <3>1
  <2>3. q \in 1..(b + 1) /\ u[q] = a[k]
    <3>1. q \in 1..(b + 1)
      BY <2>2
    <3>2. u[q] = a[q + (l - b)]
      BY <3>1
    <3> QED
      BY <2>2, <3>1, <3>2
  <2>4. \A j, h \in DOMAIN u : j < h => u[j].ts <= u[h].ts + MaxDelay
    <3>1. DOMAIN u = 1..(b + 1)
      OBVIOUS
    <3>2. ASSUME NEW j \in 1..(b + 1), NEW h \in 1..(b + 1), j < h
          PROVE  u[j].ts <= u[h].ts + MaxDelay
      <4>1. PICK x \in 1..(l + 1), y \in 1..(l + 1) :
              x = j + (l - b) /\ y = h + (l - b) /\ x < y
        BY <3>2
      <4>2. u[j] = a[x] /\ u[h] = a[y]
        BY <4>1
      <4> QED
        BY <4>1, <4>2
    <3> QED
      BY <3>1, <3>2
  <2>5. i \in 0..Len(u)
    OBVIOUS
  <2>6. ~(now - u[q].ts <= TTL - MaxDelay)
    BY <2>4, <2>5, PrunedIsOld
  <2> QED
    BY <2>3, <2>6
<1> QED
  BY <1>1, <1>2, <1>3

\* One more message under the next seq, and some prefix of the buffer dropped.
LEMMA TailPublish ==
  ASSUME TailInv, NEW p \in Publishers, PublishLocked(p)
  PROVE  BuffersWithinLogs' /\ BufferIsTail' /\ Stamped' /\ FreshKept'
<1> DEFINE M(x) == [room |-> owner[x], seq |-> seq[x] + 1,
                    sender |-> pubSender[p], ts |-> pubTs[p]]
<1>1. PICK o \in RoomObjs, m \in Message, s \in Seq(Message), t \in Seq(Message),
           k \in Nat, l \in Nat, b \in Nat :
        /\ o = pubObj[p] /\ m = M(o) /\ s = log[o] /\ t = messages[o] /\ k = seq[o]
        /\ m.seq = k + 1 /\ m.ts = pubTs[p]
        /\ l = Len(s) /\ b = Len(t)
  <2>1. /\ pubObj[p] \in RoomObjs /\ seq[pubObj[p]] \in Nat
        /\ messages[pubObj[p]] \in Seq(Message)
        /\ M(pubObj[p]) \in Message /\ M(pubObj[p]).seq = seq[pubObj[p]] + 1
        /\ M(pubObj[p]).ts = pubTs[p]
    BY PublishedMessage DEF PublishLocked, TailInv
  <2>2. log[pubObj[p]] \in Seq(Message)
    BY <2>1 DEF TailInv, Typed, TypeOK, HubTypes, HistoryTypes
  <2>3. Len(log[pubObj[p]]) \in Nat /\ Len(messages[pubObj[p]]) \in Nat
    BY <2>1, <2>2, LenProperties
  <2> HIDE DEF M
  <2> QED
    BY <2>1, <2>2, <2>3
<1>2. /\ UNCHANGED now
      /\ log'[o] = Append(s, m) /\ seq'[o] = k + 1
      /\ \A x \in RoomObjs \ {o} :
           log'[x] = log[x] /\ seq'[x] = seq[x] /\ messages'[x] = messages[x]
  BY <1>1 DEF PublishLocked, TailInv, Typed, TypeOK, HubTypes, HistoryTypes
<1>3. PICK i \in 0..Len(Append(t, m)) : /\ i > 0 => ~WithinTTL(Append(t, m)[i])
                                       /\ messages'[o] = Pruned(Append(t, m), i)
  <2> DEFINE buf == Append(messages[pubObj[p]], M(pubObj[p]))
  <2>1. PICK i \in SearchIndex(Len(buf), LAMBDA j : WithinTTL(buf[j])) :
          messages' = [messages EXCEPT ![pubObj[p]] = Pruned(buf, i)]
    BY DEF PublishLocked
  <2>2. i \in 0..Len(buf) /\ (i > 0 => ~WithinTTL(buf[i]))
    BY <2>1 DEF SearchIndex
  <2>3. messages'[o] = Pruned(buf, i)
    BY <1>1, <2>1 DEF TailInv, Typed, TypeOK, HubTypes
  <2>4. buf = Append(t, m)
    BY <1>1
  <2> HIDE DEF buf
  <2> QED
    BY <2>2, <2>3, <2>4
<1> HIDE DEF M
<1>4. /\ m.ts <= now /\ now <= m.ts + MaxDelay /\ now \in Nat /\ m.ts \in Nat
      /\ MaxDelay \in Nat /\ TTL \in Nat /\ MaxBufferSize \in Nat
  <2>1. now \in Nat /\ pubTs[p] \in Nat
    BY DEF TailInv, Typed, TypeOK, HubTypes, PublisherTypes, HistoryTypes
  <2>2. pubTs[p] <= now /\ now <= pubTs[p] + MaxDelay
    BY DEF TailInv, Timing, PublishLocked
  <2> QED
    BY <1>1, <2>1, <2>2, HubAssumption
<1>5. /\ b <= l /\ t = Drop(s, l - b)
      /\ \A j \in 1..l : s[j].seq = k - (l - j)
      /\ \A j \in 1..l : s[j].ts <= now
      /\ \A j, h \in 1..l : j < h => s[j].ts <= s[h].ts + MaxDelay
      /\ \A j \in 1..l : (now - s[j].ts <= TTL - MaxDelay /\ l - j < MaxBufferSize) => l - j < b
  <2>1. DOMAIN s = 1..l
    BY <1>1
  <2>2. b <= l /\ t = Drop(s, l - b) /\ \A j \in DOMAIN s : s[j].seq = k - (l - j)
    BY <1>1 DEF TailInv, BuffersWithinLogs, BufferIsTail
  <2>3. /\ \A j \in DOMAIN s : s[j].ts <= now
        /\ \A j, h \in DOMAIN s : j < h => s[j].ts <= s[h].ts + MaxDelay
    BY <1>1 DEF TailInv, Stamped
  <2>4. \A j \in DOMAIN s :
          (now - s[j].ts <= TTL - MaxDelay /\ l - j < MaxBufferSize) => l - j < b
    BY <1>1 DEF TailInv, FreshKept
  <2> QED
    BY <2>1, <2>2, <2>3, <2>4
<1>6. PICK a \in Seq(Message), u \in Seq(Message) :
        /\ a = Append(s, m) /\ u = Append(t, m)
        /\ Len(a) = l + 1 /\ Len(u) = b + 1 /\ DOMAIN a = 1..(l + 1)
        /\ a[l + 1] = m /\ \A j \in 1..l : a[j] = s[j]
  <2>1. /\ Append(s, m) \in Seq(Message) /\ Len(Append(s, m)) = l + 1
        /\ DOMAIN Append(s, m) = 1..(l + 1)
        /\ Append(s, m)[l + 1] = m /\ \A j \in 1..l : Append(s, m)[j] = s[j]
    BY <1>1, AppendHolds
  <2>2. Append(t, m) \in Seq(Message) /\ Len(Append(t, m)) = b + 1
    BY <1>1, AppendHolds
  <2> QED
    BY <2>1, <2>2
<1>7. i \in 0..(b + 1) /\ (i > 0 => ~WithinTTL(u[i])) /\ messages'[o] = Pruned(u, i)
  BY <1>3, <1>6
<1>8. PICK n \in 0..(b + 1) : /\ Pruned(u, i) = Drop(u, n)
                              /\ (b + 1) - n <= MaxBufferSize
                              /\ n = i \/ (b + 1) - n = MaxBufferSize
  <2>1. i \in 0..Len(u)
    BY <1>6, <1>7
  <2>2. PICK n \in 0..Len(u) : /\ Pruned(u, i) = Drop(u, n)
                               /\ Len(u) - n <= MaxBufferSize
                               /\ n = i \/ Len(u) - n = MaxBufferSize
    BY <2>1, PrunedByAgeOrCount
  <2> QED
    BY <1>6, <2>2
<1>lens. b <= l /\ n \in 0..(b + 1) /\ (b + 1) - n <= l + 1
  <2>1. b <= l
    BY <1>5
  <2>2. n \in 0..(b + 1)
    BY <1>8
  <2> QED
    BY <2>1, <2>2
<1>9. /\ u = Drop(a, l - b)
      /\ messages'[o] = Drop(a, (l + 1) - ((b + 1) - n))
      /\ Len(messages'[o]) = (b + 1) - n
  <2>1. PICK d \in 0..l : d = l - b
    <3>1. l - b \in 0..l
      BY <1>lens
    <3> QED
      BY <3>1
  <2>2. PICK e \in 0..(l + 1) : e = (l + 1) - ((b + 1) - n)
    <3>1. (l + 1) - ((b + 1) - n) \in 0..(l + 1)
      BY <1>lens
    <3> QED
      BY <3>1
  <2>3. /\ d \in 0..Len(s) /\ d \in 0..Len(a) /\ e \in 0..Len(a)
        /\ n \in 0..(Len(a) - d) /\ d + n = e /\ Len(a) - e = (b + 1) - n
    <3>1. Len(s) = l /\ Len(a) = l + 1
      BY <1>1, <1>6
    <3>2. d + n = e /\ n \in 0..((l + 1) - d) /\ d \in 0..(l + 1) /\ (l + 1) - e = (b + 1) - n
      BY <1>lens, <2>1, <2>2
    <3> QED
      BY <3>1, <3>2
  <2>4. Append(Drop(s, d), m) = Drop(Append(s, m), d)
    BY <2>3, DropAppend
  <2>5. u = Drop(a, d)
    BY <1>5, <1>6, <2>1, <2>4
  <2>6. Drop(Drop(a, d), n) = Drop(a, d + n)
    BY <2>3, DropDrop
  <2>7. Len(Drop(a, e)) = Len(a) - e
    BY <2>3, DropType
  <2>8. messages'[o] = Drop(a, e) /\ Len(messages'[o]) = (b + 1) - n
    BY <1>7, <1>8, <2>3, <2>5, <2>6, <2>7
  <2> QED
    BY <2>1, <2>2, <2>5, <2>8
<1>10. \A j \in 1..(l + 1) : a[j].seq = (k + 1) - ((l + 1) - j)
  <2>1. \A j \in 1..(l + 1) : Append(s, m)[j].seq = (k + 1) - ((l + 1) - j)
    <3>1. l = Len(s) /\ m.seq = k + 1
      BY <1>1
    <3>2. \A j \in 1..l : s[j].seq = k - (l - j)
      BY <1>5
    <3> QED
      BY <3>1, <3>2, NumberedAppend
  <2> QED
    BY <1>6, <2>1
<1>11. /\ \A j \in 1..(l + 1) : a[j].ts <= now
       /\ \A j, h \in 1..(l + 1) : j < h => a[j].ts <= a[h].ts + MaxDelay
  <2>1. /\ \A j \in 1..(l + 1) : Append(s, m)[j].ts <= now
        /\ \A j, h \in 1..(l + 1) : j < h => Append(s, m)[j].ts <= Append(s, m)[h].ts + MaxDelay
    <3>1. l = Len(s)
      BY <1>1
    <3>2. now \in Nat /\ MaxDelay \in Nat /\ m.ts <= now /\ now <= m.ts + MaxDelay
      BY <1>4
    <3>3. /\ \A j \in 1..l : s[j].ts <= now
          /\ \A j, h \in 1..l : j < h => s[j].ts <= s[h].ts + MaxDelay
      BY <1>5
    <3> QED
      BY <3>1, <3>2, <3>3, StampedAppend
  <2> QED
    BY <1>6, <2>1
<1>12. \A j \in 1..(b + 1) : u[j] = a[j + (l - b)]
  <2>1. PICK d \in 0..(l + 1) : d = l - b /\ (l + 1) - d = b + 1
    <3>1. l - b \in 0..(l + 1) /\ (l + 1) - (l - b) = b + 1
      BY <1>lens
    <3> QED
      BY <3>1
  <2>2. \A j \in 1..(Len(a) - d) : Drop(a, d)[j] = a[j + d]
    <3>1. d \in 0..Len(a)
      BY <1>6, <2>1
    <3> QED
      BY <3>1, DropType
  <2> QED
    BY <1>6, <1>9, <2>1, <2>2
<1>13. ASSUME NEW h \in 1..(l + 1),
              now - a[h].ts <= TTL - MaxDelay, (l + 1) - h < MaxBufferSize
       PROVE  (l + 1) - h < (b + 1) - n
  <2>1. ASSUME h <= l
        PROVE  l - h < b
    <3>1. h \in 1..l /\ l - h < MaxBufferSize
      BY <1>4, <1>13, <2>1
    <3>2. a[h] = s[h]
      BY <1>6, <3>1
    <3> QED
      BY <1>5, <1>13, <3>1, <3>2
  <2> QED
    BY <1>4, <1>5, <1>6, <1>7, <1>8, <1>11, <1>12, <1>13, <2>1, FreshSurvives
<1>14. log'[o] = a
  BY <1>2, <1>6
<1>15. BuffersWithinLogs'
  <2>1. Len(messages'[o]) <= Len(log'[o])
    BY <1>6, <1>9, <1>14, <1>lens
  <2> QED
    BY <1>2, <2>1 DEF TailInv, BuffersWithinLogs
<1>16. BufferIsTail'
  <2>1. /\ Len(messages'[o]) <= MaxBufferSize
        /\ messages'[o] = Drop(log'[o], Len(log'[o]) - Len(messages'[o]))
    BY <1>6, <1>8, <1>9, <1>14
  <2>2. \A j \in DOMAIN log'[o] : log'[o][j].seq = seq'[o] - (Len(log'[o]) - j)
    BY <1>2, <1>6, <1>10, <1>14
  <2>3. /\ Len(messages'[o]) <= MaxBufferSize
        /\ messages'[o] = Drop(log'[o], Len(log'[o]) - Len(messages'[o]))
        /\ \A j \in DOMAIN log'[o] : log'[o][j].seq = seq'[o] - (Len(log'[o]) - j)
    BY <2>1, <2>2
  <2>4. \A x \in RoomObjs : x = o \/ x \in RoomObjs \ {o}
    OBVIOUS
  <2>5. ASSUME NEW x \in RoomObjs \ {o}
        PROVE  /\ Len(messages'[x]) <= MaxBufferSize
               /\ messages'[x] = Drop(log'[x], Len(log'[x]) - Len(messages'[x]))
               /\ \A j \in DOMAIN log'[x] : log'[x][j].seq = seq'[x] - (Len(log'[x]) - j)
    BY <1>2 DEF TailInv, BufferIsTail
  <2>6. \A x \in RoomObjs :
          /\ Len(messages'[x]) <= MaxBufferSize
          /\ messages'[x] = Drop(log'[x], Len(log'[x]) - Len(messages'[x]))
          /\ \A j \in DOMAIN log'[x] : log'[x][j].seq = seq'[x] - (Len(log'[x]) - j)
    BY <2>3, <2>4, <2>5
  <2> QED
    BY <2>6 DEF BufferIsTail
<1>17. Stamped'
  BY <1>2, <1>6, <1>11, <1>14 DEF TailInv, Stamped
<1>18. FreshKept'
  <2>1. \A h \in DOMAIN log'[o] :
          (now' - log'[o][h].ts <= TTL - MaxDelay /\ Len(log'[o]) - h < MaxBufferSize)
          => Len(log'[o]) - h < Len(messages'[o])
    BY <1>2, <1>6, <1>9, <1>13, <1>14
  <2> QED
    BY <1>2, <2>1 DEF TailInv, FreshKept
<1> QED
  BY <1>15, <1>16, <1>17, <1>18

LEMMA TailStep ==
  ASSUME TailInv, [Next]_vars
  PROVE  BuffersWithinLogs' /\ BufferIsTail' /\ Stamped' /\ FreshKept'
<1> USE DEF TailInv, hubVars, objVars, pubVars, gcVars, clientVars, histVars
<1> DEFINE Kept == BuffersWithinLogs' /\ BufferIsTail' /\ Stamped' /\ FreshKept'
<1>1. ASSUME UNCHANGED <<now, log, messages, seq>>
      PROVE  Kept
  BY <1>1 DEF BuffersWithinLogs, BufferIsTail, Stamped, FreshKept
<1>2. ASSUME NEW rm \in Rooms, NEW o \in RoomObjs, EnsureRoom(rm, o),
             UNCHANGED <<now, log, messages>>
      PROVE  Kept
  <2>1. ASSUME NEW x \in RoomObjs
        PROVE  \A i \in DOMAIN log[x] : seq'[x] = seq[x]
    <3>1. CASE owner[x] = NoRoom
      <4>1. DOMAIN log[x] = {}
        BY <3>1 DEF EmptyUntilOwned
      <4> QED
        BY <4>1
    <3>2. CASE owner[x] # NoRoom
      BY <1>2, <3>2, EnsureRoomFrame
    <3> QED
      BY <3>1, <3>2
  <2> QED
    BY <1>2, <2>1 DEF BuffersWithinLogs, BufferIsTail, Stamped, FreshKept
<1>3. CASE Tick
  <2>1. UNCHANGED <<log, messages, seq>> /\ now' = now + 1
    BY <1>3 DEF Tick
  <2>2. ASSUME NEW o \in RoomObjs, NEW i \in DOMAIN log[o]
        PROVE  /\ log[o][i].ts <= now'
               /\ now' - log[o][i].ts <= TTL - MaxDelay => now - log[o][i].ts <= TTL - MaxDelay
    <3>1. log[o] \in Seq(Message) /\ now \in Nat
      BY DEF Typed, TypeOK, HubTypes, HistoryTypes
    <3>2. log[o][i].ts \in Nat /\ log[o][i].ts <= now
      BY <3>1, MessageFields DEF Stamped
    <3> QED
      BY <2>1, <3>1, <3>2, HubAssumption
  <2>3. BuffersWithinLogs' /\ BufferIsTail'
    BY <2>1 DEF BuffersWithinLogs, BufferIsTail
  <2>4. Stamped'
    BY <2>1, <2>2 DEF Stamped
  <2>5. FreshKept'
    BY <2>1, <2>2 DEF FreshKept
  <2> QED
    BY <2>3, <2>4, <2>5
<1>4. ASSUME NEW p \in Publishers, PublisherNext(p)
      PROVE  Kept
  BY <1>1, <1>2, <1>4, TailPublish DEF PublisherNext, Send, Broadcast, StartPublish,
     PublishEnsureRoom
<1>5. ASSUME NEW c \in Clients, ClientNext(c)
      PROVE  Kept
  <2>1. CASE \E o \in RoomObjs : SubscribeEnsureRoom(c, o)
    BY <1>2, <2>1, HubAssumption DEF SubscribeEnsureRoom
  <2>2. CASE Join(c) \/ Poll(c) \/ Subscribe(c) \/ Register(c) \/ Count(c) \/ Lookup(c)
    BY <1>1, <2>2 DEF Join, Poll, Subscribe, Request, Register, Count, Lookup
  <2>3. CASE ReadSeq(c) \/ ReadMessages(c) \/ Receive(c) \/ Disconnect(c) \/ Release(c)
    BY <1>1, <2>3 DEF ReadSeq, ReadMessages, Receive, Disconnect, Release
  <2> QED
    BY <1>5, <2>1, <2>2, <2>3 DEF ClientNext, HandlerStep
<1>6. CASE GCNext \/ UNCHANGED vars
  BY <1>1, <1>6 DEF GCNext, GCScan, GCSweep, vars
<1> QED
  BY <1>3, <1>4, <1>5, <1>6 DEF Next

\* A room's buffer is the tail of what was published to it, with consecutive
\* seqs; and pruning, although its binary search runs over timestamps that do
\* not ascend, drops nothing younger than TTL - MaxDelay but to keep to the cap.
THEOREM PruningKeepsTheFresh == Spec => []BufferKept
<1>1. Init => TailInv
  <2>1. Init => Timing /\ EmptyUntilOwned
    BY HubAssumption DEF Init, Timing, EmptyUntilOwned
  <2>2. Init => BuffersWithinLogs /\ Stamped /\ FreshKept
    BY DEF Init, BuffersWithinLogs, Stamped, FreshKept
  <2>3. Init => BufferIsTail
    <3>1. Drop(<<>>, 0) = <<>> /\ Len(<<>>) = 0
      BY DEF Drop
    <3>2. 0 <= MaxBufferSize
      BY HubAssumption
    <3> QED
      BY <3>1, <3>2 DEF Init, BufferIsTail
  <2> QED
    BY <2>1, <2>2, <2>3, TypedInit DEF TailInv
<1>2. TailInv /\ [Next]_vars => TailInv'
  BY TypedNext, TimingStep, EmptyStep, TailStep DEF TailInv
<1>3. TailInv => BufferKept
  BY DEF TailInv, BufferKept
<1> QED
  BY <1>1, <1>2, <1>3, PTL DEF Spec
=============================================================================
