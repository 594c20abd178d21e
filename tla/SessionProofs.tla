---------------------------- MODULE SessionProofs ---------------------------
(***************************************************************************)
(* Proofs about the parties the browser is connected with: ChatSession,    *)
(* for any rooms, any number of changes of target, texts, notices and      *)
(* faults, and any number of callbacks pending; the tools of other servers *)
(* that agents call (McpTools), for any servers, any number of turns,      *)
(* rounds and calls and any changes of the settings; and the browser's own *)
(* server (McpServer), for any tokens, any number of requests and sessions *)
(* and every use of the switch.                                            *)
(***************************************************************************)
EXTENDS ChatSession, McpTools, McpServer, SequenceTheorems,
        FiniteSetTheorems, TLAPS

-----------------------------------------------------------------------------
Places == Targets \cup {NoTarget}
HandleKinds == {"pollTimer", "eventStream", "restartTimer"}
Working == {"eventStream", "pollTimer", "poll", "restartTimer", "ping"}
Positioned == {"connect", "eventStream", "poll"}

(* The module's variables.  The domain of jobs is whatever ids are in use.   *)
JobTables == UNION {[ids -> Job] : ids \in SUBSET Nat}
SessionRecords ==
  [generation : Nat, target : Places, room : Places, reuse : BOOLEAN, token : BOOLEAN,
   cursor : Nat, handles : [HandleKinds -> Nat], pollInFlight : BOOLEAN,
   sendQueue : Seq(Places), buffered : SUBSET [room : Targets, seq : Nat],
   status : {"idle", "connecting", "connected", "error"}, jobs : JobTables]
SessionRecord(x) == x \in SessionRecords /\ IsFiniteSet(DOMAIN x.jobs)

(* Everything said in the session's room since b, up to n, was shown.        *)
ShownUpTo(room, buffered, L, b, n) ==
  /\ n <= Len(L[room])
  /\ \A s \in (b + 1)..n : L[room][s] = "chat" => [room |-> room, seq |-> s] \in buffered

(* A callback of the session was begun when the session was in its present   *)
(* state: before /connect was answered only by the request itself, and then  *)
(* in the session's room at a position everything before which was shown.    *)
JobFits(x, L, b, job) ==
  /\ job.gen <= x.generation
  /\ job.gen = x.generation =>
       /\ x.token <=> job.kind # "connect"
       /\ job.kind \in Positioned => job.room = x.room /\ x.room \in Targets
       /\ job.kind \in {"eventStream", "poll"} => ShownUpTo(x.room, x.buffered, L, b, job.from)

Fits(x, L, b) ==
  /\ x.token => x.room \in Targets /\ ShownUpTo(x.room, x.buffered, L, b, x.cursor)
  /\ x.handles["pollTimer"] # NoJob => x.token
  /\ \A q \in 1..Len(x.sendQueue) : x.sendQueue[q] = x.room
  /\ \A c \in x.buffered : c.room = x.room
  /\ \A i \in DOMAIN x.jobs : JobFits(x, L, b, x.jobs[i])
  /\ \A i, j \in DOMAIN x.jobs :
       /\ Current(x, i) /\ x.jobs[i].kind = "connect"
       /\ Current(x, j) /\ x.jobs[j].kind = "connect"
       => i = j

AtWork(x) == \E i \in DOMAIN x.jobs : Current(x, i) /\ x.jobs[i].kind \in Working
Awake(x, cache) == x.token /\ ~(x.reuse /\ ~cache) => AtWork(x)

Logs == [Targets -> Seq({"chat", "restart"})]

ServerTypes ==
  /\ log \in Logs
  /\ claimed \in BOOLEAN /\ cached \in BOOLEAN
  /\ began \in Nat

SessionInv ==
  /\ ServerTypes
  /\ SessionRecord(m)
  /\ Fits(m, log, began)
  /\ Awake(m, cached)
  /\ \A d \in sent : d[1] = d[2]

(* What most of the module's functions leave as it is.                       *)
SameSession(x, y) ==
  /\ y.generation = x.generation /\ y.room = x.room
  /\ y.reuse = x.reuse /\ y.token = x.token
  /\ y.cursor = x.cursor /\ y.buffered = x.buffered

-----------------------------------------------------------------------------
(* Jobs and handles.                                                         *)

LEMMA JobTable ==
  ASSUME NEW f
  PROVE  f \in JobTables <=>
           /\ f = [i \in DOMAIN f |-> f[i]]
           /\ DOMAIN f \subseteq Nat
           /\ \A i \in DOMAIN f : f[i] \in Job
<1>1. ASSUME f \in JobTables
      PROVE  /\ f = [i \in DOMAIN f |-> f[i]]
             /\ DOMAIN f \subseteq Nat
             /\ \A i \in DOMAIN f : f[i] \in Job
  <2>1. PICK ids \in SUBSET Nat : f \in [ids -> Job]
    BY <1>1 DEF JobTables
  <2> QED
    BY <2>1
<1>2. ASSUME f = [i \in DOMAIN f |-> f[i]],
             DOMAIN f \subseteq Nat,
             \A i \in DOMAIN f : f[i] \in Job
      PROVE  f \in JobTables
  <2>1. f \in [DOMAIN f -> Job]
    BY <1>2
  <2> QED
    BY <1>2, <2>1 DEF JobTables
<1> QED
  BY <1>1, <1>2

LEMMA RecordTypes ==
  ASSUME NEW x, SessionRecord(x)
  PROVE  /\ x.generation \in Nat /\ x.room \in Places /\ x.cursor \in Nat
         /\ x.token \in BOOLEAN /\ x.reuse \in BOOLEAN
         /\ x.handles \in [HandleKinds -> Nat]
         /\ x.sendQueue \in Seq(Places)
         /\ x.buffered \subseteq [room : Targets, seq : Nat]
         /\ DOMAIN x.jobs \subseteq Nat /\ IsFiniteSet(DOMAIN x.jobs)
         /\ \A i \in DOMAIN x.jobs : x.jobs[i] \in Job
<1>1. x.jobs \in JobTables
  BY DEF SessionRecord, SessionRecords
<1> QED
  BY <1>1, JobTable DEF SessionRecord, SessionRecords

(* There are more numbers in 1..n+1 than ids in use, so one of them is free. *)
LEMMA FreshIsFree ==
  ASSUME NEW x, SessionRecord(x)
  PROVE  FreshJob(x) \in Nat \ (DOMAIN x.jobs \cup {NoJob})
<1> DEFINE n == Cardinality(InUse(x))
<1>1. IsFiniteSet(Handles(x))
  <2>1. IsFiniteSet({x.handles["pollTimer"], x.handles["eventStream"], x.handles["restartTimer"], NoJob})
    <3>1. IsFiniteSet({x.handles["pollTimer"]})
      BY FS_Singleton
    <3>2. IsFiniteSet({x.handles["pollTimer"]} \cup {x.handles["eventStream"]})
      BY <3>1, FS_AddElement
    <3>3. IsFiniteSet({x.handles["pollTimer"]} \cup {x.handles["eventStream"]} \cup {x.handles["restartTimer"]})
      BY <3>2, FS_AddElement
    <3>4. IsFiniteSet({x.handles["pollTimer"]} \cup {x.handles["eventStream"]} \cup {x.handles["restartTimer"]} \cup {NoJob})
      BY <3>3, FS_AddElement
    <3> QED
      BY <3>4
  <2>2. Handles(x) = {x.handles["pollTimer"], x.handles["eventStream"], x.handles["restartTimer"], NoJob}
    BY RecordTypes DEF Handles, Range, HandleKinds
  <2> QED
    BY <2>1, <2>2
<1>2. IsFiniteSet(InUse(x)) /\ n \in Nat
  BY <1>1, RecordTypes, FS_Union, FS_CardinalityType DEF InUse
<1>3. IsFiniteSet(1..(n + 1)) /\ Cardinality(1..(n + 1)) = n + 1
  BY <1>2, FS_Interval
<1>4. ~ 1..(n + 1) \subseteq InUse(x)
  BY <1>2, <1>3, FS_Subset
<1>5. PICK i \in 1..(n + 1) : i \notin InUse(x)
  BY <1>4
<1>6. FreshJob(x) \in 1..(n + 1) /\ FreshJob(x) \notin InUse(x)
  BY <1>5 DEF FreshJob
<1> QED
  BY <1>2, <1>6 DEF InUse, Handles

LEMMA StartedJob ==
  ASSUME NEW x, SessionRecord(x),
         NEW job \in Job, NEW y,
         y = Started(x, job.kind, job.gen, job.room, job.from, job.least)
  PROVE  /\ SessionRecord(y)
         /\ SameSession(x, y) /\ y.sendQueue = x.sendQueue
         /\ job.kind \notin HandleKinds => y.handles = x.handles
         /\ \A k \in HandleKinds \ {job.kind} : y.handles[k] = x.handles[k]
         /\ \E id \in Nat \ DOMAIN x.jobs :
              /\ DOMAIN y.jobs = DOMAIN x.jobs \cup {id}
              /\ y.jobs[id] = job
              /\ \A i \in DOMAIN x.jobs : y.jobs[i] = x.jobs[i]
<1> DEFINE id == FreshJob(x)
           jobs == [i \in DOMAIN x.jobs \cup {id} |-> IF i = id THEN job ELSE x.jobs[i]]
           handles == IF job.kind \in DOMAIN x.handles
                      THEN [x.handles EXCEPT ![job.kind] = id] ELSE x.handles
<1>1. id \in Nat /\ id \notin DOMAIN x.jobs
  BY FreshIsFree
<1> HIDE DEF id
<1>2. job = [kind |-> job.kind, gen |-> job.gen, room |-> job.room, from |-> job.from, least |-> job.least]
  BY DEF Job
<1>3. y = [x EXCEPT !.jobs = jobs, !.handles = handles]
  BY <1>2 DEF Started, id
<1>4. /\ DOMAIN jobs = DOMAIN x.jobs \cup {id}
      /\ jobs = [i \in DOMAIN jobs |-> jobs[i]]
      /\ jobs[id] = job
      /\ \A i \in DOMAIN x.jobs : jobs[i] = x.jobs[i]
  BY <1>1
<1>5. IsFiniteSet(DOMAIN jobs) /\ jobs \in JobTables
  BY <1>1, <1>4, RecordTypes, JobTable, FS_AddElement
<1>6. /\ handles \in [HandleKinds -> Nat]
      /\ job.kind \notin HandleKinds => handles = x.handles
      /\ \A k \in HandleKinds \ {job.kind} : handles[k] = x.handles[k]
  BY <1>1, RecordTypes
<1> HIDE DEF jobs, handles
<1>7. y \in SessionRecords /\ y.jobs = jobs /\ y.handles = handles
  BY <1>3, <1>5, <1>6 DEF SessionRecord, SessionRecords
<1>8. SameSession(x, y) /\ y.sendQueue = x.sendQueue
  BY <1>3 DEF SessionRecord, SessionRecords, SameSession
<1> QED
  BY <1>1, <1>4, <1>5, <1>6, <1>7, <1>8 DEF SessionRecord

LEMMA ClosedJob ==
  ASSUME NEW x, SessionRecord(x), NEW i, NEW y, y = Closed(x, i)
  PROVE  /\ SessionRecord(y)
         /\ SameSession(x, y) /\ y.sendQueue = x.sendQueue /\ y.handles = x.handles
         /\ DOMAIN y.jobs = DOMAIN x.jobs \ {i}
         /\ \A j \in DOMAIN y.jobs : y.jobs[j] = x.jobs[j]
<1> DEFINE jobs == [j \in DOMAIN x.jobs \ {i} |-> x.jobs[j]]
<1>1. IsFiniteSet(DOMAIN jobs)
  BY RecordTypes, FS_RemoveElement
<1>2. y = [x EXCEPT !.jobs = jobs]
  BY DEF Closed
<1>3. /\ jobs = [j \in DOMAIN jobs |-> jobs[j]]
      /\ DOMAIN jobs = DOMAIN x.jobs \ {i}
      /\ \A j \in DOMAIN jobs : jobs[j] = x.jobs[j]
  OBVIOUS
<1> HIDE DEF jobs
<1>4. jobs \in JobTables
  BY <1>3, RecordTypes, JobTable
<1>5. y \in SessionRecords /\ y.jobs = jobs /\ y.handles = x.handles
  BY <1>2, <1>4 DEF SessionRecord, SessionRecords
<1>6. SameSession(x, y) /\ y.sendQueue = x.sendQueue
  BY <1>2 DEF SessionRecord, SessionRecords, SameSession
<1> QED
  BY <1>1, <1>3, <1>5, <1>6 DEF SessionRecord

LEMMA ClearedJobs ==
  ASSUME NEW x, SessionRecord(x), NEW kinds, NEW y, y = Cleared(x, kinds)
  PROVE  /\ SessionRecord(y)
         /\ SameSession(x, y) /\ y.sendQueue = x.sendQueue
         /\ \A k \in HandleKinds : y.handles[k] = IF k \in kinds THEN NoJob ELSE x.handles[k]
         /\ DOMAIN y.jobs \subseteq DOMAIN x.jobs
         /\ \A j \in DOMAIN y.jobs : y.jobs[j] = x.jobs[j]
<1> DEFINE left == DOMAIN x.jobs \ {x.handles[k] : k \in kinds}
           jobs == [j \in left |-> x.jobs[j]]
           handles == [k \in DOMAIN x.handles |-> IF k \in kinds THEN NoJob ELSE x.handles[k]]
<1>1. IsFiniteSet(DOMAIN jobs)
  BY RecordTypes, FS_Subset
<1>2. y = [x EXCEPT !.jobs = jobs, !.handles = handles]
  BY DEF Cleared, Restrict
<1>3. /\ jobs = [j \in DOMAIN jobs |-> jobs[j]]
      /\ DOMAIN jobs \subseteq DOMAIN x.jobs
      /\ \A j \in DOMAIN jobs : jobs[j] = x.jobs[j]
  OBVIOUS
<1>4. /\ handles \in [HandleKinds -> Nat]
      /\ \A k \in HandleKinds : handles[k] = IF k \in kinds THEN NoJob ELSE x.handles[k]
  BY RecordTypes DEF NoJob
<1> HIDE DEF jobs, handles
<1>5. jobs \in JobTables
  BY <1>3, RecordTypes, JobTable
<1>6. y \in SessionRecords /\ y.jobs = jobs /\ y.handles = handles
  BY <1>2, <1>4, <1>5 DEF SessionRecord, SessionRecords
<1>7. SameSession(x, y) /\ y.sendQueue = x.sendQueue
  BY <1>2 DEF SessionRecord, SessionRecords, SameSession
<1> QED
  BY <1>1, <1>3, <1>4, <1>6, <1>7 DEF SessionRecord

-----------------------------------------------------------------------------
(* The module's functions.                                                   *)

LEMMA FewerJobsFit ==
  ASSUME NEW x, SessionRecord(x), NEW y, SessionRecord(y), NEW L, NEW b,
         Fits(x, L, b), SameSession(x, y),
         y.sendQueue = x.sendQueue \/ y.sendQueue = <<>>,
         y.handles["pollTimer"] \in {x.handles["pollTimer"], NoJob},
         DOMAIN y.jobs \subseteq DOMAIN x.jobs,
         \A i \in DOMAIN y.jobs : y.jobs[i] = x.jobs[i]
  PROVE  Fits(y, L, b)
<1>1. /\ y.token => y.room \in Targets /\ ShownUpTo(y.room, y.buffered, L, b, y.cursor)
      /\ y.handles["pollTimer"] # NoJob => y.token
      /\ \A c \in y.buffered : c.room = y.room
  BY DEF Fits, SameSession
<1>2. \A q \in 1..Len(y.sendQueue) : y.sendQueue[q] = y.room
  BY DEF Fits, SameSession
<1>3. \A i \in DOMAIN y.jobs : JobFits(y, L, b, y.jobs[i])
  BY DEF Fits, SameSession, JobFits
<1>4. \A i, j \in DOMAIN y.jobs :
        /\ Current(y, i) /\ y.jobs[i].kind = "connect"
        /\ Current(y, j) /\ y.jobs[j].kind = "connect"
        => i = j
  BY DEF Fits, SameSession, Current
<1> QED
  BY <1>1, <1>2, <1>3, <1>4 DEF Fits

LEMMA StartedFits ==
  ASSUME NEW x, SessionRecord(x), NEW L, NEW b, Fits(x, L, b),
         NEW job \in Job, JobFits(x, L, b, job), job.kind # "connect",
         job.kind = "pollTimer" => x.token,
         NEW y, y = Started(x, job.kind, job.gen, job.room, job.from, job.least)
  PROVE  /\ SessionRecord(y) /\ Fits(y, L, b)
         /\ SameSession(x, y) /\ y.sendQueue = x.sendQueue
         /\ AtWork(x) => AtWork(y)
         /\ job.gen = x.generation /\ job.kind \in Working => AtWork(y)
<1>1. /\ SessionRecord(y)
      /\ SameSession(x, y) /\ y.sendQueue = x.sendQueue
      /\ \A k \in HandleKinds \ {job.kind} : y.handles[k] = x.handles[k]
  BY StartedJob
<1>2. PICK id \in Nat \ DOMAIN x.jobs :
        /\ DOMAIN y.jobs = DOMAIN x.jobs \cup {id}
        /\ y.jobs[id] = job
        /\ \A i \in DOMAIN x.jobs : y.jobs[i] = x.jobs[i]
  BY StartedJob
<1>3. /\ y.token => y.room \in Targets /\ ShownUpTo(y.room, y.buffered, L, b, y.cursor)
      /\ y.handles["pollTimer"] # NoJob => y.token
      /\ \A c \in y.buffered : c.room = y.room
  BY <1>1 DEF Fits, SameSession, HandleKinds
<1>4. \A q \in 1..Len(y.sendQueue) : y.sendQueue[q] = y.room
  BY <1>1 DEF Fits, SameSession
<1>5. \A i \in DOMAIN y.jobs : JobFits(y, L, b, y.jobs[i])
  <2>1. \A j : JobFits(x, L, b, j) => JobFits(y, L, b, j)
    BY <1>1 DEF SameSession, JobFits
  <2> QED
    BY <1>2, <2>1 DEF Fits
<1>6. \A i, j \in DOMAIN y.jobs :
        /\ Current(y, i) /\ y.jobs[i].kind = "connect"
        /\ Current(y, j) /\ y.jobs[j].kind = "connect"
        => i = j
  BY <1>1, <1>2 DEF Fits, SameSession, Current
<1>7. AtWork(x) => AtWork(y)
  BY <1>1, <1>2 DEF SameSession, Current, AtWork
<1>8. job.gen = x.generation /\ job.kind \in Working => AtWork(y)
  BY <1>1, <1>2 DEF SameSession, Current, AtWork
<1> QED
  BY <1>1, <1>3, <1>4, <1>5, <1>6, <1>7, <1>8 DEF Fits

LEMMA TornDown ==
  ASSUME NEW x, SessionRecord(x), NEW L, NEW b, Fits(x, L, b),
         NEW y, y = Teardown(x)
  PROVE  /\ SessionRecord(y) /\ Fits(y, L, b)
         /\ y.generation = x.generation + 1
         /\ y.room = NoTarget /\ ~y.token /\ y.sendQueue = <<>> /\ y.buffered = {}
         /\ y.handles["pollTimer"] = NoJob
         /\ \A i \in DOMAIN y.jobs : y.jobs[i].gen < y.generation
<1> DEFINE z == Cleared(x, DOMAIN x.handles)
<1>1. /\ SessionRecord(z)
      /\ \A k \in HandleKinds : z.handles[k] = IF k \in DOMAIN x.handles THEN NoJob ELSE x.handles[k]
      /\ DOMAIN z.jobs \subseteq DOMAIN x.jobs
      /\ \A j \in DOMAIN z.jobs : z.jobs[j] = x.jobs[j]
  BY ClearedJobs DEF SameSession
<1>2. y = [z EXCEPT !.generation = x.generation + 1, !.pollInFlight = FALSE,
                    !.token = FALSE, !.cursor = 0, !.room = NoTarget,
                    !.buffered = {}, !.sendQueue = <<>>]
  BY DEF Teardown, NextGeneration, NoToken, EmptyQueue
<1> HIDE DEF z
<1>3. /\ x.generation + 1 \in Nat /\ <<>> \in Seq(Places) /\ NoTarget \in Places
      /\ {} \in SUBSET [room : Targets, seq : Nat]
  BY RecordTypes DEF Places
<1>4. y \in SessionRecords
  <2>1. PICK g \in Nat, q \in Seq(Places), c \in SUBSET [room : Targets, seq : Nat] :
          g = x.generation + 1 /\ q = <<>> /\ c = {}
    BY <1>3
  <2>2. y = [z EXCEPT !.generation = g, !.pollInFlight = FALSE, !.token = FALSE, !.cursor = 0,
                      !.room = NoTarget, !.buffered = c, !.sendQueue = q]
    BY <1>2, <2>1
  <2>3. z \in SessionRecords
    BY <1>1 DEF SessionRecord
  <2> DEFINE z1 == [z EXCEPT !.generation = g, !.pollInFlight = FALSE, !.token = FALSE, !.cursor = 0]
             z2 == [z1 EXCEPT !.room = NoTarget, !.buffered = c, !.sendQueue = q]
  <2>4. z1 \in SessionRecords
    BY <2>3 DEF SessionRecords
  <2>5. z2 = y
    BY <2>2
  <2> HIDE DEF z1
  <2>6. z2 \in SessionRecords
    BY <1>3, <2>4 DEF SessionRecords
  <2> QED
    BY <2>5, <2>6
<1>5. /\ y.generation = x.generation + 1
      /\ y.room = NoTarget /\ ~y.token /\ y.sendQueue = <<>> /\ y.buffered = {}
      /\ y.jobs = z.jobs /\ y.handles = z.handles
  BY <1>1, <1>2, <1>3 DEF SessionRecord, SessionRecords
<1>a. SessionRecord(y)
  BY <1>1, <1>4, <1>5 DEF SessionRecord
<1>6. y.handles["pollTimer"] = NoJob
  BY <1>1, <1>5, RecordTypes DEF HandleKinds
<1>7. \A i \in DOMAIN y.jobs : y.jobs[i].gen < y.generation
  <2>1. ASSUME NEW i \in DOMAIN y.jobs
        PROVE  y.jobs[i].gen < y.generation
    <3>1. i \in DOMAIN x.jobs /\ y.jobs[i] = x.jobs[i]
      BY <1>1, <1>5
    <3>2. x.jobs[i].gen <= x.generation /\ x.jobs[i].gen \in Nat /\ x.generation \in Nat
      BY <3>1, RecordTypes DEF Fits, JobFits, Job
    <3> QED
      BY <1>5, <3>1, <3>2
  <2> QED
    BY <2>1
<1>8. Fits(y, L, b)
  <2>1. \A i \in DOMAIN y.jobs : y.jobs[i].gen <= y.generation /\ y.jobs[i].gen # y.generation
    BY <1>a, <1>7, RecordTypes DEF Job
  <2> QED
    BY <1>5, <1>6, <2>1 DEF Fits, JobFits, Current
<1> QED
  BY <1>a, <1>5, <1>6, <1>7, <1>8

(* The new session's only callback is its /connect.                          *)
LEMMA SessionStarted ==
  ASSUME NEW x, SessionRecord(x), NEW L, NEW b, Fits(x, L, b),
         NEW room \in Targets, NEW reuse \in BOOLEAN,
         NEW y, y = StartSession(x, room, reuse)
  PROVE  SessionRecord(y) /\ Fits(y, L, b) /\ ~y.token
<1> DEFINE t == Teardown(x)
           z == [t EXCEPT !.room = room, !.reuse = reuse, !.status = "connecting"]
           job == [kind |-> "connect", gen |-> x.generation + 1, room |-> room,
                   from |-> IF reuse THEN 0 ELSE 1, least |-> 0]
<1>1. /\ SessionRecord(t) /\ ~t.token
      /\ t.generation = x.generation + 1 /\ t.sendQueue = <<>> /\ t.buffered = {}
      /\ t.handles["pollTimer"] = NoJob
      /\ \A i \in DOMAIN t.jobs : t.jobs[i].gen < t.generation
  BY TornDown
<1> HIDE DEF t
<1>2. /\ z \in SessionRecords /\ ~z.token /\ z.room = room
      /\ z.generation = x.generation + 1 /\ z.sendQueue = <<>> /\ z.buffered = {}
      /\ z.handles = t.handles /\ z.jobs = t.jobs
  BY <1>1 DEF SessionRecord, SessionRecords, Places
<1>3. SessionRecord(z)
  BY <1>1, <1>2 DEF SessionRecord
<1>4. /\ job \in Job /\ job.kind = "connect" /\ job.gen = x.generation + 1 /\ job.room = room
      /\ job.from = IF reuse THEN 0 ELSE 1
      /\ job.least = 0
  BY RecordTypes DEF Job, Places
<1>5. y = Started(z, job.kind, job.gen, job.room, job.from, job.least)
  BY <1>4 DEF StartSession, NextGeneration, t
<1> HIDE DEF z, job
<1>7. /\ SessionRecord(y)
      /\ SameSession(z, y) /\ y.sendQueue = z.sendQueue
      /\ \A k \in HandleKinds \ {job.kind} : y.handles[k] = z.handles[k]
  BY <1>3, <1>4, <1>5, StartedJob
<1>8. PICK id \in Nat \ DOMAIN z.jobs :
        /\ DOMAIN y.jobs = DOMAIN z.jobs \cup {id}
        /\ y.jobs[id] = job
        /\ \A i \in DOMAIN z.jobs : y.jobs[i] = z.jobs[i]
  BY <1>3, <1>4, <1>5, StartedJob
<1>9. /\ ~y.token /\ y.room = room /\ y.generation = x.generation + 1
      /\ y.sendQueue = <<>> /\ y.buffered = {} /\ y.handles["pollTimer"] = NoJob
  BY <1>1, <1>4, <1>2, <1>7 DEF SameSession, HandleKinds
<1>10. ASSUME NEW i \in DOMAIN y.jobs, i # id
       PROVE  y.jobs[i].gen <= y.generation /\ y.jobs[i].gen # y.generation
  <2>1. y.jobs[i] = t.jobs[i] /\ i \in DOMAIN t.jobs
    BY <1>2, <1>8, <1>10
  <2>2. t.jobs[i].gen \in Nat /\ t.generation \in Nat /\ t.jobs[i].gen < t.generation
    BY <1>1, <2>1, RecordTypes DEF Job
  <2> QED
    BY <1>1, <1>9, <2>1, <2>2
<1>11. \A i \in DOMAIN y.jobs : JobFits(y, L, b, y.jobs[i])
  <2>1. JobFits(y, L, b, job)
    BY <1>4, <1>9, RecordTypes DEF JobFits
  <2>2. ASSUME NEW i \in DOMAIN y.jobs, i # id
        PROVE  JobFits(y, L, b, y.jobs[i])
    BY <1>10, <2>2 DEF JobFits
  <2> QED
    BY <1>8, <2>1, <2>2
<1>12. Fits(y, L, b)
  BY <1>8, <1>9, <1>10, <1>11 DEF Fits, Current
<1> QED
  BY <1>7, <1>9, <1>12

LEMMA StatusSet ==
  ASSUME NEW x, SessionRecord(x), NEW L, NEW b, Fits(x, L, b),
         NEW st \in {"idle", "connecting", "connected", "error"},
         NEW y, y = [x EXCEPT !.status = st]
  PROVE  /\ SessionRecord(y) /\ Fits(y, L, b)
         /\ SameSession(x, y) /\ y.sendQueue = x.sendQueue
         /\ y.handles = x.handles /\ y.jobs = x.jobs
         /\ AtWork(x) => AtWork(y)
<1>1. y \in SessionRecords
  BY DEF SessionRecord, SessionRecords
<1>2. SameSession(x, y) /\ y.sendQueue = x.sendQueue /\ y.handles = x.handles /\ y.jobs = x.jobs
  BY DEF SessionRecord, SessionRecords, SameSession
<1>3. SessionRecord(y)
  BY <1>1, <1>2 DEF SessionRecord
<1>4. Fits(y, L, b)
  BY <1>2, <1>3, FewerJobsFit
<1> QED
  BY <1>2, <1>3, <1>4 DEF AtWork, Current, SameSession

(* schedulePoll and scheduleRestartRetry, of the session or of an earlier one. *)
LEMMA TimerArmed ==
  ASSUME NEW x, SessionRecord(x), NEW L, NEW b, Fits(x, L, b),
         NEW kind \in {"pollTimer", "restartTimer", "ping"}, NEW gen \in Nat,
         NEW room \in Places,
         gen <= x.generation, gen = x.generation => x.token, kind = "pollTimer" => x.token,
         NEW y, y = Started(x, kind, gen, room, 0, 0)
  PROVE  /\ SessionRecord(y) /\ Fits(y, L, b)
         /\ SameSession(x, y) /\ y.sendQueue = x.sendQueue
         /\ AtWork(x) => AtWork(y)
         /\ gen = x.generation => AtWork(y)
<1> DEFINE job == [kind |-> kind, gen |-> gen, room |-> room, from |-> 0, least |-> 0]
<1>1. /\ job \in Job /\ job.kind = kind /\ job.gen = gen /\ job.room = room
      /\ job.from = 0 /\ job.least = 0
  BY DEF Job, Places
<1>2. y = Started(x, job.kind, job.gen, job.room, job.from, job.least)
  BY <1>1
<1> HIDE DEF job
<1>3. JobFits(x, L, b, job)
  BY <1>1, RecordTypes DEF JobFits, Positioned
<1>4. job.kind # "connect" /\ job.kind \in Working
  BY <1>1 DEF Working
<1> QED
  BY <1>1, <1>2, <1>3, <1>4, StartedFits

(* A stream starts where the session is.                                     *)
LEMMA StreamStarted ==
  ASSUME NEW x, SessionRecord(x), NEW L, NEW b, Fits(x, L, b),
         NEW gen \in Nat, gen <= x.generation, gen = x.generation => x.token,
         NEW y, y = StartEventStream(x, gen)
  PROVE  /\ SessionRecord(y) /\ Fits(y, L, b)
         /\ SameSession(x, y) /\ y.sendQueue = x.sendQueue
         /\ AtWork(x) => AtWork(y)
         /\ gen = x.generation => AtWork(y)
<1> DEFINE room == IF x.token THEN x.room ELSE NoTarget
           job == [kind |-> "eventStream", gen |-> gen, room |-> room,
                   from |-> x.cursor, least |-> 0]
<1>1. room \in Places /\ (x.token => room = x.room)
  BY RecordTypes DEF Places
<1> HIDE DEF room
<1>2. /\ job \in Job /\ job.kind = "eventStream" /\ job.gen = gen /\ job.room = room
      /\ job.from = x.cursor /\ job.least = 0
  BY <1>1, RecordTypes DEF Job, Places
<1>3. y = Started(x, job.kind, job.gen, job.room, job.from, job.least)
  BY <1>2 DEF StartEventStream, room
<1> HIDE DEF job
<1>4. JobFits(x, L, b, job)
  BY <1>1, <1>2 DEF JobFits, Fits
<1>5. job.kind # "connect" /\ job.kind # "pollTimer" /\ job.kind \in Working
  BY <1>2 DEF Working
<1> QED
  BY <1>2, <1>3, <1>4, <1>5, StartedFits

LEMMA RestartBegun ==
  ASSUME NEW x, SessionRecord(x), NEW L, NEW b, Fits(x, L, b), x.token,
         NEW y, y = BeginRestartSequence(x, x.generation)
  PROVE  /\ SessionRecord(y) /\ Fits(y, L, b)
         /\ SameSession(x, y) /\ y.sendQueue = x.sendQueue
         /\ AtWork(x) => AtWork(y)
<1>1. CASE x.handles.restartTimer # NoJob
  BY <1>1 DEF BeginRestartSequence, SameSession
<1>2. CASE x.handles.restartTimer = NoJob
  <2> DEFINE c == Cleared(x, {"eventStream", "pollTimer"})
             z == [c EXCEPT !.status = "connecting"]
  <2>1. /\ SessionRecord(c)
        /\ SameSession(x, c) /\ c.sendQueue = x.sendQueue
        /\ \A k \in HandleKinds : c.handles[k] = IF k \in {"eventStream", "pollTimer"}
                                                 THEN NoJob ELSE x.handles[k]
        /\ DOMAIN c.jobs \subseteq DOMAIN x.jobs
        /\ \A j \in DOMAIN c.jobs : c.jobs[j] = x.jobs[j]
    BY ClearedJobs
  <2> HIDE DEF c
  <2>2. c.handles["pollTimer"] = NoJob
    BY <2>1 DEF HandleKinds
  <2>3. Fits(c, L, b)
    BY <2>1, <2>2, FewerJobsFit
  <2>4. SessionRecord(z) /\ Fits(z, L, b) /\ SameSession(c, z) /\ z.sendQueue = c.sendQueue
    BY <2>1, <2>3, StatusSet
  <2>5. y = Started(z, "restartTimer", x.generation, NoTarget, 0, 0)
    BY <1>2 DEF BeginRestartSequence, ScheduleRestartRetry, c
  <2> HIDE DEF z
  <2>6. z.generation = x.generation /\ z.token /\ x.generation \in Nat /\ NoTarget \in Places
    BY <2>1, <2>4, RecordTypes DEF SameSession, Places
  <2>7. /\ SessionRecord(y) /\ Fits(y, L, b)
        /\ SameSession(z, y) /\ y.sendQueue = z.sendQueue /\ AtWork(y)
    BY <2>4, <2>5, <2>6, TimerArmed
  <2> QED
    BY <2>1, <2>4, <2>7 DEF SameSession
<1> QED
  BY <1>1, <1>2

LEMMA TokenRejected ==
  ASSUME NEW x, SessionRecord(x), NEW L, NEW b, Fits(x, L, b), x.token,
         NEW y, y = Rejected(x)
  PROVE  SessionRecord(y) /\ Fits(y, L, b) /\ (y.token => x.reuse /\ y.reuse)
<1>1. CASE x.reuse
  <2>1. y = [x EXCEPT !.status = "error"]
    BY <1>1 DEF Rejected
  <2>2. SessionRecord(y) /\ Fits(y, L, b) /\ SameSession(x, y)
    BY <2>1, StatusSet
  <2> QED
    BY <1>1, <2>2 DEF SameSession
<1>2. CASE ~x.reuse
  <2>1. y = StartSession(x, x.room, FALSE)
    BY <1>2 DEF Rejected
  <2>2. x.room \in Targets
    BY DEF Fits
  <2> QED
    BY <2>1, <2>2, SessionStarted
<1> QED
  BY <1>1, <1>2

LEMMA QueueFlushed ==
  ASSUME NEW x, SessionRecord(x), NEW L, NEW b, Fits(x, L, b),
         NEW y, y = FlushSendQueue(x)
  PROVE  SessionRecord(y) /\ Fits(y, L, b) /\ SameSession(x, y) /\ (AtWork(x) => AtWork(y))
<1>1. CASE ~(x.token /\ x.sendQueue # <<>>)
  BY <1>1 DEF FlushSendQueue, SameSession
<1>2. CASE x.token /\ x.sendQueue # <<>>
  <2> DEFINE job == [kind |-> "flush", gen |-> x.generation, room |-> x.room,
                     from |-> 0, least |-> Len(x.sendQueue)]
             z == Started(x, "flush", x.generation, x.room, 0, Len(x.sendQueue))
  <2>1. /\ job \in Job /\ job.kind = "flush" /\ job.gen = x.generation /\ job.room = x.room
        /\ job.from = 0 /\ job.least = Len(x.sendQueue)
    <3>1. x.generation \in Nat /\ x.room \in Places /\ Len(x.sendQueue) \in Nat
      BY RecordTypes
    <3> QED
      BY <3>1 DEF Job, Places
  <2>2. z = Started(x, job.kind, job.gen, job.room, job.from, job.least)
    BY <2>1
  <2>3. y = [z EXCEPT !.sendQueue = <<>>]
    BY <1>2 DEF FlushSendQueue
  <2> HIDE DEF job, z
  <2>4. JobFits(x, L, b, job) /\ job.kind # "connect" /\ job.kind # "pollTimer"
    BY <1>2, <2>1, RecordTypes DEF JobFits, Positioned
  <2>5. /\ SessionRecord(z) /\ Fits(z, L, b) /\ SameSession(x, z)
        /\ AtWork(x) => AtWork(z)
    BY <2>1, <2>2, <2>4, StartedFits
  <2>6. y \in SessionRecords /\ y.handles = z.handles /\ y.jobs = z.jobs /\ y.sendQueue = <<>>
    <3>1. z \in SessionRecords /\ <<>> \in Seq(Places)
      BY <2>5 DEF SessionRecord
    <3> QED
      BY <2>3, <3>1 DEF SessionRecords
  <2>7. SessionRecord(y) /\ SameSession(z, y)
    BY <2>3, <2>5, <2>6 DEF SessionRecord, SessionRecords, SameSession
  <2>8. Fits(y, L, b)
    BY <2>5, <2>6, <2>7, FewerJobsFit
  <2> QED
    BY <2>5, <2>6, <2>7, <2>8 DEF AtWork, Current, SameSession
<1> QED
  BY <1>1, <1>2

LEMMA ClosedFits ==
  ASSUME NEW x, SessionRecord(x), NEW L, NEW b, Fits(x, L, b), NEW i, NEW y, y = Closed(x, i)
  PROVE  /\ SessionRecord(y) /\ Fits(y, L, b)
         /\ SameSession(x, y) /\ y.sendQueue = x.sendQueue /\ y.handles = x.handles
         /\ DOMAIN y.jobs = DOMAIN x.jobs \ {i}
         /\ \A j \in DOMAIN y.jobs : y.jobs[j] = x.jobs[j]
         /\ AtWork(x) /\ ~(Current(x, i) /\ x.jobs[i].kind \in Working) => AtWork(y)
<1>1. /\ SessionRecord(y)
      /\ SameSession(x, y) /\ y.sendQueue = x.sendQueue /\ y.handles = x.handles
      /\ DOMAIN y.jobs = DOMAIN x.jobs \ {i}
      /\ \A j \in DOMAIN y.jobs : y.jobs[j] = x.jobs[j]
  BY ClosedJob
<1>2. Fits(y, L, b)
  BY <1>1, FewerJobsFit
<1>3. AtWork(x) /\ ~(Current(x, i) /\ x.jobs[i].kind \in Working) => AtWork(y)
  BY <1>1 DEF AtWork, Current, SameSession
<1> QED
  BY <1>1, <1>2, <1>3

LEMMA AwakeKept ==
  ASSUME NEW x, NEW y, NEW c, Awake(x, c), y.token = x.token, y.reuse = x.reuse,
         AtWork(x) => AtWork(y)
  PROVE  Awake(y, c)
BY DEF Awake

-----------------------------------------------------------------------------
(* Messages.                                                                 *)

LEMMA LogGrows ==
  ASSUME NEW L \in Logs, NEW K \in Logs,
         \A t \in Targets : /\ Len(L[t]) <= Len(K[t])
                            /\ \A s \in 1..Len(L[t]) : K[t][s] = L[t][s],
         NEW b \in Nat, NEW x, SessionRecord(x), Fits(x, L, b)
  PROVE  Fits(x, K, b)
<1>1. ASSUME NEW room \in Targets, NEW B, NEW n \in Nat, ShownUpTo(room, B, L, b, n)
      PROVE  ShownUpTo(room, B, K, b, n)
  <2>1. Len(L[room]) \in Nat /\ Len(K[room]) \in Nat
    BY DEF Logs
  <2>2. n <= Len(K[room])
    BY <1>1, <2>1 DEF ShownUpTo
  <2>3. \A s \in (b + 1)..n : s \in 1..Len(L[room])
    BY <1>1, <2>1 DEF ShownUpTo
  <2> QED
    BY <1>1, <2>2, <2>3 DEF ShownUpTo
<1>2. x.cursor \in Nat /\ \A i \in DOMAIN x.jobs : x.jobs[i].from \in Nat
  BY RecordTypes DEF Job
<1>3. x.token => x.room \in Targets /\ ShownUpTo(x.room, x.buffered, K, b, x.cursor)
  BY <1>1, <1>2 DEF Fits
<1>4. ASSUME NEW i \in DOMAIN x.jobs
      PROVE  JobFits(x, K, b, x.jobs[i])
  BY <1>1, <1>2 DEF Fits, JobFits, Positioned
<1> QED
  BY <1>3, <1>4 DEF Fits

LEMMA Appended ==
  ASSUME NEW L \in Logs, NEW t \in Targets, NEW c \in {"chat", "restart"}, NEW q, q = Append(L[t], c)
  PROVE  /\ q \in Seq({"chat", "restart"})
         /\ Len(L[t]) <= Len(q)
         /\ \A s \in 1..Len(L[t]) : q[s] = L[t][s]
<1>1. L[t] \in Seq({"chat", "restart"})
  BY DEF Logs
<1> QED
  BY <1>1

LEMMA LogAppended ==
  ASSUME log \in Logs, NEW t, log' = [log EXCEPT ![t] = Append(@, "chat")]
  PROVE  /\ log' \in Logs
         /\ \A u \in Targets : /\ Len(log[u]) <= Len(log'[u])
                               /\ \A s \in 1..Len(log[u]) : log'[u][s] = log[u][s]
<1>1. ASSUME NEW u \in Targets
      PROVE  /\ log'[u] \in Seq({"chat", "restart"})
             /\ Len(log[u]) <= Len(log'[u])
             /\ \A s \in 1..Len(log[u]) : log'[u][s] = log[u][s]
  <2>1. CASE u = t
    <3>1. log'[u] = Append(log[u], "chat")
      BY <2>1 DEF Logs
    <3>2. \A q : q = Append(log[u], "chat") =>
                   /\ q \in Seq({"chat", "restart"})
                   /\ Len(log[u]) <= Len(q)
                   /\ \A s \in 1..Len(log[u]) : q[s] = log[u][s]
      BY Appended
    <3> QED
      BY <3>1, <3>2, Zenon
  <2>2. CASE u # t
    <3>1. log'[u] = log[u] /\ log[u] \in Seq({"chat", "restart"})
      BY <2>2 DEF Logs
    <3> QED
      BY <3>1
  <2> QED
    BY <2>1, <2>2
<1>2. log' = [u \in Targets |-> log'[u]]
  BY DEF Logs
<1> QED
  BY <1>1, <1>2 DEF Logs

Batch(room, from, to) == {[room |-> room, seq |-> s] : s \in (from + 1)..to}

LEMMA BatchShown ==
  ASSUME NEW room, NEW B, NEW b \in Nat, NEW from \in Nat, NEW to \in Nat,
         ShownUpTo(room, B, log, b, from), to <= Len(log[room])
  PROVE  ShownUpTo(room, B \cup Visible(Batch(room, from, to)), log, b, to)
<1>1. ASSUME NEW s \in (b + 1)..to, log[room][s] = "chat"
      PROVE  [room |-> room, seq |-> s] \in B \cup Visible(Batch(room, from, to))
  <2>1. CASE s <= from
    BY <1>1, <2>1 DEF ShownUpTo
  <2>2. CASE s > from
    <3>1. [room |-> room, seq |-> s] \in Batch(room, from, to)
      BY <2>2 DEF Batch
    <3> QED
      BY <1>1, <3>1 DEF Visible
  <2> QED
    BY <2>1, <2>2
<1> QED
  BY <1>1 DEF ShownUpTo

(* Messages come in: at a position of the session's, or up to the end of     *)
(* what came.                                                                *)
LEMMA Delivered ==
  ASSUME NEW b \in Nat,
         NEW x, SessionRecord(x), Fits(x, log, b), x.token,
         NEW from \in Nat, NEW to \in Nat, to <= Len(log[x.room]),
         ShownUpTo(x.room, x.buffered, log, b, from),
         NEW z, SessionRecord(z),
         z.generation = x.generation, z.room = x.room, z.token = x.token,
         z.sendQueue = x.sendQueue, z.handles = x.handles,
         z.buffered = x.buffered \cup Visible(Batch(x.room, from, to)),
         z.cursor \in {x.cursor, to},
         DOMAIN z.jobs \subseteq DOMAIN x.jobs,
         \A i \in DOMAIN z.jobs :
           /\ z.jobs[i].kind = x.jobs[i].kind /\ z.jobs[i].gen = x.jobs[i].gen
           /\ z.jobs[i].room = x.jobs[i].room /\ z.jobs[i].from \in {x.jobs[i].from, to}
  PROVE  Fits(z, log, b)
<1>1. ShownUpTo(z.room, z.buffered, log, b, to)
  BY BatchShown
<1>2. \A n : ShownUpTo(x.room, x.buffered, log, b, n) => ShownUpTo(z.room, z.buffered, log, b, n)
  BY DEF ShownUpTo
<1>3. z.token => z.room \in Targets /\ ShownUpTo(z.room, z.buffered, log, b, z.cursor)
  BY <1>1, <1>2 DEF Fits
<1>4. \A c \in z.buffered : c.room = z.room
  BY DEF Fits, Visible, Batch
<1>5. ASSUME NEW i \in DOMAIN z.jobs
      PROVE  JobFits(z, log, b, z.jobs[i])
  <2>1. JobFits(x, log, b, x.jobs[i])
    BY <1>5 DEF Fits
  <2> QED
    BY <1>1, <1>2, <1>5, <2>1 DEF JobFits
<1>6. \A i, j \in DOMAIN z.jobs :
        /\ Current(z, i) /\ z.jobs[i].kind = "connect"
        /\ Current(z, j) /\ z.jobs[j].kind = "connect"
        => i = j
  BY DEF Fits, Current
<1>7. /\ z.handles["pollTimer"] # NoJob => z.token
      /\ \A q \in 1..Len(z.sendQueue) : z.sendQueue[q] = z.room
  BY DEF Fits
<1> QED
  BY <1>3, <1>4, <1>5, <1>6, <1>7 DEF Fits

WithBatch(x, room, from, to) == [x EXCEPT !.buffered = @ \cup Visible(Batch(room, from, to))]

LEMMA Ingested ==
  ASSUME NEW b, NEW x, NEW room, NEW from, NEW to,
         NEW z, z = WithBatch(x, room, from, to),
         SessionRecord(z), Fits(z, log, b), z.token,
         NEW y, y = Ingest(x, z.generation, room, from, to)
  PROVE  /\ SessionRecord(y) /\ Fits(y, log, b) /\ SameSession(z, y)
         /\ AtWork(z) => AtWork(y)
<1>1. y = IF Notice(room, from, to) THEN BeginRestartSequence(z, z.generation) ELSE z
  BY DEF Ingest, Batch, WithBatch
<1>2. CASE Notice(room, from, to)
  BY <1>1, <1>2, RestartBegun
<1>3. CASE ~Notice(room, from, to)
  BY <1>1, <1>3 DEF SameSession
<1> QED
  BY <1>2, <1>3

-----------------------------------------------------------------------------
(* The actions.                                                              *)

(* A current callback: what it needs of its session.                         *)
LEMMA CurrentJob ==
  ASSUME SessionInv, NEW i \in DOMAIN m.jobs
  PROVE  /\ m.jobs[i] \in Job /\ m.jobs[i].gen <= m.generation
         /\ Current(m, i) =>
              /\ m.token <=> m.jobs[i].kind # "connect"
              /\ m.jobs[i].kind \in Positioned => m.jobs[i].room = m.room /\ m.room \in Targets
              /\ m.jobs[i].kind \in {"eventStream", "poll"} =>
                   ShownUpTo(m.room, m.buffered, log, began, m.jobs[i].from)
<1>1. JobFits(m, log, began, m.jobs[i])
  BY DEF SessionInv, Fits
<1>2. m.jobs[i] \in Job
  BY RecordTypes DEF SessionInv
<1> QED
  BY <1>1, <1>2 DEF JobFits, Current

LEMMA SyncInv ==
  ASSUME SessionInv, NEW t \in Targets, Sync(t)
  PROVE  SessionInv'
<1> DEFINE x == StartSession(m, t, cached)
<1>1. m' = [x EXCEPT !.target = t] /\ UNCHANGED <<server, cached, began, sent>>
  BY DEF Sync
<1>2. SessionRecord(m) /\ Fits(m, log, began) /\ cached \in BOOLEAN
  BY DEF SessionInv, ServerTypes
<1>3. SessionRecord(x) /\ Fits(x, log, began) /\ ~x.token
  BY <1>2, SessionStarted
<1> HIDE DEF x
<1>4. m' \in SessionRecords
  BY <1>1, <1>3 DEF SessionRecord, SessionRecords, Places
<1>5. SameSession(x, m') /\ m'.sendQueue = x.sendQueue /\ m'.handles = x.handles /\ m'.jobs = x.jobs
  BY <1>1, <1>3 DEF SessionRecord, SessionRecords, SameSession
<1>6. SessionRecord(m')
  BY <1>3, <1>4, <1>5 DEF SessionRecord
<1>7. Fits(m', log, began)
  BY <1>3, <1>5, <1>6, FewerJobsFit
<1>8. ~m'.token
  BY <1>3, <1>5 DEF SameSession
<1> QED
  BY <1>1, <1>6, <1>7, <1>8 DEF SessionInv, ServerTypes, Awake, server

LEMMA StopInv ==
  ASSUME SessionInv, Stop
  PROVE  SessionInv'
<1> DEFINE x == Teardown(m)
<1>1. m' = [x EXCEPT !.target = NoTarget, !.status = "idle"] /\ UNCHANGED <<server, cached, began, sent>>
  BY DEF Stop
<1>2. SessionRecord(x) /\ Fits(x, log, began) /\ ~x.token
  BY TornDown DEF SessionInv
<1> HIDE DEF x
<1>3. m' \in SessionRecords
  BY <1>1, <1>2 DEF SessionRecord, SessionRecords, Places
<1>4. SameSession(x, m') /\ m'.sendQueue = x.sendQueue /\ m'.handles = x.handles /\ m'.jobs = x.jobs
  BY <1>1, <1>2 DEF SessionRecord, SessionRecords, SameSession
<1>5. SessionRecord(m')
  BY <1>2, <1>3, <1>4 DEF SessionRecord
<1>6. Fits(m', log, began)
  BY <1>2, <1>4, <1>5, FewerJobsFit
<1>7. ~m'.token
  BY <1>2, <1>4 DEF SameSession
<1> QED
  BY <1>1, <1>5, <1>6, <1>7 DEF SessionInv, ServerTypes, Awake, server

LEMMA TypeInv ==
  ASSUME SessionInv, Type
  PROVE  SessionInv'
<1>1. UNCHANGED <<server, cached, began>>
  BY DEF Type
<1>2. SessionRecord(m) /\ Fits(m, log, began) /\ Awake(m, cached)
  BY DEF SessionInv
<1>3. CASE m' = [m EXCEPT !.sendQueue = Append(@, m.room)] /\ UNCHANGED sent
  <2>1. PICK q : q = Append(m.sendQueue, m.room)
    OBVIOUS
  <2>2. q \in Seq(Places) /\ \A k \in 1..Len(q) : q[k] = m.room
    <3>1. /\ m.sendQueue \in Seq(Places) /\ m.room \in Places
          /\ \A k \in 1..Len(m.sendQueue) : m.sendQueue[k] = m.room
      BY <1>2, RecordTypes DEF Fits
    <3>2. q \in Seq(Places) /\ Len(q) = Len(m.sendQueue) + 1 /\ q[Len(q)] = m.room
          /\ \A k \in 1..Len(m.sendQueue) : q[k] = m.sendQueue[k]
      BY <2>1, <3>1
    <3>3. Len(m.sendQueue) \in Nat
      BY <3>1
    <3> QED
      BY <3>1, <3>2, <3>3
  <2>3. m' = [m EXCEPT !.sendQueue = q]
    BY <1>3, <2>1
  <2>4. m' \in SessionRecords /\ m'.sendQueue = q
    BY <1>2, <2>2, <2>3 DEF SessionRecord, SessionRecords
  <2>5. SameSession(m, m') /\ m'.jobs = m.jobs /\ m'.handles = m.handles
    BY <1>2, <2>3 DEF SessionRecord, SessionRecords, SameSession
  <2>6. SessionRecord(m')
    BY <1>2, <2>4, <2>5 DEF SessionRecord
  <2>7. Fits(m', log, began)
    <3>1. \A k \in 1..Len(m'.sendQueue) : m'.sendQueue[k] = m'.room
      BY <2>2, <2>4, <2>5 DEF SameSession
    <3>2. \A i \in DOMAIN m'.jobs : JobFits(m', log, began, m'.jobs[i])
      BY <1>2, <2>5 DEF Fits, JobFits, SameSession
    <3> QED
      BY <1>2, <2>5, <3>1, <3>2 DEF Fits, SameSession, Current
  <2>8. Awake(m', cached)
    BY <1>2, <2>5, AwakeKept DEF SameSession, AtWork, Current
  <2> QED
    BY <1>1, <1>3, <2>6, <2>7, <2>8 DEF SessionInv, ServerTypes, server
<1>4. CASE /\ m.token
           /\ m' = Started(m, "send", m.generation, m.room, 0, 0)
           /\ sent' = sent \cup {<<m.room, m.room>>}
  <2> DEFINE job == [kind |-> "send", gen |-> m.generation, room |-> m.room, from |-> 0, least |-> 0]
  <2>1. /\ job \in Job /\ job.kind = "send" /\ job.gen = m.generation /\ job.room = m.room
        /\ job.from = 0 /\ job.least = 0
    BY <1>2, RecordTypes DEF Job, Places
  <2>2. m' = Started(m, job.kind, job.gen, job.room, job.from, job.least)
    BY <1>4, <2>1
  <2> HIDE DEF job
  <2>3. JobFits(m, log, began, job)
    BY <1>2, <1>4, <2>1, RecordTypes DEF JobFits, Positioned
  <2>4. /\ SessionRecord(m') /\ Fits(m', log, began) /\ SameSession(m, m')
        /\ AtWork(m) => AtWork(m')
    BY <1>2, <2>1, <2>2, <2>3, StartedFits
  <2>5. Awake(m', cached)
    BY <1>2, <2>4, AwakeKept DEF SameSession
  <2>6. \A d \in sent' : d[1] = d[2]
    BY <1>4 DEF SessionInv
  <2> QED
    BY <1>1, <2>4, <2>5, <2>6 DEF SessionInv, ServerTypes, server
<1> QED
  BY <1>3, <1>4 DEF Type

(* /connect was answered: until then it was the session's only callback, so  *)
(* none of the callbacks left is the session's own.                          *)
LEMMA ConnectedInv ==
  ASSUME SessionInv, NEW i \in DOMAIN m.jobs, Connected(i)
  PROVE  SessionInv'
<1> DEFINE job == m.jobs[i]
           x == Closed(m, i)
           seq == Len(log[job.room])
           y == [x EXCEPT !.token = TRUE, !.cursor = seq, !.status = "connected"]
<1>1. SessionRecord(m) /\ Fits(m, log, began) /\ Awake(m, cached) /\ ServerTypes
  BY DEF SessionInv
<1>2. job \in Job /\ job.kind = "connect" /\ job.gen \in Nat
  BY CurrentJob DEF Connected, Pending, Job
<1>3. /\ SessionRecord(x) /\ Fits(x, log, began)
      /\ SameSession(m, x) /\ x.handles = m.handles /\ x.sendQueue = m.sendQueue
      /\ DOMAIN x.jobs = DOMAIN m.jobs \ {i}
      /\ \A j \in DOMAIN x.jobs : x.jobs[j] = m.jobs[j]
      /\ AtWork(m) => AtWork(x)
  BY <1>1, <1>2, ClosedFits DEF Working
<1>4. claimed' = TRUE /\ UNCHANGED <<log, sent>>
  BY DEF Connected
<1>5. CASE ~Current(m, i)
  <2>1. m' = x /\ UNCHANGED <<cached, began>>
    BY <1>5 DEF Connected
  <2>2. Awake(m', cached)
    BY <1>1, <1>3, <2>1, AwakeKept DEF SameSession
  <2> QED
    BY <1>1, <1>3, <1>4, <2>1, <2>2 DEF SessionInv, ServerTypes
<1>6. CASE Current(m, i)
  <2>1. m' = StartEventStream(y, job.gen) /\ cached' = TRUE /\ began' = seq
    BY <1>6 DEF Connected
  <2>2. /\ ~m.token /\ job.room = m.room /\ m.room \in Targets /\ job.gen = m.generation
    BY <1>2, <1>6, CurrentJob DEF Current, Positioned
  <2>3. seq \in Nat
    BY <1>1, <2>2 DEF ServerTypes, Logs
  <2>4. y \in SessionRecords
    BY <1>3, <2>3 DEF SessionRecord, SessionRecords
  <2>5. /\ y.token = TRUE /\ y.cursor = seq /\ y.room = x.room /\ y.generation = x.generation
        /\ y.buffered = x.buffered /\ y.sendQueue = x.sendQueue
        /\ y.jobs = x.jobs /\ y.handles = x.handles
    BY <1>3, <2>3 DEF SessionRecord, SessionRecords
  <2>6. SessionRecord(y)
    BY <1>3, <2>4, <2>5 DEF SessionRecord
  <2>7. \A j \in DOMAIN y.jobs : y.jobs[j].gen <= y.generation /\ y.jobs[j].gen # y.generation
    <3>1. ASSUME NEW j \in DOMAIN x.jobs
          PROVE  x.jobs[j].gen <= m.generation /\ x.jobs[j].gen # m.generation
      <4>1. j \in DOMAIN m.jobs /\ j # i /\ x.jobs[j] = m.jobs[j]
        BY <1>3, <3>1
      <4>2. m.jobs[j].gen <= m.generation /\ (Current(m, j) => m.jobs[j].kind = "connect")
        BY <2>2, <4>1, CurrentJob
      <4>3. ~Current(m, j)
        BY <1>1, <1>2, <1>6, <4>1, <4>2 DEF Fits
      <4> QED
        BY <4>1, <4>2, <4>3 DEF Current
    <3> QED
      BY <1>3, <2>5, <3>1 DEF SameSession
  <2>8. y.room \in Targets /\ ShownUpTo(y.room, y.buffered, log, seq, y.cursor)
    <3>1. y.room = m.room /\ seq = Len(log[m.room]) /\ y.cursor = seq
      BY <1>3, <2>2, <2>5 DEF SameSession
    <3> HIDE DEF seq, y
    <3> QED
      BY <2>2, <2>3, <3>1 DEF ShownUpTo
  <2>9. Fits(y, log, seq)
    <3>1. /\ \A q \in 1..Len(y.sendQueue) : y.sendQueue[q] = y.room
          /\ \A c \in y.buffered : c.room = y.room
      BY <1>3, <2>5 DEF Fits
    <3> HIDE DEF y, seq
    <3>2. \A j \in DOMAIN y.jobs : JobFits(y, log, seq, y.jobs[j])
      BY <2>7 DEF JobFits
    <3> QED
      BY <2>5, <2>7, <2>8, <3>1, <3>2 DEF Fits, Current
  <2>10. job.gen = y.generation
    BY <1>3, <2>2, <2>5 DEF SameSession
  <2> HIDE DEF y, seq
  <2>11. SessionRecord(m') /\ Fits(m', log, seq) /\ AtWork(m')
    <3>1. job.gen <= y.generation /\ y.token
      BY <1>2, <2>5, <2>10
    <3> QED
      BY <1>2, <2>1, <2>6, <2>9, <2>10, <3>1, StreamStarted
  <2> QED
    BY <1>1, <1>4, <2>1, <2>3, <2>11 DEF SessionInv, ServerTypes, Awake
<1> QED
  BY <1>5, <1>6

(* A step that leaves the session and the log as they are.                   *)
LEMMA SameSessionInv ==
  ASSUME SessionInv, SessionRecord(m'), Fits(m', log, began), SameSession(m, m'),
         AtWork(m) => AtWork(m'),
         UNCHANGED <<log, cached, began, sent>>, claimed' \in BOOLEAN
  PROVE  SessionInv'
<1>1. Awake(m', cached)
  BY AwakeKept DEF SessionInv, SameSession
<1> QED
  BY <1>1 DEF SessionInv, ServerTypes

LEMMA FlightSet ==
  ASSUME NEW x, SessionRecord(x), NEW L, NEW b, Fits(x, L, b),
         NEW busy \in BOOLEAN, NEW y, y = [x EXCEPT !.pollInFlight = busy]
  PROVE  /\ SessionRecord(y) /\ Fits(y, L, b)
         /\ SameSession(x, y) /\ y.sendQueue = x.sendQueue
         /\ y.handles = x.handles /\ y.jobs = x.jobs
         /\ AtWork(x) => AtWork(y)
<1>1. y \in SessionRecords
  BY DEF SessionRecord, SessionRecords
<1>2. SameSession(x, y) /\ y.sendQueue = x.sendQueue /\ y.handles = x.handles /\ y.jobs = x.jobs
  BY DEF SessionRecord, SessionRecords, SameSession
<1>3. SessionRecord(y)
  BY <1>1, <1>2 DEF SessionRecord
<1>4. Fits(y, L, b)
  BY <1>2, <1>3, FewerJobsFit
<1> QED
  BY <1>2, <1>3, <1>4 DEF AtWork, Current, SameSession

LEMMA HandleLost ==
  ASSUME NEW x, SessionRecord(x), NEW L, NEW b, Fits(x, L, b),
         NEW kind \in HandleKinds, NEW y, y = [x EXCEPT !.handles[kind] = NoJob]
  PROVE  /\ SessionRecord(y) /\ Fits(y, L, b)
         /\ SameSession(x, y) /\ y.sendQueue = x.sendQueue
         /\ AtWork(x) => AtWork(y)
<1> DEFINE handles == [x.handles EXCEPT ![kind] = NoJob]
<1>1. y = [x EXCEPT !.handles = handles]
  OBVIOUS
<1>2. handles \in [HandleKinds -> Nat] /\ handles["pollTimer"] \in {x.handles["pollTimer"], NoJob}
  BY RecordTypes DEF NoJob, HandleKinds
<1> HIDE DEF handles
<1>3. y \in SessionRecords /\ y.handles = handles
  BY <1>1, <1>2 DEF SessionRecord, SessionRecords
<1>4. SameSession(x, y) /\ y.sendQueue = x.sendQueue /\ y.jobs = x.jobs
  BY <1>1 DEF SessionRecord, SessionRecords, SameSession
<1>5. SessionRecord(y)
  BY <1>3, <1>4 DEF SessionRecord
<1>6. Fits(y, L, b)
  BY <1>2, <1>3, <1>4, <1>5, FewerJobsFit
<1> QED
  BY <1>4, <1>5, <1>6 DEF AtWork, Current, SameSession

LEMMA ConnectFailsInv ==
  ASSUME SessionInv, NEW i \in DOMAIN m.jobs, ConnectFails(i)
  PROVE  SessionInv'
<1> DEFINE x == Closed(m, i)
<1>1. SessionRecord(m) /\ Fits(m, log, began) /\ ServerTypes
  BY DEF SessionInv
<1>2. /\ m.jobs[i].kind = "connect"
      /\ m' = IF Current(m, i) THEN [x EXCEPT !.status = "error"] ELSE x
      /\ UNCHANGED <<log, began, sent>>
  BY DEF ConnectFails, Pending
<1>3. /\ SessionRecord(x) /\ Fits(x, log, began) /\ SameSession(m, x)
      /\ AtWork(m) => AtWork(x)
  BY <1>1, <1>2, ClosedFits DEF Working
<1>4. claimed' \in BOOLEAN
  BY <1>1 DEF ConnectFails, ServerTypes, TokenRefused
<1>5. cached' \in BOOLEAN /\ (~Current(m, i) => cached' = cached)
  BY <1>1 DEF ConnectFails, ServerTypes, TokenRefused, NetworkError
<1> HIDE DEF x
<1>6. CASE ~Current(m, i)
  BY <1>2, <1>3, <1>4, <1>5, <1>6, SameSessionInv
<1>7. CASE Current(m, i)
  <2>1. SessionRecord(m') /\ Fits(m', log, began) /\ SameSession(x, m')
    BY <1>2, <1>3, <1>7, StatusSet
  <2>2. ~m'.token
    BY <1>2, <1>3, <1>7, <2>1, CurrentJob DEF SameSession
  <2> QED
    BY <1>1, <1>2, <1>4, <1>5, <2>1, <2>2 DEF SessionInv, ServerTypes, Awake
<1> QED
  BY <1>6, <1>7

LEMMA MaxOfTwo ==
  ASSUME NEW a \in Nat, NEW c \in Nat
  PROVE  Max({a, c}) \in {a, c}
<1>1. \E n \in {a, c} : \A k \in {a, c} : n >= k
  OBVIOUS
<1> QED
  BY <1>1 DEF Max

LEMMA StreamDeliversInv ==
  ASSUME SessionInv, NEW i \in DOMAIN m.jobs, StreamDelivers(i)
  PROVE  SessionInv'
<1> DEFINE job == m.jobs[i]
<1>1. /\ SessionRecord(m) /\ Fits(m, log, began) /\ ServerTypes
      /\ job \in Job /\ job.kind = "eventStream" /\ job.room \in Targets
      /\ UNCHANGED <<server, cached, began, sent>>
  <2>1. job \in Job
    BY CurrentJob
  <2>2. job.kind = "eventStream" /\ job.room # NoTarget /\ UNCHANGED <<server, cached, began, sent>>
    BY DEF StreamDelivers, Pending
  <2> QED
    BY <2>1, <2>2 DEF SessionInv, Job
<1> DEFINE jobs(to) == [m.jobs EXCEPT ![i].from = to]
           x(to) == [m EXCEPT !.jobs[i].from = to]
           y(to) == [x(to) EXCEPT !.cursor = Max({@, to})]
<1>2. PICK to \in (job.from + 1)..Len(log[job.room]) :
        m' = IF Current(m, i) THEN Ingest(y(to), job.gen, job.room, job.from, to) ELSE x(to)
  BY DEF StreamDelivers
<1>3. Len(log[job.room]) \in Nat /\ job.from \in Nat /\ to \in Nat /\ to <= Len(log[job.room])
  BY <1>1, <1>2 DEF ServerTypes, Logs, Job
<1> DEFINE js == jobs(to)
<1>4. /\ DOMAIN js = DOMAIN m.jobs
      /\ js = [j \in DOMAIN js |-> js[j]]
      /\ \A j \in DOMAIN js \ {i} : js[j] = m.jobs[j]
      /\ js[i].kind = job.kind /\ js[i].gen = job.gen /\ js[i].room = job.room /\ js[i].from = to
      /\ js[i] \in Job
  BY <1>1, <1>3, RecordTypes DEF Job
<1>5. js \in JobTables
  BY <1>1, <1>4, RecordTypes, JobTable
<1>6. x(to) = [m EXCEPT !.jobs = js]
  OBVIOUS
<1> HIDE DEF js, jobs, x
<1>7. x(to) \in SessionRecords /\ x(to).jobs = js
  BY <1>1, <1>5, <1>6 DEF SessionRecord, SessionRecords
<1>8. /\ SameSession(m, x(to)) /\ x(to).sendQueue = m.sendQueue /\ x(to).handles = m.handles
  BY <1>1, <1>6 DEF SessionRecord, SessionRecords, SameSession
<1>9. SessionRecord(x(to))
  BY <1>1, <1>4, <1>7 DEF SessionRecord
<1>10. CASE ~Current(m, i)
  <2>1. m' = x(to)
    BY <1>2, <1>10
  <2>2. \A j \in DOMAIN m'.jobs : JobFits(m', log, began, m'.jobs[j])
    <3>1. ASSUME NEW j \in DOMAIN m.jobs
          PROVE  JobFits(m', log, began, js[j])
      <4>1. JobFits(m, log, began, m.jobs[j])
        BY <1>1 DEF Fits
      <4>2. CASE j # i
        BY <1>4, <1>8, <2>1, <4>1, <4>2 DEF JobFits, SameSession
      <4>3. CASE j = i
        BY <1>4, <1>8, <1>10, <2>1, <4>1, <4>3 DEF JobFits, SameSession, Current
      <4> QED
        BY <4>2, <4>3
    <3> QED
      BY <1>4, <1>7, <2>1, <3>1
  <2>3. Fits(m', log, began)
    BY <1>1, <1>4, <1>7, <1>8, <2>1, <2>2 DEF Fits, SameSession, Current
  <2>4. AtWork(m) => AtWork(m')
    BY <1>4, <1>7, <1>8, <2>1 DEF AtWork, Current, SameSession
  <2> QED
    BY <1>1, <1>8, <1>9, <2>1, <2>3, <2>4, SameSessionInv DEF server, ServerTypes
<1>11. CASE Current(m, i)
  <2> DEFINE shown == Visible(Batch(job.room, job.from, to))
             w == y(to)
             z == [w EXCEPT !.buffered = @ \cup shown]
  <2>1. /\ m.token /\ job.room = m.room /\ job.gen = m.generation
        /\ ShownUpTo(m.room, m.buffered, log, began, job.from)
    BY <1>1, <1>11, CurrentJob DEF Current, Positioned
  <2>2. m' = Ingest(w, job.gen, job.room, job.from, to)
    BY <1>2, <1>11
  <2>3. Max({m.cursor, to}) \in {m.cursor, to} /\ m.cursor \in Nat
    BY <1>1, <1>3, MaxOfTwo, RecordTypes
  <2>4. PICK cursor \in Nat : cursor = Max({m.cursor, to})
    BY <1>3, <2>3
  <2>5. w = [x(to) EXCEPT !.cursor = cursor]
    BY <1>8, <2>4 DEF SameSession
  <2> HIDE DEF w
  <2>6. /\ w \in SessionRecords /\ w.cursor = cursor /\ w.jobs = js
        /\ w.sendQueue = m.sendQueue /\ w.handles = m.handles
        /\ w.generation = m.generation /\ w.room = m.room /\ w.reuse = m.reuse
        /\ w.token = m.token /\ w.buffered = m.buffered
    BY <1>7, <1>8, <2>5 DEF SessionRecords, SameSession
  <2>7. shown \subseteq [room : Targets, seq : Nat]
    BY <1>1, <1>3 DEF Visible, Batch
  <2> HIDE DEF shown
  <2>8. /\ z \in SessionRecords /\ z.cursor = cursor /\ z.jobs = js
        /\ z.sendQueue = m.sendQueue /\ z.handles = m.handles
        /\ z.generation = m.generation /\ z.room = m.room /\ z.reuse = m.reuse
        /\ z.token = m.token /\ z.buffered = m.buffered \cup shown
    BY <2>6, <2>7 DEF SessionRecords
  <2>9. z = WithBatch(w, job.room, job.from, to)
    BY DEF shown, WithBatch
  <2> HIDE DEF z
  <2>10. SessionRecord(z)
    BY <1>1, <1>4, <2>8 DEF SessionRecord
  <2>11. Fits(z, log, began)
    <3>1. \A j \in DOMAIN z.jobs :
            /\ z.jobs[j].kind = m.jobs[j].kind /\ z.jobs[j].gen = m.jobs[j].gen
            /\ z.jobs[j].room = m.jobs[j].room /\ z.jobs[j].from \in {m.jobs[j].from, to}
      BY <1>4, <2>8
    <3>2. z.buffered = m.buffered \cup Visible(Batch(m.room, job.from, to))
      BY <2>1, <2>8 DEF shown
    <3>3. z.cursor \in {m.cursor, to} /\ DOMAIN z.jobs \subseteq DOMAIN m.jobs
      BY <1>4, <2>3, <2>4, <2>8
    <3>4. began \in Nat /\ to <= Len(log[m.room])
      BY <1>1, <1>3, <2>1 DEF ServerTypes
    <3> QED
      BY <1>1, <1>3, <2>1, <2>8, <2>10, <3>1, <3>2, <3>3, <3>4, Delivered
  <2>12. AtWork(z)
    BY <1>1, <1>4, <2>1, <2>8 DEF AtWork, Current, Working
  <2>13. SessionRecord(m') /\ Fits(m', log, began) /\ SameSession(z, m') /\ AtWork(m')
    <3>1. m' = Ingest(w, z.generation, job.room, job.from, to) /\ z.token
      BY <2>1, <2>2, <2>8
    <3>2. SessionRecord(m') /\ Fits(m', log, began) /\ SameSession(z, m') /\ (AtWork(z) => AtWork(m'))
      BY <2>9, <2>10, <2>11, <3>1, Ingested
    <3> QED
      BY <2>12, <3>2
  <2> QED
    BY <1>1, <2>13 DEF SessionInv, ServerTypes, server, Awake
<1> QED
  BY <1>10, <1>11

LEMMA StreamFailsInv ==
  ASSUME SessionInv, NEW i \in DOMAIN m.jobs, StreamFails(i)
  PROVE  SessionInv'
<1> DEFINE x == Closed(m, i)
           y == [x EXCEPT !.handles.eventStream = NoJob]
<1>1. /\ SessionRecord(m) /\ Fits(m, log, began) /\ ServerTypes
      /\ UNCHANGED <<server, began, sent>>
  BY DEF SessionInv, StreamFails
<1>2. m.jobs[i].kind = "eventStream" /\ m.jobs[i].gen \in Nat
  BY CurrentJob DEF StreamFails, Pending, Job
<1>3. /\ SessionRecord(x) /\ Fits(x, log, began) /\ SameSession(m, x)
      /\ AtWork(m) /\ ~Current(m, i) => AtWork(x)
  BY <1>1, ClosedFits
<1> HIDE DEF x
<1>4. CASE ~Current(m, i)
  <2>1. m' = x /\ cached' = cached
    BY <1>4 DEF StreamFails, NetworkError, TokenRefused, x
  <2> QED
    BY <1>1, <1>3, <1>4, <2>1, SameSessionInv DEF server, ServerTypes
<1>5. CASE Current(m, i)
  <2>1. /\ m.token /\ m.jobs[i].gen = m.generation
        /\ m.jobs[i].room = m.room /\ m.room \in Targets
    BY <1>2, <1>5, CurrentJob DEF Current, Positioned
  <2>2. y = [x EXCEPT !.handles["eventStream"] = NoJob]
    OBVIOUS
  <2>3. SessionRecord(y) /\ Fits(y, log, began) /\ SameSession(x, y)
    BY <1>3, <2>2, HandleLost DEF HandleKinds
  <2>4. y.token = TRUE /\ y.reuse = m.reuse /\ y.generation = m.generation
    BY <1>1, <1>3, <2>1, <2>3, RecordTypes DEF SameSession
  <2> HIDE DEF y
  <2>5. CASE /\ m' = SchedulePoll(y, m.jobs[i].gen)
             /\ cached' = cached
    <3>1. m' = Started(y, "pollTimer", m.jobs[i].gen, NoTarget, 0, 0)
      BY <2>5 DEF SchedulePoll
    <3>2. m.jobs[i].gen <= y.generation /\ m.jobs[i].gen = y.generation /\ NoTarget \in Places
      BY <1>2, <2>1, <2>4 DEF Places
    <3>3. SessionRecord(m') /\ Fits(m', log, began) /\ SameSession(y, m') /\ AtWork(m')
      BY <1>2, <2>3, <2>4, <3>1, <3>2, TimerArmed
    <3> QED
      BY <1>1, <2>5, <3>3 DEF SessionInv, ServerTypes, server, Awake
  <2>6. CASE /\ m' = Rejected(y)
             /\ cached' = IF m.reuse THEN FALSE ELSE cached
    <3>1. SessionRecord(m') /\ Fits(m', log, began) /\ (m'.token => y.reuse /\ m'.reuse)
      BY <2>3, <2>4, <2>6, TokenRejected
    <3>2. cached' \in BOOLEAN /\ (m'.token => ~cached' /\ m'.reuse)
      BY <1>1, <2>4, <2>6, <3>1 DEF ServerTypes
    <3> QED
      BY <1>1, <3>1, <3>2 DEF SessionInv, ServerTypes, server, Awake
  <2>7. m.jobs[i].room # NoTarget
    BY <2>1, SessionAssumption
  <2> QED
    BY <1>5, <2>5, <2>6, <2>7 DEF StreamFails, NetworkError, TokenRefused, x, y
<1> QED
  BY <1>4, <1>5

LEMMA PollTimerFiresInv ==
  ASSUME SessionInv, NEW i \in DOMAIN m.jobs, PollTimerFires(i)
  PROVE  SessionInv'
<1> DEFINE x == Closed(m, i)
           z == Started(x, "poll", m.generation, m.room, m.cursor, Len(log[m.room]))
<1>1. /\ SessionRecord(m) /\ Fits(m, log, began) /\ ServerTypes
      /\ UNCHANGED <<server, cached, began, sent>>
  BY DEF SessionInv, PollTimerFires
<1>2. m.jobs[i].kind = "pollTimer"
  BY DEF PollTimerFires, Pending
<1>3. /\ SessionRecord(x) /\ Fits(x, log, began) /\ SameSession(m, x)
      /\ AtWork(m) /\ ~Current(m, i) => AtWork(x)
  BY <1>1, ClosedFits
<1> HIDE DEF x
<1>4. CASE ~Current(m, i)
  BY <1>1, <1>3, <1>4, SameSessionInv DEF server, ServerTypes, PollTimerFires, x
<1>5. CASE Current(m, i)
  <2>1. m.token /\ m.room \in Targets /\ ShownUpTo(m.room, m.buffered, log, began, m.cursor)
    BY <1>1, <1>2, <1>5, CurrentJob DEF Fits
  <2>2. m' = [z EXCEPT !.pollInFlight = TRUE]
    BY <1>5, <2>1 DEF PollTimerFires, x
  <2> DEFINE job == [kind |-> "poll", gen |-> m.generation, room |-> m.room,
                     from |-> m.cursor, least |-> Len(log[m.room])]
  <2>3. /\ job \in Job /\ job.kind = "poll" /\ job.gen = m.generation /\ job.room = m.room
        /\ job.from = m.cursor /\ job.least = Len(log[m.room])
    <3>1. m.generation \in Nat /\ m.cursor \in Nat /\ m.room \in Places /\ Len(log[m.room]) \in Nat
      BY <1>1, <2>1, RecordTypes DEF ServerTypes, Logs
    <3> QED
      BY <3>1 DEF Job, Places
  <2>4. z = Started(x, job.kind, job.gen, job.room, job.from, job.least)
    BY <2>3
  <2> HIDE DEF job, z
  <2>5. JobFits(x, log, began, job)
    BY <1>1, <1>3, <2>1, <2>3, RecordTypes DEF JobFits, SameSession
  <2>6. job.kind # "connect" /\ job.kind # "pollTimer" /\ job.kind \in Working /\ job.gen = x.generation
    BY <1>3, <2>3 DEF Working, SameSession
  <2>7. SessionRecord(z) /\ Fits(z, log, began) /\ SameSession(x, z) /\ AtWork(z)
    BY <1>3, <2>3, <2>4, <2>5, <2>6, StartedFits
  <2>8. SessionRecord(m') /\ Fits(m', log, began) /\ SameSession(z, m') /\ AtWork(m')
    BY <2>2, <2>7, FlightSet
  <2>9. SameSession(m, m')
    BY <1>3, <2>7, <2>8 DEF SameSession
  <2> QED
    BY <1>1, <2>8, <2>9, SameSessionInv DEF server, ServerTypes
<1> QED
  BY <1>4, <1>5

LEMMA PolledFits ==
  ASSUME SessionInv, NEW i \in DOMAIN m.jobs, NEW x, x = Polled(i)
  PROVE  /\ SessionRecord(x) /\ Fits(x, log, began) /\ SameSession(m, x)
         /\ x.sendQueue = m.sendQueue /\ x.handles = m.handles
         /\ DOMAIN x.jobs \subseteq DOMAIN m.jobs
         /\ \A j \in DOMAIN x.jobs : x.jobs[j] = m.jobs[j]
         /\ AtWork(m) /\ ~Current(m, i) => AtWork(x)
<1> DEFINE c == Closed(m, i)
<1>1. /\ SessionRecord(c) /\ Fits(c, log, began) /\ SameSession(m, c)
      /\ c.sendQueue = m.sendQueue /\ c.handles = m.handles
      /\ DOMAIN c.jobs = DOMAIN m.jobs \ {i}
      /\ \A j \in DOMAIN c.jobs : c.jobs[j] = m.jobs[j]
      /\ AtWork(m) /\ ~Current(m, i) => AtWork(c)
  BY ClosedFits DEF SessionInv
<1>2. PICK busy \in BOOLEAN : x = [c EXCEPT !.pollInFlight = busy]
  BY DEF Polled
<1> HIDE DEF c
<1>3. /\ SessionRecord(x) /\ Fits(x, log, began) /\ SameSession(c, x)
      /\ x.sendQueue = c.sendQueue /\ x.handles = c.handles /\ x.jobs = c.jobs
      /\ AtWork(c) => AtWork(x)
  BY <1>1, <1>2, FlightSet
<1> QED
  BY <1>1, <1>3 DEF SameSession

LEMMA PollAnsweredInv ==
  ASSUME SessionInv, NEW i \in DOMAIN m.jobs, PollAnswered(i)
  PROVE  SessionInv'
<1> DEFINE job == m.jobs[i]
           x == Polled(i)
<1>1. /\ SessionRecord(m) /\ Fits(m, log, began) /\ ServerTypes
      /\ job \in Job /\ job.kind = "poll" /\ job.gen \in Nat
      /\ UNCHANGED <<server, cached, began, sent>>
  BY CurrentJob DEF SessionInv, PollAnswered, Pending, Job
<1>2. /\ SessionRecord(x) /\ Fits(x, log, began) /\ SameSession(m, x)
      /\ x.sendQueue = m.sendQueue /\ x.handles = m.handles
      /\ DOMAIN x.jobs \subseteq DOMAIN m.jobs
      /\ \A j \in DOMAIN x.jobs : x.jobs[j] = m.jobs[j]
      /\ AtWork(m) /\ ~Current(m, i) => AtWork(x)
  BY PolledFits
<1>3. PICK to \in job.least..Len(log[job.room]) :
        m' = IF Current(m, i)
             THEN SchedulePoll(Ingest([x EXCEPT !.cursor = to], job.gen, job.room, job.from, to), job.gen)
             ELSE x
  BY DEF PollAnswered
<1> HIDE DEF x
<1>4. CASE ~Current(m, i)
  <2>1. m' = x
    BY <1>3, <1>4
  <2> QED
    BY <1>1, <1>2, <1>4, <2>1, SameSessionInv DEF server, ServerTypes
<1>5. CASE Current(m, i)
  <2> DEFINE shown == Visible(Batch(job.room, job.from, to))
             w == [x EXCEPT !.cursor = to]
             z == [w EXCEPT !.buffered = @ \cup shown]
             y == Ingest(w, job.gen, job.room, job.from, to)
  <2>1. /\ m.token /\ job.room = m.room /\ m.room \in Targets /\ job.gen = m.generation
        /\ ShownUpTo(m.room, m.buffered, log, began, job.from)
    BY <1>1, <1>5, CurrentJob DEF Current, Positioned
  <2>2. /\ to \in Nat /\ job.from \in Nat /\ to <= Len(log[m.room])
    <3>1. job.least \in Nat /\ job.from \in Nat /\ Len(log[m.room]) \in Nat
      BY <1>1, <2>1 DEF ServerTypes, Logs, Job
    <3>2. to \in job.least..Len(log[m.room])
      BY <2>1
    <3> QED
      BY <3>1, <3>2
  <2>3. /\ w \in SessionRecords /\ w.cursor = to /\ w.jobs = x.jobs
        /\ w.sendQueue = m.sendQueue /\ w.handles = m.handles
        /\ w.generation = m.generation /\ w.room = m.room /\ w.reuse = m.reuse
        /\ w.token = m.token /\ w.buffered = m.buffered
    BY <1>2, <2>2 DEF SessionRecord, SessionRecords, SameSession
  <2>4. shown \subseteq [room : Targets, seq : Nat]
    BY <2>1, <2>2 DEF Visible, Batch
  <2> HIDE DEF w, shown
  <2>5. /\ z \in SessionRecords /\ z.cursor = to /\ z.jobs = x.jobs
        /\ z.sendQueue = m.sendQueue /\ z.handles = m.handles
        /\ z.generation = m.generation /\ z.room = m.room /\ z.reuse = m.reuse
        /\ z.token = m.token /\ z.buffered = m.buffered \cup shown
    BY <2>3, <2>4 DEF SessionRecords
  <2>6. z = WithBatch(w, job.room, job.from, to)
    BY DEF shown, WithBatch
  <2> HIDE DEF z
  <2>7. SessionRecord(z)
    BY <1>2, <2>5 DEF SessionRecord
  <2>8. Fits(z, log, began)
    <3>1. \A j \in DOMAIN z.jobs :
            /\ z.jobs[j].kind = m.jobs[j].kind /\ z.jobs[j].gen = m.jobs[j].gen
            /\ z.jobs[j].room = m.jobs[j].room /\ z.jobs[j].from \in {m.jobs[j].from, to}
      BY <1>2, <2>5
    <3>2. z.buffered = m.buffered \cup Visible(Batch(m.room, job.from, to))
      BY <2>1, <2>5 DEF shown
    <3>3. z.cursor \in {m.cursor, to} /\ DOMAIN z.jobs \subseteq DOMAIN m.jobs
      BY <1>2, <2>5
    <3>4. began \in Nat
      BY <1>1 DEF ServerTypes
    <3>5. /\ z.generation = m.generation /\ z.room = m.room /\ z.token = m.token
          /\ z.sendQueue = m.sendQueue /\ z.handles = m.handles
      BY <2>5
    <3>6. PICK from \in Nat : from = job.from
      BY <2>2
    <3>7. /\ ShownUpTo(m.room, m.buffered, log, began, from)
          /\ z.buffered = m.buffered \cup Visible(Batch(m.room, from, to))
      BY <2>1, <3>2, <3>6
    <3> HIDE DEF job
    <3> QED
      BY <1>1, <2>1, <2>2, <2>7, <3>1, <3>3, <3>4, <3>5, <3>7, Delivered
  <2>9. SessionRecord(y) /\ Fits(y, log, began) /\ SameSession(z, y)
    <3>1. y = Ingest(w, z.generation, job.room, job.from, to) /\ z.token
      BY <2>1, <2>5
    <3> HIDE DEF y
    <3> QED
      BY <2>6, <2>7, <2>8, <3>1, Ingested
  <2>10. m' = Started(y, "pollTimer", job.gen, NoTarget, 0, 0)
    BY <1>3, <1>5 DEF SchedulePoll, w
  <2> HIDE DEF y
  <2>11. job.gen <= y.generation /\ job.gen = y.generation /\ y.token /\ NoTarget \in Places
    BY <1>1, <2>1, <2>5, <2>9 DEF SameSession, Places
  <2>12. SessionRecord(m') /\ Fits(m', log, began) /\ AtWork(m')
    BY <1>1, <2>9, <2>10, <2>11, TimerArmed
  <2> QED
    BY <1>1, <2>12 DEF SessionInv, ServerTypes, server, Awake
<1> QED
  BY <1>4, <1>5

LEMMA PollFailsInv ==
  ASSUME SessionInv, NEW i \in DOMAIN m.jobs, PollFails(i)
  PROVE  SessionInv'
<1> DEFINE x == Polled(i)
           e == [x EXCEPT !.status = "error"]
<1>1. /\ SessionRecord(m) /\ Fits(m, log, began) /\ ServerTypes
      /\ m.jobs[i].kind = "poll"
      /\ UNCHANGED <<server, began, sent>>
  BY DEF SessionInv, PollFails, Pending
<1>2. /\ SessionRecord(x) /\ Fits(x, log, began) /\ SameSession(m, x)
      /\ AtWork(m) /\ ~Current(m, i) => AtWork(x)
  BY PolledFits
<1>3. CASE ~Current(m, i)
  <2>1. m' = x /\ cached' = cached
    BY <1>3 DEF PollFails, NetworkError, TokenRefused
  <2> HIDE DEF x
  <2> QED
    BY <1>1, <1>2, <1>3, <2>1, SameSessionInv DEF server, ServerTypes
<1>4. CASE Current(m, i)
  <2>1. m.token
    BY <1>1, <1>4, CurrentJob
  <2>2. x.token = TRUE /\ x.reuse = m.reuse /\ x.generation \in Nat
    BY <1>1, <1>2, <2>1, RecordTypes DEF SameSession
  <2>3. SessionRecord(e) /\ Fits(e, log, began) /\ SameSession(x, e)
    BY <1>2, StatusSet
  <2> HIDE DEF x
  <2>4. CASE m' = AfterPollError(e) /\ cached' = cached
    <3>1. m' = Started(e, "pollTimer", e.generation, NoTarget, 0, 0)
      BY <2>4 DEF AfterPollError, SchedulePoll
    <3> HIDE DEF e
    <3>2. e.generation \in Nat /\ e.generation <= e.generation /\ e.token /\ NoTarget \in Places
      BY <2>2, <2>3 DEF SameSession, Places
    <3>3. SessionRecord(m') /\ Fits(m', log, began) /\ AtWork(m')
      BY <2>3, <3>1, <3>2, TimerArmed
    <3> QED
      BY <1>1, <2>4, <3>3 DEF SessionInv, ServerTypes, server, Awake
  <2>5. CASE m' = Rejected(x) /\ cached' = IF m.reuse THEN FALSE ELSE cached
    <3>1. SessionRecord(m') /\ Fits(m', log, began) /\ (m'.token => x.reuse /\ m'.reuse)
      BY <1>2, <2>2, <2>5, TokenRejected
    <3>2. cached' \in BOOLEAN /\ (m'.token => ~cached' /\ m'.reuse)
      BY <1>1, <2>2, <2>5, <3>1 DEF ServerTypes
    <3> QED
      BY <1>1, <3>1, <3>2 DEF SessionInv, ServerTypes, server, Awake
  <2> QED
    BY <1>4, <2>4, <2>5 DEF PollFails, NetworkError, TokenRefused, x
<1> QED
  BY <1>3, <1>4

LEMMA RestartTimerFiresInv ==
  ASSUME SessionInv, NEW i \in DOMAIN m.jobs, RestartTimerFires(i)
  PROVE  SessionInv'
<1> DEFINE c == Closed(m, i)
           x == [c EXCEPT !.handles["restartTimer"] = NoJob]
<1>1. /\ SessionRecord(m) /\ Fits(m, log, began) /\ ServerTypes
      /\ UNCHANGED <<server, cached, began, sent>>
      /\ m.jobs[i].kind = "restartTimer"
  BY DEF SessionInv, RestartTimerFires, Pending
<1>2. /\ SessionRecord(c) /\ Fits(c, log, began) /\ SameSession(m, c)
      /\ AtWork(m) /\ ~Current(m, i) => AtWork(c)
  BY <1>1, ClosedFits
<1>3. m' = IF Current(m, i) /\ m.token
           THEN Started(x, "ping", m.generation, m.room, 0, 0) ELSE x
  BY DEF RestartTimerFires
<1> HIDE DEF c
<1>4. /\ SessionRecord(x) /\ Fits(x, log, began) /\ SameSession(c, x)
      /\ AtWork(c) => AtWork(x)
  BY <1>2, HandleLost DEF HandleKinds
<1> HIDE DEF x
<1>5. SameSession(m, x)
  BY <1>2, <1>4 DEF SameSession
<1>6. CASE ~Current(m, i)
  BY <1>1, <1>2, <1>3, <1>4, <1>5, <1>6, SameSessionInv DEF server, ServerTypes
<1>7. CASE Current(m, i)
  <2>1. m.token = TRUE
    BY <1>1, <1>7, CurrentJob, RecordTypes
  <2>2. m' = Started(x, "ping", m.generation, m.room, 0, 0)
    BY <1>3, <1>7, <2>1
  <2>3. /\ m.generation \in Nat /\ m.room \in Places
        /\ m.generation = x.generation /\ x.token = TRUE
    BY <1>1, <1>5, <2>1, RecordTypes DEF SameSession
  <2>4. m.generation <= x.generation
    BY <2>3
  <2>5. SessionRecord(m') /\ Fits(m', log, began) /\ SameSession(x, m') /\ AtWork(m')
    BY <1>4, <2>2, <2>3, <2>4, TimerArmed
  <2>6. SameSession(m, m')
    BY <1>5, <2>5 DEF SameSession
  <2> QED
    BY <1>1, <2>5, <2>6, SameSessionInv DEF server, ServerTypes
<1> QED
  BY <1>6, <1>7

(* The variables may be another session's by now: its stream is started too, *)
(* and its queue, whose texts are all of its own room, flushed.              *)
LEMMA PingAnsweredInv ==
  ASSUME SessionInv, NEW i \in DOMAIN m.jobs, PingAnswered(i)
  PROVE  SessionInv'
<1> DEFINE x == Closed(m, i)
           y == [x EXCEPT !.status = "connected"]
           z == StartEventStream(y, m.jobs[i].gen)
<1>1. /\ SessionRecord(m) /\ Fits(m, log, began) /\ ServerTypes /\ Awake(m, cached)
      /\ \A d \in sent : d[1] = d[2]
      /\ UNCHANGED <<server, cached, began>>
  BY DEF SessionInv, PingAnswered
<1>2. m.jobs[i].kind = "ping" /\ m.jobs[i].gen \in Nat /\ m.jobs[i].gen <= m.generation
  BY CurrentJob DEF PingAnswered, Pending, Job
<1>3. /\ SessionRecord(x) /\ Fits(x, log, began) /\ SameSession(m, x)
      /\ AtWork(m) /\ ~Current(m, i) => AtWork(x)
  BY <1>1, ClosedFits
<1>4. CASE m.room = NoTarget
  <2>1. m' = x /\ UNCHANGED sent
    BY <1>4 DEF PingAnswered
  <2>2. ~m.token
    BY <1>1, <1>4, SessionAssumption DEF Fits
  <2>3. ~m'.token
    BY <1>3, <2>1, <2>2 DEF SameSession
  <2> QED
    BY <1>1, <1>3, <2>1, <2>3 DEF SessionInv, ServerTypes, server, Awake
<1>5. CASE m.room # NoTarget
  <2>1. /\ m' = FlushSendQueue(z)
        /\ sent' = IF m.token THEN sent \cup {<<t, m.room>> : t \in ToSet(m.sendQueue)}
                   ELSE sent
    BY <1>5 DEF PingAnswered
  <2> HIDE DEF x
  <2>2. /\ SessionRecord(y) /\ Fits(y, log, began) /\ SameSession(x, y)
        /\ AtWork(x) => AtWork(y)
    BY <1>3, StatusSet
  <2> HIDE DEF y
  <2>3. /\ m.jobs[i].gen <= y.generation
        /\ m.jobs[i].gen = y.generation => y.token
        /\ y.generation = m.generation
    BY <1>2, <1>3, <2>2, CurrentJob DEF SameSession, Current
  <2>4. /\ SessionRecord(z) /\ Fits(z, log, began) /\ SameSession(y, z)
        /\ AtWork(y) => AtWork(z)
        /\ m.jobs[i].gen = y.generation => AtWork(z)
    BY <1>2, <2>2, <2>3, StreamStarted
  <2> HIDE DEF z
  <2>5. SessionRecord(m') /\ Fits(m', log, began) /\ SameSession(z, m') /\ (AtWork(z) => AtWork(m'))
    BY <2>1, <2>4, QueueFlushed
  <2>6. AtWork(m) => AtWork(m')
    BY <1>3, <2>2, <2>3, <2>4, <2>5 DEF Current
  <2>7. m'.token = m.token /\ m'.reuse = m.reuse
    BY <1>3, <2>2, <2>4, <2>5 DEF SameSession
  <2>8. Awake(m', cached)
    BY <1>1, <2>6, <2>7, AwakeKept
  <2>9. \A d \in sent' : d[1] = d[2]
    <3>1. \A t \in ToSet(m.sendQueue) : t = m.room
      BY <1>1, RecordTypes DEF Fits, ToSet
    <3> QED
      BY <1>1, <2>1, <3>1
  <2> QED
    BY <1>1, <2>5, <2>8, <2>9 DEF SessionInv, ServerTypes, server
<1> QED
  BY <1>4, <1>5

LEMMA PingFailsInv ==
  ASSUME SessionInv, NEW i \in DOMAIN m.jobs, PingFails(i)
  PROVE  SessionInv'
<1> DEFINE x == Closed(m, i)
<1>1. /\ SessionRecord(m) /\ Fits(m, log, began) /\ ServerTypes
      /\ UNCHANGED <<server, cached, began, sent>>
      /\ m' = Started(x, "restartTimer", m.jobs[i].gen, NoTarget, 0, 0)
  BY DEF SessionInv, PingFails, NetworkError, ScheduleRestartRetry
<1>2. m.jobs[i].kind = "ping" /\ m.jobs[i].gen \in Nat /\ m.jobs[i].gen <= m.generation
  BY CurrentJob DEF PingFails, Pending, Job
<1>3. /\ SessionRecord(x) /\ Fits(x, log, began) /\ SameSession(m, x)
      /\ AtWork(m) /\ ~Current(m, i) => AtWork(x)
  BY <1>1, ClosedFits
<1> HIDE DEF x
<1>4. /\ m.jobs[i].gen <= x.generation
      /\ m.jobs[i].gen = x.generation => x.token
      /\ x.generation = m.generation /\ NoTarget \in Places
  BY <1>2, <1>3, CurrentJob DEF SameSession, Current, Places
<1>5. /\ SessionRecord(m') /\ Fits(m', log, began) /\ SameSession(x, m')
      /\ AtWork(x) => AtWork(m')
      /\ m.jobs[i].gen = x.generation => AtWork(m')
  BY <1>1, <1>2, <1>3, <1>4, TimerArmed
<1>6. SameSession(m, m') /\ (AtWork(m) => AtWork(m'))
  BY <1>3, <1>4, <1>5 DEF SameSession, Current
<1> QED
  BY <1>1, <1>5, <1>6, SameSessionInv DEF server, ServerTypes

(* A /send or one request of a flushed queue was answered.                   *)
LEMMA AnsweredFits ==
  ASSUME SessionInv, NEW i \in DOMAIN m.jobs, m.jobs[i].kind \in {"send", "flush"},
         NEW x, x = Answered(i)
  PROVE  /\ SessionRecord(x) /\ Fits(x, log, began) /\ SameSession(m, x)
         /\ x.sendQueue = m.sendQueue /\ x.handles = m.handles
         /\ AtWork(m) => AtWork(x)
<1>1. SessionRecord(m) /\ Fits(m, log, began)
  BY DEF SessionInv
<1>2. CASE ~(m.jobs[i].least > 1)
  <2>1. x = Closed(m, i)
    BY <1>2 DEF Answered
  <2>2. ~(m.jobs[i].kind \in Working)
    BY DEF Working
  <2> QED
    BY <1>1, <2>1, <2>2, ClosedFits
<1>3. CASE m.jobs[i].least > 1
  <2>1. m.jobs[i] \in Job
    BY CurrentJob
  <2>2. PICK n \in Nat : n = m.jobs[i].least - 1
    BY <1>3, <2>1 DEF Job
  <2> DEFINE js == [m.jobs EXCEPT ![i].least = n]
  <2>3. x = [m EXCEPT !.jobs = js]
    BY <1>3, <2>2 DEF Answered
  <2>4. /\ DOMAIN js = DOMAIN m.jobs
        /\ js = [j \in DOMAIN js |-> js[j]]
        /\ \A j \in DOMAIN js \ {i} : js[j] = m.jobs[j]
        /\ js[i].kind = m.jobs[i].kind /\ js[i].gen = m.jobs[i].gen
        /\ js[i].room = m.jobs[i].room /\ js[i].from = m.jobs[i].from
        /\ js[i] \in Job
    BY <1>1, <2>1, <2>2, RecordTypes DEF Job
  <2>5. js \in JobTables
    BY <1>1, <2>4, RecordTypes, JobTable
  <2> HIDE DEF js
  <2>6. x \in SessionRecords /\ x.jobs = js
    BY <1>1, <2>3, <2>5 DEF SessionRecord, SessionRecords
  <2>7. SameSession(m, x) /\ x.sendQueue = m.sendQueue /\ x.handles = m.handles
    BY <1>1, <2>3 DEF SessionRecord, SessionRecords, SameSession
  <2>8. SessionRecord(x)
    BY <1>1, <2>4, <2>6 DEF SessionRecord
  <2>9. \A j \in DOMAIN x.jobs :
          /\ x.jobs[j].kind = m.jobs[j].kind /\ x.jobs[j].gen = m.jobs[j].gen
          /\ x.jobs[j].room = m.jobs[j].room /\ x.jobs[j].from = m.jobs[j].from
    BY <2>4, <2>6
  <2>10. DOMAIN x.jobs = DOMAIN m.jobs
    BY <2>4, <2>6
  <2>11. \A j \in DOMAIN x.jobs : JobFits(x, log, began, x.jobs[j])
    BY <1>1, <2>7, <2>9, <2>10 DEF Fits, SameSession, JobFits
  <2>12. Fits(x, log, began)
    BY <1>1, <2>7, <2>9, <2>10, <2>11 DEF Fits, SameSession, Current
  <2>13. AtWork(m) => AtWork(x)
    BY <2>7, <2>9, <2>10 DEF AtWork, Current, SameSession
  <2> QED
    BY <2>7, <2>8, <2>12, <2>13
<1> QED
  BY <1>2, <1>3

(* The log of one room is a message longer.                                  *)
LEMMA LogGrowsInv ==
  ASSUME SessionInv, SessionRecord(m'), Fits(m', log, began), SameSession(m, m'),
         AtWork(m) => AtWork(m'),
         log' \in Logs,
         \A t \in Targets : /\ Len(log[t]) <= Len(log'[t])
                            /\ \A s \in 1..Len(log[t]) : log'[t][s] = log[t][s],
         UNCHANGED <<claimed, cached, began, sent>>
  PROVE  SessionInv'
<1>1. Fits(m', log', began)
  BY LogGrows DEF SessionInv, ServerTypes
<1>2. Awake(m', cached)
  BY AwakeKept DEF SessionInv, SameSession
<1> QED
  BY <1>1, <1>2 DEF SessionInv, ServerTypes

LEMMA SendAnsweredInv ==
  ASSUME SessionInv, NEW i \in DOMAIN m.jobs, SendAnswered(i)
  PROVE  SessionInv'
<1> DEFINE x == Answered(i)
           c == Cleared(x, {"pollTimer"})
<1>1. /\ m.jobs[i].kind \in {"send", "flush"}
      /\ log' = [log EXCEPT ![m.jobs[i].room] = Append(@, "chat")]
      /\ UNCHANGED <<claimed, cached, began, sent>>
  BY DEF SendAnswered, Pending
<1>2. SessionRecord(m) /\ Fits(m, log, began) /\ log \in Logs
  BY DEF SessionInv, ServerTypes
<1>3. /\ SessionRecord(x) /\ Fits(x, log, began) /\ SameSession(m, x)
      /\ x.sendQueue = m.sendQueue /\ x.handles = m.handles
      /\ AtWork(m) => AtWork(x)
  BY <1>1, AnsweredFits
<1>4. /\ log' \in Logs
      /\ \A t \in Targets : /\ Len(log[t]) <= Len(log'[t])
                             /\ \A s \in 1..Len(log[t]) : log'[t][s] = log[t][s]
  BY <1>1, <1>2, LogAppended
<1>5. SessionRecord(m') /\ Fits(m', log, began) /\ SameSession(m, m') /\ (AtWork(m) => AtWork(m'))
  <2>1. CASE m.jobs[i].kind = "send" /\ ~m.pollInFlight /\ m.handles.pollTimer # NoJob
    <3>1. m' = Started(c, "pollTimer", m.generation, NoTarget, 0, 0)
      BY <2>1 DEF SendAnswered, SchedulePoll
    <3> HIDE DEF x
    <3>2. /\ SessionRecord(c) /\ SameSession(x, c) /\ c.sendQueue = x.sendQueue
          /\ \A k \in HandleKinds : c.handles[k] = IF k \in {"pollTimer"} THEN NoJob ELSE x.handles[k]
          /\ DOMAIN c.jobs \subseteq DOMAIN x.jobs
          /\ \A j \in DOMAIN c.jobs : c.jobs[j] = x.jobs[j]
      BY <1>3, ClearedJobs
    <3> HIDE DEF c
    <3>3. c.handles["pollTimer"] = NoJob
      BY <3>2 DEF HandleKinds
    <3>4. Fits(c, log, began)
      BY <1>3, <3>2, <3>3, FewerJobsFit
    <3>5. m.token = TRUE /\ m.generation \in Nat
      BY <1>2, <2>1, RecordTypes DEF Fits
    <3>6. c.token = TRUE /\ c.generation = m.generation /\ SameSession(m, c)
      BY <1>3, <3>2, <3>5 DEF SameSession
    <3>7. m.generation <= c.generation /\ NoTarget \in Places
      BY <3>5, <3>6 DEF Places
    <3>8. SessionRecord(m') /\ Fits(m', log, began) /\ SameSession(c, m') /\ AtWork(m')
      BY <3>1, <3>2, <3>4, <3>5, <3>6, <3>7, TimerArmed
    <3> QED
      BY <3>6, <3>8 DEF SameSession
  <2>2. CASE ~(m.jobs[i].kind = "send" /\ ~m.pollInFlight /\ m.handles.pollTimer # NoJob)
    <3>1. m' = x
      BY <2>2 DEF SendAnswered
    <3> QED
      BY <1>3, <3>1
  <2> QED
    BY <2>1, <2>2
<1> QED
  BY <1>1, <1>4, <1>5, LogGrowsInv

LEMMA SendFailsInv ==
  ASSUME SessionInv, NEW i \in DOMAIN m.jobs, SendFails(i)
  PROVE  SessionInv'
<1>1. /\ m.jobs[i].kind \in {"send", "flush"} /\ m' = Answered(i)
      /\ UNCHANGED <<server, cached, began, sent>>
  BY DEF SendFails, Pending, NetworkError
<1>2. /\ SessionRecord(m') /\ Fits(m', log, began) /\ SameSession(m, m')
      /\ AtWork(m) => AtWork(m')
  BY <1>1, AnsweredFits
<1> QED
  BY <1>1, <1>2, SameSessionInv DEF server, SessionInv, ServerTypes

LEMMA PostInv ==
  ASSUME SessionInv, NEW t \in Targets, Post(t)
  PROVE  SessionInv'
<1>1. /\ log' = [log EXCEPT ![t] = Append(@, "chat")]
      /\ UNCHANGED <<m, claimed, cached, began, sent>>
  BY DEF Post
<1>2. SessionRecord(m') /\ Fits(m', log, began) /\ SameSession(m, m') /\ (AtWork(m) => AtWork(m'))
  BY <1>1 DEF SessionInv, SameSession
<1>3. /\ log' \in Logs
      /\ \A u \in Targets : /\ Len(log[u]) <= Len(log'[u])
                             /\ \A s \in 1..Len(log[u]) : log'[u][s] = log[u][s]
  BY <1>1, LogAppended DEF SessionInv, ServerTypes
<1> QED
  BY <1>1, <1>2, <1>3, LogGrowsInv

LEMMA AnnounceRestartInv ==
  ASSUME SessionInv, AnnounceRestart
  PROVE  SessionInv'
<1>1. /\ log' = [t \in Targets |-> Append(log[t], "restart")]
      /\ UNCHANGED <<m, claimed, cached, began, sent>>
  BY DEF AnnounceRestart
<1>2. SessionRecord(m') /\ Fits(m', log, began) /\ SameSession(m, m') /\ (AtWork(m) => AtWork(m'))
  BY <1>1 DEF SessionInv, SameSession
<1>3. ASSUME NEW u \in Targets
      PROVE  /\ log'[u] \in Seq({"chat", "restart"})
             /\ Len(log[u]) <= Len(log'[u])
             /\ \A s \in 1..Len(log[u]) : log'[u][s] = log[u][s]
  <2>1. log'[u] = Append(log[u], "restart") /\ log \in Logs
    BY <1>1 DEF SessionInv, ServerTypes
  <2>2. \A q : q = Append(log[u], "restart") =>
                 /\ q \in Seq({"chat", "restart"})
                 /\ Len(log[u]) <= Len(q)
                 /\ \A s \in 1..Len(log[u]) : q[s] = log[u][s]
    BY <2>1, Appended
  <2> QED
    BY <2>1, <2>2, Zenon
<1>4. log' \in Logs
  <2>1. log' = [u \in Targets |-> log'[u]]
    BY <1>1
  <2> QED
    BY <1>3, <2>1 DEF Logs
<1> QED
  BY <1>1, <1>2, <1>3, <1>4, LogGrowsInv

-----------------------------------------------------------------------------
(* The specification.                                                        *)

LEMMA SessionInitInv == SessionInit => SessionInv
<1> SUFFICES ASSUME SessionInit PROVE SessionInv
  OBVIOUS
<1> DEFINE jobs == [i \in {} |-> i]
           handles == [k \in HandleKinds |-> NoJob]
<1>1. m = [generation |-> 0, target |-> NoTarget, room |-> NoTarget,
           reuse |-> FALSE, token |-> FALSE, cursor |-> 0,
           handles |-> handles, pollInFlight |-> FALSE, sendQueue |-> <<>>,
           buffered |-> {}, status |-> "idle", jobs |-> <<>>]
  BY DEF SessionInit, HandleKinds
<1>2. handles \in [HandleKinds -> Nat] /\ handles["pollTimer"] = NoJob
  BY DEF NoJob, HandleKinds
<1>3. <<>> \in JobTables /\ DOMAIN <<>> = {}
  <2>1. DOMAIN <<>> = {} /\ <<>> = [i \in {} |-> <<>>[i]]
    OBVIOUS
  <2> QED
    BY <2>1, JobTable
<1>4. <<>> \in Seq(Places) /\ NoTarget \in Places /\ Len(<<>>) = 0
  BY DEF Places
<1>5. IsFiniteSet({})
  BY FS_EmptySet
<1> HIDE DEF handles
<1>6. /\ m \in SessionRecords
      /\ m.jobs = <<>> /\ m.handles = handles /\ ~m.token /\ m.sendQueue = <<>> /\ m.buffered = {}
  BY <1>1, <1>2, <1>3, <1>4 DEF SessionRecords
<1>7. SessionRecord(m)
  BY <1>3, <1>5, <1>6 DEF SessionRecord
<1>8. Fits(m, log, began)
  BY <1>2, <1>3, <1>4, <1>6 DEF Fits
<1>9. ServerTypes
  <2>1. log \in Logs
    BY DEF SessionInit, Logs
  <2> QED
    BY <2>1 DEF SessionInit, ServerTypes
<1> QED
  BY <1>6, <1>7, <1>8, <1>9 DEF SessionInit, SessionInv, Awake

LEMMA SessionStepInv == SessionInv /\ [SessionNext]_sessionVars => SessionInv'
<1> SUFFICES ASSUME SessionInv, [SessionNext]_sessionVars PROVE SessionInv'
  OBVIOUS
<1>1. ASSUME NEW t \in Targets, Sync(t) \/ Post(t) PROVE SessionInv'
  BY <1>1, SyncInv, PostInv
<1>2. CASE Stop \/ Type \/ AnnounceRestart
  BY <1>2, StopInv, TypeInv, AnnounceRestartInv
<1>3. ASSUME NEW i \in DOMAIN m.jobs, Callback(i) PROVE SessionInv'
  <2>1. CASE Connected(i) \/ ConnectFails(i) \/ StreamDelivers(i) \/ StreamFails(i)
    BY <2>1, ConnectedInv, ConnectFailsInv, StreamDeliversInv, StreamFailsInv
  <2>2. CASE PollTimerFires(i) \/ PollAnswered(i) \/ PollFails(i)
    BY <2>2, PollTimerFiresInv, PollAnsweredInv, PollFailsInv
  <2>3. CASE RestartTimerFires(i) \/ PingAnswered(i) \/ PingFails(i)
    BY <2>3, RestartTimerFiresInv, PingAnsweredInv, PingFailsInv
  <2>4. CASE SendAnswered(i) \/ SendFails(i)
    BY <2>4, SendAnsweredInv, SendFailsInv
  <2> QED
    BY <1>3, <2>1, <2>2, <2>3, <2>4 DEF Callback
<1>4. CASE UNCHANGED sessionVars
  BY <1>4 DEF sessionVars, server, SessionInv, ServerTypes
<1> QED
  BY <1>1, <1>2, <1>3, <1>4 DEF SessionNext

(* SessionInv holds of every reachable state of a chat session.              *)
THEOREM SessionInvariant == SessionSpec => []SessionInv
<1> QED
  BY SessionInitInv, SessionStepInv, PTL DEF SessionSpec

(* RoomsKeptApart: no message of another room is shown in the session's, and *)
(* a queued text is sent to the room it was typed in, for any rooms and any  *)
(* late answers, restarts and faults.                                        *)
THEOREM RoomsStayApart == SessionSpec => []RoomsKeptApart
<1>1. SessionInv => RoomsKeptApart
  BY DEF SessionInv, Fits, RoomsKeptApart
<1> QED
  BY <1>1, SessionInvariant, PTL

(* NoGap: whatever transport brought it, no message between /connect and the *)
(* session's cursor is missing from what is shown.                           *)
THEOREM NothingMissed == SessionSpec => []NoGap
<1>1. SessionInv => NoGap
  BY DEF SessionInv, Fits, ShownUpTo, NoGap
<1> QED
  BY <1>1, SessionInvariant, PTL

(* JobsFitState: /connect is a session's only callback while it runs, and a  *)
(* connected session whose token was not refused has one that goes on.       *)
THEOREM AlwaysAtWork == SessionSpec => []JobsFitState
<1>1. ASSUME SessionInv PROVE ConnectAlone
  <2>1. ASSUME NEW i \in DOMAIN m.jobs, NEW j \in DOMAIN m.jobs,
               Live(i), Live(j), m.jobs[i].kind = "connect"
        PROVE  i = j
    <3>1. Current(m, i) /\ Current(m, j)
      BY <2>1 DEF Live
    <3>2. m.jobs[j].kind = "connect"
      BY <1>1, <2>1, <3>1, CurrentJob
    <3> QED
      BY <1>1, <2>1, <3>1, <3>2 DEF SessionInv, Fits
  <2> QED
    BY <2>1 DEF ConnectAlone
<1>2. ASSUME SessionInv PROVE NeverDeaf
  BY <1>2 DEF SessionInv, Awake, AtWork, Working, NeverDeaf, Live
<1>3. SessionInv => JobsFitState
  BY <1>1, <1>2 DEF JobsFitState
<1> QED
  BY <1>3, SessionInvariant, PTL

-----------------------------------------------------------------------------
(* McpTools.                                                               *)

Tool == [name : Nat, server : Servers]
TurnRecord ==
  [pc : {"idle", "connecting", "asking", "calling", "lost"}, offered : SUBSET Tool,
   round : 0..Rounds - 1, calls : Seq(Nat), results : Seq(Nat), stopped : BOOLEAN]
Connect == [turn : Turns, server : Servers, version : Nat]
Config == [exists : BOOLEAN, valid : BOOLEAN, version : Nat]

McpTypes ==
  /\ mcpConfig \in [Servers -> Config]
  /\ aliases \in Seq(Servers)
  /\ connections \in [Servers -> Nat]
  /\ connecting \subseteq Connect
  /\ overtaken \subseteq Servers
  /\ turn \in [Turns -> TurnRecord]
  /\ asked \in 0..Asked /\ called \in 0..Calls /\ edits \in 0..Edits

(* Aliases are only ever appended, so a name leads where it led; and a       *)
(* server that has a client was given an alias.                              *)
NamesKept ==
  /\ \A t \in Turns : \A o \in turn[t].offered :
       o.name \in 1..Len(aliases) /\ aliases[o.name] = o.server
  /\ \A s \in Servers : Cached(s) => \E i \in 1..Len(aliases) : aliases[i] = s

\* The results so far are those of the first calls, and all of them at the end.
ResultsInOrder ==
  \A t \in Turns :
    /\ Len(turn[t].results) <= Len(turn[t].calls)
    /\ \A i \in 1..Len(turn[t].results) : turn[t].results[i] = turn[t].calls[i]
    /\ turn[t].pc # "calling" => Len(turn[t].results) = Len(turn[t].calls)

\* A connect that no edit overtook makes a client of the current settings.
ConnectsCurrent ==
  /\ \A c \in connecting : c.server # Builtin /\ c.server \notin overtaken =>
       Exists(c.server) /\ c.version = mcpConfig[c.server].version
  /\ \A s \in Servers : s # Builtin /\ Cached(s) /\ s \notin overtaken =>
       Exists(s) /\ connections[s] = mcpConfig[s].version
  /\ \A s \in Servers : Exists(s) => mcpConfig[s].version > 0

McpInv == McpTypes /\ NamesKept /\ ResultsInOrder /\ ConnectsCurrent

-----------------------------------------------------------------------------
\* An idle turn has nothing on offer and nothing under way.
LEMMA IdleTurnTyped == IdleTurn \in TurnRecord
BY McpAssumption DEF IdleTurn, TurnRecord

LEMMA McpInitInv == McpInit => McpInv
<1> SUFFICES ASSUME McpInit PROVE McpInv
  OBVIOUS
<1> USE McpAssumption DEF McpInit
<1>1. McpTypes
  <2>1. \A s \in Servers : mcpConfig[s] \in Config
    <3> SUFFICES ASSUME NEW s \in Servers PROVE mcpConfig[s] \in Config
      OBVIOUS
    <3>1. mcpConfig[s] = [exists |-> s = Builtin, valid |-> TRUE,
                          version |-> IF s = Builtin THEN 1 ELSE 0]
      OBVIOUS
    <3> QED
      BY <3>1 DEF Config
  <2>2. mcpConfig \in [Servers -> Config]
    BY <2>1
  <2>3. turn \in [Turns -> TurnRecord]
    BY IdleTurnTyped
  <2>4. aliases \in Seq(Servers) /\ connections \in [Servers -> Nat]
    BY DEF NoClient
  <2> QED
    BY <2>2, <2>3, <2>4 DEF McpTypes
<1>2. NamesKept /\ ResultsInOrder
  BY DEF NamesKept, ResultsInOrder, Cached, NoClient, IdleTurn
<1>3. ConnectsCurrent
  <2>1. \A s \in Servers : connections[s] = NoClient
    OBVIOUS
  <2>2. \A s \in Servers : Exists(s) => mcpConfig[s].version = 1
    BY DEF Exists
  <2> QED
    BY <2>1, <2>2 DEF ConnectsCurrent, Cached
<1> QED
  BY <1>1, <1>2, <1>3 DEF McpInv

\* One setting of a server changes.
LEMMA ConfigChanged ==
  ASSUME NEW c \in Config, NEW n \in Nat, NEW b \in BOOLEAN
  PROVE  /\ [c EXCEPT !.version = n] \in Config
         /\ [c EXCEPT !.valid = b] \in Config
         /\ [c EXCEPT !.exists = b] \in Config
BY DEF Config

\* The settings change.
LEMMA SettingsInv ==
  ASSUME McpInv,
         \/ \E s \in Servers : AddMcpServer(s) \/ UpdateMcpServer(s) \/ DeleteMcpServer(s)
         \/ SwitchBuiltin
  PROVE  McpInv'
<1> USE McpAssumption DEF McpInv
<1>1. UNCHANGED <<aliases, connecting, turn, asked, called>>
  BY DEF AddMcpServer, UpdateMcpServer, DeleteMcpServer, SwitchBuiltin
<1>2. /\ \A s \in Servers : connections'[s] \in {connections[s], NoClient}
      /\ connections' \in [Servers -> Nat]
      /\ edits' \in 0..Edits
      /\ overtaken \subseteq overtaken' /\ overtaken' \subseteq Servers
  <2>1. edits' \in 0..Edits
    <3>1. edits < Edits /\ edits' = edits + 1
      BY DEF AddMcpServer, UpdateMcpServer, DeleteMcpServer, SwitchBuiltin, Edit
    <3> QED
      BY <3>1 DEF McpTypes
  <2>2. CASE UNCHANGED <<connections, overtaken>>
    BY <2>1, <2>2 DEF McpTypes
  <2>3. ASSUME NEW s \in Servers, connections' = Dropped(s), Overtake(s)
        PROVE  /\ \A x \in Servers : connections'[x] \in {connections[x], NoClient}
               /\ connections' \in [Servers -> Nat]
               /\ overtaken \subseteq overtaken' /\ overtaken' \subseteq Servers
    BY <2>3 DEF McpTypes, Dropped, NoClient, Overtake
  <2> QED
    BY <2>1, <2>2, <2>3 DEF AddMcpServer, UpdateMcpServer, DeleteMcpServer, SwitchBuiltin
<1>3. mcpConfig' \in [Servers -> Config]
  <2>1. ASSUME NEW s \in Servers, AddMcpServer(s)
        PROVE  mcpConfig' \in [Servers -> Config]
    <3>1. PICK valid \in BOOLEAN :
            mcpConfig' = [mcpConfig EXCEPT ![s] = [exists |-> TRUE, version |-> 1, valid |-> valid]]
      BY <2>1 DEF AddMcpServer
    <3>2. [exists |-> TRUE, version |-> 1, valid |-> valid] \in Config
      BY DEF Config
    <3> QED
      BY <3>1, <3>2 DEF McpTypes
  <2>2. ASSUME NEW s \in Servers, UpdateMcpServer(s)
        PROVE  mcpConfig' \in [Servers -> Config]
    <3>1. PICK valid \in BOOLEAN :
            mcpConfig' = [mcpConfig EXCEPT ![s].version = @ + 1, ![s].valid = valid]
      BY <2>2 DEF UpdateMcpServer
    <3> DEFINE n == mcpConfig[s].version + 1
               next == [mcpConfig[s] EXCEPT !.version = n]
    <3>2. mcpConfig[s] \in Config /\ n \in Nat
      BY DEF McpTypes, Config
    <3>3. mcpConfig' = [mcpConfig EXCEPT ![s] = [next EXCEPT !.valid = valid]]
      BY <3>1
    <3> HIDE DEF n
    <3>4. next \in Config
      BY <3>2, ConfigChanged
    <3> HIDE DEF next
    <3>5. [next EXCEPT !.valid = valid] \in Config
      BY <3>4, ConfigChanged
    <3> QED
      BY <3>3, <3>5 DEF McpTypes
  <2>3. ASSUME NEW s \in Servers, DeleteMcpServer(s)
        PROVE  mcpConfig' \in [Servers -> Config]
    BY <2>3 DEF McpTypes, DeleteMcpServer, Config
  <2>4. CASE SwitchBuiltin
    <3> DEFINE b == ~mcpConfig[Builtin].exists
               n == mcpConfig[Builtin].version + 1
               next == [mcpConfig[Builtin] EXCEPT !.exists = b]
    <3>1. mcpConfig' = [mcpConfig EXCEPT ![Builtin] = [next EXCEPT !.version = n]]
      BY <2>4 DEF SwitchBuiltin
    <3>2. CASE Builtin \in Servers
      <4>1. mcpConfig[Builtin] \in Config /\ b \in BOOLEAN /\ n \in Nat
        BY <3>2 DEF McpTypes, Config
      <4> HIDE DEF b, n
      <4>2. next \in Config
        BY <4>1, ConfigChanged
      <4> HIDE DEF next
      <4>3. [next EXCEPT !.version = n] \in Config
        BY <4>1, <4>2, ConfigChanged
      <4> QED
        BY <3>1, <4>3 DEF McpTypes
    <3>3. CASE Builtin \notin Servers
      BY <3>1, <3>3 DEF McpTypes
    <3> QED
      BY <3>2, <3>3
  <2> QED
    BY <2>1, <2>2, <2>3, <2>4
<1>4. McpTypes'
  BY <1>1, <1>2, <1>3 DEF McpTypes
<1>5. NamesKept' /\ ResultsInOrder'
  BY <1>1, <1>2 DEF NamesKept, ResultsInOrder, Cached
<1>6. ConnectsCurrent'
  <2>1. ASSUME NEW s \in Servers, AddMcpServer(s)
        PROVE  ConnectsCurrent'
    <3>1. ~Exists(s) /\ mcpConfig[s].version = 0
      BY <2>1 DEF AddMcpServer, ConnectsCurrent
    <3>2. /\ \A x \in Servers \ {s} : mcpConfig'[x] = mcpConfig[x]
          /\ mcpConfig'[s].exists /\ mcpConfig'[s].version = 1
          /\ UNCHANGED <<connections, connecting, overtaken>>
      BY <2>1 DEF AddMcpServer, McpTypes
    <3>3. \A c \in connecting : c.server \in Servers
      BY DEF McpTypes, Connect
    <3>4. \A x \in Servers : Exists(x) => mcpConfig'[x] = mcpConfig[x]
      BY <3>1, <3>2
    <3> QED
      BY <3>1, <3>2, <3>3, <3>4 DEF ConnectsCurrent, Exists, Cached
  <2>2. ASSUME NEW s \in Servers, UpdateMcpServer(s) \/ DeleteMcpServer(s)
        PROVE  ConnectsCurrent'
    <3>1. /\ \A x \in Servers \ {s} : mcpConfig'[x] = mcpConfig[x]
          /\ mcpConfig'[s].exists => mcpConfig[s].exists
          /\ mcpConfig'[s].version \in {mcpConfig[s].version, mcpConfig[s].version + 1}
          /\ \A x \in Servers \ {s} : connections'[x] = connections[x]
          /\ connections'[s] = NoClient
          /\ \A c \in connecting : c.server = s => s \in overtaken'
      BY <2>2 DEF UpdateMcpServer, DeleteMcpServer, McpTypes, Config, Dropped, Overtake
    <3>2. mcpConfig[s].version \in Nat
      BY DEF McpTypes, Config
    <3>3. \A c \in connecting : c.server \in Servers
      BY DEF McpTypes, Connect
    <3>4. \A c \in connecting : c.server # Builtin /\ c.server \notin overtaken' =>
            Exists(c.server)' /\ c.version = mcpConfig'[c.server].version
      BY <1>2, <3>1, <3>3 DEF ConnectsCurrent, Exists
    <3>5. \A x \in Servers : x # Builtin /\ Cached(x)' /\ x \notin overtaken' =>
            Exists(x)' /\ connections'[x] = mcpConfig'[x].version
      BY <1>2, <3>1 DEF ConnectsCurrent, Exists, Cached
    <3>6. \A x \in Servers : Exists(x)' => mcpConfig'[x].version > 0
      BY <3>1, <3>2 DEF ConnectsCurrent, Exists
    <3> QED
      BY <1>1, <3>4, <3>5, <3>6 DEF ConnectsCurrent, Exists, Cached
  <2>3. CASE SwitchBuiltin
    <3>1. /\ \A x \in Servers \ {Builtin} : mcpConfig'[x] = mcpConfig[x]
          /\ Builtin \in Servers =>
               /\ mcpConfig[Builtin].version \in Nat
               /\ mcpConfig'[Builtin].version = mcpConfig[Builtin].version + 1
          /\ UNCHANGED <<connections, connecting, overtaken>>
      BY <2>3 DEF SwitchBuiltin, McpTypes, Config
    <3>2. \A c \in connecting : c.server \in Servers
      BY DEF McpTypes, Connect
    <3>3. \A x \in Servers : Exists(x)' => mcpConfig'[x].version > 0
      BY <3>1 DEF ConnectsCurrent, Exists
    <3> QED
      BY <3>1, <3>2, <3>3 DEF ConnectsCurrent, Exists, Cached
  <2> QED
    BY <2>1, <2>2, <2>3
<1> QED
  BY <1>4, <1>5, <1>6

\* A connect that succeeds gives its server an alias, unless it had one.
LEMMA AliasGiven ==
  ASSUME NEW s \in Servers, aliases \in Seq(Servers)
  PROVE  /\ WithAlias(s) \in Seq(Servers)
         /\ Len(aliases) <= Len(WithAlias(s))
         /\ \A i \in 1..Len(aliases) : WithAlias(s)[i] = aliases[i]
         /\ \E i \in 1..Len(WithAlias(s)) : WithAlias(s)[i] = s
<1>1. CASE Assigned(s)
  BY <1>1 DEF Assigned, WithAlias
<1>2. CASE ~Assigned(s)
  <2>1. WithAlias(s) = Append(aliases, s)
    BY <1>2 DEF WithAlias
  <2>2. Len(aliases) + 1 \in 1..Len(Append(aliases, s))
    OBVIOUS
  <2> QED
    BY <2>1, <2>2
<1> QED
  BY <1>1, <1>2

\* The tool of a server with an alias is named after where the alias is.
LEMMA ToolNamed ==
  ASSUME NEW list \in Seq(Servers), NEW s \in Servers,
         \E i \in 1..Len(list) : list[i] = s
  PROVE  /\ ToolOf(list, s) \in Tool
         /\ ToolOf(list, s).name \in 1..Len(list)
         /\ ToolOf(list, s).server = s
         /\ list[ToolOf(list, s).name] = s
<1>1. AliasOf(list, s) \in 1..Len(list) /\ list[AliasOf(list, s)] = s
  BY DEF AliasOf
<1> QED
  BY <1>1 DEF ToolOf, Tool

\* A connect ends, well or not.
LEMMA ConnectInv ==
  ASSUME McpInv, NEW c \in connecting, McpConnectOk(c) \/ McpConnectFailed(c)
  PROVE  McpInv'
<1> USE DEF McpInv
<1>1. c \in Connect /\ c.turn \in Turns /\ c.server \in Servers /\ c.version \in Nat
  BY DEF McpTypes, Connect
<1>2. CASE McpConnectFailed(c)
  <2>1. connecting' \subseteq connecting
        /\ UNCHANGED <<settingsVars, aliases, turn, asked, called>>
    BY <1>2 DEF McpConnectFailed
  <2>2. McpTypes' /\ NamesKept' /\ ResultsInOrder'
    BY <2>1 DEF settingsVars, McpTypes, NamesKept, ResultsInOrder, Cached
  <2>3. ConnectsCurrent'
    BY <2>1 DEF settingsVars, ConnectsCurrent, Cached, Exists
  <2> QED
    BY <2>2, <2>3
<1>3. CASE McpConnectOk(c)
  <2> DEFINE tool == ToolOf(aliases', c.server)
             t == c.turn
  <2>1. /\ connecting' \subseteq connecting
        /\ aliases' = WithAlias(c.server)
        /\ connections' = [connections EXCEPT ![c.server] = c.version]
        /\ turn' = [turn EXCEPT ![t].offered = @ \cup {tool}]
        /\ UNCHANGED <<mcpConfig, overtaken, asked, called, edits>>
    BY <1>3 DEF McpConnectOk
  <2>2. /\ aliases' \in Seq(Servers)
        /\ Len(aliases) <= Len(aliases')
        /\ \A i \in 1..Len(aliases) : aliases'[i] = aliases[i]
        /\ \E i \in 1..Len(aliases') : aliases'[i] = c.server
    BY <1>1, <2>1, AliasGiven DEF McpTypes
  <2>3. tool \in Tool /\ tool.name \in 1..Len(aliases') /\ aliases'[tool.name] = tool.server
    BY <1>1, <2>2, ToolNamed
  <2> HIDE DEF tool
  <2>4. /\ turn' \in [Turns -> TurnRecord]
        /\ \A x \in Turns : x # t => turn'[x] = turn[x]
        /\ turn'[t].offered = turn[t].offered \cup {tool}
        /\ turn'[t].calls = turn[t].calls /\ turn'[t].results = turn[t].results
        /\ turn'[t].pc = turn[t].pc
    BY <1>1, <2>1, <2>3 DEF McpTypes, TurnRecord
  <2>5. McpTypes'
    BY <1>1, <2>1, <2>2, <2>4 DEF McpTypes
  <2>6. Len(aliases) \in Nat /\ Len(aliases') \in Nat /\ 1..Len(aliases) \subseteq 1..Len(aliases')
    BY <2>2 DEF McpTypes
  <2>7. NamesKept'
    <3>1. ASSUME NEW x \in Turns, NEW o \in turn'[x].offered
          PROVE  o.name \in 1..Len(aliases') /\ aliases'[o.name] = o.server
      BY <2>2, <2>3, <2>4, <2>6 DEF NamesKept
    <3>2. ASSUME NEW s \in Servers, connections'[s] # NoClient
          PROVE  \E i \in 1..Len(aliases') : aliases'[i] = s
      <4>1. s = c.server \/ Cached(s)
        BY <2>1, <3>2 DEF Cached, McpTypes
      <4> QED
        BY <2>2, <2>6, <4>1 DEF NamesKept
    <3> QED
      BY <3>1, <3>2 DEF NamesKept, Cached
  <2>8. ResultsInOrder'
    <3>1. \A x \in Turns : /\ turn'[x].calls = turn[x].calls /\ turn'[x].pc = turn[x].pc
                          /\ turn'[x].results = turn[x].results
      BY <2>4
    <3> QED
      BY <3>1 DEF ResultsInOrder
  <2>9. ConnectsCurrent'
    BY <1>1, <2>1 DEF ConnectsCurrent, Cached, Exists, McpTypes
  <2> QED
    BY <2>5, <2>7, <2>8, <2>9
<1> QED
  BY <1>2, <1>3

\* What a turn's own record must be for the turns to stay sound.
TurnSound(record) ==
  /\ record \in TurnRecord
  /\ Len(record.results) <= Len(record.calls)
  /\ \A i \in 1..Len(record.results) : record.results[i] = record.calls[i]
  /\ record.pc # "calling" => Len(record.results) = Len(record.calls)

LEMMA IdleTurnSound == TurnSound(IdleTurn) /\ IdleTurn.offered = {}
<1>1. IdleTurn.results = <<>> /\ IdleTurn.calls = <<>> /\ IdleTurn.offered = {}
  BY DEF IdleTurn
<1> QED
  BY <1>1, IdleTurnTyped DEF TurnSound

\* A turn changes and offers no tool it did not offer before.
LEMMA TurnChanged ==
  ASSUME McpInv, NEW t \in Turns, NEW record, TurnSound(record),
         turn' = [turn EXCEPT ![t] = record],
         \A o \in record.offered : o.name \in 1..Len(aliases) /\ aliases[o.name] = o.server,
         UNCHANGED <<settingsVars, aliases>>,
         connecting' \subseteq Connect,
         \A c \in connecting' : c \notin connecting =>
           Exists(c.server) /\ c.version = mcpConfig[c.server].version,
         asked' \in 0..Asked, called' \in 0..Calls
  PROVE  McpInv'
<1> USE DEF McpInv
<1>1. /\ turn' \in [Turns -> TurnRecord]
      /\ turn'[t] = record
      /\ \A x \in Turns : x # t => turn'[x] = turn[x]
  BY DEF McpTypes, TurnSound
<1>2. McpTypes'
  BY <1>1 DEF McpTypes, settingsVars
<1>3. NamesKept'
  BY <1>1 DEF NamesKept, Cached, settingsVars
<1>4. ResultsInOrder'
  BY <1>1 DEF ResultsInOrder, TurnSound
<1>5. ConnectsCurrent'
  BY DEF ConnectsCurrent, settingsVars, Exists, Cached
<1> QED
  BY <1>2, <1>3, <1>4, <1>5

\* The current record of a turn.
LEMMA TurnIsSound ==
  ASSUME McpInv, NEW t \in Turns
  PROVE  /\ TurnSound(turn[t])
         /\ \A o \in turn[t].offered : o.name \in 1..Len(aliases) /\ aliases[o.name] = o.server
BY DEF McpInv, McpTypes, ResultsInOrder, NamesKept, TurnSound

\* A message is sent: cached clients offer their tools, the rest is connected to.
LEMMA GetToolsInv ==
  ASSUME McpInv, NEW t \in Turns, GetTools(t)
  PROVE  McpInv'
<1> DEFINE pc == IF ToConnect = Readable THEN "connecting" ELSE "lost"
           tools == {ToolOf(aliases, s) : s \in {x \in Servers : Reusable(x)}}
           record == [IdleTurn EXCEPT !.pc = pc, !.offered = tools]
<1>1. /\ turn' = [turn EXCEPT ![t] = record]
      /\ UNCHANGED <<settingsVars, aliases, called>>
      /\ asked < Asked /\ asked' = asked + 1
  BY DEF GetTools, settingsVars
<1>2. asked' \in 0..Asked /\ called' \in 0..Calls
  BY <1>1, McpAssumption DEF McpInv, McpTypes
<1>3. \A o \in tools : o \in Tool /\ o.name \in 1..Len(aliases) /\ aliases[o.name] = o.server
  <2> SUFFICES ASSUME NEW s \in Servers, Reusable(s)
               PROVE  /\ ToolOf(aliases, s) \in Tool
                      /\ ToolOf(aliases, s).name \in 1..Len(aliases)
                      /\ aliases[ToolOf(aliases, s).name] = ToolOf(aliases, s).server
    OBVIOUS
  <2>1. aliases \in Seq(Servers) /\ \E i \in 1..Len(aliases) : aliases[i] = s
    BY DEF McpInv, McpTypes, NamesKept, Reusable
  <2> QED
    BY <2>1, ToolNamed
<1>4. /\ connecting' \subseteq Connect
      /\ \A c \in connecting' : c \notin connecting =>
           Exists(c.server) /\ c.version = mcpConfig[c.server].version
  <2>1. connecting' = connecting \cup
          {[turn |-> t, server |-> s, version |-> mcpConfig[s].version] : s \in Readable}
    BY DEF GetTools
  <2>2. \A s \in Readable : s \in Servers /\ Exists(s)
    BY DEF Readable, ToConnect
  <2>3. \A s \in Servers : mcpConfig[s].version \in Nat
    BY DEF McpInv, McpTypes, Config
  <2>4. \A s \in Readable :
          [turn |-> t, server |-> s, version |-> mcpConfig[s].version] \in Connect
    BY <2>2, <2>3 DEF Connect
  <2> QED
    BY <2>1, <2>2, <2>4 DEF McpInv, McpTypes
<1>5. pc \in {"connecting", "lost"}
  OBVIOUS
<1> HIDE DEF pc, tools
<1>6. TurnSound(record)
  <2>1. record \in TurnRecord
    BY <1>3, <1>5, IdleTurnTyped DEF TurnRecord
  <2>2. record.results = IdleTurn.results /\ record.calls = IdleTurn.calls /\ record.pc = pc
    BY IdleTurnTyped DEF TurnRecord
  <2> HIDE DEF record
  <2> QED
    BY <1>5, <2>1, <2>2, IdleTurnSound DEF TurnSound, IdleTurn
<1>7. record.offered = tools
  BY IdleTurnTyped DEF TurnRecord
<1> HIDE DEF record
<1> QED
  BY <1>1, <1>2, <1>3, <1>4, <1>6, <1>7, TurnChanged

\* The steps of a turn that end it, or change neither its calls nor results.
LEMMA TurnStepInv ==
  ASSUME McpInv, NEW t \in Turns,
         ToolsReady(t) \/ EndTurn(t) \/ ToolsUnsupported(t) \/ StopTurn(t) \/ EndRound(t)
  PROVE  McpInv'
<1>1. /\ UNCHANGED <<settingsVars, aliases, connecting, asked, called>>
      /\ asked \in 0..Asked /\ called \in 0..Calls /\ connecting \subseteq Connect
      /\ turn \in [Turns -> TurnRecord] /\ turn[t] \in TurnRecord
  BY DEF ToolsReady, EndTurn, ToolsUnsupported, StopTurn, EndRound, McpInv, McpTypes
<1>2. TurnSound(turn[t])
  BY TurnIsSound
<1>3. PICK record : /\ turn' = [turn EXCEPT ![t] = record]
                    /\ TurnSound(record) /\ record.offered \subseteq turn[t].offered
  <2>1. CASE turn' = [turn EXCEPT ![t] = IdleTurn]
    BY <2>1, IdleTurnSound
  <2>2. CASE ToolsReady(t)
    <3> DEFINE record == [turn[t] EXCEPT !.pc = "asking"]
    <3>1. record \in TurnRecord /\ record.pc = "asking" /\ record.results = turn[t].results
          /\ record.calls = turn[t].calls /\ record.offered = turn[t].offered
      BY <1>1 DEF TurnRecord
    <3>2. turn' = [turn EXCEPT ![t] = record] /\ turn[t].pc = "connecting"
      BY <2>2 DEF ToolsReady
    <3> HIDE DEF record
    <3> QED
      BY <1>2, <3>1, <3>2 DEF TurnSound
  <2>3. CASE ToolsUnsupported(t)
    <3> DEFINE record == [turn[t] EXCEPT !.offered = {}]
    <3>1. record \in TurnRecord /\ record.pc = turn[t].pc /\ record.results = turn[t].results
          /\ record.calls = turn[t].calls /\ record.offered = {}
      BY <1>1 DEF TurnRecord
    <3>2. turn' = [turn EXCEPT ![t] = record]
      BY <2>3 DEF ToolsUnsupported
    <3> HIDE DEF record
    <3> QED
      BY <1>2, <3>1, <3>2 DEF TurnSound
  <2>4. CASE StopTurn(t)
    <3> DEFINE record == [turn[t] EXCEPT !.stopped = TRUE]
    <3>1. record \in TurnRecord /\ record.pc = turn[t].pc /\ record.results = turn[t].results
          /\ record.calls = turn[t].calls /\ record.offered = turn[t].offered
      BY <1>1 DEF TurnRecord
    <3>2. turn' = [turn EXCEPT ![t] = record]
      BY <2>4 DEF StopTurn
    <3> HIDE DEF record
    <3> QED
      BY <1>2, <3>1, <3>2 DEF TurnSound
  <2>5. CASE EndRound(t) /\ turn[t].round + 1 < Rounds
    <3> DEFINE n == turn[t].round + 1
               record == [turn[t] EXCEPT !.pc = "asking", !.round = n]
    <3>1. n \in 0..Rounds - 1
      BY <1>1, <2>5, McpAssumption DEF TurnRecord
    <3>2. turn' = [turn EXCEPT ![t] = record]
          /\ Len(turn[t].results) = Len(turn[t].calls)
      <4>1. turn' = [turn EXCEPT ![t].pc = "asking", ![t].round = @ + 1]
        BY <2>5 DEF EndRound
      <4>2. turn' = [turn EXCEPT ![t] = record]
        BY <1>1, <4>1
      <4> QED
        BY <2>5, <4>2 DEF EndRound
    <3> HIDE DEF n
    <3>3. record \in TurnRecord /\ record.pc = "asking" /\ record.results = turn[t].results
          /\ record.calls = turn[t].calls /\ record.offered = turn[t].offered
      BY <1>1, <3>1 DEF TurnRecord
    <3> HIDE DEF record
    <3> QED
      BY <1>2, <3>2, <3>3 DEF TurnSound
  <2>6. CASE EndRound(t) /\ ~(turn[t].round + 1 < Rounds)
    BY <2>1, <2>6 DEF EndRound
  <2> QED
    BY <2>1, <2>2, <2>3, <2>4, <2>5, <2>6 DEF EndTurn
<1> QED
  BY <1>1, <1>3, TurnIsSound, TurnChanged

\* The model calls tools; none has a result yet.
LEMMA AnswerCallsInv ==
  ASSUME McpInv, NEW t \in Turns, AnswerCalls(t)
  PROVE  McpInv'
<1>1. PICK n \in 1..Calls - called : \E calls \in [1..n -> Names(t)] :
        /\ turn' = [turn EXCEPT ![t].pc = "calling", ![t].calls = calls, ![t].results = <<>>]
        /\ called' = called + n
  BY DEF AnswerCalls
<1>2. PICK calls \in [1..n -> Names(t)] :
        /\ turn' = [turn EXCEPT ![t].pc = "calling", ![t].calls = calls, ![t].results = <<>>]
        /\ called' = called + n
  BY <1>1
<1>3. turn[t] \in TurnRecord /\ called \in 0..Calls /\ asked \in 0..Asked
      /\ connecting \subseteq Connect
  BY DEF McpInv, McpTypes
<1>4. n \in Nat /\ called' \in 0..Calls
  BY <1>2, <1>3, McpAssumption
<1>5. Names(t) \subseteq Nat
  BY <1>3 DEF Names, MadeUp, TurnRecord, Tool
<1>6. calls \in Seq(Nat)
  BY <1>4, <1>5
<1> DEFINE none == <<>>
           record == [turn[t] EXCEPT !.pc = "calling", !.calls = calls, !.results = none]
<1>7. turn' = [turn EXCEPT ![t] = record] /\ none \in Seq(Nat) /\ Len(none) = 0
  <2>1. turn' = [turn EXCEPT ![t].pc = "calling", ![t].calls = calls, ![t].results = none]
    BY <1>2
  <2>2. none \in Seq(Nat) /\ Len(none) = 0
    OBVIOUS
  <2> HIDE DEF none
  <2>3. turn \in [Turns -> TurnRecord]
    BY DEF McpInv, McpTypes
  <2>4. turn' = [turn EXCEPT ![t] = record]
    BY <2>1, <2>3
  <2> QED
    BY <2>2, <2>4
<1> HIDE DEF none
<1>8. record \in TurnRecord /\ record.pc = "calling" /\ record.results = none
      /\ record.calls = calls /\ record.offered = turn[t].offered
  BY <1>3, <1>6, <1>7 DEF TurnRecord
<1> HIDE DEF record
<1>9. Len(calls) \in Nat
  BY <1>6
<1>10. TurnSound(record)
  BY <1>7, <1>8, <1>9 DEF TurnSound
<1>11. UNCHANGED <<settingsVars, aliases, connecting, asked>>
  BY DEF AnswerCalls
<1> QED
  BY <1>3, <1>4, <1>7, <1>8, <1>10, <1>11, TurnIsSound, TurnChanged

\* The next call gets its result, or ends the turn.
LEMMA CallInv ==
  ASSUME McpInv, NEW t \in Turns, Call(t)
  PROVE  McpInv'
<1>1. /\ UNCHANGED <<settingsVars, aliases, connecting, asked, called>>
      /\ asked \in 0..Asked /\ called \in 0..Calls /\ connecting \subseteq Connect
      /\ turn[t] \in TurnRecord
  BY DEF Call, McpInv, McpTypes
<1>2. CASE turn' = [turn EXCEPT ![t] = IdleTurn]
  BY <1>1, <1>2, IdleTurnSound, TurnChanged
<1>3. CASE turn' = [turn EXCEPT ![t].results = WithResult(t)]
  <2> DEFINE calls == turn[t].calls
             results == turn[t].results
             next == WithResult(t)
             record == [turn[t] EXCEPT !.results = next]
  <2>1. calls \in Seq(Nat) /\ results \in Seq(Nat) /\ Len(results) < Len(calls)
        /\ \A i \in 1..Len(results) : results[i] = calls[i]
    BY <1>1, TurnIsSound DEF Call, TurnRecord, TurnSound
  <2>2. next = Append(results, calls[Len(results) + 1])
    BY DEF WithResult, NextCall
  <2>3. turn' = [turn EXCEPT ![t] = record] /\ turn[t].pc = "calling"
    BY <1>3 DEF Call
  <2> HIDE DEF next
  <2>4. Len(results) \in Nat /\ Len(calls) \in Nat
    BY <2>1
  <2>5. calls[Len(results) + 1] \in Nat
    <3>1. Len(results) + 1 \in 1..Len(calls)
      BY <2>1, <2>4
    <3> QED
      BY <2>1, <3>1, ElementOfSeq
  <2>6. /\ next \in Seq(Nat) /\ Len(next) = Len(results) + 1
        /\ \A i \in 1..Len(results) : next[i] = results[i]
        /\ next[Len(results) + 1] = calls[Len(results) + 1]
    BY <2>1, <2>2, <2>5, AppendProperties
  <2>7. record \in TurnRecord /\ record.pc = "calling" /\ record.results = next
        /\ record.calls = calls /\ record.offered = turn[t].offered
    BY <1>1, <2>3, <2>6 DEF TurnRecord
  <2> HIDE DEF record, calls, results
  <2>8. \A i \in 1..Len(next) : next[i] = calls[i]
    <3> SUFFICES ASSUME NEW i \in 1..Len(next) PROVE next[i] = calls[i]
      OBVIOUS
    <3>1. i \in 1..Len(results) \/ i = Len(results) + 1
      BY <2>4, <2>6
    <3> QED
      BY <2>1, <2>6, <3>1
  <2>9. Len(next) <= Len(calls)
    BY <2>1, <2>4, <2>6
  <2>10. TurnSound(record)
    BY <2>7, <2>8, <2>9 DEF TurnSound
  <2> QED
    BY <1>1, <2>3, <2>7, <2>10, TurnIsSound, TurnChanged
<1> QED
  BY <1>2, <1>3 DEF Call

LEMMA McpStepInv == McpInv /\ [McpNext]_mcpVars => McpInv'
<1> SUFFICES ASSUME McpInv, [McpNext]_mcpVars
             PROVE  McpInv'
  OBVIOUS
<1>1. CASE UNCHANGED mcpVars
  <2>1. McpTypes' /\ NamesKept' /\ ResultsInOrder'
    BY <1>1 DEF mcpVars, McpInv, McpTypes, NamesKept, ResultsInOrder, Cached
  <2>2. ConnectsCurrent'
    BY <1>1 DEF mcpVars, McpInv, ConnectsCurrent, Cached, Exists
  <2> QED
    BY <2>1, <2>2 DEF McpInv
<1>2. CASE McpNext
  BY <1>2, SettingsInv, ConnectInv, GetToolsInv, TurnStepInv, AnswerCallsInv, CallInv
     DEF McpNext, TurnNext
<1> QED
  BY <1>1, <1>2

\* The invariant the theorems below are read off.
LEMMA McpInvariant == McpSpec => []McpInv
BY McpInitInv, McpStepInv, PTL DEF McpSpec

-----------------------------------------------------------------------------
(* The variables of the tool loop keep their types, and no turn is in more   *)
(* than MAX_TOOL_CALL_ROUNDS rounds.                                         *)
THEOREM McpToolsTypes == McpSpec => []McpTypeOK
<1>1. McpInv => McpTypeOK
  BY DEF McpInv, McpTypes, Config, Connect, TurnRecord, McpTypeOK
<1> QED
  BY <1>1, McpInvariant, PTL

(* A tool runs at the server that offered it, each call gets its result in   *)
(* order, and cached clients are of the current settings (client.ts          *)
(* getAllAvailableTools, connectAndCache and callTool, the adapters' loop),  *)
(* however settings, connects and turns interleave.                          *)
THEOREM CallsAreSound == McpSpec => []ToolCallsSound
<1>1. ASSUME McpInv
      PROVE  ToolCallsSound
  <2>1. RunsWhereOffered
    BY <1>1 DEF McpInv, McpTypes, NamesKept, RunsWhereOffered, Target
  <2>2. CallsAnswered
    <3> SUFFICES ASSUME NEW t \in Turns, turn[t].pc = "asking"
                 PROVE  /\ Len(turn[t].results) = Len(turn[t].calls)
                        /\ \A i \in DOMAIN turn[t].calls : turn[t].results[i] = turn[t].calls[i]
      BY DEF CallsAnswered
    <3>1. TurnSound(turn[t])
      BY <1>1, TurnIsSound
    <3>2. DOMAIN turn[t].calls = 1..Len(turn[t].calls)
      BY <3>1 DEF TurnSound, TurnRecord
    <3> QED
      BY <3>1, <3>2 DEF TurnSound
  <2>3. ClientsCurrent
    BY <1>1 DEF McpInv, ConnectsCurrent, ClientsCurrent
  <2> QED
    BY <2>1, <2>2, <2>3 DEF ToolCallsSound
<1> QED
  BY <1>1, McpInvariant, PTL

-------------------------------------------------------------------------------
(* McpServer.                                                              *)

Request ==
  [pc : {"none", "arrived", "verified", "opening", "ran"}, token : Tokens \cup {Internal},
   revoked : BOOLEAN, scopes : SUBSET Scopes, session : Nat, tool : Tools \cup {"list_tabs"}]

TokenTypes == granted \in [Tokens -> SUBSET Scopes] /\ onFile \subseteq Tokens

OwnServerTypes ==
  /\ httpServer \in listening \cup {0}
  /\ bound \in Nat
  /\ opened \in Seq(SUBSET Scopes)
  /\ sessions \subseteq 1..Len(opened)
  /\ switched \in 0..Switches /\ requested \in 0..Requests

(* A request's token was signed for good; one that was revoked when the      *)
(* request arrived is on file no more and never will be again; and a request *)
(* that was let in carries its own token's scopes.                           *)
FlightSound(f) ==
  /\ flight[f].pc # "none" => flight[f].token \in Signed
  /\ flight[f].pc # "none" /\ flight[f].revoked => ~Valid(flight[f].token)
  /\ flight[f].pc \in {"verified", "opening", "ran"} =>
       /\ ~flight[f].revoked
       /\ flight[f].token # Internal => flight[f].scopes = granted[flight[f].token]
  /\ flight[f].pc = "ran" => ScopeOf[flight[f].tool] \in flight[f].scopes

FlightsSound ==
  /\ flight \in [Flights -> Request]
  /\ \A f \in Flights : FlightSound(f)

McpServerInv == TokenTypes /\ OwnServerTypes /\ FlightsSound

-----------------------------------------------------------------------------
\* A free place is a request that asks for nothing.
LEMMA NoFlightTyped == NoFlight \in Request
BY DEF NoFlight, Request, NoMcpSession

\* What was signed stays signed, with its scopes, and what was revoked stays so.
LEMMA TokensOnlyGrow ==
  ASSUME McpServerInv,
         (\E t \in Tokens : \E scopes \in SUBSET {ScopeOf[tool] : tool \in Tools} :
            CreateToken(t, scopes))
         \/ (\E t \in Tokens : RevokeToken(t))
  PROVE  McpServerInv'
<1> USE DEF McpServerInv
<1>1. UNCHANGED <<serverVars, opened, flight, countVars>>
  BY DEF CreateToken, RevokeToken
<1>2. OwnServerTypes'
  BY <1>1 DEF OwnServerTypes, serverVars, countVars
<1>3. {ScopeOf[tool] : tool \in Tools} \subseteq Scopes
  BY McpServerAssumption DEF Scopes
<1>4. TokenTypes'
  BY <1>3 DEF TokenTypes, CreateToken, RevokeToken
<1>5. ASSUME NEW t \in Tokens, granted[t] # {}
      PROVE  granted'[t] = granted[t] /\ (t \in onFile' => t \in onFile)
  BY <1>5 DEF TokenTypes, CreateToken, RevokeToken
<1>6. ASSUME NEW f \in Flights
      PROVE  FlightSound(f)'
  <2>1. flight'[f] = flight[f] /\ FlightSound(f) /\ flight[f] \in Request
    BY <1>1 DEF FlightsSound
  <2>2. flight[f].token \in Signed => flight[f].token \in Signed'
    BY <1>5 DEF Signed
  <2>3. flight[f].token \in Signed /\ ~Valid(flight[f].token)
          => flight[f].token \notin {Internal} \cup onFile'
    BY <1>5 DEF Signed, Valid
  <2>4. flight[f].token \in Signed /\ flight[f].token # Internal
          => granted'[flight[f].token] = granted[flight[f].token]
    BY <1>5 DEF Signed
  <2> QED
    BY <2>1, <2>2, <2>3, <2>4 DEF FlightSound, Valid
<1> QED
  BY <1>1, <1>2, <1>4, <1>6 DEF FlightsSound

\* The switch, the listens and the sessions' ends touch no request.
LEMMA ServerStepInv ==
  ASSUME McpServerInv,
         SetEnabled \/ Bound \/ ShowStatus \/ (\E s \in sessions : CloseSession(s))
         \/ UNCHANGED mcpServerVars
  PROVE  McpServerInv'
<1> USE DEF McpServerInv
<1>1. UNCHANGED <<tokenVars, opened, flight, requested>>
  BY DEF SetEnabled, Bound, ShowStatus, CloseSession, mcpServerVars, countVars
<1>2. TokenTypes' /\ FlightsSound'
  BY <1>1 DEF TokenTypes, FlightsSound, FlightSound, tokenVars, Signed, Valid
<1>3. CASE SetEnabled
  <2>1. switched' \in 0..Switches /\ requested' = requested /\ bound' = bound
        /\ opened' = opened
    BY <1>3, McpServerAssumption DEF SetEnabled, OwnServerTypes
  <2>2. httpServer' \in listening' \cup {0} /\ sessions' \subseteq sessions
    BY <1>3 DEF SetEnabled, Start, StopServer, OwnServerTypes
  <2> QED
    BY <1>2, <2>1, <2>2 DEF OwnServerTypes
<1>4. CASE Bound
  BY <1>1, <1>2, <1>4 DEF Bound, OwnServerTypes, countVars
<1>5. CASE ShowStatus \/ (\E s \in sessions : CloseSession(s)) \/ UNCHANGED mcpServerVars
  BY <1>1, <1>2, <1>5
     DEF ShowStatus, CloseSession, OwnServerTypes, countVars, mcpServerVars, serverVars
<1> QED
  BY <1>3, <1>4, <1>5

\* A request whose place gets a sound record leaves the rest as it is.
LEMMA FlightChanged ==
  ASSUME McpServerInv, NEW f \in Flights, NEW record \in Request,
         flight' = [flight EXCEPT ![f] = record],
         UNCHANGED tokenVars,
         FlightSound(f)'
  PROVE  TokenTypes' /\ FlightsSound'
<1>1. TokenTypes'
  BY DEF McpServerInv, TokenTypes, tokenVars
<1>2. flight' \in [Flights -> Request]
  BY DEF McpServerInv, FlightsSound
<1>3. ASSUME NEW g \in Flights, g # f
      PROVE  FlightSound(g)'
  <2>1. flight'[g] = flight[g] /\ FlightSound(g)
    BY <1>3 DEF McpServerInv, FlightsSound
  <2> QED
    BY <2>1 DEF FlightSound, Signed, Valid, tokenVars
<1> QED
  BY <1>1, <1>2, <1>3 DEF FlightsSound

\* A request arrives with a signed token, revoked or not.
LEMMA ArriveInv ==
  ASSUME McpServerInv, NEW f \in Flights, NEW token \in Tokens \cup {Internal},
         NEW session \in 0..Len(opened), NEW tool \in Tools, Arrive(f, token, session, tool)
  PROVE  McpServerInv'
<1> DEFINE gone == ~Valid(token)
           record == [NoFlight EXCEPT !.pc = "arrived", !.token = token,
                        !.revoked = gone, !.session = session, !.tool = tool]
<1>1. gone \in BOOLEAN
  OBVIOUS
<1>2. gone => ~Valid(token)
  OBVIOUS
<1>3. flight' = [flight EXCEPT ![f] = record] /\ UNCHANGED tokenVars
  BY DEF Arrive
<1> HIDE DEF gone
<1>4. opened \in Seq(SUBSET Scopes) /\ session \in Nat
  BY DEF McpServerInv, OwnServerTypes
<1>5. record \in Request
  BY <1>1, <1>4, NoFlightTyped DEF Request
<1>6. record.pc = "arrived" /\ record.token = token /\ record.revoked = gone
  BY NoFlightTyped DEF Request
<1> HIDE DEF record
<1>7. flight'[f] = record
  BY <1>3 DEF McpServerInv, FlightsSound
<1>8. FlightSound(f)'
  <2>1. token \in Signed /\ Signed' = Signed /\ (gone => ~Valid(token)')
    BY <1>3, <1>2 DEF Arrive, Signed, Valid, tokenVars
  <2>2. /\ flight'[f].pc = "arrived" /\ flight'[f].token = token
        /\ flight'[f].revoked = gone
    BY <1>6, <1>7
  <2> QED
    BY <2>1, <2>2 DEF FlightSound, Valid
<1>9. OwnServerTypes'
  BY McpServerAssumption DEF McpServerInv, OwnServerTypes, Arrive, serverVars
<1> QED
  BY <1>3, <1>5, <1>8, <1>9, FlightChanged DEF McpServerInv

\* A token is looked up, and a revoked one is turned away.
LEMMA VerifyInv ==
  ASSUME McpServerInv, NEW f \in Flights, Verify(f)
  PROVE  McpServerInv'
<1> DEFINE let == [flight[f] EXCEPT !.pc = "verified", !.scopes = ScopesOf(flight[f].token)]
<1>1. flight[f] \in Request /\ FlightSound(f) /\ TokenTypes
  BY DEF McpServerInv, FlightsSound
<1>2. OwnServerTypes' /\ UNCHANGED tokenVars
  BY DEF McpServerInv, OwnServerTypes, Verify, Flight, serverVars, countVars
<1>3. CASE Valid(flight[f].token) /\ flight' = [flight EXCEPT ![f] = let]
  <2>1. ScopesOf(flight[f].token) \in SUBSET Scopes
    BY <1>1 DEF ScopesOf, TokenTypes, Request
  <2>2. let \in Request
    BY <1>1, <2>1 DEF Request
  <2>3. flight'[f] = let /\ let.pc = "verified" /\ let.token = flight[f].token
        /\ let.revoked = flight[f].revoked /\ let.scopes = ScopesOf(flight[f].token)
    BY <1>1, <1>3 DEF Request, McpServerInv, FlightsSound
  <2> HIDE DEF let
  <2>4. flight[f].token \in Signed /\ ~flight[f].revoked
    BY <1>1, <1>3 DEF FlightSound, Verify
  <2>5. FlightSound(f)'
    BY <1>2, <2>3, <2>4 DEF FlightSound, ScopesOf, Signed, Valid, tokenVars
  <2> QED
    BY <1>2, <1>3, <2>2, <2>5, FlightChanged DEF McpServerInv
<1>4. CASE flight' = [flight EXCEPT ![f] = NoFlight]
  <2>1. flight'[f].pc = "none"
    BY <1>4 DEF McpServerInv, FlightsSound, NoFlight
  <2>2. FlightSound(f)'
    BY <2>1 DEF FlightSound
  <2> QED
    BY <1>2, <1>4, <2>2, FlightChanged, NoFlightTyped DEF McpServerInv
<1> QED
  BY <1>3, <1>4 DEF Verify, Flight

\* A verified request runs its tool, goes on to open a session, or ends.
LEMMA ServeInv ==
  ASSUME McpServerInv, NEW f \in Flights, Serve(f)
  PROVE  McpServerInv'
<1>1. flight[f] \in Request /\ FlightSound(f) /\ flight[f].pc = "verified"
  BY DEF McpServerInv, FlightsSound, Serve
<1>2. OwnServerTypes' /\ UNCHANGED tokenVars
  BY DEF McpServerInv, OwnServerTypes, Serve, Flight, serverVars, countVars
<1>3. ASSUME NEW pc \in {"opening", "ran"}, pc = "ran" => Entitled(f),
             flight' = [flight EXCEPT ![f] = [flight[f] EXCEPT !.pc = pc]]
      PROVE  McpServerInv'
  <2> DEFINE next == [flight[f] EXCEPT !.pc = pc]
  <2>1. next \in Request
    BY <1>1 DEF Request
  <2>2. /\ flight'[f] = next /\ next.pc = pc /\ next.token = flight[f].token
        /\ next.revoked = flight[f].revoked /\ next.scopes = flight[f].scopes
        /\ next.tool = flight[f].tool
    BY <1>1, <1>3 DEF Request, McpServerInv, FlightsSound
  <2>3. flight' = [flight EXCEPT ![f] = next]
    BY <1>3
  <2> HIDE DEF next
  <2>4. FlightSound(f)'
    BY <1>1, <1>2, <1>3, <2>2 DEF FlightSound, Entitled, Signed, Valid, tokenVars
  <2> QED
    BY <1>2, <2>1, <2>3, <2>4, FlightChanged DEF McpServerInv
<1>4. CASE flight' = [flight EXCEPT ![f] = NoFlight]
  <2>1. flight'[f].pc = "none"
    BY <1>4 DEF McpServerInv, FlightsSound, NoFlight
  <2>2. FlightSound(f)'
    BY <2>1 DEF FlightSound
  <2> QED
    BY <1>2, <1>4, <2>2, FlightChanged, NoFlightTyped DEF McpServerInv
<1> QED
  BY <1>3, <1>4 DEF Serve, Flight

\* A request that ends frees its place, whether or not it opened a session.
LEMMA RequestEndsInv ==
  ASSUME McpServerInv, NEW f \in Flights, OpenSession(f) \/ Answer(f)
  PROVE  McpServerInv'
<1>1. /\ flight' = [flight EXCEPT ![f] = NoFlight]
      /\ UNCHANGED tokenVars
  BY DEF OpenSession, Answer, Flight
<1>2. flight'[f].pc = "none"
  BY <1>1 DEF McpServerInv, FlightsSound, NoFlight
<1>3. FlightSound(f)'
  BY <1>2 DEF FlightSound
<1>4. OwnServerTypes'
  <2>1. CASE OpenSession(f)
    <3>1. flight[f].scopes \in SUBSET Scopes /\ opened \in Seq(SUBSET Scopes)
      BY DEF McpServerInv, FlightsSound, Request, OwnServerTypes
    <3>2. opened' \in Seq(SUBSET Scopes) /\ Len(opened') = Len(opened) + 1
      BY <2>1, <3>1 DEF OpenSession
    <3>3. ASSUME NEW s \in sessions'
          PROVE  s \in 1..Len(opened')
      <4>1. s \in sessions \/ s = Len(opened')
        BY <2>1 DEF OpenSession
      <4>2. s \in sessions => s \in 1..Len(opened)
        BY DEF McpServerInv, OwnServerTypes
      <4>3. Len(opened) \in Nat
        BY <3>1
      <4> HIDE DEF McpServerInv
      <4> QED
        BY <3>2, <4>1, <4>2, <4>3
    <3> QED
      BY <2>1, <3>2, <3>3 DEF McpServerInv, OwnServerTypes, OpenSession, countVars
  <2>2. CASE Answer(f)
    BY <2>2 DEF McpServerInv, OwnServerTypes, Answer, Flight, serverVars, countVars
  <2> QED
    BY <2>1, <2>2
<1> QED
  BY <1>1, <1>3, <1>4, FlightChanged, NoFlightTyped DEF McpServerInv

\* At first no request is there and nobody has a token.
LEMMA McpServerInitInv == McpServerInit => McpServerInv
<1> SUFFICES ASSUME McpServerInit PROVE McpServerInv
  OBVIOUS
<1> USE DEF McpServerInit
<1>1. TokenTypes
  BY DEF TokenTypes
<1>2. OwnServerTypes
  BY McpServerAssumption DEF OwnServerTypes
<1>3. \A f \in Flights : flight[f].pc = "none"
  BY DEF NoFlight
<1>4. FlightsSound
  BY <1>3, NoFlightTyped DEF FlightsSound, FlightSound
<1> QED
  BY <1>1, <1>2, <1>4 DEF McpServerInv

LEMMA McpServerStepInv == McpServerInv /\ [McpServerNext]_mcpServerVars => McpServerInv'
<1> SUFFICES ASSUME McpServerInv, [McpServerNext]_mcpServerVars
             PROVE  McpServerInv'
  OBVIOUS
<1>1. CASE \E f \in Flights : FlightNext(f)
  BY <1>1, ArriveInv, VerifyInv, ServeInv, RequestEndsInv DEF FlightNext
<1> QED
  BY <1>1, TokensOnlyGrow, ServerStepInv DEF McpServerNext

\* The invariant the theorems below are read off.
LEMMA McpServerInvariant == McpServerSpec => []McpServerInv
BY McpServerInitInv, McpServerStepInv, PTL DEF McpServerSpec

-----------------------------------------------------------------------------
(* The server's variables keep their types; above all, the socket the server *)
(* believes in is one that listens.                                          *)
THEOREM McpServerTypes == McpServerSpec => []McpServerTypeOK
<1>1. McpServerInv => McpServerTypeOK
  BY DEF McpServerInv, TokenTypes, OwnServerTypes, FlightsSound, Request, McpServerTypeOK
<1> QED
  BY <1>1, McpServerInvariant, PTL

(* No tool runs but for a request whose own token had its scope and was not  *)
(* revoked when the request arrived (builtinServer.ts handleHttpRequest and  *)
(* registerTools, tokenManager.ts verifyToken), however sessions are shared, *)
(* tokens made and revoked and the server switched meanwhile.                *)
THEOREM ToolsOnlyForEntitled == McpServerSpec => []OnlyEntitled
<1>1. McpServerInv => OnlyEntitled
  BY DEF McpServerInv, FlightsSound, FlightSound, OnlyEntitled
<1> QED
  BY <1>1, McpServerInvariant, PTL
=============================================================================
