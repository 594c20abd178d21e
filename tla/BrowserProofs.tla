---------------------------- MODULE BrowserProofs ---------------------------
(***************************************************************************)
(* Proofs about three parts of the browser: the permission prompts, the    *)
(* live subtitles and the translation of pages, for any origins, tabs,     *)
(* engines, documents and languages and any number of requests and clicks. *)
(***************************************************************************)
EXTENDS Permissions, Subtitles, Translation, SequenceTheorems, TLAPS

-----------------------------------------------------------------------------
(* Permissions.                                                              *)

(* The line of requests between main and the user, as PromptsMatchPending    *)
(* reads it off the three queues of messages and prompts.                    *)
Ids(s) == [i \in DOMAIN s |-> s[i].id]
Line == Ids(answers) \o Ids(queue) \o Ids(asked)

Verdicts == {"waiting", "granted", "refused"}
PromptAnswer == [id : 1..Asks, allow : BOOLEAN, remember : BOOLEAN]

\* An id is of one pending request, and was given out already.
PendingOnce ==
  /\ \A r, q \in pending : r.id = q.id => r = q
  /\ \A r \in pending : r.id \in 1..Len(outcome)

Ascending(line) == \A i, j \in DOMAIN line : i < j => line[i] < line[j]
OfPending(line) == {line[i] : i \in DOMAIN line} = {r.id : r \in pending}
WaitingPending ==
  \A id \in DOMAIN outcome : (outcome[id] = "waiting") <=> \E r \in pending : r.id = id

LineSound == PendingOnce /\ Ascending(Line) /\ OfPending(Line) /\ WaitingPending

PermInv == PermTypeOK /\ LineSound

-----------------------------------------------------------------------------
\* The first of one queue goes to the end of the queue before it.
LEMMA MoveHead ==
  ASSUME NEW S, NEW s \in Seq(S), NEW t \in Seq(S), t # <<>>
  PROVE  Append(s, Head(t)) \o Tail(t) = s \o t
<1>1. /\ Head(t) \in S /\ Tail(t) \in Seq(S) /\ Len(Tail(t)) = Len(t) - 1
      /\ \A i \in 1..Len(Tail(t)) : Tail(t)[i] = t[i + 1]
  BY HeadTailProperties
<1> DEFINE a == Append(s, Head(t))
           b == Tail(t)
           l == a \o b
           r == s \o t
<1>2. /\ a \in Seq(S) /\ Len(a) = Len(s) + 1 /\ a[Len(s) + 1] = t[1]
      /\ \A i \in 1..Len(s) : a[i] = s[i]
  BY <1>1
<1>3. Len(s) \in Nat /\ Len(t) \in Nat /\ Len(t) > 0
  BY EmptySeq
<1> HIDE DEF a, b
<1>4. /\ l \in Seq(S) /\ Len(l) = Len(a) + Len(b)
      /\ \A i \in 1..Len(a) + Len(b) : l[i] = IF i <= Len(a) THEN a[i] ELSE b[i - Len(a)]
  BY <1>1, <1>2, ConcatProperties DEF b
<1>5. /\ r \in Seq(S) /\ Len(r) = Len(s) + Len(t)
      /\ \A i \in 1..Len(s) + Len(t) : r[i] = IF i <= Len(s) THEN s[i] ELSE t[i - Len(s)]
  BY ConcatProperties
<1> HIDE DEF l, r
<1>6. Len(l) = Len(r)
  BY <1>1, <1>2, <1>3, <1>4, <1>5 DEF b
<1>7. ASSUME NEW i \in 1..Len(l)
      PROVE  l[i] = r[i]
  <2>1. i \in Nat /\ i <= Len(s) + Len(t) /\ Len(a) = Len(s) + 1 /\ i >= 1
    BY <1>2, <1>3, <1>4, <1>5, <1>6
  <2>2. CASE i <= Len(s)
    BY <1>2, <1>3, <1>4, <1>5, <1>6, <2>1, <2>2
  <2>3. CASE i = Len(s) + 1
    <3>1. l[i] = a[i] /\ a[i] = t[1]
      BY <1>2, <1>3, <1>4, <1>6, <2>1, <2>3
    <3>2. r[i] = t[i - Len(s)] /\ i - Len(s) = 1
      BY <1>3, <1>5, <2>1, <2>3
    <3> QED
      BY <3>1, <3>2
  <2>4. CASE i > Len(s) + 1
    <3>1. l[i] = b[i - Len(a)] /\ r[i] = t[i - Len(s)]
      BY <1>3, <1>4, <1>5, <1>6, <2>1, <2>4
    <3>2. i - Len(a) \in 1..Len(b) /\ i - Len(a) + 1 = i - Len(s)
      BY <1>1, <1>3, <2>1, <2>4 DEF b
    <3> QED
      BY <1>1, <3>1, <3>2 DEF b
  <2> QED
    BY <1>3, <2>1, <2>2, <2>3, <2>4
<1>8. l = r
  BY <1>4, <1>5, <1>6, <1>7, SeqEqual
<1> QED
  BY <1>8 DEF l, r, a, b

\* An element appended to a sequence is appended to what it ends.
LEMMA AppendToConcat ==
  ASSUME NEW S, NEW s \in Seq(S), NEW t \in Seq(S), NEW x \in S
  PROVE  s \o Append(t, x) = Append(s \o t, x)
<1>1. <<x>> \in Seq(S) /\ s \o t \in Seq(S)
  OBVIOUS
<1>2. Append(t, x) = t \o <<x>> /\ Append(s \o t, x) = (s \o t) \o <<x>>
  BY <1>1, AppendIsConcat
<1> QED
  BY <1>1, <1>2, ConcatAssociative

\* The first of a line leaves the line.
LEMMA TailOfConcat ==
  ASSUME NEW S, NEW s \in Seq(S), NEW t \in Seq(S), s # <<>>
  PROVE  Tail(s) \o t = Tail(s \o t) /\ s \o t # <<>> /\ Head(s \o t) = Head(s)
<1>1. /\ Tail(s) \in Seq(S) /\ Len(Tail(s)) = Len(s) - 1
      /\ \A i \in 1..Len(Tail(s)) : Tail(s)[i] = s[i + 1]
  BY HeadTailProperties
<1>2. Len(s) \in Nat /\ Len(t) \in Nat /\ Len(s) > 0
  BY EmptySeq
<1> DEFINE b == Tail(s)
           w == s \o t
           l == b \o t
           r == Tail(w)
<1>3. /\ w \in Seq(S) /\ Len(w) = Len(s) + Len(t)
      /\ \A i \in 1..Len(s) + Len(t) : w[i] = IF i <= Len(s) THEN s[i] ELSE t[i - Len(s)]
  BY ConcatProperties
<1> HIDE DEF b, w
<1>4. /\ l \in Seq(S) /\ Len(l) = Len(b) + Len(t)
      /\ \A i \in 1..Len(b) + Len(t) : l[i] = IF i <= Len(b) THEN b[i] ELSE t[i - Len(b)]
  BY <1>1, ConcatProperties DEF b
<1>5. w # <<>> /\ w[1] = s[1]
  BY <1>2, <1>3
<1>6. /\ r \in Seq(S) /\ Len(r) = Len(w) - 1
      /\ \A i \in 1..Len(r) : r[i] = w[i + 1]
  BY <1>3, <1>5, HeadTailProperties
<1> HIDE DEF l, r
<1>7. Len(l) = Len(r)
  BY <1>1, <1>2, <1>3, <1>4, <1>6 DEF b
<1>8. ASSUME NEW i \in 1..Len(l)
      PROVE  l[i] = r[i]
  <2>1. /\ Len(b) = Len(s) - 1 /\ i \in 1..Len(b) + Len(t) /\ i \in 1..Len(r)
        /\ i + 1 \in 1..Len(s) + Len(t)
    BY <1>1, <1>2, <1>3, <1>4, <1>6, <1>7 DEF b
  <2>2. CASE i <= Len(b)
    <3>1. l[i] = b[i] /\ b[i] = s[i + 1]
      BY <1>1, <1>2, <1>4, <2>1, <2>2 DEF b
    <3>2. r[i] = s[i + 1]
      BY <1>2, <1>3, <1>6, <2>1, <2>2
    <3> QED
      BY <3>1, <3>2
  <2>3. CASE i > Len(b)
    <3>1. l[i] = t[i - Len(b)]
      BY <1>2, <1>4, <2>1, <2>3
    <3>2. r[i] = t[i + 1 - Len(s)]
      BY <1>2, <1>3, <1>6, <2>1, <2>3
    <3>3. i - Len(b) = i + 1 - Len(s)
      BY <1>2, <2>1
    <3> QED
      BY <3>1, <3>2, <3>3
  <2> QED
    BY <1>2, <2>1, <2>2, <2>3
<1>9. l = r
  BY <1>4, <1>6, <1>7, <1>8, SeqEqual
<1> QED
  BY <1>5, <1>9 DEF l, r, w, b

\* The ids of a queue, of a longer one and of what is left of it.
LEMMA IdsTyped ==
  ASSUME NEW S, NEW s \in Seq(S), \A x \in S : x.id \in Nat
  PROVE  /\ Ids(s) \in Seq(Nat) /\ Len(Ids(s)) = Len(s)
         /\ \A i \in 1..Len(s) : Ids(s)[i] = s[i].id
BY DEF Ids

LEMMA IdsAppend ==
  ASSUME NEW S, NEW s \in Seq(S), NEW x \in S, \A y \in S : y.id \in Nat
  PROVE  Ids(Append(s, x)) = Append(Ids(s), x.id)
<1> DEFINE l == Ids(Append(s, x))
           r == Append(Ids(s), x.id)
<1>1. /\ Ids(s) \in Seq(Nat) /\ Len(Ids(s)) = Len(s)
      /\ \A i \in 1..Len(s) : Ids(s)[i] = s[i].id
  BY IdsTyped
<1>2. Append(s, x) \in Seq(S) /\ Len(Append(s, x)) = Len(s) + 1
  OBVIOUS
<1>3. /\ l \in Seq(Nat) /\ Len(l) = Len(s) + 1
      /\ \A i \in 1..Len(s) + 1 : l[i] = Append(s, x)[i].id
  BY <1>2, IdsTyped
<1>4. r \in Seq(Nat) /\ Len(r) = Len(s) + 1
  BY <1>1
<1>5. \A i \in 1..Len(s) : r[i] = s[i].id
  BY <1>1
<1>6. r[Len(s) + 1] = x.id
  BY <1>1
<1>7. /\ \A i \in 1..Len(s) : l[i] = s[i].id
      /\ l[Len(s) + 1] = x.id
  BY <1>3, AppendProperties
<1> HIDE DEF l, r
<1>8. ASSUME NEW i \in 1..Len(s) + 1
      PROVE  l[i] = r[i]
  <2>1. i \in 1..Len(s) \/ i = Len(s) + 1
    OBVIOUS
  <2> QED
    BY <1>5, <1>6, <1>7, <2>1
<1>9. l = r
  BY <1>3, <1>4, <1>8, SeqEqual
<1> QED
  BY <1>9 DEF l, r

LEMMA IdsTail ==
  ASSUME NEW S, NEW s \in Seq(S), s # <<>>, \A y \in S : y.id \in Nat
  PROVE  /\ Ids(Tail(s)) = Tail(Ids(s))
         /\ Ids(s) # <<>> /\ Head(Ids(s)) = s[1].id
<1> DEFINE l == Ids(Tail(s))
           r == Tail(Ids(s))
<1>1. /\ Ids(s) \in Seq(Nat) /\ Len(Ids(s)) = Len(s)
      /\ \A i \in 1..Len(s) : Ids(s)[i] = s[i].id
  BY IdsTyped
<1>2. Len(s) \in Nat /\ Len(s) > 0
  BY EmptySeq
<1>3. Ids(s) # <<>> /\ Head(Ids(s)) = s[1].id
  BY <1>1, <1>2
<1>4. /\ Tail(s) \in Seq(S) /\ Len(Tail(s)) = Len(s) - 1
      /\ \A i \in 1..Len(Tail(s)) : Tail(s)[i] = s[i + 1]
  BY HeadTailProperties
<1>5. /\ l \in Seq(Nat) /\ Len(l) = Len(s) - 1
      /\ \A i \in 1..Len(s) - 1 : l[i] = Tail(s)[i].id
  BY <1>4, IdsTyped
<1>6. /\ r \in Seq(Nat) /\ Len(r) = Len(s) - 1
      /\ \A i \in 1..Len(s) - 1 : r[i] = Ids(s)[i + 1]
  BY <1>1, <1>3, HeadTailProperties
<1> HIDE DEF l, r
<1>7. ASSUME NEW i \in 1..Len(s) - 1
      PROVE  l[i] = r[i]
  <2>1. i + 1 \in 1..Len(s) /\ i \in 1..Len(Tail(s))
    BY <1>2, <1>4
  <2> QED
    BY <1>1, <1>4, <1>5, <1>6, <2>1
<1>8. l = r
  BY <1>5, <1>6, <1>7, SeqEqual
<1> QED
  BY <1>3, <1>8 DEF l, r

-----------------------------------------------------------------------------
\* Prompts and answers have ids.
LEMMA IdsAreNat ==
  /\ \A x \in PromptRequest : x.id \in Nat
  /\ \A x \in PromptAnswer : x.id \in Nat
BY PermAssumption DEF PromptRequest, PromptAnswer

LEMMA LineTyped ==
  ASSUME PermTypeOK
  PROVE  /\ answers \in Seq(PromptAnswer) /\ queue \in Seq(PromptRequest)
         /\ asked \in Seq(PromptRequest)
         /\ Ids(answers) \in Seq(Nat) /\ Ids(queue) \in Seq(Nat) /\ Ids(asked) \in Seq(Nat)
         /\ Line \in Seq(Nat)
<1>1. answers \in Seq(PromptAnswer) /\ queue \in Seq(PromptRequest)
      /\ asked \in Seq(PromptRequest)
  BY DEF PermTypeOK, PromptAnswer
<1>2. Ids(answers) \in Seq(Nat) /\ Ids(queue) \in Seq(Nat) /\ Ids(asked) \in Seq(Nat)
  BY <1>1, IdsAreNat, IdsTyped
<1> QED
  BY <1>1, <1>2 DEF Line

\* A request that is shown, or answered, keeps its place in the line.
LEMMA ShowPromptLine ==
  ASSUME PermTypeOK, ShowPrompt
  PROVE  Line' = Line
<1>1. asked # <<>> /\ queue' = Append(queue, asked[1]) /\ asked' = Tail(asked)
      /\ answers' = answers
  BY DEF ShowPrompt
<1>2. asked[1] \in PromptRequest
  BY <1>1, LineTyped, EmptySeq
<1>3. Ids(queue') = Append(Ids(queue), asked[1].id)
  BY <1>1, <1>2, LineTyped, IdsAreNat, IdsAppend
<1>4. /\ Ids(asked') = Tail(Ids(asked))
      /\ Ids(asked) # <<>> /\ Head(Ids(asked)) = asked[1].id
  BY <1>1, LineTyped, IdsAreNat, IdsTail
<1> DEFINE n == Ids(answers)
           q == Ids(queue)
           a == Ids(asked)
<1>5. n \in Seq(Nat) /\ q \in Seq(Nat) /\ a \in Seq(Nat) /\ a # <<>>
  BY <1>4, LineTyped
<1>6. Line' = n \o Append(q, Head(a)) \o Tail(a) /\ Line = n \o q \o a
  BY <1>1, <1>3, <1>4 DEF Line
<1> HIDE DEF n, q, a
<1>7. Head(a) \in Nat
  BY <1>5, HeadTailProperties
<1>8. n \o Append(q, Head(a)) = Append(n \o q, Head(a)) /\ n \o q \in Seq(Nat)
  BY <1>5, <1>7, AppendToConcat
<1>9. Append(n \o q, Head(a)) \o Tail(a) = n \o q \o a
  BY <1>5, <1>8, MoveHead
<1> QED
  BY <1>6, <1>8, <1>9

LEMMA RespondLine ==
  ASSUME PermTypeOK, NEW allow \in BOOLEAN, NEW keep \in BOOLEAN,
         RespondToPermission(allow, keep)
  PROVE  Line' = Line
<1> DEFINE answer == [id |-> queue[1].id, allow |-> allow, remember |-> keep]
<1>1. queue # <<>> /\ queue' = Tail(queue) /\ asked' = asked
      /\ answers' = Append(answers, answer)
  BY DEF RespondToPermission, AfterFirst
<1>2. queue[1] \in PromptRequest
  BY <1>1, LineTyped, EmptySeq
<1>3. answer \in PromptAnswer
  BY <1>2 DEF PromptRequest, PromptAnswer
<1>4. Ids(answers') = Append(Ids(answers), queue[1].id)
  BY <1>1, <1>3, LineTyped, IdsAreNat, IdsAppend
<1>5. /\ Ids(queue') = Tail(Ids(queue))
      /\ Ids(queue) # <<>> /\ Head(Ids(queue)) = queue[1].id
  BY <1>1, LineTyped, IdsAreNat, IdsTail
<1>6. Ids(answers') \o Ids(queue') = Ids(answers) \o Ids(queue)
  BY <1>4, <1>5, LineTyped, MoveHead
<1> QED
  BY <1>1, <1>6 DEF Line

\* The types, and what the steps that leave the line alone do to the rest.
LEMMA PermTypesKept ==
  ASSUME PermInv, [PermNext]_permVars
  PROVE  PermTypeOK'
<1> USE PermAssumption DEF PermInv, LineSound
<1>0. PermTypeOK
  OBVIOUS
<1>1. ASSUME NEW o \in Origins, NEW caps \in Requested, RequestPermission(o, caps)
      PROVE  PermTypeOK'
  <2> DEFINE request == [id |-> Len(outcome) + 1, origin |-> o, caps |-> caps]
  <2>1. outcome \in Seq(Verdicts) /\ Len(outcome) \in Nat
    BY <1>0 DEF PermTypeOK, Verdicts
  <2>2. request \in PromptRequest
    BY <1>1, <2>1 DEF RequestPermission, PromptRequest
  <2>3. outcome' \in Seq(Verdicts)
    <3>1. \E v \in Verdicts : outcome' = Append(outcome, v)
      BY <1>1 DEF RequestPermission, Verdicts
    <3> QED
      BY <2>1, <3>1
  <2>4. pending' \subseteq PromptRequest /\ asked' \in Seq(PromptRequest)
    <3>1. \/ UNCHANGED <<pending, asked>>
          \/ pending' = pending \cup {request} /\ asked' = Append(asked, request)
      BY <1>1 DEF RequestPermission
    <3> HIDE DEF request
    <3>2. pending \subseteq PromptRequest /\ asked \in Seq(PromptRequest)
      BY <1>0 DEF PermTypeOK
    <3>3. pending' \subseteq PromptRequest
      BY <2>2, <3>1, <3>2
    <3>4. Append(asked, request) \in Seq(PromptRequest)
      BY <2>2, <3>2, AppendProperties
    <3> QED
      BY <3>1, <3>2, <3>3, <3>4
  <2> QED
    BY <1>0, <1>1, <2>3, <2>4 DEF RequestPermission, PermTypeOK, Verdicts
<1>2. CASE RequestOther
  <2>1. outcome' \in Seq(Verdicts)
    BY <1>0, <1>2 DEF RequestOther, PermTypeOK, Verdicts
  <2> QED
    BY <1>0, <1>2, <2>1 DEF RequestOther, PermTypeOK, Verdicts
<1>3. CASE ShowPrompt
  <2>1. asked[1] \in PromptRequest /\ Tail(asked) \in Seq(PromptRequest)
    BY <1>0, <1>3, LineTyped, EmptySeq, HeadTailProperties DEF ShowPrompt
  <2> QED
    BY <1>0, <1>3, <2>1 DEF ShowPrompt, PermTypeOK
<1>4. ASSUME NEW allow \in BOOLEAN, NEW keep \in BOOLEAN, RespondToPermission(allow, keep)
      PROVE  PermTypeOK'
  <2>1. queue[1] \in PromptRequest /\ Tail(queue) \in Seq(PromptRequest)
    BY <1>0, <1>4, LineTyped, EmptySeq, HeadTailProperties DEF RespondToPermission
  <2>2. [id |-> queue[1].id, allow |-> allow, remember |-> keep] \in PromptAnswer
    BY <2>1 DEF PromptRequest, PromptAnswer
  <2>3. answers' \in Seq(PromptAnswer) /\ queue' \in Seq(PromptRequest)
    BY <1>4, <2>1, <2>2, LineTyped DEF RespondToPermission, AfterFirst
  <2>4. remember' \in BOOLEAN
    BY <1>4 DEF RespondToPermission
  <2> QED
    BY <1>0, <1>4, <2>3, <2>4 DEF RespondToPermission, PermTypeOK, PromptAnswer
<1>5. CASE Allow \/ Block \/ Dismiss
  BY <1>0, <1>4, <1>5 DEF Allow, Block, Dismiss, PermTypeOK
<1>6. CASE Resolve
  <2>1. answers # <<>> /\ answers' = Tail(answers)
    BY <1>6 DEF Resolve
  <2>2. answers' \in Seq(PromptAnswer)
    BY <2>1, LineTyped, HeadTailProperties
  <2>3. /\ sites' \in [Origins -> [Capabilities -> Decisions \cup {Undecided}]]
        /\ pending' \subseteq PromptRequest
        /\ outcome' \in Seq(Verdicts)
    <3>1. CASE UNCHANGED <<pending, outcome, sites>>
      BY <1>0, <3>1 DEF PermTypeOK, Verdicts
    <3>2. ASSUME NEW request \in pending, request.id = answers[1].id,
                 pending' = pending \ {request},
                 outcome' = [outcome EXCEPT ![answers[1].id] =
                               IF answers[1].allow THEN "granted" ELSE "refused"],
                 sites' = IF answers[1].remember THEN Remembered(request, answers[1].allow)
                          ELSE sites
          PROVE  /\ sites' \in [Origins -> [Capabilities -> Decisions \cup {Undecided}]]
                 /\ pending' \subseteq PromptRequest
                 /\ outcome' \in Seq(Verdicts)
      <4>1. request \in PromptRequest /\ outcome \in Seq(Verdicts)
            /\ request.id \in 1..Len(outcome)
        BY <1>0 DEF PermTypeOK, PendingOnce, Verdicts
      <4>2. outcome' \in Seq(Verdicts)
        BY <3>2, <4>1, ExceptSeq DEF Verdicts
      <4>3. sites' \in [Origins -> [Capabilities -> Decisions \cup {Undecided}]]
        BY <1>0, <3>2, <4>1 DEF Remembered, PermTypeOK, PromptRequest, Decisions
      <4> QED
        BY <1>0, <3>2, <4>2, <4>3 DEF PermTypeOK
    <3> QED
      BY <1>6, <3>1, <3>2 DEF Resolve, Settle
  <2> QED
    BY <1>0, <1>6, <2>2, <2>3 DEF Resolve, PermTypeOK, Verdicts, PromptAnswer
<1>7. ASSUME NEW next \in [Origins -> [Capabilities -> Decisions \cup {Undecided}]],
             Change(next)
      PROVE  PermTypeOK'
  BY <1>0, <1>7 DEF Change, PermTypeOK
<1>8. ASSUME NEW o \in Origins, ResetOrigin(o) \/ \E c \in Capabilities : Flip(o, c)
      PROVE  PermTypeOK'
  <2>1. /\ [sites EXCEPT ![o] = NoDecisions[o]]
             \in [Origins -> [Capabilities -> Decisions \cup {Undecided}]]
        /\ \A c \in Capabilities, d \in Decisions :
             [sites EXCEPT ![o][c] = d]
               \in [Origins -> [Capabilities -> Decisions \cup {Undecided}]]
    BY <1>0 DEF PermTypeOK, NoDecisions
  <2> QED
    BY <1>7, <1>8, <2>1 DEF ResetOrigin, Flip, Decisions
<1>9. CASE ClickRemember
  BY <1>0, <1>9 DEF ClickRemember, PermTypeOK
<1>10. CASE OpenSection
  BY <1>0, <1>10 DEF OpenSection, PermTypeOK
<1>11. CASE CloseSection
  BY <1>0, <1>11 DEF CloseSection, PermTypeOK
<1>12. CASE UNCHANGED permVars
  BY <1>0, <1>12 DEF permVars, PermTypeOK
<1> QED
  BY <1>1, <1>2, <1>3, <1>5, <1>6, <1>8, <1>9, <1>10, <1>11, <1>12 DEF PermNext

-----------------------------------------------------------------------------
\* A request that waits joins the end of the line; another one never was in it.
LEMMA RequestLine ==
  ASSUME PermInv, NEW o \in Origins, NEW caps \in Requested, RequestPermission(o, caps)
  PROVE  LineSound'
<1> DEFINE n == Len(outcome) + 1
           request == [id |-> n, origin |-> o, caps |-> caps]
<1>1. PermTypeOK /\ PendingOnce /\ Ascending(Line) /\ OfPending(Line) /\ WaitingPending
  BY DEF PermInv, LineSound
<1>2. outcome \in Seq(Verdicts) /\ Len(outcome) \in Nat /\ Line \in Seq(Nat)
  BY <1>1, LineTyped DEF PermTypeOK, Verdicts
<1>3. UNCHANGED <<queue, answers>>
  BY DEF RequestPermission
<1>4. CASE /\ outcome' = Append(outcome, "waiting")
           /\ pending' = pending \cup {request}
           /\ asked' = Append(asked, request)
  <2>1. request \in PromptRequest /\ request.id = n
    <3>1. n \in 1..Asks
      BY <1>2, PermAssumption DEF RequestPermission
    <3> QED
      BY <3>1 DEF PromptRequest
  <2>2. Ids(asked') = Append(Ids(asked), n)
    BY <1>1, <1>4, <2>1, LineTyped, IdsAreNat, IdsAppend
  <2>3. Line' = Append(Line, n)
    <3>1. Line' = Ids(answers) \o Ids(queue) \o Append(Ids(asked), n)
      BY <1>3, <2>2 DEF Line
    <3> DEFINE before == Ids(answers) \o Ids(queue)
    <3>2. before \in Seq(Nat) /\ Ids(asked) \in Seq(Nat) /\ n \in Nat
      BY <1>1, <1>2, LineTyped
    <3>3. Line = before \o Ids(asked) /\ Line' = before \o Append(Ids(asked), n)
      BY <3>1 DEF Line
    <3> HIDE DEF before, n
    <3>4. before \o Append(Ids(asked), n) = Append(before \o Ids(asked), n)
      BY <3>2, AppendToConcat
    <3> QED
      BY <3>3, <3>4
  <2> DEFINE l == Line
  <2>4. \A i \in DOMAIN l : l[i] \in 1..Len(outcome)
    BY <1>1 DEF OfPending, PendingOnce
  <2> HIDE DEF request
  <2>5. /\ l \in Seq(Nat) /\ DOMAIN l = 1..Len(l) /\ Len(l) \in Nat
        /\ DOMAIN Line' = 1..Len(l) + 1
        /\ Line'[Len(l) + 1] = n
        /\ \A i \in 1..Len(l) : Line'[i] = l[i]
    BY <1>2, <2>3
  <2>6. \A i, j \in DOMAIN l : i < j => l[i] < l[j]
    BY <1>1 DEF Ascending
  <2> HIDE DEF l, n
  <2>7. ASSUME NEW i \in DOMAIN Line', NEW j \in DOMAIN Line', i < j
        PROVE  Line'[i] < Line'[j]
    <3>1. i \in 1..Len(l) /\ (j \in 1..Len(l) \/ j = Len(l) + 1)
      BY <2>5, <2>7
    <3>2. CASE j \in 1..Len(l)
      BY <2>5, <2>6, <2>7, <3>1, <3>2
    <3>3. CASE j = Len(l) + 1
      <4>1. Line'[i] = l[i] /\ l[i] \in 1..Len(outcome) /\ Line'[j] = n
        BY <2>4, <2>5, <3>1, <3>3
      <4> QED
        BY <1>2, <4>1 DEF n
    <3> QED
      BY <3>1, <3>2, <3>3
  <2>8. Ascending(Line)'
    BY <2>7 DEF Ascending
  <2>9. {Line'[i] : i \in DOMAIN Line'} = {l[i] : i \in DOMAIN l} \cup {n}
    <3>1. \A i \in DOMAIN Line' : i \in DOMAIN l \/ i = Len(l) + 1
      BY <2>5
    <3>2. Len(l) + 1 \in DOMAIN Line' /\ \A i \in DOMAIN l : i \in DOMAIN Line'
      BY <2>5
    <3> QED
      BY <2>5, <3>1, <3>2
  <2>10. {l[i] : i \in DOMAIN l} = {r.id : r \in pending}
    BY <1>1 DEF OfPending, l
  <2>11. {r.id : r \in pending'} = {r.id : r \in pending} \cup {n}
    BY <1>4, <2>1
  <2>12. OfPending(Line)'
    BY <2>9, <2>10, <2>11 DEF OfPending
  <2>13. Len(outcome') = n /\ n \in Nat
    BY <1>2, <1>4 DEF n
  <2>14. \A r \in pending : r.id \in 1..Len(outcome) /\ r.id # n
    BY <1>1, <1>2 DEF PendingOnce, n
  <2>15. PendingOnce'
    <3>1. \A r, q \in pending' : r.id = q.id => r = q
      BY <1>1, <1>4, <2>1, <2>14 DEF PendingOnce
    <3>2. \A r \in pending' : r.id \in 1..Len(outcome')
      BY <1>2, <1>4, <2>1, <2>13, <2>14 DEF n
    <3> QED
      BY <3>1, <3>2 DEF PendingOnce
  <2>16. WaitingPending'
    <3> SUFFICES ASSUME NEW id \in DOMAIN outcome'
                 PROVE  (outcome'[id] = "waiting") <=> \E r \in pending' : r.id = id
      BY DEF WaitingPending
    <3>1. id \in DOMAIN outcome \/ id = n
      BY <1>2, <1>4 DEF n
    <3>2. CASE id = n
      <4>1. outcome'[n] = "waiting"
        BY <1>2, <1>4 DEF n
      <4> QED
        BY <1>4, <2>1, <3>2, <4>1
    <3>3. CASE id \in DOMAIN outcome /\ id # n
      <4>1. outcome'[id] = outcome[id]
        BY <1>2, <1>4, <3>3
      <4> QED
        BY <1>1, <1>4, <2>1, <3>3, <4>1 DEF WaitingPending
    <3> QED
      BY <3>1, <3>2, <3>3
  <2> QED
    BY <2>8, <2>12, <2>15, <2>16 DEF LineSound
<1>5. CASE /\ \E verdict \in {"granted", "refused"} : outcome' = Append(outcome, verdict)
           /\ UNCHANGED <<pending, asked>>
  <2>1. Line' = Line /\ pending' = pending
    BY <1>3, <1>5 DEF Line
  <2>2. Ascending(Line)' /\ OfPending(Line)'
    BY <1>1, <2>1 DEF Ascending, OfPending
  <2>3. Len(outcome') = Len(outcome) + 1
        /\ outcome'[Len(outcome) + 1] # "waiting"
        /\ \A id \in 1..Len(outcome) : outcome'[id] = outcome[id]
    BY <1>2, <1>5
  <2>4. PendingOnce'
    BY <1>1, <1>2, <2>1, <2>3 DEF PendingOnce
  <2>5. ASSUME NEW id \in DOMAIN outcome'
        PROVE  (outcome'[id] = "waiting") <=> \E r \in pending : r.id = id
    <3>1. id \in 1..Len(outcome) \/ id = Len(outcome) + 1
      BY <1>2, <1>5
    <3>2. CASE id \in 1..Len(outcome)
      BY <1>1, <1>2, <2>3, <3>2 DEF WaitingPending
    <3>3. CASE id = Len(outcome) + 1
      <4>1. \A r \in pending : r.id # id
        BY <1>1, <1>2, <3>3 DEF PendingOnce
      <4> QED
        BY <2>3, <3>3, <4>1
    <3> QED
      BY <3>1, <3>2, <3>3
  <2> QED
    BY <2>1, <2>2, <2>4, <2>5 DEF WaitingPending, LineSound
<1> QED
  BY <1>4, <1>5 DEF RequestPermission

\* An answer finds its request at the head of the line, and takes it out.
LEMMA ResolveLine ==
  ASSUME PermInv, Resolve
  PROVE  LineSound'
<1> DEFINE first == answers[1].id
           l == Line
<1>1. PermTypeOK /\ PendingOnce /\ Ascending(l) /\ OfPending(l) /\ WaitingPending
  BY DEF PermInv, LineSound
<1>2. answers # <<>> /\ answers' = Tail(answers) /\ UNCHANGED <<queue, asked>>
  BY DEF Resolve
<1>3. /\ Ids(answers') = Tail(Ids(answers))
      /\ Ids(answers) # <<>> /\ Head(Ids(answers)) = first
  BY <1>1, <1>2, LineTyped, IdsAreNat, IdsTail
<1>4. l \in Seq(Nat) /\ l # <<>> /\ Head(l) = first /\ Line' = Tail(l)
  <2> DEFINE n == Ids(answers)
             q == Ids(queue)
             a == Ids(asked)
  <2>1. n \in Seq(Nat) /\ q \in Seq(Nat) /\ a \in Seq(Nat) /\ n # <<>>
    BY <1>1, <1>3, LineTyped
  <2>2. l = n \o q \o a /\ Line' = Tail(n) \o q \o a
    BY <1>2, <1>3 DEF Line
  <2> HIDE DEF n, q, a
  <2>3. n \o q \in Seq(Nat)
    BY <2>1, ConcatProperties
  <2>4. Tail(n) \o q = Tail(n \o q) /\ n \o q # <<>> /\ Head(n \o q) = Head(n)
    BY <2>1, TailOfConcat
  <2>5. Tail(n \o q) \o a = Tail(n \o q \o a) /\ n \o q \o a # <<>>
        /\ Head(n \o q \o a) = Head(n \o q)
    BY <2>1, <2>4, <2>3, TailOfConcat
  <2>6. Head(n) = first
    BY <1>3 DEF n
  <2> QED
    BY <1>1, <2>2, <2>4, <2>5, <2>6, LineTyped
<1> HIDE DEF l, first
<1>5. /\ DOMAIN l = 1..Len(l) /\ Len(l) \in Nat /\ Len(l) > 0 /\ l[1] = first
      /\ DOMAIN Line' = 1..Len(l) - 1
      /\ \A i \in 1..Len(l) - 1 : Line'[i] = l[i + 1]
  <2>1. Len(l) \in Nat \ {0}
    BY <1>4, EmptySeq
  <2>2. /\ Line' \in Seq(Nat) /\ Len(Line') = Len(l) - 1
        /\ \A i \in 1..Len(Line') : Line'[i] = l[i + 1]
    BY <1>4, HeadTailProperties
  <2> QED
    BY <1>4, <2>1, <2>2
<1>6. \A i, j \in 1..Len(l) : i < j => l[i] < l[j]
  BY <1>1, <1>5 DEF Ascending
<1>7. Ascending(Line)'
  <2> SUFFICES ASSUME NEW i \in DOMAIN Line', NEW j \in DOMAIN Line', i < j
               PROVE  Line'[i] < Line'[j]
    BY DEF Ascending
  <2>1. i + 1 \in 1..Len(l) /\ j + 1 \in 1..Len(l) /\ i + 1 < j + 1
    BY <1>5
  <2>2. Line'[i] = l[i + 1] /\ Line'[j] = l[j + 1]
    BY <1>5
  <2> QED
    BY <1>6, <2>1, <2>2
<1>8. {l[i] : i \in DOMAIN l} = {r.id : r \in pending}
  BY <1>1 DEF OfPending
<1>9. PICK request \in pending : request.id = first
  <2>1. 1 \in DOMAIN l /\ l[1] = first
    BY <1>5
  <2>2. first \in {l[i] : i \in DOMAIN l}
    BY <2>1
  <2> QED
    BY <1>8, <2>2
<1>10. \A r \in pending : r.id = first <=> r = request
  BY <1>1, <1>9 DEF PendingOnce
<1>11. {r \in pending : r.id = first} = {request}
  BY <1>9, <1>10
<1>12. /\ pending' = pending \ {request}
       /\ \E verdict \in {"granted", "refused"} : outcome' = [outcome EXCEPT ![first] = verdict]
  BY <1>11 DEF Resolve, Settle, first
<1>13. outcome \in Seq(Verdicts) /\ first \in DOMAIN outcome
       /\ DOMAIN outcome' = DOMAIN outcome
  BY <1>1, <1>9, <1>12 DEF PermTypeOK, PendingOnce, Verdicts
<1>14. Len(outcome') = Len(outcome)
  BY <1>12, <1>13, ExceptSeq DEF Verdicts
<1>15. PendingOnce'
  BY <1>1, <1>12, <1>14 DEF PendingOnce
<1>16. WaitingPending'
  <2> SUFFICES ASSUME NEW id \in DOMAIN outcome
               PROVE  (outcome'[id] = "waiting") <=> \E r \in pending' : r.id = id
    BY <1>13 DEF WaitingPending
  <2>1. CASE id = first
    <3>1. outcome'[id] # "waiting"
      BY <1>12, <1>13, <2>1
    <3> QED
      BY <1>10, <1>12, <2>1, <3>1
  <2>2. CASE id # first
    <3>1. outcome'[id] = outcome[id]
      BY <1>12, <1>13, <2>2
    <3> QED
      BY <1>1, <1>9, <1>12, <2>2, <3>1 DEF WaitingPending
  <2> QED
    BY <2>1, <2>2
<1>17. OfPending(Line)'
  <2>1. ASSUME NEW i \in DOMAIN Line'
        PROVE  \E r \in pending' : r.id = Line'[i]
    <3>1. i + 1 \in 1..Len(l) /\ 1 \in 1..Len(l) /\ 1 < i + 1 /\ Line'[i] = l[i + 1]
      BY <1>5
    <3>2. l[i + 1] # first /\ l[1] \in Nat /\ l[i + 1] \in Nat
      BY <1>4, <1>5, <1>6, <3>1
    <3>3. PICK r \in pending : r.id = l[i + 1]
      BY <1>5, <1>8, <3>1
    <3> QED
      BY <1>9, <1>12, <3>1, <3>2, <3>3
  <2>2. ASSUME NEW r \in pending'
        PROVE  \E i \in DOMAIN Line' : Line'[i] = r.id
    <3>1. r \in pending /\ r.id # first
      BY <1>10, <1>12
    <3>2. PICK k \in DOMAIN l : l[k] = r.id
      BY <1>8, <3>1
    <3>3. k \in 2..Len(l)
      BY <1>5, <3>1, <3>2
    <3>4. k - 1 \in 1..Len(l) - 1 /\ (k - 1) + 1 = k
      BY <1>5, <3>3
    <3> QED
      BY <1>5, <3>2, <3>4
  <2> QED
    BY <2>1, <2>2 DEF OfPending
<1> QED
  BY <1>7, <1>15, <1>16, <1>17 DEF LineSound

\* The steps that leave the line, the requests and their verdicts alone.
LEMMA SameLine ==
  ASSUME PermInv, Line' = Line, UNCHANGED <<pending, outcome>>
  PROVE  LineSound'
<1>1. PendingOnce /\ Ascending(Line) /\ OfPending(Line) /\ WaitingPending
  BY DEF PermInv, LineSound
<1>2. PendingOnce' /\ WaitingPending'
  BY <1>1 DEF PendingOnce, WaitingPending
<1>3. Ascending(Line)' /\ OfPending(Line)'
  BY <1>1 DEF Ascending, OfPending
<1> QED
  BY <1>2, <1>3 DEF LineSound

\* A request that never waits changes nothing but the verdicts.
LEMMA RequestOtherLine ==
  ASSUME PermInv, RequestOther
  PROVE  LineSound'
<1>1. PermTypeOK /\ PendingOnce /\ Ascending(Line) /\ OfPending(Line) /\ WaitingPending
  BY DEF PermInv, LineSound
<1>2. outcome \in Seq(Verdicts) /\ Len(outcome) \in Nat
  BY <1>1 DEF PermTypeOK, Verdicts
<1>3. Line' = Line /\ pending' = pending
  BY DEF RequestOther, Line
<1>4. Ascending(Line)' /\ OfPending(Line)'
  BY <1>1, <1>3 DEF Ascending, OfPending
<1>5. Len(outcome') = Len(outcome) + 1
      /\ outcome'[Len(outcome) + 1] # "waiting"
      /\ \A id \in 1..Len(outcome) : outcome'[id] = outcome[id]
      /\ DOMAIN outcome' = 1..Len(outcome) + 1 /\ DOMAIN outcome = 1..Len(outcome)
  <2>1. PICK v \in {"granted", "refused"} : outcome' = Append(outcome, v)
    BY DEF RequestOther
  <2> QED
    BY <1>2, <2>1
<1>6. PendingOnce'
  BY <1>1, <1>2, <1>3, <1>5 DEF PendingOnce
<1>7. ASSUME NEW id \in DOMAIN outcome'
      PROVE  (outcome'[id] = "waiting") <=> \E r \in pending : r.id = id
  <2>1. id \in 1..Len(outcome) \/ id = Len(outcome) + 1
    BY <1>2, <1>5
  <2>2. CASE id \in 1..Len(outcome)
    BY <1>1, <1>2, <1>5, <2>2 DEF WaitingPending
  <2>3. CASE id = Len(outcome) + 1
    <3>1. \A r \in pending : r.id # id
      BY <1>1, <1>2, <2>3 DEF PendingOnce
    <3> QED
      BY <1>5, <2>3, <3>1
  <2> QED
    BY <2>1, <2>2, <2>3
<1> QED
  BY <1>3, <1>4, <1>6, <1>7 DEF WaitingPending, LineSound

LEMMA PermInitInv == PermInit => PermInv
<1> SUFFICES ASSUME PermInit PROVE PermInv
  OBVIOUS
<1> USE PermAssumption DEF PermInit
<1>1. PermTypeOK
  BY DEF PermTypeOK, NoDecisions
<1>2. Line = <<>>
  BY DEF Line, Ids
<1> QED
  BY <1>1, <1>2 DEF PermInv, LineSound, PendingOnce, Ascending, OfPending, WaitingPending

LEMMA PermStepInv == PermInv /\ [PermNext]_permVars => PermInv'
<1> SUFFICES ASSUME PermInv, [PermNext]_permVars
             PROVE  PermInv'
  OBVIOUS
<1>1. PermTypeOK' /\ PermTypeOK
  BY PermTypesKept DEF PermInv
<1> SUFFICES LineSound'
  BY <1>1 DEF PermInv
<1>2. CASE \E o \in Origins, caps \in Requested : RequestPermission(o, caps)
  BY <1>2, RequestLine
<1>3. CASE RequestOther
  BY <1>3, RequestOtherLine
<1>4. CASE ShowPrompt
  <2>1. UNCHANGED <<pending, outcome>>
    BY <1>4 DEF ShowPrompt
  <2> QED
    BY <1>1, <1>4, <2>1, ShowPromptLine, SameLine
<1>5. CASE Allow \/ Block \/ Dismiss
  <2>1. PICK allow \in BOOLEAN, keep \in BOOLEAN : RespondToPermission(allow, keep)
    BY <1>1, <1>5 DEF Allow, Block, Dismiss, PermTypeOK
  <2>2. UNCHANGED <<pending, outcome>>
    BY <2>1 DEF RespondToPermission
  <2> QED
    BY <1>1, <2>1, <2>2, RespondLine, SameLine
<1>6. CASE Resolve
  BY <1>6, ResolveLine
<1>7. CASE \/ ClickRemember \/ OpenSection \/ CloseSection \/ UNCHANGED permVars
           \/ \E o \in Origins : ResetOrigin(o) \/ \E c \in Capabilities : Flip(o, c)
  <2>1. UNCHANGED <<pending, outcome, answers, queue, asked>>
    BY <1>7 DEF ClickRemember, OpenSection, CloseSection, ResetOrigin, Flip, Change, permVars
  <2>2. Line' = Line
    BY <2>1 DEF Line
  <2> QED
    BY <2>1, <2>2, SameLine
<1> QED
  BY <1>2, <1>3, <1>4, <1>5, <1>6, <1>7 DEF PermNext

\* The invariant the theorems below are read off.
LEMMA PermInvariant == PermSpec => []PermInv
BY PermInitInv, PermStepInv, PTL DEF PermSpec

-----------------------------------------------------------------------------
(* The permissions' variables keep their types: a prompt, a message and a    *)
(* pending request are of a site and capabilities that were asked for.       *)
THEOREM PermissionTypes == PermSpec => []PermTypeOK
<1>1. PermInv => PermTypeOK
  BY DEF PermInv, LineSound
<1> QED
  BY <1>1, PermInvariant, PTL

(* Nobody waits for an answer that cannot come, and no page is answered      *)
(* twice: the requests that wait are the ones in the line from main through  *)
(* the prompts back to main, once each and in order (permissions.ts          *)
(* requestPermission and resolvePermissionRequest, App.tsx's queue).         *)
THEOREM NobodyLeftHanging == PermSpec => []PromptsMatchPending
<1>1. PermInv => PromptsMatchPending
  BY DEF PermInv, LineSound, Ascending, OfPending, WaitingPending, Line, Ids, PromptsMatchPending
<1> QED
  BY <1>1, PermInvariant, PTL

-----------------------------------------------------------------------------
(* Subtitles.                                                                *)

SettingsRecords == [on : BOOLEAN, engine : Engines \cup {"whisper"}]
AttemptRecords ==
  [settings : SettingsRecords, state : {"starting", "live", "stopped"}, cancelled : BOOLEAN,
   of : SubTabs \cup {Nothing}, warned : BOOLEAN]

SwitchTypes ==
  /\ front \in SubTabs /\ subtitles \in [SubTabs -> SettingsRecords]
  /\ asks \in Seq(SettingsRecords) /\ tells \in Seq(SettingsRecords) /\ seen \in SettingsRecords
  /\ attempts \in Seq(AttemptRecords)
  /\ own \in 0..Len(attempts) /\ capture \in 0..Len(attempts)

(* The last settings that were sent to chrome are those of the active tab.   *)
LastTold(q, s) == IF q = <<>> THEN s ELSE q[Len(q)]
ChromeIsTold ==
  LastTold(tells, seen) = subtitles[front] /\ attached = subtitles[front].on

(* Only the capture is live, and only the running effect's attempt can       *)
(* become it, while there is none.                                           *)
Due(a) == a.state = "starting" /\ a.cancelled = FALSE
OneCapture(list, mine, current) ==
  \A n \in 1..Len(list) :
    /\ list[n].state = "live" => n = current
    /\ Due(list[n]) => n = mine /\ current = 0

(* What is captured or about to be was switched on; and what is switched on  *)
(* is captured, about to be, or about to be switched.                        *)
Wanted == (own # 0 => seen.on = TRUE) /\ (capture # 0 => seen.on = TRUE)
Served ==
  seen.on = TRUE /\ asks = <<>> /\ tells = <<>> /\ capture = 0
    => \E n \in 1..Len(attempts) : Due(attempts[n])

CaptionShown == caption # Nothing => attached = TRUE

SubInv ==
  /\ SwitchTypes /\ ChromeIsTold /\ OneCapture(attempts, own, capture)
  /\ Wanted /\ Served /\ CaptionShown

-----------------------------------------------------------------------------
LEMMA SettingsAdded ==
  ASSUME NEW q \in Seq(SettingsRecords), NEW s \in SettingsRecords, NEW r
  PROVE  Append(q, s) \in Seq(SettingsRecords) /\ Append(q, s) # <<>> /\ LastTold(Append(q, s), r) = s
<1>1. PICK p : p = Append(q, s)
  OBVIOUS
<1>2. p \in Seq(SettingsRecords) /\ Len(q) \in Nat /\ Len(p) = Len(q) + 1 /\ p[Len(p)] = s
  BY <1>1
<1>3. p # <<>>
  BY <1>2
<1> QED
  BY <1>1, <1>2, <1>3 DEF LastTold

LEMMA SettingsTaken ==
  ASSUME NEW q \in Seq(SettingsRecords), q # <<>>, NEW r
  PROVE  /\ Tail(q) \in Seq(SettingsRecords) /\ Head(q) \in SettingsRecords
         /\ LastTold(Tail(q), Head(q)) = LastTold(q, r)
<1>1. PICK p : p = Tail(q)
  OBVIOUS
<1>2. /\ p \in Seq(SettingsRecords) /\ Len(q) \in Nat /\ Len(q) >= 1 /\ Len(p) = Len(q) - 1
      /\ \A i \in 1..Len(p) : p[i] = q[i + 1]
      /\ Head(q) = q[1] /\ Head(q) \in SettingsRecords
  BY <1>1, HeadTailProperties
<1>3. CASE p = <<>>
  <2>1. Len(q) = 1
    BY <1>2, <1>3
  <2> QED
    BY <1>1, <1>2, <1>3, <2>1 DEF LastTold
<1>4. CASE p # <<>>
  <2>1. Len(p) \in 1..Len(p)
    BY <1>2, <1>4
  <2>2. p[Len(p)] = q[Len(q)]
    BY <1>2, <2>1
  <2> QED
    BY <1>1, <1>2, <1>4, <2>2 DEF LastTold
<1> QED
  BY <1>3, <1>4

(* One attempt is changed.                                                   *)
LEMMA AttemptChanged ==
  ASSUME NEW list \in Seq(AttemptRecords), NEW n \in 1..Len(list), NEW a \in AttemptRecords,
         NEW new, new = [list EXCEPT ![n] = a]
  PROVE  /\ new \in Seq(AttemptRecords) /\ Len(new) = Len(list)
         /\ \A i \in 1..Len(list) : new[i] = IF i = n THEN a ELSE list[i]
OBVIOUS

(* The cleanup of the last effect leaves nothing due.                        *)
LEMMA CleanedUp ==
  ASSUME SubInv
  PROVE  /\ AfterCleanup \in Seq(AttemptRecords) /\ Len(AfterCleanup) = Len(attempts)
         /\ \A n \in 1..Len(attempts) :
              ~Due(AfterCleanup[n]) /\ (AfterCleanup[n].state = "live" => n = capture)
<1>1. PICK n \in Nat : n = Len(attempts) /\ DOMAIN attempts = 1..n
  BY LenProperties DEF SubInv, SwitchTypes
<1>2. \A i \in 1..n : attempts[i] \in AttemptRecords
  BY <1>1 DEF SubInv, SwitchTypes
<1>3. PICK new : new = AfterCleanup
  OBVIOUS
<1>4. new = [i \in 1..n |-> IF i = own THEN Cancelled(attempts[i]) ELSE attempts[i]]
  BY <1>1, <1>3 DEF AfterCleanup
<1>5. \A a \in AttemptRecords :
        /\ Cancelled(a) \in AttemptRecords /\ Cancelled(a).state = a.state
        /\ ~Due(Cancelled(a))
  BY DEF Cancelled, AttemptRecords, Due
<1>6. new \in [1..n -> AttemptRecords]
  BY <1>2, <1>4, <1>5
<1>7. new \in Seq(AttemptRecords) /\ Len(new) = n
  BY <1>6
<1>8. ASSUME NEW i \in 1..n PROVE ~Due(new[i]) /\ (new[i].state = "live" => i = capture)
  <2>1. /\ attempts[i].state = "live" => i = capture
        /\ Due(attempts[i]) => i = own
    BY <1>1 DEF SubInv, OneCapture
  <2>2. CASE i = own
    BY <1>2, <1>4, <1>5, <2>1, <2>2
  <2>3. CASE i # own
    <3>1. new[i] = attempts[i]
      BY <1>4, <2>3
    <3> QED
      BY <2>1, <2>3, <3>1
  <2> QED
    BY <2>2, <2>3
<1> QED
  BY <1>1, <1>3, <1>7, <1>8

-----------------------------------------------------------------------------
LEMMA SubInitInv == SubInit => SubInv
<1> SUFFICES ASSUME SubInit PROVE SubInv
  OBVIOUS
<1>1. [on |-> FALSE, engine |-> "whisper"] \in SettingsRecords
  BY DEF SettingsRecords
<1>2. /\ front \in SubTabs /\ subtitles = [t \in SubTabs |-> [on |-> FALSE, engine |-> "whisper"]]
      /\ asks = <<>> /\ tells = <<>> /\ seen = subtitles[front] /\ attempts = <<>>
      /\ own = 0 /\ capture = 0 /\ attached = FALSE /\ caption = Nothing
  BY DEF SubInit
<1>3. SwitchTypes
  BY <1>1, <1>2 DEF SwitchTypes
<1>4. seen = [on |-> FALSE, engine |-> "whisper"]
  BY <1>2
<1>5. seen.on = FALSE
  BY <1>4
<1>6. ChromeIsTold
  BY <1>2, <1>5 DEF ChromeIsTold, LastTold
<1>7. OneCapture(attempts, own, capture)
  BY <1>2 DEF OneCapture
<1>8. Wanted /\ Served /\ CaptionShown
  BY <1>2, <1>5 DEF Wanted, Served, CaptionShown
<1> QED
  BY <1>3, <1>6, <1>7, <1>8 DEF SubInv

LEMMA SubOther ==
  ASSUME SubInv, UNCHANGED <<switchVars, captureVars, attached>>, caption' # Nothing => attached = TRUE
  PROVE  SubInv'
BY DEF SubInv, SwitchTypes, ChromeIsTold, OneCapture, Wanted, Served, CaptionShown, Due, LastTold,
       switchVars, captureVars

LEMMA AskForKeeps ==
  ASSUME SubInv, NEW s \in SettingsRecords, AskFor(s)
  PROVE  SubInv'
<1>1. /\ asks' = Append(asks, s)
      /\ UNCHANGED <<front, subtitles, tells, seen, attempts, own, capture, attached, caption>>
  BY DEF AskFor, captureVars, captionVars
<1>2. asks' \in Seq(SettingsRecords) /\ asks' # <<>>
  BY <1>1, SettingsAdded DEF SubInv, SwitchTypes
<1>3. SwitchTypes'
  BY <1>1, <1>2 DEF SubInv, SwitchTypes
<1>4. ChromeIsTold' /\ OneCapture(attempts, own, capture)' /\ Wanted' /\ CaptionShown'
  BY <1>1 DEF SubInv, ChromeIsTold, LastTold, OneCapture, Due, Wanted, CaptionShown
<1>5. Served'
  BY <1>2 DEF Served
<1> QED
  BY <1>3, <1>4, <1>5 DEF SubInv

LEMMA MainAppliesKeeps ==
  ASSUME SubInv, MainApplies
  PROVE  SubInv'
<1>1. PICK s : s = Head(asks)
  OBVIOUS
<1>2. /\ asks # <<>> /\ asks' = Tail(asks) /\ subtitles' = [subtitles EXCEPT ![front] = s]
      /\ tells' = Append(tells, s) /\ attached' = s.on
      /\ caption' = IF s.on /\ attached THEN caption ELSE Nothing
      /\ UNCHANGED <<front, seen, attempts, own, capture>>
  BY <1>1 DEF MainApplies, Overlay, captureVars
<1>3. s \in SettingsRecords /\ asks' \in Seq(SettingsRecords)
  BY <1>1, <1>2, SettingsTaken DEF SubInv, SwitchTypes
<1>4. tells' \in Seq(SettingsRecords) /\ tells' # <<>> /\ LastTold(tells', seen) = s
  BY <1>2, <1>3, SettingsAdded DEF SubInv, SwitchTypes
<1>5. subtitles' \in [SubTabs -> SettingsRecords] /\ subtitles'[front] = s
  BY <1>2, <1>3 DEF SubInv, SwitchTypes
<1>6. SwitchTypes'
  BY <1>2, <1>3, <1>4, <1>5 DEF SubInv, SwitchTypes
<1>7. ChromeIsTold'
  BY <1>2, <1>4, <1>5 DEF ChromeIsTold, LastTold
<1>8. OneCapture(attempts, own, capture)' /\ Wanted'
  BY <1>2 DEF SubInv, OneCapture, Due, Wanted
<1>9. Served'
  BY <1>4 DEF Served
<1>10. CaptionShown'
  <2>1. s.on \in BOOLEAN
    BY <1>3 DEF SettingsRecords
  <2> QED
    BY <1>2, <2>1 DEF CaptionShown
<1> QED
  BY <1>6, <1>7, <1>8, <1>9, <1>10 DEF SubInv

LEMMA SwitchToKeeps ==
  ASSUME SubInv, NEW t \in SubTabs, SwitchTo(t)
  PROVE  SubInv'
<1>1. /\ front' = t /\ tells' = Append(tells, subtitles[t]) /\ attached' = subtitles[t].on
      /\ caption' = Nothing /\ UNCHANGED <<subtitles, asks, seen, attempts, own, capture>>
  BY DEF SwitchTo, captureVars
<1>2. subtitles[t] \in SettingsRecords
  BY DEF SubInv, SwitchTypes
<1>3. /\ tells' \in Seq(SettingsRecords) /\ tells' # <<>>
      /\ LastTold(tells', seen) = subtitles[t]
  BY <1>1, <1>2, SettingsAdded DEF SubInv, SwitchTypes
<1>4. SwitchTypes'
  BY <1>1, <1>3 DEF SubInv, SwitchTypes
<1>5. ChromeIsTold'
  BY <1>1, <1>3 DEF ChromeIsTold, LastTold
<1>6. OneCapture(attempts, own, capture)' /\ Wanted' /\ Served' /\ CaptionShown'
  BY <1>1, <1>3 DEF SubInv, OneCapture, Due, Wanted, Served, CaptionShown
<1> QED
  BY <1>4, <1>5, <1>6 DEF SubInv

LEMMA ChromeHearsKeeps ==
  ASSUME SubInv, ChromeHears
  PROVE  SubInv'
<1>1. PICK s : s = Head(tells)
  OBVIOUS
<1>2. /\ tells # <<>> /\ tells' = Tail(tells) /\ seen' = s /\ CaptureEffect(s)
      /\ UNCHANGED <<front, subtitles, asks, attached, caption>>
  BY <1>1 DEF ChromeHears, captionVars
<1>3. /\ s \in SettingsRecords /\ tells' \in Seq(SettingsRecords)
      /\ LastTold(tells', s) = LastTold(tells, seen)
  BY <1>1, <1>2, SettingsTaken DEF SubInv, SwitchTypes
<1>4. s.on \in BOOLEAN
  BY <1>3 DEF SettingsRecords
<1>5. ChromeIsTold'
  BY <1>2, <1>3 DEF SubInv, ChromeIsTold, LastTold
<1>6. CaptionShown'
  BY <1>2 DEF SubInv, CaptionShown
<1>7. PICK list : list = AfterCleanup
  OBVIOUS
<1>8. PICK n \in Nat : n = Len(attempts)
  BY DEF SubInv, SwitchTypes
<1>9. /\ list \in Seq(AttemptRecords) /\ Len(list) = n
      /\ \A i \in 1..n : ~Due(list[i]) /\ (list[i].state = "live" => i = capture)
  BY <1>7, <1>8, CleanedUp
<1>10. capture \in 0..n /\ own \in 0..n
  BY <1>8 DEF SubInv, SwitchTypes
<1>11. CASE s.on = TRUE /\ capture = 0
  <2>1. attempts' = Append(list, Attempt(s)) /\ own' = Len(attempts') /\ capture' = 0
    BY <1>2, <1>7, <1>11 DEF CaptureEffect
  <2>2. PICK a : a = Attempt(s)
    OBVIOUS
  <2>3. a \in AttemptRecords /\ Due(a) /\ a.state # "live"
    BY <1>3, <2>2 DEF Attempt, AttemptRecords, Due
  <2>4. /\ attempts' \in Seq(AttemptRecords) /\ Len(attempts') = n + 1
        /\ attempts'[n + 1] = a /\ \A i \in 1..n : attempts'[i] = list[i]
    BY <1>9, <2>1, <2>2, <2>3
  <2>5. own' = n + 1 /\ n + 1 \in 1..(n + 1) /\ \A i \in 1..(n + 1) : i \in 1..n \/ i = n + 1
    BY <2>1, <2>4
  <2>6. SwitchTypes'
    BY <1>2, <1>3, <2>1, <2>4, <2>5 DEF SubInv, SwitchTypes
  <2>7. ASSUME NEW i \in 1..(n + 1)
        PROVE  /\ attempts'[i].state = "live" => i = capture'
               /\ Due(attempts'[i]) => i = own' /\ capture' = 0
    <3>1. CASE i \in 1..n
      BY <1>9, <1>11, <2>1, <2>4, <3>1
    <3>2. CASE i = n + 1
      BY <2>1, <2>3, <2>4, <2>5, <3>2
    <3> QED
      BY <2>5, <3>1, <3>2
  <2>8. OneCapture(attempts', own', capture')
    BY <2>4, <2>7 DEF OneCapture
  <2>9. Wanted'
    BY <1>2, <1>11 DEF Wanted
  <2>10. \E i \in 1..Len(attempts') : Due(attempts'[i])
    BY <2>3, <2>4, <2>5
  <2>11. Served'
    BY <2>10 DEF Served, Due
  <2> QED
    BY <1>5, <1>6, <2>6, <2>8, <2>9, <2>11 DEF SubInv, OneCapture, Due
<1>12. CASE s.on = TRUE /\ capture # 0
  <2>1. attempts' = list /\ own' = 0 /\ capture' = capture
    BY <1>2, <1>7, <1>12 DEF CaptureEffect
  <2>2. SwitchTypes'
    BY <1>2, <1>3, <1>9, <1>10, <2>1 DEF SubInv, SwitchTypes
  <2>3. OneCapture(attempts', own', capture')
    BY <1>9, <2>1 DEF OneCapture
  <2>4. Wanted' /\ Served'
    BY <1>2, <1>12, <2>1 DEF Wanted, Served
  <2> QED
    BY <1>5, <1>6, <2>2, <2>3, <2>4 DEF SubInv, OneCapture, Due
<1>13. CASE s.on = FALSE
  <2>1. own' = 0 /\ capture' = 0
    BY <1>2, <1>13 DEF CaptureEffect
  <2>2. /\ attempts' \in Seq(AttemptRecords) /\ Len(attempts') = n
        /\ \A i \in 1..n : ~Due(attempts'[i]) /\ attempts'[i].state # "live"
    <3>1. CASE capture = 0
      <4>1. attempts' = list
        BY <1>2, <1>7, <1>13, <3>1 DEF CaptureEffect
      <4> QED
        BY <1>9, <3>1, <4>1
    <3>2. CASE capture # 0
      <4>1. attempts' = [list EXCEPT ![capture].state = "stopped"]
        BY <1>2, <1>7, <1>13, <3>2 DEF CaptureEffect
      <4>2. capture \in 1..n /\ list[capture] \in AttemptRecords
        BY <1>9, <1>10, <3>2
      <4>3. PICK a : a = [list[capture] EXCEPT !.state = "stopped"]
        OBVIOUS
      <4>4. a \in AttemptRecords /\ ~Due(a) /\ a.state # "live"
        BY <4>2, <4>3 DEF AttemptRecords, Due
      <4>5. attempts' = [list EXCEPT ![capture] = a]
        BY <4>1, <4>3
      <4>6. /\ attempts' \in Seq(AttemptRecords) /\ Len(attempts') = n
            /\ \A i \in 1..n : attempts'[i] = IF i = capture THEN a ELSE list[i]
        BY <1>9, <4>2, <4>4, <4>5, AttemptChanged
      <4> QED
        BY <1>9, <4>4, <4>6
    <3> QED
      BY <3>1, <3>2
  <2>3. SwitchTypes'
    BY <1>2, <1>3, <1>8, <2>1, <2>2 DEF SubInv, SwitchTypes
  <2>4. OneCapture(attempts', own', capture')
    BY <2>2 DEF OneCapture
  <2>5. Wanted' /\ Served'
    BY <1>2, <1>13, <2>1 DEF Wanted, Served
  <2> QED
    BY <1>5, <1>6, <2>3, <2>4, <2>5 DEF SubInv, OneCapture, Due
<1> QED
  BY <1>4, <1>11, <1>12, <1>13

LEMMA CaptureStartsKeeps ==
  ASSUME SubInv, NEW n \in DOMAIN attempts, CaptureStarts(n)
  PROVE  SubInv'
<1>1. n \in 1..Len(attempts) /\ attempts[n] \in AttemptRecords /\ attempts \in Seq(AttemptRecords)
      /\ front \in SubTabs
  BY LenProperties DEF SubInv, SwitchTypes
<1>2. PICK b \in BOOLEAN : b = attempts[n].cancelled
  BY <1>1 DEF AttemptRecords
<1>3. PICK a : a = [attempts[n] EXCEPT !.of = front, !.state = IF b THEN "stopped" ELSE "live"]
  OBVIOUS
<1>4. a \in AttemptRecords /\ ~Due(a) /\ a.state = IF b THEN "stopped" ELSE "live"
  <2>1. PICK x \in AttemptRecords : x = [attempts[n] EXCEPT !.of = front]
    BY <1>1 DEF AttemptRecords
  <2>2. a = [x EXCEPT !.state = IF b THEN "stopped" ELSE "live"]
    BY <1>1, <1>3, <2>1 DEF AttemptRecords
  <2> QED
    BY <2>1, <2>2 DEF AttemptRecords, Due
<1>5. attempts' = [attempts EXCEPT ![n] = a]
  BY <1>1, <1>2, <1>3 DEF CaptureStarts
<1>6. /\ attempts' \in Seq(AttemptRecords) /\ Len(attempts') = Len(attempts)
      /\ \A i \in 1..Len(attempts) : attempts'[i] = IF i = n THEN a ELSE attempts[i]
  BY <1>1, <1>4, <1>5, AttemptChanged
<1>7. /\ attempts[n].state = "starting" /\ capture' = IF b THEN capture ELSE n
      /\ UNCHANGED <<front, subtitles, asks, tells, seen, own, attached, caption>>
  BY <1>2 DEF CaptureStarts, switchVars, captionVars
<1>8. /\ Due(attempts[n]) <=> b = FALSE
      /\ b = FALSE => n = own /\ capture = 0 /\ own # 0
  BY <1>1, <1>2, <1>7 DEF Due, SubInv, OneCapture
<1>9. SwitchTypes'
  BY <1>1, <1>6, <1>7 DEF SubInv, SwitchTypes
<1>10. ChromeIsTold' /\ CaptionShown'
  BY <1>7 DEF SubInv, ChromeIsTold, LastTold, CaptionShown
<1>11. OneCapture(attempts', own', capture')
  <2>1. ASSUME NEW i \in 1..Len(attempts)
        PROVE  /\ attempts'[i].state = "live" => i = capture'
               /\ Due(attempts'[i]) => i = own' /\ capture' = 0
    <3>1. CASE i = n
      BY <1>4, <1>6, <1>7, <3>1
    <3>2. CASE i # n
      <4>1. PICK x : x = attempts[i] /\ x = attempts'[i]
        BY <1>6, <3>2
      <4>2. (x.state = "live" => i = capture) /\ (Due(x) => i = own /\ capture = 0)
        BY <4>1 DEF SubInv, OneCapture
      <4>3. x.state = "live" => b = TRUE
        <5>1. i # 0 /\ b \in BOOLEAN
          BY <1>2
        <5> QED
          BY <1>8, <4>2, <5>1
      <4>4. Due(x) => b = TRUE
        <5>1. b \in BOOLEAN
          BY <1>2
        <5> QED
          BY <1>8, <3>2, <4>2, <5>1
      <4>5. b = TRUE => capture' = capture /\ own' = own
        BY <1>7
      <4>6. x.state = "live" => i = capture'
        BY <4>2, <4>3, <4>5
      <4>7. Due(x) => i = own' /\ capture' = 0
        BY <4>2, <4>4, <4>5
      <4> QED
        BY <4>1, <4>6, <4>7
    <3> QED
      BY <3>1, <3>2
  <2> QED
    BY <1>6, <2>1 DEF OneCapture
<1>12. Wanted'
  BY <1>7, <1>8 DEF SubInv, Wanted
<1>13. ASSUME seen'.on = TRUE, asks' = <<>>, tells' = <<>>, capture' = 0
       PROVE  \E i \in 1..Len(attempts') : Due(attempts'[i])
  <2>1. b = TRUE /\ capture = 0
    BY <1>1, <1>7, <1>13
  <2>2. PICK i \in 1..Len(attempts) : Due(attempts[i])
    BY <1>7, <1>13, <2>1 DEF SubInv, Served
  <2>3. i # n
    BY <1>8, <2>1, <2>2
  <2> QED
    BY <1>6, <2>2, <2>3
<1>14. Served'
  BY <1>13 DEF Served, Due
<1> QED
  BY <1>9, <1>10, <1>11, <1>12, <1>14 DEF SubInv, OneCapture, Due

(* An attempt ends or is warned, and its switch is asked to be off.          *)
LEMMA TurnOffKeeps ==
  ASSUME SubInv, NEW n \in DOMAIN attempts, CaptureFails(n) \/ LongSilence(n)
  PROVE  SubInv'
<1>1. n \in 1..Len(attempts) /\ attempts[n] \in AttemptRecords /\ attempts \in Seq(AttemptRecords)
  BY LenProperties DEF SubInv, SwitchTypes
<1>2. PICK a \in AttemptRecords :
        /\ attempts' = [attempts EXCEPT ![n] = a]
        /\ a.state = "live" => attempts[n].state = "live"
        /\ ~Due(a)
  <2>1. CASE CaptureFails(n)
    <3>1. PICK a : a = [attempts[n] EXCEPT !.state = "stopped"]
      OBVIOUS
    <3>2. a \in AttemptRecords /\ a.state = "stopped"
      BY <1>1, <3>1 DEF AttemptRecords
    <3>3. attempts' = [attempts EXCEPT ![n] = a]
      BY <2>1, <3>1 DEF CaptureFails
    <3> QED
      BY <3>2, <3>3 DEF Due
  <2>2. CASE LongSilence(n)
    <3>1. PICK a : a = [attempts[n] EXCEPT !.warned = TRUE]
      OBVIOUS
    <3>2. attempts[n].state = "live"
      BY <2>2 DEF LongSilence
    <3>3. a \in AttemptRecords /\ a.state = attempts[n].state
      BY <1>1, <3>1 DEF AttemptRecords
    <3>4. attempts' = [attempts EXCEPT ![n] = a]
      BY <2>2, <3>1 DEF LongSilence
    <3> QED
      BY <3>2, <3>3, <3>4 DEF Due
  <2> QED
    BY <2>1, <2>2
<1>3. PICK s : s = [attempts[n].settings EXCEPT !.on = FALSE]
  OBVIOUS
<1>4. /\ asks' = Append(asks, s)
      /\ UNCHANGED <<front, subtitles, tells, seen, own, capture, attached, caption>>
  BY <1>3 DEF CaptureFails, LongSilence, TurnOff, captionVars
<1>5. s \in SettingsRecords
  <2>1. attempts[n].settings \in SettingsRecords
    BY <1>1 DEF AttemptRecords
  <2> QED
    BY <1>3, <2>1 DEF SettingsRecords
<1>6. asks' \in Seq(SettingsRecords) /\ asks' # <<>>
  BY <1>4, <1>5, SettingsAdded DEF SubInv, SwitchTypes
<1>7. /\ attempts' \in Seq(AttemptRecords) /\ Len(attempts') = Len(attempts)
      /\ \A i \in 1..Len(attempts) : attempts'[i] = IF i = n THEN a ELSE attempts[i]
  BY <1>1, <1>2, AttemptChanged
<1>8. SwitchTypes'
  BY <1>4, <1>6, <1>7 DEF SubInv, SwitchTypes
<1>9. ChromeIsTold' /\ Wanted' /\ CaptionShown'
  BY <1>4 DEF SubInv, ChromeIsTold, LastTold, Wanted, CaptionShown
<1>10. OneCapture(attempts', own', capture')
  BY <1>2, <1>4, <1>7 DEF SubInv, OneCapture
<1>11. Served'
  BY <1>6 DEF Served
<1> QED
  BY <1>8, <1>9, <1>10, <1>11 DEF SubInv, OneCapture, Due

LEMMA SubStepInv == SubInv /\ [SubNext]_subVars => SubInv'
<1> SUFFICES ASSUME SubInv, [SubNext]_subVars PROVE SubInv'
  OBVIOUS
<1>1. CASE UNCHANGED subVars
  BY <1>1, SubOther DEF subVars, captionVars, SubInv, CaptionShown
<1>2. ASSUME NEW s \in SettingsRecords, AskFor(s) PROVE SubInv'
  BY <1>2, AskForKeeps
<1>3. CASE AskFor([seen EXCEPT !.on = ~@])
  <2>1. [seen EXCEPT !.on = ~seen.on] \in SettingsRecords
    BY DEF SubInv, SwitchTypes, SettingsRecords
  <2> QED
    BY <1>2, <1>3, <2>1
<1>4. ASSUME NEW engine \in Engines, AskFor([seen EXCEPT !.engine = engine]) PROVE SubInv'
  <2>1. [seen EXCEPT !.engine = engine] \in SettingsRecords
    BY DEF SubInv, SwitchTypes, SettingsRecords
  <2> QED
    BY <1>2, <1>4, <2>1
<1>5. CASE MainApplies
  BY <1>5, MainAppliesKeeps
<1>6. CASE ChromeHears
  BY <1>6, ChromeHearsKeeps
<1>7. ASSUME NEW t \in SubTabs, SwitchTo(t) PROVE SubInv'
  BY <1>7, SwitchToKeeps
<1>8. ASSUME NEW n \in DOMAIN attempts,
             CaptureStarts(n) \/ CaptureFails(n) \/ LongSilence(n) \/ ChunkOfSpeech(n)
      PROVE  SubInv'
  <2>1. CASE CaptureStarts(n)
    BY <2>1, CaptureStartsKeeps
  <2>2. CASE CaptureFails(n) \/ LongSilence(n)
    BY <2>2, TurnOffKeeps
  <2>3. CASE ChunkOfSpeech(n)
    BY <2>3, SubOther DEF ChunkOfSpeech, SubInv, CaptionShown
  <2> QED
    BY <1>8, <2>1, <2>2, <2>3
<1>9. ASSUME Transcribed \/ TranslatedLine PROVE SubInv'
  <2>1. /\ UNCHANGED <<switchVars, captureVars, attached>>
        /\ caption' = caption \/ caption' = (IF attached THEN chunk.of ELSE caption)
    BY <1>9 DEF Transcribed, TranslatedLine, Caption
  <2>2. attached \in BOOLEAN
    BY DEF SubInv, SwitchTypes, ChromeIsTold, SettingsRecords
  <2>3. caption' # Nothing => attached = TRUE
    BY <2>1, <2>2 DEF SubInv, CaptionShown
  <2> QED
    BY <2>1, <2>3, SubOther
<1>10. ASSUME \/ StatusCached \/ ChunkGivenUp \/ SaveConfig \/ DetectForChunk
              \/ \E n \in DOMAIN detections : Detected(n)
       PROVE  SubInv'
  <2>1. UNCHANGED <<switchVars, captureVars, attached, caption>>
    BY <1>10 DEF StatusCached, ChunkGivenUp, SaveConfig, DetectForChunk, Detected, captionVars
  <2> QED
    BY <2>1, SubOther DEF SubInv, CaptionShown
<1>11. ASSUME Navigate PROVE SubInv'
  BY <1>11, SubOther DEF Navigate, CaptionShown
<1> QED
  BY <1>1, <1>3, <1>4, <1>5, <1>6, <1>7, <1>8, <1>9, <1>10, <1>11 DEF SubNext

(* However the switch, tab changes and slow or failing starts of a capture   *)
(* interleave: only captureRef's capture runs, so the effect of App.tsx can  *)
(* stop it; once all messages are in and no start is under way, a capture    *)
(* runs exactly while the active tab's switch is on; and a caption is shown  *)
(* on an attached overlay only.                                              *)
THEOREM CaptureFollows == SubSpec => []CaptureFollowsSwitch
<1>1. ASSUME SubInv PROVE CaptureFollowsSwitch
  <2>1. DOMAIN attempts = 1..Len(attempts)
    BY <1>1, LenProperties DEF SubInv, SwitchTypes
  <2>2. \A n \in DOMAIN attempts : attempts[n].state = "live" => n = capture
    BY <1>1, <2>1 DEF SubInv, OneCapture
  <2>3. seen.on \in BOOLEAN /\ \A n \in DOMAIN attempts : attempts[n].cancelled \in BOOLEAN
    <3>1. seen \in SettingsRecords /\ \A n \in DOMAIN attempts : attempts[n] \in AttemptRecords
      BY <1>1, <2>1 DEF SubInv, SwitchTypes
    <3>2. seen.on \in BOOLEAN
      BY <3>1 DEF SettingsRecords
    <3>3. \A a \in AttemptRecords : a.cancelled \in BOOLEAN
      BY DEF AttemptRecords
    <3> QED
      BY <3>1, <3>2, <3>3
  <2>4. ASSUME asks = <<>>, tells = <<>>
        PROVE  seen = subtitles[front] /\ attached = seen.on
    BY <1>1, <2>4 DEF SubInv, ChromeIsTold, LastTold
  <2>5. ASSUME asks = <<>>, tells = <<>>, ~Starting
        PROVE  seen.on <=> capture # 0
    <3>1. \A n \in 1..Len(attempts) : ~Due(attempts[n])
      BY <2>1, <2>3, <2>5 DEF Starting, Due
    <3>2. seen.on = TRUE => capture # 0
      BY <1>1, <2>5, <3>1 DEF SubInv, Served
    <3>3. capture # 0 => seen.on = TRUE
      BY <1>1 DEF SubInv, Wanted
    <3> QED
      BY <2>3, <3>2, <3>3
  <2>6. caption # Nothing => attached
    BY <1>1 DEF SubInv, CaptionShown
  <2> QED
    BY <2>2, <2>4, <2>5, <2>6 DEF CaptureFollowsSwitch
<1> QED
  BY <1>1, SubInitInv, SubStepInv, PTL DEF SubSpec

-----------------------------------------------------------------------------
(* Translation.                                                              *)
(* What pages may say, and what it may be translated into.                   *)
OwnTexts == {Source(d[i]) : d \in Documents, i \in Nat}
Texts == OwnTexts \cup {Into(x, l) : x \in OwnTexts, l \in Languages}
Caches == UNION {[D -> Texts] : D \in SUBSET OwnTexts}
Pages ==
  [doc : Documents, load : {"loading", "parsed", "ready"}, shown : Seq(Texts),
   tracked : Seq(OwnTexts), cache : Caches, on : BOOLEAN, waiting : Nat, watch : Nat,
   holds : BOOLEAN, armed : BOOLEAN]
Batches == [texts : SUBSET OwnTexts, initial : BOOLEAN]
TextRequests == [tab : PageTabs, texts : SUBSET OwnTexts, language : Languages, visible : BOOLEAN]
PageSettings == [on : BOOLEAN, agent : BOOLEAN, language : Languages, open : BOOLEAN]

TrTypes ==
  /\ inFront \in PageTabs /\ setting \in [PageTabs -> PageSettings]
  /\ page \in [PageTabs -> Pages]
  /\ extracted \in [PageTabs -> Seq(Batches)] /\ requests \in Seq(TextRequests)

(* A node that is not tracked shows its own text, and one that is tracked its *)
(* text or a translation of it.                                              *)
NodesFit(p) ==
  /\ \A i \in DOMAIN p.shown : \/ p.shown[i] = OwnText(p, i)
                               \/ \E l \in Languages : p.shown[i] = Into(OwnText(p, i), l)
  /\ \A i \in DOMAIN p.shown \ DOMAIN p.tracked : p.shown[i] = OwnText(p, i)
  /\ DOMAIN p.tracked \subseteq DOMAIN p.shown
  /\ \A i \in DOMAIN p.tracked : p.tracked[i] = OwnText(p, i)
  /\ p.load = "loading" => p.shown = <<>>

CacheFits(p) ==
  \A x \in DOMAIN p.cache : \E l \in Languages : p.cache[x] = Into(x, l)

(* A walk is due only while an observer is at work.                          *)
ObserversFit(p) == p.watch = 0 => p.armed = FALSE /\ p.holds = FALSE

OffIsOriginal(p) ==
  p.on = FALSE /\ p.watch = 0 => \A i \in DOMAIN p.shown : p.shown[i] = OwnText(p, i)

PageFits(p) ==
  p \in Pages /\ NodesFit(p) /\ CacheFits(p) /\ ObserversFit(p) /\ OffIsOriginal(p)

TrInv == TrTypes /\ \A t \in PageTabs : PageFits(page[t])

-----------------------------------------------------------------------------
LEMMA TextsOfOwn ==
  /\ OwnTexts \subseteq Texts
  /\ \A x \in OwnTexts, l \in Languages : Into(x, l) \in Texts
  /\ \A p \in Pages, i \in Nat : OwnText(p, i) \in OwnTexts
<1>1. OwnTexts \subseteq Texts /\ \A x \in OwnTexts, l \in Languages : Into(x, l) \in Texts
  BY DEF Texts
<1>2. ASSUME NEW p \in Pages, NEW i \in Nat PROVE OwnText(p, i) \in OwnTexts
  <2>1. p.doc \in Documents
    BY DEF Pages
  <2> QED
    BY <2>1 DEF OwnText, OwnTexts
<1> QED
  BY <1>1, <1>2

LEMMA TrackedShown ==
  ASSUME NEW p \in Pages
  PROVE  /\ Len(p.shown) \in Nat /\ DOMAIN p.shown = 1..Len(p.shown) /\ p.shown \in Seq(Texts)
         /\ Len(p.tracked) \in Nat /\ DOMAIN p.tracked = 1..Len(p.tracked)
         /\ p.tracked \in Seq(OwnTexts)
<1>1. p.shown \in Seq(Texts) /\ p.tracked \in Seq(OwnTexts)
  BY DEF Pages
<1> QED
  BY <1>1, LenProperties

(* A walk: nodes that were not tracked are, and may get a known translation. *)
LEMMA WalkedFits ==
  ASSUME NEW p, PageFits(p), p.on = TRUE \/ p.watch # 0
  PROVE  PageFits(Walked(p)) /\ Walked(p).load = p.load /\ Walked(p).watch = p.watch
         /\ Walked(p).on = p.on
<1> DEFINE ownAt(i) == OwnText(p, i)
<1>1. p \in Pages /\ NodesFit(p) /\ CacheFits(p) /\ ObserversFit(p)
  BY DEF PageFits
<1>2. PICK n \in Nat : n = Len(p.shown) /\ DOMAIN p.shown = 1..n
  BY <1>1, TrackedShown
<1>3. PICK s : s = [i \in DOMAIN p.shown |->
                     IF i \in Unseen(p) /\ p.shown[i] \in DOMAIN p.cache
                     THEN p.cache[p.shown[i]] ELSE p.shown[i]]
  OBVIOUS
<1>4. PICK k : k = [i \in DOMAIN p.shown |-> IF i \in Unseen(p) THEN p.shown[i]
                                             ELSE p.tracked[i]]
  OBVIOUS
<1>5. ASSUME NEW i \in 1..n
      PROVE  /\ k[i] = ownAt(i) /\ ownAt(i) \in OwnTexts
             /\ s[i] = ownAt(i) \/ \E l \in Languages : s[i] = Into(ownAt(i), l)
  <2>1. ownAt(i) \in OwnTexts
    BY <1>1, TextsOfOwn
  <2>2. k[i] = ownAt(i)
    <3>1. CASE i \in Unseen(p)
      BY <1>1, <1>2, <1>4, <3>1 DEF Unseen, NodesFit
    <3>2. CASE i \notin Unseen(p)
      BY <1>1, <1>2, <1>4, <3>2 DEF Unseen, NodesFit
    <3> QED
      BY <3>1, <3>2
  <2>3. s[i] = ownAt(i) \/ \E l \in Languages : s[i] = Into(ownAt(i), l)
    <3>1. CASE i \in Unseen(p) /\ p.shown[i] \in DOMAIN p.cache
      <4>1. p.shown[i] = ownAt(i) /\ s[i] = p.cache[p.shown[i]]
        BY <1>1, <1>2, <1>3, <3>1 DEF Unseen, NodesFit
      <4> QED
        BY <1>1, <3>1, <4>1 DEF CacheFits
    <3>2. CASE ~(i \in Unseen(p) /\ p.shown[i] \in DOMAIN p.cache)
      <4>1. s[i] = p.shown[i]
        BY <1>2, <1>3, <3>2
      <4> QED
        BY <1>1, <1>2, <4>1 DEF NodesFit
    <3> QED
      BY <3>1, <3>2
  <2> QED
    BY <2>1, <2>2, <2>3
<1>6. s \in [1..n -> Texts] /\ k \in [1..n -> OwnTexts]
  <2>1. \A i \in 1..n : s[i] \in Texts
    BY <1>5, TextsOfOwn
  <2>2. \A i \in 1..n : k[i] \in OwnTexts
    BY <1>5
  <2>3. s = [i \in 1..n |-> s[i]] /\ k = [i \in 1..n |-> k[i]]
    BY <1>2, <1>3, <1>4
  <2> QED
    BY <2>1, <2>2, <2>3
<1>7. s \in Seq(Texts) /\ k \in Seq(OwnTexts) /\ DOMAIN s = 1..n /\ DOMAIN k = 1..n
      /\ (n = 0 => s = <<>>)
  BY <1>6
<1>8. PICK q : q = [p EXCEPT !.tracked = k, !.shown = s]
  OBVIOUS
<1>9. /\ q \in Pages /\ q.shown = s /\ q.tracked = k /\ q.doc = p.doc /\ q.load = p.load
      /\ q.cache = p.cache /\ q.on = p.on /\ q.watch = p.watch /\ q.armed = p.armed
      /\ q.holds = p.holds
  BY <1>1, <1>7, <1>8 DEF Pages
<1>10. \A i : OwnText(q, i) = ownAt(i)
  BY <1>9 DEF OwnText
<1>11. NodesFit(q)
  <2>1. p.load = "loading" => n = 0
    BY <1>1, <1>2 DEF NodesFit
  <2> QED
    BY <1>5, <1>7, <1>9, <1>10, <2>1 DEF NodesFit
<1>12. CacheFits(q) /\ ObserversFit(q)
  BY <1>1, <1>9 DEF CacheFits, ObserversFit
<1>13. OffIsOriginal(q)
  BY <1>9 DEF OffIsOriginal
<1>14. q = Walked(p)
  BY <1>3, <1>4, <1>8 DEF Walked
<1> QED
  BY <1>9, <1>11, <1>12, <1>13, <1>14 DEF PageFits

(* A pass that is undone leaves the texts the nodes came with.               *)
LEMMA RevertedFits ==
  ASSUME NEW p, PageFits(p)
  PROVE  /\ Reverted(p) \in Pages
         /\ \A i \in DOMAIN Reverted(p).shown : Reverted(p).shown[i] = OwnText(p, i)
         /\ DOMAIN Reverted(p).shown = DOMAIN p.shown
         /\ p.load = "loading" => Reverted(p).shown = <<>>
         /\ Reverted(p).tracked = p.tracked /\ Reverted(p).doc = p.doc
         /\ Reverted(p).load = p.load /\ Reverted(p).cache = p.cache
         /\ Reverted(p).on = p.on /\ Reverted(p).waiting = p.waiting
         /\ Reverted(p).watch = p.watch
         /\ Reverted(p).holds = p.holds /\ Reverted(p).armed = p.armed
<1>1. p \in Pages /\ NodesFit(p)
  BY DEF PageFits
<1>2. PICK n \in Nat : n = Len(p.shown) /\ DOMAIN p.shown = 1..n
  BY <1>1, TrackedShown
<1>3. PICK s : s = [i \in DOMAIN p.shown |->
                     IF i \in DOMAIN p.tracked THEN p.tracked[i] ELSE p.shown[i]]
  OBVIOUS
<1>4. \A i \in 1..n : s[i] = OwnText(p, i)
  BY <1>1, <1>2, <1>3 DEF NodesFit
<1>5. s \in [1..n -> OwnTexts]
  <2>1. \A i \in 1..n : s[i] \in OwnTexts
    BY <1>1, <1>4, TextsOfOwn
  <2> QED
    BY <1>2, <1>3, <2>1
<1>6. s \in Seq(Texts) /\ DOMAIN s = 1..n /\ (n = 0 => s = <<>>)
  BY <1>5, TextsOfOwn
<1>7. PICK q : q = [p EXCEPT !.shown = s]
  OBVIOUS
<1>8. /\ q \in Pages /\ q.shown = s /\ q.tracked = p.tracked /\ q.doc = p.doc
      /\ q.load = p.load /\ q.cache = p.cache /\ q.on = p.on /\ q.waiting = p.waiting
      /\ q.watch = p.watch /\ q.holds = p.holds /\ q.armed = p.armed
  BY <1>1, <1>6, <1>7 DEF Pages
<1>9. q = Reverted(p)
  BY <1>3, <1>7 DEF Reverted
<1>10. p.load = "loading" => n = 0
  BY <1>1, <1>2 DEF NodesFit
<1> QED
  BY <1>2, <1>4, <1>6, <1>8, <1>9, <1>10

LEMMA EnabledFits ==
  ASSUME NEW p, PageFits(p)
  PROVE  /\ PageFits(Enabled(p)) /\ Enabled(p).on = TRUE /\ Enabled(p).load = p.load
         /\ Enabled(p).waiting = p.waiting
<1>1. PICK r \in Pages : r = Reverted(p)
  BY RevertedFits
<1>2. PICK q : q = [r EXCEPT !.on = TRUE, !.tracked = <<>>, !.cache = <<>>]
  OBVIOUS
<1>3. <<>> \in Seq(OwnTexts) /\ <<>> \in Caches
  <2>1. PICK none : none = {}
    OBVIOUS
  <2>2. none \in SUBSET OwnTexts /\ <<>> \in [none -> Texts]
    BY <2>1
  <2>3. <<>> \in Caches
    BY <2>2 DEF Caches
  <2> QED
    BY <2>3
<1>4. /\ q \in Pages /\ q.on = TRUE /\ q.tracked = <<>> /\ q.cache = <<>> /\ q.doc = r.doc
      /\ q.shown = r.shown /\ q.load = r.load /\ q.waiting = r.waiting /\ q.watch = r.watch
      /\ q.holds = r.holds /\ q.armed = r.armed
  BY <1>2, <1>3 DEF Pages
<1>5. /\ \A i \in DOMAIN q.shown : q.shown[i] = OwnText(q, i)
      /\ p.load = "loading" => q.shown = <<>>
      /\ q.load = p.load /\ q.waiting = p.waiting /\ q.watch = p.watch
      /\ q.holds = p.holds /\ q.armed = p.armed
  BY <1>1, <1>4, RevertedFits DEF OwnText
<1>6. DOMAIN q.tracked = {} /\ DOMAIN q.cache = {}
  BY <1>4
<1>7. NodesFit(q)
  BY <1>5, <1>6 DEF NodesFit
<1>8. CacheFits(q)
  BY <1>6 DEF CacheFits
<1>9. ObserversFit(q)
  BY <1>5 DEF PageFits, ObserversFit
<1>10. OffIsOriginal(q)
  BY <1>4 DEF OffIsOriginal
<1>11. q = Enabled(p)
  BY <1>1, <1>2 DEF Enabled
<1> QED
  BY <1>4, <1>5, <1>7, <1>8, <1>9, <1>10, <1>11 DEF PageFits

LEMMA DisabledFits ==
  ASSUME NEW p, PageFits(p)
  PROVE  PageFits(Disabled(p))
<1>1. PICK r \in Pages : r = Reverted(p)
  BY RevertedFits
<1>2. /\ p \in Pages /\ CacheFits(p) /\ ObserversFit(p) /\ NodesFit(p)
      /\ p.watch \in Nat /\ p.holds \in BOOLEAN /\ p.armed \in BOOLEAN
  BY DEF PageFits, Pages
<1>3. PICK w \in Nat : w = IF p.holds THEN p.watch - 1 ELSE p.watch
  BY <1>2 DEF ObserversFit
<1>4. PICK a \in BOOLEAN : a = IF p.holds THEN FALSE ELSE p.armed
  BY <1>2
<1>5. PICK q : q = [r EXCEPT !.on = FALSE, !.watch = w, !.holds = FALSE, !.armed = a]
  OBVIOUS
<1>6. /\ q \in Pages /\ q.watch = w /\ q.holds = FALSE /\ q.armed = a
      /\ q.doc = r.doc /\ q.shown = r.shown /\ q.load = r.load /\ q.tracked = r.tracked
      /\ q.cache = r.cache
  BY <1>5 DEF Pages
<1>7. /\ \A i \in DOMAIN q.shown : q.shown[i] = OwnText(q, i)
      /\ q.load = "loading" => q.shown = <<>>
      /\ DOMAIN q.shown = DOMAIN p.shown /\ q.tracked = p.tracked /\ q.cache = p.cache
      /\ q.doc = p.doc
  BY <1>1, <1>6, RevertedFits DEF OwnText
<1>8. NodesFit(q)
  BY <1>2, <1>7 DEF NodesFit, OwnText
<1>9. CacheFits(q)
  BY <1>2, <1>7 DEF CacheFits
<1>10. ObserversFit(q)
  BY <1>2, <1>3, <1>4, <1>6 DEF ObserversFit
<1>11. OffIsOriginal(q)
  BY <1>7 DEF OffIsOriginal
<1>12. q = Disabled(p)
  BY <1>1, <1>3, <1>4, <1>5, RevertedFits DEF Disabled
<1> QED
  BY <1>6, <1>8, <1>9, <1>10, <1>11, <1>12 DEF PageFits

LEMMA ObservedFits ==
  ASSUME NEW p, PageFits(p), p.on = TRUE, NEW n \in Nat \ {0}
  PROVE  PageFits(Observed(p, n))
<1>1. p \in Pages /\ p.watch \in Nat /\ NodesFit(p) /\ CacheFits(p)
  BY DEF PageFits, Pages
<1>2. PICK w \in Nat : w = p.watch + n
  BY <1>1
<1>3. PICK q : q = [p EXCEPT !.watch = w, !.holds = TRUE]
  OBVIOUS
<1>4. /\ q \in Pages /\ q.watch = w /\ q.doc = p.doc /\ q.shown = p.shown /\ q.load = p.load
      /\ q.tracked = p.tracked /\ q.cache = p.cache /\ q.on = TRUE
  BY <1>1, <1>3 DEF Pages
<1>5. NodesFit(q)
  BY <1>1, <1>4 DEF NodesFit, OwnText
<1>6. CacheFits(q)
  BY <1>1, <1>4 DEF CacheFits
<1>7. w # 0
  BY <1>1, <1>2
<1>8. ObserversFit(q) /\ OffIsOriginal(q)
  BY <1>4, <1>7 DEF ObserversFit, OffIsOriginal
<1>9. q = Observed(p, n)
  BY <1>2, <1>3 DEF Observed
<1> QED
  BY <1>4, <1>5, <1>6, <1>8, <1>9 DEF PageFits

(* An answer changes what tracked nodes show, to translations of their texts. *)
LEMMA AppliedFits ==
  ASSUME NEW p, PageFits(p), NEW got \in SUBSET OwnTexts, NEW language \in Languages,
         NEW result, result = [text \in got |-> Into(text, language)]
  PROVE  PageFits(Applied(p, result))
<1>1. p \in Pages /\ NodesFit(p) /\ CacheFits(p) /\ ObserversFit(p) /\ p.cache \in Caches
  BY DEF PageFits, Pages
<1>2. PICK n \in Nat : n = Len(p.shown) /\ DOMAIN p.shown = 1..n
  BY <1>1, TrackedShown
<1>3. PICK D \in SUBSET OwnTexts : p.cache \in [D -> Texts]
  BY <1>1 DEF Caches
<1>4. PICK c : c = [x \in DOMAIN result \cup DOMAIN p.cache |->
                     IF x \in DOMAIN result THEN result[x] ELSE p.cache[x]]
  OBVIOUS
<1>5. PICK s : s = [i \in DOMAIN p.shown |->
                     IF i \notin DOMAIN p.tracked THEN p.shown[i]
                     ELSE IF p.tracked[i] \in DOMAIN result THEN result[p.tracked[i]]
                     ELSE p.shown[i]]
  OBVIOUS
<1>6. DOMAIN result = got /\ \A x \in got : result[x] = Into(x, language)
  OBVIOUS
<1>7. /\ DOMAIN c = got \cup D
      /\ \A x \in got \cup D : c[x] = IF x \in got THEN Into(x, language) ELSE p.cache[x]
  BY <1>3, <1>4, <1>6
<1>8. c \in Caches
  <2>1. \A x \in got \cup D : c[x] \in Texts
    BY <1>3, <1>7, TextsOfOwn
  <2>2. PICK E \in SUBSET OwnTexts : E = got \cup D
    OBVIOUS
  <2>3. c \in [E -> Texts]
    BY <1>3, <1>4, <1>6, <2>1, <2>2
  <2> QED
    BY <2>3 DEF Caches
<1>9. \A x \in DOMAIN c : \E l \in Languages : c[x] = Into(x, l)
  BY <1>1, <1>3, <1>7 DEF CacheFits
<1>10. ASSUME NEW i \in 1..n
       PROVE  /\ s[i] = OwnText(p, i) \/ \E l \in Languages : s[i] = Into(OwnText(p, i), l)
              /\ i \notin DOMAIN p.tracked => s[i] = OwnText(p, i)
              /\ OwnText(p, i) \in OwnTexts
  <2>1. OwnText(p, i) \in OwnTexts
    BY <1>1, TextsOfOwn
  <2>2. CASE i \notin DOMAIN p.tracked \/ p.tracked[i] \notin got
    <3>1. s[i] = p.shown[i]
      BY <1>2, <1>5, <1>6, <2>2
    <3> QED
      BY <1>1, <1>2, <2>1, <3>1 DEF NodesFit
  <2>3. CASE i \in DOMAIN p.tracked /\ p.tracked[i] \in got
    <3>1. s[i] = Into(p.tracked[i], language)
      BY <1>2, <1>5, <1>6, <2>3
    <3>2. p.tracked[i] = OwnText(p, i)
      BY <1>1, <2>3 DEF NodesFit
    <3> QED
      BY <2>1, <2>3, <3>1, <3>2
  <2> QED
    BY <2>2, <2>3
<1>11. s \in Seq(Texts) /\ DOMAIN s = 1..n /\ (n = 0 => s = <<>>)
  <2>1. \A i \in 1..n : s[i] \in Texts
    BY <1>10, TextsOfOwn
  <2>2. s \in [1..n -> Texts]
    BY <1>2, <1>5, <2>1
  <2> QED
    BY <2>2
<1>12. PICK q : q = [p EXCEPT !.cache = c, !.shown = s]
  OBVIOUS
<1>13. /\ q \in Pages /\ q.watch = p.watch /\ q.doc = p.doc /\ q.shown = s /\ q.load = p.load
       /\ q.tracked = p.tracked /\ q.cache = c /\ q.on = p.on
       /\ q.armed = p.armed /\ q.holds = p.holds
  BY <1>1, <1>8, <1>11, <1>12 DEF Pages
<1>14. \A i : OwnText(q, i) = OwnText(p, i)
  BY <1>13 DEF OwnText
<1>15. NodesFit(q)
  <2>1. p.load = "loading" => n = 0
    BY <1>1, <1>2 DEF NodesFit
  <2> QED
    BY <1>1, <1>2, <1>10, <1>11, <1>13, <1>14, <2>1 DEF NodesFit
<1>16. CacheFits(q) /\ ObserversFit(q)
  BY <1>1, <1>9, <1>13 DEF CacheFits, ObserversFit
<1>17. ASSUME p.on PROVE PageFits(Applied(p, result))
  <2>1. p.on = TRUE
    BY <1>1, <1>17 DEF Pages
  <2>2. OffIsOriginal(q)
    BY <1>13, <2>1 DEF OffIsOriginal
  <2>3. q = Applied(p, result)
    BY <1>4, <1>5, <1>12, <1>17 DEF Applied
  <2> QED
    BY <1>13, <1>15, <1>16, <2>2, <2>3 DEF PageFits
<1>18. ASSUME ~p.on PROVE PageFits(Applied(p, result))
  BY <1>18 DEF Applied
<1> QED
  BY <1>17, <1>18

-----------------------------------------------------------------------------
LEMMA NewDocumentFits ==
  ASSUME NEW d \in Documents
  PROVE  PageFits(NewDocument(d))
<1>1. <<>> \in Caches
  <2>1. PICK none : none = {}
    OBVIOUS
  <2>2. none \in SUBSET OwnTexts /\ <<>> \in [none -> Texts]
    BY <2>1
  <2> QED
    BY <2>2 DEF Caches
<1>2. PICK q : q = NewDocument(d)
  OBVIOUS
<1>3. /\ q \in Pages /\ q.shown = <<>> /\ q.tracked = <<>> /\ q.cache = <<>>
      /\ q.armed = FALSE /\ q.holds = FALSE
  BY <1>1, <1>2 DEF NewDocument, Pages
<1>4. DOMAIN q.shown = {} /\ DOMAIN q.tracked = {} /\ DOMAIN q.cache = {}
  BY <1>3
<1>5. NodesFit(q) /\ CacheFits(q) /\ ObserversFit(q) /\ OffIsOriginal(q)
  BY <1>3, <1>4 DEF NodesFit, CacheFits, ObserversFit, OffIsOriginal
<1> QED
  BY <1>2, <1>3, <1>5 DEF PageFits

LEMMA TrInitInv == TrInit => TrInv
<1> SUFFICES ASSUME TrInit PROVE TrInv
  OBVIOUS
<1>1. PICK d \in Documents : page = [t \in PageTabs |-> NewDocument(d)]
  BY DEF TrInit
<1>2. \A t \in PageTabs : page[t] = NewDocument(d)
  BY <1>1
<1>3. PageFits(NewDocument(d))
  BY NewDocumentFits
<1>4. NewDocument(d) \in Pages
  BY <1>3 DEF PageFits
<1>5. page \in [PageTabs -> Pages]
  BY <1>1, <1>4
<1>6. setting \in [PageTabs -> PageSettings]
  BY DEF TrInit, PageSettings
<1>7. extracted \in [PageTabs -> Seq(Batches)] /\ requests \in Seq(TextRequests) /\ inFront \in PageTabs
  BY DEF TrInit
<1> QED
  BY <1>2, <1>3, <1>5, <1>6, <1>7 DEF TrInv, TrTypes

(* A page that fits takes the place of one.                                  *)
LEMMA PageReplaced ==
  ASSUME TrInv, NEW t \in PageTabs, NEW q, PageFits(q), page' = [page EXCEPT ![t] = q]
  PROVE  page' \in [PageTabs -> Pages] /\ \A u \in PageTabs : PageFits(page'[u])
<1>1. page \in [PageTabs -> Pages] /\ q \in Pages
  BY DEF TrInv, TrTypes, PageFits
<1>2. \A u \in PageTabs : page'[u] = IF u = t THEN q ELSE page[u]
  BY <1>1
<1> QED
  BY <1>1, <1>2 DEF TrInv

LEMMA TextsSent ==
  ASSUME TrInv, NEW t \in PageTabs, NEW p, PageFits(p), NEW initial \in BOOLEAN
  PROVE  /\ Fresh(p) \in SUBSET OwnTexts
         /\ Sent(Fresh(p), initial) \in Seq(Batches)
<1>1. p \in Pages /\ NodesFit(p)
  BY DEF PageFits
<1>2. DOMAIN p.shown \subseteq Nat
  BY <1>1, TrackedShown
<1>3. \A i \in Unseen(p) : p.shown[i] \in OwnTexts
  BY <1>1, <1>2, TextsOfOwn DEF Unseen, NodesFit
<1>4. Fresh(p) \in SUBSET OwnTexts
  BY <1>3 DEF Fresh
<1>5. PICK b \in Batches : b = [texts |-> Fresh(p), initial |-> initial]
  BY <1>4 DEF Batches
<1>6. <<b>> \in Seq(Batches)
  BY <1>5
<1> QED
  BY <1>4, <1>5, <1>6 DEF Sent

LEMMA Queued ==
  ASSUME TrInv, NEW t \in PageTabs, NEW batches \in Seq(Batches),
         extracted' = [extracted EXCEPT ![t] = @ \o batches]
  PROVE  extracted' \in [PageTabs -> Seq(Batches)]
<1>1. extracted \in [PageTabs -> Seq(Batches)]
  BY DEF TrInv, TrTypes
<1>2. PICK old \in Seq(Batches) : old = extracted[t]
  BY <1>1
<1>3. PICK new : new = old \o batches
  OBVIOUS
<1>4. new \in Seq(Batches)
  BY <1>2, <1>3
<1>5. extracted' = [extracted EXCEPT ![t] = new]
  BY <1>2, <1>3
<1> QED
  BY <1>1, <1>4, <1>5

LEMMA EnableKeeps ==
  ASSUME TrInv, NEW t \in PageTabs, NEW p, PageFits(p), Enable(t, p)
  PROVE  /\ page' \in [PageTabs -> Pages] /\ \A u \in PageTabs : PageFits(page'[u])
         /\ extracted' \in [PageTabs -> Seq(Batches)]
<1>1. PICK e : e = Enabled(p)
  OBVIOUS
<1>2. PageFits(e) /\ e.on = TRUE /\ e.load = p.load /\ e.waiting = p.waiting
  BY <1>1, EnabledFits
<1>3. CASE p.load = "loading"
  <2>1. PICK w : w = e.waiting + 1
    OBVIOUS
  <2>2. e \in Pages /\ w \in Nat
    BY <1>2, <2>1 DEF PageFits, Pages
  <2>3. PICK q : q = [e EXCEPT !.waiting = w]
    OBVIOUS
  <2>4. /\ q \in Pages /\ q.watch = e.watch /\ q.doc = e.doc /\ q.shown = e.shown
        /\ q.load = e.load /\ q.tracked = e.tracked /\ q.cache = e.cache /\ q.on = e.on
        /\ q.armed = e.armed /\ q.holds = e.holds
    BY <2>2, <2>3 DEF Pages
  <2>5. NodesFit(q)
    BY <1>2, <2>4 DEF PageFits, NodesFit, OwnText
  <2>6. CacheFits(q) /\ ObserversFit(q) /\ OffIsOriginal(q)
    BY <1>2, <2>4 DEF PageFits, CacheFits, ObserversFit, OffIsOriginal
  <2>7. PageFits(q)
    BY <2>4, <2>5, <2>6 DEF PageFits
  <2>8. page' = [page EXCEPT ![t] = q] /\ extracted' = extracted
    BY <1>1, <1>3, <2>1, <2>3 DEF Enable
  <2> QED
    BY <2>7, <2>8, PageReplaced DEF TrInv, TrTypes
<1>4. CASE p.load # "loading"
  <2>1. PICK w : w = Walked(e)
    OBVIOUS
  <2>2. PageFits(w) /\ w.on = TRUE
    BY <1>2, <2>1, WalkedFits
  <2>3. PICK q : q = Observed(w, 1)
    OBVIOUS
  <2>4. PageFits(q)
    <3>1. 1 \in Nat \ {0}
      OBVIOUS
    <3>2. PageFits(Observed(w, 1))
      BY <2>2, <3>1, ObservedFits
    <3> QED
      BY <2>3, <3>2
  <2>5. page' = [page EXCEPT ![t] = q]
    BY <1>1, <1>4, <2>1, <2>3 DEF Enable
  <2>6. PICK batches : batches = Sent(Fresh(e), TRUE)
    OBVIOUS
  <2>7. batches \in Seq(Batches) /\ extracted' = [extracted EXCEPT ![t] = @ \o batches]
    BY <1>1, <1>2, <1>4, <2>6, TextsSent DEF Enable
  <2> QED
    BY <2>4, <2>5, <2>7, PageReplaced, Queued
<1> QED
  BY <1>3, <1>4

-----------------------------------------------------------------------------
LEMMA DocumentKeeps ==
  ASSUME TrInv, NEW t \in PageTabs, NEW d \in Documents, Document(t, d)
  PROVE  TrInv'
<1>1. PICK q : q = NewDocument(d)
  OBVIOUS
<1>2. PageFits(q) /\ page' = [page EXCEPT ![t] = q]
  BY <1>1, NewDocumentFits DEF Document
<1>3. page' \in [PageTabs -> Pages] /\ \A u \in PageTabs : PageFits(page'[u])
  BY <1>2, PageReplaced
<1> QED
  BY <1>3 DEF Document, TrInv, TrTypes

LEMMA BodyReadyKeeps ==
  ASSUME TrInv, NEW t \in PageTabs, BodyReady(t)
  PROVE  TrInv'
<1>1. PICK o : o = page[t] /\ PageFits(o)
  BY DEF TrInv
<1>2. /\ o \in Pages /\ o.load = "loading" /\ o.shown = <<>> /\ NodesFit(o)
      /\ DOMAIN o.tracked = {} /\ o.on \in BOOLEAN /\ o.waiting \in Nat
  <2>1. o \in Pages /\ o.load = "loading" /\ o.shown = <<>> /\ NodesFit(o)
    BY <1>1 DEF BodyReady, PageFits, NodesFit
  <2>2. DOMAIN o.tracked \subseteq DOMAIN o.shown /\ DOMAIN o.shown = {}
    BY <2>1 DEF NodesFit
  <2> QED
    BY <2>1, <2>2 DEF Pages
<1>3. PICK x : x = Source(o.doc[1])
  OBVIOUS
<1>4. x = OwnText(o, 1) /\ x \in OwnTexts /\ x \in Texts
  BY <1>2, <1>3, TextsOfOwn DEF OwnText
<1>5. PICK p : p = [o EXCEPT !.load = "parsed", !.shown = <<x>>, !.waiting = 0]
  OBVIOUS
<1>6. /\ p \in Pages /\ p.shown = <<x>> /\ p.load = "parsed" /\ p.doc = o.doc
      /\ p.tracked = o.tracked /\ p.cache = o.cache /\ p.on = o.on /\ p.watch = o.watch
      /\ p.armed = o.armed /\ p.holds = o.holds
  <2>1. <<x>> \in Seq(Texts)
    BY <1>4
  <2> QED
    BY <1>2, <1>5, <2>1 DEF Pages
<1>7. DOMAIN p.shown = {1} /\ p.shown[1] = OwnText(p, 1)
  BY <1>4, <1>6 DEF OwnText
<1>8. PageFits(p)
  <2>1. NodesFit(p)
    BY <1>2, <1>6, <1>7 DEF NodesFit
  <2>2. CacheFits(p) /\ ObserversFit(p)
    BY <1>1, <1>6 DEF PageFits, CacheFits, ObserversFit
  <2>3. OffIsOriginal(p)
    BY <1>7 DEF OffIsOriginal
  <2> QED
    BY <1>6, <2>1, <2>2, <2>3 DEF PageFits
<1>9. PICK late \in Nat : late = IF o.on THEN o.waiting ELSE 0
  BY <1>2
<1>10. PICK q : q = IF late = 0 THEN p ELSE Observed(Walked(p), late)
  OBVIOUS
<1>11. page' = [page EXCEPT ![t] = q]
  <2>1. p = [page[t] EXCEPT !.load = "parsed", !.shown = <<Source(page[t].doc[1])>>,
                            !.waiting = 0]
    BY <1>1, <1>3, <1>5
  <2>2. p.on = page[t].on /\ late = IF p.on THEN page[t].waiting ELSE 0
    BY <1>1, <1>6, <1>9
  <2> QED
    BY <1>10, <2>1, <2>2 DEF BodyReady
<1>12. PageFits(q)
  <2>1. CASE late = 0
    BY <1>8, <1>10, <2>1
  <2>2. CASE late # 0
    <3>1. p.on = TRUE
      BY <1>2, <1>6, <1>9, <2>2
    <3>2. PageFits(Walked(p)) /\ Walked(p).on = TRUE
      BY <1>8, <3>1, WalkedFits
    <3>3. PageFits(Observed(Walked(p), late))
      BY <2>2, <3>2, ObservedFits
    <3> QED
      BY <1>10, <2>2, <3>3
  <2> QED
    BY <2>1, <2>2
<1>13. PICK batches : batches = [i \in 1..late |->
                                  Sent(IF i = 1 THEN Fresh(p) ELSE {}, TRUE)[1]]
  OBVIOUS
<1>14. batches \in Seq(Batches)
  <2>1. Fresh(p) \in SUBSET OwnTexts
    BY <1>8, TextsSent
  <2>2. ASSUME NEW texts \in SUBSET OwnTexts PROVE Sent(texts, TRUE)[1] \in Batches
    BY DEF Sent, Batches
  <2>3. batches \in [1..late -> Batches]
    <3>1. PICK rest : rest = {}
      OBVIOUS
    <3>2. Sent(Fresh(p), TRUE)[1] \in Batches /\ Sent(rest, TRUE)[1] \in Batches
      BY <2>1, <2>2, <3>1
    <3>3. \A i \in 1..late : batches[i] \in Batches
      <4>1. SUFFICES ASSUME NEW i \in 1..late PROVE batches[i] \in Batches
        OBVIOUS
      <4>2. batches[i] = Sent(IF i = 1 THEN Fresh(p) ELSE {}, TRUE)[1]
        BY <1>13
      <4>3. CASE i = 1
        BY <3>2, <4>2, <4>3
      <4>4. CASE i # 1
        BY <3>1, <3>2, <4>2, <4>4
      <4> QED
        BY <4>3, <4>4
    <3> QED
      BY <1>13, <3>3
  <2> QED
    BY <2>3
<1>15. extracted' = [extracted EXCEPT ![t] = @ \o batches]
  <2>1. p = [page[t] EXCEPT !.load = "parsed", !.shown = <<Source(page[t].doc[1])>>,
                            !.waiting = 0]
    BY <1>1, <1>3, <1>5
  <2>2. p.on = page[t].on /\ late = IF p.on THEN page[t].waiting ELSE 0
    BY <1>1, <1>6, <1>9
  <2> QED
    BY <1>13, <2>1, <2>2 DEF BodyReady
<1>16. extracted' \in [PageTabs -> Seq(Batches)]
  BY <1>14, <1>15, Queued
<1>17. page' \in [PageTabs -> Pages] /\ \A u \in PageTabs : PageFits(page'[u])
  BY <1>11, <1>12, PageReplaced
<1> QED
  BY <1>16, <1>17 DEF BodyReady, TrInv, TrTypes

LEMMA LoadChanged ==
  ASSUME NEW o, PageFits(o), o.load # "loading", NEW q, q = [o EXCEPT !.load = "ready"]
  PROVE  PageFits(q)
<1>1. o \in Pages
  BY DEF PageFits
<1>2. /\ q \in Pages /\ q.load = "ready" /\ q.doc = o.doc /\ q.shown = o.shown
      /\ q.tracked = o.tracked /\ q.cache = o.cache /\ q.on = o.on /\ q.watch = o.watch
      /\ q.armed = o.armed /\ q.holds = o.holds
  BY <1>1 DEF Pages
<1>3. NodesFit(q)
  BY <1>2 DEF PageFits, NodesFit, OwnText
<1> QED
  BY <1>2, <1>3 DEF PageFits, CacheFits, ObserversFit, OffIsOriginal, OwnText

LEMMA DomReadyKeeps ==
  ASSUME TrInv, NEW t \in PageTabs, DomReady(t)
  PROVE  TrInv'
<1>1. PICK o : o = page[t] /\ PageFits(o)
  BY DEF TrInv
<1>2. PICK q : q = [o EXCEPT !.load = "ready"]
  OBVIOUS
<1>3. PageFits(q)
  BY <1>1, <1>2, LoadChanged DEF DomReady
<1>4. /\ page' \in [PageTabs -> Pages] /\ \A u \in PageTabs : PageFits(page'[u])
      /\ extracted' \in [PageTabs -> Seq(Batches)]
  <2>1. CASE setting[t].on /\ setting[t].agent
    <3>1. Enable(t, q)
      BY <1>1, <1>2, <2>1 DEF DomReady
    <3> QED
      BY <1>3, <3>1, EnableKeeps
  <2>2. CASE ~(setting[t].on /\ setting[t].agent)
    <3>1. page' = [page EXCEPT ![t] = q] /\ extracted' = extracted
      BY <1>1, <1>2, <2>2 DEF DomReady
    <3> QED
      BY <1>3, <3>1, PageReplaced DEF TrInv, TrTypes
  <2> QED
    BY <2>1, <2>2
<1> QED
  BY <1>4 DEF DomReady, TrInv, TrTypes

(* A node that is rendered later shows its own text.                         *)
LEMMA RenderMoreKeeps ==
  ASSUME TrInv, NEW t \in PageTabs, RenderMore(t)
  PROVE  TrInv'
<1>1. PICK o : o = page[t] /\ PageFits(o)
  BY DEF TrInv
<1>2. /\ o \in Pages /\ o.load # "loading" /\ o.watch \in Nat /\ o.armed \in BOOLEAN
      /\ NodesFit(o) /\ CacheFits(o) /\ ObserversFit(o) /\ OffIsOriginal(o)
  BY <1>1 DEF RenderMore, PageFits, Pages
<1>3. PICK n \in Nat : n = Len(o.shown) /\ DOMAIN o.shown = 1..n /\ o.shown \in Seq(Texts)
  BY <1>2, TrackedShown
<1>4. PICK x : x = Source(o.doc[n + 1])
  OBVIOUS
<1>5. x = OwnText(o, n + 1) /\ x \in Texts
  BY <1>2, <1>3, <1>4, TextsOfOwn DEF OwnText
<1>6. PICK s : s = Append(o.shown, x)
  OBVIOUS
<1>7. /\ s \in Seq(Texts) /\ DOMAIN s = 1..n + 1 /\ s[n + 1] = x
      /\ \A i \in 1..n : s[i] = o.shown[i]
  BY <1>3, <1>5, <1>6
<1>8. PICK a \in BOOLEAN : a = (o.armed \/ o.watch > 0)
  BY <1>2
<1>9. PICK q : q = [o EXCEPT !.shown = s, !.armed = a]
  OBVIOUS
<1>10. /\ q \in Pages /\ q.shown = s /\ q.armed = a /\ q.load = o.load /\ q.doc = o.doc
       /\ q.tracked = o.tracked /\ q.cache = o.cache /\ q.on = o.on /\ q.watch = o.watch
       /\ q.holds = o.holds
  BY <1>2, <1>7, <1>9 DEF Pages
<1>11. \A i : OwnText(q, i) = OwnText(o, i)
  BY <1>10 DEF OwnText
<1>12. NodesFit(q)
  BY <1>2, <1>3, <1>5, <1>7, <1>10, <1>11 DEF NodesFit
<1>13. CacheFits(q)
  BY <1>2, <1>10 DEF CacheFits
<1>14. ObserversFit(q)
  BY <1>2, <1>8, <1>10 DEF ObserversFit
<1>15. OffIsOriginal(q)
  BY <1>2, <1>3, <1>5, <1>7, <1>10, <1>11 DEF OffIsOriginal
<1>16. PageFits(q)
  BY <1>10, <1>12, <1>13, <1>14, <1>15 DEF PageFits
<1>17. page' = [page EXCEPT ![t] = q]
  <2>1. page' = [page EXCEPT ![t] = [page[t] EXCEPT
                   !.shown = Append(@, Source(page[t].doc[Len(page[t].shown) + 1])),
                   !.armed = @ \/ page[t].watch > 0]]
    BY DEF RenderMore, TrInv, TrTypes
  <2> QED
    BY <1>1, <1>3, <1>4, <1>6, <1>8, <1>9, <2>1
<1>18. page' \in [PageTabs -> Pages] /\ \A u \in PageTabs : PageFits(page'[u])
  BY <1>16, <1>17, PageReplaced
<1> QED
  BY <1>18 DEF RenderMore, TrInv, TrTypes

LEMMA WalkMoreKeeps ==
  ASSUME TrInv, NEW t \in PageTabs, WalkMore(t)
  PROVE  TrInv'
<1>1. PICK o : o = page[t] /\ PageFits(o)
  BY DEF TrInv
<1>2. o.armed /\ o.watch # 0
  BY <1>1 DEF WalkMore, PageFits, ObserversFit
<1>3. PICK w : w = Walked(o)
  OBVIOUS
<1>4. PageFits(w) /\ w.watch = o.watch
  BY <1>1, <1>2, <1>3, WalkedFits
<1>5. PICK q : q = [w EXCEPT !.armed = FALSE]
  OBVIOUS
<1>6. /\ q \in Pages /\ q.shown = w.shown /\ q.armed = FALSE /\ q.load = w.load /\ q.doc = w.doc
      /\ q.tracked = w.tracked /\ q.cache = w.cache /\ q.on = w.on /\ q.watch = w.watch
      /\ q.holds = w.holds
  BY <1>4, <1>5 DEF PageFits, Pages
<1>7. NodesFit(q)
  BY <1>4, <1>6 DEF PageFits, NodesFit, OwnText
<1>8. PageFits(q)
  BY <1>4, <1>6, <1>7 DEF PageFits, CacheFits, ObserversFit, OffIsOriginal, OwnText
<1>9. page' = [page EXCEPT ![t] = q]
  BY <1>1, <1>3, <1>5 DEF WalkMore
<1>10. extracted' \in [PageTabs -> Seq(Batches)]
  <2>1. PICK batches : batches = IF Fresh(o) = {} THEN <<>> ELSE Sent(Fresh(o), FALSE)
    OBVIOUS
  <2>2. batches \in Seq(Batches)
    <3>1. Sent(Fresh(o), FALSE) \in Seq(Batches)
      BY <1>1, TextsSent
    <3>2. <<>> \in Seq(Batches)
      OBVIOUS
    <3> QED
      BY <2>1, <3>1, <3>2
  <2>3. extracted' = [extracted EXCEPT ![t] = @ \o batches]
    BY <1>1, <2>1 DEF WalkMore
  <2> QED
    BY <2>2, <2>3, Queued
<1>11. page' \in [PageTabs -> Pages] /\ \A u \in PageTabs : PageFits(page'[u])
  BY <1>8, <1>9, PageReplaced
<1> QED
  BY <1>10, <1>11 DEF WalkMore, TrInv, TrTypes

LEMMA ExtractedKeeps ==
  ASSUME TrInv, NEW t \in PageTabs, Extracted(t)
  PROVE  TrInv'
<1>1. PICK list \in Seq(Batches) : list = extracted[t] /\ list # <<>>
  BY DEF Extracted, TrInv, TrTypes
<1>2. Head(list) \in Batches /\ Tail(list) \in Seq(Batches)
  BY <1>1
<1>3. PICK m \in Batches : m = Head(list)
  BY <1>2
<1>4. PICK rest \in Seq(Batches) : rest = Tail(list)
  BY <1>2
<1>5. extracted' = [extracted EXCEPT ![t] = rest]
  BY <1>1, <1>4 DEF Extracted
<1>6. extracted' \in [PageTabs -> Seq(Batches)]
  BY <1>5 DEF TrInv, TrTypes
<1>7. requests' \in Seq(TextRequests)
  <2>1. requests \in Seq(TextRequests)
    BY DEF TrInv, TrTypes
  <2>2. CASE requests' = requests
    BY <2>1, <2>2
  <2>3. CASE requests' = Append(requests,
               [tab |-> t, texts |-> m.texts, language |-> setting[t].language,
                visible |-> m.initial /\ t = inFront])
    <3>1. setting[t].language \in Languages /\ m.texts \in SUBSET OwnTexts
      BY <1>3 DEF TrInv, TrTypes, PageSettings, Batches
    <3>2. PICK v \in BOOLEAN : v = (m.initial /\ t = inFront)
      BY DEF Batches
    <3>3. PICK r \in TextRequests : r = [tab |-> t, texts |-> m.texts,
                                  language |-> setting[t].language, visible |-> v]
      BY <3>1 DEF TextRequests
    <3>4. requests' = Append(requests, r)
      BY <2>3, <3>2, <3>3
    <3> QED
      BY <2>1, <3>4
  <2> QED
    BY <1>1, <1>3, <2>2, <2>3 DEF Extracted
<1> QED
  BY <1>6, <1>7 DEF Extracted, TrInv, TrTypes

LEMMA TranslatedKeeps ==
  ASSUME TrInv, NEW n \in DOMAIN requests, NEW got, Translated(n, got)
  PROVE  TrInv'
<1>1. requests \in Seq(TextRequests) /\ DOMAIN requests = 1..Len(requests) /\ Len(requests) \in Nat
  BY LenProperties DEF TrInv, TrTypes
<1>2. PICK r \in TextRequests : r = requests[n]
  BY <1>1
<1>3. got \in SUBSET OwnTexts /\ r.language \in Languages /\ r.tab \in PageTabs
  BY <1>2 DEF Translated, TextRequests
<1>4. requests' \in Seq(TextRequests)
  <2>1. SubSeq(requests, 1, n - 1) \in Seq(TextRequests)
        /\ SubSeq(requests, n + 1, Len(requests)) \in Seq(TextRequests)
    BY <1>1
  <2> QED
    BY <2>1 DEF Translated
<1>5. page' \in [PageTabs -> Pages] /\ \A u \in PageTabs : PageFits(page'[u])
  <2>1. CASE page' = page
    BY <2>1 DEF TrInv, TrTypes
  <2>2. CASE setting[r.tab].open
    <3>1. PICK o : o = page[r.tab] /\ PageFits(o)
      BY <1>3 DEF TrInv
    <3>2. PICK result : result = [text \in got |-> Into(text, r.language)]
      OBVIOUS
    <3>3. PICK q : q = Applied(o, result)
      OBVIOUS
    <3>4. PageFits(q)
      BY <1>3, <3>1, <3>2, <3>3, AppliedFits
    <3>5. page' = [page EXCEPT ![r.tab] = q]
      BY <1>2, <2>2, <3>1, <3>2, <3>3 DEF Translated
    <3> QED
      BY <1>3, <3>4, <3>5, PageReplaced
  <2> QED
    BY <1>2, <2>1, <2>2 DEF Translated
<1> QED
  BY <1>4, <1>5 DEF Translated, TrInv, TrTypes

LEMMA SetSettingsKeeps ==
  ASSUME TrInv, NEW s \in PageSettings, SetSettings(s)
  PROVE  TrInv'
<1>1. PICK t \in PageTabs : t = inFront
  BY DEF TrInv, TrTypes
<1>2. PICK o : o = page[t] /\ PageFits(o)
  BY DEF TrInv
<1>3. setting' \in [PageTabs -> PageSettings]
  BY <1>1 DEF SetSettings, TrInv, TrTypes
<1>4. /\ page' \in [PageTabs -> Pages] /\ \A u \in PageTabs : PageFits(page'[u])
      /\ extracted' \in [PageTabs -> Seq(Batches)]
  <2>1. CASE s.on /\ s.agent
    <3>1. Enable(t, o)
      BY <1>1, <1>2, <2>1 DEF SetSettings
    <3> QED
      BY <1>2, <3>1, EnableKeeps
  <2>2. CASE ~(s.on /\ s.agent)
    <3>1. PICK q : q = IF setting[t].on THEN Disabled(o) ELSE o
      OBVIOUS
    <3>2. PageFits(q)
      BY <1>2, <3>1, DisabledFits
    <3>3. page' = [page EXCEPT ![t] = q] /\ extracted' = extracted
      BY <1>1, <1>2, <2>2, <3>1 DEF SetSettings
    <3> QED
      BY <3>2, <3>3, PageReplaced DEF TrInv, TrTypes
  <2> QED
    BY <2>1, <2>2
<1> QED
  BY <1>3, <1>4 DEF SetSettings, TrInv, TrTypes

LEMMA TrStepInv == TrInv /\ [TrNext]_trVars => TrInv'
<1> SUFFICES ASSUME TrInv, [TrNext]_trVars PROVE TrInv'
  OBVIOUS
<1>1. setting \in [PageTabs -> PageSettings] /\ setting[inFront] \in PageSettings
  BY DEF TrInv, TrTypes
<1>2. ASSUME NEW t \in PageTabs, NEW d \in Documents, Document(t, d) PROVE TrInv'
  BY <1>2, DocumentKeeps
<1>3. ASSUME NEW t \in PageTabs, BodyReady(t) PROVE TrInv'
  BY <1>3, BodyReadyKeeps
<1>4. ASSUME NEW t \in PageTabs, DomReady(t) PROVE TrInv'
  BY <1>4, DomReadyKeeps
<1>5. ASSUME NEW t \in PageTabs, RenderMore(t) PROVE TrInv'
  BY <1>5, RenderMoreKeeps
<1>6. ASSUME NEW t \in PageTabs, WalkMore(t) PROVE TrInv'
  BY <1>6, WalkMoreKeeps
<1>7. ASSUME NEW t \in PageTabs, Extracted(t) PROVE TrInv'
  BY <1>7, ExtractedKeeps
<1>8. ASSUME NEW t \in PageTabs, BringToFront(t) PROVE TrInv'
  BY <1>8 DEF BringToFront, TrInv, TrTypes
<1>9. ASSUME NEW t \in PageTabs, CloseInBack(t) PROVE TrInv'
  <2>1. setting' = [setting EXCEPT ![t] = [setting[t] EXCEPT !.open = FALSE]]
    BY <1>1, <1>9 DEF CloseInBack
  <2>2. PICK s : s = [setting[t] EXCEPT !.open = FALSE]
    OBVIOUS
  <2>3. s \in PageSettings
    BY <1>1, <2>2 DEF PageSettings
  <2>4. setting' \in [PageTabs -> PageSettings]
    BY <1>1, <2>1, <2>2, <2>3
  <2> QED
    BY <1>9, <2>4 DEF CloseInBack, TrInv, TrTypes
<1>10. ASSUME NEW n \in DOMAIN requests, NEW got, Translated(n, got) PROVE TrInv'
  BY <1>10, TranslatedKeeps
<1>11. CASE PressButton
  <2>1. PICK b \in BOOLEAN : b = (~setting[inFront].on \/ buttonState = "error")
    BY <1>1 DEF PageSettings
  <2>2. PICK s : s = [setting[inFront] EXCEPT !.on = b]
    OBVIOUS
  <2>3. s \in PageSettings
    BY <1>1, <2>2 DEF PageSettings
  <2>4. SetSettings(s)
    BY <1>11, <2>1, <2>2 DEF PressButton
  <2> QED
    BY <2>3, <2>4, SetSettingsKeeps
<1>12. ASSUME NEW agent \in BOOLEAN, ChooseAgent(agent) PROVE TrInv'
  <2>1. PICK s : s = [setting[inFront] EXCEPT !.agent = agent]
    OBVIOUS
  <2>2. s \in PageSettings
    BY <1>1, <2>1 DEF PageSettings
  <2> QED
    BY <1>12, <2>1, <2>2, SetSettingsKeeps DEF ChooseAgent
<1>13. ASSUME NEW language \in Languages, ChooseLanguage(language) PROVE TrInv'
  <2>1. PICK s : s = [setting[inFront] EXCEPT !.language = language]
    OBVIOUS
  <2>2. s \in PageSettings
    BY <1>1, <2>1 DEF PageSettings
  <2> QED
    BY <1>13, <2>1, <2>2, SetSettingsKeeps DEF ChooseLanguage
<1>14. CASE UNCHANGED trVars
  BY <1>14 DEF trVars, TrInv, TrTypes
<1> QED
  BY <1>2, <1>3, <1>4, <1>5, <1>6, <1>7, <1>8, <1>9, <1>10, <1>11, <1>12, <1>13, <1>14 DEF TrNext

-----------------------------------------------------------------------------
(* Whatever late answers, changes of settings, navigations and observers of  *)
(* earlier passes do (pageTranslate of the preload, ipc.ts): a node of a page *)
(* shows its own text or one translation of it, never one of another node or *)
(* of a translation; what it is put back to is the text it came with; and a  *)
(* page whose translation is off and unobserved shows the original.          *)
THEOREM TextsStayTraceable == TrSpec => []TextsTraceable
<1>1. ASSUME TrInv PROVE TextsTraceable
  <2>1. ASSUME NEW t \in PageTabs, NEW p, p = page[t]
        PROVE  /\ \A i \in DOMAIN p.shown : \/ p.shown[i] = OwnText(p, i)
                                             \/ \E l \in Languages : p.shown[i] = Into(OwnText(p, i), l)
               /\ \A i \in DOMAIN p.tracked : p.tracked[i] = OwnText(p, i)
               /\ ~p.on /\ p.watch = 0 => \A i \in DOMAIN p.shown : p.shown[i] = OwnText(p, i)
    <3>1. NodesFit(p) /\ OffIsOriginal(p) /\ p.on \in BOOLEAN
      BY <1>1, <2>1 DEF TrInv, PageFits, Pages
    <3> QED
      BY <3>1 DEF NodesFit, OffIsOriginal
  <2> QED
    BY <2>1 DEF TextsTraceable
<1> QED
  BY <1>1, TrInitInv, TrStepInv, PTL DEF TrSpec
=============================================================================
