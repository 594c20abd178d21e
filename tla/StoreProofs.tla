----------------------------- MODULE StoreProofs ----------------------------
(***************************************************************************)
(* Proofs about the lists the browser keeps and shows: browsing history    *)
(* and its settings page, the downloads, and the bookmarks, for any sites, *)
(* any number of pages, downloads, marks and folders, any order of the     *)
(* answers and any file.                                                   *)
(***************************************************************************)
EXTENDS HistoryList, Downloads, Bookmarks, ListProofs

-----------------------------------------------------------------------------
(* Browsing history.  Rows and answers match the query they were asked for,  *)
(* and a list that loads has its request or its answer under way.            *)
Entries == [id : Nat, site : Sites]
Asks == Queries \cup {Sites}
UpCalls ==
  [do : {"page"}, query : Asks, offset : Nat] \cup [do : {"delete"}, id : Nat] \cup [do : {"clear"}]
Matching(seq, q) == \A n \in DOMAIN seq : seq[n].site \in q
Results == {r \in [query : Asks, offset : Nat, rows : Seq(Entries), more : BOOLEAN] :
              Matching(r.rows, r.query)}
Pending(calls, answers, q) ==
  \/ \E n \in DOMAIN calls : calls[n].do = "page" /\ calls[n].query = q
  \/ \E n \in DOMAIN answers : answers[n].query = q

HistTypes ==
  /\ visits \in Seq(Entries) /\ upcalls \in Seq(UpCalls) /\ results \in Seq(Results)
  /\ query \in Asks /\ rows \in Seq(Entries) /\ loading \in BOOLEAN /\ more \in BOOLEAN
  /\ hlSteps \in Nat
HistInv ==
  HistTypes /\ Matching(rows, query) /\ (loading = TRUE => Pending(upcalls, results, query))

LEMMA WithoutKeeps ==
  ASSUME NEW seq \in Seq(Entries), NEW id, NEW q, Matching(seq, q)
  PROVE  Without(seq, id) \in Seq(Entries) /\ Matching(Without(seq, id), q)
<1>1. PICK kept : kept = {e \in {seq[n] : n \in DOMAIN seq} : e.id # id}
  OBVIOUS
<1>2. PICK list \in Seq(Entries) :
        list = Without(seq, id) /\ \A i \in DOMAIN list : \E k \in DOMAIN seq : list[i] = seq[k]
  <2>1. Without(seq, id) = Filtered(seq, kept)
    BY <1>1, Zenon DEF Without
  <2>2. /\ Filtered(seq, kept) \in Seq(Entries)
        /\ \A i \in DOMAIN Filtered(seq, kept) :
             \E k \in DOMAIN seq : Filtered(seq, kept)[i] = seq[k]
    BY FilterKeeps
  <2> QED
    BY <2>1, <2>2
<1> QED
  BY <1>2 DEF Matching

LEMMA FoundMatches ==
  ASSUME HistTypes, NEW q \in Asks
  PROVE  Found(q) \in Seq(Entries) /\ Matching(Found(q), q)
<1>1. PICK kept : kept = {e \in {visits[n] : n \in DOMAIN visits} : e.site \in q}
  OBVIOUS
<1>2. PICK newest : newest = [n \in 1..Len(visits) |-> visits[Len(visits) + 1 - n]]
  OBVIOUS
<1>3. newest \in Seq(Entries)
  <2>1. PICK N \in Nat : N = Len(visits) /\ \A n \in 1..N : visits[n] \in Entries
    BY LenProperties DEF HistTypes
  <2>2. \A n \in 1..N : N + 1 - n \in 1..N
    OBVIOUS
  <2>3. newest \in [1..N -> Entries]
    BY <1>2, <2>1, <2>2
  <2> QED
    BY <2>3, SeqDef
<1>4. PICK list \in Seq(Entries) : list = Found(q) /\ \A i \in DOMAIN list : list[i] \in kept
  <2>1. Found(q) = Filtered(newest, kept)
    BY <1>1, <1>2, Zenon DEF Found
  <2>2. /\ Filtered(newest, kept) \in Seq(Entries)
        /\ \A i \in DOMAIN Filtered(newest, kept) : Filtered(newest, kept)[i] \in kept
    BY <1>3, FilterKeeps
  <2> QED
    BY <2>1, <2>2
<1>5. \A e \in kept : e.site \in q
  BY <1>1
<1> QED
  BY <1>4, <1>5 DEF Matching

LEMMA PageOfMatches ==
  ASSUME HistTypes, NEW r \in [do : {"page"}, query : Asks, offset : Nat]
  PROVE  PageOf(r) \in Results /\ PageOf(r).query = r.query
<1>0. r.query \in Asks /\ r.offset \in Nat
  OBVIOUS
<1>1. PICK found \in Seq(Entries) : found = Found(r.query) /\ Matching(found, r.query)
  BY <1>0, FoundMatches
<1>2. PICK L \in Nat : L = Len(found) /\ DOMAIN found = 1..L
  BY LenProperties
<1>3. PICK last : last = Upto(r.offset + PageSize, found)
  OBVIOUS
<1>4. last \in Nat /\ last <= L
  BY <1>0, <1>2, <1>3, HistoryAssumption DEF Upto
<1>5. PICK part : part = SubSeq(found, r.offset + 1, last)
  OBVIOUS
<1>7. part \in Seq(Entries) /\ Matching(part, r.query)
  <2>1. PICK n \in Nat : n = IF r.offset + 1 <= last THEN last - (r.offset + 1) + 1 ELSE 0
    BY <1>0, <1>4
  <2>2. part = [i \in 1..n |-> found[i + (r.offset + 1) - 1]]
    BY <1>0, <1>4, <1>5, <2>1
  <2>3. \A i \in 1..n : i + (r.offset + 1) - 1 \in DOMAIN found
    BY <1>0, <1>2, <1>4, <2>1
  <2>4. \A i \in DOMAIN found : found[i] \in Entries /\ found[i].site \in r.query
    BY <1>1, <1>2, ElementOfSeq DEF Matching
  <2>5. \A i \in 1..n : part[i] \in Entries /\ part[i].site \in r.query
    BY <2>2, <2>3, <2>4
  <2>6. part \in [1..n -> Entries] /\ DOMAIN part = 1..n
    BY <2>2, <2>5
  <2> QED
    BY <2>5, <2>6, SeqDef DEF Matching
<1>8. PICK m : m = (r.offset + PageSize < L)
  OBVIOUS
<1>9. PageOf(r) = [query |-> r.query, offset |-> r.offset, rows |-> part, more |-> m]
  BY <1>1, <1>2, <1>3, <1>5, <1>8 DEF PageOf
<1>10. m \in BOOLEAN
  BY <1>8
<1> QED
  BY <1>0, <1>7, <1>9, <1>10 DEF Results

-----------------------------------------------------------------------------
(* The actions.                                                              *)
LEMMA HistInitInv == HistoryInit => HistInv
<1> SUFFICES ASSUME HistoryInit PROVE HistInv
  OBVIOUS
<1>1. PICK none : none = <<>>
  OBVIOUS
<1>2. \A S : none \in Seq(S)
  BY <1>1, EmptySeq
<1>3. PICK first : first = [do |-> "page", query |-> Sites, offset |-> 0]
  OBVIOUS
<1>4. first \in UpCalls /\ first.do = "page" /\ first.query = Sites
  BY <1>3 DEF UpCalls, Asks
<1>5. upcalls = <<first>> /\ visits = none /\ results = none /\ rows = none
      /\ query = Sites /\ more = TRUE /\ loading = TRUE /\ hlSteps = 0
  BY <1>1, <1>3 DEF HistoryInit
<1>6. upcalls \in Seq(UpCalls) /\ DOMAIN upcalls = 1..1 /\ upcalls[1] = first
  BY <1>4, <1>5
<1>7. HistTypes
  BY <1>2, <1>5, <1>6 DEF HistTypes, Asks
<1>8. Matching(rows, query)
  <2>1. DOMAIN rows = {}
    BY <1>1, <1>5
  <2> QED
    BY <2>1 DEF Matching
<1>9. Pending(upcalls, results, query)
  <2>1. 1 \in DOMAIN upcalls
    BY <1>6
  <2> QED
    BY <1>4, <1>5, <1>6, <2>1 DEF Pending
<1> QED
  BY <1>7, <1>8, <1>9 DEF HistInv

(* Whatever leaves the list, its query, the spinner and both queues alone.   *)
LEMMA OnlyVisits ==
  ASSUME HistInv, visits' \in Seq(Entries), hlSteps' \in Nat,
         UNCHANGED <<upcalls, results, View>>
  PROVE  HistInv'
<1>1. UNCHANGED upcalls /\ UNCHANGED results /\ UNCHANGED query /\ UNCHANGED rows
      /\ UNCHANGED more /\ UNCHANGED loading
  BY DEF View
<1> QED
  BY <1>1 DEF HistInv, HistTypes

LEMMA StepTaken == ASSUME HistInv, HlStep PROVE hlSteps' \in Nat
  BY DEF HistInv, HistTypes, HlStep

LEMMA CallAdded ==
  ASSUME HistInv, NEW call \in UpCalls, upcalls' = Append(upcalls, call)
  PROVE  /\ upcalls' \in Seq(UpCalls)
         /\ \A q : Pending(upcalls, results, q) => Pending(upcalls', results, q)
         /\ call.do = "page" => Pending(upcalls', results, call.query)
<1>1. upcalls \in Seq(UpCalls)
  BY DEF HistInv, HistTypes
<1> QED
  BY <1>1, AppendOf DEF Pending

LEMMA ResultAdded ==
  ASSUME NEW answers \in Seq(Results), NEW r \in Results
  PROVE  /\ Append(answers, r) \in Seq(Results)
         /\ \A i \in DOMAIN answers :
              i \in DOMAIN Append(answers, r) /\ Append(answers, r)[i] = answers[i]
         /\ \E i \in DOMAIN Append(answers, r) : Append(answers, r)[i] = r
  BY AppendOf

LEMMA FetchAdded ==
  ASSUME HistInv, NEW q \in Asks, NEW n \in Nat, Fetch(q, n)
  PROVE  upcalls' \in Seq(UpCalls) /\ Pending(upcalls', results, q)
<1>1. PICK call : call = [do |-> "page", query |-> q, offset |-> n]
  OBVIOUS
<1>2. call \in UpCalls /\ call.do = "page" /\ call.query = q
  BY <1>1 DEF UpCalls
<1> QED
  BY <1>1, <1>2, CallAdded DEF Fetch

LEMMA VisitInv == ASSUME HistInv, NEW site \in Sites, Visit(site) PROVE HistInv'
<1>0. visits \in Seq(Entries) /\ hlSteps + 1 \in Nat
  BY DEF HistInv, HistTypes
<1>1. PICK entry : entry = [id |-> hlSteps + 1, site |-> site]
  OBVIOUS
<1>2. entry \in Entries
  BY <1>0, <1>1 DEF Entries
<1>3. PICK longer : longer = IF visits # <<>> /\ visits[Len(visits)].site = site
                             THEN visits ELSE Append(visits, entry)
  OBVIOUS
<1>4. longer \in Seq(Entries) /\ longer # <<>>
  BY <1>0, <1>2, <1>3, AppendProperties, EmptySeq
<1>5. Recorded(site) = IF Len(longer) > MaxVisits THEN Tail(longer) ELSE longer
  BY <1>1, <1>3 DEF Recorded
<1>6. Recorded(site) \in Seq(Entries)
  BY <1>4, <1>5, TailOf
<1>7. visits' \in Seq(Entries) /\ UNCHANGED <<upcalls, results, View>> /\ HlStep
  BY <1>6 DEF Visit
<1> QED
  BY <1>7, OnlyVisits, StepTaken

LEMMA AnyMatches == ASSUME NEW seq \in Seq(Entries) PROVE Matching(seq, Sites)
<1>1. \A n \in DOMAIN seq : seq[n] \in Entries
  BY LenProperties, ElementOfSeq
<1> QED
  BY <1>1 DEF Matching, Entries

LEMMA ToolDeleteInv == ASSUME HistInv, NEW id, ToolDelete(id) PROVE HistInv'
<1>0. visits \in Seq(Entries)
  BY DEF HistInv, HistTypes
<1>1. visits' \in Seq(Entries) /\ UNCHANGED <<upcalls, results, View>> /\ HlStep
  BY <1>0, AnyMatches, WithoutKeeps DEF ToolDelete
<1> QED
  BY <1>1, OnlyVisits, StepTaken

LEMMA ToolClearInv == ASSUME HistInv, ToolClear PROVE HistInv'
<1>1. visits' \in Seq(Entries) /\ UNCHANGED <<upcalls, results, View>> /\ HlStep
  BY EmptySeq DEF ToolClear
<1> QED
  BY <1>1, OnlyVisits, StepTaken

LEMMA MainAnswersInv == ASSUME HistInv, MainAnswers PROVE HistInv'
<1>0. /\ upcalls \in Seq(UpCalls) /\ upcalls # <<>> /\ upcalls' = Tail(upcalls)
      /\ results \in Seq(Results) /\ visits \in Seq(Entries)
      /\ UNCHANGED query /\ UNCHANGED rows /\ UNCHANGED more /\ UNCHANGED loading
      /\ UNCHANGED hlSteps
  BY DEF HistInv, HistTypes, MainAnswers, View
<1>1. PICK call \in UpCalls : call = Head(upcalls) /\ call = upcalls[1]
  BY <1>0, TailOf
<1>2. upcalls' \in Seq(UpCalls)
  BY <1>0, TailOf
<1>3. \A q : Pending(upcalls, results, q) /\ ~(call.do = "page" /\ call.query = q)
               => Pending(upcalls', results, q)
  <2>1. \A i \in DOMAIN upcalls :
          i = 1 \/ (i - 1 \in DOMAIN upcalls' /\ upcalls'[i - 1] = upcalls[i])
    BY <1>0, TailOf
  <2>2. ASSUME NEW q, NEW i \in DOMAIN upcalls, upcalls[i].do = "page", upcalls[i].query = q,
               ~(call.do = "page" /\ call.query = q)
        PROVE  Pending(upcalls', results, q)
    <3>1. i # 1
      BY <1>1, <2>2
    <3>2. i - 1 \in DOMAIN upcalls' /\ upcalls'[i - 1] = upcalls[i]
      BY <2>1, <3>1
    <3> QED
      BY <2>2, <3>2 DEF Pending
  <2> QED
    BY <2>2 DEF Pending
<1>4. CASE call.do = "page"
  <2>1. results' = Append(results, PageOf(call)) /\ UNCHANGED visits
    BY <1>1, <1>4 DEF MainAnswers
  <2>2. call \in [do : {"page"}, query : Asks, offset : Nat]
    BY <1>4 DEF UpCalls
  <2>3. PICK result \in Results : result = PageOf(call) /\ result.query = call.query
    BY <2>2, PageOfMatches DEF HistInv
  <2>4. results' \in Seq(Results) /\ \A q : Pending(upcalls, results, q) => Pending(upcalls', results', q)
    <3>1. /\ results' \in Seq(Results)
          /\ \A i \in DOMAIN results : i \in DOMAIN results' /\ results'[i] = results[i]
          /\ \E i \in DOMAIN results' : results'[i] = result
      <4>1. results' = Append(results, result)
        BY <2>1, <2>3
      <4>2. results \in Seq(Results) /\ result \in Results
        BY <1>0
      <4>3. /\ Append(results, result) \in Seq(Results)
            /\ \A i \in DOMAIN results :
                 i \in DOMAIN Append(results, result) /\ Append(results, result)[i] = results[i]
            /\ \E i \in DOMAIN Append(results, result) : Append(results, result)[i] = result
        BY <4>2, ResultAdded
      <4> QED
        BY <4>1, <4>3, Zenon
    <3>2. Pending(upcalls', results', call.query)
      BY <2>3, <3>1 DEF Pending
    <3>3. \A q : Pending(upcalls', results, q) => Pending(upcalls', results', q)
      BY <3>1 DEF Pending
    <3> QED
      BY <1>3, <3>1, <3>2, <3>3
  <2> QED
    BY <1>0, <1>2, <2>1, <2>4 DEF HistInv, HistTypes
<1>5. CASE call.do # "page"
  <2>1. visits' \in Seq(Entries) /\ UNCHANGED results
    <3>1. CASE call.do = "delete"
      <4>1. visits' = Without(visits, call.id) /\ UNCHANGED results
        BY <1>1, <3>1 DEF MainAnswers
      <4> QED
        BY <1>0, <4>1, AnyMatches, WithoutKeeps
    <3>2. CASE call.do = "clear"
      <4>1. visits' = <<>> /\ UNCHANGED results
        BY <1>1, <3>2 DEF MainAnswers
      <4> QED
        BY <4>1, EmptySeq
    <3>3. call.do \in {"delete", "clear"}
      BY <1>5 DEF UpCalls
    <3> QED
      BY <3>1, <3>2, <3>3
  <2> QED
    BY <1>0, <1>2, <1>3, <1>5, <2>1 DEF HistInv, HistTypes
<1> QED
  BY <1>4, <1>5

LEMMA NoRowsMatch == \A q : Matching(<<>>, q)
  BY DEF Matching

LEMMA SearchInv == ASSUME HistInv, NEW q \in Queries, Search(q) PROVE HistInv'
<1>0. /\ visits \in Seq(Entries) /\ results \in Seq(Results) /\ q \in Asks /\ 0 \in Nat
      /\ query' = q /\ rows' = <<>> /\ more' = TRUE /\ loading' = TRUE
      /\ UNCHANGED visits /\ UNCHANGED results /\ Fetch(q, 0)
  BY DEF HistInv, HistTypes, Search, Asks
<1>1. upcalls' \in Seq(UpCalls) /\ Pending(upcalls', results, q)
  BY <1>0, FetchAdded
<1>2. hlSteps' \in Nat
  BY StepTaken DEF Search
<1>3. rows' \in Seq(Entries) /\ Matching(rows', query')
  BY <1>0, NoRowsMatch, EmptySeq
<1> QED
  BY <1>0, <1>1, <1>2, <1>3 DEF HistInv, HistTypes

LEMMA LoadMoreInv == ASSUME HistInv, LoadMore PROVE HistInv'
<1>0. /\ visits \in Seq(Entries) /\ results \in Seq(Results) /\ query \in Asks
      /\ Len(rows) \in Nat /\ loading' = TRUE
      /\ UNCHANGED visits /\ UNCHANGED results /\ UNCHANGED query /\ UNCHANGED rows
      /\ UNCHANGED more /\ Fetch(query, Len(rows))
  BY LenProperties DEF HistInv, HistTypes, LoadMore
<1>1. upcalls' \in Seq(UpCalls) /\ Pending(upcalls', results, query)
  BY <1>0, FetchAdded
<1>2. hlSteps' \in Nat
  BY StepTaken DEF LoadMore
<1> QED
  BY <1>0, <1>1, <1>2 DEF HistInv, HistTypes

LEMMA ReceiveInv == ASSUME HistInv, Receive PROVE HistInv'
<1>0. /\ results \in Seq(Results) /\ results # <<>> /\ results' = Tail(results)
      /\ UNCHANGED visits /\ UNCHANGED upcalls /\ UNCHANGED query /\ UNCHANGED hlSteps
      /\ rows \in Seq(Entries) /\ Matching(rows, query)
  BY DEF HistInv, HistTypes, Receive
<1>1. PICK result \in Results : result = Head(results) /\ result = results[1]
  BY <1>0, TailOf
<1>2. results' \in Seq(Results)
      /\ \A i \in DOMAIN results :
           i = 1 \/ (i - 1 \in DOMAIN results' /\ results'[i - 1] = results[i])
  BY <1>0, TailOf
<1>3. result.rows \in Seq(Entries) /\ Matching(result.rows, result.query)
      /\ result.more \in BOOLEAN
  BY DEF Results
<1>4. CASE Answers(result)
  <2>1. /\ rows' = IF result.offset = 0 THEN result.rows ELSE rows \o result.rows
        /\ more' = result.more /\ loading' = FALSE
    BY <1>1, <1>4 DEF Receive
  <2>2. Matching(result.rows, query)
    BY <1>3, <1>4 DEF Answers
  <2>3. PICK both \in Seq(Entries) : both = rows \o result.rows
    BY <1>0, <1>3, ConcatProperties
  <2>4. Matching(both, query)
    <3>1. PICK m \in Nat, n \in Nat :
             m = Len(rows) /\ n = Len(result.rows) /\ DOMAIN rows = 1..m
             /\ DOMAIN result.rows = 1..n
      BY <1>0, <1>3, LenProperties
    <3>2. DOMAIN both = 1..m + n
      BY <1>0, <1>3, <2>3, <3>1, ConcatProperties, LenProperties
    <3>3. \A i \in 1..m + n : both[i] = IF i <= m THEN rows[i] ELSE result.rows[i - m]
      BY <1>0, <1>3, <2>3, <3>1, ConcatProperties
    <3>4. ASSUME NEW i \in 1..m + n PROVE both[i].site \in query
      <4>1. CASE i <= m
        <5>1. i \in DOMAIN rows /\ both[i] = rows[i]
          BY <3>1, <3>3, <4>1
        <5> QED
          BY <1>0, <5>1 DEF Matching
      <4>2. CASE ~(i <= m)
        <5>1. i - m \in DOMAIN result.rows /\ both[i] = result.rows[i - m]
          BY <3>1, <3>3, <4>2
        <5> QED
          BY <2>2, <5>1 DEF Matching
      <4> QED
        BY <4>1, <4>2
    <3> QED
      BY <3>2, <3>4 DEF Matching
  <2>5. rows' \in Seq(Entries) /\ Matching(rows', query)
    BY <1>3, <2>1, <2>2, <2>3, <2>4
  <2> QED
    BY <1>0, <1>2, <1>3, <2>1, <2>5 DEF HistInv, HistTypes
<1>5. CASE ~Answers(result)
  <2>1. UNCHANGED rows /\ UNCHANGED more /\ UNCHANGED loading
    BY <1>1, <1>5 DEF Receive
  <2>2. Pending(upcalls, results, query) => Pending(upcalls, results', query)
    <3>1. \A i \in DOMAIN results : results[i].query = query => i # 1
      BY <1>1, <1>5 DEF Answers
    <3> QED
      BY <1>2, <3>1 DEF Pending
  <2> QED
    BY <1>0, <1>2, <2>1, <2>2 DEF HistInv, HistTypes
<1> QED
  BY <1>4, <1>5

LEMMA DeleteRowInv == ASSUME HistInv, NEW n \in DOMAIN rows, DeleteRow(n) PROVE HistInv'
<1>0. /\ rows \in Seq(Entries) /\ Matching(rows, query) /\ visits \in Seq(Entries)
      /\ results \in Seq(Results)
      /\ upcalls' = Append(upcalls, [do |-> "delete", id |-> rows[n].id])
      /\ rows' = Without(rows, rows[n].id)
      /\ UNCHANGED visits /\ UNCHANGED results /\ UNCHANGED query /\ UNCHANGED more
      /\ UNCHANGED loading
  BY DEF HistInv, HistTypes, DeleteRow
<1>1. rows[n] \in Entries
  BY <1>0, LenProperties, ElementOfSeq
<1>2. PICK call : call = [do |-> "delete", id |-> rows[n].id]
  OBVIOUS
<1>3. call \in UpCalls
  BY <1>1, <1>2 DEF UpCalls, Entries
<1>4. /\ upcalls' \in Seq(UpCalls)
      /\ Pending(upcalls, results, query) => Pending(upcalls', results, query)
  BY <1>0, <1>2, <1>3, CallAdded
<1>5. rows' \in Seq(Entries) /\ Matching(rows', query)
  BY <1>0, WithoutKeeps
<1>6. hlSteps' \in Nat
  BY StepTaken DEF DeleteRow
<1> QED
  BY <1>0, <1>4, <1>5, <1>6 DEF HistInv, HistTypes

LEMMA ClearInv == ASSUME HistInv, Clear PROVE HistInv'
<1>0. /\ visits \in Seq(Entries) /\ results \in Seq(Results)
      /\ upcalls' = Append(upcalls, [do |-> "clear"]) /\ rows' = <<>> /\ more' = FALSE
      /\ UNCHANGED visits /\ UNCHANGED results /\ UNCHANGED query /\ UNCHANGED loading
  BY DEF HistInv, HistTypes, Clear
<1>2. PICK call : call = [do |-> "clear"]
  OBVIOUS
<1>3. call \in UpCalls
  BY <1>2 DEF UpCalls
<1>4. /\ upcalls' \in Seq(UpCalls)
      /\ Pending(upcalls, results, query) => Pending(upcalls', results, query)
  BY <1>0, <1>2, <1>3, CallAdded
<1>5. rows' \in Seq(Entries) /\ Matching(rows', query)
  BY <1>0, NoRowsMatch, EmptySeq
<1>6. hlSteps' \in Nat
  BY StepTaken DEF Clear
<1> QED
  BY <1>0, <1>4, <1>5, <1>6 DEF HistInv, HistTypes

LEMMA HistNextInv == HistInv /\ [HistoryNext]_historyVars => HistInv'
<1> SUFFICES ASSUME HistInv, [HistoryNext]_historyVars PROVE HistInv'
  OBVIOUS
<1>1. CASE HistoryNext
  BY <1>1, VisitInv, ToolDeleteInv, ToolClearInv, MainAnswersInv, LoadMoreInv, ReceiveInv,
     ClearInv, SearchInv, DeleteRowInv DEF HistoryNext
<1>2. CASE UNCHANGED historyVars
  BY <1>2 DEF HistInv, HistTypes, historyVars
<1> QED
  BY <1>1, <1>2

(* The list of HistorySection.tsx, whatever is typed, scrolled, deleted and  *)
(* visited while pages are under way: what it shows answers the query in the *)
(* search field, and "loading" means that an answer to that query is coming. *)
THEOREM ListAnswersQueryAlways == HistorySpec => []ListAnswersQuery
<1>1. HistoryInit => HistInv
  BY HistInitInv
<1>2. HistInv /\ [HistoryNext]_historyVars => HistInv'
  BY HistNextInv
<1>3. HistInv => ListAnswersQuery
  BY DEF HistInv, ListAnswersQuery, Matching, Pending, PageWanted
<1> QED
  BY <1>1, <1>2, <1>3, PTL DEF HistorySpec

-----------------------------------------------------------------------------
(* Downloads.                                                                *)
RecordStates == Terminal \cup {"progressing"}

(* The lists hold downloads that were started, none twice, and what ended is *)
(* under way no more and in the state it ended in.                           *)
DlTypes ==
  /\ next \in Nat \ {0} /\ next <= Downloads + 1
  /\ liveItems \subseteq 1..next - 1 /\ state \in [Ids -> RecordStates]
  /\ records \in Seq(1..next - 1) /\ persisted \in Seq(1..next - 1)
  /\ Once(records) /\ Once(persisted)
DlLists ==
  /\ ended = persisted
  /\ file = Rows(persisted, state) /\ panelList = Rows(records, state)
Settled(kept, s) == \A id \in Elems(kept) : id \notin liveItems /\ s[id] \in Terminal
Accounted == Elems(records) \subseteq liveItems \cup Elems(persisted)
DlInv == DlTypes /\ DlLists /\ Settled(persisted, state) /\ Accounted

LEMMA StartedIds ==
  ASSUME DlTypes
  PROVE  /\ 1..next - 1 \subseteq Ids /\ (next <= Downloads => next \in Ids)
         /\ 1..next - 1 \subseteq 1..(next + 1) - 1 /\ next \in 1..(next + 1) - 1
         /\ next \notin 1..next - 1
  BY DownloadsAssumption DEF DlTypes, Ids

LEMMA SeqWider ==
  ASSUME NEW S, NEW T, S \subseteq T, NEW s \in Seq(S) PROVE s \in Seq(T)
<1>1. s \in [1..Len(s) -> T] /\ Len(s) \in Nat
  BY LenProperties
<1> QED
  BY <1>1, SeqDef

LEMMA ElemsTyped == ASSUME NEW S, NEW s \in Seq(S) PROVE Elems(s) \subseteq S
  BY LenProperties DEF Elems

LEMMA NoneOnce == Once(<<>>) /\ Elems(<<>>) = {} /\ \A s : Rows(<<>>, s) = <<>>
<1>1. DOMAIN <<>> = {}
  OBVIOUS
<1>2. \A s : Rows(<<>>, s) = <<>>
  BY <1>1 DEF Rows
<1> QED
  BY <1>1, <1>2 DEF Once, Elems

(* A record that changes is not on a list that does not hold it.             *)
LEMMA RowsKept ==
  ASSUME NEW s, NEW t, NEW list, \A x \in Elems(list) : t[x] = s[x]
  PROVE  Rows(list, t) = Rows(list, s)
<1>1. \A i \in DOMAIN list : t[list[i]] = s[list[i]]
  BY DEF Elems
<1> QED
  BY <1>1, Zenon DEF Rows

LEMMA BackwardsOf ==
  ASSUME NEW S, NEW s \in Seq(S)
  PROVE  /\ Backwards(s) \in Seq(S) /\ Elems(Backwards(s)) = Elems(s)
         /\ Once(s) => Once(Backwards(s))
<1>1. PICK n \in Nat : n = Len(s) /\ DOMAIN s = 1..n /\ \A i \in 1..n : s[i] \in S
  BY LenProperties
<1>2. PICK b : b = [i \in 1..n |-> s[n + 1 - i]]
  OBVIOUS
<1>3. b = Backwards(s)
  BY <1>1, <1>2 DEF Backwards
<1>4. \A i \in 1..n : n + 1 - i \in 1..n /\ n + 1 - (n + 1 - i) = i
  OBVIOUS
<1>5. b \in Seq(S)
  <2>1. b \in [1..n -> S]
    BY <1>1, <1>2, <1>4
  <2> QED
    BY <2>1, SeqDef
<1>6. Elems(b) = Elems(s)
  <2>1. Elems(b) \subseteq Elems(s)
    BY <1>1, <1>2, <1>4 DEF Elems
  <2>2. ASSUME NEW i \in 1..n PROVE s[i] \in Elems(b)
    <3>1. n + 1 - i \in DOMAIN b /\ b[n + 1 - i] = s[i]
      BY <1>2, <1>4
    <3> QED
      BY <3>1 DEF Elems
  <2>3. Elems(s) \subseteq Elems(b)
    BY <1>1, <2>2 DEF Elems
  <2> QED
    BY <2>1, <2>3
<1>7. Once(s) => Once(b)
  <2>1. ASSUME Once(s), NEW i \in 1..n, NEW j \in 1..n, b[i] = b[j] PROVE i = j
    <3>1. n + 1 - i = n + 1 - j
      BY <1>1, <1>2, <1>4, <2>1 DEF Once
    <3> QED
      BY <3>1
  <2>2. DOMAIN b = 1..n
    BY <1>2
  <2> QED
    BY <2>1, <2>2 DEF Once
<1> QED
  BY <1>3, <1>5, <1>6, <1>7

-----------------------------------------------------------------------------
(* The actions.                                                              *)
LEMMA DlInitInv == DownloadsInit => DlInv
<1> SUFFICES ASSUME DownloadsInit PROVE DlInv
  OBVIOUS
<1>1. PICK none : none = <<>>
  OBVIOUS
<1>2. \A S : none \in Seq(S)
  BY <1>1, EmptySeq
<1>3. Once(none) /\ Elems(none) = {} /\ \A s : Rows(none, s) = none
  BY <1>1, NoneOnce
<1>4. /\ next = 1 /\ liveItems = {} /\ state = [id \in Ids |-> "progressing"]
      /\ records = none /\ persisted = none /\ file = none /\ panelList = none
      /\ ended = none
  BY <1>1 DEF DownloadsInit
<1>5. state \in [Ids -> RecordStates]
  BY <1>4 DEF RecordStates
<1>6. DlTypes
  BY <1>2, <1>3, <1>4, <1>5, DownloadsAssumption DEF DlTypes
<1>7. DlLists /\ Settled(persisted, state) /\ Accounted
  BY <1>3, <1>4 DEF DlLists, Settled, Accounted
<1> QED
  BY <1>6, <1>7 DEF DlInv

(* A new download: the next id, at the head of the list.                     *)
LEMMA NewRecord ==
  ASSUME DlInv, next <= Downloads, next' = next + 1,
         InFrontOf(records', records, next),
         NEW s \in RecordStates, state' = [state EXCEPT ![next] = s]
  PROVE  /\ next' \in Nat \ {0} /\ next' <= Downloads + 1
         /\ state' \in [Ids -> RecordStates] /\ state'[next] = s
         /\ records' \in Seq(1..next' - 1) /\ Once(records')
         /\ Elems(records') = Elems(records) \cup {next}
         /\ persisted \in Seq(1..next' - 1) /\ next \in 1..next' - 1
         /\ next \notin Elems(persisted) /\ next \notin liveItems
         /\ \A id \in 1..next - 1 : state'[id] = state[id]
         /\ Rows(persisted, state') = Rows(persisted, state)
<1>0. /\ next \in Nat \ {0} /\ liveItems \subseteq 1..next - 1
      /\ state \in [Ids -> RecordStates] /\ records \in Seq(1..next - 1)
      /\ persisted \in Seq(1..next - 1) /\ Once(records)
  BY DEF DlInv, DlTypes
<1>1. /\ 1..next - 1 \subseteq 1..next' - 1 /\ next \in 1..next' - 1 /\ next \in Ids
      /\ next \notin 1..next - 1
  <2>1. DlTypes
    BY DEF DlInv
  <2>2. next \in Ids
    BY <2>1, StartedIds
  <2> QED
    BY <1>0, <2>2
<1>2. next' \in Nat \ {0} /\ next' <= Downloads + 1
  BY <1>0, DownloadsAssumption
<1>3. state' \in [Ids -> RecordStates] /\ state'[next] = s
      /\ \A id \in 1..next - 1 : state'[id] = state[id]
  BY <1>0, <1>1
<1>4. records \in Seq(1..next' - 1) /\ persisted \in Seq(1..next' - 1)
  BY <1>0, <1>1, SeqWider
<1>5. next \notin Elems(records) /\ next \notin Elems(persisted)
  BY <1>0, <1>1, ElemsTyped
<1>6. records' \in Seq(1..next' - 1) /\ Elems(records') = Elems(records) \cup {next}
      /\ Once(records')
  <2>2. PICK S : S = 1..next' - 1
    OBVIOUS
  <2>3. next \in S /\ records \in Seq(S)
    BY <1>1, <1>4, <2>2
  <2>4. records' \in Seq(S) /\ Elems(records') = Elems(records) \cup {next} /\ Once(records')
    BY <1>0, <1>5, <2>3, InFrontElems
  <2> QED
    BY <2>2, <2>4
<1>7. Rows(persisted, state') = Rows(persisted, state)
  <2>1. \A x \in Elems(persisted) : state'[x] = state[x]
    BY <1>0, <1>3, ElemsTyped
  <2> QED
    BY <2>1, RowsKept
<1> QED
  BY <1>0, <1>1, <1>2, <1>3, <1>4, <1>5, <1>6, <1>7

LEMMA TrackInv == ASSUME DlInv, TrackDownload PROVE DlInv'
<1>0. /\ next' = next + 1 /\ next <= Downloads /\ liveItems' = liveItems \cup {next}
      /\ state' = [state EXCEPT ![next] = "progressing"]
      /\ records' = <<next>> \o records /\ panelList' = Rows(records', state')
      /\ UNCHANGED persisted /\ UNCHANGED file /\ UNCHANGED ended
  BY DEF TrackDownload, Broadcast
<1>1. /\ next' \in Nat \ {0} /\ next' <= Downloads + 1
      /\ state' \in [Ids -> RecordStates]
      /\ records' \in Seq(1..next' - 1) /\ Once(records')
      /\ Elems(records') = Elems(records) \cup {next}
      /\ persisted \in Seq(1..next' - 1) /\ next \in 1..next' - 1
      /\ next \notin Elems(persisted)
      /\ \A id \in 1..next - 1 : state'[id] = state[id]
      /\ Rows(persisted, state') = Rows(persisted, state)
  <2>1. "progressing" \in RecordStates
    BY DEF RecordStates
  <2> QED
    BY <1>0, <2>1, NewRecord DEF InFrontOf
<1>2. DlTypes'
  <2>1. liveItems' \subseteq 1..next' - 1
    BY <1>0, <1>1, StartedIds DEF DlInv, DlTypes
  <2> QED
    BY <1>0, <1>1, <2>1 DEF DlInv, DlTypes
<1>3. DlLists'
  BY <1>0, <1>1 DEF DlInv, DlLists
<1>4. Settled(persisted, state)'
  <2>1. Elems(persisted) \subseteq 1..next - 1
    BY ElemsTyped DEF DlInv, DlTypes
  <2> QED
    BY <1>0, <1>1, <2>1 DEF DlInv, Settled
<1>5. Accounted'
  BY <1>0, <1>1 DEF DlInv, Accounted
<1> QED
  BY <1>2, <1>3, <1>4, <1>5 DEF DlInv

LEMMA SaveImageInv == ASSUME DlInv, SaveImageToDownloads PROVE DlInv'
<1>0. /\ next' = next + 1 /\ next <= Downloads /\ UNCHANGED liveItems
      /\ state' = [state EXCEPT ![next] = "completed"]
      /\ records' = <<next>> \o records /\ panelList' = Rows(records', state')
      /\ persisted' = Append(persisted, next) /\ ended' = Append(ended, next)
      /\ file' = Rows(persisted', state')
  BY DEF SaveImageToDownloads, Broadcast, Persist, AtEnd
<1>1. /\ next' \in Nat \ {0} /\ next' <= Downloads + 1
      /\ state' \in [Ids -> RecordStates] /\ state'[next] = "completed"
      /\ records' \in Seq(1..next' - 1) /\ Once(records')
      /\ Elems(records') = Elems(records) \cup {next}
      /\ persisted \in Seq(1..next' - 1) /\ next \in 1..next' - 1
      /\ next \notin Elems(persisted) /\ next \notin liveItems
      /\ \A id \in 1..next - 1 : state'[id] = state[id]
  <2>1. "completed" \in RecordStates
    BY DEF RecordStates, Terminal
  <2> QED
    BY <1>0, <2>1, NewRecord DEF InFrontOf
<1>2. persisted' \in Seq(1..next' - 1) /\ Once(persisted')
      /\ Elems(persisted') = Elems(persisted) \cup {next}
  <2>1. Once(persisted)
    BY DEF DlInv, DlTypes
  <2>2. Behind(persisted', persisted, next)
    BY <1>0 DEF Behind
  <2>3. PICK S : S = 1..next' - 1
    OBVIOUS
  <2>4. next \in S /\ persisted \in Seq(S)
    BY <1>1, <2>3
  <2>5. persisted' \in Seq(S) /\ Elems(persisted') = Elems(persisted) \cup {next}
        /\ Once(persisted')
    BY <1>1, <2>1, <2>2, <2>4, BehindElems
  <2> QED
    BY <2>3, <2>5
<1>3. DlTypes'
  <2>1. liveItems' \subseteq 1..next' - 1
    BY <1>0, <1>1, StartedIds DEF DlInv, DlTypes
  <2> QED
    BY <1>0, <1>1, <1>2, <2>1 DEF DlInv, DlTypes
<1>4. DlLists'
  BY <1>0 DEF DlInv, DlLists
<1>5. Settled(persisted, state)'
  <2>1. Elems(persisted) \subseteq 1..next - 1
    BY ElemsTyped DEF DlInv, DlTypes
  <2> QED
    BY <1>0, <1>1, <1>2, <2>1 DEF DlInv, Settled, Terminal
<1>6. Accounted'
  BY <1>0, <1>1, <1>2 DEF DlInv, Accounted
<1> QED
  BY <1>3, <1>4, <1>5, <1>6 DEF DlInv

LEMMA UpdatedInv == ASSUME DlInv, NEW id \in Ids, Updated(id) PROVE DlInv'
<1>0. PICK s \in {"progressing", "interrupted"} :
        /\ state' = [state EXCEPT ![id] = s] /\ id \in liveItems
        /\ UNCHANGED next /\ UNCHANGED liveItems /\ UNCHANGED records
        /\ UNCHANGED persisted /\ UNCHANGED file /\ UNCHANGED ended
        /\ panelList' = Rows(records', state')
  BY DEF Updated, Broadcast
<1>1. state \in [Ids -> RecordStates] /\ s \in RecordStates /\ id \notin Elems(persisted)
  BY <1>0 DEF DlInv, DlTypes, RecordStates, Terminal, Settled
<1>2. state' \in [Ids -> RecordStates] /\ \A x \in Ids : x # id => state'[x] = state[x]
  BY <1>0, <1>1
<1>3. Rows(persisted, state') = Rows(persisted, state)
  <2>1. persisted \in Seq(1..next - 1) /\ 1..next - 1 \subseteq Ids
    BY StartedIds DEF DlInv, DlTypes
  <2>2. Elems(persisted) \subseteq Ids
    BY <2>1, ElemsTyped
  <2>3. \A x \in Elems(persisted) : state'[x] = state[x]
    BY <1>1, <1>2, <2>2
  <2> QED
    BY <2>3, RowsKept
<1>4. DlTypes'
  BY <1>0, <1>2 DEF DlInv, DlTypes
<1>5. DlLists'
  BY <1>0, <1>3 DEF DlInv, DlLists
<1>6. Settled(persisted, state)'
  <2>1. Elems(persisted) \subseteq Ids
    <3>1. DlTypes /\ persisted \in Seq(1..next - 1)
      BY DEF DlInv, DlTypes
    <3>2. 1..next - 1 \subseteq Ids /\ Elems(persisted) \subseteq 1..next - 1
      BY <3>1, StartedIds, ElemsTyped
    <3> QED
      BY <3>2
  <2> QED
    BY <1>0, <1>1, <1>2, <2>1 DEF DlInv, Settled
<1>7. Accounted'
  BY <1>0 DEF DlInv, Accounted
<1> QED
  BY <1>4, <1>5, <1>6, <1>7 DEF DlInv

LEMMA DoneInv == ASSUME DlInv, NEW x \in Ids, NEW s \in Terminal, ItemDone(x, s) PROVE DlInv'
<1>0. /\ x \in liveItems /\ state' = [state EXCEPT ![x] = s]
      /\ liveItems' = liveItems \ {x}
      /\ persisted' = Append(persisted, x) /\ ended' = Append(ended, x)
      /\ UNCHANGED next /\ UNCHANGED records
      /\ file' = Rows(persisted', state') /\ panelList' = Rows(records', state')
  BY DEF ItemDone, Persist, Broadcast, AtEnd
<1>1. state \in [Ids -> RecordStates] /\ s \in RecordStates /\ x \notin Elems(persisted)
      /\ x \in 1..next - 1 /\ persisted \in Seq(1..next - 1) /\ Once(persisted)
  BY <1>0 DEF DlInv, DlTypes, RecordStates, Settled
<1>2. state' \in [Ids -> RecordStates] /\ \A y \in Ids : y # x => state'[y] = state[y]
      /\ state'[x] = s
  BY <1>0, <1>1
<1>3. persisted' \in Seq(1..next - 1) /\ Once(persisted')
      /\ Elems(persisted') = Elems(persisted) \cup {x}
  <2>1. Behind(persisted', persisted, x)
    BY <1>0 DEF Behind
  <2>2. PICK S : S = 1..next - 1
    OBVIOUS
  <2>3. x \in S /\ persisted \in Seq(S)
    BY <1>1, <2>2
  <2>4. persisted' \in Seq(S) /\ Elems(persisted') = Elems(persisted) \cup {x}
        /\ Once(persisted')
    BY <1>1, <2>1, <2>3, BehindElems
  <2> QED
    BY <2>2, <2>4
<1>4. DlTypes'
  BY <1>0, <1>2, <1>3 DEF DlInv, DlTypes
<1>5. DlLists'
  BY <1>0 DEF DlInv, DlLists
<1>6. Settled(persisted, state)'
  <2>1. Elems(persisted) \subseteq Ids
    <3>1. DlTypes /\ persisted \in Seq(1..next - 1)
      BY DEF DlInv, DlTypes
    <3>2. 1..next - 1 \subseteq Ids /\ Elems(persisted) \subseteq 1..next - 1
      BY <3>1, StartedIds, ElemsTyped
    <3> QED
      BY <3>2
  <2> QED
    BY <1>0, <1>1, <1>2, <1>3, <2>1 DEF DlInv, Settled
<1>7. Accounted'
  BY <1>0, <1>3 DEF DlInv, Accounted
<1> QED
  BY <1>4, <1>5, <1>6, <1>7 DEF DlInv

LEMMA CancelInv == ASSUME DlInv, NEW id \in Ids, CancelDownload(id) PROVE DlInv'
<1>1. "cancelled" \in Terminal /\ ItemDone(id, "cancelled")
  BY DEF CancelDownload, Terminal
<1> QED
  BY <1>1, DoneInv

LEMMA ClearFinishedInv == ASSUME DlInv, ClearFinished PROVE DlInv'
<1>0. /\ persisted' = <<>> /\ records' = Filtered(records, Progressing) /\ ended' = <<>>
      /\ UNCHANGED next /\ UNCHANGED liveItems /\ UNCHANGED state
      /\ file' = Rows(persisted', state') /\ panelList' = Rows(records', state')
  BY DEF ClearFinished, Persist, Broadcast
<1>1. records \in Seq(1..next - 1) /\ Once(records)
  BY DEF DlInv, DlTypes
<1>2. /\ Filtered(records, Progressing) \in Seq(1..next - 1)
      /\ Once(Filtered(records, Progressing))
      /\ Elems(Filtered(records, Progressing)) = Elems(records) \cap Progressing
  BY <1>1, FilterPicks, FilterSelects
<1>3. Once(persisted') /\ Elems(persisted') = {} /\ persisted' \in Seq(1..next - 1)
  BY <1>0, NoneOnce, EmptySeq
<1>4. DlTypes'
  BY <1>0, <1>2, <1>3 DEF DlInv, DlTypes
<1>5. DlLists'
  BY <1>0 DEF DlLists
<1>6. Settled(persisted, state)'
  BY <1>3 DEF Settled
<1>7. Accounted'
  <2>1. ASSUME NEW id \in Elems(records), id \in Progressing PROVE id \in liveItems
    BY <2>1 DEF DlInv, Accounted, Settled, Progressing, Terminal
  <2> QED
    BY <1>0, <1>2, <2>1 DEF Accounted
<1> QED
  BY <1>4, <1>5, <1>6, <1>7 DEF DlInv

LEMMA RestartInv == ASSUME DlInv, Restart PROVE DlInv'
<1>0. /\ liveItems' = {} /\ persisted' = [i \in DOMAIN file |-> file[i].id]
      /\ state' = [id \in Ids |->
           IF \E i \in DOMAIN file : file[i].id = id
           THEN file[CHOOSE i \in DOMAIN file : file[i].id = id].state ELSE state[id]]
      /\ records' = Backwards(persisted')
      /\ panelList' = Rows(records', state')
      /\ UNCHANGED next /\ UNCHANGED file /\ UNCHANGED ended
  BY DEF Restart, Launch, Broadcast
<1>1. persisted \in Seq(1..next - 1) /\ Once(persisted) /\ state \in [Ids -> RecordStates]
  BY DEF DlInv, DlTypes
<1>2. /\ DOMAIN file = DOMAIN persisted
      /\ \A i \in DOMAIN file : file[i].id = persisted[i] /\ file[i].state = state[persisted[i]]
  BY DEF DlInv, DlLists, Rows
<1>3. persisted' = persisted
  <2>1. persisted = [i \in DOMAIN persisted |-> persisted[i]]
    BY <1>1, LenProperties
  <2> QED
    BY <1>0, <1>2, <2>1
<1>4. state' = state
  <2>1. ASSUME NEW id \in Ids, \E i \in DOMAIN file : file[i].id = id
        PROVE  file[CHOOSE i \in DOMAIN file : file[i].id = id].state = state[id]
    <3>1. PICK i : i = CHOOSE j \in DOMAIN file : file[j].id = id
      OBVIOUS
    <3>2. i \in DOMAIN file /\ file[i].id = id
      BY <2>1, <3>1
    <3>3. file[i].state = state[id]
      BY <1>2, <3>2
    <3> QED
      BY <3>1, <3>3
  <2>2. \A id \in Ids : state'[id] = state[id]
    BY <1>0, <2>1
  <2>3. DOMAIN state' = Ids /\ state' = [id \in Ids |-> state'[id]]
    BY <1>0
  <2> QED
    BY <1>1, <2>2, <2>3
<1>5. records' \in Seq(1..next - 1) /\ Once(records') /\ Elems(records') = Elems(persisted)
  BY <1>0, <1>1, <1>3, BackwardsOf
<1>6. DlTypes'
  BY <1>0, <1>1, <1>3, <1>4, <1>5 DEF DlInv, DlTypes
<1>7. DlLists'
  BY <1>0, <1>3, <1>4 DEF DlInv, DlLists
<1>8. Settled(persisted, state)'
  BY <1>0, <1>3, <1>4 DEF DlInv, Settled
<1>9. Accounted'
  BY <1>3, <1>5 DEF Accounted
<1> QED
  BY <1>6, <1>7, <1>8, <1>9 DEF DlInv

\* A file that does not parse: the store forgets what ended.
LEMMA RestartUnreadableInv == ASSUME DlInv, RestartUnreadable PROVE DlInv'
<1>1. /\ liveItems' = {} /\ persisted' = <<>> /\ file' = <<>> /\ ended' = <<>>
      /\ records' = Backwards(<<>>) /\ panelList' = Rows(records', state')
      /\ UNCHANGED <<next, state>>
  BY DEF RestartUnreadable, Launch, Broadcast
<1>2. <<>> \in Seq(1..next - 1) /\ Once(<<>>) /\ Elems(<<>>) = {} /\ \A s : Rows(<<>>, s) = <<>>
  BY NoneOnce
<1>3. records' \in Seq(1..next - 1) /\ Once(records') /\ Elems(records') = {}
  BY <1>1, <1>2, BackwardsOf
<1>4. DlTypes'
  BY <1>1, <1>2, <1>3 DEF DlInv, DlTypes
<1>5. DlLists'
  BY <1>1, <1>2 DEF DlInv, DlLists
<1>6. Settled(persisted, state)'
  BY <1>1, <1>2 DEF Settled
<1>7. Accounted'
  BY <1>1, <1>2, <1>3 DEF Accounted
<1> QED
  BY <1>4, <1>5, <1>6, <1>7 DEF DlInv

LEMMA DlNextInv == DlInv /\ [DownloadsNext]_dlVars => DlInv'
<1> SUFFICES ASSUME DlInv, [DownloadsNext]_dlVars PROVE DlInv'
  OBVIOUS
<1>1. CASE DownloadsNext
  BY <1>1, TrackInv, SaveImageInv, ClearFinishedInv, RestartInv, RestartUnreadableInv,
     UpdatedInv, CancelInv, DoneInv DEF DownloadsNext
<1>2. CASE UNCHANGED dlVars
  BY <1>2 DEF DlInv, DlTypes, DlLists, Settled, Accounted, dlVars
<1> QED
  BY <1>1, <1>2

(* For any number of downloads, through restarts and clearings: the file     *)
(* holds each download that ended, once, in the order they ended and as they *)
(* ended, and the panel lists each download that is under way or known once, *)
(* as it is now, though a record is shared with the live list                *)
(* (downloadStore.ts).                                                       *)
THEOREM DownloadsKeptAlways == DownloadsSpec => []DownloadsKept
<1>1. DownloadsInit => DlInv
  BY DlInitInv
<1>2. DlInv /\ [DownloadsNext]_dlVars => DlInv'
  BY DlNextInv
<1>3. DlInv => DownloadsKept
  <2> SUFFICES ASSUME DlInv PROVE DownloadsKept
    OBVIOUS
  <2>1. file = Rows(ended, state) /\ panelList = Rows(records, state) /\ ended = persisted
    BY DEF DlInv, DlLists
  <2>2. \A i \in DOMAIN file : file[i].state \in Terminal
    BY <2>1 DEF DlInv, Settled, Rows, Elems
  <2>3. \A i, j \in DOMAIN records : records[i] = records[j] => i = j
    BY DEF DlInv, DlTypes, Once
  <2>4. \A i \in DOMAIN records :
          records[i] \in liveItems \/ \E j \in DOMAIN ended : ended[j] = records[i]
    BY <2>1 DEF DlInv, Accounted, Elems
  <2> QED
    BY <2>1, <2>2, <2>3, <2>4 DEF DownloadsKept
<1> QED
  BY <1>1, <1>2, <1>3, PTL DEF DownloadsSpec

-----------------------------------------------------------------------------
(* Bookmarks.                                                                *)
Maps(X, R) == UNION {[D -> R] : D \in SUBSET X}
BmIds == Nat \ {0}
MarkRecords == [url : Urls, folder : Nat]
FolderRecords == [name : Names, parent : Nat]
MarkMaps == Maps(BmIds, MarkRecords)
FolderMaps == Maps(BmIds, FolderRecords)
Stores == [marks : MarkMaps, folders : FolderMaps, next : BmIds]

OneMark(s) == \A m, n \in DOMAIN s.marks : s.marks[m].url = s.marks[n].url => m = n
Filed(s) == \A m \in DOMAIN s.marks : s.marks[m].folder \in DOMAIN s.folders \cup {Root}
IdsGiven(s) == DOMAIN s.marks \subseteq 1..s.next - 1 /\ DOMAIN s.folders \subseteq 1..s.next - 1
StoreFits(s) == s \in Stores /\ IdsGiven(s) /\ OneMark(s) /\ Filed(s)

OnlyMarks == {"toggle", "delete", "move"}
OnlyFolders == {"create folder", "rename folder"}
Both == {"delete folder", "import", "add", "clear"}
Changes(do, s, t) ==
  (do \in OnlyMarks => t.folders = s.folders) /\ (do \in OnlyFolders => t.marks = s.marks)

Commands ==
  [do : {"toggle"}, url : Urls] \cup [do : {"delete"}, mark : Nat]
    \cup [do : {"move"}, mark : Nat, folder : Nat]
    \cup [do : {"create folder", "rename folder"}, folder : Nat, name : Names]
    \cup [do : {"delete folder"}, folder : Nat] \cup [do : {"clear"}]
PushMsgs == [what : {"marks"}, marks : MarkMaps] \cup [what : {"folders"}, folders : FolderMaps]

(* What the pushes on their way make of what was shown.                      *)
Carries(p) == IF p.what = "marks" THEN p.marks ELSE p.folders
Arrives(list, what, was, now) ==
  \/ was = now /\ \A n \in DOMAIN list : list[n].what # what
  \/ \E n \in DOMAIN list :
       /\ list[n].what = what /\ Carries(list[n]) = now
       /\ \A k \in DOMAIN list : k > n => list[k].what # what

BmTypes ==
  /\ toStore \in Seq(Commands) /\ toChrome \in Seq(PushMsgs)
  /\ shown \in [marks : MarkMaps, folders : FolderMaps]
  /\ filing \in [mark : Nat, name : Names \cup {"none"}]
BmInv ==
  /\ StoreFits(store) /\ BmTypes
  /\ Arrives(toChrome, "marks", shown.marks, store.marks)
  /\ Arrives(toChrome, "folders", shown.folders, store.folders)

-----------------------------------------------------------------------------
LEMMA MapFacts ==
  ASSUME NEW X, NEW R, NEW f \in Maps(X, R)
  PROVE  /\ DOMAIN f \subseteq X /\ f = [x \in DOMAIN f |-> f[x]]
         /\ \A x \in DOMAIN f : f[x] \in R
<1>1. PICK D \in SUBSET X : f \in [D -> R]
  BY DEF Maps
<1> QED
  BY <1>1

LEMMA MapIs ==
  ASSUME NEW X, NEW R, NEW f, DOMAIN f \subseteq X, f = [x \in DOMAIN f |-> f[x]],
         \A x \in DOMAIN f : f[x] \in R
  PROVE  f \in Maps(X, R)
<1>1. PICK D \in SUBSET X : D = DOMAIN f
  OBVIOUS
<1>2. f \in [D -> R]
  BY <1>1
<1> QED
  BY <1>2 DEF Maps

IsWith(g, f, x, r) ==
  /\ DOMAIN g = DOMAIN f \cup {x} /\ g[x] = r
  /\ \A y \in DOMAIN f : y # x => g[y] = f[y]

LEMMA WithMap ==
  ASSUME NEW X, NEW R, NEW f \in Maps(X, R), NEW x \in X, NEW r \in R
  PROVE  With(f, x, r) \in Maps(X, R) /\ IsWith(With(f, x, r), f, x, r)
<1>1. PICK g : g = With(f, x, r)
  OBVIOUS
<1>2. g = [y \in DOMAIN f \cup {x} |-> IF y = x THEN r ELSE f[y]]
  BY <1>1 DEF With
<1>3. DOMAIN f \subseteq X /\ \A y \in DOMAIN f : f[y] \in R
  BY MapFacts
<1>4. /\ DOMAIN g = DOMAIN f \cup {x} /\ g[x] = r
      /\ \A y \in DOMAIN f : y # x => g[y] = f[y]
  BY <1>2
<1>5. g \in Maps(X, R)
  BY <1>2, <1>3, <1>4, MapIs
<1> QED
  BY <1>1, <1>4, <1>5 DEF IsWith

LEMMA OnlyMap ==
  ASSUME NEW X, NEW R, NEW f \in Maps(X, R), NEW D, D \subseteq DOMAIN f
  PROVE  /\ Only(f, D) \in Maps(X, R) /\ DOMAIN Only(f, D) = D
         /\ \A y \in D : Only(f, D)[y] = f[y]
<1>1. PICK g : g = Only(f, D)
  OBVIOUS
<1>2. g = [y \in D |-> f[y]]
  BY <1>1 DEF Only
<1>3. DOMAIN f \subseteq X /\ \A y \in DOMAIN f : f[y] \in R
  BY MapFacts
<1>4. DOMAIN g = D /\ \A y \in D : g[y] = f[y]
  BY <1>2
<1>5. g \in Maps(X, R)
  BY <1>2, <1>3, <1>4, MapIs
<1> QED
  BY <1>1, <1>4, <1>5

LEMMA NoMap == \A X, R : <<>> \in Maps(X, R) /\ DOMAIN <<>> = {}
<1>1. PICK none : none = <<>>
  OBVIOUS
<1>2. DOMAIN none = {} /\ none = [x \in DOMAIN none |-> none[x]]
  BY <1>1
<1>3. \A X, R : none \in Maps(X, R)
  BY <1>2, MapIs
<1> QED
  BY <1>1, <1>2, <1>3

-----------------------------------------------------------------------------
(* What each operation of the store keeps.                                   *)
(* The three shapes that a store takes on.                                   *)
MoreMarks(s, marks) == [s EXCEPT !.marks = marks, !.next = s.next + 1]
MoreFolders(s, folders) == [s EXCEPT !.folders = folders, !.next = s.next + 1]
Keeping(s, folders, kept) == [s EXCEPT !.folders = folders, !.marks = Only(s.marks, kept)]

LEMMA GrownStore ==
  ASSUME NEW s \in Stores, NEW marks \in MarkMaps, NEW folders \in FolderMaps
  PROVE  /\ MoreMarks(s, marks) \in Stores /\ MoreMarks(s, marks).marks = marks
         /\ MoreMarks(s, marks).folders = s.folders /\ MoreMarks(s, marks).next = s.next + 1
         /\ MoreFolders(s, folders) \in Stores /\ MoreFolders(s, folders).marks = s.marks
         /\ MoreFolders(s, folders).folders = folders
         /\ MoreFolders(s, folders).next = s.next + 1
<1>1. s.next + 1 \in BmIds
  BY DEF Stores, BmIds
<1>2. PICK n \in BmIds : n = s.next + 1
  BY <1>1
<1>3. PICK t : t = [s EXCEPT !.marks = marks, !.next = n]
  OBVIOUS
<1>4. t \in Stores /\ t.marks = marks /\ t.folders = s.folders /\ t.next = n
  BY <1>3 DEF Stores
<1>5. PICK u : u = [s EXCEPT !.folders = folders, !.next = n]
  OBVIOUS
<1>6. u \in Stores /\ u.marks = s.marks /\ u.folders = folders /\ u.next = n
  BY <1>5 DEF Stores
<1>7. t = MoreMarks(s, marks) /\ u = MoreFolders(s, folders)
  BY <1>2, <1>3, <1>5, Zenon DEF MoreMarks, MoreFolders
<1> QED
  BY <1>2, <1>4, <1>6, <1>7

LEMMA AddFits ==
  ASSUME NEW s, StoreFits(s), NEW url \in Urls, NEW folder \in DOMAIN s.folders \cup {Root}
  PROVE  /\ StoreFits(AddBookmark(s, url, folder))
         /\ AddBookmark(s, url, folder).folders = s.folders
<1>0. s \in Stores /\ IdsGiven(s) /\ OneMark(s) /\ Filed(s)
  BY DEF StoreFits
<1>1. CASE MarksOf(s, url) # {}
  BY <1>1 DEF AddBookmark
<1>2. CASE MarksOf(s, url) = {}
  <2>1. PICK r : r = [url |-> url, folder |-> folder]
    OBVIOUS
  <2>2. DOMAIN s.folders \subseteq Nat
    BY <1>0 DEF IdsGiven, Stores, BmIds
  <2>3. r \in MarkRecords /\ r.url = url /\ r.folder = folder
    BY <2>1, <2>2 DEF Root, MarkRecords
  <2>4. s.marks \in MarkMaps /\ s.next \in BmIds
    BY <1>0 DEF Stores
  <2>5. PICK marks \in MarkMaps :
          /\ marks = With(s.marks, s.next, r) /\ DOMAIN marks = DOMAIN s.marks \cup {s.next}
          /\ marks[s.next] = r
          /\ \A m \in DOMAIN s.marks : m # s.next => marks[m] = s.marks[m]
    <3>1. PICK f \in MarkMaps, x \in BmIds : f = s.marks /\ x = s.next
      BY <2>4
    <3>2. PICK marks \in MarkMaps : marks = With(f, x, r) /\ IsWith(marks, f, x, r)
      BY <2>3, <3>1, WithMap DEF MarkMaps
    <3> QED
      BY <3>1, <3>2 DEF IsWith
  <2>6. PICK t : t = AddBookmark(s, url, folder)
    OBVIOUS
  <2>7. t = MoreMarks(s, marks)
    BY <1>2, <2>1, <2>5, <2>6 DEF AddBookmark, MoreMarks
  <2>8. t \in Stores /\ t.marks = marks /\ t.folders = s.folders /\ t.next = s.next + 1
    <3>1. PICK folders \in FolderMaps : folders = s.folders
      BY <1>0 DEF Stores
    <3> QED
      BY <1>0, <2>5, <2>7, <3>1, GrownStore
  <2>9. s.next \notin DOMAIN s.marks
    BY <1>0, <2>4 DEF IdsGiven, BmIds
  <2>10. IdsGiven(t)
    BY <1>0, <2>4, <2>5, <2>8 DEF IdsGiven, BmIds
  <2>11. OneMark(t)
    <3>1. \A m \in DOMAIN s.marks : s.marks[m].url # url
      BY <1>2 DEF MarksOf
    <3>2. \A m \in DOMAIN t.marks : m = s.next \/ (m \in DOMAIN s.marks /\ t.marks[m] = s.marks[m])
      BY <2>5, <2>8, <2>9
    <3> QED
      BY <1>0, <2>3, <2>5, <2>8, <3>1, <3>2 DEF OneMark
  <2>12. Filed(t)
    BY <1>0, <2>3, <2>5, <2>8, <2>9 DEF Filed
  <2> QED
    BY <2>6, <2>8, <2>10, <2>11, <2>12 DEF StoreFits
<1> QED
  BY <1>1, <1>2

LEMMA KeptFits ==
  ASSUME NEW s, StoreFits(s), NEW kept, kept \subseteq DOMAIN s.marks,
         NEW folders \in FolderMaps, DOMAIN folders \subseteq DOMAIN s.folders,
         \A m \in kept : s.marks[m].folder \in DOMAIN folders \cup {Root},
         NEW t, t = Keeping(s, folders, kept)
  PROVE  StoreFits(t) /\ t.folders = folders
<1>0. s \in Stores /\ IdsGiven(s) /\ OneMark(s) /\ s.marks \in MarkMaps
  BY DEF StoreFits, Stores
<1>1. PICK marks \in MarkMaps : /\ marks = Only(s.marks, kept) /\ DOMAIN marks = kept
                                /\ \A m \in kept : marks[m] = s.marks[m]
  BY <1>0, OnlyMap DEF MarkMaps
<1>2. t \in Stores /\ t.marks = marks /\ t.folders = folders /\ t.next = s.next
  BY <1>0, <1>1 DEF Stores, Keeping
<1>3. IdsGiven(t) /\ OneMark(t) /\ Filed(t)
  BY <1>0, <1>1, <1>2 DEF IdsGiven, OneMark, Filed
<1> QED
  BY <1>2, <1>3 DEF StoreFits

LEMMA RemoveFits ==
  ASSUME NEW s, StoreFits(s), NEW gone
  PROVE  StoreFits(RemoveBookmarks(s, gone)) /\ RemoveBookmarks(s, gone).folders = s.folders
<1>1. PICK kept : kept = DOMAIN s.marks \ gone
  OBVIOUS
<1>2. PICK t : t = RemoveBookmarks(s, gone)
  OBVIOUS
<1>3. s \in Stores /\ s.folders \in FolderMaps
  BY DEF StoreFits, Stores
<1>4. PICK folders \in FolderMaps : folders = s.folders
  BY <1>3
<1>5. t = Keeping(s, folders, kept)
  BY <1>1, <1>2, <1>3, <1>4 DEF RemoveBookmarks, Stores, Keeping
<1>6. kept \subseteq DOMAIN s.marks /\ DOMAIN folders \subseteq DOMAIN s.folders
      /\ \A m \in kept : s.marks[m].folder \in DOMAIN folders \cup {Root}
  BY <1>1, <1>4 DEF StoreFits, Filed
<1>7. StoreFits(t) /\ t.folders = folders
  BY <1>5, <1>6, KeptFits
<1> QED
  BY <1>2, <1>4, <1>7

LEMMA DeleteFolderFits ==
  ASSUME NEW s, StoreFits(s), NEW top
  PROVE  StoreFits(DeleteFolder(s, top))
<1>1. PICK gone : gone = Subtree(s, top) \cup {top}
  OBVIOUS
<1>2. PICK kept : kept = {m \in DOMAIN s.marks : s.marks[m].folder \notin gone}
  OBVIOUS
<1>3. PICK t : t = DeleteFolder(s, top)
  OBVIOUS
<1>4. s \in Stores /\ s.folders \in FolderMaps
  BY DEF StoreFits, Stores
<1>5. PICK left : left = DOMAIN s.folders \ gone
  OBVIOUS
<1>6. PICK folders \in FolderMaps : folders = Only(s.folders, left) /\ DOMAIN folders = left
  BY <1>4, <1>5, OnlyMap DEF FolderMaps
<1>7. t = Keeping(s, folders, kept)
  BY <1>1, <1>2, <1>3, <1>5, <1>6 DEF DeleteFolder, Keeping
<1>8. /\ kept \subseteq DOMAIN s.marks /\ DOMAIN folders \subseteq DOMAIN s.folders
      /\ \A m \in kept : s.marks[m].folder \in DOMAIN folders \cup {Root}
  BY <1>2, <1>5, <1>6 DEF StoreFits, Filed
<1> QED
  BY <1>3, <1>7, <1>8, KeptFits

LEMMA EmptyFits == ASSUME NEW s, StoreFits(s) PROVE StoreFits(Empty(s))
<1>1. PICK none : none = <<>>
  OBVIOUS
<1>2. none \in MarkMaps /\ none \in FolderMaps /\ DOMAIN none = {}
  BY <1>1, NoMap DEF MarkMaps, FolderMaps
<1>3. PICK t : t = Empty(s)
  OBVIOUS
<1>4. t \in Stores /\ t.marks = none /\ t.folders = none
  BY <1>1, <1>2, <1>3 DEF Empty, StoreFits, Stores
<1>5. IdsGiven(t) /\ OneMark(t) /\ Filed(t)
  BY <1>2, <1>4 DEF IdsGiven, OneMark, Filed
<1> QED
  BY <1>3, <1>4, <1>5 DEF StoreFits

LEMMA MoveFits ==
  ASSUME NEW s, StoreFits(s), NEW m, NEW folder
  PROVE  StoreFits(MoveBookmark(s, m, folder)) /\ MoveBookmark(s, m, folder).folders = s.folders
<1>0. s \in Stores /\ IdsGiven(s) /\ OneMark(s) /\ Filed(s) /\ s.marks \in MarkMaps
  BY DEF StoreFits, Stores
<1>1. CASE m \in DOMAIN s.marks /\ folder \in DOMAIN s.folders \cup {Root}
  <2>1. s.marks[m] \in MarkRecords /\ folder \in Nat
    <3>1. s.marks[m] \in MarkRecords
      BY <1>0, <1>1, MapFacts DEF MarkMaps
    <3>2. folder \in Nat
      BY <1>0, <1>1 DEF IdsGiven, Root, Stores, BmIds
    <3> QED
      BY <3>1, <3>2
  <2>2. PICK r \in MarkRecords :
          /\ r = [s.marks[m] EXCEPT !.folder = folder]
          /\ r.url = s.marks[m].url /\ r.folder = folder
    <3>1. PICK old \in MarkRecords : old = s.marks[m]
      BY <2>1
    <3>2. PICK r : r = [old EXCEPT !.folder = folder]
      OBVIOUS
    <3>3. r \in MarkRecords /\ r.url = old.url /\ r.folder = folder
      BY <2>1, <3>2 DEF MarkRecords
    <3> QED
      BY <3>1, <3>2, <3>3
  <2>3. PICK marks : marks = [s.marks EXCEPT ![m] = r]
    OBVIOUS
  <2>4. /\ DOMAIN marks = DOMAIN s.marks /\ marks[m] = r
        /\ \A n \in DOMAIN s.marks : n # m => marks[n] = s.marks[n]
    BY <1>1, <2>3
  <2>5. marks \in MarkMaps
    <3>1. DOMAIN s.marks \subseteq BmIds
          /\ \A n \in DOMAIN s.marks : s.marks[n] \in MarkRecords
      BY <1>0, MapFacts DEF MarkMaps
    <3>2. marks = [n \in DOMAIN marks |-> marks[n]]
      BY <2>3
    <3> QED
      BY <2>2, <2>4, <3>1, <3>2, MapIs DEF MarkMaps
  <2>6. PICK t : t = MoveBookmark(s, m, folder)
    OBVIOUS
  <2>7. t = [s EXCEPT !.marks = marks]
    BY <1>1, <2>2, <2>3, <2>6 DEF MoveBookmark
  <2>8. t \in Stores /\ t.marks = marks /\ t.folders = s.folders /\ t.next = s.next
    BY <1>0, <2>5, <2>7 DEF Stores
  <2>9. IdsGiven(t)
    BY <1>0, <2>4, <2>8 DEF IdsGiven
  <2>10. OneMark(t)
    <3>1. \A n \in DOMAIN s.marks : t.marks[n].url = s.marks[n].url
      BY <2>2, <2>4, <2>8
    <3> QED
      BY <1>0, <2>4, <2>8, <3>1 DEF OneMark
  <2>11. Filed(t)
    BY <1>0, <1>1, <2>2, <2>4, <2>8 DEF Filed
  <2> QED
    BY <2>6, <2>8, <2>9, <2>10, <2>11 DEF StoreFits
<1>2. CASE ~(m \in DOMAIN s.marks /\ folder \in DOMAIN s.folders \cup {Root})
  BY <1>2 DEF MoveBookmark
<1> QED
  BY <1>1, <1>2

(* A new folder gets the next id.                                            *)
Created(t, s, name, parent) ==
  /\ t.marks = s.marks /\ t.next = s.next + 1
  /\ DOMAIN t.folders = DOMAIN s.folders \cup {s.next}
  /\ t.folders[s.next] = [name |-> name, parent |-> parent]

LEMMA CreateFits ==
  ASSUME NEW s, StoreFits(s), NEW name \in Names, NEW parent \in Nat
  PROVE  /\ StoreFits(CreateFolder(s, name, parent))
         /\ Created(CreateFolder(s, name, parent), s, name, parent)
<1>0. s \in Stores /\ IdsGiven(s) /\ OneMark(s) /\ Filed(s) /\ s.folders \in FolderMaps
      /\ s.next \in BmIds
  BY DEF StoreFits, Stores
<1>1. PICK r \in FolderRecords : r = [name |-> name, parent |-> parent]
  BY DEF FolderRecords
<1>2. PICK folders \in FolderMaps :
        /\ folders = With(s.folders, s.next, r) /\ DOMAIN folders = DOMAIN s.folders \cup {s.next}
        /\ folders[s.next] = r
  <2>1. PICK f \in FolderMaps, x \in BmIds : f = s.folders /\ x = s.next
    BY <1>0
  <2>2. PICK folders \in FolderMaps : folders = With(f, x, r) /\ IsWith(folders, f, x, r)
    BY <1>1, <2>1, WithMap DEF FolderMaps
  <2> QED
    BY <2>1, <2>2 DEF IsWith
<1>3. PICK t : t = CreateFolder(s, name, parent)
  OBVIOUS
<1>4. t = MoreFolders(s, folders)
  BY <1>1, <1>2, <1>3 DEF CreateFolder, MoreFolders
<1>5. t \in Stores /\ t.marks = s.marks /\ t.folders = folders /\ t.next = s.next + 1
  <2>1. PICK marks \in MarkMaps : marks = s.marks
    BY <1>0 DEF Stores
  <2> QED
    BY <1>0, <1>2, <1>4, <2>1, GrownStore
<1>6. IdsGiven(t) /\ OneMark(t) /\ Filed(t)
  BY <1>0, <1>2, <1>5 DEF IdsGiven, OneMark, Filed, BmIds
<1> QED
  BY <1>1, <1>2, <1>3, <1>5, <1>6 DEF StoreFits, Created

LEMMA RenameFits ==
  ASSUME NEW s, StoreFits(s), NEW f, NEW name \in Names
  PROVE  StoreFits(RenameFolder(s, f, name)) /\ RenameFolder(s, f, name).marks = s.marks
<1>0. s \in Stores /\ IdsGiven(s) /\ OneMark(s) /\ Filed(s) /\ s.folders \in FolderMaps
  BY DEF StoreFits, Stores
<1>1. CASE f \in DOMAIN s.folders
  <2>1. s.folders[f] \in FolderRecords
    BY <1>0, <1>1, MapFacts DEF FolderMaps
  <2>2. PICK r \in FolderRecords : r = [s.folders[f] EXCEPT !.name = name]
    BY <2>1 DEF FolderRecords
  <2>3. PICK folders : folders = [s.folders EXCEPT ![f] = r]
    OBVIOUS
  <2>4. /\ DOMAIN folders = DOMAIN s.folders /\ folders[f] = r
        /\ \A g \in DOMAIN s.folders : g # f => folders[g] = s.folders[g]
    BY <1>1, <2>3
  <2>5. folders \in FolderMaps
    <3>1. DOMAIN s.folders \subseteq BmIds
          /\ \A g \in DOMAIN s.folders : s.folders[g] \in FolderRecords
      BY <1>0, MapFacts DEF FolderMaps
    <3>2. folders = [g \in DOMAIN folders |-> folders[g]]
      BY <2>3
    <3> QED
      BY <2>2, <2>4, <3>1, <3>2, MapIs DEF FolderMaps
  <2>6. PICK t : t = RenameFolder(s, f, name)
    OBVIOUS
  <2>7. t = [s EXCEPT !.folders = folders]
    BY <1>1, <2>2, <2>3, <2>6 DEF RenameFolder
  <2>8. t \in Stores /\ t.marks = s.marks /\ t.folders = folders /\ t.next = s.next
    BY <1>0, <2>5, <2>7 DEF Stores
  <2>9. IdsGiven(t) /\ OneMark(t) /\ Filed(t)
    BY <1>0, <2>4, <2>8 DEF IdsGiven, OneMark, Filed
  <2> QED
    BY <2>6, <2>8, <2>9 DEF StoreFits
<1>2. CASE f \notin DOMAIN s.folders
  BY <1>2 DEF RenameFolder
<1> QED
  BY <1>1, <1>2

LEMMA ToggleFits ==
  ASSUME NEW s, StoreFits(s), NEW url \in Urls
  PROVE  StoreFits(ToggleBookmark(s, url)) /\ ToggleBookmark(s, url).folders = s.folders
<1>1. CASE MarksOf(s, url) # {}
  <2>1. ToggleBookmark(s, url) = RemoveBookmarks(s, MarksOf(s, url))
    BY <1>1, Zenon DEF ToggleBookmark
  <2> QED
    BY <2>1, RemoveFits
<1>2. CASE MarksOf(s, url) = {}
  <2>1. ToggleBookmark(s, url) = AddBookmark(s, url, Root)
    BY <1>2, Zenon DEF ToggleBookmark
  <2>2. Root \in DOMAIN s.folders \cup {Root}
    OBVIOUS
  <2> QED
    BY <2>1, <2>2, AddFits
<1> QED
  BY <1>1, <1>2

(* The first folder of a name is a folder of that name.                      *)
LEMMA FirstNamed ==
  ASSUME NEW s, DOMAIN s.folders \subseteq Nat, NEW name, Named(s, name) # {}
  PROVE  FolderNamed(s, name) \in Named(s, name) /\ FolderNamed(s, name) \in Nat
<1>1. Named(s, name) \subseteq Nat
  BY DEF Named
<1>2. \E f \in Named(s, name) : \A g \in Named(s, name) : f <= g
  BY <1>1, LeastOf
<1>3. FolderNamed(s, name) \in Named(s, name)
  BY <1>2, Zenon DEF FolderNamed
<1> QED
  BY <1>1, <1>3

LEMMA FindFits ==
  ASSUME NEW s, StoreFits(s), NEW name \in Names
  PROVE  /\ StoreFits(FindOrCreate(s, name)) /\ FindOrCreate(s, name).marks = s.marks
         /\ FolderNamed(FindOrCreate(s, name), name) \in Nat
<1>1. CASE Named(s, name) # {}
  <2>1. FindOrCreate(s, name) = s
    BY <1>1 DEF FindOrCreate
  <2>2. DOMAIN s.folders \subseteq Nat
    BY DEF StoreFits, IdsGiven, Stores, BmIds
  <2> QED
    BY <1>1, <2>1, <2>2, FirstNamed
<1>2. CASE Named(s, name) = {}
  <2>1. PICK t : t = CreateFolder(s, name, Root)
    OBVIOUS
  <2>2. FindOrCreate(s, name) = t
    BY <1>2, <2>1 DEF FindOrCreate
  <2>3. /\ StoreFits(t) /\ t.marks = s.marks /\ s.next \in DOMAIN t.folders
        /\ t.folders[s.next] = [name |-> name, parent |-> Root]
    <3>1. Root \in Nat
      BY DEF Root
    <3> QED
      BY <2>1, <3>1, CreateFits DEF Created
  <2>4. s.next \in Named(t, name)
    BY <2>3 DEF Named
  <2>5. DOMAIN t.folders \subseteq Nat
    BY <2>3 DEF StoreFits, IdsGiven, Stores, BmIds
  <2>6. FolderNamed(t, name) \in Nat
    BY <2>4, <2>5, FirstNamed
  <2> QED
    BY <2>2, <2>3, <2>6
<1> QED
  BY <1>1, <1>2

(* Every command leaves a store that fits, and pushes what it changed.       *)
LEMMA DoneFits ==
  ASSUME NEW s, StoreFits(s), NEW command \in Commands
  PROVE  StoreFits(Done(command, s)) /\ Changes(command.do, s, Done(command, s))
<1>1. CASE command.do = "toggle"
  <2>1. command.url \in Urls /\ Done(command, s) = ToggleBookmark(s, command.url)
    BY <1>1 DEF Commands, Done
  <2> QED
    BY <1>1, <2>1, ToggleFits DEF Changes, OnlyFolders
<1>2. CASE command.do = "delete"
  <2>1. Done(command, s) = RemoveBookmarks(s, {command.mark})
    BY <1>2 DEF Done
  <2> QED
    BY <1>2, <2>1, RemoveFits DEF Changes, OnlyFolders
<1>3. CASE command.do = "move"
  <2>1. Done(command, s) = MoveBookmark(s, command.mark, command.folder)
    BY <1>3 DEF Done
  <2> QED
    BY <1>3, <2>1, MoveFits DEF Changes, OnlyFolders
<1>4. CASE command.do = "create folder"
  <2>1. command.name \in Names /\ command.folder \in Nat
    BY <1>4 DEF Commands
  <2>2. Done(command, s) = CreateFolder(s, command.name, command.folder)
    BY <1>4 DEF Done
  <2>3. StoreFits(Done(command, s)) /\ Done(command, s).marks = s.marks
    <3>1. PICK t : t = Done(command, s)
      OBVIOUS
    <3>2. PICK name \in Names, parent \in Nat : name = command.name /\ parent = command.folder
      BY <2>1
    <3>3. StoreFits(t) /\ Created(t, s, name, parent)
      BY <2>2, <3>1, <3>2, CreateFits
    <3> QED
      BY <3>1, <3>3 DEF Created
  <2> QED
    BY <1>4, <2>3 DEF Changes, OnlyMarks
<1>5. CASE command.do = "rename folder"
  <2>1. command.name \in Names
    BY <1>5 DEF Commands
  <2>2. Done(command, s) = RenameFolder(s, command.folder, command.name)
    BY <1>5 DEF Done
  <2> QED
    BY <1>5, <2>1, <2>2, RenameFits DEF Changes, OnlyMarks
<1>6. CASE command.do = "delete folder"
  <2>1. Done(command, s) = DeleteFolder(s, command.folder)
    BY <1>6 DEF Done
  <2> QED
    BY <1>6, <2>1, DeleteFolderFits DEF Changes, OnlyMarks, OnlyFolders
<1>7. CASE command.do = "clear"
  <2>1. Done(command, s) = Empty(s)
    BY <1>7 DEF Done
  <2> QED
    BY <1>7, <2>1, EmptyFits DEF Changes, OnlyMarks, OnlyFolders
<1>8. command.do \in {"toggle", "delete", "move", "create folder", "rename folder",
                      "delete folder", "clear"}
  BY DEF Commands
<1> QED
  BY <1>1, <1>2, <1>3, <1>4, <1>5, <1>6, <1>7, <1>8

-----------------------------------------------------------------------------
(* The import: its folders, one by one, then its marks.                      *)
FoldersUnfold(f, s, folders, N) ==
  f = [n \in 0..N |->
         IF n = 0 THEN s
         ELSE CreateFolder(f[n - 1], folders[n].name, Placed(s.next, folders[n].in))]
MarksUnfold(f, s, marks, first, N) ==
  f = [n \in 0..N |->
         IF n = 0 THEN s
         ELSE AddBookmark(f[n - 1], marks[n].url, Placed(first, marks[n].in))]
FolderEntries == [name : Names, in : Nat]
MarkEntries(n) == [url : Urls, in : 0..n]

LEMMA PlacedTyped ==
  ASSUME NEW first \in BmIds, NEW in \in Nat
  PROVE  Placed(first, in) \in Nat
  BY DEF Placed, Root, BmIds

LEMMA FoldersImportedIs ==
  ASSUME NEW s, StoreFits(s), NEW folders \in Seq(FolderEntries)
  PROVE  \E f : /\ FoldersUnfold(f, s, folders, Len(folders))
                /\ FoldersImported(s, folders) = f[Len(folders)]
<1> DEFINE T == {t \in Stores : StoreFits(t)}
<1>1. PICK N \in Nat : N = Len(folders) /\ \A n \in 1..N : folders[n] \in FolderEntries
  BY LenProperties
<1>2. s.next \in BmIds /\ s \in T
  BY DEF StoreFits, Stores
<1>3. \A n \in 1..N : folders[n].name \in Names /\ Placed(s.next, folders[n].in) \in Nat
  BY <1>1, <1>2, PlacedTyped DEF FolderEntries
<1>4. PICK step : step = [p \in (1..N) \X T |->
           CreateFolder(p[2], folders[p[1]].name, Placed(s.next, folders[p[1]].in))]
  OBVIOUS
<1>5. \A n \in 1..N, t \in T :
        step[<<n, t>>] = CreateFolder(t, folders[n].name, Placed(s.next, folders[n].in))
  BY <1>4
<1>6. step \in [(1..N) \X T -> T]
  <2>1. ASSUME NEW p \in (1..N) \X T
        PROVE  CreateFolder(p[2], folders[p[1]].name, Placed(s.next, folders[p[1]].in)) \in T
    <3>1. PICK n \in 1..N, t \in T : n = p[1] /\ t = p[2]
      BY <2>1
    <3>2. StoreFits(CreateFolder(t, folders[n].name, Placed(s.next, folders[n].in)))
      BY <1>3, CreateFits
    <3> QED
      BY <3>1, <3>2 DEF StoreFits
  <2> QED
    BY <1>4, <2>1
<1>7. PICK f \in [0..N -> T] : Loops(f, s, step, N)
  <2> HIDE DEF T
  <2> QED
    BY <1>1, <1>2, <1>6, LoopExists
<1>8. FoldersUnfold(f, s, folders, N)
  <2>1. ASSUME NEW n \in 0..N, n # 0
        PROVE  step[<<n, f[n - 1]>>] =
                 CreateFolder(f[n - 1], folders[n].name, Placed(s.next, folders[n].in))
    <3>1. n \in 1..N /\ n - 1 \in 0..N
      BY <2>1
    <3>2. f[n - 1] \in T
      BY <1>7, <3>1
    <3> QED
      BY <1>5, <3>1, <3>2
  <2>2. f = [n \in 0..N |-> IF n = 0 THEN s ELSE step[<<n, f[n - 1]>>]]
    BY <1>7 DEF Loops
  <2> QED
    BY <2>1, <2>2, Zenon DEF FoldersUnfold
<1>9. PICK g : g = CHOOSE h : FoldersUnfold(h, s, folders, N)
  OBVIOUS
<1>10. FoldersUnfold(g, s, folders, N)
  BY <1>8, <1>9, Zenon
<1>11. FoldersImported(s, folders) = g[N]
  BY <1>1, <1>9, Zenon DEF FoldersImported, FoldersUnfold
<1> QED
  BY <1>1, <1>10, <1>11

LEMMA FoldersImportedFits ==
  ASSUME NEW s, StoreFits(s), NEW folders \in Seq(FolderEntries)
  PROVE  /\ StoreFits(FoldersImported(s, folders))
         /\ s.next..s.next + Len(folders) - 1 \subseteq DOMAIN FoldersImported(s, folders).folders
<1>1. PICK N \in Nat : N = Len(folders) /\ \A n \in 1..N : folders[n] \in FolderEntries
  BY LenProperties
<1>2. PICK f : FoldersUnfold(f, s, folders, N) /\ FoldersImported(s, folders) = f[N]
  BY <1>1, FoldersImportedIs
<1>3. PICK first \in BmIds : first = s.next
  BY DEF StoreFits, Stores
<1>4. \A n \in 0..N : f[n] = IF n = 0 THEN s
         ELSE CreateFolder(f[n - 1], folders[n].name, Placed(first, folders[n].in))
  BY <1>2, <1>3 DEF FoldersUnfold
<1> DEFINE R == {n \in Nat : n \in 0..N =>
                   /\ StoreFits(f[n]) /\ f[n].next = first + n
                   /\ first..first + n - 1 \subseteq DOMAIN f[n].folders}
<1>5. 0 \in R
  <2>1. 0 \in 0..N
    OBVIOUS
  <2>2. f[0] = s
    BY <1>4, <2>1
  <2>3. first..first + 0 - 1 = {}
    BY <1>3 DEF BmIds
  <2>4. f[0].next = first + 0
    BY <1>3, <2>2 DEF BmIds
  <2> QED
    BY <2>2, <2>3, <2>4
<1>6. ASSUME NEW m \in Nat, m \in R PROVE m + 1 \in R
  <2>1. SUFFICES ASSUME m + 1 \in 0..N
                 PROVE  /\ StoreFits(f[m + 1]) /\ f[m + 1].next = first + (m + 1)
                        /\ first..first + (m + 1) - 1 \subseteq DOMAIN f[m + 1].folders
    OBVIOUS
  <2>2. m \in 0..N /\ m + 1 \in 1..N /\ m + 1 # 0 /\ (m + 1) - 1 = m
    BY <2>1
  <2>3. PICK t : t = f[m]
    OBVIOUS
  <2>4. StoreFits(t) /\ t.next = first + m /\ first..first + m - 1 \subseteq DOMAIN t.folders
    BY <1>6, <2>2, <2>3
  <2>5. PICK name \in Names, parent \in Nat :
          name = folders[m + 1].name /\ parent = Placed(first, folders[m + 1].in)
    <3>1. folders[m + 1] \in FolderEntries
      BY <1>1, <2>2
    <3>2. folders[m + 1].name \in Names /\ folders[m + 1].in \in Nat
      BY <3>1 DEF FolderEntries
    <3> QED
      BY <3>2, PlacedTyped
  <2>6. PICK u : u = CreateFolder(t, name, parent)
    OBVIOUS
  <2>7. f[m + 1] = u
    BY <1>4, <2>1, <2>2, <2>3, <2>5, <2>6
  <2>8. StoreFits(u) /\ u.next = t.next + 1 /\ DOMAIN u.folders = DOMAIN t.folders \cup {t.next}
    <3>1. StoreFits(u) /\ Created(u, t, name, parent)
      BY <2>4, <2>6, CreateFits
    <3> QED
      BY <3>1 DEF Created
  <2>9. first \in Nat
    BY <1>3 DEF BmIds
  <2>10. u.next = first + (m + 1)
    BY <2>4, <2>8, <2>9
  <2>11. first..first + (m + 1) - 1 \subseteq DOMAIN u.folders
    <3>1. ASSUME NEW i \in first..first + (m + 1) - 1 PROVE i \in DOMAIN u.folders
      <4>1. i = first + m \/ i \in first..first + m - 1
        BY <2>9
      <4> QED
        BY <2>4, <2>8, <4>1
    <3> QED
      BY <3>1
  <2> QED
    BY <2>7, <2>8, <2>10, <2>11
<1>7. Nat \subseteq R
  <2> HIDE DEF R
  <2> QED
    BY <1>5, <1>6, SetInduction
<1>8. N \in R /\ N \in 0..N
  BY <1>7
<1> QED
  BY <1>1, <1>2, <1>3, <1>8

LEMMA MarksImportedIs ==
  ASSUME NEW s, StoreFits(s), NEW K \in Nat, NEW marks \in Seq(MarkEntries(K)),
         NEW first \in BmIds, first..first + K - 1 \subseteq DOMAIN s.folders
  PROVE  \E f : /\ MarksUnfold(f, s, marks, first, Len(marks))
                /\ MarksImported(s, marks, first) = f[Len(marks)]
                /\ \A n \in 0..Len(marks) : StoreFits(f[n])
<1> DEFINE T == {t \in Stores : StoreFits(t) /\ t.folders = s.folders}
<1>1. PICK N \in Nat : N = Len(marks) /\ \A n \in 1..N : marks[n] \in MarkEntries(K)
  BY LenProperties
<1>2. s \in T
  BY DEF StoreFits
<1>3. \A n \in 1..N : marks[n].url \in Urls
                      /\ Placed(first, marks[n].in) \in DOMAIN s.folders \cup {Root}
  <2>1. ASSUME NEW n \in 1..N
        PROVE  marks[n].url \in Urls /\ Placed(first, marks[n].in) \in DOMAIN s.folders \cup {Root}
    <3>1. PICK in \in 0..K : in = marks[n].in /\ marks[n].url \in Urls
      BY <1>1 DEF MarkEntries
    <3>2. CASE in = 0
      BY <3>1, <3>2 DEF Placed
    <3>3. CASE in # 0
      <4>1. first + in - 1 \in first..first + K - 1
        BY <3>3 DEF BmIds
      <4> QED
        BY <3>1, <3>3, <4>1 DEF Placed
    <3> QED
      BY <3>2, <3>3
  <2> QED
    BY <2>1
<1>4. PICK step : step = [p \in (1..N) \X T |->
           AddBookmark(p[2], marks[p[1]].url, Placed(first, marks[p[1]].in))]
  OBVIOUS
<1>5. \A n \in 1..N, t \in T :
        step[<<n, t>>] = AddBookmark(t, marks[n].url, Placed(first, marks[n].in))
  BY <1>4
<1>6. \A n \in 1..N, t \in T : AddBookmark(t, marks[n].url, Placed(first, marks[n].in)) \in T
  <2>1. ASSUME NEW n \in 1..N, NEW t \in T
        PROVE  AddBookmark(t, marks[n].url, Placed(first, marks[n].in)) \in T
    <3>1. PICK u, url, folder : /\ u = AddBookmark(t, url, folder) /\ url = marks[n].url
                                /\ folder = Placed(first, marks[n].in)
      OBVIOUS
    <3>2. url \in Urls /\ folder \in DOMAIN t.folders \cup {Root} /\ StoreFits(t)
      BY <1>3, <3>1
    <3>3. StoreFits(u) /\ u.folders = t.folders
      BY <3>1, <3>2, AddFits
    <3> QED
      BY <3>1, <3>3 DEF StoreFits
  <2> QED
    BY <2>1
<1>7. step \in [(1..N) \X T -> T]
  <2>1. ASSUME NEW p \in (1..N) \X T
        PROVE  AddBookmark(p[2], marks[p[1]].url, Placed(first, marks[p[1]].in)) \in T
    <3> HIDE DEF T
    <3>1. p[1] \in 1..N /\ p[2] \in T
      BY <2>1
    <3> QED
      BY <1>6, <3>1
  <2> QED
    BY <1>4, <2>1
<1>8. PICK f \in [0..N -> T] : Loops(f, s, step, N)
  <2> HIDE DEF T
  <2> QED
    BY <1>1, <1>2, <1>7, LoopExists
<1>9. MarksUnfold(f, s, marks, first, N)
  <2>1. ASSUME NEW n \in 0..N, n # 0
        PROVE  step[<<n, f[n - 1]>>] =
                 AddBookmark(f[n - 1], marks[n].url, Placed(first, marks[n].in))
    <3>1. n \in 1..N /\ n - 1 \in 0..N
      BY <2>1
    <3>2. f[n - 1] \in T
      BY <1>8, <3>1
    <3> QED
      BY <1>5, <3>1, <3>2
  <2>2. f = [n \in 0..N |-> IF n = 0 THEN s ELSE step[<<n, f[n - 1]>>]]
    BY <1>8 DEF Loops
  <2> QED
    BY <2>1, <2>2, Zenon DEF MarksUnfold
<1>10. PICK g : g = CHOOSE h : MarksUnfold(h, s, marks, first, N)
  OBVIOUS
<1>11. MarksUnfold(g, s, marks, first, N)
  BY <1>9, <1>10, Zenon
<1>12. MarksImported(s, marks, first) = g[N]
  BY <1>1, <1>10, Zenon DEF MarksImported, MarksUnfold
<1>13. \A n \in 0..N : g[n] \in T
  <2> DEFINE R == {n \in Nat : n \in 0..N => g[n] \in T}
  <2>1. \A n \in 0..N : g[n] = IF n = 0 THEN s
           ELSE AddBookmark(g[n - 1], marks[n].url, Placed(first, marks[n].in))
    BY <1>11 DEF MarksUnfold
  <2> HIDE DEF T
  <2>2. 0 \in R
    <3>1. g[0] = s
      BY <2>1
    <3> QED
      BY <1>2, <3>1
  <2>3. ASSUME NEW m \in Nat, m \in R PROVE m + 1 \in R
    <3>1. SUFFICES ASSUME m + 1 \in 0..N PROVE g[m + 1] \in T
      OBVIOUS
    <3>2. m \in 0..N /\ m + 1 \in 1..N /\ m + 1 # 0 /\ (m + 1) - 1 = m
      BY <3>1
    <3>3. g[m] \in T
      BY <2>3, <3>2
    <3>4. g[m + 1] = AddBookmark(g[m], marks[m + 1].url, Placed(first, marks[m + 1].in))
      BY <2>1, <3>1, <3>2
    <3> QED
      BY <1>6, <3>2, <3>3, <3>4
  <2>4. Nat \subseteq R
    <3> HIDE DEF R
    <3> QED
      BY <2>2, <2>3, SetInduction
  <2> QED
    BY <2>4
<1> QED
  BY <1>1, <1>11, <1>12, <1>13

LEMMA ImportFits ==
  ASSUME NEW s, StoreFits(s), NEW export \in Exports
  PROVE  StoreFits(Imported(s, export))
<1>0. export.folders \in Seq(FolderEntries)
      /\ export.marks \in Seq(MarkEntries(Len(export.folders)))
  BY ExportsAssumption DEF FolderEntries, MarkEntries
<1>10. PICK folders \in Seq(FolderEntries), K \in Nat : folders = export.folders /\ K = Len(folders)
  BY <1>0, LenProperties
<1>1. PICK marks \in Seq(MarkEntries(K)) : marks = export.marks
  BY <1>0, <1>10
<1>2. PICK first \in BmIds : first = s.next
  BY DEF StoreFits, Stores
<1>3. PICK t : t = FoldersImported(s, folders)
  OBVIOUS
<1>4. StoreFits(t) /\ first..first + K - 1 \subseteq DOMAIN t.folders
  BY <1>10, <1>2, <1>3, FoldersImportedFits
<1>5. Imported(s, export) = MarksImported(t, marks, first)
  BY <1>1, <1>10, <1>2, <1>3, Zenon DEF Imported
<1>6. PICK N \in Nat : N = Len(marks)
  BY LenProperties
<1>7. PICK f : MarksImported(t, marks, first) = f[N] /\ \A n \in 0..N : StoreFits(f[n])
  BY <1>4, <1>6, MarksImportedIs
<1>8. N \in 0..N
  OBVIOUS
<1> QED
  BY <1>5, <1>7, <1>8
-----------------------------------------------------------------------------
(* Pushes sent and heard.                                                    *)
LEMMA PushedBehind ==
  ASSUME NEW S, NEW list \in Seq(S), NEW p \in S, NEW q \in S
  PROVE  /\ Behind(list \o <<p>>, list, p)
         /\ Behind(list \o (<<p>> \o <<q>>), list \o <<p>>, q)
<1>1. PICK one \in Seq(S), two \in Seq(S) : one = <<p>> /\ two = <<q>>
  <2>1. <<p>> \in Seq(S) /\ <<q>> \in Seq(S)
    OBVIOUS
  <2> QED
    BY <2>1, Zenon
<1>2. PICK l \in Seq(S) : l = list \o one /\ l = Append(list, p)
  BY <1>1, AppendIsConcat, ConcatProperties
<1>3. Append(l, q) = l \o two
  BY <1>1, AppendIsConcat
<1>4. l \o two = list \o (one \o two)
  <2>1. (list \o one) \o two = list \o (one \o two)
    BY ConcatAssociative
  <2> QED
    BY <1>2, <2>1, Zenon
<1> QED
  BY <1>1, <1>2, <1>3, <1>4, Zenon DEF Behind

LEMMA ArrivesPushed ==
  ASSUME NEW S, NEW list \in Seq(S), NEW p \in S, NEW l, Behind(l, list, p), NEW what, NEW was
  PROVE  /\ \A now : p.what = what /\ Carries(p) = now => Arrives(l, what, was, now)
         /\ \A now : p.what # what /\ Arrives(list, what, was, now) => Arrives(l, what, was, now)
<1>1. PICK n \in Nat : n = Len(list) /\ DOMAIN list = 1..n
  BY LenProperties
<1>2. l \in Seq(S) /\ Len(l) = n + 1 /\ l[n + 1] = p /\ \A i \in 1..n : l[i] = list[i]
  BY <1>1, AppendFacts DEF Behind
<1>3. DOMAIN l = 1..n + 1
  BY <1>2, LenProperties
<1>4. \A k \in DOMAIN l : k = n + 1 \/ (k \in DOMAIN list /\ l[k] = list[k] /\ k < n + 1)
  BY <1>1, <1>2, <1>3
<1>5. \A k \in DOMAIN list : k \in DOMAIN l /\ l[k] = list[k]
  BY <1>1, <1>2, <1>3
<1>6. n + 1 \in DOMAIN l
  BY <1>1, <1>3
<1>7. ASSUME NEW now, p.what = what, Carries(p) = now PROVE Arrives(l, what, was, now)
  <2>1. \A k \in DOMAIN l : k > n + 1 => l[k].what # what
    BY <1>3
  <2> QED
    BY <1>2, <1>6, <1>7, <2>1 DEF Arrives
<1>8. ASSUME NEW now, p.what # what, Arrives(list, what, was, now)
      PROVE  Arrives(l, what, was, now)
  <2>1. CASE was = now /\ \A k \in DOMAIN list : list[k].what # what
    <3>1. \A k \in DOMAIN l : l[k].what # what
      BY <1>2, <1>4, <1>8, <2>1
    <3> QED
      BY <2>1, <3>1 DEF Arrives
  <2>2. ASSUME NEW m \in DOMAIN list, list[m].what = what, Carries(list[m]) = now,
               \A k \in DOMAIN list : k > m => list[k].what # what
        PROVE  Arrives(l, what, was, now)
    <3>1. \A k \in DOMAIN l : k > m => l[k].what # what
      BY <1>2, <1>4, <1>8, <2>2
    <3>2. m \in DOMAIN l /\ l[m] = list[m]
      BY <1>5
    <3> QED
      BY <2>2, <3>1, <3>2 DEF Arrives
  <2> QED
    BY <1>8, <2>1, <2>2 DEF Arrives
<1> QED
  BY <1>7, <1>8

LEMMA ArrivesHeard ==
  ASSUME NEW S, NEW list \in Seq(S), list # <<>>, NEW what, NEW was, NEW now,
         Arrives(list, what, was, now)
  PROVE  /\ list[1].what = what => Arrives(Tail(list), what, Carries(list[1]), now)
         /\ list[1].what # what => Arrives(Tail(list), what, was, now)
<1>1. PICK rest : rest = Tail(list)
  OBVIOUS
<1>2. /\ 1 \in DOMAIN list
      /\ \A i \in DOMAIN rest : i + 1 \in DOMAIN list /\ rest[i] = list[i + 1]
      /\ \A i \in DOMAIN list : i = 1 \/ (i - 1 \in DOMAIN rest /\ rest[i - 1] = list[i])
  BY <1>1, TailOf
<1>3. DOMAIN list \subseteq Nat \ {0}
  BY LenProperties
<1>33. DOMAIN rest \subseteq Nat
  <2>1. rest \in Seq(S)
    BY <1>1, TailOf
  <2> QED
    BY <2>1, LenProperties
<1>4. CASE was = now /\ \A n \in DOMAIN list : list[n].what # what
  <2>1. \A n \in DOMAIN rest : rest[n].what # what
    BY <1>2, <1>4
  <2> QED
    BY <1>1, <1>2, <1>4, <2>1 DEF Arrives
<1>5. ASSUME NEW n \in DOMAIN list, list[n].what = what, Carries(list[n]) = now,
             \A k \in DOMAIN list : k > n => list[k].what # what
      PROVE  /\ list[1].what = what => Arrives(rest, what, Carries(list[1]), now)
             /\ list[1].what # what => Arrives(rest, what, was, now)
  <2>1. CASE n = 1
    <3>1. \A k \in DOMAIN rest : rest[k].what # what
      <4>1. ASSUME NEW k \in DOMAIN rest PROVE rest[k].what # what
        <5>1. k + 1 \in DOMAIN list /\ rest[k] = list[k + 1] /\ k \in Nat
          BY <1>2, <1>33
        <5>2. k + 1 > n
          <6>1. k # 0
            BY <1>1, TailOf, LenProperties
          <6> QED
            BY <2>1, <5>1, <6>1
        <5> QED
          BY <1>5, <5>1, <5>2
      <4> QED
        BY <4>1
    <3> QED
      BY <1>5, <2>1, <3>1 DEF Arrives
  <2>2. CASE n # 1
    <3>1. n - 1 \in DOMAIN rest /\ rest[n - 1] = list[n]
      BY <1>2, <2>2
    <3>2. \A k \in DOMAIN rest : k > n - 1 => rest[k].what # what
      <4>1. ASSUME NEW k \in DOMAIN rest, k > n - 1 PROVE rest[k].what # what
        <5>1. k + 1 \in DOMAIN list /\ rest[k] = list[k + 1] /\ k \in Nat /\ n \in Nat
          BY <1>2, <1>3, <1>33
        <5>2. k + 1 > n
          BY <4>1, <5>1
        <5> QED
          BY <1>5, <5>1, <5>2
      <4> QED
        BY <4>1
    <3>3. \A x : Arrives(rest, what, x, now)
      BY <1>5, <3>1, <3>2 DEF Arrives
    <3> QED
      BY <3>3
  <2> QED
    BY <2>1, <2>2
<1> QED
  BY <1>1, <1>4, <1>5 DEF Arrives

MarksPush(s) == [what |-> "marks", marks |-> s.marks]
FoldersPush(s) == [what |-> "folders", folders |-> s.folders]

LEMMA PushFacts ==
  ASSUME NEW s, StoreFits(s)
  PROVE  /\ MarksPush(s) \in PushMsgs /\ MarksPush(s).what = "marks"
         /\ Carries(MarksPush(s)) = s.marks
         /\ FoldersPush(s) \in PushMsgs /\ FoldersPush(s).what = "folders"
         /\ Carries(FoldersPush(s)) = s.folders
<1>1. s.marks \in MarkMaps /\ s.folders \in FolderMaps
  BY DEF StoreFits, Stores
<1> QED
  BY <1>1 DEF MarksPush, FoldersPush, PushMsgs, Carries

(* A change of the store and its pushes.                                     *)
Shows(list, marks, folders, s) ==
  /\ list \in Seq(PushMsgs)
  /\ Arrives(list, "marks", marks, s.marks) /\ Arrives(list, "folders", folders, s.folders)

LEMMA OnePush ==
  ASSUME NEW list, NEW marks, NEW folders, NEW s, NEW t, StoreFits(t), Shows(list, marks, folders, s)
  PROVE  /\ t.folders = s.folders => Shows(list \o <<MarksPush(t)>>, marks, folders, t)
         /\ t.marks = s.marks => Shows(list \o <<FoldersPush(t)>>, marks, folders, t)
<1>0. list \in Seq(PushMsgs)
  BY DEF Shows
<1>1. PICK m \in PushMsgs, f \in PushMsgs : m = MarksPush(t) /\ f = FoldersPush(t)
  BY PushFacts
<1>2. m.what = "marks" /\ Carries(m) = t.marks /\ f.what = "folders" /\ Carries(f) = t.folders
  BY <1>1, PushFacts
<1>3. PICK l : l = list \o <<m>>
  OBVIOUS
<1>4. Behind(l, list, m)
  BY <1>0, <1>3, PushedBehind
<1>5. PICK k : k = list \o <<f>>
  OBVIOUS
<1>6. Behind(k, list, f)
  BY <1>0, <1>5, PushedBehind
<1>7. l \in Seq(PushMsgs) /\ k \in Seq(PushMsgs)
  BY <1>0, <1>4, <1>6, BehindElems
<1>8. ASSUME t.folders = s.folders PROVE Shows(l, marks, folders, t)
  <2>1. Arrives(l, "marks", marks, t.marks)
    BY <1>0, <1>2, <1>4, ArrivesPushed
  <2>2. Arrives(list, "folders", folders, t.folders)
    BY <1>8 DEF Shows
  <2>3. Arrives(l, "folders", folders, t.folders)
    BY <1>0, <1>2, <1>4, <2>2, ArrivesPushed
  <2> QED
    BY <1>7, <2>1, <2>3 DEF Shows
<1>9. ASSUME t.marks = s.marks PROVE Shows(k, marks, folders, t)
  <2>1. Arrives(k, "folders", folders, t.folders)
    BY <1>0, <1>2, <1>6, ArrivesPushed
  <2>2. Arrives(list, "marks", marks, t.marks)
    BY <1>9 DEF Shows
  <2>3. Arrives(k, "marks", marks, t.marks)
    BY <1>0, <1>2, <1>6, <2>2, ArrivesPushed
  <2> QED
    BY <1>7, <2>1, <2>3 DEF Shows
<1> QED
  BY <1>1, <1>3, <1>5, <1>8, <1>9

LEMMA TwoPushes ==
  ASSUME NEW list, NEW marks, NEW folders, NEW s, NEW t, StoreFits(t), Shows(list, marks, folders, s)
  PROVE  /\ Shows(list \o (<<FoldersPush(t)>> \o <<MarksPush(t)>>), marks, folders, t)
         /\ Shows(list \o (<<MarksPush(t)>> \o <<FoldersPush(t)>>), marks, folders, t)
<1>0. list \in Seq(PushMsgs)
  BY DEF Shows
<1>1. PICK m \in PushMsgs, f \in PushMsgs : m = MarksPush(t) /\ f = FoldersPush(t)
  BY PushFacts
<1>2. m.what = "marks" /\ Carries(m) = t.marks /\ f.what = "folders" /\ Carries(f) = t.folders
  BY <1>1, PushFacts
<1>3. ASSUME NEW p \in PushMsgs, NEW q \in PushMsgs, NEW k, NEW l, k = list \o <<p>>,
             l = list \o (<<p>> \o <<q>>), {p, q} = {m, f}
      PROVE  Shows(l, marks, folders, t)
  <2>1. Behind(k, list, p) /\ Behind(l, k, q)
    BY <1>0, <1>3, PushedBehind
  <2>2. k \in Seq(PushMsgs)
    BY <1>0, <2>1, BehindElems
  <2>3. l \in Seq(PushMsgs)
    BY <2>1, <2>2, BehindElems
  <2>4. \A what, now : p.what = what /\ Carries(p) = now =>
            \A was : Arrives(k, what, was, now)
    BY <1>0, <2>1, ArrivesPushed
  <2>5. \A what, was, now : /\ (q.what = what /\ Carries(q) = now => Arrives(l, what, was, now))
                            /\ (q.what # what /\ Arrives(k, what, was, now) => Arrives(l, what, was, now))
    BY <2>1, <2>2, ArrivesPushed
  <2>6. (p = m /\ q = f) \/ (p = f /\ q = m)
    BY <1>2, <1>3
  <2>7. Arrives(l, "marks", marks, t.marks) /\ Arrives(l, "folders", folders, t.folders)
    BY <1>2, <2>4, <2>5, <2>6
  <2> QED
    BY <2>3, <2>7 DEF Shows
<1>4. Shows(list \o (<<f>> \o <<m>>), marks, folders, t)
  BY <1>3
<1>5. Shows(list \o (<<m>> \o <<f>>), marks, folders, t)
  BY <1>3
<1> QED
  BY <1>1, <1>4, <1>5

LEMMA PushesShow ==
  ASSUME NEW list, NEW marks, NEW folders, NEW s, NEW t, StoreFits(t),
         Shows(list, marks, folders, s), NEW do \in OnlyMarks \cup OnlyFolders \cup Both,
         Changes(do, s, t)
  PROVE  Shows(list \o Pushes(do, t), marks, folders, t)
<1>1. CASE do \in OnlyMarks
  <2>1. Pushes(do, t) = <<MarksPush(t)>> /\ t.folders = s.folders
    BY <1>1 DEF OnlyMarks, Pushes, Marks, MarksPush, Changes
  <2> QED
    BY <2>1, OnePush
<1>2. CASE do \in OnlyFolders
  <2>1. Pushes(do, t) = <<FoldersPush(t)>> /\ t.marks = s.marks
    BY <1>2 DEF OnlyFolders, Pushes, Folders, FoldersPush, Changes
  <2> QED
    BY <2>1, OnePush
<1>3. CASE do \in Both \ {"clear"}
  <2>1. Pushes(do, t) = <<FoldersPush(t)>> \o <<MarksPush(t)>>
    BY <1>3 DEF Both, Pushes, Folders, FoldersPush, Marks, MarksPush
  <2> QED
    BY <2>1, TwoPushes
<1>4. CASE do = "clear"
  <2>1. Pushes(do, t) = <<MarksPush(t)>> \o <<FoldersPush(t)>>
    BY <1>4 DEF Pushes, Folders, FoldersPush, Marks, MarksPush
  <2> QED
    BY <2>1, TwoPushes
<1> QED
  BY <1>1, <1>2, <1>3, <1>4

-----------------------------------------------------------------------------
(* The actions.                                                              *)
LEMMA BecomesFits ==
  ASSUME BmInv, NEW do \in OnlyMarks \cup OnlyFolders \cup Both, NEW later, StoreFits(later),
         Changes(do, store, later), Becomes(do, later), UNCHANGED <<shown, filing>>,
         toStore' \in Seq(Commands)
  PROVE  BmInv'
<1>1. Shows(toChrome, shown.marks, shown.folders, store)
  BY DEF BmInv, BmTypes, Shows
<1>2. PICK l : l = toChrome \o Pushes(do, later)
  OBVIOUS
<1>3. Shows(l, shown.marks, shown.folders, later)
  BY <1>1, <1>2, PushesShow
<1>4. toChrome' = l /\ store' = later
  BY <1>2 DEF Becomes
<1> QED
  BY <1>3, <1>4 DEF BmInv, BmTypes, Shows

LEMMA HandleCommandFits == ASSUME BmInv, HandleCommand PROVE BmInv'
<1>1. toStore \in Seq(Commands) /\ StoreFits(store)
  BY DEF BmInv, BmTypes
<1>2. PICK command \in Commands : command = Head(toStore)
  BY <1>1, TailOf DEF HandleCommand
<1>3. PICK later : later = Done(command, store)
  OBVIOUS
<1>4. StoreFits(later) /\ Changes(command.do, store, later)
  BY <1>1, <1>3, DoneFits
<1>5. command.do \in OnlyMarks \cup OnlyFolders \cup Both
  BY DEF Commands, OnlyMarks, OnlyFolders, Both
<1>6. toStore' \in Seq(Commands)
  BY <1>1, TailOf DEF HandleCommand
<1>7. Becomes(command.do, later) /\ UNCHANGED <<shown, filing>>
  BY <1>2, <1>3 DEF HandleCommand
<1> QED
  BY <1>4, <1>5, <1>6, <1>7, BecomesFits

LEMMA CommandFits ==
  ASSUME BmInv, NEW command \in Commands, Command(command),
         filing' \in [mark : Nat, name : Names \cup {"none"}]
  PROVE  BmInv'
<1>1. toStore' \in Seq(Commands)
  <2>1. toStore \in Seq(Commands) /\ toStore' = Append(toStore, command)
    BY DEF BmInv, BmTypes, Command
  <2> QED
    BY <2>1, AppendFacts
<1> QED
  BY <1>1 DEF BmInv, BmTypes, Command

LEMMA ShownTyped ==
  ASSUME BmInv
  PROVE  /\ filing \in [mark : Nat, name : Names \cup {"none"}] /\ Root \in Nat
         /\ shown.marks \in MarkMaps /\ shown.folders \in FolderMaps
         /\ DOMAIN shown.marks \subseteq Nat /\ DOMAIN shown.folders \subseteq Nat
         /\ DOMAIN store.marks \subseteq Nat /\ DOMAIN store.folders \subseteq Nat
         /\ StoreFits(store) /\ store.next \in Nat
<1>1. shown.marks \in MarkMaps /\ shown.folders \in FolderMaps
  BY DEF BmInv, BmTypes
<1>2. store.marks \in MarkMaps /\ store.folders \in FolderMaps /\ store.next \in Nat
  BY DEF BmInv, StoreFits, Stores, BmIds
<1>3. DOMAIN shown.marks \subseteq BmIds /\ DOMAIN shown.folders \subseteq BmIds
  BY <1>1, MapFacts DEF MarkMaps, FolderMaps
<1>4. DOMAIN store.marks \subseteq BmIds /\ DOMAIN store.folders \subseteq BmIds
  BY <1>2, MapFacts DEF MarkMaps, FolderMaps
<1> QED
  BY <1>1, <1>2, <1>3, <1>4 DEF BmInv, BmTypes, BmIds, Root

LEMMA UserFits ==
  ASSUME BmInv,
         \/ \E url \in Urls : Star(url)
         \/ \E m \in DOMAIN shown.marks :
              ChangeMark(m) \/ \E name \in Names : FileUnderNew(m, name)
         \/ \E parent \in DOMAIN shown.folders \cup {Root}, name \in Names : NewFolder(parent, name)
         \/ \E f \in DOMAIN shown.folders : ChangeFolder(f)
         \/ ClearAll
  PROVE  BmInv'
<1>0. /\ filing \in [mark : Nat, name : Names \cup {"none"}] /\ Root \in Nat
      /\ DOMAIN shown.marks \subseteq Nat /\ DOMAIN shown.folders \subseteq Nat
  BY ShownTyped
<1>1. ASSUME NEW url \in Urls, Star(url) PROVE BmInv'
  <2>1. [do |-> "toggle", url |-> url] \in Commands
    BY DEF Commands
  <2> QED
    BY <1>0, <1>1, <2>1, CommandFits DEF Star
<1>2. ASSUME NEW m \in DOMAIN shown.marks, ChangeMark(m) PROVE BmInv'
  <2>1. [do |-> "delete", mark |-> m] \in Commands
    BY <1>0 DEF Commands
  <2>2. \A f \in DOMAIN shown.folders \cup {Root} :
          [do |-> "move", mark |-> m, folder |-> f] \in Commands
    BY <1>0 DEF Commands
  <2> QED
    BY <1>0, <1>2, <2>1, <2>2, CommandFits DEF ChangeMark
<1>3. ASSUME NEW m \in DOMAIN shown.marks, NEW name \in Names, FileUnderNew(m, name) PROVE BmInv'
  <2>1. [do |-> "create folder", folder |-> Root, name |-> name] \in Commands
    BY <1>0 DEF Commands
  <2>2. filing' \in [mark : Nat, name : Names \cup {"none"}]
    BY <1>0, <1>3 DEF FileUnderNew
  <2> QED
    BY <1>3, <2>1, <2>2, CommandFits DEF FileUnderNew
<1>4. ASSUME NEW parent \in DOMAIN shown.folders \cup {Root}, NEW name \in Names,
             NewFolder(parent, name)
      PROVE  BmInv'
  <2>1. [do |-> "create folder", folder |-> parent, name |-> name] \in Commands
    BY <1>0 DEF Commands
  <2> QED
    BY <1>0, <1>4, <2>1, CommandFits DEF NewFolder
<1>5. ASSUME NEW f \in DOMAIN shown.folders, ChangeFolder(f) PROVE BmInv'
  <2>1. [do |-> "delete folder", folder |-> f] \in Commands
    BY <1>0 DEF Commands
  <2>2. \A name \in Names : [do |-> "rename folder", folder |-> f, name |-> name] \in Commands
    BY <1>0 DEF Commands
  <2> QED
    BY <1>0, <1>5, <2>1, <2>2, CommandFits DEF ChangeFolder
<1>6. ASSUME ClearAll PROVE BmInv'
  <2>1. [do |-> "clear"] \in Commands
    BY DEF Commands
  <2> QED
    BY <1>0, <1>6, <2>1, CommandFits DEF ClearAll
<1> QED
  BY <1>1, <1>2, <1>3, <1>4, <1>5, <1>6

LEMMA ClosePopoverFits == ASSUME BmInv, ClosePopover PROVE BmInv'
<1>1. filing' \in [mark : Nat, name : Names \cup {"none"}]
  BY DEF ClosePopover, NoFiling
<1> QED
  BY <1>1 DEF ClosePopover, BmInv, BmTypes

LEMMA HeardFits == ASSUME BmInv, ChromeHearsMarks PROVE BmInv'
<1>0. /\ toChrome \in Seq(PushMsgs) /\ toStore \in Seq(Commands)
      /\ shown \in [marks : MarkMaps, folders : FolderMaps] /\ toChrome # <<>>
  BY DEF BmInv, BmTypes, ChromeHearsMarks
<1>1. PICK push \in PushMsgs : push = Head(toChrome) /\ push = toChrome[1]
  BY <1>0, TailOf
<1>2. PICK rest \in Seq(PushMsgs) : rest = Tail(toChrome)
  BY <1>0, TailOf
<1>3. PICK now : now = Heard(push)
  OBVIOUS
<1>4. shown' = now /\ toChrome' = rest /\ store' = store
  BY <1>1, <1>2, <1>3 DEF ChromeHearsMarks
<1>5. /\ (push.what = "marks" /\ Carries(push) \in MarkMaps)
           \/ (push.what = "folders" /\ Carries(push) \in FolderMaps)
  BY DEF PushMsgs, Carries
<1>6. /\ push.what = "marks" => now.marks = Carries(push) /\ now.folders = shown.folders
      /\ push.what = "folders" => now.folders = Carries(push) /\ now.marks = shown.marks
      /\ now \in [marks : MarkMaps, folders : FolderMaps]
  BY <1>0, <1>3, <1>5 DEF Heard, Carries
<1>7. Arrives(rest, "marks", now.marks, store.marks)
  <2>1. Arrives(toChrome, "marks", shown.marks, store.marks)
    BY DEF BmInv
  <2>2. /\ push.what = "marks" => Arrives(rest, "marks", Carries(push), store.marks)
        /\ push.what # "marks" => Arrives(rest, "marks", shown.marks, store.marks)
    BY <1>0, <1>1, <1>2, <2>1, ArrivesHeard
  <2> QED
    BY <1>5, <1>6, <2>2
<1>8. Arrives(rest, "folders", now.folders, store.folders)
  <2>1. Arrives(toChrome, "folders", shown.folders, store.folders)
    BY DEF BmInv
  <2>2. /\ push.what = "folders" => Arrives(rest, "folders", Carries(push), store.folders)
        /\ push.what # "folders" => Arrives(rest, "folders", shown.folders, store.folders)
    BY <1>0, <1>1, <1>2, <2>1, ArrivesHeard
  <2> QED
    BY <1>5, <1>6, <2>2
<1>9. filing' \in [mark : Nat, name : Names \cup {"none"}]
  BY DEF ChromeHearsMarks, BmInv, BmTypes, NoFiling
<1>10. toStore' \in Seq(Commands)
  <2>1. CASE toStore' = toStore
    BY <1>0, <2>1
  <2>2. CASE toStore' # toStore
    <3>1. /\ Named(now, filing.name) # {}
          /\ toStore' = Append(toStore, [do |-> "move", mark |-> filing.mark,
                                         folder |-> FolderNamed(now, filing.name)])
      BY <1>1, <1>3, <2>2 DEF ChromeHearsMarks
    <3>2. DOMAIN now.folders \subseteq Nat
      <4>1. now.folders \in FolderMaps
        BY <1>6
      <4> QED
        BY <4>1, MapFacts DEF FolderMaps, BmIds
    <3>3. FolderNamed(now, filing.name) \in Nat /\ filing.mark \in Nat
      BY <3>1, <3>2, FirstNamed DEF BmInv, BmTypes
    <3>4. PICK command \in Commands :
            command = [do |-> "move", mark |-> filing.mark,
                       folder |-> FolderNamed(now, filing.name)]
      BY <3>3 DEF Commands
    <3> QED
      BY <1>0, <3>1, <3>4, AppendFacts
  <2> QED
    BY <2>1, <2>2
<1>11. StoreFits(store)
  BY DEF BmInv
<1> QED
  BY <1>4, <1>6, <1>7, <1>8, <1>9, <1>10, <1>11 DEF BmInv, BmTypes

LEMMA ToolFits ==
  ASSUME BmInv, NEW do \in OnlyMarks \cup OnlyFolders \cup Both, NEW later, Tool(do, later),
         StoreFits(later), Changes(do, store, later)
  PROVE  BmInv'
<1>1. toStore' \in Seq(Commands)
  BY DEF BmInv, BmTypes, Tool
<1> QED
  BY <1>1, BecomesFits DEF Tool

LEMMA BothChange == \A do \in Both : \A s, t : Changes(do, s, t)
  BY DEF Both, Changes, OnlyMarks, OnlyFolders

LEMMA ImportedFits == ASSUME BmInv, NEW export \in Exports, Import(export) PROVE BmInv'
<1>1. PICK later : later = Imported(store, export)
  OBVIOUS
<1>2. StoreFits(later)
  BY <1>1, ImportFits DEF BmInv
<1>3. "import" \in Both /\ Changes("import", store, later)
  BY BothChange DEF Both
<1>4. toStore' \in Seq(Commands)
  BY DEF BmInv, BmTypes, Import
<1> QED
  BY <1>1, <1>2, <1>3, <1>4, BecomesFits DEF Import

LEMMA ToolAddFits == ASSUME BmInv, NEW url \in Urls, ToolAdd(url) PROVE BmInv'
<1>1. PICK added : added = ToggleBookmark(store, url)
  OBVIOUS
<1>2. StoreFits(added)
  BY <1>1, ToggleFits DEF BmInv
<1>3. "add" \in Both /\ \A t : Changes("add", store, t)
  BY BothChange DEF Both
<1>4. ASSUME NEW later, StoreFits(later), Tool("add", later) PROVE BmInv'
  BY <1>3, <1>4, ToolFits
<1>5. CASE Tool("add", added)
  BY <1>2, <1>4, <1>5
<1>6. ASSUME NEW name \in Names,
             Tool("add", MoveBookmark(FindOrCreate(added, name), store.next,
                                      FolderNamed(FindOrCreate(added, name), name)))
      PROVE  BmInv'
  <2>1. PICK made, folder : made = FindOrCreate(added, name) /\ folder = FolderNamed(made, name)
    OBVIOUS
  <2>2. StoreFits(made)
    BY <1>2, <2>1, FindFits
  <2>3. StoreFits(MoveBookmark(made, store.next, folder))
    BY <2>2, MoveFits
  <2> QED
    BY <1>4, <1>6, <2>1, <2>3
<1> QED
  BY <1>1, <1>5, <1>6 DEF ToolAdd

LEMMA ToolChangeFits == ASSUME BmInv, ToolChange PROVE BmInv'
<1>0. StoreFits(store)
  BY DEF BmInv
<1>1. ASSUME NEW m, Tool("delete", RemoveBookmarks(store, {m})) PROVE BmInv'
  <2>1. PICK later : later = RemoveBookmarks(store, {m})
    OBVIOUS
  <2>2. StoreFits(later) /\ later.folders = store.folders
    BY <1>0, <2>1, RemoveFits
  <2>3. "delete" \in OnlyMarks /\ Changes("delete", store, later)
    BY <2>2 DEF OnlyMarks, OnlyFolders, Changes
  <2> QED
    BY <1>1, <2>1, <2>2, <2>3, ToolFits
<1>2. ASSUME NEW m, NEW f, Tool("move", MoveBookmark(store, m, f)) PROVE BmInv'
  <2>1. PICK later : later = MoveBookmark(store, m, f)
    OBVIOUS
  <2>2. StoreFits(later) /\ later.folders = store.folders
    BY <1>0, <2>1, MoveFits
  <2>3. "move" \in OnlyMarks /\ Changes("move", store, later)
    BY <2>2 DEF OnlyMarks, OnlyFolders, Changes
  <2> QED
    BY <1>2, <2>1, <2>2, <2>3, ToolFits
<1>3. ASSUME NEW f, Tool("delete folder", DeleteFolder(store, f)) PROVE BmInv'
  <2>1. PICK later : later = DeleteFolder(store, f)
    OBVIOUS
  <2>2. StoreFits(later)
    BY <1>0, <2>1, DeleteFolderFits
  <2>3. "delete folder" \in Both /\ Changes("delete folder", store, later)
    BY BothChange DEF Both
  <2> QED
    BY <1>3, <2>1, <2>2, <2>3, ToolFits
<1>4. ASSUME NEW f, NEW name \in Names, Tool("rename folder", RenameFolder(store, f, name))
      PROVE  BmInv'
  <2>1. PICK later : later = RenameFolder(store, f, name)
    OBVIOUS
  <2>2. StoreFits(later) /\ later.marks = store.marks
    BY <1>0, <2>1, RenameFits
  <2>3. "rename folder" \in OnlyFolders /\ Changes("rename folder", store, later)
    BY <2>2 DEF OnlyMarks, OnlyFolders, Changes
  <2> QED
    BY <1>4, <2>1, <2>2, <2>3, ToolFits
<1> QED
  BY <1>1, <1>2, <1>3, <1>4 DEF ToolChange

LEMMA ToolNewFolderFits == ASSUME BmInv, NEW name \in Names, ToolNewFolder(name) PROVE BmInv'
<1>0. StoreFits(store) /\ Root \in Nat
  BY DEF BmInv, Root
<1>1. ASSUME NEW made, StoreFits(made), made.marks = store.marks, NEW parent \in Nat,
             Tool("create folder", CreateFolder(made, name, parent))
      PROVE  BmInv'
  <2>1. PICK later : later = CreateFolder(made, name, parent)
    OBVIOUS
  <2>2. StoreFits(later) /\ Created(later, made, name, parent)
    BY <1>1, <2>1, CreateFits
  <2>3. "create folder" \in OnlyFolders /\ Changes("create folder", store, later)
    BY <1>1, <2>2 DEF OnlyMarks, OnlyFolders, Changes, Created
  <2> QED
    BY <1>1, <2>1, <2>2, <2>3, ToolFits
<1>2. CASE Tool("create folder", CreateFolder(store, name, Root))
  BY <1>0, <1>1, <1>2
<1>3. ASSUME NEW parent \in Names,
             Tool("create folder", CreateFolder(FindOrCreate(store, parent), name,
                                      FolderNamed(FindOrCreate(store, parent), parent)))
      PROVE  BmInv'
  <2>1. PICK made, folder : made = FindOrCreate(store, parent) /\ folder = FolderNamed(made, parent)
    OBVIOUS
  <2>2. StoreFits(made) /\ made.marks = store.marks /\ folder \in Nat
    BY <1>0, <2>1, FindFits
  <2> QED
    BY <1>1, <1>3, <2>1, <2>2
<1> QED
  BY <1>2, <1>3 DEF ToolNewFolder

LEMMA BmInvInit == BookmarksInit => BmInv
<1> SUFFICES ASSUME BookmarksInit PROVE BmInv
  OBVIOUS
<1>1. PICK none : none = <<>>
  OBVIOUS
<1>2. none \in MarkMaps /\ none \in FolderMaps /\ DOMAIN none = {}
  BY <1>1, NoMap DEF MarkMaps, FolderMaps
<1>3. store = [marks |-> none, folders |-> none, next |-> 1] /\ shown = [marks |-> none, folders |-> none]
  BY <1>1 DEF BookmarksInit
<1>4. StoreFits(store)
  BY <1>2, <1>3 DEF StoreFits, Stores, BmIds, IdsGiven, OneMark, Filed
<1>5. toStore \in Seq(Commands) /\ toChrome \in Seq(PushMsgs) /\ DOMAIN toChrome = {}
  BY DEF BookmarksInit
<1>6. filing \in [mark : Nat, name : Names \cup {"none"}]
  BY DEF BookmarksInit, NoFiling
<1> QED
  BY <1>2, <1>3, <1>4, <1>5, <1>6 DEF BmInv, BmTypes, Arrives

LEMMA BmInvNext == BmInv /\ [BookmarksNext]_bookmarkVars => BmInv'
<1> SUFFICES ASSUME BmInv, [BookmarksNext]_bookmarkVars PROVE BmInv'
  OBVIOUS
<1>1. CASE UNCHANGED bookmarkVars
  BY <1>1 DEF bookmarkVars, BmInv, BmTypes
<1>2. CASE BookmarksNext
  BY <1>2, UserFits, ToolAddFits, ClosePopoverFits, HandleCommandFits, HeardFits, ImportedFits,
     ToolChangeFits, ToolNewFolderFits DEF BookmarksNext
<1> QED
  BY <1>1, <1>2

LEMMA BmInvSound == BmInv => BookmarksSound
<1> SUFFICES ASSUME BmInv PROVE BookmarksSound
  OBVIOUS
<1>1. ASSUME toChrome = <<>> PROVE shown = [marks |-> store.marks, folders |-> store.folders]
  <2>1. DOMAIN toChrome = {}
    BY <1>1
  <2>2. shown.marks = store.marks /\ shown.folders = store.folders
    BY <2>1 DEF BmInv, Arrives
  <2>3. shown \in [marks : MarkMaps, folders : FolderMaps]
    BY DEF BmInv, BmTypes
  <2> QED
    BY <2>2, <2>3
<1>2. OneMark(store) /\ Filed(store)
  BY DEF BmInv, StoreFits
<1> QED
  BY <1>1, <1>2 DEF BookmarksSound, OneMark, Filed

(* Commands made from what chrome showed earlier meet a store that agents    *)
(* and imports have changed since: still no page is marked twice, no mark is *)
(* in a folder that is gone, and chrome shows the store once every push has  *)
(* arrived.                                                                  *)
THEOREM BookmarksStaySound == BookmarksSpec => []BookmarksSound
<1>1. BmInv => BookmarksSound
  BY BmInvSound
<1> QED
  BY BmInvInit, BmInvNext, <1>1, PTL DEF BookmarksSpec
=============================================================================
