---------------------------- MODULE HistoryList ----------------------------
(***************************************************************************)
(* Browsing history in main, and the list in Settings that fetches it page *)
(* by page for the query that is typed.                                    *)
(***************************************************************************)
EXTENDS Lists

CONSTANTS
  Sites,      \* pages visited
  Queries,    \* what is searched for: sets of sites that match
  MaxVisits,  \* MAX_ENTRIES
  PageSize,   \* PAGE_SIZE
  HlSteps     \* bound: visits, queries, scrolls and deletions

ASSUME HistoryAssumption == PageSize \in Nat

VARIABLES
  visits,   \* historyStore's entries, oldest first
  upcalls,  \* messages of the section on their way to main
  results,  \* HISTORY_PAGE messages on their way back
  query,    \* debouncedQuery
  rows,     \* entries the section lists
  more,     \* hasMore
  loading,
  hlSteps

historyVars == <<visits, upcalls, results, query, rows, more, loading, hlSteps>>

HlStep == hlSteps < HlSteps /\ hlSteps' = hlSteps + 1
View == <<query, rows, more, loading>>
Without(seq, id) == Filtered(seq, {e \in {seq[n] : n \in DOMAIN seq} : e.id # id})

-----------------------------------------------------------------------------
(* recordVisit patches the last entry when the page is the same, and keeps   *)
(* the newest MAX_ENTRIES.                                                   *)
RecordedAlways(site) == Append(visits, [id |-> hlSteps + 1, site |-> site])
Recorded(site) ==
  LET same == visits # <<>> /\ visits[Len(visits)].site = site
      longer == IF same THEN visits ELSE Append(visits, [id |-> hlSteps + 1, site |-> site])
  IN IF Len(longer) > MaxVisits THEN Tail(longer) ELSE longer

Visit(site) ==
  /\ HlStep
  /\ visits' = Recorded(site)
  /\ UNCHANGED <<upcalls, results, View>>

(* The tools of the MCP server delete behind the section's back.             *)
ToolDelete(id) ==
  /\ HlStep
  /\ visits' = Without(visits, id)
  /\ UNCHANGED <<upcalls, results, View>>

ToolClear ==
  /\ HlStep /\ visits # <<>>
  /\ visits' = <<>>
  /\ UNCHANGED <<upcalls, results, View>>

(* getHistoryPage: newest first, filtered, from offset.                      *)
Found(q) == Filtered([n \in 1..Len(visits) |-> visits[Len(visits) + 1 - n]],
                     {e \in {visits[n] : n \in DOMAIN visits} : e.site \in q})
Upto(n, seq) == IF Len(seq) < n THEN Len(seq) ELSE n
PageOf(r) ==
  [query |-> r.query, offset |-> r.offset,
   rows |-> SubSeq(Found(r.query), r.offset + 1, Upto(r.offset + PageSize, Found(r.query))),
   more |-> r.offset + PageSize < Len(Found(r.query))]

MainAnswers ==
  LET call == Head(upcalls) IN
  /\ upcalls # <<>> /\ upcalls' = Tail(upcalls)
  /\ CASE call.do = "page" ->
            results' = Append(results, PageOf(call)) /\ UNCHANGED visits
       [] call.do = "delete" -> visits' = Without(visits, call.id) /\ UNCHANGED results
       [] call.do = "clear" -> visits' = <<>> /\ UNCHANGED results
  /\ UNCHANGED <<View, hlSteps>>

-----------------------------------------------------------------------------
Fetch(q, offset) == upcalls' = Append(upcalls, [do |-> "page", query |-> q, offset |-> offset])

(* The debounced query changed: start over.                                  *)
Search(q) ==
  /\ HlStep /\ q # query
  /\ query' = q /\ rows' = <<>> /\ more' = TRUE /\ loading' = TRUE
  /\ Fetch(q, 0)
  /\ UNCHANGED <<visits, results>>

LoadMore ==
  /\ HlStep /\ ~loading /\ more
  /\ loading' = TRUE
  /\ Fetch(query, Len(rows))
  /\ UNCHANGED <<visits, results, query, rows, more>>

(* A page that answers another query is discarded.                           *)
AnyAnswer(result) == TRUE
Answers(result) == result.query = query

Receive ==
  LET result == Head(results) IN
  /\ results # <<>> /\ results' = Tail(results)
  /\ IF Answers(result)
     THEN /\ rows' = IF result.offset = 0 THEN result.rows ELSE rows \o result.rows
          /\ more' = result.more /\ loading' = FALSE
     ELSE UNCHANGED <<rows, more, loading>>
  /\ UNCHANGED <<visits, upcalls, query, hlSteps>>

DeleteRow(n) ==
  /\ HlStep
  /\ upcalls' = Append(upcalls, [do |-> "delete", id |-> rows[n].id])
  /\ rows' = Without(rows, rows[n].id)
  /\ UNCHANGED <<visits, results, query, more, loading>>

Clear ==
  /\ HlStep /\ rows # <<>>
  /\ upcalls' = Append(upcalls, [do |-> "clear"])
  /\ rows' = <<>> /\ more' = FALSE
  /\ UNCHANGED <<visits, results, query, loading>>

(* The section is mounted on the empty query, which every site matches.      *)
HistoryInit ==
  /\ visits = <<>>
  /\ query = Sites
  /\ upcalls = <<[do |-> "page", query |-> Sites, offset |-> 0]>>
  /\ results = <<>> /\ rows = <<>> /\ more = TRUE /\ loading = TRUE
  /\ hlSteps = 0

HistoryNext ==
  \/ \E site \in Sites : Visit(site)
  \/ \E n \in DOMAIN visits : ToolDelete(visits[n].id)
  \/ ToolClear \/ MainAnswers \/ LoadMore \/ Receive \/ Clear
  \/ \E q \in Queries : Search(q)
  \/ \E n \in DOMAIN rows : DeleteRow(n)

HistorySpec == HistoryInit /\ [][HistoryNext]_historyVars

-----------------------------------------------------------------------------
HistoryTypeOK ==
  /\ Len(visits) <= MaxVisits
  /\ query \in Queries \cup {Sites}
  /\ more \in BOOLEAN /\ loading \in BOOLEAN
  /\ hlSteps \in 0..HlSteps

(* However queries, scrolls, answers and deletions cross each other, the     *)
(* list only shows what the query it is for matches, and the spinner turns   *)
(* only while an answer to this query is still to come.                      *)
PageWanted(r) == r.query = query
ListAnswersQuery ==
  /\ \A n \in DOMAIN rows : rows[n].site \in query
  /\ loading =>
       \/ \E n \in DOMAIN upcalls : upcalls[n].do = "page" /\ PageWanted(upcalls[n])
       \/ \E n \in DOMAIN results : PageWanted(results[n])
=============================================================================
