---------------------------- MODULE Translation ----------------------------
(***************************************************************************)
(* Page translation: the settings a tab keeps, the preload that walks its  *)
(* page and splices translations in, the requests main runs for it, and    *)
(* the button of the popover.  A text is what it is a translation of, and  *)
(* the languages it went through.                                          *)
(***************************************************************************)
EXTENDS Naturals, Sequences

CONSTANTS
  PageTabs,   \* tabs
  Documents,  \* what a page shows in the end: sequences of source texts
  Languages,  \* languages to translate into
  TrSteps     \* bound: things the user and the pages do

VARIABLES
  inFront,     \* the active tab
  setting,     \* each tab's pageTranslate: on, has an agent, language; open
  page,        \* each tab's document and the state of its preload
  extracted,   \* PAGE_TRANSLATE_EXTRACTED messages, in order, of each tab
  requests,    \* translatePageBatch calls under way
  buttonState, \* pageTranslateStatus of the popover
  trSteps

trVars == <<inFront, setting, page, extracted, requests, buttonState, trSteps>>

Source(text) == [of |-> text, into |-> <<>>]
Into(text, language) == [text EXCEPT !.into = Append(@, language)]
NewDocument(d) ==
  [doc |-> d, load |-> "loading", shown |-> <<>>, tracked |-> <<>>, cache |-> <<>>,
   on |-> FALSE, waiting |-> 0, watch |-> 0, holds |-> FALSE, armed |-> FALSE]
TrStep == trSteps < TrSteps /\ trSteps' = trSteps + 1

-----------------------------------------------------------------------------
(* The preload.  A walk tracks the nodes it has not seen, what they show now  *)
(* being their original; one whose translation is known gets it at once, the *)
(* others are sent up, each text once.                                       *)
Unseen(p) == DOMAIN p.shown \ DOMAIN p.tracked
Fresh(p) == {p.shown[i] : i \in Unseen(p)} \ DOMAIN p.cache
Walked(p) ==
  [p EXCEPT !.tracked = [i \in DOMAIN p.shown |-> IF i \in Unseen(p) THEN p.shown[i]
                                                  ELSE p.tracked[i]],
            !.shown = [i \in DOMAIN p.shown |->
                         IF i \in Unseen(p) /\ p.shown[i] \in DOMAIN p.cache
                         THEN p.cache[p.shown[i]] ELSE p.shown[i]]]

Reverted(p) ==
  [p EXCEPT !.shown = [i \in DOMAIN p.shown |->
                         IF i \in DOMAIN p.tracked THEN p.tracked[i] ELSE p.shown[i]]]

(* startObserving does not stop the observer of an earlier pass; only the    *)
(* last one is held on to.                                                   *)
Observed(p, n) == [p EXCEPT !.watch = @ + n, !.holds = TRUE]
Sent(texts, initial) == <<[texts |-> texts, initial |-> initial]>>

(* PAGE_TRANSLATE_ENABLE: undo the last pass, forget it, walk once there is  *)
(* a body.                                                                   *)
EnabledAsShown(p) == [p EXCEPT !.on = TRUE, !.tracked = <<>>, !.cache = <<>>]
Enabled(p) == [Reverted(p) EXCEPT !.on = TRUE, !.tracked = <<>>, !.cache = <<>>]

Enable(t, p) ==
  IF p.load = "loading"
  THEN /\ page' = [page EXCEPT ![t] = [Enabled(p) EXCEPT !.waiting = @ + 1]]
       /\ UNCHANGED extracted
  ELSE /\ page' = [page EXCEPT ![t] = Observed(Walked(Enabled(p)), 1)]
       /\ extracted' = [extracted EXCEPT ![t] = @ \o Sent(Fresh(Enabled(p)), TRUE)]

Disabled(p) ==
  [Reverted(p) EXCEPT !.on = FALSE, !.watch = IF p.holds THEN @ - 1 ELSE @,
                      !.holds = FALSE, !.armed = IF p.holds THEN FALSE ELSE @]

(* PAGE_TRANSLATE_APPLY: by the original text, to every node that has it.    *)
Applied(p, result) ==
  IF ~p.on THEN p
  ELSE [p EXCEPT !.cache = [x \in DOMAIN result \cup DOMAIN p.cache |->
                              IF x \in DOMAIN result THEN result[x] ELSE p.cache[x]],
                 !.shown = [i \in DOMAIN p.shown |->
                              IF i \notin DOMAIN p.tracked THEN p.shown[i]
                              ELSE IF p.tracked[i] \in DOMAIN result THEN result[p.tracked[i]]
                              ELSE p.shown[i]]]

-----------------------------------------------------------------------------
(* The page: a new document, its body, and nodes rendered later, which the   *)
(* observers see and walk after a pause.                                     *)
Document(t, d) ==
  /\ TrStep /\ setting[t].open
  /\ page' = [page EXCEPT ![t] = NewDocument(d)]
  /\ UNCHANGED <<inFront, setting, extracted, requests, buttonState>>

(* Every ENABLE that came too early walks now: the second finds nothing new. *)
BodyReady(t) ==
  LET p == [page[t] EXCEPT !.load = "parsed", !.shown = <<Source(page[t].doc[1])>>,
                           !.waiting = 0]
      late == IF p.on THEN page[t].waiting ELSE 0
  IN /\ page[t].load = "loading"
     /\ page' = [page EXCEPT ![t] = IF late = 0 THEN p ELSE Observed(Walked(p), late)]
     /\ extracted' =
          [extracted EXCEPT ![t] = @ \o [i \in 1..late |->
             Sent(IF i = 1 THEN Fresh(p) ELSE {}, TRUE)[1]]]
     /\ UNCHANGED <<inFront, setting, requests, buttonState, trSteps>>

(* Main's dom-ready handler starts a pass on every page of such a tab.       *)
DomReady(t) ==
  LET p == [page[t] EXCEPT !.load = "ready"] IN
  /\ page[t].load = "parsed"
  /\ IF setting[t].on /\ setting[t].agent THEN Enable(t, p)
     ELSE page' = [page EXCEPT ![t] = p] /\ UNCHANGED extracted
  /\ UNCHANGED <<inFront, setting, requests, buttonState, trSteps>>

RenderMore(t) ==
  LET p == page[t] IN
  /\ p.load # "loading" /\ Len(p.shown) < Len(p.doc)
  /\ page' = [page EXCEPT ![t].shown = Append(@, Source(p.doc[Len(p.shown) + 1])),
                          ![t].armed = @ \/ p.watch > 0]
  /\ UNCHANGED <<inFront, setting, extracted, requests, buttonState, trSteps>>

WalkMore(t) ==
  LET p == page[t] IN
  /\ p.armed
  /\ page' = [page EXCEPT ![t] = [Walked(p) EXCEPT !.armed = FALSE]]
  /\ extracted' = [extracted EXCEPT ![t] =
                     @ \o IF Fresh(p) = {} THEN <<>> ELSE Sent(Fresh(p), FALSE)]
  /\ UNCHANGED <<inFront, setting, requests, buttonState, trSteps>>

-----------------------------------------------------------------------------
(* Main.  The request uses the settings of this moment; whether the tab is   *)
(* in front is remembered, and decides whom the outcome is shown to.         *)
Extracted(t) ==
  LET m == Head(extracted[t]) IN
  /\ extracted[t] # <<>>
  /\ extracted' = [extracted EXCEPT ![t] = Tail(@)]
  /\ IF setting[t].open /\ setting[t].on /\ setting[t].agent
     THEN /\ requests' = Append(requests,
               [tab |-> t, texts |-> m.texts, language |-> setting[t].language,
                visible |-> m.initial /\ t = inFront])
          /\ buttonState' = IF m.initial /\ t = inFront THEN "translating" ELSE buttonState
     ELSE UNCHANGED <<requests, buttonState>>
  /\ UNCHANGED <<inFront, setting, page, trSteps>>

(* translatePageBatch answers for the lines of the batches that came back.   *)
Outcome(request, got) == IF request.texts # {} /\ got = {} THEN "error" ELSE "done"

Translated(n, got) ==
  LET request == requests[n]
      result == [text \in got |-> Into(text, request.language)]
  IN /\ got \subseteq request.texts
     /\ requests' = SubSeq(requests, 1, n - 1) \o SubSeq(requests, n + 1, Len(requests))
     /\ IF setting[request.tab].open
        THEN /\ page' = [page EXCEPT ![request.tab] = Applied(@, result)]
             /\ buttonState' = IF request.visible THEN Outcome(request, got) ELSE buttonState
        ELSE UNCHANGED <<page, buttonState>>
     /\ UNCHANGED <<inFront, setting, extracted, trSteps>>

-----------------------------------------------------------------------------
(* The popover of the active tab: everything in it is disabled while it      *)
(* says it is working.                                                       *)
Working == setting[inFront].on /\ buttonState \in {"idle", "translating"}

SetSettings(s) ==
  LET t == inFront IN
  /\ TrStep /\ ~Working
  /\ setting' = [setting EXCEPT ![t] = s]
  /\ buttonState' = "idle"
  /\ IF s.on /\ s.agent THEN Enable(t, page[t])
     ELSE /\ page' = [page EXCEPT ![t] = IF setting[t].on THEN Disabled(@) ELSE @]
          /\ UNCHANGED extracted
  /\ UNCHANGED <<inFront, requests>>

(* mainAction: start when an agent is chosen, try again after an error, or   *)
(* show the original.                                                        *)
PressButton ==
  LET s == setting[inFront] IN
  /\ s.on \/ s.agent
  /\ SetSettings([s EXCEPT !.on = ~s.on \/ buttonState = "error"])

ChooseAgent(agent) == SetSettings([setting[inFront] EXCEPT !.agent = agent])
ChooseLanguage(language) == SetSettings([setting[inFront] EXCEPT !.language = language])

BringToFront(t) ==
  /\ TrStep /\ setting[t].open /\ t # inFront
  /\ inFront' = t
  /\ buttonState' = "idle"
  /\ UNCHANGED <<setting, page, extracted, requests>>

CloseInBack(t) ==
  /\ TrStep /\ setting[t].open /\ t # inFront
  /\ setting' = [setting EXCEPT ![t].open = FALSE]
  /\ UNCHANGED <<inFront, page, extracted, requests, buttonState>>

TrInit ==
  /\ inFront \in PageTabs
  /\ \E language \in Languages :
       setting = [t \in PageTabs |-> [on |-> FALSE, agent |-> FALSE, language |-> language,
                                      open |-> TRUE]]
  /\ \E d \in Documents : page = [t \in PageTabs |-> NewDocument(d)]
  /\ extracted = [t \in PageTabs |-> <<>>]
  /\ requests = <<>>
  /\ buttonState = "idle"
  /\ trSteps = 0

TrNext ==
  \/ \E t \in PageTabs :
       \/ \E d \in Documents : Document(t, d)
       \/ BodyReady(t) \/ DomReady(t) \/ RenderMore(t) \/ WalkMore(t)
       \/ Extracted(t) \/ BringToFront(t) \/ CloseInBack(t)
  \/ \E n \in DOMAIN requests : \E got \in SUBSET requests[n].texts : Translated(n, got)
  \/ PressButton
  \/ \E agent \in BOOLEAN : agent # setting[inFront].agent /\ ChooseAgent(agent)
  \/ \E language \in Languages :
       language # setting[inFront].language /\ ChooseLanguage(language)

TrSpec == TrInit /\ [][TrNext]_trVars

-----------------------------------------------------------------------------
TrTypeOK ==
  /\ inFront \in PageTabs
  /\ buttonState \in {"idle", "translating", "done", "error"}
  /\ \A t \in PageTabs :
       /\ page[t].doc \in Documents /\ Len(page[t].shown) <= Len(page[t].doc)
       /\ DOMAIN page[t].tracked \subseteq DOMAIN page[t].shown
       /\ page[t].watch \in Nat /\ page[t].waiting \in Nat
  /\ trSteps \in 0..TrSteps

(* Whatever a late answer, a change of settings or a navigation does, a node *)
(* shows its own text or one translation of it, what it is put back to is    *)
(* the text it came with, and a page whose translation is off shows that     *)
(* text - unless an observer of an earlier pass is still at work on it.      *)
OwnText(p, i) == Source(p.doc[i])
TextsTraceable ==
  \A t \in PageTabs : LET p == page[t] IN
    /\ \A i \in DOMAIN p.shown : \/ p.shown[i] = OwnText(p, i)
                                 \/ \E l \in Languages : p.shown[i] = Into(OwnText(p, i), l)
    /\ \A i \in DOMAIN p.tracked : p.tracked[i] = OwnText(p, i)
    /\ ~p.on /\ p.watch = 0 => \A i \in DOMAIN p.shown : p.shown[i] = OwnText(p, i)

(* PageTranslatePopover.tsx:50-51: "'idle' while enabled is the brief gap     *)
(* between sending ENABLE and the tab's preload reporting back its first     *)
(* walk" - so while the button says "Translating..." a first walk of this    *)
(* tab is to come, on its way, or being translated.                          *)
ButtonSettles ==
  Working =>
    \/ page[inFront].load # "ready"
    \/ \E i \in DOMAIN extracted[inFront] : extracted[inFront][i].initial
    \/ \E n \in DOMAIN requests : requests[n].tab = inFront /\ requests[n].visible
=============================================================================
