------------------------------- MODULE Window -------------------------------
(***************************************************************************)
(* The window: WindowManager's views and their stacking, the layout, the   *)
(* sliding chat panel, and the two renderers (the chrome and the chat) that *)
(* ask for room for their overlays by messages.  The main process runs one *)
(* handler at a time; timers and messages come in between.                 *)
(***************************************************************************)
EXTENDS Integers, FiniteSets, Lists

CONSTANTS
  Sizes,     \* content sizes of the window, <<width, height>>
  PageViews,     \* the tabs' page views
  Frames,    \* bound: frames of one slide of the chat panel
  Popovers,  \* toolbar popovers of the chrome
  Overlays,  \* full-window dialogs of the chrome
  Requests   \* bound: what the user, the pages and the system do

(* A window has an area, and a tab to show; a view is not also a kind.       *)
ASSUME WindowAssumption ==
  /\ Sizes \subseteq (Nat \ {0}) \X (Nat \ {0}) /\ Frames \in Nat \ {0}
  /\ PageViews # {} /\ PageViews \cap {"chrome", "page", "chat", "subtitle"} = {}

VARIABLES
  wm,       \* WindowManager's fields, the views' stacking and bounds
  size,     \* the window's content size, and whether its resize event is due
  slides,   \* the timers of the panel's slides
  ui,       \* the chrome renderer: what is open in it
  panel,    \* the chat renderer: the room of the rejected name, what it shows
  mail,     \* messages under way: from each renderer, and FIND_BAR_OPEN
  windowRequests  \* requests so far

windowVars == <<wm, size, slides, ui, panel, mail, windowRequests>>

-----------------------------------------------------------------------------
(* layout.ts, at a scale of its own.                                        *)
ChromeHeight == 2
ChatWidth == 3
FindBarHeight == 1
PopoverHeight == 3
SubtitleHeight == 2

Least(a, b) == IF a < b THEN a ELSE b
Most(a, b) == IF a > b THEN a ELSE b
Box(x, y, width, height) == [x |-> x, y |-> y, width |-> width, height |-> height]
NoBox == Box(0, 0, 0, 0)

ComputeLayout(s, width, height) ==
  LET findBar == IF s.findBarOpen /\ ~s.chromeFullscreen THEN FindBarHeight ELSE 0
      popover == IF s.toolbarPopoverOpen /\ ~s.chromeFullscreen THEN PopoverHeight ELSE 0
      slot == Least(s.chatSlotWidth, width)
      pageWidth == width - slot
      bottom == ChromeHeight + findBar
      below == Most(0, height - bottom)
      whole == Box(0, 0, width, height)
      page == IF s.browserFullscreen THEN whole ELSE Box(0, bottom, pageWidth, below)
  IN  [chrome |-> IF s.chromeFullscreen THEN whole
                  ELSE Box(0, 0, IF s.toolbarPopoverOpen THEN pageWidth ELSE width,
                           ChromeHeight + Most(findBar, popover)),
       page |-> page,
       chat |-> IF s.chatFullscreen THEN whole
                ELSE Box(pageWidth, bottom, Least(s.chatWidth, slot), below),
       subtitle |-> Box(page.x, page.y + Most(0, page.height - SubtitleHeight), page.width,
                        Least(SubtitleHeight, page.height))]

(* easeOutCubic between two widths, after k of the slide's frames.           *)
Cubed(n) == n * n * n
Eased(from, to, k) ==
  from + ((to - from) * (Cubed(Frames) - Cubed(Frames - k))) \div Cubed(Frames)

-----------------------------------------------------------------------------
(* The views of the window, lowest first; adding one again raises it.        *)
Views == PageViews \cup {"chrome", "chat", "subtitle"}
Raise(s, view) == [s EXCEPT !.stack = Append(Filtered(@, Views \ {view}), view)]
Detach(s, view) == [s EXCEPT !.stack = Filtered(@, Views \ {view})]
Forget(s, kind) == [s EXCEPT !.last[kind] = NoBox]
RaiseChrome(s) == Forget(Raise(s, "chrome"), "chrome")
RaiseSubtitle(s) == IF s.subtitleAttached THEN Forget(Raise(s, "subtitle"), "subtitle") ELSE s

Kinds == {"chrome", "page", "chat", "subtitle"}
Shown(s) ==
  {"chrome", "page"} \cup (IF s.chatAttached THEN {"chat"} ELSE {})
                     \cup (IF s.subtitleAttached THEN {"subtitle"} ELSE {})
ViewOf(s, kind) == IF kind = "page" THEN s.page ELSE kind

(* relayout: only the shown views whose bounds differ from those last given   *)
(* to them are moved.                                                        *)
Relaid(s) ==
  LET layout == ComputeLayout(s, size.width, size.height)
      moved == {k \in Shown(s) : s.last[k] # layout[k]}
  IN  [s EXCEPT !.last = [k \in Kinds |-> IF k \in moved THEN layout[k] ELSE @[k]],
                !.bounds = [v \in DOMAIN @ |->
                   IF \E k \in moved : ViewOf(s, k) = v
                   THEN layout[CHOOSE k \in moved : ViewOf(s, k) = v] ELSE @[v]]]

(* What a handler leaves: the fields, and with a nudge a resize event.       *)
WindowBecomes(s) == wm' = Relaid(s) /\ UNCHANGED size
Nudged(s) == wm' = Relaid(s) /\ size' = [size EXCEPT !.due = TRUE]

(* setChromeFullscreen, setToolbarPopoverOpen, closeFindBar and              *)
(* setChatFullscreen, as the renderers' messages call them.                  *)
SetChromeFullscreen(active) ==
  IF wm.chromeFullscreen = active THEN UNCHANGED <<wm, size>>
  ELSE Nudged(RaiseChrome([wm EXCEPT !.chromeFullscreen = active]))

SetToolbarPopoverOpen(open) == WindowBecomes([wm EXCEPT !.toolbarPopoverOpen = open])

CloseFindBar == WindowBecomes([wm EXCEPT !.findBarOpen = FALSE])

SetChatFullscreen(active) ==
  IF wm.chatFullscreen = active \/ (active /\ ~wm.chatAttached) THEN UNCHANGED <<wm, size>>
  ELSE Nudged(Forget(Raise([wm EXCEPT !.chatFullscreen = active], "chat"), "chat"))

(* animateChatPanel: opening attaches the panel and reserves its slot; a     *)
(* slide's first frame runs at once.                                         *)
Superseded(s) == [s EXCEPT !.token = @ + 1]

Attached(s) ==
  IF s.chatAttached THEN s
  ELSE RaiseChrome(Forget(Raise([s EXCEPT !.chatAttached = TRUE], "chat"), "chat"))

Toggled ==
  LET opening == ~wm.chatOpen
      s == Superseded([wm EXCEPT !.chatOpen = opening])
      ready == IF opening THEN [Attached(s) EXCEPT !.chatSlotWidth = ChatWidth] ELSE s
  IN  /\ WindowBecomes(ready)
      /\ slides' = slides \cup {[token |-> s.token, from |-> wm.chatWidth,
                                 opening |-> opening, frame |-> 0]}

(* step.  Stale is what makes a slide stop: a later toggle.                  *)
NeverStale(slide) == FALSE
Stale(slide) == slide.token # wm.token

Stepped(slide, k) == Eased(slide.from, IF slide.opening THEN ChatWidth ELSE 0, k)

ClosedPanel(s) ==
  [(IF s.chatAttached THEN [Detach(s, "chat") EXCEPT !.chatAttached = FALSE] ELSE s)
     EXCEPT !.chatSlotWidth = 0]

SlideStep(slide) ==
  /\ slide \in slides
  /\ \/ /\ Stale(slide)
        /\ slides' = slides \ {slide}
        /\ UNCHANGED <<wm, size>>
     \/ /\ ~Stale(slide)
        /\ \E k \in slide.frame + 1 .. Frames :
             LET s == [wm EXCEPT !.chatWidth = Stepped(slide, k)] IN
             \/ /\ k < Frames
                /\ WindowBecomes(s)
                /\ slides' = (slides \ {slide}) \cup {[slide EXCEPT !.frame = k]}
             \/ /\ k = Frames
                /\ WindowBecomes(IF slide.opening THEN s ELSE ClosedPanel(s))
                /\ slides' = slides \ {slide}
  /\ UNCHANGED <<ui, panel, mail, windowRequests>>

-----------------------------------------------------------------------------
(* The chrome renderer.  Its two effects send what they OR together when it  *)
(* changes; the messages arrive in order.                                    *)
WindowRequest == windowRequests < Requests /\ windowRequests' = windowRequests + 1

AnyOpen(set) == set # {}
Effects(next) ==
  (IF AnyOpen(next.overlays) # AnyOpen(ui.overlays)
   THEN <<[call |-> "overlay", open |-> AnyOpen(next.overlays)]>> ELSE <<>>)
  \o (IF AnyOpen(next.popovers) # AnyOpen(ui.popovers)
      THEN <<[call |-> "popover", open |-> AnyOpen(next.popovers)]>> ELSE <<>>)

ChromeShows(next, calls) ==
  /\ ui' = next
  /\ mail' = [mail EXCEPT !.chrome = @ \o calls \o Effects(next)]
  /\ UNCHANGED <<wm, size, slides, panel>>

(* The toolbar's buttons: one popover opens as the others close, or closes.  *)
ClickToolbar(p) ==
  /\ WindowRequest
  /\ \E others \in SUBSET ui.popovers :
       ChromeShows([ui EXCEPT !.popovers =
          IF p \in @ THEN others \ {p} ELSE others \cup {p}], <<>>)

PageNavigated ==
  /\ WindowRequest
  /\ ui.popovers # {}
  /\ ChromeShows([ui EXCEPT !.popovers = {}], <<>>)

(* Settings, downloads, the permission queue and the subtitle notices.       *)
ToggleOverlay(o) ==
  /\ WindowRequest
  /\ ChromeShows([ui EXCEPT !.overlays = IF o \in @ THEN @ \ {o} ELSE @ \cup {o}], <<>>)

ClickChat ==
  /\ WindowRequest
  /\ ChromeShows(ui, <<[call |-> "toggleChat"]>>)

DismissFindBar ==
  /\ WindowRequest
  /\ ui.finding
  /\ ChromeShows([ui EXCEPT !.finding = FALSE], <<[call |-> "closeFindBar"]>>)

ShowFindBar ==
  /\ mail.find > 0
  /\ ui' = [ui EXCEPT !.finding = TRUE]
  /\ mail' = [mail EXCEPT !.find = @ - 1]
  /\ UNCHANGED <<wm, size, slides, panel, windowRequests>>

ChromeCalls ==
  /\ mail.chrome # <<>>
  /\ LET m == mail.chrome[1] IN
       \/ m.call = "overlay" /\ SetChromeFullscreen(m.open) /\ UNCHANGED slides
       \/ m.call = "popover" /\ SetToolbarPopoverOpen(m.open) /\ UNCHANGED slides
       \/ m.call = "closeFindBar" /\ CloseFindBar /\ UNCHANGED slides
       \/ m.call = "toggleChat" /\ Toggled
  /\ mail' = [mail EXCEPT !.chrome = Tail(@)]
  /\ UNCHANGED <<ui, panel, windowRequests>>

-----------------------------------------------------------------------------
(* The chat renderer: the lightbox, and the notice that a name is taken,     *)
(* which main sends after it has opened the panel.                           *)
PanelShows(next) ==
  /\ panel' = next
  /\ mail' = [mail EXCEPT !.chat =
       IF AnyOpen(next) # AnyOpen(panel) THEN Append(@, AnyOpen(next)) ELSE @]

ToggleLightbox ==
  /\ WindowRequest
  /\ "lightbox" \in panel \/ wm.chatAttached
  /\ PanelShows(IF "lightbox" \in panel THEN panel \ {"lightbox"} ELSE panel \cup {"lightbox"})
  /\ UNCHANGED <<wm, size, slides, ui>>

UsernameTaken ==
  /\ WindowRequest
  /\ IF wm.chatOpen THEN UNCHANGED <<wm, size, slides>> ELSE Toggled
  /\ PanelShows(panel \cup {"taken"})
  /\ UNCHANGED ui

(* The notice goes when it is dismissed or another status arrives.           *)
TakenGone ==
  /\ WindowRequest
  /\ "taken" \in panel
  /\ PanelShows(panel \ {"taken"})
  /\ UNCHANGED <<wm, size, slides, ui>>

ChatCalls ==
  /\ mail.chat # <<>>
  /\ SetChatFullscreen(mail.chat[1])
  /\ mail' = [mail EXCEPT !.chat = Tail(@)]
  /\ UNCHANGED <<slides, ui, panel, windowRequests>>

-----------------------------------------------------------------------------
(* The main process: the menu, the tabs' callbacks and the system's events.  *)
OpenFindBar ==
  /\ WindowRequest
  /\ ~wm.chromeFullscreen /\ ~wm.findBarOpen
  /\ WindowBecomes([wm EXCEPT !.findBarOpen = TRUE])
  /\ mail' = [mail EXCEPT !.find = @ + 1]
  /\ UNCHANGED <<slides, ui, panel>>

(* setActivePageView: another tab's view comes in, below chrome and subtitles. *)
SetActivePageView(view) ==
  /\ WindowRequest
  /\ view # wm.page
  /\ LET s == Forget([Detach(wm, wm.page) EXCEPT !.page = view], "page")
     IN  WindowBecomes(RaiseSubtitle(RaiseChrome(Raise(s, view))))
  /\ UNCHANGED <<slides, ui, panel, mail>>

SyncSubtitleOverlay ==
  /\ WindowRequest
  /\ IF wm.subtitleAttached
     THEN /\ wm' = [Detach(wm, "subtitle") EXCEPT !.subtitleAttached = FALSE]
          /\ UNCHANGED size
     ELSE WindowBecomes(RaiseSubtitle([wm EXCEPT !.subtitleAttached = TRUE]))
  /\ UNCHANGED <<slides, ui, panel, mail>>

(* enter-full-screen and leave-full-screen, whoever asked for them; the      *)
(* window's size changes with the system's own resize events.                *)
EnterFullScreen ==
  /\ WindowRequest
  /\ ~wm.browserFullscreen
  /\ LET s == Forget(Raise([wm EXCEPT !.browserFullscreen = TRUE], wm.page), "page")
     IN  WindowBecomes(RaiseSubtitle(s))
  /\ UNCHANGED <<slides, ui, panel, mail>>

LeaveFullScreen ==
  /\ WindowRequest
  /\ wm.browserFullscreen
  /\ WindowBecomes(RaiseChrome([wm EXCEPT !.browserFullscreen = FALSE]))
  /\ UNCHANGED <<slides, ui, panel, mail>>

Resize ==
  /\ WindowRequest
  /\ \E s \in Sizes : s # <<size.width, size.height>> /\
                      size' = [width |-> s[1], height |-> s[2], due |-> TRUE]
  /\ UNCHANGED <<wm, slides, ui, panel, mail>>

Resized ==
  /\ size.due
  /\ wm' = Relaid(wm)
  /\ size' = [size EXCEPT !.due = FALSE]
  /\ UNCHANGED <<slides, ui, panel, mail, windowRequests>>

WindowInit ==
  /\ size \in [width : {s[1] : s \in Sizes}, height : {s[2] : s \in Sizes}, due : {FALSE}]
  /\ <<size.width, size.height>> \in Sizes
  /\ LET first == CHOOSE p \in PageViews : TRUE
         fresh == [chatOpen |-> FALSE, chatWidth |-> 0, chatSlotWidth |-> 0,
                   chatAttached |-> FALSE, token |-> 0, chromeFullscreen |-> FALSE,
                   findBarOpen |-> FALSE, chatFullscreen |-> FALSE,
                   toolbarPopoverOpen |-> FALSE, browserFullscreen |-> FALSE,
                   page |-> first, subtitleAttached |-> FALSE,
                   stack |-> <<first, "chrome">>,
                   bounds |-> [v \in Views |-> NoBox],
                   last |-> [k \in Kinds |-> NoBox]]
     IN  wm = Relaid(fresh)
  /\ slides = {}
  /\ ui = [popovers |-> {}, overlays |-> {}, finding |-> FALSE]
  /\ panel = {}
  /\ mail = [chrome |-> <<>>, chat |-> <<>>, find |-> 0]
  /\ windowRequests = 0

UserNext ==
  \/ \E p \in Popovers : ClickToolbar(p)
  \/ \E o \in Overlays : ToggleOverlay(o)
  \/ PageNavigated \/ ClickChat \/ DismissFindBar \/ ToggleLightbox \/ TakenGone
  \/ UsernameTaken \/ OpenFindBar \/ SyncSubtitleOverlay
  \/ \E v \in PageViews : SetActivePageView(v)
  \/ EnterFullScreen \/ LeaveFullScreen \/ Resize

WindowNext ==
  \/ UserNext
  \/ ShowFindBar \/ ChromeCalls \/ ChatCalls \/ Resized
  \/ \E slide \in slides : SlideStep(slide)

WindowSpec == WindowInit /\ [][WindowNext]_windowVars

(* Timers fire and messages arrive.                                          *)
Fairness ==
  /\ WF_windowVars(\E slide \in slides : SlideStep(slide))
  /\ WF_windowVars(ChromeCalls \/ ChatCalls)

-----------------------------------------------------------------------------
WindowTypeOK ==
  /\ wm.stack \in Seq(Views)
  /\ \A i, j \in DOMAIN wm.stack : wm.stack[i] = wm.stack[j] => i = j
  /\ wm.chatWidth \in 0..ChatWidth /\ wm.chatSlotWidth \in {0, ChatWidth}
  /\ \A s \in slides : s.token <= wm.token /\ s.frame \in 0..Frames - 1
  /\ ui.popovers \subseteq Popovers /\ ui.overlays \subseteq Overlays

Above(a, b) ==
  \E i, j \in DOMAIN wm.stack : i > j /\ wm.stack[i] = a /\ wm.stack[j] = b

(* Every view the manager shows has the bounds the layout gives it now,      *)
(* though most handlers move only the views whose cached bounds changed, and *)
(* the caches survive detaching, tab switches and fullscreen: chrome is over *)
(* the page and captions are over the page, whatever was raised last.        *)
ViewsInPlace ==
  LET layout == ComputeLayout(wm, size.width, size.height) IN
  /\ ~size.due => \A k \in Shown(wm) : wm.bounds[ViewOf(wm, k)] = layout[k]
  /\ ~wm.browserFullscreen => Above("chrome", wm.page)
  /\ wm.subtitleAttached => Above("subtitle", wm.page)

(* When its messages have arrived, the chrome has the room its open popovers, *)
(* dialogs and find bar need and no more: the window and a renderer that     *)
(* each keep half of the state do not drift apart.                           *)
OverlaysHaveRoom ==
  /\ mail.chrome = <<>> => /\ wm.chromeFullscreen = AnyOpen(ui.overlays)
                           /\ wm.toolbarPopoverOpen = AnyOpen(ui.popovers)
  /\ mail.chrome = <<>> /\ mail.find = 0 => wm.findBarOpen = ui.finding

(* A panel that no timer is moving is where its state says: open, of full    *)
(* width with the page beside it, or closed, detached and the page given its *)
(* width back - however the toggles overlapped.                              *)
PanelAtRest ==
  (\A s \in slides : Stale(s)) =>
     /\ wm.chatAttached = wm.chatOpen
     /\ wm.chatWidth = wm.chatSlotWidth
     /\ wm.chatWidth = IF wm.chatOpen THEN ChatWidth ELSE 0

WindowSound == ViewsInPlace /\ OverlaysHaveRoom /\ PanelAtRest

(* Once the toggles end every slide ends, and the panel is at rest.          *)
PanelSettles == <>[](slides = {})

(* windowManager.ts:321: "already attached - just reorders to the top".      *)
DetachedStaysDetached ==
  (\E i \in DOMAIN wm.stack : wm.stack[i] = "chat") => wm.chatAttached
=============================================================================
