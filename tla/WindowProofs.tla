---------------------------- MODULE WindowProofs ----------------------------
(***************************************************************************)
(* Proofs about Window, for any sizes, page views, popovers, dialogs and   *)
(* frames of a slide, and any number of requests; and about Tabs, for any  *)
(* sites, chat servers and limits, and any number of events, quits,        *)
(* crashes and restarts.                                                   *)
(***************************************************************************)
EXTENDS Window, Tabs, ListProofs

-----------------------------------------------------------------------------
(* The views: what the caches and the stack are whatever was called last,    *)
(* and where every shown view is unless a resize event is due.               *)
WmFields ==
  {"chatOpen", "chatWidth", "chatSlotWidth", "chatAttached", "token", "chromeFullscreen",
   "findBarOpen", "chatFullscreen", "toolbarPopoverOpen", "browserFullscreen", "page",
   "subtitleAttached", "stack", "bounds", "last"}
Same(t, s, but) == DOMAIN t = WmFields /\ \A f \in WmFields \ but : t[f] = s[f]

(* A view that is not forgotten has the bounds last given to its kind.       *)
Cached(s) == \A k \in Kinds : s.last[k] = NoBox \/ s.bounds[ViewOf(s, k)] = s.last[k]
Base(s) ==
  /\ DOMAIN s = WmFields /\ s.page \in PageViews /\ s.stack \in Seq(Views)
  /\ DOMAIN s.bounds = Views /\ DOMAIN s.last = Kinds /\ Cached(s)
Under(s, view) == s.page \in Elems(s.stack) /\ Before(s.stack, s.page, view)
Over(s) ==
  /\ s.page \in Elems(s.stack)
  /\ ~s.browserFullscreen => Under(s, "chrome")
  /\ s.subtitleAttached => Under(s, "subtitle")
InPlace(s, width, height) ==
  \A k \in Shown(s) : s.bounds[ViewOf(s, k)] = ComputeLayout(s, width, height)[k]
SizeOK ==
  /\ DOMAIN size = {"width", "height", "due"}
  /\ size.width \in Nat \ {0} /\ size.height \in Nat \ {0}
PlaceInv ==
  /\ Base(wm) /\ Over(wm) /\ SizeOK
  /\ size.due = TRUE \/ InPlace(wm, size.width, size.height)

-----------------------------------------------------------------------------
(* The layout gives every view an area, or a place off the corner.           *)
LEMMA SomeBox ==
  ASSUME NEW s, NEW width \in Nat \ {0}, NEW height \in Nat \ {0}, NEW k \in Kinds
  PROVE  ComputeLayout(s, width, height)[k] # NoBox
<1>1. PICK findBar \in {0, 1} :
        findBar = IF s.findBarOpen /\ ~s.chromeFullscreen THEN FindBarHeight ELSE 0
  BY DEF FindBarHeight
<1>2. PICK popover \in {0, 3} :
        popover = IF s.toolbarPopoverOpen /\ ~s.chromeFullscreen THEN PopoverHeight ELSE 0
  BY DEF PopoverHeight
<1>3. PICK slot : slot = Least(s.chatSlotWidth, width)
  OBVIOUS
<1>4. PICK pageWidth : pageWidth = width - slot
  OBVIOUS
<1>5. PICK bottom \in Nat \ {0} : bottom = ChromeHeight + findBar
  BY DEF ChromeHeight
<1>6. PICK below \in Nat : below = Most(0, height - bottom)
  <2>1. Most(0, height - bottom) \in Nat
    BY DEF Most
  <2> QED
    BY <2>1
<1>7. PICK whole : whole = Box(0, 0, width, height)
  OBVIOUS
<1>8. PICK pg : pg = IF s.browserFullscreen THEN whole ELSE Box(0, bottom, pageWidth, below)
  OBVIOUS
<1>9. whole # NoBox
  BY <1>7 DEF Box, NoBox
<1>10. pg # NoBox /\ (pg = whole \/ (pg.y = bottom /\ pg.height = below))
  BY <1>8, <1>9 DEF Box, NoBox
<1>11. PICK chrome : chrome =
         IF s.chromeFullscreen THEN whole
         ELSE Box(0, 0, IF s.toolbarPopoverOpen THEN pageWidth ELSE width,
                  ChromeHeight + Most(findBar, popover))
  OBVIOUS
<1>12. chrome # NoBox
  <2>1. ChromeHeight + Most(findBar, popover) # 0
    BY DEF ChromeHeight, Most
  <2> QED
    BY <1>9, <1>11, <2>1 DEF Box, NoBox
<1>13. PICK chat : chat = IF s.chatFullscreen THEN whole
                          ELSE Box(pageWidth, bottom, Least(s.chatWidth, slot), below)
  OBVIOUS
<1>14. chat # NoBox
  BY <1>9, <1>13 DEF Box, NoBox
<1>15. PICK caption : caption = Box(pg.x, pg.y + Most(0, pg.height - SubtitleHeight), pg.width,
                                    Least(SubtitleHeight, pg.height))
  OBVIOUS
<1>16. caption # NoBox
  <2>1. CASE pg = whole
    <3>1. pg.width = width
      BY <1>7, <2>1 DEF Box
    <3> QED
      BY <1>15, <3>1 DEF Box, NoBox
  <2>2. CASE pg.y = bottom /\ pg.height = below
    <3>1. pg.y + Most(0, pg.height - SubtitleHeight) # 0
      BY <2>2 DEF Most, SubtitleHeight
    <3> QED
      BY <1>15, <3>1 DEF Box, NoBox
  <2> QED
    BY <1>10, <2>1, <2>2
<1>17. ComputeLayout(s, width, height) =
         [chrome |-> chrome, page |-> pg, chat |-> chat, subtitle |-> caption]
  BY <1>1, <1>2, <1>3, <1>4, <1>5, <1>6, <1>7, <1>8, <1>11, <1>13, <1>15, Zenon DEF ComputeLayout
<1> QED
  BY <1>10, <1>12, <1>14, <1>16, <1>17 DEF Kinds

LEMMA SameLayout ==
  ASSUME NEW s, NEW t, NEW width, NEW height, Same(t, s, {"page", "stack", "bounds", "last",
         "subtitleAttached", "token", "chatOpen", "chatAttached"})
  PROVE  ComputeLayout(t, width, height) = ComputeLayout(s, width, height)
<1>1. /\ t.findBarOpen = s.findBarOpen /\ t.chromeFullscreen = s.chromeFullscreen
      /\ t.toolbarPopoverOpen = s.toolbarPopoverOpen /\ t.chatSlotWidth = s.chatSlotWidth
      /\ t.browserFullscreen = s.browserFullscreen /\ t.chatFullscreen = s.chatFullscreen
      /\ t.chatWidth = s.chatWidth
  BY DEF Same, WmFields
<1> QED
  BY <1>1, SMT DEF ComputeLayout

LEMMA ViewsApart ==
  ASSUME NEW s, s.page \in PageViews, NEW j \in Kinds, NEW k \in Kinds,
         ViewOf(s, j) = ViewOf(s, k)
  PROVE  j = k
  BY WindowAssumption DEF ViewOf, Kinds

LEMMA ViewOfIs ==
  ASSUME NEW s, s.page \in PageViews, NEW k \in Kinds
  PROVE  ViewOf(s, k) \in Views
  BY DEF ViewOf, Kinds, Views

(* relayout leaves every shown view where the layout puts it.                *)
LEMMA RelaidFacts ==
  ASSUME NEW s, Base(s), SizeOK
  PROVE  /\ Base(Relaid(s)) /\ Same(Relaid(s), s, {"bounds", "last"})
         /\ InPlace(Relaid(s), size.width, size.height)
<1>1. PICK layout : layout = ComputeLayout(s, size.width, size.height)
  OBVIOUS
<1>2. \A k \in Kinds : layout[k] # NoBox
  BY <1>1, SomeBox DEF SizeOK
<1>3. PICK moved : moved = {k \in Shown(s) : s.last[k] # layout[k]}
  OBVIOUS
<1>4. Shown(s) \subseteq Kinds /\ moved \subseteq Kinds
  BY <1>3 DEF Shown, Kinds
<1>5. PICK last : last = [k \in Kinds |-> IF k \in moved THEN layout[k] ELSE s.last[k]]
  OBVIOUS
<1>6. PICK bounds : bounds = [v \in Views |->
                      IF \E k \in moved : ViewOf(s, k) = v
                      THEN layout[CHOOSE k \in moved : ViewOf(s, k) = v] ELSE s.bounds[v]]
  OBVIOUS
<1>7. PICK t : t = Relaid(s)
  OBVIOUS
<1>8. t = [s EXCEPT !.last = last, !.bounds = bounds]
  BY <1>1, <1>3, <1>5, <1>6, <1>7 DEF Relaid, Base
<1>9. Same(t, s, {"bounds", "last"}) /\ t.last = last /\ t.bounds = bounds
  BY <1>8 DEF Base, Same, WmFields
<1>10. t.page = s.page /\ t.stack = s.stack
  BY <1>9 DEF Same, WmFields
<1>11. \A k \in Kinds : ViewOf(t, k) = ViewOf(s, k)
  BY <1>10 DEF ViewOf
<1>12. s.page \in PageViews
  BY DEF Base
<1>13. ASSUME NEW k \in moved PROVE bounds[ViewOf(s, k)] = layout[k] /\ last[k] = layout[k]
  <2>1. PICK c : c = CHOOSE j \in moved : ViewOf(s, j) = ViewOf(s, k)
    OBVIOUS
  <2>2. c \in moved /\ ViewOf(s, c) = ViewOf(s, k)
    BY <2>1
  <2>3. c = k
    BY <1>4, <1>12, <2>2, ViewsApart
  <2>4. ViewOf(s, k) \in Views
    BY <1>4, <1>12, ViewOfIs
  <2>5. bounds[ViewOf(s, k)] = layout[c]
    BY <1>6, <2>1, <2>4
  <2> QED
    BY <1>4, <1>5, <2>3, <2>5
<1>14. ASSUME NEW k \in Kinds, k \notin moved
       PROVE  bounds[ViewOf(s, k)] = s.bounds[ViewOf(s, k)] /\ last[k] = s.last[k]
  <2>1. ~\E j \in moved : ViewOf(s, j) = ViewOf(s, k)
    BY <1>4, <1>12, <1>14, ViewsApart
  <2>2. ViewOf(s, k) \in Views
    BY <1>12, ViewOfIs
  <2> QED
    BY <1>5, <1>6, <1>14, <2>1, <2>2
<1>15. Cached(t)
  <2>1. ASSUME NEW k \in Kinds PROVE t.last[k] = NoBox \/ t.bounds[ViewOf(t, k)] = t.last[k]
    <3>1. CASE k \in moved
      BY <1>9, <1>11, <1>13, <3>1
    <3>2. CASE k \notin moved
      BY <1>9, <1>11, <1>14, <3>2 DEF Base, Cached
    <3> QED
      BY <3>1, <3>2
  <2> QED
    BY <2>1 DEF Cached
<1>16. Base(t)
  <2>1. DOMAIN t.bounds = Views /\ DOMAIN t.last = Kinds
    BY <1>5, <1>6, <1>9
  <2> QED
    BY <1>9, <1>10, <1>15, <2>1 DEF Base, Same
<1>17. Shown(t) = Shown(s)
  <2>1. t.chatAttached = s.chatAttached /\ t.subtitleAttached = s.subtitleAttached
    BY <1>9 DEF Same, WmFields
  <2> QED
    BY <2>1, Zenon DEF Shown
<1>18. ComputeLayout(t, size.width, size.height) = layout
  <2>1. Same(t, s, {"page", "stack", "bounds", "last", "subtitleAttached", "token",
                    "chatOpen", "chatAttached"})
    BY <1>9 DEF Same
  <2> QED
    BY <1>1, <2>1, SameLayout
<1>19. ASSUME NEW k \in Shown(t) PROVE t.bounds[ViewOf(t, k)] = layout[k]
  <2>1. k \in Kinds /\ k \in Shown(s)
    BY <1>4, <1>17
  <2>2. CASE k \in moved
    BY <1>9, <1>11, <1>13, <2>1, <2>2
  <2>3. CASE k \notin moved
    <3>1. s.last[k] = layout[k] /\ layout[k] # NoBox
      BY <1>2, <1>3, <2>1, <2>3
    <3>2. s.bounds[ViewOf(s, k)] = layout[k]
      BY <2>1, <3>1 DEF Base, Cached
    <3> QED
      BY <1>9, <1>11, <1>14, <2>1, <2>3, <3>2
  <2> QED
    BY <2>2, <2>3
<1> QED
  BY <1>7, <1>9, <1>16, <1>18, <1>19 DEF InPlace
-----------------------------------------------------------------------------
(* What the views' operations keep.                                          *)
LEMMA BaseKept ==
  ASSUME NEW s, Base(s), NEW t, Same(t, s, WmFields \ {"page", "stack", "bounds", "last"})
  PROVE  Base(t)
<1>1. t.page = s.page /\ t.stack = s.stack /\ t.bounds = s.bounds /\ t.last = s.last
  BY DEF Same, WmFields
<1>2. \A k : ViewOf(t, k) = ViewOf(s, k)
  BY <1>1 DEF ViewOf
<1> QED
  BY <1>1, <1>2 DEF Base, Cached, Same

Restacked(new, old, view) ==
  /\ new \in Seq(Views)
  /\ \A a \in Elems(old) : a # view => a \in Elems(new)
  /\ \A a, b : a # view /\ b # view /\ Before(old, a, b) => Before(new, a, b)
OnTop(new, old, view) == view \in Elems(new) /\ \A a \in Elems(old) : a # view => Before(new, a, view)

LEMMA StackFacts ==
  ASSUME NEW old \in Seq(Views), NEW view \in Views, NEW lower, lower = Filtered(old, Views \ {view}),
         NEW new, new = Append(lower, view)
  PROVE  Restacked(lower, old, view) /\ Restacked(new, old, view) /\ OnTop(new, old, view)
<1>1. PICK kept : kept = Views \ {view}
  OBVIOUS
<1>2. PICK f \in Seq(Views) : f = Filtered(old, kept)
  BY FilterPicks
<1>3. /\ Elems(f) = Elems(old) \cap kept
      /\ \A a, b \in kept : Before(old, a, b) => Before(f, a, b)
  BY <1>2, FilterSelects
<1>4. Behind(new, f, view)
  BY <1>1, <1>2, Zenon DEF Behind
<1>5. /\ new \in Seq(Views)
      /\ \A a \in Elems(f) : Before(new, a, view)
      /\ \A a, b : Before(f, a, b) => Before(new, a, b)
  BY <1>4, BehindElems, BehindBefore
<1>6. \A a \in Elems(f) : a \in Elems(new)
  BY <1>4, BehindElems
<1>7. view \in Elems(new)
  BY <1>4, BehindElems
<1>8. Elems(old) \subseteq Views
  BY LenProperties DEF Elems
<1>9. \A a, b : Before(old, a, b) => a \in Elems(old) /\ b \in Elems(old)
  BY DEF Before, Elems
<1>10. \A a \in Elems(old) : a # view => a \in kept /\ a \in Elems(f)
  BY <1>1, <1>3, <1>8
<1>11. \A a, b : a # view /\ b # view /\ Before(old, a, b) => Before(f, a, b)
  BY <1>3, <1>9, <1>10
<1>12. lower = f
  BY <1>1, <1>2
<1>13. Restacked(f, old, view)
  BY <1>10, <1>11 DEF Restacked
<1>14. Restacked(new, old, view)
  <2>1. \A a, b : a # view /\ b # view /\ Before(old, a, b) => Before(new, a, b)
    BY <1>5, <1>11, Zenon
  <2> QED
    BY <1>5, <1>6, <1>10, <2>1, Zenon DEF Restacked
<1>15. OnTop(new, old, view)
  BY <1>5, <1>7, <1>10 DEF OnTop
<1> QED
  BY <1>12, <1>13, <1>14, <1>15, Zenon

LEMMA RaiseFacts ==
  ASSUME NEW s, Base(s), NEW view \in Views
  PROVE  /\ Base(Raise(s, view)) /\ Same(Raise(s, view), s, {"stack"})
         /\ Restacked(Raise(s, view).stack, s.stack, view) /\ OnTop(Raise(s, view).stack, s.stack, view)
<1>1. PICK new : new = Append(Filtered(s.stack, Views \ {view}), view)
  OBVIOUS
<1>2. PICK t : t = Raise(s, view)
  OBVIOUS
<1>3. t = [s EXCEPT !.stack = new]
  BY <1>1, <1>2 DEF Raise
<1>4. Same(t, s, {"stack"}) /\ t.stack = new
  BY <1>3 DEF Base, Same, WmFields
<1>5. s.stack \in Seq(Views)
  BY DEF Base
<1>6. Restacked(new, s.stack, view) /\ OnTop(new, s.stack, view)
  BY <1>1, <1>5, StackFacts
<1>7. Base(t)
  <2>1. t.page = s.page /\ t.bounds = s.bounds /\ t.last = s.last
    BY <1>4 DEF Same, WmFields
  <2>2. \A k : ViewOf(t, k) = ViewOf(s, k)
    BY <2>1 DEF ViewOf
  <2> QED
    BY <1>4, <1>6, <2>1, <2>2 DEF Base, Cached, Same, Restacked
<1> QED
  BY <1>2, <1>4, <1>6, <1>7

LEMMA DetachFacts ==
  ASSUME NEW s, Base(s), NEW view \in Views
  PROVE  /\ Base(Detach(s, view)) /\ Same(Detach(s, view), s, {"stack"})
         /\ Restacked(Detach(s, view).stack, s.stack, view)
<1>1. PICK new : new = Filtered(s.stack, Views \ {view})
  OBVIOUS
<1>2. PICK t : t = Detach(s, view)
  OBVIOUS
<1>3. t = [s EXCEPT !.stack = new]
  BY <1>1, <1>2 DEF Detach
<1>4. Same(t, s, {"stack"}) /\ t.stack = new
  BY <1>3 DEF Base, Same, WmFields
<1>5. s.stack \in Seq(Views)
  BY DEF Base
<1>6. Restacked(new, s.stack, view)
  BY <1>1, <1>5, StackFacts
<1>7. Base(t)
  <2>1. t.page = s.page /\ t.bounds = s.bounds /\ t.last = s.last
    BY <1>4 DEF Same, WmFields
  <2>2. \A k : ViewOf(t, k) = ViewOf(s, k)
    BY <2>1 DEF ViewOf
  <2> QED
    BY <1>4, <1>6, <2>1, <2>2 DEF Base, Cached, Same, Restacked
<1> QED
  BY <1>2, <1>4, <1>6, <1>7

LEMMA ForgetFacts ==
  ASSUME NEW s, Base(s), NEW kind \in Kinds
  PROVE  /\ Base(Forget(s, kind)) /\ Same(Forget(s, kind), s, {"last"})
         /\ Forget(s, kind).last[kind] = NoBox /\ Forget(s, kind).stack = s.stack
<1>1. PICK last : last = [s.last EXCEPT ![kind] = NoBox]
  OBVIOUS
<1>2. PICK t : t = Forget(s, kind)
  OBVIOUS
<1>3. t = [s EXCEPT !.last = last]
  BY <1>1, <1>2 DEF Forget
<1>4. Same(t, s, {"last"}) /\ t.last = last
  BY <1>3 DEF Base, Same, WmFields
<1>5. t.page = s.page /\ t.bounds = s.bounds /\ t.stack = s.stack
  BY <1>4 DEF Same, WmFields
<1>6. \A k : ViewOf(t, k) = ViewOf(s, k)
  BY <1>5 DEF ViewOf
<1>7. DOMAIN last = Kinds /\ last[kind] = NoBox
      /\ \A k \in Kinds : last[k] = NoBox \/ last[k] = s.last[k]
  BY <1>1 DEF Base
<1>8. Base(t)
  BY <1>4, <1>5, <1>6, <1>7 DEF Base, Cached, Same
<1> QED
  BY <1>2, <1>4, <1>5, <1>7, <1>8

(* Chrome or captions raised to the top.                                     *)
LEMMA RaiseChromeFacts ==
  ASSUME NEW s, Base(s), s.page \in Elems(s.stack)
  PROVE  /\ Base(RaiseChrome(s)) /\ Same(RaiseChrome(s), s, {"stack", "last"})
         /\ RaiseChrome(s).page \in Elems(RaiseChrome(s).stack)
         /\ Under(RaiseChrome(s), "chrome")
         /\ Under(s, "subtitle") => Under(RaiseChrome(s), "subtitle")
<1>1. "chrome" \in Views /\ "chrome" \in Kinds
  BY DEF Views, Kinds
<1>2. PICK r : r = Raise(s, "chrome")
  OBVIOUS
<1>3. Base(r) /\ Same(r, s, {"stack"}) /\ Restacked(r.stack, s.stack, "chrome")
      /\ OnTop(r.stack, s.stack, "chrome")
  BY <1>1, <1>2, RaiseFacts
<1>4. PICK t : t = RaiseChrome(s)
  OBVIOUS
<1>5. Base(t) /\ Same(t, r, {"last"}) /\ t.stack = r.stack
  BY <1>1, <1>2, <1>3, <1>4, ForgetFacts DEF RaiseChrome
<1>6. Same(t, s, {"stack", "last"}) /\ t.page = s.page
  BY <1>3, <1>5 DEF Same, WmFields
<1>7. s.page # "chrome" /\ s.page # "subtitle"
  BY WindowAssumption DEF Base
<1>8. t.page \in Elems(t.stack)
  BY <1>3, <1>5, <1>6, <1>7 DEF Restacked
<1>9. Under(t, "chrome")
  BY <1>3, <1>5, <1>6, <1>7, <1>8 DEF OnTop, Under
<1>10. Under(s, "subtitle") => Under(t, "subtitle")
  BY <1>3, <1>5, <1>6, <1>7, <1>8 DEF Restacked, Under
<1> QED
  BY <1>4, <1>5, <1>6, <1>8, <1>9, <1>10

LEMMA RaiseSubtitleFacts ==
  ASSUME NEW s, Base(s), s.page \in Elems(s.stack)
  PROVE  /\ Base(RaiseSubtitle(s)) /\ Same(RaiseSubtitle(s), s, {"stack", "last"})
         /\ RaiseSubtitle(s).page \in Elems(RaiseSubtitle(s).stack)
         /\ s.subtitleAttached => Under(RaiseSubtitle(s), "subtitle")
         /\ Under(s, "chrome") => Under(RaiseSubtitle(s), "chrome")
<1>1. "subtitle" \in Views /\ "subtitle" \in Kinds
  BY DEF Views, Kinds
<1>2. CASE ~s.subtitleAttached
  <2>1. RaiseSubtitle(s) = s
    BY <1>2 DEF RaiseSubtitle
  <2>2. Same(s, s, {"stack", "last"})
    BY DEF Same, Base
  <2> QED
    BY <1>2, <2>1, <2>2
<1>3. CASE s.subtitleAttached
  <2>2. PICK r : r = Raise(s, "subtitle")
    OBVIOUS
  <2>3. Base(r) /\ Same(r, s, {"stack"}) /\ Restacked(r.stack, s.stack, "subtitle")
        /\ OnTop(r.stack, s.stack, "subtitle")
    BY <1>1, <2>2, RaiseFacts
  <2>4. PICK t : t = RaiseSubtitle(s)
    OBVIOUS
  <2>11. t = Forget(r, "subtitle")
    BY <1>3, <2>2, <2>4 DEF RaiseSubtitle
  <2>5. Base(t) /\ Same(t, r, {"last"}) /\ t.stack = r.stack
    BY <1>1, <2>3, <2>11, ForgetFacts
  <2>6. Same(t, s, {"stack", "last"}) /\ t.page = s.page
    BY <2>3, <2>5 DEF Same, WmFields
  <2>7. s.page # "chrome" /\ s.page # "subtitle"
    BY WindowAssumption DEF Base
  <2>8. t.page \in Elems(t.stack)
    BY <2>3, <2>5, <2>6, <2>7 DEF Restacked
  <2>9. Under(t, "subtitle")
    BY <2>3, <2>5, <2>6, <2>7, <2>8 DEF OnTop, Under
  <2>10. Under(s, "chrome") => Under(t, "chrome")
    BY <2>3, <2>5, <2>6, <2>7, <2>8 DEF Restacked, Under
  <2> QED
    BY <2>4, <2>5, <2>6, <2>8, <2>9, <2>10
<1> QED
  BY <1>2, <1>3

(* The chat is no part of the order that matters.                            *)
LEMMA ChatMovedFacts ==
  ASSUME NEW s, Base(s), Over(s), NEW t \in {Raise(s, "chat"), Detach(s, "chat")}
  PROVE  Base(t) /\ Same(t, s, {"stack"}) /\ Over(t)
<1>1. "chat" \in Views
  BY DEF Views
<1>2. Base(t) /\ Same(t, s, {"stack"}) /\ Restacked(t.stack, s.stack, "chat")
  BY <1>1, RaiseFacts, DetachFacts
<1>3. t.page = s.page /\ t.browserFullscreen = s.browserFullscreen
      /\ t.subtitleAttached = s.subtitleAttached
  BY <1>2 DEF Same, WmFields
<1>4. s.page # "chat"
  BY WindowAssumption DEF Base
<1>5. t.page \in Elems(t.stack)
  BY <1>2, <1>3, <1>4 DEF Restacked, Over
<1>6. Under(s, "chrome") => Under(t, "chrome")
  BY <1>2, <1>3, <1>4, <1>5 DEF Restacked, Under
<1>7. Under(s, "subtitle") => Under(t, "subtitle")
  BY <1>2, <1>3, <1>4, <1>5 DEF Restacked, Under
<1> QED
  BY <1>2, <1>3, <1>5, <1>6, <1>7 DEF Over

LEMMA OverKept ==
  ASSUME NEW s, Over(s), NEW t,
         t.page = s.page, t.stack = s.stack, t.browserFullscreen = s.browserFullscreen,
         t.subtitleAttached = s.subtitleAttached
  PROVE  Over(t)
  BY DEF Over, Under

LEMMA ChromeUpOver ==
  ASSUME NEW s, Base(s), Over(s)
  PROVE  Over(RaiseChrome(s))
<1>1. PICK t : t = RaiseChrome(s)
  OBVIOUS
<1>2. /\ Base(t) /\ Same(t, s, {"stack", "last"}) /\ t.page \in Elems(t.stack)
      /\ Under(t, "chrome") /\ (Under(s, "subtitle") => Under(t, "subtitle"))
  BY <1>1, RaiseChromeFacts DEF Over
<1>3. t.subtitleAttached = s.subtitleAttached
  BY <1>2 DEF Same, WmFields
<1> QED
  BY <1>1, <1>2, <1>3 DEF Over

(* What a handler leaves.                                                    *)
LEMMA PlaceLeft ==
  ASSUME SizeOK, NEW s, Base(s), Over(s), wm' = Relaid(s),
         /\ DOMAIN size' = DOMAIN size
         /\ size'.width = size.width /\ size'.height = size.height
  PROVE  PlaceInv' /\ Same(wm', s, {"bounds", "last"})
<1>1. PICK t : t = Relaid(s)
  OBVIOUS
<1>2. Base(t) /\ Same(t, s, {"bounds", "last"}) /\ InPlace(t, size.width, size.height)
  BY <1>1, RelaidFacts
<1>3. Over(t)
  <2>1. /\ t.page = s.page /\ t.stack = s.stack /\ t.browserFullscreen = s.browserFullscreen
        /\ t.subtitleAttached = s.subtitleAttached
    BY <1>2 DEF Same, WmFields
  <2> QED
    BY <2>1, OverKept
<1>4. /\ wm' = t /\ DOMAIN size' = DOMAIN size
      /\ size'.width = size.width /\ size'.height = size.height
  BY <1>1
<1> QED
  BY <1>2, <1>3, <1>4 DEF PlaceInv, SizeOK
-----------------------------------------------------------------------------
(* The messages of the chrome.                                               *)
Calls == [call : {"overlay", "popover"}, open : BOOLEAN] \cup [call : {"toggleChat", "closeFindBar"}]
Coming(list, call, was, now) ==
  \/ was = now /\ \A n \in DOMAIN list : list[n].call # call
  \/ \E n \in DOMAIN list :
       /\ list[n].call = call /\ list[n].open = now
       /\ \A k \in DOMAIN list : k > n => list[k].call # call
NoClose(list) == \A n \in DOMAIN list : list[n].call # "closeFindBar"
OneClose(list) ==
  \E n \in DOMAIN list : /\ list[n].call = "closeFindBar"
                         /\ \A k \in DOMAIN list : list[k].call = "closeFindBar" => k = n
Joined(l, a, b) == l = a \o b

LEMMA JoinedFacts ==
  ASSUME NEW S, NEW a \in Seq(S), NEW b \in Seq(S), NEW l, Joined(l, a, b)
  PROVE  /\ l \in Seq(S) /\ DOMAIN a \subseteq DOMAIN l
         /\ \A i \in DOMAIN a : l[i] = a[i] /\ i \in Nat /\ i <= Len(a)
         /\ \A j \in DOMAIN b : /\ j \in Nat /\ j > 0 /\ Len(a) + j \in DOMAIN l
                                /\ l[Len(a) + j] = b[j]
         /\ \A k \in DOMAIN l : \/ k \in DOMAIN a
                                \/ k > Len(a) /\ k - Len(a) \in DOMAIN b /\ l[k] = b[k - Len(a)]
         /\ Len(a) \in Nat
<1>1. PICK m \in Nat, n \in Nat : /\ m = Len(a) /\ n = Len(b)
                                  /\ DOMAIN a = 1..m /\ DOMAIN b = 1..n
  BY LenProperties
<1>2. /\ l \in Seq(S) /\ Len(l) = m + n
      /\ \A i \in 1..m + n : l[i] = IF i <= m THEN a[i] ELSE b[i - m]
  BY <1>1, ConcatProperties DEF Joined
<1>3. DOMAIN l = 1..m + n
  BY <1>2, LenProperties
<1>4. \A i \in DOMAIN a : i \in DOMAIN l /\ l[i] = a[i] /\ i \in Nat /\ i <= m
  BY <1>1, <1>2, <1>3
<1>5. \A j \in DOMAIN b : j \in Nat /\ j > 0 /\ m + j \in DOMAIN l /\ l[m + j] = b[j]
  <2>1. ASSUME NEW j \in 1..n PROVE m + j \in 1..m + n /\ l[m + j] = b[j]
    <3>1. m + j \in 1..m + n /\ ~(m + j <= m) /\ (m + j) - m = j
      OBVIOUS
    <3> QED
      BY <1>2, <3>1
  <2>2. \A j \in 1..n : j \in Nat /\ j > 0
    OBVIOUS
  <2> QED
    BY <1>1, <1>3, <2>1, <2>2
<1>6. \A k \in DOMAIN l : k \in DOMAIN a \/ (k > m /\ k - m \in DOMAIN b /\ l[k] = b[k - m])
  BY <1>1, <1>2, <1>3
<1> QED
  BY <1>1, <1>2, <1>4, <1>5, <1>6

LEMMA ComingJoined ==
  ASSUME NEW S, NEW a \in Seq(S), NEW b \in Seq(S), NEW l, Joined(l, a, b), NEW call,
         NEW was, NEW mid, NEW now, Coming(a, call, was, mid), Coming(b, call, mid, now)
  PROVE  Coming(l, call, was, now)
<1>1. /\ DOMAIN a \subseteq DOMAIN l
      /\ \A i \in DOMAIN a : l[i] = a[i] /\ i \in Nat /\ i <= Len(a)
      /\ \A j \in DOMAIN b : j \in Nat /\ j > 0 /\ Len(a) + j \in DOMAIN l /\ l[Len(a) + j] = b[j]
      /\ \A k \in DOMAIN l : \/ k \in DOMAIN a
                             \/ k > Len(a) /\ k - Len(a) \in DOMAIN b /\ l[k] = b[k - Len(a)]
      /\ Len(a) \in Nat
  BY JoinedFacts
<1>2. CASE mid = now /\ \A n \in DOMAIN b : b[n].call # call
  <2>1. CASE was = mid /\ \A n \in DOMAIN a : a[n].call # call
    <3>1. \A k \in DOMAIN l : l[k].call # call
      BY <1>1, <1>2, <2>1
    <3> QED
      BY <1>2, <2>1, <3>1 DEF Coming
  <2>2. ASSUME NEW n \in DOMAIN a, a[n].call = call, a[n].open = mid,
               \A k \in DOMAIN a : k > n => a[k].call # call
        PROVE  Coming(l, call, was, now)
    <3>1. \A k \in DOMAIN l : k > n => l[k].call # call
      BY <1>1, <1>2, <2>2
    <3>2. n \in DOMAIN l /\ l[n] = a[n]
      BY <1>1
    <3> QED
      BY <1>2, <2>2, <3>1, <3>2 DEF Coming
  <2> QED
    BY <2>1, <2>2 DEF Coming
<1>3. ASSUME NEW n \in DOMAIN b, b[n].call = call, b[n].open = now,
             \A k \in DOMAIN b : k > n => b[k].call # call
      PROVE  Coming(l, call, was, now)
  <2>1. PICK p : p = Len(a) + n
    OBVIOUS
  <2>2. p \in DOMAIN l /\ l[p] = b[n] /\ n \in Nat /\ p > Len(a)
    BY <1>1, <2>1
  <2>3. \A k \in DOMAIN l : k > p => l[k].call # call
    <3>1. ASSUME NEW k \in DOMAIN l, k > p PROVE l[k].call # call
      <4>1. k \notin DOMAIN a
        BY <1>1, <2>1, <2>2, <3>1
      <4>2. k - Len(a) \in DOMAIN b /\ l[k] = b[k - Len(a)]
        BY <1>1, <4>1
      <4>3. PICK d \in DOMAIN b : d = k - Len(a) /\ l[k] = b[d]
        BY <4>2
      <4>4. d \in Nat /\ k \in Nat
        BY <1>1, <4>3, JoinedFacts, LenProperties
      <4>5. d > n
        BY <1>1, <2>1, <2>2, <3>1, <4>3, <4>4
      <4> QED
        BY <1>3, <4>3, <4>5
    <3> QED
      BY <3>1
  <2> QED
    BY <1>3, <2>2, <2>3 DEF Coming
<1> QED
  BY <1>2, <1>3 DEF Coming

LEMMA ClosesJoined ==
  ASSUME NEW S, NEW a \in Seq(S), NEW b \in Seq(S), NEW l, Joined(l, a, b)
  PROVE  /\ NoClose(a) /\ NoClose(b) => NoClose(l)
         /\ OneClose(a) /\ NoClose(b) => OneClose(l)
         /\ NoClose(a) /\ OneClose(b) => OneClose(l)
<1>1. /\ DOMAIN a \subseteq DOMAIN l
      /\ \A i \in DOMAIN a : l[i] = a[i] /\ i \in Nat /\ i <= Len(a)
      /\ \A j \in DOMAIN b : j \in Nat /\ j > 0 /\ Len(a) + j \in DOMAIN l /\ l[Len(a) + j] = b[j]
      /\ \A k \in DOMAIN l : \/ k \in DOMAIN a
                             \/ k > Len(a) /\ k - Len(a) \in DOMAIN b /\ l[k] = b[k - Len(a)]
      /\ Len(a) \in Nat
  BY JoinedFacts
<1>2. ASSUME NoClose(a), NoClose(b) PROVE NoClose(l)
  BY <1>1, <1>2 DEF NoClose
<1>3. ASSUME OneClose(a), NoClose(b) PROVE OneClose(l)
  <2>1. PICK n \in DOMAIN a : /\ a[n].call = "closeFindBar"
                              /\ \A k \in DOMAIN a : a[k].call = "closeFindBar" => k = n
    BY <1>3 DEF OneClose
  <2>2. n \in DOMAIN l /\ l[n].call = "closeFindBar"
    BY <1>1, <2>1
  <2>3. \A k \in DOMAIN l : l[k].call = "closeFindBar" => k = n
    BY <1>1, <1>3, <2>1 DEF NoClose
  <2> QED
    BY <2>2, <2>3 DEF OneClose
<1>4. ASSUME NoClose(a), OneClose(b) PROVE OneClose(l)
  <2>1. PICK n \in DOMAIN b : /\ b[n].call = "closeFindBar"
                              /\ \A k \in DOMAIN b : b[k].call = "closeFindBar" => k = n
    BY <1>4 DEF OneClose
  <2>2. PICK p \in DOMAIN l : p = Len(a) + n /\ l[p].call = "closeFindBar"
    BY <1>1, <2>1
  <2>3. ASSUME NEW k \in DOMAIN l, l[k].call = "closeFindBar" PROVE k = p
    <3>1. k \notin DOMAIN a
      BY <1>1, <1>4, <2>3 DEF NoClose
    <3>2. PICK d \in DOMAIN b : d = k - Len(a) /\ l[k] = b[d]
      BY <1>1, <3>1
    <3>3. d = n
      BY <2>1, <2>3, <3>2
    <3>4. k \in Nat
      BY JoinedFacts, LenProperties
    <3> QED
      BY <1>1, <2>2, <3>2, <3>3, <3>4
  <2> QED
    BY <2>2, <2>3 DEF OneClose
<1> QED
  BY <1>2, <1>3, <1>4

LEMMA ShortCalls ==
  ASSUME NEW m \in Calls
  PROVE  /\ <<>> \in Seq(Calls) /\ NoClose(<<>>) /\ \A call, x : Coming(<<>>, call, x, x)
         /\ <<m>> \in Seq(Calls)
         /\ m.call # "closeFindBar" => NoClose(<<m>>)
         /\ m.call = "closeFindBar" => OneClose(<<m>>)
         /\ \A call, x : m.call # call => Coming(<<m>>, call, x, x)
         /\ \A call, x, y : m.call = call /\ m.open = y => Coming(<<m>>, call, x, y)
<1>1. PICK none \in Seq(Calls) : none = <<>> /\ DOMAIN none = {}
  <2>1. <<>> \in Seq(Calls) /\ DOMAIN <<>> = {}
    OBVIOUS
  <2> QED
    BY <2>1, Zenon
<1>2. <<m>> \in Seq(Calls) /\ Len(<<m>>) = 1 /\ <<m>>[1] = m
  OBVIOUS
<1>3. PICK one \in Seq(Calls) : one = <<m>> /\ Len(one) = 1 /\ one[1] = m
  BY <1>2
<1>4. DOMAIN one = {1}
  <2>1. DOMAIN one = 1..1
    BY <1>3, LenProperties
  <2> QED
    BY <2>1
<1>5. NoClose(none) /\ \A call, x : Coming(none, call, x, x)
  BY <1>1 DEF NoClose, Coming
<1>6. /\ m.call # "closeFindBar" => NoClose(one)
      /\ m.call = "closeFindBar" => OneClose(one)
  BY <1>3, <1>4 DEF NoClose, OneClose
<1>7. \A call, x : m.call # call => Coming(one, call, x, x)
  BY <1>3, <1>4 DEF Coming
<1>8. \A call, x, y : m.call = call /\ m.open = y => Coming(one, call, x, y)
  BY <1>3, <1>4 DEF Coming
<1> QED
  BY <1>1, <1>3, <1>5, <1>6, <1>7, <1>8

LEMMA CallHeard ==
  ASSUME NEW S, NEW list \in Seq(S), list # <<>>, NEW rest, rest = Tail(list)
  PROVE  /\ rest \in Seq(S)
         /\ \A call, was, now : Coming(list, call, was, now) =>
              /\ list[1].call = call => Coming(rest, call, list[1].open, now)
              /\ list[1].call # call => Coming(rest, call, was, now)
         /\ NoClose(list) => NoClose(rest) /\ list[1].call # "closeFindBar"
         /\ OneClose(list) => IF list[1].call = "closeFindBar" THEN NoClose(rest) ELSE OneClose(rest)
<1>1. /\ rest \in Seq(S) /\ 1 \in DOMAIN list
      /\ \A i \in DOMAIN rest : i + 1 \in DOMAIN list /\ rest[i] = list[i + 1]
      /\ \A i \in DOMAIN list : i = 1 \/ (i - 1 \in DOMAIN rest /\ rest[i - 1] = list[i])
  BY TailOf
<1>2. DOMAIN list \subseteq Nat \ {0} /\ DOMAIN rest \subseteq Nat \ {0}
  BY <1>1, LenProperties
<1>3. ASSUME NEW call, NEW was, NEW now, Coming(list, call, was, now)
      PROVE  /\ list[1].call = call => Coming(rest, call, list[1].open, now)
             /\ list[1].call # call => Coming(rest, call, was, now)
  <2>1. CASE was = now /\ \A n \in DOMAIN list : list[n].call # call
    <3>1. \A n \in DOMAIN rest : rest[n].call # call
      BY <1>1, <2>1
    <3> QED
      BY <1>1, <2>1, <3>1 DEF Coming
  <2>2. ASSUME NEW n \in DOMAIN list, list[n].call = call, list[n].open = now,
               \A k \in DOMAIN list : k > n => list[k].call # call
        PROVE  /\ list[1].call = call => Coming(rest, call, list[1].open, now)
               /\ list[1].call # call => Coming(rest, call, was, now)
    <3>1. ASSUME NEW k \in DOMAIN rest, k > n - 1 PROVE rest[k].call # call
      <4>1. k + 1 \in DOMAIN list /\ rest[k] = list[k + 1] /\ k \in Nat /\ n \in Nat
        BY <1>1, <1>2
      <4>2. k + 1 > n
        BY <3>1, <4>1
      <4> QED
        BY <2>2, <4>1, <4>2
    <3>2. CASE n = 1
      <4>1. \A k \in DOMAIN rest : rest[k].call # call
        BY <1>2, <3>1, <3>2
      <4> QED
        BY <2>2, <3>2, <4>1 DEF Coming
    <3>3. CASE n # 1
      <4>1. n - 1 \in DOMAIN rest /\ rest[n - 1] = list[n]
        BY <1>1, <3>3
      <4>2. \A x : Coming(rest, call, x, now)
        BY <2>2, <3>1, <4>1 DEF Coming
      <4> QED
        BY <4>2
    <3> QED
      BY <3>2, <3>3
  <2> QED
    BY <1>3, <2>1, <2>2 DEF Coming
<1>4. ASSUME NoClose(list) PROVE NoClose(rest) /\ list[1].call # "closeFindBar"
  BY <1>1, <1>4 DEF NoClose
<1>5. ASSUME OneClose(list)
      PROVE  IF list[1].call = "closeFindBar" THEN NoClose(rest) ELSE OneClose(rest)
  <2>1. PICK n \in DOMAIN list : /\ list[n].call = "closeFindBar"
                                 /\ \A k \in DOMAIN list : list[k].call = "closeFindBar" => k = n
    BY <1>5 DEF OneClose
  <2>2. CASE list[1].call = "closeFindBar"
    <3>1. n = 1
      BY <1>1, <2>1, <2>2
    <3>2. ASSUME NEW k \in DOMAIN rest PROVE rest[k].call # "closeFindBar"
      <4>1. k + 1 \in DOMAIN list /\ rest[k] = list[k + 1] /\ k \in Nat \ {0}
        BY <1>1, <1>2
      <4>2. k + 1 # 1
        BY <4>1
      <4> QED
        BY <2>1, <3>1, <4>1, <4>2
    <3> QED
      BY <2>2, <3>2 DEF NoClose
  <2>3. CASE list[1].call # "closeFindBar"
    <3>1. n # 1
      BY <2>1, <2>3
    <3>2. PICK p \in DOMAIN rest : p = n - 1 /\ rest[p] = list[n]
      BY <1>1, <3>1
    <3>3. ASSUME NEW k \in DOMAIN rest, rest[k].call = "closeFindBar" PROVE k = p
      <4>1. k + 1 \in DOMAIN list /\ rest[k] = list[k + 1] /\ k \in Nat /\ n \in Nat
        BY <1>1, <1>2
      <4>2. k + 1 = n
        BY <2>1, <3>3, <4>1
      <4> QED
        BY <3>2, <4>1, <4>2
    <3>4. rest[p].call = "closeFindBar"
      BY <2>1, <3>2
    <3>5. OneClose(rest)
      BY <3>3, <3>4 DEF OneClose
    <3> QED
      BY <2>3, <3>5
  <2> QED
    BY <2>2, <2>3
<1> QED
  BY <1>1, <1>3, <1>4, <1>5
-----------------------------------------------------------------------------
(* The chrome and the window agree once the messages have arrived.           *)
(* findBarOpen and the renderer's copy of it differ while FIND_BAR_OPEN or   *)
(* the one call that closes the bar is under way; the overlays and popovers  *)
(* are what the last of their messages under way says, or what was heard.    *)
FindInv ==
  \/ wm.findBarOpen = FALSE /\ mail.find = 0 /\ ui.finding = FALSE /\ NoClose(mail.chrome)
  \/ wm.findBarOpen = TRUE /\ mail.find = 1 /\ ui.finding = FALSE /\ NoClose(mail.chrome)
  \/ wm.findBarOpen = TRUE /\ mail.find = 0 /\ ui.finding = TRUE /\ NoClose(mail.chrome)
  \/ wm.findBarOpen = TRUE /\ mail.find = 0 /\ ui.finding = FALSE /\ OneClose(mail.chrome)
RoomInv ==
  /\ DOMAIN mail = {"chrome", "chat", "find"} /\ mail.chrome \in Seq(Calls)
  /\ DOMAIN ui = {"popovers", "overlays", "finding"}
  /\ FindInv
  /\ Coming(mail.chrome, "overlay", wm.chromeFullscreen, AnyOpen(ui.overlays))
  /\ Coming(mail.chrome, "popover", wm.toolbarPopoverOpen, AnyOpen(ui.popovers))

RoomFields == {"chromeFullscreen", "toolbarPopoverOpen", "findBarOpen"}
RoomSame ==
  /\ wm'.chromeFullscreen = wm.chromeFullscreen
  /\ wm'.toolbarPopoverOpen = wm.toolbarPopoverOpen /\ wm'.findBarOpen = wm.findBarOpen

LEMMA RoomKept ==
  ASSUME RoomInv, RoomSame, UNCHANGED ui,
         mail' = mail \/ \E x : mail' = [mail EXCEPT !.chat = x]
  PROVE  RoomInv'
<1>1. /\ DOMAIN mail' = DOMAIN mail /\ mail'.chrome = mail.chrome /\ mail'.find = mail.find
  BY DEF RoomInv
<1>2. FindInv'
  BY <1>1 DEF RoomInv, FindInv, RoomSame
<1> QED
  BY <1>1, <1>2 DEF RoomInv, RoomSame

LEMMA EffectsFacts ==
  ASSUME NEW next
  PROVE  /\ Effects(next) \in Seq(Calls) /\ NoClose(Effects(next))
         /\ Coming(Effects(next), "overlay", AnyOpen(ui.overlays), AnyOpen(next.overlays))
         /\ Coming(Effects(next), "popover", AnyOpen(ui.popovers), AnyOpen(next.popovers))
<1>1. PICK o \in BOOLEAN, p \in BOOLEAN, oo \in BOOLEAN, pp \in BOOLEAN :
        /\ o = AnyOpen(ui.overlays) /\ p = AnyOpen(ui.popovers)
        /\ oo = AnyOpen(next.overlays) /\ pp = AnyOpen(next.popovers)
  BY DEF AnyOpen
<1>2. PICK m \in Calls : m = [call |-> "overlay", open |-> oo]
  BY DEF Calls
<1>3. PICK n \in Calls : n = [call |-> "popover", open |-> pp]
  BY DEF Calls
<1>4. PICK a : a = IF oo # o THEN <<m>> ELSE <<>>
  OBVIOUS
<1>5. PICK b : b = IF pp # p THEN <<n>> ELSE <<>>
  OBVIOUS
<1>6. PICK l : l = Effects(next)
  OBVIOUS
<1>7. Joined(l, a, b)
  <2>1. l = (IF oo # o THEN <<[call |-> "overlay", open |-> oo]>> ELSE <<>>)
            \o (IF pp # p THEN <<[call |-> "popover", open |-> pp]>> ELSE <<>>)
    BY <1>1, <1>6, Zenon DEF Effects
  <2> QED
    BY <1>2, <1>3, <1>4, <1>5, <2>1, Zenon DEF Joined
<1>8. m.call = "overlay" /\ m.open = oo /\ n.call = "popover" /\ n.open = pp
  BY <1>2, <1>3
<1>9. /\ a \in Seq(Calls) /\ NoClose(a)
      /\ Coming(a, "overlay", o, oo) /\ Coming(a, "popover", p, p)
  <2>1. CASE oo # o
    <3>1. a = <<m>>
      BY <1>4, <2>1
    <3> QED
      BY <1>8, <3>1, ShortCalls
  <2>2. CASE oo = o
    <3>1. a = <<>>
      BY <1>4, <2>2
    <3> QED
      BY <2>2, <3>1, ShortCalls
  <2> QED
    BY <2>1, <2>2
<1>10. /\ b \in Seq(Calls) /\ NoClose(b)
       /\ Coming(b, "overlay", oo, oo) /\ Coming(b, "popover", p, pp)
  <2>1. CASE pp # p
    <3>1. b = <<n>>
      BY <1>5, <2>1
    <3> QED
      BY <1>8, <3>1, ShortCalls
  <2>2. CASE pp = p
    <3>1. b = <<>>
      BY <1>5, <2>2
    <3> QED
      BY <2>2, <3>1, ShortCalls
  <2> QED
    BY <2>1, <2>2
<1>11. l \in Seq(Calls) /\ NoClose(l)
  BY <1>7, <1>9, <1>10, JoinedFacts, ClosesJoined
<1>12. Coming(l, "overlay", o, oo) /\ Coming(l, "popover", p, pp)
  BY <1>7, <1>9, <1>10, ComingJoined
<1> QED
  BY <1>1, <1>6, <1>11, <1>12

LEMMA ChromeShowsFits ==
  ASSUME RoomInv, NEW next, NEW calls \in Seq(Calls), ChromeShows(next, calls),
         DOMAIN next = {"popovers", "overlays", "finding"},
         \A x : Coming(calls, "overlay", x, x) /\ Coming(calls, "popover", x, x),
         \/ next.finding = ui.finding /\ NoClose(calls)
         \/ ui.finding = TRUE /\ next.finding = FALSE /\ OneClose(calls)
  PROVE  RoomInv'
<1>1. mail.chrome \in Seq(Calls) /\ DOMAIN mail = {"chrome", "chat", "find"}
  BY DEF RoomInv
<1>2. PICK e \in Seq(Calls) :
        /\ e = Effects(next) /\ NoClose(e)
        /\ Coming(e, "overlay", AnyOpen(ui.overlays), AnyOpen(next.overlays))
        /\ Coming(e, "popover", AnyOpen(ui.popovers), AnyOpen(next.popovers))
  BY EffectsFacts
<1>3. PICK c \in Seq(Calls) : c = mail.chrome
  BY <1>1
<1>4. PICK h : Joined(h, c, calls)
  BY DEF Joined
<1>5. h \in Seq(Calls)
  BY <1>4, JoinedFacts
<1>6. PICK l : Joined(l, h, e)
  BY DEF Joined
<1>7. l \in Seq(Calls)
  BY <1>5, <1>6, JoinedFacts
<1>8. mail' = [mail EXCEPT !.chrome = l]
  BY <1>2, <1>3, <1>4, <1>6 DEF ChromeShows, Joined
<1>9. mail'.chrome = l /\ mail'.find = mail.find /\ DOMAIN mail' = {"chrome", "chat", "find"}
  BY <1>1, <1>8
<1>10. ui' = next /\ wm' = wm
  BY DEF ChromeShows
<1>11. Coming(l, "overlay", wm.chromeFullscreen, AnyOpen(next.overlays))
  <2>1. PICK o : o = AnyOpen(ui.overlays)
    OBVIOUS
  <2>2. Coming(c, "overlay", wm.chromeFullscreen, o) /\ Coming(calls, "overlay", o, o)
    BY <1>3, <2>1 DEF RoomInv
  <2>3. Coming(h, "overlay", wm.chromeFullscreen, o)
    BY <1>4, <2>2, ComingJoined
  <2> QED
    BY <1>2, <1>5, <1>6, <2>1, <2>3, ComingJoined
<1>12. Coming(l, "popover", wm.toolbarPopoverOpen, AnyOpen(next.popovers))
  <2>1. PICK o : o = AnyOpen(ui.popovers)
    OBVIOUS
  <2>2. Coming(c, "popover", wm.toolbarPopoverOpen, o) /\ Coming(calls, "popover", o, o)
    BY <1>3, <2>1 DEF RoomInv
  <2>3. Coming(h, "popover", wm.toolbarPopoverOpen, o)
    BY <1>4, <2>2, ComingJoined
  <2> QED
    BY <1>2, <1>5, <1>6, <2>1, <2>3, ComingJoined
<1>13. /\ NoClose(c) /\ NoClose(calls) => NoClose(l)
       /\ OneClose(c) /\ NoClose(calls) => OneClose(l)
       /\ NoClose(c) /\ OneClose(calls) => OneClose(l)
  <2>1. /\ NoClose(c) /\ NoClose(calls) => NoClose(h)
        /\ OneClose(c) /\ NoClose(calls) => OneClose(h)
        /\ NoClose(c) /\ OneClose(calls) => OneClose(h)
    BY <1>4, ClosesJoined
  <2>2. (NoClose(h) => NoClose(l)) /\ (OneClose(h) => OneClose(l))
    BY <1>2, <1>5, <1>6, ClosesJoined
  <2> QED
    BY <2>1, <2>2
<1>14. FindInv'
  <2>1. wm'.findBarOpen = wm.findBarOpen /\ mail'.find = mail.find /\ ui'.finding = next.finding
    BY <1>9, <1>10
  <2>2. CASE next.finding = ui.finding /\ NoClose(calls)
    BY <1>3, <1>9, <1>13, <2>1, <2>2 DEF RoomInv, FindInv
  <2>3. CASE ui.finding = TRUE /\ next.finding = FALSE /\ OneClose(calls)
    BY <1>3, <1>9, <1>13, <2>1, <2>3 DEF RoomInv, FindInv
  <2> QED
    BY <2>2, <2>3
<1> QED
  BY <1>7, <1>9, <1>10, <1>11, <1>12, <1>14 DEF RoomInv

LEMMA NothingCalled ==
  /\ <<>> \in Seq(Calls) /\ NoClose(<<>>) /\ \A call, x : Coming(<<>>, call, x, x)
<1>1. [call |-> "toggleChat"] \in Calls
  BY DEF Calls
<1> QED
  BY <1>1, ShortCalls

LEMMA ChromeActs ==
  ASSUME RoomInv,
         \/ \E p \in Popovers : ClickToolbar(p)
         \/ \E o \in Overlays : ToggleOverlay(o)
         \/ PageNavigated \/ ClickChat \/ DismissFindBar
  PROVE  RoomInv' /\ UNCHANGED <<wm, size, slides>>
<1>0. DOMAIN ui = {"popovers", "overlays", "finding"}
  BY DEF RoomInv
<1>1. PICK none \in Seq(Calls) : /\ none = <<>> /\ NoClose(none)
                                 /\ \A call, x : Coming(none, call, x, x)
  BY NothingCalled
<1>2. ASSUME NEW next, ChromeShows(next, <<>>), next.finding = ui.finding, DOMAIN next = DOMAIN ui
      PROVE  RoomInv' /\ UNCHANGED <<wm, size, slides>>
  <2>1. ChromeShows(next, none)
    BY <1>1, <1>2
  <2>2. RoomInv'
    BY <1>0, <1>1, <1>2, <2>1, ChromeShowsFits
  <2> QED
    BY <1>2, <2>2 DEF ChromeShows
<1>3. ASSUME NEW p \in Popovers, ClickToolbar(p) PROVE RoomInv' /\ UNCHANGED <<wm, size, slides>>
  <2>1. PICK set : ChromeShows([ui EXCEPT !.popovers = set], <<>>)
    BY <1>3 DEF ClickToolbar
  <2>2. PICK next : next = [ui EXCEPT !.popovers = set]
    OBVIOUS
  <2>3. next.finding = ui.finding /\ DOMAIN next = DOMAIN ui
    BY <1>0, <2>2
  <2> QED
    BY <1>2, <2>1, <2>2, <2>3
<1>4. ASSUME NEW o \in Overlays, ToggleOverlay(o) PROVE RoomInv' /\ UNCHANGED <<wm, size, slides>>
  <2>1. PICK set : ChromeShows([ui EXCEPT !.overlays = set], <<>>)
    BY <1>4 DEF ToggleOverlay
  <2>2. PICK next : next = [ui EXCEPT !.overlays = set]
    OBVIOUS
  <2>3. next.finding = ui.finding /\ DOMAIN next = DOMAIN ui
    BY <1>0, <2>2
  <2> QED
    BY <1>2, <2>1, <2>2, <2>3
<1>5. ASSUME PageNavigated PROVE RoomInv' /\ UNCHANGED <<wm, size, slides>>
  <2>2. PICK next : next = [ui EXCEPT !.popovers = {}]
    OBVIOUS
  <2>3. next.finding = ui.finding /\ DOMAIN next = DOMAIN ui
    BY <1>0, <2>2
  <2> QED
    BY <1>2, <1>5, <2>2, <2>3 DEF PageNavigated
<1>6. ASSUME ClickChat PROVE RoomInv' /\ UNCHANGED <<wm, size, slides>>
  <2>1. PICK m \in Calls : m = [call |-> "toggleChat"]
    BY DEF Calls
  <2>2. m.call = "toggleChat"
    BY <2>1
  <2>3. PICK calls \in Seq(Calls) : /\ calls = <<m>> /\ NoClose(calls)
                                    /\ \A call, x : "toggleChat" # call => Coming(calls, call, x, x)
    BY <2>2, ShortCalls
  <2>4. ChromeShows(ui, calls)
    BY <1>6, <2>1, <2>3 DEF ClickChat
  <2>5. RoomInv'
    BY <1>0, <2>3, <2>4, ChromeShowsFits
  <2> QED
    BY <2>4, <2>5 DEF ChromeShows
<1>7. ASSUME DismissFindBar PROVE RoomInv' /\ UNCHANGED <<wm, size, slides>>
  <2>1. PICK m \in Calls : m = [call |-> "closeFindBar"]
    BY DEF Calls
  <2>2. m.call = "closeFindBar"
    BY <2>1
  <2>3. PICK calls \in Seq(Calls) : /\ calls = <<m>> /\ OneClose(calls)
                                    /\ \A call, x : "closeFindBar" # call => Coming(calls, call, x, x)
    BY <2>2, ShortCalls
  <2>4. PICK next : next = [ui EXCEPT !.finding = FALSE]
    OBVIOUS
  <2>5. ChromeShows(next, calls)
    BY <1>7, <2>1, <2>3, <2>4 DEF DismissFindBar
  <2>6. next.finding = FALSE /\ DOMAIN next = DOMAIN ui
    BY <1>0, <2>4
  <2>7. ui.finding = TRUE
    BY <1>7 DEF DismissFindBar, RoomInv, FindInv
  <2>8. RoomInv'
    BY <1>0, <2>3, <2>5, <2>6, <2>7, ChromeShowsFits
  <2> QED
    BY <2>5, <2>8 DEF ChromeShows
<1> QED
  BY <1>3, <1>4, <1>5, <1>6, <1>7

LEMMA ShowFindBarFits ==
  ASSUME RoomInv, ShowFindBar
  PROVE  RoomInv' /\ UNCHANGED <<wm, size, slides>>
<1>1. DOMAIN mail = {"chrome", "chat", "find"} /\ DOMAIN ui = {"popovers", "overlays", "finding"}
  BY DEF RoomInv
<1>2. wm.findBarOpen = TRUE /\ mail.find = 1 /\ ui.finding = FALSE /\ NoClose(mail.chrome)
  BY DEF RoomInv, FindInv, ShowFindBar
<1>3. /\ mail'.chrome = mail.chrome /\ mail'.find = 0 /\ DOMAIN mail' = DOMAIN mail
  BY <1>1, <1>2 DEF ShowFindBar
<1>4. /\ ui'.overlays = ui.overlays /\ ui'.popovers = ui.popovers /\ ui'.finding = TRUE
      /\ DOMAIN ui' = DOMAIN ui
  BY <1>1 DEF ShowFindBar
<1>5. wm' = wm
  BY DEF ShowFindBar
<1>6. FindInv'
  BY <1>2, <1>3, <1>4, <1>5 DEF FindInv
<1> QED
  BY <1>3, <1>4, <1>5, <1>6 DEF RoomInv, ShowFindBar
-----------------------------------------------------------------------------
(* The slides of the panel.                                                  *)
(* One slide has the present token, and the panel's state is where it leads; *)
(* without one the panel is at rest.                                         *)
SlideOf == [token : Nat, from : Int, opening : BOOLEAN, frame : 0..Frames - 1]
Live(slide) == slide.token = wm.token
PanelInv ==
  /\ wm.token \in Nat /\ wm.chatWidth \in Int
  /\ wm.chatOpen \in BOOLEAN /\ wm.chatAttached \in BOOLEAN
  /\ \A s \in slides : s \in SlideOf /\ s.token <= wm.token
  /\ \A s, t \in slides : Live(s) /\ Live(t) => s = t
  /\ \A s \in slides : Live(s) => s.opening = wm.chatOpen
  /\ wm.chatOpen = TRUE => wm.chatAttached = TRUE /\ wm.chatSlotWidth = ChatWidth
  /\ (\A s \in slides : ~Live(s)) =>
       /\ wm.chatAttached = wm.chatOpen
       /\ wm.chatWidth = wm.chatSlotWidth
       /\ wm.chatOpen = TRUE => wm.chatWidth = ChatWidth
       /\ wm.chatOpen = FALSE => wm.chatWidth = 0
WindowInv == PlaceInv /\ RoomInv /\ PanelInv

PanelFields == {"chatOpen", "chatWidth", "chatSlotWidth", "chatAttached", "token"}
PanelSame ==
  /\ wm'.chatOpen = wm.chatOpen /\ wm'.chatWidth = wm.chatWidth
  /\ wm'.chatSlotWidth = wm.chatSlotWidth /\ wm'.chatAttached = wm.chatAttached
  /\ wm'.token = wm.token /\ slides' = slides

LEMMA PanelKept == ASSUME PanelInv, PanelSame PROVE PanelInv'
  BY DEF PanelInv, PanelSame, Live

(* Fields that say nothing of the views or of their order.                   *)
FreeFields ==
  WmFields \ {"page", "stack", "bounds", "last", "browserFullscreen", "subtitleAttached"}

LEMMA FreeChange ==
  ASSUME NEW s, Base(s), Over(s), NEW t, Same(t, s, FreeFields)
  PROVE  Base(t) /\ Over(t)
<1>1. /\ t.page = s.page /\ t.stack = s.stack /\ t.browserFullscreen = s.browserFullscreen
      /\ t.subtitleAttached = s.subtitleAttached
  BY DEF Same, WmFields, FreeFields
<1>2. Same(t, s, WmFields \ {"page", "stack", "bounds", "last"})
  BY DEF Same, FreeFields
<1> QED
  BY <1>1, <1>2, BaseKept, OverKept

LEMMA StillPlaced ==
  ASSUME PlaceInv, UNCHANGED <<wm, size>>
  PROVE  PlaceInv'
  BY DEF PlaceInv, SizeOK

(* The room the chrome asks for, and the find bar closed.                    *)
LEMMA AskedFits ==
  ASSUME PlaceInv, NEW active
  PROVE  /\ SetChromeFullscreen(active) =>
              /\ PlaceInv' /\ wm'.chromeFullscreen = active
              /\ Same(wm', wm, {"chromeFullscreen", "stack", "bounds", "last"})
         /\ SetToolbarPopoverOpen(active) =>
              /\ PlaceInv' /\ wm'.toolbarPopoverOpen = active
              /\ Same(wm', wm, {"toolbarPopoverOpen", "bounds", "last"})
         /\ CloseFindBar =>
              /\ PlaceInv' /\ wm'.findBarOpen = FALSE
              /\ Same(wm', wm, {"findBarOpen", "bounds", "last"})
<1>0. Base(wm) /\ Over(wm) /\ SizeOK
  BY DEF PlaceInv
<1>1. ASSUME SetChromeFullscreen(active)
      PROVE  /\ PlaceInv' /\ wm'.chromeFullscreen = active
             /\ Same(wm', wm, {"chromeFullscreen", "stack", "bounds", "last"})
  <2>1. CASE wm.chromeFullscreen = active
    <3>1. UNCHANGED <<wm, size>>
      BY <1>1, <2>1 DEF SetChromeFullscreen
    <3>2. Same(wm', wm, {"chromeFullscreen", "stack", "bounds", "last"})
      BY <1>0, <3>1 DEF Same, Base
    <3> QED
      BY <2>1, <3>1, <3>2, StillPlaced
  <2>2. CASE wm.chromeFullscreen # active
    <3>1. PICK u : u = [wm EXCEPT !.chromeFullscreen = active]
      OBVIOUS
    <3>2. Same(u, wm, {"chromeFullscreen"}) /\ u.chromeFullscreen = active
      BY <1>0, <3>1 DEF Base, Same, WmFields
    <3>3. Base(u) /\ Over(u)
      <4>1. Same(u, wm, FreeFields)
        BY <3>2 DEF Same, FreeFields
      <4> QED
        BY <1>0, <4>1, FreeChange
    <3>4. PICK s : s = RaiseChrome(u)
      OBVIOUS
    <3>5. Base(s) /\ Over(s) /\ Same(s, u, {"stack", "last"})
      BY <3>3, <3>4, RaiseChromeFacts, ChromeUpOver DEF Over
    <3>6. wm' = Relaid(s) /\ size' = [size EXCEPT !.due = TRUE]
      BY <1>1, <2>2, <3>1, <3>4 DEF SetChromeFullscreen, Nudged
    <3>7. DOMAIN size' = DOMAIN size /\ size'.width = size.width /\ size'.height = size.height
      BY <1>0, <3>6 DEF SizeOK
    <3>8. PlaceInv' /\ Same(wm', s, {"bounds", "last"})
      BY <1>0, <3>5, <3>6, <3>7, PlaceLeft
    <3> QED
      BY <3>2, <3>5, <3>8 DEF Same, WmFields
  <2> QED
    BY <2>1, <2>2
<1>2. ASSUME SetToolbarPopoverOpen(active)
      PROVE  /\ PlaceInv' /\ wm'.toolbarPopoverOpen = active
             /\ Same(wm', wm, {"toolbarPopoverOpen", "bounds", "last"})
  <2>1. PICK u : u = [wm EXCEPT !.toolbarPopoverOpen = active]
    OBVIOUS
  <2>2. Same(u, wm, {"toolbarPopoverOpen"}) /\ u.toolbarPopoverOpen = active
    BY <1>0, <2>1 DEF Base, Same, WmFields
  <2>3. Base(u) /\ Over(u)
    <3>1. Same(u, wm, FreeFields)
      BY <2>2 DEF Same, FreeFields
    <3> QED
      BY <1>0, <3>1, FreeChange
  <2>4. wm' = Relaid(u) /\ size' = size
    BY <1>2, <2>1 DEF SetToolbarPopoverOpen, WindowBecomes
  <2>5. PlaceInv' /\ Same(wm', u, {"bounds", "last"})
    BY <1>0, <2>3, <2>4, PlaceLeft
  <2> QED
    BY <2>2, <2>5 DEF Same, WmFields
<1>3. ASSUME CloseFindBar
      PROVE  /\ PlaceInv' /\ wm'.findBarOpen = FALSE
             /\ Same(wm', wm, {"findBarOpen", "bounds", "last"})
  <2>1. PICK u : u = [wm EXCEPT !.findBarOpen = FALSE]
    OBVIOUS
  <2>2. Same(u, wm, {"findBarOpen"}) /\ u.findBarOpen = FALSE
    BY <1>0, <2>1 DEF Base, Same, WmFields
  <2>3. Base(u) /\ Over(u)
    <3>1. Same(u, wm, FreeFields)
      BY <2>2 DEF Same, FreeFields
    <3> QED
      BY <1>0, <3>1, FreeChange
  <2>4. wm' = Relaid(u) /\ size' = size
    BY <1>3, <2>1 DEF CloseFindBar, WindowBecomes
  <2>5. PlaceInv' /\ Same(wm', u, {"bounds", "last"})
    BY <1>0, <2>3, <2>4, PlaceLeft
  <2> QED
    BY <2>2, <2>5 DEF Same, WmFields
<1> QED
  BY <1>1, <1>2, <1>3

LEMMA ChatFullscreenFits ==
  ASSUME PlaceInv, NEW active, SetChatFullscreen(active)
  PROVE  PlaceInv' /\ Same(wm', wm, {"chatFullscreen", "stack", "bounds", "last"})
<1>0. Base(wm) /\ Over(wm) /\ SizeOK
  BY DEF PlaceInv
<1>1. CASE UNCHANGED <<wm, size>>
  <2>1. Same(wm', wm, {"chatFullscreen", "stack", "bounds", "last"})
    BY <1>0, <1>1 DEF Same, Base
  <2> QED
    BY <1>1, <2>1, StillPlaced
<1>2. CASE Nudged(Forget(Raise([wm EXCEPT !.chatFullscreen = active], "chat"), "chat"))
  <2>1. PICK u : u = [wm EXCEPT !.chatFullscreen = active]
    OBVIOUS
  <2>2. Same(u, wm, {"chatFullscreen"})
    BY <1>0, <2>1 DEF Base, Same, WmFields
  <2>3. Base(u) /\ Over(u)
    <3>1. Same(u, wm, FreeFields)
      BY <2>2 DEF Same, FreeFields
    <3> QED
      BY <1>0, <3>1, FreeChange
  <2>4. PICK r : r = Raise(u, "chat")
    OBVIOUS
  <2>5. Base(r) /\ Same(r, u, {"stack"}) /\ Over(r)
    BY <2>3, <2>4, ChatMovedFacts
  <2>6. PICK s : s = Forget(r, "chat")
    OBVIOUS
  <2>7. Base(s) /\ Same(s, r, {"last"})
    BY <2>5, <2>6, ForgetFacts DEF Kinds
  <2>8. Over(s)
    <3>1. /\ s.page = r.page /\ s.stack = r.stack /\ s.browserFullscreen = r.browserFullscreen
          /\ s.subtitleAttached = r.subtitleAttached
      BY <2>7 DEF Same, WmFields
    <3> QED
      BY <2>5, <3>1, OverKept
  <2>9. wm' = Relaid(s) /\ size' = [size EXCEPT !.due = TRUE]
    BY <1>2, <2>1, <2>4, <2>6 DEF Nudged
  <2>10. DOMAIN size' = DOMAIN size /\ size'.width = size.width /\ size'.height = size.height
    BY <1>0, <2>9 DEF SizeOK
  <2>11. PlaceInv' /\ Same(wm', s, {"bounds", "last"})
    BY <1>0, <2>7, <2>8, <2>9, <2>10, PlaceLeft
  <2> QED
    BY <2>2, <2>5, <2>7, <2>11 DEF Same, WmFields
<1> QED
  BY <1>1, <1>2 DEF SetChatFullscreen

(* The chat's view attached, below the chrome.                               *)
LEMMA AttachedFacts ==
  ASSUME NEW s, Base(s), Over(s), s.chatAttached \in BOOLEAN
  PROVE  /\ Base(Attached(s)) /\ Over(Attached(s)) /\ Attached(s).chatAttached = TRUE
         /\ Same(Attached(s), s, {"chatAttached", "stack", "last"})
<1>1. CASE s.chatAttached = TRUE
  <2>1. Attached(s) = s
    BY <1>1 DEF Attached
  <2>2. Same(s, s, {"chatAttached", "stack", "last"})
    BY DEF Same, Base
  <2> QED
    BY <1>1, <2>1, <2>2
<1>2. CASE s.chatAttached = FALSE
  <2>1. PICK u : u = [s EXCEPT !.chatAttached = TRUE]
    OBVIOUS
  <2>2. Same(u, s, {"chatAttached"}) /\ u.chatAttached = TRUE
    BY <2>1 DEF Base, Same, WmFields
  <2>3. Base(u) /\ Over(u)
    <3>1. Same(u, s, FreeFields)
      BY <2>2 DEF Same, FreeFields
    <3> QED
      BY <3>1, FreeChange
  <2>4. PICK r : r = Raise(u, "chat")
    OBVIOUS
  <2>5. Base(r) /\ Same(r, u, {"stack"}) /\ Over(r)
    BY <2>3, <2>4, ChatMovedFacts
  <2>6. PICK f : f = Forget(r, "chat")
    OBVIOUS
  <2>7. Base(f) /\ Same(f, r, {"last"})
    BY <2>5, <2>6, ForgetFacts DEF Kinds
  <2>8. Over(f)
    <3>1. /\ f.page = r.page /\ f.stack = r.stack /\ f.browserFullscreen = r.browserFullscreen
          /\ f.subtitleAttached = r.subtitleAttached
      BY <2>7 DEF Same, WmFields
    <3> QED
      BY <2>5, <3>1, OverKept
  <2>9. PICK t : t = RaiseChrome(f)
    OBVIOUS
  <2>10. Base(t) /\ Over(t) /\ Same(t, f, {"stack", "last"})
    BY <2>7, <2>8, <2>9, RaiseChromeFacts, ChromeUpOver DEF Over
  <2>11. Attached(s) = t
    BY <1>2, <2>1, <2>4, <2>6, <2>9 DEF Attached
  <2>12. Same(t, s, {"chatAttached", "stack", "last"}) /\ t.chatAttached = TRUE
    BY <2>2, <2>5, <2>7, <2>10 DEF Same, WmFields
  <2> QED
    BY <2>10, <2>11, <2>12
<1> QED
  BY <1>1, <1>2
LEMMA ToggledFits ==
  ASSUME PlaceInv, PanelInv, Toggled
  PROVE  /\ PlaceInv' /\ PanelInv'
         /\ Same(wm', wm, PanelFields \cup {"stack", "bounds", "last"})
<1>0. Base(wm) /\ Over(wm) /\ SizeOK
  BY DEF PlaceInv
<1>1. PICK opening \in BOOLEAN : opening = ~wm.chatOpen
  OBVIOUS
<1>2. PICK u : u = [wm EXCEPT !.chatOpen = opening]
  OBVIOUS
<1>3. Same(u, wm, {"chatOpen"}) /\ u.chatOpen = opening
  BY <1>0, <1>2 DEF Base, Same, WmFields
<1>4. PICK s : s = Superseded(u)
  OBVIOUS
<1>5. Same(s, u, {"token"}) /\ s.token = u.token + 1
  BY <1>3, <1>4 DEF Superseded, Same, WmFields
<1>6. /\ Same(s, wm, {"chatOpen", "token"}) /\ s.chatOpen = opening /\ s.token = wm.token + 1
      /\ s.chatAttached = wm.chatAttached /\ s.chatWidth = wm.chatWidth
  BY <1>3, <1>5 DEF Same, WmFields
<1>7. Base(s) /\ Over(s)
  <2>1. Same(s, wm, FreeFields)
    BY <1>6 DEF Same, FreeFields, WmFields
  <2> QED
    BY <1>0, <2>1, FreeChange
<1>8. PICK a : a = Attached(s)
  OBVIOUS
<1>9. /\ Base(a) /\ Over(a) /\ a.chatAttached = TRUE
      /\ Same(a, s, {"chatAttached", "stack", "last"})
  BY <1>6, <1>7, <1>8, AttachedFacts DEF PanelInv
<1>10. PICK b : b = [a EXCEPT !.chatSlotWidth = ChatWidth]
  OBVIOUS
<1>11. Same(b, a, {"chatSlotWidth"}) /\ b.chatSlotWidth = ChatWidth
  BY <1>9, <1>10 DEF Base, Same, WmFields
<1>12. Base(b) /\ Over(b)
  <2>1. Same(b, a, FreeFields)
    BY <1>11 DEF Same, FreeFields
  <2> QED
    BY <1>9, <2>1, FreeChange
<1>13. PICK ready : ready = IF opening THEN b ELSE s
  OBVIOUS
<1>14. Base(ready) /\ Over(ready)
  BY <1>7, <1>12, <1>13
<1>15. /\ Same(ready, s, {"chatAttached", "chatSlotWidth", "stack", "last"})
       /\ opening = TRUE => ready.chatAttached = TRUE /\ ready.chatSlotWidth = ChatWidth
       /\ opening = FALSE => ready.chatAttached = s.chatAttached
  <2>1. CASE opening = TRUE
    <3>1. ready = b
      BY <1>13, <2>1
    <3> QED
      BY <1>9, <1>11, <2>1, <3>1 DEF Same, WmFields
  <2>2. CASE opening = FALSE
    <3>1. ready = s
      BY <1>13, <2>2
    <3> QED
      BY <1>6, <2>2, <3>1 DEF Same, WmFields
  <2> QED
    BY <1>1, <2>1, <2>2
<1>16. WindowBecomes(ready)
  BY <1>1, <1>2, <1>4, <1>8, <1>10, <1>13 DEF Toggled
<1>17. wm' = Relaid(ready) /\ size' = size
  BY <1>16 DEF WindowBecomes
<1>18. PlaceInv' /\ Same(wm', ready, {"bounds", "last"})
  BY <1>0, <1>14, <1>17, PlaceLeft
<1>19. /\ Same(wm', wm, PanelFields \cup {"stack", "bounds", "last"})
       /\ wm'.chatOpen = opening /\ wm'.token = wm.token + 1 /\ wm'.chatWidth = wm.chatWidth
       /\ opening = TRUE => wm'.chatAttached = TRUE /\ wm'.chatSlotWidth = ChatWidth
       /\ opening = FALSE => wm'.chatAttached = wm.chatAttached
  <2>1. /\ wm'.chatOpen = ready.chatOpen /\ wm'.token = ready.token /\ wm'.chatWidth = ready.chatWidth
        /\ wm'.chatAttached = ready.chatAttached /\ wm'.chatSlotWidth = ready.chatSlotWidth
    BY <1>18 DEF Same, WmFields
  <2>2. /\ ready.chatOpen = s.chatOpen /\ ready.token = s.token /\ ready.chatWidth = s.chatWidth
    BY <1>15 DEF Same, WmFields
  <2>3. Same(wm', wm, PanelFields \cup {"stack", "bounds", "last"})
    BY <1>6, <1>15, <1>18 DEF Same, WmFields, PanelFields
  <2> QED
    BY <1>6, <1>15, <2>1, <2>2, <2>3
<1>20. PICK slide : slide = [token |-> wm.token + 1, from |-> wm.chatWidth,
                             opening |-> opening, frame |-> 0]
  OBVIOUS
<1>21. slide \in SlideOf /\ slide.token = wm.token + 1 /\ slide.opening = opening
  BY <1>20, WindowAssumption DEF SlideOf, PanelInv
<1>22. slides' = slides \cup {slide}
  BY <1>1, <1>2, <1>4, <1>6, <1>20 DEF Toggled
<1>23. PanelInv'
  <2>1. \A p \in slides : p.token \in Nat /\ p.token <= wm.token /\ p \in SlideOf
    BY DEF PanelInv, SlideOf
  <2>2. wm.token \in Nat
    BY DEF PanelInv
  <2>3. \A p \in slides' : p \in SlideOf /\ p.token <= wm'.token
    BY <1>19, <1>21, <1>22, <2>1, <2>2
  <2>4. \A p \in slides' : p.token = wm'.token => p = slide
    BY <1>19, <1>21, <1>22, <2>1, <2>2
  <2>5. slide \in slides' /\ slide.token = wm'.token
    BY <1>19, <1>21, <1>22
  <2>6. wm'.chatAttached \in BOOLEAN
    BY <1>19 DEF PanelInv
  <2>7. wm'.token \in Nat /\ wm'.chatWidth \in Int
    BY <1>19, <2>2 DEF PanelInv
  <2> QED
    BY <1>19, <1>21, <2>3, <2>4, <2>5, <2>6, <2>7 DEF PanelInv, Live
<1> QED
  BY <1>18, <1>19, <1>23

-----------------------------------------------------------------------------
(* One frame of a slide.                                                     *)
LEMMA CubedPositive == ASSUME NEW n \in Nat \ {0} PROVE Cubed(n) \in Nat \ {0}
<1>1. n * n \in Nat \ {0}
  OBVIOUS
<1>2. PICK m \in Nat \ {0} : m = n * n
  BY <1>1
<1>3. m * n \in Nat \ {0}
  OBVIOUS
<1> QED
  BY <1>2, <1>3 DEF Cubed

LEMMA Divided == ASSUME NEW d \in Int, NEW n \in Nat \ {0} PROVE (d * n) \div n = d
  OBVIOUS

LEMMA EasedFacts ==
  ASSUME NEW from \in Int, NEW to \in Int, NEW k \in 0..Frames
  PROVE  Eased(from, to, k) \in Int /\ Eased(from, to, Frames) = to
<1>1. PICK c \in Nat \ {0} : c = Cubed(Frames)
  BY CubedPositive, WindowAssumption
<1>2. PICK d \in Int : d = Cubed(Frames - k)
  BY WindowAssumption DEF Cubed
<1>3. PICK m \in Int : m = (to - from) * (c - d)
  OBVIOUS
<1>4. m \div c \in Int
  OBVIOUS
<1>5. Eased(from, to, k) = from + m \div c
  BY <1>1, <1>2, <1>3 DEF Eased
<1>6. Cubed(Frames - Frames) = 0
  <2>1. Frames - Frames = 0
    BY WindowAssumption
  <2> QED
    BY <2>1 DEF Cubed
<1>7. Eased(from, to, Frames) = from + ((to - from) * (c - 0)) \div c
  BY <1>1, <1>6 DEF Eased
<1>8. ((to - from) * c) \div c = to - from
  BY Divided
<1> QED
  BY <1>4, <1>5, <1>7, <1>8

LEMMA ClosedPanelFacts ==
  ASSUME NEW s, Base(s), Over(s), s.chatAttached \in BOOLEAN
  PROVE  /\ Base(ClosedPanel(s)) /\ Over(ClosedPanel(s))
         /\ Same(ClosedPanel(s), s, {"chatAttached", "chatSlotWidth", "stack"})
         /\ ClosedPanel(s).chatAttached = FALSE /\ ClosedPanel(s).chatSlotWidth = 0
<1>1. PICK d : d = Detach(s, "chat")
  OBVIOUS
<1>2. Base(d) /\ Over(d) /\ Same(d, s, {"stack"})
  BY <1>1, ChatMovedFacts
<1>3. PICK a : a = IF s.chatAttached THEN [d EXCEPT !.chatAttached = FALSE] ELSE s
  OBVIOUS
<1>4. /\ Base(a) /\ Over(a) /\ Same(a, s, {"chatAttached", "stack"}) /\ a.chatAttached = FALSE
  <2>1. CASE s.chatAttached = TRUE
    <3>1. a = [d EXCEPT !.chatAttached = FALSE]
      BY <1>3, <2>1
    <3>2. Same(a, d, {"chatAttached"}) /\ a.chatAttached = FALSE
      BY <1>2, <3>1 DEF Base, Same, WmFields
    <3>3. Same(a, d, FreeFields)
      BY <3>2 DEF Same, FreeFields
    <3>4. Base(a) /\ Over(a)
      BY <1>2, <3>3, FreeChange
    <3> QED
      BY <1>2, <3>2, <3>4 DEF Same, WmFields
  <2>2. CASE s.chatAttached = FALSE
    <3>1. a = s
      BY <1>3, <2>2
    <3> QED
      BY <2>2, <3>1 DEF Base, Same
  <2> QED
    BY <2>1, <2>2
<1>5. PICK t : t = [a EXCEPT !.chatSlotWidth = 0]
  OBVIOUS
<1>6. Same(t, a, {"chatSlotWidth"}) /\ t.chatSlotWidth = 0
  BY <1>4, <1>5 DEF Base, Same, WmFields
<1>7. Base(t) /\ Over(t)
  <2>1. Same(t, a, FreeFields)
    BY <1>6 DEF Same, FreeFields
  <2> QED
    BY <1>4, <2>1, FreeChange
<1>8. ClosedPanel(s) = t
  BY <1>1, <1>3, <1>5 DEF ClosedPanel
<1>9. Same(t, s, {"chatAttached", "chatSlotWidth", "stack"}) /\ t.chatAttached = FALSE
  BY <1>4, <1>6 DEF Same, WmFields
<1> QED
  BY <1>6, <1>7, <1>8, <1>9

LEMMA SlideStepFits ==
  ASSUME PlaceInv, PanelInv, NEW slide, SlideStep(slide)
  PROVE  /\ PlaceInv' /\ PanelInv'
         /\ Same(wm', wm, PanelFields \cup {"stack", "bounds", "last"})
<1>0. Base(wm) /\ Over(wm) /\ SizeOK
  BY DEF PlaceInv
<1>1. slide \in slides /\ slide \in SlideOf
  BY DEF SlideStep, PanelInv
<1>2. CASE /\ Stale(slide) /\ slides' = slides \ {slide} /\ UNCHANGED <<wm, size>>
  <2>1. PlaceInv'
    BY <1>2, StillPlaced
  <2>2. ~Live(slide)
    BY <1>2 DEF Stale, Live
  <2>3. \A p \in slides : Live(p) => p \in slides'
    BY <1>2, <2>2
  <2>4. PanelInv'
    BY <1>2, <2>3 DEF PanelInv, Live
  <2>5. Same(wm', wm, PanelFields \cup {"stack", "bounds", "last"})
    BY <1>0, <1>2 DEF Same, Base
  <2> QED
    BY <2>1, <2>4, <2>5
<1>3. ASSUME ~Stale(slide), NEW k \in slide.frame + 1 .. Frames, NEW s,
             s = [wm EXCEPT !.chatWidth = Stepped(slide, k)],
             \/ /\ k < Frames
                /\ WindowBecomes(s)
                /\ slides' = (slides \ {slide}) \cup {[slide EXCEPT !.frame = k]}
             \/ /\ k = Frames
                /\ WindowBecomes(IF slide.opening THEN s ELSE ClosedPanel(s))
                /\ slides' = slides \ {slide}
      PROVE  /\ PlaceInv' /\ PanelInv'
             /\ Same(wm', wm, PanelFields \cup {"stack", "bounds", "last"})
  <2>1. slide.from \in Int /\ slide.opening \in BOOLEAN /\ slide.frame \in 0..Frames - 1
    BY <1>1 DEF SlideOf
  <2>2. PICK goal \in Int : goal = IF slide.opening THEN ChatWidth ELSE 0
    BY DEF ChatWidth
  <2>3. PICK width : width = Stepped(slide, k)
    OBVIOUS
  <2>4. width \in Int /\ (k = Frames => width = goal)
    <3>1. k \in 0..Frames
      BY <2>1, WindowAssumption
    <3>2. width = Eased(slide.from, goal, k)
      BY <2>2, <2>3 DEF Stepped
    <3>3. Eased(slide.from, goal, k) \in Int /\ Eased(slide.from, goal, Frames) = goal
      BY <2>1, <3>1, EasedFacts
    <3>4. k = Frames => width = goal
      BY <3>2, <3>3
    <3> QED
      BY <3>2, <3>3, <3>4
  <2>5. Same(s, wm, {"chatWidth"}) /\ s.chatWidth = width
    BY <1>0, <1>3, <2>3 DEF Base, Same, WmFields
  <2>6. Base(s) /\ Over(s)
    <3>1. Same(s, wm, FreeFields)
      BY <2>5 DEF Same, FreeFields
    <3> QED
      BY <1>0, <3>1, FreeChange
  <2>7. slide.token = wm.token /\ slide.opening = wm.chatOpen
    BY <1>1, <1>3 DEF Stale, PanelInv, Live
  <2>8. \A p \in slides : p.token = wm.token => p = slide
    BY <1>1, <2>7 DEF PanelInv, Live
  <2>9. CASE k < Frames /\ WindowBecomes(s)
             /\ slides' = (slides \ {slide}) \cup {[slide EXCEPT !.frame = k]}
    <3>1. PlaceInv' /\ Same(wm', s, {"bounds", "last"})
      BY <1>0, <2>6, <2>9, PlaceLeft DEF WindowBecomes
    <3>2. /\ wm'.chatOpen = wm.chatOpen /\ wm'.chatWidth = width /\ wm'.token = wm.token
          /\ wm'.chatAttached = wm.chatAttached /\ wm'.chatSlotWidth = wm.chatSlotWidth
      BY <2>5, <3>1 DEF Same, WmFields
    <3>3. PICK next : next = [slide EXCEPT !.frame = k]
      OBVIOUS
    <3>4. next \in SlideOf /\ next.token = wm.token /\ next.opening = wm.chatOpen
      <4>1. k \in 0..Frames - 1
        BY <2>1, <2>9, WindowAssumption
      <4> QED
        BY <1>1, <2>7, <3>3, <4>1 DEF SlideOf
    <3>5. slides' = (slides \ {slide}) \cup {next}
      BY <2>9, <3>3
    <3>6. \A p \in slides' : p.token = wm.token => p = next
      BY <2>8, <3>5
    <3>7. \A p \in slides' : p \in SlideOf /\ p.token <= wm.token
      BY <3>4, <3>5 DEF PanelInv
    <3>8. next \in slides'
      BY <3>5
    <3>9. PanelInv'
      BY <2>4, <3>2, <3>4, <3>6, <3>7, <3>8 DEF PanelInv, Live
    <3>10. Same(wm', wm, PanelFields \cup {"stack", "bounds", "last"})
      BY <2>5, <3>1 DEF Same, WmFields, PanelFields
    <3> QED
      BY <3>1, <3>9, <3>10
  <2>10. CASE k = Frames /\ WindowBecomes(IF slide.opening THEN s ELSE ClosedPanel(s))
              /\ slides' = slides \ {slide}
    <3>1. \A p \in slides' : p.token # wm.token
      BY <2>8, <2>10
    <3>2. \A p \in slides' : p \in SlideOf /\ p.token <= wm.token
      BY <2>10 DEF PanelInv
    <3>3. CASE slide.opening = TRUE
      <4>1. WindowBecomes(s)
        BY <2>10, <3>3
      <4>2. PlaceInv' /\ Same(wm', s, {"bounds", "last"})
        BY <1>0, <2>6, <4>1, PlaceLeft DEF WindowBecomes
      <4>3. /\ wm'.chatOpen = wm.chatOpen /\ wm'.chatWidth = width /\ wm'.token = wm.token
            /\ wm'.chatAttached = wm.chatAttached /\ wm'.chatSlotWidth = wm.chatSlotWidth
        BY <2>5, <4>2 DEF Same, WmFields
      <4>4. width = ChatWidth
        BY <2>2, <2>4, <2>10, <3>3
      <4>5. PanelInv'
        BY <2>4, <2>7, <3>1, <3>2, <3>3, <4>3, <4>4 DEF PanelInv, Live
      <4>6. Same(wm', wm, PanelFields \cup {"stack", "bounds", "last"})
        BY <2>5, <4>2 DEF Same, WmFields, PanelFields
      <4> QED
        BY <4>2, <4>5, <4>6
    <3>4. CASE slide.opening = FALSE
      <4>1. PICK t : t = ClosedPanel(s)
        OBVIOUS
      <4>2. s.chatAttached \in BOOLEAN
        BY <2>5 DEF Same, WmFields, PanelInv
      <4>3. /\ Base(t) /\ Over(t) /\ Same(t, s, {"chatAttached", "chatSlotWidth", "stack"})
            /\ t.chatAttached = FALSE /\ t.chatSlotWidth = 0
        BY <2>6, <4>1, <4>2, ClosedPanelFacts
      <4>4. WindowBecomes(t)
        BY <2>10, <3>4, <4>1
      <4>5. PlaceInv' /\ Same(wm', t, {"bounds", "last"})
        BY <1>0, <4>3, <4>4, PlaceLeft DEF WindowBecomes
      <4>6. /\ wm'.chatOpen = wm.chatOpen /\ wm'.chatWidth = width /\ wm'.token = wm.token
            /\ wm'.chatAttached = FALSE /\ wm'.chatSlotWidth = 0
        <5>1. /\ t.chatOpen = wm.chatOpen /\ t.chatWidth = width /\ t.token = wm.token
          BY <2>5, <4>3 DEF Same, WmFields
        <5> QED
          BY <4>3, <4>5, <5>1 DEF Same, WmFields
      <4>7. width = 0
        BY <2>2, <2>4, <2>10, <3>4
      <4>8. PanelInv'
        BY <2>4, <2>7, <3>1, <3>2, <3>4, <4>6, <4>7 DEF PanelInv, Live
      <4>9. Same(wm', wm, PanelFields \cup {"stack", "bounds", "last"})
        BY <2>5, <4>3, <4>5 DEF Same, WmFields, PanelFields
      <4> QED
        BY <4>5, <4>8, <4>9
    <3> QED
      BY <2>1, <3>3, <3>4
  <2> QED
    BY <1>3, <2>9, <2>10
<1>4. CASE /\ ~Stale(slide)
           /\ \E k \in slide.frame + 1 .. Frames :
                LET s == [wm EXCEPT !.chatWidth = Stepped(slide, k)] IN
                \/ /\ k < Frames
                   /\ WindowBecomes(s)
                   /\ slides' = (slides \ {slide}) \cup {[slide EXCEPT !.frame = k]}
                \/ /\ k = Frames
                   /\ WindowBecomes(IF slide.opening THEN s ELSE ClosedPanel(s))
                   /\ slides' = slides \ {slide}
  BY <1>3, <1>4
<1> QED
  BY <1>2, <1>4 DEF SlideStep
-----------------------------------------------------------------------------
(* The tabs' views, the captions, fullscreen and the window's size.          *)
StackFields == {"stack", "bounds", "last", "page", "subtitleAttached", "browserFullscreen",
                "chatFullscreen"}

LEMMA OthersSame ==
  ASSUME Same(wm', wm, StackFields), UNCHANGED slides
  PROVE  RoomSame /\ PanelSame
  BY DEF Same, StackFields, WmFields, RoomSame, PanelSame

LEMMA FlagSet ==
  ASSUME NEW s, Base(s), NEW f \in {"subtitleAttached", "browserFullscreen"}, NEW t, Same(t, s, {f})
  PROVE  Base(t) /\ t.page = s.page /\ t.stack = s.stack
<1>1. Same(t, s, WmFields \ {"page", "stack", "bounds", "last"})
  BY DEF Same, WmFields
<1> QED
  BY <1>1, BaseKept DEF Same, WmFields

LEMMA ActivePageFits ==
  ASSUME PlaceInv, NEW view \in PageViews, SetActivePageView(view)
  PROVE  PlaceInv' /\ Same(wm', wm, StackFields)
<1>0. Base(wm) /\ Over(wm) /\ SizeOK /\ wm.page \in Views /\ view \in Views /\ view # wm.page
  BY DEF PlaceInv, Base, Views, SetActivePageView
<1>1. PICK d : d = Detach(wm, wm.page)
  OBVIOUS
<1>2. Base(d) /\ Same(d, wm, {"stack"})
  BY <1>0, <1>1, DetachFacts
<1>3. PICK e : e = [d EXCEPT !.page = view]
  OBVIOUS
<1>4. Same(e, d, {"page"}) /\ e.page = view
  BY <1>2, <1>3 DEF Base, Same, WmFields
<1>5. PICK f : f = Forget(e, "page")
  OBVIOUS
<1>6. /\ DOMAIN f = WmFields /\ f.last = [e.last EXCEPT !["page"] = NoBox]
      /\ \A x \in WmFields \ {"last"} : f[x] = e[x]
  BY <1>4, <1>5 DEF Forget, Same, WmFields
<1>7. /\ f.page = view /\ f.stack = d.stack /\ f.bounds = d.bounds /\ e.last = d.last
  BY <1>4, <1>6 DEF Same, WmFields
<1>8. Base(f)
  <2>1. DOMAIN f.last = Kinds /\ f.last["page"] = NoBox
        /\ \A k \in Kinds : k # "page" => f.last[k] = d.last[k]
    BY <1>2, <1>6, <1>7 DEF Base, Kinds
  <2>2. \A k \in Kinds : k # "page" => ViewOf(f, k) = ViewOf(d, k)
    BY DEF ViewOf
  <2>3. Cached(f)
    BY <1>2, <1>7, <2>1, <2>2 DEF Base, Cached
  <2> QED
    BY <1>2, <1>6, <1>7, <2>1, <2>3 DEF Base
<1>9. PICK r : r = Raise(f, view)
  OBVIOUS
<1>10. Base(r) /\ Same(r, f, {"stack"}) /\ OnTop(r.stack, f.stack, view)
  BY <1>0, <1>8, <1>9, RaiseFacts
<1>11. r.page = view /\ r.page \in Elems(r.stack)
  BY <1>7, <1>10 DEF Same, WmFields, OnTop
<1>12. PICK c : c = RaiseChrome(r)
  OBVIOUS
<1>13. /\ Base(c) /\ Same(c, r, {"stack", "last"}) /\ c.page \in Elems(c.stack)
       /\ Under(c, "chrome")
  BY <1>10, <1>11, <1>12, RaiseChromeFacts
<1>14. PICK s : s = RaiseSubtitle(c)
  OBVIOUS
<1>15. /\ Base(s) /\ Same(s, c, {"stack", "last"}) /\ s.page \in Elems(s.stack)
       /\ c.subtitleAttached => Under(s, "subtitle")
       /\ Under(s, "chrome")
  BY <1>13, <1>14, RaiseSubtitleFacts
<1>16. Over(s)
  <2>1. s.subtitleAttached = c.subtitleAttached
    BY <1>15 DEF Same, WmFields
  <2> QED
    BY <1>15, <2>1 DEF Over
<1>17. wm' = Relaid(s) /\ size' = size
  BY <1>1, <1>3, <1>5, <1>9, <1>12, <1>14 DEF SetActivePageView, WindowBecomes
<1>18. PlaceInv' /\ Same(wm', s, {"bounds", "last"})
  BY <1>0, <1>15, <1>16, <1>17, PlaceLeft
<1>19. Same(f, wm, {"stack", "last", "page"})
  BY <1>2, <1>4, <1>6 DEF Same, WmFields
<1>20. Same(s, f, {"stack", "last"})
  BY <1>10, <1>13, <1>15 DEF Same, WmFields
<1> QED
  BY <1>18, <1>19, <1>20 DEF Same, WmFields, StackFields

LEMMA SyncSubtitleFits ==
  ASSUME PlaceInv, SyncSubtitleOverlay
  PROVE  PlaceInv' /\ Same(wm', wm, StackFields)
<1>0. Base(wm) /\ Over(wm) /\ SizeOK /\ "subtitle" \in Views
  BY DEF PlaceInv, Views
<1>1. CASE wm.subtitleAttached
  <2>1. PICK d : d = Detach(wm, "subtitle")
    OBVIOUS
  <2>2. Base(d) /\ Same(d, wm, {"stack"}) /\ Restacked(d.stack, wm.stack, "subtitle")
    BY <1>0, <2>1, DetachFacts
  <2>3. PICK s : s = [d EXCEPT !.subtitleAttached = FALSE]
    OBVIOUS
  <2>4. Same(s, d, {"subtitleAttached"}) /\ s.subtitleAttached = FALSE
    BY <2>2, <2>3 DEF Base, Same, WmFields
  <2>5. Base(s) /\ s.page = d.page /\ s.stack = d.stack
    BY <2>2, <2>4, FlagSet
  <2>6. /\ s.page = wm.page /\ s.browserFullscreen = wm.browserFullscreen
        /\ s.chatAttached = wm.chatAttached /\ s.bounds = wm.bounds
    BY <2>2, <2>4 DEF Same, WmFields
  <2>7. wm.page # "subtitle"
    BY <1>0, WindowAssumption DEF Base
  <2>8. Over(s)
    <3>1. s.page \in Elems(s.stack)
      BY <1>0, <2>2, <2>5, <2>6, <2>7 DEF Over, Restacked
    <3>2. Under(wm, "chrome") => Under(s, "chrome")
      BY <2>2, <2>5, <2>6, <2>7, <3>1 DEF Under, Restacked
    <3> QED
      BY <1>0, <2>4, <2>6, <3>1, <3>2 DEF Over
  <2>9. ASSUME InPlace(wm, size.width, size.height) PROVE InPlace(s, size.width, size.height)
    <3>1. Same(s, wm, {"page", "stack", "bounds", "last", "subtitleAttached", "token", "chatOpen",
                       "chatAttached"})
      BY <2>2, <2>4 DEF Same, WmFields
    <3>2. ComputeLayout(s, size.width, size.height) = ComputeLayout(wm, size.width, size.height)
      BY <3>1, SameLayout
    <3>3. Shown(s) \subseteq Shown(wm)
      BY <2>4, <2>6 DEF Shown
    <3>4. \A k : ViewOf(s, k) = ViewOf(wm, k)
      BY <2>6 DEF ViewOf
    <3> QED
      BY <2>6, <2>9, <3>2, <3>3, <3>4 DEF InPlace
  <2>10. wm' = s /\ size' = size
    BY <1>1, <2>1, <2>3 DEF SyncSubtitleOverlay
  <2>11. PlaceInv'
    BY <2>5, <2>8, <2>9, <2>10 DEF PlaceInv, SizeOK
  <2>12. Same(s, wm, StackFields)
    BY <2>2, <2>4 DEF Same, WmFields, StackFields
  <2> QED
    BY <2>10, <2>11, <2>12
<1>2. CASE ~wm.subtitleAttached
  <2>1. PICK u : u = [wm EXCEPT !.subtitleAttached = TRUE]
    OBVIOUS
  <2>2. Same(u, wm, {"subtitleAttached"}) /\ u.subtitleAttached = TRUE
    BY <1>0, <2>1 DEF Base, Same, WmFields
  <2>3. Base(u) /\ u.page = wm.page /\ u.stack = wm.stack
    BY <1>0, <2>2, FlagSet
  <2>4. u.page \in Elems(u.stack) /\ (Under(wm, "chrome") => Under(u, "chrome"))
    BY <1>0, <2>3 DEF Over, Under
  <2>5. PICK s : s = RaiseSubtitle(u)
    OBVIOUS
  <2>6. /\ Base(s) /\ Same(s, u, {"stack", "last"}) /\ s.page \in Elems(s.stack)
        /\ Under(s, "subtitle") /\ (Under(u, "chrome") => Under(s, "chrome"))
    BY <2>2, <2>3, <2>4, <2>5, RaiseSubtitleFacts
  <2>7. Over(s)
    <3>1. s.browserFullscreen = wm.browserFullscreen
      BY <2>2, <2>6 DEF Same, WmFields
    <3> QED
      BY <1>0, <2>4, <2>6, <3>1 DEF Over
  <2>8. wm' = Relaid(s) /\ size' = size
    BY <1>2, <2>1, <2>5 DEF SyncSubtitleOverlay, WindowBecomes
  <2>9. PlaceInv' /\ Same(wm', s, {"bounds", "last"})
    BY <1>0, <2>6, <2>7, <2>8, PlaceLeft
  <2> QED
    BY <2>2, <2>6, <2>9 DEF Same, WmFields, StackFields
<1> QED
  BY <1>1, <1>2

LEMMA FullScreenFits ==
  ASSUME PlaceInv, EnterFullScreen \/ LeaveFullScreen
  PROVE  PlaceInv' /\ Same(wm', wm, StackFields)
<1>0. Base(wm) /\ Over(wm) /\ SizeOK /\ wm.page \in Views
  BY DEF PlaceInv, Views, Base
<1>1. CASE EnterFullScreen
  <2>1. PICK u : u = [wm EXCEPT !.browserFullscreen = TRUE]
    OBVIOUS
  <2>2. Same(u, wm, {"browserFullscreen"}) /\ u.browserFullscreen = TRUE
    BY <1>0, <2>1 DEF Base, Same, WmFields
  <2>3. Base(u) /\ u.page = wm.page /\ u.stack = wm.stack
    BY <1>0, <2>2, FlagSet
  <2>4. PICK r : r = Raise(u, wm.page)
    OBVIOUS
  <2>5. Base(r) /\ Same(r, u, {"stack"}) /\ OnTop(r.stack, u.stack, wm.page)
    BY <1>0, <2>3, <2>4, RaiseFacts
  <2>6. PICK f : f = Forget(r, "page")
    OBVIOUS
  <2>7. Base(f) /\ Same(f, r, {"last"}) /\ f.stack = r.stack
    BY <2>5, <2>6, ForgetFacts DEF Kinds
  <2>8. f.page = wm.page /\ f.page \in Elems(f.stack)
    BY <2>3, <2>5, <2>7 DEF Same, WmFields, OnTop
  <2>9. PICK s : s = RaiseSubtitle(f)
    OBVIOUS
  <2>10. /\ Base(s) /\ Same(s, f, {"stack", "last"}) /\ s.page \in Elems(s.stack)
         /\ f.subtitleAttached => Under(s, "subtitle")
    BY <2>7, <2>8, <2>9, RaiseSubtitleFacts
  <2>11. Over(s)
    <3>1. s.browserFullscreen = TRUE /\ s.subtitleAttached = f.subtitleAttached
      BY <2>2, <2>5, <2>7, <2>10 DEF Same, WmFields
    <3> QED
      BY <2>10, <3>1 DEF Over
  <2>12. wm' = Relaid(s) /\ size' = size
    BY <1>1, <2>1, <2>4, <2>6, <2>9 DEF EnterFullScreen, WindowBecomes
  <2>13. PlaceInv' /\ Same(wm', s, {"bounds", "last"})
    BY <1>0, <2>10, <2>11, <2>12, PlaceLeft
  <2> QED
    BY <2>2, <2>5, <2>7, <2>10, <2>13 DEF Same, WmFields, StackFields
<1>2. CASE LeaveFullScreen
  <2>1. PICK u : u = [wm EXCEPT !.browserFullscreen = FALSE]
    OBVIOUS
  <2>2. Same(u, wm, {"browserFullscreen"})
    BY <1>0, <2>1 DEF Base, Same, WmFields
  <2>3. Base(u) /\ u.page = wm.page /\ u.stack = wm.stack
    BY <1>0, <2>2, FlagSet
  <2>4. u.page \in Elems(u.stack) /\ (Under(wm, "subtitle") => Under(u, "subtitle"))
    BY <1>0, <2>3 DEF Over, Under
  <2>5. PICK s : s = RaiseChrome(u)
    OBVIOUS
  <2>6. /\ Base(s) /\ Same(s, u, {"stack", "last"}) /\ s.page \in Elems(s.stack)
        /\ Under(s, "chrome") /\ (Under(u, "subtitle") => Under(s, "subtitle"))
    BY <2>3, <2>4, <2>5, RaiseChromeFacts
  <2>7. Over(s)
    <3>1. s.subtitleAttached = wm.subtitleAttached
      BY <2>2, <2>6 DEF Same, WmFields
    <3> QED
      BY <1>0, <2>4, <2>6, <3>1 DEF Over
  <2>8. wm' = Relaid(s) /\ size' = size
    BY <1>2, <2>1, <2>5 DEF LeaveFullScreen, WindowBecomes
  <2>9. PlaceInv' /\ Same(wm', s, {"bounds", "last"})
    BY <1>0, <2>6, <2>7, <2>8, PlaceLeft
  <2> QED
    BY <2>2, <2>6, <2>9 DEF Same, WmFields, StackFields
<1> QED
  BY <1>1, <1>2

LEMMA ResizeFits ==
  ASSUME PlaceInv, Resize \/ Resized
  PROVE  PlaceInv' /\ Same(wm', wm, StackFields)
<1>0. Base(wm) /\ Over(wm) /\ SizeOK
  BY DEF PlaceInv
<1>1. CASE Resize
  <2>1. PICK s \in Sizes : size' = [width |-> s[1], height |-> s[2], due |-> TRUE]
    BY <1>1 DEF Resize
  <2>2. s[1] \in Nat \ {0} /\ s[2] \in Nat \ {0}
    BY WindowAssumption
  <2>3. SizeOK' /\ size'.due = TRUE
    BY <2>1, <2>2 DEF SizeOK
  <2>4. wm' = wm
    BY <1>1 DEF Resize
  <2>5. Same(wm, wm, StackFields)
    BY <1>0 DEF Same, Base
  <2> QED
    BY <1>0, <2>3, <2>4, <2>5 DEF PlaceInv
<1>2. CASE Resized
  <2>1. wm' = Relaid(wm) /\ size' = [size EXCEPT !.due = FALSE]
    BY <1>2 DEF Resized
  <2>2. DOMAIN size' = DOMAIN size /\ size'.width = size.width /\ size'.height = size.height
    BY <1>0, <2>1 DEF SizeOK
  <2>3. PlaceInv' /\ Same(wm', wm, {"bounds", "last"})
    BY <1>0, <2>1, <2>2, PlaceLeft
  <2> QED
    BY <2>3 DEF Same, StackFields
<1> QED
  BY <1>1, <1>2

LEMMA OpenFindBarFits == ASSUME WindowInv, OpenFindBar PROVE WindowInv'
<1>0. /\ Base(wm) /\ Over(wm) /\ SizeOK /\ mail.chrome \in Seq(Calls)
      /\ DOMAIN mail = {"chrome", "chat", "find"}
  BY DEF WindowInv, PlaceInv, RoomInv
<1>1. PICK u : u = [wm EXCEPT !.findBarOpen = TRUE]
  OBVIOUS
<1>2. Same(u, wm, {"findBarOpen"}) /\ u.findBarOpen = TRUE
  BY <1>0, <1>1 DEF Base, Same, WmFields
<1>3. Base(u) /\ Over(u)
  <2>1. Same(u, wm, FreeFields)
    BY <1>2 DEF Same, FreeFields
  <2> QED
    BY <1>0, <2>1, FreeChange
<1>4. wm' = Relaid(u) /\ size' = size
  BY <1>1 DEF OpenFindBar, WindowBecomes
<1>5. PlaceInv' /\ Same(wm', u, {"bounds", "last"})
  BY <1>0, <1>3, <1>4, PlaceLeft
<1>6. /\ wm'.findBarOpen = TRUE /\ wm'.chromeFullscreen = wm.chromeFullscreen
      /\ wm'.toolbarPopoverOpen = wm.toolbarPopoverOpen
  BY <1>2, <1>5 DEF Same, WmFields
<1>7. PanelSame
  BY <1>2, <1>5 DEF Same, WmFields, PanelSame, OpenFindBar
<1>8. wm.findBarOpen = FALSE /\ mail.find = 0 /\ ui.finding = FALSE /\ NoClose(mail.chrome)
  BY DEF WindowInv, RoomInv, FindInv, OpenFindBar
<1>9. /\ mail'.find = 1 /\ mail'.chrome = mail.chrome /\ DOMAIN mail' = DOMAIN mail /\ ui' = ui
  BY <1>0, <1>8 DEF OpenFindBar
<1>10. FindInv'
  BY <1>6, <1>8, <1>9 DEF FindInv
<1>11. RoomInv'
  BY <1>6, <1>9, <1>10 DEF WindowInv, RoomInv
<1> QED
  BY <1>5, <1>7, <1>11, PanelKept DEF WindowInv

LEMMA ChromeCallsFits == ASSUME WindowInv, ChromeCalls PROVE WindowInv'
<1>0. /\ mail.chrome \in Seq(Calls) /\ DOMAIN mail = {"chrome", "chat", "find"}
      /\ mail.chrome # <<>> /\ PlaceInv /\ RoomInv /\ PanelInv
  BY DEF WindowInv, RoomInv, ChromeCalls
<1>1. PICK list \in Seq(Calls) : list = mail.chrome /\ list # <<>>
  BY <1>0
<1>2. PICK rest : rest = Tail(list)
  OBVIOUS
<1>3. PICK m : m = list[1]
  OBVIOUS
<1>4. /\ rest \in Seq(Calls)
      /\ \A call, was, now : Coming(list, call, was, now) =>
              /\ m.call = call => Coming(rest, call, m.open, now)
              /\ m.call # call => Coming(rest, call, was, now)
      /\ NoClose(list) => NoClose(rest) /\ m.call # "closeFindBar"
      /\ OneClose(list) => IF m.call = "closeFindBar" THEN NoClose(rest) ELSE OneClose(rest)
  BY <1>1, <1>2, <1>3, CallHeard
<1>5. /\ mail' = [mail EXCEPT !.chrome = rest] /\ ui' = ui
  BY <1>1, <1>2 DEF ChromeCalls
<1>6. /\ mail'.chrome = rest /\ mail'.find = mail.find /\ DOMAIN mail' = DOMAIN mail
  BY <1>0, <1>5
<1>7. /\ Coming(list, "overlay", wm.chromeFullscreen, AnyOpen(ui.overlays))
      /\ Coming(list, "popover", wm.toolbarPopoverOpen, AnyOpen(ui.popovers))
      /\ DOMAIN ui = {"popovers", "overlays", "finding"}
  BY <1>0, <1>1 DEF RoomInv
<1>8. ASSUME m.call # "closeFindBar", wm'.findBarOpen = wm.findBarOpen PROVE FindInv'
  <2>1. (NoClose(list) => NoClose(rest)) /\ (OneClose(list) => OneClose(rest))
    BY <1>4, <1>8
  <2> QED
    BY <1>0, <1>1, <1>5, <1>6, <1>8, <2>1 DEF RoomInv, FindInv
<1>9. CASE m.call = "overlay" /\ SetChromeFullscreen(m.open) /\ UNCHANGED slides
  <2>1. /\ PlaceInv' /\ wm'.chromeFullscreen = m.open
        /\ Same(wm', wm, {"chromeFullscreen", "stack", "bounds", "last"})
    BY <1>0, <1>9, AskedFits
  <2>2. /\ wm'.toolbarPopoverOpen = wm.toolbarPopoverOpen /\ wm'.findBarOpen = wm.findBarOpen
        /\ PanelSame
    BY <1>9, <2>1 DEF Same, WmFields, PanelSame
  <2>3. FindInv'
    BY <1>8, <1>9, <2>2
  <2>4. /\ Coming(rest, "overlay", wm'.chromeFullscreen, AnyOpen(ui.overlays))
        /\ Coming(rest, "popover", wm'.toolbarPopoverOpen, AnyOpen(ui.popovers))
    BY <1>4, <1>7, <1>9, <2>1, <2>2
  <2>5. RoomInv'
    BY <1>0, <1>4, <1>5, <1>6, <1>7, <2>3, <2>4 DEF RoomInv
  <2> QED
    BY <1>0, <2>1, <2>2, <2>5, PanelKept DEF WindowInv
<1>10. CASE m.call = "popover" /\ SetToolbarPopoverOpen(m.open) /\ UNCHANGED slides
  <2>1. /\ PlaceInv' /\ wm'.toolbarPopoverOpen = m.open
        /\ Same(wm', wm, {"toolbarPopoverOpen", "bounds", "last"})
    BY <1>0, <1>10, AskedFits
  <2>2. /\ wm'.chromeFullscreen = wm.chromeFullscreen /\ wm'.findBarOpen = wm.findBarOpen
        /\ PanelSame
    BY <1>10, <2>1 DEF Same, WmFields, PanelSame
  <2>3. FindInv'
    BY <1>8, <1>10, <2>2
  <2>4. /\ Coming(rest, "overlay", wm'.chromeFullscreen, AnyOpen(ui.overlays))
        /\ Coming(rest, "popover", wm'.toolbarPopoverOpen, AnyOpen(ui.popovers))
    BY <1>4, <1>7, <1>10, <2>1, <2>2
  <2>5. RoomInv'
    BY <1>0, <1>4, <1>5, <1>6, <1>7, <2>3, <2>4 DEF RoomInv
  <2> QED
    BY <1>0, <2>1, <2>2, <2>5, PanelKept DEF WindowInv
<1>11. CASE m.call = "closeFindBar" /\ CloseFindBar /\ UNCHANGED slides
  <2>1. /\ PlaceInv' /\ wm'.findBarOpen = FALSE /\ Same(wm', wm, {"findBarOpen", "bounds", "last"})
    BY <1>0, <1>11, AskedFits
  <2>2. /\ wm'.chromeFullscreen = wm.chromeFullscreen /\ PanelSame
        /\ wm'.toolbarPopoverOpen = wm.toolbarPopoverOpen
    BY <1>11, <2>1 DEF Same, WmFields, PanelSame
  <2>3. mail.find = 0 /\ ui.finding = FALSE /\ OneClose(list)
    BY <1>0, <1>1, <1>4, <1>11 DEF RoomInv, FindInv
  <2>4. NoClose(rest)
    BY <1>4, <1>11, <2>3
  <2>5. FindInv'
    BY <1>5, <1>6, <2>1, <2>3, <2>4 DEF FindInv
  <2>6. /\ Coming(rest, "overlay", wm'.chromeFullscreen, AnyOpen(ui.overlays))
        /\ Coming(rest, "popover", wm'.toolbarPopoverOpen, AnyOpen(ui.popovers))
    BY <1>4, <1>7, <1>11, <2>2
  <2>7. RoomInv'
    BY <1>0, <1>4, <1>5, <1>6, <1>7, <2>5, <2>6 DEF RoomInv
  <2> QED
    BY <1>0, <2>1, <2>2, <2>7, PanelKept DEF WindowInv
<1>12. CASE m.call = "toggleChat" /\ Toggled
  <2>1. PlaceInv' /\ PanelInv' /\ Same(wm', wm, PanelFields \cup {"stack", "bounds", "last"})
    BY <1>0, <1>12, ToggledFits
  <2>2. RoomSame
    BY <2>1 DEF Same, WmFields, PanelFields, RoomSame
  <2>3. FindInv'
    BY <1>8, <1>12, <2>2 DEF RoomSame
  <2>4. /\ Coming(rest, "overlay", wm'.chromeFullscreen, AnyOpen(ui.overlays))
        /\ Coming(rest, "popover", wm'.toolbarPopoverOpen, AnyOpen(ui.popovers))
    BY <1>4, <1>7, <1>12, <2>2 DEF RoomSame
  <2>5. RoomInv'
    BY <1>0, <1>4, <1>5, <1>6, <1>7, <2>3, <2>4 DEF RoomInv
  <2> QED
    BY <2>1, <2>5 DEF WindowInv
<1>13. \/ m.call = "overlay" /\ SetChromeFullscreen(m.open) /\ UNCHANGED slides
       \/ m.call = "popover" /\ SetToolbarPopoverOpen(m.open) /\ UNCHANGED slides
       \/ m.call = "closeFindBar" /\ CloseFindBar /\ UNCHANGED slides
       \/ m.call = "toggleChat" /\ Toggled
  BY <1>1, <1>3 DEF ChromeCalls
<1> QED
  BY <1>9, <1>10, <1>11, <1>12, <1>13
-----------------------------------------------------------------------------
(* What tells the two renderers nothing, and does not move the panel.        *)
LEMMA ActsFit ==
  ASSUME WindowInv,
         \/ \E p \in Popovers : ClickToolbar(p)
         \/ \E o \in Overlays : ToggleOverlay(o)
         \/ PageNavigated \/ ClickChat \/ DismissFindBar \/ ShowFindBar
  PROVE  WindowInv'
<1>1. PlaceInv /\ RoomInv /\ PanelInv
  BY DEF WindowInv
<1>2. RoomInv' /\ UNCHANGED <<wm, size, slides>>
  BY <1>1, ChromeActs, ShowFindBarFits
<1>3. PlaceInv'
  BY <1>1, <1>2, StillPlaced
<1>4. PanelSame
  BY <1>2 DEF PanelSame
<1> QED
  BY <1>1, <1>2, <1>3, <1>4, PanelKept DEF WindowInv

LEMMA PanelShowsMail ==
  ASSUME NEW next, PanelShows(next)
  PROVE  \E x : mail' = [mail EXCEPT !.chat = x]
  BY DEF PanelShows

LEMMA PanelActsFit ==
  ASSUME WindowInv, ToggleLightbox \/ TakenGone \/ UsernameTaken
  PROVE  WindowInv'
<1>1. PlaceInv /\ RoomInv /\ PanelInv
  BY DEF WindowInv
<1>2. ui' = ui
  BY DEF ToggleLightbox, TakenGone, UsernameTaken
<1>3. PICK next : PanelShows(next)
  BY DEF ToggleLightbox, TakenGone, UsernameTaken
<1>4. \E x : mail' = [mail EXCEPT !.chat = x]
  BY <1>3, PanelShowsMail
<1>5. UNCHANGED <<wm, size, slides>> \/ Toggled
  BY DEF ToggleLightbox, TakenGone, UsernameTaken
<1>6. CASE UNCHANGED <<wm, size, slides>>
  <2>1. PlaceInv' /\ RoomSame /\ PanelSame
    BY <1>1, <1>6, StillPlaced DEF RoomSame, PanelSame
  <2>2. RoomInv'
    BY <1>1, <1>2, <1>4, <2>1, RoomKept
  <2> QED
    BY <1>1, <2>1, <2>2, PanelKept DEF WindowInv
<1>7. CASE Toggled
  <2>1. PlaceInv' /\ PanelInv' /\ Same(wm', wm, PanelFields \cup {"stack", "bounds", "last"})
    BY <1>1, <1>7, ToggledFits
  <2>2. RoomSame
    BY <2>1 DEF Same, WmFields, PanelFields, RoomSame
  <2>3. RoomInv'
    BY <1>1, <1>2, <1>4, <2>2, RoomKept
  <2> QED
    BY <2>1, <2>3 DEF WindowInv
<1> QED
  BY <1>5, <1>6, <1>7

(* What moves the views without a word to the chrome or to the panel.        *)
LEMMA MovesFit ==
  ASSUME WindowInv,
         \/ ChatCalls \/ SyncSubtitleOverlay \/ EnterFullScreen \/ LeaveFullScreen
         \/ Resize \/ Resized \/ \E v \in PageViews : SetActivePageView(v)
  PROVE  WindowInv'
<1>1. PlaceInv /\ RoomInv /\ PanelInv
  BY DEF WindowInv
<1>2. /\ UNCHANGED <<ui, slides>>
      /\ mail' = mail \/ \E x : mail' = [mail EXCEPT !.chat = x]
  BY DEF ChatCalls, SyncSubtitleOverlay, EnterFullScreen, LeaveFullScreen, Resize, Resized,
         SetActivePageView
<1>3. PlaceInv' /\ Same(wm', wm, StackFields)
  <2>1. CASE ChatCalls
    <3>1. PlaceInv' /\ Same(wm', wm, {"chatFullscreen", "stack", "bounds", "last"})
      BY <1>1, <2>1, ChatFullscreenFits DEF ChatCalls
    <3> QED
      BY <3>1 DEF Same, StackFields
  <2>2. CASE SyncSubtitleOverlay
    BY <1>1, <2>2, SyncSubtitleFits
  <2>3. CASE EnterFullScreen \/ LeaveFullScreen
    BY <1>1, <2>3, FullScreenFits
  <2>4. CASE Resize \/ Resized
    BY <1>1, <2>4, ResizeFits
  <2>5. CASE \E v \in PageViews : SetActivePageView(v)
    BY <1>1, <2>5, ActivePageFits
  <2> QED
    BY <2>1, <2>2, <2>3, <2>4, <2>5
<1>4. RoomSame /\ PanelSame
  BY <1>2, <1>3, OthersSame
<1>5. RoomInv'
  BY <1>1, <1>2, <1>4, RoomKept
<1> QED
  BY <1>1, <1>3, <1>4, <1>5, PanelKept DEF WindowInv

LEMMA SlidesFit ==
  ASSUME WindowInv, NEW slide, SlideStep(slide)
  PROVE  WindowInv'
<1>1. PlaceInv /\ RoomInv /\ PanelInv
  BY DEF WindowInv
<1>2. PlaceInv' /\ PanelInv' /\ Same(wm', wm, PanelFields \cup {"stack", "bounds", "last"})
  BY <1>1, SlideStepFits
<1>3. RoomSame
  BY <1>2 DEF Same, WmFields, PanelFields, RoomSame
<1>4. UNCHANGED <<ui, mail>>
  BY DEF SlideStep
<1>5. RoomInv'
  BY <1>1, <1>3, <1>4, RoomKept
<1> QED
  BY <1>2, <1>5 DEF WindowInv

LEMMA WindowInvNext == WindowInv /\ [WindowNext]_windowVars => WindowInv'
<1> SUFFICES ASSUME WindowInv, [WindowNext]_windowVars PROVE WindowInv'
  OBVIOUS
<1>1. CASE UNCHANGED windowVars
  <2>1. PlaceInv /\ RoomInv /\ PanelInv /\ UNCHANGED <<wm, size, slides, ui, mail>>
    BY <1>1 DEF WindowInv, windowVars
  <2>2. PlaceInv' /\ RoomSame /\ PanelSame
    BY <2>1, StillPlaced DEF RoomSame, PanelSame
  <2>3. RoomInv'
    BY <2>1, <2>2, RoomKept
  <2> QED
    BY <2>1, <2>2, <2>3, PanelKept DEF WindowInv
<1>2. CASE UserNext
  BY <1>2, ActsFit, PanelActsFit, MovesFit, OpenFindBarFits DEF UserNext
<1>3. CASE ShowFindBar \/ ChromeCalls \/ ChatCalls \/ Resized
  BY <1>3, ActsFit, ChromeCallsFits, MovesFit
<1>4. CASE \E slide \in slides : SlideStep(slide)
  BY <1>4, SlidesFit
<1> QED
  BY <1>1, <1>2, <1>3, <1>4 DEF WindowNext

LEMMA WindowInvInit == WindowInit => WindowInv
<1> SUFFICES ASSUME WindowInit PROVE WindowInv
  OBVIOUS
<1>1. SizeOK /\ size.due = FALSE
  <2>1. DOMAIN size = {"width", "height", "due"} /\ size.due = FALSE
    BY DEF WindowInit
  <2>2. <<size.width, size.height>> \in (Nat \ {0}) \X (Nat \ {0})
    BY WindowAssumption DEF WindowInit
  <2>3. size.width \in Nat \ {0} /\ size.height \in Nat \ {0}
    BY <2>2
  <2> QED
    BY <2>1, <2>3 DEF SizeOK
<1>2. PICK first : first = CHOOSE p \in PageViews : TRUE
  OBVIOUS
<1>3. first \in PageViews
  BY <1>2, WindowAssumption
<1>4. PICK fresh : fresh =
        [chatOpen |-> FALSE, chatWidth |-> 0, chatSlotWidth |-> 0,
         chatAttached |-> FALSE, token |-> 0, chromeFullscreen |-> FALSE,
         findBarOpen |-> FALSE, chatFullscreen |-> FALSE,
         toolbarPopoverOpen |-> FALSE, browserFullscreen |-> FALSE,
         page |-> first, subtitleAttached |-> FALSE,
         stack |-> <<first, "chrome">>,
         bounds |-> [v \in Views |-> NoBox],
         last |-> [k \in Kinds |-> NoBox]]
  OBVIOUS
<1>5. wm = Relaid(fresh)
  BY <1>2, <1>4 DEF WindowInit
<1>6. /\ DOMAIN fresh = WmFields /\ fresh.page = first /\ fresh.browserFullscreen = FALSE
      /\ fresh.subtitleAttached = FALSE /\ fresh.bounds = [v \in Views |-> NoBox]
      /\ fresh.last = [k \in Kinds |-> NoBox]
  BY <1>4 DEF WmFields
<1>7. PICK stack \in Seq(Views) : stack = <<first, "chrome">>
  <2>1. PICK chrome \in Views : chrome = "chrome"
    BY DEF Views
  <2>2. first \in Views
    BY <1>3 DEF Views
  <2>3. <<first, chrome>> \in Seq(Views)
    BY <2>2
  <2> QED
    BY <2>1, <2>3, Zenon
<1>8. fresh.stack = stack
  BY <1>4, <1>7
<1>9. DOMAIN stack = {1, 2} /\ stack[1] = first /\ stack[2] = "chrome" /\ first # "chrome"
  BY <1>3, <1>7, WindowAssumption
<1>10. first \in Elems(stack) /\ Before(stack, first, "chrome")
  BY <1>9 DEF Elems, Before
<1>11. Over(fresh)
  BY <1>6, <1>8, <1>10 DEF Over, Under
<1>12. Base(fresh)
  BY <1>3, <1>6, <1>7, <1>8 DEF Base, Cached
<1>13. /\ Base(wm) /\ Same(wm, fresh, {"bounds", "last"})
       /\ InPlace(wm, size.width, size.height)
  BY <1>1, <1>5, <1>12, RelaidFacts
<1>14. Over(wm)
  <2>1. /\ wm.page = fresh.page /\ wm.stack = fresh.stack
        /\ wm.browserFullscreen = fresh.browserFullscreen
        /\ wm.subtitleAttached = fresh.subtitleAttached
    BY <1>13 DEF Same, WmFields
  <2> QED
    BY <1>11, <2>1, OverKept
<1>15. PlaceInv
  BY <1>1, <1>13, <1>14 DEF PlaceInv
<1>16. /\ wm.chatOpen = FALSE /\ wm.chatWidth = 0 /\ wm.chatSlotWidth = 0
       /\ wm.chatAttached = FALSE /\ wm.token = 0 /\ wm.chromeFullscreen = FALSE
       /\ wm.findBarOpen = FALSE /\ wm.toolbarPopoverOpen = FALSE
  BY <1>4, <1>13 DEF Same, WmFields
<1>17. PanelInv
  <2>1. slides = {}
    BY DEF WindowInit
  <2>2. wm.token \in Nat /\ wm.chatWidth \in Int
    BY <1>16
  <2>5. wm.chatOpen \in BOOLEAN /\ wm.chatAttached \in BOOLEAN
    BY <1>16, Zenon
  <2>3. wm.chatAttached = wm.chatOpen /\ wm.chatWidth = wm.chatSlotWidth
    BY <1>16, Zenon
  <2>4. ~(wm.chatOpen = TRUE) /\ wm.chatWidth = 0
    BY <1>16
  <2> QED
    BY <2>1, <2>2, <2>3, <2>4, <2>5 DEF PanelInv
<1>18. PICK none \in Seq(Calls) : /\ none = <<>> /\ NoClose(none)
                                  /\ \A call, x : Coming(none, call, x, x)
  BY NothingCalled
<1>19. /\ DOMAIN mail = {"chrome", "chat", "find"} /\ mail.chrome = none /\ mail.find = 0
       /\ DOMAIN ui = {"popovers", "overlays", "finding"} /\ ui.finding = FALSE
       /\ ui.popovers = {} /\ ui.overlays = {}
  BY <1>18 DEF WindowInit
<1>20. FindInv
  BY <1>16, <1>18, <1>19 DEF FindInv
<1>21. RoomInv
  <2>1. AnyOpen(ui.overlays) = FALSE /\ AnyOpen(ui.popovers) = FALSE
    BY <1>19 DEF AnyOpen
  <2>2. /\ Coming(none, "overlay", wm.chromeFullscreen, AnyOpen(ui.overlays))
        /\ Coming(none, "popover", wm.toolbarPopoverOpen, AnyOpen(ui.popovers))
    BY <1>16, <1>18, <2>1
  <2> QED
    BY <1>18, <1>19, <1>20, <2>2 DEF RoomInv
<1> QED
  BY <1>15, <1>17, <1>21 DEF WindowInv

LEMMA UnderAbove ==
  ASSUME NEW view, Under(wm, view)
  PROVE  Above(view, wm.page)
  BY DEF Under, Above, Before

LEMMA WindowInvSound == WindowInv => WindowSound
<1> SUFFICES ASSUME WindowInv PROVE WindowSound
  OBVIOUS
<1>1. PlaceInv /\ RoomInv /\ PanelInv
  BY DEF WindowInv
<1>2. ViewsInPlace
  <2>1. ~wm.browserFullscreen => Above("chrome", wm.page)
    BY <1>1, UnderAbove DEF PlaceInv, Over
  <2>2. wm.subtitleAttached => Above("subtitle", wm.page)
    BY <1>1, UnderAbove DEF PlaceInv, Over
  <2>3. ~size.due => \A k \in Shown(wm) :
          wm.bounds[ViewOf(wm, k)] = ComputeLayout(wm, size.width, size.height)[k]
    BY <1>1 DEF PlaceInv, InPlace
  <2> QED
    BY <2>1, <2>2, <2>3 DEF ViewsInPlace
<1>3. OverlaysHaveRoom
  <2>1. ASSUME mail.chrome = <<>>
        PROVE  /\ wm.chromeFullscreen = AnyOpen(ui.overlays)
               /\ wm.toolbarPopoverOpen = AnyOpen(ui.popovers)
    <3>1. DOMAIN mail.chrome = {}
      BY <2>1
    <3> QED
      BY <1>1, <3>1 DEF RoomInv, Coming
  <2>2. ASSUME mail.chrome = <<>>, mail.find = 0 PROVE wm.findBarOpen = ui.finding
    <3>1. DOMAIN mail.chrome = {}
      BY <2>2
    <3>2. ~OneClose(mail.chrome)
      BY <3>1 DEF OneClose
    <3>3. ui.finding \in BOOLEAN /\ wm.findBarOpen \in BOOLEAN
      BY <1>1 DEF RoomInv, FindInv
    <3>4. (wm.findBarOpen = TRUE /\ ui.finding = TRUE) \/ (wm.findBarOpen = FALSE /\ ui.finding = FALSE)
      BY <1>1, <2>2, <3>2 DEF RoomInv, FindInv
    <3>5. CASE wm.findBarOpen = TRUE /\ ui.finding = TRUE
      BY <3>5
    <3>6. CASE wm.findBarOpen = FALSE /\ ui.finding = FALSE
      BY <3>6
    <3> QED
      BY <3>4, <3>5, <3>6
  <2> QED
    BY <2>1, <2>2 DEF OverlaysHaveRoom
<1>4. PanelAtRest
  <2> SUFFICES ASSUME \A s \in slides : Stale(s)
               PROVE  /\ wm.chatAttached = wm.chatOpen
                      /\ wm.chatWidth = wm.chatSlotWidth
                      /\ wm.chatWidth = IF wm.chatOpen THEN ChatWidth ELSE 0
    BY DEF PanelAtRest
  <2>1. \A s \in slides : ~Live(s)
    BY DEF Stale, Live
  <2> QED
    BY <1>1, <2>1 DEF PanelInv
<1> QED
  BY <1>2, <1>3, <1>4 DEF WindowSound

(* The views stay in place and in order, the two renderers have the room     *)
(* they need, and the panel at rest is where its state says, whatever        *)
(* windows, pages, overlays and frames there are.                            *)
THEOREM WindowStaysSound == WindowSpec => []WindowSound
<1>1. WindowInv => WindowSound
  BY WindowInvSound
<1> QED
  BY WindowInvInit, WindowInvNext, <1>1, PTL DEF WindowSpec

-----------------------------------------------------------------------------
(* The tabs.  Each tab and each engine is what its handlers may leave.       *)
Addresses == PageUrls \cup ErrorPages
TabFields ==
  {"url", "title", "loading", "pendingErrorUrl", "skipNextHistoryRecord", "subtitles",
   "pageTranslate", "chatServerId"}
TabFits(r) ==
  DOMAIN r = TabFields /\ r.url \in Addresses /\ r.pendingErrorUrl \in ErrorPages \cup {Nowhere}
EngineFits(x) ==
  /\ DOMAIN x = {"doc", "target", "started"} /\ x.started \in BOOLEAN
  /\ x.doc \in Addresses \cup {Nowhere} /\ x.target \in Addresses \cup {Nowhere}
  /\ x.started = TRUE => x.target # Nowhere

Listed(s) ==
  /\ DOMAIN s = {"tabs", "order", "active", "closed", "next"}
  /\ s.next \in Nat /\ \A id \in DOMAIN s.tabs : id \in Nat /\ id < s.next
  /\ s.order \in Seq(Nat) /\ Elems(s.order) = DOMAIN s.tabs
  /\ \A id \in DOMAIN s.tabs : TabFits(s.tabs[id])
  /\ s.closed \in Seq(Addresses)
Fits(s) == Listed(s) /\ s.active \in DOMAIN s.tabs
EnginesFit(s, e) == DOMAIN e = DOMAIN s.tabs /\ \A id \in DOMAIN e : EngineFits(e[id])

(* What was told is current, and what is on file was told.                   *)
ToldFits(s, e) ==
  /\ DOMAIN told = Everything
  /\ \A k \in Everything \ {"room"} : told[k] = Current(s, e)[k]
  /\ told.room = e[s.active].doc \/ e[s.active].doc \in ErrorPages
SessionFits(f) ==
  /\ DOMAIN f = {"tabs", "activeIndex"} /\ f.tabs \in Seq(Addresses)
  /\ f.tabs = <<>> \/ f.activeIndex \in DOMAIN f.tabs
DiskFits ==
  /\ DOMAIN disk = {"file", "timer", "up", "clean"} /\ SessionFits(disk.file)
  /\ disk.up = TRUE \/ disk.up = FALSE
  /\ disk.timer = TRUE \/ disk.timer = FALSE
  /\ disk.clean = TRUE \/ disk.clean = FALSE
  /\ disk.up = TRUE /\ disk.timer = FALSE => disk.file = Snapshot(told)
  /\ disk.up = FALSE /\ disk.clean = TRUE => disk.file = Snapshot(told)
TabsInv == Fits(tm) /\ EnginesFit(tm, engine) /\ ToldFits(tm, engine) /\ DiskFits
-----------------------------------------------------------------------------
(* What the callbacks pass on.                                               *)
ListOf(s) ==
  [i \in DOMAIN s.order |->
     [id |-> s.order[i], url |-> s.tabs[s.order[i]].url, title |-> s.tabs[s.order[i]].title,
      loading |-> s.tabs[s.order[i]].loading]]
NavOf(r) == [url |-> r.url, title |-> r.title, loading |-> r.loading]

LEMMA CurrentFields ==
  ASSUME NEW s, NEW e
  PROVE  /\ DOMAIN Current(s, e) = Everything
         /\ Current(s, e).list = ListOf(s)
         /\ Current(s, e).active = s.active /\ Current(s, e).view = s.active
         /\ Current(s, e).nav = NavOf(s.tabs[s.active])
         /\ Current(s, e).subtitles = s.tabs[s.active].subtitles
         /\ Current(s, e).pageTranslate = s.tabs[s.active].pageTranslate
         /\ Current(s, e).server = s.tabs[s.active].chatServerId
         /\ Current(s, e).room = e[s.active].doc
<1>1. PICK active : active = s.tabs[s.active]
  OBVIOUS
<1>2. PICK list : list = ListOf(s)
  OBVIOUS
<1>3. PICK nav : nav = NavOf(active)
  OBVIOUS
<1>4. Current(s, e) =
        [list |-> list, active |-> s.active, nav |-> nav, view |-> s.active,
         subtitles |-> active.subtitles, pageTranslate |-> active.pageTranslate,
         server |-> active.chatServerId, room |-> e[s.active].doc]
  BY <1>1, <1>2, <1>3, Zenon DEF Current, ListOf, NavOf
<1> QED
  BY <1>1, <1>2, <1>3, <1>4 DEF Everything

(* Two states that callbacks cannot tell apart, but for a room.              *)
LEMMA SameCurrent ==
  ASSUME NEW s, NEW e, NEW t, NEW g, s.active = t.active, ListOf(s) = ListOf(t),
         NavOf(s.tabs[s.active]) = NavOf(t.tabs[t.active]),
         s.tabs[s.active].subtitles = t.tabs[t.active].subtitles,
         s.tabs[s.active].pageTranslate = t.tabs[t.active].pageTranslate,
         s.tabs[s.active].chatServerId = t.tabs[t.active].chatServerId
  PROVE  \A k \in Everything \ {"room"} : Current(s, e)[k] = Current(t, g)[k]
<1>1. PICK a, b : a = Current(s, e) /\ b = Current(t, g)
  OBVIOUS
<1>2. a.list = b.list
  BY <1>1, CurrentFields, Zenon
<1>3. a.active = b.active /\ a.view = b.view
  BY <1>1, CurrentFields, Zenon
<1>4. a.nav = b.nav
  BY <1>1, CurrentFields, Zenon
<1>5. a.subtitles = b.subtitles
  BY <1>1, CurrentFields, Zenon
<1>6. a.pageTranslate = b.pageTranslate
  BY <1>1, CurrentFields, Zenon
<1>7. a.server = b.server
  BY <1>1, CurrentFields, Zenon
<1> QED
  BY <1>1, <1>2, <1>3, <1>4, <1>5, <1>6, <1>7 DEF Everything

LEMMA AddressFacts ==
  /\ NewTabUrl \in Addresses /\ PageUrls \subseteq Addresses /\ Nowhere \notin Addresses
  /\ \A p \in Addresses : ErrorPage(p) \in ErrorPages /\ ErrorPage(p) \in Addresses
  /\ \A p \in PageUrls : p \notin ErrorPages /\ p # Nowhere
<1> DEFINE Sites == TabSites \cup {"new tab"}
<1>10. \A x : Page(x)[1] = "page" /\ Page(x)[2] = x
  BY DEF Page
<1>11. \A p \in PageUrls : \E x \in Sites : p = Page(x)
  BY Zenon DEF PageUrls
<1>1. \A p \in PageUrls : p[1] = "page" /\ p[2] \in Sites
  BY <1>10, <1>11
<1>2. \A x \in Sites : Page(x) \in PageUrls /\ Page(x)[2] = x
  BY DEF PageUrls, Page
<1>3. \A p, q : p[2] = q[2] => ErrorPage(p) = ErrorPage(q)
  BY DEF ErrorPage
<1>4. \A p : ErrorPage(p)[1] = "error" /\ ErrorPage(p)[2] = p[2]
  BY DEF ErrorPage
<1>5. \A p : p[2] \in Sites => ErrorPage(p) \in ErrorPages
  <2>1. ASSUME NEW p, p[2] \in Sites PROVE ErrorPage(p) \in ErrorPages
    <3>1. PICK x \in Sites : x = p[2]
      BY <2>1
    <3>2. ErrorPage(p) = ErrorPage(Page(x))
      BY <3>1, <1>2, <1>3
    <3> QED
      BY <3>1, <3>2, <1>2, Zenon DEF ErrorPages
  <2> QED
    BY <2>1
<1>6. \A p \in ErrorPages : p[1] = "error" /\ p[2] \in Sites
  <2>1. \A p \in ErrorPages : \E q \in PageUrls : p = ErrorPage(q)
    BY Zenon DEF ErrorPages
  <2>2. ASSUME NEW p \in ErrorPages PROVE p[1] = "error" /\ p[2] \in Sites
    <3>1. PICK q : q \in PageUrls /\ p = ErrorPage(q)
      BY <2>1
    <3>2. q[2] \in Sites
      BY <3>1, <1>1
    <3> QED
      BY <3>1, <3>2, <1>4
  <2> QED
    BY <2>2
<1>7. \A p \in Addresses : p[2] \in Sites /\ p[1] \in {"page", "error"}
  BY <1>1, <1>6 DEF Addresses
<1>8. Nowhere[1] = "none"
  BY DEF Nowhere
<1>9. NewTabUrl \in PageUrls
  BY <1>2 DEF NewTabUrl
<1> QED
  BY <1>1, <1>5, <1>6, <1>7, <1>8, <1>9 DEF Addresses

LEMMA SameSnapshot ==
  ASSUME NEW t, NEW u, t.list = u.list, t.active = u.active
  PROVE  Snapshot(t) = Snapshot(u)
  BY DEF Snapshot

(* What is saved is the open tabs.                                           *)
LEMMA SnapshotIs ==
  ASSUME Fits(tm), ToldFits(tm, engine)
  PROVE  /\ Snapshot(told) = [tabs |-> TabUrls(tm), activeIndex |-> ActiveIndex(tm)]
         /\ SessionFits(Snapshot(told))
<1>1. told.list = ListOf(tm) /\ told.active = tm.active
  <2>1. told.list = Current(tm, engine).list /\ told.active = Current(tm, engine).active
    BY DEF ToldFits, Everything
  <2> QED
    BY <2>1, CurrentFields, Zenon
<1>2. PICK list : list = ListOf(tm)
  OBVIOUS
<1>3. DOMAIN list = DOMAIN tm.order
  BY <1>2 DEF ListOf
<1>4. \A i \in DOMAIN tm.order : list[i].id = tm.order[i] /\ list[i].url = tm.tabs[tm.order[i]].url
  BY <1>2 DEF ListOf
<1>5. [i \in DOMAIN list |-> list[i].url] = TabUrls(tm)
  BY <1>3, <1>4 DEF TabUrls
<1>6. (CHOOSE i \in DOMAIN list : list[i].id = tm.active) = ActiveIndex(tm)
  BY <1>3, <1>4 DEF ActiveIndex
<1>7. Snapshot(told) = [tabs |-> TabUrls(tm), activeIndex |-> ActiveIndex(tm)]
  BY <1>1, <1>2, <1>5, <1>6, Zenon DEF Snapshot
<1>8. PICK f : f = Snapshot(told)
  OBVIOUS
<1>9. f.tabs = TabUrls(tm) /\ f.activeIndex = ActiveIndex(tm) /\ DOMAIN f = {"tabs", "activeIndex"}
  BY <1>7, <1>8
<1>10. PICK n \in Nat : n = Len(tm.order) /\ DOMAIN tm.order = 1..n
  BY LenProperties DEF Fits, Listed
<1>11. TabUrls(tm) \in Seq(Addresses) /\ DOMAIN TabUrls(tm) = DOMAIN tm.order
  <2>1. \A i \in 1..n : tm.tabs[tm.order[i]].url \in Addresses
    <3>1. \A i \in 1..n : tm.order[i] \in DOMAIN tm.tabs
      BY <1>10 DEF Fits, Listed, Elems
    <3> QED
      BY <3>1 DEF Fits, Listed, TabFits
  <2>2. TabUrls(tm) \in [1..n -> Addresses]
    BY <1>10, <2>1 DEF TabUrls
  <2> QED
    BY <1>10, <2>2 DEF TabUrls
<1>12. ActiveIndex(tm) \in DOMAIN tm.order
  <2>1. \E i \in DOMAIN tm.order : tm.order[i] = tm.active
    BY DEF Fits, Listed, Elems
  <2> QED
    BY <2>1 DEF ActiveIndex
<1> QED
  BY <1>7, <1>8, <1>9, <1>11, <1>12 DEF SessionFits
(* Every handler ends in callbacks: what they pass on, what they may skip.   *)
Skips(s, e, what) ==
  /\ \A k \in Everything \ {"room"} : k \in what \/ Current(s, e)[k] = Current(tm, engine)[k]
  /\ \/ "room" \in what \/ e[s.active].doc \in ErrorPages
     \/ e[s.active].doc = engine[tm.active].doc
  /\ TabsChanged \subseteq what \/ ("list" \notin what /\ "active" \notin what)

LEMMA TellTold ==
  ASSUME ToldFits(tm, engine), NEW s, NEW e, NEW what, Tell(s, e, what), Skips(s, e, what)
  PROVE  ToldFits(tm, engine)'
<1>1. PICK c : c = Current(s, e)
  OBVIOUS
<1>2. PICK b : b = Current(tm, engine)
  OBVIOUS
<1>3. DOMAIN told = Everything
  BY DEF ToldFits
<1>4. told' = [k \in Everything |-> IF k \in what THEN c[k] ELSE told[k]]
  BY <1>1, <1>3 DEF Tell
<1>5. DOMAIN told' = Everything
  BY <1>4
<1>6. \A k \in Everything \ {"room"} : told'[k] = c[k]
  BY <1>1, <1>2, <1>4 DEF Skips, ToldFits
<1>7. told'.room = e[s.active].doc \/ e[s.active].doc \in ErrorPages
  <2>1. "room" \in Everything
    BY DEF Everything
  <2>2. CASE "room" \in what
    <3>1. told'.room = c.room
      BY <1>4, <2>1, <2>2
    <3> QED
      BY <3>1, <1>1, CurrentFields, Zenon
  <2>3. CASE "room" \notin what
    <3>1. told'.room = told.room
      BY <1>4, <2>1, <2>3
    <3> QED
      BY <3>1, <2>3, Zenon DEF Skips, ToldFits
  <2> QED
    BY <2>2, <2>3
<1>8. tm' = s /\ engine' = e
  BY DEF Tell
<1>9. Current(s, e) = Current(tm, engine)'
  BY <1>8, Zenon DEF Current
<1> QED
  BY <1>1, <1>5, <1>6, <1>7, <1>8, <1>9, Zenon DEF ToldFits

LEMMA TellDisk ==
  ASSUME ToldFits(tm, engine), DiskFits, disk.up = TRUE,
         NEW s, NEW e, NEW what, Tell(s, e, what), Skips(s, e, what)
  PROVE  DiskFits'
<1>1. DOMAIN disk' = {"file", "timer", "up", "clean"} /\ disk'.file = disk.file
      /\ disk'.up = TRUE /\ disk'.clean = disk.clean
  BY DEF Tell, DiskFits
<1>2. CASE TabsChanged \subseteq what
  <2>1. disk'.timer = TRUE
    BY <1>2 DEF Tell, DiskFits
  <2> QED
    BY <1>1, <2>1 DEF DiskFits
<1>3. CASE ~(TabsChanged \subseteq what)
  <2>1. disk'.timer = disk.timer
    BY <1>3 DEF Tell, DiskFits
  <2>2. "list" \notin what /\ "active" \notin what
    BY <1>3 DEF Skips
  <2>3. told'.list = told.list /\ told'.active = told.active
    BY <2>2 DEF Tell, ToldFits, Everything
  <2>4. Snapshot(told') = Snapshot(told)
    BY <2>3, SameSnapshot
  <2>5. disk.timer = FALSE => disk.file = Snapshot(told)
    BY DEF DiskFits
  <2>6. disk'.timer = FALSE => disk'.file = Snapshot(told')
    BY <1>1, <2>1, <2>4, <2>5
  <2> QED
    BY <1>1, <2>1, <2>6 DEF DiskFits
<1> QED
  BY <1>2, <1>3

LEMMA TellKeeps ==
  ASSUME TabsInv, disk.up = TRUE, NEW s, NEW e, NEW what, Tell(s, e, what),
         Fits(s), EnginesFit(s, e), Skips(s, e, what)
  PROVE  TabsInv'
<1>1. tm' = s /\ engine' = e
  BY DEF Tell
<1>2. Fits(tm)' /\ EnginesFit(tm, engine)'
  BY <1>1, Zenon DEF Fits, Listed, EnginesFit
<1>3. ToldFits(tm, engine)' /\ DiskFits'
  BY TellTold, TellDisk DEF TabsInv
<1> QED
  BY <1>2, <1>3 DEF TabsInv
(* Handlers of a page's events and the settings change one tab's record and  *)
(* one engine.                                                               *)
Edited(s, id) ==
  /\ DOMAIN s = {"tabs", "order", "active", "closed", "next"}
  /\ s.order = tm.order /\ s.active = tm.active /\ s.next = tm.next /\ s.closed = tm.closed
  /\ DOMAIN s.tabs = DOMAIN tm.tabs /\ TabFits(s.tabs[id])
  /\ \A j \in DOMAIN tm.tabs \ {id} : s.tabs[j] = tm.tabs[j]
Turned(e, id) ==
  /\ DOMAIN e = DOMAIN engine /\ EngineFits(e[id])
  /\ \A j \in DOMAIN engine \ {id} : e[j] = engine[j]
Looks(s, id, what) ==
  LET new == s.tabs[id]
      old == tm.tabs[id]
  IN  /\ "subtitles" \in what \/ new.subtitles = old.subtitles
      /\ "pageTranslate" \in what \/ new.pageTranslate = old.pageTranslate
      /\ "server" \in what \/ new.chatServerId = old.chatServerId
      /\ \/ TabsChanged \subseteq what
         \/ NavOf(new) = NavOf(old) /\ "list" \notin what /\ "active" \notin what
      /\ "nav" \in what \/ tm.active # id \/ NavOf(new) = NavOf(old)
RoomSettled(s, e, what) ==
  \/ "room" \in what \/ e[s.active].doc \in ErrorPages
  \/ e[s.active].doc = engine[tm.active].doc

LEMMA EditFits ==
  ASSUME TabsInv, NEW id \in DOMAIN tm.tabs, NEW s, NEW e, Edited(s, id), Turned(e, id)
  PROVE  Fits(s) /\ EnginesFit(s, e)
<1>1. Fits(s)
  BY DEF Fits, Listed, TabsInv, Edited
<1>2. EnginesFit(s, e)
  BY DEF EnginesFit, TabsInv, Edited, Turned
<1> QED
  BY <1>1, <1>2

LEMMA EditSkips ==
  ASSUME Fits(tm), NEW id \in DOMAIN tm.tabs, NEW s, NEW e, NEW what, Edited(s, id),
         Looks(s, id, what), RoomSettled(s, e, what)
  PROVE  Skips(s, e, what)
<1>1. PICK new, old : new = s.tabs[id] /\ old = tm.tabs[id]
  OBVIOUS
<1>2. PICK a : a = tm.active /\ a \in DOMAIN tm.tabs /\ a = s.active
  BY DEF Fits, Edited
<1>3. a # id => s.tabs[a] = tm.tabs[a]
  BY <1>2 DEF Edited
<1>4. PICK c, b : c = Current(s, e) /\ b = Current(tm, engine)
  OBVIOUS
<1>5. "list" \in what \/ c.list = b.list
  <2>1. CASE NavOf(new) = NavOf(old)
    <3>1. new.url = old.url /\ new.title = old.title /\ new.loading = old.loading
      BY <2>1 DEF NavOf
    <3>2. \A i \in DOMAIN tm.order :
            LET p == s.tabs[tm.order[i]]
                q == tm.tabs[tm.order[i]]
            IN  p.url = q.url /\ p.title = q.title /\ p.loading = q.loading
      BY <3>1, <1>1 DEF Fits, Listed, Edited, Elems
    <3>3. ListOf(s) = ListOf(tm)
      BY <3>2 DEF ListOf, Edited
    <3> QED
      BY <3>3, <1>4, CurrentFields, Zenon
  <2> QED
    BY <2>1, <1>1 DEF Looks, TabsChanged
<1>6. c.active = b.active /\ c.view = b.view
  BY <1>2, <1>4, CurrentFields, Zenon
<1>7. "nav" \in what \/ c.nav = b.nav
  <2>1. c.nav = NavOf(s.tabs[a]) /\ b.nav = NavOf(tm.tabs[a])
    BY <1>2, <1>4, CurrentFields, Zenon
  <2>2. "nav" \in what \/ a # id \/ NavOf(new) = NavOf(old)
    BY <1>1, <1>2, Zenon DEF Looks
  <2> QED
    BY <2>1, <2>2, <1>1, <1>3, Zenon
<1>8. "subtitles" \in what \/ c.subtitles = b.subtitles
  <2>1. c.subtitles = s.tabs[a].subtitles /\ b.subtitles = tm.tabs[a].subtitles
    BY <1>2, <1>4, CurrentFields, Zenon
  <2> QED
    BY <2>1, <1>1, <1>3, Zenon DEF Looks
<1>9. "pageTranslate" \in what \/ c.pageTranslate = b.pageTranslate
  <2>1. c.pageTranslate = s.tabs[a].pageTranslate /\ b.pageTranslate = tm.tabs[a].pageTranslate
    BY <1>2, <1>4, CurrentFields, Zenon
  <2> QED
    BY <2>1, <1>1, <1>3, Zenon DEF Looks
<1>10. "server" \in what \/ c.server = b.server
  <2>1. c.server = s.tabs[a].chatServerId /\ b.server = tm.tabs[a].chatServerId
    BY <1>2, <1>4, CurrentFields, Zenon
  <2> QED
    BY <2>1, <1>1, <1>3, Zenon DEF Looks
<1>11. \A k \in Everything \ {"room"} : k \in what \/ c[k] = b[k]
  BY <1>5, <1>6, <1>7, <1>8, <1>9, <1>10 DEF Everything
<1>12. TabsChanged \subseteq what \/ ("list" \notin what /\ "active" \notin what)
  BY DEF Looks
<1> QED
  BY <1>4, <1>11, <1>12, Zenon DEF Skips, RoomSettled

LEMMA EditKeeps ==
  ASSUME TabsInv, disk.up = TRUE, NEW id \in DOMAIN tm.tabs, NEW s, NEW e, NEW what,
         Edited(s, id), Turned(e, id), Looks(s, id, what), RoomSettled(s, e, what),
         Tell(s, e, what)
  PROVE  TabsInv'
<1>1. Fits(s) /\ EnginesFit(s, e)
  BY EditFits
<1>2. Skips(s, e, what)
  BY EditSkips DEF TabsInv
<1> QED
  BY <1>1, <1>2, TellKeeps

LEMMA OneEdit ==
  ASSUME TabsInv, NEW id \in DOMAIN tm.tabs, NEW r, TabFits(r), NEW s,
         s = [tm EXCEPT !.tabs = [tm.tabs EXCEPT ![id] = r]]
  PROVE  Edited(s, id) /\ s.tabs[id] = r
<1>1. s.tabs = [tm.tabs EXCEPT ![id] = r]
  BY DEF TabsInv, Fits, Listed
<1> QED
  BY <1>1 DEF Edited, TabsInv, Fits, Listed

LEMMA OneTurn ==
  ASSUME TabsInv, NEW id \in DOMAIN tm.tabs, NEW x, EngineFits(x), NEW e,
         e = [engine EXCEPT ![id] = x]
  PROVE  Turned(e, id) /\ e[id] = x
<1> QED
  BY DEF Turned, TabsInv, EnginesFit

LEMMA NoTurn ==
  ASSUME TabsInv, NEW id \in DOMAIN tm.tabs
  PROVE  /\ Turned(engine, id) /\ EngineFits(engine[id]) /\ TabFits(tm.tabs[id])
         /\ Edited(tm, id)
<1> QED
  BY DEF Turned, TabsInv, EnginesFit, Edited, Fits, Listed
(* The handlers of a tab's page.                                             *)
LEMMA LoadingChangedKeeps ==
  ASSUME TabsInv, NEW id \in DOMAIN tm.tabs, LoadingChanged(id)
  PROVE  TabsInv'
<1>1. PICK old : old = tm.tabs[id] /\ TabFits(old)
  BY NoTurn
<1>2. PICK r : r = [old EXCEPT !.loading = ~@]
  OBVIOUS
<1>3. PICK s : s = [tm EXCEPT !.tabs = [tm.tabs EXCEPT ![id] = r]]
  OBVIOUS
<1>4. PICK what : what = TabsChanged \cup IfActive(s, id, {"nav"})
  OBVIOUS
<1>5. disk.up = TRUE /\ Tell(s, engine, what)
  <2>1. Tell([tm EXCEPT !.tabs[id].loading = ~@], engine,
             TabsChanged \cup IfActive([tm EXCEPT !.tabs[id].loading = ~@], id, {"nav"}))
    BY Zenon DEF LoadingChanged
  <2>2. s = [tm EXCEPT !.tabs[id].loading = ~@]
    BY <1>1, <1>2, <1>3
  <2>3. disk.up = TRUE
    BY DEF LoadingChanged, TabsInv, DiskFits
  <2> QED
    BY <1>4, <2>1, <2>2, <2>3, Zenon
<1>6. TabFits(r) /\ r.subtitles = old.subtitles /\ r.pageTranslate = old.pageTranslate
      /\ r.chatServerId = old.chatServerId
  BY <1>1, <1>2 DEF TabFits, TabFields
<1>7. Edited(s, id) /\ s.tabs[id] = r
  BY <1>3, <1>6, OneEdit
<1>8. Turned(engine, id)
  BY NoTurn
<1>9. TabsChanged \subseteq what /\ (tm.active = id => "nav" \in what)
  BY <1>4, <1>7 DEF IfActive, Edited
<1>10. Looks(s, id, what)
  BY <1>1, <1>6, <1>7, <1>9 DEF Looks
<1>11. RoomSettled(s, engine, what)
  BY <1>7 DEF RoomSettled, Edited
<1> QED
  BY <1>5, <1>7, <1>8, <1>10, <1>11, EditKeeps
LEMMA StartNavigationKeeps ==
  ASSUME TabsInv, NEW id \in DOMAIN tm.tabs, StartNavigation(id)
  PROVE  TabsInv'
<1>1. PICK old : old = tm.tabs[id] /\ TabFits(old)
  BY NoTurn
<1>2. PICK x : x = engine[id] /\ EngineFits(x)
  BY NoTurn
<1>3. PICK y : y = [x EXCEPT !.started = TRUE]
  OBVIOUS
<1>4. PICK e : e = [engine EXCEPT ![id] = y]
  OBVIOUS
<1>5. PICK r : r = [old EXCEPT !.url = x.target]
  OBVIOUS
<1>6. PICK s : s = [tm EXCEPT !.tabs = [tm.tabs EXCEPT ![id] = r]]
  OBVIOUS
<1>7. PICK what : what = TabsChanged \cup IfActive(s, id, {"nav"})
  OBVIOUS
<1>8. x.target # Nowhere
  BY <1>2 DEF StartNavigation
<1>9. EngineFits(y) /\ y.doc = x.doc
  BY <1>2, <1>3, <1>8 DEF EngineFits
<1>10. Turned(e, id) /\ e[id] = y
  BY <1>4, <1>9, OneTurn
<1>11. TabFits(r) /\ r.subtitles = old.subtitles /\ r.pageTranslate = old.pageTranslate
       /\ r.chatServerId = old.chatServerId
  BY <1>1, <1>2, <1>5, <1>8 DEF TabFits, TabFields, EngineFits
<1>12. Edited(s, id) /\ s.tabs[id] = r
  BY <1>6, <1>11, OneEdit
<1>13. disk.up = TRUE
  BY DEF StartNavigation, TabsInv, DiskFits
<1>14. engine[tm.active].doc = e[tm.active].doc
  BY <1>2, <1>9, <1>10 DEF Turned, TabsInv, Fits, EnginesFit
<1>15. Tell(tm, e, {}) \/ Tell(s, e, what)
  <2>1. e = [engine EXCEPT ![id].started = TRUE]
    BY <1>2, <1>3, <1>4
  <2>2. s = [tm EXCEPT !.tabs[id].url = engine[id].target]
    BY <1>1, <1>2, <1>5, <1>6
  <2>3. \/ Tell(tm, [engine EXCEPT ![id].started = TRUE], {})
        \/ Tell([tm EXCEPT !.tabs[id].url = engine[id].target],
                [engine EXCEPT ![id].started = TRUE],
                TabsChanged \cup IfActive([tm EXCEPT !.tabs[id].url = engine[id].target],
                                          id, {"nav"}))
    BY Zenon DEF StartNavigation
  <2> QED
    BY <1>7, <2>1, <2>2, <2>3, Zenon
<1>16. CASE Tell(tm, e, {})
  <2>1. Edited(tm, id)
    BY NoTurn
  <2>2. Looks(tm, id, {}) /\ RoomSettled(tm, e, {})
    BY <1>14 DEF Looks, RoomSettled
  <2> QED
    BY <1>10, <1>13, <1>16, <2>1, <2>2, EditKeeps
<1>17. CASE Tell(s, e, what)
  <2>1. TabsChanged \subseteq what /\ (tm.active = id => "nav" \in what)
    BY <1>7, <1>12 DEF IfActive, Edited
  <2>2. Looks(s, id, what)
    BY <1>1, <1>11, <1>12, <2>1 DEF Looks
  <2>3. RoomSettled(s, e, what)
    BY <1>12, <1>14 DEF RoomSettled, Edited
  <2> QED
    BY <1>10, <1>12, <1>13, <1>17, <2>2, <2>3, EditKeeps
<1> QED
  BY <1>15, <1>16, <1>17

(* An address that commits or changes within a document: a told room, or an  *)
(* error page of our own.                                                    *)
LEMMA UrlChangedKeeps ==
  ASSUME TabsInv, disk.up = TRUE, NEW id \in DOMAIN tm.tabs, NEW to \in Addresses, NEW e,
         Turned(e, id), e[id].doc = to, UrlChanged(id, to, e)
  PROVE  TabsInv'
<1>1. PICK old : old = tm.tabs[id] /\ TabFits(old)
  BY NoTurn
<1>2. CASE /\ to = old.pendingErrorUrl
           /\ Tell([tm EXCEPT !.tabs[id].pendingErrorUrl = Nowhere], e, TabsChanged)
  <2>1. PICK r : r = [old EXCEPT !.pendingErrorUrl = Nowhere]
    OBVIOUS
  <2>2. PICK s : s = [tm EXCEPT !.tabs = [tm.tabs EXCEPT ![id] = r]]
    OBVIOUS
  <2>3. TabFits(r) /\ r.subtitles = old.subtitles /\ r.pageTranslate = old.pageTranslate
        /\ r.chatServerId = old.chatServerId
    BY <1>1, <2>1 DEF TabFits, TabFields
  <2>4. Edited(s, id) /\ s.tabs[id] = r
    BY <2>2, <2>3, OneEdit
  <2>5. NavOf(r) = NavOf(old)
    BY <1>1, <2>1 DEF NavOf, TabFits, TabFields
  <2>6. Looks(s, id, TabsChanged)
    BY <1>1, <2>3, <2>4, <2>5 DEF Looks
  <2>7. to \in ErrorPages
    BY <1>1, <1>2, AddressFacts DEF TabFits
  <2>8. RoomSettled(s, e, TabsChanged)
    <3>1. tm.active = id \/ e[tm.active] = engine[tm.active]
      BY DEF Turned, TabsInv, Fits, EnginesFit
    <3> QED
      BY <3>1, <2>4, <2>7 DEF RoomSettled, Edited
  <2>9. Tell(s, e, TabsChanged)
    <3>1. s = [tm EXCEPT !.tabs[id].pendingErrorUrl = Nowhere]
      BY <1>1, <2>1, <2>2
    <3> QED
      BY <1>2, <3>1, Zenon
  <2> QED
    BY <2>4, <2>6, <2>8, <2>9, EditKeeps
<1>3. ASSUME NEW s0, s0 = [tm EXCEPT !.tabs[id].url = to],
             Tell(s0, e, TabsChanged \cup IfActive(s0, id, {"nav", "room"}))
      PROVE  TabsInv'
  <2>1. PICK r : r = [old EXCEPT !.url = to]
    OBVIOUS
  <2>2. PICK s : s = [tm EXCEPT !.tabs = [tm.tabs EXCEPT ![id] = r]]
    OBVIOUS
  <2>3. TabFits(r) /\ r.subtitles = old.subtitles /\ r.pageTranslate = old.pageTranslate
        /\ r.chatServerId = old.chatServerId
    BY <1>1, <2>1 DEF TabFits, TabFields
  <2>4. Edited(s, id) /\ s.tabs[id] = r
    BY <2>2, <2>3, OneEdit
  <2>5. PICK what : what = TabsChanged \cup IfActive(s, id, {"nav", "room"})
    OBVIOUS
  <2>6. TabsChanged \subseteq what /\ (tm.active = id => "nav" \in what /\ "room" \in what)
    BY <2>4, <2>5 DEF IfActive, Edited
  <2>7. Looks(s, id, what)
    BY <1>1, <2>3, <2>4, <2>6 DEF Looks
  <2>8. RoomSettled(s, e, what)
    <3>1. tm.active = id \/ e[tm.active] = engine[tm.active]
      BY DEF Turned, TabsInv, Fits, EnginesFit
    <3> QED
      BY <3>1, <2>4, <2>6 DEF RoomSettled, Edited
  <2>9. Tell(s, e, what)
    <3>1. s = s0
      BY <1>1, <1>3, <2>1, <2>2
    <3> QED
      BY <1>3, <2>5, <3>1, Zenon
  <2> QED
    BY <2>4, <2>7, <2>8, <2>9, EditKeeps
<1>4. \/ /\ to = old.pendingErrorUrl
         /\ Tell([tm EXCEPT !.tabs[id].pendingErrorUrl = Nowhere], e, TabsChanged)
      \/ LET s == [tm EXCEPT !.tabs[id].url = to]
         IN  Tell(s, e, TabsChanged \cup IfActive(s, id, {"nav", "room"}))
  BY <1>1, Zenon DEF UrlChanged
<1> QED
  BY <1>2, <1>3, <1>4, Zenon
LEMMA NavigatedKeeps ==
  ASSUME TabsInv, NEW id \in DOMAIN tm.tabs, Navigated(id)
  PROVE  TabsInv'
<1>1. PICK x : x = engine[id] /\ EngineFits(x)
  BY NoTurn
<1>2. PICK y : y = Idle(x.target)
  OBVIOUS
<1>3. PICK e : e = [engine EXCEPT ![id] = y]
  OBVIOUS
<1>4. x.target \in Addresses
  BY <1>1 DEF Navigated, EngineFits
<1>5. EngineFits(y) /\ y.doc = x.target
  BY <1>2, <1>4 DEF EngineFits, Idle
<1>6. Turned(e, id) /\ e[id] = y
  BY <1>3, <1>5, OneTurn
<1>7. UrlChanged(id, x.target, e)
  <2>1. e = [engine EXCEPT ![id] = Idle(@.target)]
    BY <1>1, <1>2, <1>3
  <2> QED
    BY <1>1, <2>1, Zenon DEF Navigated
<1>8. disk.up = TRUE
  BY DEF Navigated, TabsInv, DiskFits
<1> QED
  BY <1>4, <1>5, <1>6, <1>7, <1>8, UrlChangedKeeps

LEMMA NavigatedInPageKeeps ==
  ASSUME TabsInv, NEW id \in DOMAIN tm.tabs, NavigatedInPage(id)
  PROVE  TabsInv'
<1>1. PICK x : x = engine[id] /\ EngineFits(x)
  BY NoTurn
<1>2. PICK p \in PageUrls : UrlChanged(id, p, [engine EXCEPT ![id].doc = p])
  BY Zenon DEF NavigatedInPage
<1>3. PICK y : y = [x EXCEPT !.doc = p]
  OBVIOUS
<1>4. PICK e : e = [engine EXCEPT ![id] = y]
  OBVIOUS
<1>5. EngineFits(y) /\ y.doc = p
  BY <1>1, <1>3 DEF EngineFits, Addresses
<1>6. Turned(e, id) /\ e[id] = y
  BY <1>4, <1>5, OneTurn
<1>7. UrlChanged(id, p, e)
  <2>1. e = [engine EXCEPT ![id].doc = p]
    BY <1>1, <1>3, <1>4
  <2> QED
    BY <1>2, <2>1, Zenon
<1>8. disk.up = TRUE
  BY DEF NavigatedInPage, TabsInv, DiskFits
<1>9. p \in Addresses
  BY DEF Addresses
<1> QED
  BY <1>5, <1>6, <1>7, <1>8, <1>9, UrlChangedKeeps

LEMMA SentToward ==
  ASSUME TabsInv, NEW id \in DOMAIN tm.tabs, NEW page \in Addresses, NEW e,
         e = [engine EXCEPT ![id] = Toward(@, page)]
  PROVE  Turned(e, id) /\ e[tm.active].doc = engine[tm.active].doc
<1>1. PICK x : x = engine[id] /\ EngineFits(x)
  BY NoTurn
<1>2. PICK y : y = Toward(x, page)
  OBVIOUS
<1>3. EngineFits(y) /\ y.doc = x.doc
  BY <1>1, <1>2 DEF EngineFits, Toward
<1>4. e = [engine EXCEPT ![id] = y]
  BY <1>1, <1>2
<1>5. Turned(e, id) /\ e[id] = y
  BY <1>3, <1>4, OneTurn
<1>6. tm.active = id \/ e[tm.active] = engine[tm.active]
  BY <1>5 DEF Turned, TabsInv, Fits, EnginesFit
<1> QED
  BY <1>1, <1>3, <1>5, <1>6

LEMMA ShowErrorPageKeeps ==
  ASSUME TabsInv, disk.up = TRUE, NEW id \in DOMAIN tm.tabs, NEW failed \in Addresses,
         ShowErrorPage(id, failed)
  PROVE  TabsInv'
<1>1. PICK old : old = tm.tabs[id] /\ TabFits(old)
  BY NoTurn
<1>2. PICK page : page = ErrorPage(failed)
  OBVIOUS
<1>3. PICK r : r = [old EXCEPT !.pendingErrorUrl = page, !.loading = FALSE]
  OBVIOUS
<1>4. PICK s : s = [tm EXCEPT !.tabs = [tm.tabs EXCEPT ![id] = r]]
  OBVIOUS
<1>5. PICK e : e = [engine EXCEPT ![id] = Toward(@, page)]
  OBVIOUS
<1>6. PICK what : what = TabsChanged \cup IfActive(s, id, {"nav"})
  OBVIOUS
<1>7. page \in ErrorPages /\ page \in Addresses
  BY <1>2, AddressFacts
<1>8. TabFits(r) /\ r.subtitles = old.subtitles /\ r.pageTranslate = old.pageTranslate
      /\ r.chatServerId = old.chatServerId
  BY <1>1, <1>3, <1>7 DEF TabFits, TabFields
<1>9. Edited(s, id) /\ s.tabs[id] = r
  BY <1>4, <1>8, OneEdit
<1>10. Turned(e, id) /\ e[tm.active].doc = engine[tm.active].doc
  BY <1>5, <1>7, SentToward
<1>11. TabsChanged \subseteq what /\ (tm.active = id => "nav" \in what)
  BY <1>6, <1>9 DEF IfActive, Edited
<1>12. Looks(s, id, what)
  BY <1>1, <1>8, <1>9, <1>11 DEF Looks
<1>13. RoomSettled(s, e, what)
  BY <1>9, <1>10 DEF RoomSettled, Edited
<1>14. Tell(s, e, what)
  <2>1. s = [tm EXCEPT !.tabs[id].pendingErrorUrl = page, !.tabs[id].loading = FALSE]
    BY <1>1, <1>3, <1>4
  <2>2. Tell([tm EXCEPT !.tabs[id].pendingErrorUrl = page, !.tabs[id].loading = FALSE],
             [engine EXCEPT ![id] = Toward(@, page)],
             TabsChanged \cup IfActive([tm EXCEPT !.tabs[id].pendingErrorUrl = page,
                                                  !.tabs[id].loading = FALSE], id, {"nav"}))
    BY <1>2, Zenon DEF ShowErrorPage
  <2> QED
    BY <1>5, <1>6, <2>1, <2>2, Zenon
<1> QED
  BY <1>9, <1>10, <1>12, <1>13, <1>14, EditKeeps

LEMMA FailLoadKeeps ==
  ASSUME TabsInv, NEW id \in DOMAIN tm.tabs, FailLoad(id)
  PROVE  TabsInv'
<1>1. disk.up = TRUE /\ engine[id].target \in Addresses
  BY DEF FailLoad, TabsInv, DiskFits, Addresses
<1>2. ShowErrorPage(id, engine[id].target)
  BY DEF FailLoad
<1> QED
  BY <1>1, <1>2, ShowErrorPageKeeps

LEMMA RendererGoneKeeps ==
  ASSUME TabsInv, NEW id \in DOMAIN tm.tabs, RendererGone(id)
  PROVE  TabsInv'
<1>1. PICK url : url = tm.tabs[id].url /\ url \in Addresses
  BY NoTurn DEF TabFits
<1>2. disk.up = TRUE
  BY DEF RendererGone, TabsInv, DiskFits
<1>3. CASE ShowErrorPage(id, url)
  BY <1>1, <1>2, <1>3, ShowErrorPageKeeps
<1>4. CASE Tell(tm, [engine EXCEPT ![id] = Toward(@, url)], {})
  <2>1. PICK e : e = [engine EXCEPT ![id] = Toward(@, url)]
    OBVIOUS
  <2>2. Turned(e, id) /\ e[tm.active].doc = engine[tm.active].doc
    BY <1>1, <2>1, SentToward
  <2>3. Edited(tm, id)
    BY NoTurn
  <2>4. Looks(tm, id, {}) /\ RoomSettled(tm, e, {})
    BY <2>2 DEF Looks, RoomSettled
  <2>5. Tell(tm, e, {})
    BY <1>4, <2>1, Zenon
  <2> QED
    BY <1>2, <2>2, <2>3, <2>4, <2>5, EditKeeps
<1> QED
  BY <1>1, <1>3, <1>4, Zenon DEF RendererGone

LEMMA TitleUpdatedKeeps ==
  ASSUME TabsInv, NEW id \in DOMAIN tm.tabs, TitleUpdated(id)
  PROVE  TabsInv'
<1>1. PICK old : old = tm.tabs[id] /\ TabFits(old)
  BY NoTurn
<1>2. PICK doc : doc = engine[id].doc
  OBVIOUS
<1>3. PICK r : r = [old EXCEPT !.title = doc, !.skipNextHistoryRecord = FALSE]
  OBVIOUS
<1>4. PICK s : s = [tm EXCEPT !.tabs = [tm.tabs EXCEPT ![id] = r]]
  OBVIOUS
<1>5. PICK what : what = TabsChanged \cup IfActive(s, id, {"nav"})
  OBVIOUS
<1>6. TabFits(r) /\ r.subtitles = old.subtitles /\ r.pageTranslate = old.pageTranslate
      /\ r.chatServerId = old.chatServerId
  BY <1>1, <1>3 DEF TabFits, TabFields
<1>7. Edited(s, id) /\ s.tabs[id] = r
  BY <1>4, <1>6, OneEdit
<1>8. Turned(engine, id)
  BY NoTurn
<1>9. TabsChanged \subseteq what /\ (tm.active = id => "nav" \in what)
  BY <1>5, <1>7 DEF IfActive, Edited
<1>10. Looks(s, id, what)
  BY <1>1, <1>6, <1>7, <1>9 DEF Looks
<1>11. RoomSettled(s, engine, what)
  BY <1>7 DEF RoomSettled, Edited
<1>12. disk.up = TRUE
  BY DEF TitleUpdated, TabsInv, DiskFits
<1>13. Tell(s, engine, what)
  <2>1. s = [tm EXCEPT !.tabs[id].title = engine[id].doc,
                       !.tabs[id].skipNextHistoryRecord = FALSE]
    BY <1>1, <1>2, <1>3, <1>4
  <2>2. LET t == [tm EXCEPT !.tabs[id].title = engine[id].doc,
                            !.tabs[id].skipNextHistoryRecord = FALSE]
        IN  Tell(t, engine, TabsChanged \cup IfActive(t, id, {"nav"}))
    BY Zenon DEF TitleUpdated
  <2> QED
    BY <1>5, <2>1, <2>2, Zenon
<1> QED
  BY <1>7, <1>8, <1>10, <1>11, <1>12, <1>13, EditKeeps
(* The settings of the active tab.                                           *)
LEMMA SettingKeeps ==
  ASSUME TabsInv, NEW field \in {"subtitles", "pageTranslate", "chatServerId"}, NEW value,
         NEW what, SetActive(field, value, what), TabsChanged \cap what = {},
         field = "subtitles" => "subtitles" \in what,
         field = "pageTranslate" => "pageTranslate" \in what,
         field = "chatServerId" => "server" \in what
  PROVE  TabsInv'
<1>1. PICK id : id = tm.active /\ id \in DOMAIN tm.tabs
  BY DEF TabsInv, Fits
<1>2. PICK old : old = tm.tabs[id] /\ TabFits(old)
  BY <1>1, NoTurn
<1>3. PICK r : r = [old EXCEPT ![field] = value]
  OBVIOUS
<1>4. PICK s : s = [tm EXCEPT !.tabs = [tm.tabs EXCEPT ![id] = r]]
  OBVIOUS
<1>5. DOMAIN r = DOMAIN old /\ \A f \in TabFields : f # field => r[f] = old[f]
  BY <1>2, <1>3 DEF TabFits
<1>6. TabFits(r)
  BY <1>2, <1>5 DEF TabFits, TabFields
<1>7. Edited(s, id) /\ s.tabs[id] = r
  BY <1>1, <1>4, <1>6, OneEdit
<1>8. Turned(engine, id)
  BY <1>1, NoTurn
<1>9. NavOf(r) = NavOf(old)
  <2>1. r.url = old.url /\ r.title = old.title /\ r.loading = old.loading
    BY <1>5 DEF TabFields
  <2> QED
    BY <2>1 DEF NavOf
<1>10. /\ r.subtitles = old.subtitles \/ field = "subtitles"
       /\ r.pageTranslate = old.pageTranslate \/ field = "pageTranslate"
       /\ r.chatServerId = old.chatServerId \/ field = "chatServerId"
  BY <1>5 DEF TabFields
<1>11. "list" \notin what /\ "active" \notin what
  BY DEF TabsChanged
<1>12. Looks(s, id, what)
  BY <1>2, <1>7, <1>9, <1>10, <1>11 DEF Looks
<1>13. RoomSettled(s, engine, what)
  BY <1>7 DEF RoomSettled, Edited
<1>14. Tell(s, engine, what) /\ disk.up = TRUE
  <2>1. s = [tm EXCEPT !.tabs[tm.active][field] = value]
    BY <1>1, <1>2, <1>3, <1>4
  <2>2. Tell([tm EXCEPT !.tabs[tm.active][field] = value], engine, what)
    BY Zenon DEF SetActive
  <2>3. disk.up = TRUE
    BY DEF SetActive, TabsInv, DiskFits
  <2> QED
    BY <2>1, <2>2, <2>3, Zenon
<1> QED
  BY <1>1, <1>7, <1>8, <1>12, <1>13, <1>14, EditKeeps

LEMMA SettingsKeep ==
  ASSUME TabsInv, SetSubtitles \/ SetPageTranslate \/ SetChatServer
  PROVE  TabsInv'
<1>1. CASE SetSubtitles
  BY <1>1, SettingKeeps DEF SetSubtitles, TabsChanged
<1>2. CASE SetPageTranslate
  BY <1>2, SettingKeeps DEF SetPageTranslate, TabsChanged
<1>3. CASE SetChatServer
  BY <1>3, SettingKeeps DEF SetChatServer, TabsChanged
<1> QED
  BY <1>1, <1>2, <1>3

(* Handlers that open, switch or close a tab tell everything.                *)
LEMMA TellAll ==
  ASSUME TabsInv, disk.up = TRUE, NEW s, NEW e, Fits(s), EnginesFit(s, e),
         Tell(s, e, Everything)
  PROVE  TabsInv'
<1>1. Skips(s, e, Everything)
  BY DEF Skips, Everything, TabsChanged
<1> QED
  BY <1>1, TellKeeps

LEMMA RecordFits ==
  ASSUME NEW url \in Addresses, NEW landing
  PROVE  /\ TabFits(NewRecord(url, landing)) /\ NewRecord(url, landing).url = url
         /\ EngineFits(Toward(Idle(Nowhere), url))
<1>1. TabFits(NewRecord(url, landing)) /\ NewRecord(url, landing).url = url
  BY DEF TabFits, NewRecord, TabFields
<1>2. EngineFits(Toward(Idle(Nowhere), url))
  BY DEF EngineFits, Toward, Idle
<1> QED
  BY <1>1, <1>2

LEMMA OpenedFits ==
  ASSUME NEW s, NEW e, Listed(s), EnginesFit(s, e), NEW url \in Addresses, NEW landing
  PROVE  /\ Fits(Opened(s, url, landing))
         /\ EnginesFit(Opened(s, url, landing), Launched(s, e, url))
<1>1. PICK r : r = NewRecord(url, landing) /\ TabFits(r)
  BY RecordFits
<1>2. PICK x : x = Toward(Idle(Nowhere), url) /\ EngineFits(x)
  BY RecordFits
<1>3. PICK tabs : tabs = Adding(s.tabs, s.next, r)
  OBVIOUS
<1>4. PICK order : order = Append(s.order, s.next)
  OBVIOUS
<1>5. PICK n \in Nat : n = s.next
  BY DEF Listed
<1>6. PICK o : o = Opened(s, url, landing)
  OBVIOUS
<1>7. /\ DOMAIN o = {"tabs", "order", "active", "closed", "next"}
      /\ o.tabs = tabs /\ o.order = order /\ o.active = n /\ o.next = n + 1
      /\ o.closed = s.closed
  BY <1>1, <1>3, <1>4, <1>5, <1>6 DEF Opened, Listed
<1>8. /\ DOMAIN tabs = DOMAIN s.tabs \cup {n} /\ tabs[n] = r
      /\ \A id \in DOMAIN s.tabs : id # n => tabs[id] = s.tabs[id]
  BY <1>3, <1>5 DEF Adding
<1>9. order \in Seq(Nat) /\ Elems(order) = DOMAIN s.tabs \cup {n}
  <2>1. PICK list \in Seq(Nat) : list = s.order /\ Elems(list) = DOMAIN s.tabs
    BY DEF Listed
  <2>2. Behind(order, list, n)
    BY <1>4, <1>5, <2>1, Zenon DEF Behind
  <2>3. order \in Seq(Nat)
    BY <2>2, BehindElems
  <2>4. \A a : a \in Elems(order) <=> a \in Elems(list) \/ a = n
    BY <2>2, BehindElems
  <2> QED
    BY <2>1, <2>3, <2>4
<1>10. \A id \in DOMAIN tabs : id \in Nat /\ id < n + 1
  BY <1>5, <1>8 DEF Listed
<1>11. \A id \in DOMAIN tabs : TabFits(tabs[id])
  BY <1>1, <1>8 DEF Listed
<1>12. Fits(o)
  BY <1>7, <1>8, <1>9, <1>10, <1>11 DEF Fits, Listed
<1>13. PICK f : f = Launched(s, e, url)
  OBVIOUS
<1>14. /\ DOMAIN f = DOMAIN e \cup {n} /\ f[n] = x
       /\ \A id \in DOMAIN e : id # n => f[id] = e[id]
  BY <1>2, <1>5, <1>13 DEF Launched, Adding
<1>15. EnginesFit(o, f)
  BY <1>2, <1>7, <1>8, <1>14 DEF EnginesFit
<1> QED
  BY <1>6, <1>12, <1>13, <1>15

LEMMA OpenKeeps ==
  ASSUME TabsInv, disk.up = TRUE, NEW s, NEW e, Listed(s), EnginesFit(s, e),
         NEW url \in Addresses, NEW landing, Open(s, e, url, landing)
  PROVE  TabsInv'
<1>1. Tell(Opened(s, url, landing), Launched(s, e, url), Everything)
  BY DEF Open
<1> QED
  BY <1>1, OpenedFits, TellAll
LEMMA NewTabKeeps ==
  ASSUME TabsInv, NewTab
  PROVE  TabsInv'
<1>1. PICK url \in Addresses, landing \in BOOLEAN : Open(tm, engine, url, landing)
  BY AddressFacts, Zenon DEF NewTab
<1>2. disk.up = TRUE
  BY DEF NewTab, TabsInv, DiskFits
<1> QED
  BY <1>1, <1>2, OpenKeeps DEF TabsInv, Fits

LEMMA ReopenKeeps ==
  ASSUME TabsInv, ReopenClosedTab
  PROVE  TabsInv'
<1>0. PICK old \in Seq(Addresses) : old = tm.closed /\ old # <<>>
  BY DEF TabsInv, Fits, Listed, ReopenClosedTab
<1>1. PICK n \in Nat : n = Len(tm.closed) /\ n > 0
  BY <1>0, LenProperties, EmptySeq
<1>2. PICK url : url = tm.closed[n] /\ url \in Addresses
  BY <1>0, <1>1, LenProperties
<1>3. PICK rest : rest = SubSeq(tm.closed, 1, n - 1) /\ rest \in Seq(Addresses)
  <2>1. \A i \in 1..(n - 1) : old[i] \in Addresses
    BY <1>0, <1>1
  <2>2. SubSeq(old, 1, n - 1) \in Seq(Addresses)
    BY <1>1, <2>1, SubSeqProperties
  <2> QED
    BY <1>0, <2>2
<1>4. PICK s : s = [tm EXCEPT !.closed = rest]
  OBVIOUS
<1>5. Listed(s)
  BY <1>3, <1>4 DEF TabsInv, Fits, Listed
<1>6. EnginesFit(s, engine)
  BY <1>4 DEF TabsInv, EnginesFit, Fits, Listed
<1>7. Open(s, engine, url, FALSE)
  <2>1. s = [tm EXCEPT !.closed = SubSeq(@, 1, Len(tm.closed) - 1)]
    BY <1>1, <1>3, <1>4
  <2>2. Open([tm EXCEPT !.closed = SubSeq(@, 1, Len(tm.closed) - 1)], engine,
             tm.closed[Len(tm.closed)], FALSE)
    BY Zenon DEF ReopenClosedTab
  <2> QED
    BY <1>1, <1>2, <2>1, <2>2, Zenon
<1>8. disk.up = TRUE
  BY DEF ReopenClosedTab, TabsInv, DiskFits
<1> QED
  BY <1>2, <1>5, <1>6, <1>7, <1>8, OpenKeeps

LEMMA SwitchTabKeeps ==
  ASSUME TabsInv, NEW id, SwitchTab(id)
  PROVE  TabsInv'
<1>1. PICK s : s = [tm EXCEPT !.active = id]
  OBVIOUS
<1>2. disk.up = TRUE /\ id \in DOMAIN tm.tabs /\ Tell(s, engine, Everything)
  BY <1>1 DEF SwitchTab, TabsInv, DiskFits
<1>3. Fits(s)
  BY <1>1, <1>2 DEF TabsInv, Fits, Listed
<1>4. EnginesFit(s, engine)
  BY <1>1 DEF TabsInv, EnginesFit, Fits, Listed
<1> QED
  BY <1>2, <1>3, <1>4, TellAll

(* What is left of the tabs when one is closed.                              *)
Closed(s, e, id, rest, closed) ==
  /\ rest = Filtered(tm.order, DOMAIN tm.tabs \ {id})
  /\ s = [tm EXCEPT !.tabs = WithoutTab(@, id), !.order = rest, !.closed = closed]
  /\ e = WithoutTab(engine, id)

LEMMA ClosedFits ==
  ASSUME TabsInv, NEW id \in DOMAIN tm.tabs, NEW s, NEW e, NEW rest,
         NEW closed \in Seq(Addresses), Closed(s, e, id, rest, closed)
  PROVE  /\ Listed(s) /\ EnginesFit(s, e) /\ s.active = tm.active
         /\ rest # <<>> => NextActive(rest, id) \in DOMAIN s.tabs
         /\ \A j \in DOMAIN tm.tabs \ {id} :
              j \in DOMAIN s.tabs /\ s.tabs[j] = tm.tabs[j] /\ e[j] = engine[j]
<1>1. PICK order \in Seq(Nat) : order = tm.order /\ Elems(order) = DOMAIN tm.tabs
  BY DEF TabsInv, Fits, Listed
<1>2. PICK kept : kept = DOMAIN tm.tabs \ {id}
  OBVIOUS
<1>3. rest = Filtered(order, kept)
  BY <1>1, <1>2, Zenon DEF Closed
<1>4. rest \in Seq(Nat)
  BY <1>3, FilterKeeps
<1>5. Elems(rest) = kept
  <2>1. Elems(rest) = Elems(order) \cap kept
    BY <1>3, FilterSelects
  <2> QED
    BY <1>1, <1>2, <2>1
<1>6. PICK tabs : tabs = WithoutTab(tm.tabs, id)
  OBVIOUS
<1>7. DOMAIN tabs = kept /\ \A j \in kept : tabs[j] = tm.tabs[j]
  BY <1>2, <1>6 DEF WithoutTab
<1>8. /\ DOMAIN s = {"tabs", "order", "active", "closed", "next"} /\ s.tabs = tabs
      /\ s.order = rest /\ s.active = tm.active /\ s.closed = closed /\ s.next = tm.next
  BY <1>6 DEF Closed, TabsInv, Fits, Listed
<1>9. Listed(s)
  BY <1>2, <1>4, <1>5, <1>7, <1>8 DEF TabsInv, Fits, Listed
<1>10. DOMAIN e = kept /\ \A j \in kept : e[j] = engine[j]
  BY <1>2 DEF Closed, WithoutTab, TabsInv, EnginesFit
<1>11. EnginesFit(s, e)
  BY <1>2, <1>7, <1>8, <1>10 DEF EnginesFit, TabsInv
<1>12. rest # <<>> => NextActive(rest, id) \in DOMAIN s.tabs
  <2>1. rest # <<>> => 1 \in DOMAIN rest
    BY <1>4, EmptySeq
  <2> QED
    BY <1>5, <1>7, <1>8, <2>1 DEF Elems, NextActive
<1> QED
  BY <1>2, <1>7, <1>8, <1>9, <1>10, <1>11, <1>12

LEMMA ClosedSkips ==
  ASSUME TabsInv, NEW id \in DOMAIN tm.tabs, tm.active # id, NEW s, NEW e, s.active = tm.active,
         s.tabs[tm.active] = tm.tabs[tm.active], e[tm.active] = engine[tm.active]
  PROVE  Skips(s, e, TabsChanged)
<1>1. PICK c, b : c = Current(s, e) /\ b = Current(tm, engine)
  OBVIOUS
<1>2. PICK r : r = tm.tabs[tm.active] /\ r = s.tabs[s.active]
  OBVIOUS
<1>3. c.view = b.view
  BY <1>1, CurrentFields, Zenon
<1>4. c.nav = b.nav
  <2>1. c.nav = NavOf(r)
    BY <1>1, <1>2, CurrentFields, Zenon
  <2>2. b.nav = NavOf(r)
    BY <1>1, <1>2, CurrentFields, Zenon
  <2> QED
    BY <2>1, <2>2
<1>5. c.subtitles = b.subtitles
  <2>1. c.subtitles = r.subtitles
    BY <1>1, <1>2, CurrentFields, Zenon
  <2>2. b.subtitles = r.subtitles
    BY <1>1, <1>2, CurrentFields, Zenon
  <2> QED
    BY <2>1, <2>2
<1>6. c.pageTranslate = b.pageTranslate
  <2>1. c.pageTranslate = r.pageTranslate
    BY <1>1, <1>2, CurrentFields, Zenon
  <2>2. b.pageTranslate = r.pageTranslate
    BY <1>1, <1>2, CurrentFields, Zenon
  <2> QED
    BY <2>1, <2>2
<1>7. c.server = b.server
  <2>1. c.server = r.chatServerId
    BY <1>1, <1>2, CurrentFields, Zenon
  <2>2. b.server = r.chatServerId
    BY <1>1, <1>2, CurrentFields, Zenon
  <2> QED
    BY <2>1, <2>2
<1>8. \A k \in Everything \ {"room"} : k \in TabsChanged \/ c[k] = b[k]
  BY <1>3, <1>4, <1>5, <1>6, <1>7 DEF Everything, TabsChanged
<1> QED
  BY <1>1, <1>8 DEF Skips

LEMMA PushedFits ==
  ASSUME TabsInv, NEW url \in Addresses, NEW pushed,
         pushed = tm.closed \/ pushed = Append(tm.closed, url)
  PROVE  /\ pushed \in Seq(Addresses)
         /\ (IF Len(pushed) > MaxClosedTabs THEN Tail(pushed) ELSE pushed) \in Seq(Addresses)
<1>1. PICK old \in Seq(Addresses) : old = tm.closed
  BY DEF TabsInv, Fits, Listed
<1>2. pushed \in Seq(Addresses)
  <2>1. Append(old, url) \in Seq(Addresses)
    BY AppendOf
  <2> QED
    BY <1>1, <2>1
<1>3. pushed # <<>> => Tail(pushed) \in Seq(Addresses)
  BY <1>2, TailOf
<1>4. pushed = <<>> => ~(Len(pushed) > MaxClosedTabs)
  BY ClosedTabsAssumption
<1> QED
  BY <1>2, <1>3, <1>4
LEMMA CloseTabKeeps ==
  ASSUME TabsInv, NEW id, CloseTab(id)
  PROVE  TabsInv'
<1>1. disk.up = TRUE /\ id \in DOMAIN tm.tabs
  BY DEF CloseTab, TabsInv, DiskFits
<1>2. PICK url : url = tm.tabs[id].url /\ url \in Addresses
  BY <1>1 DEF TabsInv, Fits, Listed, TabFits
<1>3. PICK pushed : pushed = IF url = NewTabUrl THEN tm.closed ELSE Append(tm.closed, url)
  OBVIOUS
<1>4. PICK closed : closed = IF Len(pushed) > MaxClosedTabs THEN Tail(pushed) ELSE pushed
  OBVIOUS
<1>5. closed \in Seq(Addresses)
  <2>1. pushed = tm.closed \/ pushed = Append(tm.closed, url)
    BY <1>3
  <2> QED
    BY <1>2, <1>4, <2>1, PushedFits
<1>6. PICK rest : rest = Filtered(tm.order, DOMAIN tm.tabs \ {id})
  OBVIOUS
<1>7. PICK s : s = [tm EXCEPT !.tabs = WithoutTab(@, id), !.order = rest, !.closed = closed]
  OBVIOUS
<1>8. PICK e : e = WithoutTab(engine, id)
  OBVIOUS
<1>9. Closed(s, e, id, rest, closed)
  BY <1>6, <1>7, <1>8, Zenon DEF Closed
<1>10. /\ Listed(s) /\ EnginesFit(s, e) /\ s.active = tm.active
       /\ rest # <<>> => NextActive(rest, id) \in DOMAIN s.tabs
       /\ \A j \in DOMAIN tm.tabs \ {id} :
            j \in DOMAIN s.tabs /\ s.tabs[j] = tm.tabs[j] /\ e[j] = engine[j]
  BY <1>1, <1>5, <1>9, ClosedFits
<1>11. \/ tm.active # id /\ Tell(s, e, TabsChanged)
       \/ rest # <<>> /\ Tell([s EXCEPT !.active = NextActive(rest, id)], e, Everything)
       \/ Open(s, e, NewTabUrl, TRUE)
  BY <1>2, <1>3, <1>4, <1>6, <1>7, <1>8, Zenon DEF CloseTab
<1>12. CASE tm.active # id /\ Tell(s, e, TabsChanged)
  <2>1. tm.active \in DOMAIN tm.tabs \ {id}
    BY <1>12 DEF TabsInv, Fits
  <2>2. Skips(s, e, TabsChanged)
    BY <1>1, <1>10, <1>12, <2>1, ClosedSkips
  <2>3. Fits(s)
    BY <1>10, <2>1 DEF Fits
  <2> QED
    BY <1>1, <1>10, <1>12, <2>2, <2>3, TellKeeps
<1>13. CASE rest # <<>> /\ Tell([s EXCEPT !.active = NextActive(rest, id)], e, Everything)
  <2>1. PICK t : t = [s EXCEPT !.active = NextActive(rest, id)]
    OBVIOUS
  <2>2. Fits(t)
    BY <1>10, <1>13, <2>1 DEF Fits, Listed
  <2>3. EnginesFit(t, e)
    BY <1>10, <2>1 DEF EnginesFit, Listed
  <2>4. Tell(t, e, Everything)
    BY <1>13, <2>1, Zenon
  <2> QED
    BY <1>1, <2>2, <2>3, <2>4, TellAll
<1>14. CASE Open(s, e, NewTabUrl, TRUE)
  BY <1>1, <1>10, <1>14, AddressFacts, OpenKeeps
<1> QED
  BY <1>11, <1>12, <1>13, <1>14

(* The engine's own steps.                                                   *)
LEMMA EngineKeeps ==
  ASSUME TabsInv, NEW id \in DOMAIN tm.tabs, NEW x, EngineFits(x), x.doc = engine[id].doc,
         engine' = [engine EXCEPT ![id] = x], UNCHANGED <<tm, told, disk>>
  PROVE  TabsInv'
<1>1. PICK e : e = [engine EXCEPT ![id] = x]
  OBVIOUS
<1>2. Turned(e, id) /\ e[id] = x
  BY <1>1, OneTurn
<1>3. tm.active = id \/ e[tm.active] = engine[tm.active]
  BY <1>2 DEF Turned, TabsInv, Fits, EnginesFit
<1>4. e[tm.active].doc = engine[tm.active].doc
  BY <1>2, <1>3
<1>5. Edited(tm, id) /\ Looks(tm, id, {}) /\ RoomSettled(tm, e, {})
  BY <1>4, NoTurn DEF Looks, RoomSettled
<1>6. EnginesFit(tm, e)
  BY <1>2, <1>5, EditFits
<1>7. Skips(tm, e, {})
  BY <1>5, EditSkips DEF TabsInv
<1>8. ToldFits(tm, e)
  <2>1. \A k \in Everything \ {"room"} : Current(tm, e)[k] = Current(tm, engine)[k]
    BY <1>7 DEF Skips
  <2> QED
    BY <1>4, <2>1, Zenon DEF ToldFits, TabsInv
<1>9. engine' = e
  BY <1>1
<1>10. Fits(tm)' /\ EnginesFit(tm, engine)'
  BY <1>6, <1>9, Zenon DEF Fits, Listed, EnginesFit, TabsInv
<1>11. ToldFits(tm, engine)'
  <2>1. tm' = tm /\ told' = told
    OBVIOUS
  <2>2. Current(tm, e) = Current(tm, engine)'
    BY <1>9, <2>1, Zenon DEF Current
  <2> QED
    BY <1>8, <1>9, <2>1, <2>2, Zenon DEF ToldFits
<1>12. DiskFits'
  BY Zenon DEF DiskFits, TabsInv, Snapshot
<1> QED
  BY <1>10, <1>11, <1>12 DEF TabsInv

LEMMA SteerKeeps ==
  ASSUME TabsInv, NEW id \in DOMAIN tm.tabs, Steer(id)
  PROVE  TabsInv'
<1>1. PICK x : x = engine[id] /\ EngineFits(x)
  BY NoTurn
<1>2. PICK p \in PageUrls \cup ({engine[id].doc} \ {Nowhere}) :
        engine' = [engine EXCEPT ![id] = Toward(@, p)]
  BY Zenon DEF Steer
<1>3. p \in Addresses
  BY <1>1, <1>2 DEF EngineFits, Addresses
<1>4. PICK y : y = Toward(x, p)
  OBVIOUS
<1>5. EngineFits(y) /\ y.doc = x.doc
  BY <1>1, <1>3, <1>4 DEF EngineFits, Toward
<1>6. engine' = [engine EXCEPT ![id] = y]
  BY <1>1, <1>2, <1>4
<1>7. UNCHANGED <<tm, told, disk>>
  BY DEF Steer
<1> QED
  BY <1>1, <1>5, <1>6, <1>7, EngineKeeps

LEMMA StopKeeps ==
  ASSUME TabsInv, NEW id \in DOMAIN tm.tabs, Stop(id)
  PROVE  TabsInv'
<1>1. PICK x : x = engine[id] /\ EngineFits(x)
  BY NoTurn
<1>2. PICK y : y = Idle(x.doc)
  OBVIOUS
<1>3. EngineFits(y) /\ y.doc = x.doc
  BY <1>1, <1>2 DEF EngineFits, Idle
<1>4. engine' = [engine EXCEPT ![id] = y]
  BY <1>1, <1>2 DEF Stop
<1>5. UNCHANGED <<tm, told, disk>>
  BY DEF Stop
<1> QED
  BY <1>1, <1>3, <1>4, <1>5, EngineKeeps
(* The session: what is written is what was told, and a restart restores it. *)
LEMMA SameTabs ==
  ASSUME TabsInv, UNCHANGED <<tm, told, engine>>, DiskFits'
  PROVE  TabsInv'
<1>1. Fits(tm)' /\ EnginesFit(tm, engine)'
  BY Zenon DEF Fits, Listed, EnginesFit, TabsInv
<1>2. ToldFits(tm, engine)'
  BY Zenon DEF ToldFits, Current, TabsInv
<1> QED
  BY <1>1, <1>2 DEF TabsInv

LEMMA SavedFits ==
  ASSUME TabsInv
  PROVE  /\ DOMAIN Saved = {"file", "timer", "up", "clean"} /\ Saved.up = disk.up
         /\ Saved.timer = FALSE /\ Saved.clean = disk.clean
         /\ Saved.file = Snapshot(told) /\ SessionFits(Saved.file)
<1>1. PICK f : f = Snapshot(told) /\ SessionFits(f)
  BY SnapshotIs DEF TabsInv
<1> QED
  BY <1>1 DEF Saved, TabsInv, DiskFits

LEMMA SessionKeeps ==
  ASSUME TabsInv, SaveSession \/ Quit \/ Crash \/ DeleteVisits
  PROVE  TabsInv'
<1>0. PICK d : d = disk
  OBVIOUS
<1>1. UNCHANGED <<tm, told, engine>>
  BY DEF SaveSession, Quit, Crash, DeleteVisits
<1>2. Snapshot(told)' = Snapshot(told)
  BY <1>1, Zenon DEF Snapshot
<1>3. CASE SaveSession
  <2>1. disk' = Saved
    BY <1>3 DEF SaveSession
  <2>2. DiskFits'
    BY <1>2, <2>1, SavedFits DEF DiskFits, TabsInv
  <2> QED
    BY <1>1, <2>2, SameTabs
<1>4. CASE Quit
  <2>1. disk' = [Saved EXCEPT !.up = FALSE, !.clean = TRUE]
    BY <1>4 DEF Quit, Flushed
  <2>2. PICK f : f = Saved
    OBVIOUS
  <2>3. DiskFits'
    BY <1>2, <2>1, <2>2, SavedFits DEF DiskFits, TabsInv
  <2> QED
    BY <1>1, <2>3, SameTabs
<1>5. CASE Crash
  <2>1. PICK file : /\ file = disk.file \/ file = NoSession
                    /\ disk' = [disk EXCEPT !.up = FALSE, !.clean = FALSE, !.timer = FALSE,
                                            !.file = file]
    BY <1>5 DEF Crash
  <2>2. SessionFits(file)
    <3>1. SessionFits(NoSession)
      BY EmptySeq DEF SessionFits, NoSession
    <3> QED
      BY <2>1, <3>1 DEF TabsInv, DiskFits
  <2>3. DiskFits'
    BY <2>1, <2>2 DEF DiskFits, TabsInv
  <2> QED
    BY <1>1, <2>3, SameTabs
<1>6. CASE DeleteVisits
  <2>1. disk' = disk
    BY <1>6 DEF DeleteVisits
  <2>2. DiskFits'
    BY <1>2, <2>1, Zenon DEF DiskFits, TabsInv
  <2> QED
    BY <1>1, <2>2, SameTabs
<1> QED
  BY <1>3, <1>4, <1>5, <1>6

LEMMA NoTabsListed ==
  Listed(NoTabs) /\ EnginesFit(NoTabs, <<>>)
<1>1. <<>> \in Seq(Nat) /\ <<>> \in Seq(Addresses) /\ DOMAIN <<>> = {}
  BY EmptySeq
<1>2. Elems(<<>>) = {}
  BY <1>1 DEF Elems
<1> QED
  BY <1>1, <1>2 DEF Listed, EnginesFit, NoTabs

LEMMA RestoredFits ==
  ASSUME NEW f, SessionFits(f)
  PROVE  Fits(Restored(f))
<1>1. PICK list \in Seq(Addresses) : list = f.tabs
  BY DEF SessionFits
<1>2. PICK n \in Nat : n = Len(list) /\ DOMAIN list = 1..n
  BY LenProperties
<1>3. CASE n = 0
  <2>1. Restored(f) = Opened(NoTabs, NewTabUrl, TRUE)
    BY <1>1, <1>2, <1>3 DEF Restored
  <2> QED
    BY <2>1, NoTabsListed, OpenedFits, AddressFacts
<1>4. CASE n # 0
  <2>1. PICK tabs : tabs = [i \in 1..n |-> NewRecord(list[i], FALSE)]
    OBVIOUS
  <2>2. PICK order : order = [i \in 1..n |-> i]
    OBVIOUS
  <2>3. PICK s : s = [NoTabs EXCEPT !.tabs = tabs, !.order = order,
                                    !.active = f.activeIndex, !.next = n + 1]
    OBVIOUS
  <2>4. Restored(f) = s
    BY <1>1, <1>2, <1>4, <2>1, <2>2, <2>3 DEF Restored
  <2>5. /\ DOMAIN s = {"tabs", "order", "active", "closed", "next"} /\ s.tabs = tabs
        /\ s.order = order /\ s.active = f.activeIndex /\ s.next = n + 1 /\ s.closed = <<>>
    BY <2>3 DEF NoTabs
  <2>6. DOMAIN tabs = 1..n /\ \A i \in 1..n : TabFits(tabs[i])
    <3>1. ASSUME NEW i \in 1..n PROVE TabFits(NewRecord(list[i], FALSE))
      <4>1. list[i] \in Addresses
        BY <1>2
      <4> QED
        BY <4>1, RecordFits
    <3> QED
      BY <2>1, <3>1
  <2>7. order \in Seq(Nat) /\ Elems(order) = 1..n
    BY <2>2 DEF Elems
  <2>8. f.activeIndex \in 1..n
    BY <1>1, <1>2, <1>4, EmptySeq DEF SessionFits
  <2>9. <<>> \in Seq(Addresses)
    BY EmptySeq
  <2>10. Listed(s)
    BY <2>5, <2>6, <2>7, <2>9 DEF Listed
  <2> QED
    BY <2>4, <2>5, <2>6, <2>8, <2>10 DEF Fits
<1> QED
  BY <1>3, <1>4

LEMMA StartedFits ==
  ASSUME NEW s, Fits(s)
  PROVE  EnginesFit(s, EnginesOf(s))
<1>1. ASSUME NEW id \in DOMAIN s.tabs
      PROVE  EngineFits(Toward(Idle(Nowhere), s.tabs[id].url))
  <2>1. s.tabs[id].url \in Addresses
    BY DEF Fits, Listed, TabFits
  <2> QED
    BY <2>1, RecordFits
<1> QED
  BY <1>1 DEF EnginesFit, EnginesOf
LEMMA StartedTold ==
  ASSUME NEW f, SessionFits(f), tm' = Restored(f), engine' = EnginesOf(Restored(f)),
         told' = Current(Restored(f), EnginesOf(Restored(f)))
  PROVE  Fits(tm)' /\ EnginesFit(tm, engine)' /\ ToldFits(tm, engine)'
<1>1. PICK s : s = Restored(f) /\ Fits(s)
  BY RestoredFits
<1>2. PICK e : e = EnginesOf(s) /\ EnginesFit(s, e)
  BY <1>1, StartedFits
<1>3. tm' = s /\ engine' = e
  BY <1>1, <1>2
<1>4. told' = Current(s, e)
  BY <1>1, <1>2, Zenon
<1>5. DOMAIN told' = Everything /\ told'.room = e[s.active].doc
  BY <1>4, CurrentFields, Zenon
<1>6. Current(s, e) = Current(tm, engine)'
  BY <1>3, Zenon DEF Current
<1>7. ToldFits(tm, engine)'
  BY <1>3, <1>4, <1>5, <1>6, Zenon DEF ToldFits
<1> QED
  BY <1>1, <1>2, <1>3, <1>7, Zenon DEF Fits, Listed, EnginesFit

LEMMA StartKeeps ==
  ASSUME TabsInv, Start
  PROVE  TabsInv'
<1>1. SessionFits(disk.file)
  BY DEF TabsInv, DiskFits
<1>2. /\ tm' = Restored(disk.file) /\ engine' = EnginesOf(Restored(disk.file))
      /\ told' = Current(Restored(disk.file), EnginesOf(Restored(disk.file)))
  BY Zenon DEF Start
<1>3. Fits(tm)' /\ EnginesFit(tm, engine)' /\ ToldFits(tm, engine)'
  BY <1>1, <1>2, StartedTold
<1>4. disk' = [disk EXCEPT !.up = TRUE, !.clean = FALSE, !.timer = TRUE]
  BY DEF Start
<1>5. DiskFits'
  BY <1>4 DEF DiskFits, TabsInv
<1> QED
  BY <1>3, <1>5 DEF TabsInv

LEMMA TabsInvInit ==
  ASSUME TabsInit
  PROVE  TabsInv
<1>1. SessionFits(NoSession)
  BY EmptySeq DEF SessionFits, NoSession
<1>2. PICK s : s = Restored(NoSession) /\ Fits(s)
  BY <1>1, RestoredFits
<1>3. PICK e : e = EnginesOf(s) /\ EnginesFit(s, e)
  BY <1>2, StartedFits
<1>4. tm = s /\ engine = e /\ told = Current(s, e)
  BY <1>2, <1>3, Zenon DEF TabsInit
<1>5. DOMAIN told = Everything /\ told.room = e[s.active].doc
  BY <1>4, CurrentFields, Zenon
<1>6. ToldFits(tm, engine)
  BY <1>4, <1>5, Zenon DEF ToldFits
<1>7. DiskFits
  BY <1>1 DEF DiskFits, TabsInit
<1> QED
  BY <1>2, <1>3, <1>4, <1>6, <1>7, Zenon DEF TabsInv

LEMMA TabEventKeeps ==
  ASSUME TabsInv, NEW id \in DOMAIN tm.tabs, TabEvent(id)
  PROVE  TabsInv'
  BY SteerKeeps, StopKeeps, LoadingChangedKeeps, StartNavigationKeeps, NavigatedKeeps,
     NavigatedInPageKeeps, FailLoadKeeps, RendererGoneKeeps, TitleUpdatedKeeps DEF TabEvent

LEMMA TabsInvNext ==
  ASSUME TabsInv, [TabsNext]_tabVars
  PROVE  TabsInv'
<1>1. CASE UNCHANGED tabVars
  <2>1. UNCHANGED <<tm, told, engine>> /\ UNCHANGED disk
    BY <1>1 DEF tabVars
  <2>2. DiskFits'
    BY <2>1, Zenon DEF DiskFits, TabsInv, Snapshot
  <2> QED
    BY <2>1, <2>2, SameTabs
<1>2. CASE TabsNext
  <2>1. CASE NewTab \/ ReopenClosedTab
    BY <2>1, NewTabKeeps, ReopenKeeps
  <2>2. CASE \E id \in TabIds : SwitchTab(id) \/ CloseTab(id)
    BY <2>2, SwitchTabKeeps, CloseTabKeeps
  <2>3. CASE SetSubtitles \/ SetPageTranslate \/ SetChatServer
    BY <2>3, SettingsKeep
  <2>4. CASE \E id \in DOMAIN tm.tabs : TabEvent(id)
    BY <2>4, TabEventKeeps
  <2>5. CASE DeleteVisits \/ SaveSession \/ Quit \/ Crash
    BY <2>5, SessionKeeps
  <2>6. CASE Start
    BY <2>6, StartKeeps
  <2> QED
    BY <1>2, <2>1, <2>2, <2>3, <2>4, <2>5, <2>6 DEF TabsNext
<1> QED
  BY <1>1, <1>2

(* What the window, the toolbar, the overlay, the popovers and the chat      *)
(* panel show is what TabManager holds, and the session file is the list of  *)
(* open tabs whenever no save is due and after every quit.                   *)
THEOREM TabsStaySound == TabsSpec => []TabsSound
<1>1. TabsInit => TabsInv
  BY TabsInvInit
<1>2. TabsInv /\ [TabsNext]_tabVars => TabsInv'
  BY TabsInvNext
<1>3. ASSUME TabsInv PROVE TabsSound
  <2>1. PushedStateCurrent
    BY <1>3, Zenon DEF PushedStateCurrent, TabsInv, ToldFits
  <2>2. Snapshot(told) = [tabs |-> TabUrls(tm), activeIndex |-> ActiveIndex(tm)]
    BY <1>3, SnapshotIs DEF TabsInv
  <2>3. (IF disk.up THEN ~disk.timer ELSE disk.clean) => disk.file = Snapshot(told)
    BY <1>3 DEF TabsInv, DiskFits
  <2>4. SessionSaved
    BY <2>2, <2>3, Zenon DEF SessionSaved
  <2> QED
    BY <2>1, <2>4 DEF TabsSound
<1> QED
  BY <1>1, <1>2, <1>3, PTL DEF TabsSpec
=============================================================================
