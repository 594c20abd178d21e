-------------------------------- MODULE Tabs --------------------------------
(***************************************************************************)
(* The tabs of the browser: TabManager, the callbacks index.ts gives it,   *)
(* the visits it records and the saved session.  Every action but the      *)
(* engine's own steps is one handler of the main process, which runs one   *)
(* handler at a time.  Chromium is external: a tab's engine has the        *)
(* document it shows and the page it is on its way to.                     *)
(***************************************************************************)
EXTENDS Naturals, Sequences, FiniteSets, Lists

CONSTANTS
  TabSites,          \* the addresses people open
  Servers,        \* chat servers a tab may be pinned to
  MaxClosedTabs,  \* MAX_CLOSED_TABS
  MaxEntries,     \* MAX_ENTRIES of the history
  TabIds,         \* bound: how many tabs are ever made in one run of the app
  Events          \* bound: what users, pages and the machine do

ASSUME ClosedTabsAssumption == MaxClosedTabs \in Nat

VARIABLES
  tm,      \* TabManager: tabs, order, activeId, closedTabUrls; next fresh id
  told,    \* what the window, the two renderers and the session were last told
  engine,  \* Chromium: the document of each tab, and where it is going
  tabVisits,  \* history entries, oldest first
  disk,    \* session.json, the debounce timer, and whether the app runs
  spent    \* events so far

tabVars == <<tm, told, engine, tabVisits, disk, spent>>

-----------------------------------------------------------------------------
(* An address is a site's page or the data: URL of the error page for one.  *)
Page(site) == <<"page", site>>
ErrorPage(page) == <<"error", page[2]>>
NewTabUrl == Page("new tab")
PageUrls == {Page(s) : s \in TabSites \cup {"new tab"}}
ErrorPages == {ErrorPage(p) : p \in PageUrls}
Nowhere == <<"none", "none">>
NoServer == "default"
NoTab == 0

NewRecord(url, landing) ==
  [url |-> url, title |-> Nowhere, loading |-> TRUE, pendingErrorUrl |-> Nowhere,
   skipNextHistoryRecord |-> landing, subtitles |-> FALSE, pageTranslate |-> FALSE,
   chatServerId |-> NoServer]

Idle(page) == [doc |-> page, target |-> Nowhere, started |-> FALSE]
Toward(e, page) == [e EXCEPT !.target = page, !.started = FALSE]

TabUrls(s) == [i \in DOMAIN s.order |-> s.tabs[s.order[i]].url]
ActiveIndex(s) == CHOOSE i \in DOMAIN s.order : s.order[i] = s.active

(* getTabsPayload, getActiveNavState and the active tab's own settings: all  *)
(* that the callbacks pass on.                                               *)
Current(s, e) ==
  LET active == s.tabs[s.active] IN
  [list |-> [i \in DOMAIN s.order |->
               [id |-> s.order[i], url |-> s.tabs[s.order[i]].url,
                title |-> s.tabs[s.order[i]].title,
                loading |-> s.tabs[s.order[i]].loading]],
   active |-> s.active,
   nav |-> [url |-> active.url, title |-> active.title, loading |-> active.loading],
   view |-> s.active,
   subtitles |-> active.subtitles,
   pageTranslate |-> active.pageTranslate,
   server |-> active.chatServerId,
   room |-> e[s.active].doc]

TabsChanged == {"list", "active"}
Everything == {"list", "active", "nav", "view", "subtitles", "pageTranslate",
               "server", "room"}
IfActive(s, id, what) == IF s.active = id THEN what ELSE {}

Snapshot(t) ==
  [tabs |-> [i \in DOMAIN t.list |-> t.list[i].url],
   activeIndex |-> CHOOSE i \in DOMAIN t.list : t.list[i].id = t.active]

(* The state becomes s and e, and the callbacks in what are called: each     *)
(* passes on its part, and onTabsChanged schedules a save too.               *)
Tell(s, e, what) ==
  /\ tm' = s
  /\ engine' = e
  /\ told' = [k \in DOMAIN told |-> IF k \in what THEN Current(s, e)[k] ELSE told[k]]
  /\ disk' = [disk EXCEPT !.timer = @ \/ TabsChanged \subseteq what]

Spend == spent < Events /\ spent' = spent + 1

-----------------------------------------------------------------------------
(* newTab: the new tab is the last and the active one, and loads.            *)
Adding(f, id, value) == [k \in DOMAIN f \cup {id} |-> IF k = id THEN value ELSE f[k]]

Opened(s, url, landing) ==
  [s EXCEPT !.tabs = Adding(@, s.next, NewRecord(url, landing)),
            !.order = Append(@, s.next), !.active = s.next, !.next = @ + 1]

Launched(s, e, url) == Adding(e, s.next, Toward(Idle(Nowhere), url))

Open(s, e, url, landing) ==
  /\ s.next \in TabIds
  /\ Tell(Opened(s, url, landing), Launched(s, e, url), Everything)

NewTab ==
  /\ disk.up /\ Spend
  /\ \/ Open(tm, engine, NewTabUrl, TRUE)
     \/ \E p \in PageUrls : Open(tm, engine, p, FALSE)
  /\ UNCHANGED tabVisits

SwitchTab(id) ==
  /\ disk.up /\ Spend
  /\ id \in DOMAIN tm.tabs /\ id # tm.active
  /\ Tell([tm EXCEPT !.active = id], engine, Everything)
  /\ UNCHANGED tabVisits

(* closeTab.  NextActive is the tab shown when the active one is closed.     *)
WithoutTab(f, id) == [k \in DOMAIN f \ {id} |-> f[k]]
NextActive(rest, id) == rest[1]

CloseTab(id) ==
  /\ disk.up /\ Spend
  /\ id \in DOMAIN tm.tabs
  /\ LET url == tm.tabs[id].url
         pushed == IF url = NewTabUrl THEN tm.closed ELSE Append(tm.closed, url)
         rest == Filtered(tm.order, DOMAIN tm.tabs \ {id})
         s == [tm EXCEPT !.tabs = WithoutTab(@, id), !.order = rest,
                 !.closed = IF Len(pushed) > MaxClosedTabs THEN Tail(pushed) ELSE pushed]
         e == WithoutTab(engine, id)
     IN  \/ tm.active # id /\ Tell(s, e, TabsChanged)
         \/ /\ tm.active = id /\ rest # <<>>
            /\ Tell([s EXCEPT !.active = NextActive(rest, id)], e, Everything)
         \/ tm.active = id /\ rest = <<>> /\ Open(s, e, NewTabUrl, TRUE)
  /\ UNCHANGED tabVisits

ReopenClosedTab ==
  /\ disk.up /\ Spend
  /\ tm.closed # <<>>
  /\ LET n == Len(tm.closed)
     IN  Open([tm EXCEPT !.closed = SubSeq(@, 1, n - 1)], engine, tm.closed[n], FALSE)
  /\ UNCHANGED tabVisits

(* setActiveSubtitleSettings, setActivePageTranslateSettings and             *)
(* setActiveChatServerId keep a setting in the active tab and pass it on; a  *)
(* change of server looks up the room again.                                 *)
SetActive(field, value, what) ==
  /\ disk.up /\ Spend
  /\ Tell([tm EXCEPT !.tabs[tm.active][field] = value], engine, what)
  /\ UNCHANGED tabVisits

SetSubtitles == \E on \in BOOLEAN : SetActive("subtitles", on, {"subtitles"})
SetPageTranslate == \E on \in BOOLEAN : SetActive("pageTranslate", on, {"pageTranslate"})
SetChatServer ==
  \E v \in Servers \cup {NoServer} : SetActive("chatServerId", v, {"server", "room"})

-----------------------------------------------------------------------------
(* Chromium's part: loadURL, back, forward, reload and links name the next   *)
(* page; what was on its way is dropped with ERR_ABORTED, which no handler   *)
(* heeds.  Going back or reloading may lead to an error page's own data: URL. *)
Steer(id) ==
  /\ disk.up /\ Spend
  /\ \E p \in PageUrls \cup ({engine[id].doc} \ {Nowhere}) :
       engine' = [engine EXCEPT ![id] = Toward(@, p)]
  /\ UNCHANGED <<tm, told, tabVisits, disk>>

Stop(id) ==
  /\ disk.up /\ Spend
  /\ engine[id].target # Nowhere
  /\ engine' = [engine EXCEPT ![id] = Idle(@.doc)]
  /\ UNCHANGED <<tm, told, tabVisits, disk>>

(* did-start-loading and did-stop-loading.                                   *)
LoadingChanged(id) ==
  /\ disk.up
  /\ tm.tabs[id].loading = (engine[id].target = Nowhere)
  /\ LET s == [tm EXCEPT !.tabs[id].loading = ~@]
     IN  Tell(s, engine, TabsChanged \cup IfActive(s, id, {"nav"}))
  /\ UNCHANGED <<tabVisits, spent>>

(* did-start-navigation: the address shows the destination at once, but for  *)
(* an error page of our own.                                                 *)
StartNavigation(id) ==
  /\ disk.up
  /\ engine[id].target # Nowhere /\ ~engine[id].started
  /\ LET to == engine[id].target
         e == [engine EXCEPT ![id].started = TRUE]
         s == [tm EXCEPT !.tabs[id].url = to]
     IN  \/ to = tm.tabs[id].pendingErrorUrl /\ Tell(tm, e, {})
         \/ /\ to # tm.tabs[id].pendingErrorUrl
            /\ Tell(s, e, TabsChanged \cup IfActive(s, id, {"nav"}))
  /\ UNCHANGED <<tabVisits, spent>>

(* handleUrlChange, for a document that commits and for a change of address  *)
(* within one.                                                               *)
UrlChanged(id, to, e) ==
  \/ /\ to = tm.tabs[id].pendingErrorUrl
     /\ Tell([tm EXCEPT !.tabs[id].pendingErrorUrl = Nowhere], e, TabsChanged)
  \/ /\ to # tm.tabs[id].pendingErrorUrl
     /\ LET s == [tm EXCEPT !.tabs[id].url = to]
        IN  Tell(s, e, TabsChanged \cup IfActive(s, id, {"nav", "room"}))

Navigated(id) ==
  /\ disk.up
  /\ engine[id].started
  /\ UrlChanged(id, engine[id].target, [engine EXCEPT ![id] = Idle(@.target)])
  /\ UNCHANGED <<tabVisits, spent>>

NavigatedInPage(id) ==
  /\ disk.up /\ Spend
  /\ engine[id].doc \in PageUrls
  /\ \E p \in PageUrls \ {engine[id].doc} : UrlChanged(id, p, [engine EXCEPT ![id].doc = p])
  /\ UNCHANGED tabVisits

(* did-fail-load and a crashed renderer load an error page in place of what  *)
(* failed; a renderer evicted for its memory loads its address again.        *)
ShowErrorPage(id, failed) ==
  LET page == ErrorPage(failed)
      s == [tm EXCEPT !.tabs[id].pendingErrorUrl = page, !.tabs[id].loading = FALSE]
  IN  Tell(s, [engine EXCEPT ![id] = Toward(@, page)],
           TabsChanged \cup IfActive(s, id, {"nav"}))

FailLoad(id) ==
  /\ disk.up /\ Spend
  /\ engine[id].started /\ engine[id].target \in PageUrls
  /\ ShowErrorPage(id, engine[id].target)
  /\ UNCHANGED tabVisits

RendererGone(id) ==
  /\ disk.up /\ Spend
  /\ engine[id].doc # Nowhere
  /\ \/ ShowErrorPage(id, tm.tabs[id].url)
     \/ Tell(tm, [engine EXCEPT ![id] = Toward(@, tm.tabs[id].url)], {})
  /\ UNCHANGED tabVisits

(* recordVisit: the newest entry is corrected if it has this address.        *)
VisitRecorded(entries, url, title) ==
  LET n == Len(entries)
      entry == [url |-> url, title |-> title]
      longer == Append(entries, entry)
  IN  IF n > 0 /\ entries[n].url = url THEN [entries EXCEPT ![n] = entry]
      ELSE IF n = MaxEntries THEN Tail(longer) ELSE longer

(* page-title-updated: a landing page's first title is not a visit.          *)
TitleUpdated(id) ==
  /\ disk.up
  /\ engine[id].doc \notin {Nowhere, tm.tabs[id].title}
  /\ LET tab == tm.tabs[id]
         s == [tm EXCEPT !.tabs[id].title = engine[id].doc,
                         !.tabs[id].skipNextHistoryRecord = FALSE]
     IN  /\ Tell(s, engine, TabsChanged \cup IfActive(s, id, {"nav"}))
         /\ tabVisits' = IF tab.skipNextHistoryRecord \/ tab.url = tab.pendingErrorUrl
                      THEN tabVisits ELSE VisitRecorded(tabVisits, tab.url, engine[id].doc)
  /\ UNCHANGED spent

(* deleteEntry and clearHistory, from Settings or the browser's MCP server.  *)
DeleteVisits ==
  /\ disk.up /\ Spend
  /\ tabVisits # <<>>
  /\ \/ tabVisits' = <<>>
     \/ \E i \in DOMAIN tabVisits :
          tabVisits' = SubSeq(tabVisits, 1, i - 1) \o SubSeq(tabVisits, i + 1, Len(tabVisits))
  /\ UNCHANGED <<tm, told, engine, disk>>

-----------------------------------------------------------------------------
(* The saved session: the debounced write, the flush before a quit, and a    *)
(* crash, which loses what was not written and spoils a write under way.     *)
NoSession == [tabs |-> <<>>, activeIndex |-> 1]

Saved == [disk EXCEPT !.file = Snapshot(told), !.timer = FALSE]

SaveSession ==
  /\ disk.up /\ disk.timer
  /\ disk' = Saved
  /\ UNCHANGED <<tm, told, engine, tabVisits, spent>>

NotFlushed == disk
Flushed == Saved

Quit ==
  /\ disk.up /\ Spend
  /\ disk' = [Flushed EXCEPT !.up = FALSE, !.clean = TRUE]
  /\ UNCHANGED <<tm, told, engine, tabVisits>>

Crash ==
  /\ disk.up /\ Spend
  /\ \E file \in {disk.file} \cup (IF disk.timer THEN {NoSession} ELSE {}) :
       disk' = [disk EXCEPT !.up = FALSE, !.clean = FALSE, !.timer = FALSE, !.file = file]
  /\ UNCHANGED <<tm, told, engine, tabVisits>>

(* createWindow: restoreTabs opens each saved address, all of it before any  *)
(* save, and then goes to the one that was active.                           *)
NoTabs == [tabs |-> <<>>, order |-> <<>>, active |-> NoTab, closed |-> <<>>, next |-> 1]

Restored(session) ==
  LET n == Len(session.tabs) IN
  IF n = 0 THEN Opened(NoTabs, NewTabUrl, TRUE)
  ELSE [NoTabs EXCEPT !.tabs = [i \in 1..n |-> NewRecord(session.tabs[i], FALSE)],
                     !.order = [i \in 1..n |-> i],
                     !.active = session.activeIndex,
                     !.next = n + 1]

EnginesOf(s) == [id \in DOMAIN s.tabs |-> Toward(Idle(Nowhere), s.tabs[id].url)]

Start ==
  /\ ~disk.up
  /\ LET s == Restored(disk.file) IN
       /\ tm' = s
       /\ engine' = EnginesOf(s)
       /\ told' = Current(s, EnginesOf(s))
  /\ disk' = [disk EXCEPT !.up = TRUE, !.clean = FALSE, !.timer = TRUE]
  /\ UNCHANGED <<tabVisits, spent>>

TabsInit ==
  /\ tm = Restored(NoSession)
  /\ engine = EnginesOf(tm)
  /\ told = Current(tm, engine)
  /\ tabVisits = <<>>
  /\ disk = [file |-> NoSession, timer |-> TRUE, up |-> TRUE, clean |-> FALSE]
  /\ spent = 0

TabEvent(id) ==
  \/ Steer(id) \/ Stop(id) \/ LoadingChanged(id) \/ StartNavigation(id)
  \/ Navigated(id) \/ NavigatedInPage(id) \/ FailLoad(id) \/ RendererGone(id)
  \/ TitleUpdated(id)

TabsNext ==
  \/ NewTab \/ ReopenClosedTab
  \/ \E id \in TabIds : SwitchTab(id) \/ CloseTab(id)
  \/ SetSubtitles \/ SetPageTranslate \/ SetChatServer
  \/ \E id \in DOMAIN tm.tabs : TabEvent(id)
  \/ DeleteVisits
  \/ SaveSession \/ Quit \/ Crash \/ Start

TabsSpec == TabsInit /\ [][TabsNext]_tabVars

-----------------------------------------------------------------------------
TabRecord ==
  [url : PageUrls \cup ErrorPages, title : PageUrls \cup ErrorPages \cup {Nowhere},
   loading : BOOLEAN, pendingErrorUrl : ErrorPages \cup {Nowhere},
   skipNextHistoryRecord : BOOLEAN, subtitles : BOOLEAN, pageTranslate : BOOLEAN,
   chatServerId : Servers \cup {NoServer}]

(* The tab bar and the map of tabs hold the same tabs, each once, and one of *)
(* them is active; the stack of closed tabs stays within its limit.          *)
TabsTypeOK ==
  /\ tm.tabs \in [DOMAIN tm.tabs -> TabRecord]
  /\ DOMAIN tm.tabs = {tm.order[i] : i \in DOMAIN tm.order}
  /\ Cardinality(DOMAIN tm.tabs) = Len(tm.order)
  /\ tm.active \in DOMAIN tm.tabs
  /\ DOMAIN engine = DOMAIN tm.tabs
  /\ Len(tm.closed) <= MaxClosedTabs
  /\ Len(tabVisits) <= MaxEntries

(* Between two handlers nobody has an old picture of the tabs: the tab bar,  *)
(* the toolbar, the view in the window, the overlay, the popovers and the    *)
(* chat panel show what TabManager holds.  Only the room may differ, while    *)
(* an error page is shown: its data: URL is not a room to go to.             *)
PushedStateCurrent ==
  disk.up => /\ \A k \in DOMAIN told \ {"room"} : told[k] = Current(tm, engine)[k]
             /\ \/ told.room = engine[tm.active].doc
                \/ engine[tm.active].doc \in ErrorPages

(* The session file is the list of open tabs whenever no save is due, and    *)
(* after every quit: nothing that was open is forgotten but by a crash.       *)
SessionSaved ==
  (IF disk.up THEN ~disk.timer ELSE disk.clean) =>
     disk.file = [tabs |-> TabUrls(tm), activeIndex |-> ActiveIndex(tm)]

TabsSound == PushedStateCurrent /\ SessionSaved

(* tabManager.ts:441-443: what shows an error page is not a visited page.    *)
ErrorPagesUnrecorded ==
  \A i \in DOMAIN tabVisits : tabVisits[i].title \notin ErrorPages
=============================================================================
