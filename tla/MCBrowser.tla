------------------------------ MODULE MCBrowser ------------------------------
(* TLC instances of the browser's own state: tabs, window, permissions,    *)
(* downloads, page translation, subtitles, bookmarks and history.  focus   *)
(* says which of them is at work in a behaviour.                           *)
EXTENDS Tabs, Window, Permissions, Downloads, Translation, Subtitles, Bookmarks,
        HistoryList

VARIABLE focus

(* Two window sizes: one too low for a popover, one with room to spare.    *)
TwoSizes == {<<5, 6>>, <<8, 10>>}

(* A page that says the same thing twice.                                  *)
EchoPage == {<<"x", "x">>}

(* A file with a folder in a folder, and one page marked in both places.   *)
NestedExport ==
  {[folders |-> <<[name |-> "n", in |-> 0], [name |-> "n", in |-> 1]>>,
    marks |-> <<[url |-> "u", in |-> 2], [url |-> "u", in |-> 0]>>]}

browserVars ==
  <<tabVars, windowVars, permVars, dlVars, trVars, subVars, bookmarkVars, historyVars, focus>>

OneOf(set) == CHOOSE x \in set : TRUE

(* A part that is not at work starts in one way; tabs and languages are    *)
(* alike, so that it does not matter which come first.                     *)
BrowserInit ==
  /\ focus \in {"tabs", "window", "permissions", "downloads", "translation", "subtitles",
                "bookmarks", "history"}
  /\ TabsInit /\ WindowInit /\ PermInit /\ DownloadsInit /\ TrInit /\ SubInit
  /\ BookmarksInit /\ HistoryInit
  /\ focus # "window" => <<size.width, size.height>> = OneOf(Sizes)
  /\ inFront = OneOf(PageTabs) /\ front = OneOf(SubTabs)
  /\ setting[inFront].language = OneOf(Languages)
  /\ focus # "translation" => page[inFront].doc = OneOf(Documents)
  /\ focus # "subtitles" => works

BrowserNext ==
  \/ /\ focus = "tabs" /\ TabsNext
     /\ UNCHANGED <<windowVars, permVars, dlVars, trVars, subVars, bookmarkVars, historyVars>>
  \/ /\ focus = "window" /\ WindowNext
     /\ UNCHANGED <<tabVars, permVars, dlVars, trVars, subVars, bookmarkVars, historyVars>>
  \/ /\ focus = "permissions" /\ PermNext
     /\ UNCHANGED <<tabVars, windowVars, dlVars, trVars, subVars, bookmarkVars, historyVars>>
  \/ /\ focus = "downloads" /\ DownloadsNext
     /\ UNCHANGED <<tabVars, windowVars, permVars, trVars, subVars, bookmarkVars, historyVars>>
  \/ /\ focus = "translation" /\ TrNext
     /\ UNCHANGED <<tabVars, windowVars, permVars, dlVars, subVars, bookmarkVars, historyVars>>
  \/ /\ focus = "subtitles" /\ SubNext
     /\ UNCHANGED <<tabVars, windowVars, permVars, dlVars, trVars, bookmarkVars, historyVars>>
  \/ /\ focus = "bookmarks" /\ BookmarksNext
     /\ UNCHANGED <<tabVars, windowVars, permVars, dlVars, trVars, subVars, historyVars>>
  \/ /\ focus = "history" /\ HistoryNext
     /\ UNCHANGED <<tabVars, windowVars, permVars, dlVars, trVars, subVars, bookmarkVars>>

BrowserSpec == BrowserInit /\ [][BrowserNext /\ UNCHANGED focus]_browserVars

(* The variables of the parts keep their types.                            *)
BrowserTypeOK ==
  /\ TabsTypeOK /\ WindowTypeOK /\ PermTypeOK /\ DownloadsTypeOK /\ TrTypeOK
  /\ SubTypeOK /\ BookmarksTypeOK /\ HistoryTypeOK
=============================================================================
