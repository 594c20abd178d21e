----------------------------- MODULE Bookmarks -----------------------------
(***************************************************************************)
(* Bookmarks and their folders: the store in main, the copies the chrome   *)
(* view shows, the commands it sends from those copies, the import of a    *)
(* file, and the tools through which agents change the store as well.      *)
(***************************************************************************)
EXTENDS Naturals, Sequences

CONSTANTS
  Urls,     \* pages
  Names,    \* names of folders, case ignored
  Exports,  \* parsed files: parents of the folders, then marks, by position
  BmSteps   \* bound: commands, tool calls and imports

(* A mark of an export lies in a folder of that export, or in none.          *)
ASSUME ExportsAssumption ==
  \A e \in Exports :
    /\ e.folders \in Seq([name : Names, in : Nat])
    /\ e.marks \in Seq([url : Urls, in : 0..Len(e.folders)])

VARIABLES
  store,      \* bookmarkStore: marks, folders, and the next id
  toStore,    \* commands on their way to main
  toChrome,   \* BOOKMARKS_UPDATED and BOOKMARK_FOLDERS_UPDATED on their way
  shown,      \* the marks and folders chrome has
  filing,     \* pendingFolderName of the popover: mark and name
  bmSteps

bookmarkVars == <<store, toStore, toChrome, shown, filing, bmSteps>>

Root == 0
NoFiling == [mark |-> 0, name |-> "none"]
BmStep == bmSteps < BmSteps /\ bmSteps' = bmSteps + 1
Only(f, kept) == [x \in kept |-> f[x]]
With(f, x, value) == [y \in DOMAIN f \cup {x} |-> IF y = x THEN value ELSE f[y]]

-----------------------------------------------------------------------------
(* bookmarkStore: each operation maps the store to the next one and writes   *)
(* it to disk.                                                               *)
MarksOf(s, url) == {m \in DOMAIN s.marks : s.marks[m].url = url}

AddBookmark(s, url, folder) ==
  IF MarksOf(s, url) # {} THEN s
  ELSE [s EXCEPT !.marks = With(@, s.next, [url |-> url, folder |-> folder]), !.next = @ + 1]

RemoveBookmarks(s, gone) == [s EXCEPT !.marks = Only(@, DOMAIN @ \ gone)]

ToggleBookmark(s, url) ==
  IF MarksOf(s, url) # {} THEN RemoveBookmarks(s, MarksOf(s, url))
  ELSE AddBookmark(s, url, Root)

MoveBookmark(s, m, folder) ==
  IF m \in DOMAIN s.marks /\ folder \in DOMAIN s.folders \cup {Root}
  THEN [s EXCEPT !.marks[m].folder = folder] ELSE s

CreateFolder(s, name, parent) ==
  [s EXCEPT !.folders = With(@, s.next, [name |-> name, parent |-> parent]), !.next = @ + 1]

RenameFolder(s, f, name) == IF f \in DOMAIN s.folders THEN [s EXCEPT !.folders[f].name = name] ELSE s

(* A folder is deleted with every folder below it and every mark in those,   *)
(* also when it is gone already and a late command made folders under it.    *)
Subtree(s, top) ==
  LET below[f \in DOMAIN s.folders \cup {top}] ==
        \/ f = top
        \/ /\ s.folders[f].parent \in DOMAIN s.folders \cup {top}
           /\ below[s.folders[f].parent]
  IN {f \in DOMAIN s.folders : below[f]}

DeleteFolderOnly(s, top) ==
  [s EXCEPT !.folders = Only(@, DOMAIN @ \ (Subtree(s, top) \cup {top}))]

DeleteFolder(s, top) ==
  LET gone == Subtree(s, top) \cup {top} IN
  [s EXCEPT !.folders = Only(@, DOMAIN @ \ gone),
            !.marks = Only(@, {m \in DOMAIN @ : @[m].folder \notin gone})]

Empty(s) == [s EXCEPT !.folders = <<>>, !.marks = <<>>]

(* findOrCreateFolderByName, at the root.                                    *)
Named(s, name) == {f \in DOMAIN s.folders : s.folders[f].parent = Root /\ s.folders[f].name = name}
FindOrCreate(s, name) == IF Named(s, name) # {} THEN s ELSE CreateFolder(s, name, Root)
FolderNamed(s, name) == CHOOSE f \in Named(s, name) : \A g \in Named(s, name) : f <= g

(* importBookmarksFromHtml: all folders first, in the order of the file, so  *)
(* that a parent has its id before its children; then the marks that are new. *)
Placed(first, in) == IF in = 0 THEN Root ELSE first + in - 1

FoldersImported(s, folders) ==
  LET upto[n \in 0..Len(folders)] ==
        IF n = 0 THEN s
        ELSE CreateFolder(upto[n - 1], folders[n].name, Placed(s.next, folders[n].in))
  IN  upto[Len(folders)]

MarksImported(s, marks, first) ==
  LET upto[n \in 0..Len(marks)] ==
        IF n = 0 THEN s
        ELSE AddBookmark(upto[n - 1], marks[n].url, Placed(first, marks[n].in))
  IN  upto[Len(marks)]

Imported(s, export) ==
  MarksImported(FoldersImported(s, export.folders), export.marks, s.next)

-----------------------------------------------------------------------------
(* Every change is pushed to chrome, the part that changed or both.          *)
Marks(s) == <<[what |-> "marks", marks |-> s.marks]>>
Folders(s) == <<[what |-> "folders", folders |-> s.folders]>>

Pushes(do, s) ==
  CASE do \in {"toggle", "delete", "move"} -> Marks(s)
    [] do \in {"create folder", "rename folder"} -> Folders(s)
    [] do \in {"delete folder", "import", "add"} -> Folders(s) \o Marks(s)
    [] do = "clear" -> Marks(s) \o Folders(s)

Becomes(do, next) ==
  /\ store' = next
  /\ toChrome' = toChrome \o Pushes(do, next)

Done(command, s) ==
  CASE command.do = "toggle" -> ToggleBookmark(s, command.url)
    [] command.do = "delete" -> RemoveBookmarks(s, {command.mark})
    [] command.do = "move" -> MoveBookmark(s, command.mark, command.folder)
    [] command.do = "create folder" -> CreateFolder(s, command.name, command.folder)
    [] command.do = "rename folder" -> RenameFolder(s, command.folder, command.name)
    [] command.do = "delete folder" -> DeleteFolder(s, command.folder)
    [] command.do = "clear" -> Empty(s)

HandleCommand ==
  /\ toStore # <<>> /\ toStore' = Tail(toStore)
  /\ Becomes(Head(toStore).do, Done(Head(toStore), store))
  /\ UNCHANGED <<shown, filing, bmSteps>>

-----------------------------------------------------------------------------
(* What the user does, with what chrome shows at that moment.                *)
Command(command) ==
  /\ BmStep
  /\ toStore' = Append(toStore, command)
  /\ UNCHANGED <<store, toChrome, shown>>

(* The star adds a page chrome does not know as marked.                      *)
Star(url) ==
  /\ \A m \in DOMAIN shown.marks : shown.marks[m].url # url
  /\ Command([do |-> "toggle", url |-> url])
  /\ UNCHANGED filing

ChangeMark(m) ==
  /\ \/ Command([do |-> "delete", mark |-> m])
     \/ \E f \in DOMAIN shown.folders \cup {Root} : f # shown.marks[m].folder
          /\ Command([do |-> "move", mark |-> m, folder |-> f])
  /\ UNCHANGED filing

NewFolder(parent, name) ==
  /\ Command([do |-> "create folder", folder |-> parent, name |-> name])
  /\ UNCHANGED filing

ChangeFolder(f) ==
  /\ \/ Command([do |-> "delete folder", folder |-> f])
     \/ \E name \in Names : name # shown.folders[f].name
          /\ Command([do |-> "rename folder", folder |-> f, name |-> name])
  /\ UNCHANGED filing

ClearAll == Command([do |-> "clear"]) /\ UNCHANGED filing

(* A folder made in the popover is to hold the mark once chrome hears of it. *)
FileUnderNew(m, name) ==
  /\ Command([do |-> "create folder", folder |-> Root, name |-> name])
  /\ filing' = [mark |-> m, name |-> name]

ClosePopover ==
  /\ filing # NoFiling /\ filing' = NoFiling
  /\ UNCHANGED <<store, toStore, toChrome, shown, bmSteps>>

Heard(push) ==
  IF push.what = "marks" THEN [shown EXCEPT !.marks = push.marks]
  ELSE [shown EXCEPT !.folders = push.folders]

ChromeHearsMarks ==
  LET push == Head(toChrome)
      now == Heard(push)
      found == filing # NoFiling /\ Named(now, filing.name) # {}
      open == filing.mark \in DOMAIN now.marks
  IN /\ toChrome # <<>> /\ toChrome' = Tail(toChrome)
     /\ shown' = now
     /\ filing' = IF open /\ ~found THEN filing ELSE NoFiling
     /\ toStore' = IF open /\ found
                   THEN Append(toStore, [do |-> "move", mark |-> filing.mark,
                                         folder |-> FolderNamed(now, filing.name)])
                   ELSE toStore
     /\ UNCHANGED <<store, bmSteps>>

-----------------------------------------------------------------------------
(* The import of a picked file, and the tools of the browser's MCP server.   *)
Import(export) ==
  /\ BmStep
  /\ Becomes("import", Imported(store, export))
  /\ UNCHANGED <<toStore, shown, filing>>

Tool(do, next) ==
  /\ BmStep
  /\ Becomes(do, next)
  /\ UNCHANGED <<toStore, shown, filing>>

ToolAdd(url) ==
  /\ MarksOf(store, url) = {}
  /\ \/ Tool("add", ToggleBookmark(store, url))
     \/ \E name \in Names :
          LET made == FindOrCreate(ToggleBookmark(store, url), name) IN
          Tool("add", MoveBookmark(made, store.next, FolderNamed(made, name)))

ToolChange ==
  \/ \E m \in DOMAIN store.marks :
       \/ Tool("delete", RemoveBookmarks(store, {m}))
       \/ \E f \in 0..(store.next - 1) : Tool("move", MoveBookmark(store, m, f))
  \/ \E f \in DOMAIN store.folders :
       \/ Tool("delete folder", DeleteFolder(store, f))
       \/ \E name \in Names : Tool("rename folder", RenameFolder(store, f, name))

ToolNewFolder(name) ==
  \/ Tool("create folder", CreateFolder(store, name, Root))
  \/ \E parent \in Names :
       LET made == FindOrCreate(store, parent) IN
       Tool("create folder", CreateFolder(made, name, FolderNamed(made, parent)))

BookmarksInit ==
  /\ store = [marks |-> <<>>, folders |-> <<>>, next |-> 1]
  /\ toStore = <<>> /\ toChrome = <<>>
  /\ shown = [marks |-> <<>>, folders |-> <<>>]
  /\ filing = NoFiling
  /\ bmSteps = 0

BookmarksNext ==
  \/ \E url \in Urls : Star(url) \/ ToolAdd(url)
  \/ \E m \in DOMAIN shown.marks :
       ChangeMark(m) \/ \E name \in Names : FileUnderNew(m, name)
  \/ \E parent \in DOMAIN shown.folders \cup {Root}, name \in Names : NewFolder(parent, name)
  \/ \E f \in DOMAIN shown.folders : ChangeFolder(f)
  \/ ClearAll \/ ClosePopover \/ HandleCommand \/ ChromeHearsMarks
  \/ \E export \in Exports : Import(export)
  \/ ToolChange \/ \E name \in Names : ToolNewFolder(name)

BookmarksSpec == BookmarksInit /\ [][BookmarksNext]_bookmarkVars

-----------------------------------------------------------------------------
BookmarksTypeOK ==
  /\ store.next \in Nat \ {0}
  /\ DOMAIN store.marks \cup DOMAIN store.folders \subseteq 1..(store.next - 1)
  /\ \A m \in DOMAIN store.marks : store.marks[m].url \in Urls
  /\ \A f \in DOMAIN store.folders : store.folders[f].name \in Names
  /\ bmSteps \in 0..BmSteps

(* Commands made from what chrome showed earlier meet a store that agents    *)
(* and imports changed since: still no page is marked twice, no mark is in a *)
(* folder that is gone, and once the pushes are heard chrome shows the store. *)
BookmarksSound ==
  /\ \A m, n \in DOMAIN store.marks : store.marks[m].url = store.marks[n].url => m = n
  /\ \A m \in DOMAIN store.marks : store.marks[m].folder \in DOMAIN store.folders \cup {Root}
  /\ toChrome = <<>> => shown = [marks |-> store.marks, folders |-> store.folders]
=============================================================================
