# Verification of paperkite

TLA+ modules for the stateful parts of paperkite: the chat service
(`src/chat-service`, Go) and the browser (`src/browser/src`, TypeScript: the main
process, the preload of the pages, and what the renderers remember). TLC
model-checks every module on small instances; TLAPS proves the central invariants
of twenty of them for every value of the constants. `PROJECT.json` lists the
components, the runs, the lines each definition translates, the hazards and the
findings.

Run a check with `tlc -config <run>.cfg <module>`, a proof with
`tlapm <name>Proofs.tla`.

Contents: 1 the system, 2 the modules, 3 the runs, 4 the proofs, 5 what is not
modelled and what else was seen, 6 what could come next.

## 1. The system

paperkite is a browser with a chat room on every page, agents that use MCP tools,
page translation and live subtitles. The browser's main process keeps one chat
session, for the room of the active tab; the session talks HTTP and server-sent
events to a chat service, which keeps rooms in memory and username claims in a
file. A separate daemon on the server's host deploys new builds of the service.

Within the browser the main process holds the state and the files. Two renderers
(the chrome with its toolbar and Settings, the chat panel) and a preload in each
page talk to it by IPC messages, which arrive in order and later. All of it is
JavaScript: a handler runs to its next `await` undisturbed, and everything hard
happens at the awaits, at the messages, and at crashes.

| Component | State it keeps | Operations | Hard because |
|---|---|---|---|
| **Hub** (`internal/hub`, with the handlers of `internal/api`, `internal/sse`, `internal/chat`) | rooms by name, each with a mutex, a sequence, a ring buffer and the channels of its live streams; a server-wide count of streams | `/connect`, `/send`, `/poll`, `/events`, `Broadcast`, `GC` | handlers drop the hub's lock before they take the room's, so GC can delete the room they hold; timestamps are taken before the lock; slow subscribers lose messages; catch-up and live stream overlap |
| **Username registry** (`internal/username`) | Bloom filter, map of claims, append-only file | `TryClaim`, `IsClaimed`, load | permanence across crashes; partial writes; a failed `Sync`; hash collisions |
| **Ops daemon** (`internal/ops`, `cmd/ops`) | the running process, the binaries, `state.json` | `Deploy` (download, terminate, launch, health check, record, roll back), `Resume`, `Bootstrap` | each step can fail, processes and the daemon can die at any point, ports are shared between old and new |
| **Metrics** (`internal/metrics`, `internal/hll`) | two HyperLogLog sketches and their files | `AddRoom`, `AddUser`, `Save`, load | two files, a temporary file each, a periodic and a final save |
| **Server entry point** (`cmd/server`) | none of its own | start, restart notice, graceful stop | the notice has 400 ms to reach the streams |
| **Chat session** (`chatSession.ts`, `chatClient.ts`) | generation, token, cursor, transport handles, restart timer, send queue, buffer | sync, stop, send, and the callbacks of requests, streams and timers | late callbacks of replaced sessions, hand-over between transports, restart sequence |
| **Chat server configurations** (`chatServerStore.ts`, `ipc.ts`, Settings) | servers, default, usernames, tokens | add, edit, remove, override, claim a username | the claim awaits the network between its check and its write |
| **Agent conversations** (`agentThreadStore.ts`, `agents/`, `ipc.ts`, agent panel) | threads, messages, running replies | send, stop, retry, delete | replies stream while threads are deleted or answered again |
| **Settings of agents and MCP servers** (`agentStore.ts`, `mcpStore.ts`, `AgentsSection.tsx`, `McpSection.tsx`) | the stored entries with their secrets, the file; the section's list, form and test | add, edit, remove, test, restart | the renderer never sees a secret, so an empty field must mean "keep it"; lists and answers arrive behind edits; a save may fail |
| **MCP client** (`mcp/client.ts`, `mcpStore.ts`, tool loop of `agents/`) | server settings, cached connections, aliases of tool names | edit, connect, offer, call | connects and calls overlap with edits and with other turns |
| **Built-in MCP server** (`mcp/builtinServer.ts`, `mcpAuth.ts`) | tokens on file, the listener, sessions | switch, create and revoke tokens, requests | a session outlives the request that opened it; start and stop are asynchronous |
| **Tabs** (`tabManager.ts`, `index.ts`) | order, active tab, closed-tab stack, per-tab navigation state | new, close, reopen, restore, navigation events | internal error pages share the events of real navigations |
| **Session restore** (`sessionRestore.ts`) | pending save and its timer, the file | schedule, flush, load | quit or crash inside the debounce |
| **Window** (`windowManager.ts`, `layout.ts`) | attached views, stacking, cached bounds, fullscreen flags, chat panel animation | toggles, tab switch, relayout | overlapping animations, flags that two processes each hold half of |
| **Permissions** (`permissions.ts`) | pending prompts, remembered decisions | request, answer, change in Settings | several prompts of one origin |
| **Downloads** (`downloadStore.ts`) | live items, shown list, saved list | track, update, done, clear, restart | clearing beside running downloads, records shared by both lists |
| **Bookmarks** (`bookmarkStore.ts`, popover, Settings) | marks and folders, with ids | add, move, rename, delete, clear, import, tools | commands carry ids the view knew |
| **History** (`historyStore.ts`, Settings) | visits; the list fetched page by page | record, page, search, delete, clear | answers to a query that was left |
| **Page translation** (`translatePage.ts`, preload, popover) | per-tab settings, tracked nodes, batches in flight | walk, extract, translate, apply, disable | results of an old document or language |
| **Subtitles** (`App.tsx`, `audioCapture.ts`, `translate.ts`, `whisperTranscribe.ts`, `ipc.ts`) | per-tab switch, capture, chunk pipeline, cached whisper status | switch, capture, transcribe, translate, push | the capture starts asynchronously while tabs change |
| **Other stores** (chat history, trust, proxy, users) | one list and one file each | synchronous edits | nothing interleaves |

What makes each correct:

- *Hub*: a client sees each message at most once and in order; it misses one
  only when the hub dropped it for a full channel or it aged out; fresh
  messages stay readable; a cursor never hides what is yet to come; the budget
  of streams does not leak.
- *Username registry*: a name has one owner for ever, over crashes, failed
  writes and colliding hashes (one with blanks around it, in each run of the server);
  a partial write costs at most one name.
- *Ops daemon*: no stray server; the record names what runs; a deploy ends; a
  fallback exists until the new build is proved healthy.
- *Metrics*: memory and disk hold what was counted, and a save is never undone.
- *Chat session*: nothing of another room is shown or sent; nothing is skipped;
  a connected session always has a way to its messages; one transport at a time.
- *Chat servers*: a token proves the identity it is stored with; the session is
  that of the tab's server.
- *Agent conversations*: a reply is the work of one attempt; what is settled is on
  disk; a deleted thread stays deleted; the panel ends up showing the store; Stop
  ends a turn of the thread it is for, never one of another.
- *Settings*: a secret that is stored is the last one typed for that very entry;
  what the form is filled with is what is stored; the file is what is in memory.
- *MCP*: a call reaches the server that offered the tool, each call gets its
  result, and the browser's own tools run for tokens that may use them.
- *Tabs, window*: what is shown is what the managers hold; the saved session is
  the open tabs; views are stacked and placed as the layout says; the panel rests
  where its flag says.
- *Permissions, downloads, bookmarks, history*: nobody waits for an answer that
  cannot come; what is on file is what happened; views catch up with the store.
- *Translation, subtitles*: a node shows its own text or a translation of it; a
  capture runs exactly while the switch is on.

## 2. The modules

| Module | Models | Instances, proofs |
|---|---|---|
| `Hub`, `RoomLog` | the hub and its handlers; what it promises | `MCHub`, `MCHubGC`; `HubProofs` |
| `OpsManager`, `UsernameRegistry`, `Metrics` | the daemon, the registry, the estimators | `MCService`, `MCUsernameRegistry`; `ServiceProofs` |
| `ChatSession`, `ChatServers`, `AgentTurns`, `SettingsForms`, `McpTools`, `McpServer` | conversations with people, agents and tools, and the settings they use | `MCConversations`, `MCChatSession`; `SessionProofs`, `ConversationProofs` |
| `Tabs`, `Window`, `Permissions`, `Downloads`, `Translation`, `Subtitles`, `Bookmarks`, `HistoryList` | the browser's own state | `MCBrowser`, `MCTranslation`; `BrowserProofs`, `StoreProofs`, `WindowProofs` |
| `Lists` | JavaScript's `filter`, in a form that proofs can unfold | `ListProofs` |

In every module an action is one critical section or one handler up to its next
`await`, with everything it calls. Texts, titles, addresses and names are model
values or members of small sets; what is remembered only to state a property
(`granted`, `counted`, `sent`, `ended`, ...) is marked as history where it is
declared.

### Hub, RoomLog

`Hub.tla` has one action per critical section of `hub.go`. Names (`Rooms`) and
objects (`RoomObjs`) are apart, so that a handler can hold an object that GC
removed from `table` (`h.rooms`).

| Code | Model |
|---|---|
| `Publish`: `ensureRoom`, then append, prune and fan out under `r.mu` | `PublishEnsureRoom`, `PublishLocked` (with `Pruned` and `FanOut`) |
| `Broadcast` over a snapshot of the names | `Broadcast`, then one `Publish` per name of `pubTodo` |
| `GC`: scan, then delete under `h.mu` and `r.mu` | `GCScan`, `GCSweep` |
| `/connect` | `Join`, `Lookup`, `ReadSeq` |
| `/poll` | `Poll`, `Lookup`, `ReadMessages` |
| `/events` | `Subscribe`, `SubscribeEnsureRoom`, `Register`, `Count`, `Lookup`, `ReadMessages`, `Receive`, `Disconnect`, `Release` |

`sort.Search` on timestamps that need not be sorted returns any index where the
predicate changes (`SearchIndex`): every such result is a behaviour. A client
keeps the highest seq it has seen, as PROTOCOL.md tells it to. `RoomLog.tla` is the
promise: messages are posted to rooms, and a client's view is an ascending
selection of its own room's. `ImplementsRoomLog` is the refinement.

### OpsManager, UsernameRegistry, Metrics

- `OpsManager`: one program counter for the daemon (`deployMu` serializes it),
  one state per server process (`starting`, `up`, `stopping`, `killed`, `gone`),
  the ports, the binaries and `state.json`. `Deploy`, `Resume` and `Bootstrap` are
  sequences of actions in the order of `manager.go`, each with its failure. A stop
  of the daemon takes its children with it (the systemd unit's KillMode).
- `UsernameRegistry`: `TryClaim` under the lock is `Claim` (Bloom filter and map),
  `Write`, `Sync`, `Commit`, each with its failure; `Stop` and `Start` are the
  process. The file is a sequence of lines, a line the sequence of pieces that
  ended up on it: a piece without its newline makes the next write continue the
  line. Names are model values with a key, a trimmed form and the bits they set; the
  handler and `TryClaim` take a name as it comes, and only `load` trims. A name has one
  line: what becomes of a line break in one is not modelled.
- `Metrics`: `CountItem` raises one register of one estimator; a save is
  `BeginSave`, `WriteTemporary`, `Rename` for one file and then the other, cut off
  by `RecorderSaveFails`, `Killed` or the end of `main` (`MainReturns`), which does
  not wait for it; `StartProcess` loads.

### ChatSession, ChatServers, AgentTurns, SettingsForms

- `ChatSession`: `m` holds the variables of `chatSession.ts`; `m.jobs` is everything
  that will call back, and `pollTimer`, `restartTimer` and `eventStream` hold the id
  of a job (`m.handles`). The functions of the source are operators from `m` to
  `m`, so that an action applies the whole chain of calls. The server is an ideal
  room log that may lose an answer, refuse a token and announce a restart. What is
  shown is a set (`buffered`): that each message is shown once and in order is a
  property of the hub (`InOrderOnce`). The microtask that sends the queue once a
  `/connect` was answered is a job like the others.
- `ChatServers`: the list and its default, each server's address, user and cached
  token, the active tab's override and page, the Settings field and the claims
  under way (`Claim`, then `ClaimGranted` or `ClaimFailed`), and `resyncChatSession`
  as part of every action that calls it.
- `AgentTurns`: the main process and the agent panel, with a FIFO pipe of IPC
  events each way. `Handle...` is a whole `ipcMain.on` handler at the head of
  `toMain`; `BeginTurn` is `runAgentTurn` to its first `await`, `ToolsListed` the
  await on the tools and `ToolsRejected` its rejection, which no `try` catches
  (`ipc.ts:1023`): such a turn stays on the books as `lost`, nothing is finalized and the
  panel is told nothing. `Chunk`, `CallTool`, `ToolAnswered`, `Done`, `Stopped`,
  `Fails` are the adapter's loop (a chunk may come after the abort, as it does from
  `ollama.ts:60` and `150`), `End` the `try`/`catch`/`finally`; `Deliver` and
  `Render` are the panel's. Texts are the sequence of turns that wrote their
  chunks, so that a reply mixed from two attempts is told from one.
- `SettingsForms`: one section at a time, agents' or MCP servers', which have the
  same form of life: the store and its file in the main process, the two streams of
  messages, the section's list, the row whose Edit was clicked, the fields, and the
  test. A secret remembers the entry it was typed for, so that one that ends at
  another entry is seen. A save can fail (`Stores`); `Relaunch` loads the file. The
  servers an installation starts with stand as one, and an exception of
  `safeStorage.encryptString`, before anything is changed, is left out.

### McpTools, McpServer

- `McpTools`: settings with a version each, `connections` with the version they
  were made of, `connecting` for the promises under way (two turns may connect to
  one server at once), `aliases` in the order they were given out, and the loop
  the four adapters share: `GetTools`, the connects (`McpConnectOk`,
  `McpConnectFailed`), `ToolsReady`, then per round the model's answer (`AnswerCalls`,
  `EndTurn`), its calls one after the other (`Call`), and `EndRound`. A server whose
  settings yield no transport throws out of the whole list (`"lost"`).
- `McpServer`: `SetEnabled` and `Bound` are the asynchronous start and stop of the
  listener (`listening` keeps every socket, `httpServer` the one the code
  knows); a request is a flight: arrival with its token's scopes, the check of
  its session, the tool. `revoked` is history: whether the token had been revoked
  when the request arrived.

### Tabs, Window

- `Tabs`: `tm` is `TabManager`, `told` what the callbacks of `index.ts` last told the
  window, the renderers and the session, `engine` Chromium: the document each
  tab shows and the one it is on its way to. An action is one call or one
  `webContents` event with all callbacks it triggers. `disk` is `session.json` with the
  pending save and its timer; `Quit`, `Crash` and `Start` bracket a run of the
  application.
- `Window`: `wm` are the fields of `WindowManager` with the views from bottom to
  top and the bounds it last set on each; `slides` the timers of `setChatOpen`'s
  animation with their tokens; `ui` what the chrome and chat renderers have open,
  and `mail` their calls on the way. `ComputeLayout` is `layout.ts` in units of the
  instance.

### Permissions, Downloads, Bookmarks, HistoryList

- `Permissions`: `RequestPermission` decides from the remembered decisions or
  adds to `pending` and sends a prompt; the chrome shows the first of `queue`;
  `Allow`, `Block` and `Dismiss` send an answer, `Resolve` is the handler that meets
  it. Settings (`Flip`, `ResetOrigin`) changes decisions meanwhile.
- `Downloads`: Electron's items, `records` (newest first) and `persisted` (oldest
  first), which share their entries' states as the code's objects are shared;
  `Restart` loads what is on file, `RestartUnreadable` nothing, since a file that does
  not parse loads as an empty list (`downloadStore.ts:28-36`).
- `Bookmarks`: the store, the two streams of messages, the chrome's copies, and the
  popover's `pendingFolderName`. A folder is deleted with all that is under its
  id, also when the folder is gone and a late command made others under it
  (`bookmarkStore.ts:144-161`). Import creates folders and marks in the order of
  the file; the agents' tools call the store directly.
- `HistoryList`: visits with the cap, and the section's query, rows and spinner with
  its requests and answers on their way.

### Translation, Subtitles

- `Translation`: per tab the settings in main, the document with its tracked nodes
  and observers, extracted batches on their way, requests to the translator under
  way, and the popover's button. Texts carry the languages they went through, so
  that a translation of a translation is seen.
- `Subtitles`: the switch travels to main (`asks`) and back (`tells`); `attempts`
  are the calls of `startAudioCapture` with the settings they closed over and
  whether their effect was cleaned up; a chunk goes through whisper's cached
  status, transcription, translation and the caption, an await each. `SwitchTo` (another tab)
  and `Navigate` (another page of the active one) clear the caption.

## 3. The runs

Components that share no state are checked in one run: `service`, `conversations`
and `browser` pick in their initial states which component is at work (`focus`), and
the others stay as they start. A behaviour of such a run is a behaviour of one
component, and the run's states are the sum of the components', not their product.

Passing runs:

| Run | Instance | Shows |
|---|---|---|
| `hub_stream` | 1 room, 1 object, 2 publishers, 1 client, buffer 2, channel 1, 3 sends, TTL 2, clock to 3 | `TypeOK`; the buffer is the tail of what was published and keeps what is fresh (`BufferKept`); `InOrderOnce`; `NoSilentGap`; `LiveComplete` |
| `hub_gc` | `MCHubGC`: 1 room, 2 objects, clock to 3, a budget of 1 stream, 1 client with 2 sends, or 2 clients with either the second object or 1 send: a room is collected and created again, the clients race for the place | `CursorBehindRoom`, `SubscriptionLedger`, `ImplementsRoomLog` |
| `hub_fair` | 1 room, 1 object, 2 clients of whom 1 reads, 2 sends, clock to 1; the reader's handler is fair, the other's may stop anywhere | `StreamDelivers` |
| `service` | daemon: 3 versions (deployed again at will), 3 process slots, 2 deploys, one fault of each kind, fair; registry: 2 spellings of a name and the same name behind a blank, so 2 keys, that share bits, 2 callers, 4 calls, 2 stops, a failed `Sync`, a partial write; metrics: 3 items, two of them in one register, 2 starts | `NoStrays`, `RecordAndFallback`, `AdoptsResponder`, `DeployEnds`; `GrantedOnce`, `TornCostsOne`; `EstimatorsExact`, `SavedStays` |
| `conversations` | session: 2 targets, 2 syncs, a post, a notice, a text, 2 faults; agents: 2 threads, 5 events; servers: 2 configurations, addresses, names and pages, 6 things done; settings: 2 entries, one of an earlier run, 2 secrets and labels, 6 things done, a failed save, a restart; tools: 2 servers (one built in), 2 turns, 2 rounds, 2 calls, 2 edits; MCP server: a token beside the internal one, 2 tools of different scopes, 2 requests in flight, 2 uses of the switch | `RoomsKeptApart`, `NoGap`, `JobsFitState`; `OneAttempt`, `SettledSaved`, `NoGhosts`, `PanelAgrees`, `RegistryLive`; `ServersSound`; `CredentialsSound`; `ToolCallsSound`; `OnlyEntitled` |
| `browser` | tabs: 3 ids, 3 events; window: 2 sizes, 2 pages, slides of 2 frames, 2 popovers, a dialog, 4 requests; permissions: 3 requests, 3 clicks; downloads: 3, with 4 events, a restart and an unreadable file among them; translation: 2 tabs, 2 languages, a page that says one thing twice, 4 steps; subtitles: 2 tabs, 2 engines, 4 steps; bookmarks: 2 pages, a nested import, 4 steps; history: 2 sites, 2 queries, pages of one row, 6 steps | `TabsSound`; `WindowSound`; `PromptsMatchPending`; `DownloadsKept`; `TextsTraceable`; `CaptureFollowsSwitch`; `BookmarksSound`; `ListAnswersQuery` |

Each of the last three also checks the types of its components in one invariant
(`ServiceTypeOK`, `ConversationsTypeOK`, `BrowserTypeOK`). Several properties are
conjunctions of named parts (`TabsSound` of `PushedStateCurrent` and `SessionSaved`,
`WindowSound` of `ViewsInPlace`, `OverlaysHaveRoom` and `PanelAtRest`, `ServersSound`,
`ToolCallsSound`, `RecordAndFallback`, `BufferKept`, `RoomsKeptApart`, `JobsFitState` of
`ConnectAlone` and `NeverDeaf`, `CredentialsSound` of `SecretsKept`, `HostedKeyed`,
`SectionCurrent`, `TestAnswered` and `FileCurrent`); TLC's trace says which part fails.

Runs that are expected to end in a violation: each states what a comment or
PROTOCOL.md says and shows a behaviour of the code that contradicts it.

| Run | Refuted | In short |
|---|---|---|
| `hub_orphan_subscriber` | `SubscribersKeepRoom` | GC between `ensureRoom` and the registration orphans the subscriber |
| `ops_rollback` | `RolledBackServes` | the rollback does not wait for the killed build to free the ports |
| `username_padded` | `TokensHonoured` | a padded name is trimmed on load and its token refused |
| `chat_two_transports` | `OneTransport` | a restart notice in a poll's answer leaves the poll armed beside the stream |
| `mcp_bad_url` | `ServersNeverBlock` | one server with an unusable URL or command makes every message to an agent fail before its turn |
| `translate_stuck` | `ButtonSettles` | switching to a tab that is translated already leaves the button at "Translating..." |

### Bounds, and why they are enough

Every counter is bounded in a guard by a named constant, and `hub_gc` once more by a
state constraint, so that what a run explores is complete within them.

- *Hub*: three sends overflow a buffer of two and a channel of one; a clock past
  `TTL` ages messages out, one past `2 * TTL` (3, with `TTL = 1`) lets GC run and
  the room come back. One client is enough for what concerns one stream, two for the
  budget. `RoomObjs` bounds how often a room is created. The refinement is checked
  where GC and re-creation happen, with one room: that two rooms stay apart in it is
  proved (`HubImplementsRoomLog`), for any rooms. The constraint `FewCalls` of
  `MCHubGC` leaves one client with two messages, before and after the re-creation,
  or two clients with either the re-creation or a message: the race for the place
  needs two, and messages of both objects one. In `hub_fair` a channel of two holds
  a message the catch-up has shown already before a new one, and the client that
  does not read keeps its slot, its channel filling up, while the other is served;
  the clock is not part of the question. `Burst` and `MaxDelay` describe the
  environment: `HubAssumption` says that a room does not publish, on average, more
  than a message a millisecond for as long as GC waits.
- *Ops*: two deploys give one over another, one after a failure and one over a
  rollback; three slots hold the old, the new and a lingering process.
- *Username*: two keys sharing a bit are a false positive of the filter; two
  stops separate what was on disk from what was loaded; four calls are a claim,
  its rival, and a claim after each restart.
- *Metrics*: two items in one register, the lower counted after the higher; a
  second start loads what a cut-off save left.
- *Chat session*: two syncs replace a session once, in every phase; one post, one
  typed text, one notice at any moment, and two faults, an error and a 401 in
  either order. `MaxJobs` is how many callbacks may be pending; `SessionTypeOK`
  confirms that there are never more.
- *Agent conversations*: `AgentLimit` says how often each of four kinds of event may
  happen, `Total` (5) how many of them altogether: enough for two
  threads with a turn in each; to fail, retry and stream again within one; or to
  leave a conversation, delete it and come back while its turn runs.
- *Chat servers*: six things done are two servers added, one claimed on, edited,
  removed and added again while the claim is under way.
- *Settings*: six things done are an entry edited twice and removed while answers to
  the first edit are on their way; or a form opened, filled, left for another row and
  sent. One failed save and one restart put every step before and after both.
- *MCP*: two turns connect to one server at once and call in the same round while
  it is edited and removed; two requests in flight and two uses of the switch overlap a
  revocation with a request, and a stop with a start.
- *Tabs*: three events (a page that fails, crashes, redirects or is steered
  away; a tab closed or reopened) beside navigation steps, which are not bounded;
  three tab ids make the closed-tab stack of one overflow.
- *Window*: two sizes are one where a popover has to be cut and one where it fits;
  four requests open, close and reopen the panel across a tab switch or fullscreen.
- *The rest*: the steps are the fewest with which every action fires and every pair of
  them overlaps; a page with the same text twice separates nodes from texts, a page
  size of one makes every list page.

Symmetry is used for objects, clients, callers, targets and threads, in runs of
invariants and of the step-by-step refinement of `hub_gc`, never with liveness; none of
these is compared or given a role of its own there. Deadlock is checked for the hub,
whose clients never stop for good within the instance. The other runs say `CHECK_DEADLOCK FALSE`: once their bounded
inputs are used up, an idle daemon, server, session or panel has nothing to do.

### Fairness

- `hub_fair`: weak fairness of the steps of the handlers whose clients go on reading
  (`Readers`): the Go scheduler runs every goroutine, each critical section is short,
  and a write to a client that reads returns. A write to one that does not may block
  for ever, since the server sets no `WriteTimeout` (`cmd/server/main.go:99`), so its
  handler has no fairness at all, at this or any other step. Nothing is assumed of
  publishers, clients or GC. What is shown is that a client that reads is served
  whatever becomes of the others' handlers. That a publisher drops what does not fit
  a full channel, and does not wait, is in `FanOut`, and is at work in `hub_stream`.
- `service`, with the daemon at work: weak fairness of the daemon, and of the exit
  of a process that was sent SIGKILL. A process that was sent SIGTERM may ignore it for
  ever, and a build may never become healthy: the timeouts are steps of the daemon.

Every other specification is of safety and assumes no fairness. `Window` also defines
`Fairness` (timers fire, messages arrive) and `PanelSettles`: with one size and three
requests TLC finds that under it every slide of the panel ends.

## 4. The proofs

Eight modules hold theorems: `HubProofs` about `Hub`; `ServiceProofs` about
`OpsManager`, `Metrics` and `UsernameRegistry` and their composition in `MCService`; `SessionProofs` about `ChatSession`,
`McpTools` and `McpServer`; `ConversationProofs` about `ChatServers`, `SettingsForms`
and `AgentTurns`; `BrowserProofs` about `Permissions`, `Subtitles` and `Translation`;
`StoreProofs` about `HistoryList`, `Downloads` and `Bookmarks`; `WindowProofs` about
`Window` and `Tabs`; and `ListProofs`, the lemmas about lists that the last two rest on.
tlapm checks them for all values of the constants that satisfy the modules' named
assumptions, which TLC evaluates on the runs of these modules.

| Theorem | States | Inductive invariant, and why it is needed |
|---|---|---|
| `HubProofs!TypeCorrect` | `TypeOK` | `Typed`: types, and `Ownership`: a pointer past a nil check leads to an object made for its room |
| `HubProofs!SeenInOrderOnce` | `InOrderOnce` | `InOrderInv`: the buffers ascend (`BuffersAscend`), so that a batch, cut where the search says, lies beyond the cursor in order; a live event that does not lie beyond it is skipped by `AlreadySent`, so nothing need be said of the channels |
| `HubProofs!CursorNeverAhead` | `CursorBehindRoom` | `CursorInv`: a cursor is at most the sequence of its object, a sequence outruns the clock by no more than `Burst`, and a collected room was idle for `2 * TTL`, so the seed of the next object is not below it |
| `HubProofs!LedgerBalanced` | `SubscriptionLedger` | `LedgerInv`: the count is the number of handlers between `Count` and `Release`, each of them in the map of the object it registered with |
| `HubProofs!NothingSkipped`, `NothingStranded` | `NoSilentGap`, `LiveComplete` | `GapInv`: a stream that did not stray reads the object it is registered with (`StreamsReadARoom`), its channel ascends (`ChannelsAscend`), and what is logged beyond its cursor waits there or was missed (`Complete`); so receiving an event, which moves the cursor to it, passes over nothing |
| `HubProofs!PruningKeepsTheFresh` | `BufferKept` | `TailInv`: timestamps do not ascend along a log, but one is never more than `MaxDelay` above a later one (`Stamped`), since a message is published at most that long after its timestamp; so what lies before the index the search stops at is nearly as old as what lies there |
| `HubProofs!HubImplementsRoomLog` | `ImplementsRoomLog` | `LogInv`: what buffers and channels hold was posted to the room of the object (`BuffersLogged`, `ChannelsLogged`), and so was what each client has seen (`ViewsPosted`); with `InOrderOnce` every action is a `Post`, a `Show`, a `Reconnect` or a stutter, for any number of rooms |
| `ServiceProofs!NoProcessLeftBehind` | `NoStrays` | `OpsInv`: at each point of a deploy, which process is the old one, which the new one, and what has become of each (`OldFirst`, `NewRuns`) |
| `ServiceProofs!FallbackAndRecord` | `RecordAndFallback` | `OpsInv`: from where to where the record may lag (`RecordFollows`), and whose binaries are on disk (`OwnFiles`) |
| `ServiceProofs!AnswerIsTheNewBuilds` | `AdoptsResponder` | `OpsInv`: the old process is gone before the new one is asked, so only the new one can have answered |
| `ServiceProofs!CountsAreExact` | `EstimatorsExact` | `MetricsInv`: each array of registers is that of a set of items (`IsRegister`), in memory (`MemoryExact`) and in each file (`FilesExact`); a save writes the memory as it is, since it holds the mutex (`CopyCurrent`) |
| `ServiceProofs!SavesNeverLose` | `SavedStays`, an action property | the same invariant: what a rename puts in place is at least what was counted when the last one was |
| `BrowserProofs!NobodyLeftHanging` | `PromptsMatchPending` | `PermInv`: along the line from the chrome's answers over its queue to the prompts still on their way, the ids ascend and are exactly the pending ones (`LineSound`) |
| `BrowserProofs!CaptureFollows` | `CaptureFollowsSwitch` | `SubInv`: the last settings on their way to the chrome are the active tab's (`ChromeIsTold`); the only start that can become the capture is the running effect's own, while there is no capture (`OneCapture`), so a start that was given up ends itself; and a switch that is on is captured, about to be, or about to be switched (`Wanted`, `Served`) |
| `SessionProofs!ToolsOnlyForEntitled` | `OnlyEntitled` | `FlightsSound`: what each request under way was found to carry, and what the session it uses was opened with |
| `SessionProofs!CallsAreSound` | `ToolCallsSound` | `NamesKept`: an alias once given out keeps its meaning; `ResultsInOrder`: results answer the calls made so far; `ConnectsCurrent`: a connect under way is of the present settings unless its server was edited since |
| `SessionProofs!RoomsStayApart` | `RoomsKeptApart` | `SessionInv`: a callback of the present generation is about the session's room, and what is queued or shown is of that room (`JobFits`, `Fits`); a callback of an older generation does nothing |
| `SessionProofs!NothingMissed` | `NoGap` | `SessionInv`: everything up to the cursor was shown, and everything up to the position from which any request or stream of this session was begun (`ShownUpTo`), so an answer that moves the cursor closes the distance, whichever transport asked for it |
| `SessionProofs!AlwaysAtWork` | `JobsFitState` | `SessionInv`: before `/connect` is answered there is no other current callback, and after it there is one that leads on (`Awake`) unless the token was refused and none is cached |
| `ConversationProofs!ServersStaySound` | `ServersSound` | `ServersInv`: an id that is listed, claimed on or shown was given out before, so a new server never takes it (`IdsSpent`); the session is the one of the tab's server, page and name (`SessionFits`); a claim under way whose server was neither edited nor removed since is of its present address (`NotOvertaken`), so that the token it brings proves what it is stored with |
| `ConversationProofs!CredentialsStaySound` | `CredentialsSound` | `FormsInv`: what the form and every message on its way hold was typed for the entry it names (`FormFits`, `RequestsFit`); the last secret a request on its way supplies, or else the stored one, is the last one typed (`SecretsFollow`); the last list on its way, or else the one shown, is the store's (`ListFollows`); the row being edited is what is stored unless it was behind when clicked, and no change of it is on its way (`EditedRowCurrent`) |
| `ConversationProofs!RepliesHaveOneAuthor` | `OneAttempt` | `AgentInv`: message ids are unique over all threads and given out once (`StoreSound`), a message a turn works on is in its thread, has not failed, and holds that turn's chunks only (`TurnsFit`); only a failed reply is retried, so nobody works on it, and it is blanked first |
| `ConversationProofs!NoGhostsAppear` | `NoGhosts` | `StoreSound`, of the store and of the file: the threads that are listed, each once, are those that have messages, which no step of a turn changes |
| `ConversationProofs!RegistryStaysLive` | `RegistryLive` | `Registered`, with `TurnsSound`: ids of turns are not used again, and the end of a turn drops the entry of its thread, which is the only one that can be its own; a turn is registered only once its tools are there, so a lost one never is |
| `ConversationProofs!SettledIsOnDisk` | `SettledSaved` | `Settled`: the file differs from the store only in messages a turn is writing, one that streams or calls a tool; each of `addMessage`, `finalizeMessage`, deletion and a crash makes them equal |
| `ConversationProofs!PanelShowsStore` | `PanelAgrees` | `PanelInv`, with `AgentInv`: from some event under way on, every event of the agents, or of the threads, brings the present value, or none is under way and it is shown or asked for (`Arrives`); what is shown of the open thread, or the last answer under way, changed by the events behind it one by one, is the thread's messages, or they are asked for (`ShownFollows`); and whatever reply is or will be shown as streaming has a turn, which may be a lost one, or an event behind it that ends it (`StreamingServed`, `StartsServed`) |
| `ServiceProofs!NamesGrantedOnce` | `GrantedOnce` | `GrantInv`: the lock (`Locked`), the filter has the bits of every claimed key (`Filtered`), and `Counted`: how often a key without blanks around it was granted, plus the torn pieces its file may still hide, is at most one more than the torn writes. For the others, whose line is read back as another name, `OncePerRun`: the map has a key from its grant to the next stop |
| `ServiceProofs!TornWritesCostOne` | `TornCostsOne` | `GrantInv`: `LostFew`: the keys whose line, as `load` reads it, is not in the file, and the line left open at the end of the file are no more than the torn writes; `ClaimCounted`: the claim under way |
| `BrowserProofs!TextsStayTraceable` | `TextsTraceable` | `TrInv`: a node that is not tracked shows its own text, what is tracked is that text (`NodesFit`), the cache leads from a text to a translation of it only (`CacheFits`), and without an observer no walk is due (`ObserversFit`); so whatever an old answer puts into the cache, a walk finds for each node its own text's translation |
| `StoreProofs!ListAnswersQueryAlways` | `ListAnswersQuery` | `HistInv`: every answer on its way matches the query it names, and while the list loads a request or an answer for its present query is under way (`Pending`), whatever was asked before |
| `StoreProofs!DownloadsKeptAlways` | `DownloadsKept` | `DlInv`: nothing is listed or kept twice, what ended is not live and is on the lists only in the state it ended in (`Settled`, `Accounted`), so that a record shared with a live item cannot change what is on file; a file that does not parse empties both lists |
| `StoreProofs!BookmarksStaySound` | `BookmarksSound` | `BmInv`: the store (`StoreFits`: ids given out before, one mark per page, marks in folders that exist), and the last push of each kind under way, or else what chrome shows, is the store's (`Arrives`); a subtree is deleted whole, also that of a folder that is gone, and an import adds folders under folders it has added |
| `WindowProofs!WindowStaysSound` | `WindowSound` | `PlaceInv`: a cached bound is the view's bound or forgotten (`Cached`), so relayout, which moves only what differs from the cache, leaves every shown view in place; the page is under the chrome and the captions on the stack (`Over`). `RoomInv`: the last message of each kind under way, or else the flag, is what the renderer shows (`Coming`), and one message at most closes the find bar. `PanelInv`: one slide has the present token, and leads where `chatOpen` says |
| `WindowProofs!TabsStaySound` | `TabsSound` | `TabsInv`: the bar lists exactly the tabs there are, whose ids were given out before (`Listed`), each tab has an engine, and an engine on its way has started toward an address (`EnginesFit`); what was told is current but for a room hidden by an error page (`ToldFits`), and the file is what was told unless a save is due (`DiskFits`). A handler may leave out a callback if what it would pass on is as before (`Skips`): that is what each handler is checked for |

The types of the other modules are proved on the way (`OpsTypes`, `RecorderTypes`,
`PermissionTypes`, `McpServerTypes`, `McpToolsTypes`, `RegistryTypesKept`, `AgentTypes`,
and the first conjuncts of `SessionInv`, `ServersInv` and `FormsInv`). `AgentTypes` needs
an invariant of its own, `AgentTyped`: what the panel is told is typed while it is still
under way, and a text holds chunks of turns that have begun, in the file as in memory.
`ServiceProofs!ServiceTypes` carries those of the service over to `MCService`, where the
three parts stand side by side: a step of one is a step or a stutter of each.

None of the properties is inductive by itself: `InOrderOnce` says nothing of
the buffers a read takes from, `NoSilentGap` nothing of what is still in a channel,
`NoStrays` nothing of which process the next step will
kill, `EstimatorsExact` nothing of a file half written, `GrantedOnce` nothing of what
the next `Start` will find in the file, `NoGap` nothing of the answers on their way,
`OneAttempt` nothing of whether a message that is retried still has a writer. Each strengthening is a conjunction of
named parts, and its step lemma has one step per action.

Assumptions beyond the types of the constants: `HubAssumption` bounds how far a
room may run ahead of the clock (section 3). The theorems of `ServiceProofs` on names
assume nothing of trimming: a name whose key it changes is counted apart in
`GrantedOnce` (`Plain`), and is on record in `TornCostsOne` as what `load` makes of it
(`Recorded`); `username_padded` shows what this costs its owner. `ChatServersAssumption`
and `SettingsAssumption` say that "no server", "no name" and "no id" are none of the servers, names and ids,
and that something can be typed into a field. `WindowAssumption`: a window has an
area (`windowManager.ts:103-104` gives it a least size) and a tab to show.
`ClosedTabsAssumption`: the limit of the stack of closed tabs is a number
(`tabManager.ts:43`).

Lists and recursion. The library's induction theorems cannot be instantiated here
(they take an operator), but induction over a set of numbers can be had from the
well-foundedness of `<` on `Nat` (`ListProofs!SetInduction`), and a recursive
function over `0..n` exists by that induction (`LoopExists`). So what a loop over a
list computes is proved for every length: what `filter` keeps, in which order
(`FilterPicks`, `FilterSelects`), and what the two loops of the bookmarks' import
leave. Where an invariant would fold a function over a queue, it says instead that
a run of it exists (`Follows` in `ConversationProofs`: one value per place of the queue,
each the last one changed by the event there), and a step of the queue extends or
shortens the run. `SelectSeq` of the standard modules is opaque to the provers; models whose
proofs need a filter use `Filtered` of `Lists`.

Only model-checked, and why:

- `StreamDelivers` and `DeployEnds`: fairness and ENABLED are out of the prover's reach.
- `ConversationsTypeOK`: with the types it says that no more than `MaxJobs` callbacks
  of the chat session pile up. No guard enforces that: it holds for the limits of
  the run and not for every `MaxJobs`, so it is no theorem. The types themselves are
  proved part by part, as said above.
- `BrowserTypeOK`: the conjunction of the types of eight parts of the browser. Those
  the properties rest on are in the inductive invariants above; the rest of it, the
  counts of steps among them, TLC checks.

## 5. What is not modelled, and what else was seen

Not modelled:

- A restart of the chat server empties the hub: cursors then refer to a hub that
  no longer exists. `ChatSession` has the restart as its notice and its recovery.
- The 400 ms the restart notice is given, back-off curves, heartbeats and request
  timeouts as durations: a timer fires at any moment.
- JWTs: a token is what it proves. The HyperLogLog estimate: floating point. Signal
  processing and the whisper subprocess: external.
- The buffer cap of the chat panel (`MAX_BUFFERED_MESSAGES`): what it drops are the
  oldest messages shown.
- Agents: the history sent to a model, the "Working" status, titles, screenshots,
  attachments, the adapters' encodings; exceptions of the file system and of
  `decryptKey`; a stop of the application between two writes of one handler.
- Titles, labels, colours, file names, times; zoom, find in page, context menus;
  the parsing of an imported bookmarks file.
- The stores of chat history, users, domain trust and the proxy: one file each, read
  and written whole by synchronous handlers, so that no two steps can interleave.
- Rendering, the website, generated code, scripts, the command line client.

Reading the code for the models showed more places where it and its comments part.
Some of them are stated as properties beside the checked ones and refuted by TLC on
the module by itself; no run repeats it:

- `Metrics!ShutdownSaves` (`main.go:48-51`, a graceful shutdown "always saves once
  more"): `main` returns without waiting for the recorder's goroutine, and does not
  save at all when a listener fails.
- `Subtitles!CaptureOfActiveTab` (`App.tsx:183-187`): switching between two tabs whose
  switches are on keeps the capture of the first.
- `ChatServers!SessionFollowsSettings` (`ipc.ts:1093-1101`): the session's key
  (`chatSession.ts:216-217`) lacks the address, so an edit of it alone does not
  reconnect.
- `Tabs!ErrorPagesUnrecorded` (`tabManager.ts:441-443`): a title of an error page can
  reach the history through a navigation that is under way.
- `Downloads!ListIsPersistedPlusLive` (`downloadStore.ts:39-40`): an interrupted download
  that was cleared ends on file and not in the list.
- `Window!DetachedStaysDetached` (`windowManager.ts:321`): raising the overlays attaches
  a view that was detached.
- `AgentTurns!StreamingHasTurn` (`ipc.ts:1020-1022`, a server that is misconfigured
  contributes "no tools this turn rather than failing the whole send"): the turn of
  which `mcp_bad_url` shows the rejection is lost, its reply stays empty, and the panel
  goes on showing it as streaming, with no turn behind it that would end it. Stop does
  nothing then; leaving the conversation and opening it again shows it as it is stored.
- `AgentTurns!NewThreadSelected` (`AgentPanel.tsx:14-16`): a list that was on its way
  opens an old thread in place of the new one.

Others are read off the code and the models' behaviours:

- `hub.go:78`: the window of `hub_orphan_subscriber` exists in `Publish` too; an
  accepted message is appended to an object GC has removed.
- `hub.go:108` with `PROTOCOL.md:323-329`: after a message was dropped and a later
  one delivered, the highest seq seen is past the gap, and `/poll` with it does not
  return the dropped message.
- `manager.go:203-210`: the previous binary is removed before the new record is
  saved; if the save fails and the daemon restarts, it resumes from a record whose
  binary is gone. `saveState` writes in place (146): a stop in between leaves a
  file that does not parse, and Bootstrap's version wins.
- `manager.go:193-197`: a launch error comes after the old server has stopped, and
  nothing is started in its place.
- `registry.go:126`: a claim whose `Sync` failed is answered with an error, "in
  which case the name was not claimed" (109), but its line may be in the file and
  is loaded after a restart. A partial line (123) merges with the next one.
- `chatSession.ts:465-467`: the `finally` of a superseded poll clears `pollInFlight`
  while the current session's poll runs; a send then arms a second one.
- `chatSession.ts:386-391`: `attemptRestartReconnect` does not check the generation
  after its `await`; a late failed ping of a replaced session arms the restart timer
  of the new one, whose texts are then queued although its server is up. While a
  ping is pending `restartTimer` is null (381), and a text typed then is sent to the
  restarting server and rejected, not queued.
- `chatSession.ts:238`: the token of a superseded `/connect` is dropped, with the
  name it claimed.
- `ipc.ts:1020-1026`: a Stop during the wait for the tools finds no controller and
  is lost; two turns of one thread (a retry beside a message) share an entry, so the
  second's controller replaces the first's, and the end of either drops it. A Stop
  does not stop the tool calls of the round.
- `ipc.ts:949-951`: a reply that was stopped before its first chunk stays in the
  thread as an empty assistant message, and is sent along as history.
- `ipc.ts:966-969`: "the same history that was visible at the time": a message that
  had failed then and was retried since is part of the history of a later retry.
- MCP client: two turns that connect to one server at once leave one client open
  and unreferenced; a connect that ends after its server was edited caches the old
  client; the built-in server's client is dead after the switch went off and on.
- Built-in server: two quick uses of the switch can leave a listener nobody
  knows, and Settings showing "on" while the preference is off.
- Chat servers: the username field is not keyed by the server, so its spinner
  stays when another server is opened; a second claim overwrites the token while
  the name stays; a tab's override may point at a removed server.
- Translation: an observer left from an earlier pass goes on translating after
  the switch went off; an answer in the old language may come last and win; the
  status of another tab's batch is pushed to the active one.
- Subtitles: a chunk in flight sets the last transcript again after the switch
  went off (`ipc.ts:396-399`), and its caption may come after a tab switch or a
  navigation, and be drawn over another tab or page (`ipc.ts:541` reads the settings
  once, several awaits before the push); the failure of a cancelled start switches off
  the tab that is active by then; an older detection of whisper that ends later caches
  its stale status.
- Bookmarks: a folder may be created under one that was deleted meanwhile; two
  clicks on the star add and remove. History: new visits shift the offsets, so that
  a page repeats a row, and an answer after "Clear" brings rows back.
- On macOS, `activate` registers the IPC handlers a second time.

## 6. What could come next

- A composition of `Hub`, a restart of the server and the cursors of `ChatSession`.
- The titles and times of history and bookmarks, and zoom and find in page.
