SPECIFICATION ConversationsSpec
CONSTANTS
  Targets = {g1, g2}
  NoTarget = NoTarget
  Limit <- Limits
  MaxJobs = 6
  Syncs = 2
  Texts = 1
  Notices = 1
  Faults = 2
  Threads = {t1, t2}
  NoThread = NoThread
  Agents = {a}
  AgentOf <- SoleAgent
  AgentLimit <- AgentLimits
  Asks = 2
  Opens = 2
  Disturbances = 1
  Deltas = 2
  Total = 5
  Configs = {s1, s2}
  BaseUrls = {"u", "v"}
  UserNames = {"ann", "bea"}
  Rooms = {"p", "q"}
  NoConfig = NoConfig
  Works = 6
  Servers = {own, m1}
  Builtin = own
  Turns = {n1, n2}
  Rounds = 2
  Calls = 2
  Asked = 2
  Edits = 2
  Tokens = {k1}
  Internal = Internal
  Tools = {"list_tabs", "open_tab"}
  Flights = {1, 2}
  Switches = 2
  Requests = 2
  Entries = {"a1", "a2"}
  NullId = "none"
  Labels = {"x", "y"}
  Secrets = {"s", "t"}
  OnFile = {"a1"}
  UserSteps = 6
  SaveErrors = 1
  Relaunches = 1
CHECK_DEADLOCK FALSE
SYMMETRY ThreadSymmetry
INVARIANT ConversationsTypeOK
INVARIANT RoomsKeptApart
INVARIANT NoGap
INVARIANT JobsFitState
INVARIANT OneAttempt
INVARIANT SettledSaved
INVARIANT NoGhosts
INVARIANT PanelAgrees
INVARIANT RegistryLive
INVARIANT ServersSound
INVARIANT ToolCallsSound
INVARIANT OnlyEntitled
INVARIANT CredentialsSound
