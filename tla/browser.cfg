SPECIFICATION BrowserSpec
CONSTANTS
  TabSites = {"a"}
  Servers = {"s"}
  MaxClosedTabs = 1
  MaxEntries = 1
  TabIds = {1, 2, 3}
  Events = 3
  Sizes <- TwoSizes
  PageViews = {p1, p2}
  Frames = 2
  Popovers = {bookmark, subtitle}
  Overlays = {settings}
  Requests = 4
  Origins = {o1}
  Asks = 3
  Clicks = 3
  Downloads = 3
  Steps = 4
  PageTabs = {"a", "b"}
  Documents <- EchoPage
  Languages = {"fr", "de"}
  TrSteps = 4
  SubTabs = {"a", "b"}
  Engines = {"whisper", "agent"}
  HistoryMax = 1
  SubSteps = 4
  Urls = {"u", "v"}
  Names = {"n"}
  Exports <- NestedExport
  BmSteps = 4
  Sites = {"u", "v"}
  Queries = {{"u"}, {"u", "v"}}
  MaxVisits = 3
  PageSize = 1
  HlSteps = 6
CHECK_DEADLOCK FALSE
INVARIANT BrowserTypeOK
INVARIANT TabsSound
INVARIANT WindowSound
INVARIANT PromptsMatchPending
INVARIANT DownloadsKept
INVARIANT TextsTraceable
INVARIANT CaptureFollowsSwitch
INVARIANT BookmarksSound
INVARIANT ListAnswersQuery
