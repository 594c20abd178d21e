SPECIFICATION TrSpec
CONSTANTS
  PageTabs = {"a", "b"}
  Documents <- OneLine
  Languages = {"fr"}
  TrSteps = 4
CHECK_DEADLOCK FALSE
INVARIANT ButtonSettles
