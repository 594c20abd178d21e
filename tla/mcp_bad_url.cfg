SPECIFICATION McpSpec
CONSTANTS
  Servers = {own, m1}
  Builtin = own
  Turns = {n1}
  Rounds = 2
  Calls = 1
  Asked = 1
  Edits = 1
CHECK_DEADLOCK FALSE
INVARIANT ServersNeverBlock
