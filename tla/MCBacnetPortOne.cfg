SPECIFICATION BacnetSpec
CONSTANTS
  command = command
  trend = trend
  once = once
  agent = agent
  byHand = byHand
  Threads = {command, trend, once}
  Processes = {agent, byHand}
  ProcOf <- MCProcOf
  Does <- MCDoes
  NoThread = NoThread
  MaxCrashes = 1
  b1 = b1
  b2 = b2
  b3 = b3
  Objects = {b1, b2, b3}
  Requests <- MCRequests
  Lists <- MCLists
  BatchSize = 2
  BlockSize = 2
  Limit = 3
  NameLimit = 2
  Nothing = Nothing
  Records = 2
  MaxFailures = 2
  MaxChanges = 1
INVARIANTS
  OneCommandAtATime
