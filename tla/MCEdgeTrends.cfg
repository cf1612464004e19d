SPECIFICATION FairSpec
CONSTANTS
  agent = agent
  once = once
  Groups = {1, 2}
  Sizes <- MCSizes
  Interval <- MCInterval
  Budget = 2
  Samplers = {agent, once}
  Loops = {agent}
  Nobody = Nobody
  MaxCycle = 1
  MaxFaults = 1
  MaxByHand = 1
INVARIANTS
  BudgetHeld
  IntervalKept
PROPERTIES
  KeepsReading
