CONSTANTS
  m1 = m1
  m2 = m2
  Markets = {m1, m2}
  Outcomes = {1, 2}
  InvalidWords = {"invalid", "invalid result"}
  Predictions = {3, 8}
  Names <- MCNames
  Subclasses = {{"binary"}, {"categorical"}}
  None = None
  Tiny = 2
  Interval = 1
  BetOn = 1
  Funds = 8
  Holdings <- MCHoldings
  MaxTaken = 1
  MaxRuns = 2
  MaxTime = 3
  MaxDrifts = 1
SPECIFICATION Spec
INVARIANTS StakeCovered AllStored
PROPERTIES NoRebet
CHECK_DEADLOCK FALSE
