CONSTANTS
  N = 2
  Blacklisted = {}
  ScoreValues = {1, 4}
  CreditValues = {0, 1}
  ThisEpochValues <- MCThisEpochValues
  ApyValues <- MCApyValues
  PositionValues = {30, 50}
  StakedValues <- MCStakedValues
  LamportsPerSol = 4
  ImaginedStake = 32
  OtherActive = 0
SPECIFICATION Spec
CHECK_DEADLOCK FALSE
INVARIANT TypeOK
INVARIANT UnhealthyUnscored
INVARIANT RanksFollowScores
INVARIANT SharesSplitTarget
