CONSTANTS
  ValidatorList <- MCValidatorList
  InitScore <- MCScore
  InitStakes <- MCInitStakes
  MinStake = 2
  MaxEpoch = 1
  MaxLamports = 5
  MaxStakeIds = 5
  InitReserve = 1
  InitCirculating = 1
  MaxUserOps = 3
  Limit = 2
  TimeBudget = TRUE
  MaxLost = 1
  EuVotes <- MCEuVotes
  AuthorityValues = {TRUE}
  ExtraRunsValues = {0, 1}
  EuPerTx = 2
  MaxEuRuns = 1

SPECIFICATION EuSpec
INVARIANT EuTypeOK
INVARIANT StakePassComplete
INVARIANT UnstakePassComplete
INVARIANT EmergencyUnstakeClears
