CONSTANTS
  ValidatorList <- MCValidatorList
  InitScore <- MCScore
  InitStakes <- MCInitStakes
  MinStake = 2
  MaxEpoch = 1
  MaxLamports = 5
  MaxStakeIds = 5
  InitReserve = 1
  InitCirculating = 1
  MaxUserOps = 6
  Limit = 2
  TimeBudget = TRUE
  MaxLost = 0

SPECIFICATION Spec
INVARIANT UnstakePassUsesExtraRuns
