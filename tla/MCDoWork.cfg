\* A cluster without warmup epochs; the bot built either way.
CONSTANTS
  SlotsPerEpoch = 128
  Warmup = FALSE
  StakeDeltaWindow = 80
  TickInterval = 8
  MaxEpoch = 2
  U64Modulus <- MCU64Modulus
  Builds = {"release", "debug"}
  AuthorityIsFeePayer = FALSE
SPECIFICATION Spec
\* the clock stops at the model's last epoch
CHECK_DEADLOCK FALSE
INVARIANT EveryEpochSettled EveryEpochAccrued StakeDeltaBeforeMargin
