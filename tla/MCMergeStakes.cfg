CONSTANTS
  a1 = a1
  a2 = a2
  a3 = a3
  v1 = v1
  v2 = v2
  b1 = b1
  b2 = b2
  Bots <- MCBots
  Accounts <- MCAccounts
  Validators <- MCValidators
  Voter <- MCVoter
  InitList <- MCInitList
  MaxEpoch = 2
  MaxStake = 2
  Unreliable = FALSE
  TimeBudget = TRUE
SPECIFICATION Spec
SYMMETRY BotSymmetry
INVARIANT  MergePassComplete StakeListIntact
PROPERTY MergeIndicesCurrent
