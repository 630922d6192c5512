CONSTANTS
  a1 = a1
  a2 = a2
  a3 = a3
  v1 = v1
  v2 = v2
  Accounts <- MCAccounts
  Validators <- MCValidators
  Voter <- MCVoter
  MaxEpoch = 2
  MaxStake = 2
  Unreliable = FALSE
  InitList <- MCInitList
SPECIFICATION Spec
 
PROPERTY SentIndexCurrent DeactivatedEventuallyRemoved
