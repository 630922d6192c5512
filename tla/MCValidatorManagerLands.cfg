\* update-scores with the right authority.
CONSTANTS
  Votes <- MCVotes
  FileOrder <- MCFileOrder
  ClusterVotes <- MCClusterVotes
  InitLists <- MCInitLists
  Commands = {"update-scores"}
  AuthorityValues = {TRUE}
  MaxValidators = 3
  ScoreValues = {0, 9, 20}
  PerTx = 2
  MaxArgs = 2
  MaxLost = 0
SPECIFICATION Spec
\* a command ends
CHECK_DEADLOCK FALSE
INVARIANT EveryInstructionLands
