\* Every command, from either list, with the authority right or wrong.
CONSTANTS
  Votes <- MCVotes
  FileOrder <- MCFileOrder
  ClusterVotes <- MCClusterVotes
  InitLists <- MCInitLists
  Commands = {"update-scores", "add-validators", "remove-validators"}
  AuthorityValues = {TRUE, FALSE}
  MaxValidators = 3
  ScoreValues = {0, 9, 20}
  PerTx = 2
  MaxArgs = 2
  MaxLost = 1
SPECIFICATION Spec
\* a command ends
CHECK_DEADLOCK FALSE
INVARIANTS SuccessfulRunSettles AddsWithinCapacity RemovalsLand RequestedListed
