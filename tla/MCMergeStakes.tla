------------------------------ MODULE MCMergeStakes ------------------------------
EXTENDS MergeStakes, TLC

CONSTANTS a1, a2, a3, v1, v2, b1, b2

MCAccounts == {a1, a2, a3}
MCValidators == {v1, v2}
MCVoter == (a1 :> v1) @@ (a2 :> v1) @@ (a3 :> v1)
MCInitList == <<a1, a2>>
MCBots == {b1, b2}

\* the passes are interchangeable: nothing in the pass depends on which tick runs it
BotSymmetry == Permutations(MCBots)

=============================================================================
