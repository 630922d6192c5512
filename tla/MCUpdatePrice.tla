------------------------------ MODULE MCUpdatePrice ------------------------------
EXTENDS UpdatePrice

CONSTANTS a1, a2, a3, v1, v2

MCAccounts == {a1, a2, a3}
MCValidators == {v1, v2}
MCVoter == (a1 :> v1) @@ (a2 :> v1) @@ (a3 :> v2)
MCInitList == <<a1, a2>>

=============================================================================
