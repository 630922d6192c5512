----------------------------- MODULE MCStakeDelta -----------------------------
(***************************************************************************)
(* StakeDelta for TLC: two validators of equal score, min_stake 2, one    *)
(* stake account each, v2 above its target; the reserve covers one ticket. *)
(***************************************************************************)
EXTENDS StakeDelta

MCValidatorList == <<"v1", "v2">>
MCScore == [v \in {"v1", "v2"} |-> 1]
MCInitStakes == <<[validator |-> "v1", amount |-> 2],
                  [validator |-> "v2", amount |-> 4]>>
=============================================================================
