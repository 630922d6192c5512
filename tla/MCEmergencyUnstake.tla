-------------------------- MODULE MCEmergencyUnstake --------------------------
(***************************************************************************)
(* EmergencyUnstake for TLC: the ledger of MCStakeDelta (two validators of *)
(* equal score, one stake account each), an operator who may unstake      *)
(* either validator or give an unlisted vote account, and --extra-runs 0   *)
(* or 1.                                                                   *)
(***************************************************************************)
EXTENDS EmergencyUnstake

MCValidatorList == <<"v1", "v2">>
MCScore == [v \in {"v1", "v2"} |-> 1]
MCInitStakes == <<[validator |-> "v1", amount |-> 2],
                  [validator |-> "v2", amount |-> 4]>>
MCEuVotes == {"v1", "v3"}
=============================================================================
