-------------------------------- MODULE RpcClient --------------------------------
(***************************************************************************)
(* What the cranks see of the ledger and how their transactions reach it:  *)
(* RpcMarinade::stakes_info / stakes_info_reversed (cli-common/src/        *)
(* rpc_marinade.rs) and RpcClientHelpers::process_transaction /           *)
(* execute_transaction (cli-common/src/rpc_client_helpers.rs).             *)
(***************************************************************************)
EXTENDS StakeLedger

CONSTANT
  Unreliable   \* TRUE: a send may fail at transport or confirmation level

\* StakeInfo {index, record, stake, balance}; the stake read as phase and lamports
Entry(i) == [index   |-> i,
             account |-> stakeList[i],
             record  |-> record[stakeList[i]],
             phase   |-> phase[stakeList[i]],
             stake   |-> amount[stakeList[i]],
             credits |-> credits[stakeList[i]]]

\* stakes_info: one entry per stake list record, in list order
StakesInfo == [i \in 1..Len(stakeList) |-> Entry(i)]

\* stakes_info_reversed: the same, last index first
StakesInfoReversed == Reverse(StakesInfo)

(***************************************************************************)
(* process_transaction -> execute_transaction.  A transaction the program *)
(* accepts lands (Ok), or is lost in sending or confirmation, which is     *)
(* logged and returned as Ok, or meets a transient preflight failure       *)
(* (Err).  A transaction the program rejects fails preflight with logs:   *)
(* Err.                                                                    *)
(***************************************************************************)
ProcessTransaction(accepted) ==
  IF accepted
  THEN {[applied |-> TRUE, ok |-> TRUE]}
       \cup (IF Unreliable THEN {[applied |-> FALSE, ok |-> TRUE],
                                 [applied |-> FALSE, ok |-> FALSE]}
             ELSE {})
  ELSE {[applied |-> FALSE, ok |-> FALSE]}

=============================================================================
