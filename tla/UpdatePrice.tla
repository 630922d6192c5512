------------------------------- MODULE UpdatePrice -------------------------------
(***************************************************************************)
(* The accrual crank: UpdatePriceOptions::process of                       *)
(* cli/bot-cli/src/update_price.rs, run against the ledger of StakeLedger  *)
(* while the cluster and other actors go on (epoch boundaries, deposits,   *)
(* deactivations by someone else).                                         *)
(*                                                                         *)
(* The crank reads the stake list once (stakes_info_reversed) and the      *)
(* clock once, then walks that snapshot sending one transaction per entry  *)
(* that needs an update.  Each send is process_transaction/               *)
(* execute_transaction of cli-common: one atomic ledger step whose result  *)
(* the crank counts as Ok or Err.                                          *)
(***************************************************************************)
EXTENDS RpcClient

VARIABLES
  up_pc,        \* "Idle" (no pass running) or "Scan"
  up_snapshot,  \* stakes_info_reversed: the entries the pass walks
  up_clock,     \* get_clock().epoch read at the start of the pass
  up_k,         \* position of the loop in up_snapshot
  up_ok,        \* count_tx_ok
  up_err,       \* count_tx_err
  up_applied,   \* history: transactions of this pass the ledger applied
  up_sent       \* history: the (account, index) of the last transaction sent

botVars == <<up_pc, up_snapshot, up_clock, up_k, up_ok, up_err, up_applied, up_sent>>
vars == <<ledgerVars, botVars>>

NoSend == [account |-> "none", index |-> 0]

\* one begin/<instruction>/commit/build_one/process_transaction round
Send(accepted, Apply, e) ==
  /\ \E r \in ProcessTransaction(accepted) :
       /\ IF r.applied THEN Apply ELSE UNCHANGED ledgerVars
       /\ up_ok' = up_ok + (IF r.ok THEN 1 ELSE 0)
       /\ up_err' = up_err + (IF r.ok THEN 0 ELSE 1)
       /\ up_applied' = up_applied + (IF r.applied THEN 1 ELSE 0)
  /\ up_sent' = [account |-> e.account, index |-> e.index]

Init ==
  /\ LedgerInit
  /\ up_pc = "Idle"
  /\ up_snapshot = <<>>
  /\ up_clock = 0
  /\ up_k = 1
  /\ up_ok = 0
  /\ up_err = 0
  /\ up_applied = 0
  /\ up_sent = NoSend

StartPass ==
  LET snap == StakesInfoReversed
      needs == \E k \in DOMAIN snap : snap[k].record.lastUpdateEpoch < epoch
  IN /\ up_pc = "Idle"
     /\ up_snapshot' = snap
     /\ up_clock' = epoch
     /\ up_k' = 1
     /\ up_ok' = 0
     /\ up_err' = 0
     /\ up_applied' = 0
     /\ up_sent' = NoSend
     /\ up_pc' = IF needs THEN "Scan" ELSE "Idle"
     /\ UNCHANGED ledgerVars

\* the loop with the "update is not needed" skip tested before the phase
StepSkipUnchangedFirst ==
  LET e == up_snapshot[up_k] IN
  /\ up_pc = "Scan"
  /\ up_k <= Len(up_snapshot)
  /\ up_k' = up_k + 1
  /\ \/ /\ \/ e.record.lastUpdateEpoch = up_clock
           \/ e.stake = e.record.lastUpdateDelegated
        /\ UNCHANGED <<ledgerVars, up_ok, up_err, up_applied, up_sent>>
     \/ /\ e.record.lastUpdateEpoch # up_clock
        /\ e.stake # e.record.lastUpdateDelegated
        /\ e.phase \in Undeactivated
        /\ Send(UpdateActiveOk(e.account, e.index), UpdateActiveApply(e.account), e)
     \/ /\ e.record.lastUpdateEpoch # up_clock
        /\ e.stake # e.record.lastUpdateDelegated
        /\ e.phase = Inactive
        /\ Send(UpdateDeactivatedOk(e.account, e.index),
                UpdateDeactivatedApply(e.account, e.index), e)
     \/ /\ e.record.lastUpdateEpoch # up_clock
        /\ e.stake # e.record.lastUpdateDelegated
        /\ e.phase = Deactivating
        /\ UNCHANGED <<ledgerVars, up_ok, up_err, up_applied, up_sent>>
  /\ UNCHANGED <<up_pc, up_snapshot, up_clock>>

\* one iteration of `for stake_info in &stakes_info`
Step ==
  LET e == up_snapshot[up_k] IN
  /\ up_pc = "Scan"
  /\ up_k <= Len(up_snapshot)
  /\ up_k' = up_k + 1
  /\ \/ /\ e.record.lastUpdateEpoch = up_clock          \* already processed
        /\ UNCHANGED <<ledgerVars, up_ok, up_err, up_applied, up_sent>>
     \/ /\ e.record.lastUpdateEpoch # up_clock
        /\ e.phase \in Undeactivated
        /\ e.stake = e.record.lastUpdateDelegated        \* update is not needed
        /\ UNCHANGED <<ledgerVars, up_ok, up_err, up_applied, up_sent>>
     \/ /\ e.record.lastUpdateEpoch # up_clock
        /\ e.phase \in Undeactivated
        /\ e.stake # e.record.lastUpdateDelegated        \* update_active
        /\ Send(UpdateActiveOk(e.account, e.index), UpdateActiveApply(e.account), e)
     \/ /\ e.record.lastUpdateEpoch # up_clock
        /\ e.phase = Inactive                            \* update_deactivated
        /\ Send(UpdateDeactivatedOk(e.account, e.index),
                UpdateDeactivatedApply(e.account, e.index), e)
     \/ /\ e.record.lastUpdateEpoch # up_clock
        /\ e.phase = Deactivating                        \* cooling down: warn only
        /\ UNCHANGED <<ledgerVars, up_ok, up_err, up_applied, up_sent>>
  /\ UNCHANGED <<up_pc, up_snapshot, up_clock>>

\* the end of the loop: Ok(count_tx_err == 0)
Finish ==
  /\ up_pc = "Scan"
  /\ up_k > Len(up_snapshot)
  /\ up_pc' = "Idle"
  /\ UNCHANGED <<ledgerVars, up_snapshot, up_clock, up_k, up_ok, up_err, up_applied, up_sent>>

Crank == StartPass \/ Step \/ Finish

Next ==
  \/ Crank
  \/ Environment /\ UNCHANGED <<botVars>>

\* do-work starts a pass every few minutes (cron) and a started pass runs
\* its loop to the end; the cluster and the other actors owe nothing.
Spec == Init /\ [][Next]_vars /\ WF_vars(Crank)

-----------------------------------------------------------------------------
(***************************************************************************)
(* Properties                                                              *)
(***************************************************************************)

TypeOK ==
  /\ LedgerTypeOK
  /\ up_pc \in {"Idle", "Scan"}
  /\ up_k \in 1..Len(up_snapshot) + 1
  /\ {up_ok, up_err, up_applied} \subseteq 0..Len(up_snapshot)
  /\ up_sent \in [account : Accounts \cup {"none"}, index : Nat]

(***************************************************************************)
(* Every update transaction the crank sends names an index at which the    *)
(* ledger's stake list still holds that account: the removals the pass     *)
(* itself causes (update_deactivated swaps the last record into the freed *)
(* slot) never move an entry the pass has yet to visit, because the        *)
(* snapshot is walked from the last index down (stakes_info_reversed).     *)
(***************************************************************************)
SentIndexCurrent ==
  [][up_sent' # up_sent /\ up_sent' # NoSend =>
       up_sent'.index \in 1..Len(stakeList) /\ stakeList[up_sent'.index] = up_sent'.account]_vars

(***************************************************************************)
(* A listed stake account that is fully deactivated, and whose record was  *)
(* last updated in an earlier epoch, is eventually withdrawn and removed   *)
(* from the list by the crank's update_deactivated.                        *)
(***************************************************************************)
DeactivatedEventuallyRemoved ==
  \A a \in Accounts :
    (a \in Listed /\ phase[a] = Inactive /\ record[a].lastUpdateEpoch < epoch)
      ~> (a \notin Listed)

=============================================================================
