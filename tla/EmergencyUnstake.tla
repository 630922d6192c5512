---------------------------- MODULE EmergencyUnstake ----------------------------
(***************************************************************************)
(* The validator manager's emergency-unstake and config-validator-system  *)
(* commands (cli/validator-manager/src/emergency_unstake.rs and           *)
(* config_validator_system.rs), run by an operator against the ledger of  *)
(* ValidatorLedger while the bot's stake-delta pass of StakeDelta goes on. *)
(*                                                                         *)
(* emergency-unstake finds the validator's index in the list it reads,     *)
(* sends set_validator_score(index, vote, 0) and waits for it ("Flush it  *)
(* asap"), then reads stakes_info_reversed and sends, packed by a limited  *)
(* builder, one emergency_unstake per listed stake account of the         *)
(* validator that is not deactivating, naming it by its index in that     *)
(* read.  Every `?` ends the command with the error; a transaction sent   *)
(* and not confirmed is returned as Ok, as for the bot, and the command    *)
(* goes on while it may still land.                                        *)
(*                                                                         *)
(* The program is not in this source tree.  Following the spec's list      *)
(* rule, emergency_unstake fails unless the stake list holds the account  *)
(* at the index and the account is not already deactivating (the stake   *)
(* program refuses a second deactivation); it deactivates the whole       *)
(* account and moves its lamports from the validator's active_balance to  *)
(* total_cooling_down, as deactivate_stake does.  The -r option (a        *)
(* remove_validator after the unstakes) is not modelled here: this        *)
(* ledger's validator list is fixed, and remove_validator is modelled in  *)
(* ValidatorList.                                                          *)
(***************************************************************************)
EXTENDS StakeDelta

CONSTANTS
  EuVotes,          \* the validator_vote arguments an operator may give
  AuthorityValues,  \* whether the validator manager authority given is the state's
  ExtraRunsValues,  \* the --extra-runs arguments of config-validator-system
  EuPerTx,          \* emergency_unstake instructions a limited builder fits in a transaction
  MaxEuRuns         \* model bound on the emergency-unstake commands run

VARIABLES
  eu_pc,     \* "idle", "score", "read", "unstake", "ok" or "error"
  eu_v,      \* the validator_vote of the last command
  eu_txs,    \* the emergency_unstake transactions built: <<<<[id, index]>>>>
  eu_sent,   \* of them, those that landed
  eu_runs,   \* model counter: commands started
  eu_lost    \* history: a transaction of the command was returned as Ok unconfirmed

euVars == <<eu_pc, eu_v, eu_txs, eu_sent, eu_runs, eu_lost>>
allVars == <<vars, euVars>>

\* combined_sequence of a limited builder: consecutive instructions, per to a transaction
Packed(ixs, per) ==
  [t \in 1..((Len(ixs) + per - 1) \div per) |->
     SubSeq(ixs, (t - 1) * per + 1, IF t * per < Len(ixs) THEN t * per ELSE Len(ixs))]

\* the loop over stakes_info_reversed: the validator's stakes not deactivating
UnstakeInstructions(v) ==
  LET mine == SelectSeq(StakesInfoReversed,
                        LAMBDA s : s.validator = v /\ s.deactivation = Never)
  IN  [k \in DOMAIN mine |-> [id |-> mine[k].id, index |-> mine[k].index]]

\* emergency_unstake on chain: the account at the index, not deactivating
EmergencyUnstakeOk(ix) ==
  /\ ix.index \in 1..Len(stakeList)
  /\ stakeList[ix.index] = ix.id
  /\ stake[ix.id].deactivation = Never

\* a transaction of emergency_unstakes: all of them or none
EmergencyUnstakeTxOk(tx) == \A k \in DOMAIN tx : EmergencyUnstakeOk(tx[k])

EmergencyUnstakeTxApply(tx, v) ==
  LET ids      == {tx[k].id : k \in DOMAIN tx}
      unstaked == SumFunctionOnSet([id \in ids |-> stake[id].amount], ids)
  IN
  /\ stake' = [id \in StakeIds |->
                 IF id \in ids THEN [stake[id] EXCEPT !.deactivation = epoch] ELSE stake[id]]
  /\ activeBalance' = [activeBalance EXCEPT ![v] = @ - unstaked]
  /\ coolingDown' = coolingDown + unstaked
  /\ UNCHANGED <<epoch, reserve, circulating, extraRuns, score, lastSD, stakeList, nextId,
                 userOps>>

EuInit ==
  /\ Init
  /\ eu_pc = "idle"
  /\ eu_v = "none"
  /\ eu_txs = <<>>
  /\ eu_sent = 0
  /\ eu_runs = 0
  /\ eu_lost = FALSE

\* a step of the operator's commands: the bot's pass is no longer quiet
OperatorStep == sd_quiet' = FALSE /\ UNCHANGED <<sd_pc, sd_view, sd_epoch, sd_info, sd_k,
  sd_snapshot, sd_stakes, sd_j, sd_total, sd_sumTotal, sd_sumV, sd_toV, sd_left, sd_count,
  sd_ok, sd_err, sd_exit, sd_lost>>

(***************************************************************************)
(* The start of process: validator_list(), the position of the vote       *)
(* account ("Unknown validator" when absent), and set_validator_score,    *)
(* whose `?` returns InvalidValidatorManagerAuthority before anything is  *)
(* sent when the authority given is not the state's.                       *)
(***************************************************************************)
EuStart ==
  /\ eu_pc \in {"idle", "ok", "error"}
  /\ eu_runs < MaxEuRuns
  /\ eu_runs' = eu_runs + 1
  /\ \E v \in EuVotes, authorityOk \in AuthorityValues :
       /\ eu_v' = v
       /\ eu_pc' = IF v \in Validators /\ authorityOk THEN "score" ELSE "error"
  /\ eu_txs' = <<>>
  /\ eu_sent' = 0
  /\ eu_lost' = FALSE
  /\ UNCHANGED vars

\* the command without set_validator_score: the stakes read at once
EuScoreNotZeroed ==
  /\ eu_pc = "score"
  /\ eu_pc' = "read"
  /\ UNCHANGED vars
  /\ UNCHANGED <<eu_v, eu_txs, eu_sent, eu_runs, eu_lost>>

\* the set_validator_score transaction lands and is confirmed: Ok
EuScoreLands ==
  /\ eu_pc = "score"
  /\ score' = [score EXCEPT ![eu_v] = 0]
  /\ eu_pc' = "read"
  /\ UNCHANGED <<epoch, reserve, coolingDown, circulating, extraRuns, activeBalance,
                 lastSD, stakeList, stake, nextId, userOps>>
  /\ OperatorStep
  /\ UNCHANGED <<lossVars, eu_v, eu_txs, eu_sent, eu_runs, eu_lost>>

\* it is sent and not confirmed: logged, returned as Ok, and the command
\* reads the stakes while the score may still be unset
EuScoreUnconfirmed ==
  /\ eu_pc = "score"
  /\ lostSends < MaxLost
  /\ lostSends' = lostSends + 1
  /\ inflight' = inflight \cup {Pending("score", eu_v, 0, 0, <<>>)}
  /\ eu_lost' = TRUE
  /\ eu_pc' = "read"
  /\ UNCHANGED <<sysVars, sd_pc, sd_view, sd_epoch, sd_info, sd_k, sd_snapshot, sd_stakes,
                 sd_j, sd_total, sd_sumTotal, sd_sumV, sd_toV, sd_left, sd_count, sd_ok,
                 sd_err, sd_exit, sd_quiet, sd_lost>>
  /\ UNCHANGED <<eu_v, eu_txs, eu_sent, eu_runs>>

\* stakes_info_reversed and the loop of builder.emergency_unstake(...)?;
\* an empty sequence sends nothing and returns Ok
EuReadStakes ==
  LET ixs == UnstakeInstructions(eu_v) IN
  /\ eu_pc = "read"
  /\ eu_txs' = Packed(ixs, EuPerTx)
  /\ eu_pc' = IF ixs = <<>> THEN "ok" ELSE "unstake"
  /\ UNCHANGED <<vars, eu_v, eu_sent, eu_runs, eu_lost>>

\* process_transaction of the next transaction, which lands
EuSendOk ==
  /\ eu_pc = "unstake"
  /\ EmergencyUnstakeTxOk(eu_txs[eu_sent + 1])
  /\ EmergencyUnstakeTxApply(eu_txs[eu_sent + 1], eu_v)
  /\ eu_sent' = eu_sent + 1
  /\ eu_pc' = IF eu_sent + 1 = Len(eu_txs) THEN "ok" ELSE "unstake"
  /\ OperatorStep
  /\ UNCHANGED <<lossVars, eu_v, eu_txs, eu_runs, eu_lost>>

\* the next transaction is sent and not confirmed: returned as Ok, and the
\* sequence goes on
EuSendUnconfirmed ==
  /\ eu_pc = "unstake"
  /\ EmergencyUnstakeTxOk(eu_txs[eu_sent + 1])
  /\ lostSends < MaxLost
  /\ lostSends' = lostSends + 1
  /\ inflight' = inflight \cup {Pending("emergencyUnstake", eu_v, 0, 0, eu_txs[eu_sent + 1])}
  /\ eu_lost' = TRUE
  /\ eu_sent' = eu_sent + 1
  /\ eu_pc' = IF eu_sent + 1 = Len(eu_txs) THEN "ok" ELSE "unstake"
  /\ UNCHANGED <<sysVars, sd_pc, sd_view, sd_epoch, sd_info, sd_k, sd_snapshot, sd_stakes,
                 sd_j, sd_total, sd_sumTotal, sd_sumV, sd_toV, sd_left, sd_count, sd_ok,
                 sd_err, sd_exit, sd_quiet, sd_lost>>
  /\ UNCHANGED <<eu_v, eu_txs, eu_runs>>

\* the next transaction fails preflight: `?` ends the command, the rest is
\* never sent
EuSendFails ==
  /\ eu_pc = "unstake"
  /\ ~EmergencyUnstakeTxOk(eu_txs[eu_sent + 1])
  /\ eu_pc' = "error"
  /\ UNCHANGED <<vars, eu_v, eu_txs, eu_sent, eu_runs, eu_lost>>

\* an unconfirmed transaction of the operator lands: the score is set, or
\* the emergency_unstakes are checked against the ledger as it is now
EuLateLand ==
  /\ \E t \in inflight :
       /\ t.op \in {"score", "emergencyUnstake"}
       /\ inflight' = inflight \ {t}
       /\ IF t.op = "score"
          THEN /\ score' = [score EXCEPT ![t.v] = 0]
               /\ UNCHANGED <<epoch, reserve, coolingDown, circulating, extraRuns,
                              activeBalance, lastSD, stakeList, stake, nextId, userOps>>
          ELSE IF EmergencyUnstakeTxOk(t.tx) THEN EmergencyUnstakeTxApply(t.tx, t.v)
               ELSE UNCHANGED sysVars
  /\ OperatorStep
  /\ UNCHANGED <<lostSends, euVars>>

(***************************************************************************)
(* config-validator-system: config_validator_system(extra_runs) with the  *)
(* authority given, sent alone.  The rent payer's `bail!` and a wrong      *)
(* authority end it before anything is sent, leaving the ledger as it is. *)
(***************************************************************************)
ConfigValidatorSystem ==
  /\ \E n \in ExtraRunsValues : extraRuns' = n
  /\ UNCHANGED <<epoch, reserve, coolingDown, circulating, score, activeBalance,
                 lastSD, stakeList, stake, nextId, userOps>>
  /\ OperatorStep
  /\ UNCHANGED <<lossVars, euVars>>

-----------------------------------------------------------------------------
(***************************************************************************)
(* The bot's pass, the ledger's other actors and the operator, interleaved *)
(***************************************************************************)
BotStartPass == StartPass /\ UNCHANGED euVars
BotStakeStep == StakeStep /\ UNCHANGED euVars
BotUnstakeOuter == UnstakeOuter /\ UNCHANGED euVars
BotUnstakeInner == UnstakeInner /\ UNCHANGED euVars
LedgerActors == Environment /\ UNCHANGED euVars
BotLateLand == LateLand /\ UNCHANGED euVars
TxExpires == Expire /\ UNCHANGED euVars

EuNext ==
  \/ BotStartPass
  \/ BotStakeStep
  \/ BotUnstakeOuter
  \/ BotUnstakeInner
  \/ LedgerActors
  \/ BotLateLand
  \/ TxExpires
  \/ EuStart
  \/ EuScoreLands
  \/ EuScoreUnconfirmed
  \/ EuReadStakes
  \/ EuSendOk
  \/ EuSendUnconfirmed
  \/ EuSendFails
  \/ EuLateLand
  \/ ConfigValidatorSystem

EuSpec == EuInit /\ [][EuNext]_allVars

-----------------------------------------------------------------------------
EuTypeOK ==
  /\ TypeOK
  /\ eu_pc \in {"idle", "score", "read", "unstake", "ok", "error"}
  /\ eu_v \in EuVotes \cup {"none"}
  /\ eu_sent \in 0..Len(eu_txs)
  /\ eu_runs \in 0..MaxEuRuns
  /\ score \in [Validators -> Nat]

(***************************************************************************)
(* An emergency-unstake that returned Ok has left its validator no active  *)
(* stake, whatever the bot's stake-delta pass did meanwhile: the score is  *)
(* zeroed and confirmed before the stake list is read, so no stake_reserve *)
(* of the bot can land for the validator after the read, and every stake   *)
(* account the read found was deactivated (an index moved by a withdrawal  *)
(* fails the command instead).  A transaction of the command returned as  *)
(* Ok unconfirmed excuses it.                                              *)
(***************************************************************************)
EmergencyUnstakeClears == eu_pc = "ok" /\ ~eu_lost => activeBalance[eu_v] = 0

=============================================================================
