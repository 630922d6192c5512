----------------------------- MODULE ValidatorLedger -----------------------------
(***************************************************************************)
(* The part of the ledger the stake-delta allocator reads and writes: the  *)
(* liquidity counters, the validator list (active_balance, score,          *)
(* last_stake_delta_epoch), the stake-system allowance of extra runs, and *)
(* the stake list with each stake account's validator, delegated lamports *)
(* and deactivation epoch.  The on-chain program is not in this source    *)
(* tree: its checks and effects follow the spec (3, 4.3, 4.4) and the      *)
(* program's deactivate-stake tests (a whole deactivation leaves the      *)
(* validator's last_stake_delta_epoch alone, a split sets it; both move    *)
(* the unstaked lamports from active_balance to total_cooling_down).       *)
(* Rewards are left out: a record's delegated lamports are its stake.      *)
(***************************************************************************)
EXTENDS Integers, Sequences, SequencesExt, FiniteSets, FiniteSetsExt

CONSTANTS
  ValidatorList,   \* the validator list, in index order
  InitScore,       \* validator -> score when the model starts
  MinStake,        \* stake_system.min_stake
  MaxEpoch,        \* model bound on the epoch clock
  MaxLamports,     \* model bound on the reserve and the tickets users add
  MaxStakeIds,     \* model bound on the stake accounts created
  InitStakes,      \* the stake list when the model starts: <<[validator, amount]>>
  InitReserve,     \* reserve lamports above the rent-exempt floor
  InitCirculating, \* circulating_ticket_balance
  MaxUserOps       \* model bound on the deposits, tickets and claims of users

\* Epoch::MAX: never
Never == MaxEpoch + 1

Validators == ToSet(ValidatorList)
StakeIds == 1..MaxStakeIds

VARIABLES
  epoch,          \* Clock::epoch
  reserve,        \* reserve balance minus rent_exempt_for_token_acc
  coolingDown,    \* stake_system.total_cooling_down
  circulating,    \* circulating_ticket_balance
  extraRuns,      \* stake_system.extra_stake_delta_runs
  score,          \* validator -> score
  activeBalance,  \* validator -> active_balance
  lastSD,         \* validator -> last_stake_delta_epoch
  stakeList,      \* the stake list: stake account ids, 1-based
  stake,          \* id -> [validator, amount, deactivation]
  nextId,         \* the next fresh stake account (Keypair::new)
  userOps         \* model counter: the user operations so far

sysVars == <<epoch, reserve, coolingDown, circulating, extraRuns, score, activeBalance,
             lastSD, stakeList, stake, nextId, userOps>>

NoStake == [validator |-> "none", amount |-> 0, deactivation |-> Never]

\* state.stake_delta(reserve_balance), i128
Delta == reserve + coolingDown - circulating

TotalActive == SumFunction(activeBalance)
TotalScore == SumFunction(score)

\* validator_system.validator_stake_target: the score's share, rounded down
StakeTarget(v, total) ==
  IF TotalScore = 0 \/ total <= 0 THEN 0 ELSE (score[v] * total) \div TotalScore

\* stake still to move into v (negative: lamports v holds above its target)
Need(v) == StakeTarget(v, TotalActive + Delta) - activeBalance[v]

Min2(a, b) == IF a < b THEN a ELSE b

LedgerInit ==
  /\ epoch = 0
  /\ reserve = InitReserve
  /\ coolingDown = 0
  /\ circulating = InitCirculating
  /\ extraRuns = 0
  /\ score = InitScore
  /\ stakeList = [i \in 1..Len(InitStakes) |-> i]
  /\ stake = [id \in StakeIds |->
               IF id <= Len(InitStakes)
               THEN [validator |-> InitStakes[id].validator,
                     amount |-> InitStakes[id].amount, deactivation |-> Never]
               ELSE NoStake]
  /\ activeBalance = [v \in Validators |->
                       SumFunctionOnSet([i \in DOMAIN InitStakes |-> InitStakes[i].amount],
                                        {i \in DOMAIN InitStakes : InitStakes[i].validator = v})]
  /\ lastSD = [v \in Validators |-> Never]
  /\ nextId = Len(InitStakes) + 1
  /\ userOps = 0

\* the once-per-epoch rule for a validator: a second operation this epoch
\* consumes one of the extra runs
EpochAllowance(v) == lastSD[v] = epoch => extraRuns > 0

ConsumeAllowance(v) ==
  /\ lastSD' = [lastSD EXCEPT ![v] = epoch]
  /\ extraRuns' = IF lastSD[v] = epoch THEN extraRuns - 1 ELSE extraRuns

-----------------------------------------------------------------------------
(***************************************************************************)
(* stake_reserve: the amount is recomputed on chain as the smaller of the *)
(* validator's need and the system's delta; a new stake account is        *)
(* delegated and appended to the stake list.  The lamports leave the      *)
(* reserve: a transfer of more than it holds fails.                        *)
(***************************************************************************)
\* stake_reserve without the reserve's balance behind the transfer
StakeReserveOkOverdraw(v) ==
  /\ Delta >= MinStake
  /\ Need(v) > 0
  /\ EpochAllowance(v)
  /\ nextId \in StakeIds

StakeReserveOk(v) ==
  /\ Delta >= MinStake
  /\ Need(v) > 0
  /\ Min2(Need(v), Delta) <= reserve
  /\ EpochAllowance(v)
  /\ nextId \in StakeIds

StakeReserveApply(v) ==
  LET x == Min2(Need(v), Delta) IN
  /\ stakeList' = Append(stakeList, nextId)
  /\ stake' = [stake EXCEPT ![nextId] = [validator |-> v, amount |-> x, deactivation |-> Never]]
  /\ nextId' = nextId + 1
  /\ reserve' = reserve - x
  /\ activeBalance' = [activeBalance EXCEPT ![v] = @ + x]
  /\ ConsumeAllowance(v)
  /\ UNCHANGED <<epoch, coolingDown, circulating, score, userOps>>

(***************************************************************************)
(* deactivate_stake: with a shortfall, unstake from the account the        *)
(* smaller of the validator's surplus over its target and the shortfall;  *)
(* the whole account when what would remain is below min_stake, otherwise *)
(* a split into a new account that is deactivated and listed.              *)
(***************************************************************************)
Surplus(v) == activeBalance[v] - StakeTarget(v, TotalActive + Delta)

Unstake(id) == Min2(Surplus(stake[id].validator), -Delta)

WholeDeactivation(id) == stake[id].amount - Unstake(id) < MinStake

DeactivateOk(id, i, v) ==
  /\ i \in 1..Len(stakeList) /\ stakeList[i] = id
  /\ stake[id].validator = v
  /\ stake[id].deactivation = Never
  /\ Delta < 0
  /\ Surplus(v) > 0
  /\ ~WholeDeactivation(id) => EpochAllowance(v) /\ nextId \in StakeIds

DeactivateApply(id, v) ==
  LET u == IF WholeDeactivation(id) THEN stake[id].amount ELSE Unstake(id) IN
  /\ activeBalance' = [activeBalance EXCEPT ![v] = @ - u]
  /\ coolingDown' = coolingDown + u
  /\ IF WholeDeactivation(id)
     THEN /\ stake' = [stake EXCEPT ![id].deactivation = epoch]
          /\ UNCHANGED <<stakeList, nextId, lastSD, extraRuns>>
     ELSE /\ stake' = [stake EXCEPT ![id].amount = @ - u,
                                    ![nextId] = [validator |-> v, amount |-> u,
                                                 deactivation |-> epoch]]
          /\ stakeList' = Append(stakeList, nextId)
          /\ nextId' = nextId + 1
          /\ ConsumeAllowance(v)
  /\ UNCHANGED <<epoch, reserve, circulating, score, userOps>>

-----------------------------------------------------------------------------
(***************************************************************************)
(* What users, the cluster and the other cranks do meanwhile.              *)
(***************************************************************************)

\* an epoch boundary
EpochBoundary ==
  /\ epoch < MaxEpoch
  /\ epoch' = epoch + 1
  /\ UNCHANGED <<reserve, coolingDown, circulating, extraRuns, score, activeBalance,
                 lastSD, stakeList, stake, nextId, userOps>>

\* deposit: a user's SOL lands in the reserve
DepositSol ==
  /\ userOps < MaxUserOps
  /\ userOps' = userOps + 1
  /\ reserve < MaxLamports
  /\ reserve' = reserve + 1
  /\ UNCHANGED <<epoch, coolingDown, circulating, extraRuns, score, activeBalance,
                 lastSD, stakeList, stake, nextId>>

\* order_unstake: a user's delayed-unstake ticket, paid for with mSOL, so
\* the tickets never exceed what the pool holds
OrderUnstake ==
  /\ userOps < MaxUserOps
  /\ userOps' = userOps + 1
  /\ circulating < MaxLamports
  /\ circulating < reserve + coolingDown + TotalActive
  /\ circulating' = circulating + 1
  /\ UNCHANGED <<epoch, reserve, coolingDown, extraRuns, score, activeBalance,
                 lastSD, stakeList, stake, nextId>>

\* claim: a due ticket is paid out of the reserve
ClaimTicket ==
  /\ userOps < MaxUserOps
  /\ userOps' = userOps + 1
  /\ circulating > 0 /\ reserve > 0
  /\ reserve' = reserve - 1
  /\ circulating' = circulating - 1
  /\ UNCHANGED <<epoch, coolingDown, extraRuns, score, activeBalance,
                 lastSD, stakeList, stake, nextId>>

\* update_deactivated (the update-price crank): a stake account deactivated
\* in an earlier epoch is withdrawn into the reserve and removed from the list
WithdrawCooledDown(i) ==
  LET id == stakeList[i] IN
  /\ stake[id].deactivation < epoch
  /\ stakeList' = IF i = Len(stakeList) THEN Front(stakeList)
                  ELSE [Front(stakeList) EXCEPT ![i] = Last(stakeList)]
  /\ reserve' = reserve + stake[id].amount
  /\ coolingDown' = coolingDown - stake[id].amount
  /\ UNCHANGED <<epoch, circulating, extraRuns, score, activeBalance, lastSD, stake, nextId,
                 userOps>>

\* the extra-runs request of do-work (config_validator_system): the
\* allowance becomes the number of validators with a score
ConfigExtraRuns ==
  LET withScore == Cardinality({v \in Validators : score[v] > 0}) IN
  /\ extraRuns < withScore
  /\ extraRuns' = withScore
  /\ UNCHANGED <<epoch, reserve, coolingDown, circulating, score, activeBalance,
                 lastSD, stakeList, stake, nextId, userOps>>

LedgerEnvironment ==
  \/ EpochBoundary
  \/ DepositSol
  \/ OrderUnstake
  \/ ClaimTicket
  \/ \E i \in 1..Len(stakeList) : WithdrawCooledDown(i)
  \/ ConfigExtraRuns

=============================================================================
