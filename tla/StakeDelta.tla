------------------------------- MODULE StakeDelta -------------------------------
(***************************************************************************)
(* The allocator: StakeDeltaOptions::process of cli/bot-cli/src/           *)
(* stake_delta.rs, run against the ledger of ValidatorLedger while users   *)
(* and the cluster go on.                                                  *)
(*                                                                         *)
(* The pass reads the stake delta and the validator list once and gives   *)
(* each validator its need (score-proportional target minus active        *)
(* balance).  With a surplus it walks the validators by descending score, *)
(* recomputing the delta before each stake_reserve; with a shortfall it   *)
(* walks them by ascending need and, for each, deactivates its stake      *)
(* accounts smallest first until the validator's share is reached.  The  *)
(* state (marinade.state) is read at the start and again by update()     *)
(* after each transaction; the reserve balance is read fresh each time.    *)
(*                                                                         *)
(* process_transaction is execute_transaction of cli-common: a transaction *)
(* the program would refuse fails preflight (Err); one it accepts lands,  *)
(* or is sent and not confirmed, which is logged and returned as Ok, and  *)
(* then lands later, against the ledger as it is then, or expires.        *)
(***************************************************************************)
EXTENDS ValidatorLedger, TLC

CONSTANTS
  Limit,        \* common.limit: the most transactions per pass (0: none)
  TimeBudget,   \* max_run_seconds can run out between transactions
  MaxLost       \* model bound: transactions returned as Ok unconfirmed in a behaviour

VARIABLES
  sd_pc,        \* "Idle", "Stake", "Unstake", "Validator" (inner loop), "Done"
  sd_view,      \* marinade.state as last read: cooling down, tickets, extra runs, total active
  sd_epoch,     \* clock.epoch read at the start
  sd_info,      \* validators_info, sorted
  sd_k,         \* position in sd_info
  sd_snapshot,  \* stakes_info_reversed (unstake path)
  sd_stakes,    \* validator_stakes of the validator at sd_k, sorted by stake
  sd_j,         \* position in sd_stakes
  sd_total,     \* total_to_unstake read at the start
  sd_sumTotal,  \* sum_maybe_deactivated_total
  sd_sumV,      \* sum_maybe_deactivated_this_validator
  sd_toV,       \* to_unstake_from_validator
  sd_left,      \* left_to_unstake_from_validator
  sd_count,     \* count_processed
  sd_ok,        \* count_tx_ok
  sd_err,       \* count_tx_err
  sd_exit,      \* how the pass ended: "none", "end", or "budget" (limit or time)
  sd_quiet,     \* history: nothing but this pass changed the ledger since it started
  sd_lost,      \* history: a transaction of this pass was returned as Ok unconfirmed
  inflight,     \* transactions sent and not confirmed, that the cluster may still process
  lostSends     \* model counter: transactions returned as Ok unconfirmed so far

botVars == <<sd_pc, sd_view, sd_epoch, sd_info, sd_k, sd_snapshot, sd_stakes, sd_j,
             sd_total, sd_sumTotal, sd_sumV, sd_toV, sd_left, sd_count, sd_ok, sd_err,
             sd_exit, sd_quiet, sd_lost, inflight, lostSends>>
vars == <<sysVars, botVars>>

lossVars == <<inflight, lostSends>>

\* marinade.update(): the state account read again
StateView == [coolingDown |-> coolingDown, circulating |-> circulating,
              extraRuns |-> extraRuns, totalActive |-> TotalActive]

\* state.stake_delta(get_balance(reserve)): a fresh reserve, the state as last read
ViewDelta(view) == reserve + view.coolingDown - view.circulating

\* a transaction in flight: its instruction and what it names
Pending(op, v, id, index, tx) == [op |-> op, v |-> v, id |-> id, index |-> index, tx |-> tx]

\* execute_transaction of a transaction the program accepts: confirmed and
\* applied, or returned as Ok unconfirmed and left in flight
SendAccepted(Apply, t) ==
  \/ Apply /\ UNCHANGED <<lossVars, sd_lost>>
  \/ /\ lostSends < MaxLost
     /\ lostSends' = lostSends + 1
     /\ inflight' = inflight \cup {t}
     /\ sd_lost' = TRUE
     /\ UNCHANGED sysVars

SaturatingSub(a, b) == IF a >= b THEN a - b ELSE 0

\* the client's actionable floor: zero, or positive below min_stake, is nothing to do
Actionable(d) == d < 0 \/ d >= MinStake

\* stable sort_by_key: key maps each element to its key; equal keys keep their order
SortByKey(s, key) ==
  SortSeq(s, LAMBDA x, y : key[x] < key[y] \/ (key[x] = key[y] /\ x.pos < y.pos))

\* validators_info: index, record and stake_delta of each validator
ValidatorsInfo(total) ==
  [i \in 1..Len(ValidatorList) |->
     LET v == ValidatorList[i] IN
     [pos |-> i, index |-> i, validator |-> v, score |-> score[v], lastSD |-> lastSD[v],
      need |-> StakeTarget(v, total) - activeBalance[v]]]

\* stakes_info_reversed: the stake list read last index first
StakesInfoReversed ==
  [k \in 1..Len(stakeList) |->
     LET i == Len(stakeList) + 1 - k IN
     [pos |-> k, index |-> i, id |-> stakeList[i], validator |-> stake[stakeList[i]].validator,
      amount |-> stake[stakeList[i]].amount, deactivation |-> stake[stakeList[i]].deactivation]]

\* the validator's stakes not deactivating, smallest first
ValidatorStakes(v) ==
  LET stakes == SelectSeq(sd_snapshot, LAMBDA s : s.validator = v /\ s.deactivation = Never)
  IN  SortByKey(stakes, [s \in ToSet(stakes) |-> s.amount])

ResetPass ==
  /\ sd_k' = 1
  /\ sd_stakes' = <<>>
  /\ sd_j' = 1
  /\ sd_sumTotal' = 0
  /\ sd_sumV' = 0
  /\ sd_toV' = 0
  /\ sd_left' = 0
  /\ sd_count' = 0
  /\ sd_ok' = 0
  /\ sd_err' = 0
  /\ sd_quiet' = TRUE
  /\ sd_lost' = FALSE

Init ==
  /\ LedgerInit
  /\ sd_pc = "Idle"
  /\ sd_view = StateView
  /\ sd_epoch = 0
  /\ sd_info = <<>>
  /\ sd_k = 1
  /\ sd_snapshot = <<>>
  /\ sd_stakes = <<>>
  /\ sd_j = 1
  /\ sd_total = 0
  /\ sd_sumTotal = 0
  /\ sd_sumV = 0
  /\ sd_toV = 0
  /\ sd_left = 0
  /\ sd_count = 0
  /\ sd_ok = 0
  /\ sd_err = 0
  /\ sd_exit = "none"
  /\ sd_quiet = TRUE
  /\ sd_lost = FALSE
  /\ inflight = {}
  /\ lostSends = 0

\* the limit and time checks after a transaction: leave the pass, or go on
Continue(pcNext, kNext) ==
  \/ /\ Limit > 0 /\ sd_count' >= Limit
     /\ sd_pc' = "Done" /\ sd_exit' = "budget" /\ sd_k' = sd_k
  \/ /\ TimeBudget
     /\ sd_pc' = "Done" /\ sd_exit' = "budget" /\ sd_k' = sd_k
  \/ /\ ~(Limit > 0 /\ sd_count' >= Limit)
     /\ sd_pc' = pcNext /\ sd_exit' = sd_exit /\ sd_k' = kNext

(***************************************************************************)
(* The start of process: the early return when the delta is not           *)
(* actionable, total_stake_target, validators_info, and the sort of either *)
(* path.  `(total_active_balance + stake_delta).try_into()?` cannot fail:  *)
(* the tickets behind a negative delta never exceed what the pool holds.   *)
(***************************************************************************)
StartPass ==
  LET d      == ViewDelta(StateView)
      target == TotalActive + d
      info   == ValidatorsInfo(target)
  IN
  /\ sd_pc \in {"Idle", "Done"}
  /\ sd_view' = StateView
  /\ sd_epoch' = epoch
  /\ ResetPass
  /\ \/ /\ ~Actionable(d)                          \* Ok(true): nothing to do
        /\ sd_pc' = "Done" /\ sd_exit' = "end"
        /\ sd_total' = 0
        /\ UNCHANGED <<sd_info, sd_snapshot>>
     \/ /\ d >= MinStake
        /\ sd_info' = SortByKey(info, [e \in ToSet(info) |-> -e.score])
        /\ sd_pc' = "Stake" /\ sd_exit' = "none"
        /\ sd_total' = 0
        /\ UNCHANGED sd_snapshot
     \/ /\ d < 0
        /\ sd_info' = SortByKey(info, [e \in ToSet(info) |-> e.need])
        /\ sd_snapshot' = StakesInfoReversed
        /\ sd_total' = -d
        /\ sd_pc' = "Unstake" /\ sd_exit' = "none"
  /\ UNCHANGED <<sysVars, lossVars>>

\* the stake path's once-per-epoch skip without the extra-runs exception
StakeSkipsIgnoringExtraRuns(e) ==
  \/ e.need < 0
  \/ e.need < MinStake
  \/ e.lastSD = sd_epoch

\* the stake loop's `continue`s: no need, less than min_stake, or already
\* run this epoch with no extra runs left
StakeSkips(e) ==
  \/ e.need < 0
  \/ e.need < MinStake
  \/ e.lastSD = sd_epoch /\ sd_view.extraRuns = 0

\* the recomputed delta is not actionable for staking: `break`
StakeStops(d) == d <= 0 \/ d < MinStake

(***************************************************************************)
(* One iteration of the stake loop: the skips, the recomputed delta, and  *)
(* begin/create_account/stake_reserve/commit/process_transaction, the     *)
(* ok/err count, update(), and the limit and time checks.                  *)
(***************************************************************************)
StakeStep ==
  /\ sd_pc = "Stake"
  /\ \/ /\ sd_k > Len(sd_info)
        /\ sd_pc' = "Done" /\ sd_exit' = "end"
        /\ UNCHANGED <<sysVars, sd_k, sd_view, sd_count, sd_ok, sd_err, sd_lost, lossVars>>
     \/ /\ sd_k <= Len(sd_info)
        /\ StakeSkips(sd_info[sd_k])
        /\ sd_k' = sd_k + 1
        /\ UNCHANGED <<sysVars, sd_pc, sd_exit, sd_view, sd_count, sd_ok, sd_err, sd_lost,
                       lossVars>>
     \/ /\ sd_k <= Len(sd_info)
        /\ ~StakeSkips(sd_info[sd_k])
        /\ StakeStops(ViewDelta(sd_view))
        /\ sd_pc' = "Done" /\ sd_exit' = "end"
        /\ UNCHANGED <<sysVars, sd_k, sd_view, sd_count, sd_ok, sd_err, sd_lost, lossVars>>
     \/ LET v == sd_info[sd_k].validator IN
        /\ sd_k <= Len(sd_info)
        /\ ~StakeSkips(sd_info[sd_k])
        /\ ~StakeStops(ViewDelta(sd_view))
        /\ IF StakeReserveOk(v)
           THEN /\ SendAccepted(StakeReserveApply(v), Pending("stakeReserve", v, 0, 0, <<>>))
                /\ sd_ok' = sd_ok + 1 /\ sd_err' = sd_err
           ELSE /\ UNCHANGED <<sysVars, lossVars, sd_lost>>
                /\ sd_ok' = sd_ok /\ sd_err' = sd_err + 1
        /\ sd_view' = StateView'
        /\ sd_count' = sd_count + 1
        /\ Continue("Stake", sd_k + 1)
  /\ UNCHANGED <<sd_epoch, sd_info, sd_snapshot, sd_stakes, sd_j, sd_total, sd_sumTotal,
                 sd_sumV, sd_toV, sd_left, sd_quiet>>

\* the outer unstake loop's `break`s, with the locked validator's `continue`
\* written as a `break`
UnstakeStopsAtLockedValidator(e, d) ==
  \/ sd_sumTotal >= sd_total
  \/ e.need >= 0
  \/ d >= 0
  \/ e.lastSD = sd_epoch

\* the outer unstake loop's `break`s: the total of the start reached, the
\* rest of the list needs stake, or the recomputed delta is no longer negative
UnstakeStops(e, d) ==
  \/ sd_sumTotal >= sd_total
  \/ e.need >= 0
  \/ d >= 0

\* the unstake loop's `continue`: stake-delta already ran on the validator
\* this epoch (extra runs are not consulted)
UnstakeSkips(e) == e.lastSD = sd_epoch

(***************************************************************************)
(* One iteration of the outer unstake loop: the `break`s, the recomputed  *)
(* delta, to_unstake_from_validator, the once-per-epoch `continue`, and   *)
(* the validator's stakes filtered from the snapshot and sorted.           *)
(***************************************************************************)
UnstakeOuter ==
  /\ sd_pc = "Unstake"
  /\ \/ /\ sd_k > Len(sd_info)
        /\ sd_pc' = "Done" /\ sd_exit' = "end"
        /\ UNCHANGED <<sd_k, sd_stakes, sd_j, sd_sumV, sd_toV, sd_left>>
     \/ /\ sd_k <= Len(sd_info)
        /\ UnstakeStops(sd_info[sd_k], ViewDelta(sd_view))
        /\ sd_pc' = "Done" /\ sd_exit' = "end"
        /\ UNCHANGED <<sd_k, sd_stakes, sd_j, sd_sumV, sd_toV, sd_left>>
     \/ /\ sd_k <= Len(sd_info)
        /\ ~UnstakeStops(sd_info[sd_k], ViewDelta(sd_view))
        /\ UnstakeSkips(sd_info[sd_k])
        /\ sd_k' = sd_k + 1
        /\ UNCHANGED <<sd_pc, sd_exit, sd_stakes, sd_j, sd_sumV, sd_toV, sd_left>>
     \/ LET e   == sd_info[sd_k]
            toV == Min2(-e.need, -ViewDelta(sd_view))
        IN
        /\ sd_k <= Len(sd_info)
        /\ ~UnstakeStops(e, ViewDelta(sd_view))
        /\ ~UnstakeSkips(e)
        /\ sd_stakes' = ValidatorStakes(e.validator)
        /\ sd_j' = 1
        /\ sd_sumV' = 0
        /\ sd_toV' = toV
        /\ sd_left' = toV
        /\ sd_pc' = "Validator"
        /\ UNCHANGED <<sd_k, sd_exit>>
  /\ UNCHANGED <<sysVars, sd_view, sd_epoch, sd_info, sd_snapshot, sd_total, sd_sumTotal,
                 sd_count, sd_ok, sd_err, sd_quiet, sd_lost, lossVars>>

\* the estimate of what one deactivate_stake took: the account's delegated
\* lamports when below what is left, otherwise what is left
EstimatedUnstaked(s) == IF s.amount < sd_left THEN s.amount ELSE sd_left

(***************************************************************************)
(* One iteration of the inner loop over the validator's stakes:           *)
(* deactivate_stake with the snapshot's stake index, commit,               *)
(* process_transaction, the estimate on success, update() and the limit;  *)
(* and the end of the validator with the limit and time checks.            *)
(***************************************************************************)
UnstakeInner ==
  /\ sd_pc = "Validator"
  /\ \/ /\ \/ sd_j > Len(sd_stakes)
           \/ sd_sumV >= sd_toV
           \/ Limit > 0 /\ sd_count >= Limit
        /\ sd_sumTotal' = sd_sumTotal + sd_sumV
        /\ UNCHANGED <<sysVars, sd_view, sd_j, sd_sumV, sd_left, sd_count, sd_ok, sd_err,
                       sd_lost, lossVars>>
        /\ Continue("Unstake", sd_k + 1)
     \/ LET s == sd_stakes[sd_j]
            v == sd_info[sd_k].validator
        IN
        /\ sd_j <= Len(sd_stakes)
        /\ sd_sumV < sd_toV
        /\ ~(Limit > 0 /\ sd_count >= Limit)
        /\ IF DeactivateOk(s.id, s.index, v)
           THEN /\ SendAccepted(DeactivateApply(s.id, v),
                               Pending("deactivate", v, s.id, s.index, <<>>))
                /\ sd_sumV' = sd_sumV + EstimatedUnstaked(s)
                /\ sd_left' = SaturatingSub(sd_left, EstimatedUnstaked(s))
                /\ sd_ok' = sd_ok + 1 /\ sd_err' = sd_err
           ELSE /\ UNCHANGED <<sysVars, sd_sumV, sd_left, sd_ok, lossVars, sd_lost>>
                /\ sd_err' = sd_err + 1
        /\ sd_view' = StateView'
        /\ sd_count' = sd_count + 1
        /\ sd_j' = sd_j + 1
        /\ UNCHANGED <<sd_pc, sd_exit, sd_k, sd_sumTotal>>
  /\ UNCHANGED <<sd_epoch, sd_info, sd_snapshot, sd_stakes, sd_total, sd_toV, sd_quiet>>

\* process: one step of the pass
Crank == StartPass \/ StakeStep \/ UnstakeOuter \/ UnstakeInner

(***************************************************************************)
(* The cluster processes a transaction of a pass that was returned as Ok  *)
(* unconfirmed: the program checks it against the ledger as it is now.   *)
(* It changes the ledger under whatever pass runs then.                    *)
(***************************************************************************)
LateLand ==
  \E t \in inflight :
    /\ t.op \in {"stakeReserve", "deactivate"}
    /\ inflight' = inflight \ {t}
    /\ IF t.op = "stakeReserve"
       THEN IF StakeReserveOk(t.v) THEN StakeReserveApply(t.v) ELSE UNCHANGED sysVars
       ELSE IF DeactivateOk(t.id, t.index, t.v) THEN DeactivateApply(t.id, t.v)
            ELSE UNCHANGED sysVars
    /\ sd_quiet' = FALSE
    /\ UNCHANGED <<sd_pc, sd_view, sd_epoch, sd_info, sd_k, sd_snapshot, sd_stakes, sd_j,
                   sd_total, sd_sumTotal, sd_sumV, sd_toV, sd_left, sd_count, sd_ok, sd_err,
                   sd_exit, sd_lost, lostSends>>

\* or its blockhash expires and it never lands
Expire ==
  /\ \E t \in inflight : inflight' = inflight \ {t}
  /\ UNCHANGED <<sysVars, sd_pc, sd_view, sd_epoch, sd_info, sd_k, sd_snapshot, sd_stakes,
                 sd_j, sd_total, sd_sumTotal, sd_sumV, sd_toV, sd_left, sd_count, sd_ok,
                 sd_err, sd_exit, sd_quiet, sd_lost, lostSends>>

\* users, the cluster and the other cranks; a pass they interleave with is
\* no longer quiet
Environment ==
  /\ LedgerEnvironment
  /\ sd_quiet' = FALSE
  /\ UNCHANGED <<sd_pc, sd_view, sd_epoch, sd_info, sd_k, sd_snapshot, sd_stakes, sd_j,
                 sd_total, sd_sumTotal, sd_sumV, sd_toV, sd_left, sd_count, sd_ok, sd_err,
                 sd_exit, sd_lost, lossVars>>

Next == Crank \/ LateLand \/ Expire \/ Environment

Spec == Init /\ [][Next]_vars

-----------------------------------------------------------------------------
(***************************************************************************)
(* Properties                                                              *)
(***************************************************************************)

TypeOK ==
  /\ sd_pc \in {"Idle", "Stake", "Unstake", "Validator", "Done"}
  /\ sd_exit \in {"none", "end", "budget"}
  /\ sd_k \in 1..Len(ValidatorList) + 1
  /\ sd_count \in 0..MaxStakeIds + Len(ValidatorList)
  /\ sd_ok + sd_err = sd_count
  /\ epoch \in 0..MaxEpoch
  /\ reserve \in 0..MaxLamports + MaxStakeIds * MaxLamports
  /\ coolingDown \in Nat
  /\ activeBalance \in [Validators -> Nat]
  /\ extraRuns \in Nat

\* the pass returned Ok(true) (no transaction failed, no budget ran out),
\* nothing but the pass touched the ledger while it ran, and every
\* transaction it counted Ok was confirmed
QuietCleanPass == sd_pc = "Done" /\ sd_exit = "end" /\ sd_err = 0 /\ sd_quiet /\ ~sd_lost

\* a validator the once-per-epoch rule as the spec states it lets through
Unlocked(v) == lastSD[v] = epoch => extraRuns > 0

(***************************************************************************)
(* After a quiet stake-path pass that returned Ok(true), either the       *)
(* reserve surplus is below min_stake or every validator still short by    *)
(* min_stake was already staked this epoch with no extra run left: the     *)
(* skips, the recomputed-delta `break` and the on-chain min(need, delta)   *)
(* leave no stake_reserve undone.                                          *)
(***************************************************************************)
StakePassComplete ==
  QuietCleanPass /\ sd_total = 0 =>
    \/ Delta < MinStake
    \/ \A v \in Validators : Need(v) < MinStake \/ ~Unlocked(v)

(***************************************************************************)
(* After a quiet unstake-path pass that returned Ok(true), the pass has    *)
(* neither overshot (the surplus it leaves is below min_stake, so the     *)
(* next pass does not stake it back) nor stopped short while some         *)
(* validator above its target had not yet run stake-delta this epoch:    *)
(* the estimates of what each deactivate_stake took add up to what the   *)
(* program unstaked.                                                       *)
(***************************************************************************)
UnstakePassComplete ==
  QuietCleanPass /\ sd_total > 0 =>
    /\ Delta < MinStake
    /\ \/ Delta >= 0
       \/ \A v \in Validators : Surplus(v) <= 0 \/ lastSD[v] = epoch

(***************************************************************************)
(* The same, with the once-per-epoch rule the spec gives both paths: a    *)
(* validator that already ran this epoch is skipped only when no extra    *)
(* run is left.                                                            *)
(***************************************************************************)
UnstakePassUsesExtraRuns ==
  QuietCleanPass /\ sd_total > 0 =>
    \/ Delta >= 0
    \/ \A v \in Validators : Surplus(v) <= 0 \/ ~Unlocked(v)

=============================================================================
