------------------------------ MODULE ProcessScores ------------------------------
(***************************************************************************)
(* Score post-processing: ProcessScoresOptions::process of                 *)
(* cli/score-post-process/src/process_scores.rs.  The command reads the    *)
(* scores file (avg.csv), the stake-view APY file and the `solana          *)
(* validators` output, grades each validator's health (is_healthy), zeroes *)
(* or halves the scores of unhealthy ones (PASS 0), turns each score into  *)
(* the stake it should have out of the active balance plus an imagined     *)
(* 100,000 SOL and replaces the score by that share, or by a fraction of   *)
(* what is staked when the share is below it (PASS 1), re-sorts, and       *)
(* writes rank, share and percentage (PASS 2).                             *)
(*                                                                         *)
(* Validators are the records' positions in the file (1..N).  Floats are   *)
(* exact rationals: each comparison is made on integers multiplied out,    *)
(* and each `as u32`/`as u64` cast is a floor.  Lamports are scaled:       *)
(* LamportsPerSol lamports make one SOL.  NoApy and NotListed (-1) stand   *)
(* for a validator missing from the APY file or from the validators output.*)
(***************************************************************************)
EXTENDS Integers, Sequences, SequencesExt, FiniteSets, FiniteSetsExt, TLC

CONSTANTS
  N,                \* records in avg.csv
  Blacklisted,      \* positions whose vote_address is one of the four paused ones
  ScoreValues,      \* score column values
  CreditValues,     \* epoch_credits column values (credits_observed)
  ThisEpochValues,  \* epochCredits of `solana validators`, or NotListed
  ApyValues,        \* apy of the stake-view file (percent), or NoApy
  PositionValues,   \* average_position column values
  StakedValues,     \* lamports marinade has staked with the validator, or NotOnChain
  LamportsPerSol,   \* LAMPORTS_PER_SOL, scaled down
  ImaginedStake,    \* sol_to_lamports(100000.0), scaled down
  OtherActive       \* active balance of on-chain validators not in the file

NoApy == -1
NotListed == -1
NotOnChain == -1

\* HEALTHY_VALIDATOR_MAX_COMMISSION, MIN_AVERAGE_POSITION, MIN_APY_TO_CONSIDER_FOR_AVG_APY
HealthyValidatorMaxCommission == 20
MinAveragePosition == 35
MinApyToConsiderForAvgApy == 4

Positions == 1..N

\* a record of avg.csv joined with the other files: the fields is_healthy
\* and the passes read
Record == [score : ScoreValues, underNakamoto : BOOLEAN, commission : {0, 30},
           creditsObserved : CreditValues, thisEpochCredits : ThisEpochValues,
           apy : ApyValues, averagePosition : PositionValues, staked : StakedValues]

VARIABLES
  apyFile,   \* the --apy-file option was given
  input,     \* position -> Record
  result     \* "pending", a panic, or the rows written to post-process.csv

vars == <<apyFile, input, result>>

Pending == [outcome |-> "pending", rows |-> <<>>]

Init ==
  /\ apyFile \in BOOLEAN
  /\ input \in [Positions -> Record]
  /\ ~apyFile => \A i \in Positions : input[i].apy = NoApy
  /\ result = Pending

-----------------------------------------------------------------------------
(***************************************************************************)
(* The joins: the average APY and the average this-epoch credits.          *)
(***************************************************************************)

\* avg_apy as a fraction [num, den]: 5.0 without the file, 4.5 when no
\* validator has an APY above MIN_APY_TO_CONSIDER_FOR_AVG_APY
AvgApy ==
  LET counted == {i \in Positions : input[i].apy > MinApyToConsiderForAvgApy} IN
  IF ~apyFile THEN [num |-> 5, den |-> 1]
  ELSE IF counted = {} THEN [num |-> 9, den |-> 2]
  ELSE [num |-> SumFunctionOnSet([i \in Positions |-> input[i].apy], counted),
        den |-> Cardinality(counted)]

Listed == {i \in Positions : input[i].thisEpochCredits # NotListed}

\* sum_this_epoch_credits / count_credit_data_points (u64; no data point panics)
AvgThisEpochCredits ==
  SumFunctionOnSet([i \in Positions |-> input[i].thisEpochCredits], Listed)
    \div Cardinality(Listed)

ThisEpochCredits(i) == IF i \in Listed THEN input[i].thisEpochCredits ELSE 0

-----------------------------------------------------------------------------
(***************************************************************************)
(* is_healthy: the first rung of the ladder that holds gives the remove    *)
(* level (0 healthy, 1 halve, 2 unstake, 3 unstake and remove).  The two   *)
(* APY rungs test `apy.unwrap_or(6.0)` and format `apy.unwrap()`.          *)
(***************************************************************************)
HealthRungs(i, avgCredits) ==
  LET r      == input[i]
      apyOr6 == IF r.apy = NoApy THEN 6 ELSE r.apy
      avg    == AvgApy
  IN
  << [holds |-> r.underNakamoto, level |-> 2],
     [holds |-> r.commission > HealthyValidatorMaxCommission, level |-> 3],
     [holds |-> ThisEpochCredits(i) < (avgCredits * 8) \div 10, level |-> 2],
     [holds |-> ThisEpochCredits(i) < (avgCredits * 9) \div 10, level |-> 1],
     [holds |-> r.creditsObserved = 0, level |-> 2],
     [holds |-> 2 * apyOr6 * avg.den < avg.num, level |-> 2, unwrapsApy |-> TRUE],
     [holds |-> 10 * apyOr6 * avg.den < 8 * avg.num, level |-> 1, unwrapsApy |-> TRUE],
     [holds |-> r.averagePosition < MinAveragePosition, level |-> 1],
     [holds |-> TRUE, level |-> 0] >>

\* the rung is_healthy returns at
HealthRung(i, avgCredits) ==
  LET rungs == HealthRungs(i, avgCredits) IN
  rungs[Min({k \in DOMAIN rungs : rungs[k].holds})]

RemoveLevel(i, avgCredits) == HealthRung(i, avgCredits).level

\* the rung formats `self.apy.unwrap()` of a validator without APY data
UnwrapsMissingApy(i, avgCredits) ==
  /\ "unwrapsApy" \in DOMAIN HealthRung(i, avgCredits)
  /\ input[i].apy = NoApy

\* PASS 0: halve at level 1, zero above, zero the paused vote accounts
Pass0Score(i, level) ==
  IF i \in Blacklisted \/ level > 1 THEN 0
  ELSE IF level = 1 THEN input[i].score \div 2
  ELSE input[i].score

\* every validator whose level is computed in PASS 0
Levels == [i \in Positions |-> RemoveLevel(i, AvgThisEpochCredits)]

Pass0Scores == [i \in Positions |-> Pass0Score(i, Levels[i])]

\* total_score, summed over the file's scores before PASS 0
FileTotalScore == SumFunction([i \in Positions |-> input[i].score])

-----------------------------------------------------------------------------
(***************************************************************************)
(* PASS 1: the stake marinade holds with each validator of the on-chain    *)
(* list (active stake accounts), the share of total_stake_target its score *)
(* earns, and the score adjusted to that share or, when the share is below *)
(* the stake, to a fraction of the stake.                                  *)
(***************************************************************************)
OnChain(i) == input[i].staked # NotOnChain

\* sum_stake of the validator's active stake accounts (0 off the list)
MarinadeStaked(i) == IF OnChain(i) THEN input[i].staked ELSE 0

\* total_active_balance + sol_to_lamports(100000.0)
TotalStakeTarget ==
  OtherActive + SumFunction([i \in Positions |-> MarinadeStaked(i)]) + ImaginedStake

\* `(score as f64 * total_stake_target as f64 / total_score as f64) as u64`:
\* 0/0 is NaN, which the cast makes 0
ShouldHaveLamports(i, score, total) ==
  IF OnChain(i) /\ total # 0 THEN (score * TotalStakeTarget) \div total ELSE 0

ShouldHaves == [i \in Positions |-> ShouldHaveLamports(i, Pass0Scores[i], FileTotalScore)]

\* the adjusted score without the unstake of validators marked for removal
AdjustedScoreKeepsMarked(i, level, shouldHave) ==
  IF shouldHave < MarinadeStaked(i)
  THEN IF level = 1 THEN (MarinadeStaked(i) * 5) \div (10 * LamportsPerSol)
       ELSE (MarinadeStaked(i) * 9) \div (10 * LamportsPerSol)
  ELSE shouldHave \div LamportsPerSol

\* the adjust-score loop: SOL, cast to u32
AdjustedScore(i, level, shouldHave) ==
  IF shouldHave < MarinadeStaked(i)
  THEN IF level > 1 THEN 0
       ELSE IF level = 1 THEN (MarinadeStaked(i) * 5) \div (10 * LamportsPerSol)
       ELSE (MarinadeStaked(i) * 9) \div (10 * LamportsPerSol)
  ELSE shouldHave \div LamportsPerSol

AdjustedScores == [i \in Positions |-> AdjustedScore(i, Levels[i], ShouldHaves[i])]

\* total_score recomputed after the adjustment
FinalTotalScore == SumFunction(AdjustedScores)

\* marinade_finance::calc::proportional: the amount itself when the
\* denominator is 0
Proportional(amount, numerator, denominator) ==
  IF denominator = 0 THEN amount ELSE (amount * numerator) \div denominator

\* `sort_by(|a, b| b.score.cmp(&a.score))`: a stable sort, descending
SortByScoreDesc(s, key) ==
  LET at == [x \in ToSet(s) |-> CHOOSE k \in DOMAIN s : s[k] = x] IN
  SortSeq(s, LAMBDA a, b : key[a] > key[b] \/ (key[a] = key[b] /\ at[a] < at[b]))

\* the list as sorted after reading avg.csv
FileOrder == SortByScoreDesc([k \in Positions |-> k], [i \in Positions |-> input[i].score])

\* the rows without the sort after the adjustment
FinalOrderUnsorted == FileOrder

\* the list as re-sorted by the adjusted scores
FinalOrder == SortByScoreDesc(FileOrder, AdjustedScores)

\* the rows without the recomputed total_score
RowsStaleTotal ==
  [k \in Positions |->
     LET i == FinalOrder[k] IN
     [vote |-> i, rank |-> k, score |-> AdjustedScores[i], removeLevel |-> Levels[i],
      shouldHave |-> Proportional(AdjustedScores[i], TotalStakeTarget, FileTotalScore),
      pct |-> (AdjustedScores[i] * 100000000) \div FinalTotalScore]]

\* the rows with the rank counter starting at 0
RowsRankFromZero ==
  [k \in Positions |->
     LET i == FinalOrder[k] IN
     [vote |-> i, rank |-> k - 1, score |-> AdjustedScores[i], removeLevel |-> Levels[i],
      shouldHave |-> Proportional(AdjustedScores[i], TotalStakeTarget, FinalTotalScore),
      pct |-> (AdjustedScores[i] * 100000000) \div FinalTotalScore]]

\* rank, should_have and pct (score * 10^8 / total_score, u64) of each row
Rows ==
  [k \in Positions |->
     LET i == FinalOrder[k] IN
     [vote |-> i, rank |-> k, score |-> AdjustedScores[i], removeLevel |-> Levels[i],
      shouldHave |-> Proportional(AdjustedScores[i], TotalStakeTarget, FinalTotalScore),
      pct |-> (AdjustedScores[i] * 100000000) \div FinalTotalScore]]

-----------------------------------------------------------------------------
(***************************************************************************)
(* process: the panics on the way, in the order the code meets them (the   *)
(* average credits with no data point, the APY unwrap in PASS 0, the pct   *)
(* division with a zero total), or the rows written in PASS 2.             *)
(***************************************************************************)
Outcome ==
  IF Listed = {} THEN [outcome |-> "panicCredits", rows |-> <<>>]
  ELSE IF \E i \in Positions : UnwrapsMissingApy(i, AvgThisEpochCredits)
       THEN [outcome |-> "panicApy", rows |-> <<>>]
  ELSE IF Positions # {} /\ FinalTotalScore = 0
       THEN [outcome |-> "panicPct", rows |-> <<>>]
  ELSE [outcome |-> "written", rows |-> Rows]

Process ==
  /\ result = Pending
  /\ result' = Outcome
  /\ UNCHANGED <<apyFile, input>>

Next == Process

Spec == Init /\ [][Next]_vars

-----------------------------------------------------------------------------
(***************************************************************************)
(* Properties                                                              *)
(***************************************************************************)

Written == result.outcome = "written"

TypeOK ==
  /\ apyFile \in BOOLEAN
  /\ input \in [Positions -> Record]
  /\ result.outcome \in {"pending", "panicCredits", "panicApy", "panicPct", "written"}
  /\ result.rows \in Seq([vote : Positions, rank : Positions, score : Nat, removeLevel : 0..3,
                          shouldHave : Nat, pct : Nat])

(***************************************************************************)
(* A validator marked for unstake (remove level 2 or 3 from is_healthy) or *)
(* missing from the on-chain list is written with score 0: PASS 0 zeroes   *)
(* its score, and the adjust loop must not turn the stake it still holds   *)
(* back into a score.                                                      *)
(***************************************************************************)
UnhealthyUnscored ==
  Written =>
    \A k \in DOMAIN result.rows :
      LET row == result.rows[k] IN
      (row.removeLevel > 1 \/ ~OnChain(row.vote)) => row.score = 0

(***************************************************************************)
(* The file lists every validator once, by rank 1, 2, ..., with the scores *)
(* written in descending order: the ranks are given after the re-sort of  *)
(* the adjusted scores, not in the order of the scores read.               *)
(***************************************************************************)
RanksFollowScores ==
  Written =>
    /\ {result.rows[k].vote : k \in DOMAIN result.rows} = Positions
    /\ \A k \in DOMAIN result.rows : result.rows[k].rank = k
    /\ \A k, l \in DOMAIN result.rows : k < l => result.rows[k].score >= result.rows[l].score

(***************************************************************************)
(* The should_have and pct columns split total_stake_target and 100% among *)
(* the rows, up to one unit of rounding per row: both are computed against *)
(* the total of the adjusted scores, recomputed after PASS 1.              *)
(***************************************************************************)
SharesSplitTarget ==
  Written =>
    LET rows  == result.rows
        share == SumFunction([k \in DOMAIN rows |-> rows[k].shouldHave])
        pct   == SumFunction([k \in DOMAIN rows |-> rows[k].pct])
    IN /\ share <= TotalStakeTarget /\ TotalStakeTarget - share < N
       /\ pct <= 100000000 /\ 100000000 - pct < N

(***************************************************************************)
(* The command never panics formatting the reason of an APY rung for a     *)
(* validator without APY data (the rung itself falls back to 6%).          *)
(***************************************************************************)
NoApyUnwrapPanic == result.outcome # "panicApy"

=============================================================================
