------------------------------ MODULE UpdateScores ------------------------------
(***************************************************************************)
(* The validator manager's update-scores command: UpdateScoresOptions::    *)
(* process of cli/validator-manager/src/update_scores.rs.  It reads        *)
(* post-process.csv, takes one snapshot of the validator list and of the   *)
(* stake accounts, and builds set_validator_score, remove_validator and    *)
(* add_validator instructions by snapshot index; then it sends them in     *)
(* order, stopping at the first failure.  With -1 each instruction is sent *)
(* as soon as it is built, as a transaction of its own.                    *)
(*                                                                         *)
(* Marinade's stake with a listed validator is its entry's balance: the    *)
(* file's marinade_staked and the active stake accounts the second loop    *)
(* sums are both non-zero exactly when the balance is.                     *)
(***************************************************************************)
EXTENDS ValidatorList

CONSTANTS
  FileOrder,      \* the vote accounts in the order of post-process.csv
  ScoreValues     \* score column values (0 among them)

\* a record of post-process.csv: score, remove_level, avg_active_stake < 100
FileRecord == [score : ScoreValues, removeLevel : {0, 2, 3}, smallAvg : BOOLEAN]

\* the record of a vote account the file does not list
NoRecord == [score |-> 0, removeLevel |-> 0, smallAvg |-> FALSE]

VARIABLES
  file,       \* vote -> its record (NoRecord when the file does not list it)
  inFile,     \* the votes post-process.csv lists
  oneByOne    \* the -1 option

usVars == <<file, inFile, oneByOne>>

(***************************************************************************)
(* The files a run can meet: post-process.csv gives a validator with      *)
(* remove level 2 or 3 the score 0 (PASS 0).                              *)
(***************************************************************************)
UsInit ==
  /\ inFile \in SUBSET ToSet(FileOrder)
  /\ file \in [ToSet(FileOrder) -> FileRecord]
  /\ \A v \in ToSet(FileOrder) :
       /\ file[v].removeLevel >= 2 => file[v].score = 0
       /\ file[v].smallAvg => file[v].removeLevel = 2
       /\ v \notin inFile => file[v] = NoRecord
  /\ oneByOne \in BOOLEAN

\* marinade_staked > 0 of the file, and the second loop's sum_stake > 0
Staked(v) == v \in VotesOf(snapshot) /\ snapshot[IndexIn(snapshot, v)].balance > 0

\* `sort_by(|a, b| b.score.cmp(&a.score))` of the records read, stable
Records ==
  LET listed == SelectSeq(FileOrder, LAMBDA v : v \in inFile)
      at     == [v \in inFile |-> CHOOSE k \in DOMAIN listed : listed[k] = v]
  IN SortSeq(listed, LAMBDA a, b : file[a].score > file[b].score
                                   \/ (file[a].score = file[b].score /\ at[a] < at[b]))

\* the +/-5% test of the set-score branch without the test for a drop
ScoreChangedUpOnly(s, cur) == s > (cur * 105) \div 100

\* "has the score changed +/-5%?"
ScoreChanged(s, cur) == s < (cur * 95) \div 100 \/ s > (cur * 105) \div 100

\* the removal test of a listed validator
RemovedInList(v) ==
  LET r == file[v] IN
  r.removeLevel >= 2 /\ ~Staked(v) /\ (r.removeLevel >= 3 \/ r.smallAvg)

\* the test that keeps an unlisted validator out of the list
SkippedNotListed(r) ==
  r.removeLevel >= 3 \/ (r.removeLevel > 1 /\ r.smallAvg)

\* the capacity test off by one: `>` for `>=`
RecordInstructionsCapacityOffByOne(v, added) ==
  LET r == file[v] IN
  IF v \in VotesOf(snapshot)
  THEN LET k == IndexIn(snapshot, v) IN
       (IF ScoreChanged(r.score, snapshot[k].score)
        THEN <<[op |-> "set", index |-> k, vote |-> v, score |-> r.score]>> ELSE <<>>)
       \o (IF RemovedInList(v) THEN <<[op |-> "remove", index |-> k, vote |-> v, score |-> 0]>>
           ELSE <<>>)
  ELSE IF SkippedNotListed(r) \/ Len(snapshot) + added > MaxValidators THEN <<>>
  ELSE <<[op |-> "add", index |-> 0, vote |-> v, score |-> r.score]>>

\* the instructions of one record of the first loop, given the adds so far
RecordInstructions(v, added) ==
  LET r == file[v] IN
  IF v \in VotesOf(snapshot)
  THEN LET k == IndexIn(snapshot, v) IN
       (IF ScoreChanged(r.score, snapshot[k].score)
        THEN <<[op |-> "set", index |-> k, vote |-> v, score |-> r.score]>> ELSE <<>>)
       \o (IF RemovedInList(v) THEN <<[op |-> "remove", index |-> k, vote |-> v, score |-> 0]>>
           ELSE <<>>)
  ELSE IF SkippedNotListed(r) \/ Len(snapshot) + added >= MaxValidators THEN <<>>
  ELSE <<[op |-> "add", index |-> 0, vote |-> v, score |-> r.score]>>

\* the first loop over the records, counting the adds for the capacity test
RECURSIVE FirstLoop(_, _)
FirstLoop(recs, added) ==
  IF recs = <<>> THEN <<>>
  ELSE LET ixs == RecordInstructions(Head(recs), added)
           adds == Cardinality({j \in DOMAIN ixs : ixs[j].op = "add"})
       IN ixs \o FirstLoop(Tail(recs), added + adds)

\* the second loop: listed validators missing from the file and without stake
SecondLoop ==
  LET gone == SelectSeq([k \in DOMAIN snapshot |-> k],
                        LAMBDA k : snapshot[k].vote \notin inFile /\ ~Staked(snapshot[k].vote))
  IN [j \in DOMAIN gone |->
        [op |-> "remove", index |-> gone[j], vote |-> snapshot[gone[j]].vote, score |-> 0]]

UsInstructions == FirstLoop(Records, 0) \o SecondLoop

\* both loops, then the send of the combined sequence (or, with -1, one
\* instruction per transaction)
UsBuild ==
  /\ cmd = "update-scores"
  /\ outcome = "building"
  /\ BuildDone(UsInstructions, IF oneByOne THEN 1 ELSE PerTx)
  /\ UNCHANGED <<cmd, list, snapshot, authorityOk, args, sent, inflight, lost>>
  /\ UNCHANGED usVars

-----------------------------------------------------------------------------
(***************************************************************************)
(* A run that returns Ok leaves the list as the file asks, so that the     *)
(* next run has nothing to do: every listed validator of the file has a    *)
(* score within 5% of the file's, the unhealthy ones without stake are     *)
(* removed, the ones missing from the file are removed unless stake is    *)
(* delegated to them, and no vote account is listed twice.  The           *)
(* instructions carry indices of the snapshot, and removals move the last  *)
(* entry.  A transaction returned as Ok without being confirmed (it may    *)
(* land late or never) excuses the run.                                     *)
(***************************************************************************)
SuccessfulRunSettles ==
  cmd = "update-scores" /\ outcome = "ok" /\ ~LostEver =>
    /\ Len(list) = Cardinality(ListedVotes)
    /\ \A k \in DOMAIN list :
         LET v == list[k].vote IN
         v \in inFile =>
           /\ (list[k].score * 95) \div 100 <= file[v].score
           /\ file[v].score <= (list[k].score * 105) \div 100
    /\ \A v \in VotesOf(snapshot) \cap inFile : RemovedInList(v) => v \notin ListedVotes
    /\ \A v \in VotesOf(snapshot) \ inFile : (v \in ListedVotes) = Staked(v)

(***************************************************************************)
(* No add_validator is refused for a full list: the capacity tests of      *)
(* update-scores and of add-validators count the validators listed in the *)
(* snapshot plus the adds built so far.                                    *)
(***************************************************************************)
AddsWithinCapacity == failed # "full"

(***************************************************************************)
(* Every instruction update-scores builds lands: with the right authority *)
(* no transaction fails.                                                   *)
(***************************************************************************)
EveryInstructionLands ==
  cmd = "update-scores" /\ authorityOk => outcome # "error"

=============================================================================
