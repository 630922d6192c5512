----------------------------- MODULE AddValidators -----------------------------
(***************************************************************************)
(* The validator manager's add-validators command: AddValidatorOptions::  *)
(* process of cli/validator-manager/src/add_validator.rs.  For each vote   *)
(* account given (or, with none given, each of get_vote_accounts().current *)
(* in the order the node returns them) the add_validator closure sets the *)
(* score 0x100 of a listed validator whose score is 0, leaves a listed     *)
(* one with a score alone, and adds an unlisted one with score 0x100 while *)
(* the snapshot's length plus the adds so far is below the capacity.      *)
(***************************************************************************)
EXTENDS ValidatorList

CONSTANT
  ClusterVotes   \* get_vote_accounts().current: the cluster's current vote accounts

\* the score the command gives (0x100)
DefaultScore == 256

\* the vote accounts the closure is called with
Requested(votes) == IF votes = <<>> THEN ClusterVotes ELSE votes

\* the closure without the set_validator_score of a listed validator of score 0
RECURSIVE AddLoopNoRescore(_, _)
AddLoopNoRescore(keys, added) ==
  IF keys = <<>> THEN <<>>
  ELSE LET v == Head(keys) IN
       IF v \in VotesOf(snapshot) THEN AddLoopNoRescore(Tail(keys), added)
       ELSE IF Len(snapshot) + added >= MaxValidators THEN AddLoopNoRescore(Tail(keys), added)
       ELSE <<[op |-> "add", index |-> 0, vote |-> v, score |-> DefaultScore]>>
              \o AddLoopNoRescore(Tail(keys), added + 1)

\* the add_validator closure over the keys, counting the adds
RECURSIVE AddLoop(_, _)
AddLoop(keys, added) ==
  IF keys = <<>> THEN <<>>
  ELSE LET v == Head(keys) IN
       IF v \in VotesOf(snapshot)
       THEN LET k == IndexIn(snapshot, v) IN
            (IF snapshot[k].score = 0
             THEN <<[op |-> "set", index |-> k, vote |-> v, score |-> DefaultScore]>>
             ELSE <<>>) \o AddLoop(Tail(keys), added)
       ELSE IF Len(snapshot) + added >= MaxValidators THEN AddLoop(Tail(keys), added)
       ELSE <<[op |-> "add", index |-> 0, vote |-> v, score |-> DefaultScore]>>
              \o AddLoop(Tail(keys), added + 1)

AvInstructions == AddLoop(Requested(args), 0)

\* the loop over the keys and the send
AvBuild ==
  /\ cmd = "add-validators"
  /\ outcome = "building"
  /\ BuildDone(AvInstructions, PerTx)
  /\ UNCHANGED <<cmd, list, snapshot, authorityOk, sent, args, inflight, lost>>

(***************************************************************************)
(* A run that returns Ok leaves every vote account it was given listed     *)
(* with a non-zero score: one listed with score 0 is given 0x100, and only *)
(* one not listed may be left out, when the list is full; unless one of    *)
(* its transactions was returned as Ok without being confirmed.             *)
(***************************************************************************)
RequestedListed ==
  cmd = "add-validators" /\ outcome = "ok" /\ ~LostEver =>
    \A v \in ToSet(Requested(args)) :
      \/ v \in ListedVotes /\ list[IndexIn(list, v)].score > 0
      \/ v \notin VotesOf(snapshot) /\ Len(list) >= MaxValidators

=============================================================================
