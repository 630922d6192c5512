---------------------------- MODULE RemoveValidators ----------------------------
(***************************************************************************)
(* The validator manager's remove-validators command:                      *)
(* RemoveValidatorsOptions::process of                                     *)
(* cli/validator-manager/src/remove_validators.rs.  With no vote account   *)
(* given it removes every validator whose active_balance is 0; with vote   *)
(* accounts given, those of them that are listed with active_balance 0     *)
(* (the others are logged).  The removals are built from the last index    *)
(* down, "to make remove index stable operation", and sent as one          *)
(* combined sequence.                                                      *)
(***************************************************************************)
EXTENDS ValidatorList

\* the snapshot indices chosen for removal, in list order
Chosen(l, votes) ==
  SelectSeq([k \in DOMAIN l |-> k],
            LAMBDA k : (votes = <<>> \/ l[k].vote \in ToSet(votes)) /\ l[k].balance = 0)

\* validators_to_remove without `.rev()`
RemoveIndicesForward(l, votes) == Chosen(l, votes)

\* validators_to_remove: the chosen indices, last first
RemoveIndices(l, votes) == Reverse(Chosen(l, votes))

RvInstructions ==
  LET idx == RemoveIndices(snapshot, args) IN
  [j \in DOMAIN idx |->
     [op |-> "remove", index |-> idx[j], vote |-> snapshot[idx[j]].vote, score |-> 0]]

\* the loop of builder.remove_validator(...)? and the send
RvBuild ==
  /\ cmd = "remove-validators"
  /\ outcome = "building"
  /\ BuildDone(RvInstructions, PerTx)
  /\ UNCHANGED <<cmd, list, snapshot, authorityOk, sent, args, inflight, lost>>

(***************************************************************************)
(* Every removal the command builds lands, and a run that returns Ok has   *)
(* removed exactly the validators it chose and moved no other: its         *)
(* indices stay valid because each removal only moves an entry from above  *)
(* the indices still to come.  Only the second half is excused by a       *)
(* transaction returned as Ok without being confirmed.                      *)
(***************************************************************************)
RemovalsLand ==
  cmd = "remove-validators" =>
  /\ failed # "index"
  /\ outcome = "ok" /\ ~LostEver =>
       ListedVotes = VotesOf(snapshot) \
                       {snapshot[k].vote : k \in ToSet(RemoveIndices(snapshot, args))}

=============================================================================
