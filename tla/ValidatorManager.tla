---------------------------- MODULE ValidatorManager ----------------------------
(***************************************************************************)
(* The validator-manager commands that change the validator list           *)
(* (cli/validator-manager/src/main.rs dispatches one per run):             *)
(* update-scores, add-validators and remove-validators.  A run is one      *)
(* command from a list the program may hold, with the authority given     *)
(* right or wrong; it reads the list, builds, and sends.                   *)
(***************************************************************************)
EXTENDS UpdateScores, RemoveValidators, AddValidators

CONSTANTS
  Commands,         \* the commands a run may be
  InitLists,        \* the validator lists a run may start from
  AuthorityValues,  \* whether the authority given matches the state's
  MaxArgs           \* the longest validator_votes argument

vars == <<listVars, usVars>>

\* the validator_votes arguments: vote accounts, repeats allowed
ArgValues == UNION {[1..n -> Votes] : n \in 0..MaxArgs}

Init ==
  /\ cmd \in Commands
  /\ list \in InitLists
  /\ snapshot = list
  /\ authorityOk \in AuthorityValues
  /\ txs = <<>>
  /\ sent = 0
  /\ outcome = "building"
  /\ failed = "none"
  /\ inflight = {}
  /\ lost = 0
  /\ IF cmd = "update-scores"
     THEN UsInit /\ args = <<>>
     ELSE /\ file = [v \in ToSet(FileOrder) |-> NoRecord]
          /\ inFile = {}
          /\ oneByOne = FALSE
          /\ args \in ArgValues

\* the command's build, then its sends
Next ==
  \/ UsBuild
  \/ RvBuild /\ UNCHANGED usVars
  \/ AvBuild /\ UNCHANGED usVars
  \/ SendOk /\ UNCHANGED usVars
  \/ SendUnconfirmed /\ UNCHANGED usVars
  \/ SendFails /\ UNCHANGED usVars
  \/ LateLand /\ UNCHANGED usVars
  \/ Expire /\ UNCHANGED usVars

Spec == Init /\ [][Next]_vars

=============================================================================
