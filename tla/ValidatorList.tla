------------------------------ MODULE ValidatorList ------------------------------
(***************************************************************************)
(* The validator list the validator-manager commands act on, and the way   *)
(* they send to it.  Each command reads one snapshot (RpcMarinade::        *)
(* validator_list), builds instructions through the InstructionHelpers of  *)
(* sdk/offchain/src/instruction_helpers.rs, each naming its validator by   *)
(* the snapshot's index and its vote account, and sends them with          *)
(* process_transaction_sequence, which stops at the first failure.         *)
(*                                                                         *)
(* The program is not in this source tree.  Its list follows the spec's   *)
(* list rule (removal is swap-with-last): set_validator_score and          *)
(* remove_validator fail unless the entry at the index holds the vote      *)
(* account, add_validator appends and fails on a full list or a vote       *)
(* account already listed, and a transaction is atomic.                    *)
(*                                                                         *)
(* process_transaction is execute_transaction (rpc_client_helpers.rs):    *)
(* Err only for a preflight failure with logs; a transaction sent but not *)
(* confirmed is logged and returned as Ok, the sequence goes on, and the  *)
(* transaction lands later or never.                                       *)
(***************************************************************************)
EXTENDS Integers, Sequences, SequencesExt, FiniteSets, FiniteSetsExt

CONSTANTS
  Votes,          \* the vote accounts
  MaxValidators,  \* validator_list_capacity
  PerTx,          \* instructions TransactionBuilder::limited fits in a transaction
  MaxLost         \* model bound: transactions lost in sending or confirmation per run

VARIABLES
  cmd,          \* the command run: "update-scores", "add-validators" or "remove-validators"
  list,         \* the on-chain validator list: <<[vote, score, balance]>>
  snapshot,     \* the list as the command read it (validator_list) at its start
  authorityOk,  \* the validator manager authority given is the state's
  args,         \* validator_votes: the vote accounts given (<<>> for none)
  txs,          \* the transactions built, in sending order
  sent,         \* transactions applied so far
  outcome,      \* "building", "sending", "ok" or "error"
  failed,       \* what failed the command: "index", "full", "listed", "authority" or "none"
  inflight,     \* transactions returned as Ok that have not landed yet
  lost          \* transactions returned as Ok without being confirmed

listVars == <<cmd, list, snapshot, authorityOk, args, txs, sent, outcome, failed, inflight, lost>>

\* some transaction of the run was returned as Ok without being confirmed
LostEver == lost > 0

VotesOf(l) == {l[k].vote : k \in DOMAIN l}

ListedVotes == VotesOf(list)

\* validator_indices: the snapshot index of a listed vote account
IndexIn(l, v) == CHOOSE k \in DOMAIN l : l[k].vote = v

ValidatorAt(l, k, v) == k \in 1..Len(l) /\ l[k].vote = v

\* List::remove: the last entry takes the removed one's place
SwapRemove(l, k) ==
  IF k = Len(l) THEN Front(l) ELSE [Front(l) EXCEPT ![k] = Last(l)]

\* one instruction: [ok, list, why it failed]
Execute(l, ix) ==
  IF ix.op = "add"
  THEN LET full   == Len(l) >= MaxValidators
           listed == ix.vote \in VotesOf(l)
       IN [ok |-> ~full /\ ~listed,
           list |-> IF full \/ listed THEN l
                    ELSE Append(l, [vote |-> ix.vote, score |-> ix.score, balance |-> 0]),
           why |-> IF full THEN "full" ELSE "listed"]
  ELSE [ok |-> ValidatorAt(l, ix.index, ix.vote),
        list |-> IF ~ValidatorAt(l, ix.index, ix.vote) THEN l
                 ELSE IF ix.op = "set" THEN [l EXCEPT ![ix.index].score = ix.score]
                 ELSE SwapRemove(l, ix.index),
        why |-> "index"]

\* a transaction: all of its instructions or none; failed says why the
\* instruction that failed it failed
ExecuteTx(l, tx) ==
  FoldLeft(LAMBDA acc, ix :
             IF ~acc.ok THEN acc
             ELSE LET r == Execute(acc.list, ix) IN
                  [ok |-> r.ok, list |-> r.list, failed |-> IF r.ok THEN "none" ELSE r.why],
           [ok |-> TRUE, list |-> l, failed |-> "none"], tx)

\* combined_sequence of a limited builder: consecutive single-instruction
\* packs, PerTx to a transaction
Combine(ixs, per) ==
  [t \in 1..((Len(ixs) + per - 1) \div per) |->
     SubSeq(ixs, (t - 1) * per + 1, IF t * per < Len(ixs) THEN t * per ELSE Len(ixs))]

(***************************************************************************)
(* The end of a command's build: set_validator_score, remove_validator and *)
(* add_validator return Err(InvalidValidatorManagerAuthority) before they  *)
(* add anything when the authority is not the state's, and the command's *)
(* `?` returns it at the first instruction; an empty builder sends        *)
(* nothing.                                                                *)
(***************************************************************************)
BuildDone(ixs, per) ==
  /\ txs' = IF authorityOk THEN Combine(ixs, per) ELSE <<>>
  /\ outcome' = IF ixs = <<>> THEN "ok" ELSE IF authorityOk THEN "sending" ELSE "error"
  /\ failed' = IF ixs # <<>> /\ ~authorityOk THEN "authority" ELSE "none"

\* process_transaction of the next transaction, which lands
SendOk ==
  /\ outcome = "sending"
  /\ LET r == ExecuteTx(list, txs[sent + 1]) IN
     /\ r.ok
     /\ list' = r.list
     /\ sent' = sent + 1
     /\ outcome' = IF sent + 1 = Len(txs) THEN "ok" ELSE "sending"
  /\ UNCHANGED <<cmd, snapshot, authorityOk, args, txs, failed, inflight, lost>>

\* the next transaction passes preflight but is not confirmed: logged,
\* returned as Ok, and the sequence goes on
SendUnconfirmed ==
  /\ outcome = "sending"
  /\ lost < MaxLost
  /\ ExecuteTx(list, txs[sent + 1]).ok
  /\ inflight' = inflight \cup {txs[sent + 1]}
  /\ lost' = lost + 1
  /\ sent' = sent + 1
  /\ outcome' = IF sent + 1 = Len(txs) THEN "ok" ELSE "sending"
  /\ UNCHANGED <<cmd, list, snapshot, authorityOk, args, txs, failed>>

\* the next transaction fails: `?` ends the command, the rest is never sent
SendFails ==
  /\ outcome = "sending"
  /\ LET r == ExecuteTx(list, txs[sent + 1]) IN
     /\ ~r.ok
     /\ failed' = r.failed
     /\ outcome' = "error"
  /\ UNCHANGED <<cmd, list, snapshot, authorityOk, args, txs, sent, inflight, lost>>

\* an unconfirmed transaction lands after all, all of it or none
LateLand ==
  /\ \E tx \in inflight :
       /\ inflight' = inflight \ {tx}
       /\ list' = ExecuteTx(list, tx).list
  /\ UNCHANGED <<cmd, snapshot, authorityOk, args, txs, sent, outcome, failed, lost>>

\* or its blockhash expires
Expire ==
  /\ \E tx \in inflight : inflight' = inflight \ {tx}
  /\ UNCHANGED <<cmd, list, snapshot, authorityOk, args, txs, sent, outcome, failed, lost>>

=============================================================================
