------------------------------- MODULE StakeLedger -------------------------------
(***************************************************************************)
(* The part of the ledger the cranks read and write: the instance's stake  *)
(* list (StakeRecord per entry), the stake accounts it names, and the      *)
(* epoch clock.  The on-chain program is not part of this source tree: the *)
(* instruction semantics below follow the spec (section 3: removal is      *)
(* swap-with-last) and the program's integration tests (a merge removes    *)
(* the source record; update_active records the delegated lamports).      *)
(*                                                                         *)
(* A stake account's delegation is abstracted to a phase:                  *)
(*   Activating   delegated this epoch, effective stake 0                  *)
(*   Warming      activating, part of the stake effective                  *)
(*   Active       fully effective, nothing activating or deactivating      *)
(*   Deactivating deactivation_epoch set, effective stake still > 0        *)
(*   Inactive     deactivation_epoch set, effective stake 0                *)
(* the first three have deactivation_epoch = Epoch::MAX.                   *)
(***************************************************************************)
EXTENDS Naturals, Sequences, SequencesExt, FiniteSets

CONSTANTS
  Accounts,     \* stake accounts
  Validators,   \* vote accounts of the validator list
  Voter,        \* Accounts -> Validators, delegation.voter_pubkey
  MaxEpoch,     \* model bound on the epoch clock
  MaxStake,     \* model bound on delegated lamports grown by rewards
  InitList      \* the stake list when the model starts

Activating   == "Activating"
Warming      == "Warming"
Active       == "Active"
Deactivating == "Deactivating"
Inactive     == "Inactive"
Phases == {Activating, Warming, Active, Deactivating, Inactive}

\* delegation.deactivation_epoch == Epoch::MAX
Undeactivated == {Activating, Warming, Active}

VARIABLES
  epoch,      \* Clock::epoch
  stakeList,  \* the instance's stake list: account at each index, 1-based
  phase,      \* Accounts -> Phases
  amount,     \* Accounts -> delegation.stake
  credits,    \* Accounts -> credits_observed
  record,     \* Accounts -> StakeRecord {last_update_epoch, last_update_delegated_lamports}
  gone        \* accounts merged away or withdrawn: never listed again

ledgerVars == <<epoch, stakeList, phase, amount, credits, record, gone>>

Record(e, d) == [lastUpdateEpoch |-> e, lastUpdateDelegated |-> d]

LedgerTypeOK ==
  /\ epoch \in 0..MaxEpoch
  /\ stakeList \in Seq(Accounts)
  /\ phase \in [Accounts -> Phases]
  /\ amount \in [Accounts -> Nat]
  /\ credits \in [Accounts -> 0..MaxEpoch]
  /\ record \in [Accounts -> [lastUpdateEpoch : 0..MaxEpoch, lastUpdateDelegated : Nat]]
  /\ gone \subseteq Accounts

Listed == ToSet(stakeList)

\* the program's check that the record at `index` is `account`
At(account, index) == index \in 1..Len(stakeList) /\ stakeList[index] = account

\* List::remove: the last record is moved into the freed slot
RemoveSwap(list, i) ==
  IF i = Len(list) THEN Front(list) ELSE [Front(list) EXCEPT ![i] = Last(list)]

\* Stake accounts delegated this epoch or earlier, each holding one lamport
\* unit; the listed ones recorded as updated now.
LedgerInit ==
  /\ epoch = 0
  /\ stakeList = InitList
  /\ phase \in [Accounts -> {Activating, Active}]
  /\ amount = [a \in Accounts |-> 1]
  /\ credits = [a \in Accounts |-> 0]
  /\ record = [a \in Accounts |-> Record(0, amount[a])]
  /\ gone = {}

-----------------------------------------------------------------------------
(***************************************************************************)
(* Instructions the cranks send.  Each is a guard (the program accepts it) *)
(* and an effect.                                                          *)
(***************************************************************************)

\* update_active: stake not deactivating; its delegated lamports recorded
UpdateActiveOk(a, i) == At(a, i) /\ phase[a] \in Undeactivated

UpdateActiveApply(a) ==
  /\ record' = [record EXCEPT ![a] = Record(epoch, amount[a])]
  /\ UNCHANGED <<epoch, stakeList, phase, amount, credits, gone>>

\* update_deactivated: a fully deactivated stake is withdrawn and its record removed
UpdateDeactivatedOk(a, i) == At(a, i) /\ phase[a] = Inactive

UpdateDeactivatedApply(a, i) ==
  /\ stakeList' = RemoveSwap(stakeList, i)
  /\ gone' = gone \cup {a}
  /\ UNCHANGED <<epoch, phase, amount, credits, record>>

\* the stake program's merge rule: same vote account, both in their
\* activation epoch, or both fully active with equal credits_observed
StakeMergeable(d, s) ==
  /\ d # s
  /\ Voter[d] = Voter[s]
  /\ \/ phase[d] = Activating /\ phase[s] = Activating
     \/ phase[d] = Active /\ phase[s] = Active /\ credits[d] = credits[s]

\* merge_stakes checking the destination's index only
MergeOkNoSourceIndex(d, di, s, si) == At(d, di) /\ StakeMergeable(d, s)

\* merge_stakes: source folded into destination, source record removed
MergeOk(d, di, s, si) == At(d, di) /\ At(s, si) /\ StakeMergeable(d, s)

MergeApply(d, s, si) ==
  /\ amount' = [amount EXCEPT ![d] = @ + amount[s], ![s] = 0]
  /\ record' = [record EXCEPT ![d].lastUpdateDelegated = @ + record[s].lastUpdateDelegated]
  /\ stakeList' = RemoveSwap(stakeList, si)
  /\ gone' = gone \cup {s}
  /\ UNCHANGED <<epoch, phase, credits>>

-----------------------------------------------------------------------------
(***************************************************************************)
(* What the cluster and other actors do meanwhile.  None of these moves a  *)
(* record to another index.                                                *)
(***************************************************************************)

PhaseAfterBoundary(p) ==
  CASE p = Activating   -> {Warming, Active}
    [] p = Warming      -> {Warming, Active}
    [] p = Active       -> {Active}
    [] p = Deactivating -> {Deactivating, Inactive}
    [] p = Inactive     -> {Inactive}

\* An epoch boundary: delegations progress; the active stakes of every
\* validator that earned credits get a reward and new credits_observed.
EpochBoundary ==
  /\ epoch < MaxEpoch
  /\ epoch' = epoch + 1
  /\ \E next \in [Accounts -> Phases], paid \in SUBSET Validators :
       LET rewarded == {a \in Accounts : phase[a] = Active /\ Voter[a] \in paid}
       IN /\ \A a \in Accounts : next[a] \in PhaseAfterBoundary(phase[a])
          /\ phase' = next
          /\ amount' = [a \in Accounts |->
                          IF a \in rewarded /\ amount[a] < MaxStake
                          THEN amount[a] + 1 ELSE amount[a]]
          /\ credits' = [a \in Accounts |->
                           IF a \in rewarded THEN epoch + 1 ELSE credits[a]]
  /\ UNCHANGED <<stakeList, record, gone>>

\* emergency-unstake (validator-manager): a listed stake account that is
\* not deactivating is deactivated
ExternalDeactivate(a) ==
  /\ a \in Listed
  /\ phase[a] \in Undeactivated
  /\ phase' = [phase EXCEPT ![a] = IF @ = Activating THEN Inactive ELSE Deactivating]
  /\ UNCHANGED <<epoch, stakeList, amount, credits, record, gone>>

\* deposit-stake-account (marinade-cli): a delegated stake account that is
\* not cooling down, not activated this epoch and not yet under the
\* instance's authorities is appended to the list
DepositStakeAccount(a) ==
  /\ a \notin Listed \cup gone
  /\ phase[a] \in {Warming, Active}
  /\ stakeList' = Append(stakeList, a)
  /\ record' = [record EXCEPT ![a] = Record(epoch, amount[a])]
  /\ UNCHANGED <<epoch, phase, amount, credits, gone>>

Environment ==
  \/ EpochBoundary
  \/ \E a \in Accounts : ExternalDeactivate(a)
  \/ \E a \in Accounts : DepositStakeAccount(a)

=============================================================================
