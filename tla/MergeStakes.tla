------------------------------- MODULE MergeStakes -------------------------------
(***************************************************************************)
(* The consolidator: merge_stakes::process of cli/bot-cli/src/            *)
(* merge_stakes.rs, run against the ledger of StakeLedger while the        *)
(* cluster and other actors go on.                                         *)
(*                                                                         *)
(* The pass reads the stake list once (stakes_info, list order), keeps the *)
(* entries that are mergeable (not deactivating, and either in their       *)
(* activation epoch or fully active), and walks them with two loops:      *)
(* sources from the last down to the second, destinations from the first *)
(* up to the one before the source.  The first destination of the same    *)
(* validator, credits_observed and kind gets the source merged into it;   *)
(* the inner loop then breaks, whatever the transaction's result.         *)
(* With max_seconds > 0 the pass stops after an iteration that did not    *)
(* merge once its time budget is spent.                                    *)
(*                                                                         *)
(* do-work is started by cron with no lock (do_work.rs), so the passes of *)
(* two ticks may overlap: each pass below belongs to one of Bots, and each *)
(* works from its own snapshot while the other's merges remove records.   *)
(***************************************************************************)
EXTENDS RpcClient

CONSTANTS
  TimeBudget,  \* max_seconds > 0: the pass may stop on the elapsed-time check
  Bots         \* the passes that may run at once (overlapping cron ticks)

VARIABLES
  mg_pc,        \* "Idle", "Scan", or "Done" (the loops ran to their end)
  mg_snapshot,  \* mergeable_stakes
  mg_src,       \* source_index, 1-based
  mg_dst,       \* destination_index, 1-based
  mg_ok,        \* count_tx_ok
  mg_err,       \* count_tx_err
  mg_sent,      \* history: the (destination, source) indices of the last merge sent
  mg_quiet,     \* history: nothing but this pass changed the ledger since the snapshot
  mg_alone      \* history: no other pass's merge landed since the snapshot

(* Each variable above maps every pass of Bots to its value.               *)
botVars == <<mg_pc, mg_snapshot, mg_src, mg_dst, mg_ok, mg_err, mg_sent, mg_quiet, mg_alone>>
vars == <<ledgerVars, botVars>>

NoMerge == [dst |-> "none", di |-> 0, src |-> "none", si |-> 0]

ActivationEpoch == "ActivationEpoch"
FullyActive == "FullyActive"

\* the filter_map: MergeableStakeInfo of the entries that are not
\* deactivating and have effective == 0, or nothing activating or deactivating
MergeableStakesOf(info) ==
  LET kind(e) == IF e.phase = Activating THEN ActivationEpoch ELSE FullyActive
      keep(e) == e.phase \in {Activating, Active}
      mergeable == SelectSeq(info, keep)
  IN [k \in 1..Len(mergeable) |->
        [index |-> mergeable[k].index, kind |-> kind(mergeable[k]),
         credits |-> mergeable[k].credits, address |-> mergeable[k].account,
         validator |-> Voter[mergeable[k].account]]]

\* mergeable_stakes built from the list read last index first
MergeableStakesReversed == MergeableStakesOf(StakesInfoReversed)

\* mergeable_stakes, built from stakes_info
MergeableStakes == MergeableStakesOf(StakesInfo)

\* the second source loop bound with the range's start off by one
MoreSourcesOffByOne(src) == src - 1 > 2

\* `for source_index in (1..len).rev()`: another source remains below src
MoreSources(src) == src - 1 >= 2

\* the same validator, credits_observed and kind
Matches(d, s) ==
  /\ d.validator = s.validator
  /\ d.credits = s.credits
  /\ d.kind = s.kind

NextSource(b) ==
  /\ mg_src' = [mg_src EXCEPT ![b] = @ - 1]
  /\ mg_dst' = [mg_dst EXCEPT ![b] = 1]
  /\ mg_pc' = [mg_pc EXCEPT ![b] = IF MoreSources(mg_src[b]) THEN "Scan" ELSE "Done"]

\* the ledger changed under the passes other than b that are running
Disturbed(flag, b) == [c \in Bots |-> IF c = b THEN flag[c] ELSE flag[c] /\ mg_pc[c] = "Idle"]

Init ==
  /\ LedgerInit
  /\ mg_pc = [b \in Bots |-> "Idle"]
  /\ mg_snapshot = [b \in Bots |-> <<>>]
  /\ mg_src = [b \in Bots |-> 0]
  /\ mg_dst = [b \in Bots |-> 0]
  /\ mg_ok = [b \in Bots |-> 0]
  /\ mg_err = [b \in Bots |-> 0]
  /\ mg_sent = [b \in Bots |-> NoMerge]
  /\ mg_quiet = [b \in Bots |-> TRUE]
  /\ mg_alone = [b \in Bots |-> TRUE]

\* the start of process: stakes_info, get_clock and the filter_map
StartPass(b) ==
  LET snap == MergeableStakes IN
  /\ mg_pc[b] \in {"Idle", "Done"}
  /\ mg_snapshot' = [mg_snapshot EXCEPT ![b] = snap]
  /\ mg_src' = [mg_src EXCEPT ![b] = Len(snap)]
  /\ mg_dst' = [mg_dst EXCEPT ![b] = 1]
  /\ mg_pc' = [mg_pc EXCEPT ![b] = IF Len(snap) >= 2 THEN "Scan" ELSE "Done"]
  /\ mg_ok' = [mg_ok EXCEPT ![b] = 0]
  /\ mg_err' = [mg_err EXCEPT ![b] = 0]
  /\ mg_sent' = [mg_sent EXCEPT ![b] = NoMerge]
  /\ mg_quiet' = [mg_quiet EXCEPT ![b] = TRUE]
  /\ mg_alone' = [mg_alone EXCEPT ![b] = TRUE]
  /\ UNCHANGED ledgerVars

\* begin/merge_stakes/commit/build_one/process_transaction, then `break`
MergeOne(b) ==
  LET d == mg_snapshot[b][mg_dst[b]]
      s == mg_snapshot[b][mg_src[b]]
  IN
  /\ mg_pc[b] = "Scan"
  /\ Matches(d, s)
  /\ \E r \in ProcessTransaction(MergeOk(d.address, d.index, s.address, s.index)) :
       /\ IF r.applied
          THEN /\ MergeApply(d.address, s.address, s.index)
               /\ mg_quiet' = Disturbed(mg_quiet, b)
               /\ mg_alone' = Disturbed(mg_alone, b)
          ELSE UNCHANGED <<ledgerVars, mg_quiet, mg_alone>>
       /\ mg_ok' = [mg_ok EXCEPT ![b] = @ + (IF r.ok THEN 1 ELSE 0)]
       /\ mg_err' = [mg_err EXCEPT ![b] = @ + (IF r.ok THEN 0 ELSE 1)]
  /\ mg_sent' = [mg_sent EXCEPT ![b] = [dst |-> d.address, di |-> d.index,
                                        src |-> s.address, si |-> s.index]]
  /\ NextSource(b)
  /\ UNCHANGED mg_snapshot

\* a destination that does not match, then the max_seconds check
Mismatch(b) ==
  /\ mg_pc[b] = "Scan"
  /\ ~Matches(mg_snapshot[b][mg_dst[b]], mg_snapshot[b][mg_src[b]])
  /\ \/ /\ mg_dst[b] + 1 < mg_src[b]
        /\ mg_dst' = [mg_dst EXCEPT ![b] = @ + 1]
        /\ UNCHANGED <<mg_src, mg_pc>>
     \/ /\ mg_dst[b] + 1 = mg_src[b]
        /\ NextSource(b)
     \/ /\ TimeBudget                   \* elapsed_secs > max_seconds: exit_for
        /\ mg_pc' = [mg_pc EXCEPT ![b] = "Idle"]
        /\ UNCHANGED <<mg_src, mg_dst>>
  /\ UNCHANGED <<ledgerVars, mg_snapshot, mg_ok, mg_err, mg_sent, mg_quiet, mg_alone>>

Crank(b) == StartPass(b) \/ MergeOne(b) \/ Mismatch(b)

Next ==
  \/ \E b \in Bots : Crank(b)
  \/ /\ Environment
     /\ mg_quiet' = [b \in Bots |-> mg_quiet[b] /\ mg_pc[b] = "Idle"]
     /\ UNCHANGED <<mg_pc, mg_snapshot, mg_src, mg_dst, mg_ok, mg_err, mg_sent, mg_alone>>

\* a started pass runs its loops to the end (or its time budget)
Spec == Init /\ [][Next]_vars /\ \A b \in Bots : WF_vars(Crank(b))

-----------------------------------------------------------------------------
(***************************************************************************)
(* Properties                                                              *)
(***************************************************************************)

TypeOK ==
  /\ LedgerTypeOK
  /\ \A b \in Bots :
       /\ mg_pc[b] \in {"Idle", "Scan", "Done"}
       /\ mg_pc[b] = "Scan" => 1 <= mg_dst[b] /\ mg_dst[b] < mg_src[b]
                                /\ mg_src[b] <= Len(mg_snapshot[b])
       /\ mg_ok[b] + mg_err[b] <= Len(mg_snapshot[b])
       /\ mg_quiet[b] \in BOOLEAN /\ mg_alone[b] \in BOOLEAN

(***************************************************************************)
(* Every merge a pass sends while no other pass has merged since its       *)
(* snapshot names, for both the destination and the source, an index at   *)
(* which the ledger's list still holds that account: the swap-with-last   *)
(* removal of each merged source never moves a record the pass has yet to *)
(* use, because sources are taken from the highest index down and         *)
(* destinations lie below them.  (An overlapping pass's removals do move  *)
(* them: see StakeListIntact.)                                             *)
(***************************************************************************)
MergeIndicesCurrent ==
  [][\A b \in Bots :
       (mg_sent'[b] # mg_sent[b] /\ mg_sent'[b] # NoMerge /\ mg_alone[b]) =>
         /\ At(mg_sent'[b].dst, mg_sent'[b].di)
         /\ At(mg_sent'[b].src, mg_sent'[b].si)]_vars

(***************************************************************************)
(* A pass that ran its loops to the end while nothing else touched the    *)
(* ledger leaves no two listed stake accounts the stake program could      *)
(* merge: the consolidator finds every mergeable pair it saw.              *)
(***************************************************************************)
MergePassComplete ==
  \A b \in Bots : (mg_pc[b] = "Done" /\ mg_quiet[b]) =>
    ~\E d, s \in Listed : StakeMergeable(d, s)

(***************************************************************************)
(* Overlapping passes never corrupt the stake list: every account the list *)
(* started with is still listed once or was merged away, and no merged-    *)
(* away account is listed.  A pass whose snapshot an overlapping pass's    *)
(* removals have made stale sends merges naming moved or removed records; *)
(* only the program's index checks in merge_stakes make them fail instead *)
(* of removing some other record.                                          *)
(***************************************************************************)
StakeListIntact ==
  /\ IsInjective(stakeList)
  /\ Listed \cap gone = {}
  /\ ToSet(InitList) \subseteq Listed \cup gone

=============================================================================
