# TLA+ models of the Marinade bot (marinade-anchor/cli/bot-cli)

This directory holds TLA+ models of the off-chain "bot" that keeps a Marinade liquid-staking
instance converged. It contains the modules, the TLC configurations that check them, and
PROJECT.json, which lists the components, runs, mutants, the source lines each definition
models, the findings and the hazards.

## The system

The bot is a single-threaded CLI. `bot-cli do-work` is started from cron every few minutes and
performs one *tick*:

| part | source | state it touches | operations |
|---|---|---|---|
| epoch-phase scheduler | `cli/bot-cli/src/do_work.rs` | none of its own; reads the clock | chooses which crank runs from the slot window |
| stake-delta allocator | `cli/bot-cli/src/stake_delta.rs` | ledger: reserve, validator balances, stake list | stake_reserve (new stake account), deactivate_stake (whole or split) |
| merge consolidator | `cli/bot-cli/src/merge_stakes.rs` | ledger: stake list | merge_stakes |
| price/accrual crank | `cli/bot-cli/src/update_price.rs` | ledger: stake list, stake records | update_active, update_deactivated |
| operation batcher | `sdk/offchain-common/src/transaction_builder.rs` | packs of instructions, signers | begin, add_instruction, commit, rollback, build_next(_combined) |
| score post-processing | `cli/score-post-process/src/process_scores.rs` | none; reads avg.csv, the APY file, the validators output and the on-chain list | process (health grading, PASS 0, PASS 1, re-sort, CSV) |
| validator list commands | `cli/validator-manager/src/update_scores.rs`, `add_validator.rs`, `remove_validators.rs`; `sdk/offchain/src/instruction_helpers.rs` | validator list (scores, entries) | update-scores, add-validators, remove-validators: set_validator_score, remove_validator, add_validator, sent in sequence |
| instance setup (admin-init) | `cli/admin-init/src/init.rs`; `sdk/offchain/src/instruction_helpers/initialize.rs`; `sdk/onchain/src/lib.rs` | the accounts of one instance: state, lists, mints, reserve, liquidity-pool legs, treasury | init: check or create each account, fund the reserve and sol leg, create the state and `initialize`, send as a combined sequence |
| admin commands (mardmin) | `cli/admin/src/*.rs`; the admin helpers of `instruction_helpers.rs`; `cli/cli-common/src/transaction_helpers.rs` | the state's authorities, fees and staking cap; multisig proposals; a wallet's associated token account | set-lp-params, config-marinade, change-authority (send, or write a proposal), transfer-spl-token (checks, maybe create the ATA, write a proposal) |
| snapshot reader / submission | `cli/cli-common/src/rpc_marinade.rs`, `rpc_client_helpers.rs` | none | stakes_info(_reversed), execute_transaction |

How the parts interact:
- Each crank reads a snapshot of the ledger once. It then sends one transaction per decision,
  each built as one pack (`begin`, instruction, `commit`, `build_one`) and submitted with
  `process_transaction`.
- The on-chain program, which is not in this tree, checks every instruction against the
  *current* ledger: for example, "the record at index i is account a".
- A removal from the stake list moves the last record into the freed slot (swap-with-last).
- Other actors change the ledger meanwhile:
  - epoch boundaries (activation progress, rewards, credits);
  - users depositing stake accounts (`marinade-cli deposit-stake-account`);
  - the validator manager's `emergency-unstake` (zero the validator's score, then
    deactivate each of its stake accounts) and `config-validator-system` (set the extra
    runs), run by an operator while the bot's passes go on.

What is hard about this system:
- decisions made on a snapshot that the crank's own earlier steps, or other actors, have
  already changed (index shifts from swap-with-last removals, epoch boundaries mid-pass);
- submission results that are reported wrongly;
- size-bounded packing;
- unsynchronised cron ticks.

## Modules

| module | models | kind |
|---|---|---|
| `Batching` | the batcher contract of spec 4.1: whole batches, FIFO, size ceiling, registered signers | abstract spec |
| `TransactionBuilder` | `TransactionBuilder` (`new`, `add_signer`, `check_signers`, `begin`, `commit`, `rollback`, `add_instruction`, `build_next`, `build_one`, `build_next_combined`, `build_one_combined`, `is_empty`) | detailed spec, refines `Batching` |
| `StakeLedger` | the ledger the cranks act on: epoch, stake list, per-account phase/lamports/credits/record, and the program's checks and effects for update_active, update_deactivated, merge; environment actions: epoch boundary, deposit-stake-account, emergency-unstake | component (program part modelled from the spec: `spec_modelled`) |
| `RpcClient` | `stakes_info`, `stakes_info_reversed`, `execute_transaction` outcomes | helpers |
| `UpdatePrice` | `UpdatePriceOptions::process` composed with `StakeLedger` | component |
| `MergeStakes` | `merge_stakes::process` composed with `StakeLedger`, for the passes of overlapping cron ticks | component |
| `ValidatorLedger` | the ledger the stake-delta allocator acts on: reserve, total_cooling_down, circulating tickets, extra_stake_delta_runs, validator active_balance/score (a variable: emergency-unstake zeroes it)/last_stake_delta_epoch, stake list with delegated lamports and deactivation epoch; the program's stake_reserve and deactivate_stake (whole or split); environment: epoch boundary, deposit, order-unstake, claim, update_deactivated's withdraw, do-work's extra-runs request | component (program part `spec_modelled`) |
| `StakeDelta` | `StakeDeltaOptions::process` composed with `ValidatorLedger` | component |
| `EmergencyUnstake` | the validator manager's `EmergencyUnstakeOptions::process` and `ConfigValidatorsOptions::process`, interleaved with `StakeDelta` on the same ledger | composition (the program's emergency_unstake `spec_modelled`) |
| `DoWork` | `DoWorkOptions::process`: one cron tick's slot-window decisions over the solana epoch schedule, with u64 arithmetic | component (the cranks it starts are events) |
| `ProcessScores` | `ProcessScoresOptions::process` and `ValidatorScore::is_healthy`: one step from the joined input files to the rows written or a panic | pure algorithm |
| `ValidatorList` | the validator list, the helpers' authority check, combining and `process_transaction_sequence` shared by the validator-manager commands | component (the list's rules `spec_modelled`) |
| `UpdateScores` | `UpdateScoresOptions::process`: instructions built from post-process.csv and one snapshot | component |
| `RemoveValidators` | `RemoveValidatorsOptions::process`: removals chosen from the snapshot, last index first | component |
| `AddValidators` | `AddValidatorOptions::process`: the add_validator closure over the given or the cluster's vote accounts | component |
| `ValidatorManager` | one run of the validator manager: any of the three commands from a list the program may hold | composition |
| `AdminInit` | `Init::process` of admin-init with the `InitializeBuilder` and `TransactionBuilder` helpers it calls, the sends of its combined sequence, and reruns | component (the program's effects `spec_modelled`) |
| `Mardmin` | the admin CLI on the instance `AdminInit` set up: `SetLpParamsOptions`, `ConfigMarinadeOptions`, `ChangeAuthorityOptions`, `TransferSplTokenOptions::process`, the sends, late landings and the multisig's execution of proposals | composition with `AdminInit` (the program's and the multisig's effects `spec_modelled`) |
| `MC*` | constants for TLC | model instantiation |

**The program's effects and its tests.** The on-chain program's source is not in this tree,
but its tests are (programs/marinade-finance/tests/src). Where a test pins down an effect
the model uses, the definition is mapped to that test:
- `Execute`'s add branch: appended, with the score given and zero balance (test_add_remove_validators.rs);
- `ApplyAdmin`: each field given is written (test_configure.rs);
- `UpdateActiveApply`: the delegation becomes the record (test_update_price.rs);
- `MergeApply`: the source record goes, its lamports go to the destination (test_merge.rs);
- `WholeDeactivation`, `DeactivateApply`: the whole and split cases of deactivate_stake (test_deactivate_stake.rs);
- `Unstake`: the amount unstaked is the shortfall (test_unstake_delta.rs).

The program's other checks and effects are modelled from the spec (`spec_modelled`).

### TransactionBuilder

- **State.** `signers` (signature_builder), `instruction_packs`, and `current_instruction_pack`
  (`NoPack` for the empty OnceCell) are the struct's fields. `built` collects the
  transactions that were returned, as a pair of instructions and descriptions. `used` is a
  freshness history, so each instruction is added at most once.
- **Instructions.** An instruction is a model value with a size and a set of required
  signers. Its description is the instruction itself.
- **Size.** `bincode::serialize(tx).len()` is abstracted as `TxOverhead +` the sum of the
  instruction sizes.
- **Panics.** The `expect`/`assert!` panics are preconditions of the actions.
- **add_instruction.** One action with its four outcomes: UnknownSigner, TooBig, accepted
  into its own pack, or accepted into the open pack.
- **build_next_combined.** The limited builder's greedy loop is the recursive `Combine`,
  translated with its order of steps: the descriptions are extended *before* the size test.
- **build_one / build_one_combined.** `BuildOne` is `build_next` taken when one pack is
  queued (the `assert!` that none is left is its guard); `BuildOneCombined` is
  `build_next_combined` whose result leaves the builder empty (`is_empty`, the assert's
  condition).
- **Refinement.** The refinement mapping to `Batching` maps `built[t].instrs` to the
  abstract submission units.

### StakeLedger

- **Phases.** A stake account's delegation is one of Activating, Warming, Active,
  Deactivating or Inactive:
  - Activating has effective stake 0 in its activation epoch.
  - Warming is partly effective.
  - Deactivating still has effective stake.
  - Inactive has effective stake 0 and is withdrawable.
- **`record[a]`** is the list's StakeRecord: `last_update_epoch` and
  `last_update_delegated_lamports`.
- **Program effects.** They follow the spec and the program's integration tests:
  - update_active records the delegated lamports;
  - update_deactivated withdraws the account and removes its record;
  - merge removes the source record and adds its lamports to the destination.
- **The stake program's merge rule.** The two accounts must have the same vote account, and
  either both be in their activation epoch or both be fully active with equal
  credits_observed.
- **`gone`** holds accounts that were merged away or withdrawn. They never come back.
- **Environment actions**, which have no fairness:
  - `EpochBoundary` nondeterministically advances phases and pays a reward to the active
    stake of any subset of validators;
  - `DepositStakeAccount` follows the client's checks in deposit_stake_account.rs;
  - `ExternalDeactivate` follows emergency_unstake.rs.

### UpdatePrice

- **State.**
  - `up_snapshot` is `stakes_info_reversed` and `up_clock` is `get_clock().epoch`, both read
    by `StartPass`. `StartPass` also includes the `some_needs_update` early return.
  - `up_k` is the position in the `for` loop.
  - `up_ok`/`up_err` are `count_tx_ok`/`count_tx_err`.
  - `up_applied` and `up_sent` are history variables.
- **Step.** One iteration of the loop, with its five branches in the code's order: already
  updated this epoch; undeactivated and unchanged; update_active; update_deactivated;
  cooling down (warn only).
- **Send.** A send is one atomic ledger step. Its outcome comes from
  `RpcClient!ProcessTransaction`.

### MergeStakes

- **State.**
  - `mg_snapshot` is `mergeable_stakes`: the filter_map over `stakes_info`, in list order.
  - `mg_src`/`mg_dst` are the two loop indices, made 1-based.
- **MergeOne** is the matching iteration: the send, then `break` to the next source.
- **Mismatch** is a non-matching iteration followed by the `max_seconds` check, which may
  exit when `TimeBudget` holds.
- **mg_quiet** is a history flag: nothing but this pass changed the ledger since its snapshot.
- **Overlap.** do-work runs from cron with no lock, and a tick can outlive its 9-minute
  budget (an RPC read retries forever). So every pass variable is a function over `Bots`,
  the passes that may run at once, and each pass works from its own snapshot while the
  other's merges land. `mg_alone` is a history flag: no other pass's merge landed since
  this pass's snapshot. `Disturbed` clears `mg_quiet`/`mg_alone` of the other running
  passes when a merge lands.

### ValidatorLedger and StakeDelta

- **Ledger.** `Delta` is spec 3's `stake_delta` (reserve + total_cooling_down − circulating
  tickets). `Need(v)` is the score-proportional share of `TotalActive + Delta`, rounded
  down, minus `activeBalance[v]`. The program (not in this tree) is modelled from spec 4.3:
  - `stake_reserve` stakes `min(need, delta)` into a new listed account; it needs an
    actionable delta, a positive need, the reserve's lamports, and the once-per-epoch
    allowance (`EpochAllowance`: a second operation on a validator in an epoch consumes an
    extra run).
  - `deactivate_stake` unstakes `min(surplus, shortfall)`. It deactivates the whole account
    when the remainder would be below min_stake, and otherwise splits off a new deactivating
    account. Only a split sets `last_stake_delta_epoch` and needs the allowance.
  - Rewards are left out, so a record's delegated lamports are its stake.
- **Environment.** Users deposit, order unstake tickets (never more than the pool holds)
  and claim them. The update-price crank withdraws accounts deactivated in an earlier epoch.
  do-work raises `extra_stake_delta_runs` to the number of validators with score. Epochs
  advance.
- **The pass.** `sd_pc` walks `process`:
  - `StartPass`: the early return, `validators_info` and the sort of either path. The
    unstake path also takes the `stakes_info_reversed` snapshot and `total_to_unstake`.
  - `StakeStep`: one iteration of the stake loop.
  - `UnstakeOuter`: one validator of the unstake loop (its `break`s, the recomputed delta,
    the once-per-epoch `continue`, its stakes filtered from the snapshot and sorted by size).
  - `UnstakeInner`: one stake account (deactivate_stake with the snapshot's index, the
    estimate, the end of the validator).
  - `Continue` is the limit and time checks after a transaction.

  `SendAccepted` is `execute_transaction` of a transaction the program accepts: it lands,
  or it is sent and not confirmed, which the code logs and returns as Ok. The pass then
  counts it Ok and goes on (the unstake path adds its estimate) while the ledger is
  unchanged. The transaction sits in `inflight` until `LateLand` applies it against the
  ledger as it is then (the program's checks again) or `Expire` drops it. `sd_lost` is
  history: this pass had a send returned as Ok unconfirmed. `lostSends` counts such sends
  over the whole behaviour, bounded by `MaxLost`.

  `sd_view` is `marinade.state` as last read: `update()` after every transaction refreshes
  it. The recomputed delta is the *fresh* reserve with the *cached* cooling-down and
  ticket counters, as in the code. `sd_quiet` is history: no environment step and no late
  landing since the pass started.
- `total_stake_target`'s `try_into()?` is not a branch of the model. Tickets are paid for
  with mSOL, so they never exceed what the pool holds (`OrderUnstake`'s guard), and the
  target is never negative.

### EmergencyUnstake

The operator's commands run against `ValidatorLedger` while the bot's pass of `StakeDelta`
goes on; `EuNext` interleaves the bot's four steps (`BotStartPass`, ...), the ledger's other
actors (`LedgerActors`) and the operator. `eu_pc` walks `EmergencyUnstakeOptions::process`:
- `EuStart`: `validator_list()` and the position of the vote account ("Unknown validator"
  for `v3`, which is not listed), and `set_validator_score`'s authority check. Both end
  the command with Err before anything is sent.
- `EuScoreLands`: set_validator_score(index, vote, 0) lands and is confirmed ("Flush it
  asap"). `EuScoreUnconfirmed`: it is sent and not confirmed; `execute_transaction`
  returns Ok, so the command goes on to read the stake list while the score may still be
  unset. The transaction lands later (`EuLateLand`) or expires.
- `EuReadStakes`: `stakes_info_reversed` and the loop that builds one emergency_unstake
  per stake account of the validator that is not deactivating, named by its index in that
  read; `Packed` is the limited builder's combining (`EuPerTx` to a transaction).
- `EuSendOk` / `EuSendUnconfirmed` / `EuSendFails`: the sends. A transaction is atomic;
  one returned as Ok unconfirmed goes in flight and the sequence goes on; the first
  preflight failure ends the command. `eu_lost` is history: the command had such a send.
- `ConfigValidatorSystem`: `config-validator-system --extra-runs n` sets
  `extra_stake_delta_runs`.

The program's emergency_unstake (not in this tree) is modelled like deactivate_stake's
whole deactivation: it fails unless the stake list holds the account at the index and it
is not already deactivating, and it moves the account's lamports from the validator's
active_balance to total_cooling_down. The ledger's `score` is now a variable, so the
program's `stake_reserve` sees a zeroed score as a zero target. Every operator step makes
the bot's pass not quiet, so `StakePassComplete` and `UnstakePassComplete` keep their
meaning. The `-r` removal is not modelled here (see below).

### ProcessScores

The post-processing command runs once and shares no state with the bot, so the model has
one step. `Init` chooses the input: the `--apy-file` option and, for each record of avg.csv,
its score, Nakamoto flag, commission, credits, this-epoch credits from `solana validators`
(or not listed), APY (or none), average position, and the lamports marinade stakes with it
(or not on the chain list). `Process` computes what the code writes, step by step as
definitions:
- `AvgApy`, `AvgThisEpochCredits`: the joins, with the 5.0 and 4.5 defaults.
- `HealthRungs`/`HealthRung`: the `is_healthy` ladder as a sequence of rungs; the first
  that holds gives the remove level. `UnwrapsMissingApy` marks the two APY rungs reached by
  a validator without APY data.
- `Pass0Score`: halve at level 1, zero above it and for the paused vote accounts.
- `ShouldHaveLamports`, `AdjustedScore`: PASS 1 and the adjust loop, in lamports. Floats
  are exact rationals and every cast is a floor.
- `FileOrder`, `FinalOrder`: the two stable sorts by score, descending. `Rows`: rank,
  `proportional` should_have and pct against the recomputed total.
- `Outcome`: the panics in the order the code meets them (no credits data point, the APY
  `unwrap()`, a zero total in the pct division), or the rows.


- **State.** `slot` is `clock.slot` of the last tick; `tick` records what that tick did
  (stake-delta, the extra-runs request, update-price, merge, and whether it ended `ok`, with
  an `error` from a `?`, or with a panic). `settledEpochs` and `accruedEpochs` are history: the
  epochs in which a tick reached the stake-delta decision, and those in which one ran
  update-price.
- **Epoch schedule.** `FirstSlotInEpoch`/`LastSlotInEpoch` follow solana's `EpochSchedule`,
  including warmup epochs of 32·2^e slots (the sdk is not in this tree).
- **u64.** `stake_window_start_slot` is a saturating subtraction. `epoch_last_slot -
  LAST_SLOTS_UNSAFE_MARGIN` is unchecked: it wraps (`WrappingSub`, modulo `U64Modulus`) in a
  release build and panics (`WindowTestPanics`) with overflow checks; `Builds` says which
  builds are possible. `U64Modulus` is 2^20 in the MC module: every slot of the model is far
  below it, so every comparison has the outcome it has with 2^64.
- **Tick.** The whole of `process`, in its order. The ledger-dependent inputs are chosen
  freely: whether `stake_delta` is actionable, whether `extra_stake_delta_runs` is below the
  validators with score, whether `marinade.update()` fails, whether merge has time left.
  `config_validator_system(...)?` fails when the fee payer is not the validator manager
  authority (`AuthorityIsFeePayer`), which ends the tick before stake-delta.
- **Cron** starts the next tick 1..`TickInterval` slots later, up to the end of `MaxEpoch`.
  The clock stops there, so the runs say `CHECK_DEADLOCK FALSE`.
- The end-of-epoch estimate (lines 49-55) only logs. Its division by `advance` is 0/0 at an
  epoch's first slot, because the clock's `unix_timestamp` is `epoch_start_timestamp` there;
  NaN casts to 0, so it cannot panic.

### ValidatorList, UpdateScores, AddValidators, RemoveValidators, ValidatorManager

The validator manager runs one command per invocation (main.rs dispatches). The three that
change the validator list read one snapshot of it, build instructions that name each
validator by its *snapshot* index and vote account, and send them in sequence.
- **ValidatorList.** `list` is the program's list of `[vote, score, balance]` (balance 0 or
  1 stands for active_balance zero or not); `snapshot` is the list as the command read it.
  `BuildDone` ends a build: the helpers (`set_validator_score`, `remove_validator`,
  `add_validator` in instruction_helpers.rs) return Err before adding anything when the
  authority given is not the state's, so with a wrong authority the command fails before
  sending. `Combine` packs `PerTx` single-instruction packs per transaction (it stands for
  `TransactionBuilder::limited`'s byte limit). `SendOk`/`SendUnconfirmed`/`SendFails` are
  `process_transaction_sequence`: transactions in order, each atomic (`ExecuteTx`),
  stopping at the first that fails preflight. A transaction sent and not confirmed is
  returned as Ok (`SendUnconfirmed`), goes into `inflight` and the sequence goes on; it
  lands later (`LateLand`) or never (`Expire`). `lost` counts such sends, bounded by
  `MaxLost`. The program's checks are not in this tree: `Execute` checks "the
  entry at the index is this vote account", removes by swap-with-last, and appends an add
  unless the list is full or already holds the vote (the append is what test_add_remove_validators.rs asserts). `failed` says why a
  command failed: a stale index, a full list, a vote already listed, or the authority.
- **UpdateScores.** `file` and `inFile` are post-process.csv: each record's score, remove
  level (0, 2 or 3) and whether its average stake is below 100 SOL. `UsInit` keeps only
  files `ProcessScores` can write (level 2 or 3 means score 0). Marinade's stake with a
  listed validator (`Staked`) is its balance. `Records` is the stable sort by score;
  `RecordInstructions` is one record of the first loop (set on a change beyond ±5% with
  integer division, remove when unhealthy without stake, add when not listed, not skipped
  and the capacity test allows); `FirstLoop` counts the adds; `SecondLoop` removes listed
  validators missing from the file and without stake, in list order. `-1` sends one
  instruction per transaction.
- **RemoveValidators.** `Chosen` is the entries with active_balance 0 (all of them, or the
  ones named); `RemoveIndices` reverses them (`.rev() // to make remove index stable
  operation`).
- **AddValidators.** `AddLoop` is the closure: a listed vote of score 0 gets
  `set_validator_score(0x100)`, a listed one with a score is left alone, an unlisted one
  is added with 0x100 while the snapshot's length plus the adds is below capacity.
  `Requested` is the arguments, or `get_vote_accounts().current` (`ClusterVotes`).
- **ValidatorManager.** `Init` picks the command, a starting list, the authority and the
  inputs; `Next` is the command's build, then its sends.

### AdminInit

admin-init sets up one instance. `Init::process` checks or creates, in this order: the state
account (`-i`: bail if it exists; otherwise a random keypair), the mSOL mint (`-m`: use an
existing mint, moving its authority to the state's PDA with the owner given, or create it),
the admin and validator-manager authorities, the stake and validator lists (created with a
seed from the state unless given), the reward fee, the reserve (funded to the rent minimum;
bail if it holds more), the LP mint, the sol leg (funded like the reserve), the mSOL leg
(created with a seed, or checked with `check_token_account`) and the treasury's associated
token account. `build` then adds the state account and `initialize` as one pack, and the
packs are sent with `execute_transaction_sequence` over `combined_sequence`.

- **State.** `acct` maps every address a run can name to its kind, mint and authority;
  `cmdline` is what the operator passes (`-i`, `-m`, `-l` given or not; the mint owner);
  `run`, `inst` are the run number and its instance; `txs` the packs built, `sent` how many
  were sent; `outcome` the run's result; `inflight` transactions sent but never confirmed.
  A system account's `lamports` counts what transfers put in it: `Balance` is what
  `get_system_balance_retrying` reads, and a transfer adds to it, so a top-up of an
  earlier run that lands after a rerun's own top-up leaves the reserve above the rent
  minimum (one unit here).
- **Keys.** A given keypair is `<<"inst", 0>>` etc.; `Keypair::new()` in run r is
  `<<"inst", r>>`. Addresses derived from the state are tuples over it.
- **Builder.** Each helper is an operator from builder to builder (`err`, `packs`, `signers`,
  the `OnceCell` fields), with its `expect` panics and `bail!`s as `err`. `Add` is
  `add_instruction` with `check_signers` (UnknownSigner); TooBig does not occur for these
  packs.
- **Blocks.** `Process` chains the blocks of `Init::process` in source order, each passing
  an errored builder on untouched (the `?`).
- **Sends.** `combined_sequence` joins the next k packs into one transaction; the byte size
  is abstracted by a nondeterministic k. A transaction lands (the program's effects, all or
  nothing), is rejected at preflight (Err ends the sequence), is sent but not confirmed
  (returned as Ok; it may land later or expire), or fails before sending.
- **Program.** The program is not in this tree; `ApplyIx` gives the system, token and
  Marinade programs' effects and refusals that matter here: creating an existing account
  fails, `initialize` requires blank lists and state, the mints' authority the state's PDA
  and the legs owned by their PDAs (`spec_modelled`).

### Mardmin

The admin CLI runs one command per invocation, against the instance admin-init set up
(`StartAdmin` needs `GivenInst` to hold a state). The operator runs one admin command at a
time, but admin-init may still be running beside it: `Mardmin` EXTENDS `AdminInit` and
its `MNext` has admin-init's actions, wrapped to leave the admin variables alone
(`InitRun`, `InitSendLands`, ...), and its own. Both share the run count and the send
faults.

- **State.** `st` holds the fields the commands read or write: admin and validator-manager
  authorities, reward fee, LP min and max fee, staking cap; `StateInit` is what `initialize`
  writes. `snap` is `RpcMarinade::new`'s read (`ReadState`), `acmd`, `aix`, `aphase`,
  `aoutcome` the current run, `proposals` the instructions written out with `-p`, `ainflight`
  the sent but unconfirmed ones. `ata`, `ataInflight`, `ataLostEver` are the wallet's
  associated token account of transfer-spl-token.
- **Commands.** A command line is a record of the options (`None` or `<<v>>`); `Opts` maps
  each command's options to the state's fields and `Given` is the fields named ("no
  parameters set" when empty). `IxData` is what the instruction carries: change-authority
  and config-marinade send Options, so the program writes only what is given; set-lp-params
  fills the fees not given from the snapshot. `RunCommand` is the client side: the
  no-parameters check, then `-p` (a proposal, no authority check) or the helper's
  `AdminCheck` (InvalidAdminAuthority), then the send of `build_one`.
- **Sends and proposals.** A send lands, is rejected (the program's `has_one admin_authority`
  against the current state), is not confirmed (Ok; it may land later or expire) or fails
  before sending. A proposal is executed later by the multisig, which signs for `Multisig`
  only, so it applies only if the snapshot's admin was the multisig and still is.
- **transfer-spl-token.** `StartTransfer` does the source and destination checks (each a
  panic); a wallet destination is replaced by its ATA, whose creation
  (`GetOrCreateAta`) is sent in a transaction of its own when it is missing; `Finish` reads
  the destination, checks its mint and the decimals, and writes the proposal. The creation
  lands, is rejected because the ATA exists, is not confirmed (Ok: the destination read then
  panics) or fails.

## Runs

| run | cfg | expect | checks |
|---|---|---|---|
| tb_refinement | MCTransactionBuilder.cfg | pass | TypeOK; `BatchingRefinement`: the builder implements `Batching` |
| ai_pass | MCMardmin.cfg | pass | `RejectedOnlyAfterLoss`; `AtaFailsOnlyAfterLoss`; `NoSilentWrite` (action property) |
| ai_rerun | MCMardminRerun.cfg | violation | `RerunRecovers` |
| up_pass | MCUpdatePrice.cfg | pass | TypeOK; `SentIndexCurrent` (action property); `DeactivatedEventuallyRemoved` (liveness) |
| mg_pass | MCMergeStakes.cfg | pass | TypeOK; `MergePassComplete`; `MergeIndicesCurrent` (action property); `StakeListIntact` |
| dw_pass | MCDoWork.cfg | pass | `EveryEpochSettled`; `EveryEpochAccrued`; `StakeDeltaBeforeMargin` |
| sd_pass | MCEmergencyUnstake.cfg | pass | EuTypeOK; `StakePassComplete`; `UnstakePassComplete`; `EmergencyUnstakeClears` |
| sd_extra_runs | MCStakeDeltaExtraRuns.cfg | violation | `UnstakePassUsesExtraRuns` |
| vm_pass | MCValidatorManager.cfg | pass | `SuccessfulRunSettles`; `AddsWithinCapacity`; `RemovalsLand`; `RequestedListed` |
| us_lands | MCValidatorManagerLands.cfg | violation | `EveryInstructionLands` |
| ps_pass | MCProcessScores.cfg | pass | TypeOK; `UnhealthyUnscored`; `RanksFollowScores`; `SharesSplitTarget` |
| ps_apy_unwrap | MCProcessScoresApyUnwrap.cfg | violation | `NoApyUnwrapPanic` |

What the runs show:
- **tb_refinement.** With instructions of sizes 2, 3, 1, 1, 5, an overhead of 1 and a ceiling
  of 5:
  - some instructions fit alone, some pairs fit and some do not;
  - the size-5 instruction never fits;
  - one instruction needs a signer that is registered only by `add_signer`.

  MaxPacks = 4 bounds the packs queued plus built, because empty begin/commit pairs are
  otherwise unbounded. Every `add_instruction` outcome and both build functions happen. About
  105k states.
- **The descriptions of build_next_combined (noted, not a run).** `build_next_combined`
  extends the descriptions with the next pack before its size test, so when the pack does
  not fit the transaction is returned with descriptions of instructions it does not carry
  (add i1, add i2, build: i1 fits, i1 plus i2 does not, the descriptions are `<<i1, i2>>`).
  They are only logged by `execute_transaction` and change no state, so this is noted
  here (transaction_builder.rs:257) and is neither a run nor one of the listed hazards.
- **ai_pass.**
  - **Bounds.** Every command line with `-i`, `-m`, `-l` given or not, the fee payer as
    mint owner, a given mSOL mint that does not exist or is owned by the fee payer, three
    runs (`MaxRuns`) and one send fault (`MaxFaults`: an unconfirmed send or an error before
    sending). Enough for a run stopped after any pack, a rerun that meets what it left, and
    an unconfirmed transaction landing after the rerun built its own. The admin commands
    (`MCAdminCmds`): no parameters, change-authority to the multisig, a reward fee, a cap,
    `--remove-cap` as a proposal, set-lp-params with only `-n` and with only `-x`; with the
    three runs that reaches a proposal executed after the authority moved, a command run
    by a key that is no longer the admin, and a send landing after a later one. The transfer
    commands (`MCTransferCmds`): to a wallet, to a token account of the same mint and of
    another mint; two of them to the wallet meet the ATA a first one created or lost.
    About 475k states, two minutes.
  - **What it shows.** `RejectedOnlyAfterLoss`: the program rejects a transaction of admin-init only
    when an earlier one was sent without confirmation (the builder checks what each
    instruction needs before sending). `NoSilentWrite`: config-marinade and
    change-authority never change an authority, the reward fee or the staking cap to a
    value no pending instruction (sent, unconfirmed or proposed) named for it, however
    proposals, late landings and authority changes interleave. `AtaFailsOnlyAfterLoss`:
    transfer-spl-token panics for want of the destination ATA, or has its creation
    rejected because it exists, only after an earlier creation went unconfirmed.
  - **No deadlock check.** `CHECK_DEADLOCK FALSE`: the command ends.
- **ai_rerun.** This is a code bug. `RerunRecovers` says that with every address given
  (`-i`, `-m`, `-l`) a rerun fails only because the state already exists, so a partial
  run can always be completed by running the same command line again. Same bounds as
  ai_pass. TLC finds, in 10 states: run 1 sends the reserve top-up unconfirmed
  (`execute_transaction` returns Ok) and a later transaction of it is rejected; run 2
  tops the reserve up again and lands its first group; run 1's top-up then lands late,
  so the reserve holds twice the rent minimum; every later run bails "To high reserve
  balance" (initialize.rs:336) before initialize is sent. The instance can no longer be
  initialized with these keypairs.
- **Reruns without `-m` (a hazard, not a run).** Without `-m` each run creates a new mSOL
  mint. A run that created the mSOL leg (with a seed from the given state) and then stopped
  leaves a leg bound to that mint, and every later run bails "Wrong token account mint"
  (init.rs:369). The run needs `-m` with the old mint, which the message does not name.
  TLC shows `RerunRecovers` violated when its premise is widened to such command lines.
- **set-lp-params puts back old fees (a hazard, not a run).** set-lp-params sends both fees,
  filling the one not given from its snapshot (set_lp_params.rs:46). With the LP fees added
  to `NoSilentWrite`'s fields, TLC finds: `set-lp-params -x 4` sent unconfirmed,
  `set-lp-params -n 2` lands, then the first lands late and puts the min fee back to 1. A
  proposal (`-p`) executed later does the same. The run keeps `NoSilentWrite` to the
  Option-carrying commands, where it holds.
- **The liquidity target's float round trip (a hazard, not modelled).** A target not given is
  sent as `sol_to_lamports(lamports_to_sol(t))` (set_lp_params.rs:49). The f64 round trip
  truncates: 15 lamports become 14, and 1.001 SOL becomes 1000999999 lamports. So every
  set-lp-params without `-t` may lower a target by a lamport. TLC's 32-bit integers cannot
  model the doubles; the round trip was checked outside TLC.
- **`--msol-mint-owner` (a hazard, not a run).** `use_msol_mint` checks that the existing
  mint's authority is the owner given, but never adds that keypair as a signer; the
  `set_authority` instruction then fails `check_signers` with UnknownSigner (initialize.rs:146),
  so init with a mint owned by another key always fails. With an owner other than the fee
  payer, TLC finds `RerunRecovers` violated at the first build.
- **up_pass.**
  - **Bounds.** 3 accounts on 2 validators, with the list starting as `<<a1, a2>>` (a3 can
    be deposited); epochs 0..2; lamports capped at 2.
  - **What happens.** Removal by the crank's own update_deactivated in the middle of a pass,
    deposits appended during a pass, an epoch boundary between the snapshot and the sends,
    and both kinds of deactivation (Activating becomes Inactive at once; Active becomes
    Deactivating, then Inactive at a boundary).
  - **Liveness.** It holds under weak fairness of the crank only: cron restarts the tick, and
    a started pass runs to its end.
  - **Premise.** It has the premise `record[a].lastUpdateEpoch < epoch`. An account updated
    in the current epoch is skipped until the next epoch, and the model's epochs are bounded.
  - **Size.** About 370k states.
- **mg_pass.**
  - **Bounds.** 3 accounts on one validator, so every pair shares a validator and merges
    depend on kind and credits; the list starts as `<<a1, a2>>` and a3 can be deposited;
    epochs 0..2; TimeBudget on; two passes (`Bots = {b1, b2}`), with symmetry over them (a
    pass does not depend on which tick runs it).
  - **What happens.** 2-way and 3-way merges, merges rejected after a boundary, and
    mismatches on kind or credits. One pass's merge removes a record that the other pass's
    snapshot still names, and the other pass's merge with the stale index is rejected.
  - **What it shows.** A pass alone sends only current indices (`MergeIndicesCurrent` is
    stated for a pass with `mg_alone`). With two passes, stale indices do reach the
    program, and only its source-index check keeps the list intact (`StakeListIntact`).
    Its mutant drops that check. With one pass TLC finds no violation of the mutant
    (80k states); with two it does.
  - **Size.** About 917k states, in about 2 minutes.
- **dw_pass.**
  - **Bounds.** Epochs 0..2 of 128 slots without warmup, a stake-delta window of 80 slots,
    cron at most 8 slots apart, both builds, and a fee payer that is *not* the manager
    authority. These keep the real proportions: mainnet epochs have 432,000 slots, the
    configured window is 9,000 slots, and a 9-minute tick is about 1,500 slots. The usable
    window (after its start, before the 32-slot margin) straddles the window's midpoint, so
    both ticks aborted by the extra-runs request and ticks that are not aborted happen.
  - **What it shows.** Every epoch still gets a stake-delta decision, because the first
    half of the window never sends the request. Every epoch gets an update-price tick.
    Stake-delta never runs in the last 32 slots of an epoch (`StakeDeltaBeforeMargin`).
  - **Size.** About 1,000 distinct states. The run has no type invariant: the bounds are
    in the actions' guards and nothing else is worth stating of the types.
  - **Warmup (a hazard, not a run).** On a cluster with warmup epochs
    (`solana-test-validator` by default), epoch 0 has slots 0..31. `31 - 32` wraps in a
    release build, so stake-delta runs at slot 1, inside the last 32 slots that the
    margin's comment calls unsafe; a debug build panics instead. With `Warmup = TRUE`,
    `SlotsPerEpoch = 256` and `Builds = {"release"}`, TLC finds `StakeDeltaBeforeMargin`
    violated. It is recorded as a hazard (do_work.rs:108), since it touches only a fresh
    test cluster's first 32 slots.

- **sd_pass.**
  - **Bounds.** Two validators of equal score holding 2 and 4 (v2 above its target),
    min_stake 2, a reserve that covers one ticket, at most 3 user operations (`MaxUserOps`)
    with at most 5 lamports in the reserve or in tickets, 5 stake account ids, epochs 0..1,
    a limit of 2 transactions, and a time budget that may run out after any transaction.
  - **What happens.** Both paths, whole and split deactivations, stakes refused because a
    claim or order between reads left the cached delta stale, a pass stopped by a ticket
    claim (fresh reserve, cached tickets), the once-per-epoch lock with and without extra
    runs, stale snapshot indices after a withdraw, and both budget exits. The operator
    runs one command: emergency-unstake of v1 or of the unlisted v3, with its score
    confirmed or returned as Ok unconfirmed, its unstakes landing, lost or failing on an
    index a withdraw moved, and config-validator-system setting 0 or 1 extra runs at any
    point. One send in a behaviour (`MaxLost`), of the bot or of the operator, may be
    returned as Ok unconfirmed and land later or never. At most 3 user operations: with 4
    the composition reaches 11.7M states in 9 minutes. About 2.6M states, 2 minutes.
  - **What it shows.** A pass or command with a send returned as Ok unconfirmed reports
    success for work the ledger has not applied (the divergence found at
    rpc_client_helpers.rs:262), so the properties speak of passes and commands whose
    sends were confirmed. `StakePassComplete`: a quiet pass that returned Ok(true) leaves
    either a delta below min_stake or only validators short by less than min_stake or
    locked with no extra run. `UnstakePassComplete`: such an unstake pass leaves a delta
    below min_stake (no overshoot the next pass would stake back), and either the shortfall
    is covered or every validator above its target already ran this epoch. So the estimate
    from the record's lamports and the whole/split rule agree. `EmergencyUnstakeClears`:
    an emergency-unstake that returned Ok has left its validator no active balance,
    whatever the bot did meanwhile. This is what the score-first order buys: with the
    score not zeroed (the mutant `EuScoreNotZeroed`), the bot's stake_reserve lands for
    the validator after the command read the stake list, and the command returns Ok with
    the validator staked.
- **sd_extra_runs.** This is a divergence from spec 4.3 step 4. After a split locks v2 and
  do-work obtains extra runs, the next unstake pass skips v2 (stake_delta.rs:315 ignores
  `extra_stake_delta_runs`). The shortfall stays uncovered although the program would
  accept the split.
- **vm_pass.**
  - **Bounds.** Four vote accounts, capacity 3, and two starting lists: A and B of score
    10 without stake (one add fits, a second is refused by the capacity tests), and a full
    list of A (staked), B (score 0) and C. Scores 0, 9 (within the 5% band of 10) and 20.
    Two instructions per transaction, or one with `-1`. Arguments of up to two vote
    accounts, repeats allowed; the cluster's vote accounts are C, D, A. The authority right
    or wrong. One send in a run (`MaxLost`) may be returned as Ok unconfirmed, then land
    later or never. Every file and argument is checked (19k initial states, 155k
    states); every action fires, including failed, lost and late sends.
  - **What it shows.** A run with a send returned as Ok unconfirmed reports success for a
    list the ledger may never reach, so the Ok-run properties speak of runs whose sends
    were confirmed. An update-scores run that returns Ok leaves the list as the file
    asks: no vote listed twice, every file score within the band, the unhealthy
    validators without stake removed, and the validators missing from the file listed
    exactly when stake is delegated to them. remove-validators' removals never meet a
    stale index (lost removals included), and an Ok run removed exactly the chosen
    validators. An Ok
    add-validators run leaves every given vote listed with a non-zero score, unless it was
    unlisted and the list is full. No add of either command is refused for a full list.
  - **No deadlock check.** `CHECK_DEADLOCK FALSE`: the command ends.
- **us_lands.** This is a code bug. Validators A and B are listed and neither is in the
  file nor has stake. The second loop builds `remove(1, A)` and `remove(2, B)`. After the
  first, B sits at index 1, so the second fails, and with it the whole transaction; the
  `?` abandons the rest. remove_validators.rs walks its removals with `.rev()` for exactly
  this reason; update-scores does not. The first loop has the same hazard for unhealthy
  validators, in score order.
- **ps_pass.**
  - **Bounds.** Two records. Scores 1 and 4. Credits observed 0 or 1. This-epoch credits
    17, 23 or not listed, which gives an average of 20 and reaches both credit rungs. APY
    3, 12 or none, which reaches both APY rungs. Average position 30 or 50. Marinade stake
    of 20 lamports or not on the chain list. One SOL is 4 lamports, and the imagined stake
    is 32. Every rung of `is_healthy`, both branches of the adjust loop, every panic, and
    ties in both sorts happen. About 740k states in 30 s.
  - **What it shows.** Whenever the file is written:
    - validators marked for unstake, or off the chain list, have score 0;
    - the ranks follow the adjusted scores;
    - should_have and pct split the target and 100%, up to rounding.
  - **No deadlock check.** `CHECK_DEADLOCK FALSE`: the command ends.
- **ps_apy_unwrap.** This is a code bug. With the APY file given and an average APY of
  12%, a validator missing from that file reaches the second APY rung, which its 6%
  fallback fails. The rung's message calls `self.apy.unwrap()`, and the command panics.
- **The stale total of PASS 1 (a hazard, not a run).** should_have divides by the file's
  total_score from before PASS 0. With validator 2 (score 4) zeroed in PASS 0, validator
  1 (score 1, healthy, 20 lamports staked) deserves the whole target of 52 lamports but
  gets a should_have of 10, and its score is cut to 90% of its stake. This contradicts
  only the adjust loop's comment ("if we need to unstake") and may be intended, so it is
  recorded as a hazard (process_scores.rs:454). `SharesSplitTarget` checks the shares
  actually written.

Each property of a passing run has a mutant in PROJECT.json: a plausible bug in the mapped
code under which TLC finds it violated. The mutants are:
- forward iteration (`StakesInfo` for `StakesInfoReversed`);
- mergeable stakes built from the reversed list;
- merge_stakes on chain without the check that the source is at the index named;
- the "unchanged" skip hoisted before the phase test;
- an off-by-one source bound;
- 0-based loop resets;
- a commit without its guard;
- a combine loop that skips a pack that does not fit;
- init_reserve (and the sol leg) without the transfer of the shortfall;
- config-marinade and change-authority filling the options not given from the snapshot, as
  set-lp-params does;
- get_or_create_associated_token_account adding the creation without looking the ATA up;
- the unsafe margin taken from the window's start instead of the epoch's last slot;
- the first-half test computed from the epoch's duration (`(last - first) / 2`);
- a stake_reserve that is not refused when the reserve cannot pay;
- the stake path's once-per-epoch skip without the extra-runs exception;
- the unstake path's once-per-epoch `continue` written as a `break`;
- emergency-unstake reading the stake list without zeroing the validator's score first;
- the rank counter starting at 0;
- the adjust loop without the zero score for validators marked for unstake;
- the rows left in the order of the first sort;
- should_have computed against the file's total_score;
- the stake-delta window test without the unsafe margin;
- the ±5% test without its lower bound (a score drop is never written);
- the capacity test with `>` for `>=`;
- remove-validators without `.rev()`;
- add-validators without the re-scoring of a listed validator of score 0.

## Fairness

Only the bot is fair: `WF_vars(Crank)` (in MergeStakes, `WF_vars(Crank(b))` for each pass). do-work is restarted by cron, and a started pass
either runs its loop to the end or stops on its own time budget. Epoch boundaries, deposits
and deactivations owe nothing. The batcher, admin-init and admin CLI models have no liveness: both CLIs are run by
hand, and their properties are invariants and action properties over every run the operator
may start.

## Not modelled, and why

- **Rewards** in the stake-delta ledger. The estimate the unstake path takes from
  `last_update_delegated_lamports` is exact in the model (stake_delta.rs:376 hazard).
- **stake-delta's rent-payer check and `update()` failures.** The first is a configuration
  error before any decision. The second ends the pass with Err after a transaction, and the
  next tick recomputes everything.
- **Ticket due epochs.** A claim is allowed as soon as the ticket exists and the reserve can
  pay; only its effect on the reserve/ticket counters matters to the allocator.
- **Simulation mode** (`--simulate`): it never changes the ledger.
- **emergency-unstake's `-r`** (remove_validator after the unstakes): the stake-delta
  ledger's validator list is a constant, so the removal would need the list as a
  variable and the bot's validator lookups by index; remove_validator itself is modelled
  in `ValidatorList`. config-validator-system's rent-payer `bail!` changes nothing.
- **The cooling-down withdraw**: it is commented out in the code.
- **The convenience constructors of TransactionBuilder** are modelled only as admin-init
  uses them, inside `AdminInit`.
- **admin-init's operational SOL account and treasury authority options, mint supply/freeze checks and the
  `-o` output file; the admin CLI's config fields other than the reward fee and the staking
  cap, the liquidity target, the proposals' serialisation and transfer amounts.** They take no part in the rerun question; `check_mint_account` is not
  called by `Init::process`. The admin CLI's other config fields are Options like the two
  modelled and would add states, not behaviours; the target is the float hazard above; a
  transfer proposal's execution is the multisig's. Lamports sent to the reserve PDA by anyone else (which make
  init bail "To high reserve balance", initialize.rs:336) are not modelled; admin-init's
  own late top-up reaches the same bail (ai_rerun).
- **The program's value checks on config-marinade** (ERR_FEE_TOO_HIGH and NUMBER_TOO_LOW,
  which test_configure.rs exercises). The admin commands of the model give only values the
  program accepts. A rejected value fails the whole transaction and writes nothing, as a
  wrong admin does, so `AdminAccepts` checks only the admin.
- **score post-processing's rent-payer check and I/O errors**: an early `?` that writes
  nothing. The vote-address `HashMap`s assume distinct addresses.
- **update-scores' rent-payer check, control report and logging**: they change no state.
  `TransactionBuilder::limited` packs by byte size; `PerTx` stands for it.
- **Metrics and test fixtures** (the tests' harness, reflection and simulation): they are read-only, with no interleaving to check.
- **Amounts** are small integers (lamport units of one). The stake program's activation
  schedule is abstracted to the five phases.

## Plan for the next sittings

1. **DoWork composition.** Compose `UpdatePrice`, `MergeStakes` and `StakeDelta` as one
   tick, with ticks sequenced by do-work. Overlapping merge-stakes passes are modelled
   (mg_pass); an update-price pass overlapping another tick's merges is not yet. The
   liveness "every mergeable pair is eventually merged" is not stated: a pass may take its
   elapsed-time exit at any iteration, so no fairness the code justifies forces a merge.
2. **Batching.** Refine `Batching` further with the crank's use of `build_one`, which
   asserts a single pack.
3. **Rewards in ValidatorLedger.** With epoch rewards, the record's lamports lag the
   delegation, and `UnstakePassComplete` can be restated within that lag.
