--------------------------------- MODULE DoWork ---------------------------------
(***************************************************************************)
(* The epoch-phase scheduler: DoWorkOptions::process of                    *)
(* cli/bot-cli/src/do_work.rs.  cron starts a tick every few minutes; the  *)
(* tick reads the clock and decides from the slot alone which cranks run:  *)
(* stake-delta inside the stake-delta window (the last                     *)
(* slots_for_stake_delta slots of the epoch, minus a safety margin),       *)
(* update-price in the first half of the epoch before that window, and    *)
(* merge-stakes before the window when time is left.  The cranks are      *)
(* events here (UpdatePrice and MergeStakes model them).                   *)
(*                                                                         *)
(* Slots are u64: `epoch_last_slot - LAST_SLOTS_UNSAFE_MARGIN` is an      *)
(* unchecked subtraction, which wraps in a release build and panics in a  *)
(* build with overflow checks.  The width is U64Modulus, a power of two   *)
(* larger than every slot of the model, which gives every comparison of   *)
(* the code the outcome it has with 2^64.                                  *)
(***************************************************************************)
EXTENDS Naturals, FiniteSets

CONSTANTS
  SlotsPerEpoch,        \* EpochSchedule::slots_per_epoch (a power of two)
  Warmup,               \* EpochSchedule::warmup
  StakeDeltaWindow,     \* stake_system.slots_for_stake_delta
  TickInterval,         \* most slots between two cron ticks
  MaxEpoch,             \* model bound: the epochs the clock goes through
  U64Modulus,           \* 2^64, scaled down (see above)
  Builds,               \* the profiles the bot may be built with: "release", "debug"
  AuthorityIsFeePayer   \* the fee payer is the validator manager authority

\* LAST_SLOTS_UNSAFE_MARGIN
LastSlotsUnsafeMargin == 32

-----------------------------------------------------------------------------
(***************************************************************************)
(* solana_sdk::epoch_schedule::EpochSchedule: with warmup, epoch e below   *)
(* first_normal_epoch has 32 * 2^e slots.                                  *)
(***************************************************************************)
MinimumSlotsPerEpoch == 32

RECURSIVE Pow2(_)
Pow2(n) == IF n = 0 THEN 1 ELSE 2 * Pow2(n - 1)

RECURSIVE Log2(_)
Log2(n) == IF n <= 1 THEN 0 ELSE 1 + Log2(n \div 2)

FirstNormalEpoch ==
  IF Warmup THEN Log2(SlotsPerEpoch) - Log2(MinimumSlotsPerEpoch) ELSE 0

FirstNormalSlot == (Pow2(FirstNormalEpoch) - 1) * MinimumSlotsPerEpoch

SlotsInEpoch(e) ==
  IF e < FirstNormalEpoch THEN Pow2(e + Log2(MinimumSlotsPerEpoch)) ELSE SlotsPerEpoch

FirstSlotInEpoch(e) ==
  IF e <= FirstNormalEpoch
  THEN (Pow2(e) - 1) * MinimumSlotsPerEpoch
  ELSE (e - FirstNormalEpoch) * SlotsPerEpoch + FirstNormalSlot

LastSlotInEpoch(e) == FirstSlotInEpoch(e) + SlotsInEpoch(e) - 1

MaxSlot == LastSlotInEpoch(MaxEpoch)

\* EpochSchedule::get_epoch, tabulated over the model's slots and one tick beyond
EpochOfSlot == [s \in 0..MaxSlot + TickInterval |->
                 CHOOSE e \in 0..MaxEpoch + 1 : FirstSlotInEpoch(e) <= s /\ s <= LastSlotInEpoch(e)]

EpochOf(s) == EpochOfSlot[s]

-----------------------------------------------------------------------------

\* u64 arithmetic of the code
SaturatingSub(a, b) == IF a >= b THEN a - b ELSE 0
WrappingSub(a, b) == (a - b) % U64Modulus

VARIABLES
  slot,            \* Clock::slot
  tick,            \* what the last tick did
  settledEpochs,   \* history: epochs in which a tick reached the stake-delta decision
  accruedEpochs    \* history: epochs in which a tick ran update-price

vars == <<slot, tick, settledEpochs, accruedEpochs>>

NoTick == [slot |-> 0, epoch |-> 0, outcome |-> "none", stakeDelta |-> FALSE,
           extraRuns |-> FALSE, updatePrice |-> FALSE, merge |-> FALSE]

Init ==
  /\ slot = 0
  /\ tick = NoTick
  /\ settledEpochs = {}
  /\ accruedEpochs = {}

\* the window test with the margin taken from the window's start
InStakeDeltaWindowMarginFromStart(s, start, last, build) ==
  s > start /\ s < WrappingSub(start, LastSlotsUnsafeMargin)

\* the window test without the unsafe margin
InStakeDeltaWindowNoMargin(s, start, last, build) ==
  s > start /\ s < last

(***************************************************************************)
(* `clock.slot > stake_window_start_slot && clock.slot < epoch_last_slot - *)
(* LAST_SLOTS_UNSAFE_MARGIN`.  The subtraction is evaluated only when the  *)
(* first test holds; it underflows when the epoch's last slot is below the *)
(* margin.                                                                 *)
(***************************************************************************)
InStakeDeltaWindow(s, start, last, build) ==
  s > start /\ s < WrappingSub(last, LastSlotsUnsafeMargin)

\* the subtraction panics: a debug build and an epoch shorter than the margin
WindowTestPanics(s, start, last, build) ==
  s > start /\ last < LastSlotsUnsafeMargin /\ build = "debug"

\* the first-half test of update-price
FirstHalfFromDuration(s, first, last) == s < (last - first) \div 2

\* `clock.slot < (epoch_last_slot + epoch_first_slot) / 2`
FirstHalf(s, first, last) == s < (last + first) \div 2

\* after update-price, marinade.update()? (its error ends the tick), then
\* merge-stakes when more than 10 seconds of the run time are left
MergeRuns(before, upRan, updateFails, timeLeft) ==
  before /\ ~(upRan /\ updateFails) /\ timeLeft

(***************************************************************************)
(* One tick at slot s, DoWorkOptions::process: get_clock, the epoch        *)
(* schedule, the stake-delta window, the extra-runs request, stake-delta,  *)
(* then update-price and merge-stakes before the window.  The end-of-epoch *)
(* estimate only logs (at an epoch's first slot unix_timestamp equals      *)
(* epoch_start_timestamp: 0/0 is NaN, cast to 0).  The inputs the tick     *)
(* reads from the ledger are chosen freely: whether stake_delta is         *)
(* actionable (negative, or at least min_stake), whether                   *)
(* extra_stake_delta_runs is below the validators with score, whether      *)
(* marinade.update() fails, and whether more than 10 seconds of the run    *)
(* time are left for merge-stakes.  An error `?` ends the tick.            *)
(***************************************************************************)
Tick(s) ==
  LET e     == EpochOf(s)
      first == FirstSlotInEpoch(e)
      last  == LastSlotInEpoch(e)
      start == SaturatingSub(last, StakeDeltaWindow)
  IN
  \E build \in Builds, actionable \in BOOLEAN, extraShort \in BOOLEAN,
     updateFails \in BOOLEAN, timeLeft \in BOOLEAN :
    LET panics   == WindowTestPanics(s, start, last, build)
        inWindow == ~panics /\ InStakeDeltaWindow(s, start, last, build)
        request  == inWindow /\ actionable /\ extraShort
                    /\ s > start + StakeDeltaWindow \div 2
        refused  == request /\ ~AuthorityIsFeePayer    \* config_validator_system(...)?
        runSD    == inWindow /\ actionable /\ ~refused
        before   == ~panics /\ s < start
        runUP    == before /\ FirstHalf(s, first, last)
        runMerge == MergeRuns(before, runUP, updateFails, timeLeft)
    IN
    /\ tick' = [slot |-> s, epoch |-> e,
                outcome |-> CASE panics -> "panic"
                              [] refused \/ ((runSD \/ runUP) /\ updateFails) -> "error"
                              [] OTHER -> "ok",
                stakeDelta |-> runSD, extraRuns |-> request,
                updatePrice |-> runUP, merge |-> runMerge]
    /\ settledEpochs' = IF inWindow /\ ~refused THEN settledEpochs \cup {e}
                                                ELSE settledEpochs
    /\ accruedEpochs' = IF runUP THEN accruedEpochs \cup {e} ELSE accruedEpochs

\* cron: the next tick starts within TickInterval slots
Cron ==
  \E s \in slot + 1 .. slot + TickInterval :
    /\ s <= MaxSlot
    /\ slot' = s
    /\ Tick(s)

Next == Cron

Spec == Init /\ [][Next]_vars

-----------------------------------------------------------------------------
(***************************************************************************)
(* Properties                                                              *)
(***************************************************************************)

TypeOK ==
  /\ slot \in 0..MaxSlot
  /\ tick.outcome \in {"none", "ok", "panic", "error"}
  /\ settledEpochs \subseteq 0..MaxEpoch
  /\ accruedEpochs \subseteq 0..MaxEpoch

(***************************************************************************)
(* Every epoch the clock has left behind had a tick that reached the       *)
(* stake-delta decision: with cron ticking every TickInterval slots, the   *)
(* window the slot tests leave open (after the window start, before the    *)
(* unsafe margin, and before the extra-runs request can abort the tick)    *)
(* is never skipped.                                                       *)
(***************************************************************************)
EveryEpochSettled ==
  \A e \in 0..MaxEpoch : LastSlotInEpoch(e) < slot => e \in settledEpochs

(***************************************************************************)
(* Every epoch the clock has left behind had a tick that ran update-price  *)
(* (the first half of the epoch, before the stake-delta window).           *)
(***************************************************************************)
EveryEpochAccrued ==
  \A e \in 0..MaxEpoch : LastSlotInEpoch(e) < slot => e \in accruedEpochs

(***************************************************************************)
(* stake-delta never runs in the last LAST_SLOTS_UNSAFE_MARGIN slots of an *)
(* epoch ("It is too late and instruction can be processed in the next    *)
(* epoch").  It holds on a cluster without warmup; in a warmup epoch      *)
(* shorter than the margin the unchecked subtraction breaks it (see the   *)
(* README).                                                                *)
(***************************************************************************)
StakeDeltaBeforeMargin ==
  tick.stakeDelta => tick.slot + LastSlotsUnsafeMargin < LastSlotInEpoch(tick.epoch)

=============================================================================
