-------------------------- MODULE TransactionBuilder --------------------------
(***************************************************************************)
(* The operation batcher: TransactionBuilder of                            *)
(* sdk/offchain-common/src/transaction_builder.rs.                         *)
(*                                                                         *)
(* An instruction is a model value with a serialized size and a set of     *)
(* required signers; its description string is represented by the          *)
(* instruction it describes, so a built transaction records which          *)
(* instructions it carries and which ones its description list names.      *)
(* bincode::serialize(Transaction).len() is abstracted as TxOverhead plus  *)
(* the sizes of the instructions: it grows with every instruction added,   *)
(* which is all the size checks rely on.                                   *)
(*                                                                         *)
(* The `.expect(...)`/`assert!` panics of begin, commit, rollback and the  *)
(* build functions are preconditions of the calls: the actions are        *)
(* enabled only where the call does not panic.                             *)
(***************************************************************************)
EXTENDS Naturals, Sequences, SequencesExt

CONSTANTS
  Instr,               \* instructions a client may hand to add_instruction
  Size,                \* Instr -> Nat
  Keys,                \* signer public keys
  ReqSigners,          \* Instr -> SUBSET Keys (accounts with is_signer)
  FeePayer,            \* \in Keys, registered by TransactionBuilder::new
  TxOverhead,          \* serialized size of a transaction with no instruction
  MaxTransactionSize,  \* PACKET_DATA_SIZE for limited(), 0 for unlimited()
  NoPack,              \* the empty OnceCell current_instruction_pack
  MaxPacks             \* model bound: packs queued plus transactions built

ASSUME FeePayer \in Keys
ASSUME MaxTransactionSize \in Nat

VARIABLES
  signers,                   \* keys held by signature_builder
  instruction_packs,         \* committed packs, oldest first
  current_instruction_pack,  \* the open pack, or NoPack
  built,                     \* transactions returned by build_*: [instrs, descs]
  used                       \* instructions already handed to add_instruction

vars == <<signers, instruction_packs, current_instruction_pack, built, used>>

TxSize(s) == TxOverhead + FoldLeft(LAMBDA acc, i : acc + Size[i], 0, s)

\* new(fee_payer, max_transaction_size)
Init ==
  /\ signers = {FeePayer}
  /\ instruction_packs = <<>>
  /\ current_instruction_pack = NoPack
  /\ built = <<>>
  /\ used = {}

\* add_signer
AddSigner(k) ==
  /\ signers' = signers \cup {k}
  /\ UNCHANGED <<instruction_packs, current_instruction_pack, built, used>>

\* check_signers: every signer account of the instruction is known
CheckSigners(i) == ReqSigners[i] \subseteq signers

\* begin: OnceCell::set fails ("Double begin calls") if a pack is open
Begin ==
  /\ current_instruction_pack = NoPack
  /\ Len(instruction_packs) + Len(built) < MaxPacks
  /\ current_instruction_pack' = <<>>
  /\ UNCHANGED <<signers, instruction_packs, built, used>>

\* commit without the "Commit without begin" check
CommitUnchecked ==
  /\ instruction_packs' = Append(instruction_packs, current_instruction_pack)
  /\ current_instruction_pack' = NoPack
  /\ UNCHANGED <<signers, built, used>>

\* commit: take the open pack and push it to instruction_packs
Commit ==
  /\ current_instruction_pack # NoPack
  /\ instruction_packs' = Append(instruction_packs, current_instruction_pack)
  /\ current_instruction_pack' = NoPack
  /\ UNCHANGED <<signers, built, used>>

\* rollback: drop the open pack
Rollback ==
  /\ current_instruction_pack # NoPack
  /\ current_instruction_pack' = NoPack
  /\ UNCHANGED <<signers, instruction_packs, built, used>>

\* the size test of add_instruction on the candidate pack
ExceedsLimit(candidate) ==
  MaxTransactionSize > 0 /\ TxSize(candidate) > MaxTransactionSize

(***************************************************************************)
(* add_instruction: with no pack open the instruction gets a pack of its   *)
(* own (begin ... commit); a candidate that is too big is rolled back (own *)
(* pack) or popped (open pack) and Err(TooBigTransaction) returned.        *)
(***************************************************************************)
AddInstruction(i) ==
  LET add_transaction == current_instruction_pack = NoPack
      candidate == IF add_transaction THEN <<i>>
                   ELSE Append(current_instruction_pack, i)
  IN
  /\ i \notin used
  /\ used' = used \cup {i}
  /\ \/ /\ ~CheckSigners(i)                       \* Err(UnknownSigner)
        /\ UNCHANGED <<instruction_packs, current_instruction_pack>>
     \/ /\ CheckSigners(i)
        /\ ExceedsLimit(candidate)                \* Err(TooBigTransaction)
        /\ UNCHANGED <<instruction_packs, current_instruction_pack>>
     \/ /\ CheckSigners(i)
        /\ ~ExceedsLimit(candidate)
        /\ add_transaction
        /\ instruction_packs' = Append(instruction_packs, candidate)
        /\ UNCHANGED current_instruction_pack
     \/ /\ CheckSigners(i)
        /\ ~ExceedsLimit(candidate)
        /\ ~add_transaction
        /\ current_instruction_pack' = candidate
        /\ UNCHANGED instruction_packs
  /\ UNCHANGED <<signers, built>>

\* the assert "Not committed transaction" of build_next / build_next_combined
NothingOpen == current_instruction_pack \in {NoPack, <<>>}

\* build_next: the oldest pack becomes one transaction
BuildNext ==
  /\ NothingOpen
  /\ instruction_packs # <<>>
  /\ built' = Append(built, [instrs |-> Head(instruction_packs),
                             descs  |-> Head(instruction_packs)])
  /\ instruction_packs' = Tail(instruction_packs)
  /\ UNCHANGED <<signers, current_instruction_pack, used>>

(***************************************************************************)
(* build_one: build_next, then assert!(instruction_packs.is_empty()); it   *)
(* panics ("Is not single transaction") when nothing is queued.  The       *)
(* panics are its precondition: exactly one pack queued.                   *)
(***************************************************************************)
BuildOne ==
  /\ Len(instruction_packs) = 1
  /\ BuildNext

\* the combine loop if it skipped a pack that does not fit and went on
RECURSIVE CombineSkipping(_, _, _)
CombineSkipping(tx, descs, rest) ==
  IF rest = <<>> THEN [tx |-> tx, descs |-> descs, rest |-> rest]
  ELSE IF TxSize(tx \o Head(rest)) <= MaxTransactionSize
       THEN CombineSkipping(tx \o Head(rest), descs \o Head(rest), Tail(rest))
       ELSE LET r == CombineSkipping(tx, descs, Tail(rest))
            IN [r EXCEPT !.rest = <<Head(rest)>> \o r.rest]

(***************************************************************************)
(* The while-let loop of build_next_combined (limited builder): the next   *)
(* pack is appended to `instructions` and `descriptions`; the candidate is *)
(* accepted if it fits, otherwise the loop stops, leaving the pack queued  *)
(* but its descriptions already appended.                                  *)
(***************************************************************************)
RECURSIVE Combine(_, _, _)
Combine(tx, descs, rest) ==
  IF rest = <<>> THEN [tx |-> tx, descs |-> descs, rest |-> rest]
  ELSE LET candidate == tx \o Head(rest)
           extended  == descs \o Head(rest)
       IN IF TxSize(candidate) <= MaxTransactionSize
          THEN Combine(candidate, extended, Tail(rest))
          ELSE [tx |-> tx, descs |-> extended, rest |-> rest]

\* build_next_combined: unlimited drains every pack, limited packs greedily
BuildNextCombined ==
  /\ NothingOpen
  /\ instruction_packs # <<>>
  /\ LET all == FlattenSeq(instruction_packs)
         r   == IF MaxTransactionSize = 0
                THEN [tx |-> all, descs |-> all, rest |-> <<>>]
                ELSE Combine(Head(instruction_packs), Head(instruction_packs),
                             Tail(instruction_packs))
     IN /\ built' = Append(built, [instrs |-> r.tx, descs |-> r.descs])
        /\ instruction_packs' = r.rest
  /\ UNCHANGED <<signers, current_instruction_pack, used>>

\* is_empty: no instruction in the open pack and no pack queued
IsEmpty ==
  /\ current_instruction_pack \in {NoPack, <<>>}
  /\ instruction_packs = <<>>

\* build_one_combined: build_next_combined, then assert!(self.is_empty(),
\* "Not fit single transaction")
BuildOneCombined ==
  /\ BuildNextCombined
  /\ IsEmpty'

Next ==
  \/ \E k \in Keys : AddSigner(k)
  \/ Begin
  \/ Commit
  \/ Rollback
  \/ \E i \in Instr : AddInstruction(i)
  \/ BuildNext
  \/ BuildOne
  \/ BuildNextCombined
  \/ BuildOneCombined

Spec == Init /\ [][Next]_vars

-----------------------------------------------------------------------------
(***************************************************************************)
(* Properties                                                              *)
(***************************************************************************)

TypeOK ==
  /\ signers \subseteq Keys
  /\ instruction_packs \in Seq(Seq(Instr))
  /\ current_instruction_pack \in Seq(Instr) \cup {NoPack}
  /\ built \in Seq([instrs : Seq(Instr), descs : Seq(Instr)])
  /\ used \subseteq Instr

(***************************************************************************)
(* TransactionBuilder implements the batcher contract (Batching): the      *)
(* packs committed by begin/add_instruction/commit come out of build_next  *)
(* and build_next_combined whole, in commit order, each transaction a run  *)
(* of packs from the front of the queue that fits MaxTransactionSize, and  *)
(* only with instructions whose signers were registered.                   *)
(***************************************************************************)
Abstract == INSTANCE Batching
  WITH Op <- Instr, Overhead <- TxOverhead, Ceiling <- MaxTransactionSize,
       NoBatch <- NoPack, registered <- signers,
       open <- current_instruction_pack, queue <- instruction_packs,
       units <- [t \in DOMAIN built |-> built[t].instrs]

BatchingRefinement == Abstract!Spec

=============================================================================
