------------------------------ MODULE Batching ------------------------------
(***************************************************************************)
(* What the operation batcher promises (spec section 4.1), independent of  *)
(* how TransactionBuilder stores its packs: operations are grouped into    *)
(* closed batches, kept in FIFO order, and handed out as submission units  *)
(* each made of a non-empty run of WHOLE batches taken from the front of   *)
(* the queue, never larger than the ceiling unless it is a single batch.   *)
(* An operation is accepted only if all its signers are registered and the *)
(* batch it joins still fits the ceiling.                                  *)
(***************************************************************************)
EXTENDS Naturals, Sequences, SequencesExt

CONSTANTS
  Op,          \* operations (opaque; each has a size and required signers)
  Size,        \* Op -> Nat, serialized size of an operation
  Keys,        \* signer keys
  ReqSigners,  \* Op -> SUBSET Keys
  FeePayer,    \* the signer registered at construction
  Overhead,    \* size of an empty submission unit
  Ceiling,     \* size ceiling of a unit; 0 means unlimited
  NoBatch      \* marker: no batch is open

VARIABLES
  registered,  \* signer keys known to the batcher
  open,        \* the open batch, or NoBatch
  queue,       \* closed batches, oldest first
  units        \* submission units handed out so far, oldest first

vars == <<registered, open, queue, units>>

UnitSize(s) == Overhead + FoldLeft(LAMBDA acc, o : acc + Size[o], 0, s)

Fits(s) == Ceiling = 0 \/ UnitSize(s) <= Ceiling

Init ==
  /\ registered = {FeePayer}
  /\ open = NoBatch
  /\ queue = <<>>
  /\ units = <<>>

Register(k) ==
  /\ registered' = registered \cup {k}
  /\ UNCHANGED <<open, queue, units>>

OpenBatch ==
  /\ open = NoBatch
  /\ open' = <<>>
  /\ UNCHANGED <<registered, queue, units>>

\* With no batch open the operation becomes a closed batch of its own.
AddOp(o) ==
  /\ ReqSigners[o] \subseteq registered
  /\ \/ /\ open = NoBatch
        /\ Fits(<<o>>)
        /\ queue' = Append(queue, <<o>>)
        /\ UNCHANGED open
     \/ /\ open # NoBatch
        /\ Fits(Append(open, o))
        /\ open' = Append(open, o)
        /\ UNCHANGED queue
  /\ UNCHANGED <<registered, units>>

CloseBatch ==
  /\ open # NoBatch
  /\ queue' = Append(queue, open)
  /\ open' = NoBatch
  /\ UNCHANGED <<registered, units>>

DiscardBatch ==
  /\ open # NoBatch
  /\ open' = NoBatch
  /\ UNCHANGED <<registered, queue, units>>

\* Hand out the first k closed batches as one unit.
Submit(k) ==
  /\ open \in {NoBatch, <<>>}
  /\ k \in 1..Len(queue)
  /\ LET u == FlattenSeq(SubSeq(queue, 1, k)) IN
       /\ k = 1 \/ Fits(u)
       /\ units' = Append(units, u)
  /\ queue' = SubSeq(queue, k + 1, Len(queue))
  /\ UNCHANGED <<registered, open>>

Next ==
  \/ \E k \in Keys : Register(k)
  \/ OpenBatch
  \/ \E o \in Op : AddOp(o)
  \/ CloseBatch
  \/ DiscardBatch
  \/ \E k \in 1..Len(queue) : Submit(k)

Spec == Init /\ [][Next]_vars

=============================================================================
