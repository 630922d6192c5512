------------------------- MODULE MCTransactionBuilder -------------------------
(***************************************************************************)
(* A limited builder with a ceiling of 5 and five instructions sized so    *)
(* that: i5 alone is too big, i1+i2 does not fit but i1+i3 does (the       *)
(* combine loop must stop at i2's pack), i2 needs a second signer k1.      *)
(***************************************************************************)
EXTENDS TransactionBuilder

CONSTANTS i1, i2, i3, i4, i5, fee, k1

MCInstr == {i1, i2, i3, i4, i5}

MCSize == [i \in MCInstr |->
             CASE i = i1 -> 2
               [] i = i2 -> 3
               [] i = i3 -> 1
               [] i = i4 -> 1
               [] i = i5 -> 5]

MCKeys == {fee, k1}

MCReqSigners == [i \in MCInstr |-> IF i = i2 THEN {fee, k1} ELSE {fee}]

=============================================================================
