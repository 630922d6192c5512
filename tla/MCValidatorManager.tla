-------------------------- MODULE MCValidatorManager --------------------------
(***************************************************************************)
(* ValidatorManager for TLC: four vote accounts, a capacity of three, and  *)
(* two lists to start from: two validators of score 10 without stake, and *)
(* a full list of three (A staked, B with score 0, C without stake).       *)
(* Scores 0, 9 (within 5% of 10 after the floor: 10*95/100 = 9) and 20.   *)
(***************************************************************************)
EXTENDS ValidatorManager

MCVotes == {"A", "B", "C", "D"}
MCFileOrder == <<"A", "B", "C", "D">>
MCClusterVotes == <<"C", "D", "A">>
MCInitLists ==
  { <<[vote |-> "A", score |-> 10, balance |-> 0], [vote |-> "B", score |-> 10, balance |-> 0]>>,
    <<[vote |-> "A", score |-> 10, balance |-> 1], [vote |-> "B", score |-> 0, balance |-> 0],
      [vote |-> "C", score |-> 10, balance |-> 0]>> }
=============================================================================
