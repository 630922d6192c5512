---------------------------- MODULE MCProcessScores ----------------------------
(* Two records of avg.csv; scores, credits, APYs and stakes from small sets  *)
(* that reach every rung of is_healthy, both branches of the adjust loop    *)
(* and ties in the sorts.  One SOL is 4 lamports; the imagined 100,000 SOL  *)
(* are 8 SOL.                                                                *)
EXTENDS ProcessScores

MCThisEpochValues == {NotListed, 17, 23}
MCApyValues == {NoApy, 3, 12}
MCStakedValues == {NotOnChain, 20}
=============================================================================
