----------------------------- MODULE MCMardmin -----------------------------
(***************************************************************************)
(* admin-init and the admin CLI on one instance, for TLC: the admin       *)
(* and transfer-spl-token command lines a run may be.                    *)
(***************************************************************************)
EXTENDS Mardmin

MultisigKey == <<"key", "multisig">>

\* a command line with nothing given
NoOpts ==
  [op |-> "configMarinade", minFee |-> None, maxFee |-> None, fee |-> None,
   cap |-> None, removeCap |-> FALSE, newAdmin |-> None, newVm |-> None,
   key |-> "feePayer", propose |-> FALSE]

MCAdminCmds ==
  { NoOpts,
    [NoOpts EXCEPT !.op = "changeAuthority", !.newAdmin = Some(MultisigKey)],
    [NoOpts EXCEPT !.fee = Some(5)],
    [NoOpts EXCEPT !.cap = Some("cap1")],
    [NoOpts EXCEPT !.removeCap = TRUE, !.propose = TRUE],
    [NoOpts EXCEPT !.op = "setLpParams", !.minFee = Some(2)],
    [NoOpts EXCEPT !.op = "setLpParams", !.maxFee = Some(4)] }

\* transfer-spl-token: to a wallet, to a token account of the same mint,
\* and to one of another mint
Transfer == [fromOwner |-> "token", auth |-> "owner", toOwner |-> "system",
             toMint |-> "same", decimals |-> 9]

MCTransferCmds ==
  { Transfer,
    [Transfer EXCEPT !.toOwner = "token"],
    [Transfer EXCEPT !.toOwner = "token", !.toMint = "other"] }

=============================================================================
