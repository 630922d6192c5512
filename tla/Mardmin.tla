------------------------------ MODULE Mardmin ------------------------------
(***************************************************************************)
(* The admin CLI (cli/admin, the mardmin binary) run against the instance  *)
(* admin-init set up: set-lp-params, config-marinade and change-authority. *)
(* Each run reads the state once (RpcMarinade::new), builds one           *)
(* instruction from its options and that snapshot, and either sends it    *)
(* (execute_transaction of build_one) or, with -p, writes it out as a     *)
(* multisig proposal that the multisig executes later, if ever.  And      *)
(* transfer-spl-token, which only writes a proposal, but first creates    *)
(* the associated token account of a wallet destination.  The operator   *)
(* runs one admin command at a time.                                      *)
(*                                                                         *)
(* Runs of admin-init and of the admin CLI share the operator's run count *)
(* (MaxRuns) and the send faults (MaxFaults); the admin commands need the *)
(* given instance to hold an initialized state.                           *)
(***************************************************************************)
EXTENDS AdminInit

CONSTANTS
  AdminCmds,   \* the admin command lines a run may be
  Multisig,    \* the multisig key a proposal is executed by
  TransferCmds \* the transfer-spl-token command lines a run may be

VARIABLES
  st,          \* the state's fields the admin commands read or write
  snap,        \* st as the current admin run read it
  acmd,        \* the current admin run's command line
  aix,         \* the instruction it sends
  aphase,      \* "idle", "send", "transfer" (its ATA creation) or "done"
  aoutcome,    \* "none", "ok", "rejected", "failed" or the client's error
  proposals,   \* instructions written out with -p, not yet executed
  ainflight,   \* admin instructions sent unconfirmed that may still land
  ata,         \* a wallet's associated token account: "absent", "present"
  ataInflight, \* a creation of it sent unconfirmed, which may still land
  ataLostEver  \* some creation of it went unconfirmed

mvars == <<st, snap, acmd, aix, aphase, aoutcome, proposals, ainflight, ata,
           ataInflight, ataLostEver>>

\* the transfer's variables, which the other admin commands leave alone
tvars == <<ata, ataInflight, ataLostEver>>

allVars == <<vars, mvars>>

\* an option of the command line: None or <<value>>
Some(v) == <<v>>

\* what initialize writes (instruction_helpers/initialize.rs build): the
\* authorities init was given (the fee payer), its fee, the default LP fees
\* and no staking cap
StateInit ==
  [admin |-> FeePayer, vmAuth |-> FeePayer, rewardsFee |-> 2,
   lpMinFee |-> 1, lpMaxFee |-> 3, stakingCap |-> "max"]

\* MARINADE_ADMIN: the keypair given, the fee payer by default
AdminKey(c) == IF c.key = "feePayer" THEN FeePayer ELSE Other

\* config-marinade: the cap given, else u64::MAX with --remove-cap, else none
Cap(c) == IF c.cap # None THEN c.cap ELSE IF c.removeCap THEN Some("max") ELSE None

\* change-authority: ChangeAuthorityData of the new keys given
ChangeAuthorityOpts(c) == [admin |-> c.newAdmin, vmAuth |-> c.newVm]

\* set-lp-params: the fees given
LpParamsOpts(c) == [lpMinFee |-> c.minFee, lpMaxFee |-> c.maxFee]

\* config-marinade: ConfigMarinadeParams of the fee and the cap
ConfigOpts(c) == [rewardsFee |-> c.fee, stakingCap |-> Cap(c)]

\* the options each command maps to the state's fields
Opts(c) ==
  CASE c.op = "changeAuthority" -> ChangeAuthorityOpts(c)
    [] c.op = "setLpParams" -> LpParamsOpts(c)
    [] c.op = "configMarinade" -> ConfigOpts(c)

\* the fields the command line names; none is "no parameters set"
Given(c) == {f \in DOMAIN Opts(c) : Opts(c)[f] # None}

(***************************************************************************)
(* The instruction's data: ChangeAuthorityData and ConfigMarinadeParams   *)
(* carry Options, so the program writes the given fields only;            *)
(* set-lp-params takes "command line options or existent values" and     *)
(* sends both fees.                                                        *)
(***************************************************************************)
\* config-marinade and change-authority filling what is not given from the
\* snapshot, as set-lp-params does
IxDataFilled(c, s) ==
  [f \in DOMAIN Opts(c) |-> IF Opts(c)[f] = None THEN s[f] ELSE Opts(c)[f][1]]

IxData(c, s) ==
  IF c.op = "setLpParams"
  THEN [f \in DOMAIN Opts(c) |-> IF Opts(c)[f] = None THEN s[f] ELSE Opts(c)[f][1]]
  ELSE [f \in Given(c) |-> Opts(c)[f][1]]

\* change_authority / set_lp_params / config_marinade of sdk/onchain: the
\* admin_authority account is the snapshot's
AdminIx(c, s) == [op |-> c.op, admin |-> s.admin, data |-> IxData(c, s), given |-> Given(c)]

(***************************************************************************)
(* A run's client side: the "no parameters set" check, then either the    *)
(* proposal (no authority check) or the helper's check that the keypair   *)
(* is the snapshot's admin_authority (InvalidAdminAuthority); add_signer   *)
(* and add_instruction then pass check_signers and build_one holds one    *)
(* pack.                                                                   *)
(***************************************************************************)
\* the helpers' check (change_authority, set_lp_params, config_marinade of
\* instruction_helpers): the keypair given is the state's admin_authority
AdminCheck(c, s) == AdminKey(c) = s.admin

RunCommand(c, s) ==
  CASE Given(c) = {} -> [err |-> "noParameters", send |-> FALSE]
    [] c.propose -> [err |-> "ok", send |-> FALSE]
    [] ~AdminCheck(c, s) -> [err |-> "invalidAdmin", send |-> FALSE]
    [] OTHER -> [err |-> "none", send |-> TRUE]

\* the program: has_one admin_authority, which signs; then the fields written
AdminAccepts(ix) == ix.admin = st.admin

ApplyAdmin(ix) == [f \in DOMAIN st |-> IF f \in DOMAIN ix.data THEN ix.data[f] ELSE st[f]]

\* RpcMarinade::new: the state account read once per run
ReadState == st

\* -p: the instruction, for the snapshot's admin_authority, written out as
\* a multisig TransactionInstruction
Propose(c, s) == proposals \cup {AdminIx(c, s)}

MInit ==
  /\ st = StateInit
  /\ snap = StateInit
  /\ acmd = None
  /\ aix = None
  /\ aphase = "idle"
  /\ aoutcome = "none"
  /\ proposals = {}
  /\ ainflight = {}
  /\ ata = "absent"
  /\ ataInflight = FALSE
  /\ ataLostEver = FALSE

\* a run of an admin command (main.rs dispatches one per run)
StartAdmin ==
  /\ aphase \in {"idle", "done"}
  /\ run < MaxRuns
  /\ acct[GivenInst].kind = "state"
  /\ \E c \in AdminCmds :
       LET r == RunCommand(c, ReadState) IN
       /\ acmd' = c
       /\ aoutcome' = r.err
       /\ aphase' = IF r.send THEN "send" ELSE "done"
       /\ aix' = IF r.send THEN AdminIx(c, ReadState) ELSE None
       /\ proposals' = IF r.err = "ok" THEN Propose(c, ReadState) ELSE proposals
  /\ snap' = ReadState
  /\ run' = run + 1
  /\ UNCHANGED <<tvars, st, ainflight, acct, cmdline, inst, phase, txs, sent, outcome,
                 inflight, lostEver, faults>>

\* execute_transaction of the admin transaction, which lands
AdminLands ==
  /\ aphase = "send"
  /\ AdminAccepts(aix)
  /\ st' = ApplyAdmin(aix)
  /\ aphase' = "done"
  /\ aoutcome' = "ok"
  /\ UNCHANGED <<tvars, snap, acmd, aix, proposals, ainflight, vars>>

\* preflight fails with logs: Err
AdminRejected ==
  /\ aphase = "send"
  /\ ~AdminAccepts(aix)
  /\ aphase' = "done"
  /\ aoutcome' = "rejected"
  /\ UNCHANGED <<tvars, st, snap, acmd, aix, proposals, ainflight, vars>>

\* sent but not confirmed: logged and returned as Ok
AdminUnconfirmed ==
  /\ aphase = "send"
  /\ faults < MaxFaults
  /\ ainflight' = ainflight \cup {aix}
  /\ faults' = faults + 1
  /\ aphase' = "done"
  /\ aoutcome' = "ok"
  /\ UNCHANGED <<tvars, st, snap, acmd, aix, proposals, acct, cmdline, run, inst, phase,
                 txs, sent, outcome, inflight, lostEver>>

\* an error before sending (get_recent_blockhash, signing): Err
AdminSendFails ==
  /\ aphase = "send"
  /\ faults < MaxFaults
  /\ faults' = faults + 1
  /\ aphase' = "done"
  /\ aoutcome' = "failed"
  /\ UNCHANGED <<tvars, st, snap, acmd, aix, proposals, ainflight, acct, cmdline, run, inst,
                 phase, txs, sent, outcome, inflight, lostEver>>

\* an unconfirmed admin transaction lands after all, if still accepted
AdminLateLand ==
  /\ \E g \in ainflight :
       /\ ainflight' = ainflight \ {g}
       /\ st' = IF AdminAccepts(g) THEN ApplyAdmin(g) ELSE st
  /\ UNCHANGED <<tvars, snap, acmd, aix, aphase, aoutcome, proposals, vars>>

\* or its blockhash expires
AdminExpire ==
  /\ \E g \in ainflight : ainflight' = ainflight \ {g}
  /\ UNCHANGED <<tvars, st, snap, acmd, aix, aphase, aoutcome, proposals, vars>>

\* the multisig executes a proposal: it signs for the multisig key only,
\* and the program checks the proposal's admin_authority against the state
ProposalExecuted ==
  /\ \E p \in proposals :
       /\ proposals' = proposals \ {p}
       /\ st' = IF p.admin = Multisig /\ AdminAccepts(p) THEN ApplyAdmin(p) ELSE st
  /\ UNCHANGED <<tvars, snap, acmd, aix, aphase, aoutcome, ainflight, vars>>

(***************************************************************************)
(* transfer-spl-token: the source must be a token account whose owner is *)
(* -a; a destination owned by the token program is used as is, one owned *)
(* by the system program is replaced by its associated token account for *)
(* the source's mint, any other is a panic.  Then the destination is     *)
(* read, its mint compared, the mint's decimals checked, and the         *)
(* proposal written.                                                       *)
(***************************************************************************)
\* its command line (-f, -t, -a, -u): what the checks tell apart of the
\* accounts named, the source's owner program and token authority, the
\* destination's owner program and mint, the mint's decimals
TransferCmdLines ==
  [fromOwner : {"token", "other"}, auth : {"owner", "other"},
   toOwner : {"token", "system", "other"}, toMint : {"same", "other"},
   decimals : {9, 6}]

ASSUME TransferCmds \subseteq TransferCmdLines

FromOk(c) == c.fromOwner = "token" /\ c.auth = "owner"

\* get_or_create_associated_token_account adding the creation whatever it finds
GetOrCreateAtaAlways(c) == TRUE

\* get_or_create_associated_token_account: is the creation added to the builder
GetOrCreateAta(c) == ata = "absent"

\* the run from the destination read on
Finish(c, destPresent) ==
  CASE ~destPresent -> "noDestination"
    [] c.toOwner = "token" /\ c.toMint # "same" -> "mintMismatch"
    [] c.decimals # 9 -> "decimals"
    [] OTHER -> "proposed"

\* a transfer run up to its ATA transaction; with nothing to create
\* (builder.is_empty()) it goes straight on to the proposal
StartTransfer ==
  /\ aphase \in {"idle", "done"}
  /\ run < MaxRuns
  /\ \E c \in TransferCmds :
       /\ acmd' = c
       /\ CASE ~FromOk(c) -> aphase' = "done" /\ aoutcome' = "badFrom"
            [] c.toOwner \notin {"token", "system"} -> aphase' = "done" /\ aoutcome' = "badTo"
            [] c.toOwner = "system" /\ GetOrCreateAta(c) ->
                 aphase' = "transfer" /\ aoutcome' = "none"
            [] OTHER ->
                 aphase' = "done" /\ aoutcome' = Finish(c, c.toOwner = "token" \/ ata = "present")
  /\ run' = run + 1
  /\ UNCHANGED <<st, snap, aix, proposals, ainflight, tvars, acct, cmdline, inst, phase,
                 txs, sent, outcome, inflight, lostEver, faults>>

\* the creation lands, and the destination read finds it
TCreateLands ==
  /\ aphase = "transfer"
  /\ ata = "absent"
  /\ ata' = "present"
  /\ aphase' = "done"
  /\ aoutcome' = Finish(acmd, TRUE)
  /\ UNCHANGED <<st, snap, acmd, aix, proposals, ainflight, ataInflight, ataLostEver, vars>>

\* the ATA exists by now: the create instruction fails and the run errs
TCreateRejected ==
  /\ aphase = "transfer"
  /\ ata = "present"
  /\ aphase' = "done"
  /\ aoutcome' = "createRejected"
  /\ UNCHANGED <<st, snap, acmd, aix, proposals, ainflight, tvars, vars>>

\* sent but not confirmed: Ok, and the destination read runs at once
TCreateUnconfirmed ==
  /\ aphase = "transfer"
  /\ faults < MaxFaults
  /\ faults' = faults + 1
  /\ ataInflight' = TRUE
  /\ ataLostEver' = TRUE
  /\ aphase' = "done"
  /\ aoutcome' = Finish(acmd, ata = "present")
  /\ UNCHANGED <<st, snap, acmd, aix, proposals, ainflight, ata, acct, cmdline, run,
                 inst, phase, txs, sent, outcome, inflight, lostEver>>

\* an error before sending: Err
TCreateSendFails ==
  /\ aphase = "transfer"
  /\ faults < MaxFaults
  /\ faults' = faults + 1
  /\ aphase' = "done"
  /\ aoutcome' = "sendFailed"
  /\ UNCHANGED <<st, snap, acmd, aix, proposals, ainflight, tvars, acct, cmdline, run,
                 inst, phase, txs, sent, outcome, inflight, lostEver>>

\* the unconfirmed creation lands late (or fails on an ATA that exists)
TAtaLateLand ==
  /\ ataInflight
  /\ ataInflight' = FALSE
  /\ ata' = "present"
  /\ UNCHANGED <<st, snap, acmd, aix, aphase, aoutcome, proposals, ainflight,
                 ataLostEver, vars>>

\* or its blockhash expires
TAtaExpire ==
  /\ ataInflight
  /\ ataInflight' = FALSE
  /\ UNCHANGED <<st, snap, acmd, aix, aphase, aoutcome, proposals, ainflight, ata,
                 ataLostEver, vars>>

\* admin-init's steps leave the admin state alone
InitRun == StartRun /\ UNCHANGED mvars
InitSendLands == SendLands /\ UNCHANGED mvars
InitSendRejected == SendRejected /\ UNCHANGED mvars
InitSendUnconfirmed == SendUnconfirmed /\ UNCHANGED mvars
InitSendFails == SendFails /\ UNCHANGED mvars
InitLateLand == LateLand /\ UNCHANGED mvars
InitExpire == Expire /\ UNCHANGED mvars

AllInit == Init /\ MInit

MNext ==
  \/ InitRun
  \/ InitSendLands
  \/ InitSendRejected
  \/ InitSendUnconfirmed
  \/ InitSendFails
  \/ InitLateLand
  \/ InitExpire
  \/ StartAdmin
  \/ AdminLands
  \/ AdminRejected
  \/ AdminUnconfirmed
  \/ AdminSendFails
  \/ AdminLateLand
  \/ AdminExpire
  \/ ProposalExecuted
  \/ StartTransfer
  \/ TCreateLands
  \/ TCreateRejected
  \/ TCreateUnconfirmed
  \/ TCreateSendFails
  \/ TAtaLateLand
  \/ TAtaExpire

MSpec == AllInit /\ [][MNext]_allVars

-----------------------------------------------------------------------------
\* the instructions that may still be applied: the one being sent, the
\* unconfirmed ones and the proposals
Pending == proposals \cup ainflight \cup (IF aphase = "send" THEN {aix} ELSE {})

\* the fields whose instructions carry Options
OptionFields == {"admin", "vmAuth", "rewardsFee", "stakingCap"}

(***************************************************************************)
(* config-marinade and change-authority never write a field their command *)
(* line did not name: whenever an authority, the reward fee or the       *)
(* staking cap changes, some pending instruction was given that value for *)
(* it.  Otherwise an instruction built from an old snapshot (a proposal,  *)
(* a late landing) would put back a value another run had replaced.       *)
(***************************************************************************)
NoSilentWrite ==
  [][\A f \in OptionFields :
       st'[f] # st[f] => \E ix \in Pending : f \in ix.given /\ ix.data[f] = st'[f]]_allVars

(***************************************************************************)
(* A transfer to a wallet fails for want of its associated token account  *)
(* only after a creation of that account went unconfirmed: a run panics  *)
(* "can not read destination account", or has its create instruction     *)
(* rejected because the account exists, only if an earlier creation was  *)
(* sent and not confirmed (and has landed late, or not yet).              *)
(***************************************************************************)
AtaFailsOnlyAfterLoss ==
  aoutcome \in {"noDestination", "createRejected"} => ataLostEver

=============================================================================
