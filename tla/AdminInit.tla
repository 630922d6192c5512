------------------------------- MODULE AdminInit -------------------------------
(***************************************************************************)
(* Creating a Marinade instance: Init::process of cli/admin-init/src/      *)
(* init.rs, which fills an InitializeBuilder (sdk/offchain/src/            *)
(* instruction_helpers/initialize.rs) on a limited TransactionBuilder and  *)
(* sends the result with execute_transaction_sequence.                     *)
(*                                                                         *)
(* The build reads the chain (get_account_retrying, check_token_account,  *)
(* get_system_balance_retrying) and decides, account by account, to use   *)
(* what exists or to create it; it sends nothing, so it is one step.  The *)
(* packs it queues are then sent in order: the last one creates the state *)
(* account and calls initialize.  A send may land, be rejected by the     *)
(* program (preflight failure with logs: Err, the sequence stops), fail   *)
(* before it is sent (Err), or go unconfirmed, which execute_transaction  *)
(* logs and returns as Ok: the sequence goes on, and the transaction may  *)
(* still land later or never.  The operator may then run the same command *)
(* line again.                                                             *)
(*                                                                         *)
(* Accounts are identified by what derives them (the instance, the mint). *)
(* Data is abstracted to what the checks of init.rs and of the programs   *)
(* tell apart: an account's kind, its mint and its authority.  The system, *)
(* token and associated-token programs, and the Marinade program's         *)
(* initialize, are not in this tree; ApplyIx states what they require.    *)
(***************************************************************************)
EXTENDS Naturals, Sequences, SequencesExt, FiniteSets

CONSTANTS
  InstOpts,     \* -i given ("given") or not ("random": Keypair::new per run)
  MintOpts,     \* -m / -l given with a keypair ("given") or not ("random")
  OwnerOpts,    \* --msol-mint-owner: "feePayer" (the default) or "other"
  MsolMintInits, \* the given mSOL mint before the first run: "absent" or its authority
  MaxRuns,      \* model bound: runs of the command
  MaxFaults     \* model bound: sends that fail or go unconfirmed

\* keys and addresses are tuples: TLC compares them with one another
FeePayer == <<"key", "feePayer">>
Creator == <<"key", "creator">>
Other == <<"key", "other">>
None == <<>>
Unset == None

\* the keypairs and addresses a run can name
\* run 0 names the given keypairs (-i, -m, -l), run r the ones Keypair::new
\* makes in run r
Insts == {<<"inst", r>> : r \in 0..MaxRuns}
MsolMints == {<<"msol", r>> : r \in 0..MaxRuns}
LpMints == {<<"lp", r>> : r \in 0..MaxRuns}
GivenInst == <<"inst", 0>>
GivenMsolMint == <<"msol", 0>>
GivenLpMint == <<"lp", 0>>

\* State::find_*_address / default_*_address: accounts derived from the state
StakeListAddr(i) == <<"stakeList", i>>
ValidatorListAddr(i) == <<"validatorList", i>>
ReserveAddr(i) == <<"reserve", i>>
SolLegAddr(i) == <<"solLeg", i>>
MsolLegAddr(i) == <<"msolLeg", i>>
MsolMintAuth(i) == <<"msolMintAuth", i>>
LpMintAuth(i) == <<"lpMintAuth", i>>
MsolLegAuth(i) == <<"msolLegAuth", i>>
\* get_associated_token_address(fee payer, mSOL mint)
TreasuryAddr(m) == <<"ata", m>>

Addrs ==
  Insts \cup MsolMints \cup LpMints \cup {TreasuryAddr(m) : m \in MsolMints}
  \cup UNION {{StakeListAddr(i), ValidatorListAddr(i), ReserveAddr(i),
               SolLegAddr(i), MsolLegAddr(i)} : i \in Insts}

\* an account: "none" (no account), "system" (lamports only), "uninit" (a
\* token-program account not yet initialized), "blank" (a Marinade account
\* of zeros), "mint", "token", "list" or "state" (initialized by initialize);
\* lamports counts only the SOL a transfer put in a system account
Acct(k, m, a) == [kind |-> k, mint |-> m, auth |-> a, lamports |-> 0]
NoAcct == Acct("none", None, None)

Fields == {"msolMint", "admin", "operational", "vmAuth", "stakeList",
           "validatorList", "rewardFee", "lpMint", "msolLeg", "treasury"}

VARIABLES
  acct,      \* the chain: Addrs -> account
  cmdline,   \* the options every run is given
  run,       \* runs started
  inst,      \* the state account of the current run
  phase,     \* "idle", "send" or "done"
  txs,       \* the packs the build queued, in order
  sent,      \* packs sent so far
  outcome,   \* "none", "ok", "rejected", "failed" or the build's error
  inflight,  \* transactions sent unconfirmed that may still land
  lostEver,  \* some transaction went unconfirmed
  faults     \* sends that failed or went unconfirmed

vars == <<acct, cmdline, run, inst, phase, txs, sent, outcome, inflight, lostEver, faults>>

-----------------------------------------------------------------------------
(***************************************************************************)
(* Instructions and the TransactionBuilder helpers that queue them         *)
(* (sdk/offchain-common/src/transaction_builder.rs).  An instruction       *)
(* records the signers check_signers asks for.                             *)
(***************************************************************************)
Ix(op, a, arg, s) == [op |-> op, addr |-> a, arg |-> arg, signers |-> s]

\* create_account: add_signer(account), then system create_account
TbCreateAccount(a, k) == Ix("create", a, [kind |-> k], {FeePayer, a})

\* create_account_with_seed: the base (the state) signs
TbCreateAccountWithSeed(a, base, k) == Ix("create", a, [kind |-> k], {FeePayer, base})

\* create_mint_account: one pack, create_account then initialize_mint
TbCreateMintAccount(m, auth) ==
  <<TbCreateAccount(m, "uninit"), Ix("initMint", m, [mint |-> m, auth |-> auth], {})>>

\* create_token_account_with_seed: one pack, create then initialize_account2
TbCreateTokenAccountWithSeed(a, base, m, auth) ==
  <<TbCreateAccountWithSeed(a, base, "uninit"),
    Ix("initToken", a, [mint |-> m, auth |-> auth], {})>>

\* create_associated_token_account for the fee payer's wallet
TbCreateAssociatedTokenAccount(m) ==
  Ix("createAta", TreasuryAddr(m), [mint |-> m, auth |-> FeePayer], {FeePayer})

\* transfer_lamports from the fee payer
TbTransferLamports(a, n) == Ix("transfer", a, [amount |-> n], {FeePayer})

\* spl_token set_authority(MintTokens), signed by the current authority
SetAuthorityIx(m, from, to) == Ix("setAuthority", m, [from |-> from, to |-> to], {from})

(***************************************************************************)
(* add_instruction of a pack outside any open pack: check_signers of each  *)
(* instruction against the signers known after add_signer(adds); an       *)
(* unknown signer is Err(UnknownSigner), fatal where the caller unwraps.   *)
(***************************************************************************)
Add(b, adds, pack, fatal) ==
  LET s == b.signers \cup adds IN
  IF UNION {pack[k].signers : k \in DOMAIN pack} \subseteq s
  THEN [b EXCEPT !.signers = s, !.packs = Append(b.packs, pack)]
  ELSE [b EXCEPT !.signers = s, !.err = IF fatal THEN "panic" ELSE "unknownSigner"]

-----------------------------------------------------------------------------
(***************************************************************************)
(* InitializeBuilder: the OnceCell fields (f), the two flags, and the      *)
(* TransactionBuilder it fills.  err is what ended the build: a bail! or  *)
(* `?` (an Err of process) or a failed expect/unwrap ("panic").            *)
(***************************************************************************)
Failed(b) == b.err # "none"

\* InitializeBuilder::new: the creator and the state are added as signers
New(i) ==
  [err |-> "none", packs |-> <<>>, signers |-> {FeePayer, Creator, i},
   f |-> [n \in Fields |-> Unset], reserve |-> FALSE, solLeg |-> FALSE]

\* OnceCell::set(..).expect("double ... set calls")
SetOnce(b, n, v) ==
  IF b.f[n] # Unset THEN [b EXCEPT !.err = "panic"] ELSE [b EXCEPT !.f[n] = v]

\* use_msol_mint / use_lp_mint: an existing mint; if its mint authority is
\* not the state's PDA, the owner given must be that authority and a
\* set_authority moving it to the PDA is queued (its Err returned by `?`)
UseMint(b, n, m, rec, owner, pda) ==
  IF b.f[n] # Unset THEN [b EXCEPT !.err = "panic"]
  ELSE IF rec.auth = pda THEN [b EXCEPT !.f[n] = m]
  ELSE IF owner # rec.auth THEN [b EXCEPT !.err = "wrongMintOwner"]
  ELSE LET b1 == Add(b, {}, <<SetAuthorityIx(m, rec.auth, pda)>>, FALSE)
       IN IF Failed(b1) THEN b1 ELSE [b1 EXCEPT !.f[n] = m]

UseMsolMint(b, i, m, owner) == UseMint(b, "msolMint", m, acct[m], owner, MsolMintAuth(i))

UseLpMint(b, i, m, owner) == UseMint(b, "lpMint", m, acct[m], owner, LpMintAuth(i))

\* create_msol_mint / create_lp_mint: a new mint whose authority is the PDA
CreateMint(b, n, m, pda) ==
  LET b1 == SetOnce(b, n, m) IN
  IF Failed(b1) THEN b1 ELSE Add(b1, {m}, TbCreateMintAccount(m, pda), TRUE)

CreateMsolMint(b, i, m) == CreateMint(b, "msolMint", m, MsolMintAuth(i))

CreateLpMint(b, i, m) == CreateMint(b, "lpMint", m, LpMintAuth(i))

\* create_stake_list_with_seed / create_validator_list_with_seed
CreateListWithSeed(b, n, i, a) ==
  LET b1 == SetOnce(b, n, a) IN
  IF Failed(b1) THEN b1 ELSE Add(b1, {}, <<TbCreateAccountWithSeed(a, i, "blank")>>, TRUE)

CreateStakeListWithSeed(b, i) == CreateListWithSeed(b, "stakeList", i, StakeListAddr(i))

CreateValidatorListWithSeed(b, i) ==
  CreateListWithSeed(b, "validatorList", i, ValidatorListAddr(i))

\* rent.minimum_balance(spl_token::state::Account::LEN), one lamport unit here
RentMinimum == 1

\* get_system_balance_retrying: the account's lamports, 0 for no account
Balance(a) == IF acct[a].kind = "system" THEN acct[a].lamports ELSE 0

\* init_reserve without the transfer of the shortfall
InitSystemAccountNoTransfer(b, flag, a) ==
  IF b[flag] THEN [b EXCEPT !.err = "panic"]
  ELSE IF Balance(a) > RentMinimum THEN [b EXCEPT !.err = "tooHighBalance"]
  ELSE [b EXCEPT ![flag] = TRUE]

\* init_reserve / init_liq_pool_sol_leg: panic on a second call, bail if
\* the balance is above the rent minimum, transfer the shortfall
InitSystemAccount(b, flag, a) ==
  IF b[flag] THEN [b EXCEPT !.err = "panic"]
  ELSE IF Balance(a) > RentMinimum THEN [b EXCEPT !.err = "tooHighBalance"]
  ELSE LET b1 == IF Balance(a) < RentMinimum
                 THEN Add(b, {}, <<TbTransferLamports(a, RentMinimum - Balance(a))>>, TRUE) ELSE b
       IN IF Failed(b1) THEN b1 ELSE [b1 EXCEPT ![flag] = TRUE]

InitReserve(b, i) == InitSystemAccount(b, "reserve", ReserveAddr(i))

InitLiqPoolSolLeg(b, i) == InitSystemAccount(b, "solLeg", SolLegAddr(i))

\* create_liq_pool_msol_leg_with_seed: needs the mSOL mint set before
CreateLiqPoolMsolLegWithSeed(b, i) ==
  LET b1 == SetOnce(b, "msolLeg", MsolLegAddr(i)) IN
  IF Failed(b1) THEN b1
  ELSE IF b1.f["msolMint"] = Unset THEN [b1 EXCEPT !.err = "panic"]
  ELSE Add(b1, {}, TbCreateTokenAccountWithSeed(MsolLegAddr(i), i, b1.f["msolMint"],
                                                MsolLegAuth(i)), TRUE)

\* create_treasury_msol_account (and default_treasury_msol_account's expect)
CreateTreasuryMsolAccount(b) ==
  IF b.f["msolMint"] = Unset THEN [b EXCEPT !.err = "panic"]
  ELSE LET b1 == SetOnce(b, "treasury", TreasuryAddr(b.f["msolMint"])) IN
       IF Failed(b1) THEN b1
       ELSE Add(b1, {}, <<TbCreateAssociatedTokenAccount(b.f["msolMint"])>>, TRUE)

\* initialize of sdk/onchain: the accounts the instruction names
InitializeIx(i, f) ==
  Ix("initialize", i,
     [stakeList |-> f["stakeList"], validatorList |-> f["validatorList"],
      msolMint |-> f["msolMint"], lpMint |-> f["lpMint"],
      msolLeg |-> f["msolLeg"], treasury |-> f["treasury"]],
     {FeePayer, Creator})

\* build: begin, create the state account, initialize (every required
\* field's expect), commit
Build(b, i) ==
  IF \E n \in Fields \ {"rewardFee"} : b.f[n] = Unset THEN [b EXCEPT !.err = "panic"]
  ELSE Add(b, {}, <<TbCreateAccount(i, "blank"), InitializeIx(i, b.f)>>, TRUE)

-----------------------------------------------------------------------------
(***************************************************************************)
(* Init::process (cli/admin-init/src/init.rs), block by block.  Every      *)
(* block after an error passes the builder on untouched (`?`, bail!).      *)
(***************************************************************************)

\* check_token_account: "absent", "ok", or the bail for a wrong account
CheckTokenAccount(a, m, auth) ==
  CASE acct[a].kind = "none" -> "absent"
    [] acct[a].kind # "token" -> "wrongOwner"
    [] acct[a].mint # m -> "wrongTokenMint"
    [] acct[a].auth # auth -> "wrongTokenAuth"
    [] OTHER -> "ok"

\* a given instance whose state account exists is refused
CheckInstance(c, i) ==
  IF c.inst = "given" /\ acct[i].kind # "none"
  THEN [New(i) EXCEPT !.err = "stateExists"] ELSE New(i)

\* msol_mint: use the given mint if it exists, else create it (or a random one)
MsolMintStep(b, c, i, r) ==
  LET m == IF c.msol = "given" THEN GivenMsolMint ELSE <<"msol", r>> IN
  IF Failed(b) THEN b
  ELSE IF c.msol = "given" /\ acct[m].kind # "none"
       THEN IF acct[m].kind # "mint" THEN [b EXCEPT !.err = "wrongOwner"]
            ELSE UseMsolMint(b, i, m, IF c.owner = "feePayer" THEN FeePayer ELSE Other)
       ELSE CreateMsolMint(b, i, m)

\* admin authority, operational_sol_account (the fee payer's system
\* account by default) and validator manager authority
AuthoritiesStep(b) ==
  IF Failed(b) THEN b
  ELSE SetOnce(SetOnce(SetOnce(b, "admin", FeePayer), "operational", FeePayer),
               "vmAuth", FeePayer)

\* stake list / validator list: an existing account at the seeded address
\* must be the program's and start with 8 zero bytes; otherwise create it
ListStep(b, i, n, a) ==
  IF Failed(b) THEN b
  ELSE CASE acct[a].kind = "none" ->
              IF n = "stakeList" THEN CreateStakeListWithSeed(b, i)
              ELSE CreateValidatorListWithSeed(b, i)
         [] acct[a].kind = "blank" -> SetOnce(b, n, a)
         [] acct[a].kind = "list" -> [b EXCEPT !.err = "notEmpty"]
         [] OTHER -> [b EXCEPT !.err = "wrongOwner"]

\* reserve / liq pool SOL leg: get_system_balance_retrying then init_*
SystemAccountStep(b, i, a) ==
  IF Failed(b) THEN b
  ELSE IF acct[a].kind \notin {"none", "system"} THEN [b EXCEPT !.err = "wrongOwner"]
  ELSE IF a = ReserveAddr(i) THEN InitReserve(b, i) ELSE InitLiqPoolSolLeg(b, i)

\* LP mint: as the mSOL mint; the LP mint owner is the fee payer
LpMintStep(b, c, i, r) ==
  LET m == IF c.lp = "given" THEN GivenLpMint ELSE <<"lp", r>> IN
  IF Failed(b) THEN b
  ELSE IF c.lp = "given" /\ acct[m].kind # "none"
       THEN IF acct[m].kind # "mint" THEN [b EXCEPT !.err = "wrongOwner"]
            ELSE UseLpMint(b, i, m, FeePayer)
       ELSE CreateLpMint(b, i, m)

\* liq pool mSOL leg at its seeded address
MsolLegStep(b, i) ==
  IF Failed(b) THEN b
  ELSE LET r == CheckTokenAccount(MsolLegAddr(i), b.f["msolMint"], MsolLegAuth(i)) IN
       CASE r = "ok" -> SetOnce(b, "msolLeg", MsolLegAddr(i))
         [] r = "absent" -> CreateLiqPoolMsolLegWithSeed(b, i)
         [] OTHER -> [b EXCEPT !.err = r]

\* treasury mSOL account: the fee payer's associated account of the mSOL mint
TreasuryStep(b) ==
  IF Failed(b) THEN b
  ELSE LET m == b.f["msolMint"]
           r == CheckTokenAccount(TreasuryAddr(m), m, FeePayer)
       IN CASE r = "ok" -> SetOnce(b, "treasury", TreasuryAddr(m))
            [] r = "absent" -> CreateTreasuryMsolAccount(b)
            [] OTHER -> [b EXCEPT !.err = r]

\* the whole build of one run of the command
Process(c, i, r) ==
  LET b1 == MsolMintStep(CheckInstance(c, i), c, i, r)
      b2 == AuthoritiesStep(b1)
      b3 == ListStep(b2, i, "stakeList", StakeListAddr(i))
      b4 == ListStep(b3, i, "validatorList", ValidatorListAddr(i))
      b5 == IF Failed(b4) THEN b4 ELSE SetOnce(b4, "rewardFee", <<"fee">>)
      b6 == SystemAccountStep(b5, i, ReserveAddr(i))
      b7 == LpMintStep(b6, c, i, r)
      b8 == SystemAccountStep(b7, i, SolLegAddr(i))
      b9 == TreasuryStep(MsolLegStep(b8, i))
  IN IF Failed(b9) THEN b9 ELSE Build(b9, i)

-----------------------------------------------------------------------------
(***************************************************************************)
(* What the programs do with an instruction: [ok, chain after it].  A      *)
(* transaction applies all of its instructions or none.                    *)
(***************************************************************************)
\* what initialize requires of the accounts it is given
InitializeAccepts(ch, i, in) ==
  /\ ch[i].kind = "blank"
  /\ ch[in.stakeList].kind = "blank"
  /\ ch[in.validatorList].kind = "blank"
  /\ ch[in.msolMint] = Acct("mint", None, MsolMintAuth(i))
  /\ ch[in.lpMint] = Acct("mint", None, LpMintAuth(i))
  /\ ch[ReserveAddr(i)].kind = "system"
  /\ ch[SolLegAddr(i)].kind = "system"
  /\ ch[in.msolLeg] = Acct("token", in.msolMint, MsolLegAuth(i))
  /\ ch[in.treasury].kind = "token" /\ ch[in.treasury].mint = in.msolMint

ApplyIx(ch, ix) ==
  LET a == ix.addr IN
  CASE ix.op = "create" ->
         [ok |-> ch[a].kind = "none", ch |-> [ch EXCEPT ![a] = Acct(ix.arg.kind, None, None)]]
    [] ix.op = "initMint" ->
         [ok |-> ch[a].kind = "uninit", ch |-> [ch EXCEPT ![a] = Acct("mint", None, ix.arg.auth)]]
    [] ix.op = "initToken" ->
         [ok |-> ch[a].kind = "uninit" /\ ch[ix.arg.mint].kind = "mint",
          ch |-> [ch EXCEPT ![a] = Acct("token", ix.arg.mint, ix.arg.auth)]]
    [] ix.op = "createAta" ->
         [ok |-> ch[a].kind = "none" /\ ch[ix.arg.mint].kind = "mint",
          ch |-> [ch EXCEPT ![a] = Acct("token", ix.arg.mint, ix.arg.auth)]]
    [] ix.op = "transfer" ->
         [ok |-> ch[a].kind \in {"none", "system"},
          ch |-> [ch EXCEPT ![a] = [Acct("system", None, None) EXCEPT
                                      !.lamports = ch[a].lamports + ix.arg.amount]]]
    [] ix.op = "setAuthority" ->
         [ok |-> ch[a].kind = "mint" /\ ch[a].auth = ix.arg.from,
          ch |-> [ch EXCEPT ![a].auth = ix.arg.to]]
    [] ix.op = "initialize" ->
         [ok |-> InitializeAccepts(ch, a, ix.arg),
          ch |-> [ch EXCEPT ![a].kind = "state", ![ix.arg.stakeList].kind = "list",
                            ![ix.arg.validatorList].kind = "list"]]

ApplyTx(ch, ixs) ==
  FoldLeft(LAMBDA acc, ix : IF ~acc.ok THEN acc ELSE ApplyIx(acc.ch, ix),
           [ok |-> TRUE, ch |-> ch], ixs)

-----------------------------------------------------------------------------
Init ==
  /\ \E mi \in MsolMintInits :
       acct = [a \in Addrs |->
                IF a = GivenMsolMint /\ mi # "absent"
                THEN Acct("mint", None, IF mi = "feePayer" THEN FeePayer ELSE Other) ELSE NoAcct]
  /\ cmdline \in [inst : InstOpts, msol : MintOpts, lp : MintOpts, owner : OwnerOpts]
  /\ run = 0
  /\ inst = GivenInst
  /\ phase = "idle"
  /\ txs = <<>>
  /\ sent = 0
  /\ outcome = "none"
  /\ inflight = {}
  /\ lostEver = FALSE
  /\ faults = 0

\* a run of the command: the build, which ends it on an error
StartRun ==
  /\ phase \in {"idle", "done"}
  /\ run < MaxRuns
  /\ LET r == run + 1
         i == IF cmdline.inst = "given" THEN GivenInst ELSE <<"inst", r>>
         b == Process(cmdline, i, r)
     IN /\ run' = r
        /\ inst' = i
        /\ phase' = IF Failed(b) THEN "done" ELSE "send"
        /\ outcome' = b.err
        /\ txs' = IF Failed(b) THEN <<>> ELSE b.packs
  /\ sent' = 0
  /\ UNCHANGED <<acct, cmdline, inflight, lostEver, faults>>

\* combined_sequence joins the next k packs into one transaction
Group(k) == FlattenSeq(SubSeq(txs, sent + 1, sent + k))

\* the packs after this transaction's are still sent, or the run is over
Sent(k, endOutcome) ==
  /\ sent' = sent + k
  /\ phase' = IF sent + k = Len(txs) THEN "done" ELSE "send"
  /\ outcome' = IF sent + k = Len(txs) THEN endOutcome ELSE outcome

\* execute_transaction of a transaction that lands
SendLands ==
  /\ phase = "send"
  /\ \E k \in 1..(Len(txs) - sent) :
       /\ ApplyTx(acct, Group(k)).ok
       /\ acct' = ApplyTx(acct, Group(k)).ch
       /\ Sent(k, "ok")
  /\ UNCHANGED <<cmdline, run, inst, txs, inflight, lostEver, faults>>

\* preflight fails with logs: Err, and `?` ends the sequence
SendRejected ==
  /\ phase = "send"
  /\ \E k \in 1..(Len(txs) - sent) : ~ApplyTx(acct, Group(k)).ok
  /\ phase' = "done"
  /\ outcome' = "rejected"
  /\ UNCHANGED <<acct, cmdline, run, inst, txs, sent, inflight, lostEver, faults>>

\* sent but not confirmed: logged, returned as Ok, and the sequence goes on
SendUnconfirmed ==
  /\ phase = "send"
  /\ faults < MaxFaults
  /\ \E k \in 1..(Len(txs) - sent) :
       /\ inflight' = inflight \cup {Group(k)}
       /\ Sent(k, "ok")
  /\ lostEver' = TRUE
  /\ faults' = faults + 1
  /\ UNCHANGED <<acct, cmdline, run, inst, txs>>

\* an error before sending (get_recent_blockhash, signing): Err
SendFails ==
  /\ phase = "send"
  /\ faults < MaxFaults
  /\ phase' = "done"
  /\ outcome' = "failed"
  /\ faults' = faults + 1
  /\ UNCHANGED <<acct, cmdline, run, inst, txs, sent, inflight, lostEver>>

\* an unconfirmed transaction lands after all, if it is still valid
LateLand ==
  /\ \E g \in inflight :
       /\ inflight' = inflight \ {g}
       /\ acct' = IF ApplyTx(acct, g).ok THEN ApplyTx(acct, g).ch ELSE acct
  /\ UNCHANGED <<cmdline, run, inst, phase, txs, sent, outcome, lostEver, faults>>

\* or its blockhash expires
Expire ==
  /\ \E g \in inflight : inflight' = inflight \ {g}
  /\ UNCHANGED <<acct, cmdline, run, inst, phase, txs, sent, outcome, lostEver, faults>>

Next ==
  \/ StartRun
  \/ SendLands
  \/ SendRejected
  \/ SendUnconfirmed
  \/ SendFails
  \/ LateLand
  \/ Expire

Spec == Init /\ [][Next]_vars

-----------------------------------------------------------------------------
(***************************************************************************)
(* Properties                                                              *)
(***************************************************************************)
BuildErrors == {"stateExists", "wrongOwner", "wrongMintOwner", "unknownSigner",
                "notEmpty", "tooHighBalance", "wrongTokenMint", "wrongTokenAuth", "panic"}

TypeOK ==
  /\ \A a \in Addrs :
       /\ acct[a].kind \in {"none", "system", "uninit", "blank", "mint", "token", "list", "state"}
       /\ acct[a].lamports \in Nat
  /\ run \in 0..MaxRuns
  /\ inst \in Insts
  /\ phase \in {"idle", "send", "done"}
  /\ sent \in 0..Len(txs)
  /\ outcome \in {"none", "ok", "rejected", "failed"} \cup BuildErrors
  /\ faults \in 0..MaxFaults

(***************************************************************************)
(* The programs never reject a transaction init sends unless some earlier *)
(* transaction went unconfirmed: the accounts the build decided to create  *)
(* are absent, the ones it decided to use already have the mint, the       *)
(* authority and the balance initialize requires, and the packs come in   *)
(* the order their instructions need (mints before the token accounts of  *)
(* them, everything before the state's initialize).                        *)
(***************************************************************************)
RejectedOnlyAfterLoss == outcome = "rejected" => lostEver

(***************************************************************************)
(* Running the same command line again recovers from a partial run: with  *)
(* the instance and both mints given (-i, -m, -l with their keypairs), a  *)
(* run's build refuses only because the instance is already initialized. *)
(* Every account an earlier run created or topped up is taken as it is.   *)
(***************************************************************************)
AllGiven == cmdline.inst = "given" /\ cmdline.msol = "given" /\ cmdline.lp = "given"

RerunRecovers ==
  (AllGiven /\ outcome \in BuildErrors) =>
    outcome = "stateExists" /\ acct[inst].kind = "state"

=============================================================================
