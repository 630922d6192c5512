CONSTANTS
  InstOpts = {"given", "random"}
  MintOpts = {"given", "random"}
  OwnerOpts = {"feePayer"}
  MsolMintInits = {"absent", "feePayer"}
  MaxRuns = 3
  MaxFaults = 1
  AdminCmds <- MCAdminCmds
  Multisig <- MultisigKey
  TransferCmds <- MCTransferCmds
SPECIFICATION MSpec
INVARIANT RerunRecovers
CHECK_DEADLOCK FALSE
