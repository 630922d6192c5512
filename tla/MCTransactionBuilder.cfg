CONSTANTS
  i1 = i1
  i2 = i2
  i3 = i3
  i4 = i4
  i5 = i5
  fee = fee
  k1 = k1
  NoPack = NoPack
  Instr <- MCInstr
  Size <- MCSize
  Keys <- MCKeys
  ReqSigners <- MCReqSigners
  FeePayer = fee
  TxOverhead = 1
  MaxTransactionSize = 5
  MaxPacks = 4

SPECIFICATION Spec

INVARIANT TypeOK
PROPERTY BatchingRefinement

CHECK_DEADLOCK FALSE
