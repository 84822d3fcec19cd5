\* Policy changes, receipts and revocations that append at the same time.
SPECIFICATION FairSpec
CONSTANTS
  p1 = p1  i1 = i1  i2 = i2  r1 = r1  r2 = r2  v1 = v1
  policy = policy  receipt = receipt  key = key
  None = None
  Txs <- FiveTxs
  Rows <- MCRows
  RowOf <- MCRowOf
  Kind <- MCKind
  Verifiers <- OneVerifier
INVARIANTS
  ChainIntact
  LedgerMatchesRows
  QuietVerifyPasses
PROPERTIES
  EveryTxEnds
