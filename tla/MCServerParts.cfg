SPECIFICATION FairServerSpec
CONSTANTS
  Txs = {t1, t2}
  NoTx = NoTx
  Papers = {p1, p2}
  Batch = 2
  MaxTxs = 2
  MaxTampers = 1
  MaxConns = 3
  MaxBridges = 2
  Meeting = Meeting
  Requests = {r1}
  Sweeper = sweeper
  Jobs = {j1}
  Texts = {x1}
  Live = live
INVARIANTS ChainHolds BridgesAreKept
PROPERTIES LogStands ServerPartsEnd
CHECK_DEADLOCK FALSE
