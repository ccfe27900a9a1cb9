\* Two buyers on a linear curve of ten tokens: caps, refunds, pauses, sweep.
CONSTANTS
  a = a
  b = b
  Buyers = {a, b}
  PRECISION = 1
  totalTokensRequired = 15
  curveType = "Linear"
  curveParam1 = 2
  curveParam2 = 30
  baseScale = 1
  minSoftCap = 100
  softCap = 150
  hardCap = 6000
  durationDays = 7
  startTimestamp = 3
  maxBuyBps = 500
  minBuyUsdt = 99
  creatorAllocationBps = 0
  vestingDays = 0
  Deposits = {15}
  UsdtAmounts = {99, 320}
  MinOuts = {0}
  RefundSizes = {1}
  Donations = {1}
  Times = {3, 10, 1835}
  MaxPurchases = 3
  MaxDonations = 1
SYMMETRY Symmetry
SPECIFICATION Spec
INVARIANTS EscrowCovers LedgerMatches WalletCap CurveBacked
PROPERTIES OutcomeJustified EntitlementsWhole
