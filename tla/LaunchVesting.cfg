\* One buyer, split deposits, slippage floors, a vested creator allocation.
CONSTANTS
  a = a
  b = b
  Buyers = {a}
  PRECISION = 2
  totalTokensRequired = 40
  curveType = "Linear"
  curveParam1 = 1
  curveParam2 = 20
  baseScale = 1
  minSoftCap = 100
  softCap = 100
  hardCap = 6000
  durationDays = 7
  startTimestamp = 0
  maxBuyBps = 500
  minBuyUsdt = 99
  creatorAllocationBps = 500
  vestingDays = 30
  Deposits = {25, 40}
  UsdtAmounts = {120, 320}
  MinOuts = {0, 10}
  RefundSizes = {3}
  Donations = {1}
  Times = {7, 8, 14, 22, 44}
  MaxPurchases = 2
  MaxDonations = 1
SPECIFICATION FairSpec
INVARIANTS TokensBacked
PROPERTIES ListedAtCurvePrice ExpiredResolves
