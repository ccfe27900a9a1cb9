\* Two requests, every settlement order, both referral paths, the reserve.
CONSTANTS
  u = u
  v = v
  r = r
  none = none
  d = d
  Users = {u}
  Referrers = {none, v}
  Router = r
  None = none
  Wallets = {d}
  Accounts = {d}
  Deployer = d
  BankRefs = {}
  TxRefs = {}
  Amounts = {100}
  Quotes = {}
  MinOuts = {}
  Batches <- Pairs
  FeeChoices = {200}
  TimeoutChoices = {900}
  MinChoices = {}
  SlippageChoices = {}
  ShareChoices = {5000}
  Affiliates = {TRUE, FALSE}
  Times = {600, 900}
  MaxRequests = 2
  MaxBalance = 300
SPECIFICATION Spec
INVARIANTS Solvent EscrowLedger PaidAsQuoted PendingIndexed
PROPERTIES RefundableNeverConfirmed
