\* One request beside the on-ramp reserve, swaps, pauses, setters, changes of
\* the administrators and of the owner, and a batch that repeats its id.
CONSTANTS
  u = u
  v = v
  r = r
  none = none
  d = d
  e = e
  Users = {u}
  Referrers = {none}
  Router = r
  None = none
  Wallets = {d, r}
  Accounts = {d, e}
  Deployer = d
  BankRefs = {ref}
  ref = ref
  TxRefs = {pay}
  pay = pay
  Amounts = {100}
  Quotes = {0, 105}
  MinOuts = {0, 100}
  Batches <- Repeated
  FeeChoices = {500}
  TimeoutChoices = {}
  MinChoices = {150}
  SlippageChoices = {2000}
  ShareChoices = {}
  Affiliates = {}
  Times = {600}
  MaxRequests = 1
  MaxBalance = 200
SPECIFICATION FairSpec
INVARIANTS Solvent
PROPERTIES EscrowKept Settled
