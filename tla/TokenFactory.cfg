\* Three users, who may refer each other in a ring: creations, referral rewards, affiliate cuts.
CONSTANTS
  a = a
  b = b
  c = c
  none = none
  Users = {a, b, c}
  None = none
  Factory = factory
  factory = factory
  Outsiders = {outside}
  outside = outside
  Reporters = {factory, outside}
  Bps = 4
  ShareChoices = {4}
  MinClaimChoices = {2}
  Fees = {4}
  Gifts = {1}
  Coins = {u1, u2, tok}
  u1 = u1
  u2 = u2
  tok = tok
  Usdt = u1
  Stables = {u1, u2}
  MinWalk = 2
  MaxLevels = 2
  LevelChoices = {2}
  PercentChoices <- Halves
  FeeChoices = {0}
  Bases = {b1, b2}
  b1 = b1
  b2 = b2
  MaxBases = 2
  BaseLists <- Lists
  Deployed <- Wired
  SwapOuts = {1}
  MaxCreations = 3
  MaxExtras = 1
SYMMETRY Symmetry
SPECIFICATION Spec
INVARIANTS AffiliateSolvent BindingsCounted RewardsBacked NoSelfReward
PROPERTIES PartnerPools
CHECK_DEADLOCK FALSE
