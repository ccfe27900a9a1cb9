\* One token through two launches, two people, two USDT addresses.
CONSTANTS
  u = u
  v = v
  t = t
  router = router
  none = none
  d1 = d1
  d2 = d2
  Tokens = {t}
  Users = {u, v}
  Router = router
  None = none
  Dollars = {d1, d2}
  RouterUsdt = d1
  MaxTax = 2
  Taxes = {0, 1, 3}
  MaxLaunches = 2
SYMMETRY Symmetry
SPECIFICATION Spec
INVARIANTS OneLiveLaunch TermsKept GraduatedTrades
PROPERTIES CeilingFinal
