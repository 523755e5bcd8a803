\* Four payments, two currencies, pages of one or two, every filter.
SPECIFICATION Spec
CONSTANTS
  Ids = {1, 2, 3, 4}
  Currencies = {RUB, USD}
  MaxLimit = 2
SYMMETRY Symmetry
INVARIANTS
  SkipsNeedLeavers
  RepeatsNeedEntries
CHECK_DEADLOCK FALSE
