SPECIFICATION Spec
CONSTANTS
  Conns = {c1, c2}
  MaxRows = 3
CHECK_DEADLOCK FALSE
INVARIANTS SavedIsSomewhere NothingIsRolledBack  TransactionsEnd
