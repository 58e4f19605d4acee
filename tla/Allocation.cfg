CONSTANTS
  Threads = {t1, t2, t3}
  Blocks = {b1, b2}
  MaxLimit = 2
SPECIFICATION FairSpec
INVARIANTS BlocksAccounted
PROPERTIES BudgetSpentOnce CallsReturn
