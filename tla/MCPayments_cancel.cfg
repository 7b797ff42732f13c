CONSTANTS
  Handlers = {h1, h2}
  Orders = {"o"}
  Payments = {"p1", "p2"}
  Keys <- MCKeys
  Externals = {"x1", "x2"}
  CashKey = "cash"
  Webhooks <- MCWebhooks
  OrderTotal <- MCOrderTotal
  StaffMoves = {"CANCELLED"}
  Transactions = {t1, t2}
  Price = 2
  Amounts = {2, 149, 200, 249}
SPECIFICATION Spec
INVARIANT CancelUpdatesLedger
CHECK_DEADLOCK FALSE
SYMMETRY MCSymmetry
