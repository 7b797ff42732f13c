CONSTANTS
  Handlers = {h1, h2}
  Customers = {c1}
  Products = {p1}
  Quantities = {1}
  MaxLine = 1
  InitialStock <- MCInitialStock
  Orders = {o1, o2, o3}
  InitialPoints <- MCInitialPoints
  Counts = {1}
  Cashback = 1
  UsageLimit = 1
  Requested = {"ACCEPTED", "COMPLETED", "CANCELLED"}
  Corrections <- MCCorrections
  LastDay = 1
  MaxHistory = 3
  MaxEntries = 2
  Samples <- MCSamples
SPECIFICATION MCSpec
INVARIANTS ReservedStock EarnedOnce LockedWritersAgree ReceiptAddsUp
CHECK_DEADLOCK FALSE
SYMMETRY MCSymmetry
