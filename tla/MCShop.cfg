CONSTANTS
  r1 = r1
  r2 = r2
  t1 = t1
  t2 = t2
  Times = {t1, t2}
  Requests = {r1, r2}
  Prices = {5, 7}
  OldPrice = 7
  MaxLines = 1
  MaxQuantity = 2
  MaxElsewhere = 1
  Delivery <- MCDelivery
  Code <- MCCode
  Services = {"s", "t"}
  Resources = {1, 2}
  Performs <- MCPerforms
  Labels = {1, 2}
  DayOf <- MCDayOf
  MaxTaken = 1
  Groups = {"g"}
  Options <- MCOptions
  Limits <- MCLimits
  Variants = {1, 2}
  MaxEdits = 1
SPECIFICATION Spec
SYMMETRY Symmetry
INVARIANTS ChargedAsShown BooksTheOffered RefusedForAReason
CHECK_DEADLOCK FALSE
