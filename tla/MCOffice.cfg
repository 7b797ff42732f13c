CONSTANTS
  Requests = {1, 2}
  Keys = {"owner", "stranger"}
  Accounts = {"owner"}
  NoAccount = "none"
  AccountOf <- MCAccountOf
  MaxLoginAttempts = 1
  MaxWrong <- MCMaxWrong
  Tenants = {"t1", "t2"}
  Ids = {1}
  MaxScopes = 2
  Employees = {"e1"}
  Customers = {1, 2}
  Managers = {1, 2}
  MaxUpcoming = 1
  Categories = {"c1"}
  Groups = {}
  Editors = {1}
  Pages = {11}
  MaxStock = 1
  LinkedGroups = {"g1", "g2"}
  LinkEditors = {1, 2}
  Orders = {"o1"}
  Bookings = {"b1"}
  Mine = {"m1"}
  MaxChanges <- MCMaxChanges
  OnOffer = {"SERVICE"}
  Questions = {"servesFood"}
  MaxAsks = 2
SPECIFICATION Spec
INVARIANTS AttemptsAreCounted OwnRowsOnly ChoicesSurviveEdits StockIsWhatWasEntered RefusedOnlyIfStale ShownFitsAnswers
PROPERTIES ThrottleEnds 
CHECK_DEADLOCK FALSE
