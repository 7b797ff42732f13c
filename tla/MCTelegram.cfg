CONSTANTS
  Bookings = {"b"}
  StartsAt <- MCStartsAt
  Offsets <- MCOffsets
  Listed <- MCListed
  Drainers = {1, 2}
  Workers = {1, 2}
  MaxAttempts = 2
  MaxTime = 3
  Tokens = {1, 2}
  Processes = {"api", "worker"}
  Api = "api"
  MaxConnects = 2
  Requests = {1, 2}
  UpdateIds = {1, 2, 3}
  KindOf <- MCKindOf
  Deliveries = {1, 2}
SPECIFICATION Spec
INVARIANTS RemindedOnce ConnectedHears SpeaksAsBot HeardOnce
PROPERTIES NoReminderOfClosed ReminderComes
CHECK_DEADLOCK FALSE
