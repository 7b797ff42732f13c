CONSTANTS
  TicksPerDay = 6
  TzOffset = 1
  SlotStep = 1
  cut = cut
  colour = colour
  b1 = b1
  b2 = b2
  Handlers = {h1, h2}
  Bookings = {b1, b2}
  Customers = {c1}
  Resources = {1, 2}
  Services = {cut, colour}
  Duration <- MCDuration
  ServiceBuffer <- MCServiceBuffer
  ResourceBuffer <- MCResourceBuffer
  Qualified <- MCQualified
  BusinessHours <- MCBusinessHours
  BranchHours <- MCBranchHours
  Schedule <- MCSchedule
  TimeOff <- MCTimeOff
  MinLead = 0
  MaxAdvance = 2
  CancelDeadline = 1
  AutoConfirm = TRUE
  LastDay = 0
  MaxNow = 0
  MaxHistory = 2
SPECIFICATION Spec
INVARIANT AnySlotIsBookable
CHECK_DEADLOCK FALSE
SYMMETRY HandlerSymmetry
