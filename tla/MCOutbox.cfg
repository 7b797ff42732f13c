CONSTANTS
  Drainers = {d1, d2}
  Events = {1, 2}
  Consumers = {1, 2}
  Interested <- MCInterested
  BatchSize = 2
  MaxAttempts = 2
  MaxFailures <- MCMaxFailures
  MaxEnded = 1
SPECIFICATION Spec
INVARIANTS ProcessedIsHandled ClaimedIsHeld
PROPERTY LostOnlyByEndingEarly
CHECK_DEADLOCK FALSE
