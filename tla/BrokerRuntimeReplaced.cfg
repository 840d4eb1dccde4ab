SPECIFICATION SpecWithReplacement
CONSTANTS
  Threads = {t1, t2}
  Supervisor = sv
  None = None
  MaxCalls = 1
  MaxGenerations = 2
  MaxFaults = 1
INVARIANT ReplyIsForTheRequest
CHECK_DEADLOCK FALSE
