SPECIFICATION HistorySpec
CONSTANTS
  agent = agent
  thread = thread
  calls = calls
  other = other
  a = a
  b = b
  Recorders = {agent, thread, calls, other}
  Proc <- MCProc
  Keyed = {agent, thread, other}
  Payloads = {a, b}
  Sdks = {FALSE, TRUE}
  MaxRows = 3
  MaxFaults = 2
SYMMETRY Sym
CHECK_DEADLOCK FALSE
INVARIANTS AppendsOnce ToldIsKept
