\* Requests of the server, which may use an id twice; cursors and values; or pipes of one line.
SPECIFICATION MCSpec
CONSTANTS
  s1 = s1  s2 = s2  m1 = m1  m2 = m2  x1 = x1  t1 = t1  u1 = u1
  None = None
  SrvIds = {s1, s2}
  Methods = {m1, m2}
  Cursors = {x1}
  Tokens = {t1}
  Uris = {u1}
  ReuseSrvIds = TRUE
  MaxHandles = 3
  MaxHost = 3
  MaxServer = 3
  Cap = 1
  MaxBurst = 3
INVARIANTS HandlesStand ServerIsAnswered EchoesAreOwn
PROPERTY HostIsServed
CHECK_DEADLOCK FALSE
