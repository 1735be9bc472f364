CONSTANTS
  a = a
  b = b
  s1 = s1
  s2 = s2
  c1 = c1
  c2 = c2
  c3 = c3
  None = None
  Node = {a, b}
  Conn = {c1, c2, c3}
  Sender = {s1, s2}
  Id = {1, 2, 3, 4}
  Jobs <- Questions
  MaxFail = 0
  Buffer = 3
  WriteQueue = 1
  RxQueue = 1
  MultiQueue = 1
SPECIFICATION FairSpec
CHECK_DEADLOCK FALSE
PROPERTY LastingDeliver
