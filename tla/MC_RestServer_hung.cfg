CONSTANTS
  w1 = w1
  w2 = w2
  c1 = c1
  c2 = c2
  c3 = c3
  m1 = m1
  m2 = m2
  NoModel = NoModel
  NoConn = NoConn
  Workers = {w1, w2}
  Conns = {c1, c2, c3}
  WorkerOf <- MCTwoWorkers
  Models = {m1, m2}
  Requests <- MCHungRequests
  MaxRequests = 1
  Faulty = {m1, m2}
  Hung = {m2}
SPECIFICATION FairSpec
PROPERTIES EventuallyAnswered
CHECK_DEADLOCK FALSE
