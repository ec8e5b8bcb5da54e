CONSTANTS
  w1 = w1
  w2 = w2
  c1 = c1
  c2 = c2
  c3 = c3
  m1 = m1
  m2 = m2
  NoModel = NoModel
  NoConn = NoConn
  Workers = {w1}
  Conns = {c1, c2}
  WorkerOf <- MCSharedWorker
  Models = {m1, m2}
  Requests <- MCRequests
  MaxRequests = 2
  Faulty = {m1}
  Hung = {}
SPECIFICATION Spec
SYMMETRY MCClients
INVARIANTS TypeOK OneReplyEach EveryProblemReported FaithfulBody
PROPERTIES ImplementsService
CHECK_DEADLOCK FALSE
