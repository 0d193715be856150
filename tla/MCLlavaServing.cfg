SPECIFICATION Spec
CONSTANTS
  w1 = w1
  w2 = w2
  r1 = r1
  r2 = r2
  r3 = r3
  Workers <- MCWorkers
  Requests <- MCRequests
  Fleets <- MCFleets
  Limit = 1
INVARIANT SlotsAccounted
PROPERTIES AcceptedIsServed LiveWorkerListed DeadWorkerForgotten
CHECK_DEADLOCK FALSE
