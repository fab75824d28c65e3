SPECIFICATION MCSpec
CONSTANTS
  th = th
  m1 = m1
  m2 = m2
  m3 = m3
  p1 = p1
  d2 = d2
  d1 = d1
  Threads <- MCThreads
  Messages <- FewMessages
  Stored <- MCStored
  First = th
  Purges <- NoPurges
  Deletes <- TwoDeletes
  MaxUser = 1
  MaxFaults = 0
  t1 = t1
  t2 = t2
  o1 = o1
  o2 = o2
  n1 = n1
  Ticks <- MCTicks
  Old <- MCOld
  Mail <- MCMail
  Modes <- Both
  Redirected = TRUE
  BatchSize = 1
  Budget = 1
  MaxRequests = 2
  MaxKills = 1
CHECK_DEADLOCK FALSE
PROPERTY DeletesOnlyItself
