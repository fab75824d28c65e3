SPECIFICATION MCSpec
CONSTANTS
  t1 = t1
  t2 = t2
  r1 = r1
  r2 = r2
  Ticks <- TwoTicks
  Recipients <- MCRecipients
  Pgp = FALSE
  Upload = TRUE
  MaxAttempts = 3
  MaxUser = 1
  MaxFaults = 1
CHECK_DEADLOCK FALSE
INVARIANTS ScheduledIsComplete OnceUnlessExcused ReportsAreTrue
PROPERTIES DueSettles 
