SPECIFICATION OneArrives
CONSTANTS
  s1 = s1
  s2 = s2
  Sessions <- MCSessions
  Messages <- TwoMessages
  Chunk = 1
  MaxChanges = 2
INVARIANTS UidNeverReused
PROPERTIES ImplementsLedger ViewsConverge
