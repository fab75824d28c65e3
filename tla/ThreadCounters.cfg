CONSTANTS
    m1 = m1
    m2 = m2
    w1 = w1
    w2 = w2
    Messages <- MCMessages
    Writers <- MCWriters
    \* InboundDelivery
    Mails = {w1, w2}
    Facts <- MailFacts
    MaxFailures = 1
    MaxBlocks = 1
    \* Organizing
    Null = Null
    Databases <- MCDatabases
    Desks = {w1, w2}
    Titles = {"a", "b"}
    NewIds = {"n1"}
    MaxWork = 2
SPECIFICATION MCSpec
SYMMETRY MCSymmetry
INVARIANTS ArrivalsStayUnread CountersExact Delivered RecordsHold
CHECK_DEADLOCK FALSE
