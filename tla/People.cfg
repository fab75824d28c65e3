CONSTANTS
    \* Accounts
    Emails = {k1, k2}
    Requests = {h1, h2}
    MaxUsers = 3
    MaxTokens = 2
    \* MailboxAccess
    People = {p1, p2}
    Handlers = {h1, h2}
    Fingerprints = {k1, k2}
    \* Blocking
    Senders = {"s"}
    DomainOf <- OneDomain
    Readers = {"u"}
    Clerks = {h1, h2}
    MaxRequests = 2
SPECIFICATION MCSpec
SYMMETRY Symmetry
INVARIANTS
    Administered  OutsidersStayOut KeysAreTrusted ReviewsTakeEffect
CHECK_DEADLOCK FALSE
