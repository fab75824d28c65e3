CONSTANTS
    \* SystemSecrets
    Isolates = {h1, h2}
    MaxDraws = 3
    \* RateLimit
    Limit = 2
    Window = 2
    Callers = {h1, h2}
    LastTick = 3
    MaxHits = 5
    \* ServicePolling
    Ids = {1, 2, 3, 4}
    PageSize = 2
    LastSecond = 2
    \* Addresses
    LocalParts = {"a", "b"}
    CatchAll = "*"
    Aliases = {"a", "*"}
    NoReply = {"a"}
    Workers = {h1, h2}
    MaxMailboxes = 2
    \* Reminders
    Reminds = {q1}
    Ticks = {h1, h2}
    LastTime = 2
    MaxArmed = 2
    \* RuleSends
    RuleBoxes = {"a", "b"}
    Outsider = "x"
    ForwardTo <- Circle
    Answers = {"a"}
    Cap = 1
    Hour = 1
    Away = 2
    Runs = {h1, h2}
    LastMoment = 2
    MaxSent = 2
    \* AiFeatures
    Calls = {h1, h2}
    TokenCap = 2
    Costs = {1}
    LastMonth = 1
    MaxSpent = 3
    MaxMessages = 2
    \* AppPasswords
    Holders = {"u1", "u2"}
    Boxes = {"m1", "m2"}
    Email <- SignInNames
    PerUser = 1
    Minters = {h1, h2}
    MaxMinted = 2
SPECIFICATION MCSpec
SYMMETRY Symmetry
INVARIANTS
    SecretsShared  NoGaps MailFindsItsWay 
PROPERTIES
    RemindersHold
CHECK_DEADLOCK FALSE
