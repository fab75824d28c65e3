SPECIFICATION SearchSpec
CONSTANTS
  PublicIps = {"ip1", "ip2"}
  MaxHaystack = 3
  MaxLiteral = 3
  DrainMax = 6
  UnitBits = 16
  MaxNesting = 32
  MaxCode = 64
  Reach = 60
  WholeMax = 4
  FractionMax = 1
  LocalRules = {"r0"}
  MinRules = 2
  Daily = 3
  Hourly = 1
  MaxHops = 3
  MaxTokens = 2
  MinPrefix = 2
  BodyCap = 4
  NameCap = 2
CHECK_DEADLOCK FALSE
INVARIANT FieldsCombine
