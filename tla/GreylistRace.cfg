CONSTANTS
  a1 = a1
  a2 = a2
  timer = timer
  manual = manual
  adm = adm
  IPs <- OneIP
  Crawlers <- Crawler
  Timer = timer
  Sweepers <- TwoPasses
  Admins <- OneAdmin
  Ttl = 1
  NoRow = NoRow
  Never = Never
  NoTrip = NoTrip
  MaxTime = 2
  MaxEvents = 3
  visitor = visitor
  lan = lan
  browser = browser
  script = script
  Requests <- FewRequests
  Public <- OnlyVisitor
  Unlogged <- BytePaths
  Embedded <- StylePaths
  Drawn <- DrawnPaths
  Probes <- ProbePaths
  Rulesets <- TwoRulesets
  ScanMin = 2
  R1Min = 2
  R2Min = 2
  R3Min = 3
  Retention = 0
  MaxLog = 3
  MaxDay = 1
  MaxDeploys = 1
SPECIFICATION LogsSpec
  
INVARIANTS TypeOK NoBluntCrawler
PROPERTY PinSticks
CHECK_DEADLOCK FALSE
