CONSTANTS
  u1 = u1
  p1 = p1
  timer = timer
  manual = manual
  q1 = q1
  Urls <- OneUrl
  Pages <- OnePage
  Timer = timer
  Scans <- TwoScans
  Recheckers <- OneRecheck
  NoRow = NoRow
  Never = Never
  Gone = Gone
  Confirm = 3
  Interval = 3
  Day = 4
  Retain = 5
  MaxBusy = 1
  MaxTime = 9
  MaxEvents = 2
  Retry = 1
  Refresh = 3
  Window = 5
  Life = 8
  MaxTrouble = 2
  Horizon = 24
  MaxRestarts = 2
  RetainBackups = 3
  MaxDate = 5
  MaxFaults = 1
  Links <- SomeLinks
  NodeIds <- FourIds
  Slugs <- OneSlug
  Items <- OneMedia
  MaxChanges = 3
SPECIFICATION TimersSpec
INVARIANTS TypeOK NotHasty SlotTells SignalConfirmed
INVARIANTS ServedIsValid  OneSnapshotRemains DeadMeansDead
 
CHECK_DEADLOCK FALSE
