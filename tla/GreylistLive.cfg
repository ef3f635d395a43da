CONSTANTS
  a1 = a1
  a2 = a2
  timer = timer
  manual = manual
  adm = adm
  IPs <- OneIP
  Crawlers = {}
  Timer = timer
  Sweepers <- JustTimer
  Admins <- OneAdmin
  Ttl = 1
  NoRow = NoRow
  Never = Never
  NoTrip = NoTrip
  MaxTime = 2
  MaxEvents = 5
SPECIFICATION FairSpec
PROPERTIES SlidesForward SnapshotConverges OperatorRowsPurged
CHECK_DEADLOCK FALSE
