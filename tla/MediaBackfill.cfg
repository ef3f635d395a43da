CONSTANTS
  jpeg = jpeg
  avif = avif
  i1 = i1
  i2 = i2
  r1 = r1
  r2 = r2
  boot = boot
  Uploads <- TwoUploads
  Avif <- AvifOnly
  Items <- TwoItems
  NoItem = NoItem
  Gone = Gone
  Crops = {}
  NoCrop = NoCrop
  Rungs = 1
  Boot = boot
  Requests = {}
  MaxEvents = 3
SPECIFICATION Spec
INVARIANT BackfillResumes
CHECK_DEADLOCK FALSE
