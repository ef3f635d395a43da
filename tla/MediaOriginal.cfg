CONSTANTS
  jpeg = jpeg
  avif = avif
  i1 = i1
  i2 = i2
  r1 = r1
  r2 = r2
  boot = boot
  Uploads <- TwoUploads
  Avif <- AvifOnly
  Items <- OneItem
  NoItem = NoItem
  Gone = Gone
  Crops = {}
  NoCrop = NoCrop
  Rungs = 1
  Boot = boot
  Requests <- OneRequest
  MaxEvents = 3
SPECIFICATION Spec
PROPERTY OriginalsKept
CHECK_DEADLOCK FALSE
