CONSTANTS
  jpeg = jpeg
  avif = avif
  i1 = i1
  i2 = i2
  r1 = r1
  r2 = r2
  boot = boot
  Uploads <- JpegOnly
  Avif = {}
  Items <- OneItem
  NoItem = NoItem
  Gone = Gone
  Crops = {}
  NoCrop = NoCrop
  Rungs = 1
  Boot = boot
  Requests <- TwoRequests
  MaxEvents = 3
SPECIFICATION Spec
INVARIANT NeverPartial
CHECK_DEADLOCK FALSE
