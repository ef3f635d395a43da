CONSTANTS
  jpeg = jpeg
  avif = avif
  i1 = i1
  i2 = i2
  r1 = r1
  r2 = r2
  boot = boot
  Uploads <- TwoUploads
  Avif <- AvifOnly
  Items <- OneItem
  NoItem = NoItem
  Gone = Gone
  Crops = {}
  NoCrop = NoCrop
  Rungs = 2
  Boot = boot
  Requests <- TwoRequests
  MaxEvents = 2
  m1 = m1
  m2 = m2
  clip = clip
  frame = frame
  v1 = v1
  v2 = v2
  Refs <- TwoRefs
  Contents <- TwoContents
  Mime <- TheMime
  Bytes <- TheBytes
  Width <- TheWidth
  CoverOf <- TheCover
  AdminRank = 1
  Nothing = Nothing
  Visitors <- TwoVisitors
  MaxRows = 2
  MaxServing = 3
SPECIFICATION MediaSpec
INVARIANTS TypeOK RowsHaveBytes TornOnlyByTwins AloneIsComplete OnlyAllowedBytes DeniedLooksMissing CacheHoldsOnlyPublic 
SYMMETRY TwoOfEach
CHECK_DEADLOCK FALSE
