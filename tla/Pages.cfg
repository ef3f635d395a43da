CONSTANTS
  w1 = w1
  w2 = w2
  v1 = v1
  f1 = f1
  f2 = f2
  library = library
  post = post
  Names <- TwoNames
  Paths <- SomePaths
  Ids <- FourIds
  Top = Top
  Gone = Gone
  Library = library
  Admin = 2
  Keep = Keep
  Files <- OneFile
  Readers <- OneReader
  Writers <- TwoWriters
  Batches <- OneWriter
  MaxEvents = 3
  PageIds <- ThreePages
  NoRow = NoRow
  TopRank = 2
  Texts <- SomeTexts
  Searches <- SomeSearches
  FeedLimit = 2
  BandSize = 1
  HomeFetch = 2
  GridSize = 1
  RollupDepth = 2
  RollupScan = 2
  LastSecond = 2
  MaxEdits = 2
  MaxFetches = 2
SPECIFICATION PartsSpec
INVARIANTS TypeOK  ParentsExist VolumeOnce ListingsMatchTheGate
PROPERTY OpenedOnlyByStaleRow CopyIsCurrent
CHECK_DEADLOCK FALSE
