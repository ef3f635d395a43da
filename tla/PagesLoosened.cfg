CONSTANTS
  w1 = w1
  w2 = w2
  v1 = v1
  f1 = f1
  f2 = f2
  library = library
  post = post
  Names <- TwoNames
  Paths <- SomePaths
  Ids <- FourIds
  Top = Top
  Gone = Gone
  Library = library
  Admin = 2
  Keep = Keep
  Files <- OneFile
  Readers <- NoReaders
  Writers <- TwoWriters
  Batches <- OneWriter
  MaxEvents = 3
SPECIFICATION Spec
PROPERTY NeverSilentlyLoosened
CHECK_DEADLOCK FALSE
