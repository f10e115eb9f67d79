\* A tab that moves between an album, a photo and another page, see MCAutoDecrypt
SPECIFICATION Spec
CONSTANTS
  album = album
  photo = photo
  wall = wall
  AlbumSize = 3
  Pages <- AllPages
  Kind <- MCKind
  Size <- MCSize
  Known <- MCKnown
  Sticky = TRUE
  MaxLoading = 1
  MaxTries = 2
  MaxRequests = 2
  MaxFailures = 1
  NoPage = NoPage
INVARIANTS
  TypeOK
  DownloadsBounded
PROPERTIES
  NothingForgotten
  BarNeverGoesBack
  QueueFreed
  PollingStops
CHECK_DEADLOCK FALSE
