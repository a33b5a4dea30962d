\* The card scanner in the browser: one part at a time, over two cameras, two
\* photographs, two cards in a session and three scans of one card.
SPECIFICATION WebScannerSpec
CONSTANTS
  d1 = d1
  d2 = d2
  Devices <- TwoCameras
  Pluggable <- OneOrNone
  NoDevice = NoDevice
  NoStream = NoStream
  NoCall = NoCall
  MaxStarts = 3
  MaxLists = 1
  MaxPhotos = 2
  MaxEffort = 5
  Photos = {p1, p2}
  Printings = {x}
  Searches <- MCSearches
  NoPrinting = NoPrinting
  NoPhoto = NoPhoto
  NoJob = NoJob
  NoPass = NoPass
  MaximumItems = 2
  MaxQueue = 1
  MaxLost = 1
  Frames = {0, 1, 2, 4}
  NoFrame = NoFrame
  StableSamples = 3
  StableThreshold = 1
  ChangeThreshold = 3
  Countdown = 2
  CountdownSeconds = 2
  Matches = {m}
  NoMatch = NoMatch
  MaxScans = 3
SYMMETRY SessionSymmetry
INVARIANTS
  WebScannerTypeOK
  CameraHeld BusyWhileReading PagePhotoLive NothingLeftBehind
  ConfirmedAsShown AddedOnce CandidatesOfPhoto NeverStranded
  NoticeAtRest
  PageOfThisScan
PROPERTIES
  NothingGivenUpArrives
  NoCardReadTwice
CHECK_DEADLOCK FALSE
