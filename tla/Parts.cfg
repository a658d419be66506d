\* Small instances of the parts that share no state
SPECIFICATION Spec
CONSTANTS
  \* two forked processes, three places that draw
  Process = {game, child}
  Game = game
  Thread = {t1, t2}
  None = None
  Callsite = {"pango", "sdl_ttf", "cairo"}
  Rank <- Ranks
  Text = {x, y, z}
  QueueSize = 1
  MaxCandidates = 2
  MaxPending = 2
  Window = 1
  \* two injectors, a book and tables that fill up
  Injector = {i1, i2}
  Detoured = {g1, g2}
  MaxWorkers = 3
  Place = {p, q, r}
  BookLimit = 2
  MaxIds = 5
  Drawing = {d1, d2}
  Address = {1, 2}
  TableLimit = 1
  MaxObjects = 3
  \* three programs that store two payloads
  Digest = {b1, b2}
  Writer = {w1, w2, w3}
  NoFile = NoFile
  \* two capture sessions
  Picture = {"dusk", "dawn", "noon"}
  Alike <- AlikePictures
  FrameQueue = 2
  MaxFrames = 4
  MaxStreams = 2
  \* four frames and four chunks
  Sample = {"A", "a", "B"}
  Similar <- SimilarSamples
  NoSample = "none"
  MinimumInterval = 2
  RecentCapacity = 1
  TrailingSilence = 3
  ChunkLength = {1, 2}
  MaxTime = 4
  MaxChunks = 5
  \* numbers and executables that are used again
  Program <- Programs
  Nothing = Nothing
  MaxAnswers = 1
  MaxPicks = 1
  MaxTexts = 1
INVARIANTS TypeOK OneSender SentApart BestHeld OneWorker ActiveServed
  DetourHasOriginal KnownAnnounced ObservedOwnText
  PayloadsKept OneCapture ReusesLastSampled SegmentsComplete FindsPicked
PROPERTIES HeldLeaves TakesNewest HearsChosen
CHECK_DEADLOCK FALSE
