SPECIFICATION Spec
CONSTANTS
  ask = ask
  here = here
  there = there
  name = name
  folder = folder
  title = title
  p1 = p1
  p2 = p2
  p3 = p3
  fn = fn
  tag = tag
  hello = hello
  bye = bye
  h1 = h1
  h2 = h2
  Calls = 2
  Request <- MCRequest
  Query = {ask}
  EventCap = 1
  RingCap = 1
  MaxRestarts = 1
  MaxFaults = 1
  None = None
  Unset = Unset
  Project = {here, there}
  Name <- MCName
  Arg = {folder, title}
  Path <- MCPath
  Called <- MCCalled
  Caller = {h1, h2}
  Roots <- MCRoots
  Cwd = here
  Rows0 <- MCRows0
  MaxCalls = 3
  MaxMoves = 1
  Walked <- MCWalked
  Trees <- MCTrees
  Words = {hello, bye}
  Url = Url
  External = External
  NoText = NoText
  Mirrors <- MCMirrors
  MaxTouches = 2
  MaxFetches = 1
  Undisturbed <- MCUndisturbed
  Address = {"a1", "a2"}
  Sends <- MCSends
  Tables <- MCProjectTables
  Tools <- MCTools
  RateWindow = 1
  LastTick = 3
  MaxArrived = 2
  Untouched <- MCUntouched
  Watched = {"w1", "w2"}
  Client = {"c1", "c2"}
  Everything = "all"
  Filter <- MCFilter
  BufferCap = 2
  MaxPasses = 2
  MaxSilent = 1
  Unmoved <- MCUnmoved
INVARIANTS
  BooksBalance
  EventsAccounted
  CacheIsFresh
  StaleIdLeadsHome
  HitsAreHonest
  AdmissionIsExact
  GatewayIsUniform
  ToldIsTrue
PROPERTIES
  SessionIsStored
CHECK_DEADLOCK FALSE
