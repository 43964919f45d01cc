SPECIFICATION MCSpec
CONSTANTS
  v1 = v1  v2 = v2  s1 = s1  s2 = s2  q1 = q1  q2 = q2  m1 = m1  m2 = m2  t1 = t1
  Invocations = {v1, v2}  NoInvocation = NoInvocation  Release <- MCRelease  NLogins = 1
  IngestRuns = {n1, n2}  NRecords = 3  Stamp <- MCStamp  Grade <- MCGrade
  BatchSize = 1  MaxIngestCrashes = 1
  Subjects = {s1, s2}  Ends <- MCEnds  Embedders = {w1, w2}  NoSubject = NoSubject
  ClaimLimit = 1  MaxEmbedTries = 2  MaxEmbedCrashes = 1
  People = {p1, p2}  FirstAdmins = {p1}  Calls = {c1, c2}
  Texts = {t1}  PassagesOf <- MCPassagesOf  Nodes = {m1, m2}  Matches <- MCMatches
  Operators = {o1, o2}  MaxSources = 3
  Controls = {k1}  Scanners = {z1, z2}  MaxSignals = 2
  Found = {f1, f2}
  Merges = {g1, g2, g3}  MaxSteps = 2
  NKeys = 4  EdgeRows <- MCEdgeRows  HopCeiling = 3  NodeCeiling = 9  Queries <- MCQueries
  Gates = {h1, h2}  Deciders = {d1, d2}  NoDecider = NoDecider  NoGate = NoGate
  Deciding = {c3, c4}  MaxRows = 3  MaxSubmissions = 2
INVARIANTS
  DecisionsChained
  CredentialsAgree
  NothingLost
  CurrencyHonest
  TriesBounded
  AdminRemains
  AnchoredOnce
  DarkStaysReachable
  TaskVerdict
  LaunchTraced
  EpisodePinned
  ReachExact
  StrongestPath
PROPERTIES
  OneMindChanges
  ForwardOnly
  Answered
  Ingested
  Drained
  CriticalPaged
CHECK_DEADLOCK FALSE
