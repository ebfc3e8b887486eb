SPECIFICATION Spec
CONSTANTS
  A = A
  B = B
  Pages = {"home", "source"}
  SourceView = "source"
  NavThreads = {n1, n2, n3}
  NoThread = NoThread
  QueueLimit = 1
  QueueBound = 3
  LateBound = 3
  LoadBound = 1
  PostedOps <- ThePosts
  MaxPosts = 3
  Subscribers = {s1, s2}
  Sites = {"u", "v"}
  Whole = {"u"}
  Part = {"v"}
  MaxVisits = 3
  MaxSecond = 1
  Users = {b1, b2}
  Links = {"home", "far"}
  Refused = {"far"}
  Seeds <- TheSeeds
  Setters = {w1, w2}
  Readers = {r1}
  Engines = {"e1", "e2"}
  Wallpapers = {"w1", "w2"}
  Defaults <- TheDefaults
  Lists = {l1, l2}
  NoList = NoList
  MaxStarts = 2
  Offers <- TheOffers
  Rings <- TheRings
  Thresholds <- TheThresholds
  Lost = {A}
  Ladder <- TheLadder
  LastDay = 2
  NoVersion = NoVersion
  NoTime = NoTime
  NoPolicy = NoPolicy
  Undecodable = Undecodable
  Platforms <- ThePlatforms
  TxtPlatforms = {"core"}
  NativeOf = {"android"}
  MaxDamage = 2
  Contracts <- TheContracts
  Modelled = {"approval"}
  Vectors = {"x-valid", "y-valid"}
  ContractOf <- TheContractOf
  Properties = {"NAME", "PACKAGE", "CODE"}
  Declarations <- TheDeclarations
  Optional = {"APP_ID"}
  HandWritten <- TheHandWritten
  MinCrossEnd = 1
  MinSchemas = 2
  MinVectors = 2
  MaxEdits = 2
  Sources <- TheSources
  Required = {"a"}
  Excluded = {"stale"}
  MaxTouches = 2
  Callers = {c1, c2}
  Operations = {"FfiBroker", "evaluate_navigation", "reject_navigation_confirmation", "extract_host"}
  MaxUnencodable = 1
  MaxLoosened = 1
  MaxFaults = 2
INVARIANTS
  PagesConfined
  PagesCoverOnce
  DuplicatesBounded
  FilesKept
  BundleHandedOn
  GatesAgree
  PackageKept
  MemoryBalances
  DefectsAreDenied
PROPERTIES
  BacklogDrains
  LayerAttached
  UpdatesAreTrusted
CHECK_DEADLOCK FALSE
