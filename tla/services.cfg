\* Every component on a small instance; which one is chosen in the initial state.
SPECIFICATION ServicesSpec
CONSTANTS
  v1 = v1
  v2 = v2
  t1 = t1
  t2 = t2
  t3 = t3
  x = x
  y = y
  r1 = r1
  r2 = r2
  s1 = s1
  s2 = s2
  h1 = h1
  h2 = h2
  o1 = o1
  d2 = d2
  Workers = {w1, w2}
  NoWorker = none
  Keys = {k1, k2}
  MaxTasks = 2
  MaxVersion = 2
  MaxFaults = 1
  Books = {p, q}
  Blobs = {x, y}
  Nested <- MCNested
  OldBooks = {p}
  DeletionKeys = {k}
  MaxActs = 2
  MaxStops = 1
  NoBook = NoBook
  MaxChapters = 2
  MaxNumber = 4
  KeepLatest = 2
  Works = {b1, s}
  Legacy = {s}
  RestoredBook = FALSE
  RemovesAdopted = FALSE
  Editions = {v1, v2}
  Pieces = {t1, t2, t3}
  Cut <- MCCut
  Indexers = {i1, i2}
  PerTick = 1
  MaxModel = 2
  MaxTroubles = 1
  Profiles = {c}
  BuiltIn = {}
  NeedKey = {}
  Endpoints = {e1, e2}
  Offered = {m1, m2}
  Prices = {1, 2}
  NoPrice = 1
  ScriptProbes = FALSE
  MaxChanges = 2
  MaxMishaps = 1
  Unset = Unset
  Roots = {r1, r2}
  Servers = {s1, s2}
  Home <- MCHome
  Archived = r1
  Before = s1
  After = s2
  Calls = {c1, c2}
  Stranded = {c1}
  Jobs = {j1}
  MaxAccidents = 1
  Nobody = Nobody
  Designs <- MCDesigns
  MaxSetbacks <- MCSetbacks
  MaxEvents = 3
  Stories = {p, q}
  Texts <- MCTexts
  Spoilt <- MCSpoilt
  Categories = {"talk"}
  Quota = 2
  Dimensions = {"rhythm"}
  Desks = {d1, d2}
  MaxProfiles = 2
  MaxReviews = 1
  NoText = NoText
  NoStory = NoStory
  FreeDesk = FreeDesk
  Openings <- MCOpenings
  Preparations <- MCPreparations
  InputLimits = {8, 14}
  MaxRewrites = 1
  MaxRounds = 6
  Manuscripts <- MCManuscripts
  Uploads = {u1}
  SetupDrafts = {d1}
  MaxBooks = 3
  MaxCopies = 1
  MaxEdits = 1
  OldPools = {"none", "mixed"}
  Syncers = {z1}
  Reports <- MCReports
  UnitLength = 2
  MaxUnits <- MCUnits
  MaxEditions <- MCEditions
  Pages = {a1, a2}
  Previews = {w1}
  PublishedTexts <- MCPublished
  EarlierTexts <- MCEarlier
  OwnTexts <- MCOwn
  MaxRevisions = 2
  MaxDeaths = 1
  Assets = {i1}
  Commits = {h1, h2}
  Migration <- MCMigration
  Asked <- MCAsked
  Outputs = {o1}
  Drills = {d1, d2}
  MaxIncidents = 1
  Words = {"a", "b"}
  Query = "a"
  Folded = {"b"}
  ListFacts = {1}
  TextFacts = {2}
  BooksAtFirst <- MCPublications
  MaxChapterRows = 2
  MaxPublished = 3
  PageSize = 2
  VersionTexts <- MCVersionTexts
  Window = 4
  HalfWindow = 2
  Overlap = 1
  PerSource = 2
  HitLimit = 3
  MaxCached = 2
  Mentions <- MCMentions
  Past = {"b", "d"}
  PastMentions <- MCPastMentions
  FullCost = 2
  BriefCost = 1
  PastCost = 1
  WorldLimit = 7
  MaxRanked = 2
  MaxDetailed = 1
  MaxBrief = 1
  MaxScored = 4
  MaxDamages = 1
INVARIANTS ServicesTypeOK TasksAreSound ReadyIsCurrent EvidenceMatches WorkIsCurrent HybridIsRight OfflineToolsAreSafe BudgetHolds AnswersAreTrue StyleIsTraceable RequestIsSound DeletionIsSound VersionsAreSound ProfilesAreSound IntakeIsSound FactsAreSound TemplatesAreSound ArchivesAreSound ReadingIsSound RetrievalIsSound
PROPERTIES EndsOnce RemovedAsConfirmed DeletedIsNotSent
CHECK_DEADLOCK FALSE
