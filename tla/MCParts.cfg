SPECIFICATION PartsSpec
CONSTANTS
  a = a
  b = b
  boxIn = boxIn
  boxSent = boxSent
  d1 = d1
  home = home
  k1 = k1
  k2 = k2
  k3 = k3
  k4 = k4
  m1 = m1
  m2 = m2
  me = me
  None = None
  NoQuery = NoQuery
  NoThread = NoThread
  Off = Off
  q1 = q1
  t1 = t1
  t2 = t2
  t3 = t3
  th1 = th1
  th2 = th2
  work = work
  x1 = x1
  x2 = x2
  MovesMsgs = {a, b}
  MovesSent = {}
  MovesTrials <- Mailboxes
  MovesMaxVer = 1
  MovesMaxOps = 2
  OverridesMsgs = {a, b}
  OverridesMaxCalls = 2
  PagesFolders = {boxIn, boxSent}
  PagesInbox = boxIn
  PagesQueries = {q1}
  PagesNoQuery = NoQuery
  PagesFirst = 2
  PagesPageSize = 2
  PagesMaxTop = 3
  PagesMaxSel = 3
  PagesMaxHidden = 1
  GateMaxAttempt = 4
  BodiesCount = 3
  BodiesMaxInFlight = 1
  BodiesMaxQueued = 1
  ComposerMsgs = {a, b}
  ComposerAddrs = {x1}
  ComposerModes = {"reply"}
  ComposerMaxReplies = 2
  ComposerMaxSends = 1
  ContractDrafts <- TriedDrafts
  FeedTokens = {t1, t2}
  FeedMaxNow = 3
  FeedGap = 1
  FeedLimit = 3
  FeedMaxMounts = 2
  TargetsAccounts = {work, home}
  TargetsFolders = {boxIn, boxSent}
  TargetsSentFolders = {boxSent}
  TargetsUids = {1}
  TargetsIds = {m1, m2}
  DevicesMaxSub = 2
  DevicesOthers = {d1}
  DevicesMessages = {"m"}
  DevicesMaxPasses = 2
  WaitingAccounts = {work, home}
  WaitingStates = {"opened", "silent"}
  WaitingRows = 2
  WaitingPageSize = 1
  WaitingMaxSel = 3
  WaitingMaxChanges = 1
  ShortcutsMessages = {m1, m2}
  ShortcutsFolders = {"inbox", "starred"}
  ShortcutsTimeout = 1
  ShortcutsMaxNow = 2
  ShellMail = {1, 2, 3}
  ShellRecent = 0
  ShellPageLimit = 2
  ShellMaxPerPoll = 1
  ShellWaitingLimit = 1
  ShellMaxNow = 1
  CopiesJobs = {1, 2, 3}
  CopiesRecipients = {"x", "y"}
  CopiesMaxAttempts = 1
  CopiesWindow = 3
  CopiesSecond = 2
  CopiesMaxNow = 4
  CopiesBudget = 1
  ServiceAccounts = {a, b}
  ServiceMaxConnections = 2
  ServiceMaxBoots = 2
  ServiceMaxRequests = 2
  SessionKeys = {k1, k2}
  SessionMaxNow = 4
  SessionWindow = 2
  SessionMaxFailures = 2
  SessionMaxPending = 2
  SessionLifetime = 2
  FilesMaxVersion = 3
  BeaconTokens = {t1, t2, t3}
  BeaconMaxNow = 2
  BeaconDedupeWindow = 2
  BeaconPrefetchWindow = 1
  BeaconMaxOpens = 2
  BeaconMaxHits = 2
  BeaconMaxSends = 2
  BeaconFetchers = {"proxy"}
  RemindersAccounts = {work}
  RemindersThreads = {th1}
  RemindersOwn = {me}
  RemindersOthers = {x1}
  RemindersLimit = 1
  RemindersGrace = 1
  RemindersMaxNow = 2
  RemindersMaxEvents = 2
  RemindersMaxLater = 1
  MailingAccounts = {a}
  MailingThreads = {th1, th2}
  MailingUids = {7, 8}
  MailingInbox = boxIn
  MailingSent = boxSent
  MailingN = 4
  MailingLimit = 2
  MailingMaxChanges = 1
  MailingHits = {1, 3}
  TermsMaxTokens = 1
  NamesLangs = {"en", "ru"}
  NamesMaxTurns = 2
  NamesMaxUid = 4
  NoticesAccounts = {work, home}
  NoticesThreads = {th1}
  NoticesNoThread = NoThread
  NoticesTokens = {t1}
  NoticesShort = {work}
  NoticesSubscribers = {d1}
  NoticesSanityWindow = 0
  NoticesMaxNews = 3
  NoticesMaxBatch = 2
  PixelMe = me
  PixelOthers = {x1, x2}
  PixelMaxTokens = 3
  PixelMaxParts = 4
  PixelMaxReplies = 1
  CacheKeys = {k1, k2, k3, k4}
  CachedBodies = {"v1", "v2", "v3"}
  Bytes <- SizeOf
  MaxBytes = 5
  MaxEntryBytes = 3
INVARIANTS
  PartsTypeOK
  OptimismIsPaidBack
  ListsAreTrue
  NobodyWaitsInVain
  DraftsAreSafe
  SendsAreAccounted
  LimitsHold
  OpensAreReadings
  OpensAreToldTruly
  DevicesAreTold
  ServiceIsWhole
PROPERTIES
  ImplementsCache
  LateAnswersAreDropped
  RightMessageIsPicked
  NothingGoesTooSoon
CHECK_DEADLOCK FALSE
