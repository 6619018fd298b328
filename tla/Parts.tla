-------------------------------- MODULE Parts --------------------------------
(***************************************************************************)
(* The parts that are proved about: of the client moves, flags, the list   *)
(* and its keys, the sign-in gate, the prefetch queue, the composer, the   *)
(* contract of a send, the feed of opens and what an open opens, the       *)
(* follow-ups shown, the push subscription and the notices; the desktop    *)
(* shell; of the sync service tracked sending, follow-ups, search terms,   *)
(* start and stop, the session route, the static files and the names of    *)
(* folders; the tracking service and its pixels; MessageCache is one of    *)
(* them too.  Each is an instance of its module over the variables v1,     *)
(* v2 ..., with its sizes as constants.                                    *)
(***************************************************************************)
EXTENDS MessageCache

CONSTANTS MovesMsgs, MovesSent, MovesTrials, MovesMaxVer, MovesMaxOps,
    OverridesMsgs, OverridesMaxCalls, PagesFolders, PagesInbox, PagesQueries,
    PagesNoQuery, PagesFirst, PagesPageSize, PagesMaxTop, PagesMaxSel,
    PagesMaxHidden, GateMaxAttempt, BodiesCount, BodiesMaxInFlight,
    BodiesMaxQueued, ComposerMsgs, ComposerAddrs, ComposerModes,
    ComposerMaxReplies, ComposerMaxSends, ContractDrafts, FeedTokens,
    FeedMaxNow, FeedGap, FeedLimit, FeedMaxMounts, TargetsAccounts,
    TargetsFolders, TargetsSentFolders, TargetsUids, TargetsIds, DevicesMaxSub,
    DevicesOthers, DevicesMessages, DevicesMaxPasses, WaitingAccounts,
    WaitingStates, WaitingRows, WaitingPageSize, WaitingMaxSel,
    WaitingMaxChanges, ShortcutsMessages, ShortcutsFolders, ShortcutsTimeout,
    ShortcutsMaxNow, ShellMail, ShellRecent, ShellPageLimit, ShellMaxPerPoll,
    ShellWaitingLimit, ShellMaxNow, CopiesJobs, CopiesRecipients,
    CopiesMaxAttempts, CopiesWindow, CopiesSecond, CopiesMaxNow, CopiesBudget,
    ServiceAccounts, ServiceMaxConnections, ServiceMaxBoots, ServiceMaxRequests,
    SessionKeys, SessionMaxNow, SessionWindow, SessionMaxFailures,
    SessionMaxPending, SessionLifetime, FilesMaxVersion, BeaconTokens,
    BeaconMaxNow, BeaconDedupeWindow, BeaconPrefetchWindow, BeaconMaxOpens,
    BeaconMaxHits, BeaconMaxSends, BeaconFetchers, RemindersAccounts,
    RemindersThreads, RemindersOwn, RemindersOthers, RemindersLimit,
    RemindersGrace, RemindersMaxNow, RemindersMaxEvents, RemindersMaxLater,
    MailingAccounts, MailingThreads, MailingUids, MailingInbox, MailingSent,
    MailingN, MailingLimit, MailingMaxChanges, MailingHits, TermsMaxTokens,
    NamesLangs, NamesMaxTurns, NamesMaxUid, NoticesAccounts, NoticesThreads,
    NoticesNoThread, NoticesTokens, NoticesShort, NoticesSubscribers,
    NoticesSanityWindow, NoticesMaxNews, NoticesMaxBatch, PixelMe, PixelOthers,
    PixelMaxTokens, PixelMaxParts, PixelMaxReplies

VARIABLES part,   \* the module this behaviour is one of
          \* and its variables, in the order of their declaration
          v1, v2, v3, v4, v5, v6, v7, v8, v9, v10, v11, v12, v13, v14, v15

Moves == INSTANCE MailboxMoves WITH Msgs <- MovesMsgs, Sent <- MovesSent,
    Trials <- MovesTrials, MaxVer <- MovesMaxVer, MaxOps <- MovesMaxOps,
    where <- v1, ver <- v2, tickets <- v3, stored <- v4, view <- v5, rows <- v6,
    hidden <- v7, ticks <- v8, reader <- v9, offer <- v10, bulkOffer <- v11,
    gen <- v12, mounted <- v13, ops <- v14, trial <- v15

Overrides == INSTANCE FlagOverrides WITH Msgs <- OverridesMsgs,
    MaxCalls <- OverridesMaxCalls, field <- v1, mailbox <- v2, page <- v3,
    override <- v4, calls <- v5, agreed <- v6, wanted <- v7

Pages == INSTANCE InboxPages WITH Folders <- PagesFolders, Inbox <- PagesInbox,
    Queries <- PagesQueries, NoQuery <- PagesNoQuery, First <- PagesFirst,
    PageSize <- PagesPageSize, MaxTop <- PagesMaxTop, MaxSel <- PagesMaxSel,
    MaxHidden <- PagesMaxHidden, shown <- v1, folder <- v2, input <- v3,
    query <- v4, timer <- v5, top <- v6, list <- v7, reqs <- v8, hidden <- v9,
    rows <- v10, cursor <- v11

Gate == INSTANCE SessionGate WITH MaxAttempt <- GateMaxAttempt, cookie <- v1,
    gate <- v2, attempt <- v3, probes <- v4, pending <- v5, form <- v6

Bodies == INSTANCE ReaderFetch WITH Count <- BodiesCount,
    MaxInFlight <- BodiesMaxInFlight, MaxQueued <- BodiesMaxQueued, cache <- v1,
    queue <- v2, active <- v3, failed <- v4, shared <- v5, retries <- v6,
    reader <- v7

Composer == INSTANCE Compose WITH Msgs <- ComposerMsgs, Addrs <- ComposerAddrs,
    Modes <- ComposerModes, MaxReplies <- ComposerMaxReplies,
    MaxSends <- ComposerMaxSends, view <- v1, before <- v2, reader <- v3,
    source <- v4, dirtyRef <- v5, attempt <- v6, loads <- v7, composer <- v8,
    sends <- v9, lost <- v10

Contract == INSTANCE SendContract WITH Drafts <- ContractDrafts, draft <- v1,
    wire <- v2, reason <- v3

Feed == INSTANCE OpensFeed WITH Tokens <- FeedTokens, MaxNow <- FeedMaxNow,
    Gap <- FeedGap, Limit <- FeedLimit, MaxMounts <- FeedMaxMounts,
    recorded <- v1, mounts <- v2, mounted <- v3, polls <- v4, timer <- v5,
    feed <- v6, previous <- v7, line <- v8

Targets == INSTANCE OpenTargets WITH Accounts <- TargetsAccounts,
    Folders <- TargetsFolders, SentFolders <- TargetsSentFolders,
    Uids <- TargetsUids, Ids <- TargetsIds, mail <- v1, index <- v2,
    loaded <- v3, opened <- v4, sought <- v5

Devices == INSTANCE PushSubscriptions WITH MaxSub <- DevicesMaxSub,
    Others <- DevicesOthers, Messages <- DevicesMessages,
    MaxPasses <- DevicesMaxPasses, vapid <- v1, permission <- v2, sub <- v3,
    minted <- v4, rows <- v5, switch <- v6, step <- v7, endpoint <- v8,
    lookup <- v9, pass <- v10, passes <- v11

Waiting == INSTANCE FollowupView WITH Accounts <- WaitingAccounts,
    States <- WaitingStates, Rows <- WaitingRows, PageSize <- WaitingPageSize,
    MaxSel <- WaitingMaxSel, MaxChanges <- WaitingMaxChanges, account <- v1,
    standing <- v2, view <- v3, selection <- v4, reqs <- v5, changes <- v6

Shortcuts == INSTANCE Keyboard WITH Messages <- ShortcutsMessages,
    Folders <- ShortcutsFolders, Timeout <- ShortcutsTimeout,
    MaxNow <- ShortcutsMaxNow, now <- v1, view <- v2, folder <- v3, focus <- v4,
    help <- v5, reader <- v6, rows <- v7, cursor <- v8, ticked <- v9,
    chord <- v10, last <- v11

Shell == INSTANCE Desktop WITH Mail <- ShellMail, Recent <- ShellRecent,
    PageLimit <- ShellPageLimit, MaxPerPoll <- ShellMaxPerPoll,
    WaitingLimit <- ShellWaitingLimit, MaxNow <- ShellMaxNow, now <- v1,
    inbox <- v2, arrived <- v3, cookie <- v4, request <- v5, baselined <- v6,
    accounted <- v7, waiting <- v8, shown <- v9, repeated <- v10

Copies == INSTANCE SendMail WITH Jobs <- CopiesJobs,
    Recipients <- CopiesRecipients, MaxAttempts <- CopiesMaxAttempts,
    Window <- CopiesWindow, Second <- CopiesSecond, MaxNow <- CopiesMaxNow,
    Budget <- CopiesBudget, now <- v1, window <- v2, transports <- v3,
    job <- v4, minted <- v5, delivered <- v6

Service == INSTANCE Server WITH Accounts <- ServiceAccounts,
    MaxConnections <- ServiceMaxConnections, MaxBoots <- ServiceMaxBoots,
    MaxRequests <- ServiceMaxRequests, stored <- v1, file <- v2, config <- v3,
    phase <- v4, left <- v5, open <- v6, detached <- v7, pool <- v8, poll <- v9,
    database <- v10, boots <- v11, requests <- v12

Session == INSTANCE SessionRoute WITH Keys <- SessionKeys,
    MaxNow <- SessionMaxNow, Window <- SessionWindow,
    MaxFailures <- SessionMaxFailures, MaxPending <- SessionMaxPending,
    Lifetime <- SessionLifetime, now <- v1, key <- v2, window <- v3,
    pending <- v4, cookie <- v5, served <- v6

Files == INSTANCE StaticFiles WITH MaxVersion <- FilesMaxVersion, files <- v1,
    built <- v2, cache <- v3, page <- v4, script <- v5

Beacon == INSTANCE Tracking WITH Tokens <- BeaconTokens, MaxNow <- BeaconMaxNow,
    DedupeWindow <- BeaconDedupeWindow, PrefetchWindow <- BeaconPrefetchWindow,
    MaxOpens <- BeaconMaxOpens, MaxHits <- BeaconMaxHits,
    MaxSends <- BeaconMaxSends, Fetchers <- BeaconFetchers, now <- v1,
    sentAt <- v2, answered <- v3, hits <- v4, opens <- v5, lastId <- v6

Reminders == INSTANCE Followup WITH Accounts <- RemindersAccounts,
    Threads <- RemindersThreads, Own <- RemindersOwn, Others <- RemindersOthers,
    Limit <- RemindersLimit, Grace <- RemindersGrace, MaxNow <- RemindersMaxNow,
    MaxEvents <- RemindersMaxEvents, MaxLater <- RemindersMaxLater, now <- v1,
    sentAt <- v2, later <- v3, events <- v4, read <- v5, page <- v6

Mailing == INSTANCE Conversations WITH Accounts <- MailingAccounts,
    Threads <- MailingThreads, Uids <- MailingUids, Inbox <- MailingInbox,
    Sent <- MailingSent, N <- MailingN, Limit <- MailingLimit,
    MaxChanges <- MailingMaxChanges, Hits <- MailingHits, table <- v1,
    view <- v2, discovered <- v3, page <- v4, list <- v5, touched <- v6,
    changes <- v7

Terms == INSTANCE SearchTerms WITH MaxTokens <- TermsMaxTokens, query <- v1,
    found <- v2

Names == INSTANCE FolderNames WITH Langs <- NamesLangs,
    MaxTurns <- NamesMaxTurns, MaxUid <- NamesMaxUid, lang <- v1, flagged <- v2,
    turns <- v3, at <- v4, uid <- v5, connection <- v6, account <- v7,
    rows <- v8, ticket <- v9, restored <- v10

Notices == INSTANCE NewMailPush WITH Accounts <- NoticesAccounts,
    Threads <- NoticesThreads, NoThread <- NoticesNoThread,
    Tokens <- NoticesTokens, Short <- NoticesShort,
    Subscribers <- NoticesSubscribers, SanityWindow <- NoticesSanityWindow,
    MaxNews <- NoticesMaxNews, MaxBatch <- NoticesMaxBatch, news <- v1,
    table <- v2, chains <- v3, told <- v4, screen <- v5, clicked <- v6,
    view <- v7, mixed <- v8

Pixel == INSTANCE SentPixel WITH Me <- PixelMe, Others <- PixelOthers,
    MaxTokens <- PixelMaxTokens, MaxParts <- PixelMaxParts,
    MaxReplies <- PixelMaxReplies, box <- v1, owner <- v2, hits <- v3,
    replies <- v4

(* What the theorems about the parts assume of their sizes.                *)
ASSUME GateAssumption == GateMaxAttempt \in Nat /\ GateMaxAttempt >= 2 /\ None \notin Nat
ASSUME MovesAssumption ==
  /\ IsFiniteSet(MovesMsgs) /\ {MovesMaxVer, MovesMaxOps} \subseteq Nat
  /\ \A t \in MovesTrials : t.limit \in Nat \ {0}
ASSUME OverridesAssumption == OverridesMaxCalls \in Nat
ASSUME NamesAssumption ==
  /\ NamesMaxTurns \in Nat /\ NamesMaxUid \in Nat \ {0}
  /\ None \notin Names!Kinds \union Names!Paths
ASSUME ContractAssumption ==
  /\ ContractDrafts \subseteq Contract!Draft
  /\ None \notin Nat \union Contract!MessageId \union {Contract!Wire(d) : d \in ContractDrafts}
ASSUME ComposerAssumption ==
  /\ {ComposerMaxReplies, ComposerMaxSends} \subseteq Nat
  /\ ComposerAddrs # {} /\ None \notin ComposerMsgs
ASSUME BodiesAssumption ==
  /\ {BodiesCount, BodiesMaxInFlight, BodiesMaxQueued} \subseteq Nat
  /\ None \notin Bodies!Request \union Bodies!Reader
ASSUME FeedAssumption ==
  /\ FeedMaxMounts \in Nat \ {0} /\ FeedMaxNow \in Nat
  /\ None \notin Feed!Feed \union {"ready", "unavailable"}
ASSUME RemindersAssumption ==
  /\ {RemindersMaxNow, RemindersMaxEvents} \subseteq Nat
  /\ RemindersLimit \in Nat \ {0} /\ None \notin Nat
ASSUME WaitingAssumption ==
  /\ WaitingRows \in Nat /\ {WaitingPageSize, WaitingMaxSel} \subseteq Nat \ {0}
  /\ None \notin Nat
ASSUME CacheAssumption ==
  /\ Bytes \in [CachedBodies -> Nat] /\ {MaxBytes, MaxEntryBytes} \subseteq Nat
  /\ MaxEntryBytes <= MaxBytes
ASSUME ShortcutsAssumption ==
  /\ {ShortcutsMaxNow, ShortcutsTimeout} \subseteq Nat
  /\ {"inbox", "starred"} \subseteq ShortcutsFolders
ASSUME PagesAssumption ==
  /\ PagesInbox \in PagesFolders /\ None \notin Nat
  /\ {PagesFirst, PagesMaxTop} \subseteq Nat /\ PagesFirst <= PagesMaxTop
  /\ {PagesPageSize, PagesMaxSel} \subseteq Nat \ {0}
ASSUME MailingAssumption ==
  /\ {MailingN, MailingMaxChanges} \subseteq Nat /\ MailingLimit \in Nat \ {0}
  /\ None \notin Nat \union Mailing!Row \union [reps: Seq(Mailing!Entry)]
  /\ MailingThreads \cap MailingUids = {}
ASSUME ServiceAssumption ==
  /\ IsFiniteSet(ServiceAccounts) /\ None \notin ServiceAccounts
  /\ ServiceMaxBoots \in Nat \ {0} /\ ServiceMaxRequests \in Nat
ASSUME FilesAssumption ==
  /\ FilesMaxVersion \in Nat \ {0}
  /\ None \notin Nat \union ({"script", "missing"} \X Nat)
ASSUME SessionAssumption ==
  /\ {SessionMaxNow, SessionLifetime} \subseteq Nat
  /\ {SessionWindow, SessionMaxFailures, SessionMaxPending} \subseteq Nat \ {0}
  /\ None \notin Session!Cookie
ASSUME DevicesAssumption ==
  /\ {DevicesMaxSub, DevicesMaxPasses} \subseteq Nat
  /\ DevicesOthers \intersect (Nat \union {None}) = {} /\ None \notin Nat \union Devices!Pass
ASSUME ShellAssumption ==
  /\ ShellMail \subseteq Nat \ {0} /\ IsFiniteSet(ShellMail)
  /\ {ShellRecent, ShellPageLimit, ShellMaxPerPoll, ShellWaitingLimit, ShellMaxNow} \subseteq Nat
ASSUME NoticesAssumption ==
  /\ "opens" \notin NoticesAccounts /\ {NoticesMaxNews, NoticesMaxBatch} \subseteq Nat
  /\ \A S \in SUBSET NoticesSubscribers : None # S
  /\ None \notin [shown: {"inbox", "opens"}, of: Nat]
ASSUME BeaconAssumption ==
  /\ {BeaconMaxNow, BeaconDedupeWindow, BeaconPrefetchWindow, BeaconMaxHits} \subseteq Nat
  /\ BeaconFetchers \subseteq {"proxy", "gateway", "contentless", "client"}
ASSUME PixelAssumption ==
  /\ IsFiniteSet(PixelOthers) /\ PixelMe \notin PixelOthers
  /\ {PixelMaxTokens, PixelMaxReplies} \subseteq Nat /\ PixelMaxParts \in Nat \ {0}
ASSUME CopiesAssumption ==
  /\ CopiesJobs \subseteq Nat /\ IsFiniteSet(CopiesJobs)
  /\ IsFiniteSet(CopiesRecipients)
  /\ {CopiesMaxNow, CopiesMaxAttempts} \subseteq Nat
  /\ {CopiesWindow, CopiesSecond} \subseteq Nat \ {0}
  /\ None \notin Copies!Requests
=============================================================================
