----------------------------- MODULE FolderSync -----------------------------
(***************************************************************************)
(* How one folder of one account reaches Postgres (sync/src/imap/pool.ts,  *)
(* fetch.ts, backfill.ts, new-mail-marks.ts).                              *)
(*                                                                         *)
(* A cycle polls the newest Window UIDs, upserts them, works out which are *)
(* new mail, then walks history one page further down, and ends with INBOX *)
(* selected again.  The server's mailbox changes at every await; the       *)
(* process may crash, the connection may drop and Postgres may refuse at   *)
(* every await.  What survives a crash is the messages table (rows) and    *)
(* the folder's sync_state row; the high-water mark does not.              *)
(*                                                                         *)
(* The whole cycle runs under the account's mutex (KeyedMutex), so nothing *)
(* else of the service drives this connection during it.  Byte budgets are *)
(* the subject of ByteBudget: a reservation is granted or refused here.    *)
(***************************************************************************)
EXTENDS Integers, FiniteSets

CONSTANTS
  Window,       \* HEADER_FETCH_LIMIT
  PageSize,     \* BACKFILL_PAGE_SIZE
  MaxUid,       \* bound: UIDs a mailbox hands out under one numbering
  MaxValidity,  \* bound: UIDVALIDITY values, so MaxValidity - 1 renumberings
  MaxFailures,  \* bound: crashes, dropped connections and failed queries
  MayStartEmpty,\* may the mailbox never have held a message at first?
  MaxBurst,     \* bound: arrivals between two complete live polls
  TornFirstPoll, \* may the first poll of a folder fail between two upserts?
  TornFirstPage  \* may its first page of history?

ASSUME SizesAssumption == /\ Window \in Nat \ {0}
                          /\ PageSize \in Nat \ {0}
                          /\ MaxUid \in Nat \ {0}
                          /\ MaxValidity \in Nat \ {0}
                          /\ MaxFailures \in Nat
                          /\ MaxBurst \in Nat
ASSUME KindAssumption == {MayStartEmpty, TornFirstPoll, TornFirstPage} \subseteq BOOLEAN

Uids == 1..MaxUid
Validities == 1..MaxValidity
None == 0              \* null: no UIDVALIDITY known, no watermark, no row

VARIABLES
  kind,         \* which folder this is: "inbox", on which the connection idles,
                \* or any "other"
  box,          \* server: UIDs of the messages in the mailbox
  uidNext,      \* server: the next UID it will assign
  validity,     \* server: UIDVALIDITY of the numbering in force
  rows,         \* messages: UID -> numbering it was last upserted under, or None
  syncState,    \* sync_state: [uidValidity, lastSeen, done]; all None = no row
  mark,         \* NewMailMarks: [validity, max], validity None = first cycle
  cachedNext,   \* imapflow's cached uidNext, None when not selected
  pc,           \* where the account's cycle is
  fetched,      \* messages of the live poll in flight
  pending,      \* fetched and not upserted yet (live poll or page)
  seenValidity, \* UIDVALIDITY the fetch in flight observed, None if none did
  page,         \* [lowest, highest] of the page in flight
  newUids,      \* what track() reported, to be dispatched when the cycle ends
  failures      \* failures so far

server == <<kind, box, uidNext, validity>>
database == <<rows, syncState>>

\* History, read by the properties only.
VARIABLES
  polled,       \* [from, to): UIDs the latest live fetch asked for
  covered,      \* [from, to): UIDs the latest COMPLETE live poll stored
  baseNext,     \* uidNext the poll that set the high-water mark had seen
  rewalk,       \* the walk under the numbering in force: "first", "reset" (started
                \* over, no page yet) or "paged"
  notified,     \* <<validity, UID>> of the messages announced
  walkThrew     \* this cycle's walk threw before it could plan a page

history == <<polled, covered, baseNext, rewalk, notified, walkThrew>>

vars == <<server, database, mark, cachedNext, pc, fetched, pending,
          seenValidity, page, newUids, failures, history>>

NoSpan == [lowest |-> None, highest |-> None]
NoRange == [from |-> None, to |-> None]
Inbox == kind = "inbox"
Rows == {u \in Uids : rows[u] # None}

Init ==
  /\ kind \in {"inbox", "other"}
  /\ uidNext \in (IF MayStartEmpty THEN 1 ELSE 2)..MaxUid
  /\ box \in SUBSET (1..(uidNext - 1))
  /\ validity = 1
  /\ rows = [u \in Uids |-> None]
  /\ syncState = [uidValidity |-> None, lastSeen |-> None, done |-> FALSE]
  /\ mark = [validity |-> None, max |-> 0]
  /\ cachedNext = None
  /\ pc = "down"
  /\ fetched = {} /\ pending = {} /\ newUids = {}
  /\ seenValidity = None
  /\ page = NoSpan
  /\ failures = 0
  /\ polled = NoRange /\ covered = NoRange
  /\ baseNext = None
  /\ rewalk = "first"
  /\ notified = {}
  /\ walkThrew = FALSE
-----------------------------------------------------------------------------
(* The mailbox, as other clients and other people see to it.               *)

\* What the last complete poll saw, or the first poll while it is in flight
LastSeenByPoll == IF covered.to # None THEN covered.to ELSE polled.to

\* A message arrives.
Deliver ==
  /\ uidNext <= MaxUid
  /\ LastSeenByPoll # None => uidNext < LastSeenByPoll + MaxBurst
  /\ box' = box \cup {uidNext}
  /\ uidNext' = uidNext + 1
  /\ UNCHANGED <<kind, validity, database, mark, cachedNext, pc, fetched,
                 pending, seenValidity, page, newUids, failures, history>>

\* A message is expunged elsewhere.
Expunge ==
  /\ \E u \in box : box' = box \ {u}
  /\ UNCHANGED <<kind, uidNext, validity, database, mark, cachedNext, pc,
                 fetched, pending, seenValidity, page, newUids, failures, history>>

\* Not selected: the connection is down, has another folder open, or (for a
\* folder other than INBOX) idles on INBOX.
Deselected == pc \in {"down", "plan", "end"} \/ (~ Inbox /\ pc \in {"poll", "idle"})

\* The server renumbers the mailbox, which it may do between sessions only
\* (RFC 3501, 2.3.1.1): never while this connection has it selected.
Renumber ==
  /\ validity < MaxValidity
  /\ Deselected
  /\ validity' = validity + 1
  /\ box' = 1..Cardinality(box)
  /\ uidNext' = Cardinality(box) + 1
  /\ cachedNext' = None
  /\ covered' = NoRange /\ polled' = NoRange /\ rewalk' = "first"
  /\ UNCHANGED <<kind, database, mark, pc, fetched, pending, seenValidity,
                 page, newUids, failures, baseNext, notified, walkThrew>>
-----------------------------------------------------------------------------
(* The connection and the process.                                         *)

\* What a cycle holds in local variables is gone.
ForgetCycle == /\ fetched' = {} /\ pending' = {} /\ newUids' = {}
               /\ seenValidity' = None
               /\ page' = NoSpan
               /\ walkThrew' = FALSE

\* The folder's first poll, or its first page, is half-way through its upserts:
\* the oldest row is all there is for a floor, and it is not what it will be.
FirstPollHalfway == pc = "save" /\ covered.to = None /\ Rows # {}
FirstPageHalfway == /\ pc = "pageSave" /\ syncState.lastSeen = None
                    /\ \E u \in Rows : u <= page.highest

MayFail == /\ failures < MaxFailures
           /\ FirstPollHalfway => TornFirstPoll
           /\ FirstPageHalfway => TornFirstPage

\* connect(), and the cycle runAccount() starts at once (pool.ts:499-520)
Connect ==
  /\ pc = "down"
  /\ pc' = "poll"
  /\ UNCHANGED <<server, database, mark, cachedNext, fetched, pending,
                 seenValidity, page, newUids, failures, history>>

\* Anything thrown on the INBOX path, or by a dead connection: runAccount()
\* discards the connection and backs off.  The marks outlive it.
Drop ==
  /\ pc # "down"
  /\ MayFail
  /\ failures' = failures + 1
  /\ pc' = "down"
  /\ cachedNext' = None
  /\ ForgetCycle
  /\ UNCHANGED <<server, database, mark, polled, covered, baseNext, rewalk, notified>>

\* The process dies and systemd restarts it: only Postgres survives.
Crash ==
  /\ MayFail
  /\ failures' = failures + 1
  /\ pc' = "down"
  /\ cachedNext' = None
  /\ mark' = [validity |-> None, max |-> 0]
  /\ ForgetCycle
  /\ UNCHANGED <<server, database, polled, covered, baseNext, rewalk, notified>>

\* waitForIdleWake() returns: mail, the liveness interval, or the end of IDLE
Wake ==
  /\ pc = "idle"
  /\ pc' = "poll"
  /\ UNCHANGED <<server, database, mark, cachedNext, fetched, pending,
                 seenValidity, page, newUids, failures, history>>
-----------------------------------------------------------------------------
(* The live poll: syncFolder() and fetchHeaders().                         *)

\* getMailboxLock(): SELECT reads uidNext, but a mailbox that is selected
\* already is not selected again and keeps the uidNext of its SELECT.  INBOX
\* stays selected unless another folder was opened since; any other folder is
\* opened after INBOX, so always selected afresh.
Opened == {uidNext} \cup {n \in {cachedNext} : Inbox /\ n # None}

\* resolveUidSpan() of a live poll: the lowest UID, given the cached uidNext
LowestLive(next) == IF next > Window THEN next - Window ELSE 1

\* Mutant: "low:high", the ceiling cached before the message arrived.
RangeToCachedNext(next) == {u \in box : LowestLive(next) <= u /\ u < next}

\* "low:*" is low and above, or the last message when that is below low.  The
\* ceiling is the server's, but a span inverted by the CACHED uidNext (the
\* mailbox was empty when it was selected) fetches nothing at all.
LiveRange(next) ==
  IF next - 1 < LowestLive(next) THEN {}
  ELSE {u \in box : LowestLive(next) <= u \/ \A v \in box : v <= u}

\* The reservation is granted and the headers are fetched.
FetchLive ==
  /\ pc = "poll"
  /\ \E next \in Opened :
       /\ cachedNext' = next
       /\ fetched' = LiveRange(next)
       /\ polled' = [from |-> LowestLive(next), to |-> uidNext]
       /\ baseNext' = IF mark.validity = validity THEN baseNext ELSE next
  /\ pending' = fetched'
  /\ seenValidity' = validity
  /\ pc' = "save"
  /\ UNCHANGED <<server, database, mark, page, newUids, failures, covered,
                 rewalk, notified, walkThrew>>

\* The reservation is refused: no fetch, no UIDVALIDITY, no new mail.  A folder
\* other than INBOX that throws before its first upsert ends the same way.
SkipLive ==
  /\ pc = "poll"
  /\ pc' = "plan"
  /\ seenValidity' = None
  /\ UNCHANGED <<server, database, mark, cachedNext, fetched, pending, page,
                 newUids, failures, history>>

\* upsertMessage() and its attachments, one message at a time
SaveLive ==
  /\ pc = "save"
  /\ \E u \in pending : /\ rows' = [rows EXCEPT ![u] = seenValidity]
                        /\ pending' = pending \ {u}
  /\ UNCHANGED <<server, syncState, mark, cachedNext, pc, fetched,
                 seenValidity, page, newUids, failures, history>>

\* A folder other than INBOX throws half-way: logged, and the cycle goes on to
\* backfill without an observed UIDVALIDITY.
LiveThrows ==
  /\ pc = "save"
  /\ ~ Inbox
  /\ MayFail
  /\ failures' = failures + 1
  /\ pc' = "plan"
  /\ fetched' = {} /\ pending' = {}
  /\ seenValidity' = None
  /\ UNCHANGED <<server, database, mark, cachedNext, page, newUids, history>>

\* Mutants: the first cycle is compared with an empty mark; the message at the
\* mark is new again.
NeverStartsBaseline == FALSE
AtOrAboveMark(u) == u >= mark.max

\* The first cycle of this process, or the first under another numbering.
StartsBaseline == mark.validity # seenValidity
AboveMark(u) == u > mark.max

\* marks.track(): a baseline reports nothing; the mark becomes the highest UID
\* polled, or stays.
Track ==
  /\ pc = "save"
  /\ pending = {}
  /\ newUids' = IF StartsBaseline THEN {} ELSE {u \in fetched : AboveMark(u)}
  /\ \E m \in {IF StartsBaseline THEN 0 ELSE mark.max} \cup fetched :
       /\ \A u \in fetched : u <= m
       /\ StartsBaseline \/ mark.max <= m
       /\ mark' = [validity |-> seenValidity, max |-> m]
  /\ covered' = IF cachedNext > 1 /\ seenValidity = validity THEN polled ELSE covered
  /\ pc' = "plan"
  /\ fetched' = {}
  /\ UNCHANGED <<server, database, cachedNext, pending, seenValidity, page,
                 failures, polled, baseNext, rewalk, notified, walkThrew>>
-----------------------------------------------------------------------------
(* One page of history: runBackfillPage().                                 *)

\* Mutants: "cannot tell" taken for "renumbered"; a watermark trusted whatever
\* numbering it belongs to.
RenumberedUnlessKnown == syncState.uidValidity # None /\ syncState.uidValidity # seenValidity
NeverRenumbered == FALSE

\* isRenumbered(): both values known, and different
Renumbered == /\ syncState.uidValidity # None
              /\ seenValidity # None
              /\ syncState.uidValidity # seenValidity

\* backfillFloor(): the watermark, else the oldest row, else there is none
IsFloor(f) == \/ /\ syncState.lastSeen # None
                 /\ f = syncState.lastSeen
              \/ /\ syncState.lastSeen = None
                 /\ f \in Rows
                 /\ \A u \in Rows : f <= u

\* resetForRenumbering(): a write of its own, before the walk is planned
ResetWalk ==
  /\ pc = "plan"
  /\ Renumbered
  /\ syncState' = [uidValidity |-> seenValidity, lastSeen |-> None, done |-> FALSE]
  /\ rewalk' = "reset"
  /\ UNCHANGED <<server, rows, mark, cachedNext, pc, fetched, pending,
                 seenValidity, page, newUids, failures, polled, covered,
                 baseNext, notified, walkThrew>>

\* Postgres refuses to read the sync_state row, or to write it (the reset of
\* a renumbered walk, the end of a walk), or what else comes before the page's
\* fetch throws: runBackfillCycle() logs it and goes on.  A renumbering this
\* cycle has observed is then left to the next one.
PlanThrows ==
  /\ pc = "plan"
  /\ MayFail
  /\ failures' = failures + 1
  /\ pc' = "end"
  /\ walkThrew' = TRUE
  /\ UNCHANGED <<server, database, mark, cachedNext, fetched, pending,
                 seenValidity, page, newUids, polled, covered, baseNext,
                 rewalk, notified>>

\* The walk is done, there is no floor yet, or the backfill share is spent for
\* today.
SkipPage ==
  /\ pc = "plan"
  /\ ~ Renumbered
  /\ pc' = "end"
  /\ UNCHANGED <<server, database, mark, cachedNext, fetched, pending,
                 seenValidity, page, newUids, failures, history>>

\* nextBackfillPage() is null at a floor of UID 1: markComplete()
MarkComplete ==
  /\ pc = "plan"
  /\ ~ Renumbered /\ ~ syncState.done
  /\ IsFloor(1)
  /\ syncState' = [uidValidity |-> IF seenValidity # None THEN seenValidity
                                   ELSE syncState.uidValidity,
                   lastSeen |-> 1, done |-> TRUE]
  /\ pc' = "end"
  /\ UNCHANGED <<server, rows, mark, cachedNext, fetched, pending,
                 seenValidity, page, newUids, failures, history>>

\* Mutants: the page leaves out the UID below the floor; its lower end is not
\* clamped to UID 1.
PageSkippingOne(f) == [lowest |-> IF f > PageSize THEN f - PageSize ELSE 1, highest |-> f - 2]
PageUnclamped(f) == [lowest |-> f - PageSize, highest |-> f - 1]

\* nextBackfillPage(): the PageSize UIDs just below the floor
PageBelow(f) == [lowest |-> IF f > PageSize THEN f - PageSize ELSE 1, highest |-> f - 1]

\* The page just below the floor is reserved and fetched, up to the uidNext
\* the connection has cached.
FetchPage ==
  /\ pc = "plan"
  /\ ~ Renumbered /\ ~ syncState.done
  /\ \E f \in Uids, next \in Opened :
       /\ IsFloor(f) /\ f > 1
       /\ page' = PageBelow(f)
       /\ cachedNext' = next
       /\ pending' = {u \in box : page'.lowest <= u /\ u <= page'.highest /\ u < next}
  /\ seenValidity' = validity
  /\ rewalk' = "paged"
  /\ pc' = "pageSave"
  /\ UNCHANGED <<server, database, mark, fetched, newUids, failures, polled,
                 covered, baseNext, notified, walkThrew>>

\* persistPage()
SavePage ==
  /\ pc = "pageSave"
  /\ \E u \in pending : /\ rows' = [rows EXCEPT ![u] = seenValidity]
                        /\ pending' = pending \ {u}
  /\ UNCHANGED <<server, syncState, mark, cachedNext, pc, fetched,
                 seenValidity, page, newUids, failures, history>>

\* Mutants: the watermark is written before the rows of its page; the walk is
\* called complete one page early.
PageInFlight == TRUE
NearTheBottom == page.lowest <= PageSize

PageStored == pending = {}
ReachedTheBottom == page.lowest <= 1

\* setSyncState(), after the last row of the page
AdvanceWatermark ==
  /\ pc = "pageSave"
  /\ PageStored
  /\ syncState' = [uidValidity |-> seenValidity, lastSeen |-> page.lowest,
                   done |-> ReachedTheBottom]
  /\ pending' = {}
  /\ page' = NoSpan
  /\ pc' = "end"
  /\ UNCHANGED <<server, rows, mark, cachedNext, fetched, seenValidity,
                 newUids, failures, history>>

\* The page throws after its fetch: runBackfillCycle() logs it and goes on.
PageThrows ==
  /\ pc = "pageSave"
  /\ MayFail
  /\ failures' = failures + 1
  /\ pending' = {}
  /\ page' = NoSpan
  /\ pc' = "end"
  /\ UNCHANGED <<server, database, mark, cachedNext, fetched, seenValidity,
                 newUids, history>>

\* openMailbox(inbox), then the detached dispatch of INBOX's new messages,
\* which is tried once: the hook may fail.
EndCycle ==
  /\ pc = "end"
  /\ cachedNext' \in Opened
  /\ pc' = "idle"
  /\ newUids' = {}
  /\ seenValidity' = None
  /\ walkThrew' = FALSE
  /\ \/ /\ Inbox
        /\ notified' = notified \cup {<<mark.validity, u>> : u \in newUids}
     \/ notified' = notified
  /\ UNCHANGED <<server, database, mark, fetched, pending, page, failures,
                 polled, covered, baseNext, rewalk>>
-----------------------------------------------------------------------------
Environment == Deliver \/ Expunge \/ Renumber
Failure == Drop \/ Crash \/ LiveThrows \/ PlanThrows \/ PageThrows
Cycle == \/ Connect \/ Wake
         \/ FetchLive \/ SkipLive \/ SaveLive \/ Track
         \/ ResetWalk \/ SkipPage \/ MarkComplete
         \/ FetchPage \/ SavePage \/ AdvanceWatermark
         \/ EndCycle

Next == Environment \/ Failure \/ Cycle

Spec == Init /\ [][Next]_vars
-----------------------------------------------------------------------------
TypeOK ==
  /\ kind \in {"inbox", "other"}
  /\ box \subseteq 1..(uidNext - 1)
  /\ uidNext \in 1..(MaxUid + 1)
  /\ validity \in Validities
  /\ rows \in [Uids -> Validities \cup {None}]
  /\ syncState \in [uidValidity : Validities \cup {None},
                    lastSeen : Uids \cup {None}, done : BOOLEAN]
  /\ mark \in [validity : Validities \cup {None}, max : Uids \cup {0}]
  /\ cachedNext \in 0..(MaxUid + 1)
  /\ pc \in {"down", "poll", "save", "plan", "pageSave", "end", "idle"}
  /\ fetched \subseteq Uids /\ pending \subseteq Uids /\ newUids \subseteq Uids
  /\ seenValidity \in Validities \cup {None}
  /\ page \in [lowest : Uids \cup {None}, highest : Uids \cup {None}]
  /\ failures \in 0..MaxFailures
  /\ polled \in [from : Nat, to : Nat] /\ covered \in [from : Nat, to : Nat]
  /\ baseNext \in 0..(MaxUid + 1)
  /\ rewalk \in {"first", "reset", "paged"}
  /\ notified \subseteq Validities \X Uids
  /\ walkThrew \in BOOLEAN

\* Everything at or above the floor is stored (or about to be): the walk starts
\* where the live poll left off and tiles the mailbox downwards, through
\* crashes, dropped connections and failed pages (backfill.ts:240-253, 315-327).
NoGapAboveFloor ==
  \A f \in Uids, u \in box :
    IsFloor(f) /\ f <= u /\ u < covered.to => u \in Rows \cup pending

\* backfill_done is terminal, so it is set only when every message the live
\* polls have reached is stored (backfill.ts:273-283, schema.sql:117-118).
DoneMeansWholeHistory ==
  syncState.done => \A u \in box : u < covered.to => u \in Rows

\* A poll takes in every message of its window up to the newest one there was
\* when it ran, however old the connection's SELECT is (fetch.ts:139-187).
PollSeesNewestMail ==
  pc = "save" /\ cachedNext > 1 =>
    \A u \in box : polled.from <= u /\ u < polled.to => u \in Rows \cup pending

\* A message is announced at most once, through restarts, reconnections and
\* renumberings (pool.ts:861-872, new-mail-marks.ts:92-98).
NeverAnnouncedTwice == \A u \in newUids : <<mark.validity, u>> \notin notified

\* Neither history nor what arrived while the service was down is announced:
\* what is announced arrived after this process first looked at the folder
\* under the numbering in force (new-mail-marks.ts:62-80).
OnlyNewMailAnnounced == \A u \in newUids : baseNext <= u

\* The walk starts over, or its terminal flag is withdrawn, only when the
\* server did renumber: a cycle that could not tell leaves it alone
\* (backfill.ts:291-294).
WalkRestartsOnlyIfRenumbered ==
  [][ \/ syncState.done /\ ~ syncState'.done
      \/ /\ syncState.lastSeen # None
         /\ syncState'.lastSeen = None \/ syncState'.lastSeen > syncState.lastSeen
      => syncState.uidValidity # validity ]_vars

\* A folder whose walk was over when the server renumbered it is paged again
\* at all, unless there is nothing left to fetch (backfill.ts:549-557).
RenumberedFolderIsPagedAgain ==
  syncState.done /\ rewalk = "reset" =>
    \A u \in box : u < covered.to => rows[u] = validity

\* A cycle that observed the numbering in force leaves no terminal flag of
\* another one behind, or the history below the window would stay unreachable
\* for good (backfill.ts:273-283), unless its walk threw first: then the row is
\* as it was, and the next cycle that observes it withdraws the flag.
StaleDoneIsRevoked ==
  pc = "end" /\ ~ walkThrew /\ syncState.done /\ seenValidity # None =>
    syncState.uidValidity \in {None, seenValidity}
-----------------------------------------------------------------------------
(* What the scheduling and the byte budget owe the cycle: the loop goes on, *)
(* and a reservation is not refused for ever, because the counter starts   *)
(* from zero every UTC day and one poll or page always fits a day.         *)
Fairness == /\ WF_vars(Cycle)
            /\ SF_vars(FetchLive)
            /\ SF_vars(FetchPage \/ MarkComplete)

FairSpec == Spec /\ Fairness

\* Every message that stays in the mailbox is stored in the end
\* (backfill.ts:1-30).
EverythingIsStored == \A u \in Uids : u \in box ~> (u \in Rows \/ u \notin box)
-----------------------------------------------------------------------------
(* The inductive invariant behind NoGapAboveFloor and DoneMeansWholeHistory,*)
(* for a mailbox that is not renumbered.                                   *)

\* What the theorems assume of the folder's surroundings: one numbering, no
\* burst of arrivals longer than the window, and a first poll and a first page
\* that do not fail between two upserts.
SteadyFolder == /\ MaxValidity = 1
                /\ MaxBurst <= Window
                /\ ~ TornFirstPoll /\ ~ TornFirstPage

\* UIDs in the tables were assigned, and are not those of messages to come.
Assigned ==
  /\ \A u \in Rows \cup fetched \cup pending : u < uidNext
  /\ syncState.lastSeen < uidNext /\ page.highest < uidNext
  /\ cachedNext <= uidNext /\ polled.to <= uidNext /\ covered.to <= uidNext

\* What the fetch in flight observed.
InFlight ==
  /\ pc \in {"save", "pageSave"} => seenValidity = validity /\ cachedNext # None
  /\ pc \notin {"save", "pageSave"} => pending = {}
  /\ pc # "save" => fetched = {}
  /\ newUids # {} => mark.validity # None
  /\ pc = "save" => /\ pending \subseteq fetched
                    /\ fetched \subseteq Rows \cup pending
                    /\ polled.from = LowestLive(cachedNext)
                    /\ cachedNext = 1 => fetched = {}
                    /\ cachedNext <= polled.to /\ covered.to <= polled.to
                    /\ covered.to # None => covered.from <= polled.from
                    /\ \A u \in fetched : u < polled.to

\* A message below the window is polled only when it is the last one.
BelowWindowIsLast ==
  pc = "save" => \A w \in fetched, u \in box :
    w < polled.from /\ w < u => polled.to <= u

\* The complete poll stored its window; the windows only move up, and no
\* further than the next one reaches down.
CoveredIsStored ==
  /\ \A u \in box : covered.from <= u /\ u < covered.to => u \in Rows
  /\ pc = "save" => \A w \in fetched : covered.from <= w /\ w < covered.to => w \in Rows
  /\ covered.to # None =>
       /\ 1 <= covered.from
       /\ cachedNext # None => covered.from <= LowestLive(cachedNext)
       /\ covered.from <= LowestLive(uidNext)
  /\ LastSeenByPoll # None => uidNext <= LastSeenByPoll + MaxBurst

\* Nothing is stored, and no walk has begun, before the first poll.
FirstPollFirst ==
  covered.to = None => /\ syncState.lastSeen = None /\ pc # "pageSave"
                       /\ Rows \subseteq fetched

\* Without a watermark the rows are closed upwards (below the last poll), but
\* for the part of a first page that is stored already.
ClosedUpwards ==
  syncState.lastSeen = None =>
    \A r \in Rows, u \in box :
      r <= u /\ u < covered.to /\ ~ (pc = "pageSave" /\ r <= page.highest) => u \in Rows

\* With a watermark, everything from it upwards is stored.
StoredFromWatermark ==
  syncState.lastSeen # None =>
    \A u \in box : syncState.lastSeen <= u /\ u < covered.to => u \in Rows

\* The page in flight and what is above it.
PageTiles ==
  pc = "pageSave" =>
    /\ \A u \in box : page.highest < u /\ u < covered.to => u \in Rows
    /\ \A u \in box : page.lowest <= u /\ u <= page.highest => u \in Rows \cup pending
    /\ \A u \in pending : page.lowest <= u /\ u <= page.highest /\ u < cachedNext
    /\ page.lowest # None /\ page.lowest <= page.highest
    /\ syncState.lastSeen # None => page.highest < syncState.lastSeen
    /\ syncState.lastSeen = None => \A r \in Rows : page.lowest <= r

\* What INBOX's old SELECT cannot see of a page is stored already.
BeyondCacheIsStored ==
  Inbox /\ cachedNext # None =>
    /\ \A v \in Rows, u \in box : cachedNext <= u /\ u < v => u \in Rows \cup pending
    /\ \A u \in box : cachedNext <= u /\ u < syncState.lastSeen => u \in Rows
    /\ pc = "pageSave" => \A u \in box : cachedNext <= u /\ u <= page.highest => u \in Rows

DoneAtTheBottom == syncState.done => syncState.lastSeen = 1

SyncInv == /\ TypeOK
           /\ Assigned
           /\ InFlight
           /\ PollSeesNewestMail
           /\ BelowWindowIsLast
           /\ CoveredIsStored
           /\ FirstPollFirst
           /\ ClosedUpwards
           /\ StoredFromWatermark
           /\ PageTiles
           /\ BeyondCacheIsStored
           /\ DoneAtTheBottom

-----------------------------------------------------------------------------
(* The inductive invariant behind NewMailOnce, StaleDoneIsRevoked and      *)
(* WalkRestartsOnlyIfRenumbered: of a mailbox that is renumbered as it     *)
(* likes, floods and empties, and of polls and pages that fail anywhere.   *)

\* A numbering that is remembered is in force or older, and the walk never
\* remembers a newer one than the cycle at hand; what is selected is current.
NumberingsAge ==
  /\ mark.validity <= validity /\ seenValidity <= validity
  /\ syncState.uidValidity <= validity
  /\ seenValidity # None => syncState.uidValidity <= seenValidity
  /\ pc \in {"save", "pageSave"} => seenValidity = validity /\ cachedNext # None
  /\ cachedNext <= uidNext

\* New messages wait for the end of the cycle that polled them; what was polled
\* is forgotten once it is tracked.
BatchInFlight ==
  /\ pc # "save" => fetched = {}
  /\ newUids # {} => pc \in {"plan", "pageSave", "end"} /\ mark.validity # None
  /\ \A u \in newUids : u <= mark.max
  /\ mark.validity = validity => \A u \in newUids : u < uidNext
  /\ \A u \in fetched : u < uidNext

\* A poll that fetched at all has fetched the last message there was.
LastIsFetched ==
  pc = "save" =>
    /\ cachedNext <= polled.to /\ polled.to <= uidNext
    /\ cachedNext > 1 => \A u \in box : u < polled.to => \E w \in fetched : u <= w

\* What was announced is below the mark, unless it has left the mailbox; before
\* there is a mark, it is older than the connection.
AnnouncedIsBelowMark ==
  /\ \A p \in notified : p[1] <= validity /\ (p[1] = validity => p[2] < uidNext)
  /\ mark.validity # validity /\ cachedNext # None =>
       \A u \in Uids : <<validity, u>> \in notified => u < cachedNext
  /\ mark.validity = validity =>
       \A u \in box \cup fetched : <<validity, u>> \in notified => u <= mark.max

\* What is above the mark came in after the baseline.
AboveMarkIsNew ==
  /\ pc = "save" /\ mark.validity # validity => baseNext = cachedNext
  /\ mark.validity = validity =>
       /\ baseNext <= uidNext
       /\ \A u \in box \cup fetched : mark.max < u => baseNext <= u

\* The page in flight belongs to a walk that is not over, and is below it.
PageIsBelowWalk ==
  pc = "pageSave" => /\ ~ syncState.done
                     /\ 1 <= page.lowest /\ page.lowest <= page.highest
                     /\ syncState.lastSeen # None => page.highest < syncState.lastSeen

\* Only the end of a cycle knows of a walk that threw.
ThrewOnce == walkThrew => pc = "end"

MarksInv == /\ TypeOK
            /\ NumberingsAge
            /\ BatchInFlight
            /\ LastIsFetched
            /\ AnnouncedIsBelowMark
            /\ AboveMarkIsNew
            /\ PageIsBelowWalk
            /\ ThrewOnce
            /\ NeverAnnouncedTwice
            /\ OnlyNewMailAnnounced
            /\ StaleDoneIsRevoked

(* A message is announced once, and only if it came in after the folder    *)
(* was first seen: what the marks, the batches and the numberings say of   *)
(* each other, through renumberings and failures.                          *)
NewMailOnce == MarksInv /\ NeverAnnouncedTwice /\ OnlyNewMailAnnounced

(* The sync of a folder in one piece: what its rows, floor, marks and      *)
(* batches say of each other, and that a poll has taken in its whole       *)
(* window.                                                                 *)
PollInv == SyncInv /\ PollSeesNewestMail
=============================================================================
