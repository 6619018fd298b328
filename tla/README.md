# Valen Mail: models and proofs

Valen Mail is a self-hosted mail client for one person with several mailboxes.
A long-running **sync service** keeps one IMAP connection per account, copies
message headers into Postgres, serves an HTTP API and sends web-push
notifications; a **PWA client** and a **desktop shell** use that API; a small
**tracking service** (Vercel Edge functions on Neon) records hits on a pixel in
outgoing mail, which the sync service polls.

This directory holds TLA+ modules that follow the source, TLC configurations
that check them on small instances, and proofs that TLAPS checks for every value
of the constants. Paths below are relative to `src/`.

## 1. Inventory

| Part | State it keeps | Operations | What is hard about it |
|---|---|---|---|
| Per-account mutex, `sync/src/imap/keyed-mutex.ts` | a map from account to the promise of the last call | `run` | a call waits for ONE predecessor, and must thereby wait for all; a task that fails must not wedge the queue |
| Folder sync, `imap/pool.ts`, `imap/fetch.ts`, `imap/backfill.ts`, `imap/new-mail-marks.ts` | rows in `messages`, a row of `sync_state` per folder, a high-water mark in memory | live poll, page of history, marks, reset after a renumbering | the mailbox changes at every await; a crash keeps the rows and loses the mark; imapflow's SELECT grows stale; UIDVALIDITY |
| Byte budget, `budget.ts`, `imap/previews.ts`, `api/fetch-part.ts` | today's row of `byte_budget` | `reserve`, `record` | a reservation holds nothing; four kinds of spender |
| Account loop, `imap/pool.ts`, `imap/connection.ts`, `imap/backoff.ts`, `timeout.ts` | running flag, map of connections, `attempt`, dispatch chains | connect, cycle, idle, probe, disconnect, `stop` | peers that fall silent, a LOGOUT that hangs, stop while connecting, detached chains, the API on the same connection |
| Opens poll, `push/opens-poll.ts` | a watermark in `sync_state` | a tick per minute, pushes | send before write, crash in between, ties, pages that are not the whole backlog |
| Message routes, `api/message.ts`, `api/flags.ts`, `api/move.ts`, `imap/flags.ts`, `imap/move.ts` | cache of parsed messages, rows | open, flag, move | the server, the row and the cache are written one after another, beside cycles and other clients |
| Folder discovery, `imap/folders.ts`, `imap/folder-cache.ts`, `api/inbox.ts` | folders per connection and per account | LIST, choice, move and undo by path | names in the account's language that change under rows, caches and undo tickets |
| Conversations and search, `db.ts`, `api/inbox.ts`, `search/` | none | pages by two queries and a cursor, terms in SQL | the table changes between the queries; NULL under NOT |
| Follow-ups, `followup/`, `api/followup.ts` | none | classify, page | opens of another service, cut off; threads numbered per mailbox |
| Push, `push/dispatch.ts`, `push/send.ts`, `api/push.ts`, `client/src/pushSubscribe.ts`, `client/public/sw.js`, `client/src/initialView.ts` | subscriptions, dispatches under way, the notices of a device | switch on and off, a pass, pruning, show, click | the browser, the row and the pass change independently; dispatches overlap |
| Sending, `api/send.ts`, `send/`, `api/strip-pixel.ts` | hourly limiter, transports | mint, copy per recipient, answer | a copy fails in the middle; pixels come back quoted |
| Session and limits, `api/session.ts`, `api/rate-limit.ts` | a fixed window, a signed cookie | sign in, admit, verify | overlapping attempts, window edges, a deploy with another token |
| Server, `api/server.ts`, `api/static.ts`, `config.ts` | accounts table, one database handle, built files | register, listen, close, serve | who still uses the handle when it closes; a deploy under an open page |
| Tracking service, `tracking/` | tokens, opens | mint, record a hit, list | stateless functions that overlap on one token |
| Client: mailbox, `App.tsx`, `useBulkSelection.ts`, `bulk*.ts`, `messageFlags.ts` | hidden rows, overrides, ticks, undo bars | archive, bulk, star, undo | answers in any order, some refused, after the view has gone |
| Client: list, `InboxList.tsx`, `inboxPaging.ts`, `useDebouncedQuery.ts` | pages, cursor, query | page, append, retry, filter | a page of a list that is no longer shown |
| Client: bodies, `messageLoader.ts`, `messagePrefetch.ts`, `messageCache.ts` | requests, guesses, an LRU | open, guess, cancel, evict | a reader joined to a guess; slots that must come back |
| Client: composing, `Compose.tsx`, `replyDraft.ts` | one composer | reply, edit, send, retry | a body that loads late, a send answered to another composer |
| Client: opens and follow-up views, keyboard, sign-in | one poll, a selection, a cursor, a gate | poll, page, key, sign in | remounts, selections that move on, a key on a row that is not drawn |
| Desktop shell, `desktop/src` | the mail accounted for | poll, announce, wait for a click | messages that leave and re-enter the page |

How they interact: every IMAP command of an account, from a cycle, a probe or a
route, runs inside the mutex and on the account's one connection. A cycle
reserves bytes, fetches, upserts, records bytes, computes what is new, and ends
with a dispatch chain that nobody waits for but `stop()`. Routes take the lock
for their IMAP command only and touch the cache and the rows after it. The
client, and the desktop shell with the client's cookie, see the service through
its HTTP routes only: everything they show between two answers is a guess that a
later answer confirms or takes back. The service and the tracking service share
the tokens of what was sent, and the list of hits, newest first and cut off.

### What makes each part correct

- **Mutex**: exclusion and first-come order per account; nobody waits for ever.
- **Folder sync**: history and live polls tile the mailbox without a gap; the
  terminal flag means what it says; new mail is announced once, the backlog
  never; a renumbering is noticed and nothing else is taken for one.
- **Budget**: the day is not exceeded, a page of history stays within its share,
  and no page loses its previews for good.
- **Account loop**: a download keeps its connection, `stop()` leaves no socket
  and no dispatch behind, an account that never completes a cycle backs off, a
  silent peer is noticed, a shutdown ends.
- **Opens poll**: no open announced twice without a lapse, none skipped
  silently, nothing of the backlog, everything owed in the end.
- **Message routes**: rows follow the server, a cycle never undoes a change, the
  cache serves no body of another numbering.
- **Other routes**: a page of conversations is whole, once and in order; a
  negated term finds exactly the rest; silence and answers in a follow-up are
  real; every copy of a send has its recipient's token and every recipient a
  result; limits hold over any window; the database outlives its users.
- **Client**: a failure takes back all that was shown ahead of it and only that;
  a late answer disturbs nothing; whoever waits has something coming; a key acts
  on the message it seems to; a list is one unbroken run of one scope.
- **Notices**: an open recorded is one, and told as what it was; every device is
  tried, and keeps its subscription while it is alive.

## 2. Modules

A theorem module `XProofs` extends its model `X`.

| Module | Models | Proved in |
|---|---|---|
| `FifoLock` | abstract: one task of a key at a time, in the order asked for | |
| `KeyedMutex` | `run()` as a chain of promises; refines `FifoLock` | `KeyedMutexProofs` |
| `FolderSync` | one folder (INBOX or another) through cycles, the mailbox, crashes | `FolderSyncProofs` |
| `ByteBudget` | one account's day, the cycle and the API's downloads | `ByteBudgetProofs` |
| `AccountLoop` | `runAccount`, `idleLoop`, connections, requests, shutdown | `AccountLoopProofs` |
| `OpensPoll` | hits, pages, poll cycles, watermark, devices, restarts | `OpensPollProofs` |
| `MessageOps` | rows, server and cache under cycles and routes | `MessageOpsProofs` |
| `BoundedCache` | abstract: a cache that may refuse and forget, and never lies | |
| `MessageCache` | the client's least recently used cache by bytes; refines `BoundedCache` | `PartsProofs` |
| `MailboxMoves` | optimistic moves, batches, undo | `PartsProofs` |
| `FlagOverrides` | flags shown before they are written | `PartsProofs` |
| `InboxPages`, `Keyboard` | the client's list and keys | `MCPartsProofs` |
| `ReaderFetch`, `SessionGate`, `Compose` | the client's bodies and guesses, its sign-in, its composer | `PartsProofs` |
| `OpensFeed` | the client's opens rail | `PartsProofs` |
| `OpenTargets`, `FollowupView` | the message of an open, the follow-up queue | `MCPartsProofs` |
| `Conversations` | a page of conversations, from two queries | `MCPartsProofs` |
| `SearchTerms` | what a search text finds | `MCPartsProofs` |
| `Followup` | the answer about what waits for a reply | `PartsProofs` |
| `FolderNames` | folders found under names that change | `MCPartsProofs` |
| `SendMail` | copies, tokens and the limiter of sends | `MCPartsProofs` |
| `SendContract` | limits of both sides | `PartsProofs` |
| `SentPixel`, `Tracking` | pixels that travel; hits | `PartsProofs` |
| `SessionRoute`, `Server`, `StaticFiles` | sign-in and cookie; start and shutdown; files over deploys | `MCPartsProofs` |
| `PushSubscriptions`, `NewMailPush`, `Desktop` | devices and their rows; what they are told; the desktop's notices | `PartsProofs` |
| `Parts` | the cache and the other parts of client and service, as instances whose sizes are constants | |
| `MCParts` | `Parts`, each part on a small instance, in one run | |

`PartsProofs` extends `Parts`; `MCPartsProofs` extends it and `MCParts` and ends
with the composition.

The modules meet in the lock. `KeyedMutex` shows that the promise chain is one;
`ByteBudget`, `FolderSync`, `AccountLoop` and `MessageOps` use it as a variable
that says who is inside.

### How state and actions correspond to the code

One step is what a single-threaded event loop runs between two I/O events.
What a `catch` block does synchronously belongs to the step of the rejection.

**KeyedMutex.** `tails` is the map, `previous` the promise a call found there,
`phase` how far its own has come. `Run` is the synchronous part of `run()`,
`Start` the reaction on `previousSettled`, `Settle` the end of the task.
`ticket` is history: the order of the calls.

**FolderSync.** `rows` is `messages` reduced to which UID was stored under which
numbering; `syncState` is the `sync_state` row; `mark` is `NewMailMarks`;
`cachedNext` is imapflow's cached `uidNext`, which does not move while INBOX
stays selected. `FetchLive`, `SaveLive`, `Track` are `syncFolder()`;
`ResetWalk`, `SkipPage`, `MarkComplete`, `FetchPage`, `SavePage`,
`AdvanceWatermark` are `runBackfillPage()`; `LiveThrows`, `PlanThrows`,
`PageThrows`, `Drop` and `Crash` are the failures. `PlanThrows` is all that can
throw before the page's fetch, the read of the `sync_state` row and the write of
the reset among it: it is logged and the cycle goes on, and `walkThrew` remembers
it to the end of the cycle. Messages arrive, go, and are renumbered at any
point, except that a mailbox is never renumbered while it is selected.

**ByteBudget.** `used` is today's row, `holder` the lock, `op` what a caller is
doing and how many messages it still has to pay for. One unit is 1024 bytes, the
estimate of a preview. `Throw` is a failure whose bytes are never recorded: the
code charges after the fetch, so a fetch that fails is free.

**AccountLoop.** `loop` is the point `runAccount()` has reached, with `attempt`
and the newest connection; `conn` every connection the account has had; `api` a
download; `chains` are the dispatches: those `stop()` drains and those launched
after it has looked. `phase` is `createShutdown()`.

**OpensPoll.** A hit is stamped with the clock and inserted later (`Stamp`,
`Record`), so inserts need not commit in the order of their times. `ticks` are
cycles in flight; `RunTick` holds the guard of `inFlightTick`. `Read`, `Load`,
`Send`, `Write` are the watermark read, the subscriptions, each push and the
watermark write. `fate` is history: why a hit may go unannounced (it was there
before the first run, it came in behind or at a time a cycle had been shown, or
fell off the page).

**MessageOps.** `box` is what the server holds of each message, `rows` what the
table does, each reduced to one flag; `cache` is `MessageCache` reduced to the
numbering an entry is marked with and the one its body is of; `lock` is the
account's. `Fetch`, `Upsert`, `CycleDone` are `syncFolder()`, `Land`, `Answer`,
`WriteRow` a PATCH of flags or a move, `Open`, `Download`, `Store` the opening
of a message. `excused` is history: UIDs whose row may disagree with the server
because another client changed the message, the mailbox was renumbered, an
answer or a row write was lost, or a second change overtook the first.

**MessageCache.** A JavaScript `Map` iterates in insertion order, so `order`
lists the keys, oldest first; `total` is `totalBytes`. `Get` re-inserts, `Set`
replaces and then evicts from the oldest end, `Evict` drops one key. `Content`
maps it to `BoundedCache`; `ReaderFetch` uses the cache only as that promises.

**MailboxMoves.** `where` and `ver` are the server (a move back gives a message a
new UID), `rows` and `hidden` what is drawn, `ops` the requests of each action,
each served and answered in two steps. `BulkMoveSettled`, `Answered` and
`OneMoveSettled` are what the promises' handlers do, `Claim` what `bulkRunner`
does per free slot. `gen` is `generationRef`, which `markSeen` takes too, so
`MarkSeen` stands in this module with its effect on the bars and in `FlagOverrides`
with its overrides and requests. A `trial`, chosen at the start, says which messages are of one
conversation and how many requests of a batch are out at once: the run tries one
conversation of two messages, moved one at a time, and two conversations moved at
once.

**FlagOverrides.** `override` is one of the two maps of `messageFlags.ts`; a call
is one gesture with the keys still out. **InboxPages.** `list` is the state of
`InboxList`, `reqs` its fetches, each with the scope and token it was made for;
`App`'s `rows` and `cursor` follow through `Report` and `Reconcile`.
**ReaderFetch.** `shared` is the registry of `messageLoader`, `active` and
`queue` the prefetcher, `reader` what the reader waits for. **Compose.**
`composer` is the mounted element with its draft, `loads` bodies asked for by a
reply, `sends` drafts under way. **SessionGate.** `attempt`, `probes` and
`pending` are `useSessionGate`'s closures.

**Keyboard.** A key is resolved against the rows last reported; `last` is history:
what the key did and which rows it moved that nobody was shown. **OpensFeed.**
`polls` and `timer` are the effect's; `Winning` and `Episodes` are
`groupOpens()`. **OpenTargets.** `index` is the message index, keyed by account
and UID. **FollowupView.** A request carries the `selection` it was made for.

**Conversations.** `AskPage` and `AnswerPage` are the two statements of a page,
with any change of the table in between; `Sightings` is the loop that places each
conversation where it is first met. `Key` is `conversationKey`: a message without
a thread is keyed by its UID, and not by its folder, so one of the inbox and one of
the Sent folder can share a conversation, which a search then finds twice
(`Doubled`). **SearchTerms.** A row's columns may be
missing; a term is evaluated in SQL's three values. **Followup.** The opens are
read in one step and joined in a later one. **FolderNames.** `connection` and
`account` are the two caches; the language changes on the server.

**SendContract.** `Attachable`, `CapReferences`, `WillDegrade` are the client's,
`Receive` the parser of the route; a text is its length, and where the route looks
for control characters (ids, the label of a quote) whether it has one.
**SendMail.** A job goes
through limiter, mint and one copy at a time; `SentPixel` follows the pixels of
the copies through quotes and views. **SessionRoute.** `CheckSignIn` and
`AnswerSignIn` are the two sides of the handler's await. **Server.** `phase` is
`start()` and `createShutdown()`; `detached` are handlers whose client hung up.
**StaticFiles.** `files` outlive a deploy as the rsync leaves them.

**PushSubscriptions.** `step` is where `enable()` or `disable()` has got to,
`pass` the dispatcher's loop, `lookup` what became of the last `getSubscription`.
**NewMailPush.** `chains` are the dispatches that
cycles start and do not wait for; `screen` is what a device shows, one notice for
each `Tag`, and `told`, `clicked` and `mixed` are history. **Tracking.** Each hit is a function in flight:
clocked, judged, counted, recorded. **Desktop.** `accounted` is `MailWatch`,
`waiting` counts the threads that hold a permit. A message is a UID, as for the
shell: one that is moved out and back arrives under another, with whatever date it
has, and `Renumber` deals all of them out again.

## 3. Runs

Every constant that only bounds a run is called a bound where it is declared.

| Run | Instance | What it shows |
|---|---|---|
| `keyed_mutex` | 4 calls, 2 accounts | exclusion, order, refinement of `FifoLock`, every call begins |
| `folder_sync` | window 2, page 2, 4 UIDs, one failure | `PollInv` (the inductive `SyncInv`, newest mail seen), no gap, terminal flag |
| `folder_sync_renumbered` | 3 UIDs, 2 numberings, one failure | announced once and only new mail, flag withdrawn unless the walk threw, no needless walk |
| `folder_sync_live` | window 1, page 1, 3 UIDs | every message that stays is stored |
| `byte_budget` | cycle and 2 requests, a day of two polls | the day, the share, the previews |
| `account_loop` | 1 account, 3 connections, 2 failures in a row, 2 chains | downloads, sockets and chains at the stop, ladder, silence, end |
| `opens_poll` | 3 hits, page of 2, 1 device, 1 failure, 1 lapse | once, not skipped, silent backlog, sent in the end |
| `message_ops` | 1 message, 2 changes, 2 openings, 2 numberings, 2 troubles | rows, bodies and eviction, rows catch up |
| `parts` | 25 modules, each on an instance of its own, as `Parts`, `MCParts` and the configuration give them | eleven invariants and three action properties of the client, the routes and the tracking service, the inductive invariants of `PartsProofs`, and the refinement of `BoundedCache` |
| `folder_sync_v_*`, `followup_v_thread` | as above; two accounts, one thread number | what a comment says and the code does not do, see section 6 |

A property that names two or three others is their conjunction (`PollInv`,
`NewMailOnce`, `DayInv`, `StopInv`, `BacklogInv`, `BodiesInv`, `MutexInv`, and
all of `MCParts`). Each of the named parts is a definition with its own comment
in the module it is about.

### How `parts` is built

A behaviour of `MCParts` is a behaviour of one part: `part` is chosen at the
start, `v1` .. `v15` are that part's variables, in the order of their
declaration, and only that part's `Next` is enabled. `MessageCache` is extended
rather than instantiated, so that its refinement is checked as it is proved.
The instances that are proved about stand in `Parts`, with every size a constant
that the configuration gives a value: the run and the theorems are about the
same definitions. `PartsTypeOK` holds their inductive invariants (`MovesInv`,
`OverridesInv`, `PagesInv`, `GateInv`, `FetchInv`, `ComposeInv`, `ContractInv`,
`FeedInv`, `KeysInv`, `PushInv`, `ViewInv`, `NoticesInv`, `ShellInv`, `NamesInv`,
`SearchInv`, `SendInv`, `ServerInv`, `SessionInv`, `FilesInv`, `BeaconInv`,
`PixelInv`, `FollowupInv`, `ConversationsInv`, and the exact count of the cache),
so TLC checks what the proofs rest on.
The parts are not composed there: each has in its own `Next` what it sees of
the others (the server of `MailboxMoves` refuses, loses and delays; other
clients move mail; the hits of `Followup` arrive while it reads). What a
property says is `part = "..." => Part!Property` for each of its parts, so a
violation names the part it is of. One run for all keeps the question of each
property in one place: who may be waiting, what is shown too early, which late
answer may do harm.

### Why these bounds are enough

- A chain of three behind a running call is the shortest in which waiting for
  one predecessor and waiting for all differ; a second key separates chains.
- Four UIDs with a window of two and a page of two give a live window, a full
  page, and a torn or short last one; one failure at any point is a crash
  between any two steps, after which all the rest may happen again.
- Two numberings are one renumbering; that is enough for a mark, a watermark and
  a terminal flag of the old one to meet the new.
- A day that holds a little over two polls lets each spender be the one refused.
- Three connections let an old LOGOUT hang beside a new connection that fails
  too. Accounts share nothing but the shutdown, so the run has one; the theorems
  hold for any number.
- Three hits and a page of two let one fall off the page; two milliseconds make
  ties and late inserts.
- In `message_ops` messages meet only in the cycle and the lock: one message
  keeps the run small, and the theorems are for every set of messages and any
  window.

- In `parts`: two messages and two actions are the least in which a second batch
  can be answered before the first; two pages of two, with new mail in between,
  the least in which a page can be late or overlap; one slot and one place in
  the queue make every guess compete with the reader; three bodies of weights 1,
  2 and 4 in a budget of 5 make a store evict one, two or be refused; three
  requests over two windows make a limiter's edge; a dedupe window of two ticks
  holds a hit clocked before, at and after another; two languages are one
  renaming; three parts of one mail, quoted once, carry a pixel home; three pieces
  of news from two accounts, one with an id too long for the tag, are a dispatch
  of two messages and another beside it.
- `Server` has two accounts and two starts: the least in which the file's primary
  account can have changed. `Conversations` has four messages in two threads or in
  none, with two UIDs that both folders may give, so that a conversation can straddle a
  page while another one changes, and one of the inbox can merge with one of Sent.
  Two such messages of one UID *and* one date, whose order INBOX_ORDER leaves open,
  are left out.

The bounds `MaxBurst <= Window`, `~ TornFirstPoll` and `~ TornFirstPage` of the
passing folder runs are not there for size: without them `NoGapAboveFloor` is
false of the code, as the violation runs show.

### Fairness

Nothing in Node's event loop starves a settled promise or a due timer, so each
step of a promise chain is weakly fair. Stronger assumptions, and why:

- `KeyedMutex`: a task ends. The mutex has no timeout; imapflow's and the code's
  own timeouts bound the tasks.
- `FolderSync`: strong fairness for the live fetch and the page: a reservation is
  refused only until the next UTC day, and a poll or page always fits a day.
- `AccountLoop`: strong fairness of taking the lock, which `KeyedMutex` justifies
  (it is first-come, first-served); `LogoutTimesOut` is this code's own timer.
- `OpensPoll`: the timer ticks, a fetch ends, a service that went down comes up
  (`Restart=always`).
- `MessageOps`: strong fairness of a cycle's fetch, which waits for the lock;
  a request that is under way ends.

No run assumes that the network, the peer or the database behaves: their
failures are actions without fairness, limited only by the named bounds.

`MCParts` states no fairness and checks no liveness. Where one of its parts could
wait in vain, the property is the safety that makes waiting safe: whoever waits
has a request, a timer or a slot that will end it (`NobodyWaitsInVain`). It
turns deadlock checking off, because a part stops when its bounds are used up.

## 4. What is proved

All theorems are about `Spec`, for every value of the constants that meets the
named assumptions of the module. The argument is always the same: an inductive
invariant that TLC checks first, one lemma per action, and the properties as
consequences of it.

- **KeyedMutex.** `ChainInv`: the map holds the last call of its key, and a call
  is chained onto the one made just before it. Exclusion alone is not inductive;
  with the chain, waiting for one predecessor is waiting for all. Hence
  `MutexIsExclusive` and `MutexImplementsFifoLock`, a refinement.
- **FolderSync.** `SyncInv`: the covered range of the last complete poll is
  stored, rows are closed upwards until there is a watermark and stored from it
  upwards afterwards, the page in flight tiles what is below, and what INBOX's
  stale SELECT cannot see is stored already. Proved under `SteadyFolder` (one
  numbering, bursts within the window, no torn first poll or page), from which
  `NoMessageIsSkipped`, `DoneIsComplete` and `PollIsComplete`.
  `MarksInv` is a second one, proved without `SteadyFolder`: of a folder that is
  renumbered at will, bursts, and fails at any step. "Announced once" says
  nothing of the mark, so it is not inductive; it takes that numberings only
  grow, that a poll which fetched at all fetched the last message there was (the
  mark is the maximum of a batch, so a batch without the last message would leave
  it too low), that what was announced under the numbering in force is not above
  the mark, and that what is above it came in after the baseline. Hence
  `MailIsNewOnce` and `StaleDoneGoes` (the flag of another numbering survives a
  cycle that saw the new one only if its walk threw); with the page in flight below a walk that
  is not over, `WalkGoesDown`, of every step.
- **ByteBudget.** `BudgetInv`: only the holder of the lock is at work, and what
  it may still record fits. It turns an advisory reservation into one. Hence
  `DayIsBounded`, `PagesKeepTheirPreviews`, `RestIsForNewMail`.
- **AccountLoop.** `AccountInv`: the lock is honest, only the newest connection
  can be commanded, late chains come from an abandoned LOGOUT, `attempt` counts
  fruitless connections. Hence `DownloadsAreSafe`, `StopIsThorough`,
  `ChainsAreDrained`, `LadderIsClimbed`.
- **OpensPoll.** `OpensInv`: one cycle at a time, its batch is above the
  watermark, what the watermark has passed was sent, excused or forgotten. Hence
  `NoSecondBuzz`, `NoOpenIsSkipped`, `TheBacklogIsSilent`,
  `TheWatermarkAdvances`.
- **MessageOps.** `OpsInv`: what a cycle fetched stays current under the lock, a
  change stands until its row is written, tags are older than bodies, a body of
  a message that has gone is still to be evicted. Hence `RowsAreTrue`,
  `BodiesAreOfThisNumbering`, `MovedBodiesAreEvicted`.
- **MessageCache** (like the rest in `PartsProofs` or `MCPartsProofs`). `EntriesOK`: what the map
  holds under a key of the cache is a body with its size. A lookup is then a
  stutter of `BoundedCache`, an eviction drops one key, and a store puts one body
  and drops what the loop pushed out, whichever that is: `CacheImplements`, a
  refinement, for every budget and size function. That the count of bytes is the
  sum of what is held (`CountIsExact`) takes lemmas about sums over finite sets,
  proved by induction on their size (`Total`, `TotalSplits`); from it, what the
  loop pushes out is the shortest run of the oldest that makes room, so a body
  that goes was used before every one that stays (`OldestGoFirst`).
- **MailboxMoves.** `MovesInv`: a key the client holds is of a version the message
  has had, so what has left the mailbox under it cannot come back under it; each
  key of a batch is done, failed, out or still to be sent, and what the batch
  says of it is true of the mailbox; a hidden row waits for a move that holds it,
  or was moved. "Nothing is hidden by a failure" alone is not inductive: a
  failure shows only its own rows again, so it takes that every other hidden row
  belongs to a batch still under way, and that a server's "gone" stays true until
  the answer is read. Batches are kept in a sequence and each runs through its own
  slots, so the lemmas say what one batch knows, and what an answer makes of it. A
  bar, while it stands, speaks of the last batch of moves or undos begun; that every
  batch gets one is not true of the code, see section 6.
- **FlagOverrides.** `OverridesInv`: an override is of a value the server has
  accepted, or one that a call not yet settled may still see accepted or drop; and
  until a write fails, what the reader asked for last *is* the override. "At rest
  it is confirmed" is not inductive by itself: a second gesture on the same message
  overwrites the override while the answer to the first is still out, and its
  failure takes back an override it did not set.
- **SendContract.** `ContractInv`: what is on the wire is the `Wire` of a draft
  that passed every check of the composer. The rest is about the operators, for
  lists of any length: each total is at least each of its parts and of the totals
  before it, so a list that is within the composer's limits is within the route's
  at every prefix, and `CapReferences` keeps the root and the message answered
  whatever it drops. What the route still refuses is an id too long or with a
  control character in it, and the label of a quoted sender who has no name and
  such a character in the address (`LetThroughIsTaken`). The totals are recursive functions; see "Only model-checked"
  for what that takes.
- **Compose.** `ComposeInv`: replies are numbered and only the last is current, a
  composer is keyed by its source and written for it, an instance is newer than
  every send of another, and a copy is out only for a request that was asked. So a
  late answer finds the composer it left, or a stranger it may not speak to.
- **SessionGate.** `GateInv`: only the current attempt can wait for a sign-in, and
  its probes are retries exactly when its check is over. With two mounts under
  StrictMode, a retry and probes answered in any order, that is what keeps a
  login form from waiting for an attempt that has gone.
- **ReaderFetch.** `FetchInv`: what runs or waits as a guess was not aborted, and
  nothing waits twice or runs and waits. Without it a freed slot could be given
  to a request that will not give it back. The prefetcher's calls nest (`pump`
  inside `settled` inside `cancel`), so their lemmas are about the state as one
  value and compose.
- **OpensFeed.** `FeedInv`: the view, the kind remembered of it and the live
  region go together; a poll of an earlier mount is not heard; no two events are
  of one instant and what is drawn was recorded, so of the events of an episode
  one wins, and a confirmed one is among those that can.
- **Tracking.** `BeaconInv`: a hit in flight knows how far it has come, and what
  it will record keeps its distance from what was stored when it looked. Hits
  overlap, so "two opens are a window apart" is not inductive of what is stored
  alone: it takes what a hit that has looked and not yet recorded has seen.
- **SentPixel.** `PixelInv`: tokens are numbered as they are minted, each copy's
  pixel is its recipient's, and what is quoted carries what its original did less
  what `Strip` takes out. What stripping leaves is a recursive function, and its
  lemmas are by induction on the length.
- **Followup.** `FollowupInv`: hits are kept in the order of their times and none
  before its message, so a full window of the newest holds *every* open of any
  message sent no earlier than its oldest. That is why the horizon makes silence
  real, whatever arrives between the read and the join.
- **FollowupView.** `ViewInv`: what is out for the present selection is of the
  account shown, the first page or the one at the cursor, and each row up to the
  cursor is loaded, once. A page for an earlier selection may come at any time
  and is told by its number.
- **InboxPages.** `PagesInv`: what is out for the present selection is of its
  scope and alone, the first page or the one at the list's cursor; no request is
  of a later selection, and an empty list has no cursor. So an answer that is
  taken joins the run where it ends, and a spinner has the request that ends it.
  `CursorFollows` is of every report of rows.
- **Keyboard.** `KeysInv`: the ticked rows are rows of the last report and the
  cursor is within them, through every key, report and change of view; hence
  what a key moves was drawn, as long as the list is.
- **Conversations.** `ConversationsInv`: of the conversations nothing happened to
  (and, in a search, that are not `Doubled`), those whose representative is not below the cursor are loaded, whole and once,
  and no others; of two of them the newer stands before every listed message of the
  older; and the page in the making has exactly those from its own cursor up to
  the client's. "Whole and once" is not inductive by itself: a page is two
  statements with changes of the table between them, so it takes what the first
  statement knew, of the conversations that no change has touched since. A page is
  a sorted list of a set (`OrderIsSorted`), its groups are the sorted lists of the
  groups (`MembersInOrder`), and what is drawn keeps the order in which the
  conversations were first met (`SightingsAre`), so the order drawn is that of the
  pages, for lists of any length.
- **OpenTargets.** Of the messages with the identifier of an open, one of the
  account and of a folder that looks like Sent is chosen before any other.
- **SearchTerms.** `SearchInv`: the rows are those of the text. A negated token
  is classified as its own token with the sign turned, and `Negate` never leaves
  a missing value, so the two answers part the mailbox; both sides read a token
  alike but for a size that is too large.
- **PushSubscriptions.** `PushInv`: the endpoint a route is called with is one the
  browser had, and the one about to be deleted is not its subscription now or
  ever again; the switch is busy as long as a toggle is under way; and a pass has
  each pair of row and message before it or behind it, whatever prunes the rows
  meanwhile.
- **NewMailPush.** `NoticesInv`: what a device shows or was clicked is news it was
  told (`ShownWasTold`); a dispatch has the news of one account before it, in order
  (`ChainsAreOrdered`); an account that never had two dispatches at once has at
  most one (`AloneUnlessMixed`), and nothing told of it is newer than what that one
  still holds (`NothingIsAhead`). "The newest stays" alone is not inductive: it
  says nothing of what is still to be sent. The lemmas about `Tag` say which news
  shares a notice, which is where short account ids come in.
- **Desktop.** `ShellInv`: a new message gets a UID no page has shown
  (`NumbersAreGiven`), and a UID that was on a page the shell took, since the last
  renumbering, is accounted for under its date as long as it could be announced
  (`ShownAreAccounted`), through pruning, caps, and pages it was absent from. So
  "announced at first sight or never" holds of any UID in any inbox, and the
  permits bound the waiting threads.
- **FolderNames.** `NamesInv`: a folder found under a kind is the mailbox of that
  use in *some* language, rows are of folders that are synced, and the kind an undo
  ticket names is the use of the mailbox the message came from. So the undo finds
  that mailbox under whatever name it has by then, or is refused.
- **SendMail.** `AccountInv`: the tokens a request holds are those minted for its
  own recipients, in order; what was tried has a result each; a copy that left
  belongs to a request that passed the mint. `LimiterInv`: the window counts all
  it admitted, the window's length before it saw at most one budget, and whoever
  was refused was told a time past the end of the window that refused. A bound
  over *any* stretch follows because a stretch as long as the window meets at
  most two windows.
- **SessionRoute.** `SessionInv`: failures and sign-ins under way together stay
  below the limit plus what may be pending, since each that is under way may
  still become a failure of the present window.
- **Server.** `ServerInv`: what is registered so far is the file's (the marks of
  the last start are cleared before the first upsert), and what the shutdown has
  closed it has closed in order.
- **StaticFiles.** `FilesInv`: the files are of one build, and a cache keeps
  nothing but hashed assets, each with its own content.
- **MCParts.** A step of the composition is a step or a stutter of its part
  (`OnePartSteps`), so the invariants of the parts make one of the whole,
  `PartsInvariant`, and the gathered properties follow: `WaitersAreServed`,
  `ServiceHolds`, `SendsHold`, `LimitersHold`, `OptimismHolds`, `DraftsHold`,
  `DevicesHold`, `FoldersKeepTheirNames`, `OpensAreReal`, `OpensAreToldAsTheyWere`,
  `ListsHold`, `PartsKeepTheirTypes` and, of every step, `NothingIsHasty`,
  `LateAnswersDie` and `RightOneIsPicked`.

The conjunctions the runs check are theorems of their own (`MutexHolds`,
`PollHolds`, `DayHolds`, `StopHolds`, `BacklogHolds`, `BodiesHold`), from the
theorems of their parts.

### Assumptions

`SteadyFolder` (above) is the only one about behaviour, and the violation runs
show why it is needed. The rest are about constants: bounds and limits are
natural numbers, positive where the code divides or counts by them; sets that are
counted are finite; a placeholder (`None`) is no value of the set it is added to;
a page meets a bound of at least two attempts, because StrictMode mounts twice; a
composer has some recipient to write to; a page has room for one conversation, as
`parseLimit` sees to; the drafts a run tries are drafts; no account is called
"opens", the word that marks a dispatch of opens; the user of `SentPixel` is none
of the others, and a mail has at least one part; the folders of the keyboard
include those its chords open first, and the list's its inbox; no entry of the
cache may be larger than the cache; whoever fetches a pixel is of a kind that the
classification knows.
TLC evaluates them on every run. A limit of 0 is not excluded for sends.

### Only model-checked

- Liveness (`EveryCallBegins`, `EverythingIsStored`, `DeadPeerIsNoticed`,
  `ShutdownEnds`, `EveryOpenIsSent`, `RowsCatchUp`): out of the prover's reach.
- Induction over data. The library's theorems of induction take an operator as a
  parameter and cannot be cited. Where a recursive function must be reasoned about
  (the totals of `SendContract`, `At` of `NewMailPush`, `Strip` of `SentPixel`,
  the bytes of the cache, a list without some of its members, the pages of
  `Conversations`), `InductNat` proves
  induction over a *set* of numbers from the existence of least elements, and
  `RecursionExists` that such a function exists; the modules write their filters
  and sums as functions of that shape. A sort is one of them too: it takes the
  entries of a set by falling number, a number standing for one message. The client
  sorts the members of a conversation once more (`newestFirst`), which changes
  nothing of one that is loaded whole: `Whole` is in that order.

## 5. What is not modelled

- Text: MIME, charsets, subjects, notification wording, HTML, the tokenising of
  a search text.
- Which messages a preview is fetched for; labels and every column of
  `messages` that no property is about; the byte accounting of the service's own
  `MessageCache` (`api/message-cache.ts`), whose trimming is the loss of any
  other entries in `MessageOps`.
- How a push service queues, delays and reorders: a push shows at once or never.
- HTTP routing, body limits, headers; drawing and layout;
  windows, tray and navigation of the desktop shell.
- A folder whose server reports no UIDVALIDITY.
- Client and service in one state space: each side models the other as an
  environment that answers late, refuses, or is lost.

## 6. Where the code and its comments disagree

Each of the first three is a run that TLC finds violated.

1. More than a window of mail between two completed polls leaves a gap above the
   floor that no page revisits (`folder_sync_v_burst`).
2. A first page of history that stops between two upserts leaves rows but no
   watermark, and the next floor is one of its rows
   (`folder_sync_v_torn_page`). A first live poll that stops half way does the
   same; `TornFirstPoll` is there for it.
3. `hasReply` joins on `thread_id` alone, so mail received in one account can mark
   a message of another account as answered (`followup_v_thread`,
   `followup/query.ts:77` against `db.ts:684-693`).

Properties that are written in the modules and fail, but belong to no run:

- `RenumberedFolderIsPagedAgain` (`FolderSync`): a finished folder that is
  renumbered is marked complete again without a page (`imap/backfill.ts:545`).
- `NoCycleOutlivesStop` (`AccountLoop`): `stop()` waits for no cycle, so one may
  store rows after it has resolved (`imap/pool.ts:416`).
- `OnlyInboxIsMoved` (`MailboxMoves`): the batch path never asks `canMoveFrom`, so
  `e` and `#` move a conversation out of Sent (`App.tsx:1092` against
  `mailboxActions.ts:102`).
- `OnlyShownIsMoved` (`Keyboard`): rows, cursor and ticks outlive the list, so
  `e` and `#` move mail nobody sees from the opens and follow-up views
  (`App.tsx:1267`, `bulkSelection.ts:125`).
- `NoDraftLostUnasked` (`Compose`): `App.tsx:702-708` promises a question before a
  draft is thrown away; a dirty inline reply is lost without one, and a send that
  resolves after its composer has gone closes a new one.
- `NewestAlwaysStays` (`NewMailPush`): dispatches of one account overlap
  (`imap/pool.ts:755`), so an older reply can take the place of the newest, which
  `push/dispatch.ts:238-244` says replaces the older ones.
- `OneRowPerWindow` (`Tracking`): two overlapping hits are both recorded.
- `NoHandlerWithoutDatabase` (`Server`): handlers whose client hung up outlive
  `server.close()`.

Further, seen while modelling:

- `api/move.ts:194` says that a row that could not be dropped may reappear until
  the next cycle; no cycle deletes rows, so it stays.
- `api/opens.ts:190` clears its abort timer when the headers are in and reads the
  body without one, and a cycle that waits there holds up every later one.
- `push/opens-poll.ts:17` names ties and bursts as what the poll may miss; an
  insert that commits behind a newer one is a third case.
- `imap/pool.ts:397` says that an account holds exactly one connection; the
  LOGOUT of a failed one is not waited for, so an old socket may overlap the new.
- A cycle that observed a renumbering ends with the old flag if the read of the
  `sync_state` row or the write of the reset throws (`imap/backfill.ts:449`, `572`,
  logged at `671`); a later cycle withdraws it.
- A cycle whose live reservation was refused passes no UIDVALIDITY on, so a walk
  that ends in it writes a terminal row that no renumbering can revoke
  (`imap/backfill.ts:594`).
- A fetch that throws half-way has cost bytes that nobody records.
- After a renumbering a row keeps the snippet of the message that had its UID
  (`db.ts:745`).
- A cached entry without a numbering outlives a renumbering; a request that was
  parsing when its message was evicted stores it again (`api/message.ts:418`).
- Flags, moves and undo address a message by UID without a UIDVALIDITY, and the
  client's index of messages leaves the folder out of its key.
- Rows under a folder's name in another language stay, and no view lists them.
- Two undo bars can be offered at once; an archive after an undo, with the stale
  UID, hides a row that is still in the inbox; star writes are not serialised.
- `markSeen` takes a generation of the counter that guards the summaries of moves
  (`useBulkSelection.ts:455`) and leaves the bar alone, so a move still in flight
  loses its notice and its undo to a selection marked read, and an older bar stays.
- A message without a thread is meant to be "a conversation of ONE"
  (`db.ts:696-701`), but its key is its UID without the folder: one of the inbox and
  one of Sent with the same UID are drawn as one conversation, and a search finds
  it twice.
- A reader joined to a guess is given its error when the guesses are cancelled.
- Once authorised, a 401 never brings the login back; a dismissed session error
  hides a later identical one.
- `FollowupView` keeps its spinner if the account changes during "Load more", and
  says nothing is waiting while pages are left.
- A push subscription whose save fails leaves the browser subscribed without a
  row; a rejected permission request leaves the switch busy; a failed lookup draws
  the switch off while the browser stays subscribed, though `pushSubscribe.ts:175-183`
  calls "not subscribed" the truth in that case.
- A notice's tag is cut at 64 characters (`push/send.ts:78`): with an account id of
  more than some 37 the thread's number is lost, and unrelated mail of the account
  shares one notice.
- Registration fails on every start once the account file swaps two addresses.
- Concurrent hits can exceed the cap on rows; the burst rule and the kind `self`
  are unreachable; `sentAt` is the time of the mint.
- A reply to a message whose References hold an id of more than 256 characters, or
  a control character, is answered 400; so is one that quotes a sender without a
  name and with a control character in the address, which `replyDraft.ts:171` strips
  only behind a name, though `158-163` promise it of every label.
- A size beyond 2^53 is drawn as a chip by the client and searched as text by the
  service.
- An operator or a value named like a property every object inherits
  (`constructor:x`, `is:constructor`) is found in the tables of `search/terms.ts`
  (295, 299, 306), and the search fails.
- On the desktop an archive with its undo, or a renumbering, gives a message another
  UID, and with it a second notice while it is recent (`mailwatch.rs:185`).
- The desktop's baseline covers the newest 25 rows only, and a sign-out with a
  sign-in between two polls takes no new one.

## 7. Plan

Done: the core of the sync service with its theorems, renumberings included; the
client, the routes, the tracking service and the desktop shell, model-checked in
`parts`, with theorems about all of those parts, so that every safety property
of a passing run is a theorem; two refinements, both proved.

Next, the most important first:

1. A notification log as the abstract specification of `NewMailPush`,
   `OpensPoll` and the marks of `FolderSync`, which are three parts of one path.
2. One composition of client and service around a move: `MailboxMoves` on the
   client's side, `MessageOps` and `FolderNames` on the other.
3. The byte accounting of the service's cache, as a second refinement of
   `BoundedCache`.
