----------------------------- MODULE OpensPoll -----------------------------
(***************************************************************************)
(* Push notifications for opened mail: the tracking service that records   *)
(* hits on the pixel (tracking/api/o/[token].ts, tracking/src/db.ts), the  *)
(* poll that reads its newest page once a minute and keeps a watermark     *)
(* (sync/src/push/opens-poll.ts), the dispatch to every subscribed device  *)
(* (sync/src/push/dispatch.ts), and the process that stops, crashes and is *)
(* started again (sync/src/api/server.ts, Restart=always).                 *)
(*                                                                         *)
(* One step is what runs between two awaits.  A hit is on its way between  *)
(* the reading of the clock (Stamp) and its insert (Record), so inserts    *)
(* need not commit in the order of their times.                            *)
(***************************************************************************)
EXTENDS Integers, FiniteSets

CONSTANTS
  Hits,      \* fetches of a tracking pixel, of several recipients
  Worthy,    \* those shouldNotifyOpen() lets through
  Devices,   \* endpoints that may hold a push subscription
  PageSize,  \* OPENS_POLL_PAGE_SIZE
  MaxTime,   \* bound: milliseconds the tracking service's clock counts
  MaxFails,  \* bound: requests and queries that fail before anything is sent
  MaxLapses  \* bound: crashes, and watermarks that could not be written

ASSUME PollAssumption == /\ Worthy \subseteq Hits
                         /\ PageSize \in Nat \ {0}
                         /\ {MaxTime, MaxFails, MaxLapses} \subseteq Nat

None == -1

VARIABLES
  clock,    \* Date.now() of the tracking service
  hit,      \* each hit: how far it is, its occurredAt, and (history) its fate
  rows,     \* push_subscriptions
  proc,     \* the sync service's process
  ticks,    \* two slots for poll cycles in flight
  lastSeen, \* the watermark in sync_state, None before the first run
  sent,     \* history: how often each hit was sent to each device
  owed,     \* history: the devices subscribed when a worthy hit was recorded,
            \* and ever since
  fails,
  lapses

vars == <<clock, hit, rows, proc, ticks, lastSeen, sent, owed, fails, lapses>>
service == <<clock, hit>>
counts == <<fails, lapses>>

Slots == 1..2
NoTick == [pc |-> "none", page |-> {}, todo |-> {}]

Recorded == {h \in Hits : hit[h].stage = "recorded"}
At(h) == hit[h].at

\* newestOccurredAt(): t is the newest time of S, which is not empty.
IsNewest(t, S) == t \in {At(h) : h \in S} /\ \A h \in S : At(h) <= t

Init ==
  /\ clock = 1
  /\ hit = [h \in Hits |-> [stage |-> "none", at |-> 0, fate |-> "none"]]
  /\ rows = Devices
  /\ proc = "down"
  /\ ticks = [k \in Slots |-> NoTick]
  /\ lastSeen = None
  /\ sent = [p \in Hits \X Devices |-> 0]
  /\ owed = {}
  /\ fails = 0 /\ lapses = 0

\* A poll cycle moves on.
Becomes(k, tick) == ticks' = [ticks EXCEPT ![k] = tick]
Goto(k, pc) == ticks' = [ticks EXCEPT ![k].pc = pc]
Ends(k) == Becomes(k, NoTick)
AtPc(k, pc) == ticks[k].pc = pc
Failing == fails < MaxFails /\ fails' = fails + 1 /\ UNCHANGED lapses
Lapsing == lapses < MaxLapses /\ lapses' = lapses + 1 /\ UNCHANGED fails
-----------------------------------------------------------------------------
(* The tracking service.                                                   *)

PassTime ==
  /\ clock < MaxTime
  /\ clock' = clock + 1
  /\ UNCHANGED <<hit, rows, proc, ticks, lastSeen, sent, owed, counts>>

\* record() has looked the token up and reads the clock.
Stamp(h) ==
  /\ hit[h].stage = "none"
  /\ hit' = [hit EXCEPT ![h].stage = "stamped", ![h].at = clock]
  /\ UNCHANGED <<clock, rows, proc, ticks, lastSeen, sent, owed, counts>>

\* Times a poll has already been shown: behind them the watermark may pass.
Shown == {lastSeen} \cup {At(g) : g \in UNION {ticks[k].page : k \in Slots}}

\* The fate of a hit that is recorded with time t: a poll may have gone by.
FateAt(t) == IF \E s \in Shown : t < s THEN "late" ELSE IF t \in Shown THEN "tie" ELSE "none"

\* recordOpen()
Record(h) ==
  /\ hit[h].stage = "stamped"
  /\ hit' = [hit EXCEPT ![h].stage = "recorded", ![h].fate = FateAt(At(h))]
  /\ owed' = owed \cup {p \in {h} \X rows : h \in Worthy}
  /\ UNCHANGED <<clock, rows, proc, ticks, lastSeen, sent, counts>>
-----------------------------------------------------------------------------
(* Devices.                                                                *)

Subscribe(d) ==
  /\ proc = "up" /\ d \notin rows
  /\ rows' = rows \cup {d}
  /\ UNCHANGED <<service, proc, ticks, lastSeen, sent, owed, counts>>

Forget(d) == rows' = rows \ {d} /\ owed' = {p \in owed : p[2] # d}

Unsubscribe(d) ==
  /\ proc = "up" /\ d \in rows
  /\ Forget(d)
  /\ UNCHANGED <<service, proc, ticks, lastSeen, sent, counts>>
-----------------------------------------------------------------------------
(* The poll: tick(), under runTick()'s guard.                              *)

\* Mutant: the timer alone decides.
RunTickAnyway(k) ==
  /\ proc = "up"
  /\ AtPc(k, "none")
  /\ Goto(k, "fetch")
  /\ UNCHANGED <<service, rows, proc, lastSeen, sent, owed, counts>>

\* The timer.  A cycle in flight is not joined by another.
RunTick(k) ==
  /\ proc = "up"
  /\ \A j \in Slots : AtPc(j, "none")
  /\ Goto(k, "fetch")
  /\ UNCHANGED <<service, rows, proc, lastSeen, sent, owed, counts>>

\* listRecentOpens(): the newest hits, at most a page of them
Pages == {S \in SUBSET Recorded :
            /\ Cardinality(S) <= PageSize
            /\ Cardinality(S) < PageSize => S = Recorded
            /\ \A h \in S, g \in Recorded \ S : At(g) <= At(h)}

\* The service answers.  What does not fit on the page and is not yet behind
\* the watermark belongs to a burst.
Fetch(k) ==
  /\ AtPc(k, "fetch")
  /\ \E S \in Pages :
       /\ Becomes(k, [pc |-> "read", page |-> S, todo |-> {}])
       /\ hit' = [h \in Hits |-> IF /\ h \in Recorded \ S
                                    /\ hit[h].fate = "none"
                                    /\ At(h) > lastSeen
                                 THEN [hit[h] EXCEPT !.fate = "burst"] ELSE hit[h]]
  /\ UNCHANGED <<clock, rows, proc, lastSeen, sent, owed, counts>>

\* Mutant: only a cycle that succeeds clears inFlightTick.
FetchFailsForGood(k) ==
  /\ AtPc(k, "fetch") /\ Failing
  /\ Goto(k, "wedged")
  /\ UNCHANGED <<service, rows, proc, lastSeen, sent, owed>>

\* The service is down, or times out.
FetchFails(k) ==
  /\ AtPc(k, "fetch") /\ Failing
  /\ Ends(k)
  /\ UNCHANGED <<service, rows, proc, lastSeen, sent, owed>>

\* Mutant: not strictly newer than the watermark.
FreshOrTied(S) == {h \in S : At(h) >= lastSeen}

\* The hits of a page that are news
Fresh(S) == {h \in S : At(h) > lastSeen}

\* The watermark is read, and the page reduced to what is news.
Read(k) ==
  /\ AtPc(k, "read")
  /\ LET page == ticks[k].page
         fresh == Fresh(page)
     IN  IF lastSeen = None THEN Goto(k, "baseline")
         ELSE IF fresh = {} THEN Ends(k)
         ELSE Becomes(k, [pc   |-> IF fresh \cap Worthy = {} THEN "write" ELSE "load",
                          page |-> fresh, todo |-> {}])
  /\ UNCHANGED <<service, rows, proc, lastSeen, sent, owed, counts>>

ReadFails(k) ==
  /\ AtPc(k, "read") /\ Failing
  /\ Ends(k)
  /\ UNCHANGED <<service, rows, proc, lastSeen, sent, owed>>

\* Everything recorded up to the watermark t is the backlog, owed to nobody.
Backlog(t) ==
  /\ hit' = [h \in Hits |-> IF h \in Recorded /\ At(h) <= t
                            THEN [hit[h] EXCEPT !.fate = "backlog"] ELSE hit[h]]
  /\ owed' = {p \in owed : At(p[1]) > t}

\* Mutant: the first run starts at zero, whatever is there.
BaselineZero(k) ==
  /\ AtPc(k, "baseline")
  /\ lastSeen' = 0
  /\ \E t \in {0} \cup {At(h) : h \in ticks[k].page} :
       /\ \A h \in ticks[k].page : At(h) <= t
       /\ Backlog(t)
  /\ Ends(k)
  /\ UNCHANGED <<clock, rows, proc, sent, counts>>

\* The first run notifies of nothing: it writes the newest time there is.
Baseline(k) ==
  /\ AtPc(k, "baseline")
  /\ \E t \in {0} \cup {At(h) : h \in ticks[k].page} :
       /\ \A h \in ticks[k].page : At(h) <= t
       /\ t = 0 => ticks[k].page = {}
       /\ lastSeen' = t
       /\ Backlog(t)
  /\ Ends(k)
  /\ UNCHANGED <<clock, rows, proc, sent, counts>>

BaselineFails(k) ==
  /\ AtPc(k, "baseline") /\ Failing
  /\ Ends(k)
  /\ UNCHANGED <<service, rows, proc, lastSeen, sent, owed>>

\* notifyOpens() reads the subscriptions once for all its hits.
Load(k) ==
  /\ AtPc(k, "load")
  /\ Becomes(k, [ticks[k] EXCEPT !.pc = IF rows = {} THEN "write" ELSE "send",
                                 !.todo = (ticks[k].page \cap Worthy) \X rows])
  /\ UNCHANGED <<service, rows, proc, lastSeen, sent, owed, counts>>

\* Mutant: subscriptions that cannot be read count as none.
LoadFailsQuietly(k) ==
  /\ AtPc(k, "load") /\ Failing
  /\ Goto(k, "write")
  /\ UNCHANGED <<service, rows, proc, lastSeen, sent, owed>>

\* The query rejects through notifyOpens(): nothing was sent, nothing written.
LoadFails(k) ==
  /\ AtPc(k, "load") /\ Failing
  /\ Ends(k)
  /\ UNCHANGED <<service, rows, proc, lastSeen, sent, owed>>

\* dispatchToAll(), newest hit first: sendPush() never throws, and a push
\* that fails is not tried again.  An endpoint that is gone is deleted.
Send(k) ==
  /\ AtPc(k, "send")
  /\ \E p \in ticks[k].todo :
       /\ \A q \in ticks[k].todo : At(q[1]) <= At(p[1])
       /\ sent' = [sent EXCEPT ![p] = @ + 1]
       /\ LET rest == ticks[k].todo \ {p}
          IN  Becomes(k, [ticks[k] EXCEPT !.pc = IF rest = {} THEN "write" ELSE "send",
                                          !.todo = rest])
       /\ \/ UNCHANGED <<rows, owed>>
          \/ Forget(p[2])
  /\ UNCHANGED <<service, proc, lastSeen, counts>>

\* The newest of what was news becomes the watermark.
Write(k) ==
  /\ AtPc(k, "write")
  /\ \E t \in 1..clock : IsNewest(t, ticks[k].page) /\ lastSeen' = t
  /\ Ends(k)
  /\ UNCHANGED <<service, rows, proc, sent, owed, counts>>

WriteFails(k) ==
  /\ AtPc(k, "write") /\ Lapsing
  /\ Ends(k)
  /\ UNCHANGED <<service, rows, proc, lastSeen, sent, owed>>
-----------------------------------------------------------------------------
(* The process.                                                            *)

\* stop() clears the timer.
Stop ==
  /\ proc = "up"
  /\ proc' = "stopping"
  /\ UNCHANGED <<service, rows, ticks, lastSeen, sent, owed, counts>>

\* Mutant: stop() does not wait for the cycle in flight.
CloseAtOnce ==
  /\ proc = "stopping"
  /\ proc' = "down"
  /\ ticks' = [k \in Slots |-> NoTick]
  /\ UNCHANGED <<service, rows, lastSeen, sent, owed, counts>>

\* stop() has waited for the cycle in flight; the database is closed, and
\* the process exits.
Close ==
  /\ proc = "stopping"
  /\ \A k \in Slots : AtPc(k, "none")
  /\ proc' = "down"
  /\ UNCHANGED <<service, rows, ticks, lastSeen, sent, owed, counts>>

Crash ==
  /\ proc # "down" /\ Lapsing
  /\ proc' = "down"
  /\ ticks' = [k \in Slots |-> NoTick]
  /\ UNCHANGED <<service, rows, lastSeen, sent, owed>>

\* start() makes its first check at once.
Boot ==
  /\ proc = "down"
  /\ proc' = "up"
  /\ Goto(1, "fetch")
  /\ UNCHANGED <<service, rows, lastSeen, sent, owed, counts>>
-----------------------------------------------------------------------------
TickStep(k) ==
  \/ RunTick(k) \/ Fetch(k) \/ Read(k) \/ Baseline(k) \/ Load(k) \/ Send(k) \/ Write(k)

TickFault(k) ==
  \/ FetchFails(k) \/ ReadFails(k) \/ BaselineFails(k) \/ LoadFails(k) \/ WriteFails(k)

Next ==
  \/ PassTime
  \/ \E h \in Hits : Stamp(h) \/ Record(h)
  \/ \E d \in Devices : Subscribe(d) \/ Unsubscribe(d)
  \/ \E k \in Slots : TickStep(k) \/ TickFault(k)
  \/ Stop \/ Close \/ Crash \/ Boot

Spec == Init /\ [][Next]_vars

\* The timer fires once a minute and every await settles; a stop that waits
\* for its cycle ends, and systemd starts the service again.
FairSpec == Spec /\ \A k \in Slots : WF_vars(TickStep(k)) /\ WF_vars(Close) /\ WF_vars(Boot)
-----------------------------------------------------------------------------
Stages == {"none", "stamped", "recorded"}
Fates == {"none", "late", "tie", "burst", "backlog"}
Pcs == {"none", "fetch", "read", "baseline", "load", "send", "write"}

TypeOK ==
  /\ clock \in Nat \ {0}
  /\ hit \in [Hits -> [stage : Stages, at : Nat, fate : Fates]]
  /\ rows \subseteq Devices
  /\ proc \in {"up", "stopping", "down"}
  /\ ticks \in [Slots -> [pc : Pcs, page : SUBSET Hits, todo : SUBSET (Hits \X Devices)]]
  /\ lastSeen \in Nat \cup {None}
  /\ sent \in [Hits \X Devices -> Nat]
  /\ owed \subseteq Hits \X Devices
  /\ fails \in Nat /\ lapses \in Nat

-----------------------------------------------------------------------------
(* The inductive invariant behind the properties below.                    *)

\* One cycle at most is in flight, and none when the process is down.
OneTick ==
  /\ \A j, k \in Slots : ~ AtPc(j, "none") /\ ~ AtPc(k, "none") => j = k
  /\ proc = "down" => \A k \in Slots : AtPc(k, "none")

\* What a cycle holds is recorded; once it has read the watermark, it holds
\* what is newer, and sends nothing else.
TickOK(k) ==
  /\ ticks[k].page \subseteq Recorded
  /\ ticks[k].todo \subseteq ticks[k].page \X Devices
  /\ AtPc(k, "none") \/ AtPc(k, "fetch") => ticks[k].page = {}
  /\ ~ AtPc(k, "send") => ticks[k].todo = {}
  /\ AtPc(k, "baseline") => lastSeen = None
  /\ ticks[k].pc \in {"load", "send", "write"} =>
       lastSeen # None /\ \A h \in ticks[k].page : lastSeen < At(h)
  \* What it does not hold, and no watermark has passed, is newer still.
  /\ ticks[k].pc \notin {"none", "fetch"} =>
       \A h \in Recorded \ ticks[k].page :
         hit[h].fate = "none" /\ lastSeen < At(h) => \A g \in ticks[k].page : At(g) < At(h)

HitOK(h) ==
  /\ hit[h].stage # "none" => At(h) > 0
  /\ hit[h].stage # "recorded" => hit[h].fate = "none"
  /\ hit[h].fate = "backlog" => At(h) <= lastSeen

\* The cycle in slot k is done with the pair.
DoneBy(k, p) ==
  ticks[k].pc \in {"send", "write"} /\ p[1] \in ticks[k].page /\ p \notin ticks[k].todo

SentOK(p) ==
  /\ hit[p[1]].stage # "recorded" \/ hit[p[1]].fate = "backlog" \/ lastSeen = None => sent[p] = 0
  /\ sent[p] <= 1 + lapses
  /\ lastSeen < At(p[1]) /\ (\A k \in Slots : ~ DoneBy(k, p)) => sent[p] <= lapses

OwedOK(p) ==
  /\ p[1] \in Recorded \cap Worthy /\ p[2] \in rows
  /\ hit[p[1]].fate = "none" =>
       /\ At(p[1]) <= lastSeen => sent[p] > 0
       /\ \A k \in Slots : DoneBy(k, p) => sent[p] > 0

OpensInv ==
  /\ TypeOK
  /\ OneTick
  /\ \A k \in Slots : TickOK(k)
  /\ \A h \in Hits : HitOK(h)
  /\ \A p \in Hits \X Devices : SentOK(p)
  /\ \A p \in owed : OwedOK(p)
-----------------------------------------------------------------------------
(* Properties.                                                             *)

\* A device buzzes once for a hit, and once more only for a crash or a
\* watermark that was lost: neither a slow cycle nor a graceful restart
\* repeats one.
NoBuzzTwice == \A p \in Hits \X Devices : sent[p] <= 1 + lapses

\* The watermark passes no hit that a subscribed device has not been sent,
\* but for the losses the poll cannot see: one that comes in behind what a
\* cycle was shown, and one pushed off the page.
NothingIsSkipped ==
  \A p \in owed : (hit[p[1]].fate = "none" /\ At(p[1]) <= lastSeen) => sent[p] > 0

\* The first run of a deployment buzzes for nothing that was there before it.
BacklogIsSilent ==
  \A p \in Hits \X Devices : hit[p[1]].fate = "backlog" => sent[p] = 0

(* What the watermark, the pages and the pushes say of each other, and     *)
(* that the first run announces nothing that was there before it.          *)
BacklogInv == OpensInv /\ BacklogIsSilent

\* The watermark never goes back: what it has passed is not announced again.
WatermarkOnlyAdvances == [][lastSeen <= lastSeen']_lastSeen

\* Every hit that a device is owed is sent to it in the end.
EveryOpenIsSent ==
  \A p \in Hits \X Devices :
    (p \in owed /\ hit[p[1]].fate = "none") ~> (p \notin owed \/ hit[p[1]].fate # "none" \/ sent[p] > 0)
=============================================================================
