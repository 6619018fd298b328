-------------------------- MODULE FolderSyncProofs --------------------------
(***************************************************************************)
(* Theorems about the sync of one folder, for every window, page size,     *)
(* mailbox size and number of failures: of what is stored, under           *)
(* SteadyFolder (SyncInv); of what is announced and of the walk's numbering,*)
(* for any folder at all (MarksInv).                                       *)
(*                                                                         *)
(* Both invariants are inductive; each action has a lemma for each, and    *)
(* under it one step for what it leaves alone and one for each conjunct it *)
(* can disturb.                                                            *)
(***************************************************************************)
EXTENDS FolderSync, FiniteSetTheorems, TLAPS

\* A set of UIDs that is not empty has a last one.
LEMMA HasLast ==
  ASSUME NEW n \in Int, NEW S \in SUBSET (1..n), S # {}
  PROVE  \E m \in S : \A u \in S : u <= m
<1> DEFINE From(u) == {v \in S : u <= v}
           Tails == {From(u) : u \in S}
<1>1. IsFiniteSet(S)
  <2>1. IsFiniteSet(1..n)
    BY FS_Interval
  <2>. QED
    BY <2>1, FS_Subset
<1>2. Tails \subseteq FiniteSubsetsOf(S)
  <2>1. \A T \in SUBSET S : IsFiniteSet(T)
    BY <1>1, FS_Subset
  <2>. QED
    BY <2>1 DEF FiniteSubsetsOf
<1>3. IsWellFoundedOn(StrictSubsetOrdering(S), FiniteSubsetsOf(S))
  BY <1>1, FS_StrictSubsetOrderingWellFounded
<1>4. PICK T \in Tails : \A U \in Tails : <<U, T>> \notin StrictSubsetOrdering(S)
  <2>1. Tails # {}
    OBVIOUS
  <2> HIDE DEF Tails
  <2>. QED
    BY <1>2, <1>3, <2>1, WFMin
<1>5. PICK m \in S : T = From(m)
  OBVIOUS
<1>6. ASSUME NEW u \in S, m < u PROVE FALSE
  <2>0. S \subseteq Int
    OBVIOUS
  <2>1. \A v \in S : u <= v => m <= v
    BY <1>6, <2>0
  <2>4. From(u) \subseteq T
    BY <1>5, <2>1
  <2>2. m \in T /\ m \notin From(u)
    BY <1>5, <1>6
  <2>3. <<From(u), T>> \in StrictSubsetOrdering(S)
    BY <1>5, <2>4, <2>2 DEF StrictSubsetOrdering
  <2>. QED
    BY <1>4, <2>3
<1>. QED
  BY <1>6
\* Renumbered from 1, a mailbox needs no more UIDs than it had.
LEMMA NoMoreThanUids ==
  ASSUME NEW n \in Nat, NEW S \in SUBSET (1..n)
  PROVE  Cardinality(S) \in 0..n
<1>1. IsFiniteSet(1..n) /\ Cardinality(1..n) = n
  BY FS_Interval
<1>2. IsFiniteSet(S) /\ Cardinality(S) <= n
  BY <1>1, FS_Subset
<1>. QED
  BY <1>2, FS_CardinalityType

USE SizesAssumption, KindAssumption
USE DEF Inbox, Uids, Validities, None, server, database, history, Rows, LastSeenByPoll

\* The lowest UID of a live poll is a UID, at or below the mailbox's top, no
\* more than a window below it, and grows with it.
LEMMA LowestLiveBounds ==
  ASSUME NEW n \in Nat \ {0}, NEW m \in Nat \ {0}, m <= n
  PROVE  /\ LowestLive(n) \in Nat \ {0}
         /\ LowestLive(n) <= n
         /\ n - Window <= LowestLive(n)
         /\ LowestLive(m) <= LowestLive(n)
  BY DEF LowestLive

LEMMA InitSync == ASSUME SteadyFolder, Init PROVE SyncInv
<1>1. TypeOK
  <2>1. walkThrew \in BOOLEAN
    BY DEF Init
  <2>. QED
    BY <2>1 DEF Init, TypeOK, NoSpan, NoRange
<1>. QED
  BY <1>1
     DEF Init, TypeOK, NoSpan, NoRange, SyncInv, Assigned, InFlight,
         PollSeesNewestMail, BelowWindowIsLast, CoveredIsStored, FirstPollFirst,
         ClosedUpwards, StoredFromWatermark, PageTiles, BeyondCacheIsStored,
         DoneAtTheBottom

-----------------------------------------------------------------------------
(* The mailbox.                                                            *)

\* A message gets a UID above every UID that is stored, polled or walked.
LEMMA DeliverKeepsSync == ASSUME SyncInv, SteadyFolder, Deliver PROVE SyncInv'
<1> USE DEF SyncInv
<1>1. TypeOK'
  BY DEF Deliver, TypeOK
<1>6. Assigned'
  <2>1. Rows' = Rows
    BY DEF Deliver, Rows
  <2>. QED
    BY <2>1 DEF Deliver, TypeOK, Assigned
<1>8. FirstPollFirst' /\ DoneAtTheBottom'
  BY DEF Deliver, FirstPollFirst, DoneAtTheBottom
<1>7. InFlight'
  BY DEF Deliver, InFlight, LowestLive
<1>2. PollSeesNewestMail' /\ BelowWindowIsLast'
  BY DEF Deliver, TypeOK, Assigned, PollSeesNewestMail, BelowWindowIsLast
<1>3. CoveredIsStored'
  <2>1. /\ UNCHANGED <<covered, polled, cachedNext, fetched, pc, rows>>
        /\ uidNext' = uidNext + 1 /\ box' = box \cup {uidNext}
        /\ LastSeenByPoll # None => uidNext < LastSeenByPoll + MaxBurst
    BY DEF Deliver
  <2>2. \A u \in box' : covered'.from <= u /\ u < covered'.to => u \in Rows'
    BY <2>1 DEF TypeOK, Assigned, CoveredIsStored
  <2>3. covered.to # None => covered.from <= LowestLive(uidNext)'
    BY <2>1 DEF TypeOK, CoveredIsStored, LowestLive
  <2>4. LastSeenByPoll' # None => uidNext' <= LastSeenByPoll' + MaxBurst
    BY <2>1 DEF TypeOK, LastSeenByPoll
  <2>5. UNCHANGED LowestLive(cachedNext)
    BY <2>1 DEF LowestLive
  <2>. QED
    BY <2>1, <2>2, <2>3, <2>4, <2>5 DEF CoveredIsStored
<1>4. ClosedUpwards' /\ StoredFromWatermark' /\ PageTiles'
  BY DEF Deliver, TypeOK, Assigned, ClosedUpwards, StoredFromWatermark, PageTiles
<1>5. BeyondCacheIsStored'
  BY DEF Deliver, TypeOK, Assigned, BeyondCacheIsStored
<1>. QED
  BY <1>1, <1>2, <1>3, <1>4, <1>5, <1>6, <1>7, <1>8

\* Every conjunct speaks of the messages there are.
LEMMA ExpungeKeepsSync == ASSUME SyncInv, SteadyFolder, Expunge PROVE SyncInv'
<1> USE DEF SyncInv
<1>1. TypeOK'
  BY DEF Expunge, TypeOK
<1>4. InFlight'
  BY DEF Expunge, InFlight, LowestLive
<1>5. Assigned' /\ FirstPollFirst' /\ DoneAtTheBottom'
  BY DEF Expunge, Assigned, FirstPollFirst, DoneAtTheBottom
<1>2. PollSeesNewestMail' /\ BelowWindowIsLast' /\ CoveredIsStored'
  BY DEF Expunge, PollSeesNewestMail, BelowWindowIsLast, CoveredIsStored, LowestLive
<1>3. ClosedUpwards' /\ StoredFromWatermark' /\ PageTiles' /\ BeyondCacheIsStored'
  BY DEF Expunge, ClosedUpwards, StoredFromWatermark, PageTiles, BeyondCacheIsStored
<1>. QED
  BY <1>1, <1>2, <1>3, <1>4, <1>5
-----------------------------------------------------------------------------
(* Steps that change where the cycle is, and nothing it has stored.        *)

\* connect() and a wake begin a cycle; a refused poll and a page that is not
\* walked pass on.
LEMMA PassingKeepsSync ==
  ASSUME SyncInv, SteadyFolder, Connect \/ Wake \/ SkipLive \/ SkipPage
  PROVE  SyncInv'
<1> USE DEF SyncInv, Connect, Wake, SkipLive, SkipPage
<1>1. TypeOK'
  BY DEF TypeOK
<1>4. Assigned' /\ FirstPollFirst' /\ DoneAtTheBottom'
  BY DEF Assigned, FirstPollFirst, DoneAtTheBottom, InFlight
<1>5. InFlight'
  BY DEF InFlight
<1>2. PollSeesNewestMail' /\ BelowWindowIsLast' /\ CoveredIsStored'
  BY DEF PollSeesNewestMail, BelowWindowIsLast, CoveredIsStored, LowestLive
<1>3. ClosedUpwards' /\ StoredFromWatermark' /\ PageTiles' /\ BeyondCacheIsStored'
  BY DEF ClosedUpwards, StoredFromWatermark, PageTiles, BeyondCacheIsStored, InFlight
<1>. QED
  BY <1>1, <1>2, <1>3, <1>4, <1>5

\* A cycle that ends has nothing in flight, and selects INBOX again or not.
LEMMA EndCycleKeepsSync == ASSUME SyncInv, SteadyFolder, EndCycle PROVE SyncInv'
<1> USE DEF SyncInv, EndCycle
<1>8. cachedNext' \in 0..(MaxUid + 1)
  BY DEF TypeOK, Opened
<1>9. notified' \subseteq Validities \X Uids
  <2>1. CASE newUids = {}
    BY <2>1 DEF TypeOK
  <2>2. CASE newUids # {}
    <3>1. mark.validity \in Validities /\ newUids \subseteq Uids
      BY <2>2 DEF TypeOK, InFlight
    <3>. QED
      BY <3>1 DEF TypeOK
  <2>. QED
    BY <2>1, <2>2
<1>1. TypeOK'
  BY <1>8, <1>9 DEF TypeOK
<1>6. Assigned'
  BY DEF TypeOK, Assigned, Opened
<1>7. InFlight' /\ FirstPollFirst' /\ DoneAtTheBottom'
  BY DEF InFlight, FirstPollFirst, DoneAtTheBottom
<1>2. PollSeesNewestMail' /\ BelowWindowIsLast'
  BY DEF PollSeesNewestMail, BelowWindowIsLast
<1>3. CoveredIsStored'
  BY DEF CoveredIsStored, Opened, LowestLive
<1>4. ClosedUpwards' /\ StoredFromWatermark' /\ PageTiles'
  BY DEF ClosedUpwards, StoredFromWatermark, PageTiles
<1>5. BeyondCacheIsStored'
  BY DEF BeyondCacheIsStored, Opened, TypeOK, Assigned, InFlight
<1>. QED
  BY <1>1, <1>2, <1>3, <1>4, <1>5, <1>6, <1>7
-----------------------------------------------------------------------------
(* Failures.  A first poll or a first page that fails has stored nothing   *)
(* yet; any other leaves whole what the watermark or the last poll speaks  *)
(* of.                                                                     *)

LEMMA RestartKeepsSync ==
  ASSUME SyncInv, SteadyFolder, Drop \/ Crash PROVE SyncInv'
<1> USE DEF SyncInv, Drop, Crash, ForgetCycle, NoSpan
<1>7. /\ pc' = "down" /\ cachedNext' = 0 /\ seenValidity' = 0
      /\ fetched' = {} /\ pending' = {} /\ newUids' = {}
      /\ page' = [lowest |-> 0, highest |-> 0] /\ walkThrew' = FALSE
      /\ UNCHANGED <<kind, box, uidNext, validity, rows, syncState>>
      /\ UNCHANGED <<polled, covered, baseNext, rewalk, notified>>
  OBVIOUS
<1>1. TypeOK'
  <2>1. mark' \in [validity : Validities \cup {None}, max : Uids \cup {0}]
    BY DEF TypeOK
  <2>2. failures' = failures + 1 /\ failures < MaxFailures
    BY DEF MayFail
  <2>3. failures \in 0..MaxFailures
    BY DEF TypeOK
  <2>4. failures' \in 0..MaxFailures
    BY <2>2, <2>3
  <2>5. walkThrew' \in BOOLEAN
    BY <1>7
  <2>. QED
    BY <1>7, <2>1, <2>4, <2>5 DEF TypeOK
<1>8. uidNext \in Nat \ {0}
  BY DEF TypeOK
<1>9. Assigned'
  BY <1>7, <1>8 DEF Assigned
<1>2. InFlight' /\ DoneAtTheBottom'
  BY <1>7 DEF InFlight, DoneAtTheBottom
<1>3. FirstPollFirst'
  BY DEF FirstPollFirst, InFlight, MayFail, FirstPollHalfway, SteadyFolder
<1>4. PollSeesNewestMail' /\ BelowWindowIsLast' /\ CoveredIsStored'
  BY DEF PollSeesNewestMail, BelowWindowIsLast, CoveredIsStored
<1>5. ClosedUpwards'
  BY DEF ClosedUpwards, MayFail, FirstPageHalfway, SteadyFolder
<1>6. StoredFromWatermark' /\ PageTiles' /\ BeyondCacheIsStored'
  BY DEF StoredFromWatermark, PageTiles, BeyondCacheIsStored
<1>. QED
  BY <1>1, <1>2, <1>3, <1>4, <1>5, <1>6, <1>9

LEMMA LiveThrowsKeepsSync ==
  ASSUME SyncInv, SteadyFolder, LiveThrows PROVE SyncInv'
<1> USE DEF SyncInv, LiveThrows
<1>1. TypeOK'
  BY DEF TypeOK, MayFail
<1>2. Assigned' /\ InFlight' /\ DoneAtTheBottom'
  BY DEF TypeOK, Assigned, InFlight, DoneAtTheBottom
<1>3. FirstPollFirst'
  BY DEF FirstPollFirst, MayFail, FirstPollHalfway, SteadyFolder
<1>4. PollSeesNewestMail' /\ BelowWindowIsLast' /\ CoveredIsStored'
  BY DEF PollSeesNewestMail, BelowWindowIsLast, CoveredIsStored, LowestLive
<1>5. ClosedUpwards' /\ StoredFromWatermark' /\ PageTiles' /\ BeyondCacheIsStored'
  BY DEF ClosedUpwards, StoredFromWatermark, PageTiles, BeyondCacheIsStored
<1>. QED
  BY <1>1, <1>2, <1>3, <1>4, <1>5

\* A walk that throws before its fetch leaves everything as it was.
LEMMA PlanThrowsKeepsSync ==
  ASSUME SyncInv, SteadyFolder, PlanThrows PROVE SyncInv'
<1> USE DEF SyncInv, PlanThrows
<1>1. TypeOK'
  BY DEF TypeOK, MayFail
<1>4. Assigned' /\ FirstPollFirst' /\ DoneAtTheBottom'
  BY DEF Assigned, FirstPollFirst, DoneAtTheBottom, InFlight
<1>5. InFlight'
  BY DEF InFlight
<1>2. PollSeesNewestMail' /\ BelowWindowIsLast' /\ CoveredIsStored'
  BY DEF PollSeesNewestMail, BelowWindowIsLast, CoveredIsStored, LowestLive
<1>3. ClosedUpwards' /\ StoredFromWatermark' /\ PageTiles' /\ BeyondCacheIsStored'
  BY DEF ClosedUpwards, StoredFromWatermark, PageTiles, BeyondCacheIsStored, InFlight
<1>. QED
  BY <1>1, <1>2, <1>3, <1>4, <1>5

LEMMA PageThrowsKeepsSync ==
  ASSUME SyncInv, SteadyFolder, PageThrows PROVE SyncInv'
<1> USE DEF SyncInv, PageThrows, NoSpan
<1>1. TypeOK'
  BY DEF TypeOK, MayFail
<1>2. Assigned' /\ DoneAtTheBottom'
  BY DEF TypeOK, Assigned, DoneAtTheBottom
<1>3. InFlight' /\ FirstPollFirst'
  BY DEF InFlight, FirstPollFirst
<1>4. PollSeesNewestMail' /\ BelowWindowIsLast' /\ CoveredIsStored'
  BY DEF PollSeesNewestMail, BelowWindowIsLast, CoveredIsStored, LowestLive
<1>5. ClosedUpwards'
  BY DEF ClosedUpwards, MayFail, FirstPageHalfway, SteadyFolder
<1>6. StoredFromWatermark' /\ PageTiles'
  BY DEF StoredFromWatermark, PageTiles
<1>7. BeyondCacheIsStored'
  <2>1. \A v \in Rows, u \in box : Inbox /\ cachedNext <= u /\ u < v => u \in Rows
    BY DEF BeyondCacheIsStored, PageTiles, InFlight, TypeOK
  <2>. QED
    BY <2>1 DEF BeyondCacheIsStored
<1>. QED
  BY <1>1, <1>2, <1>3, <1>4, <1>5, <1>6, <1>7
-----------------------------------------------------------------------------
(* The live poll.                                                          *)

\* The window reaches down to what the last complete poll stored.
LEMMA FetchLiveKeepsSync ==
  ASSUME SyncInv, SteadyFolder, FetchLive PROVE SyncInv'
<1> USE DEF SyncInv
<1>1. PICK next \in Opened :
        /\ cachedNext' = next
        /\ fetched' = LiveRange(next)
        /\ polled' = [from |-> LowestLive(next), to |-> uidNext]
        /\ baseNext' = IF mark.validity = validity THEN baseNext ELSE next
  BY DEF FetchLive
<1>2. /\ next \in 1..(MaxUid + 1)
      /\ next <= uidNext
      /\ next # uidNext => Inbox /\ cachedNext # None /\ next = cachedNext
  BY DEF Opened, TypeOK, Assigned
<1>3. /\ LowestLive(next) \in Nat \ {0}
      /\ LowestLive(next) <= next
      /\ next - Window <= LowestLive(next)
  BY <1>2, LowestLiveBounds
<1>4. fetched' \subseteq box /\ pending' = fetched' /\ rows' = rows
  BY <1>1 DEF FetchLive, LiveRange
<1>5. TypeOK'
  <2>1. polled' \in [from : Nat, to : Nat] /\ baseNext' \in 0..(MaxUid + 1)
    BY <1>1, <1>2, <1>3 DEF TypeOK
  <2>2. fetched' \subseteq Uids
    BY <1>4 DEF TypeOK
  <2>3. cachedNext' \in 0..(MaxUid + 1) /\ pc' = "save" /\ seenValidity' = validity
    BY <1>1, <1>2 DEF FetchLive
  <2>4. /\ UNCHANGED <<kind, box, uidNext, validity, rows, syncState, mark, page>>
        /\ UNCHANGED <<newUids, failures, covered, rewalk, notified, walkThrew>>
    BY DEF FetchLive
  <2>. QED
    BY <1>4, <2>1, <2>2, <2>3, <2>4 DEF TypeOK
<1>6. Assigned' /\ DoneAtTheBottom'
  BY <1>1, <1>2, <1>4 DEF FetchLive, TypeOK, Assigned, DoneAtTheBottom
<1>7. covered.to # None => covered.from <= LowestLive(next)
  BY <1>2 DEF CoveredIsStored
<1>8. InFlight'
  <2>1. next = 1 => fetched' = {}
    BY <1>1, <1>3 DEF LiveRange
  <2>2. fetched' \subseteq 1..(uidNext - 1)
    BY <1>4 DEF TypeOK
  <2>3. newUids' # {} => mark'.validity # None
    BY DEF FetchLive, InFlight
  <2>. QED
    BY <1>1, <1>2, <1>4, <1>7, <2>1, <2>2, <2>3
       DEF FetchLive, InFlight, Assigned, TypeOK
<1>9. next > 1 => \A u \in box : LowestLive(next) <= u => u \in fetched'
  BY <1>1, <1>2 DEF LiveRange, LowestLive, TypeOK
<1>14. PollSeesNewestMail'
  BY <1>1, <1>4, <1>9 DEF FetchLive, PollSeesNewestMail
<1>10. BelowWindowIsLast'
  <2>1. \A w \in fetched', u \in box : w < LowestLive(next) => ~ (w < u)
    <3>1. box \subseteq Nat
      BY DEF TypeOK
    <3>2. CASE next - 1 < LowestLive(next)
      BY <1>1, <3>2 DEF LiveRange
    <3>3. CASE ~ (next - 1 < LowestLive(next))
      <4>1. fetched' = {u \in box : LowestLive(next) <= u \/ \A v \in box : v <= u}
        BY <1>1, <3>3 DEF LiveRange
      <4>. QED
        BY <1>3, <3>1, <4>1
    <3>. QED
      BY <3>2, <3>3
  <2>. QED
    BY <1>1, <2>1 DEF FetchLive, BelowWindowIsLast
<1>11. CoveredIsStored'
  BY <1>1, <1>2, <1>4, <1>7 DEF FetchLive, CoveredIsStored, TypeOK
<1>12. FirstPollFirst' /\ ClosedUpwards' /\ StoredFromWatermark' /\ PageTiles'
  BY DEF FetchLive, FirstPollFirst, ClosedUpwards, StoredFromWatermark, PageTiles, InFlight
<1>13. BeyondCacheIsStored'
  BY <1>1, <1>2 DEF FetchLive, BeyondCacheIsStored, InFlight, Assigned, TypeOK
<1>. QED
  BY <1>5, <1>6, <1>8, <1>14, <1>10, <1>11, <1>12, <1>13

\* A message whose upsert is due is in the window, or the last one, or stored.
LEMMA SaveLiveKeepsSync ==
  ASSUME SyncInv, SteadyFolder, SaveLive PROVE SyncInv'
<1> USE DEF SyncInv
<1>1. PICK w \in pending : /\ rows' = [rows EXCEPT ![w] = seenValidity]
                           /\ pending' = pending \ {w}
  BY DEF SaveLive
<1>2. seenValidity \in Validities /\ pc = "save" /\ w \in fetched /\ w \in Uids
  BY <1>1 DEF SaveLive, InFlight, TypeOK
<1>3. Rows' = Rows \cup {w} /\ Rows' \cup pending' = Rows \cup pending
  BY <1>1, <1>2 DEF TypeOK
<1>4. TypeOK'
  <2>1. rows' \in [Uids -> Validities \cup {None}] /\ pending' \subseteq Uids
    BY <1>1, <1>2 DEF TypeOK
  <2>. QED
    BY <2>1 DEF SaveLive, TypeOK
<1>5. Assigned' /\ InFlight' /\ DoneAtTheBottom' /\ FirstPollFirst'
  BY <1>1, <1>2, <1>3
     DEF SaveLive, Assigned, InFlight, DoneAtTheBottom, FirstPollFirst, LowestLive
<1>6. PollSeesNewestMail' /\ BelowWindowIsLast'
  BY <1>3 DEF SaveLive, PollSeesNewestMail, BelowWindowIsLast
<1>7. CoveredIsStored'
  BY <1>3 DEF SaveLive, CoveredIsStored, LowestLive
<1>8. ClosedUpwards'
  <2>1. ASSUME NEW u \in box, w <= u, u < covered.to PROVE u \in Rows'
    <3>1. covered.to # None /\ covered.from <= polled.from /\ covered.to <= polled.to
      BY <1>2, <2>1 DEF InFlight, TypeOK
    <3>2. CASE covered.from <= u
      BY <1>3, <2>1, <3>2 DEF CoveredIsStored
    <3>3. CASE u < covered.from
      <4>1. w < polled.from /\ u < polled.to
        BY <1>2, <2>1, <3>1, <3>3 DEF TypeOK
      <4>2. ~ (w < u)
        BY <1>2, <4>1, <2>1 DEF BelowWindowIsLast, TypeOK
      <4>. QED
        BY <1>2, <1>3, <2>1, <4>2 DEF TypeOK
    <3>. QED
      BY <3>2, <3>3 DEF TypeOK
  <2>. QED
    BY <1>2, <1>3, <2>1 DEF SaveLive, ClosedUpwards
<1>9. StoredFromWatermark' /\ PageTiles'
  BY <1>2, <1>3 DEF SaveLive, StoredFromWatermark, PageTiles
<1>10. BeyondCacheIsStored'
  <2>1. ASSUME Inbox, NEW u \in box, cachedNext <= u, u < w PROVE u \in Rows \cup pending
    <3>1. cachedNext > 1
      BY <1>2 DEF InFlight, TypeOK
    <3>2. polled.from <= cachedNext /\ w < polled.to
      BY <1>2, <3>1 DEF InFlight, LowestLive, TypeOK
    <3>. QED
      BY <1>2, <2>1, <3>1, <3>2 DEF PollSeesNewestMail, TypeOK
  <2>. QED
    BY <1>2, <1>3, <2>1 DEF SaveLive, BeyondCacheIsStored
<1>. QED
  BY <1>4, <1>5, <1>6, <1>7, <1>8, <1>9, <1>10

\* A complete poll joins what the last one stored: no more than a window of
\* mail arrived since.
LEMMA TrackKeepsSync == ASSUME SyncInv, SteadyFolder, Track PROVE SyncInv'
<1> USE DEF SyncInv
<1>1. /\ pc = "save" /\ pending = {} /\ pc' = "plan"
      /\ fetched \subseteq Rows /\ seenValidity = validity
      /\ covered' = IF cachedNext > 1 THEN polled ELSE covered
      /\ UNCHANGED <<rows, syncState, box, uidNext, cachedNext, polled>>
  BY DEF Track, InFlight
<1>2. \A u \in box : polled.from <= u /\ u < polled.to /\ cachedNext > 1 => u \in Rows
  BY <1>1 DEF PollSeesNewestMail
<1>3. covered.to # None => polled.from <= covered.to
  BY <1>1 DEF InFlight, Assigned, CoveredIsStored, SteadyFolder, LowestLive, TypeOK
<1>4. covered.to <= polled.to
  BY <1>1 DEF InFlight
<1>5. TypeOK'
  <2>1. mark' \in [validity : Validities \cup {None}, max : Uids \cup {0}]
    BY DEF Track, TypeOK
  <2>2. newUids' \subseteq Uids
    BY DEF Track, TypeOK
  <2>. QED
    BY <2>1, <2>2 DEF Track, TypeOK
<1>6. Assigned' /\ DoneAtTheBottom'
  BY <1>1 DEF Track, Assigned, DoneAtTheBottom
<1>7. InFlight' /\ PollSeesNewestMail' /\ BelowWindowIsLast' /\ PageTiles'
  BY <1>1 DEF Track, InFlight, PollSeesNewestMail, BelowWindowIsLast, PageTiles, TypeOK
<1>8. CoveredIsStored'
  <2>1. LastSeenByPoll' # None => uidNext' <= LastSeenByPoll' + MaxBurst
    BY <1>1, <1>4 DEF CoveredIsStored, TypeOK
  <2>2. CASE cachedNext > 1
    <3>1. covered' = polled /\ polled.from = LowestLive(cachedNext) /\ cachedNext <= uidNext
      BY <1>1, <2>2 DEF InFlight, Assigned
    <3>2. 1 <= polled.from /\ polled.from <= LowestLive(uidNext)
      BY <2>2, <3>1 DEF LowestLive, TypeOK
    <3>3. \A u \in box' : covered'.from <= u /\ u < covered'.to => u \in Rows'
      BY <1>1, <1>2, <2>2, <3>1
    <3>4. /\ 1 <= covered'.from
          /\ cachedNext' # None => covered'.from <= LowestLive(cachedNext')
          /\ covered'.from <= LowestLive(uidNext')
      BY <1>1, <3>1, <3>2 DEF LowestLive, TypeOK
    <3>. QED
      BY <1>1, <2>1, <3>3, <3>4 DEF CoveredIsStored
  <2>3. CASE ~ (cachedNext > 1)
    BY <1>1, <2>1, <2>3 DEF CoveredIsStored, LowestLive
  <2>. QED
    BY <2>2, <2>3
<1>9. FirstPollFirst'
  BY <1>1, <1>4 DEF Track, FirstPollFirst, InFlight, TypeOK, Assigned
<1>10. ClosedUpwards'
  <2>1. ASSUME NEW r \in Rows, NEW u \in box, syncState.lastSeen = None, cachedNext > 1,
               r <= u, u < polled.to
        PROVE  u \in Rows
    <3>1. CASE polled.from <= u
      BY <1>2, <2>1, <3>1
    <3>2. CASE u < polled.from /\ covered.to # None
      BY <1>1, <1>3, <2>1, <3>2 DEF ClosedUpwards, TypeOK
    <3>3. CASE u < polled.from /\ covered.to = None
      <4>1. r \in fetched
        BY <2>1, <3>3 DEF FirstPollFirst
      <4>2. r < polled.from /\ ~ (r < u)
        BY <1>1, <2>1, <3>3, <4>1 DEF BelowWindowIsLast, TypeOK
      <4>3. r = u
        BY <2>1, <4>2 DEF TypeOK
      <4>. QED
        BY <4>3
    <3>. QED
      BY <3>1, <3>2, <3>3 DEF TypeOK
  <2>. QED
    BY <1>1, <2>1 DEF ClosedUpwards
<1>11. StoredFromWatermark'
  <2>1. syncState.lastSeen # None => covered.to # None
    BY DEF FirstPollFirst
  <2>. QED
    BY <1>1, <1>2, <1>3, <2>1 DEF StoredFromWatermark, TypeOK
<1>12. BeyondCacheIsStored'
  BY <1>1 DEF Track, BeyondCacheIsStored
<1>. QED
  BY <1>5, <1>6, <1>7, <1>8, <1>9, <1>10, <1>11, <1>12
-----------------------------------------------------------------------------
(* The walk through history.                                               *)

\* The floor's own row, and everything above it that a poll has reached, is
\* stored.
LEMMA FloorIsSound ==
  ASSUME SyncInv, pc = "plan", NEW f \in Uids, IsFloor(f)
  PROVE  /\ \A u \in box : f <= u /\ u < covered.to => u \in Rows
         /\ f < uidNext
         /\ Inbox /\ cachedNext # None =>
              \A u \in box : cachedNext <= u /\ u < f => u \in Rows
<1> USE DEF SyncInv
<1>1. CASE syncState.lastSeen # None
  BY <1>1 DEF IsFloor, StoredFromWatermark, Assigned, BeyondCacheIsStored
<1>2. CASE syncState.lastSeen = None
  <2>1. f \in Rows /\ pending = {}
    BY <1>2 DEF IsFloor, InFlight
  <2>. QED
    BY <1>2, <2>1 DEF ClosedUpwards, Assigned, BeyondCacheIsStored
<1>. QED
  BY <1>1, <1>2

\* The watermark of a finished walk is UID 1.
LEMMA MarkCompleteKeepsSync ==
  ASSUME SyncInv, SteadyFolder, MarkComplete PROVE SyncInv'
<1> USE DEF SyncInv
<1>1. \A u \in box : 1 <= u /\ u < covered.to => u \in Rows
  BY FloorIsSound DEF MarkComplete
<1>2. TypeOK'
  BY DEF MarkComplete, TypeOK
<1>3. Assigned' /\ DoneAtTheBottom'
  BY FloorIsSound DEF MarkComplete, Assigned, DoneAtTheBottom
<1>4. InFlight' /\ PollSeesNewestMail' /\ BelowWindowIsLast' /\ CoveredIsStored'
  BY DEF MarkComplete, InFlight, PollSeesNewestMail, BelowWindowIsLast, CoveredIsStored, LowestLive
<1>5. FirstPollFirst'
  BY DEF MarkComplete, FirstPollFirst, IsFloor, InFlight
<1>6. ClosedUpwards' /\ StoredFromWatermark' /\ PageTiles'
  BY <1>1 DEF MarkComplete, ClosedUpwards, StoredFromWatermark, PageTiles
<1>7. BeyondCacheIsStored'
  BY DEF MarkComplete, BeyondCacheIsStored, TypeOK
<1>. QED
  BY <1>2, <1>3, <1>4, <1>5, <1>6, <1>7

\* What INBOX's old SELECT hides of the page arrived after it, and was polled.
LEMMA FetchPageKeepsSync ==
  ASSUME SyncInv, SteadyFolder, FetchPage PROVE SyncInv'
<1> USE DEF SyncInv
<1>1. PICK f \in Uids, next \in Opened :
        /\ IsFloor(f) /\ f > 1
        /\ page' = PageBelow(f)
        /\ cachedNext' = next
        /\ pending' = {u \in box : page'.lowest <= u /\ u <= page'.highest /\ u < next}
  BY DEF FetchPage
<1>2. /\ pc = "plan" /\ pc' = "pageSave" /\ seenValidity' = validity
      /\ UNCHANGED <<server, database, mark, fetched, newUids, failures>>
      /\ UNCHANGED <<polled, covered, baseNext, notified, walkThrew>>
      /\ rewalk' = "paged"
  BY DEF FetchPage
<1>3. /\ next \in 1..(MaxUid + 1) /\ next <= uidNext
      /\ next # uidNext => Inbox /\ cachedNext # None /\ next = cachedNext
  BY DEF Opened, TypeOK, Assigned
<1>4. /\ page'.lowest \in Uids /\ page'.highest = f - 1 /\ page'.highest \in Uids
      /\ page'.lowest <= page'.highest
      /\ page' = [lowest |-> page'.lowest, highest |-> page'.highest]
  BY <1>1 DEF PageBelow
<1>5. /\ f < uidNext
      /\ \A u \in box : f <= u /\ u < covered.to => u \in Rows
      /\ Inbox /\ cachedNext # None =>
           \A u \in box : cachedNext <= u /\ u < f => u \in Rows
  BY <1>1, <1>2, FloorIsSound
<1>6. pending' \subseteq box /\ pending = {} /\ box \subseteq 1..(uidNext - 1)
  BY <1>1, <1>2 DEF InFlight, TypeOK
<1>7. TypeOK'
  <2>1. pending' \subseteq Uids
    BY <1>6 DEF TypeOK
  <2>2. page' \in [lowest : Uids \cup {None}, highest : Uids \cup {None}]
    BY <1>4
  <2>. QED
    BY <1>1, <1>2, <1>3, <2>1, <2>2 DEF TypeOK
<1>8. Assigned' /\ DoneAtTheBottom'
  <2>1. \A u \in Rows' \cup fetched' \cup pending' : u < uidNext'
    BY <1>2, <1>6 DEF Assigned, TypeOK
  <2>3. uidNext' = uidNext /\ uidNext \in Nat /\ f \in Nat
    BY <1>2 DEF TypeOK
  <2>2. page'.highest < uidNext' /\ cachedNext' <= uidNext'
    BY <1>1, <1>3, <1>4, <1>5, <2>3
  <2>. QED
    BY <1>2, <2>1, <2>2 DEF Assigned, DoneAtTheBottom
<1>9. InFlight' /\ PollSeesNewestMail' /\ BelowWindowIsLast'
  BY <1>1, <1>2, <1>3 DEF InFlight, PollSeesNewestMail, BelowWindowIsLast
<1>10. CoveredIsStored'
  BY <1>1, <1>2, <1>3 DEF CoveredIsStored
<1>11. FirstPollFirst'
  BY <1>1, <1>2 DEF FirstPollFirst, IsFloor, InFlight
<1>12. ClosedUpwards'
  <2>1. syncState.lastSeen = None => \A r \in Rows : f <= r
    BY <1>1 DEF IsFloor
  <2>. QED
    BY <1>2, <2>1, <1>5 DEF ClosedUpwards, TypeOK
<1>13. StoredFromWatermark'
  BY <1>2 DEF StoredFromWatermark
<1>14. PageTiles'
  <2>1. \A u \in box : page'.highest < u /\ u < covered.to => u \in Rows
    BY <1>4, <1>5, <1>6
  <2>2. \A u \in box : page'.lowest <= u /\ u <= page'.highest => u \in Rows \cup pending'
    BY <1>1, <1>3, <1>4, <1>5, <1>6
  <2>3. syncState.lastSeen # None => page'.highest < syncState.lastSeen
    BY <1>1, <1>4 DEF IsFloor
  <2>4. syncState.lastSeen = None => \A r \in Rows : page'.lowest <= r
    BY <1>1, <1>4 DEF IsFloor
  <2>. QED
    BY <1>1, <1>2, <1>4, <2>1, <2>2, <2>3, <2>4 DEF PageTiles
<1>15. BeyondCacheIsStored'
  <2>1. Inbox => \A u \in box : next <= u /\ u <= page'.highest => u \in Rows
    BY <1>3, <1>4, <1>5, <1>6
  <2>2. Inbox => \A v \in Rows, u \in box : next <= u /\ u < v => u \in Rows
    BY <1>3, <1>6 DEF BeyondCacheIsStored
  <2>3. Inbox => \A u \in box : next <= u /\ u < syncState.lastSeen => u \in Rows
    BY <1>3, <1>6 DEF BeyondCacheIsStored
  <2>. QED
    BY <1>1, <1>2, <2>1, <2>2, <2>3 DEF BeyondCacheIsStored
<1>. QED
  BY <1>7, <1>8, <1>9, <1>10, <1>11, <1>12, <1>13, <1>14, <1>15

LEMMA SavePageKeepsSync ==
  ASSUME SyncInv, SteadyFolder, SavePage PROVE SyncInv'
<1> USE DEF SyncInv
<1>1. PICK w \in pending : /\ rows' = [rows EXCEPT ![w] = seenValidity]
                           /\ pending' = pending \ {w}
  BY DEF SavePage
<1>2. /\ seenValidity \in Validities /\ pc = "pageSave" /\ w \in Uids
      /\ page.lowest <= w /\ w <= page.highest /\ w < cachedNext
  BY <1>1 DEF SavePage, InFlight, PageTiles, TypeOK
<1>3. Rows' = Rows \cup {w} /\ Rows' \cup pending' = Rows \cup pending
  BY <1>1, <1>2 DEF TypeOK
<1>4. /\ UNCHANGED <<server, syncState, mark, cachedNext, pc, fetched>>
      /\ UNCHANGED <<seenValidity, page, newUids, failures, history>>
  BY DEF SavePage
<1>5. TypeOK'
  <2>1. rows' \in [Uids -> Validities \cup {None}] /\ pending' \subseteq Uids
    BY <1>1, <1>2 DEF TypeOK
  <2>. QED
    BY <2>1, <1>4 DEF TypeOK
<1>6. Assigned' /\ InFlight' /\ DoneAtTheBottom'
  BY <1>1, <1>2, <1>3, <1>4 DEF Assigned, InFlight, DoneAtTheBottom
<1>7. PollSeesNewestMail' /\ BelowWindowIsLast' /\ CoveredIsStored' /\ FirstPollFirst'
  BY <1>2, <1>3, <1>4
     DEF PollSeesNewestMail, BelowWindowIsLast, CoveredIsStored, FirstPollFirst, LowestLive
<1>8. ClosedUpwards'
  <2>1. \A u \in box : page.highest < u /\ u < covered.to => u \in Rows
    BY <1>2 DEF PageTiles
  <2>2. \A r \in Rows', u \in box : ~ (r <= page.highest) /\ r <= u => page.highest < u
    BY <1>3, <1>2 DEF TypeOK
  <2>. QED
    BY <1>2, <1>3, <1>4, <2>1, <2>2 DEF ClosedUpwards
<1>9. StoredFromWatermark'
  BY <1>3, <1>4 DEF StoredFromWatermark
<1>10. PageTiles'
  BY <1>1, <1>2, <1>3, <1>4 DEF PageTiles
<1>11. BeyondCacheIsStored'
  BY <1>1, <1>2, <1>3, <1>4 DEF BeyondCacheIsStored, TypeOK
<1>. QED
  BY <1>5, <1>6, <1>7, <1>8, <1>9, <1>10, <1>11

\* The watermark moves when the last row of its page is stored.
LEMMA AdvanceWatermarkKeepsSync ==
  ASSUME SyncInv, SteadyFolder, AdvanceWatermark PROVE SyncInv'
<1> USE DEF SyncInv
<1>1. /\ pc = "pageSave" /\ pending = {} /\ pending' = {} /\ pc' = "end"
      /\ syncState' = [uidValidity |-> seenValidity, lastSeen |-> page.lowest,
                       done |-> ReachedTheBottom]
      /\ page' = [lowest |-> 0, highest |-> 0]
      /\ UNCHANGED <<server, rows, mark, cachedNext, fetched, seenValidity>>
      /\ UNCHANGED <<newUids, failures, history>>
  BY DEF AdvanceWatermark, PageStored, NoSpan
<1>2. /\ page.lowest \in Uids /\ page.highest \in Uids
      /\ page.lowest <= page.highest /\ page.highest < uidNext
  BY <1>1 DEF PageTiles, Assigned, TypeOK
<1>3. \A u \in box : page.lowest <= u /\ u < covered.to => u \in Rows
  BY <1>1, <1>2 DEF PageTiles, TypeOK
<1>4. TypeOK'
  <2>1. syncState' \in [uidValidity : Validities \cup {None},
                        lastSeen : Uids \cup {None}, done : BOOLEAN]
    BY <1>1, <1>2 DEF TypeOK, ReachedTheBottom
  <2>2. page' \in [lowest : Uids \cup {None}, highest : Uids \cup {None}]
    BY <1>1
  <2>. QED
    BY <1>1, <2>1, <2>2 DEF TypeOK
<1>5. Assigned' /\ DoneAtTheBottom'
  <2>1. page'.highest < uidNext' /\ syncState'.lastSeen < uidNext'
    BY <1>1, <1>2 DEF TypeOK
  <2>2. syncState'.done => syncState'.lastSeen = 1
    <3>1. syncState'.done = ReachedTheBottom /\ syncState'.lastSeen = page.lowest
      BY <1>1, Zenon
    <3>2. ReachedTheBottom => page.lowest = 1
      BY <1>2 DEF ReachedTheBottom
    <3>. QED
      BY <3>1, <3>2, Zenon
  <2>. QED
    BY <1>1, <2>1, <2>2 DEF Assigned, DoneAtTheBottom
<1>6. InFlight' /\ PollSeesNewestMail' /\ BelowWindowIsLast' /\ PageTiles'
  BY <1>1 DEF InFlight, PollSeesNewestMail, BelowWindowIsLast, PageTiles
<1>7. CoveredIsStored' /\ FirstPollFirst'
  BY <1>1 DEF CoveredIsStored, FirstPollFirst, LowestLive
<1>8. ClosedUpwards' /\ StoredFromWatermark'
  BY <1>1, <1>2, <1>3 DEF ClosedUpwards, StoredFromWatermark
<1>9. BeyondCacheIsStored'
  <2>1. Inbox => \A u \in box : cachedNext <= u /\ u < page.lowest => u \in Rows
    BY <1>1, <1>2 DEF BeyondCacheIsStored, InFlight, TypeOK
  <2>. QED
    BY <1>1, <2>1 DEF BeyondCacheIsStored
<1>. QED
  BY <1>4, <1>5, <1>6, <1>7, <1>8, <1>9
-----------------------------------------------------------------------------
(* The theorems.                                                           *)

\* A stutter changes nothing SyncInv speaks of.
LEMMA StutterKeepsSync == ASSUME SyncInv, UNCHANGED vars PROVE SyncInv'
<1> USE DEF SyncInv, vars
<1>1. TypeOK' /\ Assigned'
  BY DEF TypeOK, Assigned
<1>4. InFlight' /\ PollSeesNewestMail'
  BY DEF InFlight, PollSeesNewestMail, LowestLive
<1>2. BelowWindowIsLast' /\ CoveredIsStored' /\ FirstPollFirst' /\ ClosedUpwards'
  BY DEF BelowWindowIsLast, CoveredIsStored, FirstPollFirst, ClosedUpwards, LowestLive
<1>3. StoredFromWatermark' /\ PageTiles' /\ BeyondCacheIsStored' /\ DoneAtTheBottom'
  BY DEF StoredFromWatermark, PageTiles, BeyondCacheIsStored, DoneAtTheBottom
<1>. QED
  BY <1>1, <1>2, <1>3, <1>4

\* Every step keeps SyncInv; the renumbering ones are not taken.
LEMMA NextKeepsSync == ASSUME SyncInv, SteadyFolder, [Next]_vars PROVE SyncInv'
<1>1. ~ Renumber
  BY DEF SyncInv, TypeOK, Renumber, SteadyFolder
<1>2. ~ ResetWalk
  BY DEF SyncInv, TypeOK, ResetWalk, Renumbered, SteadyFolder
<1>3. CASE Environment
  BY <1>1, <1>3, DeliverKeepsSync, ExpungeKeepsSync DEF Environment
<1>4. CASE Failure
  BY <1>4, RestartKeepsSync, LiveThrowsKeepsSync, PlanThrowsKeepsSync,
     PageThrowsKeepsSync DEF Failure
<1>5. CASE Cycle
  BY <1>2, <1>5, PassingKeepsSync, FetchLiveKeepsSync, SaveLiveKeepsSync, TrackKeepsSync,
     MarkCompleteKeepsSync, FetchPageKeepsSync, SavePageKeepsSync,
     AdvanceWatermarkKeepsSync, EndCycleKeepsSync DEF Cycle
<1>6. CASE UNCHANGED vars
  BY <1>6, StutterKeepsSync
<1>. QED
  BY <1>3, <1>4, <1>5, <1>6 DEF Next

\* The inductive invariant, which holds the type invariant.
THEOREM SyncInvariant == ASSUME SteadyFolder PROVE Spec => []SyncInv
<1>1. Init => SyncInv
  BY InitSync
<1>2. SyncInv /\ [Next]_vars => SyncInv'
  BY NextKeepsSync
<1>. QED
  BY <1>1, <1>2, PTL DEF Spec

\* Everything at or above the floor of the walk is stored, or about to be:
\* where the watermark is null, the oldest row is as good (backfill.ts:240-273).
THEOREM NoMessageIsSkipped == ASSUME SteadyFolder PROVE Spec => []NoGapAboveFloor
<1>1. SyncInv => NoGapAboveFloor
  <2> SUFFICES ASSUME SyncInv, NEW f \in Uids, NEW u \in box,
                      IsFloor(f), f <= u, u < covered.to
               PROVE  u \in Rows \cup pending
    BY DEF NoGapAboveFloor
  <2> USE DEF SyncInv
  <2>1. CASE syncState.lastSeen # None
    BY <2>1 DEF IsFloor, StoredFromWatermark
  <2>2. CASE syncState.lastSeen = None
    <3>1. CASE pc = "pageSave" /\ f <= page.highest
      <4>1. CASE page.lowest <= u
        BY <3>1, <4>1 DEF PageTiles, TypeOK
      <4>2. CASE u < page.lowest
        BY <2>2, <3>1, <4>2 DEF IsFloor, PageTiles, TypeOK
      <4>. QED
        BY <4>1, <4>2 DEF TypeOK
    <3>2. CASE ~ (pc = "pageSave" /\ f <= page.highest)
      BY <2>2, <3>2 DEF IsFloor, ClosedUpwards
    <3>. QED
      BY <3>1, <3>2
  <2>. QED
    BY <2>1, <2>2
<1>. QED
  BY <1>1, SyncInvariant, PTL

\* A walk that says it is over has stored every message the live polls have
\* reached (schema.sql:117-118).
THEOREM DoneIsComplete == ASSUME SteadyFolder PROVE Spec => []DoneMeansWholeHistory
<1>1. SyncInv => DoneMeansWholeHistory
  BY DEF SyncInv, DoneMeansWholeHistory, DoneAtTheBottom, StoredFromWatermark, TypeOK
<1>. QED
  BY <1>1, SyncInvariant, PTL

\* A poll leaves out no message of its window that had arrived when it ran
\* (fetch.ts:139-187).
THEOREM PollIsComplete == ASSUME SteadyFolder PROVE Spec => []PollSeesNewestMail
<1>1. SyncInv => PollSeesNewestMail
  BY DEF SyncInv
<1>. QED
  BY <1>1, SyncInvariant, PTL

(* The sync of a folder in one piece: what its rows, floor, marks and      *)
(* batches say of each other, and that a poll has taken in its whole       *)
(* window.                                                                 *)
THEOREM PollHolds == ASSUME SteadyFolder PROVE Spec => []PollInv
  BY SyncInvariant, PollIsComplete, PTL DEF PollInv
-----------------------------------------------------------------------------
(* The marks, the batches and the walk's numbering, through renumberings,  *)
(* floods, and polls and pages that fail anywhere.                         *)

\* At first nothing is marked, announced or walked.
LEMMA InitMarks == ASSUME Init PROVE MarksInv
<1>1. walkThrew \in BOOLEAN /\ ThrewOnce /\ StaleDoneIsRevoked
  BY DEF Init, ThrewOnce, StaleDoneIsRevoked
<1>2. TypeOK
  BY <1>1 DEF Init, TypeOK, NoSpan, NoRange
<1>3. NumberingsAge /\ BatchInFlight /\ LastIsFetched /\ AnnouncedIsBelowMark
  BY DEF Init, NoSpan, NoRange, NumberingsAge, BatchInFlight, LastIsFetched,
         AnnouncedIsBelowMark
<1>4. AboveMarkIsNew /\ PageIsBelowWalk /\ NeverAnnouncedTwice /\ OnlyNewMailAnnounced
  BY DEF Init, NoSpan, NoRange, AboveMarkIsNew, PageIsBelowWalk,
         NeverAnnouncedTwice, OnlyNewMailAnnounced
<1>. QED
  BY <1>1, <1>2, <1>3, <1>4 DEF MarksInv

\* What was announced or polled is below the UID that is assigned next.
LEMMA DeliverKeepsMarks == ASSUME MarksInv, Deliver PROVE MarksInv'
<1> USE DEF MarksInv, Deliver
<1>1. TypeOK'
  BY DEF TypeOK
<1>2. NumberingsAge' /\ BatchInFlight'
  BY DEF TypeOK, NumberingsAge, BatchInFlight
<1>3. LastIsFetched'
  BY DEF TypeOK, LastIsFetched
<1>4. AnnouncedIsBelowMark'
  <2>1. \A u \in Uids : <<validity, u>> \in notified => u < uidNext
    BY DEF AnnouncedIsBelowMark
  <2>2. \A p \in notified' : p[1] <= validity' /\ (p[1] = validity' => p[2] < uidNext')
    BY DEF TypeOK, AnnouncedIsBelowMark
  <2>. QED
    BY <2>1, <2>2 DEF TypeOK, AnnouncedIsBelowMark
<1>5. AboveMarkIsNew'
  BY DEF TypeOK, AboveMarkIsNew
<1>6. PageIsBelowWalk' /\ NeverAnnouncedTwice' /\ OnlyNewMailAnnounced' /\ StaleDoneIsRevoked' /\ ThrewOnce'
  BY DEF PageIsBelowWalk, NeverAnnouncedTwice, OnlyNewMailAnnounced, StaleDoneIsRevoked, ThrewOnce
<1>. QED
  BY <1>1, <1>2, <1>3, <1>4, <1>5, <1>6

\* Every conjunct speaks of the messages there are.
LEMMA ExpungeKeepsMarks == ASSUME MarksInv, Expunge PROVE MarksInv'
<1> USE DEF MarksInv, Expunge
<1>1. TypeOK'
  BY DEF TypeOK
<1>2. NumberingsAge' /\ BatchInFlight' /\ LastIsFetched'
  BY DEF NumberingsAge, BatchInFlight, LastIsFetched
<1>3. AnnouncedIsBelowMark' /\ AboveMarkIsNew'
  BY DEF AnnouncedIsBelowMark, AboveMarkIsNew
<1>4. PageIsBelowWalk' /\ NeverAnnouncedTwice' /\ OnlyNewMailAnnounced' /\ StaleDoneIsRevoked' /\ ThrewOnce'
  BY DEF PageIsBelowWalk, NeverAnnouncedTwice, OnlyNewMailAnnounced, StaleDoneIsRevoked, ThrewOnce
<1>. QED
  BY <1>1, <1>2, <1>3, <1>4

\* Under a numbering that has just begun nothing was announced, and the mark
\* belongs to an older one.
LEMMA RenumberKeepsMarks == ASSUME MarksInv, Renumber PROVE MarksInv'
<1> USE DEF MarksInv
<1>1. /\ validity' = validity + 1 /\ uidNext' = Cardinality(box) + 1
      /\ box' = 1..Cardinality(box)
      /\ cachedNext' = None /\ pc \notin {"save", "pageSave"}
      /\ UNCHANGED <<kind, rows, syncState, mark, pc, fetched, pending, seenValidity>>
      /\ UNCHANGED <<page, newUids, failures, baseNext, notified, walkThrew>>
  BY DEF Renumber, Deselected
<1>2. Cardinality(box) \in 0..(uidNext - 1)
  <2>1. uidNext - 1 \in Nat /\ box \in SUBSET (1..(uidNext - 1))
    BY DEF TypeOK
  <2>. QED
    BY <2>1, NoMoreThanUids
<1>3. TypeOK'
  <2>1. uidNext' \in 1..(MaxUid + 1) /\ box' \subseteq 1..(uidNext' - 1)
    BY <1>1, <1>2 DEF TypeOK
  <2>2. /\ validity' \in Validities
        /\ polled' \in [from : Nat, to : Nat] /\ covered' \in [from : Nat, to : Nat]
        /\ rewalk' = "first"
    BY DEF Renumber, NoRange, TypeOK
  <2>. QED
    BY <1>1, <2>1, <2>2 DEF TypeOK
<1>4. fetched = {}
  BY <1>1 DEF BatchInFlight
<1>5. NumberingsAge' /\ BatchInFlight'
  BY <1>1, <1>2, <1>4 DEF TypeOK, NumberingsAge, BatchInFlight
<1>6. LastIsFetched' /\ PageIsBelowWalk'
  BY <1>1 DEF LastIsFetched, PageIsBelowWalk
<1>7. AnnouncedIsBelowMark' /\ AboveMarkIsNew'
  <2>1. mark'.validity # validity'
    BY <1>1 DEF TypeOK, NumberingsAge
  <2>2. \A p \in notified' : p[1] < validity'
    BY <1>1 DEF TypeOK, AnnouncedIsBelowMark
  <2>. QED
    BY <1>1, <2>1, <2>2 DEF TypeOK, AnnouncedIsBelowMark, AboveMarkIsNew
<1>8. NeverAnnouncedTwice' /\ OnlyNewMailAnnounced' /\ StaleDoneIsRevoked' /\ ThrewOnce'
  BY <1>1 DEF NeverAnnouncedTwice, OnlyNewMailAnnounced, StaleDoneIsRevoked, ThrewOnce
<1>. QED
  BY <1>3, <1>5, <1>6, <1>7, <1>8

\* connect() and a wake begin a cycle; a refused poll and a page that is not
\* walked pass on.
LEMMA PassingKeepsMarks ==
  ASSUME MarksInv, Connect \/ Wake \/ SkipLive \/ SkipPage
  PROVE  MarksInv'
<1> USE DEF MarksInv, Connect, Wake, SkipLive, SkipPage
<1>1. TypeOK'
  BY DEF TypeOK
<1>6. pc' \notin {"save", "pageSave"} /\ pc # "save"
  OBVIOUS
<1>7. seenValidity' \in {seenValidity, None}
  OBVIOUS
<1>2. NumberingsAge'
  BY <1>6, <1>7 DEF TypeOK, NumberingsAge
<1>8. BatchInFlight' /\ LastIsFetched'
  BY <1>6 DEF BatchInFlight, LastIsFetched
<1>3. AnnouncedIsBelowMark' /\ AboveMarkIsNew'
  BY DEF AnnouncedIsBelowMark, AboveMarkIsNew
<1>4. PageIsBelowWalk' /\ NeverAnnouncedTwice' /\ OnlyNewMailAnnounced'
  BY DEF PageIsBelowWalk, NeverAnnouncedTwice, OnlyNewMailAnnounced
<1>5. StaleDoneIsRevoked' /\ ThrewOnce'
  BY DEF StaleDoneIsRevoked, ThrewOnce, Renumbered
<1>. QED
  BY <1>1, <1>2, <1>3, <1>4, <1>5, <1>8

\* The batch is announced: it was below the mark, and below uidNext.
LEMMA EndCycleKeepsMarks == ASSUME MarksInv, EndCycle PROVE MarksInv'
<1> USE DEF MarksInv
<1>1. /\ pc = "end" /\ pc' = "idle" /\ newUids' = {} /\ seenValidity' = None
      /\ walkThrew' = FALSE
      /\ cachedNext' = uidNext \/ (cachedNext' = cachedNext /\ cachedNext # None)
      /\ UNCHANGED <<kind, box, uidNext, validity, rows, syncState, mark, fetched>>
      /\ UNCHANGED <<pending, page, failures, polled, covered, baseNext, rewalk>>
  BY DEF EndCycle, Opened
<1>2. \A p \in notified' : \/ p \in notified
                           \/ \E u \in newUids : p = <<mark.validity, u>>
  BY DEF EndCycle
<1>3. newUids # {} => mark.validity \in Validities
  BY DEF TypeOK, BatchInFlight
<1>4. TypeOK'
  <2>1. notified' \subseteq Validities \X Uids
    BY <1>2, <1>3 DEF TypeOK
  <2>2. cachedNext' \in 0..(MaxUid + 1)
    BY <1>1 DEF TypeOK
  <2>. QED
    BY <1>1, <2>1, <2>2 DEF TypeOK
<1>5. NumberingsAge' /\ BatchInFlight' /\ LastIsFetched'
  BY <1>1 DEF TypeOK, NumberingsAge, BatchInFlight, LastIsFetched
<1>6. AnnouncedIsBelowMark'
  <2>1. \A p \in notified' : p[1] <= validity /\ (p[1] = validity => p[2] < uidNext)
    BY <1>2 DEF TypeOK, NumberingsAge, BatchInFlight, AnnouncedIsBelowMark
  <2>2. ASSUME mark.validity # validity, NEW u \in Uids, <<validity, u>> \in notified'
        PROVE  u < cachedNext'
    <3>1. <<validity, u>> \in notified
      BY <1>2, <2>2
    <3>. QED
      BY <1>1, <2>2, <3>1 DEF AnnouncedIsBelowMark
  <2>3. ASSUME mark.validity = validity, NEW u \in box \cup fetched,
               <<validity, u>> \in notified'
        PROVE  u <= mark.max
    <3>1. <<validity, u>> \in notified \/ u \in newUids
      BY <1>2, <2>3
    <3>. QED
      BY <2>3, <3>1 DEF AnnouncedIsBelowMark, BatchInFlight
  <2>. QED
    BY <1>1, <2>1, <2>2, <2>3 DEF AnnouncedIsBelowMark
<1>7. AboveMarkIsNew' /\ PageIsBelowWalk' /\ StaleDoneIsRevoked' /\ ThrewOnce'
  BY <1>1 DEF AboveMarkIsNew, PageIsBelowWalk, StaleDoneIsRevoked, ThrewOnce
<1>8. NeverAnnouncedTwice' /\ OnlyNewMailAnnounced'
  BY <1>1 DEF NeverAnnouncedTwice, OnlyNewMailAnnounced
<1>. QED
  BY <1>4, <1>5, <1>6, <1>7, <1>8

\* A connection that is lost takes its batch along; a process that dies, the
\* mark.
LEMMA RestartKeepsMarks == ASSUME MarksInv, Drop \/ Crash PROVE MarksInv'
<1> USE DEF MarksInv
<1>1. /\ pc' = "down" /\ cachedNext' = None /\ seenValidity' = None
      /\ fetched' = {} /\ pending' = {} /\ newUids' = {}
      /\ page' = [lowest |-> None, highest |-> None]
      /\ mark' \in {mark, [validity |-> None, max |-> 0]} /\ walkThrew' = FALSE
      /\ UNCHANGED <<kind, box, uidNext, validity, rows, syncState>>
      /\ UNCHANGED <<polled, covered, baseNext, rewalk, notified>>
  BY DEF Drop, Crash, ForgetCycle, NoSpan
<1>2. TypeOK'
  <2>1. failures' \in 0..MaxFailures
    BY DEF Drop, Crash, MayFail, TypeOK
  <2>2. mark' \in [validity : Validities \cup {None}, max : Uids \cup {0}]
    BY <1>1 DEF TypeOK
  <2>3. walkThrew' \in BOOLEAN
    BY <1>1
  <2>. QED
    BY <1>1, <2>1, <2>2, <2>3 DEF TypeOK
<1>3. mark'.validity = validity => mark' = mark
  BY <1>1 DEF TypeOK
<1>4. mark'.validity <= validity
  BY <1>1 DEF TypeOK, NumberingsAge
<1>5. NumberingsAge' /\ BatchInFlight' /\ LastIsFetched'
  BY <1>1, <1>4 DEF TypeOK, NumberingsAge, BatchInFlight, LastIsFetched
<1>6. AnnouncedIsBelowMark' /\ AboveMarkIsNew'
  BY <1>1, <1>3 DEF AnnouncedIsBelowMark, AboveMarkIsNew
<1>7. PageIsBelowWalk' /\ NeverAnnouncedTwice' /\ OnlyNewMailAnnounced' /\ StaleDoneIsRevoked' /\ ThrewOnce'
  BY <1>1 DEF PageIsBelowWalk, NeverAnnouncedTwice, OnlyNewMailAnnounced, StaleDoneIsRevoked, ThrewOnce
<1>. QED
  BY <1>2, <1>5, <1>6, <1>7

\* A poll, a plan or a page that throws leaves the mark and the batch alone; a
\* renumbering that is observed and not written is one whose walk threw.
LEMMA ThrowKeepsMarks ==
  ASSUME MarksInv, LiveThrows \/ PlanThrows \/ PageThrows PROVE MarksInv'
<1> USE DEF MarksInv
<1>1. /\ \/ pc' = "plan" /\ pc = "save" /\ seenValidity' = None
         \/ pc' = "end" /\ pc = "pageSave" /\ seenValidity' = seenValidity
         \/ pc' = "end" /\ pc = "plan" /\ seenValidity' = seenValidity /\ walkThrew' = TRUE
      /\ pc # "plan" => UNCHANGED walkThrew
      /\ walkThrew' \in {walkThrew, TRUE}
      /\ fetched' \subseteq fetched /\ (pc = "save" => fetched' = {})
      /\ pending' \in {{}, pending}
      /\ UNCHANGED <<kind, box, uidNext, validity, rows, syncState, mark, cachedNext>>
      /\ UNCHANGED <<newUids, polled, covered, baseNext, rewalk, notified>>
  <2>1. CASE LiveThrows
    BY <2>1 DEF LiveThrows
  <2>2. CASE PageThrows
    BY <2>2 DEF PageThrows
  <2>3. CASE PlanThrows
    BY <2>3 DEF PlanThrows
  <2>. QED
    BY <2>1, <2>2, <2>3
<1>2. TypeOK'
  <2>1. failures' \in 0..MaxFailures
    BY DEF LiveThrows, PlanThrows, PageThrows, MayFail, TypeOK
  <2>2. page' \in [lowest : Uids \cup {None}, highest : Uids \cup {None}]
    BY DEF LiveThrows, PlanThrows, PageThrows, NoSpan, TypeOK
  <2>. QED
    BY <1>1, <2>1, <2>2 DEF TypeOK
<1>5. NumberingsAge' /\ BatchInFlight' /\ LastIsFetched'
  BY <1>1 DEF TypeOK, NumberingsAge, BatchInFlight, LastIsFetched
<1>6. AnnouncedIsBelowMark' /\ AboveMarkIsNew'
  BY <1>1 DEF AnnouncedIsBelowMark, AboveMarkIsNew
<1>7. PageIsBelowWalk' /\ NeverAnnouncedTwice' /\ OnlyNewMailAnnounced' /\ StaleDoneIsRevoked' /\ ThrewOnce'
  BY <1>1 DEF PageIsBelowWalk, NeverAnnouncedTwice, OnlyNewMailAnnounced, StaleDoneIsRevoked, ThrewOnce
<1>. QED
  BY <1>2, <1>5, <1>6, <1>7

\* The last message of the mailbox is fetched, whatever uidNext the connection
\* has cached, unless that says the mailbox never held one.
LEMMA LiveRangeHasLast ==
  ASSUME TypeOK, NEW next \in 1..uidNext
  PROVE  /\ LiveRange(next) \subseteq box
         /\ next > 1 => \A u \in box : \E w \in LiveRange(next) : u <= w
<1>1. LiveRange(next) \subseteq box
  BY DEF LiveRange
<1>2. ASSUME next > 1, NEW u \in box PROVE \E w \in LiveRange(next) : u <= w
  <2>1. uidNext - 1 \in Int /\ box \in SUBSET (1..(uidNext - 1)) /\ box # {}
    BY <1>2 DEF TypeOK
  <2>2. PICK m \in box : \A v \in box : v <= m
    BY <2>1, HasLast
  <2>3. ~ (next - 1 < LowestLive(next))
    BY <1>2 DEF LowestLive, TypeOK
  <2>. QED
    BY <2>2, <2>3 DEF LiveRange
<1>. QED
  BY <1>1, <1>2

\* A fetch reads the numbering in force, and sets the baseline of a mark that
\* belongs to another one.
LEMMA FetchLiveKeepsMarks == ASSUME MarksInv, FetchLive PROVE MarksInv'
<1> USE DEF MarksInv
<1>1. PICK next \in Opened :
        /\ cachedNext' = next
        /\ fetched' = LiveRange(next)
        /\ polled' = [from |-> LowestLive(next), to |-> uidNext]
        /\ baseNext' = IF mark.validity = validity THEN baseNext ELSE next
  BY DEF FetchLive
<1>2. /\ next \in 1..uidNext
      /\ next = uidNext \/ (next = cachedNext /\ cachedNext # None)
  BY DEF Opened, TypeOK, NumberingsAge
<1>3. /\ fetched' \subseteq box
      /\ next > 1 => \A u \in box : \E w \in fetched' : u <= w
  BY <1>1, <1>2, LiveRangeHasLast
<1>4. /\ pc = "poll" /\ pc' = "save" /\ seenValidity' = validity /\ pending' = fetched'
      /\ UNCHANGED <<kind, box, uidNext, validity, rows, syncState, mark, page>>
      /\ UNCHANGED <<newUids, failures, covered, rewalk, notified, walkThrew>>
  BY DEF FetchLive
<1>5. TypeOK'
  <2>1. polled' \in [from : Nat, to : Nat] /\ baseNext' \in 0..(MaxUid + 1)
    BY <1>1, <1>2 DEF TypeOK, LowestLive
  <2>2. fetched' \subseteq Uids
    BY <1>3 DEF TypeOK
  <2>3. cachedNext' \in 0..(MaxUid + 1)
    BY <1>1, <1>2 DEF TypeOK
  <2>. QED
    BY <1>4, <2>1, <2>2, <2>3 DEF TypeOK
<1>6. NumberingsAge'
  BY <1>1, <1>2, <1>4 DEF TypeOK, NumberingsAge
<1>7. BatchInFlight'
  BY <1>3, <1>4 DEF TypeOK, BatchInFlight
<1>8. LastIsFetched'
  BY <1>1, <1>2, <1>3, <1>4 DEF TypeOK, LastIsFetched
<1>9. AnnouncedIsBelowMark'
  BY <1>1, <1>2, <1>3, <1>4 DEF TypeOK, AnnouncedIsBelowMark
<1>10. AboveMarkIsNew'
  BY <1>1, <1>3, <1>4 DEF TypeOK, AboveMarkIsNew
<1>11. newUids = {}
  BY <1>4 DEF BatchInFlight
<1>12. PageIsBelowWalk' /\ NeverAnnouncedTwice' /\ OnlyNewMailAnnounced' /\ StaleDoneIsRevoked' /\ ThrewOnce'
  BY <1>4, <1>11
     DEF PageIsBelowWalk, NeverAnnouncedTwice, OnlyNewMailAnnounced, StaleDoneIsRevoked, ThrewOnce
<1>. QED
  BY <1>5, <1>6, <1>7, <1>8, <1>9, <1>10, <1>12

\* An upsert writes a row; the marks do not speak of rows.
LEMMA SaveKeepsMarks == ASSUME MarksInv, SaveLive \/ SavePage PROVE MarksInv'
<1> USE DEF MarksInv
<1>1. PICK w \in pending : /\ rows' = [rows EXCEPT ![w] = seenValidity]
                           /\ pending' = pending \ {w}
  BY DEF SaveLive, SavePage
<1>2. UNCHANGED <<server, syncState, mark, cachedNext, pc, fetched, seenValidity, page,
                  newUids, failures, history>>
  BY DEF SaveLive, SavePage
<1>3. TypeOK'
  <2>1. rows' \in [Uids -> Validities \cup {None}] /\ pending' \subseteq Uids
    BY <1>1 DEF TypeOK
  <2>. QED
    BY <1>2, <2>1 DEF TypeOK
<1>4. NumberingsAge' /\ BatchInFlight' /\ LastIsFetched'
  BY <1>2 DEF NumberingsAge, BatchInFlight, LastIsFetched
<1>5. AnnouncedIsBelowMark' /\ AboveMarkIsNew'
  BY <1>2 DEF AnnouncedIsBelowMark, AboveMarkIsNew
<1>6. PageIsBelowWalk' /\ NeverAnnouncedTwice' /\ OnlyNewMailAnnounced' /\ StaleDoneIsRevoked' /\ ThrewOnce'
  BY <1>2 DEF PageIsBelowWalk, NeverAnnouncedTwice, OnlyNewMailAnnounced, StaleDoneIsRevoked, ThrewOnce
<1>. QED
  BY <1>3, <1>4, <1>5, <1>6

\* track(): a baseline takes in the last message, so all that was announced or
\* had come in is at or below the mark; a later poll reports what is above it.
LEMMA TrackKeepsMarks == ASSUME MarksInv, Track PROVE MarksInv'
<1> USE DEF MarksInv
<1>1. /\ pc = "save" /\ pc' = "plan" /\ fetched' = {}
      /\ seenValidity = validity /\ cachedNext # None
      /\ UNCHANGED <<kind, box, uidNext, validity, rows, syncState, cachedNext, pending>>
      /\ UNCHANGED <<seenValidity, page, failures, polled, baseNext, rewalk, notified>>
      /\ UNCHANGED walkThrew
  BY DEF Track, NumberingsAge
<1>2. PICK m \in {IF StartsBaseline THEN 0 ELSE mark.max} \cup fetched :
        /\ \A u \in fetched : u <= m
        /\ StartsBaseline \/ mark.max <= m
        /\ mark' = [validity |-> validity, max |-> m]
  BY <1>1 DEF Track
<1>3. m \in Uids \cup {0}
  BY <1>2 DEF TypeOK
<1>4. newUids' = IF mark.validity = validity THEN {u \in fetched : u > mark.max} ELSE {}
  BY <1>1 DEF Track, StartsBaseline, AboveMark
<1>5. StartsBaseline <=> mark.validity # validity
  BY <1>1 DEF StartsBaseline
<1>6. ASSUME NEW u \in box, u < cachedNext PROVE u <= m
  <2>1. cachedNext > 1 /\ u < polled.to /\ u \in Nat
    BY <1>1, <1>6 DEF LastIsFetched, TypeOK
  <2>2. PICK w \in fetched : u <= w
    BY <1>1, <2>1 DEF LastIsFetched
  <2>. QED
    BY <1>2, <1>3, <2>1, <2>2 DEF TypeOK
<1>7. TypeOK'
  <2>1. covered' \in [from : Nat, to : Nat]
    BY DEF Track, TypeOK
  <2>2. newUids' \subseteq Uids
    BY <1>4 DEF TypeOK
  <2>3. mark' \in [validity : Validities \cup {None}, max : Uids \cup {0}]
    BY <1>2, <1>3 DEF TypeOK
  <2>. QED
    BY <1>1, <2>1, <2>2, <2>3 DEF TypeOK
<1>8. NumberingsAge' /\ LastIsFetched'
  BY <1>1, <1>2 DEF TypeOK, NumberingsAge, LastIsFetched
<1>9. BatchInFlight'
  BY <1>1, <1>2, <1>4 DEF TypeOK, BatchInFlight
<1>10. AnnouncedIsBelowMark'
  <2>1. ASSUME NEW u \in box, <<validity, u>> \in notified PROVE u <= m
    <3>1. CASE mark.validity = validity
      BY <1>2, <1>3, <1>5, <2>1, <3>1 DEF AnnouncedIsBelowMark, TypeOK
    <3>2. CASE mark.validity # validity
      BY <1>1, <1>6, <2>1, <3>2 DEF AnnouncedIsBelowMark, TypeOK
    <3>. QED
      BY <3>1, <3>2
  <2>. QED
    BY <1>1, <1>2, <2>1 DEF AnnouncedIsBelowMark
<1>11. AboveMarkIsNew'
  <2>1. CASE mark.validity = validity
    BY <1>1, <1>2, <1>3, <1>5, <2>1 DEF AboveMarkIsNew, TypeOK
  <2>2. CASE mark.validity # validity
    <3>1. baseNext = cachedNext /\ baseNext <= uidNext
      BY <1>1, <2>2 DEF AboveMarkIsNew, NumberingsAge
    <3>2. \A u \in box : m < u => baseNext <= u
      BY <1>3, <1>6, <3>1 DEF TypeOK
    <3>. QED
      BY <1>1, <1>2, <3>1, <3>2 DEF AboveMarkIsNew
  <2>. QED
    BY <2>1, <2>2
<1>12. PageIsBelowWalk' /\ StaleDoneIsRevoked' /\ ThrewOnce'
  BY <1>1 DEF PageIsBelowWalk, StaleDoneIsRevoked, ThrewOnce
<1>13. NeverAnnouncedTwice'
  BY <1>1, <1>2, <1>4 DEF NeverAnnouncedTwice, AnnouncedIsBelowMark, TypeOK
<1>14. OnlyNewMailAnnounced'
  BY <1>1, <1>4 DEF OnlyNewMailAnnounced, AboveMarkIsNew, TypeOK
<1>. QED
  BY <1>7, <1>8, <1>9, <1>10, <1>11, <1>12, <1>13, <1>14

\* A write of sync_state: it carries the numbering the cycle observed, if any.
LEMMA WalkKeepsMarks ==
  ASSUME MarksInv, ResetWalk \/ MarkComplete \/ AdvanceWatermark PROVE MarksInv'
<1> USE DEF MarksInv
<1>1. /\ pc' \in {"plan", "end"} /\ pc \in {"plan", "pageSave"}
      /\ pending' \subseteq pending
      /\ UNCHANGED <<kind, box, uidNext, validity, rows, mark, cachedNext, fetched>>
      /\ UNCHANGED <<seenValidity, newUids, failures>>
      /\ UNCHANGED <<polled, covered, baseNext, notified, walkThrew>>
  BY DEF ResetWalk, MarkComplete, AdvanceWatermark
<1>2. /\ syncState'.uidValidity \in {seenValidity, syncState.uidValidity}
      /\ seenValidity # None => syncState'.uidValidity = seenValidity
      /\ syncState' \in [uidValidity : Validities \cup {None},
                         lastSeen : Uids \cup {None}, done : BOOLEAN]
  <2>1. CASE ResetWalk
    BY <2>1 DEF ResetWalk, TypeOK
  <2>2. CASE MarkComplete
    BY <2>2 DEF MarkComplete, TypeOK
  <2>3. CASE AdvanceWatermark
    BY <2>3 DEF AdvanceWatermark, ReachedTheBottom, TypeOK
  <2>. QED
    BY <2>1, <2>2, <2>3
<1>3. TypeOK'
  <2>1. page' \in [lowest : Uids \cup {None}, highest : Uids \cup {None}]
    BY DEF ResetWalk, MarkComplete, AdvanceWatermark, NoSpan, TypeOK
  <2>2. rewalk' \in {"first", "reset", "paged"}
    BY DEF ResetWalk, MarkComplete, AdvanceWatermark, TypeOK
  <2>. QED
    BY <1>1, <1>2, <2>1, <2>2 DEF TypeOK
<1>4. NumberingsAge'
  BY <1>1, <1>2 DEF TypeOK, NumberingsAge
<1>5. BatchInFlight' /\ LastIsFetched'
  BY <1>1 DEF BatchInFlight, LastIsFetched
<1>6. AnnouncedIsBelowMark' /\ AboveMarkIsNew'
  BY <1>1 DEF AnnouncedIsBelowMark, AboveMarkIsNew
<1>7. NeverAnnouncedTwice' /\ OnlyNewMailAnnounced' /\ PageIsBelowWalk'
  BY <1>1 DEF NeverAnnouncedTwice, OnlyNewMailAnnounced, PageIsBelowWalk
<1>8. StaleDoneIsRevoked' /\ ThrewOnce'
  BY <1>1, <1>2 DEF StaleDoneIsRevoked, ThrewOnce
<1>. QED
  BY <1>3, <1>4, <1>5, <1>6, <1>7, <1>8

\* A page begins just below the floor, so below the watermark if there is one.
LEMMA FetchPageKeepsMarks == ASSUME MarksInv, FetchPage PROVE MarksInv'
<1> USE DEF MarksInv
<1>1. PICK f \in Uids, next \in Opened :
        /\ IsFloor(f) /\ f > 1
        /\ page' = PageBelow(f)
        /\ cachedNext' = next
        /\ pending' \subseteq box
  BY DEF FetchPage
<1>2. /\ next \in 1..uidNext
      /\ next = uidNext \/ (next = cachedNext /\ cachedNext # None)
  BY DEF Opened, TypeOK, NumberingsAge
<1>3. /\ pc = "plan" /\ pc' = "pageSave" /\ seenValidity' = validity
      /\ ~ syncState.done /\ rewalk' = "paged"
      /\ UNCHANGED <<kind, box, uidNext, validity, rows, syncState, mark, fetched>>
      /\ UNCHANGED <<newUids, failures, polled, covered, baseNext, notified, walkThrew>>
  BY DEF FetchPage
<1>4. /\ page'.lowest \in Uids /\ page'.highest \in Uids
      /\ page'.lowest <= page'.highest /\ page'.highest < f
      /\ page' = [lowest |-> page'.lowest, highest |-> page'.highest]
  BY <1>1 DEF PageBelow
<1>5. TypeOK'
  <2>1. cachedNext' \in 0..(MaxUid + 1)
    BY <1>1, <1>2 DEF TypeOK
  <2>2. pending' \subseteq Uids
    BY <1>1 DEF TypeOK
  <2>. QED
    BY <1>3, <1>4, <2>1, <2>2 DEF TypeOK
<1>6. NumberingsAge'
  BY <1>1, <1>2, <1>3 DEF TypeOK, NumberingsAge
<1>7. BatchInFlight' /\ LastIsFetched' /\ AboveMarkIsNew'
  BY <1>3 DEF BatchInFlight, LastIsFetched, AboveMarkIsNew
<1>8. AnnouncedIsBelowMark'
  BY <1>1, <1>2, <1>3 DEF TypeOK, AnnouncedIsBelowMark
<1>9. PageIsBelowWalk'
  BY <1>1, <1>3, <1>4 DEF PageIsBelowWalk, IsFloor
<1>10. NeverAnnouncedTwice' /\ OnlyNewMailAnnounced' /\ StaleDoneIsRevoked' /\ ThrewOnce'
  BY <1>3 DEF NeverAnnouncedTwice, OnlyNewMailAnnounced, StaleDoneIsRevoked, ThrewOnce
<1>. QED
  BY <1>5, <1>6, <1>7, <1>8, <1>9, <1>10

\* A stutter changes nothing MarksInv speaks of.
LEMMA StutterKeepsMarks == ASSUME MarksInv, UNCHANGED vars PROVE MarksInv'
<1> USE DEF MarksInv, vars
<1>1. TypeOK'
  BY DEF TypeOK
<1>2. NumberingsAge' /\ BatchInFlight' /\ LastIsFetched'
  BY DEF NumberingsAge, BatchInFlight, LastIsFetched
<1>3. AnnouncedIsBelowMark' /\ AboveMarkIsNew' /\ PageIsBelowWalk'
  BY DEF AnnouncedIsBelowMark, AboveMarkIsNew, PageIsBelowWalk
<1>4. NeverAnnouncedTwice' /\ OnlyNewMailAnnounced' /\ StaleDoneIsRevoked' /\ ThrewOnce'
  BY DEF NeverAnnouncedTwice, OnlyNewMailAnnounced, StaleDoneIsRevoked, ThrewOnce
<1>. QED
  BY <1>1, <1>2, <1>3, <1>4

\* Every step keeps MarksInv.
LEMMA NextKeepsMarks == ASSUME MarksInv, [Next]_vars PROVE MarksInv'
<1>1. CASE Environment
  BY <1>1, DeliverKeepsMarks, ExpungeKeepsMarks, RenumberKeepsMarks DEF Environment
<1>2. CASE Failure
  BY <1>2, RestartKeepsMarks, ThrowKeepsMarks DEF Failure
<1>3. CASE Cycle
  BY <1>3, PassingKeepsMarks, FetchLiveKeepsMarks, SaveKeepsMarks, TrackKeepsMarks,
     WalkKeepsMarks, FetchPageKeepsMarks, EndCycleKeepsMarks DEF Cycle
<1>4. CASE UNCHANGED vars
  BY <1>4, StutterKeepsMarks
<1>. QED
  BY <1>1, <1>2, <1>3, <1>4 DEF Next

\* The marks, the batches, the walk and the numberings agree with each other,
\* of a folder that is renumbered at will and fails anywhere.
THEOREM MarksInvariant == Spec => []MarksInv
<1>1. Init => MarksInv
  BY InitMarks
<1>2. MarksInv /\ [Next]_vars => MarksInv'
  BY NextKeepsMarks
<1>. QED
  BY <1>1, <1>2, PTL DEF Spec

\* No message is announced twice, and none that was there when the process
\* first looked at the folder under the numbering in force
\* (new-mail-marks.ts:62-98, pool.ts:861-872).
THEOREM MailIsNewOnce == Spec => []NewMailOnce
<1>1. MarksInv => NewMailOnce
  BY DEF MarksInv, NewMailOnce
<1>. QED
  BY <1>1, MarksInvariant, PTL

\* The terminal flag of another numbering outlives a cycle that observed the one
\* in force only if that cycle's walk threw before it could plan a page
\* (backfill.ts:273-283, 671).
THEOREM StaleDoneGoes == Spec => []StaleDoneIsRevoked
<1>1. MarksInv => StaleDoneIsRevoked
  BY DEF MarksInv
<1>. QED
  BY <1>1, MarksInvariant, PTL

\* Nothing but a renumbering moves the watermark up or takes the terminal flag
\* back (backfill.ts:291-294).
THEOREM WalkGoesDown == Spec => WalkRestartsOnlyIfRenumbered
<1> DEFINE Restarts == \/ syncState.done /\ ~ syncState'.done
                       \/ /\ syncState.lastSeen # None
                          /\ syncState'.lastSeen = None \/ syncState'.lastSeen > syncState.lastSeen
<1>1. MarksInv /\ [Next]_vars => [Restarts => syncState.uidValidity # validity]_vars
  <2> SUFFICES ASSUME MarksInv, Next, Restarts PROVE syncState.uidValidity # validity
    BY DEF vars
  <2> USE DEF MarksInv
  <2>1. UNCHANGED syncState => ~ Restarts
    BY DEF TypeOK
  <2>2. ResetWalk \/ MarkComplete \/ AdvanceWatermark \/ UNCHANGED syncState
    BY DEF Next, Environment, Failure, Cycle, Deliver, Expunge, Renumber, Drop, Crash,
           LiveThrows, PlanThrows, PageThrows, Connect, Wake, FetchLive, SkipLive, SaveLive, Track,
           SkipPage, FetchPage, SavePage, EndCycle
  <2>3. CASE ResetWalk
    BY <2>3 DEF ResetWalk, Renumbered, NumberingsAge, TypeOK
  <2>4. CASE MarkComplete
    BY <2>4 DEF MarkComplete, IsFloor, TypeOK
  <2>5. CASE AdvanceWatermark
    BY <2>5 DEF AdvanceWatermark, PageIsBelowWalk, TypeOK
  <2>. QED
    BY <2>1, <2>2, <2>3, <2>4, <2>5
<1>. QED
  BY <1>1, MarksInvariant, PTL DEF Spec, WalkRestartsOnlyIfRenumbered
=============================================================================
