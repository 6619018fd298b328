-------------------------- MODULE ByteBudgetProofs --------------------------
(***************************************************************************)
(* Theorems about the daily byte budget, for every limit, window, page     *)
(* size, part size and number of concurrent requests: BudgetInv is         *)
(* inductive, one lemma per group of actions.                              *)
(***************************************************************************)
EXTENDS ByteBudget, TLAPS

USE SizesAssumption, CallersAssumption
USE DEF HeaderCost, PreviewCost, BackfilledCost, Callers, Stages, At

LEMMA InitBudget == Init => BudgetInv
  BY DEF Init, Idle, BudgetInv, TypeOK, OnlyTheHolder, OwnStages, Room, UsedWithinDay

\* A caller that takes the lock, gives it up, or fails has nothing reserved,
\* and nobody else did.
LEMMA LockingKeepsBudget ==
  ASSUME BudgetInv, NEW c \in Callers, Acquire(c) \/ Release(c) \/ Throw(c)
  PROVE  BudgetInv'
<1> USE DEF BudgetInv, Acquire, Release, Throw, Goto, Idle, Locked, LockFree
<1>1. /\ used' = used
      /\ op' = [op EXCEPT ![c] = Idle] \/ op' = [op EXCEPT ![c] = Locked]
  OBVIOUS
<1>2. TypeOK'
  BY DEF TypeOK
<1>3. OnlyTheHolder'
  BY DEF OnlyTheHolder, TypeOK
<1>4. OwnStages'
  BY <1>1 DEF OwnStages, TypeOK
<1>5. \A d \in Callers : Room(d)'
  BY <1>1 DEF Room, TypeOK
<1>6. UsedWithinDay'
  BY <1>1 DEF UsedWithinDay
<1>. QED
  BY <1>2, <1>3, <1>4, <1>5, <1>6

\* While one caller holds the lock, the others have nothing reserved, so what
\* it records disturbs nobody.
LEMMA HolderKeepsBudget ==
  ASSUME BudgetInv,
         NEW c \in Callers, ~ At(c, "idle"),
         NEW next \in [stage : Stages, n : Nat, limit : {Daily, Share}],
         Goto(c, next),
         holder' = holder \/ (holder' = Nobody /\ next.stage = "idle"),
         used' \in Nat, used' <= Daily + Surplus * HeaderCost,
         Room(c)',
         c = Cycle => next.stage # "part",
         c # Cycle => next.stage \in {"idle", "locked", "part"}
  PROVE  BudgetInv'
<1> USE DEF BudgetInv, Goto
<1>1. \A d \in Callers \ {c} : At(d, "idle") /\ op'[d] = op[d]
  BY DEF OnlyTheHolder, TypeOK
<1>2. op'[c] = next
  BY DEF TypeOK
<1>3. TypeOK'
  BY DEF TypeOK
<1>4. OnlyTheHolder'
  BY <1>1, <1>2 DEF OnlyTheHolder
<1>5. OwnStages'
  BY <1>1, <1>2 DEF OwnStages
<1>6. \A d \in Callers : Room(d)'
  BY <1>1 DEF Room
<1>7. UsedWithinDay'
  BY DEF UsedWithinDay
<1>. QED
  BY <1>3, <1>4, <1>5, <1>6, <1>7

\* The sync cycle's steps.
LEMMA CycleKeepsBudget == ASSUME BudgetInv, CycleStep PROVE BudgetInv'
<1> USE DEF BudgetInv
<1>0. op[Cycle] \in [stage : Stages, n : Nat, limit : {Daily, Share}] /\ Room(Cycle)
  BY DEF TypeOK
<1>1. CASE ReservePoll
  <2> DEFINE next == [stage |-> "headers", n |-> Window + Surplus, limit |-> Daily]
  <2>1. /\ ~ At(Cycle, "idle") /\ Goto(Cycle, next) /\ UNCHANGED <<used, holder>>
        /\ used + Window * HeaderCost <= Daily
    BY <1>1 DEF ReservePoll, Allowed, TypeOK
  <2>2. next \in [stage : Stages, n : Nat, limit : {Daily, Share}] /\ op'[Cycle] = next
    BY <2>1 DEF Goto, TypeOK
  <2>3. Room(Cycle)'
    BY <2>1, <2>2 DEF Room
  <2>. QED
    BY <2>1, <2>2, <2>3, HolderKeepsBudget DEF UsedWithinDay, TypeOK
<1>2. CASE ReservePage
  <2>1. PICK span \in 1..PageSize :
          /\ Allowed(span * BackfilledCost, Share)
          /\ Goto(Cycle, [stage |-> "headers", n |-> span, limit |-> Share])
    BY <1>2 DEF ReservePage
  <2> DEFINE next == [stage |-> "headers", n |-> span, limit |-> Share]
  <2>2. /\ ~ At(Cycle, "idle") /\ Goto(Cycle, next) /\ UNCHANGED <<used, holder>>
        /\ used + span * BackfilledCost <= Share
    BY <1>2, <2>1 DEF ReservePage, Allowed, TypeOK
  <2>3. next \in [stage : Stages, n : Nat, limit : {Daily, Share}] /\ op'[Cycle] = next
    BY <2>2 DEF Goto, TypeOK
  <2>4. Room(Cycle)'
    BY <2>2, <2>3 DEF Room
  <2>. QED
    BY <2>2, <2>3, <2>4, HolderKeepsBudget DEF UsedWithinDay, TypeOK
<1>3. CASE RecordHeaders
  <2>1. PICK n \in 0..op[Cycle].n :
          /\ used' = used + n * HeaderCost
          /\ Goto(Cycle, [op[Cycle] EXCEPT !.stage = "messages", !.n = n])
    BY <1>3 DEF RecordHeaders
  <2> DEFINE next == [op[Cycle] EXCEPT !.stage = "messages", !.n = n]
  <2>2. /\ At(Cycle, "headers") /\ Goto(Cycle, next) /\ UNCHANGED holder
        /\ used' = used + 2 * n /\ n \in Nat /\ n <= op[Cycle].n /\ used \in Nat
    BY <1>0, <1>3, <2>1 DEF RecordHeaders, TypeOK
  <2>3. /\ next \in [stage : Stages, n : Nat, limit : {Daily, Share}]
        /\ op'[Cycle] = next
        /\ next.stage = "messages" /\ next.n = n /\ next.limit = op[Cycle].limit
    BY <1>0, <2>2 DEF Goto, TypeOK
  <2>4. op[Cycle].limit = Share => used' + n * PreviewCost <= Share
    BY <1>0, <2>2 DEF Room
  <2>5. Room(Cycle)'
    BY <2>3, <2>4 DEF Room
  <2>6. used' <= Daily + Surplus * HeaderCost
    <3>1. CASE op[Cycle].limit = Share
      BY <2>2, <2>4, <3>1
    <3>2. CASE op[Cycle].limit = Daily
      BY <1>0, <2>2, <3>2 DEF Room
    <3>. QED
      BY <1>0, <3>1, <3>2
  <2>7. ~ At(Cycle, "idle") /\ used' \in Nat /\ next.stage # "part" /\ Cycle \in Callers
    BY <2>2, <2>3
  <2> HIDE DEF next
  <2>. QED
    BY <2>2, <2>3, <2>5, <2>6, <2>7, HolderKeepsBudget
<1>4. CASE ReservePreviews
  <2>1. PICK m \in 0..op[Cycle].n :
          IF m > 0 /\ Allowed(m * PreviewCost, op[Cycle].limit)
          THEN Goto(Cycle, [op[Cycle] EXCEPT !.stage = "previews", !.n = m])
          ELSE Goto(Cycle, Locked)
    BY <1>4 DEF ReservePreviews
  <2>2. /\ At(Cycle, "messages") /\ UNCHANGED <<used, holder>>
        /\ m \in Nat /\ used \in Nat /\ used <= Daily + Surplus * HeaderCost
    BY <1>0, <1>4 DEF ReservePreviews, TypeOK, UsedWithinDay
  <2>3. CASE m > 0 /\ Allowed(m * PreviewCost, op[Cycle].limit)
    <3> DEFINE next == [op[Cycle] EXCEPT !.stage = "previews", !.n = m]
    <3>1. /\ next \in [stage : Stages, n : Nat, limit : {Daily, Share}]
          /\ next.stage = "previews" /\ next.n = m /\ next.limit = op[Cycle].limit
          /\ Goto(Cycle, next) /\ op'[Cycle] = next
      BY <1>0, <2>1, <2>2, <2>3 DEF Goto, TypeOK
    <3>2. Room(Cycle)'
      BY <1>0, <2>2, <2>3, <3>1 DEF Room, Allowed
    <3>. QED
      BY <2>2, <3>1, <3>2, HolderKeepsBudget
  <2>4. CASE ~ (m > 0 /\ Allowed(m * PreviewCost, op[Cycle].limit))
    <3>1. Goto(Cycle, Locked) /\ op'[Cycle] = Locked
      BY <2>1, <2>4 DEF Goto, TypeOK
    <3>2. Room(Cycle)'
      BY <3>1 DEF Room, Locked, Idle
    <3>. QED
      BY <2>2, <3>1, <3>2, HolderKeepsBudget DEF Locked, Idle
  <2>. QED
    BY <2>3, <2>4
<1>5. CASE RecordPreviews
  <2>1. /\ At(Cycle, "previews") /\ Goto(Cycle, Locked) /\ UNCHANGED holder
        /\ used' = used + op[Cycle].n /\ used \in Nat
    BY <1>0, <1>5 DEF RecordPreviews, TypeOK
  <2>2. used' \in Nat /\ used' <= Daily + Surplus * HeaderCost
    BY <1>0, <2>1 DEF Room
  <2>3. op'[Cycle] = Locked
    BY <2>1 DEF Goto, TypeOK
  <2>4. Room(Cycle)'
    BY <2>3 DEF Room, Locked, Idle
  <2>. QED
    BY <2>1, <2>2, <2>3, <2>4, HolderKeepsBudget DEF Locked, Idle
<1>. QED
  BY <1>1, <1>2, <1>3, <1>4, <1>5 DEF CycleStep

\* The API's steps.
LEMMA RequestKeepsBudget ==
  ASSUME BudgetInv, NEW r \in Requests, ReservePart(r) \/ RecordPart(r)
  PROVE  BudgetInv'
<1> USE DEF BudgetInv
<1>0. op[r] \in [stage : Stages, n : Nat, limit : {Daily, Share}] /\ Room(r) /\ used \in Nat
  BY DEF TypeOK
<1>1. CASE ReservePart(r)
  <2> DEFINE next == [stage |-> "part", n |-> 1, limit |-> Daily]
  <2>1. /\ At(r, "locked") /\ Goto(r, next) /\ UNCHANGED <<used, holder>>
        /\ used + MaxPart <= Daily
    BY <1>0, <1>1 DEF ReservePart, Allowed
  <2>2. next \in [stage : Stages, n : Nat, limit : {Daily, Share}] /\ op'[r] = next
    BY <2>1 DEF Goto, TypeOK
  <2>3. Room(r)'
    BY <2>1, <2>2 DEF Room
  <2>. QED
    BY <1>0, <2>1, <2>2, <2>3, HolderKeepsBudget DEF UsedWithinDay
<1>2. CASE RecordPart(r)
  <2>1. PICK bytes \in 0..MaxPart : used' = used + bytes
    BY <1>2 DEF RecordPart
  <2>2. /\ At(r, "part") /\ Goto(r, Idle) /\ holder' = Nobody
    BY <1>2 DEF RecordPart
  <2>3. used' \in Nat /\ used' <= Daily + Surplus * HeaderCost
    BY <1>0, <2>1, <2>2 DEF Room
  <2>4. op'[r] = Idle
    BY <2>2 DEF Goto, TypeOK
  <2>5. Room(r)'
    BY <2>4 DEF Room, Idle
  <2>. QED
    BY <2>2, <2>3, <2>4, <2>5, HolderKeepsBudget DEF Idle
<1>. QED
  BY <1>1, <1>2

\* Another day, another process.
LEMMA SurroundingsKeepBudget == ASSUME BudgetInv, Midnight \/ Restart PROVE BudgetInv'
<1> USE DEF BudgetInv
<1>1. CASE Midnight
  <2>1. used' = 0 /\ op' = op /\ holder' = holder /\ used \in Nat
    BY <1>1 DEF Midnight, TypeOK
  <2>2. TypeOK' /\ OnlyTheHolder' /\ OwnStages' /\ UsedWithinDay'
    BY <2>1 DEF TypeOK, OnlyTheHolder, OwnStages, UsedWithinDay
  <2>3. ASSUME NEW c \in Callers PROVE Room(c)'
    <3>1. Room(c) /\ op[c] \in [stage : Stages, n : Nat, limit : {Daily, Share}]
      BY DEF TypeOK
    <3>. QED
      BY <2>1, <3>1 DEF Room
  <2>. QED
    BY <2>2, <2>3
<1>2. CASE Restart
  BY <1>2 DEF Restart, Idle, TypeOK, OnlyTheHolder, OwnStages, Room, UsedWithinDay
<1>. QED
  BY <1>1, <1>2

\* BudgetInv is inductive.
LEMMA NextKeepsBudget == ASSUME BudgetInv, [Next]_vars PROVE BudgetInv'
<1>1. CASE \E c \in Callers : Acquire(c) \/ Release(c) \/ Throw(c)
  BY <1>1, LockingKeepsBudget
<1>2. CASE CycleStep
  BY <1>2, CycleKeepsBudget
<1>3. CASE \E r \in Requests : ReservePart(r) \/ RecordPart(r)
  BY <1>3, RequestKeepsBudget
<1>4. CASE Midnight \/ Restart
  BY <1>4, SurroundingsKeepBudget
<1>5. CASE UNCHANGED vars
  BY <1>5 DEF vars, BudgetInv, TypeOK, OnlyTheHolder, OwnStages, Room, UsedWithinDay
<1>. QED
  BY <1>1, <1>2, <1>3, <1>4, <1>5 DEF Next

\* The invariant of the advisory reservations (budget.ts, keyed-mutex.ts).
THEOREM BudgetInvariant == Spec => []BudgetInv
  BY InitBudget, NextKeepsBudget, PTL DEF Spec

\* A day's recorded downloads never pass the limit by more than what one live
\* poll brings beyond its window (budget.ts:3-8).
THEOREM DayIsBounded == Spec => []UsedWithinDay
<1>1. BudgetInv => UsedWithinDay
  BY DEF BudgetInv
<1>. QED
  BY <1>1, BudgetInvariant, PTL

\* A page's previews are never refused once its headers are fetched
\* (backfill.ts:129-144).
THEOREM PagesKeepTheirPreviews == Spec => []PagePreviewsNeverRefused
<1>1. BudgetInv => PagePreviewsNeverRefused
  BY DEF BudgetInv, PagePreviewsNeverRefused, Room, Allowed, TypeOK
<1>. QED
  BY <1>1, BudgetInvariant, PTL

\* A page of history never takes the counter past the backfill share
\* (backfill.ts:106-117).
THEOREM RestIsForNewMail == Spec => BackfillLeavesTheRest
<1>1. ASSUME BudgetInv, [Next]_vars,
             op[Cycle].limit = Share, op[Cycle].stage \in {"headers", "previews"},
             used' > used
      PROVE  used' <= Share
  <2>0. /\ op[Cycle] \in [stage : Stages, n : Nat, limit : {Daily, Share}]
        /\ Room(Cycle) /\ used \in Nat /\ holder = Cycle
    BY <1>1 DEF BudgetInv, TypeOK, OnlyTheHolder
  <2>1. CASE RecordHeaders
    <3>1. PICK n \in 0..op[Cycle].n : used' = used + n * HeaderCost
      BY <2>1 DEF RecordHeaders
    <3>. QED
      BY <1>1, <2>0, <2>1, <3>1 DEF RecordHeaders, Room
  <2>2. CASE RecordPreviews
    BY <1>1, <2>0, <2>2 DEF RecordPreviews, Room
  <2>3. CASE \E r \in Requests : RecordPart(r)
    BY <1>1, <2>0, <2>3 DEF RecordPart, BudgetInv, OnlyTheHolder
  <2>4. CASE UNCHANGED used
    BY <1>1, <2>0, <2>4
  <2>5. CASE Midnight
    BY <1>1, <2>0, <2>5 DEF Midnight
  <2>. QED
    BY <1>1, <2>1, <2>2, <2>3, <2>4, <2>5
       DEF Next, vars, CycleStep, Acquire, Release, Throw, ReservePoll, ReservePage,
           ReservePreviews, ReservePart, Restart
<1>. QED
  BY <1>1, BudgetInvariant, PTL DEF Spec, BackfillLeavesTheRest

(* What a poll or a page has reserved is in the counter, and the counter   *)
(* stays within the day.                                                   *)
THEOREM DayHolds == Spec => []DayInv
  BY BudgetInvariant, DayIsBounded, PTL DEF DayInv
=============================================================================
