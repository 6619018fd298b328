----------------------------- MODULE ByteBudget -----------------------------
(***************************************************************************)
(* The daily download allowance of one account (sync/src/budget.ts) and    *)
(* everything that spends it: the live poll and the backfill page of a     *)
(* sync cycle (imap/pool.ts, imap/backfill.ts), their previews             *)
(* (imap/previews.ts) and the API's on-demand fetches (api/fetch-part.ts). *)
(*                                                                         *)
(* A reservation is advisory: reserve() reads the counter and holds        *)
(* nothing, and the bytes are recorded after they have crossed the wire.   *)
(* What keeps the counter under the limit is that every spender is inside  *)
(* the account's mutex, which is here the lock FifoLock specifies.         *)
(*                                                                         *)
(* Bytes are counted in units of 1024, the size of a preview estimate.     *)
(***************************************************************************)
EXTENDS Integers

CONSTANTS
  Daily,     \* DAILY_BYTE_LIMIT
  Share,     \* BACKFILL_BYTE_LIMIT, 70% of it
  Window,    \* HEADER_FETCH_LIMIT
  PageSize,  \* BACKFILL_PAGE_SIZE
  MaxPart,   \* MAX_BODY_PART_BYTES
  Surplus,   \* bound: messages "low:*" brings beyond the window it reserved for
  Cycle,     \* the account's sync cycle
  Requests,  \* the API's fetches
  Nobody     \* "the lock is free"

ASSUME SizesAssumption == /\ {Daily, Share, Window, PageSize} \subseteq Nat \ {0}
                          /\ {MaxPart, Surplus} \subseteq Nat
                          /\ Share < Daily
ASSUME CallersAssumption == Cycle \notin Requests /\ Nobody \notin Requests \cup {Cycle}

Callers == {Cycle} \cup Requests
HeaderCost == 2    \* ESTIMATED_BYTES_PER_HEADER_FETCH
PreviewCost == 1   \* ESTIMATED_BYTES_PER_PREVIEW_FETCH
BackfilledCost == HeaderCost + PreviewCost

VARIABLES
  used,    \* byte_budget: what today's row holds
  holder,  \* who holds the account's lock
  op       \* what a caller is doing: the stage, how many messages, and the
           \* limit it reserves against

vars == <<used, holder, op>>

Stages == {"idle", "locked", "headers", "messages", "previews", "part"}
Idle == [stage |-> "idle", n |-> 0, limit |-> Daily]
Locked == [Idle EXCEPT !.stage = "locked"]

Init == used = 0 /\ holder = Nobody /\ op = [c \in Callers |-> Idle]

At(c, stage) == op[c].stage = stage
Goto(c, next) == op' = [op EXCEPT ![c] = next]

\* Mutant: the snapshot is not looked at.
AllowedWhole(requested, limit) == requested <= limit

\* checkBudget()
Allowed(requested, limit) == requested <= limit - used
-----------------------------------------------------------------------------
\* Mutant: a caller that does not wait for its turn.
LockIgnored == TRUE

LockFree == holder = Nobody

\* mutex.run() calls the task
Acquire(c) ==
  /\ At(c, "idle") /\ LockFree
  /\ holder' = c
  /\ Goto(c, Locked)
  /\ UNCHANGED used

\* The task ends: the cycle has gone through its folders, the request is
\* answered or refused (429).
Release(c) ==
  /\ At(c, "locked")
  /\ holder' = Nobody
  /\ Goto(c, Idle)
  /\ UNCHANGED used

\* Anything throws, before or after its bytes crossed the wire: they are not
\* recorded.  The task ends, or the cycle goes on with the next folder.
Throw(c) ==
  /\ ~ At(c, "idle") /\ ~ At(c, "locked")
  /\ \/ /\ holder' = Nobody
        /\ Goto(c, Idle)
     \/ /\ c = Cycle
        /\ Goto(c, Locked)
        /\ UNCHANGED holder
  /\ UNCHANGED used
-----------------------------------------------------------------------------
(* The sync cycle.                                                         *)

\* syncFolder(): reserve() for a full window; refused, the folder is skipped
ReservePoll ==
  /\ At(Cycle, "locked")
  /\ Allowed(Window * HeaderCost, Daily)
  /\ Goto(Cycle, [stage |-> "headers", n |-> Window + Surplus, limit |-> Daily])
  /\ UNCHANGED <<used, holder>>

\* Mutants: the page reserves its headers only; against the whole day.
ReservePageHeaders ==
  /\ At(Cycle, "locked")
  /\ \E span \in 1..PageSize :
       /\ Allowed(span * HeaderCost, Share)
       /\ Goto(Cycle, [stage |-> "headers", n |-> span, limit |-> Share])
  /\ UNCHANGED <<used, holder>>
ReservePageFromDay ==
  /\ At(Cycle, "locked")
  /\ \E span \in 1..PageSize :
       /\ Allowed(span * BackfilledCost, Daily)
       /\ Goto(Cycle, [stage |-> "headers", n |-> span, limit |-> Share])
  /\ UNCHANGED <<used, holder>>

\* runBackfillPage(): headers and previews of the whole span at once, against
\* the backfill share
ReservePage ==
  /\ At(Cycle, "locked")
  /\ \E span \in 1..PageSize :
       /\ Allowed(span * BackfilledCost, Share)
       /\ Goto(Cycle, [stage |-> "headers", n |-> span, limit |-> Share])
  /\ UNCHANGED <<used, holder>>

\* fetchHeaders() returned: what it yielded is recorded
RecordHeaders ==
  /\ At(Cycle, "headers")
  /\ \E n \in 0..op[Cycle].n :
       /\ used' = used + n * HeaderCost
       /\ Goto(Cycle, [op[Cycle] EXCEPT !.stage = "messages", !.n = n])
  /\ UNCHANGED holder

\* collectPreviews(): reserve for the messages that have a text part and no
\* snippet yet.  Refused, or with none, the folder goes on without previews.
ReservePreviews ==
  /\ At(Cycle, "messages")
  /\ \E m \in 0..op[Cycle].n :
       IF m > 0 /\ Allowed(m * PreviewCost, op[Cycle].limit)
       THEN Goto(Cycle, [op[Cycle] EXCEPT !.stage = "previews", !.n = m])
       ELSE Goto(Cycle, Locked)
  /\ UNCHANGED <<used, holder>>

\* fetchPreviews() returned or threw: every message asked for is recorded
RecordPreviews ==
  /\ At(Cycle, "previews")
  /\ used' = used + op[Cycle].n * PreviewCost
  /\ Goto(Cycle, Locked)
  /\ UNCHANGED holder
-----------------------------------------------------------------------------
(* The API: fetchBudgetedPart().                                           *)

\* The size is not known before the fetch, so the cap is reserved.
ReservePart(r) ==
  /\ At(r, "locked")
  /\ Allowed(MaxPart, Daily)
  /\ Goto(r, [stage |-> "part", n |-> 1, limit |-> Daily])
  /\ UNCHANGED <<used, holder>>

\* The measured size is recorded, or the cap when the part was larger, and the
\* request answered.
RecordPart(r) ==
  /\ At(r, "part")
  /\ \E bytes \in 0..MaxPart : used' = used + bytes
  /\ Goto(r, Idle)
  /\ holder' = Nobody
-----------------------------------------------------------------------------
\* today() changes: reserve() and record() use the row of another day
Midnight == /\ used > 0
            /\ used' = 0
            /\ UNCHANGED <<holder, op>>

\* The process restarts; the row is in Postgres.
Restart == /\ holder # Nobody
           /\ holder' = Nobody
           /\ op' = [c \in Callers |-> Idle]
           /\ UNCHANGED used

CycleStep == ReservePoll \/ ReservePage \/ RecordHeaders \/ ReservePreviews \/ RecordPreviews

Next == \/ \E c \in Callers : Acquire(c) \/ Release(c) \/ Throw(c)
        \/ CycleStep
        \/ \E r \in Requests : ReservePart(r) \/ RecordPart(r)
        \/ Midnight \/ Restart

Spec == Init /\ [][Next]_vars
-----------------------------------------------------------------------------
TypeOK ==
  /\ used \in Nat
  /\ holder \in Callers \cup {Nobody}
  /\ op \in [Callers -> [stage : Stages, n : Nat, limit : {Daily, Share}]]

\* A day's downloads stay under the limit, although a reservation holds
\* nothing: only a live poll may pass it, by the mail that arrived since the
\* connection's SELECT (budget.ts:3-8, fetch.ts:177-182).
UsedWithinDay == used <= Daily + Surplus * HeaderCost

\* collectPreviews() never refuses a backfill page: its messages would lose
\* their previews for good, since no later page looks at them again
\* (backfill.ts:129-144).
PagePreviewsNeverRefused ==
  At(Cycle, "messages") /\ op[Cycle].limit = Share =>
    Allowed(op[Cycle].n * PreviewCost, Share)

\* A page of history never takes the day's counter past its share: the rest
\* belongs to new mail (backfill.ts:106-117).
BackfillLeavesTheRest ==
  [][ /\ op[Cycle].limit = Share
      /\ op[Cycle].stage \in {"headers", "previews"}
      /\ used' > used
      => used' <= Share ]_vars
-----------------------------------------------------------------------------
(* The inductive invariant: the account's lock is what turns an advisory   *)
(* reservation into one.                                                   *)

OnlyTheHolder == \A c \in Callers : ~ At(c, "idle") => holder = c

\* What the operation under way may still record fits.
Room(c) ==
  /\ At(c, "headers") /\ op[c].limit = Daily =>
       op[c].n <= Window + Surplus /\ used + Window * HeaderCost <= Daily
  /\ At(c, "headers") /\ op[c].limit = Share => used + op[c].n * BackfilledCost <= Share
  /\ At(c, "messages") /\ op[c].limit = Share => used + op[c].n * PreviewCost <= Share
  /\ At(c, "previews") => used + op[c].n * PreviewCost <= op[c].limit
  /\ At(c, "part") => used + MaxPart <= Daily

\* The cycle fetches headers and previews, a request fetches parts.
OwnStages == /\ ~ At(Cycle, "part")
             /\ \A r \in Requests : op[r].stage \in {"idle", "locked", "part"}

BudgetInv == /\ TypeOK
             /\ OnlyTheHolder
             /\ OwnStages
             /\ \A c \in Callers : Room(c)
             /\ UsedWithinDay

(* What a poll or a page has reserved is in the counter, and the counter   *)
(* stays within the day.                                                   *)
DayInv == BudgetInv /\ UsedWithinDay
=============================================================================
