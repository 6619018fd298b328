----------------------------- MODULE FollowupView -----------------------------
(***************************************************************************)
(* The view of sent mail waiting for an answer: it loads the first page of *)
(* an account and appends further pages by cursor, to rank what it has.    *)
(* Answers come in any order, and may fail; a selection that moved on      *)
(* drops what was asked for the one before.                                *)
(*                                                                         *)
(* A row is <<account, n>>, sent mail n of it, newest first; `standing`    *)
(* says what the service would answer for it now.                          *)
(***************************************************************************)
EXTENDS Integers, FiniteSets

CONSTANTS Accounts, States,   \* engagement states
          Rows,                      \* sent messages of an account
          PageSize, MaxSel, MaxChanges,   \* rows of a page; bounds
          None

VARIABLES account,    \* the account selected
          standing,   \* row -> its state at the service
          view,       \* load state, rows loaded (with the state they came in), cursor
          selection,  \* selectionRef
          reqs,       \* fetches in flight
          changes     \* times a state changed
vars == <<account, standing, view, selection, reqs, changes>>

Row == Accounts \X (1 .. Rows)
Loaded == [row: Row, state: States]
View == [load: {"loading", "ready", "error"}, rows: SUBSET Loaded,
         cursor: 1 .. Rows \union {None}, more: BOOLEAN, available: BOOLEAN]
Request == [selection: 1 .. MaxSel, account: Accounts, from: 0 .. Rows]

TypeOK ==
  /\ account \in Accounts
  /\ standing \in [Row -> States]
  /\ view \in View
  /\ selection \in 1 .. MaxSel
  /\ reqs \subseteq Request

Ask(sel, who, from) == [selection |-> sel, account |-> who, from |-> from]

Init == /\ account \in Accounts
        /\ standing \in [Row -> States]
        /\ view = [load |-> "loading", rows |-> {}, cursor |-> None,
                   more |-> FALSE, available |-> TRUE]
        /\ selection = 1
        /\ reqs = {Ask(1, account, 0)}
        /\ changes = 0

Opened(row, state) == /\ changes < MaxChanges
                      /\ standing[row] # state
                      /\ standing' = [standing EXCEPT ![row] = state]
                      /\ changes' = changes + 1
                      /\ UNCHANGED <<account, view, selection, reqs>>

(* The effect: a fresh first page; what is loaded stays until it is here.  *)
Select(who, retried) ==
  /\ IF retried THEN who = account /\ view.load = "error" ELSE who # account
  /\ selection < MaxSel
  /\ selection' = selection + 1
  /\ account' = who
  /\ view' = [view EXCEPT !.load = "loading"]
  /\ reqs' = reqs \union {Ask(selection', who, 0)}
  /\ UNCHANGED <<standing, changes>>

LoadMore == /\ view.load = "ready" /\ ~view.more /\ view.cursor # None
            /\ view' = [view EXCEPT !.more = TRUE]
            /\ reqs' = reqs \union {Ask(selection, account, view.cursor)}
            /\ UNCHANGED <<account, standing, selection, changes>>

Least(a, b) == IF a < b THEN a ELSE b
PageRows(r) == {[row |-> <<r.account, n>>, state |-> standing[<<r.account, n>>]] :
                n \in r.from + 1 .. Least(r.from + PageSize, Rows)}
NextCursor(r) == IF r.from + PageSize <= Rows THEN r.from + PageSize ELSE None

(* Mutant: the answer of an earlier selection is taken as well.            *)
CurrentAlways(r) == TRUE
Current(r) == r.selection = selection

Appended(r) == IF r.from = 0 THEN PageRows(r) ELSE view.rows \union PageRows(r)

Answer(r, available) ==
  /\ r \in reqs
  /\ reqs' = reqs \ {r}
  /\ view' = IF ~Current(r) THEN view
             ELSE [load |-> "ready", rows |-> Appended(r), cursor |-> NextCursor(r),
                   more |-> view.more /\ r.from = 0, available |-> available]
  /\ UNCHANGED <<account, standing, selection, changes>>

(* A first page that fails replaces the view, a further one is noted.      *)
Fail(r) ==
  /\ r \in reqs
  /\ reqs' = reqs \ {r}
  /\ view' = IF ~Current(r) THEN view
             ELSE IF r.from = 0 THEN [view EXCEPT !.load = "error"]
             ELSE [view EXCEPT !.more = FALSE]
  /\ UNCHANGED <<account, standing, selection, changes>>

Next == \/ \E row \in Row, state \in States : Opened(row, state)
        \/ \E who \in Accounts, retried \in BOOLEAN : Select(who, retried)
        \/ LoadMore
        \/ \E r \in reqs, available \in BOOLEAN : Answer(r, available)
        \/ \E r \in reqs : Fail(r)
Spec == Init /\ [][Next]_vars

(*------------------------------ properties -------------------------------*)
(* The rows on screen are an unbroken run from the newest of the selected  *)
(* account, each row once, up to the cursor the next page starts at.       *)
RowsAreThePrefix ==
  view.load = "ready" =>
    LET loaded == {l.row : l \in view.rows}
        n == Cardinality(loaded)
    IN /\ Cardinality(view.rows) = n
       /\ loaded = {account} \X (1 .. n)
       /\ IF view.cursor = None THEN n = Rows ELSE n = view.cursor

(* "Load more" is only disabled while the page it waits for is on its way. *)
SpinnerIsOwned ==
  view.load = "ready" /\ view.more =>
    \E r \in reqs : r.selection = selection /\ r.from # 0

(* The inductive invariant: what is out for the present selection is of its*)
(* account, either the first page or the one at the cursor; and each row up*)
(* to the cursor is loaded, once.                                          *)
AsksAreCurrent ==
  \A r \in reqs :
    /\ r.selection <= selection
    /\ Current(r) =>
         /\ r.account = account
         /\ IF r.from = 0 THEN view.load = "loading"
            ELSE view.load = "ready" /\ view.cursor = r.from
Reached == IF view.cursor = None THEN Rows ELSE view.cursor
EachRowOnce ==
  view.load = "ready" =>
    /\ {l.row : l \in view.rows} = {account} \X (1 .. Reached)
    /\ \A k, l \in view.rows : k.row = l.row => k = l

ViewInv == TypeOK /\ AsksAreCurrent /\ EachRowOnce
==============================================================================
