------------------------------ MODULE InboxPages ------------------------------
(***************************************************************************)
(* The list of the web client: InboxList.tsx fetches the first page of a   *)
(* scope (folder, account and search text together) and appends further    *)
(* pages by cursor, while App.tsx keeps the keyboard cursor and the search *)
(* input with its debounced query.                                         *)
(*                                                                         *)
(* A message is <<scope, n>>: message n of its scope, higher is newer; a   *)
(* page is the next PageSize messages below the cursor.  Each message is a *)
(* conversation of its own here (grouping is Conversations.tla).           *)
(***************************************************************************)
EXTENDS Integers, Sequences, Functions, FiniteSets

CONSTANTS Folders, Inbox,     \* folders; the one a session starts in
          Queries,            \* search texts without the empty one
          NoQuery,            \* the empty search text
          First, PageSize,    \* messages a scope starts with; rows of a page
          MaxTop, MaxSel,     \* bounds: messages of a scope; fetch effects run
          MaxHidden,          \* bound: rows moved away
          None

VARIABLES shown,     \* TRUE: the inbox view is up and InboxList is mounted
          folder, input, query,
          timer,     \* TRUE: the debounce timer is armed
          top,       \* scope -> number of its newest message
          list,      \* InboxList's state
          reqs,      \* fetches in flight
          hidden,    \* messages this session moved away
          rows,      \* App: keys of the last reported list
          cursor     \* App: keyboard cursor, [key, index]
vars == <<shown, folder, input, query, timer, top, list, reqs, hidden, rows,
          cursor>>
where == <<shown, folder, input, query, timer>>
app == <<rows, cursor>>

Texts == Queries \union {NoQuery}
Scopes == Folders \X Texts
Message == Scopes \X (1 .. MaxTop)
Request == [kind: {"first", "more"}, sel: 1 .. MaxSel, scope: Scopes,
            from: 1 .. MaxTop \union {None}]
List == [messages: Seq(Message), next: 1 .. MaxTop \union {None},
         load: {"loading", "ready", "error"}, more: BOOLEAN, sel: 1 .. MaxSel,
         synced: SUBSET Folders]
Nothing == [key |-> None, index |-> 0]
Cursor == [key: Message, index: Nat] \union {Nothing}

TypeOK ==
  /\ shown \in BOOLEAN /\ timer \in BOOLEAN
  /\ folder \in Folders /\ input \in Texts /\ query \in Texts
  /\ top \in [Scopes -> 0 .. MaxTop]
  /\ list \in List
  /\ reqs \subseteq Request
  /\ hidden \subseteq Message
  /\ rows \in Seq(Message)
  /\ cursor \in Cursor

Scope == <<folder, query>>

(* visibleMessages: what is drawn and reported.                            *)
Drawn(messages, gone) ==
  LET kept[n \in 0 .. Len(messages)] ==
        IF n = 0 THEN <<>>
        ELSE IF messages[n] \in gone THEN kept[n - 1] ELSE Append(kept[n - 1], messages[n])
  IN kept[Len(messages)]

Place(key, keys) == CHOOSE i \in 1 .. Len(keys) : keys[i] = key

(* Mutant: the place in the old list is kept in every list.                *)
ReconcileByIndex(keys) ==
  IF keys = << >> \/ cursor.key = None THEN Nothing
  ELSE LET i == IF cursor.index > Len(keys) THEN Len(keys) ELSE cursor.index
       IN [key |-> keys[i], index |-> i]
(* reconcileSelection(snapshotSelection(rows, cursor.index), keys): the    *)
(* same message when it is still there, the same place (clamped) when the  *)
(* head is unchanged, else the newest row.                                 *)
Reconcile(keys) ==
  IF keys = << >> \/ cursor.key = None THEN Nothing
  ELSE IF cursor.key \in Range(keys)
    THEN [key |-> cursor.key, index |-> Place(cursor.key, keys)]
  ELSE LET i == IF keys[1] = rows[1]
                  THEN IF cursor.index > Len(keys) THEN Len(keys)
                                                   ELSE cursor.index
                  ELSE 1
       IN [key |-> keys[i], index |-> i]

(* Mutant: the list is stored and the cursor is left alone.                *)
ReportOnly(keys) == rows' = keys /\ UNCHANGED cursor
(* handleConversationsChange and the reconciliation that follows it.       *)
Report(keys) ==
  /\ rows' = keys
  /\ cursor' = Reconcile(keys)

(* The server's page below the cursor `from' (None: the first page).       *)
PageOf(scope, from) ==
  LET high == IF from = None THEN top[scope] ELSE from - 1
      low == IF high > PageSize THEN high - PageSize + 1 ELSE 1
  IN [messages |-> [i \in 1 .. (high - low + 1) |-> <<scope, high - i + 1>>],
      next |-> IF low > 1 THEN low ELSE None]

Fresh == [messages |-> << >>, next |-> None, load |-> "loading",
          more |-> FALSE, sel |-> 1, synced |-> {}]

Init ==
  /\ shown = TRUE /\ timer = FALSE
  /\ folder = Inbox /\ input = NoQuery /\ query = NoQuery
  /\ top \in {[s \in Scopes |-> IF s \in empty THEN 0 ELSE First] :
                empty \in {{}, {s \in Scopes : s[1] # folder}}}
  /\ list = Fresh
  /\ reqs = {[kind |-> "first", sel |-> 1, scope |-> Scope, from |-> None]}
  /\ hidden = {} /\ rows = << >> /\ cursor = Nothing

(* Mutant: the effect leaves the load-more state alone.                    *)
RestartKeepsSpinner(l) == [l EXCEPT !.sel = @ + 1, !.load = "loading"]
(* The fetch effect: what was in flight belongs to the past; the old rows  *)
(* stay in the state behind the skeleton.                                  *)
Restart(l) == [l EXCEPT !.sel = @ + 1, !.load = "loading", !.more = FALSE]

FetchEffect(l) ==
  /\ l.sel < MaxSel
  /\ list' = Restart(l)
  /\ reqs' = reqs \union {[kind |-> "first", sel |-> l.sel + 1,
                           scope |-> <<folder', query'>>, from |-> None]}

(* InboxList is mounted when the inbox view comes up, with empty state, and*)
(* reports its empty list first.                                           *)
Show == IF shown THEN FetchEffect(list) /\ UNCHANGED app
        ELSE FetchEffect(list) /\ Report(<< >>)

(* changeFolder (and changeAccount): the view is the inbox again.          *)
ChangeFolder(f) ==
  /\ f # folder \/ ~shown
  /\ folder' = f
  /\ shown' = TRUE
  /\ UNCHANGED <<input, query, timer, top, hidden>>
  /\ Show

(* changeView to another view: the list is unmounted and its state is gone;*)
(* the answers still out are for nobody.                                   *)
LeaveList ==
  /\ shown
  /\ shown' = FALSE
  /\ list' = [Fresh EXCEPT !.sel = list.sel]
  /\ reqs' = {}
  /\ UNCHANGED <<folder, input, query, timer, top, hidden, app>>

(* Mutant: the empty text waits for a timer it never gets.                 *)
QueryKept(text) == query
(* The empty text is taken at once, another when its timer fires.          *)
QueryAfter(text) == IF text = NoQuery THEN NoQuery ELSE query

(* handleSearchChange, and useDebouncedQuery's effect: the empty text is   *)
(* taken at once, another after the timer.  Starting a search brings the   *)
(* list up.                                                                *)
TypeText(text) ==
  /\ text # input
  /\ input' = text
  /\ shown' = (shown \/ (input = NoQuery))
  /\ query' = QueryAfter(text)
  /\ timer' = (text # NoQuery)
  /\ UNCHANGED <<folder, top, hidden>>
  /\ IF shown' /\ (~shown \/ query' # query)
       THEN Show ELSE UNCHANGED <<list, reqs, app>>

Debounced ==
  /\ timer
  /\ timer' = FALSE
  /\ query' = input
  /\ UNCHANGED <<shown, folder, input, top, hidden>>
  /\ IF shown /\ query' # query
       THEN Show ELSE UNCHANGED <<list, reqs, app>>

(* retry, offered under the error.                                         *)
Retry ==
  /\ shown /\ list.load = "error"
  /\ UNCHANGED <<where, top, hidden>>
  /\ Show

(* An answer that was overtaken changes nothing.                           *)
Current(r) == shown /\ r.sel = list.sel

(* Mutant: a page of the selection before is appended.                     *)
TakesAny(r) == shown
Takes(r) == Current(r)

FirstPage(r) ==
  LET page == PageOf(r.scope, None)
      after == [list EXCEPT !.messages = page.messages, !.next = page.next,
                 !.load = "ready",
                 !.synced = IF page.messages # << >> THEN @ \union {folder}
                                                     ELSE @]
  IN /\ r.kind = "first"
     /\ reqs' = reqs \ {r}
     /\ IF Current(r) THEN list' = after /\ Report(Drawn(after.messages, hidden))
                      ELSE UNCHANGED <<list, app>>
     /\ UNCHANGED <<where, top, hidden>>

FirstPageFails(r) ==
  /\ r.kind = "first"
  /\ reqs' = reqs \ {r}
  /\ list' = IF Current(r) THEN [list EXCEPT !.load = "error"] ELSE list
  /\ UNCHANGED <<where, top, hidden, app>>

(* loadMore: the button is drawn under the rows and disabled by a fetch.   *)
LoadMore ==
  /\ shown /\ list.load = "ready" /\ Drawn(list.messages, hidden) # << >>
  /\ list.next # None /\ ~list.more
  /\ list' = [list EXCEPT !.more = TRUE]
  /\ reqs' = reqs \union {[kind |-> "more", sel |-> list.sel, scope |-> Scope,
                           from |-> list.next]}
  /\ UNCHANGED <<where, top, hidden, app>>

(* resolveLoadMorePage: appended to the latest list, or discarded.         *)
MorePage(r) ==
  LET page == PageOf(r.scope, r.from)
      after == [list EXCEPT !.messages = @ \o page.messages,
                            !.next = page.next, !.more = FALSE]
  IN /\ r.kind = "more"
     /\ reqs' = reqs \ {r}
     /\ IF Takes(r) THEN list' = after /\ Report(Drawn(after.messages, hidden))
                    ELSE UNCHANGED <<list, app>>
     /\ UNCHANGED <<where, top, hidden>>

MorePageFails(r) ==
  /\ r.kind = "more"
  /\ reqs' = reqs \ {r}
  /\ list' = IF Current(r) THEN [list EXCEPT !.more = FALSE] ELSE list
  /\ UNCHANGED <<where, top, hidden, app>>

(* Mail arrives while the list is up.                                      *)
NewMail(s) ==
  /\ s = Scope /\ top[s] < MaxTop
  /\ top' = [top EXCEPT ![s] = @ + 1]
  /\ UNCHANGED <<where, list, reqs, hidden, app>>

(* moveCursor, selectMessage and openAt: any reported row.                 *)
PutCursor(i) ==
  /\ cursor' = [key |-> rows[i], index |-> i]
  /\ UNCHANGED <<where, top, list, reqs, hidden, rows>>

(* performMove hides the row under the cursor at once (MailboxMoves).      *)
HideRow ==
  /\ shown /\ cursor.key # None /\ Cardinality(hidden) < MaxHidden
  /\ hidden' = hidden \union {cursor.key}
  /\ Report(Drawn(list.messages, hidden'))
  /\ UNCHANGED <<where, top, list, reqs>>

Next ==
  \/ \E f \in Folders : ChangeFolder(f)
  \/ \E text \in Texts : TypeText(text)
  \/ \E r \in reqs : FirstPage(r) \/ FirstPageFails(r)
                       \/ MorePage(r) \/ MorePageFails(r)
  \/ \E s \in Scopes : NewMail(s)
  \/ \E i \in DOMAIN rows : PutCursor(i)
  \/ LeaveList \/ Debounced \/ Retry \/ LoadMore \/ HideRow

Spec == Init /\ [][Next]_vars

(* The rows drawn are one run of consecutive messages of the scope that is *)
(* named above them, without a gap or a repeat, and Load more continues    *)
(* right below the last, whatever arrived or was answered in between.      *)
RowsAreOneRun ==
  shown /\ list.load = "ready" /\ list.messages # << >> =>
    LET n == Len(list.messages)
        newest == list.messages[1][2]
    IN /\ \A i \in 1 .. n : list.messages[i] = <<Scope, newest - i + 1>>
       /\ list.next = IF newest = n THEN None ELSE newest - n + 1

(* A skeleton or a busy Load more button always has a fetch of the current *)
(* selection that will end it: it cannot stay up for good.                 *)
SpinnerIsOwned ==
  shown =>
    /\ list.load = "loading" =>
         \E r \in reqs : r.kind = "first" /\ r.sel = list.sel /\ r.scope = Scope
    /\ list.more => \E r \in reqs : r.kind = "more" /\ r.sel = list.sel

(* The search that runs is the text in the field, or a timer is armed that *)
(* will make it so.                                                        *)
QueryCatchesUp == query = input \/ timer

(* The keyboard cursor is on a row of the reported list, at its index.     *)
CursorOnItsRow ==
  cursor # Nothing =>
    /\ cursor.index \in DOMAIN rows
    /\ rows[cursor.index] = cursor.key

(* A page appended below leaves the cursor where it is, and a list with    *)
(* another head puts it on the first row or on the message it was on:      *)
(* never on a row that only has the old row's number.                      *)
CursorStep ==
  rows' # rows /\ cursor.key # None /\ rows' # << >> =>
    IF cursor.key \in Range(rows') THEN cursor'.key = cursor.key
    ELSE rows'[1] # rows[1] => cursor'.index = 1
CursorFollowsTheMessage == [][CursorStep]_vars

(* InboxList.tsx: a row that is not drawn is not reachable with the keys.  *)
CursorOnDrawnRow ==
  shown /\ cursor # Nothing => list.load = "ready"

(* The inductive invariant: what is out for the present selection is of its*)
(* scope, the first page or the one at the cursor; and a list without rows *)
(* has no cursor.                                                          *)
AsksAreCurrent ==
  \A r \in reqs :
    /\ r.sel <= list.sel
    /\ Current(r) =>
         /\ r.scope = Scope
         /\ IF r.kind = "first" THEN r.from = None /\ list.load = "loading"
            ELSE /\ r.from = list.next /\ list.next # None
                 /\ list.load = "ready" /\ list.more
EmptyIsAll ==
  shown /\ list.load = "ready" /\ list.messages = << >> => list.next = None

PagesInv == /\ TypeOK /\ AsksAreCurrent /\ EmptyIsAll /\ RowsAreOneRun
            /\ SpinnerIsOwned /\ QueryCatchesUp /\ CursorOnItsRow
=============================================================================
