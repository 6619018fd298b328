---------------------------- MODULE Conversations ----------------------------
(***************************************************************************)
(* A list paged by conversation: GET /api/conversations finds a page of    *)
(* newest messages, one per conversation, in one statement and the members *)
(* of those conversations in a second one; the client appends the pages    *)
(* and groups what it has.  The table changes between any two statements.  *)
(*                                                                         *)
(* A message is a number: the order of the numbers is the order of (date,  *)
(* account, uid), which INBOX_ORDER sorts by and a cursor compares.  Its   *)
(* UID matters only where it stands in for the thread a message has not    *)
(* (two such messages of one UID and one date, a tie, are left out).       *)
(***************************************************************************)
EXTENDS Integers, Sequences, Functions

CONSTANTS Accounts, Threads,   \* threads are numbered within an account
          Uids,                \* the UIDs of messages that have no thread
          Inbox, Sent,         \* the folders
          N, Limit, MaxChanges,   \* messages; conversations of a page; bound
          Hits,                \* messages the search text matches
          None

VARIABLES table,     \* message -> its row, or None
          view,      \* "inbox", or "search"
          discovered,  \* the Sent folders are known
          page,      \* first half of an answer being made, or None
          list,      \* rows the client has, and its cursor
          touched,   \* conversations changed since the first page was asked for
          changes
vars == <<table, view, discovered, page, list, touched, changes>>

Ids == 1 .. N
\* The thread of a message, or the UID of one that has none.
Row == [account: Accounts, thread: Threads \union Uids, folder: {Inbox, Sent}]
Entry == [id: Ids, row: Row]
Unthreaded(e) == e.row.thread \in Uids

\* The primary key: a UID is given once in a folder of an account.
OnePerUid(T) ==
  \A i, j \in Ids : T[i] = T[j] /\ T[i] # None /\ T[i].thread \in Uids => i = j

TypeOK ==
  /\ table \in [Ids -> Row \union {None}]
  /\ view \in {"inbox", "search"} /\ discovered \in BOOLEAN
  /\ page \in [reps: Seq(Entry)] \union {None}
  /\ list \in [load: {"loading", "ready"}, rows: Seq(Entry), next: Ids \union {None}]
  /\ changes \in 0 .. MaxChanges

Init == /\ table \in [Ids -> Row \union {None}] /\ OnePerUid(table)
        /\ view \in {"inbox", "search"} /\ discovered \in BOOLEAN
        /\ page = None
        /\ list = [load |-> "loading", rows |-> <<>>, next |-> None]
        /\ touched = {} /\ changes = 0

(*-------------------------------- service --------------------------------*)
(* conversationKey, and conversationKeyFor of the client: the UID goes in  *)
(* without its folder, so two messages without a thread may share a key.   *)
Key(e) == <<e.row.account, IF Unthreaded(e) THEN "u" ELSE "t", e.row.thread>>
Entries == {[id |-> i, row |-> table[i]] : i \in {i \in Ids : table[i] # None}}

(* resolveFolder: a search looks in every folder.                          *)
Listed(e) == IF view = "search" THEN e.id \in Hits ELSE e.row.folder = Inbox

(* resolveMemberFolder: the inbox also shows the user's own replies.       *)
IsMember(e) == \/ Listed(e)
               \/ view = "inbox" /\ discovered /\ e.row.folder = Sent

(* A message without a thread is not probed for: it represents itself.     *)
(* Mutant: a newer message of any folder disqualifies.                     *)
RivalOfAny(e, s) == ~Unthreaded(e) /\ Key(s) = Key(e) /\ s.id > e.id
Rival(e, s) == ~Unthreaded(e) /\ Key(s) = Key(e) /\ s.id > e.id /\ Listed(s)
IsRepresentative(e) == Listed(e) /\ \A s \in Entries : ~Rival(e, s)

(* INBOX_ORDER: the k-th step takes the entry of the k-th highest number.  *)
At(entries, n) == {e \in entries : e.id = n}
InOrder(entries) ==
  LET newest[k \in 0 .. N] ==
        IF k = 0 THEN <<>>
        ELSE IF At(entries, N + 1 - k) = {} THEN newest[k - 1]
        ELSE Append(newest[k - 1], CHOOSE e \in At(entries, N + 1 - k) : TRUE)
  IN newest[N]

Below(e, cursor) == IF cursor = None THEN TRUE ELSE e.id < cursor

FirstOf(entries) ==
  LET found == InOrder(entries)
  IN SubSeq(found, 1, IF Len(found) > Limit THEN Limit ELSE Len(found))
Representatives(cursor) ==
  FirstOf({e \in Entries : IsRepresentative(e) /\ Below(e, cursor)})

Members(reps) ==
  InOrder({e \in Entries : IsMember(e) /\ \E i \in DOMAIN reps : Key(reps[i]) = Key(e)})

(* nextCursorFrom, of the representatives and not of the rows.             *)
NextCursor(reps) == IF Len(reps) < Limit THEN None ELSE reps[Len(reps)].id

AskPage ==
  /\ page = None
  /\ list.load = "ready" => list.next # None
  /\ page' = [reps |-> Representatives(list.next)]
  /\ UNCHANGED <<table, view, discovered, list, touched, changes>>

AnswerPage ==
  /\ page # None
  /\ LET rows == Members(page.reps)
     IN list' = [load |-> "ready", rows |-> list.rows \o rows,
                 next |-> NextCursor(page.reps)]
  /\ page' = None
  /\ UNCHANGED <<table, view, discovered, touched, changes>>

(* Mail arrives or is backfilled, with any date; or is moved or deleted.   *)
Change(i, row) ==
  /\ changes < MaxChanges
  /\ (table[i] = None) # (row = None)
  /\ LET entry == [id |-> i, row |-> IF row = None THEN table[i] ELSE row]
     IN touched' = touched \union {Key(entry)}
  /\ table' = [table EXCEPT ![i] = row] /\ OnePerUid(table')
  /\ changes' = changes + 1
  /\ UNCHANGED <<view, discovered, page, list>>

(*--------------------------------- client --------------------------------*)
(* folderMembershipFor: which members the view itself lists.               *)
IsFolderMember(e) == view = "search" \/ e.row.folder = Inbox

(* groupIntoConversations: the conversations of the messages `seen`, each  *)
(* at the first of them, after those placed already.                       *)
Sightings(placed, rows, seen) ==
  LET order[n \in 0 .. Len(rows)] ==
        IF n = 0 THEN placed
        ELSE IF rows[n] \in seen /\ Key(rows[n]) \notin Range(order[n - 1])
        THEN Append(order[n - 1], Key(rows[n]))
        ELSE order[n - 1]
  IN order[Len(rows)]

(* A conversation stands where the first message of the browsed folder     *)
(* does; those without one come last.                                      *)
(* Mutant: it stands where its first message of any folder does.           *)
PlacedByAny(rows) == Sightings(<<>>, rows, Range(rows))
Placed(rows) == Sightings(<<>>, rows, {e \in Range(rows) : IsFolderMember(e)})
Order(rows) == Sightings(Placed(rows), rows, Range(rows))

MembersOf(rows, key) ==
  LET bucket[n \in 0 .. Len(rows)] ==
        IF n = 0 THEN <<>>
        ELSE IF Key(rows[n]) = key THEN Append(bucket[n - 1], rows[n]) ELSE bucket[n - 1]
  IN bucket[Len(rows)]

Next == \/ AskPage \/ AnswerPage
        \/ \E i \in Ids, row \in Row \union {None} : Change(i, row)
Spec == Init /\ [][Next]_vars

(*------------------------------ properties -------------------------------*)
\* Two messages without a thread that a search finds under one key: each
\* represents the conversation, and on two pages it is loaded twice.
Doubled(key) ==
  view = "search" /\ \E d, e \in Entries : /\ d # e /\ Key(d) = key /\ Key(e) = key
                                          /\ Unthreaded(d) /\ Listed(d) /\ Listed(e)
Untouched ==
  {Key(e) : e \in {e \in Entries : Listed(e) /\ ~Doubled(Key(e))}} \ touched
Whole(key) == InOrder({e \in Entries : Key(e) = key /\ IsMember(e)})

(* A conversation nothing happened to is loaded whole and once, whatever   *)
(* happened to others between the pages; and it is there when all are.     *)
(* Of the inbox this holds of every conversation; in a search, of those    *)
(* that are not doubled.                                                   *)
WholeAndOnce ==
  list.load = "ready" =>
    \A key \in Untouched :
      \/ MembersOf(list.rows, key) = Whole(key)
      \/ MembersOf(list.rows, key) = <<>> /\ list.next # None

(* What is drawn keeps the order of the pages: conversations nothing       *)
(* happened to stand newest first by their newest listed message, never by *)
(* a reply of the user's own.                                              *)
Newest(key) == CHOOSE e \in Entries : Key(e) = key /\ IsRepresentative(e)
DrawnInOrder ==
  LET order == Order(list.rows)
  IN \A i, j \in DOMAIN order :
       i < j /\ {order[i], order[j]} \subseteq Untouched =>
         Newest(order[i]).id > Newest(order[j]).id

(* The inductive invariant, of the representatives of the conversations    *)
(* nothing happened to.                                                    *)
Steady ==
  {e \in Entries : IsRepresentative(e) /\ Key(e) \notin touched /\ ~Doubled(Key(e))}

(* They are loaded down to the cursor, whole; and of two of them the newer *)
(* stands before every listed message of the older.                        *)
LoadedToCursor ==
  IF list.load = "ready"
  THEN \A e \in Steady :
         MembersOf(list.rows, Key(e)) =
           IF list.next # None /\ e.id < list.next THEN <<>> ELSE Whole(Key(e))
  ELSE list.rows = <<>> /\ list.next = None
NewerStandBefore ==
  \A p, q \in DOMAIN list.rows, d, e \in Steady :
    /\ Key(list.rows[p]) = Key(d) /\ IsFolderMember(list.rows[p])
    /\ list.rows[q] = e /\ d.id < e.id
    => q < p

(* The page being made has those below the cursor, down to its own.        *)
PageIsNext ==
  page # None =>
    /\ list.load = "ready" => list.next # None
    /\ LET next == NextCursor(page.reps)
       IN /\ next # None /\ list.next # None => next < list.next
          /\ \A e \in Steady :
               (\E i \in DOMAIN page.reps : Key(page.reps[i]) = Key(e))
               <=> Below(e, list.next) /\ (next = None \/ e.id >= next)

ConversationsInv ==
  TypeOK /\ OnePerUid(table) /\ LoadedToCursor /\ NewerStandBefore /\ PageIsNext
=============================================================================
