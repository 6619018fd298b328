------------------------------- MODULE Desktop -------------------------------
(***************************************************************************)
(* The desktop shell's announcements.  A thread polls the inbox with the   *)
(* session cookie the window holds: it reads the cookie, asks for the      *)
(* newest page, and folds the page into what it has accounted for; the     *)
(* first page is a baseline.  Every announcement runs on a thread of its   *)
(* own, which waits for the click while a permit is left.                  *)
(*                                                                         *)
(* A message is what the shell takes for one: an account and a UID.  Moved *)
(* out and back, it arrives again under another number, with the date it   *)
(* had; a renumbered mailbox gives all of them other numbers.              *)
(***************************************************************************)
EXTENDS Integers, FiniteSets, FiniteSetsExt

CONSTANTS Mail,          \* UIDs
          Recent,        \* SANITY_WINDOW_MS
          PageLimit, MaxPerPoll, WaitingLimit,
          MaxNow,        \* bound of the clock
          None

VARIABLES now,
          inbox,      \* UID in the inbox -> [date, seen]
          arrived,    \* the last UID the mailbox gave
          cookie,     \* the window's session cookie: "none", "valid" or "lapsed"
          request,    \* the cookie the poll on its way was sent with, or None
          baselined, accounted,   \* MailWatch
          waiting,    \* threads that hold a permit and wait for a click
          shown,      \* history: the UIDs on the pages taken since the baseline
                      \* and the last renumbering
          repeated    \* history: was one of those announced?
vars == <<now, inbox, arrived, cookie, request, baselined, accounted, waiting, shown, repeated>>
watch == <<baselined, accounted, shown, repeated>>
mail == <<inbox, arrived>>

TypeOK ==
  /\ now \in 0 .. MaxNow
  /\ DOMAIN inbox \subseteq Mail
  /\ \A m \in DOMAIN inbox : inbox[m] \in [date: 0 .. MaxNow, seen: BOOLEAN]
  /\ arrived \in Mail \union {0} /\ cookie \in {"none", "valid", "lapsed"}
  /\ request \in {"valid", "lapsed", None}
  /\ baselined \in BOOLEAN /\ DOMAIN accounted \subseteq Mail
  /\ waiting \in Nat /\ shown \subseteq Mail /\ repeated \in BOOLEAN

Init == /\ now = 0 /\ inbox = << >>
        /\ arrived = 0 /\ cookie \in {"none", "valid", "lapsed"} /\ request = None
        /\ baselined = FALSE /\ accounted = << >>
        /\ waiting = 0 /\ shown = {} /\ repeated = FALSE

(*------------------------------ the mailbox ------------------------------*)
(* New mail, a late delivery or a message moved back: the date is whatever *)
(* its header says.                                                        *)
Arrive == /\ arrived + 1 \in Mail
          /\ arrived' = arrived + 1
          /\ \E row \in [date: 0 .. MaxNow, seen: BOOLEAN] : inbox' =
               [m \in DOMAIN inbox \union {arrived + 1} |->
                  IF m = arrived + 1 THEN row ELSE inbox[m]]
          /\ UNCHANGED <<now, cookie, request, watch, waiting>>

ToggleSeen(m) == /\ m \in DOMAIN inbox
                 /\ inbox' = [inbox EXCEPT ![m].seen = ~@]
                 /\ UNCHANGED <<now, arrived, cookie, request, watch, waiting>>

Leave(m) == /\ m \in DOMAIN inbox
            /\ inbox' = [k \in DOMAIN inbox \ {m} |-> inbox[k]]
            /\ UNCHANGED <<now, arrived, cookie, request, watch, waiting>>

(* UIDVALIDITY changes: the same messages under other numbers, which may   *)
(* have been those of others.                                              *)
Renumber ==
  /\ \E uid \in [DOMAIN inbox -> Mail] :
       /\ \A m, k \in DOMAIN inbox : uid[m] = uid[k] => m = k
       /\ inbox' = [n \in {uid[m] : m \in DOMAIN inbox} |->
                      inbox[CHOOSE m \in DOMAIN inbox : uid[m] = n]]
  /\ arrived' \in Mail \union {0} /\ \A n \in DOMAIN inbox' : n <= arrived'
  /\ shown' = {}
  /\ UNCHANGED <<now, cookie, request, baselined, accounted, repeated, waiting>>

(* The newest rows, by date and then by number.                            *)
Newer(k, m) == \/ inbox[k].date > inbox[m].date
               \/ inbox[k].date = inbox[m].date /\ k > m
Newest(messages, limit) == {m \in messages : Cardinality({k \in messages : Newer(k, m)}) < limit}
Page == Newest(DOMAIN inbox, PageLimit)

(*-------------------------------- MailWatch ------------------------------*)
IsRecent(date) == now - date <= Recent

(* Mutant: an entry goes while its message may still be announced.         *)
KeptBriefly(date) == now - date < Recent
Kept(date) == IsRecent(date)

Enters(m) == IsRecent(inbox[m].date)

Fresh == {m \in Page : /\ baselined /\ IsRecent(inbox[m].date)
                       /\ m \notin DOMAIN accounted /\ ~inbox[m].seen}
Announced == Newest(Fresh, MaxPerPoll)

Accept == LET entered == {m \in Page : Enters(m)}
              date == [m \in DOMAIN accounted \union entered |->
                         IF m \in entered THEN inbox[m].date ELSE accounted[m]]
          IN /\ accounted' = [m \in {k \in DOMAIN date : Kept(date[k])} |-> date[m]]
             /\ baselined' = TRUE
             /\ shown' = shown \union Page
             /\ repeated' = (repeated \/ Announced \intersect shown # {})

Forget == baselined' = FALSE /\ accounted' = << >> /\ shown' = {} /\ UNCHANGED repeated

(*--------------------------------- polls ---------------------------------*)
(* A poll reads the cookie store; without a session cookie it is over.     *)
PollSignedOut == /\ request = None /\ cookie = "none"
                 /\ Forget
                 /\ UNCHANGED <<now, mail, cookie, request, waiting>>

PollSends == /\ request = None /\ cookie # "none"
             /\ request' = cookie
             /\ UNCHANGED <<now, mail, cookie, watch, waiting>>

(* 401: the session has lapsed at the server.                              *)
PollRefused == /\ request = "lapsed"
               /\ Forget
               /\ request' = None
               /\ UNCHANGED <<now, mail, cookie, waiting>>

(* The network or the server: the watch is kept.                           *)
PollFails == /\ request # None
             /\ request' = None
             /\ UNCHANGED <<now, mail, cookie, watch, waiting>>

(* Mutant: the cap of one poll is taken for enough.                        *)
PermitsAnyway(held) == MaxPerPoll
Permits(held) == WaitingLimit - held

(* The page is folded in, and each announcement is posted; while permits   *)
(* are left its thread waits for the answer, and without one it ends.      *)
PollPage ==
  /\ request = "valid"
  /\ Accept
  /\ request' = None
  /\ waiting' = waiting + Min({Cardinality(Announced), Permits(waiting)})
  /\ UNCHANGED <<now, mail, cookie>>

(* Clicked, dismissed or expired: the thread gives its permit up.          *)
Answer == /\ waiting > 0
          /\ waiting' = waiting - 1
          /\ UNCHANGED <<now, mail, cookie, request, watch>>

(*-------------------------------- session --------------------------------*)
SignIn == /\ cookie # "valid" /\ cookie' = "valid"
          /\ UNCHANGED <<now, mail, request, watch, waiting>>

SignOut == /\ cookie # "none" /\ cookie' = "none"
           /\ UNCHANGED <<now, mail, request, watch, waiting>>

(* The session's lifetime ends while the window still holds its cookie.    *)
Lapse == /\ cookie = "valid" /\ cookie' = "lapsed"
         /\ request' = IF request = None THEN None ELSE "lapsed"
         /\ UNCHANGED <<now, mail, watch, waiting>>

Clock == /\ now < MaxNow /\ now' = now + 1
         /\ UNCHANGED <<mail, cookie, request, watch, waiting>>

Next == \/ \E m \in Mail : ToggleSeen(m) \/ Leave(m)
        \/ Arrive \/ Renumber \/ Answer
        \/ PollSignedOut \/ PollSends \/ PollRefused \/ PollFails \/ PollPage
        \/ SignIn \/ SignOut \/ Lapse \/ Clock
Spec == Init /\ [][Next]_vars

(*------------------------------ properties -------------------------------*)
(* While the mailbox keeps its numbers, a UID is announced on the first    *)
(* page that shows it or never: not when it was on the baseline, was cut   *)
(* off by the cap, is marked unread again, is pushed off the page by later *)
(* dates and comes back, or is pruned for its age and polled once more.    *)
AnnouncedAtFirstSight == ~repeated

(* Threads that wait for a click are bounded, however many alerts stay up. *)
WaitersBounded == waiting <= WaitingLimit

(* The inductive invariant: a new message gets a number no page has shown, *)
(* and a number that was on a page taken is accounted for under its date   *)
(* for as long as it could still be announced.                             *)
NumbersAreGiven == DOMAIN inbox \union shown \subseteq 1 .. arrived
ShownAreAccounted ==
  \A m \in shown \intersect DOMAIN inbox :
    IsRecent(inbox[m].date) => m \in DOMAIN accounted /\ accounted[m] = inbox[m].date

ShellInv ==
  TypeOK /\ NumbersAreGiven /\ ShownAreAccounted /\ AnnouncedAtFirstSight /\ WaitersBounded
==============================================================================
