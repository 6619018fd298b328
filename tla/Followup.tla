------------------------------- MODULE Followup -------------------------------
(***************************************************************************)
(* GET /api/followup: an engagement state for every sent message, from the *)
(* newest opens the tracking service lists and the later messages of the   *)
(* same thread.  The opens are read first and the database after, so mail, *)
(* replies and opens arrive in between.                                    *)
(*                                                                         *)
(* A sent message is <<account, thread number>>: Gmail numbers the threads *)
(* of each mailbox on its own, so two accounts may use one number.         *)
(***************************************************************************)
EXTENDS Integers, Sequences, FiniteSets

CONSTANTS Accounts, Threads,
          Own, Others,       \* addresses of the accounts; other people's
          Limit,             \* opens asked for
          Grace,             \* UNVERIFIABLE_GRACE_MS
          MaxNow, MaxEvents, MaxLater,   \* bounds
          None

VARIABLES now,
          sentAt,   \* message -> when it was sent, or None
          later,    \* messages received, or sent from elsewhere, in a thread
          events,   \* the tracking service's hits, oldest first
          read,     \* the opens this request holds, or None
          page      \* the last answer, or None
vars == <<now, sentAt, later, events, read, page>>

Sends == Accounts \X Threads
People == Own \union Others
Event == [message: Sends, who: People, kind: {"open", "prefetch"}, at: 0 .. MaxNow]
Later == [account: Accounts, thread: Threads, from: People, at: 0 .. MaxNow]
States == {"opened-replied", "opened-repeatedly", "opened-no-reply",
           "never-opened", "unverifiable"}

TypeOK ==
  /\ now \in 0 .. MaxNow
  /\ sentAt \in [Sends -> 0 .. MaxNow \union {None}]
  /\ later \subseteq Later
  /\ events \in Seq(Event)
  /\ Len(events) \in 0 .. MaxEvents
  /\ read # None => read.ok \in BOOLEAN /\ read.upTo \in 0 .. MaxEvents
  /\ page # None => \A m \in DOMAIN page.state : page.state[m] \in States

Init == /\ now = 0
        /\ sentAt = [m \in Sends |-> None]
        /\ later = {} /\ events = <<>>
        /\ read = None /\ page = None

Sent == {m \in Sends : sentAt[m] # None}

Tick == /\ now < MaxNow
        /\ now' = now + 1
        /\ UNCHANGED <<sentAt, later, events, read, page>>

Send(m) == /\ sentAt[m] = None
           /\ sentAt' = [sentAt EXCEPT ![m] = now]
           /\ UNCHANGED <<now, later, events, read, page>>

(* Its pixel is fetched, which takes a delivery: later than the send.      *)
Hit(m, who, kind) ==
  /\ Len(events) < MaxEvents
  /\ m \in Sent /\ sentAt[m] < now
  /\ events' = Append(events, [message |-> m, who |-> who, kind |-> kind, at |-> now])
  /\ UNCHANGED <<now, sentAt, later, read, page>>

Arrive(account, thread, from) ==
  /\ Cardinality(later) < MaxLater
  /\ later' = later \union {[account |-> account, thread |-> thread,
                             from |-> from, at |-> now]}
  /\ UNCHANGED <<now, sentAt, events, read, page>>

(* fetchOpens: the newest Limit, or nothing when the service is down.      *)
FetchOpens(ok) ==
  /\ read = None
  /\ read' = [ok |-> ok, upTo |-> Len(events)]
  /\ UNCHANGED <<now, sentAt, later, events, page>>

Window(r) ==
  IF ~r.ok THEN <<>>
  ELSE SubSeq(events, IF r.upTo > Limit THEN r.upTo - Limit + 1 ELSE 1, r.upTo)

(* Mutant: a full page is taken for all there is.                          *)
HorizonOfAll(r) == None
(* opensEvidenceFrom: a full page begins at its oldest event.              *)
Horizon(r) == IF r.upTo < Limit THEN None ELSE Head(Window(r)).at

(* Mutant: the sender's own opens are tallied too.                         *)
TallyAll(r, m) ==
  {i \in DOMAIN Window(r) : Window(r)[i].kind = "open" /\ Window(r)[i].message = m}
(* tallyOpens: the places in the window of the opens of m.                 *)
Tally(r, m) ==
  {i \in DOMAIN Window(r) : /\ Window(r)[i].kind = "open" /\ Window(r)[i].message = m
                            /\ Window(r)[i].who \notin Own}

(* FOLLOWUP_SELECT and toWireRow: any later message of that thread number. *)
HasReply(m) ==
  \E l \in later : l.thread = m[2] /\ l.at > sentAt[m] /\ l.from \notin Own

Classify(r, m) ==
  CASE HasReply(m) -> "opened-replied"
    [] ~HasReply(m) /\ Cardinality(Tally(r, m)) > 1 -> "opened-repeatedly"
    [] ~HasReply(m) /\ Cardinality(Tally(r, m)) = 1 -> "opened-no-reply"
    [] OTHER -> IF now - sentAt[m] < Grace THEN "unverifiable" ELSE "never-opened"

(* classifyWithEvidence: silence counts only where the opens could speak.  *)
Blind(r, m) == ~r.ok \/ (Horizon(r) # None /\ sentAt[m] < Horizon(r))
ClassifyWithEvidence(r, m) ==
  IF Classify(r, m) = "never-opened" /\ Blind(r, m) THEN "unverifiable" ELSE Classify(r, m)

Answer ==
  /\ read # None
  /\ page' = [upTo |-> read.upTo,
              state |-> [m \in Sent |-> ClassifyWithEvidence(read, m)]]
  /\ read' = None
  /\ UNCHANGED <<now, sentAt, later, events>>

Next == \/ Tick \/ Answer
        \/ \E m \in Sends : Send(m)
        \/ \E m \in Sends, who \in People, kind \in {"open", "prefetch"} : Hit(m, who, kind)
        \/ \E a \in Accounts, t \in Threads, from \in People : Arrive(a, t, from)
        \/ \E ok \in BOOLEAN : FetchOpens(ok)
Spec == Init /\ [][Next]_vars

(*------------------------------ properties -------------------------------*)
OpensOf(m) ==
  {i \in 1 .. Len(events) : /\ events[i].message = m
                            /\ events[i].kind = "open" /\ events[i].who \notin Own}

(* "Never opened" is only said when nobody had opened the message by the   *)
(* time the opens were read, whatever the listing was too short to show.   *)
SilenceIsReal ==
  page # None =>
    \A m \in DOMAIN page.state :
      page.state[m] = "never-opened" => \A i \in OpensOf(m) : i > page.upTo

(* A message is only listed as opened when somebody else opened it.        *)
OpenedIsTrue ==
  page # None =>
    \A m \in DOMAIN page.state :
      page.state[m] \in {"opened-no-reply", "opened-repeatedly"} => OpensOf(m) # {}

(* A message is only listed as replied to when somebody else wrote later   *)
(* in its own conversation: in the thread of that number of its account.   *)
RepliedIsTrue ==
  page # None =>
    \A m \in DOMAIN page.state :
      page.state[m] = "opened-replied" =>
        \E l \in later : /\ l.account = m[1] /\ l.thread = m[2]
                         /\ l.at > sentAt[m] /\ l.from \notin Own

(* The inductive invariant: hits are kept in their order, none before its   *)
(* message was delivered; and no answer is of a hit that is yet to come.   *)
HitsInOrder ==
  /\ \A i \in 1 .. Len(events) : events[i].at <= now
  /\ \A i, j \in 1 .. Len(events) : i <= j => events[i].at <= events[j].at
HitsAreOfDelivered ==
  \A i \in 1 .. Len(events) :
    /\ events[i].message \in Sent
    /\ sentAt[events[i].message] < events[i].at
ReadIsPast ==
  /\ read # None => read.upTo <= Len(events)
  /\ page # None => /\ page.upTo \in 0 .. Len(events)
                    /\ DOMAIN page.state \subseteq Sent

FollowupInv == /\ TypeOK /\ HitsInOrder /\ HitsAreOfDelivered /\ ReadIsPast
               /\ SilenceIsReal /\ OpenedIsTrue
==============================================================================
