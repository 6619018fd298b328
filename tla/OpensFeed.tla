------------------------------- MODULE OpensFeed -------------------------------
(***************************************************************************)
(* The client's opens rail: one poll per mount, repeated every half minute *)
(* only while the tracking service is unreachable, and the rows it draws:  *)
(* one per token, the confirmed open winning over machine fetches, with    *)
(* the number of separate episodes.                                        *)
(***************************************************************************)
EXTENDS Integers, FiniteSets

CONSTANTS Tokens, MaxNow, Gap, Limit, MaxMounts, None

VARIABLES recorded,  \* the events the tracking service holds, one per instant
          mounts,    \* how often the effect ran
          mounted,   \* the last run has not been cleaned up
          polls,     \* polls in flight, each the number of its run
          timer,     \* a retry is armed
          feed,      \* None while loading, else [kind, opens]
          previous,  \* the kind of the last view, or None
          line       \* what the live region says
vars == <<recorded, mounts, mounted, polls, timer, feed, previous, line>>

Event == [token: Tokens, at: 1 .. MaxNow,
          class: {"open", "prefetch", "mpp", "self"}, device: BOOLEAN]
Feed == [kind: {"ready", "unavailable"}, opens: SUBSET Event]

TypeOK ==
  /\ recorded \subseteq Event
  /\ mounts \in 1 .. MaxMounts
  /\ mounted \in BOOLEAN
  /\ polls \subseteq 1 .. MaxMounts
  /\ timer \in BOOLEAN
  /\ feed \in Feed \union {None}
  /\ previous \in {"ready", "unavailable", None}
  /\ line \in {"", "unreachable", "reconnected"}

(*------------------------------- the rows --------------------------------*)
IsDisplayable(e) == e.class # "self"
(* The title of a mark: "permanent" for Apple, which never can be confirmed. *)
ReadStateFor(class) ==
  [tone      |-> IF class = "open" THEN "confirmed" ELSE "unknown",
   permanent |-> class = "mpp"]
IsAttributable(e) == e.class = "open" /\ e.device

Newest(E) == CHOOSE e \in E : \A f \in E : f.at <= e.at

(* Mutant: the newest event stands for its token, whatever it is.          *)
WinningNewest(E) == E
(* A confirmed open outranks every machine fetch of its token.             *)
Winning(E) == LET open == {e \in E : e.class = "open"}
              IN IF open # {} THEN open ELSE E

(* Mutant: every event counts.                                             *)
EpisodesEach(E) == Cardinality(E)
(* An event opens a new episode when the one before it is further than the *)
(* gap.                                                                    *)
Episodes(E) ==
  Cardinality({e \in E : \A f \in E : f.at < e.at => e.at - f.at > Gap})

Row(E) == LET first == Newest(Winning(E))
          IN [event |-> first,
              count |-> Episodes({e \in Winning(E) : e.class = first.class})]
Rows(opens) ==
  {Row({e \in opens : e.token = t /\ IsDisplayable(e)}) :
     t \in {e.token : e \in {f \in opens : IsDisplayable(f)}}}
SelfCount(opens) == Cardinality({e \in opens : ~IsDisplayable(e)})

(* The name a row may print: the recipient's, or a machine's.              *)
Reader(e) == CASE e.class = "prefetch" -> "image proxy"
               [] e.class = "mpp"      -> "privacy protection"
               [] OTHER -> IF IsAttributable(e) THEN "device" ELSE "no device"
Lead(row) == IF IsAttributable(row.event) THEN "recipient opened" ELSE "was fetched"

(* GET /api/opens: the newest events, at most Limit of them.               *)
Window == {e \in recorded :
             Cardinality({f \in recorded : f.at > e.at}) < Limit}

(*-------------------------------- actions --------------------------------*)
Init ==
  /\ recorded = {}
  /\ mounts = 1 /\ mounted = TRUE
  /\ polls = {1}
  /\ timer = FALSE
  /\ feed = None /\ previous = None
  /\ line = ""

Record(e) ==
  /\ \A f \in recorded : f.at < e.at
  /\ e.device => e.class = "open"
  /\ recorded' = recorded \union {e}
  /\ UNCHANGED <<mounts, mounted, polls, timer, feed, previous, line>>

(* Mutant: every view is announced as the first one was.                   *)
LineAfterForgets(kind) == line
(* advanceOpensPoll: only a change of kind is announced.                   *)
LineAfter(kind) ==
  IF kind = "unavailable" /\ previous # "unavailable" THEN "unreachable"
  ELSE IF kind = "ready" /\ previous = "unavailable" THEN "reconnected"
  ELSE line

(* Mutant: the answer of a run that was cleaned up is drawn too.           *)
HeardAlways(n) == TRUE
Heard(n) == mounted /\ n = mounts

Answered(n, kind) ==
  /\ n \in polls
  /\ polls' = polls \ {n}
  /\ IF Heard(n)
     THEN /\ feed' = [kind  |-> kind,
                      opens |-> IF kind = "ready" THEN Window ELSE {}]
          /\ previous' = kind
          /\ line' = LineAfter(kind)
          /\ timer' = (kind = "unavailable")
     ELSE UNCHANGED <<feed, previous, line, timer>>
  /\ UNCHANGED <<recorded, mounts, mounted>>

RetryDue ==
  /\ timer
  /\ timer' = FALSE
  /\ polls' = polls \union {mounts}
  /\ UNCHANGED <<recorded, mounts, mounted, feed, previous, line>>

(* Mutant: the cleanup leaves the timer armed.                             *)
CleanupKeepsTimer == mounted' = FALSE /\ UNCHANGED timer
Cleanup == mounted' = FALSE /\ timer' = FALSE
Unmount == /\ mounted
           /\ Cleanup
           /\ UNCHANGED <<recorded, mounts, polls, feed, previous, line>>

(* The development build runs every effect twice on the same state.        *)
Remount ==
  /\ ~mounted /\ mounts < MaxMounts
  /\ mounted' = TRUE
  /\ mounts' = mounts + 1
  /\ polls' = polls \union {mounts + 1}
  /\ UNCHANGED <<recorded, timer, feed, previous, line>>

Next == \/ \E e \in Event : Record(e)
        \/ \E n \in polls, kind \in {"ready", "unavailable"} : Answered(n, kind)
        \/ RetryDue
        \/ Unmount
        \/ Remount
Spec == Init /\ [][Next]_vars

(*------------------------------ properties -------------------------------*)
Drawn == IF feed = None THEN {} ELSE feed.opens

(* A person's open that is in the answer is never hidden behind a later    *)
(* machine fetch of the same message: its token has one row, and the row   *)
(* is of an open at least as new.  (groupOpens)                            *)
ConfirmedOpenIsShown ==
  \A e \in Drawn : e.class = "open" =>
    \E row \in Rows(Drawn) :
      /\ row.event.token = e.token
      /\ ReadStateFor(row.event.class).tone = "confirmed"
      /\ row.event.at >= e.at
      /\ \A other \in Rows(Drawn) : other.event.token = e.token => other = row

(* A count claims no more readings than there are events of that token     *)
(* pairwise further apart than the gap, so that one reading whose image    *)
(* was fetched in a burst is not sold as several.  (countEpisodes)         *)
EpisodesAreApart ==
  \A row \in Rows(Drawn) :
    \E E \in SUBSET {e \in Drawn : e.token = row.event.token
                                    /\ e.class = row.event.class} :
      /\ Cardinality(E) = row.count
      /\ \A e, f \in E : e # f => (e.at - f.at > Gap \/ f.at - e.at > Gap)

(* What the live region says agrees with what is drawn: the service is     *)
(* called unreachable exactly while the rail is blank because of it.       *)
(* (advanceOpensPoll, useOpensFeed)                                        *)
LineAgrees ==
  feed # None => (feed.kind = "unavailable" <=> line = "unreachable")

(* A blank rail fills by itself, and never twice at once: while it is      *)
(* mounted and not ready, exactly one of its own poll and its retry timer  *)
(* is pending; nothing of it is pending after it was unmounted.            *)
OnePollPending ==
  /\ mounted /\ (feed = None \/ feed.kind = "unavailable")
       => (timer <=> mounts \notin polls)
  /\ ~mounted => ~timer

(* The inductive invariant: the view, the kind remembered of it and the    *)
(* live region go together, and no run but the last may be heard.          *)
ViewIsRemembered ==
  /\ feed = None <=> previous = None
  /\ feed = None => line = ""
  /\ feed # None => previous = feed.kind

(* No two events are of one instant, so of two there is a newer one; and   *)
(* what is drawn the service had recorded.                                 *)
OneAtATime == \A e, f \in recorded : e.at = f.at => e = f
DrawnWasRecorded == Drawn \subseteq recorded

FeedInv == /\ TypeOK /\ OnePollPending /\ ViewIsRemembered /\ LineAgrees
           /\ OneAtATime /\ DrawnWasRecorded
================================================================================
