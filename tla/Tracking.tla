-------------------------------- MODULE Tracking --------------------------------
(***************************************************************************)
(* The tracking service: tokens are minted in one statement per send, and  *)
(* every fetch of a pixel is looked up, clocked, compared with the recent  *)
(* hits of its token and inserted, each step an await of a stateless       *)
(* function, so that hits of one token overlap.                            *)
(***************************************************************************)
EXTENDS Integers, FiniteSets

CONSTANTS Tokens, MaxNow, DedupeWindow, PrefetchWindow, MaxOpens, MaxHits,
          MaxSends, Fetchers, None

VARIABLES now,
          sentAt,   \* minted token -> when its row was inserted
          answered, \* tokens the mint endpoint has handed out
          hits,     \* functions in flight
          opens,    \* the rows
          lastId    \* rows and hits are numbered
vars == <<now, sentAt, answered, hits, opens, lastId>>

(* Who fetched (Fetchers): Gmail's proxy, a mail gateway, a client that     *)
(* names no platform ("contentless"), one that does ("client").            *)
Classes == {"prefetch", "scanner", "mpp", "open"}
Phases == {"arrived", "clocked", "judged", "counted"}
Hit == [id: Nat, token: Tokens, by: Fetchers, phase: Phases, at: 0 .. MaxNow,
        read: 0 .. MaxNow, class: Classes]
Open == [id: Nat, token: Tokens, by: Fetchers, at: 0 .. MaxNow,
         read: 0 .. MaxNow, stored: 0 .. MaxNow, class: Classes]

TypeOK ==
  /\ now \in 0 .. MaxNow
  /\ DOMAIN sentAt \subseteq Tokens
  /\ \A t \in DOMAIN sentAt : sentAt[t] \in 0 .. MaxNow
  /\ answered \subseteq Tokens
  /\ \A h \in hits : h \in Hit
  /\ \A o \in opens : o \in Open
  /\ lastId \in 0 .. MaxHits

Init == /\ now = 0
        /\ sentAt = << >> /\ answered = {}
        /\ hits = {} /\ opens = {} /\ lastId = 0

Tick == /\ now < MaxNow /\ now' = now + 1
        /\ UNCHANGED <<sentAt, answered, hits, opens, lastId>>

(*------------------------------- minting ---------------------------------*)
(* Mutant: one statement for each recipient.                               *)
InsertTokensEach(tokens) ==
  \E some \in SUBSET tokens :
    sentAt' = [t \in DOMAIN sentAt \union some |->
                 IF t \in DOMAIN sentAt THEN sentAt[t] ELSE now]
(* insertTokens: one statement, all rows or none.                          *)
InsertTokens(tokens) ==
  \E some \in {{}, tokens} :
    sentAt' = [t \in DOMAIN sentAt \union some |->
                 IF t \in DOMAIN sentAt THEN sentAt[t] ELSE now]

(* POST /api/tokens: too many sends are refused whole; a failed insert     *)
(* answers no token.                                                       *)
Mint(tokens) ==
  /\ tokens # {} /\ tokens \intersect DOMAIN sentAt = {}
  /\ IF Cardinality(tokens) > MaxSends
     THEN UNCHANGED <<sentAt, answered>>
     ELSE /\ InsertTokens(tokens)
          /\ answered' \in {answered} \union
                           (IF DOMAIN sentAt' = DOMAIN sentAt THEN {}
                            ELSE {answered \union tokens})
  /\ UNCHANGED <<now, hits, opens, lastId>>

(*--------------------------------- hits ----------------------------------*)
(* GET /o/token.png: the token must be known.                              *)
Arrive(token, by) ==
  /\ lastId < MaxHits
  /\ token \in DOMAIN sentAt
  /\ lastId' = lastId + 1
  /\ hits' = hits \union {[id |-> lastId', token |-> token, by |-> by,
                           phase |-> "arrived", at |-> 0, read |-> 0, class |-> "open"]}
  /\ UNCHANGED <<now, sentAt, answered, opens>>

Change(h, next) == hits' = (hits \ {h}) \union {next}

(* The clock is read after the token was found.                            *)
Clock(h) ==
  /\ h.phase = "arrived"
  /\ Change(h, [h EXCEPT !.phase = "clocked", !.at = now])
  /\ UNCHANGED <<now, sentAt, answered, opens, lastId>>

(* recentHitTimes: what is stored, back from the moment of the query.      *)
RecentHits(token) ==
  {o.at : o \in {p \in opens : p.token = token /\ p.at > now - DedupeWindow}}

(* Mutant: the age of a recent hit is taken the wrong way round.           *)
IsDuplicateOfNow(at, recent) == \E time \in recent : time - at >= DedupeWindow
IsDuplicate(at, recent) == \E time \in recent : at - time < DedupeWindow

(* Mutant: the proxy is told from a reader by its name alone.              *)
ClassifyProxy(h) == CASE h.by = "gateway"     -> "scanner"
                      [] h.by = "contentless" -> "mpp"
                      [] OTHER                -> "open"
(* Minted tokens carry no sender address, and a hit with recent ones never *)
(* gets here: neither a self-open nor a burst is ever recorded.            *)
ClassifyHit(h) ==
  CASE h.by = "proxy" /\ h.at - sentAt[h.token] < PrefetchWindow -> "prefetch"
    [] h.by = "gateway"     -> "scanner"
    [] h.by = "contentless" -> "mpp"
    [] OTHER                -> "open"

Judge(h) ==
  /\ h.phase = "clocked"
  /\ IF IsDuplicate(h.at, RecentHits(h.token))
     THEN hits' = hits \ {h}
     ELSE Change(h, [h EXCEPT !.phase = "judged", !.read = now,
                              !.class = ClassifyHit(h)])
  /\ UNCHANGED <<now, sentAt, answered, opens, lastId>>

(* The insert's own count, of the rows committed when it starts.           *)
Full(token) == Cardinality({o \in opens : o.token = token}) >= MaxOpens

CountOpens(h) ==
  /\ h.phase = "judged"
  /\ IF Full(h.token) THEN hits' = hits \ {h}
                      ELSE Change(h, [h EXCEPT !.phase = "counted"])
  /\ UNCHANGED <<now, sentAt, answered, opens, lastId>>

RecordOpen(h) ==
  /\ h.phase = "counted"
  /\ hits' = hits \ {h}
  /\ opens' = opens \union {[id |-> h.id, token |-> h.token, by |-> h.by, at |-> h.at,
                             read |-> h.read, stored |-> now, class |-> h.class]}
  /\ UNCHANGED <<now, sentAt, answered, lastId>>

(* Any await may fail; the pixel is served all the same.                   *)
Fail(h) == /\ hits' = hits \ {h}
           /\ UNCHANGED <<now, sentAt, answered, opens, lastId>>

Next == \/ Tick
        \/ \E tokens \in SUBSET Tokens : Mint(tokens)
        \/ \E token \in Tokens, by \in Fetchers : Arrive(token, by)
        \/ \E h \in hits : \/ Clock(h) \/ Judge(h) \/ CountOpens(h)
                           \/ RecordOpen(h) \/ Fail(h)
Spec == Init /\ [][Next]_vars

(*------------------------------ properties -------------------------------*)
(* A hit that was stored before another one was looked up is not repeated  *)
(* by it: their moments are apart by the dedupe window, save by the time   *)
(* the later one lay between its clock and its query.  (record)            *)
RepeatsAreDropped ==
  \A p, q \in opens :
    p.id # q.id /\ p.token = q.token /\ p.stored < q.read
      => q.at - p.at >= DedupeWindow - (q.read - q.at)

(* Every token that was answered exists: a pixel in sent mail is never     *)
(* unknown, however the insert fails.  (insertTokens, handler)             *)
AnsweredTokensExist == answered \subseteq DOMAIN sentAt

(* No read is reported of the proxy's fetch at delivery: an open was made  *)
(* by a client, or by the proxy late enough.  (classifyHit)                *)
OpensAreReadings ==
  \A o \in opens : o.class = "open" =>
    \/ o.by = "client"
    \/ o.by = "proxy" /\ o.at >= sentAt[o.token] + PrefetchWindow

(* classify.ts: at most one row per token and dedupe window, regardless.   *)
(* Two hits that overlap are both recorded.                                *)
OneRowPerWindow ==
  \A p, q \in opens : p.id # q.id /\ p.token = q.token =>
    p.at - q.at >= DedupeWindow \/ q.at - p.at >= DedupeWindow

(* The inductive invariant: a hit keeps its distance from what was stored  *)
(* when it was looked up, and what it was taken for, until it is itself a  *)
(* row; and moments come in the order of the awaits.                       *)
Apart(p, x) ==
  p.token = x.token /\ p.stored < x.read => x.at - p.at >= DedupeWindow - (x.read - x.at)
ReadByClient(x) ==
  x.class = "open" =>
    \/ x.by = "client"
    \/ x.by = "proxy" /\ x.at >= sentAt[x.token] + PrefetchWindow
Judged == {h \in hits : h.phase \in {"judged", "counted"}}

HitsAreTimed ==
  /\ \A h \in hits : h.token \in DOMAIN sentAt /\ h.at <= now
  /\ \A h \in Judged : h.at <= h.read /\ h.read <= now /\ ReadByClient(h)
OpensAreTimed ==
  \A o \in opens : /\ o.token \in DOMAIN sentAt /\ ReadByClient(o)
                   /\ o.at <= o.read /\ o.read <= o.stored /\ o.stored <= now
KeepsItsDistance == \A p \in opens : \A x \in Judged \union opens : Apart(p, x)

BeaconInv ==
  /\ TypeOK /\ AnsweredTokensExist /\ HitsAreTimed /\ OpensAreTimed /\ KeepsItsDistance
================================================================================
