------------------------------- MODULE SendMail -------------------------------
(***************************************************************************)
(* POST /api/send: requests that interleave at their awaits.  Every        *)
(* attempt spends one unit of an hourly window before its body is read;    *)
(* tokens for all copies are minted before the first copy leaves, and a    *)
(* send that cannot be tracked is refused; then one copy per recipient, in *)
(* order, a failing one not stopping the rest.                             *)
(***************************************************************************)
EXTENDS Integers, Sequences, FiniteSets

CONSTANTS Jobs,        \* the requests, 1 .. n in the order they arrive
          Recipients,  \* the addresses they name
          MaxAttempts, \* SEND_RATE_LIMIT_MAX_ATTEMPTS
          Window,      \* SEND_RATE_LIMIT_WINDOW_MS, in ticks
          Second,      \* ticks in a second
          MaxNow,      \* bound: the clock
          Budget,      \* TRACKED_SEND_BYTE_BUDGET
          None

VARIABLES now,       \* the clock
          window,    \* the limiter: [start, used]
          transports, \* accounts whose SMTP transport is in the cache
          job,       \* per request: what it asks and how far it has come
          minted,    \* the tracking service: tokens handed out
          delivered  \* the copies that left
vars == <<now, window, transports, job, minted, delivered>>

SharedRecipient == "someone"
Order == CHOOSE f \in [1 .. Cardinality(Recipients) -> Recipients] :
           \A i, k \in DOMAIN f : f[i] = f[k] => i = k
Lists == {[i \in 1 .. n |-> Order[i]] : n \in DOMAIN Order}
(* What may arrive: a body that parses or not, for an account that is      *)
(* configured or not, with attachments of some size.                       *)
Requests == [body : {"good", "bad"}, known : BOOLEAN,
             to : Lists, bytes : {0, Budget}]
Phases == {"unsent", "minting", "copying", "answered"}
Statuses == {0, 200, 400, 404, 429, 502, 503}
Tokens == [job : Jobs, recipient : Recipients \union {SharedRecipient}]
Job == [phase : Phases, request : Requests \union {None}, tokens : Seq(Tokens),
        results : Seq([to : Recipients, ok : BOOLEAN]), status : Statuses,
        at : 0 .. MaxNow, retryAfter : Nat]

TypeOK ==
  /\ now \in 0 .. MaxNow
  /\ window \in [start : 0 .. MaxNow, used : 0 .. MaxAttempts]
  /\ transports \subseteq {"account"}
  /\ DOMAIN job = Jobs /\ \A j \in Jobs : job[j] \in Job
  /\ minted \subseteq Tokens
  /\ delivered \subseteq [job : Jobs, to : Recipients, token : Tokens]

Idle == [phase |-> "unsent", request |-> None, tokens |-> <<>>, results |-> <<>>,
         status |-> 0, at |-> 0, retryAfter |-> 0]

Init ==
  /\ now = 0
  /\ window = [start |-> 0, used |-> 0]
  /\ transports = {}
  /\ job = [j \in Jobs |-> Idle]
  /\ minted = {} /\ delivered = {}

---------------------------------------------------------------------------
(* currentWindowEnd.  Mutant: the spent count is cleared and the window    *)
(* not moved.                                                              *)
WindowNotMoved(w) == IF now - w.start >= Window THEN [w EXCEPT !.used = 0] ELSE w
CurrentWindow(w) == IF now - w.start >= Window THEN [start |-> now, used |-> 0] ELSE w

(* Mutant: the seconds are rounded down.                                   *)
SecondsDown(w) == (w.start + Window - now) \div Second
(* retryAfterSeconds: rounded up, one at least.                            *)
RetryAfter(w) ==
  LET up == (w.start + Window - now + Second - 1) \div Second IN IF up < 1 THEN 1 ELSE up

Refused(status, at) == [Idle EXCEPT !.phase = "answered", !.status = status, !.at = at]

(* chooseTokenStrategy.                                                    *)
Shared(r) == r.bytes * Len(r.to) > Budget

(* createTransports.get: made on first use, for a configured account.      *)
(* transportsOn, trackingOn: whether the deployment has either configured. *)
Check(r, trackingOn, transportsOn) ==
  IF r.body # "good" THEN 400 ELSE IF ~r.known THEN 404
  ELSE IF ~transportsOn THEN 503 ELSE IF ~trackingOn THEN 502 ELSE 200

(* handleSend up to the request for tokens.                                *)
Arrive(j, r, trackingOn, transportsOn) ==
  LET w == CurrentWindow(window)
      status == Check(r, trackingOn, transportsOn)
  IN
  /\ job[j].phase = "unsent" /\ \A i \in Jobs : i < j => job[i].phase # "unsent"
  /\ IF w.used >= MaxAttempts
     THEN /\ job' = [job EXCEPT ![j] = [Refused(429, now) EXCEPT !.retryAfter = RetryAfter(w)]]
          /\ window' = w
          /\ UNCHANGED transports
     ELSE /\ window' = [w EXCEPT !.used = @ + 1]
          /\ job' = [job EXCEPT ![j] =
               IF status = 200 THEN [Idle EXCEPT !.phase = "minting", !.request = r, !.at = now]
               ELSE Refused(status, now)]
          /\ transports' = IF status \in {200, 502} THEN {"account"} ELSE transports
  /\ UNCHANGED <<now, minted, delivered>>

MintRecipients(r) == IF Shared(r) THEN <<SharedRecipient>> ELSE r.to

(* pairTokensWithRecipients.                                               *)
Paired(r, tokens) == IF Shared(r) THEN [i \in DOMAIN r.to |-> tokens[1]] ELSE tokens

(* parseMintedTokens: as many as asked for, in the order asked for.        *)
(* Mutant: only counted.                                                   *)
MatchesCount(r, answer) == Len(answer) = Len(MintRecipients(r))
Matches(r, answer) ==
  /\ Len(answer) = Len(MintRecipients(r))
  /\ \A i \in DOMAIN answer : answer[i].recipient = MintRecipients(r)[i]

Token(j, recipient) == [job |-> j, recipient |-> recipient]

(* What the tracking service may answer: in order, out of order, short.    *)
Answers(j) ==
  LET wanted == MintRecipients(job[j].request)
      n == Len(wanted)
      right == [i \in 1 .. n |-> Token(j, wanted[i])]
  IN {right, [i \in 1 .. n |-> right[n + 1 - i]], [i \in 1 .. n - 1 |-> right[i]]}

(* mintTokens answered.                                                    *)
Minted(j) ==
  /\ job[j].phase = "minting"
  /\ \E answer \in Answers(j) :
       /\ minted' = minted \union {answer[i] : i \in DOMAIN answer}
       /\ LET r == job[j].request IN
          job' = [job EXCEPT ![j] =
            IF Matches(r, answer) THEN [@ EXCEPT !.phase = "copying", !.tokens = Paired(r, answer)]
            ELSE Refused(502, job[j].at)]
  /\ UNCHANGED <<now, window, transports, delivered>>

(* Mutant: a send that cannot be tracked goes out untracked.               *)
MintFailsOpen(j) ==
  /\ job[j].phase = "minting"
  /\ job' = [job EXCEPT ![j] = [@ EXCEPT !.phase = "copying",
               !.tokens = [i \in DOMAIN job[j].request.to |-> Token(None, None)]]]
  /\ UNCHANGED <<now, window, transports, minted, delivered>>
(* The tracking service is unreachable, answers an error or no JSON.       *)
MintFails(j) ==
  /\ job[j].phase = "minting"
  /\ job' = [job EXCEPT ![j] = Refused(502, job[j].at)]
  /\ UNCHANGED <<now, window, transports, minted, delivered>>

(* Mutant: the first failing copy ends the send.                           *)
ProceedsIfOk(j, ok) ==
  IF ok /\ Len(job[j].results) + 1 < Len(job[j].tokens) THEN "copying" ELSE "answered"
(* The loop of sendTracked: it goes on whatever the copy came to.          *)
Proceeds(j, ok) ==
  IF Len(job[j].results) + 1 < Len(job[j].tokens) THEN "copying" ELSE "answered"

(* Mutant: a failing copy turns the whole answer into a refusal.           *)
StatusOfLast(j, ok) == IF ok THEN 200 ELSE 502
(* The answer once copies have been tried: 200 with the results, always.   *)
Status(j, ok) == 200

Result(to, ok) == [to |-> to, ok |-> ok]
(* One copy: taken, rejected by the server, or an error after which it may *)
(* have left or not.                                                       *)
Copied(j, ok) ==
  LET to == job[j].request.to[Len(job[j].results) + 1] IN
  [job[j] EXCEPT !.results = Append(@, Result(to, ok)),
                 !.phase = Proceeds(j, ok),
                 !.status = IF Proceeds(j, ok) = "answered" THEN Status(j, ok) ELSE 0]
Copy(j, ok, left) ==
  /\ job[j].phase = "copying"
  /\ ok => left
  /\ LET i == Len(job[j].results) + 1 IN
     delivered' = IF left THEN delivered \union
                       {[job |-> j, to |-> job[j].request.to[i], token |-> job[j].tokens[i]]}
                  ELSE delivered
  /\ job' = [job EXCEPT ![j] = Copied(j, ok)]
  /\ UNCHANGED <<now, window, transports, minted>>

Tick == /\ now < MaxNow
        /\ now' = now + 1
        /\ UNCHANGED <<window, transports, job, minted, delivered>>

Next ==
  \/ \E j \in Jobs, r \in Requests, trackingOn, transportsOn \in BOOLEAN :
       Arrive(j, r, trackingOn, transportsOn)
  \/ \E j \in Jobs : Minted(j) \/ MintFails(j) \/ \E ok, left \in BOOLEAN : Copy(j, ok, left)
  \/ Tick

Spec == Init /\ [][Next]_vars

---------------------------------------------------------------------------
(* Every copy that left carries a token that the tracking service handed   *)
(* out for this send, and for its own recipient unless the attachments     *)
(* forced one shared token: an open is never credited to somebody else.    *)
CopyCarriesItsToken ==
  \A d \in delivered :
    /\ d.token \in minted /\ d.token.job = d.job
    /\ d.token.recipient = IF Shared(job[d.job].request) THEN SharedRecipient ELSE d.to

(* An answer other than 200 means that no copy left: what the composer     *)
(* tells the user of a 400, 404, 429, 502 or 503.                          *)
RefusedSentNothing ==
  \A j \in Jobs : job[j].phase = "answered" /\ job[j].status # 200 =>
    ~\E d \in delivered : d.job = j

(* A 200 accounts for every recipient, in order, and "ok" for none whose   *)
(* copy did not leave.                                                     *)
ResultsAccountForAll ==
  \A j \in Jobs : job[j].status = 200 =>
    /\ Len(job[j].results) = Len(job[j].request.to)
    /\ \A i \in DOMAIN job[j].results :
         /\ job[j].results[i].to = job[j].request.to[i]
         /\ job[j].results[i].ok =>
              \E d \in delivered : d.job = j /\ d.to = job[j].results[i].to

(* However the attempts fall, a stretch as long as the window sees no more *)
(* than two windows' worth of them admitted.                               *)
Admitted(from) == {j \in Jobs : /\ job[j].phase # "unsent" /\ job[j].status # 429
                                /\ job[j].at \in from .. from + Window - 1}
AdmittedBounded == \A t \in 0 .. MaxNow : Cardinality(Admitted(t)) <= 2 * MaxAttempts

(* Retry-After is true: when the seconds named have passed, the window     *)
(* that refused the attempt is over.                                       *)
RetryAfterIsTrue ==
  \A j \in Jobs : job[j].status = 429 /\ now >= job[j].at + Second * job[j].retryAfter =>
    window.start > job[j].at \/ now - window.start >= Window
---------------------------------------------------------------------------
(* The inductive invariant.  A request whose copies are being tried, or    *)
(* were: it has one token per recipient, each of its own, and a result for *)
(* every copy tried.                                                       *)
Tried(j) == job[j].phase = "copying" \/ (job[j].phase = "answered" /\ job[j].status = 200)
TokenFor(j, i) ==
  Token(j, IF Shared(job[j].request) THEN SharedRecipient ELSE job[j].request.to[i])

PhaseFits(j) ==
  /\ job[j].phase \in {"unsent", "minting"} => job[j].results = <<>>
  /\ job[j].phase = "minting" => job[j].request # None
  /\ job[j].phase \in {"unsent", "minting", "copying"} => job[j].status = 0
TokensFit(j) ==
  Tried(j) =>
    /\ job[j].request # None
    /\ Len(job[j].tokens) = Len(job[j].request.to)
    /\ \A i \in 1 .. Len(job[j].tokens) : job[j].tokens[i] = TokenFor(j, i)
                                         /\ job[j].tokens[i] \in minted
ResultFits(j, i) ==
  /\ job[j].results[i].to = job[j].request.to[i]
  /\ job[j].results[i].ok => \E d \in delivered : d.job = j /\ d.to = job[j].request.to[i]
ResultsFit(j) ==
  Tried(j) =>
    /\ IF job[j].phase = "copying" THEN Len(job[j].results) < Len(job[j].tokens)
                                   ELSE Len(job[j].results) = Len(job[j].tokens)
    /\ \A i \in 1 .. Len(job[j].results) : ResultFits(j, i)
CopiesFit ==
  \A d \in delivered :
    /\ Tried(d.job) /\ d.token \in minted
    /\ d.token = Token(d.job, IF Shared(job[d.job].request) THEN SharedRecipient ELSE d.to)

(* The limiter's part: the window counts what it admitted, the stretch     *)
(* before it no more than one window did, and a refusal names a time after *)
(* the window it was refused by.                                           *)
Since(from) == {j \in Jobs : job[j].phase # "unsent" /\ job[j].status # 429 /\ job[j].at >= from}
WindowCounts ==
  /\ window.start <= now /\ \A j \in Jobs : job[j].at <= now
  /\ \A j \in Since(0) : job[j].at < window.start + Window
  /\ Cardinality(Since(window.start)) <= window.used
  /\ Cardinality(Since(window.start - Window) \ Since(window.start)) <= MaxAttempts
RefusalsFit ==
  \A j \in Jobs : job[j].status = 429 =>
    \/ job[j].at < window.start
    \/ /\ job[j].at < window.start + Window
       /\ job[j].at + Second * job[j].retryAfter >= window.start + Window

AccountInv ==
  TypeOK /\ CopiesFit /\ \A j \in Jobs : PhaseFits(j) /\ TokensFit(j) /\ ResultsFit(j)
LimiterInv == WindowCounts /\ RefusalsFit /\ AdmittedBounded

SendInv == AccountInv /\ LimiterInv
=============================================================================
