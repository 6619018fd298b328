------------------------------ MODULE SessionRoute ------------------------------
(***************************************************************************)
(* Signing in at the service: wrong tokens are counted in a fixed window   *)
(* that is asked before the body is read and charged after it, a right one *)
(* sets a cookie signed with the key of this deployment, and every route   *)
(* but health and sign-in asks for that cookie.  Sign-ins overlap; the     *)
(* service restarts, perhaps with another token.                           *)
(***************************************************************************)
EXTENDS Integers, FiniteSets

CONSTANTS Keys, MaxNow, Window, MaxFailures, MaxPending, Lifetime, None

VARIABLES now,
          key,      \* the token this deployment accepts
          window,   \* the limiter: [start, failures]
          pending,  \* sign-ins between the check and the answer
          cookie,   \* the browser's cookie, or None
          served    \* what the last request was given
vars == <<now, key, window, pending, cookie, served>>

Cookie == [key: Keys, expires: 0 .. MaxNow + Lifetime]
SignIn == [at: 0 .. MaxNow, token: Keys \union {None}]

TypeOK ==
  /\ now \in 0 .. MaxNow
  /\ key \in Keys
  /\ window \in [start: 0 .. MaxNow, failures: Nat]
  /\ pending \subseteq SignIn
  /\ cookie \in Cookie \union {None}
  /\ served \in {"none", "health", "signed in", "signed out", "data", "page",
                 "not found", "unauthorized", "too many", "refused"}

Init == /\ now = 0
        /\ key \in Keys
        /\ window = [start |-> 0, failures |-> 0]
        /\ pending = {} /\ cookie = None /\ served = "none"

Tick == /\ now < MaxNow /\ now' = now + 1
        /\ UNCHANGED <<key, window, pending, cookie, served>>

(* Mutant: a moment before the window begins another one.                  *)
CurrentWindowEither(at) ==
  IF at - window.start >= Window \/ at < window.start
  THEN [start |-> at, failures |-> 0] ELSE window
(* The window is left by time only; a sign-in that began before it did is  *)
(* charged to it.                                                          *)
CurrentWindow(at) ==
  IF at - window.start >= Window THEN [start |-> at, failures |-> 0] ELSE window

(* Mutant: the limiter is never asked.                                     *)
AllowedAlways(w) == TRUE
Allowed(w) == w.failures < MaxFailures

(* handleCreateSession up to the body.                                     *)
CheckSignIn(token) ==
  /\ Cardinality(pending) < MaxPending
  /\ window' = CurrentWindow(now)
  /\ IF Allowed(window')
     THEN /\ pending' = pending \union {[at |-> now, token |-> token]}
          /\ UNCHANGED served
     ELSE served' = "too many" /\ UNCHANGED pending
  /\ UNCHANGED <<now, key, cookie>>

(* No body, no token or a wrong one is a failure.                          *)
AnswerSignIn(request) ==
  /\ request \in pending
  /\ pending' = pending \ {request}
  /\ IF request.token = key
     THEN /\ cookie' = [key |-> key, expires |-> now + Lifetime]
          /\ served' = "signed in"
          /\ UNCHANGED window
     ELSE /\ LET w == CurrentWindow(request.at)
             IN window' = [w EXCEPT !.failures = @ + 1]
          /\ served' = "refused"
          /\ UNCHANGED cookie
  /\ UNCHANGED <<now, key>>

(* Mutant: the signature is checked, the date is not.                      *)
ValidUndated(c) == c # None /\ c.key = key
(* verifySessionValue: signed with this deployment's key and not expired.  *)
Valid(c) == IF c = None THEN FALSE ELSE c.key = key /\ now < c.expires

(* The dispatch, by the path's class.                                      *)
Dispatch(path) ==
  CASE path = "health" -> "health"
    [] path = "static" -> "page"
    [] OTHER -> IF ~Valid(cookie) THEN "unauthorized"
                ELSE IF path = "unknown api" THEN "not found"
                ELSE IF path = "sign out" THEN "signed out" ELSE "data"

Request(path) ==
  /\ served' = Dispatch(path)
  /\ cookie' = IF served' = "signed out" THEN None ELSE cookie
  /\ UNCHANGED <<now, key, window, pending>>

(* The limiter is memory; the token is the deployment's.                   *)
Restart ==
  /\ key' \in Keys
  /\ window' = [start |-> 0, failures |-> 0]
  /\ pending' = {}
  /\ UNCHANGED <<now, cookie, served>>

Next == \/ Tick \/ Restart
        \/ \E token \in Keys \union {None} : CheckSignIn(token)
        \/ \E request \in pending : AnswerSignIn(request)
        \/ \E path \in {"health", "static", "sign out", "unknown api", "data"} :
             Request(path)
Spec == Init /\ [][Next]_vars

(*------------------------------ properties -------------------------------*)
(* Overlapping sign-ins may outrun the limiter by what was in flight, and  *)
(* by no more: one window admits at most its limit and the requests that   *)
(* had passed the check when it was reached.  (createFixedWindowLimiter)   *)
FailuresBounded == window.failures <= MaxFailures + MaxPending - 1

(* Failures are forgotten by time or a restart only: a slow sign-in that   *)
(* began before the window does not empty it when it fails.                *)
FailuresKeptStep ==
  window'.failures < window.failures =>
    window'.start - window.start >= Window \/ window' = [start |-> 0, failures |-> 0]
FailuresKept == [][FailuresKeptStep]_vars

(* Mail leaves the service only to a browser that signed in with the token *)
(* of this very deployment, less than a session's lifetime ago; in         *)
(* particular a new token ends the old sessions.  (requestHasValidSession) *)
DataNeedsASignInStep ==
  served' = "data" /\ served # "data" =>
    cookie # None /\ cookie.key = key /\ now < cookie.expires
DataNeedsASignIn == [][DataNeedsASignInStep]_vars
(* The inductive invariant: every sign-in that passed the check may still  *)
(* become a failure of this window.                                        *)
InFlightBounded ==
  /\ IsFiniteSet(pending) /\ Cardinality(pending) <= MaxPending
  /\ window.failures + Cardinality(pending) <= MaxFailures + MaxPending - 1

SessionInv == TypeOK /\ InFlightBounded
================================================================================
