------------------------------ MODULE SessionGate ------------------------------
(***************************************************************************)
(* The client's session gate: an attempt probes the session; a 401 shows   *)
(* the login view and holds the attempt until the form's POST succeeds,    *)
(* then the probe is sent once more.  An attempt that a later one replaced *)
(* unwinds without a trace.  The development build mounts the tree twice   *)
(* (StrictMode), so the first attempt may be replaced before its answer.   *)
(***************************************************************************)
EXTENDS Integers

CONSTANTS MaxAttempt, None

VARIABLES cookie,    \* "none", "good" or "unkept": what the server would say
          gate,      \* "checking", "login", "authorized" or "error"
          attempt,   \* the attempt the gate belongs to
          probes,    \* probes in flight: [attempt, retried]
          pending,   \* the attempt waiting for a sign-in, or None
          form       \* the login form: "idle", "posting", "accepted"
vars == <<cookie, gate, attempt, probes, pending, form>>

Probe == [attempt: 1 .. MaxAttempt, retried: BOOLEAN]

TypeOK ==
  /\ cookie \in {"none", "good", "unkept"}
  /\ gate \in {"checking", "login", "authorized", "error"}
  /\ attempt \in 1 .. MaxAttempt
  /\ probes \subseteq Probe
  /\ pending \in 1 .. MaxAttempt \union {None}
  /\ form \in {"idle", "posting", "accepted"}

Init ==
  /\ cookie \in {"none", "good"}
  /\ gate = "checking"
  /\ attempt \in {1, 2}
  /\ probes = [attempt: 1 .. attempt, retried: {FALSE}]
  /\ pending = None
  /\ form = "idle"

(* The effect: the attempt before is cancelled, its resolver dropped.      *)
StartAttempt ==
  /\ attempt < MaxAttempt
  /\ attempt' = attempt + 1
  /\ gate' = "checking"
  /\ form' = "idle"
  /\ probes' = probes \union {[attempt |-> attempt + 1, retried |-> FALSE]}

(* Retry of the error banner.                                              *)
Retry == /\ gate = "error"
         /\ StartAttempt
         /\ pending' = None
         /\ UNCHANGED cookie

(* Mutant: a replaced attempt still claims the login view.                 *)
ClaimsAlways(p) == TRUE
Claims(p) == p.attempt = attempt

(* Mutant: a second 401 asks for the token again.                          *)
AsksAlways(p) == TRUE
(* withSession: exactly one retry.                                         *)
Asks(p) == ~p.retried

Settle(p, outcome) ==
  /\ gate' = IF p.attempt = attempt THEN outcome ELSE gate
  /\ probes' = probes \ {p}
  /\ UNCHANGED <<cookie, attempt, pending, form>>

ProbeAccepted(p) == cookie = "good" /\ Settle(p, "authorized")

(* A network failure or a 5xx never opens the login view.                  *)
ProbeFails(p) == Settle(p, "error")

(* The first 401: the attempt waits for a sign-in; one that was replaced   *)
(* sends its retry at once and is ignored.                                 *)
ProbeRefused(p) ==
  /\ cookie # "good" /\ Asks(p)
  /\ IF Claims(p)
       THEN /\ gate' = "login" /\ pending' = p.attempt
            /\ form' = "idle"
            /\ probes' = probes \ {p}
       ELSE /\ probes' = (probes \ {p}) \union {[p EXCEPT !.retried = TRUE]}
            /\ UNCHANGED <<gate, pending, form>>
  /\ UNCHANGED <<cookie, attempt>>

(* The second 401 is surfaced.                                             *)
RetryRefused(p) == cookie # "good" /\ ~Asks(p) /\ Settle(p, "error")

(* LoginView.handleSubmit; the form is disabled until the POST answers.    *)
Submit ==
  /\ gate = "login" /\ form = "idle"
  /\ form' = "posting"
  /\ UNCHANGED <<cookie, gate, attempt, probes, pending>>

SignInRefused ==
  /\ form = "posting"
  /\ form' = "idle"
  /\ UNCHANGED <<cookie, gate, attempt, probes, pending>>

(* signIn: the waiting attempt sends its probe again, or a new attempt is  *)
(* made when nothing waits (a safety net: LoginNeverStuck shows that some  *)
(* attempt always does).                                                   *)
Wake ==
  IF pending # None
    THEN /\ probes' = probes \union {[attempt |-> pending, retried |-> TRUE]}
         /\ form' = "accepted"
         /\ UNCHANGED <<gate, attempt>>
    ELSE StartAttempt

SignInAccepted ==
  /\ form = "posting"
  /\ cookie' \in {"good", "unkept"}
  /\ Wake
  /\ pending' = None

Next ==
  \/ Retry \/ Submit \/ SignInRefused \/ SignInAccepted
  \/ \E p \in probes : \/ ProbeAccepted(p) \/ ProbeFails(p)
                       \/ ProbeRefused(p) \/ RetryRefused(p)

Spec == Init /\ [][Next]_vars

(* The gate always has a way on: a check or an accepted sign-in has a      *)
(* probe of the current attempt in flight, a login form that can be used   *)
(* has an attempt waiting for it (so the sign-in will be noticed), an error*)
(* has its retry.                                                          *)
LoginNeverStuck ==
  /\ gate = "checking" => \E p \in probes : p.attempt = attempt
  /\ gate = "login" =>
       IF form = "accepted" THEN \E p \in probes : p.attempt = attempt
                            ELSE pending = attempt

(* The user is asked for the token once per attempt: what a sign-in did    *)
(* not repair ends in the error, not in a loop of login forms.             *)
AskedOnceStep ==
  gate = "login" /\ form = "accepted" /\ attempt' = attempt =>
    gate' # "login" \/ form' = "accepted"
AskedOnce == [][AskedOnceStep]_vars

(* The inductive invariant: only the current attempt can wait for a        *)
(* sign-in, and the probes of an attempt that is past its check are those  *)
(* that a sign-in woke.                                                    *)
OnlyTheFirstAsks ==
  /\ pending \in {attempt, None}
  /\ gate = "checking" => pending = None
  /\ \A p \in probes :
       p.attempt = attempt => (p.retried <=> gate # "checking")

ProbesAreNumbered == \A p \in probes : p.attempt <= attempt

GateInv == TypeOK /\ LoginNeverStuck /\ OnlyTheFirstAsks /\ ProbesAreNumbered
=============================================================================
