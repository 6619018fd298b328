------------------------------ MODULE FifoLock ------------------------------
(***************************************************************************)
(* What a caller of a per-key lock is promised: work on one key is served  *)
(* one task at a time and in the order it was asked for, work on different *)
(* keys does not wait for each other, and a task that fails gives its turn *)
(* up like one that succeeds.  No queue and no promise appears here: a     *)
(* request takes a ticket, and a task begins when every earlier ticket of  *)
(* its key is over.                                                        *)
(***************************************************************************)
EXTENDS Integers

CONSTANTS Calls,   \* the requests made of the lock, each made at most once
          Keys,    \* what is locked
          NoKey    \* "no request yet"

VARIABLES
  key,      \* [Calls -> Keys \cup {NoKey}]: the key a call asked for
  ticket,   \* [Calls -> Nat]: its place in the order of requests, 0 before it
  phase     \* [Calls -> {"idle", "queued", "running", "resolved", "rejected"}]

vars == <<key, ticket, phase>>

Over(c) == phase[c] \in {"resolved", "rejected"}

\* d asked for the key of c, before c did
Earlier(d, c) == key[d] = key[c] /\ 0 < ticket[d] /\ ticket[d] < ticket[c]

Init == /\ key = [c \in Calls |-> NoKey]
        /\ ticket = [c \in Calls |-> 0]
        /\ phase = [c \in Calls |-> "idle"]

Request(c, k) ==
  /\ phase[c] = "idle"
  /\ ticket'[c] \in Nat
  /\ \A d \in Calls : ticket[d] < ticket'[c]
  /\ ticket' = [ticket EXCEPT ![c] = ticket'[c]]
  /\ key' = [key EXCEPT ![c] = k]
  /\ phase' = [phase EXCEPT ![c] = "queued"]

Begin(c) ==
  /\ phase[c] = "queued"
  /\ \A d \in Calls : Earlier(d, c) => Over(d)
  /\ phase' = [phase EXCEPT ![c] = "running"]
  /\ UNCHANGED <<key, ticket>>

End(c, outcome) ==
  /\ phase[c] = "running"
  /\ phase' = [phase EXCEPT ![c] = outcome]
  /\ UNCHANGED <<key, ticket>>

Next == \E c \in Calls :
          \/ \E k \in Keys : Request(c, k)
          \/ Begin(c)
          \/ \E outcome \in {"resolved", "rejected"} : End(c, outcome)

Spec == Init /\ [][Next]_vars
=============================================================================
