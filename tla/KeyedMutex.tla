----------------------------- MODULE KeyedMutex -----------------------------
(***************************************************************************)
(* The per-account mutex of the sync service (sync/src/imap/keyed-mutex.ts)*)
(* as a chain of promises.  run(key, fn) remembers the promise the map     *)
(* holds for the key, puts its own in the map, and calls fn when the       *)
(* remembered one has settled, whichever way.  There is no queue: the only *)
(* thing a call waits for is the ONE call it found in the map.             *)
(*                                                                         *)
(* run() is synchronous up to the map write (no await before line 29), so  *)
(* it is one action.  Calls do not nest: a task that asked for the key it  *)
(* holds would wait for itself, which the callers avoid (AccountLoop).     *)
(***************************************************************************)
EXTENDS Integers

CONSTANTS Calls,   \* the calls of run(), each made at most once
          Keys,    \* account ids
          NoKey,   \* the key of a call not made yet
          NoCall   \* "the map has no promise for this key"

ASSUME NoCallAssumption == NoCall \notin Calls
ASSUME NoKeyAssumption == NoKey \notin Keys

VARIABLES
  tails,     \* the map: [Keys -> Calls \cup {NoCall}]
  previous,  \* what a call found in the map: [Calls -> Calls \cup {NoCall}]
  key,       \* the key a call asked for
  phase,     \* how far the call's promise is
  ticket,    \* history: the order in which the calls were made, 0 before
  made       \* history: how many calls were made

vars == <<tails, previous, key, phase, ticket, made>>

Outcome == {"resolved", "rejected"}
Phase == {"idle", "queued", "running"} \cup Outcome

Settled(c) == phase[c] \in Outcome

Init ==
  /\ tails = [k \in Keys |-> NoCall]
  /\ previous = [c \in Calls |-> NoCall]
  /\ key = [c \in Calls |-> NoKey]
  /\ phase = [c \in Calls |-> "idle"]
  /\ ticket = [c \in Calls |-> 0]
  /\ made = 0

\* Mutant: the call never becomes the one its successor waits for.
RunForgetsTheMap(c, k) ==
  /\ phase[c] = "idle"
  /\ previous' = [previous EXCEPT ![c] = tails[k]]
  /\ key' = [key EXCEPT ![c] = k]
  /\ phase' = [phase EXCEPT ![c] = "queued"]
  /\ made' = made + 1
  /\ ticket' = [ticket EXCEPT ![c] = made + 1]
  /\ UNCHANGED tails

\* run(k, fn): read the map, chain onto what it held, replace it
Run(c, k) ==
  /\ phase[c] = "idle"
  /\ previous' = [previous EXCEPT ![c] = tails[k]]
  /\ tails' = [tails EXCEPT ![k] = c]
  /\ key' = [key EXCEPT ![c] = k]
  /\ phase' = [phase EXCEPT ![c] = "queued"]
  /\ made' = made + 1
  /\ ticket' = [ticket EXCEPT ![c] = made + 1]

\* Mutants: chain onto the promise itself, so that a failed task wedges the
\* queue; wait for the predecessor to begin, not to end.
PreviousResolved(c) == previous[c] # NoCall => phase[previous[c]] = "resolved"
PreviousBegun(c) == previous[c] # NoCall => phase[previous[c]] # "queued"

\* previous.catch(...) lets a rejected predecessor through like a resolved one
PreviousSettled(c) == previous[c] # NoCall => Settled(previous[c])

\* previousSettled.then(fn): fn is called
Start(c) ==
  /\ phase[c] = "queued"
  /\ PreviousSettled(c)
  /\ phase' = [phase EXCEPT ![c] = "running"]
  /\ UNCHANGED <<tails, previous, key, ticket, made>>

\* the promise fn returned settles, and with it this call's
Settle(c, outcome) ==
  /\ phase[c] = "running"
  /\ phase' = [phase EXCEPT ![c] = outcome]
  /\ UNCHANGED <<tails, previous, key, ticket, made>>

Next == \E c \in Calls :
          \/ \E k \in Keys : Run(c, k)
          \/ Start(c)
          \/ \E outcome \in Outcome : Settle(c, outcome)

Spec == Init /\ [][Next]_vars

\* A settled promise runs its reactions (the event loop), and a task ends: the
\* mutex has no timeout, so this is what its callers owe it.
Fairness == \A c \in Calls : /\ WF_vars(Start(c))
                             /\ WF_vars(\E outcome \in Outcome : Settle(c, outcome))

FairSpec == Spec /\ Fairness
-----------------------------------------------------------------------------
TypeOK ==
  /\ tails \in [Keys -> Calls \cup {NoCall}]
  /\ previous \in [Calls -> Calls \cup {NoCall}]
  /\ key \in [Calls -> Keys \cup {NoKey}]
  /\ phase \in [Calls -> Phase]
  /\ ticket \in [Calls -> Nat]
  /\ made \in Nat

\* Two tasks of one account are never inside their critical sections together:
\* reserve/fetch/record of one cycle never interleaves with another's
\* (keyed-mutex.ts:9-15), although a call waits for one predecessor only.
MutualExclusion ==
  \A c, d \in Calls :
    phase[c] = "running" /\ phase[d] = "running" /\ key[c] = key[d] => c = d

\* d was made before c, for the same key
EarlierCall(d, c) == key[d] = key[c] /\ 0 < ticket[d] /\ ticket[d] < ticket[c]

\* Calls of one key are served in the order they were made: whoever has begun
\* has every earlier call of its key behind it.
ServedInOrder ==
  \A c, d \in Calls :
    phase[c] \in {"running"} \cup Outcome /\ EarlierCall(d, c) => Settled(d)

\* The map holds the call made last for the key, if any was.
TailIsLast ==
  \A k \in Keys, c \in Calls :
    key[c] = k => /\ tails[k] # NoCall
                  /\ key[tails[k]] = k
                  /\ ticket[c] <= ticket[tails[k]]

\* A call chained onto the one made just before it for its key.
ChainedOntoLast ==
  \A c, d \in Calls :
    EarlierCall(d, c) => /\ previous[c] # NoCall
                         /\ EarlierCall(previous[c], c)
                         /\ ticket[d] <= ticket[previous[c]]

\* Tickets number the calls made.
TicketsNumberCalls ==
  /\ \A c \in Calls : /\ ticket[c] <= made
                      /\ (phase[c] = "idle") <=> (ticket[c] = 0)
                      /\ (phase[c] = "idle") <=> (key[c] = NoKey)
  /\ \A c, d \in Calls : ticket[c] = ticket[d] /\ ticket[c] # 0 => c = d

\* Waiting for ONE predecessor is waiting for all of them: the invariant of
\* the promise chain in keyed-mutex.ts:22-36.
ChainInv == /\ TypeOK
            /\ TicketsNumberCalls
            /\ TailIsLast
            /\ ChainedOntoLast
            /\ ServedInOrder

(* The tasks of an account run one at a time, because each waits for the   *)
(* one before it in the map.                                               *)
MutexInv == ChainInv /\ MutualExclusion

\* A failed task does not wedge the queue: every call made is begun, provided
\* that every task begun ends (keyed-mutex.ts:24-26).
EveryCallBegins == \A c \in Calls : (phase[c] = "queued") ~> (phase[c] = "running")

\* The promise chain implements the lock its callers rely on.
Abstract == INSTANCE FifoLock
ImplementsFifoLock == Abstract!Spec
=============================================================================
