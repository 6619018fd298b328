------------------------------ MODULE ReaderFetch ------------------------------
(***************************************************************************)
(* How the client fetches message bodies: the reader opens a message, the  *)
(* prefetcher guesses (a hovered row, the neighbours of an open message),  *)
(* and both share one registry of running requests and one cache.  The     *)
(* cache is used as BoundedCache promises it: storing an entry may push    *)
(* out others.  Messages are numbered by their place in the list.          *)
(***************************************************************************)
EXTENDS Integers, Sequences, FiniteSets, Functions

CONSTANTS Count,        \* messages in the list
          MaxInFlight, MaxQueued, None
Msgs == 1 .. Count

VARIABLES cache,     \* messages whose body is cached
          queue,     \* guesses waiting for a slot, newest first
          active,    \* guesses of the current generation on the wire
          failed,    \* guesses that failed this session
          shared,    \* message -> its registered request, or None
          retries,   \* messages being fetched past the registry
          reader     \* [msg, load, wait] or None
vars == <<cache, queue, active, failed, shared, retries, reader>>

(* guess: started by the prefetcher; opened: loadMessage hangs on it;      *)
(* aborted: cancelAll has aborted its signal.                              *)
Request == [guess: BOOLEAN, opened: BOOLEAN, aborted: BOOLEAN]
Reader == [msg: Msgs, load: {"loading", "ready", "error"},
           wait: {"shared", "retry", "none"}]

TypeOK ==
  /\ cache \subseteq Msgs /\ active \subseteq Msgs /\ failed \subseteq Msgs
  /\ queue \in Seq(Msgs) /\ retries \subseteq Msgs
  /\ shared \in [Msgs -> Request \union {None}]
  /\ reader \in Reader \union {None}

Init ==
  /\ cache = {} /\ queue = << >> /\ active = {} /\ failed = {}
  /\ shared = [m \in Msgs |-> None] /\ retries = {} /\ reader = None

(* The prefetcher's state as one value, to run several calls in a step.    *)
Guesses == [queue |-> queue, active |-> active, shared |-> shared]

(* The head of the queue takes a slot; InFlightRequests.run by the         *)
(* prefetcher: join what runs, or start.                                   *)
Started(g, m) ==
  [g EXCEPT !.queue = Tail(@), !.active = @ \union {m},
            !.shared[m] = IF @ # None THEN @
              ELSE [guess |-> TRUE, opened |-> FALSE, aborted |-> FALSE]]

(* pump: one slot opens at a time, so one start fills it.                  *)
Pump(g) ==
  IF g.queue # << >> /\ Cardinality(g.active) < MaxInFlight
    THEN Started(g, Head(g.queue)) ELSE g

(* prefetch: nothing for what is cached, running, failed or queued; the    *)
(* newest guess goes first and the oldest falls off.                       *)
Guess(g, m) ==
  IF m \in cache \/ g.shared[m] # None \/ m \in g.active \/ m \in failed
       \/ m \in Range(g.queue)
    THEN g
    ELSE LET q == <<m>> \o g.queue
         IN Pump([g EXCEPT !.queue = SubSeq(q, 1, IF Len(q) > MaxQueued
                                                    THEN MaxQueued ELSE Len(q))])

Becomes(g) == queue' = g.queue /\ active' = g.active /\ shared' = g.shared

(* Pointer or keyboard focus on a row.                                     *)
Hover(m) == /\ Becomes(Guess(Guesses, m))
            /\ UNCHANGED <<cache, failed, retries, reader>>

(* prefetchAround(index, 1): the next row, then the previous one.          *)
Around(g, m) ==
  LET next == IF m + 1 \in Msgs THEN Guess(g, m + 1) ELSE g
  IN IF m - 1 \in Msgs THEN Guess(next, m - 1) ELSE next

(* The reader's effects: loadMessage answers from the cache or joins or    *)
(* starts the message's request; then the neighbours are guessed.          *)
Open(m) ==
  /\ ~(reader # None /\ reader.msg = m)
  /\ IF m \in cache
       THEN /\ reader' = [msg |-> m, load |-> "ready", wait |-> "none"]
            /\ Becomes(Around(Guesses, m))
       ELSE /\ reader' = [msg |-> m, load |-> "loading", wait |-> "shared"]
            /\ Becomes(Around([Guesses EXCEPT !.shared[m] =
                 IF @ # None THEN [@ EXCEPT !.opened = TRUE]
                 ELSE [guess |-> FALSE, opened |-> TRUE, aborted |-> FALSE]],
                 m))
  /\ UNCHANGED <<cache, failed, retries>>

(* closeMessage: the body's effect is cancelled, its request runs on.      *)
Close == /\ reader # None
         /\ reader' = None
         /\ UNCHANGED <<cache, queue, active, failed, shared, retries>>

(* Mutant: the registry forgets what was aborted.                          *)
CancelAllForgets ==
  /\ queue' = << >>
  /\ active' = {}
  /\ shared' = [m \in Msgs |-> IF m \in active THEN None ELSE shared[m]]
(* cancelAll: the queue is emptied, the signals of the guesses on the wire *)
(* are aborted (a guess that joined the reader's request aborts nothing),  *)
(* and their answers are disowned.                                         *)
CancelAll ==
  /\ queue' = << >>
  /\ active' = {}
  /\ shared' = [m \in Msgs |->
       IF m \in active /\ shared[m] # None /\ shared[m].guess
         THEN [shared[m] EXCEPT !.aborted = TRUE] ELSE shared[m]]

(* leaveReader, and the list's fetch effect, which a debounced search text *)
(* runs while the reader may be up.                                        *)
LeaveReader == /\ CancelAll
               /\ reader' = None
               /\ UNCHANGED <<cache, failed, retries>>
NewSelection == /\ CancelAll
                /\ UNCHANGED <<cache, failed, retries, reader>>

Awaits(m, how) == reader # None /\ reader.msg = m /\ reader.wait = how

Settled(load) == [reader EXCEPT !.load = load, !.wait = "none"]

(* MessageCache.set: some of the others may be evicted.                    *)
Stored(m) == \E kept \in SUBSET cache : cache' = kept \union {m}

(* Mutant: the answer of a disowned guess is stored.                       *)
StoresAlways(m) == TRUE
(* Stored for whoever opened the message, and for a guess only while its   *)
(* generation lasts.                                                       *)
Stores(m) == shared[m].opened \/ m \in active

(* The request is answered; an abort may come too late to stop it.         *)
Answered(m) ==
  /\ shared[m] # None
  /\ Becomes(LET g == [Guesses EXCEPT !.shared[m] = None, !.active = @ \ {m}]
             IN IF m \in active THEN Pump(g) ELSE g)
  /\ IF Stores(m) THEN Stored(m) ELSE UNCHANGED cache
  /\ reader' = IF Awaits(m, "shared") THEN Settled("ready") ELSE reader
  /\ UNCHANGED <<failed, retries>>

(* Mutant: the slot of a failed guess goes to nobody.                      *)
FailedWithoutPump(m) ==
  /\ shared[m] # None
  /\ Becomes([Guesses EXCEPT !.shared[m] = None, !.active = @ \ {m}])
  /\ failed' = IF m \in active THEN failed \union {m} ELSE failed
  /\ reader' = IF Awaits(m, "shared") THEN Settled("error") ELSE reader
  /\ UNCHANGED <<cache, retries>>
(* It fails, or its abort is reported: whoever waits learns of it, and a   *)
(* guess that failed is never tried again.                                 *)
Failed(m) ==
  /\ shared[m] # None
  /\ Becomes(LET g == [Guesses EXCEPT !.shared[m] = None, !.active = @ \ {m}]
             IN IF m \in active THEN Pump(g) ELSE g)
  /\ failed' = IF m \in active THEN failed \union {m} ELSE failed
  /\ reader' = IF Awaits(m, "shared") THEN Settled("error") ELSE reader
  /\ UNCHANGED <<cache, retries>>

(* "Try again": refetchMessage reads no cache and joins nothing.           *)
Retry ==
  /\ reader # None /\ reader.load = "error" /\ reader.msg \notin retries
  /\ reader' = [reader EXCEPT !.load = "loading", !.wait = "retry"]
  /\ retries' = retries \union {reader.msg}
  /\ UNCHANGED <<cache, queue, active, failed, shared>>

RetryAnswered(m) ==
  /\ m \in retries
  /\ retries' = retries \ {m}
  /\ Stored(m)
  /\ reader' = IF Awaits(m, "retry") THEN Settled("ready") ELSE reader
  /\ UNCHANGED <<queue, active, failed, shared>>

RetryFailed(m) ==
  /\ m \in retries
  /\ retries' = retries \ {m}
  /\ reader' = IF Awaits(m, "retry") THEN Settled("error") ELSE reader
  /\ UNCHANGED <<cache, queue, active, failed, shared>>

Next ==
  \/ \E m \in Msgs : \/ Hover(m) \/ Open(m) \/ Answered(m) \/ Failed(m)
                     \/ RetryAnswered(m) \/ RetryFailed(m)
  \/ Close \/ LeaveReader \/ NewSelection \/ Retry

Spec == Init /\ [][Next]_vars

(* No more guesses run than allowed, and none waits while a slot is free,  *)
(* so no guess is stranded in the queue with nothing left to start it; a   *)
(* slot that is held has a request in the registry that will give it back. *)
SlotsAreUsed ==
  /\ Cardinality(active) <= MaxInFlight
  /\ queue # << >> => Cardinality(active) = MaxInFlight
  /\ \A m \in active : shared[m] # None

(* A reader that shows its skeleton waits for a request that is running,   *)
(* whoever started it and whatever was cancelled since.                    *)
ReaderIsServed ==
  reader # None /\ reader.load = "loading" =>
    \/ reader.wait = "shared" /\ shared[reader.msg] # None
         /\ shared[reader.msg].opened
    \/ reader.wait = "retry" /\ reader.msg \in retries

(* Speculation never outlives its guess: an aborted request that nobody    *)
(* opened leaves the cache as it is, even when its answer arrives.         *)
GuessesDieStep ==
  \A m \in Msgs :
    shared[m] # None /\ shared[m].aborted /\ ~shared[m].opened
      /\ shared'[m] = None => cache' = cache
GuessesDie == [][GuessesDieStep]_vars

(* The inductive invariant: what waits or runs as a guess was not aborted, *)
(* and nothing that runs waits as well.                                    *)
GuessesAreLive ==
  /\ \A m \in active : ~shared[m].aborted
  /\ \A i \in DOMAIN queue : /\ queue[i] \notin active
                             /\ shared[queue[i]] = None \/ ~shared[queue[i]].aborted
  /\ \A i, k \in DOMAIN queue : queue[i] = queue[k] => i = k

FetchInv == TypeOK /\ SlotsAreUsed /\ ReaderIsServed /\ GuessesAreLive
=============================================================================
