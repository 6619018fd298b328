--------------------------------- MODULE Server ---------------------------------
(***************************************************************************)
(* The service as a process: it starts by writing its accounts to the      *)
(* database, then runs the pool, the opens poll and the HTTP server on one *)
(* database handle; a signal closes them in order.  It may crash between   *)
(* any two steps and is started again, perhaps with another primary        *)
(* account in its file.                                                    *)
(***************************************************************************)
EXTENDS Integers, FiniteSets

CONSTANTS Accounts, MaxConnections, MaxBoots, MaxRequests, None

VARIABLES stored,    \* the accounts table: account -> is it primary?
          file,      \* the accounts the file marks as primary
          config,    \* the primary account loaded from it
          phase,     \* "register", "start", "listening", "closing",
                     \* "stopping", "closingDb", "down", "refused"
          left,      \* accounts the registration has still to write
          open,      \* open connections: request -> "body" or "handling"
          detached,  \* handlers whose client went away
          pool, poll, \* "off", "idle", "busy" (in a cycle or tick), "last"
          database,  \* the handle: "open" or "closed"
          boots, requests
vars == <<stored, file, config, phase, left, open, detached, pool, poll, database,
          boots, requests>>

Background == {"off", "idle", "busy", "last"}

TypeOK ==
  /\ \A a \in DOMAIN stored : a \in Accounts /\ stored[a] \in BOOLEAN
  /\ file \subseteq Accounts /\ config \in Accounts \union {None}
  /\ phase \in {"register", "start", "listening", "closing", "stopping",
                "closingDb", "down", "refused", "misconfigured"}
  /\ left \subseteq Accounts \union {None}
  /\ DOMAIN open \subseteq 1 .. MaxRequests
  /\ \A r \in DOMAIN open : open[r] \in {"body", "handling"}
  /\ detached \subseteq 1 .. MaxRequests
  /\ pool \in Background /\ poll \in Background
  /\ database \in {"open", "closed"}
  /\ boots \in 1 .. MaxBoots /\ requests \in 0 .. MaxRequests

(* Mutant: several primary accounts are let through, and the first taken.  *)
UsableAnyNumber(marked) == marked # {}
(* loadConfig: exactly one account is the primary one.                     *)
Usable(marked) == Cardinality(marked) = 1

(* A start reads the file before anything else: an unusable one ends it.   *)
Started(marked) ==
  IF Usable(marked)
  THEN [config |-> CHOOSE a \in marked : TRUE,
        phase |-> "register", left |-> Accounts \union {None}]
  ELSE [config |-> None, phase |-> "misconfigured", left |-> {}]

Init ==
  /\ stored = << >>
  /\ file \in SUBSET Accounts
  /\ config = Started(file).config
  /\ phase = Started(file).phase
  /\ left = Started(file).left
  /\ open = << >> /\ detached = {}
  /\ pool = "off" /\ poll = "off"
  /\ database = "open"
  /\ boots = 1 /\ requests = 0

process == <<open, detached, pool, poll, requests>>

(*------------------------------- starting --------------------------------*)
(* Mutant: no account is demoted first.                                    *)
ClearedKept(table) == table
Cleared(table) == [a \in DOMAIN table |-> FALSE]

ClearPrimaries ==
  /\ phase = "register" /\ None \in left
  /\ left' = left \ {None}
  /\ stored' = Cleared(stored)
  /\ UNCHANGED <<file, config, phase, database, process, boots>>

(* An upsert; the table holds at most one primary account.                 *)
UpsertAccount(a) ==
  LET table == [b \in DOMAIN stored \union {a} |->
                  IF b = a THEN a \in file ELSE stored[b]]
  IN /\ phase = "register" /\ None \notin left /\ a \in left
     /\ IF Cardinality({b \in DOMAIN table : table[b]}) > 1
        THEN phase' = "refused" /\ UNCHANGED <<stored, left>>
        ELSE /\ stored' = table
             /\ left' = left \ {a}
             /\ phase' = IF left' = {} THEN "start" ELSE phase
     /\ UNCHANGED <<file, config, database, process, boots>>

(* The pool and the poll start, and the server listens.                    *)
StartServer ==
  /\ phase = "start"
  /\ phase' = "listening"
  /\ pool' = "idle" /\ poll' = "busy"
  /\ UNCHANGED <<stored, file, config, left, database, open, detached, boots, requests>>

(*------------------------------ background -------------------------------*)
PoolCycle ==
  /\ \/ pool = "idle" /\ pool' = "busy"
     \/ pool = "busy" /\ pool' = "idle"
     \/ pool = "last" /\ pool' = "off"
  /\ UNCHANGED <<stored, file, config, phase, left, database, open, detached, poll, boots, requests>>

PollTick ==
  /\ \/ poll = "idle" /\ poll' = "busy"
     \/ poll = "busy" /\ poll' = "idle"
     \/ poll = "last" /\ poll' = "off"
  /\ UNCHANGED <<stored, file, config, phase, left, database, open, detached, pool, boots, requests>>

(*-------------------------------- requests -------------------------------*)
Accept ==
  /\ phase = "listening"
  /\ Cardinality(DOMAIN open) < MaxConnections
  /\ requests < MaxRequests
  /\ requests' = requests + 1
  /\ open' = [r \in DOMAIN open \union {requests'} |->
                IF r = requests' THEN "body" ELSE open[r]]
  /\ UNCHANGED <<stored, file, config, phase, left, database, detached, pool, poll, boots>>

Without(r) == [q \in DOMAIN open \ {r} |-> open[q]]

(* The body is read up to its limit; more of it is answered 413.           *)
ReadRequestBody(r) ==
  /\ r \in DOMAIN open /\ open[r] = "body"
  /\ open' \in {[open EXCEPT ![r] = "handling"], Without(r)}
  /\ UNCHANGED <<stored, file, config, phase, left, database, detached, pool, poll, boots, requests>>

(* The router answers, or throws and 500 is written.                       *)
WriteResponse(r) ==
  /\ \/ /\ r \in DOMAIN open /\ open[r] = "handling"
        /\ open' = Without(r) /\ UNCHANGED detached
     \/ r \in detached /\ detached' = detached \ {r} /\ UNCHANGED open
  /\ UNCHANGED <<stored, file, config, phase, left, database, pool, poll, boots, requests>>

(* The client goes away: the connection is over, the handler is not.       *)
Hangup(r) ==
  /\ r \in DOMAIN open
  /\ open' = Without(r)
  /\ detached' = IF open[r] = "handling" THEN detached \union {r} ELSE detached
  /\ UNCHANGED <<stored, file, config, phase, left, database, pool, poll, boots, requests>>

(*------------------------------- stopping --------------------------------*)
(* SIGTERM or SIGINT: the first one closes, the others are ignored.        *)
OnSignal ==
  /\ phase = "listening"
  /\ phase' = "closing"
  /\ UNCHANGED <<stored, file, config, left, database, process, boots>>

(* Mutant: the loops are stopped without waiting for the connections.      *)
DrainedAtOnce == TRUE
(* server.close resolves once every connection is over.                    *)
Drained == open = << >>

Last(state) == CASE state = "busy" -> "last" [] state = "idle" -> "off"
                 [] OTHER -> state

ServerClosed ==
  /\ phase = "closing" /\ Drained
  /\ phase' = "stopping"
  /\ pool' = Last(pool) /\ poll' = Last(poll)
  /\ UNCHANGED <<stored, file, config, left, database, open, detached, boots, requests>>

(* Mutant: the poll's last tick is not waited for.                         *)
StoppedWithoutPoll == pool = "off"
Stopped == pool = "off" /\ poll = "off"

DatabaseClosed ==
  /\ phase = "stopping" /\ Stopped
  /\ phase' = "closingDb"
  /\ database' = "closed"
  /\ UNCHANGED <<stored, file, config, left, process, boots>>

ProcessOver == /\ left' = {} /\ open' = << >> /\ detached' = {}
               /\ pool' = "off" /\ poll' = "off"

Exit ==
  /\ phase \in {"closingDb", "refused", "misconfigured"}
  /\ phase' = "down"
  /\ ProcessOver
  /\ UNCHANGED <<stored, file, config, database, boots, requests>>

(*---------------------------- crash and restart --------------------------*)
Crash ==
  /\ phase \notin {"down", "refused", "misconfigured"}
  /\ phase' = "down"
  /\ database' = "closed"
  /\ ProcessOver
  /\ UNCHANGED <<stored, file, config, boots, requests>>

Boot ==
  /\ phase = "down" /\ boots < MaxBoots
  /\ boots' = boots + 1
  /\ file' \in SUBSET Accounts
  /\ config' = Started(file').config
  /\ phase' = Started(file').phase
  /\ left' = Started(file').left
  /\ database' = "open" /\ requests' = 0
  /\ UNCHANGED <<stored, open, detached, pool, poll>>

Next == \/ ClearPrimaries \/ \E a \in Accounts : UpsertAccount(a) \/ StartServer
        \/ PoolCycle \/ PollTick
        \/ Accept
        \/ \E r \in DOMAIN open : ReadRequestBody(r) \/ Hangup(r)
        \/ \E r \in DOMAIN open \union detached : WriteResponse(r)
        \/ OnSignal \/ ServerClosed \/ DatabaseClosed \/ Exit \/ Crash \/ Boot
Spec == Init /\ [][Next]_vars

(*------------------------------ properties -------------------------------*)
(* Whatever the file said before and wherever the process died, a start    *)
(* never fails on the one-primary index, and the service that listens has  *)
(* the file's primary account and no other.  (registerAccounts)            *)
PrimaryFollowsTheFile ==
  /\ phase # "refused"
  /\ phase = "listening" => {a \in DOMAIN stored : stored[a]} = {config}

(* The database outlives everything that uses it: no cycle, no tick and no *)
(* request whose client still waits meets a closed handle.  (createShutdown)*)
DatabaseOutlivesItsUsers ==
  database = "closed" => /\ pool = "off" /\ poll = "off"
                         /\ open = << >>

(* createShutdown's comment also promises it of the requests whose client  *)
(* has gone: the code does not wait for those.                             *)
NoHandlerWithoutDatabase == database = "closed" => detached = {}
(* The inductive invariant: what is registered so far is the file's, and   *)
(* what is being closed is closed in order.                                *)
RegisteredSoFar ==
  /\ phase # "refused"
  /\ phase \in {"register", "start", "listening", "closing", "stopping", "closingDb"}
       => file = {config} /\ config \in Accounts
  /\ phase \in {"start", "listening"} => left = {}
  /\ phase \in {"register", "start", "listening"} =>
       IF None \in left THEN Accounts \subseteq left
       ELSE /\ \A a \in DOMAIN stored : stored[a] => a = config
            /\ \A a \in Accounts \ left : a \in DOMAIN stored /\ (stored[a] <=> a = config)

ClosedInOrder ==
  /\ database = "closed" => phase \in {"closingDb", "down"}
  /\ phase \in {"stopping", "closingDb", "down"} => open = << >>
  /\ phase \in {"closingDb", "down"} => pool = "off" /\ poll = "off"

ServerInv == TypeOK /\ RegisteredSoFar /\ ClosedInOrder
================================================================================
