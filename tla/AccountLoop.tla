---------------------------- MODULE AccountLoop ----------------------------
(***************************************************************************)
(* The life of every account's connection: ConnectionPool.runAccount(),    *)
(* idleLoop(), syncOnce() as commands on a wire, and stop()                *)
(* (sync/src/imap/pool.ts); ImapConnection.connect() and disconnect()      *)
(* (imap/connection.ts); the API's downloads on the same connection        *)
(* (api/fetch-part.ts); the order of shutdown (api/server.ts).             *)
(*                                                                         *)
(* One step is what runs between two I/O events, so a rejection, the catch *)
(* block it lands in and the synchronous part of the disconnect() called   *)
(* there are one step.  imapflow sends one command of a connection at a    *)
(* time: a LOGOUT goes out after the command before it is answered.        *)
(***************************************************************************)
EXTENDS Integers

CONSTANTS
  Accounts,
  MaxConns,   \* bound: connections one account opens
  MaxAttempt, \* bound: failures in a row
  MaxChains   \* bound: dispatch chains one account launches

ASSUME BoundsAssumption == {MaxConns, MaxAttempt, MaxChains} \subseteq Nat \ {0}

VARIABLES
  phase,     \* how far createShutdown() is
  loop,      \* runAccount(): where it is, its connection (the one in the map),
             \* `attempt', and what its cycle is syncing
  conn,      \* every ImapConnection the account has had
  api,       \* a request that downloads: where it is, the connection it took
  lock,      \* who is in the account's critical section
  chains,    \* inFlightDispatches: early ones, and those stop() does not drain
  fruitless  \* history: connections begun since the last full cycle

vars == <<phase, loop, conn, api, lock, chains, fruitless>>

Phases == {"up", "closing", "disconnecting", "draining", "ended"}
\* "up": this.client is set; "vanished": so it is, but nobody answers.
\* "leaving", "hanging": this.client is null, LOGOUT waits for an answer;
\* "abandoned": it waited in vain, and the socket is still there.
ConnStates == {"unborn", "connecting", "up", "vanished", "leaving", "hanging",
               "abandoned", "closed"}
Commands == {"fetch", "reselect", "probe"}

Init ==
  /\ phase = "up"
  /\ loop = [a \in Accounts |-> [pc |-> "ready", conn |-> 0, attempt |-> 0, folder |-> "inbox"]]
  /\ conn = [a \in Accounts |-> [i \in 1..MaxConns |-> "unborn"]]
  /\ api = [a \in Accounts |-> [pc |-> "none", conn |-> 0]]
  /\ lock = [a \in Accounts |-> "free"]
  /\ chains = [a \in Accounts |-> [early |-> 0, late |-> 0]]
  /\ fruitless = [a \in Accounts |-> 0]

Running == phase \in {"up", "closing"}
Alive == phase # "ended"
At(a, pc) == Alive /\ loop[a].pc = pc
Current(a) == IF loop[a].conn = 0 THEN "unborn" ELSE conn[a][loop[a].conn]
HasClient(state) == state \in {"up", "vanished"}

\* The synchronous part of performDisconnect(), when connect() has settled
Leave(state) == CASE state = "up"       -> "leaving"
                  [] state = "vanished" -> "hanging"
                  [] OTHER              -> state

Goto(a, pc) == loop' = [loop EXCEPT ![a].pc = pc]
Unlock(a) == lock' = [lock EXCEPT ![a] = "free"]
-----------------------------------------------------------------------------
(* runAccount().                                                           *)


\* The catch block: count, disconnect without waiting, back off.
Failed(a) ==
  /\ loop' = [loop EXCEPT ![a].pc = IF Running THEN "ready" ELSE "gone",
                          ![a].attempt = @ + 1, ![a].folder = "inbox"]
  /\ conn' = [conn EXCEPT ![a][loop[a].conn] = Leave(@)]

\* The while condition, then createConnection(), the entry in the map and
\* connect(); a factory that throws goes straight to the catch block.
Open(a) ==
  /\ At(a, "ready") /\ Running
  /\ \/ /\ loop[a].conn < MaxConns
        /\ loop' = [loop EXCEPT ![a].pc = "connecting", ![a].conn = @ + 1]
        /\ conn' = [conn EXCEPT ![a][loop[a].conn + 1] = "connecting"]
        /\ fruitless' = [fruitless EXCEPT ![a] = @ + 1]
     \/ /\ loop[a].attempt < MaxAttempt
        /\ loop' = [loop EXCEPT ![a].attempt = @ + 1]
        /\ UNCHANGED <<conn, fruitless>>
  /\ UNCHANGED <<phase, api, lock, chains>>

\* The backoff sleep is cut short by stop(); the loop ends.
StopWhileReady(a) ==
  /\ At(a, "ready") /\ ~ Running
  /\ Goto(a, "gone")
  /\ UNCHANGED <<phase, conn, api, lock, chains, fruitless>>

\* Mutant: the attempt starts over with the connection.
AfterConnectResets(a) ==
  loop' = [loop EXCEPT ![a].pc = IF Running THEN "queued" ELSE "gone", ![a].attempt = 0]

\* What follows connect() in runAccount()
AfterConnect(a) == Goto(a, IF Running THEN "queued" ELSE "gone")

\* connect() succeeded.  A disconnect() that stop() called meanwhile was
\* waiting for it, and begins its LOGOUT.
ConnectOk(a) ==
  /\ At(a, "connecting")
  /\ AfterConnect(a)
  /\ conn' = [conn EXCEPT ![a][loop[a].conn] = IF Running THEN "up" ELSE "leaving"]
  /\ UNCHANGED <<phase, api, lock, chains, fruitless>>

ConnectFails(a) ==
  /\ At(a, "connecting")
  /\ loop' = [loop EXCEPT ![a].pc = IF Running THEN "ready" ELSE "gone",
                          ![a].attempt = @ + 1]
  /\ conn' = [conn EXCEPT ![a][loop[a].conn] = "closed"]
  /\ UNCHANGED <<phase, api, lock, chains, fruitless>>
-----------------------------------------------------------------------------
(* syncOnce() and idleLoop().                                              *)

\* Mutant: the probe asks for no lock.
TakeLockForCycle(a) ==
  /\ \/ lock[a] = "free" /\ At(a, "queued") /\ HasClient(Current(a)) /\ Goto(a, "fetch")
        /\ lock' = [lock EXCEPT ![a] = "loop"]
     \/ At(a, "toProbe") /\ Goto(a, "probe") /\ UNCHANGED lock
  /\ UNCHANGED <<phase, conn, api, chains, fruitless>>

\* mutex.run(): the cycle, or the probe, gets the account's key.  A cycle
\* whose connection stop() has closed meanwhile throws at its first command.
TakeLock(a) ==
  /\ lock[a] = "free"
  /\ \/ At(a, "queued") /\ HasClient(Current(a)) /\ Goto(a, "fetch")
     \/ At(a, "toProbe") /\ Goto(a, "probe")
  /\ lock' = [lock EXCEPT ![a] = "loop"]
  /\ UNCHANGED <<phase, conn, api, chains, fruitless>>

TakeLockInVain(a) ==
  /\ lock[a] = "free" /\ At(a, "queued") /\ ~ HasClient(Current(a))
  /\ Failed(a)
  /\ UNCHANGED <<phase, api, lock, chains, fruitless>>

\* A command is answered only by a peer that is there.
Answers(state) == state \in {"up", "leaving", "abandoned"}

\* A folder's headers have arrived and are stored row by row; or its budget is
\* spent and nothing was asked; or it is not INBOX, and its error is logged.
Fetched(a) ==
  /\ At(a, "fetch")
  /\ Goto(a, "store")
  /\ UNCHANGED <<phase, conn, api, lock, chains, fruitless>>

\* The folders after INBOX, and then the history, are fetched; or the cycle
\* puts INBOX back in front.  Without a client the first is skipped, and the
\* second throws.
Stored(a) ==
  /\ At(a, "store")
  /\ \/ /\ HasClient(Current(a))
        /\ \/ /\ loop[a].folder = "inbox"
              /\ loop' = [loop EXCEPT ![a].pc = "fetch", ![a].folder = "rest"]
           \/ Goto(a, "reselect")
        /\ UNCHANGED <<conn, lock>>
     \/ /\ ~ HasClient(Current(a))
        /\ Failed(a)
        /\ Unlock(a)
  /\ UNCHANGED <<phase, api, chains, fruitless>>

\* A command or a query of INBOX throws, or INBOX cannot be put back: the cycle
\* fails, and with it the connection.
CycleThrows(a) ==
  /\ \/ At(a, "reselect")
     \/ loop[a].folder = "inbox" /\ (At(a, "fetch") \/ At(a, "store"))
  /\ Failed(a)
  /\ Unlock(a)
  /\ UNCHANGED <<phase, api, chains, fruitless>>

\* The cycle is complete: what is new is dispatched by a chain nobody waits
\* for but stop(), `attempt' starts over, and the account idles.  An INBOX that
\* is still open is put back without a command, which a dead peer cannot stop.
CycleDone(a) ==
  /\ At(a, "reselect") /\ (Answers(Current(a)) \/ Current(a) = "vanished")
  /\ Unlock(a)
  /\ \/ UNCHANGED chains
     \/ /\ chains[a].early + chains[a].late < MaxChains
        /\ chains' = IF phase = "draining" THEN [chains EXCEPT ![a].late = @ + 1]
                                           ELSE [chains EXCEPT ![a].early = @ + 1]
  /\ loop' = [loop EXCEPT ![a].pc = IF Running THEN "idle" ELSE "gone",
                          ![a].folder = "inbox", ![a].attempt = 0]
  /\ fruitless' = [fruitless EXCEPT ![a] = 0]
  /\ UNCHANGED <<phase, conn, api>>
-----------------------------------------------------------------------------
(* Idling.                                                                 *)

\* Mutant: no bounded timeout on the wait.
WakesIfAnswered(a) == Answers(Current(a))

\* waitForIdleWake() resolves: mail, IDLE ended, or the bounded timeout, which
\* comes whatever the peer does
Wakes(a) == TRUE

Wake(a) ==
  /\ At(a, "idle") /\ Wakes(a)
  /\ \/ ~ Running /\ Goto(a, "gone")
     \/ Running /\ Goto(a, "toProbe")
     \/ Running /\ Answers(Current(a)) /\ Goto(a, "queued")
  /\ UNCHANGED <<phase, conn, api, lock, chains, fruitless>>

ProbeAnswered(a) ==
  /\ At(a, "probe") /\ Answers(Current(a))
  /\ Goto(a, IF Running THEN "queued" ELSE "gone")
  /\ Unlock(a)
  /\ UNCHANGED <<phase, conn, api, chains, fruitless>>

\* NOOP rejects, or is not answered in time
ProbeFails(a) ==
  /\ At(a, "probe")
  /\ Failed(a)
  /\ Unlock(a)
  /\ UNCHANGED <<phase, api, chains, fruitless>>
-----------------------------------------------------------------------------
(* disconnect(), the peer, and the dispatch chains.                        *)

PeerVanishes(a, i) ==
  /\ Alive /\ conn[a][i] \in {"up", "leaving"}
  /\ conn' = [conn EXCEPT ![a][i] = IF @ = "up" THEN "vanished" ELSE "hanging"]
  /\ UNCHANGED <<phase, loop, api, lock, chains, fruitless>>

LogoutAnswered(a, i) ==
  /\ Alive /\ conn[a][i] = "leaving"
  /\ ~ (i = loop[a].conn /\ loop[a].pc \in {"reselect", "probe"})
  /\ conn' = [conn EXCEPT ![a][i] = "closed"]
  /\ UNCHANGED <<phase, loop, api, lock, chains, fruitless>>

\* Mutant: a LOGOUT waited for however long it takes.
NeverTimesOut(a, i) == FALSE

\* withTimeout(logout()) rejects: disconnect() settles all the same
LogoutTimesOut(a, i) ==
  /\ Alive /\ conn[a][i] \in {"leaving", "hanging"}
  /\ conn' = [conn EXCEPT ![a][i] = "abandoned"]
  /\ UNCHANGED <<phase, loop, api, lock, chains, fruitless>>

\* notifyNewMail() has been through its messages; it never rejects
ChainSettles(a) ==
  /\ Alive
  /\ \E kind \in {"early", "late"} :
       /\ chains[a][kind] > 0
       /\ chains' = [chains EXCEPT ![a][kind] = @ - 1]
  /\ UNCHANGED <<phase, loop, conn, api, lock, fruitless>>
-----------------------------------------------------------------------------
(* A request that downloads.                                               *)

\* The route asks for the account's connection, and then for the lock.
Request(a) ==
  /\ phase = "up" /\ api[a].pc = "none" /\ loop[a].conn > 0
  /\ api' = [api EXCEPT ![a] = [pc |-> "waiting", conn |-> loop[a].conn]]
  /\ UNCHANGED <<phase, loop, conn, lock, chains, fruitless>>

RequestLocked(a) ==
  /\ Alive /\ api[a].pc = "waiting" /\ lock[a] = "free"
  /\ lock' = [lock EXCEPT ![a] = "api"]
  /\ api' = [api EXCEPT ![a].pc = "reserve"]
  /\ UNCHANGED <<phase, loop, conn, chains, fruitless>>

\* The budget has answered: the command goes out, if the connection still has
\* a client.
Download(a) ==
  /\ Alive /\ api[a].pc = "reserve" /\ HasClient(conn[a][api[a].conn])
  /\ api' = [api EXCEPT ![a].pc = "wire"]
  /\ UNCHANGED <<phase, loop, conn, lock, chains, fruitless>>

\* Answered, in whatever way: the part, 429, 413, 502
Respond(a) ==
  /\ Alive /\ api[a].pc \in {"reserve", "wire"}
  /\ api' = [api EXCEPT ![a] = [pc |-> "none", conn |-> 0]]
  /\ Unlock(a)
  /\ UNCHANGED <<phase, loop, conn, chains, fruitless>>
-----------------------------------------------------------------------------
(* createShutdown().                                                       *)

CloseServer ==
  /\ phase = "up"
  /\ phase' = "closing"
  /\ UNCHANGED <<loop, conn, api, lock, chains, fruitless>>

\* Mutant: the pool goes first.
NoneAwaited == TRUE

\* server.close() resolves once the requests in flight have been answered
RequestsAnswered == \A a \in Accounts : api[a].pc = "none"

\* pool.stop(): running is cleared, every connection in the map is told to
\* disconnect.  One that is still connecting first finishes that.
StopPool ==
  /\ phase = "closing" /\ RequestsAnswered
  /\ phase' = "disconnecting"
  /\ conn' = [a \in Accounts |->
                IF loop[a].conn = 0 THEN conn[a] ELSE [conn[a] EXCEPT ![loop[a].conn] = Leave(@)]]
  /\ UNCHANGED <<loop, api, lock, chains, fruitless>>

\* Mutants: disconnect() finds no client yet and returns; LOGOUTs not waited for.
NoClientNow == \A a \in Accounts : Current(a) \notin {"leaving", "hanging"}
ConnectsSettled == \A a \in Accounts : Current(a) # "connecting"

DisconnectsSettled == \A a \in Accounts : Current(a) \notin {"connecting", "leaving", "hanging"}

\* The drain begins: it waits for the chains there are now.
Drain ==
  /\ phase = "disconnecting" /\ DisconnectsSettled
  /\ phase' = "draining"
  /\ UNCHANGED <<loop, conn, api, lock, chains, fruitless>>

\* stop() resolves; db.close() and the process's exit follow
EndPool ==
  /\ phase = "draining" /\ \A a \in Accounts : chains[a].early = 0
  /\ phase' = "ended"
  /\ UNCHANGED <<loop, conn, api, lock, chains, fruitless>>
-----------------------------------------------------------------------------
Step(a) ==
  \/ Open(a) \/ StopWhileReady(a) \/ ConnectOk(a) \/ ConnectFails(a)
  \/ TakeLock(a) \/ TakeLockInVain(a)
  \/ Fetched(a) \/ Stored(a) \/ CycleThrows(a) \/ CycleDone(a)
  \/ Wake(a) \/ ProbeAnswered(a) \/ ProbeFails(a)

RequestStep(a) == Request(a) \/ RequestLocked(a) \/ Download(a) \/ Respond(a)

ConnStep(a, i) == PeerVanishes(a, i) \/ LogoutAnswered(a, i) \/ LogoutTimesOut(a, i)

Shutdown == CloseServer \/ StopPool \/ Drain \/ EndPool

Next ==
  \/ \E a \in Accounts : Step(a) \/ RequestStep(a) \/ ChainSettles(a)
  \/ \E a \in Accounts, i \in 1..MaxConns : ConnStep(a, i)
  \/ Shutdown

Spec == Init /\ [][Next]_vars

\* Every timer fires and every promise of the pool settles: connect() and the
\* commands are bounded by imapflow's own timeouts, the wait, the probe and
\* LOGOUT by this code's, a chain by the timeout of each send.  A mutex that
\* serves in order (KeyedMutex) starves neither side.
Fairness ==
  /\ \A a \in Accounts :
       /\ WF_vars(Step(a)) /\ SF_vars(TakeLock(a) \/ TakeLockInVain(a))
       /\ WF_vars(Respond(a)) /\ SF_vars(RequestLocked(a)) /\ WF_vars(ChainSettles(a))
       /\ \A i \in 1..MaxConns : WF_vars(LogoutTimesOut(a, i))
  /\ WF_vars(StopPool \/ Drain \/ EndPool)

FairSpec == Spec /\ Fairness
-----------------------------------------------------------------------------
(* Properties.                                                             *)

LoopStates == [pc : {"ready", "connecting", "queued", "fetch", "store", "reselect",
                     "idle", "toProbe", "probe", "gone"},
               conn : 0..MaxConns, attempt : Nat, folder : {"inbox", "rest"}]

TypeOK ==
  /\ phase \in Phases
  /\ loop \in [Accounts -> LoopStates]
  /\ conn \in [Accounts -> [1..MaxConns -> ConnStates]]
  /\ api \in [Accounts -> [pc : {"none", "waiting", "reserve", "wire"}, conn : 0..MaxConns]]
  /\ lock \in [Accounts -> {"free", "loop", "api"}]
  /\ chains \in [Accounts -> [early : Nat, late : Nat]]
  /\ fruitless \in [Accounts -> Nat]

\* A download is never cut off by the service: not by the probe that would
\* take a busy connection for a dead one, not by a failing cycle, not by a
\* shutdown that closes the pool before the requests it serves
\* (withAccountLock, createShutdown).
DownloadKeepsItsConnection ==
  \A a \in Accounts : api[a].pc = "wire" => HasClient(conn[a][api[a].conn])

\* When stop() has resolved, no connection is left that is open, or will be
\* once its connect() succeeds, and to which no LOGOUT was sent, whichever
\* attempt it belongs to (the registration before connect() in runAccount).
StopLeavesNoClient ==
  phase \in {"draining", "ended"} =>
    \A a \in Accounts : \A i \in 1..MaxConns : conn[a][i] \notin {"connecting", "up", "vanished"}

\* The drain of stop() is complete: unless a LOGOUT had to be given up, no
\* dispatch chain is left to run against a closed database.
DrainIsComplete ==
  phase = "ended" =>
    \A a \in Accounts : Current(a) = "abandoned" \/ chains[a].early + chains[a].late = 0

\* An account that connects and never gets through a cycle climbs the backoff
\* ladder with every connection (the comment on `attempt' in runAccount).
BackoffCountsFruitlessConnects ==
  \A a \in Accounts : loop[a].pc = "ready" => loop[a].attempt >= fruitless[a]

\* The critical section is the cycle, the probe, or one request.
LockIsHonest(a) ==
  /\ (lock[a] = "loop") <=> (loop[a].pc \in {"fetch", "store", "reselect", "probe"})
  /\ (lock[a] = "api") <=> (api[a].pc \in {"reserve", "wire"})

\* One connection of an account can be commanded: the newest.
OnlyTheNewest(a) ==
  \A i \in 1..MaxConns :
    /\ i # loop[a].conn => conn[a][i] \notin {"connecting", "up", "vanished"}
    /\ conn[a][i] = "connecting" => loop[a].pc = "connecting"
    /\ i > loop[a].conn => conn[a][i] = "unborn"

DownloadIsAlive(a) ==
  /\ api[a].pc # "none" => api[a].conn > 0
  /\ api[a].pc = "wire" => HasClient(conn[a][api[a].conn])

\* From stop() on the newest connection has no client, and from the drain on
\* it will not have one.
StoppedConn(a) ==
  /\ ~ Running => Current(a) \notin {"up", "vanished"} /\ api[a].pc = "none"
  /\ phase \in {"draining", "ended"} => Current(a) \notin {"connecting", "leaving", "hanging"}

\* A chain that stop() does not wait for was launched by the answer to a
\* command of a connection whose LOGOUT had been given up.
LateChains(a) ==
  /\ chains[a].late > 0 => phase \in {"draining", "ended"} /\ Current(a) = "abandoned"
  /\ phase = "ended" => chains[a].early = 0

Ladder(a) ==
  /\ fruitless[a] <= loop[a].attempt + 1
  /\ loop[a].pc = "ready" => fruitless[a] <= loop[a].attempt /\ ~ HasClient(Current(a))
  /\ loop[a].pc = "connecting" => loop[a].conn > 0 /\ Current(a) = "connecting"
  /\ loop[a].pc \notin {"ready", "gone"} => loop[a].conn > 0

AccountOK(a) ==
  /\ LockIsHonest(a) /\ OnlyTheNewest(a) /\ DownloadIsAlive(a)
  /\ StoppedConn(a) /\ LateChains(a) /\ Ladder(a)

\* The inductive invariant behind the properties above.
AccountInv == TypeOK /\ \A a \in Accounts : AccountOK(a)

(* The shutdown in one piece: what the loop, its lock, its connections     *)
(* and requests say of each other, and that stop() leaves neither a        *)
(* client nor a chain behind.                                              *)
StopInv == AccountInv /\ StopLeavesNoClient /\ DrainIsComplete

\* What server.ts says of the shutdown: "both are fully stopped before
\* db.close()".  No cycle is still storing rows when stop() has resolved.
NoCycleOutlivesStop == phase = "ended" => \A a \in Accounts : loop[a].pc # "store"

\* A peer that has gone silent is noticed, even if the connection only idles.
DeadPeerIsNoticed ==
  \A a \in Accounts : (Running /\ Current(a) = "vanished") ~> (~ Running \/ Current(a) # "vanished")

\* A shutdown comes to its end, whatever state the connections are in.
ShutdownEnds == phase = "closing" ~> phase = "ended"
=============================================================================
