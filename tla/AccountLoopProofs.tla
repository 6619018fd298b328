------------------------- MODULE AccountLoopProofs -------------------------
(***************************************************************************)
(* Theorems about the account loop, for every number of accounts, of       *)
(* connections, failures and dispatch chains: AccountInv is inductive.     *)
(* Each step but the shutdown's is one account's (OneAccount); how a step  *)
(* leaves that account is stated by what it becomes, field by field, and   *)
(* the conjuncts of AccountOK follow from that alone.                      *)
(***************************************************************************)
EXTENDS AccountLoop, TLAPS

LEMMA FailedLoop ==
  ASSUME NEW l \in LoopStates
  PROVE  [l EXCEPT !.pc = IF Running THEN "ready" ELSE "gone", !.attempt = @ + 1,
                   !.folder = "inbox"] \in LoopStates
<1>1. ASSUME NEW pc \in {"ready", "gone"}, NEW n \in Nat
      PROVE  [l EXCEPT !.pc = pc, !.attempt = n, !.folder = "inbox"] \in LoopStates
  BY DEF LoopStates
<1>2. l.attempt + 1 \in Nat
  BY DEF LoopStates
<1>. QED
  BY <1>1, <1>2

LEMMA CountedLoop ==
  ASSUME NEW l \in LoopStates
  PROVE  [l EXCEPT !.pc = IF Running THEN "ready" ELSE "gone", !.attempt = @ + 1] \in LoopStates
<1>1. ASSUME NEW pc \in {"ready", "gone"}, NEW n \in Nat
      PROVE  [l EXCEPT !.pc = pc, !.attempt = n] \in LoopStates
  BY DEF LoopStates
<1>2. l.attempt + 1 \in Nat
  BY DEF LoopStates
<1>. QED
  BY <1>1, <1>2

LEMMA DoneLoop ==
  ASSUME NEW l \in LoopStates
  PROVE  [l EXCEPT !.pc = IF Running THEN "idle" ELSE "gone", !.folder = "inbox",
                   !.attempt = 0] \in LoopStates
<1>1. ASSUME NEW pc \in {"idle", "gone"}
      PROVE  [l EXCEPT !.pc = pc, !.folder = "inbox", !.attempt = 0] \in LoopStates
  BY DEF LoopStates
<1>. QED
  BY <1>1

LEMMA ConnectingLoop ==
  ASSUME NEW l \in LoopStates, NEW j \in 0..MaxConns
  PROVE  [l EXCEPT !.pc = "connecting", !.conn = j] \in LoopStates
  BY DEF LoopStates

USE BoundsAssumption
USE DEF Running, Alive, At, Current, HasClient, Phases, ConnStates

LEMMA InitAccount == Init => AccountInv
  BY DEF Init, AccountInv, TypeOK, LoopStates, AccountOK, LockIsHonest, OnlyTheNewest,
         DownloadIsAlive, StoppedConn, LateChains, Ladder

Unchanged(b) == UNCHANGED <<loop[b], conn[b], api[b], lock[b], chains[b], fruitless[b]>>

\* A step of one account leaves the others as they are.
LEMMA OneAccount ==
  ASSUME AccountInv, NEW a \in Accounts,
         UNCHANGED phase, TypeOK', AccountOK(a)',
         \A b \in Accounts \ {a} : Unchanged(b)
  PROVE  AccountInv'
<1>1. ASSUME NEW b \in Accounts \ {a} PROVE AccountOK(b)'
  <2>1. AccountOK(b) /\ Unchanged(b)
    BY DEF AccountInv
  <2>. QED
    BY <2>1 DEF Unchanged, AccountOK, LockIsHonest, OnlyTheNewest, DownloadIsAlive,
                StoppedConn, LateChains, Ladder
<1>. QED
  BY <1>1 DEF AccountInv

\* The loop moves on, the connection stays: what has to be right is who holds
\* the lock.
LEMMA LoopMoves ==
  ASSUME AccountInv, NEW a \in Accounts,
         NEW l \in LoopStates, NEW k \in {"free", "loop", "api"},
         UNCHANGED <<phase, conn, api, chains, fruitless>>,
         loop' = [loop EXCEPT ![a] = l], lock' = [lock EXCEPT ![a] = k],
         l.conn = loop[a].conn, l.attempt = loop[a].attempt,
         loop[a].pc # "connecting", l.pc # "connecting",
         l.pc \notin {"ready", "gone"} => loop[a].pc \notin {"ready", "gone"},
         l.pc # "ready",
         (k = "loop") <=> (l.pc \in {"fetch", "store", "reselect", "probe"}),
         (k = "api") <=> (lock[a] = "api")
  PROVE  AccountInv'
<1>1. TypeOK /\ AccountOK(a)
  BY DEF AccountInv
<1>2. TypeOK'
  BY <1>1 DEF TypeOK
<1>3. loop'[a] = l /\ lock'[a] = k /\ \A b \in Accounts \ {a} : Unchanged(b)
  BY <1>1 DEF TypeOK, Unchanged
<1>4. loop[a] \in LoopStates
  BY <1>1 DEF TypeOK
<1>5. LockIsHonest(a)'
  BY <1>1, <1>3 DEF AccountOK, LockIsHonest
<1>6. OnlyTheNewest(a)'
  BY <1>1, <1>3 DEF AccountOK, OnlyTheNewest
<1>7. DownloadIsAlive(a)'
  BY <1>1 DEF AccountOK, DownloadIsAlive
<1>8. StoppedConn(a)'
  BY <1>1, <1>3 DEF AccountOK, StoppedConn
<1>9. LateChains(a)'
  BY <1>1, <1>3 DEF AccountOK, LateChains
<1>10. Ladder(a)'
  BY <1>1, <1>3, <1>4 DEF AccountOK, Ladder, LoopStates
<1>. QED
  BY <1>2, <1>3, <1>5, <1>6, <1>7, <1>8, <1>9, <1>10, OneAccount DEF AccountOK

\* The catch block: the loop's own critical section is over, so no download
\* is on the connection it gives up.
LEMMA LoopFails ==
  ASSUME AccountInv, NEW a \in Accounts, Failed(a), lock[a] # "api",
         loop[a].pc \notin {"ready", "connecting", "gone"},
         UNCHANGED <<phase, api, chains, fruitless>>,
         lock' = [lock EXCEPT ![a] = "free"]
  PROVE  AccountInv'
<1> DEFINE j == loop[a].conn
           l == [loop[a] EXCEPT !.pc = IF Running THEN "ready" ELSE "gone",
                                !.attempt = @ + 1, !.folder = "inbox"]
<1>1. TypeOK /\ AccountOK(a) /\ loop[a] \in LoopStates
  BY DEF AccountInv, TypeOK
<1>2. j \in 1..MaxConns
  BY <1>1 DEF AccountOK, Ladder, LoopStates
<1>3. /\ loop' = [loop EXCEPT ![a] = l]
      /\ conn' = [conn EXCEPT ![a] = [conn[a] EXCEPT ![j] = Leave(conn[a][j])]]
  BY <1>1 DEF Failed, TypeOK
<1>4. l \in LoopStates /\ Leave(conn[a][j]) \in ConnStates
  <2>1. l \in LoopStates
    BY <1>1, FailedLoop
  <2>2. conn[a][j] \in ConnStates
    BY <1>1, <1>2 DEF TypeOK
  <2>3. \A state \in ConnStates : Leave(state) \in ConnStates
    BY DEF Leave
  <2>. QED
    BY <2>1, <2>2, <2>3
<1>5. TypeOK'
  <2> HIDE DEF l, j
  <2>1. [conn[a] EXCEPT ![j] = Leave(conn[a][j])] \in [1..MaxConns -> ConnStates]
    BY <1>1, <1>2, <1>4 DEF TypeOK
  <2>. QED
    BY <1>1, <1>3, <1>4, <2>1 DEF TypeOK
<1>6. \A b \in Accounts \ {a} : Unchanged(b)
  BY <1>1, <1>3 DEF TypeOK, Unchanged
<1>7. /\ loop'[a].pc = IF Running THEN "ready" ELSE "gone"
      /\ loop'[a].conn = j /\ loop'[a].attempt = loop[a].attempt + 1
      /\ lock'[a] = "free"
  BY <1>1, <1>3 DEF TypeOK, LoopStates
<1>8. /\ conn'[a][j] = Leave(conn[a][j])
      /\ \A i \in 1..MaxConns : i # j => conn'[a][i] = conn[a][i]
  BY <1>1, <1>2, <1>3 DEF TypeOK
<1>9. api[a].pc \notin {"reserve", "wire"}
  BY <1>1 DEF AccountOK, LockIsHonest, TypeOK
<1> HIDE DEF j, l
<1>10. LockIsHonest(a)'
  BY <1>7, <1>9 DEF LockIsHonest
<1>11. OnlyTheNewest(a)'
  BY <1>1, <1>2, <1>7, <1>8 DEF AccountOK, OnlyTheNewest, Leave, j
<1>12. DownloadIsAlive(a)'
  BY <1>1, <1>9 DEF AccountOK, DownloadIsAlive
<1>13. StoppedConn(a)'
  BY <1>1, <1>2, <1>7, <1>8 DEF AccountOK, StoppedConn, Leave, j
<1>14. LateChains(a)'
  BY <1>1, <1>2, <1>7, <1>8 DEF AccountOK, LateChains, Leave, j
<1>15. Ladder(a)'
  BY <1>1, <1>2, <1>7, <1>8 DEF AccountOK, Ladder, LoopStates, TypeOK, Leave, j
<1>. QED
  BY <1>5, <1>6, <1>10, <1>11, <1>12, <1>13, <1>14, <1>15, OneAccount DEF AccountOK

\* One connection changes hands with its peer, or connect() settles: it does
\* not become one that takes commands, unless it was connecting.
LEMMA ConnMoves ==
  ASSUME AccountInv, NEW a \in Accounts, NEW i \in 1..MaxConns, NEW s \in ConnStates,
         UNCHANGED <<phase, loop, api, lock, chains, fruitless>>,
         conn' = [conn EXCEPT ![a][i] = s],
         s \in {"vanished", "hanging", "closed", "abandoned"},
         conn[a][i] \in {"up", "leaving", "hanging"},
         s = "vanished" <=> conn[a][i] = "up"
  PROVE  AccountInv'
<1>1. TypeOK /\ AccountOK(a)
  BY DEF AccountInv
<1>2. TypeOK'
  BY <1>1 DEF TypeOK
<1>3. \A b \in Accounts \ {a} : Unchanged(b)
  BY <1>1 DEF TypeOK, Unchanged
<1>4. conn'[a][i] = s /\ \A n \in 1..MaxConns : n # i => conn'[a][n] = conn[a][n]
  BY <1>1 DEF TypeOK
<1>5. loop[a].conn \in 0..MaxConns /\ api[a].conn \in 0..MaxConns
  BY <1>1 DEF TypeOK, LoopStates
<1>6. LockIsHonest(a)'
  BY <1>1 DEF AccountOK, LockIsHonest
<1>7. OnlyTheNewest(a)'
  BY <1>1, <1>4 DEF AccountOK, OnlyTheNewest
<1>8. DownloadIsAlive(a)'
  BY <1>1, <1>4, <1>5 DEF AccountOK, DownloadIsAlive
<1>9. StoppedConn(a)'
  <2>1. ~ Running => Current(a)' \notin {"up", "vanished"} /\ api'[a].pc = "none"
    BY <1>1, <1>4, <1>5 DEF AccountOK, StoppedConn, OnlyTheNewest
  <2>2. phase \in {"draining", "ended"} => Current(a)' \notin {"connecting", "leaving", "hanging"}
    BY <1>1, <1>4, <1>5 DEF AccountOK, StoppedConn, OnlyTheNewest
  <2>. QED
    BY <2>1, <2>2 DEF StoppedConn
<1>10. LateChains(a)'
  BY <1>1, <1>4, <1>5 DEF AccountOK, LateChains
<1>11. Ladder(a)'
  BY <1>1, <1>4, <1>5 DEF AccountOK, Ladder
<1>. QED
  BY <1>2, <1>3, <1>6, <1>7, <1>8, <1>9, <1>10, <1>11, OneAccount DEF AccountOK

\* The next connection, or a factory that throws.
LEMMA OpenKeepsInv == ASSUME AccountInv, NEW a \in Accounts, Open(a) PROVE AccountInv'
<1>0. TypeOK /\ AccountOK(a) /\ loop[a] \in LoopStates
  BY DEF AccountInv, TypeOK
<1>1. loop[a].pc = "ready" /\ Running /\ UNCHANGED <<phase, api, lock, chains>>
  BY DEF Open
<1>2. CASE /\ loop[a].conn < MaxConns
           /\ loop' = [loop EXCEPT ![a].pc = "connecting", ![a].conn = @ + 1]
           /\ conn' = [conn EXCEPT ![a][loop[a].conn + 1] = "connecting"]
           /\ fruitless' = [fruitless EXCEPT ![a] = @ + 1]
  <2> DEFINE l == [loop[a] EXCEPT !.pc = "connecting", !.conn = @ + 1]
             j == loop[a].conn + 1
  <2>1. /\ loop' = [loop EXCEPT ![a] = l]
        /\ conn' = [conn EXCEPT ![a] = [conn[a] EXCEPT ![j] = "connecting"]]
        /\ fruitless' = [fruitless EXCEPT ![a] = fruitless[a] + 1]
    BY <1>0, <1>2 DEF TypeOK
  <2>2. j \in 1..MaxConns /\ fruitless[a] + 1 \in Nat
    BY <1>0, <1>2 DEF LoopStates, TypeOK
  <2>3. l \in LoopStates /\ l.pc = "connecting" /\ l.conn = j /\ l.attempt = loop[a].attempt
    <3>0. loop[a].conn + 1 \in 0..MaxConns
      BY <2>2
    <3>1. l \in LoopStates
      BY <1>0, <3>0, ConnectingLoop
    <3>. QED
      BY <1>0, <3>1 DEF LoopStates
  <2> HIDE DEF l
  <2>4. TypeOK'
    BY <1>0, <1>1, <2>1, <2>2, <2>3 DEF TypeOK
  <2>5. \A b \in Accounts \ {a} : Unchanged(b)
    BY <1>0, <1>1, <2>1 DEF TypeOK, Unchanged
  <2>6. /\ loop'[a] = l /\ fruitless'[a] = fruitless[a] + 1 /\ conn'[a][j] = "connecting"
        /\ \A i \in 1..MaxConns : i # j => conn'[a][i] = conn[a][i]
    BY <1>0, <2>1, <2>2 DEF TypeOK
  <2> HIDE DEF j
  <2>7. LockIsHonest(a)'
    BY <1>0, <1>1, <2>3, <2>6 DEF AccountOK, LockIsHonest
  <2>8. OnlyTheNewest(a)'
    BY <1>0, <1>1, <2>2, <2>3, <2>6 DEF AccountOK, OnlyTheNewest, Ladder, LoopStates, j
  <2>9. DownloadIsAlive(a)'
    <3>1. conn[a][j] = "unborn"
      BY <1>0, <2>2 DEF AccountOK, OnlyTheNewest, LoopStates, j
    <3>2. api[a].conn \in 0..MaxConns /\ api'[a] = api[a]
      BY <1>0, <1>1 DEF TypeOK
    <3>. QED
      BY <1>0, <2>2, <2>6, <3>1, <3>2 DEF AccountOK, DownloadIsAlive
  <2>10. StoppedConn(a)' /\ LateChains(a)'
    BY <1>0, <1>1 DEF AccountOK, StoppedConn, LateChains
  <2>11. Ladder(a)'
    BY <1>0, <1>1, <2>2, <2>3, <2>6 DEF AccountOK, Ladder, LoopStates, TypeOK
  <2>. QED
    BY <1>1, <2>4, <2>5, <2>7, <2>8, <2>9, <2>10, <2>11, OneAccount DEF AccountOK
<1>3. CASE loop' = [loop EXCEPT ![a].attempt = @ + 1] /\ UNCHANGED <<conn, fruitless>>
  <2>1. loop' = [loop EXCEPT ![a] = [loop[a] EXCEPT !.attempt = @ + 1]]
    BY <1>0, <1>3 DEF TypeOK
  <2>2. [loop[a] EXCEPT !.attempt = @ + 1] \in LoopStates
    BY <1>0 DEF LoopStates
  <2>3. TypeOK' /\ \A b \in Accounts \ {a} : Unchanged(b)
    BY <1>0, <1>1, <1>3, <2>1, <2>2 DEF TypeOK, Unchanged
  <2>4. /\ loop'[a].pc = "ready" /\ loop'[a].conn = loop[a].conn
        /\ loop'[a].attempt = loop[a].attempt + 1
    BY <1>0, <1>1, <2>1 DEF LoopStates, TypeOK
  <2>5. LockIsHonest(a)' /\ DownloadIsAlive(a)' /\ LateChains(a)'
    BY <1>0, <1>1, <1>3, <2>4 DEF AccountOK, LockIsHonest, DownloadIsAlive, LateChains
  <2>6. OnlyTheNewest(a)'
    BY <1>0, <1>1, <1>3, <2>4 DEF AccountOK, OnlyTheNewest
  <2>7. StoppedConn(a)'
    BY <1>0, <1>1, <1>3, <2>4 DEF AccountOK, StoppedConn
  <2>8. Ladder(a)'
    BY <1>0, <1>1, <1>3, <2>4 DEF AccountOK, Ladder, LoopStates, TypeOK
  <2>. QED
    BY <1>1, <2>3, <2>5, <2>6, <2>7, <2>8, OneAccount DEF AccountOK
<1>. QED
  BY <1>2, <1>3 DEF Open

\* connect() settles.  Whatever the connection becomes, nobody commanded it.
LEMMA ConnectSettlesKeepsInv ==
  ASSUME AccountInv, NEW a \in Accounts, ConnectOk(a) \/ ConnectFails(a)
  PROVE  AccountInv'
<1> DEFINE j == loop[a].conn
<1>0. TypeOK /\ AccountOK(a) /\ loop[a] \in LoopStates
  BY DEF AccountInv, TypeOK
<1>1. /\ loop[a].pc = "connecting" /\ conn[a][j] = "connecting" /\ j \in 1..MaxConns
      /\ ~ (phase \in {"draining", "ended"})
      /\ UNCHANGED <<phase, api, lock, chains, fruitless>>
  BY <1>0 DEF ConnectOk, ConnectFails, AccountOK, Ladder, LoopStates, StoppedConn
<1>2. PICK l \in LoopStates, s \in ConnStates :
        /\ loop' = [loop EXCEPT ![a] = l]
        /\ conn' = [conn EXCEPT ![a] = [conn[a] EXCEPT ![j] = s]]
        /\ l.conn = j
        /\ \/ /\ l.pc = "queued" /\ Running /\ s = "up" /\ l.attempt = loop[a].attempt
           \/ /\ l.pc = "gone" /\ ~ Running /\ s = "leaving" /\ l.attempt = loop[a].attempt
           \/ /\ l.pc = (IF Running THEN "ready" ELSE "gone") /\ s = "closed"
              /\ l.attempt = loop[a].attempt + 1
  <2>1. CASE ConnectOk(a)
    <3> DEFINE l == [loop[a] EXCEPT !.pc = IF Running THEN "queued" ELSE "gone"]
               s == IF Running THEN "up" ELSE "leaving"
    <3>1. l \in LoopStates /\ s \in ConnStates
      BY <1>0 DEF LoopStates
    <3>2. /\ loop' = [loop EXCEPT ![a] = l]
          /\ conn' = [conn EXCEPT ![a] = [conn[a] EXCEPT ![j] = s]]
      BY <1>0, <2>1 DEF ConnectOk, AfterConnect, Goto, TypeOK
    <3>3. /\ l.conn = j /\ l.attempt = loop[a].attempt
          /\ l.pc = IF Running THEN "queued" ELSE "gone"
      BY <1>0 DEF LoopStates
    <3>. QED
      BY <3>1, <3>2, <3>3
  <2>2. CASE ConnectFails(a)
    <3> DEFINE l == [loop[a] EXCEPT !.pc = IF Running THEN "ready" ELSE "gone",
                                    !.attempt = @ + 1]
    <3>1. l \in LoopStates
      BY <1>0, CountedLoop
    <3>2. /\ loop' = [loop EXCEPT ![a] = l]
          /\ conn' = [conn EXCEPT ![a] = [conn[a] EXCEPT ![j] = "closed"]]
      BY <1>0, <2>2 DEF ConnectFails, TypeOK
    <3>3. /\ l.conn = j /\ l.attempt = loop[a].attempt + 1
          /\ l.pc = IF Running THEN "ready" ELSE "gone"
      BY <1>0 DEF LoopStates
    <3>. QED
      BY <3>1, <3>2, <3>3
  <2>. QED
    BY <2>1, <2>2
<1>3. TypeOK'
  BY <1>0, <1>1, <1>2 DEF TypeOK
<1>4. \A b \in Accounts \ {a} : Unchanged(b)
  BY <1>0, <1>1, <1>2 DEF TypeOK, Unchanged
<1>5. /\ loop'[a] = l /\ conn'[a][j] = s
      /\ \A i \in 1..MaxConns : i # j => conn'[a][i] = conn[a][i]
  BY <1>0, <1>1, <1>2 DEF TypeOK
<1> HIDE DEF j
<1>6. LockIsHonest(a)'
  BY <1>0, <1>1, <1>2, <1>5 DEF AccountOK, LockIsHonest
<1>7. OnlyTheNewest(a)'
  BY <1>0, <1>1, <1>2, <1>5 DEF AccountOK, OnlyTheNewest, j
<1>8. DownloadIsAlive(a)'
  <2>1. api[a].conn \in 0..MaxConns /\ api'[a] = api[a]
    BY <1>0, <1>1 DEF TypeOK
  <2>. QED
    BY <1>0, <1>1, <1>5, <2>1 DEF AccountOK, DownloadIsAlive
<1>9. StoppedConn(a)'
  BY <1>0, <1>1, <1>2, <1>5 DEF AccountOK, StoppedConn
<1>10. LateChains(a)'
  BY <1>0, <1>1 DEF AccountOK, LateChains
<1>11. Ladder(a)'
  BY <1>0, <1>1, <1>2, <1>5 DEF AccountOK, Ladder, LoopStates, TypeOK
<1>. QED
  BY <1>1, <1>3, <1>4, <1>6, <1>7, <1>8, <1>9, <1>10, <1>11, OneAccount DEF AccountOK

\* The cycle is complete.  A chain launched during the drain answers a command
\* of an abandoned connection: any other has been told to leave and has left.
LEMMA CycleDoneKeepsInv == ASSUME AccountInv, NEW a \in Accounts, CycleDone(a) PROVE AccountInv'
<1>0. TypeOK /\ AccountOK(a) /\ loop[a] \in LoopStates
  BY DEF AccountInv, TypeOK
<1>1. /\ loop[a].pc = "reselect" /\ phase # "ended" /\ UNCHANGED <<phase, conn, api>>
      /\ Answers(Current(a)) \/ Current(a) = "vanished"
  BY DEF CycleDone
<1>2. PICK l \in LoopStates :
        /\ loop' = [loop EXCEPT ![a] = l]
        /\ l.pc = (IF Running THEN "idle" ELSE "gone") /\ l.conn = loop[a].conn
  <2> DEFINE l == [loop[a] EXCEPT !.pc = IF Running THEN "idle" ELSE "gone",
                                  !.folder = "inbox", !.attempt = 0]
  <2>1. l \in LoopStates
    BY <1>0, DoneLoop
  <2>2. loop' = [loop EXCEPT ![a] = l]
    BY <1>0 DEF CycleDone, TypeOK
  <2>3. l.conn = loop[a].conn /\ l.pc = IF Running THEN "idle" ELSE "gone"
    BY <1>0 DEF LoopStates
  <2>. QED
    BY <2>1, <2>2, <2>3
<1>3. PICK h \in [early : Nat, late : Nat] :
        /\ chains' = [chains EXCEPT ![a] = h]
        /\ phase # "draining" => h.late = chains[a].late
  <2>1. chains[a] \in [early : Nat, late : Nat]
    BY <1>0 DEF TypeOK
  <2>2. CASE UNCHANGED chains
    BY <1>0, <2>1, <2>2 DEF TypeOK
  <2>3. CASE phase = "draining" /\ chains' = [chains EXCEPT ![a].late = @ + 1]
    <3>1. [chains[a] EXCEPT !.late = @ + 1] \in [early : Nat, late : Nat]
      BY <2>1
    <3>. QED
      BY <1>0, <2>3, <3>1 DEF TypeOK
  <2>4. CASE phase # "draining" /\ chains' = [chains EXCEPT ![a].early = @ + 1]
    <3>1. /\ [chains[a] EXCEPT !.early = @ + 1] \in [early : Nat, late : Nat]
          /\ [chains[a] EXCEPT !.early = @ + 1].late = chains[a].late
      BY <2>1
    <3>. QED
      BY <1>0, <2>4, <3>1 DEF TypeOK
  <2>. QED
    BY <2>2, <2>3, <2>4 DEF CycleDone
<1>4. lock' = [lock EXCEPT ![a] = "free"] /\ fruitless' = [fruitless EXCEPT ![a] = 0]
  BY DEF CycleDone, Unlock
<1>5. TypeOK'
  BY <1>0, <1>1, <1>2, <1>3, <1>4 DEF TypeOK
<1>6. \A b \in Accounts \ {a} : Unchanged(b)
  BY <1>0, <1>1, <1>2, <1>3, <1>4 DEF TypeOK, Unchanged
<1>7. loop'[a] = l /\ chains'[a] = h /\ lock'[a] = "free" /\ fruitless'[a] = 0
  BY <1>0, <1>2, <1>3, <1>4 DEF TypeOK
<1>8. LockIsHonest(a)'
  BY <1>0, <1>1, <1>2, <1>7 DEF AccountOK, LockIsHonest
<1>9. OnlyTheNewest(a)'
  BY <1>0, <1>1, <1>2, <1>7 DEF AccountOK, OnlyTheNewest
<1>10. DownloadIsAlive(a)' /\ StoppedConn(a)'
  BY <1>0, <1>1, <1>2, <1>7 DEF AccountOK, DownloadIsAlive, StoppedConn
<1>11. LateChains(a)'
  <2>1. phase = "draining" => Current(a) = "abandoned"
    BY <1>0, <1>1 DEF AccountOK, StoppedConn, Answers
  <2>2. Current(a)' = Current(a)
    BY <1>1, <1>2, <1>7
  <2>. QED
    BY <1>0, <1>1, <1>3, <1>7, <2>1, <2>2 DEF AccountOK, LateChains
<1>12. Ladder(a)'
  BY <1>0, <1>1, <1>2, <1>7 DEF AccountOK, Ladder, LoopStates
<1>. QED
  BY <1>1, <1>5, <1>6, <1>8, <1>9, <1>10, <1>11, <1>12, OneAccount DEF AccountOK

\* runAccount(), syncOnce() and idleLoop().
LEMMA LoopKeepsInv == ASSUME AccountInv, NEW a \in Accounts, Step(a) PROVE AccountInv'
<1>0. TypeOK /\ AccountOK(a) /\ loop[a] \in LoopStates /\ lock[a] \in {"free", "loop", "api"}
  BY DEF AccountInv, TypeOK
<1>1. CASE Open(a) \/ ConnectOk(a) \/ ConnectFails(a) \/ CycleDone(a)
  BY <1>1, OpenKeepsInv, ConnectSettlesKeepsInv, CycleDoneKeepsInv
<1>2. CASE TakeLockInVain(a) \/ CycleThrows(a) \/ ProbeFails(a)
           \/ (Stored(a) /\ ~ HasClient(Current(a)))
  <2>1. Failed(a) /\ UNCHANGED <<phase, api, chains, fruitless>>
    BY <1>2 DEF TakeLockInVain, CycleThrows, ProbeFails, Stored
  <2>2. lock[a] # "api" /\ loop[a].pc \in {"queued", "fetch", "store", "reselect", "probe"}
    BY <1>0, <1>2 DEF TakeLockInVain, CycleThrows, ProbeFails, Stored, AccountOK, LockIsHonest
  <2>3. lock' = [lock EXCEPT ![a] = "free"]
    BY <1>0, <1>2 DEF TakeLockInVain, CycleThrows, ProbeFails, Stored, Unlock, TypeOK
  <2>. QED
    BY <2>1, <2>2, <2>3, LoopFails
<1>3. CASE StopWhileReady(a) \/ TakeLock(a) \/ Fetched(a) \/ Wake(a) \/ ProbeAnswered(a)
  <2>1. PICK pc \in {"fetch", "store", "idle", "toProbe", "probe", "queued", "gone"},
             k \in {"free", "loop", "api"} :
          /\ Goto(a, pc) /\ lock' = [lock EXCEPT ![a] = k]
          /\ loop[a].pc \in {"ready", "queued", "toProbe", "fetch", "idle", "probe"}
          /\ loop[a].pc = "ready" => pc = "gone"
          /\ (k = "loop") <=> (pc \in {"fetch", "store", "reselect", "probe"})
          /\ (k = "api") <=> (lock[a] = "api")
    <3>1. [lock EXCEPT ![a] = lock[a]] = lock
      BY <1>0 DEF TypeOK
    <3>2. (lock[a] = "loop") <=> (loop[a].pc \in {"fetch", "store", "reselect", "probe"})
      BY <1>0 DEF AccountOK, LockIsHonest
    <3>3. CASE StopWhileReady(a)
      BY <1>0, <3>1, <3>2, <3>3 DEF StopWhileReady
    <3>4. CASE TakeLock(a)
      BY <1>0, <3>4 DEF TakeLock
    <3>5. CASE Fetched(a)
      BY <1>0, <3>1, <3>2, <3>5 DEF Fetched
    <3>6. CASE Wake(a)
      BY <1>0, <3>1, <3>2, <3>6 DEF Wake
    <3>7. CASE ProbeAnswered(a)
      BY <1>0, <3>2, <3>7 DEF ProbeAnswered, Unlock
    <3>. QED
      BY <1>3, <3>3, <3>4, <3>5, <3>6, <3>7
  <2>2. PICK l \in LoopStates : /\ loop' = [loop EXCEPT ![a] = l] /\ l.pc = pc
                                /\ l.conn = loop[a].conn /\ l.attempt = loop[a].attempt
    <3>1. [loop[a] EXCEPT !.pc = pc] \in LoopStates
      BY <1>0 DEF LoopStates
    <3>2. /\ [loop[a] EXCEPT !.pc = pc].pc = pc
          /\ [loop[a] EXCEPT !.pc = pc].conn = loop[a].conn
          /\ [loop[a] EXCEPT !.pc = pc].attempt = loop[a].attempt
      BY <1>0 DEF LoopStates
    <3>3. loop' = [loop EXCEPT ![a] = [loop[a] EXCEPT !.pc = pc]]
      BY <1>0, <2>1 DEF Goto, TypeOK
    <3>. QED
      BY <3>1, <3>2, <3>3
  <2>3. UNCHANGED <<phase, conn, api, chains, fruitless>>
    BY <1>3 DEF StopWhileReady, TakeLock, Fetched, Wake, ProbeAnswered
  <2>. QED
    BY <2>1, <2>2, <2>3, LoopMoves
<1>4. CASE Stored(a) /\ HasClient(Current(a))
  <2>1. PICK l \in LoopStates : /\ loop' = [loop EXCEPT ![a] = l]
                                /\ l.pc \in {"fetch", "reselect"}
                                /\ l.conn = loop[a].conn /\ l.attempt = loop[a].attempt
    <3>1. CASE loop' = [loop EXCEPT ![a].pc = "fetch", ![a].folder = "rest"]
      <4>1. [loop[a] EXCEPT !.pc = "fetch", !.folder = "rest"] \in LoopStates
        BY <1>0 DEF LoopStates
      <4>2. loop' = [loop EXCEPT ![a] = [loop[a] EXCEPT !.pc = "fetch", !.folder = "rest"]]
        BY <1>0, <3>1 DEF TypeOK
      <4>3. /\ [loop[a] EXCEPT !.pc = "fetch", !.folder = "rest"].pc = "fetch"
            /\ [loop[a] EXCEPT !.pc = "fetch", !.folder = "rest"].conn = loop[a].conn
            /\ [loop[a] EXCEPT !.pc = "fetch", !.folder = "rest"].attempt = loop[a].attempt
        BY <1>0 DEF LoopStates
      <4>. QED
        BY <4>1, <4>2, <4>3
    <3>2. CASE Goto(a, "reselect")
      <4>1. [loop[a] EXCEPT !.pc = "reselect"] \in LoopStates
        BY <1>0 DEF LoopStates
      <4>2. loop' = [loop EXCEPT ![a] = [loop[a] EXCEPT !.pc = "reselect"]]
        BY <1>0, <3>2 DEF Goto, TypeOK
      <4>3. /\ [loop[a] EXCEPT !.pc = "reselect"].pc = "reselect"
            /\ [loop[a] EXCEPT !.pc = "reselect"].conn = loop[a].conn
            /\ [loop[a] EXCEPT !.pc = "reselect"].attempt = loop[a].attempt
        BY <1>0 DEF LoopStates
      <4>. QED
        BY <4>1, <4>2, <4>3
    <3>. QED
      BY <1>4, <3>1, <3>2 DEF Stored
  <2>2. /\ UNCHANGED <<phase, conn, api, chains, fruitless>>
        /\ lock[a] = "loop" /\ loop[a].pc = "store" /\ lock' = [lock EXCEPT ![a] = "loop"]
    BY <1>0, <1>4 DEF Stored, AccountOK, LockIsHonest, TypeOK
  <2>. QED
    BY <2>1, <2>2, LoopMoves
<1>. QED
  BY <1>1, <1>2, <1>3, <1>4 DEF Step

\* A request takes the newest connection, or one without a client.
LEMMA RequestKeepsInv == ASSUME AccountInv, NEW a \in Accounts, RequestStep(a) PROVE AccountInv'
<1>0. TypeOK /\ AccountOK(a) /\ loop[a] \in LoopStates /\ lock[a] \in {"free", "loop", "api"}
  BY DEF AccountInv, TypeOK
<1>1. PICK q \in [pc : {"none", "waiting", "reserve", "wire"}, conn : 0..MaxConns],
           k \in {"free", "loop", "api"} :
        /\ api' = [api EXCEPT ![a] = q] /\ lock' = [lock EXCEPT ![a] = k]
        /\ (k = "api") <=> (q.pc \in {"reserve", "wire"})
        /\ (k = "loop") <=> (lock[a] = "loop")
        /\ q.pc # "none" => q.conn > 0
        /\ q.pc = "wire" => HasClient(conn[a][q.conn])
        /\ ~ Running => q.pc = "none"
  <2>0. api[a] \in [pc : {"none", "waiting", "reserve", "wire"}, conn : 0..MaxConns]
    BY <1>0 DEF TypeOK
  <2>1. /\ [lock EXCEPT ![a] = lock[a]] = lock
        /\ (lock[a] = "api") <=> (api[a].pc \in {"reserve", "wire"})
        /\ ~ Running => api[a].pc = "none"
        /\ api[a].pc # "none" => api[a].conn > 0
    BY <1>0 DEF TypeOK, AccountOK, LockIsHonest, StoppedConn, DownloadIsAlive
  <2>2. CASE Request(a)
    <3>1. [pc |-> "waiting", conn |-> loop[a].conn]
            \in [pc : {"none", "waiting", "reserve", "wire"}, conn : 0..MaxConns]
      BY <1>0 DEF LoopStates
    <3>. QED
      BY <1>0, <2>1, <2>2, <3>1 DEF Request
  <2>3. CASE RequestLocked(a)
    <3>1. /\ [api[a] EXCEPT !.pc = "reserve"]
               \in [pc : {"none", "waiting", "reserve", "wire"}, conn : 0..MaxConns]
          /\ [api[a] EXCEPT !.pc = "reserve"].pc = "reserve"
          /\ [api[a] EXCEPT !.pc = "reserve"].conn = api[a].conn
          /\ api' = [api EXCEPT ![a] = [api[a] EXCEPT !.pc = "reserve"]]
      BY <1>0, <2>0, <2>3 DEF RequestLocked, TypeOK
    <3>. QED
      BY <2>1, <2>3, <3>1 DEF RequestLocked
  <2>4. CASE Download(a)
    <3>1. /\ [api[a] EXCEPT !.pc = "wire"]
               \in [pc : {"none", "waiting", "reserve", "wire"}, conn : 0..MaxConns]
          /\ [api[a] EXCEPT !.pc = "wire"].pc = "wire"
          /\ [api[a] EXCEPT !.pc = "wire"].conn = api[a].conn
          /\ api' = [api EXCEPT ![a] = [api[a] EXCEPT !.pc = "wire"]]
      BY <1>0, <2>0, <2>4 DEF Download, TypeOK
    <3>. QED
      BY <1>0, <2>1, <2>4, <3>1 DEF Download
  <2>5. CASE Respond(a)
    <3>1. [pc |-> "none", conn |-> 0]
            \in [pc : {"none", "waiting", "reserve", "wire"}, conn : 0..MaxConns]
      OBVIOUS
    <3>. QED
      BY <2>1, <2>5, <3>1 DEF Respond, Unlock
  <2>. QED
    BY <2>2, <2>3, <2>4, <2>5 DEF RequestStep
<1>2. UNCHANGED <<phase, loop, conn, chains, fruitless>>
  BY DEF RequestStep, Request, RequestLocked, Download, Respond
<1>3. TypeOK'
  BY <1>0, <1>1, <1>2 DEF TypeOK
<1>4. api'[a] = q /\ lock'[a] = k /\ \A b \in Accounts \ {a} : Unchanged(b)
  BY <1>0, <1>1, <1>2 DEF TypeOK, Unchanged
<1>5. LockIsHonest(a)'
  BY <1>0, <1>1, <1>2, <1>4 DEF AccountOK, LockIsHonest
<1>6. DownloadIsAlive(a)' /\ StoppedConn(a)'
  BY <1>0, <1>1, <1>2, <1>4 DEF AccountOK, DownloadIsAlive, StoppedConn
<1>7. OnlyTheNewest(a)' /\ LateChains(a)' /\ Ladder(a)'
  BY <1>0, <1>2 DEF AccountOK, OnlyTheNewest, LateChains, Ladder
<1>. QED
  BY <1>2, <1>3, <1>4, <1>5, <1>6, <1>7, OneAccount DEF AccountOK

\* The peer, and the LOGOUTs.
LEMMA ConnKeepsInv ==
  ASSUME AccountInv, NEW a \in Accounts, NEW i \in 1..MaxConns, ConnStep(a, i)
  PROVE  AccountInv'
<1>0. TypeOK /\ conn[a] \in [1..MaxConns -> ConnStates]
  BY DEF AccountInv, TypeOK
<1>1. PICK s \in {"vanished", "hanging", "closed", "abandoned"} :
        /\ conn' = [conn EXCEPT ![a][i] = s]
        /\ conn[a][i] \in {"up", "leaving", "hanging"}
        /\ s = "vanished" <=> conn[a][i] = "up"
  <2>1. CASE PeerVanishes(a, i)
    BY <1>0, <2>1 DEF PeerVanishes, TypeOK
  <2>2. CASE LogoutAnswered(a, i)
    BY <2>2 DEF LogoutAnswered
  <2>3. CASE LogoutTimesOut(a, i)
    BY <2>3 DEF LogoutTimesOut
  <2>. QED
    BY <2>1, <2>2, <2>3 DEF ConnStep
<1>2. UNCHANGED <<phase, loop, api, lock, chains, fruitless>>
  BY DEF ConnStep, PeerVanishes, LogoutAnswered, LogoutTimesOut
<1>. QED
  BY <1>1, <1>2, ConnMoves

LEMMA ChainKeepsInv == ASSUME AccountInv, NEW a \in Accounts, ChainSettles(a) PROVE AccountInv'
<1>0. TypeOK /\ AccountOK(a) /\ chains[a] \in [early : Nat, late : Nat]
  BY DEF AccountInv, TypeOK
<1>1. PICK h \in [early : Nat, late : Nat] :
        /\ chains' = [chains EXCEPT ![a] = h]
        /\ h.late <= chains[a].late /\ h.early <= chains[a].early
  <2>1. CASE chains[a].early > 0 /\ chains' = [chains EXCEPT ![a].early = @ - 1]
    <3>1. /\ [chains[a] EXCEPT !.early = @ - 1] \in [early : Nat, late : Nat]
          /\ [chains[a] EXCEPT !.early = @ - 1].late = chains[a].late
          /\ [chains[a] EXCEPT !.early = @ - 1].early = chains[a].early - 1
      BY <1>0, <2>1
    <3>2. chains' = [chains EXCEPT ![a] = [chains[a] EXCEPT !.early = @ - 1]]
      BY <1>0, <2>1 DEF TypeOK
    <3>3. chains[a].early \in Nat /\ chains[a].late \in Nat
      BY <1>0
    <3> DEFINE next == [chains[a] EXCEPT !.early = @ - 1]
    <3>4. next.late <= chains[a].late /\ next.early <= chains[a].early
      BY <3>1, <3>3
    <3>5. next \in [early : Nat, late : Nat] /\ chains' = [chains EXCEPT ![a] = next]
      BY <3>1, <3>2
    <3> HIDE DEF next
    <3>. QED
      BY <3>4, <3>5
  <2>2. CASE chains[a].late > 0 /\ chains' = [chains EXCEPT ![a].late = @ - 1]
    <3>1. /\ [chains[a] EXCEPT !.late = @ - 1] \in [early : Nat, late : Nat]
          /\ [chains[a] EXCEPT !.late = @ - 1].late = chains[a].late - 1
          /\ [chains[a] EXCEPT !.late = @ - 1].early = chains[a].early
      BY <1>0, <2>2
    <3>2. chains' = [chains EXCEPT ![a] = [chains[a] EXCEPT !.late = @ - 1]]
      BY <1>0, <2>2 DEF TypeOK
    <3>3. chains[a].early \in Nat /\ chains[a].late \in Nat
      BY <1>0
    <3> DEFINE next == [chains[a] EXCEPT !.late = @ - 1]
    <3>4. next.late <= chains[a].late /\ next.early <= chains[a].early
      BY <3>1, <3>3
    <3>5. next \in [early : Nat, late : Nat] /\ chains' = [chains EXCEPT ![a] = next]
      BY <3>1, <3>2
    <3> HIDE DEF next
    <3>. QED
      BY <3>4, <3>5
  <2>. QED
    BY <2>1, <2>2 DEF ChainSettles
<1>2. UNCHANGED <<phase, loop, conn, api, lock, fruitless>>
  BY DEF ChainSettles
<1>3. TypeOK'
  BY <1>0, <1>1, <1>2 DEF TypeOK
<1>4. chains'[a] = h /\ \A b \in Accounts \ {a} : Unchanged(b)
  BY <1>0, <1>1, <1>2 DEF TypeOK, Unchanged
<1>5. LateChains(a)'
  BY <1>0, <1>1, <1>2, <1>4 DEF AccountOK, LateChains
<1>6. /\ LockIsHonest(a)' /\ OnlyTheNewest(a)' /\ DownloadIsAlive(a)'
      /\ StoppedConn(a)' /\ Ladder(a)'
  BY <1>0, <1>2
     DEF AccountOK, LockIsHonest, OnlyTheNewest, DownloadIsAlive, StoppedConn, Ladder
<1>. QED
  BY <1>2, <1>3, <1>4, <1>5, <1>6, OneAccount DEF AccountOK

\* The shutdown: the pool stops when no request is left, the drain begins when
\* no connection is leaving, and ends when no early chain is left.
LEMMA ShutdownKeepsInv == ASSUME AccountInv, Shutdown PROVE AccountInv'
<1>0. TypeOK /\ UNCHANGED <<loop, api, lock, chains, fruitless>>
  BY DEF AccountInv, Shutdown, CloseServer, StopPool, Drain, EndPool
<1>1. CASE CloseServer \/ Drain \/ EndPool
  <2>0. conn' = conn
    BY <1>1 DEF CloseServer, Drain, EndPool
  <2>1. TypeOK'
    BY <1>0, <1>1, <2>0 DEF TypeOK, CloseServer, Drain, EndPool
  <2>2. ASSUME NEW a \in Accounts PROVE AccountOK(a)'
    <3>0. AccountOK(a)
      BY DEF AccountInv
    <3>1. LockIsHonest(a)' /\ OnlyTheNewest(a)' /\ DownloadIsAlive(a)' /\ Ladder(a)'
      BY <1>0, <2>0, <3>0 DEF AccountOK, LockIsHonest, OnlyTheNewest, DownloadIsAlive, Ladder
    <3>2. StoppedConn(a)'
      BY <1>0, <1>1, <2>0, <3>0
         DEF AccountOK, StoppedConn, CloseServer, Drain, EndPool, DisconnectsSettled
    <3>3. LateChains(a)'
      BY <1>0, <1>1, <2>0, <3>0 DEF AccountOK, LateChains, CloseServer, Drain, EndPool
    <3>. QED
      BY <3>1, <3>2, <3>3 DEF AccountOK
  <2>. QED
    BY <2>1, <2>2 DEF AccountInv
<1>2. CASE StopPool
  <2>1. ASSUME NEW a \in Accounts
        PROVE  /\ conn'[a] \in [1..MaxConns -> ConnStates]
               /\ \A i \in 1..MaxConns :
                    conn'[a][i] = IF i = loop[a].conn THEN Leave(conn[a][i]) ELSE conn[a][i]
    <3>1. conn[a] \in [1..MaxConns -> ConnStates] /\ loop[a].conn \in 0..MaxConns
      BY <1>0 DEF TypeOK, LoopStates
    <3>2. \A state \in ConnStates : Leave(state) \in ConnStates
      BY DEF Leave
    <3>3. CASE loop[a].conn = 0
      BY <1>2, <3>1, <3>3 DEF StopPool
    <3>4. CASE loop[a].conn # 0
      <4> DEFINE j == loop[a].conn
      <4>1. conn'[a] = [conn[a] EXCEPT ![j] = Leave(conn[a][j])] /\ j \in 1..MaxConns
        BY <1>2, <3>1, <3>4 DEF StopPool
      <4> HIDE DEF j
      <4>2. Leave(conn[a][j]) \in ConnStates
        BY <3>1, <3>2, <4>1
      <4>. QED
        BY <3>1, <4>1, <4>2 DEF j
    <3>. QED
      BY <3>3, <3>4
  <2>2. TypeOK'
    <3>1. conn' \in [Accounts -> [1..MaxConns -> ConnStates]]
      BY <1>2, <2>1 DEF StopPool
    <3>. QED
      BY <1>0, <1>2, <3>1 DEF TypeOK, StopPool
  <2>3. ASSUME NEW a \in Accounts PROVE AccountOK(a)'
    <3>0. AccountOK(a) /\ api[a].pc = "none" /\ loop[a].conn \in 0..MaxConns
          /\ phase = "closing" /\ phase' = "disconnecting"
      BY <1>0, <1>2 DEF AccountInv, StopPool, RequestsAnswered, TypeOK, LoopStates
    <3>1. LockIsHonest(a)' /\ DownloadIsAlive(a)'
      BY <1>0, <3>0 DEF AccountOK, LockIsHonest, DownloadIsAlive
    <3>2. OnlyTheNewest(a)'
      BY <1>0, <2>1, <3>0 DEF AccountOK, OnlyTheNewest, Leave
    <3>3. StoppedConn(a)'
      BY <1>0, <2>1, <3>0 DEF StoppedConn, Leave
    <3>4. LateChains(a)'
      BY <1>0, <3>0 DEF AccountOK, LateChains
    <3>5. Ladder(a)'
      BY <1>0, <2>1, <3>0 DEF AccountOK, Ladder, Leave
    <3>. QED
      BY <3>1, <3>2, <3>3, <3>4, <3>5 DEF AccountOK
  <2>. QED
    BY <2>2, <2>3 DEF AccountInv
<1>. QED
  BY <1>1, <1>2 DEF Shutdown

LEMMA StepKeepsInv == AccountInv /\ [Next]_vars => AccountInv'
<1> SUFFICES ASSUME AccountInv, [Next]_vars PROVE AccountInv'
  OBVIOUS
<1>1. CASE Next
  BY <1>1, LoopKeepsInv, RequestKeepsInv, ConnKeepsInv, ChainKeepsInv, ShutdownKeepsInv DEF Next
<1>2. CASE UNCHANGED vars
  BY <1>2 DEF vars, AccountInv, TypeOK, AccountOK, LockIsHonest, OnlyTheNewest,
              DownloadIsAlive, StoppedConn, LateChains, Ladder
<1>. QED
  BY <1>1, <1>2

\* The invariant of the account loop (runAccount, idleLoop, stop).
THEOREM AccountInvariant == Spec => []AccountInv
<1>1. Init => AccountInv
  BY InitAccount
<1>2. AccountInv /\ [Next]_vars => AccountInv'
  BY StepKeepsInv
<1>. QED
  BY <1>1, <1>2, PTL DEF Spec

\* No download is cut off by a probe, a failing cycle or a shutdown
\* (withAccountLock, createShutdown).
THEOREM DownloadsAreSafe == Spec => []DownloadKeepsItsConnection
<1>1. AccountInv => DownloadKeepsItsConnection
  BY DEF AccountInv, AccountOK, DownloadIsAlive, DownloadKeepsItsConnection
<1>. QED
  BY <1>1, AccountInvariant, PTL

\* After stop() no connection of any account is open, or about to be, that was
\* not told to leave (stop, disconnect).
THEOREM StopIsThorough == Spec => []StopLeavesNoClient
<1>1. AccountInv => StopLeavesNoClient
  <2> SUFFICES ASSUME AccountInv, phase \in {"draining", "ended"},
                      NEW a \in Accounts, NEW i \in 1..MaxConns
               PROVE  conn[a][i] \notin {"connecting", "up", "vanished"}
    BY DEF StopLeavesNoClient
  <2>. QED
    BY DEF AccountInv, AccountOK, OnlyTheNewest, StoppedConn
<1>. QED
  BY <1>1, AccountInvariant, PTL

\* stop() drains every dispatch chain, unless a LOGOUT was given up (stop,
\* trackDispatch).
THEOREM ChainsAreDrained == Spec => []DrainIsComplete
<1>1. AccountInv => DrainIsComplete
  <2> SUFFICES ASSUME AccountInv, phase = "ended", NEW a \in Accounts, Current(a) # "abandoned"
               PROVE  chains[a].early + chains[a].late = 0
    BY DEF DrainIsComplete
  <2>1. chains[a] \in [early : Nat, late : Nat] /\ LateChains(a)
    BY DEF AccountInv, AccountOK, TypeOK
  <2>. QED
    BY <2>1 DEF LateChains
<1>. QED
  BY <1>1, AccountInvariant, PTL

\* Every connection that leads to no full cycle is a step up the ladder
\* (runAccount's `attempt').
THEOREM LadderIsClimbed == Spec => []BackoffCountsFruitlessConnects
<1>1. AccountInv => BackoffCountsFruitlessConnects
  BY DEF AccountInv, AccountOK, TypeOK, LoopStates, Ladder, BackoffCountsFruitlessConnects
<1>. QED
  BY <1>1, AccountInvariant, PTL

(* The shutdown in one piece: what the loop, its lock, its connections     *)
(* and requests say of each other, and that stop() leaves neither a        *)
(* client nor a chain behind.                                              *)
THEOREM StopHolds == Spec => []StopInv
  BY AccountInvariant, StopIsThorough, ChainsAreDrained, PTL DEF StopInv
=============================================================================
