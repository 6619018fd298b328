----------------------------- MODULE MessageOps -----------------------------
(***************************************************************************)
(* The messages of one folder as five parties see them: the IMAP server,   *)
(* other clients of the mailbox, the sync cycle that upserts the rows of   *)
(* the newest UIDs (sync/src/imap/pool.ts, syncFolder), the routes that    *)
(* open a message through the parsed-message cache (api/message.ts,        *)
(* api/message-cache.ts), and those that set a flag or move a message      *)
(* (api/flags.ts, api/move.ts, imap/flags.ts, imap/move.ts).               *)
(*                                                                         *)
(* IMAP commands run under the account's lock; the cache and the rows are  *)
(* touched outside it.  One step is what runs between two I/O events.      *)
(***************************************************************************)
EXTENDS Integers, FiniteSets

CONSTANTS
  Uids,        \* UIDs of the folder
  Window,      \* the newest of them, which every cycle fetches
  Actors,      \* requests that set a flag or move a message
  Openers,     \* requests that open a message
  MaxActs,     \* bound: changes made through the routes
  MaxOpens,    \* bound: messages opened
  MaxValidity, \* bound: UIDVALIDITY values
  MaxTrouble   \* bound: changes by other clients, failures, answers that are lost

ASSUME OpsAssumption == /\ Window \subseteq Uids
                        /\ {MaxActs, MaxOpens, MaxTrouble} \subseteq Nat
                        /\ MaxValidity \in Nat \ {0}

None == 0

Seen == "seen"
Unseen == "unseen"
Gone == "none"  \* no message in the folder, or no row
Ops == {Seen, Unseen, Gone}  \* set the flag, clear it, move the message away

VARIABLES
  box,      \* the server: the flag of each message in the folder
  validity, \* the server's UIDVALIDITY
  observed, \* what UidValidityLog holds of it, None before the first cycle
  rows,     \* messages table: the flag of each row
  cache,    \* MessageCache: the UIDVALIDITY an entry is marked with, and the
            \* numbering its body is of
  lock,     \* is the account's lock held, and by whom
  cycle,    \* the sync cycle: what it fetched, the UIDs still to upsert
  actor, opener,
  excused,  \* history: UIDs whose row may be wrong, and no request will mend
  raced,    \* history: UIDs that were being parsed when they were evicted
  acts, opens, trouble

vars == <<box, validity, observed, rows, cache, lock, cycle, actor, opener, excused, raced,
          acts, opens, trouble>>
server == <<box, validity>>
local == <<observed, rows, cache>>
requests == <<actor, opener>>
history == <<excused, raced>>
counts == <<acts, opens, trouble>>

NoEntry == [tag |-> None, of |-> None]
Idle == [pc |-> "idle"]
NoCycle == [todo |-> {}, seen |-> <<>>, validity |-> None]

Init ==
  /\ box = [u \in Uids |-> Unseen]
  /\ validity = 1
  /\ observed = None
  /\ rows = [u \in Uids |-> IF u \in Window THEN Gone ELSE Unseen]
  /\ cache = [u \in Uids |-> NoEntry]
  /\ lock = "free"
  /\ cycle = NoCycle
  /\ actor = [a \in Actors |-> Idle]
  /\ opener = [o \in Openers |-> Idle]
  /\ excused = {} /\ raced = {}
  /\ acts = 0 /\ opens = 0 /\ trouble = 0

Trouble == trouble < MaxTrouble /\ trouble' = trouble + 1 /\ UNCHANGED <<acts, opens>>

\* A body that is being parsed, and a row that is yet to be written by the
\* request whose change it reports
Parsing(u) == \E o \in Openers : opener[o].pc = "parsing" /\ opener[o].uid = u
Pending(u) == \E a \in Actors : actor[a].pc \in {"landed", "row"} /\ actor[a].uid = u
-----------------------------------------------------------------------------
(* The server and its other clients.                                       *)

\* Another client sets a flag, or files the message away.
Meddle(u) ==
  /\ Trouble
  /\ box[u] # Gone
  /\ \E f \in {Seen, Unseen, Gone} \ {box[u]} : box' = [box EXCEPT ![u] = f]
  /\ excused' = excused \cup {u}
  /\ UNCHANGED <<validity, local, lock, cycle, requests, raced>>

\* The mailbox is numbered anew: every UID is another message's.
Renumber ==
  /\ validity < MaxValidity
  /\ validity' = validity + 1
  /\ excused' = Uids
  /\ UNCHANGED <<box, local, lock, cycle, requests, raced, counts>>
-----------------------------------------------------------------------------
(* The sync cycle, in its critical section.                                *)

\* Mutant: the lock covers the fetch, and not the upserts.
FetchUnlocked ==
  /\ lock = "free" /\ cycle = NoCycle
  /\ cycle' = [todo |-> Window, seen |-> [u \in Window |-> box[u]], validity |-> validity]
  /\ UNCHANGED <<server, local, lock, requests, history, counts>>

\* fetchHeaders(): flags of the newest UIDs, and the UIDVALIDITY
Fetch ==
  /\ lock = "free"
  /\ lock' = "cycle"
  /\ cycle' = [todo |-> Window, seen |-> [u \in Window |-> box[u]], validity |-> validity]
  /\ UNCHANGED <<server, local, requests, history, counts>>

\* What was fetched is what the server has still, and no request is about to
\* write the row.
Agreed(u) == /\ cycle.seen[u] = box[u] /\ box[u] # Gone
             /\ cycle.validity = validity /\ ~ Pending(u)

\* Mutant: a row that is there stays as it is.
UpsertIfAbsent(u) ==
  /\ u \in cycle.todo
  /\ cycle' = [cycle EXCEPT !.todo = @ \ {u}]
  /\ rows' = [rows EXCEPT ![u] = IF @ = Gone THEN cycle.seen[u] ELSE @]
  /\ excused' = IF Agreed(u) THEN excused \ {u} ELSE excused
  /\ UNCHANGED <<server, observed, cache, lock, requests, raced, counts>>

\* upsertMessage(), on conflict do update: the row is right again, or not.
Upsert(u) ==
  /\ u \in cycle.todo
  /\ cycle' = [cycle EXCEPT !.todo = @ \ {u}]
  /\ rows' = [rows EXCEPT ![u] = IF cycle.seen[u] # Gone THEN cycle.seen[u] ELSE @]
  /\ excused' = IF Agreed(u) THEN excused \ {u} ELSE excused
  /\ UNCHANGED <<server, observed, cache, lock, requests, raced, counts>>

\* The folder is synced: its UIDVALIDITY is recorded.
CycleDone ==
  /\ lock = "cycle" /\ cycle.todo = {}
  /\ lock' = "free" /\ cycle' = NoCycle
  /\ observed' = cycle.validity
  /\ UNCHANGED <<server, rows, cache, requests, history, counts>>

\* A query fails, or the connection drops.
CycleFails ==
  /\ lock = "cycle" /\ Trouble
  /\ lock' = "free" /\ cycle' = NoCycle
  /\ UNCHANGED <<server, local, requests, history>>
-----------------------------------------------------------------------------
(* PATCH .../flags and POST .../move.                                      *)

\* A valid request on a connected account
Request(a) ==
  /\ actor[a].pc = "idle"
  /\ acts < MaxActs /\ acts' = acts + 1
  /\ \E u \in Uids, op \in Ops : actor' = [actor EXCEPT ![a] = [pc |-> "queued", op |-> op, uid |-> u]]
  /\ UNCHANGED <<server, local, lock, cycle, opener, history, opens, trouble>>

\* setMessageFlag() or moveMessage() takes effect on the server.  A write
\* that lands while another request is still to write its row may be
\* overtaken by it.
Land(a) ==
  /\ actor[a].pc = "queued" /\ lock = "free"
  /\ lock' = "actor"
  /\ LET u == actor[a].uid IN
       /\ box' = [box EXCEPT ![u] = IF @ = Gone THEN @ ELSE actor[a].op]
       /\ excused' = IF Pending(u) THEN excused \cup {u} ELSE excused
  /\ actor' = [actor EXCEPT ![a].pc = "landed"]
  /\ UNCHANGED <<validity, local, cycle, opener, raced, counts>>

\* The server refuses, or the connection is gone: 502, nothing changed.
Refuse(a) ==
  /\ actor[a].pc = "queued"
  /\ actor' = [actor EXCEPT ![a] = Idle]
  /\ UNCHANGED <<server, local, lock, cycle, opener, history, counts>>

\* Mutant: the cache is left alone.
AnswerWithoutEviction(a) ==
  /\ actor[a].pc = "landed"
  /\ lock' = "free"
  /\ actor' = [actor EXCEPT ![a].pc = "row"]
  /\ UNCHANGED <<server, local, cycle, opener, history, counts>>

\* The server answers: the lock is given up, and the cached body evicted.
Answer(a) ==
  /\ actor[a].pc = "landed"
  /\ lock' = "free"
  /\ LET u == actor[a].uid IN
       /\ cache' = [cache EXCEPT ![u] = NoEntry]
       /\ raced' = IF Parsing(u) THEN raced \cup {u} ELSE raced
  /\ actor' = [actor EXCEPT ![a].pc = "row"]
  /\ UNCHANGED <<server, observed, rows, cycle, opener, excused, counts>>

\* The connection drops after the command took effect: 502, and neither the
\* row nor the cache knows.
LoseAnswer(a) ==
  /\ actor[a].pc = "landed" /\ Trouble
  /\ lock' = "free"
  /\ actor' = [actor EXCEPT ![a] = Idle]
  /\ excused' = excused \cup {actor[a].uid}
  /\ UNCHANGED <<server, local, cycle, opener, raced>>

\* updateStoredFlag() or deleteStoredMessage(), outside the lock
WriteRow(a) ==
  /\ actor[a].pc = "row"
  /\ rows' = [rows EXCEPT ![actor[a].uid] = IF @ = Gone THEN @ ELSE actor[a].op]
  /\ actor' = [actor EXCEPT ![a] = Idle]
  /\ UNCHANGED <<server, observed, cache, lock, cycle, opener, history, counts>>

\* The database fails: 200, and the row is as it was.
WriteRowFails(a) ==
  /\ actor[a].pc = "row" /\ Trouble
  /\ actor' = [actor EXCEPT ![a] = Idle]
  /\ excused' = excused \cup {actor[a].uid}
  /\ UNCHANGED <<server, local, lock, cycle, opener, raced>>
-----------------------------------------------------------------------------
(* GET .../message.                                                        *)

\* MessageCache.get(): an entry is wrong if both numberings are known and
\* they differ.
Renumbered(u) == cache[u].tag # None /\ observed # None /\ cache[u].tag # observed
Cached(u) == cache[u].of # None

\* The numbering is read, and with it the cache: a hit ends the request, a
\* renumbering drops the folder.
Open(o, u) ==
  /\ opener[o].pc = "idle"
  /\ opens < MaxOpens /\ opens' = opens + 1
  /\ ~ Cached(u) \/ Renumbered(u)
  /\ opener' = [opener EXCEPT ![o] = [pc |-> "queued", uid |-> u, tag |-> observed]]
  /\ cache' = IF Cached(u) THEN [w \in Uids |-> NoEntry] ELSE cache
  /\ UNCHANGED <<server, observed, rows, lock, cycle, actor, history, acts, trouble>>

\* fetchBudgetedPart() under the lock: the whole message, if it is there
Download(o) ==
  /\ opener[o].pc = "queued" /\ lock = "free"
  /\ box[opener[o].uid] # Gone
  /\ opener' = [opener EXCEPT ![o] = [pc |-> "parsing", uid |-> opener[o].uid,
                                      tag |-> opener[o].tag, of |-> validity]]
  /\ UNCHANGED <<server, local, lock, cycle, actor, history, counts>>

\* The download is refused or fails, or the message does not parse.
OpenFails(o) ==
  /\ opener[o].pc \in {"queued", "parsing"}
  /\ opener' = [opener EXCEPT ![o] = Idle]
  /\ UNCHANGED <<server, local, lock, cycle, actor, history, counts>>

\* Mutant: the entry is marked with what is known when it is made.
StoreWithLatest(o) ==
  /\ opener[o].pc = "parsing"
  /\ cache' = [cache EXCEPT ![opener[o].uid] = [tag |-> observed, of |-> opener[o].of]]
  /\ opener' = [opener EXCEPT ![o] = Idle]
  /\ UNCHANGED <<server, observed, rows, lock, cycle, actor, history, counts>>

\* MessageCache.set(): the entry is marked with the numbering known when the
\* request began.  Others may have to leave, and an entry that is too large
\* is not kept.
Store(o) ==
  /\ opener[o].pc = "parsing"
  /\ LET u == opener[o].uid IN
       \/ UNCHANGED cache
       \/ \E gone \in SUBSET (Uids \ {u}) :
            cache' = [w \in Uids |-> IF w = u THEN [tag |-> opener[o].tag, of |-> opener[o].of]
                                     ELSE IF w \in gone THEN NoEntry ELSE cache[w]]
  /\ opener' = [opener EXCEPT ![o] = Idle]
  /\ UNCHANGED <<server, observed, rows, lock, cycle, actor, history, counts>>
-----------------------------------------------------------------------------
CycleStep == Fetch \/ (\E u \in Window : Upsert(u)) \/ CycleDone
ActorStep(a) == Land(a) \/ Refuse(a) \/ Answer(a) \/ WriteRow(a)
OpenerStep(o) == (\E u \in Uids : Open(o, u)) \/ Download(o) \/ OpenFails(o) \/ Store(o)

Next ==
  \/ \E u \in Uids : Meddle(u)
  \/ Renumber
  \/ CycleStep \/ CycleFails
  \/ \E a \in Actors : Request(a) \/ ActorStep(a) \/ LoseAnswer(a) \/ WriteRowFails(a)
  \/ \E o \in Openers : OpenerStep(o)

Spec == Init /\ [][Next]_vars

\* A cycle comes round at least every three minutes and gets the lock in
\* turn (KeyedMutex); a request that is under way ends.
FairSpec ==
  /\ Spec
  /\ SF_vars(Fetch)
  /\ WF_vars((\E u \in Window : Upsert(u)) \/ CycleDone)
  /\ \A a \in Actors : SF_vars(Land(a)) /\ WF_vars(Answer(a) \/ WriteRow(a))
-----------------------------------------------------------------------------
Numberings == 1..MaxValidity
Tags == Numberings \cup {None}

TypeOK ==
  /\ box \in [Uids -> Ops]
  /\ validity \in Numberings
  /\ observed \in Tags
  /\ rows \in [Uids -> Ops]
  /\ cache \in [Uids -> [tag : Tags, of : Tags]]
  /\ lock \in {"free", "cycle", "actor"}
  /\ cycle \in {NoCycle} \cup [todo : SUBSET Window, seen : [Window -> Ops], validity : Numberings]
  /\ actor \in [Actors -> {Idle} \cup [pc : {"queued", "landed", "row"}, op : Ops, uid : Uids]]
  /\ opener \in [Openers -> {Idle} \cup [pc : {"queued"}, uid : Uids, tag : Tags]
                              \cup [pc : {"parsing"}, uid : Uids, tag : Tags, of : Numberings]]
  /\ excused \subseteq Uids /\ raced \subseteq Uids
  /\ acts \in Nat /\ opens \in Nat /\ trouble \in Nat

\* One party at a time is in the critical section.
LockIsHonest ==
  /\ lock = "cycle" <=> cycle # NoCycle
  /\ \A a \in Actors : actor[a].pc = "landed" => lock = "actor"
  /\ \A a, b \in Actors : actor[a].pc = "landed" /\ actor[b].pc = "landed" => a = b

\* What the cycle fetched of a UID still holds, or the row is excused.
CycleIsCurrent ==
  /\ \A u \in cycle.todo \ excused : cycle.seen[u] = box[u]
  /\ observed <= validity
  /\ cycle # NoCycle => observed <= cycle.validity /\ cycle.validity <= validity

\* A change that waits for its row is what the server has.
ChangeStands(a) ==
  LET u == actor[a].uid IN
  actor[a].pc \in {"landed", "row"} /\ u \notin excused =>
    /\ \A b \in Actors \ {a} : actor[b].pc \in {"landed", "row"} => actor[b].uid # u
    /\ box[u] = actor[a].op \/ (box[u] = Gone /\ rows[u] = Gone)

\* A row says what the server says, or there is none.
TrueRow(u) == rows[u] \in {Gone, box[u]}

\* A body in the cache, or on its way there, was of the numbering it is
\* marked with or of a later one.
TagsAreOld ==
  /\ \A u \in Uids : Cached(u) => cache[u].tag <= cache[u].of
  /\ \A o \in Openers : /\ opener[o].pc # "idle" => opener[o].tag <= observed
                        /\ opener[o].pc = "parsing" => opener[o].tag <= opener[o].of

\* A body of a message that has gone is still to be evicted, if it may be.
Evictable(u) == \/ u \in excused \cup raced
                \/ \E a \in Actors : actor[a].pc = "landed" /\ actor[a].uid = u
GoneIsEvicted(u) == box[u] = Gone /\ (Cached(u) \/ Parsing(u)) => Evictable(u)

OpsInv ==
  /\ TypeOK /\ LockIsHonest /\ CycleIsCurrent /\ TagsAreOld
  /\ \A a \in Actors : ChangeStands(a)
  /\ \A u \in Uids : u \in excused \/ Pending(u) \/ TrueRow(u)
  /\ \A u \in Uids : GoneIsEvicted(u)
-----------------------------------------------------------------------------
\* A row agrees with the server, unless a request is about to write it or its
\* write was lost, overtaken, or made by another client: a cycle never undoes
\* a change, and never brings a moved message back.
RowsTellTheTruth == \A u \in Uids : u \in excused \/ Pending(u) \/ TrueRow(u)

\* A body that would be served, and is known to be of some numbering, is not
\* of one older than the pool has observed.
BodyIsOfThisNumbering ==
  \A u \in Uids : Cached(u) /\ ~ Renumbered(u) /\ cache[u].tag # None => cache[u].of >= observed

\* No body stays cached of a message that was moved away through the routes,
\* unless it was being parsed meanwhile or the answer to the move was lost.
MovedBodyIsNotCached ==
  \A u \in Uids : Cached(u) /\ box[u] = Gone => u \in excused \cup raced \/ Pending(u)

(* What the server, the rows, the cache and the requests say of each       *)
(* other, and that the cache holds no body of an older numbering nor of    *)
(* a moved message.                                                        *)
BodiesInv == OpsInv /\ BodyIsOfThisNumbering /\ MovedBodyIsNotCached

\* A row of the newest messages that has gone wrong is right again in the end.
RowsCatchUp ==
  \A u \in Window : (box[u] # Gone /\ rows[u] # box[u]) ~> (box[u] = Gone \/ rows[u] = box[u])
=============================================================================
