-------------------------- MODULE MessageOpsProofs --------------------------
(***************************************************************************)
(* Proofs about MessageOps: its invariant is inductive, so that for every  *)
(* number of messages, requests and clients the rows follow the server,    *)
(* and the cache serves no body of an older numbering and keeps none of a  *)
(* message that was moved away.                                            *)
(***************************************************************************)
EXTENDS MessageOps, TLAPS

USE OpsAssumption

-----------------------------------------------------------------------------
\* Every step keeps the variables in their types.
LEMMA TypesStay ==
  ASSUME OpsInv, Next
  PROVE  TypeOK'
<1> USE DEF OpsInv, TypeOK, Numberings, Tags, NoEntry, Ops, Idle, NoCycle, None, server,
         local, requests, history, counts
<1>1. ASSUME NEW u \in Uids, Meddle(u)  PROVE TypeOK'
  BY <1>1 DEF Meddle, Trouble
<1>2. ASSUME Renumber  PROVE TypeOK'
  BY <1>2 DEF Renumber
<1>3. ASSUME Fetch  PROVE TypeOK'
  BY <1>3 DEF Fetch
<1>4. ASSUME NEW u \in Window, Upsert(u)  PROVE TypeOK'
  BY <1>4 DEF Upsert
<1>5. ASSUME CycleDone  PROVE TypeOK'
  BY <1>5 DEF CycleDone
<1>6. ASSUME CycleFails  PROVE TypeOK'
  BY <1>6 DEF CycleFails, Trouble
<1>7. ASSUME NEW a \in Actors, Request(a)  PROVE TypeOK'
  BY <1>7 DEF Request
<1>8. ASSUME NEW a \in Actors, Land(a)  PROVE TypeOK'
  BY <1>8 DEF Land
<1>9. ASSUME NEW a \in Actors, Refuse(a)  PROVE TypeOK'
  BY <1>9 DEF Refuse
<1>10. ASSUME NEW a \in Actors, Answer(a)  PROVE TypeOK'
  <2>1. actor[a] \in [pc : {"queued", "landed", "row"}, op : Ops, uid : Uids]
    BY <1>10 DEF Answer
  <2>5. [actor[a] EXCEPT !.pc = "row"] \in [pc : {"queued", "landed", "row"}, op : Ops, uid : Uids]
    BY <2>1
  <2>2. actor' \in [Actors -> {Idle} \cup [pc : {"queued", "landed", "row"}, op : Ops, uid : Uids]]
    BY <1>10, <2>5 DEF Answer
  <2>3. cache' \in [Uids -> [tag : Tags, of : Tags]]
    BY <1>10 DEF Answer
  <2>4. raced' \subseteq Uids
    BY <1>10, <2>1 DEF Answer
  <2> QED BY <1>10, <2>2, <2>3, <2>4 DEF Answer
<1>11. ASSUME NEW a \in Actors, LoseAnswer(a)  PROVE TypeOK'
  BY <1>11 DEF LoseAnswer, Trouble
<1>12. ASSUME NEW a \in Actors, WriteRow(a)  PROVE TypeOK'
  BY <1>12 DEF WriteRow
<1>13. ASSUME NEW a \in Actors, WriteRowFails(a)  PROVE TypeOK'
  BY <1>13 DEF WriteRowFails, Trouble
<1>14. ASSUME NEW o \in Openers, NEW u \in Uids, Open(o, u)  PROVE TypeOK'
  BY <1>14 DEF Open
<1>15. ASSUME NEW o \in Openers, Download(o)  PROVE TypeOK'
  BY <1>15 DEF Download
<1>16. ASSUME NEW o \in Openers, OpenFails(o)  PROVE TypeOK'
  BY <1>16 DEF OpenFails
<1>17. ASSUME NEW o \in Openers, Store(o)  PROVE TypeOK'
  BY <1>17 DEF Store
<1> QED BY <1>1, <1>2, <1>3, <1>4, <1>5, <1>6, <1>7, <1>8, <1>9, <1>10, <1>11, <1>12,
         <1>13, <1>14, <1>15, <1>16, <1>17 DEF Next, CycleStep, ActorStep, OpenerStep
-----------------------------------------------------------------------------
\* The lock is taken only when it is free, and given up by the party that holds
\* it.
LEMMA LockStays ==
  ASSUME OpsInv, Next
  PROVE  LockIsHonest'
<1> USE DEF OpsInv, TypeOK, LockIsHonest, NoCycle, Idle, None, Numberings, server, local,
         requests
<1>1. ASSUME NEW u \in Uids, Meddle(u)  PROVE LockIsHonest'
  BY <1>1 DEF Meddle, Trouble
<1>2. ASSUME Renumber  PROVE LockIsHonest'
  BY <1>2 DEF Renumber
<1>3. ASSUME Fetch  PROVE LockIsHonest'
  BY <1>3 DEF Fetch
<1>4. ASSUME NEW u \in Window, Upsert(u)  PROVE LockIsHonest'
  BY <1>4 DEF Upsert
<1>5. ASSUME CycleDone  PROVE LockIsHonest'
  BY <1>5 DEF CycleDone
<1>6. ASSUME CycleFails  PROVE LockIsHonest'
  BY <1>6 DEF CycleFails, Trouble
<1>7. ASSUME NEW a \in Actors, Request(a)  PROVE LockIsHonest'
  BY <1>7 DEF Request
<1>8. ASSUME NEW a \in Actors, Land(a)  PROVE LockIsHonest'
  BY <1>8 DEF Land
<1>9. ASSUME NEW a \in Actors, Refuse(a)  PROVE LockIsHonest'
  BY <1>9 DEF Refuse
<1>10. ASSUME NEW a \in Actors, Answer(a)  PROVE LockIsHonest'
  BY <1>10 DEF Answer
<1>11. ASSUME NEW a \in Actors, LoseAnswer(a)  PROVE LockIsHonest'
  BY <1>11 DEF LoseAnswer, Trouble
<1>12. ASSUME NEW a \in Actors, WriteRow(a)  PROVE LockIsHonest'
  BY <1>12 DEF WriteRow
<1>13. ASSUME NEW a \in Actors, WriteRowFails(a)  PROVE LockIsHonest'
  BY <1>13 DEF WriteRowFails, Trouble
<1>14. ASSUME NEW o \in Openers, NEW u \in Uids, Open(o, u)  PROVE LockIsHonest'
  BY <1>14 DEF Open
<1>15. ASSUME NEW o \in Openers, Download(o)  PROVE LockIsHonest'
  BY <1>15 DEF Download
<1>16. ASSUME NEW o \in Openers, OpenFails(o)  PROVE LockIsHonest'
  BY <1>16 DEF OpenFails
<1>17. ASSUME NEW o \in Openers, Store(o)  PROVE LockIsHonest'
  BY <1>17 DEF Store
<1> QED BY <1>1, <1>2, <1>3, <1>4, <1>5, <1>6, <1>7, <1>8, <1>9, <1>10, <1>11, <1>12,
         <1>13, <1>14, <1>15, <1>16, <1>17 DEF Next, CycleStep, ActorStep, OpenerStep
-----------------------------------------------------------------------------
\* What the cycle fetched holds until it is upserted: a route changes the
\* server only under the lock, and whoever else does excuses the row.
LEMMA CycleStays ==
  ASSUME OpsInv, Next
  PROVE  CycleIsCurrent'
<1> USE DEF OpsInv, TypeOK, LockIsHonest, CycleIsCurrent, Numberings, Tags, NoCycle, Idle,
         None, server, local, requests, history, counts
<1>1. ASSUME NEW u \in Uids, Meddle(u)  PROVE CycleIsCurrent'
  BY <1>1 DEF Meddle, Trouble
<1>2. ASSUME Renumber  PROVE CycleIsCurrent'
  BY <1>2 DEF Renumber
<1>3. ASSUME Fetch  PROVE CycleIsCurrent'
  BY <1>3 DEF Fetch
<1>4. ASSUME NEW u \in Window, Upsert(u)  PROVE CycleIsCurrent'
  BY <1>4 DEF Upsert
<1>5. ASSUME CycleDone  PROVE CycleIsCurrent'
  BY <1>5 DEF CycleDone
<1>6. ASSUME CycleFails  PROVE CycleIsCurrent'
  BY <1>6 DEF CycleFails, Trouble
<1>7. ASSUME NEW a \in Actors, Request(a)  PROVE CycleIsCurrent'
  BY <1>7 DEF Request
<1>8. ASSUME NEW a \in Actors, Land(a)  PROVE CycleIsCurrent'
  BY <1>8 DEF Land
<1>9. ASSUME NEW a \in Actors, Refuse(a)  PROVE CycleIsCurrent'
  BY <1>9 DEF Refuse
<1>10. ASSUME NEW a \in Actors, Answer(a)  PROVE CycleIsCurrent'
  BY <1>10 DEF Answer
<1>11. ASSUME NEW a \in Actors, LoseAnswer(a)  PROVE CycleIsCurrent'
  BY <1>11 DEF LoseAnswer, Trouble
<1>12. ASSUME NEW a \in Actors, WriteRow(a)  PROVE CycleIsCurrent'
  BY <1>12 DEF WriteRow
<1>13. ASSUME NEW a \in Actors, WriteRowFails(a)  PROVE CycleIsCurrent'
  BY <1>13 DEF WriteRowFails, Trouble
<1>14. ASSUME NEW o \in Openers, NEW u \in Uids, Open(o, u)  PROVE CycleIsCurrent'
  BY <1>14 DEF Open
<1>15. ASSUME NEW o \in Openers, Download(o)  PROVE CycleIsCurrent'
  BY <1>15 DEF Download
<1>16. ASSUME NEW o \in Openers, OpenFails(o)  PROVE CycleIsCurrent'
  BY <1>16 DEF OpenFails
<1>17. ASSUME NEW o \in Openers, Store(o)  PROVE CycleIsCurrent'
  BY <1>17 DEF Store
<1> QED BY <1>1, <1>2, <1>3, <1>4, <1>5, <1>6, <1>7, <1>8, <1>9, <1>10, <1>11, <1>12,
         <1>13, <1>14, <1>15, <1>16, <1>17 DEF Next, CycleStep, ActorStep, OpenerStep
-----------------------------------------------------------------------------
\* An entry is marked with what was known when its request began, and what is
\* known only grows.
LEMMA TagsStay ==
  ASSUME OpsInv, Next
  PROVE  TagsAreOld'
<1> USE DEF OpsInv, TypeOK, CycleIsCurrent, TagsAreOld, Cached, Numberings, Tags, NoCycle,
         Idle, NoEntry, None, server, local, requests, history, counts
<1>1. ASSUME NEW u \in Uids, Meddle(u)  PROVE TagsAreOld'
  BY <1>1 DEF Meddle, Trouble
<1>2. ASSUME Renumber  PROVE TagsAreOld'
  BY <1>2 DEF Renumber
<1>3. ASSUME Fetch  PROVE TagsAreOld'
  BY <1>3 DEF Fetch
<1>4. ASSUME NEW u \in Window, Upsert(u)  PROVE TagsAreOld'
  BY <1>4 DEF Upsert
<1>5. ASSUME CycleDone  PROVE TagsAreOld'
  <2>1. observed <= observed' /\ observed' \in Tags /\ observed \in Tags
    BY <1>5, LockStays DEF CycleDone, LockIsHonest
  <2>2. \A o \in Openers : opener[o].pc # "idle" => opener[o].tag \in Tags
    OBVIOUS
  <2>3. UNCHANGED <<cache, opener>>
    BY <1>5 DEF CycleDone
  <2> QED BY <2>1, <2>2, <2>3
<1>6. ASSUME CycleFails  PROVE TagsAreOld'
  BY <1>6 DEF CycleFails, Trouble
<1>7. ASSUME NEW a \in Actors, Request(a)  PROVE TagsAreOld'
  BY <1>7 DEF Request
<1>8. ASSUME NEW a \in Actors, Land(a)  PROVE TagsAreOld'
  BY <1>8 DEF Land
<1>9. ASSUME NEW a \in Actors, Refuse(a)  PROVE TagsAreOld'
  BY <1>9 DEF Refuse
<1>10. ASSUME NEW a \in Actors, Answer(a)  PROVE TagsAreOld'
  BY <1>10 DEF Answer
<1>11. ASSUME NEW a \in Actors, LoseAnswer(a)  PROVE TagsAreOld'
  BY <1>11 DEF LoseAnswer, Trouble
<1>12. ASSUME NEW a \in Actors, WriteRow(a)  PROVE TagsAreOld'
  BY <1>12 DEF WriteRow
<1>13. ASSUME NEW a \in Actors, WriteRowFails(a)  PROVE TagsAreOld'
  BY <1>13 DEF WriteRowFails, Trouble
<1>14. ASSUME NEW o \in Openers, NEW u \in Uids, Open(o, u)  PROVE TagsAreOld'
  BY <1>14 DEF Open
<1>15. ASSUME NEW o \in Openers, Download(o)  PROVE TagsAreOld'
  BY <1>15 DEF Download
<1>16. ASSUME NEW o \in Openers, OpenFails(o)  PROVE TagsAreOld'
  BY <1>16 DEF OpenFails
<1>17. ASSUME NEW o \in Openers, Store(o)  PROVE TagsAreOld'
  <2>1. opener[o].tag <= opener[o].of /\ opener[o].of # None
    BY <1>17 DEF Store
  <2>2. ASSUME NEW w \in Uids, Cached(w)'  PROVE cache'[w].tag <= cache'[w].of
    <3>1. CASE cache' = cache
      BY <2>2, <3>1
    <3>2. CASE cache' # cache
      BY <1>17, <2>1, <2>2, <3>2 DEF Store
    <3> QED BY <3>1, <3>2
  <2>3. ASSUME NEW p \in Openers
        PROVE  /\ opener'[p].pc # "idle" => opener'[p].tag <= observed'
               /\ opener'[p].pc = "parsing" => opener'[p].tag <= opener'[p].of
    BY <1>17 DEF Store
  <2> QED BY <2>2, <2>3
<1> QED BY <1>1, <1>2, <1>3, <1>4, <1>5, <1>6, <1>7, <1>8, <1>9, <1>10, <1>11, <1>12,
         <1>13, <1>14, <1>15, <1>16, <1>17 DEF Next, CycleStep, ActorStep, OpenerStep
-----------------------------------------------------------------------------
\* A change stands until its row is written: what overtakes it excuses the row.
LEMMA ChangesStand ==
  ASSUME OpsInv, Next, NEW b \in Actors
  PROVE  ChangeStands(b)'
<1> USE DEF OpsInv, TypeOK, LockIsHonest, CycleIsCurrent, ChangeStands, TrueRow, Pending,
         NoCycle, Idle, None, server, local, requests, history, counts
<1>1. ASSUME NEW u \in Uids, Meddle(u)  PROVE ChangeStands(b)'
  BY <1>1 DEF Meddle, Trouble
<1>2. ASSUME Renumber  PROVE ChangeStands(b)'
  BY <1>2 DEF Renumber
<1>3. ASSUME Fetch  PROVE ChangeStands(b)'
  BY <1>3 DEF Fetch
<1>4. ASSUME NEW u \in Window, Upsert(u)  PROVE ChangeStands(b)'
  BY <1>4 DEF Upsert, Agreed
<1>5. ASSUME CycleDone  PROVE ChangeStands(b)'
  BY <1>5 DEF CycleDone
<1>6. ASSUME CycleFails  PROVE ChangeStands(b)'
  BY <1>6 DEF CycleFails, Trouble
<1>7. ASSUME NEW a \in Actors, Request(a)  PROVE ChangeStands(b)'
  BY <1>7 DEF Request
<1>8. ASSUME NEW a \in Actors, Land(a)  PROVE ChangeStands(b)'
  BY <1>8 DEF Land
<1>9. ASSUME NEW a \in Actors, Refuse(a)  PROVE ChangeStands(b)'
  BY <1>9 DEF Refuse
<1>10. ASSUME NEW a \in Actors, Answer(a)  PROVE ChangeStands(b)'
  BY <1>10 DEF Answer
<1>11. ASSUME NEW a \in Actors, LoseAnswer(a)  PROVE ChangeStands(b)'
  BY <1>11 DEF LoseAnswer, Trouble
<1>12. ASSUME NEW a \in Actors, WriteRow(a)  PROVE ChangeStands(b)'
  BY <1>12 DEF WriteRow
<1>13. ASSUME NEW a \in Actors, WriteRowFails(a)  PROVE ChangeStands(b)'
  BY <1>13 DEF WriteRowFails, Trouble
<1>14. ASSUME NEW o \in Openers, NEW u \in Uids, Open(o, u)  PROVE ChangeStands(b)'
  BY <1>14 DEF Open
<1>15. ASSUME NEW o \in Openers, Download(o)  PROVE ChangeStands(b)'
  BY <1>15 DEF Download
<1>16. ASSUME NEW o \in Openers, OpenFails(o)  PROVE ChangeStands(b)'
  BY <1>16 DEF OpenFails
<1>17. ASSUME NEW o \in Openers, Store(o)  PROVE ChangeStands(b)'
  BY <1>17 DEF Store
<1> QED BY <1>1, <1>2, <1>3, <1>4, <1>5, <1>6, <1>7, <1>8, <1>9, <1>10, <1>11, <1>12,
         <1>13, <1>14, <1>15, <1>16, <1>17 DEF Next, CycleStep, ActorStep, OpenerStep
-----------------------------------------------------------------------------
\* A row goes wrong only while a request is to write it, or excused.
LEMMA RowsStayTrue ==
  ASSUME OpsInv, Next, NEW w \in Uids
  PROVE  w \in excused' \/ Pending(w)' \/ TrueRow(w)'
<1> USE DEF OpsInv, TypeOK, LockIsHonest, CycleIsCurrent, ChangeStands, TrueRow, Pending,
         NoCycle, Idle, None, server, local, requests, history, counts
<1>1. ASSUME NEW u \in Uids, Meddle(u)  PROVE w \in excused' \/ Pending(w)' \/ TrueRow(w)'
  BY <1>1 DEF Meddle, Trouble
<1>2. ASSUME Renumber  PROVE w \in excused' \/ Pending(w)' \/ TrueRow(w)'
  BY <1>2 DEF Renumber
<1>3. ASSUME Fetch  PROVE w \in excused' \/ Pending(w)' \/ TrueRow(w)'
  BY <1>3 DEF Fetch
<1>4. ASSUME NEW u \in Window, Upsert(u)  PROVE w \in excused' \/ Pending(w)' \/ TrueRow(w)'
  BY <1>4 DEF Upsert, Agreed
<1>5. ASSUME CycleDone  PROVE w \in excused' \/ Pending(w)' \/ TrueRow(w)'
  BY <1>5 DEF CycleDone
<1>6. ASSUME CycleFails  PROVE w \in excused' \/ Pending(w)' \/ TrueRow(w)'
  BY <1>6 DEF CycleFails, Trouble
<1>7. ASSUME NEW a \in Actors, Request(a)  PROVE w \in excused' \/ Pending(w)' \/ TrueRow(w)'
  BY <1>7 DEF Request
<1>8. ASSUME NEW a \in Actors, Land(a)  PROVE w \in excused' \/ Pending(w)' \/ TrueRow(w)'
  BY <1>8 DEF Land
<1>9. ASSUME NEW a \in Actors, Refuse(a)  PROVE w \in excused' \/ Pending(w)' \/ TrueRow(w)'
  BY <1>9 DEF Refuse
<1>10. ASSUME NEW a \in Actors, Answer(a)  PROVE w \in excused' \/ Pending(w)' \/ TrueRow(w)'
  BY <1>10 DEF Answer
<1>11. ASSUME NEW a \in Actors, LoseAnswer(a)  PROVE w \in excused' \/ Pending(w)' \/ TrueRow(w)'
  BY <1>11 DEF LoseAnswer, Trouble
<1>12. ASSUME NEW a \in Actors, WriteRow(a)  PROVE w \in excused' \/ Pending(w)' \/ TrueRow(w)'
  BY <1>12 DEF WriteRow
<1>13. ASSUME NEW a \in Actors, WriteRowFails(a)  PROVE w \in excused' \/ Pending(w)' \/ TrueRow(w)'
  BY <1>13 DEF WriteRowFails, Trouble
<1>14. ASSUME NEW o \in Openers, NEW u \in Uids, Open(o, u)  PROVE w \in excused' \/ Pending(w)' \/ TrueRow(w)'
  BY <1>14 DEF Open
<1>15. ASSUME NEW o \in Openers, Download(o)  PROVE w \in excused' \/ Pending(w)' \/ TrueRow(w)'
  BY <1>15 DEF Download
<1>16. ASSUME NEW o \in Openers, OpenFails(o)  PROVE w \in excused' \/ Pending(w)' \/ TrueRow(w)'
  BY <1>16 DEF OpenFails
<1>17. ASSUME NEW o \in Openers, Store(o)  PROVE w \in excused' \/ Pending(w)' \/ TrueRow(w)'
  BY <1>17 DEF Store
<1> QED BY <1>1, <1>2, <1>3, <1>4, <1>5, <1>6, <1>7, <1>8, <1>9, <1>10, <1>11, <1>12,
         <1>13, <1>14, <1>15, <1>16, <1>17 DEF Next, CycleStep, ActorStep, OpenerStep
-----------------------------------------------------------------------------
\* The body of a message that has gone is evicted when the answer to the move
\* comes, and cannot be downloaded again.
LEMMA GoneStaysEvicted ==
  ASSUME OpsInv, Next, NEW w \in Uids
  PROVE  GoneIsEvicted(w)'
<1> USE DEF OpsInv, TypeOK, LockIsHonest, GoneIsEvicted, Evictable, Cached, Parsing,
         NoEntry, Pending,
            ChangeStands, NoCycle, Idle, None, server, local, requests, history, counts
<1>1. ASSUME NEW u \in Uids, Meddle(u)  PROVE GoneIsEvicted(w)'
  BY <1>1 DEF Meddle, Trouble
<1>2. ASSUME Renumber  PROVE GoneIsEvicted(w)'
  BY <1>2 DEF Renumber
<1>3. ASSUME Fetch  PROVE GoneIsEvicted(w)'
  BY <1>3 DEF Fetch
<1>4. ASSUME NEW u \in Window, Upsert(u)  PROVE GoneIsEvicted(w)'
  BY <1>4 DEF Upsert, Agreed
<1>5. ASSUME CycleDone  PROVE GoneIsEvicted(w)'
  BY <1>5 DEF CycleDone
<1>6. ASSUME CycleFails  PROVE GoneIsEvicted(w)'
  BY <1>6 DEF CycleFails, Trouble
<1>7. ASSUME NEW a \in Actors, Request(a)  PROVE GoneIsEvicted(w)'
  BY <1>7 DEF Request
<1>8. ASSUME NEW a \in Actors, Land(a)  PROVE GoneIsEvicted(w)'
  BY <1>8 DEF Land
<1>9. ASSUME NEW a \in Actors, Refuse(a)  PROVE GoneIsEvicted(w)'
  BY <1>9 DEF Refuse
<1>10. ASSUME NEW a \in Actors, Answer(a)  PROVE GoneIsEvicted(w)'
  BY <1>10 DEF Answer
<1>11. ASSUME NEW a \in Actors, LoseAnswer(a)  PROVE GoneIsEvicted(w)'
  BY <1>11 DEF LoseAnswer, Trouble
<1>12. ASSUME NEW a \in Actors, WriteRow(a)  PROVE GoneIsEvicted(w)'
  BY <1>12 DEF WriteRow
<1>13. ASSUME NEW a \in Actors, WriteRowFails(a)  PROVE GoneIsEvicted(w)'
  BY <1>13 DEF WriteRowFails, Trouble
<1>14. ASSUME NEW o \in Openers, NEW u \in Uids, Open(o, u)  PROVE GoneIsEvicted(w)'
  BY <1>14 DEF Open
<1>15. ASSUME NEW o \in Openers, Download(o)  PROVE GoneIsEvicted(w)'
  BY <1>15 DEF Download
<1>16. ASSUME NEW o \in Openers, OpenFails(o)  PROVE GoneIsEvicted(w)'
  BY <1>16 DEF OpenFails
<1>17. ASSUME NEW o \in Openers, Store(o)  PROVE GoneIsEvicted(w)'
  BY <1>17 DEF Store
<1> QED BY <1>1, <1>2, <1>3, <1>4, <1>5, <1>6, <1>7, <1>8, <1>9, <1>10, <1>11, <1>12,
         <1>13, <1>14, <1>15, <1>16, <1>17 DEF Next, CycleStep, ActorStep, OpenerStep
-----------------------------------------------------------------------------
LEMMA OpsInit == Init => OpsInv
<1> SUFFICES ASSUME Init PROVE OpsInv
  OBVIOUS
<1> USE DEF Init
<1>1. TypeOK
  BY DEF TypeOK, Idle, NoCycle, NoEntry, Ops, Numberings, Tags, None
<1>2. LockIsHonest
  BY DEF LockIsHonest, Idle
<1>3. CycleIsCurrent /\ TagsAreOld
  BY DEF CycleIsCurrent, NoCycle, TagsAreOld, Cached, NoEntry, Idle, None
<1>4. (\A a \in Actors : ChangeStands(a)) /\ (\A u \in Uids : TrueRow(u))
  BY DEF ChangeStands, TrueRow, Idle
<1>5. \A u \in Uids : GoneIsEvicted(u)
  BY DEF GoneIsEvicted, Unseen, Gone
<1> QED BY <1>1, <1>2, <1>3, <1>4, <1>5 DEF OpsInv

LEMMA OpsStep == OpsInv /\ [Next]_vars => OpsInv'
<1>1. ASSUME OpsInv, Next PROVE OpsInv'
  BY <1>1, TypesStay, LockStays, CycleStays, TagsStay, ChangesStand, RowsStayTrue, GoneStaysEvicted
     DEF OpsInv
<1>2. ASSUME OpsInv, UNCHANGED vars PROVE OpsInv'
  BY <1>2 DEF OpsInv, TypeOK, LockIsHonest, CycleIsCurrent, TagsAreOld, Cached,
         ChangeStands, TrueRow,
              Pending, GoneIsEvicted, Evictable, Parsing, vars, server, local, requests,
         history, counts
<1> QED BY <1>1, <1>2

\* The inductive invariant of the server, the cycle, the rows, the cache and
\* the requests, for every set of messages and every number of requests.
THEOREM OpsInvariant == Spec => []OpsInv
<1> QED BY OpsInit, OpsStep, PTL DEF Spec

\* A row agrees with the server unless a request is about to write it or it is
\* excused: a sync cycle never undoes a change made through the routes, because
\* both reach the server under the account's lock.
THEOREM RowsAreTrue == Spec => []RowsTellTheTruth
<1>1. OpsInv => RowsTellTheTruth
  BY DEF OpsInv, RowsTellTheTruth
<1> QED BY <1>1, OpsInvariant, PTL

\* A body served from the cache, and known to be of some numbering, is not of
\* one older than the pool has observed: an entry is marked with what was known
\* before its download, and what is known only grows.
THEOREM BodiesAreOfThisNumbering == Spec => []BodyIsOfThisNumbering
<1>1. OpsInv => BodyIsOfThisNumbering
  BY DEF OpsInv, TypeOK, TagsAreOld, BodyIsOfThisNumbering, Renumbered, Tags, Numberings,
         None
<1> QED BY <1>1, OpsInvariant, PTL

\* No body stays cached of a message that was moved away through the routes,
\* unless it was being parsed when it was evicted, or the answer was lost.
THEOREM MovedBodiesAreEvicted == Spec => []MovedBodyIsNotCached
<1>1. OpsInv => MovedBodyIsNotCached
  BY DEF OpsInv, MovedBodyIsNotCached, GoneIsEvicted, Evictable, Pending
<1> QED BY <1>1, OpsInvariant, PTL

(* What the server, the rows, the cache and the requests say of each       *)
(* other, and that the cache holds no body of an older numbering nor of    *)
(* a moved message.                                                        *)
THEOREM BodiesHold == Spec => []BodiesInv
  BY OpsInvariant, BodiesAreOfThisNumbering, MovedBodiesAreEvicted, PTL DEF BodiesInv
=============================================================================
