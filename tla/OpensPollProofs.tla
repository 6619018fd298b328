-------------------------- MODULE OpensPollProofs --------------------------
(***************************************************************************)
(* Theorems about the opens poll, for every set of hits and devices, every *)
(* page size and any number of failures: OpensInv is inductive.  A cycle   *)
(* is described by the record it becomes (OnlyTick, TickMoves); the other  *)
(* slot is empty throughout.                                               *)
(***************************************************************************)
EXTENDS OpensPoll, TLAPS

TickStates == [pc : Pcs, page : SUBSET Hits, todo : SUBSET (Hits \X Devices)]
HitStates == [stage : Stages, at : Nat, fate : Fates]

\* What the record updates of the model yield.
LEMMA GotoState ==
  ASSUME NEW r \in TickStates, NEW pc \in Pcs
  PROVE  [r EXCEPT !.pc = pc] \in TickStates
  BY DEF TickStates

LEMMA SendState ==
  ASSUME NEW r \in TickStates, NEW pc \in Pcs, NEW S \in SUBSET (Hits \X Devices)
  PROVE  [r EXCEPT !.pc = pc, !.todo = S] \in TickStates
  BY DEF TickStates

LEMMA FateState ==
  ASSUME NEW r \in HitStates, NEW f \in Fates
  PROVE  [r EXCEPT !.fate = f] \in HitStates
  BY DEF HitStates

USE PollAssumption
USE DEF At, AtPc, None, Slots, Recorded

LEMMA InitOpens == Init => OpensInv
  BY DEF Init, OpensInv, TypeOK, OneTick, TickOK, HitOK, SentOK, OwedOK, DoneBy, NoTick,
         Stages, Fates, Pcs

\* While a cycle is in flight, the other slot is empty, and stays so.
LEMMA OnlyTick ==
  ASSUME OpensInv, NEW k \in Slots, ~ AtPc(k, "none"), NEW r \in TickStates, Becomes(k, r)
  PROVE  /\ ticks'[k] = r
         /\ \A j \in Slots \ {k} : ticks'[j] = ticks[j] /\ ticks[j].pc = "none"
         /\ proc # "down"
  BY DEF OpensInv, TypeOK, OneTick, Becomes

\* A cycle moves on without touching anything but itself.
LEMMA TickMoves ==
  ASSUME OpensInv, NEW k \in Slots, NEW r \in TickStates, Becomes(k, r),
         UNCHANGED <<service, rows, proc, lastSeen, sent, owed>>,
         ~ AtPc(k, "none") \/ (proc # "down" /\ \A j \in Slots : AtPc(j, "none")),
         fails' \in Nat, lapses' \in Nat, lapses <= lapses',
         TickOK(k)',
         \A p \in Hits \X Devices :
           lastSeen < At(p[1]) /\ (\A j \in Slots : ~ DoneBy(j, p)') => sent[p] <= lapses',
         \A p \in owed : hit[p[1]].fate = "none" /\ DoneBy(k, p)' => sent[p] > 0
  PROVE  OpensInv'
<1> USE DEF service
<1>1. /\ ticks'[k] = r
      /\ \A j \in Slots \ {k} : ticks'[j] = ticks[j] /\ ticks[j].pc = "none"
      /\ proc # "down"
  BY OnlyTick DEF OpensInv, TypeOK, Becomes
<1>2. TypeOK'
  BY DEF OpensInv, TypeOK, Becomes, TickStates
<1>3. OneTick'
  BY <1>1 DEF OneTick
<1>4. ASSUME NEW j \in Slots PROVE TickOK(j)'
  <2>1. CASE j = k
    BY <2>1
  <2>2. CASE j # k
    BY <1>1, <2>2 DEF OpensInv, TickOK
  <2>. QED
    BY <2>1, <2>2
<1>5. \A h \in Hits : HitOK(h)'
  BY DEF OpensInv, HitOK
<1>6. \A p \in Hits \X Devices : SentOK(p)'
  BY DEF OpensInv, SentOK, TypeOK
<1>7. ASSUME NEW p \in owed PROVE OwedOK(p)'
  <2>1. OwedOK(p) /\ p \in Hits \X Devices
    BY DEF OpensInv, TypeOK
  <2>2. \A j \in Slots \ {k} : ~ DoneBy(j, p)'
    BY <1>1 DEF DoneBy
  <2>. QED
    BY <2>1, <2>2 DEF OwedOK
<1>. QED
  BY <1>2, <1>3, <1>4, <1>5, <1>6, <1>7 DEF OpensInv

\* The timer starts a cycle when none is in flight.
LEMMA RunKeeps == ASSUME OpensInv, NEW k \in Slots, RunTick(k) PROVE OpensInv'
<1> DEFINE r == [ticks[k] EXCEPT !.pc = "fetch"]
<1>0. ticks[k] \in TickStates /\ "fetch" \in Pcs
  BY DEF OpensInv, TypeOK, TickStates, Pcs
<1>1. /\ Becomes(k, r) /\ r \in TickStates
      /\ proc # "down" /\ \A j \in Slots : AtPc(j, "none")
      /\ UNCHANGED <<service, rows, proc, lastSeen, sent, owed, counts>>
  BY <1>0, GotoState DEF RunTick, Goto, Becomes
<1>2. ticks'[k].pc = "fetch" /\ ticks'[k].page = {} /\ ticks'[k].todo = {}
  BY <1>1 DEF Becomes, OpensInv, TypeOK, TickOK, TickStates
<1>3. TickOK(k)'
  BY <1>2 DEF TickOK
<1>4. \A p \in Hits \X Devices : ~ DoneBy(k, p)' /\ \A j \in Slots : ~ DoneBy(j, p)
  BY <1>1, <1>2 DEF DoneBy
<1>5. fails' \in Nat /\ lapses' = lapses /\ lapses \in Nat /\ owed \subseteq Hits \X Devices
  BY <1>1 DEF counts, OpensInv, TypeOK
<1>6. \A p \in Hits \X Devices :
        lastSeen < At(p[1]) /\ (\A j \in Slots : ~ DoneBy(j, p)') => sent[p] <= lapses'
  BY <1>4, <1>5 DEF OpensInv, SentOK
<1> HIDE DEF r
<1>. QED
  BY <1>1, <1>3, <1>4, <1>5, <1>6, TickMoves

\* A cycle that fails is over.  If it was past the first push, that is a lapse.
LEMMA FaultKeeps == ASSUME OpensInv, NEW k \in Slots, TickFault(k) PROVE OpensInv'
<1>1. /\ Becomes(k, NoTick) /\ NoTick \in TickStates
      /\ ~ AtPc(k, "none") /\ (AtPc(k, "write") => lapses' = lapses + 1)
      /\ AtPc(k, "write") \/ ticks[k].pc \in {"fetch", "read", "baseline", "load"}
      /\ UNCHANGED <<service, rows, proc, lastSeen, sent, owed>>
      /\ fails' \in Nat /\ lapses' \in Nat /\ lapses <= lapses'
  BY DEF TickFault, FetchFails, ReadFails, BaselineFails, LoadFails, WriteFails, Ends, NoTick,
         TickStates, Pcs, Failing, Lapsing, OpensInv, TypeOK
<1>2. ticks'[k] = NoTick /\ \A j \in Slots \ {k} : ticks[j].pc = "none"
  BY <1>1, OnlyTick
<1>3. TickOK(k)'
  BY <1>2 DEF TickOK, NoTick
<1>4. \A p \in Hits \X Devices : ~ DoneBy(k, p)'
  BY <1>2 DEF DoneBy, NoTick
<1>5. owed \subseteq Hits \X Devices
  BY DEF OpensInv, TypeOK
<1>6. ASSUME NEW p \in Hits \X Devices, lastSeen < At(p[1]) PROVE sent[p] <= lapses'
  <2>1. SentOK(p) /\ sent[p] \in Nat /\ lapses \in Nat
    BY DEF OpensInv, TypeOK
  <2>2. CASE AtPc(k, "write")
    BY <1>1, <2>1, <2>2 DEF SentOK
  <2>3. CASE ticks[k].pc \in {"fetch", "read", "baseline", "load"}
    <3>1. \A j \in Slots : ~ DoneBy(j, p)
      BY <1>2, <2>3 DEF DoneBy
    <3>. QED
      BY <1>1, <1>6, <2>1, <3>1 DEF SentOK
  <2>. QED
    BY <1>1, <2>2, <2>3
<1>. QED
  BY <1>1, <1>3, <1>4, <1>5, <1>6, TickMoves

\* The page is reduced to what is newer than the watermark.
LEMMA ReadKeeps == ASSUME OpensInv, NEW k \in Slots, Read(k) PROVE OpensInv'
<1> DEFINE fresh == Fresh(ticks[k].page)
<1>0. /\ AtPc(k, "read") /\ ticks[k] \in TickStates /\ TickOK(k) /\ lastSeen \in Nat \cup {-1}
      /\ UNCHANGED <<service, rows, proc, lastSeen, sent, owed, counts>>
      /\ fails' \in Nat /\ lapses' = lapses /\ lapses \in Nat /\ owed \subseteq Hits \X Devices
  BY DEF Read, counts, OpensInv, TypeOK, TickStates
<1>1. \A j \in Slots \ {k} : ticks[j].pc = "none"
  BY <1>0 DEF OpensInv, OneTick
<1>2. \A p \in Hits \X Devices : \A j \in Slots : ~ DoneBy(j, p)
  BY <1>0, <1>1 DEF DoneBy
<1>3. \A p \in Hits \X Devices : lastSeen < At(p[1]) => sent[p] <= lapses'
  BY <1>0, <1>2 DEF OpensInv, SentOK
<1>4. CASE lastSeen = None
  <2> DEFINE r == [ticks[k] EXCEPT !.pc = "baseline"]
  <2>1. Becomes(k, r) /\ r \in TickStates
    BY <1>0, <1>4, GotoState DEF Read, Goto, Becomes, Pcs
  <2>2. /\ ticks'[k].pc = "baseline" /\ ticks'[k].page = ticks[k].page
        /\ ticks'[k].todo = ticks[k].todo
    BY <1>0, <2>1 DEF Becomes, OpensInv, TypeOK, TickStates
  <2>3. TickOK(k)'
    BY <1>0, <1>4, <2>2 DEF TickOK, service
  <2>4. \A p \in Hits \X Devices : ~ DoneBy(k, p)'
    BY <2>2 DEF DoneBy
  <2> HIDE DEF r
  <2>. QED
    BY <1>0, <1>3, <2>1, <2>3, <2>4, TickMoves
<1>5. CASE lastSeen # None /\ fresh = {}
  <2>1. Becomes(k, NoTick) /\ NoTick \in TickStates
    BY <1>5 DEF Read, Ends, NoTick, TickStates, Pcs
  <2>2. ticks'[k] = NoTick
    BY <1>0, <2>1, OnlyTick
  <2>3. TickOK(k)' /\ \A p \in Hits \X Devices : ~ DoneBy(k, p)'
    BY <2>2 DEF TickOK, NoTick, DoneBy
  <2>. QED
    BY <1>0, <1>3, <2>1, <2>3, TickMoves
<1>6. CASE lastSeen # None /\ fresh # {}
  <2> DEFINE pc == IF fresh \cap Worthy = {} THEN "write" ELSE "load"
             r == [pc |-> pc, page |-> fresh, todo |-> {}]
  <2>1. Becomes(k, r)
    BY <1>6 DEF Read
  <2>2. pc \in {"write", "load"} /\ fresh \subseteq Hits /\ r \in TickStates
    BY <1>0 DEF Fresh, TickStates, Pcs
  <2>3. ticks'[k] = r
    BY <1>0, <2>1, <2>2, OnlyTick
  <2>4. ticks'[k].pc = pc /\ ticks'[k].page = fresh /\ ticks'[k].todo = {}
    BY <2>3
  <2>5. \A h \in fresh : h \in ticks[k].page /\ lastSeen < At(h)
    BY DEF Fresh
  <2>6. \A h \in Recorded \ fresh : lastSeen < At(h) => h \notin ticks[k].page
    BY DEF Fresh
  <2>7. TickOK(k)'
    <3> HIDE DEF fresh, r
    <3>. QED
      BY <1>0, <1>6, <2>2, <2>4, <2>5, <2>6 DEF TickOK, service
  <2>8. \A p \in owed : DoneBy(k, p)' => FALSE
    <3>1. \A p \in owed : p[1] \in Worthy
      BY DEF OpensInv, OwedOK
    <3>. QED
      BY <2>4, <3>1 DEF DoneBy
  <2> HIDE DEF r
  <2>. QED
    BY <1>0, <1>3, <2>1, <2>2, <2>7, <2>8, TickMoves
<1>. QED
  BY <1>4, <1>5, <1>6

\* What a cycle owes a device at the start of its pushes is on its list.
LEMMA LoadKeeps == ASSUME OpensInv, NEW k \in Slots, Load(k) PROVE OpensInv'
<1> DEFINE pc == IF rows = {} THEN "write" ELSE "send"
           list == (ticks[k].page \cap Worthy) \X rows
           r == [ticks[k] EXCEPT !.pc = pc, !.todo = list]
<1>0. /\ AtPc(k, "load") /\ ticks[k] \in TickStates /\ TickOK(k) /\ Becomes(k, r)
      /\ UNCHANGED <<service, rows, proc, lastSeen, sent, owed, counts>>
      /\ fails' \in Nat /\ lapses' = lapses /\ lapses \in Nat
      /\ owed \subseteq Hits \X Devices /\ rows \subseteq Devices
  BY DEF Load, counts, OpensInv, TypeOK, TickStates
<1>1. pc \in Pcs /\ list \in SUBSET (Hits \X Devices)
  BY <1>0 DEF Pcs, TickStates
<1>2. r \in TickStates
  <2> HIDE DEF pc, list
  <2>. QED
    BY <1>0, <1>1, SendState
<1>3. /\ ticks'[k] = r
      /\ \A j \in Slots \ {k} : ticks[j].pc = "none"
  BY <1>0, <1>2, OnlyTick
<1>4. ticks'[k].pc = pc /\ ticks'[k].page = ticks[k].page /\ ticks'[k].todo = list
  <2> HIDE DEF pc, list
  <2>. QED
    BY <1>0, <1>3 DEF TickStates
<1>5. \A p \in Hits \X Devices : lastSeen < At(p[1]) => sent[p] <= lapses'
  <2>1. \A p \in Hits \X Devices : \A j \in Slots : ~ DoneBy(j, p)
    BY <1>0, <1>3 DEF DoneBy
  <2>. QED
    BY <1>0, <2>1 DEF OpensInv, SentOK
<1>6. TickOK(k)'
  <2>1. list \subseteq ticks[k].page \X Devices /\ (pc # "send" => list = {})
    BY <1>0
  <2> HIDE DEF list
  <2>. QED
    BY <1>0, <1>4, <2>1 DEF TickOK, service
<1>7. \A p \in owed : ~ DoneBy(k, p)'
  <2>1. ASSUME NEW p \in owed, p[1] \in ticks[k].page PROVE p \in list
    BY <1>0, <2>1 DEF OpensInv, OwedOK
  <2>. QED
    BY <1>4, <2>1 DEF DoneBy
<1> HIDE DEF r
<1>. QED
  BY <1>0, <1>2, <1>5, <1>6, <1>7, TickMoves

\* The service's answer: what does not fit on the page is marked as a burst.
LEMMA FetchKeeps == ASSUME OpensInv, NEW k \in Slots, Fetch(k) PROVE OpensInv'
<1>1. PICK S \in Pages :
        /\ Becomes(k, [pc |-> "read", page |-> S, todo |-> {}])
        /\ hit' = [h \in Hits |-> IF /\ h \in Recorded \ S
                                     /\ hit[h].fate = "none"
                                     /\ At(h) > lastSeen
                                  THEN [hit[h] EXCEPT !.fate = "burst"] ELSE hit[h]]
  BY DEF Fetch
<1> DEFINE r == [pc |-> "read", page |-> S, todo |-> {}]
<1>2. /\ AtPc(k, "fetch") /\ S \subseteq Recorded
      /\ UNCHANGED <<clock, rows, proc, lastSeen, sent, owed, counts>>
      /\ fails' = fails /\ lapses' = lapses
  BY DEF Fetch, Pages, counts
<1>3. r \in TickStates
  BY <1>2 DEF TickStates, Pcs
<1>4. /\ ticks'[k] = r
      /\ \A j \in Slots \ {k} : ticks'[j] = ticks[j] /\ ticks[j].pc = "none"
      /\ proc # "down"
  BY <1>1, <1>2, <1>3, OnlyTick
<1>5. ticks'[k].pc = "read" /\ ticks'[k].page = S /\ ticks'[k].todo = {}
  BY <1>4
<1>6. ASSUME NEW h \in Hits
      PROVE  /\ hit'[h] \in HitStates
             /\ hit'[h].stage = hit[h].stage /\ hit'[h].at = hit[h].at
             /\ hit'[h].fate = IF h \in Recorded \ S /\ hit[h].fate = "none" /\ At(h) > lastSeen
                              THEN "burst" ELSE hit[h].fate
  <2>1. hit[h] \in HitStates
    BY DEF OpensInv, TypeOK, HitStates
  <2>2. [hit[h] EXCEPT !.fate = "burst"] \in HitStates
    BY <2>1, FateState DEF Fates
  <2>. QED
    BY <1>1, <2>1, <2>2 DEF HitStates
<1>7. TypeOK'
  <2>1. hit' \in [Hits -> HitStates]
    BY <1>1, <1>6
  <2>. QED
    BY <1>1, <1>2, <1>3, <2>1 DEF OpensInv, TypeOK, Becomes, TickStates, HitStates
<1>8. OneTick'
  BY <1>2, <1>4 DEF OneTick
<1>9. ASSUME NEW j \in Slots PROVE TickOK(j)'
  <2>1. CASE j = k
    BY <1>2, <1>5, <1>6, <2>1 DEF TickOK
  <2>2. CASE j # k
    BY <1>4, <1>6, <2>2 DEF OpensInv, TickOK
  <2>. QED
    BY <2>1, <2>2
<1>10. \A h \in Hits : HitOK(h)'
  BY <1>2, <1>6 DEF OpensInv, HitOK
<1>11. \A p \in Hits \X Devices : (\A j \in Slots : ~ DoneBy(j, p)') /\ (\A j \in Slots : ~ DoneBy(j, p))
  BY <1>2, <1>4, <1>5 DEF DoneBy
<1>12. \A p \in Hits \X Devices : SentOK(p)'
  BY <1>2, <1>6, <1>11 DEF OpensInv, SentOK
<1>13. ASSUME NEW p \in owed PROVE OwedOK(p)'
  <2>1. OwedOK(p) /\ p \in Hits \X Devices
    BY DEF OpensInv, TypeOK
  <2>. QED
    BY <1>2, <1>6, <1>11, <2>1 DEF OwedOK
<1>. QED
  BY <1>2, <1>7, <1>8, <1>9, <1>10, <1>12, <1>13 DEF OpensInv

\* The baseline is behind everything that is owed from then on.
LEMMA BaselineKeeps == ASSUME OpensInv, NEW k \in Slots, Baseline(k) PROVE OpensInv'
<1>1. PICK t \in {0} \cup {At(h) : h \in ticks[k].page} : lastSeen' = t /\ Backlog(t)
  BY DEF Baseline
<1>2. /\ AtPc(k, "baseline") /\ lastSeen = None /\ ticks[k].page \subseteq Hits
      /\ UNCHANGED <<clock, rows, proc, sent>> /\ fails' = fails /\ lapses' = lapses
      /\ Becomes(k, NoTick) /\ NoTick \in TickStates
  BY DEF Baseline, Ends, counts, OpensInv, TypeOK, TickOK, NoTick, TickStates, Pcs
<1>3. t \in Nat
  BY <1>1, <1>2 DEF OpensInv, TypeOK
<1>4. /\ ticks'[k] = NoTick
      /\ \A j \in Slots \ {k} : ticks'[j] = ticks[j] /\ ticks[j].pc = "none"
  BY <1>2, OnlyTick
<1>5. ASSUME NEW h \in Hits
      PROVE  /\ hit'[h] \in HitStates
             /\ hit'[h].stage = hit[h].stage /\ hit'[h].at = hit[h].at
             /\ hit'[h].fate = IF h \in Recorded /\ At(h) <= t THEN "backlog" ELSE hit[h].fate
  <2>1. hit[h] \in HitStates
    BY DEF OpensInv, TypeOK, HitStates
  <2>2. [hit[h] EXCEPT !.fate = "backlog"] \in HitStates
    BY <2>1, FateState DEF Fates
  <2>. QED
    BY <1>1, <2>1, <2>2 DEF Backlog, HitStates
<1>6. TypeOK'
  <2>1. hit' \in [Hits -> HitStates]
    BY <1>1, <1>5 DEF Backlog
  <2>. QED
    BY <1>1, <1>2, <1>3, <2>1 DEF OpensInv, TypeOK, Becomes, Backlog, TickStates, HitStates
<1>7. OneTick'
  BY <1>2, <1>4 DEF OneTick, OpensInv, NoTick
<1>8. ASSUME NEW j \in Slots PROVE TickOK(j)'
  <2>1. CASE j = k
    BY <1>4, <2>1 DEF TickOK, NoTick
  <2>2. CASE j # k
    BY <1>4, <1>5, <2>2 DEF OpensInv, TickOK
  <2>. QED
    BY <2>1, <2>2
<1>9. \A h \in Hits : HitOK(h)'
  BY <1>1, <1>2, <1>3, <1>5 DEF OpensInv, HitOK, TypeOK
<1>10. \A p \in Hits \X Devices : sent[p] = 0
  BY <1>2 DEF OpensInv, SentOK
<1>11. \A p \in Hits \X Devices : SentOK(p)'
  <2>1. lapses \in Nat
    BY DEF OpensInv, TypeOK
  <2>. QED
    BY <1>2, <1>10, <2>1 DEF SentOK
<1>12. ASSUME NEW p \in owed' PROVE OwedOK(p)'
  <2>1. OwedOK(p) /\ p \in Hits \X Devices /\ At(p[1]) > t
    BY <1>1 DEF Backlog, OpensInv, TypeOK
  <2>2. \A j \in Slots : ~ DoneBy(j, p)'
    BY <1>4 DEF DoneBy, NoTick
  <2>3. hit[p[1]].at \in Nat /\ p[1] \in Hits
    BY <2>1 DEF OpensInv, TypeOK
  <2>. QED
    BY <1>1, <1>2, <1>3, <1>5, <2>1, <2>2, <2>3 DEF OwedOK
<1>. QED
  BY <1>6, <1>7, <1>8, <1>9, <1>11, <1>12 DEF OpensInv

\* A push: the pair was not done before, so it had been sent once for each
\* lapse at most.
LEMMA SendKeeps == ASSUME OpensInv, NEW k \in Slots, Send(k) PROVE OpensInv'
<1>1. PICK p \in ticks[k].todo :
        /\ sent' = [sent EXCEPT ![p] = @ + 1]
        /\ LET rest == ticks[k].todo \ {p}
           IN  Becomes(k, [ticks[k] EXCEPT !.pc = IF rest = {} THEN "write" ELSE "send",
                                           !.todo = rest])
        /\ \/ UNCHANGED <<rows, owed>>
           \/ Forget(p[2])
  BY DEF Send
<1> DEFINE rest == ticks[k].todo \ {p}
           pc == IF rest = {} THEN "write" ELSE "send"
           r == [ticks[k] EXCEPT !.pc = pc, !.todo = rest]
<1>2. /\ AtPc(k, "send") /\ ticks[k] \in TickStates /\ TickOK(k) /\ Becomes(k, r)
      /\ UNCHANGED <<clock, hit, proc, lastSeen>> /\ fails' = fails /\ lapses' = lapses
  BY <1>1 DEF Send, service, counts, OpensInv, TypeOK, TickStates
<1>3. pc \in Pcs /\ rest \in SUBSET (Hits \X Devices)
  BY <1>2 DEF Pcs, TickStates
<1>4. r \in TickStates
  <2> HIDE DEF pc, rest
  <2>. QED
    BY <1>2, <1>3, SendState
<1>5. /\ ticks'[k] = r
      /\ \A j \in Slots \ {k} : ticks'[j] = ticks[j] /\ ticks[j].pc = "none"
      /\ proc # "down"
  BY <1>2, <1>4, OnlyTick
<1>6. ticks'[k].pc = pc /\ ticks'[k].page = ticks[k].page /\ ticks'[k].todo = rest
  <2> HIDE DEF pc, rest
  <2>. QED
    BY <1>2, <1>5 DEF TickStates
<1>7. /\ p \in Hits \X Devices /\ p[1] \in ticks[k].page /\ lastSeen < At(p[1]) /\ lastSeen # None
      /\ p[1] \in Recorded
  BY <1>2 DEF TickOK, TickStates
<1>8. /\ owed' \subseteq owed /\ rows' \subseteq rows
      /\ \A q \in owed' : q[2] \in rows => q[2] \in rows'
  BY <1>1 DEF Forget
<1>9. /\ sent' \in [Hits \X Devices -> Nat]
      /\ sent'[p] = sent[p] + 1
      /\ \A q \in (Hits \X Devices) \ {p} : sent'[q] = sent[q]
  BY <1>1, <1>7 DEF OpensInv, TypeOK
<1>10. TypeOK'
  <2> HIDE DEF r
  <2>. QED
    BY <1>2, <1>4, <1>8, <1>9 DEF OpensInv, TypeOK, Becomes, TickStates
<1>11. OneTick'
  BY <1>2, <1>5 DEF OneTick
<1>12. ASSUME NEW j \in Slots PROVE TickOK(j)'
  <2>1. CASE j = k
    <3>1. rest \subseteq ticks[k].page \X Devices /\ (pc # "send" => rest = {}) /\ pc \in {"send", "write"}
      BY <1>2 DEF TickOK
    <3> HIDE DEF rest, pc
    <3>. QED
      BY <1>2, <1>6, <2>1, <3>1 DEF TickOK
  <2>2. CASE j # k
    BY <1>2, <1>5, <2>2 DEF OpensInv, TickOK
  <2>. QED
    BY <2>1, <2>2
<1>13. \A h \in Hits : HitOK(h)'
  BY <1>2 DEF OpensInv, HitOK
<1>14. ASSUME NEW q \in Hits \X Devices PROVE SentOK(q)'
  <2>1. SentOK(q) /\ SentOK(p) /\ lapses \in Nat /\ sent[q] \in Nat /\ sent[p] \in Nat
    BY <1>7 DEF OpensInv, TypeOK
  <2>2. ~ DoneBy(k, p) /\ \A j \in Slots \ {k} : ~ DoneBy(j, p) /\ ~ DoneBy(j, q)
    BY <1>5 DEF DoneBy
  <2>3. sent[p] <= lapses
    BY <1>7, <2>1, <2>2 DEF SentOK
  <2>4. CASE q = p
    <3>1. DoneBy(k, p)'
      BY <1>6, <1>7 DEF DoneBy
    <3>2. hit[p[1]].fate # "backlog"
      <4>1. HitOK(p[1]) /\ hit[p[1]].at \in Nat /\ lastSeen \in Nat
        BY <1>7 DEF OpensInv, TypeOK
      <4>. QED
        BY <1>7, <4>1 DEF HitOK
    <3>. QED
      BY <1>2, <1>7, <1>9, <2>1, <2>3, <2>4, <3>1, <3>2 DEF SentOK
  <2>5. CASE q # p
    <3>1. DoneBy(k, q) => DoneBy(k, q)'
      BY <1>6 DEF DoneBy
    <3>. QED
      BY <1>2, <1>9, <2>1, <2>2, <2>5, <3>1 DEF SentOK
  <2>. QED
    BY <2>4, <2>5
<1>15. ASSUME NEW q \in owed' PROVE OwedOK(q)'
  <2>1. OwedOK(q) /\ q \in Hits \X Devices /\ q[2] \in rows'
    BY <1>8 DEF OpensInv, TypeOK, OwedOK
  <2>2. \A j \in Slots \ {k} : ~ DoneBy(j, q)'
    BY <1>5 DEF DoneBy
  <2>3. DoneBy(k, q)' => DoneBy(k, q) \/ q = p
    BY <1>2, <1>6 DEF DoneBy
  <2>4. sent[q] \in Nat /\ sent[q] <= sent'[q] /\ (q = p => sent'[q] > 0)
    BY <1>9, <2>1 DEF OpensInv, TypeOK
  <2>. QED
    BY <1>2, <1>9, <2>1, <2>2, <2>3, <2>4 DEF OwedOK
<1>. QED
  BY <1>10, <1>11, <1>12, <1>13, <1>14, <1>15 DEF OpensInv

\* The watermark passes what the cycle held, which has been sent, and what it
\* did not hold and may pass unseen.
LEMMA WriteKeeps ==
  ASSUME OpensInv, NEW k \in Slots, Write(k)
  PROVE  OpensInv' /\ lastSeen <= lastSeen'
<1>1. PICK t \in 1..clock : IsNewest(t, ticks[k].page) /\ lastSeen' = t
  BY DEF Write
<1>2. /\ AtPc(k, "write") /\ TickOK(k) /\ Becomes(k, NoTick) /\ NoTick \in TickStates
      /\ UNCHANGED <<clock, hit, rows, proc, sent, owed>> /\ fails' = fails /\ lapses' = lapses
      /\ lastSeen \in Nat \cup {-1} /\ ticks[k].page \subseteq Recorded
  BY DEF Write, Ends, service, counts, OpensInv, TypeOK, TickOK, NoTick, TickStates, Pcs
<1>3. PICK g \in ticks[k].page : t = At(g)
  BY <1>1 DEF IsNewest
<1>4. /\ t \in Nat /\ g \in Hits /\ lastSeen < t
      /\ \A h \in Hits : hit[h].at \in Nat
      /\ \A h \in ticks[k].page : At(h) <= t
  BY <1>1, <1>2, <1>3 DEF TickOK, IsNewest, OpensInv, TypeOK
<1>5. /\ ticks'[k] = NoTick
      /\ \A j \in Slots \ {k} : ticks'[j] = ticks[j] /\ ticks[j].pc = "none"
  BY <1>2, OnlyTick
<1>6. TypeOK'
  BY <1>1, <1>2, <1>4 DEF OpensInv, TypeOK, Becomes, TickStates
<1>7. OneTick'
  BY <1>2, <1>5 DEF OneTick, OpensInv, NoTick
<1>8. ASSUME NEW j \in Slots PROVE TickOK(j)'
  <2>1. CASE j = k
    BY <1>5, <2>1 DEF TickOK, NoTick
  <2>2. CASE j # k
    BY <1>2, <1>5, <2>2 DEF OpensInv, TickOK
  <2>. QED
    BY <2>1, <2>2
<1>9. \A h \in Hits : HitOK(h)'
  BY <1>1, <1>2, <1>4 DEF OpensInv, HitOK
<1>10. ASSUME NEW p \in Hits \X Devices PROVE SentOK(p)'
  <2>1. SentOK(p)
    BY DEF OpensInv
  <2>2. ASSUME t < At(p[1]) PROVE sent[p] <= lapses
    <3>1. lastSeen < At(p[1]) /\ p[1] \notin ticks[k].page
      BY <1>2, <1>4, <2>2
    <3>2. \A j \in Slots : ~ DoneBy(j, p)
      BY <1>5, <3>1 DEF DoneBy
    <3>. QED
      BY <2>1, <3>1, <3>2 DEF SentOK
  <2>. QED
    BY <1>1, <1>2, <1>4, <2>1, <2>2 DEF SentOK
<1>11. ASSUME NEW p \in owed PROVE OwedOK(p)'
  <2>1. OwedOK(p) /\ p \in Hits \X Devices /\ p[1] \in Recorded
    BY DEF OpensInv, TypeOK, OwedOK
  <2>2. \A j \in Slots : ~ DoneBy(j, p)'
    BY <1>5 DEF DoneBy, NoTick
  <2>3. ASSUME hit[p[1]].fate = "none", At(p[1]) <= t PROVE sent[p] > 0
    <3>1. CASE At(p[1]) <= lastSeen
      BY <2>1, <2>3, <3>1 DEF OwedOK
    <3>2. CASE lastSeen < At(p[1])
      <4>1. p[1] \in ticks[k].page
        BY <1>2, <1>3, <1>4, <2>1, <2>3, <3>2 DEF TickOK
      <4>2. DoneBy(k, p)
        BY <1>2, <4>1 DEF DoneBy, TickOK
      <4>. QED
        BY <2>1, <2>3, <4>2 DEF OwedOK
    <3>. QED
      BY <1>2, <1>4, <2>1, <3>1, <3>2
  <2>. QED
    BY <1>1, <1>2, <2>1, <2>2, <2>3 DEF OwedOK
<1>. QED
  BY <1>1, <1>2, <1>4, <1>6, <1>7, <1>8, <1>9, <1>10, <1>11 DEF OpensInv

\* A hit takes its time.
LEMMA StampKeeps == ASSUME OpensInv, NEW h \in Hits, Stamp(h) PROVE OpensInv'
<1>1. /\ hit[h].stage = "none" /\ hit' = [hit EXCEPT ![h].stage = "stamped", ![h].at = clock]
      /\ UNCHANGED <<clock, rows, proc, ticks, lastSeen, sent, owed, fails, lapses>>
      /\ hit[h] \in HitStates /\ clock \in Nat \ {0}
  BY DEF Stamp, counts, OpensInv, TypeOK, HitStates
<1>2. [hit[h] EXCEPT !.stage = "stamped", !.at = clock] \in HitStates
  BY <1>1 DEF HitStates, Stages
<1>3. /\ hit' \in [Hits -> HitStates]
      /\ hit'[h].stage = "stamped" /\ hit'[h].at = clock /\ hit'[h].fate = hit[h].fate
      /\ \A g \in Hits \ {h} : hit'[g] = hit[g]
  BY <1>1, <1>2 DEF OpensInv, TypeOK, HitStates
<1>4. TypeOK'
  BY <1>1, <1>3 DEF OpensInv, TypeOK, HitStates
<1>5. OneTick'
  BY <1>1 DEF OpensInv, OneTick
<1>6. Recorded' = Recorded /\ h \notin Recorded
  BY <1>1, <1>3
<1>7. ASSUME NEW k \in Slots PROVE TickOK(k)'
  <2>1. TickOK(k) /\ \A g \in Recorded : hit'[g] = hit[g]
    BY <1>3, <1>6 DEF OpensInv
  <2>. QED
    BY <1>1, <1>6, <2>1 DEF TickOK
<1>8. \A g \in Hits : HitOK(g)'
  BY <1>1, <1>3 DEF OpensInv, HitOK
<1>9. ASSUME NEW p \in Hits \X Devices PROVE SentOK(p)'
  <2>1. SentOK(p) /\ lapses \in Nat
    BY DEF OpensInv, TypeOK
  <2>2. CASE p[1] = h
    <3>1. sent[p] = 0
      BY <1>1, <2>1, <2>2 DEF SentOK
    <3>. QED
      BY <1>1, <2>1, <3>1 DEF SentOK
  <2>3. CASE p[1] # h
    BY <1>1, <1>3, <2>1, <2>3 DEF SentOK, DoneBy
  <2>. QED
    BY <2>2, <2>3
<1>10. ASSUME NEW p \in owed PROVE OwedOK(p)'
  <2>1. OwedOK(p) /\ p \in Hits \X Devices
    BY DEF OpensInv, TypeOK
  <2>2. p[1] \in Recorded /\ hit'[p[1]] = hit[p[1]]
    BY <1>3, <1>6, <2>1 DEF OwedOK
  <2>. QED
    BY <1>1, <1>6, <2>1, <2>2 DEF OwedOK, DoneBy
<1>. QED
  BY <1>1, <1>4, <1>5, <1>7, <1>8, <1>9, <1>10 DEF OpensInv

\* A hit is recorded.  If no poll has been shown as late a time, it is ahead
\* of the watermark and of every page.
LEMMA RecordKeeps == ASSUME OpensInv, NEW h \in Hits, Record(h) PROVE OpensInv'
<1>1. /\ hit[h].stage = "stamped"
      /\ hit' = [hit EXCEPT ![h].stage = "recorded", ![h].fate = FateAt(At(h))]
      /\ owed' = owed \cup {p \in {h} \X rows : h \in Worthy}
      /\ UNCHANGED <<clock, rows, proc, ticks, lastSeen, sent, fails, lapses>>
      /\ hit[h] \in HitStates
  BY DEF Record, counts, OpensInv, TypeOK, HitStates
<1>2. FateAt(At(h)) \in {"none", "late", "tie"}
  BY DEF FateAt
<1>3. ASSUME NEW f \in {"none", "late", "tie"}
      PROVE  [hit[h] EXCEPT !.stage = "recorded", !.fate = f] \in HitStates
  BY <1>1 DEF HitStates, Stages, Fates
<1>4. /\ hit' \in [Hits -> HitStates]
      /\ hit'[h].stage = "recorded" /\ hit'[h].at = hit[h].at /\ hit'[h].fate = FateAt(At(h))
      /\ \A g \in Hits \ {h} : hit'[g] = hit[g]
  <2> DEFINE f == FateAt(At(h))
  <2>1. f \in {"none", "late", "tie"} /\ hit' = [hit EXCEPT ![h].stage = "recorded", ![h].fate = f]
    BY <1>1, <1>2
  <2>2. hit \in [Hits -> HitStates]
    BY DEF OpensInv, TypeOK, HitStates
  <2> HIDE DEF f
  <2>3. /\ hit' \in [Hits -> HitStates]
        /\ hit'[h].stage = "recorded" /\ hit'[h].at = hit[h].at /\ hit'[h].fate = f
        /\ \A g \in Hits \ {h} : hit'[g] = hit[g]
    BY <1>3, <2>1, <2>2 DEF HitStates
  <2>. QED
    BY <2>3 DEF f
<1>5. /\ lastSeen \in Nat \cup {-1}
      /\ \A g \in Hits : hit[g].at \in Nat
      /\ \A k \in Slots : ticks[k].page \subseteq Hits
  BY DEF OpensInv, TypeOK
<1>6. ASSUME FateAt(At(h)) = "none"
      PROVE  lastSeen < At(h) /\ \A k \in Slots : \A g \in ticks[k].page : At(g) < At(h)
  <2>1. \A s \in Shown : ~ (At(h) < s) /\ s # At(h)
    BY <1>6 DEF FateAt
  <2>2. lastSeen \in Shown /\ \A k \in Slots : \A g \in ticks[k].page : At(g) \in Shown
    BY DEF Shown
  <2>. QED
    BY <1>5, <2>1, <2>2
<1>7. Recorded' = Recorded \cup {h} /\ h \notin Recorded
  BY <1>1, <1>4
<1>8. TypeOK'
  BY <1>1, <1>4 DEF OpensInv, TypeOK, HitStates
<1>9. OneTick'
  BY <1>1 DEF OpensInv, OneTick
<1>10. ASSUME NEW k \in Slots PROVE TickOK(k)'
  <2>1. TickOK(k) /\ (\A g \in Recorded : hit'[g] = hit[g]) /\ ticks[k].page \subseteq Recorded
    BY <1>4, <1>7 DEF OpensInv, TickOK
  <2>. QED
    BY <1>1, <1>4, <1>6, <1>7, <2>1 DEF TickOK
<1>11. \A g \in Hits : HitOK(g)'
  BY <1>1, <1>2, <1>4 DEF OpensInv, HitOK
<1>12. ASSUME NEW p \in Hits \X Devices PROVE SentOK(p)'
  <2>1. SentOK(p) /\ lapses \in Nat
    BY DEF OpensInv, TypeOK
  <2>2. CASE p[1] = h
    <3>1. sent[p] = 0
      BY <1>1, <2>1, <2>2 DEF SentOK
    <3>. QED
      BY <1>1, <2>1, <3>1 DEF SentOK
  <2>3. CASE p[1] # h
    BY <1>1, <1>4, <2>1, <2>3 DEF SentOK, DoneBy
  <2>. QED
    BY <2>2, <2>3
<1>13. ASSUME NEW p \in owed' PROVE OwedOK(p)'
  <2>1. CASE p \in owed
    <3>1. OwedOK(p) /\ p \in Hits \X Devices
      BY <2>1 DEF OpensInv, TypeOK
    <3>2. p[1] \in Recorded /\ hit'[p[1]] = hit[p[1]]
      BY <1>4, <1>7, <3>1 DEF OwedOK
    <3>. QED
      BY <1>1, <1>7, <3>1, <3>2 DEF OwedOK, DoneBy
  <2>2. CASE p \in {h} \X rows /\ h \in Worthy
    <3>1. \A k \in Slots : h \notin ticks[k].page
      BY <1>7 DEF OpensInv, TickOK
    <3>2. \A k \in Slots : ~ DoneBy(k, p)'
      BY <1>1, <2>2, <3>1 DEF DoneBy
    <3>. QED
      BY <1>1, <1>4, <1>5, <1>6, <1>7, <2>2, <3>2 DEF OwedOK
  <2>. QED
    BY <1>1, <2>1, <2>2
<1>. QED
  BY <1>1, <1>8, <1>9, <1>10, <1>11, <1>12, <1>13 DEF OpensInv

\* Devices come and go, the clock moves, the process stops and starts.
LEMMA DevicesKeep ==
  ASSUME OpensInv, NEW d \in Devices, Subscribe(d) \/ Unsubscribe(d)
  PROVE  OpensInv'
<1>1. /\ UNCHANGED <<clock, hit, proc, ticks, lastSeen, sent, fails, lapses>>
      /\ owed' \subseteq owed /\ rows' \subseteq Devices
      /\ \A p \in owed' : p[2] \in rows => p[2] \in rows'
  BY DEF Subscribe, Unsubscribe, Forget, service, counts, OpensInv, TypeOK
<1>2. TypeOK' /\ OneTick'
  BY <1>1 DEF OpensInv, TypeOK, OneTick
<1>3. \A k \in Slots : TickOK(k)'
  BY <1>1 DEF OpensInv, TickOK
<1>4. \A h \in Hits : HitOK(h)'
  BY <1>1 DEF OpensInv, HitOK
<1>5. \A p \in Hits \X Devices : SentOK(p)'
  BY <1>1 DEF OpensInv, SentOK, DoneBy
<1>6. \A p \in owed' : OwedOK(p)'
  BY <1>1 DEF OpensInv, OwedOK, DoneBy
<1>. QED
  BY <1>2, <1>3, <1>4, <1>5, <1>6 DEF OpensInv

\* A process that ends takes its cycle with it: pushes already out make it a
\* lapse, and a graceful stop has waited for them.
LEMMA ProcessKeeps ==
  ASSUME OpensInv, PassTime \/ Stop \/ Close \/ Crash
  PROVE  OpensInv'
<1>1. /\ UNCHANGED <<hit, rows, lastSeen, sent, owed>>
      /\ clock' \in Nat \ {0} /\ fails' \in Nat /\ lapses' \in Nat /\ lapses \in Nat
      /\ proc' \in {"up", "stopping", "down"}
      /\ \/ ticks' = ticks /\ lapses' = lapses /\ (proc' = "down" => proc = "down" \/ \A k \in Slots : AtPc(k, "none"))
         \/ ticks' = [k \in Slots |-> NoTick] /\ lapses' = lapses + 1
  BY DEF PassTime, Stop, Close, Crash, Lapsing, service, counts, OpensInv, TypeOK
<1>2. CASE ticks' = ticks /\ lapses' = lapses
           /\ (proc' = "down" => proc = "down" \/ \A k \in Slots : AtPc(k, "none"))
  BY <1>1, <1>2 DEF OpensInv, TypeOK, OneTick, TickOK, HitOK, SentOK, OwedOK, DoneBy
<1>3. CASE ticks' = [k \in Slots |-> NoTick] /\ lapses' = lapses + 1
  <2>1. \A k \in Slots : ticks'[k] = NoTick
    BY <1>3
  <2>2. TypeOK'
    BY <1>1, <1>3 DEF OpensInv, TypeOK, NoTick, Pcs
  <2>3. OneTick' /\ \A k \in Slots : TickOK(k)'
    BY <2>1 DEF OneTick, TickOK, NoTick
  <2>4. \A h \in Hits : HitOK(h)'
    BY <1>1 DEF OpensInv, HitOK
  <2>5. \A p \in Hits \X Devices : SentOK(p)'
    BY <1>1, <1>3 DEF OpensInv, SentOK, TypeOK
  <2>6. \A p \in owed : OwedOK(p)'
    BY <1>1, <2>1 DEF OpensInv, OwedOK, DoneBy, NoTick
  <2>. QED
    BY <1>1, <2>2, <2>3, <2>4, <2>5, <2>6 DEF OpensInv
<1>. QED
  BY <1>1, <1>2, <1>3

LEMMA BootKeeps == ASSUME OpensInv, Boot PROVE OpensInv'
<1> DEFINE r == [ticks[1] EXCEPT !.pc = "fetch"]
<1>1. /\ ticks' = [ticks EXCEPT ![1] = r]
      /\ ticks[1] \in TickStates /\ proc' = "up"
      /\ \A k \in Slots : AtPc(k, "none") /\ ticks[k].page = {} /\ ticks[k].todo = {}
      /\ UNCHANGED <<clock, hit, rows, lastSeen, sent, owed, fails, lapses>>
  BY DEF Boot, Goto, service, counts, OpensInv, TypeOK, OneTick, TickOK, TickStates
<1>2. r \in TickStates
  BY <1>1, GotoState DEF Pcs
<1>3. /\ ticks'[1].pc = "fetch" /\ ticks'[1].page = {} /\ ticks'[1].todo = {}
      /\ ticks'[2] = ticks[2]
  BY <1>1 DEF OpensInv, TypeOK, TickStates
<1> HIDE DEF r
<1>4. TypeOK'
  BY <1>1, <1>2 DEF OpensInv, TypeOK, TickStates
<1>5. OneTick' /\ \A k \in Slots : TickOK(k)'
  BY <1>1, <1>3 DEF OneTick, TickOK
<1>6. \A h \in Hits : HitOK(h)'
  BY <1>1 DEF OpensInv, HitOK
<1>7. \A p \in Hits \X Devices : \A k \in Slots : ~ DoneBy(k, p) /\ ~ DoneBy(k, p)'
  BY <1>1, <1>3 DEF DoneBy
<1>8. \A p \in Hits \X Devices : SentOK(p)'
  BY <1>1, <1>7 DEF OpensInv, SentOK
<1>9. ASSUME NEW p \in owed PROVE OwedOK(p)'
  <2>1. OwedOK(p) /\ p \in Hits \X Devices
    BY DEF OpensInv, TypeOK
  <2>. QED
    BY <1>1, <1>7, <2>1 DEF OwedOK
<1>. QED
  BY <1>1, <1>4, <1>5, <1>6, <1>8, <1>9 DEF OpensInv

LEMMA NextKeepsOpens == ASSUME OpensInv, [Next]_vars PROVE OpensInv'
<1>1. CASE UNCHANGED vars
  BY <1>1 DEF vars, counts, OpensInv, TypeOK, OneTick, TickOK, HitOK, SentOK, OwedOK, DoneBy
<1>2. CASE Next
  BY <1>2, RunKeeps, FetchKeeps, ReadKeeps, BaselineKeeps, LoadKeeps, SendKeeps, WriteKeeps,
     FaultKeeps, StampKeeps, RecordKeeps, DevicesKeep, ProcessKeeps, BootKeeps
     DEF Next, TickStep
<1>. QED
  BY <1>1, <1>2

\* The invariant of the poll: opens-poll.ts's re-entrancy guard, its order of
\* sending and writing, and its strict comparison, together.
THEOREM OpensInvariant == Spec => []OpensInv
<1>. QED
  BY InitOpens, NextKeepsOpens, PTL DEF Spec

\* No hit is announced to a device twice, but for a crash or a lost watermark.
THEOREM NoSecondBuzz == Spec => []NoBuzzTwice
<1>1. OpensInv => NoBuzzTwice
  BY DEF OpensInv, SentOK, NoBuzzTwice
<1>. QED
  BY <1>1, OpensInvariant, PTL

\* The watermark passes nothing that a device is owed and was not sent.
THEOREM NoOpenIsSkipped == Spec => []NothingIsSkipped
<1>1. OpensInv => NothingIsSkipped
  BY DEF OpensInv, OwedOK, NothingIsSkipped
<1>. QED
  BY <1>1, OpensInvariant, PTL

\* The first run announces nothing of what was there before it.
THEOREM TheBacklogIsSilent == Spec => []BacklogIsSilent
<1>1. OpensInv => BacklogIsSilent
  BY DEF OpensInv, SentOK, BacklogIsSilent
<1>. QED
  BY <1>1, OpensInvariant, PTL

\* The watermark in sync_state only ever advances.
THEOREM TheWatermarkAdvances == Spec => WatermarkOnlyAdvances
<1>1. ASSUME OpensInv, [Next]_vars PROVE [lastSeen <= lastSeen']_lastSeen
  <2>1. ASSUME NEW k \in Slots, Baseline(k) PROVE lastSeen <= lastSeen'
    BY <1>1, <2>1 DEF Baseline, OpensInv, TypeOK, TickOK
  <2>2. ASSUME NEW k \in Slots, Write(k) PROVE lastSeen <= lastSeen'
    BY <1>1, <2>2, WriteKeeps
  <2>3. (\E k \in Slots : Baseline(k) \/ Write(k)) \/ UNCHANGED lastSeen
    BY <1>1 DEF Next, vars, counts, TickStep, TickFault, PassTime, Stamp, Record, Subscribe,
       Unsubscribe, RunTick, Fetch, Read, Load, Send, FetchFails, ReadFails, BaselineFails,
       LoadFails, WriteFails, Stop, Close, Crash, Boot
  <2>. QED
    BY <2>1, <2>2, <2>3
<1>. QED
  BY <1>1, OpensInvariant, PTL DEF Spec, WatermarkOnlyAdvances

(* What the watermark, the pages and the pushes say of each other, and     *)
(* that the first run announces nothing that was there before it.          *)
THEOREM BacklogHolds == Spec => []BacklogInv
  BY OpensInvariant, TheBacklogIsSilent, PTL DEF BacklogInv
=============================================================================
