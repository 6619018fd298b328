-------------------------- MODULE KeyedMutexProofs --------------------------
(* Theorems about the per-account mutex, for every set of calls and keys. *)
EXTENDS KeyedMutex, TLAPS

USE DEF Outcome, Phase

\* The empty map is a chain.
LEMMA ChainInit == Init => ChainInv
  BY NoCallAssumption, NoKeyAssumption
     DEF Init, ChainInv, TypeOK, TicketsNumberCalls, TailIsLast, ChainedOntoLast,
         ServedInOrder, EarlierCall, Settled

\* run() puts its call at the end of the key's chain.
LEMMA RunKeepsChain ==
  ASSUME ChainInv, NEW c \in Calls, NEW k \in Keys, Run(c, k)
  PROVE  ChainInv'
<1> USE NoCallAssumption, NoKeyAssumption DEF ChainInv
<1>1. TypeOK'
  BY DEF TypeOK, Run
<1>2. TicketsNumberCalls'
  BY DEF TypeOK, Run, TicketsNumberCalls
<1>3. TailIsLast'
  BY DEF TypeOK, Run, TicketsNumberCalls, TailIsLast
<1>4. ChainedOntoLast'
  <2> SUFFICES ASSUME NEW e \in Calls, NEW d \in Calls, EarlierCall(d, e)'
               PROVE  /\ previous'[e] # NoCall
                      /\ EarlierCall(previous[e], e)'
                      /\ (ticket[d] <= ticket[previous[e]])'
    BY DEF ChainedOntoLast
  <2>1. CASE e = c
    <3>1. d # c /\ key[d] = k
      BY <2>1 DEF Run, TypeOK, EarlierCall
    <3>2. tails[k] \in Calls /\ key[tails[k]] = k /\ ticket[d] <= ticket[tails[k]]
      BY <3>1 DEF TailIsLast, TypeOK
    <3>3. ticket[tails[k]] # 0 /\ tails[k] # c /\ ticket[tails[k]] <= made
      BY <3>2 DEF TicketsNumberCalls, TypeOK, Run
    <3>. QED
      BY <2>1, <3>1, <3>2, <3>3 DEF Run, TypeOK, EarlierCall
  <2>2. CASE e # c
    <3>1. d # c
      BY <2>2 DEF Run, TypeOK, EarlierCall, TicketsNumberCalls
    <3>2. EarlierCall(d, e)
      BY <2>2, <3>1 DEF Run, TypeOK, EarlierCall
    <3>3. /\ previous[e] \in Calls
          /\ EarlierCall(previous[e], e)
          /\ ticket[d] <= ticket[previous[e]]
      BY <3>2 DEF ChainedOntoLast, TypeOK
    <3>4. previous[e] # c
      BY <3>3 DEF EarlierCall, TicketsNumberCalls, Run
    <3>. QED
      BY <2>2, <3>1, <3>3, <3>4 DEF Run, TypeOK, EarlierCall
  <2>. QED
    BY <2>1, <2>2
<1>5. ServedInOrder'
  <2> SUFFICES ASSUME NEW e \in Calls, NEW d \in Calls,
                      phase'[e] \in {"running"} \cup Outcome, EarlierCall(d, e)'
               PROVE  Settled(d)'
    BY DEF ServedInOrder
  <2>1. e # c
    BY DEF Run, TypeOK
  <2>2. d # c
    BY <2>1 DEF Run, TypeOK, EarlierCall, TicketsNumberCalls
  <2>3. Settled(d)
    BY <2>1, <2>2 DEF Run, TypeOK, EarlierCall, ServedInOrder
  <2>. QED
    BY <2>2, <2>3 DEF Run, TypeOK, Settled
<1>. QED
  BY <1>1, <1>2, <1>3, <1>4, <1>5

\* The one promise a call waits for settles last among its predecessors.
LEMMA PreviousIsLastToSettle ==
  ASSUME ChainInv, NEW c \in Calls, PreviousSettled(c),
         NEW d \in Calls, EarlierCall(d, c)
  PROVE  Settled(d)
<1> USE NoCallAssumption DEF ChainInv
<1>1. /\ previous[c] \in Calls
      /\ EarlierCall(previous[c], c)
      /\ ticket[d] <= ticket[previous[c]]
      /\ Settled(previous[c])
  BY DEF ChainedOntoLast, TypeOK, PreviousSettled
<1>2. CASE ticket[d] = ticket[previous[c]]
  BY <1>1, <1>2 DEF TicketsNumberCalls, EarlierCall
<1>3. CASE ticket[d] # ticket[previous[c]]
  <2>1. EarlierCall(d, previous[c])
    BY <1>1, <1>3 DEF EarlierCall, TypeOK
  <2>. QED
    BY <1>1, <2>1 DEF ServedInOrder, Settled
<1>. QED
  BY <1>2, <1>3

\* fn is called when its predecessor is over, so when all of them are.
LEMMA StartKeepsChain ==
  ASSUME ChainInv, NEW c \in Calls, Start(c)
  PROVE  ChainInv'
<1> USE NoCallAssumption, NoKeyAssumption DEF ChainInv
<1>1. TypeOK' /\ TicketsNumberCalls'
  BY DEF TypeOK, Start, TicketsNumberCalls
<1>2. TailIsLast' /\ ChainedOntoLast'
  BY DEF Start, TailIsLast, ChainedOntoLast, EarlierCall
<1>3. ServedInOrder'
  <2> SUFFICES ASSUME NEW e \in Calls, NEW d \in Calls,
                      phase'[e] \in {"running"} \cup Outcome, EarlierCall(d, e)
               PROVE  Settled(d)'
    BY DEF ServedInOrder, Start, EarlierCall
  <2>1. Settled(d)
    <3>1. CASE e = c
      BY <3>1, PreviousIsLastToSettle DEF Start
    <3>2. CASE e # c
      BY <3>2 DEF ServedInOrder, Start, TypeOK
    <3>. QED
      BY <3>1, <3>2
  <2>. QED
    BY <2>1 DEF Start, TypeOK, Settled
<1>. QED
  BY <1>1, <1>2, <1>3

\* A task ends.
LEMMA SettleKeepsChain ==
  ASSUME ChainInv, NEW c \in Calls, NEW outcome \in Outcome, Settle(c, outcome)
  PROVE  ChainInv'
<1> USE NoCallAssumption, NoKeyAssumption DEF ChainInv
<1>1. TypeOK' /\ TicketsNumberCalls'
  BY DEF TypeOK, Settle, TicketsNumberCalls
<1>2. TailIsLast' /\ ChainedOntoLast'
  BY DEF Settle, TailIsLast, ChainedOntoLast, EarlierCall
<1>3. ServedInOrder'
  BY DEF Settle, ServedInOrder, EarlierCall, Settled, TypeOK
<1>. QED
  BY <1>1, <1>2, <1>3

\* The chain invariant is inductive: a call of run() waits for one promise and
\* thereby for every earlier call of its key (keyed-mutex.ts:22-36).
THEOREM ChainInvariant == Spec => []ChainInv
<1>1. ASSUME ChainInv, [Next]_vars
      PROVE  ChainInv'
  <2>1. CASE \E c \in Calls, k \in Keys : Run(c, k)
    BY <1>1, <2>1, RunKeepsChain
  <2>2. CASE \E c \in Calls : Start(c)
    BY <1>1, <2>2, StartKeepsChain
  <2>3. CASE \E c \in Calls, outcome \in Outcome : Settle(c, outcome)
    BY <1>1, <2>3, SettleKeepsChain
  <2>4. CASE UNCHANGED vars
    BY <1>1, <2>4 DEF vars, ChainInv, TypeOK, TicketsNumberCalls, TailIsLast,
                      ChainedOntoLast, ServedInOrder, EarlierCall, Settled
  <2>. QED
    BY <1>1, <2>1, <2>2, <2>3, <2>4 DEF Next
<1>. QED
  BY <1>1, ChainInit, PTL DEF Spec

\* Two tasks of one account never run together, however many calls there are
\* and whichever of them fail (keyed-mutex.ts:9-15).
THEOREM MutexIsExclusive == Spec => []MutualExclusion
<1>1. ChainInv => MutualExclusion
  <2> SUFFICES ASSUME ChainInv, NEW c \in Calls, NEW d \in Calls,
                      phase[c] = "running", phase[d] = "running", key[c] = key[d]
               PROVE  c = d
    BY DEF MutualExclusion
  <2>1. ticket[c] \in Nat \ {0} /\ ticket[d] \in Nat \ {0}
    BY DEF ChainInv, TypeOK, TicketsNumberCalls
  <2>2. ~ EarlierCall(c, d) /\ ~ EarlierCall(d, c)
    BY DEF ChainInv, ServedInOrder, Settled
  <2>3. ticket[c] = ticket[d]
    BY <2>1, <2>2 DEF EarlierCall
  <2>. QED
    BY <2>1, <2>3 DEF ChainInv, TicketsNumberCalls
<1>. QED
  BY <1>1, ChainInvariant, PTL

\* The chain of promises implements the first-come first-served lock.
THEOREM MutexImplementsFifoLock == Spec => ImplementsFifoLock
<1> USE NoCallAssumption, NoKeyAssumption
<1>1. Init => Abstract!Init
  BY DEF Init, Abstract!Init
<1>2. ASSUME ChainInv, [Next]_vars
      PROVE  [Abstract!Next]_(Abstract!vars)
  <2>1. ASSUME NEW c \in Calls, NEW k \in Keys, Run(c, k)
        PROVE  Abstract!Request(c, k)
    BY <1>2, <2>1 DEF Run, Abstract!Request, ChainInv, TypeOK, TicketsNumberCalls
  <2>2. ASSUME NEW c \in Calls, Start(c)
        PROVE  Abstract!Begin(c)
    <3>1. \A d \in Calls : EarlierCall(d, c) => Settled(d)
      BY <1>2, <2>2, PreviousIsLastToSettle DEF Start
    <3>. QED
      BY <2>2, <3>1 DEF Start, Abstract!Begin, Abstract!Earlier, Abstract!Over,
                        EarlierCall, Settled
  <2>3. ASSUME NEW c \in Calls, NEW outcome \in Outcome, Settle(c, outcome)
        PROVE  Abstract!End(c, outcome)
    BY <2>3 DEF Settle, Abstract!End
  <2>4. CASE UNCHANGED vars
    BY <2>4 DEF vars, Abstract!vars
  <2>. QED
    BY <1>2, <2>1, <2>2, <2>3, <2>4 DEF Next, Abstract!Next
<1>. QED
  BY <1>1, <1>2, ChainInvariant, PTL DEF Spec, ImplementsFifoLock, Abstract!Spec

(* The tasks of an account run one at a time, because each waits for the   *)
(* one before it in the map.                                               *)
THEOREM MutexHolds == Spec => []MutexInv
  BY ChainInvariant, MutexIsExclusive, PTL DEF MutexInv
=============================================================================
