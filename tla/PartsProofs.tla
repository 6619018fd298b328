----------------------------- MODULE PartsProofs -----------------------------
(***************************************************************************)
(* What the parts of Parts keep, one section for each: the inductive       *)
(* invariant its module states holds initially (...Init) and is kept by    *)
(* every step (StepKeeps...), for every size its assumption allows, and the*)
(* promises of the part follow from it or from the step.  MCPartsProofs has*)
(* the rest of the parts and carries all of it over to the composition.    *)
(*                                                                         *)
(* An instance has the operators of FiniteSets as its own, which is why    *)
(* some sections begin by saying that they are the usual ones.             *)
(***************************************************************************)
EXTENDS Parts, FiniteSetTheorems, SequenceTheorems, TLAPS

-----------------------------------------------------------------------------
(* The cache of message bodies: the least recently used cache implements   *)
(* BoundedCache, for every set of keys and bodies, every size function and *)
(* every budget: whatever the eviction loop picks, a lookup finds the last *)
(* body stored or nothing.                                                 *)

(* The part of the type invariant the refinement needs: what is stored     *)
(* under a key of the cache is a body with a size.                         *)
EntriesOK ==
  /\ Present \subseteq CacheKeys
  /\ entries = [k \in Present |-> entries[k]]
  /\ \A k \in Present : entries[k].message \in CachedBodies

(* Every operation keeps the entries well-formed.                          *)
LEMMA EntriesStep == EntriesOK /\ [Next]_vars => EntriesOK'
<1> SUFFICES ASSUME EntriesOK, [Next]_vars PROVE EntriesOK'
  OBVIOUS
<1>1. ASSUME NEW k \in CacheKeys, Get(k) PROVE EntriesOK'
  BY <1>1 DEF EntriesOK, Get, Present
<1>2. ASSUME NEW k \in CacheKeys, Evict(k) PROVE EntriesOK'
  BY <1>2 DEF EntriesOK, Evict, Present
<1>3. ASSUME NEW k \in CacheKeys, NEW v \in CachedBodies, Set(k, v) PROVE EntriesOK'
  <2> DEFINE lost == Overflow(k, Bytes[v])
             kept == (Present \ lost) \union {k}
  <2>1. entries' = [x \in kept |->
          IF x = k THEN [message |-> v, bytes |-> Bytes[v]] ELSE entries[x]]
    BY <1>3 DEF Set
  <2>2. Present' = kept
    BY <2>1 DEF Present
  <2>3. \A x \in kept : entries'[x].message \in CachedBodies
    <3> SUFFICES ASSUME NEW x \in kept PROVE entries'[x].message \in CachedBodies
      OBVIOUS
    <3>1. CASE x = k
      BY <2>1, <3>1
    <3>2. CASE x # k
      BY <2>1, <3>2 DEF EntriesOK
    <3> QED BY <3>1, <3>2
  <2>4. Present \subseteq CacheKeys
    BY DEF EntriesOK
  <2> QED BY <2>1, <2>2, <2>3, <2>4 DEF EntriesOK
<1>4. CASE UNCHANGED vars
  BY <1>4 DEF EntriesOK, vars, Present
<1> QED BY <1>1, <1>2, <1>3, <1>4 DEF Next

(* The entries are well-formed in every reachable state.                   *)
THEOREM EntriesAlwaysOK == Spec => []EntriesOK
<1>1. Init => EntriesOK
  BY DEF Init, EntriesOK, Present
<1> QED BY <1>1, EntriesStep, PTL DEF Spec

(* Every step of the detailed cache is a step of the abstract one or a     *)
(* stutter: a lookup changes nothing that can be found, an eviction drops  *)
(* one key, and a store puts one body and drops what the loop pushed out.  *)
LEMMA StepRefines == EntriesOK /\ [Next]_vars => [Abstract!Next]_Content
<1> SUFFICES ASSUME EntriesOK, [Next]_vars PROVE Abstract!Next \/ Content' = Content
  OBVIOUS
<1>1. ASSUME NEW k \in CacheKeys, Get(k) PROVE Content' = Content
  BY <1>1 DEF Get, Content, Present
<1>2. ASSUME NEW k \in CacheKeys, Evict(k) PROVE Abstract!Next
  <2>1. Present' = Present \ {k}
    BY <1>2 DEF Evict, Present
  <2>2. Content' = [Content EXCEPT ![k] = None]
    BY <1>2, <2>1 DEF Evict, Content
  <2> QED BY <2>2 DEF Abstract!Next, Abstract!Drop
<1>3. ASSUME NEW k \in CacheKeys, NEW v \in CachedBodies, Set(k, v) PROVE Abstract!Next
  <2> DEFINE lost == Overflow(k, Bytes[v])
             kept == (Present \ lost) \union {k}
  <2>1. entries' = [x \in kept |->
          IF x = k THEN [message |-> v, bytes |-> Bytes[v]] ELSE entries[x]]
    BY <1>3 DEF Set
  <2>2. Present' = kept
    BY <2>1 DEF Present
  <2>3. lost \subseteq CacheKeys \ {k}
    BY DEF Overflow, EntriesOK
  <2>4. Content' = [x \in CacheKeys |-> IF x = k THEN v
                                   ELSE IF x \in lost THEN None ELSE Content[x]]
    <3> SUFFICES ASSUME NEW x \in CacheKeys
                 PROVE (IF x \in Present' THEN entries'[x].message ELSE None)
                       = IF x = k THEN v
                         ELSE IF x \in lost THEN None ELSE Content[x]
      BY DEF Content
    <3>1. CASE x = k
      BY <2>1, <2>2, <3>1
    <3>2. CASE x # k /\ x \in lost
      BY <2>2, <3>2
    <3>3. CASE x # k /\ x \notin lost /\ x \in Present
      BY <2>1, <2>2, <3>3 DEF Content
    <3>4. CASE x # k /\ x \notin lost /\ x \notin Present
      BY <2>2, <3>4 DEF Content
    <3> QED BY <3>1, <3>2, <3>3, <3>4
  <2>5. Abstract!Put(k, v)
    <3>1. lost \in SUBSET (CacheKeys \ {k})
      BY <2>3
    <3> HIDE DEF lost
    <3> QED BY <2>4, <3>1 DEF Abstract!Put
  <2> QED BY <2>5 DEF Abstract!Next
<1>4. CASE UNCHANGED vars
  BY <1>4 DEF vars, Content, Present
<1> QED BY <1>1, <1>2, <1>3, <1>4 DEF Next

(* The refinement: the cache behaves as its users may assume.              *)
THEOREM CacheImplements == Spec => ImplementsCache
<1>1. Init => Abstract!Init
  BY DEF Init, Abstract!Init, Content, Present
<1>2. EntriesOK /\ [Next]_vars => [Abstract!Next]_Content
  BY StepRefines
<1>3. Spec => []EntriesOK
  BY EntriesAlwaysOK
<1> QED BY <1>1, <1>2, <1>3, PTL DEF Spec, ImplementsCache, Abstract!Spec

-----------------------------------------------------------------------------
(* The moves of messages.                                                  *)

\* The instance counts as this module does.
LEMMA KeysAreCounted ==
  \A S : Moves!Cardinality(S) = Cardinality(S)
  BY DEF Moves!Cardinality, Cardinality, Moves!IsFiniteSet, IsFiniteSet

\* A finite set as a sequence: each of its elements once.
LEMMA SeqOfSet ==
  ASSUME NEW S, IsFiniteSet(S)
  PROVE  /\ Moves!InOrder(S) \in Seq(S)
         /\ Len(Moves!InOrder(S)) = Cardinality(S)
         /\ Moves!Range(Moves!InOrder(S)) = S
<1> DEFINE n == Cardinality(S)
           f == Moves!InOrder(S)
<1>1. n \in Nat /\ ExistsBijection(1 .. n, S)
  BY FS_CardinalityType
<1>2. Moves!Bijection(1 .. n, S) # {}
  BY <1>1
     DEF ExistsBijection, Bijection, Injection, Surjection, IsInjective, Moves!Bijection,
         Moves!Injection, Moves!Surjection, Moves!IsInjective
<1>3. f = CHOOSE g \in Moves!Bijection(1 .. n, S) : TRUE
  BY KeysAreCounted DEF Moves!InOrder
<1>4. f \in Moves!Bijection(1 .. n, S)
  BY <1>2, <1>3
<1> HIDE DEF f, n
<1>7. f \in [1 .. n -> S] /\ \A x \in S : \E i \in 1 .. n : f[i] = x
  BY <1>4 DEF Moves!Bijection, Moves!Injection, Moves!Surjection
<1>8. f \in Seq(S) /\ Len(f) = n
  BY <1>1, <1>7 DEF n
<1>9. Moves!Range(f) = S
  BY <1>7 DEF Moves!Range
<1>. QED
  BY <1>8, <1>9 DEF f, n

\* The first elements of a sequence and the rest.
FirstOf(s, n) == {s[i] : i \in 1 .. n}
RestOf(s, n) == SubSeq(s, n + 1, Len(s))

\* Cut, a sequence has the elements it had, and no more than n are the first.
LEMMA SeqIsCut ==
  ASSUME NEW T, NEW s \in Seq(T), NEW n \in 0 .. Len(s)
  PROVE  /\ RestOf(s, n) \in Seq(T) /\ Len(RestOf(s, n)) = Len(s) - n
         /\ Moves!Range(s) = FirstOf(s, n) \union Moves!Range(RestOf(s, n))
         /\ FirstOf(s, n) \subseteq T
         /\ IsFiniteSet(FirstOf(s, n)) /\ Cardinality(FirstOf(s, n)) <= n
<1> DEFINE first == {s[i] : i \in 1 .. n}
           rest == SubSeq(s, n + 1, Len(s))
           f == [i \in 1 .. n |-> s[i]]
<1>1. Len(s) \in Nat /\ DOMAIN s = 1 .. Len(s) /\ \A i \in 1 .. Len(s) : s[i] \in T
  OBVIOUS
<1>2. /\ rest \in Seq(T) /\ Len(rest) = Len(s) - n
      /\ \A i \in 1 .. Len(s) - n : rest[i] = s[n + i]
  <2>1. n \in Nat /\ n <= Len(s)
    BY <1>1
  <2>2. \A i \in n + 1 .. Len(s) : s[i] \in T
    BY <1>1, <2>1
  <2>3. /\ rest \in Seq(T)
        /\ Len(rest) = IF n + 1 <= Len(s) THEN Len(s) - (n + 1) + 1 ELSE 0
        /\ \A i \in 1 .. Len(s) - (n + 1) + 1 : rest[i] = s[n + 1 + i - 1]
    BY <1>1, <2>1, <2>2, SubSeqProperties
  <2>4. Len(s) - (n + 1) + 1 = Len(s) - n
    BY <1>1, <2>1
  <2>5. \A i \in 1 .. Len(s) - n : n + 1 + i - 1 = n + i
    BY <1>1, <2>1
  <2> HIDE DEF rest
  <2>6. Len(rest) = Len(s) - n
    <3>1. Len(rest) = IF n + 1 <= Len(s) THEN Len(s) - (n + 1) + 1 ELSE 0
      BY <2>3
    <3>2. Len(s) \in Nat /\ n \in Nat /\ n <= Len(s)
      BY <1>1, <2>1
    <3>3. CASE n + 1 <= Len(s)
      BY <2>4, <3>1, <3>3
    <3>4. CASE ~(n + 1 <= Len(s))
      <4>1. Len(rest) = 0
        BY <3>1, <3>4
      <4>2. Len(s) - n = 0
        BY <3>2, <3>4
      <4>. QED
        BY <4>1, <4>2
    <3>. QED
      BY <3>3, <3>4
  <2>. QED
    BY <2>3, <2>4, <2>5, <2>6
<1>3. first \subseteq T
  BY <1>1
<1>4. Moves!Range(s) = first \union Moves!Range(rest)
  <2>1. Moves!Range(s) = {s[i] : i \in 1 .. Len(s)}
    BY <1>1 DEF Moves!Range
  <2>2. Moves!Range(rest) = {rest[i] : i \in 1 .. Len(s) - n}
    <3>1. DOMAIN rest = 1 .. Len(s) - n
      BY <1>2
    <3>. QED
      BY <3>1 DEF Moves!Range
  <2>3. ASSUME NEW i \in 1 .. Len(s) PROVE s[i] \in first \union Moves!Range(rest)
    <3>1. CASE i <= n
      BY <3>1
    <3>2. CASE i > n
      <4>1. i - n \in 1 .. Len(s) - n /\ n + (i - n) = i
        BY <1>1, <3>2
      <4> HIDE DEF rest, first
      <4>2. rest[i - n] = s[i]
        BY <1>2, <4>1
      <4>3. rest[i - n] \in Moves!Range(rest)
        BY <2>2, <4>1
      <4>. QED
        BY <4>2, <4>3
    <3>. QED
      BY <3>1, <3>2
  <2>4. ASSUME NEW i \in 1 .. Len(s) - n PROVE rest[i] \in {s[j] : j \in 1 .. Len(s)}
    <3>1. n + i \in 1 .. Len(s)
      BY <1>1
    <3>2. rest[i] = s[n + i]
      <4> HIDE DEF rest
      <4>. QED
        BY <1>2
    <3>. QED
      BY <3>1, <3>2
  <2>5. first \subseteq {s[j] : j \in 1 .. Len(s)}
    BY <1>1
  <2> HIDE DEF first, rest
  <2>. QED
    BY <2>1, <2>2, <2>3, <2>4, <2>5
<1>5. f \in Surjection(1 .. n, first)
  BY DEF Surjection
<1>6. IsFiniteSet(1 .. n) /\ Cardinality(1 .. n) = n
  BY FS_Interval
<1> HIDE DEF f, first, rest
<1>7. IsFiniteSet(first) /\ Cardinality(first) <= n
  BY <1>5, <1>6, FS_Surjection
<1>. QED
  BY <1>2, <1>3, <1>4, <1>7 DEF first, rest, FirstOf, RestOf

\* The vocabulary of MailboxMoves with the state it speaks of as arguments: the
\* keys met when the versions are V; a key the mailbox W, V still holds; and a
\* batch that is typed, accounted for and true of the mailbox and the tickets Z.
Met(V) == {k \in Moves!Keys : k[2] <= V[k[1]]}
Holds(k, W, V) == W[k[1]] = Moves!Home /\ V[k[1]] = k[2]

Typed(op, V) ==
  op \in [kind: Moves!Kinds, todo: Seq(Met(V)),
          flight: UNION {[S -> Moves!Outcomes] : S \in SUBSET Met(V)},
          keys: SUBSET Met(V), done: SUBSET Met(V), failed: SUBSET Met(V),
          undos: SUBSET Met(V), gen: 0 .. MovesMaxOps, aborted: BOOLEAN]

Balanced(op, limit) ==
  /\ op.keys = op.done \union op.failed \union DOMAIN op.flight \union Moves!Range(op.todo)
  /\ Cardinality(DOMAIN op.flight) <= limit
  /\ op.kind \in {"one", "undoOne", "seen", "over"} => op.todo = <<>>
  /\ op.kind = "one" => \E k \in op.keys : op.keys = {k}
  /\ op.kind \in {"seen", "over"} => op.keys = {}

Says(op, W, V, Z) ==
  IF op.kind \in Moves!Forward
  THEN /\ op.undos \subseteq Z
       /\ \A k \in op.done : ~Holds(k, W, V)
       /\ \A k \in DOMAIN op.flight :
            /\ op.flight[k] = "moved" => k \in Z
            /\ op.flight[k] \in {"moved", "unnamed", "gone"} => ~Holds(k, W, V)
  ELSE op.keys \subseteq Z

Sound(op, W, V, Z, limit) == Typed(op, V) /\ Balanced(op, limit) /\ Says(op, W, V, Z)

LEMMA MetIsFinite ==
  ASSUME NEW V, NEW S \in SUBSET Met(V) PROVE IsFiniteSet(S)
<1>1. IsFiniteSet(0 .. MovesMaxVer) /\ IsFiniteSet(MovesMsgs)
  BY FS_Interval, MovesAssumption
<1>2. IsFiniteSet(MovesMsgs \X (0 .. MovesMaxVer))
  BY <1>1, FS_Product
<1>3. S \in SUBSET (MovesMsgs \X (0 .. MovesMaxVer))
  BY DEF Met, Moves!Keys
<1>. QED
  BY <1>2, <1>3, FS_Subset

\* A typed batch, field by field.
LEMMA TypedFields ==
  ASSUME NEW V, NEW op, Typed(op, V)
  PROVE  /\ op.kind \in Moves!Kinds /\ op.todo \in Seq(Met(V))
         /\ op.flight \in [DOMAIN op.flight -> Moves!Outcomes]
         /\ DOMAIN op.flight \in SUBSET Met(V)
         /\ op.keys \in SUBSET Met(V) /\ op.done \in SUBSET Met(V)
         /\ op.failed \in SUBSET Met(V) /\ op.undos \in SUBSET Met(V)
         /\ op.gen \in 0 .. MovesMaxOps /\ op.aborted \in BOOLEAN
<1>1. PICK S \in SUBSET Met(V) : op.flight \in [S -> Moves!Outcomes]
  BY DEF Typed
<1>2. DOMAIN op.flight = S
  BY <1>1
<1>. QED
  BY <1>1, <1>2 DEF Typed

\* Requests are sent for the first slots: the flight f grows by them.
Grown(f, first) == [k \in first \union DOMAIN f |-> IF k \in first THEN "sent" ELSE f[k]]

LEMMA FlightGrows ==
  ASSUME NEW V, NEW f, NEW first \in SUBSET Met(V), DOMAIN f \in SUBSET Met(V),
         f \in [DOMAIN f -> Moves!Outcomes]
  PROVE  /\ Grown(f, first) \in UNION {[S -> Moves!Outcomes] : S \in SUBSET Met(V)}
         /\ DOMAIN Grown(f, first) = first \union DOMAIN f
         /\ \A k \in DOMAIN Grown(f, first) :
              \/ Grown(f, first)[k] = "sent"
              \/ k \in DOMAIN f /\ Grown(f, first)[k] = f[k]
<1> DEFINE g == [k \in first \union DOMAIN f |-> IF k \in first THEN "sent" ELSE f[k]]
<1>1. DOMAIN g = first \union DOMAIN f
  OBVIOUS
<1>2. \A k \in DOMAIN g : g[k] = "sent" \/ (k \in DOMAIN f /\ g[k] = f[k])
  OBVIOUS
<1>3. "sent" \in Moves!Outcomes
  BY DEF Moves!Outcomes
<1>4. g \in [first \union DOMAIN f -> Moves!Outcomes]
  BY <1>3
<1> HIDE DEF g
<1>5. first \union DOMAIN f \in SUBSET Met(V)
  OBVIOUS
<1>6. g \in UNION {[S -> Moves!Outcomes] : S \in SUBSET Met(V)}
  BY <1>4, <1>5
<1>. QED
  BY <1>1, <1>2, <1>6 DEF g, Grown

\* Workers claim slots: no more requests are out than the limit allows, none at
\* all once the batch was aborted, and every key is still somewhere.
LEMMA ClaimKeeps ==
  ASSUME NEW V, NEW op, Typed(op, V), v15 \in MovesTrials,
         Cardinality(DOMAIN op.flight) <= v15.limit
  PROVE  LET c == Moves!Claim(op)
         IN /\ Typed(c, V)
            /\ c.kind = op.kind /\ c.keys = op.keys /\ c.done = op.done
            /\ c.undos = op.undos /\ c.gen = op.gen /\ c.aborted = op.aborted
            /\ c.failed \union DOMAIN c.flight \union Moves!Range(c.todo)
                 = op.failed \union DOMAIN op.flight \union Moves!Range(op.todo)
            /\ Cardinality(DOMAIN c.flight) <= v15.limit
            /\ \A k \in DOMAIN c.flight :
                 c.flight[k] = "sent" \/ (k \in DOMAIN op.flight /\ c.flight[k] = op.flight[k])
            /\ op.aborted \/ op.todo = <<>> => c.todo = <<>> /\ DOMAIN c.flight = DOMAIN op.flight
            /\ ~op.aborted => c.failed = op.failed
            /\ ~op.aborted /\ Len(op.todo) + Cardinality(DOMAIN op.flight) <= v15.limit
                 => c.todo = <<>>
<1> DEFINE c == Moves!Claim(op)
<1>1. v15.limit \in Nat /\ v15.limit > 0
  BY MovesAssumption
<1>2. /\ op.todo \in Seq(Met(V)) /\ op.flight \in [DOMAIN op.flight -> Moves!Outcomes]
      /\ DOMAIN op.flight \in SUBSET Met(V) /\ op.failed \in SUBSET Met(V)
  BY TypedFields
<1>3. IsFiniteSet(DOMAIN op.flight) /\ Cardinality(DOMAIN op.flight) \in Nat
  BY <1>2, MetIsFinite, FS_CardinalityType
<1>4. CASE op.aborted
  <2>1. c = [op EXCEPT !.failed = @ \union Moves!Range(op.todo), !.todo = <<>>]
    BY <1>4 DEF Moves!Claim
  <2>2. Moves!Range(op.todo) \in SUBSET Met(V) /\ Moves!Range(<<>>) = {}
    BY <1>2 DEF Moves!Range
  <2>3. <<>> \in Seq(Met(V))
    OBVIOUS
  <2> HIDE DEF c
  <2>4. /\ c.kind = op.kind /\ c.keys = op.keys /\ c.done = op.done
        /\ c.undos = op.undos /\ c.gen = op.gen /\ c.aborted = op.aborted
        /\ c.flight = op.flight /\ c.failed = op.failed \union Moves!Range(op.todo)
        /\ c.todo = <<>>
    BY <2>1 DEF Typed
  <2>5. op.failed \union Moves!Range(op.todo) \in SUBSET Met(V)
    BY <1>2, <2>2
  <2>6. Typed(c, V)
    BY <2>1, <2>3, <2>5 DEF Typed
  <2>. QED
    BY <1>4, <2>2, <2>4, <2>6 DEF c
<1>5. CASE ~op.aborted
  <2> DEFINE free == v15.limit - Cardinality(DOMAIN op.flight)
             n == IF Len(op.todo) < free THEN Len(op.todo) ELSE free
             first == FirstOf(op.todo, n)
             rest == RestOf(op.todo, n)
             g == Grown(op.flight, first)
  <2>1. c = [op EXCEPT !.todo = rest, !.flight = g]
    BY <1>5, KeysAreCounted DEF Moves!Claim, Moves!Limit, FirstOf, RestOf, Grown
  <2>2. free \in Nat /\ n \in Nat /\ n <= free /\ n \in 0 .. Len(op.todo)
        /\ (n < Len(op.todo) => n = free)
    BY <1>1, <1>2, <1>3
  <2>3. /\ rest \in Seq(Met(V)) /\ Len(rest) = Len(op.todo) - n
        /\ Moves!Range(op.todo) = first \union Moves!Range(rest)
        /\ first \subseteq Met(V) /\ IsFiniteSet(first) /\ Cardinality(first) <= n
    <3> HIDE DEF n
    <3>. QED
      BY <1>2, <2>2, SeqIsCut
  <2>4. /\ g \in UNION {[S -> Moves!Outcomes] : S \in SUBSET Met(V)}
        /\ DOMAIN g = first \union DOMAIN op.flight
        /\ \A k \in DOMAIN g : g[k] = "sent" \/ (k \in DOMAIN op.flight /\ g[k] = op.flight[k])
    <3> HIDE DEF first
    <3>. QED
      BY <1>2, <2>3, FlightGrows
  <2>5. Cardinality(first \union DOMAIN op.flight) <= v15.limit
    <3> HIDE DEF first
    <3>1. /\ Cardinality(first \union DOMAIN op.flight)
               = Cardinality(first) + Cardinality(DOMAIN op.flight)
                   - Cardinality(first \intersect DOMAIN op.flight)
          /\ IsFiniteSet(first \intersect DOMAIN op.flight)
      BY <1>3, <2>3, FS_Union, FS_Intersection
    <3>2. Cardinality(first) \in Nat /\ Cardinality(first \intersect DOMAIN op.flight) \in Nat
      BY <2>3, <3>1, FS_CardinalityType
    <3>3. Cardinality(first) <= free
      <4> HIDE DEF n, free
      <4>. QED
        BY <2>2, <2>3, <3>2
    <3>. QED
      BY <1>1, <1>3, <3>1, <3>2, <3>3
  <2> HIDE DEF g, first, rest, n, free, c
  <2>6. /\ c.kind = op.kind /\ c.keys = op.keys /\ c.done = op.done
        /\ c.undos = op.undos /\ c.gen = op.gen /\ c.aborted = op.aborted
        /\ c.flight = g /\ c.failed = op.failed /\ c.todo = rest
    BY <2>1 DEF Typed
  <2>7. Typed(c, V)
    BY <2>1, <2>3, <2>4 DEF Typed
  <2>8. op.todo = <<>> => c.todo = <<>> /\ DOMAIN c.flight = DOMAIN op.flight
    <3>1. SUFFICES ASSUME op.todo = <<>>
                   PROVE  rest = <<>> /\ first = {}
      BY <2>4, <2>6
    <3>2. Len(op.todo) = 0 /\ n = 0
      BY <3>1, <2>2
    <3>3. Len(rest) = 0
      BY <2>3, <3>2
    <3>. QED
      BY <2>3, <3>2, <3>3 DEF first, FirstOf
  <2>9. Len(op.todo) + Cardinality(DOMAIN op.flight) <= v15.limit => c.todo = <<>>
    <3>1. SUFFICES ASSUME Len(op.todo) + Cardinality(DOMAIN op.flight) <= v15.limit
                   PROVE  rest = <<>>
      BY <2>6
    <3>2. n = Len(op.todo)
      BY <1>1, <1>2, <1>3, <3>1 DEF n, free
    <3>3. Len(rest) = 0
      BY <1>2, <2>3, <3>2
    <3>. QED
      BY <2>3, <3>3
  <2>10. \A k \in DOMAIN c.flight :
           c.flight[k] = "sent" \/ (k \in DOMAIN op.flight /\ c.flight[k] = op.flight[k])
    BY <2>4, <2>6
  <2>11. c.failed \union DOMAIN c.flight \union Moves!Range(c.todo)
           = op.failed \union DOMAIN op.flight \union Moves!Range(op.todo)
    BY <2>3, <2>4, <2>6
  <2>12. Cardinality(DOMAIN c.flight) <= v15.limit
    BY <2>4, <2>5, <2>6
  <2>. QED
    BY <1>5, <2>6, <2>7, <2>8, <2>9, <2>10, <2>11, <2>12 DEF c
<1>. QED
  BY <1>4, <1>5 DEF Typed

\* The screen and the mailbox, typed.
Laid ==
  /\ v1 \in [MovesMsgs -> {Moves!Home, Moves!Elsewhere} \union Moves!Keys]
  /\ v2 \in [MovesMsgs -> 0 .. MovesMaxVer]
  /\ v3 \subseteq Met(v2) /\ v4 \subseteq Met(v2)
  /\ v5 \in Moves!Folders /\ v6 \subseteq Met(v2) /\ v7 \subseteq Met(v2)
  /\ v8 \subseteq Met(v2) /\ v9 \in Met(v2) \union {None}
  /\ v10 \in Met(v2) \union {None}
  /\ v11 \in [id: 0 .. MovesMaxOps, undos: SUBSET Met(v2)] \union {None}
  /\ v13 \in BOOLEAN /\ v15 \in MovesTrials

\* The offers to undo: of what was ticketed.
Offers ==
  /\ v10 # None => v10 \in v3
  /\ v11 # None => v11.undos \subseteq v3

\* The batches B are numbered up to last, and no batch of moves or of undos has a
\* number beyond the bar's.
Numbered(B, last, bar) ==
  /\ \A i \in 1 .. Len(B) : B[i].gen <= last
  /\ bar # None => \A i \in 1 .. Len(B) : B[i].kind # "seen" => B[i].gen <= bar.id

\* The batches B: each is sound, and sends nothing more after the unmount.
Running(B, W, V, Z, limit, mounted) ==
  /\ \A i \in 1 .. Len(B) : Sound(B[i], W, V, Z, limit)
  /\ \A i \in 1 .. Len(B) : ~mounted => B[i].aborted \/ B[i].todo = <<>>

Queued ==
  /\ \E B : v14 \in Seq(B)
  /\ Len(v14) <= MovesMaxOps /\ v12 \in 0 .. Len(v14)
  /\ Running(v14, v1, v2, v3, v15.limit, v13)
  /\ Numbered(v14, v12, v11)

\* Whoever is hidden, of H, waits for a move of a batch of B or was moved.
Hides(H, B, W, V) ==
  \A k \in H : ~Holds(k, W, V)
               \/ \E i \in 1 .. Len(B) : /\ B[i].kind \in Moves!Forward
                                         /\ ~Moves!Finished(B[i]) /\ k \in B[i].keys

LEMMA InvIsLaid ==
  ASSUME Moves!MovesInv
  PROVE  /\ Laid /\ Offers /\ Queued
         /\ v13 => Hides(v7, v14, v1, v2)
<1>1. Moves!Known = Met(v2) /\ DOMAIN v14 = 1 .. Len(v14) /\ v14 \in Seq(Moves!Ops)
  BY DEF Moves!MovesInv, Moves!TypeOK, Moves!Known, Met
<1>2. Laid /\ Offers
  BY <1>1 DEF Moves!MovesInv, Moves!TypeOK, Moves!UndoOnlyTicketed, Laid, Offers
<1>3. \A i \in 1 .. Len(v14) : Sound(v14[i], v1, v2, v3, v15.limit)
  <2>. SUFFICES ASSUME NEW i \in 1 .. Len(v14) PROVE Sound(v14[i], v1, v2, v3, v15.limit)
    OBVIOUS
  <2>1. v14[i] \in Moves!Ops
    BY <1>1
  <2>2. Typed(v14[i], v2)
    BY <1>1, <2>1 DEF Moves!Ops, Typed
  <2>3. Moves!Accounted(v14[i]) /\ Moves!Truthful(v14[i])
    BY <1>1 DEF Moves!MovesInv, Moves!OpsAreAccounted
  <2>4. Balanced(v14[i], v15.limit)
    BY <2>3, KeysAreCounted DEF Moves!Accounted, Balanced, Moves!Limit
  <2>5. Says(v14[i], v1, v2, v3)
    BY <2>3 DEF Moves!Truthful, Moves!Live, Says, Holds
  <2>. QED
    BY <2>2, <2>4, <2>5 DEF Sound
<1>6. Numbered(v14, v12, v11)
  BY <1>1 DEF Moves!MovesInv, Moves!GenerationsGrow, Moves!SummaryOfLatestBatch, Numbered
<1>4. Queued
  BY <1>1, <1>3, <1>6
     DEF Queued, Running, Moves!MovesInv, Moves!TypeOK, Moves!OpsAreAccounted
<1>5. v13 => Hides(v7, v14, v1, v2)
  BY <1>1 DEF Moves!MovesInv, Moves!HiddenAwaitsMove, Hides, Holds, Moves!Live
<1>. QED
  BY <1>2, <1>4, <1>5

\* The invariant from its parts, of the state after a step.
LEMMA LaidIsInv ==
  ASSUME Laid', Offers', Queued', v13' => Hides(v7', v14', v1', v2')
  PROVE  Moves!MovesInv'
<1>1. /\ Moves!Known' = Met(v2') /\ DOMAIN v14' = 1 .. Len(v14')
      /\ \A i \in 1 .. Len(v14') : Sound(v14'[i], v1', v2', v3', v15'.limit)
      /\ Len(v14') <= MovesMaxOps /\ v12' \in 0 .. Len(v14')
      /\ \A i \in 1 .. Len(v14') : ~v13' => v14'[i].aborted \/ v14'[i].todo = <<>>
  BY DEF Queued, Running, Moves!Known, Met
<1>2. ASSUME NEW i \in 1 .. Len(v14')
      PROVE  /\ v14'[i] \in Moves!Ops'
             /\ Moves!Accounted(v14[i])' /\ Moves!Truthful(v14[i])'
             /\ v14'[i].kind \in {"undoOne", "undoBulk"} => v14'[i].keys \subseteq v3'
  <2>1. Sound(v14'[i], v1', v2', v3', v15'.limit)
    BY <1>1
  <2>2. v14'[i] \in Moves!Ops'
    BY <1>1, <2>1 DEF Sound, Typed, Moves!Ops
  <2>3. Moves!Accounted(v14[i])'
    BY <2>1, KeysAreCounted DEF Sound, Balanced, Moves!Accounted, Moves!Limit
  <2>4. Moves!Truthful(v14[i])'
    BY <2>1 DEF Sound, Says, Moves!Truthful, Moves!Live, Holds
  <2>5. v14'[i].kind \in {"undoOne", "undoBulk"} => v14'[i].keys \subseteq v3'
    BY <2>1 DEF Sound, Says, Moves!Forward
  <2>. QED
    BY <2>2, <2>3, <2>4, <2>5
<1>3. v14' \in Seq(Moves!Ops)'
  BY <1>1, <1>2 DEF Queued
<1>4. Moves!TypeOK'
  BY <1>1, <1>3 DEF Laid, Moves!TypeOK
<1>5. Moves!OpsAreAccounted'
  BY <1>1, <1>2 DEF Moves!OpsAreAccounted
<1>6. Moves!UndoOnlyTicketed'
  BY <1>1, <1>2 DEF Offers, Moves!UndoOnlyTicketed
<1>8. Moves!SummaryOfLatestBatch' /\ Moves!GenerationsGrow'
  BY <1>1 DEF Queued, Numbered, Moves!SummaryOfLatestBatch, Moves!GenerationsGrow
<1>7. Moves!HiddenAwaitsMove'
  BY <1>1 DEF Moves!HiddenAwaitsMove, Hides, Holds, Moves!Live
<1>. QED
  BY <1>4, <1>5, <1>6, <1>7, <1>8 DEF Moves!MovesInv

\* A step of the reader, the list or the selection: the mailbox and the batches
\* are left alone, and an offer is at most withdrawn.
LEMMA QuietKeepsMoves ==
  ASSUME Moves!MovesInv, UNCHANGED <<v1, v2, v3, v4, v7, v12, v13, v14, v15>>,
         v5' \in Moves!Folders, v6' \subseteq Met(v2), v8' \subseteq Met(v2),
         v9' \in Met(v2) \union {None}, v10' \in {v10, None}, v11' \in {v11, None}
  PROVE  Moves!MovesInv'
<1>1. Laid /\ Offers /\ Queued /\ (v13 => Hides(v7, v14, v1, v2))
  BY InvIsLaid
<1>2. Laid'
  BY <1>1 DEF Laid
<1>3. Offers'
  BY <1>1 DEF Offers
<1>5. Numbered(v14, v12, v11)'
  BY <1>1 DEF Queued, Numbered
<1>4. Queued'
  BY <1>1, <1>5 DEF Queued
<1>. QED
  BY <1>1, <1>2, <1>3, <1>4, LaidIsInv

\* What is drawn was met.
LEMMA DrawnIsMet ==
  ASSUME Moves!MovesInv
  PROVE  /\ Moves!Visible \subseteq Met(v2) /\ Moves!Representatives \subseteq Met(v2)
         /\ Moves!SelectableKeys \subseteq Met(v2)
         /\ \A k : Moves!Expand(k) \subseteq Met(v2)
  BY InvIsLaid
     DEF Laid, Moves!Visible, Moves!Representatives, Moves!SelectableKeys, Moves!Actionable,
         Moves!Expand, Moves!Members

LEMMA ScreenKeepsMoves ==
  ASSUME Moves!MovesInv, v15' = v15,
         \/ Moves!LoadPage \/ Moves!ChangeFolder \/ Moves!OpenMessage \/ Moves!CloseMessage
         \/ Moves!Toggle \/ Moves!SelectAllVisible \/ Moves!ClearSelection \/ Moves!ExpireUndo
  PROVE  Moves!MovesInv'
<1>1. /\ v5 \in Moves!Folders /\ v6 \subseteq Met(v2) /\ v8 \subseteq Met(v2)
      /\ v4 \subseteq Met(v2) /\ v9 \in Met(v2) \union {None}
  BY InvIsLaid DEF Laid
<1>2. CASE Moves!LoadPage
  <2>1. v6' \subseteq v4 /\ v8' \subseteq v8
        /\ UNCHANGED <<v1, v2, v3, v4, v5, v7, v9, v10, v11, v12, v13, v14>>
    BY <1>2 DEF Moves!LoadPage, Moves!server
  <2>. QED
    BY <1>1, <2>1, QuietKeepsMoves
<1>3. CASE Moves!ChangeFolder
  <2>1. v5' \in Moves!Folders /\ v9' = None /\ v8' \subseteq v8
        /\ UNCHANGED <<v1, v2, v3, v4, v6, v7, v10, v11, v12, v13, v14>>
    BY <1>3 DEF Moves!ChangeFolder, Moves!server
  <2>. QED
    BY <1>1, <2>1, QuietKeepsMoves
<1>4. CASE Moves!OpenMessage \/ Moves!CloseMessage
  <2>1. v9' \in Met(v2) \union {None}
        /\ UNCHANGED <<v1, v2, v3, v4, v5, v6, v7, v8, v10, v11, v12, v13, v14>>
    BY <1>4, DrawnIsMet DEF Moves!OpenMessage, Moves!CloseMessage, Moves!server
  <2>. QED
    BY <1>1, <2>1, QuietKeepsMoves
<1>5. CASE Moves!Toggle \/ Moves!SelectAllVisible \/ Moves!ClearSelection
  <2>1. v8' \subseteq Met(v2)
        /\ UNCHANGED <<v1, v2, v3, v4, v5, v6, v7, v9, v10, v11, v12, v13, v14>>
    BY <1>1, <1>5, DrawnIsMet
       DEF Moves!Toggle, Moves!SelectAllVisible, Moves!ClearSelection, Moves!ToggleGroup,
           Moves!server, Moves!screen
  <2>. QED
    BY <1>1, <2>1, QuietKeepsMoves
<1>6. CASE Moves!ExpireUndo
  <2>1. v10' \in {v10, None} /\ v11' \in {v11, None}
        /\ UNCHANGED <<v1, v2, v3, v4, v5, v6, v7, v8, v9, v12, v13, v14>>
    BY <1>6 DEF Moves!ExpireUndo, Moves!server, Moves!screen
  <2>. QED
    BY <1>1, <2>1, QuietKeepsMoves
<1>. QED
  BY <1>2, <1>3, <1>4, <1>5, <1>6

\* The batch b has just begun: it is sound, and whatever it is to move is under way.
Begun(b, kind, keys, id) ==
  /\ Sound(b, v1, v2, v3, v15.limit)
  /\ b.kind = kind /\ b.keys = keys /\ b.gen = id
  /\ \A k \in keys : ~Moves!Finished(b)

LEMMA NewOpIsSound ==
  ASSUME Laid, NEW kind \in Moves!Kinds \ {"over"}, NEW keys \in SUBSET Met(v2),
         NEW id \in 0 .. MovesMaxOps,
         kind \in {"one", "undoOne"} => \E k : keys = {k},
         kind = "seen" => keys = {},
         kind \notin Moves!Forward => keys \subseteq v3
  PROVE  Begun(Moves!NewOp(kind, keys, id), kind, keys, id)
<1> DEFINE b == Moves!NewOp(kind, keys, id)
           a == [kind |-> kind, todo |-> Moves!InOrder(keys), flight |-> <<>>, keys |-> keys,
                 done |-> {}, failed |-> {}, undos |-> {}, gen |-> id, aborted |-> FALSE]
<1>1. b = Moves!Claim(a)
  BY DEF Moves!NewOp
<1>2. /\ IsFiniteSet(keys) /\ Moves!InOrder(keys) \in Seq(keys)
      /\ Len(Moves!InOrder(keys)) = Cardinality(keys)
      /\ Moves!Range(Moves!InOrder(keys)) = keys
  BY MetIsFinite, SeqOfSet
<1>3. DOMAIN <<>> = {} /\ <<>> \in UNION {[S -> Moves!Outcomes] : S \in SUBSET Met(v2)}
  <2>1. <<>> \in [{} -> Moves!Outcomes]
    OBVIOUS
  <2>. QED
    BY <2>1
<1>4. Moves!InOrder(keys) \in Seq(Met(v2))
  BY <1>2, SeqMonotonic
<1>5. Typed(a, v2)
  BY <1>3, <1>4 DEF Typed
<1>6. /\ a.kind = kind /\ a.keys = keys /\ a.done = {} /\ a.failed = {} /\ a.undos = {}
      /\ a.aborted = FALSE /\ a.flight = <<>> /\ a.todo = Moves!InOrder(keys) /\ a.gen = id
      /\ DOMAIN a.flight = {}
  BY <1>3
<1> HIDE DEF a, b
<1>7. v15 \in MovesTrials /\ v15.limit \in Nat \ {0}
  BY MovesAssumption DEF Laid
<1>8. Cardinality(DOMAIN a.flight) = 0
  BY <1>6, FS_EmptySet
<1>9. Cardinality(DOMAIN a.flight) <= v15.limit
  BY <1>7, <1>8
<1>10. /\ Typed(b, v2) /\ b.kind = kind /\ b.keys = keys /\ b.done = {} /\ b.undos = {}
       /\ b.failed = {} /\ DOMAIN b.flight \union Moves!Range(b.todo) = keys
       /\ Cardinality(DOMAIN b.flight) <= v15.limit
       /\ \A k \in DOMAIN b.flight : b.flight[k] = "sent"
       /\ Len(a.todo) <= v15.limit => b.todo = <<>>
       /\ b.gen = id
  <2>1. Len(a.todo) + Cardinality(DOMAIN a.flight) = Len(a.todo)
    BY <1>2, <1>6, <1>8
  <2> DEFINE c == Moves!Claim(a)
  <2>6. /\ Typed(c, v2)
        /\ c.kind = a.kind /\ c.keys = a.keys /\ c.done = a.done
        /\ c.undos = a.undos /\ c.gen = a.gen /\ c.aborted = a.aborted
        /\ c.failed \union DOMAIN c.flight \union Moves!Range(c.todo)
             = a.failed \union DOMAIN a.flight \union Moves!Range(a.todo)
        /\ Cardinality(DOMAIN c.flight) <= v15.limit
        /\ \A k \in DOMAIN c.flight :
             c.flight[k] = "sent" \/ (k \in DOMAIN a.flight /\ c.flight[k] = a.flight[k])
        /\ a.aborted \/ a.todo = <<>> => c.todo = <<>> /\ DOMAIN c.flight = DOMAIN a.flight
        /\ ~a.aborted => c.failed = a.failed
        /\ ~a.aborted /\ Len(a.todo) + Cardinality(DOMAIN a.flight) <= v15.limit
             => c.todo = <<>>
    BY ONLY <1>5, <1>7, <1>9, ClaimKeeps
  <2> HIDE DEF c
  <2>2. /\ Typed(b, v2) /\ b.kind = a.kind /\ b.keys = a.keys /\ b.done = a.done
        /\ b.undos = a.undos /\ b.gen = a.gen /\ Cardinality(DOMAIN b.flight) <= v15.limit
        /\ b.failed \union DOMAIN b.flight \union Moves!Range(b.todo)
             = a.failed \union DOMAIN a.flight \union Moves!Range(a.todo)
        /\ \A k \in DOMAIN b.flight :
             b.flight[k] = "sent" \/ (k \in DOMAIN a.flight /\ b.flight[k] = a.flight[k])
        /\ ~a.aborted => b.failed = a.failed
        /\ ~a.aborted /\ Len(a.todo) + Cardinality(DOMAIN a.flight) <= v15.limit
             => b.todo = <<>>
    BY <1>1, <2>6 DEF c
  <2>3. DOMAIN b.flight \union Moves!Range(b.todo) = keys
    BY <1>2, <1>6, <2>2
  <2>4. Len(a.todo) <= v15.limit => b.todo = <<>>
    BY <1>6, <2>1, <2>2
  <2>5. \A k \in DOMAIN b.flight : b.flight[k] = "sent"
    BY <1>6, <2>2
  <2>. QED
    BY <1>6, <2>2, <2>3, <2>4, <2>5
<1>11. kind \in {"one", "undoOne", "seen"} => b.todo = <<>>
  <2>1. SUFFICES ASSUME kind \in {"one", "undoOne", "seen"} PROVE Len(a.todo) <= v15.limit
    BY <1>10
  <2>2. Cardinality(keys) \in {0, 1}
    BY <2>1, FS_Singleton, FS_EmptySet
  <2>3. Len(a.todo) = 0 \/ Len(a.todo) = 1
    BY <1>2, <1>6, <2>2
  <2>4. v15.limit \in Nat /\ 0 <= v15.limit /\ 1 <= v15.limit
    BY <1>7
  <2>. QED
    BY <2>3, <2>4, Zenon
<1>12. Balanced(b, v15.limit)
  <2>1. b.keys = b.done \union b.failed \union DOMAIN b.flight \union Moves!Range(b.todo)
    BY <1>10
  <2>2. /\ b.kind = "one" => \E k \in b.keys : b.keys = {k}
        /\ b.kind \in {"seen", "over"} => b.keys = {}
    BY <1>10
  <2>. QED
    BY <1>10, <1>11, <2>1, <2>2 DEF Balanced
<1>13. Says(b, v1, v2, v3)
  BY <1>10 DEF Says
<1>14. \A k \in keys : ~Moves!Finished(b)
  <2>1. Moves!Range(<<>>) = {}
    BY DEF Moves!Range
  <2>. QED
    BY <1>10, <2>1 DEF Moves!Finished
<1>. QED
  BY <1>10, <1>12, <1>13, <1>14 DEF Sound, Begun, b

\* A batch is added to those that run.
LEMMA OneMoreOp ==
  ASSUME NEW B, NEW s \in Seq(B), NEW b
  PROVE  /\ Append(s, b) \in Seq(B \union {b}) /\ Len(Append(s, b)) = Len(s) + 1
         /\ Len(s) \in Nat
         /\ \A i \in 1 .. Len(s) : Append(s, b)[i] = s[i]
         /\ Append(s, b)[Len(s) + 1] = b
<1>1. s \in Seq(B \union {b})
  BY SeqMonotonic
<1>. QED
  BY <1>1, AppendProperties, LenProperties

LEMMA BeginKeepsMoves ==
  ASSUME Moves!MovesInv, Moves!MayBegin,
         NEW kind \in Moves!Kinds \ {"over"}, NEW keys \in SUBSET Met(v2),
         v12' \in {v12, v12 + 1}, NEW id \in {0, v12'},
         kind \in {"one", "undoOne"} => \E k : keys = {k},
         kind = "seen" => keys = {},
         kind \notin Moves!Forward => keys \subseteq v3,
         Moves!Begin(kind, keys, id),
         UNCHANGED <<v1, v2, v3, v4, v5, v6, v9, v13, v15>>,
         v7' = v7 \/ (kind \in Moves!Forward /\ v7' = v7 \union keys),
         v8' \subseteq v8, v10' \in {v10, None}, v11' \in {v11, None},
         v11' # None => id = 0 \/ kind = "seen"
  PROVE  Moves!MovesInv'
<1> DEFINE b == Moves!NewOp(kind, keys, id)
<1>1. Laid /\ Offers /\ Queued /\ (v13 => Hides(v7, v14, v1, v2)) /\ v13
  BY InvIsLaid DEF Moves!MayBegin
<1>2. v14' = Append(v14, b) /\ Len(v14) < MovesMaxOps
  BY DEF Moves!Begin, Moves!MayBegin
<1>3. Len(v14) \in Nat /\ v12 \in 0 .. Len(v14) /\ MovesMaxOps \in Nat
  BY <1>1, LenProperties, MovesAssumption DEF Queued
<1>4. /\ id \in 0 .. MovesMaxOps /\ v12' \in 0 .. Len(v14) + 1
      /\ v12 <= v12' /\ id <= v12'
  BY <1>2, <1>3
<1>5. /\ Sound(b, v1, v2, v3, v15.limit) /\ b.kind = kind /\ b.keys = keys /\ b.gen = id
      /\ \A k \in keys : ~Moves!Finished(b)
  <2>1. Begun(Moves!NewOp(kind, keys, id), kind, keys, id)
    BY <1>1, <1>4, NewOpIsSound
  <2>. QED
    BY <2>1 DEF Begun
<1> HIDE DEF b
<1>6. PICK B : v14 \in Seq(B)
  BY <1>1 DEF Queued
<1>7. /\ v14' \in Seq(B \union {b}) /\ Len(v14') = Len(v14) + 1
      /\ \A i \in 1 .. Len(v14) : v14'[i] = v14[i]
      /\ v14'[Len(v14) + 1] = b
  BY <1>2, <1>6, OneMoreOp
<1>8. Laid' /\ Offers'
  BY <1>1 DEF Laid, Offers
<1>9. Running(v14', v1, v2, v3, v15.limit, v13)
  <2>1. \A i \in 1 .. Len(v14') : i \in 1 .. Len(v14) \/ i = Len(v14) + 1
    BY <1>3, <1>7
  <2>. QED
    BY <1>1, <1>5, <1>7, <2>1 DEF Queued, Running
<1>12. Numbered(v14', v12', v11')
  <2>. SUFFICES ASSUME NEW i \in 1 .. Len(v14')
                PROVE  /\ v14'[i].gen <= v12'
                       /\ v11' # None /\ v14'[i].kind # "seen" => v14'[i].gen <= v11'.id
    BY DEF Numbered
  <2>1. CASE i \in 1 .. Len(v14)
    <3>1. v14'[i] = v14[i] /\ v14[i].gen \in Int
      BY <1>1, <1>7, <2>1, TypedFields DEF Queued, Running, Sound
    <3>2. v14[i].gen <= v12 /\ (v11 # None /\ v14[i].kind # "seen" => v14[i].gen <= v11.id)
      BY <1>1, <2>1 DEF Queued, Numbered
    <3>3. v14[i].gen <= v12'
      BY <1>3, <1>4, <3>1, <3>2
    <3>. QED
      BY <3>1, <3>2, <3>3
  <2>2. CASE i = Len(v14) + 1
    <3>1. v14'[i] = b
      BY <1>7, <2>2
    <3>2. v11' # None => v11' = v11 /\ v11.id \in Nat
      BY <1>1 DEF Laid
    <3>3. v11' # None /\ kind # "seen" => id <= v11'.id
      BY <3>2
    <3>. QED
      BY <1>4, <1>5, <3>1, <3>3
  <2>. QED
    BY <1>3, <1>7, <2>1, <2>2
<1>10. Queued'
  <2>1. Len(v14') <= MovesMaxOps /\ v12' \in 0 .. Len(v14')
    BY <1>2, <1>3, <1>4, <1>7
  <2>. QED
    BY <1>7, <1>9, <1>12, <2>1 DEF Queued
<1>11. Hides(v7', v14', v1, v2)
  <2>. SUFFICES ASSUME NEW k \in v7', Holds(k, v1, v2)
                PROVE  \E i \in 1 .. Len(v14') :
                         /\ v14'[i].kind \in Moves!Forward
                         /\ ~Moves!Finished(v14'[i]) /\ k \in v14'[i].keys
    BY DEF Hides
  <2>1. \A i \in 1 .. Len(v14) : i \in 1 .. Len(v14')
    BY <1>3, <1>7
  <2>2. Len(v14) + 1 \in 1 .. Len(v14')
    BY <1>3, <1>7
  <2>3. CASE k \in v7
    BY <1>1, <1>7, <2>1, <2>3 DEF Hides
  <2>4. CASE kind \in Moves!Forward /\ k \in keys
    BY <1>5, <1>7, <2>2, <2>4
  <2>. QED
    BY <2>3, <2>4
<1>. QED
  BY <1>8, <1>10, <1>11, LaidIsInv

LEMMA MoveKeepsMoves ==
  ASSUME Moves!MovesInv, v15' = v15,
         \/ Moves!MoveFromReader \/ Moves!MoveSelection \/ Moves!MoveRow
         \/ Moves!UndoMove \/ Moves!RunUndo \/ Moves!MarkSeen
  PROVE  Moves!MovesInv'
<1>1. Laid /\ Offers /\ Queued
  BY InvIsLaid
<1>2. ASSUME NEW k \in Met(v2), Moves!MayBegin, Moves!PerformMove(k) PROVE Moves!MovesInv'
  <2>1. /\ Moves!Begin("one", {k}, 0) /\ v12' = v12 /\ v7' = v7 \union {k}
        /\ UNCHANGED <<v1, v2, v3, v4, v5, v6, v9, v13>> /\ v8' \subseteq v8
        /\ v10' = None /\ v11' = None
    BY <1>2 DEF Moves!PerformMove, Moves!server, Moves!screen
  <2>2. "one" \in Moves!Kinds \ {"over"} /\ "one" \in Moves!Forward
    BY DEF Moves!Kinds, Moves!Forward
  <2>. QED
    BY <1>2, <2>1, <2>2, BeginKeepsMoves
<1>3. ASSUME NEW keys \in SUBSET Met(v2), Moves!MayBegin, Moves!MoveMessages(keys)
      PROVE  Moves!MovesInv'
  <2>1. /\ Moves!Begin("bulk", keys, v12 + 1) /\ v12' = v12 + 1 /\ v7' = v7 \union keys
        /\ UNCHANGED <<v1, v2, v3, v4, v5, v6, v9, v13>> /\ v8' \subseteq v8
        /\ v10' = None /\ v11' = None
    BY <1>3 DEF Moves!MoveMessages, Moves!server, Moves!screen
  <2>2. "bulk" \in Moves!Kinds \ {"over"} /\ "bulk" \in Moves!Forward
    BY DEF Moves!Kinds, Moves!Forward
  <2>. QED
    BY <1>3, <2>1, <2>2, BeginKeepsMoves
<1>4. CASE Moves!MoveFromReader
  BY <1>1, <1>2, <1>4 DEF Moves!MoveFromReader, Laid
<1>5. CASE Moves!MoveSelection
  BY <1>1, <1>3, <1>5 DEF Moves!MoveSelection, Laid
<1>6. CASE Moves!MoveRow
  BY <1>2, <1>3, <1>6, DrawnIsMet DEF Moves!MoveRow
<1>7. CASE Moves!UndoMove
  <2>1. /\ Moves!Begin("undoOne", {v10}, 0) /\ v12' = v12 /\ v7' = v7 /\ v10 # None
        /\ UNCHANGED <<v1, v2, v3, v4, v5, v6, v8, v9, v11, v13>> /\ v10' = None
        /\ Moves!MayBegin
    BY <1>7 DEF Moves!UndoMove, Moves!server, Moves!screen
  <2>2. "undoOne" \in Moves!Kinds \ {"over"} /\ "undoOne" \notin Moves!Forward
    BY DEF Moves!Kinds, Moves!Forward
  <2>3. {v10} \in SUBSET Met(v2) /\ {v10} \subseteq v3
    BY <1>1, <2>1 DEF Laid, Offers
  <2>. QED
    BY <2>1, <2>2, <2>3, BeginKeepsMoves
<1>8. CASE Moves!RunUndo
  <2>1. /\ Moves!Begin("undoBulk", v11.undos, v12 + 1) /\ v12' = v12 + 1 /\ v7' = v7
        /\ UNCHANGED <<v1, v2, v3, v4, v5, v6, v8, v9, v10, v13>> /\ v11' = None
        /\ Moves!MayBegin /\ v11 # None
    BY <1>8 DEF Moves!RunUndo, Moves!server, Moves!screen
  <2>2. "undoBulk" \in Moves!Kinds \ {"over"} /\ "undoBulk" \notin Moves!Forward
    BY DEF Moves!Kinds, Moves!Forward
  <2>3. v11.undos \in SUBSET Met(v2) /\ v11.undos \subseteq v3
    BY <1>1, <2>1 DEF Laid, Offers
  <2>. QED
    BY <2>1, <2>2, <2>3, BeginKeepsMoves
<1>9. CASE Moves!MarkSeen
  <2>1. /\ Moves!Begin("seen", {}, v12 + 1) /\ v12' = v12 + 1 /\ v7' = v7 /\ v8' = {}
        /\ UNCHANGED <<v1, v2, v3, v4, v5, v6, v9, v10, v11, v13>> /\ Moves!MayBegin
    BY <1>9 DEF Moves!MarkSeen, Moves!server, Moves!screen
  <2>2. "seen" \in Moves!Kinds \ {"over"} /\ "seen" \notin Moves!Forward
    BY DEF Moves!Kinds, Moves!Forward
  <2>. QED
    BY <2>1, <2>2, BeginKeepsMoves
<1>. QED
  BY <1>4, <1>5, <1>6, <1>7, <1>8, <1>9

\* A batch that is told to stop is what it was otherwise.
LEMMA AbortedIsSound ==
  ASSUME NEW W, NEW V, NEW Z, NEW limit, NEW op, Sound(op, W, V, Z, limit)
  PROVE  Sound([op EXCEPT !.aborted = TRUE], W, V, Z, limit)
         /\ [op EXCEPT !.aborted = TRUE].aborted
         /\ [op EXCEPT !.aborted = TRUE].kind = op.kind
         /\ [op EXCEPT !.aborted = TRUE].gen = op.gen
<1> DEFINE a == [op EXCEPT !.aborted = TRUE]
<1>1. /\ Typed(a, V) /\ a.aborted
      /\ a.kind = op.kind /\ a.todo = op.todo /\ a.flight = op.flight /\ a.keys = op.keys
      /\ a.done = op.done /\ a.failed = op.failed /\ a.undos = op.undos /\ a.gen = op.gen
  BY DEF Sound, Typed
<1> HIDE DEF a
<1>2. Balanced(a, limit) /\ Says(a, W, V, Z)
  BY <1>1 DEF Sound, Balanced, Says
<1>. QED
  BY <1>1, <1>2 DEF Sound, a

LEMMA UnmountKeepsMoves ==
  ASSUME Moves!MovesInv, v15' = v15, Moves!Unmount PROVE Moves!MovesInv'
<1>1. Laid /\ Offers /\ Queued
  BY InvIsLaid
<1>2. /\ v13' = FALSE /\ UNCHANGED <<v1, v2, v3, v4, v5, v6, v7, v8, v9, v10, v11, v12>>
  BY DEF Moves!Unmount, Moves!server, Moves!screen
<1>3. PICK B : v14 \in Seq(B)
  BY <1>1 DEF Queued
<1>4. DOMAIN v14 = 1 .. Len(v14) /\ Len(v14) \in Nat
  BY <1>3, LenProperties
<1> DEFINE Stop(op) == IF op.kind \in {"bulk", "undoBulk"} /\ ~Moves!Finished(op)
                       THEN [op EXCEPT !.aborted = TRUE] ELSE op
<1>5. v14' = [i \in 1 .. Len(v14) |-> Stop(v14[i])]
  BY <1>4 DEF Moves!Unmount
<1>6. ASSUME NEW i \in 1 .. Len(v14)
      PROVE  /\ Sound(Stop(v14[i]), v1, v2, v3, v15.limit)
             /\ Stop(v14[i]).aborted \/ Stop(v14[i]).todo = <<>>
             /\ Stop(v14[i]).kind = v14[i].kind /\ Stop(v14[i]).gen = v14[i].gen
  <2>1. Sound(v14[i], v1, v2, v3, v15.limit)
    BY <1>1 DEF Queued, Running
  <2>2. CASE v14[i].kind \in {"bulk", "undoBulk"} /\ ~Moves!Finished(v14[i])
    BY <2>1, <2>2, AbortedIsSound
  <2>3. CASE Moves!Finished(v14[i])
    BY <2>1, <2>3 DEF Moves!Finished
  <2>4. CASE v14[i].kind \notin {"bulk", "undoBulk"}
    <3>1. v14[i].kind \in Moves!Kinds
      BY <2>1, TypedFields DEF Sound
    <3>2. v14[i].todo = <<>>
      BY <2>1, <2>4, <3>1 DEF Sound, Balanced, Moves!Kinds
    <3>. QED
      BY <2>1, <2>4, <3>2
  <2>. QED
    BY <2>2, <2>3, <2>4
<1> HIDE DEF Stop
<1>7. /\ \E C : v14' \in Seq(C)
      /\ Len(v14') = Len(v14)
      /\ \A i \in 1 .. Len(v14) : v14'[i] = Stop(v14[i])
  <2>1. v14' \in Seq({Stop(v14[i]) : i \in 1 .. Len(v14)})
    BY <1>4, <1>5
  <2>2. Len(v14') = Len(v14) /\ \A i \in 1 .. Len(v14) : v14'[i] = Stop(v14[i])
    BY <1>4, <1>5
  <2>. QED
    BY <2>1, <2>2
<1>8. Running(v14', v1, v2, v3, v15.limit, v13')
  BY <1>6, <1>7 DEF Running
<1>11. Numbered(v14', v12', v11')
  <2>1. Numbered(v14, v12, v11)
    BY <1>1 DEF Queued
  <2>. QED
    BY <1>2, <1>6, <1>7, <2>1 DEF Numbered
<1>9. Queued'
  BY <1>1, <1>2, <1>7, <1>8, <1>11 DEF Queued
<1>10. Laid' /\ Offers'
  BY <1>1, <1>2 DEF Laid, Offers
<1>. QED
  BY <1>2, <1>9, <1>10, LaidIsInv

\* The mailbox goes from W, V to W2, V2: a UID is never given again, so what is
\* put back home is put back under a new one.
Ages(W, V, W2, V2) ==
  /\ V \in [MovesMsgs -> 0 .. MovesMaxVer] /\ V2 \in [MovesMsgs -> 0 .. MovesMaxVer]
  /\ \A m \in MovesMsgs : /\ V[m] <= V2[m]
                          /\ W2[m] = Moves!Home /\ W[m] # Moves!Home => V[m] < V2[m]

\* What was met stays met, and what is gone under a key met stays gone.
LEMMA GoneStaysGone ==
  ASSUME NEW W, NEW V, NEW W2, NEW V2, Ages(W, V, W2, V2)
  PROVE  /\ Met(V) \subseteq Met(V2)
         /\ \A k \in Met(V) : Holds(k, W2, V2) => Holds(k, W, V)
<1>. SUFFICES ASSUME NEW k \in Met(V)
              PROVE  k \in Met(V2) /\ (Holds(k, W2, V2) => Holds(k, W, V))
  OBVIOUS
<1>1. k \in Moves!Keys /\ k[1] \in MovesMsgs /\ k[2] \in 0 .. MovesMaxVer /\ k[2] <= V[k[1]]
  BY DEF Met, Moves!Keys
<1>2. V[k[1]] \in 0 .. MovesMaxVer /\ V2[k[1]] \in 0 .. MovesMaxVer /\ V[k[1]] <= V2[k[1]]
  BY <1>1 DEF Ages
<1> DEFINE x == k[2]
           y == V[k[1]]
           z == V2[k[1]]
<1>3. {x, y, z} \subseteq Int /\ x <= y /\ y <= z
  BY <1>1, <1>2, MovesAssumption
<1>4. W2[k[1]] = Moves!Home /\ W[k[1]] # Moves!Home => y < z
  BY <1>1 DEF Ages
<1> HIDE DEF x, y, z
<1>5. x <= z /\ (z = x => y = x)
  BY <1>3
<1>6. k \in Met(V2)
  BY <1>1, <1>5 DEF Met, x, z
<1>7. ASSUME Holds(k, W2, V2) PROVE Holds(k, W, V)
  <2>1. W2[k[1]] = Moves!Home /\ z = x
    BY <1>7 DEF Holds, x, z
  <2>2. y = x /\ z = y
    BY <1>5, <2>1
  <2>3. ~(y < z)
    BY <1>3, <2>2
  <2>. QED
    BY <1>4, <2>1, <2>2, <2>3 DEF Holds, x, y
<1>. QED
  BY <1>6, <1>7

LEMMA SoundAges ==
  ASSUME NEW W, NEW V, NEW W2, NEW V2, Ages(W, V, W2, V2),
         NEW Z, NEW Z2, Z \subseteq Z2, NEW limit, NEW op, Sound(op, W, V, Z, limit)
  PROVE  Sound(op, W2, V2, Z2, limit)
<1>1. Met(V) \subseteq Met(V2)
  BY GoneStaysGone
<1>2. op.todo \in Seq(Met(V2))
  BY <1>1, TypedFields, SeqMonotonic DEF Sound
<1>3. op.flight \in UNION {[S -> Moves!Outcomes] : S \in SUBSET Met(V2)}
  BY <1>1, TypedFields DEF Sound
<1>4. Typed(op, V2)
  BY <1>1, <1>2, <1>3 DEF Sound, Typed
<1>5. op.done \subseteq Met(V) /\ DOMAIN op.flight \subseteq Met(V)
  BY TypedFields DEF Sound
<1>6. Says(op, W2, V2, Z2)
  BY <1>5, GoneStaysGone DEF Sound, Says
<1>. QED
  BY <1>4, <1>6 DEF Sound

\* A request out is served.
LEMMA ServedOpIsSound ==
  ASSUME NEW W, NEW V, NEW Z, NEW limit, NEW op, Sound(op, W, V, Z, limit),
         NEW k \in DOMAIN op.flight, NEW outcome \in Moves!Outcomes,
         op.kind \in Moves!Forward =>
           /\ outcome = "moved" => k \in Z
           /\ outcome \in {"moved", "unnamed", "gone"} => ~Holds(k, W, V)
  PROVE  LET b == [op EXCEPT !.flight[k] = outcome]
         IN /\ Sound(b, W, V, Z, limit)
            /\ b.kind = op.kind /\ b.keys = op.keys /\ b.aborted = op.aborted
            /\ b.todo = op.todo /\ DOMAIN b.flight = DOMAIN op.flight /\ b.gen = op.gen
<1> DEFINE f == [op.flight EXCEPT ![k] = outcome]
           b == [op EXCEPT !.flight[k] = outcome]
<1>1. DOMAIN f = DOMAIN op.flight
      /\ \A j \in DOMAIN op.flight : f[j] = IF j = k THEN outcome ELSE op.flight[j]
  OBVIOUS
<1>2. op.flight \in [DOMAIN op.flight -> Moves!Outcomes] /\ DOMAIN op.flight \in SUBSET Met(V)
  BY TypedFields DEF Sound
<1>3. f \in [DOMAIN op.flight -> Moves!Outcomes]
  BY <1>2
<1>4. b = [op EXCEPT !.flight = f]
  OBVIOUS
<1> HIDE DEF f, b
<1>5. f \in UNION {[S -> Moves!Outcomes] : S \in SUBSET Met(V)}
  BY <1>2, <1>3
<1>6. /\ Typed(b, V) /\ b.flight = f
      /\ b.kind = op.kind /\ b.todo = op.todo /\ b.keys = op.keys /\ b.done = op.done
      /\ b.failed = op.failed /\ b.undos = op.undos /\ b.aborted = op.aborted
      /\ b.gen = op.gen
  BY <1>4, <1>5 DEF Sound, Typed
<1>7. Balanced(b, limit)
  BY <1>1, <1>6 DEF Sound, Balanced
<1>8. Says(b, W, V, Z)
  BY <1>1, <1>6 DEF Sound, Says
<1>. QED
  BY <1>1, <1>6, <1>7, <1>8 DEF Sound, b

\* The mailbox ages, and a request of a batch may be served with it.
LEMMA AgingKeepsMoves ==
  ASSUME Moves!MovesInv, Ages(v1, v2, v1', v2'),
         v1' \in [MovesMsgs -> {Moves!Home, Moves!Elsewhere} \union Moves!Keys],
         v3 \subseteq v3', v3' \subseteq Met(v2'), v4' \subseteq Met(v2'),
         UNCHANGED <<v5, v6, v7, v8, v9, v10, v11, v12, v13, v15>>,
         \/ v14' = v14
         \/ \E i \in DOMAIN v14 : \E k \in DOMAIN v14[i].flight, outcome \in Moves!Outcomes :
              /\ Moves!Serve(i, k, outcome)
              /\ v14[i].kind \in Moves!Forward =>
                   /\ outcome = "moved" => k \in v3'
                   /\ outcome \in {"moved", "unnamed", "gone"} => ~Holds(k, v1', v2')
  PROVE  Moves!MovesInv'
<1>1. Laid /\ Offers /\ Queued /\ (v13 => Hides(v7, v14, v1, v2))
  BY InvIsLaid
<1>2. Met(v2) \subseteq Met(v2') /\ \A k \in Met(v2) : Holds(k, v1', v2') => Holds(k, v1, v2)
  BY GoneStaysGone
<1>3. v2' \in [MovesMsgs -> 0 .. MovesMaxVer]
  BY DEF Ages
<1>4. Laid'
  BY <1>1, <1>2, <1>3 DEF Laid
<1>5. Offers'
  BY <1>1 DEF Offers
<1>6. PICK B : v14 \in Seq(B)
  BY <1>1 DEF Queued
<1>7. DOMAIN v14 = 1 .. Len(v14) /\ Len(v14) \in Nat
  BY <1>6, LenProperties
<1>8. \A i \in 1 .. Len(v14) : Sound(v14[i], v1', v2', v3', v15.limit)
  BY <1>1, SoundAges DEF Queued, Running
\* Every batch is what it was but for an answer, and sound.
<1>9. /\ \E C : v14' \in Seq(C)
      /\ Len(v14') = Len(v14)
      /\ \A i \in 1 .. Len(v14) :
           /\ Sound(v14'[i], v1', v2', v3', v15.limit)
           /\ v14'[i].kind = v14[i].kind /\ v14'[i].keys = v14[i].keys
           /\ v14'[i].aborted = v14[i].aborted /\ v14'[i].todo = v14[i].todo
           /\ DOMAIN v14'[i].flight = DOMAIN v14[i].flight /\ v14'[i].gen = v14[i].gen
  <2>1. CASE v14' = v14
    BY <1>6, <1>8, <2>1
  <2>2. ASSUME NEW i \in DOMAIN v14, NEW k \in DOMAIN v14[i].flight,
               NEW outcome \in Moves!Outcomes, Moves!Serve(i, k, outcome),
               v14[i].kind \in Moves!Forward =>
                 /\ outcome = "moved" => k \in v3'
                 /\ outcome \in {"moved", "unnamed", "gone"} => ~Holds(k, v1', v2')
        PROVE  <1>9
    <3> DEFINE b == [v14[i] EXCEPT !.flight[k] = outcome]
    <3>1. v14' = [v14 EXCEPT ![i] = b]
      BY <2>2 DEF Moves!Serve
    <3>2. /\ Sound(b, v1', v2', v3', v15.limit)
          /\ b.kind = v14[i].kind /\ b.keys = v14[i].keys /\ b.aborted = v14[i].aborted
          /\ b.todo = v14[i].todo /\ DOMAIN b.flight = DOMAIN v14[i].flight
          /\ b.gen = v14[i].gen
      BY <1>7, <1>8, <2>2, ServedOpIsSound
    <3> HIDE DEF b
    <3>3. v14' \in Seq(B \union {b}) /\ Len(v14') = Len(v14)
          /\ \A j \in 1 .. Len(v14) : v14'[j] = IF j = i THEN b ELSE v14[j]
      <4>1. v14 \in Seq(B \union {b}) /\ i \in 1 .. Len(v14)
        BY <1>6, <1>7, SeqMonotonic
      <4>. QED
        BY <3>1, <4>1, ExceptSeq
    <3>. QED
      BY <1>8, <3>2, <3>3
  <2>. QED
    BY <2>1, <2>2
<1>12. Numbered(v14', v12, v11)
  BY <1>1, <1>9 DEF Queued, Numbered
<1>10. Queued'
  BY <1>1, <1>9, <1>12 DEF Queued, Running
<1>11. ASSUME v13 PROVE Hides(v7, v14', v1', v2')
  <2>. SUFFICES ASSUME NEW k \in v7, Holds(k, v1', v2')
                PROVE  \E i \in 1 .. Len(v14') :
                         /\ v14'[i].kind \in Moves!Forward
                         /\ ~Moves!Finished(v14'[i]) /\ k \in v14'[i].keys
    BY DEF Hides
  <2>1. Holds(k, v1, v2)
    BY <1>1, <1>2 DEF Laid
  <2>2. PICK i \in 1 .. Len(v14) : /\ v14[i].kind \in Moves!Forward
                                   /\ ~Moves!Finished(v14[i]) /\ k \in v14[i].keys
    BY <1>1, <1>11, <2>1 DEF Hides
  <2>3. ~Moves!Finished(v14'[i])
    BY <1>9, <2>2 DEF Moves!Finished
  <2>. QED
    BY <1>9, <2>2, <2>3
<1>. QED
  BY <1>4, <1>5, <1>10, <1>11, LaidIsInv

\* The service answers a move or an undo, or refuses it.
LEMMA ServeKeepsMoves ==
  ASSUME Moves!MovesInv, v15' = v15, Moves!ServeRequest PROVE Moves!MovesInv'
<1>1. Laid
  BY InvIsLaid
<1>2. UNCHANGED <<v5, v6, v7, v8, v9, v10, v11, v12, v13>>
  BY DEF Moves!ServeRequest, Moves!screen
<1>3. PICK i \in DOMAIN v14 : \E k \in DOMAIN v14[i].flight :
        Moves!ServeMove(i, k) \/ Moves!ServeUndo(i, k) \/ Moves!Refuse(i, k)
  BY DEF Moves!ServeRequest
<1>4. PICK k \in DOMAIN v14[i].flight :
        Moves!ServeMove(i, k) \/ Moves!ServeUndo(i, k) \/ Moves!Refuse(i, k)
  BY <1>3
<1>5. i \in 1 .. Len(v14) /\ Sound(v14[i], v1, v2, v3, v15.limit)
  <2>1. DOMAIN v14 = 1 .. Len(v14)
    BY InvIsLaid, LenProperties DEF Queued
  <2>. QED
    BY <1>3, <2>1, InvIsLaid DEF Queued, Running
<1>6. k \in Met(v2) /\ k \in Moves!Keys /\ k[1] \in MovesMsgs
  <2>1. DOMAIN v14[i].flight \in SUBSET Met(v2)
    BY <1>5, TypedFields DEF Sound
  <2>2. k \in Met(v2)
    BY <1>4, <2>1
  <2>. QED
    BY <2>2 DEF Met, Moves!Keys
<1>7. Moves!Home # Moves!Elsewhere /\ \A j \in Moves!Keys : j # Moves!Home
  BY DEF Moves!Home, Moves!Elsewhere, Moves!Keys
<1>8. /\ v1 \in [MovesMsgs -> {Moves!Home, Moves!Elsewhere} \union Moves!Keys]
      /\ v2 \in [MovesMsgs -> 0 .. MovesMaxVer] /\ v3 \subseteq Met(v2) /\ v4 \subseteq Met(v2)
  BY <1>1 DEF Laid
<1>9. \A m \in MovesMsgs : v2[m] \in Int
  BY <1>8, MovesAssumption
<1>10. {"moved", "unnamed", "gone", "refused"} \subseteq Moves!Outcomes
  BY DEF Moves!Outcomes
<1>11. Ages(v1, v2, v1, v2)
  BY <1>8, <1>9 DEF Ages
<1>12. CASE Moves!ServeMove(i, k)
  <2>1. v4' \subseteq v4 /\ v2' = v2 /\ v14[i].kind \in Moves!Forward
    BY <1>12 DEF Moves!ServeMove
  <2>2. CASE /\ v1' = [v1 EXCEPT ![k[1]] = k]
             /\ \/ Moves!Serve(i, k, "moved") /\ v3' = v3 \union {k}
                \/ Moves!Serve(i, k, "unnamed") /\ v3' = v3
    <3>1. v1' \in [MovesMsgs -> {Moves!Home, Moves!Elsewhere} \union Moves!Keys]
      BY <1>6, <1>8, <2>2
    <3>2. v1'[k[1]] = k /\ \A m \in MovesMsgs : v1'[m] = Moves!Home => v1[m] = Moves!Home
      BY <1>6, <1>7, <1>8, <2>2
    <3>3. Ages(v1, v2, v1', v2')
      BY <1>8, <1>9, <2>1, <3>2 DEF Ages
    <3>4. ~Holds(k, v1', v2')
      BY <1>6, <1>7, <3>2 DEF Holds
    <3>5. v3 \subseteq v3' /\ v3' \subseteq Met(v2') /\ v4' \subseteq Met(v2')
      BY <1>6, <1>8, <2>1, <2>2
    <3>. QED
      BY <1>2, <1>4, <1>10, <2>2, <3>1, <3>3, <3>4, <3>5, AgingKeepsMoves
  <2>3. CASE ~Moves!Live(k) /\ Moves!Serve(i, k, "gone") /\ UNCHANGED <<v1, v3>>
    <3>1. ~Holds(k, v1', v2')
      BY <2>1, <2>3 DEF Moves!Live, Holds
    <3>2. v3 \subseteq v3' /\ v3' \subseteq Met(v2') /\ v4' \subseteq Met(v2')
          /\ Ages(v1, v2, v1', v2')
      BY <1>8, <1>11, <2>1, <2>3
    <3>. QED
      BY <1>2, <1>4, <1>8, <1>10, <2>3, <3>1, <3>2, AgingKeepsMoves
  <2>. QED
    BY <1>12, <2>2, <2>3 DEF Moves!ServeMove
<1>13. CASE Moves!ServeUndo(i, k)
  <2>1. UNCHANGED <<v3, v4>> /\ v14[i].kind \notin Moves!Forward
    BY <1>13 DEF Moves!ServeUndo
  <2>2. CASE /\ v1[k[1]] = k /\ v2[k[1]] < MovesMaxVer
             /\ v1' = [v1 EXCEPT ![k[1]] = Moves!Home]
             /\ v2' = [v2 EXCEPT ![k[1]] = @ + 1]
             /\ Moves!Serve(i, k, "moved")
    <3>1. v1' \in [MovesMsgs -> {Moves!Home, Moves!Elsewhere} \union Moves!Keys]
      BY <1>6, <1>8, <2>2
    <3>2. v2[k[1]] + 1 \in 0 .. MovesMaxVer /\ v2[k[1]] < v2[k[1]] + 1
          /\ v2[k[1]] <= v2[k[1]] + 1
      <4> DEFINE x == v2[k[1]]
      <4>1. x \in 0 .. MovesMaxVer /\ x < MovesMaxVer
        BY <1>6, <1>8, <2>2
      <4> HIDE DEF x
      <4>2. x + 1 \in 0 .. MovesMaxVer /\ x < x + 1 /\ x <= x + 1
        BY <4>1, MovesAssumption
      <4>. QED
        BY <4>2 DEF x
    <3>3. v2' \in [MovesMsgs -> 0 .. MovesMaxVer]
      BY <1>6, <1>8, <2>2, <3>2
    <3>4. ASSUME NEW m \in MovesMsgs
          PROVE  /\ v2[m] <= v2'[m]
                 /\ v1'[m] = Moves!Home /\ v1[m] # Moves!Home => v2[m] < v2'[m]
      <4>1. CASE m = k[1]
        <5>1. v2'[m] = v2[k[1]] + 1 /\ v2[m] = v2[k[1]]
          BY <1>6, <1>8, <2>2, <4>1
        <5>. QED
          BY <3>2, <5>1
      <4>2. CASE m # k[1]
        <5>1. v2'[m] = v2[m] /\ v1'[m] = v1[m]
          BY <1>8, <2>2, <4>2
        <5>2. v2[m] <= v2[m]
          BY <1>9
        <5>. QED
          BY <5>1, <5>2
      <4>. QED
        BY <4>1, <4>2
    <3>5. Ages(v1, v2, v1', v2')
      BY <1>8, <3>3, <3>4 DEF Ages
    <3>6. v3 \subseteq v3' /\ v3' \subseteq Met(v2') /\ v4' \subseteq Met(v2')
      BY <1>8, <2>1, <3>5, GoneStaysGone
    <3>. QED
      BY <1>2, <1>4, <1>10, <2>1, <2>2, <3>1, <3>5, <3>6, AgingKeepsMoves
  <2>3. CASE Moves!Serve(i, k, "gone") /\ UNCHANGED <<v1, v2>>
    <3>1. v3 \subseteq v3' /\ v3' \subseteq Met(v2') /\ v4' \subseteq Met(v2')
          /\ Ages(v1, v2, v1', v2')
      BY <1>8, <1>11, <2>1, <2>3
    <3>. QED
      BY <1>2, <1>4, <1>8, <1>10, <2>1, <2>3, <3>1, AgingKeepsMoves
  <2>. QED
    BY <1>13, <2>2, <2>3 DEF Moves!ServeUndo
<1>14. CASE Moves!Refuse(i, k)
  <2>1. Moves!Serve(i, k, "refused") /\ UNCHANGED <<v1, v2, v3, v4>>
    BY <1>14 DEF Moves!Refuse, Moves!server
  <2>2. v3 \subseteq v3' /\ v3' \subseteq Met(v2') /\ v4' \subseteq Met(v2')
        /\ Ages(v1, v2, v1', v2')
    BY <1>8, <1>11, <2>1
  <2>. QED
    BY <1>2, <1>4, <1>8, <1>10, <2>1, <2>2, AgingKeepsMoves
<1>. QED
  BY <1>4, <1>12, <1>13, <1>14

\* Another client moves a message away, and the store is brought up to date.
LEMMA MailboxKeepsMoves ==
  ASSUME Moves!MovesInv, v15' = v15, Moves!OtherClientMoves \/ Moves!Sync
  PROVE  Moves!MovesInv'
<1>1. /\ v1 \in [MovesMsgs -> {Moves!Home, Moves!Elsewhere} \union Moves!Keys]
      /\ v2 \in [MovesMsgs -> 0 .. MovesMaxVer] /\ v3 \subseteq Met(v2) /\ v4 \subseteq Met(v2)
  BY InvIsLaid DEF Laid
<1>2. \A m \in MovesMsgs : v2[m] \in Int
  BY <1>1, MovesAssumption
<1>3. UNCHANGED <<v2, v3, v5, v6, v7, v8, v9, v10, v11, v12, v13, v14>>
  BY DEF Moves!OtherClientMoves, Moves!Sync, Moves!screen
<1>4. /\ v1' \in [MovesMsgs -> {Moves!Home, Moves!Elsewhere} \union Moves!Keys]
      /\ \A m \in MovesMsgs : v1'[m] = Moves!Home => v1[m] = Moves!Home
  <2>1. CASE Moves!OtherClientMoves
    <3>1. PICK m \in MovesMsgs : v1' = [v1 EXCEPT ![m] = Moves!Elsewhere]
      BY <2>1 DEF Moves!OtherClientMoves
    <3>2. Moves!Home # Moves!Elsewhere
      BY DEF Moves!Home, Moves!Elsewhere
    <3>. QED
      BY <1>1, <3>1, <3>2
  <2>2. CASE Moves!Sync
    BY <1>1, <2>2 DEF Moves!Sync
  <2>. QED
    BY <2>1, <2>2
<1>5. Ages(v1, v2, v1', v2')
  BY <1>1, <1>2, <1>3, <1>4 DEF Ages
<1>6. v4' \subseteq Met(v2)
  <2>1. CASE Moves!OtherClientMoves
    BY <1>1, <2>1 DEF Moves!OtherClientMoves
  <2>2. ASSUME NEW m \in MovesMsgs PROVE <<m, v2[m]>> \in Met(v2)
    <3> DEFINE k == <<m, v2[m]>>
    <3>1. k \in Moves!Keys /\ k[1] = m /\ k[2] = v2[m]
      BY <1>1 DEF Moves!Keys
    <3>2. v2[m] <= v2[m]
      BY <1>2
    <3> HIDE DEF k
    <3>3. k \in Met(v2)
      BY <3>1, <3>2 DEF Met
    <3>. QED
      BY <3>3 DEF k
  <2>3. CASE Moves!Sync
    BY <2>2, <2>3 DEF Moves!Sync
  <2>. QED
    BY <2>1, <2>3
<1>. QED
  BY <1>1, <1>3, <1>4, <1>5, <1>6, AgingKeepsMoves

\* An answer comes: the key is done or failed, the next slot is claimed.
LEMMA AnsweredIsSound ==
  ASSUME NEW W, NEW V, NEW Z, NEW op, Sound(op, W, V, Z, v15.limit), v15 \in MovesTrials,
         NEW k \in DOMAIN op.flight, NEW ok \in BOOLEAN,
         op.flight[k] # "sent", ok => op.flight[k] # "refused"
  PROVE  LET c == Moves!Answered(op, k, ok)
         IN /\ Sound(c, W, V, Z, v15.limit)
            /\ c.kind = op.kind /\ c.keys = op.keys /\ c.gen = op.gen
            /\ c.aborted = op.aborted
            /\ op.aborted \/ op.todo = <<>> =>
                 c.todo = <<>> /\ DOMAIN c.flight \subseteq DOMAIN op.flight
<1> DEFINE f == [j \in DOMAIN op.flight \ {k} |-> op.flight[j]]
           done == IF ok THEN op.done \union {k} ELSE op.done
           failed == IF ok THEN op.failed ELSE op.failed \union {k}
           undos == IF ok /\ op.kind \in Moves!Forward /\ op.flight[k] = "moved"
                    THEN op.undos \union {k} ELSE op.undos
           b == [op EXCEPT !.flight = f, !.done = done, !.failed = failed, !.undos = undos]
           c == Moves!Answered(op, k, ok)
<1>1. c = Moves!Claim(b)
  BY DEF Moves!Answered
<1>2. /\ op.flight \in [DOMAIN op.flight -> Moves!Outcomes] /\ DOMAIN op.flight \in SUBSET Met(V)
      /\ op.done \in SUBSET Met(V) /\ op.failed \in SUBSET Met(V) /\ op.undos \in SUBSET Met(V)
      /\ op.todo \in Seq(Met(V)) /\ op.kind \in Moves!Kinds
  BY TypedFields DEF Sound
<1>3. /\ f \in [DOMAIN op.flight \ {k} -> Moves!Outcomes] /\ DOMAIN f = DOMAIN op.flight \ {k}
      /\ \A j \in DOMAIN f : f[j] = op.flight[j]
  BY <1>2
<1>4. done \in SUBSET Met(V) /\ failed \in SUBSET Met(V) /\ undos \in SUBSET Met(V)
      /\ done \union failed = op.done \union op.failed \union {k}
      /\ done \subseteq op.done \union {k} /\ (k \in done /\ k \notin op.done => ok)
      /\ undos \subseteq op.undos \union {k}
      /\ (k \in undos /\ k \notin op.undos =>
            ok /\ op.kind \in Moves!Forward /\ op.flight[k] = "moved")
  BY <1>2
<1> HIDE DEF f, done, failed, undos
<1>5. f \in UNION {[S -> Moves!Outcomes] : S \in SUBSET Met(V)}
  <2>1. DOMAIN op.flight \ {k} \in SUBSET Met(V)
    BY <1>2
  <2>. QED
    BY <1>3, <2>1
<1>6. /\ Typed(b, V) /\ b.flight = f /\ b.done = done /\ b.failed = failed /\ b.undos = undos
      /\ b.kind = op.kind /\ b.todo = op.todo /\ b.keys = op.keys /\ b.gen = op.gen
      /\ b.aborted = op.aborted
  BY <1>4, <1>5 DEF Sound, Typed
<1> HIDE DEF b, c
<1>7. Cardinality(DOMAIN b.flight) <= v15.limit
  <2>1. IsFiniteSet(DOMAIN op.flight) /\ Cardinality(DOMAIN op.flight) \in Nat
    BY <1>2, MetIsFinite, FS_CardinalityType
  <2>2. Cardinality(DOMAIN f) = Cardinality(DOMAIN op.flight) - 1
    BY <1>3, <2>1, FS_RemoveElement
  <2>3. Cardinality(DOMAIN op.flight) <= v15.limit /\ v15.limit \in Nat
    BY MovesAssumption DEF Sound, Balanced
  <2>. QED
    BY <1>6, <2>1, <2>2, <2>3
<1>8. /\ Typed(c, V)
      /\ c.kind = b.kind /\ c.keys = b.keys /\ c.done = b.done
      /\ c.undos = b.undos /\ c.gen = b.gen /\ c.aborted = b.aborted
      /\ c.failed \union DOMAIN c.flight \union Moves!Range(c.todo)
           = b.failed \union DOMAIN b.flight \union Moves!Range(b.todo)
      /\ Cardinality(DOMAIN c.flight) <= v15.limit
      /\ \A j \in DOMAIN c.flight :
           c.flight[j] = "sent" \/ (j \in DOMAIN b.flight /\ c.flight[j] = b.flight[j])
      /\ b.aborted \/ b.todo = <<>> => c.todo = <<>> /\ DOMAIN c.flight = DOMAIN b.flight
  BY <1>1, <1>6, <1>7, ClaimKeeps
<1>9. c.keys = c.done \union c.failed \union DOMAIN c.flight \union Moves!Range(c.todo)
  <2>1. op.keys = op.done \union op.failed \union DOMAIN op.flight \union Moves!Range(op.todo)
    BY DEF Sound, Balanced
  <2>2. c.done \union c.failed \union DOMAIN c.flight \union Moves!Range(c.todo)
          = done \union failed \union DOMAIN f \union Moves!Range(op.todo)
    BY <1>6, <1>8
  <2>. QED
    BY <1>3, <1>4, <1>6, <1>8, <2>1, <2>2
<1>10. Balanced(c, v15.limit)
  BY <1>6, <1>8, <1>9 DEF Sound, Balanced
<1>11. Says(c, W, V, Z)
  <2>1. CASE op.kind \in Moves!Forward
    <3>1. /\ op.undos \subseteq Z
          /\ \A j \in op.done : ~Holds(j, W, V)
          /\ \A j \in DOMAIN op.flight :
               /\ op.flight[j] = "moved" => j \in Z
               /\ op.flight[j] \in {"moved", "unnamed", "gone"} => ~Holds(j, W, V)
      BY <2>1 DEF Sound, Says
    <3>2. ok => op.flight[k] \in {"moved", "unnamed", "gone"}
      BY <1>2 DEF Moves!Outcomes
    <3>3. c.undos \subseteq Z /\ \A j \in c.done : ~Holds(j, W, V)
      BY <1>4, <1>6, <1>8, <3>1, <3>2
    <3>4. \A j \in DOMAIN c.flight :
            /\ c.flight[j] = "moved" => j \in Z
            /\ c.flight[j] \in {"moved", "unnamed", "gone"} => ~Holds(j, W, V)
      BY <1>3, <1>6, <1>8, <3>1
    <3>. QED
      BY <1>6, <1>8, <2>1, <3>3, <3>4 DEF Says
  <2>2. CASE op.kind \notin Moves!Forward
    BY <1>6, <1>8, <2>2 DEF Sound, Says
  <2>. QED
    BY <2>1, <2>2
<1>. QED
  BY <1>3, <1>6, <1>8, <1>10, <1>11 DEF Sound, c

\* The report of a batch that is over, applied to the screen: of what it was to
\* move nothing stays hidden that the mailbox still holds.
LEMMA ReportIsApplied ==
  ASSUME Laid, Offers, NEW c, Sound(c, v1, v2, v3, v15.limit), Moves!Finished(c),
         c.kind \notin {"over", "seen"}, Moves!Settled(c)
  PROVE  /\ v7' \subseteq v7
         /\ v9' \in {v9, None} /\ (v9' # v9 => c.kind = "one" /\ v9 \in c.keys)
         /\ v10' = v10 \/ v10' \in v3
         /\ v11' = v11 \/ (v11' = [id |-> v12, undos |-> c.undos] /\ c.undos \subseteq v3)
         /\ c.kind \in Moves!Forward => \A k \in c.keys : k \in v7' => ~Holds(k, v1, v2)
<1>1. c.keys = c.done \union c.failed
  <2>1. Moves!Range(<<>>) = {}
    BY DEF Moves!Range
  <2>. QED
    BY <2>1 DEF Sound, Balanced, Moves!Finished
<1>2. c.kind \in Moves!Forward => c.undos \subseteq v3 /\ \A k \in c.done : ~Holds(k, v1, v2)
  BY DEF Sound, Says
<1>3. CASE c.kind = "bulk"
  <2>1. Moves!BulkMoveSettled(c) /\ c.kind \in Moves!Forward
    BY <1>3 DEF Moves!Settled, Moves!Forward
  <2>2. /\ v7' = v7 \ c.failed /\ UNCHANGED <<v9, v10>>
        /\ v11' = v11 \/ v11' = [id |-> v12, undos |-> c.undos]
    BY <2>1 DEF Moves!BulkMoveSettled
  <2>. QED
    BY <1>1, <1>2, <2>1, <2>2
<1>4. CASE c.kind = "one"
  <2> DEFINE k == CHOOSE j \in c.keys : TRUE
  <2>1. Moves!OneMoveSettled(c) /\ c.kind \in Moves!Forward
    BY <1>4 DEF Moves!Settled, Moves!Forward
  <2>2. c.keys = {k}
    BY <1>4 DEF Sound, Balanced
  <2>3. CASE k \in c.done
    <3>1. /\ UNCHANGED <<v7, v11>> /\ v9' = (IF v9 = k THEN None ELSE v9)
          /\ v10' = (IF k \in c.undos THEN k ELSE v10)
      BY <2>1, <2>3 DEF Moves!OneMoveSettled
    <3> HIDE DEF k
    <3>2. ~Holds(k, v1, v2) /\ c.undos \subseteq v3
      BY <1>2, <2>1, <2>3
    <3>3. v10' = v10 \/ v10' \in v3
      BY <3>1, <3>2
    <3>4. v9' \in {v9, None} /\ (v9' # v9 => v9 \in c.keys)
      BY <2>2, <3>1
    <3>5. \A j \in c.keys : ~Holds(j, v1, v2)
      BY <2>2, <3>2
    <3>. QED
      BY <1>4, <3>1, <3>3, <3>4, <3>5
  <2>4. CASE k \notin c.done
    <3>1. UNCHANGED <<v9, v10, v11>> /\ v7' = v7 \ {k}
      BY <2>1, <2>4 DEF Moves!OneMoveSettled
    <3> HIDE DEF k
    <3>. QED
      BY <2>2, <3>1
  <2>. QED
    BY <2>3, <2>4
<1>5. CASE c.kind \in {"undoOne", "undoBulk"}
  <2>1. v7' = v7 \ c.done /\ UNCHANGED <<v9, v10, v11>>
    BY <1>5 DEF Moves!Settled, Moves!OneUndoSettled, Moves!BulkUndoSettled
  <2>2. c.kind \notin Moves!Forward
    BY <1>5 DEF Moves!Forward
  <2>. QED
    BY <2>1, <2>2
<1>6. c.kind \in {"bulk", "one", "undoOne", "undoBulk"}
  BY TypedFields DEF Sound, Moves!Kinds
<1>. QED
  BY <1>3, <1>4, <1>5, <1>6

\* A batch that was forgotten says nothing.
LEMMA OverIsSound ==
  ASSUME NEW W, NEW V, NEW Z, NEW limit \in Nat, NEW op, op.gen \in 0 .. MovesMaxOps
  PROVE  Sound(Moves!Over(op), W, V, Z, limit)
<1> DEFINE b == [kind |-> "over", todo |-> <<>>, flight |-> <<>>, keys |-> {},
                 done |-> {}, failed |-> {}, undos |-> {}, gen |-> op.gen, aborted |-> FALSE]
<1>1. Moves!Over(op) = b
  BY DEF Moves!Over
<1>2. DOMAIN <<>> = {} /\ <<>> \in UNION {[S -> Moves!Outcomes] : S \in SUBSET Met(V)}
  <2>1. <<>> \in [{} -> Moves!Outcomes]
    OBVIOUS
  <2>. QED
    BY <2>1
<1>4. "over" \in Moves!Kinds /\ "over" \notin Moves!Forward
  BY DEF Moves!Kinds, Moves!Forward
<1>5. <<>> \in Seq(Met(V))
  OBVIOUS
<1>6. Typed(b, V)
  BY <1>2, <1>4, <1>5 DEF Typed
<1>7. Moves!Range(<<>>) = {}
  BY DEF Moves!Range
<1>8. Cardinality({}) <= limit
  BY FS_EmptySet
<1>9. Balanced(b, limit)
  BY <1>2, <1>7, <1>8 DEF Balanced
<1>10. Says(b, W, V, Z)
  BY <1>4 DEF Says
<1>. QED
  BY <1>1, <1>6, <1>9, <1>10 DEF Sound

\* What an answer does, in the words above: batch i becomes c, and its report is
\* applied when it is over and the app is on screen.
LEMMA AnswerIsApplied ==
  ASSUME Moves!MovesInv, Moves!AnswerArrives
  PROVE  \E i, c :
           /\ i \in 1 .. Len(v14)
           /\ Sound(c, v1, v2, v3, v15.limit)
           /\ c.kind = v14[i].kind /\ c.keys = v14[i].keys /\ c.gen = v14[i].gen
           /\ c.kind \notin {"over", "seen"}
           /\ c.aborted = v14[i].aborted
           /\ v14[i].aborted \/ v14[i].todo = <<>> =>
                c.todo = <<>> /\ DOMAIN c.flight \subseteq DOMAIN v14[i].flight
           /\ v14' = [v14 EXCEPT ![i] = IF Moves!Finished(c) THEN Moves!Over(c) ELSE c]
           /\ UNCHANGED <<v1, v2, v3, v4, v5, v6, v12, v13>> /\ v8' \subseteq v8
           /\ IF Moves!Finished(c) /\ v13 THEN Moves!Settled(c)
              ELSE UNCHANGED <<v7, v9, v10, v11>>
<1>1. PICK i \in DOMAIN v14 : \E k \in DOMAIN v14[i].flight, ok \in BOOLEAN : Moves!Answer(i, k, ok)
  BY DEF Moves!AnswerArrives
<1>2. PICK k \in DOMAIN v14[i].flight, ok \in BOOLEAN : Moves!Answer(i, k, ok)
  BY <1>1
<1> DEFINE c == Moves!Answered(v14[i], k, ok)
<1>3. /\ v14[i].flight[k] # "sent" /\ (ok => v14[i].flight[k] # "refused")
      /\ v14' = [v14 EXCEPT ![i] = IF Moves!Finished(c) THEN Moves!Over(c) ELSE c]
      /\ UNCHANGED <<v1, v2, v3, v4, v5, v6, v12, v13>> /\ v8' \subseteq v8
      /\ IF Moves!Finished(c) /\ v13 THEN Moves!Settled(c)
         ELSE UNCHANGED <<v7, v9, v10, v11>>
  BY <1>2 DEF Moves!Answer, Moves!server
<1> HIDE DEF c
<1>4. i \in 1 .. Len(v14) /\ Sound(v14[i], v1, v2, v3, v15.limit) /\ v15 \in MovesTrials
  <2>1. DOMAIN v14 = 1 .. Len(v14)
    BY InvIsLaid, LenProperties DEF Queued
  <2>. QED
    BY <1>1, <2>1, InvIsLaid DEF Queued, Running, Laid
<1>5. /\ Sound(c, v1, v2, v3, v15.limit)
      /\ c.kind = v14[i].kind /\ c.keys = v14[i].keys /\ c.aborted = v14[i].aborted
      /\ c.gen = v14[i].gen
      /\ v14[i].aborted \/ v14[i].todo = <<>> =>
           c.todo = <<>> /\ DOMAIN c.flight \subseteq DOMAIN v14[i].flight
  BY <1>2, <1>3, <1>4, AnsweredIsSound DEF c
<1>6. c.kind \notin {"over", "seen"}
  <2>1. k \in v14[i].keys
    BY <1>2, <1>4 DEF Sound, Balanced
  <2>. QED
    BY <1>4, <1>5, <2>1 DEF Sound, Balanced
<1>. QED
  BY <1>3, <1>4, <1>5, <1>6

LEMMA AnswerKeepsMoves ==
  ASSUME Moves!MovesInv, v15' = v15, Moves!AnswerArrives PROVE Moves!MovesInv'
<1>1. Laid /\ Offers /\ Queued /\ (v13 => Hides(v7, v14, v1, v2))
  BY InvIsLaid
<1>2. PICK i, c :
           /\ i \in 1 .. Len(v14)
           /\ Sound(c, v1, v2, v3, v15.limit)
           /\ c.kind = v14[i].kind /\ c.keys = v14[i].keys /\ c.gen = v14[i].gen
           /\ c.kind \notin {"over", "seen"}
           /\ c.aborted = v14[i].aborted
           /\ v14[i].aborted \/ v14[i].todo = <<>> =>
                c.todo = <<>> /\ DOMAIN c.flight \subseteq DOMAIN v14[i].flight
           /\ v14' = [v14 EXCEPT ![i] = IF Moves!Finished(c) THEN Moves!Over(c) ELSE c]
           /\ UNCHANGED <<v1, v2, v3, v4, v5, v6, v12, v13>> /\ v8' \subseteq v8
           /\ IF Moves!Finished(c) /\ v13 THEN Moves!Settled(c)
              ELSE UNCHANGED <<v7, v9, v10, v11>>
  BY AnswerIsApplied
<1>. i \in 1 .. Len(v14)
  BY <1>2
<1> DEFINE b == IF Moves!Finished(c) THEN Moves!Over(c) ELSE c
<1>3. /\ Sound(b, v1, v2, v3, v15.limit)
      /\ ~v13 => b.aborted \/ b.todo = <<>>
      /\ b.gen = v14[i].gen /\ (b.kind = "seen" <=> v14[i].kind = "seen")
  <2>1. v15.limit \in Nat
    BY <1>1, MovesAssumption DEF Laid
  <2>4. c.gen \in 0 .. MovesMaxOps
    BY <1>2, TypedFields DEF Sound
  <2>2. /\ Sound(Moves!Over(c), v1, v2, v3, v15.limit)
        /\ Moves!Over(c).todo = <<>> /\ Moves!Over(c).gen = c.gen /\ Moves!Over(c).kind = "over"
    BY <2>1, <2>4, OverIsSound DEF Moves!Over
  <2>3. ~v13 => c.aborted \/ c.todo = <<>>
    BY <1>1, <1>2 DEF Queued, Running
  <2>. QED
    BY <1>2, <2>2, <2>3
<1>4. v14' = [v14 EXCEPT ![i] = b]
  BY <1>2
<1> HIDE DEF b
<1>5. PICK B : v14 \in Seq(B)
  BY <1>1 DEF Queued
<1>6. /\ v14' \in Seq(B \union {b}) /\ Len(v14') = Len(v14)
      /\ \A j \in 1 .. Len(v14) : v14'[j] = IF j = i THEN b ELSE v14[j]
  <2>1. v14 \in Seq(B \union {b})
    BY <1>5, SeqMonotonic
  <2>. QED
    BY <1>4, <2>1, ExceptSeq
<1>7. Running(v14', v1, v2, v3, v15.limit, v13)
  BY <1>1, <1>3, <1>6 DEF Queued, Running
<1>11. ASSUME v11' = v11 \/ v11'.id = v12 PROVE Numbered(v14', v12', v11')
  <2>1. Numbered(v14, v12, v11)
    BY <1>1 DEF Queued
  <2>. QED
    BY <1>2, <1>3, <1>6, <1>11, <2>1 DEF Numbered
<1>8. ASSUME v11' = v11 \/ v11'.id = v12 PROVE Queued'
  BY <1>1, <1>2, <1>6, <1>7, <1>8, <1>11 DEF Queued
<1>9. CASE Moves!Finished(c) /\ v13
  <2>1. /\ v7' \subseteq v7
        /\ v9' \in {v9, None}
        /\ v10' = v10 \/ v10' \in v3
        /\ v11' = v11 \/ (v11' = [id |-> v12, undos |-> c.undos] /\ c.undos \subseteq v3)
        /\ c.kind \in Moves!Forward => \A k \in c.keys : k \in v7' => ~Holds(k, v1, v2)
    BY <1>1, <1>2, <1>9, ReportIsApplied
  <2>2. v12 \in 0 .. MovesMaxOps
    <3>1. v12 \in 0 .. Len(v14) /\ Len(v14) <= MovesMaxOps /\ Len(v14) \in Nat
      BY <1>1, <1>5, LenProperties DEF Queued
    <3>. QED
      BY <3>1, MovesAssumption
  <2>3. c.undos \in SUBSET Met(v2)
    BY <1>2, TypedFields DEF Sound
  <2>4. v11' \in [id: 0 .. MovesMaxOps, undos: SUBSET Met(v2)] \union {None}
        /\ (v11' # None => v11'.undos \subseteq v3)
    BY <1>1, <2>1, <2>2, <2>3 DEF Laid, Offers
  <2>8. v11' = v11 \/ v11'.id = v12
    BY <2>1
  <2>5. v10' \in Met(v2) \union {None} /\ (v10' # None => v10' \in v3)
    BY <1>1, <2>1 DEF Laid, Offers
  <2>6. Laid' /\ Offers'
    BY <1>1, <1>2, <2>1, <2>4, <2>5 DEF Laid, Offers
  <2>7. Hides(v7', v14', v1, v2)
    <3>. SUFFICES ASSUME NEW k \in v7', Holds(k, v1, v2)
                  PROVE  \E j \in 1 .. Len(v14') :
                           /\ v14'[j].kind \in Moves!Forward
                           /\ ~Moves!Finished(v14'[j]) /\ k \in v14'[j].keys
      BY DEF Hides
    <3>1. PICK j \in 1 .. Len(v14) : /\ v14[j].kind \in Moves!Forward
                                     /\ ~Moves!Finished(v14[j]) /\ k \in v14[j].keys
      BY <1>1, <1>9, <2>1 DEF Hides
    <3>2. j # i
      BY <1>2, <2>1, <3>1
    <3>. QED
      BY <1>6, <3>1, <3>2
  <2>. QED
    BY <1>2, <1>8, <2>6, <2>7, <2>8, LaidIsInv
<1>10. CASE ~(Moves!Finished(c) /\ v13)
  <2>1. UNCHANGED <<v7, v9, v10, v11>>
    BY <1>2, <1>10
  <2>2. Laid' /\ Offers'
    BY <1>1, <1>2, <2>1 DEF Laid, Offers
  <2>3. ASSUME v13 PROVE Hides(v7, v14', v1, v2)
    <3>1. b = c /\ ~Moves!Finished(b) /\ b.kind = v14[i].kind /\ b.keys = v14[i].keys
      BY <1>2, <1>10, <2>3 DEF b
    <3>. QED
      BY <1>1, <1>6, <2>3, <3>1 DEF Hides
  <2>. QED
    BY <1>2, <1>8, <2>1, <2>2, <2>3, LaidIsInv
<1>. QED
  BY <1>9, <1>10

LEMMA MovesInit == Moves!Init => Moves!MovesInv
<1>. SUFFICES ASSUME Moves!Init PROVE Moves!MovesInv
  OBVIOUS
<1>1. /\ v1 = [m \in MovesMsgs |-> Moves!Home] /\ v2 = [m \in MovesMsgs |-> 0]
      /\ v3 = {} /\ v4 = {<<m, 0>> : m \in MovesMsgs} /\ v5 = "inbox" /\ v6 = {} /\ v9 = None
      /\ v7 = {} /\ v8 = {} /\ v10 = None /\ v11 = None /\ v14 = <<>> /\ v15 \in MovesTrials
  BY DEF Moves!Init
<1>2. v12 = 0
  BY DEF Moves!Init
<1>3. v13 = TRUE
  BY DEF Moves!Init
<1>4. MovesMaxVer \in Nat /\ MovesMaxOps \in Nat
  BY MovesAssumption
<1>5. v2 \in [MovesMsgs -> 0 .. MovesMaxVer]
  <2>1. 0 \in 0 .. MovesMaxVer
    BY <1>4
  <2>. QED
    BY <1>1, <2>1
<1>6. v4 \subseteq Moves!Known
  <2>. SUFFICES ASSUME NEW m \in MovesMsgs PROVE <<m, 0>> \in Moves!Known
    BY <1>1
  <2> DEFINE k == <<m, 0>>
  <2>1. k \in Moves!Keys /\ k[1] = m /\ k[2] = 0
    BY <1>4 DEF Moves!Keys
  <2>2. v2[m] = 0
    BY <1>1
  <2> HIDE DEF k
  <2>3. k[2] <= v2[k[1]]
    BY <2>1, <2>2
  <2>4. k \in Moves!Known
    BY <2>1, <2>3 DEF Moves!Known
  <2>. QED
    BY <2>4 DEF k
<1>7. v14 \in Seq(Moves!Ops) /\ Len(v14) = 0 /\ DOMAIN v14 = {}
  BY <1>1
<1>8. Len(v14) <= MovesMaxOps /\ v12 \in 0 .. Len(v14)
  BY <1>2, <1>4, <1>7
<1>9. Moves!TypeOK
  BY <1>1, <1>3, <1>5, <1>6, <1>7, <1>8 DEF Moves!TypeOK, Moves!Folders
<1>. QED
  BY <1>1, <1>7, <1>9
     DEF Moves!MovesInv, Moves!OpsAreAccounted, Moves!HiddenAwaitsMove,
         Moves!UndoOnlyTicketed, Moves!SummaryOfLatestBatch, Moves!GenerationsGrow

LEMMA StepKeepsMoves ==
  ASSUME Moves!MovesInv, [Moves!Next]_(Moves!vars) PROVE Moves!MovesInv'
<1>1. CASE Moves!Next
  BY <1>1, ScreenKeepsMoves, MoveKeepsMoves, UnmountKeepsMoves, ServeKeepsMoves,
     AnswerKeepsMoves, MailboxKeepsMoves DEF Moves!Next, Moves!User
<1>2. CASE UNCHANGED Moves!vars
  <2>1. UNCHANGED <<v1, v2, v3, v4, v5, v6, v7, v8, v9, v10, v11, v12, v13, v14, v15>>
    BY <1>2 DEF Moves!vars, Moves!server, Moves!screen
  <2>. QED
    BY <2>1, InvIsLaid, QuietKeepsMoves DEF Laid
<1>. QED
  BY <1>1, <1>2

\* Nothing is hidden by a move that failed: what is hidden is awaited or gone.
LEMMA MovesKeepPromises ==
  ASSUME Moves!MovesInv
  PROVE  Moves!NothingHiddenByFailure /\ Moves!UndoOnlyTicketed /\ Moves!SummaryOfLatestBatch
  BY DEF Moves!MovesInv, Moves!HiddenAwaitsMove, Moves!NothingHiddenByFailure, Moves!Awaited

\* Only an answer, a served request and the unmount change a batch that runs;
\* the user's actions add one.
LEMMA OpsStayUntilAnswered ==
  ASSUME Moves!MovesInv, Moves!Next,
         ~Moves!AnswerArrives, ~Moves!ServeRequest
  PROVE  \/ v14' = v14
         \/ Len(v14') # Len(v14) /\ v13
         \/ Moves!Unmount
<1>1. \E B : v14 \in Seq(B)
  BY InvIsLaid DEF Queued
<1>2. ASSUME NEW kind, NEW keys, NEW id, Moves!Begin(kind, keys, id)
      PROVE  Len(v14') # Len(v14)
  <2>1. Len(v14') = Len(v14) + 1 /\ Len(v14) \in Nat
    BY <1>1, <1>2, OneMoreOp DEF Moves!Begin
  <2>. QED
    BY <2>1
<1>3. CASE \/ Moves!MoveFromReader \/ Moves!MoveSelection \/ Moves!MoveRow
           \/ Moves!UndoMove \/ Moves!RunUndo \/ Moves!MarkSeen
  BY <1>2, <1>3
     DEF Moves!MoveFromReader, Moves!MoveSelection, Moves!MoveRow, Moves!UndoMove,
         Moves!RunUndo, Moves!MarkSeen, Moves!PerformMove, Moves!MoveMessages, Moves!MayBegin
<1>4. CASE \/ Moves!LoadPage \/ Moves!ChangeFolder \/ Moves!OpenMessage \/ Moves!CloseMessage
           \/ Moves!Toggle \/ Moves!SelectAllVisible \/ Moves!ClearSelection
           \/ Moves!ExpireUndo \/ Moves!OtherClientMoves \/ Moves!Sync
  BY <1>4
     DEF Moves!LoadPage, Moves!ChangeFolder, Moves!OpenMessage, Moves!CloseMessage,
         Moves!Toggle, Moves!SelectAllVisible, Moves!ClearSelection, Moves!ExpireUndo,
         Moves!OtherClientMoves, Moves!Sync
<1>. QED
  BY <1>3, <1>4 DEF Moves!Next, Moves!User

\* An answer closes no reader but the one of the message it is about.
LEMMA LateMovesLeaveReader ==
  ASSUME Moves!MovesInv, [Moves!Next]_(Moves!vars)
  PROVE  Moves!AnswerKeepsReaderStep
<1>. SUFFICES ASSUME v14' # v14, Len(v14') = Len(v14), v9 # None, v9' # v9
              PROVE  \E i \in DOMAIN v14 : /\ v14[i] # v14'[i] /\ v14[i].kind = "one"
                                           /\ v9 \in v14[i].keys
  BY DEF Moves!AnswerKeepsReaderStep
<1>1. Moves!Next
  BY DEF Moves!vars
<1>2. ~Moves!ServeRequest /\ ~Moves!Unmount
  BY DEF Moves!ServeRequest, Moves!Unmount, Moves!screen
<1>3. Moves!AnswerArrives
  BY <1>1, <1>2, OpsStayUntilAnswered
<1>4. PICK i, c :
           /\ i \in 1 .. Len(v14)
           /\ Sound(c, v1, v2, v3, v15.limit)
           /\ c.kind = v14[i].kind /\ c.keys = v14[i].keys /\ c.kind \notin {"over", "seen"}
           /\ v14' = [v14 EXCEPT ![i] = IF Moves!Finished(c) THEN Moves!Over(c) ELSE c]
           /\ IF Moves!Finished(c) /\ v13 THEN Moves!Settled(c)
              ELSE UNCHANGED <<v7, v9, v10, v11>>
  BY <1>3, AnswerIsApplied
<1>5. Moves!Finished(c) /\ Moves!Settled(c)
  BY <1>4
<1>6. c.kind = "one" /\ v9 \in c.keys
  BY <1>4, <1>5, InvIsLaid, ReportIsApplied
<1>7. DOMAIN v14 = 1 .. Len(v14)
  BY InvIsLaid, LenProperties DEF Queued
<1>8. v14'[i] = Moves!Over(c)
  BY <1>4, <1>5, <1>7
<1>9. v14'[i].kind = "over"
  BY <1>8 DEF Moves!Over
<1>. QED
  BY <1>4, <1>6, <1>7, <1>9

\* After the unmount no request is sent.
LEMMA NothingIsSentAfterwards ==
  ASSUME Moves!MovesInv, [Moves!Next]_(Moves!vars)
  PROVE  Moves!SilentAfterUnmountStep
<1>. SUFFICES ASSUME ~v13, NEW j \in DOMAIN v14
              PROVE  DOMAIN v14'[j].flight \subseteq DOMAIN v14[j].flight
  BY DEF Moves!SilentAfterUnmountStep
<1>1. CASE v14' = v14
  BY <1>1
<1>2. CASE Moves!ServeRequest
  <2>1. PICK i \in DOMAIN v14 : \E k, outcome : k \in DOMAIN v14[i].flight /\ Moves!Serve(i, k, outcome)
    BY <1>2 DEF Moves!ServeRequest, Moves!ServeMove, Moves!ServeUndo, Moves!Refuse
  <2>2. PICK k, outcome : k \in DOMAIN v14[i].flight /\ Moves!Serve(i, k, outcome)
    BY <2>1
  <2>3. v14' = [v14 EXCEPT ![i] = [v14[i] EXCEPT !.flight[k] = outcome]]
    BY <2>2 DEF Moves!Serve
  <2>4. "flight" \in DOMAIN v14[i]
    <3>1. DOMAIN v14 = 1 .. Len(v14)
      BY InvIsLaid, LenProperties DEF Queued
    <3>2. Typed(v14[i], v2)
      BY <3>1, InvIsLaid DEF Queued, Running, Sound
    <3>. QED
      BY <3>2 DEF Typed
  <2>5. DOMAIN [v14[i] EXCEPT !.flight[k] = outcome].flight = DOMAIN v14[i].flight
    BY <2>4
  <2>. QED
    BY <2>3, <2>5
<1>3. CASE Moves!AnswerArrives
  <2>1. PICK i, c :
           /\ i \in 1 .. Len(v14)
           /\ c.aborted = v14[i].aborted
           /\ v14[i].aborted \/ v14[i].todo = <<>> =>
                c.todo = <<>> /\ DOMAIN c.flight \subseteq DOMAIN v14[i].flight
           /\ v14' = [v14 EXCEPT ![i] = IF Moves!Finished(c) THEN Moves!Over(c) ELSE c]
    BY <1>3, AnswerIsApplied
  <2>. i \in 1 .. Len(v14)
    BY <2>1
  <2>2. v14[i].aborted \/ v14[i].todo = <<>>
    BY InvIsLaid DEF Queued, Running
  <2>3. DOMAIN Moves!Over(c).flight = {}
    BY DEF Moves!Over
  <2>4. CASE j = i
    <3>1. v14'[j] = IF Moves!Finished(c) THEN Moves!Over(c) ELSE c
      BY <2>1, <2>4
    <3>. QED
      BY <2>1, <2>2, <2>3, <2>4, <3>1
  <2>5. CASE j # i
    <3>1. v14'[j] = v14[j]
      BY <2>1, <2>5
    <3>. QED
      BY <3>1
  <2>. QED
    BY <2>4, <2>5
<1>4. ~Moves!Unmount
  BY DEF Moves!Unmount
<1>. QED
  BY <1>1, <1>2, <1>3, <1>4, OpsStayUntilAnswered DEF Moves!vars

-----------------------------------------------------------------------------
(*--------------------------- Flags (FlagOverrides) ------------------------*)

LEMMA OverridesInit == Overrides!Init => Overrides!OverridesInv
<1>. SUFFICES ASSUME Overrides!Init PROVE Overrides!OverridesInv
  OBVIOUS
<1>1. Overrides!TypeOK
  BY OverridesAssumption DEF Overrides!Init, Overrides!TypeOK
<1>2. Overrides!OverridesAreAnswered /\ Overrides!IntentIsOverride
  BY DEF Overrides!Init, Overrides!OverridesAreAnswered, Overrides!IntentIsOverride
<1>. QED
  BY <1>1, <1>2 DEF Overrides!OverridesInv

\* The calls after one more was sent.
LEMMA SentCalls ==
  ASSUME Overrides!OverridesInv, NEW keys \in SUBSET OverridesMsgs, NEW v \in BOOLEAN,
         Overrides!Send(keys, v)
  PROVE  /\ v5' \in Seq(Overrides!Call) /\ Len(v5') <= OverridesMaxCalls
         /\ DOMAIN v5' = DOMAIN v5 \union {Len(v5) + 1} /\ Len(v5) + 1 \notin DOMAIN v5
         /\ \A c \in DOMAIN v5 : v5'[c] = v5[c]
         /\ v5'[Len(v5) + 1] = [value |-> v, out |-> keys, failed |-> {}, over |-> FALSE]
<1> DEFINE call == [value |-> v, out |-> keys, failed |-> {}, over |-> FALSE]
<1>1. v5 \in Seq(Overrides!Call) /\ Len(v5) \in Nat /\ Len(v5) < OverridesMaxCalls
      /\ v5' = Append(v5, call)
  BY LenProperties DEF Overrides!OverridesInv, Overrides!TypeOK, Overrides!Send
<1>2. call \in Overrides!Call
  BY DEF Overrides!Call
<1> HIDE DEF call
<1>3. /\ v5' \in Seq(Overrides!Call) /\ Len(v5') = Len(v5) + 1
      /\ v5'[Len(v5) + 1] = call
      /\ \A c \in 1 .. Len(v5) : v5'[c] = v5[c]
  BY <1>1, <1>2, AppendProperties
<1>4. DOMAIN v5 = 1 .. Len(v5) /\ DOMAIN v5' = 1 .. Len(v5) + 1
  BY <1>1, <1>3, LenProperties
<1>5. Len(v5) + 1 <= OverridesMaxCalls
  BY <1>1, OverridesAssumption
<1>6. 1 .. Len(v5) + 1 = (1 .. Len(v5)) \union {Len(v5) + 1} /\ Len(v5) + 1 \notin 1 .. Len(v5)
  BY <1>1
<1>. QED
  BY <1>3, <1>4, <1>5, <1>6 DEF call

\* A call sent and the intent it was sent for.
LEMMA SendKeepsOverrides ==
  ASSUME Overrides!OverridesInv, NEW keys \in SUBSET OverridesMsgs, NEW v \in BOOLEAN,
         Overrides!Send(keys, v),
         v7' = [m \in OverridesMsgs |-> IF m \in keys THEN v ELSE v7[m]]
  PROVE  Overrides!OverridesInv'
<1> DEFINE n == Len(v5) + 1
<1>1. /\ v5' \in Seq(Overrides!Call) /\ Len(v5') <= OverridesMaxCalls
      /\ DOMAIN v5' = DOMAIN v5 \union {n} /\ n \notin DOMAIN v5
      /\ \A c \in DOMAIN v5 : v5'[c] = v5[c]
      /\ v5'[n] = [value |-> v, out |-> keys, failed |-> {}, over |-> FALSE]
  BY SentCalls
<1>2. /\ v4' = [m \in OverridesMsgs |-> IF m \in keys THEN v ELSE v4[m]]
      /\ v1' = v1 /\ v2' = v2 /\ v3' = v3 /\ v6' = v6
  BY DEF Overrides!Send, Overrides!WithOverrides
<1> HIDE DEF n
<1>3. Overrides!TypeOK'
  BY <1>1, <1>2 DEF Overrides!OverridesInv, Overrides!TypeOK
<1>4. ASSUME NEW m \in OverridesMsgs, v4'[m] # None
      PROVE  \/ <<m, v4'[m]>> \in v6'
             \/ \E c \in DOMAIN v5' : Overrides!Awaits(v5'[c], m) /\ v5'[c].value = v4'[m]
  <2>1. CASE m \in keys
    <3>1. v4'[m] = v /\ Overrides!Awaits(v5'[n], m) /\ v5'[n].value = v
      BY <1>1, <1>2, <2>1 DEF Overrides!Awaits
    <3>. QED
      BY <1>1, <3>1
  <2>2. CASE m \notin keys
    <3>1. v4'[m] = v4[m]
      BY <1>2, <2>2
    <3>2. \/ <<m, v4[m]>> \in v6
          \/ \E c \in DOMAIN v5 : Overrides!Awaits(v5[c], m) /\ v5[c].value = v4[m]
      BY <1>4, <3>1 DEF Overrides!OverridesInv, Overrides!OverridesAreAnswered
    <3>. QED
      BY <1>1, <1>2, <3>1, <3>2
  <2>. QED
    BY <2>1, <2>2
<1>5. Overrides!OverridesAreAnswered'
  BY <1>4 DEF Overrides!OverridesAreAnswered
<1>6. ASSUME \A c \in DOMAIN v5' : v5'[c].failed = {}, NEW m \in OverridesMsgs
      PROVE  v7'[m] = None \/ v4'[m] = v7'[m]
  <2>1. \A c \in DOMAIN v5 : v5[c].failed = {}
    BY <1>1, <1>6
  <2>2. v7[m] = None \/ v4[m] = v7[m]
    BY <2>1 DEF Overrides!OverridesInv, Overrides!IntentIsOverride
  <2>. QED
    BY <1>2, <2>2
<1>7. Overrides!IntentIsOverride'
  BY <1>6 DEF Overrides!IntentIsOverride
<1>. QED
  BY <1>3, <1>5, <1>7 DEF Overrides!OverridesInv

\* The calls after one of them changed.
LEMMA ChangedCall ==
  ASSUME Overrides!OverridesInv, NEW c \in DOMAIN v5, NEW call \in Overrides!Call,
         v5' = [v5 EXCEPT ![c] = call]
  PROVE  /\ v5' \in Seq(Overrides!Call) /\ Len(v5') <= OverridesMaxCalls
         /\ DOMAIN v5' = DOMAIN v5
         /\ \A d \in DOMAIN v5 : v5'[d] = IF d = c THEN call ELSE v5[d]
<1>1. v5 \in Seq(Overrides!Call) /\ Len(v5) <= OverridesMaxCalls /\ DOMAIN v5 = 1 .. Len(v5)
  BY LenProperties DEF Overrides!OverridesInv, Overrides!TypeOK
<1>2. v5' \in Seq(Overrides!Call) /\ Len(v5') = Len(v5)
  BY <1>1, ExceptSeq
<1>. QED
  BY <1>1, <1>2

LEMMA RequestKeepsOverrides ==
  ASSUME Overrides!OverridesInv, NEW c \in DOMAIN v5, NEW m \in OverridesMsgs,
         NEW applied \in BOOLEAN, NEW ok \in BOOLEAN, Overrides!Request(c, m, applied, ok)
  PROVE  Overrides!OverridesInv'
<1> DEFINE call == [v5[c] EXCEPT !.out = @ \ {m}, !.failed = IF ok THEN @ ELSE @ \union {m}]
<1>1. v5 \in Seq(Overrides!Call) /\ v5[c] \in Overrides!Call
  BY ElementOfSeq, LenProperties DEF Overrides!OverridesInv, Overrides!TypeOK
<1>2. /\ call \in Overrides!Call /\ call.value = v5[c].value /\ call.over = v5[c].over
      /\ v5[c].out \union v5[c].failed \subseteq call.out \union call.failed \union {m}
      /\ (~ok => m \in call.failed) /\ v5[c].failed \subseteq call.failed
  BY <1>1 DEF Overrides!Call
<1>3. v5' = [v5 EXCEPT ![c] = call]
  BY <1>1 DEF Overrides!Request, Overrides!Call
<1>4. /\ m \in v5[c].out /\ (ok => applied)
      /\ v2' = IF applied THEN [v2 EXCEPT ![m] = v5[c].value] ELSE v2
      /\ v6' = IF applied THEN v6 \union {<<m, v5[c].value>>} ELSE v6
      /\ v1' = v1 /\ v3' = v3 /\ v4' = v4 /\ v7' = v7
  BY DEF Overrides!Request
<1> HIDE DEF call
<1>5. /\ v5' \in Seq(Overrides!Call) /\ Len(v5') <= OverridesMaxCalls /\ DOMAIN v5' = DOMAIN v5
      /\ \A d \in DOMAIN v5 : v5'[d] = IF d = c THEN call ELSE v5[d]
  BY <1>2, <1>3, ChangedCall
<1>6. v5[c].value \in BOOLEAN
  BY <1>1 DEF Overrides!Call
<1>7. Overrides!TypeOK'
  <2>1. v2' \in [OverridesMsgs -> BOOLEAN] /\ v6' \subseteq OverridesMsgs \X BOOLEAN
    BY <1>4, <1>6 DEF Overrides!OverridesInv, Overrides!TypeOK
  <2>. QED
    BY <1>4, <1>5, <2>1 DEF Overrides!OverridesInv, Overrides!TypeOK
<1>8. ASSUME NEW x \in OverridesMsgs, v4'[x] # None
      PROVE  \/ <<x, v4'[x]>> \in v6'
             \/ \E d \in DOMAIN v5' : Overrides!Awaits(v5'[d], x) /\ v5'[d].value = v4'[x]
  <2>1. v4'[x] = v4[x] /\ v6 \subseteq v6'
    BY <1>4
  <2>2. CASE <<x, v4[x]>> \in v6
    BY <2>1, <2>2
  <2>3. ASSUME NEW d \in DOMAIN v5, Overrides!Awaits(v5[d], x), v5[d].value = v4[x], d # c
        PROVE  Overrides!Awaits(v5'[d], x) /\ v5'[d].value = v4'[x]
    BY <1>5, <2>1, <2>3
  <2>4. ASSUME Overrides!Awaits(v5[c], x), v5[c].value = v4[x]
        PROVE  <<x, v4'[x]>> \in v6' \/ (Overrides!Awaits(v5'[c], x) /\ v5'[c].value = v4'[x])
    <3>1. CASE x = m /\ applied
      BY <1>4, <2>1, <2>4, <3>1
    <3>2. CASE x = m /\ ~applied
      <4>1. ~ok
        BY <1>4, <3>2
      <4>2. Overrides!Awaits(call, x)
        BY <1>2, <2>4, <3>2, <4>1 DEF Overrides!Awaits
      <4>. QED
        BY <1>2, <1>5, <2>1, <2>4, <4>2
    <3>3. CASE x # m
      <4>1. Overrides!Awaits(call, x)
        BY <1>2, <2>4, <3>3 DEF Overrides!Awaits
      <4>. QED
        BY <1>2, <1>5, <2>1, <2>4, <4>1
    <3>. QED
      BY <3>1, <3>2, <3>3
  <2>5. \/ <<x, v4[x]>> \in v6
        \/ \E d \in DOMAIN v5 : Overrides!Awaits(v5[d], x) /\ v5[d].value = v4[x]
    BY <1>8, <2>1 DEF Overrides!OverridesInv, Overrides!OverridesAreAnswered
  <2>. QED
    BY <1>5, <2>2, <2>3, <2>4, <2>5
<1>9. Overrides!OverridesAreAnswered'
  BY <1>8 DEF Overrides!OverridesAreAnswered
<1>10. ASSUME \A d \in DOMAIN v5' : v5'[d].failed = {}
       PROVE  \A x \in OverridesMsgs : v7'[x] = None \/ v4'[x] = v7'[x]
  <2>1. ASSUME NEW d \in DOMAIN v5 PROVE v5[d].failed = {}
    <3>1. v5'[d].failed = {}
      BY <1>5, <1>10
    <3>2. CASE d = c
      BY <1>2, <1>5, <3>1, <3>2
    <3>3. CASE d # c
      BY <1>5, <3>1, <3>3
    <3>. QED
      BY <3>2, <3>3
  <2>. QED
    BY <1>4, <2>1 DEF Overrides!OverridesInv, Overrides!IntentIsOverride
<1>11. Overrides!IntentIsOverride'
  BY <1>10 DEF Overrides!IntentIsOverride
<1>. QED
  BY <1>7, <1>9, <1>11 DEF Overrides!OverridesInv

LEMMA SettleKeepsOverrides ==
  ASSUME Overrides!OverridesInv, NEW c \in DOMAIN v5, Overrides!Settle(c)
  PROVE  Overrides!OverridesInv'
<1> DEFINE call == [v5[c] EXCEPT !.over = TRUE]
<1>1. v5 \in Seq(Overrides!Call) /\ v5[c] \in Overrides!Call
  BY ElementOfSeq, LenProperties DEF Overrides!OverridesInv, Overrides!TypeOK
<1>2. call \in Overrides!Call /\ call.failed = v5[c].failed
  BY <1>1 DEF Overrides!Call
<1>3. v5' = [v5 EXCEPT ![c] = call]
  BY <1>1 DEF Overrides!Settle, Overrides!Call
<1>4. /\ v5[c].out = {}
      /\ v4' = [m \in OverridesMsgs |-> IF m \in v5[c].failed THEN None ELSE v4[m]]
      /\ v1' = v1 /\ v2' = v2 /\ v3' = v3 /\ v6' = v6 /\ v7' = v7
  BY DEF Overrides!Settle, Overrides!WithoutOverrides, Overrides!WithOverrides
<1> HIDE DEF call
<1>5. /\ v5' \in Seq(Overrides!Call) /\ Len(v5') <= OverridesMaxCalls /\ DOMAIN v5' = DOMAIN v5
      /\ \A d \in DOMAIN v5 : v5'[d] = IF d = c THEN call ELSE v5[d]
  BY <1>2, <1>3, ChangedCall
<1>6. Overrides!TypeOK'
  BY <1>4, <1>5 DEF Overrides!OverridesInv, Overrides!TypeOK
<1>7. ASSUME NEW x \in OverridesMsgs, v4'[x] # None
      PROVE  \/ <<x, v4'[x]>> \in v6'
             \/ \E d \in DOMAIN v5' : Overrides!Awaits(v5'[d], x) /\ v5'[d].value = v4'[x]
  <2>1. x \notin v5[c].failed /\ v4'[x] = v4[x]
    BY <1>4, <1>7
  <2>2. ~Overrides!Awaits(v5[c], x)
    BY <1>4, <2>1 DEF Overrides!Awaits
  <2>3. \/ <<x, v4[x]>> \in v6
        \/ \E d \in DOMAIN v5 : Overrides!Awaits(v5[d], x) /\ v5[d].value = v4[x]
    BY <1>7, <2>1 DEF Overrides!OverridesInv, Overrides!OverridesAreAnswered
  <2>. QED
    BY <1>4, <1>5, <2>1, <2>2, <2>3
<1>8. Overrides!OverridesAreAnswered'
  BY <1>7 DEF Overrides!OverridesAreAnswered
<1>9. ASSUME \A d \in DOMAIN v5' : v5'[d].failed = {}
      PROVE  \A x \in OverridesMsgs : v7'[x] = None \/ v4'[x] = v7'[x]
  <2>1. \A d \in DOMAIN v5 : v5[d].failed = {}
    BY <1>2, <1>5, <1>9
  <2>. QED
    BY <1>4, <2>1 DEF Overrides!OverridesInv, Overrides!IntentIsOverride
<1>10. Overrides!IntentIsOverride'
  BY <1>9 DEF Overrides!IntentIsOverride
<1>. QED
  BY <1>6, <1>8, <1>10 DEF Overrides!OverridesInv

\* Neither the mailbox nor the page is in the invariant but by its type.
LEMMA ReloadKeepsOverrides ==
  ASSUME Overrides!OverridesInv, UNCHANGED <<v1, v4, v5, v6, v7>>,
         v2' \in [OverridesMsgs -> BOOLEAN], v3' \in [OverridesMsgs -> BOOLEAN]
  PROVE  Overrides!OverridesInv'
  BY DEF Overrides!OverridesInv, Overrides!TypeOK, Overrides!OverridesAreAnswered,
         Overrides!IntentIsOverride

LEMMA StepKeepsOverrides ==
  ASSUME Overrides!OverridesInv, [Overrides!Next]_(Overrides!vars)
  PROVE  Overrides!OverridesInv'
<1>1. /\ v2 \in [OverridesMsgs -> BOOLEAN] /\ v3 \in [OverridesMsgs -> BOOLEAN]
      /\ v4 \in [OverridesMsgs -> BOOLEAN \union {None}]
      /\ v7 \in [OverridesMsgs -> BOOLEAN \union {None}]
  BY DEF Overrides!OverridesInv, Overrides!TypeOK
<1>2. ASSUME NEW m \in OverridesMsgs, NEW v, v7' = [v7 EXCEPT ![m] = v]
      PROVE  v7' = [x \in OverridesMsgs |-> IF x \in {m} THEN v ELSE v7[x]]
  BY <1>1, <1>2
<1>3. ASSUME NEW m \in OverridesMsgs PROVE (~Overrides!Drawn(m)) \in BOOLEAN
  OBVIOUS
<1>4. ASSUME NEW m \in OverridesMsgs, Overrides!OpenMessage(m) PROVE Overrides!OverridesInv'
  BY <1>2, <1>4, SendKeepsOverrides DEF Overrides!OpenMessage
<1>5. ASSUME NEW m \in OverridesMsgs, Overrides!ToggleStar(m) PROVE Overrides!OverridesInv'
  <2>1. Overrides!Send({m}, ~Overrides!Drawn(m)) /\ v7' = [v7 EXCEPT ![m] = ~Overrides!Drawn(m)]
    BY <1>5 DEF Overrides!ToggleStar, Overrides!NextStar
  <2>. QED
    BY <1>2, <1>3, <2>1, SendKeepsOverrides
<1>6. ASSUME NEW keys \in SUBSET OverridesMsgs, NEW v \in BOOLEAN, Overrides!MarkSeen(keys, v)
      PROVE  Overrides!OverridesInv'
  BY <1>6, SendKeepsOverrides DEF Overrides!MarkSeen
<1>7. ASSUME NEW m \in OverridesMsgs, Overrides!OtherClient(m) PROVE Overrides!OverridesInv'
  <2>1. v2' = [v2 EXCEPT ![m] = ~v2[m]] /\ UNCHANGED <<v1, v3, v4, v5, v6, v7>>
    BY <1>7 DEF Overrides!OtherClient
  <2>2. v2' \in [OverridesMsgs -> BOOLEAN]
    BY <1>1, <2>1
  <2>. QED
    BY <1>1, <2>1, <2>2, ReloadKeepsOverrides
<1>8. CASE Overrides!Reload \/ UNCHANGED Overrides!vars
  <2>1. UNCHANGED <<v1, v2, v4, v5, v6, v7>> /\ v3' \in {v2, v3}
    BY <1>8 DEF Overrides!Reload, Overrides!vars
  <2>. QED
    BY <1>1, <2>1, ReloadKeepsOverrides
<1>. QED
  BY <1>4, <1>5, <1>6, <1>7, <1>8, RequestKeepsOverrides, SettleKeepsOverrides
     DEF Overrides!Next

\* What an override stands for once every call has settled, and what is drawn.
LEMMA OverridesKeepPromises ==
  ASSUME Overrides!OverridesInv
  PROVE  Overrides!OverrideIsConfirmed /\ Overrides!ShowsLastIntent
<1>1. Overrides!OverrideIsConfirmed
  BY DEF Overrides!OverridesInv, Overrides!OverridesAreAnswered, Overrides!OverrideIsConfirmed,
         Overrides!AtRest, Overrides!Awaits
<1>2. Overrides!ShowsLastIntent
  BY DEF Overrides!OverridesInv, Overrides!IntentIsOverride, Overrides!ShowsLastIntent,
         Overrides!Drawn
<1>. QED
  BY <1>1, <1>2

-----------------------------------------------------------------------------
(* The session gate.  Attempts are numbers and retries are Booleans: a step *)
(* that needs both has a part for each.                                    *)

\* The first mount, or its double under StrictMode.
LEMMA GateInit == ASSUME Gate!Init PROVE Gate!GateInv
<1>1. v3 \in 1 .. GateMaxAttempt /\ v4 = [attempt : 1 .. v3, retried : {FALSE}]
  BY GateAssumption DEF Gate!Init
<1>2. ASSUME NEW p \in v4 PROVE p \in Gate!Probe /\ p.attempt <= v3 /\ ~p.retried
  <2>1. p = [attempt |-> p.attempt, retried |-> p.retried]
    BY <1>1
  <2>2. p.attempt \in 1 .. GateMaxAttempt
    BY <1>1, GateAssumption
  <2>3. p.retried \in {FALSE}
    BY <1>1
  <2>4. p.attempt <= v3
    BY <1>1
  <2>5. p \in Gate!Probe
    BY <2>1, <2>2, <2>3 DEF Gate!Probe
  <2>. QED
    BY <2>3, <2>4, <2>5
<1>3. Gate!TypeOK
  BY <1>1, <1>2 DEF Gate!Init, Gate!TypeOK
<1>4. Gate!LoginNeverStuck
  <2>1. [attempt |-> v3, retried |-> FALSE] \in v4
    BY <1>1
  <2>. QED
    BY <2>1 DEF Gate!Init, Gate!LoginNeverStuck
<1>5. Gate!OnlyTheFirstAsks
  BY <1>2 DEF Gate!Init, Gate!OnlyTheFirstAsks
<1>6. Gate!ProbesAreNumbered
  BY <1>2 DEF Gate!ProbesAreNumbered
<1>. QED
  BY <1>3, <1>4, <1>5, <1>6 DEF Gate!GateInv

\* A new attempt has its probe.
LEMMA StartAttemptKeepsGate ==
  ASSUME Gate!GateInv, Gate!StartAttempt, v1' \in {"none", "good", "unkept"}, v5' = None
  PROVE  Gate!GateInv'
<1> DEFINE probe == [attempt |-> v3 + 1, retried |-> FALSE]
<1>1. /\ v3' = v3 + 1 /\ v3' \in 1 .. GateMaxAttempt
      /\ v2' = "checking" /\ v6' = "idle"
      /\ v4' = v4 \union {probe}
  BY GateAssumption DEF Gate!StartAttempt, Gate!GateInv, Gate!TypeOK
<1>2. Gate!TypeOK'
  <2>1. probe \in Gate!Probe
    BY <1>1 DEF Gate!Probe
  <2>. QED
    BY <1>1, <2>1 DEF Gate!GateInv, Gate!TypeOK
<1>3. Gate!LoginNeverStuck'
  <2>1. probe \in v4' /\ probe.attempt = v3'
    BY <1>1
  <2>. QED
    BY <1>1, <2>1 DEF Gate!LoginNeverStuck
<1>4. ASSUME NEW q \in v4' PROVE q.attempt <= v3' /\ (q.attempt = v3' => q = probe)
  BY <1>1 DEF Gate!GateInv, Gate!TypeOK, Gate!Probe, Gate!ProbesAreNumbered
<1>5. Gate!OnlyTheFirstAsks'
  BY <1>1, <1>4 DEF Gate!OnlyTheFirstAsks
<1>6. Gate!ProbesAreNumbered'
  BY <1>4 DEF Gate!ProbesAreNumbered
<1>. QED
  BY <1>2, <1>3, <1>5, <1>6 DEF Gate!GateInv

\* An answer that settles its attempt leaves the others their probes.
LEMMA SettleKeepsGate ==
  ASSUME Gate!GateInv, NEW p \in v4, NEW outcome \in {"authorized", "error"},
         Gate!Settle(p, outcome)
  PROVE  Gate!GateInv'
<1>1. /\ v2' = IF p.attempt = v3 THEN outcome ELSE v2
      /\ v4' = v4 \ {p} /\ UNCHANGED <<v1, v3, v5, v6>>
  BY DEF Gate!Settle
<1>2. Gate!TypeOK'
  BY <1>1 DEF Gate!GateInv, Gate!TypeOK
<1>3. Gate!LoginNeverStuck'
  BY <1>1 DEF Gate!GateInv, Gate!LoginNeverStuck
<1>4. Gate!OnlyTheFirstAsks'
  <2>1. p \in Gate!Probe /\ v4 \subseteq Gate!Probe
    BY DEF Gate!GateInv, Gate!TypeOK
  <2>2. ASSUME NEW q \in v4, q # p, q.attempt = v3, p.attempt = v3 PROVE FALSE
    BY <2>1, <2>2 DEF Gate!Probe, Gate!GateInv, Gate!OnlyTheFirstAsks
  <2>. QED
    BY <1>1, <2>2 DEF Gate!GateInv, Gate!OnlyTheFirstAsks
<1>5. Gate!ProbesAreNumbered'
  BY <1>1 DEF Gate!GateInv, Gate!ProbesAreNumbered
<1>. QED
  BY <1>2, <1>3, <1>4, <1>5 DEF Gate!GateInv

\* The first 401 of the attempt leaves it waiting for a sign-in; that of an
\* attempt which was replaced sends its retry.
LEMMA ProbeRefusedKeepsGate ==
  ASSUME Gate!GateInv, NEW p \in v4, Gate!ProbeRefused(p)
  PROVE  Gate!GateInv'
<1>1. p \in Gate!Probe /\ v2 \in {"checking", "login", "authorized", "error"}
  BY DEF Gate!GateInv, Gate!TypeOK
<1>2. CASE p.attempt = v3
  <2>1. /\ v2' = "login" /\ v5' = p.attempt /\ v6' = "idle"
        /\ v4' = v4 \ {p} /\ UNCHANGED <<v1, v3>>
    BY <1>2 DEF Gate!ProbeRefused, Gate!Claims
  <2>2. v2 = "checking"
    BY <1>2 DEF Gate!ProbeRefused, Gate!Asks, Gate!GateInv, Gate!OnlyTheFirstAsks
  <2>3. ASSUME NEW q \in v4', q.attempt = v3 PROVE FALSE
    BY <1>1, <1>2, <2>1, <2>2, <2>3
       DEF Gate!GateInv, Gate!TypeOK, Gate!Probe, Gate!OnlyTheFirstAsks
  <2>4. Gate!TypeOK'
    BY <1>1, <2>1 DEF Gate!GateInv, Gate!TypeOK, Gate!Probe
  <2>5. Gate!LoginNeverStuck'
    BY <1>2, <2>1 DEF Gate!LoginNeverStuck
  <2>6. Gate!OnlyTheFirstAsks'
    BY <1>2, <2>1, <2>3 DEF Gate!GateInv, Gate!OnlyTheFirstAsks
  <2>7. Gate!ProbesAreNumbered'
    BY <2>1 DEF Gate!GateInv, Gate!ProbesAreNumbered
  <2>. QED
    BY <2>4, <2>5, <2>6, <2>7 DEF Gate!GateInv
<1>3. CASE p.attempt # v3
  <2> DEFINE again == [p EXCEPT !.retried = TRUE]
  <2>1. v4' = (v4 \ {p}) \union {again} /\ UNCHANGED <<v1, v2, v3, v5, v6>>
    BY <1>3 DEF Gate!ProbeRefused, Gate!Claims
  <2>2. again \in Gate!Probe /\ again.attempt = p.attempt
    BY <1>1, <1>3 DEF Gate!Probe
  <2>3. Gate!TypeOK'
    BY <2>1, <2>2 DEF Gate!GateInv, Gate!TypeOK
  <2>4. Gate!LoginNeverStuck'
    BY <1>3, <2>1 DEF Gate!GateInv, Gate!LoginNeverStuck
  <2>5. Gate!OnlyTheFirstAsks'
    BY <1>3, <2>1, <2>2 DEF Gate!GateInv, Gate!OnlyTheFirstAsks
  <2>6. Gate!ProbesAreNumbered'
    BY <2>1, <2>2 DEF Gate!GateInv, Gate!ProbesAreNumbered
  <2>. QED
    BY <2>3, <2>4, <2>5, <2>6 DEF Gate!GateInv
<1>. QED
  BY <1>2, <1>3

\* The form itself changes no probe.
LEMMA FormKeepsGate ==
  ASSUME Gate!GateInv, Gate!Submit \/ Gate!SignInRefused
  PROVE  Gate!GateInv'
  BY DEF Gate!Submit, Gate!SignInRefused, Gate!GateInv, Gate!TypeOK,
         Gate!LoginNeverStuck, Gate!OnlyTheFirstAsks, Gate!ProbesAreNumbered

\* An accepted sign-in wakes the attempt that waits, or makes a new one.
LEMMA SignInKeepsGate == ASSUME Gate!GateInv, Gate!SignInAccepted PROVE Gate!GateInv'
<1>1. CASE v5 # None
  <2> DEFINE probe == [attempt |-> v5, retried |-> TRUE]
  <2>1. /\ v4' = v4 \union {probe} /\ v6' = "accepted" /\ v5' = None
        /\ v1' \in {"good", "unkept"} /\ UNCHANGED <<v2, v3>>
    BY <1>1 DEF Gate!SignInAccepted, Gate!Wake
  <2>2. probe \in Gate!Probe /\ probe.attempt = v5 /\ probe.retried
    BY <1>1 DEF Gate!GateInv, Gate!TypeOK, Gate!Probe
  <2>3. Gate!TypeOK'
    BY <2>1, <2>2 DEF Gate!GateInv, Gate!TypeOK
  <2>4. v2 = "login" => v5 = v3 \/ \E q \in v4 : q.attempt = v3
    BY DEF Gate!GateInv, Gate!LoginNeverStuck
  <2>5. Gate!LoginNeverStuck'
    BY <2>1, <2>2, <2>4 DEF Gate!GateInv, Gate!LoginNeverStuck
  <2>6. Gate!OnlyTheFirstAsks'
    BY <1>1, <2>1, <2>2 DEF Gate!GateInv, Gate!OnlyTheFirstAsks
  <2>7. Gate!ProbesAreNumbered'
    <3>1. v5 = v3 /\ v3 \in 1 .. GateMaxAttempt
      BY <1>1 DEF Gate!GateInv, Gate!TypeOK, Gate!OnlyTheFirstAsks
    <3>2. probe.attempt <= v3
      BY <2>2, <3>1, GateAssumption
    <3>. QED
      BY <2>1, <3>2 DEF Gate!GateInv, Gate!ProbesAreNumbered
  <2>. QED
    BY <2>3, <2>5, <2>6, <2>7 DEF Gate!GateInv
<1>2. CASE v5 = None
  <2>1. Gate!StartAttempt /\ v5' = None /\ v1' \in {"none", "good", "unkept"}
    BY <1>2 DEF Gate!SignInAccepted, Gate!Wake
  <2>. QED
    BY <2>1, StartAttemptKeepsGate
<1>. QED
  BY <1>1, <1>2

\* Every step of the gate.
LEMMA StepKeepsGate == ASSUME Gate!GateInv, [Gate!Next]_(Gate!vars) PROVE Gate!GateInv'
<1>1. CASE Gate!Retry
  <2>1. Gate!StartAttempt /\ v5' = None /\ v1' \in {"none", "good", "unkept"}
    BY <1>1 DEF Gate!Retry, Gate!GateInv, Gate!TypeOK
  <2>. QED
    BY <2>1, StartAttemptKeepsGate
<1>2. CASE Gate!Submit \/ Gate!SignInRefused
  BY <1>2, FormKeepsGate
<1>3. CASE Gate!SignInAccepted
  BY <1>3, SignInKeepsGate
<1>4. ASSUME NEW p \in v4,
             Gate!ProbeAccepted(p) \/ Gate!ProbeFails(p) \/ Gate!RetryRefused(p)
      PROVE  Gate!GateInv'
  BY <1>4, SettleKeepsGate DEF Gate!ProbeAccepted, Gate!ProbeFails, Gate!RetryRefused
<1>5. ASSUME NEW p \in v4, Gate!ProbeRefused(p) PROVE Gate!GateInv'
  BY <1>5, ProbeRefusedKeepsGate
<1>6. CASE UNCHANGED Gate!vars
  BY <1>6
     DEF Gate!vars, Gate!GateInv, Gate!TypeOK, Gate!LoginNeverStuck, Gate!OnlyTheFirstAsks,
         Gate!ProbesAreNumbered
<1>. QED
  BY <1>1, <1>2, <1>3, <1>4, <1>5, <1>6 DEF Gate!Next

\* The token is asked for once: a probe of the current attempt that is refused
\* after a sign-in woke it has had its retry.
LEMMA GateAsksOnce ==
  ASSUME Gate!GateInv, [Gate!Next]_(Gate!vars)
  PROVE  Gate!AskedOnceStep
<1>. SUFFICES ASSUME v2 = "login", v6 = "accepted", v3' = v3
              PROVE  v2' # "login" \/ v6' = "accepted"
  BY DEF Gate!AskedOnceStep
<1>1. ASSUME NEW p \in v4, Gate!ProbeRefused(p) PROVE v6' = "accepted"
  <2>1. p.attempt = v3 => p.retried
    BY DEF Gate!GateInv, Gate!OnlyTheFirstAsks
  <2>2. ~p.retried
    BY <1>1 DEF Gate!ProbeRefused, Gate!Asks
  <2>. QED
    BY <1>1, <2>1, <2>2 DEF Gate!ProbeRefused, Gate!Claims
<1>2. CASE \E p \in v4 : \/ Gate!ProbeAccepted(p) \/ Gate!ProbeFails(p)
                         \/ Gate!ProbeRefused(p) \/ Gate!RetryRefused(p)
  BY <1>1, <1>2 DEF Gate!ProbeAccepted, Gate!ProbeFails, Gate!RetryRefused, Gate!Settle
<1>3. ~Gate!Retry /\ ~Gate!Submit /\ ~Gate!SignInRefused /\ ~Gate!SignInAccepted
  BY DEF Gate!Retry, Gate!Submit, Gate!SignInRefused, Gate!SignInAccepted
<1>. QED
  BY <1>2, <1>3 DEF Gate!Next, Gate!vars

-----------------------------------------------------------------------------
(* The message bodies.  The prefetcher's calls run on its state as one     *)
(* value, so their lemmas are about values.                                *)

\* What holds between the prefetcher's calls: the conjuncts of SlotsAreUsed
\* and GuessesAreLive of a value, but for the one on free slots.
Slots(g) ==
  /\ g.active \subseteq Bodies!Msgs
  /\ g.queue \in Seq(Bodies!Msgs)
  /\ g.shared \in [Bodies!Msgs -> Bodies!Request \union {None}]
  /\ Cardinality(g.active) <= BodiesMaxInFlight
  /\ \A m \in g.active : g.shared[m] # None /\ ~g.shared[m].aborted
  /\ \A i \in DOMAIN g.queue :
       /\ g.queue[i] \notin g.active
       /\ g.shared[g.queue[i]] = None \/ ~g.shared[g.queue[i]].aborted
  /\ \A i, k \in DOMAIN g.queue : g.queue[i] = g.queue[k] => i = k

\* No guess waits while a slot is free.
NoneWaits(g) == g.queue # << >> => Cardinality(g.active) = BodiesMaxInFlight

\* What runs is left running.
Keeps(g, h) == \A m \in Bodies!Msgs : g.shared[m] # None => h.shared[m] = g.shared[m]

\* A value of its three fields and no others.
Fields(g) == g = [queue |-> g.queue, active |-> g.active, shared |-> g.shared]

\* The instance counts as this module does.
LEMMA SameCount == \A S : Bodies!Cardinality(S) = Cardinality(S)
  BY DEF Bodies!Cardinality, Cardinality

\* The guesses on the wire can be counted.
LEMMA ActiveIsFinite ==
  ASSUME NEW S, S \subseteq Bodies!Msgs
  PROVE  IsFiniteSet(S) /\ Cardinality(S) \in Nat
<1>1. IsFiniteSet(1 .. BodiesCount)
  BY FS_Interval, BodiesAssumption
<1>. QED
  BY <1>1, FS_Subset, FS_CardinalityType DEF Bodies!Msgs

\* A guess that starts has a request that is not aborted, its own or one it
\* joins, and takes one slot.
LEMMA StartKeepsSlots ==
  ASSUME NEW g, Fields(g), Slots(g), g.queue # << >>,
         Cardinality(g.active) < BodiesMaxInFlight,
         NEW h, h = Bodies!Started(g, Head(g.queue))
  PROVE  /\ Fields(h) /\ Slots(h) /\ Keeps(g, h)
         /\ h.queue = Tail(g.queue)
         /\ Cardinality(h.active) = Cardinality(g.active) + 1
<1> DEFINE m == Head(g.queue)
           request == [guess |-> TRUE, opened |-> FALSE, aborted |-> FALSE]
<1>1. m \in Bodies!Msgs /\ m = g.queue[1] /\ 1 \in DOMAIN g.queue /\ m \notin g.active
  BY DEF Slots
<1>2. /\ h.queue = Tail(g.queue) /\ h.active = g.active \union {m}
      /\ h.shared = [g.shared EXCEPT ![m] = IF @ # None THEN @ ELSE request]
      /\ Fields(h)
  BY DEF Fields, Bodies!Started
<1>3. request \in Bodies!Request /\ request # None /\ ~request.aborted
  <2>1. request \in Bodies!Request
    BY DEF Bodies!Request
  <2>. QED
    BY <2>1, BodiesAssumption
<1>4. Cardinality(h.active) = Cardinality(g.active) + 1
  BY <1>1, <1>2, ActiveIsFinite, FS_AddElement DEF Slots
<1>5. h.shared \in [Bodies!Msgs -> Bodies!Request \union {None}]
  BY <1>1, <1>2, <1>3 DEF Slots
<1>6. /\ h.shared[m] # None /\ ~h.shared[m].aborted
      /\ \A x \in Bodies!Msgs \ {m} : h.shared[x] = g.shared[x]
  BY <1>1, <1>2, <1>3 DEF Slots
<1>7. /\ h.queue \in Seq(Bodies!Msgs)
      /\ \A i \in DOMAIN h.queue : /\ i + 1 \in DOMAIN g.queue /\ i + 1 # 1
                                   /\ h.queue[i] = g.queue[i + 1]
                                   /\ i \in Nat
  <2>1. g.queue \in Seq(Bodies!Msgs) /\ g.queue # << >>
    BY DEF Slots
  <2>2. /\ Tail(g.queue) \in Seq(Bodies!Msgs) /\ Len(g.queue) \in Nat
        /\ Len(Tail(g.queue)) = Len(g.queue) - 1
        /\ \A i \in 1 .. Len(g.queue) - 1 : Tail(g.queue)[i] = g.queue[i + 1]
        /\ DOMAIN g.queue = 1 .. Len(g.queue)
        /\ DOMAIN Tail(g.queue) = 1 .. Len(g.queue) - 1
    BY <2>1
  <2>3. ASSUME NEW i \in 1 .. Len(g.queue) - 1
        PROVE  i + 1 \in 1 .. Len(g.queue) /\ i + 1 # 1 /\ i \in Nat
    BY <2>2
  <2>. QED
    BY <1>2, <2>2, <2>3
<1>8. \A i \in DOMAIN h.queue : h.queue[i] \in Bodies!Msgs \ {m}
  BY <1>1, <1>7 DEF Slots
<1>9. Cardinality(h.active) <= BodiesMaxInFlight
  BY <1>4, ActiveIsFinite, BodiesAssumption DEF Slots
<1>10. Slots(h)
  <2>1. \A x \in h.active : h.shared[x] # None /\ ~h.shared[x].aborted
    BY <1>1, <1>2, <1>6 DEF Slots
  <2>2. \A i \in DOMAIN h.queue :
          /\ h.queue[i] \notin h.active
          /\ h.shared[h.queue[i]] = None \/ ~h.shared[h.queue[i]].aborted
    BY <1>2, <1>6, <1>7, <1>8 DEF Slots
  <2>3. \A i, k \in DOMAIN h.queue : h.queue[i] = h.queue[k] => i = k
    BY <1>7 DEF Slots
  <2>. QED
    BY <1>1, <1>2, <1>5, <1>7, <1>9, <2>1, <2>2, <2>3 DEF Slots
<1>11. Keeps(g, h)
  BY <1>2 DEF Keeps, Slots
<1>. QED
  BY <1>2, <1>4, <1>10, <1>11

\* At most one slot is free when something waits, so one start fills it.
LEMMA PumpFillsSlots ==
  ASSUME NEW g, Fields(g), Slots(g), NEW h, h = Bodies!Pump(g),
         \/ g.queue = << >> \/ Tail(g.queue) = << >>
         \/ Cardinality(g.active) >= BodiesMaxInFlight - 1
  PROVE  Fields(h) /\ Slots(h) /\ NoneWaits(h) /\ Keeps(g, h)
<1>1. Cardinality(g.active) \in Nat /\ BodiesMaxInFlight \in Nat
  BY ActiveIsFinite, BodiesAssumption DEF Slots
<1>2. CASE g.queue # << >> /\ Cardinality(g.active) < BodiesMaxInFlight
  <2>1. h = Bodies!Started(g, Head(g.queue))
    BY <1>2, SameCount DEF Bodies!Pump
  <2>2. /\ Fields(h) /\ Slots(h) /\ Keeps(g, h) /\ h.queue = Tail(g.queue)
        /\ Cardinality(h.active) = Cardinality(g.active) + 1
    BY <1>2, <2>1, StartKeepsSlots
  <2>3. h.queue = << >> \/ Cardinality(h.active) = BodiesMaxInFlight
    BY <1>1, <1>2, <2>2
  <2>. QED
    BY <2>2, <2>3 DEF NoneWaits
<1>3. CASE ~(g.queue # << >> /\ Cardinality(g.active) < BodiesMaxInFlight)
  <2>1. h = g
    BY <1>3, SameCount DEF Bodies!Pump
  <2>2. Cardinality(g.active) <= BodiesMaxInFlight
    BY DEF Slots
  <2>3. NoneWaits(g)
    BY <1>1, <1>3, <2>2 DEF NoneWaits
  <2>. QED
    BY <2>1, <2>3 DEF Keeps
<1>. QED
  BY <1>2, <1>3

\* A guess that is asked for waits, runs or is dropped.
LEMMA GuessFillsSlots ==
  ASSUME NEW g, Fields(g), Slots(g), NoneWaits(g), NEW m \in Bodies!Msgs,
         NEW h, h = Bodies!Guess(g, m)
  PROVE  Fields(h) /\ Slots(h) /\ NoneWaits(h) /\ Keeps(g, h)
<1> DEFINE q == <<m>> \o g.queue
           len == IF Len(q) > BodiesMaxQueued THEN BodiesMaxQueued ELSE Len(q)
           pushed == [g EXCEPT !.queue = SubSeq(q, 1, len)]
<1>1. CASE h = g
  BY <1>1 DEF Keeps
<1>2. CASE h # g
  <2>1. /\ g.shared[m] = None /\ m \notin g.active /\ m \notin Bodies!Range(g.queue)
        /\ h = Bodies!Pump(pushed)
    BY <1>2 DEF Bodies!Guess, Bodies!Range
  <2>2. /\ pushed.queue = SubSeq(q, 1, len) /\ pushed.active = g.active
        /\ pushed.shared = g.shared /\ Fields(pushed)
    <3> DEFINE some == SubSeq(q, 1, len)
    <3> HIDE DEF some
    <3>1. [g EXCEPT !.queue = some]
            = [queue |-> some, active |-> g.active, shared |-> g.shared]
      BY DEF Fields
    <3>. QED
      BY <3>1 DEF Fields, some
  <2> HIDE DEF pushed
  <2>3. /\ g.queue \in Seq(Bodies!Msgs) /\ q \in Seq(Bodies!Msgs)
        /\ Len(q) = Len(g.queue) + 1 /\ Len(g.queue) \in Nat
        /\ \A i \in 1 .. Len(q) : q[i] = IF i = 1 THEN m ELSE g.queue[i - 1]
    BY DEF Slots
  <2>4. len \in Nat /\ len <= Len(q)
    BY <2>3, BodiesAssumption
  <2>5. /\ pushed.queue \in Seq(Bodies!Msgs) /\ Len(pushed.queue) = len
        /\ \A i \in 1 .. len : pushed.queue[i] = q[i]
    BY <2>2, <2>3, <2>4
  <2>6. \A i \in 1 .. Len(g.queue) : g.queue[i] # m
    BY <2>1 DEF Bodies!Range
  <2>7. Slots(pushed)
    <3>1. ASSUME NEW i \in DOMAIN pushed.queue
          PROVE  /\ i \in 1 .. len
                 /\ \/ i = 1 /\ pushed.queue[i] = m
                    \/ /\ i # 1 /\ i - 1 \in 1 .. Len(g.queue)
                       /\ pushed.queue[i] = g.queue[i - 1]
      <4>1. i \in 1 .. len /\ i \in 1 .. Len(q) /\ i \in Nat
        BY <2>3, <2>4, <2>5
      <4>2. i # 1 => i - 1 \in 1 .. Len(g.queue)
        BY <2>3, <4>1
      <4>. QED
        BY <2>3, <2>5, <4>1, <4>2
    <3>2. ASSUME NEW i \in DOMAIN pushed.queue
          PROVE  /\ pushed.queue[i] \notin pushed.active
                 /\ \/ pushed.shared[pushed.queue[i]] = None
                    \/ ~pushed.shared[pushed.queue[i]].aborted
      <4>1. CASE i = 1 /\ pushed.queue[i] = m
        BY <2>1, <2>2, <4>1
      <4>2. CASE i - 1 \in 1 .. Len(g.queue) /\ pushed.queue[i] = g.queue[i - 1]
        <5>1. i - 1 \in DOMAIN g.queue
          BY <2>3, <4>2
        <5>. QED
          BY <2>2, <4>2, <5>1 DEF Slots
      <4>. QED
        BY <3>1, <4>1, <4>2
    <3>3. ASSUME NEW i \in DOMAIN pushed.queue, NEW k \in DOMAIN pushed.queue,
                 pushed.queue[i] = pushed.queue[k]
          PROVE  i = k
      <4>1. i \in Nat /\ k \in Nat /\ (i = 1 <=> k = 1)
        BY <2>6, <3>1, <3>3, <2>4
      <4>2. CASE i # 1
        <5>1. i - 1 \in DOMAIN g.queue /\ k - 1 \in DOMAIN g.queue
          BY <2>3, <3>1, <4>1, <4>2
        <5>2. i - 1 = k - 1
          BY <3>1, <3>3, <4>1, <4>2, <5>1 DEF Slots
        <5>. QED
          BY <4>1, <5>2
      <4>. QED
        BY <4>1, <4>2
    <3>. QED
      BY <2>2, <2>5, <3>2, <3>3 DEF Slots
  <2>8. \/ pushed.queue = << >> \/ Tail(pushed.queue) = << >>
        \/ Cardinality(pushed.active) >= BodiesMaxInFlight - 1
    <3>1. CASE g.queue = << >>
      <4>1. len <= 1
        BY <3>1, <2>3, <2>4
      <4>2. len = 0 \/ len = 1
        BY <2>4, <4>1
      <4>3. CASE len = 0
        BY <2>5, <4>3
      <4>4. CASE len = 1
        <5>1. pushed.queue # << >> /\ pushed.queue \in Seq(Bodies!Msgs)
          BY <2>5, <4>4
        <5>2. Tail(pushed.queue) \in Seq(Bodies!Msgs) /\ Len(Tail(pushed.queue)) = 0
          BY <2>5, <4>4, <5>1
        <5>3. ASSUME NEW t \in Seq(Bodies!Msgs), Len(t) = 0 PROVE t = << >>
          BY <5>3
        <5>. QED
          BY <5>2, <5>3
      <4>. QED
        BY <4>2, <4>3, <4>4
    <3>2. CASE g.queue # << >>
      BY <2>2, <3>2, BodiesAssumption DEF NoneWaits
    <3>. QED
      BY <3>1, <3>2
  <2>9. Fields(h) /\ Slots(h) /\ NoneWaits(h) /\ Keeps(pushed, h)
    BY <2>1, <2>2, <2>7, <2>8, PumpFillsSlots
  <2>. QED
    BY <2>2, <2>9 DEF Keeps
<1>. QED
  BY <1>1, <1>2

\* So do the guesses around an open message.
LEMMA AroundFillsSlots ==
  ASSUME NEW g, Fields(g), Slots(g), NoneWaits(g), NEW m \in Bodies!Msgs,
         NEW h, h = Bodies!Around(g, m)
  PROVE  Fields(h) /\ Slots(h) /\ NoneWaits(h) /\ Keeps(g, h)
<1> DEFINE next == IF m + 1 \in Bodies!Msgs THEN Bodies!Guess(g, m + 1) ELSE g
<1>1. Fields(next) /\ Slots(next) /\ NoneWaits(next) /\ Keeps(g, next)
  BY GuessFillsSlots DEF Keeps
<1>2. CASE m - 1 \in Bodies!Msgs
  <2>1. h = Bodies!Guess(next, m - 1)
    BY <1>2 DEF Bodies!Around
  <2>2. Fields(h) /\ Slots(h) /\ NoneWaits(h) /\ Keeps(next, h)
    BY <1>1, <1>2, <2>1, GuessFillsSlots
  <2>. QED
    BY <1>1, <2>2 DEF Keeps
<1>3. CASE m - 1 \notin Bodies!Msgs
  BY <1>1, <1>3 DEF Bodies!Around
<1>. QED
  BY <1>2, <1>3

\* The prefetcher's state as a value, and back.
LEMMA StateHasSlots ==
  ASSUME Bodies!FetchInv
  PROVE  /\ Fields(Bodies!Guesses) /\ Slots(Bodies!Guesses) /\ NoneWaits(Bodies!Guesses)
         /\ Bodies!Guesses.queue = v2 /\ Bodies!Guesses.active = v3
         /\ Bodies!Guesses.shared = v5
<1>1. /\ Bodies!Guesses.queue = v2 /\ Bodies!Guesses.active = v3
      /\ Bodies!Guesses.shared = v5 /\ Fields(Bodies!Guesses)
  BY DEF Bodies!Guesses, Fields
<1>. QED
  BY <1>1, SameCount
     DEF Slots, NoneWaits, Bodies!FetchInv, Bodies!TypeOK, Bodies!SlotsAreUsed,
         Bodies!GuessesAreLive

\* ... and back: slots kept as a value are slots of the state.
LEMMA SlotsAreState ==
  ASSUME NEW h, Slots(h), NoneWaits(h), Bodies!Becomes(h),
         v1' \subseteq Bodies!Msgs, v4' \subseteq Bodies!Msgs, v6' \subseteq Bodies!Msgs,
         v7' \in Bodies!Reader \union {None}, Bodies!ReaderIsServed'
  PROVE  Bodies!FetchInv'
<1>1. v2' = h.queue /\ v3' = h.active /\ v5' = h.shared
  BY DEF Bodies!Becomes
<1>2. Bodies!TypeOK'
  BY <1>1 DEF Bodies!TypeOK, Slots
<1>3. Bodies!SlotsAreUsed'
  BY <1>1, SameCount DEF Bodies!SlotsAreUsed, Slots, NoneWaits
<1>4. Bodies!GuessesAreLive'
  BY <1>1 DEF Bodies!GuessesAreLive, Slots
<1>. QED
  BY <1>2, <1>3, <1>4 DEF Bodies!FetchInv

\* A reader whose request is left running is still served.
LEMMA KeptRequestServes ==
  ASSUME Bodies!FetchInv, UNCHANGED <<v6, v7>>,
         v7 # None /\ v7.wait = "shared" /\ v5[v7.msg] # None => v5'[v7.msg] = v5[v7.msg]
  PROVE  Bodies!ReaderIsServed'
  BY DEF Bodies!FetchInv, Bodies!ReaderIsServed

\* Hovering asks for a guess.
LEMMA HoverKeepsFetch ==
  ASSUME Bodies!FetchInv, NEW m \in Bodies!Msgs, Bodies!Hover(m) PROVE Bodies!FetchInv'
<1> DEFINE h == Bodies!Guess(Bodies!Guesses, m)
<1>1. Slots(h) /\ NoneWaits(h) /\ Keeps(Bodies!Guesses, h)
  BY StateHasSlots, GuessFillsSlots
<1> HIDE DEF h
<1>2. Bodies!Becomes(h) /\ UNCHANGED <<v1, v4, v6, v7>>
  BY DEF Bodies!Hover, h
<1>3. v7 # None => v7.msg \in Bodies!Msgs
  BY DEF Bodies!FetchInv, Bodies!TypeOK, Bodies!Reader
<1>4. v7 # None /\ v5[v7.msg] # None => v5'[v7.msg] = v5[v7.msg]
  BY <1>1, <1>2, <1>3, StateHasSlots DEF Keeps, Bodies!Becomes
<1>5. Bodies!ReaderIsServed'
  BY <1>2, <1>4, KeptRequestServes
<1>. QED
  BY <1>1, <1>2, <1>5, SlotsAreState DEF Bodies!FetchInv, Bodies!TypeOK

\* The reader that opens a message hangs on its request.
LEMMA OpenKeepsFetch ==
  ASSUME Bodies!FetchInv, NEW m \in Bodies!Msgs, Bodies!Open(m) PROVE Bodies!FetchInv'
<1> DEFINE G == Bodies!Guesses
<1>1. UNCHANGED <<v1, v4, v6>>
  BY DEF Bodies!Open
<1>2. CASE m \in v1
  <2> DEFINE h == Bodies!Around(G, m)
  <2>1. Slots(h) /\ NoneWaits(h)
    BY StateHasSlots, AroundFillsSlots
  <2> HIDE DEF h
  <2>2. Bodies!Becomes(h) /\ v7' = [msg |-> m, load |-> "ready", wait |-> "none"]
    BY <1>2 DEF Bodies!Open, h
  <2>3. v7' \in Bodies!Reader /\ Bodies!ReaderIsServed'
    BY <2>2 DEF Bodies!Reader, Bodies!ReaderIsServed
  <2>. QED
    BY <1>1, <2>1, <2>2, <2>3, SlotsAreState DEF Bodies!FetchInv, Bodies!TypeOK
<1>3. CASE m \notin v1
  <2> DEFINE own == [guess |-> FALSE, opened |-> TRUE, aborted |-> FALSE]
             request == IF v5[m] # None THEN [v5[m] EXCEPT !.opened = TRUE] ELSE own
             g == [G EXCEPT !.shared[m] =
                     IF @ # None THEN [@ EXCEPT !.opened = TRUE] ELSE own]
             h == Bodies!Around(g, m)
  <2>1. v5 \in [Bodies!Msgs -> Bodies!Request \union {None}]
    BY DEF Bodies!FetchInv, Bodies!TypeOK
  <2>2. /\ request \in Bodies!Request /\ request.opened
        /\ v5[m] # None => request.aborted = v5[m].aborted
        /\ v5[m] = None => ~request.aborted
    <3>1. CASE v5[m] # None
      <4>1. v5[m] \in Bodies!Request /\ request = [v5[m] EXCEPT !.opened = TRUE]
        BY <2>1, <3>1
      <4> HIDE DEF request
      <4>2. request \in Bodies!Request /\ request.opened = TRUE
        BY <4>1 DEF Bodies!Request
      <4>3. request.aborted = v5[m].aborted
        BY <4>1 DEF Bodies!Request
      <4>. QED
        BY <3>1, <4>2, <4>3
    <3>2. CASE v5[m] = None
      BY <3>2 DEF Bodies!Request
    <3>. QED
      BY <3>1, <3>2
  <2>3. request # None
    BY <2>2, BodiesAssumption
  <2>4. /\ Fields(g) /\ g.queue = v2 /\ g.active = v3
        /\ g.shared = [v5 EXCEPT ![m] = request]
    <3>1. G = [queue |-> v2, active |-> v3, shared |-> v5]
      BY DEF Bodies!Guesses
    <3>2. g = [G EXCEPT !.shared = [v5 EXCEPT ![m] = request]]
      BY <3>1
    <3> HIDE DEF request, g
    <3>3. g = [queue |-> v2, active |-> v3, shared |-> [v5 EXCEPT ![m] = request]]
      BY <3>1, <3>2
    <3>. QED
      BY <3>3 DEF Fields
  <2> HIDE DEF g, request
  <2>5. Slots(G) /\ NoneWaits(G) /\ G.queue = v2 /\ G.active = v3 /\ G.shared = v5
    BY StateHasSlots
  <2> HIDE DEF G
  <2>6. Slots(g)
    <3>1. \A x \in Bodies!Msgs : /\ v5[x] # None => g.shared[x] # None
                                 /\ v5[x] # None => g.shared[x].aborted = v5[x].aborted
                                 /\ v5[x] = None => \/ g.shared[x] = None
                                                    \/ ~g.shared[x].aborted
      BY <2>1, <2>2, <2>3, <2>4
    <3>2. \A x \in g.active : g.shared[x] # None /\ ~g.shared[x].aborted
      BY <2>4, <2>5, <3>1 DEF Slots
    <3>3. ASSUME NEW i \in DOMAIN g.queue
          PROVE  /\ g.queue[i] \notin g.active
                 /\ g.shared[g.queue[i]] = None \/ ~g.shared[g.queue[i]].aborted
      <4>1. v2[i] \in Bodies!Msgs
        BY <2>4, <2>5 DEF Slots
      <4>. QED
        BY <2>4, <2>5, <3>1, <4>1 DEF Slots
    <3>4. g.shared \in [Bodies!Msgs -> Bodies!Request \union {None}]
      BY <2>1, <2>2, <2>4
    <3>. QED
      BY <2>4, <2>5, <3>2, <3>3, <3>4 DEF Slots
  <2>7. NoneWaits(g) /\ g.shared[m] = request
    BY <2>1, <2>4, <2>5 DEF NoneWaits
  <2>8. Slots(h) /\ NoneWaits(h) /\ h.shared[m] = request
    <3>1. Slots(h) /\ NoneWaits(h) /\ Keeps(g, h)
      BY <2>4, <2>6, <2>7, AroundFillsSlots
    <3>. QED
      BY <2>3, <2>7, <3>1 DEF Keeps
  <2>9. Bodies!Becomes(h) /\ v7' = [msg |-> m, load |-> "loading", wait |-> "shared"]
    BY <1>3 DEF Bodies!Open, h, g, G
  <2> HIDE DEF h
  <2>10. v7' \in Bodies!Reader
    BY <2>9 DEF Bodies!Reader
  <2>11. Bodies!ReaderIsServed'
    BY <2>2, <2>3, <2>8, <2>9 DEF Bodies!ReaderIsServed, Bodies!Becomes
  <2>. QED
    BY <1>1, <2>8, <2>9, <2>10, <2>11, SlotsAreState DEF Bodies!FetchInv, Bodies!TypeOK
<1>. QED
  BY <1>2, <1>3

\* Cancelling disowns the guesses and leaves every request to be answered.
LEMMA CancelKeepsFetch ==
  ASSUME Bodies!FetchInv, Bodies!LeaveReader \/ Bodies!NewSelection
  PROVE  Bodies!FetchInv'
<1>1. /\ v2' = << >> /\ v3' = {} /\ UNCHANGED <<v1, v4, v6>> /\ v7' \in {v7, None}
      /\ v5' = [m \in Bodies!Msgs |->
                  IF m \in v3 /\ v5[m] # None /\ v5[m].guess
                    THEN [v5[m] EXCEPT !.aborted = TRUE] ELSE v5[m]]
  BY DEF Bodies!LeaveReader, Bodies!NewSelection, Bodies!CancelAll
<1>2. v5 \in [Bodies!Msgs -> Bodies!Request \union {None}]
  BY DEF Bodies!FetchInv, Bodies!TypeOK
<1>3. ASSUME NEW m \in Bodies!Msgs, v5[m] # None
      PROVE  /\ v5'[m] \in Bodies!Request /\ v5'[m] # None
             /\ v5'[m].opened = v5[m].opened
  <2>1. v5[m] \in Bodies!Request
    BY <1>2, <1>3
  <2>2. /\ [v5[m] EXCEPT !.aborted = TRUE] \in Bodies!Request
        /\ [v5[m] EXCEPT !.aborted = TRUE].opened = v5[m].opened
    BY <2>1 DEF Bodies!Request
  <2>. QED
    BY <1>1, <2>1, <2>2, BodiesAssumption
<1>4. \A m \in Bodies!Msgs : v5[m] = None => v5'[m] = None
  BY <1>1
<1>5. Bodies!TypeOK'
  <2>1. v5' \in [Bodies!Msgs -> Bodies!Request \union {None}]
    BY <1>1, <1>3, <1>4
  <2>. QED
    BY <1>1, <2>1 DEF Bodies!FetchInv, Bodies!TypeOK
<1>6. Bodies!SlotsAreUsed' /\ Bodies!GuessesAreLive'
  <2>1. Cardinality({}) = 0 /\ 0 <= BodiesMaxInFlight
    BY FS_EmptySet, BodiesAssumption
  <2>. QED
    BY <1>1, <2>1, SameCount DEF Bodies!SlotsAreUsed, Bodies!GuessesAreLive
<1>7. Bodies!ReaderIsServed'
  <2>1. v7 # None => v7.msg \in Bodies!Msgs
    BY DEF Bodies!FetchInv, Bodies!TypeOK, Bodies!Reader
  <2>. QED
    BY <1>1, <1>3, <2>1 DEF Bodies!FetchInv, Bodies!ReaderIsServed
<1>. QED
  BY <1>5, <1>6, <1>7 DEF Bodies!FetchInv

\* What an answer or a failure makes of the slots: the message's own slot, if
\* it has one, goes to the next guess.
Freed(m) == [Bodies!Guesses EXCEPT !.shared[m] = None, !.active = @ \ {m}]
Ended(m) == IF m \in v3 THEN Bodies!Pump(Freed(m)) ELSE Freed(m)

\* A request that ends frees its slot, and the queue fills it.
LEMMA EndFillsSlots ==
  ASSUME Bodies!FetchInv, NEW m \in Bodies!Msgs
  PROVE  /\ Slots(Ended(m)) /\ NoneWaits(Ended(m))
         /\ \A x \in Bodies!Msgs \ {m} : v5[x] # None => Ended(m).shared[x] = v5[x]
<1> DEFINE G == Bodies!Guesses
           g == Freed(m)
           h == Ended(m)
<1>1. Fields(G) /\ Slots(G) /\ NoneWaits(G) /\ G.queue = v2 /\ G.active = v3 /\ G.shared = v5
  BY StateHasSlots
<1>2. /\ Fields(g) /\ g.queue = v2 /\ g.active = v3 \ {m}
      /\ g.shared = [v5 EXCEPT ![m] = None]
  <2>1. G = [queue |-> v2, active |-> v3, shared |-> v5]
    BY DEF Bodies!Guesses
  <2> DEFINE shared == [v5 EXCEPT ![m] = None]
             active == v3 \ {m}
  <2>2. g = [G EXCEPT !.shared = shared, !.active = active]
    BY <2>1 DEF Freed
  <2> HIDE DEF shared, active, G, g
  <2>3. g = [queue |-> v2, active |-> active, shared |-> shared]
    BY <2>1, <2>2
  <2>. QED
    BY <2>3 DEF Fields, shared, active
<1> HIDE DEF G
<1>3. v5 \in [Bodies!Msgs -> Bodies!Request \union {None}] /\ v2 \in Seq(Bodies!Msgs)
  BY <1>1 DEF Slots
<1>4. /\ Cardinality(v3) \in Nat /\ Cardinality(v3) <= BodiesMaxInFlight
      /\ Cardinality(g.active) = IF m \in v3 THEN Cardinality(v3) - 1 ELSE Cardinality(v3)
      /\ BodiesMaxInFlight \in Nat
  <2>1. v3 \subseteq Bodies!Msgs /\ Cardinality(v3) <= BodiesMaxInFlight
    BY <1>1 DEF Slots
  <2>2. IsFiniteSet(v3) /\ Cardinality(v3) \in Nat
    BY <2>1, ActiveIsFinite
  <2>. QED
    BY <1>2, <2>1, <2>2, FS_RemoveElement, BodiesAssumption
<1>5. Slots(g)
  <2>1. Cardinality(g.active) <= BodiesMaxInFlight
    BY <1>4
  <2>2. ASSUME NEW i \in DOMAIN g.queue
        PROVE  /\ g.queue[i] \notin g.active
               /\ g.shared[g.queue[i]] = None \/ ~g.shared[g.queue[i]].aborted
    <3>1. v2[i] \in Bodies!Msgs
      BY <1>2, <1>3
    <3>2. v2[i] \notin v3 /\ (v5[v2[i]] = None \/ ~v5[v2[i]].aborted)
      BY <1>1, <1>2 DEF Slots
    <3>. QED
      BY <1>2, <1>3, <3>1, <3>2
  <2>3. \A x \in g.active : g.shared[x] # None /\ ~g.shared[x].aborted
    BY <1>1, <1>2, <1>3 DEF Slots
  <2>4. g.shared \in [Bodies!Msgs -> Bodies!Request \union {None}]
    BY <1>2, <1>3
  <2>5. g.active \subseteq Bodies!Msgs /\ g.queue \in Seq(Bodies!Msgs)
    BY <1>1, <1>2 DEF Slots
  <2>6. \A i, k \in DOMAIN g.queue : g.queue[i] = g.queue[k] => i = k
    BY <1>1, <1>2 DEF Slots
  <2>. QED
    BY <2>1, <2>2, <2>3, <2>4, <2>5, <2>6 DEF Slots
<1>6. \A x \in Bodies!Msgs \ {m} : g.shared[x] = v5[x]
  BY <1>2, <1>3
<1>7. CASE m \in v3
  <2>1. g.queue = << >> \/ Cardinality(g.active) >= BodiesMaxInFlight - 1
    BY <1>1, <1>2, <1>4, <1>7 DEF NoneWaits
  <2>2. Slots(h) /\ NoneWaits(h) /\ Keeps(g, h)
    BY <1>2, <1>5, <1>7, <2>1, PumpFillsSlots DEF Ended
  <2>. QED
    BY <1>6, <2>2 DEF Keeps
<1>8. CASE m \notin v3
  <2>1. h = g /\ g.active = v3
    BY <1>2, <1>8 DEF Ended
  <2>2. NoneWaits(g)
    BY <1>1, <1>2, <2>1 DEF NoneWaits
  <2>. QED
    BY <1>5, <1>6, <2>1, <2>2
<1>. QED
  BY <1>7, <1>8

\* Whoever waited for it is told.
LEMMA EndKeepsFetch ==
  ASSUME Bodies!FetchInv, NEW m \in Bodies!Msgs, Bodies!Answered(m) \/ Bodies!Failed(m)
  PROVE  Bodies!FetchInv'
<1> DEFINE h == Ended(m)
<1>1. Bodies!Becomes(h) /\ UNCHANGED v6
  BY DEF Bodies!Answered, Bodies!Failed, Ended, Freed
<1>2. /\ Slots(h) /\ NoneWaits(h)
      /\ \A x \in Bodies!Msgs \ {m} : v5[x] # None => h.shared[x] = v5[x]
  BY EndFillsSlots
<1>3. v1' \subseteq Bodies!Msgs /\ v4' \subseteq Bodies!Msgs
  BY DEF Bodies!Answered, Bodies!Failed, Bodies!Stored, Bodies!FetchInv, Bodies!TypeOK
<1> HIDE DEF h
<1>4. /\ v7 \in Bodies!Reader \union {None}
      /\ \/ v7 # None /\ \E load \in {"ready", "error"} : v7' = Bodies!Settled(load)
         \/ v7' = v7 /\ ~Bodies!Awaits(m, "shared")
  BY DEF Bodies!Answered, Bodies!Failed, Bodies!FetchInv, Bodies!TypeOK, Bodies!Awaits
<1>5. CASE v7' = v7 /\ ~Bodies!Awaits(m, "shared")
  <2>1. v7 # None => v7.msg \in Bodies!Msgs
    BY <1>4 DEF Bodies!Reader
  <2>2. v7 # None /\ v7.wait = "shared" /\ v5[v7.msg] # None => v5'[v7.msg] = v5[v7.msg]
    BY <1>1, <1>2, <1>5, <2>1 DEF Bodies!Awaits, Bodies!Becomes
  <2>3. Bodies!ReaderIsServed'
    BY <1>1, <1>5, <2>2, KeptRequestServes
  <2>. QED
    BY <1>1, <1>2, <1>3, <1>4, <1>5, <2>3, SlotsAreState DEF Bodies!FetchInv, Bodies!TypeOK
<1>6. ASSUME v7 # None, NEW load \in {"ready", "error"}, v7' = Bodies!Settled(load)
      PROVE  Bodies!FetchInv'
  <2>1. v7' \in Bodies!Reader /\ v7'.load = load
    BY <1>4, <1>6 DEF Bodies!Settled, Bodies!Reader
  <2>2. Bodies!ReaderIsServed'
    BY <2>1 DEF Bodies!ReaderIsServed
  <2>. QED
    BY <1>1, <1>2, <1>3, <2>1, <2>2, SlotsAreState DEF Bodies!FetchInv, Bodies!TypeOK
<1>. QED
  BY <1>4, <1>5, <1>6

\* "Try again", and the reader that is closed, touch no slot.
LEMMA RetryKeepsFetch ==
  ASSUME Bodies!FetchInv,
         \/ Bodies!Close \/ Bodies!Retry
         \/ \E m \in Bodies!Msgs : Bodies!RetryAnswered(m) \/ Bodies!RetryFailed(m)
  PROVE  Bodies!FetchInv'
<1>1. UNCHANGED <<v2, v3, v4, v5>> /\ v1' \subseteq Bodies!Msgs
  BY DEF Bodies!Close, Bodies!Retry, Bodies!RetryAnswered, Bodies!RetryFailed,
         Bodies!Stored, Bodies!FetchInv, Bodies!TypeOK
<1>2. Bodies!SlotsAreUsed' /\ Bodies!GuessesAreLive'
  BY <1>1 DEF Bodies!FetchInv, Bodies!SlotsAreUsed, Bodies!GuessesAreLive
<1>3. /\ v7' \in Bodies!Reader \union {None} /\ v6' \subseteq Bodies!Msgs
      /\ Bodies!ReaderIsServed'
  <2>1. v7 \in Bodies!Reader \union {None} /\ v6 \subseteq Bodies!Msgs
    BY DEF Bodies!FetchInv, Bodies!TypeOK
  <2>2. CASE Bodies!Close
    BY <2>1, <2>2 DEF Bodies!Close, Bodies!ReaderIsServed
  <2>3. CASE Bodies!Retry
    <3>1. /\ v7 \in Bodies!Reader
          /\ v7' = [v7 EXCEPT !.load = "loading", !.wait = "retry"]
          /\ v6' = v6 \union {v7.msg}
      BY <2>1, <2>3 DEF Bodies!Retry
    <3>2. v7' \in Bodies!Reader /\ v7'.wait = "retry" /\ v7'.msg = v7.msg /\ v7.msg \in Bodies!Msgs
      BY <3>1 DEF Bodies!Reader
    <3>. QED
      BY <2>1, <3>1, <3>2 DEF Bodies!ReaderIsServed
  <2>4. ASSUME NEW m \in Bodies!Msgs, Bodies!RetryAnswered(m) \/ Bodies!RetryFailed(m)
        PROVE  /\ v7' \in Bodies!Reader \union {None} /\ v6' \subseteq Bodies!Msgs
               /\ Bodies!ReaderIsServed'
    <3>1. /\ v6' = v6 \ {m}
          /\ \/ v7 # None /\ \E load \in {"ready", "error"} : v7' = Bodies!Settled(load)
             \/ v7' = v7 /\ ~Bodies!Awaits(m, "retry")
      BY <2>4 DEF Bodies!RetryAnswered, Bodies!RetryFailed, Bodies!Awaits
    <3>2. CASE v7' = v7 /\ ~Bodies!Awaits(m, "retry")
      BY <1>1, <2>1, <3>1, <3>2 DEF Bodies!Awaits, Bodies!FetchInv, Bodies!ReaderIsServed
    <3>3. ASSUME v7 # None, NEW load \in {"ready", "error"}, v7' = Bodies!Settled(load)
          PROVE  v7' \in Bodies!Reader /\ v7'.load = load
      BY <2>1, <3>3 DEF Bodies!Settled, Bodies!Reader
    <3>4. ASSUME v7 # None, NEW load \in {"ready", "error"}, v7' = Bodies!Settled(load)
          PROVE  v7' \in Bodies!Reader /\ Bodies!ReaderIsServed'
      BY <3>3, <3>4 DEF Bodies!ReaderIsServed
    <3>. QED
      BY <2>1, <3>1, <3>2, <3>4
  <2>. QED
    BY <2>2, <2>3, <2>4
<1>. QED
  BY <1>1, <1>2, <1>3 DEF Bodies!FetchInv, Bodies!TypeOK

\* Nothing is asked for at the start.
LEMMA FetchInit == ASSUME Bodies!Init PROVE Bodies!FetchInv
<1>1. Cardinality({}) = 0 /\ 0 <= BodiesMaxInFlight
  BY FS_EmptySet, BodiesAssumption
<1>2. Bodies!TypeOK
  BY DEF Bodies!Init, Bodies!TypeOK
<1>3. Bodies!SlotsAreUsed /\ Bodies!GuessesAreLive
  BY <1>1, SameCount DEF Bodies!Init, Bodies!SlotsAreUsed, Bodies!GuessesAreLive
<1>. QED
  BY <1>2, <1>3 DEF Bodies!Init, Bodies!FetchInv, Bodies!ReaderIsServed

\* Every step of the prefetcher and the reader.
LEMMA StepKeepsFetch ==
  ASSUME Bodies!FetchInv, [Bodies!Next]_(Bodies!vars) PROVE Bodies!FetchInv'
<1>1. CASE Bodies!Next
  BY <1>1, HoverKeepsFetch, OpenKeepsFetch, CancelKeepsFetch, EndKeepsFetch, RetryKeepsFetch
     DEF Bodies!Next
<1>2. CASE UNCHANGED Bodies!vars
  BY <1>2
     DEF Bodies!vars, Bodies!FetchInv, Bodies!TypeOK, Bodies!SlotsAreUsed,
         Bodies!ReaderIsServed, Bodies!GuessesAreLive
<1>. QED
  BY <1>1, <1>2

\* A guess that was aborted leaves the cache alone when its answer comes: it
\* runs no longer, and nobody has opened it.
LEMMA AbortedGuessesDie ==
  ASSUME Bodies!FetchInv, [Bodies!Next]_(Bodies!vars)
  PROVE  Bodies!GuessesDieStep
<1>. SUFFICES ASSUME NEW x \in Bodies!Msgs, v5[x] # None, v5[x].aborted, ~v5[x].opened,
                     v5'[x] = None, v1' # v1
              PROVE  FALSE
  BY DEF Bodies!GuessesDieStep
<1>1. x \notin v3
  BY DEF Bodies!FetchInv, Bodies!GuessesAreLive
<1>2. ASSUME NEW m \in Bodies!Msgs, Bodies!Answered(m) PROVE FALSE
  <2>1. Bodies!Becomes(Ended(m)) /\ Bodies!Stores(m)
    BY <1>2 DEF Bodies!Answered, Ended, Freed
  <2>2. x # m
    BY <1>1, <2>1 DEF Bodies!Stores
  <2>3. v5'[x] = v5[x]
    BY <2>1, <2>2, EndFillsSlots DEF Bodies!Becomes
  <2>. QED
    BY <2>3
<1>3. ASSUME NEW m \in Bodies!Msgs, Bodies!RetryAnswered(m) PROVE FALSE
  BY <1>3 DEF Bodies!RetryAnswered
<1>. QED
  BY <1>2, <1>3 DEF Bodies!Next, Bodies!vars, Bodies!Hover, Bodies!Open, Bodies!Failed,
     Bodies!RetryFailed, Bodies!Close, Bodies!LeaveReader, Bodies!NewSelection, Bodies!Retry

-----------------------------------------------------------------------------
(* The composer.                                                           *)

\* The instance counts as this module does.
LEMMA SendsAreCounted ==
  \A S : Composer!Cardinality(S) = Cardinality(S) /\ (Composer!IsFiniteSet(S) <=> IsFiniteSet(S))
  BY DEF Composer!Cardinality, Cardinality, Composer!IsFiniteSet, IsFiniteSet

\* The sends under way of one composer.
Under(W, id) == {w \in W : w.owner = id}

\* What an instance of the composer, c, says of its source and of the sends W.
Honest(c, s, W) ==
  /\ c \in Composer!Composers
  /\ c.key = Composer!Key(s) /\ c.writtenFor = Composer!About(s)
  /\ c.inFlight => \E w : Under(W, c.id) = {w}
  /\ ~c.inFlight => Under(W, c.id) = {}
  /\ c.failure.certainty = "not-sent" => ~c.failure.out

\* There is one send under way exactly when the composer says so.
LEMMA OneIsCounted ==
  ASSUME NEW c, NEW W, IsFiniteSet(W), c.inFlight \in BOOLEAN
  PROVE  Composer!Cardinality({w \in W : w.owner = c.id}) = (IF c.inFlight THEN 1 ELSE 0)
           <=> /\ c.inFlight => \E w : Under(W, c.id) = {w}
               /\ ~c.inFlight => Under(W, c.id) = {}
<1>1. IsFiniteSet(Under(W, c.id))
  BY FS_Subset, Under(W, c.id) \in SUBSET W DEF Under
<1>2. /\ Cardinality(Under(W, c.id)) = 0 <=> Under(W, c.id) = {}
      /\ Cardinality(Under(W, c.id)) = 1 <=> \E w : Under(W, c.id) = {w}
  BY <1>1, FS_EmptySet, FS_Singleton
<1>3. Composer!Cardinality({w \in W : w.owner = c.id}) = Cardinality(Under(W, c.id))
  BY SendsAreCounted DEF Under
<1>. QED
  BY <1>2, <1>3

\* The invariant, an instance at a time.
LEMMA InvIsHonest ==
  ASSUME Composer!ComposeInv, v8 # None PROVE Honest(v8, v4, v9)
<1>1. v8 \in Composer!Composers /\ v8.inFlight \in BOOLEAN
  BY DEF Composer!ComposeInv, Composer!TypeOK, Composer!Composers
<1>2. IsFiniteSet(v9)
  BY SendsAreCounted DEF Composer!ComposeInv, Composer!SendsAreFew
<1>3. Composer!Cardinality({w \in v9 : w.owner = v8.id}) = (IF v8.inFlight THEN 1 ELSE 0)
  BY DEF Composer!ComposeInv, Composer!OneSendEach
<1>4. /\ v8.inFlight => \E w : Under(v9, v8.id) = {w}
      /\ ~v8.inFlight => Under(v9, v8.id) = {}
  BY <1>1, <1>2, <1>3, OneIsCounted
<1>. QED
  BY <1>1, <1>4 DEF Honest, Composer!ComposeInv, Composer!ComposerIsKeyed, Composer!NotSentIsTrue

\* What the invariant says of the sends.
SendsAreHonest(W) ==
  /\ W \subseteq Composer!Sends /\ IsFiniteSet(W) /\ Cardinality(W) <= ComposerMaxSends
  /\ \A w \in W : w.answer \in {"none", "refused"} => ~w.out
  /\ \A w \in W : w.writtenFor = w.about

LEMMA SendsStayHonest == ASSUME Composer!ComposeInv PROVE SendsAreHonest(v9)
  BY SendsAreCounted
     DEF Composer!ComposeInv, Composer!TypeOK, Composer!SendsAreFew, Composer!OutWhenServed,
         Composer!NothingSentElsewhere, SendsAreHonest

\* What the invariant says of the rest.
PageIsTyped ==
  /\ v1 \in {"inbox", "opens", "compose"} /\ v2 \in {"inbox", "opens"}
  /\ v3 \in ComposerMsgs \union {None} /\ v4 \in Composer!Sources \union {None}
  /\ v5 \in BOOLEAN /\ v10 \in BOOLEAN /\ v6 \in 0 .. ComposerMaxReplies
  /\ \A l \in v7 : l.source \in Composer!Sources /\ l.inPlace \in BOOLEAN

\* The invariant from its parts, of the state after a step.
LEMMA HonestIsInv ==
  ASSUME PageIsTyped', Composer!RepliesAreNumbered', SendsAreHonest(v9'),
         v8' # None => Honest(v8', v4', v9')
  PROVE  Composer!ComposeInv'
<1>1. Composer!TypeOK' /\ Composer!ComposerIsKeyed' /\ Composer!NotSentIsTrue'
  BY DEF PageIsTyped, Honest, SendsAreHonest, Composer!TypeOK, Composer!ComposerIsKeyed,
         Composer!NotSentIsTrue
<1>2. Composer!SendsAreFew' /\ Composer!OutWhenServed' /\ Composer!NothingSentElsewhere'
  BY SendsAreCounted
     DEF SendsAreHonest, Composer!SendsAreFew, Composer!OutWhenServed,
         Composer!NothingSentElsewhere
<1>3. Composer!OneSendEach'
  <2>1. ASSUME v8' # None
        PROVE  Composer!Cardinality({w \in v9' : w.owner = v8'.id})
                 = (IF v8'.inFlight THEN 1 ELSE 0)
    <3>1. v8'.inFlight \in BOOLEAN
      BY <2>1 DEF Honest, Composer!Composers
    <3>. QED
      BY <2>1, <3>1, OneIsCounted DEF Honest, SendsAreHonest
  <2>. QED
    BY <2>1 DEF Composer!OneSendEach
<1>. QED
  BY <1>1, <1>2, <1>3 DEF Composer!ComposeInv

\* A key tells what is answered.
LEMMA KeyTellsAbout ==
  ASSUME NEW s \in Composer!Sources \union {None}, NEW t \in Composer!Sources \union {None},
         Composer!Key(s) = Composer!Key(t)
  PROVE  Composer!About(s) = Composer!About(t)
  BY ComposerAssumption DEF Composer!Key, Composer!NewKey, Composer!About, Composer!Sources

\* A new instance has an id that no send under way owns: there are more ids
\* than sends.
LEMMA FreshIsHonest ==
  ASSUME Composer!ComposeInv, NEW place \in {"page"} \union ComposerMsgs,
         NEW s \in Composer!Sources \union {None}
  PROVE  Honest(Composer!Fresh(place, s), s, v9)
<1> DEFINE i == CHOOSE i \in Composer!Ids : ~\E w \in v9 : w.owner = i
<1>1. \E j \in Composer!Ids : ~\E w \in v9 : w.owner = j
  <2>. SUFFICES ASSUME \A j \in Composer!Ids : \E w \in v9 : w.owner = j PROVE FALSE
    OBVIOUS
  <2> DEFINE f == [j \in Composer!Ids |-> CHOOSE w \in v9 : w.owner = j]
  <2>1. f \in [Composer!Ids -> v9]
    OBVIOUS
  <2>2. \A j \in Composer!Ids : f[j].owner = j
    OBVIOUS
  <2>3. /\ IsFiniteSet(Composer!Ids) /\ Cardinality(Composer!Ids) = ComposerMaxSends + 1
    <3> DEFINE top == ComposerMaxSends + 1
    <3>1. top \in Nat \ {0}
      BY ComposerAssumption
    <3> HIDE DEF top
    <3>2. 1 \in Int /\ top \in Int /\ ~(1 > top) /\ (top - 1) + 1 = top
      BY <3>1
    <3>3. IsFiniteSet(1 .. top) /\ Cardinality(1 .. top) = top
      BY <3>2, FS_Interval
    <3>. QED
      BY <3>3 DEF Composer!Ids, top
  <2>4. IsFiniteSet(v9) /\ Cardinality(v9) < Cardinality(Composer!Ids)
    <3>1. IsFiniteSet(v9) /\ Cardinality(v9) <= ComposerMaxSends
      BY SendsStayHonest DEF SendsAreHonest
    <3>. QED
      BY <3>1, <2>3, FS_CardinalityType, ComposerAssumption
  <2> HIDE DEF f
  <2>5. \E j, k \in Composer!Ids : j # k /\ f[j] = f[k]
    BY <2>1, <2>3, <2>4, FS_PigeonHole
  <2>. QED
    BY <2>2, <2>5
<1>2. i \in Composer!Ids /\ ~\E w \in v9 : w.owner = i
  BY <1>1
<1> HIDE DEF i
<1>3. Composer!Fresh(place, s) =
        [place |-> place, key |-> Composer!Key(s), source |-> s, id |-> i,
         identities |-> FALSE, seed |-> {}, to |-> {}, text |-> FALSE,
         writtenFor |-> Composer!About(s), inFlight |-> FALSE, partial |-> {},
         failure |-> [certainty |-> "none", out |-> FALSE]]
  BY DEF Composer!Fresh, Composer!NoFailure, i
<1>4. Composer!Key(s) \in Composer!Keys /\ Composer!About(s) \in ComposerMsgs \union {None}
  BY DEF Composer!Key, Composer!Keys, Composer!About, Composer!Sources
<1>5. Composer!Fresh(place, s) \in Composer!Composers
  BY <1>2, <1>3, <1>4 DEF Composer!Composers
<1>6. Under(v9, Composer!Fresh(place, s).id) = {}
  BY <1>2, <1>3 DEF Under
<1>. QED
  BY <1>3, <1>5, <1>6 DEF Honest

\* Whatever a handler shows, the instance it leaves on screen is honest.
LEMMA RenderedIsHonest ==
  ASSUME Composer!ComposeInv, NEW place \in {"page", None} \union ComposerMsgs,
         NEW s \in Composer!Sources \union {None}, Composer!Rendered(v8, place, s) # None
  PROVE  Honest(Composer!Rendered(v8, place, s), s, v9)
<1>1. place # None
  BY DEF Composer!Rendered
<1>2. CASE Composer!Showing(v8, place, s)
  <2> DEFINE c == Composer!Rendered(v8, place, s)
  <2>1. v8 # None /\ Honest(v8, v4, v9) /\ v8.key = Composer!Key(s)
    BY <1>2, InvIsHonest DEF Composer!Showing
  <2>2. c = [v8 EXCEPT !.source = s, !.identities = @ /\ v8.source = s]
    BY <1>1, <1>2 DEF Composer!Rendered
  <2>3. v4 \in Composer!Sources \union {None}
    BY DEF Composer!ComposeInv, Composer!TypeOK
  <2>4. v8.writtenFor = Composer!About(s)
    BY <2>1, <2>3, KeyTellsAbout DEF Honest
  <2>5. v8 \in Composer!Composers
    BY <2>1 DEF Honest
  <2>6. c \in Composer!Composers
    BY <2>2, <2>5 DEF Composer!Composers
  <2>7. /\ c.key = v8.key /\ c.writtenFor = v8.writtenFor /\ c.inFlight = v8.inFlight
        /\ c.id = v8.id /\ c.failure = v8.failure
    BY <2>2, <2>5 DEF Composer!Composers
  <2> HIDE DEF c
  <2>. QED
    BY <2>1, <2>4, <2>6, <2>7 DEF Honest, c
<1>3. CASE ~Composer!Showing(v8, place, s)
  BY <1>1, <1>3, FreshIsHonest DEF Composer!Rendered
<1>. QED
  BY <1>2, <1>3

\* The state before a step, as its parts.
LEMMA InvIsPage ==
  ASSUME Composer!ComposeInv
  PROVE  PageIsTyped /\ Composer!RepliesAreNumbered /\ SendsAreHonest(v9)
  BY SendsStayHonest DEF Composer!ComposeInv, Composer!TypeOK, PageIsTyped

\* What a handler shows, with the replies that were asked for.
LEMMA ShowsKeepsInv ==
  ASSUME Composer!ComposeInv,
         NEW v \in {"inbox", "opens", "compose"}, NEW r \in ComposerMsgs \union {None},
         NEW s \in Composer!Sources \union {None}, NEW dirty \in BOOLEAN, NEW asked \in BOOLEAN,
         Composer!Shows(v, r, s, dirty, asked),
         v2' \in {"inbox", "opens"}, v6' \in 0 .. ComposerMaxReplies,
         \A l \in v7' : l.source \in Composer!Sources /\ l.inPlace \in BOOLEAN,
         s # None => s.attempt <= v6', \A l \in v7' : l.source.attempt <= v6',
         v9' = v9
  PROVE  Composer!ComposeInv'
<1> DEFINE place == Composer!Place(v, r, s)
<1>1. /\ v1' = v /\ v3' = r /\ v4' = s /\ v8' = Composer!Rendered(v8, place, s)
      /\ v5' \in BOOLEAN /\ v10' \in BOOLEAN
  BY InvIsPage DEF Composer!Shows, PageIsTyped
<1>2. place \in {"page", None} \union ComposerMsgs
  BY DEF Composer!Place
<1> HIDE DEF place
<1>3. PageIsTyped' /\ Composer!RepliesAreNumbered' /\ SendsAreHonest(v9')
  BY <1>1, InvIsPage DEF PageIsTyped, Composer!RepliesAreNumbered
<1>4. v8' # None => Honest(v8', v4', v9')
  BY <1>1, <1>2, RenderedIsHonest
<1>. QED
  BY <1>3, <1>4, HonestIsInv

\* Opening and closing messages, changing the view and leaving the composer.
LEMMA NavigationKeepsCompose ==
  ASSUME Composer!ComposeInv,
         \/ \E m \in ComposerMsgs : Composer!OpenMessage(m)
         \/ Composer!CloseMessage \/ Composer!NewMessage \/ Composer!RequestClose
         \/ \E v \in {"inbox", "opens"} : Composer!ChangeView(v)
  PROVE  Composer!ComposeInv'
<1>. USE InvIsPage DEF PageIsTyped, Composer!RepliesAreNumbered
<1>1. ASSUME NEW m \in ComposerMsgs, Composer!OpenMessage(m) PROVE Composer!ComposeInv'
  BY <1>1, ShowsKeepsInv DEF Composer!OpenMessage
<1>2. CASE Composer!CloseMessage
  BY <1>2, ShowsKeepsInv DEF Composer!CloseMessage
<1>3. CASE Composer!NewMessage
  <2>1. v2' \in {"inbox", "opens"}
    BY <1>3 DEF Composer!NewMessage
  <2>. QED
    BY <1>3, <2>1, ShowsKeepsInv DEF Composer!NewMessage
<1>4. CASE Composer!RequestClose
  <2>1. Composer!Shows(IF v1 = "compose" THEN v2 ELSE v1, v3, None, FALSE, TRUE)
        /\ UNCHANGED <<v2, v6, v7, v9>>
    BY <1>4 DEF Composer!RequestClose, Composer!CloseCompose
  <2>. QED
    BY <2>1, ShowsKeepsInv
<1>5. ASSUME NEW v \in {"inbox", "opens"}, Composer!ChangeView(v) PROVE Composer!ComposeInv'
  <2>1. Composer!Asks \in BOOLEAN
    BY DEF Composer!Asks
  <2>. QED
    BY <1>5, <2>1, ShowsKeepsInv DEF Composer!ChangeView
<1>. QED
  BY <1>1, <1>2, <1>3, <1>4, <1>5

\* A reply is asked for, and opened at once or when its message is loaded.
LEMMA RepliesKeepCompose ==
  ASSUME Composer!ComposeInv,
         \/ \E m \in ComposerMsgs, mode \in ComposerModes : Composer!StartReply(m, mode)
         \/ \E l \in v7 : Composer!Loaded(l) \/ Composer!LoadFails(l)
  PROVE  Composer!ComposeInv'
<1>1. /\ v6 \in 0 .. ComposerMaxReplies
      /\ v8 # None => Honest(v8, v4, v9)
      /\ \A l \in v7 : /\ l.source \in Composer!Sources /\ l.inPlace \in BOOLEAN
                       /\ l.source.attempt <= v6
  BY InvIsPage, InvIsHonest DEF PageIsTyped, Composer!RepliesAreNumbered
<1>2. v6 \in Int /\ \A l \in v7 : l.source.attempt \in Int
  <2>1. \A x \in Composer!Sources : x.attempt \in Int
    BY ComposerAssumption DEF Composer!Sources
  <2>. QED
    BY <1>1, <2>1, ComposerAssumption
\* A number that grows bounds what it bounded.
<1>3. ASSUME v6' \in 0 .. ComposerMaxReplies, v6 <= v6'
      PROVE  \A l \in v7 : l.source.attempt <= v6'
  <2>1. \A l \in v7 : l.source.attempt <= v6
    BY <1>1
  <2>. QED
    BY <1>2, <1>3, <2>1, ComposerAssumption
\* What a reply that was asked for opens is shown in its place.
<1>4. ASSUME NEW s \in Composer!Sources, NEW p \in BOOLEAN, Composer!OpenReply(s, p),
             v6' \in 0 .. ComposerMaxReplies, v6 <= v6', s.attempt <= v6', v7' \subseteq v7, v9' = v9
      PROVE  Composer!ComposeInv'
  <2>1. \A l \in v7' : /\ l.source \in Composer!Sources /\ l.inPlace \in BOOLEAN
                       /\ l.source.attempt <= v6'
    BY <1>1, <1>3, <1>4
  <2>2. v2' \in {"inbox", "opens"} /\ (IF p THEN v1 ELSE "compose") \in {"inbox", "opens", "compose"}
        /\ v3 \in ComposerMsgs \union {None}
    BY <1>4, InvIsPage DEF Composer!OpenReply, PageIsTyped
  <2>3. Composer!Shows(IF p THEN v1 ELSE "compose", v3, s, FALSE, FALSE)
    BY <1>4 DEF Composer!OpenReply
  <2>. QED
    BY <1>4, <2>1, <2>2, <2>3, ShowsKeepsInv
\* Nothing on screen changes.
<1>5. ASSUME UNCHANGED <<v1, v2, v3, v4, v5, v8, v9, v10>>,
             v6' \in 0 .. ComposerMaxReplies, v6 <= v6',
             \A l \in v7' : /\ l.source \in Composer!Sources /\ l.inPlace \in BOOLEAN
                            /\ l.source.attempt <= v6'
      PROVE  Composer!ComposeInv'
  <2>1. PageIsTyped' /\ SendsAreHonest(v9')
    BY <1>5, InvIsPage DEF PageIsTyped
  <2>2. Composer!RepliesAreNumbered'
    BY <1>1, <1>5, InvIsPage DEF PageIsTyped, Composer!RepliesAreNumbered, Composer!Sources
  <2>. QED
    BY <1>1, <1>5, <2>1, <2>2, HonestIsInv
<1>6. ASSUME NEW m \in ComposerMsgs, NEW mode \in ComposerModes, Composer!StartReply(m, mode)
      PROVE  Composer!ComposeInv'
  <2> DEFINE s == [msg |-> m, mode |-> mode, attempt |-> v6 + 1]
             l == [source |-> s, inPlace |-> v3 = m]
  <2>1. v6' = v6 + 1 /\ v6' \in 0 .. ComposerMaxReplies /\ v6 <= v6' /\ v9' = v9
    <3>1. v6 < ComposerMaxReplies /\ v6' = v6 + 1 /\ v9' = v9
      BY <1>6 DEF Composer!StartReply
    <3>2. v6 \in 0 .. ComposerMaxReplies
      BY <1>1
    <3>. QED
      BY <3>1, <3>2, ComposerAssumption
  <2>2. s \in Composer!Sources /\ s.attempt = v6' /\ s.attempt <= v6'
    <3>1. v6 + 1 \in 1 .. ComposerMaxReplies /\ v6 + 1 <= v6'
      <4>1. v6 \in 0 .. ComposerMaxReplies
        BY <1>1
      <4>. QED
        BY <2>1, <4>1, ComposerAssumption
    <3>. QED
      BY <2>1, <3>1 DEF Composer!Sources
  <2>3. CASE Composer!OpenReply(s, v3 = m) /\ v7' = v7
    <3>1. (v3 = m) \in BOOLEAN
      OBVIOUS
    <3> HIDE DEF s
    <3>. QED
      BY <2>1, <2>2, <2>3, <3>1, <1>4
  <2>4. CASE v7' = v7 \union {l} /\ UNCHANGED <<v1, v2, v3, v4, v5, v8, v10>>
    <3>1. l.source = s /\ l.inPlace \in BOOLEAN
      OBVIOUS
    <3>2. \A k \in v7 : k.source.attempt <= v6'
      BY <1>3, <2>1
    <3> HIDE DEF s, l
    <3>. QED
      BY <1>1, <2>1, <2>2, <2>4, <3>1, <3>2, <1>5
  <2>. QED
    BY <1>6, <2>3, <2>4 DEF Composer!StartReply
<1>7. ASSUME NEW l \in v7, Composer!Loaded(l) PROVE Composer!ComposeInv'
  <2>1. v7' = v7 \ {l} /\ v6' = v6 /\ v9' = v9
    BY <1>7 DEF Composer!Loaded
  <2>2. CASE Composer!OpenReply(l.source, l.inPlace)
    BY <1>1, <1>2, <1>4, <2>1, <2>2
  <2>3. CASE UNCHANGED <<v1, v2, v3, v4, v5, v8, v10>>
    BY <1>1, <1>2, <1>5, <2>1, <2>3
  <2>. QED
    BY <1>7, <2>2, <2>3 DEF Composer!Loaded
<1>8. ASSUME NEW l \in v7, Composer!LoadFails(l) PROVE Composer!ComposeInv'
  BY <1>1, <1>2, <1>5, <1>8 DEF Composer!LoadFails
<1>. QED
  BY <1>6, <1>7, <1>8

\* What the user types, and the identities that arrive.
LEMMA EditingKeepsCompose ==
  ASSUME Composer!ComposeInv,
         \/ Composer!IdentitiesLoaded \/ Composer!Write \/ Composer!KeepOnlyFailed
         \/ \E a \in ComposerAddrs : Composer!Address(a)
  PROVE  Composer!ComposeInv'
<1>1. /\ v8 # None /\ v9' = v9 /\ v10' \in BOOLEAN
      /\ UNCHANGED <<v1, v2, v3, v4, v6, v7>>
      /\ v5' \in BOOLEAN
  BY InvIsPage
     DEF Composer!IdentitiesLoaded, Composer!Write, Composer!KeepOnlyFailed, Composer!Address,
         Composer!Edited, Composer!Elsewhere, PageIsTyped, Composer!Dirty
<1>2. Honest(v8, v4, v9) /\ v8 \in Composer!Composers
  BY <1>1, InvIsHonest DEF Honest
<1>3. v8.source \in Composer!Sources \union {None} /\ v4 \in Composer!Sources \union {None}
  BY <1>2, InvIsPage DEF Composer!Composers, PageIsTyped
<1>4. /\ v8' \in Composer!Composers /\ v8'.writtenFor \in {v8.writtenFor, Composer!About(v4)}
      /\ v8'.key = v8.key /\ v8'.id = v8.id /\ v8'.inFlight = v8.inFlight
      /\ v8'.failure = v8.failure
  <2>1. CASE Composer!IdentitiesLoaded
    <3>1. Composer!Seed(v8.source) \in SUBSET ComposerAddrs
      BY ComposerAssumption DEF Composer!Seed
    <3>2. CASE v8.source = None
      <4>1. v8' = [v8 EXCEPT !.identities = TRUE]
        BY <2>1, <3>2 DEF Composer!IdentitiesLoaded, Composer!Edited
      <4>. QED
        BY <1>2, <4>1 DEF Composer!Composers
    <3>3. CASE v8.source # None
      <4> DEFINE S == Composer!Seed(v8.source)
      <4>1. v8' = [v8 EXCEPT !.identities = TRUE, !.seed = S, !.to = S]
        BY <2>1, <3>3 DEF Composer!IdentitiesLoaded, Composer!Edited
      <4> HIDE DEF S
      <4>2. S \in SUBSET ComposerAddrs
        BY <3>1 DEF S
      <4>. QED
        BY <1>2, <4>1, <4>2 DEF Composer!Composers
    <3>. QED
      BY <3>2, <3>3
  <2>2. CASE Composer!Write
    <3>1. v8' = [v8 EXCEPT !.text = TRUE, !.writtenFor = Composer!About(v4)]
      BY <2>2 DEF Composer!Write, Composer!Edited
    <3>2. Composer!About(v4) \in ComposerMsgs \union {None}
      BY <1>3 DEF Composer!About, Composer!Sources
    <3>. QED
      BY <1>2, <3>1, <3>2 DEF Composer!Composers
  <2>3. CASE Composer!KeepOnlyFailed
    <3>1. v8' = [v8 EXCEPT !.to = @ \intersect v8.partial]
      BY <2>3 DEF Composer!KeepOnlyFailed, Composer!Edited
    <3>. QED
      BY <1>2, <3>1 DEF Composer!Composers
  <2>4. ASSUME NEW a \in ComposerAddrs, Composer!Address(a)
        PROVE  \E S \in SUBSET ComposerAddrs : v8' = [v8 EXCEPT !.to = S]
    <3>1. v8' = [v8 EXCEPT !.to = (@ \ {a}) \union ({a} \ @)]
      BY <2>4 DEF Composer!Address, Composer!Edited
    <3>2. v8.to \in SUBSET ComposerAddrs
      BY <1>2 DEF Composer!Composers
    <3>. QED
      BY <3>1, <3>2
  <2>5. CASE \E a \in ComposerAddrs : Composer!Address(a)
    <3>1. PICK S \in SUBSET ComposerAddrs : v8' = [v8 EXCEPT !.to = S]
      BY <2>4, <2>5
    <3>. QED
      BY <1>2, <3>1 DEF Composer!Composers
  <2>. QED
    BY <2>1, <2>2, <2>3, <2>5
<1>5. Honest(v8', v4, v9)
  BY <1>2, <1>4 DEF Honest
<1>6. PageIsTyped' /\ Composer!RepliesAreNumbered' /\ SendsAreHonest(v9')
  BY <1>1, InvIsPage DEF PageIsTyped, Composer!RepliesAreNumbered
<1>. QED
  BY <1>1, <1>5, <1>6, HonestIsInv

\* A send begins: the composer had none under way, and this one is about what
\* it was written for.
LEMMA SubmitKeepsCompose == ASSUME Composer!ComposeInv, Composer!Submit PROVE Composer!ComposeInv'
<1>1. /\ v8 # None /\ ~v8.inFlight
      /\ UNCHANGED <<v1, v2, v3, v4, v6, v7, v10>> /\ v5' \in BOOLEAN
  BY InvIsPage
     DEF Composer!Submit, Composer!MaySubmit, Composer!Edited, Composer!Elsewhere, PageIsTyped,
         Composer!Dirty
<1>2. Honest(v8, v4, v9) /\ v8 \in Composer!Composers /\ SendsAreHonest(v9)
  BY <1>1, InvIsHonest, InvIsPage DEF Honest
<1>3. PageIsTyped' /\ Composer!RepliesAreNumbered'
  BY <1>1, InvIsPage DEF PageIsTyped, Composer!RepliesAreNumbered
<1>4. CASE v8.to = {}
  <2>1. v9' = v9 /\ v8' = [v8 EXCEPT !.failure = [certainty |-> "none", out |-> FALSE]]
    BY <1>4 DEF Composer!Submit, Composer!Edited, Composer!NoFailure
  <2>2. /\ v8' \in Composer!Composers /\ v8'.writtenFor = v8.writtenFor
        /\ v8'.key = v8.key /\ v8'.id = v8.id /\ v8'.inFlight = v8.inFlight
        /\ v8'.failure.certainty = "none"
    BY <1>2, <2>1 DEF Composer!Composers
  <2>3. Honest(v8', v4, v9)
    BY <1>2, <2>2 DEF Honest
  <2>. QED
    BY <1>1, <1>2, <1>3, <2>1, <2>3, HonestIsInv
<1>5. CASE v8.to # {}
  <2> DEFINE w == [owner |-> v8.id, about |-> Composer!About(v4), writtenFor |-> v8.writtenFor,
                   to |-> v8.to, answer |-> "none", ok |-> {}, out |-> FALSE]
  <2>1. /\ v9' = v9 \union {w} /\ Composer!Cardinality(v9) < ComposerMaxSends
        /\ v8' = [v8 EXCEPT !.failure = [certainty |-> "none", out |-> FALSE],
                            !.partial = {}, !.inFlight = TRUE]
    BY <1>5 DEF Composer!Submit, Composer!Edited, Composer!NoFailure
  <2>2. w \in Composer!Sends /\ w.about = w.writtenFor
    BY <1>2 DEF Composer!Sends, Composer!Composers, Honest
  <2>3. w.owner = v8.id /\ ~w.out
    OBVIOUS
  <2> HIDE DEF w
  <2>4. SendsAreHonest(v9')
    <3>1. Cardinality(v9) < ComposerMaxSends /\ IsFiniteSet(v9)
      BY <1>2, <2>1, SendsAreCounted DEF SendsAreHonest
    <3>2. IsFiniteSet(v9') /\ Cardinality(v9') \in {Cardinality(v9), Cardinality(v9) + 1}
      BY <2>1, <3>1, FS_AddElement
    <3>3. Cardinality(v9) \in Nat /\ ComposerMaxSends \in Nat
      BY <3>1, FS_CardinalityType, ComposerAssumption
    <3>4. Cardinality(v9') <= ComposerMaxSends
      BY <3>1, <3>2, <3>3
    <3>. QED
      BY <1>2, <2>1, <2>2, <2>3, <3>2, <3>4 DEF SendsAreHonest
  <2>5. /\ v8' \in Composer!Composers /\ v8'.writtenFor = v8.writtenFor
        /\ v8'.key = v8.key /\ v8'.id = v8.id /\ v8'.inFlight
        /\ v8'.failure.certainty = "none"
    BY <1>2, <2>1 DEF Composer!Composers
  <2>6. Under(v9', v8.id) = {w}
    BY <1>1, <1>2, <2>1, <2>3 DEF Honest, Under
  <2>7. Honest(v8', v4, v9')
    BY <1>2, <2>5, <2>6 DEF Honest
  <2>. QED
    BY <1>1, <1>3, <2>4, <2>7, HonestIsInv
<1>. QED
  BY <1>4, <1>5

\* A request is served: it keeps its owner, its message and its addressees,
LEMMA ServedIsTheSame ==
  ASSUME Composer!ComposeInv, NEW w \in v9, Composer!Serve(w)
  PROVE  \E r \in Composer!Sends :
           /\ v9' = (v9 \ {w}) \union {r}
           /\ r.owner = w.owner /\ r.about = w.about /\ r.writtenFor = w.writtenFor
           /\ r.answer \in {"none", "refused"} => ~r.out
<1> DEFINE Same(r) ==
      /\ r \in Composer!Sends
      /\ r.owner = w.owner /\ r.about = w.about /\ r.writtenFor = w.writtenFor
      /\ r.answer \in {"none", "refused"} => ~r.out
<1>1. w \in Composer!Sends /\ (w.answer \in {"none", "refused"} => ~w.out) /\ w.answer = "none"
  BY SendsStayHonest DEF SendsAreHonest, Composer!Serve
<1>2. Same([w EXCEPT !.answer = "refused"])
  BY <1>1 DEF Composer!Sends
<1>3. ASSUME NEW S \in SUBSET w.to, NEW o \in BOOLEAN
      PROVE  Same([w EXCEPT !.answer = "results", !.ok = S, !.out = o])
  <2>1. S \in SUBSET ComposerAddrs
    BY <1>1 DEF Composer!Sends
  <2>. QED
    BY <1>1, <2>1 DEF Composer!Sends
<1>4. ASSUME NEW a \in {"lost", "broken"}, NEW o \in BOOLEAN
      PROVE  Same([w EXCEPT !.answer = a, !.out = o])
  BY <1>1 DEF Composer!Sends
<1>5. \E r : Same(r) /\ Composer!Answers(w, r)
  <2>1. \A S : (S # {}) \in BOOLEAN
    OBVIOUS
  <2> HIDE DEF Same
  <2>. QED
    BY <1>2, <1>3, <1>4, <2>1, Zenon DEF Composer!Serve
<1>. QED
  BY <1>5 DEF Composer!Answers

\* so the invariant does not see it.
LEMMA ServeKeepsCompose ==
  ASSUME Composer!ComposeInv, NEW w \in v9, Composer!Serve(w) PROVE Composer!ComposeInv'
<1>1. UNCHANGED <<v1, v2, v3, v4, v5, v6, v7, v8, v10>>
  BY DEF Composer!Serve
<1>2. SendsAreHonest(v9) /\ w \in Composer!Sends
  BY InvIsPage DEF SendsAreHonest
<1>3. PICK r \in Composer!Sends :
           /\ v9' = (v9 \ {w}) \union {r}
           /\ r.owner = w.owner /\ r.about = w.about /\ r.writtenFor = w.writtenFor
           /\ r.answer \in {"none", "refused"} => ~r.out
  BY ServedIsTheSame
<1>4. SendsAreHonest(v9')
  <2>1. IsFiniteSet(v9 \ {w}) /\ Cardinality(v9 \ {w}) = Cardinality(v9) - 1
    BY <1>2, FS_RemoveElement DEF SendsAreHonest
  <2>2. /\ IsFiniteSet(v9')
        /\ Cardinality(v9') \in {Cardinality(v9 \ {w}), Cardinality(v9 \ {w}) + 1}
    BY <1>3, <2>1, FS_AddElement
  <2>3. Cardinality(v9) \in Nat /\ ComposerMaxSends \in Nat
    BY <1>2, FS_CardinalityType, ComposerAssumption DEF SendsAreHonest
  <2>4. Cardinality(v9') <= ComposerMaxSends
    BY <1>2, <2>1, <2>2, <2>3 DEF SendsAreHonest
  <2>. QED
    BY <1>2, <1>3, <2>2, <2>4 DEF SendsAreHonest
<1>5. v8' # None => Honest(v8', v4', v9')
  <2>1. SUFFICES ASSUME v8 # None PROVE Honest(v8, v4, v9')
    BY <1>1
  <2>2. Honest(v8, v4, v9)
    BY <2>1, InvIsHonest
  <2>3. w.owner = v8.id => Under(v9, v8.id) # {}
    BY DEF Under
  <2>4. CASE w.owner = v8.id
    <3>1. v8.inFlight /\ Under(v9, v8.id) = {w}
      BY <2>2, <2>3, <2>4 DEF Honest, Under
    <3>2. Under(v9', v8.id) = {r}
      BY <1>3, <2>4, <3>1 DEF Under
    <3>. QED
      BY <2>2, <3>1, <3>2 DEF Honest
  <2>5. CASE w.owner # v8.id
    <3>1. Under(v9', v8.id) = Under(v9, v8.id)
      BY <1>3, <2>5 DEF Under
    <3>. QED
      BY <2>2, <3>1 DEF Honest
  <2>. QED
    BY <2>4, <2>5
<1>6. PageIsTyped' /\ Composer!RepliesAreNumbered'
  BY <1>1, InvIsPage DEF PageIsTyped, Composer!RepliesAreNumbered
<1>. QED
  BY <1>4, <1>5, <1>6, HonestIsInv

\* A send that has been answered is under way no longer.
LEMMA EndedSendsAreHonest ==
  ASSUME Composer!ComposeInv, NEW w \in v9 PROVE SendsAreHonest(v9 \ {w})
<1>1. SendsAreHonest(v9)
  BY SendsStayHonest
<1>2. IsFiniteSet(v9 \ {w}) /\ Cardinality(v9 \ {w}) = Cardinality(v9) - 1
  BY <1>1, FS_RemoveElement DEF SendsAreHonest
<1>3. Cardinality(v9) \in Nat /\ ComposerMaxSends \in Nat
  BY <1>1, FS_CardinalityType, ComposerAssumption DEF SendsAreHonest
<1>4. Cardinality(v9 \ {w}) <= ComposerMaxSends
  BY <1>1, <1>2, <1>3 DEF SendsAreHonest
<1>. QED
  BY <1>1, <1>2, <1>4 DEF SendsAreHonest

\* The answer ends a send, and is told to its composer if that is still up: an
\* instance with one send under way has none left.
LEMMA TakeKeepsCompose ==
  ASSUME Composer!ComposeInv, NEW w \in v9, v9' = v9 \ {w}, v10' = v10,
         NEW c, Composer!Take(w, c),
         v8 # None => /\ c \in Composer!Composers /\ c.key = v8.key
                      /\ c.writtenFor = v8.writtenFor /\ c.id = v8.id
                      /\ c.inFlight = FALSE
                      /\ c.failure.certainty = "not-sent" => ~c.failure.out
  PROVE  Composer!ComposeInv'
<1>1. UNCHANGED <<v1, v2, v3, v4, v6, v7>> /\ v5' \in BOOLEAN
  BY InvIsPage
     DEF Composer!Take, Composer!Owner, Composer!Edited, Composer!Elsewhere, Composer!Dirty,
         PageIsTyped
<1>2. PageIsTyped' /\ Composer!RepliesAreNumbered' /\ SendsAreHonest(v9')
  BY <1>1, InvIsPage, EndedSendsAreHonest DEF PageIsTyped, Composer!RepliesAreNumbered
<1>3. CASE Composer!Owner(w)
  <2>1. v8 # None /\ v8.id = w.owner /\ v8' = c
    BY <1>3 DEF Composer!Owner, Composer!Take, Composer!Edited
  <2>2. Honest(v8, v4, v9) /\ v8 \in Composer!Composers /\ w \in Under(v9, v8.id)
    BY <2>1, InvIsHonest DEF Honest, Under
  <2>3. PICK u : Under(v9, v8.id) = {u}
    BY <2>2 DEF Honest
  <2>4. Under(v9', v8.id) = {}
    BY <2>2, <2>3 DEF Under
  <2>5. Honest(c, v4, v9')
    BY <2>1, <2>2, <2>4 DEF Honest
  <2>. QED
    BY <1>1, <1>2, <2>1, <2>5, HonestIsInv
<1>4. CASE ~Composer!Owner(w)
  <2>1. v8' = v8
    BY <1>4 DEF Composer!Take
  <2>2. ASSUME v8 # None PROVE Honest(v8, v4, v9')
    <3>1. v8.id # w.owner
      BY <1>4, <2>2 DEF Composer!Owner
    <3>2. Under(v9', v8.id) = Under(v9, v8.id)
      BY <3>1 DEF Under
    <3>. QED
      BY <2>2, <3>2, InvIsHonest DEF Honest
  <2>. QED
    BY <1>1, <1>2, <2>1, <2>2, HonestIsInv
<1>. QED
  BY <1>3, <1>4

\* A send ends: its files could not be read, it failed, or all went well.
LEMMA EndingKeepsCompose ==
  ASSUME Composer!ComposeInv, NEW w \in v9,
         Composer!Unreadable(w) \/ Composer!Fails(w) \/ Composer!Sent(w)
  PROVE  Composer!ComposeInv'
<1>1. v8 # None => v8 \in Composer!Composers
                   /\ (v8.failure.certainty = "not-sent" => ~v8.failure.out)
  BY InvIsHonest DEF Honest
<1>2. w \in Composer!Sends /\ (w.answer \in {"none", "refused"} => ~w.out)
  BY SendsStayHonest DEF SendsAreHonest
<1>3. CASE Composer!Unreadable(w)
  <2> DEFINE c == [v8 EXCEPT !.inFlight = FALSE]
  <2>1. v8 # None => /\ c \in Composer!Composers /\ c.key = v8.key
                     /\ c.writtenFor = v8.writtenFor /\ c.id = v8.id
                     /\ c.inFlight = FALSE /\ c.failure = v8.failure
    BY <1>1 DEF Composer!Composers
  <2>2. Composer!Take(w, c) /\ v9' = v9 \ {w} /\ v10' = v10
    BY <1>3 DEF Composer!Unreadable
  <2> HIDE DEF c
  <2>. QED
    BY <1>1, <2>1, <2>2, TakeKeepsCompose
<1>4. CASE Composer!Fails(w)
  <2> DEFINE c == Composer!Report(w, v8)
  <2>1. Composer!Take(w, c) /\ v9' = v9 \ {w} /\ v10' = v10 /\ w.answer # "none"
    BY <1>4 DEF Composer!Fails
  <2>2. ASSUME v8 # None
        PROVE  /\ c \in Composer!Composers /\ c.key = v8.key
               /\ c.writtenFor = v8.writtenFor /\ c.id = v8.id
               /\ c.inFlight = FALSE
               /\ c.failure.certainty = "not-sent" => ~c.failure.out
    <3>1. CASE w.answer = "results"
      <4>1. c = [v8 EXCEPT !.inFlight = FALSE, !.partial = w.to \ w.ok]
        BY <3>1 DEF Composer!Report
      <4>2. w.to \ w.ok \in SUBSET ComposerAddrs
        BY <1>2 DEF Composer!Sends
      <4> HIDE DEF c
      <4>. QED
        BY <1>1, <2>2, <4>1, <4>2 DEF Composer!Composers
    <3>2. CASE w.answer # "results"
      <4> DEFINE f == [certainty |-> Composer!Certainty(w.answer), out |-> w.out]
      <4>1. c = [v8 EXCEPT !.inFlight = FALSE, !.failure = f]
        BY <3>2 DEF Composer!Report
      <4>2. /\ f \in [certainty: {"none", "not-sent", "unknown"}, out: BOOLEAN]
            /\ f.certainty = "not-sent" => ~f.out
        BY <1>2 DEF Composer!Certainty, Composer!Sends
      <4> HIDE DEF c, f
      <4>. QED
        BY <1>1, <2>2, <4>1, <4>2 DEF Composer!Composers
    <3>. QED
      BY <3>1, <3>2
  <2> HIDE DEF c
  <2>. QED
    BY <2>1, <2>2, TakeKeepsCompose
<1>5. CASE Composer!Sent(w)
  <2> DEFINE v == IF v1 = "compose" THEN v2 ELSE v1
  <2>1. /\ Composer!Shows(v, v3, None, FALSE, Composer!Owner(w))
        /\ UNCHANGED <<v2, v6, v7>> /\ v9' = v9 \ {w}
    BY <1>5 DEF Composer!Sent, Composer!CloseCompose
  <2>2. v \in {"inbox", "opens"}
    BY InvIsPage DEF PageIsTyped
  <2>3. Composer!Place(v, v3, None) = None
    BY <2>2 DEF Composer!Place
  <2>4. /\ v1' = v /\ v3' = v3 /\ v4' = None /\ v8' = None
        /\ v5' \in BOOLEAN /\ v10' \in BOOLEAN
    BY <2>1, <2>3, InvIsPage
       DEF Composer!Shows, Composer!Rendered, Composer!Dirty, PageIsTyped
  <2> HIDE DEF v
  <2>5. PageIsTyped' /\ Composer!RepliesAreNumbered' /\ SendsAreHonest(v9')
    BY <2>1, <2>2, <2>4, InvIsPage, EndedSendsAreHonest
       DEF PageIsTyped, Composer!RepliesAreNumbered
  <2>. QED
    BY <2>4, <2>5, HonestIsInv
<1>. QED
  BY <1>3, <1>4, <1>5

LEMMA ComposeInit == Composer!Init => Composer!ComposeInv
<1>. SUFFICES ASSUME Composer!Init PROVE Composer!ComposeInv
  OBVIOUS
<1>1. IsFiniteSet(v9) /\ Cardinality(v9) = 0 /\ ComposerMaxSends \in Nat
      /\ ComposerMaxReplies \in Nat
  BY FS_EmptySet, ComposerAssumption DEF Composer!Init
<1>2. Composer!SendsAreFew
  BY <1>1, SendsAreCounted DEF Composer!SendsAreFew
<1>3. Composer!TypeOK
  <2>1. v6 = 0 /\ v10 = FALSE /\ v5 = FALSE
    BY DEF Composer!Init
  <2>2. v6 \in 0 .. ComposerMaxReplies
    BY <1>1, <2>1
  <2>3. v7 = {} /\ v9 = {} /\ v8 = None /\ v4 = None /\ v3 = None
        /\ v1 = "inbox" /\ v2 = "inbox"
    BY DEF Composer!Init
  <2>. QED
    BY <2>1, <2>2, <2>3 DEF Composer!TypeOK
<1>. QED
  BY <1>2, <1>3
     DEF Composer!Init, Composer!ComposeInv, Composer!RepliesAreNumbered,
         Composer!ComposerIsKeyed, Composer!OutWhenServed, Composer!OneSendEach,
         Composer!NotSentIsTrue, Composer!NothingSentElsewhere

LEMMA StepKeepsCompose ==
  ASSUME Composer!ComposeInv, [Composer!Next]_(Composer!vars) PROVE Composer!ComposeInv'
<1>1. CASE Composer!Next
  BY <1>1, NavigationKeepsCompose, RepliesKeepCompose, EditingKeepsCompose,
     SubmitKeepsCompose, ServeKeepsCompose, EndingKeepsCompose DEF Composer!Next
<1>2. CASE UNCHANGED Composer!vars
  <2>1. UNCHANGED <<v1, v2, v3, v4, v5, v6, v7, v8, v9, v10>>
    BY <1>2 DEF Composer!vars
  <2>2. PageIsTyped' /\ Composer!RepliesAreNumbered' /\ SendsAreHonest(v9')
    BY <2>1, InvIsPage DEF PageIsTyped, Composer!RepliesAreNumbered
  <2>. QED
    BY <2>1, <2>2, InvIsHonest, HonestIsInv
<1>. QED
  BY <1>1, <1>2

\* A reply that is loaded late is shown only when no later one was asked for.
LEMMA LateRepliesDie ==
  ASSUME Composer!ComposeInv, [Composer!Next]_(Composer!vars)
  PROVE  Composer!LatestReplyStep
<1>. SUFFICES ASSUME v4 # None, v4' # None PROVE v4'.attempt >= v4.attempt
  BY DEF Composer!LatestReplyStep
<1>1. v4 \in Composer!Sources /\ v4.attempt <= v6 /\ v4.attempt \in Int /\ v6 \in Int
  <2>1. v4 \in Composer!Sources /\ v4.attempt <= v6 /\ v6 \in 0 .. ComposerMaxReplies
    BY InvIsPage DEF PageIsTyped, Composer!RepliesAreNumbered
  <2>. QED
    BY <2>1, ComposerAssumption DEF Composer!Sources
<1>2. CASE v4' = v4
  BY <1>1, <1>2
<1>3. ASSUME NEW m \in ComposerMsgs, NEW mode \in ComposerModes, Composer!StartReply(m, mode),
             v4' # v4
      PROVE  v4'.attempt >= v4.attempt
  <2>1. v4'.attempt = v6 + 1
    BY <1>3 DEF Composer!StartReply, Composer!OpenReply, Composer!Shows
  <2>. QED
    BY <1>1, <2>1
<1>4. ASSUME NEW l \in v7, Composer!Loaded(l), v4' # v4 PROVE v4'.attempt >= v4.attempt
  <2>1. v4'.attempt = v6
    BY <1>4 DEF Composer!Loaded, Composer!Current, Composer!OpenReply, Composer!Shows
  <2>. QED
    BY <1>1, <2>1
<1>5. CASE /\ v4' # v4
           /\ ~\E m \in ComposerMsgs, mode \in ComposerModes : Composer!StartReply(m, mode)
           /\ ~\E l \in v7 : Composer!Loaded(l)
  <2>. SUFFICES ASSUME Composer!Next PROVE FALSE
    BY <1>5 DEF Composer!vars
  <2>1. ~\E w \in v9 : Composer!Serve(w) \/ Composer!Unreadable(w) \/ Composer!Fails(w)
                       \/ Composer!Sent(w)
    BY <1>5 DEF Composer!Serve, Composer!Unreadable, Composer!Fails, Composer!Sent,
         Composer!Take, Composer!Edited, Composer!Elsewhere, Composer!CloseCompose, Composer!Shows
  <2>2. /\ ~Composer!IdentitiesLoaded /\ ~Composer!Write /\ ~Composer!KeepOnlyFailed
        /\ ~Composer!Submit /\ ~\E a \in ComposerAddrs : Composer!Address(a)
    BY <1>5 DEF Composer!IdentitiesLoaded, Composer!Write, Composer!KeepOnlyFailed,
         Composer!Submit, Composer!Address, Composer!Edited, Composer!Elsewhere
  <2>3. /\ ~Composer!CloseMessage /\ ~Composer!NewMessage /\ ~Composer!RequestClose
        /\ ~\E m \in ComposerMsgs : Composer!OpenMessage(m)
        /\ ~\E v \in {"inbox", "opens"} : Composer!ChangeView(v)
        /\ ~\E l \in v7 : Composer!LoadFails(l)
    BY <1>5 DEF Composer!CloseMessage, Composer!NewMessage, Composer!RequestClose,
         Composer!CloseCompose, Composer!OpenMessage, Composer!ChangeView, Composer!LoadFails,
         Composer!Shows
  <2>. QED
    BY <1>5, <2>1, <2>2, <2>3 DEF Composer!Next
<1>. QED
  BY <1>2, <1>3, <1>4, <1>5

-----------------------------------------------------------------------------
(* The parcel of files.  Total is a recursive function: that it exists is  *)
(* shown by induction, which rests on the order of the naturals being      *)
(* well-founded.                                                           *)
LEMMA NatIsWellFounded == IsWellFoundedOn({ss \in Nat \X Nat : ss[1] < ss[2]}, Nat)
  BY NatLessThanWellFounded DEF OpToRel

(* A set of naturals that has a member has a least one.                    *)
LEMMA LeastNat ==
  ASSUME NEW T \in SUBSET Nat, T # {} PROVE \E x \in T : \A y \in T : x <= y
<1> DEFINE R == {ss \in Nat \X Nat : ss[1] < ss[2]}
<1>1. IsWellFoundedOn(R, Nat)
  BY NatIsWellFounded
<1> HIDE DEF R
<1>2. PICK x \in T : \A y \in T : ~ (<<y, x>> \in R)
  BY <1>1, WFMin
<1>3. \A y \in T : x <= y
  <2>. SUFFICES ASSUME NEW y \in T, ~(x <= y) PROVE FALSE
    OBVIOUS
  <2>1. y < x /\ <<y, x>> \in Nat \X Nat
    OBVIOUS
  <2>2. <<y, x>> \in R
    BY <2>1 DEF R
  <2>. QED BY <1>2, <2>2
<1>. QED BY <1>2, <1>3

(* Induction, with a set in the place of the predicate.                    *)
LEMMA InductNat ==
  ASSUME NEW S, 0 \in S, \A n \in Nat : n \in S => n + 1 \in S
  PROVE  \A n \in Nat : n \in S
<1>. SUFFICES ASSUME NEW m \in Nat, m \notin S PROVE FALSE
  OBVIOUS
<1> DEFINE T == Nat \ S
<1>1. PICK x \in T : \A y \in T : x <= y
  BY LeastNat
<1>2. x # 0 /\ x \in Nat
  OBVIOUS
<1>3. x - 1 \in Nat /\ ~(x <= x - 1) /\ (x - 1) + 1 = x
  BY <1>2
<1>4. x - 1 \in S
  BY <1>1, <1>3
<1>. QED BY <1>3, <1>4

(* What f is when it holds the sums of the first entries of s.             *)
SumsUpTo(f, s, n) ==
  /\ f \in [0 .. n -> Nat]
  /\ f[0] = 0
  /\ \A i \in 1 .. n : f[i] = f[i - 1] + s[i]

LEMMA SumsExist ==
  ASSUME NEW s \in Seq(Nat) PROVE \E f : SumsUpTo(f, s, Len(s))
<1> DEFINE S == {n \in Nat : n <= Len(s) => \E f : SumsUpTo(f, s, n)}
<1>1. 0 \in S
  <2> DEFINE z == [i \in 0 .. 0 |-> 0]
  <2>1. SumsUpTo(z, s, 0)
    BY DEF SumsUpTo
  <2>. QED BY <2>1
<1>2. ASSUME NEW n \in Nat, n \in S PROVE n + 1 \in S
  <2>. SUFFICES ASSUME n + 1 <= Len(s) PROVE \E f : SumsUpTo(f, s, n + 1)
    OBVIOUS
  <2>1. Len(s) \in Nat /\ n <= Len(s) /\ n + 1 \in 1 .. Len(s) /\ s[n + 1] \in Nat
    OBVIOUS
  <2>2. PICK f : SumsUpTo(f, s, n)
    BY <1>2, <2>1
  <2> DEFINE g == [i \in 0 .. n + 1 |-> IF i = n + 1 THEN f[n] + s[n + 1] ELSE f[i]]
  <2>3. f \in [0 .. n -> Nat] /\ f[n] \in Nat
    BY <2>2 DEF SumsUpTo
  <2>4. g \in [0 .. n + 1 -> Nat]
    BY <2>1, <2>3
  <2>5. g[0] = 0
    BY <2>2 DEF SumsUpTo
  <2>6. ASSUME NEW i \in 1 .. n + 1 PROVE g[i] = g[i - 1] + s[i]
    <3>1. CASE i = n + 1
      BY <3>1
    <3>2. CASE i # n + 1
      BY <3>2, <2>2 DEF SumsUpTo
    <3>. QED BY <3>1, <3>2
  <2>7. SumsUpTo(g, s, n + 1)
    BY <2>4, <2>5, <2>6 DEF SumsUpTo
  <2>. QED BY <2>7
<1> HIDE DEF S
<1>3. \A n \in Nat : n \in S
  BY <1>1, <1>2, InductNat
<1>. QED BY <1>3 DEF S

LEMMA TotalIsTheSum ==
  ASSUME NEW s \in Seq(Nat)
  PROVE  \E f : SumsUpTo(f, s, Len(s)) /\ Contract!Total(s) = f[Len(s)]
<1> DEFINE D == 0 .. Len(s)
           IsSum(f) == f = [i \in D |-> IF i = 0 THEN 0 ELSE f[i - 1] + s[i]]
           t == CHOOSE f : IsSum(f)
<1>1. PICK f : SumsUpTo(f, s, Len(s))
  BY SumsExist
<1>2. f = [i \in D |-> f[i]]
  BY <1>1 DEF SumsUpTo
<1>3. \A i \in D : f[i] = IF i = 0 THEN 0 ELSE f[i - 1] + s[i]
  BY <1>1 DEF SumsUpTo
<1>4. IsSum(f)
  BY <1>2, <1>3
<1>5. IsSum(t)
  BY <1>4
<1>6. Contract!Total(s) = t[Len(s)]
  BY DEF Contract!Total
<1> HIDE DEF t
<1>7. \A i \in D : t[i] = IF i = 0 THEN 0 ELSE t[i - 1] + s[i]
  BY <1>5
<1> DEFINE S == {n \in Nat : n <= Len(s) => t[n] \in Nat}
<1>8. 0 \in S
  BY <1>7
<1>9. ASSUME NEW n \in Nat, n \in S PROVE n + 1 \in S
  <2>. SUFFICES ASSUME n + 1 <= Len(s) PROVE t[n + 1] \in Nat
    OBVIOUS
  <2>1. n + 1 \in D /\ n + 1 # 0 /\ n \in Nat /\ s[n + 1] \in Nat /\ (n + 1) - 1 = n /\ n <= Len(s)
    OBVIOUS
  <2>2. t[n + 1] = t[n] + s[n + 1]
    BY <1>7, <2>1
  <2>. QED BY <2>1, <2>2, <1>9
<1> HIDE DEF S
<1>10. \A n \in Nat : n \in S
  BY <1>8, <1>9, InductNat
<1>11. \A n \in D : t[n] \in Nat
  BY <1>10 DEF S
<1>12. t \in [D -> Nat]
  BY <1>5, <1>11
<1>13. SumsUpTo(t, s, Len(s))
  BY <1>7, <1>12 DEF SumsUpTo
<1>. QED BY <1>6, <1>13

(* Sums of sequences that begin alike agree.                               *)
LEMMA SumsAgree ==
  ASSUME NEW f, NEW g, NEW s, NEW r, NEW n \in Nat, NEW m \in 0 .. n,
         SumsUpTo(f, s, n), SumsUpTo(g, r, m), \A i \in 1 .. m : r[i] = s[i]
  PROVE  \A i \in 0 .. m : g[i] = f[i]
<1> DEFINE S == {i \in Nat : i <= m => g[i] = f[i]}
<1>1. 0 \in S
  BY DEF SumsUpTo
<1>2. ASSUME NEW i \in Nat, i \in S PROVE i + 1 \in S
  <2>. SUFFICES ASSUME i + 1 <= m PROVE g[i + 1] = f[i + 1]
    OBVIOUS
  <2>1. i + 1 \in 1 .. m /\ i + 1 \in 1 .. n /\ (i + 1) - 1 = i /\ i <= m
    OBVIOUS
  <2>2. g[i + 1] = g[i] + r[i + 1] /\ f[i + 1] = f[i] + s[i + 1]
    BY <2>1 DEF SumsUpTo
  <2>. QED BY <2>1, <2>2, <1>2
<1> HIDE DEF S
<1>3. \A i \in Nat : i \in S
  BY <1>1, <1>2, InductNat
<1>. QED BY <1>3 DEF S

(* The sums only grow.                                                     *)
LEMMA SumsGrow ==
  ASSUME NEW s \in Seq(Nat), NEW f, SumsUpTo(f, s, Len(s))
  PROVE  \A i \in 0 .. Len(s) : f[i] <= f[Len(s)]
<1> DEFINE S == {n \in Nat : n <= Len(s) => \A i \in 0 .. n : f[i] <= f[n]}
<1>1. 0 \in S
  BY DEF SumsUpTo
<1>2. ASSUME NEW n \in Nat, n \in S PROVE n + 1 \in S
  <2>. SUFFICES ASSUME n + 1 <= Len(s), NEW i \in 0 .. n + 1 PROVE f[i] <= f[n + 1]
    OBVIOUS
  <2>1. n + 1 \in 1 .. Len(s) /\ (n + 1) - 1 = n /\ n <= Len(s) /\ s[n + 1] \in Nat
    OBVIOUS
  <2>2. f[n + 1] = f[n] + s[n + 1]
    BY <2>1 DEF SumsUpTo
  <2>5. f \in [0 .. Len(s) -> Nat] /\ n \in 0 .. Len(s) /\ i \in 0 .. Len(s)
    BY <2>1 DEF SumsUpTo
  <2>6. f[n] \in Nat /\ f[i] \in Nat
    BY <2>5
  <2>3. CASE i = n + 1
    BY <2>1, <2>2, <2>3, <2>6
  <2>4. CASE i # n + 1
    BY <1>2, <2>1, <2>2, <2>4, <2>6
  <2>. QED BY <2>3, <2>4
<1> HIDE DEF S
<1>3. \A n \in Nat : n \in S
  BY <1>1, <1>2, InductNat
<1>. QED BY <1>3 DEF S

(* No part of a parcel is larger than the parcel.                          *)
LEMMA PartIsNoMore ==
  ASSUME NEW s \in Seq(Nat), NEW k \in 1 .. Len(s)
  PROVE  Contract!Total(SubSeq(s, 1, k)) <= Contract!Total(s)
<1> DEFINE r == SubSeq(s, 1, k)
<1>1. r \in Seq(Nat) /\ Len(r) = k /\ \A i \in 1 .. k : r[i] = s[i]
  OBVIOUS
<1> HIDE DEF r
<1>2. PICK f : SumsUpTo(f, s, Len(s)) /\ Contract!Total(s) = f[Len(s)]
  BY TotalIsTheSum
<1>3. PICK g : SumsUpTo(g, r, Len(r)) /\ Contract!Total(r) = g[Len(r)]
  BY <1>1, TotalIsTheSum
<1>4. SumsUpTo(g, r, k) /\ k \in 0 .. Len(s) /\ Len(s) \in Nat
  BY <1>1, <1>3
<1>5. g[k] = f[k]
  BY <1>1, <1>2, <1>4, SumsAgree
<1>6. f[k] <= f[Len(s)]
  BY <1>2, SumsGrow
<1>. QED BY <1>1, <1>2, <1>3, <1>5, <1>6 DEF r

LEMMA TotalIsNat ==
  ASSUME NEW s \in Seq(Nat) PROVE Contract!Total(s) \in Nat
<1>1. PICK f : SumsUpTo(f, s, Len(s)) /\ Contract!Total(s) = f[Len(s)]
  BY TotalIsTheSum
<1>2. Len(s) \in 0 .. Len(s) /\ f \in [0 .. Len(s) -> Nat]
  BY <1>1 DEF SumsUpTo
<1>. QED BY <1>1, <1>2

(* What is put on the wire.                                                *)
LEMMA SizesTyped ==
  ASSUME NEW d \in Contract!Draft
  PROVE  /\ Contract!Sizes(d.files) \in Seq(Nat)
         /\ Len(Contract!Sizes(d.files)) = Len(d.files)
<1>1. d.files \in Seq(Contract!File)
  BY DEF Contract!Draft
<1>2. DOMAIN d.files = 1 .. Len(d.files) /\ Len(d.files) \in Nat
  BY <1>1
<1>3. ASSUME NEW i \in 1 .. Len(d.files) PROVE d.files[i].size \in Nat
  <2>1. d.files[i] \in Contract!File
    BY <1>1, ElementOfSeq
  <2>. QED BY <2>1 DEF Contract!File
<1>4. Contract!Sizes(d.files) = [i \in 1 .. Len(d.files) |-> d.files[i].size]
  BY <1>2 DEF Contract!Sizes
<1>. QED BY <1>2, <1>3, <1>4

(* The request carries the files in their order, each of the size it has.  *)
LEMMA FilesTravelWhole ==
  ASSUME NEW d \in Contract!Draft
  PROVE  /\ DOMAIN Contract!Wire(d).attachments = 1 .. Len(d.files)
         /\ Len(Contract!Wire(d).attachments) = Len(d.files)
         /\ Contract!Wire(d).attachments \in Seq(
              [name: {"plain", "dots", "control"}, type: {"plain", "fallback"}, size: Nat])
         /\ \A i \in 1 .. Len(d.files) : /\ Contract!Wire(d).attachments[i].name = d.files[i].name
                                         /\ Contract!Wire(d).attachments[i].size = d.files[i].size
         /\ Contract!Sizes(Contract!Wire(d).attachments) = Contract!Sizes(d.files)
<1> DEFINE a == [i \in 1 .. Len(d.files) |->
                   [name |-> d.files[i].name, type |-> Contract!TypeSent(d.files[i].type),
                    size |-> d.files[i].size]]
<1>1. d.files \in Seq(Contract!File)
  BY DEF Contract!Draft
<1>2. DOMAIN d.files = 1 .. Len(d.files) /\ Len(d.files) \in Nat
  BY <1>1
<1>3. Contract!Wire(d).attachments = a
  BY <1>2 DEF Contract!Wire
<1>4. ASSUME NEW i \in 1 .. Len(d.files)
      PROVE  a[i] \in [name: {"plain", "dots", "control"}, type: {"plain", "fallback"}, size: Nat]
  <2>1. d.files[i] \in Contract!File
    BY <1>1, ElementOfSeq
  <2>. QED BY <2>1 DEF Contract!File, Contract!TypeSent
<1>5. a \in Seq([name: {"plain", "dots", "control"}, type: {"plain", "fallback"}, size: Nat])
  <2> DEFINE T == [name: {"plain", "dots", "control"}, type: {"plain", "fallback"}, size: Nat]
  <2>1. \A i \in 1 .. Len(d.files) : a[i] \in T
    BY <1>4
  <2>2. a = [i \in 1 .. Len(d.files) |-> a[i]]
    OBVIOUS
  <2> HIDE DEF a, T
  <2>3. a \in Seq(T)
    BY <1>2, <2>1, <2>2
  <2>. QED BY <2>3 DEF T
<1>6. Len(a) = Len(d.files) /\ DOMAIN a = 1 .. Len(d.files)
  BY <1>2
<1>7. \A i \in 1 .. Len(d.files) : a[i].name = d.files[i].name /\ a[i].size = d.files[i].size
  OBVIOUS
<1>8. Contract!Sizes(a) = Contract!Sizes(d.files)
  BY <1>2, <1>6, <1>7 DEF Contract!Sizes
<1>. QED BY <1>3, <1>5, <1>6, <1>7, <1>8

LEMMA HeadIsFirst ==
  ASSUME NEW S, NEW s \in Seq(S), Len(s) # 0 PROVE Head(s) = s[1] /\ s # <<>>
OBVIOUS

(* A chain that is cut keeps both ends and nothing that was not in it.     *)
LEMMA CapKeepsEnds ==
  ASSUME NEW S, NEW c \in Seq(S), c # <<>>
  PROVE  /\ Contract!CapReferences(c) \in Seq(S)
         /\ Len(Contract!CapReferences(c)) \in 1 .. 50
         /\ Contract!CapReferences(c)[Len(Contract!CapReferences(c))] = c[Len(c)]
         /\ Head(Contract!CapReferences(c)) = Head(c)
<1>1. Contract!Client.references = 50
  BY DEF Contract!Client
<1>2. Len(c) \in Nat \ {0} /\ Head(c) = c[1] /\ c[1] \in S
  OBVIOUS
<1>3. CASE Len(c) <= 50
  <2>1. Contract!CapReferences(c) = c
    BY <1>1, <1>3 DEF Contract!CapReferences
  <2> DEFINE n == Len(c)
  <2>3. n \in Nat /\ n # 0 /\ n <= 50
    BY <1>2, <1>3
  <2> HIDE DEF n
  <2>4. n \in 1 .. 50
    BY <2>3
  <2>2. Len(c) \in 1 .. 50
    BY <2>4 DEF n
  <2>. QED BY <2>1, <2>2
<1>4. CASE Len(c) > 50
  <2> DEFINE h == <<Head(c)>>
             u == SubSeq(c, Len(c) - 49 + 1, Len(c))
             r == h \o u
  <2>1. Contract!CapReferences(c) = r
    BY <1>1, <1>2, <1>4 DEF Contract!CapReferences
  <2>2. u \in Seq(S) /\ Len(u) = 49 /\ u[49] = c[Len(c)]
    BY <1>2, <1>4, SubSeqProperties
  <2>3. h \in Seq(S) /\ Len(h) = 1 /\ h[1] = Head(c)
    BY <1>2
  <2> DEFINE P == S
  <2>7. h \in Seq(P) /\ u \in Seq(P)
    BY <2>2, <2>3
  <2> HIDE DEF h, u, P
  <2>8. /\ h \o u \in Seq(P)
        /\ Len(h \o u) = Len(h) + Len(u)
        /\ \A i \in 1 .. Len(h) + Len(u) :
              (h \o u)[i] = IF i <= Len(h) THEN h[i] ELSE u[i - Len(h)]
    BY <2>7, ConcatProperties
  <2>4. r \in Seq(S) /\ Len(r) = 50
    BY <2>2, <2>3, <2>8 DEF P
  <2>9. 1 \in 1 .. Len(h) + Len(u) /\ 50 \in 1 .. Len(h) + Len(u) /\ 50 - Len(h) = 49 /\ 1 <= Len(h)
    BY <2>2, <2>3
  <2>10. ~ (50 <= Len(h))
    BY <2>3
  <2>5. r[1] = h[1] /\ r[50] = u[49]
    BY <2>8, <2>9, <2>10
  <2> HIDE DEF r
  <2>11. r \in Seq(P) /\ Len(r) # 0
    BY <2>4 DEF P
  <2>6. Head(r) = r[1] /\ r # <<>>
    BY <2>11, HeadIsFirst
  <2>. QED BY <2>1, <2>2, <2>3, <2>4, <2>5, <2>6
<1>. QED BY <1>2, <1>3, <1>4

(* The threading fields: nothing, or the message answered at the end of a  *)
(* chain of its ancestors.                                                 *)
LEMMA ThreadingIsBounded ==
  ASSUME NEW d \in Contract!Draft, None \notin Contract!MessageId
  PROVE  /\ Contract!Threading(d).inReplyTo \in Contract!MessageId \union {None}
         /\ Contract!Threading(d).references \in Seq(Contract!MessageId)
         /\ Len(Contract!Threading(d).references) <= 50
         /\ Contract!Threading(d).inReplyTo # None =>
              /\ Contract!Threading(d).references[Len(Contract!Threading(d).references)]
                   = Contract!Threading(d).inReplyTo
              /\ d.chain # <<>> => Head(Contract!Threading(d).references) = Head(d.chain)
<1>1. d.parent \in Contract!MessageId \union {None} /\ d.chain \in Seq(Contract!MessageId)
  BY DEF Contract!Draft
<1>2. CASE d.mode = "forward" \/ d.parent = None
  BY <1>2 DEF Contract!Threading
<1>3. CASE ~(d.mode = "forward" \/ d.parent = None)
  <2> DEFINE c == Append(d.chain, d.parent)
  <2>1. c \in Seq(Contract!MessageId) /\ c # <<>> /\ c[Len(c)] = d.parent
    BY <1>1, <1>3
  <2>2. d.chain # <<>> => Head(c) = Head(d.chain)
    BY <1>1, <1>3
  <2>3. /\ Contract!Threading(d).inReplyTo = d.parent
        /\ Contract!Threading(d).references = Contract!CapReferences(c)
    BY <1>3 DEF Contract!Threading
  <2> HIDE DEF c
  <2>4. /\ Contract!CapReferences(c) \in Seq(Contract!MessageId)
        /\ Len(Contract!CapReferences(c)) \in 1 .. 50
        /\ Contract!CapReferences(c)[Len(Contract!CapReferences(c))] = c[Len(c)]
        /\ Head(Contract!CapReferences(c)) = Head(c)
    BY <2>1, CapKeepsEnds
  <2>5. Contract!Threading(d).inReplyTo \in Contract!MessageId \union {None}
    BY <1>1, <2>3
  <2>6. Contract!Threading(d).references \in Seq(Contract!MessageId)
    BY <2>3, <2>4
  <2> DEFINE n == Len(Contract!CapReferences(c))
  <2>10. n \in 1 .. 50
    BY <2>4
  <2> HIDE DEF n
  <2>11. n <= 50
    BY <2>10
  <2>7. Len(Contract!Threading(d).references) <= 50
    BY <2>3, <2>11 DEF n
  <2>8. Contract!Threading(d).references[Len(Contract!Threading(d).references)]
          = Contract!Threading(d).inReplyTo
    BY <2>1, <2>3, <2>4
  <2>9. d.chain # <<>> => Head(Contract!Threading(d).references) = Head(d.chain)
    BY <2>2, <2>3, <2>4
  <2>. QED BY <2>5, <2>6, <2>7, <2>8, <2>9
<1>. QED BY <1>2, <1>3

(* The files of a draft that passed the composer's check are taken.        *)
LEMMA AttachableIsUsable ==
  ASSUME NEW d \in Contract!Draft, Contract!Attachable(d.files)
  PROVE  Contract!UsableAttachments(Contract!Wire(d).attachments)
<1> DEFINE list == Contract!Wire(d).attachments
           sizes == Contract!Sizes(d.files)
<1>1. /\ DOMAIN list = 1 .. Len(d.files) /\ Len(list) = Len(d.files)
      /\ list \in Seq([name: {"plain", "dots", "control"}, type: {"plain", "fallback"}, size: Nat])
      /\ \A i \in 1 .. Len(d.files) : list[i].name = d.files[i].name
      /\ Contract!Sizes(list) = sizes
  BY FilesTravelWhole
<1>2. sizes \in Seq(Nat) /\ Len(sizes) = Len(d.files)
  BY SizesTyped
<1>3. Len(d.files) \in Nat /\ DOMAIN d.files = 1 .. Len(d.files)
  BY DEF Contract!Draft
<1>4. /\ Len(d.files) <= Contract!Client.files
      /\ Contract!Total(sizes) <= Contract!Client.fileBytes
      /\ \A i \in 1 .. Len(d.files) : d.files[i].name = "plain"
  BY <1>3 DEF Contract!Attachable, Contract!SendableName
<1>5. Contract!Client.files = Contract!Route.files
      /\ Contract!Client.fileBytes = Contract!Route.fileBytes /\ Contract!Route.fileBytes \in Nat
  BY DEF Contract!Client, Contract!Route
<1>6. \A i \in DOMAIN list : list[i].type \in {"plain", "fallback"}
  <2> DEFINE T == [name: {"plain", "dots", "control"}, type: {"plain", "fallback"}, size: Nat]
  <2>1. ASSUME NEW i \in 1 .. Len(list) PROVE list[i] \in T
    BY <1>1, ElementOfSeq
  <2>. QED BY <1>1, <2>1
<1> HIDE DEF list, sizes
<1>7. ASSUME NEW i \in DOMAIN list
      PROVE  Contract!Total(Contract!Sizes(SubSeq(list, 1, i))) <= Contract!Route.fileBytes
  <2>1. i \in 1 .. Len(list) /\ i \in 1 .. Len(sizes) /\ Len(list) \in Nat
    BY <1>1, <1>2, <1>3
  <2>2. Contract!Sizes(list) = [j \in 1 .. Len(list) |-> list[j].size]
    BY <1>1 DEF Contract!Sizes
  <2>3. \A j \in 1 .. i : sizes[j] = list[j].size
    BY <1>1, <2>1, <2>2
  <2>4. Contract!Sizes(SubSeq(list, 1, i)) = [j \in 1 .. i |-> list[j].size]
    BY <1>1, <2>1 DEF Contract!Sizes
  <2>5. SubSeq(sizes, 1, i) = [j \in 1 .. i |-> sizes[j]]
    BY <1>2, <2>1
  <2>6. Contract!Sizes(SubSeq(list, 1, i)) = SubSeq(sizes, 1, i)
    BY <2>3, <2>4, <2>5
  <2>7. Contract!Total(SubSeq(sizes, 1, i)) <= Contract!Total(sizes)
    BY <1>2, <2>1, PartIsNoMore
  <2>8. Contract!Total(SubSeq(sizes, 1, i)) \in Nat /\ Contract!Total(sizes) \in Nat
    <3>1. SubSeq(sizes, 1, i) \in Seq(Nat)
      BY <1>2, <2>1
    <3>. QED BY <1>2, <3>1, TotalIsNat
  <2> DEFINE x == Contract!Total(SubSeq(sizes, 1, i))
             y == Contract!Total(sizes)
             z == Contract!Route.fileBytes
  <2>9. x \in Nat /\ y \in Nat /\ z \in Nat /\ x <= y /\ y <= z
    BY <1>4, <1>5, <2>7, <2>8
  <2>10. Contract!Sizes(SubSeq(list, 1, i)) = SubSeq(sizes, 1, i)
    BY <2>6
  <2> HIDE DEF x, y, z
  <2>11. x <= z
    BY <2>9
  <2>. QED BY <2>10, <2>11 DEF x, z
<1>8. Contract!UsableAttachments(list)
  BY <1>1, <1>4, <1>5, <1>6, <1>7 DEF Contract!UsableAttachments, Contract!UsableFile
<1>. QED BY <1>8 DEF list

(* The label of a quote, and what the route can refuse of the reply fields.*)
LEMMA LabelFits ==
  ASSUME NEW from \in Contract!Sender
  PROVE  Contract!LabelLength(from) \in 1 .. 320
<1> DEFINE name == from.name
           address == from.address
           control == from.control
           n == IF address = 0 THEN name ELSE IF name = 0 THEN address
                ELSE name + 3 + (address - control)
<1>1. name \in Nat /\ address \in Nat /\ control \in Nat /\ control <= address
  BY DEF Contract!Sender
<1>2. Contract!LabelLength(from) =
        IF n = 0 THEN 14 ELSE IF n > Contract!Client.label THEN Contract!Client.label ELSE n
  BY DEF Contract!LabelLength
<1>3. Contract!Client.label = 320
  BY DEF Contract!Client
<1> HIDE DEF name, address, control
<1>4. n \in Nat
  BY <1>1
<1> HIDE DEF n
<1>. QED BY <1>2, <1>3, <1>4
LEMMA OnlyIdsAndLabelsAreRefused ==
  ASSUME NEW d \in Contract!Draft, None \notin Contract!MessageId
  PROVE  \/ Contract!UsableReplyFields(Contract!Wire(d))
         \/ \E id \in Contract!IdsOf(Contract!Wire(d)) :
              Contract!TooLong(id) \/ id.chars = "control"
         \/ /\ Contract!Wire(d).quote # None
            /\ Contract!Bare(d.from) /\ d.from.control # 0
<1> DEFINE w == Contract!Wire(d)
           refs == w.references
           Bad(id) == Contract!TooLong(id) \/ id.chars = "control"
<1>1. /\ w.inReplyTo = Contract!Threading(d).inReplyTo
      /\ refs = Contract!Threading(d).references
      /\ w.quote = Contract!Quote(d)
  BY DEF Contract!Wire
<1>2. /\ w.inReplyTo \in Contract!MessageId \union {None}
      /\ refs \in Seq(Contract!MessageId) /\ Len(refs) <= 50
  BY <1>1, ThreadingIsBounded
<1>3. Contract!Route.messageId = 256 /\ Contract!Route.references = 50
      /\ Contract!Client.quote = Contract!Route.quote /\ Contract!Route.label = 320
  BY DEF Contract!Route, Contract!Client
<1>4. \A id \in Contract!MessageId : Contract!UsableId(id) \/ Bad(id)
  <2>. SUFFICES ASSUME NEW id \in Contract!MessageId, ~Bad(id) PROVE Contract!UsableId(id)
    OBVIOUS
  <2>1. id.length \in Nat \ {0} /\ id.chars \in {"plain", "control"}
    BY DEF Contract!MessageId, Contract!Chars
  <2>2. id.length \in 1 .. Contract!Route.messageId
    BY <1>3, <2>1 DEF Contract!TooLong
  <2>. QED BY <2>1, <2>2 DEF Contract!UsableId
<1>5. w.inReplyTo # None => Contract!UsableId(w.inReplyTo) \/ Bad(w.inReplyTo)
  BY <1>2, <1>4
<1>6. Contract!UsableReferences(refs) \/ \E i \in DOMAIN refs : Bad(refs[i])
  <2>1. \A i \in DOMAIN refs : refs[i] \in Contract!MessageId
    BY <1>2
  <2>. QED BY <1>2, <1>3, <1>4, <2>1 DEF Contract!UsableReferences
<1>7. w.quote # None =>
        Contract!UsableQuote(w.quote) \/ (Contract!Bare(d.from) /\ d.from.control # 0)
  <2>. SUFFICES ASSUME w.quote # None, ~(Contract!Bare(d.from) /\ d.from.control # 0)
                PROVE  Contract!UsableQuote(w.quote)
    OBVIOUS
  <2> DEFINE bytes == IF d.html = None THEN d.text ELSE d.html
             label == Contract!SenderLabel(d.from)
  <2>1. d.from \in Contract!Sender
    BY DEF Contract!Draft
  <2>2. w.quote = [bytes |-> bytes, label |-> label] /\ bytes <= Contract!Client.quote
    BY <1>1 DEF Contract!Quote
  <2>3. label.length \in 1 .. 320 /\ label.chars = "plain"
    BY <2>1, LabelFits DEF Contract!SenderLabel
  <2> HIDE DEF bytes, label
  <2>. QED BY <1>3, <2>2, <2>3 DEF Contract!UsableQuote
<1>8. Contract!IdsOf(w) = {refs[i] : i \in DOMAIN refs}
                            \union (IF w.inReplyTo = None THEN {} ELSE {w.inReplyTo})
  BY DEF Contract!IdsOf
<1> HIDE DEF w, Bad
<1>9. CASE Contract!UsableReplyFields(w)
  BY <1>9 DEF w
<1>10. CASE ~Contract!UsableReplyFields(w)
  <2>1. \/ w.inReplyTo # None /\ Bad(w.inReplyTo)
        \/ \E i \in DOMAIN refs : Bad(refs[i])
        \/ w.quote # None /\ Contract!Bare(d.from) /\ d.from.control # 0
    BY <1>5, <1>6, <1>7, <1>10 DEF Contract!UsableReplyFields
  <2>2. \/ \E id \in Contract!IdsOf(w) : Bad(id)
        \/ w.quote # None /\ Contract!Bare(d.from) /\ d.from.control # 0
    BY <1>8, <2>1
  <2>. QED BY <2>2 DEF w, Bad
<1>. QED BY <1>9, <1>10

(* A draft that passed the composer's checks passes every test of the      *)
(* route but, at most, the one on the reply fields.                        *)
LEMMA ValidIsTaken ==
  ASSUME NEW d \in Contract!Draft, None \notin Nat,
         Contract!ValidDraft(d), Contract!Attachable(d.files)
  PROVE  Contract!ParseSendBody(Contract!Wire(d)) =
           IF Contract!UsableReplyFields(Contract!Wire(d)) THEN "ok" ELSE "reply_fields"
<1> DEFINE w == Contract!Wire(d)
<1>1. /\ w.identity = d.identity /\ w.to = d.to /\ w.cc = d.cc
      /\ w.subject = d.subject /\ w.lineBreak = d.lineBreak /\ w.body = d.body
  BY DEF Contract!Wire
<1>2. Contract!UsableAttachments(w.attachments)
  BY AttachableIsUsable
<1>3. d.identity \in Nat /\ d.subject \in Nat /\ d.body \in Nat /\ d.to \in Seq(Contract!Address)
      /\ d.cc \in Seq(Contract!Address) /\ d.lineBreak \in BOOLEAN
  BY DEF Contract!Draft
<1> HIDE DEF w
<1>4. w.identity \in 1 .. Contract!Route.identity
  BY <1>1, <1>3 DEF Contract!ValidDraft, Contract!Client, Contract!Route
<1>5. ~(w.to = <<>> \/ ~Contract!UsableRecipients(w.to)) /\ Contract!UsableRecipients(w.cc)
  BY <1>1 DEF Contract!ValidDraft
<1>6. ~(Len(w.to) + Len(w.cc) > Contract!Route.recipients)
  <2> DEFINE p == Len(d.to)
             q == Len(d.cc)
             n == p + q
  <2>1. Contract!Client.recipients = 25 /\ Contract!Route.recipients = 25
    BY DEF Contract!Client, Contract!Route
  <2>2. n <= 25
    BY <2>1 DEF Contract!ValidDraft
  <2>3. p \in Nat /\ q \in Nat
    BY <1>3
  <2>5. Len(w.to) + Len(w.cc) = n
    BY <1>1
  <2> HIDE DEF p, q
  <2>4. n \in Nat
    BY <2>3
  <2> HIDE DEF n
  <2>6. ~(n > 25)
    BY <2>2, <2>4
  <2>. QED BY <2>1, <2>5, <2>6
<1>7. ~(w.subject > Contract!Route.subject) /\ ~w.lineBreak
  BY <1>1, <1>3 DEF Contract!ValidDraft, Contract!Client, Contract!Route
<1>8. ~(w.body > Contract!Route.body)
  BY <1>1, <1>3 DEF Contract!ValidDraft, Contract!Client, Contract!Route
<1>9. CASE Contract!UsableReplyFields(w)
  <2>1. Contract!ParseSendBody(w) = "ok"
    BY <1>2, <1>4, <1>5, <1>6, <1>7, <1>8, <1>9 DEF Contract!ParseSendBody
  <2>. QED BY <1>9, <2>1 DEF w
<1>10. CASE ~Contract!UsableReplyFields(w)
  <2>1. Contract!ParseSendBody(w) = "reply_fields"
    BY <1>4, <1>5, <1>6, <1>7, <1>8, <1>10 DEF Contract!ParseSendBody
  <2>. QED BY <1>10, <2>1 DEF w
<1>. QED BY <1>9, <1>10 DEF w

LEMMA ContractInit == Contract!Init => Contract!ContractInv
<1>. SUFFICES ASSUME Contract!Init PROVE Contract!ContractInv
  OBVIOUS
<1>1. Contract!TypeOK
  BY DEF Contract!Init, Contract!TypeOK
<1>2. Contract!WireIsOfValidDraft
  BY DEF Contract!Init, Contract!WireIsOfValidDraft
<1>. QED BY <1>1, <1>2 DEF Contract!ContractInv

LEMMA StepKeepsContract ==
  ASSUME Contract!ContractInv, [Contract!Next]_(Contract!vars)
  PROVE  Contract!ContractInv'
<1> USE DEF Contract!ContractInv
<1>1. v1 \in ContractDrafts /\ v1 \in Contract!Draft /\ Contract!Wire(v1) # None /\ None \notin Nat
  BY ContractAssumption DEF Contract!TypeOK
<1>2. CASE Contract!Submit
  <2>1. CASE ~Contract!ValidDraft(v1) \/ ~Contract!Attachable(v1.files)
    BY <1>2, <2>1 DEF Contract!Submit, Contract!TypeOK, Contract!WireIsOfValidDraft
  <2>2. CASE Contract!ValidDraft(v1) /\ Contract!Attachable(v1.files)
    <3>1. CASE \E i \in DOMAIN v1.files : ~v1.files[i].readable
      BY <1>2, <2>2, <3>1 DEF Contract!Submit, Contract!TypeOK, Contract!WireIsOfValidDraft
    <3>2. CASE ~ \E i \in DOMAIN v1.files : ~v1.files[i].readable
      <4>1. v1' = v1 /\ v3' = "sending" /\ v2' = Contract!Wire(v1)
        BY <1>2, <2>2, <3>2 DEF Contract!Submit
      <4>2. Contract!TypeOK'
        BY <1>1, <4>1 DEF Contract!TypeOK
      <4>3. Contract!WireIsOfValidDraft'
        BY <2>2, <4>1 DEF Contract!WireIsOfValidDraft
      <4>. QED BY <4>2, <4>3
    <3>. QED BY <3>1, <3>2
  <2>. QED BY <2>1, <2>2
<1>3. CASE Contract!Receive
  <2>1. v1' = v1 /\ v2' = v2 /\ v3 = "sending" /\ v3' = Contract!ParseSendBody(v2)
    BY <1>3 DEF Contract!Receive
  <2>2. Contract!ValidDraft(v1) /\ Contract!Attachable(v1.files) /\ v2 = Contract!Wire(v1)
    BY <2>1 DEF Contract!WireIsOfValidDraft
  <2>3. v3' \in {"ok", "reply_fields"}
    BY <1>1, <2>1, <2>2, ValidIsTaken
  <2>4. Contract!TypeOK'
    BY <1>1, <2>1, <2>2, <2>3 DEF Contract!TypeOK
  <2>5. Contract!WireIsOfValidDraft'
    BY <2>1, <2>2 DEF Contract!WireIsOfValidDraft
  <2>. QED BY <2>4, <2>5
<1>4. CASE UNCHANGED Contract!vars
  BY <1>4 DEF Contract!vars, Contract!TypeOK, Contract!WireIsOfValidDraft
<1>. QED BY <1>2, <1>3, <1>4 DEF Contract!Next

(* What the composer lets through is taken but for a bad id or label, the   *)
(* chain keeps both ends, and the warning is what the route does.          *)
LEMMA ContractKeepsPromises ==
  ASSUME Contract!ContractInv
  PROVE  Contract!LetThroughIsTaken /\ Contract!ChainKeepsItsEnds /\ Contract!WarningIsTrue
<1> USE DEF Contract!ContractInv
<1>1. v1 \in ContractDrafts /\ v1 \in Contract!Draft /\ None \notin Nat /\ None \notin Contract!MessageId
  BY ContractAssumption DEF Contract!TypeOK
<1>2. CASE v3 \in {"unsent", "invalid", "unreadable"}
  BY <1>2 DEF Contract!TypeOK, Contract!LetThroughIsTaken, Contract!ChainKeepsItsEnds,
              Contract!WarningIsTrue
<1>3. CASE v3 \notin {"unsent", "invalid", "unreadable"}
  <2>1. Contract!ValidDraft(v1) /\ Contract!Attachable(v1.files) /\ v2 = Contract!Wire(v1)
        /\ v3 \in {"sending", Contract!ParseSendBody(v2)}
    BY <1>3 DEF Contract!WireIsOfValidDraft
  <2>2. v3 \in {"sending", IF Contract!UsableReplyFields(v2) THEN "ok" ELSE "reply_fields"}
    BY <1>1, <2>1, ValidIsTaken
  <2>3. Contract!LetThroughIsTaken
    <3>1. v3 = "reply_fields" => ~Contract!UsableReplyFields(v2)
      BY <2>2
    <3>2. v3 \in {"sending", "ok", "reply_fields"}
      BY <2>2
    <3>. QED BY <1>1, <2>1, <3>1, <3>2, OnlyIdsAndLabelsAreRefused
         DEF Contract!LetThroughIsTaken
  <2>4. Contract!ChainKeepsItsEnds
    <3>1. v2.inReplyTo = Contract!Threading(v1).inReplyTo
          /\ v2.references = Contract!Threading(v1).references
      BY <2>1 DEF Contract!Wire
    <3>. QED BY <1>1, <3>1, ThreadingIsBounded DEF Contract!ChainKeepsItsEnds
  <2>5. Contract!WarningIsTrue
    <3>1. v2.to = v1.to /\ v2.cc = v1.cc
      BY <2>1 DEF Contract!Wire
    <3>2. Contract!Sizes(v2.attachments) = Contract!Sizes(v1.files)
      BY <1>1, <2>1, FilesTravelWhole
    <3>3. Contract!Client.budget = Contract!Route.budget
      BY DEF Contract!Client, Contract!Route
    <3>. QED BY <3>1, <3>2, <3>3 DEF Contract!WarningIsTrue, Contract!WillDegrade, Contract!Shared
  <2>. QED BY <2>3, <2>4, <2>5
<1>. QED BY <1>2, <1>3

-----------------------------------------------------------------------------
(* The opens feed.                                                         *)

\* The first run has its poll.
LEMMA FeedInit == ASSUME Feed!Init PROVE Feed!FeedInv
<1>1. Feed!TypeOK
  <2>1. 1 \in 1 .. FeedMaxMounts
    BY FeedAssumption
  <2>. QED
    BY <2>1 DEF Feed!Init, Feed!TypeOK
<1>2. Feed!OnePollPending
  BY DEF Feed!Init, Feed!OnePollPending
<1>3. Feed!ViewIsRemembered /\ Feed!LineAgrees
  BY DEF Feed!Init, Feed!ViewIsRemembered, Feed!LineAgrees
<1>4. Feed!OneAtATime /\ Feed!DrawnWasRecorded
  BY DEF Feed!Init, Feed!OneAtATime, Feed!DrawnWasRecorded, Feed!Drawn
<1>. QED
  BY <1>1, <1>2, <1>3, <1>4 DEF Feed!FeedInv

\* An answer is drawn, announced and followed by a retry, or heard by nobody.
LEMMA AnsweredKeepsFeed ==
  ASSUME Feed!FeedInv, NEW n \in v4, NEW kind \in {"ready", "unavailable"},
         Feed!Answered(n, kind)
  PROVE  Feed!FeedInv'
<1> USE DEF Feed!FeedInv
<1> DEFINE view == [kind |-> kind, opens |-> IF kind = "ready" THEN Feed!Window ELSE {}]
<1>1. CASE Feed!Heard(n)
  <2>1. /\ v6' = view /\ v7' = kind /\ v8' = Feed!LineAfter(kind)
        /\ v5' = (kind = "unavailable")
        /\ v4' = v4 \ {n} /\ n = v2 /\ v3
        /\ UNCHANGED <<v1, v2, v3>>
    BY <1>1 DEF Feed!Answered, Feed!Heard
  <2>2. view \in Feed!Feed /\ view.kind = kind
    BY DEF Feed!TypeOK, Feed!Feed, Feed!Window
  <2>3. view # None /\ kind # None
    BY <2>2, FeedAssumption
  <2>4. Feed!TypeOK'
    BY <2>1, <2>2 DEF Feed!TypeOK, Feed!LineAfter
  <2>5. Feed!ViewIsRemembered'
    BY <2>1, <2>2, <2>3 DEF Feed!ViewIsRemembered
  <2>6. v7 = "unavailable" <=> v8 = "unreachable"
    BY FeedAssumption DEF Feed!ViewIsRemembered, Feed!LineAgrees
  <2>7. Feed!LineAgrees'
    BY <2>1, <2>2, <2>6 DEF Feed!LineAgrees, Feed!LineAfter
  <2>8. Feed!OnePollPending'
    BY <2>1, <2>2, <2>3 DEF Feed!OnePollPending
  <2>9. Feed!OneAtATime' /\ Feed!DrawnWasRecorded'
    BY <2>1, <2>2 DEF Feed!OneAtATime, Feed!DrawnWasRecorded, Feed!Drawn, Feed!Window
  <2>. QED
    BY <2>4, <2>5, <2>7, <2>8, <2>9
<1>2. CASE ~ Feed!Heard(n)
  <2>1. v4' = v4 \ {n} /\ UNCHANGED <<v1, v2, v3, v5, v6, v7, v8>> /\ (v3 => n # v2)
    BY <1>2 DEF Feed!Answered, Feed!Heard
  <2>. QED
    BY <2>1
       DEF Feed!TypeOK, Feed!OnePollPending, Feed!ViewIsRemembered, Feed!LineAgrees,
           Feed!OneAtATime, Feed!DrawnWasRecorded, Feed!Drawn
<1>. QED
  BY <1>1, <1>2

\* The timer and the mounts: who is armed is disarmed, or polls.
LEMMA EffectsKeepFeed ==
  ASSUME Feed!FeedInv, Feed!RetryDue \/ Feed!Unmount \/ Feed!Remount
  PROVE  Feed!FeedInv'
<1> USE DEF Feed!FeedInv
<1>1. /\ Feed!ViewIsRemembered' /\ Feed!LineAgrees'
      /\ Feed!OneAtATime' /\ Feed!DrawnWasRecorded'
  BY DEF Feed!ViewIsRemembered, Feed!LineAgrees, Feed!RetryDue, Feed!Unmount,
         Feed!Cleanup, Feed!Remount, Feed!OneAtATime, Feed!DrawnWasRecorded, Feed!Drawn
<1>2. CASE Feed!RetryDue
  <2>1. /\ v5 /\ v5' = FALSE /\ v4' = v4 \union {v2}
        /\ UNCHANGED <<v1, v2, v3, v6, v7, v8>>
    BY <1>2 DEF Feed!RetryDue
  <2>2. Feed!TypeOK'
    BY <2>1 DEF Feed!TypeOK
  <2>3. Feed!OnePollPending'
    BY <2>1 DEF Feed!OnePollPending
  <2>. QED
    BY <1>1, <2>2, <2>3
<1>3. CASE Feed!Unmount
  <2>1. v3' = FALSE /\ v5' = FALSE /\ UNCHANGED <<v1, v2, v4, v6, v7, v8>>
    BY <1>3 DEF Feed!Unmount, Feed!Cleanup
  <2>2. Feed!TypeOK'
    BY <2>1 DEF Feed!TypeOK
  <2>3. Feed!OnePollPending'
    BY <2>1 DEF Feed!OnePollPending
  <2>. QED
    BY <1>1, <2>2, <2>3
<1>4. CASE Feed!Remount
  <2>1. /\ ~v3 /\ v3' = TRUE /\ v2' = v2 + 1 /\ v4' = v4 \union {v2 + 1}
        /\ UNCHANGED <<v1, v5, v6, v7, v8>>
    BY <1>4 DEF Feed!Remount
  <2>2. v2' \in 1 .. FeedMaxMounts
    <3>1. v2 \in 1 .. FeedMaxMounts /\ v2 < FeedMaxMounts
      BY <1>4 DEF Feed!Remount, Feed!TypeOK
    <3>. QED
      BY <2>1, <3>1, FeedAssumption
  <2>3. Feed!TypeOK'
    BY <2>1, <2>2 DEF Feed!TypeOK
  <2>4. Feed!OnePollPending'
    BY <2>1 DEF Feed!OnePollPending
  <2>. QED
    BY <1>1, <2>3, <2>4
<1>. QED
  BY <1>2, <1>3, <1>4

\* Every step of the feed.
LEMMA StepKeepsFeed == ASSUME Feed!FeedInv, [Feed!Next]_(Feed!vars) PROVE Feed!FeedInv'
<1>1. ASSUME NEW e \in Feed!Event, Feed!Record(e) PROVE Feed!FeedInv'
  <2>1. /\ v1' = v1 \union {e} /\ \A f \in v1 : f.at < e.at
        /\ UNCHANGED <<v2, v3, v4, v5, v6, v7, v8>>
    BY <1>1 DEF Feed!Record
  <2>2. v1 \subseteq Feed!Event
    BY DEF Feed!FeedInv, Feed!TypeOK
  <2>3. \A f \in v1 : f.at # e.at
    <3>. SUFFICES ASSUME NEW f \in v1, f.at = e.at PROVE FALSE
      OBVIOUS
    <3>1. f.at \in Nat /\ e.at \in Nat
      BY <2>2, FeedAssumption DEF Feed!Event
    <3>. QED
      BY <2>1, <3>1
  <2>4. Feed!OneAtATime'
    BY <2>1, <2>3 DEF Feed!FeedInv, Feed!OneAtATime
  <2>5. Feed!DrawnWasRecorded'
    BY <2>1 DEF Feed!FeedInv, Feed!DrawnWasRecorded, Feed!Drawn
  <2>6. Feed!TypeOK' /\ Feed!OnePollPending' /\ Feed!ViewIsRemembered' /\ Feed!LineAgrees'
    BY <2>1 DEF Feed!FeedInv, Feed!TypeOK, Feed!OnePollPending, Feed!ViewIsRemembered,
                Feed!LineAgrees
  <2>. QED
    BY <2>4, <2>5, <2>6 DEF Feed!FeedInv
<1>2. CASE UNCHANGED Feed!vars
  BY <1>2
     DEF Feed!vars, Feed!FeedInv, Feed!TypeOK, Feed!OnePollPending,
         Feed!ViewIsRemembered, Feed!LineAgrees, Feed!OneAtATime, Feed!DrawnWasRecorded,
         Feed!Drawn
<1>. QED
  BY <1>1, <1>2, AnsweredKeepsFeed, EffectsKeepFeed DEF Feed!Next

\* Of events there is a newest.
LEMMA NewestIsNewest ==
  ASSUME NEW E \in SUBSET Feed!Event, E # {}
  PROVE  Feed!Newest(E) \in E /\ \A f \in E : f.at <= Feed!Newest(E).at
<1>1. \A e \in E : e.at \in Nat /\ FeedMaxNow - e.at \in Nat
  BY FeedAssumption DEF Feed!Event
<1> DEFINE Behind == {FeedMaxNow - e.at : e \in E}
<1>2. PICK x \in Behind : \A y \in Behind : x <= y
  <2>1. Behind \in SUBSET Nat /\ Behind # {}
    BY <1>1
  <2> HIDE DEF Behind
  <2>. QED
    BY <2>1, LeastNat
<1>3. PICK e \in E : x = FeedMaxNow - e.at
  BY <1>2
<1>4. \A f \in E : f.at <= e.at
  <2>. SUFFICES ASSUME NEW f \in E PROVE f.at <= e.at
    OBVIOUS
  <2>1. FeedMaxNow - f.at \in Behind
    OBVIOUS
  <2>2. x <= FeedMaxNow - f.at
    BY <1>2, <2>1
  <2>. QED
    BY <1>1, <1>3, <2>2, FeedAssumption
<1>. QED
  BY <1>3, <1>4 DEF Feed!Newest

\* The events of one token that may be drawn, of an answer.
TokenEvents(opens, t) == {e \in opens : e.token = t /\ Feed!IsDisplayable(e)}

\* Its row speaks of one of them, the newest of those that win.
LEMMA RowSpeaksOfItsToken ==
  ASSUME NEW E \in SUBSET Feed!Event, E # {}
  PROVE  /\ Feed!Winning(E) # {} /\ Feed!Winning(E) \subseteq E
         /\ Feed!Row(E).event \in Feed!Winning(E)
         /\ \A f \in Feed!Winning(E) : f.at <= Feed!Row(E).event.at
<1>1. Feed!Winning(E) # {} /\ Feed!Winning(E) \subseteq E
  BY DEF Feed!Winning
<1>2. Feed!Row(E).event = Feed!Newest(Feed!Winning(E))
  BY DEF Feed!Row
<1>3. Feed!Winning(E) \in SUBSET Feed!Event
  BY <1>1
<1>. QED
  BY <1>1, <1>2, <1>3, NewestIsNewest

\* Every row is of one token, and speaks of an event that is drawn.
LEMMA RowsHaveTokens ==
  ASSUME NEW opens \in SUBSET Feed!Event, NEW row \in Feed!Rows(opens)
  PROVE  LET E == TokenEvents(opens, row.event.token)
         IN E # {} /\ E \in SUBSET Feed!Event /\ row = Feed!Row(E)
<1>1. PICK t \in {e.token : e \in {f \in opens : Feed!IsDisplayable(f)}} :
        row = Feed!Row(TokenEvents(opens, t))
  BY DEF Feed!Rows, TokenEvents
<1>2. /\ TokenEvents(opens, t) # {} /\ TokenEvents(opens, t) \in SUBSET Feed!Event
      /\ \A e \in TokenEvents(opens, t) : e.token = t
  BY <1>1 DEF TokenEvents
<1>3. Feed!Row(TokenEvents(opens, t)).event \in TokenEvents(opens, t)
  BY <1>2, RowSpeaksOfItsToken
<1>4. row.event.token = t
  BY <1>1, <1>2, <1>3
<1>. QED
  BY <1>1, <1>2, <1>4

\* A confirmed open has its row, and the row is the only one of its token.
LEMMA ConfirmedHasItsRow ==
  ASSUME NEW opens \in SUBSET Feed!Event, NEW e \in opens, e.class = "open"
  PROVE  \E row \in Feed!Rows(opens) :
           /\ row.event.token = e.token
           /\ Feed!ReadStateFor(row.event.class).tone = "confirmed"
           /\ row.event.at >= e.at
           /\ \A other \in Feed!Rows(opens) : other.event.token = e.token => other = row
<1> DEFINE E == TokenEvents(opens, e.token)
           row == Feed!Row(E)
<1>1. e \in E /\ E \in SUBSET Feed!Event /\ \A f \in E : f.token = e.token
  BY DEF TokenEvents, Feed!IsDisplayable
<1>2. e.token \in {f.token : f \in {g \in opens : Feed!IsDisplayable(g)}}
  BY DEF Feed!IsDisplayable
<1>3. row \in Feed!Rows(opens)
  BY <1>2 DEF Feed!Rows, TokenEvents
<1>4. \A f \in Feed!Winning(E) : f.class = "open" /\ f \in E
  BY <1>1 DEF Feed!Winning
<1>5. e \in Feed!Winning(E)
  BY <1>1 DEF Feed!Winning
<1> HIDE DEF E
<1>6. /\ row.event \in Feed!Winning(E)
      /\ \A f \in Feed!Winning(E) : f.at <= row.event.at
  BY <1>1, RowSpeaksOfItsToken
<1>7. row.event.class = "open" /\ row.event.token = e.token /\ row.event \in Feed!Event
  BY <1>1, <1>4, <1>6
<1>8. row.event.at >= e.at
  <2>1. e.at <= row.event.at
    BY <1>5, <1>6
  <2>2. e.at \in Nat /\ row.event.at \in Nat
    BY <1>7, FeedAssumption DEF Feed!Event
  <2>. QED
    BY <2>1, <2>2
<1>9. \A other \in Feed!Rows(opens) : other.event.token = e.token => other = row
  BY RowsHaveTokens DEF E
<1>10. Feed!ReadStateFor(row.event.class).tone = "confirmed"
  BY <1>7 DEF Feed!ReadStateFor
<1> HIDE DEF row
<1>. QED
  BY <1>3, <1>7, <1>8, <1>9, <1>10

\* The episodes of a row begin at events of its kind, further apart than the gap.
LEMMA EpisodesBeginApart ==
  ASSUME NEW opens \in SUBSET Feed!Event, NEW row \in Feed!Rows(opens),
         \A e, f \in opens : e.at = f.at => e = f
  PROVE  \E E \in SUBSET {e \in opens : e.token = row.event.token
                                          /\ e.class = row.event.class} :
           /\ Feed!Cardinality(E) = row.count
           /\ \A e, f \in E : e # f => (e.at - f.at > FeedGap \/ f.at - e.at > FeedGap)
<1> DEFINE All == TokenEvents(opens, row.event.token)
           Kind == {e \in Feed!Winning(All) : e.class = row.event.class}
           Starts == {e \in Kind : \A f \in Kind : f.at < e.at => e.at - f.at > FeedGap}
<1>1. All # {} /\ All \in SUBSET Feed!Event /\ row = Feed!Row(All)
  BY RowsHaveTokens
<1>2. Feed!Winning(All) \subseteq All
  BY <1>1, RowSpeaksOfItsToken
<1>3. row.count = Feed!Cardinality(Starts)
  <2>1. Feed!Row(All) =
          [event |-> Feed!Newest(Feed!Winning(All)),
           count |-> Feed!Episodes({e \in Feed!Winning(All) :
                                      e.class = Feed!Newest(Feed!Winning(All)).class})]
    BY DEF Feed!Row
  <2>2. row.event = Feed!Newest(Feed!Winning(All))
    BY <1>1, <2>1
  <2>3. row.count = Feed!Episodes({e \in Feed!Winning(All) :
                                     e.class = Feed!Newest(Feed!Winning(All)).class})
    BY <1>1, <2>1
  <2>4. row.count = Feed!Episodes(Kind)
    BY <2>2, <2>3
  <2>. QED
    BY <2>4 DEF Feed!Episodes
<1>4. Starts \in SUBSET {e \in opens : e.token = row.event.token
                                         /\ e.class = row.event.class}
  BY <1>2 DEF TokenEvents
<1>5. ASSUME NEW e \in Starts, NEW f \in Starts, e # f
      PROVE  e.at - f.at > FeedGap \/ f.at - e.at > FeedGap
  <2>1. e \in opens /\ f \in opens /\ e \in Kind /\ f \in Kind
    BY <1>4
  <2>2. e.at \in Nat /\ f.at \in Nat /\ e.at # f.at
    BY <1>5, <2>1, FeedAssumption DEF Feed!Event
  <2>3. f.at < e.at \/ e.at < f.at
    BY <2>2
  <2>. QED
    BY <1>5, <2>1, <2>3
<1> HIDE DEF Starts
<1>. QED
  BY <1>3, <1>4, <1>5

\* What the rail says.
LEMMA FeedKeepsPromises ==
  ASSUME Feed!FeedInv
  PROVE  Feed!ConfirmedOpenIsShown /\ Feed!EpisodesAreApart /\ Feed!LineAgrees
<1>1. Feed!Drawn \in SUBSET Feed!Event
  BY DEF Feed!FeedInv, Feed!TypeOK, Feed!DrawnWasRecorded
<1>2. \A e, f \in Feed!Drawn : e.at = f.at => e = f
  BY DEF Feed!FeedInv, Feed!OneAtATime, Feed!DrawnWasRecorded
<1>3. Feed!ConfirmedOpenIsShown
  BY <1>1, ConfirmedHasItsRow DEF Feed!ConfirmedOpenIsShown
<1>4. Feed!EpisodesAreApart
  BY <1>1, <1>2, EpisodesBeginApart DEF Feed!EpisodesAreApart
<1>. QED
  BY <1>3, <1>4 DEF Feed!FeedInv

-----------------------------------------------------------------------------
(* The notifications switch and the dispatcher.                            *)

\* A page is mounted with whatever the browser and the service hold.
LEMMA PushCoreInit == ASSUME Devices!Init PROVE Devices!PushCore
<1>1. DevicesMaxSub \in Nat /\ DevicesMaxPasses \in Nat
  BY DevicesAssumption
<1>2. 0 \in 0 .. DevicesMaxSub /\ 0 \in 0 .. DevicesMaxPasses
  BY <1>1
<1>3. Devices!TypeOK
  BY <1>2 DEF Devices!Init, Devices!TypeOK, Devices!Endpoint, Devices!Switch
<1>4. Devices!DeletesWhatIsOver
  BY DEF Devices!Init, Devices!DeletesWhatIsOver
<1>. QED
  BY <1>3, <1>4 DEF Devices!PushCore

\* What every step needs of the invariant.
LEMMA PushTypes ==
  ASSUME Devices!PushCore
  PROVE  /\ v1 \in BOOLEAN /\ v2 \in {"default", "granted", "denied"}
         /\ v5 \subseteq Devices!Endpoint /\ v6 \in Devices!Switch
         /\ v7 \in {"none", "ask", "key", "subscribe", "save", "unsubscribe", "delete", "reread"}
         /\ v8 \in 1 .. DevicesMaxSub \union {None} /\ v9 \in {"asked", "answered", "failed"}
         /\ v10 \in Devices!Pass \union {None} /\ v11 \in 0 .. DevicesMaxPasses
  BY DEF Devices!PushCore, Devices!TypeOK

\* The bounds of the subscriptions and the passes.
LEMMA PushNumbers ==
  ASSUME Devices!PushCore
  PROVE  /\ v4 \in 0 .. DevicesMaxSub /\ v3 \in 1 .. v4 \union {None}
         /\ v3 \in 1 .. DevicesMaxSub \union {None}
         /\ v7 \in {"save", "delete"} => v8 \in 1 .. v4
         /\ v7 = "delete" => v8 # v3
  BY DEF Devices!PushCore, Devices!TypeOK, Devices!DeletesWhatIsOver

\* The control's fields change one at a time and within their types.
LEMMA SwitchChanges ==
  ASSUME NEW s \in Devices!Switch
  PROVE  /\ \A x \in BOOLEAN : [s EXCEPT !.on = x] \in Devices!Switch
         /\ \A x \in {"none", "turning on", "turning off"} : [s EXCEPT !.failed = x] \in Devices!Switch
         /\ \A x \in {"none", "turning on", "turning off"} :
              [s EXCEPT !.busy = TRUE, !.failed = x] \in Devices!Switch
         /\ \A x \in BOOLEAN, y \in {"none", "turning on", "turning off"} :
              /\ [s EXCEPT !.busy = FALSE, !.on = x, !.failed = y] \in Devices!Switch
              /\ [s EXCEPT !.busy = FALSE, !.failed = y, !.shown = x] \in Devices!Switch
  BY DEF Devices!Switch

\* Steps of the page that touch no row and mint no subscription.
LEMMA PageKeepsPush ==
  ASSUME Devices!PushCore,
         v6' \in Devices!Switch, v9' \in {"asked", "answered", "failed"},
         v2' \in {"default", "granted", "denied"},
         UNCHANGED <<v1, v5, v10, v11, v4>>,
         v3' \in {v3, None},
         v7' \in {"none", "ask", "key", "subscribe", "save", "unsubscribe", "delete", "reread"},
         v8' \in {v3, v8, None},
         v7' \in {"save", "delete"} => v8' \in 1 .. v4,
         v7' = "delete" => v8' # v3'
  PROVE  Devices!PushCore'
<1>1. v8' \in 1 .. DevicesMaxSub \union {None}
  BY PushTypes, PushNumbers
<1>2. Devices!TypeOK'
  BY <1>1, PushTypes, PushNumbers DEF Devices!TypeOK
<1>3. Devices!DeletesWhatIsOver'
  BY PushNumbers DEF Devices!DeletesWhatIsOver
<1>. QED
  BY <1>2, <1>3 DEF Devices!PushCore

\* A failure to turn on is shown.
LEMMA EnableFailsOnScreen ==
  ASSUME v6 \in Devices!Switch, v9 \in {"asked", "answered", "failed"}, Devices!EnableFails
  PROVE  v6' \in Devices!Switch /\ v9' \in {"asked", "answered", "failed"} /\ v7' = "none" /\ v8' = None
<1>1. (v2' # "denied") \in BOOLEAN
  OBVIOUS
<1>2. v6' = [v6 EXCEPT !.busy = FALSE, !.failed = "turning on", !.shown = (v2' # "denied")]
  BY DEF Devices!EnableFails
<1>3. v6' \in Devices!Switch
  BY <1>1, <1>2, SwitchChanges
<1>. QED
  BY <1>3 DEF Devices!EnableFails

\* Every step of the switch, whatever fails in it.
LEMMA SwitchKeepsPush ==
  ASSUME Devices!PushCore,
         \/ Devices!ReadPushState \/ Devices!Reload \/ Devices!OnToggle
         \/ Devices!RequestPermission \/ Devices!GetPublicKey
         \/ Devices!DisableBegins \/ Devices!DisableEnds \/ Devices!DropSubscription
  PROVE  Devices!PushCore' /\ v5' = v5
<1>1. CASE Devices!ReadPushState
  <2> DEFINE on == v9' = "answered" /\ v3 # None
  <2>0. on \in BOOLEAN /\ v6' = [v6 EXCEPT !.on = on]
    BY <1>1 DEF Devices!ReadPushState
  <2> HIDE DEF on
  <2>1. v6' \in Devices!Switch
    BY <2>0, PushTypes, SwitchChanges
  <2>2. /\ v7' = v7 /\ v8' = v8 /\ UNCHANGED <<v1, v2, v3, v4, v5, v10, v11>>
        /\ v9' \in {"answered", "failed"}
    BY <1>1 DEF Devices!ReadPushState, Devices!service, Devices!browser
  <2>. QED
    BY <2>1, <2>2, PushTypes, PushNumbers, PageKeepsPush
<1>2. CASE Devices!Reload
  <2>1. v6' \in Devices!Switch /\ v9' \in {"asked", "answered", "failed"}
    BY <1>2 DEF Devices!Reload, Devices!Switch
  <2>2. v7' = "none" /\ v8' = None /\ UNCHANGED <<v1, v2, v3, v4, v5, v10, v11>>
    BY <1>2 DEF Devices!Reload, Devices!service, Devices!browser
  <2>. QED
    BY <2>1, <2>2, PushTypes, PageKeepsPush
<1>3. CASE Devices!OnToggle
  <2>1. v6' \in Devices!Switch
    BY <1>3, PushTypes, SwitchChanges DEF Devices!OnToggle
  <2>2. v7' \in {"unsubscribe", "ask"} /\ v8' = None /\ UNCHANGED <<v1, v2, v3, v4, v5, v9, v10, v11>>
    BY <1>3 DEF Devices!OnToggle, Devices!service, Devices!browser
  <2>. QED
    BY <2>1, <2>2, PushTypes, PageKeepsPush
<1>4. CASE Devices!RequestPermission
  <2>1. UNCHANGED <<v1, v3, v4, v5, v10, v11>>
    BY <1>4 DEF Devices!RequestPermission, Devices!service
  <2>2. v2' \in {"default", "granted", "denied"}
    BY <1>4, PushTypes DEF Devices!RequestPermission
  <2>3. \/ v7' = "key" /\ UNCHANGED <<v6, v8, v9>>
        \/ Devices!EnableFails
    BY <1>4 DEF Devices!RequestPermission
  <2>. QED
    BY <2>1, <2>2, <2>3, PushTypes, EnableFailsOnScreen, PageKeepsPush
<1>5. CASE Devices!GetPublicKey
  <2>1. UNCHANGED <<v1, v2, v3, v4, v5, v10, v11>>
    BY <1>5 DEF Devices!GetPublicKey, Devices!service, Devices!browser
  <2>2. \/ v7' = "subscribe" /\ UNCHANGED <<v6, v8, v9>>
        \/ Devices!EnableFails
    BY <1>5 DEF Devices!GetPublicKey
  <2>. QED
    BY <2>1, <2>2, PushTypes, EnableFailsOnScreen, PageKeepsPush
<1>6. CASE Devices!DisableBegins
  <2>1. UNCHANGED <<v1, v2, v4, v5, v9, v10, v11>>
    BY <1>6 DEF Devices!DisableBegins, Devices!service
  <2>4. CASE v7' = "reread" /\ UNCHANGED <<v3, v8>> /\ v6' = [v6 EXCEPT !.failed = "turning off"]
    <3>1. v6' \in Devices!Switch
      BY <2>4, PushTypes, SwitchChanges
    <3>. QED
      BY <2>1, <2>4, <3>1, PushTypes, PageKeepsPush
  <2>5. CASE v3 = None /\ v7' = "reread" /\ UNCHANGED <<v3, v8, v6>>
    BY <2>1, <2>5, PushTypes, PageKeepsPush
  <2>3. CASE v3 # None /\ Devices!Unsubscribe(v3)
    <3>1. v8' = v3
      BY <2>3 DEF Devices!Unsubscribe
    <3>2. \/ v3' = None /\ v7' = "delete" /\ v6' = v6
          \/ v7' = "reread" /\ v6' = [v6 EXCEPT !.failed = "turning off"] /\ v3' = v3
      BY <2>3 DEF Devices!Unsubscribe
    <3>3. v6' \in Devices!Switch
      BY <3>2, PushTypes, SwitchChanges
    <3>4. v8' \in 1 .. v4 /\ (v7' = "delete" => v8' # v3')
      BY <2>3, <3>1, <3>2, PushNumbers
    <3>. QED
      BY <2>1, <3>1, <3>2, <3>3, <3>4, PushTypes, PageKeepsPush
  <2>. QED
    BY <1>6, <2>3, <2>4, <2>5 DEF Devices!DisableBegins
<1>7. CASE Devices!DisableEnds
  <2> PICK looked \in {"answered", "failed"} :
          /\ Devices!Done(looked = "answered" /\ Devices!Reread, v6.failed)
          /\ v9' = IF v9 = "asked" THEN "asked" ELSE looked
    BY <1>7 DEF Devices!DisableEnds
  <2> DEFINE on == looked = "answered" /\ Devices!Reread
  <2>1. v6' = [v6 EXCEPT !.busy = FALSE, !.on = on, !.failed = v6.failed]
    BY DEF Devices!Done
  <2>2. on \in BOOLEAN /\ v6.failed \in {"none", "turning on", "turning off"}
    BY PushTypes DEF Devices!Switch
  <2> HIDE DEF on
  <2>3. v6' \in Devices!Switch
    BY <2>1, <2>2, PushTypes, SwitchChanges
  <2>4. /\ v7' = "none" /\ v8' = None /\ UNCHANGED <<v1, v2, v3, v4, v5, v10, v11>>
        /\ v9' \in {"asked", "answered", "failed"}
    BY <1>7 DEF Devices!DisableEnds, Devices!Done, Devices!service, Devices!browser
  <2>. QED
    BY <2>3, <2>4, PushTypes, PageKeepsPush
<1>8. CASE Devices!DropSubscription
  <2>1. /\ v3' = None /\ v2' \in {"default", "denied"}
        /\ UNCHANGED <<v1, v4, v5, v6, v7, v8, v9, v10, v11>>
    BY <1>8 DEF Devices!DropSubscription, Devices!service
  <2>2. /\ v7' \in {"save", "delete"} => v8' \in 1 .. v4
        /\ v7' = "delete" => v8' # v3'
    BY <2>1, PushNumbers, DevicesAssumption
  <2>. QED
    BY <2>1, <2>2, PushTypes, PageKeepsPush
<1>. QED
  BY <1>1, <1>2, <1>3, <1>4, <1>5, <1>6, <1>7, <1>8

\* A new subscription is a new endpoint.
LEMMA SubscribeKeepsPush ==
  ASSUME Devices!PushCore, Devices!Subscribe PROVE Devices!PushCore' /\ v5' = v5
<1>1. UNCHANGED <<v1, v2, v5, v10, v11>>
  BY DEF Devices!Subscribe, Devices!service
<1>2. CASE UNCHANGED <<v3, v4>> /\ Devices!EnableFails
  BY <1>1, <1>2, PushTypes, EnableFailsOnScreen, PageKeepsPush
<1>3. CASE /\ \/ v3 # None /\ v3' = v3 /\ v4' = v4
              \/ v3 = None /\ v4 < DevicesMaxSub /\ v4' = v4 + 1 /\ v3' = v4 + 1
           /\ v8' = v3' /\ v7' = "save" /\ UNCHANGED <<v6, v9>>
  <2>1. /\ v4' \in 0 .. DevicesMaxSub /\ v3' \in 1 .. v4'
        /\ v3' \in 1 .. DevicesMaxSub
    BY <1>3, PushNumbers, DevicesAssumption
  <2>2. Devices!TypeOK'
    BY <1>1, <1>3, <2>1, PushTypes DEF Devices!TypeOK
  <2>3. Devices!DeletesWhatIsOver'
    BY <1>3, <2>1 DEF Devices!DeletesWhatIsOver
  <2>. QED
    BY <1>1, <2>2, <2>3 DEF Devices!PushCore
<1>. QED
  BY <1>2, <1>3 DEF Devices!Subscribe

\* The two routes that write the table: a row is deleted after its subscription.
LEMMA SaveKeepsPush ==
  ASSUME Devices!PushCore, Devices!SaveSubscription
  PROVE  Devices!PushCore' /\ Devices!RowsOutliveNothingAliveStep
<1>1. v8 \in 1 .. v4 /\ v4 \in 0 .. DevicesMaxSub
  BY PushNumbers DEF Devices!SaveSubscription
<1>2. DevicesMaxSub \in Nat
  BY DevicesAssumption
<1>3. v8 \in Devices!Endpoint
  BY <1>1, <1>2 DEF Devices!Endpoint
<1>4. UNCHANGED <<v1, v2, v3, v4, v10, v11>> /\ v5' \in {v5, v5 \union {v8}}
  BY DEF Devices!SaveSubscription, Devices!browser
<1>5. v7' = "none" /\ v8' = None /\ v6' \in Devices!Switch /\ v9' \in {"asked", "answered", "failed"}
  <2>1. CASE Devices!EnableFails
    BY <2>1, PushTypes, EnableFailsOnScreen
  <2>2. CASE Devices!Done(TRUE, "none") /\ UNCHANGED v9
    <3>1. v6' = [v6 EXCEPT !.busy = FALSE, !.on = TRUE, !.failed = "none"]
      BY <2>2 DEF Devices!Done
    <3>2. v6' \in Devices!Switch
      BY <3>1, PushTypes, SwitchChanges
    <3>. QED
      BY <2>2, <3>2, PushTypes DEF Devices!Done
  <2>. QED
    BY <2>1, <2>2 DEF Devices!SaveSubscription
<1>6. Devices!TypeOK'
  BY <1>3, <1>4, <1>5, PushTypes, PushNumbers DEF Devices!TypeOK
<1>7. Devices!DeletesWhatIsOver'
  BY <1>4, <1>5, PushNumbers DEF Devices!DeletesWhatIsOver
<1>8. v5 \ v5' = {}
  BY <1>4
<1>. QED
  BY <1>6, <1>7, <1>8 DEF Devices!PushCore, Devices!RowsOutliveNothingAliveStep

\* The row deleted is of a subscription the browser has given up.
LEMMA DeleteKeepsPush ==
  ASSUME Devices!PushCore, Devices!DeleteSubscription
  PROVE  Devices!PushCore' /\ Devices!RowsOutliveNothingAliveStep
<1>1. v7 = "delete" /\ v7' = "reread" /\ v5' \in {v5, v5 \ {v8}}
      /\ UNCHANGED <<v1, v2, v3, v4, v8, v9, v10, v11>>
  BY DEF Devices!DeleteSubscription, Devices!browser
<1>2. v6' = v6 \/ v6' = [v6 EXCEPT !.failed = "turning off"]
  BY DEF Devices!DeleteSubscription
<1>3. v6' \in Devices!Switch
  BY <1>2, PushTypes, SwitchChanges
<1>4. Devices!TypeOK'
  BY <1>1, <1>3, PushTypes, PushNumbers DEF Devices!TypeOK
<1>5. Devices!DeletesWhatIsOver'
  BY <1>1, PushNumbers DEF Devices!DeletesWhatIsOver
<1>6. v8 \in 1 .. v4 /\ v8 # v3
  BY <1>1, PushNumbers
<1>7. v8 \notin DevicesOthers
  BY <1>6, PushNumbers, DevicesAssumption
<1>8. v5 \ v5' \subseteq {v8}
  BY <1>1
<1>9. Devices!RowsOutliveNothingAliveStep
  BY <1>6, <1>7, <1>8 DEF Devices!RowsOutliveNothingAliveStep, Devices!Alive
<1>. QED
  BY <1>4, <1>5, <1>9 DEF Devices!PushCore

\* The dispatcher prunes what the push service called gone.
LEMMA DispatchKeepsPush ==
  ASSUME Devices!PushCore, v10' \in Devices!Pass \union {None}, v11' \in 0 .. DevicesMaxPasses,
         UNCHANGED <<v1, v2, v3, v4, v6, v7, v8, v9>>, v5' \subseteq v5
  PROVE  Devices!PushCore'
<1>1. Devices!TypeOK'
  BY PushTypes, PushNumbers DEF Devices!TypeOK
<1>2. Devices!DeletesWhatIsOver'
  BY PushNumbers DEF Devices!DeletesWhatIsOver
<1>. QED
  BY <1>1, <1>2 DEF Devices!PushCore

\* A pass begins with the rows there are, and ends.
LEMMA BatchKeepsPush ==
  ASSUME Devices!PushCore, Devices!NotifyBegins \/ Devices!NotifyEnds
  PROVE  Devices!PushCore' /\ v5' = v5
<1>1. CASE Devices!NotifyBegins
  <2>1. /\ v11 < DevicesMaxPasses /\ v11' = v11 + 1
        /\ UNCHANGED <<v1, v2, v3, v4, v5, v6, v7, v8, v9>>
        /\ v10' = [to |-> v5, left |-> v5 \X DevicesMessages, told |-> {}, missed |-> {}]
    BY <1>1 DEF Devices!NotifyBegins, Devices!browser
  <2>2. v10' \in Devices!Pass
    BY <2>1, PushTypes DEF Devices!Pass, Devices!Pair
  <2>3. v11 \in 0 .. DevicesMaxPasses /\ DevicesMaxPasses \in Nat
    BY PushTypes, DevicesAssumption
  <2>4. v11' \in 0 .. DevicesMaxPasses
    BY <2>1, <2>3
  <2>. QED
    BY <2>1, <2>2, <2>4, DispatchKeepsPush
<1>2. CASE Devices!NotifyEnds
  BY <1>2, PushTypes, DispatchKeepsPush DEF Devices!NotifyEnds, Devices!browser
<1>. QED
  BY <1>1, <1>2

\* A push service answers for one device.
LEMMA SendKeepsPush ==
  ASSUME Devices!PushCore, v10 # None, NEW pair \in v10.left, NEW status, NEW pruned,
         Devices!SendPush(pair, status, pruned)
  PROVE  Devices!PushCore' /\ Devices!RowsOutliveNothingAliveStep
<1>1. v10 \in Devices!Pass
  BY PushTypes
<1>2. pair \in Devices!Pair /\ pair[1] \in Devices!Endpoint
  BY <1>1 DEF Devices!Pass, Devices!Pair
<1>3. v10' \in Devices!Pass
  BY <1>1, <1>2 DEF Devices!SendPush, Devices!Pass, Devices!AfterPrune
<1>4. /\ UNCHANGED <<v1, v2, v3, v4, v6, v7, v8, v9, v11>>
      /\ v5' = IF pruned = "done" THEN v5 \ {pair[1]} ELSE v5
  BY DEF Devices!SendPush, Devices!browser
<1>5. Devices!PushCore'
  BY <1>3, <1>4, PushTypes, DispatchKeepsPush
<1>6. pruned = "done" => status = "gone"
  BY DEF Devices!SendPush, Devices!ShouldPrune
<1>7. status = "gone" => ~Devices!Alive(pair[1])
  BY DEF Devices!SendPush, Devices!Statuses
<1>8. Devices!RowsOutliveNothingAliveStep
  BY <1>4, <1>6, <1>7 DEF Devices!RowsOutliveNothingAliveStep
<1>. QED
  BY <1>5, <1>8

\* Every step of the switch and the dispatcher, and what a step never does.
LEMMA StepKeepsPushCore ==
  ASSUME Devices!PushCore, [Devices!Next]_(Devices!vars)
  PROVE  Devices!PushCore' /\ Devices!RowsOutliveNothingAliveStep
<1>1. v5' = v5 => Devices!RowsOutliveNothingAliveStep
  BY DEF Devices!RowsOutliveNothingAliveStep
<1>2. CASE UNCHANGED Devices!vars
  <2>1. Devices!PushCore'
    BY <1>2 DEF Devices!vars, Devices!PushCore, Devices!TypeOK, Devices!DeletesWhatIsOver
  <2>2. v5' = v5
    BY <1>2 DEF Devices!vars
  <2>. QED
    BY <1>1, <2>1, <2>2
<1>3. ASSUME v10 # None, NEW pair \in v10.left, NEW status, NEW pruned,
             Devices!SendPush(pair, status, pruned)
      PROVE  Devices!PushCore' /\ Devices!RowsOutliveNothingAliveStep
  BY <1>3, SendKeepsPush
<1>4. CASE Devices!Next
  BY <1>1, <1>3, <1>4, SwitchKeepsPush, SubscribeKeepsPush, SaveKeepsPush, DeleteKeepsPush,
     BatchKeepsPush DEF Devices!Next
<1>. QED
  BY <1>2, <1>4

\* The switch starts unread, and no pass is under way.
LEMMA PushInit == ASSUME Devices!Init PROVE Devices!PushInv
<1>1. Devices!PushCore
  BY PushCoreInit
<1>2. Devices!BusyWhileStepping /\ Devices!SubscribedIsVisible /\ Devices!PassIsWhole
  BY DEF Devices!Init, Devices!BusyWhileStepping, Devices!SubscribedIsVisible, Devices!PassIsWhole
<1>. QED
  BY <1>1, <1>2 DEF Devices!PushInv

\* What a change of the control leaves alone.
LEMMA SwitchFields ==
  ASSUME NEW s \in Devices!Switch, NEW x \in BOOLEAN
  PROVE  /\ [s EXCEPT !.on = x].on = x /\ [s EXCEPT !.on = x].busy = s.busy
         /\ [s EXCEPT !.failed = "turning off"].busy = s.busy
         /\ [s EXCEPT !.busy = TRUE, !.failed = "none"].busy = TRUE
BY DEF Devices!Switch

\* The switch, when it is not being worked on, shows the subscription.
LEMMA SwitchStaysTrue ==
  ASSUME Devices!PushInv, [Devices!Next]_(Devices!vars)
  PROVE  Devices!BusyWhileStepping' /\ Devices!SubscribedIsVisible'
<1> DEFINE Steady(step, switch) == step # "none" => switch.busy
           Visible(switch, lookup, sub) ==
             switch.shown /\ ~switch.busy /\ lookup = "answered" /\ sub # None
               => switch.on \/ switch.failed = "turning on"
<1>1. v6 \in Devices!Switch /\ Steady(v7, v6) /\ Visible(v6, v9, v3)
  BY PushTypes DEF Devices!PushInv, Devices!BusyWhileStepping, Devices!SubscribedIsVisible
<1>2. SUFFICES Steady(v7', v6') /\ Visible(v6', v9', v3')
  BY DEF Devices!BusyWhileStepping, Devices!SubscribedIsVisible
<1>3. CASE Devices!ReadPushState
  <2>1. v6' = [v6 EXCEPT !.on = (v9' = "answered" /\ v3 # None)] /\ v3' = v3 /\ v7' = v7
    BY <1>3 DEF Devices!ReadPushState, Devices!browser
  <2> DEFINE held == v9' = "answered" /\ v3 # None
  <2>2. held \in BOOLEAN /\ v6' = [v6 EXCEPT !.on = held]
    BY <2>1
  <2> HIDE DEF held
  <2>3. v6'.on = held /\ v6'.busy = v6.busy
    BY <1>1, <2>2, SwitchFields
  <2>. QED
    BY <1>1, <2>1, <2>3 DEF held
<1>4. CASE Devices!Reload
  <2>1. /\ v7' = "none" /\ v6'.shown = (v2 # "denied")
        /\ v9' = "answered" => v2 = "denied"
    BY <1>4 DEF Devices!Reload
  <2>. QED
    BY <2>1
<1>5. CASE Devices!OnToggle
  <2>1. v6'.busy = TRUE
    BY <1>1, <1>5, SwitchFields DEF Devices!OnToggle
  <2>. QED
    BY <2>1
<1>6. ASSUME Devices!EnableFails PROVE v7' = "none" /\ v6'.failed = "turning on"
  <2>1. v6' = [v6 EXCEPT !.busy = FALSE, !.failed = "turning on", !.shown = (v2' # "denied")]
    BY <1>6 DEF Devices!EnableFails
  <2> DEFINE able == v2' # "denied"
  <2>2. able \in BOOLEAN /\ v6' = [v6 EXCEPT !.busy = FALSE, !.failed = "turning on", !.shown = able]
    BY <2>1
  <2> HIDE DEF able
  <2>3. v6'.failed = "turning on"
    BY <1>1, <2>2 DEF Devices!Switch
  <2>. QED
    BY <1>6, <2>3 DEF Devices!EnableFails
<1>7. ASSUME v7 # "none", v6' = v6 PROVE Steady(v7', v6') /\ Visible(v6', v9', v3')
  BY <1>1, <1>7
<1>8. CASE Devices!RequestPermission
  BY <1>6, <1>7, <1>8 DEF Devices!RequestPermission
<1>9. CASE Devices!GetPublicKey
  BY <1>6, <1>7, <1>9 DEF Devices!GetPublicKey
<1>10. CASE Devices!Subscribe
  BY <1>6, <1>7, <1>10 DEF Devices!Subscribe
<1>11. ASSUME NEW on \in BOOLEAN, NEW failed, Devices!Done(on, failed)
       PROVE  v7' = "none" /\ v6'.on = on
  <2>1. v6' = [v6 EXCEPT !.busy = FALSE, !.on = on, !.failed = failed] /\ v7' = "none"
    BY <1>11 DEF Devices!Done
  <2>. QED
    BY <1>1, <2>1 DEF Devices!Switch
<1>12. CASE Devices!SaveSubscription
  <2>1. CASE Devices!Done(TRUE, "none")
    <3>1. v7' = "none" /\ v6'.on = TRUE
      BY <1>11, <2>1
    <3>. QED
      BY <3>1
  <2>. QED
    BY <1>6, <1>12, <2>1 DEF Devices!SaveSubscription
<1>13. ASSUME v7 # "none", v6' = [v6 EXCEPT !.failed = "turning off"]
       PROVE  Steady(v7', v6') /\ Visible(v6', v9', v3')
  <2>1. v6'.busy = v6.busy
    BY <1>1, <1>13, SwitchFields
  <2>. QED
    BY <1>1, <1>13, <2>1
<1>14. CASE Devices!DisableBegins
  BY <1>7, <1>13, <1>14 DEF Devices!DisableBegins, Devices!Unsubscribe
<1>15. CASE Devices!DeleteSubscription
  BY <1>7, <1>13, <1>15 DEF Devices!DeleteSubscription
<1>16. CASE Devices!DisableEnds
  <2> PICK looked \in {"answered", "failed"} :
          /\ Devices!Done(looked = "answered" /\ Devices!Reread, v6.failed)
          /\ v9' = IF v9 = "asked" THEN "asked" ELSE looked
    BY <1>16 DEF Devices!DisableEnds
  <2> DEFINE on == looked = "answered" /\ Devices!Reread
  <2>1. on \in BOOLEAN /\ v3' = v3
    BY <1>16 DEF Devices!DisableEnds, Devices!browser
  <2>2. v7' = "none" /\ v6'.on = on
    <3> HIDE DEF on
    <3>1. Devices!Done(on, v6.failed)
      BY DEF on
    <3>. QED
      BY <1>11, <2>1, <3>1
  <2>. QED
    BY <2>1, <2>2 DEF Devices!Reread
<1>17. CASE Devices!DropSubscription
  BY <1>1, <1>17 DEF Devices!DropSubscription
<1>18. ASSUME UNCHANGED <<v3, v6, v7, v9>>
       PROVE  Steady(v7', v6') /\ Visible(v6', v9', v3')
  BY <1>1, <1>18
<1>19. CASE Devices!NotifyBegins \/ Devices!NotifyEnds
  BY <1>18, <1>19 DEF Devices!NotifyBegins, Devices!NotifyEnds, Devices!browser
<1>20. ASSUME NEW pair, NEW status, NEW pruned, Devices!SendPush(pair, status, pruned)
       PROVE  UNCHANGED <<v3, v6, v7, v9>>
  BY <1>20 DEF Devices!SendPush, Devices!browser
<1>21. CASE UNCHANGED Devices!vars
  BY <1>18, <1>21 DEF Devices!vars
<1> HIDE DEF Steady, Visible
<1>. QED
  BY <1>3, <1>4, <1>5, <1>8, <1>9, <1>10, <1>12, <1>14, <1>15, <1>16, <1>17, <1>18, <1>19,
     <1>20, <1>21 DEF Devices!Next

\* What a pass has not tried yet is still before it.
LEMMA PassStaysWhole ==
  ASSUME Devices!PushInv, [Devices!Next]_(Devices!vars)
  PROVE  Devices!PassIsWhole'
<1> USE DEF Devices!PassIsWhole
<1>1. Devices!PassIsWhole /\ v10 \in Devices!Pass \union {None}
  BY PushTypes DEF Devices!PushInv
<1>2. ASSUME v10' = v10 PROVE Devices!PassIsWhole'
  BY <1>1, <1>2
<1>3. CASE Devices!NotifyBegins
  <2>1. v10' = [to |-> v5, left |-> v5 \X DevicesMessages, told |-> {}, missed |-> {}]
    BY <1>3 DEF Devices!NotifyBegins
  <2>. QED
    BY <2>1
<1>4. CASE Devices!NotifyEnds
  BY <1>4 DEF Devices!NotifyEnds
<1>5. ASSUME v10 # None, NEW pair \in v10.left, NEW status, NEW pruned,
             Devices!SendPush(pair, status, pruned)
      PROVE  Devices!PassIsWhole'
  <2>1. v10 \in Devices!Pass
    BY <1>1, <1>5
  <2>2. v10' = [v10 EXCEPT !.left = @ \ {pair},
                           !.told = IF status = "ok" THEN @ \union {pair} ELSE @,
                           !.missed = IF status # "ok" THEN @ \union {pair} ELSE @]
    BY <1>5 DEF Devices!SendPush, Devices!AfterPrune
  <2>3. v10'.to = v10.to /\ v10'.left = v10.left \ {pair}
        /\ v10'.told = (IF status = "ok" THEN v10.told \union {pair} ELSE v10.told)
        /\ v10'.missed = (IF status # "ok" THEN v10.missed \union {pair} ELSE v10.missed)
    BY <2>1, <2>2 DEF Devices!Pass
  <2>4. v10'.left \union v10'.told \union v10'.missed
          = v10.left \union v10.told \union v10.missed
    BY <1>5, <2>3
  <2>. QED
    BY <1>1, <1>5, <2>3, <2>4
<1>6. CASE UNCHANGED Devices!vars
  BY <1>2, <1>6 DEF Devices!vars
<1>7. CASE \/ Devices!ReadPushState \/ Devices!Reload \/ Devices!OnToggle
           \/ Devices!RequestPermission \/ Devices!GetPublicKey \/ Devices!Subscribe
           \/ Devices!SaveSubscription \/ Devices!DisableBegins \/ Devices!DeleteSubscription
           \/ Devices!DisableEnds \/ Devices!DropSubscription
  BY <1>2, <1>7
     DEF Devices!ReadPushState, Devices!Reload, Devices!OnToggle, Devices!RequestPermission,
         Devices!GetPublicKey, Devices!Subscribe, Devices!SaveSubscription,
         Devices!DisableBegins, Devices!DeleteSubscription, Devices!DisableEnds,
         Devices!DropSubscription, Devices!service
<1>. QED
  BY <1>3, <1>4, <1>5, <1>6, <1>7 DEF Devices!Next

\* Every step of the switch and the dispatcher, and what a step never does.
LEMMA StepKeepsPush ==
  ASSUME Devices!PushInv, [Devices!Next]_(Devices!vars)
  PROVE  Devices!PushInv' /\ Devices!RowsOutliveNothingAliveStep
<1>1. Devices!PushCore' /\ Devices!RowsOutliveNothingAliveStep
  BY StepKeepsPushCore DEF Devices!PushInv
<1>. QED
  BY <1>1, SwitchStaysTrue, PassStaysWhole DEF Devices!PushInv

\* A device with a row shows it, and a pass tries every device.
LEMMA PushKeepsPromises ==
  ASSUME Devices!PushInv PROVE Devices!SubscribedIsVisible /\ Devices!EveryDeviceTried
BY DEF Devices!PushInv, Devices!PassIsWhole, Devices!EveryDeviceTried

-----------------------------------------------------------------------------
(* Notices of new mail and of opens.                                       *)

\* What keeps the items of a batch at some places keeps a sequence of items.
LEMMA AtIsSeq ==
  ASSUME NEW S, NEW batch \in Seq(S), NEW places
  PROVE  Notices!At(batch, places) \in Seq(S)
<1> DEFINE D == 0 .. Len(batch)
           Step(x, k) == IF k \in places THEN Append(x, batch[k]) ELSE x
           IsKept(f) == f = [k \in D |-> IF k = 0 THEN << >> ELSE
                               IF k \in places THEN Append(f[k - 1], batch[k]) ELSE f[k - 1]]
           t == CHOOSE f : IsKept(f)
           IsSoFar(f, n) == /\ f \in [0 .. n -> Seq(S)] /\ f[0] = << >>
                          /\ \A k \in 1 .. n : f[k] = Step(f[k - 1], k)
           T == {n \in Nat : n <= Len(batch) => \E f : IsSoFar(f, n)}
<1>1. 0 \in T
  <2> DEFINE z == [i \in 0 .. 0 |-> << >>]
  <2>1. << >> \in Seq(S)
    OBVIOUS
  <2>2. IsSoFar(z, 0)
    BY <2>1
  <2>. QED
    BY <2>2
<1>2. ASSUME NEW n \in Nat, n \in T PROVE n + 1 \in T
  <2>. SUFFICES ASSUME n + 1 <= Len(batch) PROVE \E f : IsSoFar(f, n + 1)
    OBVIOUS
  <2>1. n <= Len(batch) /\ n + 1 \in 1 .. Len(batch) /\ batch[n + 1] \in S
    OBVIOUS
  <2>2. PICK f : IsSoFar(f, n)
    BY <1>2, <2>1
  <2> DEFINE next == Step(f[n], n + 1)
             g == [i \in 0 .. n + 1 |-> IF i = n + 1 THEN next ELSE f[i]]
  <2>3. f \in [0 .. n -> Seq(S)] /\ f[n] \in Seq(S)
    BY <2>2
  <2>4. next \in Seq(S)
    BY <2>1, <2>3
  <2> HIDE DEF next
  <2>5. g \in [0 .. n + 1 -> Seq(S)]
    BY <2>3, <2>4
  <2>6. g[0] = << >>
    BY <2>2
  <2>7. ASSUME NEW k \in 1 .. n + 1 PROVE g[k] = Step(g[k - 1], k)
    <3>1. CASE k = n + 1
      BY <3>1 DEF next
    <3>2. CASE k # n + 1
      <4>1. k \in 1 .. n /\ g[k] = f[k] /\ g[k - 1] = f[k - 1]
        BY <3>2
      <4>2. f[k] = Step(f[k - 1], k)
        BY <2>2, <4>1
      <4> HIDE DEF g, Step
      <4>. QED
        BY <4>1, <4>2
    <3>. QED
      BY <3>1, <3>2
  <2> HIDE DEF g, Step
  <2>8. IsSoFar(g, n + 1)
    BY <2>5, <2>6, <2>7
  <2>. QED
    BY <2>8
<1> HIDE DEF T
<1>3. \A n \in Nat : n \in T
  BY <1>1, <1>2, InductNat
<1> USE DEF T
<1>4. PICK f : IsSoFar(f, Len(batch))
  BY <1>3
<1>5. f = [k \in D |-> f[k]]
  BY <1>4
<1>6. \A k \in D : f[k] = IF k = 0 THEN << >> ELSE
                             IF k \in places THEN Append(f[k - 1], batch[k]) ELSE f[k - 1]
  <2>. TAKE k \in D
  <2>1. CASE k = 0
    BY <1>4, <2>1
  <2>2. CASE k # 0
    <3>1. k \in 1 .. Len(batch)
      BY <2>2
    <3>2. f[k] = Step(f[k - 1], k)
      BY <1>4, <3>1
    <3>. QED
      BY <2>2, <3>2
  <2>. QED
    BY <2>1, <2>2
<1>7. IsKept(f)
  BY <1>5, <1>6
<1>8. IsKept(t)
  BY <1>7
<1>9. Notices!At(batch, places) = t[Len(batch)]
  BY DEF Notices!At
<1> HIDE DEF t
<1>10. \A k \in D : t[k] = IF k = 0 THEN << >> ELSE
                             IF k \in places THEN Append(t[k - 1], batch[k]) ELSE t[k - 1]
  BY <1>8
<1> DEFINE U == {n \in Nat : n <= Len(batch) => t[n] \in Seq(S)}
<1>11. 0 \in U
  <2>1. 0 \in D /\ << >> \in Seq(S)
    OBVIOUS
  <2>2. t[0] = << >>
    BY <1>10, <2>1
  <2>. QED
    BY <2>1, <2>2
<1>12. ASSUME NEW n \in Nat, n \in U PROVE n + 1 \in U
  <2>. SUFFICES ASSUME n + 1 <= Len(batch) PROVE t[n + 1] \in Seq(S)
    OBVIOUS
  <2>1. n + 1 \in D /\ n + 1 # 0 /\ batch[n + 1] \in S /\ (n + 1) - 1 = n /\ n <= Len(batch)
    OBVIOUS
  <2>2. t[n] \in Seq(S)
    BY <1>12, <2>1
  <2>3. t[n + 1] = IF n + 1 \in places THEN Append(t[n], batch[n + 1]) ELSE t[n]
    BY <1>10, <2>1
  <2>. QED
    BY <2>1, <2>2, <2>3
<1> HIDE DEF U
<1>13. \A n \in Nat : n \in U
  BY <1>11, <1>12, InductNat
<1>14. Len(batch) \in U /\ Len(batch) \in Nat
  BY <1>13
<1>. QED
  BY <1>9, <1>14 DEF U

\* What every step needs of the invariant.
LEMMA NoticesTypes ==
  ASSUME Notices!NoticesInv
  PROVE  /\ v1 \in Seq(Notices!MailItem \union Notices!OpenItem) /\ Len(v1) <= NoticesMaxNews
         /\ v2 \subseteq NoticesSubscribers /\ v3 \subseteq Notices!Chain
         /\ v4 \in [NoticesSubscribers -> SUBSET Notices!News]
         /\ v5 \in [NoticesSubscribers -> SUBSET Notices!News]
         /\ v6 \in [NoticesSubscribers -> SUBSET Notices!News]
         /\ v7 \in [NoticesSubscribers ->
                      [shown: {"inbox", "opens"}, of: Notices!News] \union {None}]
         /\ v8 \subseteq NoticesAccounts
         /\ Len(v1) \in Nat
BY DEF Notices!NoticesInv, Notices!TypeOK

\* A piece of news is mail of an account or an open of a token.
LEMMA NewsKinds ==
  ASSUME Notices!NoticesInv, NEW i \in Notices!News
  PROVE  \/ v1[i].kind = "mail" /\ v1[i] \in Notices!MailItem
         \/ v1[i].kind = "open" /\ v1[i] \in Notices!OpenItem
<1> DEFINE Item == Notices!MailItem \union Notices!OpenItem
<1>1. v1 \in Seq(Item) /\ i \in 1 .. Len(v1)
  BY NoticesTypes DEF Notices!News
<1> HIDE DEF Item
<1>2. v1[i] \in Item
  BY <1>1
<1>. QED
  BY <1>2 DEF Item, Notices!MailItem, Notices!OpenItem

\* Two pieces with one tag are the same to their reader, if the tag was not cut.
LEMMA TagIsSame ==
  ASSUME Notices!NoticesInv, NEW i \in Notices!News, NEW j \in Notices!News,
         Notices!Tag(i) = Notices!Tag(j), v1[j].kind = "open" \/ v1[j].account \in NoticesShort
  PROVE  Notices!Same(j, i)
<1>1. CASE v1[j].kind = "open"
  <2>1. Notices!Tag(j) = <<"open", v1[j].token>>
    BY <1>1 DEF Notices!Tag, Notices!FullTag
  <2>2. v1[i].kind = "open"
    <3>1. ASSUME v1[i].kind = "mail" PROVE Notices!Tag(i)[1] # "open"
      BY <3>1 DEF Notices!Tag, Notices!FullTag
    <3>. QED
      BY <2>1, <3>1, NewsKinds
  <2>3. Notices!Tag(i) = <<"open", v1[i].token>>
    BY <2>2 DEF Notices!Tag, Notices!FullTag
  <2>. QED
    BY <1>1, <2>1, <2>2, <2>3 DEF Notices!Same
<1>2. CASE v1[j].kind = "mail" /\ v1[j].account \in NoticesShort
  <2>1. Notices!Tag(j) = IF v1[j].thread # NoticesNoThread
                         THEN <<"thread", v1[j].account, v1[j].thread>>
                         ELSE <<"mail", v1[j].account, j>>
    BY <1>2 DEF Notices!Tag, Notices!FullTag
  <2>2. v1[i].kind = "mail"
    <3>1. ASSUME v1[i].kind = "open" PROVE Notices!Tag(i)[1] = "open"
      BY <3>1 DEF Notices!Tag, Notices!FullTag
    <3>2. Notices!Tag(j)[1] # "open"
      BY <2>1
    <3>. QED
      BY <3>1, <3>2, NewsKinds
  <2>3. v1[i].account \in NoticesShort
    <3>1. ASSUME v1[i].account \notin NoticesShort PROVE Len(Notices!Tag(i)) = 2
      BY <2>2, <3>1 DEF Notices!Tag, Notices!FullTag
    <3>2. Len(Notices!Tag(j)) = 3
      BY <2>1
    <3>. QED
      BY <3>1, <3>2
  <2>4. Notices!Tag(i) = IF v1[i].thread # NoticesNoThread
                         THEN <<"thread", v1[i].account, v1[i].thread>>
                         ELSE <<"mail", v1[i].account, i>>
    BY <2>2, <2>3 DEF Notices!Tag, Notices!FullTag
  <2>. QED
    BY <1>2, <2>1, <2>2, <2>4 DEF Notices!Same
<1>. QED
  BY <1>1, <1>2, NewsKinds

\* And mail that is the same has one tag.
LEMMA SameIsTag ==
  ASSUME NEW i, NEW j, v1[j].kind = "mail", Notices!Same(i, j)
  PROVE  Notices!Tag(i) = Notices!Tag(j)
<1>1. CASE i = j
  BY <1>1
<1>2. CASE /\ v1[i].kind = "mail" /\ v1[i].account = v1[j].account
           /\ v1[i].thread = v1[j].thread /\ v1[i].thread # NoticesNoThread
  BY <1>2 DEF Notices!Tag, Notices!FullTag
<1>. QED
  BY <1>1, <1>2 DEF Notices!Same

\* The relation is transitive, and relates a kind and an account to itself.
LEMMA SameGoesOn ==
  ASSUME NEW i, NEW j, NEW k, Notices!Same(i, j)
  PROVE  /\ v1[i].kind = "mail" <=> v1[j].kind = "mail"
         /\ v1[i].kind = "open" <=> v1[j].kind = "open"
         /\ v1[j].kind = "mail" => v1[i].account = v1[j].account
         /\ Notices!Same(j, k) => Notices!Same(i, k)
BY DEF Notices!Same

\* Nothing is known of no news.
LEMMA NoticesInit == ASSUME Notices!Init PROVE Notices!NoticesInv
<1> USE DEF Notices!Init
<1>1. v1 = << >> /\ v3 = {} /\ v8 = {} /\ v2 \subseteq NoticesSubscribers /\ Len(v1) = 0
  OBVIOUS
<1>2. /\ v4 = [d \in NoticesSubscribers |-> {}] /\ v5 = v4 /\ v6 = v4
      /\ v7 = [d \in NoticesSubscribers |-> None]
  OBVIOUS
<1>3. << >> \in Seq(Notices!MailItem \union Notices!OpenItem)
  OBVIOUS
<1>4. 0 <= NoticesMaxNews
  BY NoticesAssumption
<1>5. Notices!TypeOK
  BY <1>1, <1>2, <1>3, <1>4 DEF Notices!TypeOK
<1>6. /\ Notices!ShownWasTold /\ Notices!ChainsAreOrdered /\ Notices!AloneUnlessMixed
      /\ Notices!NothingIsAhead /\ Notices!NothingIsHidden /\ Notices!NewestStays
      /\ Notices!ClickLands
  BY <1>1, <1>2
     DEF Notices!ShownWasTold, Notices!ChainsAreOrdered, Notices!AloneUnlessMixed,
         Notices!NothingIsAhead, Notices!NothingIsHidden, Notices!NewestStays,
         Notices!ClickLands
<1>. QED
  BY <1>5, <1>6 DEF Notices!NoticesInv

\* A chain has news of its account before it, one after the other.
LEMMA ChainHasNews ==
  ASSUME Notices!NoticesInv, NEW c \in v3
  PROVE  /\ c \in Notices!Chain /\ c.todo \in Seq(1 .. NoticesMaxNews) /\ c.todo # << >>
         /\ \A k \in 1 .. Len(c.todo) : c.todo[k] \in Notices!News
         /\ \A k, l \in 1 .. Len(c.todo) : k < l => c.todo[k] < c.todo[l]
         /\ \A k \in 1 .. Len(c.todo) :
              /\ c.of = "opens" => v1[c.todo[k]].kind = "open"
              /\ c.of # "opens" => v1[c.todo[k]].kind = "mail" /\ v1[c.todo[k]].account = c.of
<1>1. c \in Notices!Chain
  BY NoticesTypes
<1>2. c.todo \in Seq(1 .. NoticesMaxNews)
  BY <1>1 DEF Notices!Chain
<1>3. DOMAIN c.todo = 1 .. Len(c.todo)
  BY <1>2
<1>. QED
  BY <1>1, <1>2, <1>3 DEF Notices!NoticesInv, Notices!ChainsAreOrdered

\* A dispatch that goes on, or ends: what is before it is what was, or less.
LEMMA ChainsKept ==
  ASSUME Notices!NoticesInv, NEW c \in v3, NEW N, UNCHANGED <<v1, v8>>,
         v3' = (v3 \ {c}) \union N,
         \A n \in N : /\ n \in Notices!Chain /\ n.of = c.of /\ n.todo # << >>
                      /\ n.todo = c.todo \/ n.todo = Tail(c.todo),
         \A n, m \in N : n = m
  PROVE  /\ v3' \subseteq Notices!Chain /\ Notices!ChainsAreOrdered'
         /\ Notices!AloneUnlessMixed'
         /\ v4' = v4 => Notices!NothingIsAhead'
<1>1. v3' \subseteq Notices!Chain
  BY NoticesTypes
<1>2. ASSUME NEW n \in N
      PROVE  /\ DOMAIN n.todo = 1 .. Len(n.todo)
             /\ \/ n.todo = c.todo
                \/ /\ Len(n.todo) = Len(c.todo) - 1
                   /\ \A k \in 1 .. Len(n.todo) : n.todo[k] = c.todo[k + 1]
  <2> DEFINE P == 1 .. NoticesMaxNews
  <2>1. c.todo \in Seq(P) /\ c.todo # << >>
    BY ChainHasNews
  <2> HIDE DEF P
  <2>2. /\ Tail(c.todo) \in Seq(P) /\ Len(Tail(c.todo)) = Len(c.todo) - 1
        /\ \A k \in 1 .. Len(c.todo) - 1 : Tail(c.todo)[k] = c.todo[k + 1]
    BY <2>1
  <2>3. n.todo \in Seq(P)
    BY <2>1, <2>2
  <2>4. DOMAIN n.todo = 1 .. Len(n.todo)
    BY <2>3
  <2>5. CASE n.todo = c.todo
    BY <2>4, <2>5
  <2>6. CASE n.todo = Tail(c.todo)
    <3>1. Len(n.todo) = Len(c.todo) - 1
      BY <2>2, <2>6
    <3>2. \A k \in 1 .. Len(n.todo) : n.todo[k] = c.todo[k + 1]
      BY <2>2, <2>6, <3>1
    <3>. QED
      BY <2>4, <3>1, <3>2
  <2>. QED
    BY <2>5, <2>6
<1>3. ASSUME NEW n \in N, NEW k \in DOMAIN n.todo
      PROVE  /\ \E l \in 1 .. Len(c.todo) : n.todo[k] = c.todo[l]
             /\ \A l \in DOMAIN n.todo : k < l => n.todo[k] < n.todo[l]
  <2> DEFINE long == Len(c.todo)
             short == Len(n.todo)
  <2>1. long \in Nat /\ short \in Nat
    <3>1. c.todo \in Seq(1 .. NoticesMaxNews) /\ n \in Notices!Chain
      BY ChainHasNews
    <3>2. n.todo \in Seq(1 .. NoticesMaxNews)
      BY <3>1 DEF Notices!Chain
    <3>. QED
      BY <3>1, <3>2
  <2>2. \A a, e \in 1 .. long : a < e => c.todo[a] < c.todo[e]
    BY ChainHasNews
  <2>3. \/ n.todo = c.todo /\ short = long
        \/ short = long - 1 /\ \A a \in 1 .. short : n.todo[a] = c.todo[a + 1]
    BY <1>2
  <2>4. DOMAIN n.todo = 1 .. short
    BY <1>2
  <2> HIDE DEF long, short
  <2>5. k \in 1 .. short
    BY <2>4
  <2>6. CASE n.todo = c.todo /\ short = long
    BY <2>2, <2>4, <2>5, <2>6 DEF long
  <2>7. CASE short = long - 1 /\ \A a \in 1 .. short : n.todo[a] = c.todo[a + 1]
    <3>1. k + 1 \in 1 .. long /\ n.todo[k] = c.todo[k + 1]
      BY <2>1, <2>5, <2>7
    <3>2. ASSUME NEW l \in 1 .. short, k < l PROVE n.todo[k] < n.todo[l]
      <4>1. l + 1 \in 1 .. long /\ k + 1 < l + 1 /\ n.todo[l] = c.todo[l + 1]
        BY <2>1, <2>5, <2>7, <3>2
      <4>. QED
        BY <2>2, <3>1, <4>1
    <3>. QED
      BY <2>4, <3>1, <3>2 DEF long
  <2>. QED
    BY <2>3, <2>6, <2>7
<1>4. Notices!ChainsAreOrdered'
  <2>. SUFFICES ASSUME NEW n \in v3'
       PROVE  /\ n.todo # << >>
              /\ \A k \in DOMAIN n.todo :
                   /\ n.todo[k] \in Notices!News
                   /\ \A l \in DOMAIN n.todo : k < l => n.todo[k] < n.todo[l]
                   /\ v1[n.todo[k]].kind = (IF n.of = "opens" THEN "open" ELSE "mail")
                   /\ n.of # "opens" => v1[n.todo[k]].account = n.of
    BY DEF Notices!ChainsAreOrdered, Notices!News
  <2>1. CASE n \in N
    <3>1. n.todo # << >> /\ n.of = c.of
      BY <2>1
    <3>2. ASSUME NEW k \in DOMAIN n.todo
          PROVE  /\ n.todo[k] \in Notices!News
                 /\ \A l \in DOMAIN n.todo : k < l => n.todo[k] < n.todo[l]
                 /\ v1[n.todo[k]].kind = (IF n.of = "opens" THEN "open" ELSE "mail")
                 /\ n.of # "opens" => v1[n.todo[k]].account = n.of
      <4>1. PICK l \in 1 .. Len(c.todo) : n.todo[k] = c.todo[l]
        BY <1>3, <2>1
      <4>2. /\ c.todo[l] \in Notices!News
            /\ c.of = "opens" => v1[c.todo[l]].kind = "open"
            /\ c.of # "opens" => v1[c.todo[l]].kind = "mail" /\ v1[c.todo[l]].account = c.of
        BY ChainHasNews
      <4>. QED
        BY <1>3, <2>1, <3>1, <4>1, <4>2
    <3>. QED
      BY <3>1, <3>2
  <2>2. CASE n \in v3
    BY <2>2 DEF Notices!NoticesInv, Notices!ChainsAreOrdered
  <2>. QED
    BY <2>1, <2>2
<1>5. Notices!AloneUnlessMixed'
  <2>. SUFFICES ASSUME NEW n \in v3', NEW m \in v3', n.of = m.of, n.of \notin v8 \union {"opens"}
       PROVE  n = m
    BY DEF Notices!AloneUnlessMixed
  <2>1. \A x, y \in v3 : x.of = y.of /\ x.of \notin v8 \union {"opens"} => x = y
    BY DEF Notices!NoticesInv, Notices!AloneUnlessMixed
  <2>. QED
    BY <2>1
<1>6. ASSUME v4' = v4 PROVE Notices!NothingIsAhead'
  <2>. SUFFICES ASSUME NEW n \in v3', NEW d \in NoticesSubscribers,
                       n.of \notin v8 \union {"opens"}, NEW i \in v4[d],
                       v1[i].kind = "mail", v1[i].account = n.of, NEW k \in DOMAIN n.todo
       PROVE  i <= n.todo[k]
    BY <1>6 DEF Notices!NothingIsAhead
  <2>1. \A x \in v3 : x.of = n.of => \A l \in DOMAIN x.todo : i <= x.todo[l]
    BY DEF Notices!NoticesInv, Notices!NothingIsAhead
  <2>2. CASE n \in v3
    BY <2>1, <2>2
  <2>3. CASE n \in N
    <3>1. PICK l \in 1 .. Len(c.todo) : n.todo[k] = c.todo[l]
      BY <1>3, <2>3
    <3>2. DOMAIN c.todo = 1 .. Len(c.todo)
      BY ChainHasNews
    <3>. QED
      BY <2>1, <2>3, <3>1, <3>2
  <2>. QED
    BY <2>2, <2>3
<1>. QED
  BY <1>1, <1>4, <1>5, <1>6

\* The devices as they were.
LEMMA DevicesStay ==
  ASSUME Notices!NoticesInv, UNCHANGED <<v1, v4, v5, v6, v7>>, v8 \subseteq v8'
  PROVE  /\ Notices!ShownWasTold' /\ Notices!NothingIsHidden' /\ Notices!NewestStays'
         /\ Notices!ClickLands'
<1>1. /\ Notices!ShownWasTold /\ Notices!NothingIsHidden /\ Notices!NewestStays
      /\ Notices!ClickLands
  BY DEF Notices!NoticesInv
<1>2. Notices!ShownWasTold' /\ Notices!ClickLands'
  BY <1>1 DEF Notices!ShownWasTold, Notices!ClickLands
<1>3. Notices!NothingIsHidden'
  BY <1>1 DEF Notices!NothingIsHidden, Notices!Same
<1>4. Notices!NewestStays'
  <2>. SUFFICES ASSUME NEW d \in NoticesSubscribers, NEW j \in v5[d], NEW i \in v4[d],
                       Notices!Same(i, j), v1[j].kind = "mail", v1[j].account \notin v8'
       PROVE  i <= j
    BY DEF Notices!NewestStays, Notices!Same
  <2>. QED
    BY <1>1 DEF Notices!NewestStays
<1>. QED
  BY <1>2, <1>3, <1>4

\* The subscriptions are read, or there are none to read.
LEMMA LoadKeepsNotices ==
  ASSUME Notices!NoticesInv, NEW c \in v3, NEW ok, Notices!LoadSubscriptions(c, ok)
  PROVE  Notices!NoticesInv'
<1> DEFINE read == [c EXCEPT !.subs = v2, !.left = v2]
           N == IF ok /\ v2 # {} THEN {read} ELSE {}
<1>1. UNCHANGED <<v1, v2, v4, v5, v6, v7, v8>> /\ v3' = (v3 \ {c}) \union N
  BY DEF Notices!LoadSubscriptions, Notices!device
<1>2. c \in Notices!Chain /\ c.todo # << >> /\ v2 \subseteq NoticesSubscribers
  BY ChainHasNews, NoticesTypes
<1>3. read \in Notices!Chain /\ read.of = c.of /\ read.todo = c.todo
  BY <1>2 DEF Notices!Chain
<1> HIDE DEF read
<1>4. \A n, m \in N : n = m
  OBVIOUS
<1>5. \A n \in N : /\ n \in Notices!Chain /\ n.of = c.of /\ n.todo # << >>
                   /\ n.todo = c.todo \/ n.todo = Tail(c.todo)
  BY <1>2, <1>3
<1> HIDE DEF N
<1>6. /\ v3' \subseteq Notices!Chain /\ Notices!ChainsAreOrdered'
      /\ Notices!AloneUnlessMixed' /\ Notices!NothingIsAhead'
  BY <1>1, <1>4, <1>5, ChainsKept
<1>7. Notices!TypeOK'
  BY <1>1, <1>6, NoticesTypes DEF Notices!TypeOK, Notices!News
<1>. QED
  BY <1>1, <1>6, <1>7, DevicesStay DEF Notices!NoticesInv

\* What is shown takes the place of its own conversation only, and is the newest of it.
LEMMA ShowKeepsDevices ==
  ASSUME Notices!NoticesInv, NEW c \in v3, NEW d \in NoticesSubscribers,
         Notices!Show(d, Head(c.todo)), UNCHANGED <<v1, v8>>
  PROVE  /\ v4' \in [NoticesSubscribers -> SUBSET Notices!News]
         /\ v5' \in [NoticesSubscribers -> SUBSET Notices!News]
         /\ Notices!ShownWasTold' /\ Notices!NothingIsHidden' /\ Notices!NewestStays'
         /\ Notices!ClickLands'
         /\ \A e \in NoticesSubscribers : v4'[e] \subseteq v4[e] \union {Head(c.todo)}
<1> DEFINE i == c.todo[1]
           kept == {j \in v5[d] : Notices!Tag(j) # Notices!Tag(i)} \union {i}
<1>1. 1 \in 1 .. Len(c.todo) /\ Head(c.todo) = i
  <2> DEFINE P == 1 .. NoticesMaxNews
  <2>1. c.todo \in Seq(P) /\ c.todo # << >>
    BY ChainHasNews
  <2> HIDE DEF P
  <2>. QED
    BY <2>1
<1>2. /\ i \in Notices!News
      /\ c.of = "opens" => v1[i].kind = "open"
      /\ c.of # "opens" => v1[i].kind = "mail" /\ v1[i].account = c.of
      /\ \A e \in NoticesSubscribers : c.of \notin v8 \union {"opens"} =>
           \A x \in v4[e] : v1[x].kind = "mail" /\ v1[x].account = c.of => x <= i
  <2>1. DOMAIN c.todo = 1 .. Len(c.todo)
    BY ChainHasNews
  <2>. QED
    BY <1>1, <2>1, ChainHasNews DEF Notices!NoticesInv, Notices!NothingIsAhead
<1>3. /\ v5' = [v5 EXCEPT ![d] = kept] /\ v4' = [v4 EXCEPT ![d] = @ \union {i}]
      /\ v6' = v6 /\ v7' = v7
  BY <1>1 DEF Notices!Show
<1>4. /\ v4 \in [NoticesSubscribers -> SUBSET Notices!News]
      /\ v5 \in [NoticesSubscribers -> SUBSET Notices!News]
      /\ v6 \in [NoticesSubscribers -> SUBSET Notices!News]
      /\ Notices!News \subseteq Int
  BY NoticesTypes DEF Notices!News
<1>13. Head(c.todo) = i
  BY <1>1
<1> HIDE DEF i
<1>5. kept \subseteq Notices!News
  BY <1>2, <1>4
<1>6. /\ v4'[d] = v4[d] \union {i} /\ v5'[d] = kept
      /\ \A e \in NoticesSubscribers : e # d => v4'[e] = v4[e] /\ v5'[e] = v5[e]
  BY <1>3, <1>4
<1>14. \A j : j \in kept <=> j = i \/ (j \in v5[d] /\ Notices!Tag(j) # Notices!Tag(i))
  OBVIOUS
<1> HIDE DEF kept
<1>7. /\ v4' \in [NoticesSubscribers -> SUBSET Notices!News]
      /\ v5' \in [NoticesSubscribers -> SUBSET Notices!News]
  BY <1>2, <1>3, <1>4, <1>5
<1>8. Notices!ShownWasTold'
  <2>. SUFFICES ASSUME NEW e \in NoticesSubscribers
       PROVE  v5'[e] \union v6[e] \subseteq v4'[e]
    BY <1>3 DEF Notices!ShownWasTold
  <2>1. v5[e] \union v6[e] \subseteq v4[e]
    BY DEF Notices!NoticesInv, Notices!ShownWasTold
  <2>. QED
    BY <1>6, <1>14, <2>1
<1>9. Notices!NothingIsHidden'
  <2>. SUFFICES ASSUME NEW e \in NoticesSubscribers, NEW x \in v4'[e],
                       v1[x].kind = "open" \/ v1[x].account \in NoticesShort
       PROVE  \E j \in v5'[e] \union v6[e] : Notices!Same(x, j)
    BY <1>3 DEF Notices!NothingIsHidden, Notices!Same
  <2>1. \A y \in v4[e] : v1[y].kind = "open" \/ v1[y].account \in NoticesShort =>
          \E j \in v5[e] \union v6[e] : Notices!Same(y, j)
    BY DEF Notices!NoticesInv, Notices!NothingIsHidden
  <2>2. CASE e # d
    BY <1>6, <2>1, <2>2
  <2>3. CASE e = d /\ x = i
    <3>1. i \in v5'[d] /\ Notices!Same(i, i)
      BY <1>6, <1>14 DEF Notices!Same
    <3>. QED
      BY <2>3, <3>1
  <2>4. CASE e = d /\ x \in v4[d]
    <3>1. PICK j \in v5[d] \union v6[d] : Notices!Same(x, j)
      BY <2>1, <2>4
    <3>2. CASE j \in v6[d] \/ Notices!Tag(j) # Notices!Tag(i)
      BY <1>6, <1>14, <2>4, <3>1, <3>2
    <3>3. CASE Notices!Tag(j) = Notices!Tag(i)
      <4>1. j \in Notices!News /\ x \in Notices!News
        BY <1>4, <2>4
      <4>2. v1[j].kind = "open" \/ v1[j].account \in NoticesShort
        BY <3>1, <4>1, NewsKinds, SameGoesOn
      <4>3. Notices!Same(j, i)
        BY <1>2, <3>3, <4>1, <4>2, TagIsSame
      <4>4. Notices!Same(x, i)
        BY <3>1, <4>3, SameGoesOn
      <4>. QED
        BY <1>6, <1>14, <2>4, <4>4
    <3>. QED
      BY <3>2, <3>3
  <2>. QED
    BY <1>6, <2>2, <2>3, <2>4
<1>10. Notices!NewestStays'
  <2>. SUFFICES ASSUME NEW e \in NoticesSubscribers, NEW j \in v5'[e], NEW x \in v4'[e],
                       Notices!Same(x, j), v1[j].kind = "mail", v1[j].account \notin v8
       PROVE  x <= j
    BY DEF Notices!NewestStays, Notices!Same
  <2>1. \A k \in v5[e] : \A y \in v4[e] :
          Notices!Same(y, k) /\ v1[k].kind = "mail" /\ v1[k].account \notin v8 => y <= k
    BY DEF Notices!NoticesInv, Notices!NewestStays
  <2>2. CASE e # d
    BY <1>6, <2>1, <2>2
  <2>3. CASE e = d /\ j = i
    <3>1. c.of # "opens" /\ c.of \notin v8
      BY <1>2, <2>3
    <3>2. v1[x].kind = "mail" /\ v1[x].account = c.of
      BY <1>2, <2>3, <3>1, SameGoesOn
    <3>3. x \in v4[d] \/ x = i
      BY <1>6, <2>3
    <3>4. i \in Int
      BY <1>2, <1>4
    <3>. QED
      BY <1>2, <2>3, <3>1, <3>2, <3>3, <3>4
  <2>4. CASE e = d /\ j # i
    <3>1. j \in v5[d] /\ Notices!Tag(j) # Notices!Tag(i)
      BY <1>6, <1>14, <2>4
    <3>2. x # i
      BY <3>1, SameIsTag
    <3>3. x \in v4[d]
      BY <1>6, <2>4, <3>2
    <3>. QED
      BY <2>1, <2>4, <3>1, <3>3
  <2>. QED
    BY <2>2, <2>3, <2>4
<1>11. Notices!ClickLands'
  BY <1>3 DEF Notices!NoticesInv, Notices!ClickLands
<1>12. \A e \in NoticesSubscribers : v4'[e] \subseteq v4[e] \union {Head(c.todo)}
  BY <1>6, <1>13
<1>. QED
  BY <1>7, <1>8, <1>9, <1>10, <1>11, <1>12

\* A message goes to a device: it is shown, or not.
LEMMA SendKeepsNotices ==
  ASSUME Notices!NoticesInv, NEW c \in v3, NEW d \in c.left, NEW outcome,
         Notices!SendPush(c, d, outcome)
  PROVE  Notices!NoticesInv'
<1> DEFINE rest == c.left \ {d}
           again == [c EXCEPT !.left = rest]
           next == [c EXCEPT !.todo = Tail(@), !.left = c.subs]
           N == IF rest # {} THEN {again} ELSE IF Len(c.todo) = 1 THEN {} ELSE {next}
           P == 1 .. NoticesMaxNews
<1>1. /\ UNCHANGED <<v1, v8>> /\ v3' = (v3 \ {c}) \union N /\ c.subs # None
      /\ IF outcome = "shown" THEN Notices!Show(d, Head(c.todo))
         ELSE UNCHANGED <<v4, v5, v6, v7>>
      /\ v2' \in {v2, v2 \ {d}}
  BY DEF Notices!SendPush, Notices!After, Notices!device
<1>2. c \in Notices!Chain /\ c.todo # << >> /\ c.todo \in Seq(P)
  BY ChainHasNews
<1>3. c.subs \in SUBSET NoticesSubscribers /\ c.left \in SUBSET NoticesSubscribers
  BY <1>1, <1>2 DEF Notices!Chain
<1>4. again \in Notices!Chain /\ again.of = c.of /\ again.todo = c.todo
  BY <1>2, <1>3 DEF Notices!Chain
<1>5. ASSUME Len(c.todo) # 1
      PROVE  next \in Notices!Chain /\ next.of = c.of /\ next.todo = Tail(c.todo) /\ next.todo # << >>
  <2> DEFINE tail == Tail(c.todo)
  <2>3. next = [c EXCEPT !.todo = tail, !.left = c.subs]
    OBVIOUS
  <2> HIDE DEF P
  <2>1. tail \in Seq(P) /\ Len(tail) = Len(c.todo) - 1 /\ Len(c.todo) \in Nat
    BY <1>2
  <2> HIDE DEF tail, next
  <2>4. tail \in Seq(P)
    BY <2>1
  <2>2. tail # << >>
    <3>. SUFFICES ASSUME tail = << >> PROVE FALSE
      OBVIOUS
    <3>1. Len(tail) = 0
      OBVIOUS
    <3>. QED
      BY ONLY <1>5, <2>1, <3>1
  <2>5. next \in Notices!Chain /\ next.of = c.of /\ next.todo = tail
    BY <1>2, <1>3, <2>3, <2>4 DEF Notices!Chain, P
  <2>. QED
    BY <2>2, <2>5 DEF tail
<1> HIDE DEF again, next, P
<1>6. \A n, m \in N : n = m
  OBVIOUS
<1>7. \A n \in N : /\ n \in Notices!Chain /\ n.of = c.of /\ n.todo # << >>
                   /\ n.todo = c.todo \/ n.todo = Tail(c.todo)
  BY <1>2, <1>4, <1>5
<1> HIDE DEF N
<1>8. /\ v3' \subseteq Notices!Chain /\ Notices!ChainsAreOrdered'
      /\ Notices!AloneUnlessMixed'
      /\ v4' = v4 => Notices!NothingIsAhead'
  BY <1>1, <1>6, <1>7, ChainsKept
<1>9. v2' \subseteq NoticesSubscribers
  BY <1>1, NoticesTypes
<1>10. CASE outcome # "shown"
  <2>1. UNCHANGED <<v1, v4, v5, v6, v7, v8>>
    BY <1>1, <1>10
  <2>2. Notices!TypeOK'
    BY <1>8, <1>9, <2>1, NoticesTypes DEF Notices!TypeOK, Notices!News
  <2>. QED
    BY <1>8, <2>1, <2>2, DevicesStay DEF Notices!NoticesInv
<1>11. CASE outcome = "shown"
  <2>1. Notices!Show(d, Head(c.todo)) /\ d \in NoticesSubscribers
    BY <1>1, <1>3, <1>11
  <2>2. /\ v4' \in [NoticesSubscribers -> SUBSET Notices!News]
        /\ v5' \in [NoticesSubscribers -> SUBSET Notices!News]
        /\ Notices!ShownWasTold' /\ Notices!NothingIsHidden' /\ Notices!NewestStays'
        /\ Notices!ClickLands'
        /\ \A e \in NoticesSubscribers : v4'[e] \subseteq v4[e] \union {Head(c.todo)}
    BY <1>1, <2>1, ShowKeepsDevices
  <2>3. v6' = v6 /\ v7' = v7
    BY <2>1 DEF Notices!Show
  <2>4. Notices!TypeOK'
    BY <1>1, <1>8, <1>9, <2>2, <2>3, NoticesTypes DEF Notices!TypeOK, Notices!News
  <2>5. ASSUME NEW n \in v3', NEW e \in NoticesSubscribers, n.of \notin v8 \union {"opens"},
               NEW i \in v4'[e], v1[i].kind = "mail", v1[i].account = n.of,
               NEW k \in DOMAIN n.todo
        PROVE  i <= n.todo[k]
    <3>1. \A x \in v3 : x.of = n.of => \A l \in DOMAIN x.todo : \A y \in v4[e] :
            v1[y].kind = "mail" /\ v1[y].account = n.of => y <= x.todo[l]
      BY <2>5 DEF Notices!NoticesInv, Notices!NothingIsAhead
    <3>2. /\ 1 \in DOMAIN c.todo /\ Head(c.todo) = c.todo[1]
          /\ DOMAIN c.todo = 1 .. Len(c.todo) /\ Len(c.todo) \in Nat
      BY <1>2
    <3>3. /\ \A l \in 1 .. Len(c.todo) : c.todo[l] \in Notices!News
          /\ \A l, m \in 1 .. Len(c.todo) : l < m => c.todo[l] < c.todo[m]
          /\ c.of = "opens" => v1[c.todo[1]].kind = "open"
          /\ c.of # "opens" => v1[c.todo[1]].account = c.of
      BY <3>2, ChainHasNews
    <3>4. ASSUME NEW l \in DOMAIN c.todo PROVE c.todo[1] <= c.todo[l]
      <4>1. c.todo[1] \in Int /\ c.todo[l] \in Int
        BY <3>2, <3>3 DEF Notices!News
      <4>2. l = 1 \/ 1 < l
        BY <3>2
      <4>. QED
        BY <3>2, <3>3, <4>1, <4>2
    <3>5. CASE n \in N
      <4>1. n.of = c.of
        BY <1>7, <3>5
      <4>2. PICK l \in DOMAIN c.todo : n.todo[k] = c.todo[l]
        <5>1. n.todo = c.todo \/ n.todo = Tail(c.todo)
          BY <1>7, <3>5
        <5>2. CASE n.todo = Tail(c.todo)
          <6>1. k \in 1 .. Len(c.todo) - 1 /\ Tail(c.todo)[k] = c.todo[k + 1]
            BY <1>2, <5>2
          <6>2. k + 1 \in DOMAIN c.todo
            BY <3>2, <6>1
          <6>. QED
            BY <5>2, <6>1, <6>2
        <5>. QED
          BY <5>1, <5>2
      <4>. QED
        BY <2>2, <2>5, <3>1, <3>2, <3>4, <4>1, <4>2
    <3>6. CASE n \in v3 /\ n # c
      <4>1. n.of # c.of
        BY <2>5, <3>6 DEF Notices!NoticesInv, Notices!AloneUnlessMixed
      <4>2. i # Head(c.todo)
        BY <2>5, <3>2, <3>3, <4>1
      <4>3. i \in v4[e]
        BY <2>2, <4>2
      <4>. QED
        BY <2>5, <3>1, <3>6, <4>3
    <3>. QED
      BY <1>1, <3>5, <3>6
  <2>6. Notices!NothingIsAhead'
    BY <1>1, <2>5 DEF Notices!NothingIsAhead
  <2>. QED
    BY <1>8, <2>2, <2>4, <2>6 DEF Notices!NoticesInv
<1>. QED
  BY <1>10, <1>11

\* A notice is clicked.
LEMMA ClickKeepsNotices ==
  ASSUME Notices!NoticesInv, NEW d \in NoticesSubscribers, NEW i \in v5[d], NEW goes \in BOOLEAN,
         Notices!NotificationClick(d, i, goes)
  PROVE  Notices!NoticesInv'
<1> DEFINE seen == [shown |-> Notices!InitialViewFromSearch(
                                Notices!SameOriginPath(Notices!Url(i))[2]), of |-> i]
<1>1. /\ v5' = [v5 EXCEPT ![d] = @ \ {i}] /\ v6' = [v6 EXCEPT ![d] = @ \union {i}]
      /\ v7' = v7 \/ v7' = [v7 EXCEPT ![d] = seen]
      /\ UNCHANGED <<v1, v2, v3, v4, v8>>
  BY DEF Notices!NotificationClick
<1>2. /\ v4 \in [NoticesSubscribers -> SUBSET Notices!News]
      /\ v5 \in [NoticesSubscribers -> SUBSET Notices!News]
      /\ v6 \in [NoticesSubscribers -> SUBSET Notices!News]
      /\ v7 \in [NoticesSubscribers ->
                   [shown: {"inbox", "opens"}, of: Notices!News] \union {None}]
      /\ i \in Notices!News
  BY NoticesTypes
<1>3. /\ seen \in [shown: {"inbox", "opens"}, of: Notices!News] /\ seen.of = i
      /\ seen.shown = "opens" <=> v1[i].kind = "open"
  BY <1>2 DEF Notices!InitialViewFromSearch, Notices!SameOriginPath, Notices!Url
<1> HIDE DEF seen
<1>4. /\ v5' \in [NoticesSubscribers -> SUBSET Notices!News]
      /\ v6' \in [NoticesSubscribers -> SUBSET Notices!News]
      /\ \A e \in NoticesSubscribers :
           v5'[e] \subseteq v5[e] /\ v5'[e] \union v6'[e] = v5[e] \union v6[e]
  BY <1>1, <1>2
<1>5. /\ v7' \in [NoticesSubscribers ->
                    [shown: {"inbox", "opens"}, of: Notices!News] \union {None}]
      /\ \A e \in NoticesSubscribers : v7'[e] = v7[e] \/ v7'[e] = seen
  BY <1>1, <1>2, <1>3
<1>6. Notices!TypeOK'
  BY <1>1, <1>4, <1>5, NoticesTypes DEF Notices!TypeOK, Notices!News
<1>7. /\ Notices!ShownWasTold /\ Notices!ChainsAreOrdered /\ Notices!AloneUnlessMixed
      /\ Notices!NothingIsAhead /\ Notices!NothingIsHidden /\ Notices!NewestStays
      /\ Notices!ClickLands
  BY DEF Notices!NoticesInv
<1>8. Notices!ChainsAreOrdered' /\ Notices!AloneUnlessMixed' /\ Notices!NothingIsAhead'
  BY <1>1, <1>7 DEF Notices!ChainsAreOrdered, Notices!AloneUnlessMixed,
                    Notices!NothingIsAhead, Notices!News
<1>9. Notices!ShownWasTold'
  BY <1>1, <1>4, <1>7 DEF Notices!ShownWasTold
<1>10. Notices!NothingIsHidden'
  BY <1>1, <1>4, <1>7 DEF Notices!NothingIsHidden, Notices!Same
<1>11. Notices!NewestStays'
  BY <1>1, <1>4, <1>7 DEF Notices!NewestStays, Notices!Same
<1>12. Notices!ClickLands'
  <2>1. None \notin [shown: {"inbox", "opens"}, of: Nat]
    BY NoticesAssumption
  <2>. QED
    BY <1>1, <1>3, <1>5, <1>7 DEF Notices!ClickLands
<1>. QED
  BY <1>6, <1>8, <1>9, <1>10, <1>11, <1>12 DEF Notices!NoticesInv

\* A device is turned on, or nothing happens.
LEMMA TableKeepsNotices ==
  ASSUME Notices!NoticesInv, UNCHANGED <<v1, v3, v4, v5, v6, v7, v8>>,
         v2' \subseteq NoticesSubscribers
  PROVE  Notices!NoticesInv'
<1>1. Notices!TypeOK'
  BY NoticesTypes DEF Notices!TypeOK, Notices!News
<1>2. Notices!ChainsAreOrdered' /\ Notices!AloneUnlessMixed' /\ Notices!NothingIsAhead'
  BY DEF Notices!NoticesInv, Notices!ChainsAreOrdered, Notices!AloneUnlessMixed,
         Notices!NothingIsAhead, Notices!News
<1>. QED
  BY <1>1, <1>2, DevicesStay DEF Notices!NoticesInv

\* News of one account, or of opens, is what a dispatch may begin with.
LEMMA BeginKeepsNotices ==
  ASSUME Notices!NoticesInv, NEW of \in NoticesAccounts \union {"opens"},
         NEW items \in Seq(Notices!MailItem \union Notices!OpenItem),
         \A k \in 1 .. Len(items) :
           /\ items[k].kind = (IF of = "opens" THEN "open" ELSE "mail")
           /\ of # "opens" => items[k].account = of,
         Notices!Begin(of, items)
  PROVE  Notices!NoticesInv'
<1> DEFINE Item == Notices!MailItem \union Notices!OpenItem
           todo == [k \in 1 .. Len(items) |-> Len(v1) + k]
           new == [of |-> of, subs |-> None, left |-> {}, todo |-> todo]
           old == Len(v1)
           more == Len(items)
           all == Len(v1')
           P == 1 .. NoticesMaxNews
<1>1. /\ old + more <= NoticesMaxNews /\ v1' = v1 \o items
      /\ v3' = IF items = << >> THEN v3 ELSE v3 \union {new}
      /\ v8' = IF of \in NoticesAccounts /\ items # << >> /\ \E c \in v3 : c.of = of
               THEN v8 \union {of} ELSE v8
      /\ UNCHANGED <<v2, v4, v5, v6, v7>>
  BY DEF Notices!Begin, Notices!device
<1>2. /\ v1 \in Seq(Item) /\ items \in Seq(Item) /\ old \in Nat /\ more \in Nat
      /\ NoticesMaxNews \in Nat
  BY NoticesTypes, NoticesAssumption
<1> HIDE DEF Item
<1>3. /\ v1' \in Seq(Item) /\ all = old + more
      /\ \A k \in 1 .. old : v1'[k] = v1[k]
      /\ \A k \in 1 .. more : v1'[old + k] = items[k]
  BY <1>1, <1>2
<1>4. todo \in Seq(P) /\ Len(todo) = more /\ DOMAIN todo = 1 .. more
      /\ \A k \in 1 .. more : todo[k] = old + k
  <2>1. \A k \in 1 .. more : old + k \in P
    <3> HIDE DEF old, more
    <3>. QED
      BY <1>1, <1>2
  <2>2. todo \in [1 .. more -> P]
    BY <2>1
  <2> HIDE DEF P
  <2>3. todo \in Seq(P) /\ Len(todo) = more
    BY <1>2, <2>2
  <2>. QED
    BY <2>3
<1>5. more # 0 <=> items # << >>
  BY <1>2
<1>6. new \in Notices!Chain /\ new.of = of /\ new.todo = todo
  <2> HIDE DEF todo
  <2>. QED
    BY <1>4 DEF Notices!Chain, P
<1>7. Notices!News = 1 .. old /\ Notices!News' = 1 .. all
  BY DEF Notices!News
<1> HIDE DEF old, more, all, todo, new, P
<1>8. Notices!News \subseteq Notices!News' /\ Notices!News \subseteq Nat
      /\ \A i \in Notices!News : v1'[i] = v1[i] /\ i <= old
  <2>1. old \in Nat /\ all \in Nat /\ old <= all
    BY <1>2, <1>3
  <2>2. 1 .. old \subseteq 1 .. all /\ 1 .. old \subseteq Nat /\ \A i \in 1 .. old : i <= old
    BY <2>1
  <2>. QED
    BY <1>3, <1>7, <2>2
<1>9. /\ v4 \in [NoticesSubscribers -> SUBSET Notices!News]
      /\ v5 \in [NoticesSubscribers -> SUBSET Notices!News]
      /\ v6 \in [NoticesSubscribers -> SUBSET Notices!News]
      /\ v7 \in [NoticesSubscribers ->
                   [shown: {"inbox", "opens"}, of: Notices!News] \union {None}]
  BY NoticesTypes
<1>10. Notices!TypeOK'
  <2>1. Len(v1') <= NoticesMaxNews
    BY <1>1, <1>3 DEF all
  <2>2. v8' \subseteq NoticesAccounts
    BY <1>1, NoticesTypes
  <2>3. v3' \subseteq Notices!Chain
    BY <1>1, <1>6, NoticesTypes
  <2>4. /\ v4' \in [NoticesSubscribers -> SUBSET Notices!News']
        /\ v5' \in [NoticesSubscribers -> SUBSET Notices!News']
        /\ v6' \in [NoticesSubscribers -> SUBSET Notices!News']
    BY <1>1, <1>8, <1>9
  <2>5. v7' \in [NoticesSubscribers ->
                   [shown: {"inbox", "opens"}, of: Notices!News'] \union {None}]
    BY <1>1, <1>8, <1>9
  <2>. QED
    BY <1>1, <1>3, <2>1, <2>2, <2>3, <2>4, <2>5, NoticesTypes DEF Notices!TypeOK, Item
<1>11. /\ Notices!ShownWasTold /\ Notices!ChainsAreOrdered /\ Notices!AloneUnlessMixed
       /\ Notices!NothingIsAhead /\ Notices!NothingIsHidden /\ Notices!NewestStays
       /\ Notices!ClickLands
  BY DEF Notices!NoticesInv
<1>12. Notices!ShownWasTold'
  BY <1>1, <1>11 DEF Notices!ShownWasTold
<1>13. ASSUME NEW i \in Notices!News, NEW j \in Notices!News
       PROVE  Notices!Same(i, j)' <=> Notices!Same(i, j)
  BY <1>8, <1>13 DEF Notices!Same
<1>14. ASSUME NEW d \in NoticesSubscribers
       PROVE  /\ v4'[d] = v4[d] /\ v5'[d] = v5[d] /\ v6'[d] = v6[d] /\ v7'[d] = v7[d]
              /\ v4[d] \subseteq Notices!News /\ v5[d] \subseteq Notices!News
              /\ v6[d] \subseteq Notices!News
  BY <1>1, <1>9
<1>15. Notices!NothingIsHidden'
  <2>. SUFFICES ASSUME NEW d \in NoticesSubscribers, NEW i \in v4[d],
                       v1'[i].kind = "open" \/ v1'[i].account \in NoticesShort
       PROVE  \E j \in v5[d] \union v6[d] : Notices!Same(i, j)'
    BY <1>1 DEF Notices!NothingIsHidden
  <2>1. PICK j \in v5[d] \union v6[d] : Notices!Same(i, j)
    BY <1>8, <1>11, <1>14 DEF Notices!NothingIsHidden
  <2>. QED
    BY <1>13, <1>14, <2>1
<1>16. Notices!NewestStays'
  <2>. SUFFICES ASSUME NEW d \in NoticesSubscribers, NEW j \in v5[d], NEW i \in v4[d],
                       Notices!Same(i, j)', v1'[j].kind = "mail", v1'[j].account \notin v8'
       PROVE  i <= j
    BY <1>1 DEF Notices!NewestStays
  <2>1. i \in Notices!News /\ j \in Notices!News /\ v8 \subseteq v8'
    BY <1>1, <1>14
  <2>2. Notices!Same(i, j) /\ v1[j].kind = "mail" /\ v1[j].account \notin v8
    BY <1>8, <1>13, <2>1
  <2>. QED
    BY <1>11, <2>2 DEF Notices!NewestStays
<1>17. Notices!ClickLands'
  <2>. SUFFICES ASSUME NEW d \in NoticesSubscribers, v7[d] # None
       PROVE  v7[d].shown = "opens" <=> v1'[v7[d].of].kind = "open"
    BY <1>1 DEF Notices!ClickLands
  <2>1. v7[d].of \in Notices!News
    BY <1>9
  <2>. QED
    BY <1>8, <1>11, <2>1 DEF Notices!ClickLands
<1>18. CASE items = << >>
  <2>1. v3' = v3 /\ v8' = v8
    BY <1>1, <1>18
  <2>2. all = old
    BY <1>2, <1>3, <1>5, <1>18
  <2>3. Notices!AloneUnlessMixed'
    BY <1>11, <2>1 DEF Notices!AloneUnlessMixed
  <2>4. Notices!ChainsAreOrdered' /\ Notices!NothingIsAhead'
    <3>1. v1' = v1
      BY <1>1, <1>2, <1>18
    <3>. QED
      BY <1>1, <1>11, <2>1, <3>1
         DEF Notices!ChainsAreOrdered, Notices!NothingIsAhead, Notices!News
  <2>. QED
    BY <1>10, <1>11, <1>12, <1>15, <1>16, <1>17, <2>3, <2>4 DEF Notices!NoticesInv
<1>19. CASE items # << >>
  <2>1. v3' = v3 \union {new} /\ v8 \subseteq v8'
    BY <1>1, <1>19
  <2>2. Notices!ChainsAreOrdered'
    <3>. SUFFICES ASSUME NEW c \in v3'
         PROVE  /\ c.todo # << >>
                /\ \A k \in DOMAIN c.todo :
                     /\ c.todo[k] \in Notices!News'
                     /\ \A l \in DOMAIN c.todo : k < l => c.todo[k] < c.todo[l]
                     /\ v1'[c.todo[k]].kind = (IF c.of = "opens" THEN "open" ELSE "mail")
                     /\ c.of # "opens" => v1'[c.todo[k]].account = c.of
      BY DEF Notices!ChainsAreOrdered
    <3>1. CASE c \in v3
      <4>1. /\ c.todo # << >>
            /\ \A k \in DOMAIN c.todo :
                 /\ c.todo[k] \in Notices!News
                 /\ \A l \in DOMAIN c.todo : k < l => c.todo[k] < c.todo[l]
                 /\ v1[c.todo[k]].kind = (IF c.of = "opens" THEN "open" ELSE "mail")
                 /\ c.of # "opens" => v1[c.todo[k]].account = c.of
        BY <1>11, <3>1 DEF Notices!ChainsAreOrdered
      <4>2. ASSUME NEW k \in DOMAIN c.todo
            PROVE  v1'[c.todo[k]] = v1[c.todo[k]] /\ c.todo[k] \in Notices!News'
        BY <1>8, <4>1
      <4>. QED
        BY <4>1, <4>2
    <3>2. CASE c = new
      <4>1. c.of = of /\ c.todo = todo /\ DOMAIN c.todo = 1 .. more
        BY <1>4, <1>6, <3>2
      <4>2. todo # << >>
        <5>1. 1 \in DOMAIN todo
          BY <1>2, <1>4, <1>5, <1>19
        <5>. QED
          BY <5>1
      <4>3. ASSUME NEW k \in 1 .. more
            PROVE  /\ todo[k] \in Notices!News' /\ v1'[todo[k]] = items[k]
                   /\ \A l \in 1 .. more : k < l => todo[k] < todo[l]
        <5>1. todo[k] = old + k /\ old + k \in 1 .. all /\ v1'[old + k] = items[k]
          BY <1>2, <1>3, <1>4
        <5>2. ASSUME NEW l \in 1 .. more, k < l PROVE todo[k] < todo[l]
          BY <1>2, <1>4, <5>1, <5>2
        <5>. QED
          BY <1>7, <5>1, <5>2
      <4>4. \A k \in 1 .. more :
              /\ items[k].kind = (IF of = "opens" THEN "open" ELSE "mail")
              /\ of # "opens" => items[k].account = of
        BY DEF more
      <4>. QED
        BY <4>1, <4>2, <4>3, <4>4
    <3>. QED
      BY <2>1, <3>1, <3>2
  <2>3. Notices!AloneUnlessMixed'
    <3>. SUFFICES ASSUME NEW c \in v3', NEW e \in v3', c.of = e.of,
                         c.of \notin v8' \union {"opens"}
         PROVE  c = e
      BY DEF Notices!AloneUnlessMixed
    <3>1. CASE c \in v3 /\ e \in v3
      BY <1>11, <2>1, <3>1 DEF Notices!AloneUnlessMixed
    <3>2. ASSUME NEW f \in v3, f.of = of, of # "opens" PROVE of \in v8'
      BY <1>1, <1>19, <3>2
    <3>. QED
      BY <1>6, <2>1, <3>1, <3>2
  <2>4. Notices!NothingIsAhead'
    <3>. SUFFICES ASSUME NEW c \in v3', NEW d \in NoticesSubscribers,
                         c.of \notin v8' \union {"opens"}, NEW i \in v4[d],
                         v1'[i].kind = "mail", v1'[i].account = c.of, NEW k \in DOMAIN c.todo
         PROVE  i <= c.todo[k]
      BY <1>1 DEF Notices!NothingIsAhead
    <3>1. v1'[i] = v1[i] /\ i <= old /\ i \in Nat
      BY <1>8, <1>14
    <3>2. CASE c \in v3
      BY <1>11, <2>1, <3>1, <3>2 DEF Notices!NothingIsAhead
    <3>3. CASE c = new
      <4>1. k \in 1 .. more /\ c.todo[k] = old + k
        BY <1>4, <1>6, <3>3
      <4>. QED
        BY <1>2, <3>1, <4>1
    <3>. QED
      BY <2>1, <3>2, <3>3
  <2>. QED
    BY <1>10, <1>11, <1>12, <1>15, <1>16, <1>17, <2>2, <2>3, <2>4 DEF Notices!NoticesInv
<1>. QED
  BY <1>18, <1>19

\* A cycle's new mail.
LEMMA MailKeepsNotices ==
  ASSUME Notices!NoticesInv, NEW account \in NoticesAccounts,
         NEW m \in 0 .. NoticesMaxBatch, NEW batch \in [1 .. m -> Notices!Mail],
         Notices!NotifyNewMail(account, batch)
  PROVE  Notices!NoticesInv'
<1> DEFINE worthy == Notices!At(batch, {k \in DOMAIN batch : Notices!IsRecentEnough(batch[k])})
           items == [k \in DOMAIN worthy |->
                       [kind |-> "mail", account |-> account, thread |-> worthy[k].thread]]
           Item == Notices!MailItem \union Notices!OpenItem
           Mail == Notices!Mail
<1>1. batch \in Seq(Mail)
  <2>1. m \in Nat
    BY NoticesAssumption
  <2>. QED
    BY <2>1
<1>2. Notices!Begin(account, items)
  BY DEF Notices!NotifyNewMail
<1> HIDE DEF Mail
<1>3. worthy \in Seq(Mail)
  BY <1>1, AtIsSeq
<1> HIDE DEF worthy
<1>4. DOMAIN worthy = 1 .. Len(worthy) /\ Len(worthy) \in Nat
  BY <1>3
<1>5. ASSUME NEW k \in 1 .. Len(worthy) PROVE items[k] \in Item
  <2>1. worthy[k] \in Mail
    BY <1>3
  <2>. QED
    BY <1>4, <2>1 DEF Mail, Notices!Mail, Notices!MailItem
<1>6. /\ items \in [1 .. Len(worthy) -> Item]
      /\ \A k \in 1 .. Len(worthy) : items[k].kind = "mail" /\ items[k].account = account
  BY <1>4, <1>5
<1> HIDE DEF Item, items
<1>7. items \in Seq(Item) /\ Len(items) = Len(worthy)
  BY <1>4, <1>6
<1>8. account \in NoticesAccounts \union {"opens"} /\ account # "opens"
  BY NoticesAssumption
<1>. QED
  BY <1>2, <1>6, <1>7, <1>8, BeginKeepsNotices DEF Item

\* The opens of a poll.
LEMMA OpensKeepNotices ==
  ASSUME Notices!NoticesInv, NEW open \in Notices!Open, Notices!NotifyOpens(<<open>>)
  PROVE  Notices!NoticesInv'
<1> DEFINE batch == <<open>>
           worthy == Notices!At(batch, {k \in DOMAIN batch : Notices!ShouldNotifyOpen(batch[k])})
           items == [k \in DOMAIN worthy |-> [kind |-> "open", token |-> worthy[k].token]]
           Item == Notices!MailItem \union Notices!OpenItem
           Open == Notices!Open
<1>1. batch \in Seq(Open)
  OBVIOUS
<1>2. Notices!Begin("opens", items)
  BY DEF Notices!NotifyOpens
<1> HIDE DEF Open, batch
<1>3. worthy \in Seq(Open)
  BY <1>1, AtIsSeq
<1> HIDE DEF worthy
<1>4. DOMAIN worthy = 1 .. Len(worthy) /\ Len(worthy) \in Nat
  BY <1>3
<1>5. ASSUME NEW k \in 1 .. Len(worthy) PROVE items[k] \in Item
  <2>1. worthy[k] \in Open
    BY <1>3
  <2>. QED
    BY <1>4, <2>1 DEF Open, Notices!Open, Notices!OpenItem
<1>6. /\ items \in [1 .. Len(worthy) -> Item]
      /\ \A k \in 1 .. Len(worthy) : items[k].kind = "open"
  BY <1>4, <1>5
<1> HIDE DEF Item, items
<1>7. items \in Seq(Item) /\ Len(items) = Len(worthy)
  BY <1>4, <1>6
<1>. QED
  BY <1>2, <1>6, <1>7, BeginKeepsNotices DEF Item

\* Every step of the dispatches and of the devices.
LEMMA StepKeepsNotices ==
  ASSUME Notices!NoticesInv, [Notices!Next]_(Notices!vars) PROVE Notices!NoticesInv'
<1>1. ASSUME NEW d \in NoticesSubscribers, Notices!Subscribe(d) PROVE Notices!NoticesInv'
  <2>1. UNCHANGED <<v1, v3, v4, v5, v6, v7, v8>> /\ v2' = v2 \union {d}
    BY <1>1 DEF Notices!Subscribe, Notices!device
  <2>. QED
    BY <2>1, NoticesTypes, TableKeepsNotices
<1>2. CASE UNCHANGED Notices!vars
  <2>1. UNCHANGED <<v1, v2, v3, v4, v5, v6, v7, v8>>
    BY <1>2 DEF Notices!vars
  <2>. QED
    BY <2>1, NoticesTypes, TableKeepsNotices
<1>. QED
  BY <1>1, <1>2, MailKeepsNotices, OpensKeepNotices, LoadKeepsNotices, SendKeepsNotices,
     ClickKeepsNotices DEF Notices!Next

\* No notice is hidden by unrelated news, the newest stays, and a click lands.
LEMMA NoticesKeepPromises ==
  ASSUME Notices!NoticesInv
  PROVE  Notices!NothingIsHidden /\ Notices!NewestStays /\ Notices!ClickLands
BY DEF Notices!NoticesInv

-----------------------------------------------------------------------------
(* The desktop shell.                                                      *)

\* Cardinality is the usual one, and Min the smaller of two.
LEMMA SameShellCount == \A S : Shell!Cardinality(S) = Cardinality(S)
  BY DEF Shell!Cardinality, Cardinality

LEMMA SmallerOfTwo ==
  ASSUME NEW x \in Int, NEW y \in Int
  PROVE  Shell!Min({x, y}) \in {x, y} /\ Shell!Min({x, y}) <= y
<1> DEFINE Least(z) == z \in {x, y} /\ \A w \in {x, y} : z <= w
<1>1. Least(x) \/ Least(y)
  OBVIOUS
<1>2. Shell!Min({x, y}) = CHOOSE z \in {x, y} : \A w \in {x, y} : z <= w
  BY DEF Shell!Min
<1>3. Least(Shell!Min({x, y}))
  BY <1>1, <1>2
<1>. QED
  BY <1>3

\* What every step needs of the invariant.
LEMMA ShellTypes ==
  ASSUME Shell!ShellInv
  PROVE  /\ v1 \in 0 .. ShellMaxNow /\ v3 \in ShellMail \union {0}
         /\ DOMAIN v2 \subseteq ShellMail
         /\ \A m \in DOMAIN v2 : v2[m] \in [date: 0 .. ShellMaxNow, seen: BOOLEAN]
         /\ v4 \in {"none", "valid", "lapsed"} /\ v5 \in {"valid", "lapsed", None}
         /\ v6 \in BOOLEAN /\ DOMAIN v7 \subseteq ShellMail
         /\ v8 \in Nat /\ v9 \subseteq ShellMail
         /\ DOMAIN v2 \union v9 \subseteq 1 .. v3
         /\ v10 = FALSE
         /\ v8 <= ShellWaitingLimit
         /\ \A m \in v9 \intersect DOMAIN v2 :
              v1 - v2[m].date <= ShellRecent => m \in DOMAIN v7 /\ v7[m] = v2[m].date
BY DEF Shell!ShellInv, Shell!TypeOK, Shell!NumbersAreGiven, Shell!ShownAreAccounted,
       Shell!AnnouncedAtFirstSight, Shell!WaitersBounded, Shell!IsRecent

\* The first launch.
LEMMA ShellInit == ASSUME Shell!Init PROVE Shell!ShellInv
<1> USE DEF Shell!Init
<1>1. 0 \in 0 .. ShellMaxNow /\ 0 <= ShellWaitingLimit
  BY ShellAssumption
<1>5. DOMAIN v2 = {} /\ DOMAIN v7 = {} /\ v1 = 0 /\ v3 = 0 /\ v5 = None /\ v6 = FALSE
      /\ v8 = 0 /\ v9 = {} /\ v10 = FALSE /\ v4 \in {"none", "valid", "lapsed"}
  OBVIOUS
<1>6. /\ DOMAIN v2 \subseteq ShellMail /\ DOMAIN v7 \subseteq ShellMail
      /\ \A m \in DOMAIN v2 : v2[m] \in [date: 0 .. ShellMaxNow, seen: BOOLEAN]
      /\ v8 \in Nat /\ v9 \subseteq ShellMail
  BY <1>5
<1>2. Shell!TypeOK
  BY <1>1, <1>5, <1>6 DEF Shell!TypeOK
<1>3. Shell!NumbersAreGiven /\ Shell!ShownAreAccounted /\ Shell!AnnouncedAtFirstSight
  BY DEF Shell!NumbersAreGiven, Shell!ShownAreAccounted, Shell!AnnouncedAtFirstSight
<1>4. Shell!WaitersBounded
  BY <1>1 DEF Shell!WaitersBounded
<1>. QED
  BY <1>2, <1>3, <1>4 DEF Shell!ShellInv

\* What a step has to show.
LEMMA ShellKept ==
  ASSUME v1' \in 0 .. ShellMaxNow, v3' \in ShellMail \union {0},
         DOMAIN v2' \subseteq ShellMail,
         \A m \in DOMAIN v2' : v2'[m] \in [date: 0 .. ShellMaxNow, seen: BOOLEAN],
         v4' \in {"none", "valid", "lapsed"}, v5' \in {"valid", "lapsed", None},
         v6' \in BOOLEAN, DOMAIN v7' \subseteq ShellMail,
         v8' \in Nat, v9' \subseteq ShellMail,
         DOMAIN v2' \union v9' \subseteq 1 .. v3',
         v10' = FALSE,
         v8' <= ShellWaitingLimit,
         \A m \in v9' \intersect DOMAIN v2' :
           v1' - v2'[m].date <= ShellRecent => m \in DOMAIN v7' /\ v7'[m] = v2'[m].date
  PROVE  Shell!ShellInv'
<1>1. Shell!TypeOK'
  BY DEF Shell!TypeOK
<1>2. Shell!NumbersAreGiven' /\ Shell!ShownAreAccounted' /\ Shell!AnnouncedAtFirstSight'
  BY DEF Shell!NumbersAreGiven, Shell!ShownAreAccounted, Shell!AnnouncedAtFirstSight,
         Shell!IsRecent
<1>3. Shell!WaitersBounded'
  BY DEF Shell!WaitersBounded
<1>. QED
  BY <1>1, <1>2, <1>3 DEF Shell!ShellInv

\* Steps that leave the mailbox and the watch alone; the clock may go on.
LEMMA QuietKeepsShell ==
  ASSUME Shell!ShellInv, UNCHANGED <<v2, v3, v6, v7, v9, v10>>,
         v1' \in {v1, v1 + 1}, v1' \in 0 .. ShellMaxNow, v8' \in Nat, v8' <= v8,
         v4' \in {"none", "valid", "lapsed"}, v5' \in {"valid", "lapsed", None}
  PROVE  Shell!ShellInv'
<1>1. v8' <= ShellWaitingLimit
  BY ShellTypes, ShellAssumption
<1>2. ASSUME NEW m \in v9' \intersect DOMAIN v2', v1' - v2'[m].date <= ShellRecent
      PROVE  m \in DOMAIN v7' /\ v7'[m] = v2'[m].date
  <2>1. v2[m].date \in 0 .. ShellMaxNow /\ v1 \in 0 .. ShellMaxNow /\ ShellMaxNow \in Nat
        /\ ShellRecent \in Nat
    BY <1>2, ShellTypes, ShellAssumption
  <2>2. v1 - v2[m].date <= ShellRecent
    BY <1>2, <2>1
  <2>. QED
    BY <1>2, <2>2, ShellTypes
<1>. QED
  BY <1>1, <1>2, ShellTypes, ShellKept

\* The mailbox: an arrival gets a number of its own, and a renumbering starts over.
LEMMA MailKeepsShell ==
  ASSUME Shell!ShellInv, NEW mail,
         Shell!Arrive \/ Shell!Renumber \/ Shell!ToggleSeen(mail) \/ Shell!Leave(mail)
  PROVE  Shell!ShellInv'
<1>1. UNCHANGED <<v1, v4, v5, v6, v7, v8, v10>> /\ (~Shell!Renumber => v9' = v9)
  BY DEF Shell!Arrive, Shell!Renumber, Shell!ToggleSeen, Shell!Leave, Shell!watch
<1>2. CASE Shell!Arrive /\ ~Shell!Renumber
  <2> DEFINE n == v3 + 1
  <2>1. n \in ShellMail /\ v3' = n
    BY <1>2 DEF Shell!Arrive
  <2>2. PICK row \in [date: 0 .. ShellMaxNow, seen: BOOLEAN] :
          v2' = [m \in DOMAIN v2 \union {n} |-> IF m = n THEN row ELSE v2[m]]
    BY <1>2 DEF Shell!Arrive
  <2>10. ShellMail \subseteq Nat
    BY ShellAssumption
  <2>12. v3 \in ShellMail \union {0}
    BY ShellTypes
  <2>11. v3 \in Nat
    BY <2>10, <2>12
  <2>3. v3 \in Nat /\ n \in Nat
    BY <2>11
  <2>4. DOMAIN v2 \union v9 \subseteq 1 .. n /\ n \in 1 .. n
    BY <2>3, ShellTypes
  <2>5. n \notin v9
    BY <2>3, ShellTypes
  <2> HIDE DEF n
  <2>6. DOMAIN v2' = DOMAIN v2 \union {n}
    BY <2>2
  <2>7. \A m \in DOMAIN v2' : v2'[m] \in [date: 0 .. ShellMaxNow, seen: BOOLEAN]
    BY <2>2, ShellTypes
  <2>8. ASSUME NEW m \in v9' \intersect DOMAIN v2', v1' - v2'[m].date <= ShellRecent
        PROVE  m \in DOMAIN v7' /\ v7'[m] = v2'[m].date
    <3>1. m # n /\ m \in DOMAIN v2 /\ m \in v9
      BY <1>1, <1>2, <2>5, <2>6, <2>8
    <3>2. v2'[m] = v2[m]
      BY <2>2, <3>1
    <3>. QED
      BY <1>1, <1>2, <2>8, <3>1, <3>2, ShellTypes
  <2>. QED
    BY <1>1, <1>2, <2>1, <2>4, <2>6, <2>7, <2>8, ShellTypes, ShellKept
<1>3. CASE Shell!ToggleSeen(mail) /\ ~Shell!Renumber
  <2>1. mail \in DOMAIN v2 /\ v3' = v3 /\ v2' = [v2 EXCEPT ![mail].seen = ~@]
    BY <1>3 DEF Shell!ToggleSeen
  <2>2. DOMAIN v2' = DOMAIN v2
    BY <2>1
  <2>3. \A m \in DOMAIN v2 : v2'[m] \in [date: 0 .. ShellMaxNow, seen: BOOLEAN]
                             /\ v2'[m].date = v2[m].date
    BY <2>1, ShellTypes
  <2>. QED
    BY <1>1, <1>3, <2>1, <2>2, <2>3, ShellTypes, ShellKept
<1>4. CASE Shell!Leave(mail) /\ ~Shell!Renumber
  <2>1. v3' = v3 /\ v2' = [k \in DOMAIN v2 \ {mail} |-> v2[k]]
    BY <1>4 DEF Shell!Leave
  <2>2. DOMAIN v2' \subseteq DOMAIN v2 /\ \A m \in DOMAIN v2' : v2'[m] = v2[m]
    BY <2>1
  <2>. QED
    BY <1>1, <1>4, <2>1, <2>2, ShellTypes, ShellKept
<1>5. CASE Shell!Renumber
  <2>1. PICK uid \in [DOMAIN v2 -> ShellMail] :
          /\ \A m, k \in DOMAIN v2 : uid[m] = uid[k] => m = k
          /\ v2' = [n \in {uid[m] : m \in DOMAIN v2} |->
                     v2[CHOOSE m \in DOMAIN v2 : uid[m] = n]]
    BY <1>5 DEF Shell!Renumber
  <2>2. /\ v3' \in ShellMail \union {0} /\ v9' = {}
        /\ \A n \in DOMAIN v2' : n <= v3'
    BY <1>5 DEF Shell!Renumber
  <2>3. DOMAIN v2' = {uid[m] : m \in DOMAIN v2}
    BY <2>1
  <2>4. DOMAIN v2' \subseteq ShellMail
    BY <2>1, <2>3
  <2>5. ASSUME NEW n \in DOMAIN v2'
        PROVE  v2'[n] \in [date: 0 .. ShellMaxNow, seen: BOOLEAN]
    <3> DEFINE old == CHOOSE m \in DOMAIN v2 : uid[m] = n
    <3>1. old \in DOMAIN v2
      BY <2>3
    <3>2. v2'[n] = v2[old]
      BY <2>1, <2>3
    <3> HIDE DEF old
    <3>. QED
      BY <3>1, <3>2, ShellTypes
  <2>6. DOMAIN v2' \union v9' \subseteq 1 .. v3'
    <3>1. ShellMail \subseteq Nat \ {0}
      BY ShellAssumption
    <3>2. v3' \in Nat
      BY <2>2, <3>1
    <3>. SUFFICES ASSUME NEW n \in DOMAIN v2' PROVE n \in 1 .. v3'
      BY <2>2
    <3>3. n \in Nat \ {0} /\ n <= v3'
      BY <2>2, <2>4, <3>1
    <3>. QED
      BY <3>2, <3>3
  <2>. QED
    BY <1>1, <2>2, <2>4, <2>5, <2>6, ShellTypes, ShellKept
<1>. QED
  BY <1>2, <1>3, <1>4, <1>5

\* Signed out: the watch forgets, and the next page is a baseline.
LEMMA ForgetKeepsShell ==
  ASSUME Shell!ShellInv, Shell!PollSignedOut \/ Shell!PollRefused PROVE Shell!ShellInv'
<1>1. /\ UNCHANGED <<v1, v2, v3, v4, v8, v10>> /\ v5' \in {v5, None}
      /\ v6' = FALSE /\ v7' = << >> /\ v9' = {}
  BY DEF Shell!PollSignedOut, Shell!PollRefused, Shell!Forget, Shell!mail
<1>2. DOMAIN v7' \subseteq ShellMail
  BY <1>1
<1>. QED
  BY <1>1, <1>2, ShellTypes, ShellKept

\* The rows of a page are rows of the inbox, and what is announced is fresh.
LEMMA PageIsOfInbox ==
  /\ Shell!Page \subseteq DOMAIN v2 /\ Shell!Announced \subseteq Shell!Fresh
  /\ Shell!Fresh \subseteq Shell!Page
BY DEF Shell!Page, Shell!Announced, Shell!Fresh, Shell!Newest

\* A page is folded in.
LEMMA PageKeepsShell == ASSUME Shell!ShellInv, Shell!PollPage PROVE Shell!ShellInv'
<1> DEFINE entered == {m \in Shell!Page : Shell!Enters(m)}
           date == [m \in DOMAIN v7 \union entered |->
                      IF m \in entered THEN v2[m].date ELSE v7[m]]
<1>1. /\ UNCHANGED <<v1, v2, v3, v4>> /\ v5' = None /\ v6' = TRUE
      /\ v7' = [m \in {k \in DOMAIN date : Shell!Kept(date[k])} |-> date[m]]
      /\ v9' = v9 \union Shell!Page
      /\ v10' = (v10 \/ Shell!Announced \intersect v9 # {})
  BY DEF Shell!PollPage, Shell!Accept, Shell!mail
<1>2. v8' = v8 + Shell!Min({Shell!Cardinality(Shell!Announced), Shell!Permits(v8)})
  BY DEF Shell!PollPage
<1>3. Shell!Page \subseteq ShellMail /\ Shell!Announced \subseteq ShellMail
  BY PageIsOfInbox, ShellTypes
<1>4. Shell!Announced \intersect v9 = {}
  <2>. SUFFICES ASSUME NEW m \in Shell!Announced, m \in v9 PROVE FALSE
    OBVIOUS
  <2>1. m \in DOMAIN v2 /\ v1 - v2[m].date <= ShellRecent /\ m \notin DOMAIN v7
    BY PageIsOfInbox DEF Shell!Fresh, Shell!IsRecent
  <2>. QED
    BY <2>1, ShellTypes
<1>5. v10' = FALSE
  BY <1>1, <1>4, ShellTypes
<1>6. v8' \in Nat /\ v8' <= ShellWaitingLimit
  <2> DEFINE told == Cardinality(Shell!Announced)
             free == ShellWaitingLimit - v8
             got == Shell!Min({told, free})
  <2>1. told \in Nat
    <3>1. IsFiniteSet(Shell!Announced)
      BY <1>3, ShellAssumption, FS_Subset
    <3>. QED
      BY <3>1, FS_CardinalityType
  <2>2. v8 \in Nat /\ ShellWaitingLimit \in Nat /\ v8 <= ShellWaitingLimit
    BY ShellAssumption, ShellTypes
  <2>3. v8' = v8 + got
    BY <1>2, SameShellCount DEF Shell!Permits
  <2> HIDE DEF told
  <2>4. free \in Nat /\ v8 + free = ShellWaitingLimit
    BY <2>2
  <2> HIDE DEF free
  <2>5. got \in {told, free} /\ got <= free
    BY <2>1, <2>4, SmallerOfTwo
  <2> HIDE DEF got
  <2>6. got \in Nat
    BY <2>1, <2>4, <2>5
  <2>. QED
    BY <2>2, <2>3, <2>4, <2>5, <2>6
<1>7. entered \subseteq ShellMail /\ DOMAIN date = DOMAIN v7 \union entered
  BY <1>3
<1>8. DOMAIN v7' \subseteq ShellMail
  BY <1>1, <1>7, ShellTypes
<1>9. ASSUME NEW m \in v9' \intersect DOMAIN v2', v1' - v2'[m].date <= ShellRecent
      PROVE  m \in DOMAIN v7' /\ v7'[m] = v2'[m].date
  <2>1. m \in DOMAIN v2 /\ v1 - v2[m].date <= ShellRecent /\ v2'[m] = v2[m]
    BY <1>1, <1>9
  <2>2. m \in DOMAIN date /\ date[m] = v2[m].date
    <3>1. CASE m \in Shell!Page
      <4>1. m \in entered
        BY <2>1, <3>1 DEF Shell!Enters, Shell!IsRecent
      <4>. QED
        BY <4>1
    <3>2. CASE m \notin Shell!Page
      <4>1. m \in v9 /\ m \notin entered
        BY <1>1, <1>9, <3>2
      <4>2. m \in DOMAIN v7 /\ v7[m] = v2[m].date
        BY <2>1, <4>1, ShellTypes
      <4>. QED
        BY <4>1, <4>2
    <3>. QED
      BY <3>1, <3>2
  <2>3. Shell!Kept(date[m])
    BY <2>1, <2>2 DEF Shell!Kept, Shell!IsRecent
  <2> HIDE DEF date
  <2>. QED
    BY <1>1, <2>1, <2>2, <2>3
<1>10. DOMAIN v2' \union v9' \subseteq 1 .. v3'
  BY <1>1, PageIsOfInbox, ShellTypes
<1> HIDE DEF entered, date
<1>11. /\ v9' \subseteq ShellMail /\ v6' \in BOOLEAN
       /\ DOMAIN v2' \subseteq ShellMail /\ v5' \in {"valid", "lapsed", None}
       /\ \A m \in DOMAIN v2' : v2'[m] \in [date: 0 .. ShellMaxNow, seen: BOOLEAN]
       /\ v1' \in 0 .. ShellMaxNow /\ v3' \in ShellMail \union {0}
       /\ v4' \in {"none", "valid", "lapsed"}
  BY <1>1, <1>3, ShellTypes
<1>. QED
  BY <1>5, <1>6, <1>8, <1>9, <1>10, <1>11, ShellKept

\* Every step of the shell and of the mailbox it watches.
LEMMA StepKeepsShell ==
  ASSUME Shell!ShellInv, [Shell!Next]_(Shell!vars) PROVE Shell!ShellInv'
<1>1. CASE Shell!PollSends \/ Shell!PollFails \/ Shell!SignIn \/ Shell!SignOut \/ Shell!Lapse
  <2>1. /\ UNCHANGED <<v1, v2, v3, v6, v7, v8, v9, v10>>
        /\ v4' \in {"none", "valid", "lapsed"}
        /\ v5' \in {v4, v5, None, "lapsed"}
    BY <1>1, ShellTypes
       DEF Shell!PollSends, Shell!PollFails, Shell!SignIn, Shell!SignOut, Shell!Lapse,
           Shell!mail, Shell!watch
  <2>2. v5' \in {"valid", "lapsed", None}
    BY <1>1, ShellTypes
       DEF Shell!PollSends, Shell!PollFails, Shell!SignIn, Shell!SignOut, Shell!Lapse
  <2>. QED
    BY <2>1, <2>2, ShellTypes, QuietKeepsShell
<1>2. CASE Shell!Answer
  <2>1. /\ UNCHANGED <<v1, v2, v3, v4, v5, v6, v7, v9, v10>>
        /\ v8 > 0 /\ v8' = v8 - 1
    BY <1>2 DEF Shell!Answer, Shell!mail, Shell!watch
  <2>2. v8' \in Nat /\ v8' <= v8
    BY <2>1, ShellTypes
  <2>. QED
    BY <2>1, <2>2, ShellTypes, QuietKeepsShell
<1>3. CASE Shell!Clock
  <2>1. UNCHANGED <<v2, v3, v4, v5, v6, v7, v8, v9, v10>> /\ v1 < ShellMaxNow /\ v1' = v1 + 1
    BY <1>3 DEF Shell!Clock, Shell!mail, Shell!watch
  <2>2. v1 \in 0 .. ShellMaxNow /\ ShellMaxNow \in Nat
    BY ShellTypes, ShellAssumption
  <2>3. v1' \in 0 .. ShellMaxNow
    BY <2>1, <2>2
  <2>. QED
    BY <2>1, <2>3, ShellTypes, QuietKeepsShell
<1>4. CASE UNCHANGED Shell!vars
  BY <1>4, ShellTypes, QuietKeepsShell DEF Shell!vars
<1>. QED
  BY <1>1, <1>2, <1>3, <1>4, MailKeepsShell, ForgetKeepsShell, PageKeepsShell DEF Shell!Next

\* A message is announced at first sight or never, by as many threads as there are permits.
LEMMA ShellKeepsPromises ==
  ASSUME Shell!ShellInv PROVE Shell!AnnouncedAtFirstSight /\ Shell!WaitersBounded
BY DEF Shell!ShellInv

-----------------------------------------------------------------------------
(* The tracking service.                                                   *)

\* Moments are numbers.
LEMMA BeaconMoments ==
  ASSUME Beacon!BeaconInv
  PROVE  /\ v1 \in Nat /\ BeaconDedupeWindow \in Nat /\ BeaconPrefetchWindow \in Nat
         /\ \A t \in DOMAIN v2 : t \in BeaconTokens /\ v2[t] \in Nat
         /\ \A h \in v4 : h.at \in Nat /\ h.read \in Nat
         /\ \A o \in v5 : o.at \in Nat /\ o.read \in Nat /\ o.stored \in Nat
BY BeaconAssumption
   DEF Beacon!BeaconInv, Beacon!TypeOK, Beacon!Hit, Beacon!Open

LEMMA BeaconInit == ASSUME Beacon!Init PROVE Beacon!BeaconInv
BY BeaconAssumption
   DEF Beacon!Init, Beacon!BeaconInv, Beacon!TypeOK, Beacon!AnsweredTokensExist,
       Beacon!HitsAreTimed, Beacon!OpensAreTimed, Beacon!KeepsItsDistance, Beacon!Judged

\* The clock goes on.
LEMMA TickKeepsBeacon == ASSUME Beacon!BeaconInv, Beacon!Tick PROVE Beacon!BeaconInv'
<1> USE DEF Beacon!Tick, Beacon!BeaconInv
<1>1. Beacon!TypeOK'
  BY BeaconAssumption DEF Beacon!TypeOK
<1>2. Beacon!HitsAreTimed'
  BY BeaconMoments DEF Beacon!HitsAreTimed, Beacon!Judged, Beacon!ReadByClient
<1>3. Beacon!OpensAreTimed'
  BY BeaconMoments DEF Beacon!OpensAreTimed, Beacon!ReadByClient
<1>4. Beacon!AnsweredTokensExist' /\ Beacon!KeepsItsDistance'
  BY DEF Beacon!AnsweredTokensExist, Beacon!KeepsItsDistance, Beacon!Apart, Beacon!Judged
<1>. QED
  BY <1>1, <1>2, <1>3, <1>4

\* A mint adds rows, all or none, and changes none.
LEMMA MintKeepsBeacon ==
  ASSUME Beacon!BeaconInv, NEW tokens \in SUBSET BeaconTokens, Beacon!Mint(tokens)
  PROVE  Beacon!BeaconInv'
<1> USE DEF Beacon!BeaconInv
<1>1. UNCHANGED <<v1, v4, v5, v6>>
  BY DEF Beacon!Mint
<1>2. /\ DOMAIN v2 \subseteq DOMAIN v2' /\ DOMAIN v2' \subseteq DOMAIN v2 \union tokens
      /\ \A t \in DOMAIN v2' : v2'[t] = IF t \in DOMAIN v2 THEN v2[t] ELSE v1
      /\ v3' \subseteq DOMAIN v2' /\ v3' \subseteq v3 \union tokens
  BY DEF Beacon!Mint, Beacon!InsertTokens, Beacon!AnsweredTokensExist
<1>3. Beacon!TypeOK'
  BY <1>1, <1>2 DEF Beacon!TypeOK
<1>4. \A t \in DOMAIN v2 : t \in DOMAIN v2' /\ v2'[t] = v2[t]
  BY <1>2
<1>5. Beacon!HitsAreTimed' /\ Beacon!OpensAreTimed'
  BY <1>1, <1>4
     DEF Beacon!HitsAreTimed, Beacon!OpensAreTimed, Beacon!Judged, Beacon!ReadByClient
<1>6. Beacon!AnsweredTokensExist' /\ Beacon!KeepsItsDistance'
  BY <1>1, <1>2
     DEF Beacon!AnsweredTokensExist, Beacon!KeepsItsDistance, Beacon!Apart, Beacon!Judged
<1>. QED
  BY <1>3, <1>5, <1>6

\* What a new state of one hit has to satisfy.
FitHit(h) ==
  /\ h \in Beacon!Hit /\ h.token \in DOMAIN v2 /\ h.at <= v1
  /\ h.phase \in {"judged", "counted"} =>
       /\ h.at <= h.read /\ h.read <= v1
       /\ Beacon!ReadByClient(h)
       /\ \A p \in v5 : Beacon!Apart(p, h)

LEMMA HitKeepsBeacon ==
  ASSUME Beacon!BeaconInv, UNCHANGED <<v1, v2, v3, v5>>, v6' \in 0 .. BeaconMaxHits,
         NEW x, v4' \subseteq v4 \union {x}, x \in v4 \/ FitHit(x)
  PROVE  Beacon!BeaconInv'
<1> USE DEF Beacon!BeaconInv, FitHit
<1>1. Beacon!TypeOK'
  BY DEF Beacon!TypeOK
<1>2. Beacon!HitsAreTimed'
  BY DEF Beacon!HitsAreTimed, Beacon!Judged, Beacon!ReadByClient
<1>3. Beacon!OpensAreTimed'
  BY DEF Beacon!OpensAreTimed, Beacon!ReadByClient
<1>4. Beacon!AnsweredTokensExist' /\ Beacon!KeepsItsDistance'
  BY DEF Beacon!AnsweredTokensExist, Beacon!KeepsItsDistance, Beacon!Apart, Beacon!Judged
<1>. QED
  BY <1>1, <1>2, <1>3, <1>4

\* A hit arrives and is clocked,
LEMMA ArriveKeepsBeacon ==
  ASSUME Beacon!BeaconInv, NEW t \in BeaconTokens, NEW by \in BeaconFetchers,
         Beacon!Arrive(t, by)
  PROVE  Beacon!BeaconInv'
<1> DEFINE h == [id |-> v6', token |-> t, by |-> by, phase |-> "arrived", at |-> 0,
                 read |-> 0, class |-> "open"]
<1>1. /\ v4' = v4 \union {h} /\ UNCHANGED <<v1, v2, v3, v5>> /\ t \in DOMAIN v2
      /\ v6' = v6 + 1 /\ v6 < BeaconMaxHits /\ v6 \in 0 .. BeaconMaxHits
  BY DEF Beacon!Arrive, Beacon!BeaconInv, Beacon!TypeOK
<1>2. v6' \in 0 .. BeaconMaxHits /\ v6' \in Nat /\ 0 \in 0 .. BeaconMaxNow /\ 0 <= v1
  BY <1>1, BeaconAssumption, BeaconMoments
<1>3. h \in Beacon!Hit /\ h.token \in DOMAIN v2 /\ h.at <= v1 /\ h.phase = "arrived"
  BY <1>1, <1>2 DEF Beacon!Hit, Beacon!Phases, Beacon!Classes
<1> HIDE DEF h
<1>. QED
  BY <1>1, <1>2, <1>3, HitKeepsBeacon DEF FitHit

LEMMA ClockKeepsBeacon ==
  ASSUME Beacon!BeaconInv, NEW h \in v4, Beacon!Clock(h) PROVE Beacon!BeaconInv'
<1> DEFINE next == [h EXCEPT !.phase = "clocked", !.at = v1]
<1>1. /\ v4' \subseteq v4 \union {next} /\ UNCHANGED <<v1, v2, v3, v5, v6>>
      /\ h \in Beacon!Hit /\ h.token \in DOMAIN v2 /\ v1 \in 0 .. BeaconMaxNow
      /\ v6 \in 0 .. BeaconMaxHits /\ v1 <= v1
  BY BeaconMoments
     DEF Beacon!Clock, Beacon!Change, Beacon!BeaconInv, Beacon!TypeOK, Beacon!HitsAreTimed
<1>2. next \in Beacon!Hit /\ next.token = h.token /\ next.at = v1 /\ next.phase = "clocked"
  BY <1>1 DEF Beacon!Hit, Beacon!Phases
<1> HIDE DEF next
<1>3. FitHit(next)
  BY <1>1, <1>2 DEF FitHit
<1>. QED
  BY <1>1, <1>3, HitKeepsBeacon

\* and looked up: it is dropped, or apart from all that is stored, and taken
\* for a reading only of a client or long enough after the mint.
LEMMA JudgeKeepsBeacon ==
  ASSUME Beacon!BeaconInv, NEW h \in v4, Beacon!Judge(h) PROVE Beacon!BeaconInv'
<1> DEFINE next == [h EXCEPT !.phase = "judged", !.read = v1, !.class = Beacon!ClassifyHit(h)]
<1>1. /\ UNCHANGED <<v1, v2, v3, v5, v6>>
      /\ h \in Beacon!Hit /\ h.token \in DOMAIN v2 /\ v1 \in 0 .. BeaconMaxNow
      /\ v6 \in 0 .. BeaconMaxHits /\ h.at <= v1
      /\ h.at \in Nat /\ v1 \in Nat
  BY BeaconMoments
     DEF Beacon!Judge, Beacon!BeaconInv, Beacon!TypeOK, Beacon!HitsAreTimed
<1>2. CASE v4' \subseteq v4
  BY <1>1, <1>2, HitKeepsBeacon
<1>3. CASE ~(v4' \subseteq v4)
  <2>1. /\ v4' \subseteq v4 \union {next}
        /\ ~Beacon!IsDuplicate(h.at, Beacon!RecentHits(h.token))
    BY <1>3 DEF Beacon!Judge, Beacon!Change
  <2>2. Beacon!ClassifyHit(h) \in Beacon!Classes
    BY DEF Beacon!ClassifyHit, Beacon!Classes
  <2>3. /\ next \in Beacon!Hit /\ next.token = h.token /\ next.at = h.at
        /\ next.read = v1 /\ next.by = h.by /\ next.class = Beacon!ClassifyHit(h)
    BY <1>1, <2>2 DEF Beacon!Hit, Beacon!Phases
  <2> HIDE DEF next
  <2>4. Beacon!ReadByClient(next)
    <3> SUFFICES ASSUME next.class = "open"
                 PROVE  \/ next.by = "client"
                        \/ next.by = "proxy"
                           /\ next.at >= v2[next.token] + BeaconPrefetchWindow
      BY DEF Beacon!ReadByClient
    <3> DEFINE early == h.at - v2[h.token] < BeaconPrefetchWindow
    <3>3. h.by \in {"proxy", "gateway", "contentless", "client"}
      BY <1>1, BeaconAssumption DEF Beacon!Hit
    <3>4. "open" = CASE h.by = "proxy" /\ early -> "prefetch"
                     [] h.by = "gateway" -> "scanner"
                     [] h.by = "contentless" -> "mpp"
                     [] OTHER -> "open"
      BY <2>3 DEF Beacon!ClassifyHit
    <3> HIDE DEF early
    <3>1. h.by = "client" \/ (h.by = "proxy" /\ ~early)
      BY <3>3, <3>4
    <3> USE DEF early
    <3>2. v2[h.token] \in Nat /\ BeaconPrefetchWindow \in Nat
      BY <1>1, BeaconMoments
    <3>. QED
      BY <1>1, <2>3, <3>1, <3>2
  <2>5. ASSUME NEW p \in v5 PROVE Beacon!Apart(p, next)
    <3> SUFFICES ASSUME p.token = h.token
                 PROVE  h.at - p.at >= BeaconDedupeWindow - (v1 - h.at)
      BY <2>3 DEF Beacon!Apart
    <3>1. p.at \in Nat /\ BeaconDedupeWindow \in Nat
      BY BeaconMoments
    <3>2. CASE p.at > v1 - BeaconDedupeWindow
      <4>1. p.at \in Beacon!RecentHits(h.token)
        BY <3>2 DEF Beacon!RecentHits
      <4>2. ~(h.at - p.at < BeaconDedupeWindow)
        BY <2>1, <4>1 DEF Beacon!IsDuplicate
      <4>. QED
        BY <1>1, <3>1, <4>2
    <3>3. CASE ~(p.at > v1 - BeaconDedupeWindow)
      BY <1>1, <3>1, <3>3
    <3>. QED
      BY <3>2, <3>3
  <2>6. v1 <= v1
    BY <1>1
  <2>7. FitHit(next)
    BY <1>1, <2>3, <2>4, <2>5, <2>6 DEF FitHit
  <2>. QED
    BY <1>1, <2>1, <2>7, HitKeepsBeacon
<1>. QED
  BY <1>2, <1>3

LEMMA CountKeepsBeacon ==
  ASSUME Beacon!BeaconInv, NEW h \in v4, Beacon!CountOpens(h) \/ Beacon!Fail(h)
  PROVE  Beacon!BeaconInv'
<1> DEFINE next == [h EXCEPT !.phase = "counted"]
<1>1. /\ UNCHANGED <<v1, v2, v3, v5, v6>>
      /\ h \in Beacon!Hit /\ h.token \in DOMAIN v2 /\ v6 \in 0 .. BeaconMaxHits
      /\ h.at <= v1
  BY DEF Beacon!CountOpens, Beacon!Fail, Beacon!BeaconInv, Beacon!TypeOK, Beacon!HitsAreTimed
<1>2. CASE v4' \subseteq v4
  BY <1>1, <1>2, HitKeepsBeacon
<1>3. CASE ~(v4' \subseteq v4)
  <2>1. v4' \subseteq v4 \union {next} /\ h \in Beacon!Judged
    BY <1>3 DEF Beacon!CountOpens, Beacon!Fail, Beacon!Change, Beacon!Judged
  <2>2. /\ next \in Beacon!Hit /\ next.token = h.token /\ next.at = h.at
        /\ next.read = h.read /\ next.by = h.by /\ next.class = h.class
    BY <1>1 DEF Beacon!Hit, Beacon!Phases
  <2> HIDE DEF next
  <2>3. /\ h.at <= h.read /\ h.read <= v1 /\ Beacon!ReadByClient(h)
        /\ \A p \in v5 : Beacon!Apart(p, h)
    BY <2>1 DEF Beacon!BeaconInv, Beacon!HitsAreTimed, Beacon!KeepsItsDistance
  <2>4. Beacon!ReadByClient(next) /\ \A p \in v5 : Beacon!Apart(p, next)
    BY <2>2, <2>3 DEF Beacon!ReadByClient, Beacon!Apart
  <2>5. FitHit(next)
    BY <1>1, <2>2, <2>3, <2>4 DEF FitHit
  <2>. QED
    BY <1>1, <2>1, <2>5, HitKeepsBeacon
<1>. QED
  BY <1>2, <1>3

\* What is stored now is stored before nothing that was read by now.
LEMMA RecordKeepsBeacon ==
  ASSUME Beacon!BeaconInv, NEW h \in v4, Beacon!RecordOpen(h) PROVE Beacon!BeaconInv'
<1> DEFINE row == [id |-> h.id, token |-> h.token, by |-> h.by, at |-> h.at,
                   read |-> h.read, stored |-> v1, class |-> h.class]
<1> USE DEF Beacon!BeaconInv
<1>1. /\ v4' \subseteq v4 /\ v5' = v5 \union {row} /\ UNCHANGED <<v1, v2, v3, v6>>
      /\ h \in Beacon!Judged /\ v1 \in 0 .. BeaconMaxNow /\ h \in Beacon!Hit
  BY DEF Beacon!RecordOpen, Beacon!Judged, Beacon!TypeOK
<1>2. /\ row \in Beacon!Open /\ row.token = h.token /\ row.at = h.at /\ row.by = h.by
      /\ row.read = h.read /\ row.stored = v1 /\ row.class = h.class
  BY <1>1 DEF Beacon!Open, Beacon!Hit
<1> HIDE DEF row
<1>3. /\ h.token \in DOMAIN v2 /\ h.at <= h.read /\ h.read <= v1 /\ Beacon!ReadByClient(h)
      /\ \A p \in v5 : Beacon!Apart(p, h)
  BY <1>1 DEF Beacon!HitsAreTimed, Beacon!KeepsItsDistance
<1>4. Beacon!TypeOK'
  BY <1>1, <1>2 DEF Beacon!TypeOK
<1>5. Beacon!HitsAreTimed'
  BY <1>1 DEF Beacon!HitsAreTimed, Beacon!Judged, Beacon!ReadByClient
<1>6. Beacon!OpensAreTimed'
  BY <1>1, <1>2, <1>3, BeaconMoments DEF Beacon!OpensAreTimed, Beacon!ReadByClient
<1>7. \A p \in v5 : Beacon!Apart(p, row)
  BY <1>2, <1>3 DEF Beacon!Apart
<1>8. ASSUME NEW x \in Beacon!Judged \union v5 \union {row} PROVE ~(v1 < x.read)
  BY <1>2, <1>3, BeaconMoments DEF Beacon!HitsAreTimed, Beacon!OpensAreTimed, Beacon!Judged
<1>9. \A x \in Beacon!Judged \union v5 \union {row} : Beacon!Apart(row, x)
  BY <1>2, <1>8 DEF Beacon!Apart
<1>10. Beacon!Judged' \subseteq Beacon!Judged
  BY <1>1 DEF Beacon!Judged
<1>11. \A p \in v5' : \A x \in Beacon!Judged' \union v5' : Beacon!Apart(p, x)
  BY <1>1, <1>7, <1>9, <1>10 DEF Beacon!KeepsItsDistance
<1>12. Beacon!KeepsItsDistance'
  BY <1>11 DEF Beacon!KeepsItsDistance, Beacon!Apart
<1>13. Beacon!AnsweredTokensExist'
  BY <1>1 DEF Beacon!AnsweredTokensExist
<1>. QED
  BY <1>4, <1>5, <1>6, <1>12, <1>13

LEMMA StepKeepsBeacon ==
  ASSUME Beacon!BeaconInv, [Beacon!Next]_(Beacon!vars) PROVE Beacon!BeaconInv'
<1>1. CASE UNCHANGED Beacon!vars
  BY <1>1
     DEF Beacon!vars, Beacon!BeaconInv, Beacon!TypeOK, Beacon!AnsweredTokensExist,
         Beacon!HitsAreTimed, Beacon!OpensAreTimed, Beacon!KeepsItsDistance,
         Beacon!Apart, Beacon!Judged, Beacon!ReadByClient
<1>2. CASE Beacon!Next
  BY <1>2, TickKeepsBeacon, MintKeepsBeacon, ArriveKeepsBeacon, ClockKeepsBeacon,
     JudgeKeepsBeacon, CountKeepsBeacon, RecordKeepsBeacon DEF Beacon!Next
<1>. QED
  BY <1>1, <1>2

LEMMA BeaconKeepsPromises ==
  ASSUME Beacon!BeaconInv
  PROVE  /\ Beacon!RepeatsAreDropped
         /\ Beacon!AnsweredTokensExist
         /\ Beacon!OpensAreReadings
<1>1. Beacon!RepeatsAreDropped
  BY DEF Beacon!BeaconInv, Beacon!KeepsItsDistance, Beacon!Apart, Beacon!RepeatsAreDropped
<1>2. Beacon!OpensAreReadings
  BY DEF Beacon!BeaconInv, Beacon!OpensAreTimed, Beacon!ReadByClient, Beacon!OpensAreReadings
<1>. QED
  BY <1>1, <1>2 DEF Beacon!BeaconInv

-----------------------------------------------------------------------------
(* The pixels of sent mail.                                                *)

\* A function that counts up from a to N exists.
StepsTo(N, A) == [1 .. N -> [A -> A]]
LEMMA RecursionExists ==
  ASSUME NEW A, NEW a0 \in A, NEW N \in Nat, NEW g \in StepsTo(N, A)
  PROVE  \E f \in [0 .. N -> A] :
           \A i \in 0 .. N : f[i] = IF i = 0 THEN a0 ELSE g[i][f[i - 1]]
<1> DEFINE Good(f, n) == /\ f \in [0 .. n -> A] /\ f[0] = a0
                         /\ \A i \in 1 .. n : f[i] = g[i][f[i - 1]]
           S == {n \in Nat : n <= N => \E f : Good(f, n)}
<1>1. 0 \in S
  <2>1. Good([i \in 0 .. 0 |-> a0], 0)
    OBVIOUS
  <2>. QED BY <2>1
<1>2. ASSUME NEW n \in Nat, n \in S PROVE n + 1 \in S
  <2>. SUFFICES ASSUME n + 1 <= N PROVE \E f : Good(f, n + 1)
    OBVIOUS
  <2>1. n <= N /\ n + 1 \in 1 .. N
    OBVIOUS
  <2>2. PICK f : Good(f, n)
    BY <1>2, <2>1
  <2> DEFINE h == [i \in 0 .. n + 1 |-> IF i = n + 1 THEN g[n + 1][f[n]] ELSE f[i]]
  <2>3. f[n] \in A /\ g[n + 1][f[n]] \in A
    BY <2>1, <2>2 DEF StepsTo
  <2>4. h \in [0 .. n + 1 -> A] /\ h[0] = a0
    BY <2>2, <2>3
  <2>5. ASSUME NEW i \in 1 .. n + 1 PROVE h[i] = g[i][h[i - 1]]
    <3>1. CASE i = n + 1
      <4>1. i - 1 = n /\ n # n + 1 /\ n \in 0 .. n + 1 /\ i \in 0 .. n + 1
        BY <3>1
      <4>. QED BY <3>1, <4>1
    <3>2. CASE i # n + 1
      <4>1. i \in 1 .. n /\ i - 1 # n + 1 /\ i - 1 \in 0 .. n + 1 /\ i \in 0 .. n + 1
        BY <3>2
      <4>2. h[i] = f[i] /\ h[i - 1] = f[i - 1]
        BY <3>2, <4>1
      <4>. QED BY <2>2, <4>1, <4>2
    <3>. QED BY <3>1, <3>2
  <2>6. Good(h, n + 1)
    BY <2>4, <2>5
  <2>. QED BY <2>6
<1> HIDE DEF S
<1>3. \A n \in Nat : n \in S
  BY <1>1, <1>2, InductNat
<1>4. PICK f : Good(f, N)
  BY <1>3 DEF S
<1>. QED BY <1>4

\* What is left of a body is its parts that are no pixels, and no more of them.
LEMMA StripLeaves ==
  ASSUME NEW S, NEW b \in Seq(S)
  PROVE  /\ Pixel!Strip(b) \in Seq(S) /\ Len(Pixel!Strip(b)) <= Len(b)
         /\ Pixel!Range(Pixel!Strip(b)) = {x \in Pixel!Range(b) : ~Pixel!IsOwnPixel(x)}
<1> DEFINE L == Len(b)
           A == Seq(S)
           g == [i \in 1 .. L |->
                   [s \in A |-> IF Pixel!IsOwnPixel(b[i]) THEN s ELSE Append(s, b[i])]]
           Rec(f) == f = [i \in 0 .. L |-> IF i = 0 THEN << >>
                            ELSE IF Pixel!IsOwnPixel(b[i]) THEN f[i - 1]
                                 ELSE Append(f[i - 1], b[i])]
           t == CHOOSE f : Rec(f)
<1>1. L \in Nat /\ \A i \in 1 .. L : b[i] \in S
  OBVIOUS
<1>2. g \in StepsTo(L, A)
  BY <1>1 DEF StepsTo
<1>3. << >> \in A
  OBVIOUS
<1> HIDE DEF A
<1>4. PICK f \in [0 .. L -> A] : \A i \in 0 .. L : f[i] = IF i = 0 THEN << >> ELSE g[i][f[i - 1]]
  <2> DEFINE none == << >>
  <2>1. none \in A /\ L \in Nat
    BY <1>1, <1>3
  <2> HIDE DEF g, L, none
  <2>2. \E f \in [0 .. L -> A] :
          \A i \in 0 .. L : f[i] = IF i = 0 THEN none ELSE g[i][f[i - 1]]
    BY ONLY <1>2, <2>1, RecursionExists
  <2>. QED BY <2>2 DEF none
<1>5. ASSUME NEW i \in 0 .. L
      PROVE  f[i] = IF i = 0 THEN << >>
                    ELSE IF Pixel!IsOwnPixel(b[i]) THEN f[i - 1] ELSE Append(f[i - 1], b[i])
  <2>1. CASE i = 0
    BY <1>4, <2>1
  <2>2. CASE i # 0
    <3>1. i \in 1 .. L /\ i - 1 \in 0 .. L
      BY <1>1, <2>2
    <3>2. f[i - 1] \in A
      BY <1>4, <3>1
    <3>. QED BY <1>4, <2>2, <3>2
  <2>. QED BY <2>1, <2>2
<1>6. Rec(f)
  <2>1. f = [i \in 0 .. L |-> f[i]]
    BY <1>4
  <2>. QED BY <1>5, <2>1
<1>7. Rec(t)
  BY <1>6
<1>8. Pixel!Strip(b) = t[L]
  BY DEF Pixel!Strip
<1> HIDE DEF t
<1>9. /\ t[0] = << >>
      /\ \A i \in 1 .. L :
           t[i] = IF Pixel!IsOwnPixel(b[i]) THEN t[i - 1] ELSE Append(t[i - 1], b[i])
  <2>1. \A i \in 0 .. L : t[i] = IF i = 0 THEN << >>
                                 ELSE IF Pixel!IsOwnPixel(b[i]) THEN t[i - 1]
                                      ELSE Append(t[i - 1], b[i])
    BY <1>7
  <2>2. \A i \in 1 .. L : i \in 0 .. L /\ i # 0
    BY <1>1
  <2>3. 0 \in 0 .. L
    BY <1>1
  <2>. QED BY <2>1, <2>2, <2>3
<1> HIDE DEF L, g, Rec
<1> DEFINE Own(x) == Pixel!IsOwnPixel(x)
           Rest(n) == {b[i] : i \in {j \in 1 .. n : ~Own(b[j])}}
           Fits(n) == t[n] \in Seq(S) /\ Len(t[n]) <= n /\ Pixel!Range(t[n]) = Rest(n)
           M == {n \in Nat : n <= L => Fits(n)}
<1>10. 0 \in M
  <2>1. << >> \in Seq(S) /\ Len(<< >>) <= 0
    OBVIOUS
  <2>2. Pixel!Range(<< >>) = {} /\ Rest(0) = {}
    BY DEF Pixel!Range
  <2>. QED BY <1>9, <2>1, <2>2
<1>11. ASSUME NEW n \in Nat, n \in M PROVE n + 1 \in M
  <2>. SUFFICES ASSUME n + 1 <= L PROVE Fits(n + 1)
    OBVIOUS
  <2>1. n + 1 \in 1 .. L /\ n <= L /\ (n + 1) - 1 = n
    BY <1>1
  <2>2. Fits(n)
    BY <1>11, <2>1
  <2>3. t[n + 1] = IF Own(b[n + 1]) THEN t[n] ELSE Append(t[n], b[n + 1])
    BY <1>9, <2>1
  <2>4. b[n + 1] \in S
    BY <1>1, <2>1
  <2>5. \A j : j \in 1 .. n + 1 <=> j \in 1 .. n \/ j = n + 1
    OBVIOUS
  <2>6. CASE Own(b[n + 1])
    <3>1. Rest(n + 1) = Rest(n)
      BY <2>5, <2>6
    <3>. QED BY <2>2, <2>3, <2>6, <3>1
  <2>7. CASE ~Own(b[n + 1])
    <3>1. Rest(n + 1) = Rest(n) \union {b[n + 1]}
      BY <2>5, <2>7
    <3> DEFINE s == t[n]
               x == b[n + 1]
    <3>2. s \in Seq(S) /\ x \in S /\ Len(s) <= n
      BY <2>2, <2>4
    <3> HIDE DEF s, x
    <3>3. /\ Append(s, x) \in Seq(S) /\ Len(Append(s, x)) = Len(s) + 1
          /\ DOMAIN s = 1 .. Len(s) /\ DOMAIN Append(s, x) = 1 .. Len(s) + 1
          /\ \A i \in 1 .. Len(s) : Append(s, x)[i] = s[i]
          /\ Append(s, x)[Len(s) + 1] = x
      BY <3>2
    <3>4. Pixel!Range(Append(s, x)) = Pixel!Range(s) \union {x}
      <4>1. Len(s) \in Nat
        BY <3>2
      <4>2. \A j : j \in 1 .. Len(s) + 1 <=> j \in 1 .. Len(s) \/ j = Len(s) + 1
        BY <4>1
      <4>. QED BY <3>3, <4>2 DEF Pixel!Range
    <3>5. Len(Append(s, x)) <= n + 1
      BY <3>2, <3>3
    <3>. QED BY <2>2, <2>3, <2>7, <3>1, <3>3, <3>4, <3>5 DEF s, x
  <2>. QED BY <2>6, <2>7
<1> HIDE DEF M
<1>12. L \in M
  BY <1>1, <1>10, <1>11, InductNat
<1>13. Fits(L)
  BY <1>1, <1>12 DEF M
<1>14. Rest(L) = {x \in Pixel!Range(b) : ~Pixel!IsOwnPixel(x)}
  BY DEF Pixel!Range, L
<1>. QED BY <1>8, <1>13, <1>14 DEF L

\* The instance counts as this module does.
LEMMA PixelsAreCounted ==
  \A S : Pixel!Cardinality(S) = Cardinality(S)
  BY DEF Pixel!Cardinality, Cardinality, Pixel!IsFiniteSet, IsFiniteSet

LEMMA PixelSizes ==
  /\ PixelMaxTokens \in Nat /\ PixelMaxParts \in Nat \ {0} /\ PixelMaxReplies \in Nat
  /\ PixelMe \notin PixelOthers /\ IsFiniteSet(PixelOthers)
BY PixelAssumption

\* A body of a mail is a sequence of parts.
LEMMA BodyIsSeq ==
  ASSUME NEW b \in Pixel!Bodies
  PROVE  /\ b \in Seq({Pixel!Text, Pixel!Picture} \union Pixel!Tokens)
         /\ Len(b) \in 1 .. PixelMaxParts
<1>1. PICK n \in 1 .. PixelMaxParts : b \in [1 .. n -> {Pixel!Text, Pixel!Picture} \union Pixel!Tokens]
  BY DEF Pixel!Bodies
<1>. QED
  BY <1>1, PixelSizes

LEMMA SeqIsBody ==
  ASSUME NEW b \in Seq({Pixel!Text, Pixel!Picture} \union Pixel!Tokens),
         Len(b) \in 1 .. PixelMaxParts
  PROVE  b \in Pixel!Bodies
<1>1. b \in [1 .. Len(b) -> {Pixel!Text, Pixel!Picture} \union Pixel!Tokens]
  OBVIOUS
<1>. QED
  BY <1>1 DEF Pixel!Bodies

\* What is rendered or quoted carries no pixel, and every picture.
LEMMA StripTakesPixels ==
  ASSUME NEW b \in Pixel!Bodies
  PROVE  /\ Pixel!TokensIn(Pixel!Strip(b)) = {}
         /\ Pixel!Strip(b) \in Seq({Pixel!Text, Pixel!Picture} \union Pixel!Tokens)
         /\ Pixel!Picture \in Pixel!Range(b) => Pixel!Picture \in Pixel!Range(Pixel!Strip(b))
<1>1. b \in Seq({Pixel!Text, Pixel!Picture} \union Pixel!Tokens)
  BY BodyIsSeq
<1>2. /\ Pixel!Strip(b) \in Seq({Pixel!Text, Pixel!Picture} \union Pixel!Tokens)
      /\ Pixel!Range(Pixel!Strip(b)) = {x \in Pixel!Range(b) : ~Pixel!IsOwnPixel(x)}
  BY <1>1, StripLeaves
<1>3. Pixel!Picture \notin Pixel!Tokens
  BY PixelSizes DEF Pixel!Picture, Pixel!Tokens
<1>. QED
  BY <1>2, <1>3 DEF Pixel!TokensIn, Pixel!IsOwnPixel

\* Joined, two bodies have the parts of both.
LEMMA JoinedParts ==
  ASSUME NEW S, NEW s \in Seq(S), NEW q \in Seq(S)
  PROVE  /\ s \o q \in Seq(S) /\ Len(s \o q) = Len(s) + Len(q)
         /\ Pixel!Range(s \o q) = Pixel!Range(s) \union Pixel!Range(q)
<1> DEFINE t == s \o q
           m == Len(s)
           n == Len(q)
<1>1. /\ t \in Seq(S) /\ Len(t) = m + n
      /\ \A i \in 1 .. m + n : t[i] = IF i <= m THEN s[i] ELSE q[i - m]
  BY ConcatProperties
<1>2. /\ m \in Nat /\ n \in Nat /\ DOMAIN s = 1 .. m /\ DOMAIN q = 1 .. n
      /\ DOMAIN t = 1 .. m + n
  BY <1>1
<1> HIDE DEF t, m, n
<1>3. ASSUME NEW i \in DOMAIN t PROVE t[i] \in Pixel!Range(s) \union Pixel!Range(q)
  <2>1. CASE i <= m
    BY <1>1, <1>2, <2>1 DEF Pixel!Range
  <2>2. CASE ~(i <= m)
    <3>1. i - m \in DOMAIN q /\ t[i] = q[i - m]
      BY <1>1, <1>2, <2>2
    <3>. QED BY <3>1 DEF Pixel!Range
  <2>. QED BY <2>1, <2>2
<1>4. ASSUME NEW i \in DOMAIN s PROVE s[i] \in Pixel!Range(t)
  <2>1. i \in DOMAIN t /\ t[i] = s[i]
    BY <1>1, <1>2
  <2>. QED BY <2>1 DEF Pixel!Range
<1>5. ASSUME NEW i \in DOMAIN q PROVE q[i] \in Pixel!Range(t)
  <2>1. i + m \in DOMAIN t /\ i + m \in 1 .. m + n /\ ~(i + m <= m) /\ (i + m) - m = i
    BY <1>2
  <2>2. t[i + m] = q[i]
    BY <1>1, <2>1
  <2>. QED BY <2>1, <2>2 DEF Pixel!Range
<1>6. Pixel!Range(t) = Pixel!Range(s) \union Pixel!Range(q)
  BY <1>3, <1>4, <1>5 DEF Pixel!Range
<1>. QED BY <1>1, <1>6 DEF t, m, n

\* The body of a copy carries the token it was made with.
LEMMA TrackedCarriesOne ==
  ASSUME NEW token \in Pixel!Tokens,
         NEW quote \in Seq({Pixel!Text, Pixel!Picture} \union Pixel!Tokens),
         Pixel!TokensIn(quote) = {}, Len(quote) + 2 <= PixelMaxParts
  PROVE  /\ Pixel!Tracked(token, quote) \in Pixel!Bodies
         /\ Pixel!TokensIn(Pixel!Tracked(token, quote)) = {token}
<1> DEFINE All == {Pixel!Text, Pixel!Picture} \union Pixel!Tokens
           s == <<Pixel!Text, token>>
           t == s \o quote
<1>1. Pixel!Text \notin Pixel!Tokens /\ Pixel!Text \in All /\ token \in All
  BY PixelSizes DEF Pixel!Text, Pixel!Tokens
<1>2. s \in Seq(All) /\ Len(s) = 2 /\ quote \in Seq(All) /\ Pixel!Range(s) = {Pixel!Text, token}
  BY <1>1 DEF Pixel!Range
<1>8. t = Pixel!Tracked(token, quote)
  BY DEF Pixel!Tracked
<1> HIDE DEF s, All
<1>4. /\ t \in Seq(All) /\ Len(t) = Len(s) + Len(quote)
      /\ Pixel!Range(t) = Pixel!Range(s) \union Pixel!Range(quote)
  BY <1>2, JoinedParts, ZenonT(60)
<1> HIDE DEF t
<1>6. t \in Pixel!Bodies
  <2>1. Len(quote) \in Nat
    BY <1>2
  <2>2. Len(t) \in 1 .. PixelMaxParts
    BY <1>2, <1>4, <2>1, PixelSizes
  <2>. QED BY <1>4, <2>2, SeqIsBody DEF All
<1>9. Pixel!TokensIn(t) = {token}
  BY <1>1, <1>2, <1>4 DEF Pixel!TokensIn
<1>. QED
  BY <1>6, <1>8, <1>9

LEMMA PixelInit == ASSUME Pixel!Init PROVE Pixel!PixelInv
<1> USE DEF Pixel!Init
<1>1. v2 = << >> /\ v3 = {} /\ v4 = 0 /\ DOMAIN v1 = Pixel!People /\ DOMAIN v2 = {}
  OBVIOUS
<1>2. \A p \in Pixel!People : v1[p] = IF p = PixelMe THEN {} ELSE {[from |-> p, body |-> <<Pixel!Picture>>]}
  BY DEF Pixel!People
<1>3. <<Pixel!Picture>> \in Pixel!Bodies /\ Pixel!TokensIn(<<Pixel!Picture>>) = {}
  <2> DEFINE s == <<Pixel!Picture>>
  <2>1. s \in Seq({Pixel!Text, Pixel!Picture} \union Pixel!Tokens) /\ Len(s) = 1
        /\ DOMAIN s = {1} /\ s[1] = Pixel!Picture
    OBVIOUS
  <2> HIDE DEF s
  <2>2. Pixel!Range(s) = {Pixel!Picture}
    BY <2>1 DEF Pixel!Range
  <2>3. Pixel!Picture \notin Pixel!Tokens /\ 1 \in 1 .. PixelMaxParts
    BY PixelSizes DEF Pixel!Picture, Pixel!Tokens
  <2>. QED BY <2>1, <2>2, <2>3, SeqIsBody DEF Pixel!TokensIn, s
<1>4. \A p \in Pixel!People : \A mail \in v1[p] :
        mail.from = p /\ mail.body \in Pixel!Bodies /\ Pixel!TokensIn(mail.body) = {}
  BY <1>2, <1>3
<1>5. 0 \in 0 .. PixelMaxReplies
  BY PixelSizes
<1>6. Pixel!TypeOK
  BY <1>1, <1>4, <1>5 DEF Pixel!TypeOK
<1>7. Pixel!TokensAreNumbered
  <2>1. Cardinality({}) = 0 /\ 1 .. 0 = {}
    BY FS_EmptySet
  <2>. QED BY <1>1, <2>1, PixelsAreCounted DEF Pixel!TokensAreNumbered
<1>8. Pixel!PixelsAreMinted /\ Pixel!CopiesCarryOnePixel /\ Pixel!OwnReadingIsSilent
  BY <1>1, <1>4 DEF Pixel!PixelsAreMinted, Pixel!CopiesCarryOnePixel,
     Pixel!OwnReadingIsSilent, Pixel!People
<1>. QED
  BY <1>6, <1>7, <1>8 DEF Pixel!PixelInv

\* Recipients get consecutive numbers, each its own.
LineOf(S) == CHOOSE s \in Pixel!Bijection(1 .. Pixel!Cardinality(S), S) : TRUE
PlaceOf(p, S) == CHOOSE i \in DOMAIN LineOf(S) : LineOf(S)[i] = p
LEMMA RecipientsAreNumbered ==
  ASSUME NEW recipients \in SUBSET PixelOthers
  PROVE  /\ Cardinality(recipients) \in Nat
         /\ Len(LineOf(recipients)) = Cardinality(recipients)
         /\ \A p \in recipients : PlaceOf(p, recipients) \in 1 .. Cardinality(recipients)
         /\ \A p, q \in recipients :
              PlaceOf(p, recipients) = PlaceOf(q, recipients) => p = q
         /\ \A i \in 1 .. Cardinality(recipients) :
              \E p \in recipients : PlaceOf(p, recipients) = i
<1> DEFINE n == Cardinality(recipients)
           line == LineOf(recipients)
           at == [p \in recipients |-> PlaceOf(p, recipients)]
<1>1. IsFiniteSet(recipients)
  BY PixelSizes, FS_Subset
<1>2. n \in Nat /\ ExistsBijection(1 .. n, recipients)
  BY <1>1, FS_CardinalityType
<1>3. Pixel!Bijection(1 .. n, recipients) # {}
  BY <1>2
     DEF ExistsBijection, Bijection, Injection, Surjection, IsInjective, Pixel!Bijection,
         Pixel!Injection, Pixel!Surjection, Pixel!IsInjective
<1>4. Pixel!Cardinality(recipients) = n
  BY PixelsAreCounted
<1>5. line \in Pixel!Bijection(1 .. n, recipients)
  BY <1>3, <1>4 DEF LineOf
<1> HIDE DEF n, line
<1>6. /\ line \in [1 .. n -> recipients]
      /\ \A i, j \in 1 .. n : line[i] = line[j] => i = j
      /\ \A p \in recipients : \E i \in 1 .. n : line[i] = p
  BY <1>5 DEF Pixel!Bijection, Pixel!Injection, Pixel!Surjection, Pixel!IsInjective
<1>7. DOMAIN line = 1 .. n /\ Len(line) = n
  BY <1>2, <1>6
<1>8. ASSUME NEW p \in recipients PROVE at[p] \in 1 .. n /\ line[at[p]] = p
  <2>1. at[p] = CHOOSE i \in 1 .. n : line[i] = p
    BY <1>7 DEF PlaceOf, line
  <2>2. \E i \in 1 .. n : line[i] = p
    BY <1>6
  <2>. QED BY <2>1, <2>2
<1>9. at \in [recipients -> 1 .. n]
  BY <1>8
<1>10. ASSUME NEW p \in recipients, NEW q \in recipients, at[p] = at[q] PROVE p = q
  <2>1. line[at[p]] = p /\ line[at[q]] = q
    BY <1>8
  <2>. QED BY <1>10, <2>1
<1>11. ASSUME NEW i \in 1 .. n PROVE at[line[i]] = i /\ line[i] \in recipients
  BY <1>6, <1>8
<1> HIDE DEF at
<1>12. \A i \in 1 .. n : \E p \in recipients : at[p] = i
  BY <1>11
<1>. QED
  BY <1>2, <1>7, <1>8, <1>10, <1>12 DEF n, at, line

\* A send mints the next numbers, one for each recipient, and gives each copy
\* the pixel of its reader.
Mints(token, recipients, quote) ==
  /\ token \in [recipients -> Pixel!Tokens]
  /\ \A p, q \in recipients : token[p] = token[q] => p = q
  /\ \A p \in recipients : token[p] \notin DOMAIN v2
  /\ DOMAIN v2' = DOMAIN v2 \union {token[p] : p \in recipients}
  /\ DOMAIN v2' = 1 .. Cardinality(DOMAIN v2')
  /\ \A t \in DOMAIN v2 : v2'[t] = v2[t]
  /\ \A p \in recipients : v2'[token[p]] = p
  /\ Len(quote) + 2 <= PixelMaxParts
  /\ v1' = [p \in Pixel!People |->
              v1[p] \union {[from |-> PixelMe, body |-> Pixel!Tracked(token[q], quote)] :
                            q \in {q \in recipients : p \in {PixelMe, q}}}]
  /\ UNCHANGED <<v3, v4>>

LEMMA SendMints ==
  ASSUME Pixel!TypeOK, Pixel!TokensAreNumbered,
         NEW recipients \in SUBSET PixelOthers, NEW quote, Pixel!Send(recipients, quote)
  PROVE  \E token : Mints(token, recipients, quote)
<1> DEFINE g == Pixel!Cardinality(DOMAIN v2)
           n == Cardinality(recipients)
           line == LineOf(recipients)
           at == [p \in recipients |-> PlaceOf(p, recipients)]
           token == [p \in recipients |-> g + 1 + PlaceOf(p, recipients) - 1]
           copy == [p \in recipients |-> [from |-> PixelMe, body |-> Pixel!Tracked(token[p], quote)]]
<1>1. /\ n \in Nat /\ Len(line) = n
      /\ at \in [recipients -> 1 .. n]
      /\ \A p, q \in recipients : at[p] = at[q] => p = q
      /\ \A i \in 1 .. n : \E p \in recipients : at[p] = i
  BY RecipientsAreNumbered
<1>2. /\ g + 1 + Len(line) - 1 <= PixelMaxTokens
      /\ Len(quote) + 2 <= PixelMaxParts
      /\ v2' = [t \in DOMAIN v2 \union {token[p] : p \in recipients} |->
                  IF t \in DOMAIN v2 THEN v2[t]
                  ELSE CHOOSE p \in recipients : token[p] = t]
      /\ v1' = [p \in Pixel!People |->
                  IF p = PixelMe THEN v1[p] \union {copy[q] : q \in recipients}
                  ELSE IF p \in recipients THEN v1[p] \union {copy[p]} ELSE v1[p]]
      /\ UNCHANGED <<v3, v4>>
  BY DEF Pixel!Send, LineOf, PlaceOf
<1>3. DOMAIN v2 = 1 .. g
  BY DEF Pixel!TokensAreNumbered
<1>4. \A p \in recipients : token[p] = g + 1 + at[p] - 1
  OBVIOUS
<1>5. DOMAIN token = recipients
  OBVIOUS
<1>6. g \in Nat
  <2>1. DOMAIN v2 \subseteq 1 .. PixelMaxTokens
    BY DEF Pixel!TypeOK, Pixel!Tokens
  <2>2. IsFiniteSet(1 .. PixelMaxTokens)
    BY FS_Interval, PixelSizes
  <2>3. IsFiniteSet(DOMAIN v2)
    BY <2>1, <2>2, FS_Subset
  <2>. QED BY <2>3, FS_CardinalityType, PixelsAreCounted
<1>20. v1' = [p \in Pixel!People |->
                v1[p] \union {[from |-> PixelMe, body |-> Pixel!Tracked(token[q], quote)] :
                              q \in {q \in recipients : p \in {PixelMe, q}}}]
  <2> DEFINE mine(p) == {[from |-> PixelMe, body |-> Pixel!Tracked(token[q], quote)] :
                              q \in {q \in recipients : p \in {PixelMe, q}}}
  <2> HIDE DEF token
  <2>1. \A q \in recipients : copy[q] = [from |-> PixelMe, body |-> Pixel!Tracked(token[q], quote)]
    OBVIOUS
  <2>2. ASSUME NEW p \in Pixel!People
        PROVE  v1'[p] = v1[p] \union mine(p)
    <3>0. v1'[p] = IF p = PixelMe THEN v1[p] \union {copy[q] : q \in recipients}
                  ELSE IF p \in recipients THEN v1[p] \union {copy[p]} ELSE v1[p]
      BY <1>2
    <3>1. CASE p = PixelMe
      <4>1. {copy[q] : q \in recipients} = mine(p)
        BY <2>1, <3>1
      <4>. QED BY <3>0, <3>1, <4>1
    <3>2. CASE p # PixelMe /\ p \in recipients
      <4>1. mine(p) = {copy[p]}
        BY <2>1, <3>2
      <4>. QED BY <3>0, <3>2, <4>1
    <3>3. CASE p # PixelMe /\ p \notin recipients
      <4>1. mine(p) = {}
        BY <3>3
      <4>. QED BY <3>0, <3>3, <4>1
    <3>. QED BY <3>1, <3>2, <3>3
  <2>3. v1' = [p \in Pixel!People |-> v1'[p]]
    BY <1>2
  <2>. QED BY <2>2, <2>3
<1> HIDE DEF g, n, line, at, token, copy
<1>7. g + n <= PixelMaxTokens
  BY <1>1, <1>2, <1>6, PixelSizes
<1>8. \A p \in recipients : at[p] \in 1 .. n /\ token[p] = g + at[p]
  BY <1>1, <1>4, <1>6
<1>9. \A p \in recipients : token[p] \in g + 1 .. g + n
  BY <1>1, <1>6, <1>8
<1>10. token \in [recipients -> Pixel!Tokens]
  <2>1. \A p \in recipients : token[p] \in 1 .. PixelMaxTokens
    BY <1>1, <1>6, <1>7, <1>9, PixelSizes
  <2>2. token = [p \in recipients |-> token[p]]
    BY <1>5 DEF token
  <2>. QED BY <2>1, <2>2 DEF Pixel!Tokens
<1>11. \A p, q \in recipients : token[p] = token[q] => p = q
  BY <1>1, <1>6, <1>8
<1>12. \A p \in recipients : token[p] \notin DOMAIN v2
  BY <1>1, <1>3, <1>6, <1>9
<1>13. \A i \in g + 1 .. g + n : \E p \in recipients : token[p] = i
  <2>1. SUFFICES ASSUME NEW i \in g + 1 .. g + n PROVE \E p \in recipients : token[p] = i
    OBVIOUS
  <2>2. i - g \in 1 .. n
    BY <1>1, <1>6
  <2>3. PICK p \in recipients : at[p] = i - g
    BY <1>1, <2>2
  <2>4. token[p] = i
    BY <1>6, <1>8, <2>3
  <2>. QED BY <2>4
<1>14. {token[p] : p \in recipients} = g + 1 .. g + n
  BY <1>9, <1>13
<1>15. DOMAIN v2' = 1 .. g + n
  <2>1. DOMAIN v2' = DOMAIN v2 \union (g + 1 .. g + n)
    BY <1>2, <1>14
  <2>. QED BY <1>1, <1>3, <1>6, <2>1
<1>16. DOMAIN v2' = 1 .. Cardinality(DOMAIN v2')
  <2>1. g + n \in Nat
    BY <1>1, <1>6
  <2>2. Cardinality(1 .. g + n) = g + n
    <3> DEFINE top == g + n
    <3>1. top \in Nat
      BY <2>1
    <3> HIDE DEF top
    <3>2. Cardinality(1 .. top) = top
      <4>1. CASE top = 0
        <5>1. 1 .. top = {}
          BY <4>1
        <5>. QED BY <4>1, <5>1, FS_EmptySet
      <4>2. CASE top # 0
        BY <3>1, <4>2, FS_Interval
      <4>. QED BY <4>1, <4>2
    <3>. QED BY <3>2 DEF top
  <2>. QED BY <1>15, <2>2
<1>17. \A t \in DOMAIN v2 : v2'[t] = v2[t]
  BY <1>2
<1>18. \A p \in recipients : v2'[token[p]] = p
  <2>1. SUFFICES ASSUME NEW p \in recipients PROVE v2'[token[p]] = p
    OBVIOUS
  <2>2. v2'[token[p]] = CHOOSE q \in recipients : token[q] = token[p]
    BY <1>2, <1>12
  <2>. QED BY <1>11, <2>2
<1>19. DOMAIN v2' = DOMAIN v2 \union {token[p] : p \in recipients}
  BY <1>2
<1>. QED
  BY <1>2, <1>10, <1>11, <1>12, <1>16, <1>17, <1>18, <1>19, <1>20 DEF Mints

\* What every step needs of the invariant.
LEMMA PixelFacts ==
  ASSUME Pixel!PixelInv
  PROVE  /\ DOMAIN v1 = Pixel!People
         /\ \A p \in Pixel!People : \A mail \in v1[p] :
              /\ mail.from \in Pixel!People /\ mail.body \in Pixel!Bodies
              /\ Pixel!TokensIn(mail.body) \subseteq DOMAIN v2
         /\ \A p \in PixelOthers : \A mail \in v1[p] :
              mail.from = PixelMe => \A t \in Pixel!TokensIn(mail.body) : v2[t] = p
         /\ DOMAIN v2 \subseteq Pixel!Tokens /\ \A t \in DOMAIN v2 : v2[t] \in PixelOthers
         /\ DOMAIN v2 = 1 .. Cardinality(DOMAIN v2)
         /\ v3 \subseteq Pixel!Tokens \X Pixel!People /\ v4 \in 0 .. PixelMaxReplies
         /\ \A hit \in v3 : hit[2] # PixelMe
         /\ PixelMe \in Pixel!People /\ PixelOthers \subseteq Pixel!People
BY PixelsAreCounted
   DEF Pixel!PixelInv, Pixel!TypeOK, Pixel!TokensAreNumbered, Pixel!PixelsAreMinted,
       Pixel!CopiesCarryOnePixel, Pixel!OwnReadingIsSilent, Pixel!People

\* What a step has to show.
LEMMA PixelKept ==
  ASSUME DOMAIN v1' = Pixel!People,
         \A p \in Pixel!People : \A mail \in v1'[p] :
            /\ mail.from \in Pixel!People /\ mail.body \in Pixel!Bodies
            /\ Pixel!TokensIn(mail.body) \subseteq DOMAIN v2',
         \A p \in PixelOthers : \A mail \in v1'[p] :
            mail.from = PixelMe => \A t \in Pixel!TokensIn(mail.body) : v2'[t] = p,
         \A t \in DOMAIN v2' : t \in Pixel!Tokens /\ v2'[t] \in PixelOthers,
         DOMAIN v2' = 1 .. Cardinality(DOMAIN v2'),
         v3' \subseteq Pixel!Tokens \X Pixel!People, v4' \in 0 .. PixelMaxReplies,
         \A hit \in v3' : hit[2] # PixelMe
  PROVE  Pixel!PixelInv'
<1>1. Pixel!TypeOK'
  BY DEF Pixel!TypeOK
<1>2. Pixel!TokensAreNumbered'
  BY PixelsAreCounted DEF Pixel!TokensAreNumbered
<1>3. Pixel!PixelsAreMinted'
  BY DEF Pixel!PixelsAreMinted
<1>4. Pixel!CopiesCarryOnePixel' /\ Pixel!OwnReadingIsSilent'
  BY DEF Pixel!CopiesCarryOnePixel, Pixel!OwnReadingIsSilent
<1>. QED
  BY <1>1, <1>2, <1>3, <1>4 DEF Pixel!PixelInv

\* Fetches: of a stripped body there are none.
LEMMA ReadHereKeepsPixel == ASSUME Pixel!PixelInv, Pixel!ReadHere PROVE Pixel!PixelInv'
<1>1. PICK mail \in v1[PixelMe] :
        v3' = v3 \union (Pixel!TokensIn(Pixel!Rendered(mail)) \X {PixelMe})
  BY DEF Pixel!ReadHere
<1>2. Pixel!TokensIn(Pixel!Rendered(mail)) = {}
  <2>1. mail.body \in Pixel!Bodies
    BY PixelFacts
  <2>. QED BY <2>1, StripTakesPixels DEF Pixel!Rendered
<1>3. UNCHANGED <<v1, v2, v3, v4>>
  BY <1>1, <1>2 DEF Pixel!ReadHere
<1>. QED
  BY <1>3, PixelFacts, PixelKept

LEMMA ReadElsewhereKeepsPixel ==
  ASSUME Pixel!PixelInv, NEW p \in PixelOthers, Pixel!ReadElsewhere(p)
  PROVE  Pixel!PixelInv'
<1>1. PICK mail \in v1[p] : v3' = v3 \union (Pixel!TokensIn(mail.body) \X {p})
  BY DEF Pixel!ReadElsewhere
<1>2. UNCHANGED <<v1, v2, v4>>
  BY DEF Pixel!ReadElsewhere
<1>3. Pixel!TokensIn(mail.body) \subseteq Pixel!Tokens /\ p \in Pixel!People /\ p # PixelMe
  BY PixelSizes DEF Pixel!TokensIn, Pixel!People
<1>4. v3' \subseteq Pixel!Tokens \X Pixel!People /\ \A hit \in v3' : hit[2] # PixelMe
  BY <1>1, <1>3, PixelFacts
<1>. QED
  BY <1>2, <1>4, PixelFacts, PixelKept

\* What another client quotes carries the pixels it carried, and is not mine.
LEMMA ReplyElsewhereKeepsPixel ==
  ASSUME Pixel!PixelInv, NEW p \in PixelOthers, NEW to \in Pixel!People \ {p},
         Pixel!ReplyElsewhere(p, to)
  PROVE  Pixel!PixelInv'
<1>1. PICK mail \in v1[p] :
        /\ Len(mail.body) < PixelMaxParts
        /\ v1' = [v1 EXCEPT ![to] = @ \union {[from |-> p, body |-> <<Pixel!Text>> \o mail.body]}]
  BY DEF Pixel!ReplyElsewhere
<1>2. UNCHANGED <<v2, v3>> /\ v4 < PixelMaxReplies /\ v4' = v4 + 1
  BY DEF Pixel!ReplyElsewhere
<1> DEFINE All == {Pixel!Text, Pixel!Picture} \union Pixel!Tokens
           s == <<Pixel!Text>>
           b == mail.body
           new == [from |-> p, body |-> s \o b]
<1>3. b \in Seq(All) /\ Len(b) \in 1 .. PixelMaxParts /\ Pixel!TokensIn(b) \subseteq DOMAIN v2
  BY PixelFacts, BodyIsSeq
<1>4. s \in Seq(All) /\ Len(s) = 1 /\ Pixel!Range(s) = {Pixel!Text} /\ Pixel!Text \notin Pixel!Tokens
  BY PixelSizes DEF Pixel!Range, Pixel!Text, Pixel!Tokens
<1>5. new.from = p /\ new.body = s \o b
  OBVIOUS
<1>6. v1' = [v1 EXCEPT ![to] = @ \union {new}]
  BY <1>1
<1>7. Len(b) < PixelMaxParts
  BY <1>1
<1> HIDE DEF s, b, new, All
<1>18. /\ s \o b \in Seq(All) /\ Len(s \o b) = Len(s) + Len(b)
       /\ Pixel!Range(s \o b) = Pixel!Range(s) \union Pixel!Range(b)
  BY <1>3, <1>4, JoinedParts, ZenonT(60)
<1>8. /\ new.body \in Seq(All) /\ Len(new.body) = Len(s) + Len(b)
      /\ Pixel!Range(new.body) = Pixel!Range(s) \union Pixel!Range(b)
  BY <1>5, <1>18
<1>9. Len(new.body) \in 1 .. PixelMaxParts
  BY <1>3, <1>4, <1>7, <1>8, PixelSizes
<1>10. new.body \in Pixel!Bodies
  BY <1>8, <1>9, SeqIsBody DEF All
<1>11. Pixel!TokensIn(new.body) \subseteq DOMAIN v2
  BY <1>3, <1>4, <1>8 DEF Pixel!TokensIn
<1>12. DOMAIN v1' = Pixel!People /\ p \in Pixel!People /\ p # PixelMe
  BY <1>6, PixelFacts, PixelSizes
<1>13. \A q \in Pixel!People : \A m \in v1'[q] : m \in v1[q] \/ m = new
  BY <1>6, PixelFacts
<1>14. v4' \in 0 .. PixelMaxReplies
  BY <1>2, PixelFacts, PixelSizes
<1>15. \A q \in Pixel!People : \A m \in v1'[q] :
            /\ m.from \in Pixel!People /\ m.body \in Pixel!Bodies
            /\ Pixel!TokensIn(m.body) \subseteq DOMAIN v2'
  BY <1>2, <1>5, <1>10, <1>11, <1>12, <1>13, PixelFacts
<1>16. \A q \in PixelOthers : \A m \in v1'[q] :
            m.from = PixelMe => \A t \in Pixel!TokensIn(m.body) : v2'[t] = q
  BY <1>2, <1>5, <1>12, <1>13, PixelFacts
<1>17. /\ \A t \in DOMAIN v2' : t \in Pixel!Tokens /\ v2'[t] \in PixelOthers
       /\ DOMAIN v2' = 1 .. Cardinality(DOMAIN v2')
       /\ v3' \subseteq Pixel!Tokens \X Pixel!People /\ \A hit \in v3' : hit[2] # PixelMe
  BY <1>2, PixelFacts
<1>. QED
  BY <1>12, <1>14, <1>15, <1>16, <1>17, PixelKept

\* A send gives each copy the pixel of its reader.
LEMMA SendKeepsPixel ==
  ASSUME Pixel!PixelInv, NEW recipients \in SUBSET PixelOthers,
         NEW quote \in Seq({Pixel!Text, Pixel!Picture} \union Pixel!Tokens),
         Pixel!TokensIn(quote) = {}, Pixel!Send(recipients, quote)
  PROVE  Pixel!PixelInv'
<1>0. Pixel!TypeOK /\ Pixel!TokensAreNumbered
  BY DEF Pixel!PixelInv
<1>8. PICK token : Mints(token, recipients, quote)
  BY <1>0, SendMints
<1>1. /\ token \in [recipients -> Pixel!Tokens]
      /\ \A p \in recipients : token[p] \notin DOMAIN v2
      /\ DOMAIN v2' = DOMAIN v2 \union {token[p] : p \in recipients}
      /\ DOMAIN v2' = 1 .. Cardinality(DOMAIN v2')
      /\ \A t \in DOMAIN v2 : v2'[t] = v2[t]
      /\ \A p \in recipients : v2'[token[p]] = p
      /\ Len(quote) + 2 <= PixelMaxParts
      /\ v1' = [p \in Pixel!People |->
                  v1[p] \union {[from |-> PixelMe, body |-> Pixel!Tracked(token[q], quote)] :
                                q \in {q \in recipients : p \in {PixelMe, q}}}]
      /\ UNCHANGED <<v3, v4>>
  BY <1>8 DEF Mints
<1> DEFINE copy(q) == [from |-> PixelMe, body |-> Pixel!Tracked(token[q], quote)]
<1>2. ASSUME NEW q \in recipients
      PROVE  copy(q).from = PixelMe /\ copy(q).body \in Pixel!Bodies
             /\ Pixel!TokensIn(copy(q).body) = {token[q]}
  <2>1. token[q] \in Pixel!Tokens /\ Len(quote) + 2 <= PixelMaxParts
    BY <1>1
  <2>. QED BY <2>1, TrackedCarriesOne
<1>3. ASSUME NEW p \in Pixel!People, NEW m \in v1'[p]
      PROVE  m \in v1[p] \/ \E q \in recipients : p \in {PixelMe, q} /\ m = copy(q)
  BY <1>1, <1>3
<1> HIDE DEF copy
<1>4. ASSUME NEW p \in Pixel!People, NEW m \in v1'[p]
      PROVE  /\ m.from \in Pixel!People /\ m.body \in Pixel!Bodies
             /\ Pixel!TokensIn(m.body) \subseteq DOMAIN v2'
  <2>1. CASE m \in v1[p]
    BY <1>1, <2>1, PixelFacts
  <2>2. CASE m \notin v1[p]
    <3>1. PICK q \in recipients : m = copy(q)
      BY <1>3, <2>2
    <3>2. token[q] \in DOMAIN v2'
      BY <1>1
    <3>. QED BY <1>2, <3>1, <3>2, PixelFacts
  <2>. QED BY <2>1, <2>2
<1>5. ASSUME NEW p \in PixelOthers, NEW m \in v1'[p], m.from = PixelMe,
             NEW t \in Pixel!TokensIn(m.body)
      PROVE  v2'[t] = p
  <2>0. p \in Pixel!People /\ p # PixelMe
    BY PixelFacts, PixelSizes
  <2>1. CASE m \in v1[p]
    <3>1. t \in DOMAIN v2 /\ v2[t] = p
      BY <1>5, <2>0, <2>1, PixelFacts
    <3>. QED BY <1>1, <3>1
  <2>2. CASE m \notin v1[p]
    <3>1. PICK q \in recipients : p \in {PixelMe, q} /\ m = copy(q)
      BY <1>3, <2>0, <2>2
    <3>2. q = p /\ t = token[p]
      BY <1>2, <2>0, <3>1
    <3>. QED BY <1>1, <3>1, <3>2
  <2>. QED BY <2>1, <2>2
<1>6. ASSUME NEW t \in DOMAIN v2' PROVE t \in Pixel!Tokens /\ v2'[t] \in PixelOthers
  <2>1. CASE t \in DOMAIN v2
    BY <1>1, <2>1, PixelFacts
  <2>2. CASE t \notin DOMAIN v2
    <3>1. PICK p \in recipients : t = token[p]
      BY <1>1, <2>2
    <3>. QED BY <1>1, <3>1
  <2>. QED BY <2>1, <2>2
<1>7. /\ DOMAIN v1' = Pixel!People /\ DOMAIN v2' = 1 .. Cardinality(DOMAIN v2')
      /\ v3' \subseteq Pixel!Tokens \X Pixel!People /\ v4' \in 0 .. PixelMaxReplies
      /\ \A hit \in v3' : hit[2] # PixelMe
  BY <1>1, PixelFacts
<1>. QED
  BY <1>4, <1>5, <1>6, <1>7, PixelKept

LEMMA ComposeKeepsPixel ==
  ASSUME Pixel!PixelInv, NEW recipients \in SUBSET PixelOthers,
         Pixel!Compose(recipients) \/ Pixel!Reply(recipients)
  PROVE  Pixel!PixelInv'
<1> DEFINE All == {Pixel!Text, Pixel!Picture} \union Pixel!Tokens
<1>1. << >> \in Seq(All) /\ Pixel!TokensIn(<< >>) = {}
  BY DEF Pixel!TokensIn, Pixel!Range
<1>2. <<Pixel!Text>> \in Seq(All) /\ Pixel!TokensIn(<<Pixel!Text>>) = {}
  BY PixelSizes DEF Pixel!TokensIn, Pixel!Range, Pixel!Text, Pixel!Tokens
<1>3. CASE Pixel!Compose(recipients)
  BY <1>1, <1>3, SendKeepsPixel DEF Pixel!Compose
<1>4. CASE Pixel!Reply(recipients)
  <2>1. PICK mail \in v1[PixelMe], html \in BOOLEAN :
          Pixel!Send(recipients, Pixel!Quote(mail.body, html))
    BY <1>4 DEF Pixel!Reply
  <2>2. mail.body \in Pixel!Bodies
    BY PixelFacts
  <2>3. /\ Pixel!Quote(mail.body, html) \in Seq(All)
        /\ Pixel!TokensIn(Pixel!Quote(mail.body, html)) = {}
    BY <1>2, <2>2, StripTakesPixels DEF Pixel!Quote
  <2>. QED BY <2>1, <2>3, SendKeepsPixel
<1>. QED
  BY <1>3, <1>4

LEMMA StepKeepsPixel ==
  ASSUME Pixel!PixelInv, [Pixel!Next]_(Pixel!vars) PROVE Pixel!PixelInv'
<1>1. CASE UNCHANGED Pixel!vars
  <2>1. UNCHANGED <<v1, v2, v3, v4>>
    BY <1>1 DEF Pixel!vars
  <2>. QED BY <2>1, PixelFacts, PixelKept
<1>2. CASE Pixel!Next
  BY <1>2, ComposeKeepsPixel, ReadHereKeepsPixel, ReadElsewhereKeepsPixel,
     ReplyElsewhereKeepsPixel DEF Pixel!Next
<1>. QED
  BY <1>1, <1>2

LEMMA PixelKeepsPromises ==
  ASSUME Pixel!PixelInv
  PROVE  /\ Pixel!OwnReadingIsSilent
         /\ Pixel!CopiesCarryOnePixel
         /\ Pixel!PicturesSurvive
<1>1. Pixel!PicturesSurvive
  BY PixelFacts, StripTakesPixels DEF Pixel!PicturesSurvive, Pixel!Rendered
<1>. QED
  BY <1>1 DEF Pixel!PixelInv

-----------------------------------------------------------------------------
(* The answer of the follow-ups.  The hits are kept in their order, so a   *)
(* message sent no earlier than the oldest of a full window has all its    *)
(* opens in the window.                                                    *)
LEMMA SameReminderCount ==
  \A S : Reminders!Cardinality(S) = Cardinality(S)
  BY DEF Reminders!Cardinality, Cardinality

\* Nothing has happened.
LEMMA FollowupInit == ASSUME Reminders!Init PROVE Reminders!FollowupInv
<1>1. v1 = 0 /\ v4 = <<>> /\ v5 = None /\ v6 = None /\ v3 = {}
      /\ v2 = [m \in Reminders!Sends |-> None]
  BY DEF Reminders!Init
<1>2. Reminders!TypeOK
  <2>1. v2 \in [Reminders!Sends -> 0 .. RemindersMaxNow \union {None}]
    BY <1>1
  <2>2. v4 \in Seq(Reminders!Event) /\ Len(v4) \in 0 .. RemindersMaxEvents
    BY <1>1, RemindersAssumption
  <2>3. v1 \in 0 .. RemindersMaxNow /\ v3 \subseteq Reminders!Later
    BY <1>1, RemindersAssumption
  <2>. QED
    BY <1>1, <2>1, <2>2, <2>3 DEF Reminders!TypeOK
<1>3. /\ Reminders!HitsInOrder /\ Reminders!HitsAreOfDelivered /\ Reminders!ReadIsPast
      /\ Reminders!SilenceIsReal /\ Reminders!OpenedIsTrue
  BY <1>1 DEF Reminders!HitsInOrder, Reminders!HitsAreOfDelivered, Reminders!ReadIsPast,
              Reminders!SilenceIsReal, Reminders!OpenedIsTrue
<1>. QED
  BY <1>2, <1>3 DEF Reminders!FollowupInv

\* The hits as a sequence, without what an event is.
LEMMA HitsAreListed ==
  ASSUME Reminders!FollowupInv
  PROVE  /\ v4 \in Seq(Reminders!Event) /\ Len(v4) \in Nat
         /\ \A i \in 1 .. Len(v4) : /\ v4[i] \in Reminders!Event
                                    /\ v4[i].at \in 0 .. RemindersMaxNow
<1>1. v4 \in Seq(Reminders!Event)
  BY DEF Reminders!FollowupInv, Reminders!TypeOK
<1>2. Len(v4) \in Nat /\ \A i \in 1 .. Len(v4) : v4[i] \in Reminders!Event
  <2> DEFINE S == Reminders!Event
  <2>1. v4 \in Seq(S)
    BY <1>1
  <2> HIDE DEF S
  <2>2. Len(v4) \in Nat /\ \A i \in 1 .. Len(v4) : v4[i] \in S
    BY <2>1
  <2>. QED
    BY <2>2 DEF S
<1>3. \A e \in Reminders!Event : e.at \in 0 .. RemindersMaxNow
  BY DEF Reminders!Event
<1>. QED
  BY <1>1, <1>2, <1>3

\* What a read shows of the hits: those from its first on, up to where it was read.
FirstShown(upTo) ==
  IF upTo > RemindersLimit THEN upTo - RemindersLimit + 1 ELSE 1
LEMMA WindowShowsTheNewest ==
  ASSUME Reminders!FollowupInv, v5 # None, v5.ok
  PROVE  /\ DOMAIN Reminders!Window(v5) = 1 .. v5.upTo - FirstShown(v5.upTo) + 1
         /\ \A i \in DOMAIN Reminders!Window(v5) :
              /\ FirstShown(v5.upTo) + i - 1 \in 1 .. v5.upTo
              /\ Reminders!Window(v5)[i] = v4[FirstShown(v5.upTo) + i - 1]
         /\ v5.upTo >= RemindersLimit =>
              /\ FirstShown(v5.upTo) \in 1 .. v5.upTo
              /\ Head(Reminders!Window(v5)) = v4[FirstShown(v5.upTo)]
<1> DEFINE S == Reminders!Event
           n == v5.upTo
           m == FirstShown(n)
           W == SubSeq(v4, m, n)
<1>1. /\ n \in Nat /\ n <= Len(v4) /\ Len(v4) \in Nat
      /\ \A i \in 1 .. Len(v4) : v4[i] \in S
  BY HitsAreListed DEF Reminders!FollowupInv, Reminders!ReadIsPast, Reminders!TypeOK
<1>2. Reminders!Window(v5) = W
  BY DEF Reminders!Window, FirstShown
<1>3. /\ m \in Nat \ {0} /\ m <= n + 1
      /\ n >= RemindersLimit => m <= n
  BY <1>1, RemindersAssumption DEF FirstShown
<1> HIDE DEF S, n, m
<1>4. \A i \in m .. n : v4[i] \in S
  BY <1>1, <1>3
<1>5. /\ W \in Seq(S) /\ Len(W) = (IF m <= n THEN n - m + 1 ELSE 0)
      /\ \A i \in 1 .. n - m + 1 : W[i] = v4[m + i - 1]
  BY <1>1, <1>3, <1>4, SubSeqProperties
<1> HIDE DEF W
<1>6. Len(W) = n - m + 1
  BY <1>1, <1>3, <1>5
<1>7. DOMAIN W = 1 .. n - m + 1
  BY <1>5, <1>6
<1>8. \A i \in DOMAIN W : m + i - 1 \in 1 .. n /\ W[i] = v4[m + i - 1]
  BY <1>1, <1>3, <1>5, <1>7
<1>9. n >= RemindersLimit => m \in 1 .. n /\ Head(W) = v4[m]
  <2>. SUFFICES ASSUME n >= RemindersLimit PROVE m \in 1 .. n /\ Head(W) = v4[m]
    OBVIOUS
  <2>1. m \in 1 .. n /\ 1 \in DOMAIN W /\ m + 1 - 1 = m
    BY <1>1, <1>3, <1>7
  <2>2. W[1] = v4[m]
    BY <1>8, <2>1
  <2>3. Head(W) = W[1]
    BY <1>5, <2>1
  <2>. QED
    BY <2>1, <2>2, <2>3
<1>. QED
  BY <1>2, <1>7, <1>8, <1>9 DEF n, m

\* A tally of none is of a message with no open in the window.
LEMMA EmptyTally ==
  ASSUME Reminders!FollowupInv, v5 # None, v5.ok, NEW m \in Reminders!Sends
  PROVE  /\ Reminders!Cardinality(Reminders!Tally(v5, m)) \in Nat
         /\ Reminders!Cardinality(Reminders!Tally(v5, m)) = 0 <=> Reminders!Tally(v5, m) = {}
<1>1. Reminders!Tally(v5, m) \subseteq 1 .. v5.upTo - FirstShown(v5.upTo) + 1
  BY WindowShowsTheNewest DEF Reminders!Tally
<1>2. v5.upTo \in Int /\ FirstShown(v5.upTo) \in Int
  BY RemindersAssumption DEF Reminders!FollowupInv, Reminders!TypeOK, FirstShown
<1>3. IsFiniteSet(Reminders!Tally(v5, m))
  <2> DEFINE top == v5.upTo - FirstShown(v5.upTo) + 1
  <2>1. top \in Int /\ 1 \in Int
    BY <1>2
  <2>2. Reminders!Tally(v5, m) \in SUBSET (1 .. top)
    BY <1>1
  <2> HIDE DEF top
  <2>3. IsFiniteSet(1 .. top)
    BY <2>1, FS_Interval
  <2>. QED
    BY <2>2, <2>3, FS_Subset
<1>. QED
  BY <1>3, FS_CardinalityType, FS_EmptySet, SameReminderCount

\* "Never opened" is said of a message nobody had opened when the hits were read.
LEMMA SilentAnswerIsReal ==
  ASSUME Reminders!FollowupInv, v5 # None, NEW m \in Reminders!Sent,
         Reminders!ClassifyWithEvidence(v5, m) = "never-opened"
  PROVE  \A i \in Reminders!OpensOf(m) : i > v5.upTo
<1>1. Reminders!Classify(v5, m) = "never-opened" /\ ~Reminders!Blind(v5, m)
  BY DEF Reminders!ClassifyWithEvidence
<1>2. v5.ok /\ m \in Reminders!Sends
  BY <1>1 DEF Reminders!Blind, Reminders!Sent, Reminders!FollowupInv, Reminders!TypeOK
<1> DEFINE first == FirstShown(v5.upTo)
<1>3. Reminders!Tally(v5, m) = {}
  <2>1. ~(Reminders!Cardinality(Reminders!Tally(v5, m)) > 1)
        /\ Reminders!Cardinality(Reminders!Tally(v5, m)) # 1
    BY <1>1 DEF Reminders!Classify
  <2>. QED
    BY <1>2, <2>1, EmptyTally
<1>4. SUFFICES ASSUME NEW i \in Reminders!OpensOf(m), ~(i > v5.upTo) PROVE FALSE
  OBVIOUS
<1>5. /\ i \in 1 .. Len(v4) /\ v4[i].message = m /\ v4[i].kind = "open"
      /\ v4[i].who \notin RemindersOwn
  BY DEF Reminders!OpensOf
<1>6. /\ v5.upTo \in Nat /\ v5.upTo <= Len(v4) /\ Len(v4) \in Nat /\ i \in 1 .. v5.upTo
      /\ first \in Nat \ {0}
  BY <1>4, <1>5, HitsAreListed, RemindersAssumption
     DEF Reminders!FollowupInv, Reminders!TypeOK, Reminders!ReadIsPast, FirstShown
<1>7. i < first
  <2>. SUFFICES ASSUME ~(i < first) PROVE FALSE
    OBVIOUS
  <2> DEFINE k == i - first + 1
  <2>1. k \in 1 .. v5.upTo - first + 1 /\ first + k - 1 = i
    BY <1>6
  <2> HIDE DEF k, first
  <2>2. k \in DOMAIN Reminders!Window(v5)
    BY <1>2, <2>1, WindowShowsTheNewest DEF first
  <2>3. Reminders!Window(v5)[k] = v4[i]
    BY <1>2, <2>1, <2>2, WindowShowsTheNewest DEF first
  <2>4. k \in Reminders!Tally(v5, m)
    BY <1>5, <2>2, <2>3 DEF Reminders!Tally
  <2>. QED
    BY <1>3, <2>4
<1>8. v5.upTo >= RemindersLimit
  BY <1>6, <1>7, RemindersAssumption DEF FirstShown
<1>9. first \in 1 .. v5.upTo /\ Head(Reminders!Window(v5)) = v4[first]
  BY <1>2, <1>8, WindowShowsTheNewest
<1> HIDE DEF first
<1>10. Reminders!Horizon(v5) = v4[first].at
  <2>1. ~(v5.upTo < RemindersLimit)
    BY <1>6, <1>8, RemindersAssumption
  <2>. QED
    BY <1>9, <2>1 DEF Reminders!Horizon
<1>11. /\ v4[first].at \in Nat /\ v4[i].at \in Nat /\ v2[m] \in Nat
       /\ v2[m] < v4[i].at /\ v4[i].at <= v4[first].at
  <2>1. first \in 1 .. Len(v4) /\ i <= first
    BY <1>6, <1>7, <1>9
  <2>2. v4[i].at <= v4[first].at
    BY <1>5, <2>1 DEF Reminders!FollowupInv, Reminders!HitsInOrder
  <2>3. v2[m] < v4[i].at
    BY <1>5 DEF Reminders!FollowupInv, Reminders!HitsAreOfDelivered
  <2>4. v2[m] \in 0 .. RemindersMaxNow
    BY <1>2 DEF Reminders!FollowupInv, Reminders!TypeOK, Reminders!Sent
  <2>. QED
    BY <1>5, <2>1, <2>2, <2>3, <2>4, HitsAreListed
<1>12. ~(v2[m] < v4[first].at)
  BY <1>1, <1>10, <1>11, RemindersAssumption DEF Reminders!Blind
<1>. QED
  BY <1>11, <1>12

\* An open that is told is one of the hits.
LEMMA OpenedAnswerIsTrue ==
  ASSUME Reminders!FollowupInv, v5 # None, NEW m \in Reminders!Sent,
         Reminders!ClassifyWithEvidence(v5, m) \in {"opened-no-reply", "opened-repeatedly"}
  PROVE  Reminders!OpensOf(m) # {}
<1>1. Reminders!Classify(v5, m) \in {"opened-no-reply", "opened-repeatedly"}
  BY DEF Reminders!ClassifyWithEvidence
<1>2. m \in Reminders!Sends
  BY DEF Reminders!Sent
<1>3. \/ Reminders!Cardinality(Reminders!Tally(v5, m)) > 1
      \/ Reminders!Cardinality(Reminders!Tally(v5, m)) = 1
  BY <1>1 DEF Reminders!Classify
<1>4. v5.ok
  <2>. SUFFICES ASSUME ~v5.ok PROVE FALSE
    OBVIOUS
  <2>1. Reminders!Tally(v5, m) = {}
    BY DEF Reminders!Tally, Reminders!Window
  <2>2. Reminders!Cardinality(Reminders!Tally(v5, m)) = 0
    BY <2>1, FS_EmptySet, SameReminderCount
  <2>. QED
    BY <1>3, <2>2
<1>5. PICK k \in Reminders!Tally(v5, m) : TRUE
  BY <1>2, <1>3, <1>4, EmptyTally
<1> DEFINE i == FirstShown(v5.upTo) + k - 1
<1>6. i \in 1 .. v5.upTo /\ Reminders!Window(v5)[k] = v4[i]
  BY <1>4, <1>5, WindowShowsTheNewest DEF Reminders!Tally
<1> HIDE DEF i
<1>7. i \in 1 .. Len(v4)
  BY <1>6, HitsAreListed DEF Reminders!FollowupInv, Reminders!ReadIsPast, Reminders!TypeOK
<1>8. i \in Reminders!OpensOf(m)
  BY <1>5, <1>6, <1>7 DEF Reminders!Tally, Reminders!OpensOf
<1>. QED
  BY <1>8

\* Time passes, mail arrives, the opens are read.
LEMMA TickKeepsFollowup ==
  ASSUME Reminders!FollowupInv, Reminders!Tick PROVE Reminders!FollowupInv'
<1>1. v1 \in Nat /\ v1 + 1 \in 0 .. RemindersMaxNow /\ v1' = v1 + 1
      /\ UNCHANGED <<v2, v3, v4, v5, v6>>
  BY RemindersAssumption DEF Reminders!Tick, Reminders!FollowupInv, Reminders!TypeOK
<1>2. Reminders!TypeOK' /\ Reminders!HitsAreOfDelivered' /\ Reminders!ReadIsPast'
      /\ Reminders!SilenceIsReal' /\ Reminders!OpenedIsTrue'
  BY <1>1 DEF Reminders!FollowupInv, Reminders!TypeOK, Reminders!HitsAreOfDelivered,
              Reminders!ReadIsPast, Reminders!SilenceIsReal, Reminders!OpenedIsTrue,
              Reminders!OpensOf, Reminders!Sent
<1>3. Reminders!HitsInOrder'
  <2>1. \A i \in 1 .. Len(v4) : v4[i].at <= v1 + 1
    <3>. SUFFICES ASSUME NEW i \in 1 .. Len(v4) PROVE v4[i].at <= v1 + 1
      OBVIOUS
    <3>1. v4[i].at <= v1 /\ v4[i].at \in Nat
      BY HitsAreListed, RemindersAssumption DEF Reminders!FollowupInv, Reminders!HitsInOrder
    <3>. QED
      BY <1>1, <3>1
  <2>. QED
    BY <1>1, <2>1 DEF Reminders!FollowupInv, Reminders!HitsInOrder
<1>. QED
  BY <1>2, <1>3 DEF Reminders!FollowupInv

LEMMA ArriveKeepsFollowup ==
  ASSUME Reminders!FollowupInv, NEW account \in RemindersAccounts,
         NEW t \in RemindersThreads, NEW from \in Reminders!People,
         Reminders!Arrive(account, t, from)
  PROVE  Reminders!FollowupInv'
<1>1. v3' = v3 \union {[account |-> account, thread |-> t, from |-> from, at |-> v1]}
      /\ UNCHANGED <<v1, v2, v4, v5, v6>>
  BY DEF Reminders!Arrive
<1>2. v3' \subseteq Reminders!Later
  BY <1>1 DEF Reminders!FollowupInv, Reminders!TypeOK, Reminders!Later
<1>. QED
  BY <1>1, <1>2
     DEF Reminders!FollowupInv, Reminders!TypeOK, Reminders!HitsInOrder,
         Reminders!HitsAreOfDelivered, Reminders!ReadIsPast, Reminders!SilenceIsReal,
         Reminders!OpenedIsTrue, Reminders!OpensOf, Reminders!Sent

LEMMA FetchKeepsFollowup ==
  ASSUME Reminders!FollowupInv, NEW ok \in BOOLEAN, Reminders!FetchOpens(ok)
  PROVE  Reminders!FollowupInv'
<1>1. v5' = [ok |-> ok, upTo |-> Len(v4)] /\ UNCHANGED <<v1, v2, v3, v4, v6>>
  BY DEF Reminders!FetchOpens
<1>2. Len(v4) \in 0 .. RemindersMaxEvents /\ Len(v4) <= Len(v4)
  BY RemindersAssumption DEF Reminders!FollowupInv, Reminders!TypeOK
<1>3. v5'.ok \in BOOLEAN /\ v5'.upTo = Len(v4)
  BY <1>1
<1>4. Reminders!TypeOK'
  BY <1>1, <1>2, <1>3 DEF Reminders!FollowupInv, Reminders!TypeOK
<1>5. Reminders!ReadIsPast'
  BY <1>1, <1>2, <1>3 DEF Reminders!FollowupInv, Reminders!ReadIsPast, Reminders!Sent
<1>. QED
  BY <1>1, <1>4, <1>5
     DEF Reminders!FollowupInv, Reminders!HitsInOrder, Reminders!HitsAreOfDelivered,
         Reminders!SilenceIsReal, Reminders!OpenedIsTrue, Reminders!OpensOf, Reminders!Sent

\* A message is sent once, and keeps its time.
LEMMA SendKeepsFollowup ==
  ASSUME Reminders!FollowupInv, NEW m \in Reminders!Sends, Reminders!Send(m)
  PROVE  Reminders!FollowupInv'
<1>1. /\ v2[m] = None /\ v2' = [v2 EXCEPT ![m] = v1]
      /\ UNCHANGED <<v1, v3, v4, v5, v6>>
      /\ v2 \in [Reminders!Sends -> 0 .. RemindersMaxNow \union {None}]
      /\ v1 \in 0 .. RemindersMaxNow
  BY DEF Reminders!Send, Reminders!FollowupInv, Reminders!TypeOK
<1>2. Reminders!Sent \subseteq Reminders!Sent' /\ m \notin Reminders!Sent
      /\ \A s \in Reminders!Sent : v2'[s] = v2[s]
  BY <1>1 DEF Reminders!Sent
<1>3. v2' \in [Reminders!Sends -> 0 .. RemindersMaxNow \union {None}]
  BY <1>1
<1>4. Reminders!TypeOK'
  BY <1>1, <1>3 DEF Reminders!FollowupInv, Reminders!TypeOK
<1>5. Reminders!HitsAreOfDelivered'
  BY <1>1, <1>2 DEF Reminders!FollowupInv, Reminders!HitsAreOfDelivered
<1>6. Reminders!ReadIsPast'
  BY <1>1, <1>2 DEF Reminders!FollowupInv, Reminders!ReadIsPast
<1>. QED
  BY <1>1, <1>4, <1>5, <1>6
     DEF Reminders!FollowupInv, Reminders!HitsInOrder, Reminders!SilenceIsReal,
         Reminders!OpenedIsTrue, Reminders!OpensOf

\* A hit is the newest there is.
LEMMA HitKeepsFollowup ==
  ASSUME Reminders!FollowupInv, NEW m \in Reminders!Sends, NEW who \in Reminders!People,
         NEW kind \in {"open", "prefetch"}, Reminders!Hit(m, who, kind)
  PROVE  Reminders!FollowupInv'
<1> DEFINE e == [message |-> m, who |-> who, kind |-> kind, at |-> v1]
           n == Len(v4)
<1>1. /\ v4' = Append(v4, e) /\ n < RemindersMaxEvents
      /\ m \in Reminders!Sent /\ v2[m] < v1
      /\ UNCHANGED <<v1, v2, v3, v5, v6>>
  BY DEF Reminders!Hit
<1>2. v1 \in 0 .. RemindersMaxNow /\ v1 \in Nat
  BY RemindersAssumption DEF Reminders!FollowupInv, Reminders!TypeOK
<1>3. e \in Reminders!Event /\ e.at = v1 /\ e.message = m
  BY <1>2 DEF Reminders!Event
<1>4. /\ v4' \in Seq(Reminders!Event) /\ Len(v4') = n + 1
      /\ \A i \in 1 .. n : v4'[i] = v4[i]
      /\ v4'[n + 1] = e
  <2> DEFINE S == Reminders!Event
  <2>1. v4 \in Seq(S) /\ e \in S
    BY <1>3, HitsAreListed
  <2> HIDE DEF S, e
  <2>2. /\ Append(v4, e) \in Seq(S) /\ Len(Append(v4, e)) = n + 1
        /\ \A i \in 1 .. n : Append(v4, e)[i] = v4[i]
        /\ Append(v4, e)[n + 1] = e
    BY <2>1, AppendProperties
  <2>. QED
    BY <1>1, <2>2 DEF S
<1>5. n \in Nat /\ n + 1 \in 0 .. RemindersMaxEvents
  BY <1>1, HitsAreListed, RemindersAssumption
<1> HIDE DEF e, n
<1>6. Reminders!TypeOK'
  BY <1>1, <1>4, <1>5 DEF Reminders!FollowupInv, Reminders!TypeOK
<1>7. \A i \in 1 .. n + 1 : i \in 1 .. n \/ i = n + 1
  BY <1>5
<1>8. ASSUME NEW i \in 1 .. n PROVE /\ v4[i].at <= v1 /\ v4[i].message \in Reminders!Sent
                                    /\ v2[v4[i].message] < v4[i].at
  BY DEF n, Reminders!FollowupInv, Reminders!HitsInOrder, Reminders!HitsAreOfDelivered
<1>9. ASSUME NEW i \in 1 .. n + 1
      PROVE  /\ v4'[i].at <= v1 /\ v4'[i].message \in Reminders!Sent
             /\ v2[v4'[i].message] < v4'[i].at
  <2>1. CASE i \in 1 .. n
    BY <1>4, <1>8, <2>1
  <2>2. CASE i = n + 1
    <3>1. v4'[i] = e /\ v1 <= v1
      BY <1>2, <1>4, <2>2
    <3>. QED
      BY <1>1, <1>3, <3>1
  <2>. QED
    BY <1>7, <2>1, <2>2
<1>10. ASSUME NEW i \in 1 .. n + 1, NEW j \in 1 .. n + 1, i <= j
       PROVE  v4'[i].at <= v4'[j].at
  <2>1. CASE j = n + 1
    <3>1. v4'[j].at = v1
      BY <1>3, <1>4, <2>1
    <3>. QED
      BY <1>9, <3>1
  <2>2. CASE j \in 1 .. n
    <3>1. i \in 1 .. n
      BY <1>5, <1>10, <2>2
    <3>2. v4[i].at <= v4[j].at
      BY <1>10, <2>2, <3>1 DEF n, Reminders!FollowupInv, Reminders!HitsInOrder
    <3>. QED
      BY <1>4, <2>2, <3>1, <3>2
  <2>. QED
    BY <1>7, <2>1, <2>2
<1>11. Reminders!HitsInOrder'
  BY <1>1, <1>4, <1>9, <1>10 DEF Reminders!HitsInOrder
<1>12. Reminders!HitsAreOfDelivered'
  <2>1. Reminders!Sent' = Reminders!Sent
    BY <1>1 DEF Reminders!Sent
  <2>. QED
    BY <1>1, <1>4, <1>9, <2>1 DEF Reminders!HitsAreOfDelivered
<1>13. Reminders!ReadIsPast'
  <2>1. v5 # None => v5.upTo \in Nat /\ v5.upTo <= n
    BY DEF n, Reminders!FollowupInv, Reminders!ReadIsPast, Reminders!TypeOK
  <2>2. v5 # None => v5.upTo <= n + 1
    BY <1>5, <2>1
  <2>3. v6 # None => v6.upTo \in 0 .. n /\ DOMAIN v6.state \subseteq Reminders!Sent
    BY DEF n, Reminders!FollowupInv, Reminders!ReadIsPast
  <2>4. \A u \in 0 .. n : u \in 0 .. n + 1
    BY <1>5
  <2>. QED
    BY <1>1, <1>4, <2>2, <2>3, <2>4 DEF Reminders!ReadIsPast, Reminders!Sent
<1>14. \A s : /\ Reminders!OpensOf(s) \subseteq Reminders!OpensOf(s)'
              /\ \A i \in Reminders!OpensOf(s)' : i \in Reminders!OpensOf(s) \/ i = n + 1
  <2>. SUFFICES ASSUME NEW s
                PROVE  /\ Reminders!OpensOf(s) \subseteq Reminders!OpensOf(s)'
                       /\ \A i \in Reminders!OpensOf(s)' :
                            i \in Reminders!OpensOf(s) \/ i = n + 1
    OBVIOUS
  <2>1. \A i \in 1 .. n : i \in 1 .. n + 1
    BY <1>5
  <2>2. Reminders!OpensOf(s) =
          {i \in 1 .. n : /\ v4[i].message = s
                          /\ v4[i].kind = "open" /\ v4[i].who \notin RemindersOwn}
    BY DEF Reminders!OpensOf, n
  <2>3. Reminders!OpensOf(s)' =
          {i \in 1 .. n + 1 : /\ v4'[i].message = s
                              /\ v4'[i].kind = "open" /\ v4'[i].who \notin RemindersOwn}
    BY <1>4 DEF Reminders!OpensOf
  <2>. QED
    BY <1>4, <1>7, <2>1, <2>2, <2>3
<1>15. Reminders!SilenceIsReal'
  <2>. SUFFICES ASSUME v6 # None, NEW s \in DOMAIN v6.state,
                       v6.state[s] = "never-opened", NEW i \in Reminders!OpensOf(s)'
                PROVE  i > v6.upTo
    BY <1>1 DEF Reminders!SilenceIsReal
  <2>1. CASE i \in Reminders!OpensOf(s)
    BY <2>1 DEF Reminders!FollowupInv, Reminders!SilenceIsReal
  <2>2. CASE i = n + 1
    <3>1. v6.upTo \in 0 .. n
      BY DEF n, Reminders!FollowupInv, Reminders!ReadIsPast
    <3>. QED
      BY <1>5, <2>2, <3>1
  <2>. QED
    BY <1>14, <2>1, <2>2
<1>16. Reminders!OpenedIsTrue'
  BY <1>1, <1>14 DEF Reminders!FollowupInv, Reminders!OpenedIsTrue
<1>. QED
  BY <1>6, <1>11, <1>12, <1>13, <1>15, <1>16 DEF Reminders!FollowupInv

\* The answer goes by what was read.
LEMMA AnswerKeepsFollowup ==
  ASSUME Reminders!FollowupInv, Reminders!Answer PROVE Reminders!FollowupInv'
<1> DEFINE answer == [upTo |-> v5.upTo,
                      state |-> [m \in Reminders!Sent |->
                                   Reminders!ClassifyWithEvidence(v5, m)]]
<1>1. v5 # None /\ v6' = answer /\ v5' = None /\ UNCHANGED <<v1, v2, v3, v4>>
  BY DEF Reminders!Answer
<1>2. /\ answer.upTo = v5.upTo /\ DOMAIN answer.state = Reminders!Sent
      /\ \A m \in Reminders!Sent :
           answer.state[m] = Reminders!ClassifyWithEvidence(v5, m)
  OBVIOUS
<1> HIDE DEF answer
<1>3. \A m \in Reminders!Sent : answer.state[m] \in Reminders!States
  <2>. SUFFICES ASSUME NEW m \in Reminders!Sent
                PROVE  Reminders!ClassifyWithEvidence(v5, m) \in Reminders!States
    BY <1>2
  <2>1. Reminders!Classify(v5, m) \in Reminders!States
    <3>1. CASE Reminders!HasReply(m)
      BY <3>1 DEF Reminders!Classify, Reminders!States
    <3>2. CASE ~Reminders!HasReply(m) /\ Reminders!Cardinality(Reminders!Tally(v5, m)) > 1
      BY <3>2 DEF Reminders!Classify, Reminders!States
    <3>3. CASE ~Reminders!HasReply(m) /\ Reminders!Cardinality(Reminders!Tally(v5, m)) = 1
      BY <3>3 DEF Reminders!Classify, Reminders!States
    <3>4. CASE /\ ~Reminders!HasReply(m)
               /\ ~(Reminders!Cardinality(Reminders!Tally(v5, m)) > 1)
               /\ Reminders!Cardinality(Reminders!Tally(v5, m)) # 1
      BY <3>4 DEF Reminders!Classify, Reminders!States
    <3>. QED
      BY <3>1, <3>2, <3>3, <3>4
  <2>. QED
    BY <2>1 DEF Reminders!ClassifyWithEvidence, Reminders!States
<1>4. v5.upTo \in 0 .. Len(v4)
  BY <1>1, HitsAreListed DEF Reminders!FollowupInv, Reminders!TypeOK, Reminders!ReadIsPast
<1>5. Reminders!TypeOK'
  BY <1>1, <1>2, <1>3 DEF Reminders!FollowupInv, Reminders!TypeOK
<1>6. Reminders!ReadIsPast'
  BY <1>1, <1>2, <1>4 DEF Reminders!ReadIsPast, Reminders!Sent
<1>7. \A m : Reminders!OpensOf(m)' = Reminders!OpensOf(m)
  BY <1>1 DEF Reminders!OpensOf
<1>8. Reminders!SilenceIsReal'
  BY <1>1, <1>2, <1>7, SilentAnswerIsReal DEF Reminders!SilenceIsReal
<1>9. Reminders!OpenedIsTrue'
  BY <1>1, <1>2, <1>7, OpenedAnswerIsTrue DEF Reminders!OpenedIsTrue
<1>10. Reminders!HitsInOrder' /\ Reminders!HitsAreOfDelivered'
  BY <1>1 DEF Reminders!FollowupInv, Reminders!HitsInOrder, Reminders!HitsAreOfDelivered,
              Reminders!Sent
<1>. QED
  BY <1>5, <1>6, <1>8, <1>9, <1>10 DEF Reminders!FollowupInv

\* Every step of the follow-ups.
LEMMA StepKeepsFollowup ==
  ASSUME Reminders!FollowupInv, [Reminders!Next]_(Reminders!vars)
  PROVE  Reminders!FollowupInv'
<1>1. CASE UNCHANGED Reminders!vars
  BY <1>1
     DEF Reminders!vars, Reminders!FollowupInv, Reminders!TypeOK, Reminders!HitsInOrder,
         Reminders!HitsAreOfDelivered, Reminders!ReadIsPast, Reminders!SilenceIsReal,
         Reminders!OpenedIsTrue, Reminders!OpensOf, Reminders!Sent
<1>. QED
  BY <1>1, TickKeepsFollowup, ArriveKeepsFollowup, FetchKeepsFollowup, SendKeepsFollowup,
     HitKeepsFollowup, AnswerKeepsFollowup DEF Reminders!Next

-----------------------------------------------------------------------------
(* A list without some of its elements, which several parts make.           *)
Kept(b, G) ==
  LET kept[n \in 0 .. Len(b)] ==
        IF n = 0 THEN <<>>
        ELSE IF b[n] \in G THEN kept[n - 1] ELSE Append(kept[n - 1], b[n])
  IN kept[Len(b)]

Elements(s) == {s[i] : i \in 1 .. Len(s)}
Distinct(s) == \A i, j \in 1 .. Len(s) : s[i] = s[j] => i = j

\* An element more.
LEMMA AppendedElements ==
  ASSUME NEW S, NEW s \in Seq(S), NEW x \in S
  PROVE  /\ Append(s, x) \in Seq(S) /\ Len(Append(s, x)) = Len(s) + 1
         /\ Elements(Append(s, x)) = Elements(s) \union {x}
         /\ Distinct(s) /\ x \notin Elements(s) => Distinct(Append(s, x))
<1> DEFINE L == Len(s)
           t == Append(s, x)
<1>1. /\ L \in Nat /\ t \in Seq(S) /\ Len(t) = L + 1
      /\ \A i \in 1 .. L : t[i] = s[i]
      /\ t[L + 1] = x
  OBVIOUS
<1>2. Len(s) = L /\ t = Append(s, x)
  OBVIOUS
<1> HIDE DEF L, t
<1>3. \A j : j \in 1 .. L + 1 <=> j \in 1 .. L \/ j = L + 1
  BY <1>1
<1>4. Elements(t) = Elements(s) \union {x}
  <2>1. Elements(t) = {t[i] : i \in 1 .. L + 1}
    BY <1>1 DEF Elements
  <2>2. Elements(s) = {s[i] : i \in 1 .. L}
    BY <1>2 DEF Elements
  <2>. QED BY <1>1, <1>3, <2>1, <2>2
<1>5. ASSUME Distinct(s), x \notin Elements(s), NEW i \in 1 .. L + 1, NEW j \in 1 .. L + 1,
             t[i] = t[j]
      PROVE  i = j
  <2>1. CASE i \in 1 .. L /\ j \in 1 .. L
    BY <1>1, <1>2, <1>5, <2>1 DEF Distinct
  <2>2. CASE i = L + 1 /\ j \in 1 .. L
    BY <1>1, <1>2, <1>5, <2>2 DEF Elements
  <2>3. CASE i \in 1 .. L /\ j = L + 1
    BY <1>1, <1>2, <1>5, <2>3 DEF Elements
  <2>. QED BY <1>3, <2>1, <2>2, <2>3
<1>6. Distinct(s) /\ x \notin Elements(s) => Distinct(t)
  BY <1>1, <1>5 DEF Distinct
<1>. QED BY <1>1, <1>2, <1>4, <1>6

LEMMA KeptAreTheRest ==
  ASSUME NEW S, NEW b \in Seq(S), NEW G
  PROVE  /\ Kept(b, G) \in Seq(S)
         /\ Elements(Kept(b, G)) = Elements(b) \ G
         /\ Distinct(b) => Distinct(Kept(b, G))
<1> DEFINE L == Len(b)
           A == Seq(S)
           g == [i \in 1 .. L |-> [s \in A |-> IF b[i] \in G THEN s ELSE Append(s, b[i])]]
           Rec(f) == f = [i \in 0 .. L |-> IF i = 0 THEN << >>
                            ELSE IF b[i] \in G THEN f[i - 1] ELSE Append(f[i - 1], b[i])]
           t == CHOOSE f : Rec(f)
<1>1. L \in Nat /\ \A i \in 1 .. L : b[i] \in S
  OBVIOUS
<1>2. g \in StepsTo(L, A)
  BY <1>1 DEF StepsTo
<1>3. << >> \in A
  OBVIOUS
<1> HIDE DEF A
<1>4. PICK f \in [0 .. L -> A] : \A i \in 0 .. L : f[i] = IF i = 0 THEN << >> ELSE g[i][f[i - 1]]
  <2> DEFINE none == << >>
  <2>1. none \in A /\ L \in Nat
    BY <1>1, <1>3
  <2> HIDE DEF g, L, none
  <2>2. \E f \in [0 .. L -> A] :
          \A i \in 0 .. L : f[i] = IF i = 0 THEN none ELSE g[i][f[i - 1]]
    BY ONLY <1>2, <2>1, RecursionExists
  <2>. QED BY <2>2 DEF none
<1>5. ASSUME NEW i \in 0 .. L
      PROVE  f[i] = IF i = 0 THEN << >>
                    ELSE IF b[i] \in G THEN f[i - 1] ELSE Append(f[i - 1], b[i])
  <2>1. CASE i = 0
    BY <1>4, <2>1
  <2>2. CASE i # 0
    <3>1. i \in 1 .. L /\ i - 1 \in 0 .. L
      BY <1>1, <2>2
    <3>2. f[i - 1] \in A
      BY <1>4, <3>1
    <3>. QED BY <1>4, <2>2, <3>1, <3>2
  <2>. QED BY <2>1, <2>2
<1>6. Rec(f)
  <2>1. f = [i \in 0 .. L |-> f[i]]
    BY <1>4
  <2>. QED BY <1>5, <2>1
<1>7. Rec(t)
  BY <1>6
<1>8. Kept(b, G) = t[L]
  BY DEF Kept
<1> HIDE DEF t
<1>9. /\ t[0] = << >>
      /\ \A i \in 1 .. L : t[i] = IF b[i] \in G THEN t[i - 1] ELSE Append(t[i - 1], b[i])
  <2>1. \A i \in 0 .. L : t[i] = IF i = 0 THEN << >>
                                 ELSE IF b[i] \in G THEN t[i - 1] ELSE Append(t[i - 1], b[i])
    BY <1>7
  <2>2. \A i \in 1 .. L : i \in 0 .. L /\ i # 0
    BY <1>1
  <2>3. 0 \in 0 .. L
    BY <1>1
  <2>. QED BY <2>1, <2>2, <2>3
<1>10. Elements(b) = {b[i] : i \in 1 .. L} /\ (Distinct(b) => \A i, j \in 1 .. L : b[i] = b[j] => i = j)
  BY DEF Elements, Distinct
<1> HIDE DEF L, g, Rec
<1> DEFINE Rest(n) == {b[i] : i \in 1 .. n} \ G
           Fits(n) == /\ t[n] \in Seq(S) /\ Elements(t[n]) = Rest(n)
                      /\ Distinct(b) => Distinct(t[n])
           M == {n \in Nat : n <= L => Fits(n)}
<1>11. 0 \in M
  <2> DEFINE none == << >>
  <2>1. none \in Seq(S) /\ Len(none) = 0
    OBVIOUS
  <2> HIDE DEF none
  <2>2. Elements(none) = {} /\ Distinct(none)
    BY <2>1 DEF Elements, Distinct
  <2>3. Rest(0) = {} /\ t[0] = none
    BY <1>9 DEF none
  <2>. QED BY <2>1, <2>2, <2>3
<1>12. ASSUME NEW n \in Nat, n \in M PROVE n + 1 \in M
  <2>. SUFFICES ASSUME n + 1 <= L PROVE Fits(n + 1)
    OBVIOUS
  <2>1. n + 1 \in 1 .. L /\ n <= L /\ (n + 1) - 1 = n
    BY <1>1
  <2>2. Fits(n)
    BY <1>12, <2>1
  <2> DEFINE s == t[n]
             x == b[n + 1]
  <2>3. s \in Seq(S) /\ x \in S
    BY <1>1, <2>1, <2>2
  <2>4. t[n + 1] = IF x \in G THEN s ELSE Append(s, x)
    BY <1>9, <2>1
  <2>5. \A j : j \in 1 .. n + 1 <=> j \in 1 .. n \/ j = n + 1
    OBVIOUS
  <2>6. {b[i] : i \in 1 .. n + 1} = {b[i] : i \in 1 .. n} \union {x}
    BY <2>5
  <2>7. CASE x \in G
    <3>1. Rest(n + 1) = Rest(n)
      BY <2>6, <2>7
    <3>. QED BY <2>2, <2>4, <2>7, <3>1
  <2>8. CASE x \notin G
    <3>1. Rest(n + 1) = Rest(n) \union {x}
      BY <2>6, <2>8
    <3>2. Distinct(b) => x \notin Rest(n)
      <4>1. ASSUME Distinct(b), NEW i \in 1 .. n PROVE b[i] # x
        <5>1. i \in 1 .. L /\ i # n + 1
          BY <1>1, <2>1
        <5>. QED BY <1>10, <2>1, <4>1, <5>1
      <4>. QED BY <4>1
    <3>3. t[n + 1] = Append(s, x)
      BY <2>4, <2>8
    <3>4. Elements(s) = Rest(n) /\ (Distinct(b) => Distinct(s))
      BY <2>2
    <3> HIDE DEF s, x, Rest
    <3>5. /\ Append(s, x) \in Seq(S) /\ Elements(Append(s, x)) = Elements(s) \union {x}
          /\ Distinct(s) /\ x \notin Elements(s) => Distinct(Append(s, x))
      BY <2>3, AppendedElements
    <3>6. Elements(Append(s, x)) = Rest(n + 1) /\ (Distinct(b) => Distinct(Append(s, x)))
      BY <3>1, <3>2, <3>4, <3>5
    <3>. QED BY <3>3, <3>5, <3>6
  <2>. QED BY <2>7, <2>8
<1> HIDE DEF M
<1>13. L \in M
  BY <1>1, <1>11, <1>12, InductNat
<1>14. Fits(L)
  BY <1>1, <1>13 DEF M
<1>. QED BY <1>8, <1>10, <1>14

-----------------------------------------------------------------------------
(* The sum of what a set of entries takes, whichever is added first.        *)
Total(e, T) ==
  LET sum[s \in SUBSET T] ==
        IF s = {} THEN 0
        ELSE LET k == CHOOSE k \in s : TRUE IN e[k].bytes + sum[s \ {k}]
  IN sum[T]

Sized(e, T) == IsFiniteSet(T) /\ \A k \in T : e[k].bytes \in Nat
AnyOf(s) == CHOOSE k \in s : TRUE
SumsUp(f, e, T) ==
  \A s \in SUBSET T :
    f[s] = IF s = {} THEN 0 ELSE e[AnyOf(s)].bytes + f[s \ {AnyOf(s)}]

\* What is taken first is of the set, and leaves one less.
LEMMA FirstIsOne ==
  ASSUME NEW s, IsFiniteSet(s), s # {}
  PROVE  /\ AnyOf(s) \in s
         /\ \A k \in s : /\ IsFiniteSet(s \ {k}) /\ Cardinality(s) \in Nat \ {0}
                         /\ Cardinality(s \ {k}) = Cardinality(s) - 1
<1>1. AnyOf(s) \in s
  BY DEF AnyOf
<1>2. Cardinality(s) \in Nat /\ Cardinality(s) # 0
  BY FS_CardinalityType, FS_EmptySet
<1>3. ASSUME NEW k \in s PROVE IsFiniteSet(s \ {k}) /\ Cardinality(s \ {k}) = Cardinality(s) - 1
  BY FS_RemoveElement
<1>. QED BY <1>1, <1>2, <1>3

LEMMA SumExists ==
  ASSUME NEW e, NEW T, Sized(e, T)
  PROVE  \E f \in [SUBSET T -> Nat] : SumsUp(f, e, T)
<1> DEFINE Right(f, s) == f[s] = IF s = {} THEN 0
                                 ELSE e[AnyOf(s)].bytes + f[s \ {AnyOf(s)}]
           Good(f, n) == \A s \in SUBSET T : Cardinality(s) <= n => Right(f, s)
           M == {n \in Nat : \E f \in [SUBSET T -> Nat] : Good(f, n)}
<1>1. \A s \in SUBSET T : IsFiniteSet(s) /\ Cardinality(s) \in Nat
                          /\ Cardinality(s) <= Cardinality(T)
  BY FS_Subset, FS_CardinalityType DEF Sized
<1>2. 0 \in M
  <2> DEFINE f == [s \in SUBSET T |-> 0]
  <2>1. f \in [SUBSET T -> Nat]
    OBVIOUS
  <2>2. ASSUME NEW s \in SUBSET T, Cardinality(s) <= 0 PROVE s = {}
    BY <1>1, <2>2, FS_EmptySet
  <2>3. Good(f, 0)
    BY <2>2
  <2>. QED BY <2>1, <2>3
<1>3. ASSUME NEW n \in Nat, n \in M PROVE n + 1 \in M
  <2>1. PICK f \in [SUBSET T -> Nat] : Good(f, n)
    BY <1>3
  <2> DEFINE new(s) == e[AnyOf(s)].bytes + f[s \ {AnyOf(s)}]
             h == [s \in SUBSET T |-> IF Cardinality(s) = n + 1 THEN new(s) ELSE f[s]]
  <2>2. ASSUME NEW s \in SUBSET T, s # {}
        PROVE  /\ AnyOf(s) \in T /\ s \ {AnyOf(s)} \in SUBSET T
               /\ Cardinality(s \ {AnyOf(s)}) = Cardinality(s) - 1
               /\ new(s) \in Nat
    <3>1. AnyOf(s) \in T /\ s \ {AnyOf(s)} \in SUBSET T
          /\ Cardinality(s \ {AnyOf(s)}) = Cardinality(s) - 1
      BY <1>1, <2>2, FirstIsOne
    <3>2. e[AnyOf(s)].bytes \in Nat /\ f[s \ {AnyOf(s)}] \in Nat
      BY <3>1 DEF Sized
    <3>. QED BY <3>1, <3>2
  <2>3. ASSUME NEW s \in SUBSET T, Cardinality(s) = n + 1 PROVE s # {}
    BY <2>3, FS_EmptySet
  <2> HIDE DEF new
  <2>4. h \in [SUBSET T -> Nat]
    BY <2>2, <2>3
  <2>5. ASSUME NEW s \in SUBSET T, Cardinality(s) <= n + 1 PROVE Right(h, s)
    <3>1. CASE s = {}
      <4>1. Cardinality(s) = 0
        BY <3>1, FS_EmptySet
      <4>2. h[s] = f[s]
        BY <4>1
      <4>3. Right(f, s)
        BY <2>1, <4>1
      <4>. QED BY <3>1, <4>2, <4>3
    <3>2. CASE s # {}
      <4> DEFINE r == s \ {AnyOf(s)}
      <4>1. r \in SUBSET T /\ Cardinality(r) = Cardinality(s) - 1 /\ Cardinality(s) \in Nat
        BY <1>1, <2>2, <3>2
      <4>2. Cardinality(r) # n + 1
        BY <2>5, <4>1
      <4>3. h[r] = f[r]
        BY <4>1, <4>2
      <4>4. CASE Cardinality(s) = n + 1
        BY <3>2, <4>3, <4>4 DEF new
      <4>5. CASE Cardinality(s) # n + 1
        <5>1. Cardinality(s) <= n
          BY <2>5, <4>1, <4>5
        <5>2. Right(f, s)
          BY <2>1, <5>1
        <5>. QED BY <3>2, <4>3, <4>5, <5>2
      <4>. QED BY <4>4, <4>5
    <3>. QED BY <3>1, <3>2
  <2>6. Good(h, n + 1)
    BY <2>5
  <2> HIDE DEF h, Good
  <2>. QED BY <2>4, <2>6
<1> HIDE DEF M
<1>4. Cardinality(T) \in M
  BY <1>1, <1>2, <1>3, InductNat
<1>5. PICK f \in [SUBSET T -> Nat] : Good(f, Cardinality(T))
  BY <1>4 DEF M
<1>. QED BY <1>1, <1>5 DEF SumsUp

\* Two sums of the same entries are the same.
LEMMA SplitsAgree ==
  ASSUME NEW e, NEW d, NEW T, NEW U, NEW f, NEW g, SumsUp(f, e, T), SumsUp(g, d, U),
         NEW R, IsFiniteSet(R), R \subseteq T, R \subseteq U,
         \A k \in R : e[k].bytes = d[k].bytes
  PROVE  f[R] = g[R]
<1> DEFINE M == {n \in Nat : \A s \in SUBSET R : Cardinality(s) = n => f[s] = g[s]}
<1>1. \A s \in SUBSET R : IsFiniteSet(s) /\ Cardinality(s) \in Nat
  BY FS_Subset, FS_CardinalityType
<1>2. 0 \in M
  <2>1. ASSUME NEW s \in SUBSET R, Cardinality(s) = 0 PROVE f[s] = g[s]
    <3>1. s = {}
      BY <1>1, <2>1, FS_EmptySet
    <3>. QED BY <3>1 DEF SumsUp
  <2>. QED BY <2>1
<1>3. ASSUME NEW n \in Nat, n \in M PROVE n + 1 \in M
  <2>1. ASSUME NEW s \in SUBSET R, Cardinality(s) = n + 1 PROVE f[s] = g[s]
    <3>1. s # {}
      BY <2>1, FS_EmptySet
    <3> DEFINE k == AnyOf(s)
               r == s \ {k}
    <3>2. k \in R /\ r \in SUBSET R /\ Cardinality(r) = Cardinality(s) - 1
      BY <1>1, <3>1, FirstIsOne
    <3>3. Cardinality(r) = n
      BY <2>1, <3>2
    <3>4. f[r] = g[r]
      BY <1>3, <3>2, <3>3
    <3>5. f[s] = e[k].bytes + f[r] /\ g[s] = d[k].bytes + g[r]
      BY <3>1 DEF SumsUp
    <3>. QED BY <3>2, <3>4, <3>5
  <2>. QED BY <2>1
<1> HIDE DEF M
<1>4. Cardinality(R) \in M
  BY <1>1, <1>2, <1>3, InductNat
<1>. QED BY <1>4 DEF M

\* Any member may be added last.
TakesAny(f, e, T) == \A s \in SUBSET T : \A k \in s : f[s] = e[k].bytes + f[s \ {k}]
LEMMA SumInAnyOrder ==
  ASSUME NEW e, NEW T, Sized(e, T), NEW f \in [SUBSET T -> Nat], SumsUp(f, e, T)
  PROVE  TakesAny(f, e, T)
<1> DEFINE M == {n \in Nat : \A s \in SUBSET T : Cardinality(s) = n =>
                               \A k \in s : f[s] = e[k].bytes + f[s \ {k}]}
<1>1. \A s \in SUBSET T : IsFiniteSet(s) /\ Cardinality(s) \in Nat
  BY FS_Subset, FS_CardinalityType DEF Sized
<1>2. 0 \in M
  BY <1>1, FS_EmptySet
<1>3. ASSUME NEW n \in Nat, n \in M PROVE n + 1 \in M
  <2>1. ASSUME NEW s \in SUBSET T, Cardinality(s) = n + 1, NEW k \in s
        PROVE  f[s] = e[k].bytes + f[s \ {k}]
    <3> DEFINE c == AnyOf(s)
               r == s \ {c}
               q == s \ {k}
               z == r \ {k}
    <3>1. c \in s /\ f[s] = e[c].bytes + f[r]
      BY <1>1, FirstIsOne DEF SumsUp
    <3>2. r \in SUBSET T /\ q \in SUBSET T /\ z \in SUBSET T /\ z = q \ {c}
      OBVIOUS
    <3>3. Cardinality(r) = n /\ Cardinality(q) = n
      <4>1. Cardinality(r) = Cardinality(s) - 1 /\ Cardinality(q) = Cardinality(s) - 1
        BY <1>1, <3>1, FirstIsOne
      <4>. QED BY <2>1, <4>1
    <3>4. CASE k = c
      BY <3>1, <3>4
    <3>5. CASE k # c
      <4>1. k \in r /\ c \in q
        BY <3>1, <3>5
      <4>2. f[r] = e[k].bytes + f[z]
        BY <1>3, <3>2, <3>3, <4>1
      <4>3. f[q] = e[c].bytes + f[z]
        BY <1>3, <3>2, <3>3, <4>1
      <4>4. f[z] \in Nat /\ e[k].bytes \in Nat /\ e[c].bytes \in Nat
        BY <3>1, <3>2 DEF Sized
      <4> HIDE DEF c, r, q, z
      <4>. QED BY <3>1, <4>2, <4>3, <4>4 DEF q
    <3>. QED BY <3>4, <3>5
  <2>. QED BY <2>1
<1> HIDE DEF M
<1>4. \A n \in Nat : n \in M
  BY <1>2, <1>3, InductNat
<1>. QED BY <1>1, <1>4 DEF M, TakesAny

\* Total is such a sum.
LEMMA TotalIsASum ==
  ASSUME NEW e, NEW T, Sized(e, T)
  PROVE  \E f \in [SUBSET T -> Nat] : SumsUp(f, e, T) /\ Total(e, T) = f[T]
<1> DEFINE Rec(f) == f = [s \in SUBSET T |->
                            IF s = {} THEN 0
                            ELSE LET k == CHOOSE k \in s : TRUE
                                 IN e[k].bytes + f[s \ {k}]]
           t == CHOOSE f : Rec(f)
<1>1. PICK f \in [SUBSET T -> Nat] : SumsUp(f, e, T)
  BY SumExists
<1>2. Rec(f)
  <2>1. f = [s \in SUBSET T |-> f[s]]
    BY <1>1
  <2>2. \A s \in SUBSET T : f[s] = IF s = {} THEN 0
                                   ELSE LET k == CHOOSE k \in s : TRUE
                                        IN e[k].bytes + f[s \ {k}]
    BY <1>1 DEF SumsUp, AnyOf
  <2>. QED BY <2>1, <2>2
<1>3. Rec(t)
  BY <1>2
<1>4. Total(e, T) = t[T]
  BY DEF Total
<1> HIDE DEF t
<1>5. SumsUp(t, e, T)
  <2>1. \A s \in SUBSET T : t[s] = IF s = {} THEN 0
                                   ELSE LET k == CHOOSE k \in s : TRUE
                                        IN e[k].bytes + t[s \ {k}]
    BY <1>3
  <2>. QED BY <2>1 DEF SumsUp, AnyOf
<1>6. t[T] = f[T]
  BY <1>1, <1>5, SplitsAgree DEF Sized
<1>. QED BY <1>1, <1>4, <1>6

\* A total is a number, of nothing 0, and any member may be taken out of it.
LEMMA TotalStep ==
  ASSUME NEW e, NEW T, Sized(e, T)
  PROVE  /\ Total(e, T) \in Nat
         /\ T = {} => Total(e, T) = 0
         /\ \A k \in T : Total(e, T) = e[k].bytes + Total(e, T \ {k})
<1>1. PICK f \in [SUBSET T -> Nat] : SumsUp(f, e, T) /\ Total(e, T) = f[T]
  BY TotalIsASum
<1>2. T \in SUBSET T
  OBVIOUS
<1>3. Total(e, T) \in Nat
  BY <1>1, <1>2
<1>4. T = {} => Total(e, T) = 0
  BY <1>1, <1>2 DEF SumsUp
<1>6. TakesAny(f, e, T)
  BY <1>1, SumInAnyOrder
<1>5. ASSUME NEW k \in T PROVE Total(e, T) = e[k].bytes + Total(e, T \ {k})
  <2> DEFINE r == T \ {k}
  <2>1. Sized(e, r)
    BY FS_Subset DEF Sized
  <2>2. PICK g \in [SUBSET r -> Nat] : SumsUp(g, e, r) /\ Total(e, r) = g[r]
    BY <2>1, TotalIsASum
  <2>3. g[r] = f[r]
    BY <1>1, <2>1, <2>2, SplitsAgree DEF Sized
  <2>5. f[T] = e[k].bytes + f[r]
    BY <1>2, <1>6 DEF TakesAny
  <2>. QED BY <1>1, <2>2, <2>3, <2>5
<1>. QED BY <1>3, <1>4, <1>5

\* What is not counted does not count.
LEMMA TotalAgrees ==
  ASSUME NEW e, NEW d, NEW T, Sized(e, T), Sized(d, T), \A k \in T : e[k].bytes = d[k].bytes
  PROVE  Total(e, T) = Total(d, T)
<1>1. PICK f \in [SUBSET T -> Nat] : SumsUp(f, e, T) /\ Total(e, T) = f[T]
  BY TotalIsASum
<1>2. PICK g \in [SUBSET T -> Nat] : SumsUp(g, d, T) /\ Total(d, T) = g[T]
  BY TotalIsASum
<1>3. IsFiniteSet(T) /\ T \subseteq T
  BY DEF Sized
<1>. QED BY <1>1, <1>2, <1>3, SplitsAgree

\* A total is that of a part and that of the rest.
LEMMA TotalSplits ==
  ASSUME NEW e, NEW T, Sized(e, T), NEW R \in SUBSET T
  PROVE  /\ Sized(e, R) /\ Sized(e, T \ R)
         /\ Total(e, T) = Total(e, R) + Total(e, T \ R)
<1>1. \A s \in SUBSET T : Sized(e, s)
  BY FS_Subset DEF Sized
<1>2. \A s \in SUBSET T : IsFiniteSet(s) /\ Cardinality(s) \in Nat
  BY <1>1, FS_CardinalityType DEF Sized
<1> DEFINE Adds(s) == Total(e, T) = Total(e, s) + Total(e, T \ s)
           M == {n \in Nat : \A s \in SUBSET T : Cardinality(s) = n => Adds(s)}
<1>3. 0 \in M
  <2>1. ASSUME NEW s \in SUBSET T, Cardinality(s) = 0 PROVE Adds(s)
    <3>1. s = {} /\ T \ s = T
      BY <1>2, <2>1, FS_EmptySet
    <3>2. Total(e, s) = 0 /\ Total(e, T) \in Nat
      BY <1>1, <3>1, TotalStep
    <3>. QED BY <3>1, <3>2
  <2>. QED BY <2>1
<1>4. ASSUME NEW n \in Nat, n \in M PROVE n + 1 \in M
  <2>1. ASSUME NEW s \in SUBSET T, Cardinality(s) = n + 1 PROVE Adds(s)
    <3>1. s # {}
      BY <2>1, FS_EmptySet
    <3>2. PICK k \in s : TRUE
      BY <3>1
    <3> DEFINE r == s \ {k}
               q == T \ s
               p == T \ r
    <3>3. r \in SUBSET T /\ Cardinality(r) = Cardinality(s) - 1
      BY <1>2, <3>1, FirstIsOne
    <3>4. Cardinality(r) = n
      BY <2>1, <3>3
    <3>5. Adds(r)
      BY <1>4, <3>3, <3>4
    <3>6. Total(e, s) = e[k].bytes + Total(e, r)
      BY <1>1, TotalStep
    <3>7. k \in p /\ p \ {k} = q /\ p \in SUBSET T
      OBVIOUS
    <3>8. Total(e, p) = e[k].bytes + Total(e, q)
      BY <1>1, <3>7, TotalStep
    <3>9. /\ Total(e, r) \in Nat /\ Total(e, q) \in Nat /\ e[k].bytes \in Nat
      <4>1. q \in SUBSET T
        OBVIOUS
      <4>2. Total(e, r) \in Nat /\ Total(e, q) \in Nat
        BY <1>1, <3>3, <4>1, TotalStep
      <4>. QED BY <4>2 DEF Sized
    <3>10. Total(e, T) = Total(e, r) + Total(e, p)
      BY <3>5
    <3> DEFINE ts == Total(e, s)
               tr == Total(e, r)
               tq == Total(e, q)
               tp == Total(e, p)
               bk == e[k].bytes
               tt == Total(e, T)
    <3>11. ts = bk + tr /\ tp = bk + tq /\ tt = tr + tp /\ tr \in Nat /\ tq \in Nat /\ bk \in Nat
      BY <3>6, <3>8, <3>9, <3>10
    <3>12. tt = ts + tq
      <4> HIDE DEF ts, tr, tq, tp, bk, tt
      <4>. QED BY <3>11
    <3>. QED BY <3>12
  <2>. QED BY <2>1
<1> HIDE DEF M
<1>5. \A n \in Nat : n \in M
  BY <1>3, <1>4, InductNat
<1>6. R \in SUBSET T /\ T \ R \in SUBSET T
  OBVIOUS
<1>7. Adds(R)
  BY <1>2, <1>5, <1>6 DEF M
<1>. QED BY <1>1, <1>6, <1>7

(* How much the cache holds, and what it gives up for more.                 *)
CacheOK ==
  /\ Present \subseteq CacheKeys /\ entries \in [Present -> Entry]
  /\ order \in Seq(CacheKeys) /\ Elements(order) = Present /\ Distinct(order)
  /\ total \in Int /\ total = Total(entries, Present) /\ total <= MaxBytes
LEMMA CacheIsOK ==
  /\ TypeOK /\ CountIsExact <=> CacheOK
  /\ TypeOK' /\ CountIsExact' <=> CacheOK'
<1>1. ASSUME NEW o \in Seq(CacheKeys) PROVE ToSet(o) = Elements(o) /\ (IsInjective(o) <=> Distinct(o))
  BY DEF ToSet, Elements, IsInjective, Distinct
<1>2. BytesOf(Present) = Total(entries, Present) /\ BytesOf(Present)' = Total(entries', Present')
  BY DEF BytesOf, Total
<1>. QED
  BY <1>1, <1>2 DEF TypeOK, CountIsExact, CacheOK

LEMMA BytesAreATotal == ASSUME NEW ks PROVE BytesOf(ks) = Total(entries, ks)
  BY DEF BytesOf, Total

\* The entries are finitely many, and each has its size and its age.
LEMMA EntriesAreSized ==
  ASSUME CacheOK
  PROVE  Sized(entries, Present) /\ \A k \in Present : Age(k) \in Nat
<1>1. order \in Seq(CacheKeys) /\ Elements(order) = Present
  BY DEF CacheOK
<1> DEFINE n == Len(order)
<1>2. n \in Nat /\ DOMAIN order = 1 .. n
  BY <1>1
<1>3. IsFiniteSet(Present)
  <2>1. IsFiniteSet(1 .. n)
    <3>1. 1 \in Int /\ n \in Int
      BY <1>2
    <3> HIDE DEF n
    <3>. QED BY <3>1, FS_Interval
  <2>2. Present = {order[i] : i \in 1 .. n}
    BY <1>1 DEF Elements
  <2> DEFINE f == [i \in 1 .. n |-> order[i]]
  <2>3. f \in Surjection(1 .. n, Present)
    BY <2>2 DEF Surjection
  <2> HIDE DEF f, n
  <2>. QED BY <2>1, <2>3, FS_Surjection
<1>4. \A k \in Present : entries[k].bytes \in Nat
  BY DEF CacheOK, Entry
<1>5. ASSUME NEW k \in Present PROVE Age(k) \in Nat
  <2>1. \E i \in DOMAIN order : order[i] = k
    BY <1>1, <1>2 DEF Elements
  <2>2. Age(k) \in DOMAIN order
    BY <2>1 DEF Age
  <2> HIDE DEF n
  <2>. QED BY <1>2, <2>2
<1>. QED
  BY <1>3, <1>4, <1>5 DEF Sized

\* The keys that stay, and the one that is now the newest.
LEMMA OrderIsKept ==
  ASSUME CacheOK, NEW gone, NEW k \in CacheKeys, k \in gone
  PROVE  /\ Without(order, gone) \in Seq(CacheKeys)
         /\ Elements(Without(order, gone)) = Present \ gone
         /\ Distinct(Without(order, gone))
         /\ Append(Without(order, gone), k) \in Seq(CacheKeys)
         /\ Elements(Append(Without(order, gone), k)) = (Present \ gone) \union {k}
         /\ Distinct(Append(Without(order, gone), k))
<1> DEFINE w == Without(order, gone)
<1>1. w = Kept(order, gone)
  BY DEF Without, Kept
<1>2. order \in Seq(CacheKeys) /\ Elements(order) = Present /\ Distinct(order)
  BY DEF CacheOK
<1>3. w \in Seq(CacheKeys) /\ Elements(w) = Present \ gone /\ Distinct(w)
  BY <1>1, <1>2, KeptAreTheRest
<1> HIDE DEF w
<1>4. /\ Append(w, k) \in Seq(CacheKeys) /\ Elements(Append(w, k)) = Elements(w) \union {k}
      /\ Distinct(w) /\ k \notin Elements(w) => Distinct(Append(w, k))
  BY <1>3, AppendedElements
<1>. QED
  BY <1>3, <1>4 DEF w

LEMMA GetKeepsCount ==
  ASSUME CacheOK, NEW k \in CacheKeys, Get(k) PROVE CacheOK'
<1>1. k \in Present /\ order' = Append(Without(order, {k}), k) /\ UNCHANGED <<entries, total>>
  BY DEF Get
<1>2. Present' = Present /\ k \in {k}
  BY <1>1 DEF Present
<1>3. (Present \ {k}) \union {k} = Present
  BY <1>1
<1>4. order' \in Seq(CacheKeys) /\ Elements(order') = Present /\ Distinct(order')
  BY <1>1, <1>2, <1>3, OrderIsKept
<1>. QED
  BY <1>1, <1>2, <1>4 DEF CacheOK

LEMMA EvictKeepsCount ==
  ASSUME CacheOK, NEW k \in CacheKeys, Evict(k) PROVE CacheOK'
<1> DEFINE P == Present \ {k}
<1>1. /\ k \in Present /\ entries' = [x \in P |-> entries[x]]
      /\ order' = Without(order, {k}) /\ total' = total - entries[k].bytes
  BY DEF Evict
<1>2. Present' = P
  BY <1>1 DEF Present
<1>3. entries' \in [P -> Entry] /\ P \subseteq CacheKeys
  BY <1>1 DEF CacheOK
<1>4. order' \in Seq(CacheKeys) /\ Elements(order') = P /\ Distinct(order')
  <2>1. k \in {k}
    OBVIOUS
  <2>. QED BY <1>1, <2>1, OrderIsKept
<1>5. Sized(entries, Present)
  BY EntriesAreSized
<1>6. Sized(entries, P) /\ Sized(entries', P)
  <2>1. IsFiniteSet(P)
    BY <1>5, FS_Subset DEF Sized
  <2>. QED BY <1>1, <1>5, <2>1 DEF Sized
<1>7. Total(entries', P) = Total(entries, P)
  BY <1>1, <1>6, TotalAgrees
<1>8. /\ Total(entries, Present) = entries[k].bytes + Total(entries, P)
      /\ Total(entries, P) \in Nat
  BY <1>1, <1>5, <1>6, TotalStep
<1> DEFINE tp == Total(entries, P)
           bk == entries[k].bytes
<1>9. total = bk + tp /\ total' = total - bk /\ tp \in Nat /\ bk \in Nat /\ total <= MaxBytes
  BY <1>1, <1>5, <1>8 DEF CacheOK, Sized
<1>10. total' = tp /\ total' <= MaxBytes /\ total' \in Int
  <2> HIDE DEF tp, bk
  <2>. QED BY <1>9, CacheAssumption
<1>. QED
  BY <1>2, <1>3, <1>4, <1>7, <1>10 DEF CacheOK

\* What stays fits with what is stored: its oldest entry did with all that is newer.
LEMMA StayingFits ==
  ASSUME CacheOK, NEW k \in CacheKeys, NEW b \in Nat, b <= MaxEntryBytes
  PROVE  b + Total(entries, (Present \ {k}) \ Overflow(k, b)) <= MaxBytes
<1> DEFINE stay == (Present \ {k}) \ Overflow(k, b)
<1>1. Sized(entries, Present) /\ \A x \in Present : Age(x) \in Nat
  BY EntriesAreSized
<1>2. CASE stay = {}
  <2>1. Sized(entries, stay)
    BY <1>1, TotalSplits
  <2>2. Total(entries, stay) = 0
    BY <1>2, <2>1, TotalStep
  <2>. QED BY <2>2, CacheAssumption
<1>3. CASE stay # {}
  <2> DEFINE ages == {Age(x) : x \in stay}
  <2>1. ages \in SUBSET Nat /\ ages # {}
    BY <1>1, <1>3
  <2>2. PICK a0 \in ages : \A y \in ages : a0 <= y
    BY <2>1, LeastNat
  <2>3. PICK o \in stay : Age(o) = a0
    BY <2>2
  <2> DEFINE W == {n \in Present \ {k} : Age(n) >= Age(o)}
  <2>4. stay \subseteq W
    BY <2>2, <2>3
  <2>5. ~(b + Total(entries, W) > MaxBytes)
    BY <2>3, BytesAreATotal DEF Overflow
  <2>6. Sized(entries, W)
    BY <1>1, TotalSplits
  <2>7. Total(entries, W) = Total(entries, stay) + Total(entries, W \ stay)
        /\ Sized(entries, stay) /\ Sized(entries, W \ stay)
    BY <2>4, <2>6, TotalSplits
  <2>8. Total(entries, stay) \in Nat /\ Total(entries, W \ stay) \in Nat
    BY <2>7, TotalStep
  <2> DEFINE tw == Total(entries, W)
             ts == Total(entries, stay)
             tr == Total(entries, W \ stay)
  <2>9. tw = ts + tr /\ ts \in Nat /\ tr \in Nat /\ ~(b + tw > MaxBytes)
    BY <2>5, <2>7, <2>8
  <2>10. b + ts <= MaxBytes
    <3> HIDE DEF tw, ts, tr
    <3>. QED BY <2>9, CacheAssumption
  <2>. QED BY <2>10
<1>. QED BY <1>2, <1>3

LEMMA SetKeepsCount ==
  ASSUME CacheOK, NEW k \in CacheKeys, NEW v \in CachedBodies, Set(k, v) PROVE CacheOK'
<1> DEFINE b == Bytes[v]
           lost == Overflow(k, b)
           rest == Present \ {k}
           stay == rest \ lost
           P == stay \union {k}
<1>1. /\ b <= MaxEntryBytes
      /\ entries' = [x \in (Present \ lost) \union {k} |->
           IF x = k THEN [message |-> v, bytes |-> b] ELSE entries[x]]
      /\ order' = Append(Without(order, lost \union {k}), k)
      /\ total' = total + b - BytesOf(lost)
                    - (IF k \in Present THEN entries[k].bytes ELSE 0)
  BY DEF Set, TotalAfter
<1>2. b \in Nat
  BY CacheAssumption
<1>3. lost \subseteq rest
  BY DEF Overflow
<1>4. b + Total(entries, stay) <= MaxBytes
  BY <1>1, <1>2, StayingFits
<1>5. BytesOf(lost) = Total(entries, lost)
  BY BytesAreATotal
<1> HIDE DEF b, lost
<1>6. (Present \ lost) \union {k} = P /\ (Present \ (lost \union {k})) \union {k} = P
  BY <1>3
<1>7. entries' = [x \in P |-> IF x = k THEN [message |-> v, bytes |-> b] ELSE entries[x]]
  BY <1>1, <1>6
<1>8. Present' = P
  BY <1>7 DEF Present
<1>9. P \subseteq CacheKeys /\ entries' \in [P -> Entry]
  <2>1. \A x \in stay : entries[x] \in Entry
    BY DEF CacheOK
  <2>2. [message |-> v, bytes |-> b] \in Entry
    BY <1>2 DEF Entry
  <2>. QED BY <1>7, <2>1, <2>2 DEF CacheOK
<1>10. order' \in Seq(CacheKeys) /\ Elements(order') = P /\ Distinct(order')
  <2>1. k \in lost \union {k}
    OBVIOUS
  <2>. QED BY <1>1, <1>6, <2>1, OrderIsKept
<1>11. Sized(entries, Present)
  BY EntriesAreSized
<1>12. Sized(entries, stay) /\ Sized(entries, rest) /\ Sized(entries, lost)
  BY <1>3, <1>11, TotalSplits
<1>13. /\ Total(entries, stay) \in Nat /\ Total(entries, rest) \in Nat
       /\ Total(entries, lost) \in Nat
  BY <1>12, TotalStep
<1>14. Total(entries, rest) = Total(entries, lost) + Total(entries, stay)
  BY <1>3, <1>12, TotalSplits
<1>15. IF k \in Present
       THEN Total(entries, Present) = entries[k].bytes + Total(entries, rest)
       ELSE Total(entries, Present) = Total(entries, rest)
  <2>1. CASE k \in Present
    BY <1>11, <2>1, TotalStep
  <2>2. CASE k \notin Present
    <3>1. rest = Present
      BY <2>2
    <3>. QED BY <2>2, <3>1
  <2>. QED BY <2>1, <2>2
<1>16. Sized(entries', P) /\ Sized(entries', stay)
  <2>1. IsFiniteSet(stay) /\ \A x \in stay : entries[x].bytes \in Nat
    BY <1>12 DEF Sized
  <2>2. IsFiniteSet(P)
    BY <2>1, FS_AddElement
  <2>3. \A x \in P : entries'[x].bytes \in Nat
    BY <1>2, <1>7, <2>1
  <2>. QED BY <2>1, <2>2, <2>3 DEF Sized
<1>17. Total(entries', stay) = Total(entries, stay)
  <2>1. \A x \in stay : entries'[x].bytes = entries[x].bytes
    BY <1>7
  <2>. QED BY <1>12, <1>16, <2>1, TotalAgrees
<1>18. Total(entries', P) = b + Total(entries', stay)
  <2>1. P \ {k} = stay /\ k \in P
    OBVIOUS
  <2>2. entries'[k].bytes = b
    BY <1>7
  <2>3. Total(entries', P) = entries'[k].bytes + Total(entries', P \ {k})
    BY <1>16, <2>1, TotalStep
  <2>. QED BY <2>1, <2>2, <2>3
<1> DEFINE bk == IF k \in Present THEN entries[k].bytes ELSE 0
           tt == Total(entries, Present)
           ts == Total(entries, stay)
           tl == Total(entries, lost)
           tr == Total(entries, rest)
           tp == Total(entries', P)
<1>19. bk \in Nat /\ tt = bk + tr
  <2>1. k \in Present => entries[k].bytes \in Nat
    BY <1>11 DEF Sized
  <2>2. CASE k \in Present
    BY <1>15, <2>1, <2>2
  <2>3. CASE k \notin Present
    <3>1. bk = 0 /\ tt = tr /\ tr \in Nat
      BY <1>13, <1>15, <2>3
    <3> HIDE DEF bk, tt, tr
    <3>. QED BY <3>1
  <2>. QED BY <2>2, <2>3
<1>20. /\ tr = tl + ts /\ tp = b + ts /\ total = tt /\ total' = total + b - tl - bk
       /\ b + ts <= MaxBytes /\ tr \in Nat /\ tl \in Nat /\ ts \in Nat
  BY <1>1, <1>4, <1>5, <1>13, <1>14, <1>17, <1>18 DEF CacheOK
<1>21. total' = tp /\ total' <= MaxBytes /\ total' \in Int
  <2> HIDE DEF bk, tt, ts, tl, tr, tp
  <2>. QED BY <1>2, <1>19, <1>20
<1>. QED
  BY <1>8, <1>9, <1>10, <1>21 DEF CacheOK

\* The count is exact at first and after every step.
LEMMA CacheInit == ASSUME Init PROVE TypeOK /\ CountIsExact
<1> DEFINE none == << >>
<1>1. none \in Seq(CacheKeys) /\ Len(none) = 0 /\ DOMAIN none = {}
  OBVIOUS
<1>2. entries = none /\ order = none /\ total = 0
  BY DEF Init
<1> HIDE DEF none
<1>3. Present = {} /\ entries \in [{} -> Entry]
  <2>1. entries = << >>
    BY <1>2 DEF none
  <2>2. entries = [x \in {} |-> 0]
    BY <2>1
  <2>. QED BY <2>2 DEF Present
<1>4. Elements(order) = {} /\ Distinct(order)
  BY <1>1, <1>2 DEF Elements, Distinct
<1>5. Sized(entries, {})
  BY FS_EmptySet DEF Sized
<1>6. Total(entries, {}) = 0
  BY <1>5, TotalStep
<1>7. CacheOK
  BY <1>1, <1>2, <1>3, <1>4, <1>6, CacheAssumption DEF CacheOK
<1>. QED
  BY <1>7, CacheIsOK

LEMMA StepKeepsCache ==
  ASSUME TypeOK, CountIsExact, [Next]_vars PROVE TypeOK' /\ CountIsExact'
<1>1. CacheOK
  BY CacheIsOK
<1>2. CASE UNCHANGED vars
  <2>1. CacheOK'
    BY <1>1, <1>2 DEF vars, CacheOK, Present
  <2>. QED BY <2>1, CacheIsOK
<1>3. CASE Next
  <2>1. CacheOK'
    BY <1>1, <1>3, GetKeepsCount, EvictKeepsCount, SetKeepsCount DEF Next
  <2>. QED BY <2>1, CacheIsOK
<1>. QED BY <1>2, <1>3

\* What goes for a new entry is older than what stays: all that is newer than
\* it and the new one do not fit together, and what stays does.
LEMMA OldestGoFirst ==
  ASSUME TypeOK, CountIsExact, Next PROVE LeastRecentStep
<1>1. CacheOK
  BY CacheIsOK
<1>2. Sized(entries, Present) /\ \A x \in Present : Age(x) \in Nat
  BY <1>1, EntriesAreSized
<1>3. ASSUME NEW k \in CacheKeys, Get(k) \/ Evict(k) PROVE Present' \ Present = {}
  BY <1>3 DEF Get, Evict, Present
<1>4. ASSUME NEW k \in CacheKeys, NEW v \in CachedBodies, Set(k, v),
             NEW old \in Present \ Present', NEW young \in Present \intersect Present',
             Present' \ Present # {}
      PROVE  Age(old) < Age(young)
  <2> DEFINE b == Bytes[v]
             Since(x) == {n \in Present \ {k} : Age(n) >= Age(x)}
  <2>1. Present' = (Present \ Overflow(k, b)) \union {k}
    BY <1>4 DEF Set, Present
  <2>2. k \notin Present
    BY <1>4, <2>1
  <2>3. old \in Overflow(k, b) /\ young \in Present \ {k} /\ young \notin Overflow(k, b)
    BY <1>4, <2>1, <2>2
  <2>4. b + Total(entries, Since(old)) > MaxBytes
        /\ ~(b + Total(entries, Since(young)) > MaxBytes)
    BY <2>3, BytesAreATotal DEF Overflow
  <2>5. b \in Nat /\ old \in Present /\ Age(old) \in Nat /\ Age(young) \in Nat
    BY <1>2, CacheAssumption
  <2>6. ASSUME ~(Age(old) < Age(young)) PROVE FALSE
    <3>1. Age(young) <= Age(old)
      BY <2>5, <2>6
    <3>2. Since(old) \subseteq Since(young)
      BY <1>2, <2>5, <3>1
    <3>3. Sized(entries, Since(young))
      BY <1>2, TotalSplits
    <3> DEFINE A == Since(young)
               B == Since(old)
               ta == Total(entries, A)
               tb == Total(entries, B)
               tc == Total(entries, A \ B)
    <3>4. Sized(entries, A) /\ B \in SUBSET A
      BY <3>2, <3>3
    <3>5. b + tb > MaxBytes /\ ~(b + ta > MaxBytes)
      BY <2>4
    <3> HIDE DEF A, B, Since
    <3>6. Sized(entries, B) /\ Sized(entries, A \ B) /\ ta = tb + tc
      BY <3>4, TotalSplits
    <3>7. tb \in Nat /\ tc \in Nat
      BY <3>6, TotalStep
    <3> HIDE DEF ta, tb, tc, b
    <3>. QED BY <2>5, <3>5, <3>6, <3>7, CacheAssumption
  <2>. QED BY <2>6
<1>. QED
  BY <1>3, <1>4 DEF Next, LeastRecentStep
=============================================================================
