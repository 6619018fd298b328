----------------------------- MODULE MessageCache -----------------------------
(***************************************************************************)
(* messageCache.ts: bodies by account, folder and UID, bounded by bytes,   *)
(* least recently used first out.  A JavaScript Map iterates in insertion  *)
(* order, so `order' lists the keys from the oldest to the most recent.    *)
(***************************************************************************)
EXTENDS Integers, Sequences, SequencesExt

CONSTANTS CacheKeys, CachedBodies, None,
          Bytes,           \* value -> its measured size
          MaxBytes,        \* budget of the cache
          MaxEntryBytes    \* largest body that is kept at all

VARIABLES entries,   \* the Map: keys it has -> [message, bytes]
          order,     \* keys that have an entry, oldest first
          total      \* totalBytes
vars == <<entries, order, total>>

Entry == [message: CachedBodies, bytes: Nat]
Present == DOMAIN entries

TypeOK ==
  /\ Present \subseteq CacheKeys /\ entries \in [Present -> Entry]
  /\ order \in Seq(CacheKeys)
  /\ total \in Int

Init == entries = << >> /\ order = << >> /\ total = 0

BytesOf(ks) ==
  LET sum[s \in SUBSET ks] ==
        IF s = {} THEN 0
        ELSE LET k == CHOOSE k \in s : TRUE IN entries[k].bytes + sum[s \ {k}]
  IN sum[ks]

(* The keys but those that go, in their order.                             *)
Without(keys, gone) ==
  LET kept[n \in 0 .. Len(keys)] ==
        IF n = 0 THEN <<>>
        ELSE IF keys[n] \in gone THEN kept[n - 1] ELSE Append(kept[n - 1], keys[n])
  IN kept[Len(keys)]

Age(k) == CHOOSE i \in DOMAIN order : order[i] = k

(* get: a hit becomes the most recent entry.                               *)
Get(k) ==
  /\ k \in Present
  /\ order' = Append(Without(order, {k}), k)
  /\ UNCHANGED <<entries, total>>

(* Mutant: every entry of the cache goes.                                  *)
EvictEverything(k) ==
  /\ k \in Present
  /\ entries' = << >> /\ order' = << >> /\ total' = 0
(* remove, evict.                                                          *)
Evict(k) ==
  /\ k \in Present
  /\ entries' = [x \in Present \ {k} |-> entries[x]]
  /\ order' = Without(order, {k})
  /\ total' = total - entries[k].bytes

(* Mutant: the newest go first.                                            *)
OverflowFromTheTop(k, bytes) ==
  {o \in Present \ {k} : bytes + BytesOf({n \in Present \ {k} : Age(n) <= Age(o)})
                           > MaxBytes}
(* set's loop from the oldest entry on, skipping the one just stored: an   *)
(* entry goes when it and everything newer do not fit.                     *)
Overflow(k, bytes) ==
  {o \in Present \ {k} : bytes + BytesOf({n \in Present \ {k} : Age(n) >= Age(o)})
                           > MaxBytes}

(* Mutant: the size of the entry that is replaced stays counted.           *)
TotalForgetsReplaced(k, bytes, lost) == total + bytes - BytesOf(lost)
TotalAfter(k, bytes, lost) ==
  total + bytes - BytesOf(lost) - (IF k \in Present THEN entries[k].bytes ELSE 0)

(* set: a body that is too large is not kept (and what was kept stays).    *)
Set(k, v) ==
  LET lost == Overflow(k, Bytes[v])
  IN /\ Bytes[v] <= MaxEntryBytes
     /\ entries' = [x \in (Present \ lost) \union {k} |->
          IF x = k THEN [message |-> v, bytes |-> Bytes[v]] ELSE entries[x]]
     /\ order' = Append(Without(order, lost \union {k}), k)
     /\ total' = TotalAfter(k, Bytes[v], lost)

Next == \E k \in CacheKeys : Get(k) \/ Evict(k) \/ \E v \in CachedBodies : Set(k, v)

Spec == Init /\ [][Next]_vars

(* The byte count is the sum of the entries, within the budget, and the    *)
(* order lists exactly the entries: neither drifts over any sequence of    *)
(* replacements, evictions and lookups.                                    *)
CountIsExact ==
  /\ total = BytesOf(Present)
  /\ total <= MaxBytes
  /\ ToSet(order) = Present /\ IsInjective(order)

(* What a new entry pushes out is older than everything that stays.        *)
LeastRecentStep ==
  \A lost \in Present \ Present', kept \in Present \intersect Present' :
    Present' \ Present # {} => Age(lost) < Age(kept)
LeastRecentGoes == [][LeastRecentStep]_vars

(* The abstract cache: what is found under each key.                       *)
Content == [k \in CacheKeys |-> IF k \in Present THEN entries[k].message ELSE None]
Abstract == INSTANCE BoundedCache WITH content <- Content

(* The least recently used cache implements the cache its users rely on.   *)
AbstractStep == Abstract!Next \/ UNCHANGED Content
ImplementsCache == Abstract!Spec
=============================================================================
