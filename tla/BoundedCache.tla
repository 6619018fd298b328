----------------------------- MODULE BoundedCache -----------------------------
(***************************************************************************)
(* What a cache of message bodies promises its users: a lookup finds what  *)
(* was last stored under the key or nothing, storing may be refused and    *)
(* may push out other entries, and nothing else ever appears or changes.   *)
(***************************************************************************)
CONSTANTS CacheKeys, CachedBodies, None

VARIABLE content     \* key -> the body found under it, or None

Init == content = [k \in CacheKeys |-> None]

(* Stored under k, others may go.                                          *)
Put(k, v) ==
  \E lost \in SUBSET (CacheKeys \ {k}) :
    content' = [x \in CacheKeys |-> IF x = k THEN v
                               ELSE IF x \in lost THEN None ELSE content[x]]

Drop(k) == content' = [content EXCEPT ![k] = None]

Next == \E k \in CacheKeys : Drop(k) \/ \E v \in CachedBodies : Put(k, v)

Spec == Init /\ [][Next]_content
=============================================================================
