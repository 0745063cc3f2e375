------------------------------- MODULE LruCache -------------------------------
(* LruCache.cc as operators on the value of one cache: the list lru_keys_,   *)
(* most recently used first, and the map entries_.  Every operation holds    *)
(* the cache's mutex from its first line to its last, so each is one step of *)
(* whoever uses the cache (SearchCache.tla).  The counters are left out.     *)
EXTENDS Integers, Sequences, SequencesExt

CONSTANTS
    Key,
    capacity_,
    ttl_

Empty == [lru_keys |-> <<>>, entries |-> <<>>]

Keys(cache) == DOMAIN cache.entries

\* entries without k.
Without(entries, k) == [j \in DOMAIN entries \ {k} |-> entries[j]]

\* entries with k bound to e.
With(entries, k, e) == [j \in DOMAIN entries \cup {k} |-> IF j = k THEN e ELSE entries[j]]

\* Where k is in the list (lru_position).
Position(keys, k) == CHOOSE i \in DOMAIN keys : keys[i] = k

\* erase: the list without k.
Erase(keys, k) == IF k \in ToSet(keys) THEN RemoveAt(keys, Position(keys, k)) ELSE keys

\* splice, or push_front: k is the first of the list.
ToFront(keys, k) == <<k>> \o Erase(keys, k)

Hit(cache, k, now) == k \in Keys(cache) /\ now < cache.entries[k].expires_at

\* Fault: a hit prolongs the entry's life.
Faulty_AfterGet(cache, k, now) ==
    IF Hit(cache, k, now)
    THEN [lru_keys |-> ToFront(cache.lru_keys, k),
          entries  |-> [cache.entries EXCEPT ![k].expires_at = now + ttl_]]
    ELSE [lru_keys |-> Erase(cache.lru_keys, k), entries |-> Without(cache.entries, k)]

\* Fault: an expired entry leaves the map and stays in the list.
Faulty_AfterGetKeepsKey(cache, k, now) ==
    IF Hit(cache, k, now)
    THEN [cache EXCEPT !.lru_keys = ToFront(@, k)]
    ELSE [cache EXCEPT !.entries = Without(@, k)]

\* Fault: a hit leaves the key where it is in the list.
Faulty_AfterGetUnmoved(cache, k, now) ==
    IF Hit(cache, k, now)
    THEN cache
    ELSE [lru_keys |-> Erase(cache.lru_keys, k), entries |-> Without(cache.entries, k)]

\* get: a hit makes k the most recently used key; an expired entry is erased.
AfterGet(cache, k, now) ==
    IF Hit(cache, k, now)
    THEN [cache EXCEPT !.lru_keys = ToFront(@, k)]
    ELSE [lru_keys |-> Erase(cache.lru_keys, k), entries |-> Without(cache.entries, k)]

\* put: k becomes the most recently used key, and if that makes one too many the
\* least recently used one is dropped.
AfterPut(cache, k, value, now) ==
    LET entries == With(cache.entries, k, [value |-> value, expires_at |-> now + ttl_])
        keys == ToFront(cache.lru_keys, k)
    IN  IF Len(keys) > capacity_
        THEN [lru_keys |-> Front(keys), entries |-> Without(entries, Last(keys))]
        ELSE [lru_keys |-> keys, entries |-> entries]

\* The list and the map have the same keys, the list each of them once, and
\* there are not too many.
Consistent(cache) ==
    /\ ToSet(cache.lru_keys) = Keys(cache)
    /\ \A i, j \in DOMAIN cache.lru_keys : cache.lru_keys[i] = cache.lru_keys[j] => i = j
    /\ Len(cache.lru_keys) <= capacity_
================================================================================
