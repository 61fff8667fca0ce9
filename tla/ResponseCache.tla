--------------------------- MODULE ResponseCache ---------------------------
(***************************************************************************)
(* The cache of authorization answers: internal/cache (an in-memory        *)
(* ttlcache or memcached) and the keys of internal/authorizer/cache.go.    *)
(*                                                                         *)
(* A key is the tuple of the parts it is joined from, so that no two keys  *)
(* are alike because of a comma in a name.  The namespaces are joined in   *)
(* the order given to one of those parts, where lists of names that join   *)
(* to the same text are one: none and a blank one, for example.  Groups    *)
(* are sorted before they are hashed, hence a set; SHA-256 is taken to be  *)
(* free of collisions, and what is hashed to be told apart.                *)
(***************************************************************************)
EXTENDS NameLists

CONSTANTS
    TTL,       \* --memcached.expire, in clock ticks
    Backend    \* "inmemory" or "memcached"

VARIABLE cache   \* key -> [answer, setAt, since]; absent keys were never set

ASSUME CacheAssumption == TTL \in Int /\ Backend \in {"inmemory", "memcached"}

-----------------------------------------------------------------------------

(* A plausible mistake: the caller's identity is left out of the key. *)
CacheKeyWithoutUser(q, order, keys) ==
    <<Verb(q), q.metadataOnly, APIGroup(q), q.resource, q.tenant, Joined(order), keys>>

(* A plausible mistake: the request's matcher is left out of the key. *)
CacheKeyWithoutMatcher(q, order, keys) ==
    <<Verb(q), q.metadataOnly, APIGroup(q), q.resource, q.tenant, Joined(order),
      Token(q), q.user, q.groups>>

(* A plausible mistake: the namespaces are left out of the key. *)
CacheKeyWithoutNamespaces(q, order, keys) ==
    <<Verb(q), q.metadataOnly, APIGroup(q), q.resource, q.tenant,
      Token(q), q.user, q.groups, keys>>

(* A plausible mistake: metadata requests share entries with the others. *)
CacheKeyWithoutMetadata(q, order, keys) ==
    <<Verb(q), APIGroup(q), q.resource, q.tenant, Joined(order),
      Token(q), q.user, q.groups, keys>>

(* A plausible mistake: reads and writes share entries. *)
CacheKeyWithoutVerb(q, order, keys) ==
    <<q.metadataOnly, APIGroup(q), q.resource, q.tenant, Joined(order),
      Token(q), q.user, q.groups, keys>>

CacheKey(q, order, keys) ==
    <<Verb(q), q.metadataOnly, APIGroup(q), q.resource, q.tenant, Joined(order),
      Token(q), q.user, q.groups, keys>>

(* Which TTLs end: zero means for ever in both backends, a negative one    *)
(* for ever in memory and "expired already" in memcached.                  *)
Expires == TTL > 0 \/ (TTL < 0 /\ Backend = "memcached")

(* How long an entry is kept where TTLs end. *)
MaxAge == IF TTL > 0 THEN TTL ELSE 0

(* An entry that was set is still returned. *)
Live(k) ==
    /\ k \in DOMAIN cache
    /\ Expires => TTL > 0 /\ now <= cache[k].setAt + TTL

(* A plausible mistake: ttlcache's default, a hit starts the TTL afresh. *)
AfterHitTouching(k) == [cache EXCEPT ![k].setAt = now]

(* The cache after a hit: ttlcache runs with DisableTouchOnHit. *)
AfterHit(k) == cache

(* The cache after an answer is saved, replacing what the key held. *)
Saved(k, answer, since) ==
    [x \in DOMAIN cache \cup {k} |->
        IF x = k THEN [answer |-> answer, setAt |-> now, since |-> since]
                 ELSE cache[x]]

(* Only memcached can refuse an answer. *)
SaveMayFail == Backend = "memcached"

(* memcached drops entries when it needs room or restarts.  The in-memory  *)
(* cache has no capacity limit and nobody starts its janitor: it drops     *)
(* nothing.                                                                *)
Evict(k) ==
    /\ Backend = "memcached"
    /\ cache' = [x \in DOMAIN cache \ {k} |-> cache[x]]

=============================================================================
