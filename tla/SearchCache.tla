------------------------------ MODULE SearchCache ------------------------------
(* SearchApplication::handleRequest on the worker threads of several server  *)
(* processes that share one Redis: each thread has its own L1 (LruCache) and *)
(* its own connection to Redis (RedisClient), made when first needed.        *)
(*                                                                           *)
(* A search result is abstracted to the query and the version of the         *)
(* documents it was computed from.  An instance reads the documents when it  *)
(* starts; an operator may replace them and start it again.                  *)
(*                                                                           *)
(* A GET is two steps, the answer of Redis and its arrival at the client, and *)
(* time passes in between: redis_timeout bounds it for a reply that arrives  *)
(* in one piece (RedisClient.cc:60).                                         *)
EXTENDS Integers, Sequences, SequencesExt

CONSTANTS
    Instance,       \* server processes
    Worker,         \* worker threads of each
    Query,
    Mode,           \* modes the instances may be started with
    LocalCapacity,
    LocalTtl,
    RedisTtl,
    RoundTrip,      \* bound of the time from Redis's answer until it is in the L1
    MaxTime,        \* bounds of the clock,
    MaxDocs,        \* of the document versions
    MaxLate         \* and of the commands in flight

ASSUME CacheAssumption ==
    /\ Mode \subseteq {"Disabled", "LocalOnly", "LocalAndRedis"}
    /\ LocalCapacity \in Nat \ {0}     \* the constructors refuse the rest
    /\ LocalTtl \in Nat \ {0} /\ RedisTtl \in Nat \ {0}
    /\ RoundTrip \in Nat
    /\ MaxTime \in Nat /\ MaxDocs \in Nat \ {0} /\ MaxLate \in Nat

L1 == INSTANCE LruCache WITH Key <- Query, capacity_ <- LocalCapacity, ttl_ <- LocalTtl

Thread == Instance \X Worker
Result == [query : Query, docs : 1..MaxDocs, written : 0..MaxTime]

VARIABLES
    now,
    docs,           \* version each instance has indexed
    mode,           \* its Config::mode
    redis,          \* entries of the Redis server
    late,           \* SET commands sent by a client that gave up on the reply
    pc,             \* of each thread: "idle", "get", "reply", "search", "set"
    query,          \* what it was asked last
    local_cache,    \* its L1
    context_,       \* it holds a Redis connection
    reply,          \* the string Redis has answered it, if any, and when
    used,           \* history: its queries, the most recently used first
    answer          \* history: the answer to its last query and its age, if given

threadVars == <<pc, query, local_cache, context_, reply, used, answer>>
vars == <<now, docs, mode, redis, late, threadVars>>

Entry == [value : Result, expires_at : 1..MaxTime + LocalTtl]
Command == [query : Query, docs : 1..MaxDocs]
Message == [value : Result, at : 0..MaxTime]
Answer == [docs : 1..MaxDocs, age : Int]

TypeOK ==
    /\ now \in 0..MaxTime
    /\ docs \in [Instance -> 1..MaxDocs]
    /\ mode \in [Instance -> Mode]
    /\ DOMAIN redis \subseteq Query
    /\ \A q \in DOMAIN redis : redis[q] \in Result
    /\ late \subseteq Command
    /\ pc \in [Thread -> {"idle", "get", "reply", "search", "set"}]
    /\ query \in [Thread -> Query]
    /\ \A th \in Thread :
          /\ local_cache[th].lru_keys \in Seq(Query)
          /\ DOMAIN local_cache[th].entries \subseteq Query
          /\ \A q \in DOMAIN local_cache[th].entries : local_cache[th].entries[q] \in Entry
    /\ context_ \in [Thread -> BOOLEAN]
    /\ reply \in [Thread -> SUBSET Message]
    /\ used \in [Thread -> Seq(Query)]
    /\ answer \in [Thread -> SUBSET Answer]
    /\ \A th \in Thread : pc[th] \in {"get", "reply", "set"} => mode[th[1]] = "LocalAndRedis"

Init ==
    /\ now = 0
    /\ docs = [i \in Instance |-> 1]
    /\ mode \in [Instance -> Mode]
    /\ redis = <<>>
    /\ late = {}
    /\ pc = [th \in Thread |-> "idle"]
    /\ query \in [Thread -> Query]
    /\ local_cache = [th \in Thread |-> L1!Empty]
    /\ context_ = [th \in Thread |-> FALSE]
    /\ reply = [th \in Thread |-> {}]
    /\ used = [th \in Thread |-> <<>>]
    /\ answer = [th \in Thread |-> {}]

--------------------------------------------------------------------------------
(* A request.                                                                *)

Given(result) == {[docs |-> result.docs, age |-> now - result.written]}

Finish(th, result) ==
    /\ pc' = [pc EXCEPT ![th] = "idle"]
    /\ answer' = [answer EXCEPT ![th] = Given(result)]

AfterMiss(i) == IF mode[i] = "LocalOnly" THEN "search" ELSE "get"

\* SearchCache::get up to the L1: the cached JSON is the answer.
LocalGet(th, q) ==
    /\ pc[th] = "idle"
    /\ query' = [query EXCEPT ![th] = q]
    /\ IF mode[th[1]] = "Disabled"
       THEN /\ pc' = [pc EXCEPT ![th] = "search"]
            /\ answer' = [answer EXCEPT ![th] = {}]
            /\ UNCHANGED <<local_cache, used>>
       ELSE /\ local_cache' = [local_cache EXCEPT ![th] = L1!AfterGet(@, q, now)]
            /\ IF L1!Hit(local_cache[th], q, now)
               THEN /\ Finish(th, local_cache[th].entries[q].value)
                    /\ used' = [used EXCEPT ![th] = L1!ToFront(@, q)]
               ELSE /\ pc' = [pc EXCEPT ![th] = AfterMiss(th[1])]
                    /\ answer' = [answer EXCEPT ![th] = {}]
                    /\ UNCHANGED used
    /\ UNCHANGED <<now, docs, mode, redis, late, context_, reply>>

\* RedisClient::get, connecting first if need be: Redis answers with a string or
\* nil.
RedisGet(th) ==
    /\ pc[th] = "get"
    /\ pc' = [pc EXCEPT ![th] = "reply"]
    /\ context_' = [context_ EXCEPT ![th] = TRUE]
    /\ reply' = [reply EXCEPT ![th] =
          {[value |-> redis[q], at |-> now] : q \in DOMAIN redis \cap {query[th]}}]
    /\ UNCHANGED <<now, docs, mode, redis, late, query, local_cache, used, answer>>

\* The reply arrives: a string goes into the L1, with a new lifetime.
RedisReply(th) ==
    /\ pc[th] = "reply"
    /\ reply' = [reply EXCEPT ![th] = {}]
    /\ \/ /\ reply[th] = {}
          /\ pc' = [pc EXCEPT ![th] = "search"]
          /\ UNCHANGED <<local_cache, used, answer>>
       \/ \E m \in reply[th] :
          /\ local_cache' = [local_cache EXCEPT ![th] = L1!AfterPut(@, query[th], m.value, now)]
          /\ used' = [used EXCEPT ![th] = L1!ToFront(@, query[th])]
          /\ Finish(th, m.value)
    /\ UNCHANGED <<now, docs, mode, redis, late, query, context_>>

\* Redis cannot be reached, or no reply or an unexpected one comes: disconnect.
RedisGetFails(th) ==
    /\ pc[th] \in {"get", "reply"}
    /\ pc' = [pc EXCEPT ![th] = "search"]
    /\ context_' = [context_ EXCEPT ![th] = FALSE]
    /\ reply' = [reply EXCEPT ![th] = {}]
    /\ UNCHANGED <<now, docs, mode, redis, late, query, local_cache, used, answer>>

\* SearchService::search on the index of the instance, then put into the L1.
Search(th) ==
    /\ pc[th] = "search"
    /\ LET r == [query |-> query[th], docs |-> docs[th[1]], written |-> now]
       IN  /\ answer' = [answer EXCEPT ![th] = Given(r)]
           /\ IF mode[th[1]] = "Disabled"
              THEN UNCHANGED <<local_cache, used>>
              ELSE /\ local_cache' = [local_cache EXCEPT ![th] = L1!AfterPut(@, query[th], r, now)]
                   /\ used' = [used EXCEPT ![th] = L1!ToFront(@, query[th])]
    /\ pc' = [pc EXCEPT ![th] = IF mode[th[1]] = "LocalAndRedis" THEN "set" ELSE "idle"]
    /\ UNCHANGED <<now, docs, mode, redis, late, query, context_, reply>>

\* RedisClient::setEx, whose result is ignored: the command reaches Redis and
\* the reply the client; or it does not; or the client gives up on the reply,
\* and Redis may still find the command in the socket.
Store(c) == redis' = [q \in DOMAIN redis \cup {c.query} |->
    IF q = c.query THEN [query |-> q, docs |-> c.docs, written |-> now] ELSE redis[q]]

RedisSet(th) ==
    /\ pc[th] = "set"
    /\ pc' = [pc EXCEPT ![th] = "idle"]
    /\ LET c == [query |-> query[th], docs |-> docs[th[1]]]
       IN  \/ /\ Store(c)
              /\ context_' = [context_ EXCEPT ![th] = TRUE]
              /\ UNCHANGED late
           \/ /\ late' \in {late, late \cup {c}} /\ Cardinality(late') <= MaxLate
              /\ context_' = [context_ EXCEPT ![th] = FALSE]
              /\ UNCHANGED redis
    /\ UNCHANGED <<now, docs, mode, query, local_cache, reply, used, answer>>

--------------------------------------------------------------------------------
(* Around the workers.                                                       *)

LateSet(c) ==
    /\ c \in late
    /\ late' = late \ {c}
    /\ Store(c)
    /\ UNCHANGED <<now, docs, mode, threadVars>>

RedisLosesAll ==
    /\ redis # <<>>
    /\ redis' = <<>>
    /\ UNCHANGED <<now, docs, mode, late, threadVars>>

\* The instance ends, in whatever state, and is started again, in some mode and
\* on the documents there are then.
Restart(i) ==
    /\ \E d \in 1..MaxDocs : docs' = [docs EXCEPT ![i] = d]
    /\ \E m \in Mode : mode' = [mode EXCEPT ![i] = m]
    /\ LET Reset(f, value) == [th \in Thread |-> IF th[1] = i THEN value ELSE f[th]]
       IN  /\ pc' = Reset(pc, "idle")
           /\ local_cache' = Reset(local_cache, L1!Empty)
           /\ context_' = Reset(context_, FALSE)
           /\ reply' = Reset(reply, {})
           /\ used' = Reset(used, <<>>)
           /\ answer' = Reset(answer, {})
    /\ UNCHANGED <<now, redis, late, query>>

\* What Redis still has at a time.
Live(time) == {q \in DOMAIN redis : time < redis[q].written + RedisTtl}

\* Redis drops what expires.  No client waits for a reply beyond RoundTrip.
Tick ==
    /\ now < MaxTime
    /\ \A th \in Thread : \A m \in reply[th] : now < m.at + RoundTrip
    /\ now' = now + 1
    /\ redis' = [q \in Live(now + 1) |-> redis[q]]
    /\ UNCHANGED <<docs, mode, late, threadVars>>

Next ==
    \/ \E th \in Thread :
          \/ \E q \in Query : LocalGet(th, q)
          \/ RedisGet(th) \/ RedisReply(th) \/ RedisGetFails(th)
          \/ Search(th) \/ RedisSet(th)
    \/ \E c \in late : LateSet(c)
    \/ RedisLosesAll \/ Tick
    \/ \E i \in Instance : Restart(i)

Spec == Init /\ [][Next]_vars

--------------------------------------------------------------------------------
(* Properties.                                                               *)

\* The list and the map of every L1 agree, through expiry, eviction and updates
\* (LruCache.cc, get and put: no entry keeps an iterator to an erased node).
ListMatchesMap == \A th \in Thread : L1!Consistent(local_cache[th])

\* A key that put drops was used before every key that stays (LruCache.cc, get
\* and put: the order of splice, push_front and pop_back).
EvictsLeastRecent ==
    [][\A th \in Thread :
          LET stay == DOMAIN local_cache'[th].entries
              gone == DOMAIN local_cache[th].entries \ (stay \cup {query'[th]})
          IN  \A q \in stay, p \in gone : L1!Position(used'[th], q) < L1!Position(used'[th], p)]_vars

\* However a result travelled, from a search or through Redis into an L1 and out
\* of it with any number of hits, it is answered within both lifetimes, and the
\* way from one cache to the other, of the time it was written: computed, or
\* stored by Redis (SearchCache.cc, get: put gives a string from Redis a new
\* lifetime; LruCache.cc, get: a hit does not prolong the life).
StaleBound ==
    \A th \in Thread : \A a \in answer[th] :
        a.age < RedisTtl + RoundTrip + LocalTtl

\* What a worker answers is what the index of its own process gives: the "v1" in
\* the key is enough to identify the version of the index (day29 of the learning
\* log; SearchApplication.cpp, makeSearchCacheKey).
AnswersAreCurrent ==
    \A th \in Thread : \A a \in answer[th] : a.docs = docs[th[1]]
================================================================================
