----------------------------- MODULE ReadCache -----------------------------
(***************************************************************************)
(* The read cache of the API (app/services/repository.py): a dictionary    *)
(* per process, under a lock, from a request's key to an expiry and an     *)
(* answer.  Reads go through it, every commit of the same process clears   *)
(* it, commits of other processes leave it alone.  An answer is abstracted *)
(* to the version of the database its query saw; a key is the cache key of *)
(* a request, and a matchup may be asked for by its own id or by an alias  *)
(* that the database resolves to one.                                      *)
(***************************************************************************)
EXTENDS Integers

CONSTANTS Procs,       \* processes that use the repository
          Threads,     \* request threads
          Scripts,     \* those of them that belong to a job and only write
          Home,        \* Home[t]: the process of thread t
          Keys,        \* cache keys
          NoKey,       \* what a thread without a request was asked for
          Canonical,   \* the keys that name the data itself, not an alias of it
          Ttl,         \* api_read_cache_ttl_sec
          Lag,         \* the longest a thread holds an answer before storing it
          MaxNow,      \* bound on the clock
          MaxVersion   \* bound on the commits

ASSUME CacheAssumption ==
  /\ Home \in [Threads -> Procs] /\ Scripts \subseteq Threads
  /\ Canonical \subseteq Keys /\ NoKey \notin Keys
  /\ Ttl \in Nat /\ Lag \in Nat /\ MaxNow \in Nat /\ MaxVersion \in Nat

VARIABLES now,       \* time.monotonic()
          version,   \* commits so far
          replaced,  \* replaced[v]: when commit v + 1 happened
          cache,     \* _API_READ_CACHE of each process
          pc,        \* where each thread is
          key,       \* the key a thread was asked for
          canon,     \* the canonical key of what it was asked for
          held,      \* the answer a thread holds
          answer,    \* the version in the last answer a thread gave
          settled    \* settled[p]: the last version that p cleared its cache after
                     \* while no thread of p held an older answer (history)

vars == <<now, version, replaced, cache, pc, key, canon, held, answer, settled>>

Versions == 0 .. MaxVersion
NoAnswer == -1
NoEntry == [ver |-> NoAnswer, at |-> 0, expire |-> 0]

\* An answer on its way: the version its query saw, when that was, and when the
\* thread that holds it got it, from the query or from the cache.
Payloads == [ver : Versions, at : 0 .. MaxNow, got : 0 .. MaxNow]
NoPayload == [ver |-> NoAnswer, at |-> 0, got |-> 0]
Entries == [ver : Versions, at : 0 .. MaxNow, expire : Nat]

\* The threads between their query, or their look into the cache, and the set.
Holding == {"copy", "guard", "fill", "fillAlias"}

TypeOK ==
  /\ now \in 0 .. MaxNow
  /\ version \in Versions
  /\ replaced \in [Versions -> 0 .. MaxNow]
  /\ cache \in [Procs -> [Keys -> Entries \cup {NoEntry}]]
  /\ pc \in [Threads -> {"idle", "resolve", "query", "clear"} \cup Holding]
  /\ key \in [Threads -> Keys \cup {NoKey}]
  /\ canon \in [Threads -> Keys \cup {NoKey}]
  /\ held \in [Threads -> Payloads \cup {NoPayload}]
  /\ answer \in [Threads -> Versions \cup {NoAnswer}]
  /\ settled \in [Procs -> Versions]

-----------------------------------------------------------------------------
EmptyCache == [k \in Keys |-> NoEntry]

Init ==
  /\ now = 0 /\ version = 0
  /\ replaced = [v \in Versions |-> 0]
  /\ cache = [p \in Procs |-> EmptyCache]
  /\ pc = [t \in Threads |-> "idle"]
  /\ key = [t \in Threads |-> NoKey] /\ canon = key
  /\ held = [t \in Threads |-> NoPayload]
  /\ answer = [t \in Threads |-> NoAnswer]
  /\ settled = [p \in Procs |-> 0]

\* A mutant: an entry is served whatever its age.
Hit_Ageless(p, k) == Ttl > 0 /\ cache[p][k] # NoEntry

\* _api_read_cache_get finds a live entry.
Hit(p, k) == Ttl > 0 /\ cache[p][k] # NoEntry /\ cache[p][k].expire > now

\* What _api_read_cache_get leaves of the dictionary: an expired entry is popped.
AfterGet(p, k) ==
  IF Ttl > 0 /\ ~ Hit(p, k) THEN [cache EXCEPT ![p][k] = NoEntry] ELSE cache

\* What _api_read_cache_set leaves of it: nothing changes when the cache is off.
AfterSet(p, k, load) ==
  IF Ttl = 0 THEN cache
  ELSE [cache EXCEPT ![p][k] = [ver |-> load.ver, at |-> load.at, expire |-> now + Ttl]]

\* The thread's request ends with the version v in its answer.
Return(t, v) ==
  /\ pc' = [pc EXCEPT ![t] = "idle"]
  /\ answer' = [answer EXCEPT ![t] = v]
  /\ held' = [held EXCEPT ![t] = NoPayload]
  /\ key' = [key EXCEPT ![t] = NoKey]
  /\ canon' = [canon EXCEPT ![t] = NoKey]

-----------------------------------------------------------------------------
(* Reads.                                                                  *)

\* A mutant: a hit renews the entry's life.
ReadHit_Sliding(t, k) ==
  /\ pc[t] = "idle" /\ Hit(Home[t], k)
  /\ Return(t, cache[Home[t]][k].ver)
  /\ cache' = [cache EXCEPT ![Home[t]][k].expire = now + Ttl]
  /\ UNCHANGED <<now, version, replaced, settled>>

\* A fetch_... method or get_matchup starts and the cache has the answer.
ReadHit(t, k) ==
  /\ pc[t] = "idle" /\ Hit(Home[t], k)
  /\ Return(t, cache[Home[t]][k].ver)
  /\ UNCHANGED <<now, version, replaced, cache, settled>>

\* It starts and the cache has none; a matchup id has to be resolved first.
ReadMiss(t, k) ==
  /\ pc[t] = "idle" /\ ~ Hit(Home[t], k)
  /\ cache' = AfterGet(Home[t], k)
  /\ key' = [key EXCEPT ![t] = k]
  /\ canon' = [canon EXCEPT ![t] = k]
  /\ pc' = [pc EXCEPT ![t] = IF k \in Canonical THEN "query" ELSE "resolve"]
  /\ answer' = [answer EXCEPT ![t] = NoAnswer]
  /\ UNCHANGED <<now, version, replaced, held, settled>>

\* _find_matchup_meta resolves an alias to the canonical key c, whose entry is
\* tried next: a hit is going to be copied under the alias.
ResolveHit(t, c) ==
  /\ pc[t] = "resolve" /\ Hit(Home[t], c)
  /\ LET e == cache[Home[t]][c]
     IN  held' = [held EXCEPT ![t] = [ver |-> e.ver, at |-> e.at, got |-> now]]
  /\ canon' = [canon EXCEPT ![t] = c]
  /\ pc' = [pc EXCEPT ![t] = "copy"]
  /\ UNCHANGED <<now, version, replaced, cache, key, answer, settled>>

ResolveMiss(t, c) ==
  /\ pc[t] = "resolve" /\ ~ Hit(Home[t], c)
  /\ cache' = AfterGet(Home[t], c)
  /\ canon' = [canon EXCEPT ![t] = c]
  /\ pc' = [pc EXCEPT ![t] = "query"]
  /\ UNCHANGED <<now, version, replaced, key, held, answer, settled>>

\* The id is unknown, or a statement fails: the request ends and nothing is cached.
ReadFails(t) ==
  /\ pc[t] \in {"resolve", "query"}
  /\ pc' = [pc EXCEPT ![t] = "idle"]
  /\ key' = [key EXCEPT ![t] = NoKey]
  /\ canon' = [canon EXCEPT ![t] = NoKey]
  /\ UNCHANGED <<now, version, replaced, cache, held, answer, settled>>

\* The canonical answer is set under the alias, with a new expiry.
CopyToAlias(t) ==
  /\ pc[t] = "copy"
  /\ cache' = AfterSet(Home[t], key[t], held[t])
  /\ Return(t, held[t].ver)
  /\ UNCHANGED <<now, version, replaced, settled>>

\* The query sees what is committed.  A matchup whose options are all noise also
\* puts itself on the review queue before the answer is stored.
Query(t) ==
  /\ pc[t] = "query"
  /\ held' = [held EXCEPT ![t] = [ver |-> version, at |-> now, got |-> now]]
  /\ pc' \in {[pc EXCEPT ![t] = "fill"], [pc EXCEPT ![t] = "guard"]}
  /\ UNCHANGED <<now, version, replaced, cache, key, canon, answer, settled>>

\* ensure_review_queue_pending commits and clears, or finds a pending row, or fails
\* and the failure is swallowed.
NoiseGuard(t) ==
  /\ pc[t] = "guard"
  /\ \/ cache' = [cache EXCEPT ![Home[t]] = EmptyCache]
     \/ UNCHANGED cache
  /\ pc' = [pc EXCEPT ![t] = "fill"]
  /\ UNCHANGED <<now, version, replaced, key, canon, held, answer, settled>>

\* The answer is set under the canonical key, then under the alias.
Fill(t) ==
  /\ pc[t] = "fill"
  /\ cache' = AfterSet(Home[t], canon[t], held[t])
  /\ \/ canon[t] = key[t] /\ Return(t, held[t].ver)
     \/ /\ canon[t] # key[t] /\ pc' = [pc EXCEPT ![t] = "fillAlias"]
        /\ UNCHANGED <<key, canon, held, answer>>
  /\ UNCHANGED <<now, version, replaced, settled>>

FillAlias(t) ==
  /\ pc[t] = "fillAlias"
  /\ cache' = AfterSet(Home[t], key[t], held[t])
  /\ Return(t, held[t].ver)
  /\ UNCHANGED <<now, version, replaced, settled>>

-----------------------------------------------------------------------------
(* Writes: a method commits, then clears the cache of its own process.     *)

Commit(t) ==
  /\ pc[t] = "idle" /\ version < MaxVersion
  /\ version' = version + 1
  /\ replaced' = [replaced EXCEPT ![version] = now]
  /\ pc' = [pc EXCEPT ![t] = "clear"]
  /\ answer' = [answer EXCEPT ![t] = NoAnswer]
  /\ UNCHANGED <<now, cache, key, canon, held, settled>>

\* No other thread of p holds an answer that it may still store.
NothingHeld(p) == \A u \in Threads : Home[u] = p => pc[u] \notin Holding

\* A mutant: only the keys that name data are dropped.
Clear_Canonical(t) ==
  /\ pc[t] = "clear"
  /\ cache' = [cache EXCEPT ![Home[t]] = [k \in Keys |-> IF k \in Canonical THEN NoEntry ELSE @[k]]]
  /\ pc' = [pc EXCEPT ![t] = "idle"]
  /\ settled' = IF NothingHeld(Home[t]) THEN [settled EXCEPT ![Home[t]] = version] ELSE settled
  /\ UNCHANGED <<now, version, replaced, key, canon, held, answer>>

Clear(t) ==
  /\ pc[t] = "clear"
  /\ cache' = [cache EXCEPT ![Home[t]] = EmptyCache]
  /\ pc' = [pc EXCEPT ![t] = "idle"]
  /\ settled' = IF NothingHeld(Home[t]) THEN [settled EXCEPT ![Home[t]] = version] ELSE settled
  /\ UNCHANGED <<now, version, replaced, key, canon, held, answer>>

\* A process dies with its requests and its cache and is started again.
Restart(p) ==
  /\ cache' = [cache EXCEPT ![p] = EmptyCache]
  /\ pc' = [t \in Threads |-> IF Home[t] = p THEN "idle" ELSE pc[t]]
  /\ held' = [t \in Threads |-> IF Home[t] = p THEN NoPayload ELSE held[t]]
  /\ key' = [t \in Threads |-> IF Home[t] = p THEN NoKey ELSE key[t]]
  /\ canon' = [t \in Threads |-> IF Home[t] = p THEN NoKey ELSE canon[t]]
  /\ UNCHANGED <<now, version, replaced, answer, settled>>

\* Time passes; no thread holds an answer longer than Lag.
Tick ==
  /\ now < MaxNow
  /\ \A t \in Threads : pc[t] \in Holding => now < held[t].got + Lag
  /\ now' = now + 1
  /\ UNCHANGED <<version, replaced, cache, pc, key, canon, held, answer, settled>>

Next ==
  \/ \E t \in Threads \ Scripts :
       \/ \E k \in Keys : ReadHit(t, k) \/ ReadMiss(t, k)
       \/ \E c \in Canonical : ResolveHit(t, c) \/ ResolveMiss(t, c)
       \/ ReadFails(t) \/ CopyToAlias(t)
       \/ Query(t) \/ NoiseGuard(t) \/ Fill(t) \/ FillAlias(t)
  \/ \E t \in Threads : Commit(t) \/ Clear(t)
  \/ \E p \in Procs : Restart(p)
  \/ Tick

Spec == Init /\ [][Next]_vars

-----------------------------------------------------------------------------
(* Properties.                                                             *)

\* How old an answer can be: an alias copies an answer at the end of its life and
\* starts a new one.
Bound == 2 * (Ttl + Lag)

\* How long after its query an entry may still be served.
LifeOf(k) == IF k \in Canonical THEN Ttl + Lag ELSE Bound

\* No entry lives longer after the query that made it than its key allows: one
\* Ttl for the data's own key, two for an alias (_api_read_cache_set gives the
\* copy of get_matchup a fresh expiry).
EntriesAgeOut ==
  \A p \in Procs, k \in Keys :
    cache[p][k] # NoEntry => cache[p][k].expire <= cache[p][k].at + LifeOf(k)

\* A process that has cleared its cache while none of its threads held an answer
\* never again serves or holds an answer from before that commit: only a fill in
\* flight during the clear (repository.py:82) or a commit of another process
\* (repository.py:53) can leave an older one.
NothingOlderThanSettled ==
  \A p \in Procs :
    /\ \A k \in Keys : cache[p][k] # NoEntry => cache[p][k].ver >= settled[p]
    /\ \A t \in Threads : Home[t] = p /\ pc[t] \in Holding => held[t].ver >= settled[p]

\* Whatever processes commit, clear, restart and race, an answer holds a version of
\* the database that was current at most Bound ago: the detailed cache implements
\* the stale register.
Register == INSTANCE StaleRegister WITH Clients <- Threads
ImplementsStaleRegister == Register!Spec
=============================================================================
