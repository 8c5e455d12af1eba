-------------------------- MODULE ReadCacheProofs --------------------------
(***************************************************************************)
(* Proofs about ReadCache, for any number of processes, threads and keys   *)
(* and any Ttl and Lag: its types, how entries age, what a settled clear   *)
(* guarantees, and that it implements StaleRegister.                       *)
(***************************************************************************)
EXTENDS ReadCache, TLAPS

\* The version v was current at time a.
CurrentAt(v, a) ==
  v \in 0 .. version /\ a \in 0 .. now /\ (v < version => replaced[v] >= a)

\* What is known of a thread in mid-request.
ThreadKeys(t) ==
  /\ pc[t] \in {"query"} \cup Holding => canon[t] \in Canonical
  /\ pc[t] \in {"resolve", "copy", "fillAlias"} => key[t] \in Keys \ Canonical
  /\ pc[t] \in {"query", "guard", "fill"} =>
       key[t] \in Keys /\ (key[t] = canon[t] \/ key[t] \notin Canonical)

ThreadHeld(t) ==
  pc[t] \in Holding =>
    /\ held[t] \in Payloads
    /\ CurrentAt(held[t].ver, held[t].at)
    /\ held[t].got <= now /\ now <= held[t].got + Lag
    /\ pc[t] # "copy" => held[t].got = held[t].at
    /\ held[t].got <= held[t].at + Ttl + Lag

EntryOK(p, k) ==
  cache[p][k] # NoEntry =>
    /\ CurrentAt(cache[p][k].ver, cache[p][k].at)
    /\ cache[p][k].expire <= cache[p][k].at + LifeOf(k)

IInv ==
  /\ TypeOK
  /\ \A t \in Threads : ThreadKeys(t) /\ ThreadHeld(t)
  /\ \A p \in Procs, k \in Keys : EntryOK(p, k)
  /\ NothingOlderThanSettled
  /\ \A p \in Procs : settled[p] <= version

-----------------------------------------------------------------------------
(* What get, set and clear leave of the dictionary.                        *)

CacheTypes == [Procs -> [Keys -> Entries \cup {NoEntry}]]

\* _api_read_cache_get only ever removes the entry it looked at.
LEMMA GetLeaves ==
  ASSUME TypeOK, NEW p \in Procs, NEW k \in Keys
  PROVE  /\ AfterGet(p, k) \in CacheTypes
         /\ \A q \in Procs, j \in Keys :
              AfterGet(p, k)[q][j] = cache[q][j] \/ AfterGet(p, k)[q][j] = NoEntry
PROOF BY DEF TypeOK, AfterGet, CacheTypes

\* _api_read_cache_set only ever replaces the entry of its key, by the answer with
\* a fresh expiry.
LEMMA SetLeaves ==
  ASSUME TypeOK, NEW p \in Procs, NEW k \in Keys, NEW load \in Payloads
  PROVE  /\ AfterSet(p, k, load) \in CacheTypes
         /\ \A q \in Procs, j \in Keys :
              \/ AfterSet(p, k, load)[q][j] = cache[q][j]
              \/ /\ q = p /\ j = k
                 /\ AfterSet(p, k, load)[q][j] =
                      [ver |-> load.ver, at |-> load.at, expire |-> now + Ttl]
<1> DEFINE e == [ver |-> load.ver, at |-> load.at, expire |-> now + Ttl]
<1>1. e \in Entries
  BY CacheAssumption DEF TypeOK, Payloads, Entries
<1>2. AfterSet(p, k, load) = IF Ttl = 0 THEN cache ELSE [cache EXCEPT ![p][k] = e]
  BY DEF AfterSet
<1>3. cache \in CacheTypes
  BY DEF TypeOK, CacheTypes
<1> HIDE DEF e
<1>4. QED
  BY <1>1, <1>2, <1>3 DEF CacheTypes, e

\* A clear removes every entry of its process and no other.
LEMMA ClearLeaves ==
  ASSUME TypeOK, NEW p \in Procs
  PROVE  /\ [cache EXCEPT ![p] = EmptyCache] \in CacheTypes
         /\ \A q \in Procs, j \in Keys :
              [cache EXCEPT ![p] = EmptyCache][q][j] = IF q = p THEN NoEntry ELSE cache[q][j]
PROOF BY DEF TypeOK, EmptyCache, CacheTypes

-----------------------------------------------------------------------------
(* What a step leaves alone keeps its part of the invariant.               *)

SameTime == now' = now /\ version' = version /\ replaced' = replaced

LEMMA ThreadStays ==
  ASSUME NEW u \in Threads, SameTime, ThreadKeys(u), ThreadHeld(u),
         pc'[u] = pc[u], key'[u] = key[u], canon'[u] = canon[u], held'[u] = held[u]
  PROVE  ThreadKeys(u)' /\ ThreadHeld(u)'
PROOF BY DEF SameTime, ThreadKeys, ThreadHeld, CurrentAt

LEMMA IdleThread ==
  ASSUME NEW u \in Threads, pc'[u] = "idle" \/ pc'[u] = "clear"
  PROVE  ThreadKeys(u)' /\ ThreadHeld(u)'
PROOF BY DEF ThreadKeys, ThreadHeld, Holding

\* Entries that stay or go keep the invariant.
LEMMA EntriesStay ==
  ASSUME IInv, SameTime,
         \A q \in Procs, j \in Keys : cache'[q][j] = cache[q][j] \/ cache'[q][j] = NoEntry
  PROVE  \A q \in Procs, j \in Keys : EntryOK(q, j)'
PROOF BY DEF IInv, SameTime, EntryOK, CurrentAt, LifeOf, Bound, NoEntry

LEMMA SettledEntriesStay ==
  ASSUME IInv, settled' = settled,
         \A q \in Procs, j \in Keys : cache'[q][j] = cache[q][j] \/ cache'[q][j] = NoEntry
  PROVE  \A q \in Procs, j \in Keys : cache'[q][j] # NoEntry => cache'[q][j].ver >= settled'[q]
PROOF BY DEF IInv, NothingOlderThanSettled

-----------------------------------------------------------------------------
(* Each action preserves the invariant.                                    *)

LEMMA InitInv == Init => IInv
<1> SUFFICES ASSUME Init PROVE IInv
  OBVIOUS
<1>1. TypeOK
  BY CacheAssumption DEF Init, TypeOK, EmptyCache, Versions, Entries
<1>2. QED
  BY <1>1, CacheAssumption DEF Init, IInv, ThreadKeys, ThreadHeld, Holding, EntryOK, EmptyCache,
     NothingOlderThanSettled

LEMMA HitStep ==
  ASSUME IInv, NEW t \in Threads, NEW k \in Keys, ReadHit(t, k)
  PROVE  IInv'
<1>1. cache[Home[t]][k].ver \in Versions
  BY CacheAssumption DEF ReadHit, Hit, IInv, TypeOK, Entries
<1>2. TypeOK'
  <2>1. pc' = [pc EXCEPT ![t] = "idle"] /\ key' = [key EXCEPT ![t] = NoKey]
        /\ canon' = [canon EXCEPT ![t] = NoKey] /\ held' = [held EXCEPT ![t] = NoPayload]
        /\ answer' = [answer EXCEPT ![t] = cache[Home[t]][k].ver]
    BY DEF ReadHit, Return
  <2>2. QED
    BY <1>1, <2>1 DEF ReadHit, IInv, TypeOK
<1>3. \A u \in Threads : ThreadKeys(u)' /\ ThreadHeld(u)'
  <2> TAKE u \in Threads
  <2>1. CASE u = t
    BY <2>1, IdleThread DEF ReadHit, Return, IInv, TypeOK
  <2>2. CASE u # t
    BY <2>2, ThreadStays DEF ReadHit, Return, IInv, TypeOK, SameTime
  <2>3. QED
    BY <2>1, <2>2
<1>4. \A q \in Procs, j \in Keys : EntryOK(q, j)'
  BY EntriesStay DEF ReadHit, SameTime
<1>5. NothingOlderThanSettled'
  BY DEF ReadHit, Return, IInv, TypeOK, NothingOlderThanSettled, Holding
<1>6. QED
  BY <1>2, <1>3, <1>4, <1>5 DEF IInv, ReadHit

LEMMA MissStep ==
  ASSUME IInv, NEW t \in Threads, NEW k \in Keys, ReadMiss(t, k)
  PROVE  IInv'
<1>1. Home[t] \in Procs
  BY CacheAssumption
<1>2. /\ cache' \in CacheTypes
      /\ \A q \in Procs, j \in Keys : cache'[q][j] = cache[q][j] \/ cache'[q][j] = NoEntry
  BY <1>1, GetLeaves DEF ReadMiss, IInv
<1>3. TypeOK'
  BY <1>2 DEF ReadMiss, IInv, TypeOK, CacheTypes
<1>4. \A u \in Threads : ThreadKeys(u)' /\ ThreadHeld(u)'
  <2> TAKE u \in Threads
  <2>1. CASE u = t
    BY <2>1 DEF ReadMiss, IInv, TypeOK, ThreadKeys, ThreadHeld, Holding
  <2>2. CASE u # t
    BY <2>2, ThreadStays DEF ReadMiss, IInv, TypeOK, SameTime
  <2>3. QED
    BY <2>1, <2>2
<1>5. \A q \in Procs, j \in Keys : EntryOK(q, j)'
  BY <1>2, EntriesStay DEF ReadMiss, SameTime
<1>6. NothingOlderThanSettled'
  <2>1. \A q \in Procs, j \in Keys : cache'[q][j] # NoEntry => cache'[q][j].ver >= settled'[q]
    BY <1>2, SettledEntriesStay DEF ReadMiss
  <2>2. \A q \in Procs, u \in Threads :
          Home[u] = q /\ pc'[u] \in Holding => held'[u].ver >= settled'[q]
    BY DEF ReadMiss, IInv, TypeOK, NothingOlderThanSettled, Holding
  <2>3. QED
    BY <2>1, <2>2 DEF NothingOlderThanSettled
<1>7. QED
  BY <1>3, <1>4, <1>5, <1>6 DEF IInv, ReadMiss

LEMMA ResolveMissStep ==
  ASSUME IInv, NEW t \in Threads, NEW c \in Canonical, ResolveMiss(t, c)
  PROVE  IInv'
<1>1. Home[t] \in Procs /\ c \in Keys
  BY CacheAssumption
<1>2. /\ cache' \in CacheTypes
      /\ \A q \in Procs, j \in Keys : cache'[q][j] = cache[q][j] \/ cache'[q][j] = NoEntry
  BY <1>1, GetLeaves DEF ResolveMiss, IInv
<1>3. TypeOK'
  BY <1>1, <1>2 DEF ResolveMiss, IInv, TypeOK, CacheTypes
<1>4. \A u \in Threads : ThreadKeys(u)' /\ ThreadHeld(u)'
  <2> TAKE u \in Threads
  <2>1. CASE u = t
    BY <2>1 DEF ResolveMiss, IInv, TypeOK, ThreadKeys, ThreadHeld, Holding
  <2>2. CASE u # t
    BY <2>2, ThreadStays DEF ResolveMiss, IInv, TypeOK, SameTime
  <2>3. QED
    BY <2>1, <2>2
<1>5. \A q \in Procs, j \in Keys : EntryOK(q, j)'
  BY <1>2, EntriesStay DEF ResolveMiss, SameTime
<1>6. NothingOlderThanSettled'
  <2>1. \A q \in Procs, j \in Keys : cache'[q][j] # NoEntry => cache'[q][j].ver >= settled'[q]
    BY <1>2, SettledEntriesStay DEF ResolveMiss
  <2>2. \A q \in Procs, u \in Threads :
          Home[u] = q /\ pc'[u] \in Holding => held'[u].ver >= settled'[q]
    BY DEF ResolveMiss, IInv, TypeOK, NothingOlderThanSettled, Holding
  <2>3. QED
    BY <2>1, <2>2 DEF NothingOlderThanSettled
<1>7. QED
  BY <1>3, <1>4, <1>5, <1>6 DEF IInv, ResolveMiss

LEMMA ResolveHitStep ==
  ASSUME IInv, NEW t \in Threads, NEW c \in Canonical, ResolveHit(t, c)
  PROVE  IInv'
<1> DEFINE e == cache[Home[t]][c]
           load == [ver |-> e.ver, at |-> e.at, got |-> now]
<1>1. Home[t] \in Procs /\ c \in Keys
  BY CacheAssumption
<1>2. /\ e \in Entries /\ e.expire > now
      /\ CurrentAt(e.ver, e.at) /\ e.expire <= e.at + Ttl + Lag
      /\ e.ver >= settled[Home[t]]
  <2>1. e \in Entries /\ e # NoEntry /\ e.expire > now
    BY <1>1 DEF ResolveHit, Hit, IInv, TypeOK
  <2>2. EntryOK(Home[t], c)
    BY <1>1 DEF IInv
  <2>3. CurrentAt(e.ver, e.at) /\ e.expire <= e.at + LifeOf(c)
    BY <2>1, <2>2 DEF EntryOK
  <2>4. LifeOf(c) = Ttl + Lag
    BY DEF LifeOf
  <2>5. e.ver >= settled[Home[t]]
    BY <1>1, <2>1 DEF IInv, NothingOlderThanSettled
  <2>6. QED
    BY <2>1, <2>3, <2>4, <2>5, CacheAssumption DEF Entries
<1>3. load \in Payloads
  BY <1>2 DEF Payloads, Entries, IInv, TypeOK
<1>4. held' = [held EXCEPT ![t] = load]
  BY DEF ResolveHit
<1>5. held'[t] = load /\ pc'[t] = "copy" /\ canon'[t] = c /\ key'[t] = key[t] /\ pc[t] = "resolve"
  BY <1>4 DEF ResolveHit, IInv, TypeOK
<1>6. TypeOK'
  BY <1>1, <1>3, <1>4 DEF ResolveHit, IInv, TypeOK, Holding
<1>7. \A u \in Threads : ThreadKeys(u)' /\ ThreadHeld(u)'
  <2> TAKE u \in Threads
  <2>1. CASE u = t
    <3>1. ThreadKeys(t)'
      BY <1>5 DEF IInv, ThreadKeys, Holding
    <3>2. load.ver = e.ver /\ load.at = e.at /\ load.got = now
      OBVIOUS
    <3>3. now \in Nat /\ e.at \in Nat /\ e.expire \in Nat /\ Ttl \in Nat /\ Lag \in Nat
      BY <1>2, CacheAssumption DEF Entries, IInv, TypeOK
    <3>4. load.got <= load.at + Ttl + Lag
      BY <1>2, <3>2, <3>3
    <3>5. CurrentAt(load.ver, load.at)
      BY <1>2, <3>2
    <3> HIDE DEF load
    <3>6. ThreadHeld(t)'
      BY <1>3, <1>5, <3>2, <3>3, <3>4, <3>5 DEF ThreadHeld, ResolveHit, CurrentAt
    <3>7. QED
      BY <2>1, <3>1, <3>6
  <2>2. CASE u # t
    BY <2>2, ThreadStays DEF ResolveHit, IInv, TypeOK, SameTime
  <2>3. QED
    BY <2>1, <2>2
<1>8. \A q \in Procs, j \in Keys : EntryOK(q, j)'
  BY EntriesStay DEF ResolveHit, SameTime
<1>9. NothingOlderThanSettled'
  <2>1. load.ver = e.ver
    OBVIOUS
  <2> HIDE DEF load, e
  <2>2. \A u \in Threads : pc'[u] \in Holding => held'[u].ver >= settled[Home[u]]
    BY <1>2, <1>4, <1>5, <2>1, CacheAssumption DEF ResolveHit, IInv, TypeOK, NothingOlderThanSettled
  <2>3. QED
    BY <2>2 DEF ResolveHit, IInv, NothingOlderThanSettled
<1>10. QED
  BY <1>6, <1>7, <1>8, <1>9 DEF IInv, ResolveHit

LEMMA FailStep ==
  ASSUME IInv, NEW t \in Threads, ReadFails(t)
  PROVE  IInv'
<1>1. TypeOK'
  BY DEF ReadFails, IInv, TypeOK
<1>2. \A u \in Threads : ThreadKeys(u)' /\ ThreadHeld(u)'
  <2> TAKE u \in Threads
  <2>1. CASE u = t
    BY <2>1, IdleThread DEF ReadFails, IInv, TypeOK
  <2>2. CASE u # t
    BY <2>2, ThreadStays DEF ReadFails, IInv, TypeOK, SameTime
  <2>3. QED
    BY <2>1, <2>2
<1>3. \A q \in Procs, j \in Keys : EntryOK(q, j)'
  BY EntriesStay DEF ReadFails, SameTime
<1>4. NothingOlderThanSettled'
  BY DEF ReadFails, IInv, TypeOK, NothingOlderThanSettled, Holding
<1>5. QED
  BY <1>1, <1>2, <1>3, <1>4 DEF IInv, ReadFails

\* Storing the answer a thread holds keeps the entries as they should be, provided
\* an answer out of the cache only goes to an alias.
LEMMA SetKeepsEntries ==
  ASSUME IInv, NEW t \in Threads, NEW k \in Keys, SameTime, settled' = settled,
         pc[t] \in Holding, pc[t] = "copy" => k \notin Canonical,
         cache' = AfterSet(Home[t], k, held[t])
  PROVE  /\ cache' \in CacheTypes
         /\ \A q \in Procs, j \in Keys : EntryOK(q, j)'
         /\ \A q \in Procs, j \in Keys : cache'[q][j] # NoEntry => cache'[q][j].ver >= settled'[q]
<1> DEFINE e == [ver |-> held[t].ver, at |-> held[t].at, expire |-> now + Ttl]
<1>1. Home[t] \in Procs
  BY CacheAssumption
<1>2. held[t] \in Payloads /\ ThreadHeld(t)
  BY DEF IInv, ThreadHeld
<1>3. /\ cache' \in CacheTypes
      /\ \A q \in Procs, j \in Keys :
           cache'[q][j] = cache[q][j] \/ (q = Home[t] /\ j = k /\ cache'[q][j] = e)
  BY <1>1, <1>2, SetLeaves DEF IInv
<1>4. e.ver = held[t].ver /\ e.at = held[t].at /\ e.expire = now + Ttl
  OBVIOUS
<1>5. CurrentAt(e.ver, e.at)
  BY <1>2, <1>4 DEF ThreadHeld
<1>6. e.expire <= e.at + LifeOf(k)
  <2>1. now \in Nat /\ held[t].at \in Nat /\ held[t].got \in Nat /\ Ttl \in Nat /\ Lag \in Nat
    BY <1>2, CacheAssumption DEF Payloads, IInv, TypeOK
  <2>2. now <= held[t].got + Lag
    BY <1>2 DEF ThreadHeld
  <2>3. CASE pc[t] = "copy"
    <3>1. LifeOf(k) = 2 * (Ttl + Lag)
      BY <2>3 DEF LifeOf, Bound
    <3>2. held[t].got <= held[t].at + Ttl + Lag
      BY <1>2 DEF ThreadHeld
    <3>3. now + Ttl <= held[t].at + 2 * (Ttl + Lag)
      BY <2>1, <2>2, <3>2
    <3>4. QED
      BY <1>4, <3>1, <3>3
  <2>4. CASE pc[t] # "copy"
    <3>1. held[t].got = held[t].at
      BY <1>2, <2>4 DEF ThreadHeld
    <3>2. LifeOf(k) >= Ttl + Lag
      BY <2>1 DEF LifeOf, Bound
    <3>3. LifeOf(k) \in Nat
      BY <2>1 DEF LifeOf, Bound
    <3>4. QED
      BY <1>4, <2>1, <2>2, <3>1, <3>2, <3>3
  <2>5. QED
    BY <2>3, <2>4
<1>7. e.ver >= settled[Home[t]]
  BY <1>1, <1>4 DEF IInv, NothingOlderThanSettled
<1> HIDE DEF e
<1>8. \A q \in Procs, j \in Keys : EntryOK(q, j)'
  <2> TAKE q \in Procs, j \in Keys
  <2>1. EntryOK(q, j)
    BY DEF IInv
  <2>2. CASE cache'[q][j] = cache[q][j]
    BY <2>1, <2>2 DEF EntryOK, CurrentAt, SameTime, LifeOf, Bound
  <2>3. CASE j = k /\ cache'[q][j] = e
    BY <1>5, <1>6, <2>3 DEF EntryOK, CurrentAt, SameTime, LifeOf, Bound
  <2>4. QED
    BY <1>3, <2>2, <2>3
<1>9. \A q \in Procs, j \in Keys : cache'[q][j] # NoEntry => cache'[q][j].ver >= settled'[q]
  BY <1>3, <1>7 DEF IInv, NothingOlderThanSettled
<1>10. QED
  BY <1>3, <1>8, <1>9

\* A step of t that stores what it holds and ends.
LEMMA StoreAndReturn ==
  ASSUME IInv, NEW t \in Threads, NEW k \in Keys, SameTime, settled' = settled,
         pc[t] \in Holding, pc[t] = "copy" => k \notin Canonical,
         cache' = AfterSet(Home[t], k, held[t]), Return(t, held[t].ver)
  PROVE  IInv'
<1>1. /\ cache' \in CacheTypes
      /\ \A q \in Procs, j \in Keys : EntryOK(q, j)'
      /\ \A q \in Procs, j \in Keys : cache'[q][j] # NoEntry => cache'[q][j].ver >= settled'[q]
  BY SetKeepsEntries
<1>2. held[t].ver \in Versions
  BY DEF IInv, ThreadHeld, Payloads
<1>3. TypeOK'
  BY <1>1, <1>2 DEF Return, IInv, TypeOK, CacheTypes, SameTime
<1>4. \A u \in Threads : ThreadKeys(u)' /\ ThreadHeld(u)'
  <2> TAKE u \in Threads
  <2>1. CASE u = t
    BY <2>1, IdleThread DEF Return, IInv, TypeOK
  <2>2. CASE u # t
    BY <2>2, ThreadStays DEF Return, IInv, TypeOK
  <2>3. QED
    BY <2>1, <2>2
<1>5. \A q \in Procs, u \in Threads :
        Home[u] = q /\ pc'[u] \in Holding => held'[u].ver >= settled'[q]
  BY DEF Return, IInv, TypeOK, NothingOlderThanSettled, Holding
<1>6. NothingOlderThanSettled'
  BY <1>1, <1>5 DEF NothingOlderThanSettled
<1>7. QED
  BY <1>1, <1>3, <1>4, <1>6 DEF IInv, SameTime

LEMMA CopyStep ==
  ASSUME IInv, NEW t \in Threads, CopyToAlias(t)
  PROVE  IInv'
<1>1. key[t] \in Keys /\ key[t] \notin Canonical /\ pc[t] \in Holding
  BY DEF CopyToAlias, IInv, ThreadKeys, Holding
<1>2. QED
  BY <1>1, StoreAndReturn DEF CopyToAlias, SameTime

LEMMA FillAliasStep ==
  ASSUME IInv, NEW t \in Threads, FillAlias(t)
  PROVE  IInv'
<1>1. key[t] \in Keys /\ pc[t] \in Holding
  BY DEF FillAlias, IInv, ThreadKeys, Holding
<1>2. QED
  BY <1>1, StoreAndReturn DEF FillAlias, SameTime

LEMMA FillStep ==
  ASSUME IInv, NEW t \in Threads, Fill(t)
  PROVE  IInv'
<1>1. /\ canon[t] \in Canonical /\ canon[t] \in Keys /\ key[t] \in Keys
      /\ key[t] = canon[t] \/ key[t] \notin Canonical
      /\ pc[t] = "fill" /\ pc[t] \in Holding
  BY CacheAssumption DEF Fill, IInv, ThreadKeys, Holding
<1>2. CASE canon[t] = key[t]
  BY <1>1, <1>2, StoreAndReturn DEF Fill, SameTime
<1>3. CASE canon[t] # key[t]
  <2>1. /\ cache' \in CacheTypes
        /\ \A q \in Procs, j \in Keys : EntryOK(q, j)'
        /\ \A q \in Procs, j \in Keys : cache'[q][j] # NoEntry => cache'[q][j].ver >= settled'[q]
    BY <1>1, SetKeepsEntries DEF Fill, SameTime
  <2>2. /\ pc' = [pc EXCEPT ![t] = "fillAlias"]
        /\ UNCHANGED <<now, version, replaced, key, canon, held, answer, settled>>
    BY <1>3 DEF Fill
  <2>3. TypeOK'
    BY <2>1, <2>2 DEF IInv, TypeOK, CacheTypes, Holding
  <2>4. \A u \in Threads : ThreadKeys(u)' /\ ThreadHeld(u)'
    <3> TAKE u \in Threads
    <3>1. CASE u = t
      <4>1. ThreadHeld(t)
        BY DEF IInv
      <4>2. QED
        BY <1>1, <1>3, <2>2, <3>1, <4>1 DEF IInv, TypeOK, ThreadKeys, ThreadHeld, CurrentAt, Holding
    <3>2. CASE u # t
      BY <2>2, <3>2, ThreadStays DEF IInv, TypeOK, SameTime
    <3>3. QED
      BY <3>1, <3>2
  <2>5. NothingOlderThanSettled'
    BY <1>1, <2>1, <2>2 DEF IInv, TypeOK, NothingOlderThanSettled
  <2>6. QED
    BY <2>1, <2>2, <2>3, <2>4, <2>5 DEF IInv
<1>4. QED
  BY <1>2, <1>3

LEMMA QueryStep ==
  ASSUME IInv, NEW t \in Threads, Query(t)
  PROVE  IInv'
<1> DEFINE load == [ver |-> version, at |-> now, got |-> now]
<1>1. held' = [held EXCEPT ![t] = load]
  BY DEF Query
<1>2. load \in Payloads
  BY DEF IInv, TypeOK, Payloads
<1>3. load.ver = version /\ load.at = now /\ load.got = now
  OBVIOUS
<1> HIDE DEF load
<1>4. held'[t] = load /\ pc'[t] \in {"fill", "guard"} /\ pc[t] = "query"
  BY <1>1 DEF Query, IInv, TypeOK
<1>5. TypeOK'
  BY <1>1, <1>2 DEF Query, IInv, TypeOK, Holding
<1>6. \A u \in Threads : ThreadKeys(u)' /\ ThreadHeld(u)'
  <2> TAKE u \in Threads
  <2>1. CASE u = t
    <3>1. ThreadKeys(t)'
      BY <1>4 DEF Query, IInv, ThreadKeys, Holding
    <3>2. CurrentAt(load.ver, load.at)
      BY <1>3, CacheAssumption DEF CurrentAt, IInv, TypeOK, Versions
    <3>3. now \in Nat /\ Ttl \in Nat /\ Lag \in Nat
      BY CacheAssumption DEF IInv, TypeOK
    <3>4. ThreadHeld(t)'
      BY <1>2, <1>3, <1>4, <3>2, <3>3 DEF Query, ThreadHeld, CurrentAt
    <3>5. QED
      BY <2>1, <3>1, <3>4
  <2>2. CASE u # t
    BY <2>2, ThreadStays DEF Query, IInv, TypeOK, SameTime
  <2>3. QED
    BY <2>1, <2>2
<1>7. \A q \in Procs, j \in Keys : EntryOK(q, j)'
  BY EntriesStay DEF Query, SameTime
<1>8. NothingOlderThanSettled'
  <2>1. \A u \in Threads : pc'[u] \in Holding => held'[u].ver >= settled[Home[u]]
    BY <1>1, <1>3, <1>4, CacheAssumption DEF Query, IInv, TypeOK, NothingOlderThanSettled
  <2>2. QED
    BY <2>1 DEF Query, IInv, NothingOlderThanSettled
<1>9. QED
  BY <1>5, <1>6, <1>7, <1>8 DEF IInv, Query

LEMMA GuardStep ==
  ASSUME IInv, NEW t \in Threads, NoiseGuard(t)
  PROVE  IInv'
<1>1. Home[t] \in Procs
  BY CacheAssumption
<1>2. /\ cache' \in CacheTypes
      /\ \A q \in Procs, j \in Keys : cache'[q][j] = cache[q][j] \/ cache'[q][j] = NoEntry
  BY <1>1, ClearLeaves DEF NoiseGuard, IInv, TypeOK, CacheTypes
<1>3. TypeOK'
  BY <1>2 DEF NoiseGuard, IInv, TypeOK, CacheTypes, Holding
<1>4. \A u \in Threads : ThreadKeys(u)' /\ ThreadHeld(u)'
  <2> TAKE u \in Threads
  <2>1. CASE u = t
    <3>1. ThreadHeld(t)
      BY DEF IInv
    <3>2. QED
      BY <2>1, <3>1 DEF NoiseGuard, IInv, TypeOK, ThreadKeys, ThreadHeld, CurrentAt, Holding
  <2>2. CASE u # t
    BY <2>2, ThreadStays DEF NoiseGuard, IInv, TypeOK, SameTime
  <2>3. QED
    BY <2>1, <2>2
<1>5. \A q \in Procs, j \in Keys : EntryOK(q, j)'
  BY <1>2, EntriesStay DEF NoiseGuard, SameTime
<1>6. NothingOlderThanSettled'
  <2>1. \A q \in Procs, j \in Keys : cache'[q][j] # NoEntry => cache'[q][j].ver >= settled'[q]
    BY <1>2, SettledEntriesStay DEF NoiseGuard
  <2>2. \A q \in Procs, u \in Threads :
          Home[u] = q /\ pc'[u] \in Holding => held'[u].ver >= settled'[q]
    BY DEF NoiseGuard, IInv, TypeOK, NothingOlderThanSettled, Holding
  <2>3. QED
    BY <2>1, <2>2 DEF NothingOlderThanSettled
<1>7. QED
  BY <1>3, <1>4, <1>5, <1>6 DEF IInv, NoiseGuard

\* A commit makes the current version an old one, replaced now.
LEMMA CommitKeepsTimes ==
  ASSUME IInv, NEW t \in Threads, Commit(t), NEW v, NEW a, CurrentAt(v, a)
  PROVE  CurrentAt(v, a)'
<1>1. /\ version' = version + 1 /\ now' = now
      /\ replaced' = [replaced EXCEPT ![version] = now]
  BY DEF Commit
<1>2. /\ version \in Versions /\ version \in Nat /\ now \in Nat
      /\ replaced \in [Versions -> 0 .. MaxNow]
  BY CacheAssumption DEF IInv, TypeOK, Versions
<1>3. v \in 0 .. version' /\ a \in 0 .. now'
  BY <1>1, <1>2 DEF CurrentAt
<1>4. ASSUME v < version' PROVE replaced'[v] >= a
  <2>1. CASE v = version
    BY <1>1, <1>2, <2>1 DEF CurrentAt
  <2>2. CASE v < version
    BY <1>1, <1>2, <2>2 DEF CurrentAt, Versions
  <2>3. QED
    BY <1>1, <1>2, <1>3, <1>4, <2>1, <2>2
<1>5. QED
  BY <1>3, <1>4 DEF CurrentAt

LEMMA CommitStep ==
  ASSUME IInv, NEW t \in Threads, Commit(t)
  PROVE  IInv'
<1>1. version' \in Versions /\ version' = version + 1 /\ version \in Nat
  BY CacheAssumption DEF Commit, IInv, TypeOK, Versions
<1>2. TypeOK'
  BY <1>1 DEF Commit, IInv, TypeOK, Holding
<1>3. \A u \in Threads : ThreadKeys(u)' /\ ThreadHeld(u)'
  <2> TAKE u \in Threads
  <2>1. CASE u = t
    BY <2>1, IdleThread DEF Commit, IInv, TypeOK
  <2>2. CASE u # t
    <3>1. ThreadKeys(u)'
      BY <2>2 DEF Commit, IInv, TypeOK, ThreadKeys
    <3>2. pc'[u] = pc[u] /\ held'[u] = held[u] /\ now' = now
      BY <2>2 DEF Commit, IInv, TypeOK
    <3>3. pc[u] \in Holding => CurrentAt(held[u].ver, held[u].at)'
      <4>1. pc[u] \in Holding => CurrentAt(held[u].ver, held[u].at)
        BY DEF IInv, ThreadHeld
      <4>2. held' = held
        BY DEF Commit
      <4>3. QED
        BY <4>1, <4>2, CommitKeepsTimes DEF CurrentAt
    <3>4. ThreadHeld(u)
      BY DEF IInv
    <3>5. ThreadHeld(u)'
      BY <3>2, <3>3, <3>4 DEF ThreadHeld
    <3>6. QED
      BY <3>1, <3>5
  <2>3. QED
    BY <2>1, <2>2
<1>4. \A q \in Procs, j \in Keys : EntryOK(q, j)'
  <2> TAKE q \in Procs, j \in Keys
  <2>1. cache' = cache /\ EntryOK(q, j)
    BY DEF Commit, IInv
  <2>2. cache[q][j] # NoEntry => CurrentAt(cache[q][j].ver, cache[q][j].at)'
    BY <2>1, CommitKeepsTimes DEF EntryOK, CurrentAt
  <2>3. QED
    BY <2>1, <2>2 DEF EntryOK, LifeOf, Bound
<1>5. NothingOlderThanSettled'
  BY DEF Commit, IInv, TypeOK, NothingOlderThanSettled, Holding
<1>6. \A q \in Procs : settled'[q] <= version'
  BY <1>1, CacheAssumption DEF Commit, IInv, TypeOK, Versions
<1>7. QED
  BY <1>2, <1>3, <1>4, <1>5, <1>6 DEF IInv

LEMMA ClearStep ==
  ASSUME IInv, NEW t \in Threads, Clear(t)
  PROVE  IInv'
<1>1. Home[t] \in Procs
  BY CacheAssumption
<1>2. /\ cache' \in CacheTypes
      /\ \A q \in Procs, j \in Keys :
           cache'[q][j] = IF q = Home[t] THEN NoEntry ELSE cache[q][j]
  BY <1>1, ClearLeaves DEF Clear, IInv
<1>3. TypeOK'
  BY <1>2 DEF Clear, IInv, TypeOK, CacheTypes
<1>4. \A u \in Threads : ThreadKeys(u)' /\ ThreadHeld(u)'
  <2> TAKE u \in Threads
  <2>1. CASE u = t
    BY <2>1, IdleThread DEF Clear, IInv, TypeOK
  <2>2. CASE u # t
    BY <2>2, ThreadStays DEF Clear, IInv, TypeOK, SameTime
  <2>3. QED
    BY <2>1, <2>2
<1>5. \A q \in Procs, j \in Keys : EntryOK(q, j)'
  BY <1>2, EntriesStay DEF Clear, SameTime
<1>6. \A q \in Procs : q # Home[t] => settled'[q] = settled[q]
  BY DEF Clear, IInv, TypeOK
<1>7. \A q \in Procs, j \in Keys : cache'[q][j] # NoEntry => cache'[q][j].ver >= settled'[q]
  BY <1>2, <1>6 DEF IInv, NothingOlderThanSettled
<1>8. \A q \in Procs, u \in Threads :
        Home[u] = q /\ pc'[u] \in Holding => held'[u].ver >= settled'[q]
  <2> TAKE q \in Procs, u \in Threads
  <2>1. HAVE Home[u] = q /\ pc'[u] \in Holding
  <2>2. pc[u] \in Holding /\ held'[u] = held[u]
    BY <2>1 DEF Clear, IInv, TypeOK, Holding
  <2>3. held[u].ver >= settled[q]
    BY <2>1, <2>2 DEF IInv, NothingOlderThanSettled
  <2>4. settled'[q] = settled[q]
    BY <1>6, <2>1, <2>2 DEF Clear, NothingHeld
  <2>5. QED
    BY <2>2, <2>3, <2>4
<1>9. \A q \in Procs : settled'[q] <= version'
  BY CacheAssumption DEF Clear, IInv, TypeOK, Versions
<1>10. QED
  BY <1>3, <1>4, <1>5, <1>7, <1>8, <1>9 DEF IInv, NothingOlderThanSettled

LEMMA RestartStep ==
  ASSUME IInv, NEW p \in Procs, Restart(p)
  PROVE  IInv'
<1>1. /\ cache' \in CacheTypes
      /\ \A q \in Procs, j \in Keys : cache'[q][j] = cache[q][j] \/ cache'[q][j] = NoEntry
  <2>1. TypeOK /\ cache' = [cache EXCEPT ![p] = EmptyCache]
    BY DEF Restart, IInv
  <2>2. /\ [cache EXCEPT ![p] = EmptyCache] \in CacheTypes
        /\ \A q \in Procs, j \in Keys :
             [cache EXCEPT ![p] = EmptyCache][q][j] = IF q = p THEN NoEntry ELSE cache[q][j]
    BY <2>1, ClearLeaves
  <2>3. QED
    BY <2>1, <2>2, Zenon
<1>2. TypeOK'
  BY <1>1 DEF Restart, IInv, TypeOK, CacheTypes, Holding
<1>3. \A u \in Threads : ThreadKeys(u)' /\ ThreadHeld(u)'
  <2> TAKE u \in Threads
  <2>1. CASE Home[u] = p
    BY <2>1, IdleThread DEF Restart
  <2>2. CASE Home[u] # p
    BY <2>2, ThreadStays DEF Restart, IInv, SameTime
  <2>3. QED
    BY <2>1, <2>2
<1>4. \A q \in Procs, j \in Keys : EntryOK(q, j)'
  BY <1>1, EntriesStay DEF Restart, SameTime
<1>5. \A q \in Procs, j \in Keys : cache'[q][j] # NoEntry => cache'[q][j].ver >= settled'[q]
  BY <1>1, SettledEntriesStay DEF Restart
<1>6. \A q \in Procs, u \in Threads :
        Home[u] = q /\ pc'[u] \in Holding => held'[u].ver >= settled'[q]
  BY DEF Restart, IInv, NothingOlderThanSettled, Holding
<1>7. QED
  BY <1>2, <1>3, <1>4, <1>5, <1>6 DEF IInv, NothingOlderThanSettled, Restart

LEMMA TickStep ==
  ASSUME IInv, Tick
  PROVE  IInv'
<1>1. now' = now + 1 /\ now' \in 0 .. MaxNow /\ now \in Nat
  BY CacheAssumption DEF Tick, IInv, TypeOK
<1>2. TypeOK'
  BY <1>1 DEF Tick, IInv, TypeOK
<1>3. \A v, a : CurrentAt(v, a) => CurrentAt(v, a)'
  BY <1>1 DEF Tick, CurrentAt
<1>4. \A u \in Threads : ThreadKeys(u)' /\ ThreadHeld(u)'
  <2> TAKE u \in Threads
  <2>1. ThreadKeys(u)'
    BY DEF Tick, IInv, ThreadKeys
  <2>2. ASSUME pc[u] \in Holding
        PROVE  CurrentAt(held[u].ver, held[u].at)' /\ now' <= held[u].got + Lag
    <3>1. held[u] \in Payloads /\ CurrentAt(held[u].ver, held[u].at)
      BY <2>2 DEF IInv, ThreadHeld
    <3>2. now < held[u].got + Lag
      BY <2>2 DEF Tick
    <3>3. held' = held
      BY DEF Tick
    <3>4. CurrentAt(held[u].ver, held[u].at)'
      BY <1>3, <3>1, <3>3 DEF CurrentAt
    <3>5. QED
      BY <1>1, <3>1, <3>2, <3>4, CacheAssumption DEF Payloads
  <2>3. ThreadHeld(u)
    BY DEF IInv
  <2>4. ThreadHeld(u)'
    BY <1>1, <2>2, <2>3, CacheAssumption DEF Tick, ThreadHeld, Payloads
  <2>5. QED
    BY <2>1, <2>4
<1>5. \A q \in Procs, j \in Keys : EntryOK(q, j)'
  <2> TAKE q \in Procs, j \in Keys
  <2>1. cache' = cache /\ EntryOK(q, j)
    BY DEF Tick, IInv
  <2>2. cache[q][j] # NoEntry => CurrentAt(cache[q][j].ver, cache[q][j].at)'
    BY <1>3, <2>1 DEF EntryOK, CurrentAt
  <2>3. QED
    BY <2>1, <2>2 DEF EntryOK, LifeOf, Bound
<1>6. NothingOlderThanSettled' /\ \A q \in Procs : settled'[q] <= version'
  BY DEF Tick, IInv, NothingOlderThanSettled
<1>7. QED
  BY <1>2, <1>4, <1>5, <1>6 DEF IInv

LEMMA NextInv == IInv /\ [Next]_vars => IInv'
<1> SUFFICES ASSUME IInv, [Next]_vars PROVE IInv'
  OBVIOUS
<1>1. CASE \E t \in Threads \ Scripts, k \in Keys : ReadHit(t, k) \/ ReadMiss(t, k)
  BY <1>1, HitStep, MissStep
<1>2. CASE \E t \in Threads \ Scripts, c \in Canonical : ResolveHit(t, c) \/ ResolveMiss(t, c)
  BY <1>2, ResolveHitStep, ResolveMissStep
<1>3. CASE \E t \in Threads \ Scripts : ReadFails(t) \/ CopyToAlias(t)
  BY <1>3, FailStep, CopyStep
<1>4. CASE \E t \in Threads \ Scripts : Query(t) \/ NoiseGuard(t) \/ Fill(t) \/ FillAlias(t)
  BY <1>4, QueryStep, GuardStep, FillStep, FillAliasStep
<1>5. CASE \E t \in Threads : Commit(t) \/ Clear(t)
  BY <1>5, CommitStep, ClearStep
<1>6. CASE \E p \in Procs : Restart(p)
  BY <1>6, RestartStep
<1>7. CASE Tick
  BY <1>7, TickStep
<1>8. CASE UNCHANGED vars
  BY <1>8 DEF vars, IInv, TypeOK, ThreadKeys, ThreadHeld, CurrentAt, EntryOK, LifeOf, Bound,
     NothingOlderThanSettled
<1>9. QED
  BY <1>1, <1>2, <1>3, <1>4, <1>5, <1>6, <1>7, <1>8 DEF Next

THEOREM Inductive == Spec => []IInv
BY InitInv, NextInv, PTL DEF Spec

-----------------------------------------------------------------------------
(* The theorems.                                                           *)

\* The dictionaries, the threads and the clock keep their types.
THEOREM TypeCorrect == Spec => []TypeOK
<1>1. IInv => TypeOK
  BY DEF IInv
<1>2. QED
  BY <1>1, Inductive, PTL

\* No entry outlives Ttl + Lag after its query, or twice that under an alias.
THEOREM AgeTheorem == Spec => []EntriesAgeOut
<1>1. IInv => EntriesAgeOut
  BY DEF IInv, EntryOK, EntriesAgeOut
<1>2. QED
  BY <1>1, Inductive, PTL

\* After a clear that no answer was in flight for, a process neither serves nor
\* holds anything older than what the clear was for.
THEOREM SettledTheorem == Spec => []NothingOlderThanSettled
<1>1. IInv => NothingOlderThanSettled
  BY DEF IInv
<1>2. QED
  BY <1>1, Inductive, PTL

\* An answer given now was current at most Bound ago.
LEMMA AnswerIsRecent ==
  ASSUME IInv, NEW v, NEW a, CurrentAt(v, a), now <= a + Bound
  PROVE  v \in 0 .. version /\ Register!Recent(v)
<1>1. version \in Nat /\ Bound \in Nat /\ replaced \in [Versions -> 0 .. MaxNow] /\ version <= MaxVersion
  BY CacheAssumption DEF IInv, TypeOK, Versions, Bound
<1>2. CASE v = version
  BY <1>1, <1>2 DEF Register!Recent
<1>3. CASE v # version
  <2>1. v \in 0 .. version - 1 /\ replaced[v] >= a /\ replaced[v] \in Nat
    BY <1>1, <1>3, CacheAssumption DEF CurrentAt, Versions
  <2>2. replaced[v] + Bound >= now
    BY <1>1, <2>1 DEF CurrentAt, IInv, TypeOK
  <2>3. QED
    BY <2>1, <2>2, <1>1 DEF Register!Recent
<1>4. QED
  BY <1>2, <1>3

\* A thread that holds an answer may still give it.
LEMMA HeldIsRecent ==
  ASSUME IInv, NEW t \in Threads, pc[t] \in Holding
  PROVE  held[t].ver \in 0 .. version /\ Register!Recent(held[t].ver)
<1>1. ThreadHeld(t)
  BY DEF IInv
<1>2. held[t].at \in Nat /\ held[t].got \in Nat /\ now \in Nat /\ Ttl \in Nat /\ Lag \in Nat
  BY <1>1, CacheAssumption DEF ThreadHeld, Payloads, IInv, TypeOK
<1>3. now <= held[t].at + Bound
  BY <1>1, <1>2 DEF ThreadHeld, Bound
<1>4. QED
  BY <1>1, <1>3, AnswerIsRecent DEF ThreadHeld

\* So may one that finds a live entry.
LEMMA HitIsRecent ==
  ASSUME IInv, NEW p \in Procs, NEW k \in Keys, Hit(p, k)
  PROVE  cache[p][k].ver \in 0 .. version /\ Register!Recent(cache[p][k].ver)
<1>1. EntryOK(p, k)
  BY DEF IInv
<1>2. /\ cache[p][k] \in Entries /\ cache[p][k] # NoEntry /\ cache[p][k].expire > now
  BY DEF Hit, IInv, TypeOK
<1>3. cache[p][k].at \in Nat /\ cache[p][k].expire \in Nat /\ now \in Nat /\ Ttl \in Nat /\ Lag \in Nat
  BY <1>2, CacheAssumption DEF Entries, IInv, TypeOK
<1>4. LifeOf(k) <= Bound /\ LifeOf(k) \in Nat /\ Bound \in Nat
  BY <1>3 DEF LifeOf, Bound
<1>5. now <= cache[p][k].at + Bound
  BY <1>1, <1>2, <1>3, <1>4 DEF EntryOK
<1>6. QED
  BY <1>1, <1>2, <1>5, AnswerIsRecent DEF EntryOK

rvars == <<now, version, replaced, answer>>

LEMMA RefineInit == Init => Register!Init
BY DEF Init, Register!Init, NoAnswer, Register!NoAnswer

\* Every step of the cache is a step of the register or leaves it alone.
LEMMA RefineNext == IInv /\ [Next]_vars => [Register!Next]_rvars
<1> SUFFICES ASSUME IInv, [Next]_vars PROVE [Register!Next]_rvars
  OBVIOUS
<1>1. ASSUME NEW t \in Threads, NEW v \in 0 .. version, Register!Recent(v),
             answer' = [answer EXCEPT ![t] = v], SameTime
      PROVE  Register!Next
  BY <1>1 DEF Register!Next, Register!Answer, SameTime
<1>2. ASSUME NEW t \in Threads, answer' = [answer EXCEPT ![t] = NoAnswer], SameTime
      PROVE  Register!Next
  BY <1>2 DEF Register!Next, Register!Ask, SameTime, NoAnswer, Register!NoAnswer
<1>3. ASSUME NEW t \in Threads, NEW k \in Keys, ReadHit(t, k) PROVE Register!Next
  <2>1. Hit(Home[t], k) /\ Home[t] \in Procs
    BY <1>3, CacheAssumption DEF ReadHit
  <2>2. QED
    BY <1>1, <1>3, <2>1, HitIsRecent DEF ReadHit, Return, SameTime
<1>4. ASSUME NEW t \in Threads, NEW k \in Keys, ReadMiss(t, k) PROVE Register!Next
  BY <1>2, <1>4 DEF ReadMiss, SameTime
<1>5. ASSUME NEW t \in Threads, Return(t, held[t].ver), pc[t] \in Holding, SameTime
      PROVE  Register!Next
  BY <1>1, <1>5, HeldIsRecent DEF Return
<1>6. ASSUME NEW t \in Threads, CopyToAlias(t) \/ FillAlias(t) PROVE Register!Next
  BY <1>5, <1>6 DEF CopyToAlias, FillAlias, SameTime, Holding
<1>7. ASSUME NEW t \in Threads, Fill(t) PROVE Register!Next \/ UNCHANGED rvars
  BY <1>5, <1>7 DEF Fill, SameTime, Holding, rvars
<1>8. ASSUME NEW t \in Threads, Commit(t) PROVE Register!Next
  <2>1. version + 1 \in Versions
    BY <1>8, CacheAssumption DEF Commit, IInv, TypeOK, Versions
  <2>2. Register!Commit
    BY <1>8, <2>1 DEF Commit, Register!Commit, NoAnswer, Register!NoAnswer
  <2>3. QED
    BY <2>2 DEF Register!Next
<1>9. ASSUME Tick PROVE Register!Next
  BY <1>9 DEF Tick, Register!Next, Register!Tick
<1>10. ASSUME NEW t \in Threads, NEW c \in Canonical,
              ResolveHit(t, c) \/ ResolveMiss(t, c) \/ ReadFails(t) \/ Query(t)
                \/ NoiseGuard(t) \/ Clear(t)
       PROVE  UNCHANGED rvars
  BY <1>10 DEF ResolveHit, ResolveMiss, ReadFails, Query, NoiseGuard, Clear, rvars
<1>11. ASSUME NEW t \in Threads, ReadFails(t) \/ Query(t) \/ NoiseGuard(t) \/ Clear(t)
       PROVE  UNCHANGED rvars
  BY <1>11 DEF ReadFails, Query, NoiseGuard, Clear, rvars
<1>12. ASSUME NEW p \in Procs, Restart(p) PROVE UNCHANGED rvars
  BY <1>12 DEF Restart, rvars
<1>13. CASE UNCHANGED vars
  BY <1>13 DEF vars, rvars
<1>14. QED
  BY <1>3, <1>4, <1>6, <1>7, <1>8, <1>9, <1>10, <1>11, <1>12, <1>13 DEF Next

\* The cache, with all its races, implements the register whose answers are at
\* most Bound old.
THEOREM Refinement == Spec => ImplementsStaleRegister
<1>1. Init => Register!Init
  BY RefineInit
<1>2. IInv /\ [Next]_vars => [Register!Next]_<<now, version, replaced, answer>>
  BY RefineNext DEF rvars
<1>3. QED
  BY <1>1, <1>2, Inductive, PTL DEF Spec, ImplementsStaleRegister, Register!Spec
=============================================================================
