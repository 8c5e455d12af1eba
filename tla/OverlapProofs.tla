---------------------------- MODULE OverlapProofs ----------------------------
(***************************************************************************)
(* What holds of poll_observations and poll_options as long as the ingests *)
(* do not overlap at the wrong place. upsert_poll_observation searches and *)
(* writes with two statements, and the cleanup of default options, the     *)
(* backfill and the option upserts are statements of their own: the runs   *)
(* race and stale_merge show what another process in between makes of it.  *)
(* The theorems say how much has to be kept apart, by a lock or by running *)
(* one ingest at a time, and what the payloads must not do.                *)
(***************************************************************************)
EXTENDS IngestProofs

-------------------------------------------------------------------------------
(***************************************************************************)
(* What the code needs of its surroundings.                                *)
(***************************************************************************)
\* The search and the write of upsert_poll_observation do not overlap those of
\* another process.
OneWriter == \A p, q \in Proc : pc[p] = "write" /\ pc[q] = "write" => p = q

\* No two processes write the options of one observation.
OneReplacer ==
    \A p, q \in Proc :
        pc[p] \in Written /\ pc[q] \in Written /\ ctx[p].oid = ctx[q].oid => p = q

OnePollPerKey ==
    \A first, second \in Payloads : \A i \in DOMAIN first, j \in DOMAIN second :
        first[i].key = second[j].key => first[i].poll = second[j].poll

Unmixed ==
    \A payload \in Payloads : \A i \in DOMAIN payload :
        HasExplicitScenarios(payload[i].options) =>
            \A x \in payload[i].options : ~IsDefaultCandidate(x)

\* What the search returned is still what the table has.
SeenFresh(p) ==
    pc[p] = "write" =>
        IF ctx[p].seen = <<>>
        THEN \A o \in DOMAIN obs : obs[o].fp # Fingerprint(Current(p).poll)
        ELSE \E o \in DOMAIN obs : /\ obs[o] = ctx[p].seen[1]
                                   /\ obs[o].fp = Fingerprint(Current(p).poll)

FreshInv == SInv /\ FingerprintUnique /\ \A p \in Proc : SeenFresh(p)

\* A process works on one of the payloads.
GivenOK == \A p \in Proc : pc[p] # "idle" => job[p].payload \in Payloads

\* A row has the key and the fingerprint of a record of some payload.
RowsGiven ==
    \A o \in DOMAIN obs : \E payload \in Payloads : \E k \in DOMAIN payload :
        payload[k].key = obs[o].key /\ Fingerprint(payload[k].poll) = obs[o].fp

\* A row is merged with only when it is of the same poll.
SeenSame(p) ==
    pc[p] = "write" /\ ctx[p].seen # <<>> => ctx[p].seen[1].poll = Current(p).poll

PollInv ==
    /\ SInv /\ GivenOK /\ RowsGiven /\ StoredFingerprintCurrent
    /\ \A p \in Proc : SeenSame(p)

\* The default candidate rows of its observation are a process's own.
OwnDefaults(p) ==
    \A x \in StoredDefaults(ctx[p].oid) : x.option \in Current(p).options

\* How much of an explicit record has replaced the defaults of its observation.
Asked(p) == Backfilled(Current(p).options, ctx[p].prior)

ReplacedOK(p) ==
    HasExplicitScenarios(Current(p).options) =>
        /\ pc[p] = "fetch" => ctx[p].todo = Current(p).options
        /\ pc[p] = "cleanup" => ctx[p].todo = Asked(p)
        /\ pc[p] \in {"incomplete", "option", "note", "stored"} =>
              /\ OwnDefaults(p)
              /\ ctx[p].todo \subseteq Asked(p)
              /\ \A x \in Asked(p) : x \in ctx[p].todo \/ [oid |-> ctx[p].oid, option |-> x] \in options

ReplaceInv == SInv /\ GivenOK /\ \A p \in Proc : pc[p] \in Written => ReplacedOK(p)

-------------------------------------------------------------------------------
\* An upsert appends a row of a new key, or overwrites the one row of its key.
LEMMA UpsertedCases ==
    ASSUME NEW table \in Seq(ObservationRow), NEW row \in ObservationRow
    PROVE  \/ /\ \A i \in DOMAIN table : table[i].key # row.key
              /\ Upserted(table, row) = Append(table, row)
           \/ \E i \in DOMAIN table :
                 /\ table[i].key = row.key
                 /\ Upserted(table, row) = [table EXCEPT ![i] = Overwritten(table[i], row)]
<1>1. CASE RowsWithKey(table, row.key) = {}
  BY <1>1 DEF RowsWithKey, Upserted
<1>2. CASE RowsWithKey(table, row.key) # {}
  <2>1. PICK id : id = UpsertId(table, row)
    OBVIOUS
  <2>2. id \in DOMAIN table /\ table[id].key = row.key
    BY <1>2, <2>1 DEF UpsertId, RowsWithKey
  <2>3. Upserted(table, row) = [table EXCEPT ![id] = Overwritten(table[id], row)]
    BY <1>2, <2>1 DEF Upserted
  <2>. QED BY <2>2, <2>3
<1>. QED BY <1>1, <1>2

\* The table is written by one statement only, and is searched by one.
LEMMA OnlyWrites ==
    ASSUME IInv, NEW p \in Proc, CreateRun(p) \/ Step(p) \/ Crash(p)
    PROVE  obs' = obs \/ WriteObservation(p)
BY DEF CreateRun, Crash, Step, RejectStale, UpsertRegion, RejectScope, UpsertMatchup,
   UpsertCandidate, ReportProfile, UpsertArticle, FindByFingerprint,
   FetchDefaults, DeleteDefaults, ReportIncomplete, UpsertOption, ReportNote, RecordStored,
   Raise, HandleException, FinishRun, UpdateCounters, AbandonRun, UpsertRef, tables

LEMMA OnlyFinds ==
    ASSUME IInv, NEW p \in Proc, CreateRun(p) \/ Step(p) \/ Crash(p), pc'[p] = "write"
    PROVE  FindByFingerprint(p)
<1>. DEFINE other == {"idle", "stale", "region", "scope", "candidate", "profile", "article",
                      "find", "fetch", "cleanup", "incomplete", "option", "note", "stored",
                      "handler", "finish", "counters"}
<1>1. CASE CreateRun(p) \/ RejectStale(p) \/ RejectScope(p) \/ RecordStored(p)
           \/ HandleException(p)
  <2>1. \E point \in other : Goto(p, point)
    BY <1>1 DEF CreateRun, RejectStale, RejectScope, RecordStored, HandleException, EndRecord, Entry
  <2>. QED BY <2>1 DEF Goto, IInv, TypeOK
<1>2. CASE UpsertRegion(p) \/ UpsertMatchup(p) \/ UpsertCandidate(p) \/ ReportProfile(p)
           \/ UpsertArticle(p) \/ Raise(p)
  <2>1. \E point \in other : Goto(p, point)
    BY <1>2 DEF UpsertRegion, UpsertMatchup, UpsertCandidate, ReportProfile, UpsertArticle, Raise,
       ToCandidate
  <2>. QED BY <2>1 DEF Goto, IInv, TypeOK
<1>3. CASE WriteObservation(p) \/ FetchDefaults(p) \/ DeleteDefaults(p) \/ ReportIncomplete(p)
           \/ UpsertOption(p) \/ ReportNote(p)
  <2>1. \E point \in other : Goto(p, point)
    BY <1>3 DEF WriteObservation, FetchDefaults, DeleteDefaults, ReportIncomplete, UpsertOption,
       ReportNote, ToNote, ToOption, ToIncomplete
  <2>. QED BY <2>1 DEF Goto, IInv, TypeOK
<1>4. CASE FinishRun(p) \/ UpdateCounters(p) \/ AbandonRun(p) \/ Crash(p)
  <2>1. \E point \in other : Goto(p, point)
    BY <1>4 DEF FinishRun, UpdateCounters, AbandonRun, Crash, Leave
  <2>. QED BY <2>1 DEF Goto, IInv, TypeOK
<1>. QED BY <1>1, <1>2, <1>3, <1>4 DEF Step

\* The statement itself.
LEMMA WriteDoes ==
    ASSUME IInv, NEW p \in Proc, WriteObservation(p)
    PROVE  /\ pc[p] = "write" /\ Current(p) \in IngestRecord
           /\ ctx[p].seen \in Seq(ObservationRow) /\ obs \in Seq(ObservationRow)
           /\ job[p].run \in Nat
           /\ \E row \in ObservationRow :
                 /\ row = RowToWrite(ctx[p].seen, RowOf(Current(p), job[p].run))
                 /\ obs' = Upserted(obs, row)
<1>1. pc[p] = "write"
  BY DEF WriteObservation
<1>2. Current(p) \in IngestRecord
  BY <1>1, CurrentType DEF RecordPoint, Point
<1>3. ctx[p].seen \in Seq(ObservationRow) /\ obs \in Seq(ObservationRow) /\ job[p].run \in Nat
  BY DEF IInv, TypeOK, Context, Job
<1>4. RowToWrite(ctx[p].seen, RowOf(Current(p), job[p].run)) \in ObservationRow
  BY <1>2, <1>3, RowToWriteType
<1>. QED BY <1>1, <1>2, <1>3, <1>4 DEF WriteObservation

\* With what the search returned still true, a record's write appends the row of
\* a new poll, overwrites the row of its key, or merges with the row of its poll.
LEMMA FreshWrite ==
    ASSUME SInv, NEW p \in Proc, SeenFresh(p), WriteObservation(p), NEW own,
           own = RowOf(Current(p), job[p].run)
    PROVE  \/ /\ ctx[p].seen = <<>>
              /\ \A o \in DOMAIN obs : obs[o].key # own.key /\ obs[o].fp # own.fp
              /\ obs' = Append(obs, own)
           \/ \E id \in DOMAIN obs :
                 /\ ctx[p].seen = <<>>
                 /\ obs[id].key = own.key
                 /\ \A o \in DOMAIN obs : obs[o].fp # own.fp
                 /\ obs' = [obs EXCEPT ![id] = Overwritten(obs[id], own)]
           \/ \E id \in DOMAIN obs :
                 /\ ctx[p].seen # <<>> /\ obs[id] = ctx[p].seen[1]
                 /\ obs[id].fp = own.fp
                 /\ obs' = [obs EXCEPT ![id] = Overwritten(obs[id], Merged(obs[id], own))]
<1>0. IInv /\ RowsOK
  BY DEF SInv, AInv
<1>1. PICK row \in ObservationRow :
        row = RowToWrite(ctx[p].seen, own) /\ obs' = Upserted(obs, row)
  BY <1>0, WriteDoes
<1>2. /\ pc[p] = "write" /\ obs \in Seq(ObservationRow)
      /\ own.fp = Fingerprint(Current(p).poll) /\ own.key = Current(p).key
  BY <1>0, WriteDoes DEF RowOf
<1>3. \/ (\A i \in DOMAIN obs : obs[i].key # row.key) /\ obs' = Append(obs, row)
      \/ \E i \in DOMAIN obs :
            obs[i].key = row.key /\ obs' = [obs EXCEPT ![i] = Overwritten(obs[i], row)]
  <2>1. obs \in Seq(ObservationRow) /\ obs' = Upserted(obs, row)
    BY <1>1, <1>2
  <2>2. \/ (\A i \in DOMAIN obs : obs[i].key # row.key) /\ Upserted(obs, row) = Append(obs, row)
        \/ \E i \in DOMAIN obs :
              /\ obs[i].key = row.key
              /\ Upserted(obs, row) = [obs EXCEPT ![i] = Overwritten(obs[i], row)]
    BY <2>1, UpsertedCases, Zenon
  <2>. QED BY <2>1, <2>2, Zenon
<1>4. CASE ctx[p].seen = <<>>
  <2>1. row = own
    BY <1>1, <1>4 DEF RowToWrite
  <2>2. \A o \in DOMAIN obs : obs[o].fp # own.fp
    BY <1>2, <1>4 DEF SeenFresh
  <2>3. CASE (\A i \in DOMAIN obs : obs[i].key # row.key) /\ obs' = Append(obs, row)
    BY <1>4, <2>1, <2>2, <2>3
  <2>4. CASE \E i \in DOMAIN obs :
               obs[i].key = row.key /\ obs' = [obs EXCEPT ![i] = Overwritten(obs[i], row)]
    BY <1>4, <2>1, <2>2, <2>4, Zenon
  <2>. QED BY <1>3, <2>3, <2>4
<1>5. CASE ctx[p].seen # <<>>
  <2>1. PICK id \in DOMAIN obs : obs[id] = ctx[p].seen[1] /\ obs[id].fp = own.fp
    BY <1>2, <1>5 DEF SeenFresh
  <2>2. row = Merged(obs[id], own)
    BY <1>1, <1>5, <2>1 DEF RowToWrite
  <2>3. row.key = obs[id].key
    BY <2>2 DEF Merged
  <2>4. PICK i \in DOMAIN obs :
          obs[i].key = row.key /\ obs' = [obs EXCEPT ![i] = Overwritten(obs[i], row)]
    BY <1>3, <2>1, <2>3
  <2>5. i = id
    BY <1>0, <2>1, <2>3, <2>4 DEF RowsOK
  <2>6. obs' = [obs EXCEPT ![id] = Overwritten(obs[id], Merged(obs[id], own))]
    BY <2>2, <2>4, <2>5
  <2>. QED BY <1>5, <2>1, <2>6, Zenon
<1>. QED BY <1>4, <1>5

\* What the search finds is there.
LEMMA FoundFresh ==
    ASSUME IInv, NEW p \in Proc, FindByFingerprint(p), pc'[p] = "write"
    PROVE  /\ SeenFresh(p)'
           /\ ctx'[p].seen # <<>> => ~CoreConflict(ctx'[p].seen[1], RowOf(Current(p), job[p].run))
           /\ Current(p)' = Current(p)
<1>1. PICK fp : fp = Fingerprint(Current(p).poll)
  OBVIOUS
<1>2. PICK id : id = NewestWithFingerprint(obs, fp)
  OBVIOUS
<1>3. PICK seen : seen = IF id = 0 THEN <<>> ELSE <<obs[id]>>
  OBVIOUS
<1>4. /\ ctx' = [ctx EXCEPT ![p].seen = seen] /\ UNCHANGED <<obs, job>>
      /\ ~(seen # <<>> /\ CoreConflict(seen[1], RowOf(Current(p), job[p].run)))
  BY <1>1, <1>2, <1>3 DEF FindByFingerprint, Goto, tables, IInv, TypeOK
<1>5. ctx'[p].seen = seen
  BY <1>4 DEF IInv, TypeOK, Context
<1>6. obs \in Seq(ObservationRow)
  BY DEF IInv, TypeOK
<1>7. IF \A o \in DOMAIN obs : obs[o].fp # fp
      THEN id = 0 ELSE id \in DOMAIN obs /\ obs[id].fp = fp
  BY <1>2, <1>6, NewestType DEF RowsWithFingerprint
<1>8. id \in DOMAIN obs => id # 0
  BY <1>6
<1>9. IF seen = <<>> THEN \A o \in DOMAIN obs : obs[o].fp # fp
      ELSE \E o \in DOMAIN obs : obs[o] = seen[1] /\ obs[o].fp = fp
  <2>1. CASE id = 0
    BY <1>3, <1>7, <1>8, <2>1
  <2>2. CASE id # 0
    BY <1>3, <1>7, <2>2
  <2>. QED BY <2>1, <2>2
<1>10. Current(p)' = Current(p)
  BY <1>4 DEF Current
<1>. QED BY <1>1, <1>4, <1>5, <1>9, <1>10 DEF SeenFresh

-------------------------------------------------------------------------------
(***************************************************************************)
(* Without overlap the search and the write are as good as one statement.  *)
(***************************************************************************)
LEMMA FreshNext == ASSUME OneWriter, FreshInv, [Next]_vars PROVE FreshInv'
<1>1. IInv /\ SInv /\ SInv' /\ TablesGrow
  BY StoredStep, StepsGrow DEF FreshInv, SInv, AInv
<1>2. CASE UNCHANGED vars
  <2>1. UNCHANGED <<obs, pc, ctx, job>>
    BY <1>2 DEF vars, tables
  <2>2. FingerprintUnique'
    BY <2>1 DEF FreshInv, FingerprintUnique
  <2>3. \A p \in Proc : SeenFresh(p)'
    BY <2>1 DEF FreshInv, SeenFresh, Current
  <2>. QED BY <1>1, <2>2, <2>3 DEF FreshInv
<1>3. ASSUME NEW p \in Proc, CreateRun(p) \/ Step(p) \/ Crash(p)
      PROVE  FingerprintUnique' /\ SeenFresh(p)'
  <2>1. SeenFresh(p)'
    <3>1. CASE pc'[p] = "write"
      BY <1>1, <1>3, <3>1, OnlyFinds, FoundFresh
    <3>. QED BY <3>1 DEF SeenFresh
  <2>2. CASE obs' = obs
    BY <2>1, <2>2 DEF FreshInv, FingerprintUnique
  <2>3. CASE WriteObservation(p)
    <3>1. PICK own : own = RowOf(Current(p), job[p].run)
      OBVIOUS
    <3>2. SeenFresh(p) /\ obs \in Seq(ObservationRow) /\ FingerprintUnique
      BY <1>1 DEF FreshInv, IInv, TypeOK
    <3>3. CASE /\ \A o \in DOMAIN obs : obs[o].key # own.key /\ obs[o].fp # own.fp
               /\ obs' = Append(obs, own)
      <4>1. /\ DOMAIN obs' = DOMAIN obs \cup {Len(obs) + 1}
            /\ obs'[Len(obs) + 1] = own
            /\ \A o \in DOMAIN obs : obs'[o] = obs[o]
        BY <3>2, <3>3
      <4>. QED BY <2>1, <3>2, <3>3, <4>1 DEF FingerprintUnique
    <3>4. ASSUME NEW id \in DOMAIN obs, NEW row,
                 obs' = [obs EXCEPT ![id] = Overwritten(obs[id], row)]
          PROVE  FingerprintUnique'
      <4>1. DOMAIN obs' = DOMAIN obs
        BY <3>4
      <4>2. \A o \in DOMAIN obs : obs'[o].fp = obs[o].fp
        BY <1>1 DEF TablesGrow
      <4>. QED BY <3>2, <4>1, <4>2 DEF FingerprintUnique
    <3>. QED BY <1>1, <2>1, <2>3, <3>1, <3>2, <3>3, <3>4, FreshWrite
  <2>. QED BY <1>1, <1>3, <2>1, <2>2, <2>3, OnlyWrites
<1>4. ASSUME NEW p \in Proc, CreateRun(p) \/ Step(p) \/ Crash(p), NEW q \in Proc, q # p
      PROVE  SeenFresh(q)'
  <2>1. pc'[q] = pc[q] /\ job'[q] = job[q] /\ ctx'[q] = ctx[q]
    BY <1>1, <1>4, OthersStay
  <2>2. pc'[q] = "write" => obs' = obs
    BY <1>1, <1>4, <2>1, OnlyWrites DEF OneWriter, WriteObservation
  <2>. QED BY <2>1, <2>2 DEF FreshInv, SeenFresh, Current
<1>5. ASSUME NEW p \in Proc, CreateRun(p) \/ Step(p) \/ Crash(p)
      PROVE  FreshInv'
  <2>1. FingerprintUnique' /\ \A q \in Proc : SeenFresh(q)'
    BY <1>3, <1>4, <1>5
  <2>. QED BY <1>1, <2>1 DEF FreshInv
<1>. QED BY <1>2, <1>5 DEF Next

LEMMA FreshInvariance == Spec /\ []OneWriter => []FreshInv
<1>1. Init => FreshInv
  <2>1. Init => SInv
    BY StoredInit
  <2>2. Init => FingerprintUnique /\ \A p \in Proc : SeenFresh(p)
    BY DEF Init, FingerprintUnique, SeenFresh
  <2>. QED BY <2>1, <2>2 DEF FreshInv
<1>2. FreshInv /\ OneWriter /\ [Next]_vars => FreshInv'
  BY FreshNext
<1>. QED BY <1>1, <1>2, PTL DEF Spec

\* As long as the searches and writes of no two processes overlap, one poll is
\* one row (upsert_poll_observation; the table has no constraint).
THEOREM UniqueTheorem == Spec /\ []OneWriter => []FingerprintUnique
<1>1. FreshInv => FingerprintUnique
  BY DEF FreshInv
<1>. QED BY <1>1, FreshInvariance, PTL

\* The table grows for a record that is in it under no key and no fingerprint.
LEMMA GrowthIsNew ==
    ASSUME FreshInv, [Next]_vars, Len(obs') > Len(obs)
    PROVE  \E p \in Proc :
              /\ pc[p] = "write"
              /\ \A o \in DOMAIN obs : /\ obs[o].key # Current(p).key
                                       /\ obs[o].fp # Fingerprint(Current(p).poll)
<1>1. IInv /\ SInv /\ obs \in Seq(ObservationRow)
  BY DEF FreshInv, SInv, AInv, IInv, TypeOK
<1>2. obs' # obs
  <2>1. PICK n \in Nat : n = Len(obs)
    BY <1>1
  <2>2. ~(n > n)
    OBVIOUS
  <2>. QED BY <2>1, <2>2
<1>3. PICK p \in Proc : WriteObservation(p)
  BY <1>1, <1>2, OnlyWrites DEF Next, vars, tables
<1>4. PICK own : own = RowOf(Current(p), job[p].run)
  OBVIOUS
<1>5. own.key = Current(p).key /\ own.fp = Fingerprint(Current(p).poll)
  BY <1>4 DEF RowOf
<1>6. ASSUME NEW id \in DOMAIN obs, NEW row, obs' = [obs EXCEPT ![id] = row]
      PROVE  FALSE
  <2>1. Len(obs') = Len(obs)
    BY <1>1, <1>6
  <2>2. PICK n \in Nat : n = Len(obs)
    BY <1>1
  <2>3. ~(n > n)
    OBVIOUS
  <2>. QED BY <2>1, <2>2, <2>3
<1>7. \A o \in DOMAIN obs : obs[o].key # own.key /\ obs[o].fp # own.fp
  <2>1. SeenFresh(p)
    BY DEF FreshInv
  <2>. QED BY <1>1, <1>3, <1>4, <1>6, <2>1, FreshWrite
<1>8. pc[p] = "write"
  BY <1>3 DEF WriteObservation
<1>. QED BY <1>5, <1>7, <1>8

\* As long as searches and writes do not overlap, a record already stored adds
\* no row when it is sent again (the retries of the runner).
THEOREM NoRowTheorem == Spec /\ []OneWriter => StoredRecordsAddNoRow
<1>1. FreshInv /\ [Next]_vars =>
        [Len(obs') > Len(obs) =>
           \E p \in Proc :
              /\ pc[p] = "write"
              /\ \A i \in DOMAIN log : \A k \in DOMAIN log[i].outcomes :
                    log[i].outcomes[k] = "stored" => log[i].payload[k] # Current(p)]_obs
  <2>. SUFFICES ASSUME FreshInv, [Next]_vars, Len(obs') > Len(obs)
                PROVE  \E p \in Proc :
                          /\ pc[p] = "write"
                          /\ \A i \in DOMAIN log : \A k \in DOMAIN log[i].outcomes :
                                log[i].outcomes[k] = "stored" => log[i].payload[k] # Current(p)
    OBVIOUS
  <2>1. PICK p \in Proc :
              /\ pc[p] = "write"
              /\ \A o \in DOMAIN obs : /\ obs[o].key # Current(p).key
                                       /\ obs[o].fp # Fingerprint(Current(p).poll)
    BY GrowthIsNew
  <2>2. ~Represented(Current(p))
    BY <2>1 DEF Represented
  <2>3. ProcessedRecordsAreStored
    BY DEF FreshInv, SInv
  <2>. QED BY <2>1, <2>2, <2>3, Zenon DEF ProcessedRecordsAreStored
<1>. QED BY <1>1, FreshInvariance, PTL DEF Spec, StoredRecordsAddNoRow

-------------------------------------------------------------------------------
(***************************************************************************)
(* One poll per key: what a key finds is of the fingerprint's poll, however *)
(* many processes ingest.                                                  *)
(***************************************************************************)

\* A process starts on a payload and keeps it.
LEMMA GivenNext == ASSUME IInv, GivenOK, [Next]_vars PROVE GivenOK'
<1>1. CASE UNCHANGED vars
  BY <1>1 DEF vars, GivenOK
<1>2. ASSUME NEW p \in Proc, CreateRun(p) \/ Step(p) \/ Crash(p), pc'[p] # "idle"
      PROVE  job'[p].payload \in Payloads
  <2>1. CASE CreateRun(p)
    <3>1. PICK payload \in Payloads :
            job' = [job EXCEPT ![p] = [Idle EXCEPT !.run = Len(runs) + 1,
                                                   !.payload = payload, !.at = 1]]
      BY <2>1 DEF CreateRun
    <3>. QED BY <3>1 DEF IInv, TypeOK, Idle
  <2>2. CASE Moves(p)
    <3>1. pc[p] # "idle"
      BY <2>2 DEF Moves, RecordPoint
    <3>. QED BY <2>2, <3>1 DEF Moves, GivenOK
  <2>3. CASE Ends(p)
    <3>1. pc[p] # "idle"
      BY <2>3 DEF Ends, RecordPoint
    <3>2. PICK outcome : EndRecord(p, outcome)
      BY <2>3 DEF Ends
    <3>a. PICK a : a = job[p].at + 1
      OBVIOUS
    <3>b. PICK b : b = IF outcome = "stored" THEN job[p].processed + 1 ELSE job[p].processed
      OBVIOUS
    <3>c. PICK c : c = IF outcome = "stored" THEN job[p].errors ELSE job[p].errors + 1
      OBVIOUS
    <3>d. job' = [job EXCEPT ![p].at = a, ![p].processed = b, ![p].errors = c]
      BY <3>2, <3>a, <3>b, <3>c DEF EndRecord
    <3>3. PICK j \in Job : j = job[p]
      BY DEF IInv, TypeOK
    <3>4. job'[p].payload = j.payload
      BY <3>d, <3>3 DEF IInv, TypeOK, Job
    <3>. QED BY <3>1, <3>3, <3>4 DEF GivenOK
  <2>4. CASE FinishRun(p)
    BY <2>4 DEF FinishRun, GivenOK
  <2>5. CASE Leaves(p)
    BY <1>2, <2>5 DEF Leaves, Leave, Goto, IInv, TypeOK
  <2>. QED BY <1>2, <2>1, <2>2, <2>3, <2>4, <2>5, ActionKinds
<1>3. ASSUME NEW p \in Proc, CreateRun(p) \/ Step(p) \/ Crash(p), NEW q \in Proc, q # p,
             pc'[q] # "idle"
      PROVE  job'[q].payload \in Payloads
  BY <1>3, OthersStay DEF GivenOK
<1>4. ASSUME NEW p \in Proc, CreateRun(p) \/ Step(p) \/ Crash(p)
      PROVE  GivenOK'
  BY <1>2, <1>3, <1>4 DEF GivenOK
<1>. QED BY <1>1, <1>4 DEF Next

\* The record in hand is one of a payload.
LEMMA CurrentGiven ==
    ASSUME IInv, GivenOK, NEW p \in Proc, pc[p] \in RecordPoint
    PROVE  \E payload \in Payloads : \E k \in DOMAIN payload : payload[k] = Current(p)
<1>1. job[p].payload \in Payloads /\ job[p].at \in DOMAIN job[p].payload
  BY DEF GivenOK, IInv, LoopOK, RecordPoint
<1>. QED BY <1>1 DEF Current

\* A row under the record's key has the record's fingerprint.
LEMMA KeyIsPoll ==
    ASSUME OnePollPerKey, IInv, GivenOK, RowsGiven, NEW p \in Proc, pc[p] \in RecordPoint,
           NEW o \in DOMAIN obs, obs[o].key = Current(p).key
    PROVE  obs[o].fp = Fingerprint(Current(p).poll)
<1>1. PICK payload \in Payloads : \E k \in DOMAIN payload : payload[k] = Current(p)
  BY CurrentGiven
<1>2. PICK k \in DOMAIN payload : payload[k] = Current(p)
  BY <1>1
<1>3. PICK other \in Payloads : \E j \in DOMAIN other :
        other[j].key = obs[o].key /\ Fingerprint(other[j].poll) = obs[o].fp
  BY DEF RowsGiven
<1>4. PICK j \in DOMAIN other :
        other[j].key = obs[o].key /\ Fingerprint(other[j].poll) = obs[o].fp
  BY <1>3
<1>5. other[j].poll = payload[k].poll
  BY <1>2, <1>4 DEF OnePollPerKey
<1>. QED BY <1>2, <1>4, <1>5

\* A write adds the record's own row, or replaces the poll of a row of that poll.
LEMMA PollWrite ==
    ASSUME OnePollPerKey, PollInv, NEW p \in Proc, WriteObservation(p)
    PROVE  \/ obs' = Append(obs, RowOf(Current(p), job[p].run))
           \/ \E id \in DOMAIN obs : \E row \in ObservationRow :
                 /\ obs' = [obs EXCEPT ![id] = Overwritten(obs[id], row)]
                 /\ obs[id].fp = Fingerprint(Current(p).poll)
                 /\ row.poll = Current(p).poll
<1>1. IInv /\ RowsOK /\ GivenOK /\ RowsGiven
  BY DEF PollInv, SInv, AInv
<1>2. PICK own : own = RowOf(Current(p), job[p].run)
  OBVIOUS
<1>3. PICK row \in ObservationRow :
        row = RowToWrite(ctx[p].seen, own) /\ obs' = Upserted(obs, row)
  BY <1>1, <1>2, WriteDoes
<1>4. /\ pc[p] = "write" /\ pc[p] \in RecordPoint /\ obs \in Seq(ObservationRow)
      /\ own.key = Current(p).key /\ own.poll = Current(p).poll
  BY <1>1, <1>2, WriteDoes DEF RowOf, RecordPoint, Point
<1>5. \/ (\A i \in DOMAIN obs : obs[i].key # row.key) /\ obs' = Append(obs, row)
      \/ \E i \in DOMAIN obs :
            obs[i].key = row.key /\ obs' = [obs EXCEPT ![i] = Overwritten(obs[i], row)]
  <2>1. \/ (\A i \in DOMAIN obs : obs[i].key # row.key) /\ Upserted(obs, row) = Append(obs, row)
        \/ \E i \in DOMAIN obs :
              /\ obs[i].key = row.key
              /\ Upserted(obs, row) = [obs EXCEPT ![i] = Overwritten(obs[i], row)]
    BY <1>4, UpsertedCases, Zenon
  <2>. QED BY <1>3, <2>1, Zenon
<1>6. CASE ctx[p].seen = <<>>
  <2>1. row = own
    BY <1>3, <1>6 DEF RowToWrite
  <2>2. ASSUME NEW i \in DOMAIN obs, obs[i].key = row.key
        PROVE  obs[i].fp = Fingerprint(Current(p).poll)
    BY <1>1, <1>4, <2>1, <2>2, KeyIsPoll
  <2>. QED BY <1>2, <1>4, <1>5, <2>1, <2>2, Zenon
<1>7. CASE ctx[p].seen # <<>>
  <2>1. FoundOK(p) /\ SeenSame(p)
    BY <1>4 DEF PollInv, SInv, ProgressOK
  <2>2. PICK first : first = ctx[p].seen[1]
    OBVIOUS
  <2>3. row = Merged(first, own)
    BY <1>3, <1>7, <2>2 DEF RowToWrite
  <2>4. first.poll = Current(p).poll
    BY <1>4, <1>7, <2>1, <2>2 DEF SeenSame
  <2>5. row.key = first.key /\ row.poll = Current(p).poll
    BY <1>4, <2>3, <2>4 DEF Merged
  <2>6. PICK i \in DOMAIN obs : obs[i].key = row.key /\ obs[i].fp = Fingerprint(Current(p).poll)
    BY <1>7, <2>1, <2>2, <2>5 DEF FoundOK
  <2>7. \A j \in DOMAIN obs : obs[j].key = row.key => j = i
    BY <1>1, <2>6 DEF RowsOK
  <2>. QED BY <1>5, <2>5, <2>6, <2>7, Zenon
<1>. QED BY <1>6, <1>7

LEMMA PollNext == ASSUME OnePollPerKey, PollInv, [Next]_vars PROVE PollInv'
<1>1. /\ IInv /\ GivenOK /\ RowsGiven /\ SInv' /\ TablesGrow
      /\ obs \in Seq(ObservationRow)
  BY StoredStep, StepsGrow DEF PollInv, SInv, AInv, IInv, TypeOK
<1>2. GivenOK'
  BY <1>1, GivenNext
<1>3. CASE UNCHANGED vars
  <2>1. UNCHANGED <<obs, pc, ctx, job>>
    BY <1>3 DEF vars, tables
  <2>2. RowsGiven' /\ StoredFingerprintCurrent'
    BY <2>1 DEF PollInv, RowsGiven, StoredFingerprintCurrent
  <2>3. \A p \in Proc : SeenSame(p)'
    BY <2>1 DEF PollInv, SeenSame, Current
  <2>. QED BY <1>1, <1>2, <2>2, <2>3 DEF PollInv
<1>4. ASSUME NEW p \in Proc, CreateRun(p) \/ Step(p) \/ Crash(p), NEW q \in Proc
      PROVE  SeenSame(q)'
  <2>1. CASE q # p
    <3>1. pc'[q] = pc[q] /\ job'[q] = job[q] /\ ctx'[q] = ctx[q]
      BY <1>1, <1>4, <2>1, OthersStay
    <3>. QED BY <3>1 DEF PollInv, SeenSame, Current
  <2>2. CASE q = p /\ pc'[p] = "write"
    <3>1. /\ ctx'[p].seen # <<>> => ~CoreConflict(ctx'[p].seen[1], RowOf(Current(p), job[p].run))
          /\ Current(p)' = Current(p)
      BY <1>1, <1>4, <2>2, OnlyFinds, FoundFresh
    <3>. QED BY <2>2, <3>1 DEF SeenSame, CoreConflict, RowOf
  <2>. QED BY <2>1, <2>2 DEF SeenSame
<1>5. ASSUME NEW p \in Proc, WriteObservation(p)
      PROVE  RowsGiven' /\ StoredFingerprintCurrent'
  <2>1. pc[p] \in RecordPoint /\ Current(p) \in IngestRecord
    BY <1>1, <1>5, WriteDoes DEF RecordPoint, Point
  <2>2. CASE obs' = Append(obs, RowOf(Current(p), job[p].run))
    <3>1. PICK own : own = RowOf(Current(p), job[p].run)
      OBVIOUS
    <3>2. own.fp = Fingerprint(own.poll) /\ own.key = Current(p).key /\ own.poll = Current(p).poll
      BY <3>1 DEF RowOf
    <3>3. /\ DOMAIN obs' = DOMAIN obs \cup {Len(obs) + 1}
          /\ obs'[Len(obs) + 1] = own
          /\ \A o \in DOMAIN obs : obs'[o] = obs[o]
      BY <1>1, <2>2, <3>1
    <3>4. StoredFingerprintCurrent'
      BY <3>2, <3>3 DEF PollInv, StoredFingerprintCurrent
    <3>5. PICK payload \in Payloads : \E k \in DOMAIN payload : payload[k] = Current(p)
      BY <1>1, <2>1, CurrentGiven
    <3>6. \E k \in DOMAIN payload : payload[k].key = own.key /\ Fingerprint(payload[k].poll) = own.fp
      BY <3>2, <3>5
    <3>7. RowsGiven'
      BY <1>1, <3>3, <3>6, Zenon DEF RowsGiven
    <3>. QED BY <3>4, <3>7
  <2>3. ASSUME NEW id \in DOMAIN obs, NEW row \in ObservationRow,
               obs' = [obs EXCEPT ![id] = Overwritten(obs[id], row)],
               obs[id].fp = Fingerprint(Current(p).poll),
               row.poll = Current(p).poll
        PROVE  RowsGiven' /\ StoredFingerprintCurrent'
    <3>1. DOMAIN obs' = DOMAIN obs
      BY <2>3
    <3>2. \A o \in DOMAIN obs : obs'[o].key = obs[o].key /\ obs'[o].fp = obs[o].fp
      BY <1>1 DEF TablesGrow
    <3>3. obs'[id].poll = row.poll
      <4>1. Overwritten(obs[id], row).poll = row.poll
        BY DEF Overwritten, ObservationRow
      <4>. QED BY <1>1, <2>3, <4>1
    <3>4. \A o \in DOMAIN obs \ {id} : obs'[o] = obs[o]
      BY <1>1, <2>3
    <3>5. StoredFingerprintCurrent'
      BY <2>3, <3>1, <3>2, <3>3, <3>4 DEF PollInv, StoredFingerprintCurrent
    <3>6. RowsGiven'
      BY <1>1, <3>1, <3>2 DEF RowsGiven
    <3>. QED BY <3>5, <3>6
  <2>. QED BY <1>5, <2>2, <2>3, PollWrite
<1>6. ASSUME obs' = obs
      PROVE  RowsGiven' /\ StoredFingerprintCurrent'
  BY <1>6 DEF PollInv, RowsGiven, StoredFingerprintCurrent
<1>7. ASSUME NEW p \in Proc, CreateRun(p) \/ Step(p) \/ Crash(p)
      PROVE  PollInv'
  <2>1. RowsGiven' /\ StoredFingerprintCurrent'
    BY <1>1, <1>5, <1>6, <1>7, OnlyWrites
  <2>2. \A q \in Proc : SeenSame(q)'
    BY <1>4, <1>7
  <2>. QED BY <1>1, <1>2, <2>1, <2>2 DEF PollInv
<1>. QED BY <1>3, <1>7 DEF Next

LEMMA PollInvariance == ASSUME OnePollPerKey PROVE Spec => []PollInv
<1>1. Init => PollInv
  <2>1. Init => SInv
    BY StoredInit
  <2>2. Init => /\ GivenOK /\ RowsGiven /\ StoredFingerprintCurrent
                /\ \A p \in Proc : SeenSame(p)
    BY DEF Init, GivenOK, RowsGiven, StoredFingerprintCurrent, SeenSame
  <2>. QED BY <2>1, <2>2 DEF PollInv
<1>2. PollInv /\ [Next]_vars => PollInv'
  BY PollNext
<1>. QED BY <1>1, <1>2, PTL DEF Spec

\* As long as no two records share a key and differ in their poll, a row is found
\* by the fingerprint of the columns it holds, however many processes ingest.
THEOREM CurrentFingerprintTheorem ==
    ASSUME OnePollPerKey PROVE Spec => []StoredFingerprintCurrent
<1>1. PollInv => StoredFingerprintCurrent
  BY DEF PollInv
<1>. QED BY <1>1, PollInvariance, PTL

-------------------------------------------------------------------------------
(***************************************************************************)
(* No overlap and one poll per key: every write of a poll that has a row   *)
(* goes through the priority merge.                                        *)
(***************************************************************************)
RowRoles(row) ==
    /\ row.meta = SourceOf(row.channels)
    /\ row.context = (IF "article" \in row.channels THEN "article" ELSE "nesdc")
    /\ row.source = SourceOf(row.channels)
    /\ row.source \in row.channels

RolesInv == FreshInv /\ PollInv /\ \A o \in DOMAIN obs : RowRoles(obs[o])

\* What a row becomes when a record is merged into it.
MergedInto(old, own) == Overwritten(old, Merged(old, own))

LEMMA OwnRoles ==
    ASSUME NEW r \in IngestRecord, NEW n \in Nat
    PROVE  RowRoles(RowOf(r, n)) /\ RowOf(r, n).channels = {RowOf(r, n).source}
<1>1. r.source \in Source
  BY DEF IngestRecord
<1>. QED BY <1>1 DEF RowRoles, RowOf, SourceOf, Source

LEMMA MergedKeepsRoles ==
    ASSUME NEW old \in ObservationRow, NEW own \in ObservationRow, RowRoles(old), RowRoles(own),
           own.channels = {own.source}
    PROVE  RowRoles(MergedInto(old, own))
<1>1. PICK m \in ObservationRow : m = Merged(old, own)
  BY MergedType
<1>2. /\ m.channels = old.channels \cup own.channels
      /\ m.source = SourceOf(m.channels)
      /\ m.context = IF own.source = "article" THEN "article" ELSE old.context
      /\ m.meta = IF SourcePriority(own.source) > SourcePriority(old.source)
                  THEN own.meta ELSE old.meta
  BY <1>1 DEF Merged, MergedChannels, RowRoles
<1>3. /\ old.source \in Source /\ own.source \in Source /\ m.source \in Source
      /\ old.channels \subseteq Source /\ own.channels \subseteq Source
  BY DEF ObservationRow
<1>4. m.meta = SourceOf(m.channels)
  BY <1>2, <1>3 DEF RowRoles, SourceOf, SourcePriority, Source
<1>5. m.context = IF "article" \in m.channels THEN "article" ELSE "nesdc"
  BY <1>2, <1>3 DEF RowRoles, SourceOf, Source
<1>6. PICK w : w = Overwritten(old, m)
  OBVIOUS
<1>7. /\ w.meta = m.meta /\ w.context = m.context
      /\ w.channels = old.channels \cup m.channels
      /\ w.source = IF "nesdc" \in {old.source, m.source} THEN "nesdc" ELSE m.source
  BY <1>6 DEF Overwritten, ObservationRow
<1>8. w.channels = m.channels
  BY <1>2, <1>7
<1>9. w.source = SourceOf(w.channels) /\ w.source \in w.channels
  BY <1>2, <1>3, <1>7, <1>8 DEF RowRoles, SourceOf, Source
<1>10. RowRoles(w)
  BY <1>4, <1>5, <1>7, <1>8, <1>9 DEF RowRoles
<1>. QED BY <1>1, <1>6, <1>10 DEF MergedInto

LEMMA MergedKeepsQuality ==
    ASSUME NEW old \in ObservationRow, NEW own \in ObservationRow
    PROVE  /\ GradePriority(MergedInto(old, own).grade) >= GradePriority(old.grade)
           /\ old.verified => MergedInto(old, own).verified
<1>1. PICK m \in ObservationRow : m = Merged(old, own)
  BY MergedType
<1>2. /\ MergedInto(old, own).grade = BestGrade(old.grade, own.grade)
      /\ MergedInto(old, own).verified = (old.verified \/ own.verified)
  <2>1. m.grade = BestGrade(old.grade, own.grade) /\ m.verified = (old.verified \/ own.verified)
    BY <1>1 DEF Merged
  <2>2. Overwritten(old, m).grade = m.grade /\ Overwritten(old, m).verified = m.verified
    BY DEF Overwritten, ObservationRow
  <2>. QED BY <1>1, <2>1, <2>2 DEF MergedInto
<1>3. old.grade \in Grade /\ own.grade \in Grade
  BY DEF ObservationRow
<1>4. GradePriority(BestGrade(old.grade, own.grade)) >= GradePriority(old.grade)
  BY <1>3 DEF BestGrade, GradePriority, Grade
<1>. QED BY <1>2, <1>4

\* A record is appended, or merged into the row of its poll.
LEMMA RolesWrite ==
    ASSUME OnePollPerKey, FreshInv, PollInv, NEW p \in Proc, WriteObservation(p)
    PROVE  \E own \in ObservationRow :
              /\ own = RowOf(Current(p), job[p].run)
              /\ RowRoles(own) /\ own.channels = {own.source}
              /\ \/ obs' = Append(obs, own)
                 \/ \E id \in DOMAIN obs : obs' = [obs EXCEPT ![id] = MergedInto(obs[id], own)]
<1>1. IInv /\ SInv /\ GivenOK /\ RowsGiven /\ SeenFresh(p)
  BY DEF FreshInv, PollInv, SInv, AInv
<1>2. Current(p) \in IngestRecord /\ job[p].run \in Nat /\ pc[p] \in RecordPoint
  BY <1>1, WriteDoes DEF RecordPoint, Point
<1>3. PICK own \in ObservationRow : own = RowOf(Current(p), job[p].run)
  BY <1>2 DEF RowOf, ObservationRow, IngestRecord, Fingerprint, Source
<1>4. RowRoles(own) /\ own.channels = {own.source}
  BY <1>2, <1>3, OwnRoles
<1>5. own.key = Current(p).key /\ own.fp = Fingerprint(Current(p).poll)
  BY <1>3 DEF RowOf
<1>6. \A id \in DOMAIN obs : obs[id].key = own.key => obs[id].fp = own.fp
  BY <1>1, <1>2, <1>5, KeyIsPoll
<1>7. \/ obs' = Append(obs, own)
      \/ \E id \in DOMAIN obs : obs' = [obs EXCEPT ![id] = MergedInto(obs[id], own)]
  <2>1. \/ /\ ctx[p].seen = <<>>
           /\ \A o \in DOMAIN obs : obs[o].key # own.key /\ obs[o].fp # own.fp
           /\ obs' = Append(obs, own)
        \/ \E id \in DOMAIN obs :
              /\ ctx[p].seen = <<>>
              /\ obs[id].key = own.key
              /\ \A o \in DOMAIN obs : obs[o].fp # own.fp
              /\ obs' = [obs EXCEPT ![id] = Overwritten(obs[id], own)]
        \/ \E id \in DOMAIN obs :
              /\ ctx[p].seen # <<>> /\ obs[id] = ctx[p].seen[1]
              /\ obs[id].fp = own.fp
              /\ obs' = [obs EXCEPT ![id] = Overwritten(obs[id], Merged(obs[id], own))]
    BY <1>1, <1>3, FreshWrite
  <2>2. ASSUME NEW id \in DOMAIN obs, obs[id].key = own.key,
               \A o \in DOMAIN obs : obs[o].fp # own.fp
        PROVE  FALSE
    BY <1>6, <2>2
  <2>. QED BY <2>1, <2>2, Zenon DEF MergedInto
<1>. QED BY <1>3, <1>4, <1>7

LEMMA RolesNext ==
    ASSUME OneWriter, OnePollPerKey, RolesInv, [Next]_vars
    PROVE  /\ RolesInv'
           /\ \A o \in DOMAIN obs :
                 /\ GradePriority(obs'[o].grade) >= GradePriority(obs[o].grade)
                 /\ obs[o].verified => obs'[o].verified
<1>. DEFINE Better(old, new) == /\ GradePriority(new.grade) >= GradePriority(old.grade)
                                /\ old.verified => new.verified
<1>1. FreshInv' /\ PollInv' /\ IInv /\ obs \in Seq(ObservationRow)
  BY FreshNext, PollNext DEF RolesInv, PollInv, SInv, AInv, IInv, TypeOK
<1>2. \A row \in ObservationRow : Better(row, row)
  <2>1. \A g \in Grade : GradePriority(g) >= GradePriority(g)
    BY DEF GradePriority, Grade
  <2>. QED BY <2>1 DEF ObservationRow
<1>3. CASE obs' = obs
  BY <1>1, <1>2, <1>3 DEF RolesInv
<1>4. ASSUME NEW p \in Proc, WriteObservation(p)
      PROVE  /\ \A o \in DOMAIN obs' : RowRoles(obs'[o])
             /\ \A o \in DOMAIN obs : Better(obs[o], obs'[o])
  <2>. HIDE DEF Better
  <2>1. PICK own \in ObservationRow :
              /\ RowRoles(own) /\ own.channels = {own.source}
              /\ \/ obs' = Append(obs, own)
                 \/ \E id \in DOMAIN obs : obs' = [obs EXCEPT ![id] = MergedInto(obs[id], own)]
    BY <1>4, RolesWrite DEF RolesInv
  <2>2. CASE obs' = Append(obs, own)
    <3>1. /\ DOMAIN obs' = DOMAIN obs \cup {Len(obs) + 1}
          /\ obs'[Len(obs) + 1] = own
          /\ \A o \in DOMAIN obs : obs'[o] = obs[o] /\ obs[o] \in ObservationRow
      BY <1>1, <2>2
    <3>2. \A o \in DOMAIN obs' : RowRoles(obs'[o])
      BY <2>1, <3>1 DEF RolesInv
    <3>3. \A o \in DOMAIN obs : Better(obs[o], obs'[o])
      BY <1>2, <3>1
    <3>. QED BY <3>2, <3>3
  <2>3. ASSUME NEW id \in DOMAIN obs, obs' = [obs EXCEPT ![id] = MergedInto(obs[id], own)]
        PROVE  /\ \A o \in DOMAIN obs' : RowRoles(obs'[o])
               /\ \A o \in DOMAIN obs : Better(obs[o], obs'[o])
    <3>1. PICK old \in ObservationRow : old = obs[id]
      BY <1>1
    <3>2. RowRoles(MergedInto(old, own))
      BY <2>1, <3>1, MergedKeepsRoles DEF RolesInv
    <3>3. Better(old, MergedInto(old, own))
      BY MergedKeepsQuality DEF Better
    <3>4. /\ DOMAIN obs' = DOMAIN obs /\ obs'[id] = MergedInto(old, own)
          /\ \A o \in DOMAIN obs \ {id} : obs'[o] = obs[o] /\ obs[o] \in ObservationRow
      BY <1>1, <2>3, <3>1
    <3>5. \A o \in DOMAIN obs' : RowRoles(obs'[o])
      BY <3>2, <3>4 DEF RolesInv
    <3>6. \A o \in DOMAIN obs : Better(obs[o], obs'[o])
      BY <1>2, <3>1, <3>3, <3>4
    <3>. QED BY <3>5, <3>6
  <2>. QED BY <2>1, <2>2, <2>3
<1>5. ASSUME NEW p \in Proc, CreateRun(p) \/ Step(p) \/ Crash(p), obs' # obs
      PROVE  WriteObservation(p)
  BY <1>1, <1>5, OnlyWrites
<1>. QED BY <1>1, <1>3, <1>4, <1>5 DEF Next, vars, tables, RolesInv

LEMMA RolesInvariance == ASSUME OnePollPerKey PROVE Spec /\ []OneWriter => []RolesInv
<1>1. Init => RolesInv
  <2>1. Init => SInv
    BY StoredInit
  <2>2. Init => /\ FingerprintUnique /\ \A p \in Proc : SeenFresh(p) /\ SeenSame(p)
                /\ GivenOK /\ RowsGiven /\ StoredFingerprintCurrent
                /\ \A o \in DOMAIN obs : RowRoles(obs[o])
    BY DEF Init, FingerprintUnique, SeenFresh, GivenOK, RowsGiven, StoredFingerprintCurrent,
       SeenSame
  <2>. QED BY <2>1, <2>2 DEF RolesInv, FreshInv, PollInv
<1>2. RolesInv /\ OneWriter /\ [Next]_vars => RolesInv'
  BY RolesNext
<1>. QED BY <1>1, <1>2, PTL DEF Spec

\* Without overlap and with one poll per key, the meta fields are NESDC's when
\* NESDC reported the poll, and the context fields an article's when one did, whatever the order of arrival (merge_observation_by_priority).
THEOREM RolesTheorem ==
    ASSUME OnePollPerKey PROVE Spec /\ []OneWriter => []SourceRolesRespected
<1>1. RolesInv => SourceRolesRespected
  BY DEF RolesInv, RowRoles, SourceRolesRespected
<1>. QED BY <1>1, RolesInvariance, PTL

\* Under the same conditions no later source lowers a grade or takes back a
\* verification.
THEOREM QualityTheorem ==
    ASSUME OnePollPerKey PROVE Spec /\ []OneWriter => QualityNeverDrops
<1>1. RolesInv /\ OneWriter /\ [Next]_vars =>
        [\A o \in DOMAIN obs :
            /\ GradePriority(obs'[o].grade) >= GradePriority(obs[o].grade)
            /\ obs[o].verified => obs'[o].verified]_obs
  BY RolesNext
<1>. QED BY <1>1, RolesInvariance, PTL DEF Spec, QualityNeverDrops

-------------------------------------------------------------------------------
(***************************************************************************)
(* A record with explicit scenarios whose options no other process writes  *)
(* meanwhile: they replace the defaults that were there.                   *)
(***************************************************************************)

\* The backfill adds no default candidate option.
LEMMA AskedExplicit ==
    ASSUME NEW p \in Proc, NEW x \in Asked(p), IsDefaultCandidate(x)
    PROVE  x \in Current(p).options
<1>1. CASE x \notin Current(p).options
  <2>1. PICK n : x = [type |-> "candidate_matchup", name |-> n, scenario |-> "multi"]
    BY <1>1 DEF Asked, Backfilled
  <2>2. x.scenario = "multi"
    BY <2>1
  <2>. QED BY <2>2 DEF IsDefaultCandidate
<1>. QED BY <1>1

\* What a process writes keeps the defaults of its observation its own.
LEMMA ReplacedStep ==
    ASSUME IInv, NEW p \in Proc, pc[p] \in Written => ReplacedOK(p),
           CreateRun(p) \/ Step(p) \/ Crash(p), pc'[p] \in Written
    PROVE  ReplacedOK(p)'
<1>. DEFINE late == {"incomplete", "option", "note", "stored"}
            rest == {"idle", "stale", "region", "scope", "candidate", "profile", "article",
                     "find", "write", "handler", "finish", "counters"}
<1>1. PICK c \in Context : c = ctx[p]
  BY DEF IInv, TypeOK
<1>2. \/ WriteObservation(p) \/ FetchDefaults(p) \/ DeleteDefaults(p) \/ ReportIncomplete(p)
      \/ UpsertOption(p) \/ ReportNote(p)
  <2>1. CASE CreateRun(p) \/ RejectStale(p) \/ RejectScope(p) \/ RecordStored(p)
             \/ HandleException(p)
    <3>1. \E point \in rest : Goto(p, point)
      BY <2>1 DEF CreateRun, RejectStale, RejectScope, RecordStored, HandleException, EndRecord, Entry
    <3>. QED BY <3>1 DEF Goto, IInv, TypeOK, Written
  <2>2. CASE UpsertRegion(p) \/ UpsertMatchup(p) \/ UpsertCandidate(p) \/ ReportProfile(p)
             \/ UpsertArticle(p) \/ FindByFingerprint(p) \/ Raise(p)
    <3>1. \E point \in rest : Goto(p, point)
      BY <2>2 DEF UpsertRegion, UpsertMatchup, UpsertCandidate, ReportProfile, UpsertArticle,
         FindByFingerprint, Raise, ToCandidate
    <3>. QED BY <3>1 DEF Goto, IInv, TypeOK, Written
  <2>3. CASE FinishRun(p) \/ UpdateCounters(p) \/ AbandonRun(p) \/ Crash(p)
    <3>1. \E point \in rest : Goto(p, point)
      BY <2>3 DEF FinishRun, UpdateCounters, AbandonRun, Crash, Leave
    <3>. QED BY <3>1 DEF Goto, IInv, TypeOK, Written
  <2>. QED BY <2>1, <2>2, <2>3 DEF Step
<1>3. PICK r : r = Current(p) /\ r = Current(p)'
  BY <1>2 DEF Current, WriteObservation, FetchDefaults, DeleteDefaults, ReportIncomplete,
     UpsertOption, ReportNote
<1>4. CASE WriteObservation(p)
  <2>1. pc'[p] = "fetch" \/ ~HasExplicitScenarios(r.options)
    BY <1>3, <1>4 DEF WriteObservation, Goto, IInv, TypeOK
  <2>2. PICK id : ctx' = [ctx EXCEPT ![p].oid = id, ![p].todo = r.options]
    BY <1>3, <1>4 DEF WriteObservation
  <2>3. ctx'[p].todo = r.options
    BY <1>1, <2>2 DEF IInv, TypeOK, Context
  <2>. QED BY <1>3, <2>1, <2>3 DEF ReplacedOK
<1>5. CASE FetchDefaults(p) /\ HasExplicitScenarios(r.options)
  <2>1. c.todo = r.options
    BY <1>1, <1>3, <1>5 DEF FetchDefaults, ReplacedOK, Written
  <2>2. PICK names : ctx' = [ctx EXCEPT ![p].prior = names, ![p].todo = Backfilled(@, names)]
    BY <1>5 DEF FetchDefaults
  <2>3. PICK todo : todo = Backfilled(c.todo, names)
    OBVIOUS
  <2>4. ctx' = [ctx EXCEPT ![p].prior = names, ![p].todo = todo]
    BY <1>1, <2>2, <2>3
  <2>5. ctx'[p].prior = names /\ ctx'[p].todo = todo
    BY <1>1, <2>4 DEF IInv, TypeOK, Context
  <2>6. ctx'[p].todo = Asked(p)'
    BY <1>3, <2>1, <2>3, <2>5 DEF Asked
  <2>7. pc'[p] = "cleanup"
    BY <1>5 DEF FetchDefaults, Goto, IInv, TypeOK
  <2>. QED BY <2>6, <2>7 DEF ReplacedOK
<1>6. CASE DeleteDefaults(p) /\ HasExplicitScenarios(r.options)
  <2>1. ctx' = ctx /\ options' = options \ StoredDefaults(c.oid) /\ c.todo = Asked(p)
    BY <1>1, <1>3, <1>6 DEF DeleteDefaults, ReplacedOK, Written
  <2>2. Asked(p)' = Asked(p)
    BY <1>3, <2>1 DEF Asked
  <2>3. StoredDefaults(c.oid)' = {}
    BY <2>1 DEF StoredDefaults
  <2>5. OwnDefaults(p)'
    BY <1>1, <2>1, <2>3 DEF OwnDefaults
  <2>4. pc'[p] \in late
    BY <1>6 DEF DeleteDefaults, Goto, ToIncomplete, ToOption, ToNote, IInv, TypeOK
  <2>. QED BY <1>1, <2>1, <2>2, <2>4, <2>5 DEF ReplacedOK
<1>7. CASE (ReportIncomplete(p) \/ ReportNote(p)) /\ HasExplicitScenarios(r.options)
  <2>1. /\ \A x \in StoredDefaults(c.oid) : x.option \in r.options
        /\ c.todo \subseteq Asked(p)
        /\ \A x \in Asked(p) : x \in c.todo \/ [oid |-> c.oid, option |-> x] \in options
    BY <1>1, <1>3, <1>7 DEF ReportIncomplete, ReportNote, ReplacedOK, OwnDefaults, Written
  <2>2. UNCHANGED options /\ (ctx' = ctx \/ ctx' = [ctx EXCEPT ![p].cursor = @ + 1])
    BY <1>7 DEF ReportIncomplete, ReportNote
  <2>3. ctx'[p].oid = c.oid /\ ctx'[p].todo = c.todo /\ ctx'[p].prior = c.prior
    BY <1>1, <2>2 DEF IInv, TypeOK, Context
  <2>4. Asked(p)' = Asked(p)
    BY <1>1, <1>3, <2>3 DEF Asked
  <2>5. OwnDefaults(p)'
    <3>1. StoredDefaults(c.oid)' = StoredDefaults(c.oid)
      BY <2>2 DEF StoredDefaults
    <3>. QED BY <1>3, <2>1, <2>3, <3>1 DEF OwnDefaults
  <2>6. pc'[p] \in late
    BY <1>7 DEF ReportIncomplete, ReportNote, Goto, ToOption, ToNote, IInv, TypeOK
  <2>. QED BY <2>1, <2>2, <2>3, <2>4, <2>5, <2>6 DEF ReplacedOK
<1>8. CASE UpsertOption(p) /\ HasExplicitScenarios(r.options)
  <2>1. /\ \A x \in StoredDefaults(c.oid) : x.option \in r.options
        /\ c.todo \subseteq Asked(p)
        /\ \A x \in Asked(p) : x \in c.todo \/ [oid |-> c.oid, option |-> x] \in options
    BY <1>1, <1>3, <1>8 DEF UpsertOption, ReplacedOK, OwnDefaults, Written
  <2>2. PICK o \in c.todo :
          /\ options' = options \cup {[oid |-> c.oid, option |-> o]}
          /\ ctx' = [ctx EXCEPT ![p].todo = @ \ {o}]
    BY <1>1, <1>8 DEF UpsertOption
  <2>3. ctx'[p].oid = c.oid /\ ctx'[p].todo = c.todo \ {o} /\ ctx'[p].prior = c.prior
    BY <1>1, <2>2 DEF IInv, TypeOK, Context
  <2>4. Asked(p)' = Asked(p)
    BY <1>1, <1>3, <2>3 DEF Asked
  <2>5. IsDefaultCandidate(o) => o \in r.options
    BY <1>3, <2>1, AskedExplicit
  <2>6. OwnDefaults(p)'
    <3>1. PICK y : y = [oid |-> c.oid, option |-> o]
      OBVIOUS
    <3>2. y.option = o
      BY <3>1
    <3>3. \A x \in StoredDefaults(c.oid)' :
             x \in StoredDefaults(c.oid) \/ (x = y /\ IsDefaultCandidate(o))
      BY <2>2, <3>1, <3>2 DEF StoredDefaults
    <3>4. \A x \in StoredDefaults(c.oid)' : x.option \in r.options
      BY <2>1, <2>5, <3>2, <3>3
    <3>. QED BY <1>3, <2>3, <3>4 DEF OwnDefaults
  <2>7. pc'[p] \in late
    BY <1>8 DEF UpsertOption, Goto, ToOption, ToNote, IInv, TypeOK
  <2>. QED BY <2>1, <2>2, <2>3, <2>4, <2>6, <2>7 DEF ReplacedOK
<1>9. CASE ~HasExplicitScenarios(r.options)
  BY <1>3, <1>9 DEF ReplacedOK
<1>. QED BY <1>2, <1>4, <1>5, <1>6, <1>7, <1>8, <1>9

\* A process touches the options of its own observation only.
LEMMA OptionsTouched ==
    ASSUME IInv, NEW p \in Proc, CreateRun(p) \/ Step(p) \/ Crash(p), options' # options
    PROVE  /\ pc[p] \in Written
           /\ \A x : x.oid # ctx[p].oid => (x \in options' <=> x \in options)
<1>1. DeleteDefaults(p) \/ UpsertOption(p)
  BY DEF CreateRun, Crash, Step, RejectStale, UpsertRegion, RejectScope, UpsertMatchup,
     UpsertCandidate, ReportProfile, UpsertArticle, FindByFingerprint, WriteObservation,
     FetchDefaults, ReportIncomplete, ReportNote, RecordStored,
     Raise, HandleException, FinishRun, UpdateCounters, AbandonRun, UpsertRef, tables
<1>2. CASE DeleteDefaults(p)
  BY <1>2 DEF DeleteDefaults, StoredDefaults, Written
<1>3. CASE UpsertOption(p)
  <2>1. PICK o : options' = options \cup {[oid |-> ctx[p].oid, option |-> o]}
    BY <1>3 DEF UpsertOption
  <2>2. [oid |-> ctx[p].oid, option |-> o].oid = ctx[p].oid
    OBVIOUS
  <2>. QED BY <1>3, <2>1, <2>2 DEF UpsertOption, Written
<1>. QED BY <1>1, <1>2, <1>3

\* What the others write does not disturb a replacement.
LEMMA ReplacedStill ==
    ASSUME OneReplacer, IInv, NEW p \in Proc, CreateRun(p) \/ Step(p) \/ Crash(p),
           NEW q \in Proc, q # p, pc[q] \in Written => ReplacedOK(q), pc'[q] \in Written
    PROVE  ReplacedOK(q)'
<1>1. pc'[q] = pc[q] /\ job'[q] = job[q] /\ ctx'[q] = ctx[q]
  BY OthersStay
<1>2. Current(q)' = Current(q) /\ Asked(q)' = Asked(q)
  BY <1>1 DEF Current, Asked
<1>3. PICK oid : oid = ctx[q].oid
  OBVIOUS
<1>4. \A x : x.oid = oid => (x \in options' <=> x \in options)
  <2>1. options' # options => pc[p] \in Written /\ ctx[p].oid # oid
    BY <1>1, <1>3, OptionsTouched DEF OneReplacer
  <2>. QED BY <2>1, OptionsTouched
<1>5. StoredDefaults(oid)' = StoredDefaults(oid)
  BY <1>4 DEF StoredDefaults
<1>6. \A x : [oid |-> oid, option |-> x] \in options' <=> [oid |-> oid, option |-> x] \in options
  <2>1. \A x : [oid |-> oid, option |-> x].oid = oid
    OBVIOUS
  <2>. QED BY <1>4, <2>1
<1>. QED BY <1>1, <1>2, <1>3, <1>5, <1>6 DEF ReplacedOK, OwnDefaults

LEMMA ReplaceNext == ASSUME OneReplacer, ReplaceInv, [Next]_vars PROVE ReplaceInv'
<1>1. IInv /\ GivenOK /\ SInv' /\ GivenOK'
  BY StoredStep, GivenNext DEF ReplaceInv, SInv, AInv
<1>2. CASE UNCHANGED vars
  <2>1. UNCHANGED <<options, pc, ctx, job>>
    BY <1>2 DEF vars, tables
  <2>. QED BY <1>1, <2>1 DEF ReplaceInv, ReplacedOK, OwnDefaults, Asked, StoredDefaults, Current
<1>3. ASSUME NEW p \in Proc, CreateRun(p) \/ Step(p) \/ Crash(p)
      PROVE  ReplaceInv'
  <2>1. pc'[p] \in Written => ReplacedOK(p)'
    BY <1>1, <1>3, ReplacedStep DEF ReplaceInv
  <2>2. ASSUME NEW q \in Proc, q # p, pc'[q] \in Written
        PROVE  ReplacedOK(q)'
    BY <1>1, <1>3, <2>2, ReplacedStill DEF ReplaceInv
  <2>. QED BY <1>1, <2>1, <2>2 DEF ReplaceInv
<1>. QED BY <1>2, <1>3 DEF Next

LEMMA ReplaceInvariance == Spec /\ []OneReplacer => []ReplaceInv
<1>1. Init => ReplaceInv
  <2>1. Init => SInv
    BY StoredInit
  <2>2. Init => GivenOK /\ \A p \in Proc : pc[p] \notin Written
    BY DEF Init, GivenOK, Written
  <2>. QED BY <2>1, <2>2 DEF ReplaceInv
<1>2. ReplaceInv /\ OneReplacer /\ [Next]_vars => ReplaceInv'
  BY ReplaceNext
<1>. QED BY <1>1, <1>2, PTL DEF Spec

\* When a record with explicit scenarios is stored and no other process has been at
\* its observation's options meanwhile, no default candidate row of an earlier record
\* is left, and the record's multi-candidate scenario has every name those rows had
\* (the cleanup and backfill of ingest_payload).
ExplicitScenariosReplaceEarlier ==
    \A p \in Proc :
        pc[p] = "stored" /\ HasExplicitScenarios(Current(p).options) =>
            /\ OwnDefaults(p)
            /\ MultiCandidates(Current(p).options) # {} =>
                  \A n \in ctx[p].prior :
                      [oid |-> ctx[p].oid,
                       option |-> [type |-> "candidate_matchup", name |-> n,
                                   scenario |-> "multi"]] \in options

\* As long as no two processes are at the options of one observation, explicit
\* scenarios replace the default rows of earlier records, whatever the records hold.
THEOREM ReplaceTheorem == Spec /\ []OneReplacer => []ExplicitScenariosReplaceEarlier
<1>1. ReplaceInv => ExplicitScenariosReplaceEarlier
  <2>. SUFFICES ASSUME ReplaceInv, NEW p \in Proc, pc[p] = "stored",
                       HasExplicitScenarios(Current(p).options)
                PROVE  /\ OwnDefaults(p)
                       /\ MultiCandidates(Current(p).options) # {} =>
                             \A n \in ctx[p].prior :
                                [oid |-> ctx[p].oid,
                                 option |-> [type |-> "candidate_matchup", name |-> n,
                                             scenario |-> "multi"]] \in options
    BY DEF ExplicitScenariosReplaceEarlier
  <2>1. pc[p] \in Written /\ ReplacedOK(p) /\ ctx[p].todo = {}
    BY DEF ReplaceInv, Written, SInv, ProgressOK, WrittenOK
  <2>2. /\ OwnDefaults(p)
        /\ \A x \in Asked(p) : [oid |-> ctx[p].oid, option |-> x] \in options
    BY <2>1 DEF ReplacedOK
  <2>3. ASSUME MultiCandidates(Current(p).options) # {}, NEW n \in ctx[p].prior
        PROVE  [type |-> "candidate_matchup", name |-> n, scenario |-> "multi"] \in Asked(p)
    BY <2>3 DEF Asked, Backfilled
  <2>. QED BY <2>2, <2>3
<1>. QED BY <1>1, ReplaceInvariance, PTL

\* If, besides, no record mixes default candidate options with explicit scenarios, no
\* default candidate row is left at all.
THEOREM SupersedeTheorem ==
    ASSUME Unmixed PROVE Spec /\ []OneReplacer => []ExplicitScenariosSupersedeDefaults
<1>1. ReplaceInv /\ ExplicitScenariosReplaceEarlier => ExplicitScenariosSupersedeDefaults
  <2>. SUFFICES ASSUME ReplaceInv, ExplicitScenariosReplaceEarlier,
                       NEW p \in Proc, pc[p] = "stored",
                       HasExplicitScenarios(Current(p).options)
                PROVE  StoredDefaults(ctx[p].oid) = {}
    BY DEF ExplicitScenariosSupersedeDefaults, ExplicitScenariosReplaceEarlier
  <2>1. IInv /\ GivenOK /\ OwnDefaults(p)
    BY DEF ReplaceInv, SInv, AInv, ExplicitScenariosReplaceEarlier
  <2>2. PICK payload \in Payloads : \E k \in DOMAIN payload : payload[k] = Current(p)
    BY <2>1, CurrentGiven DEF RecordPoint, Point
  <2>3. \A y \in Current(p).options : ~IsDefaultCandidate(y)
    BY <2>2 DEF Unmixed
  <2>. QED BY <2>1, <2>3 DEF OwnDefaults, StoredDefaults
<1>. QED BY <1>1, ReplaceInvariance, ReplaceTheorem, PTL
===============================================================================
