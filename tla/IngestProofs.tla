----------------------------- MODULE IngestProofs -----------------------------
(***************************************************************************)
(* Theorems about Ingest, for any number of processes, any payloads, faults *)
(* and crashes: its types and what no write takes back; then what a run    *)
(* records and what became of its records: the counters of a finished run  *)
(* agree with the outcomes, the stored records are in the tables, the      *)
(* rejected ones in review_queue.                                          *)
(***************************************************************************)
EXTENDS Ingest, SequenceTheorems, FiniteSetTheorems,
        WellFoundedInduction, TLAPS

-------------------------------------------------------------------------------
(***************************************************************************)
(* Rows: what a merge and a write return.                                  *)
(***************************************************************************)

\* The merge of two rows is a row (merge_observation_by_priority).
LEMMA MergedType ==
    ASSUME NEW e \in ObservationRow, NEW i \in ObservationRow
    PROVE  Merged(e, i) \in ObservationRow
BY DEF Merged, ObservationRow, MergedChannels, SourceOf, SourcePriority, Source,
       BestGrade, GradePriority, Grade

\* ON CONFLICT DO UPDATE leaves a row (upsert_poll_observation).
LEMMA OverwrittenType ==
    ASSUME NEW old \in ObservationRow, NEW new \in ObservationRow
    PROVE  Overwritten(old, new) \in ObservationRow
BY DEF Overwritten, ObservationRow, Source

\* The upsert keeps every id, adds at most one, and returns an id of the table.
LEMMA UpsertedType ==
    ASSUME NEW table \in Seq(ObservationRow), NEW row \in ObservationRow
    PROVE  /\ Upserted(table, row) \in Seq(ObservationRow)
           /\ DOMAIN table \subseteq DOMAIN Upserted(table, row)
           /\ UpsertId(table, row) \in DOMAIN Upserted(table, row)
           /\ UpsertId(table, row) \in Nat
<1>1. CASE RowsWithKey(table, row.key) = {}
  BY <1>1 DEF Upserted, UpsertId
<1>2. CASE RowsWithKey(table, row.key) # {}
  <2>1. UpsertId(table, row) \in DOMAIN table
    BY <1>2 DEF UpsertId, RowsWithKey
  <2>2. Overwritten(table[UpsertId(table, row)], row) \in ObservationRow
    BY <2>1, OverwrittenType
  <2>3. Upserted(table, row) =
          [table EXCEPT ![UpsertId(table, row)] =
                            Overwritten(table[UpsertId(table, row)], row)]
    BY <1>2 DEF Upserted
  <2>. QED BY <2>1, <2>2, <2>3
<1>. QED BY <1>1, <1>2

\* The row a record asks for, and the row written after a merge, are rows.
LEMMA RowToWriteType ==
    ASSUME NEW r \in IngestRecord, NEW n \in Nat, NEW seen \in Seq(ObservationRow)
    PROVE  RowToWrite(seen, RowOf(r, n)) \in ObservationRow
<1>1. RowOf(r, n) \in ObservationRow
  BY DEF RowOf, ObservationRow, IngestRecord, Fingerprint, Source
<1>2. CASE seen = <<>>
  BY <1>1, <1>2 DEF RowToWrite
<1>3. CASE seen # <<>>
  BY <1>1, <1>3, MergedType DEF RowToWrite
<1>. QED BY <1>2, <1>3

\* A non-empty set of naturals with an upper bound has a greatest element.
LEMMA GreatestElement ==
    ASSUME NEW S, NEW n \in Nat, S \subseteq 0..n, S # {}
    PROVE  \E m \in S : \A k \in S : k <= m
<1>. DEFINE T == {n - k : k \in S}
            R == {ss \in Nat \X Nat : ss[1] < ss[2]}
<1>1. T \subseteq Nat /\ T # {}
  <2>1. \A k \in S : n - k \in Nat
    OBVIOUS
  <2>. QED BY <2>1
<1>2. PICK t \in T : \A u \in T : ~(<<u, t>> \in R)
  <2>1. IsWellFoundedOn(R, Nat)
    BY NatLessThanWellFounded, Zenon DEF OpToRel
  <2>. HIDE DEF T, R
  <2>. QED BY <1>1, <2>1, WFMin
<1>3. \A u \in T : t <= u
  <2>. TAKE u \in T
  <2>1. u \in Nat /\ t \in Nat
    BY <1>1, <1>2
  <2>2. ~(<<u, t>> \in R)
    BY <1>2
  <2>3. u < t => <<u, t>> \in R
    BY <2>1
  <2>4. ~(u < t)
    BY <2>2, <2>3
  <2>. HIDE DEF T, R
  <2>. QED BY <2>1, <2>4
<1>4. PICK m \in S : t = n - m
  OBVIOUS
<1>5. \A k \in S : k <= m
  <2>. TAKE k \in S
  <2>1. n - k \in T
    OBVIOUS
  <2>2. t <= n - k
    BY <1>3, <2>1
  <2>. QED BY <1>4, <2>2
<1>. QED BY <1>5

\* The search returns 0 when no row has the fingerprint, and the id of a row
\* that has it otherwise (_find_observation_by_fingerprint).
LEMMA NewestType ==
    ASSUME NEW table \in Seq(ObservationRow), NEW fp
    PROVE  IF RowsWithFingerprint(table, fp) = {}
           THEN NewestWithFingerprint(table, fp) = 0
           ELSE NewestWithFingerprint(table, fp) \in RowsWithFingerprint(table, fp)
<1>1. CASE RowsWithFingerprint(table, fp) = {}
  BY <1>1 DEF NewestWithFingerprint
<1>2. CASE RowsWithFingerprint(table, fp) # {}
  <2>1. RowsWithFingerprint(table, fp) \subseteq 0..Len(table)
    BY DEF RowsWithFingerprint
  <2>2. PICK m \in RowsWithFingerprint(table, fp) :
            \A k \in RowsWithFingerprint(table, fp) : k <= m
    BY <1>2, <2>1, GreatestElement
  <2>. QED BY <1>2, <2>2 DEF NewestWithFingerprint
<1>. QED BY <1>1, <1>2

-------------------------------------------------------------------------------
(***************************************************************************)
(* The loop: where a process may be and what its locals then are.          *)
(***************************************************************************)
RecordPoint == Point \ {"idle", "finish", "counters"}

LoopOK ==
    /\ Len(log) = Len(runs)
    /\ \A p \in Proc :
        /\ pc[p] # "idle" => job[p].run \in DOMAIN runs
        /\ pc[p] \in RecordPoint => job[p].at \in DOMAIN job[p].payload
        /\ pc[p] \in {"idle", "stale", "region", "scope"}
              => ctx[p].cursor = 1
        /\ pc[p] = "candidate" => ctx[p].cursor \in DOMAIN Current(p).candidates
        /\ pc[p] = "profile" => ctx[p].cursor - 1 \in DOMAIN Current(p).candidates

IInv == TypeOK /\ LoopOK

\* Between two records a process is at the top of the loop.
LEMMA EntryPoint ==
    ASSUME NEW payload \in Seq(IngestRecord), NEW i \in Nat \ {0}
    PROVE  /\ Entry(payload, i) \in Point \ {"idle"}
           /\ Entry(payload, i) \in RecordPoint => i \in DOMAIN payload
           /\ Entry(payload, i) \in {"stale", "region", "scope", "finish"}
BY DEF Entry, RecordPoint, Point

\* The record a process works on is one of its payload's.
LEMMA CurrentType ==
    ASSUME IInv, NEW p \in Proc, pc[p] \in RecordPoint
    PROVE  Current(p) \in IngestRecord
BY DEF IInv, TypeOK, LoopOK, Current, Job

\* Where control goes is a point of the record.
LEMMA NextPoints ==
    ASSUME NEW r \in IngestRecord, NEW k \in Nat, NEW todo
    PROVE  /\ ToCandidate(r, k) \in {"candidate", "article"}
           /\ ToNote(r, k) \in {"note", "stored"}
           /\ ToOption(r, todo) \in {"option", "note", "stored"}
           /\ ToIncomplete(r, todo) \in {"incomplete", "option", "note", "stored"}
BY DEF ToCandidate, ToNote, ToOption, ToIncomplete

\* What the end of a record does to the history.
LEMMA LogAfterRecord ==
    ASSUME NEW l \in RunLog, NEW s \in Seq({"stored", "rejected"}), NEW lost \in SUBSET Nat
    PROVE  [l EXCEPT !.outcomes = s, !.lost = lost] \in RunLog
BY DEF RunLog

\* Ending a record leaves the loop in order.
LEMMA EndRecordType ==
    ASSUME IInv, NEW p \in Proc, NEW outcome \in {"stored", "rejected"},
           pc[p] \in RecordPoint, EndRecord(p, outcome), UNCHANGED runs
    PROVE  /\ pc' \in [Proc -> Point]
           /\ job' \in [Proc -> Job]
           /\ ctx' \in [Proc -> Context]
           /\ log' \in Seq(RunLog)
           /\ LoopOK'
<1>. DEFINE at == job[p].at
            payload == job[p].payload
            n == job[p].run
<1>1. /\ job[p] \in Job /\ payload \in Seq(IngestRecord) /\ at \in Nat
      /\ n \in DOMAIN runs /\ n \in DOMAIN log /\ log[n] \in RunLog
      /\ log \in Seq(RunLog) /\ runs \in Seq(Run)
      /\ job[p].processed \in Nat /\ job[p].errors \in Nat
  BY DEF IInv, TypeOK, LoopOK, Job, RecordPoint
<1>2. /\ Entry(payload, at + 1) \in Point \ {"idle"}
      /\ Entry(payload, at + 1) \in RecordPoint => at + 1 \in DOMAIN payload
      /\ Entry(payload, at + 1) \in {"stale", "region", "scope", "finish"}
  <2>1. at + 1 \in Nat \ {0}
    BY <1>1
  <2>. HIDE DEF at, payload
  <2>. QED BY <1>1, <2>1, EntryPoint
<1>3. pc' = [pc EXCEPT ![p] = Entry(payload, at + 1)]
  BY DEF EndRecord, Goto
<1>4. pc' \in [Proc -> Point]
  BY <1>2, <1>3 DEF IInv, TypeOK
<1>5. /\ job' \in [Proc -> Job]
      /\ job'[p].run = n /\ job'[p].at = at + 1 /\ job'[p].payload = payload
      /\ \A q \in Proc \ {p} : job'[q] = job[q]
  <2>. DEFINE done == IF outcome = "stored" THEN job[p].processed + 1 ELSE job[p].processed
              bad == IF outcome = "stored" THEN job[p].errors ELSE job[p].errors + 1
  <2>1. job' = [job EXCEPT ![p].at = at + 1, ![p].processed = done, ![p].errors = bad]
    BY DEF EndRecord
  <2>2. at + 1 \in Nat /\ done \in Nat /\ bad \in Nat
    <3>1. PICK x \in Nat, y \in Nat, z \in Nat :
            x = job[p].processed /\ y = job[p].errors /\ z = at
      BY <1>1
    <3>2. x + 1 \in Nat /\ y + 1 \in Nat /\ z + 1 \in Nat
      OBVIOUS
    <3>. QED BY <3>1, <3>2
  <2>. HIDE DEF done, bad
  <2>3. PICK j \in Job : j = job[p]
    BY <1>1
  <2>4. PICK k : k = [j EXCEPT !.at = at + 1, !.processed = done, !.errors = bad]
    OBVIOUS
  <2>5. k \in Job /\ k.run = j.run /\ k.at = at + 1 /\ k.payload = j.payload
    <3>. HIDE DEF at
    <3>. QED BY <2>2, <2>4 DEF Job
  <2>6. job' = [job EXCEPT ![p] = k]
    BY <2>1, <2>3, <2>4
  <2>. QED BY <2>3, <2>5, <2>6 DEF IInv, TypeOK
<1>6. /\ ctx' \in [Proc -> Context]
      /\ ctx'[p].cursor = 1
      /\ \A q \in Proc \ {p} : ctx'[q] = ctx[q]
  <2>1. Fresh \in Context /\ Fresh.cursor = 1
    BY DEF Fresh, Context, ErrorIssue
  <2>. QED BY <2>1 DEF IInv, TypeOK, EndRecord
<1>7. log' \in Seq(RunLog) /\ Len(log') = Len(log)
  <2>1. PICK lost \in SUBSET Nat :
          log' = [log EXCEPT ![n].outcomes = Append(@, outcome), ![n].lost = lost]
    BY <1>1 DEF EndRecord, RunLog
  <2>2. [log[n] EXCEPT !.outcomes = Append(@, outcome), !.lost = lost] \in RunLog
    <3>1. Append(log[n].outcomes, outcome) \in Seq({"stored", "rejected"})
      BY <1>1 DEF RunLog
    <3>. QED BY <1>1, <3>1, LogAfterRecord
  <2>3. log' = [log EXCEPT ![n] = [log[n] EXCEPT !.outcomes = Append(@, outcome), !.lost = lost]]
    BY <2>1
  <2>. QED BY <1>1, <2>2, <2>3
<1>8. LoopOK'
  <2>1. Len(log') = Len(runs')
    BY <1>7 DEF IInv, LoopOK
  <2>2. ASSUME NEW q \in Proc
        PROVE  /\ pc'[q] # "idle" => job'[q].run \in DOMAIN runs'
               /\ pc'[q] \in RecordPoint => job'[q].at \in DOMAIN job'[q].payload
               /\ pc'[q] \in {"idle", "stale", "region", "scope"}
                     => ctx'[q].cursor = 1
               /\ pc'[q] = "candidate" => ctx'[q].cursor \in DOMAIN Current(q)'.candidates
               /\ pc'[q] = "profile" => ctx'[q].cursor - 1 \in DOMAIN Current(q)'.candidates
    <3>1. CASE q = p
      BY <1>1, <1>2, <1>3, <1>5, <1>6, <3>1 DEF IInv, TypeOK
    <3>2. CASE q # p
      <4>1. pc'[q] = pc[q] /\ job'[q] = job[q] /\ ctx'[q] = ctx[q]
        BY <1>3, <1>5, <1>6, <3>2 DEF IInv, TypeOK
      <4>. QED BY <4>1 DEF IInv, LoopOK, Current
    <3>. QED BY <3>1, <3>2
  <2>. QED BY <2>1, <2>2 DEF LoopOK
<1>. QED BY <1>4, <1>5, <1>6, <1>7, <1>8

\* A process that moves within a record leaves the loop in order.
LEMMA MoveType ==
    ASSUME IInv, NEW p \in Proc, NEW point \in RecordPoint, pc[p] \in RecordPoint,
           Goto(p, point), UNCHANGED <<runs, log>>,
           job' \in [Proc -> Job], ctx' \in [Proc -> Context],
           \A q \in Proc \ {p} : job'[q] = job[q] /\ ctx'[q] = ctx[q],
           /\ job'[p].run = job[p].run
           /\ job'[p].at = job[p].at
           /\ job'[p].payload = job[p].payload,
           point \in {"stale", "region", "scope"} => ctx'[p].cursor = 1,
           point = "candidate" => ctx'[p].cursor \in DOMAIN Current(p).candidates,
           point = "profile" => ctx'[p].cursor - 1 \in DOMAIN Current(p).candidates
    PROVE  pc' \in [Proc -> Point] /\ LoopOK'
<1>1. pc' = [pc EXCEPT ![p] = point] /\ pc' \in [Proc -> Point]
  BY DEF IInv, TypeOK, Goto, RecordPoint
<1>2. \A q \in Proc : Current(q)' = Current(q)
  BY DEF Current
<1>3. ASSUME NEW q \in Proc
      PROVE  /\ pc'[q] # "idle" => job'[q].run \in DOMAIN runs'
             /\ pc'[q] \in RecordPoint => job'[q].at \in DOMAIN job'[q].payload
             /\ pc'[q] \in {"idle", "stale", "region", "scope"}
                   => ctx'[q].cursor = 1
             /\ pc'[q] = "candidate" => ctx'[q].cursor \in DOMAIN Current(q)'.candidates
             /\ pc'[q] = "profile" => ctx'[q].cursor - 1 \in DOMAIN Current(q)'.candidates
  <2>1. CASE q = p
    <3>1. pc'[p] = point
      BY <1>1 DEF IInv, TypeOK
    <3>2. job[p].run \in DOMAIN runs /\ job[p].at \in DOMAIN job[p].payload
      BY DEF IInv, LoopOK, RecordPoint
    <3>. QED BY <1>2, <2>1, <3>1, <3>2 DEF RecordPoint
  <2>2. CASE q # p
    <3>1. pc'[q] = pc[q]
      BY <1>1, <2>2 DEF IInv, TypeOK
    <3>. QED BY <1>2, <2>2, <3>1 DEF IInv, LoopOK
  <2>. QED BY <2>1, <2>2
<1>. QED BY <1>1, <1>3 DEF IInv, LoopOK

\* The statements: transaction states, fault counts and reviews keep their types.
LEMMA StatementType ==
    ASSUME TypeOK, NEW p \in Proc
    PROVE  /\ Commits(p) => txn' \in [Proc -> {"clean", "aborted"}] /\ faults' \in Nat
           /\ Fails(p) => txn' \in [Proc -> {"clean", "aborted"}] /\ faults' \in Nat
<1>1. txn \in [Proc -> {"clean", "aborted"}] /\ faults \in Nat
  BY DEF TypeOK
<1>2. ASSUME Commits(p)
      PROVE  txn' \in [Proc -> {"clean", "aborted"}] /\ faults' \in Nat
  BY <1>1, <1>2 DEF Commits
<1>3. ASSUME Fails(p)
      PROVE  txn' \in [Proc -> {"clean", "aborted"}] /\ faults' \in Nat
  <2>1. txn' = [txn EXCEPT ![p] = "aborted"]
    BY <1>3 DEF Fails
  <2>2. faults' = faults \/ faults' = faults + 1
    BY <1>3 DEF Fails
  <2>. QED BY <1>1, <2>1, <2>2
<1>. QED BY <1>2, <1>3

LEMMA ReviewType ==
    ASSUME TypeOK, NEW p \in Proc, NEW entity, NEW issue, InsertReview(p, entity, issue)
    PROVE  /\ txn' \in [Proc -> {"clean", "aborted"}]
           /\ faults' \in Nat
           /\ review' \in [Entity \X Issue -> Nat]
<1>1. review' \in [Entity \X Issue -> Nat]
  <2>. DEFINE x == <<entity, issue>>
  <2>1. review \in [Entity \X Issue -> Nat]
    BY DEF TypeOK
  <2>2. review' = review \/ review' = [review EXCEPT ![x] = review[x] + 1]
    BY DEF InsertReview
  <2>. HIDE DEF x
  <2>. QED BY <2>1, <2>2
<1>. QED BY <1>1, StatementType DEF InsertReview

\* A closed connection and fresh locals leave the loop in order.
LEMMA LeaveType ==
    ASSUME IInv, NEW p \in Proc, Leave(p), UNCHANGED log,
           Len(runs') = Len(runs), runs' \in Seq(Run)
    PROVE  /\ pc' \in [Proc -> Point]
           /\ txn' \in [Proc -> {"clean", "aborted"}]
           /\ job' \in [Proc -> Job]
           /\ ctx' \in [Proc -> Context]
           /\ LoopOK'
<1>1. Fresh \in Context /\ Fresh.cursor = 1
  BY DEF Fresh, Context, ErrorIssue
<1>2. Idle \in Job
  BY DEF Idle, Job
<1>3. pc' \in [Proc -> Point]
  BY DEF IInv, TypeOK, Leave, Goto, Point
<1>4. txn' \in [Proc -> {"clean", "aborted"}] /\ job' \in [Proc -> Job]
      /\ ctx' \in [Proc -> Context]
  BY <1>1, <1>2 DEF IInv, TypeOK, Leave
<1>5. DOMAIN runs' = DOMAIN runs
  BY DEF IInv, TypeOK
<1>6. ASSUME NEW q \in Proc
      PROVE  /\ pc'[q] # "idle" => job'[q].run \in DOMAIN runs'
             /\ pc'[q] \in RecordPoint => job'[q].at \in DOMAIN job'[q].payload
             /\ pc'[q] \in {"idle", "stale", "region", "scope"}
                   => ctx'[q].cursor = 1
             /\ pc'[q] = "candidate" => ctx'[q].cursor \in DOMAIN Current(q)'.candidates
             /\ pc'[q] = "profile" => ctx'[q].cursor - 1 \in DOMAIN Current(q)'.candidates
  <2>1. CASE q = p
    BY <1>1, <2>1 DEF IInv, TypeOK, Leave, Goto, RecordPoint
  <2>2. CASE q # p
    <3>1. pc'[q] = pc[q] /\ job'[q] = job[q] /\ ctx'[q] = ctx[q]
      BY <2>2 DEF IInv, TypeOK, Leave, Goto
    <3>. QED BY <1>5, <3>1 DEF IInv, LoopOK, Current
  <2>. QED BY <2>1, <2>2
<1>. QED BY <1>3, <1>4, <1>6 DEF IInv, LoopOK

-------------------------------------------------------------------------------
(***************************************************************************)
(* Every action keeps IInv.                                                *)
(***************************************************************************)

\* A new run (create_ingestion_run).
LEMMA CreateRunInv ==
    ASSUME IInv, NEW p \in Proc, CreateRun(p)
    PROVE  IInv'
<1>1. PICK payload \in Payloads :
        /\ runs' = Append(runs, [status |-> "running", processed |-> 0, errors |-> 0,
                                 estimated |-> 0, failed |-> 0])
        /\ log' = Append(log, [payload |-> payload, outcomes |-> <<>>, lost |-> {}])
        /\ job' = [job EXCEPT ![p] = [Idle EXCEPT !.run = Len(runs) + 1,
                                                  !.payload = payload, !.at = 1]]
        /\ Goto(p, Entry(payload, 1))
  BY DEF CreateRun
<1>2. payload \in Seq(IngestRecord)
  BY PayloadsType
<1>3. runs \in Seq(Run) /\ log \in Seq(RunLog) /\ Len(log) = Len(runs)
  BY DEF IInv, TypeOK, LoopOK
<1>4. runs' \in Seq(Run) /\ Len(runs') = Len(runs) + 1
  <2>1. [status |-> "running", processed |-> 0, errors |-> 0,
         estimated |-> 0, failed |-> 0] \in Run
    BY DEF Run
  <2>. QED BY <1>1, <1>3, <2>1
<1>5. log' \in Seq(RunLog) /\ Len(log') = Len(runs) + 1
  <2>1. [payload |-> payload, outcomes |-> <<>>, lost |-> {}] \in RunLog
    BY <1>2 DEF RunLog
  <2>. QED BY <1>1, <1>3, <2>1
<1>6. /\ job' \in [Proc -> Job]
      /\ job'[p].run = Len(runs) + 1 /\ job'[p].at = 1 /\ job'[p].payload = payload
      /\ \A q \in Proc \ {p} : job'[q] = job[q]
  <2>. DEFINE j == [Idle EXCEPT !.run = Len(runs) + 1, !.payload = payload, !.at = 1]
  <2>1. j \in Job /\ j.run = Len(runs) + 1 /\ j.at = 1 /\ j.payload = payload
    <3>1. PICK n \in Nat : n = Len(runs) + 1
      BY <1>3
    <3>2. j = [Idle EXCEPT !.run = n, !.payload = payload, !.at = 1]
      BY <3>1
    <3>. HIDE DEF j
    <3>. QED BY <1>2, <3>1, <3>2 DEF Idle, Job
  <2>2. job' = [job EXCEPT ![p] = j]
    BY <1>1
  <2>. HIDE DEF j
  <2>. QED BY <2>1, <2>2 DEF IInv, TypeOK
<1>7. /\ Entry(payload, 1) \in Point \ {"idle"}
      /\ Entry(payload, 1) \in RecordPoint => 1 \in DOMAIN payload
      /\ Entry(payload, 1) \in {"stale", "region", "scope", "finish"}
  BY <1>2, EntryPoint
<1>8. pc' = [pc EXCEPT ![p] = Entry(payload, 1)] /\ pc' \in [Proc -> Point]
  BY <1>1, <1>7 DEF Goto, IInv, TypeOK
<1>9. LoopOK'
  <2>1. ASSUME NEW q \in Proc
        PROVE  /\ pc'[q] # "idle" => job'[q].run \in DOMAIN runs'
               /\ pc'[q] \in RecordPoint => job'[q].at \in DOMAIN job'[q].payload
               /\ pc'[q] \in {"idle", "stale", "region", "scope"}
                     => ctx'[q].cursor = 1
               /\ pc'[q] = "candidate" => ctx'[q].cursor \in DOMAIN Current(q)'.candidates
               /\ pc'[q] = "profile" => ctx'[q].cursor - 1 \in DOMAIN Current(q)'.candidates
    <3>1. ctx' = ctx
      BY DEF CreateRun
    <3>2. CASE q = p
      <4>1. ctx[p].cursor = 1
        BY DEF CreateRun, IInv, LoopOK
      <4>2. pc'[p] = Entry(payload, 1)
        BY <1>8 DEF IInv, TypeOK
      <4>3. job'[p].run \in DOMAIN runs'
        BY <1>3, <1>4, <1>6
      <4>. QED BY <1>6, <1>7, <3>1, <3>2, <4>1, <4>2, <4>3
    <3>3. CASE q # p
      <4>1. pc'[q] = pc[q] /\ job'[q] = job[q]
        BY <1>6, <1>8, <3>3 DEF IInv, TypeOK
      <4>2. DOMAIN runs \subseteq DOMAIN runs'
        BY <1>3, <1>4
      <4>. QED BY <3>1, <4>1, <4>2 DEF IInv, LoopOK, Current
    <3>. QED BY <3>2, <3>3
  <2>. QED BY <1>4, <1>5, <2>1 DEF LoopOK
<1>10. TypeOK'
  BY <1>4, <1>5, <1>6, <1>8 DEF IInv, TypeOK, CreateRun
<1>. QED BY <1>9, <1>10 DEF IInv

\* The ends of a record.
LEMMA EndInv ==
    ASSUME IInv, NEW p \in Proc,
           RejectStale(p) \/ RejectScope(p) \/ RecordStored(p) \/ HandleException(p)
    PROVE  IInv'
<1>1. pc[p] \in RecordPoint /\ UNCHANGED <<runs, refs, obs, options, crashes>>
  BY DEF RejectStale, RejectScope, RecordStored, HandleException, tables,
         RecordPoint, Point
<1>2. PICK outcome \in {"stored", "rejected"} : EndRecord(p, outcome)
  BY DEF RejectStale, RejectScope, RecordStored, HandleException
<1>3. /\ pc' \in [Proc -> Point] /\ job' \in [Proc -> Job] /\ ctx' \in [Proc -> Context]
      /\ log' \in Seq(RunLog) /\ LoopOK'
  BY <1>1, <1>2, EndRecordType
<1>4. /\ txn' \in [Proc -> {"clean", "aborted"}]
      /\ faults' \in Nat
      /\ review' \in [Entity \X Issue -> Nat]
  <2>1. CASE RejectStale(p) \/ RejectScope(p)
    BY <2>1, ReviewType DEF RejectStale, RejectScope, IInv
  <2>2. CASE RecordStored(p)
    BY <2>2 DEF RecordStored, tables, IInv, TypeOK
  <2>3. CASE HandleException(p)
    <3>. DEFINE x == <<Current(p).key, ctx[p].issue>>
    <3>1. /\ txn' = [txn EXCEPT ![p] = "clean"] \/ txn' = [txn EXCEPT ![p] = "aborted"]
          /\ faults' = faults \/ faults' = faults + 1
          /\ review' = review \/ review' = [review EXCEPT ![x] = review[x] + 1]
      BY <2>3 DEF HandleException
    <3>2. txn' \in [Proc -> {"clean", "aborted"}] /\ faults' \in Nat
      BY <3>1 DEF IInv, TypeOK
    <3>3. review' \in [Entity \X Issue -> Nat]
      <4>1. review \in [Entity \X Issue -> Nat]
        BY DEF IInv, TypeOK
      <4>. HIDE DEF x
      <4>. QED BY <3>1, <4>1
    <3>. QED BY <3>2, <3>3
  <2>. QED BY <2>1, <2>2, <2>3
<1>. QED BY <1>1, <1>3, <1>4 DEF IInv, TypeOK

\* The steps after the loop, and a crash.
LEMMA LeaveInv ==
    ASSUME IInv, NEW p \in Proc,
           UpdateCounters(p) \/ AbandonRun(p) \/ Crash(p)
    PROVE  IInv'
<1>1. Leave(p) /\ UNCHANGED <<refs, obs, options, review, log>>
  BY DEF UpdateCounters, AbandonRun, Crash, tables
<1>2. runs' \in Seq(Run) /\ Len(runs') = Len(runs)
  <2>1. runs \in Seq(Run)
    BY DEF IInv, TypeOK
  <2>2. CASE UpdateCounters(p)
    <3>1. job[p].run \in DOMAIN runs
      BY <2>2 DEF UpdateCounters, IInv, LoopOK
    <3>2. PICK a \in Nat, b \in Nat :
            runs' = [runs EXCEPT ![job[p].run].estimated = a, ![job[p].run].failed = b]
      BY <2>2 DEF UpdateCounters, IInv, TypeOK, Job
    <3>3. PICK n \in DOMAIN runs : n = job[p].run
      BY <3>1
    <3>4. PICK old \in Run : old = runs[n]
      BY <2>1
    <3>5. PICK new : new = [old EXCEPT !.estimated = a, !.failed = b]
      OBVIOUS
    <3>6. new \in Run
      BY <3>5 DEF Run
    <3>7. runs' = [runs EXCEPT ![n] = new]
      BY <3>2, <3>3, <3>4, <3>5
    <3>. QED BY <2>1, <3>6, <3>7
  <2>3. CASE AbandonRun(p) \/ Crash(p)
    BY <2>1, <2>3 DEF AbandonRun, Crash, tables
  <2>. QED BY <2>2, <2>3
<1>3. /\ pc' \in [Proc -> Point] /\ txn' \in [Proc -> {"clean", "aborted"}]
      /\ job' \in [Proc -> Job] /\ ctx' \in [Proc -> Context] /\ LoopOK'
  BY <1>1, <1>2, LeaveType
<1>4. faults' \in Nat /\ crashes' \in Nat
  BY DEF UpdateCounters, AbandonRun, Crash, IInv, TypeOK
<1>. QED BY <1>1, <1>2, <1>3, <1>4 DEF IInv, TypeOK

\* finish_ingestion_run
LEMMA FinishRunInv ==
    ASSUME IInv, NEW p \in Proc, FinishRun(p)
    PROVE  IInv'
<1>1. runs \in Seq(Run) /\ log \in Seq(RunLog)
  BY DEF IInv, TypeOK
<1>2. runs' \in Seq(Run) /\ Len(runs') = Len(runs)
  <2>1. PICK n \in DOMAIN runs : n = job[p].run
    BY DEF FinishRun, IInv, LoopOK
  <2>2. PICK a \in Nat : a = job[p].processed
    BY DEF IInv, TypeOK, Job
  <2>3. PICK b \in Nat : b = job[p].errors
    BY DEF IInv, TypeOK, Job
  <2>4. PICK st \in {"success", "partial_success"} : st = FinalStatus(job[p].errors)
    BY DEF FinalStatus
  <2>5. PICK old \in Run : old = runs[n]
    BY <1>1
  <2>6. PICK new : new = [old EXCEPT !.status = st, !.processed = a, !.errors = b]
    OBVIOUS
  <2>7. new \in Run
    BY <2>6 DEF Run
  <2>8. runs' = [runs EXCEPT ![n] = new]
    BY <2>1, <2>2, <2>3, <2>4, <2>5, <2>6 DEF FinishRun
  <2>. QED BY <1>1, <2>7, <2>8
<1>3. txn' \in [Proc -> {"clean", "aborted"}] /\ faults' \in Nat
  BY StatementType DEF FinishRun, IInv
<1>4. pc' = [pc EXCEPT ![p] = "counters"] /\ pc' \in [Proc -> Point]
  BY DEF FinishRun, Goto, IInv, TypeOK, Point
<1>5. UNCHANGED <<job, ctx, log>>
  BY DEF FinishRun
<1>6. LoopOK'
  <2>1. ASSUME NEW q \in Proc
        PROVE  /\ pc'[q] # "idle" => job'[q].run \in DOMAIN runs'
               /\ pc'[q] \in RecordPoint => job'[q].at \in DOMAIN job'[q].payload
               /\ pc'[q] \in {"idle", "stale", "region", "scope"}
                     => ctx'[q].cursor = 1
               /\ pc'[q] = "candidate" => ctx'[q].cursor \in DOMAIN Current(q)'.candidates
               /\ pc'[q] = "profile" => ctx'[q].cursor - 1 \in DOMAIN Current(q)'.candidates
    <3>1. DOMAIN runs' = DOMAIN runs
      BY <1>1, <1>2
    <3>2. CASE q = p
      <4>1. pc[p] = "finish"
        BY DEF FinishRun
      <4>. QED BY <1>4, <1>5, <3>1, <3>2, <4>1 DEF IInv, TypeOK, LoopOK, RecordPoint
    <3>3. CASE q # p
      <4>1. pc'[q] = pc[q]
        BY <1>4, <3>3 DEF IInv, TypeOK
      <4>. QED BY <1>5, <3>1, <4>1 DEF IInv, LoopOK, Current
    <3>. QED BY <3>2, <3>3
  <2>. QED BY <1>2, <1>5, <2>1 DEF IInv, LoopOK
<1>. QED BY <1>2, <1>3, <1>4, <1>6 DEF IInv, TypeOK, FinishRun

\* A row of a referenced table.
LEMMA RefType ==
    ASSUME TypeOK, NEW p \in Proc, NEW kind, NEW id, UpsertRef(p, kind, id),
           <<kind, id>> \in RefRow
    PROVE  /\ txn' \in [Proc -> {"clean", "aborted"}]
           /\ faults' \in Nat
           /\ refs' \subseteq RefRow
           /\ UNCHANGED <<runs, obs, options, review, log, crashes>>
BY StatementType DEF UpsertRef, TypeOK

\* The candidates of a record are candidates.
LEMMA CandidateType ==
    ASSUME NEW r \in IngestRecord, NEW k \in DOMAIN r.candidates
    PROVE  r.candidates[k].id \in Candidate
<1>. DEFINE C == [id : Candidate, gap : BOOLEAN]
<1>1. PICK cs \in Seq(C) : cs = r.candidates
  BY DEF IngestRecord
<1>2. cs[k] \in C
  <2>. HIDE DEF C
  <2>. QED BY <1>1
<1>3. cs[k].id \in Candidate
  BY <1>2
<1>. QED BY <1>1, <1>3

\* The statements that fill the referenced tables.
LEMMA RefsInv ==
    ASSUME IInv, NEW p \in Proc,
           \/ UpsertRegion(p) \/ UpsertMatchup(p) \/ UpsertCandidate(p) \/ UpsertArticle(p)
    PROVE  IInv'
<1>1. pc[p] \in RecordPoint
  BY DEF UpsertRegion, UpsertMatchup, UpsertCandidate, UpsertArticle, RecordPoint, Point
<1>2. PICK r \in IngestRecord : r = Current(p)
  BY <1>1, CurrentType
<1>3. TypeOK /\ LoopOK
  BY DEF IInv
<1>4. CASE UpsertRegion(p)
  <2>1. <<"region", r.region>> \in RefRow
    BY <1>2 DEF RefRow, IngestRecord
  <2>2. UpsertRef(p, "region", r.region) /\ Goto(p, "scope") /\ UNCHANGED <<job, ctx>>
    BY <1>2, <1>4 DEF UpsertRegion
  <2>3. /\ txn' \in [Proc -> {"clean", "aborted"}] /\ faults' \in Nat /\ refs' \subseteq RefRow
        /\ UNCHANGED <<runs, obs, options, review, log, crashes>>
    BY <1>3, <2>1, <2>2, RefType
  <2>4. ctx[p].cursor = 1
    BY <1>4 DEF UpsertRegion, IInv, LoopOK
  <2>5. pc' \in [Proc -> Point] /\ LoopOK'
    BY <1>1, <1>3, <2>2, <2>3, <2>4, MoveType DEF TypeOK, RecordPoint, Point
  <2>. QED BY <2>2, <2>3, <2>5 DEF IInv, TypeOK
<1>5. CASE UpsertMatchup(p)
  <2>. DEFINE point == ToCandidate(r, 1)
  <2>1. <<"matchup", r.matchup>> \in RefRow
    BY <1>2 DEF RefRow, IngestRecord
  <2>2. UpsertRef(p, "matchup", r.matchup) /\ Goto(p, point) /\ UNCHANGED <<job, ctx>>
    BY <1>2, <1>5 DEF UpsertMatchup
  <2>3. /\ txn' \in [Proc -> {"clean", "aborted"}] /\ faults' \in Nat /\ refs' \subseteq RefRow
        /\ UNCHANGED <<runs, obs, options, review, log, crashes>>
    BY <1>3, <2>1, <2>2, RefType
  <2>4. ctx[p].cursor = 1
    BY <1>5 DEF UpsertMatchup, IInv, LoopOK
  <2>5. point \in {"candidate", "article"}
    BY DEF ToCandidate
  <2>6. point = "candidate" => 1 \in DOMAIN r.candidates
    BY DEF ToCandidate, IngestRecord
  <2>. HIDE DEF point
  <2>7. pc' \in [Proc -> Point] /\ LoopOK'
    BY <1>1, <1>2, <1>3, <2>2, <2>3, <2>4, <2>5, <2>6, MoveType DEF TypeOK, RecordPoint, Point
  <2>. QED BY <2>2, <2>3, <2>7 DEF IInv, TypeOK
<1>6. CASE UpsertCandidate(p)
  <2>. DEFINE k == ctx[p].cursor
              c == r.candidates[k]
              point == IF c.gap /\ c.id \notin job[p].marked THEN "profile"
                       ELSE ToCandidate(r, k + 1)
  <2>1. k \in DOMAIN r.candidates /\ k \in Nat /\ k \in 1..Len(r.candidates)
    BY <1>2, <1>6 DEF UpsertCandidate, IInv, LoopOK, TypeOK, Context, IngestRecord
  <2>2. <<"candidate", c.id>> \in RefRow
    <3>1. c.id \in Candidate
      BY <2>1, CandidateType
    <3>. HIDE DEF c
    <3>. QED BY <3>1 DEF RefRow
  <2>3. /\ UpsertRef(p, "candidate", c.id) /\ Goto(p, point) /\ UNCHANGED job
        /\ ctx' = [ctx EXCEPT ![p].cursor = k + 1]
    BY <1>2, <1>6 DEF UpsertCandidate
  <2>4. /\ txn' \in [Proc -> {"clean", "aborted"}] /\ faults' \in Nat /\ refs' \subseteq RefRow
        /\ UNCHANGED <<runs, obs, options, review, log, crashes>>
    BY <1>3, <2>2, <2>3, RefType
  <2>5. point \in {"profile", "candidate", "article"}
    BY DEF ToCandidate
  <2>6. point = "candidate" => k + 1 \in DOMAIN r.candidates
    BY <2>1 DEF ToCandidate, IngestRecord
  <2>. HIDE DEF point
  <2>7. /\ ctx' \in [Proc -> Context] /\ ctx'[p].cursor = k + 1
        /\ \A q \in Proc \ {p} : ctx'[q] = ctx[q]
    <3>1. k + 1 \in Nat
      BY <2>1
    <3>. HIDE DEF k
    <3>. QED BY <1>3, <2>3, <3>1 DEF TypeOK, Context
  <2>8. (k + 1) - 1 = k
    BY <2>1
  <2>. HIDE DEF k
  <2>9. pc' \in [Proc -> Point] /\ LoopOK'
    BY <1>1, <1>2, <1>3, <2>1, <2>3, <2>4, <2>5, <2>6, <2>7, <2>8, MoveType
    DEF TypeOK, RecordPoint, Point
  <2>. QED BY <2>3, <2>4, <2>7, <2>9, <1>3 DEF IInv, TypeOK
<1>7. CASE UpsertArticle(p)
  <2>1. <<"article", r.article>> \in RefRow
    BY <1>2 DEF RefRow, IngestRecord
  <2>2. UpsertRef(p, "article", r.article) /\ Goto(p, "find") /\ UNCHANGED ctx
    BY <1>2, <1>7 DEF UpsertArticle
  <2>3. /\ txn' \in [Proc -> {"clean", "aborted"}] /\ faults' \in Nat /\ refs' \subseteq RefRow
        /\ UNCHANGED <<runs, obs, options, review, log, crashes>>
    BY <1>3, <2>1, <2>2, RefType
  <2>4. PICK a \in Nat, b \in Nat :
          job' = [job EXCEPT ![p].estimated = a, ![p].failed = b]
    <3>. DEFINE est == IF Current(p).date = "estimated_timestamp"
                       THEN job[p].estimated + 1 ELSE job[p].estimated
                bad == IF Current(p).date = "strict_fail_blocked"
                       THEN job[p].failed + 1 ELSE job[p].failed
    <3>1. job[p].estimated \in Nat /\ job[p].failed \in Nat
      BY <1>3 DEF TypeOK, Job
    <3>2. est \in Nat /\ bad \in Nat
      BY <3>1
    <3>3. job' = [job EXCEPT ![p].estimated = est, ![p].failed = bad]
      BY <1>7 DEF UpsertArticle
    <3>. HIDE DEF est, bad
    <3>. QED BY <3>2, <3>3
  <2>5. PICK j \in Job : j = job[p]
    BY <1>3 DEF TypeOK
  <2>6. PICK k : k = [j EXCEPT !.estimated = a, !.failed = b]
    OBVIOUS
  <2>7. k \in Job /\ k.run = j.run /\ k.at = j.at /\ k.payload = j.payload
    BY <2>6 DEF Job
  <2>8. job' = [job EXCEPT ![p] = k]
    BY <2>4, <2>5, <2>6
  <2>9. /\ job' \in [Proc -> Job]
        /\ job'[p].run = job[p].run /\ job'[p].at = job[p].at
        /\ job'[p].payload = job[p].payload
        /\ \A q \in Proc \ {p} : job'[q] = job[q]
    BY <1>3, <2>5, <2>7, <2>8 DEF TypeOK
  <2>10. pc' \in [Proc -> Point] /\ LoopOK'
    BY <1>1, <1>3, <2>2, <2>3, <2>9, MoveType DEF TypeOK, RecordPoint, Point
  <2>. QED BY <2>2, <2>3, <2>9, <2>10, <1>3 DEF IInv, TypeOK
<1>. QED BY <1>4, <1>5, <1>6, <1>7

\* The reviews written on the way, and a failed statement.
LEMMA ReportsInv ==
    ASSUME IInv, NEW p \in Proc,
           \/ ReportProfile(p) \/ ReportIncomplete(p)
           \/ ReportNote(p) \/ Raise(p)
    PROVE  IInv'
<1>1. pc[p] \in RecordPoint
  BY DEF ReportProfile, ReportIncomplete, ReportNote, Raise, Raising,
         RecordPoint, Point
<1>2. PICK r \in IngestRecord : r = Current(p)
  BY <1>1, CurrentType
<1>3. TypeOK /\ LoopOK
  BY DEF IInv
<1>4. CASE ReportProfile(p)
  <2>. DEFINE k == ctx[p].cursor
              point == ToCandidate(r, k)
  <2>1. k - 1 \in DOMAIN r.candidates /\ k \in Nat
    BY <1>2, <1>3, <1>4 DEF ReportProfile, LoopOK, TypeOK, Context
  <2>2. r.candidates[k - 1].id \in Candidate
    BY <2>1, CandidateType
  <2>3. PICK c \in Candidate : c = r.candidates[k - 1].id
    BY <2>2
  <2>4. /\ InsertReview(p, c, "mapping_error") /\ Goto(p, point)
        /\ job' = [job EXCEPT ![p].marked = @ \cup {c}] \/ job' = job
        /\ UNCHANGED <<ctx, runs, refs, obs, options, log, crashes>>
    BY <1>2, <1>4, <2>3 DEF ReportProfile
  <2>5. /\ job' \in [Proc -> Job]
        /\ job'[p].run = job[p].run /\ job'[p].at = job[p].at
        /\ job'[p].payload = job[p].payload
        /\ \A q \in Proc \ {p} : job'[q] = job[q]
    <3>1. CASE job' = job
      BY <1>3, <3>1 DEF TypeOK
    <3>2. CASE job' = [job EXCEPT ![p].marked = @ \cup {c}]
      <4>1. PICK j \in Job : j = job[p]
        BY <1>3 DEF TypeOK
      <4>2. PICK i : i = [j EXCEPT !.marked = @ \cup {c}]
        OBVIOUS
      <4>3. i \in Job /\ i.run = j.run /\ i.at = j.at /\ i.payload = j.payload
        BY <4>2 DEF Job
      <4>4. job' = [job EXCEPT ![p] = i]
        BY <3>2, <4>1, <4>2
      <4>. QED BY <1>3, <4>1, <4>3, <4>4 DEF TypeOK
    <3>. QED BY <2>4, <3>1, <3>2
  <2>6. point \in {"candidate", "article"}
    BY DEF ToCandidate
  <2>7. point = "candidate" => k \in DOMAIN r.candidates
    BY <2>1 DEF ToCandidate, IngestRecord
  <2>. HIDE DEF point
  <2>8. pc' \in [Proc -> Point] /\ LoopOK'
    BY <1>1, <1>2, <1>3, <2>4, <2>5, <2>6, <2>7, MoveType DEF TypeOK, RecordPoint, Point
  <2>. QED BY <1>3, <2>4, <2>5, <2>8, ReviewType DEF IInv, TypeOK
<1>5. CASE ReportIncomplete(p)
  <2>1. PICK point \in {"option", "note", "stored"} :
          /\ InsertReview(p, r.key, "scenario_parse_incomplete") /\ Goto(p, point)
          /\ UNCHANGED <<job, ctx, runs, refs, obs, options, log, crashes>>
    BY <1>2, <1>5 DEF ReportIncomplete, ToOption, ToNote
  <2>2. pc' \in [Proc -> Point] /\ LoopOK'
    BY <1>1, <1>3, <2>1, MoveType DEF TypeOK, RecordPoint, Point
  <2>. QED BY <1>3, <2>1, <2>2, ReviewType DEF IInv, TypeOK
<1>6. CASE ReportNote(p)
  <2>. DEFINE issue == ClosingNotes(r)[ctx[p].cursor - Len(r.candidates)]
  <2>1. PICK point \in {"note", "stored"} :
          /\ InsertReview(p, r.key, issue) /\ Goto(p, point)
          /\ UNCHANGED <<job, runs, refs, obs, options, log, crashes>>
          /\ ctx' = [ctx EXCEPT ![p].cursor = @ + 1]
    BY <1>2, <1>6 DEF ReportNote, ToNote
  <2>. HIDE DEF issue
  <2>2. ctx' \in [Proc -> Context] /\ \A q \in Proc \ {p} : ctx'[q] = ctx[q]
    <3>1. PICK k \in Nat : k = ctx[p].cursor + 1
      BY <1>3 DEF TypeOK, Context
    <3>2. ctx' = [ctx EXCEPT ![p].cursor = k]
      BY <2>1, <3>1
    <3>. QED BY <1>3, <3>2 DEF TypeOK, Context
  <2>3. pc' \in [Proc -> Point] /\ LoopOK'
    BY <1>1, <1>3, <2>1, <2>2, MoveType DEF TypeOK, RecordPoint, Point
  <2>. QED BY <1>3, <2>1, <2>2, <2>3, ReviewType DEF IInv, TypeOK
<1>7. CASE Raise(p)
  <2>1. Goto(p, "handler") /\ UNCHANGED <<job, ctx, tables, log, crashes>>
    BY <1>7 DEF Raise
  <2>2. txn' \in [Proc -> {"clean", "aborted"}] /\ faults' \in Nat
    BY <1>3, <1>7, StatementType DEF Raise, TypeOK
  <2>3. pc' \in [Proc -> Point] /\ LoopOK'
    BY <1>1, <1>3, <2>1, MoveType DEF TypeOK, RecordPoint, Point, tables
  <2>. QED BY <1>3, <2>1, <2>2, <2>3 DEF IInv, TypeOK, tables
<1>. QED BY <1>4, <1>5, <1>6, <1>7

\* The statements on poll_observations and poll_options.
LEMMA BackfillType ==
    ASSUME NEW opts \in SUBSET Option, NEW names \in SUBSET Name
    PROVE  Backfilled(opts, names) \in SUBSET Option
BY DEF Backfilled, Option, OptionType, Scenario

LEMMA ObservationInv ==
    ASSUME IInv, NEW p \in Proc,
           \/ FindByFingerprint(p) \/ WriteObservation(p) \/ FetchDefaults(p)
           \/ DeleteDefaults(p) \/ UpsertOption(p)
    PROVE  IInv'
<1>1. pc[p] \in RecordPoint
  BY DEF FindByFingerprint, WriteObservation, FetchDefaults, DeleteDefaults, UpsertOption,
         RecordPoint, Point
<1>2. PICK r \in IngestRecord : r = Current(p)
  BY <1>1, CurrentType
<1>3. TypeOK /\ LoopOK
  BY DEF IInv
<1>4. txn' \in [Proc -> {"clean", "aborted"}] /\ faults' \in Nat
  BY <1>3, StatementType DEF FindByFingerprint, WriteObservation, FetchDefaults,
     DeleteDefaults, UpsertOption
<1>5. CASE FindByFingerprint(p)
  <2>. DEFINE id == NewestWithFingerprint(obs, Fingerprint(r.poll))
              found == IF id = 0 THEN <<>> ELSE <<obs[id]>>
  <2>1. found \in Seq(ObservationRow)
    <3>1. id # 0 => id \in DOMAIN obs
      BY <1>3, NewestType DEF TypeOK, RowsWithFingerprint
    <3>2. id # 0 => obs[id] \in ObservationRow
      <4>. HIDE DEF id
      <4>. QED BY <1>3, <3>1 DEF TypeOK
    <3>. HIDE DEF id
    <3>. QED BY <3>2
  <2>2. /\ \/ Goto(p, "handler") /\ ctx' = [ctx EXCEPT ![p].issue = "DUPLICATE_CONFLICT"]
           \/ Goto(p, "write") /\ ctx' = [ctx EXCEPT ![p].seen = found]
        /\ UNCHANGED <<job, tables, log, crashes>>
    BY <1>2, <1>5 DEF FindByFingerprint
  <2>. HIDE DEF found
  <2>3. ctx' \in [Proc -> Context] /\ \A q \in Proc \ {p} : ctx'[q] = ctx[q]
    <3>1. PICK c \in Context : c = ctx[p]
      BY <1>3 DEF TypeOK
    <3>2. [c EXCEPT !.seen = found] \in Context
      BY <2>1 DEF Context
    <3>3. [c EXCEPT !.issue = "DUPLICATE_CONFLICT"] \in Context
      BY DEF Context, ErrorIssue
    <3>4. PICK d \in Context : ctx' = [ctx EXCEPT ![p] = d]
      BY <2>2, <3>1, <3>2, <3>3
    <3>. QED BY <1>3, <3>4 DEF TypeOK
  <2>4. pc' \in [Proc -> Point] /\ LoopOK'
    BY <1>1, <1>3, <2>2, <2>3, MoveType DEF TypeOK, RecordPoint, Point, tables
  <2>. QED BY <1>3, <1>4, <2>2, <2>3, <2>4 DEF IInv, TypeOK, tables
<1>6. CASE WriteObservation(p)
  <2>1. PICK row : row = RowToWrite(ctx[p].seen, RowOf(r, job[p].run))
    OBVIOUS
  <2>2. row \in ObservationRow
    BY <1>3, <2>1, RowToWriteType DEF TypeOK, Context, Job
  <2>3. PICK point \in {"fetch", "incomplete", "option", "note", "stored"} :
          /\ obs' = Upserted(obs, row)
          /\ ctx' = [ctx EXCEPT ![p].oid = UpsertId(obs, row), ![p].todo = r.options]
          /\ Goto(p, point)
          /\ UNCHANGED <<job, runs, refs, options, review, log, crashes>>
    BY <1>2, <1>6, <2>1 DEF WriteObservation, ToIncomplete, ToOption, ToNote
  <2>4. obs' \in Seq(ObservationRow)
    BY <1>3, <2>2, <2>3, UpsertedType DEF TypeOK
  <2>5. ctx' \in [Proc -> Context] /\ \A q \in Proc \ {p} : ctx'[q] = ctx[q]
    <3>1. PICK oid \in Nat : oid = UpsertId(obs, row)
      BY <1>3, <2>2, UpsertedType DEF TypeOK
    <3>2. PICK todo \in SUBSET Option : todo = r.options
      BY DEF IngestRecord
    <3>3. ctx' = [ctx EXCEPT ![p].oid = oid, ![p].todo = todo]
      BY <2>3, <3>1, <3>2
    <3>. QED BY <1>3, <3>3 DEF TypeOK, Context
  <2>6. pc' \in [Proc -> Point] /\ LoopOK'
    BY <1>1, <1>3, <2>3, <2>5, MoveType DEF TypeOK, RecordPoint, Point
  <2>. QED BY <1>3, <1>4, <2>3, <2>4, <2>5, <2>6 DEF IInv, TypeOK
<1>7. CASE FetchDefaults(p)
  <2>1. PICK names : names = {x.option.name : x \in StoredDefaults(ctx[p].oid)}
    OBVIOUS
  <2>2. names \in SUBSET Name
    BY <1>3, <2>1 DEF TypeOK, StoredDefaults, Option
  <2>3. PICK todo : todo = Backfilled(ctx[p].todo, names)
    OBVIOUS
  <2>4. todo \in SUBSET Option
    BY <1>3, <2>2, <2>3, BackfillType DEF TypeOK, Context
  <2>5. /\ ctx' = [ctx EXCEPT ![p].prior = names, ![p].todo = todo]
        /\ Goto(p, "cleanup") /\ UNCHANGED <<job, tables, log, crashes>>
    BY <1>7, <2>1, <2>3 DEF FetchDefaults
  <2>6. ctx' \in [Proc -> Context] /\ \A q \in Proc \ {p} : ctx'[q] = ctx[q]
    BY <1>3, <2>2, <2>4, <2>5 DEF TypeOK, Context
  <2>7. pc' \in [Proc -> Point] /\ LoopOK'
    BY <1>1, <1>3, <2>5, <2>6, MoveType DEF TypeOK, RecordPoint, Point, tables
  <2>. QED BY <1>3, <1>4, <2>5, <2>6, <2>7 DEF IInv, TypeOK, tables
<1>8. CASE DeleteDefaults(p)
  <2>1. PICK point \in {"incomplete", "option", "note", "stored"} :
          /\ Goto(p, point)
          /\ options' \subseteq options
          /\ UNCHANGED <<job, ctx, runs, refs, obs, review, log, crashes>>
    BY <1>8 DEF DeleteDefaults, ToIncomplete, ToOption, ToNote
  <2>2. pc' \in [Proc -> Point] /\ LoopOK'
    BY <1>1, <1>3, <2>1, MoveType DEF TypeOK, RecordPoint, Point
  <2>. QED BY <1>3, <1>4, <2>1, <2>2 DEF IInv, TypeOK
<1>9. CASE UpsertOption(p)
  <2>1. PICK o \in ctx[p].todo, point \in {"option", "note", "stored"} :
          /\ Goto(p, point)
          /\ options' = options \cup {[oid |-> ctx[p].oid, option |-> o]}
          /\ ctx' = [ctx EXCEPT ![p].todo = @ \ {o}]
          /\ UNCHANGED <<job, runs, refs, obs, review, log, crashes>>
    BY <1>9 DEF UpsertOption, ToOption, ToNote
  <2>2. o \in Option /\ ctx[p].oid \in Nat
    BY <1>3 DEF TypeOK, Context
  <2>3. options' \subseteq [oid : Nat, option : Option]
    BY <1>3, <2>1, <2>2 DEF TypeOK
  <2>4. ctx' \in [Proc -> Context] /\ \A q \in Proc \ {p} : ctx'[q] = ctx[q]
    BY <1>3, <2>1 DEF TypeOK, Context
  <2>5. pc' \in [Proc -> Point] /\ LoopOK'
    BY <1>1, <1>3, <2>1, <2>4, MoveType DEF TypeOK, RecordPoint, Point
  <2>. QED BY <1>3, <1>4, <2>1, <2>3, <2>4, <2>5 DEF IInv, TypeOK
<1>. QED BY <1>5, <1>6, <1>7, <1>8, <1>9

\* IInv holds in every state.
LEMMA InvInit == Init => IInv
<1>. SUFFICES ASSUME Init PROVE IInv
  OBVIOUS
<1>1. Idle \in Job /\ Fresh \in Context /\ Fresh.cursor = 1
  BY DEF Idle, Job, Fresh, Context, ErrorIssue
<1>2. TypeOK
  BY <1>1 DEF Init, TypeOK, Point
<1>3. LoopOK
  BY <1>1 DEF Init, LoopOK, RecordPoint
<1>. QED BY <1>2, <1>3 DEF IInv

LEMMA InvNext == IInv /\ [Next]_vars => IInv'
<1>. SUFFICES ASSUME IInv, [Next]_vars PROVE IInv'
  OBVIOUS
<1>1. CASE UNCHANGED vars
  BY <1>1 DEF vars, tables, IInv, TypeOK, LoopOK, Current
<1>2. CASE Next
  <2>1. PICK p \in Proc : CreateRun(p) \/ Step(p) \/ Crash(p)
    BY <1>2 DEF Next
  <2>2. CASE CreateRun(p)
    BY <2>2, CreateRunInv
  <2>3. CASE RejectStale(p) \/ RejectScope(p) \/ RecordStored(p) \/ HandleException(p)
    BY <2>3, EndInv
  <2>4. CASE UpsertRegion(p) \/ UpsertMatchup(p) \/ UpsertCandidate(p) \/ UpsertArticle(p)
    BY <2>4, RefsInv
  <2>5. CASE \/ ReportProfile(p) \/ ReportIncomplete(p)
             \/ ReportNote(p) \/ Raise(p)
    BY <2>5, ReportsInv
  <2>6. CASE \/ FindByFingerprint(p) \/ WriteObservation(p) \/ FetchDefaults(p)
             \/ DeleteDefaults(p) \/ UpsertOption(p)
    BY <2>6, ObservationInv
  <2>7. CASE FinishRun(p)
    BY <2>7, FinishRunInv
  <2>8. CASE UpdateCounters(p) \/ AbandonRun(p) \/ Crash(p)
    BY <2>8, LeaveInv
  <2>. QED BY <2>1, <2>2, <2>3, <2>4, <2>5, <2>6, <2>7, <2>8 DEF Step
<1>. QED BY <1>1, <1>2

LEMMA Invariance == Spec => []IInv
<1>1. Init => IInv
  BY InvInit
<1>2. IInv /\ [Next]_vars => IInv'
  BY InvNext
<1>. QED BY <1>1, <1>2, PTL DEF Spec

\* The tables and the locals of every process keep their types.
THEOREM TypeCorrect == Spec => []TypeOK
<1>1. IInv => TypeOK
  BY DEF IInv
<1>. QED BY <1>1, Invariance, PTL

-------------------------------------------------------------------------------
(***************************************************************************)
(* Provenance.                                                             *)
(***************************************************************************)

\* A write takes nothing of the provenance away (INSERT ... ON CONFLICT).
LEMMA UpsertedKeeps ==
    ASSUME NEW table \in Seq(ObservationRow), NEW row \in ObservationRow,
           NEW o \in DOMAIN table
    PROVE  /\ o \in DOMAIN Upserted(table, row)
           /\ table[o].channels \subseteq Upserted(table, row)[o].channels
           /\ Upserted(table, row)[o].key = table[o].key
           /\ Upserted(table, row)[o].fp = table[o].fp
<1>1. CASE RowsWithKey(table, row.key) = {}
  BY <1>1 DEF Upserted
<1>2. CASE RowsWithKey(table, row.key) # {}
  <2>1. PICK id : id = UpsertId(table, row)
    OBVIOUS
  <2>2. id \in DOMAIN table /\ table[id].key = row.key
    BY <1>2, <2>1 DEF UpsertId, RowsWithKey
  <2>3. Upserted(table, row) = [table EXCEPT ![id] = Overwritten(table[id], row)]
    BY <1>2, <2>1 DEF Upserted
  <2>4. PICK old \in ObservationRow : old = table[id]
    BY <2>2
  <2>5. /\ Overwritten(old, row).key = row.key
        /\ Overwritten(old, row).fp = old.fp
        /\ old.channels \subseteq Overwritten(old, row).channels
    BY DEF Overwritten, ObservationRow
  <2>. QED BY <2>2, <2>3, <2>4, <2>5
<1>. QED BY <1>1, <1>2

\* Only WriteObservation changes poll_observations, and only by an upsert.
LEMMA ObsChange ==
    ASSUME IInv, [Next]_vars
    PROVE  obs' = obs \/ \E row \in ObservationRow : obs' = Upserted(obs, row)
<1>1. ASSUME NEW p \in Proc, WriteObservation(p)
      PROVE  \E row \in ObservationRow : obs' = Upserted(obs, row)
  <2>1. Current(p) \in IngestRecord
    BY <1>1, CurrentType DEF WriteObservation, RecordPoint, Point
  <2>2. RowToWrite(ctx[p].seen, RowOf(Current(p), job[p].run)) \in ObservationRow
    BY <2>1, RowToWriteType DEF IInv, TypeOK, Context, Job
  <2>. QED BY <1>1, <2>2 DEF WriteObservation
<1>2. ASSUME NEW p \in Proc, CreateRun(p) \/ Crash(p) \/ (Step(p) /\ ~WriteObservation(p))
      PROVE  obs' = obs
  BY <1>2 DEF CreateRun, Crash, Step, RejectStale, UpsertRegion, RejectScope, UpsertMatchup,
     UpsertCandidate, ReportProfile, UpsertArticle, FindByFingerprint,
     FetchDefaults, DeleteDefaults, ReportIncomplete, UpsertOption, ReportNote, RecordStored,
     Raise, HandleException, FinishRun, UpdateCounters, AbandonRun, UpsertRef, tables
<1>. QED BY <1>1, <1>2 DEF Next, vars, tables

\* An observation keeps its key, its fingerprint and every channel, however
\* many processes write to it from however stale a read (upsert_poll_observation).
THEOREM ProvenanceGrows == Spec => ProvenanceOnlyGrows
<1>1. ASSUME IInv, [Next]_vars
      PROVE  [\A o \in DOMAIN obs :
                /\ o \in DOMAIN obs'
                /\ obs[o].channels \subseteq obs'[o].channels
                /\ obs'[o].key = obs[o].key
                /\ obs'[o].fp = obs[o].fp]_obs
  <2>1. CASE obs' = obs
    BY <2>1
  <2>2. CASE \E row \in ObservationRow : obs' = Upserted(obs, row)
    <3>1. PICK row \in ObservationRow : obs' = Upserted(obs, row)
      BY <2>2
    <3>2. obs \in Seq(ObservationRow)
      BY <1>1 DEF IInv, TypeOK
    <3>3. \A o \in DOMAIN obs :
            /\ o \in DOMAIN obs'
            /\ obs[o].channels \subseteq obs'[o].channels
            /\ obs'[o].key = obs[o].key
            /\ obs'[o].fp = obs[o].fp
      BY <3>1, <3>2, UpsertedKeeps
    <3>. QED BY <3>3
  <2>. QED BY <1>1, <2>1, <2>2, ObsChange
<1>. QED BY <1>1, Invariance, PTL DEF Spec, ProvenanceOnlyGrows

-------------------------------------------------------------------------------
(* What a run records.                                                     *)

(***************************************************************************)
(* The inductive invariant: a process that is not idle has a run of its    *)
(* own, whose history is what the locals say; the run is open until        *)
(* finish_ingestion_run; the loop ends at the end of the payload.          *)
(***************************************************************************)
HistoryOK(p) ==
    /\ log[job[p].run].payload = job[p].payload
    /\ Len(log[job[p].run].outcomes) + 1 = job[p].at
    /\ job[p].processed = Count(log[job[p].run].outcomes, "stored")
    /\ job[p].errors = Count(log[job[p].run].outcomes, "rejected")

RunsOK ==
    /\ \A p \in Proc : pc[p] # "idle" => HistoryOK(p)
    /\ \A p, q \in Proc :
          pc[p] # "idle" /\ pc[q] # "idle" /\ p # q => job[p].run # job[q].run
    /\ \A p \in Proc :
          pc[p] \in RecordPoint \cup {"finish"} => runs[job[p].run].status = "running"
    /\ \A p \in Proc :
          pc[p] \in {"finish", "counters"} => job[p].at = Len(job[p].payload) + 1

AInv == IInv /\ RunsOK /\ RunAccountsForItsRecords

-------------------------------------------------------------------------------
(***************************************************************************)
(* Counting.                                                               *)
(***************************************************************************)

\* One more outcome counts once, for itself.
LEMMA CountAppend ==
    ASSUME NEW s \in Seq({"stored", "rejected"}), NEW x \in {"stored", "rejected"},
           NEW y \in {"stored", "rejected"}
    PROVE  /\ Count(s, y) \in Nat
           /\ Count(Append(s, x), y) = IF x = y THEN Count(s, y) + 1 ELSE Count(s, y)
<1>. DEFINE A == {k \in DOMAIN s : s[k] = y}
            t == Append(s, x)
            B == {k \in DOMAIN t : t[k] = y}
            n == Len(s) + 1
<1>1. Len(s) \in Nat /\ n \notin A
  OBVIOUS
<1>2. IsFiniteSet(A)
  <2>1. IsFiniteSet(1..Len(s))
    BY <1>1, FS_Interval
  <2>2. A \subseteq 1..Len(s)
    OBVIOUS
  <2>. QED BY <2>1, <2>2, FS_Subset
<1>3. CASE x = y
  <2>1. B = A \cup {n}
    BY <1>3
  <2>. HIDE DEF A, B, n
  <2>2. Cardinality(B) = Cardinality(A) + 1
    BY <1>1, <1>2, <2>1, FS_AddElement
  <2>3. Cardinality(A) \in Nat
    BY <1>2, FS_CardinalityType
  <2>. QED BY <1>3, <2>2, <2>3 DEF Count, A, B
<1>4. CASE x # y
  <2>1. B = A
    BY <1>4
  <2>2. Cardinality(A) \in Nat
    BY <1>2, FS_CardinalityType
  <2>. QED BY <1>4, <2>1, <2>2 DEF Count
<1>. QED BY <1>3, <1>4

LEMMA CountEmpty == Count(<<>>, "stored") = 0 /\ Count(<<>>, "rejected") = 0
<1>1. \A y : {k \in DOMAIN <<>> : <<>>[k] = y} = {}
  OBVIOUS
<1>. QED BY <1>1, FS_EmptySet DEF Count

-------------------------------------------------------------------------------
(***************************************************************************)
(* The kinds of step.                                                      *)
(***************************************************************************)

\* p goes on within its record.
Moves(p) ==
    /\ pc[p] \in RecordPoint
    /\ \E point \in RecordPoint : Goto(p, point)
    /\ UNCHANGED <<runs, log>>
    /\ \A q \in Proc :
          /\ job'[q].run = job[q].run
          /\ job'[q].payload = job[q].payload
          /\ job'[q].at = job[q].at
          /\ job'[q].processed = job[q].processed
          /\ job'[q].errors = job[q].errors

\* p's record is over.
Ends(p) ==
    /\ pc[p] \in RecordPoint
    /\ UNCHANGED runs
    /\ \E outcome \in {"stored", "rejected"} : EndRecord(p, outcome)

\* p's request is over.
Leaves(p) ==
    /\ Leave(p) /\ UNCHANGED log
    /\ UNCHANGED runs \/ UpdateCounters(p)

LEMMA ActionKinds ==
    ASSUME IInv, NEW p \in Proc, Step(p) \/ Crash(p)
    PROVE  Moves(p) \/ Ends(p) \/ FinishRun(p) \/ Leaves(p)
<1>1. CASE RejectStale(p) \/ RejectScope(p) \/ RecordStored(p) \/ HandleException(p)
  <2>1. pc[p] \in RecordPoint /\ UNCHANGED runs
    BY <1>1 DEF RejectStale, RejectScope, RecordStored, HandleException, tables,
       RecordPoint, Point
  <2>. QED BY <1>1, <2>1 DEF RejectStale, RejectScope, RecordStored, HandleException, Ends
<1>2. CASE UpdateCounters(p) \/ AbandonRun(p) \/ Crash(p)
  BY <1>2 DEF UpdateCounters, AbandonRun, Crash, Leaves, tables
<1>3. CASE ReportProfile(p)
  <2>1. pc[p] \in RecordPoint /\ UNCHANGED <<runs, log>>
    BY <1>3 DEF ReportProfile, RecordPoint, Point
  <2>2. \E point \in RecordPoint : Goto(p, point)
    BY <1>3 DEF ReportProfile, ToCandidate, RecordPoint, Point
  <2>3. PICK m : job' = [job EXCEPT ![p].marked = m] \/ job' = job
    BY <1>3 DEF ReportProfile
  <2>4. PICK j \in Job : j = job[p]
    BY DEF IInv, TypeOK
  <2>5. PICK k : k = [j EXCEPT !.marked = m]
    OBVIOUS
  <2>6. /\ k.run = j.run /\ k.payload = j.payload /\ k.at = j.at
        /\ k.processed = j.processed /\ k.errors = j.errors
    BY <2>5 DEF Job
  <2>7. job' = [job EXCEPT ![p] = k] \/ job' = job
    BY <2>3, <2>4, <2>5
  <2>8. \A q \in Proc : job'[q] = job[q] \/ (q = p /\ job'[q] = k)
    BY <2>7 DEF IInv, TypeOK
  <2>. QED BY <2>1, <2>2, <2>4, <2>6, <2>8 DEF Moves
<1>4. CASE UpsertArticle(p)
  <2>1. pc[p] \in RecordPoint /\ UNCHANGED <<runs, log>> /\ Goto(p, "find")
    BY <1>4 DEF UpsertArticle, UpsertRef, RecordPoint, Point
  <2>2. PICK a, b : job' = [job EXCEPT ![p].estimated = a, ![p].failed = b]
    BY <1>4 DEF UpsertArticle
  <2>. QED BY <2>1, <2>2 DEF Moves, IInv, TypeOK, Job, RecordPoint, Point
<1>5. CASE UpsertRegion(p) \/ UpsertMatchup(p) \/ UpsertCandidate(p)
  <2>1. pc[p] \in RecordPoint /\ UNCHANGED <<runs, log, job>>
    BY <1>5 DEF UpsertRegion, UpsertMatchup, UpsertCandidate, UpsertRef, RecordPoint, Point
  <2>2. \E point \in {"scope", "candidate", "article", "profile"} :
          Goto(p, point)
    BY <1>5 DEF UpsertRegion, UpsertMatchup, UpsertCandidate, ToCandidate
  <2>. QED BY <2>1, <2>2 DEF Moves, RecordPoint, Point
<1>6. CASE \/ ReportIncomplete(p) \/ ReportNote(p) \/ Raise(p)
  <2>1. pc[p] \in RecordPoint /\ UNCHANGED <<runs, log, job>>
    BY <1>6 DEF ReportIncomplete, ReportNote, Raise, Raising, tables,
       RecordPoint, Point
  <2>2. \E point \in {"candidate", "article", "option", "note", "stored", "handler"} :
          Goto(p, point)
    BY <1>6 DEF ReportIncomplete, ReportNote, Raise,
       ToCandidate, ToOption, ToNote
  <2>. QED BY <2>1, <2>2 DEF Moves, RecordPoint, Point
<1>7. CASE \/ FindByFingerprint(p) \/ WriteObservation(p) \/ FetchDefaults(p)
           \/ DeleteDefaults(p) \/ UpsertOption(p)
  <2>1. pc[p] \in RecordPoint /\ UNCHANGED <<runs, log, job>>
    BY <1>7 DEF FindByFingerprint, WriteObservation, FetchDefaults, DeleteDefaults,
       UpsertOption, tables, RecordPoint, Point
  <2>2. \E point \in {"handler", "write", "fetch", "cleanup", "incomplete", "option",
                      "note", "stored"} : Goto(p, point)
    BY <1>7 DEF FindByFingerprint, WriteObservation, FetchDefaults, DeleteDefaults,
       UpsertOption, ToIncomplete, ToOption, ToNote
  <2>. QED BY <2>1, <2>2 DEF Moves, RecordPoint, Point
<1>. QED BY <1>1, <1>2, <1>3, <1>4, <1>5, <1>6, <1>7 DEF Step

-------------------------------------------------------------------------------
(***************************************************************************)
(* Each kind of step keeps the accounts.                                   *)
(***************************************************************************)

\* A new run starts with nothing counted.
LEMMA CreateRunAccounts ==
    ASSUME AInv, NEW p \in Proc, CreateRun(p)
    PROVE  RunsOK' /\ RunAccountsForItsRecords'
<1>. DEFINE n == Len(runs) + 1
<1>1. PICK payload \in Payloads :
        /\ runs' = Append(runs, [status |-> "running", processed |-> 0, errors |-> 0,
                                 estimated |-> 0, failed |-> 0])
        /\ log' = Append(log, [payload |-> payload, outcomes |-> <<>>, lost |-> {}])
        /\ job' = [job EXCEPT ![p] = [Idle EXCEPT !.run = n, !.payload = payload, !.at = 1]]
        /\ Goto(p, Entry(payload, 1))
  BY DEF CreateRun
<1>2. payload \in Seq(IngestRecord)
  BY PayloadsType
<1>3. runs \in Seq(Run) /\ log \in Seq(RunLog) /\ Len(log) = Len(runs) /\ pc[p] = "idle"
  BY DEF AInv, IInv, TypeOK, LoopOK, CreateRun
<1>4. /\ n \notin DOMAIN runs
      /\ DOMAIN runs' = DOMAIN runs \cup {n}
      /\ \A i \in DOMAIN runs : runs'[i] = runs[i] /\ log'[i] = log[i]
      /\ runs'[n].status = "running"
      /\ log'[n] = [payload |-> payload, outcomes |-> <<>>, lost |-> {}]
  BY <1>1, <1>3
<1>5. /\ job'[p] = [Idle EXCEPT !.run = n, !.payload = payload, !.at = 1]
      /\ \A q \in Proc \ {p} : job'[q] = job[q] /\ pc'[q] = pc[q]
      /\ pc'[p] = Entry(payload, 1)
  BY <1>1 DEF AInv, IInv, TypeOK, Goto
<1>6. /\ job'[p].run = n /\ job'[p].payload = payload /\ job'[p].at = 1
      /\ job'[p].processed = 0 /\ job'[p].errors = 0
  <2>. HIDE DEF n
  <2>. QED BY <1>5 DEF Idle
<1>. HIDE DEF n
<1>7. \A q \in Proc \ {p} : pc[q] # "idle" => job[q].run \in DOMAIN runs
  BY DEF AInv, IInv, LoopOK
<1>8. HistoryOK(p)'
  BY <1>4, <1>6, CountEmpty DEF HistoryOK
<1>9. ASSUME NEW q \in Proc \ {p}, pc'[q] # "idle"
      PROVE  HistoryOK(q)'
  <2>1. pc[q] # "idle" /\ job'[q] = job[q]
    BY <1>5, <1>9
  <2>2. log'[job[q].run] = log[job[q].run]
    BY <1>4, <1>7, <2>1
  <2>3. HistoryOK(q)
    BY <2>1 DEF AInv, RunsOK
  <2>. QED BY <2>1, <2>2, <2>3 DEF HistoryOK
<1>10. ASSUME NEW q1 \in Proc, NEW q2 \in Proc, q1 # q2, pc'[q1] # "idle", pc'[q2] # "idle"
       PROVE  job'[q1].run # job'[q2].run
  <2>1. CASE q1 = p
    <3>1. pc[q2] # "idle" /\ job'[q2] = job[q2]
      BY <1>5, <1>10, <2>1
    <3>. QED BY <1>4, <1>6, <1>7, <1>10, <2>1, <3>1
  <2>2. CASE q2 = p
    <3>1. pc[q1] # "idle" /\ job'[q1] = job[q1]
      BY <1>5, <1>10, <2>2
    <3>. QED BY <1>4, <1>6, <1>7, <1>10, <2>2, <3>1
  <2>3. CASE q1 # p /\ q2 # p
    BY <1>5, <1>10, <2>3 DEF AInv, RunsOK
  <2>. QED BY <2>1, <2>2, <2>3
<1>11. ASSUME NEW q \in Proc, pc'[q] \in RecordPoint \cup {"finish"}
       PROVE  runs'[job'[q].run].status = "running"
  <2>1. CASE q = p
    BY <1>4, <1>6, <2>1
  <2>2. CASE q # p
    BY <1>4, <1>5, <1>7, <1>11, <2>2 DEF AInv, RunsOK, RecordPoint
  <2>. QED BY <2>1, <2>2
<1>12. ASSUME NEW q \in Proc, pc'[q] \in {"finish", "counters"}
       PROVE  job'[q].at = Len(job'[q].payload) + 1
  <2>1. CASE q = p
    <3>1. 1 > Len(payload)
      BY <1>2, <1>5, <1>12, <2>1 DEF Entry
    <3>. QED BY <1>2, <1>6, <2>1, <3>1
  <2>2. CASE q # p
    BY <1>5, <1>12, <2>2 DEF AInv, RunsOK
  <2>. QED BY <2>1, <2>2
<1>13. RunAccountsForItsRecords'
  <2>1. \A i \in DOMAIN runs' : Finished(i)' => i \in DOMAIN runs
    BY <1>4 DEF Finished
  <2>. QED BY <1>4, <2>1 DEF AInv, RunAccountsForItsRecords, Finished
<1>. QED BY <1>8, <1>9, <1>10, <1>11, <1>12, <1>13 DEF RunsOK

\* Nothing the accounts depend on changes within a record.
LEMMA MovesAccounts ==
    ASSUME AInv, NEW p \in Proc, Moves(p)
    PROVE  RunsOK' /\ RunAccountsForItsRecords'
<1>1. UNCHANGED <<runs, log>>
  BY DEF Moves
<1>2. \A q \in Proc : /\ job'[q].run = job[q].run /\ job'[q].payload = job[q].payload
                      /\ job'[q].at = job[q].at /\ job'[q].processed = job[q].processed
                      /\ job'[q].errors = job[q].errors
  BY DEF Moves
<1>3. \A q \in Proc : \/ pc'[q] = pc[q]
                      \/ pc[q] \in RecordPoint /\ pc'[q] \in RecordPoint
  BY DEF Moves, Goto, AInv, IInv, TypeOK
<1>4. \A q \in Proc : pc'[q] # "idle" => pc[q] # "idle" /\ HistoryOK(q)'
  BY <1>1, <1>2, <1>3 DEF AInv, RunsOK, HistoryOK, RecordPoint
<1>5. RunsOK'
  BY <1>1, <1>2, <1>3, <1>4 DEF AInv, RunsOK, RecordPoint
<1>. QED BY <1>1, <1>5 DEF AInv, RunAccountsForItsRecords, Finished

\* A record's end is counted once, in the history and in the locals.
LEMMA EndsAccounts ==
    ASSUME AInv, NEW p \in Proc, Ends(p)
    PROVE  RunsOK' /\ RunAccountsForItsRecords'
<1>. DEFINE n == job[p].run
            at == job[p].at
            payload == job[p].payload
<1>1. PICK outcome \in {"stored", "rejected"} : EndRecord(p, outcome)
  BY DEF Ends
<1>2. /\ pc[p] \in RecordPoint /\ UNCHANGED runs
      /\ runs[n].status = "running" /\ pc[p] # "idle"
  BY DEF Ends, AInv, RunsOK, RecordPoint
<1>3. /\ job[p] \in Job /\ n \in DOMAIN runs /\ n \in DOMAIN log /\ log \in Seq(RunLog)
      /\ at \in DOMAIN payload /\ payload \in Seq(IngestRecord) /\ at \in Nat
      /\ log[n].outcomes \in Seq({"stored", "rejected"})
      /\ Len(log[n].outcomes) + 1 = at /\ log[n].payload = payload
  <2>1. job[p] \in Job /\ log \in Seq(RunLog) /\ runs \in Seq(Run)
    BY DEF AInv, IInv, TypeOK
  <2>2. n \in DOMAIN runs /\ at \in DOMAIN payload /\ Len(log) = Len(runs)
    BY <1>2 DEF AInv, IInv, LoopOK
  <2>3. n \in DOMAIN log /\ log[n] \in RunLog
    BY <2>1, <2>2
  <2>4. Len(log[n].outcomes) + 1 = at /\ log[n].payload = payload
    BY <1>2 DEF AInv, RunsOK, HistoryOK
  <2>. QED BY <2>1, <2>2, <2>3, <2>4 DEF Job, RunLog
<1>4. /\ log'[n].payload = log[n].payload
      /\ log'[n].outcomes = Append(log[n].outcomes, outcome)
      /\ \A i \in DOMAIN log \ {n} : log'[i] = log[i]
      /\ DOMAIN log' = DOMAIN log
  <2>1. PICK lost : log' = [log EXCEPT ![n].outcomes = Append(@, outcome), ![n].lost = lost]
    BY <1>1 DEF EndRecord
  <2>2. PICK l \in RunLog : l = log[n]
    BY <1>3
  <2>3. PICK k : k = [l EXCEPT !.outcomes = Append(@, outcome), !.lost = lost]
    OBVIOUS
  <2>4. k.payload = l.payload /\ k.outcomes = Append(l.outcomes, outcome)
    BY <2>3 DEF RunLog
  <2>5. log' = [log EXCEPT ![n] = k]
    BY <2>1, <2>2, <2>3
  <2>. QED BY <1>3, <2>2, <2>4, <2>5
<1>5. /\ job'[p].run = n /\ job'[p].payload = payload /\ job'[p].at = at + 1
      /\ job'[p].processed =
             IF outcome = "stored" THEN job[p].processed + 1 ELSE job[p].processed
      /\ job'[p].errors =
             IF outcome = "stored" THEN job[p].errors ELSE job[p].errors + 1
      /\ \A q \in Proc \ {p} : job'[q] = job[q]
  <2>. DEFINE a == at + 1
              done == IF outcome = "stored" THEN job[p].processed + 1 ELSE job[p].processed
              bad == IF outcome = "stored" THEN job[p].errors ELSE job[p].errors + 1
  <2>1. job' = [job EXCEPT ![p].at = a, ![p].processed = done, ![p].errors = bad]
    BY <1>1 DEF EndRecord
  <2>. HIDE DEF a, done, bad
  <2>2. PICK j \in Job : j = job[p]
    BY <1>3
  <2>3. PICK k : k = [j EXCEPT !.at = a, !.processed = done, !.errors = bad]
    OBVIOUS
  <2>4. k.run = j.run /\ k.payload = j.payload /\ k.at = a /\ k.processed = done /\ k.errors = bad
    BY <2>3 DEF Job
  <2>5. job' = [job EXCEPT ![p] = k]
    BY <2>1, <2>2, <2>3
  <2>6. job'[p] = k /\ \A q \in Proc \ {p} : job'[q] = job[q]
    BY <2>5 DEF AInv, IInv, TypeOK
  <2>. QED BY <2>2, <2>4, <2>6 DEF a, done, bad
<1>6. /\ pc'[p] = Entry(payload, at + 1)
      /\ \A q \in Proc \ {p} : pc'[q] = pc[q]
  BY <1>1 DEF EndRecord, Goto, AInv, IInv, TypeOK
<1>7. HistoryOK(p)'
  <2>1. Len(log'[n].outcomes) = Len(log[n].outcomes) + 1
    BY <1>3, <1>4
  <2>2. /\ job[p].processed = Count(log[n].outcomes, "stored")
        /\ job[p].errors = Count(log[n].outcomes, "rejected")
    BY <1>2 DEF AInv, RunsOK, HistoryOK
  <2>3. job'[p].processed = Count(log'[n].outcomes, "stored")
    BY <1>3, <1>4, <1>5, <2>2, CountAppend
  <2>4. job'[p].errors = Count(log'[n].outcomes, "rejected")
    BY <1>3, <1>4, <1>5, <2>2, CountAppend
  <2>. QED BY <1>3, <1>4, <1>5, <2>1, <2>3, <2>4 DEF HistoryOK
<1>8. ASSUME NEW q \in Proc \ {p}, pc'[q] # "idle"
      PROVE  HistoryOK(q)' /\ job'[q] = job[q] /\ job'[q].run # n
  <2>1. pc[q] # "idle" /\ job'[q] = job[q] /\ HistoryOK(q)
    BY <1>5, <1>6, <1>8 DEF AInv, RunsOK
  <2>2. job[q].run \in DOMAIN log /\ job[q].run # n
    BY <1>2, <1>8, <2>1 DEF AInv, IInv, LoopOK, TypeOK, RunsOK
  <2>3. log'[job[q].run] = log[job[q].run]
    BY <1>4, <2>2
  <2>. QED BY <2>1, <2>2, <2>3 DEF HistoryOK
<1>9. Entry(payload, at + 1) \in {"stale", "region", "scope", "finish"}
  <2>1. at + 1 \in Nat \ {0}
    BY <1>3
  <2>. HIDE DEF at, payload
  <2>. QED BY <1>3, <2>1, EntryPoint
<1>10. ASSUME NEW q1 \in Proc, NEW q2 \in Proc, q1 # q2, pc'[q1] # "idle", pc'[q2] # "idle"
       PROVE  job'[q1].run # job'[q2].run
  <2>1. pc[q1] # "idle" /\ pc[q2] # "idle"
    BY <1>2, <1>6, <1>10
  <2>2. job'[q1].run = job[q1].run /\ job'[q2].run = job[q2].run
    BY <1>5
  <2>. QED BY <1>10, <2>1, <2>2 DEF AInv, RunsOK
<1>11. ASSUME NEW q \in Proc, pc'[q] \in RecordPoint \cup {"finish"}
       PROVE  runs'[job'[q].run].status = "running"
  <2>1. CASE q = p
    BY <1>2, <1>5, <2>1
  <2>2. CASE q # p
    BY <1>2, <1>5, <1>6, <1>11, <2>2 DEF AInv, RunsOK
  <2>. QED BY <2>1, <2>2
<1>12. ASSUME NEW q \in Proc, pc'[q] \in {"finish", "counters"}
       PROVE  job'[q].at = Len(job'[q].payload) + 1
  <2>1. CASE q = p
    <3>1. at + 1 > Len(payload)
      <4>. HIDE DEF at, payload
      <4>. QED BY <1>3, <1>6, <1>9, <1>12, <2>1 DEF Entry
    <3>2. at + 1 = Len(payload) + 1
      BY <1>3, <3>1
    <3>. QED BY <1>5, <2>1, <3>2
  <2>2. CASE q # p
    BY <1>5, <1>6, <1>12, <2>2 DEF AInv, RunsOK
  <2>. QED BY <2>1, <2>2
<1>13. RunAccountsForItsRecords'
  <2>1. \A i \in DOMAIN runs : Finished(i) => i # n
    BY <1>2 DEF Finished
  <2>2. \A i \in DOMAIN runs : i # n => log'[i] = log[i]
    BY <1>3, <1>4 DEF AInv, IInv, TypeOK, LoopOK
  <2>. HIDE DEF n
  <2>. QED BY <1>2, <2>1, <2>2 DEF AInv, RunAccountsForItsRecords, Finished
<1>. QED BY <1>7, <1>8, <1>10, <1>11, <1>12, <1>13 DEF RunsOK

\* finish_ingestion_run writes the counters of a loop that is over.
LEMMA FinishAccounts ==
    ASSUME AInv, NEW p \in Proc, FinishRun(p)
    PROVE  RunsOK' /\ RunAccountsForItsRecords'
<1>. DEFINE n == job[p].run
<1>1. pc[p] = "finish" /\ UNCHANGED <<job, log>> /\ Goto(p, "counters")
  BY DEF FinishRun
<1>2. runs \in Seq(Run) /\ n \in DOMAIN runs /\ job[p] \in Job
  BY <1>1 DEF AInv, IInv, TypeOK, LoopOK
<1>3. /\ runs'[n].status = FinalStatus(job[p].errors)
      /\ runs'[n].processed = job[p].processed /\ runs'[n].errors = job[p].errors
      /\ \A i \in DOMAIN runs \ {n} : runs'[i] = runs[i]
      /\ DOMAIN runs' = DOMAIN runs
  <2>. DEFINE st == FinalStatus(job[p].errors)
              done == job[p].processed
              bad == job[p].errors
  <2>1. runs' = [runs EXCEPT ![n].status = st, ![n].processed = done, ![n].errors = bad]
    BY DEF FinishRun
  <2>. HIDE DEF n, st, done, bad
  <2>2. PICK old \in Run : old = runs[n]
    BY <1>2
  <2>3. PICK new : new = [old EXCEPT !.status = st, !.processed = done, !.errors = bad]
    OBVIOUS
  <2>4. new.status = st /\ new.processed = done /\ new.errors = bad
    BY <2>3 DEF Run
  <2>5. runs' = [runs EXCEPT ![n] = new]
    BY <2>1, <2>2, <2>3
  <2>6. runs'[n] = new /\ DOMAIN runs' = DOMAIN runs
        /\ \A i \in DOMAIN runs \ {n} : runs'[i] = runs[i]
    BY <1>2, <2>5
  <2>. QED BY <2>4, <2>6 DEF st, done, bad
<1>4. pc'[p] = "counters" /\ \A q \in Proc \ {p} : pc'[q] = pc[q]
  BY <1>1 DEF Goto, AInv, IInv, TypeOK
<1>5. HistoryOK(p) /\ job[p].at = Len(job[p].payload) + 1
  BY <1>1 DEF AInv, RunsOK
<1>6. RunsOK'
  <2>1. \A q \in Proc : pc'[q] # "idle" => pc[q] # "idle"
    BY <1>1, <1>4
  <2>2. \A q \in Proc : pc'[q] # "idle" => HistoryOK(q)'
    BY <1>1, <2>1 DEF AInv, RunsOK, HistoryOK
  <2>3. \A q, r \in Proc : pc'[q] # "idle" /\ pc'[r] # "idle" /\ q # r
                              => job'[q].run # job'[r].run
    BY <1>1, <2>1 DEF AInv, RunsOK
  <2>4. ASSUME NEW q \in Proc, pc'[q] \in RecordPoint \cup {"finish"}
        PROVE  runs'[job'[q].run].status = "running"
    <3>1. q # p /\ pc'[q] = pc[q]
      BY <1>4, <2>4 DEF RecordPoint
    <3>2. job[q].run # n /\ job[q].run \in DOMAIN runs
      BY <1>1, <2>4, <3>1 DEF AInv, IInv, LoopOK, RunsOK, RecordPoint
    <3>. QED BY <1>1, <1>3, <2>4, <3>1, <3>2 DEF AInv, RunsOK
  <2>5. \A q \in Proc : pc'[q] \in {"finish", "counters"}
                          => job'[q].at = Len(job'[q].payload) + 1
    BY <1>1, <1>4, <1>5 DEF AInv, RunsOK
  <2>. QED BY <2>2, <2>3, <2>4, <2>5 DEF RunsOK
<1>7. ASSUME NEW i \in DOMAIN runs', Finished(i)'
      PROVE  /\ Len(log'[i].outcomes) = Len(log'[i].payload)
             /\ runs'[i].processed = Count(log'[i].outcomes, "stored")
             /\ runs'[i].errors = Count(log'[i].outcomes, "rejected")
             /\ runs'[i].status = "success" => runs'[i].errors = 0
  <2>1. CASE i = n
    <3>1. Len(log[n].outcomes) = Len(log[n].payload)
      <4>1. log[n] \in RunLog
        BY <1>2 DEF AInv, IInv, TypeOK, LoopOK
      <4>2. Len(log[n].outcomes) \in Nat /\ Len(log[n].payload) \in Nat
        BY <4>1 DEF RunLog
      <4>3. Len(log[n].outcomes) + 1 = Len(log[n].payload) + 1
        BY <1>5 DEF HistoryOK
      <4>. QED BY <4>2, <4>3
    <3>2. runs'[n].status = "success" => runs'[n].errors = 0
      BY <1>3 DEF FinalStatus
    <3>. QED BY <1>1, <1>3, <1>5, <2>1, <3>1, <3>2 DEF HistoryOK
  <2>2. CASE i # n
    BY <1>1, <1>3, <1>7, <2>2 DEF AInv, RunAccountsForItsRecords, Finished
  <2>. QED BY <2>1, <2>2
<1>. QED BY <1>6, <1>7 DEF RunAccountsForItsRecords

\* A request that ends leaves the accounts of its run as they are.
LEMMA LeavesAccounts ==
    ASSUME AInv, NEW p \in Proc, Leaves(p)
    PROVE  RunsOK' /\ RunAccountsForItsRecords'
<1>1. UNCHANGED log /\ Leave(p)
  BY DEF Leaves
<1>2. pc'[p] = "idle" /\ \A q \in Proc \ {p} : pc'[q] = pc[q] /\ job'[q] = job[q]
  BY <1>1 DEF Leave, Goto, AInv, IInv, TypeOK
<1>3. /\ DOMAIN runs' = DOMAIN runs
      /\ \A i \in DOMAIN runs : /\ runs'[i].status = runs[i].status
                                /\ runs'[i].processed = runs[i].processed
                                /\ runs'[i].errors = runs[i].errors
  <2>1. CASE UNCHANGED runs
    BY <2>1
  <2>2. CASE UpdateCounters(p)
    <3>1. PICK a, b : runs' = [runs EXCEPT ![job[p].run].estimated = a,
                                           ![job[p].run].failed = b]
      BY <2>2 DEF UpdateCounters
    <3>2. PICK n \in DOMAIN runs : n = job[p].run
      BY <2>2 DEF UpdateCounters, AInv, IInv, LoopOK
    <3>3. PICK old \in Run : old = runs[n]
      BY DEF AInv, IInv, TypeOK
    <3>4. PICK new : new = [old EXCEPT !.estimated = a, !.failed = b]
      OBVIOUS
    <3>5. new.status = old.status /\ new.processed = old.processed /\ new.errors = old.errors
      BY <3>4 DEF Run
    <3>6. runs' = [runs EXCEPT ![n] = new]
      BY <3>1, <3>2, <3>3, <3>4
    <3>7. DOMAIN runs' = DOMAIN runs /\ \A i \in DOMAIN runs :
                                           runs'[i] = IF i = n THEN new ELSE runs[i]
      BY <3>6 DEF AInv, IInv, TypeOK
    <3>. QED BY <3>3, <3>5, <3>7
  <2>. QED BY <2>1, <2>2 DEF Leaves
<1>4. \A q \in Proc : pc'[q] # "idle" => q # p /\ pc'[q] = pc[q] /\ job'[q] = job[q]
  BY <1>2
<1>5. \A q \in Proc : pc'[q] # "idle" => HistoryOK(q)'
  BY <1>1, <1>4 DEF AInv, RunsOK, HistoryOK
<1>6. \A q \in Proc : pc[q] # "idle" => job[q].run \in DOMAIN runs
  BY DEF AInv, IInv, LoopOK
<1>7. ASSUME NEW q \in Proc, pc'[q] \in RecordPoint \cup {"finish"}
      PROVE  runs'[job'[q].run].status = "running"
  <2>1. pc'[q] = pc[q] /\ job'[q] = job[q] /\ pc[q] # "idle"
    BY <1>4, <1>7 DEF RecordPoint
  <2>. QED BY <1>3, <1>6, <1>7, <2>1 DEF AInv, RunsOK
<1>8. RunsOK'
  BY <1>4, <1>5, <1>7 DEF AInv, RunsOK
<1>. QED BY <1>1, <1>3, <1>8 DEF AInv, RunAccountsForItsRecords, Finished

-------------------------------------------------------------------------------
(***************************************************************************)
(* The invariant.                                                          *)
(***************************************************************************)
LEMMA AccountsNext == AInv /\ [Next]_vars => AInv'
<1>. SUFFICES ASSUME AInv, [Next]_vars PROVE AInv'
  OBVIOUS
<1>1. IInv'
  BY InvNext DEF AInv
<1>2. CASE UNCHANGED vars
  <2>1. RunsOK'
    BY <1>2 DEF vars, tables, AInv, RunsOK, HistoryOK
  <2>. QED BY <1>1, <1>2, <2>1 DEF vars, tables, AInv, RunAccountsForItsRecords, Finished
<1>3. ASSUME NEW p \in Proc, CreateRun(p)
      PROVE  AInv'
  BY <1>1, <1>3, CreateRunAccounts DEF AInv
<1>4. ASSUME NEW p \in Proc, Step(p) \/ Crash(p)
      PROVE  AInv'
  <2>1. Moves(p) \/ Ends(p) \/ FinishRun(p) \/ Leaves(p)
    BY <1>4, ActionKinds DEF AInv
  <2>. QED BY <1>1, <2>1, MovesAccounts, EndsAccounts, FinishAccounts, LeavesAccounts DEF AInv
<1>. QED BY <1>2, <1>3, <1>4 DEF Next

\* A run that reads as finished accounts for every record of its payload: the
\* loop of ingest_payload, its counters and finish_ingestion_run.
THEOREM RunsAccounted == Spec => []RunAccountsForItsRecords
<1>1. Init => AInv
  <2>1. Init => IInv
    BY InvInit
  <2>2. Init => RunsOK
    BY DEF Init, RunsOK, RecordPoint, Point
  <2>3. Init => RunAccountsForItsRecords
    BY DEF Init, RunAccountsForItsRecords
  <2>. QED BY <2>1, <2>2, <2>3 DEF AInv
<1>2. AInv /\ [Next]_vars => AInv'
  BY AccountsNext
<1>3. AInv => RunAccountsForItsRecords
  BY DEF AInv
<1>. QED BY <1>1, <1>2, <1>3, PTL DEF Spec

-------------------------------------------------------------------------------
(***************************************************************************)
(* The inductive invariant: how much of its record a process has already   *)
(* written when it is at a statement.                                      *)
(***************************************************************************)
\* Past the scope check, with region and matchup stored.
Placed == {"candidate", "profile", "article", "find", "write", "fetch", "cleanup",
           "incomplete", "option", "note", "stored"}

\* The observation of the record has been written.
Written == {"fetch", "cleanup", "incomplete", "option", "note", "stored"}

\* The row o is one a stored record r may be found under.
Holds(o, r) ==
    /\ obs[o].key = r.key \/ obs[o].fp = Fingerprint(r.poll)
    /\ r.source \in obs[o].channels

RowsOK ==
    /\ \A i, j \in DOMAIN obs : obs[i].key = obs[j].key => i = j
    /\ \A o \in DOMAIN obs : <<"matchup", obs[o].matchup>> \in refs

PlaceOK(p) ==
    /\ <<"region", Current(p).region>> \in refs
    /\ <<"matchup", Current(p).matchup>> \in refs

\* What the search returned may be stale, but its row is still that poll's.
FoundOK(p) ==
    ctx[p].seen # <<>> =>
        /\ <<"matchup", ctx[p].seen[1].matchup>> \in refs
        /\ \E i \in DOMAIN obs : /\ obs[i].key = ctx[p].seen[1].key
                                 /\ obs[i].fp = Fingerprint(Current(p).poll)

\* An option that must be stored is, or is still to be.
WrittenOK(p) ==
    /\ ctx[p].oid \in DOMAIN obs
    /\ Holds(ctx[p].oid, Current(p))
    /\ \A x \in Current(p).options :
          \/ IsDefaultCandidate(x) \/ x \in ctx[p].todo
          \/ [oid |-> ctx[p].oid, option |-> x] \in options
    /\ pc[p] \in {"note", "stored"} => ctx[p].todo = {}

ProgressOK(p) ==
    /\ pc[p] \in Placed => PlaceOK(p)
    /\ pc[p] = "write" => FoundOK(p)
    /\ pc[p] \in Written => WrittenOK(p)

\* An outcome belongs to a record.
OutcomesOK ==
    \A i \in DOMAIN log : \A k \in DOMAIN log[i].outcomes :
        log[i].payload[k] \in IngestRecord

SInv ==
    /\ AInv /\ OutcomesOK /\ RowsOK
    /\ \A p \in Proc : ProgressOK(p)
    /\ ProcessedRecordsAreStored
    /\ RejectedRecordsAreReported

-------------------------------------------------------------------------------
(***************************************************************************)
(* The tables only grow, as far as a stored or a reported record goes.     *)
(***************************************************************************)
TablesGrow ==
    /\ refs \subseteq refs'
    /\ \A o \in DOMAIN obs :
          /\ o \in DOMAIN obs'
          /\ obs[o].channels \subseteq obs'[o].channels
          /\ obs'[o].key = obs[o].key
          /\ obs'[o].fp = obs[o].fp
    /\ \A x \in options : IsDefaultCandidate(x.option) \/ x \in options'
    /\ \A e \in Entity \X Issue : review[e] > 0 => review'[e] > 0

\* An insert adds to a row's count, or fails.
LEMMA ReviewGrows ==
    ASSUME TypeOK, NEW p, NEW x, NEW issue, InsertReview(p, x, issue)
    PROVE  \A e \in Entity \X Issue : review[e] > 0 => review'[e] > 0
<1>. TAKE e \in Entity \X Issue
<1>1. PICK z : z = <<x, issue>>
  OBVIOUS
<1>2. PICK n \in Nat : n = review[e]
  BY DEF TypeOK
<1>3. CASE review' = [review EXCEPT ![z] = @ + 1]
  <2>1. review'[e] = IF e = z THEN review[z] + 1 ELSE review[e]
    BY <1>3 DEF TypeOK
  <2>2. n > 0 => n + 1 > 0
    OBVIOUS
  <2>. QED BY <1>2, <2>1, <2>2
<1>4. CASE review' = review
  BY <1>4
<1>. QED BY <1>1, <1>3, <1>4 DEF InsertReview

\* No step takes back what a stored or a reported record rests on: only default
\* candidate rows are deleted (delete_candidate_default_poll_options).
LEMMA StepsGrow == ASSUME IInv, [Next]_vars PROVE TablesGrow
<1>. USE DEF IInv
<1>1. refs \subseteq refs'
  <2>1. ASSUME NEW p \in Proc, CreateRun(p) \/ Crash(p) \/ Step(p)
        PROVE  refs' = refs \/ \E kind, id : refs' = refs \cup {<<kind, id>>}
    BY <2>1, Zenon DEF CreateRun, Crash, Step, RejectStale, UpsertRegion, RejectScope, UpsertMatchup,
       UpsertCandidate, ReportProfile, UpsertArticle, FindByFingerprint, WriteObservation,
       FetchDefaults, DeleteDefaults, ReportIncomplete, UpsertOption, ReportNote, RecordStored,
       Raise, HandleException, FinishRun, UpdateCounters, AbandonRun, UpsertRef, tables
  <2>. QED BY <2>1 DEF Next, vars, tables
<1>2. \A o \in DOMAIN obs :
          /\ o \in DOMAIN obs'
          /\ obs[o].channels \subseteq obs'[o].channels
          /\ obs'[o].key = obs[o].key
          /\ obs'[o].fp = obs[o].fp
  <2>1. CASE obs' = obs
    BY <2>1
  <2>2. CASE \E row \in ObservationRow : obs' = Upserted(obs, row)
    BY <2>2, UpsertedKeeps DEF TypeOK
  <2>. QED BY <2>1, <2>2, ObsChange
<1>3. \A x \in options : IsDefaultCandidate(x.option) \/ x \in options'
  <2>1. ASSUME NEW p \in Proc, DeleteDefaults(p)
        PROVE  \A x \in options : IsDefaultCandidate(x.option) \/ x \in options'
    BY <2>1 DEF DeleteDefaults, StoredDefaults
  <2>2. ASSUME NEW p \in Proc, CreateRun(p) \/ Crash(p) \/ (Step(p) /\ ~DeleteDefaults(p))
        PROVE  options' = options \/ \E x : options' = options \cup {x}
    BY <2>2 DEF CreateRun, Crash, Step, RejectStale, UpsertRegion, RejectScope, UpsertMatchup,
       UpsertCandidate, ReportProfile, UpsertArticle, FindByFingerprint, WriteObservation,
       FetchDefaults, ReportIncomplete, UpsertOption, ReportNote, RecordStored,
       Raise, HandleException, FinishRun, UpdateCounters, AbandonRun, UpsertRef, tables
  <2>. QED BY <2>1, <2>2 DEF Next, vars, tables
<1>4. \A e \in Entity \X Issue : review[e] > 0 => review'[e] > 0
  <2>1. ASSUME NEW p \in Proc, CreateRun(p) \/ Crash(p) \/ Step(p)
        PROVE  \/ review' = review
               \/ \E x, issue : InsertReview(p, x, issue)
               \/ \E z : review' = [review EXCEPT ![z] = @ + 1]
    BY <2>1 DEF CreateRun, Crash, Step, RejectStale, UpsertRegion, RejectScope, UpsertMatchup,
       UpsertCandidate, ReportProfile, UpsertArticle, FindByFingerprint, WriteObservation,
       FetchDefaults, DeleteDefaults, ReportIncomplete, UpsertOption, ReportNote, RecordStored,
       Raise, HandleException, FinishRun, UpdateCounters, AbandonRun, UpsertRef, tables
  <2>2. ASSUME NEW z, review' = [review EXCEPT ![z] = @ + 1], NEW e \in Entity \X Issue,
               review[e] > 0
        PROVE  review'[e] > 0
    <3>1. review'[e] = IF e = z THEN review[e] + 1 ELSE review[e]
      BY <2>2 DEF TypeOK
    <3>2. PICK n \in Nat : n = review[e]
      BY DEF TypeOK
    <3>. QED BY <2>2, <3>1, <3>2
  <2>. QED BY <2>1, <2>2, ReviewGrows DEF Next, vars, tables
<1>. QED BY <1>1, <1>2, <1>3, <1>4 DEF TablesGrow

-------------------------------------------------------------------------------
(***************************************************************************)
(* The history grows by one outcome where a record ends.                   *)
(***************************************************************************)
Closes(p, outcome) ==
    \/ outcome = "stored" /\ RecordStored(p)
    \/ /\ outcome = "rejected"
       /\ RejectStale(p) \/ RejectScope(p) \/ HandleException(p)

\* The k-th outcome of a run was there before the step.
Kept(i, k) ==
    /\ i \in DOMAIN log /\ k \in DOMAIN log[i].outcomes
    /\ log'[i].outcomes[k] = log[i].outcomes[k]
    /\ log'[i].payload[k] = log[i].payload[k]
    /\ k \in log[i].lost => k \in log'[i].lost

\* It is that of the record p ends with this step.
Added(i, k, p) ==
    /\ Closes(p, log'[i].outcomes[k])
    /\ log'[i].payload[k] = Current(p)
    /\ log'[i].outcomes[k] = "rejected" /\ txn'[p] = "aborted" => k \in log'[i].lost

\* The end of a record adds its outcome to its own run.
LEMMA EndAdds ==
    ASSUME AInv, NEW p \in Proc, NEW outcome \in {"stored", "rejected"},
           pc[p] \in RecordPoint, EndRecord(p, outcome), Closes(p, outcome),
           NEW i \in DOMAIN log', NEW k \in DOMAIN log'[i].outcomes
    PROVE  Kept(i, k) \/ Added(i, k, p)
<1>. DEFINE n == job[p].run
            at == job[p].at
            lost == IF outcome = "rejected" /\ txn'[p] = "aborted"
                    THEN log[n].lost \cup {at} ELSE log[n].lost
<1>1. /\ n \in DOMAIN log /\ log \in Seq(RunLog) /\ at \in Nat
      /\ log[n].outcomes \in Seq({"stored", "rejected"})
      /\ Len(log[n].outcomes) + 1 = at /\ log[n].payload = job[p].payload
  <2>1. job[p] \in Job /\ log \in Seq(RunLog) /\ runs \in Seq(Run)
    BY DEF AInv, IInv, TypeOK
  <2>2. n \in DOMAIN runs /\ Len(log) = Len(runs) /\ pc[p] # "idle"
    BY DEF AInv, IInv, LoopOK, RecordPoint
  <2>3. n \in DOMAIN log /\ log[n] \in RunLog
    BY <2>1, <2>2
  <2>4. Len(log[n].outcomes) + 1 = at /\ log[n].payload = job[p].payload
    BY <2>2 DEF AInv, RunsOK, HistoryOK
  <2>. QED BY <2>1, <2>3, <2>4 DEF Job, RunLog
<1>2. /\ log'[n].payload = log[n].payload
      /\ log'[n].outcomes = Append(log[n].outcomes, outcome)
      /\ log'[n].lost = lost
      /\ \A j \in DOMAIN log \ {n} : log'[j] = log[j]
      /\ DOMAIN log' = DOMAIN log
  <2>1. log' = [log EXCEPT ![n].outcomes = Append(@, outcome), ![n].lost = lost]
    BY DEF EndRecord
  <2>. HIDE DEF lost
  <2>2. PICK l \in RunLog : l = log[n]
    BY <1>1
  <2>3. PICK m : m = [l EXCEPT !.outcomes = Append(@, outcome), !.lost = lost]
    OBVIOUS
  <2>4. m.payload = l.payload /\ m.outcomes = Append(l.outcomes, outcome) /\ m.lost = lost
    BY <2>3 DEF RunLog
  <2>5. log' = [log EXCEPT ![n] = m]
    BY <2>1, <2>2, <2>3
  <2>. QED BY <1>1, <2>2, <2>4, <2>5
<1>3. CASE i # n
  BY <1>2, <1>3 DEF Kept
<1>4. CASE i = n /\ k = at
  <2>1. log'[i].outcomes[k] = outcome
    BY <1>1, <1>2, <1>4
  <2>2. log'[i].payload[k] = Current(p)
    BY <1>1, <1>2, <1>4 DEF Current
  <2>3. outcome = "rejected" /\ txn'[p] = "aborted" => k \in log'[i].lost
    BY <1>2, <1>4
  <2>. QED BY <2>1, <2>2, <2>3 DEF Added
<1>5. CASE i = n /\ k # at
  <2>1. k \in DOMAIN log[n].outcomes /\ log'[n].outcomes[k] = log[n].outcomes[k]
    <3>. HIDE DEF n, at
    <3>. QED BY <1>1, <1>2, <1>5
  <2>2. log[n].lost \subseteq lost
    OBVIOUS
  <2>. QED BY <1>1, <1>2, <1>5, <2>1, <2>2 DEF Kept
<1>. QED BY <1>3, <1>4, <1>5

\* Every outcome of the history was there before, or ends a record now.
LEMMA LogGrows ==
    ASSUME AInv, [Next]_vars, NEW i \in DOMAIN log', NEW k \in DOMAIN log'[i].outcomes
    PROVE  Kept(i, k) \/ \E p \in Proc : Added(i, k, p)
<1>1. CASE UNCHANGED log
  BY <1>1 DEF Kept
<1>2. ASSUME NEW p \in Proc, CreateRun(p)
      PROVE  Kept(i, k)
  <2>1. PICK payload : log' = Append(log, [payload |-> payload, outcomes |-> <<>>, lost |-> {}])
    BY <1>2 DEF CreateRun
  <2>2. log \in Seq(RunLog)
    BY DEF AInv, IInv, TypeOK
  <2>3. CASE i \in DOMAIN log
    BY <2>1, <2>2, <2>3 DEF Kept
  <2>4. CASE i \notin DOMAIN log
    <3>1. log'[i].outcomes = <<>>
      BY <2>1, <2>2, <2>4
    <3>. QED BY <3>1
  <2>. QED BY <2>3, <2>4
<1>3. ASSUME NEW p \in Proc,
             RejectStale(p) \/ RejectScope(p) \/ RecordStored(p) \/ HandleException(p)
      PROVE  Kept(i, k) \/ Added(i, k, p)
  <2>1. pc[p] \in RecordPoint
    BY <1>3 DEF RejectStale, RejectScope, RecordStored, HandleException, RecordPoint, Point
  <2>2. PICK outcome \in {"stored", "rejected"} : EndRecord(p, outcome) /\ Closes(p, outcome)
    BY <1>3 DEF RejectStale, RejectScope, RecordStored, HandleException, Closes
  <2>. QED BY <2>1, <2>2, EndAdds
<1>4. ASSUME NEW p \in Proc, Step(p) \/ Crash(p),
             ~(RejectStale(p) \/ RejectScope(p) \/ RecordStored(p) \/ HandleException(p))
      PROVE  UNCHANGED log
  BY <1>4 DEF Crash, Step, UpsertRegion, UpsertMatchup,
     UpsertCandidate, ReportProfile, UpsertArticle, FindByFingerprint, WriteObservation,
     FetchDefaults, DeleteDefaults, ReportIncomplete, UpsertOption, ReportNote,
     Raise, FinishRun, UpdateCounters, AbandonRun, UpsertRef, tables
<1>. QED BY <1>1, <1>2, <1>3, <1>4 DEF Next, vars

LEMMA OutcomesNext == ASSUME AInv, OutcomesOK, [Next]_vars PROVE OutcomesOK'
<1>. SUFFICES ASSUME NEW i \in DOMAIN log', NEW k \in DOMAIN log'[i].outcomes
              PROVE  log'[i].payload[k] \in IngestRecord
  BY DEF OutcomesOK
<1>1. CASE Kept(i, k)
  BY <1>1 DEF Kept, OutcomesOK
<1>2. ASSUME NEW p \in Proc, Added(i, k, p)
      PROVE  log'[i].payload[k] \in IngestRecord
  <2>1. pc[p] \in RecordPoint
    BY <1>2 DEF Added, Closes, RecordStored, RejectStale, RejectScope, HandleException,
       RecordPoint, Point
  <2>. QED BY <1>2, <2>1, CurrentType DEF Added, AInv
<1>. QED BY <1>1, <1>2, LogGrows

-------------------------------------------------------------------------------
(***************************************************************************)
(* Rejected records.                                                       *)
(***************************************************************************)

\* A record is turned away with a review row, unless its insert failed.
LEMMA RejectionReported ==
    ASSUME IInv, NEW p \in Proc, Closes(p, "rejected"), txn'[p] # "aborted"
    PROVE  \E issue \in ErrorIssue \cup {"mapping_error"} :
               review'[<<Current(p).key, issue>>] > 0
<1>1. pc[p] \in RecordPoint
  BY DEF Closes, RejectStale, RejectScope, HandleException, RecordPoint, Point
<1>2. PICK x \in Entity : x = Current(p).key
  BY <1>1, CurrentType DEF Entity, IngestRecord
<1>3. ASSUME NEW issue \in ErrorIssue \cup {"mapping_error"},
             review' = [review EXCEPT ![<<x, issue>>] = @ + 1]
      PROVE  review'[<<x, issue>>] > 0
  <2>1. PICK z : z = <<x, issue>>
    OBVIOUS
  <2>2. z \in Entity \X Issue
    BY <2>1 DEF ErrorIssue, Issue, NoteIssue
  <2>3. PICK n \in Nat : n = review[z]
    BY <2>2 DEF IInv, TypeOK
  <2>4. review'[z] = n + 1
    BY <1>3, <2>1, <2>2, <2>3 DEF IInv, TypeOK
  <2>. QED BY <2>1, <2>3, <2>4
<1>4. ctx[p].issue \in ErrorIssue
  BY DEF IInv, TypeOK, Context
<1>5. Fails(p) => txn'[p] = "aborted"
  BY DEF Fails, IInv, TypeOK
<1>6. \E issue \in ErrorIssue \cup {"mapping_error"} :
          review' = [review EXCEPT ![<<x, issue>>] = @ + 1]
  <2>1. CASE RejectStale(p)
    BY <1>2, <1>5, <2>1 DEF RejectStale, InsertReview, ErrorIssue
  <2>2. CASE RejectScope(p)
    BY <1>2, <1>5, <2>2 DEF RejectScope, InsertReview
  <2>3. CASE HandleException(p)
    BY <1>2, <1>4, <2>3 DEF HandleException, IInv, TypeOK
  <2>. QED BY <2>1, <2>2, <2>3 DEF Closes
<1>. QED BY <1>2, <1>3, <1>6

LEMMA RejectedNext ==
    ASSUME AInv, OutcomesOK, RejectedRecordsAreReported, [Next]_vars
    PROVE  RejectedRecordsAreReported'
<1>. SUFFICES ASSUME NEW i \in DOMAIN log', NEW k \in DOMAIN log'[i].outcomes,
                     log'[i].outcomes[k] = "rejected", k \notin log'[i].lost
              PROVE  \E issue \in ErrorIssue \cup {"mapping_error"} :
                         review'[<<log'[i].payload[k].key, issue>>] > 0
  BY DEF RejectedRecordsAreReported
<1>1. IInv /\ IInv'
  BY InvNext DEF AInv
<1>2. CASE Kept(i, k)
  <2>1. PICK issue \in ErrorIssue \cup {"mapping_error"} :
            review[<<log[i].payload[k].key, issue>>] > 0
    BY <1>2 DEF Kept, RejectedRecordsAreReported
  <2>2. log[i].payload[k].key \in Entity
    <3>1. log[i].payload[k] \in IngestRecord
      BY <1>2 DEF Kept, OutcomesOK
    <3>. QED BY <3>1 DEF IngestRecord, Entity
  <2>3. <<log[i].payload[k].key, issue>> \in Entity \X Issue
    BY <2>2 DEF ErrorIssue, Issue, NoteIssue
  <2>4. review'[<<log[i].payload[k].key, issue>>] > 0
    BY <1>1, <2>1, <2>3, StepsGrow DEF TablesGrow
  <2>. QED BY <1>2, <2>4 DEF Kept
<1>3. ASSUME NEW p \in Proc, Added(i, k, p)
      PROVE  \E issue \in ErrorIssue \cup {"mapping_error"} :
                 review'[<<log'[i].payload[k].key, issue>>] > 0
  <2>1. Closes(p, "rejected") /\ txn'[p] # "aborted" /\ log'[i].payload[k] = Current(p)
    BY <1>3 DEF Added
  <2>. QED BY <1>1, <2>1, RejectionReported
<1>. QED BY <1>2, <1>3, LogGrows

-------------------------------------------------------------------------------
(***************************************************************************)
(* Rows of poll_observations.                                              *)
(***************************************************************************)

\* An upsert writes one row: its id, its key, its matchup; the fingerprint is
\* the one the row already had, and the keys stay unique.
LEMMA UpsertedRow ==
    ASSUME NEW table \in Seq(ObservationRow), NEW row \in ObservationRow,
           \A i, j \in DOMAIN table : table[i].key = table[j].key => i = j
    PROVE  LET new == Upserted(table, row)
               id == UpsertId(table, row)
           IN  /\ id \in DOMAIN new
               /\ new[id].key = row.key
               /\ new[id].matchup = row.matchup
               /\ row.channels \subseteq new[id].channels
               /\ \A i \in DOMAIN table : table[i].key = row.key => i = id
               /\ \A i \in DOMAIN new \ {id} : i \in DOMAIN table /\ new[i] = table[i]
               /\ \A i, j \in DOMAIN new : new[i].key = new[j].key => i = j
<1>1. PICK id : id = UpsertId(table, row)
  OBVIOUS
<1>2. PICK new : new = Upserted(table, row)
  OBVIOUS
<1>3. CASE RowsWithKey(table, row.key) = {}
  <2>1. id = Len(table) + 1 /\ new = Append(table, row)
    BY <1>1, <1>2, <1>3 DEF Upserted, UpsertId
  <2>2. /\ id \in DOMAIN new /\ new[id] = row
        /\ \A i \in DOMAIN new \ {id} : i \in DOMAIN table /\ new[i] = table[i]
    BY <2>1
  <2>3. \A i \in DOMAIN table : table[i].key # row.key
    BY <1>3 DEF RowsWithKey
  <2>4. \A i, j \in DOMAIN new : new[i].key = new[j].key => i = j
    BY <2>2, <2>3
  <2>. QED BY <1>1, <1>2, <2>2, <2>3, <2>4
<1>4. CASE RowsWithKey(table, row.key) # {}
  <2>1. id \in DOMAIN table /\ table[id].key = row.key
    BY <1>1, <1>4 DEF UpsertId, RowsWithKey
  <2>2. new = [table EXCEPT ![id] = Overwritten(table[id], row)]
    BY <1>1, <1>2, <1>4 DEF Upserted
  <2>3. PICK old \in ObservationRow : old = table[id]
    BY <2>1
  <2>4. /\ Overwritten(old, row).key = row.key
        /\ Overwritten(old, row).matchup = row.matchup
        /\ row.channels \subseteq Overwritten(old, row).channels
    BY DEF Overwritten, ObservationRow
  <2>5. /\ DOMAIN new = DOMAIN table /\ new[id] = Overwritten(old, row)
        /\ \A i \in DOMAIN new \ {id} : new[i] = table[i]
    BY <2>1, <2>2, <2>3
  <2>6. \A i \in DOMAIN new : new[i].key = table[i].key
    BY <2>1, <2>4, <2>5
  <2>. QED BY <1>1, <1>2, <2>1, <2>4, <2>5, <2>6
<1>. QED BY <1>3, <1>4

\* The row a record writes has the record's source, and the key of the row the
\* search found or else the record's own.
LEMMA WrittenRow ==
    ASSUME NEW r \in IngestRecord, NEW n \in Nat, NEW seen \in Seq(ObservationRow)
    PROVE  LET row == RowToWrite(seen, RowOf(r, n))
           IN  /\ row \in ObservationRow
               /\ r.source \in row.channels
               /\ row.fp = Fingerprint(r.poll)
               /\ seen = <<>> => row.key = r.key /\ row.matchup = r.matchup
               /\ seen # <<>> => /\ row.key = seen[1].key
                                 /\ row.matchup \in {seen[1].matchup, r.matchup}
<1>1. PICK own \in ObservationRow : own = RowOf(r, n)
  BY DEF RowOf, ObservationRow, IngestRecord, Fingerprint, Source
<1>2. /\ own.key = r.key /\ own.matchup = r.matchup /\ own.channels = {r.source}
      /\ own.source = r.source /\ own.fp = Fingerprint(r.poll)
  BY <1>1 DEF RowOf
<1>3. RowToWrite(seen, own) \in ObservationRow
  BY <1>1, RowToWriteType
<1>4. CASE seen = <<>>
  BY <1>1, <1>2, <1>3, <1>4 DEF RowToWrite
<1>5. CASE seen # <<>>
  <2>1. PICK first \in ObservationRow : first = seen[1]
    BY <1>5
  <2>2. RowToWrite(seen, own) = Merged(first, own)
    BY <1>5, <2>1 DEF RowToWrite
  <2>3. /\ Merged(first, own).key = first.key
        /\ Merged(first, own).fp = own.fp
        /\ Merged(first, own).matchup \in {first.matchup, own.matchup}
        /\ own.channels \subseteq Merged(first, own).channels
    BY DEF Merged, MergedChannels
  <2>. QED BY <1>1, <1>2, <1>3, <1>5, <2>1, <2>2, <2>3
<1>. QED BY <1>4, <1>5

LEMMA RowsNext ==
    ASSUME IInv, RowsOK, \A p \in Proc : ProgressOK(p), [Next]_vars
    PROVE  RowsOK'
<1>1. TablesGrow
  BY StepsGrow
<1>2. CASE obs' = obs
  BY <1>1, <1>2 DEF TablesGrow, RowsOK
<1>3. ASSUME NEW p \in Proc, WriteObservation(p)
      PROVE  RowsOK'
  <2>1. PICK r \in IngestRecord : r = Current(p)
    BY <1>3, CurrentType DEF WriteObservation, RecordPoint, Point
  <2>2. PICK row : row = RowToWrite(ctx[p].seen, RowOf(r, job[p].run))
    OBVIOUS
  <2>3. ctx[p].seen \in Seq(ObservationRow) /\ job[p].run \in Nat /\ obs \in Seq(ObservationRow)
    BY DEF IInv, TypeOK, Context, Job
  <2>4. row \in ObservationRow /\ <<"matchup", row.matchup>> \in refs
    <3>1. pc[p] \in Placed /\ pc[p] = "write"
      BY <1>3 DEF WriteObservation, Placed
    <3>2. PlaceOK(p) /\ FoundOK(p)
      BY <3>1 DEF ProgressOK
    <3>. QED BY <2>1, <2>2, <2>3, <3>2, WrittenRow DEF PlaceOK, FoundOK
  <2>5. obs' = Upserted(obs, row)
    BY <1>3, <2>1, <2>2 DEF WriteObservation
  <2>6. /\ obs'[UpsertId(obs, row)].matchup = row.matchup
        /\ \A i \in DOMAIN obs' \ {UpsertId(obs, row)} : i \in DOMAIN obs /\ obs'[i] = obs[i]
        /\ \A i, j \in DOMAIN obs' : obs'[i].key = obs'[j].key => i = j
    BY <2>3, <2>4, <2>5, UpsertedRow DEF RowsOK
  <2>7. \A o \in DOMAIN obs' : <<"matchup", obs'[o].matchup>> \in refs
    BY <2>4, <2>6 DEF RowsOK
  <2>. QED BY <1>1, <2>6, <2>7 DEF RowsOK, TablesGrow
<1>4. ASSUME NEW p \in Proc, CreateRun(p) \/ Crash(p) \/ (Step(p) /\ ~WriteObservation(p))
      PROVE  obs' = obs
  BY <1>4 DEF CreateRun, Crash, Step, RejectStale, UpsertRegion, RejectScope, UpsertMatchup,
     UpsertCandidate, ReportProfile, UpsertArticle, FindByFingerprint,
     FetchDefaults, DeleteDefaults, ReportIncomplete, UpsertOption, ReportNote, RecordStored,
     Raise, HandleException, FinishRun, UpdateCounters, AbandonRun, UpsertRef, tables
<1>. QED BY <1>2, <1>3, <1>4 DEF Next, vars, tables

-------------------------------------------------------------------------------
(***************************************************************************)
(* What is written of a record stays written.                              *)
(***************************************************************************)
LEMMA HoldsStill ==
    ASSUME TablesGrow, NEW o \in DOMAIN obs, NEW r, Holds(o, r)
    PROVE  o \in DOMAIN obs' /\ Holds(o, r)'
BY DEF TablesGrow, Holds

\* An option that is not a default candidate stays in the table.
LEMMA OptionStill ==
    ASSUME TablesGrow, NEW o, NEW x, ~IsDefaultCandidate(x), [oid |-> o, option |-> x] \in options
    PROVE  [oid |-> o, option |-> x] \in options'
<1>1. [oid |-> o, option |-> x].option = x
  OBVIOUS
<1>. QED BY <1>1 DEF TablesGrow

LEMMA PlaceStill ==
    ASSUME TablesGrow, NEW p \in Proc, PlaceOK(p), Current(p)' = Current(p)
    PROVE  PlaceOK(p)'
BY DEF TablesGrow, PlaceOK

\* With the same record, observation and remaining options.
LEMMA WrittenStill ==
    ASSUME TablesGrow, NEW p \in Proc, WrittenOK(p), Current(p)' = Current(p),
           ctx'[p].oid = ctx[p].oid, ctx[p].todo \subseteq ctx'[p].todo,
           pc'[p] \in {"note", "stored"} => ctx'[p].todo = {}
    PROVE  WrittenOK(p)'
<1>1. PICK r : r = Current(p) /\ r = Current(p)'
  OBVIOUS
<1>2. PICK o : o = ctx[p].oid /\ o = ctx'[p].oid
  OBVIOUS
<1>3. o \in DOMAIN obs' /\ Holds(o, r)'
  BY <1>1, <1>2, HoldsStill DEF WrittenOK
<1>4. \A x \in r.options :
          \/ IsDefaultCandidate(x) \/ x \in ctx'[p].todo
          \/ [oid |-> o, option |-> x] \in options'
  BY <1>1, <1>2, OptionStill DEF WrittenOK
<1>. QED BY <1>1, <1>2, <1>3, <1>4 DEF WrittenOK, Holds

LEMMA ProgressStill ==
    ASSUME TablesGrow, NEW p \in Proc, ProgressOK(p), Current(p)' = Current(p),
           pc'[p] = pc[p], ctx'[p] = ctx[p]
    PROVE  ProgressOK(p)'
<1>1. pc[p] \in Placed => PlaceOK(p)'
  BY PlaceStill DEF ProgressOK
<1>2. pc[p] = "write" => FoundOK(p)'
  BY DEF ProgressOK, FoundOK, TablesGrow
<1>3. pc[p] \in Written => WrittenOK(p)'
  <2>1. ASSUME WrittenOK(p)
        PROVE  WrittenOK(p)'
    BY <2>1, WrittenStill DEF WrittenOK
  <2>. QED BY <2>1 DEF ProgressOK
<1>. QED BY <1>1, <1>2, <1>3 DEF ProgressOK

\* A step of one process leaves the others' locals alone.
LEMMA OthersStay ==
    ASSUME IInv, NEW p \in Proc, CreateRun(p) \/ Step(p) \/ Crash(p), NEW q \in Proc, q # p
    PROVE  pc'[q] = pc[q] /\ job'[q] = job[q] /\ ctx'[q] = ctx[q]
<1>1. \E point : pc' = [pc EXCEPT ![p] = point]
  BY Zenon DEF CreateRun, Crash, Step, RejectStale, UpsertRegion, RejectScope, UpsertMatchup,
     UpsertCandidate, ReportProfile, UpsertArticle, FindByFingerprint, WriteObservation,
     FetchDefaults, DeleteDefaults, ReportIncomplete, UpsertOption, ReportNote, RecordStored,
     Raise, HandleException, FinishRun, UpdateCounters, AbandonRun, EndRecord, Leave, Goto
<1>2. \/ job' = job \/ EndRecord(p, "stored") \/ EndRecord(p, "rejected") \/ Leave(p)
      \/ CreateRun(p) \/ ReportProfile(p) \/ UpsertArticle(p)
  BY DEF Crash, Step, RejectStale, UpsertRegion, RejectScope, UpsertMatchup,
     UpsertCandidate, FindByFingerprint, WriteObservation,
     FetchDefaults, DeleteDefaults, ReportIncomplete, UpsertOption, ReportNote, RecordStored,
     Raise, HandleException, FinishRun, UpdateCounters, AbandonRun
<1>3. job'[q] = job[q]
  BY <1>2 DEF EndRecord, Leave, CreateRun, ReportProfile, UpsertArticle, IInv, TypeOK
<1>4. \/ ctx' = ctx \/ EndRecord(p, "stored") \/ EndRecord(p, "rejected") \/ Leave(p)
      \/ UpsertCandidate(p) \/ FindByFingerprint(p) \/ WriteObservation(p)
      \/ FetchDefaults(p) \/ UpsertOption(p) \/ ReportNote(p)
  BY DEF Crash, Step, CreateRun, RejectStale, UpsertRegion, RejectScope, UpsertMatchup,
     ReportProfile, UpsertArticle, DeleteDefaults, ReportIncomplete, RecordStored,
     Raise, HandleException, FinishRun, UpdateCounters, AbandonRun
<1>5. ctx'[q] = ctx[q]
  BY <1>4 DEF EndRecord, Leave, UpsertCandidate, FindByFingerprint, WriteObservation,
     FetchDefaults, UpsertOption, ReportNote, IInv, TypeOK
<1>. QED BY <1>1, <1>3, <1>5 DEF IInv, TypeOK

-------------------------------------------------------------------------------
(***************************************************************************)
(* Each statement adds what the next point expects.                        *)
(***************************************************************************)

\* Outside of a record, and on the way to its scope check, nothing is expected.
LEMMA ProgressOutside ==
    ASSUME NEW p \in Proc, pc'[p] \notin Placed
    PROVE  ProgressOK(p)'
BY DEF ProgressOK, Placed, Written

\* Up to the search for the observation, its region and matchup.
LEMMA ProgressPlaced ==
    ASSUME IInv, TablesGrow, NEW p \in Proc, ProgressOK(p), Current(p)' = Current(p),
           \/ UpsertMatchup(p) \/ UpsertCandidate(p) \/ ReportProfile(p) \/ UpsertArticle(p)
    PROVE  ProgressOK(p)'
<1>1. pc'[p] \in {"candidate", "profile", "article", "find"}
  BY DEF UpsertMatchup, UpsertCandidate, ReportProfile, UpsertArticle, ToCandidate, Goto,
     IInv, TypeOK
<1>2. PlaceOK(p)'
  <2>1. CASE UpsertMatchup(p)
    BY <2>1 DEF UpsertMatchup, UpsertRef, RegionStored, PlaceOK
  <2>2. CASE UpsertCandidate(p) \/ ReportProfile(p) \/ UpsertArticle(p)
    <3>1. pc[p] \in Placed
      BY <2>2 DEF UpsertCandidate, ReportProfile, UpsertArticle, Placed
    <3>. QED BY <3>1, PlaceStill DEF ProgressOK
  <2>. QED BY <2>1, <2>2
<1>. QED BY <1>1, <1>2 DEF ProgressOK, Written

\* The row the search returns is that of the poll.
LEMMA ProgressFound ==
    ASSUME IInv, RowsOK, TablesGrow, NEW p \in Proc, ProgressOK(p),
           Current(p)' = Current(p), FindByFingerprint(p)
    PROVE  ProgressOK(p)'
<1>. DEFINE id == NewestWithFingerprint(obs, Fingerprint(Current(p).poll))
            seen == IF id = 0 THEN <<>> ELSE <<obs[id]>>
<1>1. \/ pc'[p] = "handler"
      \/ pc'[p] = "write" /\ ctx' = [ctx EXCEPT ![p].seen = seen]
  BY DEF FindByFingerprint, Goto, IInv, TypeOK
<1>2. PlaceOK(p)'
  BY PlaceStill DEF ProgressOK, FindByFingerprint, Placed
<1>3. CASE pc'[p] = "handler"
  BY <1>3, ProgressOutside DEF Placed
<1>4. CASE pc'[p] = "write" /\ ctx' = [ctx EXCEPT ![p].seen = seen]
  <2>1. id # 0 => id \in DOMAIN obs /\ obs[id].fp = Fingerprint(Current(p).poll)
    BY NewestType DEF IInv, TypeOK, RowsWithFingerprint
  <2>2. UNCHANGED <<obs, refs>>
    BY DEF FindByFingerprint, tables
  <2>. HIDE DEF id
  <2>3. ctx'[p].seen = seen
    BY <1>4 DEF IInv, TypeOK, Context
  <2>4. seen # <<>> => id # 0 /\ seen[1] = obs[id]
    OBVIOUS
  <2>5. FoundOK(p)'
    BY <2>1, <2>2, <2>3, <2>4 DEF FoundOK, RowsOK
  <2>. QED BY <1>2, <1>4, <2>5 DEF ProgressOK, Written
<1>. QED BY <1>1, <1>3, <1>4

\* The upsert stores the record under its key or its fingerprint: a row found
\* before is the one with its key now, and has kept its fingerprint.
LEMMA ProgressWritten ==
    ASSUME IInv, RowsOK, TablesGrow, NEW p \in Proc, ProgressOK(p),
           Current(p)' = Current(p), WriteObservation(p)
    PROVE  ProgressOK(p)'
<1>1. PICK r \in IngestRecord : r = Current(p)
  BY CurrentType DEF WriteObservation, RecordPoint, Point
<1>2. PICK seen \in Seq(ObservationRow) : seen = ctx[p].seen
  BY DEF IInv, TypeOK, Context
<1>3. PICK row : row = RowToWrite(seen, RowOf(r, job[p].run))
  OBVIOUS
<1>4. PICK id : id = UpsertId(obs, row)
  OBVIOUS
<1>5. job[p].run \in Nat /\ obs \in Seq(ObservationRow) /\ ctx[p] \in Context
  BY DEF IInv, TypeOK, Job
<1>6. /\ obs' = Upserted(obs, row)
      /\ ctx' = [ctx EXCEPT ![p].oid = id, ![p].todo = r.options]
      /\ pc'[p] \in {"fetch", "incomplete", "option", "note", "stored"}
      /\ pc'[p] \in {"note", "stored"} => r.options = {}
  BY <1>1, <1>2, <1>3, <1>4 DEF WriteObservation, Goto, ToIncomplete, ToOption, ToNote,
     IInv, TypeOK
<1>7. PlaceOK(p)' /\ FoundOK(p)
  BY PlaceStill DEF ProgressOK, WriteObservation, Placed
<1>8. /\ row \in ObservationRow /\ r.source \in row.channels
      /\ seen = <<>> => row.key = r.key
      /\ seen # <<>> => row.key = seen[1].key
  BY <1>3, <1>5, WrittenRow
<1>9. /\ id \in DOMAIN obs'
      /\ obs'[id].key = row.key
      /\ row.channels \subseteq obs'[id].channels
      /\ \A i \in DOMAIN obs : obs[i].key = row.key => i = id
  BY <1>4, <1>5, <1>6, <1>8, UpsertedRow DEF RowsOK
<1>10. obs'[id].key = r.key \/ obs'[id].fp = Fingerprint(r.poll)
  <2>1. CASE seen = <<>>
    BY <1>8, <1>9, <2>1
  <2>2. CASE seen # <<>>
    <3>1. PICK i \in DOMAIN obs : obs[i].key = row.key /\ obs[i].fp = Fingerprint(r.poll)
      BY <1>1, <1>2, <1>7, <1>8, <2>2 DEF FoundOK
    <3>2. i = id
      BY <1>9, <3>1
    <3>. QED BY <3>1, <3>2 DEF TablesGrow
  <2>. QED BY <2>1, <2>2
<1>11. ctx'[p].oid = id /\ ctx'[p].todo = r.options
  BY <1>5, <1>6 DEF IInv, TypeOK, Context
<1>12. WrittenOK(p)'
  BY <1>1, <1>6, <1>8, <1>9, <1>10, <1>11 DEF WrittenOK, Holds
<1>. QED BY <1>6, <1>7, <1>12 DEF ProgressOK

\* The option statements: what remains to be stored shrinks as it is stored.
LEMMA ProgressOptions ==
    ASSUME IInv, TablesGrow, NEW p \in Proc, ProgressOK(p), Current(p)' = Current(p),
           \/ FetchDefaults(p) \/ DeleteDefaults(p) \/ ReportIncomplete(p)
           \/ UpsertOption(p) \/ ReportNote(p)
    PROVE  ProgressOK(p)'
<1>1. pc[p] \in Placed /\ pc[p] \in Written
  BY DEF FetchDefaults, DeleteDefaults, ReportIncomplete, UpsertOption, ReportNote,
     Placed, Written
<1>2. PlaceOK(p)' /\ WrittenOK(p)
  BY <1>1, PlaceStill DEF ProgressOK
<1>3. pc'[p] \in {"cleanup", "incomplete", "option", "note", "stored"}
  BY DEF FetchDefaults, DeleteDefaults, ReportIncomplete, UpsertOption, ReportNote, Goto,
     ToIncomplete, ToOption, ToNote, IInv, TypeOK
<1>4. PICK c \in Context : c = ctx[p]
  BY DEF IInv, TypeOK
<1>5. CASE FetchDefaults(p)
  <2>1. PICK names, todo : /\ todo = Backfilled(c.todo, names)
                           /\ ctx' = [ctx EXCEPT ![p].prior = names, ![p].todo = todo]
    BY <1>4, <1>5 DEF FetchDefaults
  <2>2. c.todo \subseteq todo
    BY <2>1 DEF Backfilled
  <2>3. ctx'[p].oid = c.oid /\ ctx'[p].todo = todo
    <3>1. PICK d : d = [c EXCEPT !.prior = names, !.todo = todo]
      OBVIOUS
    <3>2. ctx' = [ctx EXCEPT ![p] = d]
      BY <1>4, <2>1, <3>1
    <3>3. d.oid = c.oid /\ d.todo = todo
      BY <3>1 DEF Context
    <3>. QED BY <3>2, <3>3 DEF IInv, TypeOK
  <2>4. pc'[p] = "cleanup"
    BY <1>5 DEF FetchDefaults, Goto, IInv, TypeOK
  <2>5. WrittenOK(p)'
    BY <1>2, <1>4, <2>2, <2>3, <2>4, WrittenStill
  <2>. QED BY <1>2, <1>3, <2>5 DEF ProgressOK
<1>6. CASE DeleteDefaults(p) \/ ReportIncomplete(p)
  <2>1. ctx' = ctx /\ (pc'[p] \in {"note", "stored"} => ctx[p].todo = {})
    BY <1>6 DEF DeleteDefaults, ReportIncomplete, Goto, ToIncomplete, ToOption, IInv, TypeOK
  <2>2. WrittenOK(p)'
    BY <1>2, <2>1, WrittenStill
  <2>. QED BY <1>2, <1>3, <2>2 DEF ProgressOK
<1>7. CASE UpsertOption(p)
  <2>1. PICK o \in c.todo :
          /\ options' = options \cup {[oid |-> c.oid, option |-> o]}
          /\ ctx' = [ctx EXCEPT ![p].todo = @ \ {o}]
          /\ pc'[p] \in {"note", "stored"} => c.todo \ {o} = {}
    BY <1>4, <1>7 DEF UpsertOption, Goto, ToOption, IInv, TypeOK
  <2>2. ctx'[p].oid = c.oid /\ ctx'[p].todo = c.todo \ {o}
    BY <1>4, <2>1 DEF IInv, TypeOK, Context
  <2>3. PICK r : r = Current(p) /\ r = Current(p)'
    OBVIOUS
  <2>4. c.oid \in DOMAIN obs' /\ Holds(c.oid, r)'
    BY <1>2, <1>4, <2>3, HoldsStill DEF WrittenOK
  <2>5. \A x \in r.options :
            \/ IsDefaultCandidate(x) \/ x \in c.todo \ {o}
            \/ [oid |-> c.oid, option |-> x] \in options'
    BY <1>2, <1>4, <2>1, <2>3 DEF WrittenOK
  <2>6. WrittenOK(p)'
    BY <2>1, <2>2, <2>3, <2>4, <2>5 DEF WrittenOK, Holds
  <2>. QED BY <1>2, <1>3, <2>6 DEF ProgressOK
<1>8. CASE ReportNote(p)
  <2>1. ctx' = [ctx EXCEPT ![p].cursor = @ + 1] /\ pc[p] = "note"
    BY <1>8 DEF ReportNote
  <2>2. ctx'[p].oid = c.oid /\ ctx'[p].todo = c.todo /\ c.todo = {}
    BY <1>2, <1>4, <2>1 DEF WrittenOK, IInv, TypeOK, Context
  <2>3. WrittenOK(p)'
    BY <1>2, <1>4, <2>2, WrittenStill
  <2>. QED BY <1>2, <1>3, <2>3 DEF ProgressOK
<1>. QED BY <1>5, <1>6, <1>7, <1>8

LEMMA ProgressNext ==
    ASSUME AInv, RowsOK, \A p \in Proc : ProgressOK(p), [Next]_vars, NEW q \in Proc
    PROVE  ProgressOK(q)'
<1>1. IInv /\ TablesGrow
  BY StepsGrow DEF AInv
<1>2. CASE UNCHANGED vars
  <2>1. Current(q)' = Current(q) /\ pc'[q] = pc[q] /\ ctx'[q] = ctx[q]
    BY <1>2 DEF vars, Current
  <2>. QED BY <1>1, <2>1, ProgressStill
<1>3. ASSUME NEW p \in Proc, CreateRun(p) \/ Step(p) \/ Crash(p), q # p
      PROVE  ProgressOK(q)'
  <2>1. pc'[q] = pc[q] /\ job'[q] = job[q] /\ ctx'[q] = ctx[q]
    BY <1>1, <1>3, OthersStay
  <2>2. Current(q)' = Current(q)
    BY <2>1 DEF Current
  <2>. QED BY <1>1, <2>1, <2>2, ProgressStill
<1>4. ASSUME CreateRun(q) \/ Ends(q) \/ FinishRun(q) \/ Leaves(q) \/ Raise(q) \/ UpsertRegion(q)
      PROVE  ProgressOK(q)'
  <2>1. CASE CreateRun(q)
    <3>1. \E payload : pc'[q] = Entry(payload, 1)
      BY <1>1, <2>1 DEF CreateRun, Goto, IInv, TypeOK
    <3>. QED BY <3>1, ProgressOutside DEF Entry, Placed
  <2>2. CASE Ends(q)
    <3>1. pc'[q] = Entry(job[q].payload, job[q].at + 1)
      BY <1>1, <2>2 DEF Ends, EndRecord, Goto, IInv, TypeOK
    <3>. QED BY <3>1, ProgressOutside DEF Entry, Placed
  <2>3. CASE FinishRun(q) \/ Leaves(q) \/ Raise(q) \/ UpsertRegion(q)
    <3>1. pc'[q] \in {"counters", "idle", "handler", "scope"}
      BY <1>1, <2>3 DEF FinishRun, Leaves, Leave, Raise, UpsertRegion, Goto, IInv, TypeOK
    <3>. QED BY <3>1, ProgressOutside DEF Placed
  <2>. QED BY <1>4, <2>1, <2>2, <2>3
<1>5. ASSUME Step(q) \/ Crash(q), Moves(q), ~(Raise(q) \/ UpsertRegion(q))
      PROVE  ProgressOK(q)'
  <2>1. Current(q)' = Current(q)
    BY <1>5 DEF Moves, Current
  <2>2. pc[q] # "idle" /\ pc[q] # "finish" /\ pc[q] # "counters"
    BY <1>5 DEF Moves, RecordPoint
  <2>3. pc'[q] # "idle"
    BY <1>1, <1>5 DEF Moves, Goto, RecordPoint, IInv, TypeOK
  <2>4. \/ UpsertMatchup(q) \/ UpsertCandidate(q) \/ ReportProfile(q) \/ UpsertArticle(q)
        \/ FindByFingerprint(q) \/ WriteObservation(q)
        \/ FetchDefaults(q) \/ DeleteDefaults(q) \/ ReportIncomplete(q)
        \/ UpsertOption(q) \/ ReportNote(q)
        \/ RejectStale(q) \/ RejectScope(q) \/ RecordStored(q) \/ HandleException(q)
    <3>1. ~(FinishRun(q) \/ UpdateCounters(q) \/ AbandonRun(q))
      BY <2>2 DEF FinishRun, UpdateCounters, AbandonRun
    <3>2. ~Crash(q)
      BY <1>1, <2>3 DEF Crash, Leave, Goto, IInv, TypeOK
    <3>. QED BY <1>5, <3>1, <3>2 DEF Step
  <2>5. CASE RejectStale(q) \/ RejectScope(q) \/ RecordStored(q) \/ HandleException(q)
    <3>1. pc'[q] = Entry(job[q].payload, job[q].at + 1)
      BY <1>1, <2>5 DEF RejectStale, RejectScope, RecordStored, HandleException, EndRecord,
         Goto, IInv, TypeOK
    <3>. QED BY <3>1, ProgressOutside DEF Entry, Placed
  <2>. QED BY <1>1, <2>1, <2>4, <2>5, ProgressPlaced, ProgressFound, ProgressWritten,
              ProgressOptions
<1>6. ASSUME Step(q) \/ Crash(q)
      PROVE  ProgressOK(q)'
  BY <1>1, <1>4, <1>5, <1>6, ActionKinds
<1>. QED BY <1>2, <1>3, <1>4, <1>6 DEF Next

-------------------------------------------------------------------------------
(***************************************************************************)
(* Stored records.                                                         *)
(***************************************************************************)
LEMMA RepresentedStill ==
    ASSUME TablesGrow, RowsOK', NEW r, Represented(r)
    PROVE  Represented(r)'
<1>1. PICK o \in DOMAIN obs :
        /\ Holds(o, r)
        /\ <<"region", r.region>> \in refs
        /\ \A x \in r.options :
              IsDefaultCandidate(x) \/ [oid |-> o, option |-> x] \in options
  BY DEF Represented, Holds
<1>2. o \in DOMAIN obs' /\ Holds(o, r)'
  BY <1>1, HoldsStill
<1>3. <<"region", r.region>> \in refs' /\ <<"matchup", obs'[o].matchup>> \in refs'
  BY <1>1, <1>2 DEF TablesGrow, RowsOK
<1>4. \A x \in r.options : IsDefaultCandidate(x) \/ [oid |-> o, option |-> x] \in options'
  BY <1>1, OptionStill
<1>. QED BY <1>2, <1>3, <1>4 DEF Represented, Holds

\* At the end of its iteration all of a record is in the tables.
LEMMA StoredRepresented ==
    ASSUME RowsOK, NEW p \in Proc, ProgressOK(p), pc[p] = "stored"
    PROVE  Represented(Current(p))
<1>1. PlaceOK(p) /\ WrittenOK(p) /\ ctx[p].todo = {}
  BY DEF ProgressOK, Placed, Written, WrittenOK
<1>. QED BY <1>1 DEF PlaceOK, WrittenOK, Holds, RowsOK, Represented

LEMMA ProcessedNext ==
    ASSUME AInv, RowsOK, RowsOK', \A p \in Proc : ProgressOK(p),
           ProcessedRecordsAreStored, [Next]_vars
    PROVE  ProcessedRecordsAreStored'
<1>. SUFFICES ASSUME NEW i \in DOMAIN log', NEW k \in DOMAIN log'[i].outcomes,
                     log'[i].outcomes[k] = "stored",
                     NEW r, r = log'[i].payload[k]
              PROVE  Represented(r)'
  BY DEF ProcessedRecordsAreStored, Represented
<1>1. TablesGrow
  BY StepsGrow DEF AInv
<1>2. ASSUME NEW p \in Proc, Added(i, k, p)
      PROVE  Represented(r)
  BY <1>2, StoredRepresented DEF Added, Closes, RecordStored
<1>3. Represented(r)
  <2>1. Kept(i, k) => Represented(r)
    BY DEF Kept, ProcessedRecordsAreStored
  <2>. QED BY <1>2, <2>1, LogGrows
<1>. QED BY <1>1, <1>3, RepresentedStill

-------------------------------------------------------------------------------
(***************************************************************************)
(* The theorems.                                                           *)
(***************************************************************************)
LEMMA StoredInit == Init => SInv
<1>. SUFFICES ASSUME Init PROVE SInv
  OBVIOUS
<1>1. IInv
  BY InvInit
<1>2. RunsOK /\ RunAccountsForItsRecords
  BY DEF Init, RunsOK, RunAccountsForItsRecords, RecordPoint, Point
<1>3. OutcomesOK /\ RowsOK /\ ProcessedRecordsAreStored /\ RejectedRecordsAreReported
  BY DEF Init, OutcomesOK, RowsOK, ProcessedRecordsAreStored, RejectedRecordsAreReported
<1>4. \A p \in Proc : ProgressOK(p)
  BY DEF Init, ProgressOK, Placed, Written
<1>. QED BY <1>1, <1>2, <1>3, <1>4 DEF SInv, AInv

LEMMA StoredStep == ASSUME SInv, [Next]_vars PROVE SInv'
<1>1. AInv' /\ RowsOK'
  BY AccountsNext, RowsNext DEF SInv, AInv
<1>2. OutcomesOK' /\ RejectedRecordsAreReported'
  BY OutcomesNext, RejectedNext DEF SInv
<1>3. ProcessedRecordsAreStored'
  BY <1>1, ProcessedNext DEF SInv
<1>4. \A p \in Proc : ProgressOK(p)'
  BY ProgressNext DEF SInv
<1>. QED BY <1>1, <1>2, <1>3, <1>4 DEF SInv

LEMMA StoredInvariance == Spec => []SInv
<1>1. SInv /\ [Next]_vars => SInv'
  BY StoredStep
<1>. QED BY <1>1, StoredInit, PTL DEF Spec

\* A record a run counts as processed is in the tables, all of it that no later
\* record may replace (the processed_count of ingest_payload), whatever else
\* reads and writes between its statements.
THEOREM StoredTheorem == Spec => []ProcessedRecordsAreStored
<1>1. SInv => ProcessedRecordsAreStored
  BY DEF SInv
<1>. QED BY <1>1, StoredInvariance, PTL

\* A record a run turned away has its review row, unless the insert of that row
\* failed and was swallowed (the except branches of ingest_payload).
THEOREM RejectedTheorem == Spec => []RejectedRecordsAreReported
<1>1. SInv => RejectedRecordsAreReported
  BY DEF SInv
<1>. QED BY <1>1, StoredInvariance, PTL
===============================================================================
