-------------------------------- MODULE Ingest --------------------------------
(***************************************************************************)
(* ingest_payload (app/services/ingest_service.py) run by several server   *)
(* or command-line processes over one database. Every repository method    *)
(* commits before it returns, so an action here is one committed statement *)
(* of one process together with the local computation up to the next one.  *)
(*                                                                         *)
(* A statement may fail; psycopg then rejects every later statement of the *)
(* same connection until rollback(), which only the record loop's except   *)
(* branch calls. A process may also die between two statements.            *)
(***************************************************************************)
EXTENDS PollStore, ScenarioOptions, FiniteSets

CONSTANTS Proc,        \* processes able to ingest: API servers, CLI jobs
          Region,      \* region_code values
          Article,     \* article urls
          Candidate,   \* candidate_id values
          Payloads,    \* request bodies, each a sequence of records
          Faulty,      \* the program points at which a statement may fail
          MaxRuns, MaxFaults, MaxCrashes     \* bounds of the model

ErrorIssue == {"ingestion_error", "DUPLICATE_CONFLICT"}
NoteIssue == {"extract_error", "party_inference_low_confidence", "mapping_error"}
Issue == ErrorIssue \cup NoteIssue \cup {"scenario_parse_incomplete"}

\* date_inference_mode, "low_confidence" standing for a date_inference_confidence
\* below 0.8 in any other mode.
DateMode == {"exact", "estimated_timestamp", "strict_fail_blocked", "low_confidence"}

(***************************************************************************)
(* A record of a payload, after the functions that rewrite the record      *)
(* alone: the scope hard guard, the survey-name correction, option         *)
(* normalisation and scenario repair. scope is the verdict of              *)
(* _resolve_observation_scope (its low_confidence outcome never occurs:    *)
(* see ScopeRules); gap says that a candidate's profile needs a manual     *)
(* review; notes are the issue types of the option reviews that end the    *)
(* record.                                                                 *)
(***************************************************************************)
IngestRecord ==
    [key : Key, poll : Poll, office : Office, matchup : Matchup,
     region : Region, carriesRegion : BOOLEAN, article : Article,
     source : Source, verified : BOOLEAN, grade : Grade,
     staleSurvey : BOOLEAN, staleArticle : BOOLEAN,
     scope : {"ok", "hard_fail"},
     date : DateMode,
     candidates : Seq([id : Candidate, gap : BOOLEAN]),
     options : SUBSET Option, incomplete : BOOLEAN,
     notes : Seq(NoteIssue)]

Point == {"idle", "stale", "region", "scope", "candidate",
          "profile", "article", "find", "write", "fetch", "cleanup",
          "incomplete", "option", "note", "stored", "handler", "finish",
          "counters"}

\* Points whose statement failure reaches the record loop's except branch.
Raising == {"region", "scope", "candidate", "article", "find", "write",
            "fetch", "cleanup", "option"}

ASSUME PayloadsType == Payloads \subseteq Seq(IngestRecord)
ASSUME BoundsType == MaxRuns \in Nat /\ MaxFaults \in Nat /\ MaxCrashes \in Nat
ASSUME FaultyType == Faulty \subseteq Point

VARIABLES
    pc,       \* the statement each process is about to send
    txn,      \* whether its connection accepts statements
    job,      \* the locals of ingest_payload
    ctx,      \* the locals of one record's iteration
    runs,     \* table ingestion_runs
    refs,     \* tables regions, matchups, candidates, articles
    obs,      \* table poll_observations, by id
    options,  \* table poll_options
    review,   \* table review_queue: rows per entity and issue type
    log,      \* history: what each run was given and what became of it
    faults, crashes

tables == <<runs, refs, obs, options, review>>
vars == <<pc, txn, job, ctx, tables, log, faults, crashes>>

Entity == Key \cup Candidate

RefRow == ({"region"} \X Region) \cup ({"matchup"} \X Matchup)
          \cup ({"candidate"} \X Candidate) \cup ({"article"} \X Article)

Idle == [run |-> 0, payload |-> <<>>, at |-> 0, processed |-> 0, errors |-> 0,
         estimated |-> 0, failed |-> 0, marked |-> {}]

Fresh == [cursor |-> 1, seen |-> <<>>, oid |-> 0, prior |-> {}, todo |-> {},
          issue |-> "ingestion_error"]

-------------------------------------------------------------------------------
(***************************************************************************)
(* What a record asks for.                                                 *)
(***************************************************************************)

\* The record process p is working on.
Current(p) == job[p].payload[job[p].at]

\* survey_end_date_cutoff_reason / published_at_cutoff_reason: the article
\* cutoff applies to records with an article source only.
Outdated(r) == r.staleSurvey \/ (r.source = "article" /\ r.staleArticle)

DateUncertain(r) == r.date # "exact"

\* The reviews that close a stored record, in order.
ClosingNotes(r) ==
    (IF DateUncertain(r) THEN <<"extract_error">> ELSE <<>>) \o r.notes

RowOf(r, runId) ==
    [key |-> r.key, fp |-> Fingerprint(r.poll), poll |-> r.poll,
     office |-> r.office, matchup |-> r.matchup,
     meta |-> r.source, context |-> r.source,
     source |-> r.source, channels |-> {r.source},
     verified |-> r.verified, grade |-> r.grade, run |-> runId]

\* Mutated: the row found is not merged with.
RowToWrite_Unmerged(seen, row) == row

\* The row upsert_poll_observation writes, given what its SELECT returned.
RowToWrite(seen, row) == IF seen = <<>> THEN row ELSE Merged(seen[1], row)

-------------------------------------------------------------------------------
(***************************************************************************)
(* Where control goes next.                                                *)
(***************************************************************************)
Entry(payload, i) ==
    IF i > Len(payload) THEN "finish"
    ELSE IF Outdated(payload[i]) THEN "stale"
    ELSE IF payload[i].carriesRegion THEN "region" ELSE "scope"

ToCandidate(r, k) == IF k <= Len(r.candidates) THEN "candidate" ELSE "article"

ToNote(r, k) == IF k <= Len(ClosingNotes(r)) THEN "note" ELSE "stored"

ToOption(r, todo) == IF todo # {} THEN "option" ELSE ToNote(r, 1)

ToIncomplete(r, todo) == IF r.incomplete THEN "incomplete" ELSE ToOption(r, todo)

Goto(p, point) == pc' = [pc EXCEPT ![p] = point]

-------------------------------------------------------------------------------
(***************************************************************************)
(* Statements and transactions.                                            *)
(***************************************************************************)

\* The statement process p is about to send succeeds and commits.
Commits(p) == txn[p] = "clean" /\ UNCHANGED <<txn, faults>>

\* It fails: the connection is in a failed transaction already, or the
\* server refuses this one, which puts the connection in that state.
Fails(p) ==
    /\ \/ txn[p] = "aborted" /\ UNCHANGED faults
       \/ /\ txn[p] = "clean"
          /\ pc[p] \in Faulty
          /\ faults < MaxFaults
          /\ faults' = faults + 1
    /\ txn' = [txn EXCEPT ![p] = "aborted"]

\* insert_review_queue within its own try/except: a failure is swallowed and
\* leaves the connection as it is.
InsertReview(p, entity, issue) ==
    \/ /\ Commits(p)
       /\ review' = [review EXCEPT ![<<entity, issue>>] = @ + 1]
    \/ Fails(p) /\ UNCHANGED review

-------------------------------------------------------------------------------
Init ==
    /\ pc = [p \in Proc |-> "idle"]
    /\ txn = [p \in Proc |-> "clean"]
    /\ job = [p \in Proc |-> Idle]
    /\ ctx = [p \in Proc |-> Fresh]
    /\ runs = <<>>
    /\ refs = {}
    /\ obs = <<>>
    /\ options = {}
    /\ review = [x \in Entity \X Issue |-> 0]
    /\ log = <<>>
    /\ faults = 0
    /\ crashes = 0

\* create_ingestion_run, on a new connection.
CreateRun(p) ==
    /\ pc[p] = "idle"
    /\ Len(runs) < MaxRuns
    /\ \E payload \in Payloads :
        /\ runs' = Append(runs, [status |-> "running", processed |-> 0, errors |-> 0,
                                 estimated |-> 0, failed |-> 0])
        /\ log' = Append(log, [payload |-> payload, outcomes |-> <<>>, lost |-> {}])
        /\ job' = [job EXCEPT ![p] = [Idle EXCEPT !.run = Len(runs) + 1,
                                                  !.payload = payload, !.at = 1]]
        /\ Goto(p, Entry(payload, 1))
    /\ UNCHANGED <<txn, ctx, refs, obs, options, review, faults, crashes>>

\* The record's iteration is over; the loop goes on with the next record.
EndRecord(p, outcome) ==
    /\ job' = [job EXCEPT ![p].at = @ + 1,
                          ![p].processed = IF outcome = "stored" THEN @ + 1 ELSE @,
                          ![p].errors = IF outcome = "stored" THEN @ ELSE @ + 1]
    /\ ctx' = [ctx EXCEPT ![p] = Fresh]
    /\ Goto(p, Entry(job[p].payload, job[p].at + 1))
    /\ log' = [log EXCEPT ![job[p].run].outcomes = Append(@, outcome),
                          ![job[p].run].lost =
                              IF outcome = "rejected" /\ txn'[p] = "aborted"
                              THEN @ \cup {job[p].at} ELSE @]

\* Mutated: `continue` before the review insert.
RejectStale_Silent(p) ==
    /\ pc[p] = "stale"
    /\ UNCHANGED <<txn, tables, faults, crashes>>
    /\ EndRecord(p, "rejected")

\* survey_end_date or published_at before the cutoff: counted, reported, skipped.
RejectStale(p) ==
    /\ pc[p] = "stale"
    /\ InsertReview(p, Current(p).key, "ingestion_error")
    /\ EndRecord(p, "rejected")
    /\ UNCHANGED <<runs, refs, obs, options, crashes>>

UpsertRef(p, kind, id) ==
    /\ Commits(p)
    /\ refs' = refs \cup {<<kind, id>>}
    /\ UNCHANGED <<runs, obs, options, review, log, crashes>>

UpsertRegion(p) ==
    /\ pc[p] = "region"
    /\ UpsertRef(p, "region", Current(p).region)
    /\ Goto(p, "scope")
    /\ UNCHANGED <<job, ctx>>

\* _resolve_observation_scope found the declared scope contradicted.
RejectScope(p) ==
    /\ pc[p] = "scope"
    /\ Current(p).scope = "hard_fail"
    /\ InsertReview(p, Current(p).key, "mapping_error")
    /\ EndRecord(p, "rejected")
    /\ UNCHANGED <<runs, refs, obs, options, crashes>>

RegionStored(p) == <<"region", Current(p).region>> \in refs

UpsertMatchup(p) ==
    /\ pc[p] = "scope"
    /\ Current(p).scope # "hard_fail"
    /\ RegionStored(p)
    /\ UpsertRef(p, "matchup", Current(p).matchup)
    /\ Goto(p, ToCandidate(Current(p), 1))
    /\ UNCHANGED <<job, ctx>>

UpsertCandidate(p) ==
    /\ pc[p] = "candidate"
    /\ LET r == Current(p)
           c == r.candidates[ctx[p].cursor]
       IN  /\ UpsertRef(p, "candidate", c.id)
           /\ ctx' = [ctx EXCEPT ![p].cursor = @ + 1]
           /\ Goto(p, IF c.gap /\ c.id \notin job[p].marked
                      THEN "profile" ELSE ToCandidate(r, ctx[p].cursor + 1))
    /\ UNCHANGED job

\* candidate_profile_review_marked grows only when the insert succeeded.
ReportProfile(p) ==
    /\ pc[p] = "profile"
    /\ LET c == Current(p).candidates[ctx[p].cursor - 1]
       IN  /\ InsertReview(p, c.id, "mapping_error")
           /\ job' = IF txn'[p] = "clean"
                     THEN [job EXCEPT ![p].marked = @ \cup {c.id}] ELSE job
    /\ Goto(p, ToCandidate(Current(p), ctx[p].cursor))
    /\ UNCHANGED <<ctx, runs, refs, obs, options, log, crashes>>

\* upsert_article, and the date inference counters bumped right after it.
UpsertArticle(p) ==
    /\ pc[p] = "article"
    /\ UpsertRef(p, "article", Current(p).article)
    /\ job' = [job EXCEPT
                 ![p].estimated = IF Current(p).date = "estimated_timestamp" THEN @ + 1 ELSE @,
                 ![p].failed = IF Current(p).date = "strict_fail_blocked" THEN @ + 1 ELSE @]
    /\ Goto(p, "find")
    /\ UNCHANGED ctx

\* The SELECT of upsert_poll_observation, and the merge of what it returned.
FindByFingerprint(p) ==
    /\ pc[p] = "find"
    /\ Commits(p)
    /\ LET r == Current(p)
           id == NewestWithFingerprint(obs, Fingerprint(r.poll))
           seen == IF id = 0 THEN <<>> ELSE <<obs[id]>>
       IN  IF seen # <<>> /\ CoreConflict(seen[1], RowOf(r, job[p].run))
           THEN /\ Goto(p, "handler")
                /\ ctx' = [ctx EXCEPT ![p].issue = "DUPLICATE_CONFLICT"]
           ELSE /\ Goto(p, "write")
                /\ ctx' = [ctx EXCEPT ![p].seen = seen]
    /\ UNCHANGED <<job, tables, log, crashes>>

\* The INSERT ... ON CONFLICT of upsert_poll_observation.
WriteObservation(p) ==
    /\ pc[p] = "write"
    /\ Commits(p)
    /\ LET r == Current(p)
           row == RowToWrite(ctx[p].seen, RowOf(r, job[p].run))
       IN  /\ obs' = Upserted(obs, row)
           /\ ctx' = [ctx EXCEPT ![p].oid = UpsertId(obs, row), ![p].todo = r.options]
           /\ Goto(p, IF HasExplicitScenarios(r.options)
                      THEN "fetch" ELSE ToIncomplete(r, r.options))
    /\ UNCHANGED <<job, runs, refs, options, review, log, crashes>>

StoredDefaults(oid) ==
    {x \in options : x.oid = oid /\ IsDefaultCandidate(x.option)}

\* fetch_candidate_default_poll_options, and the backfill from its rows.
FetchDefaults(p) ==
    /\ pc[p] = "fetch"
    /\ Commits(p)
    /\ LET names == {x.option.name : x \in StoredDefaults(ctx[p].oid)}
       IN  ctx' = [ctx EXCEPT ![p].prior = names,
                              ![p].todo = Backfilled(@, names)]
    /\ Goto(p, "cleanup")
    /\ UNCHANGED <<job, tables, log, crashes>>

\* delete_candidate_default_poll_options: commits before a replacement exists.
DeleteDefaults(p) ==
    /\ pc[p] = "cleanup"
    /\ Commits(p)
    /\ options' = options \ StoredDefaults(ctx[p].oid)
    /\ Goto(p, ToIncomplete(Current(p), ctx[p].todo))
    /\ UNCHANGED <<job, ctx, runs, refs, obs, review, log, crashes>>

ReportIncomplete(p) ==
    /\ pc[p] = "incomplete"
    /\ InsertReview(p, Current(p).key, "scenario_parse_incomplete")
    /\ Goto(p, ToOption(Current(p), ctx[p].todo))
    /\ UNCHANGED <<job, ctx, runs, refs, obs, options, log, crashes>>

UpsertOption(p) ==
    /\ pc[p] = "option"
    /\ Commits(p)
    /\ \E o \in ctx[p].todo :
        /\ options' = options \cup {[oid |-> ctx[p].oid, option |-> o]}
        /\ ctx' = [ctx EXCEPT ![p].todo = @ \ {o}]
        /\ Goto(p, ToOption(Current(p), ctx[p].todo \ {o}))
    /\ UNCHANGED <<job, runs, refs, obs, review, log, crashes>>

ReportNote(p) ==
    /\ pc[p] = "note"
    /\ LET k == ctx[p].cursor - Len(Current(p).candidates)
       IN  /\ InsertReview(p, Current(p).key, ClosingNotes(Current(p))[k])
           /\ Goto(p, ToNote(Current(p), k + 1))
    /\ ctx' = [ctx EXCEPT ![p].cursor = @ + 1]
    /\ UNCHANGED <<job, runs, refs, obs, options, log, crashes>>

RecordStored(p) ==
    /\ pc[p] = "stored"
    /\ EndRecord(p, "stored")
    /\ UNCHANGED <<txn, tables, faults, crashes>>

\* A statement of the record's try block fails.
Raise(p) ==
    /\ \/ /\ pc[p] \in Raising
          /\ ~(pc[p] = "scope" /\ Current(p).scope = "hard_fail")
          /\ Fails(p)
       \/ /\ pc[p] = "scope"
          /\ Current(p).scope # "hard_fail"
          /\ txn[p] = "clean" /\ ~RegionStored(p)   \* foreign key on region_code
          /\ txn' = [txn EXCEPT ![p] = "aborted"]
          /\ UNCHANGED faults
    /\ Goto(p, "handler")
    /\ UNCHANGED <<job, ctx, tables, log, crashes>>

\* Mutated: the record is tried again at once.
HandleException_Retry(p) ==
    /\ pc[p] = "handler"
    /\ txn' = [txn EXCEPT ![p] = "clean"]
    /\ ctx' = [ctx EXCEPT ![p] = Fresh]
    /\ Goto(p, Entry(job[p].payload, job[p].at))
    /\ UNCHANGED <<job, tables, log, faults, crashes>>

\* The except branch: rollback(), then a review row whose failure is ignored.
HandleException(p) ==
    /\ pc[p] = "handler"
    /\ \/ /\ review' = [review EXCEPT ![<<Current(p).key, ctx[p].issue>>] = @ + 1]
          /\ txn' = [txn EXCEPT ![p] = "clean"]
          /\ UNCHANGED faults
       \/ /\ "handler" \in Faulty /\ faults < MaxFaults
          /\ faults' = faults + 1
          /\ txn' = [txn EXCEPT ![p] = "aborted"]
          /\ UNCHANGED review
    /\ EndRecord(p, "rejected")
    /\ UNCHANGED <<runs, refs, obs, options, crashes>>

\* Mutated: the error count is not looked at.
FinalStatus_Always(errors) == "success"

FinalStatus(errors) == IF errors = 0 THEN "success" ELSE "partial_success"

FinishRun(p) ==
    /\ pc[p] = "finish"
    /\ Commits(p)
    /\ runs' = [runs EXCEPT ![job[p].run].status = FinalStatus(job[p].errors),
                            ![job[p].run].processed = job[p].processed,
                            ![job[p].run].errors = job[p].errors]
    /\ Goto(p, "counters")
    /\ UNCHANGED <<job, ctx, refs, obs, options, review, log, crashes>>

\* The request is over: the connection is closed and the locals are gone.
Leave(p) ==
    /\ Goto(p, "idle")
    /\ txn' = [txn EXCEPT ![p] = "clean"]
    /\ job' = [job EXCEPT ![p] = Idle]
    /\ ctx' = [ctx EXCEPT ![p] = Fresh]

\* update_ingestion_policy_counters, the last statement of the request.
UpdateCounters(p) ==
    /\ pc[p] = "counters"
    /\ txn[p] = "clean"
    /\ runs' = [runs EXCEPT ![job[p].run].estimated = job[p].estimated,
                            ![job[p].run].failed = job[p].failed]
    /\ Leave(p)
    /\ UNCHANGED <<refs, obs, options, review, log, faults, crashes>>

\* A statement after the loop fails: no handler, the request ends with 503.
AbandonRun(p) ==
    /\ pc[p] \in {"finish", "counters"}
    /\ \/ txn[p] = "aborted" /\ UNCHANGED faults
       \/ pc[p] \in Faulty /\ faults < MaxFaults /\ faults' = faults + 1
    /\ Leave(p)
    /\ UNCHANGED <<tables, log, crashes>>

\* The process is killed or loses its connection between two statements.
Crash(p) ==
    /\ pc[p] # "idle"
    /\ crashes < MaxCrashes
    /\ crashes' = crashes + 1
    /\ Leave(p)
    /\ UNCHANGED <<tables, log, faults>>

Step(p) ==
    \/ RejectStale(p) \/ UpsertRegion(p) \/ RejectScope(p) \/ UpsertMatchup(p)
    \/ UpsertCandidate(p) \/ ReportProfile(p)
    \/ UpsertArticle(p) \/ FindByFingerprint(p) \/ WriteObservation(p)
    \/ FetchDefaults(p) \/ DeleteDefaults(p) \/ ReportIncomplete(p)
    \/ UpsertOption(p) \/ ReportNote(p) \/ RecordStored(p)
    \/ Raise(p) \/ HandleException(p)
    \/ FinishRun(p) \/ UpdateCounters(p) \/ AbandonRun(p)

Next == \E p \in Proc : CreateRun(p) \/ Step(p) \/ Crash(p)

Spec == Init /\ [][Next]_vars

FairSpec == Spec /\ \A p \in Proc : WF_vars(Step(p))

-------------------------------------------------------------------------------
(***************************************************************************)
(* Properties.                                                             *)
(***************************************************************************)

Job == [run : Nat, payload : Seq(IngestRecord), at : Nat, processed : Nat,
        errors : Nat, estimated : Nat, failed : Nat, marked : SUBSET Candidate]

Context == [cursor : Nat, seen : Seq(ObservationRow), oid : Nat,
            prior : SUBSET Name, todo : SUBSET Option, issue : ErrorIssue]

Run == [status : {"running", "success", "partial_success"}, processed : Nat,
        errors : Nat, estimated : Nat, failed : Nat]

RunLog == [payload : Seq(IngestRecord), outcomes : Seq({"stored", "rejected"}),
           lost : SUBSET Nat]

\* The types of the tables and of the processes' locals.
TypeOK ==
    /\ pc \in [Proc -> Point]
    /\ txn \in [Proc -> {"clean", "aborted"}]
    /\ job \in [Proc -> Job]
    /\ ctx \in [Proc -> Context]
    /\ runs \in Seq(Run)
    /\ refs \subseteq RefRow
    /\ obs \in Seq(ObservationRow)
    /\ options \subseteq [oid : Nat, option : Option]
    /\ review \in [Entity \X Issue -> Nat]
    /\ log \in Seq(RunLog)
    /\ faults \in Nat
    /\ crashes \in Nat

Finished(i) == runs[i].status \in {"success", "partial_success"}

Count(outcomes, outcome) == Cardinality({k \in DOMAIN outcomes : outcomes[k] = outcome})

\* A run recorded as finished has decided every record of its payload, its
\* counters agree with what became of the records, and it reads success only
\* when no record was turned away, whatever failed, died or ran beside it
\* (the loop's counters and its two UPDATEs of ingestion_runs).
RunAccountsForItsRecords ==
    \A i \in DOMAIN runs : Finished(i) =>
        /\ Len(log[i].outcomes) = Len(log[i].payload)
        /\ runs[i].processed = Count(log[i].outcomes, "stored")
        /\ runs[i].errors = Count(log[i].outcomes, "rejected")
        /\ runs[i].status = "success" => runs[i].errors = 0

\* The observation r was written to, and everything of it that no later
\* record may take away, is in the tables.
Represented(r) ==
    \E o \in DOMAIN obs :
        /\ obs[o].key = r.key \/ obs[o].fp = Fingerprint(r.poll)
        /\ r.source \in obs[o].channels
        /\ <<"region", r.region>> \in refs
        /\ <<"matchup", obs[o].matchup>> \in refs
        /\ \A x \in r.options :
              IsDefaultCandidate(x) \/ [oid |-> o, option |-> x] \in options

\* Every record a run counts as processed is in the database, and stays there
\* through later runs, other processes' runs, faults and crashes: its source is
\* among the channels of an observation with its key or its fingerprint, with
\* all its options except default candidate rows, which an explicit scenario
\* may replace (the processed_count of ingest_payload).
ProcessedRecordsAreStored ==
    \A i \in DOMAIN log : \A k \in DOMAIN log[i].outcomes :
        log[i].outcomes[k] = "stored" => Represented(log[i].payload[k])

\* Every record a run turned away has a row in review_queue under its key,
\* unless the insert of that very row failed and was swallowed.
RejectedRecordsAreReported ==
    \A i \in DOMAIN log : \A k \in DOMAIN log[i].outcomes :
        log[i].outcomes[k] = "rejected" /\ k \notin log[i].lost =>
            \E issue \in ErrorIssue \cup {"mapping_error"} :
                review[<<log[i].payload[k].key, issue>>] > 0

\* One poll, one row: no two observations carry the same fingerprint
\* (find-then-insert in upsert_poll_observation; the table has no constraint).
FingerprintUnique ==
    \A i, j \in DOMAIN obs : obs[i].fp = obs[j].fp => i = j

\* Provenance accumulates: a write never takes a channel from an observation,
\* renames it or changes the fingerprint later records find it by, even when
\* the writer merged with a row that others have overwritten since.
ProvenanceOnlyGrows ==
    [][\A o \in DOMAIN obs :
          /\ o \in DOMAIN obs'
          /\ obs[o].channels \subseteq obs'[o].channels
          /\ obs'[o].key = obs[o].key
          /\ obs'[o].fp = obs[o].fp]_obs

\* A later source of lower quality neither lowers an observation's grade nor
\* takes back its verification (merge_observation_by_priority).
QualityNeverDrops ==
    [][\A o \in DOMAIN obs :
          /\ GradePriority(obs'[o].grade) >= GradePriority(obs[o].grade)
          /\ obs[o].verified => obs'[o].verified]_obs

\* With an NESDC source the meta fields are NESDC's, with an article source
\* the context fields are an article's, whatever the order of arrival, and the
\* single source_channel says nesdc exactly when the channel set does.
SourceRolesRespected ==
    \A o \in DOMAIN obs :
        /\ obs[o].meta = SourceOf(obs[o].channels)
        /\ obs[o].context = (IF "article" \in obs[o].channels THEN "article" ELSE "nesdc")
        /\ obs[o].source = SourceOf(obs[o].channels)

\* When a record with explicit scenarios is stored, its observation has no
\* default candidate row left, and every name those rows had is still there,
\* in the multi-candidate scenario if the record has one.
ExplicitScenariosSupersedeDefaults ==
    \A p \in Proc :
        pc[p] = "stored" /\ HasExplicitScenarios(Current(p).options) =>
            /\ StoredDefaults(ctx[p].oid) = {}
            /\ MultiCandidates(Current(p).options) # {} =>
                  \A n \in ctx[p].prior :
                      [oid |-> ctx[p].oid,
                       option |-> [type |-> "candidate_matchup", name |-> n,
                                   scenario |-> "multi"]] \in options

\* A record that some run has stored adds no row when it is sent again, alone
\* or in another payload: only a record new to the table makes it grow (the
\* retries of the runner resend whole payloads).
StoredRecordsAddNoRow ==
    [][Len(obs') > Len(obs) =>
          \E p \in Proc :
              /\ pc[p] = "write"
              /\ \A i \in DOMAIN log : \A k \in DOMAIN log[i].outcomes :
                    log[i].outcomes[k] = "stored" => log[i].payload[k] # Current(p)]_obs

\* The fingerprint a row is found by is that of the columns it holds
\* (poll_fingerprint is kept by ON CONFLICT, its inputs are overwritten).
StoredFingerprintCurrent ==
    \A o \in DOMAIN obs : obs[o].fp = Fingerprint(obs[o].poll)

\* The loop survives a failing review insert: no run is left 'running' by a
\* process that has gone on to something else.
NoRunAbandoned ==
    \A i \in DOMAIN runs : runs[i].status = "running" =>
        \E p \in Proc : pc[p] # "idle" /\ job[p].run = i

\* Every request ends: whatever fails, the loop moves on to the next record.
RequestsEnd == \A p \in Proc : pc[p] # "idle" ~> pc[p] = "idle"

===============================================================================
