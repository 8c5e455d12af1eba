# Verification of the election poll service

TLA+ models of the poll ingest and serving code in `src/`, the TLC runs that
check them on small instances, and theorems about them checked by TLAPS.
Paths below are relative to `src/`.

## 1. The system

The program collects election polls from news articles and from the registry
of the election survey commission (NESDC), ingests them into PostgreSQL and
serves them through a FastAPI application. No component has locks of its own
beyond a few `threading.Lock`s around in-process caches; the database is the
only thing processes share, and nearly every repository method commits its one
statement before it returns. Several API workers and command-line jobs may run
at a time.

| Component | State | Operations | What makes it hard |
|---|---|---|---|
| ingest service (`app/services/ingest_service.py`) | the run's counters, the record being worked on | `ingest_payload`: for each record reject, upsert region, matchup, candidates, article, observation, options; report to the review queue; finish the run | 15 to 30 separately committed statements a record, each may fail, the process may die between two; other processes work on the same rows |
| poll observation store (`app/services/fingerprint.py`, `upsert_poll_observation` in `app/services/repository.py`) | `poll_observations` | find by fingerprint, merge by source priority, insert or update | the find and the write are two statements; two unique identities (key and fingerprint), only one of them constrained |
| repository (`app/services/repository.py`, `db/schema.sql`) | all the tables, one connection | one commit per method; `rollback()` | a failed statement poisons the connection until a rollback |
| API read cache (same file) | a per-process dictionary with a TTL | get, put, clear on commit | a reader's put racing a commit's clear; other processes' commits |
| HTTP API (`app/api/`, `app/main.py`) | one connection a request | `run_ingest_job`, reads, review decisions | failures map to 503; clients retry |
| schema healing (`app/runtime_db_guard.py`, `scripts/init_db.py`) | a process lock, the time of the last heal | on a schema mismatch apply the schema and ask the client to retry | concurrent requests, throttling |
| ingest runner (`app/jobs/ingest_runner.py`, `scripts/qa/run_ingest_with_retry.py`) | attempt counter, dead-letter files | send, classify the answer, back off, resend, write and reprocess dead letters | a timeout does not stop the server; whole payloads are resent |
| review queue (`app/api/routes.py`, repository) | `review_queue` | insert, ensure one pending row, approve, reject | check-then-insert; decisions without a condition on the status |
| data.go clients (`app/services/data_go_*.py`) | response cache, rate limiter | fetch, retry, cache | threads that miss the cache together |
| elections master sync (`app/services/elections_master.py`, `scripts/sync_*.py`) | `elections` slots | snapshot, derive, upsert, disable | the snapshot is stale when written |
| normalisation, cutoff, scope resolution | none | pure functions on one record | many cases |
| collector pipeline (`src/pipeline/`, `scripts/generate_collector_live_news_v1_pack.py`) | what has been read so far: articles, observations, review rows | discover, fetch or fall back, classify, gate, cut into surveys, date, split scenarios, complete, hand over | every source, article and survey may fail or be incomplete by itself; two drivers put the same steps together differently |
| dashboards and matchup page (`app/api/routes.py`, repository) | none | summary, trends, map, big matches, quality, matchup | windows of SQL and filters of the route choose one after the other; several endpoints show the same poll |
| other report generators, QA scripts, web front ends | files | one report, one page | no shared state |

How they interact: a collector or a script writes a payload file; the runner
posts it to `/api/v1/jobs/run-ingest` (or a command-line job calls
`ingest_payload` directly); the service writes through the repository, which
clears the read cache of its own process on every commit; read routes answer
from the cache or the tables; operators decide on review rows; the
synchronisation scripts derive election slots from the matchups ingest wrote.

What each has to get right:

- **ingest**: a run that reads as finished accounts for every record; what was
  counted as processed is in the tables and stays; what was turned away can be
  found in the review queue; resending adds no row; a request ends.
- **store**: one poll, one row; sources only accumulate; quality never falls;
  which source supplied a field does not depend on the order of arrival; the
  explicit scenarios of a poll replace its default rows without losing names.
- **read cache**: an answer is never older than what a process's cache has been
  cleared of for good; every answer is at most two TTLs and a request old.
- **runner**: every payload ends delivered or in a dead letter; no success is
  reported for a payload that no server completed; no dead letter is lost.
- **review queue**: a page guard leaves at most one open row a thread; reading the list to
  its end skips nothing; pages that count twice do not contradict themselves.
- **healing**: a schema that lags behind is healed in the end, whatever fails on the way.
- **data.go client**: no more calls than the limiter grants.
- **election sync**: a slot is what the reads of the last synchronisation say; the page
  of a region never hides a poll because of a slot.
- **dashboards**: each answer follows its selection policy over the whole table, and
  answers about the same race agree.
- **one record's rules**: each scenario of a survey keeps its own values; scope and
  audience region fit; what the reviews speak of is marked.
- **collector**: no article is lost without a trace; the surveys of one article are
  kept apart; every date has a source that justifies it.

PROJECT.json lists the hazards of the code at the line where they bite and which
property covers each.

## 2. The modules

### PollStore - the row of an observation

Operators on a row of `poll_observations`: `Merged` is
`merge_observation_by_priority` (source priority NESDC over article, meta fields
from the winner, context fields from the article, channels united, the better
grade, verification kept), `CoreConflict` its `DuplicateConflictError`,
`NewestWithFingerprint` the SELECT of `upsert_poll_observation` and `Upserted`
its `INSERT ... ON CONFLICT (observation_key) DO UPDATE`, column by column:
which columns are overwritten, which keep the old value through `COALESCE`, how
`source_channels` is united with what the row holds now.

Abstractions. A `Poll` is one value of the fingerprint's inputs (pollster,
sponsor, dates, region, sample size, method) and `Fingerprint` is the digest of
exactly these: two polls have equal fingerprints just when they are equal, as
for a SHA-256 without collisions. Two polls are taken to differ in one of the
inputs the merge also compares. The meta columns, which the merge treats alike,
are one column `meta` that names the source whose record they came from; the
same for `context`.

### ScenarioOptions - option rows of an observation

An option row is its type, option name and scenario: `default`, a
head-to-head `h2h` or a `multi`-candidate one. `IsDefaultCandidate`,
`HasExplicitScenarios`, `MultiCandidates` and `Backfilled` are the predicates and
the backfill `ingest_payload` uses when a record with explicit scenarios
replaces the default rows that an earlier record of the poll left.

### Ingest - `ingest_payload`, run by several processes over one database

Variables: the tables (`runs`, `refs` for regions, matchups, candidates and
articles, `obs`, `options`, `review`); for each process its program point `pc`,
whether its connection is in a failed transaction (`txn`), the locals of the
function (`job`: run id, payload, index, counters, the candidates already
reported) and of one record (`ctx`: position, the row the SELECT returned,
observation id, default names found, options still to write, the issue type);
`log`, a history variable that records what each run was given and what became
of each record; and the bounds' counters.

One action is one committed statement together with the local computation up to
the next one, so another process, a fault or a crash can come in between any two
commits. `pc` names the statement about to be sent:

| Action | Code |
|---|---|
| `CreateRun` | `create_ingestion_run`, on a new connection |
| `RejectStale` | the cutoff branches: count, report, `continue` |
| `UpsertRegion`, `UpsertMatchup`, `UpsertCandidate`, `UpsertArticle` | the upserts, the last with the date-inference counters |
| `RejectScope`, `ReportProfile`, `ReportIncomplete`, `ReportNote` | the review inserts, in their own `try` |
| `FindByFingerprint`, `WriteObservation` | the two statements of `upsert_poll_observation`, the merge between them |
| `FetchDefaults`, `DeleteDefaults`, `UpsertOption` | the replacement of default rows, then the option upserts |
| `RecordStored` | the end of a record's `try`, `processed_count += 1` |
| `Raise`, `HandleException` | an exception in the `try`, the `except` with `rollback()` and its review insert |
| `FinishRun`, `UpdateCounters`, `AbandonRun` | the two statements after the loop, and their failure (503, connection closed) |
| `Crash` | the process dies, or loses its connection, between two statements |

Failures follow psycopg: a failed statement puts the connection in a failed
transaction, where every later statement fails too, until `rollback()`, which
only the record loop's `except` calls. A review insert's own `except` swallows
the failure without it.

Abstractions, and where each is decided:

- Functions that rewrite a record alone (scope hard guard and resolution, survey-name
  correction, option normalisation, scenario repair, party inference,
  candidate verification) are not executed here: a record of a payload carries their
  verdict (`scope`, `date`, `gap`, `notes`, `incomplete`, `options`). The functions
  themselves are the operators of `RecordRules` below.
- A record has one source channel. `source_channels` sent with several members
  is not enumerated.
- The options of a record are written in any order: they do not interact.
- `refs` is a set, as rows of the reference tables are never deleted and their
  other columns do not decide anything here.
- `review` counts the rows of each (entity, issue type); their text is left out.

### IngestRunner - the jobs that send payloads, and dead letters

`run_ingest_with_retry` as a process: `Begin` sets the attempt's timeout, `Send`
posts the payload, `Receive`, `TimeOut` or `RequestError` end the attempt
(`Judge`: classify, log, wait or give up), `Retry` scales the timeout after a
timeout. `EndJob` is the end of `scripts/qa/run_ingest_with_retry.py` (exit 0, or
a dead letter and exit 1), `StartReprocess` and `EndReprocess` are
`scripts/qa/reprocess_ingest_dead_letter.py`, which reads a record before the run
and writes the whole record back after it. `Kill` is the workflow's step timeout.

The server is seen from outside: a request may be lost, is worked on for as long
as it takes (`handling`), and its end (`FinishRequest`) is noticed only by a client
that still waits for it; `delivered` records the runs that ended with 200. An
answer is its http status and job status.

Abstractions. The clock is the second that goes into a dead letter's name; how
many of the model's seconds a request, a timeout or a wait lasts is left open,
a timeout at least one as far as the clock's bound goes. Timeouts and waits are
whole numbers and the scale is a fraction rounded down; the values of the run
(180, 270, 360 in units of 30) come out exact. The answers of the route are
assumed to carry a job status with 200 only (`AnswersType`). `--disable-dead-letter`
is taken as not given. Reports, heartbeats and the failure artifact are output
and left out.

### ReadCache and StaleRegister - the read cache

`ReadCache` follows `get_matchup` through the cache: `ReadHit` or `ReadMiss`, the
resolution of an alias (`ResolveHit`, `ResolveMiss`), `CopyToAlias` when the
canonical entry is there, else `Query`, the `NoiseGuard` with its own commit,
`Fill` and `FillAlias`; the simpler cached endpoints are the same without the alias.
`Commit` is any repository write and `Clear` the invalidation after it, a second
step; a process's `Restart` empties its dictionary. An answer is the version of
the database its query saw. `StaleRegister` is what a client may rely on: a
version that was current at most `Bound` ago. `ImplementsStaleRegister` is the
refinement, with `Bound` = a request's `Lag` + two TTLs: one for the entry, one
for the alias filled from it.

### ReadRows, Dashboards, MatchupView, PublicReads - the read endpoints

`ReadRows` has the joined rows and the helpers of `routes.py` that several
endpoints share (cutoff, freshness, source classes). `Dashboards` has the window
and the route's filter of the summary, trends, latest map, big matches, quality and
coverage as functions of the table, ORDER BY lists being tuples compared
lexicographically; `MatchupView` the choice of a poll bundle, the merge of its
options and the scenarios of the matchup page. `PublicReads` changes the table under
them: `StoreNew` and `StoreAgain` are commits of ingest, an observation
without options being a moment between two commits.

### ReviewQueue, SchemaHeal, DataGoClient, ElectionSlots, CandidateProfile, RecordRules, Collector, composed by Services

- `ReviewQueue`: `InsertReviewQueue`; `EnsureSelect` and `EnsureInsert`, the two
  statements of `ensure_review_queue_pending`, whose caller swallows failures;
  `Decide`; `StartListing` and `ReadPage`, an operator turning pages;
  `BeginOps`, `CountFirst`, `CountSecond`, a page that counts in two queries of one
  transaction (READ COMMITTED, `NOW()` fixed).
- `SchemaHeal`: start-up bootstrap, the once-flag and its lock, requests that meet
  a mismatch in `get_repository` or in the exception handler, failures, stops
  and a database that goes back to an older schema.
- `DataGoClient`: threads that share the response cache and the rate limiter; slots
  are reserved under the lock and slept for outside it; pages are read one after
  the other and a retry begins again at the first.
- `ElectionSlots`: the synchronisation's reads, each seeing its own moment, the
  upserts with a commit each, its end or failure, and the region page's reads
  among them, while ingest adds matchups, polls and regions.
- `CandidateProfile`: ingest processes that store a candidate in one transaction
  (`UpsertCandidate`: registry, matching, best profile, overwritten row) and put its gaps
  under review in a second one (`ReportCandidate`), whose failure is swallowed
  (`ReportFails`) and before which the process may die (`Die`); a run remembers the
  report it made (`marked`) and makes none again. `GetCandidate` is the page, which asks
  the registry again; `DecideProfile` an operator.
- `RecordRules` applies to one record the operators of `ScenarioRepair`
  (`_repair_candidate_matchup_scenarios`), `ScopeRules` (hard guard, survey-name
  correction, population inference, resolution), `OptionRules` (route and service
  normalisation, party inference, verification), and the collector's own split.
- `Extraction` and `Collector`: `Extract` is `PollCollector.extract` on a page given
  as what the regular expressions find in it; `Discover` and `FetchNext` are the
  two drivers, `PollCollector.run` (`Handled`) and the live-news pack over
  `DiscoveryPipelineV11.run` (`Packed`); `Payload` is the adapter to ingest. The
  candidates of a block come from the block alone (`CandidatePairs`), but their split into
  scenarios reads the article's title in front of every block (`ScenarioWords`).

`Services` lets a behaviour follow one of them (`focus`): they share nothing but the
connection, so a product of their states would show no more.

Abstractions. Texts are sequences of the phrases or segments the expressions
match; names, regions and offices are model values; the year has a few units;
scores and confidences are whole numbers. `sample` stands for the three numbers
of a survey (sample, response rate, margin), which the code treats alike.

Smaller simplifications, none of which a property turns on:

- `Merged` (PollStore): a meta column comes from the winner whole, where
  `merge_observation_by_priority` falls through to the other source for a column the winner
  leaves null (fingerprint.py:162-167); an article without a `survey_name`
  (184-191) is not enumerated.
- `RowOf` (Ingest) computes the fingerprint; a payload that brings a `poll_fingerprint`
  of its own keeps it (ingest_service.py:1690).
- `Identity` (MatchupView) leaves out `candidate_id` and `value_raw` of
  `_matchup_option_identity` (repository.py:2050-2057).
- `Query` (ReadCache) is one read; `get_matchup` sends several statements, each of
  which sees what was committed before it (repository.py:2330-2348).
- `Extract` has no branch for an exception within a block (collector.py:573-585): nothing an
  expression finds makes the code raise.

### The proofs, see section 5

`IngestProofs` (types, provenance, accounting, what is stored and reported) and on it
`OverlapProofs` (what holds when ingests do not overlap at the wrong place) are about
`Ingest`; `ReadProofs` is about `PublicReads`; `RunnerProofs` is about `IngestRunner`, `ReadCacheProofs`
about `ReadCache`, `RuleProofs` about `RecordRules`, on it `CollectorProofs` about `Extraction` and
`Collector`, and on that `ServiceProofs` about `ReviewQueue`, `SchemaHeal`, `DataGoClient`,
`ElectionSlots`, `CandidateProfile` and all of `Services`.

### MCIngest, MCIngestRunner, MCReadCache, MCPublicReads, MCServices - the payloads, answers, polls and cases of the runs.

## 3. The runs

| Run | Instance | Shows |
|---|---|---|
| `serial` | one process, 3 requests over 6 payloads, one statement failing anywhere | counters agree with outcomes; rejected records are reported; one row a poll; source roles; replaced defaults; quality never drops; resending adds no row; every request ends |
| `concurrent` | two processes, one failing statement and one crash anywhere | in every interleaving processed records stay and provenance only grows |
| `race` | two processes | *violation*: two rows for one poll |
| `stale_merge` | two processes | *violation*: a better grade is taken back |
| `corrected` | one process | *violation*: a row is stored under the fingerprint of its old columns |
| `review_failure` | one process, the insert of an `except` branch fails | *violation*: the run stays `running` although its request has ended |
| `runner` | one client, two jobs, two payloads, three attempts each, partial success accepted | reported successes are real; the retry schedule is kept; an answered request is not resent while it is worked on; every job ends |
| `letters` | two clients, no retries | *violation*: a failed job's dead letter is replaced by another's |
| `readcache` | two processes, a canonical id and an alias, two request threads and a script, one commit, restarts | answers are at most two TTLs and a request old; nothing older than what has settled; the caches implement `StaleRegister` |
| `reads` | five families of polls, three rows, six days | the dashboards and the matchup page follow their policies and agree with one another |
| `services` | the seven services, one at a time | the properties of section 1 for queue, healing, client, slots, profile, record rules and collector |
| `pairs` | the scenario cases of `services` | *violation*: head-to-heads the survey gives in full are re-keyed |

Bounds. Three requests are what it takes for a record to be stored, replaced by
another source and sent again. Two keys of one poll and one of another give
both ways an upsert finds a row (by fingerprint, by key). One process
suffices where the code's sequence is the question; two for the races, whose
witness is always a single stale read. One fault reaches every handler, and the
`aborted` connection it leaves makes later statements fail too. The payloads of
`serial` hold each kind of record: both sources of one poll, a default and an
explicit one, both cutoff rejections, a contradicted scope,
a conflicting office, a record without its region row, candidates with a profile
gap (twice the same one), every closing note. `MaxRuns`, `MaxFaults` and
`MaxCrashes` are bounds of the model, not of the code.

In `runner` two jobs are what it takes to leave a dead letter and reprocess it
while the first job's requests are still being worked on, and two payloads to
confuse them. Two clients that reprocess one letter at the same time are left to the
theorem `SuccessReported`, which is about any number of them. Three attempts are the default policy, the third timeout being the
ceiling. The answers are one success, one retryable (`partial_success`) and
one final (422); 5xx, 408 and 429 follow the path of `request_error`. `MaxTime`
and `MaxJobs` bound the model.

In `readcache` `Lag` = 1 and `Ttl` = 2 tell a request's delay from an entry's
life, `MaxNow` = 7 lets both TTLs of an alias and the delay pass after the commit;
one commit suffices, as the properties compare an answer with one version.
In `reads` three rows are what the bundle of two polls and a third one
beside it need, or the leader, the runner-up and a poll that beats both; the
families vary source, grade, day before and after the cutoff, scope, scenario,
noise and repeated keys. In `services`: three rows, two guards, one subject and
pages of one row for the queue; two servers, three requests, two failures, one stop and
two downgrades for the schema; three threads, two pages, one retry, five requests and
five ticks at an interval of two for the client; one synchronisation and two writes
of ingest for the slots; three records of a
candidate in up to three runs of two processes, with one failed report, which is what it takes
for a run to fail, for another to report and for the first to come back; 8,848 scenario cases (and those of default
rows alone once more, through the collector's split), 13,824 scopes and 912
options; about 1,500 first pages: every order of named and nameless segments, titles with two races,
one or none, with the word of a multi-candidate scenario and a number after it or without, over one
or two surveys of up to four candidates, and every combination of days, signals and periods;
with three findings, other pages
behind them and fetches that fail, for both drivers and both date policies.

Deadlock is not checked: when the bound on runs or jobs is reached and all processes are
idle, the models stop.

`FingerprintUnique` and `QualityNeverDrops` hold in `serial` and fail in `race`
and `stale_merge`: they are right only as long as ingests do not overlap. In
`serial` no record comes back under its key with another poll; `corrected` shows what happens
then. OverlapProofs turns both observations into theorems: how little must not overlap, and
what payloads must keep to, for these properties to hold with any number of processes.

Fairness. `FairSpec` has weak fairness on `Step(p)`: a request handler that has
been started is run to its end by the server, as nothing in it waits for another
process (single statements, no explicit locks). There is none on `CreateRun`
(nobody must send a request) or on `Crash`. `RequestsEnd` is checked under it.

In `IngestRunner`, `JobStep(c)` is weakly fair: a process that is not killed goes
on, and the timeout `httpx` is given is a step of its own. `Tick` is fair, as time
passes. Nothing is assumed of the server, of broken connections or of kills:
`JobsEnd` holds against a server that never answers.

In `Services` the platform starts a stopped server again (`Start`, weakly fair),
and a thread that keeps getting a chance to take the healing lock, or holds it, goes
on (`HealRequest`, strongly fair): `threading.Lock` is not first come, first
served, but requests keep arriving and retry. Failures and stops are bounded, as a
database that never answers is never healed.

The next-state relation of `Ingest` is fired in full by its two passing runs:
`Crash` by `concurrent`, faults by `serial`. That of `Services` is fired in full
by `services`, those of `ReadCache` and `PublicReads` by `readcache` and `reads`.

## 4. What the runs found

Six disagreements between the code and what its documents or comments say; each
is a run of its own and is quoted with its lines in PROJECT.json.

1. Two processes that ingest two sources of one poll at once store it twice: the
   lookup and the insert are two statements, the fingerprint has no unique
   constraint, and the lock PLAN.md speaks of does not exist.
2. A merge uses the row read by the earlier statement; grade and verification
   another process has raised since are taken back.
3. A record sent again under its key with corrected fields overwrites the
   inputs of the fingerprint and keeps the fingerprint.
4. The review insert's own `except` keeps the loop alive but not the
   connection: without a rollback the next statement fails too. For the last
   record that is `finish_ingestion_run`, and the run stays `running`.
5. Two jobs that fail alike within one second write the same dead-letter file:
   the first payload is lost, although a failure is said to leave a dead letter.
6. Head-to-heads that take every row of a record are materialised and then
   re-keyed by the split by duplicate names, to which control falls through.

Met while modelling and modelled as the code does, without a run of their own:

- *Scope.* The low-confidence branch cannot be reached: every scope
  `_infer_scope_from_sampling_population` returns is at or above the threshold, so the
  reviews `AUDIENCE_SCOPE_LOW_CONFIDENCE` that docs/02 (line 186), docs/05 (417) and
  docs/06 (81) promise are never written. A scope derived from the survey's name counts
  as declared, so that it can turn the record away. The survey-name correction runs
  after the hard guard and may undo it (ingest_service.py:1625), and a correction to a
  region the record brings no row of fails on the foreign key.
- *Scenarios.* Canonicalisation moves an explicit head-to-head row into the multi
  scenario when its value is the one listed (ingest_service.py:1282-1310).
- *Profiles.* The page says `ingest` of fields that ingest itself took from the registry;
  a later record with a poorer profile replaces a candidate's columns
  (repository.py:217-237). A profile is committed before its gaps are reported, and a failed
  report is swallowed without a rollback (ingest_service.py:1674-1687): the record is then turned
  away by its own next statement and reported as such, but the candidate's page says that it
  needs no review, unless the same run meets the candidate again; the report of issue 298
  (lines 18-20) speaks of routing every such candidate. `GapsReported` names this exception.
- *Matchup page.* The poll shown is the richest of the recent ones (2069-2095), where the
  report of issue 461 speaks of the latest.
- *Collector.* The pack reads mentions and skips the gate, while docs/01:45 keeps
  mentions for review; it fills a survey's missing numbers from the whole article,
  also when the article has several surveys (the report of issue 472 keeps that to
  single ones), or from an NESDC entry of the pollster of whatever day; the scenarios of a
  title with several races enter the rows of every survey of the article whose candidates
  they name and may replace its own numbers (collector.py:566-571, 718); the article made of
  a summary has neither day, so a relative date in it is neither resolved nor
  reported (docs/01:77) and the publication cutoff lets it pass, although the feed
  gave a day; a period without years over the new year ends in the following one; a
  period stays next to `strict_fail_blocked`; `fetch_fail_count` counts articles
  the cutoff took; `discover_raw_count` leaves out links of RSS items;
  `REGION_OFFICE_NOT_MAPPED` cannot be reached behind the gate.

## 5. What is proved

For any sets of processes, keys, polls, payloads, any fault points and bounds
(the assumptions are `PayloadsType`, `BoundsType` and `FaultyType`, that the
constants have their types):

- `TypeCorrect`: `Spec => []TypeOK`. `TypeOK` alone is not inductive: that the
  current record is one of the payload needs the loop index to be in range, and
  the closing notes' position needs to lie behind the candidates. `LoopOK` says
  what the loop knows at each program point; `IInv == TypeOK /\ LoopOK` is
  preserved by every action (`InvInit`, `InvNext`, `Invariance`). One lemma
  per table or group of actions.
- `ProvenanceGrows`: `Spec => ProvenanceOnlyGrows`. Only `WriteObservation`
  changes `obs`, and `Upserted` on any typed row keeps key, fingerprint and
  channels of the row it updates (`UpsertedKeeps`), whatever stale row it merged.
- `RunsAccounted` (IngestProofs): `Spec => []RunAccountsForItsRecords`. The
  invariant says nothing of a run in progress, so `RunsOK` ties each process's
  locals to the history of its run: counters are the numbers of outcomes so
  far, the index is one past them, no two processes share a run, the run reads
  `running` until `finish_ingestion_run`, and the loop is left exactly at the end
  of the payload. `ActionKinds` sorts the actions into those that go on within a
  record, end it, finish the run or leave; one lemma for each kind.
  `CountAppend` is the arithmetic.
- `StoredTheorem` and `RejectedTheorem` (IngestProofs): `Spec => []ProcessedRecordsAreStored`
  and `Spec => []RejectedRecordsAreReported`. Both speak of records whose iteration is
  over, so `ProgressOK` says what a process has written of its record at each
  statement: region and matchup from the scope check on, its row and the options
  that are not in `todo` after the upsert. The difficult step is the upsert after
  a search that may be stale: it stores the record under the fingerprint because keys are
  unique in `obs` (`RowsOK`) and the row that was found has kept its key and its
  fingerprint (`FoundOK`). `TablesGrow` is what no step of any process takes
  back: rows of `refs`, keys, fingerprints and channels, options other than
  default candidates, review rows. `LogGrows` sorts the outcomes of the history
  into those that were there and the one the step adds.
- `RunnerTypeCorrect` and `SuccessReported` (RunnerProofs), for any clients,
  payloads, answers and retry policy (`AnswersType`, `PolicyType`):
  `Spec => []TypeOK` and `Spec => []SuccessIsReal`. `SuccessIsReal` speaks of
  reports and files; `Grounded` says what they are written from: an answer in an
  inbox is that of a run of this client's payload (`Inbox`), and the result a job
  is about to return agrees with the last entry of its log (`Result`).
  `InvJudge` serves every way an attempt ends, `InvLeave` every way a job does.
  `Grounded` is also what makes the types inductive: a dead letter has a failure
  type because a log that ends without a failure ends in success.

- `AgeTheorem`, `SettledTheorem` and `Refinement` (ReadCacheProofs), for any processes,
  threads, keys, TTL and delay: `[]EntriesAgeOut`, `[]NothingOlderThanSettled` and
  `Spec => ImplementsStaleRegister`. None is inductive: a stale answer is
  put into a cache by a thread that has held it for a while. `IInv` therefore says of
  every thread which key it works on and how old the answer it holds may be at its program
  point, and of every entry how old its answer was when it was filled, one TTL more for
  an alias. Then each step of the caches is a step of `StaleRegister` or a stutter.
- OverlapProofs: the properties that fail when ingests overlap, with what it takes for them
  to hold. The conditions are stated as state predicates, so that a theorem reads
  `Spec /\ []OneWriter => ...`: it speaks of any number of processes, faults and crashes, in
  the behaviours in which the condition is never broken; those of `serial` are among them, and so
  is every behaviour in which the search and the write were one transaction or under a lock.
  - `OneWriter`: no two processes are between the search and the write of
    `upsert_poll_observation`. `UniqueTheorem` (`[]FingerprintUnique`) and `NoRowTheorem`
    (`StoredRecordsAddNoRow`) need nothing else. Their invariant `FreshInv` says that
    what a search returned is still what the table has (`SeenFresh`).
  - `OnePollPerKey`: no two records of the payloads have one key and two polls; `corrected`
    shows what comes of one that does. Under it alone `CurrentFingerprintTheorem` gives
    `[]StoredFingerprintCurrent`, however much the processes overlap: `PollInv` says that
    a row is merged only with one of the same poll. Together with `OneWriter`:
    `RolesTheorem` (`[]SourceRolesRespected`) and `QualityTheorem` (`QualityNeverDrops`), by
    `RolesInv`, which says of every row that its columns come from the sources its channels name.
  - `OneReplacer`: no two processes are at the options of one observation. `ReplaceTheorem`:
    what is left of default candidate rows after an explicit record is the record's own, and
    no name is lost. `ReplaceInv` says how far the replacement has come at each statement.
    `SupersedeTheorem` adds `Unmixed` (no record has both kinds) and concludes that none is
    left. `_repair_candidate_matchup_scenarios` delivers unmixed records where the survey's
    text speaks of the scenarios and there are three rows or more (`ScenariosSplit`); a mixed
    record it leaves alone keeps its own defaults. With two processes and without `OneReplacer` TLC
    finds the property violated.

  Each of these invariants was checked with TLC on two processes, its condition as a
  CONSTRAINT, before it was proved.
- `DuplicatesTheorem` (ServiceProofs): `QueueSpec => []DuplicatesBounded`. A guard that has
  looked and not yet inserted counts like a row, as it looked while there was no open
  one (`QueueInv`). It needs finitely many guards.
- `RateTheorem` (ServiceProofs): `ClientSpec => []NeverAheadOfRate`. `SlotsBooked` bounds
  what has left and what sleeps by the next slot, `DueInTime` what has left
  and what is due by any time by that time (`RateInv`); a request that leaves was
  due. It needs finitely many threads.

- `QueueTypesTheorem`, `OpsPagesTheorem`, `PagingTheorem` (ServiceProofs), for any bounds, page size,
  subjects and decisions. Paging is the one that needs an idea: a reader goes on with an
  OFFSET, that is with a number, while rows are put in front. `ListInv` says that a row which
  was there when he began and which he has not seen yet has at least `offset` rows before it in
  the list; inserts only push it further down, and a decision moves it only in a list filtered
  by status, which the property excepts.
- `SlotTypesTheorem`, `RegionPageTheorem`, `SlotSyncTheorem` (ServiceProofs), for any regions, offices,
  matchups and jobs (`SlotAssumption`: the sets the code distinguishes are among them,
  `Merged` maps regions to regions, polls are finitely many). `SteadyRead` says that what the page's
  readers rely on is still in the tables at each of its queries; `JobTrue` that what a job
  nobody disturbs has read is what the tables say and what it has not yet written is still to do.
- `CandidatePageTheorem` and `GapsReportedTheorem` (ServiceProofs), for any profiles, any contents of
  the registry, any processes and bounds (`ProfileAssumption`: profiles are profiles). Lemmas say
  what one enrichment does to a field; the first best of a list exists because the list is finite.
  The reports need `ProfileInv`: no two processes are in one run, and one that is about to report is
  in a run that has not (`RunsApart`), so that rows and remembering runs grow together
  (`RowsCounted`); and a stored gap is explained by a run that reported, a process about to, a
  failure or a death (`GapExplained`). The step that is
  not obvious is `UpsertCandidate` of a run that has reported before: it stores a new gap and
  reports nothing, and the row of before is what stands for it.
- `ScopeTheorem` and `OptionTheorem` (RuleProofs), for any texts, populations, provinces, options and
  answers of the registry (`RecordAssumption`, and `ProvincesAssumption`: provinces are positive
  numbers, as 0 stands for "no region"). One lemma for each rule says what it establishes and
  one what it keeps of the rules before; the theorem follows the order of `ingest_payload`.
- `ScenariosTheorem` (RuleProofs): `RecordSpec => []ScenariosSplit`, for any rows and any text.
  `RecordAssumption` says of a record what the code sees to before: a row carries its own candidate's
  data and the key of a head-to-head names somebody; a pair has two names
  (ingest_service.py:959, collector.py:860), and a list every name once (ingest_service.py:1001).
  The rows and the set of taken rows are what every stage of the repair hands on. `Took`, what the taken
  rows say (name, value, scenario), grows by exactly what the text says next
  (`ItemsStay`, `RacesStay`), and `RestOf` says that a row nobody has taken is the one of before;
  so in the end each scenario has its own values and none of another's. For the collector's split
  `CollectState` adds that an untaken row is still a default one; so the repair at ingest finds nothing
  left to do. Of two rows of one name and scenario the later one is stored (`StoredRows`), and it
  says what the text said last.
- The toolbox at the beginning of RuleProofs serves these and the collector. `FoldLeft`, `Kept` and
  `FlattenSeq` are recursive functions; the library gives no fact about their values, and an induction
  theorem would need an operator as its parameter. Instead the least number at which a claim would
  fail is taken (`LeastNumber`): the recursion has a solution (`FoldExists`), and a fold runs through
  values of a set that its step does not leave (`FoldRuns`), one for each prefix. What is said of a
  fold is then said of that set and of one step.
- CollectorProofs, for any findings, pages, summaries, register and signals, for either driver
  (`CollectorAssumption`, `ExtractionAssumption`: they are what `ArticlePage` and the other types
  say an expression can find; confidences are percentages; a period without a year lies within the year).
  - `SplitSurveyBlocks` puts every segment of an article into exactly one block (`BlocksSplit`): both
    passes of `_split_survey_blocks`, the grouping and the merge, keep the blocks apart.
  - `CollectorInv` is inductive: what is still to be fetched is new to the output and each url is there
    once (`Unlike`, `StillNew`; after the discovery by `CandidatesUnlike`, which needs
    `DiscoveryPipelineV11._dedup` and the ranking); every url that was chosen is still awaited or has come to
    an end (`Settled`); and `Ledger`: one article per url, every observation one of
    the blocks of its article, no block twice, and none without all the others and the review
    rows of what was read. A retry of the pack that reads an article again adds nothing of it
    twice (`HandlesTwice`).
  - From it `AccountedTheorem` (`ArticlesAccountedFor`), `KeptApartTheorem` (`SurveysKeptApart`) and
    `DatesTheorem` (`DatesJustified`); the first two use what a block's text says of pollster, sample
    and numbers (`TokensHold`, `SamplesHold`, `PairsHold`), the last the arithmetic
    of `_extract_survey_period` and of `_resolve_survey_date_inference` (`PeriodSaid`, `DayInferred`).
  - The proof of `KeptApartTheorem` corrected the property. As it stood, every head-to-head number of
    a text was an option of its observation, which the code does not promise: where the text also speaks of
    scenarios and gives the same name another number within the tolerance, `_match_candidate_index`
    takes the nearest row for it and `_split_candidate_matchup_scenarios` writes that number over the
    first. The property now names such a number as the only thing that may stand in its place. It also says
    where the options come from: `MayTake` is kept by every stage of the split, a row having a name
    of the block's own text, and a value of it or one a pair or the anchor of text or title gives
    that name (`SplitKeeps`, `FoundMoves`, `OwnOptions`); what `ScenarioWords` brings in from the title is
    all that a survey may have from outside its own text.
- ReadProofs: the read endpoints, for any polls, names, scenarios, collations, limits and cutoff
  (`ReadsAssumption`: polls are rows with finitely many options, and the orders of names, titles
  and matchups give numbers for what occurs in them). `TableInv` says that the table holds finitely
  many rows, each under an id of its own, `Committed` that each has the options and the matchup of some
  ingested poll. What all of them rest on is the order of sort keys: `Beats` is transitive and total on
  keys of one length, so that of finitely many rows one is beaten by none (`UnbeatenExists`, by
  the well-foundedness of strict inclusion), and a row left out by a LIMIT is behind a full
  list (`ListIsFull`). With that:
  - `SummaryTheorem`, `OfficialTheorem`: the window's key extends the policy of the endpoint, and what
    neither of two stages lets pass is beaten in neither (`UnbeatenOn`).
  - `MapTheorem`: the poll of its group (`MapGroup`) stands between any poll of the region and
    the one shown. The counts are a sum over a set, that is a fold; its recursion has
    only one solution on the subsets of a finite set, and the numbers of rows with a reason in the subset
    are one (`SumCounts`).
  - `SpreadTheorem`: the greatest value and the next (`SpreadParts`), and `ListIsFull`.
  - `RicherTheorem`, `IncumbentsTheorem`: the poll selected is one of the recent ones, and nothing that can be shown
    beats its score (`SelectedShows`, `SelectedRecent`); of its bundle the newest row with something to show
    shows all of it (`MergedShows`).
  - `TwiceTheorem` adds `OnePerName`: in one poll name and scenario tell its options apart. The
    unique constraint of `poll_options` has the option type in it as well, so a poll that
    called a candidate like a party could have the name twice.

- `QualityTheorem` (ReadProofs): `Spec => QualityOnlyAges`. The n-th of the ages is defined by
  counting (`NthAge`: as many are smaller as come before it), not by sorting; there is exactly one
  (`NthExists`, `NthUnique`), and with the clock every age grows by as much (`AgesShift`), so that the
  percentile, and with it the worst of the states, only moves one way (`FreshnessAges`, `WorstGrows`).
- The services together (ServiceProofs). `ServicesTheorem`: in every behaviour of `Services` each
  component takes the steps of its own specification or stands still; the rules and the collector
  behave as theirs where they are followed and are idle elsewhere. `HealTypesTheorem` and
  `ClientTypesTheorem` are the types of the schema healing and of the client, `ServicesTypesTheorem` is
  `Spec => []TypeOK` for all of them, and `ServicesSafety` says that every safety property of the
  components is one of `Services`, where the run `services` checks it.

Only model-checked: `RequestsEnd`, `JobsEnd` and `SchemaHealsEventually`. Liveness under fairness is
out of the prover's reach. Every other property of a passing run is stated by a theorem. One is
only proved: `CardAsOfficialAsTrend` (`OfficialTheorem`), that the card and the trend of a name rest
on the same polls.

## 6. Plan

Done, in the order of the plan: Ingest with its accounting; IngestRunner; ReadCache with
its refinement; ReviewQueue; SchemaHeal; DataGoClient; ElectionSlots; the read endpoints;
the pure rules of a record; the collector; the theorems about each of them. What would add
most next:

1. An abstract ledger of polls that `Ingest` implements under `OneWriter`.
2. The synchronisation reports of the common codes, and the region search and its scores.

## 7. What is not modelled

- Texts: regular expressions, XML, JSON, HTML and PDF parsing. A page or an answer enters
  the models as what they find in it; so `_extract_region_office` is the region and
  office it found.
- NESDC PDF adapters, the other report generators and the QA scripts: sequential, no state
  but the file they write. The web front ends only render answers of the API.
- The scores by which the region search orders its hits, and the token check of the
  internal routes, which either lets a request in or answers 401 before anything happens.
- The GitHub workflows only start processes the models already have.

PROJECT.json lists every component with its status.
