---------------------------- MODULE ReviewQueue ----------------------------
(***************************************************************************)
(* The review queue (db/schema.sql, app/services/repository.py and the     *)
(* review routes of app/api/routes.py): ingests and jobs append rows,      *)
(* request threads make sure that a pending row exists, operators decide,  *)
(* and somebody pages through the list.  A subject is entity type, entity  *)
(* id and issue type together.                                             *)
(***************************************************************************)
EXTENDS Integers, FiniteSets

CONSTANTS Guards,     \* threads that may call ensure_review_queue_pending
          Subjects,
          Decisions,  \* what operators decide
          PageSize,   \* the limit parameter of the list
          MappingErrors, \* subjects whose issue type is mapping_error
          Window,     \* window_hours of the operations pages, in ticks
          MaxRows,    \* bound on the rows of the queue
          MaxTime     \* bound on the clock

ASSUME QueueAssumption ==
  /\ Decisions \subseteq {"approved", "rejected"}
  /\ PageSize \in Nat \ {0} /\ MaxRows \in Nat /\ MaxTime \in Nat
  /\ MappingErrors \subseteq Subjects /\ Window \in Nat /\ IsFiniteSet(Guards)

VARIABLES queue,   \* review_queue
          time,    \* NOW() at the start of a transaction
          ensure,  \* the transaction each guard is in
          pager    \* what somebody reads: a listing page by page, or an operations page

queueVars == <<queue, time, ensure, pager>>

Statuses == {"pending", "in_progress", "approved", "rejected"}

\* by: who wrote the row, "insert" or "ensure" (history).
ReviewRow ==
  [id : 1 .. MaxRows, subject : Subjects, status : Statuses, by : {"insert", "ensure"},
   created : 0 .. MaxTime, updated : 0 .. MaxTime]

\* A guard has seen no open row of its subject and has not yet inserted one; began is
\* the NOW() of its transaction.
NoEnsure == [at |-> "idle"]
Ensuring == [at : {"insert"}, subject : Subjects, began : 0 .. MaxTime]

\* what: the status filter, "" without one; offset: rows asked for so far; existed: the
\* rows there were when the listing started; decided: a decision has come in between.
NoListing == [at |-> "idle"]
Listing ==
  [at : {"reading", "done"}, what : {"", "pending"}, offset : Nat,
   existed : SUBSET (1 .. MaxRows), seen : SUBSET (1 .. MaxRows), decided : BOOLEAN]

\* The pages of /ops/metrics/summary and /review-queue/stats: began is the NOW() of all
\* their queries, first and second the rows counted by two of them.
OpsPage ==
  [at : {"begun", "half", "told"}, what : {"metrics", "stats"}, began : 0 .. MaxTime,
   first : SUBSET (1 .. MaxRows), second : SUBSET (1 .. MaxRows)]

QueueTypeOK ==
  /\ queue \subseteq ReviewRow
  /\ time \in 0 .. MaxTime
  /\ ensure \in [Guards -> Ensuring \cup {NoEnsure}]
  /\ pager \in Listing \cup OpsPage \cup {NoListing}

-----------------------------------------------------------------------------
IsListing == pager.at \in {"reading", "done"}
IsOpen(r) == r.status \in {"pending", "in_progress"}
OpenRows(s) == {r \in queue : r.subject = s /\ IsOpen(r)}

QueueInit ==
  /\ queue = {} /\ time = 0
  /\ ensure = [g \in Guards |-> NoEnsure]
  /\ pager = NoListing

\* INSERT ... 'pending', created_at and updated_at the start of the transaction; id is
\* the next of the sequence.
Appended(s, by, began) ==
  queue \cup {[id |-> Cardinality(queue) + 1, subject |-> s, status |-> "pending", by |-> by,
               created |-> began, updated |-> began]}

\* insert_review_queue: one statement, one commit.
InsertReviewQueue(s) ==
  /\ Cardinality(queue) < MaxRows
  /\ queue' = Appended(s, "insert", time)
  /\ UNCHANGED <<time, ensure, pager>>

\* A mutant: what the SELECT finds is not looked at.
EnsureSelect_NoReturn(g, s) ==
  /\ ensure[g] = NoEnsure
  /\ ensure' = [ensure EXCEPT ![g] = [at |-> "insert", subject |-> s, began |-> time]]
  /\ UNCHANGED <<queue, time, pager>>

\* ensure_review_queue_pending looks for an open row; with one it returns, and the
\* step leaves nothing behind.
EnsureSelect(g, s) ==
  /\ ensure[g] = NoEnsure
  /\ OpenRows(s) = {}
  /\ ensure' = [ensure EXCEPT ![g] = [at |-> "insert", subject |-> s, began |-> time]]
  /\ UNCHANGED <<queue, time, pager>>

\* Its second statement, and the commit.
EnsureInsert(g) ==
  /\ ensure[g] # NoEnsure /\ Cardinality(queue) < MaxRows
  /\ queue' = Appended(ensure[g].subject, "ensure", ensure[g].began)
  /\ ensure' = [ensure EXCEPT ![g] = NoEnsure]
  /\ UNCHANGED <<time, pager>>

\* The statement fails, or the connection is lost: the caller swallows it.
EnsureFails(g) ==
  /\ ensure[g] # NoEnsure
  /\ ensure' = [ensure EXCEPT ![g] = NoEnsure]
  /\ UNCHANGED <<queue, time, pager>>

\* A mutant: a status no reader counts (the column has no CHECK).
Decide_Resolved(r, decision) ==
  /\ queue' = (queue \ {r}) \cup {[r EXCEPT !.status = "resolved", !.updated = time]}
  /\ pager' = IF IsListing THEN [pager EXCEPT !.decided = TRUE] ELSE pager
  /\ UNCHANGED <<time, ensure>>

\* update_review_queue_status, whatever the row's status is.
Decide(r, decision) ==
  /\ queue' = (queue \ {r}) \cup {[r EXCEPT !.status = decision, !.updated = time]}
  /\ pager' = IF IsListing THEN [pager EXCEPT !.decided = TRUE] ELSE pager
  /\ UNCHANGED <<time, ensure>>

-----------------------------------------------------------------------------
(* fetch_review_queue_items, called page after page.                       *)

\* A mutant: what was touched last comes first.
ListedBefore_Updated(r, q) == r.updated > q.updated \/ (r.updated = q.updated /\ r.id > q.id)

\* ORDER BY created_at DESC, id DESC
ListedBefore(r, q) == r.created > q.created \/ (r.created = q.created /\ r.id > q.id)

\* WHERE status = ... LIMIT PageSize OFFSET offset
Page(what, offset) ==
  LET rows == {r \in queue : what = "" \/ r.status = what}
      Rank(r) == Cardinality({q \in rows : ListedBefore(q, r)})
  IN  {r \in rows : Rank(r) \in offset .. offset + PageSize - 1}

StartListing(what) ==
  /\ pager = NoListing
  /\ pager' = [at |-> "reading", what |-> what, offset |-> 0, seen |-> {}, decided |-> FALSE,
               existed |-> {r.id : r \in {q \in queue : what = "" \/ q.status = what}}]
  /\ UNCHANGED <<queue, time, ensure>>

\* The next page; a short one is the last.
ReadPage ==
  /\ pager.at = "reading"
  /\ \E page \in {Page(pager.what, pager.offset)} :
       pager' = [pager EXCEPT !.offset = @ + PageSize, !.seen = @ \cup {r.id : r \in page},
                              !.at = IF Cardinality(page) < PageSize THEN "done" ELSE @]
  /\ UNCHANGED <<queue, time, ensure>>

\* A page has been read to its end.
EndListing ==
  /\ pager.at \in {"done", "told"}
  /\ pager' = NoListing
  /\ UNCHANGED <<queue, time, ensure>>

-----------------------------------------------------------------------------
(* The operations pages: three queries in one transaction, each of which   *)
(* sees what has been committed when it starts.                            *)

\* A mutant: the window of each query ends at its own start.
Windowed_Statement(began) == {r \in queue : r.created >= time - Window}

\* WHERE created_at >= NOW() - window
Windowed(began) == {r \in queue : r.created >= began - Window}

\* The transaction starts: fetch_ops_ingestion_metrics, or the counts by status.
BeginOps(what) ==
  /\ pager = NoListing
  /\ pager' = [at |-> "begun", what |-> what, began |-> time, first |-> {}, second |-> {}]
  /\ UNCHANGED <<queue, time, ensure>>

\* fetch_ops_review_metrics counts the mapping errors; the statistics count every issue
\* type.
CountFirst ==
  /\ pager.at = "begun"
  /\ pager' = [pager EXCEPT !.at = "half",
       !.first = {r.id : r \in {q \in Windowed(pager.began) :
                                  pager.what = "metrics" => q.subject \in MappingErrors}}]
  /\ UNCHANGED <<queue, time, ensure>>

\* fetch_ops_failure_distribution counts every issue type, the statistics every error code.
CountSecond ==
  /\ pager.at = "half"
  /\ pager' = [pager EXCEPT !.at = "told", !.second = {r.id : r \in Windowed(pager.began)}]
  /\ UNCHANGED <<queue, time, ensure>>

QueueTick == time < MaxTime /\ time' = time + 1 /\ UNCHANGED <<queue, ensure, pager>>

QueueNext ==
  \/ \E s \in Subjects : InsertReviewQueue(s) \/ \E g \in Guards : EnsureSelect(g, s)
  \/ \E g \in Guards : EnsureInsert(g) \/ EnsureFails(g)
  \/ \E r \in queue, d \in Decisions : Decide(r, d)
  \/ StartListing("") \/ StartListing("pending") \/ ReadPage \/ EndListing
  \/ BeginOps("metrics") \/ BeginOps("stats") \/ CountFirst \/ CountSecond
  \/ QueueTick

QueueSpec == QueueInit /\ [][QueueNext]_queueVars

-----------------------------------------------------------------------------
(* Properties.                                                             *)

EnsuredRows(s) == {r \in OpenRows(s) : r.by = "ensure"}

\* ensure_review_queue_pending looks and inserts in two statements, so threads that
\* look at the same moment each add a row (repository.py:570); but what they leave
\* open never grows past one row a thread, however long they go on and whatever
\* operators decide in between.
DuplicatesBounded == \A s \in Subjects : Cardinality(EnsuredRows(s)) <= Cardinality(Guards)

\* Somebody who reads the list to its end has seen every row that it held when he
\* began, although rows are added while he turns the pages and a guard's row carries
\* the time at which its transaction began; only a list filtered by status loses rows,
\* and only to decisions made meanwhile.
PagingSkipsNothing ==
  pager.at = "done" /\ (pager.what = "" \/ ~ pager.decided)
    => pager.existed \subseteq pager.seen

\* A page that counts the same rows in two queries never contradicts itself the wrong way
\* round: what the spike warning has counted is in the distribution next to it, what the
\* issue types have counted is in the error codes, although rows are added and decided
\* and the clock moves between the queries.
OpsPageCoherent == pager.at = "told" => pager.first \subseteq pager.second
=============================================================================
