----------------------------- MODULE IngestRunner -----------------------------
(***************************************************************************)
(* The jobs that send payloads to /api/v1/jobs/run-ingest                  *)
(* (run_ingest_with_retry in app/jobs/ingest_runner.py), the dead letters  *)
(* they leave (scripts/qa/run_ingest_with_retry.py) and the jobs that send *)
(* those again (scripts/qa/reprocess_ingest_dead_letter.py).               *)
(*                                                                         *)
(* The server is seen from outside: it works on every request it received, *)
(* for as long as it takes, whether or not anybody still waits for the     *)
(* answer. Time is the second that goes into a dead letter's file name;    *)
(* timeouts and waits are numbers the job computes; how many of the        *)
(* model's seconds they last is left open.                                 *)
(***************************************************************************)
EXTENDS Integers, Sequences

CONSTANTS Client,           \* processes that run a job at a time
          Payload,
          Answers,          \* answers the server may give: http status, job status
          MaxRetries, BackoffSeconds, RequestTimeout, TimeoutMax,
          ScaleNum, ScaleDen,     \* timeout_scale_on_timeout, as a fraction
          AllowPartial,           \* --allow-partial-success
          MaxTime, MaxJobs        \* bounds of the model

AtLeast(x, y) == IF x >= y THEN x ELSE y
AtMost(x, y) == IF x <= y THEN x ELSE y

JobStatus == {"success", "partial_success", "failed", "none"}
Answer == [http : Nat, job : JobStatus]
FailureClass ==
    {"none", "timeout", "request_error", "payload_contract_422", "http_408", "http_429",
     "http_4xx", "http_5xx", "job_partial_success", "job_failed", "unknown_failure"}

\* A run's status comes with http 200 only: run_ingest_job raises otherwise.
ASSUME AnswersType ==
    /\ Answers \subseteq Answer
    /\ \A answer \in Answers : answer.job # "none" => answer.http = 200
ASSUME PolicyType ==
    /\ MaxRetries \in Int /\ BackoffSeconds \in Int
    /\ RequestTimeout \in Int /\ TimeoutMax \in Int
    /\ ScaleNum \in Nat /\ ScaleDen \in Nat \ {0} /\ ScaleNum >= ScaleDen
    /\ AllowPartial \in BOOLEAN
    /\ MaxTime \in Nat /\ MaxJobs \in Nat

VARIABLES
    pc, job,     \* each client's program point and locals
    inbox,       \* the answer on its way to a client
    handling,    \* requests the server is working on
    delivered,   \* history: payload and status of the runs the server finished
    letters,     \* the files of data/dead_letter
    now,         \* the current second
    started,     \* number of jobs started
    ended        \* history: what the jobs reported

vars == <<pc, job, inbox, handling, delivered, letters, now, started, ended>>

-------------------------------------------------------------------------------
(***************************************************************************)
(* The policy.                                                             *)
(***************************************************************************)
MaxAttempts == AtLeast(1, MaxRetries + 1)
FirstTimeout == AtLeast(1, RequestTimeout)
TimeoutCeiling == AtLeast(FirstTimeout, TimeoutMax)

\* _classify_failure, for an answer; without one the class is "timeout" or
\* "request_error", by the exception's name.
Classify(answer) ==
    CASE answer.http = 422 -> "payload_contract_422"
      [] answer.http = 408 -> "http_408"
      [] answer.http = 429 -> "http_429"
      [] answer.http \in 400..499 \ {408, 422, 429} -> "http_4xx"
      [] answer.http >= 500 -> "http_5xx"
      [] answer.http < 400 ->
            CASE answer.job = "success" -> "none"
              [] answer.job = "partial_success" -> "job_partial_success"
              [] answer.job = "failed" -> "job_failed"
              [] answer.job = "none" -> "unknown_failure"

Retryable(class) == class \notin {"none", "payload_contract_422", "http_4xx"}

\* _to_failure_type, which goes into the file name.
FailureType(class) ==
    IF class \in {"payload_contract_422", "http_408", "http_429", "http_4xx"}
    THEN "http_4xx" ELSE class

\* _next_backoff_seconds
NextBackoff(class, attempt) ==
    LET step == AtLeast(0, BackoffSeconds) * AtLeast(1, attempt)
    IN  CASE class = "timeout" -> AtLeast(step, 5)
          [] class \in {"http_408", "http_429", "http_5xx", "request_error"} -> AtLeast(step, 2)
          [] OTHER -> step

\* Mutated: the ceiling is forgotten.
Scaled_Unbounded(timeout) == (timeout * ScaleNum) \div ScaleDen

Scaled(timeout) == AtMost((timeout * ScaleNum) \div ScaleDen, TimeoutCeiling)

-------------------------------------------------------------------------------
\* The types a file name may have, and a dead letter.
LetterType == FailureClass \ {"none", "payload_contract_422", "http_408", "http_429"}

Letter == [at : 0..MaxTime, type : LetterType, payload : Payload,
           status : {"pending", "resolved"}, tries : Nat]

SameFile(a, b) == a.at = b.at /\ a.type = b.type

\* write_text: the file of that name is replaced.
Written(letter) == {l \in letters : ~SameFile(l, letter)} \cup {letter}

\* A payload with the job and the attempt that sends it.
Request(c) == [no |-> job[c].no, attempt |-> Len(job[c].log) + 1, payload |-> job[c].payload]

Waits(c, r) == pc[c] = "wait" /\ Request(c) = r

LastClass(c) == job[c].log[Len(job[c].log)].class

Init ==
    /\ pc = [c \in Client |-> "idle"]
    /\ job = [c \in Client |-> <<>>]
    /\ inbox = [c \in Client |-> <<>>]
    /\ handling = {}
    /\ delivered = {}
    /\ letters = {}
    /\ now = 0
    /\ started = 0
    /\ ended = {}

Tick ==
    /\ now < MaxTime
    /\ now' = now + 1
    /\ UNCHANGED <<pc, job, inbox, handling, delivered, letters, started, ended>>

Begin(c, payload, copy) ==
    /\ pc[c] = "idle"
    /\ started < MaxJobs
    /\ started' = started + 1
    /\ pc' = [pc EXCEPT ![c] = "send"]
    /\ job' = [job EXCEPT ![c] = [no |-> started', payload |-> payload, copy |-> copy,
                                  sent |-> now, timeout |-> FirstTimeout, log |-> <<>>,
                                  ok |-> FALSE]]
    /\ UNCHANGED <<inbox, handling, delivered, letters, now, ended>>

\* run_ingest_with_retry.py --input
StartJob(c) == \E payload \in Payload : Begin(c, payload, <<>>)

\* reprocess_ingest_dead_letter.py: the record is read once, before the run.
StartReprocess(c) == \E l \in letters : Begin(c, l.payload, <<l>>)

\* The request leaves; it may be lost on the way.
Send(c) ==
    /\ pc[c] = "send"
    /\ pc' = [pc EXCEPT ![c] = "wait"]
    /\ job' = [job EXCEPT ![c].sent = now]
    /\ handling' \in {handling, handling \cup {Request(c)}}
    /\ UNCHANGED <<inbox, delivered, letters, now, started, ended>>

\* Mutated: the server answers and goes on working.
FinishRequest_Early(r) ==
    /\ \E answer \in Answers :
        /\ delivered' = IF answer.http = 200
                        THEN delivered \cup {<<r.payload, answer.job>>} ELSE delivered
        /\ inbox' = [c \in Client |-> IF Waits(c, r) THEN <<answer>> ELSE inbox[c]]
    /\ UNCHANGED <<pc, job, handling, letters, now, started, ended>>

\* The server is done with a request; a client that gave up does not see it.
FinishRequest(r) ==
    /\ \E answer \in Answers :
        /\ delivered' = IF answer.http = 200
                        THEN delivered \cup {<<r.payload, answer.job>>} ELSE delivered
        /\ inbox' = [c \in Client |-> IF Waits(c, r) THEN <<answer>> ELSE inbox[c]]
    /\ handling' = handling \ {r}
    /\ UNCHANGED <<pc, job, letters, now, started, ended>>

\* The end of an attempt: classify, log, and wait or give up.
Judge(c, class, ok) ==
    LET n == Len(job[c].log) + 1
        again == n < MaxAttempts /\ Retryable(class)
        entry == [class |-> class, timeout |-> job[c].timeout,
                  wait |-> IF again THEN NextBackoff(class, n) ELSE 0]
    IN  /\ pc[c] = "wait"
        /\ job' = [job EXCEPT ![c].log = Append(@, entry), ![c].ok = ok]
        /\ pc' = [pc EXCEPT ![c] = IF again THEN "backoff" ELSE "save"]
        /\ inbox' = [inbox EXCEPT ![c] = <<>>]
        /\ UNCHANGED <<handling, delivered, letters, now, started, ended>>

Receive(c) ==
    /\ inbox[c] # <<>>
    /\ LET answer == inbox[c][1]
       IN  Judge(c, Classify(answer), answer.http = 200 /\ answer.job = "success")

\* Mutated: the request is sent without a timeout.
TimeOut_Never(c) == FALSE

\* A timeout takes a second at least, as far as the model's clock goes.
TimeOut(c) ==
    /\ pc[c] = "wait"
    /\ job[c].sent < now \/ now = MaxTime
    /\ Judge(c, "timeout", FALSE)

\* No connection, a connection that breaks, an answer that is no JSON object.
RequestError(c) == Judge(c, "request_error", FALSE)

\* sleep_fn, then the next attempt.
Retry(c) ==
    /\ pc[c] = "backoff"
    /\ pc' = [pc EXCEPT ![c] = "send"]
    /\ job' = [job EXCEPT ![c].timeout = IF LastClass(c) = "timeout" THEN Scaled(@) ELSE @]
    /\ UNCHANGED <<inbox, handling, delivered, letters, now, started, ended>>

\* is_effective_success, for a result that is no success.
Accepted(c) == AllowPartial /\ LastClass(c) = "job_partial_success"

Leave(c, verdict) ==
    /\ pc' = [pc EXCEPT ![c] = "idle"]
    /\ job' = [job EXCEPT ![c] = <<>>]
    /\ ended' = ended \cup {[payload |-> job[c].payload, verdict |-> verdict]}
    /\ UNCHANGED <<inbox, handling, delivered, now, started>>

\* The end of run_ingest_with_retry.py: exit 0, or a dead letter and exit 1.
EndJob(c) ==
    /\ pc[c] = "save" /\ job[c].copy = <<>>
    /\ IF job[c].ok \/ Accepted(c)
       THEN letters' = letters /\ Leave(c, IF job[c].ok THEN "success" ELSE "partial_success")
       ELSE /\ letters' = Written([at |-> now, type |-> FailureType(LastClass(c)),
                                   payload |-> job[c].payload, status |-> "pending", tries |-> 0])
            /\ Leave(c, "failed")

\* Mutated: a partial success resolves the letter too.
Resolves_Partial(c) == job[c].ok \/ LastClass(c) = "job_partial_success"

Resolves(c) == job[c].ok

\* The end of reprocess_dead_letter_record: the record as it was read, with one
\* more attempt, replaces the file.
EndReprocess(c) ==
    /\ pc[c] = "save" /\ job[c].copy # <<>>
    /\ letters' = Written([job[c].copy[1] EXCEPT
                             !.status = IF Resolves(c) THEN "resolved" ELSE "pending",
                             !.tries = @ + 1])
    /\ Leave(c, IF job[c].ok THEN "success" ELSE "failed")

\* The process is killed: the step timeout of the workflow, a lost runner.
Kill(c) ==
    /\ pc[c] # "idle"
    /\ pc' = [pc EXCEPT ![c] = "idle"]
    /\ job' = [job EXCEPT ![c] = <<>>]
    /\ inbox' = [inbox EXCEPT ![c] = <<>>]
    /\ UNCHANGED <<handling, delivered, letters, now, started, ended>>

\* What a job does by itself; a broken connection is nothing it can count on.
JobStep(c) ==
    Send(c) \/ Receive(c) \/ TimeOut(c) \/ Retry(c) \/ EndJob(c) \/ EndReprocess(c)

Next ==
    \/ Tick
    \/ \E c \in Client : StartJob(c) \/ StartReprocess(c) \/ JobStep(c)
                         \/ RequestError(c) \/ Kill(c)
    \/ \E r \in handling : FinishRequest(r)

Spec == Init /\ [][Next]_vars

\* Time passes, and a process that is not killed goes on.
FairSpec == Spec /\ WF_vars(Tick) /\ \A c \in Client : WF_vars(JobStep(c))

-------------------------------------------------------------------------------
(***************************************************************************)
(* Properties.                                                             *)
(***************************************************************************)
Attempt == [class : FailureClass, timeout : Nat, wait : Nat]

RequestType == [no : Nat, attempt : Nat, payload : Payload]

Job == [no : Nat, payload : Payload, copy : Seq(Letter), sent : 0..MaxTime, timeout : Nat,
        log : Seq(Attempt), ok : BOOLEAN]

\* The types of the clients' locals, the requests and the files.
TypeOK ==
    /\ pc \in [Client -> {"idle", "send", "wait", "backoff", "save"}]
    /\ job \in [Client -> {<<>>} \cup Job]
    /\ \A c \in Client : pc[c] # "idle" => job[c] \in Job
    /\ inbox \in [Client -> Seq(Answer)]
    /\ handling \subseteq RequestType
    /\ delivered \subseteq Payload \X JobStatus
    /\ letters \subseteq Letter
    /\ now \in 0..MaxTime
    /\ started \in Nat
    /\ ended \subseteq [payload : Payload, verdict : {"success", "partial_success", "failed"}]

\* What is reported as done was done: a job that exits 0 had the server finish
\* a run of its payload, with success, or with partial success where that is
\* allowed, and a resolved dead letter's payload was ingested with success,
\* whatever was lost, late or repeated (is_effective_success, the status that
\* reprocess_dead_letter_record writes).
SuccessIsReal ==
    /\ \A e \in ended : e.verdict = "success" => <<e.payload, "success">> \in delivered
    /\ \A e \in ended : e.verdict = "partial_success" =>
          AllowPartial /\ <<e.payload, "partial_success">> \in delivered
    /\ \A l \in letters : l.status = "resolved" => <<l.payload, "success">> \in delivered

\* The schedule of a job's attempts: never more than max_retries after the
\* first; only a failure worth retrying is followed by another; the timeout
\* starts at --timeout, grows after a timeout and only then, and stays
\* within the ceiling; a timeout is followed by at least 5 seconds of waiting, a
\* network or server failure by at least 2 (05_RUNBOOK, Ingest Retry Canonical Policy).
ScheduleKept ==
    \A c \in Client : pc[c] # "idle" =>
        LET log == job[c].log
        IN  /\ Len(log) <= MaxAttempts
            /\ pc[c] \in {"send", "wait"} => Len(log) < MaxAttempts
            /\ \A k \in DOMAIN log :
                  /\ log[k].timeout \in FirstTimeout..TimeoutCeiling
                  /\ k = 1 => log[k].timeout = FirstTimeout
                  /\ k > 1 =>
                      /\ log[k - 1].class \notin {"none", "payload_contract_422", "http_4xx"}
                      /\ log[k].timeout >= log[k - 1].timeout
                      /\ log[k].timeout # log[k - 1].timeout => log[k - 1].class = "timeout"
                      /\ log[k - 1].class = "timeout" => log[k - 1].wait >= 5
                      /\ log[k - 1].class \in {"request_error", "http_5xx"} => log[k - 1].wait >= 2

\* A payload is in the server's hands twice for one job only when the earlier
\* attempt ended without an answer: an answered request is never resent while
\* the server works on it.
ResentOnlyUnanswered ==
    \A r1, r2 \in handling : r1.no = r2.no /\ r1.attempt < r2.attempt =>
        \A c \in Client : pc[c] # "idle" /\ job[c].no = r1.no =>
            job[c].log[r1.attempt].class \in {"timeout", "request_error"}

\* On failure a dead letter with the payload is recorded, and stays.
FailureLeavesLetter ==
    \A e \in ended : e.verdict = "failed" => \E l \in letters : l.payload = e.payload

\* A job ends, whatever the server does or fails to do: the timeout is the
\* way out of every wait and the attempts are bounded.
JobsEnd == \A c \in Client : pc[c] # "idle" ~> pc[c] = "idle"

===============================================================================
