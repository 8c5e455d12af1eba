----------------------------- MODULE RunnerProofs ----------------------------
(***************************************************************************)
(* The ingest jobs, for any clients, payloads, answers and retry policy:   *)
(* what they report was done, their attempts keep to the retry policy, and *)
(* no answered request is sent again.                                      *)
(***************************************************************************)
EXTENDS IngestRunner, TLAPS

-------------------------------------------------------------------------------
(***************************************************************************)
(* The inductive invariant. SuccessIsReal speaks of reports and files;     *)
(* what they are written from is the answer in a client's inbox, then the  *)
(* last entry of its log and the result it is about to return.             *)
(***************************************************************************)
Inbox(c) ==
    inbox[c] # <<>> =>
        /\ pc[c] = "wait"
        /\ Len(inbox[c]) = 1
        /\ inbox[c][1] \in Answers
        /\ inbox[c][1].http = 200 => <<job[c].payload, inbox[c][1].job>> \in delivered

Result(c) ==
    pc[c] # "idle" =>
        /\ job[c].copy # <<>> =>
              Len(job[c].copy) = 1 /\ job[c].copy[1].payload = job[c].payload
        /\ job[c].ok => <<job[c].payload, "success">> \in delivered
        /\ pc[c] = "save" =>
              /\ job[c].log # <<>>
              /\ LastClass(c) = "none" => job[c].ok
              /\ LastClass(c) = "job_partial_success" =>
                    <<job[c].payload, "partial_success">> \in delivered

Grounded == \A c \in Client : Inbox(c) /\ Result(c)

IInv == TypeOK /\ Grounded /\ SuccessIsReal

-------------------------------------------------------------------------------
(***************************************************************************)
(* The policy's values.                                                    *)
(***************************************************************************)

\* The first timeout and the ceiling are natural numbers.
LEMMA TimeoutsNat == FirstTimeout \in Nat /\ TimeoutCeiling \in Nat
BY PolicyType DEF FirstTimeout, TimeoutCeiling, AtLeast

\* A timeout scaled is a natural number again.
LEMMA ScaledNat == \A timeout \in Nat : Scaled(timeout) \in Nat
<1> SUFFICES ASSUME NEW timeout \in Nat PROVE Scaled(timeout) \in Nat
  OBVIOUS
<1>1. timeout * ScaleNum \in Nat
  BY PolicyType
<1>2. \A n \in Nat : n \div ScaleDen \in Nat
  BY PolicyType
<1>3. (timeout * ScaleNum) \div ScaleDen \in Nat
  BY <1>1, <1>2
<1> QED
  BY <1>3, TimeoutsNat DEF Scaled, AtMost

\* A wait is a natural number.
LEMMA BackoffNat == \A class, attempt : attempt \in Nat => NextBackoff(class, attempt) \in Nat
<1> SUFFICES ASSUME NEW class, NEW attempt, attempt \in Nat
             PROVE  NextBackoff(class, attempt) \in Nat
  OBVIOUS
<1>1. AtLeast(0, BackoffSeconds) \in Nat /\ AtLeast(1, attempt) \in Nat
  BY PolicyType DEF AtLeast
<1>2. AtLeast(0, BackoffSeconds) * AtLeast(1, attempt) \in Nat
  BY <1>1
<1> QED
  BY <1>2 DEF NextBackoff, AtLeast

\* Every answer has a class; only success has none, only a run that the server
\* finished is a partial success.
LEMMA ClassOfAnswer ==
    ASSUME NEW answer \in Answers
    PROVE  /\ Classify(answer) \in FailureClass
           /\ Classify(answer) = "none" => answer.http = 200 /\ answer.job = "success"
           /\ Classify(answer) = "job_partial_success" =>
                 answer.http = 200 /\ answer.job = "partial_success"
BY AnswersType DEF Classify, FailureClass, Answer, JobStatus

\* A failure's type is one a file name may have.
LEMMA TypeOfFailure ==
    \A class \in FailureClass \ {"none"} : FailureType(class) \in LetterType
BY DEF FailureType, LetterType, FailureClass

-------------------------------------------------------------------------------
(***************************************************************************)
(* The invariant holds initially and is preserved.                         *)
(***************************************************************************)

\* A program point other than "idle" comes with a job of its type.
LEMMA BusyJob ==
    ASSUME TypeOK, NEW c \in Client, pc[c] # "idle"
    PROVE  job[c] \in Job
BY DEF TypeOK

\* Initially nobody runs a job and nothing was reported.
LEMMA InvInit == Init => IInv
<1> SUFFICES ASSUME Init PROVE IInv
  OBVIOUS
<1>1. TypeOK
  BY PolicyType DEF Init, TypeOK
<1>2. Grounded /\ SuccessIsReal
  BY DEF Init, Grounded, Inbox, Result, SuccessIsReal
<1> QED
  BY <1>1, <1>2 DEF IInv

\* Tick changes the clock only.
LEMMA InvTick == IInv /\ Tick => IInv'
<1> SUFFICES ASSUME IInv, Tick PROVE IInv'
  OBVIOUS
<1> USE DEF IInv
<1>1. TypeOK'
  BY PolicyType DEF TypeOK, Tick
<1>2. Grounded'
  BY DEF Grounded, Inbox, Result, LastClass, Tick
<1>3. SuccessIsReal'
  BY DEF SuccessIsReal, Tick
<1> QED
  BY <1>1, <1>2, <1>3

\* A new job has no log, no result, and its payload is the copy's.
LEMMA InvBegin ==
    ASSUME IInv, NEW c \in Client, NEW payload \in Payload, NEW copy \in Seq(Letter),
           copy # <<>> => Len(copy) = 1 /\ copy[1].payload = payload,
           Begin(c, payload, copy)
    PROVE  IInv'
<1> USE DEF IInv
<1> DEFINE new == [no |-> started', payload |-> payload, copy |-> copy, sent |-> now,
                   timeout |-> FirstTimeout, log |-> <<>>, ok |-> FALSE]
<1>1. new \in Job
  BY TimeoutsNat DEF Job, TypeOK, Begin
<1>2. job' = [job EXCEPT ![c] = new] /\ pc' = [pc EXCEPT ![c] = "send"]
  BY DEF Begin
<1>3. TypeOK'
  <2>1. job' \in [Client -> {<<>>} \cup Job] /\ \A d \in Client : pc'[d] # "idle" => job'[d] \in Job
    BY <1>1, <1>2 DEF TypeOK
  <2>2. /\ pc' \in [Client -> {"idle", "send", "wait", "backoff", "save"}]
        /\ started' \in Nat
        /\ UNCHANGED <<inbox, handling, delivered, letters, now, ended>>
    BY DEF TypeOK, Begin
  <2> QED
    BY <2>1, <2>2 DEF TypeOK
<1>4. Grounded'
  <2> SUFFICES ASSUME NEW d \in Client PROVE Inbox(d)' /\ Result(d)'
    BY DEF Grounded
  <2>1. Inbox(d) /\ Result(d)
    BY DEF Grounded
  <2>2. CASE d = c
    <3>1. job'[d] = new /\ pc'[d] = "send" /\ inbox'[d] = <<>>
      BY <1>2, <2>1, <2>2 DEF Inbox, Begin, TypeOK
    <3> QED
      BY <3>1 DEF Inbox, Result
  <2>3. CASE d # c
    <3>1. job'[d] = job[d] /\ pc'[d] = pc[d]
      BY <1>2, <2>3 DEF TypeOK
    <3> QED
      BY <2>1, <3>1 DEF Inbox, Result, LastClass, Begin
  <2> QED
    BY <2>2, <2>3
<1>5. SuccessIsReal'
  BY DEF SuccessIsReal, Begin
<1> QED
  BY <1>3, <1>4, <1>5

\* Both ways to start a job.
LEMMA InvStart ==
    ASSUME IInv, NEW c \in Client, StartJob(c) \/ StartReprocess(c)
    PROVE  IInv'
<1>1. CASE StartJob(c)
  <2>1. PICK payload \in Payload : Begin(c, payload, <<>>)
    BY <1>1 DEF StartJob
  <2>2. <<>> \in Seq(Letter)
    OBVIOUS
  <2> QED
    BY <2>1, <2>2, InvBegin
<1>2. CASE StartReprocess(c)
  <2>1. PICK l \in letters : Begin(c, l.payload, <<l>>)
    BY <1>2 DEF StartReprocess
  <2>2. l \in Letter
    BY DEF IInv, TypeOK
  <2>3. l.payload \in Payload /\ <<l>> \in Seq(Letter) /\ Len(<<l>>) = 1
    BY <2>2 DEF Letter
  <2> QED
    BY <2>1, <2>2, <2>3, InvBegin
<1> QED
  BY <1>1, <1>2

\* A request leaves with the job's payload.
LEMMA InvSend == ASSUME IInv, NEW c \in Client, Send(c) PROVE IInv'
<1> USE DEF IInv
<1>1. job[c] \in Job
  BY BusyJob DEF Send
<1>2. Request(c) \in RequestType
  BY <1>1 DEF Request, RequestType, Job
<1>3. job' = [job EXCEPT ![c].sent = now] /\ pc' = [pc EXCEPT ![c] = "wait"]
  BY DEF Send
<1>4. TypeOK'
  <2>1. [job[c] EXCEPT !.sent = now] \in Job
    BY <1>1 DEF Job, TypeOK
  <2>2. job' \in [Client -> {<<>>} \cup Job] /\ \A d \in Client : pc'[d] # "idle" => job'[d] \in Job
    BY <1>3, <2>1 DEF TypeOK, Send
  <2> QED
    BY <1>2, <2>2 DEF TypeOK, Send
<1>5. Grounded'
  <2> SUFFICES ASSUME NEW d \in Client PROVE Inbox(d)' /\ Result(d)'
    BY DEF Grounded
  <2>1. Inbox(d) /\ Result(d)
    BY DEF Grounded
  <2>2. CASE d = c
    <3>1. job'[d] = [job[d] EXCEPT !.sent = now] /\ pc'[d] = "wait" /\ inbox'[d] = <<>>
      BY <1>3, <2>1, <2>2 DEF Inbox, Send, TypeOK
    <3>2. /\ job'[d].payload = job[d].payload /\ job'[d].copy = job[d].copy
          /\ job'[d].ok = job[d].ok
      BY <1>1, <2>2, <3>1 DEF Job
    <3> QED
      BY <2>1, <2>2, <3>1, <3>2 DEF Inbox, Result, Send
  <2>3. CASE d # c
    <3>1. job'[d] = job[d] /\ pc'[d] = pc[d]
      BY <1>3, <2>3 DEF TypeOK
    <3> QED
      BY <2>1, <3>1 DEF Inbox, Result, LastClass, Send
  <2> QED
    BY <2>2, <2>3
<1>6. SuccessIsReal'
  BY DEF SuccessIsReal, Send
<1> QED
  BY <1>4, <1>5, <1>6

\* An answer of a finished run enters an inbox together with the run.
LEMMA InvFinishRequest ==
    ASSUME IInv, NEW r \in handling, FinishRequest(r)
    PROVE  IInv'
<1> USE DEF IInv
<1>1. PICK answer \in Answers :
         /\ delivered' = IF answer.http = 200
                         THEN delivered \cup {<<r.payload, answer.job>>} ELSE delivered
         /\ inbox' = [c \in Client |-> IF Waits(c, r) THEN <<answer>> ELSE inbox[c]]
  BY DEF FinishRequest
<1>2. answer \in Answer /\ r \in RequestType
  BY AnswersType DEF TypeOK
<1>3. delivered \subseteq delivered'
  BY <1>1
<1>4. TypeOK'
  <2>1. delivered' \subseteq Payload \X JobStatus
    BY <1>1, <1>2 DEF TypeOK, Answer, RequestType
  <2>2. inbox' \in [Client -> Seq(Answer)]
    BY <1>1, <1>2 DEF TypeOK
  <2> QED
    BY <2>1, <2>2 DEF TypeOK, FinishRequest
<1>5. Grounded'
  <2> SUFFICES ASSUME NEW c \in Client PROVE Inbox(c)' /\ Result(c)'
    BY DEF Grounded
  <2>1. Inbox(c) /\ Result(c)
    BY DEF Grounded
  <2>2. Inbox(c)'
    <3>1. CASE Waits(c, r)
      <4>1. inbox'[c] = <<answer>> /\ pc'[c] = "wait" /\ job'[c].payload = r.payload
        BY <1>1, <3>1 DEF Waits, Request, FinishRequest
      <4>2. answer.http = 200 => <<r.payload, answer.job>> \in delivered'
        BY <1>1
      <4> QED
        BY <4>1, <4>2 DEF Inbox
    <3>2. CASE ~Waits(c, r)
      BY <1>1, <1>3, <2>1, <3>2 DEF Inbox, FinishRequest
    <3> QED
      BY <3>1, <3>2
  <2>3. Result(c)'
    BY <1>3, <2>1 DEF Result, LastClass, FinishRequest
  <2> QED
    BY <2>2, <2>3
<1>6. SuccessIsReal'
  BY <1>3 DEF SuccessIsReal, FinishRequest
<1> QED
  BY <1>4, <1>5, <1>6

\* What Judge does, given a class and a result that agree: the inbox is
\* emptied and the class becomes the last of the log.
LEMMA InvJudge ==
    ASSUME IInv, NEW c \in Client, NEW class \in FailureClass, NEW ok \in BOOLEAN,
           class = "none" => ok,
           ok => <<job[c].payload, "success">> \in delivered,
           class = "job_partial_success" => <<job[c].payload, "partial_success">> \in delivered,
           Judge(c, class, ok)
    PROVE  IInv'
<1> USE DEF IInv
<1> DEFINE n == Len(job[c].log) + 1
           again == n < MaxAttempts /\ Retryable(class)
           entry == [class |-> class, timeout |-> job[c].timeout,
                     wait |-> IF again THEN NextBackoff(class, n) ELSE 0]
           log == Append(job[c].log, entry)
           point == IF again THEN "backoff" ELSE "save"
<1>1. job[c] \in Job /\ pc[c] = "wait"
  BY BusyJob DEF Judge
<1>2. /\ job' = [job EXCEPT ![c] = [job[c] EXCEPT !.log = log, !.ok = ok]]
      /\ pc' = [pc EXCEPT ![c] = point]
      /\ inbox' = [inbox EXCEPT ![c] = <<>>]
      /\ UNCHANGED <<handling, delivered, letters, now, started, ended>>
  BY <1>1 DEF Judge, TypeOK
<1>3. entry \in Attempt
  <2>1. n \in Nat
    BY <1>1 DEF Job
  <2> QED
    BY <1>1, <2>1, BackoffNat DEF Attempt, Job
<1>4. log \in Seq(Attempt) /\ log # <<>> /\ log[Len(log)].class = class
  <2>1. entry.class = class
    OBVIOUS
  <2>2. job[c].log \in Seq(Attempt)
    BY <1>1 DEF Job
  <2> HIDE DEF entry
  <2>3. log \in Seq(Attempt) /\ Len(log) = Len(job[c].log) + 1 /\ log[Len(log)] = entry
    BY <1>3, <2>2
  <2> HIDE DEF log
  <2>4. log # <<>>
    BY <2>2, <2>3
  <2> QED
    BY <2>1, <2>3, <2>4
<1>5. point \in {"backoff", "save"}
  OBVIOUS
<1> HIDE DEF log, entry, point
<1>6. [job[c] EXCEPT !.log = log, !.ok = ok] \in Job
  BY <1>1, <1>4 DEF Job
<1>7. TypeOK'
  <2>1. job' \in [Client -> {<<>>} \cup Job] /\ \A d \in Client : pc'[d] # "idle" => job'[d] \in Job
    BY <1>1, <1>2, <1>6 DEF TypeOK
  <2>2. /\ pc' \in [Client -> {"idle", "send", "wait", "backoff", "save"}]
        /\ inbox' \in [Client -> Seq(Answer)]
    BY <1>2, <1>5 DEF TypeOK
  <2>3. UNCHANGED <<handling, delivered, letters, now, started, ended>>
    BY <1>2
  <2> QED
    BY <2>1, <2>2, <2>3 DEF TypeOK
<1>8. Grounded'
  <2> SUFFICES ASSUME NEW d \in Client PROVE Inbox(d)' /\ Result(d)'
    BY DEF Grounded
  <2>1. Inbox(d) /\ Result(d)
    BY DEF Grounded
  <2>2. CASE d = c
    <3>1. /\ inbox'[d] = <<>> /\ delivered' = delivered
          /\ job'[d] = [job[d] EXCEPT !.log = log, !.ok = ok]
      BY <1>2, <2>2 DEF TypeOK
    <3>2. /\ job'[d].log = log /\ job'[d].ok = ok
          /\ job'[d].payload = job[d].payload /\ job'[d].copy = job[d].copy
      BY <1>1, <2>2, <3>1 DEF Job
    <3> QED
      BY <1>1, <1>4, <2>1, <2>2, <3>1, <3>2 DEF Inbox, Result, LastClass
  <2>3. CASE d # c
    <3>1. job'[d] = job[d] /\ pc'[d] = pc[d] /\ inbox'[d] = inbox[d] /\ delivered' = delivered
      BY <1>2, <2>3 DEF TypeOK
    <3> QED
      BY <2>1, <3>1 DEF Inbox, Result, LastClass
  <2> QED
    BY <2>2, <2>3
<1>9. SuccessIsReal'
  BY <1>2 DEF SuccessIsReal
<1> QED
  BY <1>7, <1>8, <1>9

\* An answer that counts as success is a run the server finished.
LEMMA InvReceive == ASSUME IInv, NEW c \in Client, Receive(c) PROVE IInv'
<1> DEFINE answer == inbox[c][1]
           ok == answer.http = 200 /\ answer.job = "success"
<1>1. /\ answer \in Answers
      /\ answer.http = 200 => <<job[c].payload, answer.job>> \in delivered
  BY DEF IInv, Grounded, Inbox, Receive
<1>2. Judge(c, Classify(answer), ok)
  BY DEF Receive
<1> HIDE DEF answer
<1>3. /\ Classify(answer) \in FailureClass
      /\ Classify(answer) = "none" => ok
      /\ Classify(answer) = "job_partial_success" =>
            answer.http = 200 /\ answer.job = "partial_success"
  BY <1>1, ClassOfAnswer
<1>4. ok \in BOOLEAN /\ (ok => <<job[c].payload, "success">> \in delivered)
  BY <1>1
<1>5. Classify(answer) = "job_partial_success" =>
         <<job[c].payload, "partial_success">> \in delivered
  BY <1>1, <1>3
<1> HIDE DEF ok
<1> QED
  BY <1>2, <1>3, <1>4, <1>5, InvJudge

\* No answer: a failure, and nothing more is claimed.
LEMMA InvNoAnswer ==
    ASSUME IInv, NEW c \in Client, TimeOut(c) \/ RequestError(c)
    PROVE  IInv'
<1>1. "timeout" \in FailureClass /\ "request_error" \in FailureClass
  BY DEF FailureClass
<1> QED
  BY <1>1, InvJudge DEF TimeOut, RequestError

\* The next attempt has the same payload and no answer.
LEMMA InvRetry == ASSUME IInv, NEW c \in Client, Retry(c) PROVE IInv'
<1> USE DEF IInv
<1> DEFINE timeout == IF LastClass(c) = "timeout" THEN Scaled(job[c].timeout) ELSE job[c].timeout
<1>1. job[c] \in Job /\ pc[c] = "backoff"
  BY BusyJob DEF Retry
<1>2. timeout \in Nat
  BY <1>1, ScaledNat DEF Job
<1>3. /\ job' = [job EXCEPT ![c] = [job[c] EXCEPT !.timeout = timeout]]
      /\ pc' = [pc EXCEPT ![c] = "send"]
      /\ UNCHANGED <<inbox, handling, delivered, letters, now, started, ended>>
  BY <1>1 DEF Retry, TypeOK
<1> HIDE DEF timeout
<1>4. [job[c] EXCEPT !.timeout = timeout] \in Job
  BY <1>1, <1>2 DEF Job
<1>5. TypeOK'
  BY <1>3, <1>4 DEF TypeOK
<1>6. Grounded'
  <2> SUFFICES ASSUME NEW d \in Client PROVE Inbox(d)' /\ Result(d)'
    BY DEF Grounded
  <2>1. Inbox(d) /\ Result(d)
    BY DEF Grounded
  <2>2. CASE d = c
    <3>1. /\ inbox'[d] = <<>> /\ delivered' = delivered /\ pc'[d] = "send"
          /\ job'[d] = [job[d] EXCEPT !.timeout = timeout]
      BY <1>1, <1>3, <2>1, <2>2 DEF TypeOK, Inbox
    <3>2. /\ job'[d].payload = job[d].payload /\ job'[d].copy = job[d].copy
          /\ job'[d].ok = job[d].ok
      BY <1>1, <2>2, <3>1 DEF Job
    <3> QED
      BY <1>1, <2>1, <2>2, <3>1, <3>2 DEF Inbox, Result
  <2>3. CASE d # c
    <3>1. job'[d] = job[d] /\ pc'[d] = pc[d] /\ inbox'[d] = inbox[d] /\ delivered' = delivered
      BY <1>3, <2>3 DEF TypeOK
    <3> QED
      BY <2>1, <3>1 DEF Inbox, Result, LastClass
  <2> QED
    BY <2>2, <2>3
<1>7. SuccessIsReal'
  BY <1>3 DEF SuccessIsReal
<1> QED
  BY <1>5, <1>6, <1>7

\* A client becomes idle: what the others know is untouched.
LEMMA GroundedIdle ==
    ASSUME IInv, NEW c \in Client,
           pc' = [pc EXCEPT ![c] = "idle"], job' = [job EXCEPT ![c] = <<>>],
           (inbox' = inbox /\ inbox[c] = <<>>) \/ inbox' = [inbox EXCEPT ![c] = <<>>],
           delivered' = delivered
    PROVE  Grounded'
<1> USE DEF IInv
<1> SUFFICES ASSUME NEW d \in Client PROVE Inbox(d)' /\ Result(d)'
  BY DEF Grounded
<1>1. Inbox(d) /\ Result(d)
  BY DEF Grounded
<1>2. CASE d = c
  <2>1. inbox'[d] = <<>> /\ pc'[d] = "idle"
    BY <1>2 DEF TypeOK
  <2> QED
    BY <2>1 DEF Inbox, Result
<1>3. CASE d # c
  <2>1. job'[d] = job[d] /\ pc'[d] = pc[d] /\ inbox'[d] = inbox[d]
    BY <1>3 DEF TypeOK
  <2> QED
    BY <1>1, <2>1 DEF Inbox, Result, LastClass
<1> QED
  BY <1>2, <1>3

\* A report with a verdict that is true is added, and the client goes idle.
LEMMA InvLeave ==
    ASSUME IInv, NEW c \in Client, pc[c] = "save",
           NEW verdict \in {"success", "partial_success", "failed"},
           Leave(c, verdict), letters' \subseteq Letter,
           verdict = "success" => <<job[c].payload, "success">> \in delivered,
           verdict = "partial_success" =>
              AllowPartial /\ <<job[c].payload, "partial_success">> \in delivered,
           \A l \in letters' : l.status = "resolved" => <<l.payload, "success">> \in delivered
    PROVE  IInv'
<1> USE DEF IInv
<1> DEFINE report == [payload |-> job[c].payload, verdict |-> verdict]
<1>1. job[c] \in Job
  BY BusyJob
<1>2. inbox[c] = <<>>
  BY DEF Grounded, Inbox
<1>3. ended' = ended \cup {report} /\ delivered' = delivered
  BY DEF Leave
<1>4. TypeOK'
  <2>1. report \in [payload : Payload, verdict : {"success", "partial_success", "failed"}]
    BY <1>1 DEF Job
  <2> HIDE DEF report
  <2>2. ended' \subseteq [payload : Payload, verdict : {"success", "partial_success", "failed"}]
    BY <1>3, <2>1 DEF TypeOK
  <2> QED
    BY <2>2 DEF TypeOK, Leave
<1>5. Grounded'
  BY <1>2, <1>3, GroundedIdle DEF Leave
<1>6. SuccessIsReal'
  BY <1>3 DEF SuccessIsReal
<1> QED
  BY <1>4, <1>5, <1>6

\* A job that succeeded had its answer; a dead letter is pending.
LEMMA InvEndJob == ASSUME IInv, NEW c \in Client, EndJob(c) PROVE IInv'
<1> USE DEF IInv
<1>1. pc[c] = "save" /\ job[c] \in Job /\ Result(c)
  BY BusyJob DEF EndJob, Grounded
<1>2. CASE job[c].ok
  <2>1. letters' = letters /\ Leave(c, "success")
    BY <1>2 DEF EndJob
  <2>2. <<job[c].payload, "success">> \in delivered
    BY <1>1, <1>2 DEF Result
  <2>3. \A l \in letters' : l.status = "resolved" => <<l.payload, "success">> \in delivered
    BY <2>1 DEF SuccessIsReal
  <2> QED
    BY <1>1, <2>1, <2>2, <2>3, InvLeave DEF TypeOK
<1>3. CASE ~job[c].ok /\ Accepted(c)
  <2>1. letters' = letters /\ Leave(c, "partial_success")
    BY <1>3 DEF EndJob
  <2>2. AllowPartial /\ <<job[c].payload, "partial_success">> \in delivered
    BY <1>1, <1>3 DEF Result, Accepted
  <2>3. \A l \in letters' : l.status = "resolved" => <<l.payload, "success">> \in delivered
    BY <2>1 DEF SuccessIsReal
  <2> QED
    BY <1>1, <2>1, <2>2, <2>3, InvLeave DEF TypeOK
<1>4. CASE ~job[c].ok /\ ~Accepted(c)
  <2> DEFINE new == [at |-> now, type |-> FailureType(LastClass(c)),
                     payload |-> job[c].payload, status |-> "pending", tries |-> 0]
  <2>1. letters' = Written(new) /\ Leave(c, "failed")
    BY <1>4 DEF EndJob
  <2>2. LastClass(c) \in FailureClass \ {"none"}
    <3>1. job[c].log \in Seq(Attempt) /\ job[c].log # <<>>
      BY <1>1 DEF Result, Job
    <3>2. job[c].log[Len(job[c].log)] \in Attempt
      BY <3>1
    <3> QED
      BY <1>1, <1>4, <3>2 DEF LastClass, Attempt, Result
  <2>3. new \in Letter
    BY <1>1, <2>2, TypeOfFailure DEF Letter, Job, TypeOK
  <2>4. new.status = "pending"
    OBVIOUS
  <2> HIDE DEF new
  <2>5. letters' \subseteq letters \cup {new}
    BY <2>1 DEF Written
  <2>6. letters' \subseteq Letter
    BY <2>3, <2>5 DEF TypeOK
  <2>7. \A l \in letters' : l.status = "resolved" => <<l.payload, "success">> \in delivered
    BY <2>4, <2>5 DEF SuccessIsReal
  <2> QED
    BY <1>1, <2>1, <2>6, <2>7, InvLeave
<1> QED
  BY <1>2, <1>3, <1>4

\* A dead letter is resolved by a success of the payload it holds.
LEMMA InvEndReprocess == ASSUME IInv, NEW c \in Client, EndReprocess(c) PROVE IInv'
<1> USE DEF IInv
<1>1. pc[c] = "save" /\ job[c] \in Job /\ Result(c) /\ job[c].copy # <<>>
  BY BusyJob DEF EndReprocess, Grounded
<1> DEFINE read == job[c].copy[1]
           status == IF Resolves(c) THEN "resolved" ELSE "pending"
           tries == read.tries + 1
           new == [read EXCEPT !.status = status, !.tries = tries]
<1>2. Len(job[c].copy) = 1 /\ read.payload = job[c].payload
  BY <1>1 DEF Result
<1>3. read \in Letter
  BY <1>1, <1>2 DEF Job
<1>4. letters' = Written(new) /\ Leave(c, IF job[c].ok THEN "success" ELSE "failed")
  BY DEF EndReprocess
<1> HIDE DEF read
<1>5. /\ status \in {"pending", "resolved"} /\ (status = "resolved" => job[c].ok)
      /\ tries \in Nat
  BY <1>3 DEF Resolves, Letter
<1> HIDE DEF status, tries
<1>6. /\ new \in Letter
      /\ new.payload = job[c].payload
      /\ new.status = status
  BY <1>2, <1>3, <1>5 DEF Letter
<1>7. job[c].ok => <<job[c].payload, "success">> \in delivered
  BY <1>1 DEF Result
<1> HIDE DEF new
<1>8. letters' \subseteq letters \cup {new}
  BY <1>4 DEF Written
<1>9. letters' \subseteq Letter
  BY <1>6, <1>8 DEF TypeOK
<1>10. \A l \in letters' : l.status = "resolved" => <<l.payload, "success">> \in delivered
  BY <1>5, <1>6, <1>7, <1>8 DEF SuccessIsReal
<1> QED
  BY <1>1, <1>4, <1>7, <1>9, <1>10, InvLeave

\* A killed process reports nothing.
LEMMA InvKill == ASSUME IInv, NEW c \in Client, Kill(c) PROVE IInv'
<1> USE DEF IInv
<1>1. TypeOK'
  BY DEF TypeOK, Kill
<1>2. Grounded'
  BY GroundedIdle DEF Kill
<1>3. SuccessIsReal'
  BY DEF SuccessIsReal, Kill
<1> QED
  BY <1>1, <1>2, <1>3

\* One lemma for each action.
LEMMA InvNext == IInv /\ [Next]_vars => IInv'
<1> SUFFICES ASSUME IInv, [Next]_vars PROVE IInv'
  OBVIOUS
<1>1. CASE Tick
  BY <1>1, InvTick
<1>2. ASSUME NEW c \in Client, StartJob(c) \/ StartReprocess(c) PROVE IInv'
  BY <1>2, InvStart
<1>3. ASSUME NEW c \in Client, JobStep(c) \/ RequestError(c) PROVE IInv'
  BY <1>3, InvSend, InvReceive, InvNoAnswer, InvRetry, InvEndJob, InvEndReprocess DEF JobStep
<1>4. ASSUME NEW c \in Client, Kill(c) PROVE IInv'
  BY <1>4, InvKill
<1>5. ASSUME NEW r \in handling, FinishRequest(r) PROVE IInv'
  BY <1>5, InvFinishRequest
<1>6. CASE UNCHANGED vars
  BY <1>6 DEF vars, IInv, TypeOK, Grounded, Inbox, Result, LastClass, SuccessIsReal
<1> QED
  BY <1>1, <1>2, <1>3, <1>4, <1>5, <1>6 DEF Next

-------------------------------------------------------------------------------
\* The invariant of every behaviour.
LEMMA Invariance == Spec => []IInv
BY InvInit, InvNext, PTL DEF Spec

\* The clients' locals, the requests and the files keep their types, for any
\* number of clients, payloads, answers and attempts.
THEOREM RunnerTypeCorrect == Spec => []TypeOK
<1>1. IInv => TypeOK
  BY DEF IInv
<1> QED
  BY <1>1, Invariance, PTL

\* What run_ingest_with_retry.py and reprocess_ingest_dead_letter.py report as
\* done was done, for any clients, payloads, answers of the server and retry
\* policy, whatever was lost, late or repeated and whoever was killed.
THEOREM SuccessReported == Spec => []SuccessIsReal
<1>1. IInv => SuccessIsReal
  BY DEF IInv
<1> QED
  BY <1>1, Invariance, PTL

-------------------------------------------------------------------------------
(***************************************************************************)
(* The inductive invariant. ScheduleKept relates the entries of a log to   *)
(* one another; the timeout a job holds for its next attempt has to follow *)
(* the last of them. ResentOnlyUnanswered speaks of two requests in the    *)
(* server's hands; each by itself is either the one a client waits for or  *)
(* one whose attempt has ended without an answer.                          *)
(***************************************************************************)

\* An attempt with this timeout may come after the one of the entry.
Follows(entry, timeout) ==
    /\ Retryable(entry.class)
    /\ timeout >= entry.timeout
    /\ timeout # entry.timeout => entry.class = "timeout"
    /\ entry.class = "timeout" => entry.wait >= 5
    /\ entry.class \in {"request_error", "http_5xx"} => entry.wait >= 2

Regular(log) ==
    \A k \in DOMAIN log :
        /\ log[k].timeout \in FirstTimeout..TimeoutCeiling
        /\ k = 1 => log[k].timeout = FirstTimeout
        /\ k > 1 => Follows(log[k - 1], log[k].timeout)

Fits(log, timeout) ==
    IF log = <<>> THEN timeout = FirstTimeout ELSE Follows(log[Len(log)], timeout)

Schedule(c) ==
    pc[c] # "idle" =>
        /\ Regular(job[c].log)
        /\ job[c].timeout \in FirstTimeout..TimeoutCeiling
        /\ Len(job[c].log) <= MaxAttempts
        /\ pc[c] \in {"send", "wait", "backoff"} =>
              Len(job[c].log) < MaxAttempts /\ Fits(job[c].log, job[c].timeout)
        /\ pc[c] = "backoff" => job[c].log # <<>>

\* A request of a job's is the one it waits for, or one that was not answered.
InHand(c, r) ==
    /\ r.payload = job[c].payload
    /\ r.attempt \in 1..(Len(job[c].log) + 1)
    /\ IF r.attempt = Len(job[c].log) + 1
       THEN pc[c] = "wait" /\ inbox[c] = <<>>
       ELSE job[c].log[r.attempt].class \in {"timeout", "request_error"}

Sending(c) ==
    pc[c] # "idle" =>
        /\ job[c].no <= started
        /\ \A d \in Client : d # c /\ pc[d] # "idle" => job[d].no # job[c].no
        /\ \A r \in handling : r.no = job[c].no => InHand(c, r)

Numbered == \A r \in handling : r.no <= started

SInv == Numbered /\ \A c \in Client : Schedule(c) /\ Sending(c)

-------------------------------------------------------------------------------
(***************************************************************************)
(* The policy's values.                                                    *)
(***************************************************************************)

\* A timeout that is scaled does not shrink.
LEMMA ScaledGrows ==
    ASSUME NEW timeout \in FirstTimeout..TimeoutCeiling
    PROVE  Scaled(timeout) \in timeout..TimeoutCeiling
<1>1. timeout \in Nat /\ TimeoutCeiling \in Nat /\ timeout <= TimeoutCeiling
  BY TimeoutsNat
<1>2. ScaleNum \in Nat /\ ScaleDen \in Nat /\ ScaleDen > 0 /\ ScaleNum >= ScaleDen
  BY PolicyType
<1>3. timeout * ScaleNum \in Nat /\ timeout * ScaleDen \in Nat
  BY <1>1, <1>2
<1>4. timeout * ScaleNum >= timeout * ScaleDen
  <2>1. ScaleNum - ScaleDen \in Nat
    BY <1>2
  <2>2. timeout * (ScaleNum - ScaleDen) \in Nat
    BY <1>1, <2>1
  <2>3. timeout * (ScaleNum - ScaleDen) = timeout * ScaleNum - timeout * ScaleDen
    BY <1>1, <1>2
  <2> QED
    BY <1>3, <2>2, <2>3
<1>5. \A m \in Nat : m >= timeout * ScaleDen => m \div ScaleDen >= timeout /\ m \div ScaleDen \in Nat
  BY <1>1, <1>2, <1>3, Z3
<1>6. (timeout * ScaleNum) \div ScaleDen >= timeout /\ (timeout * ScaleNum) \div ScaleDen \in Nat
  BY <1>3, <1>4, <1>5
<1> QED
  BY <1>1, <1>6 DEF Scaled, AtMost

\* The waits the policy promises.
LEMMA BackoffLong ==
    ASSUME NEW class, NEW attempt \in Nat
    PROVE  /\ class = "timeout" => NextBackoff(class, attempt) >= 5
           /\ class \in {"request_error", "http_5xx"} => NextBackoff(class, attempt) >= 2
<1>1. AtLeast(0, BackoffSeconds) \in Nat /\ AtLeast(1, attempt) \in Nat
  BY PolicyType DEF AtLeast
<1>2. AtLeast(0, BackoffSeconds) * AtLeast(1, attempt) \in Nat
  BY <1>1
<1> QED
  BY <1>2 DEF NextBackoff, AtLeast

\* A log stays regular with an attempt whose timeout fits.
LEMMA RegularAppend ==
    ASSUME NEW log \in Seq(Attempt), NEW entry \in Attempt, Regular(log),
           entry.timeout \in FirstTimeout..TimeoutCeiling, Fits(log, entry.timeout)
    PROVE  Regular(Append(log, entry))
<1> DEFINE longer == Append(log, entry)
<1>1. /\ Len(log) \in Nat /\ DOMAIN log = 1..Len(log)
      /\ DOMAIN longer = 1..(Len(log) + 1)
      /\ longer[Len(log) + 1] = entry
      /\ \A k \in 1..Len(log) : longer[k] = log[k]
  OBVIOUS
<1>2. log = <<>> <=> Len(log) = 0
  OBVIOUS
<1> HIDE DEF longer
<1> SUFFICES ASSUME NEW k \in 1..(Len(log) + 1)
             PROVE  /\ longer[k].timeout \in FirstTimeout..TimeoutCeiling
                    /\ k = 1 => longer[k].timeout = FirstTimeout
                    /\ k > 1 => Follows(longer[k - 1], longer[k].timeout)
  BY <1>1 DEF Regular, longer
<1>3. CASE k <= Len(log)
  <2>1. k \in DOMAIN log /\ longer[k] = log[k] /\ (k > 1 => longer[k - 1] = log[k - 1])
    BY <1>1, <1>3
  <2> QED
    BY <2>1 DEF Regular
<1>4. CASE k = Len(log) + 1
  <2>1. longer[k] = entry
    BY <1>1, <1>4
  <2>2. k = 1 => log = <<>>
    BY <1>1, <1>2, <1>4
  <2>3. k > 1 => log # <<>> /\ longer[k - 1] = log[Len(log)]
    BY <1>1, <1>2, <1>4
  <2> QED
    BY <2>1, <2>2, <2>3 DEF Fits
<1> QED
  BY <1>1, <1>3, <1>4

-------------------------------------------------------------------------------
(***************************************************************************)
(* What an action of one client leaves to the others.                      *)
(***************************************************************************)

LEMMA ScheduleFrame ==
    ASSUME NEW c \in Client, Schedule(c), pc'[c] = pc[c], job'[c] = job[c]
    PROVE  Schedule(c)'
BY DEF Schedule

LEMMA OthersSend ==
    ASSUME IInv, SInv, NEW c \in Client, NEW d \in Client, c # d,
           \A e \in Client : e # c => pc'[e] = pc[e] /\ job'[e] = job[e] /\ inbox'[e] = inbox[e],
           pc'[c] # "idle" => pc[d] = "idle" \/ job'[c].no # job[d].no,
           started \in Nat, started' \in Nat, started <= started',
           \A r \in handling' : r \in handling \/ pc[d] = "idle" \/ r.no # job[d].no
    PROVE  Sending(d)'
<1>1. pc'[d] = pc[d] /\ job'[d] = job[d] /\ inbox'[d] = inbox[d]
  OBVIOUS
<1> SUFFICES ASSUME pc[d] # "idle"
             PROVE  /\ job[d].no <= started'
                    /\ \A e \in Client : e # d /\ pc'[e] # "idle" => job'[e].no # job[d].no
                    /\ \A r \in handling' : r.no = job[d].no => InHand(d, r)'
  BY <1>1 DEF Sending
<1>2. /\ job[d].no <= started
      /\ \A e \in Client : e # d /\ pc[e] # "idle" => job[e].no # job[d].no
      /\ \A r \in handling : r.no = job[d].no => InHand(d, r)
  BY DEF SInv, Sending
<1>3. job[d].no <= started'
  <2>1. job[d].no \in Nat
    BY BusyJob DEF IInv, Job
  <2> QED
    BY <1>2, <2>1
<1>4. ASSUME NEW e \in Client, e # d, pc'[e] # "idle" PROVE job'[e].no # job[d].no
  BY <1>2, <1>4
<1>5. ASSUME NEW r \in handling', r.no = job[d].no PROVE InHand(d, r)'
  <2>1. InHand(d, r)
    BY <1>2, <1>5
  <2> QED
    BY <1>1, <2>1 DEF InHand
<1> QED
  BY <1>3, <1>4, <1>5

\* A job that is over leaves its requests behind.
LEMMA ScheduleIdle ==
    ASSUME IInv, SInv, NEW c \in Client, pc' = [pc EXCEPT ![c] = "idle"],
           job' = [job EXCEPT ![c] = <<>>], \A d \in Client : d # c => inbox'[d] = inbox[d],
           UNCHANGED <<handling, started>>
    PROVE  SInv'
<1>1. pc'[c] = "idle" /\ \A d \in Client : d # c => pc'[d] = pc[d] /\ job'[d] = job[d]
  BY DEF IInv, TypeOK
<1>2. started \in Nat
  BY DEF IInv, TypeOK
<1>3. Numbered'
  BY DEF SInv, Numbered
<1>4. ASSUME NEW d \in Client PROVE Schedule(d)' /\ Sending(d)'
  <2>1. CASE d = c
    BY <1>1, <2>1 DEF Schedule, Sending
  <2>2. CASE d # c
    <3>1. Schedule(d)'
      BY <1>1, <2>2, ScheduleFrame DEF SInv
    <3>2. Sending(d)'
      BY <1>1, <1>2, <2>2, OthersSend
    <3> QED
      BY <3>1, <3>2
  <2> QED
    BY <2>1, <2>2
<1> QED
  BY <1>3, <1>4 DEF SInv

\* A new job has a number of its own and its first timeout.
LEMMA ScheduleBegin ==
    ASSUME IInv, SInv, NEW c \in Client, NEW payload, NEW copy, Begin(c, payload, copy)
    PROVE  SInv'
<1>1. /\ pc[c] = "idle" /\ pc'[c] = "send"
      /\ job'[c].log = <<>> /\ job'[c].timeout = FirstTimeout /\ job'[c].no = started + 1
      /\ \A d \in Client : d # c => pc'[d] = pc[d] /\ job'[d] = job[d]
      /\ started \in Nat /\ started' = started + 1
      /\ UNCHANGED <<inbox, handling>>
  BY DEF Begin, IInv, TypeOK
<1>2. \A d \in Client : pc[d] # "idle" => job[d].no \in Nat /\ job[d].no <= started
  BY BusyJob DEF IInv, SInv, Sending, Job
<1>3. \A r \in handling : r.no \in Nat /\ r.no <= started
  BY DEF IInv, TypeOK, RequestType, SInv, Numbered
<1>4. Numbered'
  BY <1>1, <1>3 DEF Numbered
<1>5. Schedule(c)'
  <2>1. Regular(job'[c].log) /\ Len(job'[c].log) = 0
    BY <1>1 DEF Regular
  <2>2. FirstTimeout \in FirstTimeout..TimeoutCeiling
    BY TimeoutsNat DEF TimeoutCeiling, AtLeast
  <2>3. 0 < MaxAttempts /\ 0 <= MaxAttempts
    BY PolicyType DEF MaxAttempts, AtLeast
  <2> QED
    BY <1>1, <2>1, <2>2, <2>3 DEF Schedule, Fits
<1>6. Sending(c)'
  <2>1. \A d \in Client : d # c /\ pc'[d] # "idle" => job'[d].no # started + 1
    BY <1>1, <1>2
  <2>2. \A r \in handling' : r.no # started + 1
    BY <1>1, <1>3
  <2> QED
    BY <1>1, <2>1, <2>2 DEF Sending
<1>7. ASSUME NEW d \in Client, d # c PROVE Schedule(d)' /\ Sending(d)'
  <2>1. Schedule(d)'
    BY <1>1, <1>7, ScheduleFrame DEF SInv
  <2>2. pc[d] = "idle" \/ job'[c].no # job[d].no
    BY <1>1, <1>2
  <2>3. Sending(d)'
    BY <1>1, <1>7, <2>2, OthersSend
  <2> QED
    BY <2>1, <2>3
<1> QED
  BY <1>4, <1>5, <1>6, <1>7 DEF SInv

\* The request that leaves is that of the attempt that begins.
LEMMA ScheduleSend == ASSUME IInv, SInv, NEW c \in Client, Send(c) PROVE SInv'
<1>1. job[c] \in Job /\ inbox[c] = <<>>
  BY BusyJob DEF Send, IInv, Grounded, Inbox
<1>2. /\ pc[c] = "send" /\ pc'[c] = "wait" /\ job'[c] = [job[c] EXCEPT !.sent = now]
      /\ \A d \in Client : d # c => pc'[d] = pc[d] /\ job'[d] = job[d]
      /\ started \in Nat
      /\ UNCHANGED <<inbox, started>>
      /\ handling' \subseteq handling \cup {Request(c)}
  BY DEF Send, IInv, TypeOK
<1>3. /\ job'[c].no = job[c].no /\ job'[c].payload = job[c].payload
      /\ job'[c].timeout = job[c].timeout /\ job'[c].log = job[c].log
      /\ Len(job[c].log) \in Nat
  BY <1>1, <1>2 DEF Job
<1>4. /\ Request(c).no = job[c].no /\ Request(c).payload = job[c].payload
      /\ Request(c).attempt = Len(job[c].log) + 1
  BY DEF Request
<1>5. /\ job[c].no <= started
      /\ \A d \in Client : d # c /\ pc[d] # "idle" => job[d].no # job[c].no
      /\ \A r \in handling : r.no = job[c].no => InHand(c, r)
  BY <1>2 DEF SInv, Sending
<1>6. Numbered'
  BY <1>2, <1>4, <1>5 DEF SInv, Numbered
<1>7. Schedule(c)'
  BY <1>2, <1>3 DEF SInv, Schedule
<1>8. Sending(c)'
  <2>1. ASSUME NEW r \in handling', r.no = job[c].no PROVE InHand(c, r)'
    <3>1. CASE r \in handling
      <4>1. InHand(c, r)
        BY <1>5, <2>1, <3>1
      <4>2. r.attempt # Len(job[c].log) + 1
        BY <1>2, <4>1 DEF InHand
      <4> QED
        BY <1>3, <4>1, <4>2 DEF InHand
    <3>2. CASE r = Request(c)
      BY <1>1, <1>2, <1>3, <1>4, <3>2 DEF InHand
    <3> QED
      BY <1>2, <2>1, <3>1, <3>2
  <2> QED
    BY <1>2, <1>3, <1>5, <2>1 DEF Sending
<1>9. ASSUME NEW d \in Client, d # c PROVE Schedule(d)' /\ Sending(d)'
  <2>1. Schedule(d)'
    BY <1>2, <1>9, ScheduleFrame DEF SInv
  <2>2. pc[d] = "idle" \/ job[c].no # job[d].no
    BY <1>5, <1>9
  <2>3. /\ \A e \in Client : e # c => pc'[e] = pc[e] /\ job'[e] = job[e] /\ inbox'[e] = inbox[e]
        /\ pc[d] = "idle" \/ job'[c].no # job[d].no
        /\ started \in Nat /\ started' = started
        /\ \A r \in handling' : r \in handling \/ pc[d] = "idle" \/ r.no # job[d].no
    BY <1>2, <1>3, <1>4, <1>9, <2>2
  <2>4. Sending(d)'
    BY <1>9, <2>3, OthersSend
  <2> QED
    BY <2>1, <2>4
<1> QED
  BY <1>6, <1>7, <1>8, <1>9 DEF SInv

\* An attempt that ends without an answer is logged as such; one that was answered is
\* no longer in the server's hands.
LEMMA ScheduleJudge ==
    ASSUME IInv, SInv, NEW c \in Client, NEW class \in FailureClass, NEW ok, Judge(c, class, ok),
           class \in {"timeout", "request_error"} \/ inbox[c] # <<>>
    PROVE  SInv'
<1> DEFINE n == Len(job[c].log) + 1
           again == n < MaxAttempts /\ Retryable(class)
           entry == [class |-> class, timeout |-> job[c].timeout,
                     wait |-> IF again THEN NextBackoff(class, n) ELSE 0]
           log == Append(job[c].log, entry)
<1>1. job[c] \in Job /\ pc[c] = "wait"
  BY BusyJob DEF Judge, IInv
<1>2. /\ job'[c] = [job[c] EXCEPT !.log = log, !.ok = ok]
      /\ pc'[c] = IF again THEN "backoff" ELSE "save"
      /\ \A d \in Client : d # c => pc'[d] = pc[d] /\ job'[d] = job[d] /\ inbox'[d] = inbox[d]
      /\ started \in Nat
      /\ UNCHANGED <<handling, started>>
  BY <1>1 DEF Judge, IInv, TypeOK
<1>3. /\ job[c].log \in Seq(Attempt) /\ Len(job[c].log) \in Nat /\ n \in Nat
      /\ job[c].timeout \in Nat
  BY <1>1 DEF Job
<1>4. entry \in Attempt /\ entry.class = class /\ entry.timeout = job[c].timeout
      /\ (again => entry.wait = NextBackoff(class, n))
  BY <1>3, BackoffNat DEF Attempt
<1> HIDE DEF entry
<1>5. /\ Len(log) = n /\ log # <<>> /\ log[n] = entry
      /\ \A k \in 1..Len(job[c].log) : log[k] = job[c].log[k]
  BY <1>3, <1>4
<1>6. /\ Regular(job[c].log) /\ job[c].timeout \in FirstTimeout..TimeoutCeiling
      /\ Len(job[c].log) < MaxAttempts /\ Fits(job[c].log, job[c].timeout)
  BY <1>1 DEF SInv, Schedule
<1>7. Regular(log)
  BY <1>3, <1>4, <1>6, RegularAppend
<1> HIDE DEF log
<1>8. /\ job'[c].no = job[c].no /\ job'[c].payload = job[c].payload
      /\ job'[c].timeout = job[c].timeout /\ job'[c].log = log
  BY <1>1, <1>2 DEF Job
<1>9. MaxAttempts \in Int
  BY PolicyType DEF MaxAttempts, AtLeast
<1>10. Schedule(c)'
  <2>1. again => Follows(log[Len(log)], job[c].timeout)
    BY <1>3, <1>4, <1>5, BackoffLong DEF Follows
  <2>2. Len(log) <= MaxAttempts
    BY <1>3, <1>5, <1>6, <1>9
  <2> QED
    BY <1>2, <1>5, <1>6, <1>7, <1>8, <2>1, <2>2 DEF Schedule, Fits
<1>11. Sending(c)'
  <2>1. /\ job[c].no <= started
        /\ \A d \in Client : d # c /\ pc[d] # "idle" => job[d].no # job[c].no
        /\ \A r \in handling : r.no = job[c].no => InHand(c, r)
    BY <1>1 DEF SInv, Sending
  <2>2. ASSUME NEW r \in handling, r.no = job[c].no PROVE InHand(c, r)'
    <3>1. InHand(c, r)
      BY <2>1, <2>2
    <3>2. r.attempt \in 1..n /\ r.attempt # n + 1
      BY <1>3, <3>1 DEF InHand
    <3>3. log[r.attempt].class \in {"timeout", "request_error"}
      <4>1. CASE r.attempt = n
        BY <1>4, <1>5, <3>1, <4>1 DEF InHand
      <4>2. CASE r.attempt # n
        <5>1. job[c].log[r.attempt].class \in {"timeout", "request_error"}
          BY <3>1, <4>2 DEF InHand
        <5>2. r.attempt \in 1..Len(job[c].log)
          BY <1>3, <3>2, <4>2
        <5> QED
          BY <1>5, <5>1, <5>2
      <4> QED
        BY <4>1, <4>2
    <3> QED
      BY <1>3, <1>5, <1>8, <3>1, <3>2, <3>3 DEF InHand
  <2> QED
    BY <1>2, <1>8, <2>1, <2>2 DEF Sending
<1>12. ASSUME NEW d \in Client, d # c PROVE Schedule(d)' /\ Sending(d)'
  <2>1. Schedule(d)'
    BY <1>2, <1>12, ScheduleFrame DEF SInv
  <2>2. pc[d] = "idle" \/ job[c].no # job[d].no
    BY <1>1, <1>12 DEF SInv, Sending
  <2>3. /\ \A e \in Client : e # c => pc'[e] = pc[e] /\ job'[e] = job[e] /\ inbox'[e] = inbox[e]
        /\ pc[d] = "idle" \/ job'[c].no # job[d].no
        /\ started \in Nat /\ started' = started
        /\ \A r \in handling' : r \in handling \/ pc[d] = "idle" \/ r.no # job[d].no
    BY <1>2, <1>8, <1>12, <2>2
  <2>4. Sending(d)'
    BY <1>12, <2>3, OthersSend
  <2> QED
    BY <2>1, <2>4
<1>13. Numbered'
  BY <1>2 DEF SInv, Numbered
<1> QED
  BY <1>10, <1>11, <1>12, <1>13 DEF SInv

\* The three ways an attempt ends.
LEMMA ScheduleAnswered ==
    ASSUME IInv, SInv, NEW c \in Client, Receive(c) \/ TimeOut(c) \/ RequestError(c)
    PROVE  SInv'
<1>1. CASE Receive(c)
  <2>1. inbox[c][1] \in Answers
    BY <1>1 DEF IInv, Grounded, Inbox, Receive
  <2>2. Classify(inbox[c][1]) \in FailureClass
    BY <2>1, ClassOfAnswer
  <2> QED
    BY <1>1, <2>2, ScheduleJudge DEF Receive
<1>2. CASE TimeOut(c) \/ RequestError(c)
  <2>1. "timeout" \in FailureClass /\ "request_error" \in FailureClass
    BY DEF FailureClass
  <2> QED
    BY <1>2, <2>1, ScheduleJudge DEF TimeOut, RequestError
<1> QED
  BY <1>1, <1>2

\* The next timeout follows the last attempt.
LEMMA ScheduleRetry == ASSUME IInv, SInv, NEW c \in Client, Retry(c) PROVE SInv'
<1> DEFINE timeout == IF LastClass(c) = "timeout" THEN Scaled(job[c].timeout) ELSE job[c].timeout
<1>1. job[c] \in Job /\ pc[c] = "backoff"
  BY BusyJob DEF Retry, IInv
<1>2. /\ job'[c] = [job[c] EXCEPT !.timeout = timeout]
      /\ pc'[c] = "send"
      /\ \A d \in Client : d # c => pc'[d] = pc[d] /\ job'[d] = job[d]
      /\ started \in Nat
      /\ UNCHANGED <<inbox, handling, started>>
  BY <1>1 DEF Retry, IInv, TypeOK
<1>3. /\ Regular(job[c].log) /\ job[c].timeout \in FirstTimeout..TimeoutCeiling
      /\ Len(job[c].log) < MaxAttempts /\ Len(job[c].log) <= MaxAttempts
      /\ job[c].log # <<>>
      /\ Follows(job[c].log[Len(job[c].log)], job[c].timeout)
  BY <1>1 DEF SInv, Schedule, Fits
<1>4. timeout \in job[c].timeout..TimeoutCeiling /\ (timeout # job[c].timeout => LastClass(c) = "timeout")
  BY <1>3, ScaledGrows, TimeoutsNat
<1> HIDE DEF timeout
<1>5. timeout \in FirstTimeout..TimeoutCeiling /\ timeout \in Nat /\ job[c].timeout \in Nat
  BY <1>3, <1>4, TimeoutsNat
<1>6. Follows(job[c].log[Len(job[c].log)], timeout)
  <2>1. job[c].log \in Seq(Attempt)
    BY <1>1 DEF Job
  <2>2. job[c].log[Len(job[c].log)] \in Attempt
    BY <1>3, <2>1
  <2>3. job[c].log[Len(job[c].log)].timeout \in Nat
    BY <2>2 DEF Attempt
  <2> QED
    BY <1>3, <1>4, <1>5, <2>3 DEF Follows, LastClass
<1>7. /\ job'[c].no = job[c].no /\ job'[c].payload = job[c].payload
      /\ job'[c].timeout = timeout /\ job'[c].log = job[c].log
  BY <1>1, <1>2 DEF Job
<1>8. Schedule(c)'
  BY <1>2, <1>3, <1>5, <1>6, <1>7 DEF Schedule, Fits
<1>9. Sending(c)'
  <2>1. /\ job[c].no <= started
        /\ \A d \in Client : d # c /\ pc[d] # "idle" => job[d].no # job[c].no
        /\ \A r \in handling : r.no = job[c].no => InHand(c, r)
    BY <1>1 DEF SInv, Sending
  <2>2. \A r \in handling : r.no = job[c].no => InHand(c, r)'
    BY <1>1, <1>7, <2>1 DEF InHand
  <2> QED
    BY <1>2, <1>7, <2>1, <2>2 DEF Sending
<1>10. ASSUME NEW d \in Client, d # c PROVE Schedule(d)' /\ Sending(d)'
  <2>1. Schedule(d)'
    BY <1>2, <1>10, ScheduleFrame DEF SInv
  <2>2. pc[d] = "idle" \/ job[c].no # job[d].no
    BY <1>1, <1>10 DEF SInv, Sending
  <2>3. /\ \A e \in Client : e # c => pc'[e] = pc[e] /\ job'[e] = job[e] /\ inbox'[e] = inbox[e]
        /\ pc[d] = "idle" \/ job'[c].no # job[d].no
        /\ started \in Nat /\ started' = started
        /\ \A r \in handling' : r \in handling \/ pc[d] = "idle" \/ r.no # job[d].no
    BY <1>2, <1>7, <1>10, <2>2
  <2>4. Sending(d)'
    BY <1>10, <2>3, OthersSend
  <2> QED
    BY <2>1, <2>4
<1>11. Numbered'
  BY <1>2 DEF SInv, Numbered
<1> QED
  BY <1>8, <1>9, <1>10, <1>11 DEF SInv

\* An answer takes the request out of the server's hands, and no other request is that of
\* the attempt it answers.
LEMMA ScheduleFinish ==
    ASSUME IInv, SInv, NEW r \in handling, FinishRequest(r)
    PROVE  SInv'
<1>1. /\ handling' = handling \ {r}
      /\ \A c \in Client : ~Waits(c, r) => inbox'[c] = inbox[c]
      /\ UNCHANGED <<pc, job, started>>
  BY DEF FinishRequest, IInv, TypeOK
<1>2. ASSUME NEW c \in Client, pc[c] # "idle", NEW q \in handling', q.no = job[c].no
      PROVE  InHand(c, q)'
  <2>1. InHand(c, q) /\ q # r /\ q \in handling
    BY <1>1, <1>2 DEF SInv, Sending
  <2>2. CASE q.attempt = Len(job[c].log) + 1
    <3>1. q \in RequestType
      BY <2>1 DEF IInv, TypeOK
    <3>2. q = Request(c)
      BY <1>2, <2>1, <2>2, <3>1 DEF RequestType, Request, InHand
    <3>3. ~Waits(c, r)
      BY <2>1, <3>2 DEF Waits
    <3> QED
      BY <1>1, <2>1, <3>3 DEF InHand
  <2>3. CASE q.attempt # Len(job[c].log) + 1
    BY <1>1, <2>1, <2>3 DEF InHand
  <2> QED
    BY <2>2, <2>3
<1>3. ASSUME NEW c \in Client PROVE Schedule(c)' /\ Sending(c)'
  <2>1. Schedule(c)'
    BY <1>1, ScheduleFrame DEF SInv
  <2>2. Sending(c)'
    BY <1>1, <1>2 DEF SInv, Sending
  <2> QED
    BY <2>1, <2>2
<1>4. Numbered'
  BY <1>1 DEF SInv, Numbered
<1> QED
  BY <1>3, <1>4 DEF SInv

LEMMA ScheduleInit == Init => SInv
BY DEF Init, SInv, Numbered, Schedule, Sending

\* One lemma for each group of actions.
LEMMA ScheduleNext == IInv /\ SInv /\ [Next]_vars => SInv'
<1> SUFFICES ASSUME IInv, SInv, [Next]_vars PROVE SInv'
  OBVIOUS
<1>1. ASSUME UNCHANGED <<pc, job, inbox, handling, started>> PROVE SInv'
  BY <1>1 DEF SInv, Numbered, Schedule, Sending, InHand
<1>2. CASE Tick
  BY <1>1, <1>2 DEF Tick
<1>3. ASSUME NEW c \in Client, StartJob(c) \/ StartReprocess(c) PROVE SInv'
  BY <1>3, ScheduleBegin DEF StartJob, StartReprocess
<1>4. ASSUME NEW c \in Client, EndJob(c) \/ EndReprocess(c) PROVE SInv'
  <2>1. /\ pc' = [pc EXCEPT ![c] = "idle"] /\ job' = [job EXCEPT ![c] = <<>>]
        /\ UNCHANGED <<inbox, handling, started>>
    BY <1>4 DEF EndJob, EndReprocess, Leave
  <2> QED
    BY <2>1, ScheduleIdle
<1>5. ASSUME NEW c \in Client, Kill(c) PROVE SInv'
  <2>1. \A d \in Client : d # c => inbox'[d] = inbox[d]
    BY <1>5 DEF Kill, IInv, TypeOK
  <2> QED
    BY <1>5, <2>1, ScheduleIdle DEF Kill
<1>6. ASSUME NEW c \in Client, JobStep(c) \/ RequestError(c) PROVE SInv'
  BY <1>4, <1>6, ScheduleSend, ScheduleAnswered, ScheduleRetry DEF JobStep
<1>7. ASSUME NEW r \in handling, FinishRequest(r) PROVE SInv'
  BY <1>7, ScheduleFinish
<1>8. CASE UNCHANGED vars
  BY <1>1, <1>8 DEF vars
<1> QED
  BY <1>2, <1>3, <1>5, <1>6, <1>7, <1>8 DEF Next

LEMMA ScheduleInvariance == Spec => [](IInv /\ SInv)
BY InvInit, InvNext, ScheduleInit, ScheduleNext, PTL DEF Spec

\* Every job keeps to the retry policy, for any policy, clients, payloads and answers:
\* no more attempts than allowed, none after a failure that is not worth one, timeouts
\* that start at --timeout, grow after a timeout only and never beyond the ceiling, and
\* the waits promised after timeouts and server failures.
THEOREM ScheduleTheorem == Spec => []ScheduleKept
<1>1. IInv /\ SInv => ScheduleKept
  <2> SUFFICES ASSUME IInv, SInv, NEW c \in Client, pc[c] # "idle"
               PROVE  /\ Len(job[c].log) <= MaxAttempts
                      /\ pc[c] \in {"send", "wait"} => Len(job[c].log) < MaxAttempts
                      /\ Regular(job[c].log)
    BY DEF ScheduleKept, Regular, Follows, Retryable
  <2> QED
    BY DEF SInv, Schedule
<1> QED
  BY <1>1, ScheduleInvariance, PTL

\* Whatever the clients, the policy and the server: two requests of a job are in the
\* server's hands only when the attempt of the earlier one ended without an answer.
THEOREM ResendTheorem == Spec => []ResentOnlyUnanswered
<1>1. IInv /\ SInv => ResentOnlyUnanswered
  <2> SUFFICES ASSUME IInv, SInv, NEW r1 \in handling, NEW r2 \in handling, r1.no = r2.no,
                      r1.attempt < r2.attempt, NEW c \in Client, pc[c] # "idle",
                      job[c].no = r1.no
               PROVE  job[c].log[r1.attempt].class \in {"timeout", "request_error"}
    BY DEF ResentOnlyUnanswered
  <2>1. InHand(c, r1) /\ InHand(c, r2)
    BY DEF SInv, Sending
  <2>2. job[c].log \in Seq(Attempt)
    BY BusyJob DEF IInv, Job
  <2>3. Len(job[c].log) \in Nat
    BY <2>2
  <2>4. r1.attempt # Len(job[c].log) + 1
    BY <2>1, <2>3 DEF InHand
  <2> QED
    BY <2>1, <2>4 DEF InHand
<1> QED
  BY <1>1, ScheduleInvariance, PTL
===============================================================================
