--------------------------- MODULE BatchExecution ---------------------------
(***************************************************************************)
(* One execution on AWS Batch, from the dispatch of its batch_run task to  *)
(* its end.  batch_run marks READY, submits one job per pipeline step,     *)
(* each waiting for the one before, records their ids in                   *)
(* Execution.results["batch_jobs"] and marks RUNNING; an error marks       *)
(* FAILED, forgets the ids and retries the task.  The containers report    *)
(* nothing: monitor_batch_executions polls the recorded jobs.              *)
(* cancel_execution_workflow terminates the recorded jobs.  The sweeps of  *)
(* Docker services and of stale executions exclude batch executions.       *)
(***************************************************************************)
EXTENDS Cancellation, Sequences, FiniteSetsExt

CONSTANTS
  Workers,      (* processes that serve the default queue                    *)
  Dispatches,   (* the numbers of batch_run tasks the queue may have sent    *)
  Steps,        (* steps of the pipeline; 1 is submit_single_job             *)
  MaxRetries,   (* max_retries of batch_run                                  *)
  MaxErrors,    (* bound: exceptions raised by AWS or S3 inside batch_run    *)
  Aging         (* whether _LOOKBACK_DAYS may pass                           *)

ASSUME BatchAssumption ==
  /\ Dispatches \subseteq Nat
  /\ Steps \in Nat \ {0} /\ MaxRetries \in Nat /\ MaxErrors \in Nat
  /\ Aging \in BOOLEAN

VARIABLES
  recorded,    (* the job ids in Execution.results["batch_jobs"]            *)
  jobs,        (* the jobs of AWS Batch, by id, in the order of submission  *)
  runTasks,    (* batch_run messages in the broker, by retry number         *)
  old,         (* start_date is before the lookback window                  *)
  worker,      (* each worker: task, retry number, job ids and verdict      *)
  errors       (* exceptions so far                                         *)

row == <<status, ended, recorded>>
broker == <<runTasks, cancelTasks>>
vars == <<row, jobs, broker, api, old, worker, errors, faults>>

-----------------------------------------------------------------------------
Idle == [task |-> "none", try |-> 0, ids |-> {}, verdict |-> "none"]

Take(w, t) == worker[w].task = "none" /\ worker' = [worker EXCEPT ![w] = t]

Finish(w) == worker' = [worker EXCEPT ![w] = Idle]

(* "ACTIVE" stands for _BATCH_CANCELLABLE, SUBMITTED to RUNNING.            *)
States(ids) == {jobs[j].state : j \in ids}

Resend(n) == runTasks' = [runTasks EXCEPT ![n] = @ + 1]

-----------------------------------------------------------------------------
(* batch_run                                                               *)

(* READY is written whatever the status was. *)
BatchReady(w) ==
  \E n \in 0..MaxRetries :
    /\ runTasks[n] > 0
    /\ runTasks' = [runTasks EXCEPT ![n] = @ - 1]
    /\ Take(w, [Idle EXCEPT !.task = "run", !.try = n])
    /\ status' = "READY"
    /\ UNCHANGED <<ended, recorded, jobs, cancelTasks, api, old, errors, faults>>

(* Steps are submitted in order, each dependent on the previous one. *)
SubmitStep(w) ==
  LET ids == worker[w].ids
  IN /\ worker[w].task = "run"
     /\ Cardinality(ids) < Steps
     /\ jobs' = Append(jobs, [step  |-> Cardinality(ids) + 1,
                              after |-> IF ids = {} THEN 0 ELSE Max(ids),
                              state |-> "ACTIVE"])
     /\ worker' = [worker EXCEPT ![w].ids = @ \cup {Len(jobs) + 1}]
     /\ UNCHANGED <<row, broker, api, old, errors, faults>>

(* Mutant: only the last job is remembered. *)
BatchRecordLast(w) ==
  /\ worker[w].task = "run" /\ Cardinality(worker[w].ids) = Steps
  /\ recorded' = {Max(worker[w].ids)}
  /\ SetStatus("RUNNING")
  /\ Finish(w)
  /\ UNCHANGED <<jobs, broker, api, old, errors, faults>>

BatchRecord(w) ==
  /\ worker[w].task = "run" /\ Cardinality(worker[w].ids) = Steps
  /\ recorded' = worker[w].ids
  /\ SetStatus("RUNNING")
  /\ Finish(w)
  /\ UNCHANGED <<jobs, broker, api, old, errors, faults>>

Retry(w) ==
  IF worker[w].try < MaxRetries THEN Resend(worker[w].try + 1) ELSE UNCHANGED runTasks

Raise == errors < MaxErrors /\ errors' = errors + 1

(* An exception anywhere: the jobs already submitted are forgotten. *)
BatchFail(w) ==
  /\ worker[w].task = "run"
  /\ Raise
  /\ SetStatus("FAILED")
  /\ recorded' = {}
  /\ Retry(w)
  /\ Finish(w)
  /\ UNCHANGED <<jobs, cancelTasks, api, old, faults>>

(* The database fails as well: the row keeps what it says. *)
BatchFailUnwritten(w) ==
  /\ worker[w].task = "run"
  /\ Raise /\ Fault
  /\ Retry(w)
  /\ Finish(w)
  /\ UNCHANGED <<row, jobs, cancelTasks, api, old>>

-----------------------------------------------------------------------------
(* AWS Batch                                                               *)

After(j, s) == jobs[j].after # 0 /\ jobs[jobs[j].after].state = s

(* A job that may run ends, at the latest at its attemptDurationSeconds. *)
JobEnds(j) ==
  /\ jobs[j].state = "ACTIVE"
  /\ jobs[j].after = 0 \/ After(j, "SUCCEEDED")
  /\ \E s \in {"SUCCEEDED", "FAILED"} : jobs' = [jobs EXCEPT ![j].state = s]
  /\ UNCHANGED <<row, broker, api, old, worker, errors, faults>>

(* The dependency failed. *)
JobDropped(j) ==
  /\ jobs[j].state = "ACTIVE" /\ After(j, "FAILED")
  /\ jobs' = [jobs EXCEPT ![j].state = "FAILED"]
  /\ UNCHANGED <<row, broker, api, old, worker, errors, faults>>

-----------------------------------------------------------------------------
(* monitor_batch_executions                                                *)

(* Mutant: FAILED rows too, as monitor_failed_docker_services selects them. *)
MonitorSelectFailed(w) ==
  /\ status \in {"READY", "RUNNING", "FAILED"} /\ ~old
  /\ recorded # {}
  /\ Take(w, [Idle EXCEPT !.task = "monitor", !.ids = recorded])
  /\ UNCHANGED <<row, jobs, broker, api, old, errors, faults>>

MonitorSelect(w) ==
  /\ status \in {"READY", "RUNNING"} /\ ~old
  /\ recorded # {}
  /\ Take(w, [Idle EXCEPT !.task = "monitor", !.ids = recorded])
  /\ UNCHANGED <<row, jobs, broker, api, old, errors, faults>>

(* Mutant: one job that succeeded is enough. *)
VerdictAny(ids) ==
  IF "FAILED" \in States(ids) THEN "FAILED"
  ELSE IF "SUCCEEDED" \in States(ids) THEN "FINISHED" ELSE "open"

(* Mutant: FAILED only once all jobs are. *)
VerdictAll(ids) ==
  IF States(ids) = {"FAILED"} THEN "FAILED"
  ELSE IF States(ids) = {"SUCCEEDED"} THEN "FINISHED" ELSE "open"

Verdict(ids) ==
  IF "FAILED" \in States(ids) THEN "FAILED"
  ELSE IF States(ids) = {"SUCCEEDED"} THEN "FINISHED" ELSE "open"

(* A describe_jobs that fails leaves its jobs NOT_FOUND. *)
MonitorDescribe(w) ==
  /\ worker[w].task = "monitor" /\ worker[w].verdict = "none"
  /\ \/ worker' = [worker EXCEPT ![w].verdict = Verdict(worker[w].ids)] /\ UNCHANGED faults
     \/ worker' = [worker EXCEPT ![w].verdict = "open"] /\ Fault
  /\ UNCHANGED <<row, jobs, broker, api, old, errors>>

(* The results, batch_jobs among them, are written as they were read; an    *)
(* open execution whose jobs show nothing new is not written.               *)
MonitorCommit(w) ==
  /\ worker[w].task = "monitor" /\ worker[w].verdict # "none"
  /\ \/ /\ worker[w].verdict = "open"
        /\ recorded' \in {recorded, worker[w].ids}
        /\ UNCHANGED <<status, ended>>
     \/ /\ worker[w].verdict # "open"
        /\ recorded' = worker[w].ids
        /\ SetStatus(worker[w].verdict)
  /\ Finish(w)
  /\ UNCHANGED <<jobs, broker, api, old, errors, faults>>

-----------------------------------------------------------------------------
(* POST /execution/<id>/cancel and cancel_execution_workflow               *)

Unasked == <<recorded, jobs, runTasks, old, worker, errors>>

CancelRequest(r) == CancelStep(r) /\ UNCHANGED Unasked

CancelContinue(r) == CancelProceed(r) /\ UNCHANGED Unasked

(* The row, with its job ids, is read once. *)
WorkflowStart(w) ==
  /\ cancelTasks > 0 /\ status = "CANCELLING"
  /\ cancelTasks' = cancelTasks - 1
  /\ Take(w, [Idle EXCEPT !.task = "cancel", !.ids = recorded])
  /\ UNCHANGED <<row, jobs, runTasks, api, old, errors, faults>>

WorkflowSkip(w) ==
  /\ cancelTasks > 0 /\ status # "CANCELLING" /\ worker[w].task = "none"
  /\ cancelTasks' = cancelTasks - 1
  /\ UNCHANGED <<row, jobs, runTasks, api, old, worker, errors, faults>>

(* terminate_batch_jobs; its errors are collected, never raised. *)
WorkflowTerminate(w) ==
  /\ worker[w].task = "cancel" /\ worker[w].verdict = "none"
  /\ \/ /\ jobs' = [j \in DOMAIN jobs |->
                      IF j \in worker[w].ids /\ jobs[j].state = "ACTIVE"
                      THEN [jobs[j] EXCEPT !.state = "FAILED"] ELSE jobs[j]]
        /\ UNCHANGED faults
     \/ Fault /\ UNCHANGED jobs
  /\ worker' = [worker EXCEPT ![w].verdict = "CANCELLED"]
  /\ UNCHANGED <<row, broker, api, old, errors>>

WorkflowWrite(w) ==
  /\ worker[w].task = "cancel" /\ worker[w].verdict # "none"
  /\ SetStatus("CANCELLED")
  /\ Finish(w)
  /\ UNCHANGED <<recorded, jobs, broker, api, old, errors, faults>>

(* time_limit: the worker is killed and the message acknowledged. *)
WorkflowTimeout(w) ==
  /\ worker[w].task = "cancel"
  /\ Fault
  /\ Finish(w)
  /\ UNCHANGED <<row, jobs, broker, api, old, errors>>

-----------------------------------------------------------------------------
(* The message of a lost worker comes back with its retry number; the      *)
(* monitor is started again by beat.                                       *)
Crash(w) ==
  /\ worker[w].task # "none"
  /\ Fault
  /\ IF worker[w].task = "run" THEN Resend(worker[w].try) ELSE UNCHANGED runTasks
  /\ cancelTasks' = cancelTasks + (IF worker[w].task = "cancel" THEN 1 ELSE 0)
  /\ Finish(w)
  /\ UNCHANGED <<row, jobs, api, old, errors>>

GrowOld ==
  /\ Aging /\ ~old
  /\ old' = TRUE
  /\ UNCHANGED <<row, jobs, broker, api, worker, errors, faults>>

-----------------------------------------------------------------------------
Init ==
  /\ status = "PENDING" /\ ended = FALSE /\ recorded = {}
  /\ jobs = << >>
  /\ \E n \in Dispatches :
       runTasks = [k \in 0..MaxRetries |-> IF k = 0 THEN n ELSE 0]
  /\ CancelInit
  /\ old = FALSE
  /\ worker = [w \in Workers |-> Idle]
  /\ errors = 0 /\ faults = 0

Run(w) ==
  BatchReady(w) \/ SubmitStep(w) \/ BatchRecord(w) \/ BatchFail(w) \/ BatchFailUnwritten(w)

Monitor(w) == MonitorSelect(w) \/ MonitorDescribe(w) \/ MonitorCommit(w)

Workflow(w) ==
  \/ WorkflowStart(w) \/ WorkflowSkip(w) \/ WorkflowTerminate(w)
  \/ WorkflowWrite(w) \/ WorkflowTimeout(w)

AwsBatch == \E j \in DOMAIN jobs : JobEnds(j) \/ JobDropped(j)

Next ==
  \/ \E w \in Workers : Run(w) \/ Monitor(w) \/ Workflow(w) \/ Crash(w)
  \/ \E r \in Requests : CancelRequest(r)
  \/ AwsBatch \/ GrowOld

Spec == Init /\ [][Next]_vars

Continue(w) ==
  \/ SubmitStep(w) \/ BatchRecord(w) \/ MonitorDescribe(w) \/ MonitorCommit(w)
  \/ WorkflowTerminate(w) \/ WorkflowWrite(w)

(* A worker takes a message from the broker. *)
Receive(w) == BatchReady(w) \/ WorkflowStart(w) \/ WorkflowSkip(w)

(* Workers go on; messages are taken and the monitor that beat starts every *)
(* two minutes is run; accepted requests are served; AWS Batch starts each  *)
(* job and ends it at its timeout.  Time need not pass: the lookback window *)
(* may or may not hold an execution until its jobs end.                     *)
Fairness ==
  /\ \A w \in Workers : WF_vars(Continue(w))
  /\ SF_vars(\E w \in Workers : Receive(w))
  /\ SF_vars(\E w \in Workers : MonitorSelect(w))
  /\ \A r \in Requests : WF_vars(CancelContinue(r))
  /\ WF_vars(AwsBatch)

FairSpec == Spec /\ Fairness

-----------------------------------------------------------------------------
(* Properties                                                              *)

JobType == [step : Nat, after : Nat, state : {"ACTIVE", "SUCCEEDED", "FAILED"}]

WorkerType ==
  [task : {"none", "run", "monitor", "cancel"}, try : 0..MaxRetries,
   ids : SUBSET DOMAIN jobs,
   verdict : {"none", "open", "FINISHED", "FAILED", "CANCELLED"}]

(* Every variable keeps its type; ids that are recorded in the row, or held *)
(* by a worker, are ids of jobs.                                            *)
TypeOK ==
  /\ status \in Status /\ ended \in BOOLEAN
  /\ jobs \in Seq(JobType)
  /\ recorded \in SUBSET DOMAIN jobs
  /\ runTasks \in [0..MaxRetries -> Nat]
  /\ CancelType
  /\ old \in BOOLEAN
  /\ worker \in [Workers -> WorkerType]
  /\ errors \in Nat /\ faults \in Nat

(* An execution is FINISHED only if the last step of some submission of its *)
(* pipeline succeeded, and so each step before it: neither a retry, nor a   *)
(* redelivered batch_run, nor a monitor that holds the ids of an earlier    *)
(* submission ever makes the monitor report a pipeline that did not run.    *)
WholePipelineDone ==
  status = "FINISHED" =>
    \E j \in DOMAIN jobs : jobs[j].step = Steps /\ jobs[j].state = "SUCCEEDED"

(* While nothing went wrong and the pipeline was submitted once, each job   *)
(* that AWS still runs is known: the row names it, so that the monitor and  *)
(* a cancellation can reach it, or batch_run is about to record it.         *)
SubmittedOnce ==
  /\ faults = 0 /\ errors = 0
  /\ Cardinality({j \in DOMAIN jobs : jobs[j].step = 1}) <= 1

JobsTracked ==
  SubmittedOnce =>
    \A j \in DOMAIN jobs :
      \/ jobs[j].state # "ACTIVE"
      \/ j \in recorded
      \/ \E w \in Workers : worker[w].task = "run" /\ j \in worker[w].ids

(* Nobody holds a decision on the row that a later write could bring.       *)
Settled ==
  /\ status \in Terminal
  /\ \A n \in 0..MaxRetries : runTasks[n] = 0
  /\ \A r \in Requests : api[r].pc \notin {"checked", "marked"}
  /\ \A w \in Workers : worker[w].task = "none"

(* Once the retries are used up and every writer is through, a terminal     *)
(* status is final: the monitor never takes up an ended execution, though   *)
(* its jobs, still running or not, stay recorded.                           *)
SettledIsFinal == [][Settled => Settled' /\ status' = status]_vars

(* An execution that was dispatched, within the lookback window and without *)
(* a fault, comes to rest in a terminal status, however often AWS refuses   *)
(* the submission, however its jobs end, and whoever cancels it meanwhile.  *)
ComesToRest == runTasks[0] > 0 => <>[](status \in Terminal)

(* tasks/batch_monitoring.py: "When a Batch job reaches a terminal state,   *)
(* this task updates the Execution record": an execution whose recorded     *)
(* jobs have all ended becomes terminal.                                    *)
JobsEnded ==
  /\ status \in {"READY", "RUNNING"}
  /\ recorded # {} /\ "ACTIVE" \notin States(recorded)

EndedJobsReported == JobsEnded ~> status \in Terminal
=============================================================================
