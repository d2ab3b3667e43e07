-------------------------- MODULE OpenEOExecution ---------------------------
(***************************************************************************)
(* One execution on an openEO back end.  openeo_run starts a job, stores   *)
(* its id in Execution.results["openeo_job_id"] and marks READY;           *)
(* monitor_openeo_jobs polls the job with the credentials its owner has    *)
(* then.  The monitor of Docker services leaves out batch executions only, *)
(* finds no service for this one and fails it; the stale sweep takes it    *)
(* after three days; the cancel workflow looks for a Docker service and    *)
(* leaves the job alone.                                                   *)
(***************************************************************************)
EXTENDS Cancellation, Sequences

CONSTANTS
  Workers,     (* Celery workers                                            *)
  Dispatches   (* the numbers of times openeo_run may be delivered          *)

VARIABLES
  recorded,     (* the job in results["openeo_job_id"], 0 for none          *)
  jobs,         (* the jobs of the back end, in the order they were started *)
  runTasks,     (* deliveries of openeo_run still to come                   *)
  worker,       (* each worker: its task, and what it read or decided       *)
  age           (* 0, or past the windows of 24 hours (1) or 3 days (2)     *)

row == <<status, ended, recorded>>
broker == <<runTasks, cancelTasks>>
vars == <<row, jobs, broker, api, worker, age, faults>>

Idle == [task |-> "none", was |-> "PENDING", job |-> 0, verdict |-> "none"]

Take(w, t) == worker[w] = Idle /\ worker' = [worker EXCEPT ![w].task = t]

TakeRow(w, t) ==
  /\ worker[w] = Idle
  /\ worker' = [worker EXCEPT ![w] = [Idle EXCEPT !.task = t, !.was = status, !.job = recorded]]

Finish(w) == worker' = [worker EXCEPT ![w] = Idle]

(* A column is written when it differs from what the session loaded. *)
Column(w, s) == IF s # worker[w].was THEN s ELSE status

-----------------------------------------------------------------------------
(* openeo_run                                                              *)

RunStart(w) ==
  /\ runTasks > 0 /\ runTasks' = runTasks - 1
  /\ TakeRow(w, "run")
  /\ UNCHANGED <<row, jobs, cancelTasks, api, age, faults>>

(* The environment holds the credentials the owner had at the dispatch. *)
SubmitJob(w) ==
  /\ worker[w].task = "run"
  /\ jobs' = Append(jobs, "running")
  /\ worker' = [worker EXCEPT ![w].task = "submitted", ![w].job = Len(jobs) + 1]
  /\ UNCHANGED <<row, broker, api, age, faults>>

RecordJob(w) ==
  /\ worker[w].task = "submitted"
  /\ recorded' = worker[w].job /\ status' = Column(w, "READY")
  /\ worker' = [worker EXCEPT ![w].task = "recorded", ![w].was = status',
                              ![w].job = 0]
  /\ UNCHANGED <<ended, jobs, broker, api, age, faults>>

LogSubmission(w) ==
  /\ worker[w].task = "recorded" /\ Finish(w)
  /\ UNCHANGED <<row, jobs, broker, api, age, faults>>

(* No back end, no package, bad parameters, an error of the back end, which *)
(* may have taken the job, or of the log: FAILED without end_date, and the  *)
(* results as they were loaded, with the error.  After a failed commit the  *)
(* session loads the row again, or refuses this write as well.              *)
RunFail(w) ==
  /\ worker[w].task \in {"run", "submitted", "recorded"} /\ Finish(w)
  /\ \/ UNCHANGED <<status, recorded>>
     \/ /\ status' = Column(w, "FAILED")
        /\ recorded' = IF worker[w].task = "run" THEN worker[w].job ELSE recorded
  /\ \/ worker[w].task = "run" /\ jobs' = Append(jobs, "running")
     \/ UNCHANGED jobs
  /\ UNCHANGED <<ended, broker, api, age, faults>>

(* The message of a lost worker comes back, as one of Dispatches. *)
WorkerLost(w) ==
  /\ worker[w].task \in {"run", "submitted", "recorded"} /\ Finish(w)
  /\ UNCHANGED <<row, jobs, broker, api, age, faults>>

-----------------------------------------------------------------------------
(* The back end                                                            *)

JobEnds(j) ==
  /\ jobs[j] = "running"
  /\ \E s \in {"finished", "error", "canceled"} : jobs' = [jobs EXCEPT ![j] = s]
  /\ UNCHANGED <<row, broker, api, worker, age, faults>>

-----------------------------------------------------------------------------
(* monitor_openeo_jobs                                                     *)

MonitorSelect(w) ==
  /\ status \in {"READY", "RUNNING"} /\ age < 2
  /\ TakeRow(w, "monitor")
  /\ UNCHANGED <<row, jobs, broker, api, age, faults>>

(* Mutant: every status but running counts as finished. *)
VerdictFinished(s) == IF s = "running" THEN "RUNNING" ELSE "FINISHED"

Verdict(s) ==
  CASE s = "running"  -> "RUNNING"
    [] s = "finished" -> "FINISHED"
    [] s = "error"    -> "FAILED"
    [] s = "canceled" -> "CANCELLED"

(* Without an id or an answer, or when the owner no longer has credentials *)
(* that the job accepts, the execution is passed over.                     *)
Poll(w) ==
  /\ worker[w].task = "monitor"
  /\ \/ /\ worker[w].job # 0
        /\ worker' = [worker EXCEPT ![w].task = "polled",
                                    ![w].verdict = Verdict(jobs[worker[w].job])]
     \/ Finish(w)
  /\ UNCHANGED <<row, jobs, broker, api, age, faults>>

(* The results are written back as they were read, with the job's status. *)
MonitorCommit(w) ==
  LET v == worker[w].verdict IN
  /\ worker[w].task = "polled"
  /\ recorded' = worker[w].job
  /\ status' = Column(w, v)
  /\ ended' = (ended \/ v \in Terminal)
  /\ Finish(w)
  /\ UNCHANGED <<jobs, broker, api, age, faults>>

-----------------------------------------------------------------------------
(* The tasks written for Docker executions                                 *)

(* monitor_failed_docker_services: dispatched_at is not set, so no grace. *)
DockerMonitorSelect(w) ==
  /\ status \in {"READY", "RUNNING"} /\ age = 0
  /\ Take(w, "docker monitor")
  /\ UNCHANGED <<row, jobs, broker, api, age, faults>>

DockerMonitorCommit(w) ==
  /\ worker[w].task = "docker monitor" /\ SetStatus("FAILED") /\ Finish(w)
  /\ UNCHANGED <<recorded, jobs, broker, api, age, faults>>

StaleSelect(w) ==
  /\ age = 2 /\ status \notin Terminal
  /\ Take(w, "stale sweep")
  /\ UNCHANGED <<row, jobs, broker, api, age, faults>>

StaleCommit(w) ==
  /\ worker[w].task = "stale sweep" /\ SetStatus("FAILED") /\ Finish(w)
  /\ UNCHANGED <<recorded, jobs, broker, api, age, faults>>

-----------------------------------------------------------------------------
(* Cancellation                                                            *)

CancelRequest(r) ==
  CancelStep(r) /\ UNCHANGED <<recorded, jobs, runTasks, worker, age>>

WorkflowStart(w) ==
  /\ cancelTasks > 0 /\ cancelTasks' = cancelTasks - 1
  /\ IF status = "CANCELLING" THEN Take(w, "cancel")
     ELSE worker[w] = Idle /\ UNCHANGED worker
  /\ UNCHANGED <<row, jobs, runTasks, api, age, faults>>

(* There is no Docker service to remove; the job is not stopped. *)
WorkflowWrite(w) ==
  /\ worker[w].task = "cancel" /\ SetStatus("CANCELLED") /\ Finish(w)
  /\ UNCHANGED <<recorded, jobs, broker, api, age, faults>>

-----------------------------------------------------------------------------
GetsOlder ==
  /\ age < 2 /\ age' = age + 1
  /\ UNCHANGED <<row, jobs, broker, api, worker, faults>>

Init ==
  /\ status = "PENDING" /\ ended = FALSE /\ recorded = 0 /\ jobs = <<>>
  /\ runTasks \in Dispatches /\ CancelInit
  /\ worker = [w \in Workers |-> Idle]
  /\ age = 0 /\ faults = 0

Run(w) == RunStart(w) \/ SubmitJob(w) \/ RecordJob(w) \/ LogSubmission(w)
          \/ RunFail(w) \/ WorkerLost(w)

Monitor(w) == MonitorSelect(w) \/ Poll(w) \/ MonitorCommit(w)

Sweep(w) ==
  \/ DockerMonitorSelect(w) \/ DockerMonitorCommit(w) \/ StaleSelect(w) \/ StaleCommit(w)

Next ==
  \/ \E w \in Workers :
       Run(w) \/ Monitor(w) \/ Sweep(w) \/ WorkflowStart(w) \/ WorkflowWrite(w)
  \/ \E j \in DOMAIN jobs : JobEnds(j)
  \/ \E r \in Requests : CancelRequest(r)
  \/ GetsOlder

Spec == Init /\ [][Next]_vars

-----------------------------------------------------------------------------
(* The types of the variables. *)
TypeOK ==
  /\ status \in Status /\ ended \in BOOLEAN /\ recorded \in 0..Len(jobs)
  /\ jobs \in Seq({"running", "finished", "error", "canceled"})
  /\ runTasks \in Nat /\ age \in 0..2
  /\ worker \in [Workers -> [task : {"none", "run", "submitted", "recorded", "monitor", "polled",
                                     "docker monitor", "stale sweep", "cancel"},
                             was : Status, job : Nat,
                             verdict : {"none", "RUNNING"} \cup Terminal]]
  /\ CancelType /\ faults \in 0..MaxFaults

(* FINISHED means that a job of this execution finished, through           *)
(* resubmissions after a lost worker and monitors that write back the      *)
(* results they read (openeo_monitoring.py:252-307).                       *)
FinishedMeansDone == status = "FINISHED" => \E j \in DOMAIN jobs : jobs[j] = "finished"

Settled ==
  /\ status \in Terminal /\ runTasks = 0
  /\ \A w \in Workers : worker[w] = Idle
  /\ \A r \in Requests : api[r].pc \in {"new", "done"}

(* Once no task, message or cancel request is on its way, a terminal       *)
(* status is final: of the three monitors and sweeps none selects it.      *)
SettledIsFinal == [][Settled => Settled' /\ status' = status]_vars

(* "The openeo_monitoring periodic task polls the backend and drives all   *)
(* subsequent status transitions" (openeo_service.py:19): once openeo_run  *)
(* is over, an execution is not failed while its job runs.                 *)
Submitted == \A w \in Workers : worker[w].task \notin {"run", "submitted", "recorded"}

RunningNotFailed ==
  [][Submitted /\ recorded # 0 /\ jobs[recorded] = "running" /\ status' = "FAILED"
       => status = "FAILED"]_vars
=============================================================================
