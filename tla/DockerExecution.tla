-------------------------- MODULE DockerExecution --------------------------
(***************************************************************************)
(* One execution on Docker Swarm, from the dispatch of its run task to its *)
(* end, and everything that may write its status meanwhile:                *)
(*                                                                         *)
(*   - docker_run, a Celery task that marks READY and creates the service; *)
(*   - the container, which reports RUNNING, then FINISHED or FAILED, with *)
(*     PATCH requests to the API;                                          *)
(*   - POST /execution/<id>/cancel, which marks CANCELLING and sends a     *)
(*     task, and cancel_execution_workflow, which stops the service and    *)
(*     marks CANCELLED;                                                    *)
(*   - three sweeps that beat starts: monitor_failed_docker_services,      *)
(*     monitor_completed_docker_services, cleanup_stale_executions.        *)
(*                                                                         *)
(* All tasks run on the workers of the build queue.  No row is locked: a   *)
(* task writes the status it decided on, whatever the row says by then.    *)
(* A sweep reads all its rows at once, looks at each Docker service and    *)
(* commits once; seen from one execution that is a selection, a check and  *)
(* a commit, with any delay between them.                                  *)
(***************************************************************************)
EXTENDS Cancellation

CONSTANTS
  Workers,      (* processes that serve the build queue                      *)
  Dispatches    (* the numbers of run tasks the queue may have sent: 0 when
                   the dispatch was lost, more than 1 from overlapping
                   queue processors                                          *)

ASSUME DockerAssumption == Dispatches \subseteq Nat

VARIABLES
  dispatched,  (* Execution.dispatched_at: "never", "recent" within
                  DISPATCH_GRACE_PERIOD_SECONDS, or "past"                   *)
  age,         (* days since Execution.start_date                            *)
  service,     (* the Docker service execution-<id> and its container        *)
  report,      (* the status in a PATCH of the container under way, or "none"*)
  runTasks,    (* docker_run messages in the broker                          *)
  worker       (* each worker: the task it executes                          *)

row == <<status, ended, dispatched>>
broker == <<runTasks, cancelTasks>>
vars == <<row, age, service, report, broker, api, worker, faults>>

-----------------------------------------------------------------------------
Write(s) == SetStatus(s) /\ UNCHANGED dispatched

Idle == [task |-> "none", pc |-> "idle", spared |-> FALSE]

(* A sweep that holds the row; a spared row keeps its status.              *)
Sweep(task, spared) == [task |-> task, pc |-> "check", spared |-> spared]

At(w, task, pc) == worker[w].task = task /\ worker[w].pc = pc

Goto(w, pc) == worker' = [worker EXCEPT ![w].pc = pc]

Finish(w) == worker' = [worker EXCEPT ![w] = Idle]

Start(w, t) == At(w, "none", "idle") /\ worker' = [worker EXCEPT ![w] = t]

-----------------------------------------------------------------------------
(* docker_run                                                              *)

(* READY and dispatched_at are written whatever the status was. *)
RunReady(w) ==
  /\ runTasks > 0
  /\ runTasks' = runTasks - 1
  /\ Start(w, [task |-> "run", pc |-> "upload", spared |-> FALSE])
  /\ status' = "READY"
  /\ dispatched' = "recent"
  /\ UNCHANGED <<ended, age, service, report, cancelTasks, api, faults>>

(* Without Docker the task returns at once: the message is used up. *)
RunNoDocker(w) ==
  /\ runTasks > 0 /\ At(w, "none", "idle")
  /\ Fault
  /\ runTasks' = runTasks - 1
  /\ UNCHANGED <<row, age, service, report, cancelTasks, api, worker>>

(* push_params_to_s3 raises: the row stays READY. *)
RunUploadFail(w) ==
  /\ At(w, "run", "upload")
  /\ Fault
  /\ Finish(w)
  /\ UNCHANGED <<row, age, service, report, broker, api>>

(* The service has restart policy "none": its container starts once. *)
RunCreate(w) ==
  /\ At(w, "run", "upload")
  /\ service = "absent"
  /\ service' = "booting"
  /\ Finish(w)
  /\ UNCHANGED <<row, age, report, broker, api, faults>>

(* The worker dies between the call to Docker and the acknowledgement. *)
RunCreateCrash(w) ==
  /\ At(w, "run", "upload")
  /\ service = "absent"
  /\ Fault
  /\ service' = "booting"
  /\ runTasks' = runTasks + 1
  /\ Finish(w)
  /\ UNCHANGED <<row, age, report, cancelTasks, api>>

(* The name is taken, or Docker refuses: FAILED without an end_date. *)
RunCreateFail(w) ==
  /\ At(w, "run", "upload")
  /\ \/ service # "absent" /\ UNCHANGED faults
     \/ Fault
  /\ status' = "FAILED"
  /\ Finish(w)
  /\ UNCHANGED <<ended, dispatched, age, service, report, broker, api>>

-----------------------------------------------------------------------------
(* The container, a program of its own, and PATCH /execution/<id>          *)

ContainerBoots ==
  /\ service = "booting" /\ report = "none"
  /\ service' = "working"
  /\ report' = "RUNNING"
  /\ UNCHANGED <<row, age, broker, api, worker, faults>>

ContainerEnds ==
  /\ service = "working" /\ report = "none"
  /\ \/ report' = "FINISHED" /\ service' = "complete"
     \/ report' = "FAILED" /\ service' \in {"complete", "failed"}
  /\ UNCHANGED <<row, age, broker, api, worker, faults>>

ContainerCrashes ==
  /\ service \in {"booting", "working"}
  /\ Fault
  /\ service' = "failed"
  /\ UNCHANGED <<row, age, report, broker, api, worker>>

(* The node goes down or is drained: the task shows "shutdown", not a      *)
(* failure, and the restart policy "none" starts no other.                 *)
NodeLost ==
  /\ service \in {"booting", "working"}
  /\ Fault
  /\ service' = "shutdown"
  /\ UNCHANGED <<row, age, report, broker, api, worker>>

(* update_execution looks at no status before it writes this one. *)
UpdateExecution ==
  /\ report # "none"
  /\ Write(report)
  /\ report' = "none"
  /\ UNCHANGED <<age, service, broker, api, worker, faults>>

-----------------------------------------------------------------------------
(* POST /execution/<id>/cancel, see Cancellation                           *)

Unasked == <<dispatched, age, service, report, runTasks, worker>>

CancelRequest(r) == CancelStep(r) /\ UNCHANGED Unasked

CancelContinue(r) == CancelProceed(r) /\ UNCHANGED Unasked

-----------------------------------------------------------------------------
(* cancel_execution_workflow                                               *)

WorkflowStart(w) ==
  /\ cancelTasks > 0 /\ status = "CANCELLING"
  /\ cancelTasks' = cancelTasks - 1
  /\ Start(w, [task |-> "cancel", pc |-> "docker", spared |-> FALSE])
  /\ UNCHANGED <<row, age, service, report, runTasks, api, faults>>

(* Any other status: the task ends and its message is gone. *)
WorkflowSkip(w) ==
  /\ cancelTasks > 0 /\ status # "CANCELLING" /\ At(w, "none", "idle")
  /\ cancelTasks' = cancelTasks - 1
  /\ UNCHANGED <<row, age, service, report, runTasks, api, worker, faults>>

(* cancel_execution_task; its errors are collected, never raised. *)
WorkflowDocker(w) ==
  /\ At(w, "cancel", "docker")
  /\ \/ service' = "absent" /\ UNCHANGED faults
     \/ Fault /\ UNCHANGED service
  /\ Goto(w, "write")
  /\ UNCHANGED <<row, age, report, broker, api>>

WorkflowWrite(w) ==
  /\ At(w, "cancel", "write")
  /\ Write("CANCELLED")
  /\ Finish(w)
  /\ UNCHANGED <<age, service, report, broker, api, faults>>

(* time_limit: the worker is killed and the message acknowledged. *)
WorkflowTimeout(w) ==
  /\ worker[w].task = "cancel"
  /\ Fault
  /\ Finish(w)
  /\ UNCHANGED <<row, age, service, report, broker, api>>

-----------------------------------------------------------------------------
(* The sweeps                                                              *)

(* Mutant: PENDING rows too, as docs/background-tasks.md has it. *)
MonitorSelectPending(w) ==
  /\ status \in {"PENDING", "READY", "RUNNING", "FAILED"}
  /\ age = 0
  /\ dispatched # "recent"
  /\ Start(w, Sweep("failed", status = "FAILED"))
  /\ UNCHANGED <<row, age, service, report, broker, api, faults>>

(* monitor_failed_docker_services: a FAILED row keeps its status. *)
MonitorSelect(w) ==
  /\ status \in {"READY", "RUNNING", "FAILED"}
  /\ age = 0
  /\ dispatched # "recent"
  /\ Start(w, Sweep("failed", status = "FAILED"))
  /\ UNCHANGED <<row, age, service, report, broker, api, faults>>

(* No service, or a failed one, dooms the row; a failed one is removed. *)
MonitorDoom(w) ==
  /\ At(w, "failed", "check")
  /\ \/ service = "absent" /\ ~worker[w].spared /\ UNCHANGED <<service, faults>>
     \/ service = "failed" /\ service' = "absent" /\ UNCHANGED faults
     \/ service = "failed" /\ Fault /\ UNCHANGED service
  /\ Goto(w, "commit")
  /\ UNCHANGED <<row, age, report, broker, api>>

MonitorPass(w) ==
  /\ At(w, "failed", "check")
  /\ \/ service = "absent" /\ worker[w].spared
     \/ service \notin {"absent", "failed"}
  /\ Finish(w)
  /\ UNCHANGED <<row, age, service, report, broker, api, faults>>

(* A spared row was loaded FAILED: only its end_date is updated. *)
MonitorCommit(w) ==
  /\ At(w, "failed", "commit")
  /\ ended' = TRUE
  /\ status' = IF worker[w].spared THEN status ELSE "FAILED"
  /\ Finish(w)
  /\ UNCHANGED <<dispatched, age, service, report, broker, api, faults>>

(* Mutant: FAILED rows only. *)
CompletedSelectFailed(w) ==
  /\ status = "FAILED"
  /\ age < 2
  /\ Start(w, Sweep("completed", TRUE))
  /\ UNCHANGED <<row, age, service, report, broker, api, faults>>

(* monitor_completed_docker_services writes no row. *)
CompletedSelect(w) ==
  /\ status \in {"FINISHED", "FAILED"}
  /\ age < 2
  /\ Start(w, Sweep("completed", TRUE))
  /\ UNCHANGED <<row, age, service, report, broker, api, faults>>

CompletedRemove(w) ==
  /\ At(w, "completed", "check")
  /\ service' = "absent"
  /\ Finish(w)
  /\ UNCHANGED <<row, age, report, broker, api, faults>>

(* Mutant: RUNNING rows only, as docs/background-tasks.md has it. *)
StaleSelectRunning(w) ==
  /\ status = "RUNNING"
  /\ age = 3
  /\ Start(w, Sweep("stale", FALSE))
  /\ UNCHANGED <<row, age, service, report, broker, api, faults>>

(* Mutant: a CANCELLED row is failed like the others. *)
StaleSelectUnspared(w) ==
  /\ status \notin {"FINISHED", "FAILED"}
  /\ age = 3
  /\ Start(w, Sweep("stale", FALSE))
  /\ UNCHANGED <<row, age, service, report, broker, api, faults>>

(* cleanup_stale_executions: a CANCELLED row keeps its status. *)
StaleSelect(w) ==
  /\ status \notin {"FINISHED", "FAILED"}
  /\ age = 3
  /\ Start(w, Sweep("stale", status = "CANCELLED"))
  /\ UNCHANGED <<row, age, service, report, broker, api, faults>>

StaleRemove(w) ==
  /\ At(w, "stale", "check")
  /\ \/ service' = "absent" /\ UNCHANGED faults
     \/ Fault /\ UNCHANGED service
  /\ Goto(w, "commit")
  /\ UNCHANGED <<row, age, report, broker, api>>

StaleCommit(w) ==
  /\ At(w, "stale", "commit")
  /\ IF worker[w].spared THEN UNCHANGED row ELSE Write("FAILED")
  /\ Finish(w)
  /\ UNCHANGED <<age, service, report, broker, api, faults>>

-----------------------------------------------------------------------------
(* Faults of a worker and the passing of time                              *)

(* task_acks_late and task_reject_on_worker_lost: the message comes back;  *)
(* a sweep is simply started again by beat.                                *)
Crash(w) ==
  /\ worker[w].task # "none"
  /\ Fault
  /\ runTasks' = runTasks + (IF worker[w].task = "run" THEN 1 ELSE 0)
  /\ cancelTasks' = cancelTasks + (IF worker[w].task = "cancel" THEN 1 ELSE 0)
  /\ Finish(w)
  /\ UNCHANGED <<row, age, service, report, api>>

GraceEnds ==
  /\ dispatched = "recent"
  /\ dispatched' = "past"
  /\ UNCHANGED <<status, ended, age, service, report, broker, api, worker, faults>>

(* A day passes; 3 stands for every age beyond three days. *)
NextDay ==
  /\ age < 3
  /\ age' = age + 1
  /\ dispatched' = IF dispatched = "recent" THEN "past" ELSE dispatched
  /\ UNCHANGED <<status, ended, service, report, broker, api, worker, faults>>

-----------------------------------------------------------------------------
Init ==
  /\ status = "PENDING"
  /\ ended = FALSE
  /\ dispatched = "never"
  /\ age = 0
  /\ service = "absent"
  /\ report = "none"
  /\ runTasks \in Dispatches
  /\ CancelInit
  /\ worker = [w \in Workers |-> Idle]
  /\ faults = 0

Run(w) ==
  \/ RunReady(w) \/ RunNoDocker(w) \/ RunUploadFail(w)
  \/ RunCreate(w) \/ RunCreateCrash(w) \/ RunCreateFail(w)

Container ==
  ContainerBoots \/ ContainerEnds \/ ContainerCrashes \/ NodeLost \/ UpdateExecution

Workflow(w) ==
  \/ WorkflowStart(w) \/ WorkflowSkip(w) \/ WorkflowDocker(w)
  \/ WorkflowWrite(w) \/ WorkflowTimeout(w)

Monitors(w) ==
  \/ MonitorSelect(w) \/ MonitorDoom(w) \/ MonitorPass(w) \/ MonitorCommit(w)
  \/ CompletedSelect(w) \/ CompletedRemove(w)
  \/ StaleSelect(w) \/ StaleRemove(w) \/ StaleCommit(w)

Next ==
  \/ \E w \in Workers : Run(w) \/ Workflow(w) \/ Monitors(w) \/ Crash(w)
  \/ \E r \in Requests : CancelRequest(r)
  \/ Container \/ GraceEnds \/ NextDay

Spec == Init /\ [][Next]_vars

(* A worker goes on with the task it took.                                  *)
Continue(w) ==
  \/ RunCreate(w) \/ RunCreateFail(w) \/ WorkflowDocker(w) \/ WorkflowWrite(w)
  \/ MonitorDoom(w) \/ MonitorPass(w) \/ MonitorCommit(w)
  \/ CompletedRemove(w) \/ StaleRemove(w) \/ StaleCommit(w)

(* A worker takes a message from the broker. *)
Receive(w) == RunReady(w) \/ WorkflowStart(w) \/ WorkflowSkip(w)

(* Workers go on; a message is taken and a sweep that beat starts again and *)
(* again is run, though other tasks compete for the workers; the API serves *)
(* its requests.  Days pass while an execution is neither FINISHED nor      *)
(* FAILED; after that they need not, as the completed monitor runs          *)
(* hundreds of times within its 48 hours.  A container may hang for ever,   *)
(* a user need not cancel, and no fault is ever due.                        *)
Fairness ==
  /\ \A w \in Workers : WF_vars(Continue(w))
  /\ SF_vars(\E w \in Workers : Receive(w))
  /\ SF_vars(\E w \in Workers : MonitorSelect(w))
  /\ SF_vars(\E w \in Workers : CompletedSelect(w))
  /\ SF_vars(\E w \in Workers : StaleSelect(w))
  /\ \A r \in Requests : WF_vars(CancelContinue(r))
  /\ WF_vars(UpdateExecution)
  /\ WF_vars(GraceEnds)
  /\ WF_vars(NextDay /\ status \notin {"FINISHED", "FAILED"})

FairSpec == Spec /\ Fairness

-----------------------------------------------------------------------------
(* Properties                                                              *)

WorkerType ==
  [task : {"none", "run", "cancel", "failed", "completed", "stale"},
   pc : {"idle", "upload", "docker", "write", "check", "commit"},
   spared : BOOLEAN]

(* Every variable keeps its type: a message is consumed only if it is in    *)
(* the broker.                                                              *)
TypeOK ==
  /\ status \in Status
  /\ ended \in BOOLEAN
  /\ dispatched \in {"never", "recent", "past"}
  /\ age \in 0..3
  /\ service \in {"absent", "booting", "working", "complete", "failed", "shutdown"}
  /\ report \in {"none", "RUNNING", "FINISHED", "FAILED"}
  /\ runTasks \in Nat
  /\ CancelType
  /\ worker \in [Workers -> WorkerType]
  /\ faults \in Nat

(* Nobody holds a decision on the row that a later write could bring.       *)
Settled ==
  /\ status \in Terminal
  /\ runTasks = 0 /\ report = "none"
  /\ service \notin {"booting", "working"}
  /\ \A r \in Requests : api[r].pc \notin {"checked", "marked"}
  /\ \A w \in Workers :
       \/ worker[w].task \in {"none", "completed"}
       \/ worker[w].task \in {"failed", "stale"} /\ worker[w].spared

(* A terminal status is final once every writer that had read an earlier    *)
(* status is through: neither a sweep, nor a cancel request, nor a leftover *)
(* cancel task, nor a redelivered message ever changes it again.            *)
SettledIsFinal == [][Settled => Settled' /\ status' = status]_vars

(* monitor_failed_docker_services does not fail an execution within the     *)
(* grace period of its dispatch, although it commits long after it read     *)
(* dispatched_at: nothing is selected before its first dispatch.  Holds for *)
(* an execution dispatched once, as long as nothing was lost: a redelivered *)
(* run task dispatches it anew under the eyes of the monitor.               *)
GraceRespected ==
  [][\A w \in Workers :
       MonitorCommit(w) /\ dispatched = "recent" /\ faults = 0
         => status' = status]_vars

(* Whatever is lost - the dispatch, Docker, the upload, a worker, the       *)
(* cancel task - an execution that is not terminal becomes so.              *)
EventuallyTerminal == status \notin Terminal ~> status \in Terminal

(* A service that outlives its execution is removed: of a recent FINISHED   *)
(* or FAILED one by monitor_completed_docker_services, of a CANCELLED one   *)
(* by cleanup_stale_executions, which is why that task also selects rows    *)
(* whose status it leaves alone.                                            *)
Lingering ==
  /\ service # "absent"
  /\ status = "CANCELLED" \/ (status \in {"FINISHED", "FAILED"} /\ age < 2)

ServiceReclaimed == Lingering ~> ~Lingering

(* docs/api-reference.md: "Cancelling an execution stops the Docker         *)
(* service": once an accepted cancellation was carried out, or skipped, and *)
(* no run task is left, no container of the execution is running.  Without  *)
(* any fault: docker_run reads no status before it marks READY or creates   *)
(* the service.                                                             *)
CancelIsHeeded ==
  /\ \E r \in Requests : api[r].pc = "done"
  /\ runTasks = 0 /\ cancelTasks = 0
  /\ \A w \in Workers : worker[w].task \notin {"run", "cancel"}
  => service \notin {"booting", "working"}
=============================================================================
