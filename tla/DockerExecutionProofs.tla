------------------------ MODULE DockerExecutionProofs -----------------------
(***************************************************************************)
(* Theorems about DockerExecution, for any number of workers and cancel    *)
(* requests and any number of faults.                                      *)
(***************************************************************************)
EXTENDS DockerExecution, TLAPS

-----------------------------------------------------------------------------
(* Types                                                                   *)

LEMMA IdleType == Idle \in WorkerType
BY DEF Idle, WorkerType

LEMMA TypeInit == Init => TypeOK
<1> SUFFICES ASSUME Init
             PROVE  TypeOK
  OBVIOUS
<1>1. CancelType
  BY DEF Init, CancelInit, CancelType, Cancellable
<1>2. worker \in [Workers -> WorkerType]
  BY IdleType DEF Init
<1>3. runTasks \in Nat /\ age \in 0..3 /\ faults \in Nat
  BY DockerAssumption DEF Init
<1>4. /\ status \in Status /\ ended \in BOOLEAN
      /\ dispatched \in {"never", "recent", "past"}
  BY DEF Init, Status, Cancellable
<1> QED
  BY <1>1, <1>2, <1>3, <1>4 DEF Init, TypeOK

(* The tasks that take up a message, and what they do with the row.        *)
LEMMA TypeRun ==
  ASSUME TypeOK, NEW w \in Workers, Run(w)
  PROVE  TypeOK'
<1> USE IdleType DEF TypeOK, CancelType, row, broker, Status, Cancellable
<1>1. CASE RunReady(w)
  BY <1>1 DEF RunReady, Start, At, WorkerType
<1>2. CASE RunNoDocker(w)
  BY <1>2 DEF RunNoDocker, Fault, At
<1>3. CASE RunUploadFail(w)
  BY <1>3 DEF RunUploadFail, Fault, Finish
<1>4. CASE RunCreate(w)
  BY <1>4 DEF RunCreate, Finish
<1>5. CASE RunCreateCrash(w)
  BY <1>5 DEF RunCreateCrash, Fault, Finish
<1>6. CASE RunCreateFail(w)
  BY <1>6 DEF RunCreateFail, Fault, Finish, Terminal
<1> QED
  BY <1>1, <1>2, <1>3, <1>4, <1>5, <1>6 DEF Run

LEMMA TypeWorkflow ==
  ASSUME TypeOK, NEW w \in Workers, Workflow(w)
  PROVE  TypeOK'
<1> USE IdleType DEF TypeOK, CancelType, row, broker
<1>1. CASE WorkflowStart(w)
  BY <1>1 DEF WorkflowStart, Start, At, WorkerType
<1>2. CASE WorkflowSkip(w)
  BY <1>2 DEF WorkflowSkip
<1>3. CASE WorkflowDocker(w)
  BY <1>3 DEF WorkflowDocker, Fault, Goto, WorkerType
<1>4. CASE WorkflowWrite(w)
  BY <1>4 DEF WorkflowWrite, Write, SetStatus, Finish, Status, Terminal
<1>5. CASE WorkflowTimeout(w)
  BY <1>5 DEF WorkflowTimeout, Fault, Finish
<1> QED
  BY <1>1, <1>2, <1>3, <1>4, <1>5 DEF Workflow

LEMMA TypeMonitors ==
  ASSUME TypeOK, NEW w \in Workers, Monitors(w)
  PROVE  TypeOK'
<1> USE IdleType DEF TypeOK, CancelType, row, broker
<1>1. CASE MonitorSelect(w)
  BY <1>1 DEF MonitorSelect, Start, At, Sweep, WorkerType
<1>2. CASE MonitorDoom(w)
  BY <1>2 DEF MonitorDoom, Fault, Goto, WorkerType
<1>3. CASE MonitorPass(w)
  BY <1>3 DEF MonitorPass, Finish
<1>4. CASE MonitorCommit(w)
  BY <1>4 DEF MonitorCommit, Finish, Status, Terminal
<1>5. CASE CompletedSelect(w)
  BY <1>5 DEF CompletedSelect, Start, At, Sweep, WorkerType
<1>6. CASE CompletedRemove(w)
  BY <1>6 DEF CompletedRemove, Finish
<1>7. CASE StaleSelect(w)
  BY <1>7 DEF StaleSelect, Start, At, Sweep, WorkerType
<1>8. CASE StaleRemove(w)
  BY <1>8 DEF StaleRemove, Fault, Goto, WorkerType
<1>9. CASE StaleCommit(w)
  BY <1>9 DEF StaleCommit, Write, SetStatus, Finish, Status, Terminal
<1> QED
  BY <1>1, <1>2, <1>3, <1>4, <1>5, <1>6, <1>7, <1>8, <1>9 DEF Monitors

LEMMA TypeCancel ==
  ASSUME TypeOK, NEW r \in Requests, CancelRequest(r)
  PROVE  TypeOK'
<1> USE DEF TypeOK, CancelType, Unasked, Status
<1>0. UNCHANGED Unasked
  BY DEF CancelRequest
<1>1. CASE CancelCheck(r)
  BY <1>0, <1>1 DEF CancelCheck
<1>2. CASE CancelMark(r)
  BY <1>0, <1>2 DEF CancelMark, SetStatus
<1>3. CASE CancelSend(r)
  BY <1>0, <1>3 DEF CancelSend
<1>4. CASE CancelRollback(r)
  BY <1>0, <1>4 DEF CancelRollback, SetStatus, Fault
<1>5. CASE CancelDies(r)
  BY <1>0, <1>5 DEF CancelDies, Fault
<1> QED
  BY <1>1, <1>2, <1>3, <1>4, <1>5 DEF CancelRequest, CancelStep, CancelProceed

LEMMA TypeOthers ==
  ASSUME TypeOK,
         Container \/ GraceEnds \/ NextDay \/ (\E w \in Workers : Crash(w)) \/ UNCHANGED vars
  PROVE  TypeOK'
<1> USE IdleType DEF TypeOK, CancelType, row, broker
<1>1. CASE ContainerBoots \/ ContainerEnds
  BY <1>1 DEF ContainerBoots, ContainerEnds
<1>2. CASE ContainerCrashes \/ NodeLost
  BY <1>2 DEF ContainerCrashes, NodeLost, Fault
<1>3. CASE UpdateExecution
  BY <1>3 DEF UpdateExecution, Write, SetStatus, Status, Terminal, Cancellable
<1>4. CASE GraceEnds
  BY <1>4 DEF GraceEnds
<1>5. CASE NextDay
  BY <1>5 DEF NextDay
<1>6. ASSUME NEW w \in Workers, Crash(w)
      PROVE  TypeOK'
  BY <1>6 DEF Crash, Fault, Finish
<1>7. CASE UNCHANGED vars
  BY <1>7 DEF vars
<1> QED
  BY <1>1, <1>2, <1>3, <1>4, <1>5, <1>6, <1>7 DEF Container

LEMMA TypeNext == TypeOK /\ [Next]_vars => TypeOK'
BY TypeRun, TypeWorkflow, TypeMonitors, TypeCancel, TypeOthers DEF Next

(* Every variable keeps its type whatever the workers, requests, the       *)
(* container and the sweeps do to the row: a message is consumed only if   *)
(* it is there, and a rolled back cancellation restores a status that      *)
(* could be cancelled.                                                     *)
THEOREM TypeCorrect == Spec => []TypeOK
<1>1. Init => TypeOK
  BY TypeInit
<1>2. TypeOK /\ [Next]_vars => TypeOK'
  BY TypeNext
<1> QED
  BY <1>1, <1>2, PTL DEF Spec

-----------------------------------------------------------------------------
(* A settled status                                                        *)

(* With a settled status no run task is left and none is under way, and a  *)
(* cancel task in the broker finds nothing to cancel.                      *)
LEMMA SettledRun ==
  ASSUME TypeOK, Settled, NEW w \in Workers, Run(w) \/ Workflow(w)
  PROVE  Settled' /\ status' = status
<1>1. ~Run(w)
  BY DEF TypeOK, Settled, Run, RunReady, RunNoDocker, RunUploadFail,
         RunCreate, RunCreateCrash, RunCreateFail, At
<1>2. CASE WorkflowStart(w)
  BY <1>2 DEF WorkflowStart, Settled, Terminal
<1>3. CASE WorkflowSkip(w)
  BY <1>3 DEF WorkflowSkip, Settled, row
<1>4. CASE WorkflowDocker(w) \/ WorkflowWrite(w) \/ WorkflowTimeout(w)
  BY <1>4 DEF WorkflowDocker, WorkflowWrite, WorkflowTimeout, Settled, At
<1> QED
  BY <1>1, <1>2, <1>3, <1>4 DEF Workflow

LEMMA SettledMonitors ==
  ASSUME TypeOK, Settled, NEW w \in Workers, Monitors(w)
  PROVE  Settled' /\ status' = status
<1> USE DEF TypeOK, Settled, row, broker
<1>1. CASE MonitorSelect(w)
  BY <1>1 DEF MonitorSelect, Start, Sweep, Terminal
<1>2. CASE MonitorDoom(w)
  BY <1>2 DEF MonitorDoom, At, Goto, WorkerType
<1>3. CASE MonitorPass(w)
  BY <1>3 DEF MonitorPass, Finish, Idle
<1>4. CASE MonitorCommit(w)
  BY <1>4 DEF MonitorCommit, At, Finish, Idle
<1>5. CASE CompletedSelect(w)
  BY <1>5 DEF CompletedSelect, Start, Sweep
<1>6. CASE CompletedRemove(w)
  BY <1>6 DEF CompletedRemove, Finish, Idle
<1>7. CASE StaleSelect(w)
  BY <1>7 DEF StaleSelect, Start, Sweep, Terminal
<1>8. CASE StaleRemove(w)
  BY <1>8 DEF StaleRemove, At, Goto, WorkerType
<1>9. CASE StaleCommit(w)
  BY <1>9 DEF StaleCommit, At, Finish, Idle
<1> QED
  BY <1>1, <1>2, <1>3, <1>4, <1>5, <1>6, <1>7, <1>8, <1>9 DEF Monitors

LEMMA SettledCancel ==
  ASSUME TypeOK, Settled, NEW r \in Requests, CancelRequest(r)
  PROVE  Settled' /\ status' = status
BY DEF Settled, CancelRequest, CancelStep, CancelProceed, CancelCheck, CancelMark,
       CancelSend, CancelRollback, CancelDies, Cancellable, Terminal

LEMMA SettledOthers ==
  ASSUME TypeOK, Settled,
         Container \/ GraceEnds \/ NextDay \/ (\E w \in Workers : Crash(w)) \/ UNCHANGED vars
  PROVE  Settled' /\ status' = status
<1> USE DEF TypeOK, Settled, row, broker
<1>1. ~Container
  BY DEF Container, ContainerBoots, ContainerEnds, ContainerCrashes, NodeLost,
         UpdateExecution
<1>2. CASE GraceEnds \/ NextDay
  BY <1>2 DEF GraceEnds, NextDay
<1>3. ASSUME NEW w \in Workers, Crash(w)
      PROVE  Settled' /\ status' = status
  BY <1>3 DEF Crash, Finish, Idle
<1>4. CASE UNCHANGED vars
  BY <1>4 DEF vars
<1> QED
  BY <1>1, <1>2, <1>3, <1>4

(* With nobody left who read an earlier status, a terminal status is final *)
(* and nobody will ever read it for another: the cancel task that is still *)
(* in the broker skips, a cancel request is refused, and the sweeps that   *)
(* select a terminal row spare it.                                         *)
THEOREM SettledFinal == Spec => SettledIsFinal
<1>1. TypeOK /\ [Next]_vars => [Settled => Settled' /\ status' = status]_vars
  BY SettledRun, SettledMonitors, SettledCancel, SettledOthers DEF Next
<1> QED
  BY <1>1, TypeCorrect, PTL DEF Spec, SettledIsFinal

-----------------------------------------------------------------------------
(* The grace period                                                        *)

(* Until something is lost, one run task makes one dispatch: while the     *)
(* execution was never dispatched nothing exists that the monitor of       *)
(* failed services could select in its first day, so that no sweep of that *)
(* monitor is under way when the dispatch comes.                           *)
Undispatched ==
  /\ age = 3 \/ status \in {"PENDING", "CANCELLING", "CANCELLED"}
  /\ service = "absent" /\ report = "none"
  /\ \A w \in Workers : worker[w].task \notin {"run", "failed"}

GraceInv ==
  /\ \A w \in Workers : worker[w].task = "stale" => age = 3
  /\ faults = 0 =>
       /\ runTasks = 0 \/ (runTasks = 1 /\ dispatched = "never")
       /\ dispatched = "never" => Undispatched
       /\ dispatched = "recent" => \A w \in Workers : worker[w].task # "failed"

LEMMA GraceRun ==
  ASSUME TypeOK, GraceInv, NEW w \in Workers, Run(w)
  PROVE  GraceInv'
<1> USE DEF TypeOK, GraceInv, Undispatched, row, broker
<1>1. CASE RunReady(w)
  BY <1>1 DEF RunReady, Start, At
<1>2. CASE RunNoDocker(w)
  BY <1>2 DEF RunNoDocker, Fault
<1>3. CASE RunUploadFail(w)
  BY <1>3 DEF RunUploadFail, Fault, Finish, Idle
<1>4. CASE RunCreate(w)
  BY <1>4 DEF RunCreate, At, Finish, Idle
<1>5. CASE RunCreateCrash(w)
  BY <1>5 DEF RunCreateCrash, Fault, Finish, Idle
<1>6. CASE RunCreateFail(w)
  BY <1>6 DEF RunCreateFail, Fault, At, Finish, Idle
<1> QED
  BY <1>1, <1>2, <1>3, <1>4, <1>5, <1>6 DEF Run

LEMMA GraceWorkflow ==
  ASSUME TypeOK, GraceInv, NEW w \in Workers, Workflow(w)
  PROVE  GraceInv'
<1> USE DEF TypeOK, GraceInv, Undispatched, row, broker
<1>1. CASE WorkflowStart(w)
  BY <1>1 DEF WorkflowStart, Start
<1>2. CASE WorkflowSkip(w)
  BY <1>2 DEF WorkflowSkip
<1>3. CASE WorkflowDocker(w)
  BY <1>3 DEF WorkflowDocker, Fault, Goto, WorkerType
<1>4. CASE WorkflowWrite(w)
  BY <1>4 DEF WorkflowWrite, Write, SetStatus, Finish, Idle
<1>5. CASE WorkflowTimeout(w)
  BY <1>5 DEF WorkflowTimeout, Fault, Finish, Idle
<1> QED
  BY <1>1, <1>2, <1>3, <1>4, <1>5 DEF Workflow

LEMMA GraceMonitors ==
  ASSUME TypeOK, GraceInv, NEW w \in Workers, Monitors(w)
  PROVE  GraceInv'
<1> USE DEF TypeOK, GraceInv, Undispatched, row, broker
<1>1. CASE MonitorSelect(w)
  BY <1>1 DEF MonitorSelect, Start, Sweep
<1>2. CASE MonitorDoom(w)
  BY <1>2 DEF MonitorDoom, Fault, At, Goto, WorkerType
<1>3. CASE MonitorPass(w)
  BY <1>3 DEF MonitorPass, Finish, Idle
<1>4. CASE MonitorCommit(w)
  BY <1>4 DEF MonitorCommit, At, Finish, Idle
<1>5. CASE CompletedSelect(w)
  BY <1>5 DEF CompletedSelect, Start, Sweep
<1>6. CASE CompletedRemove(w)
  BY <1>6 DEF CompletedRemove, Finish, Idle
<1>7. CASE StaleSelect(w)
  BY <1>7 DEF StaleSelect, Start, Sweep
<1>8. CASE StaleRemove(w)
  BY <1>8 DEF StaleRemove, Fault, At, Goto, WorkerType
<1>9. CASE StaleCommit(w)
  BY <1>9 DEF StaleCommit, Write, SetStatus, At, Finish, Idle
<1> QED
  BY <1>1, <1>2, <1>3, <1>4, <1>5, <1>6, <1>7, <1>8, <1>9 DEF Monitors

LEMMA GraceCancel ==
  ASSUME TypeOK, GraceInv, NEW r \in Requests, CancelRequest(r)
  PROVE  GraceInv'
<1> USE DEF TypeOK, GraceInv, Undispatched, Unasked
<1>0. UNCHANGED Unasked
  BY DEF CancelRequest
<1>1. CASE CancelCheck(r) \/ CancelSend(r)
  BY <1>0, <1>1 DEF CancelCheck, CancelSend
<1>2. CASE CancelMark(r)
  BY <1>0, <1>2 DEF CancelMark, SetStatus
<1>3. CASE CancelRollback(r) \/ CancelDies(r)
  BY <1>0, <1>3 DEF CancelRollback, CancelDies, Fault
<1> QED
  BY <1>1, <1>2, <1>3 DEF CancelRequest, CancelStep, CancelProceed

LEMMA GraceOthers ==
  ASSUME TypeOK, GraceInv,
         Container \/ GraceEnds \/ NextDay \/ (\E w \in Workers : Crash(w)) \/ UNCHANGED vars
  PROVE  GraceInv'
<1> USE DEF TypeOK, GraceInv, Undispatched, row, broker
<1>1. CASE ContainerBoots \/ ContainerEnds
  BY <1>1 DEF ContainerBoots, ContainerEnds
<1>2. CASE ContainerCrashes \/ NodeLost
  BY <1>2 DEF ContainerCrashes, NodeLost, Fault
<1>3. CASE UpdateExecution
  BY <1>3 DEF UpdateExecution, Write, SetStatus
<1>4. CASE GraceEnds
  BY <1>4 DEF GraceEnds
<1>5. CASE NextDay
  BY <1>5 DEF NextDay
<1>6. ASSUME NEW w \in Workers, Crash(w)
      PROVE  GraceInv'
  BY <1>6 DEF Crash, Fault, Finish, Idle
<1>7. CASE UNCHANGED vars
  BY <1>7 DEF vars
<1> QED
  BY <1>1, <1>2, <1>3, <1>4, <1>5, <1>6, <1>7 DEF Container

(* An execution that the queue dispatched at most once is not failed by    *)
(* the monitor of failed services in its grace period, with any number of  *)
(* workers and of days between the selection of the monitor and its        *)
(* commit, as long as nothing was lost.                                    *)
THEOREM GracePeriodRespected ==
  ASSUME Dispatches \subseteq {0, 1}
  PROVE  Spec => GraceRespected
<1>1. Init => GraceInv
  BY DEF Init, GraceInv, Undispatched, Idle
<1>2. TypeOK /\ GraceInv /\ [Next]_vars => GraceInv'
  BY GraceRun, GraceWorkflow, GraceMonitors, GraceCancel, GraceOthers DEF Next
<1>3. TypeOK /\ GraceInv /\ [Next]_vars =>
        [\A w \in Workers :
           MonitorCommit(w) /\ dispatched = "recent" /\ faults = 0
             => status' = status]_vars
  BY DEF GraceInv, MonitorCommit, At
<1> QED
  BY <1>1, <1>2, <1>3, TypeCorrect, PTL DEF Spec, GraceRespected
=============================================================================
