------------------------ MODULE BatchExecutionProofs ------------------------
(***************************************************************************)
(* Theorems about BatchExecution, for any number of workers, cancel        *)
(* requests, dispatches, pipeline steps, retries, errors and faults.       *)
(***************************************************************************)
EXTENDS BatchExecution, FiniteSetTheorems, SequenceTheorems, TLAPS

-----------------------------------------------------------------------------
(* The jobs of AWS Batch                                                   *)

(* Jobs are numbered from 1 on.                                            *)
LEMMA JobIds ==
  ASSUME jobs \in Seq(JobType)
  PROVE  /\ Len(jobs) \in Nat /\ DOMAIN jobs = 1..Len(jobs)
         /\ \A j \in DOMAIN jobs : jobs[j] \in JobType
BY LenProperties, ElementOfSeq

(* How the list of jobs may change in a step: some jobs that are active    *)
(* end, or one job is added at the end.                                    *)
Ends ==
  /\ jobs' \in Seq(JobType)
  /\ DOMAIN jobs' = DOMAIN jobs
  /\ \A j \in DOMAIN jobs :
       /\ jobs'[j].step = jobs[j].step /\ jobs'[j].after = jobs[j].after
       /\ jobs[j].state # "ACTIVE" => jobs'[j].state = jobs[j].state

LEMMA JobEndsEnds ==
  ASSUME TypeOK, NEW j \in DOMAIN jobs, JobEnds(j) \/ JobDropped(j)
  PROVE  Ends
<1>1. PICK s \in {"SUCCEEDED", "FAILED"} : jobs' = [jobs EXCEPT ![j].state = s]
  BY DEF JobEnds, JobDropped
<1>2. jobs[j] \in JobType /\ jobs \in Seq(JobType) /\ j \in 1..Len(jobs)
  BY JobIds DEF TypeOK
<1> DEFINE e == [jobs[j] EXCEPT !.state = s]
<1>3. e \in JobType /\ e.step = jobs[j].step /\ e.after = jobs[j].after
  BY <1>2 DEF JobType
<1>4. jobs' = [jobs EXCEPT ![j] = e]
  BY <1>1
<1>5. jobs[j].state = "ACTIVE"
  BY DEF JobEnds, JobDropped
<1> HIDE DEF e
<1>6. jobs' \in Seq(JobType)
  BY <1>2, <1>3, <1>4, ExceptSeq
<1> QED
  BY <1>2, <1>3, <1>4, <1>5, <1>6 DEF Ends

LEMMA TerminateEnds ==
  ASSUME TypeOK, NEW w \in Workers, WorkflowTerminate(w)
  PROVE  Ends
<1>1. jobs \in Seq(JobType) /\ Len(jobs) \in Nat /\ DOMAIN jobs = 1..Len(jobs)
      /\ \A j \in DOMAIN jobs : jobs[j] \in JobType
  BY JobIds DEF TypeOK
<1>2. CASE jobs' = [j \in DOMAIN jobs |->
                      IF j \in worker[w].ids /\ jobs[j].state = "ACTIVE"
                      THEN [jobs[j] EXCEPT !.state = "FAILED"] ELSE jobs[j]]
  <2>1. \A j \in DOMAIN jobs :
          /\ jobs'[j] \in JobType
          /\ jobs'[j].step = jobs[j].step /\ jobs'[j].after = jobs[j].after
          /\ jobs[j].state # "ACTIVE" => jobs'[j].state = jobs[j].state
    BY <1>1, <1>2 DEF JobType
  <2>2. jobs' \in [1..Len(jobs) -> JobType]
    BY <1>1, <1>2, <2>1
  <2>3. jobs' \in Seq(JobType)
    BY <1>1, <2>2, SeqDef
  <2> QED
    BY <1>1, <2>1, <2>2, <2>3 DEF Ends
<1>3. CASE UNCHANGED jobs
  BY <1>1, <1>3 DEF Ends
<1> QED
  BY <1>2, <1>3 DEF WorkflowTerminate

(* The job that batch_run submits next.                                    *)
Submitted(ids) ==
  [step |-> Cardinality(ids) + 1, after |-> IF ids = {} THEN 0 ELSE Max(ids),
   state |-> "ACTIVE"]

(* The ids that a batch_run holds number its submission: the last of them  *)
(* is the greatest, and is the step of the pipeline that was reached.      *)
Reached(js, ids) ==
  ids # {} => \E m \in ids : (\A j \in ids : m >= j) /\ js[m].step = Cardinality(ids)

Submitting == \A w \in Workers : worker[w].task = "run" => Reached(jobs, worker[w].ids)

LEMMA FiniteIds ==
  ASSUME TypeOK, NEW w \in Workers
  PROVE  /\ IsFiniteSet(worker[w].ids)
         /\ Cardinality(worker[w].ids) \in Nat
         /\ worker[w].ids = {} <=> Cardinality(worker[w].ids) = 0
<1>1. worker[w].ids \in SUBSET (1..Len(jobs)) /\ Len(jobs) \in Nat
  BY JobIds DEF TypeOK, WorkerType
<1>2. IsFiniteSet(1..Len(jobs))
  <2> DEFINE n == Len(jobs)
  <2>1. 1 \in Int /\ n \in Int
    BY <1>1
  <2> HIDE DEF n
  <2>2. IsFiniteSet(1..n)
    BY <2>1, FS_Interval
  <2> QED
    BY <2>2 DEF n
<1>3. IsFiniteSet(worker[w].ids)
  BY <1>1, <1>2, FS_Subset
<1> QED
  BY <1>3, FS_CardinalityType, FS_EmptySet

LEMMA SubmitAppends ==
  ASSUME TypeOK, Submitting, NEW w \in Workers, SubmitStep(w)
  PROVE  LET ids == worker[w].ids
             n   == Len(jobs) + 1
             new == Submitted(ids)
         IN  /\ new \in JobType
             /\ jobs' = Append(jobs, new) /\ jobs' \in Seq(JobType)
             /\ Len(jobs) \in Nat /\ DOMAIN jobs = 1..Len(jobs)
             /\ DOMAIN jobs' = 1..n /\ jobs'[n] = new
             /\ \A j \in DOMAIN jobs : jobs'[j] = jobs[j]
             /\ n \notin ids /\ IsFiniteSet(ids) /\ Cardinality(ids) \in Nat
             /\ Cardinality(ids \cup {n}) = Cardinality(ids) + 1
             /\ ids # {} =>
                  /\ Max(ids) \in ids /\ \A j \in ids : Max(ids) >= j
                  /\ jobs[Max(ids)].step = Cardinality(ids)
<1> DEFINE ids == worker[w].ids
           n   == Len(jobs) + 1
           new == Submitted(ids)
<1>1. /\ jobs \in Seq(JobType) /\ Len(jobs) \in Nat /\ DOMAIN jobs = 1..Len(jobs)
      /\ ids \subseteq 1..Len(jobs)
  BY JobIds DEF TypeOK, WorkerType
<1>2. IsFiniteSet(ids) /\ Cardinality(ids) \in Nat
  BY FiniteIds
<1>3. n \notin ids
  BY <1>1
<1>4. Cardinality(ids \cup {n}) = Cardinality(ids) + 1
  BY <1>2, <1>3, FS_AddElement
<1>5. ASSUME ids # {}
      PROVE  /\ Max(ids) \in ids /\ \A j \in ids : Max(ids) >= j
             /\ jobs[Max(ids)].step = Cardinality(ids)
  <2>1. PICK m \in ids : (\A j \in ids : m >= j) /\ jobs[m].step = Cardinality(ids)
    BY <1>5 DEF Submitting, Reached, SubmitStep
  <2>2. Max(ids) \in ids /\ \A j \in ids : Max(ids) >= j
    BY <2>1 DEF Max
  <2>3. Max(ids) = m
    BY <1>1, <2>1, <2>2
  <2> QED
    BY <2>1, <2>2, <2>3
<1>6. new \in JobType
  BY <1>1, <1>2, <1>5 DEF Submitted, JobType
<1>7. jobs' = Append(jobs, new)
  BY DEF SubmitStep, Submitted
<1> HIDE DEF ids, new
<1>8. jobs' \in Seq(JobType) /\ DOMAIN jobs' = 1..n /\ jobs'[n] = new
      /\ \A j \in DOMAIN jobs : jobs'[j] = jobs[j]
  BY <1>1, <1>6, <1>7
<1> QED
  BY <1>1, <1>2, <1>3, <1>4, <1>5, <1>6, <1>7, <1>8 DEF ids, new

-----------------------------------------------------------------------------
(* Types                                                                   *)

LEMMA IdleType == Idle \in WorkerType
BY BatchAssumption DEF Idle, WorkerType

LEMMA TypeInit == Init => TypeOK
<1> SUFFICES ASSUME Init
             PROVE  TypeOK
  OBVIOUS
<1>1. CancelType
  BY DEF Init, CancelInit, CancelType, Cancellable
<1>2. worker \in [Workers -> WorkerType]
  BY IdleType DEF Init
<1>3. runTasks \in [0..MaxRetries -> Nat] /\ errors \in Nat /\ faults \in Nat
  BY BatchAssumption DEF Init
<1>4. status \in Status /\ ended \in BOOLEAN /\ old \in BOOLEAN
  BY DEF Init, Status, Cancellable
<1>5. jobs \in Seq(JobType) /\ recorded \in SUBSET DOMAIN jobs
  BY DEF Init
<1> QED
  BY <1>1, <1>2, <1>3, <1>4, <1>5 DEF TypeOK

LEMMA TypeSubmit ==
  ASSUME TypeOK, Submitting, NEW w \in Workers, SubmitStep(w)
  PROVE  TypeOK'
<1>1. /\ jobs' \in Seq(JobType) /\ Len(jobs) \in Nat
      /\ DOMAIN jobs = 1..Len(jobs) /\ DOMAIN jobs' = 1..(Len(jobs) + 1)
  BY SubmitAppends
<1>2. DOMAIN jobs \subseteq DOMAIN jobs' /\ Len(jobs) + 1 \in DOMAIN jobs'
  BY <1>1
<1>3. worker' = [worker EXCEPT ![w].ids = @ \cup {Len(jobs) + 1}]
  BY DEF SubmitStep
<1>4. \A v \in Workers : worker[v] \in WorkerType'
  BY <1>2 DEF TypeOK, WorkerType
<1>5. worker' \in [Workers -> WorkerType']
  BY <1>2, <1>3, <1>4 DEF TypeOK, WorkerType
<1>6. recorded' \in SUBSET DOMAIN jobs'
  BY <1>2 DEF SubmitStep, TypeOK, row
<1> QED
  BY <1>1, <1>5, <1>6 DEF SubmitStep, TypeOK, CancelType, row, broker

LEMMA ResendType ==
  ASSUME TypeOK, NEW n \in 0..MaxRetries, Resend(n)
  PROVE  runTasks' \in [0..MaxRetries -> Nat]
BY DEF TypeOK, Resend

LEMMA RetryType ==
  ASSUME TypeOK, NEW w \in Workers, Retry(w)
  PROVE  runTasks' \in [0..MaxRetries -> Nat]
<1>1. worker[w].try \in 0..MaxRetries /\ MaxRetries \in Nat
  BY BatchAssumption DEF TypeOK, WorkerType
<1>2. CASE worker[w].try < MaxRetries
  <2>1. worker[w].try + 1 \in 0..MaxRetries
    BY <1>1, <1>2
  <2>2. Resend(worker[w].try + 1)
    BY <1>2 DEF Retry
  <2> QED
    BY <2>1, <2>2, ResendType
<1>3. CASE ~(worker[w].try < MaxRetries)
  BY <1>3 DEF Retry, TypeOK
<1> QED
  BY <1>2, <1>3

LEMMA VerdictType ==
  ASSUME NEW ids
  PROVE  Verdict(ids) \in {"FAILED", "FINISHED", "open"}
BY DEF Verdict

LEMMA TypeRun ==
  ASSUME TypeOK, Submitting, NEW w \in Workers, Run(w)
  PROVE  TypeOK'
<1> USE IdleType, BatchAssumption DEF TypeOK, CancelType, row, broker
<1>1. CASE BatchReady(w)
  <2>1. PICK n \in 0..MaxRetries :
          /\ runTasks[n] > 0
          /\ runTasks' = [runTasks EXCEPT ![n] = @ - 1]
          /\ Take(w, [Idle EXCEPT !.task = "run", !.try = n])
    BY <1>1 DEF BatchReady
  <2>2. worker' \in [Workers -> WorkerType]
    BY <2>1 DEF Take, Idle, WorkerType
  <2>3. runTasks' \in [0..MaxRetries -> Nat]
    BY <2>1
  <2>4. status' \in Status /\ jobs' = jobs /\ WorkerType' = WorkerType
    BY <1>1 DEF BatchReady, Status, Cancellable, WorkerType
  <2> QED
    BY <1>1, <2>2, <2>3, <2>4 DEF BatchReady
<1>2. CASE SubmitStep(w)
  BY <1>2, TypeSubmit
<1>3. CASE BatchRecord(w)
  BY <1>3 DEF BatchRecord, SetStatus, Finish, Status, Cancellable, WorkerType
<1>4. ASSUME Retry(w)
      PROVE  runTasks' \in [0..MaxRetries -> Nat]
  BY <1>4, RetryType
<1>5. CASE BatchFail(w)
  BY <1>4, <1>5 DEF BatchFail, Raise, SetStatus, Finish, Status, Terminal, WorkerType
<1>6. CASE BatchFailUnwritten(w)
  <2>1. Finish(w) /\ Retry(w)
    BY <1>6 DEF BatchFailUnwritten
  <2>2. worker' \in [Workers -> WorkerType]
    BY <2>1 DEF Finish, WorkerType
  <2>3. runTasks' \in [0..MaxRetries -> Nat]
    BY <1>4, <2>1
  <2>4. /\ UNCHANGED <<row, jobs, cancelTasks, api, old>> /\ WorkerType' = WorkerType
    BY <1>6 DEF BatchFailUnwritten, WorkerType
  <2>5. errors' \in Nat /\ faults' \in Nat
    BY <1>6 DEF BatchFailUnwritten, Raise, Fault
  <2> QED
    BY <2>2, <2>3, <2>4, <2>5
<1> QED
  BY <1>1, <1>2, <1>3, <1>5, <1>6 DEF Run

LEMMA TypeMonitor ==
  ASSUME TypeOK, NEW w \in Workers, Monitor(w)
  PROVE  TypeOK'
<1> USE IdleType DEF TypeOK, CancelType, row, broker
<1>1. CASE MonitorSelect(w)
  BY <1>1 DEF MonitorSelect, Take, Idle, WorkerType
<1>2. CASE MonitorDescribe(w)
  <2>0. PICK v \in {"FAILED", "FINISHED", "open"} : worker' = [worker EXCEPT ![w].verdict = v]
    BY <1>2, VerdictType DEF MonitorDescribe
  <2>1. worker' \in [Workers -> WorkerType]
    BY <2>0 DEF WorkerType
  <2>2. faults' \in Nat
    BY <1>2 DEF MonitorDescribe, Fault
  <2> QED
    BY <1>2, <2>1, <2>2 DEF MonitorDescribe, WorkerType
<1>3. CASE MonitorCommit(w)
  <2>1. status' \in Status /\ ended' \in BOOLEAN
    BY <1>3 DEF MonitorCommit, SetStatus, Status, Terminal, WorkerType
  <2> QED
    BY <1>3, <2>1 DEF MonitorCommit, Finish, WorkerType
<1> QED
  BY <1>1, <1>2, <1>3 DEF Monitor

LEMMA TypeWorkflow ==
  ASSUME TypeOK, NEW w \in Workers, Workflow(w)
  PROVE  TypeOK'
<1> USE IdleType DEF TypeOK, CancelType, row, broker
<1>1. CASE WorkflowStart(w)
  <2>1. [Idle EXCEPT !.task = "cancel", !.ids = recorded] \in WorkerType
    BY DEF Idle, WorkerType
  <2>2. worker' \in [Workers -> WorkerType]
    BY <1>1, <2>1 DEF WorkflowStart, Take
  <2>3. cancelTasks' \in Nat
    BY <1>1 DEF WorkflowStart
  <2> QED
    BY <1>1, <2>2, <2>3 DEF WorkflowStart, WorkerType
<1>2. CASE WorkflowSkip(w)
  BY <1>2 DEF WorkflowSkip, WorkerType
<1>3. CASE WorkflowTerminate(w)
  <2>1. jobs' \in Seq(JobType) /\ DOMAIN jobs' = DOMAIN jobs
    BY <1>3, TerminateEnds DEF Ends
  <2>2. WorkerType' = WorkerType
    BY <2>1 DEF WorkerType
  <2>3. worker' \in [Workers -> WorkerType]
    BY <1>3 DEF WorkflowTerminate, WorkerType
  <2>4. faults' \in Nat
    BY <1>3 DEF WorkflowTerminate, Fault
  <2> QED
    BY <1>3, <2>1, <2>2, <2>3, <2>4 DEF WorkflowTerminate
<1>4. CASE WorkflowWrite(w)
  BY <1>4 DEF WorkflowWrite, SetStatus, Finish, Status, Terminal, WorkerType
<1>5. CASE WorkflowTimeout(w)
  BY <1>5 DEF WorkflowTimeout, Fault, Finish, WorkerType
<1> QED
  BY <1>1, <1>2, <1>3, <1>4, <1>5 DEF Workflow

LEMMA TypeCancel ==
  ASSUME TypeOK, NEW r \in Requests, CancelRequest(r)
  PROVE  TypeOK'
<1> USE DEF TypeOK, CancelType, Unasked, Status
<1>0. UNCHANGED Unasked /\ WorkerType' = WorkerType
  BY DEF CancelRequest, WorkerType
<1>1. CASE CancelCheck(r)
  BY <1>0, <1>1 DEF CancelCheck
<1>2. CASE CancelMark(r)
  BY <1>0, <1>2 DEF CancelMark, SetStatus
<1>3. CASE CancelSend(r)
  BY <1>0, <1>3 DEF CancelSend
<1>4. CASE CancelRollback(r)
  BY <1>0, <1>4 DEF CancelRollback, SetStatus, Fault
<1>5. CASE CancelDies(r)
  BY <1>0, <1>5 DEF CancelDies, Fault
<1> QED
  BY <1>1, <1>2, <1>3, <1>4, <1>5 DEF CancelRequest, CancelStep, CancelProceed

LEMMA TypeOthers ==
  ASSUME TypeOK, AwsBatch \/ GrowOld \/ (\E w \in Workers : Crash(w)) \/ UNCHANGED vars
  PROVE  TypeOK'
<1> USE IdleType DEF TypeOK, CancelType, row, broker
<1>1. ASSUME NEW j \in DOMAIN jobs, JobEnds(j) \/ JobDropped(j)
      PROVE  TypeOK'
  <2>1. jobs' \in Seq(JobType) /\ DOMAIN jobs' = DOMAIN jobs
    BY <1>1, JobEndsEnds DEF Ends
  <2> QED
    BY <1>1, <2>1 DEF JobEnds, JobDropped, WorkerType
<1>2. CASE GrowOld
  BY <1>2 DEF GrowOld, WorkerType
<1>3. ASSUME NEW w \in Workers, Crash(w)
      PROVE  TypeOK'
  <2>1. runTasks' \in [0..MaxRetries -> Nat]
    BY <1>3 DEF Crash, Resend, WorkerType
  <2> QED
    BY <1>3, <2>1 DEF Crash, Fault, Finish, WorkerType
<1>4. CASE UNCHANGED vars
  BY <1>4 DEF vars, WorkerType
<1> QED
  BY <1>1, <1>2, <1>3, <1>4 DEF AwsBatch

LEMMA TypeNext == TypeOK /\ Submitting /\ [Next]_vars => TypeOK'
BY TypeRun, TypeMonitor, TypeWorkflow, TypeCancel, TypeOthers DEF Next

-----------------------------------------------------------------------------
(* The pipeline                                                            *)

(* A step is submitted after the one before it, and succeeds after it.     *)
InOrder ==
  \A j \in DOMAIN jobs :
    \/ jobs[j].after = 0 /\ jobs[j].step = 1
    \/ LET p == jobs[j].after
       IN  /\ p \in DOMAIN jobs /\ p < j
           /\ jobs[j].step = jobs[p].step + 1
           /\ jobs[j].state = "SUCCEEDED" => jobs[p].state = "SUCCEEDED"

HasLast(js, ids) == \E j \in ids : js[j].step = Steps

Done(js) == \E j \in DOMAIN js : js[j].step = Steps /\ js[j].state = "SUCCEEDED"

(* What a worker holds, given the list of jobs: only whole submissions are *)
(* monitored, and a whole pipeline has succeeded before the monitor        *)
(* decides for FINISHED.                                                   *)
Sound(js, t) ==
  /\ t.task = "run" => Reached(js, t.ids)
  /\ t.task = "monitor" => HasLast(js, t.ids)
  /\ t.verdict = "FINISHED" => Done(js)

PipelineInv ==
  /\ TypeOK /\ InOrder
  /\ \A w \in Workers : Sound(jobs, worker[w])
  /\ recorded # {} => HasLast(jobs, recorded)
  /\ status = "FINISHED" => Done(jobs)

LEMMA PipelineSubmitting == PipelineInv => Submitting
BY DEF PipelineInv, Sound, Submitting

(* Ids and successes outlive every change of the list of jobs.             *)
Kept ==
  \A j \in DOMAIN jobs :
    /\ j \in DOMAIN jobs' /\ jobs'[j].step = jobs[j].step
    /\ jobs[j].state = "SUCCEEDED" => jobs'[j].state = "SUCCEEDED"

LEMMA KeptFacts ==
  ASSUME Kept
  PROVE  /\ Done(jobs) => Done(jobs')
         /\ \A ids \in SUBSET DOMAIN jobs : HasLast(jobs, ids) => HasLast(jobs', ids)
         /\ \A t : t.ids \in SUBSET DOMAIN jobs /\ Sound(jobs, t) => Sound(jobs', t)
<1>1. Done(jobs) => Done(jobs')
  BY DEF Kept, Done
<1>2. \A ids \in SUBSET DOMAIN jobs : HasLast(jobs, ids) => HasLast(jobs', ids)
  BY DEF Kept, HasLast
<1>3. \A ids \in SUBSET DOMAIN jobs : Reached(jobs, ids) => Reached(jobs', ids)
  BY DEF Kept, Reached
<1> QED
  BY <1>1, <1>2, <1>3 DEF Sound

LEMMA EndsKept == Ends => Kept
BY DEF Ends, Kept

LEMMA SameKept == jobs' = jobs => Kept
BY DEF Kept

LEMMA SubmitKept ==
  ASSUME TypeOK, Submitting, NEW w \in Workers, SubmitStep(w)
  PROVE  Kept
<1>1. /\ Len(jobs) \in Nat /\ DOMAIN jobs = 1..Len(jobs)
      /\ DOMAIN jobs' = 1..(Len(jobs) + 1)
      /\ \A j \in DOMAIN jobs : jobs'[j] = jobs[j]
  BY SubmitAppends
<1> QED
  BY <1>1 DEF Kept

(* One worker moves, to something sound, and the row stays true.           *)
LEMMA PipelineMoves ==
  ASSUME PipelineInv, TypeOK', InOrder', Kept,
         \A w \in Workers : worker'[w] = worker[w] \/ Sound(jobs', worker'[w]),
         recorded' = recorded \/ recorded' = {} \/ HasLast(jobs', recorded'),
         status' # status /\ status' = "FINISHED" => Done(jobs')
  PROVE  PipelineInv'
<1>1. \A w \in Workers : Sound(jobs', worker'[w])
  <2>1. \A w \in Workers : worker[w].ids \in SUBSET DOMAIN jobs /\ Sound(jobs, worker[w])
    BY DEF PipelineInv, TypeOK, WorkerType
  <2> QED
    BY <2>1, KeptFacts
<1>2. recorded' # {} => HasLast(jobs', recorded')
  <2>1. recorded \in SUBSET DOMAIN jobs
    BY DEF PipelineInv, TypeOK
  <2> QED
    BY <2>1, KeptFacts DEF PipelineInv
<1>3. status' = "FINISHED" => Done(jobs')
  BY KeptFacts DEF PipelineInv
<1> QED
  BY <1>1, <1>2, <1>3 DEF PipelineInv

LEMMA IdleSound == \A js : Sound(js, Idle)
BY DEF Sound, Idle

LEMMA OrderSame == InOrder /\ jobs' = jobs => InOrder'
BY DEF InOrder

LEMMA OrderJobEnds ==
  ASSUME PipelineInv, NEW k \in DOMAIN jobs, JobEnds(k) \/ JobDropped(k)
  PROVE  InOrder'
<1>1. Ends
  BY JobEndsEnds DEF PipelineInv
<1>2. PICK s : jobs' = [jobs EXCEPT ![k].state = s]
               /\ (s = "SUCCEEDED" => jobs[k].after = 0 \/ jobs[jobs[k].after].state = "SUCCEEDED")
  BY DEF JobEnds, JobDropped, After
<1>3. \A j \in DOMAIN jobs : j # k => jobs'[j] = jobs[j]
  BY <1>2
<1>4. jobs'[k].state = s
  BY <1>2, JobIds DEF PipelineInv, TypeOK, JobType
<1> SUFFICES ASSUME NEW j \in DOMAIN jobs', jobs'[j].after # 0
             PROVE  LET p == jobs'[j].after
                    IN  /\ p \in DOMAIN jobs' /\ p < j
                        /\ jobs'[j].step = jobs'[p].step + 1
                        /\ jobs'[j].state = "SUCCEEDED" => jobs'[p].state = "SUCCEEDED"
  BY <1>1 DEF InOrder, PipelineInv, Ends
<1> DEFINE p == jobs[j].after
<1>5. /\ j \in DOMAIN jobs /\ p \in DOMAIN jobs /\ p < j /\ jobs[j].step = jobs[p].step + 1
      /\ jobs[j].state = "SUCCEEDED" => jobs[p].state = "SUCCEEDED"
  BY <1>1 DEF InOrder, PipelineInv, Ends
<1>6. jobs'[j].state = "SUCCEEDED" => jobs[p].state = "SUCCEEDED"
  BY <1>2, <1>3, <1>4, <1>5
<1> QED
  BY <1>1, <1>5, <1>6 DEF Ends

LEMMA OrderTerminate ==
  ASSUME PipelineInv, NEW w \in Workers, WorkflowTerminate(w)
  PROVE  InOrder'
<1>1. Ends
  BY TerminateEnds DEF PipelineInv
<1>2. ASSUME NEW j \in DOMAIN jobs, jobs'[j].state = "SUCCEEDED"
      PROVE  jobs[j].state = "SUCCEEDED"
  <2>1. jobs[j] \in JobType
    BY JobIds DEF PipelineInv, TypeOK
  <2>2. CASE jobs' = jobs
    BY <1>2, <2>2
  <2>3. CASE jobs' = [i \in DOMAIN jobs |->
                        IF i \in worker[w].ids /\ jobs[i].state = "ACTIVE"
                        THEN [jobs[i] EXCEPT !.state = "FAILED"] ELSE jobs[i]]
    <3>1. [jobs[j] EXCEPT !.state = "FAILED"].state = "FAILED"
      BY <2>1 DEF JobType
    <3> QED
      BY <1>2, <2>3, <3>1
  <2> QED
    BY <2>2, <2>3 DEF WorkflowTerminate
<1> QED
  BY <1>1, <1>2 DEF InOrder, PipelineInv, Ends

LEMMA OrderSubmit ==
  ASSUME PipelineInv, NEW w \in Workers, SubmitStep(w)
  PROVE  InOrder'
<1> DEFINE ids == worker[w].ids
           n   == Len(jobs) + 1
<1>1. /\ jobs'[n] = Submitted(ids) /\ Len(jobs) \in Nat /\ DOMAIN jobs = 1..Len(jobs)
      /\ DOMAIN jobs' = 1..n /\ \A j \in DOMAIN jobs : jobs'[j] = jobs[j]
      /\ Cardinality(ids) \in Nat
      /\ ids # {} => Max(ids) \in ids /\ jobs[Max(ids)].step = Cardinality(ids)
  BY SubmitAppends, PipelineSubmitting DEF PipelineInv
<1>2. ids \subseteq DOMAIN jobs
  BY DEF PipelineInv, TypeOK, WorkerType
<1>3. ids = {} => Cardinality(ids) = 0
  BY FS_EmptySet
<1>4. jobs'[n].state = "ACTIVE" /\ jobs'[n].step = Cardinality(ids) + 1
      /\ jobs'[n].after = IF ids = {} THEN 0 ELSE Max(ids)
  BY <1>1 DEF Submitted
<1> SUFFICES ASSUME NEW j \in DOMAIN jobs'
             PROVE  \/ jobs'[j].after = 0 /\ jobs'[j].step = 1
                    \/ LET p == jobs'[j].after
                       IN  /\ p \in DOMAIN jobs' /\ p < j
                           /\ jobs'[j].step = jobs'[p].step + 1
                           /\ jobs'[j].state = "SUCCEEDED" => jobs'[p].state = "SUCCEEDED"
  BY DEF InOrder
<1>5. CASE j = n
  BY <1>1, <1>2, <1>3, <1>4, <1>5
<1>6. CASE j \in DOMAIN jobs
  BY <1>1, <1>6 DEF InOrder, PipelineInv
<1> QED
  BY <1>1, <1>5, <1>6

LEMMA PipelineRun ==
  ASSUME PipelineInv, NEW w \in Workers, Run(w)
  PROVE  PipelineInv'
<1>0. TypeOK /\ Submitting /\ InOrder
  BY PipelineSubmitting DEF PipelineInv
<1>1. TypeOK'
  BY <1>0, TypeRun
<1>2. CASE SubmitStep(w)
  <2> DEFINE ids == worker[w].ids
             n   == Len(jobs) + 1
  <2>1. /\ jobs'[n] = Submitted(ids) /\ Len(jobs) \in Nat /\ DOMAIN jobs = 1..Len(jobs)
        /\ Cardinality(ids \cup {n}) = Cardinality(ids) + 1
    BY <1>0, <1>2, SubmitAppends
  <2>2. ids \subseteq 1..Len(jobs)
    BY <1>0, <2>1 DEF TypeOK, WorkerType
  <2>3. Reached(jobs', ids \cup {n})
    BY <2>1, <2>2 DEF Reached, Submitted
  <2>4. /\ worker'[w].ids = ids \cup {n} /\ worker'[w].task = "run"
        /\ worker'[w].verdict = worker[w].verdict
        /\ \A v \in Workers : v # w => worker'[v] = worker[v]
    BY <1>0, <1>2 DEF SubmitStep, TypeOK, WorkerType
  <2>5. Kept
    BY <1>0, <1>2, SubmitKept
  <2>6. worker[w].verdict = "FINISHED" => Done(jobs')
    BY <2>5, KeptFacts DEF PipelineInv, Sound
  <2>7. Sound(jobs', worker'[w])
    BY <2>3, <2>4, <2>6 DEF Sound
  <2> QED
    BY <1>1, <1>2, <2>4, <2>5, <2>7, OrderSubmit, PipelineMoves DEF SubmitStep, row
<1>3. ASSUME jobs' = jobs
      PROVE  Kept /\ InOrder'
  BY <1>0, <1>3, SameKept, OrderSame
<1>4. ASSUME Finish(w)
      PROVE  \A v \in Workers : worker'[v] = worker[v] \/ Sound(jobs', worker'[v])
  BY <1>0, <1>4, IdleSound DEF Finish, TypeOK
<1>5. CASE BatchReady(w)
  <2>1. PICK n \in 0..MaxRetries : Take(w, [Idle EXCEPT !.task = "run", !.try = n])
    BY <1>5 DEF BatchReady
  <2>2. Sound(jobs', [Idle EXCEPT !.task = "run", !.try = n])
    BY DEF Sound, Idle, Reached
  <2>3. \A v \in Workers : worker'[v] = worker[v] \/ Sound(jobs', worker'[v])
    BY <1>0, <2>1, <2>2 DEF Take, TypeOK
  <2> QED
    BY <1>1, <1>3, <1>5, <2>3, PipelineMoves DEF BatchReady
<1>6. CASE BatchRecord(w)
  <2>1. HasLast(jobs', worker[w].ids)
    <3>1. Reached(jobs, worker[w].ids) /\ Cardinality(worker[w].ids) = Steps /\ jobs' = jobs
      BY <1>0, <1>6 DEF BatchRecord, Submitting
    <3>2. worker[w].ids # {}
      BY <3>1, FS_EmptySet, BatchAssumption
    <3> QED
      BY <3>1, <3>2 DEF Reached, HasLast
  <2> QED
    BY <1>1, <1>3, <1>4, <1>6, <2>1, PipelineMoves DEF BatchRecord, SetStatus
<1>7. CASE BatchFail(w)
  BY <1>1, <1>3, <1>4, <1>7, PipelineMoves DEF BatchFail, SetStatus
<1>8. CASE BatchFailUnwritten(w)
  BY <1>1, <1>3, <1>4, <1>8, PipelineMoves DEF BatchFailUnwritten, row
<1> QED
  BY <1>2, <1>5, <1>6, <1>7, <1>8 DEF Run

LEMMA PipelineMonitor ==
  ASSUME PipelineInv, NEW w \in Workers, Monitor(w)
  PROVE  PipelineInv'
<1>0. TypeOK /\ InOrder
  BY DEF PipelineInv
<1>1. TypeOK'
  BY <1>0, TypeMonitor
<1>2. jobs' = jobs
  BY DEF Monitor, MonitorSelect, MonitorDescribe, MonitorCommit
<1>3. Kept /\ InOrder'
  BY <1>0, <1>2, SameKept, OrderSame
<1>4. Sound(jobs, worker[w]) /\ worker[w] \in WorkerType
  BY <1>0 DEF PipelineInv, TypeOK
<1>5. CASE MonitorSelect(w)
  <2>1. HasLast(jobs, recorded)
    BY <1>5 DEF MonitorSelect, PipelineInv
  <2>2. Sound(jobs', [Idle EXCEPT !.task = "monitor", !.ids = recorded])
    BY <1>2, <2>1 DEF Sound, Idle
  <2>3. \A v \in Workers : worker'[v] = worker[v] \/ Sound(jobs', worker'[v])
    BY <1>0, <1>5, <2>2 DEF MonitorSelect, Take, TypeOK
  <2> QED
    BY <1>1, <1>3, <1>5, <2>3, PipelineMoves DEF MonitorSelect, row
<1>6. CASE MonitorDescribe(w)
  <2> DEFINE ids == worker[w].ids
  <2>1. worker[w].task = "monitor" /\ HasLast(jobs, ids) /\ ids \subseteq DOMAIN jobs
    BY <1>4, <1>6 DEF MonitorDescribe, Sound, WorkerType
  <2>2. Verdict(ids) = "FINISHED" => Done(jobs)
    <3>1. Verdict(ids) = "FINISHED" => States(ids) = {"SUCCEEDED"}
      BY DEF Verdict
    <3>2. States(ids) = {"SUCCEEDED"} => \A j \in ids : jobs[j].state = "SUCCEEDED"
      BY DEF States
    <3> QED
      BY <2>1, <3>1, <3>2 DEF HasLast, Done
  <2>3. PICK v : worker' = [worker EXCEPT ![w].verdict = v] /\ (v = "FINISHED" => Done(jobs))
    BY <1>6, <2>2 DEF MonitorDescribe
  <2>4. /\ worker'[w].task = "monitor" /\ worker'[w].ids = ids /\ worker'[w].verdict = v
        /\ \A u \in Workers : u # w => worker'[u] = worker[u]
    BY <1>0, <1>4, <2>1, <2>3 DEF TypeOK, WorkerType
  <2>5. Sound(jobs', worker'[w])
    BY <1>2, <2>1, <2>3, <2>4 DEF Sound
  <2> QED
    BY <1>1, <1>3, <1>6, <2>4, <2>5, PipelineMoves DEF MonitorDescribe, row
<1>7. CASE MonitorCommit(w)
  <2>1. \A v \in Workers : worker'[v] = worker[v] \/ Sound(jobs', worker'[v])
    BY <1>0, <1>7, IdleSound DEF MonitorCommit, Finish, TypeOK
  <2>2. HasLast(jobs', worker[w].ids) /\ (worker[w].verdict = "FINISHED" => Done(jobs'))
    BY <1>2, <1>4, <1>7 DEF MonitorCommit, Sound
  <2>3. recorded' = recorded \/ recorded' = worker[w].ids
    BY <1>7 DEF MonitorCommit
  <2>4. status' = status \/ status' = worker[w].verdict
    BY <1>7 DEF MonitorCommit, SetStatus
  <2> QED
    BY <1>1, <1>3, <2>1, <2>2, <2>3, <2>4, PipelineMoves
<1> QED
  BY <1>5, <1>6, <1>7 DEF Monitor

LEMMA PipelineWorkflow ==
  ASSUME PipelineInv, NEW w \in Workers, Workflow(w)
  PROVE  PipelineInv'
<1>0. TypeOK /\ InOrder /\ worker[w] \in WorkerType
  BY DEF PipelineInv, TypeOK
<1>1. TypeOK'
  BY <1>0, TypeWorkflow
<1>2. recorded' = recorded /\ (status' = status \/ status' = "CANCELLED")
  BY DEF Workflow, WorkflowStart, WorkflowSkip, WorkflowTerminate, WorkflowWrite,
         WorkflowTimeout, SetStatus, row
<1>3. Kept /\ InOrder'
  <2>1. CASE WorkflowTerminate(w)
    BY <1>0, <2>1, TerminateEnds, EndsKept, OrderTerminate
  <2>2. CASE jobs' = jobs
    BY <1>0, <2>2, SameKept, OrderSame
  <2> QED
    BY <2>1, <2>2
    DEF Workflow, WorkflowStart, WorkflowSkip, WorkflowWrite, WorkflowTimeout
<1>4. \A v \in Workers : worker'[v] = worker[v] \/ Sound(jobs', worker'[v])
  <2>1. CASE WorkflowStart(w)
    <3>1. Sound(jobs', [Idle EXCEPT !.task = "cancel", !.ids = recorded])
      BY DEF Sound, Idle
    <3> QED
      BY <1>0, <2>1, <3>1 DEF WorkflowStart, Take, TypeOK
  <2>2. CASE WorkflowTerminate(w)
    <3>1. worker'[w].task = "cancel" /\ worker'[w].verdict = "CANCELLED"
      BY <1>0, <2>2 DEF WorkflowTerminate, TypeOK, WorkerType
    <3>2. \A v \in Workers : v # w => worker'[v] = worker[v]
      BY <1>0, <2>2 DEF WorkflowTerminate, TypeOK
    <3> QED
      BY <3>1, <3>2 DEF Sound
  <2>3. CASE WorkflowWrite(w) \/ WorkflowTimeout(w)
    BY <1>0, <2>3, IdleSound DEF WorkflowWrite, WorkflowTimeout, Finish, TypeOK
  <2> QED
    BY <2>1, <2>2, <2>3 DEF Workflow, WorkflowSkip
<1> QED
  BY <1>1, <1>2, <1>3, <1>4, PipelineMoves

LEMMA PipelineOthers ==
  ASSUME PipelineInv,
         \/ AwsBatch \/ GrowOld \/ (\E w \in Workers : Crash(w))
         \/ (\E r \in Requests : CancelRequest(r)) \/ UNCHANGED vars
  PROVE  PipelineInv'
<1>0. TypeOK /\ InOrder
  BY DEF PipelineInv
<1>1. TypeOK'
  BY <1>0, TypeOthers, TypeCancel
<1>2. ASSUME NEW j \in DOMAIN jobs, JobEnds(j) \/ JobDropped(j)
      PROVE  PipelineInv'
  <2>1. Kept /\ InOrder'
    BY <1>0, <1>2, JobEndsEnds, EndsKept, OrderJobEnds
  <2>2. UNCHANGED <<row, worker>>
    BY <1>2 DEF JobEnds, JobDropped
  <2> QED
    BY <1>1, <2>1, <2>2, PipelineMoves DEF row
<1>3. ASSUME jobs' = jobs
      PROVE  Kept /\ InOrder'
  BY <1>0, <1>3, SameKept, OrderSame
<1>4. CASE GrowOld \/ UNCHANGED vars
  BY <1>1, <1>3, <1>4, PipelineMoves DEF GrowOld, row, vars
<1>5. ASSUME NEW w \in Workers, Crash(w)
      PROVE  PipelineInv'
  <2>1. \A v \in Workers : worker'[v] = worker[v] \/ Sound(jobs', worker'[v])
    BY <1>0, <1>5, IdleSound DEF Crash, Finish, TypeOK
  <2> QED
    BY <1>1, <1>3, <1>5, <2>1, PipelineMoves DEF Crash, row
<1>6. ASSUME NEW r \in Requests, CancelRequest(r)
      PROVE  PipelineInv'
  <2>1. api[r].was # "FINISHED"
    BY <1>0 DEF TypeOK, CancelType, Cancellable
  <2>2. status' = status \/ status' # "FINISHED"
    BY <1>6, <2>1 DEF CancelRequest, CancelStep, CancelProceed, CancelCheck, CancelMark,
                     CancelSend, CancelRollback, CancelDies, SetStatus
  <2>3. UNCHANGED Unasked
    BY <1>6 DEF CancelRequest
  <2> QED
    BY <1>1, <1>3, <2>2, <2>3, PipelineMoves DEF Unasked
<1> QED
  BY <1>2, <1>4, <1>5, <1>6 DEF AwsBatch

LEMMA PipelineInit == Init => PipelineInv
<1> SUFFICES ASSUME Init
             PROVE  PipelineInv
  OBVIOUS
<1>1. TypeOK /\ jobs = << >> /\ recorded = {} /\ status = "PENDING"
  BY TypeInit DEF Init
<1>2. \A w \in Workers : Sound(jobs, worker[w])
  BY IdleSound DEF Init
<1>3. InOrder
  BY <1>1 DEF InOrder
<1> QED
  BY <1>1, <1>2, <1>3 DEF PipelineInv

LEMMA PipelineNext == PipelineInv /\ [Next]_vars => PipelineInv'
BY PipelineRun, PipelineMonitor, PipelineWorkflow, PipelineOthers DEF Next

LEMMA PipelineInvariant == Spec => []PipelineInv
BY PipelineInit, PipelineNext, PTL DEF Spec

(* Every variable keeps its type: whatever is retried, redelivered or      *)
(* forgotten, the ids in the row and in the hands of a worker are ids of   *)
(* jobs that were submitted.                                               *)
THEOREM TypeCorrect == Spec => []TypeOK
<1>1. PipelineInv => TypeOK
  BY DEF PipelineInv
<1> QED
  BY <1>1, PipelineInvariant, PTL

(* FINISHED is written only after the last step of a pipeline succeeded,   *)
(* for any number of overlapping and repeated runs of batch_run and of the *)
(* monitor, whichever submission the ids they hold belong to.              *)
THEOREM WholePipeline == Spec => []WholePipelineDone
<1>1. PipelineInv => WholePipelineDone
  BY DEF PipelineInv, WholePipelineDone, Done
<1> QED
  BY <1>1, PipelineInvariant, PTL

(* A job of a step of the pipeline depends on a job of the step before it  *)
(* and succeeds only after that one: when the last step succeeded, so did  *)
(* a job of each step.                                                     *)
THEOREM StepsInOrder == Spec => []InOrder
<1>1. PipelineInv => InOrder
  BY DEF PipelineInv
<1> QED
  BY <1>1, PipelineInvariant, PTL

-----------------------------------------------------------------------------
(* Every job is known                                                      *)

(* While the pipeline was submitted once, whatever holds ids holds all of  *)
(* them: the batch_run that submits, or else the row and its monitors.     *)
Submitter(w) == worker[w].task = "run" /\ worker[w].ids # {}

Tracked ==
  /\ \A w \in Workers :
       Submitter(w) =>
         /\ worker[w].ids = DOMAIN jobs /\ recorded = {}
         /\ \A v \in Workers : Submitter(v) => v = w
  /\ recorded # {} => recorded = DOMAIN jobs
  /\ \A w \in Workers :
       worker[w].task = "monitor" => worker[w].ids = DOMAIN jobs /\ recorded = DOMAIN jobs
  /\ jobs = << >> \/ recorded # {} \/ \E w \in Workers : Submitter(w)

TrackInv ==
  /\ jobs # << >> => jobs[1].step = 1
  /\ SubmittedOnce => Tracked

(* A pipeline that was submitted once was not submitted twice before.      *)
LEMMA OnceBefore ==
  ASSUME TypeOK, jobs' \in Seq(JobType), Kept, SubmittedOnce',
         faults' = faults \/ faults' = faults + 1, errors' = errors \/ errors' = errors + 1
  PROVE  SubmittedOnce
<1> DEFINE First == {j \in DOMAIN jobs : jobs[j].step = 1}
           FirstNow == {j \in DOMAIN jobs' : jobs'[j].step = 1}
<1>1. DOMAIN jobs' = 1..Len(jobs') /\ Len(jobs') \in Nat
  BY LenProperties
<1>2. IsFiniteSet(1..Len(jobs'))
  BY <1>1, FS_Interval
<1>3. IsFiniteSet(FirstNow)
  BY <1>1, <1>2, FS_Subset
<1>4. First \in SUBSET FirstNow
  BY DEF Kept
<1>5. /\ IsFiniteSet(First) /\ Cardinality(First) <= Cardinality(FirstNow)
      /\ Cardinality(First) \in Nat /\ Cardinality(FirstNow) \in Nat
  BY <1>3, <1>4, FS_Subset, FS_CardinalityType
<1>6. Cardinality(FirstNow) <= 1 /\ faults' = 0 /\ errors' = 0
  BY DEF SubmittedOnce
<1> HIDE DEF First, FirstNow
<1>7. Cardinality(First) <= 1 /\ faults = 0 /\ errors = 0
  BY <1>5, <1>6 DEF TypeOK
<1> QED
  BY <1>7 DEF SubmittedOnce, First

(* Two first steps are two submissions.                                    *)
LEMMA FirstStepsMeet ==
  ASSUME NEW js \in Seq(JobType), Cardinality({k \in DOMAIN js : js[k].step = 1}) <= 1,
         NEW i \in DOMAIN js, NEW j \in DOMAIN js, js[i].step = 1, js[j].step = 1
  PROVE  i = j
<1> DEFINE First == {k \in DOMAIN js : js[k].step = 1}
<1>1. DOMAIN js = 1..Len(js) /\ Len(js) \in Nat
  BY LenProperties
<1>2. IsFiniteSet(1..Len(js))
  BY <1>1, FS_Interval
<1>3. IsFiniteSet(First)
  BY <1>1, <1>2, FS_Subset
<1>4. Cardinality(First) <= 1
  OBVIOUS
<1>5. {i, j} \in SUBSET First
  OBVIOUS
<1>6. Cardinality({i, j}) <= Cardinality(First) /\ IsFiniteSet({i, j})
  BY <1>3, <1>5, FS_Subset
<1>7. ASSUME i # j
      PROVE  Cardinality({i} \cup {j}) = 2
  <2> DEFINE I == {i}
  <2>1. IsFiniteSet(I) /\ Cardinality(I) = 1 /\ j \notin I
    BY <1>7, FS_Singleton
  <2> HIDE DEF I
  <2>2. Cardinality(I \cup {j}) = Cardinality(I) + 1
    BY <2>1, FS_AddElement
  <2>3. Cardinality(I \cup {j}) = 2
    BY <2>1, <2>2
  <2> QED
    BY <2>3 DEF I
<1>8. {i} \cup {j} = {i, j}
  OBVIOUS
<1>9. Cardinality(First) \in Nat
  BY <1>3, FS_CardinalityType
<1> HIDE DEF First
<1>10. ASSUME i # j PROVE FALSE
  <2>1. Cardinality({i, j}) = 2
    BY <1>7, <1>8, <1>10
  <2> QED
    BY <1>4, <1>6, <1>9, <2>1
<1> QED
  BY <1>10

LEMMA NoJobs ==
  ASSUME NEW js \in Seq(JobType)
  PROVE  js = << >> <=> 1 \notin DOMAIN js
<1>1. DOMAIN js = 1..Len(js) /\ Len(js) \in Nat
  BY LenProperties
<1>2. js # << >> => Len(js) # 0
  BY EmptySeq
<1>3. Len(<< >>) = 0
  BY EmptySeq
<1> QED
  BY <1>1, <1>2, <1>3

LEMMA SameEnds == TypeOK /\ jobs' = jobs => Ends
BY DEF TypeOK, Ends

(* Steps that submit nothing and record nothing new.                       *)
LEMMA TrackQuiet ==
  ASSUME TypeOK, TrackInv, Ends,
         faults' = faults \/ faults' = faults + 1, errors' = errors \/ errors' = errors + 1,
         SubmittedOnce => recorded' = recorded,
         \A w \in Workers :
           \/ worker'[w].task = worker[w].task /\ worker'[w].ids = worker[w].ids
           \/ /\ ~Submitter(w)
              /\ worker'[w].task = "run" => worker'[w].ids = {}
              /\ worker'[w].task = "monitor" => worker'[w].ids = recorded /\ recorded # {}
  PROVE  TrackInv'
<1>1. DOMAIN jobs = 1..Len(jobs) /\ DOMAIN jobs' = 1..Len(jobs') /\ DOMAIN jobs' = DOMAIN jobs
      /\ Len(jobs) \in Nat /\ Len(jobs') \in Nat /\ jobs' \in Seq(JobType)
  BY LenProperties DEF Ends, TypeOK
<1>2. jobs' # << >> => jobs'[1].step = 1
  <2>1. jobs' # << >> => jobs # << >> /\ 1 \in DOMAIN jobs
    BY <1>1, NoJobs DEF TypeOK
  <2> QED
    BY <2>1 DEF TrackInv, Ends
<1>3. ASSUME SubmittedOnce'
      PROVE  Tracked'
  <2>1. SubmittedOnce /\ Tracked
    BY <1>1, <1>3, EndsKept, OnceBefore DEF TrackInv
  <2>2. recorded' = recorded
    BY <2>1
  <2>3. \A w \in Workers : Submitter(w)' <=> Submitter(w)
    BY DEF Submitter
  <2>4. \A w \in Workers : Submitter(w) => worker'[w].ids = worker[w].ids
    BY DEF Submitter
  <2>5. \A w \in Workers :
          worker'[w].task = "monitor" => worker'[w].ids = DOMAIN jobs /\ recorded = DOMAIN jobs
    BY <2>1 DEF Tracked
  <2>6. jobs' = << >> <=> jobs = << >>
    BY <1>1, NoJobs DEF TypeOK
  <2>7. \A w \in Workers : Submitter(w)' =>
          /\ worker'[w].ids = DOMAIN jobs /\ recorded = {}
          /\ \A v \in Workers : Submitter(v)' => v = w
    BY <2>1, <2>3, <2>4 DEF Tracked
  <2>8. recorded # {} => recorded = DOMAIN jobs
    BY <2>1 DEF Tracked
  <2>9. jobs' = << >> \/ recorded' # {} \/ \E w \in Workers : Submitter(w)'
    BY <2>1, <2>2, <2>3, <2>6 DEF Tracked
  <2> QED
    BY <1>1, <2>2, <2>5, <2>7, <2>8, <2>9 DEF Tracked
<1> QED
  BY <1>2, <1>3 DEF TrackInv

LEMMA TrackSubmit ==
  ASSUME PipelineInv, TrackInv, NEW w \in Workers, SubmitStep(w)
  PROVE  TrackInv'
<1> DEFINE ids == worker[w].ids
           n   == Len(jobs) + 1
<1>0. TypeOK /\ Submitting
  BY PipelineSubmitting DEF PipelineInv
<1>1. /\ jobs'[n] = Submitted(ids) /\ Len(jobs) \in Nat /\ DOMAIN jobs = 1..Len(jobs)
      /\ DOMAIN jobs' = 1..n /\ \A j \in DOMAIN jobs : jobs'[j] = jobs[j]
      /\ jobs' \in Seq(JobType) /\ Cardinality(ids) \in Nat
  BY <1>0, SubmitAppends
<1>2. /\ worker'[w].ids = ids \cup {n} /\ worker'[w].task = "run" /\ worker[w].task = "run"
      /\ \A v \in Workers : v # w => worker'[v] = worker[v]
      /\ recorded' = recorded /\ faults' = faults /\ errors' = errors
  BY <1>0 DEF SubmitStep, TypeOK, WorkerType, row
<1>3. jobs'[n].step = Cardinality(ids) + 1
  BY <1>1 DEF Submitted
<1>4. /\ ids \subseteq DOMAIN jobs /\ recorded \subseteq DOMAIN jobs
      /\ \A v \in Workers : worker[v].ids \subseteq DOMAIN jobs
  BY <1>0 DEF TypeOK, WorkerType
<1>5. jobs = << >> <=> 1 \notin DOMAIN jobs
  BY <1>0, NoJobs DEF TypeOK
<1>6. jobs' # << >> => jobs'[1].step = 1
  <2>1. CASE jobs = << >>
    <3>1. n = 1 /\ ids = {}
      BY <1>1, <1>4, <1>5, <2>1
    <3> QED
      BY <1>3, <3>1, FS_EmptySet
  <2>2. CASE jobs # << >>
    BY <1>1, <1>5, <2>2 DEF TrackInv
  <2> QED
    BY <2>1, <2>2
<1>7. ASSUME SubmittedOnce'
      PROVE  Tracked'
  <2>1. SubmittedOnce /\ Tracked
    BY <1>0, <1>1, <1>2, <1>7, SubmitKept, OnceBefore DEF TrackInv
  <2>2. /\ ids \cup {n} = DOMAIN jobs' /\ recorded = {}
        /\ \A v \in Workers : Submitter(v) => v = w
        /\ \A v \in Workers : worker[v].task # "monitor"
    <3>1. CASE ids = {}
      <4>1. jobs'[n].step = 1
        BY <1>3, <3>1, FS_EmptySet
      <4>2. 1 \in DOMAIN jobs' /\ n \in DOMAIN jobs'
        BY <1>1
      <4>3. jobs'[1].step = 1
        BY <1>5, <1>6, <4>1, <4>2, <1>1, NoJobs
      <4>4. n = 1
        BY <1>1, <1>7, <4>1, <4>2, <4>3, FirstStepsMeet DEF SubmittedOnce
      <4>5. DOMAIN jobs = {} /\ DOMAIN jobs' = {n}
        BY <1>1, <4>4
      <4> QED
        BY <1>4, <2>1, <3>1, <4>5, PipelineInv DEF Submitter, PipelineInv, Sound, HasLast
    <3>2. CASE ids # {}
      <4>1. Submitter(w)
        BY <1>2, <3>2 DEF Submitter
      <4>2. ids = DOMAIN jobs /\ recorded = {} /\ \A v \in Workers : Submitter(v) => v = w
        BY <2>1, <4>1 DEF Tracked
      <4>3. \A v \in Workers : worker[v].task # "monitor"
        BY <2>1, <3>2, <4>2 DEF Tracked
      <4> QED
        BY <1>1, <4>2, <4>3
    <3> QED
      BY <3>1, <3>2
  <2>3. \A v \in Workers : Submitter(v)' => v = w
    BY <1>2, <2>2 DEF Submitter
  <2>4. Submitter(w)'
    BY <1>2 DEF Submitter
  <2>5. \A v \in Workers : worker'[v].task # "monitor"
    BY <1>2, <2>2
  <2> QED
    BY <1>2, <2>2, <2>3, <2>4, <2>5 DEF Tracked
<1> QED
  BY <1>6, <1>7 DEF TrackInv

LEMMA TrackRecord ==
  ASSUME PipelineInv, TrackInv, NEW w \in Workers, BatchRecord(w)
  PROVE  TrackInv'
<1>0. TypeOK /\ jobs' = jobs /\ errors' = errors /\ faults' = faults
  BY DEF PipelineInv, BatchRecord
<1>1. recorded' = worker[w].ids /\ Submitter(w)
  BY FS_EmptySet, BatchAssumption DEF BatchRecord, Submitter
<1>2. ~Submitter(w)' /\ worker'[w].task = "none"
      /\ \A v \in Workers : v # w => worker'[v] = worker[v]
  BY <1>0 DEF BatchRecord, Finish, Idle, Submitter, TypeOK
<1>3. ASSUME SubmittedOnce'
      PROVE  Tracked'
  <2>1. Tracked
    BY <1>0, <1>3 DEF TrackInv, SubmittedOnce
  <2>2. worker[w].ids = DOMAIN jobs /\ recorded = {} /\ worker[w].ids # {}
        /\ \A v \in Workers : Submitter(v) => v = w
    BY <1>1, <2>1 DEF Tracked, Submitter
  <2>3. \A v \in Workers : worker[v].task # "monitor"
    BY <2>1, <2>2 DEF Tracked
  <2>4. \A v \in Workers : ~Submitter(v)'
    BY <1>2, <2>2 DEF Submitter
  <2>5. \A v \in Workers : worker'[v].task # "monitor"
    BY <1>2, <2>3
  <2> QED
    BY <1>0, <1>1, <2>2, <2>4, <2>5 DEF Tracked
<1> QED
  BY <1>0, <1>3 DEF TrackInv

LEMMA TrackRun ==
  ASSUME PipelineInv, TrackInv, NEW w \in Workers, Run(w)
  PROVE  TrackInv'
<1>0. TypeOK
  BY DEF PipelineInv
<1>1. CASE BatchReady(w)
  <2>1. PICK n \in 0..MaxRetries : Take(w, [Idle EXCEPT !.task = "run", !.try = n])
    BY <1>1 DEF BatchReady
  <2>2. /\ worker[w].task = "none" /\ worker'[w].task = "run" /\ worker'[w].ids = {}
        /\ \A v \in Workers : v # w => worker'[v] = worker[v]
    BY <1>0, <2>1 DEF Take, Idle, TypeOK
  <2> QED
    BY <1>0, <1>1, <2>2, SameEnds, TrackQuiet DEF BatchReady, Submitter
<1>2. ASSUME BatchFail(w) \/ BatchFailUnwritten(w)
      PROVE  TrackInv'
  <2>1. errors' # 0 /\ jobs' = jobs
    BY <1>0, <1>2 DEF BatchFail, BatchFailUnwritten, Raise, TypeOK
  <2> QED
    BY <2>1 DEF TrackInv, SubmittedOnce
<1> QED
  BY <1>1, <1>2, TrackSubmit, TrackRecord DEF Run

LEMMA TrackMonitor ==
  ASSUME PipelineInv, TrackInv, NEW w \in Workers, Monitor(w)
  PROVE  TrackInv'
<1>0. TypeOK
  BY DEF PipelineInv
<1>1. Ends /\ errors' = errors
  BY <1>0, SameEnds DEF Monitor, MonitorSelect, MonitorDescribe, MonitorCommit
<1>2. CASE MonitorSelect(w)
  <2>1. /\ worker[w].task = "none" /\ worker'[w].task = "monitor" /\ worker'[w].ids = recorded
        /\ \A v \in Workers : v # w => worker'[v] = worker[v]
    BY <1>0, <1>2 DEF MonitorSelect, Take, Idle, TypeOK
  <2> QED
    BY <1>0, <1>1, <1>2, <2>1, TrackQuiet DEF MonitorSelect, Submitter, row
<1>3. CASE MonitorDescribe(w)
  <2>1. PICK v : worker' = [worker EXCEPT ![w].verdict = v]
    BY <1>3 DEF MonitorDescribe
  <2>2. \A u \in Workers : worker'[u].task = worker[u].task /\ worker'[u].ids = worker[u].ids
    BY <1>0, <2>1 DEF TypeOK, WorkerType
  <2> QED
    BY <1>0, <1>1, <1>3, <2>2, TrackQuiet DEF MonitorDescribe, Fault, row
<1>4. CASE MonitorCommit(w)
  <2>1. /\ worker[w].task = "monitor" /\ worker'[w] = Idle
        /\ \A v \in Workers : v # w => worker'[v] = worker[v]
    BY <1>0, <1>4 DEF MonitorCommit, Finish, TypeOK
  <2>2. SubmittedOnce => worker[w].ids = recorded
    BY <2>1 DEF TrackInv, Tracked
  <2>3. SubmittedOnce => recorded' = recorded
    BY <1>4, <2>2 DEF MonitorCommit
  <2> QED
    BY <1>0, <1>1, <1>4, <2>1, <2>3, TrackQuiet DEF MonitorCommit, Submitter, Idle
<1> QED
  BY <1>2, <1>3, <1>4 DEF Monitor

LEMMA TrackWorkflow ==
  ASSUME PipelineInv, TrackInv, NEW w \in Workers, Workflow(w)
  PROVE  TrackInv'
<1>0. TypeOK
  BY DEF PipelineInv
<1>1. Ends
  <2>1. CASE WorkflowTerminate(w)
    BY <1>0, <2>1, TerminateEnds
  <2> QED
    BY <1>0, <2>1, SameEnds
    DEF Workflow, WorkflowStart, WorkflowSkip, WorkflowWrite, WorkflowTimeout
<1>2. /\ recorded' = recorded /\ errors' = errors
      /\ faults' = faults \/ faults' = faults + 1
  BY DEF Workflow, WorkflowStart, WorkflowSkip, WorkflowTerminate, WorkflowWrite,
         WorkflowTimeout, Fault, row
<1>3. \A v \in Workers :
        \/ worker'[v].task = worker[v].task /\ worker'[v].ids = worker[v].ids
        \/ worker[v].task # "run" /\ worker'[v].task \in {"none", "cancel"}
  <2>1. CASE WorkflowStart(w)
    BY <1>0, <2>1 DEF WorkflowStart, Take, Idle, TypeOK
  <2>2. CASE WorkflowSkip(w)
    BY <2>2 DEF WorkflowSkip
  <2>3. CASE WorkflowTerminate(w)
    BY <1>0, <2>3 DEF WorkflowTerminate, TypeOK, WorkerType
  <2>4. CASE WorkflowWrite(w) \/ WorkflowTimeout(w)
    BY <1>0, <2>4 DEF WorkflowWrite, WorkflowTimeout, Finish, Idle, TypeOK
  <2> QED
    BY <2>1, <2>2, <2>3, <2>4 DEF Workflow
<1> QED
  BY <1>0, <1>1, <1>2, <1>3, TrackQuiet DEF Submitter

LEMMA TrackOthers ==
  ASSUME PipelineInv, TrackInv,
         \/ AwsBatch \/ GrowOld \/ (\E w \in Workers : Crash(w))
         \/ (\E r \in Requests : CancelRequest(r)) \/ UNCHANGED vars
  PROVE  TrackInv'
<1>0. TypeOK
  BY DEF PipelineInv
<1>1. ASSUME NEW j \in DOMAIN jobs, JobEnds(j) \/ JobDropped(j)
      PROVE  TrackInv'
  <2>1. UNCHANGED <<row, worker, errors, faults>>
    BY <1>1 DEF JobEnds, JobDropped
  <2> QED
    BY <1>0, <1>1, <2>1, JobEndsEnds, TrackQuiet DEF row
<1>2. CASE GrowOld \/ UNCHANGED vars
  BY <1>0, <1>2, SameEnds, TrackQuiet DEF GrowOld, row, vars
<1>3. ASSUME NEW w \in Workers, Crash(w)
      PROVE  TrackInv'
  <2>1. faults' # 0 /\ jobs' = jobs
    BY <1>0, <1>3 DEF Crash, Fault, TypeOK
  <2> QED
    BY <2>1 DEF TrackInv, SubmittedOnce
<1>4. ASSUME NEW r \in Requests, CancelRequest(r)
      PROVE  TrackInv'
  <2>1. UNCHANGED Unasked
    BY <1>4 DEF CancelRequest
  <2>2. faults' = faults \/ faults' = faults + 1
    BY <1>4 DEF CancelRequest, CancelStep, CancelProceed, CancelCheck, CancelMark,
                CancelSend, CancelRollback, CancelDies, Fault
  <2> QED
    BY <1>0, <2>1, <2>2, SameEnds, TrackQuiet DEF Unasked
<1> QED
  BY <1>1, <1>2, <1>3, <1>4 DEF AwsBatch

LEMMA TrackInit == Init => TrackInv
BY IdleSound DEF Init, TrackInv, Tracked, Submitter, Idle

LEMMA TrackNext == PipelineInv /\ TrackInv /\ [Next]_vars => TrackInv'
BY TrackRun, TrackMonitor, TrackWorkflow, TrackOthers DEF Next

(* A job that AWS still runs is named by the row, or batch_run is about to *)
(* record it, as long as the pipeline was submitted once and nothing went  *)
(* wrong: the monitor, which writes the ids it read back into the row      *)
(* later, never drops one.                                                 *)
THEOREM EveryJobTracked == Spec => []JobsTracked
<1>1. TypeOK /\ TrackInv => JobsTracked
  <2> SUFFICES ASSUME TypeOK, Tracked, NEW j \in DOMAIN jobs, j \notin recorded
               PROVE  \E w \in Workers : worker[w].task = "run" /\ j \in worker[w].ids
    BY DEF TrackInv, JobsTracked
  <2>1. jobs # << >>
    BY NoJobs, JobIds DEF TypeOK
  <2> QED
    BY <2>1 DEF Tracked, Submitter
<1>2. PipelineInv => TypeOK
  BY DEF PipelineInv
<1> QED
  BY <1>1, <1>2, PipelineInvariant, TrackInit, TrackNext, PTL DEF Spec

-----------------------------------------------------------------------------
(* A settled status                                                        *)

(* When the retries are used up, no request is under way and no worker is  *)
(* busy, the terminal status is final, however many cancel tasks are left  *)
(* in the broker, whatever AWS Batch still runs and however often the      *)
(* monitor is started.                                                     *)
THEOREM SettledFinal == Spec => SettledIsFinal
<1>1. TypeOK /\ [Next]_vars => [Settled => Settled' /\ status' = status]_vars
  <2> SUFFICES ASSUME TypeOK, Settled, Next
               PROVE  Settled' /\ status' = status
    OBVIOUS
  <2> USE DEF Settled, row, broker
  <2>1. ASSUME NEW w \in Workers
        PROVE  ~Run(w) /\ ~Crash(w)
    <3>1. ~BatchReady(w)
      <4>1. \A n \in 0..MaxRetries : ~(runTasks[n] > 0)
        <5>1. \A n \in 0..MaxRetries : runTasks[n] = 0
          OBVIOUS
        <5> QED
          BY <5>1
      <4> QED
        BY <4>1 DEF BatchReady
    <3>2. worker[w].task = "none"
      OBVIOUS
    <3> QED
      BY <3>1, <3>2 DEF Run, SubmitStep, BatchRecord, BatchFail, BatchFailUnwritten, Crash
  <2>2. ASSUME NEW w \in Workers, Monitor(w)
        PROVE  FALSE
    BY <2>2 DEF Monitor, MonitorSelect, MonitorDescribe, MonitorCommit, Terminal
  <2>3. ASSUME NEW w \in Workers, Workflow(w)
        PROVE  Settled' /\ status' = status
    BY <2>3 DEF Workflow, WorkflowStart, WorkflowSkip, WorkflowTerminate, WorkflowWrite,
                WorkflowTimeout, Terminal
  <2>4. ASSUME NEW r \in Requests, CancelRequest(r)
        PROVE  Settled' /\ status' = status
    BY <2>4 DEF CancelRequest, CancelStep, CancelProceed, CancelCheck, CancelMark,
                CancelSend, CancelRollback, CancelDies, Unasked, TypeOK, CancelType,
                Cancellable, Terminal
  <2>5. CASE AwsBatch \/ GrowOld
    BY <2>5 DEF AwsBatch, JobEnds, JobDropped, GrowOld
  <2> QED
    BY <2>1, <2>2, <2>3, <2>4, <2>5 DEF Next
<1> QED
  BY <1>1, TypeCorrect, PTL DEF Spec, SettledIsFinal
=============================================================================
