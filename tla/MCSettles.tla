------------------------------ MODULE MCSettles -------------------------------
(* What must come to an end: a bulk email, a dispatched Batch execution, an  *)
(* outage of the token blocklist, the queue of a user.  w1 and               *)
(* w2 are two workers and two processes of the API, bw and br a worker and a *)
(* cancellation of the Batch execution, Entries are executions.              *)
EXTENDS BulkEmail, TLC

CONSTANTS w1, w2, br, bw, jti, Entries

VARIABLES
  focus,
  b_status, b_ended, b_cancelTasks, b_api, b_faults, b_recorded, b_jobs,
  b_runTasks, b_old, b_worker, b_errors,
  t_redis, t_client, t_throttled, t_left, t_entry, t_leaving, t_listed,
  q_status, q_queuedAt, q_clock, q_built, q_admins, q_pending, q_sent, q_lost,
  q_faults, q_req, q_run

Run == INSTANCE BatchExecution WITH
  Requests <- {br}, MaxFaults <- 0, Workers <- {bw}, Dispatches <- {1},
  Steps <- 2, MaxRetries <- 1, MaxErrors <- 2, Aging <- FALSE,
  status <- b_status, ended <- b_ended, cancelTasks <- b_cancelTasks,
  api <- b_api, faults <- b_faults, recorded <- b_recorded, jobs <- b_jobs,
  runTasks <- b_runTasks, old <- b_old, worker <- b_worker, errors <- b_errors

Blocklist == INSTANCE TokenBlocklist WITH
  Processes <- Workers, Tokens <- {jti}, Life <- 2, Buffer <- 1,
  redis <- t_redis, client <- t_client, throttled <- t_throttled,
  left <- t_left, entry <- t_entry, leaving <- t_leaving, listed <- t_listed

Queue == INSTANCE ExecutionQueue WITH
  Users <- {"u1"}, Admins <- {}, Promotable <- {},
  MaxConcurrent <- [u \in {"u1"} |-> 1], Executions <- Entries,
  Owner <- [e \in Entries |-> "u1"], Scripts <- {"s1"}, Rebuildable <- {},
  ScriptOf <- [e \in Entries |-> "s1"], Handlers <- {"h1"},
  Processors <- {"p1"}, MaxUsersPerRun <- 1, MaxFaults <- 0, None <- "none",
  status <- q_status, queuedAt <- q_queuedAt, clock <- q_clock,
  built <- q_built, admins <- q_admins, pending <- q_pending, sent <- q_sent,
  lost <- q_lost, faults <- q_faults, req <- q_req, run <- q_run

(* Which part the run is about is chosen once, and only that part moves.     *)
AllInit ==
  /\ focus \in {"email", "batch", "blocklist", "queue"}
  /\ Init /\ Run!Init /\ Blocklist!Init /\ Queue!Init
  /\ (focus # "email" => audience = 0 /\ keyless = {}) /\ (focus # "blocklist" => t_redis)

batchVars ==
  <<b_status, b_ended, b_cancelTasks, b_api, b_faults, b_recorded, b_jobs,
    b_runTasks, b_old, b_worker, b_errors>>

blocklistVars ==
  <<t_redis, t_client, t_throttled, t_left, t_entry, t_leaving, t_listed>>

queueVars ==
  <<q_status, q_queuedAt, q_clock, q_built, q_admins, q_pending, q_sent,
    q_lost, q_faults, q_req, q_run>>

allVars == <<focus, vars, batchVars, blocklistVars, queueVars>>

(* The variables of the other parts stay as they are.                        *)
Frame ==
  /\ UNCHANGED focus
  /\ focus # "email" => UNCHANGED vars
  /\ focus # "batch" => UNCHANGED batchVars
  /\ focus # "blocklist" => UNCHANGED blocklistVars
  /\ focus # "queue" => UNCHANGED queueVars

AllNext ==
  \/ focus = "email" /\ Next /\ Frame
  \/ focus = "batch" /\ Run!Next /\ Frame
  \/ focus = "blocklist" /\ Blocklist!Next /\ Frame
  \/ focus = "queue" /\ Queue!Next /\ Frame

AllSpec == AllInit /\ [][AllNext]_allVars

(* A step of a part, and a task that each part has one of its own of.        *)
Of(part, A) == focus = part /\ A /\ Frame

Task(A, B, C) == Of("email", A) \/ Of("batch", B) \/ Of("blocklist", C)

(* The fairness of each part is that of its module: workers take up each     *)
(* kind of task again and again, started work goes on, the outside answers.  *)
(* Since only one part moves, a strong condition on Task speaks for one task *)
(* of each part.                                                             *)
SettlesFairness ==
  /\ SF_allVars(Task(TaskStart(w1), Run!Receive(bw), Blocklist!Answer(w1)))
  /\ SF_allVars(Task(TaskStart(w2), Run!MonitorSelect(bw), Blocklist!Answer(w2)))
  /\ \A r \in Requests : WF_allVars(Of("email", SendDispatch(r)))
  /\ \A w \in Workers :
       /\ WF_allVars(Of("email", SendBatch(w) \/ AllSent(w) \/ TaskEnd(w)))
       /\ WF_allVars(Of("blocklist", Blocklist!RetryDue(w)))
       /\ WF_allVars(Of("blocklist", Blocklist!Block(w) \/ Blocklist!BlockFails(w)))
  /\ WF_allVars(Of("blocklist", Blocklist!Login(jti)))
  /\ WF_allVars(Of("batch", Run!Continue(bw)))
  /\ WF_allVars(Of("batch", Run!AwsBatch))
  /\ WF_allVars(Of("queue", Queue!CreateCommit("h1") \/ Queue!CreateDispatch("h1")))
  /\ WF_allVars(Of("queue", Queue!Advance("p1")))
  /\ \A e \in Entries :
       /\ WF_allVars(Of("queue", Queue!RunTask(e)))
       /\ WF_allVars(Of("queue", Queue!Progress(e)))
       /\ WF_allVars(Of("queue", Queue!CancelDone(e)))
  /\ WF_allVars(Of("batch", Run!CancelContinue(br)))

SettlesSpec == AllSpec /\ SettlesFairness

(* BatchExecution, a dispatched execution comes to rest.                     *)
ComesToRest == focus = "batch" => Run!ComesToRest

(* TokenBlocklist, a process comes back to Redis after an outage.            *)
Reconnects == focus = "blocklist" => Blocklist!Reconnects

(* ExecutionQueue, each waiting execution of the user is served.             *)
QueueDrains == focus = "queue" => Queue!QueueDrains
===============================================================================
