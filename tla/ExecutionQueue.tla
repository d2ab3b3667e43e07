--------------------------- MODULE ExecutionQueue ---------------------------
(***************************************************************************)
(* Admission of executions and the queue of those over a user's limit.     *)
(*                                                                         *)
(* create_execution (an API request) inserts a row and either dispatches   *)
(* its run task or leaves it waiting: status PENDING with queued_at set.   *)
(* process_queued_executions (a Celery task beat starts every 30 seconds)  *)
(* admits waiting rows: it clears queued_at, commits, then dispatches.     *)
(* Both read a count of the user's active rows first and act on it later,  *)
(* each query and each commit being a step of its own: PostgreSQL runs at  *)
(* READ COMMITTED and no row is locked.                                    *)
(*                                                                         *)
(* What the workers do to a dispatched execution is modelled here by its   *)
(* effect on the status only; DockerExecution models it step by step.      *)
(***************************************************************************)
EXTENDS Naturals, FiniteSets

CONSTANTS
  Users,          (* users who submit executions                             *)
  Admins,         (* those for whom is_admin_or_higher holds at first        *)
  Promotable,     (* users whose role may change while they run              *)
  MaxConcurrent,  (* the limit of each user: MAX_CONCURRENT_PER_USER, or the
                     user's own max_concurrent_executions                    *)
  Executions,     (* identities of the execution rows                        *)
  Owner,          (* Execution.user_id                                       *)
  Scripts,        (* scripts that executions are started from                *)
  Rebuildable,    (* the scripts whose build status may change while they run *)
  ScriptOf,       (* Execution.script_id                                     *)
  Handlers,       (* API threads that serve POST /script/<script>/run        *)
  Processors,     (* runs of process_queued_executions that may overlap      *)
  MaxUsersPerRun, (* _MAX_USERS_PER_RUN                                      *)
  MaxFaults,      (* bound: failed dispatches, crashes, Docker outages       *)
  None            (* no execution, no user                                   *)

ASSUME QueueAssumption ==
  /\ Admins \subseteq Users
  /\ Promotable \subseteq Users
  /\ MaxConcurrent \in [Users -> Nat]
  /\ Owner \in [Executions -> Users]
  /\ ScriptOf \in [Executions -> Scripts]
  /\ Rebuildable \subseteq Scripts
  /\ MaxUsersPerRun \in Nat
  /\ IsFiniteSet(Executions)
  /\ IsFiniteSet(Processors) /\ Processors # {}
  /\ MaxFaults \in Nat
  /\ None \notin Executions
  /\ None \notin Users

VARIABLES
  status,    (* Execution.status; "NONE" while there is no row               *)
  queuedAt,  (* Execution.queued_at; 0 is NULL                               *)
  clock,     (* the last timestamp given to a queued_at                      *)
  built,     (* scripts whose status is SUCCESS                              *)
  admins,    (* users for whom is_admin_or_higher holds                      *)
  pending,   (* run tasks in the broker, not yet consumed, per execution     *)
  sent,      (* run tasks ever sent, per execution (history)                 *)
  lost,      (* executions whose dispatch failed or died (history)           *)
  faults,    (* faults so far                                                *)
  req,       (* each API thread: where it is in create_execution             *)
  run        (* each processor: where it is in process_queued_executions     *)

rowVars == <<status, queuedAt>>
brokerVars == <<pending, sent>>
configVars == <<built, admins>>
vars == <<rowVars, brokerVars, configVars, clock, lost, faults, req, run>>

-----------------------------------------------------------------------------
Terminal == {"FINISHED", "FAILED", "CANCELLED"}
Active   == {"PENDING", "READY", "RUNNING", "CANCELLING"}
Status   == Active \cup Terminal

Row(e) == status[e] # "NONE"

(* A row waiting in the queue, as both queries of the processor select it. *)
Waiting(e) == status[e] = "PENDING" /\ queuedAt[e] # 0

WaitingOf(u) == {e \in Executions : Owner[e] = u /\ Waiting(e)}

(* Mutant: the count forgets queued_at IS NULL. *)
ActiveOrWaitingOf(u) == {e \in Executions : Owner[e] = u /\ status[e] \in Active}

(* _get_user_active_execution_count *)
ActiveOf(u) ==
  {e \in Executions : Owner[e] = u /\ status[e] \in Active /\ queuedAt[e] = 0}

HasCapacity(u) == Cardinality(ActiveOf(u)) < MaxConcurrent[u]

Fault == faults < MaxFaults /\ faults' = faults + 1

(* _dispatch_execution: one run task for e enters the broker. *)
Send(e) ==
  /\ pending' = [pending EXCEPT ![e] = @ + 1]
  /\ sent' = [sent EXCEPT ![e] = @ + 1]

-----------------------------------------------------------------------------
(* create_execution                                                        *)

IdleReq == [pc |-> "idle", e |-> None, at |-> 0]

(* The script must be built; the count decides whether the row will queue. *)
CreateCheck(h, e) ==
  /\ req[h].pc = "idle"
  /\ ~Row(e)
  /\ \A g \in Handlers : req[g].e # e
  /\ ScriptOf[e] \in built
  /\ LET queue == Owner[e] \notin admins /\ ~HasCapacity(Owner[e])
         at    == IF queue THEN clock + 1 ELSE 0
     IN /\ req' = [req EXCEPT ![h] = [pc |-> "checked", e |-> e, at |-> at]]
        /\ clock' = clock + (IF queue THEN 1 ELSE 0)
  /\ UNCHANGED <<rowVars, brokerVars, configVars, lost, faults, run>>

(* Mutant: no early return for a queued execution. *)
CreateCommitNoReturn(h) ==
  /\ req[h].pc = "checked"
  /\ status' = [status EXCEPT ![req[h].e] = "PENDING"]
  /\ queuedAt' = [queuedAt EXCEPT ![req[h].e] = req[h].at]
  /\ req' = [req EXCEPT ![h].pc = "saved"]
  /\ UNCHANGED <<brokerVars, clock, configVars, lost, faults, run>>

(* The row is committed; a queued one is left to the processor. *)
CreateCommit(h) ==
  /\ req[h].pc = "checked"
  /\ status' = [status EXCEPT ![req[h].e] = "PENDING"]
  /\ queuedAt' = [queuedAt EXCEPT ![req[h].e] = req[h].at]
  /\ req' = [req EXCEPT ![h] =
               IF req[h].at = 0 THEN [req[h] EXCEPT !.pc = "saved"] ELSE IdleReq]
  /\ UNCHANGED <<brokerVars, clock, configVars, lost, faults, run>>

CreateDispatch(h) ==
  /\ req[h].pc = "saved"
  /\ Send(req[h].e)
  /\ req' = [req EXCEPT ![h] = IdleReq]
  /\ UNCHANGED <<rowVars, clock, configVars, lost, faults, run>>

(* Building the environment or reaching the broker raises, or the API      *)
(* process dies: the row stays PENDING and nothing was sent.               *)
CreateDispatchFail(h) ==
  /\ req[h].pc = "saved"
  /\ Fault
  /\ lost' = lost \cup {req[h].e}
  /\ req' = [req EXCEPT ![h] = IdleReq]
  /\ UNCHANGED <<rowVars, brokerVars, clock, configVars, run>>

-----------------------------------------------------------------------------
(* process_queued_executions                                               *)

IdleRun ==
  [pc |-> "idle", users |-> {}, user |-> None, admin |-> FALSE, slots |-> 0,
   todo |-> {}, e |-> None]

(* The next turn of the loop over users, or the end of the task. *)
NextUser(users) ==
  IF users = {} THEN IdleRun ELSE [IdleRun EXCEPT !.pc = "users", !.users = users]

(* The next turn of the loop over the executions of one user. *)
NextItem(r, todo) ==
  IF todo = {} THEN NextUser(r.users)
  ELSE [r EXCEPT !.pc = "batch", !.todo = todo, !.e = None]

Items(E) == {[e |-> e, at |-> queuedAt[e]] : e \in E}

(* Mutant: ORDER BY queued_at DESC. *)
Newest(items, n) ==
  {S \in SUBSET items :
     /\ Cardinality(S) = IF Cardinality(items) < n THEN Cardinality(items) ELSE n
     /\ \A i \in S, j \in items \ S : i.at >= j.at}

(* ORDER BY queued_at LIMIT n *)
Oldest(items, n) ==
  {S \in SUBSET items :
     /\ Cardinality(S) = IF Cardinality(items) < n THEN Cardinality(items) ELSE n
     /\ \A i \in S, j \in items \ S : i.at <= j.at}

(* The items the loop may take next; the admin query has no ORDER BY. *)
Heads(r) ==
  IF r.admin THEN r.todo
  ELSE {i \in r.todo : \A j \in r.todo : i.at <= j.at}

(* Users with waiting executions, at most MaxUsersPerRun of them. *)
ProcStart(p) ==
  /\ run[p].pc = "idle"
  /\ LET users == {Owner[e] : e \in {f \in Executions : Waiting(f)}}
         n     == Cardinality(users)
     IN /\ users # {}
        /\ \E S \in SUBSET users :
             /\ Cardinality(S) = IF n < MaxUsersPerRun THEN n ELSE MaxUsersPerRun
             /\ run' = [run EXCEPT ![p] = NextUser(S)]
  /\ UNCHANGED <<rowVars, brokerVars, clock, configVars, lost, faults, req>>

(* A user at the limit is skipped. *)
ProcFull(p, u) ==
  /\ run[p].pc = "users" /\ u \in run[p].users
  /\ u \notin admins /\ ~HasCapacity(u)
  /\ run' = [run EXCEPT ![p] = NextUser(run[p].users \ {u})]
  /\ UNCHANGED <<rowVars, brokerVars, clock, configVars, lost, faults, req>>

(* Mutant: the slots are computed without the test of the limit. *)
ProcCountUntested(p, u) ==
  /\ run[p].pc = "users" /\ u \in run[p].users
  /\ u \notin admins
  /\ run' = [run EXCEPT ![p] =
       [run[p] EXCEPT !.pc = "counted", !.users = run[p].users \ {u}, !.user = u,
                      !.slots = MaxConcurrent[u] - Cardinality(ActiveOf(u))]]
  /\ UNCHANGED <<rowVars, brokerVars, clock, configVars, lost, faults, req>>

(* The first query: the slots left by the active executions. *)
ProcCount(p, u) ==
  /\ run[p].pc = "users" /\ u \in run[p].users
  /\ u \notin admins /\ HasCapacity(u)
  /\ run' = [run EXCEPT ![p] =
       [run[p] EXCEPT !.pc = "counted", !.users = run[p].users \ {u}, !.user = u,
                      !.slots = MaxConcurrent[u] - Cardinality(ActiveOf(u))]]
  /\ UNCHANGED <<rowVars, brokerVars, clock, configVars, lost, faults, req>>

(* The second query: that many of the user's oldest waiting executions. *)
ProcSelect(p) ==
  /\ run[p].pc = "counted"
  /\ \E S \in Oldest(Items(WaitingOf(run[p].user)), run[p].slots) :
       run' = [run EXCEPT ![p] = NextItem(run[p], S)]
  /\ UNCHANGED <<rowVars, brokerVars, clock, configVars, lost, faults, req>>

(* All waiting executions of an admin are taken. *)
ProcAdmin(p, u) ==
  /\ run[p].pc = "users" /\ u \in run[p].users
  /\ u \in admins
  /\ run' = [run EXCEPT ![p] =
       NextItem([run[p] EXCEPT !.users = run[p].users \ {u}, !.user = u,
                                !.admin = TRUE],
                Items(WaitingOf(u)))]
  /\ UNCHANGED <<rowVars, brokerVars, clock, configVars, lost, faults, req>>

(* Mutant: queued_at is cleared before the script is looked at. *)
ProcSkipCleared(p) ==
  /\ run[p].pc = "batch"
  /\ ~run[p].admin
  /\ \E i \in Heads(run[p]) :
       /\ ScriptOf[i.e] \notin built
       /\ queuedAt' = [queuedAt EXCEPT ![i.e] = 0]
       /\ run' = [run EXCEPT ![p] = NextItem(run[p], run[p].todo \ {i})]
  /\ UNCHANGED <<status, brokerVars, clock, configVars, lost, faults, req>>

(* A script that is not SUCCESS: the execution keeps its place. *)
ProcSkip(p) ==
  /\ run[p].pc = "batch"
  /\ ~run[p].admin
  /\ \E i \in Heads(run[p]) :
       /\ ScriptOf[i.e] \notin built
       /\ run' = [run EXCEPT ![p] = NextItem(run[p], run[p].todo \ {i})]
  /\ UNCHANGED <<rowVars, brokerVars, clock, configVars, lost, faults, req>>

(* Mutant: queued_at is not cleared before the dispatch. *)
ProcKeepQueued(p) ==
  /\ run[p].pc = "batch"
  /\ \E i \in Heads(run[p]) :
       /\ run[p].admin \/ ScriptOf[i.e] \in built
       /\ run' = [run EXCEPT ![p] =
                    [run[p] EXCEPT !.pc = "cleared", !.todo = run[p].todo \ {i}, !.e = i.e]]
  /\ UNCHANGED <<rowVars, brokerVars, clock, configVars, lost, faults, req>>

(* queued_at is cleared and committed; the status is not read again. *)
ProcClear(p) ==
  /\ run[p].pc = "batch"
  /\ \E i \in Heads(run[p]) :
       /\ run[p].admin \/ ScriptOf[i.e] \in built
       /\ queuedAt' = [queuedAt EXCEPT ![i.e] = 0]
       /\ run' = [run EXCEPT ![p] =
                    [run[p] EXCEPT !.pc = "cleared", !.todo = run[p].todo \ {i}, !.e = i.e]]
  /\ UNCHANGED <<status, brokerVars, clock, configVars, lost, faults, req>>

ProcDispatch(p) ==
  /\ run[p].pc = "cleared"
  /\ Send(run[p].e)
  /\ run' = [run EXCEPT ![p] = NextItem(run[p], run[p].todo)]
  /\ UNCHANGED <<rowVars, clock, configVars, lost, faults, req>>

(* The exception ends this execution's turn, or an admin's whole batch. *)
ProcDispatchFail(p) ==
  /\ run[p].pc = "cleared"
  /\ Fault
  /\ lost' = lost \cup {run[p].e}
  /\ run' = [run EXCEPT ![p] =
       IF run[p].admin THEN NextUser(run[p].users) ELSE NextItem(run[p], run[p].todo)]
  /\ UNCHANGED <<rowVars, brokerVars, clock, configVars, req>>

(* The worker dies; the task is redelivered and starts over from nothing. *)
ProcCrash(p) ==
  /\ run[p].pc # "idle"
  /\ Fault
  /\ lost' = lost \cup (IF run[p].pc = "cleared" THEN {run[p].e} ELSE {})
  /\ run' = [run EXCEPT ![p] = IdleRun]
  /\ UNCHANGED <<rowVars, brokerVars, clock, configVars, req>>

-----------------------------------------------------------------------------
(* The rest of the system, by its effect on the status                     *)

SetStatus(e, s) ==
  /\ status' = [status EXCEPT ![e] = s]
  /\ UNCHANGED <<queuedAt, brokerVars, clock, configVars, lost, faults, req, run>>

(* docker_run, batch_run: the task marks READY whatever the row says.      *)
RunTask(e) ==
  /\ pending[e] > 0
  /\ pending' = [pending EXCEPT ![e] = @ - 1]
  /\ status' = [status EXCEPT ![e] = "READY"]
  /\ UNCHANGED <<queuedAt, sent, clock, configVars, lost, faults, req, run>>

(* docker_run without Docker returns: the row stays as it is. *)
RunTaskNoDocker(e) ==
  /\ pending[e] > 0
  /\ Fault
  /\ pending' = [pending EXCEPT ![e] = @ - 1]
  /\ UNCHANGED <<rowVars, sent, clock, configVars, lost, req, run>>

(* The container reports, or a monitor finds the execution failed. *)
Progress(e) ==
  \/ status[e] = "READY" /\ \E s \in {"RUNNING", "FAILED"} : SetStatus(e, s)
  \/ status[e] = "RUNNING" /\ \E s \in {"FINISHED", "FAILED"} : SetStatus(e, s)

CancelRequest(e) ==
  status[e] \in {"PENDING", "READY", "RUNNING"} /\ SetStatus(e, "CANCELLING")

CancelDone(e) == status[e] = "CANCELLING" /\ SetStatus(e, "CANCELLED")

(* cleanup_stale_executions, three days after the row was created: no       *)
(* request is still being served then.                                      *)
StaleCleanup(e) ==
  /\ status[e] \in Active
  /\ \A h \in Handlers : req[h].e # e
  /\ SetStatus(e, "FAILED")

(* docker_build sets BUILDING, then SUCCESS or FAIL. *)
Rebuild(s) ==
  /\ built' = IF s \in built THEN built \ {s} ELSE built \cup {s}
  /\ UNCHANGED <<rowVars, brokerVars, admins, clock, lost, faults, req, run>>

(* update_user gives a user another role. *)
ChangeRole(u) ==
  /\ admins' = IF u \in admins THEN admins \ {u} ELSE admins \cup {u}
  /\ UNCHANGED <<rowVars, brokerVars, built, clock, lost, faults, req, run>>

-----------------------------------------------------------------------------
Init ==
  /\ status = [e \in Executions |-> "NONE"]
  /\ queuedAt = [e \in Executions |-> 0]
  /\ clock = 0
  /\ built = Scripts
  /\ admins = Admins
  /\ pending = [e \in Executions |-> 0]
  /\ sent = [e \in Executions |-> 0]
  /\ lost = {}
  /\ faults = 0
  /\ req = [h \in Handlers |-> IdleReq]
  /\ run = [p \in Processors |-> IdleRun]

Handler(h) ==
  \/ CreateCommit(h) \/ CreateDispatch(h) \/ CreateDispatchFail(h)
  \/ \E e \in Executions : CreateCheck(h, e)

(* A step of the processor that no fault disturbs. *)
Advance(p) ==
  \/ ProcStart(p) \/ ProcSelect(p) \/ ProcSkip(p) \/ ProcClear(p) \/ ProcDispatch(p)
  \/ \E u \in Users : ProcFull(p, u) \/ ProcCount(p, u) \/ ProcAdmin(p, u)

Processor(p) == Advance(p) \/ ProcDispatchFail(p) \/ ProcCrash(p)

Environment(e) ==
  \/ RunTask(e) \/ RunTaskNoDocker(e) \/ Progress(e)
  \/ CancelRequest(e) \/ CancelDone(e) \/ StaleCleanup(e)

Next ==
  \/ \E h \in Handlers : Handler(h)
  \/ \E p \in Processors : Processor(p)
  \/ \E e \in Executions : Environment(e)
  \/ \E s \in Rebuildable : Rebuild(s)
  \/ \E u \in Promotable : ChangeRole(u)

Spec == Init /\ [][Next]_vars

(* An API thread finishes the request it serves; beat starts a processor    *)
(* again and again and a redelivered task starts over; the worker consumes  *)
(* run tasks; a container ends and is reported; cancellations are executed. *)
WorkerFairness ==
  /\ \A h \in Handlers : WF_vars(CreateCommit(h) \/ CreateDispatch(h))
  /\ \A p \in Processors : WF_vars(Advance(p))
  /\ \A e \in Executions :
       WF_vars(RunTask(e)) /\ WF_vars(Progress(e)) /\ WF_vars(CancelDone(e))

WorkerSpec == Spec /\ WorkerFairness

-----------------------------------------------------------------------------
(* Properties                                                              *)

ItemType == [e : Executions, at : Nat]

ReqType ==
  [pc : {"idle", "checked", "saved"}, e : Executions \cup {None}, at : Nat]

RunType ==
  [pc : {"idle", "users", "counted", "batch", "cleared"}, users : SUBSET Users,
   user : Users \cup {None}, admin : BOOLEAN, slots : Nat,
   todo : SUBSET ItemType, e : Executions \cup {None}]

(* Every variable keeps its type; in particular the slots that a processor  *)
(* computes are never negative, and what is dispatched is an execution.     *)
TypeOK ==
  /\ status \in [Executions -> Status \cup {"NONE"}]
  /\ queuedAt \in [Executions -> Nat]
  /\ clock \in Nat
  /\ built \subseteq Scripts
  /\ admins \subseteq Users
  /\ pending \in [Executions -> Nat]
  /\ sent \in [Executions -> Nat]
  /\ lost \subseteq Executions
  /\ faults \in Nat
  /\ req \in [Handlers -> ReqType]
  /\ run \in [Processors -> RunType]
  /\ \A h \in Handlers : req[h].pc # "idle" => req[h].e \in Executions
  /\ \A p \in Processors : run[p].pc = "cleared" => run[p].e \in Executions

(* An execution is dispatched at most once by each processor that overlaps, *)
(* hence at most once when there is a single one, although the processor    *)
(* does not lock the rows, may crash after it sent the task and before it   *)
(* is acknowledged, and is then run again: clearing queued_at and           *)
(* committing before the dispatch is what makes it so.                      *)
DispatchBound == \A e \in Executions : sent[e] <= Cardinality(Processors)

(* An execution that still shows in the queue was never dispatched, even    *)
(* with overlapping processors: a queue position can be believed.           *)
WaitingNotDispatched ==
  \A e \in Executions : queuedAt[e] # 0 => sent[e] = 0

(* A committed row that is not in the queue is dispatched, or somebody is   *)
(* about to dispatch it, or a fault befell that very dispatch: no path of   *)
(* create_execution or of the processor drops an execution quietly.         *)
NoSilentLoss ==
  \A e \in Executions : Row(e) /\ queuedAt[e] = 0 =>
    \/ sent[e] > 0
    \/ e \in lost
    \/ \E h \in Handlers : req[h].pc = "saved" /\ req[h].e = e
    \/ \E p \in Processors : run[p].pc = "cleared" /\ run[p].e = e

(* Executions that a processor will still dispatch, or skip.                *)
HeldBy(r) ==
  {i.e : i \in r.todo} \cup (IF r.pc = "cleared" THEN {r.e} ELSE {})

Claims(e) == {p \in Processors : e \in HeldBy(run[p])}

(* No execution is twice in the hands of one processor.                     *)
Apart(r) ==
  /\ \A i, j \in r.todo : i.e = j.e => i = j
  /\ r.pc = "cleared" => \A i \in r.todo : i.e # r.e

Unseen(e) == sent[e] = 0 /\ queuedAt[e] = 0 /\ Claims(e) = {}

(* Why DispatchBound holds: a processor that holds an execution has one     *)
(* dispatch of it left, nobody comes to hold it once queued_at is cleared,  *)
(* and what an API thread dispatches itself no processor ever sees.         *)
DispatchInv ==
  /\ WaitingNotDispatched
  /\ \A e \in Executions :
       /\ ~Row(e) => Unseen(e)
       /\ pending[e] <= sent[e]
       /\ sent[e] + Cardinality(Claims(e)) <= Cardinality(Processors)
  /\ \A h \in Handlers :
       /\ req[h].pc = "checked" => ~Row(req[h].e)
       /\ req[h].pc = "saved" => Row(req[h].e) /\ Unseen(req[h].e)
       /\ \A g \in Handlers :
            req[h].pc # "idle" /\ req[g].pc # "idle" /\ req[h].e = req[g].e => h = g
  /\ \A p \in Processors :
       /\ Apart(run[p])
       /\ run[p].pc = "cleared" => queuedAt[run[p].e] = 0

(* process_queued_executions takes a user's executions in FIFO order: an    *)
(* execution leaves the queue only when none of the same owner waits since  *)
(* before it.  Holds between the rows of one API thread: two threads may    *)
(* commit out of the order of their timestamps.                             *)
FifoAdmission ==
  [][\A e, f \in Executions :
       /\ queuedAt[e] # 0 /\ queuedAt'[e] = 0
       /\ e # f /\ Owner[e] = Owner[f] /\ Waiting(f)
       => queuedAt[e] < queuedAt[f]]_vars

(* The limit of a user who is not an admin, as docs/data-models.md states   *)
(* it: "Non-admin users default to a maximum of 3 concurrent executions".   *)
LimitRespected ==
  \A u \in Users \ admins : Cardinality(ActiveOf(u)) <= MaxConcurrent[u]

(* When no dispatch is lost, every waiting execution leaves the queue       *)
(* without the help of the stale sweep: slots that are freed are used.      *)
QueueDrains ==
  \A e \in Executions : Waiting(e) ~> ~Waiting(e)

(* The queue implements Admission, the promise made for one execution.      *)
Stage(e) ==
  IF ~Row(e) THEN "new"
  ELSE IF queuedAt[e] # 0 THEN "waiting"
  ELSE IF sent[e] > 0 THEN "dispatched"
  ELSE IF e \in lost THEN "dropped" ELSE "admitted"

Promise == INSTANCE Admission WITH
  stage <- [e \in Executions |-> Stage(e)], deliveries <- sent

(* Every execution goes from new to waiting or admitted, from waiting to    *)
(* admitted, and from there to one dispatch or to one loss.                 *)
AdmissionPromise == Promise!Spec
=============================================================================
