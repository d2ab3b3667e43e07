------------------------------ MODULE MCRecovery ------------------------------
(* What must come to an end around Docker: one execution, and the stale rows *)
(* of the whole table.                                                       *)
EXTENDS DockerExecution, TLC

CONSTANT Rows

VARIABLES
  focus,
  c_row, c_service, c_turn

Sweeps == INSTANCE CleanupSweeps WITH
  Batch <- {}, Limit <- 2, row <- c_row, service <- c_service, turn <- c_turn

(* Which part the run is about is chosen once, and only that part moves.     *)
AllInit ==
  /\ focus \in {"docker", "sweeps"}
  /\ Init /\ Sweeps!Init
  /\ focus # "docker" => runTasks = 1
  /\ focus # "sweeps" => \A e \in Rows : c_row[e].status = "PENDING"

sweepsVars ==
  <<c_row, c_service, c_turn>>

allVars == <<focus, vars, sweepsVars>>

(* The variables of the other parts stay as they are.                        *)
Frame ==
  /\ UNCHANGED focus
  /\ focus # "docker" => UNCHANGED vars
  /\ focus # "sweeps" => UNCHANGED sweepsVars

AllNext ==
  \/ focus = "docker" /\ Next /\ Frame
  \/ focus = "sweeps" /\ Sweeps!Next /\ Frame

AllSpec == AllInit /\ [][AllNext]_allVars

LostOrOnce == {0, 1}

(* A step of a part.                                                         *)
Of(part, A) == focus = part /\ A /\ Frame

(* The fairness of each part is that of its module.                          *)
RecoveryFairness ==
  /\ \A w \in Workers : WF_allVars(Of("docker", Continue(w)))
  /\ SF_allVars(Of("docker", \E w \in Workers : Receive(w)))
  /\ SF_allVars(Of("docker", \E w \in Workers : MonitorSelect(w)))
  /\ SF_allVars(Of("docker", \E w \in Workers : CompletedSelect(w)))
  /\ SF_allVars(Of("docker", \E w \in Workers : StaleSelect(w)))
  /\ \A r \in Requests : WF_allVars(Of("docker", CancelContinue(r)))
  /\ WF_allVars(Of("docker", UpdateExecution))
  /\ WF_allVars(Of("docker", GraceEnds))
  /\ WF_allVars(Of("docker", NextDay /\ status \notin {"FINISHED", "FAILED"}))
  /\ WF_allVars(Of("sweeps", Sweeps!CleanupStale))

RecoverySpec == AllSpec /\ RecoveryFairness

(* DockerExecution, an execution, dispatched or lost, comes to an end.       *)
ExecutionEnds == focus = "docker" => EventuallyTerminal

(* CleanupSweeps, each stale execution is reached by a sweep.                *)
StaleReached == focus = "sweeps" => Sweeps!StaleReached
===============================================================================
