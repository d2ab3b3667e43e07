---------------------------- MODULE Cancellation ----------------------------
(***************************************************************************)
(* POST /execution/<id>/cancel for one execution, whatever runs it: the    *)
(* API thread reads the status, marks CANCELLING, commits and sends a      *)
(* cancel_execution_workflow task.  DockerExecution and BatchExecution     *)
(* extend this module with the compute side and the worker's part.         *)
(***************************************************************************)
EXTENDS Naturals, FiniteSets

CONSTANTS
  Requests,     (* cancel requests that the API serves, each once            *)
  MaxFaults     (* bound: crashes, failed calls to Docker, S3 and the broker *)

ASSUME CancellationAssumption == MaxFaults \in Nat

VARIABLES
  status,      (* Execution.status                                           *)
  ended,       (* Execution.end_date is set                                  *)
  cancelTasks, (* cancel_execution_workflow messages in the broker           *)
  api,         (* each cancel request                                        *)
  faults       (* faults so far                                              *)

Terminal    == {"FINISHED", "FAILED", "CANCELLED"}
Cancellable == {"PENDING", "READY", "RUNNING"}
Status      == Terminal \cup Cancellable \cup {"CANCELLING"}

Fault == faults < MaxFaults /\ faults' = faults + 1

(* update_execution_status_with_logging and the sweeps set end_date with a *)
(* terminal status.                                                        *)
SetStatus(s) ==
  /\ status' = s
  /\ ended' = (ended \/ s \in Terminal)

(* Mutant: the state of the execution is not looked at. *)
CancelCheckAny(r) ==
  /\ api[r].pc = "new"
  /\ api' = [api EXCEPT ![r] = [pc |-> "checked", was |-> status]]
  /\ UNCHANGED <<status, ended, cancelTasks, faults>>

CancelCheck(r) ==
  /\ api[r].pc = "new"
  /\ status \in Cancellable
  /\ api' = [api EXCEPT ![r] = [pc |-> "checked", was |-> status]]
  /\ UNCHANGED <<status, ended, cancelTasks, faults>>

CancelMark(r) ==
  /\ api[r].pc = "checked"
  /\ SetStatus("CANCELLING")
  /\ api' = [api EXCEPT ![r].pc = "marked"]
  /\ UNCHANGED <<cancelTasks, faults>>

CancelSend(r) ==
  /\ api[r].pc = "marked"
  /\ cancelTasks' = cancelTasks + 1
  /\ api' = [api EXCEPT ![r].pc = "done"]
  /\ UNCHANGED <<status, ended, faults>>

(* The broker refuses the task: back to the status read at the check. *)
CancelRollback(r) ==
  /\ api[r].pc = "marked"
  /\ Fault
  /\ SetStatus(api[r].was)
  /\ api' = [api EXCEPT ![r].pc = "done"]
  /\ UNCHANGED cancelTasks

(* The API process dies between the commit and the send. *)
CancelDies(r) ==
  /\ api[r].pc = "marked"
  /\ Fault
  /\ api' = [api EXCEPT ![r].pc = "done"]
  /\ UNCHANGED <<status, ended, cancelTasks>>

CancelInit ==
  /\ cancelTasks = 0
  /\ api = [r \in Requests |-> [pc |-> "new", was |-> "PENDING"]]

(* What a request that was accepted goes on to do. *)
CancelProceed(r) == CancelMark(r) \/ CancelSend(r)

CancelStep(r) == CancelCheck(r) \/ CancelProceed(r) \/ CancelRollback(r) \/ CancelDies(r)

CancelType ==
  /\ cancelTasks \in Nat
  /\ api \in [Requests -> [pc : {"new", "checked", "marked", "done"},
                           was : Cancellable]]
=============================================================================
