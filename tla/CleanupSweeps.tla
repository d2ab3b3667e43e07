--------------------------- MODULE CleanupSweeps ----------------------------
(***************************************************************************)
(* The three daily and hourly sweeps over the table of executions.  Each   *)
(* takes at most _CLEANUP_BATCH_SIZE rows, in no order, and leaves the     *)
(* rest to its next run; a row it has served may be selected again.        *)
(***************************************************************************)
EXTENDS Naturals, FiniteSetsExt

CONSTANTS
  Rows,     (* executions                                                   *)
  Batch,    (* those whose script has compute_type "batch"                  *)
  Limit     (* _CLEANUP_BATCH_SIZE, 200 in the code                         *)

VARIABLES
  row,      (* each execution: status, end_date set, days since start, end  *)
  service,  (* those that still have a Docker service                       *)
  turn      (* changes with each stale sweep, also one that writes nothing  *)

vars == <<row, service, turn>>

Open == {"PENDING", "READY", "RUNNING", "CANCELLING"}
Ended == {"FINISHED", "FAILED", "CANCELLED"}

Init ==
  /\ \E open \in [Rows -> {"PENDING", "RUNNING"}] :
       row = [e \in Rows |-> [status |-> open[e], endDate |-> FALSE, start |-> 0, end |-> 0]]
  /\ service = {e \in Rows \ Batch : row[e].status = "RUNNING"}
  /\ turn = 0

-----------------------------------------------------------------------------
(* What happens to an execution otherwise                                  *)

(* A container's report, a monitor or a cancellation; a docker_run that    *)
(* fails to create its service writes FAILED without end_date.             *)
Ends(e) ==
  /\ row[e].status \in Open
  /\ \/ \E s \in Ended : row' = [row EXCEPT ![e].status = s, ![e].endDate = TRUE]
     \/ row[e].status = "PENDING"
        /\ row' = [row EXCEPT ![e].status = "FAILED"]
  /\ UNCHANGED <<service, turn>>

(* start: 1 past the three days of the stale sweep, which takes no FINISHED *)
(* or FAILED row; end: 1 past the window of the sweep that takes the row's  *)
(* status, a day for FINISHED and 14 days for FAILED.                       *)
GetsOlder(e) ==
  /\ \/ /\ row[e].start = 0 /\ row[e].status \notin {"FINISHED", "FAILED"}
        /\ row' = [row EXCEPT ![e].start = 1]
     \/ /\ row[e].endDate /\ row[e].end = 0 /\ row[e].status \in {"FINISHED", "FAILED"}
        /\ row' = [row EXCEPT ![e].end = 1]
  /\ UNCHANGED <<service, turn>>

-----------------------------------------------------------------------------
(* A query with LIMIT returns all the rows that match, or any Limit of them *)
Limited(S) == IF Cardinality(S) <= Limit THEN {S} ELSE kSubset(Limit, S)

(* Docker may not answer; its errors are logged and the loop goes on.      *)
Removed(es) == {service, service \ es}

(* Mutant: FAILED rows are selected as well. *)
StaleAny == {e \in Rows \ Batch : row[e].start = 1 /\ row[e].status # "FINISHED"}

Stale == {e \in Rows \ Batch : row[e].start = 1 /\ row[e].status \notin {"FINISHED", "FAILED"}}

(* A CANCELLED row is taken for its service only and stays as it is. *)
CleanupStale ==
  /\ Stale # {}
  /\ \E es \in Limited(Stale) :
       /\ row' = [e \in Rows |-> IF e \in es /\ row[e].status # "CANCELLED"
                                 THEN [row[e] EXCEPT !.status = "FAILED", !.endDate = TRUE, !.end = 0]
                                 ELSE row[e]]
       /\ service' \in Removed(es)
  /\ turn' = 1 - turn

Finished == {e \in Rows : row[e].status = "FINISHED" /\ row[e].endDate /\ row[e].end = 0}

CleanupFinished ==
  /\ \E es \in Limited(Finished) : es # {} /\ service' \in Removed(es)
  /\ UNCHANGED <<row, turn>>

OldFailed == {e \in Rows : row[e].status = "FAILED" /\ row[e].endDate /\ row[e].end = 1}

CleanupOldFailed ==
  /\ \E es \in Limited(OldFailed) : es # {} /\ service' \in Removed(es)
  /\ UNCHANGED <<row, turn>>

Next ==
  \/ \E e \in Rows : Ends(e) \/ GetsOlder(e)
  \/ CleanupStale \/ CleanupFinished \/ CleanupOldFailed

Spec == Init /\ [][Next]_vars

(* beat starts the stale sweep every hour. *)
FairSpec == Spec /\ WF_vars(CleanupStale)

-----------------------------------------------------------------------------
(* The types of the variables. *)
TypeOK ==
  /\ row \in [Rows -> [status : Open \cup Ended, endDate : BOOLEAN, start : 0..1, end : 0..1]]
  /\ service \subseteq Rows \ Batch /\ turn \in 0..1

(* The rows that match the stale sweep for ever. *)
Lasting == {e \in Stale : row[e].status = "CANCELLED"}

(* "Remaining rows will be processed on the next scheduled run"            *)
(* (execution_cleanup.py:54): each open execution that is three days old   *)
(* ends, as long as the cancelled ones, which stay selected, do not fill   *)
(* the batch.                                                              *)
StaleReached ==
  [](Cardinality(Lasting) < Limit) =>
    \A e \in Rows \ Batch :
       row[e].status \in Open /\ row[e].start = 1 ~> row[e].status \notin Open

(* Without the proviso. *)
EachStaleReached ==
  \A e \in Rows \ Batch : row[e].status \in Open /\ row[e].start = 1 ~> row[e].status \notin Open
=============================================================================
