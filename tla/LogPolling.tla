----------------------------- MODULE LogPolling -----------------------------
(***************************************************************************)
(* The log of one execution or script, and a client that polls it: it asks *)
(* for the lines after the last one it has, by id or by date.  The date of *)
(* a line is taken in its process and the id from a sequence, both before  *)
(* the line is committed.                                                  *)
(***************************************************************************)
EXTENDS Naturals, FiniteSetsExt

CONSTANTS
  Writers,   (* API threads and workers that write lines                     *)
  MaxLines   (* bound: lines ever begun                                      *)

VARIABLES
  lines,    (* the committed lines, each with its id and date                *)
  dates,    (* dates taken so far                                            *)
  ids,      (* ids taken so far                                              *)
  writer,   (* each writer's line, not committed yet; 0: not taken           *)
  after,    (* the client: "id" or "date"                                    *)
  last,     (* the last id or date it has                                    *)
  seen,     (* the lines it was given                                        *)
  repeated, (* history: it was given a line twice                            *)
  late      (* history: dates of the lines a poll came too early for         *)

vars == <<lines, dates, ids, writer, after, last, seen, repeated, late>>

NoLine == [id |-> 0, date |-> 0]

Init ==
  /\ lines = {} /\ dates = 0 /\ ids = 0 /\ writer = [w \in Writers |-> NoLine]
  /\ after \in {"id", "date"} /\ last = 0 /\ seen = {} /\ repeated = FALSE /\ late = {}

(* POST /execution/<id>/log, for an execution that exists. *)
CreateLog(w) ==
  /\ writer[w] = NoLine /\ dates < MaxLines /\ dates' = dates + 1
  /\ writer' = [writer EXCEPT ![w].date = dates + 1]
  /\ UNCHANGED <<lines, ids, after, last, seen, repeated, late>>

(* DockerService.save_build_log, for a script. *)
SaveBuildLog(w) == CreateLog(w)

Insert(w) ==
  /\ writer[w].date # 0 /\ writer[w].id = 0 /\ ids' = ids + 1
  /\ writer' = [writer EXCEPT ![w].id = ids + 1]
  /\ UNCHANGED <<lines, dates, after, last, seen, repeated, late>>

Commit(w) ==
  /\ writer[w].id # 0 /\ lines' = lines \cup {writer[w]}
  /\ writer' = [writer EXCEPT ![w] = NoLine]
  /\ UNCHANGED <<dates, ids, after, last, seen, repeated, late>>

(* The id is not used again. *)
Rollback(w) ==
  /\ writer[w] # NoLine /\ writer' = [writer EXCEPT ![w] = NoLine]
  /\ UNCHANGED <<lines, dates, ids, after, last, seen, repeated, late>>

(* Mutant: the last line is given again. *)
FromLast(l) == IF after = "id" THEN l.id >= last ELSE l.date >= last

AfterLast(l) == IF after = "id" THEN l.id > last ELSE l.date > last

(* GET .../log with last-id or start. *)
Poll ==
  LET got == {l \in lines : AfterLast(l)} IN
  /\ seen' = seen \cup got /\ repeated' = (repeated \/ got \cap seen # {})
  /\ last' = Max({last} \cup {IF after = "id" THEN l.id ELSE l.date : l \in got})
  /\ late' = late \cup {writer[w].date : w \in {v \in Writers : writer[v] # NoLine}}
  /\ UNCHANGED <<lines, dates, ids, writer, after>>

GetExecutionLogs == Poll

(* The same query over the lines of a script's builds. *)
GetScriptLogs == Poll

Next ==
  \/ \E w \in Writers :
        CreateLog(w) \/ SaveBuildLog(w) \/ Insert(w) \/ Commit(w) \/ Rollback(w)
  \/ GetExecutionLogs \/ GetScriptLogs

Spec == Init /\ [][Next]_vars

-----------------------------------------------------------------------------
(* The types of the variables. *)
TypeOK ==
  LET Line == [id : 0..MaxLines, date : 0..MaxLines] IN
  /\ lines \subseteq Line /\ seen \subseteq lines /\ writer \in [Writers -> Line]
  /\ {dates, ids, last} \subseteq 0..MaxLines /\ ids <= dates
  /\ after \in {"id", "date"} /\ repeated \in BOOLEAN /\ late \subseteq 1..MaxLines

(* "last-id: Last log ID for pagination/incremental updates"               *)
(* (executions.py:953): a client is given no line twice, and misses none   *)
(* but those that were being written while it polled, which an id or a     *)
(* date beyond theirs hides from it.                                       *)
PolledOnce ==
  /\ ~repeated
  /\ \A l \in lines \ seen : AfterLast(l) \/ l.date \in late
=============================================================================
