--------------------------- MODULE ExecutionPages ---------------------------
(***************************************************************************)
(* Reading executions while they are created, end and are deleted.  A      *)
(* client walks over the pages of a list; every page is a query of its     *)
(* own, with LIMIT and OFFSET over an order that changes in between.  An   *)
(* export counts the rows and then reads them.                             *)
(***************************************************************************)
EXTENDS Naturals, Sequences, FiniteSetsExt

CONSTANTS
  MaxExecs,   (* bound: executions ever created                             *)
  Users,      (* users of role USER                                         *)
  Admins,     (* ADMIN and SUPERADMIN users                                 *)
  PageSize,   (* per_page, 1 to 100                                         *)
  MaxExport   (* MAX_EXPORT_ROWS                                            *)

VARIABLES
  exec,   (* the executions in the order they started: the owner, and the   *)
          (* rank of the end among all ends, 0: not yet                     *)
  walk    (* the client: what it asks for, what was there when it began and *)
          (* it has not seen, and what happened to the table since          *)

vars == <<exec, walk>>

Nobody == "nobody"
Sorts == {"default", "newest", "oldest"}
Gone == [owner |-> Nobody, end |-> 0]
NoWalk == [op |-> "idle", by |-> Nobody, own |-> FALSE, running |-> FALSE, sort |-> "default",
           page |-> 0, due |-> {}, since |-> {}]

Init == exec = <<>> /\ walk = NoWalk

Execs == DOMAIN exec
Live == {e \in Execs : exec[e].owner # Nobody}
Ended(e) == exec[e].end # 0
Happens(what) == walk' = [walk EXCEPT !.since = IF walk.op \in {"idle", "done"} THEN @ ELSE @ \cup {what}]

-----------------------------------------------------------------------------
(* The table                                                               *)

RunScript(u) ==
  /\ Len(exec) < MaxExecs /\ exec' = Append(exec, [owner |-> u, end |-> 0])
  /\ Happens("start")

End(e) ==
  /\ e \in Live /\ ~Ended(e)
  /\ exec' = [exec EXCEPT ![e].end = 1 + Max({exec[x].end : x \in Execs})]
  /\ Happens("end")

(* Executions go with their script or their user. *)
Delete(e) ==
  /\ e \in Live /\ exec' = [exec EXCEPT ![e] = Gone]
  /\ Happens("delete")

-----------------------------------------------------------------------------
(* The queries                                                             *)

(* get_execution, which the routes of one execution, of its results and of *)
(* its logs call first.                                                    *)
GetExecution(u, e) == e \in Live /\ (u \in Admins \/ exec[e].owner = u)

(* get_executions: its filters, and its order.                             *)
Selected(w) ==
  {e \in Live : /\ (w.by \in Admins /\ ~w.own) \/ exec[e].owner = w.by
                /\ w.running => ~Ended(e)}

(* The default: what runs before what has ended, the latest first. *)
Before(sort, a, b) ==
  CASE sort = "newest" -> a > b
    [] sort = "oldest" -> a < b
    [] OTHER -> \/ ~Ended(a) /\ Ended(b)
                \/ ~Ended(a) /\ ~Ended(b) /\ a > b
                \/ Ended(a) /\ Ended(b) /\ exec[a].end > exec[b].end

(* Mutant: the first page is skipped. *)
OffsetLate(page) == page * PageSize

Offset(page) == (page - 1) * PageSize

(* The rows that come before e. *)
Ahead(w, e) == {x \in Selected(w) : Before(w.sort, x, e)}

Rank(w, e) == Cardinality(Ahead(w, e))

(* LIMIT and OFFSET. *)
Rows(w) ==
  {e \in Selected(w) : Offset(w.page) <= Rank(w, e) /\ Rank(w, e) < Offset(w.page) + PageSize}

(* What the client asks for, of the executions it may open one by one.     *)
Due(w) ==
  {e \in Execs : /\ GetExecution(w.by, e)
                 /\ w.own => exec[e].owner = w.by
                 /\ w.running => ~Ended(e)}

-----------------------------------------------------------------------------
(* The client                                                              *)

(* GET /execution, with or without a status, or GET /execution/user. *)
Walk(u, own, running, sort) ==
  LET w == [op |-> "pages", by |-> u, own |-> own, running |-> running, sort |-> sort,
            page |-> 1, due |-> {}, since |-> {}] IN
  /\ walk.op = "idle" /\ walk' = [w EXCEPT !.due = Due(w)]
  /\ UNCHANGED exec

GetExecutions(u) ==
  \E running \in BOOLEAN, sort \in Sorts : Walk(u, FALSE, running, sort)

GetUserExecutions(u) == \E sort \in Sorts : Walk(u, TRUE, FALSE, sort)

(* The last page is one that is not full. *)
GetPage ==
  /\ walk.op = "pages"
  /\ walk' = [walk EXCEPT !.due = @ \ Rows(walk), !.page = @ + 1,
                          !.op = IF Cardinality(Rows(walk)) < PageSize THEN "done" ELSE @]
  /\ UNCHANGED exec

(* GET /execution/export: too many rows are refused. *)
ExportCount(u) ==
  /\ walk.op = "idle" /\ u \in Admins /\ Cardinality(Live) <= MaxExport
  /\ walk' = [NoWalk EXCEPT !.op = "export", !.by = u, !.due = {e \in Execs : GetExecution(u, e)}]
  /\ UNCHANGED exec

ExportRows ==
  /\ walk.op = "export" /\ walk' = [walk EXCEPT !.due = @ \ Live, !.op = "done"]
  /\ UNCHANGED exec

Close == walk.op # "idle" /\ walk' = NoWalk /\ UNCHANGED exec

Next ==
  \/ \E u \in Users : RunScript(u)
  \/ \E e \in Execs : End(e) \/ Delete(e)
  \/ \E u \in Users \cup Admins : GetExecutions(u) \/ GetUserExecutions(u) \/ ExportCount(u)
  \/ GetPage \/ ExportRows \/ Close

Spec == Init /\ [][Next]_vars

-----------------------------------------------------------------------------
(* The types of the variables. *)
TypeOK ==
  /\ exec \in Seq([owner : Users \cup {Nobody}, end : 0..MaxExecs])
  /\ walk \in [op : {"idle", "pages", "export", "done"}, by : Users \cup Admins \cup {Nobody},
               own : BOOLEAN, running : BOOLEAN, sort : Sorts, page : 0..(MaxExecs + 2),
               due : SUBSET Execs, since : SUBSET {"start", "end", "delete"}]

(* A client that came to the last page has seen every execution that was   *)
(* there when it began and that it may open, although others start         *)
(* meanwhile: unless one was deleted, or one ended while the order or the  *)
(* filter depends on it (execution_service.py:679-689).                    *)
PagesComplete ==
  /\ walk.op = "done" /\ "delete" \notin walk.since
  /\ "end" \in walk.since => walk.sort # "default" /\ ~walk.running
  => walk.due = {}
=============================================================================
