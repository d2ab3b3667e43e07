----------------------------- MODULE MCLifecycles -----------------------------
(* Safety of executions and of what surrounds them: one execution on Batch,  *)
(* one on openEO, a bulk email, the builds of a script, the pages of the list*)
(* of executions, and the cached values.  No two write the same row, so each *)
(* is explored by itself; the Workers stand for its threads and processes.   *)
EXTENDS BatchExecution, TLC

CONSTANTS
  SendRequests, Editors, Batches, MaxRecipients, MaxRefusals,
  Builders, MaxUploads, MaxRows,
  Users, Admins, MaxExecs, PageSize, MaxExport,
  Ttl, Local, Compute

ASSUME LifecyclesAssumption ==
  /\ IsFiniteSet(SendRequests) /\ IsFiniteSet(Editors) /\ IsFiniteSet(Workers)
  /\ {Batches, MaxRecipients, MaxRefusals, MaxUploads, MaxRows, MaxExecs,
      MaxExport, Ttl, Local, Compute} \subseteq Nat
  /\ PageSize \in Nat \ {0}

VARIABLES
  focus,
  o_status, o_ended, o_cancelTasks, o_api, o_faults, o_recorded, o_jobs,
  o_runTasks, o_worker, o_age,
  e_status, e_text, e_count, e_audience, e_code, e_request, e_edit, e_tasks,
  e_worker, e_delivered, e_keyless, e_withheld, e_lost, e_refusals, e_faults,
  b_rows, b_file, b_archive, b_image, b_messages, b_request, b_build,
  b_uploads, b_mixed, b_faults,
  p_exec, p_walk,
  k_cache, k_work, k_tasks

OpenEO == INSTANCE OpenEOExecution WITH
  status <- o_status, ended <- o_ended, cancelTasks <- o_cancelTasks, api <- o_api, faults <- o_faults,
  recorded <- o_recorded, jobs <- o_jobs, runTasks <- o_runTasks,
  worker <- o_worker, age <- o_age

Email == INSTANCE BulkEmail WITH
  Requests <- SendRequests, status <- e_status,
  text <- e_text, count <- e_count, audience <- e_audience, code <- e_code,
  request <- e_request, edit <- e_edit, tasks <- e_tasks, worker <- e_worker,
  delivered <- e_delivered, keyless <- e_keyless, withheld <- e_withheld,
  lost <- e_lost, refusals <- e_refusals,
  faults <- e_faults

Scripts == INSTANCE ScriptBuilds WITH
  Threads <- Workers,
  rows <- b_rows, file <- b_file, archive <- b_archive, image <- b_image,
  messages <- b_messages, request <- b_request, build <- b_build,
  uploads <- b_uploads, mixed <- b_mixed, faults <- b_faults

Pages == INSTANCE ExecutionPages WITH
  exec <- p_exec, walk <- p_walk

Redis == INSTANCE Caches WITH
  Processes <- Workers, cache <- k_cache,
  work <- k_work, tasks <- k_tasks

(* Which part the run is about is chosen once, and only that part moves.     *)
AllInit ==
  /\ focus \in {"batch", "openeo", "email", "scripts", "pages", "caches"}
  /\ Init /\ OpenEO!Init /\ Email!Init /\ Scripts!Init /\ Pages!Init
     /\ Redis!Init
  /\ focus # "email" => e_audience = 0 /\ e_keyless = {}

openeoVars ==
  <<o_status, o_ended, o_cancelTasks, o_api, o_faults, o_recorded, o_jobs,
    o_runTasks, o_worker, o_age>>

emailVars ==
  <<e_status, e_text, e_count, e_audience, e_code, e_request, e_edit, e_tasks,
    e_worker, e_delivered, e_keyless, e_withheld, e_lost, e_refusals, e_faults>>

scriptsVars ==
  <<b_rows, b_file, b_archive, b_image, b_messages, b_request, b_build,
    b_uploads, b_mixed, b_faults>>

pagesVars ==
  <<p_exec, p_walk>>

cachesVars ==
  <<k_cache, k_work, k_tasks>>

allVars == <<focus, vars, openeoVars, emailVars, scriptsVars, pagesVars,
             cachesVars>>

(* The variables of the other parts stay as they are.                        *)
Frame ==
  /\ UNCHANGED focus
  /\ focus # "batch" => UNCHANGED vars
  /\ focus # "openeo" => UNCHANGED openeoVars
  /\ focus # "email" => UNCHANGED emailVars
  /\ focus # "scripts" => UNCHANGED scriptsVars
  /\ focus # "pages" => UNCHANGED pagesVars
  /\ focus # "caches" => UNCHANGED cachesVars

AllNext ==
  \/ focus = "batch" /\ Next /\ Frame
  \/ focus = "openeo" /\ OpenEO!Next /\ Frame
  \/ focus = "email" /\ Email!Next /\ Frame
  \/ focus = "scripts" /\ Scripts!Next /\ Frame
  \/ focus = "pages" /\ Pages!Next /\ Frame
  \/ focus = "caches" /\ Redis!Next /\ Frame

AllSpec == AllInit /\ [][AllNext]_allVars

Once == {1}

Alike == Permutations(Workers)

(* The types of the variables of every part.                                 *)
TypesOK ==
  /\ focus = "batch" => TypeOK
  /\ focus = "openeo" => OpenEO!TypeOK
  /\ focus = "email" => Email!TypeOK
  /\ focus = "scripts" => Scripts!TypeOK
  /\ focus = "pages" => Pages!TypeOK
  /\ focus = "caches" => Redis!TypeOK

(* OpenEOExecution, FINISHED only after the job named in the row finished.   *)
FinishedMeansDone == focus = "openeo" => OpenEO!FinishedMeansDone

(* BulkEmail, no email is sent by two tasks.                                 *)
OneSender == focus = "email" => Email!OneSender

(* BulkEmail, no text reaches a recipient twice in one send.                 *)
DeliveredOncePerSend == focus = "email" => Email!DeliveredOncePerSend

(* BulkEmail, SENT only when each recipient was reached, or would have been  *)
(* with a key.                                                               *)
SentMeansDelivered == focus = "email" => Email!SentMeansDelivered

(* ScriptBuilds, SUCCESS names an image of what was uploaded.                *)
UploadedIsBuilt == focus = "scripts" => Scripts!UploadedIsBuilt

(* ExecutionPages, a walk over the pages misses nothing without a cause.     *)
PagesComplete == focus = "pages" => Pages!PagesComplete

(* Caches, no served value is older than the delays on its path.             *)
ServedFresh == focus = "caches" => Redis!ServedFresh
===============================================================================
