------------------------------ MODULE BulkEmail -----------------------------
(***************************************************************************)
(* One bulk email, from its draft to its end.  POST /send claims the row   *)
(* with SELECT ... FOR UPDATE, marks it SENDING, commits and sends a task; *)
(* the worker reads the row and its recipients once, hands them to         *)
(* SparkPost in batches and marks SENT or FAILED.  PATCH and DELETE look   *)
(* at the status without a lock.  A FAILED email may be sent again.        *)
(***************************************************************************)
EXTENDS Naturals, FiniteSets, Sequences

CONSTANTS
  Requests,       (* POST /send requests of the approved sender              *)
  Editors,        (* PATCH and DELETE requests                               *)
  Workers,        (* processes that serve the default queue                  *)
  Batches,        (* bound: batches of _BATCH_SIZE recipients there may be   *)
  MaxRecipients,  (* BULK_EMAIL_MAX_RECIPIENTS, counted in batches           *)
  MaxRefusals,    (* bound: exceptions raised by SparkPost                   *)
  MaxFaults       (* bound: lost processes and failing queries               *)

ASSUME EmailAssumption ==
  /\ IsFiniteSet(Requests) /\ IsFiniteSet(Editors) /\ IsFiniteSet(Workers)
  /\ {Batches, MaxRecipients, MaxRefusals, MaxFaults} \subseteq Nat

VARIABLES
  status,      (* BulkEmail.status, or "DELETED" when the row is gone        *)
  text,        (* the version of the subject and html_content                *)
  count,       (* BulkEmail.recipient_count                                  *)
  audience,    (* batches that the recipient query would return now          *)
  code,        (* whether a usable verification code exists                  *)
  request,     (* each POST /send: "new", "claimed" or "done"                *)
  edit,        (* each editor: "new", what it is about to do, or "done"      *)
  tasks,       (* send tasks in the broker                                   *)
  worker,      (* each worker: where it is, and what it read at the start    *)
  delivered,   (* the versions in which SparkPost took each batch            *)
  keyless,     (* workers started without SPARKPOST_API_KEY                  *)
  withheld,    (* batches that such a worker sent nowhere                    *)
  lost,        (* whether a send task was lost or failed before its batches  *)
  refusals, faults

row == <<status, text, count>>
inputs == <<keyless, audience, code, edit>>
send == <<request, tasks, worker, delivered, withheld, lost, refusals, faults>>
vars == <<row, inputs, send>>

Versions == 0..Cardinality(Editors)

Idle == [pc |-> "idle", total |-> 0, next |-> 1,
         status |-> "DRAFT", text |-> 0, count |-> 0]

Init ==
  /\ status = "DRAFT" /\ text = 0 /\ count = 0
  /\ audience \in 0..Batches /\ code = FALSE
  /\ request = [r \in Requests |-> "new"] /\ edit = [e \in Editors |-> "new"]
  /\ tasks = 0 /\ worker = [w \in Workers |-> Idle]
  /\ delivered = [b \in 1..Batches |-> <<>>]
  /\ keyless \in SUBSET Workers /\ withheld = {}
  /\ lost = FALSE /\ refusals = 0 /\ faults = 0

-----------------------------------------------------------------------------
(* The sender                                                              *)

(* Users register, unsubscribe or change; the list of recipients is edited. *)
ChangeAudience ==
  /\ audience' \in 0..Batches
  /\ UNCHANGED <<row, keyless, code, edit, send>>

GenerateCode ==
  /\ status # "DELETED"
  /\ code' = TRUE
  /\ UNCHANGED <<row, keyless, audience, edit, send>>

CodeExpires ==
  /\ code /\ code' = FALSE
  /\ UNCHANGED <<row, keyless, audience, edit, send>>

(* Mutant: only a SENT email is refused. *)
ClaimableSending == status \notin {"SENT", "DELETED"}

Claimable == status \notin {"SENT", "SENDING", "DELETED"}

(* A request without a code that it needs, or with a wrong one, is rolled   *)
(* back and changes nothing.                                                *)
SendClaim(r) ==
  /\ request[r] = "new" /\ Claimable
  /\ audience > MaxRecipients => code
  /\ code' = (code /\ audience <= MaxRecipients)
  /\ status' = "SENDING"
  /\ request' = [request EXCEPT ![r] = "claimed"]
  /\ UNCHANGED <<text, count, keyless, audience, edit>>
  /\ UNCHANGED <<tasks, worker, delivered, withheld, lost, refusals, faults>>

SendDispatch(r) ==
  /\ request[r] = "claimed"
  /\ request' = [request EXCEPT ![r] = "done"]
  /\ tasks' = tasks + 1
  /\ UNCHANGED <<row, inputs, worker, delivered, withheld, lost, refusals, faults>>

(* The broker refuses the task, or the process dies, after the commit. *)
SendLost(r) ==
  /\ request[r] = "claimed" /\ faults < MaxFaults
  /\ request' = [request EXCEPT ![r] = "done"]
  /\ lost' = TRUE /\ faults' = faults + 1
  /\ UNCHANGED <<row, inputs, tasks, worker, delivered, withheld, refusals>>

(* PATCH and DELETE test the status of the row as they read it. *)
EditRead(e) ==
  /\ edit[e] = "new" /\ status = "DRAFT"
  /\ \E what \in {"update", "delete"} : edit' = [edit EXCEPT ![e] = what]
  /\ UNCHANGED <<row, keyless, audience, code, send>>

EditDone(e) == edit' = [edit EXCEPT ![e] = "done"]

(* Only the changed columns are written; a row that is gone is an error. *)
UpdateCommit(e) ==
  /\ edit[e] = "update" /\ EditDone(e)
  /\ text' = IF status = "DELETED" THEN text ELSE text + 1
  /\ UNCHANGED <<status, count, keyless, audience, code, send>>

(* The verification codes go with the row. *)
DeleteCommit(e) ==
  /\ edit[e] = "delete" /\ EditDone(e)
  /\ status' = "DELETED" /\ code' = FALSE
  /\ UNCHANGED <<text, count, keyless, audience, send>>

-----------------------------------------------------------------------------
(* The worker                                                              *)

(* A column is written only where it differs from what the session read.    *)
Write(w, s, n) ==
  IF status = "DELETED" THEN UNCHANGED <<status, count>>
  ELSE /\ status' = IF worker[w].status = s THEN status ELSE s
       /\ count' = IF worker[w].count = n THEN count ELSE n

(* Whatever the status is; a row that is gone uses the message up. *)
TaskStart(w) ==
  /\ tasks > 0 /\ worker[w].pc = "idle"
  /\ tasks' = tasks - 1
  /\ IF status = "DELETED" THEN UNCHANGED worker
     ELSE worker' = [worker EXCEPT ![w] =
            [pc |-> "sending", total |-> audience, next |-> 1,
             status |-> status, text |-> text, count |-> count]]
  /\ UNCHANGED <<row, inputs, request, delivered, withheld, lost, refusals, faults>>

(* The recipient query and the footers come before the try: an exception    *)
(* there leaves the status alone, and the task is not retried.              *)
TaskStartFails(w) ==
  /\ tasks > 0 /\ worker[w].pc = "idle" /\ faults < MaxFaults
  /\ tasks' = tasks - 1
  /\ lost' = TRUE /\ faults' = faults + 1
  /\ UNCHANGED <<row, inputs, request, worker, delivered, withheld, refusals>>

(* SparkPost takes the next batch of w, in the version that w read. *)
HandOver(w) == delivered' = [delivered EXCEPT ![worker[w].next] = Append(@, worker[w].text)]

HasBatch(w) == worker[w].pc = "sending" /\ worker[w].next <= worker[w].total

(* Without a key send_html_email sends nothing and returns an error, which  *)
(* the loop over the batches does not look at.                              *)
SendBatch(w) ==
  /\ HasBatch(w)
  /\ IF w \in keyless
     THEN withheld' = withheld \cup {worker[w].next} /\ UNCHANGED delivered
     ELSE HandOver(w) /\ UNCHANGED withheld
  /\ worker' = [worker EXCEPT ![w].next = @ + 1]
  /\ UNCHANGED <<row, inputs, request, tasks, lost, refusals, faults>>

(* Mutant: a task that failed is retried. *)
BatchRefusedRetried(w) ==
  /\ HasBatch(w) /\ w \notin keyless /\ refusals < MaxRefusals
  /\ refusals' = refusals + 1 /\ tasks' = tasks + 1
  /\ worker' = [worker EXCEPT ![w] = Idle]
  /\ UNCHANGED <<row, inputs, request, delivered, withheld, lost, faults>>

(* Mutant: the exception is logged and the loop goes on. *)
BatchRefusedSkipped(w) ==
  /\ HasBatch(w) /\ w \notin keyless /\ refusals < MaxRefusals
  /\ refusals' = refusals + 1
  /\ worker' = [worker EXCEPT ![w].next = @ + 1]
  /\ UNCHANGED <<row, inputs, request, tasks, delivered, withheld, lost, faults>>

(* Mutant: FAILED is not written. *)
BatchRefusedUnwritten(w) ==
  /\ HasBatch(w) /\ w \notin keyless /\ refusals < MaxRefusals
  /\ refusals' = refusals + 1
  /\ worker' = [worker EXCEPT ![w].pc = "ending"]
  /\ UNCHANGED <<row, inputs, request, tasks, delivered, withheld, lost, faults>>

(* SparkPost raises, whether it took the batch or the answer was lost. *)
BatchRefused(w) ==
  /\ HasBatch(w) /\ w \notin keyless /\ refusals < MaxRefusals
  /\ refusals' = refusals + 1
  /\ UNCHANGED delivered \/ HandOver(w)
  /\ Write(w, "FAILED", worker[w].count)
  /\ worker' = [worker EXCEPT ![w].pc = "ending"]
  /\ UNCHANGED <<text, inputs, request, tasks, withheld, lost, faults>>

AllSent(w) ==
  /\ worker[w].pc = "sending" /\ worker[w].next > worker[w].total
  /\ Write(w, "SENT", worker[w].total)
  /\ worker' = [worker EXCEPT ![w].pc = "ending"]
  /\ UNCHANGED <<text, inputs, request, tasks, delivered, withheld, lost, refusals, faults>>

(* The task ends, with or without an exception, and is acknowledged. *)
TaskEnd(w) ==
  /\ worker[w].pc = "ending"
  /\ worker' = [worker EXCEPT ![w] = Idle]
  /\ UNCHANGED <<row, inputs, request, tasks, delivered, withheld, lost, refusals, faults>>

(* The worker is lost before it acknowledged: the task is delivered again. *)
Crash(w) ==
  /\ worker[w].pc # "idle" /\ faults < MaxFaults
  /\ worker' = [worker EXCEPT ![w] = Idle]
  /\ tasks' = tasks + 1 /\ faults' = faults + 1
  /\ UNCHANGED <<row, inputs, request, delivered, withheld, lost, refusals>>

Next ==
  \/ ChangeAudience \/ GenerateCode \/ CodeExpires
  \/ \E r \in Requests : SendClaim(r) \/ SendDispatch(r) \/ SendLost(r)
  \/ \E e \in Editors : EditRead(e) \/ UpdateCommit(e) \/ DeleteCommit(e)
  \/ \E w \in Workers :
       \/ TaskStart(w) \/ TaskStartFails(w)
       \/ SendBatch(w) \/ BatchRefused(w) \/ AllSent(w)
       \/ TaskEnd(w) \/ Crash(w)

Spec == Init /\ [][Next]_vars

(* A request that was accepted is served to its end; a worker goes on with  *)
(* its task, and takes the next one however busy it is with others.         *)
Fairness ==
  /\ \A r \in Requests : WF_vars(SendDispatch(r))
  /\ \A w \in Workers :
       /\ SF_vars(TaskStart(w))
       /\ WF_vars(SendBatch(w) \/ AllSent(w) \/ TaskEnd(w))

FairSpec == Spec /\ Fairness

-----------------------------------------------------------------------------
(* Claims that were committed, and who will still send for one of them.     *)
Claims == {r \in Requests : request[r] # "new"}

Senders ==
  Cardinality({r \in Requests : request[r] = "claimed"}) + tasks
    + Cardinality({w \in Workers : worker[w].pc = "sending"})

(* Every variable keeps to its values.                                      *)
TypeOK ==
  /\ status \in {"DRAFT", "SENDING", "SENT", "FAILED", "DELETED"}
  /\ text \in Versions /\ count \in 0..Batches
  /\ audience \in 0..Batches /\ code \in BOOLEAN
  /\ request \in [Requests -> {"new", "claimed", "done"}]
  /\ edit \in [Editors -> {"new", "update", "delete", "done"}]
  /\ tasks \in Nat
  /\ worker \in [Workers ->
       [pc : {"idle", "sending", "ending"}, total : 0..Batches,
        next : 1..(Batches + 1), status : {"DRAFT", "SENDING", "SENT", "FAILED"},
        text : Versions, count : 0..Batches]]
  /\ delivered \in [1..Batches -> Seq(Versions)]
  /\ keyless \subseteq Workers /\ withheld \subseteq 1..Batches
  /\ lost \in BOOLEAN /\ refusals \in 0..MaxRefusals /\ faults \in 0..MaxFaults

(* The comment of send_bulk_email: the lock "prevents two concurrent POST   *)
(* /send requests from both passing the status check".  SENDING means that  *)
(* someone is going to send, one sender unless a lost worker doubled it; and *)
(* nobody sends an email that is SENT, FAILED or a draft.                   *)
OneSender ==
  /\ status = "SENDING" /\ ~lost => Senders >= 1
  /\ faults = 0 /\ status # "DELETED" => Senders = IF status = "SENDING" THEN 1 ELSE 0

(* send_bulk_email_task does "not retry to avoid re-sending partially       *)
(* delivered batches": a batch goes out once per accepted POST /send, and   *)
(* once more for each worker lost before it acknowledged the task.          *)
DeliveredOncePerSend ==
  \A b \in 1..Batches : Len(delivered[b]) <= Cardinality(Claims) + faults

(* A SENT email went to all the recipients it counts: SparkPost took every *)
(* batch, or a worker without a key had it.                                *)
SentMeansDelivered ==
  status = "SENT" => \A b \in 1..count : delivered[b] # <<>> \/ b \in withheld

(* _execute_send "sends via SparkPost in batches, and updates the BulkEmail *)
(* status to SENT on success" (bulk_email_service.py:350).                 *)
SentWasTaken == status = "SENT" => \A b \in 1..count : delivered[b] # <<>>

(* Whatever SparkPost answers and whichever worker is lost, an email does   *)
(* not stay SENDING, unless its task was lost or failed before the batches. *)
SendingEnds == status = "SENDING" ~> status # "SENDING" \/ lost

(* update_bulk_email and delete_bulk_email: "Cannot update", "Cannot delete *)
(* a bulk email that has already been sent."  What was delivered is what    *)
(* the row says.                                                            *)
SentAsRecorded ==
  \A b \in 1..Batches : \A k \in DOMAIN delivered[b] :
    status # "DELETED" /\ text = delivered[b][k]
=============================================================================
