----------------------------- MODULE DeliveryProofs -----------------------------
(***************************************************************************)
(* Theorems about what leaves the system: the bulk emails that are sent,   *)
(* for any numbers of POST /send requests, editors, workers, recipients,   *)
(* refusals and faults, and the images that are built of the scripts, for  *)
(* any numbers of uploads, rows and builders.                              *)
(***************************************************************************)
EXTENDS MCLifecycles, FiniteSetTheorems, FunctionTheorems, SequenceTheorems, TLAPS

(* A step of a part is a step of that part, or leaves it alone.            *)
LEMMA EmailMove == [AllNext]_allVars => [Email!Next]_emailVars
BY DEF AllNext, Frame, allVars

LEMMA SameSize == \A S : Email!Cardinality(S) = Cardinality(S)
BY DEF Cardinality, Email!Cardinality

-----------------------------------------------------------------------------
(* The types                                                               *)

RowStatuses == {"DRAFT", "SENDING", "SENT", "FAILED"}

SendTask == [pc : {"idle", "sending", "ending"}, total : 0..Batches,
             next : 1..(Batches + 1), status : RowStatuses,
             text : Email!Versions, count : 0..Batches]

(* The editors that are done: the versions of the text are counted by them. *)
EditsDone == {e \in Editors : e_edit[e] = "done"}

EmailTypes ==
  /\ e_status \in RowStatuses \cup {"DELETED"}
  /\ e_text \in Nat /\ e_text <= Cardinality(EditsDone)
  /\ e_count \in 0..Batches /\ e_audience \in 0..Batches /\ e_code \in BOOLEAN
  /\ e_request \in [SendRequests -> {"new", "claimed", "done"}]
  /\ e_edit \in [Editors -> {"new", "update", "delete", "done"}]
  /\ e_tasks \in Nat /\ e_worker \in [Workers -> SendTask]
  /\ e_delivered \in [1..Batches -> Seq(Email!Versions)]
  /\ e_keyless \subseteq Workers /\ e_withheld \subseteq 1..Batches
  /\ e_lost \in BOOLEAN /\ e_refusals \in 0..MaxRefusals /\ e_faults \in 0..MaxFaults

LEMMA Numbers ==
  /\ Batches \in Nat /\ MaxRefusals \in Nat /\ MaxFaults \in Nat
  /\ IsFiniteSet(Editors) /\ IsFiniteSet(Workers) /\ IsFiniteSet(SendRequests)
  /\ Cardinality(Editors) \in Nat
BY LifecyclesAssumption, CancellationAssumption, FS_CardinalityType

(* The versions that were written are versions there may be.               *)
LEMMA DoneCount ==
  /\ IsFiniteSet(EditsDone) /\ Cardinality(EditsDone) \in Nat
  /\ Cardinality(EditsDone) <= Cardinality(Editors)
<1>1. EditsDone \in SUBSET Editors
  BY DEF EditsDone
<1> QED
  BY <1>1, Numbers, FS_Subset, FS_CardinalityType

LEMMA VersionsAre == Email!Versions = 0..Cardinality(Editors)
BY SameSize DEF Email!Versions

LEMMA IdleTask ==
  /\ Email!Idle = [pc |-> "idle", total |-> 0, next |-> 1, status |-> "DRAFT", text |-> 0, count |-> 0]
  /\ Email!Idle \in SendTask /\ Email!Idle.pc = "idle"
<1>1. 0 \in Email!Versions
  BY Numbers, VersionsAre
<1>2. 0 \in 0..Batches /\ 1 \in 1..(Batches + 1)
  BY Numbers
<1> QED
  BY <1>1, <1>2 DEF Email!Idle, SendTask, RowStatuses

LEMMA EmailTypesStart == AllInit => EmailTypes
<1> SUFFICES ASSUME AllInit PROVE EmailTypes
  OBVIOUS
<1>1. /\ e_status = "DRAFT" /\ e_text = 0 /\ e_count = 0
      /\ e_audience \in 0..Batches /\ e_code = FALSE
      /\ e_request = [r \in SendRequests |-> "new"] /\ e_edit = [e \in Editors |-> "new"]
      /\ e_tasks = 0 /\ e_worker = [w \in Workers |-> Email!Idle]
      /\ e_delivered = [b \in 1..Batches |-> <<>>]
      /\ e_keyless \subseteq Workers /\ e_withheld = {}
      /\ e_lost = FALSE /\ e_refusals = 0 /\ e_faults = 0
  BY DEF AllInit, Email!Init
<1>2. e_delivered \in [1..Batches -> Seq(Email!Versions)]
  BY <1>1, EmptySeq
<1>3. e_worker \in [Workers -> SendTask]
  BY <1>1, IdleTask
<1>4. e_text \in Nat /\ e_text <= Cardinality(EditsDone)
  BY <1>1, DoneCount
<1>5. /\ e_request \in [SendRequests -> {"new", "claimed", "done"}]
      /\ e_edit \in [Editors -> {"new", "update", "delete", "done"}]
  BY <1>1
<1>6. e_count \in 0..Batches /\ e_refusals \in 0..MaxRefusals /\ e_faults \in 0..MaxFaults
  BY <1>1, Numbers
<1>7. /\ e_status \in RowStatuses \cup {"DELETED"} /\ e_code \in BOOLEAN /\ e_lost \in BOOLEAN
      /\ e_tasks \in Nat /\ e_audience \in 0..Batches
  BY <1>1 DEF RowStatuses
<1> QED
  BY <1>1, <1>2, <1>3, <1>4, <1>5, <1>6, <1>7 DEF EmailTypes

(* What the steps of a worker leave as they are, and what they write.      *)
WorkerKeeps ==
  UNCHANGED <<e_text, e_keyless, e_audience, e_code, e_edit, e_request>>

WorkerWrites(w) ==
  \E x \in SendTask : e_worker' = [e_worker EXCEPT ![w] = x]

LEMMA WriteTypes ==
  ASSUME EmailTypes, NEW w \in Workers, NEW s \in {"SENT", "FAILED"}, NEW n \in 0..Batches,
         Email!Write(w, s, n)
  PROVE  e_status' \in RowStatuses \cup {"DELETED"} /\ e_count' \in 0..Batches
BY DEF EmailTypes, Email!Write, RowStatuses

LEMMA WorkerTypes ==
  ASSUME EmailTypes, NEW w \in Workers, WorkerKeeps, WorkerWrites(w),
         e_status' \in RowStatuses \cup {"DELETED"}, e_count' \in 0..Batches,
         e_tasks' \in Nat, e_delivered' \in [1..Batches -> Seq(Email!Versions)],
         e_withheld' \subseteq 1..Batches,
         e_lost' \in BOOLEAN, e_refusals' \in 0..MaxRefusals, e_faults' \in 0..MaxFaults
  PROVE  EmailTypes'
<1>1. PICK x \in SendTask : e_worker' = [e_worker EXCEPT ![w] = x]
  BY DEF WorkerWrites
<1>2. e_worker \in [Workers -> SendTask]
  BY DEF EmailTypes
<1>3. e_worker' \in [Workers -> SendTask]
  BY <1>1, <1>2
<1>4. Cardinality(EditsDone)' = Cardinality(EditsDone)
  BY DEF WorkerKeeps, EditsDone
<1> QED
  BY <1>3, <1>4 DEF EmailTypes, WorkerKeeps

LEMMA BatchHanded ==
  ASSUME EmailTypes, NEW w \in Workers, Email!HasBatch(w)
  PROVE  /\ e_worker[w] \in SendTask /\ e_worker[w].next \in 1..Batches
         /\ e_worker[w].text \in Email!Versions
<1>1. e_worker[w] \in SendTask /\ Batches \in Nat
  BY Numbers DEF EmailTypes
<1>2. /\ e_worker[w].next \in 1..(Batches + 1) /\ e_worker[w].total \in 0..Batches
      /\ e_worker[w].text \in Email!Versions
  BY <1>1 DEF SendTask
<1>3. e_worker[w].next <= e_worker[w].total
  BY DEF Email!HasBatch
<1> QED
  BY <1>1, <1>2, <1>3

(* SparkPost took the next batch of w once more, and no other.             *)
LEMMA HandedOver ==
  ASSUME EmailTypes, NEW w \in Workers, Email!HasBatch(w), Email!HandOver(w)
  PROVE  /\ e_delivered' \in [1..Batches -> Seq(Email!Versions)]
         /\ \A b \in 1..Batches :
              Len(e_delivered'[b]) = IF b = e_worker[w].next THEN Len(e_delivered[b]) + 1
                                     ELSE Len(e_delivered[b])
<1>1. PICK j, v : j = e_worker[w].next /\ v = e_worker[w].text
  OBVIOUS
<1>2. j \in 1..Batches /\ v \in Email!Versions
  BY <1>1, BatchHanded
<1>3. e_delivered \in [1..Batches -> Seq(Email!Versions)]
  BY DEF EmailTypes
<1>4. e_delivered' = [e_delivered EXCEPT ![j] = Append(e_delivered[j], v)]
  BY <1>1 DEF Email!HandOver
<1>5. PICK d : d = Append(e_delivered[j], v)
  OBVIOUS
<1>6. d \in Seq(Email!Versions) /\ Len(d) = Len(e_delivered[j]) + 1
  BY <1>2, <1>3, <1>5, AppendProperties
<1>7. e_delivered' = [e_delivered EXCEPT ![j] = d]
  BY <1>4, <1>5
<1>8. e_delivered' \in [1..Batches -> Seq(Email!Versions)]
  BY <1>3, <1>6, <1>7
<1>9. \A b \in 1..Batches : e_delivered'[b] = IF b = j THEN d ELSE e_delivered[b]
  BY <1>2, <1>3, <1>7
<1> QED
  BY <1>1, <1>6, <1>8, <1>9

LEMMA RequestTypes ==
  ASSUME EmailTypes, NEW r \in SendRequests,
         Email!SendClaim(r) \/ Email!SendDispatch(r) \/ Email!SendLost(r)
  PROVE  EmailTypes'
<1>1. /\ UNCHANGED <<e_text, e_count, e_keyless, e_audience, e_edit, e_worker, e_delivered,
                     e_withheld, e_refusals>>
      /\ \/ e_request' = [e_request EXCEPT ![r] = "claimed"]
         \/ e_request' = [e_request EXCEPT ![r] = "done"]
  BY DEF Email!SendClaim, Email!SendDispatch, Email!SendLost, Email!row, Email!inputs
<1>2. e_request' \in [SendRequests -> {"new", "claimed", "done"}]
  BY <1>1 DEF EmailTypes
<1>3. e_status' \in {e_status, "SENDING"} /\ e_code' \in BOOLEAN
  BY DEF EmailTypes, Email!SendClaim, Email!SendDispatch, Email!SendLost, Email!row, Email!inputs
<1>4. e_tasks' \in Nat /\ e_lost' \in BOOLEAN
  <2>1. e_tasks' \in Nat
    BY DEF EmailTypes, Email!SendClaim, Email!SendDispatch, Email!SendLost
  <2>2. e_lost' = e_lost \/ e_lost' = TRUE
    BY Zenon DEF Email!SendClaim, Email!SendDispatch, Email!SendLost
  <2>3. e_lost \in BOOLEAN
    BY DEF EmailTypes
  <2> QED
    BY <2>1, <2>2, <2>3, Zenon
<1>5. e_faults' \in 0..MaxFaults
  BY Numbers DEF EmailTypes, Email!SendClaim, Email!SendDispatch, Email!SendLost
<1>6. Cardinality(EditsDone)' = Cardinality(EditsDone)
  BY <1>1 DEF EditsDone
<1> QED
  BY <1>1, <1>2, <1>3, <1>4, <1>5, <1>6 DEF EmailTypes, RowStatuses

LEMMA EditorTypes ==
  ASSUME EmailTypes, NEW e \in Editors,
         Email!EditRead(e) \/ Email!UpdateCommit(e) \/ Email!DeleteCommit(e)
  PROVE  EmailTypes'
<1>1. /\ UNCHANGED <<e_count, e_keyless, e_audience, e_request, e_tasks, e_worker, e_delivered,
                     e_withheld, e_lost, e_refusals, e_faults>>
      /\ e_status' \in {e_status, "DELETED"} /\ e_code' \in BOOLEAN
  BY DEF EmailTypes, Email!EditRead, Email!UpdateCommit, Email!DeleteCommit, Email!row, Email!send
<1>2. PICK what \in {"update", "delete", "done"} : e_edit' = [e_edit EXCEPT ![e] = what]
  BY DEF Email!EditRead, Email!UpdateCommit, Email!DeleteCommit, Email!EditDone
<1>3. /\ e_edit \in [Editors -> {"new", "update", "delete", "done"}]
      /\ e_edit' \in [Editors -> {"new", "update", "delete", "done"}]
  BY <1>2 DEF EmailTypes
<1>4. e_text \in Nat /\ e_text <= Cardinality(EditsDone)
  BY DEF EmailTypes
<1>5. e_text' \in Nat /\ e_text' <= Cardinality(EditsDone)'
  <2>1. CASE Email!EditRead(e)
    <3>1. e_edit[e] = "new" /\ e_text' = e_text /\ what # "done"
      <4>1. e_edit[e] = "new" /\ e_text' = e_text /\ e_edit'[e] \in {"update", "delete"}
        BY <1>3, <2>1 DEF Email!EditRead, Email!row
      <4> QED
        BY <1>2, <1>3, <4>1
    <3>2. EditsDone' = EditsDone
      BY <1>2, <1>3, <3>1 DEF EditsDone
    <3> QED
      BY <1>4, <3>1, <3>2
  <2>2. CASE Email!UpdateCommit(e) \/ Email!DeleteCommit(e)
    <3>1. e_edit[e] # "done" /\ e_edit' = [e_edit EXCEPT ![e] = "done"]
      BY <2>2 DEF Email!UpdateCommit, Email!DeleteCommit, Email!EditDone
    <3>2. e \notin EditsDone /\ EditsDone' = EditsDone \cup {e}
      BY <1>3, <3>1 DEF EditsDone
    <3>3. Cardinality(EditsDone \cup {e}) = Cardinality(EditsDone) + 1
      BY <3>2, DoneCount, FS_AddElement
    <3>4. e_text' = e_text \/ e_text' = e_text + 1
      BY <2>2 DEF Email!UpdateCommit, Email!DeleteCommit
    <3>5. Cardinality(EditsDone) \in Nat
      BY DoneCount
    <3>6. PICK n \in Nat : n = Cardinality(EditsDone)
      BY <3>5
    <3>7. Cardinality(EditsDone)' = n + 1
      BY <3>2, <3>3, <3>6
    <3> QED
      BY <1>4, <3>4, <3>6, <3>7
  <2> QED
    BY <2>1, <2>2
<1> QED
  BY <1>1, <1>3, <1>5 DEF EmailTypes

LEMMA WorkerStepTypes ==
  ASSUME EmailTypes, NEW w \in Workers,
         \/ Email!TaskStart(w) \/ Email!TaskStartFails(w) \/ Email!SendBatch(w)
         \/ Email!BatchRefused(w) \/ Email!AllSent(w) \/ Email!TaskEnd(w) \/ Email!Crash(w)
  PROVE  EmailTypes'
<1>1. e_worker[w] \in SendTask /\ Batches \in Nat /\ e_worker \in [Workers -> SendTask]
  BY Numbers DEF EmailTypes
<1>2. WorkerKeeps
  BY DEF WorkerKeeps, Email!TaskStart, Email!TaskStartFails, Email!SendBatch, Email!BatchRefused,
         Email!AllSent, Email!TaskEnd, Email!Crash, Email!row, Email!inputs
<1>3. e_tasks' \in Nat
  BY DEF EmailTypes, Email!TaskStart, Email!TaskStartFails, Email!SendBatch, Email!BatchRefused,
         Email!AllSent, Email!TaskEnd, Email!Crash
<1>4. e_lost' \in BOOLEAN /\ e_refusals' \in 0..MaxRefusals /\ e_faults' \in 0..MaxFaults
  <2>1. e_refusals' \in 0..MaxRefusals /\ e_faults' \in 0..MaxFaults
    BY Numbers
       DEF EmailTypes, Email!TaskStart, Email!TaskStartFails, Email!SendBatch, Email!BatchRefused,
           Email!AllSent, Email!TaskEnd, Email!Crash
  <2>2. e_lost' = e_lost \/ e_lost' = TRUE
    BY Zenon
       DEF Email!TaskStart, Email!TaskStartFails, Email!SendBatch, Email!BatchRefused,
           Email!AllSent, Email!TaskEnd, Email!Crash
  <2>3. e_lost \in BOOLEAN
    BY DEF EmailTypes
  <2> QED
    BY <2>1, <2>2, <2>3, Zenon
<1>5. WorkerWrites(w)
  <2>1. CASE Email!TaskStart(w)
    <3>1. CASE e_status = "DELETED"
      <4>1. e_worker' = [e_worker EXCEPT ![w] = e_worker[w]]
        BY <1>1, <2>1, <3>1 DEF Email!TaskStart
      <4> QED
        BY <1>1, <4>1 DEF WorkerWrites
    <3>2. CASE e_status # "DELETED"
      <4>1. PICK x : x = [pc |-> "sending", total |-> e_audience, next |-> 1,
                          status |-> e_status, text |-> e_text, count |-> e_count]
        OBVIOUS
      <4>2. e_worker' = [e_worker EXCEPT ![w] = x]
        BY <2>1, <3>2, <4>1, Zenon DEF Email!TaskStart
      <4>3. e_text \in Email!Versions
        BY VersionsAre, DoneCount, Numbers DEF EmailTypes
      <4>4. 1 \in 1..(Batches + 1) /\ e_status \in RowStatuses
        BY <1>1, <3>2 DEF EmailTypes
      <4>5. x \in SendTask
        BY <4>1, <4>3, <4>4 DEF SendTask, EmailTypes
      <4> QED
        BY <4>2, <4>5 DEF WorkerWrites
    <3> QED
      BY <3>1, <3>2
  <2>2. CASE Email!TaskStartFails(w)
    <3>1. e_worker' = [e_worker EXCEPT ![w] = e_worker[w]]
      BY <1>1, <2>2 DEF Email!TaskStartFails
    <3> QED
      BY <1>1, <3>1 DEF WorkerWrites
  <2>3. CASE Email!SendBatch(w)
    <3>1. e_worker[w].next + 1 \in 1..(Batches + 1)
      BY <1>1, <2>3, BatchHanded DEF Email!SendBatch
    <3>2. PICK x : x = [e_worker[w] EXCEPT !.next = e_worker[w].next + 1]
      OBVIOUS
    <3>3. x \in SendTask
      BY <1>1, <3>1, <3>2 DEF SendTask
    <3>4. e_worker' = [e_worker EXCEPT ![w] = x]
      BY <2>3, <3>2, Zenon DEF Email!SendBatch
    <3> QED
      BY <3>3, <3>4 DEF WorkerWrites
  <2>4. CASE Email!BatchRefused(w) \/ Email!AllSent(w)
    <3>1. PICK x : x = [e_worker[w] EXCEPT !.pc = "ending"]
      OBVIOUS
    <3>2. x \in SendTask
      BY <1>1, <3>1 DEF SendTask
    <3>3. e_worker' = [e_worker EXCEPT ![w] = x]
      BY <2>4, <3>1, Zenon DEF Email!BatchRefused, Email!AllSent
    <3> QED
      BY <3>2, <3>3 DEF WorkerWrites
  <2>5. CASE Email!TaskEnd(w) \/ Email!Crash(w)
    BY <2>5, IdleTask, Zenon DEF WorkerWrites, Email!TaskEnd, Email!Crash
  <2> QED
    BY <2>1, <2>2, <2>3, <2>4, <2>5
<1>6. e_delivered' \in [1..Batches -> Seq(Email!Versions)]
  <2>1. CASE Email!SendBatch(w) \/ Email!BatchRefused(w)
    <3>1. Email!HasBatch(w)
      BY <2>1 DEF Email!SendBatch, Email!BatchRefused
    <3>2. e_delivered' = e_delivered \/ Email!HandOver(w)
      BY <2>1, Zenon DEF Email!SendBatch, Email!BatchRefused
    <3> QED
      BY <3>1, <3>2, HandedOver DEF EmailTypes
  <2>2. CASE ~(Email!SendBatch(w) \/ Email!BatchRefused(w))
    <3>1. e_delivered' = e_delivered
      BY <2>2, Zenon
         DEF Email!TaskStart, Email!TaskStartFails, Email!AllSent, Email!TaskEnd, Email!Crash
    <3> QED
      BY <3>1 DEF EmailTypes
  <2> QED
    BY <2>1, <2>2
<1>7. e_status' \in RowStatuses \cup {"DELETED"} /\ e_count' \in 0..Batches
  <2>1. CASE Email!BatchRefused(w)
    <3>1. Email!Write(w, "FAILED", e_worker[w].count) /\ e_worker[w].count \in 0..Batches
      BY <1>1, <2>1 DEF Email!BatchRefused, SendTask
    <3> QED
      BY <3>1, WriteTypes
  <2>2. CASE Email!AllSent(w)
    <3>1. Email!Write(w, "SENT", e_worker[w].total) /\ e_worker[w].total \in 0..Batches
      BY <1>1, <2>2 DEF Email!AllSent, SendTask
    <3> QED
      BY <3>1, WriteTypes
  <2>3. CASE ~Email!BatchRefused(w) /\ ~Email!AllSent(w)
    <3>1. UNCHANGED <<e_status, e_count>>
      BY <2>3
         DEF Email!TaskStart, Email!TaskStartFails, Email!SendBatch, Email!TaskEnd, Email!Crash,
             Email!row
    <3> QED
      BY <3>1 DEF EmailTypes
  <2> QED
    BY <2>1, <2>2, <2>3
<1>8. e_withheld' \subseteq 1..Batches
  <2>1. CASE Email!SendBatch(w)
    <3>1. e_worker[w].next \in 1..Batches
      BY <2>1, BatchHanded DEF Email!SendBatch
    <3>2. e_withheld' = e_withheld \/ e_withheld' = e_withheld \cup {e_worker[w].next}
      BY <2>1, Zenon DEF Email!SendBatch
    <3> QED
      BY <3>1, <3>2 DEF EmailTypes
  <2>2. CASE ~Email!SendBatch(w)
    <3>1. e_withheld' = e_withheld
      BY <2>2, Zenon
         DEF Email!TaskStart, Email!TaskStartFails, Email!BatchRefused, Email!AllSent,
             Email!TaskEnd, Email!Crash
    <3> QED
      BY <3>1 DEF EmailTypes
  <2> QED
    BY <2>1, <2>2
<1> QED
  BY <1>2, <1>3, <1>4, <1>5, <1>6, <1>7, <1>8, WorkerTypes

LEMMA EmailTypesStep ==
  ASSUME EmailTypes, [Email!Next]_emailVars
  PROVE  EmailTypes'
<1>1. CASE Email!ChangeAudience \/ Email!GenerateCode \/ Email!CodeExpires \/ UNCHANGED emailVars
  <2>1. /\ UNCHANGED <<e_status, e_text, e_count, e_edit, e_request, e_tasks, e_worker,
                       e_delivered, e_keyless, e_withheld, e_lost, e_refusals, e_faults>>
        /\ e_audience' \in 0..Batches /\ e_code' \in BOOLEAN
    BY <1>1
       DEF EmailTypes, emailVars, Email!ChangeAudience, Email!GenerateCode, Email!CodeExpires,
           Email!row, Email!send
  <2>2. Cardinality(EditsDone)' = Cardinality(EditsDone)
    BY <2>1 DEF EditsDone
  <2> QED
    BY <2>1, <2>2 DEF EmailTypes
<1> QED
  BY <1>1, RequestTypes, EditorTypes, WorkerStepTypes DEF Email!Next

LEMMA EmailTyped == EmailTypes => Email!TypeOK
<1> SUFFICES ASSUME EmailTypes PROVE Email!TypeOK
  OBVIOUS
<1>1. e_text \in 0..Cardinality(Editors)
  BY DoneCount, Numbers DEF EmailTypes
<1>2. e_text \in Email!Versions
  BY <1>1, VersionsAre
<1> QED
  BY <1>2 DEF EmailTypes, Email!TypeOK, RowStatuses, SendTask

-----------------------------------------------------------------------------
(* One sender                                                              *)

Claimed == {r \in SendRequests : e_request[r] = "claimed"}
Sending == {w \in Workers : e_worker[w].pc = "sending"}

(* Who still sends for the claim that made the row SENDING: a request, a   *)
(* message, or a task that read SENDING and so will write its outcome.     *)
TakerInv ==
  e_status = "SENDING" /\ ~e_lost =>
    \/ \E r \in SendRequests : e_request[r] = "claimed"
    \/ e_tasks > 0
    \/ \E w \in Workers : e_worker[w].pc = "sending" /\ e_worker[w].status = "SENDING"

(* Without faults they are one while the row is SENDING, and none before   *)
(* and after; and no task read anything else than SENDING.                 *)
LoneInv ==
  e_faults = 0 /\ e_status # "DELETED" =>
    /\ Cardinality(Claimed) + e_tasks + Cardinality(Sending)
         = IF e_status = "SENDING" THEN 1 ELSE 0
    /\ \A w \in Sending : e_worker[w].status = "SENDING"

LEMMA Crowd ==
  /\ IsFiniteSet(Claimed) /\ Cardinality(Claimed) \in Nat /\ (Cardinality(Claimed) = 0 => Claimed = {})
  /\ IsFiniteSet(Sending) /\ Cardinality(Sending) \in Nat /\ (Cardinality(Sending) = 0 => Sending = {})
<1>1. Claimed \in SUBSET SendRequests /\ Sending \in SUBSET Workers
  BY DEF Claimed, Sending
<1>2. IsFiniteSet(Claimed) /\ IsFiniteSet(Sending)
  BY <1>1, Numbers, FS_Subset
<1> QED
  BY <1>2, FS_CardinalityType, FS_EmptySet

LEMMA SendersAre ==
  Email!Senders = Cardinality(Claimed) + e_tasks + Cardinality(Sending)
BY SameSize DEF Email!Senders, Claimed, Sending

(* A task that read SENDING writes how it ended.                           *)
LEMMA OutcomeWritten ==
  ASSUME NEW w \in Workers, Email!BatchRefused(w) \/ Email!AllSent(w),
         e_worker[w].status = "SENDING"
  PROVE  e_status' # "SENDING"
BY DEF Email!BatchRefused, Email!AllSent, Email!Write

(* What a step of a worker does to the others and to itself.               *)
LEMMA WorkerMoves ==
  ASSUME EmailTypes, NEW w \in Workers, NEW x, e_worker' = [e_worker EXCEPT ![w] = x]
  PROVE  e_worker'[w] = x /\ \A v \in Workers \ {w} : e_worker'[v] = e_worker[v]
BY DEF EmailTypes

(* What each step of a worker does: it begins, goes on, is over, or rests. *)
Begins(w) ==
  /\ e_worker[w].pc = "idle" /\ e_status # "DELETED"
  /\ e_worker'[w].pc = "sending" /\ e_worker'[w].status = e_status

GoesOn(w) ==
  /\ e_worker[w].pc = "sending" /\ e_worker'[w].pc = "sending"
  /\ e_worker'[w].status = e_worker[w].status

LEMMA TaskBegins ==
  ASSUME EmailTypes, NEW w \in Workers, Email!TaskStart(w)
  PROVE  /\ e_status = "DELETED" => UNCHANGED e_worker
         /\ e_status # "DELETED" =>
              Begins(w) /\ \A v \in Workers \ {w} : e_worker'[v] = e_worker[v]
<1>1. CASE e_status # "DELETED"
  <2>1. PICK x : x = [pc |-> "sending", total |-> e_audience, next |-> 1,
                      status |-> e_status, text |-> e_text, count |-> e_count]
    OBVIOUS
  <2>2. e_worker' = [e_worker EXCEPT ![w] = x] /\ e_worker[w].pc = "idle"
    BY <1>1, <2>1, Zenon DEF Email!TaskStart
  <2>3. e_worker'[w] = x /\ \A v \in Workers \ {w} : e_worker'[v] = e_worker[v]
    BY <2>2, WorkerMoves
  <2> QED
    BY <1>1, <2>1, <2>2, <2>3 DEF Begins
<1>2. CASE e_status = "DELETED"
  BY <1>2, Zenon DEF Email!TaskStart
<1> QED
  BY <1>1, <1>2

LEMMA BatchGoes ==
  ASSUME EmailTypes, NEW w \in Workers, Email!SendBatch(w)
  PROVE  GoesOn(w) /\ \A v \in Workers \ {w} : e_worker'[v] = e_worker[v]
<1>1. e_worker[w] \in SendTask
  BY DEF EmailTypes
<1>2. PICK x : x = [e_worker[w] EXCEPT !.next = e_worker[w].next + 1]
  OBVIOUS
<1>3. e_worker' = [e_worker EXCEPT ![w] = x] /\ e_worker[w].pc = "sending"
  BY <1>2, Zenon DEF Email!SendBatch, Email!HasBatch
<1>4. e_worker'[w] = x /\ \A v \in Workers \ {w} : e_worker'[v] = e_worker[v]
  BY <1>3, WorkerMoves
<1>5. x.pc = e_worker[w].pc /\ x.status = e_worker[w].status
  BY <1>1, <1>2 DEF SendTask
<1> QED
  BY <1>3, <1>4, <1>5 DEF GoesOn

LEMMA TaskCloses ==
  ASSUME EmailTypes, NEW w \in Workers,
         Email!BatchRefused(w) \/ Email!AllSent(w) \/ Email!TaskEnd(w) \/ Email!Crash(w)
  PROVE  e_worker'[w].pc # "sending" /\ \A v \in Workers \ {w} : e_worker'[v] = e_worker[v]
<1>1. e_worker[w] \in SendTask
  BY DEF EmailTypes
<1>2. CASE Email!BatchRefused(w) \/ Email!AllSent(w)
  <2>1. PICK x : x = [e_worker[w] EXCEPT !.pc = "ending"]
    OBVIOUS
  <2>2. e_worker' = [e_worker EXCEPT ![w] = x]
    BY <1>2, <2>1, Zenon DEF Email!BatchRefused, Email!AllSent
  <2>3. x.pc = "ending"
    BY <1>1, <2>1 DEF SendTask
  <2> QED
    BY <2>2, <2>3, WorkerMoves
<1>3. CASE Email!TaskEnd(w) \/ Email!Crash(w)
  <2>1. e_worker' = [e_worker EXCEPT ![w] = Email!Idle]
    BY <1>3 DEF Email!TaskEnd, Email!Crash
  <2> QED
    BY <2>1, IdleTask, WorkerMoves
<1> QED
  BY <1>2, <1>3

LEMMA TakerStep ==
  ASSUME EmailTypes, TakerInv, [Email!Next]_emailVars
  PROVE  TakerInv'
<1> SUFFICES ASSUME e_status' = "SENDING", ~e_lost'
             PROVE  \/ \E r \in SendRequests : e_request'[r] = "claimed"
                    \/ e_tasks' > 0
                    \/ \E w \in Workers : /\ e_worker'[w].pc = "sending"
                                          /\ e_worker'[w].status = "SENDING"
  BY DEF TakerInv
<1>1. e_tasks \in Nat /\ e_request \in [SendRequests -> {"new", "claimed", "done"}]
  BY DEF EmailTypes
<1>2. CASE UNCHANGED <<e_status, e_lost, e_request, e_tasks, e_worker>>
  BY <1>2 DEF TakerInv
<1>3. ASSUME NEW r \in SendRequests, Email!SendClaim(r) \/ Email!SendDispatch(r)
      PROVE  (\E q \in SendRequests : e_request'[q] = "claimed") \/ e_tasks' > 0
  <2>1. CASE Email!SendClaim(r)
    BY <1>1, <2>1 DEF Email!SendClaim
  <2>2. CASE Email!SendDispatch(r)
    BY <1>1, <2>2 DEF Email!SendDispatch
  <2> QED
    BY <1>3, <2>1, <2>2
<1>4. ASSUME NEW w \in Workers, Email!TaskStart(w)
      PROVE  \/ \E r \in SendRequests : e_request'[r] = "claimed"
             \/ \E v \in Workers : e_worker'[v].pc = "sending" /\ e_worker'[v].status = "SENDING"
  <2>1. e_status = "SENDING"
    BY <1>4 DEF Email!TaskStart, Email!row
  <2>2. e_worker'[w].pc = "sending" /\ e_worker'[w].status = "SENDING"
    BY <1>4, <2>1, TaskBegins DEF Begins
  <2> QED
    BY <2>2
<1>5. ASSUME NEW w \in Workers, Email!SendBatch(w) \/ Email!TaskEnd(w)
      PROVE  \/ \E r \in SendRequests : e_request'[r] = "claimed"
             \/ e_tasks' > 0
             \/ \E v \in Workers : e_worker'[v].pc = "sending" /\ e_worker'[v].status = "SENDING"
  <2>1. UNCHANGED <<e_status, e_lost, e_request, e_tasks>>
    BY <1>5 DEF Email!SendBatch, Email!TaskEnd, Email!row
  <2>2. ASSUME NEW v \in Workers, e_worker[v].pc = "sending", e_worker[v].status = "SENDING"
        PROVE  e_worker'[v].pc = "sending" /\ e_worker'[v].status = "SENDING"
    <3>1. CASE Email!SendBatch(w)
      BY <2>2, <3>1, BatchGoes DEF GoesOn
    <3>2. CASE Email!TaskEnd(w)
      <4>1. v # w
        BY <2>2, <3>2 DEF Email!TaskEnd
      <4> QED
        BY <2>2, <3>2, <4>1, TaskCloses
    <3> QED
      BY <1>5, <3>1, <3>2
  <2> QED
    BY <2>1, <2>2 DEF TakerInv
<1>6. ASSUME NEW w \in Workers, Email!BatchRefused(w) \/ Email!AllSent(w)
      PROVE  \/ \E r \in SendRequests : e_request'[r] = "claimed"
             \/ e_tasks' > 0
             \/ \E v \in Workers : e_worker'[v].pc = "sending" /\ e_worker'[v].status = "SENDING"
  <2>1. UNCHANGED <<e_lost, e_request, e_tasks>> /\ e_status = "SENDING"
    BY <1>6 DEF Email!BatchRefused, Email!AllSent, Email!Write, Email!inputs
  <2>2. e_worker[w].status # "SENDING"
    BY <1>6, OutcomeWritten
  <2>3. ASSUME NEW v \in Workers, e_worker[v].pc = "sending", e_worker[v].status = "SENDING"
        PROVE  e_worker'[v].pc = "sending" /\ e_worker'[v].status = "SENDING"
    BY <1>6, <2>2, <2>3, TaskCloses
  <2> QED
    BY <2>1, <2>3 DEF TakerInv
<1>7. ASSUME NEW w \in Workers, Email!Crash(w) PROVE e_tasks' > 0
  BY <1>1, <1>7 DEF Email!Crash
<1>8. ASSUME NEW w \in Workers PROVE ~Email!TaskStartFails(w)
  BY DEF Email!TaskStartFails
<1>9. ASSUME NEW r \in SendRequests PROVE ~Email!SendLost(r)
  BY DEF Email!SendLost
<1>10. ASSUME NEW e \in Editors,
              Email!EditRead(e) \/ Email!UpdateCommit(e) \/ Email!DeleteCommit(e)
       PROVE  UNCHANGED <<e_status, e_lost, e_request, e_tasks, e_worker>>
  BY <1>10 DEF Email!EditRead, Email!UpdateCommit, Email!DeleteCommit, Email!row, Email!send
<1>11. CASE \/ Email!ChangeAudience \/ Email!GenerateCode \/ Email!CodeExpires
            \/ UNCHANGED emailVars
  BY <1>2, <1>11
     DEF Email!ChangeAudience, Email!GenerateCode, Email!CodeExpires, Email!row, Email!send, emailVars
<1> QED
  BY <1>2, <1>3, <1>4, <1>5, <1>6, <1>7, <1>8, <1>9, <1>10, <1>11 DEF Email!Next

(* Nobody brings a deleted email back, and no fault is forgotten.          *)
LEMMA Onward ==
  ASSUME EmailTypes, [Email!Next]_emailVars, e_faults' = 0, e_status' # "DELETED"
  PROVE  e_faults = 0 /\ e_status # "DELETED"
<1>1. e_faults \in Nat
  BY Numbers DEF EmailTypes
<1>2. CASE Email!ChangeAudience \/ Email!GenerateCode \/ Email!CodeExpires \/ UNCHANGED emailVars
  BY <1>2 DEF Email!ChangeAudience, Email!GenerateCode, Email!CodeExpires, Email!row, Email!send,
              emailVars
<1>3. ASSUME NEW r \in SendRequests,
             Email!SendClaim(r) \/ Email!SendDispatch(r) \/ Email!SendLost(r)
      PROVE  e_faults = 0 /\ e_status # "DELETED"
  BY <1>1, <1>3 DEF Email!SendClaim, Email!SendDispatch, Email!SendLost, Email!Claimable, Email!row
<1>4. ASSUME NEW e \in Editors,
             Email!EditRead(e) \/ Email!UpdateCommit(e) \/ Email!DeleteCommit(e)
      PROVE  e_faults = 0 /\ e_status # "DELETED"
  BY <1>4 DEF Email!EditRead, Email!UpdateCommit, Email!DeleteCommit, Email!row, Email!send
<1>5. ASSUME NEW w \in Workers,
             \/ Email!TaskStart(w) \/ Email!TaskStartFails(w) \/ Email!SendBatch(w)
             \/ Email!TaskEnd(w) \/ Email!Crash(w)
      PROVE  e_faults = 0 /\ e_status # "DELETED"
  BY <1>1, <1>5
     DEF Email!TaskStart, Email!TaskStartFails, Email!SendBatch, Email!TaskEnd, Email!Crash, Email!row
<1>6. ASSUME NEW w \in Workers, Email!BatchRefused(w) \/ Email!AllSent(w)
      PROVE  e_faults = 0 /\ e_status # "DELETED"
  BY <1>6 DEF Email!BatchRefused, Email!AllSent, Email!Write
<1> QED
  BY <1>2, <1>3, <1>4, <1>5, <1>6 DEF Email!Next

LEMMA LoneStep ==
  ASSUME EmailTypes, LoneInv, [Email!Next]_emailVars
  PROVE  LoneInv'
<1> DEFINE Sum == Cardinality(Claimed) + e_tasks + Cardinality(Sending)
<1> SUFFICES ASSUME e_faults' = 0, e_status' # "DELETED"
             PROVE  /\ Sum' = IF e_status' = "SENDING" THEN 1 ELSE 0
                    /\ \A v \in Workers : e_worker'[v].pc = "sending" => e_worker'[v].status = "SENDING"
  BY DEF LoneInv, Sending
<1>1. /\ e_faults = 0 /\ e_status # "DELETED" /\ e_tasks \in Nat /\ e_worker \in [Workers -> SendTask]
      /\ e_request \in [SendRequests -> {"new", "claimed", "done"}]
  BY Onward DEF EmailTypes
<1>2. PICK c, s \in Nat : c = Cardinality(Claimed) /\ s = Cardinality(Sending)
  BY Crowd
<1>3. /\ c + e_tasks + s = IF e_status = "SENDING" THEN 1 ELSE 0
      /\ \A v \in Workers : e_worker[v].pc = "sending" => e_worker[v].status = "SENDING"
  BY <1>1, <1>2 DEF LoneInv, Sending
<1>4. CASE UNCHANGED <<e_status, e_request, e_tasks, e_worker>>
  <2>1. Claimed' = Claimed /\ Sending' = Sending
    BY <1>4 DEF Claimed, Sending
  <2> QED
    BY <1>2, <1>3, <1>4, <2>1
<1>5. ASSUME NEW r \in SendRequests, Email!SendClaim(r)
      PROVE  /\ Sum' = IF e_status' = "SENDING" THEN 1 ELSE 0
             /\ \A v \in Workers : e_worker'[v].pc = "sending" => e_worker'[v].status = "SENDING"
  <2>1. /\ e_status # "SENDING" /\ e_status' = "SENDING" /\ UNCHANGED <<e_tasks, e_worker>>
        /\ e_request[r] = "new" /\ e_request' = [e_request EXCEPT ![r] = "claimed"]
    BY <1>5 DEF Email!SendClaim, Email!Claimable
  <2>2. r \notin Claimed /\ Claimed' = Claimed \cup {r} /\ Sending' = Sending
    BY <1>1, <2>1 DEF Claimed, Sending
  <2>3. Cardinality(Claimed \cup {r}) = c + 1
    BY <1>2, <2>2, Crowd, FS_AddElement
  <2>4. c = 0 /\ s = 0 /\ e_tasks = 0
    BY <1>1, <1>2, <1>3, <2>1
  <2>5. Cardinality(Claimed)' = 1 /\ Cardinality(Sending)' = 0
    BY <1>2, <2>2, <2>3, <2>4
  <2>6. Sum' = 1
    BY <2>1, <2>4, <2>5
  <2> QED
    BY <1>3, <2>1, <2>6
<1>6. ASSUME NEW r \in SendRequests, Email!SendDispatch(r)
      PROVE  /\ Sum' = IF e_status' = "SENDING" THEN 1 ELSE 0
             /\ \A v \in Workers : e_worker'[v].pc = "sending" => e_worker'[v].status = "SENDING"
  <2>1. /\ UNCHANGED <<e_status, e_worker>> /\ e_tasks' = e_tasks + 1
        /\ e_request[r] = "claimed" /\ e_request' = [e_request EXCEPT ![r] = "done"]
    BY <1>6 DEF Email!SendDispatch, Email!row
  <2>2. r \in Claimed /\ Claimed' = Claimed \ {r} /\ Sending' = Sending
    BY <1>1, <2>1 DEF Claimed, Sending
  <2>3. Cardinality(Claimed \ {r}) = c - 1
    BY <1>2, <2>2, Crowd, FS_RemoveElement
  <2>4. Cardinality(Claimed)' = c - 1 /\ Cardinality(Sending)' = s
    BY <1>2, <2>2, <2>3
  <2>5. Sum' = c + e_tasks + s
    BY <1>1, <1>2, <2>1, <2>4
  <2> QED
    BY <1>3, <2>1, <2>5
<1>7. ASSUME NEW w \in Workers, Email!TaskStart(w)
      PROVE  /\ Sum' = IF e_status' = "SENDING" THEN 1 ELSE 0
             /\ \A v \in Workers : e_worker'[v].pc = "sending" => e_worker'[v].status = "SENDING"
  <2>1. /\ UNCHANGED <<e_status, e_request>> /\ e_tasks > 0 /\ e_tasks' = e_tasks - 1
        /\ Begins(w) /\ \A v \in Workers \ {w} : e_worker'[v] = e_worker[v]
    BY <1>1, <1>7, TaskBegins DEF Email!TaskStart, Email!row
  <2>2. e_status = "SENDING"
    BY <1>1, <1>2, <1>3, <2>1
  <2>3. w \notin Sending /\ Sending' = Sending \cup {w} /\ Claimed' = Claimed
    BY <1>1, <2>1 DEF Claimed, Sending, Begins
  <2>4. Cardinality(Sending \cup {w}) = s + 1
    BY <1>2, <2>3, Crowd, FS_AddElement
  <2>5. Cardinality(Claimed)' = c /\ Cardinality(Sending)' = s + 1
    BY <1>2, <2>3, <2>4
  <2>6. Sum' = c + e_tasks + s
    BY <1>1, <1>2, <2>1, <2>5
  <2> QED
    BY <1>3, <2>1, <2>2, <2>6 DEF Begins
<1>8. ASSUME NEW w \in Workers, Email!SendBatch(w) \/ Email!TaskEnd(w)
      PROVE  /\ Sum' = IF e_status' = "SENDING" THEN 1 ELSE 0
             /\ \A v \in Workers : e_worker'[v].pc = "sending" => e_worker'[v].status = "SENDING"
  <2>1. UNCHANGED <<e_status, e_request, e_tasks>>
    BY <1>8 DEF Email!SendBatch, Email!TaskEnd, Email!row
  <2>2. /\ \A v \in Workers \ {w} : e_worker'[v] = e_worker[v]
        /\ GoesOn(w) \/ (e_worker[w].pc = "ending" /\ e_worker'[w].pc # "sending")
    BY <1>8, BatchGoes, TaskCloses DEF Email!TaskEnd
  <2>3. Claimed' = Claimed /\ Sending' = Sending
    BY <2>1, <2>2 DEF Claimed, Sending, GoesOn
  <2>4. Sum' = c + e_tasks + s
    BY <1>2, <2>1, <2>3
  <2> QED
    BY <1>3, <2>1, <2>2, <2>4 DEF GoesOn
<1>9. ASSUME NEW w \in Workers, Email!BatchRefused(w) \/ Email!AllSent(w)
      PROVE  /\ Sum' = IF e_status' = "SENDING" THEN 1 ELSE 0
             /\ \A v \in Workers : e_worker'[v].pc = "sending" => e_worker'[v].status = "SENDING"
  <2>1. UNCHANGED <<e_request, e_tasks>> /\ e_worker[w].pc = "sending"
    BY <1>9 DEF Email!BatchRefused, Email!AllSent, Email!HasBatch, Email!inputs
  <2>2. e_status' # "SENDING"
    BY <1>3, <1>9, <2>1, OutcomeWritten
  <2>3. /\ e_worker'[w].pc # "sending" /\ \A v \in Workers \ {w} : e_worker'[v] = e_worker[v]
    BY <1>9, TaskCloses
  <2>4. w \in Sending /\ Sending' = Sending \ {w} /\ Claimed' = Claimed
    BY <2>1, <2>3 DEF Claimed, Sending
  <2>5. Cardinality(Sending \ {w}) = s - 1
    BY <1>2, <2>4, Crowd, FS_RemoveElement
  <2>6. s # 0
    BY <1>2, <2>4, Crowd
  <2>7. Cardinality(Claimed)' = c /\ Cardinality(Sending)' = s - 1
    BY <1>2, <2>4, <2>5
  <2>8. Sum' = 0
    BY <1>1, <1>2, <1>3, <2>1, <2>6, <2>7
  <2> QED
    BY <1>3, <2>2, <2>3, <2>8
<1>10. ASSUME NEW w \in Workers PROVE ~Email!TaskStartFails(w) /\ ~Email!Crash(w)
  BY <1>1 DEF Email!TaskStartFails, Email!Crash
<1>11. ASSUME NEW r \in SendRequests PROVE ~Email!SendLost(r)
  BY <1>1 DEF Email!SendLost
<1>12. ASSUME NEW e \in Editors, Email!EditRead(e) \/ Email!UpdateCommit(e) \/ Email!DeleteCommit(e)
       PROVE  UNCHANGED <<e_status, e_request, e_tasks, e_worker>>
  BY <1>12 DEF Email!EditRead, Email!UpdateCommit, Email!DeleteCommit, Email!row, Email!send
<1>13. CASE \/ Email!ChangeAudience \/ Email!GenerateCode \/ Email!CodeExpires
            \/ UNCHANGED emailVars
  BY <1>4, <1>13
     DEF Email!ChangeAudience, Email!GenerateCode, Email!CodeExpires, Email!row, Email!send, emailVars
<1> HIDE DEF Sum
<1> QED
  BY <1>4, <1>5, <1>6, <1>7, <1>8, <1>9, <1>10, <1>11, <1>12, <1>13 DEF Email!Next

LEMMA SendersStart == AllInit => TakerInv /\ LoneInv
<1> SUFFICES ASSUME AllInit PROVE TakerInv /\ LoneInv
  OBVIOUS
<1>1. /\ e_status = "DRAFT" /\ e_request = [r \in SendRequests |-> "new"]
      /\ e_tasks = 0 /\ e_worker = [w \in Workers |-> Email!Idle]
  BY DEF AllInit, Email!Init
<1>2. Claimed = {} /\ Sending = {}
  BY <1>1, IdleTask DEF Claimed, Sending
<1>3. Cardinality(Claimed) + e_tasks + Cardinality(Sending) = 0
  BY <1>1, <1>2, FS_EmptySet
<1> QED
  BY <1>1, <1>2, <1>3 DEF TakerInv, LoneInv

(* SENDING means that a request, a message or a task is there to send, or  *)
(* that one was lost; and as long as nothing was lost there is exactly one, *)
(* and none for a draft, a SENT or a FAILED email: what the lock of POST   *)
(* /send is for, whatever editors and refusals come in between             *)
(* (bulk_email_service.py:734-840).                                        *)
THEOREM EmailOneSender == AllSpec => []OneSender
<1> DEFINE SendersInv == EmailTypes /\ TakerInv /\ LoneInv
<1>1. SendersInv => OneSender
  <2> SUFFICES ASSUME SendersInv PROVE Email!OneSender
    BY DEF OneSender
  <2>1. PICK c, s \in Nat : c = Cardinality(Claimed) /\ s = Cardinality(Sending)
    BY Crowd
  <2>2. Email!Senders = c + e_tasks + s /\ e_tasks \in Nat
    BY <2>1, SendersAre DEF EmailTypes
  <2>3. ASSUME e_status = "SENDING", ~e_lost PROVE Email!Senders >= 1
    <3>1. Claimed # {} \/ e_tasks > 0 \/ Sending # {}
      BY <2>3 DEF TakerInv, Claimed, Sending
    <3>2. c # 0 \/ e_tasks > 0 \/ s # 0
      BY <2>1, <3>1, Crowd
    <3> QED
      BY <2>2, <3>2
  <2>4. ASSUME e_faults = 0, e_status # "DELETED"
        PROVE  Email!Senders = IF e_status = "SENDING" THEN 1 ELSE 0
    BY <2>1, <2>2, <2>4 DEF LoneInv
  <2> QED
    BY <2>3, <2>4 DEF Email!OneSender
<1>2. AllInit => SendersInv
  BY EmailTypesStart, SendersStart
<1>3. SendersInv /\ [AllNext]_allVars => SendersInv'
  BY EmailMove, EmailTypesStep, TakerStep, LoneStep
<1> QED
  BY <1>1, <1>2, <1>3, PTL DEF AllSpec

-----------------------------------------------------------------------------
(* What was delivered                                                      *)

(* SparkPost took it, or a worker without a key had it. *)
Delivered(b) == e_delivered[b] # <<>> \/ b \in e_withheld

(* What a step adds to what was delivered. *)
HandsOver ==
  /\ e_withheld \subseteq e_withheld'
  /\ \/ e_delivered' = e_delivered
     \/ \E w \in Workers : Email!HasBatch(w) /\ Email!HandOver(w)

(* What the row counts was delivered, whatever its status; and so was what *)
(* a task has handed over.                                                 *)
CountInv ==
  /\ \A b \in 1..e_count : Delivered(b)
  /\ \A w \in Workers :
       e_worker[w].pc = "sending" =>
         \A b \in 1..e_worker[w].total : b < e_worker[w].next => Delivered(b)

(* What was handed over stays handed over. *)
LEMMA DeliveredStays ==
  ASSUME EmailTypes, HandsOver, NEW b \in 1..Batches, Delivered(b)
  PROVE  Delivered(b)'
<1>1. CASE e_delivered' = e_delivered
  BY <1>1 DEF Delivered, HandsOver
<1>2. CASE b \in e_withheld
  BY <1>2 DEF Delivered, HandsOver
<1>3. ASSUME NEW w \in Workers, Email!HasBatch(w), Email!HandOver(w), b \notin e_withheld
      PROVE  Delivered(b)'
  <2>1. e_delivered[b] \in Seq(Email!Versions) /\ e_delivered'[b] \in Seq(Email!Versions)
    BY <1>3, HandedOver DEF EmailTypes
  <2>2. Len(e_delivered[b]) > 0
    BY <1>3, <2>1, EmptySeq DEF Delivered
  <2>3. Len(e_delivered'[b]) > 0
    BY <1>3, <2>1, <2>2, HandedOver
  <2> QED
    BY <2>1, <2>3 DEF Delivered
<1> QED
  BY <1>1, <1>2, <1>3 DEF HandsOver

LEMMA DeliveredNow ==
  ASSUME EmailTypes, NEW w \in Workers, Email!HasBatch(w), Email!HandOver(w),
         NEW j, j = e_worker[w].next
  PROVE  Delivered(j)'
<1>1. j \in 1..Batches
  BY BatchHanded
<1>2. e_delivered[j] \in Seq(Email!Versions) /\ e_delivered'[j] \in Seq(Email!Versions)
  BY <1>1, HandedOver DEF EmailTypes
<1>3. Len(e_delivered'[j]) = Len(e_delivered[j]) + 1 /\ Len(e_delivered[j]) \in Nat
  BY <1>1, <1>2, HandedOver, LenProperties
<1> QED
  BY <1>2, <1>3 DEF Delivered

LEMMA StepHandsOver == [Email!Next]_emailVars => HandsOver
<1> SUFFICES ASSUME [Email!Next]_emailVars PROVE HandsOver
  OBVIOUS
<1>1. ASSUME NEW w \in Workers, Email!SendBatch(w) \/ Email!BatchRefused(w)
      PROVE  HandsOver
  BY <1>1, Zenon DEF Email!SendBatch, Email!BatchRefused, HandsOver
<1>2. ASSUME NEW w \in Workers,
             \/ Email!TaskStart(w) \/ Email!TaskStartFails(w) \/ Email!AllSent(w)
             \/ Email!TaskEnd(w) \/ Email!Crash(w)
      PROVE  UNCHANGED <<e_delivered, e_withheld>>
  BY <1>2, Zenon
     DEF Email!TaskStart, Email!TaskStartFails, Email!AllSent, Email!TaskEnd, Email!Crash
<1>3. ASSUME NEW r \in SendRequests,
             Email!SendClaim(r) \/ Email!SendDispatch(r) \/ Email!SendLost(r)
      PROVE  UNCHANGED <<e_delivered, e_withheld>>
  BY <1>3, Zenon DEF Email!SendClaim, Email!SendDispatch, Email!SendLost
<1>4. ASSUME NEW e \in Editors,
             Email!EditRead(e) \/ Email!UpdateCommit(e) \/ Email!DeleteCommit(e)
      PROVE  UNCHANGED <<e_delivered, e_withheld>>
  BY <1>4 DEF Email!EditRead, Email!UpdateCommit, Email!DeleteCommit, Email!send
<1>5. CASE Email!ChangeAudience \/ Email!GenerateCode \/ Email!CodeExpires \/ UNCHANGED emailVars
  BY <1>5
     DEF Email!ChangeAudience, Email!GenerateCode, Email!CodeExpires, Email!send, emailVars, HandsOver
<1> QED
  BY <1>1, <1>2, <1>3, <1>4, <1>5, Zenon DEF Email!Next, HandsOver

LEMMA CountStep ==
  ASSUME EmailTypes, CountInv, [Email!Next]_emailVars
  PROVE  CountInv'
<1>1. /\ Batches \in Nat /\ e_worker \in [Workers -> SendTask]
      /\ e_count \in 0..Batches
      /\ \A w \in Workers : /\ e_worker[w].total \in 0..Batches
                            /\ e_worker[w].next \in Nat
  BY Numbers DEF EmailTypes, SendTask
<1>2. HandsOver
  BY StepHandsOver
<1>3. \A b \in 1..Batches : Delivered(b) => Delivered(b)'
  BY <1>2, DeliveredStays
<1>4. ASSUME UNCHANGED <<e_count, e_worker>> PROVE CountInv'
  BY <1>1, <1>3, <1>4 DEF CountInv
<1>5. ASSUME NEW w \in Workers, Email!TaskStart(w) PROVE CountInv'
  <2>1. CASE e_status = "DELETED"
    BY <1>4, <1>5, <2>1 DEF Email!TaskStart, Email!row
  <2>2. CASE e_status # "DELETED"
    <3>1. PICK x : x = [pc |-> "sending", total |-> e_audience, next |-> 1,
                        status |-> e_status, text |-> e_text, count |-> e_count]
      OBVIOUS
    <3>2. e_worker' = [e_worker EXCEPT ![w] = x] /\ e_count' = e_count
      BY <1>5, <2>2, <3>1, Zenon DEF Email!TaskStart, Email!row
    <3>3. x.total \in Nat /\ x.next = 1
      BY <3>1 DEF EmailTypes
    <3>4. e_worker'[w] = x /\ \A v \in Workers \ {w} : e_worker'[v] = e_worker[v]
      BY <3>2, WorkerMoves
    <3>5. ASSUME NEW v \in Workers, e_worker'[v].pc = "sending", NEW b \in 1..e_worker'[v].total,
                 b < e_worker'[v].next
          PROVE  Delivered(b)'
      <4>1. v # w
        BY <3>3, <3>4, <3>5
      <4>2. b \in 1..Batches /\ Delivered(b)
        BY <1>1, <3>4, <3>5, <4>1 DEF CountInv
      <4> QED
        BY <1>3, <4>2
    <3>6. \A b \in 1..e_count' : Delivered(b)'
      BY <1>1, <1>3, <3>2 DEF CountInv
    <3> QED
      BY <3>5, <3>6 DEF CountInv
  <2> QED
    BY <2>1, <2>2
<1>6. ASSUME NEW w \in Workers, Email!SendBatch(w) PROVE CountInv'
  <2>1. /\ e_count' = e_count /\ Email!HasBatch(w)
        /\ Email!HandOver(w) \/ e_withheld' = e_withheld \cup {e_worker[w].next}
    BY <1>6, Zenon DEF Email!SendBatch, Email!row
  <2>2. PICK j, x : j = e_worker[w].next /\ x = [e_worker[w] EXCEPT !.next = j + 1]
    OBVIOUS
  <2>3. e_worker' = [e_worker EXCEPT ![w] = x]
    BY <1>6, <2>2, Zenon DEF Email!SendBatch
  <2>4. e_worker'[w] = x /\ \A v \in Workers \ {w} : e_worker'[v] = e_worker[v]
    BY <2>3, WorkerMoves
  <2>5. x.total = e_worker[w].total /\ x.next = j + 1 /\ e_worker[w].pc = "sending"
    <3>1. e_worker[w] \in SendTask
      BY <1>1
    <3> QED
      BY <2>1, <2>2, <3>1 DEF SendTask, Email!HasBatch
  <2>6. Delivered(j)'
    <3>1. CASE Email!HandOver(w)
      BY <2>1, <2>2, <3>1, DeliveredNow
    <3>2. CASE e_withheld' = e_withheld \cup {e_worker[w].next}
      BY <2>2, <3>2 DEF Delivered
    <3> QED
      BY <2>1, <3>1, <3>2
  <2>7. ASSUME NEW v \in Workers, e_worker'[v].pc = "sending", NEW b \in 1..e_worker'[v].total,
               b < e_worker'[v].next
        PROVE  Delivered(b)'
    <3>1. CASE v = w
      <4>1. b \in 1..e_worker[w].total /\ b < j + 1 /\ j \in Nat
        BY <1>1, <2>2, <2>4, <2>5, <2>7, <3>1
      <4>2. b \in 1..Batches /\ (b = j \/ b < j)
        BY <1>1, <4>1
      <4>3. CASE b = j
        BY <2>6, <4>3
      <4>4. CASE b < j
        <5>1. Delivered(b)
          BY <2>2, <2>5, <4>1, <4>4 DEF CountInv
        <5> QED
          BY <1>3, <4>2, <5>1
      <4> QED
        BY <4>2, <4>3, <4>4
    <3>2. CASE v # w
      <4>1. b \in 1..Batches /\ Delivered(b)
        BY <1>1, <2>4, <2>7, <3>2 DEF CountInv
      <4> QED
        BY <1>3, <4>1
    <3> QED
      BY <3>1, <3>2
  <2>8. \A b \in 1..e_count' : Delivered(b)'
    BY <1>1, <1>3, <2>1 DEF CountInv
  <2> QED
    BY <2>7, <2>8 DEF CountInv
<1>7. ASSUME NEW w \in Workers,
             \/ Email!BatchRefused(w) \/ Email!AllSent(w) \/ Email!TaskEnd(w) \/ Email!Crash(w)
      PROVE  CountInv'
  <2>1. e_worker'[w].pc # "sending" /\ \A v \in Workers \ {w} : e_worker'[v] = e_worker[v]
    BY <1>7, TaskCloses
  <2>2. ASSUME NEW v \in Workers, e_worker'[v].pc = "sending", NEW b \in 1..e_worker'[v].total,
               b < e_worker'[v].next
        PROVE  Delivered(b)'
    <3>1. b \in 1..Batches /\ Delivered(b)
      BY <1>1, <2>1, <2>2 DEF CountInv
    <3> QED
      BY <1>3, <3>1
  <2>3. \A b \in 1..e_count' : b \in 1..Batches /\ Delivered(b)
    <3>1. CASE e_count' = e_count
      BY <1>1, <3>1 DEF CountInv
    <3>2. CASE e_count' # e_count
      <4>1. Email!AllSent(w) /\ e_count' = e_worker[w].total
        BY <1>7, <3>2
           DEF Email!BatchRefused, Email!AllSent, Email!Write, Email!TaskEnd, Email!Crash, Email!row
      <4>2. e_worker[w].pc = "sending" /\ e_worker[w].next > e_worker[w].total
        BY <4>1 DEF Email!AllSent
      <4> QED
        BY <1>1, <4>1, <4>2 DEF CountInv
    <3> QED
      BY <3>1, <3>2
  <2>4. \A b \in 1..e_count' : Delivered(b)'
    BY <1>3, <2>3
  <2> QED
    BY <2>2, <2>4 DEF CountInv
<1>8. ASSUME NEW w \in Workers, Email!TaskStartFails(w) PROVE UNCHANGED <<e_count, e_worker>>
  BY <1>8 DEF Email!TaskStartFails, Email!row
<1>9. ASSUME NEW r \in SendRequests,
             Email!SendClaim(r) \/ Email!SendDispatch(r) \/ Email!SendLost(r)
      PROVE  UNCHANGED <<e_count, e_worker>>
  BY <1>9 DEF Email!SendClaim, Email!SendDispatch, Email!SendLost, Email!row
<1>10. ASSUME NEW e \in Editors,
              Email!EditRead(e) \/ Email!UpdateCommit(e) \/ Email!DeleteCommit(e)
       PROVE  UNCHANGED <<e_count, e_worker>>
  BY <1>10 DEF Email!EditRead, Email!UpdateCommit, Email!DeleteCommit, Email!row, Email!send
<1>11. CASE \/ Email!ChangeAudience \/ Email!GenerateCode \/ Email!CodeExpires
            \/ UNCHANGED emailVars
  BY <1>4, <1>11
     DEF Email!ChangeAudience, Email!GenerateCode, Email!CodeExpires, Email!row, Email!send, emailVars
<1> QED
  BY <1>4, <1>5, <1>6, <1>7, <1>8, <1>9, <1>10, <1>11, Zenon DEF Email!Next

LEMMA CountStart == AllInit => CountInv
<1> SUFFICES ASSUME AllInit PROVE CountInv
  OBVIOUS
<1>1. e_count = 0 /\ e_worker = [w \in Workers |-> Email!Idle]
  BY DEF AllInit, Email!Init
<1> QED
  BY <1>1, IdleTask DEF CountInv

(* Of a SENT email, SparkPost took every batch of recipients that the row  *)
(* counts, in some version, or a worker without an API key had it and sent *)
(* it nowhere: through tasks that are delivered again, second sends with   *)
(* another audience, refusals and edits in between (_execute_send,         *)
(* bulk_email_service.py:346-425, with send_html_email,                    *)
(* email_service.py:29-38).                                                *)
THEOREM EmailDelivered == AllSpec => []SentMeansDelivered
<1> DEFINE DeliveryInv == EmailTypes /\ CountInv
<1>1. DeliveryInv => SentMeansDelivered
  BY DEF CountInv, Delivered, SentMeansDelivered, Email!SentMeansDelivered
<1>2. AllInit => DeliveryInv
  BY EmailTypesStart, CountStart
<1>3. DeliveryInv /\ [AllNext]_allVars => DeliveryInv'
  BY EmailMove, EmailTypesStep, CountStep
<1> QED
  BY <1>1, <1>2, <1>3, PTL DEF AllSpec

-----------------------------------------------------------------------------
(* How often a batch was delivered                                         *)

Known == {r \in SendRequests : e_request[r] # "new"}

(* The task x is going to hand over batch b before it is done.             *)
Due(x, b) == x.pc = "sending" /\ x.next <= b

Coming(b) == {w \in Workers : Due(e_worker[w], b)}

(* Whoever may still hand over a batch, and every time it was handed over, *)
(* goes back to an accepted request or to a lost worker.                   *)
OnceInv ==
  \A b \in 1..Batches :
    Len(e_delivered[b]) + Cardinality(Claimed) + e_tasks + Cardinality(Coming(b))
      <= Cardinality(Known) + e_faults

LEMMA Counts ==
  ASSUME EmailTypes, NEW b \in 1..Batches
  PROVE  /\ Len(e_delivered[b]) \in Nat /\ e_tasks \in Nat /\ e_faults \in Nat
         /\ Cardinality(Claimed) \in Nat /\ Cardinality(Known) \in Nat
         /\ IsFiniteSet(Claimed) /\ IsFiniteSet(Known)
         /\ IsFiniteSet(Coming(b)) /\ Cardinality(Coming(b)) \in Nat
<1>1. Known \in SUBSET SendRequests /\ Coming(b) \in SUBSET Workers
  BY DEF Known, Coming
<1>2. IsFiniteSet(Known) /\ IsFiniteSet(Coming(b))
  BY <1>1, Numbers, FS_Subset
<1>3. e_delivered[b] \in Seq(Email!Versions)
  BY DEF EmailTypes
<1>4. e_tasks \in Nat /\ e_faults \in Nat
  BY Numbers DEF EmailTypes
<1> QED
  BY <1>2, <1>3, <1>4, Crowd, FS_CardinalityType, LenProperties

(* When only w moves, only w makes a difference.                           *)
LEMMA ComingCount ==
  ASSUME EmailTypes, NEW w \in Workers, NEW b \in 1..Batches,
         \A v \in Workers \ {w} : e_worker'[v] = e_worker[v]
  PROVE  \E d \in Nat, p, q \in 0..1 :
           /\ p = 1 <=> Due(e_worker[w], b)
           /\ q = 1 <=> Due(e_worker'[w], b)
           /\ Cardinality(Coming(b)) = d + p /\ Cardinality(Coming(b))' = d + q
<1>1. PICK D : D = Coming(b) \ {w}
  OBVIOUS
<1>2. D = Coming(b)' \ {w}
  BY <1>1 DEF Coming, Due
<1>3. IsFiniteSet(D) /\ Cardinality(D) \in Nat
  BY <1>1, Counts, FS_RemoveElement, FS_CardinalityType
<1>4. /\ Due(e_worker[w], b) => Coming(b) = D \cup {w}
      /\ ~Due(e_worker[w], b) => Coming(b) = D
  BY <1>1 DEF Coming
<1>5. /\ Due(e_worker'[w], b) => Coming(b)' = D \cup {w}
      /\ ~Due(e_worker'[w], b) => Coming(b)' = D
  BY <1>2 DEF Coming
<1>6. Cardinality(D \cup {w}) = Cardinality(D) + 1
  BY <1>1, <1>3, FS_AddElement
<1>7. \E p \in 0..1 : (p = 1 <=> Due(e_worker[w], b)) /\ Cardinality(Coming(b)) = Cardinality(D) + p
  <2>1. CASE Due(e_worker[w], b)
    <3>1. Cardinality(Coming(b)) = Cardinality(D) + 1 /\ 1 \in 0..1
      BY <1>4, <1>6, <2>1
    <3> QED
      BY <2>1, <3>1
  <2>2. CASE ~Due(e_worker[w], b)
    <3>1. Cardinality(Coming(b)) = Cardinality(D) + 0 /\ 0 \in 0..1 /\ 0 # 1
      BY <1>3, <1>4, <2>2
    <3> QED
      BY <2>2, <3>1
  <2> QED
    BY <2>1, <2>2
<1>8. \E q \in 0..1 : (q = 1 <=> Due(e_worker'[w], b)) /\ Cardinality(Coming(b))' = Cardinality(D) + q
  <2>1. CASE Due(e_worker'[w], b)
    <3>1. Cardinality(Coming(b))' = Cardinality(D) + 1 /\ 1 \in 0..1
      <4>1. Coming(b)' = D \cup {w}
        BY <1>5, <2>1
      <4>2. Cardinality(Coming(b))' = Cardinality(D \cup {w})
        BY <4>1
      <4> QED
        BY <1>6, <4>2
    <3> QED
      BY <2>1, <3>1
  <2>2. CASE ~Due(e_worker'[w], b)
    <3>1. Cardinality(Coming(b))' = Cardinality(D) + 0 /\ 0 \in 0..1 /\ 0 # 1
      BY <1>3, <1>5, <2>2
    <3> QED
      BY <2>2, <3>1
  <2> QED
    BY <2>1, <2>2
<1> QED
  BY <1>3, <1>7, <1>8

(* What a worker hands over or gives back is less than what it took, but   *)
(* for the message of a lost worker.                                       *)
Gain(w, b, p, q) ==
  Len(e_delivered'[b]) + e_tasks' + q + e_faults
    <= Len(e_delivered[b]) + e_tasks + p + e_faults'

LEMMA WorkerGains ==
  ASSUME EmailTypes, NEW w \in Workers, NEW b \in 1..Batches,
         NEW p \in 0..1, p = 1 <=> Due(e_worker[w], b),
         NEW q \in 0..1, q = 1 <=> Due(e_worker'[w], b),
         \/ Email!TaskStart(w) \/ Email!TaskStartFails(w) \/ Email!SendBatch(w)
         \/ Email!BatchRefused(w) \/ Email!AllSent(w) \/ Email!TaskEnd(w) \/ Email!Crash(w)
  PROVE  Gain(w, b, p, q)
<1>1. /\ Len(e_delivered[b]) \in Nat /\ e_tasks \in Nat /\ e_faults \in Nat /\ b \in Nat
      /\ e_worker[w].next \in Nat
  <2>1. Len(e_delivered[b]) \in Nat /\ e_tasks \in Nat /\ e_faults \in Nat
    BY Counts
  <2>2. b \in Nat /\ e_worker[w] \in SendTask
    BY Numbers DEF EmailTypes
  <2> QED
    BY <2>1, <2>2 DEF SendTask
<1>2. PICK n, t, f \in Nat : n = Len(e_delivered[b]) /\ t = e_tasks /\ f = e_faults
  BY <1>1
<1>3. ASSUME NEW m \in Nat, NEW u \in Nat, NEW g \in Nat,
             m = Len(e_delivered'[b]), u = e_tasks', g = e_faults',
             m + u + q + f <= n + t + p + g
      PROVE  Gain(w, b, p, q)
  BY <1>2, <1>3 DEF Gain
<1>4. CASE Email!TaskStart(w)
  <2>1. /\ UNCHANGED <<e_delivered, e_faults>> /\ e_tasks > 0 /\ e_tasks' = e_tasks - 1
        /\ e_worker[w].pc = "idle"
    BY <1>4, Zenon DEF Email!TaskStart
  <2>2. p = 0 /\ t - 1 \in Nat /\ n + (t - 1) + q + f <= n + t + p + f
    BY <1>2, <2>1 DEF Due
  <2> QED
    BY <1>2, <1>3, <2>1, <2>2
<1>5. CASE Email!TaskStartFails(w)
  <2>1. /\ UNCHANGED <<e_delivered, e_worker>> /\ e_tasks > 0 /\ e_tasks' = e_tasks - 1
        /\ e_faults' = e_faults + 1
    BY <1>5, Zenon DEF Email!TaskStartFails
  <2>2. q = p
    BY <2>1
  <2>3. t - 1 \in Nat /\ f + 1 \in Nat /\ n + (t - 1) + q + f <= n + t + p + (f + 1)
    <3>1. t \in Nat \ {0}
      BY <1>2, <2>1
    <3>2. t - 1 \in Nat /\ f + 1 \in Nat
      BY <3>1
    <3>3. n + (t - 1) + p + f <= n + t + p + (f + 1)
      BY <3>1
    <3> QED
      BY <2>2, <3>2, <3>3
  <2> QED
    BY <1>2, <1>3, <2>1, <2>3
<1>6. CASE Email!SendBatch(w)
  <2>1. /\ UNCHANGED <<e_tasks, e_faults>> /\ Email!HasBatch(w)
        /\ e_delivered' = e_delivered \/ Email!HandOver(w)
        /\ e_worker[w].pc = "sending"
    BY <1>6, Zenon DEF Email!SendBatch, Email!HasBatch
  <2>2. Len(e_delivered'[b]) = n \/ (Len(e_delivered'[b]) = n + 1 /\ b = e_worker[w].next)
    BY <1>2, <2>1, HandedOver
  <2>3. e_worker'[w].next = e_worker[w].next + 1
    <3>1. e_worker[w] \in SendTask
      BY DEF EmailTypes
    <3>2. PICK x : x = [e_worker[w] EXCEPT !.next = e_worker[w].next + 1]
      OBVIOUS
    <3>3. e_worker' = [e_worker EXCEPT ![w] = x]
      BY <1>6, <3>2, Zenon DEF Email!SendBatch
    <3>4. x.next = e_worker[w].next + 1
      BY <3>1, <3>2 DEF SendTask
    <3> QED
      BY <3>3, <3>4, WorkerMoves
  <2>4. CASE b = e_worker[w].next
    <3>1. p = 1 /\ q = 0
      BY <1>1, <2>1, <2>3, <2>4 DEF Due
    <3>2. /\ n + 1 \in Nat /\ (n + 1) + t + q + f <= n + t + p + f
          /\ n + t + q + f <= n + t + p + f
      BY <3>1
    <3> QED
      BY <1>2, <1>3, <2>1, <2>2, <2>4, <3>2
  <2>5. CASE b # e_worker[w].next
    <3>1. q = 1 => p = 1
      BY <1>1, <2>1, <2>3 DEF Due
    <3>2. n + t + q + f <= n + t + p + f
      BY <3>1
    <3> QED
      BY <1>2, <1>3, <2>1, <2>2, <2>5, <3>2
  <2> QED
    BY <2>4, <2>5
<1>7. CASE Email!BatchRefused(w)
  <2>1. /\ UNCHANGED <<e_tasks, e_faults>> /\ Email!HasBatch(w) /\ e_worker[w].pc = "sending"
        /\ e_delivered' = e_delivered \/ Email!HandOver(w)
    BY <1>7, Zenon DEF Email!BatchRefused, Email!HasBatch
  <2>2. Len(e_delivered'[b]) = n \/ (Len(e_delivered'[b]) = n + 1 /\ b = e_worker[w].next)
    BY <1>2, <2>1, HandedOver
  <2>3. e_worker'[w].pc # "sending"
    BY <1>7, TaskCloses
  <2>4. q = 0 /\ (b = e_worker[w].next => p = 1)
    BY <1>1, <2>1, <2>3 DEF Due
  <2>5. n + t + q + f <= n + t + p + f
    BY <2>4
  <2>6. b = e_worker[w].next => n + 1 \in Nat /\ (n + 1) + t + q + f <= n + t + p + f
    BY <2>4
  <2> QED
    BY <1>2, <1>3, <2>1, <2>2, <2>5, <2>6
<1>8. CASE Email!AllSent(w) \/ Email!TaskEnd(w)
  <2>1. UNCHANGED <<e_delivered, e_tasks, e_faults>>
    BY <1>8, Zenon DEF Email!AllSent, Email!TaskEnd
  <2>2. e_worker'[w].pc # "sending"
    BY <1>8, TaskCloses
  <2>3. q = 0 /\ n + t + q + f <= n + t + p + f
    BY <2>2 DEF Due
  <2> QED
    BY <1>2, <1>3, <2>1, <2>3
<1>9. CASE Email!Crash(w)
  <2>1. UNCHANGED e_delivered /\ e_tasks' = e_tasks + 1 /\ e_faults' = e_faults + 1
    BY <1>9, Zenon DEF Email!Crash
  <2>2. e_worker'[w].pc # "sending"
    BY <1>9, TaskCloses
  <2>3. q = 0
    BY <2>2 DEF Due
  <2>4. t + 1 \in Nat /\ f + 1 \in Nat /\ n + (t + 1) + q + f <= n + t + p + (f + 1)
    BY <2>3
  <2> QED
    BY <1>2, <1>3, <2>1, <2>4
<1> QED
  BY <1>4, <1>5, <1>6, <1>7, <1>8, <1>9

(* The sums that the steps leave below what was accepted and lost.         *)
LEMMA Balance ==
  ASSUME NEW n \in Nat, NEW c \in Nat, NEW t \in Nat, NEW d \in Nat, NEW k \in Nat, NEW f \in Nat,
         NEW p \in 0..1, NEW q \in 0..1, NEW m \in Nat, NEW u \in Nat, NEW g \in Nat,
         n + c + t + (d + p) <= k + f, m + u + q + f <= n + t + p + g
  PROVE  m + c + u + (d + q) <= k + g
OBVIOUS

LEMMA WorkerOnce ==
  ASSUME EmailTypes, EmailTypes', OnceInv, NEW w \in Workers,
         \/ Email!TaskStart(w) \/ Email!TaskStartFails(w) \/ Email!SendBatch(w)
         \/ Email!BatchRefused(w) \/ Email!AllSent(w) \/ Email!TaskEnd(w) \/ Email!Crash(w)
  PROVE  OnceInv'
<1>1. e_request' = e_request
  BY Zenon DEF Email!TaskStart, Email!TaskStartFails, Email!SendBatch, Email!BatchRefused,
               Email!AllSent, Email!TaskEnd, Email!Crash
<1>2. \A v \in Workers \ {w} : e_worker'[v] = e_worker[v]
  <2>1. CASE Email!TaskStartFails(w)
    BY <2>1, Zenon DEF Email!TaskStartFails
  <2>2. CASE Email!TaskStart(w)
    BY <2>2, TaskBegins
  <2> QED
    BY <2>1, <2>2, BatchGoes, TaskCloses
<1>3. Claimed' = Claimed /\ Known' = Known
  BY <1>1 DEF Claimed, Known
<1>4. ASSUME NEW b \in 1..Batches
      PROVE  Len(e_delivered'[b]) + Cardinality(Claimed)' + e_tasks' + Cardinality(Coming(b))'
               <= Cardinality(Known)' + e_faults'
  <2>1. PICK d \in Nat, p, q \in 0..1 :
          /\ p = 1 <=> Due(e_worker[w], b)
          /\ q = 1 <=> Due(e_worker'[w], b)
          /\ Cardinality(Coming(b)) = d + p /\ Cardinality(Coming(b))' = d + q
    BY <1>2, ComingCount
  <2>2. PICK n, c, k \in Nat :
          n = Len(e_delivered[b]) /\ c = Cardinality(Claimed) /\ k = Cardinality(Known)
    BY Counts
  <2>3. PICK m \in Nat : m = Len(e_delivered'[b])
    <3>1. e_delivered'[b] \in Seq(Email!Versions)
      BY DEF EmailTypes, Email!Versions
    <3> QED
      BY <3>1, LenProperties
  <2>4. PICK t, f, u, g \in Nat : t = e_tasks /\ f = e_faults /\ u = e_tasks' /\ g = e_faults'
    BY Numbers DEF EmailTypes
  <2>5. n + c + t + (d + p) <= k + f
    BY <2>1, <2>2, <2>4 DEF OnceInv
  <2>6. m + u + q + f <= n + t + p + g
    BY <2>1, <2>2, <2>3, <2>4, WorkerGains DEF Gain
  <2>7. m + c + u + (d + q) <= k + g
    BY <2>5, <2>6, Balance
  <2>8. Cardinality(Claimed)' = c /\ Cardinality(Known)' = k
    BY <1>3, <2>2
  <2> QED
    BY <2>1, <2>3, <2>4, <2>7, <2>8
<1> QED
  BY <1>4 DEF OnceInv

(* A request that is accepted, and one that sends its task or dies.        *)
LEMMA RequestOnce ==
  ASSUME EmailTypes, OnceInv, NEW r \in SendRequests,
         Email!SendClaim(r) \/ Email!SendDispatch(r) \/ Email!SendLost(r)
  PROVE  OnceInv'
<1>1. UNCHANGED <<e_delivered, e_worker>>
  BY Zenon DEF Email!SendClaim, Email!SendDispatch, Email!SendLost
<1>2. e_request \in [SendRequests -> {"new", "claimed", "done"}]
  BY DEF EmailTypes
<1>3. ASSUME NEW b \in 1..Batches
      PROVE  Len(e_delivered'[b]) + Cardinality(Claimed)' + e_tasks' + Cardinality(Coming(b))'
               <= Cardinality(Known)' + e_faults'
  <2>1. PICK n, c, k, d \in Nat :
          /\ n = Len(e_delivered[b]) /\ c = Cardinality(Claimed)
          /\ k = Cardinality(Known) /\ d = Cardinality(Coming(b))
    BY Counts
  <2>2. PICK t, f \in Nat : t = e_tasks /\ f = e_faults
    BY Counts
  <2>3. n + c + t + d <= k + f
    BY <2>1, <2>2 DEF OnceInv
  <2>4. Len(e_delivered'[b]) = n /\ Cardinality(Coming(b))' = d
    <3>1. Coming(b)' = Coming(b)
      BY <1>1 DEF Coming, Due
    <3> QED
      BY <1>1, <2>1, <3>1
  <2>5. CASE Email!SendClaim(r)
    <3>1. /\ UNCHANGED <<e_tasks, e_faults>> /\ e_request[r] = "new"
          /\ e_request' = [e_request EXCEPT ![r] = "claimed"]
      BY <2>5, Zenon DEF Email!SendClaim
    <3>2. /\ r \notin Claimed /\ Claimed' = Claimed \cup {r}
          /\ r \notin Known /\ Known' = Known \cup {r}
      BY <1>2, <3>1 DEF Claimed, Known
    <3>3. Cardinality(Claimed \cup {r}) = c + 1 /\ Cardinality(Known \cup {r}) = k + 1
      BY <2>1, <3>2, Counts, FS_AddElement
    <3>4. Cardinality(Claimed)' = c + 1 /\ Cardinality(Known)' = k + 1
      BY <3>2, <3>3
    <3>5. n + (c + 1) + t + d <= (k + 1) + f
      BY <2>3
    <3> QED
      BY <2>2, <2>4, <3>1, <3>4, <3>5
  <2>6. CASE Email!SendDispatch(r) \/ Email!SendLost(r)
    <3>1. /\ e_request[r] = "claimed" /\ e_request' = [e_request EXCEPT ![r] = "done"]
          /\ \/ e_tasks' = e_tasks + 1 /\ e_faults' = e_faults
             \/ e_tasks' = e_tasks /\ e_faults' = e_faults + 1
      BY <2>6, Zenon DEF Email!SendDispatch, Email!SendLost
    <3>2. r \in Claimed /\ Claimed' = Claimed \ {r} /\ Known' = Known
      BY <1>2, <3>1 DEF Claimed, Known
    <3>3. Cardinality(Claimed \ {r}) = c - 1
      BY <2>1, <3>2, Counts, FS_RemoveElement
    <3>4. Cardinality(Claimed)' = c - 1 /\ Cardinality(Known)' = k
      BY <2>1, <3>2, <3>3
    <3>5. n + (c - 1) + (t + 1) + d <= k + f
      BY <2>3
    <3>6. n + (c - 1) + t + d <= k + (f + 1)
      BY <2>3
    <3> QED
      BY <2>2, <2>4, <3>1, <3>4, <3>5, <3>6
  <2> QED
    BY <2>5, <2>6
<1> QED
  BY <1>3 DEF OnceInv

LEMMA OnceStep ==
  ASSUME EmailTypes, OnceInv, [Email!Next]_emailVars
  PROVE  OnceInv'
<1>1. EmailTypes'
  BY EmailTypesStep
<1>2. CASE UNCHANGED <<e_delivered, e_request, e_tasks, e_worker, e_faults>>
  BY <1>2 DEF OnceInv, Claimed, Known, Coming, Due
<1>3. ASSUME NEW e \in Editors,
             Email!EditRead(e) \/ Email!UpdateCommit(e) \/ Email!DeleteCommit(e)
      PROVE  UNCHANGED <<e_delivered, e_request, e_tasks, e_worker, e_faults>>
  BY <1>3 DEF Email!EditRead, Email!UpdateCommit, Email!DeleteCommit, Email!send
<1>4. CASE Email!ChangeAudience \/ Email!GenerateCode \/ Email!CodeExpires \/ UNCHANGED emailVars
  BY <1>2, <1>4
     DEF Email!ChangeAudience, Email!GenerateCode, Email!CodeExpires, Email!send, emailVars
<1> QED
  BY <1>1, <1>2, <1>3, <1>4, WorkerOnce, RequestOnce, Zenon DEF Email!Next

LEMMA OnceStart == AllInit => OnceInv
<1> SUFFICES ASSUME AllInit PROVE OnceInv
  OBVIOUS
<1>1. /\ e_delivered = [b \in 1..Batches |-> <<>>] /\ e_request = [r \in SendRequests |-> "new"]
      /\ e_tasks = 0 /\ e_worker = [w \in Workers |-> Email!Idle] /\ e_faults = 0
  BY DEF AllInit, Email!Init
<1>2. Claimed = {} /\ Known = {} /\ \A b \in 1..Batches : Coming(b) = {}
  BY <1>1, IdleTask DEF Claimed, Known, Coming, Due
<1>3. Cardinality({}) = 0
  BY FS_EmptySet
<1>4. \A b \in 1..Batches : Len(e_delivered[b]) = 0
  BY <1>1
<1>5. /\ Cardinality(Claimed) = 0 /\ Cardinality(Known) = 0
      /\ \A b \in 1..Batches : Cardinality(Coming(b)) = 0
  BY <1>2, <1>3
<1> QED
  BY <1>1, <1>4, <1>5 DEF OnceInv

(* A batch of recipients goes out once per accepted POST /send and once    *)
(* more per lost worker, and no further: send_bulk_email_task does "not    *)
(* retry to avoid re-sending partially delivered batches"                  *)
(* (bulk_email_send.py:39-41).                                             *)
THEOREM EmailDeliveredOnce == AllSpec => []DeliveredOncePerSend
<1> DEFINE DeliveryInv == EmailTypes /\ OnceInv
<1>1. DeliveryInv => DeliveredOncePerSend
  <2> SUFFICES ASSUME EmailTypes, OnceInv, NEW b \in 1..Batches
               PROVE  Len(e_delivered[b]) <= Email!Cardinality(Email!Claims) + e_faults
    BY DEF DeliveredOncePerSend, Email!DeliveredOncePerSend
  <2>1. Email!Claims = Known /\ Email!Cardinality(Known) = Cardinality(Known)
    BY SameSize DEF Email!Claims, Known
  <2>2. Len(e_delivered[b]) <= Cardinality(Known) + e_faults
    BY Counts DEF OnceInv
  <2> QED
    BY <2>1, <2>2
<1>2. AllInit => DeliveryInv
  BY EmailTypesStart, OnceStart
<1>3. DeliveryInv /\ [AllNext]_allVars => DeliveryInv'
  BY EmailMove, EmailTypesStep, OnceStep
<1> QED
  BY <1>1, <1>2, <1>3, PTL DEF AllSpec

-----------------------------------------------------------------------------
(* The images of the scripts                                               *)

LEMMA ScriptsMove == [AllNext]_allVars => [Scripts!Next]_scriptsVars
BY DEF AllNext, Frame, allVars

ScriptStates == {"PENDING", "BUILDING", "SUCCESS", "FAIL", "FAILED"}

ScriptRow == [live : BOOLEAN, status : ScriptStates, config : Nat]

Upload == [op : {"idle", "saved", "commit", "push", "dispatch"}, id : Nat, config : Nat,
           seen : ScriptStates]

Building == [op : {"idle", "fetched", "building", "pushing", "verify", "built", "failed"},
             id : Nat, archive : Nat, seen : ScriptStates, unread : BOOLEAN, moved : BOOLEAN,
             attempt : Nat]

RowCount == Len(b_rows)

BuildTypes ==
  /\ b_rows \in Seq(ScriptRow) /\ b_messages \in Seq(Nat)
  /\ b_file \in Nat /\ b_archive \in Nat /\ b_image \in Nat /\ b_uploads \in Nat
  /\ b_request \in [Workers -> Upload] /\ b_build \in [Builders -> Building]

Living(n) == n \in 1..RowCount /\ b_rows[n].live

Waits(n) == \E k \in 1..Len(b_messages) : b_messages[k] = n

(* Somebody is going to build what is in the archive now.                  *)
ToBuild(n) == Waits(n) \/ \E t \in Workers : b_request[t].op = "dispatch" /\ b_request[t].id = n

Busy(b) == b_build[b].op # "idle"

(* A slug is that of one script, and nobody deletes it under an upload.    *)
UploadInv ==
  /\ \A n, m \in 1..RowCount : Living(n) /\ Living(m) => n = m
  /\ \A t \in Workers :
       LET r == b_request[t] IN
       /\ r.op # "idle" => b_file # 0
       /\ r.op = "dispatch" => b_archive # 0
       /\ r.op \in {"push", "dispatch"} => Living(r.id)
       /\ r.op # "idle" /\ r.id # 0 => Living(r.id)
  /\ b_messages # <<>> => b_archive # 0

(* What a builder does goes into the image, and to the row if it is there; *)
(* what it fetched is the archive, or there is another build to come. It   *)
(* has read the digest before its push: not to read it is a failure.       *)
Builds(r) ==
  IF Living(r.id)
  THEN /\ b_rows[r.id].status = IF r.op = "fetched" THEN r.seen ELSE "BUILDING"
       /\ r.archive = b_archive \/ ToBuild(r.id)
  ELSE \A n \in 1..RowCount : Living(n) => b_rows[n].status = "PENDING"

BuilderInv ==
  /\ \A b, c \in Builders : Busy(b) /\ Busy(c) => b = c
  /\ \A b \in Builders :
       LET r == b_build[b] IN
       Busy(b) =>
         /\ r.id \in 1..RowCount /\ Builds(r) /\ b_archive # 0 /\ ~r.unread
         /\ r.moved \/ r.op = "built" => b_image = r.archive

StatusInv ==
  \A n \in 1..RowCount :
    /\ Living(n)
    /\ \/ b_rows[n].status = "BUILDING"
       \/ b_rows[n].status = "SUCCESS" /\ b_image # b_archive
    => ToBuild(n) \/ \E b \in Builders : Busy(b) /\ b_build[b].id = n

(* Uploads one after the other: the file is that of the one under way.     *)
ConfigInv ==
  /\ \A t, u \in Workers : b_request[t].op # "idle" /\ b_request[u].op # "idle" => t = u
  /\ \A t \in Workers :
       LET r == b_request[t] IN
       /\ r.op = "commit" => r.config = b_file
       /\ r.op = "push" => b_rows[r.id].config = b_file
  /\ \A n \in 1..RowCount :
       Living(n) => \/ b_rows[n].config = b_archive
                    \/ \E t \in Workers : b_request[t].op = "push" /\ b_request[t].id = n

BuildsInv ==
  /\ BuildTypes
  /\ b_mixed \subseteq {"uploads"} =>
       /\ UploadInv /\ BuilderInv /\ StatusInv
       /\ b_mixed = {} => ConfigInv

-----------------------------------------------------------------------------
(* Rows, requests and builds                                               *)

LEMMA RowNumbers ==
  ASSUME BuildTypes
  PROVE  /\ RowCount \in Nat /\ DOMAIN b_rows = 1..RowCount /\ Scripts!Ids = 1..RowCount
         /\ \A n \in 1..RowCount : b_rows[n] \in ScriptRow
         /\ \A n : Scripts!Live(n) <=> Living(n)
<1>1. /\ RowCount \in Nat /\ DOMAIN b_rows = 1..RowCount /\ Scripts!Ids = 1..RowCount
      /\ \A n \in 1..RowCount : b_rows[n] \in ScriptRow
  BY LenProperties, ElementOfSeq DEF BuildTypes, RowCount, Scripts!Ids
<1> QED
  BY <1>1 DEF Scripts!Live, Living

LEMMA MessageNumbers ==
  ASSUME BuildTypes
  PROVE  /\ Len(b_messages) \in Nat /\ (b_messages # <<>> <=> Len(b_messages) > 0)
         /\ \A k \in 1..Len(b_messages) : b_messages[k] \in Nat
<1>1. Len(b_messages) \in Nat /\ \A k \in 1..Len(b_messages) : b_messages[k] \in Nat
  BY LenProperties, ElementOfSeq DEF BuildTypes
<1>2. b_messages # <<>> <=> Len(b_messages) # 0
  BY EmptySeq DEF BuildTypes
<1> QED
  BY <1>1, <1>2

LEMMA NothingUnderWay ==
  /\ Scripts!NoRequest = [op |-> "idle", id |-> 0, config |-> 0, seen |-> "PENDING"]
  /\ Scripts!NoRequest \in Upload /\ Scripts!NoRequest.op = "idle" /\ Scripts!NoRequest.id = 0
  /\ Scripts!NoBuild = [op |-> "idle", id |-> 0, archive |-> 0, seen |-> "PENDING",
                        unread |-> FALSE, moved |-> FALSE, attempt |-> 0]
  /\ Scripts!NoBuild \in Building /\ Scripts!NoBuild.op = "idle"
  /\ ~Scripts!NoBuild.moved /\ ~Scripts!NoBuild.unread
BY DEF Scripts!NoRequest, Scripts!NoBuild, Upload, Building, ScriptStates

LEMMA BuildsStart == AllInit => BuildsInv
<1> SUFFICES ASSUME AllInit PROVE BuildsInv
  OBVIOUS
<1>1. /\ b_rows = <<>> /\ b_file = 0 /\ b_archive = 0 /\ b_image = 0 /\ b_messages = <<>>
      /\ b_request = [t \in Workers |-> Scripts!NoRequest]
      /\ b_build = [b \in Builders |-> Scripts!NoBuild] /\ b_uploads = 0 /\ b_mixed = {}
  BY DEF AllInit, Scripts!Init
<1>2. /\ \A t \in Workers : b_request[t] \in Upload /\ b_request[t].op = "idle"
      /\ \A b \in Builders : b_build[b] \in Building /\ b_build[b].op = "idle"
  BY <1>1, NothingUnderWay
<1>3. b_request \in [Workers -> Upload] /\ b_build \in [Builders -> Building]
  BY <1>1, NothingUnderWay
<1>4. BuildTypes /\ RowCount = 0
  BY <1>1, <1>3 DEF BuildTypes, RowCount
<1>5. UploadInv /\ ConfigInv
  BY <1>1, <1>2, <1>4 DEF UploadInv, ConfigInv
<1>6. BuilderInv /\ StatusInv
  BY <1>2, <1>4 DEF BuilderInv, StatusInv, Busy
<1> QED
  BY <1>1, <1>4, <1>5, <1>6 DEF BuildsInv

(* A thread goes on. *)
LEMMA RequestSet ==
  ASSUME BuildTypes, NEW t \in Workers, NEW x \in Upload, Scripts!Then(t, x)
  PROVE  /\ b_request' \in [Workers -> Upload]
         /\ b_request'[t] = x /\ \A u \in Workers : u # t => b_request'[u] = b_request[u]
BY DEF BuildTypes, Scripts!Then

(* A builder goes on. *)
LEMMA BuildSet ==
  ASSUME BuildTypes, NEW b \in Builders, NEW x \in Building, Scripts!Now(b, x)
  PROVE  /\ b_build' \in [Builders -> Building]
         /\ b_build'[b] = x /\ \A c \in Builders : c # b => b_build'[c] = b_build[c]
BY DEF BuildTypes, Scripts!Now

LEMMA RowRewritten ==
  ASSUME BuildTypes, NEW n \in 1..RowCount, NEW r \in ScriptRow, b_rows' = [b_rows EXCEPT ![n] = r]
  PROVE  /\ b_rows' \in Seq(ScriptRow) /\ RowCount' = RowCount
         /\ b_rows'[n] = r /\ \A m \in 1..RowCount : m # n => b_rows'[m] = b_rows[m]
<1>1. b_rows \in Seq(ScriptRow) /\ n \in DOMAIN b_rows /\ DOMAIN b_rows = 1..RowCount
  BY RowNumbers DEF BuildTypes
<1>2. b_rows' \in Seq(ScriptRow) /\ RowCount' = RowCount
  BY <1>1, ExceptSeq DEF RowCount
<1> QED
  BY <1>1, <1>2

LEMMA StatusWritten ==
  ASSUME BuildTypes, NEW n \in 1..RowCount, NEW s \in ScriptStates,
         b_rows' = [b_rows EXCEPT ![n].status = s]
  PROVE  /\ b_rows' \in Seq(ScriptRow) /\ RowCount' = RowCount
         /\ b_rows'[n].status = s /\ (b_rows'[n].live <=> b_rows[n].live)
         /\ b_rows'[n].config = b_rows[n].config
         /\ \A m \in 1..RowCount : m # n => b_rows'[m] = b_rows[m]
<1>1. b_rows[n] \in ScriptRow
  BY RowNumbers
<1>2. PICK r : r = [b_rows[n] EXCEPT !.status = s]
  OBVIOUS
<1>3. r \in ScriptRow /\ r.status = s /\ (r.live <=> b_rows[n].live) /\ r.config = b_rows[n].config
  BY <1>1, <1>2 DEF ScriptRow
<1>4. b_rows' = [b_rows EXCEPT ![n] = r]
  BY <1>2, Zenon
<1> QED
  BY <1>3, <1>4, RowRewritten

LEMMA Appended ==
  ASSUME BuildTypes, NEW n \in Nat, b_messages' = Append(b_messages, n)
  PROVE  /\ b_messages' \in Seq(Nat)
         /\ Waits(n)' /\ \A m : Waits(m) => Waits(m)'
<1>1. PICK k \in Nat : k = Len(b_messages)
  BY MessageNumbers
<1>2. /\ b_messages' \in Seq(Nat) /\ Len(b_messages') = k + 1 /\ b_messages'[k + 1] = n
      /\ \A i \in 1..k : b_messages'[i] = b_messages[i]
  BY <1>1, AppendProperties DEF BuildTypes
<1> QED
  BY <1>1, <1>2 DEF Waits

LEMMA Taken ==
  ASSUME BuildTypes, b_messages # <<>>, b_messages' = Tail(b_messages)
  PROVE  /\ b_messages' \in Seq(Nat) /\ Head(b_messages) \in Nat
         /\ \A m : Waits(m) => m = Head(b_messages) \/ Waits(m)'
<1>1. PICK k \in Nat : k = Len(b_messages) /\ k > 0
  BY MessageNumbers
<1>2. /\ b_messages' \in Seq(Nat) /\ Len(b_messages') = k - 1 /\ Head(b_messages) = b_messages[1]
      /\ Head(b_messages) \in Nat
      /\ \A i \in 1..(k - 1) : b_messages'[i] = b_messages[i + 1]
  BY <1>1, HeadTailProperties DEF BuildTypes
<1>3. ASSUME NEW m, NEW i \in 1..k, b_messages[i] = m, i # 1
      PROVE  Waits(m)'
  <2>1. i - 1 \in 1..(k - 1) /\ (i - 1) + 1 = i
    BY <1>3
  <2>2. b_messages'[i - 1] = m
    BY <1>2, <1>3, <2>1
  <2> QED
    BY <1>2, <2>1, <2>2 DEF Waits
<1> QED
  BY <1>1, <1>2, <1>3 DEF Waits

-----------------------------------------------------------------------------
(* Uploads                                                                 *)

Clean == b_mixed \subseteq {"uploads"}
BuildsSound == UploadInv /\ BuilderInv /\ StatusInv

(* The builders and their rows do not see it.                              *)
LEMMA BuildersRest ==
  ASSUME BuilderInv, StatusInv, UNCHANGED <<b_rows, b_build, b_image, b_archive>>,
         \A n : Living(n) /\ ToBuild(n) => ToBuild(n)'
  PROVE  BuilderInv' /\ StatusInv'
<1>1. RowCount' = RowCount /\ \A n : Living(n)' <=> Living(n)
  BY DEF RowCount, Living
<1>2. BuilderInv'
  <2>1. \A b \in Builders : Busy(b)' <=> Busy(b)
    BY DEF Busy
  <2>2. \A b \in Builders : Builds(b_build[b]) => Builds(b_build[b])'
    BY <1>1 DEF Builds
  <2> QED
    BY <1>1, <2>1, <2>2 DEF BuilderInv
<1>3. StatusInv'
  BY <1>1 DEF StatusInv, Busy
<1> QED
  BY <1>2, <1>3

(* A thread that was not about to send its message goes on.                *)
LEMMA MessagesStay ==
  ASSUME BuildTypes, NEW t \in Workers, b_request[t].op # "dispatch", UNCHANGED b_messages,
         \A u \in Workers : u # t => b_request'[u] = b_request[u]
  PROVE  \A n : ToBuild(n) => ToBuild(n)'
BY DEF ToBuild, Waits

LEMMA SaveKeeps ==
  ASSUME BuildsInv, NEW t \in Workers, NEW n \in Nat, n # 0 => Living(n), Scripts!Save(t, n)
  PROVE  BuildsInv'
<1>1. BuildTypes
  BY DEF BuildsInv
<1>2. PICK a : a = [Scripts!NoRequest EXCEPT !.op = "saved"]
  OBVIOUS
<1>3. PICK x : x = [a EXCEPT !.id = n]
  OBVIOUS
<1>4. Scripts!Then(t, x)
  BY <1>2, <1>3, Zenon DEF Scripts!Save
<1>5. a \in Upload /\ a.op = "saved"
  BY <1>2, NothingUnderWay DEF Upload
<1>6. x \in Upload /\ x.op = "saved" /\ x.id = n
  BY <1>3, <1>5 DEF Upload
<1>7. /\ b_request' \in [Workers -> Upload]
      /\ b_request'[t] = x /\ \A u \in Workers : u # t => b_request'[u] = b_request[u]
  BY <1>1, <1>4, <1>6, RequestSet
<1>8. /\ UNCHANGED <<b_rows, b_archive, b_image, b_messages, b_build>>
      /\ b_file' = b_uploads + 1 /\ b_uploads' = b_uploads + 1 /\ b_request[t].op = "idle"
      /\ b_mixed' = b_mixed \cup {k \in {"uploads"} : \E u \in Workers : b_request[u].op # "idle"}
  BY DEF Scripts!Save
<1>9. BuildTypes'
  BY <1>1, <1>7, <1>8 DEF BuildTypes
<1>10. ASSUME Clean' PROVE BuildsSound'
  <2>1. BuildsSound
    BY <1>8, <1>10 DEF Clean, BuildsInv, BuildsSound
  <2>2. \A m : ToBuild(m) => ToBuild(m)'
    BY <1>1, <1>7, <1>8, MessagesStay
  <2>3. BuilderInv' /\ StatusInv'
    BY <1>8, <2>1, <2>2, BuildersRest DEF BuildsSound
  <2>4. UploadInv'
    <3>1. b_file' # 0
      BY <1>1, <1>8 DEF BuildTypes
    <3>2. RowCount' = RowCount /\ \A m : Living(m)' <=> Living(m)
      BY <1>8 DEF RowCount, Living
    <3> QED
      BY <1>6, <1>7, <1>8, <2>1, <3>1, <3>2 DEF BuildsSound, UploadInv
  <2> QED
    BY <2>3, <2>4 DEF BuildsSound
<1>11. ASSUME b_mixed' = {} PROVE ConfigInv'
  <2>1. b_mixed = {} /\ \A u \in Workers : b_request[u].op = "idle"
    BY <1>8, <1>11
  <2>2. ConfigInv
    BY <2>1 DEF BuildsInv
  <2>3. RowCount' = RowCount /\ \A m : Living(m)' <=> Living(m)
    BY <1>8 DEF RowCount, Living
  <2>4. \A u \in Workers : u # t => b_request'[u].op = "idle"
    BY <1>7, <2>1
  <2> QED
    BY <1>6, <1>7, <1>8, <2>1, <2>2, <2>3, <2>4 DEF ConfigInv
<1> QED
  BY <1>9, <1>10, <1>11 DEF BuildsInv, BuildsSound, Clean

(* The thread gives up, or reads the file that it saved.                   *)
LEMMA ReadConfigKeeps ==
  ASSUME BuildsInv, NEW t \in Workers, Scripts!ReadConfig(t)
  PROVE  BuildsInv'
<1>1. BuildTypes
  BY DEF BuildsInv
<1>2. PICK r \in Upload : r = b_request[t] /\ r.op = "saved"
  BY <1>1 DEF BuildTypes, Scripts!ReadConfig
<1>3. PICK a : a = [r EXCEPT !.op = "commit"]
  OBVIOUS
<1>4. PICK y : y = [a EXCEPT !.config = b_file]
  OBVIOUS
<1>5. Scripts!Then(t, Scripts!NoRequest) \/ Scripts!Then(t, y)
  BY <1>2, <1>3, <1>4, Zenon DEF Scripts!ReadConfig
<1>6. a \in Upload /\ a.op = "commit" /\ a.id = r.id
  BY <1>3 DEF Upload
<1>7. y \in Upload /\ y.op = "commit" /\ y.id = r.id /\ y.config = b_file
  BY <1>1, <1>4, <1>6 DEF Upload, BuildTypes
<1>8. PICK x \in Upload : /\ Scripts!Then(t, x)
                          /\ x.op = "idle" \/ (x.op = "commit" /\ x.id = r.id /\ x.config = b_file)
  BY <1>5, <1>7, NothingUnderWay
<1>9. /\ b_request' \in [Workers -> Upload]
      /\ b_request'[t] = x /\ \A u \in Workers : u # t => b_request'[u] = b_request[u]
  BY <1>1, <1>8, RequestSet
<1>10. /\ UNCHANGED <<b_rows, b_file, b_archive, b_image, b_messages, b_build, b_uploads, b_mixed>>
  BY DEF Scripts!ReadConfig
<1>11. BuildTypes'
  BY <1>1, <1>9, <1>10 DEF BuildTypes
<1>12. RowCount' = RowCount /\ \A m : Living(m)' <=> Living(m)
  BY <1>10 DEF RowCount, Living
<1>13. ASSUME Clean' PROVE BuildsSound'
  <2>1. BuildsSound
    BY <1>10, <1>13 DEF Clean, BuildsInv, BuildsSound
  <2>2. \A m : ToBuild(m) => ToBuild(m)'
    BY <1>1, <1>2, <1>9, <1>10, MessagesStay
  <2>3. BuilderInv' /\ StatusInv'
    BY <1>10, <2>1, <2>2, BuildersRest DEF BuildsSound
  <2>4. UploadInv'
    BY <1>2, <1>8, <1>9, <1>10, <1>12, <2>1 DEF BuildsSound, UploadInv
  <2> QED
    BY <2>3, <2>4 DEF BuildsSound
<1>14. ASSUME b_mixed' = {} PROVE ConfigInv'
  <2>1. ConfigInv
    BY <1>10, <1>14 DEF BuildsInv
  <2> QED
    BY <1>2, <1>8, <1>9, <1>10, <1>12, <2>1 DEF ConfigInv
<1> QED
  BY <1>11, <1>13, <1>14 DEF BuildsInv, BuildsSound, Clean

(* A new row is the only one with its slug. *)
LEMMA InsertKeeps ==
  ASSUME BuildsInv, NEW t \in Workers, NEW r \in Upload, r = b_request[t], r.op = "commit",
         r.id = 0, \A n \in Scripts!Ids : ~Scripts!Live(n),
         b_rows' = Append(b_rows, [live |-> TRUE, status |-> "PENDING", config |-> r.config]),
         Scripts!Then(t, [r EXCEPT !.op = "push", !.id = RowCount + 1]),
         UNCHANGED <<b_file, b_archive, b_image, b_messages, b_build, b_uploads, b_mixed>>
  PROVE  BuildsInv'
<1>1. BuildTypes
  BY DEF BuildsInv
<1>2. PICK k \in Nat : k = RowCount /\ Scripts!Ids = 1..k /\ \A n \in 1..k : ~Living(n)
  BY <1>1, RowNumbers
<1>3. PICK a : a = [r EXCEPT !.op = "push"]
  OBVIOUS
<1>4. PICK x : x = [a EXCEPT !.id = k + 1]
  OBVIOUS
<1>5. Scripts!Then(t, x)
  BY <1>2, <1>3, <1>4, Zenon
<1>6. a \in Upload /\ a.op = "push" /\ a.config = r.config
  BY <1>3 DEF Upload
<1>7. x \in Upload /\ x.op = "push" /\ x.id = k + 1 /\ x.config = r.config
  BY <1>4, <1>6 DEF Upload
<1>8. /\ b_request' \in [Workers -> Upload]
      /\ b_request'[t] = x /\ \A u \in Workers : u # t => b_request'[u] = b_request[u]
  BY <1>1, <1>5, <1>7, RequestSet
<1>9. PICK s : s = [live |-> TRUE, status |-> "PENDING", config |-> r.config]
  OBVIOUS
<1>10. s \in ScriptRow /\ s.live /\ s.status = "PENDING" /\ s.config = r.config
  BY <1>9 DEF ScriptRow, ScriptStates, Upload
<1>11. /\ b_rows' \in Seq(ScriptRow) /\ RowCount' = k + 1 /\ b_rows'[k + 1] = s
       /\ \A n \in 1..k : b_rows'[n] = b_rows[n]
  <2>1. b_rows \in Seq(ScriptRow) /\ b_rows' = Append(b_rows, s)
    BY <1>1, <1>9 DEF BuildTypes
  <2> QED
    BY <1>2, <1>10, <2>1, AppendProperties DEF RowCount
<1>12. BuildTypes'
  BY <1>1, <1>8, <1>11 DEF BuildTypes
<1>13. \A n : Living(n)' <=> n = k + 1
  BY <1>2, <1>10, <1>11 DEF Living
<1>14. \A n : ToBuild(n) => ToBuild(n)'
  BY <1>1, <1>8, MessagesStay
<1>15. ASSUME Clean' PROVE BuildsSound'
  <2>1. BuildsSound
    BY <1>15 DEF Clean, BuildsInv, BuildsSound
  <2>2. ~Living(0)
    BY <1>2 DEF Living
  <2>3. UploadInv'
    <3>1. \A u \in Workers : b_request[u].op = "idle" \/ b_request[u].id = 0
      BY <1>2, <2>1 DEF BuildsSound, UploadInv, Living
    <3>2. \A u \in Workers : b_request[u].op \notin {"push", "dispatch"}
      BY <1>2, <2>1 DEF BuildsSound, UploadInv, Living
    <3>3. b_file # 0
      BY <2>1 DEF BuildsSound, UploadInv
    <3>4. \A u \in Workers : /\ b_request'[u].op \in {"push", "dispatch"} => u = t
                             /\ b_request'[u].op # "idle" /\ b_request'[u].id # 0 => u = t
      BY <1>8, <3>1, <3>2
    <3>5. \A n, m \in 1..RowCount' : Living(n)' /\ Living(m)' => n = m
      BY <1>13
    <3>6. Living(x.id)'
      BY <1>7, <1>13
    <3>7. b_messages' # <<>> => b_archive' # 0
      BY <2>1 DEF BuildsSound, UploadInv
    <3> QED
      BY <1>7, <1>8, <3>3, <3>4, <3>5, <3>6, <3>7 DEF UploadInv
  <2>4. BuilderInv'
    <3>1. \A b \in Builders : Busy(b)' <=> Busy(b)
      BY DEF Busy
    <3>2. ASSUME NEW b \in Builders, Busy(b) PROVE Builds(b_build[b])' /\ b_build[b].id \in 1..(k + 1)
      <4>1. PICK w : w = b_build[b] /\ w.id \in 1..k
        BY <1>2, <2>1, <3>2 DEF BuildsSound, BuilderInv
      <4>2. ~Living(w.id)' /\ w.id \in 1..(k + 1)
        BY <1>2, <1>13, <4>1
      <4>3. \A n \in 1..RowCount' : Living(n)' => b_rows'[n].status = "PENDING"
        BY <1>10, <1>11, <1>13
      <4>4. Builds(w)'
        BY <4>2, <4>3 DEF Builds
      <4>5. w = b_build'[b]
        BY <4>1
      <4> QED
        BY <4>1, <4>2, <4>4, <4>5 DEF Builds, Living
    <3> QED
      BY <1>11, <2>1, <3>1, <3>2 DEF BuildsSound, BuilderInv
  <2>5. StatusInv'
    BY <1>10, <1>11, <1>13 DEF StatusInv
  <2> QED
    BY <2>3, <2>4, <2>5 DEF BuildsSound
<1>16. ASSUME b_mixed' = {} PROVE ConfigInv'
  <2>1. ConfigInv
    BY <1>16 DEF BuildsInv
  <2>2. \A u \in Workers : u # t => b_request'[u].op = "idle"
    BY <1>8, <2>1 DEF ConfigInv
  <2>3. b_rows'[x.id].config = b_file
    BY <1>7, <1>10, <1>11, <2>1 DEF ConfigInv
  <2>4. \A n \in 1..RowCount' : Living(n)' => x.id = n
    BY <1>7, <1>13
  <2> QED
    BY <1>7, <1>8, <2>2, <2>3, <2>4 DEF ConfigInv
<1> QED
  BY <1>12, <1>15, <1>16 DEF BuildsInv, BuildsSound, Clean

LEMMA UpdateKeeps ==
  ASSUME BuildsInv, NEW t \in Workers, NEW r \in Upload, r = b_request[t], r.op = "commit",
         Scripts!Live(r.id), b_rows' = [b_rows EXCEPT ![r.id].config = r.config],
         Scripts!Then(t, [r EXCEPT !.op = "push", !.seen = b_rows[r.id].status]),
         UNCHANGED <<b_file, b_archive, b_image, b_messages, b_build, b_uploads, b_mixed>>
  PROVE  BuildsInv'
<1>1. BuildTypes
  BY DEF BuildsInv
<1>2. Living(r.id) /\ r.id \in 1..RowCount /\ b_rows[r.id] \in ScriptRow
  BY <1>1, RowNumbers DEF Living
<1>3. PICK a : a = [r EXCEPT !.op = "push"]
  OBVIOUS
<1>4. PICK x : x = [a EXCEPT !.seen = b_rows[r.id].status]
  OBVIOUS
<1>5. Scripts!Then(t, x)
  BY <1>3, <1>4, Zenon
<1>6. a \in Upload /\ a.op = "push" /\ a.id = r.id
  BY <1>3 DEF Upload
<1>7. x \in Upload /\ x.op = "push" /\ x.id = r.id
  BY <1>2, <1>4, <1>6 DEF Upload, ScriptRow
<1>8. /\ b_request' \in [Workers -> Upload]
      /\ b_request'[t] = x /\ \A u \in Workers : u # t => b_request'[u] = b_request[u]
  BY <1>1, <1>5, <1>7, RequestSet
<1>9. PICK s : s = [b_rows[r.id] EXCEPT !.config = r.config]
  OBVIOUS
<1>10. /\ s \in ScriptRow /\ (s.live <=> b_rows[r.id].live) /\ s.status = b_rows[r.id].status
       /\ s.config = r.config
  <2>1. r.config \in Nat
    BY DEF Upload
  <2> QED
    BY <1>2, <1>9, <2>1 DEF ScriptRow
<1>11. b_rows' = [b_rows EXCEPT ![r.id] = s]
  BY <1>9, Zenon
<1>12. /\ b_rows' \in Seq(ScriptRow) /\ RowCount' = RowCount /\ b_rows'[r.id] = s
       /\ \A m \in 1..RowCount : m # r.id => b_rows'[m] = b_rows[m]
  BY <1>1, <1>2, <1>10, <1>11, RowRewritten
<1>13. BuildTypes'
  BY <1>1, <1>8, <1>12 DEF BuildTypes
<1>14. /\ \A n : Living(n)' <=> Living(n)
       /\ \A n \in 1..RowCount : b_rows'[n].status = b_rows[n].status
  <2>1. \A n \in 1..RowCount : /\ b_rows'[n].status = b_rows[n].status
                              /\ b_rows'[n].live <=> b_rows[n].live
    BY <1>10, <1>12
  <2> QED
    BY <1>12, <2>1 DEF Living
<1>15. \A n : ToBuild(n) => ToBuild(n)'
  BY <1>1, <1>8, MessagesStay
<1>16. ASSUME Clean' PROVE BuildsSound'
  <2>1. BuildsSound
    BY <1>16 DEF Clean, BuildsInv, BuildsSound
  <2>2. UploadInv'
    BY <1>2, <1>7, <1>8, <1>12, <1>14, <2>1 DEF BuildsSound, UploadInv
  <2>3. BuilderInv'
    <3>1. \A b \in Builders : Busy(b)' <=> Busy(b)
      BY DEF Busy
    <3>2. \A b \in Builders : Builds(b_build[b]) => Builds(b_build[b])'
      BY <1>12, <1>14, <1>15 DEF Builds, Living
    <3> QED
      BY <1>12, <2>1, <3>1, <3>2 DEF BuildsSound, BuilderInv
  <2>4. StatusInv'
    BY <1>12, <1>14, <1>15, <2>1 DEF BuildsSound, StatusInv, Busy
  <2> QED
    BY <2>2, <2>3, <2>4 DEF BuildsSound
<1>17. ASSUME b_mixed' = {} PROVE ConfigInv'
  <2>1. ConfigInv /\ UploadInv
    BY <1>17 DEF BuildsInv
  <2>2. \A u \in Workers : u # t => b_request'[u].op = "idle"
    BY <1>8, <2>1 DEF ConfigInv
  <2>3. b_rows'[x.id].config = b_file
    BY <1>7, <1>10, <1>12, <2>1 DEF ConfigInv
  <2>4. \A n \in 1..RowCount' : Living(n)' => x.id = n
    BY <1>2, <1>7, <1>12, <1>14, <2>1 DEF UploadInv
  <2> QED
    BY <1>7, <1>8, <2>2, <2>3, <2>4 DEF ConfigInv
<1> QED
  BY <1>13, <1>16, <1>17 DEF BuildsInv, BuildsSound, Clean

(* The slug is taken, or the row is gone. *)
LEMMA GiveUpKeeps ==
  ASSUME BuildsInv, NEW t \in Workers, b_request[t].op = "commit",
         Scripts!Then(t, Scripts!NoRequest),
         UNCHANGED <<b_rows, b_file, b_archive, b_image, b_messages, b_build, b_uploads, b_mixed>>
  PROVE  BuildsInv'
<1>1. BuildTypes
  BY DEF BuildsInv
<1>2. /\ b_request' \in [Workers -> Upload] /\ b_request'[t].op = "idle"
      /\ \A u \in Workers : u # t => b_request'[u] = b_request[u]
  BY <1>1, NothingUnderWay, RequestSet
<1>3. BuildTypes'
  BY <1>1, <1>2 DEF BuildTypes
<1>4. RowCount' = RowCount /\ \A m : Living(m)' <=> Living(m)
  BY DEF RowCount, Living
<1>5. ASSUME Clean' PROVE BuildsSound'
  <2>1. BuildsSound
    BY <1>5 DEF Clean, BuildsInv, BuildsSound
  <2>2. \A m : ToBuild(m) => ToBuild(m)'
    BY <1>1, <1>2, MessagesStay
  <2>3. BuilderInv' /\ StatusInv'
    BY <2>1, <2>2, BuildersRest DEF BuildsSound
  <2>4. UploadInv'
    BY <1>2, <1>4, <2>1 DEF BuildsSound, UploadInv
  <2> QED
    BY <2>3, <2>4 DEF BuildsSound
<1>6. ASSUME b_mixed' = {} PROVE ConfigInv'
  <2>1. ConfigInv
    BY <1>6 DEF BuildsInv
  <2> QED
    BY <1>2, <1>4, <2>1 DEF ConfigInv
<1> QED
  BY <1>3, <1>5, <1>6 DEF BuildsInv, BuildsSound, Clean

LEMMA CommitRowKeeps ==
  ASSUME BuildsInv, NEW t \in Workers, Scripts!CommitRow(t)
  PROVE  BuildsInv'
<1>1. PICK r \in Upload : r = b_request[t] /\ r.op = "commit"
  BY DEF BuildsInv, BuildTypes, Scripts!CommitRow
<1>2. UNCHANGED <<b_file, b_archive, b_image, b_messages, b_build, b_uploads, b_mixed>>
  BY DEF Scripts!CommitRow
<1>3. \/ /\ r.id = 0 /\ \A n \in Scripts!Ids : ~Scripts!Live(n)
         /\ b_rows' = Append(b_rows, [live |-> TRUE, status |-> "PENDING", config |-> r.config])
         /\ Scripts!Then(t, [r EXCEPT !.op = "push", !.id = RowCount + 1])
      \/ /\ Scripts!Live(r.id)
         /\ b_rows' = [b_rows EXCEPT ![r.id].config = r.config]
         /\ Scripts!Then(t, [r EXCEPT !.op = "push", !.seen = b_rows[r.id].status])
      \/ Scripts!Then(t, Scripts!NoRequest) /\ UNCHANGED b_rows
  BY <1>1, Zenon DEF Scripts!CommitRow, RowCount
<1> QED
  BY <1>1, <1>2, <1>3, InsertKeeps, UpdateKeeps, GiveUpKeeps

LEMMA PushArchiveKeeps ==
  ASSUME BuildsInv, NEW t \in Workers, Scripts!PushArchive(t)
  PROVE  BuildsInv'
<1>1. BuildTypes
  BY DEF BuildsInv
<1>2. PICK r \in Upload : r = b_request[t] /\ r.op = "push"
  BY <1>1 DEF BuildTypes, Scripts!PushArchive
<1>3. PICK x : x = [r EXCEPT !.op = "dispatch"]
  OBVIOUS
<1>4. Scripts!Then(t, x)
  BY <1>2, <1>3, Zenon DEF Scripts!PushArchive
<1>5. x \in Upload /\ x.op = "dispatch" /\ x.id = r.id
  BY <1>3 DEF Upload
<1>6. /\ b_request' \in [Workers -> Upload]
      /\ b_request'[t] = x /\ \A u \in Workers : u # t => b_request'[u] = b_request[u]
  BY <1>1, <1>4, <1>5, RequestSet
<1>7. /\ b_archive' = b_file
      /\ UNCHANGED <<b_rows, b_file, b_image, b_messages, b_build, b_uploads, b_mixed>>
  BY DEF Scripts!PushArchive
<1>8. BuildTypes'
  BY <1>1, <1>6, <1>7 DEF BuildTypes
<1>9. RowCount' = RowCount /\ \A m : Living(m)' <=> Living(m)
  BY <1>7 DEF RowCount, Living
<1>10. ToBuild(r.id)'
  BY <1>5, <1>6 DEF ToBuild
<1>11. ASSUME Clean' PROVE BuildsSound'
  <2>1. BuildsSound
    BY <1>7, <1>11 DEF Clean, BuildsInv, BuildsSound
  <2>2. Living(r.id) /\ b_file # 0
    BY <1>2, <2>1 DEF BuildsSound, UploadInv
  <2>3. \A n \in 1..RowCount : Living(n) => n = r.id
    BY <2>1, <2>2 DEF BuildsSound, UploadInv, Living
  <2>4. UploadInv'
    BY <1>2, <1>5, <1>6, <1>7, <1>9, <2>1, <2>2 DEF BuildsSound, UploadInv
  <2>5. BuilderInv'
    <3>1. \A b \in Builders : Busy(b)' <=> Busy(b)
      BY <1>7 DEF Busy
    <3>2. ASSUME NEW b \in Builders, Busy(b) PROVE Builds(b_build[b])'
      <4>1. PICK w : w = b_build[b] /\ w = b_build'[b] /\ w.id \in 1..RowCount /\ Builds(w)
        BY <1>7, <2>1, <3>2 DEF BuildsSound, BuilderInv
      <4>2. Builds(w)'
        <5>1. CASE Living(w.id)
          <6>1. w.id = r.id
            BY <2>3, <4>1, <5>1
          <6> QED
            BY <1>7, <1>9, <1>10, <4>1, <5>1, <6>1 DEF Builds
        <5>2. CASE ~Living(w.id)
          BY <1>7, <1>9, <4>1, <5>2 DEF Builds
        <5> QED
          BY <5>1, <5>2
      <4> QED
        BY <4>1, <4>2 DEF Builds, Living, ToBuild, Waits
    <3> QED
      BY <1>7, <1>9, <2>1, <2>2, <3>1, <3>2 DEF BuildsSound, BuilderInv
  <2>6. StatusInv'
    BY <1>9, <1>10, <2>3 DEF StatusInv
  <2> QED
    BY <2>4, <2>5, <2>6 DEF BuildsSound
<1>12. ASSUME b_mixed' = {} PROVE ConfigInv'
  <2>1. ConfigInv /\ UploadInv
    BY <1>7, <1>12 DEF BuildsInv
  <2>2. \A u \in Workers : u # t => b_request'[u].op = "idle"
    BY <1>2, <1>6, <2>1 DEF ConfigInv
  <2>3. Living(r.id) /\ b_rows[r.id].config = b_file
    BY <1>2, <2>1 DEF ConfigInv, UploadInv
  <2>4. \A n \in 1..RowCount : Living(n) => n = r.id
    BY <2>1, <2>3 DEF UploadInv, Living
  <2> QED
    BY <1>5, <1>6, <1>7, <1>9, <2>2, <2>3, <2>4 DEF ConfigInv
<1> QED
  BY <1>8, <1>11, <1>12 DEF BuildsInv, BuildsSound, Clean

LEMMA DispatchKeeps ==
  ASSUME BuildsInv, NEW t \in Workers, Scripts!Dispatch(t)
  PROVE  BuildsInv'
<1>1. BuildTypes
  BY DEF BuildsInv
<1>2. PICK r \in Upload : r = b_request[t] /\ r.op = "dispatch"
  BY <1>1 DEF BuildTypes, Scripts!Dispatch
<1>3. /\ b_request' \in [Workers -> Upload] /\ b_request'[t].op = "idle"
      /\ \A u \in Workers : u # t => b_request'[u] = b_request[u]
  BY <1>1, NothingUnderWay, RequestSet DEF Scripts!Dispatch
<1>4. UNCHANGED <<b_rows, b_file, b_archive, b_image, b_build, b_uploads, b_mixed>>
  BY DEF Scripts!Dispatch
<1>5. b_messages' \in Seq(Nat) /\ Waits(r.id)' /\ \A m : Waits(m) => Waits(m)'
  <2>1. r.id \in Nat /\ b_messages' = Append(b_messages, r.id)
    BY <1>2 DEF Upload, Scripts!Dispatch
  <2> QED
    BY <1>1, <2>1, Appended
<1>6. BuildTypes'
  BY <1>1, <1>3, <1>4, <1>5 DEF BuildTypes
<1>7. RowCount' = RowCount /\ \A m : Living(m)' <=> Living(m)
  BY <1>4 DEF RowCount, Living
<1>8. \A n : ToBuild(n) => ToBuild(n)'
  BY <1>2, <1>3, <1>5 DEF ToBuild
<1>9. ASSUME Clean' PROVE BuildsSound'
  <2>1. BuildsSound
    BY <1>4, <1>9 DEF Clean, BuildsInv, BuildsSound
  <2>2. BuilderInv' /\ StatusInv'
    BY <1>4, <1>8, <2>1, BuildersRest DEF BuildsSound
  <2>3. b_archive # 0
    BY <1>2, <2>1 DEF BuildsSound, UploadInv
  <2>4. UploadInv'
    BY <1>3, <1>4, <1>7, <2>1, <2>3 DEF BuildsSound, UploadInv
  <2> QED
    BY <2>2, <2>4 DEF BuildsSound
<1>10. ASSUME b_mixed' = {} PROVE ConfigInv'
  <2>1. ConfigInv
    BY <1>4, <1>10 DEF BuildsInv
  <2> QED
    BY <1>2, <1>3, <1>4, <1>7, <2>1 DEF ConfigInv
<1> QED
  BY <1>6, <1>9, <1>10 DEF BuildsInv, BuildsSound, Clean

(* After a failure nothing but the types is promised.                      *)
LEMMA FailureKeeps ==
  ASSUME Scripts!Failure, BuildTypes'
  PROVE  BuildsInv'
<1>1. "failure" \in b_mixed'
  BY DEF Scripts!Failure
<1> QED
  BY <1>1 DEF BuildsInv

LEMMA StatusTyped ==
  ASSUME BuildTypes, NEW n, NEW seen, NEW s \in ScriptStates, Scripts!WriteStatus(n, seen, s)
  PROVE  b_rows' \in Seq(ScriptRow)
<1>1. CASE b_rows' = b_rows
  BY <1>1 DEF BuildTypes
<1>2. CASE Living(n) /\ b_rows' = [b_rows EXCEPT ![n].status = s]
  <2>1. n \in 1..RowCount
    BY <1>2 DEF Living
  <2> QED
    BY <1>2, <2>1, StatusWritten
<1>3. \/ b_rows' = b_rows
      \/ Scripts!Live(n) /\ b_rows' = [b_rows EXCEPT ![n].status = s]
  BY Zenon DEF Scripts!WriteStatus
<1> QED
  BY <1>1, <1>2, <1>3, RowNumbers

LEMMA UploadEndsKeeps ==
  ASSUME BuildsInv, NEW t \in Workers, Scripts!UploadFails(t) \/ Scripts!UploadDies(t)
  PROVE  BuildsInv'
<1>1. BuildTypes
  BY DEF BuildsInv
<1>2. PICK r \in Upload : r = b_request[t]
  BY <1>1 DEF BuildTypes
<1>3. PICK x : x = [r EXCEPT !.op = "dispatch"]
  OBVIOUS
<1>4. x \in Upload
  BY <1>3 DEF Upload
<1>5. /\ Scripts!Failure
      /\ UNCHANGED <<b_file, b_archive, b_image, b_messages, b_build, b_uploads>>
      /\ Scripts!Then(t, Scripts!NoRequest) \/ Scripts!Then(t, x)
      /\ UNCHANGED b_rows \/ Scripts!WriteStatus(r.id, r.seen, "FAILED")
  BY <1>2, <1>3, Zenon DEF Scripts!UploadFails, Scripts!UploadDies
<1>6. b_request' \in [Workers -> Upload]
  BY <1>1, <1>4, <1>5, NothingUnderWay, RequestSet
<1>7. b_rows' \in Seq(ScriptRow)
  <2>1. "FAILED" \in ScriptStates
    BY DEF ScriptStates
  <2> QED
    BY <1>1, <1>5, <2>1, StatusTyped DEF BuildTypes
<1>8. BuildTypes'
  BY <1>1, <1>5, <1>6, <1>7 DEF BuildTypes
<1> QED
  BY <1>5, <1>8, FailureKeeps

LEMMA DeleteScriptKeeps ==
  ASSUME BuildsInv, NEW n \in Scripts!Ids, Scripts!DeleteScript(n)
  PROVE  BuildsInv'
<1>1. BuildTypes
  BY DEF BuildsInv
<1>2. Living(n) /\ n \in 1..RowCount /\ b_rows[n] \in ScriptRow
  BY <1>1, RowNumbers DEF Scripts!DeleteScript, Living
<1>3. PICK s : s = [b_rows[n] EXCEPT !.live = FALSE]
  OBVIOUS
<1>4. s \in ScriptRow /\ ~s.live /\ s.config = b_rows[n].config
  BY <1>2, <1>3 DEF ScriptRow
<1>5. b_rows' = [b_rows EXCEPT ![n] = s]
  BY <1>3, Zenon DEF Scripts!DeleteScript, Scripts!WithoutRow
<1>6. /\ b_rows' \in Seq(ScriptRow) /\ RowCount' = RowCount /\ b_rows'[n] = s
      /\ \A m \in 1..RowCount : m # n => b_rows'[m] = b_rows[m]
  BY <1>1, <1>2, <1>4, <1>5, RowRewritten
<1>7. /\ UNCHANGED <<b_file, b_archive, b_image, b_messages, b_request, b_build, b_uploads>>
      /\ b_mixed' = b_mixed \cup {k \in {"deletion"} : \E t \in Workers : b_request[t].id = n}
  BY DEF Scripts!DeleteScript
<1>8. BuildTypes'
  BY <1>1, <1>6, <1>7 DEF BuildTypes
<1>9. ASSUME Clean'
      PROVE  /\ BuildsSound /\ \A t \in Workers : b_request[t].id # n
             /\ \A m \in 1..RowCount : Living(m) => m = n
             /\ \A m : ~Living(m)'
  <2>1. BuildsSound /\ \A t \in Workers : b_request[t].id # n
    BY <1>7, <1>9 DEF Clean, BuildsInv, BuildsSound
  <2>2. \A m \in 1..RowCount : Living(m) => m = n
    BY <1>2, <2>1 DEF BuildsSound, UploadInv
  <2> QED
    BY <1>4, <1>6, <2>1, <2>2 DEF Living
<1>10. ASSUME Clean' PROVE BuildsSound'
  <2>1. UploadInv'
    <3>1. \A t \in Workers : ~Living(b_request[t].id)
      BY <1>9, <1>10 DEF Living
    <3> QED
      BY <1>7, <1>9, <1>10, <3>1 DEF BuildsSound, UploadInv
  <2>2. BuilderInv'
    <3>1. \A b \in Builders : Busy(b)' <=> Busy(b)
      BY <1>7 DEF Busy
    <3>2. \A b \in Builders : Builds(b_build[b])'
      BY <1>9, <1>10 DEF Builds
    <3> QED
      BY <1>6, <1>7, <1>9, <1>10, <3>1, <3>2 DEF BuildsSound, BuilderInv
  <2>3. StatusInv'
    BY <1>9, <1>10 DEF StatusInv
  <2> QED
    BY <2>1, <2>2, <2>3 DEF BuildsSound
<1>11. ASSUME b_mixed' = {} PROVE ConfigInv'
  <2>1. Clean' /\ b_mixed = {}
    BY <1>7, <1>11 DEF Clean
  <2>2. ConfigInv
    BY <2>1 DEF BuildsInv
  <2>3. \A t \in Workers : b_request[t].op = "push" => b_rows'[b_request[t].id].config = b_file
    <3>1. \A t \in Workers : b_request[t].op # "push"
      BY <1>9, <2>1 DEF BuildsSound, UploadInv, Living
    <3> QED
      BY <3>1
  <2> QED
    BY <1>7, <1>9, <2>1, <2>2, <2>3 DEF ConfigInv
<1> QED
  BY <1>8, <1>10, <1>11 DEF BuildsInv, BuildsSound, Clean

-----------------------------------------------------------------------------
(* Builds                                                                  *)

(* The uploads do not see it. *)
LEMMA UploadsRest ==
  ASSUME UploadInv, UNCHANGED <<b_request, b_file, b_archive>>, RowCount' = RowCount,
         \A n \in 1..RowCount : /\ b_rows'[n].live <=> b_rows[n].live
                                /\ b_rows'[n].config = b_rows[n].config,
         b_messages' # <<>> => b_messages # <<>> \/ b_archive # 0
  PROVE  UploadInv' /\ (ConfigInv => ConfigInv')
<1>1. \A n : Living(n)' <=> Living(n)
  BY DEF Living
<1>2. UploadInv'
  BY <1>1 DEF UploadInv
<1>3. ASSUME ConfigInv PROVE ConfigInv'
  <2>1. \A t \in Workers : b_request[t].op = "push" => b_request[t].id \in 1..RowCount
    BY DEF UploadInv, Living
  <2> QED
    BY <1>1, <1>3, <2>1 DEF ConfigInv
<1> QED
  BY <1>2, <1>3

(* At most one builder is at work afterwards, on x.                        *)
LEMMA OnlyBuilder ==
  ASSUME NEW b \in Builders, NEW x, b_build'[b] = x,
         \A c \in Builders : c # b => b_build'[c].op = "idle",
         x.op # "idle" =>
           /\ x.id \in 1..RowCount' /\ Builds(x)' /\ b_archive' # 0 /\ ~x.unread
           /\ x.moved \/ x.op = "built" => b_image' = x.archive
  PROVE  BuilderInv'
<1>1. \A c \in Builders : Busy(c)' <=> c = b /\ x.op # "idle"
  BY DEF Busy
<1>2. x.op # "idle" => Builds(b_build[b])'
  BY DEF Builds, Living, ToBuild, Waits
<1> QED
  BY <1>1, <1>2 DEF BuilderInv

(* The only builder at work, and the only script.                          *)
LEMMA AtWork ==
  ASSUME BuildTypes, BuildsSound, NEW b \in Builders, NEW r \in Building, r = b_build[b], r.op # "idle"
  PROVE  /\ \A c \in Builders : c # b => b_build[c].op = "idle"
         /\ r.id \in 1..RowCount /\ Builds(r) /\ b_archive # 0 /\ ~r.unread
         /\ r.moved \/ r.op = "built" => b_image = r.archive
         /\ \A n \in 1..RowCount :
              Living(n) => n = r.id \/ (~Living(r.id) /\ b_rows[n].status = "PENDING")
<1>1. /\ \A c \in Builders : c # b => b_build[c].op = "idle"
      /\ r.id \in 1..RowCount /\ b_archive # 0 /\ ~r.unread
      /\ r.moved \/ r.op = "built" => b_image = r.archive
  BY DEF BuildsSound, BuilderInv, Busy
<1>2. Builds(r)
  BY DEF BuildsSound, BuilderInv, Busy
<1>3. ASSUME NEW n \in 1..RowCount, Living(n)
      PROVE  n = r.id \/ (~Living(r.id) /\ b_rows[n].status = "PENDING")
  <2>1. CASE Living(r.id)
    BY <1>1, <1>3, <2>1 DEF BuildsSound, UploadInv
  <2>2. CASE ~Living(r.id)
    BY <1>2, <1>3, <2>2 DEF Builds
  <2> QED
    BY <2>1, <2>2
<1> QED
  BY <1>1, <1>2, <1>3

LEMMA FetchFailsKeeps ==
  ASSUME BuildsInv, NEW b \in Builders, Scripts!FetchFails(b)
  PROVE  BuildsInv'
<1>1. BuildTypes
  BY DEF BuildsInv
<1>2. /\ Scripts!Failure /\ b_messages # <<>> /\ b_messages' = Tail(b_messages)
      /\ UNCHANGED <<b_rows, b_file, b_archive, b_image, b_request, b_build, b_uploads>>
  BY DEF Scripts!FetchFails, Scripts!Queued
<1>3. b_messages' \in Seq(Nat)
  BY <1>1, <1>2, Taken
<1>4. BuildTypes'
  BY <1>1, <1>2, <1>3 DEF BuildTypes
<1> QED
  BY <1>2, <1>4, FailureKeeps

LEMMA FetchKeeps ==
  ASSUME BuildsInv, NEW b \in Builders, Scripts!Fetch(b)
  PROVE  BuildsInv'
<1>1. BuildTypes
  BY DEF BuildsInv
<1>2. PICK n : n = Head(b_messages)
  OBVIOUS
<1>3. /\ b_messages # <<>> /\ b_messages' = Tail(b_messages) /\ b_build[b].op = "idle"
      /\ UNCHANGED <<b_rows, b_file, b_archive, b_image, b_request, b_uploads>>
  BY DEF Scripts!Fetch, Scripts!Queued
<1>4. /\ b_messages' \in Seq(Nat) /\ n \in Nat
      /\ \A m : Waits(m) => m = n \/ Waits(m)'
  BY <1>1, <1>2, <1>3, Taken
<1>5. \A m : ToBuild(m) => m = n \/ ToBuild(m)'
  BY <1>3, <1>4 DEF ToBuild
<1>6. RowCount' = RowCount /\ \A m : Living(m)' <=> Living(m)
  BY <1>3 DEF RowCount, Living
<1>7. CASE Living(n) /\ b_archive # 0
  <2>1. PICK a : a = [Scripts!NoBuild EXCEPT !.op = "fetched"]
    OBVIOUS
  <2>2. PICK c : c = [a EXCEPT !.id = n]
    OBVIOUS
  <2>3. PICK d : d = [c EXCEPT !.archive = b_archive]
    OBVIOUS
  <2>4. PICK x : x = [d EXCEPT !.seen = b_rows[n].status]
    OBVIOUS
  <2>5. Scripts!Live(n)
    BY <1>1, <1>7, RowNumbers
  <2>6. /\ Scripts!Now(b, x)
        /\ b_mixed' = b_mixed \cup {k \in {"builds"} : \E e \in Builders : b_build[e].op # "idle"}
    BY <1>2, <1>7, <2>1, <2>2, <2>3, <2>4, <2>5, Zenon DEF Scripts!Fetch
  <2>7. a \in Building /\ a.op = "fetched" /\ ~a.moved /\ ~a.unread
    BY <2>1, NothingUnderWay DEF Building
  <2>8. c \in Building /\ c.op = "fetched" /\ ~c.moved /\ ~c.unread /\ c.id = n
    BY <1>4, <2>2, <2>7 DEF Building
  <2>9. /\ d \in Building /\ d.op = "fetched" /\ ~d.moved /\ ~d.unread
        /\ d.id = n /\ d.archive = b_archive
    BY <1>1, <2>3, <2>8 DEF Building, BuildTypes
  <2>10. n \in 1..RowCount /\ b_rows[n].status \in ScriptStates
    BY <1>1, <1>7, RowNumbers DEF Living, ScriptRow
  <2>11. /\ x \in Building /\ x.op = "fetched" /\ ~x.moved /\ ~x.unread
         /\ x.id = n /\ x.archive = b_archive
         /\ x.seen = b_rows[n].status
    BY <2>4, <2>9, <2>10 DEF Building
  <2>12. /\ b_build' \in [Builders -> Building]
         /\ b_build'[b] = x /\ \A e \in Builders : e # b => b_build'[e] = b_build[e]
    BY <1>1, <2>6, <2>11, BuildSet
  <2>13. BuildTypes'
    BY <1>1, <1>3, <1>4, <2>12 DEF BuildTypes
  <2>14. ASSUME Clean' PROVE BuildsSound' /\ (ConfigInv => ConfigInv')
    <3>1. BuildsSound /\ \A e \in Builders : b_build[e].op = "idle"
      BY <2>6, <2>14 DEF Clean, BuildsInv, BuildsSound
    <3>2. UploadInv' /\ (ConfigInv => ConfigInv')
      BY <1>3, <1>6, <1>7, <3>1, UploadsRest DEF BuildsSound
    <3>3. BuilderInv'
      <4>1. Builds(x)'
        BY <1>3, <1>6, <1>7, <2>11 DEF Builds
      <4>2. \A e \in Builders : e # b => b_build'[e].op = "idle"
        BY <2>12, <3>1
      <4> QED
        BY <1>3, <1>6, <1>7, <2>10, <2>11, <2>12, <4>1, <4>2, OnlyBuilder
    <3>4. StatusInv'
      <4>1. Busy(b)' /\ b_build'[b].id = n
        BY <2>11, <2>12 DEF Busy
      <4>2. \A e \in Builders : ~Busy(e)
        BY <3>1 DEF Busy
      <4> QED
        BY <1>3, <1>5, <1>6, <3>1, <4>1, <4>2 DEF BuildsSound, StatusInv
    <3> QED
      BY <3>2, <3>3, <3>4 DEF BuildsSound
  <2>15. b_mixed' = {} => Clean' /\ b_mixed = {}
    BY <2>6 DEF Clean
  <2>16. Clean' => Clean
    BY <2>6 DEF Clean
  <2> QED
    BY <2>13, <2>14, <2>15, <2>16 DEF BuildsInv, BuildsSound, Clean
<1>8. CASE ~(Living(n) /\ b_archive # 0)
  <2>1. ~(Scripts!Live(n) /\ b_archive # 0)
    BY <1>1, <1>8, RowNumbers
  <2>2. UNCHANGED <<b_build, b_mixed>>
    BY <1>2, <2>1, Zenon DEF Scripts!Fetch
  <2>3. BuildTypes'
    BY <1>1, <1>3, <1>4, <2>2 DEF BuildTypes
  <2>4. ASSUME Clean' PROVE BuildsSound' /\ (ConfigInv => ConfigInv')
    <3>1. BuildsSound
      BY <2>2, <2>4 DEF Clean, BuildsInv, BuildsSound
    <3>2. ~Living(n)
      BY <1>3, <1>8, <3>1 DEF BuildsSound, UploadInv
    <3>3. \A m : Living(m) /\ ToBuild(m) => ToBuild(m)'
      BY <1>5, <3>2
    <3>4. BuilderInv' /\ StatusInv'
      BY <1>3, <2>2, <3>1, <3>3, BuildersRest DEF BuildsSound
    <3>5. UploadInv' /\ (ConfigInv => ConfigInv')
      BY <1>3, <1>6, <3>1, UploadsRest DEF BuildsSound
    <3> QED
      BY <3>4, <3>5 DEF BuildsSound
  <2> QED
    BY <2>2, <2>3, <2>4 DEF BuildsInv, BuildsSound, Clean
<1> QED
  BY <1>7, <1>8

(* A builder goes on with the same archive for the same row: its status is *)
(* what it was, or what the builder writes.                                *)
LEMMA BuilderKeeps ==
  ASSUME BuildsInv, NEW b \in Builders, NEW r \in Building, r = b_build[b], r.op # "idle",
         NEW x \in Building, Scripts!Now(b, x), x.op # "fetched",
         x.op # "idle" => /\ x.id = r.id /\ x.archive = r.archive /\ (x.unread <=> r.unread)
                          /\ x.moved \/ x.op = "built" => r.moved \/ r.unread \/ r.op = "built",
         x.op = "idle" => ~Living(r.id),
         b_rows' \in Seq(ScriptRow), RowCount' = RowCount,
         \A n \in 1..RowCount : /\ b_rows'[n].live <=> b_rows[n].live
                                /\ b_rows'[n].config = b_rows[n].config
                                /\ n # r.id => b_rows'[n].status = b_rows[n].status,
         Clean /\ Living(r.id) => b_rows'[r.id].status = "BUILDING",
         UNCHANGED <<b_file, b_archive, b_image, b_messages, b_request, b_uploads, b_mixed>>
  PROVE  BuildsInv'
<1>1. BuildTypes
  BY DEF BuildsInv
<1>2. /\ b_build' \in [Builders -> Building]
      /\ b_build'[b] = x /\ \A c \in Builders : c # b => b_build'[c] = b_build[c]
  BY <1>1, BuildSet
<1>3. BuildTypes'
  BY <1>1, <1>2 DEF BuildTypes
<1>4. \A n : (Living(n)' <=> Living(n)) /\ (ToBuild(n)' <=> ToBuild(n))
  BY DEF Living, ToBuild, Waits
<1>5. ASSUME Clean' PROVE BuildsSound' /\ (ConfigInv => ConfigInv')
  <2>1. BuildsSound
    BY <1>5 DEF Clean, BuildsInv, BuildsSound
  <2>2. UploadInv' /\ (ConfigInv => ConfigInv')
    BY <2>1, UploadsRest DEF BuildsSound
  <2>3. /\ \A c \in Builders : c # b => b_build[c].op = "idle"
        /\ r.id \in 1..RowCount /\ Builds(r) /\ b_archive # 0 /\ ~r.unread
        /\ r.moved \/ r.op = "built" => b_image = r.archive
        /\ \A n \in 1..RowCount :
             Living(n) => n = r.id \/ (~Living(r.id) /\ b_rows[n].status = "PENDING")
    BY <1>1, <2>1, AtWork
  <2>4. Living(r.id) => b_rows'[r.id].status = "BUILDING" /\ (r.archive = b_archive \/ ToBuild(r.id))
    BY <1>5, <2>3 DEF Clean, Builds
  <2>5. ~Living(r.id) => \A n \in 1..RowCount : Living(n) => b_rows'[n].status = "PENDING"
    BY <2>3
  <2>6. BuilderInv'
    <3>1. x.op # "idle" => Builds(x)'
      BY <1>4, <2>4, <2>5 DEF Builds
    <3>2. \A c \in Builders : c # b => b_build'[c].op = "idle"
      BY <1>2, <2>3
    <3> QED
      BY <1>2, <2>3, <3>1, <3>2, OnlyBuilder
  <2>7. StatusInv'
    <3> SUFFICES ASSUME NEW n \in 1..RowCount, Living(n), b_rows'[n].status \in {"BUILDING", "SUCCESS"}
                 PROVE  Busy(b)' /\ b_build'[b].id = n
      BY <1>4 DEF StatusInv
    <3>1. n = r.id
      BY <2>3, <2>5
    <3> QED
      BY <1>2, <3>1 DEF Busy
  <2> QED
    BY <2>2, <2>6, <2>7 DEF BuildsSound
<1> QED
  BY <1>3, <1>5 DEF BuildsInv, BuildsSound, Clean

(* Under way, the row of a builder is BUILDING. *)
LEMMA RowOfBuilder ==
  ASSUME BuildsInv, Clean, NEW b \in Builders, NEW r \in Building, r = b_build[b], r.op # "idle",
         Living(r.id)
  PROVE  b_rows[r.id].status = IF r.op = "fetched" THEN r.seen ELSE "BUILDING"
BY AtWork DEF BuildsInv, Clean, BuildsSound, Builds

LEMMA MarkBuildingKeeps ==
  ASSUME BuildsInv, NEW b \in Builders, Scripts!MarkBuilding(b)
  PROVE  BuildsInv'
<1>1. BuildTypes
  BY DEF BuildsInv
<1>2. PICK r \in Building : r = b_build[b] /\ r.op = "fetched"
  BY <1>1 DEF BuildTypes, Scripts!MarkBuilding
<1>3. UNCHANGED <<b_file, b_archive, b_image, b_messages, b_request, b_uploads, b_mixed>>
  BY DEF Scripts!MarkBuilding
<1>4. PICK y : y = [r EXCEPT !.op = "building"]
  OBVIOUS
<1>5. /\ y \in Building /\ y.op = "building" /\ y.id = r.id /\ y.archive = r.archive
      /\ (y.moved <=> r.moved) /\ (y.unread <=> r.unread)
  BY <1>4 DEF Building
<1>6. CASE Living(r.id)
  <2>1. Scripts!Live(r.id)
    BY <1>1, <1>6, RowNumbers
  <2>2. Scripts!WriteStatus(r.id, r.seen, "BUILDING") /\ Scripts!Now(b, y)
    BY <1>2, <1>4, <2>1, Zenon DEF Scripts!MarkBuilding
  <2>3. r.id \in 1..RowCount /\ "BUILDING" \in ScriptStates
    BY <1>6 DEF Living, ScriptStates
  <2>4. Clean => b_rows[r.id].status = r.seen
    BY <1>2, <1>6, RowOfBuilder
  <2>5. \/ r.seen = "BUILDING" /\ b_rows' = b_rows
        \/ b_rows' = [b_rows EXCEPT ![r.id].status = "BUILDING"]
    BY <2>1, <2>2, Zenon DEF Scripts!WriteStatus
  <2>6. /\ b_rows' \in Seq(ScriptRow) /\ RowCount' = RowCount
        /\ \A n \in 1..RowCount : /\ b_rows'[n].live <=> b_rows[n].live
                                  /\ b_rows'[n].config = b_rows[n].config
                                  /\ n # r.id => b_rows'[n].status = b_rows[n].status
        /\ Clean => b_rows'[r.id].status = "BUILDING"
    <3>1. CASE r.seen = "BUILDING" /\ b_rows' = b_rows
      BY <1>1, <2>4, <3>1 DEF BuildTypes, RowCount
    <3>2. CASE b_rows' = [b_rows EXCEPT ![r.id].status = "BUILDING"]
      <4>1. /\ b_rows' \in Seq(ScriptRow) /\ RowCount' = RowCount
            /\ b_rows'[r.id].status = "BUILDING" /\ (b_rows'[r.id].live <=> b_rows[r.id].live)
            /\ b_rows'[r.id].config = b_rows[r.id].config
            /\ \A m \in 1..RowCount : m # r.id => b_rows'[m] = b_rows[m]
        BY <1>1, <2>3, <3>2, StatusWritten
      <4> QED
        BY <4>1
    <3> QED
      BY <2>5, <3>1, <3>2
  <2> QED
    BY <1>2, <1>3, <1>5, <2>2, <2>6, BuilderKeeps
<1>7. CASE ~Living(r.id)
  <2>1. ~Scripts!Live(r.id)
    BY <1>1, <1>7, RowNumbers
  <2>2. UNCHANGED b_rows /\ Scripts!Now(b, Scripts!NoBuild)
    BY <1>2, <2>1, Zenon DEF Scripts!MarkBuilding
  <2>3. b_rows' \in Seq(ScriptRow) /\ RowCount' = RowCount
    BY <1>1, <2>2 DEF BuildTypes, RowCount
  <2>4. PICK x \in Building : x.op = "idle" /\ Scripts!Now(b, x)
    BY <2>2, NothingUnderWay
  <2> QED
    BY <1>2, <1>3, <1>7, <2>2, <2>3, <2>4, BuilderKeeps
<1> QED
  BY <1>6, <1>7

LEMMA BuildImageKeeps ==
  ASSUME BuildsInv, NEW b \in Builders, Scripts!BuildImage(b)
  PROVE  BuildsInv'
<1>1. BuildTypes
  BY DEF BuildsInv
<1>2. PICK r \in Building : r = b_build[b] /\ r.op = "building"
  BY <1>1 DEF BuildTypes, Scripts!BuildImage
<1>3. UNCHANGED <<b_rows, b_file, b_archive, b_image, b_messages, b_request, b_uploads, b_mixed>>
  BY DEF Scripts!BuildImage
<1>4. PICK op : op \in {"pushing", "failed"} /\ Scripts!Now(b, [r EXCEPT !.op = op])
  <2>1. \/ Scripts!Now(b, [r EXCEPT !.op = "pushing"])
        \/ Scripts!Now(b, [r EXCEPT !.op = "failed"])
    BY <1>2, Zenon DEF Scripts!BuildImage
  <2> QED
    BY <2>1
<1>5. PICK x : x = [r EXCEPT !.op = op]
  OBVIOUS
<1>6. /\ x \in Building /\ x.op = op /\ x.id = r.id /\ x.archive = r.archive
      /\ (x.moved <=> r.moved) /\ (x.unread <=> r.unread)
  BY <1>4, <1>5 DEF Building
<1>7. b_rows' \in Seq(ScriptRow) /\ RowCount' = RowCount
  BY <1>1, <1>3 DEF BuildTypes, RowCount
<1>8. Clean /\ Living(r.id) => b_rows'[r.id].status = "BUILDING"
  BY <1>2, <1>3, RowOfBuilder
<1> QED
  BY <1>2, <1>3, <1>4, <1>5, <1>6, <1>7, <1>8, BuilderKeeps

LEMMA VerifyPushKeeps ==
  ASSUME BuildsInv, NEW b \in Builders, Scripts!VerifyPush(b)
  PROVE  BuildsInv'
<1>1. BuildTypes
  BY DEF BuildsInv
<1>2. PICK r \in Building : r = b_build[b] /\ r.op = "verify"
  BY <1>1 DEF BuildTypes, Scripts!VerifyPush
<1>3. UNCHANGED <<b_rows, b_file, b_archive, b_image, b_messages, b_request, b_uploads, b_mixed>>
  BY DEF Scripts!VerifyPush
<1>4. PICK u : u = [r EXCEPT !.op = "built"]
  OBVIOUS
<1>5. PICK v : v = [r EXCEPT !.op = "pushing"]
  OBVIOUS
<1>6. PICK w : w = [v EXCEPT !.attempt = r.attempt + 1]
  OBVIOUS
<1>7. PICK y : y = [r EXCEPT !.op = "failed"]
  OBVIOUS
<1>8. \/ Scripts!Verified(b) /\ Scripts!Now(b, u)
      \/ Scripts!Now(b, w)
      \/ Scripts!Now(b, y)
  BY <1>2, <1>4, <1>5, <1>6, <1>7, Zenon DEF Scripts!VerifyPush
<1>9. /\ u \in Building /\ u.op = "built" /\ u.id = r.id /\ u.archive = r.archive
      /\ (u.unread <=> r.unread)
  BY <1>4 DEF Building
<1>10. /\ v \in Building /\ v.op = "pushing" /\ v.id = r.id /\ v.archive = r.archive
       /\ (v.moved <=> r.moved) /\ (v.unread <=> r.unread)
  BY <1>5 DEF Building
<1>11. r.attempt + 1 \in Nat
  BY DEF Building
<1>12. /\ w \in Building /\ w.op = "pushing" /\ w.id = r.id /\ w.archive = r.archive
       /\ (w.moved <=> r.moved) /\ (w.unread <=> r.unread)
  BY <1>6, <1>10, <1>11 DEF Building
<1>13. /\ y \in Building /\ y.op = "failed" /\ y.id = r.id /\ y.archive = r.archive
       /\ (y.moved <=> r.moved) /\ (y.unread <=> r.unread)
  BY <1>7 DEF Building
<1>14. PICK x \in Building : /\ Scripts!Now(b, x) /\ x.op \in {"built", "pushing", "failed"}
                             /\ x.id = r.id /\ x.archive = r.archive /\ (x.unread <=> r.unread)
                             /\ x.moved \/ x.op = "built" => r.moved \/ r.unread
  <2>1. Scripts!Verified(b) => r.moved \/ r.unread
    BY <1>2 DEF Scripts!Verified
  <2>2. CASE Scripts!Verified(b) /\ Scripts!Now(b, u)
    BY <1>9, <2>1, <2>2
  <2>3. CASE Scripts!Now(b, w)
    BY <1>12, <2>3
  <2>4. CASE Scripts!Now(b, y)
    BY <1>13, <2>4
  <2> QED
    BY <1>8, <2>2, <2>3, <2>4
<1>15. b_rows' \in Seq(ScriptRow) /\ RowCount' = RowCount
  BY <1>1, <1>3 DEF BuildTypes, RowCount
<1>16. Clean /\ Living(r.id) => b_rows'[r.id].status = "BUILDING"
  BY <1>2, <1>3, RowOfBuilder
<1> QED
  BY <1>2, <1>3, <1>14, <1>15, <1>16, BuilderKeeps

LEMMA BuildUnreadKeeps ==
  ASSUME BuildsInv, NEW b \in Builders, Scripts!BuildUnread(b)
  PROVE  BuildsInv'
<1>1. BuildTypes
  BY DEF BuildsInv
<1>2. PICK r \in Building : r = b_build[b]
  BY <1>1 DEF BuildTypes
<1>3. PICK y : y = [r EXCEPT !.op = "pushing"]
  OBVIOUS
<1>4. PICK x : x = [y EXCEPT !.unread = TRUE]
  OBVIOUS
<1>5. y \in Building
  BY <1>3 DEF Building
<1>6. x \in Building
  BY <1>4, <1>5 DEF Building
<1>7. /\ Scripts!Failure /\ Scripts!Now(b, x)
      /\ UNCHANGED <<b_rows, b_file, b_archive, b_image, b_messages, b_request, b_uploads>>
  BY <1>2, <1>3, <1>4, Zenon DEF Scripts!BuildUnread
<1>8. BuildTypes'
  BY <1>1, <1>6, <1>7, BuildSet DEF BuildTypes
<1> QED
  BY <1>7, <1>8, FailureKeeps

LEMMA PushOneLayerKeeps ==
  ASSUME BuildsInv, NEW b \in Builders, Scripts!PushOneLayer(b)
  PROVE  BuildsInv'
<1>1. BuildTypes
  BY DEF BuildsInv
<1>2. PICK r \in Building : r = b_build[b]
  BY <1>1 DEF BuildTypes
<1>3. PICK x : x = [r EXCEPT !.op = "built"]
  OBVIOUS
<1>4. x \in Building
  BY <1>3 DEF Building
<1>5. /\ Scripts!Failure /\ Scripts!Now(b, x)
      /\ UNCHANGED <<b_rows, b_file, b_archive, b_image, b_messages, b_request, b_uploads>>
  BY <1>2, <1>3, Zenon DEF Scripts!PushOneLayer
<1>6. BuildTypes'
  BY <1>1, <1>4, <1>5, BuildSet DEF BuildTypes
<1> QED
  BY <1>5, <1>6, FailureKeeps

LEMMA PushKeeps ==
  ASSUME BuildsInv, NEW b \in Builders, Scripts!Push(b)
  PROVE  BuildsInv'
<1>1. BuildTypes
  BY DEF BuildsInv
<1>2. PICK r \in Building : r = b_build[b] /\ r.op = "pushing"
  BY <1>1 DEF BuildTypes, Scripts!Push
<1>3. UNCHANGED <<b_rows, b_file, b_archive, b_messages, b_request, b_uploads, b_mixed>>
  BY DEF Scripts!Push
<1>4. PICK taken \in BOOLEAN, op \in {"built", "verify", "failed"} :
        /\ op = "built" => taken
        /\ b_image' = IF taken THEN r.archive ELSE b_image
        /\ b_build' = [c \in Builders |->
                         [b_build[c] EXCEPT !.op = IF c = b THEN op ELSE @,
                                            !.moved = (@ \/ (taken /\ b_build[c].op \in {"pushing", "verify"}))]]
  BY <1>2, Zenon DEF Scripts!Push
<1>5. ASSUME NEW c \in Builders
      PROVE  /\ b_build'[c] \in Building
             /\ b_build'[c].op = IF c = b THEN op ELSE b_build[c].op
             /\ b_build'[c].id = b_build[c].id /\ b_build'[c].archive = b_build[c].archive
             /\ (b_build'[c].unread <=> b_build[c].unread)
             /\ b_build'[c].moved => b_build[c].moved \/ taken
  <2>1. PICK w \in Building : w = b_build[c]
    BY <1>1 DEF BuildTypes
  <2>2. PICK p : p = IF c = b THEN op ELSE w.op
    OBVIOUS
  <2>3. PICK m \in BOOLEAN : m = (w.moved \/ (taken /\ w.op \in {"pushing", "verify"}))
    BY DEF Building
  <2>4. PICK a : a = [w EXCEPT !.op = p]
    OBVIOUS
  <2>5. PICK x : x = [a EXCEPT !.moved = m]
    OBVIOUS
  <2>6. b_build'[c] = x
    <3>1. b_build'[c] = [w EXCEPT !.op = p, !.moved = m]
      BY <1>4, <2>1, <2>2, <2>3, Zenon
    <3> QED
      BY <2>4, <2>5, <3>1, Zenon
  <2>7. p \in {"idle", "fetched", "building", "pushing", "verify", "built", "failed"}
    BY <2>2 DEF Building
  <2>8. a \in Building /\ a.op = p /\ a.id = w.id /\ a.archive = w.archive /\ (a.unread <=> w.unread)
    BY <2>4, <2>7 DEF Building
  <2>9. /\ x \in Building /\ x.op = p /\ x.id = w.id /\ x.archive = w.archive
        /\ (x.moved <=> m) /\ (x.unread <=> w.unread)
    BY <2>5, <2>8 DEF Building
  <2> QED
    BY <2>1, <2>2, <2>3, <2>6, <2>9
<1>6. b_build' \in [Builders -> Building]
  <2>1. DOMAIN b_build' = Builders /\ b_build' = [c \in Builders |-> b_build'[c]]
    BY <1>4
  <2> QED
    BY <1>5, <2>1
<1>7. BuildTypes'
  BY <1>1, <1>2, <1>3, <1>4, <1>6 DEF BuildTypes, Building
<1>8. RowCount' = RowCount /\ \A n : (Living(n)' <=> Living(n)) /\ (ToBuild(n)' <=> ToBuild(n))
  BY <1>3 DEF RowCount, Living, ToBuild, Waits
<1>9. ASSUME Clean' PROVE BuildsSound' /\ (ConfigInv => ConfigInv')
  <2>1. BuildsSound
    BY <1>3, <1>9 DEF Clean, BuildsInv, BuildsSound
  <2>2. UploadInv' /\ (ConfigInv => ConfigInv')
    BY <1>3, <1>8, <2>1, UploadsRest DEF BuildsSound
  <2>3. /\ \A c \in Builders : c # b => b_build[c].op = "idle"
        /\ r.id \in 1..RowCount /\ Builds(r) /\ b_archive # 0 /\ ~r.unread
        /\ r.moved \/ r.op = "built" => b_image = r.archive
        /\ \A n \in 1..RowCount :
             Living(n) => n = r.id \/ (~Living(r.id) /\ b_rows[n].status = "PENDING")
    BY <1>1, <1>2, <2>1, AtWork
  <2>4. PICK x \in Building : x = b_build'[b]
    BY <1>5
  <2>5. /\ x.op = op /\ x.id = r.id /\ x.archive = r.archive /\ (x.unread <=> r.unread)
        /\ x.moved => r.moved \/ taken
    BY <1>2, <1>5, <2>4
  <2>6. BuilderInv'
    <3>1. Builds(x)'
      BY <1>2, <1>3, <1>8, <2>3, <2>5 DEF Builds
    <3>2. x.moved \/ x.op = "built" => b_image' = x.archive
      BY <1>4, <2>3, <2>5
    <3>3. \A c \in Builders : c # b => b_build'[c].op = "idle"
      BY <1>5, <2>3
    <3> QED
      BY <1>3, <1>8, <2>3, <2>4, <2>5, <3>1, <3>2, <3>3, OnlyBuilder
  <2>7. StatusInv'
    <3> SUFFICES ASSUME NEW n \in 1..RowCount, Living(n), b_rows[n].status \in {"BUILDING", "SUCCESS"}
                 PROVE  Busy(b)' /\ b_build'[b].id = n
      BY <1>3, <1>8 DEF StatusInv
    <3>1. n = r.id
      BY <2>3
    <3> QED
      BY <2>4, <2>5, <3>1 DEF Busy
  <2> QED
    BY <2>2, <2>6, <2>7 DEF BuildsSound
<1> QED
  BY <1>3, <1>7, <1>9 DEF BuildsInv, BuildsSound, Clean

LEMMA EndBuildKeeps ==
  ASSUME BuildsInv, NEW b \in Builders, Scripts!EndBuild(b)
  PROVE  BuildsInv'
<1>1. BuildTypes
  BY DEF BuildsInv
<1>2. PICK r \in Building : r = b_build[b] /\ r.op \in {"built", "failed"}
  BY <1>1 DEF BuildTypes, Scripts!EndBuild
<1>3. UNCHANGED <<b_file, b_archive, b_image, b_messages, b_request, b_uploads, b_mixed>>
  BY DEF Scripts!EndBuild
<1>4. /\ b_build' \in [Builders -> Building] /\ b_build'[b].op = "idle"
      /\ \A c \in Builders : c # b => b_build'[c] = b_build[c]
  BY <1>1, NothingUnderWay, BuildSet DEF Scripts!EndBuild
<1>5. PICK s \in ScriptStates : s = IF r.op = "built" THEN "SUCCESS" ELSE "FAIL"
  BY DEF ScriptStates
<1>6. b_rows' = IF Scripts!Live(r.id) THEN [b_rows EXCEPT ![r.id].status = s] ELSE b_rows
  BY <1>2, <1>5, Zenon DEF Scripts!EndBuild
<1>7. /\ b_rows' \in Seq(ScriptRow) /\ RowCount' = RowCount
      /\ \A n \in 1..RowCount : /\ b_rows'[n].live <=> b_rows[n].live
                                /\ b_rows'[n].config = b_rows[n].config
                                /\ n # r.id \/ ~Living(n) => b_rows'[n].status = b_rows[n].status
                                /\ n = r.id /\ Living(n) => b_rows'[n].status = s
  <2>1. CASE Living(r.id)
    <3>1. r.id \in 1..RowCount /\ b_rows' = [b_rows EXCEPT ![r.id].status = s]
      BY <1>1, <1>6, <2>1, RowNumbers DEF Living
    <3>2. /\ b_rows' \in Seq(ScriptRow) /\ RowCount' = RowCount
          /\ b_rows'[r.id].status = s /\ (b_rows'[r.id].live <=> b_rows[r.id].live)
          /\ b_rows'[r.id].config = b_rows[r.id].config
          /\ \A m \in 1..RowCount : m # r.id => b_rows'[m] = b_rows[m]
      BY <1>1, <3>1, StatusWritten
    <3> QED
      BY <2>1, <3>2
  <2>2. CASE ~Living(r.id)
    <3>1. b_rows' = b_rows
      BY <1>1, <1>6, <2>2, RowNumbers
    <3> QED
      BY <1>1, <2>2, <3>1 DEF BuildTypes, RowCount
  <2> QED
    BY <2>1, <2>2
<1>8. BuildTypes'
  BY <1>1, <1>3, <1>4, <1>7 DEF BuildTypes
<1>9. \A n : (Living(n)' <=> Living(n)) /\ (ToBuild(n)' <=> ToBuild(n))
  BY <1>3, <1>7 DEF Living, ToBuild, Waits
<1>10. ASSUME Clean' PROVE BuildsSound' /\ (ConfigInv => ConfigInv')
  <2>1. BuildsSound
    BY <1>3, <1>10 DEF Clean, BuildsInv, BuildsSound
  <2>2. UploadInv' /\ (ConfigInv => ConfigInv')
    BY <1>3, <1>7, <2>1, UploadsRest DEF BuildsSound
  <2>3. /\ \A c \in Builders : c # b => b_build[c].op = "idle"
        /\ r.id \in 1..RowCount /\ Builds(r) /\ b_archive # 0 /\ ~r.unread
        /\ r.moved \/ r.op = "built" => b_image = r.archive
        /\ \A n \in 1..RowCount :
             Living(n) => n = r.id \/ (~Living(r.id) /\ b_rows[n].status = "PENDING")
    BY <1>1, <1>2, <2>1, AtWork
  <2>4. BuilderInv'
    <3>1. \A c \in Builders : ~Busy(c)'
      BY <1>4, <2>3 DEF Busy
    <3> QED
      BY <3>1 DEF BuilderInv
  <2>5. StatusInv'
    <3> SUFFICES ASSUME NEW n \in 1..RowCount, Living(n),
                        \/ b_rows'[n].status = "BUILDING"
                        \/ b_rows'[n].status = "SUCCESS" /\ b_image # b_archive
                 PROVE  ToBuild(n)
      BY <1>3, <1>7, <1>9 DEF StatusInv
    <3>1. n = r.id
      BY <1>7, <2>3
    <3>2. r.op = "built" /\ b_image # b_archive
      BY <1>5, <1>7, <3>1
    <3>3. r.archive # b_archive
      BY <2>3, <3>2
    <3> QED
      BY <2>3, <3>1, <3>3 DEF Builds
  <2> QED
    BY <2>2, <2>4, <2>5 DEF BuildsSound
<1> QED
  BY <1>3, <1>8, <1>10 DEF BuildsInv, BuildsSound, Clean

LEMMA BuilderLostKeeps ==
  ASSUME BuildsInv, NEW b \in Builders, Scripts!BuilderLost(b)
  PROVE  BuildsInv'
<1>1. BuildTypes
  BY DEF BuildsInv
<1>2. PICK r \in Building : r = b_build[b] /\ r.op # "idle"
  BY <1>1 DEF BuildTypes, Scripts!BuilderLost
<1>3. UNCHANGED <<b_rows, b_file, b_archive, b_image, b_request, b_uploads, b_mixed>>
  BY DEF Scripts!BuilderLost
<1>4. /\ b_build' \in [Builders -> Building] /\ b_build'[b].op = "idle"
      /\ \A c \in Builders : c # b => b_build'[c] = b_build[c]
  BY <1>1, NothingUnderWay, BuildSet DEF Scripts!BuilderLost
<1>5. b_messages' \in Seq(Nat) /\ Waits(r.id)' /\ \A m : Waits(m) => Waits(m)'
  <2>1. r.id \in Nat /\ b_messages' = Append(b_messages, r.id)
    BY <1>2 DEF Building, Scripts!BuilderLost
  <2> QED
    BY <1>1, <2>1, Appended
<1>6. BuildTypes'
  BY <1>1, <1>3, <1>4, <1>5 DEF BuildTypes
<1>7. RowCount' = RowCount /\ \A n : Living(n)' <=> Living(n)
  BY <1>3 DEF RowCount, Living
<1>8. ToBuild(r.id)' /\ \A n : ToBuild(n) => ToBuild(n)'
  BY <1>3, <1>5 DEF ToBuild
<1>9. ASSUME Clean' PROVE BuildsSound' /\ (ConfigInv => ConfigInv')
  <2>1. BuildsSound
    BY <1>3, <1>9 DEF Clean, BuildsInv, BuildsSound
  <2>2. \A c \in Builders : c # b => b_build[c].op = "idle"
    BY <1>1, <1>2, <2>1, AtWork
  <2>3. b_archive # 0
    BY <1>1, <1>2, <2>1, AtWork
  <2>4. UploadInv' /\ (ConfigInv => ConfigInv')
    BY <1>3, <1>7, <2>1, <2>3, UploadsRest DEF BuildsSound
  <2>5. BuilderInv'
    <3>1. \A c \in Builders : ~Busy(c)'
      BY <1>4, <2>2 DEF Busy
    <3> QED
      BY <3>1 DEF BuilderInv
  <2>6. StatusInv'
    <3>1. \A c \in Builders : Busy(c) => c = b
      BY <2>2 DEF Busy
    <3>2. \A n \in 1..RowCount :
            /\ Living(n)
            /\ \/ b_rows[n].status = "BUILDING"
               \/ b_rows[n].status = "SUCCESS" /\ b_image # b_archive
            => ToBuild(n) \/ n = r.id
      BY <1>2, <2>1, <3>1 DEF BuildsSound, StatusInv
    <3> QED
      BY <1>3, <1>7, <1>8, <3>2 DEF StatusInv
  <2> QED
    BY <2>4, <2>5, <2>6 DEF BuildsSound
<1> QED
  BY <1>3, <1>6, <1>9 DEF BuildsInv, BuildsSound, Clean

LEMMA BuildsStay ==
  ASSUME BuildsInv, UNCHANGED scriptsVars
  PROVE  BuildsInv'
<1>1. UNCHANGED <<b_rows, b_file, b_archive, b_image, b_messages, b_request, b_build, b_uploads, b_mixed>>
  BY DEF scriptsVars
<1>2. BuildTypes'
  BY <1>1 DEF BuildsInv, BuildTypes
<1>3. RowCount' = RowCount /\ \A n : ToBuild(n) => ToBuild(n)'
  BY <1>1 DEF RowCount, ToBuild, Waits
<1>4. ASSUME Clean PROVE BuildsSound' /\ (ConfigInv => ConfigInv')
  <2>1. BuildsSound
    BY <1>4 DEF BuildsInv, Clean, BuildsSound
  <2> QED
    BY <1>1, <1>3, <2>1, UploadsRest, BuildersRest DEF BuildsSound
<1> QED
  BY <1>1, <1>2, <1>4 DEF BuildsInv, BuildsSound, Clean

LEMMA BuildsStep == BuildsInv /\ [Scripts!Next]_scriptsVars => BuildsInv'
<1> SUFFICES ASSUME BuildsInv, [Scripts!Next]_scriptsVars PROVE BuildsInv'
  OBVIOUS
<1>1. CASE UNCHANGED scriptsVars
  BY <1>1, BuildsStay
<1>2. ASSUME NEW t \in Workers, Scripts!CreateScript(t) PROVE BuildsInv'
  BY <1>2, SaveKeeps DEF Scripts!CreateScript
<1>3. ASSUME NEW t \in Workers, NEW n \in Scripts!Ids, Scripts!UpdateScript(t, n) PROVE BuildsInv'
  <2>1. n \in Nat /\ Living(n)
    BY <1>3, RowNumbers DEF BuildsInv, Scripts!UpdateScript
  <2> QED
    BY <1>3, <2>1, SaveKeeps DEF Scripts!UpdateScript
<1>4. ASSUME NEW t \in Workers,
             \/ Scripts!ReadConfig(t) \/ Scripts!CommitRow(t) \/ Scripts!PushArchive(t)
             \/ Scripts!Dispatch(t) \/ Scripts!UploadFails(t) \/ Scripts!UploadDies(t)
      PROVE  BuildsInv'
  BY <1>4, ReadConfigKeeps, CommitRowKeeps, PushArchiveKeeps, DispatchKeeps, UploadEndsKeeps
<1>5. ASSUME NEW b \in Builders,
             \/ Scripts!Fetch(b) \/ Scripts!FetchFails(b) \/ Scripts!MarkBuilding(b)
             \/ Scripts!BuildImage(b) \/ Scripts!BuildUnread(b) \/ Scripts!Push(b)
             \/ Scripts!PushOneLayer(b) \/ Scripts!VerifyPush(b) \/ Scripts!EndBuild(b)
             \/ Scripts!BuilderLost(b)
      PROVE  BuildsInv'
  BY <1>5, FetchKeeps, FetchFailsKeeps, MarkBuildingKeeps, BuildImageKeeps,
     BuildUnreadKeeps, PushKeeps, PushOneLayerKeeps, VerifyPushKeeps, EndBuildKeeps, BuilderLostKeeps
<1>6. ASSUME NEW n \in Scripts!Ids, Scripts!DeleteScript(n) PROVE BuildsInv'
  BY <1>6, DeleteScriptKeeps
<1> QED
  BY <1>1, <1>2, <1>3, <1>4, <1>5, <1>6 DEF Scripts!Next

(* When uploads and builds are done, no script is left BUILDING, and one   *)
(* with SUCCESS has the image of the archive in S3, and was configured     *)
(* from it unless uploads overlapped: for any number of uploads, builders, *)
(* rows and lost builders, as long as nothing else failed (after a HEAD    *)
(* that failed before a push, SUCCESS may stand for any older image: see   *)
(* PushVerified), no two builds overlapped and no script was               *)
(* deleted while it was uploaded (docker_build and push_script_to_s3).     *)
THEOREM UploadsAreBuilt == AllSpec => []UploadedIsBuilt
<1>1. BuildsInv => UploadedIsBuilt
  <2> SUFFICES ASSUME BuildsInv, Scripts!AtRest, Clean,
                      NEW n \in 1..RowCount, Living(n)
               PROVE  /\ b_rows[n].status # "BUILDING"
                      /\ b_rows[n].status = "SUCCESS" =>
                           /\ b_image = b_archive
                           /\ "uploads" \notin b_mixed => b_rows[n].config = b_archive
    BY RowNumbers DEF BuildsInv, Clean, UploadedIsBuilt, Scripts!UploadedIsBuilt
  <2>1. BuildTypes /\ StatusInv /\ ("uploads" \notin b_mixed => ConfigInv)
    BY DEF BuildsInv, Clean
  <2>2. ~ToBuild(n) /\ \A b \in Builders : ~Busy(b)
    <3>1. Len(b_messages) = 0
      BY DEF Scripts!AtRest
    <3> QED
      BY <3>1 DEF Scripts!AtRest, ToBuild, Waits, Busy
  <2>3. b_rows[n].status # "BUILDING" /\ (b_rows[n].status = "SUCCESS" => b_image = b_archive)
    BY <2>1, <2>2 DEF StatusInv
  <2>4. "uploads" \notin b_mixed => b_rows[n].config = b_archive
    BY <2>1 DEF ConfigInv, Scripts!AtRest
  <2> QED
    BY <2>3, <2>4
<1>2. BuildsInv /\ [AllNext]_allVars => BuildsInv'
  BY ScriptsMove, BuildsStep
<1> QED
  BY <1>1, <1>2, BuildsStart, PTL DEF AllSpec

-----------------------------------------------------------------------------
(* The bounds of the uploads and of the builds                             *)

(* A request names a row and a file that there are, n rows, u uploads and  *)
(* a file f.                                                               *)
Fits(r, n, u, f) ==
  /\ r.id <= n /\ r.config <= u /\ (r.op # "idle" => f # 0)
  /\ r.op = "commit" => r.config # 0
  /\ r.op \in {"push", "dispatch"} => r.id # 0

(* So does a builder. *)
Made(r, n, u) ==
  r.id <= n /\ r.archive <= u /\ (r.op # "idle" => r.id # 0) /\ r.attempt <= 2

UnderWay == {t \in Workers : b_request[t].op # "idle"}

(* Each message stands for an upload, and for each fault there is one more.*)
LoadInv == Len(b_messages) + Cardinality(UnderWay) <= b_uploads + b_faults

FilesInv ==
  /\ b_file <= b_uploads /\ b_archive <= b_uploads /\ b_image <= b_uploads
  /\ b_uploads <= MaxUploads /\ b_faults \in 0..MaxFaults
  /\ b_mixed \subseteq {"uploads", "builds", "deletion", "failure"}

RowsInv ==
  /\ RowCount <= MaxRows
  /\ \A n \in 1..RowCount : b_rows[n].config # 0 /\ b_rows[n].config <= b_uploads
  /\ \A k \in 1..Len(b_messages) : b_messages[k] \in 1..RowCount

FitInv ==
  /\ \A t \in Workers : Fits(b_request[t], RowCount, b_uploads, b_file)
  /\ \A b \in Builders : Made(b_build[b], RowCount, b_uploads)

ScriptBounds == FilesInv /\ RowsInv /\ FitInv /\ LoadInv

ScriptMaxima == MaxUploads \in Nat /\ MaxRows \in Nat /\ MaxFaults \in Nat /\ IsFiniteSet(Workers)

LEMMA MaximaAre == ScriptMaxima
BY LifecyclesAssumption, CancellationAssumption DEF ScriptMaxima

LEMMA NoneFits ==
  ASSUME NEW n \in Nat, NEW u \in Nat, NEW f
  PROVE  Fits(Scripts!NoRequest, n, u, f) /\ Made(Scripts!NoBuild, n, u)
BY NothingUnderWay DEF Fits, Made

LEMMA FitsLater ==
  ASSUME NEW n \in Nat, NEW u \in Nat, NEW f, NEW m \in Nat, NEW v \in Nat, NEW g,
         n <= m, u <= v, f # 0 => g # 0
  PROVE  /\ \A r \in Upload : Fits(r, n, u, f) => Fits(r, m, v, g)
         /\ \A r \in Building : Made(r, n, u) => Made(r, m, v)
BY DEF Fits, Made, Upload, Building

LEMMA UnderWayCount == IsFiniteSet(UnderWay) /\ Cardinality(UnderWay) \in Nat
<1>1. UnderWay \in SUBSET Workers
  BY DEF UnderWay
<1> QED
  BY <1>1, MaximaAre, FS_Subset, FS_CardinalityType DEF ScriptMaxima

LEMMA UnderWayNext == (IsFiniteSet(UnderWay) /\ Cardinality(UnderWay) \in Nat)'
BY UnderWayCount, PTL

(* One thread goes on, ends or begins. *)
LEMMA UnderWayMoves ==
  ASSUME BuildTypes, NEW t \in Workers, NEW x \in Upload, Scripts!Then(t, x)
  PROVE  /\ Cardinality(UnderWay') \in Nat /\ Cardinality(UnderWay) \in Nat
         /\ Cardinality(UnderWay') <= Cardinality(UnderWay) + 1
         /\ b_request[t].op # "idle" => Cardinality(UnderWay') <= Cardinality(UnderWay)
         /\ b_request[t].op # "idle" /\ x.op = "idle" =>
              Cardinality(UnderWay') = Cardinality(UnderWay) - 1
<1>1. b_request'[t] = x /\ \A u \in Workers : u # t => b_request'[u] = b_request[u]
  BY RequestSet
<1>2. IsFiniteSet(UnderWay) /\ Cardinality(UnderWay) \in Nat
      /\ IsFiniteSet(UnderWay') /\ Cardinality(UnderWay') \in Nat
  BY UnderWayCount, UnderWayNext
<1>3. /\ Cardinality(UnderWay \cup {t}) \in {Cardinality(UnderWay), Cardinality(UnderWay) + 1}
      /\ t \in UnderWay => Cardinality(UnderWay \ {t}) = Cardinality(UnderWay) - 1
  <2>1. Cardinality(UnderWay \cup {t}) \in {Cardinality(UnderWay), Cardinality(UnderWay) + 1}
    BY <1>2, FS_AddElement
  <2>2. t \in UnderWay => Cardinality(UnderWay \ {t}) = Cardinality(UnderWay) - 1
    BY <1>2, FS_RemoveElement
  <2> QED
    BY <2>1, <2>2
<1>4. b_request[t].op # "idle" <=> t \in UnderWay
  BY DEF UnderWay
<1>5. CASE x.op = "idle" /\ t \in UnderWay
  <2>1. UnderWay' = UnderWay \ {t}
    BY <1>1, <1>5 DEF UnderWay
  <2> QED
    BY <1>2, <1>3, <1>4, <1>5, <2>1
<1>6. CASE x.op # "idle" /\ t \in UnderWay
  <2>1. UnderWay' = UnderWay
    BY <1>1, <1>6 DEF UnderWay
  <2> QED
    BY <1>2, <1>4, <1>6, <2>1
<1>7. CASE x.op = "idle" /\ t \notin UnderWay
  <2>1. UnderWay' = UnderWay
    BY <1>1, <1>7 DEF UnderWay
  <2> QED
    BY <1>2, <1>4, <1>7, <2>1
<1>8. CASE x.op # "idle" /\ t \notin UnderWay
  <2>1. UnderWay' = UnderWay \cup {t}
    BY <1>1, <1>8 DEF UnderWay
  <2> QED
    BY <1>2, <1>3, <1>4, <1>8, <2>1
<1> QED
  BY <1>5, <1>6, <1>7, <1>8

(* The rows stay, or one of them gets another status or goes away.         *)
RowsRest == RowCount' = RowCount /\ \A n \in 1..RowCount : b_rows'[n].config = b_rows[n].config

LEMMA RowsSame == UNCHANGED b_rows => RowsRest
BY DEF RowsRest, RowCount

LEMMA StatusRest ==
  ASSUME BuildTypes, NEW n, NEW s \in ScriptStates,
         \/ b_rows' = b_rows
         \/ Living(n) /\ b_rows' = [b_rows EXCEPT ![n].status = s]
  PROVE  RowsRest
<1>1. CASE b_rows' = b_rows
  BY <1>1, RowsSame
<1>2. CASE Living(n) /\ b_rows' = [b_rows EXCEPT ![n].status = s]
  <2>1. n \in 1..RowCount
    BY <1>2 DEF Living
  <2>2. /\ RowCount' = RowCount /\ b_rows'[n].config = b_rows[n].config
        /\ \A m \in 1..RowCount : m # n => b_rows'[m] = b_rows[m]
    BY <1>2, <2>1, StatusWritten
  <2>3. \A m \in 1..RowCount : b_rows'[m].config = b_rows[m].config
    BY <2>2
  <2> QED
    BY <2>2, <2>3 DEF RowsRest
<1> QED
  BY <1>1, <1>2

LEMMA WriteRest ==
  ASSUME BuildTypes, NEW n, NEW seen, NEW s \in ScriptStates, Scripts!WriteStatus(n, seen, s)
  PROVE  RowsRest
<1>1. \/ b_rows' = b_rows
      \/ Scripts!Live(n) /\ b_rows' = [b_rows EXCEPT ![n].status = s]
  BY Zenon DEF Scripts!WriteStatus
<1> QED
  BY <1>1, RowNumbers, StatusRest

LEMMA MessagesRest ==
  ASSUME BuildTypes, FilesInv, RowsInv, RowsRest, UNCHANGED b_messages, b_uploads <= b_uploads',
         b_uploads \in Nat, b_uploads' \in Nat
  PROVE  RowsInv'
<1>1. RowCount' = RowCount /\ \A n \in 1..RowCount : b_rows'[n].config = b_rows[n].config
  BY DEF RowsRest
<1>2. \A n \in 1..RowCount : b_rows'[n].config # 0 /\ b_rows'[n].config <= b_uploads'
  <2> SUFFICES ASSUME NEW n \in 1..RowCount
               PROVE  b_rows'[n].config # 0 /\ b_rows'[n].config <= b_uploads'
    OBVIOUS
  <2>1. b_rows[n].config \in Nat /\ b_rows[n].config <= b_uploads /\ b_rows[n].config # 0
    BY RowNumbers DEF RowsInv, ScriptRow
  <2> QED
    BY <1>1, <2>1
<1> QED
  BY <1>1, <1>2 DEF RowsInv

(* A message is added, or the oldest is taken. *)
LEMMA MessageAdded ==
  ASSUME BuildTypes, FilesInv, RowsInv, RowsRest, UNCHANGED b_uploads,
         NEW n \in 1..RowCount, b_messages' = Append(b_messages, n)
  PROVE  RowsInv' /\ Len(b_messages') = Len(b_messages) + 1
<1>1. PICK k \in Nat : k = Len(b_messages)
  BY MessageNumbers
<1>2. n \in Nat
  OBVIOUS
<1>3. /\ Len(b_messages') = k + 1 /\ b_messages'[k + 1] = n
      /\ \A i \in 1..k : b_messages'[i] = b_messages[i]
  BY <1>1, <1>2, AppendProperties DEF BuildTypes
<1>4. RowCount' = RowCount /\ \A m \in 1..RowCount : b_rows'[m].config = b_rows[m].config
  BY DEF RowsRest
<1>5. \A i \in 1..(k + 1) : b_messages'[i] \in 1..RowCount
  <2> SUFFICES ASSUME NEW i \in 1..(k + 1) PROVE b_messages'[i] \in 1..RowCount
    OBVIOUS
  <2>1. i \in 1..k \/ i = k + 1
    OBVIOUS
  <2> QED
    BY <1>1, <1>3, <2>1 DEF RowsInv
<1> QED
  BY <1>1, <1>3, <1>4, <1>5 DEF RowsInv

LEMMA MessageTaken ==
  ASSUME BuildTypes, FilesInv, RowsInv, UNCHANGED <<b_rows, b_uploads>>,
         b_messages # <<>>, b_messages' = Tail(b_messages)
  PROVE  /\ RowsInv' /\ Len(b_messages') = Len(b_messages) - 1
         /\ Head(b_messages) \in 1..RowCount
<1>1. PICK k \in Nat : k = Len(b_messages) /\ k > 0
  BY MessageNumbers
<1>2. /\ Len(b_messages') = k - 1 /\ Head(b_messages) = b_messages[1]
      /\ \A i \in 1..(k - 1) : b_messages'[i] = b_messages[i + 1]
  BY <1>1, HeadTailProperties DEF BuildTypes
<1>3. \A i \in 1..(k - 1) : b_messages'[i] \in 1..RowCount
  <2> SUFFICES ASSUME NEW i \in 1..(k - 1) PROVE b_messages'[i] \in 1..RowCount
    OBVIOUS
  <2>1. i + 1 \in 1..k
    OBVIOUS
  <2> QED
    BY <1>1, <1>2, <2>1 DEF RowsInv
<1>4. RowCount' = RowCount
  BY DEF RowCount
<1>5. 1 \in 1..k
  BY <1>1
<1> QED
  BY <1>1, <1>2, <1>3, <1>4, <1>5 DEF RowsInv

LEMMA RowsNumbered == BuildTypes => RowCount \in Nat /\ Len(b_messages) \in Nat
BY RowNumbers, MessageNumbers

LEMMA RowsNumberedNext == BuildTypes' => RowCount' \in Nat /\ Len(b_messages') \in Nat
<1>1. (BuildTypes => RowCount \in Nat /\ Len(b_messages) \in Nat)'
  BY RowsNumbered, PTL
<1> QED
  BY <1>1

(* Who goes on fits, and so do the others. *)
LEMMA RequestFits ==
  ASSUME BuildTypes, BuildTypes', FitInv, NEW t \in Workers, NEW x \in Upload, Scripts!Then(t, x),
         UNCHANGED b_build, RowCount <= RowCount', b_uploads <= b_uploads', b_file # 0 => b_file' # 0,
         Fits(x, RowCount', b_uploads', b_file')
  PROVE  FitInv'
<1>1. /\ RowCount \in Nat /\ RowCount' \in Nat /\ b_uploads \in Nat /\ b_uploads' \in Nat
      /\ b_request \in [Workers -> Upload] /\ b_build \in [Builders -> Building]
  BY RowsNumbered, RowsNumberedNext DEF BuildTypes
<1>2. /\ \A r \in Upload : Fits(r, RowCount, b_uploads, b_file) => Fits(r, RowCount', b_uploads', b_file')
      /\ \A r \in Building : Made(r, RowCount, b_uploads) => Made(r, RowCount', b_uploads')
  BY <1>1, FitsLater
<1>3. b_request'[t] = x /\ \A u \in Workers : u # t => b_request'[u] = b_request[u]
  BY RequestSet
<1> QED
  BY <1>1, <1>2, <1>3 DEF FitInv

LEMMA BuildFits ==
  ASSUME BuildTypes, FitInv, NEW b \in Builders, NEW x \in Building, Scripts!Now(b, x),
         UNCHANGED <<b_request, b_uploads, b_file>>, RowCount' = RowCount,
         Made(x, RowCount, b_uploads)
  PROVE  FitInv'
<1>1. b_build'[b] = x /\ \A c \in Builders : c # b => b_build'[c] = b_build[c]
  BY BuildSet
<1> QED
  BY <1>1 DEF FitInv

LEMMA NobodyMoves ==
  ASSUME FitInv, UNCHANGED <<b_request, b_build, b_uploads, b_file>>, RowCount' = RowCount
  PROVE  FitInv'
BY DEF FitInv

LEMMA UnderWayStays == UNCHANGED b_request => Cardinality(UnderWay') = Cardinality(UnderWay)
<1> SUFFICES ASSUME UNCHANGED b_request PROVE Cardinality(UnderWay') = Cardinality(UnderWay)
  OBVIOUS
<1>1. UnderWay' = UnderWay
  BY DEF UnderWay
<1> QED
  BY <1>1

LEMMA Outweighs ==
  ASSUME NEW a \in Int, NEW b \in Int, NEW c \in Int, NEW d \in Int, a <= b, c + b <= a + d
  PROVE  c <= d
OBVIOUS

(* What the counters of a step add up to. *)
LEMMA LoadKept ==
  ASSUME BuildTypes, BuildTypes', LoadInv, FilesInv, FilesInv',
         NEW c \in Nat, NEW d \in Nat, c = Cardinality(UnderWay), d = Cardinality(UnderWay'),
         (Len(b_messages') + d) + (b_uploads + b_faults) <= (Len(b_messages) + c) + (b_uploads' + b_faults')
  PROVE  LoadInv'
<1>1. /\ Len(b_messages) \in Nat /\ Len(b_messages') \in Nat /\ b_uploads \in Nat /\ b_uploads' \in Nat
  BY RowsNumbered, RowsNumberedNext DEF BuildTypes
<1>2. b_faults \in Nat /\ b_faults' \in Nat
  BY MaximaAre DEF FilesInv, ScriptMaxima
<1>3. PICK l \in Nat, m \in Nat, u \in Nat, v \in Nat, f \in Nat, g \in Nat :
        /\ l = Len(b_messages) /\ m = Len(b_messages') /\ u = b_uploads /\ v = b_uploads'
        /\ f = b_faults /\ g = b_faults'
        /\ l + c <= u + f /\ (m + d) + (u + f) <= (l + c) + (v + g)
  BY <1>1, <1>2, Zenon DEF LoadInv
<1>4. m + d <= v + g
  <2>1. l + c \in Int /\ u + f \in Int /\ m + d \in Int /\ v + g \in Int
    OBVIOUS
  <2> QED
    BY <1>3, <2>1, Outweighs
<1> QED
  BY <1>3, <1>4 DEF LoadInv

(* What a step of a thread adds to the messages and requests under way is  *)
(* paid for by an upload or a fault.                                       *)
Paid(k) == Len(b_messages') + k + b_uploads + b_faults <= Len(b_messages) + b_uploads' + b_faults'

LEMMA ThreadBounds ==
  ASSUME BuildTypes, BuildTypes', ScriptBounds, NEW t \in Workers, NEW x \in Upload,
         Scripts!Then(t, x), UNCHANGED b_build, FilesInv', RowsInv',
         RowCount <= RowCount', b_uploads <= b_uploads', b_file # 0 => b_file' # 0,
         Fits(x, RowCount', b_uploads', b_file'),
         \/ b_request[t].op # "idle" /\ x.op = "idle" /\ Paid(-1)
         \/ b_request[t].op # "idle" /\ Paid(0)
         \/ Paid(1)
  PROVE  ScriptBounds'
<1>1. FitInv'
  BY RequestFits DEF ScriptBounds
<1>2. PICK c \in Nat, d \in Nat : c = Cardinality(UnderWay) /\ d = Cardinality(UnderWay')
  BY UnderWayCount, UnderWayNext
<1>3. /\ d <= c + 1
      /\ b_request[t].op # "idle" => d <= c
      /\ b_request[t].op # "idle" /\ x.op = "idle" => d = c - 1
  BY <1>2, UnderWayMoves
<1>4. PICK l \in Nat, m \in Nat, u \in Nat, v \in Nat, f \in Nat, g \in Nat :
        /\ l = Len(b_messages) /\ m = Len(b_messages') /\ u = b_uploads /\ v = b_uploads'
        /\ f = b_faults /\ g = b_faults'
  <2>1. /\ Len(b_messages) \in Nat /\ Len(b_messages') \in Nat
        /\ b_uploads \in Nat /\ b_uploads' \in Nat
    BY RowsNumbered, RowsNumberedNext DEF BuildTypes
  <2>2. b_faults \in Nat /\ b_faults' \in Nat
    BY MaximaAre DEF ScriptBounds, FilesInv, ScriptMaxima
  <2> QED
    BY <2>1, <2>2, Zenon
<1>5. (m + d) + (u + f) <= (l + c) + (v + g)
  <2> DEFINE p == m + u + f
             q == l + v + g
  <2>0. /\ p \in Int /\ q \in Int /\ (m + d) + (u + f) = d + p /\ (l + c) + (v + g) = c + q
        /\ \A k \in {-1, 0, 1} : m + k + u + f = k + p
    OBVIOUS
  <2>4. \A k \in {-1, 0, 1} : Paid(k) => m + k + u + f <= q
    BY <1>4 DEF Paid
  <2>5. \A k \in {-1, 0, 1} : Paid(k) => k + p <= q
    BY <2>0, <2>4
  <2> HIDE DEF p, q
  <2>1. CASE d = c - 1 /\ Paid(-1)
    BY <2>0, <2>1, <2>5
  <2>2. CASE d <= c /\ Paid(0)
    BY <2>0, <2>2, <2>5
  <2>3. CASE d <= c + 1 /\ Paid(1)
    BY <2>0, <2>3, <2>5
  <2> QED
    BY <1>3, <2>1, <2>2, <2>3
<1>6. LoadInv'
  BY <1>2, <1>4, <1>5, LoadKept DEF ScriptBounds
<1> QED
  BY <1>1, <1>6 DEF ScriptBounds

LEMMA BuilderBounds ==
  ASSUME BuildTypes, BuildTypes', ScriptBounds, UNCHANGED b_request,
         FilesInv', RowsInv', FitInv', Paid(0)
  PROVE  ScriptBounds'
<1>1. PICK c \in Nat : c = Cardinality(UnderWay) /\ c = Cardinality(UnderWay')
  BY UnderWayCount, UnderWayStays
<1>2. PICK l \in Nat, m \in Nat, u \in Nat, v \in Nat, f \in Nat, g \in Nat :
        /\ l = Len(b_messages) /\ m = Len(b_messages') /\ u = b_uploads /\ v = b_uploads'
        /\ f = b_faults /\ g = b_faults' /\ m + 0 + u + f <= l + v + g
  <2>1. /\ Len(b_messages) \in Nat /\ Len(b_messages') \in Nat
        /\ b_uploads \in Nat /\ b_uploads' \in Nat
    BY RowsNumbered, RowsNumberedNext DEF BuildTypes
  <2>2. b_faults \in Nat /\ b_faults' \in Nat
    BY MaximaAre DEF ScriptBounds, FilesInv, ScriptMaxima
  <2> QED
    BY <2>1, <2>2, Zenon DEF Paid
<1>3. (m + c) + (u + f) <= (l + c) + (v + g)
  <2>1. PICK p \in Nat, q \in Nat : /\ p = m + u + f /\ q = l + v + g /\ p <= q
                                     /\ (m + c) + (u + f) = c + p /\ (l + c) + (v + g) = c + q
    BY <1>2
  <2> QED
    BY <2>1
<1>4. LoadInv'
  BY <1>1, <1>2, <1>3, LoadKept DEF ScriptBounds
<1> QED
  BY <1>4 DEF ScriptBounds

Numbered ==
  /\ RowCount \in Nat /\ Len(b_messages) \in Nat /\ b_uploads \in Nat /\ b_faults \in Nat
  /\ b_file \in Nat /\ b_archive \in Nat /\ b_image \in Nat

LEMMA AllNumbered == BuildTypes /\ FilesInv => Numbered
BY RowsNumbered, MaximaAre DEF BuildTypes, FilesInv, ScriptMaxima, Numbered

(* A step that adds nothing. *)
LEMMA NothingAdded ==
  ASSUME Numbered, Len(b_messages') \in Nat, b_faults' \in Nat, UNCHANGED b_uploads,
         b_faults' = b_faults \/ b_faults' = b_faults + 1
  PROVE  /\ Len(b_messages') <= Len(b_messages) => Paid(0)
         /\ Len(b_messages') = Len(b_messages) + 1 => Paid(-1)
         /\ Len(b_messages') = Len(b_messages) + 1 /\ b_faults' = b_faults + 1 => Paid(0)
<1>1. PICK l \in Nat, m \in Nat, u \in Nat, f \in Nat, g \in Nat :
        /\ l = Len(b_messages) /\ m = Len(b_messages') /\ u = b_uploads /\ u = b_uploads'
        /\ f = b_faults /\ g = b_faults'
  BY DEF Numbered
<1>2. g = f \/ g = f + 1
  BY <1>1
<1>3. /\ m <= l => m + 0 + u + f <= l + u + g
      /\ m = l + 1 => m + -1 + u + f <= l + u + g
      /\ m = l + 1 /\ g = f + 1 => m + 0 + u + f <= l + u + g
  BY <1>2
<1> QED
  BY <1>1, <1>3 DEF Paid

LEMMA SaveBounded ==
  ASSUME BuildTypes, BuildTypes', ScriptBounds, NEW t \in Workers, NEW n \in 0..RowCount, Scripts!Save(t, n)
  PROVE  ScriptBounds'
<1>1. Numbered /\ n \in Nat /\ n <= RowCount
  BY AllNumbered DEF ScriptBounds, Numbered
<1>2. PICK a, x : a = [Scripts!NoRequest EXCEPT !.op = "saved"] /\ x = [a EXCEPT !.id = n]
  OBVIOUS
<1>3. Scripts!Then(t, x)
  BY <1>2, Zenon DEF Scripts!Save
<1>4. a \in Upload /\ a.op = "saved" /\ a.config = 0
  BY <1>2, NothingUnderWay DEF Upload
<1>5. x \in Upload /\ x.op = "saved" /\ x.id = n /\ x.config = 0
  BY <1>1, <1>2, <1>4 DEF Upload
<1>6. /\ UNCHANGED <<b_rows, b_archive, b_image, b_messages, b_build, b_faults>>
      /\ b_uploads < MaxUploads /\ b_file' = b_uploads + 1 /\ b_uploads' = b_uploads + 1
      /\ b_mixed' = b_mixed \cup {k \in {"uploads"} : \E u \in Workers : b_request[u].op # "idle"}
  BY DEF Scripts!Save
<1>7. RowCount' = RowCount
  BY <1>6 DEF RowCount
<1>8. FilesInv'
  <2>1. b_mixed' \subseteq {"uploads", "builds", "deletion", "failure"} /\ b_faults' \in 0..MaxFaults
    BY <1>6 DEF ScriptBounds, FilesInv
  <2>2. /\ b_archive <= b_uploads + 1 /\ b_image <= b_uploads + 1 /\ b_uploads + 1 <= MaxUploads
    BY <1>1, <1>6, MaximaAre DEF ScriptBounds, FilesInv, Numbered, ScriptMaxima
  <2> QED
    BY <1>1, <1>6, <2>1, <2>2 DEF FilesInv, Numbered
<1>9. RowsInv'
  BY <1>1, <1>6, RowsSame, MessagesRest DEF ScriptBounds, Numbered
<1>10. Fits(x, RowCount', b_uploads', b_file')
  BY <1>1, <1>5, <1>6, <1>7 DEF Fits, Numbered
<1>11. Paid(1)
  BY <1>1, <1>6 DEF Paid, Numbered
<1> QED
  BY <1>1, <1>3, <1>5, <1>6, <1>7, <1>8, <1>9, <1>10, <1>11, ThreadBounds DEF Numbered

LEMMA FilesRest ==
  ASSUME FilesInv, UNCHANGED <<b_file, b_archive, b_image, b_uploads>>,
         b_faults' = b_faults \/ (b_faults < MaxFaults /\ b_faults' = b_faults + 1),
         b_mixed' \subseteq b_mixed \cup {"uploads", "builds", "deletion", "failure"}
  PROVE  FilesInv' /\ b_faults' \in Nat
<1>1. b_faults' \in 0..MaxFaults
  BY MaximaAre DEF FilesInv, ScriptMaxima
<1>2. b_mixed' \subseteq {"uploads", "builds", "deletion", "failure"}
  BY DEF FilesInv
<1>3. b_faults' \in Nat
  BY <1>1, MaximaAre DEF ScriptMaxima
<1> QED
  BY <1>1, <1>2, <1>3 DEF FilesInv

(* A thread goes on with its row, or leaves it, and the rest stays.        *)
LEMMA ThreadGoesOn ==
  ASSUME BuildTypes, BuildTypes', ScriptBounds, NEW t \in Workers, NEW x \in Upload,
         Scripts!Then(t, x), b_request[t].op # "idle",
         UNCHANGED <<b_file, b_archive, b_image, b_uploads, b_messages, b_build>>, RowsRest,
         b_faults' = b_faults \/ (b_faults < MaxFaults /\ b_faults' = b_faults + 1),
         b_mixed' \subseteq b_mixed \cup {"uploads", "builds", "deletion", "failure"},
         Fits(x, RowCount, b_uploads, b_file)
  PROVE  ScriptBounds'
<1>1. Numbered
  BY AllNumbered DEF ScriptBounds
<1>2. FilesInv' /\ b_faults' \in Nat
  BY FilesRest DEF ScriptBounds
<1>3. RowCount' = RowCount /\ RowsInv'
  BY <1>1, MessagesRest DEF ScriptBounds, RowsRest, Numbered
<1>4. Paid(0)
  BY <1>1, <1>2, NothingAdded DEF Numbered
<1> QED
  BY <1>1, <1>2, <1>3, <1>4, ThreadBounds DEF Numbered

LEMMA ThreadFits ==
  ASSUME BuildTypes, ScriptBounds, NEW t \in Workers
  PROVE  b_request[t] \in Upload /\ Fits(b_request[t], RowCount, b_uploads, b_file)
BY DEF BuildTypes, ScriptBounds, FitInv

LEMMA ReadConfigBounded ==
  ASSUME BuildTypes, BuildTypes', ScriptBounds, NEW t \in Workers, Scripts!ReadConfig(t)
  PROVE  ScriptBounds'
<1>1. Numbered
  BY AllNumbered DEF ScriptBounds
<1>2. PICK r \in Upload : r = b_request[t] /\ r.op = "saved" /\ Fits(r, RowCount, b_uploads, b_file)
  BY ThreadFits DEF Scripts!ReadConfig
<1>3. PICK a, y : a = [r EXCEPT !.op = "commit"] /\ y = [a EXCEPT !.config = b_file]
  OBVIOUS
<1>4. Scripts!Then(t, Scripts!NoRequest) \/ Scripts!Then(t, y)
  BY <1>2, <1>3, Zenon DEF Scripts!ReadConfig
<1>5. a \in Upload /\ a.op = "commit" /\ a.id = r.id
  BY <1>3 DEF Upload
<1>6. y \in Upload /\ y.op = "commit" /\ y.id = r.id /\ y.config = b_file
  BY <1>1, <1>3, <1>5 DEF Upload, Numbered
<1>7. Fits(y, RowCount, b_uploads, b_file) /\ Fits(Scripts!NoRequest, RowCount, b_uploads, b_file)
  BY <1>1, <1>2, <1>6, NoneFits DEF Fits, Numbered, ScriptBounds, FilesInv
<1>8. UNCHANGED <<b_rows, b_file, b_archive, b_image, b_messages, b_build, b_uploads, b_mixed, b_faults>>
  BY DEF Scripts!ReadConfig
<1> QED
  BY <1>2, <1>4, <1>6, <1>7, <1>8, NothingUnderWay, RowsSame, ThreadGoesOn

LEMMA InsertBounded ==
  ASSUME BuildTypes, BuildTypes', ScriptBounds, NEW t \in Workers, NEW r \in Upload, r = b_request[t],
         r.op = "commit", RowCount < MaxRows,
         b_rows' = Append(b_rows, [live |-> TRUE, status |-> "PENDING", config |-> r.config]),
         Scripts!Then(t, [r EXCEPT !.op = "push", !.id = RowCount + 1]),
         UNCHANGED <<b_file, b_archive, b_image, b_messages, b_build, b_uploads, b_mixed, b_faults>>
  PROVE  ScriptBounds'
<1>1. Numbered /\ Fits(r, RowCount, b_uploads, b_file)
  BY AllNumbered, ThreadFits DEF ScriptBounds
<1>2. PICK k \in Nat : k = RowCount
  BY <1>1 DEF Numbered
<1>3. PICK a, x : a = [r EXCEPT !.op = "push"] /\ x = [a EXCEPT !.id = k + 1]
  OBVIOUS
<1>4. Scripts!Then(t, x)
  BY <1>2, <1>3, Zenon
<1>5. a \in Upload /\ a.op = "push" /\ a.config = r.config /\ k + 1 \in Nat
  BY <1>3 DEF Upload
<1>6. x \in Upload /\ x.op = "push" /\ x.id = k + 1 /\ x.config = r.config
  BY <1>3, <1>5 DEF Upload
<1>7. PICK s : s = [live |-> TRUE, status |-> "PENDING", config |-> r.config]
  OBVIOUS
<1>8. s \in ScriptRow /\ s.config = r.config
  BY <1>7 DEF ScriptRow, ScriptStates, Upload
<1>9. /\ RowCount' = k + 1 /\ b_rows'[k + 1] = s
      /\ \A n \in 1..k : b_rows'[n] = b_rows[n]
  <2>1. b_rows \in Seq(ScriptRow) /\ b_rows' = Append(b_rows, s)
    BY <1>7 DEF BuildTypes
  <2> QED
    BY <1>2, <1>8, <2>1, AppendProperties DEF RowCount
<1>10. RowsInv'
  <2>1. k + 1 <= MaxRows
    BY <1>2, MaximaAre DEF ScriptMaxima
  <2>2. s.config # 0 /\ s.config <= b_uploads
    BY <1>1, <1>8 DEF Fits
  <2>3. \A n \in 1..(k + 1) : b_rows'[n].config # 0 /\ b_rows'[n].config <= b_uploads
    <3> SUFFICES ASSUME NEW n \in 1..(k + 1)
                 PROVE  b_rows'[n].config # 0 /\ b_rows'[n].config <= b_uploads
      OBVIOUS
    <3>1. n \in 1..k \/ n = k + 1
      OBVIOUS
    <3> QED
      BY <1>2, <1>9, <2>2, <3>1 DEF ScriptBounds, RowsInv
  <2>4. \A i \in 1..Len(b_messages) : b_messages[i] \in 1..(k + 1)
    BY <1>2 DEF ScriptBounds, RowsInv
  <2> QED
    BY <1>9, <2>1, <2>3, <2>4 DEF RowsInv
<1>11. FilesInv' /\ b_faults' \in Nat
  BY FilesRest DEF ScriptBounds
<1>12. Fits(x, RowCount', b_uploads', b_file')
  BY <1>1, <1>6, <1>9 DEF Fits
<1>13. Paid(0)
  BY <1>1, <1>11, NothingAdded DEF Numbered
<1>14. RowCount <= RowCount' /\ b_uploads <= b_uploads'
  BY <1>1, <1>2, <1>9 DEF Numbered
<1> QED
  BY <1>4, <1>6, <1>10, <1>11, <1>12, <1>13, <1>14, ThreadBounds

LEMMA UpdateBounded ==
  ASSUME BuildTypes, BuildTypes', ScriptBounds, NEW t \in Workers, NEW r \in Upload, r = b_request[t],
         r.op = "commit", Scripts!Live(r.id), b_rows' = [b_rows EXCEPT ![r.id].config = r.config],
         Scripts!Then(t, [r EXCEPT !.op = "push", !.seen = b_rows[r.id].status]),
         UNCHANGED <<b_file, b_archive, b_image, b_messages, b_build, b_uploads, b_mixed, b_faults>>
  PROVE  ScriptBounds'
<1>1. Numbered /\ Fits(r, RowCount, b_uploads, b_file)
  BY AllNumbered, ThreadFits DEF ScriptBounds
<1>2. r.id \in 1..RowCount /\ b_rows[r.id] \in ScriptRow
  BY RowNumbers DEF Living
<1>3. PICK a, x : a = [r EXCEPT !.op = "push"] /\ x = [a EXCEPT !.seen = b_rows[r.id].status]
  OBVIOUS
<1>4. Scripts!Then(t, x)
  BY <1>3, Zenon
<1>5. a \in Upload /\ a.op = "push" /\ a.id = r.id /\ a.config = r.config
  BY <1>3 DEF Upload
<1>6. x \in Upload /\ x.op = "push" /\ x.id = r.id /\ x.config = r.config
  BY <1>2, <1>3, <1>5 DEF Upload, ScriptRow
<1>7. PICK s : s = [b_rows[r.id] EXCEPT !.config = r.config]
  OBVIOUS
<1>8. s \in ScriptRow /\ s.config = r.config
  <2>1. r.config \in Nat
    BY DEF Upload
  <2> QED
    BY <1>2, <1>7, <2>1 DEF ScriptRow
<1>9. b_rows' = [b_rows EXCEPT ![r.id] = s]
  BY <1>7, Zenon
<1>10. /\ RowCount' = RowCount /\ b_rows'[r.id] = s
       /\ \A m \in 1..RowCount : m # r.id => b_rows'[m] = b_rows[m]
  BY <1>2, <1>8, <1>9, RowRewritten
<1>11. RowsInv'
  <2>1. s.config # 0 /\ s.config <= b_uploads
    BY <1>1, <1>8 DEF Fits
  <2>2. \A n \in 1..RowCount : b_rows'[n].config # 0 /\ b_rows'[n].config <= b_uploads
    BY <1>10, <2>1 DEF ScriptBounds, RowsInv
  <2> QED
    BY <1>10, <2>2 DEF ScriptBounds, RowsInv
<1>12. FilesInv' /\ b_faults' \in Nat
  BY FilesRest DEF ScriptBounds
<1>13. Fits(x, RowCount', b_uploads', b_file')
  BY <1>1, <1>2, <1>6, <1>10 DEF Fits
<1>14. Paid(0)
  BY <1>1, <1>12, NothingAdded DEF Numbered
<1>15. RowCount <= RowCount' /\ b_uploads <= b_uploads'
  BY <1>1, <1>10 DEF Numbered
<1> QED
  BY <1>4, <1>6, <1>11, <1>12, <1>13, <1>14, <1>15, ThreadBounds

LEMMA CommitRowBounded ==
  ASSUME BuildTypes, BuildTypes', ScriptBounds, NEW t \in Workers, Scripts!CommitRow(t)
  PROVE  ScriptBounds'
<1>1. PICK r \in Upload : r = b_request[t] /\ r.op = "commit"
  BY ThreadFits DEF Scripts!CommitRow
<1>2. UNCHANGED <<b_file, b_archive, b_image, b_messages, b_build, b_uploads, b_mixed, b_faults>>
  BY DEF Scripts!CommitRow
<1>3. \/ /\ RowCount < MaxRows
         /\ b_rows' = Append(b_rows, [live |-> TRUE, status |-> "PENDING", config |-> r.config])
         /\ Scripts!Then(t, [r EXCEPT !.op = "push", !.id = RowCount + 1])
      \/ /\ Scripts!Live(r.id)
         /\ b_rows' = [b_rows EXCEPT ![r.id].config = r.config]
         /\ Scripts!Then(t, [r EXCEPT !.op = "push", !.seen = b_rows[r.id].status])
      \/ Scripts!Then(t, Scripts!NoRequest) /\ UNCHANGED b_rows
  BY <1>1, Zenon DEF Scripts!CommitRow, RowCount
<1>4. CASE Scripts!Then(t, Scripts!NoRequest) /\ UNCHANGED b_rows
  <2>1. Numbered
    BY AllNumbered DEF ScriptBounds
  <2>2. Fits(Scripts!NoRequest, RowCount, b_uploads, b_file)
    BY <2>1, NoneFits DEF Numbered
  <2> QED
    BY <1>1, <1>2, <1>4, <2>2, NothingUnderWay, RowsSame, ThreadGoesOn
<1> QED
  BY <1>1, <1>2, <1>3, <1>4, InsertBounded, UpdateBounded

LEMMA PushArchiveBounded ==
  ASSUME BuildTypes, BuildTypes', ScriptBounds, NEW t \in Workers, Scripts!PushArchive(t)
  PROVE  ScriptBounds'
<1>1. Numbered
  BY AllNumbered DEF ScriptBounds
<1>2. PICK r \in Upload : r = b_request[t] /\ r.op = "push" /\ Fits(r, RowCount, b_uploads, b_file)
  BY ThreadFits DEF Scripts!PushArchive
<1>3. PICK x : x = [r EXCEPT !.op = "dispatch"]
  OBVIOUS
<1>4. Scripts!Then(t, x)
  BY <1>2, <1>3, Zenon DEF Scripts!PushArchive
<1>5. x \in Upload /\ x.op = "dispatch" /\ x.id = r.id /\ x.config = r.config
  BY <1>3 DEF Upload
<1>6. /\ b_archive' = b_file
      /\ UNCHANGED <<b_rows, b_file, b_image, b_messages, b_build, b_uploads, b_mixed, b_faults>>
  BY DEF Scripts!PushArchive
<1>7. RowCount' = RowCount
  BY <1>6 DEF RowCount
<1>8. FilesInv' /\ b_faults' \in Nat
  BY <1>1, <1>6 DEF ScriptBounds, FilesInv, Numbered
<1>9. RowsInv'
  BY <1>1, <1>6, RowsSame, MessagesRest DEF ScriptBounds, Numbered
<1>10. Fits(x, RowCount', b_uploads', b_file')
  BY <1>2, <1>5, <1>6, <1>7 DEF Fits
<1>11. Paid(0)
  BY <1>1, <1>6, <1>8, NothingAdded DEF Numbered
<1> QED
  BY <1>1, <1>2, <1>4, <1>5, <1>6, <1>7, <1>8, <1>9, <1>10, <1>11, ThreadBounds DEF Numbered

LEMMA DispatchBounded ==
  ASSUME BuildTypes, BuildTypes', ScriptBounds, NEW t \in Workers, Scripts!Dispatch(t)
  PROVE  ScriptBounds'
<1>1. Numbered
  BY AllNumbered DEF ScriptBounds
<1>2. PICK r \in Upload : r = b_request[t] /\ r.op = "dispatch" /\ Fits(r, RowCount, b_uploads, b_file)
  BY ThreadFits DEF Scripts!Dispatch
<1>3. /\ Scripts!Then(t, Scripts!NoRequest) /\ b_messages' = Append(b_messages, r.id)
      /\ UNCHANGED <<b_rows, b_file, b_archive, b_image, b_build, b_uploads, b_mixed, b_faults>>
  BY <1>2 DEF Scripts!Dispatch
<1>4. r.id \in 1..RowCount
  BY <1>1, <1>2 DEF Fits, Upload, Numbered
<1>5. RowCount' = RowCount
  BY <1>3 DEF RowCount
<1>6. FilesInv' /\ b_faults' \in Nat
  BY <1>3, FilesRest DEF ScriptBounds
<1>7. RowsInv' /\ Len(b_messages') = Len(b_messages) + 1
  BY <1>3, <1>4, RowsSame, MessageAdded DEF ScriptBounds
<1>8. Fits(Scripts!NoRequest, RowCount', b_uploads', b_file')
  BY <1>1, <1>3, <1>5, NoneFits DEF Numbered
<1>9. Paid(-1)
  <2>1. Len(b_messages') \in Nat
    BY RowsNumberedNext
  <2> QED
    BY <1>1, <1>3, <1>6, <1>7, <2>1, NothingAdded
<1> QED
  BY <1>1, <1>2, <1>3, <1>5, <1>6, <1>7, <1>8, <1>9, NothingUnderWay, ThreadBounds DEF Numbered

LEMMA UploadEndsBounded ==
  ASSUME BuildTypes, BuildTypes', ScriptBounds, NEW t \in Workers,
         Scripts!UploadFails(t) \/ Scripts!UploadDies(t)
  PROVE  ScriptBounds'
<1>1. Numbered
  BY AllNumbered DEF ScriptBounds
<1>2. PICK r \in Upload : r = b_request[t] /\ r.op # "idle" /\ Fits(r, RowCount, b_uploads, b_file)
  BY ThreadFits DEF Scripts!UploadFails, Scripts!UploadDies
<1>3. PICK x : x = [r EXCEPT !.op = "dispatch"]
  OBVIOUS
<1>4. x \in Upload /\ x.op = "dispatch" /\ x.id = r.id /\ x.config = r.config
  BY <1>3 DEF Upload
<1>5. /\ b_faults < MaxFaults /\ b_faults' = b_faults + 1 /\ b_mixed' = b_mixed \cup {"failure"}
      /\ UNCHANGED <<b_file, b_archive, b_image, b_messages, b_build, b_uploads>>
      /\ \/ Scripts!Then(t, Scripts!NoRequest)
         \/ r.op = "push" /\ Scripts!Then(t, x)
      /\ UNCHANGED b_rows \/ Scripts!WriteStatus(r.id, r.seen, "FAILED")
  BY <1>2, <1>3, Zenon
     DEF Scripts!UploadFails, Scripts!UploadDies, Scripts!Failure, Scripts!Fault
<1>6. RowsRest
  <2>1. "FAILED" \in ScriptStates
    BY DEF ScriptStates
  <2> QED
    BY <1>5, <2>1, RowsSame, WriteRest
<1>7. Fits(Scripts!NoRequest, RowCount, b_uploads, b_file)
  BY <1>1, NoneFits DEF Numbered
<1>8. r.op = "push" => Fits(x, RowCount, b_uploads, b_file)
  BY <1>2, <1>4 DEF Fits
<1>9. b_mixed' \subseteq b_mixed \cup {"uploads", "builds", "deletion", "failure"}
  BY <1>5
<1> QED
  BY <1>2, <1>4, <1>5, <1>6, <1>7, <1>8, <1>9, NothingUnderWay, ThreadGoesOn

-----------------------------------------------------------------------------
(* Bounds: the builders                                                    *)

LEMMA BuilderFits ==
  ASSUME BuildTypes, ScriptBounds, NEW b \in Builders
  PROVE  b_build[b] \in Building /\ Made(b_build[b], RowCount, b_uploads)
BY DEF BuildTypes, ScriptBounds, FitInv

(* A builder goes on with its row, or leaves it, and the rest stays.       *)
LEMMA BuilderGoesOn ==
  ASSUME BuildTypes, BuildTypes', ScriptBounds, NEW b \in Builders, NEW x \in Building,
         Scripts!Now(b, x), Made(x, RowCount, b_uploads),
         UNCHANGED <<b_file, b_archive, b_image, b_uploads, b_messages, b_request>>, RowsRest,
         b_faults' = b_faults \/ (b_faults < MaxFaults /\ b_faults' = b_faults + 1),
         b_mixed' \subseteq b_mixed \cup {"uploads", "builds", "deletion", "failure"}
  PROVE  ScriptBounds'
<1>1. Numbered
  BY AllNumbered DEF ScriptBounds
<1>2. FilesInv' /\ b_faults' \in Nat
  BY FilesRest DEF ScriptBounds
<1>3. RowCount' = RowCount /\ RowsInv'
  BY <1>1, MessagesRest DEF ScriptBounds, RowsRest, Numbered
<1>4. FitInv'
  BY <1>3, BuildFits DEF ScriptBounds
<1>5. Paid(0)
  BY <1>1, <1>2, NothingAdded DEF Numbered
<1> QED
  BY <1>2, <1>3, <1>4, <1>5, BuilderBounds

LEMMA FetchBounded ==
  ASSUME BuildTypes, BuildTypes', ScriptBounds, NEW b \in Builders, Scripts!Fetch(b)
  PROVE  ScriptBounds'
<1>1. Numbered
  BY AllNumbered DEF ScriptBounds
<1>2. PICK n : n = Head(b_messages)
  OBVIOUS
<1>3. /\ b_messages # <<>> /\ b_messages' = Tail(b_messages)
      /\ UNCHANGED <<b_rows, b_file, b_archive, b_image, b_request, b_uploads, b_faults>>
  BY DEF Scripts!Fetch, Scripts!Queued
<1>4. RowsInv' /\ Len(b_messages') = Len(b_messages) - 1 /\ n \in 1..RowCount
  BY <1>2, <1>3, MessageTaken DEF ScriptBounds
<1>5. RowCount' = RowCount
  BY <1>3 DEF RowCount
<1>6. Paid(0)
  <2>1. Len(b_messages') \in Nat /\ b_faults' \in Nat
    BY <1>1, <1>3, RowsNumberedNext DEF Numbered
  <2>2. Len(b_messages') <= Len(b_messages)
    BY <1>1, <1>4 DEF Numbered
  <2> QED
    BY <1>1, <1>3, <2>1, <2>2, NothingAdded
<1>7. CASE UNCHANGED <<b_build, b_mixed>>
  <2>1. FitInv'
    BY <1>3, <1>5, <1>7, NobodyMoves DEF ScriptBounds
  <2>2. FilesInv'
    BY <1>3, <1>7, FilesRest DEF ScriptBounds
  <2> QED
    BY <1>3, <1>4, <1>6, <2>1, <2>2, BuilderBounds
<1>8. CASE Living(n) /\ ~UNCHANGED <<b_build, b_mixed>>
  <2>1. PICK a : a = [Scripts!NoBuild EXCEPT !.op = "fetched"]
    OBVIOUS
  <2>2. PICK c : c = [a EXCEPT !.id = n]
    OBVIOUS
  <2>3. PICK d : d = [c EXCEPT !.archive = b_archive]
    OBVIOUS
  <2>4. PICK x : x = [d EXCEPT !.seen = b_rows[n].status]
    OBVIOUS
  <2>5. /\ Scripts!Now(b, x)
        /\ b_mixed' = b_mixed \cup {k \in {"builds"} : \E e \in Builders : b_build[e].op # "idle"}
    BY <1>2, <1>8, <2>1, <2>2, <2>3, <2>4, Zenon DEF Scripts!Fetch
  <2>6. a \in Building /\ a.attempt = 0
    BY <2>1, NothingUnderWay DEF Building
  <2>7. c \in Building /\ c.id = n /\ c.attempt = 0
    <3>1. n \in Nat
      BY <1>4
    <3> QED
      BY <2>2, <2>6, <3>1 DEF Building
  <2>8. d \in Building /\ d.id = n /\ d.archive = b_archive /\ d.attempt = 0
    BY <1>1, <2>3, <2>7 DEF Building, Numbered
  <2>9. b_rows[n].status \in ScriptStates
    BY <1>4, RowNumbers DEF ScriptRow
  <2>10. x \in Building /\ x.id = n /\ x.archive = b_archive /\ x.attempt = 0
    BY <2>4, <2>8, <2>9 DEF Building
  <2>11. Made(x, RowCount, b_uploads)
    <3>1. b_archive <= b_uploads /\ n <= RowCount /\ n # 0 /\ 0 <= 2
      BY <1>1, <1>4 DEF ScriptBounds, FilesInv, Numbered
    <3> QED
      BY <2>10, <3>1 DEF Made
  <2>12. FitInv'
    <3>1. UNCHANGED <<b_request, b_uploads, b_file>>
      BY <1>3
    <3> QED
      BY <1>5, <2>5, <2>10, <2>11, <3>1, BuildFits DEF ScriptBounds
  <2>13. FilesInv'
    <3>1. b_mixed' \subseteq b_mixed \cup {"uploads", "builds", "deletion", "failure"}
      BY <2>5
    <3> QED
      BY <1>3, <3>1, FilesRest DEF ScriptBounds
  <2> QED
    BY <1>3, <1>4, <1>6, <2>12, <2>13, BuilderBounds
<1>9. Living(n) \/ UNCHANGED <<b_build, b_mixed>>
  BY <1>2, RowNumbers, Zenon DEF Scripts!Fetch
<1> QED
  BY <1>7, <1>8, <1>9

LEMMA FetchFailsBounded ==
  ASSUME BuildTypes, BuildTypes', ScriptBounds, NEW b \in Builders, Scripts!FetchFails(b)
  PROVE  ScriptBounds'
<1>1. Numbered
  BY AllNumbered DEF ScriptBounds
<1>2. /\ b_messages # <<>> /\ b_messages' = Tail(b_messages)
      /\ b_faults < MaxFaults /\ b_faults' = b_faults + 1 /\ b_mixed' = b_mixed \cup {"failure"}
      /\ UNCHANGED <<b_rows, b_file, b_archive, b_image, b_request, b_build, b_uploads>>
  BY DEF Scripts!FetchFails, Scripts!Queued, Scripts!Failure, Scripts!Fault
<1>3. RowsInv' /\ Len(b_messages') = Len(b_messages) - 1
  BY <1>2, MessageTaken DEF ScriptBounds
<1>4. RowCount' = RowCount
  BY <1>2 DEF RowCount
<1>5. FilesInv' /\ b_faults' \in Nat
  BY <1>2, FilesRest DEF ScriptBounds
<1>6. FitInv'
  BY <1>2, <1>4, NobodyMoves DEF ScriptBounds
<1>7. Paid(0)
  <2>1. Len(b_messages') \in Nat
    BY RowsNumberedNext
  <2>2. Len(b_messages') <= Len(b_messages)
    BY <1>1, <1>3 DEF Numbered
  <2> QED
    BY <1>1, <1>2, <1>5, <2>1, <2>2, NothingAdded
<1> QED
  BY <1>2, <1>3, <1>5, <1>6, <1>7, BuilderBounds

LEMMA MarkBuildingBounded ==
  ASSUME BuildTypes, BuildTypes', ScriptBounds, NEW b \in Builders, Scripts!MarkBuilding(b)
  PROVE  ScriptBounds'
<1>1. Numbered
  BY AllNumbered DEF ScriptBounds
<1>2. PICK r \in Building : r = b_build[b] /\ r.op = "fetched" /\ Made(r, RowCount, b_uploads)
  BY BuilderFits DEF Scripts!MarkBuilding
<1>3. PICK x : x = [r EXCEPT !.op = "building"]
  OBVIOUS
<1>4. x \in Building /\ x.op = "building" /\ x.id = r.id /\ x.archive = r.archive /\ x.attempt = r.attempt
  BY <1>3 DEF Building
<1>5. \/ Scripts!WriteStatus(r.id, r.seen, "BUILDING") /\ Scripts!Now(b, x)
      \/ UNCHANGED b_rows /\ Scripts!Now(b, Scripts!NoBuild)
  BY <1>2, <1>3, Zenon DEF Scripts!MarkBuilding
<1>6. RowsRest
  <2>1. "BUILDING" \in ScriptStates
    BY DEF ScriptStates
  <2> QED
    BY <1>5, <2>1, RowsSame, WriteRest
<1>7. Made(x, RowCount, b_uploads) /\ Made(Scripts!NoBuild, RowCount, b_uploads)
  BY <1>1, <1>2, <1>4, NoneFits DEF Made, Numbered
<1>8. UNCHANGED <<b_file, b_archive, b_image, b_messages, b_request, b_uploads, b_mixed, b_faults>>
  BY DEF Scripts!MarkBuilding
<1> QED
  BY <1>4, <1>5, <1>6, <1>7, <1>8, NothingUnderWay, BuilderGoesOn

LEMMA BuildImageBounded ==
  ASSUME BuildTypes, BuildTypes', ScriptBounds, NEW b \in Builders, Scripts!BuildImage(b)
  PROVE  ScriptBounds'
<1>1. Numbered
  BY AllNumbered DEF ScriptBounds
<1>2. PICK r \in Building : r = b_build[b] /\ r.op = "building" /\ Made(r, RowCount, b_uploads)
  BY BuilderFits DEF Scripts!BuildImage
<1>3. PICK p \in {"pushing", "failed"} : Scripts!Now(b, [r EXCEPT !.op = p])
  BY <1>2, Zenon DEF Scripts!BuildImage
<1>4. PICK x : x = [r EXCEPT !.op = p]
  OBVIOUS
<1>5. x \in Building /\ x.op = p /\ x.id = r.id /\ x.archive = r.archive /\ x.attempt = r.attempt
  BY <1>4 DEF Building
<1>6. Scripts!Now(b, x)
  BY <1>3, <1>4, Zenon
<1>7. Made(x, RowCount, b_uploads)
  BY <1>2, <1>5 DEF Made
<1>8. UNCHANGED <<b_rows, b_file, b_archive, b_image, b_messages, b_request, b_uploads, b_mixed, b_faults>>
  BY DEF Scripts!BuildImage
<1> QED
  BY <1>5, <1>6, <1>7, <1>8, RowsSame, BuilderGoesOn

LEMMA BuildUnreadBounded ==
  ASSUME BuildTypes, BuildTypes', ScriptBounds, NEW b \in Builders, Scripts!BuildUnread(b)
  PROVE  ScriptBounds'
<1>1. PICK r \in Building : r = b_build[b] /\ r.op = "building" /\ Made(r, RowCount, b_uploads)
  BY BuilderFits DEF Scripts!BuildUnread
<1>2. PICK y : y = [r EXCEPT !.op = "pushing"]
  OBVIOUS
<1>3. PICK x : x = [y EXCEPT !.unread = TRUE]
  OBVIOUS
<1>4. /\ y \in Building /\ y.op = "pushing" /\ y.id = r.id /\ y.archive = r.archive
      /\ y.attempt = r.attempt
  BY <1>2 DEF Building
<1>5. /\ x \in Building /\ x.op = "pushing" /\ x.id = r.id /\ x.archive = r.archive
      /\ x.attempt = r.attempt
  BY <1>3, <1>4 DEF Building
<1>6. /\ Scripts!Now(b, x)
      /\ b_faults < MaxFaults /\ b_faults' = b_faults + 1 /\ b_mixed' = b_mixed \cup {"failure"}
      /\ UNCHANGED <<b_rows, b_file, b_archive, b_image, b_messages, b_request, b_uploads>>
  BY <1>1, <1>2, <1>3, Zenon DEF Scripts!BuildUnread, Scripts!Failure, Scripts!Fault
<1>7. Made(x, RowCount, b_uploads)
  BY <1>1, <1>5 DEF Made
<1>8. b_mixed' \subseteq b_mixed \cup {"uploads", "builds", "deletion", "failure"}
  BY <1>6
<1> QED
  BY <1>5, <1>6, <1>7, <1>8, RowsSame, BuilderGoesOn

LEMMA PushOneLayerBounded ==
  ASSUME BuildTypes, BuildTypes', ScriptBounds, NEW b \in Builders, Scripts!PushOneLayer(b)
  PROVE  ScriptBounds'
<1>1. PICK r \in Building : r = b_build[b] /\ r.op = "pushing" /\ Made(r, RowCount, b_uploads)
  BY BuilderFits DEF Scripts!PushOneLayer
<1>2. PICK x : x = [r EXCEPT !.op = "built"]
  OBVIOUS
<1>3. x \in Building /\ x.op = "built" /\ x.id = r.id /\ x.archive = r.archive /\ x.attempt = r.attempt
  BY <1>2 DEF Building
<1>4. /\ Scripts!Now(b, x)
      /\ b_faults < MaxFaults /\ b_faults' = b_faults + 1 /\ b_mixed' = b_mixed \cup {"failure"}
      /\ UNCHANGED <<b_rows, b_file, b_archive, b_image, b_messages, b_request, b_uploads>>
  BY <1>1, <1>2, Zenon DEF Scripts!PushOneLayer, Scripts!Failure, Scripts!Fault
<1>5. Made(x, RowCount, b_uploads)
  BY <1>1, <1>3 DEF Made
<1>6. b_mixed' \subseteq b_mixed \cup {"uploads", "builds", "deletion", "failure"}
  BY <1>4
<1> QED
  BY <1>3, <1>4, <1>5, <1>6, RowsSame, BuilderGoesOn

LEMMA VerifyPushBounded ==
  ASSUME BuildTypes, BuildTypes', ScriptBounds, NEW b \in Builders, Scripts!VerifyPush(b)
  PROVE  ScriptBounds'
<1>1. PICK r \in Building : r = b_build[b] /\ r.op = "verify" /\ Made(r, RowCount, b_uploads)
  BY BuilderFits DEF Scripts!VerifyPush
<1>2. PICK u, v, w, y : /\ u = [r EXCEPT !.op = "built"] /\ v = [r EXCEPT !.op = "pushing"]
                        /\ w = [v EXCEPT !.attempt = r.attempt + 1]
                        /\ y = [r EXCEPT !.op = "failed"]
  OBVIOUS
<1>3. \/ Scripts!Now(b, u)
      \/ r.attempt < Scripts!Attempts - 1 /\ Scripts!Now(b, w)
      \/ Scripts!Now(b, y)
  BY <1>1, <1>2, Zenon DEF Scripts!VerifyPush
<1>4. r.attempt \in Nat /\ r.attempt + 1 \in Nat
  BY DEF Building
<1>5. u \in Building /\ u.op = "built" /\ u.id = r.id /\ u.archive = r.archive /\ u.attempt = r.attempt
  BY <1>2 DEF Building
<1>6. v \in Building /\ v.op = "pushing" /\ v.id = r.id /\ v.archive = r.archive
  BY <1>2 DEF Building
<1>7. w \in Building /\ w.op = "pushing" /\ w.id = r.id /\ w.archive = r.archive /\ w.attempt = r.attempt + 1
  BY <1>2, <1>4, <1>6 DEF Building
<1>8. y \in Building /\ y.op = "failed" /\ y.id = r.id /\ y.archive = r.archive /\ y.attempt = r.attempt
  BY <1>2 DEF Building
<1>9. /\ Made(u, RowCount, b_uploads) /\ Made(y, RowCount, b_uploads)
      /\ r.attempt < Scripts!Attempts - 1 => Made(w, RowCount, b_uploads)
  <2>1. Made(u, RowCount, b_uploads) /\ Made(y, RowCount, b_uploads)
    BY <1>1, <1>5, <1>8 DEF Made
  <2>2. r.attempt < Scripts!Attempts - 1 => w.attempt <= 2
    BY <1>4, <1>7 DEF Scripts!Attempts
  <2> QED
    BY <1>1, <1>7, <2>1, <2>2 DEF Made
<1>10. PICK x \in Building : Scripts!Now(b, x) /\ Made(x, RowCount, b_uploads)
  BY <1>3, <1>5, <1>7, <1>8, <1>9
<1>11. UNCHANGED <<b_rows, b_file, b_archive, b_image, b_messages, b_request, b_uploads, b_mixed, b_faults>>
  BY DEF Scripts!VerifyPush
<1> QED
  BY <1>10, <1>11, RowsSame, BuilderGoesOn

LEMMA EndBuildBounded ==
  ASSUME BuildTypes, BuildTypes', ScriptBounds, NEW b \in Builders, Scripts!EndBuild(b)
  PROVE  ScriptBounds'
<1>1. Numbered
  BY AllNumbered DEF ScriptBounds
<1>2. PICK r : r = b_build[b]
  OBVIOUS
<1>3. PICK s \in ScriptStates : s = IF r.op = "built" THEN "SUCCESS" ELSE "FAIL"
  BY DEF ScriptStates
<1>4. /\ Scripts!Now(b, Scripts!NoBuild)
      /\ b_rows' = IF Scripts!Live(r.id) THEN [b_rows EXCEPT ![r.id].status = s] ELSE b_rows
      /\ UNCHANGED <<b_file, b_archive, b_image, b_messages, b_request, b_uploads, b_mixed, b_faults>>
  BY <1>2, <1>3, Zenon DEF Scripts!EndBuild
<1>5. RowsRest
  BY <1>4, RowNumbers, StatusRest
<1>6. Made(Scripts!NoBuild, RowCount, b_uploads)
  BY <1>1, NoneFits DEF Numbered
<1> QED
  BY <1>4, <1>5, <1>6, NothingUnderWay, BuilderGoesOn

LEMMA BuilderLostBounded ==
  ASSUME BuildTypes, BuildTypes', ScriptBounds, NEW b \in Builders, Scripts!BuilderLost(b)
  PROVE  ScriptBounds'
<1>1. Numbered
  BY AllNumbered DEF ScriptBounds
<1>2. PICK r \in Building : r = b_build[b] /\ r.op # "idle" /\ Made(r, RowCount, b_uploads)
  BY BuilderFits DEF Scripts!BuilderLost
<1>3. /\ Scripts!Now(b, Scripts!NoBuild) /\ b_messages' = Append(b_messages, r.id)
      /\ b_faults < MaxFaults /\ b_faults' = b_faults + 1
      /\ UNCHANGED <<b_rows, b_file, b_archive, b_image, b_request, b_uploads, b_mixed>>
  BY <1>2 DEF Scripts!BuilderLost, Scripts!Fault
<1>4. r.id \in 1..RowCount
  BY <1>1, <1>2 DEF Made, Building, Numbered
<1>5. RowCount' = RowCount
  BY <1>3 DEF RowCount
<1>6. FilesInv' /\ b_faults' \in Nat
  BY <1>3, FilesRest DEF ScriptBounds
<1>7. RowsInv' /\ Len(b_messages') = Len(b_messages) + 1
  BY <1>3, <1>4, RowsSame, MessageAdded DEF ScriptBounds
<1>8. FitInv'
  <2>1. Made(Scripts!NoBuild, RowCount, b_uploads)
    BY <1>1, NoneFits DEF Numbered
  <2> QED
    BY <1>3, <1>5, <2>1, NothingUnderWay, BuildFits DEF ScriptBounds
<1>9. Paid(0)
  <2>1. Len(b_messages') \in Nat
    BY RowsNumberedNext
  <2> QED
    BY <1>1, <1>3, <1>6, <1>7, <2>1, NothingAdded
<1> QED
  BY <1>3, <1>6, <1>7, <1>8, <1>9, BuilderBounds

LEMMA PushBounded ==
  ASSUME BuildTypes, BuildTypes', ScriptBounds, NEW b \in Builders, Scripts!Push(b)
  PROVE  ScriptBounds'
<1>1. Numbered
  BY AllNumbered DEF ScriptBounds
<1>2. PICK r \in Building : r = b_build[b] /\ r.op = "pushing" /\ Made(r, RowCount, b_uploads)
  BY BuilderFits DEF Scripts!Push
<1>3. UNCHANGED <<b_rows, b_file, b_archive, b_messages, b_request, b_uploads, b_mixed, b_faults>>
  BY DEF Scripts!Push
<1>4. PICK taken \in BOOLEAN, op \in {"built", "verify", "failed"} :
        /\ b_image' = IF taken THEN r.archive ELSE b_image
        /\ b_build' = [c \in Builders |->
                         [b_build[c] EXCEPT !.op = IF c = b THEN op ELSE @,
                                            !.moved = (@ \/ (taken /\ b_build[c].op \in {"pushing", "verify"}))]]
  BY <1>2, Zenon DEF Scripts!Push
<1>5. ASSUME NEW c \in Builders
      PROVE  Made(b_build'[c], RowCount, b_uploads)
  <2>1. PICK w \in Building : w = b_build[c] /\ Made(w, RowCount, b_uploads)
    BY BuilderFits
  <2>2. PICK p : p = IF c = b THEN op ELSE w.op
    OBVIOUS
  <2>3. PICK m : m = (w.moved \/ (taken /\ w.op \in {"pushing", "verify"}))
    OBVIOUS
  <2>4. PICK a : a = [w EXCEPT !.op = p]
    OBVIOUS
  <2>5. PICK x : x = [a EXCEPT !.moved = m]
    OBVIOUS
  <2>6. b_build'[c] = x
    <3>1. b_build'[c] = [w EXCEPT !.op = p, !.moved = m]
      BY <1>4, <2>1, <2>2, <2>3, Zenon
    <3> QED
      BY <2>4, <2>5, <3>1, Zenon
  <2>7. x.op = p /\ x.id = w.id /\ x.archive = w.archive /\ x.attempt = w.attempt
    BY <2>4, <2>5 DEF Building
  <2>8. p # "idle" => w.op # "idle" \/ c = b
    BY <2>2
  <2>9. p # "idle" => w.id # 0
    BY <1>2, <2>1, <2>8 DEF Made
  <2> QED
    BY <2>1, <2>6, <2>7, <2>9 DEF Made
<1>6. RowCount' = RowCount
  BY <1>3 DEF RowCount
<1>7. FitInv'
  BY <1>3, <1>5, <1>6 DEF ScriptBounds, FitInv
<1>8. FilesInv'
  <2>1. b_image' <= b_uploads
    BY <1>1, <1>2, <1>4 DEF ScriptBounds, FilesInv, Made
  <2> QED
    BY <1>3, <2>1 DEF ScriptBounds, FilesInv
<1>9. RowsInv'
  BY <1>1, <1>3, RowsSame, MessagesRest DEF ScriptBounds, Numbered
<1>10. Paid(0)
  <2>1. Len(b_messages') \in Nat /\ b_faults' \in Nat /\ Len(b_messages') <= Len(b_messages)
    BY <1>1, <1>3 DEF Numbered
  <2> QED
    BY <1>1, <1>3, <2>1, NothingAdded
<1> QED
  BY <1>3, <1>7, <1>8, <1>9, <1>10, BuilderBounds

(* What is not a step of a thread or a builder. *)
LEMMA RowsGoOn ==
  ASSUME BuildTypes, BuildTypes', ScriptBounds, RowsRest,
         UNCHANGED <<b_file, b_archive, b_image, b_messages, b_request, b_build, b_uploads, b_faults>>,
         b_mixed' \subseteq b_mixed \cup {"uploads", "builds", "deletion", "failure"}
  PROVE  ScriptBounds'
<1>1. Numbered
  BY AllNumbered DEF ScriptBounds
<1>2. FilesInv' /\ b_faults' \in Nat
  BY FilesRest DEF ScriptBounds
<1>3. RowCount' = RowCount /\ RowsInv'
  BY <1>1, MessagesRest DEF ScriptBounds, RowsRest, Numbered
<1>4. FitInv'
  BY <1>3, NobodyMoves DEF ScriptBounds
<1>5. Paid(0)
  BY <1>1, <1>2, NothingAdded DEF Numbered
<1> QED
  BY <1>2, <1>3, <1>4, <1>5, BuilderBounds

LEMMA DeleteScriptBounded ==
  ASSUME BuildTypes, BuildTypes', ScriptBounds, NEW n \in Scripts!Ids, Scripts!DeleteScript(n)
  PROVE  ScriptBounds'
<1>1. n \in 1..RowCount /\ b_rows[n] \in ScriptRow
  BY RowNumbers
<1>2. PICK s : s = [b_rows[n] EXCEPT !.live = FALSE]
  OBVIOUS
<1>3. s \in ScriptRow /\ s.config = b_rows[n].config
  BY <1>1, <1>2 DEF ScriptRow
<1>4. b_rows' = [b_rows EXCEPT ![n] = s]
  BY <1>2, Zenon DEF Scripts!DeleteScript, Scripts!WithoutRow
<1>5. /\ RowCount' = RowCount /\ b_rows'[n] = s
      /\ \A m \in 1..RowCount : m # n => b_rows'[m] = b_rows[m]
  BY <1>1, <1>3, <1>4, RowRewritten
<1>6. RowsRest
  <2>1. \A m \in 1..RowCount : b_rows'[m].config = b_rows[m].config
    BY <1>3, <1>5
  <2> QED
    BY <1>5, <2>1 DEF RowsRest
<1>7. /\ UNCHANGED <<b_file, b_archive, b_image, b_messages, b_request, b_build, b_uploads, b_faults>>
      /\ b_mixed' = b_mixed \cup {k \in {"deletion"} : \E t \in Workers : b_request[t].id = n}
  BY DEF Scripts!DeleteScript
<1>8. b_mixed' \subseteq b_mixed \cup {"uploads", "builds", "deletion", "failure"}
  BY <1>7
<1> QED
  BY <1>6, <1>7, <1>8, RowsGoOn

LEMMA ScriptBoundsStart == AllInit => ScriptBounds
<1> SUFFICES ASSUME AllInit PROVE ScriptBounds
  OBVIOUS
<1>1. /\ b_rows = <<>> /\ b_file = 0 /\ b_archive = 0 /\ b_image = 0 /\ b_messages = <<>>
      /\ b_request = [t \in Workers |-> Scripts!NoRequest]
      /\ b_build = [b \in Builders |-> Scripts!NoBuild] /\ b_uploads = 0 /\ b_mixed = {}
      /\ b_faults = 0
  BY DEF AllInit, Scripts!Init
<1>2. RowCount = 0 /\ Len(b_messages) = 0
  BY <1>1 DEF RowCount
<1>3. Fits(Scripts!NoRequest, 0, 0, 0) /\ Made(Scripts!NoBuild, 0, 0)
  BY NoneFits
<1>4. FilesInv
  BY <1>1, MaximaAre DEF FilesInv, ScriptMaxima
<1>5. RowsInv
  BY <1>2, MaximaAre DEF RowsInv, ScriptMaxima
<1>6. FitInv
  BY <1>1, <1>2, <1>3 DEF FitInv
<1>7. LoadInv
  <2>1. UnderWay = {}
    BY <1>1, NothingUnderWay DEF UnderWay
  <2>2. Cardinality(UnderWay) = 0
    BY <2>1, FS_EmptySet
  <2> QED
    BY <1>1, <1>2, <2>2 DEF LoadInv
<1> QED
  BY <1>4, <1>5, <1>6, <1>7 DEF ScriptBounds

LEMMA ScriptBoundsStep ==
  BuildTypes /\ BuildTypes' /\ ScriptBounds /\ [Scripts!Next]_scriptsVars => ScriptBounds'
<1> SUFFICES ASSUME BuildTypes, BuildTypes', ScriptBounds, [Scripts!Next]_scriptsVars
             PROVE  ScriptBounds'
  OBVIOUS
<1>1. CASE UNCHANGED scriptsVars
  <2>1. /\ UNCHANGED <<b_rows, b_file, b_archive, b_image, b_messages, b_request, b_build,
                       b_uploads, b_faults>>
        /\ b_mixed' \subseteq b_mixed \cup {"uploads", "builds", "deletion", "failure"}
    BY <1>1 DEF scriptsVars
  <2> QED
    BY <2>1, RowsSame, RowsGoOn
<1>2. ASSUME NEW t \in Workers, Scripts!CreateScript(t) PROVE ScriptBounds'
  <2>1. 0 \in 0..RowCount
    BY RowNumbers
  <2> QED
    BY <1>2, <2>1, SaveBounded DEF Scripts!CreateScript
<1>3. ASSUME NEW t \in Workers, NEW n \in Scripts!Ids, Scripts!UpdateScript(t, n) PROVE ScriptBounds'
  <2>1. n \in 0..RowCount
    BY RowNumbers
  <2> QED
    BY <1>3, <2>1, SaveBounded DEF Scripts!UpdateScript
<1>4. ASSUME NEW t \in Workers,
             \/ Scripts!ReadConfig(t) \/ Scripts!CommitRow(t) \/ Scripts!PushArchive(t)
             \/ Scripts!Dispatch(t) \/ Scripts!UploadFails(t) \/ Scripts!UploadDies(t)
      PROVE  ScriptBounds'
  BY <1>4, ReadConfigBounded, CommitRowBounded, PushArchiveBounded, DispatchBounded,
     UploadEndsBounded
<1>5. ASSUME NEW b \in Builders,
             \/ Scripts!Fetch(b) \/ Scripts!FetchFails(b) \/ Scripts!MarkBuilding(b)
             \/ Scripts!BuildImage(b) \/ Scripts!BuildUnread(b) \/ Scripts!Push(b)
             \/ Scripts!PushOneLayer(b) \/ Scripts!VerifyPush(b) \/ Scripts!EndBuild(b)
             \/ Scripts!BuilderLost(b)
      PROVE  ScriptBounds'
  BY <1>5, FetchBounded, FetchFailsBounded, MarkBuildingBounded, BuildImageBounded,
     BuildUnreadBounded, PushBounded, PushOneLayerBounded, VerifyPushBounded, EndBuildBounded, BuilderLostBounded
<1>6. ASSUME NEW n \in Scripts!Ids, Scripts!DeleteScript(n) PROVE ScriptBounds'
  BY <1>6, DeleteScriptBounded
<1> QED
  BY <1>1, <1>2, <1>3, <1>4, <1>5, <1>6 DEF Scripts!Next

LEMMA ScriptsTyped == BuildTypes /\ ScriptBounds => Scripts!TypeOK
<1> SUFFICES ASSUME BuildTypes, ScriptBounds PROVE Scripts!TypeOK
  OBVIOUS
<1>1. Numbered /\ ScriptMaxima
  BY AllNumbered, MaximaAre DEF ScriptBounds
<1>2. Scripts!Statuses = ScriptStates /\ Scripts!Attempts - 1 = 2
  BY DEF Scripts!Statuses, ScriptStates, Scripts!Attempts
<1>3. b_rows \in Seq([live : BOOLEAN, status : Scripts!Statuses, config : 1..MaxUploads])
  <2>1. PICK S : S = [live : BOOLEAN, status : Scripts!Statuses, config : 1..MaxUploads]
    OBVIOUS
  <2>2. ASSUME NEW n \in 1..RowCount PROVE b_rows[n] \in S
    <3>1. b_rows[n] \in ScriptRow /\ b_rows[n].config # 0 /\ b_rows[n].config <= b_uploads
      BY RowNumbers DEF ScriptBounds, RowsInv
    <3>2. b_rows[n].config \in 1..MaxUploads
      BY <1>1, <3>1 DEF ScriptBounds, FilesInv, Numbered, ScriptMaxima, ScriptRow
    <3> QED
      BY <1>2, <2>1, <3>1, <3>2 DEF ScriptRow
  <2>3. b_rows = [n \in 1..RowCount |-> b_rows[n]]
    BY RowNumbers DEF BuildTypes
  <2>4. b_rows \in Seq(S)
    BY <1>1, <2>2, <2>3 DEF Numbered
  <2> QED
    BY <2>1, <2>4
<1>4. {b_file, b_archive, b_image, b_uploads} \subseteq 0..MaxUploads
  BY <1>1 DEF ScriptBounds, FilesInv, Numbered, ScriptMaxima
<1>5. b_messages \in Seq(Scripts!Ids)
  <2>1. \A k \in 1..Len(b_messages) : b_messages[k] \in Scripts!Ids
    BY RowNumbers DEF ScriptBounds, RowsInv
  <2>2. b_messages = [k \in 1..Len(b_messages) |-> b_messages[k]]
    BY DEF BuildTypes
  <2> QED
    BY <1>1, <2>1, <2>2 DEF Numbered
<1>6. Len(b_messages) <= MaxUploads + MaxFaults
  <2>1. PICK c \in Nat : c = Cardinality(UnderWay)
    BY UnderWayCount
  <2>2. PICK l \in Nat, u \in Nat, f \in Nat, m \in Nat, g \in Nat :
          /\ l = Len(b_messages) /\ u = b_uploads /\ f = b_faults /\ m = MaxUploads /\ g = MaxFaults
    BY <1>1, Zenon DEF Numbered, ScriptMaxima
  <2>3. l + c <= u + f /\ u <= m /\ f <= g
    BY <2>1, <2>2 DEF ScriptBounds, LoadInv, FilesInv
  <2>4. l <= m + g
    BY <2>3
  <2> QED
    BY <2>2, <2>4
<1>7. b_request \in [Workers -> [op : {"idle", "saved", "commit", "push", "dispatch"},
                                 id : 0..MaxRows, config : 0..MaxUploads, seen : Scripts!Statuses]]
  <2> SUFFICES ASSUME NEW t \in Workers
               PROVE  b_request[t] \in [op : {"idle", "saved", "commit", "push", "dispatch"},
                                        id : 0..MaxRows, config : 0..MaxUploads, seen : Scripts!Statuses]
    BY DEF BuildTypes
  <2>1. PICK r \in Upload : r = b_request[t] /\ Fits(r, RowCount, b_uploads, b_file)
    BY ThreadFits
  <2>2. r.id \in 0..MaxRows /\ r.config \in 0..MaxUploads
    <3>1. r.id <= RowCount /\ RowCount <= MaxRows /\ r.config <= b_uploads /\ b_uploads <= MaxUploads
      BY <2>1 DEF Fits, ScriptBounds, FilesInv, RowsInv
    <3>2. r.id \in Nat /\ r.config \in Nat
      BY DEF Upload
    <3> QED
      BY <1>1, <3>1, <3>2 DEF Numbered, ScriptMaxima
  <2> QED
    BY <1>2, <2>1, <2>2 DEF Upload
<1>8. b_build \in [Builders -> [op : {"idle", "fetched", "building", "pushing", "verify", "built", "failed"},
                                id : 0..MaxRows, archive : 0..MaxUploads, seen : Scripts!Statuses,
                                unread : BOOLEAN, moved : BOOLEAN,
                                attempt : 0..(Scripts!Attempts - 1)]]
  <2> SUFFICES ASSUME NEW b \in Builders
               PROVE  b_build[b] \in
                        [op : {"idle", "fetched", "building", "pushing", "verify", "built", "failed"},
                         id : 0..MaxRows, archive : 0..MaxUploads, seen : Scripts!Statuses,
                         unread : BOOLEAN, moved : BOOLEAN, attempt : 0..(Scripts!Attempts - 1)]
    BY DEF BuildTypes
  <2>1. PICK r \in Building : r = b_build[b] /\ Made(r, RowCount, b_uploads)
    BY BuilderFits
  <2>2. r.id \in 0..MaxRows /\ r.archive \in 0..MaxUploads /\ r.attempt \in 0..2
    <3>1. /\ r.id <= RowCount /\ RowCount <= MaxRows /\ r.archive <= b_uploads
          /\ b_uploads <= MaxUploads /\ r.attempt <= 2
      BY <2>1 DEF Made, ScriptBounds, FilesInv, RowsInv
    <3>2. r.id \in Nat /\ r.archive \in Nat /\ r.attempt \in Nat
      BY DEF Building
    <3> QED
      BY <1>1, <3>1, <3>2 DEF Numbered, ScriptMaxima
  <2>3. r.attempt \in 0..(Scripts!Attempts - 1)
    BY <1>2, <2>2
  <2> QED
    BY <1>2, <2>1, <2>2, <2>3 DEF Building
<1> QED
  BY <1>3, <1>4, <1>5, <1>6, <1>7, <1>8 DEF Scripts!TypeOK, ScriptBounds, FilesInv
===============================================================================
