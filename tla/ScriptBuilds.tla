---------------------------- MODULE ScriptBuilds ----------------------------
(***************************************************************************)
(* The upload of a script and the build of its image.  An upload goes      *)
(* through a file on disk, the row, the archive in S3 and a docker_build   *)
(* message; a build fetches the archive again and pushes an image under    *)
(* the script's slug.  Nothing keeps two uploads, or two builds, apart.    *)
(* The slug is one: at most one row with it lives at a time.  Archives are *)
(* numbered in the order of their uploads.                                 *)
(***************************************************************************)
EXTENDS Naturals, Sequences, FiniteSetsExt

CONSTANTS
  Threads,     (* API threads                                               *)
  Builders,    (* processes of the worker that serves the queue "build"     *)
  MaxUploads,  (* bound: uploads                                            *)
  MaxRows,     (* bound: rows ever inserted                                 *)
  MaxFaults    (* bound: crashes and refusals by S3, Docker and the broker  *)

VARIABLES
  rows,      (* the script rows, in the order of their insertion            *)
  file,      (* the archive under the upload folder; names are equal        *)
  archive,   (* the archive in S3                                           *)
  image,     (* the archive the image in the registry was built from        *)
  messages,  (* the rows named by the docker_build messages, oldest first   *)
  request,   (* each API thread                                             *)
  build,     (* each builder                                                *)
  uploads,   (* history: uploads so far                                     *)
  mixed,     (* history: "uploads" or "builds" overlapped, a "deletion"     *)
             (* came while its script was uploaded, or there was a "failure"*)
             (* other than a lost builder                                   *)
  faults     (* history: crashes and refusals so far                        *)

vars == <<rows, file, archive, image, messages, request, build, uploads, mixed, faults>>

Attempts == 3
Statuses == {"PENDING", "BUILDING", "SUCCESS", "FAIL", "FAILED"}
Ids == 1..Len(rows)

NoRequest == [op |-> "idle", id |-> 0, config |-> 0, seen |-> "PENDING"]
NoBuild == [op |-> "idle", id |-> 0, archive |-> 0, seen |-> "PENDING",
            unread |-> FALSE, moved |-> FALSE, attempt |-> 0]

Init ==
  /\ rows = <<>> /\ file = 0 /\ archive = 0 /\ image = 0 /\ messages = <<>>
  /\ request = [t \in Threads |-> NoRequest] /\ build = [b \in Builders |-> NoBuild]
  /\ uploads = 0 /\ mixed = {} /\ faults = 0

Live(n) == n \in Ids /\ rows[n].live
Then(t, r) == request' = [request EXCEPT ![t] = r]
Now(b, r) == build' = [build EXCEPT ![b] = r]
Fault == faults < MaxFaults /\ faults' = faults + 1

(* S3, the broker, Docker or the registry refuses, or an API thread dies.  *)
Failure == Fault /\ mixed' = mixed \cup {"failure"}

(* A column that already has its new value in the session is not written.  *)
WriteStatus(n, seen, status) ==
  rows' = IF Live(n) /\ seen # status THEN [rows EXCEPT ![n].status = status] ELSE rows

-----------------------------------------------------------------------------
(* create_script and update_script                                         *)

(* The archive is saved under a name that all uploads with its file name   *)
(* share.                                                                  *)
Save(t, n) ==
  /\ request[t].op = "idle" /\ uploads < MaxUploads /\ uploads' = uploads + 1
  /\ file' = uploads + 1
  /\ Then(t, [NoRequest EXCEPT !.op = "saved", !.id = n])
  /\ mixed' = mixed \cup {k \in {"uploads"} : \E u \in Threads : request[u].op # "idle"}
  /\ UNCHANGED <<rows, archive, image, messages, build, faults>>

CreateScript(t) == Save(t, 0)

(* By the owner or an administrator. *)
UpdateScript(t, n) == Live(n) /\ Save(t, n)

(* The archive on disk is opened for its configuration.json.  A new script *)
(* must have a slug that is free.                                          *)
ReadConfig(t) ==
  LET r == request[t] IN
  /\ r.op = "saved"
  /\ IF r.id = 0 /\ \E n \in Ids : Live(n)
     THEN Then(t, NoRequest)                         (* ScriptDuplicated     *)
     ELSE Then(t, [r EXCEPT !.op = "commit", !.config = file])
  /\ UNCHANGED <<rows, file, archive, image, messages, build, uploads, mixed, faults>>

(* The slug is unique, and an UPDATE of a deleted row is an error. *)
CommitRow(t) ==
  LET r == request[t] IN
  /\ r.op = "commit"
  /\ \/ /\ r.id = 0 /\ \A n \in Ids : ~Live(n)
        /\ Len(rows) < MaxRows
        /\ rows' = Append(rows, [live |-> TRUE, status |-> "PENDING", config |-> r.config])
        /\ Then(t, [r EXCEPT !.op = "push", !.id = Len(rows) + 1])
     \/ /\ Live(r.id)
        /\ rows' = [rows EXCEPT ![r.id].config = r.config]
        /\ Then(t, [r EXCEPT !.op = "push", !.seen = rows[r.id].status])
     \/ /\ IF r.id = 0 THEN \E n \in Ids : Live(n) ELSE ~Live(r.id)
        /\ Then(t, NoRequest) /\ UNCHANGED rows
  /\ UNCHANGED <<file, archive, image, messages, build, uploads, mixed, faults>>

(* push_script_to_s3 uploads the file as it is now.                        *)
PushArchive(t) ==
  /\ request[t].op = "push" /\ archive' = file
  /\ Then(t, [request[t] EXCEPT !.op = "dispatch"])
  /\ UNCHANGED <<rows, file, image, messages, build, uploads, mixed, faults>>

Dispatch(t) ==
  /\ request[t].op = "dispatch" /\ Then(t, NoRequest)
  /\ messages' = Append(messages, request[t].id)
  /\ UNCHANGED <<rows, file, archive, image, build, uploads, mixed, faults>>

(* S3 or the broker raises: FAILED.  S3 may also answer with an error that *)
(* push_script_to_s3 returns as False, which the caller does not look at.  *)
UploadFails(t) ==
  LET r == request[t] IN
  /\ r.op \in {"push", "dispatch"} /\ Failure
  /\ \/ WriteStatus(r.id, r.seen, "FAILED") /\ Then(t, NoRequest)
     \/ r.op = "push" /\ Then(t, [r EXCEPT !.op = "dispatch"]) /\ UNCHANGED rows
  /\ UNCHANGED <<file, archive, image, messages, build, uploads>>

UploadDies(t) ==
  /\ request[t].op # "idle" /\ Failure /\ Then(t, NoRequest)
  /\ UNCHANGED <<rows, file, archive, image, messages, build, uploads>>

(* Logs and executions go with the row; the archive and the image stay.    *)
WithoutRow(n) == [rows EXCEPT ![n].live = FALSE]

DeleteScript(n) ==
  /\ Live(n) /\ rows' = WithoutRow(n)
  /\ mixed' = mixed \cup {k \in {"deletion"} : \E t \in Threads : request[t].id = n}
  /\ UNCHANGED <<file, archive, image, messages, request, build, uploads, faults>>

-----------------------------------------------------------------------------
(* docker_build                                                            *)

Queued(b) == build[b].op = "idle" /\ messages # <<>>

(* A row that is gone ends the task: its log line has no script.  So does  *)
(* an archive that is not there.                                           *)
Fetch(b) ==
  LET n == Head(messages) IN
  /\ Queued(b) /\ messages' = Tail(messages)
  /\ IF Live(n) /\ archive # 0
     THEN /\ Now(b, [NoBuild EXCEPT !.op = "fetched", !.id = n, !.archive = archive, !.seen = rows[n].status])
          /\ mixed' = mixed \cup {k \in {"builds"} : \E c \in Builders : build[c].op # "idle"}
     ELSE UNCHANGED <<build, mixed>>
  /\ UNCHANGED <<rows, file, archive, image, request, uploads, faults>>

(* No Docker client, an archive that cannot be downloaded or opened: the   *)
(* status stays what it was, and the message is acknowledged.              *)
FetchFails(b) ==
  /\ Queued(b) /\ Failure /\ messages' = Tail(messages)
  /\ UNCHANGED <<rows, file, archive, image, request, build, uploads>>

MarkBuilding(b) ==
  LET r == build[b] IN
  /\ r.op = "fetched"
  /\ IF Live(r.id)
     THEN WriteStatus(r.id, r.seen, "BUILDING") /\ Now(b, [r EXCEPT !.op = "building"])
     ELSE UNCHANGED rows /\ Now(b, NoBuild)
  /\ UNCHANGED <<file, archive, image, messages, request, uploads, mixed, faults>>

(* The log is saved line by line, which fails when the row is gone.  Then  *)
(* the digest of the image in the registry is noted.                       *)
BuildImage(b) ==
  LET r == build[b] IN
  /\ r.op = "building"
  /\ \/ Live(r.id) /\ Now(b, [r EXCEPT !.op = "pushing"])
     \/ Now(b, [r EXCEPT !.op = "failed"])
  /\ UNCHANGED <<rows, file, archive, image, messages, request, uploads, mixed, faults>>

(* The HEAD for the digest fails, which is taken for "no image is there".  *)
BuildUnread(b) ==
  /\ build[b].op = "building" /\ Live(build[b].id) /\ Failure
  /\ Now(b, [build[b] EXCEPT !.op = "pushing", !.unread = TRUE])
  /\ UNCHANGED <<rows, file, archive, image, messages, request, uploads>>

(* The stream says that all was pushed; or it breaks off, whether or not   *)
(* the registry took the image; or the attempt is not worth another one.   *)
Push(b) ==
  LET r == build[b] IN
  /\ r.op = "pushing"
  /\ \E taken \in BOOLEAN, op \in {"built", "verify", "failed"} :
       /\ op = "built" => taken /\ Live(r.id)
       /\ image' = IF taken THEN r.archive ELSE image
       /\ build' = [c \in Builders |->
                      [build[c] EXCEPT !.op = IF c = b THEN op ELSE @,
                                       !.moved = (@ \/ (taken /\ build[c].op \in {"pushing", "verify"}))]]
  /\ UNCHANGED <<rows, file, archive, messages, request, uploads, mixed, faults>>

(* One layer pushed passes for an image although an error followed it.     *)
PushOneLayer(b) ==
  /\ build[b].op = "pushing" /\ Live(build[b].id) /\ Failure
  /\ Now(b, [build[b] EXCEPT !.op = "built"])
  /\ UNCHANGED <<rows, file, archive, image, messages, request, uploads>>

(* Mutant: an answer of the registry is enough. *)
VerifiedIfAnswered(b) == build[b].op = "verify"

(* The digest is another one than before the push; any digest will do if   *)
(* none was read then.                                                     *)
Verified(b) == IF build[b].unread THEN image # 0 ELSE build[b].moved

(* The registry is asked, and may not answer; there are three attempts.    *)
VerifyPush(b) ==
  LET r == build[b] IN
  /\ r.op = "verify"
  /\ \/ Verified(b) /\ Now(b, [r EXCEPT !.op = "built"])
     \/ r.attempt < Attempts - 1 /\ Now(b, [r EXCEPT !.op = "pushing", !.attempt = @ + 1])
     \/ r.attempt = Attempts - 1 /\ Now(b, [r EXCEPT !.op = "failed"])
  /\ UNCHANGED <<rows, file, archive, image, messages, request, uploads, mixed, faults>>

(* The row is loaded again for its last status. *)
EndBuild(b) ==
  LET r == build[b] IN
  /\ r.op \in {"built", "failed"} /\ Now(b, NoBuild)
  /\ rows' = IF Live(r.id)
             THEN [rows EXCEPT ![r.id].status = IF r.op = "built" THEN "SUCCESS" ELSE "FAIL"]
             ELSE rows
  /\ UNCHANGED <<file, archive, image, messages, request, uploads, mixed, faults>>

(* The message of a lost process is delivered again. *)
BuilderLost(b) ==
  /\ build[b].op # "idle" /\ Fault /\ Now(b, NoBuild)
  /\ messages' = Append(messages, build[b].id)
  /\ UNCHANGED <<rows, file, archive, image, request, uploads, mixed>>

Next ==
  \/ \E t \in Threads :
        \/ CreateScript(t) \/ (\E n \in Ids : UpdateScript(t, n)) \/ ReadConfig(t) \/ CommitRow(t) \/ PushArchive(t) \/ Dispatch(t)
        \/ UploadFails(t) \/ UploadDies(t)
  \/ \E b \in Builders :
        \/ Fetch(b) \/ FetchFails(b) \/ MarkBuilding(b) \/ BuildImage(b) \/ BuildUnread(b) \/ Push(b)
        \/ PushOneLayer(b) \/ VerifyPush(b) \/ EndBuild(b) \/ BuilderLost(b)
  \/ \E n \in Ids : DeleteScript(n)

Spec == Init /\ [][Next]_vars

-----------------------------------------------------------------------------
(* The types of the variables. *)
TypeOK ==
  /\ rows \in Seq([live : BOOLEAN, status : Statuses, config : 1..MaxUploads])
  /\ {file, archive, image, uploads} \subseteq 0..MaxUploads
  /\ messages \in Seq(Ids) /\ Len(messages) <= MaxUploads + MaxFaults
  /\ request \in [Threads -> [op : {"idle", "saved", "commit", "push", "dispatch"},
                              id : 0..MaxRows, config : 0..MaxUploads, seen : Statuses]]
  /\ build \in [Builders -> [op : {"idle", "fetched", "building", "pushing", "verify", "built", "failed"},
                             id : 0..MaxRows, archive : 0..MaxUploads, seen : Statuses,
                             unread : BOOLEAN, moved : BOOLEAN, attempt : 0..(Attempts - 1)]]
  /\ mixed \subseteq {"uploads", "builds", "deletion", "failure"} /\ faults \in 0..MaxFaults

AtRest ==
  /\ \A t \in Threads : request[t].op = "idle"
  /\ \A b \in Builders : build[b].op = "idle"
  /\ messages = <<>>

(* Executions are taken for SUCCESS scripts only, and run the image.  With *)
(* all uploads and builds done, no script is left BUILDING, and SUCCESS    *)
(* means that the image was built from the archive in S3, however uploads, *)
(* deletions and builds interleaved and builders were lost, as long as     *)
(* nothing else failed (the HEAD before a push neither: see PushVerified), *)
(* no two builds overlapped and no script was deleted while it was         *)
(* uploaded (its archive would replace that of the next script with its    *)
(* slug); and that archive is the one the row was configured from, unless  *)
(* uploads overlapped.                                                     *)
UploadedIsBuilt ==
  AtRest /\ mixed \subseteq {"uploads"} =>
    \A n \in Ids : Live(n) =>
       /\ rows[n].status # "BUILDING"
       /\ rows[n].status = "SUCCESS" =>
             image = archive /\ ("uploads" \notin mixed => rows[n].config = archive)

(* "Capture pre-push manifest state to detect tag updates even if the      *)
(* streaming push logs are ambiguous or truncated" (docker_service.py:584):*)
(* after a broken stream a push is a success only if the tag was updated.  *)
PushVerified ==
  [][\A b \in Builders :
       build[b].op = "verify" /\ build'[b].op = "built" => build[b].moved]_vars
=============================================================================
