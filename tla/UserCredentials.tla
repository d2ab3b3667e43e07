--------------------------- MODULE UserCredentials --------------------------
(***************************************************************************)
(* The Earth Engine and openEO credentials of one user: the consent flow   *)
(* of Google with its stored state, the columns of the user row, the       *)
(* write access to the output bucket granted to a Google account, and the  *)
(* checks of credentials, which go through the Earth Engine client that    *)
(* all requests of a process share.  A request that calls Google loads the *)
(* row first and afterwards commits the columns that differ from it.       *)
(***************************************************************************)
EXTENDS Naturals

CONSTANTS
  Threads,    (* API processes, each with one Earth Engine client           *)
  Accounts,   (* Google accounts the user may consent with                  *)
  MaxFlows    (* bound: consent flows ever started                          *)

VARIABLES
  row,       (* the credential columns of the user                          *)
  flow,      (* the flow whose state is stored under the user; 0: none      *)
  flows,     (* flows started so far; Google takes the code of each once    *)
  exchanged, (* flows whose code Google took                                *)
  bucket,    (* accounts of the user that may write to the output bucket    *)
  ee,        (* the identity each process's Earth Engine client acts for    *)
  request,   (* each process: its request, and what it loaded               *)
  mixed      (* history: two requests overlapped                            *)

vars == <<row, flow, flows, exchanged, bucket, ee, request, mixed>>

None == "none"
Empty == [type |-> None, tokens |-> None, key |-> FALSE, email |-> None,
          project |-> FALSE, openeo |-> FALSE]
Row == [type : {None, "oauth", "service_account"}, tokens : Accounts \cup {None},
        key : BOOLEAN, email : Accounts \cup {None}, project : BOOLEAN, openeo : BOOLEAN]

NoRequest == [op |-> "idle", loaded |-> Empty, flow |-> 0, by |-> None]

Init ==
  /\ row = Empty /\ flow = 0 /\ flows = 0 /\ exchanged = {} /\ bucket = {}
  /\ ee = [t \in Threads |-> None]
  /\ request = [t \in Threads |-> NoRequest] /\ mixed = FALSE

Then(t, r) == request' = [request EXCEPT ![t] = r]
Done(t) == Then(t, NoRequest)

Overlap == mixed' = (mixed \/ \E u \in Threads : request[u] # NoRequest)

Begin(t, r) == request[t] = NoRequest /\ Then(t, r) /\ Overlap

(* The openEO column is committed by requests that change nothing else. *)
Loaded == [row EXCEPT !.openeo = FALSE]

(* What a commit of the new values leaves, for a request that loaded old.   *)
(* Ciphertexts differ from one encryption to the next: tokens are written. *)
Committed(old, new) ==
  [c \in DOMAIN row |->
     IF c \in DOMAIN new /\ (new[c] # old[c] \/ (c = "tokens" /\ new[c] # None))
     THEN new[c] ELSE row[c]]

(* Mutant: the key of a service account is left in the row. *)
ClearedButKey ==
  [type |-> None, tokens |-> None, email |-> None, project |-> FALSE]

Cleared ==
  [type |-> None, tokens |-> None, key |-> FALSE, email |-> None, project |-> FALSE]

WithTokens(a) == [type |-> "oauth", tokens |-> a]
WithAccount(a) == [type |-> "oauth", tokens |-> a, email |-> a]

-----------------------------------------------------------------------------
(* Consent at Google                                                       *)

InitiateOAuth ==
  /\ flows < MaxFlows /\ flows' = flows + 1 /\ flow' = flows + 1
  /\ UNCHANGED <<row, exchanged, bucket, ee, request, mixed>>

StateExpires ==
  /\ flow # 0 /\ flow' = 0
  /\ UNCHANGED <<row, flows, exchanged, bucket, ee, request, mixed>>

(* The user is loaded, and the state compared with the stored one.         *)
CallbackVerify(t, s) ==
  /\ flow = s /\ Begin(t, [NoRequest EXCEPT !.op = "verified", !.loaded = Loaded, !.flow = s])
  /\ UNCHANGED <<row, flow, flows, exchanged, bucket, ee>>

(* Without a session: the user is found by the state. *)
CallbackAnonymous(t, s) == CallbackVerify(t, s)

(* The key is deleted, whatever is stored under it by now. *)
CallbackConsume(t) ==
  /\ request[t].op = "verified" /\ flow' = 0
  /\ Then(t, [request[t] EXCEPT !.op = "exchange"])
  /\ UNCHANGED <<row, flows, exchanged, bucket, ee, mixed>>

(* Google may not tell the address, and the one from before stays.         *)
CallbackStore(t) ==
  LET r == request[t] IN
  /\ r.op = "exchange" /\ Done(t)
  /\ \/ /\ r.flow \notin exchanged /\ exchanged' = exchanged \cup {r.flow}
        /\ \E a \in Accounts, told \in BOOLEAN :
             row' = Committed(r.loaded, IF told THEN WithAccount(a) ELSE WithTokens(a))
     \/ UNCHANGED <<row, exchanged>>
  /\ UNCHANGED <<flow, flows, bucket, ee, mixed>>

-----------------------------------------------------------------------------
(* Projects and bucket access                                              *)

(* PATCH /gee-credentials/project: the account of the tokens is asked for, *)
(* and granted access before anything is stored.                           *)
GrantBucketWrite(t) ==
  /\ row.type = "oauth"
  /\ \/ /\ row.tokens # None
        /\ bucket' \in {bucket, bucket \cup {row.tokens}}
        /\ Begin(t, [NoRequest EXCEPT !.op = "project", !.loaded = Loaded, !.by = row.tokens])
     \/ /\ UNCHANGED bucket
        /\ Begin(t, [NoRequest EXCEPT !.op = "project", !.loaded = Loaded])
  /\ UNCHANGED <<row, flow, flows, exchanged, ee>>

(* The project is written if it is another one than the one loaded.        *)
SetCloudProject(t) ==
  LET r == request[t]
      now == Committed(r.loaded, [project |-> TRUE, email |-> IF r.by = None THEN r.loaded.email ELSE r.by])
  IN
  /\ r.op = "project" /\ Done(t)
  /\ row' \in {now, [now EXCEPT !.project = TRUE]}
  /\ UNCHANGED <<flow, flows, exchanged, bucket, ee, mixed>>

(* The columns of a consent stay. *)
UploadServiceAccount ==
  /\ row' = [row EXCEPT !.key = TRUE, !.type = "service_account"] /\ Overlap
  /\ UNCHANGED <<flow, flows, exchanged, bucket, ee, request>>

(* The same by an administrator. *)
UploadServiceAccountAdmin == UploadServiceAccount

(* DELETE: access of the recorded account ends first; an error of Google   *)
(* is only logged.                                                         *)
RevokeBucketWrite(t) ==
  /\ row.type # None /\ Begin(t, [NoRequest EXCEPT !.op = "delete", !.loaded = Loaded])
  /\ bucket' \in {bucket, bucket \ {row.email}}
  /\ UNCHANGED <<row, flow, flows, exchanged, ee>>

ClearCredentials(t) ==
  /\ request[t].op = "delete" /\ Done(t)
  /\ row' = Committed(request[t].loaded, Cleared)
  /\ UNCHANGED <<flow, flows, exchanged, bucket, ee, mixed>>

DeleteByAdmin(t) == RevokeBucketWrite(t)

-----------------------------------------------------------------------------
(* Checks, and the Earth Engine client of the process                      *)

Answer(t, by) == Then(t, [NoRequest EXCEPT !.op = "valid", !.by = by])

TestCredentials(t) ==
  /\ row.type # None
  /\ Begin(t, [NoRequest EXCEPT !.op = "test", !.loaded = Loaded])
  /\ UNCHANGED <<row, flow, flows, exchanged, bucket, ee>>

TestByAdmin(t) == TestCredentials(t)

(* _initialize_ee: a client that answers is taken as it is. *)
AlreadyInitialized(t) ==
  /\ request[t].op = "test" /\ ee[t] # None /\ Answer(t, ee[t])
  /\ UNCHANGED <<row, flow, flows, exchanged, bucket, ee, mixed>>

(* The refreshed tokens are stored again. *)
InitializeWithOAuth(t) ==
  LET r == request[t] IN
  /\ r.op = "test" /\ r.loaded.type = "oauth" /\ r.loaded.tokens # None /\ r.loaded.project
  /\ row' = Committed(r.loaded, WithTokens(r.loaded.tokens))
  /\ ee' = [ee EXCEPT ![t] = "own"] /\ Answer(t, "own")
  /\ UNCHANGED <<flow, flows, exchanged, bucket, mixed>>

InitializeWithServiceAccount(t) ==
  LET r == request[t] IN
  /\ r.op = "test" /\ r.loaded.type = "service_account"
  /\ ee' = [ee EXCEPT ![t] = "own"] /\ Answer(t, "own")
  /\ UNCHANGED <<row, flow, flows, exchanged, bucket, mixed>>

(* The credentials of the user are refused or incomplete. *)
InitializeWithDefault(t) ==
  /\ request[t].op = "test"
  /\ \/ ee' = [ee EXCEPT ![t] = "default"] /\ Answer(t, "default")
     \/ Done(t) /\ UNCHANGED ee                         (* none is configured *)
  /\ UNCHANGED <<row, flow, flows, exchanged, bucket, mixed>>

Answered(t) ==
  /\ request[t].op = "valid" /\ Done(t)
  /\ UNCHANGED <<row, flow, flows, exchanged, bucket, ee, mixed>>

(* The process serves another user, its client fails, or it is replaced.   *)
ClientChanges(t) ==
  /\ request[t] = NoRequest /\ \E i \in {"other", None} : ee' = [ee EXCEPT ![t] = i]
  /\ UNCHANGED <<row, flow, flows, exchanged, bucket, request, mixed>>

-----------------------------------------------------------------------------
(* openEO                                                                  *)

SetOpenEO ==
  /\ row' = [row EXCEPT !.openeo = TRUE]
  /\ UNCHANGED <<flow, flows, exchanged, bucket, ee, request, mixed>>

DeleteOpenEO ==
  /\ row' = [row EXCEPT !.openeo = FALSE]
  /\ UNCHANGED <<flow, flows, exchanged, bucket, ee, request, mixed>>

(* connect falls back to the credentials of the system. *)
Connected == {"own", "default"}

CheckOpenEO(t) ==
  /\ row.openeo /\ \E by \in Connected : Begin(t, [NoRequest EXCEPT !.op = "valid", !.by = by])
  /\ UNCHANGED <<row, flow, flows, exchanged, bucket, ee>>

RequestFails(t) ==
  /\ request[t] # NoRequest /\ Done(t)
  /\ UNCHANGED <<row, flow, flows, exchanged, bucket, ee, mixed>>

Next ==
  \/ InitiateOAuth \/ StateExpires
  \/ UploadServiceAccount \/ UploadServiceAccountAdmin
  \/ SetOpenEO \/ DeleteOpenEO
  \/ \E t \in Threads :
        \/ \E s \in 1..flows : CallbackVerify(t, s) \/ CallbackAnonymous(t, s)
        \/ CallbackConsume(t) \/ CallbackStore(t)
        \/ GrantBucketWrite(t) \/ SetCloudProject(t)
        \/ RevokeBucketWrite(t) \/ DeleteByAdmin(t) \/ ClearCredentials(t)
        \/ TestCredentials(t) \/ TestByAdmin(t)
        \/ AlreadyInitialized(t) \/ InitializeWithOAuth(t)
        \/ InitializeWithServiceAccount(t) \/ InitializeWithDefault(t) \/ Answered(t)
        \/ ClientChanges(t) \/ CheckOpenEO(t) \/ RequestFails(t)

Spec == Init /\ [][Next]_vars

-----------------------------------------------------------------------------
(* The types of the variables. *)
TypeOK ==
  /\ row \in Row /\ flow \in 0..flows /\ flows \in 0..MaxFlows /\ exchanged \subseteq 1..flows
  /\ bucket \subseteq Accounts /\ ee \in [Threads -> {None, "own", "default", "other"}]
  /\ request \in [Threads -> [op : {"idle", "verified", "exchange", "project", "delete", "test", "valid"},
                              loaded : Row, flow : 0..MaxFlows,
                              by : Accounts \cup {None, "own", "default", "other"}]]
  /\ mixed \in BOOLEAN

(* "All encrypted credential data is permanently removed"                  *)
(* (gee_credentials.py:866): a user without credentials has none in the    *)
(* row, however often accounts, keys and consents replaced one another, as *)
(* long as no two requests overlapped.  (A refresh of the tokens that      *)
(* overlaps the deletion stores them again.)                               *)
ErasedWhenDeleted ==
  ~mixed /\ row.type = None => row.tokens = None /\ ~row.key /\ row.email = None

(* "Initializes Google Earth Engine with user's credentials"               *)
(* (gee_credentials.py:934): credentials found valid were the user's.      *)
ValidMeansOwn == \A t \in Threads : request[t].op = "valid" => request[t].by = "own"

(* "Store the Google email for later revocation" (gee_credentials.py:696): *)
(* without credentials, no account of the user has access to the bucket.   *)
DeletedMeansRevoked == row.type = None => bucket = {}
=============================================================================
