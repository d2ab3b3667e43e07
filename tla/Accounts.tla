------------------------------ MODULE Accounts ------------------------------
(***************************************************************************)
(* The user rows of one email address: registration, login with its        *)
(* lockout, password change, recovery by reset token, role, deletion with  *)
(* its audit record, and the weekly sweeps over unused accounts.  Every    *)
(* handler loads the row, decides (a password hash is slow) and commits    *)
(* only the columns that differ from what it loaded.                       *)
(***************************************************************************)
EXTENDS Naturals, Sequences, FiniteSetsExt

CONSTANTS
  Threads,      (* API threads                                              *)
  Sweepers,     (* runs of the two weekly cleanup tasks that may overlap    *)
  Roles,        (* the roles users may have, of USER, ADMIN and SUPERADMIN  *)
  TempLockAt,   (* failed logins that lock for a time (5 and 10 in the code)*)
  PermLockAt,   (* failed logins that lock until a reset (20 in the code)   *)
  MaxUsers,     (* bound: rows ever inserted for the address                *)
  MaxResets,    (* bound: reset tokens ever inserted                        *)
  MaxWrong      (* bound: wrong passwords entered for one row               *)

ASSUME AccountsAssumption ==
  /\ IsFiniteSet(Threads) /\ IsFiniteSet(Sweepers)
  /\ Roles \subseteq {"USER", "ADMIN", "SUPERADMIN"}
  /\ {TempLockAt, PermLockAt, MaxUsers, MaxResets, MaxWrong} \subseteq Nat
  /\ 0 < TempLockAt /\ TempLockAt < PermLockAt

VARIABLES
  users,     (* the rows, in the order of their insertion                   *)
  resets,    (* the password_reset_token rows                               *)
  request,   (* each API thread: what it does next, and what it loaded      *)
  sweep,     (* each cleanup run: the row it selected, or 0                 *)
  jobs,      (* the rows whose executions still run on Docker or Batch      *)
  audits,    (* user_deletion_audit: records and kept hashes of each row    *)
  wrong,     (* history: wrong passwords entered for each row               *)
  spent      (* history: password resets made with each token               *)

data == <<users, resets, jobs, audits>>
vars == <<data, request, sweep, wrong, spent>>

Locks == {"none", "temp", "past", "perm"}
Reasons == {"user_request", "admin_request"}
Ids == 1..Len(users)
Row == [live : BOOLEAN, role : Roles, fails : 0..MaxWrong, lock : Locks,
        verified : BOOLEAN, seen : BOOLEAN, age : 0..2, held : BOOLEAN]

Operations ==
  {"idle", "login", "wrong", "change", "admin-change", "recover", "reset"} \cup Reasons

RequestType ==
  [op : Operations, id : 0..MaxUsers, fails : 0..MaxWrong, lock : Locks,
   token : 0..MaxResets, seen : SUBSET (1..MaxResets)]

Idle == [op |-> "idle", id |-> 0, fails |-> 0, lock |-> "none", token |-> 0, seen |-> {}]
NoSweep == 0

Init ==
  /\ users = <<>> /\ resets = <<>> /\ jobs = {} /\ audits = <<>>
  /\ request = [t \in Threads |-> Idle]
  /\ sweep = [s \in Sweepers |-> NoSweep]
  /\ wrong = <<>> /\ spent = <<>>

-----------------------------------------------------------------------------
(* Permissions; the configured administrator's address counts as SUPERADMIN *)

IsSuperadmin(role) == role = "SUPERADMIN"
IsAdminOrHigher(role) == role \in {"ADMIN", "SUPERADMIN"}
MayChangePasswordOf(role, target) ==
  IsSuperadmin(role) \/ (IsAdminOrHigher(role) /\ target # "SUPERADMIN")

-----------------------------------------------------------------------------
(* Loading and writing rows                                                *)

Live(n) == n \in Ids /\ users[n].live

Loaded(op, n) ==
  [Idle EXCEPT !.op = op, !.id = n, !.fails = users[n].fails, !.lock = users[n].lock]

Then(t, r) == request' = [request EXCEPT ![t] = r]

(* A column is written when it differs from what the thread loaded; an     *)
(* UPDATE of a row that is gone is an error and rolls back.                *)
Column(old, new, now) == IF new # old THEN new ELSE now

Locked(n) == users[n].lock \in {"temp", "perm"}

WithFails(t, fails, lock) ==
  LET r == request[t] IN
  [users EXCEPT ![r.id].fails = Column(r.fails, fails, @),
                ![r.id].lock = Column(r.lock, lock, @)]

(* clear_failed_logins *)
Cleared(t) == WithFails(t, 0, "none")

(* Mutant: the thresholds are met one failure early. *)
LockAfterEarly(count, lock) ==
  IF count + 1 >= PermLockAt THEN "perm" ELSE IF count + 1 >= TempLockAt THEN "temp" ELSE lock

(* record_failed_login; each failure past a threshold locks anew. *)
LockAfter(count, lock) ==
  IF count >= PermLockAt THEN "perm" ELSE IF count >= TempLockAt THEN "temp" ELSE lock

-----------------------------------------------------------------------------
(* Registration                                                            *)

(* Anonymous callers become USER; only a superadmin names another role.    *)
MayRegister(caller, role) == role = "USER" \/ IsSuperadmin(caller)

New(role) == [live |-> TRUE, role |-> role, fails |-> 0, lock |-> "none",
              verified |-> FALSE, seen |-> FALSE, age |-> 0, held |-> FALSE]

(* The address is unique; its row is committed before its reset token.     *)
CreateUser(t) ==
  /\ request[t] = Idle /\ Len(users) < MaxUsers /\ \A n \in Ids : ~users[n].live
  /\ \E caller \in Roles \cup {"ANONYMOUS"}, role \in Roles :
        /\ MayRegister(caller, role)
        /\ users' = Append(users, New(role))
  /\ audits' = Append(audits, [records |-> 0, hashes |-> 0, expiring |-> FALSE])
  /\ wrong' = Append(wrong, 0)
  /\ Then(t, [Idle EXCEPT !.op = "recover", !.id = Len(users) + 1])
  /\ UNCHANGED <<resets, jobs, sweep, spent>>

-----------------------------------------------------------------------------
(* Login and lockout                                                       *)

(* The row is loaded, found unlocked, and the password compared. *)
LoginRead(t, n) ==
  /\ request[t] = Idle /\ Live(n) /\ ~Locked(n)
  /\ \/ Then(t, Loaded("login", n)) /\ UNCHANGED wrong
     \/ /\ wrong[n] < MaxWrong /\ wrong' = [wrong EXCEPT ![n] = @ + 1]
        /\ Then(t, Loaded("wrong", n))
  /\ UNCHANGED <<data, sweep, spent>>

RecordFailedLogin(t) ==
  LET r == request[t] IN
  /\ r.op = "wrong" /\ Then(t, Idle)
  /\ users' = IF Live(r.id) THEN WithFails(t, r.fails + 1, LockAfter(r.fails + 1, r.lock))
              ELSE users
  /\ UNCHANGED <<resets, jobs, audits, sweep, wrong, spent>>

RecordLogin(t) ==
  /\ request[t].op = "login" /\ Then(t, Idle)
  /\ users' = IF Live(request[t].id)
              THEN [Cleared(t) EXCEPT ![request[t].id].seen = TRUE, ![request[t].id].age = 0]
              ELSE users
  /\ UNCHANGED <<resets, jobs, audits, sweep, wrong, spent>>

-----------------------------------------------------------------------------
(* Passwords                                                               *)

(* The user, with the current password, or an administrator. *)
ChangePassword(t, n) ==
  /\ request[t] = Idle /\ Live(n) /\ users[n].seen
  /\ Then(t, Loaded("change", n))
  /\ UNCHANGED <<data, sweep, wrong, spent>>

AdminChangePassword(t, n) ==
  /\ request[t] = Idle /\ Live(n)
  /\ \E caller \in Roles : MayChangePasswordOf(caller, users[n].role)
  /\ Then(t, Loaded("admin-change", n))
  /\ UNCHANGED <<data, sweep, wrong, spent>>

NewPassword(t) ==
  /\ Then(t, Idle)
  /\ users' = IF Live(request[t].id) THEN Cleared(t) ELSE users
  /\ UNCHANGED <<resets, jobs, audits, sweep, wrong, spent>>

PasswordCommit(t) == request[t].op = "change" /\ NewPassword(t)

AdminPasswordCommit(t) == request[t].op = "admin-change" /\ NewPassword(t)

Usable(k) == resets[k].state = "valid" /\ Live(resets[k].id)

(* The valid tokens of the user are marked used in the transaction that    *)
(* inserts the next one; it does not see what others insert meanwhile.     *)
RecoverPassword(t, n) ==
  /\ request[t] = Idle /\ Live(n)
  /\ Then(t, [Idle EXCEPT !.op = "recover", !.id = n,
                          !.seen = {k \in DOMAIN resets : resets[k].id = n /\ Usable(k)}])
  /\ UNCHANGED <<data, sweep, wrong, spent>>

RecoverCommit(t) ==
  LET r == request[t] IN
  /\ r.op = "recover" /\ Len(resets) < MaxResets /\ Then(t, Idle)
  /\ IF Live(r.id)
     THEN /\ resets' = Append([k \in DOMAIN resets |-> IF k \in r.seen
                                 THEN [resets[k] EXCEPT !.state = "used"] ELSE resets[k]],
                              [id |-> r.id, state |-> "valid"])
          /\ spent' = Append(spent, 0)
     ELSE UNCHANGED <<resets, spent>>
  /\ UNCHANGED <<users, jobs, audits, sweep, wrong>>

(* Mutant: any token that has not expired is taken. *)
ResetReadUsed(t, k) ==
  /\ request[t] = Idle /\ resets[k].state # "expired" /\ Live(resets[k].id)
  /\ Then(t, [Loaded("reset", resets[k].id) EXCEPT !.token = k])
  /\ UNCHANGED <<data, sweep, wrong, spent>>

ResetRead(t, k) ==
  /\ request[t] = Idle /\ Usable(k)
  /\ Then(t, [Loaded("reset", resets[k].id) EXCEPT !.token = k])
  /\ UNCHANGED <<data, sweep, wrong, spent>>

ResetCommit(t) ==
  LET r == request[t] IN
  /\ r.op = "reset" /\ Then(t, Idle)
  /\ IF Live(r.id)
     THEN /\ users' = [Cleared(t) EXCEPT ![r.id].verified = TRUE]
          /\ resets' = [resets EXCEPT ![r.token].state = "used"]
          /\ spent' = [spent EXCEPT ![r.token] = @ + 1]
     ELSE UNCHANGED <<users, resets, spent>>
  /\ UNCHANGED <<jobs, audits, sweep, wrong>>

(* A thread dies, or its transaction is rolled back. *)
RequestDies(t) ==
  /\ request[t] # Idle /\ Then(t, Idle)
  /\ UNCHANGED <<data, sweep, wrong, spent>>

-----------------------------------------------------------------------------
(* Roles, and rows of other tables                                         *)

(* PATCH /user/<user>; the role a user asks for is written if it is one. *)
MayUpdate(caller) == IsSuperadmin(caller)

UpdateUser(n) ==
  /\ Live(n) /\ \E caller \in Roles : MayUpdate(caller)
  /\ \E role \in Roles : users' = [users EXCEPT ![n].role = role]
  /\ UNCHANGED <<resets, jobs, audits, request, sweep, wrong, spent>>

(* A service client, or an execution by somebody else of a script of this  *)
(* user: rows that name the user and that a deletion leaves alone.         *)
Referred(n) ==
  /\ Live(n) /\ users[n].seen /\ users' = [users EXCEPT ![n].held = TRUE]
  /\ UNCHANGED <<resets, jobs, audits, request, sweep, wrong, spent>>

StartExecution(n) ==
  /\ Live(n) /\ users[n].seen /\ jobs' = jobs \cup {n}
  /\ UNCHANGED <<users, resets, audits, request, sweep, wrong, spent>>

ExecutionEnds(n) ==
  /\ n \in jobs /\ jobs' = jobs \ {n}
  /\ UNCHANGED <<users, resets, audits, request, sweep, wrong, spent>>

-----------------------------------------------------------------------------
(* Deletion                                                                *)

DeleteRead(t, n, reason) ==
  /\ request[t] = Idle /\ Live(n)
  /\ Then(t, [Idle EXCEPT !.op = reason, !.id = n])
  /\ UNCHANGED <<data, sweep, wrong, spent>>

DeleteProfile(t, n) ==
  ~IsAdminOrHigher(users[n].role) /\ users[n].seen /\ DeleteRead(t, n, "user_request")

DeleteByAdmin(t, n) ==
  /\ \E caller \in Roles : IsSuperadmin(caller)
  /\ DeleteRead(t, n, "admin_request")

WithRecord(n, reason) ==
  [audits EXCEPT ![n].records = @ + 1, ![n].hashes = @ + 1,
                 ![n].expiring = @ \/ reason = "user_request"]

(* Mutant: the record is written only if the deletion of the rows succeeds *)
(* in a transaction of its own, which may fail.                            *)
EraseUnaudited(n, reason) ==
  /\ users' = [users EXCEPT ![n] = [New(@.role) EXCEPT !.live = FALSE]]
  /\ resets' = [k \in DOMAIN resets |-> IF resets[k].id = n
                  THEN [resets[k] EXCEPT !.state = "gone"] ELSE resets[k]]
  /\ audits' \in {audits, WithRecord(n, reason)}
  /\ UNCHANGED jobs

(* One transaction: the record, the deletion of executions, scripts, logs  *)
(* and tokens, and of the row, of which no column is left.  Deleting a row *)
(* that is gone only warns.                                                *)
Erase(n, reason) ==
  /\ users' = [users EXCEPT ![n] = [New(@.role) EXCEPT !.live = FALSE]]
  /\ resets' = [k \in DOMAIN resets |-> IF resets[k].id = n
                  THEN [resets[k] EXCEPT !.state = "gone"] ELSE resets[k]]
  /\ audits' = WithRecord(n, reason)
  /\ UNCHANGED jobs

DeleteUser(t) ==
  LET r == request[t] IN
  /\ r.op \in Reasons /\ Then(t, Idle)
  /\ IF users[r.id].live /\ users[r.id].held THEN UNCHANGED data ELSE Erase(r.id, r.op)
  /\ UNCHANGED <<sweep, wrong, spent>>

(* cleanup_expired_email_hashes, 30 days after a deletion at the user's request *)
CleanupHashes(n) ==
  /\ audits[n].expiring /\ audits' = [audits EXCEPT ![n].hashes = 0, ![n].expiring = FALSE]
  /\ UNCHANGED <<users, resets, jobs, request, sweep, wrong, spent>>

(* Both tasks start at the same time, once a week, in workers of their own *)
(* (celery.py:153-160); each loads what it selects.                        *)
Select(s, n) ==
  /\ sweep[s] = NoSweep /\ sweep' = [sweep EXCEPT ![s] = n]
  /\ UNCHANGED <<data, request, wrong, spent>>

SweepUnverified(s, n) ==
  /\ Live(n) /\ ~users[n].verified /\ ~users[n].seen /\ users[n].age >= 1
  /\ Select(s, n)

SweepNeverLoggedIn(s, n) ==
  /\ Live(n) /\ ~users[n].seen /\ users[n].age = 2
  /\ Select(s, n)

(* get_user finds the row that the query loaded in the session and asks    *)
(* nothing again, so a row that is gone is recorded once more; a deletion   *)
(* that the database refuses is logged, and the next row follows.  The      *)
(* reasons of the two tasks are "cleanup" here: neither hash expires.       *)
SweepDelete(s) ==
  LET n == sweep[s] IN
  /\ n # NoSweep /\ sweep' = [sweep EXCEPT ![s] = NoSweep]
  /\ IF users[n].live /\ users[n].held THEN UNCHANGED data ELSE Erase(n, "cleanup")
  /\ UNCHANGED <<request, wrong, spent>>

(* A row of another address had its turn first: its commit or rollback      *)
(* expires what is loaded, and user.email loads it again.  For a row that   *)
(* is gone, this one or the other, it raises, and once more where the error *)
(* is logged, which ends the task.                                          *)
SweepEnds(s) ==
  /\ sweep[s] # NoSweep /\ sweep' = [sweep EXCEPT ![s] = NoSweep]
  /\ UNCHANGED <<data, request, wrong, spent>>

-----------------------------------------------------------------------------
(* Time                                                                    *)

LockRunsOut(n) ==
  /\ users[n].lock = "temp" /\ users' = [users EXCEPT ![n].lock = "past"]
  /\ UNCHANGED <<resets, jobs, audits, request, sweep, wrong, spent>>

TokenExpires(k) ==
  /\ resets[k].state = "valid" /\ resets' = [resets EXCEPT ![k].state = "expired"]
  /\ UNCHANGED <<users, jobs, audits, request, sweep, wrong, spent>>

(* 60 days, then a year; the age matters, and is kept, only until the first *)
(* login.                                                                   *)
GetsOlder(n) ==
  /\ Live(n) /\ ~users[n].seen /\ users[n].age < 2 /\ users' = [users EXCEPT ![n].age = @ + 1]
  /\ UNCHANGED <<resets, jobs, audits, request, sweep, wrong, spent>>

Next ==
  \/ \E t \in Threads :
        \/ CreateUser(t) \/ RecordFailedLogin(t) \/ RecordLogin(t)
        \/ PasswordCommit(t) \/ AdminPasswordCommit(t) \/ RecoverCommit(t) \/ ResetCommit(t)
        \/ RequestDies(t) \/ DeleteUser(t)
        \/ \E n \in Ids :
              \/ LoginRead(t, n) \/ ChangePassword(t, n) \/ AdminChangePassword(t, n)
              \/ RecoverPassword(t, n) \/ DeleteProfile(t, n) \/ DeleteByAdmin(t, n)
        \/ \E k \in DOMAIN resets : ResetRead(t, k)
  \/ \E n \in Ids :
        \/ UpdateUser(n) \/ Referred(n) \/ StartExecution(n) \/ ExecutionEnds(n)
        \/ CleanupHashes(n) \/ LockRunsOut(n) \/ GetsOlder(n)
  \/ \E s \in Sweepers :
        \/ SweepDelete(s) \/ SweepEnds(s)
        \/ \E n \in Ids : SweepUnverified(s, n) \/ SweepNeverLoggedIn(s, n)
  \/ \E k \in DOMAIN resets : TokenExpires(k)

Spec == Init /\ [][Next]_vars

-----------------------------------------------------------------------------
(* The types of the variables. *)
TypeOK ==
  /\ users \in Seq(Row) /\ Len(users) <= MaxUsers /\ jobs \subseteq Ids
  /\ resets \in Seq([id : Ids, state : {"valid", "used", "expired", "gone"}])
  /\ request \in [Threads -> RequestType]
  /\ sweep \in [Sweepers -> 0..MaxUsers]
  /\ Len(audits) = Len(users) /\ Len(wrong) = Len(users) /\ Len(spent) = Len(resets)

(* A reset token sets a password once, or once per request that found it   *)
(* valid before the first of them marked it used (user_service.py:617-652).*)
ResetBounded == \A k \in DOMAIN resets : spent[k] <= Cardinality(Threads)

(* However logins, resets and stale commits interleave, an account is      *)
(* locked only if that many wrong passwords were entered for it: a stale   *)
(* count may be written back, but never one that was not reached.          *)
LockEarned ==
  \A n \in Ids : /\ users[n].lock # "none" => wrong[n] >= TempLockAt
                 /\ users[n].lock = "perm" => wrong[n] >= PermLockAt

(* An account that is gone has an audit record, and more than one only if  *)
(* several requests and cleanup runs deleted it at the same time: each of  *)
(* them has the row loaded and writes a record of its own, and no request  *)
(* or run writes two.                                                      *)
DeletionAudited ==
  \A n \in Ids : ~users[n].live =>
     audits[n].records \in 1..(Cardinality(Threads) + Cardinality(Sweepers))

(* "Deletes users where: ... User has never logged in" (user_cleanup.py:51)*)
SweptNeverLoggedIn ==
  [][\A s \in Sweepers, n \in Ids :
       sweep[s] = n /\ sweep'[s] = NoSweep /\ users[n].live /\ ~users'[n].live
         => ~users[n].seen]_vars

(* "Cancels all running executions for this user" (users.py:724): nothing  *)
(* of a deleted account keeps running.                                     *)
DeletionCancels == \A n \in jobs : users[n].live
=============================================================================
