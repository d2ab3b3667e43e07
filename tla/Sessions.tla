------------------------------ MODULE Sessions ------------------------------
(***************************************************************************)
(* The refresh tokens of one user.  A login inserts a token, a refresh     *)
(* with rotation revokes one and inserts the next in two transactions, and *)
(* logout-all and a password change read the tokens that are not revoked   *)
(* and revoke them.  Two daily tasks revoke unused tokens and delete       *)
(* expired ones.  A commit that updates a row another transaction deleted  *)
(* matches fewer rows than it expects and is rolled back as a whole.       *)
(***************************************************************************)
EXTENDS Naturals, Sequences, FiniteSetsExt

CONSTANTS
  Threads,      (* API threads that serve requests of this user             *)
  MaxSessions   (* bound: tokens ever inserted                              *)

VARIABLES
  account,     (* whether the user row exists                               *)
  tokens,      (* the refresh_tokens rows, in the order of their insertion  *)
  request,     (* each API thread: what it does next, and what it read      *)
  sweep,       (* the rows cleanup_inactive_refresh_tokens selected         *)
  rotated,     (* history: how often each token was taken for rotation      *)
  signedOut    (* history: the tokens up to here met a completed sign-out   *)

vars == <<account, tokens, request, sweep, rotated, signedOut>>

Gone == [state |-> "deleted", used |-> FALSE, age |-> "fresh"]

Ids == 1..Len(tokens)
Row == [state : {"active", "revoked", "deleted"}, used : BOOLEAN,
        age : {"fresh", "idle", "expired"}]

Idle == [op |-> "idle", token |-> 0, seen |-> {}, upTo |-> 0]

Init ==
  /\ account = TRUE /\ tokens = <<>>
  /\ request = [t \in Threads |-> Idle]
  /\ sweep = {} /\ rotated = <<>> /\ signedOut = 0

-----------------------------------------------------------------------------
(* Reading and writing tokens                                              *)

IsValid(k) == tokens[k].state = "active" /\ tokens[k].age # "expired"

(* Mutant: sessions that were not used lately are left out. *)
NotRevokedFresh == {k \in Ids : tokens[k].state = "active" /\ tokens[k].age = "fresh"}

NotRevoked == {k \in Ids : tokens[k].state = "active"}

(* The foreign key refuses a token of a user who is gone. *)
Insert ==
  /\ Len(tokens) < MaxSessions
  /\ tokens' = IF account
               THEN Append(tokens, [state |-> "active", used |-> FALSE, age |-> "fresh"])
               ELSE tokens
  /\ rotated' = IF account THEN Append(rotated, 0) ELSE rotated

(* A commit updates all the rows it read, or none of them. *)
Commits(ks) == \A k \in ks : tokens[k].state # "deleted"

Revoked(ks) ==
  [k \in Ids |-> IF k \in ks THEN [tokens[k] EXCEPT !.state = "revoked"] ELSE tokens[k]]

Then(t, r) == request' = [request EXCEPT ![t] = r]

-----------------------------------------------------------------------------
(* Login and refresh                                                       *)

(* POST /auth accepted the password. *)
Authenticate(t) ==
  /\ request[t] = Idle /\ account
  /\ Then(t, [Idle EXCEPT !.op = "login"])
  /\ UNCHANGED <<account, tokens, sweep, rotated, signedOut>>

CreateRefreshToken(t) ==
  /\ request[t].op = "login" /\ Then(t, Idle)
  /\ Insert
  /\ UNCHANGED <<account, sweep, signedOut>>

(* POST /auth/refresh; without rotate=true the same token is returned. *)
Validate(t, k) ==
  /\ request[t] = Idle /\ IsValid(k)
  /\ tokens' = [tokens EXCEPT ![k].used = TRUE, ![k].age = "fresh"]
  /\ \/ Then(t, [Idle EXCEPT !.op = "rotate", !.token = k])
     \/ UNCHANGED request
  /\ UNCHANGED <<account, sweep, rotated, signedOut>>

Revoke(t) ==
  /\ request[t].op = "rotate"
  /\ IF Commits({request[t].token})
     THEN /\ tokens' = Revoked({request[t].token})
          /\ rotated' = [rotated EXCEPT ![request[t].token] = @ + 1]
          /\ Then(t, [Idle EXCEPT !.op = "issue"])
     ELSE UNCHANGED <<tokens, rotated>> /\ Then(t, Idle)
  /\ UNCHANGED <<account, sweep, signedOut>>

Issue(t) ==
  /\ request[t].op = "issue" /\ Then(t, Idle)
  /\ Insert
  /\ UNCHANGED <<account, sweep, signedOut>>

(* The thread dies, or the database refuses its next statement. *)
RequestDies(t) ==
  /\ request[t] # Idle /\ Then(t, Idle)
  /\ UNCHANGED <<account, tokens, sweep, rotated, signedOut>>

-----------------------------------------------------------------------------
(* Signing out                                                             *)

(* POST /auth/logout with a refresh token. *)
Logout(k) ==
  /\ tokens[k].state # "deleted" /\ tokens' = Revoked({k})
  /\ UNCHANGED <<account, request, sweep, rotated, signedOut>>

(* DELETE /user/me/sessions/<id>, of an own session *)
RevokeUserSession(k) == Logout(k)

SignOutRead(t) ==
  /\ request[t] = Idle /\ account
  /\ Then(t, [Idle EXCEPT !.op = "sign-out", !.seen = NotRevoked, !.upTo = Len(tokens)])
  /\ UNCHANGED <<account, tokens, sweep, rotated, signedOut>>

LogoutAllRead(t) == SignOutRead(t)

(* DELETE /user/me/sessions *)
RevokeAllUserSessions(t) == SignOutRead(t)

(* After the new password is committed.  The session of the request itself *)
(* is not spared, and an error is only logged.                             *)
InvalidateRead(t) == SignOutRead(t)

SignOutCommit(t) ==
  /\ request[t].op = "sign-out" /\ Then(t, Idle)
  /\ IF Commits(request[t].seen)
     THEN /\ tokens' = Revoked(request[t].seen)
          /\ signedOut' = Max({signedOut, request[t].upTo})
     ELSE UNCHANGED <<tokens, signedOut>>
  /\ UNCHANGED <<account, sweep, rotated>>

-----------------------------------------------------------------------------
(* Time and the cleanup tasks                                              *)

GetsOlder(k) ==
  /\ tokens[k].state # "deleted"
  /\ \/ tokens[k].age # "expired" /\ tokens' = [tokens EXCEPT ![k].age = "expired"]
     \/ tokens[k].age = "fresh" /\ tokens' = [tokens EXCEPT ![k].age = "idle"]
  /\ UNCHANGED <<account, request, sweep, rotated, signedOut>>

CleanupExpired ==
  /\ \E k \in Ids : tokens[k].state # "deleted" /\ tokens[k].age = "expired"
  /\ tokens' = [k \in Ids |-> IF tokens[k].age = "expired"
                              THEN Gone ELSE tokens[k]]
  /\ UNCHANGED <<account, request, sweep, rotated, signedOut>>

(* Tokens that were never used keep last_used_at NULL and are left alone. *)
CleanupInactiveSelect ==
  /\ sweep = {}
  /\ sweep' = {k \in NotRevoked : tokens[k].used /\ tokens[k].age # "fresh"}
  /\ sweep' # {}
  /\ UNCHANGED <<account, tokens, request, rotated, signedOut>>

CleanupInactiveCommit ==
  /\ sweep # {} /\ sweep' = {}
  /\ tokens' = IF Commits(sweep) THEN Revoked(sweep) ELSE tokens
  /\ UNCHANGED <<account, request, rotated, signedOut>>

(* UserService.delete_user deletes the tokens with the user. *)
DeleteUser ==
  /\ account /\ account' = FALSE
  /\ tokens' = [k \in Ids |-> Gone]
  /\ UNCHANGED <<request, sweep, rotated, signedOut>>

-----------------------------------------------------------------------------
Next ==
  \/ \E t \in Threads :
        \/ Authenticate(t) \/ CreateRefreshToken(t)
        \/ \E k \in Ids : Validate(t, k)
        \/ Revoke(t) \/ Issue(t) \/ RequestDies(t)
        \/ LogoutAllRead(t) \/ RevokeAllUserSessions(t) \/ InvalidateRead(t)
        \/ SignOutCommit(t)
  \/ \E k \in Ids : Logout(k) \/ RevokeUserSession(k) \/ GetsOlder(k)
  \/ CleanupExpired \/ CleanupInactiveSelect \/ CleanupInactiveCommit
  \/ DeleteUser

Spec == Init /\ [][Next]_vars

-----------------------------------------------------------------------------
(* The types of the variables. *)
TypeOK ==
  /\ account \in BOOLEAN /\ tokens \in Seq(Row) /\ Len(tokens) <= MaxSessions
  /\ request \in [Threads -> [op : {"idle", "login", "rotate", "issue", "sign-out"},
                              token : 0..MaxSessions, seen : SUBSET (1..MaxSessions),
                              upTo : 0..MaxSessions]]
  /\ sweep \subseteq Ids /\ Len(rotated) = Len(tokens) /\ signedOut \in 0..Len(tokens)

(* A token may be rotated by every request that validated it before one of *)
(* them revoked it, never by one that came later: it is replaced at most   *)
(* once per overlapping request (refresh_token_service.py:106-132).        *)
RotationBounded ==
  \A k \in Ids : rotated[k] <= Cardinality(Threads)

(* A sign-out that completed (logout-all, or the invalidation that follows *)
(* a password change) ended every session there was when it read the       *)
(* tokens, and none of them comes back, whatever refreshes, other          *)
(* sign-outs or cleanups ran between its read and its commit.              *)
SignOutFinal == \A k \in 1..signedOut : tokens[k].state # "active"
=============================================================================
