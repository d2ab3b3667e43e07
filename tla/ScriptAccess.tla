---------------------------- MODULE ScriptAccess ----------------------------
(***************************************************************************)
(* Who may see one script: its publication and its access lists.  Each     *)
(* request loads the row, works out the new lists from what it loaded, and *)
(* commits the columns that changed; no lock keeps two requests apart.     *)
(***************************************************************************)
CONSTANTS
  Threads,   (* API threads                                                 *)
  Users,     (* users of role USER who are not the owner                    *)
  Admins,    (* ADMIN and SUPERADMIN users                                  *)
  Owner,     (* the user the script belongs to                              *)
  Roles      (* the roles lists may name, of USER, ADMIN and SUPERADMIN     *)

VARIABLES
  row,       (* public, restricted, allowed_roles, allowed_users; {}: NULL  *)
  request,   (* each API thread: busy, and the columns it will write        *)
  mixed      (* history: two requests overlapped                            *)

vars == <<row, request, mixed>>

Role(u) == IF u \in Admins THEN "ADMIN" ELSE "USER"
Everyone == Users \cup Admins \cup {Owner}

Script == [public : BOOLEAN, restricted : BOOLEAN, roles : SUBSET Roles, users : SUBSET Users]
New == [public |-> FALSE, restricted |-> FALSE, roles |-> {}, users |-> {}]
NoRequest == [busy |-> FALSE, writes |-> <<>>]

Init == row = New /\ request = [t \in Threads |-> NoRequest] /\ mixed = FALSE

-----------------------------------------------------------------------------
(* The lists; a list that becomes empty leaves the script restricted       *)

WithRoles(s, roles) ==
  [s EXCEPT !.roles = roles, !.restricted = @ \/ roles # {}]

WithUsers(s, users) ==
  [s EXCEPT !.users = users, !.restricted = @ \/ users # {}]

(* A user or role that is listed already, or is not, changes nothing.      *)
AddUser(s, u) == IF u \in s.users THEN s ELSE WithUsers(s, s.users \cup {u})
RemoveUser(s, u) == IF u \in s.users THEN WithUsers(s, s.users \ {u}) ELSE s
AddRole(s, r) == IF r \in s.roles THEN s ELSE WithRoles(s, s.roles \cup {r})
RemoveRole(s, r) == IF r \in s.roles THEN WithRoles(s, s.roles \ {r}) ELSE s
Cleared(s) == [s EXCEPT !.roles = {}, !.users = {}, !.restricted = FALSE]

-----------------------------------------------------------------------------
(* Who may                                                                 *)

CanAccess(u) ==
  \/ u \in Admins \/ u = Owner
  \/ row.public \/ ~row.restricted
  \/ Role(u) \in row.roles \/ u \in row.users

(* Mutant: every restricted script is listed. *)
ListedAny(u) ==
  u \in Admins \/ u = Owner \/ row.public \/ row.restricted

(* get_scripts filters in SQL. *)
Listed(u) ==
  \/ u \in Admins \/ u = Owner
  \/ row.public /\ ~row.restricted
  \/ row.restricted /\ (Role(u) \in row.roles \/ u \in row.users)

(* get_script on behalf of a user, for the script and for what it gives    *)
(* access to: its archive and its row.                                     *)
GetScript(u) == CanAccess(u)

(* Access lists are for administrators; publication, the configuration and *)
(* a new upload are for the owner as well.                                 *)
MayManage(u) == u \in Admins
MayPublish(u) == u \in Admins \cup {Owner}

-----------------------------------------------------------------------------
(* Requests                                                                *)

(* Only the columns whose value differs from the loaded one are written.   *)
Load(t, new) ==
  LET changed == {c \in DOMAIN row : new[c] # row[c]} IN
  /\ ~request[t].busy
  /\ request' = [request EXCEPT ![t] = [busy |-> TRUE, writes |-> [c \in changed |-> new[c]]]]
  /\ mixed' = (mixed \/ \E u \in Threads : request[u].busy)
  /\ UNCHANGED row

(* PUT /access/roles and /access/users; users must exist. *)
SetScriptAccessRoles(t, u) == MayManage(u) /\ \E roles \in SUBSET Roles : Load(t, WithRoles(row, roles))
SetScriptAccessUsers(t, u) == MayManage(u) /\ \E users \in SUBSET Users : Load(t, WithUsers(row, users))
AddScriptAccessUser(t, u) == MayManage(u) /\ \E v \in Users : Load(t, AddUser(row, v))
RemoveScriptAccessUser(t, u) == MayManage(u) /\ \E v \in Users : Load(t, RemoveUser(row, v))
AddScriptAccessRole(t, u) == MayManage(u) /\ \E r \in Roles : Load(t, AddRole(row, r))
RemoveScriptAccessRole(t, u) == MayManage(u) /\ \E r \in Roles : Load(t, RemoveRole(row, r))
ClearScriptAccess(t, u) == MayManage(u) /\ Load(t, Cleared(row))
PublishScript(t, u) == MayPublish(u) /\ Load(t, [row EXCEPT !.public = TRUE])
UnpublishScript(t, u) == MayPublish(u) /\ Load(t, [row EXCEPT !.public = FALSE])

(* The columns that are written, and the others as they are by now. *)
Written(s, writes) == [c \in DOMAIN s |-> IF c \in DOMAIN writes THEN writes[c] ELSE s[c]]

Commit(t) ==
  /\ request[t].busy /\ request' = [request EXCEPT ![t] = NoRequest]
  /\ row' = Written(row, request[t].writes)
  /\ UNCHANGED mixed

(* The thread dies, or the database refuses. *)
RequestDies(t) ==
  /\ request[t].busy /\ request' = [request EXCEPT ![t] = NoRequest]
  /\ UNCHANGED <<row, mixed>>

Next ==
  \E t \in Threads :
     \/ \E u \in Everyone :
           \/ SetScriptAccessRoles(t, u) \/ SetScriptAccessUsers(t, u)
           \/ AddScriptAccessUser(t, u) \/ RemoveScriptAccessUser(t, u)
           \/ AddScriptAccessRole(t, u) \/ RemoveScriptAccessRole(t, u)
           \/ ClearScriptAccess(t, u) \/ PublishScript(t, u) \/ UnpublishScript(t, u)
     \/ Commit(t) \/ RequestDies(t)

Spec == Init /\ [][Next]_vars

-----------------------------------------------------------------------------
(* The types of the variables. *)
TypeOK ==
  /\ row \in Script /\ mixed \in BOOLEAN
  /\ \A t \in Threads : request[t].busy \in BOOLEAN /\ Written(New, request[t].writes) \in Script

(* The SQL filter of the list and can_access of the model are two          *)
(* definitions of the same thing: whoever is shown a script in the list    *)
(* can open it, whatever the requests on its lists did.                    *)
ListedIsAccessible == \A u \in Everyone : Listed(u) => GetScript(u)

(* A script that names users or roles is restricted to them, as long as no *)
(* two requests overlapped.                                                *)
GrantsRestrict == ~mixed => (row.users # {} \/ row.roles # {} => row.restricted)

(* Without the proviso: a request that loaded a restricted script does not *)
(* write the flag again, which another request has cleared meanwhile.      *)
GrantsRestrictAlways == row.users # {} \/ row.roles # {} => row.restricted
=============================================================================
