--------------------------- MODULE ServiceClients ---------------------------
(***************************************************************************)
(* The OAuth2 service clients of one user and the access tokens issued to  *)
(* them.  A request counts the clients before it inserts one, and checks a *)
(* client before it issues a token; a token is not looked up again.        *)
(***************************************************************************)
EXTENDS Naturals, FiniteSetsExt

CONSTANTS
  Threads,   (* API threads                                                 *)
  Clients,   (* clients that may ever be created                            *)
  Limit,     (* MAX_CLIENTS_PER_USER, 10 in the code                        *)
  Lifetime   (* OAUTH2_TOKEN_LIFETIME_SECONDS, in ticks                     *)

VARIABLES
  client,    (* each client: "none", "active", "expired" or "revoked"       *)
  request,   (* each API thread: what it does next                          *)
  token,     (* lifetime the newest token of each client has left           *)
  ended      (* history: ticks since the client was revoked or expired      *)

vars == <<client, request, token, ended>>

NoClient == "no client"
NoRequest == [op |-> "idle", client |-> NoClient]

Init ==
  /\ client = [c \in Clients |-> "none"] /\ request = [t \in Threads |-> NoRequest]
  /\ token = [c \in Clients |-> 0] /\ ended = [c \in Clients |-> 0]

Then(t, op, c) == request' = [request EXCEPT ![t] = [op |-> op, client |-> c]]

(* Expired clients count until they are revoked. *)
Active == {c \in Clients : client[c] \in {"active", "expired"}}

(* Mutant: the limit is compared one too late. *)
BelowLimitLate == Cardinality(Active) <= Limit

BelowLimit == Cardinality(Active) < Limit

-----------------------------------------------------------------------------
(* POST and DELETE /oauth/clients                                          *)

(* Unknown scopes, or "all" beside another, are refused before this.       *)
CreateCount(t) ==
  /\ request[t] = NoRequest /\ BelowLimit /\ Then(t, "create", NoClient)
  /\ UNCHANGED <<client, token, ended>>

CreateClient(t, c) ==
  /\ request[t].op = "create" /\ client[c] = "none" /\ Then(t, "idle", NoClient)
  /\ client' = [client EXCEPT ![c] = "active"]
  /\ UNCHANGED <<token, ended>>

(* By its owner or an administrator. *)
RevokeClient(c) ==
  /\ client[c] \in {"active", "expired"}
  /\ client' = [client EXCEPT ![c] = "revoked"]
  /\ UNCHANGED <<request, token, ended>>

ClientExpires(c) ==
  /\ client[c] = "active" /\ client' = [client EXCEPT ![c] = "expired"]
  /\ UNCHANGED <<request, token, ended>>

-----------------------------------------------------------------------------
(* POST /oauth/token                                                       *)

IsValid(c) == client[c] = "active"

Authenticate(t, c) ==
  /\ request[t] = NoRequest /\ IsValid(c) /\ Then(t, "issue", c)
  /\ UNCHANGED <<client, token, ended>>

(* last_used_at is committed in between, or its error rolled back.         *)
IssueToken(t) ==
  /\ request[t].op = "issue" /\ Then(t, "idle", NoClient)
  /\ token' = [token EXCEPT ![request[t].client] = Lifetime]
  /\ UNCHANGED <<client, ended>>

RequestDies(t) ==
  /\ request[t] # NoRequest /\ Then(t, "idle", NoClient)
  /\ UNCHANGED <<client, token, ended>>

(* A request that authenticated is answered within a tick. *)
Tick ==
  /\ \A t \in Threads : request[t].op # "issue"
  /\ token' = [c \in Clients |-> IF token[c] > 0 THEN token[c] - 1 ELSE 0]
  /\ ended' = [c \in Clients |-> IF client[c] \in {"expired", "revoked"} /\ ended[c] < Lifetime
                                 THEN ended[c] + 1 ELSE ended[c]]
  /\ UNCHANGED <<client, request>>

Next ==
  \/ \E t \in Threads :
        \/ CreateCount(t) \/ IssueToken(t) \/ RequestDies(t)
        \/ \E c \in Clients : CreateClient(t, c) \/ Authenticate(t, c)
  \/ \E c \in Clients : RevokeClient(c) \/ ClientExpires(c)
  \/ Tick

Spec == Init /\ [][Next]_vars

-----------------------------------------------------------------------------
(* The types of the variables. *)
TypeOK ==
  /\ client \in [Clients -> {"none", "active", "expired", "revoked"}]
  /\ request \in [Threads -> [op : {"idle", "create", "issue"}, client : Clients \cup {NoClient}]]
  /\ token \in [Clients -> 0..Lifetime] /\ ended \in [Clients -> 0..Lifetime]

(* The count is not repeated when the client is inserted: the limit is     *)
(* passed by the requests that counted at the same time, and no further    *)
(* (oauth2_service.py:59-92).                                              *)
LimitPassedByThreads == Cardinality(Active) <= Limit + Cardinality(Threads) - 1

(* A revoked client keeps the tokens it has: none of them outlives the     *)
(* revocation by more than a token's lifetime (oauth2.py:37), because no   *)
(* request that checks the client later gets another.                      *)
TokensEnd == \A c \in Clients : token[c] > 0 => ended[c] < Lifetime
=============================================================================
