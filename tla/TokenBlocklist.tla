--------------------------- MODULE TokenBlocklist ---------------------------
(***************************************************************************)
(* The blocklist of access tokens in Redis, as the API processes of a      *)
(* production environment use it.  Each process keeps a client of its own, *)
(* drops it on an error and tries to connect again at most once per retry  *)
(* interval; while it has none it refuses every token.  Time runs in the   *)
(* remaining lifetimes.                                                    *)
(***************************************************************************)
EXTENDS Naturals, FiniteSetsExt

CONSTANTS
  Processes,   (* API processes                                             *)
  Tokens,      (* access tokens in use, one per device                      *)
  Life,        (* JWT_ACCESS_TOKEN_EXPIRES, in ticks                        *)
  Buffer       (* the 60 seconds logout adds, in ticks                      *)

VARIABLES
  redis,      (* whether Redis answers                                      *)
  client,     (* _revoked_tokens_redis_client is set, in each process       *)
  throttled,  (* the last retry is less than the interval ago               *)
  left,       (* lifetime each token has left                               *)
  entry,      (* lifetime its blocklist entry has left                      *)
  leaving,    (* the token each process is about to put on the list         *)
  listed      (* history: tokens in use that were put on the list           *)

vars == <<redis, client, throttled, left, entry, leaving, listed>>

None == "none"

Init ==
  /\ redis \in BOOLEAN
  /\ client = [p \in Processes |-> FALSE] /\ throttled = [p \in Processes |-> FALSE]
  /\ left = [k \in Tokens |-> Life] /\ entry = [k \in Tokens |-> 0]
  /\ leaving = [p \in Processes |-> None] /\ listed = {}

-----------------------------------------------------------------------------
(* get_revoked_tokens_storage returns a client: one it has, or a new one. *)
Storage(p) ==
  \/ client[p] /\ UNCHANGED throttled
  \/ /\ ~client[p] /\ ~throttled[p] /\ redis
     /\ throttled' = [throttled EXCEPT ![p] = TRUE]

(* It returns none: too soon after the last attempt, or Redis is down.    *)
NoStorage(p) ==
  /\ ~client[p] /\ (throttled[p] \/ ~redis)
  /\ throttled' = [throttled EXCEPT ![p] = TRUE]

SetClient(p, b) == client' = [client EXCEPT ![p] = b]

(* A request with token k whose entry is looked up and not found. *)
Accept(p, k) ==
  /\ left[k] > 0 /\ leaving[p] = None
  /\ Storage(p) /\ redis /\ SetClient(p, TRUE)
  /\ entry[k] = 0
  /\ \/ UNCHANGED leaving
     \/ leaving' = [leaving EXCEPT ![p] = k]       (* the request is a logout *)
  /\ UNCHANGED <<redis, left, entry, listed>>

Reject(p, k) ==
  /\ left[k] > 0 /\ leaving[p] = None
  /\ Storage(p) /\ redis /\ SetClient(p, TRUE)
  /\ entry[k] > 0
  /\ UNCHANGED <<redis, left, entry, leaving, listed>>

(* Redis fails the lookup and the one reconnection, or there is no client. *)
FailClosed(p, k) ==
  /\ left[k] > 0 /\ leaving[p] = None
  /\ \/ Storage(p) /\ ~redis
     \/ NoStorage(p)
  /\ SetClient(p, FALSE)
  /\ UNCHANGED <<redis, left, entry, leaving, listed>>

(* Mutant: the entry lives as long as the token had left, in whole ticks. *)
TtlExact(k) == {left[k], left[k] - 1}

(* Mutant: the logout adds the buffer, and the list adds it again. *)
TtlTwice(k) == {left[k] + 2 * Buffer, left[k] + 2 * Buffer - 1}

(* The remaining time is cut to whole seconds before the buffer is added.   *)
Ttl(k) == {left[k] + Buffer, left[k] + Buffer - 1}

Block(p) ==
  LET k == leaving[p] IN
  /\ k # None /\ leaving' = [leaving EXCEPT ![p] = None]
  /\ Storage(p) /\ redis /\ SetClient(p, TRUE)
  /\ \E ttl \in Ttl(k) : entry' = [entry EXCEPT ![k] = IF left[k] = 0 THEN 0 ELSE ttl]
  /\ listed' = IF left[k] = 0 THEN listed ELSE listed \cup {k}
  /\ UNCHANGED <<redis, left>>

(* The logout is answered all the same. *)
BlockFails(p) ==
  /\ leaving[p] # None /\ leaving' = [leaving EXCEPT ![p] = None]
  /\ \/ Storage(p) /\ ~redis
     \/ NoStorage(p)
  /\ SetClient(p, FALSE)
  /\ UNCHANGED <<redis, left, entry, listed>>

-----------------------------------------------------------------------------
(* Users, Redis and time                                                   *)

(* The device gets a new access token when the one before has expired. *)
Login(k) ==
  /\ left[k] = 0 /\ \A p \in Processes : leaving[p] # k
  /\ left' = [left EXCEPT ![k] = Life] /\ entry' = [entry EXCEPT ![k] = 0]
  /\ listed' = listed \ {k}
  /\ UNCHANGED <<redis, client, throttled, leaving>>

RedisStops ==
  /\ redis /\ redis' = FALSE
  /\ UNCHANGED <<client, throttled, left, entry, leaving, listed>>

RedisStarts ==
  /\ ~redis /\ redis' = TRUE
  /\ UNCHANGED <<client, throttled, left, entry, leaving, listed>>

(* Mutant: only a process with a client waits its interval out. *)
RetryDueIfConnected(p) ==
  /\ throttled[p] /\ client[p] /\ throttled' = [throttled EXCEPT ![p] = FALSE]
  /\ UNCHANGED <<redis, client, left, entry, leaving, listed>>

RetryDue(p) ==
  /\ throttled[p] /\ throttled' = [throttled EXCEPT ![p] = FALSE]
  /\ UNCHANGED <<redis, client, left, entry, leaving, listed>>

Tick ==
  /\ \E k \in Tokens : left[k] > 0
  /\ left' = [k \in Tokens |-> IF left[k] > 0 THEN left[k] - 1 ELSE 0]
  /\ entry' = [k \in Tokens |-> IF entry[k] > 0 THEN entry[k] - 1 ELSE 0]
  /\ UNCHANGED <<redis, client, throttled, leaving, listed>>

Next ==
  \/ \E p \in Processes, k \in Tokens : Accept(p, k) \/ Reject(p, k) \/ FailClosed(p, k)
  \/ \E p \in Processes : Block(p) \/ BlockFails(p) \/ RetryDue(p)
  \/ \E k \in Tokens : Login(k)
  \/ RedisStops \/ RedisStarts \/ Tick

Spec == Init /\ [][Next]_vars

Answer(p) == \E k \in Tokens : Accept(p, k) \/ Reject(p, k)

(* Each process is asked again and again, what it began it ends, the retry *)
(* interval passes, and the users log in anew.                             *)
Fairness ==
  /\ \A p \in Processes :
       SF_vars(Answer(p)) /\ WF_vars(RetryDue(p)) /\ WF_vars(Block(p) \/ BlockFails(p))
  /\ \A k \in Tokens : WF_vars(Login(k))

FairSpec == Spec /\ Fairness

-----------------------------------------------------------------------------
(* The types of the variables. *)
TypeOK ==
  /\ redis \in BOOLEAN /\ client \in [Processes -> BOOLEAN] /\ throttled \in [Processes -> BOOLEAN]
  /\ left \in [Tokens -> 0..Life] /\ entry \in [Tokens -> 0..(Life + Buffer)]
  /\ leaving \in [Processes -> Tokens \cup {None}] /\ listed \subseteq Tokens

(* An access token that logout put on the list stays refused until it has  *)
(* expired by itself, although the entry expires too (__init__.py:1225).   *)
BlockedUntilExpiry == \A k \in listed : left[k] > 0 => entry[k] > 0

(* "This prevents a permanent fail-closed state" (__init__.py:932): once   *)
(* Redis stays up, each process that gets requests has a client again.     *)
Reconnects == \A p \in Processes : <>[]redis => <>[]client[p]
=============================================================================
