---------------------------- MODULE ServicesProofs ----------------------------
(***************************************************************************)
(* Theorems about the services that MCServices puts together, for any      *)
(* values of its constants: each holds in every run of the services.       *)
(***************************************************************************)
EXTENDS MCServices, AccountsProofs

-----------------------------------------------------------------------------
(* The parts                                                               *)

(* A step of the services is a step of a part, or leaves that part alone.  *)
LEMMA AccountsMove == [AllNext]_allVars => [Next]_vars
BY DEF AllNext, Frame, allVars

LEMMA SessionsMove == [AllNext]_allVars => [Logins!Next]_sessionsVars
BY DEF AllNext, Frame, allVars

LEMMA BlocklistMove == [AllNext]_allVars => [Blocklist!Next]_blocklistVars
BY DEF AllNext, Frame, allVars

LEMMA ClientsMove == [AllNext]_allVars => [OAuth!Next]_clientsVars
BY DEF AllNext, Frame, allVars

(* The parts count their sets with the same operator.                      *)
LEMMA SameSizes ==
  \A S : Logins!Cardinality(S) = Cardinality(S) /\ OAuth!Cardinality(S) = Cardinality(S)
BY DEF Cardinality, Logins!Cardinality, OAuth!Cardinality

-----------------------------------------------------------------------------
(* Sessions                                                                *)

SessionRequest ==
  [op : {"idle", "login", "rotate", "issue", "sign-out"}, token : 0..MaxSessions,
   seen : SUBSET (1..MaxSessions), upTo : 0..MaxSessions]

SessionTypes == Logins!TypeOK /\ s_rotated \in Seq(Nat)

(* What a sign-out has read: the tokens it did not are not active.         *)
Signing(r) ==
  r.op = "sign-out" =>
    /\ r.upTo <= Len(s_tokens) /\ r.seen \subseteq Logins!Ids
    /\ \A k \in 1..r.upTo : k \in r.seen \/ s_tokens[k].state # "active"

SignInv == Logins!SignOutFinal /\ \A t \in Threads : Signing(s_request[t])

(* The requests that validated a token and will take it for rotation.      *)
Rotating(k) == {t \in Threads : s_request[t].op = "rotate" /\ s_request[t].token = k}

RotateInv ==
  \A k \in Logins!Ids :
    /\ s_rotated[k] + Cardinality(Rotating(k)) <= Cardinality(Threads)
    /\ s_tokens[k].state = "active" => s_rotated[k] = 0

SessionsInv == SessionTypes /\ SignInv /\ RotateInv

LEMMA SessionShape ==
  ASSUME SessionTypes
  PROVE  /\ Len(s_tokens) \in Nat /\ Len(s_tokens) <= MaxSessions
         /\ s_tokens \in Seq(Logins!Row) /\ DOMAIN s_tokens = Logins!Ids
         /\ s_tokens \in [Logins!Ids -> Logins!Row] /\ Logins!Ids = 1..Len(s_tokens)
         /\ Logins!Ids \subseteq 1..MaxSessions
         /\ s_rotated \in [Logins!Ids -> Nat] /\ Len(s_rotated) = Len(s_tokens)
         /\ s_request \in [Threads -> SessionRequest] /\ s_sweep \subseteq Logins!Ids
         /\ s_account \in BOOLEAN /\ s_signedOut \in 0..Len(s_tokens)
<1>1. /\ s_tokens \in Seq(Logins!Row) /\ s_rotated \in Seq(Nat)
      /\ Len(s_tokens) <= MaxSessions /\ s_request \in [Threads -> SessionRequest]
      /\ Len(s_rotated) = Len(s_tokens) /\ s_sweep \subseteq Logins!Ids
      /\ s_account \in BOOLEAN /\ s_signedOut \in 0..Len(s_tokens)
  BY DEF SessionTypes, Logins!TypeOK, SessionRequest
<1>2. /\ Len(s_tokens) \in Nat /\ s_tokens \in [1..Len(s_tokens) -> Logins!Row]
      /\ DOMAIN s_tokens = 1..Len(s_tokens) /\ s_rotated \in [1..Len(s_rotated) -> Nat]
  BY <1>1, LenProperties
<1>3. 1..Len(s_tokens) \subseteq 1..MaxSessions
  BY <1>1, <1>2, ServicesAssumption
<1> QED
  BY <1>1, <1>2, <1>3 DEF Logins!Ids

(* The tokens that are there change, and none becomes active.              *)
Settles ==
  /\ s_tokens' \in Seq(Logins!Row) /\ Len(s_tokens') = Len(s_tokens)
  /\ \A k \in Logins!Ids : s_tokens'[k].state = "active" => s_tokens[k].state = "active"

(* Threads that neither read the tokens for a sign-out nor validate one.   *)
SessionCalm ==
  /\ s_request' \in [Threads -> SessionRequest]
  /\ \A t \in Threads : \/ s_request'[t] = s_request[t]
                        \/ s_request'[t].op \notin {"rotate", "sign-out"}

LEMMA SessionOneRequest ==
  ASSUME SessionTypes, NEW t \in Threads, NEW r \in SessionRequest, Logins!Then(t, r)
  PROVE  /\ s_request' \in [Threads -> SessionRequest] /\ s_request'[t] = r
         /\ \A u \in Threads : u # t => s_request'[u] = s_request[u]
<1>1. s_request \in [Threads -> SessionRequest] /\ s_request' = [s_request EXCEPT ![t] = r]
  BY SessionShape DEF Logins!Then
<1> QED
  BY <1>1

LEMMA SessionIdle ==
  /\ Logins!Idle \in SessionRequest /\ Logins!Idle.op = "idle"
  /\ \A op \in {"login", "issue"} :
       /\ [Logins!Idle EXCEPT !.op = op] \in SessionRequest
       /\ [Logins!Idle EXCEPT !.op = op].op = op
BY ServicesAssumption DEF Logins!Idle, SessionRequest

LEMMA MapSettles ==
  ASSUME SessionTypes, NEW f, s_tokens' = f, f \in [Logins!Ids -> Logins!Row],
         \A k \in Logins!Ids : f[k].state = "active" => s_tokens[k].state = "active"
  PROVE  Settles
<1>1. f \in Seq(Logins!Row) /\ Len(f) = Len(s_tokens)
  BY SessionShape, MapOfSeq
<1> QED
  BY <1>1 DEF Settles

LEMMA RevokedSettles ==
  ASSUME SessionTypes, NEW ks, s_tokens' = Logins!Revoked(ks)
  PROVE  /\ Settles
         /\ \A k \in Logins!Ids : k \in ks => s_tokens'[k].state = "revoked"
<1>1. s_tokens' = [k \in Logins!Ids |-> IF k \in ks THEN [s_tokens[k] EXCEPT !.state = "revoked"]
                                       ELSE s_tokens[k]]
  BY DEF Logins!Revoked
<1>2. ASSUME NEW k \in Logins!Ids
      PROVE  /\ s_tokens'[k] \in Logins!Row
             /\ s_tokens'[k].state = "active" => s_tokens[k].state = "active"
             /\ k \in ks => s_tokens'[k].state = "revoked"
  <2>1. s_tokens[k] \in Logins!Row
    BY SessionShape
  <2>2. s_tokens'[k] = IF k \in ks THEN [s_tokens[k] EXCEPT !.state = "revoked"] ELSE s_tokens[k]
    BY <1>1
  <2> QED
    BY <2>1, <2>2 DEF Logins!Row
<1>3. s_tokens' \in [Logins!Ids -> Logins!Row]
  BY <1>1, <1>2
<1> QED
  BY <1>2, <1>3, MapSettles

(* Each part of the invariant.                                             *)
LEMMA SessionTypesKeep ==
  ASSUME SessionTypes, Settles, s_request' \in [Threads -> SessionRequest],
         s_account' \in BOOLEAN, s_sweep' \subseteq Logins!Ids, s_rotated' \in Seq(Nat),
         Len(s_rotated') = Len(s_rotated), s_signedOut' \in 0..Len(s_tokens)
  PROVE  SessionTypes' /\ Logins!Ids' = Logins!Ids
<1>1. Logins!Ids' = Logins!Ids
  BY DEF Settles, Logins!Ids
<1> QED
  BY <1>1, SessionShape DEF Settles, SessionTypes, Logins!TypeOK, SessionRequest

LEMMA SignKeeps ==
  ASSUME SessionTypes, SignInv, Settles, SessionCalm, UNCHANGED s_signedOut
  PROVE  SignInv'
<1>1. Len(s_tokens') = Len(s_tokens) /\ Logins!Ids' = Logins!Ids
      /\ Logins!Ids = 1..Len(s_tokens) /\ Len(s_tokens) \in Nat
      /\ s_signedOut \in 0..Len(s_tokens)
  BY SessionShape DEF Settles, Logins!Ids
<1>2. Logins!SignOutFinal'
  BY <1>1 DEF SignInv, Settles, Logins!SignOutFinal
<1>3. ASSUME NEW t \in Threads
      PROVE  Signing(s_request[t])'
  <2> SUFFICES ASSUME s_request'[t].op = "sign-out"
               PROVE  /\ s_request'[t].upTo <= Len(s_tokens)
                      /\ s_request'[t].seen \subseteq Logins!Ids
                      /\ \A k \in 1..s_request'[t].upTo :
                           k \in s_request'[t].seen \/ s_tokens'[k].state # "active"
    BY <1>1 DEF Signing
  <2>1. s_request'[t] = s_request[t] /\ Signing(s_request[t])
        /\ s_request[t].upTo \in Nat
    BY SessionShape DEF SessionCalm, SignInv, SessionRequest
  <2> QED
    BY <1>1, <2>1 DEF Signing, Settles
<1> QED
  BY <1>2, <1>3 DEF SignInv

LEMMA RotateKeeps ==
  ASSUME SessionTypes, RotateInv, Settles, UNCHANGED s_rotated, SessionCalm
  PROVE  RotateInv'
<1>1. ASSUME NEW k \in Logins!Ids
      PROVE  /\ Cardinality(Rotating(k)') <= Cardinality(Rotating(k))
             /\ Cardinality(Rotating(k)') \in Nat /\ Cardinality(Rotating(k)) \in Nat
             /\ Cardinality(Threads) \in Nat /\ s_rotated[k] \in Nat
  <2>1. Rotating(k)' \in SUBSET Rotating(k) /\ Rotating(k) \in SUBSET Threads
    BY DEF Rotating, SessionCalm
  <2>2. s_rotated[k] \in Nat
    BY SessionShape
  <2> QED
    BY <2>1, <2>2, SomeThreads
<1>2. Logins!Ids' = Logins!Ids
  BY DEF Settles, Logins!Ids
<1> QED
  BY <1>1, <1>2 DEF RotateInv, Settles

(* A step that only settles tokens, and one that inserts a token.          *)
LEMMA SessionsSettle ==
  ASSUME SessionsInv, Settles, SessionCalm, UNCHANGED <<s_rotated, s_signedOut>>,
         s_account' \in BOOLEAN, s_sweep' \subseteq Logins!Ids
  PROVE  SessionsInv'
<1>1. SessionTypes'
  BY SessionTypesKeep, SessionShape DEF SessionsInv, SessionTypes, SessionCalm
<1>2. SignInv'
  BY SignKeeps DEF SessionsInv
<1>3. RotateInv'
  BY RotateKeeps DEF SessionsInv
<1> QED
  BY <1>1, <1>2, <1>3 DEF SessionsInv

LEMMA Unsettled ==
  ASSUME SessionTypes, UNCHANGED s_tokens
  PROVE  Settles
BY SessionShape DEF Settles

LEMMA InsertShape ==
  ASSUME SessionTypes, Logins!Insert, s_account
  PROVE  /\ s_tokens' \in Seq(Logins!Row) /\ s_rotated' \in Seq(Nat)
         /\ Len(s_tokens') = Len(s_tokens) + 1 /\ Len(s_rotated') = Len(s_tokens) + 1
         /\ Len(s_tokens') <= MaxSessions
         /\ \A k \in Logins!Ids : s_tokens'[k] = s_tokens[k] /\ s_rotated'[k] = s_rotated[k]
         /\ s_rotated'[Len(s_tokens) + 1] = 0
<1> DEFINE r == [state |-> "active", used |-> FALSE, age |-> "fresh"]
<1>1. r \in Logins!Row
  BY DEF Logins!Row
<1>2. s_tokens' = Append(s_tokens, r) /\ s_rotated' = Append(s_rotated, 0)
      /\ Len(s_tokens) < MaxSessions
  BY DEF Logins!Insert
<1> HIDE DEF r
<1>3. /\ s_tokens \in Seq(Logins!Row) /\ s_rotated \in Seq(Nat) /\ Logins!Ids = 1..Len(s_tokens)
      /\ Len(s_tokens) \in Nat /\ Len(s_rotated) = Len(s_tokens)
  BY SessionShape DEF SessionTypes
<1>4. s_tokens' \in Seq(Logins!Row) /\ Len(s_tokens') = Len(s_tokens) + 1
      /\ \A k \in 1..Len(s_tokens) : s_tokens'[k] = s_tokens[k]
  BY <1>1, <1>2, <1>3, AppendProperties
<1>5. s_rotated' \in Seq(Nat) /\ Len(s_rotated') = Len(s_rotated) + 1
      /\ (\A k \in 1..Len(s_rotated) : s_rotated'[k] = s_rotated[k])
      /\ s_rotated'[Len(s_rotated) + 1] = 0
  BY <1>2, <1>3, AppendProperties
<1> QED
  BY <1>2, <1>3, <1>4, <1>5, ServicesAssumption

LEMMA SessionsInsert ==
  ASSUME SessionsInv, Logins!Insert, SessionCalm,
         UNCHANGED <<s_account, s_sweep, s_signedOut>>
  PROVE  SessionsInv'
<1>1. CASE ~s_account
  <2>1. UNCHANGED <<s_tokens, s_rotated>>
    BY <1>1 DEF Logins!Insert
  <2> QED
    BY <2>1, SessionsSettle, Unsettled, SessionShape DEF SessionsInv
<1>2. CASE s_account
  <2>1. SessionTypes
    BY DEF SessionsInv
  <2>2. /\ s_tokens' \in Seq(Logins!Row) /\ s_rotated' \in Seq(Nat)
        /\ Len(s_tokens') = Len(s_tokens) + 1 /\ Len(s_rotated') = Len(s_tokens) + 1
        /\ Len(s_tokens') <= MaxSessions
        /\ \A k \in Logins!Ids : s_tokens'[k] = s_tokens[k] /\ s_rotated'[k] = s_rotated[k]
        /\ s_rotated'[Len(s_tokens) + 1] = 0
    BY <1>2, <2>1, InsertShape
  <2>3. /\ Len(s_tokens) \in Nat /\ Logins!Ids = 1..Len(s_tokens)
        /\ s_sweep \subseteq Logins!Ids /\ s_account \in BOOLEAN
        /\ s_signedOut \in 0..Len(s_tokens) /\ s_request \in [Threads -> SessionRequest]
    BY <2>1, SessionShape
  <2>4. Logins!Ids' = 1..(Len(s_tokens) + 1)
    BY <2>2 DEF Logins!Ids
  <2>5. SessionTypes'
    BY <2>2, <2>3, <2>4 DEF SessionTypes, Logins!TypeOK, SessionCalm, SessionRequest
  <2>6. SignInv'
    <3>1. Logins!SignOutFinal'
      <4> SUFFICES ASSUME NEW k \in 1..s_signedOut PROVE s_tokens'[k].state # "active"
        BY DEF Logins!SignOutFinal
      <4>1. k \in Logins!Ids
        BY <2>3
      <4>2. s_tokens[k].state # "active"
        BY DEF SessionsInv, SignInv, Logins!SignOutFinal
      <4> QED
        BY <4>1, <4>2, <2>2
    <3>2. ASSUME NEW t \in Threads
          PROVE  Signing(s_request[t])'
      <4> SUFFICES ASSUME s_request'[t].op = "sign-out"
                   PROVE  /\ s_request'[t].upTo <= Len(s_tokens')
                          /\ s_request'[t].seen \subseteq Logins!Ids'
                          /\ \A k \in 1..s_request'[t].upTo :
                               k \in s_request'[t].seen \/ s_tokens'[k].state # "active"
        BY DEF Signing
      <4>1. s_request'[t] = s_request[t] /\ Signing(s_request[t])
            /\ s_request[t].upTo \in Nat
        BY <2>3 DEF SessionCalm, SessionsInv, SignInv, SessionRequest
      <4> QED
        BY <4>1, <2>2, <2>3, <2>4 DEF Signing
    <3> QED
      BY <3>1, <3>2 DEF SignInv
  <2>7. RotateInv'
    <3> SUFFICES ASSUME NEW k \in 1..(Len(s_tokens) + 1)
                 PROVE  /\ s_rotated'[k] + Cardinality(Rotating(k)') <= Cardinality(Threads)
                        /\ s_tokens'[k].state = "active" => s_rotated'[k] = 0
      BY <2>4 DEF RotateInv
    <3>1. /\ Cardinality(Rotating(k)') \in Nat /\ Cardinality(Threads) \in Nat
          /\ Cardinality(Rotating(k)') <= Cardinality(Threads)
      <4>1. Rotating(k)' \in SUBSET Threads /\ Threads \in SUBSET Threads
        BY DEF Rotating
      <4> QED
        BY <4>1, SomeThreads
    <3>2. CASE k \in Logins!Ids
      <4>1. /\ Cardinality(Rotating(k)') <= Cardinality(Rotating(k))
            /\ Cardinality(Rotating(k)) \in Nat /\ s_rotated[k] \in Nat
        <5>1. Rotating(k)' \in SUBSET Rotating(k) /\ Rotating(k) \in SUBSET Threads
          BY DEF Rotating, SessionCalm
        <5> QED
          BY <2>1, <3>2, <5>1, SomeThreads, SessionShape
      <4>2. s_rotated'[k] = s_rotated[k] /\ s_tokens'[k] = s_tokens[k]
        BY <2>2, <3>2
      <4> QED
        BY <3>1, <3>2, <4>1, <4>2 DEF SessionsInv, RotateInv
    <3>3. CASE k = Len(s_tokens) + 1
      BY <2>2, <3>1, <3>3
    <3> QED
      BY <2>3, <3>2, <3>3
  <2> QED
    BY <2>5, <2>6, <2>7 DEF SessionsInv
<1> QED
  BY <1>1, <1>2, SessionShape DEF SessionsInv

(* The steps of a request.                                                 *)
LEMMA SessionReturns ==
  ASSUME SessionTypes, NEW t \in Threads,
         \E op \in {"idle", "login", "issue"} :
           Logins!Then(t, [Logins!Idle EXCEPT !.op = op])
  PROVE  SessionCalm
<1>1. PICK op \in {"idle", "login", "issue"} :
        Logins!Then(t, [Logins!Idle EXCEPT !.op = op])
  OBVIOUS
<1> DEFINE r == [Logins!Idle EXCEPT !.op = op]
<1>2. r \in SessionRequest /\ r.op \notin {"rotate", "sign-out"}
  BY ServicesAssumption DEF Logins!Idle, SessionRequest
<1>3. Logins!Then(t, r)
  BY <1>1
<1> HIDE DEF r
<1> QED
  BY <1>2, <1>3, SessionOneRequest DEF SessionCalm

LEMMA SessionEnds ==
  ASSUME SessionTypes, NEW t \in Threads, Logins!Then(t, Logins!Idle)
  PROVE  SessionCalm
BY SessionIdle, SessionOneRequest DEF SessionCalm

LEMMA SessionUnchanged ==
  ASSUME SessionTypes, UNCHANGED s_request
  PROVE  SessionCalm
BY SessionShape DEF SessionCalm

LEMMA AuthenticateKeeps ==
  ASSUME SessionsInv, NEW t \in Threads, Logins!Authenticate(t)
  PROVE  SessionsInv'
<1>1. SessionTypes
  BY DEF SessionsInv
<1>2. SessionCalm
  BY <1>1, SessionReturns DEF Logins!Authenticate
<1> QED
  BY <1>1, <1>2, SessionsSettle, Unsettled, SessionShape DEF Logins!Authenticate

LEMMA CreateRefreshTokenKeeps ==
  ASSUME SessionsInv, NEW t \in Threads, Logins!CreateRefreshToken(t) \/ Logins!Issue(t)
  PROVE  SessionsInv'
<1>1. SessionCalm
  BY SessionEnds DEF SessionsInv, Logins!CreateRefreshToken, Logins!Issue
<1> QED
  BY <1>1, SessionsInsert DEF Logins!CreateRefreshToken, Logins!Issue

LEMMA RequestDiesKeeps ==
  ASSUME SessionsInv, NEW t \in Threads, Logins!RequestDies(t)
  PROVE  SessionsInv'
<1>1. SessionTypes /\ SessionCalm
  BY SessionEnds DEF SessionsInv, Logins!RequestDies
<1> QED
  BY <1>1, SessionsSettle, Unsettled, SessionShape DEF Logins!RequestDies

LEMMA SignOutCommitKeeps ==
  ASSUME SessionsInv, NEW t \in Threads, Logins!SignOutCommit(t)
  PROVE  SessionsInv'
<1>1. SessionTypes /\ SessionCalm
  BY SessionEnds DEF SessionsInv, Logins!SignOutCommit
<1>2. /\ Len(s_tokens) \in Nat /\ Logins!Ids = 1..Len(s_tokens)
      /\ s_signedOut \in 0..Len(s_tokens) /\ s_request \in [Threads -> SessionRequest]
      /\ s_account \in BOOLEAN /\ s_sweep \subseteq Logins!Ids
  BY <1>1, SessionShape
<1>3. CASE ~Logins!Commits(s_request[t].seen)
  BY <1>1, <1>2, <1>3, SessionsSettle, Unsettled DEF Logins!SignOutCommit
<1>4. CASE Logins!Commits(s_request[t].seen)
  <2> DEFINE ks == s_request[t].seen
             u == s_request[t].upTo
  <2>1. /\ s_tokens' = Logins!Revoked(ks) /\ s_signedOut' = Logins!Max({s_signedOut, u})
        /\ UNCHANGED <<s_account, s_sweep, s_rotated>>
    BY <1>4 DEF Logins!SignOutCommit
  <2>2. /\ u \in Nat /\ u <= Len(s_tokens) /\ ks \subseteq Logins!Ids
        /\ \A k \in 1..u : k \in ks \/ s_tokens[k].state # "active"
    <3>1. Signing(s_request[t]) /\ s_request[t].op = "sign-out"
      BY DEF SessionsInv, SignInv, Logins!SignOutCommit
    <3> QED
      BY <1>2, <3>1 DEF Signing, SessionRequest
  <2> HIDE DEF ks, u
  <2>3. s_signedOut' \in {s_signedOut, u} /\ s_signedOut' \in 0..Len(s_tokens)
    <3>1. \E m \in {s_signedOut, u} : \A n \in {s_signedOut, u} : m >= n
      BY <1>2, <2>2
    <3>2. s_signedOut' \in {s_signedOut, u}
      BY <2>1, <3>1 DEF Logins!Max
    <3> QED
      BY <1>2, <2>2, <3>2
  <2>4. Settles /\ \A k \in Logins!Ids : k \in ks => s_tokens'[k].state = "revoked"
    BY <1>1, <2>1, RevokedSettles
  <2>5. SessionTypes'
    BY <1>1, <1>2, <2>1, <2>3, <2>4, SessionTypesKeep DEF SessionTypes, SessionCalm
  <2>6. RotateInv'
    BY <1>1, <2>1, <2>4, RotateKeeps DEF SessionsInv
  <2>7. Logins!SignOutFinal'
    <3> SUFFICES ASSUME NEW k \in 1..s_signedOut' PROVE s_tokens'[k].state # "active"
      BY DEF Logins!SignOutFinal
    <3>1. k \in Logins!Ids /\ (k \in 1..s_signedOut \/ k \in 1..u)
      BY <1>2, <2>2, <2>3
    <3>2. CASE k \in 1..s_signedOut
      BY <3>1, <3>2, <2>4 DEF SessionsInv, SignInv, Logins!SignOutFinal, Settles
    <3>3. CASE k \in 1..u
      BY <3>1, <3>3, <2>2, <2>4 DEF Settles
    <3> QED
      BY <3>1, <3>2, <3>3
  <2>8. ASSUME NEW v \in Threads
        PROVE  Signing(s_request[v])'
    <3> SUFFICES ASSUME s_request'[v].op = "sign-out"
                 PROVE  /\ s_request'[v].upTo <= Len(s_tokens')
                        /\ s_request'[v].seen \subseteq Logins!Ids'
                        /\ \A k \in 1..s_request'[v].upTo :
                             k \in s_request'[v].seen \/ s_tokens'[k].state # "active"
      BY DEF Signing
    <3>1. s_request'[v] = s_request[v] /\ Signing(s_request[v]) /\ s_request[v].upTo \in Nat
      BY <1>1, <1>2 DEF SessionCalm, SessionsInv, SignInv, SessionRequest
    <3>2. Len(s_tokens') = Len(s_tokens) /\ Logins!Ids' = Logins!Ids
      BY <2>4 DEF Settles, Logins!Ids
    <3> QED
      BY <1>2, <3>1, <3>2, <2>4 DEF Signing, Settles
  <2> QED
    BY <2>5, <2>6, <2>7, <2>8 DEF SessionsInv, SignInv
<1> QED
  BY <1>3, <1>4

LEMMA SigningRequest ==
  ASSUME NEW ks, NEW n
  PROVE  [Logins!Idle EXCEPT !.op = "sign-out", !.seen = ks, !.upTo = n]
         = [op |-> "sign-out", token |-> 0, seen |-> ks, upTo |-> n]
<1> DEFINE i == [op |-> "idle", token |-> 0, seen |-> {}, upTo |-> 0]
<1>1. [i EXCEPT !.op = "sign-out"] = [op |-> "sign-out", token |-> 0, seen |-> {}, upTo |-> 0]
  OBVIOUS
<1> DEFINE j == [op |-> "sign-out", token |-> 0, seen |-> {}, upTo |-> 0]
<1>2. [j EXCEPT !.seen = ks] = [op |-> "sign-out", token |-> 0, seen |-> ks, upTo |-> 0]
  OBVIOUS
<1> DEFINE l == [op |-> "sign-out", token |-> 0, seen |-> ks, upTo |-> 0]
<1>3. [l EXCEPT !.upTo = n] = [op |-> "sign-out", token |-> 0, seen |-> ks, upTo |-> n]
  OBVIOUS
<1>4. Logins!Idle = i
  BY DEF Logins!Idle
<1> QED
  BY <1>1, <1>2, <1>3, <1>4

LEMMA SignOutReadKeeps ==
  ASSUME SessionsInv, NEW t \in Threads, Logins!SignOutRead(t)
  PROVE  SessionsInv'
<1> DEFINE r == [Logins!Idle EXCEPT !.op = "sign-out", !.seen = Logins!NotRevoked,
                                    !.upTo = Len(s_tokens)]
<1>1. SessionTypes /\ s_request[t] = Logins!Idle
  BY DEF SessionsInv, Logins!SignOutRead
<1>2. /\ Len(s_tokens) \in Nat /\ Len(s_tokens) <= MaxSessions
      /\ Logins!Ids = 1..Len(s_tokens) /\ Logins!Ids \subseteq 1..MaxSessions
      /\ s_account \in BOOLEAN /\ s_sweep \subseteq Logins!Ids
      /\ s_signedOut \in 0..Len(s_tokens)
  BY <1>1, SessionShape
<1>3. /\ r \in SessionRequest /\ r.op = "sign-out" /\ r.seen = Logins!NotRevoked
      /\ r.upTo = Len(s_tokens)
  <2>1. Logins!NotRevoked \in SUBSET (1..MaxSessions)
    BY <1>2 DEF Logins!NotRevoked
  <2>2. Len(s_tokens) \in 0..MaxSessions
    BY <1>2, ServicesAssumption
  <2>3. r = [op |-> "sign-out", token |-> 0, seen |-> Logins!NotRevoked,
             upTo |-> Len(s_tokens)]
    BY SigningRequest
  <2>4. 0 \in 0..MaxSessions
    BY ServicesAssumption
  <2> HIDE DEF r
  <2> QED
    BY <2>1, <2>2, <2>3, <2>4 DEF SessionRequest
<1>4. /\ Logins!Then(t, r)
      /\ UNCHANGED <<s_account, s_tokens, s_sweep, s_rotated, s_signedOut>>
  BY DEF Logins!SignOutRead
<1> HIDE DEF r
<1>5. /\ s_request' \in [Threads -> SessionRequest] /\ s_request'[t] = r
      /\ \A u \in Threads : u # t => s_request'[u] = s_request[u]
  BY <1>1, <1>3, <1>4, SessionOneRequest
<1>6. SessionTypes' /\ Logins!Ids' = Logins!Ids
  BY <1>1, <1>2, <1>4, <1>5, Unsettled, SessionTypesKeep DEF SessionTypes
<1>7. Logins!SignOutFinal'
  BY <1>4 DEF SessionsInv, SignInv, Logins!SignOutFinal
<1>8. ASSUME NEW u \in Threads
      PROVE  Signing(s_request[u])'
  <2>1. CASE u = t
    <3>1. \A k \in 1..Len(s_tokens) : k \in Logins!NotRevoked \/ s_tokens[k].state # "active"
      BY <1>2 DEF Logins!NotRevoked
    <3>2. Logins!NotRevoked \subseteq Logins!Ids
      BY DEF Logins!NotRevoked
    <3>3. /\ r.upTo <= Len(s_tokens) /\ r.seen \subseteq Logins!Ids
          /\ \A k \in 1..r.upTo : k \in r.seen \/ s_tokens[k].state # "active"
      BY <1>2, <1>3, <3>1, <3>2
    <3>4. s_request[u]' = r /\ s_tokens' = s_tokens /\ Logins!Ids' = Logins!Ids
      BY <1>4, <1>5, <1>6, <2>1
    <3> QED
      BY <3>3, <3>4 DEF Signing
  <2>2. CASE u # t
    BY <1>4, <1>5, <1>6, <2>2 DEF SessionsInv, SignInv, Signing
  <2> QED
    BY <2>1, <2>2
<1>9. RotateInv'
  <2> SUFFICES ASSUME NEW k \in Logins!Ids
               PROVE  Rotating(k)' = Rotating(k)
    BY <1>4, <1>6 DEF SessionsInv, RotateInv
  <2>1. s_request[t].op # "rotate" /\ s_request'[t].op # "rotate"
    BY <1>1, <1>3, <1>5 DEF Logins!Idle
  <2> QED
    BY <1>5, <2>1 DEF Rotating
<1> QED
  BY <1>6, <1>7, <1>8, <1>9 DEF SessionsInv, SignInv

(* One token changes, and keeps its state.                                 *)
LEMMA OneTokenSettles ==
  ASSUME SessionTypes, NEW k \in Logins!Ids, NEW row \in Logins!Row,
         s_tokens' = [s_tokens EXCEPT ![k] = row], row.state = s_tokens[k].state
  PROVE  Settles
<1>1. s_tokens \in [Logins!Ids -> Logins!Row]
  BY SessionShape
<1>2. s_tokens' \in [Logins!Ids -> Logins!Row]
  BY <1>1
<1>3. \A j \in Logins!Ids : s_tokens'[j].state = s_tokens[j].state
  BY <1>1
<1> QED
  BY <1>2, <1>3, MapSettles

LEMMA ValidatedRow ==
  ASSUME NEW row \in Logins!Row
  PROVE  \A age \in {"fresh", "idle", "expired"} :
           /\ [row EXCEPT !.used = TRUE] \in Logins!Row
           /\ [row EXCEPT !.used = TRUE].state = row.state
           /\ [row EXCEPT !.age = age] \in Logins!Row
           /\ [row EXCEPT !.age = age].state = row.state
BY DEF Logins!Row

LEMMA RotatingRequest ==
  ASSUME NEW k
  PROVE  [Logins!Idle EXCEPT !.op = "rotate", !.token = k]
         = [op |-> "rotate", token |-> k, seen |-> {}, upTo |-> 0]
<1> DEFINE i == [op |-> "idle", token |-> 0, seen |-> {}, upTo |-> 0]
           j == [op |-> "rotate", token |-> 0, seen |-> {}, upTo |-> 0]
<1>1. [i EXCEPT !.op = "rotate"] = j
  OBVIOUS
<1>2. [j EXCEPT !.token = k] = [op |-> "rotate", token |-> k, seen |-> {}, upTo |-> 0]
  OBVIOUS
<1>3. Logins!Idle = i
  BY DEF Logins!Idle
<1> QED
  BY <1>1, <1>2, <1>3

LEMMA ValidateKeeps ==
  ASSUME SessionsInv, NEW t \in Threads, NEW k \in Logins!Ids, Logins!Validate(t, k)
  PROVE  SessionsInv'
<1>1. SessionTypes /\ s_request[t] = Logins!Idle
  BY DEF SessionsInv, Logins!Validate
<1>2. /\ s_tokens \in [Logins!Ids -> Logins!Row] /\ Logins!Ids \subseteq 1..MaxSessions
      /\ s_account \in BOOLEAN /\ s_sweep \subseteq Logins!Ids
      /\ s_signedOut \in 0..Len(s_tokens) /\ s_rotated \in [Logins!Ids -> Nat]
      /\ s_request \in [Threads -> SessionRequest]
  BY <1>1, SessionShape
<1>3. Settles
  <2> DEFINE used == [s_tokens[k] EXCEPT !.used = TRUE]
             row == [used EXCEPT !.age = "fresh"]
  <2>1. used \in Logins!Row /\ used.state = s_tokens[k].state
    BY <1>2, ValidatedRow
  <2>2. row \in Logins!Row /\ row.state = used.state
    <3> HIDE DEF used
    <3> QED
      BY <2>1, ValidatedRow
  <2>3. s_tokens' = [s_tokens EXCEPT ![k] = row]
    <3>1. s_tokens' = [s_tokens EXCEPT ![k].used = TRUE, ![k].age = "fresh"]
      BY DEF Logins!Validate
    <3>2. [s_tokens EXCEPT ![k].used = TRUE][k] = used
      BY <1>2
    <3> HIDE DEF used
    <3>3. [[s_tokens EXCEPT ![k].used = TRUE] EXCEPT ![k].age = "fresh"]
          = [[s_tokens EXCEPT ![k].used = TRUE] EXCEPT ![k] = row]
      BY <3>2
    <3>4. [[s_tokens EXCEPT ![k].used = TRUE] EXCEPT ![k] = row]
          = [s_tokens EXCEPT ![k] = row]
      <4> HIDE DEF row
      <4> QED
        BY <1>2
    <3> QED
      BY <3>1, <3>3, <3>4
  <2> HIDE DEF row, used
  <2> QED
    BY <1>1, <2>1, <2>2, <2>3, OneTokenSettles
<1>4. CASE UNCHANGED s_request
  BY <1>1, <1>2, <1>3, <1>4, SessionUnchanged, SessionsSettle DEF Logins!Validate
<1>5. CASE Logins!Then(t, [Logins!Idle EXCEPT !.op = "rotate", !.token = k])
  <2> DEFINE r == [Logins!Idle EXCEPT !.op = "rotate", !.token = k]
  <2>0. r = [op |-> "rotate", token |-> k, seen |-> {}, upTo |-> 0]
    BY RotatingRequest
  <2>1. r \in SessionRequest /\ r.op = "rotate"
    <3>1. k \in 0..MaxSessions /\ 0 \in 0..MaxSessions
      BY <1>2, ServicesAssumption
    <3> HIDE DEF r
    <3> QED
      BY <2>0, <3>1 DEF SessionRequest
  <2>2. r.token = k
    BY <2>0
  <2>3. Logins!Then(t, r)
    BY <1>5
  <2> HIDE DEF r
  <2>4. /\ s_request' \in [Threads -> SessionRequest] /\ s_request'[t] = r
        /\ \A u \in Threads : u # t => s_request'[u] = s_request[u]
    BY <1>1, <2>1, <2>3, SessionOneRequest
  <2>5. UNCHANGED <<s_account, s_sweep, s_rotated, s_signedOut>>
    BY DEF Logins!Validate
  <2>6. SessionTypes' /\ Logins!Ids' = Logins!Ids
    BY <1>1, <1>2, <1>3, <2>4, <2>5, SessionTypesKeep DEF SessionTypes
  <2>7. Len(s_tokens') = Len(s_tokens) /\ Logins!Ids = 1..Len(s_tokens) /\ Len(s_tokens) \in Nat
    BY <1>1, <1>3, SessionShape DEF Settles
  <2>8. Logins!SignOutFinal'
    BY <1>2, <1>3, <2>5, <2>7 DEF SessionsInv, SignInv, Logins!SignOutFinal, Settles
  <2>9. ASSUME NEW u \in Threads
        PROVE  Signing(s_request[u])'
    <3> SUFFICES ASSUME s_request'[u].op = "sign-out"
                 PROVE  /\ s_request'[u].upTo <= Len(s_tokens')
                        /\ s_request'[u].seen \subseteq Logins!Ids'
                        /\ \A j \in 1..s_request'[u].upTo :
                             j \in s_request'[u].seen \/ s_tokens'[j].state # "active"
      BY DEF Signing
    <3>1. s_request'[u] = s_request[u] /\ Signing(s_request[u]) /\ s_request[u].upTo \in Nat
      BY <1>2, <2>1, <2>4 DEF SessionsInv, SignInv, SessionRequest
    <3> QED
      BY <3>1, <2>6, <2>7, <1>3 DEF Signing, Settles
  <2>10. ASSUME NEW j \in Logins!Ids
         PROVE  /\ s_rotated[j] + Cardinality(Rotating(j)') <= Cardinality(Threads)
                /\ s_tokens'[j].state = "active" => s_rotated[j] = 0
    <3>1. /\ s_rotated[j] + Cardinality(Rotating(j)) <= Cardinality(Threads)
          /\ s_tokens[j].state = "active" => s_rotated[j] = 0
      BY DEF SessionsInv, RotateInv
    <3>2. CASE j = k
      <4>1. s_rotated[j] = 0
        BY <3>1, <3>2 DEF Logins!Validate, Logins!IsValid
      <4>2. Rotating(j)' \in SUBSET Threads /\ Threads \in SUBSET Threads
        BY DEF Rotating
      <4>3. /\ Cardinality(Rotating(j)') <= Cardinality(Threads)
            /\ Cardinality(Rotating(j)') \in Nat
        BY <4>2, SomeThreads
      <4> QED
        BY <4>1, <4>3
    <3>3. CASE j # k
      <4>1. Rotating(j)' = Rotating(j)
        BY <1>1, <2>1, <2>2, <2>4, <3>3, SessionIdle DEF Rotating
      <4> QED
        BY <3>1, <4>1, <1>3 DEF Settles
    <3> QED
      BY <3>2, <3>3
  <2>11. RotateInv'
    BY <2>5, <2>6, <2>10 DEF RotateInv
  <2> QED
    BY <2>6, <2>8, <2>9, <2>11 DEF SessionsInv, SignInv
<1> QED
  BY <1>4, <1>5 DEF Logins!Validate

LEMMA RevokeKeeps ==
  ASSUME SessionsInv, NEW t \in Threads, Logins!Revoke(t)
  PROVE  SessionsInv'
<1> DEFINE k == s_request[t].token
<1>1. SessionTypes /\ s_request[t].op = "rotate"
  BY DEF SessionsInv, Logins!Revoke
<1>2. /\ s_account \in BOOLEAN /\ s_sweep \subseteq Logins!Ids
      /\ s_signedOut \in 0..Len(s_tokens) /\ s_rotated \in [Logins!Ids -> Nat]
      /\ s_request \in [Threads -> SessionRequest] /\ Logins!Ids = 1..Len(s_tokens)
      /\ Len(s_rotated) = Len(s_tokens) /\ Len(s_tokens) \in Nat
  BY <1>1, SessionShape
<1>3. UNCHANGED <<s_account, s_sweep, s_signedOut>>
  BY DEF Logins!Revoke
<1>4. CASE ~Logins!Commits({k})
  <2>1. UNCHANGED <<s_tokens, s_rotated>> /\ Logins!Then(t, Logins!Idle)
    BY <1>4 DEF Logins!Revoke
  <2> QED
    BY <1>1, <1>2, <1>3, <2>1, SessionEnds, Unsettled, SessionsSettle
<1>5. CASE Logins!Commits({k})
  <2>1. /\ s_tokens' = Logins!Revoked({k}) /\ s_rotated' = [s_rotated EXCEPT ![k] = @ + 1]
        /\ Logins!Then(t, [Logins!Idle EXCEPT !.op = "issue"])
    BY <1>5 DEF Logins!Revoke
  <2>2. SessionCalm
    BY <1>1, <2>1, SessionReturns
  <2>3. s_request'[t].op = "issue"
    <3>1. s_request' = [s_request EXCEPT ![t] = [Logins!Idle EXCEPT !.op = "issue"]]
      BY <2>1 DEF Logins!Then
    <3> QED
      BY <1>2, <3>1, SessionIdle
  <2> HIDE DEF k
  <2>4. Settles /\ (k \in Logins!Ids => s_tokens'[k].state = "revoked")
    BY <1>1, <2>1, RevokedSettles
  <2>5. /\ s_rotated' \in [Logins!Ids -> Nat]
        /\ \A j \in Logins!Ids : s_rotated'[j] = IF j = k THEN s_rotated[j] + 1 ELSE s_rotated[j]
    <3>1. s_rotated' = [j \in Logins!Ids |-> IF j = k THEN s_rotated[j] + 1 ELSE s_rotated[j]]
      BY <1>2, <2>1
    <3>2. \A j \in Logins!Ids : s_rotated[j] \in Nat /\ s_rotated[j] + 1 \in Nat
      BY <1>2
    <3> QED
      BY <3>1, <3>2
  <2>6. s_rotated' \in Seq(Nat) /\ Len(s_rotated') = Len(s_rotated)
    BY <1>2, <2>5, MapOfSeq
  <2>7. SessionTypes' /\ Logins!Ids' = Logins!Ids
    BY <1>1, <1>2, <1>3, <2>2, <2>4, <2>6, SessionTypesKeep DEF SessionCalm
  <2>8. SignInv'
    BY <1>1, <1>3, <2>2, <2>4, SignKeeps DEF SessionsInv
  <2>9. ASSUME NEW j \in Logins!Ids
        PROVE  /\ s_rotated'[j] + Cardinality(Rotating(j)') <= Cardinality(Threads)
               /\ s_tokens'[j].state = "active" => s_rotated'[j] = 0
    <3>1. /\ s_rotated[j] + Cardinality(Rotating(j)) <= Cardinality(Threads)
          /\ s_tokens[j].state = "active" => s_rotated[j] = 0
      BY DEF SessionsInv, RotateInv
    <3>2. Rotating(j) \in SUBSET Threads /\ s_rotated[j] \in Nat
      BY <1>2 DEF Rotating
    <3>3. CASE j = k
      <4>1. t \in Rotating(j) /\ Rotating(j)' \in SUBSET (Rotating(j) \ {t})
            /\ (Rotating(j) \ {t}) \in SUBSET Threads
        BY <1>1, <2>2, <2>3, <3>3 DEF Rotating, SessionCalm, k
      <4>2. /\ Cardinality(Rotating(j) \ {t}) = Cardinality(Rotating(j)) - 1
            /\ Cardinality(Rotating(j)) \in Nat
        BY <3>2, <4>1, SomeThreads
      <4>3. /\ Cardinality(Rotating(j)') <= Cardinality(Rotating(j) \ {t})
            /\ Cardinality(Rotating(j)') \in Nat /\ Cardinality(Threads) \in Nat
        BY <4>1, SomeThreads
      <4> QED
        BY <3>1, <3>2, <3>3, <2>4, <2>5, <4>2, <4>3
    <3>4. CASE j # k
      <4>1. Rotating(j)' \in SUBSET Rotating(j)
        BY <2>2 DEF Rotating, SessionCalm
      <4>2. /\ Cardinality(Rotating(j)') <= Cardinality(Rotating(j))
            /\ Cardinality(Rotating(j)') \in Nat /\ Cardinality(Rotating(j)) \in Nat
            /\ Cardinality(Threads) \in Nat
        BY <3>2, <4>1, SomeThreads
      <4> QED
        BY <3>1, <3>2, <3>4, <2>4, <2>5, <4>2 DEF Settles
    <3> QED
      BY <3>3, <3>4
  <2>10. RotateInv'
    BY <2>7, <2>9 DEF RotateInv
  <2> QED
    BY <2>7, <2>8, <2>10 DEF SessionsInv
<1> QED
  BY <1>4, <1>5

LEMMA LogoutKeeps ==
  ASSUME SessionsInv, NEW k \in Logins!Ids, Logins!Logout(k)
  PROVE  SessionsInv'
<1>1. SessionTypes /\ Settles /\ SessionCalm
  BY RevokedSettles, SessionUnchanged DEF SessionsInv, Logins!Logout
<1> QED
  BY <1>1, SessionsSettle, SessionShape DEF Logins!Logout

LEMMA GetsOlderKeeps ==
  ASSUME SessionsInv, NEW k \in Logins!Ids, Logins!GetsOlder(k)
  PROVE  SessionsInv'
<1>1. SessionTypes /\ SessionCalm
  BY SessionUnchanged DEF SessionsInv, Logins!GetsOlder
<1>2. Settles
  <2>1. PICK age \in {"fresh", "idle", "expired"} :
          s_tokens' = [s_tokens EXCEPT ![k].age = age]
    BY DEF Logins!GetsOlder
  <2> DEFINE row == [s_tokens[k] EXCEPT !.age = age]
  <2>2. s_tokens[k] \in Logins!Row
    BY <1>1, SessionShape
  <2>3. row \in Logins!Row /\ row.state = s_tokens[k].state
    BY <2>2, ValidatedRow
  <2>4. s_tokens' = [s_tokens EXCEPT ![k] = row]
    BY <2>1
  <2> HIDE DEF row
  <2> QED
    BY <1>1, <2>3, <2>4, OneTokenSettles
<1> QED
  BY <1>1, <1>2, SessionsSettle, SessionShape DEF Logins!GetsOlder

LEMMA CleanupKeeps ==
  ASSUME SessionsInv,
         \/ Logins!CleanupExpired \/ Logins!CleanupInactiveSelect
         \/ Logins!CleanupInactiveCommit \/ Logins!DeleteUser
  PROVE  SessionsInv'
<1>1. SessionTypes /\ UNCHANGED <<s_request, s_rotated, s_signedOut>>
  BY DEF SessionsInv, Logins!CleanupExpired, Logins!CleanupInactiveSelect,
         Logins!CleanupInactiveCommit, Logins!DeleteUser
<1>2. SessionCalm /\ s_account \in BOOLEAN /\ s_sweep \subseteq Logins!Ids
      /\ s_tokens \in [Logins!Ids -> Logins!Row]
  BY <1>1, SessionUnchanged, SessionShape
<1>3. Logins!Gone \in Logins!Row /\ Logins!Gone.state # "active"
  BY DEF Logins!Gone, Logins!Row
<1>4. CASE Logins!CleanupExpired
  <2> DEFINE f == [k \in Logins!Ids |-> IF s_tokens[k].age = "expired"
                                        THEN Logins!Gone ELSE s_tokens[k]]
  <2>1. s_tokens' = f /\ UNCHANGED <<s_account, s_sweep>>
    BY <1>4 DEF Logins!CleanupExpired
  <2>2. f \in [Logins!Ids -> Logins!Row]
    BY <1>2, <1>3
  <2>3. \A k \in Logins!Ids : f[k].state = "active" => s_tokens[k].state = "active"
    BY <1>3
  <2> HIDE DEF f
  <2>4. Settles
    BY <1>1, <2>1, <2>2, <2>3, MapSettles
  <2> QED
    BY <1>1, <1>2, <2>1, <2>4, SessionsSettle
<1>5. CASE Logins!CleanupInactiveSelect
  <2>1. s_sweep' \subseteq Logins!Ids /\ UNCHANGED <<s_account, s_tokens>>
    BY <1>5 DEF Logins!CleanupInactiveSelect, Logins!NotRevoked
  <2> QED
    BY <1>1, <1>2, <2>1, Unsettled, SessionsSettle
<1>6. CASE Logins!CleanupInactiveCommit
  <2>1. s_sweep' \subseteq Logins!Ids /\ UNCHANGED s_account
    BY <1>6 DEF Logins!CleanupInactiveCommit
  <2>2. Settles
    BY <1>1, <1>6, Unsettled, RevokedSettles DEF Logins!CleanupInactiveCommit
  <2> QED
    BY <1>1, <1>2, <2>1, <2>2, SessionsSettle
<1>7. CASE Logins!DeleteUser
  <2> DEFINE f == [k \in Logins!Ids |-> Logins!Gone]
  <2>1. s_tokens' = f /\ s_account' \in BOOLEAN /\ UNCHANGED s_sweep
    BY <1>7 DEF Logins!DeleteUser
  <2>2. f \in [Logins!Ids -> Logins!Row] /\ \A k \in Logins!Ids : f[k].state # "active"
    BY <1>3
  <2> HIDE DEF f
  <2>3. Settles
    BY <1>1, <2>1, <2>2, MapSettles
  <2> QED
    BY <1>1, <1>2, <2>1, <2>3, SessionsSettle
<1> QED
  BY <1>4, <1>5, <1>6, <1>7

LEMMA SessionsStart == AllInit => SessionsInv
<1> SUFFICES ASSUME AllInit PROVE SessionsInv
  OBVIOUS
<1>1. /\ s_account = TRUE /\ s_tokens = <<>> /\ s_sweep = {} /\ s_rotated = <<>>
      /\ s_request = [t \in Threads |-> Logins!Idle] /\ s_signedOut = 0
  BY DEF AllInit, Logins!Init
<1>2. /\ s_tokens \in Seq(Logins!Row) /\ s_rotated \in Seq(Nat) /\ Len(s_tokens) = 0
      /\ Len(s_rotated) = 0 /\ Logins!Ids = {}
  BY <1>1, EmptySeq DEF Logins!Ids
<1>3. SessionTypes
  BY <1>1, <1>2, SessionIdle, ServicesAssumption
     DEF SessionTypes, Logins!TypeOK, SessionRequest
<1>4. SignInv
  BY <1>1, <1>2, SessionIdle DEF SignInv, Signing, Logins!SignOutFinal
<1>5. RotateInv
  BY <1>2 DEF RotateInv
<1> QED
  BY <1>3, <1>4, <1>5 DEF SessionsInv

LEMMA SessionsStep ==
  ASSUME SessionsInv, [Logins!Next]_sessionsVars
  PROVE  SessionsInv'
<1>1. CASE UNCHANGED sessionsVars
  BY <1>1 DEF sessionsVars, SessionsInv, SessionTypes, SignInv, RotateInv, Signing,
              Rotating, Logins!TypeOK, Logins!SignOutFinal, Logins!Ids
<1>2. ASSUME NEW t \in Threads,
             \/ Logins!Authenticate(t) \/ Logins!CreateRefreshToken(t)
             \/ \E k \in Logins!Ids : Logins!Validate(t, k)
             \/ Logins!Revoke(t) \/ Logins!Issue(t) \/ Logins!RequestDies(t)
             \/ Logins!LogoutAllRead(t) \/ Logins!RevokeAllUserSessions(t)
             \/ Logins!InvalidateRead(t) \/ Logins!SignOutCommit(t)
      PROVE  SessionsInv'
  <2>1. CASE Logins!Authenticate(t)
    BY <2>1, AuthenticateKeeps
  <2>2. CASE Logins!CreateRefreshToken(t) \/ Logins!Issue(t)
    BY <2>2, CreateRefreshTokenKeeps
  <2>3. CASE \E k \in Logins!Ids : Logins!Validate(t, k)
    BY <2>3, ValidateKeeps
  <2>4. CASE Logins!Revoke(t)
    BY <2>4, RevokeKeeps
  <2>5. CASE Logins!RequestDies(t)
    BY <2>5, RequestDiesKeeps
  <2>6. CASE Logins!LogoutAllRead(t) \/ Logins!RevokeAllUserSessions(t)
             \/ Logins!InvalidateRead(t)
    BY <2>6, SignOutReadKeeps
       DEF Logins!LogoutAllRead, Logins!RevokeAllUserSessions, Logins!InvalidateRead
  <2>7. CASE Logins!SignOutCommit(t)
    BY <2>7, SignOutCommitKeeps
  <2> QED
    BY <1>2, <2>1, <2>2, <2>3, <2>4, <2>5, <2>6, <2>7
<1>3. ASSUME NEW k \in Logins!Ids,
             Logins!Logout(k) \/ Logins!RevokeUserSession(k) \/ Logins!GetsOlder(k)
      PROVE  SessionsInv'
  BY <1>3, LogoutKeeps, GetsOlderKeeps DEF Logins!RevokeUserSession
<1>4. CASE \/ Logins!CleanupExpired \/ Logins!CleanupInactiveSelect
           \/ Logins!CleanupInactiveCommit \/ Logins!DeleteUser
  BY <1>4, CleanupKeeps
<1> QED
  BY <1>1, <1>2, <1>3, <1>4 DEF Logins!Next

(* Signing out of all sessions, or a new password, ends every session       *)
(* there was when the tokens were read, and no refresh, other sign-out or    *)
(* cleanup task brings one back (refresh_token_service.py:177).              *)
THEOREM SignedOutStays == AllSpec => []SignOutFinal
<1>1. AllInit => SessionsInv
  BY SessionsStart
<1>2. SessionsInv /\ [AllNext]_allVars => SessionsInv'
  BY SessionsMove, SessionsStep
<1>3. SessionsInv => SignOutFinal
  BY DEF SessionsInv, SignInv, SignOutFinal
<1> QED
  BY <1>1, <1>2, <1>3, PTL DEF AllSpec

(* A token that is meant for one use is used by requests that overlap only:  *)
(* a reset link by those that read it before one of them spent it, a refresh *)
(* token by those that validated it before one of them revoked it            *)
(* (user_service.py, refresh_token_service.py:106-132).                      *)
THEOREM UsedOnce == AllSpec => []SingleUseBounded
<1>1. AllInit => SessionsInv /\ IInv
  BY SessionsStart, InvInit DEF AllInit
<1>2. SessionsInv /\ IInv /\ [AllNext]_allVars => (SessionsInv /\ IInv)'
  BY SessionsMove, SessionsStep, AccountsMove, InvNext
<1>3. SessionsInv /\ IInv => SingleUseBounded
  <2>1. IInv => ResetBounded
    BY InvBounds
  <2>2. SessionsInv => Logins!RotationBounded
    <3> SUFFICES ASSUME SessionsInv, NEW k \in Logins!Ids
                 PROVE  s_rotated[k] <= Cardinality(Threads)
      BY SameSizes DEF Logins!RotationBounded
    <3>1. Rotating(k) \in SUBSET Threads /\ SessionTypes
      BY DEF Rotating, SessionsInv
    <3>2. /\ Cardinality(Rotating(k)) \in Nat /\ Cardinality(Threads) \in Nat
          /\ s_rotated[k] \in Nat
      BY <3>1, SomeThreads, SessionShape
    <3> QED
      BY <3>2 DEF SessionsInv, RotateInv
  <2> QED
    BY <2>1, <2>2 DEF SingleUseBounded
<1> QED
  BY <1>1, <1>2, <1>3, PTL DEF AllSpec

-----------------------------------------------------------------------------
(* The blocklist                                                           *)

(* A token on the list has an entry that lasts as long as the token.       *)
BlockInv ==
  /\ t_left \in [Jtis -> Nat] /\ t_entry \in [Jtis -> Nat] /\ t_listed \subseteq Jtis
  /\ t_leaving \in [Threads -> Jtis \cup {Blocklist!None}]
  /\ \A k \in t_listed : t_entry[k] >= t_left[k]

LEMMA BlocklistStart == AllInit => BlockInv
BY ServicesAssumption DEF AllInit, Blocklist!Init, BlockInv

LEMMA BlockKeeps ==
  ASSUME BlockInv, NEW p \in Threads, Blocklist!Block(p)
  PROVE  BlockInv'
<1> DEFINE k == t_leaving[p]
<1>1. PICK ttl \in Blocklist!Ttl(k) :
        t_entry' = [t_entry EXCEPT ![k] = IF t_left[k] = 0 THEN 0 ELSE ttl]
  BY DEF Blocklist!Block
<1>2. /\ k # Blocklist!None /\ t_leaving' = [t_leaving EXCEPT ![p] = Blocklist!None]
      /\ t_listed' = IF t_left[k] = 0 THEN t_listed ELSE t_listed \cup {k}
      /\ UNCHANGED t_left
  BY DEF Blocklist!Block
<1>3. /\ k \in Jtis /\ t_left \in [Jtis -> Nat] /\ t_entry \in [Jtis -> Nat]
      /\ t_leaving \in [Threads -> Jtis \cup {Blocklist!None}] /\ t_listed \subseteq Jtis
      /\ \A j \in t_listed : t_entry[j] >= t_left[j]
  BY <1>2 DEF BlockInv
<1> HIDE DEF k
<1>4. ttl \in Int /\ ttl >= t_left[k] /\ (t_left[k] # 0 => ttl \in Nat)
  BY <1>3, ServicesAssumption DEF Blocklist!Ttl
<1> DEFINE e == IF t_left[k] = 0 THEN 0 ELSE ttl
<1>5. e \in Nat /\ e >= t_left[k]
  BY <1>3, <1>4
<1>6. t_entry' = [t_entry EXCEPT ![k] = e]
  BY <1>1
<1> HIDE DEF e
<1>7. t_entry' \in [Jtis -> Nat] /\ t_entry'[k] = e
      /\ \A j \in Jtis : j # k => t_entry'[j] = t_entry[j]
  BY <1>3, <1>5, <1>6
<1>8. t_leaving' \in [Threads -> Jtis \cup {Blocklist!None}] /\ t_listed' \subseteq Jtis
      /\ \A j \in t_listed' : j = k \/ j \in t_listed
  BY <1>2, <1>3
<1>9. \A j \in t_listed' : t_entry'[j] >= t_left'[j]
  BY <1>2, <1>3, <1>5, <1>7, <1>8
<1> QED
  BY <1>2, <1>3, <1>7, <1>8, <1>9 DEF BlockInv

LEMMA AnswersKeep ==
  ASSUME BlockInv, NEW p \in Threads, NEW k \in Jtis,
         \/ Blocklist!Accept(p, k) \/ Blocklist!Reject(p, k) \/ Blocklist!FailClosed(p, k)
  PROVE  BlockInv'
<1>1. UNCHANGED <<t_left, t_entry, t_listed>>
  BY DEF Blocklist!Accept, Blocklist!Reject, Blocklist!FailClosed
<1>2. \E x \in Jtis \cup {Blocklist!None} :
        t_leaving' = t_leaving \/ t_leaving' = [t_leaving EXCEPT ![p] = x]
  BY DEF Blocklist!Accept, Blocklist!Reject, Blocklist!FailClosed
<1> QED
  BY <1>1, <1>2 DEF BlockInv

LEMMA LoginKeeps ==
  ASSUME BlockInv, NEW k \in Jtis, Blocklist!Login(k)
  PROVE  BlockInv'
BY ServicesAssumption DEF Blocklist!Login, BlockInv

LEMMA BlocklistTickKeeps ==
  ASSUME BlockInv, Blocklist!Tick
  PROVE  BlockInv'
<1>1. /\ t_left \in [Jtis -> Nat] /\ t_entry \in [Jtis -> Nat] /\ t_listed \subseteq Jtis
      /\ \A k \in t_listed : t_entry[k] >= t_left[k]
  BY DEF BlockInv
<1>2. /\ t_left' = [k \in Jtis |-> IF t_left[k] > 0 THEN t_left[k] - 1 ELSE 0]
      /\ t_entry' = [k \in Jtis |-> IF t_entry[k] > 0 THEN t_entry[k] - 1 ELSE 0]
      /\ UNCHANGED <<t_leaving, t_listed>>
  BY DEF Blocklist!Tick
<1>3. ASSUME NEW k \in Jtis
      PROVE  /\ t_left'[k] \in Nat /\ t_entry'[k] \in Nat
             /\ t_entry[k] >= t_left[k] => t_entry'[k] >= t_left'[k]
  BY <1>1, <1>2
<1>4. t_left' \in [Jtis -> Nat] /\ t_entry' \in [Jtis -> Nat]
  BY <1>2, <1>3
<1> QED
  BY <1>1, <1>2, <1>3, <1>4 DEF BlockInv

LEMMA BlocklistStep ==
  ASSUME BlockInv, [Blocklist!Next]_blocklistVars
  PROVE  BlockInv'
<1>1. CASE UNCHANGED blocklistVars
  BY <1>1 DEF blocklistVars, BlockInv
<1>2. CASE Blocklist!RedisStops \/ Blocklist!RedisStarts
  BY <1>2 DEF Blocklist!RedisStops, Blocklist!RedisStarts, BlockInv
<1>3. ASSUME NEW p \in Threads, Blocklist!BlockFails(p) \/ Blocklist!RetryDue(p)
      PROVE  BlockInv'
  <2>1. CASE Blocklist!RetryDue(p)
    BY <2>1 DEF Blocklist!RetryDue, BlockInv
  <2>2. CASE Blocklist!BlockFails(p)
    BY <2>2 DEF Blocklist!BlockFails, BlockInv
  <2> QED
    BY <1>3, <2>1, <2>2
<1> QED
  BY <1>1, <1>2, <1>3, BlockKeeps, AnswersKeep, LoginKeeps, BlocklistTickKeeps
     DEF Blocklist!Next

(* A token that logout put on the list is refused until it has expired by   *)
(* itself, although its entry expires too: the buffer makes up for the       *)
(* seconds that are cut off (src/gefapi/__init__.py:1225).                   *)
THEOREM BlockedToTheEnd == AllSpec => []BlockedUntilExpiry
<1>1. BlockInv => BlockedUntilExpiry
  <2> SUFFICES ASSUME BlockInv, NEW k \in t_listed, t_left[k] > 0
               PROVE  t_entry[k] > 0
    BY DEF BlockedUntilExpiry, Blocklist!BlockedUntilExpiry
  <2> QED
    BY DEF BlockInv
<1>2. BlockInv /\ [AllNext]_allVars => BlockInv'
  BY BlocklistMove, BlocklistStep
<1> QED
  BY <1>1, <1>2, BlocklistStart, PTL DEF AllSpec

-----------------------------------------------------------------------------
(* Service clients                                                         *)

ClientTypes ==
  /\ c_client \in [Apps -> {"none", "active", "expired", "revoked"}]
  /\ c_request \in [Threads -> [op : {"idle", "create", "issue"},
                                client : Apps \cup {OAuth!NoClient}]]
  /\ c_token \in [Apps -> Nat] /\ c_ended \in [Apps -> Nat]

(* The requests that counted the clients, and have not inserted theirs.    *)
Creating == {t \in Threads : c_request[t].op = "create"}

LimitInv ==
  Cardinality(OAuth!Active) + Cardinality(Creating) <= MaxApps + Cardinality(Threads) - 1

(* What is left of the newest token was left when the client ended.        *)
EndInv ==
  /\ \A c \in Apps : /\ c_token[c] + c_ended[c] <= AppLife
                     /\ c_client[c] \in {"none", "active"} => c_ended[c] = 0
  /\ \A t \in Threads :
       c_request[t].op = "issue" => /\ c_request[t].client \in Apps
                                    /\ c_ended[c_request[t].client] = 0

ClientsInv == ClientTypes /\ LimitInv /\ EndInv

LEMMA SomeApps ==
  ASSUME NEW S \in SUBSET Apps
  PROVE  /\ IsFiniteSet(S) /\ Cardinality(S) \in Nat
         /\ \A T \in SUBSET S : Cardinality(T) \in Nat /\ Cardinality(T) <= Cardinality(S)
         /\ \A c : Cardinality(S \cup {c}) <= Cardinality(S) + 1
<1>1. IsFiniteSet(S)
  BY FS_Subset, ServicesAssumption
<1>2. Cardinality(S) \in Nat
  BY <1>1, FS_CardinalityType
<1>3. ASSUME NEW T \in SUBSET S
      PROVE  Cardinality(T) \in Nat /\ Cardinality(T) <= Cardinality(S)
  <2>1. IsFiniteSet(T) /\ Cardinality(T) <= Cardinality(S)
    BY <1>1, FS_Subset
  <2> QED
    BY <2>1, FS_CardinalityType
<1>4. ASSUME NEW c
      PROVE  Cardinality(S \cup {c}) <= Cardinality(S) + 1
  BY <1>1, <1>2, FS_AddElement
<1> QED
  BY <1>1, <1>2, <1>3, <1>4

LEMMA ClientRequest ==
  ASSUME ClientTypes, NEW t \in Threads, NEW op \in {"idle", "create", "issue"},
         NEW c \in Apps \cup {OAuth!NoClient}, OAuth!Then(t, op, c)
  PROVE  /\ c_request' \in [Threads -> [op : {"idle", "create", "issue"},
                                        client : Apps \cup {OAuth!NoClient}]]
         /\ c_request'[t].op = op /\ c_request'[t].client = c
         /\ \A u \in Threads : u # t => c_request'[u] = c_request[u]
<1>1. [op |-> op, client |-> c] \in [op : {"idle", "create", "issue"},
                                     client : Apps \cup {OAuth!NoClient}]
  OBVIOUS
<1> QED
  BY <1>1 DEF ClientTypes, OAuth!Then

(* Neither a client more nor a request that counted.                       *)
LEMMA FewerClients ==
  ASSUME LimitInv, OAuth!Active' \subseteq OAuth!Active, Creating' \subseteq Creating
  PROVE  LimitInv'
<1>1. /\ Cardinality(OAuth!Active') <= Cardinality(OAuth!Active)
      /\ Cardinality(OAuth!Active') \in Nat /\ Cardinality(OAuth!Active) \in Nat
  <2>1. OAuth!Active \in SUBSET Apps /\ OAuth!Active' \in SUBSET OAuth!Active
    BY DEF OAuth!Active
  <2> HIDE DEF OAuth!Active
  <2> QED
    BY <2>1, SomeApps
<1>2. /\ Cardinality(Creating') <= Cardinality(Creating)
      /\ Cardinality(Creating') \in Nat /\ Cardinality(Creating) \in Nat
      /\ Cardinality(Threads) \in Nat
  <2>1. Creating \in SUBSET Threads /\ Creating' \in SUBSET Creating
    BY DEF Creating
  <2> QED
    BY <2>1, SomeThreads
<1>3. /\ Cardinality(OAuth!Active)' = Cardinality(OAuth!Active')
      /\ Cardinality(Creating)' = Cardinality(Creating')
  OBVIOUS
<1> QED
  BY <1>1, <1>2, <1>3, ServicesAssumption DEF LimitInv

LEMMA CreateCountKeeps ==
  ASSUME ClientsInv, NEW t \in Threads, OAuth!CreateCount(t)
  PROVE  ClientsInv'
<1>1. /\ ClientTypes /\ OAuth!Then(t, "create", OAuth!NoClient)
      /\ OAuth!BelowLimit /\ UNCHANGED <<c_client, c_token, c_ended>>
  BY DEF ClientsInv, OAuth!CreateCount
<1>2. /\ c_request' \in [Threads -> [op : {"idle", "create", "issue"},
                                     client : Apps \cup {OAuth!NoClient}]]
      /\ c_request'[t].op = "create"
      /\ \A u \in Threads : u # t => c_request'[u] = c_request[u]
  BY <1>1, ClientRequest
<1>3. ClientTypes'
  BY <1>1, <1>2 DEF ClientTypes
<1>4. EndInv'
  BY <1>1, <1>2 DEF ClientsInv, EndInv
<1>5. LimitInv'
  <2>1. /\ Cardinality(Creating') \in Nat /\ Cardinality(Threads) \in Nat
        /\ Cardinality(Creating') <= Cardinality(Threads)
    <3>1. Creating' \in SUBSET Threads /\ Threads \in SUBSET Threads
      BY DEF Creating
    <3> QED
      BY <3>1, SomeThreads
  <2>2. Cardinality(OAuth!Active) \in Nat
    BY SomeApps DEF OAuth!Active
  <2>3. Cardinality(OAuth!Active) < MaxApps
    BY <1>1, SameSizes DEF OAuth!BelowLimit
  <2>4. OAuth!Active' = OAuth!Active
    BY <1>1 DEF OAuth!Active
  <2> QED
    BY <2>1, <2>2, <2>3, <2>4, ServicesAssumption DEF LimitInv
<1> QED
  BY <1>3, <1>4, <1>5 DEF ClientsInv

LEMMA CreateClientKeeps ==
  ASSUME ClientsInv, NEW t \in Threads, NEW c \in Apps, OAuth!CreateClient(t, c)
  PROVE  ClientsInv'
<1>1. /\ ClientTypes /\ OAuth!Then(t, "idle", OAuth!NoClient)
      /\ c_request[t].op = "create" /\ c_client[c] = "none"
      /\ c_client' = [c_client EXCEPT ![c] = "active"] /\ UNCHANGED <<c_token, c_ended>>
  BY DEF ClientsInv, OAuth!CreateClient
<1>2. /\ c_request' \in [Threads -> [op : {"idle", "create", "issue"},
                                     client : Apps \cup {OAuth!NoClient}]]
      /\ c_request'[t].op = "idle"
      /\ \A u \in Threads : u # t => c_request'[u] = c_request[u]
  BY <1>1, ClientRequest
<1>3. ClientTypes' /\ c_client'[c] = "active" /\ \A d \in Apps : d # c => c_client'[d] = c_client[d]
  BY <1>1, <1>2 DEF ClientTypes
<1>4. EndInv'
  BY <1>1, <1>2, <1>3 DEF ClientsInv, EndInv
<1>5. LimitInv'
  <2>1. /\ Cardinality(Creating') <= Cardinality(Creating \ {t})
        /\ Cardinality(Creating') \in Nat /\ Cardinality(Threads) \in Nat
        /\ Cardinality(Creating \ {t}) = Cardinality(Creating) - 1
        /\ Cardinality(Creating) \in Nat
    <3>1. Creating' \in SUBSET (Creating \ {t}) /\ (Creating \ {t}) \in SUBSET Threads
          /\ Creating \in SUBSET Threads /\ t \in Creating
      BY <1>1, <1>2 DEF Creating
    <3>2. /\ Cardinality(Creating') <= Cardinality(Creating \ {t})
          /\ Cardinality(Creating') \in Nat /\ Cardinality(Threads) \in Nat
      BY <3>1, SomeThreads
    <3>3. /\ Cardinality(Creating \ {t}) = Cardinality(Creating) - 1
          /\ Cardinality(Creating) \in Nat
      BY <3>1, SomeThreads
    <3> QED
      BY <3>2, <3>3
  <2>2. OAuth!Active' = OAuth!Active \cup {c}
    BY <1>3 DEF OAuth!Active
  <2>3. /\ Cardinality(OAuth!Active) \in Nat
        /\ Cardinality(OAuth!Active \cup {c}) \in Nat
        /\ Cardinality(OAuth!Active \cup {c}) <= Cardinality(OAuth!Active) + 1
    <3>1. OAuth!Active \in SUBSET Apps /\ (OAuth!Active \cup {c}) \in SUBSET Apps
      BY DEF OAuth!Active
    <3> QED
      BY <3>1, SomeApps
  <2> QED
    BY <2>1, <2>2, <2>3, ServicesAssumption DEF ClientsInv, LimitInv
<1> QED
  BY <1>3, <1>4, <1>5 DEF ClientsInv

LEMMA IssueTokenKeeps ==
  ASSUME ClientsInv, NEW t \in Threads, OAuth!IssueToken(t)
  PROVE  ClientsInv'
<1> DEFINE c == c_request[t].client
<1>1. /\ ClientTypes /\ OAuth!Then(t, "idle", OAuth!NoClient)
      /\ c_token' = [c_token EXCEPT ![c] = AppLife] /\ UNCHANGED <<c_client, c_ended>>
  BY DEF ClientsInv, OAuth!IssueToken
<1>2. /\ c_request' \in [Threads -> [op : {"idle", "create", "issue"},
                                     client : Apps \cup {OAuth!NoClient}]]
      /\ c_request'[t].op = "idle"
      /\ \A u \in Threads : u # t => c_request'[u] = c_request[u]
  BY <1>1, ClientRequest
<1>3. c \in Apps /\ c_ended[c] = 0
  BY DEF ClientsInv, EndInv, OAuth!IssueToken
<1>4. /\ c_token \in [Apps -> Nat] /\ AppLife \in Nat
      /\ c_token' \in [Apps -> Nat] /\ c_token'[c] = AppLife
      /\ \A d \in Apps : d # c => c_token'[d] = c_token[d]
  BY <1>1, <1>3, ServicesAssumption DEF ClientTypes
<1>5. ClientTypes'
  BY <1>1, <1>2, <1>4 DEF ClientTypes
<1> HIDE DEF c
<1>6. EndInv'
  BY <1>1, <1>2, <1>3, <1>4 DEF ClientsInv, EndInv
<1>7. LimitInv'
  <2>1. OAuth!Active' \subseteq OAuth!Active /\ Creating' \subseteq Creating
    BY <1>1, <1>2 DEF OAuth!Active, Creating
  <2> QED
    BY <2>1, FewerClients DEF ClientsInv
<1> QED
  BY <1>5, <1>6, <1>7 DEF ClientsInv

LEMMA ClientRequestsKeep ==
  ASSUME ClientsInv, NEW t \in Threads,
         OAuth!RequestDies(t) \/ \E c \in Apps : OAuth!Authenticate(t, c)
  PROVE  ClientsInv'
<1>1. PICK op \in {"idle", "issue"}, c \in Apps \cup {OAuth!NoClient} :
        /\ OAuth!Then(t, op, c)
        /\ op = "issue" => c \in Apps /\ c_client[c] = "active"
  BY DEF OAuth!RequestDies, OAuth!Authenticate, OAuth!IsValid
<1>2. ClientTypes /\ UNCHANGED <<c_client, c_token, c_ended>>
  BY DEF ClientsInv, OAuth!RequestDies, OAuth!Authenticate
<1>3. /\ c_request' \in [Threads -> [op : {"idle", "create", "issue"},
                                     client : Apps \cup {OAuth!NoClient}]]
      /\ c_request'[t].op = op /\ c_request'[t].client = c
      /\ \A u \in Threads : u # t => c_request'[u] = c_request[u]
  BY <1>1, <1>2, ClientRequest
<1>4. ClientTypes'
  BY <1>2, <1>3 DEF ClientTypes
<1>5. EndInv'
  BY <1>1, <1>2, <1>3 DEF ClientsInv, EndInv
<1>6. LimitInv'
  <2>1. OAuth!Active' \subseteq OAuth!Active /\ Creating' \subseteq Creating
    BY <1>1, <1>2, <1>3 DEF OAuth!Active, Creating
  <2> QED
    BY <2>1, FewerClients DEF ClientsInv
<1> QED
  BY <1>4, <1>5, <1>6 DEF ClientsInv

LEMMA ClientEndsKeeps ==
  ASSUME ClientsInv, NEW c \in Apps, OAuth!RevokeClient(c) \/ OAuth!ClientExpires(c)
  PROVE  ClientsInv'
<1>1. /\ ClientTypes /\ UNCHANGED <<c_request, c_token, c_ended>>
      /\ c_client[c] \in {"active", "expired"}
      /\ \E s \in {"expired", "revoked"} : c_client' = [c_client EXCEPT ![c] = s]
  BY DEF ClientsInv, OAuth!RevokeClient, OAuth!ClientExpires
<1>2. ClientTypes' /\ c_client'[c] \in {"expired", "revoked"}
      /\ \A d \in Apps : d # c => c_client'[d] = c_client[d]
  BY <1>1 DEF ClientTypes
<1>3. EndInv'
  BY <1>1, <1>2 DEF ClientsInv, EndInv
<1>4. LimitInv'
  <2>1. OAuth!Active' \subseteq OAuth!Active /\ Creating' \subseteq Creating
    BY <1>1, <1>2 DEF OAuth!Active, Creating
  <2> QED
    BY <2>1, FewerClients DEF ClientsInv
<1> QED
  BY <1>2, <1>3, <1>4 DEF ClientsInv

LEMMA ClientsTickKeeps ==
  ASSUME ClientsInv, OAuth!Tick
  PROVE  ClientsInv'
<1>1. /\ ClientTypes /\ UNCHANGED <<c_client, c_request>>
      /\ \A t \in Threads : c_request[t].op # "issue"
  BY DEF ClientsInv, OAuth!Tick
<1>2. ASSUME NEW c \in Apps
      PROVE  /\ c_token'[c] = IF c_token[c] > 0 THEN c_token[c] - 1 ELSE 0
             /\ c_ended'[c] = IF c_client[c] \in {"expired", "revoked"} /\ c_ended[c] < AppLife
                              THEN c_ended[c] + 1 ELSE c_ended[c]
  BY DEF OAuth!Tick
<1>3. ASSUME NEW c \in Apps
      PROVE  /\ c_token'[c] \in Nat /\ c_ended'[c] \in Nat
             /\ c_token'[c] + c_ended'[c] <= AppLife
             /\ c_client[c] \in {"none", "active"} => c_ended'[c] = 0
  <2>1. /\ c_token[c] \in Nat /\ c_ended[c] \in Nat /\ c_token[c] + c_ended[c] <= AppLife
        /\ c_client[c] \in {"none", "active"} => c_ended[c] = 0
    BY <1>1 DEF ClientsInv, EndInv, ClientTypes
  <2> QED
    BY <1>2, <2>1, ServicesAssumption
<1>4. c_token' \in [Apps -> Nat] /\ c_ended' \in [Apps -> Nat]
  BY <1>3 DEF OAuth!Tick
<1>5. ClientTypes'
  BY <1>1, <1>4 DEF ClientTypes
<1>6. EndInv'
  BY <1>1, <1>3 DEF EndInv
<1>7. LimitInv'
  <2>1. OAuth!Active' \subseteq OAuth!Active /\ Creating' \subseteq Creating
    BY <1>1 DEF OAuth!Active, Creating
  <2> QED
    BY <2>1, FewerClients DEF ClientsInv
<1> QED
  BY <1>5, <1>6, <1>7 DEF ClientsInv

LEMMA ClientsStart == AllInit => ClientsInv
<1> SUFFICES ASSUME AllInit PROVE ClientsInv
  OBVIOUS
<1>1. /\ c_client = [c \in Apps |-> "none"] /\ c_token = [c \in Apps |-> 0]
      /\ c_ended = [c \in Apps |-> 0]
      /\ c_request = [t \in Threads |-> [op |-> "idle", client |-> OAuth!NoClient]]
  BY DEF AllInit, OAuth!Init, OAuth!NoRequest
<1>2. ClientTypes
  BY <1>1 DEF ClientTypes
<1>3. EndInv
  BY <1>1, ServicesAssumption DEF EndInv
<1>4. LimitInv
  <2>1. OAuth!Active = {} /\ Creating = {}
    BY <1>1 DEF OAuth!Active, Creating
  <2>2. Cardinality({}) = 0 /\ Cardinality(Threads) \in Nat
    BY FS_EmptySet, SomeThreads
  <2> QED
    BY <2>1, <2>2, ServicesAssumption DEF LimitInv
<1> QED
  BY <1>2, <1>3, <1>4 DEF ClientsInv

LEMMA ClientsStep ==
  ASSUME ClientsInv, [OAuth!Next]_clientsVars
  PROVE  ClientsInv'
<1>1. CASE UNCHANGED clientsVars
  <2>1. OAuth!Active' = OAuth!Active /\ Creating' = Creating
    BY <1>1 DEF clientsVars, OAuth!Active, Creating
  <2>2. LimitInv'
    BY <2>1, FewerClients DEF ClientsInv
  <2> QED
    BY <1>1, <2>2 DEF clientsVars, ClientsInv, ClientTypes, EndInv
<1> QED
  BY <1>1, CreateCountKeeps, CreateClientKeeps, IssueTokenKeeps, ClientRequestsKeep,
     ClientEndsKeeps, ClientsTickKeeps DEF OAuth!Next

(* The limit of clients is passed by the requests that counted at the same  *)
(* time and no further (oauth2_service.py:59-92), and no token of a client  *)
(* outlives its end by more than a token's lifetime (oauth2.py:37).         *)
THEOREM ClientsLimited == AllSpec => []ClientsBounded
<1>1. ClientsInv => ClientsBounded
  <2> SUFFICES ASSUME ClientsInv
               PROVE  OAuth!LimitPassedByThreads /\ OAuth!TokensEnd
    BY DEF ClientsBounded
  <2>1. OAuth!LimitPassedByThreads
    <3>1. Creating \in SUBSET Threads /\ OAuth!Active \in SUBSET Apps
      BY DEF Creating, OAuth!Active
    <3>2. /\ Cardinality(Creating) \in Nat /\ Cardinality(OAuth!Active) \in Nat
          /\ Cardinality(Threads) \in Nat
      BY <3>1, SomeThreads, SomeApps
    <3> QED
      BY <3>2, SameSizes, ServicesAssumption DEF OAuth!LimitPassedByThreads, ClientsInv, LimitInv
  <2>2. OAuth!TokensEnd
    BY ServicesAssumption DEF ClientsInv, ClientTypes, EndInv, OAuth!TokensEnd
  <2> QED
    BY <2>1, <2>2
<1>2. ClientsInv /\ [AllNext]_allVars => ClientsInv'
  BY ClientsMove, ClientsStep
<1> QED
  BY <1>1, <1>2, ClientsStart, PTL DEF AllSpec

-----------------------------------------------------------------------------
(* Rate limits                                                             *)

LEMMA LimitsMove == [AllNext]_allVars => [Limits!Next]_limitsVars
BY DEF AllNext, Frame, allVars

Everyone == Callers \cup {Admin, Monitor}

RateEvent == [age : 0..Horizon, window : Windows, over : BOOLEAN]

RateOps == {"idle", "refused", "insert", "answered", "reset", "reset_all"}

RateRequest == [op : RateOps, by : Everyone \cup {Limits!Nobody},
                window : Windows \cup {0}, age : 0..Horizon]

CounterTypes ==
  /\ r_count \in [Everyone -> [Windows -> Nat]]
  /\ r_left \in [Everyone -> [Windows -> 0..Horizon]]
  /\ \A u \in Everyone, w \in Windows : r_count[u][w] <= Quota[w]

LimitsTypes ==
  /\ CounterTypes
  /\ r_events \in [Everyone -> SUBSET RateEvent]
  /\ r_request \in [Threads -> RateRequest]

(* A refusal names its caller and the limit that is full; it is recorded   *)
(* within the window of that limit; and whoever is told of it has an event *)
(* that was found or inserted.                                             *)
Sound(r) ==
  /\ r.op \in {"refused", "insert", "answered", "reset"} => r.by \in Everyone
  /\ r.op \in {"refused", "insert", "answered"} => r.window \in Windows
  /\ r.op \in {"refused", "insert"} => r.age < r.window
  /\ r.op = "answered" => Limits!Existing(r.by, r.window)

RefusalInv == \A t \in Threads : Sound(r_request[t])

LimitsInv == LimitsTypes /\ RefusalInv

LEMMA LimitNumbers ==
  /\ Horizon \in Nat /\ 0 \in 0..Horizon
  /\ \A w \in Windows : w \in 1..Horizon /\ w \in Nat /\ 0 < w /\ Quota[w] \in Nat /\ 0 < Quota[w]
BY ServicesAssumption

LEMMA CallersRequest ==
  ASSUME LimitsInv, NEW t \in Threads
  PROVE  r_request[t] \in RateRequest /\ Sound(r_request[t])
BY DEF LimitsInv, LimitsTypes, RefusalInv

(* A thread that goes on without touching the events.                      *)
LEMMA RateGoesOn ==
  ASSUME LimitsInv, NEW t \in Threads, NEW r \in RateRequest, Sound(r),
         r_request' = [r_request EXCEPT ![t] = r], UNCHANGED r_events, CounterTypes'
  PROVE  LimitsInv'
<1>1. LimitsTypes'
  BY DEF LimitsInv, LimitsTypes
<1>2. \A s \in Threads : r_request'[s] = IF s = t THEN r ELSE r_request[s]
  BY DEF LimitsInv, LimitsTypes
<1>3. \A s \in Threads : Sound(r_request'[s])
  BY <1>2 DEF LimitsInv, RefusalInv
<1>4. RefusalInv'
  BY <1>3 DEF RefusalInv, Sound, Limits!Existing
<1> QED
  BY <1>1, <1>4 DEF LimitsInv

LEMMA RateRecords ==
  /\ Limits!NoRequest \in RateRequest /\ Sound(Limits!NoRequest)
  /\ \A u, w : [Limits!NoRequest EXCEPT !.op = "refused", !.by = u, !.window = w]
                  = [op |-> "refused", by |-> u, window |-> w, age |-> 0]
  /\ \A u : [Limits!NoRequest EXCEPT !.op = "reset", !.by = u]
               = [op |-> "reset", by |-> u, window |-> 0, age |-> 0]
  /\ [Limits!NoRequest EXCEPT !.op = "reset_all"]
        = [op |-> "reset_all", by |-> Limits!Nobody, window |-> 0, age |-> 0]
<1>1. Limits!NoRequest = [op |-> "idle", by |-> Limits!Nobody, window |-> 0, age |-> 0]
  BY DEF Limits!NoRequest
<1>2. Limits!NoRequest \in RateRequest
  BY <1>1, LimitNumbers DEF RateRequest, RateOps
<1>3. Sound(Limits!NoRequest)
  BY <1>1 DEF Sound
<1>4. ASSUME NEW o, NEW u
      PROVE  [Limits!NoRequest EXCEPT !.op = o, !.by = u]
               = [op |-> o, by |-> u, window |-> 0, age |-> 0]
  <2>1. PICK n : n = [Limits!NoRequest EXCEPT !.op = o]
    OBVIOUS
  <2>2. n = [op |-> o, by |-> Limits!Nobody, window |-> 0, age |-> 0]
    BY <1>1, <2>1
  <2>3. [n EXCEPT !.by = u] = [op |-> o, by |-> u, window |-> 0, age |-> 0]
    BY <2>2
  <2> QED
    BY <2>1, <2>3, Zenon
<1>5. ASSUME NEW u, NEW w
      PROVE  [Limits!NoRequest EXCEPT !.op = "refused", !.by = u, !.window = w]
               = [op |-> "refused", by |-> u, window |-> w, age |-> 0]
  <2>1. PICK n : n = [Limits!NoRequest EXCEPT !.op = "refused", !.by = u]
    OBVIOUS
  <2>2. n = [op |-> "refused", by |-> u, window |-> 0, age |-> 0]
    BY <1>4, <2>1
  <2>3. [n EXCEPT !.window = w] = [op |-> "refused", by |-> u, window |-> w, age |-> 0]
    BY <2>2
  <2> QED
    BY <2>1, <2>3, Zenon
<1>6. [Limits!NoRequest EXCEPT !.op = "reset_all"]
        = [op |-> "reset_all", by |-> Limits!Nobody, window |-> 0, age |-> 0]
  BY <1>1
<1> QED
  BY <1>2, <1>3, <1>4, <1>5, <1>6, Zenon

(* No limit counts further than to its quota.                              *)
LEMMA CountedKeeps ==
  ASSUME LimitsInv, NEW u \in Everyone, NEW W, Limits!Counted(u, W),
         \A w \in Windows \cap W : r_count[u][w] # Quota[w]
  PROVE  CounterTypes'
<1> DEFINE c == [w \in Windows |-> IF w \in W THEN r_count[u][w] + 1 ELSE r_count[u][w]]
           l == [w \in Windows |-> IF w \in W /\ r_count[u][w] = 0 THEN w ELSE r_left[u][w]]
<1>1. r_count' = [r_count EXCEPT ![u] = c] /\ r_left' = [r_left EXCEPT ![u] = l]
  BY DEF Limits!Counted
<1>2. CounterTypes
  BY DEF LimitsInv, LimitsTypes
<1>3. /\ r_count[u] \in [Windows -> Nat] /\ r_left[u] \in [Windows -> 0..Horizon]
      /\ \A w \in Windows : r_count[u][w] <= Quota[w]
  BY <1>2 DEF CounterTypes
<1>4. c \in [Windows -> Nat] /\ \A w \in Windows : c[w] <= Quota[w]
  BY <1>3, LimitNumbers
<1>5. l \in [Windows -> 0..Horizon]
  BY <1>3, LimitNumbers
<1> HIDE DEF c, l
<1>6. r_count' \in [Everyone -> [Windows -> Nat]] /\ r_left' \in [Everyone -> [Windows -> 0..Horizon]]
  BY <1>1, <1>2, <1>4, <1>5 DEF CounterTypes
<1>7. \A v \in Everyone : r_count'[v] = IF v = u THEN c ELSE r_count[v]
  BY <1>1, <1>2 DEF CounterTypes
<1> QED
  BY <1>2, <1>4, <1>6, <1>7 DEF CounterTypes

LEMMA PassKeeps ==
  ASSUME LimitsInv, NEW u \in Everyone, Limits!Pass(u)
  PROVE  LimitsInv'
<1>1. /\ Limits!Counted(u, Windows) /\ UNCHANGED <<r_events, r_request>>
      /\ \A w \in Windows : r_count[u][w] # Quota[w]
  BY DEF Limits!Pass, Limits!Full
<1>2. CounterTypes'
  BY <1>1, CountedKeeps
<1> QED
  BY <1>1, <1>2 DEF LimitsInv, LimitsTypes, RefusalInv, Sound, Limits!Existing

LEMMA RefuseKeeps ==
  ASSUME LimitsInv, NEW t \in Threads, NEW u \in Everyone, NEW w \in Windows,
         Limits!Refuse(t, u, w)
  PROVE  LimitsInv'
<1> DEFINE r == [op |-> "refused", by |-> u, window |-> w, age |-> 0]
           W == {v \in Windows : v < w}
<1>1. r \in RateRequest /\ Sound(r)
  BY LimitNumbers DEF RateRequest, RateOps, Sound
<1>2. /\ r_request' = [r_request EXCEPT ![t] = r] /\ UNCHANGED r_events
      /\ Limits!Counted(u, W)
      /\ \A v \in Windows : v < w => r_count[u][v] # Quota[v]
  BY RateRecords DEF Limits!Refuse, Limits!Then, Limits!Full
<1>3. \A v \in Windows \cap W : r_count[u][v] # Quota[v]
  BY <1>2
<1> HIDE DEF r, W
<1>4. CounterTypes'
  BY <1>2, <1>3, CountedKeeps
<1> QED
  BY <1>1, <1>2, <1>4, RateGoesOn

LEMMA RecordReadKeeps ==
  ASSUME LimitsInv, NEW t \in Threads, Limits!RecordRead(t)
  PROVE  LimitsInv'
<1> DEFINE q == r_request[t]
           op == IF Limits!Existing(q.by, q.window) THEN "answered" ELSE "insert"
           r == [q EXCEPT !.op = op]
<1>1. /\ r_request' = [r_request EXCEPT ![t] = r] /\ q.op = "refused"
      /\ UNCHANGED <<r_events, r_count, r_left>>
  BY DEF Limits!RecordRead, Limits!Then
<1>2. q \in RateRequest /\ Sound(q)
  BY CallersRequest
<1>3. op \in {"answered", "insert"} /\ (op = "answered" => Limits!Existing(q.by, q.window))
  OBVIOUS
<1>4. CounterTypes'
  BY <1>1 DEF LimitsInv, LimitsTypes, CounterTypes
<1> HIDE DEF q, op
<1>5. r = [op |-> op, by |-> q.by, window |-> q.window, age |-> q.age]
  BY <1>2 DEF RateRequest
<1>6. r \in RateRequest
  BY <1>2, <1>3, <1>5 DEF RateRequest, RateOps
<1>7. Sound(r)
  BY <1>1, <1>2, <1>3, <1>5 DEF Sound
<1> HIDE DEF r
<1> QED
  BY <1>1, <1>4, <1>6, <1>7, RateGoesOn

LEMMA RecordInsertKeeps ==
  ASSUME LimitsInv, NEW t \in Threads, Limits!RecordInsert(t)
  PROVE  LimitsInv'
<1> DEFINE q == r_request[t]
           u == q.by
           e == [age |-> q.age, window |-> q.window, over |-> FALSE]
           r == [q EXCEPT !.op = "answered"]
<1>1. /\ r_request' = [r_request EXCEPT ![t] = r] /\ q.op = "insert"
      /\ r_events' = [r_events EXCEPT ![u] = @ \cup {e}]
      /\ UNCHANGED <<r_count, r_left>>
  BY DEF Limits!RecordInsert, Limits!Then
<1>2. q \in RateRequest /\ u \in Everyone /\ q.window \in Windows /\ q.age < q.window
  BY <1>1, CallersRequest DEF Sound
<1>3. r = [op |-> "answered", by |-> u, window |-> q.window, age |-> q.age]
  BY <1>2 DEF RateRequest
<1>4. r \in RateRequest
  BY <1>2, <1>3 DEF RateRequest, RateOps
<1>5. e \in RateEvent /\ e.age <= q.window
  BY <1>2, LimitNumbers DEF RateEvent, RateRequest
<1>6. LimitsTypes
  BY DEF LimitsInv
<1> HIDE DEF q, u, e, r
<1>7. r_events[u] \cup {e} \in SUBSET RateEvent
  BY <1>2, <1>5, <1>6 DEF LimitsTypes
<1>8. LimitsTypes'
  BY <1>1, <1>2, <1>4, <1>6, <1>7 DEF LimitsTypes, CounterTypes
<1>9. \A v \in Everyone : r_events[v] \subseteq r_events'[v]
  BY <1>1, <1>6 DEF LimitsTypes
<1>10. \A v \in Everyone, w \in Windows : Limits!Existing(v, w) => Limits!Existing(v, w)'
  BY <1>9 DEF Limits!Existing, Everyone
<1>11. e \in r_events'[u]
  BY <1>1, <1>2, <1>6 DEF LimitsTypes
<1>12. PICK x, y, d : x = u /\ y = q.window /\ d = e
  OBVIOUS
<1>13. d \in r_events'[x] /\ d.age <= y /\ x \in Everyone
  BY <1>2, <1>5, <1>11, <1>12
<1>14. Limits!Existing(x, y)'
  BY <1>13 DEF Limits!Existing, Everyone
<1>15. \A s \in Threads : r_request'[s] = IF s = t THEN r ELSE r_request[s]
  BY <1>1, <1>6 DEF LimitsTypes
<1>16. ASSUME NEW s \in Threads
       PROVE  Sound(r_request[s])'
  <2>1. CASE s = t
    <3>1. r_request'[s] = r
      BY <1>15, <2>1
    <3> QED
      BY <1>2, <1>3, <1>12, <1>14, <3>1 DEF Sound
  <2>2. CASE s # t
    <3>1. r_request'[s] = r_request[s] /\ Sound(r_request[s])
      BY <1>15, <2>2, CallersRequest
    <3> QED
      BY <1>10, <3>1 DEF Sound
  <2> QED
    BY <2>1, <2>2
<1> QED
  BY <1>8, <1>16 DEF LimitsInv, RefusalInv

LEMMA RateEnds ==
  ASSUME LimitsInv, NEW t \in Threads, Limits!RecordFails(t) \/ Limits!Answer(t)
  PROVE  LimitsInv'
<1>1. /\ r_request' = [r_request EXCEPT ![t] = Limits!NoRequest]
      /\ UNCHANGED <<r_events, r_count, r_left>>
  BY DEF Limits!RecordFails, Limits!Answer, Limits!Then
<1>2. CounterTypes'
  BY <1>1 DEF LimitsInv, LimitsTypes, CounterTypes
<1> QED
  BY <1>1, <1>2, RateRecords, RateGoesOn

(* A reset first clears the counters.                                      *)
LEMMA ClearsCounters ==
  ASSUME LimitsInv, NEW U, Limits!Clear(U)
  PROVE  CounterTypes' /\ UNCHANGED r_events
<1> DEFINE z == [w \in Windows |-> 0]
<1>1. /\ r_count' = [u \in Everyone |-> IF u \in U THEN z ELSE r_count[u]]
      /\ r_left' = [u \in Everyone |-> IF u \in U THEN z ELSE r_left[u]]
      /\ UNCHANGED r_events
  BY DEF Limits!Clear, Everyone
<1>2. CounterTypes
  BY DEF LimitsInv, LimitsTypes
<1>3. /\ z \in [Windows -> Nat] /\ z \in [Windows -> 0..Horizon]
      /\ \A w \in Windows : z[w] <= Quota[w]
  BY LimitNumbers
<1> HIDE DEF z
<1> QED
  BY <1>1, <1>2, <1>3 DEF CounterTypes

LEMMA ResetsKeep ==
  ASSUME LimitsInv, NEW t \in Threads,
         Limits!ResetAll(t) \/ \E u \in Everyone : Limits!ResetByIdentifier(t, u)
  PROVE  LimitsInv'
<1>1. PICK U : Limits!Clear(U)
  BY DEF Limits!ResetAll, Limits!ResetByIdentifier
<1>2. \E r \in RateRequest : r_request' = [r_request EXCEPT ![t] = r] /\ Sound(r)
  <2>1. CASE Limits!ResetAll(t)
    <3> DEFINE r == [op |-> "reset_all", by |-> Limits!Nobody, window |-> 0, age |-> 0]
    <3>1. r \in RateRequest /\ Sound(r)
      BY LimitNumbers DEF RateRequest, RateOps, Sound
    <3>2. r_request' = [r_request EXCEPT ![t] = r]
      BY <2>1, RateRecords DEF Limits!ResetAll, Limits!Then
    <3> HIDE DEF r
    <3> QED
      BY <3>1, <3>2
  <2>2. ASSUME NEW u \in Everyone, Limits!ResetByIdentifier(t, u)
        PROVE  \E r \in RateRequest : r_request' = [r_request EXCEPT ![t] = r] /\ Sound(r)
    <3> DEFINE r == [op |-> "reset", by |-> u, window |-> 0, age |-> 0]
    <3>1. r \in RateRequest /\ Sound(r)
      BY LimitNumbers DEF RateRequest, RateOps, Sound
    <3>2. r_request' = [r_request EXCEPT ![t] = r]
      BY <2>2, RateRecords DEF Limits!ResetByIdentifier, Limits!Then
    <3> HIDE DEF r
    <3> QED
      BY <3>1, <3>2
  <2> QED
    BY <2>1, <2>2
<1> QED
  BY <1>1, <1>2, ClearsCounters, RateGoesOn

(* And then ends the events, which still occurred when they did.           *)
LEMMA ExpireKeeps ==
  ASSUME LimitsInv, NEW t \in Threads, NEW U, Limits!Expire(U),
         Limits!Then(t, Limits!NoRequest)
  PROVE  LimitsInv'
<1> DEFINE Over(e) == [e EXCEPT !.over = e.over \/ Limits!IsActive(e)]
<1>1. /\ r_request' = [r_request EXCEPT ![t] = Limits!NoRequest]
      /\ r_events' = [u \in Everyone |-> IF u \in U THEN {Over(e) : e \in r_events[u]}
                                        ELSE r_events[u]]
      /\ UNCHANGED <<r_count, r_left>>
  BY DEF Limits!Expire, Limits!Then, Everyone
<1>2. LimitsTypes
  BY DEF LimitsInv
<1>3. ASSUME NEW e \in RateEvent
      PROVE  Over(e) \in RateEvent /\ Over(e).age = e.age
  <2>1. (e.over \/ Limits!IsActive(e)) \in BOOLEAN
    BY DEF Limits!IsActive, RateEvent
  <2> QED
    BY <2>1 DEF RateEvent
<1> HIDE DEF Over
<1>4. \A u \in Everyone : r_events[u] \subseteq RateEvent
  BY <1>2 DEF LimitsTypes
<1>5. \A u \in Everyone : {Over(e) : e \in r_events[u]} \in SUBSET RateEvent
  BY <1>3, <1>4
<1>6. r_events' \in [Everyone -> SUBSET RateEvent]
  BY <1>1, <1>4, <1>5
<1>7. LimitsTypes'
  BY <1>1, <1>2, <1>6, RateRecords DEF LimitsTypes, CounterTypes
<1>8. \A u \in Everyone : \A e \in r_events[u] : \E d \in r_events'[u] : d.age = e.age
  BY <1>1, <1>3, <1>4
<1>9. ASSUME NEW v, NEW w, Limits!Existing(v, w)
      PROVE  Limits!Existing(v, w)'
  <2>1. PICK u \in Everyone : (u = v \/ u \in Limits!Neighbours(v)) /\ \E e \in r_events[u] : e.age <= w
    BY <1>9 DEF Limits!Existing, Everyone
  <2>2. PICK e \in r_events[u] : e.age <= w
    BY <2>1
  <2>3. PICK d \in r_events'[u] : d.age = e.age
    BY <1>8, <2>2
  <2> QED
    BY <2>1, <2>2, <2>3 DEF Limits!Existing, Limits!Neighbours, Everyone
<1>10. \A s \in Threads : r_request'[s] = IF s = t THEN Limits!NoRequest ELSE r_request[s]
  BY <1>1, <1>2 DEF LimitsTypes
<1>11. ASSUME NEW s \in Threads
       PROVE  Sound(r_request[s])'
  <2>1. Sound(r_request'[s])
    BY <1>10, CallersRequest, RateRecords
  <2> QED
    BY <1>9, <2>1 DEF Sound
<1> QED
  BY <1>7, <1>11 DEF LimitsInv, RefusalInv

LEMMA ExpiriesKeep ==
  ASSUME LimitsInv, NEW t \in Threads,
         Limits!ExpireEventsForIdentifier(t) \/ Limits!ExpireAllActiveEvents(t)
  PROVE  LimitsInv'
<1>1. PICK U : Limits!Expire(U) /\ Limits!Then(t, Limits!NoRequest)
  BY DEF Limits!ExpireEventsForIdentifier, Limits!ExpireAllActiveEvents
<1> QED
  BY <1>1, ExpireKeeps

(* Time passes for the events and for those that are being recorded.       *)
LEMMA LimitsTickKeeps ==
  ASSUME LimitsInv, Limits!Tick
  PROVE  LimitsInv'
<1> DEFINE Older(e) == [e EXCEPT !.age = e.age + 1]
           Kept(u) == {d \in r_events[u] : d.age < Horizon}
<1>1. /\ \A t \in Threads : Limits!Recording(t)
      /\ r_left' = [u \in Everyone |-> [w \in Windows |->
                      IF r_left[u][w] > 0 THEN r_left[u][w] - 1 ELSE 0]]
      /\ r_count' = [u \in Everyone |-> [w \in Windows |->
                      IF r_left[u][w] <= 1 THEN 0 ELSE r_count[u][w]]]
      /\ r_events' = [u \in Everyone |-> {Older(e) : e \in Kept(u)}]
      /\ r_request' = [t \in Threads |->
                         IF r_request[t].op = "insert" THEN [r_request[t] EXCEPT !.age = @ + 1]
                         ELSE r_request[t]]
  BY DEF Limits!Tick, Everyone
<1>2. LimitsTypes /\ CounterTypes
  BY DEF LimitsInv, LimitsTypes
<1>3. \A e \in RateEvent : e.age < Horizon => Older(e) \in RateEvent
  BY LimitNumbers DEF RateEvent
<1>4. \A u \in Everyone : Kept(u) \subseteq RateEvent /\ \A e \in Kept(u) : e.age < Horizon
  BY <1>2 DEF LimitsTypes
<1> HIDE DEF Older, Kept
<1>5. \A u \in Everyone : {Older(e) : e \in Kept(u)} \in SUBSET RateEvent
  BY <1>3, <1>4
<1>6. r_events' \in [Everyone -> SUBSET RateEvent]
  BY <1>1, <1>5
<1>7. CounterTypes'
  <2>1. ASSUME NEW u \in Everyone, NEW w \in Windows
        PROVE  /\ r_left[u][w] \in 0..Horizon /\ r_count[u][w] \in Nat
               /\ r_count[u][w] <= Quota[w]
    BY <1>2 DEF CounterTypes
  <2>2. ASSUME NEW u \in Everyone
        PROVE  /\ [w \in Windows |-> IF r_left[u][w] > 0 THEN r_left[u][w] - 1 ELSE 0]
                    \in [Windows -> 0..Horizon]
               /\ [w \in Windows |-> IF r_left[u][w] <= 1 THEN 0 ELSE r_count[u][w]]
                    \in [Windows -> Nat]
    BY <2>1, LimitNumbers
  <2>3. r_left' \in [Everyone -> [Windows -> 0..Horizon]] /\ r_count' \in [Everyone -> [Windows -> Nat]]
    BY <1>1, <2>2
  <2>4. \A u \in Everyone, w \in Windows : r_count'[u][w] \in {0, r_count[u][w]}
    BY <1>1
  <2> QED
    BY <2>1, <2>3, <2>4, LimitNumbers DEF CounterTypes
<1>8. ASSUME NEW t \in Threads
      PROVE  r_request'[t] \in RateRequest /\ Sound(r_request[t])'
  <2> DEFINE q == r_request[t]
             r == [q EXCEPT !.age = @ + 1]
  <2>1. q \in RateRequest /\ Sound(q) /\ q.op \notin {"refused", "answered"}
    BY <1>1, CallersRequest DEF Limits!Recording
  <2>2. CASE q.op # "insert"
    <3>1. r_request'[t] = q
      BY <1>1, <2>2
    <3> QED
      BY <2>1, <2>2, <3>1 DEF Sound
  <2>3. CASE q.op = "insert"
    <3>1. r_request'[t] = r /\ q.age + 1 < q.window /\ q.window \in Windows /\ q.by \in Everyone
      BY <1>1, <2>1, <2>3 DEF Limits!Recording, Sound
    <3>2. r = [op |-> "insert", by |-> q.by, window |-> q.window, age |-> q.age + 1]
      BY <2>1, <2>3 DEF RateRequest
    <3>3. q.age + 1 \in 0..Horizon
      BY <2>1, <3>1, LimitNumbers DEF RateRequest
    <3>4. r \in RateRequest
      BY <3>1, <3>2, <3>3 DEF RateRequest, RateOps
    <3> HIDE DEF q, r
    <3> QED
      BY <3>1, <3>2, <3>4 DEF Sound
  <2> QED
    BY <2>2, <2>3
<1>9. r_request' \in [Threads -> RateRequest]
  BY <1>1, <1>8
<1> QED
  BY <1>6, <1>7, <1>8, <1>9 DEF LimitsInv, LimitsTypes, RefusalInv

LEMMA LimitsStart == AllInit => LimitsInv
<1> SUFFICES ASSUME AllInit PROVE LimitsInv
  OBVIOUS
<1> DEFINE z == [w \in Windows |-> 0]
<1>1. /\ r_count = [u \in Everyone |-> z] /\ r_left = [u \in Everyone |-> z]
      /\ r_events = [u \in Everyone |-> {}]
      /\ r_request = [t \in Threads |-> Limits!NoRequest]
  BY DEF AllInit, Limits!Init, Everyone
<1>2. /\ z \in [Windows -> Nat] /\ z \in [Windows -> 0..Horizon]
      /\ \A w \in Windows : z[w] <= Quota[w]
  BY LimitNumbers
<1> HIDE DEF z
<1>3. CounterTypes
  BY <1>1, <1>2 DEF CounterTypes
<1> QED
  BY <1>1, <1>3, RateRecords DEF LimitsInv, LimitsTypes, RefusalInv

LEMMA LimitsStep ==
  ASSUME LimitsInv, [Limits!Next]_limitsVars
  PROVE  LimitsInv'
<1>1. CASE UNCHANGED limitsVars
  BY <1>1 DEF limitsVars, LimitsInv, LimitsTypes, CounterTypes, RefusalInv, Sound, Limits!Existing
<1>2. CASE Limits!Next
  BY <1>2, PassKeeps, RefuseKeeps, RecordReadKeeps, RecordInsertKeeps, RateEnds, ResetsKeep,
     ExpiriesKeep, LimitsTickKeeps DEF Limits!Next, Everyone
<1> QED
  BY <1>1, <1>2

(* Whoever is refused, by whichever of the limits, is on the list of active *)
(* limits, at the latest when the refusal is answered, unless the event    *)
(* that stands for it was ended by a reset, is of a shorter limit and over, *)
(* or is another caller's (rate_limit_event_service.py:84-123).            *)
THEOREM RefusalsListed == AllSpec => []RefusedIsListed
<1>1. LimitsInv => RefusedIsListed
  <2> SUFFICES ASSUME LimitsInv, NEW t \in Threads, r_request[t].op = "answered"
               PROVE  LET r == r_request[t] IN
                      \/ Limits!Active(r.by)
                      \/ \E e \in r_events[r.by] :
                           e.age <= r.window /\ (e.over \/ e.window < r.window \/ e.age = e.window)
                      \/ \E v \in Limits!Neighbours(r.by) \ {r.by} :
                           \E e \in r_events[v] : e.age <= r.window
    BY DEF RefusedIsListed, Limits!RefusedIsListed
  <2> DEFINE u == r_request[t].by
             w == r_request[t].window
  <2>1. u \in Everyone /\ w \in Windows /\ Limits!Existing(u, w)
    BY CallersRequest DEF Sound
  <2> HIDE DEF u, w
  <2>2. PICK v \in Everyone : (v = u \/ v \in Limits!Neighbours(u)) /\ \E e \in r_events[v] : e.age <= w
    BY <2>1 DEF Limits!Existing, Everyone
  <2>3. PICK e \in r_events[v] : e.age <= w
    BY <2>2
  <2>4. e \in RateEvent
    BY <2>3 DEF LimitsInv, LimitsTypes
  <2>5. CASE v # u
    BY <2>2, <2>3, <2>5 DEF u, w
  <2>6. CASE v = u /\ Limits!IsActive(e)
    BY <2>3, <2>6 DEF Limits!Active, u
  <2>7. CASE v = u /\ ~Limits!IsActive(e)
    <3>1. e.over \/ e.window <= e.age
      BY <2>4, <2>7, LimitNumbers DEF Limits!IsActive, RateEvent
    <3>2. e.over \/ e.window < w \/ e.age = e.window
      BY <2>1, <2>3, <2>4, <3>1, LimitNumbers DEF RateEvent
    <3> QED
      BY <2>3, <2>7, <3>2 DEF u, w
  <2> QED
    BY <2>5, <2>6, <2>7
<1>2. LimitsInv /\ [AllNext]_allVars => LimitsInv'
  BY LimitsMove, LimitsStep
<1> QED
  BY <1>1, <1>2, LimitsStart, PTL DEF AllSpec
===============================================================================
