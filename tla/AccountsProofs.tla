---------------------------- MODULE AccountsProofs ----------------------------
(***************************************************************************)
(* Theorems about Accounts, for any number of API threads, cleanup runs,   *)
(* registrations, reset tokens and wrong passwords, any roles and any      *)
(* lockout thresholds.                                                     *)
(***************************************************************************)
EXTENDS Accounts, FiniteSetTheorems, SequenceTheorems, TLAPS

-----------------------------------------------------------------------------
(* The inductive invariant                                                 *)

Audit == [records : Nat, hashes : Nat, expiring : BOOLEAN]
ResetType == [id : Ids, state : {"valid", "used", "expired", "gone"}]
SweepType == [Sweepers -> 0..MaxUsers]

(* A thread that is not idle is about a row that was inserted.             *)
Typed(r) == r \in RequestType /\ (r.op # "idle" => r.id \in Ids)

TypeInv ==
  /\ TypeOK
  /\ wrong \in Seq(0..MaxWrong) /\ spent \in Seq(Nat) /\ audits \in Seq(Audit)
  /\ Len(resets) <= MaxResets
  /\ \A t \in Threads : Typed(request[t])
  /\ \A s \in Sweepers : sweep[s] # NoSweep => sweep[s] \in Ids

(* The count in a row was reached by wrong passwords, and so was its lock. *)
Earned(u, w) ==
  /\ u.fails <= w
  /\ u.lock # "none" => w >= TempLockAt
  /\ u.lock = "perm" => w >= PermLockAt

(* What a thread found before its wrong password is less by one at least.  *)
LockInv ==
  /\ \A n \in Ids : Earned(users[n], wrong[n])
  /\ \A t \in Threads :
       request[t].op = "wrong" => request[t].fails + 1 <= wrong[request[t].id]

(* The threads that found the row and will delete it.                      *)
Deleting(n) == {t \in Threads : request[t].op \in Reasons /\ request[t].id = n}

(* The cleanup runs that have the row loaded.                              *)
Sweeping(n) == {s \in Sweepers : sweep[s] = n /\ n # NoSweep}

Erasing(n) == Cardinality(Deleting(n)) + Cardinality(Sweeping(n))
Everybody == Cardinality(Threads) + Cardinality(Sweepers)

(* Nobody finds a row that is gone: those who found it before the first    *)
(* deletion are all who may still write a record.                          *)
AuditInv ==
  \A n \in Ids :
    IF users[n].live THEN audits[n].records = 0
    ELSE /\ audits[n].records >= 1
         /\ audits[n].records + Erasing(n) <= Everybody

(* The threads that found the token valid and will set a password with it. *)
Resetting(k) == {t \in Threads : request[t].op = "reset" /\ request[t].token = k}

ResetInv ==
  \A k \in DOMAIN resets :
    /\ spent[k] + Cardinality(Resetting(k)) <= Cardinality(Threads)
    /\ resets[k].state = "valid" => spent[k] = 0

-----------------------------------------------------------------------------
(* Rows, tokens and requests                                               *)

LEMMA Shape ==
  ASSUME TypeInv
  PROVE  /\ Len(users) \in Nat /\ Len(users) <= MaxUsers /\ Ids \subseteq 0..MaxUsers
         /\ users \in [Ids -> Row] /\ DOMAIN users = Ids
         /\ wrong \in [Ids -> 0..MaxWrong] /\ audits \in [Ids -> Audit]
         /\ Len(resets) \in Nat /\ DOMAIN resets = 1..Len(resets)
         /\ resets \in [1..Len(resets) -> ResetType]
         /\ spent \in [1..Len(resets) -> Nat]
         /\ request \in [Threads -> RequestType]
<1>1. /\ users \in Seq(Row) /\ wrong \in Seq(0..MaxWrong) /\ audits \in Seq(Audit)
      /\ resets \in Seq(ResetType) /\ spent \in Seq(Nat)
      /\ Len(users) <= MaxUsers /\ request \in [Threads -> RequestType]
      /\ Len(audits) = Len(users) /\ Len(wrong) = Len(users)
      /\ Len(spent) = Len(resets)
  BY DEF TypeInv, TypeOK, ResetType
<1>2. /\ Len(users) \in Nat /\ users \in [1..Len(users) -> Row]
      /\ DOMAIN users = 1..Len(users)
  BY <1>1, LenProperties
<1>3. wrong \in [1..Len(wrong) -> 0..MaxWrong] /\ audits \in [1..Len(audits) -> Audit]
  BY <1>1, LenProperties
<1>4. /\ Len(resets) \in Nat /\ DOMAIN resets = 1..Len(resets)
      /\ resets \in [1..Len(resets) -> ResetType] /\ spent \in [1..Len(spent) -> Nat]
  BY <1>1, LenProperties
<1>5. 1..Len(users) \subseteq 0..MaxUsers
  BY <1>1, <1>2, AccountsAssumption
<1> QED
  BY <1>1, <1>2, <1>3, <1>4, <1>5 DEF Ids

(* A thread goes on; the others stay where they are.                       *)
LEMMA OneRequest ==
  ASSUME TypeInv, NEW t \in Threads, NEW r \in RequestType, Then(t, r)
  PROVE  /\ request' \in [Threads -> RequestType] /\ request'[t] = r
         /\ \A s \in Threads : s # t => request'[s] = request[s]
BY DEF TypeInv, TypeOK, Then

LEMMA IdleTyped == Idle \in RequestType /\ Idle.op = "idle"
BY AccountsAssumption DEF Idle, RequestType, Operations, Locks

(* What a thread loads from a row that is there.                           *)
LEMMA LoadedTyped ==
  ASSUME TypeInv, NEW n \in Ids, NEW op \in Operations
  PROVE  /\ Loaded(op, n) \in RequestType /\ Loaded(op, n).op = op
         /\ Loaded(op, n).id = n /\ Loaded(op, n).fails = users[n].fails
<1>1. users[n] \in Row /\ n \in 0..MaxUsers
  BY Shape
<1> QED
  BY <1>1, IdleTyped DEF Loaded, Idle, RequestType, Row

(* One row is written.                                                     *)
LEMMA OneRow ==
  ASSUME TypeInv, NEW n \in Ids, NEW v \in Row, users' = [users EXCEPT ![n] = v]
  PROVE  /\ users' \in Seq(Row) /\ Len(users') = Len(users) /\ Ids' = Ids
         /\ users'[n] = v /\ \A m \in Ids : m # n => users'[m] = users[m]
<1>1. users \in Seq(Row) /\ Ids = 1..Len(users)
  BY DEF TypeInv, TypeOK, Ids
<1>2. users' \in Seq(Row) /\ Len(users') = Len(users)
  BY <1>1, ExceptSeq
<1> QED
  BY <1>2, Shape DEF Ids

(* What the columns of the lockout may become.                             *)
WithColumns(u, r, fails, lock) ==
  [u EXCEPT !.fails = Column(r.fails, fails, @), !.lock = Column(r.lock, lock, @)]

LEMMA Columns ==
  ASSUME NEW u \in Row, NEW r \in RequestType,
         NEW fails \in 0..MaxWrong, NEW lock \in Locks
  PROVE  LET v == WithColumns(u, r, fails, lock) IN
         /\ v \in Row /\ v.live = u.live
         /\ v.fails = u.fails \/ v.fails = fails
         /\ v.lock = u.lock \/ (v.lock = lock /\ lock # r.lock)
BY DEF WithColumns, Column, Row

LEMMA WithFailsRow ==
  ASSUME TypeInv, NEW t \in Threads, request[t].id \in Ids, NEW fails, NEW lock
  PROVE  WithFails(t, fails, lock) =
           [users EXCEPT ![request[t].id] =
              WithColumns(users[request[t].id], request[t], fails, lock)]
<1> DEFINE r == request[t]
           n == r.id
<1>1. users[n] \in Row /\ users \in [Ids -> Row]
  BY Shape
<1>2. WithFails(t, fails, lock) =
        [users EXCEPT ![n].fails = Column(r.fails, fails, @),
                      ![n].lock = Column(r.lock, lock, @)]
  BY DEF WithFails
<1> HIDE DEF n, r
<1> QED
  BY <1>1, <1>2 DEF WithColumns, Row, n, r

-----------------------------------------------------------------------------
(* What keeps each part of the invariant                                   *)

IInv == TypeInv /\ LockInv /\ AuditInv /\ ResetInv

LEMMA Some ==
  ASSUME NEW F, IsFiniteSet(F), NEW S \in SUBSET F
  PROVE  /\ IsFiniteSet(S) /\ Cardinality(S) \in Nat
         /\ Cardinality(F) \in Nat /\ Cardinality(S) <= Cardinality(F)
         /\ \A T \in SUBSET S : Cardinality(T) \in Nat /\ Cardinality(T) <= Cardinality(S)
         /\ \A t \in S : Cardinality(S \ {t}) = Cardinality(S) - 1
<1>1. IsFiniteSet(S) /\ Cardinality(S) <= Cardinality(F)
  BY FS_Subset
<1>2. Cardinality(S) \in Nat /\ Cardinality(F) \in Nat
  BY <1>1, FS_CardinalityType
<1>3. ASSUME NEW T \in SUBSET S
      PROVE  Cardinality(T) \in Nat /\ Cardinality(T) <= Cardinality(S)
  <2>1. IsFiniteSet(T) /\ Cardinality(T) <= Cardinality(S)
    BY <1>1, FS_Subset
  <2> QED
    BY <2>1, FS_CardinalityType
<1>4. ASSUME NEW t \in S
      PROVE  Cardinality(S \ {t}) = Cardinality(S) - 1
  BY <1>1, FS_RemoveElement
<1> QED
  BY <1>1, <1>2, <1>3, <1>4

LEMMA SomeThreads ==
  ASSUME NEW S \in SUBSET Threads
  PROVE  /\ IsFiniteSet(S) /\ Cardinality(S) \in Nat
         /\ Cardinality(Threads) \in Nat /\ Cardinality(S) <= Cardinality(Threads)
         /\ \A T \in SUBSET S : Cardinality(T) \in Nat /\ Cardinality(T) <= Cardinality(S)
         /\ \A t \in S : Cardinality(S \ {t}) = Cardinality(S) - 1
BY Some, AccountsAssumption

LEMMA SomeSweepers ==
  ASSUME NEW S \in SUBSET Sweepers
  PROVE  /\ IsFiniteSet(S) /\ Cardinality(S) \in Nat
         /\ Cardinality(Sweepers) \in Nat /\ Cardinality(S) <= Cardinality(Sweepers)
         /\ \A T \in SUBSET S : Cardinality(T) \in Nat /\ Cardinality(T) <= Cardinality(S)
         /\ \A s \in S : Cardinality(S \ {s}) = Cardinality(S) - 1
BY Some, AccountsAssumption

(* Cleanup runs that load no row that is gone.                             *)
SweepsCalm ==
  /\ sweep' \in SweepType
  /\ \A s \in Sweepers : sweep'[s] # NoSweep =>
       /\ sweep'[s] \in Ids
       /\ users[sweep'[s]].live \/ sweep[s] = sweep'[s]

LEMMA SweepsStay ==
  ASSUME TypeInv, UNCHANGED sweep
  PROVE  SweepsCalm
BY DEF SweepsCalm, TypeInv, TypeOK, SweepType

(* Of a row that is gone, nobody new can write a record.                   *)
LEMMA ErasingKeeps ==
  ASSUME NEW n, Deleting(n)' \subseteq Deleting(n), SweepsCalm, ~users[n].live
  PROVE  /\ Erasing(n)' <= Erasing(n) /\ Erasing(n)' \in Nat /\ Erasing(n) \in Nat
         /\ Everybody \in Nat /\ Sweeping(n)' \subseteq Sweeping(n)
<1>1. /\ Deleting(n) \in SUBSET Threads /\ Deleting(n)' \in SUBSET Deleting(n)
      /\ Sweeping(n) \in SUBSET Sweepers
  BY DEF Deleting, Sweeping
<1>2. Sweeping(n)' \in SUBSET Sweeping(n)
  BY DEF Sweeping, SweepsCalm
<1>3. /\ Cardinality(Deleting(n)') <= Cardinality(Deleting(n))
      /\ Cardinality(Deleting(n)') \in Nat /\ Cardinality(Deleting(n)) \in Nat
      /\ Cardinality(Threads) \in Nat
  BY <1>1, SomeThreads
<1>4. /\ Cardinality(Sweeping(n)') <= Cardinality(Sweeping(n))
      /\ Cardinality(Sweeping(n)') \in Nat /\ Cardinality(Sweeping(n)) \in Nat
      /\ Cardinality(Sweepers) \in Nat
  BY <1>1, <1>2, SomeSweepers
<1>5. Erasing(n)' = Cardinality(Deleting(n)') + Cardinality(Sweeping(n)')
  BY DEF Erasing
<1> QED
  BY <1>2, <1>3, <1>4, <1>5 DEF Erasing, Everybody

(* A thread or a run that could write a record, and now cannot.            *)
Leaves(n) ==
  \/ \E t \in Deleting(n) : t \notin Deleting(n)'
  \/ \E s \in Sweeping(n) : s \notin Sweeping(n)'

LEMMA OneLeaves ==
  ASSUME NEW n, Leaves(n)
  PROVE  /\ Erasing(n)' \in Nat /\ Everybody \in Nat /\ Erasing(n)' + 1 <= Everybody
         /\ Deleting(n)' \subseteq Deleting(n) /\ Sweeping(n)' \subseteq Sweeping(n)
              => Erasing(n) \in Nat /\ Erasing(n)' + 1 <= Erasing(n)
<1> DEFINE D == Deleting(n)
           E == Deleting(n)'
           S == Sweeping(n)
           R == Sweeping(n)'
<1>1. /\ D \in SUBSET Threads /\ E \in SUBSET Threads
      /\ S \in SUBSET Sweepers /\ R \in SUBSET Sweepers
  BY DEF Deleting, Sweeping
<1>2. /\ Erasing(n)' = Cardinality(E) + Cardinality(R)
      /\ Erasing(n) = Cardinality(D) + Cardinality(S)
  BY DEF Erasing
<1>3. (\E t \in D : t \notin E) \/ (\E s \in S : s \notin R)
  BY DEF Leaves
<1> HIDE DEF D, E, S, R
<1>4. /\ Cardinality(D) \in Nat /\ Cardinality(E) \in Nat /\ Cardinality(Threads) \in Nat
      /\ Cardinality(E) <= Cardinality(Threads)
      /\ E \subseteq D => Cardinality(E) <= Cardinality(D)
  BY <1>1, SomeThreads
<1>5. /\ Cardinality(S) \in Nat /\ Cardinality(R) \in Nat /\ Cardinality(Sweepers) \in Nat
      /\ Cardinality(R) <= Cardinality(Sweepers)
      /\ R \subseteq S => Cardinality(R) <= Cardinality(S)
  BY <1>1, SomeSweepers
<1>6. CASE \E t \in D : t \notin E
  <2>1. PICK t \in D : t \notin E
    BY <1>6
  <2>2. /\ E \in SUBSET (Threads \ {t}) /\ Threads \ {t} \in SUBSET Threads
        /\ D \ {t} \in SUBSET Threads
        /\ E \subseteq D => E \in SUBSET (D \ {t})
        /\ t \in Threads /\ Threads \in SUBSET Threads
    BY <1>1, <2>1
  <2>3. Cardinality(Threads \ {t}) = Cardinality(Threads) - 1
    BY <2>2, SomeThreads
  <2>4. Cardinality(D \ {t}) = Cardinality(D) - 1
    BY <1>1, <2>1, SomeThreads
  <2>5. Cardinality(E) <= Cardinality(Threads \ {t})
    BY <2>2, SomeThreads
  <2>6. ASSUME E \subseteq D
        PROVE  Cardinality(E) <= Cardinality(D \ {t})
    <3>1. D \ {t} \in SUBSET Threads /\ E \in SUBSET (D \ {t})
      BY <2>2, <2>6
    <3> QED
      BY <3>1, SomeThreads
  <2> QED
    BY <1>2, <1>4, <1>5, <2>3, <2>4, <2>5, <2>6 DEF Everybody, D, E, S, R
<1>7. CASE \E s \in S : s \notin R
  <2>1. PICK s \in S : s \notin R
    BY <1>7
  <2>2. /\ R \in SUBSET (Sweepers \ {s}) /\ Sweepers \ {s} \in SUBSET Sweepers
        /\ S \ {s} \in SUBSET Sweepers
        /\ R \subseteq S => R \in SUBSET (S \ {s})
        /\ s \in Sweepers /\ Sweepers \in SUBSET Sweepers
    BY <1>1, <2>1
  <2>3. Cardinality(Sweepers \ {s}) = Cardinality(Sweepers) - 1
    BY <2>2, SomeSweepers
  <2>4. Cardinality(S \ {s}) = Cardinality(S) - 1
    BY <1>1, <2>1, SomeSweepers
  <2>5. Cardinality(R) <= Cardinality(Sweepers \ {s})
    BY <2>2, SomeSweepers
  <2>6. ASSUME R \subseteq S
        PROVE  Cardinality(R) <= Cardinality(S \ {s})
    <3>1. S \ {s} \in SUBSET Sweepers /\ R \in SUBSET (S \ {s})
      BY <2>2, <2>6
    <3> QED
      BY <3>1, SomeSweepers
  <2> QED
    BY <1>2, <1>4, <1>5, <2>3, <2>4, <2>5, <2>6 DEF Everybody, D, E, S, R
<1> QED
  BY <1>3, <1>6, <1>7

(* Threads that finish, or go on as they were.                             *)
Calm ==
  /\ request' \in [Threads -> RequestType]
  /\ \A t \in Threads : request'[t] = request[t] \/ request'[t] = Idle

LEMMA CalmSets ==
  ASSUME Calm, NEW n
  PROVE  Deleting(n)' \subseteq Deleting(n) /\ Resetting(n)' \subseteq Resetting(n)
BY DEF Calm, Deleting, Resetting, Idle, Reasons

LEMMA CalmThen ==
  ASSUME TypeInv, NEW t \in Threads, Then(t, Idle)
  PROVE  Calm
BY OneRequest, IdleTyped DEF Calm

LEMMA CalmStays ==
  ASSUME TypeInv, UNCHANGED request
  PROVE  Calm
BY DEF Calm, TypeInv, TypeOK

LEMMA TypeKeeps ==
  ASSUME TypeInv, Calm, users' \in Seq(Row), Len(users') = Len(users), jobs' \subseteq Ids,
         resets' \in Seq(ResetType), Len(resets') <= MaxResets,
         spent' \in Seq(Nat), Len(spent') = Len(resets'),
         SweepsCalm,
         audits' \in Seq(Audit), Len(audits') = Len(audits), UNCHANGED wrong
  PROVE  TypeInv' /\ Ids' = Ids
<1>1. Ids' = Ids
  BY DEF Ids
<1>2. \A t \in Threads : Typed(request[t])'
  <2>1. ASSUME NEW t \in Threads
        PROVE  request'[t] \in RequestType /\ (request'[t].op # "idle" => request'[t].id \in Ids)
    BY IdleTyped DEF Calm, TypeInv, Typed
  <2> QED
    BY <1>1, <2>1 DEF Typed
<1>3. TypeOK'
  BY <1>1 DEF TypeInv, TypeOK, Calm, ResetType, SweepsCalm, SweepType
<1>4. \A s \in Sweepers : sweep'[s] # NoSweep => sweep'[s] \in Ids'
  BY <1>1 DEF SweepsCalm
<1> QED
  BY <1>1, <1>2, <1>3, <1>4 DEF TypeInv

LEMMA LockKeeps ==
  ASSUME LockInv, Calm, Ids' = Ids, UNCHANGED wrong,
         \A n \in Ids : Earned(users'[n], wrong[n])
  PROVE  LockInv'
BY DEF LockInv, Calm, Idle

LEMMA AuditKeeps ==
  ASSUME TypeInv, AuditInv, Calm, SweepsCalm, Ids' = Ids,
         \A n \in Ids : /\ users'[n].live = users[n].live
                        /\ audits'[n].records = audits[n].records
  PROVE  AuditInv'
<1>1. ASSUME NEW n \in Ids, ~users[n].live
      PROVE  /\ Erasing(n)' <= Erasing(n) /\ Erasing(n)' \in Nat /\ Erasing(n) \in Nat
             /\ Everybody \in Nat /\ audits[n].records \in Nat
  <2>1. audits[n].records \in Nat
    BY Shape DEF Audit
  <2> QED
    BY <1>1, <2>1, CalmSets, ErasingKeeps
<1>2. Everybody' = Everybody
  BY DEF Everybody
<1> QED
  BY <1>1, <1>2 DEF AuditInv

LEMMA ResetKeeps ==
  ASSUME TypeInv, ResetInv, Calm, DOMAIN resets' = DOMAIN resets,
         \A k \in DOMAIN resets : /\ spent'[k] = spent[k]
                                  /\ resets'[k].state = "valid" => resets[k].state = "valid"
  PROVE  ResetInv'
<1>1. ASSUME NEW k \in DOMAIN resets
      PROVE  /\ Cardinality(Resetting(k)') <= Cardinality(Resetting(k))
             /\ Cardinality(Resetting(k)') \in Nat /\ Cardinality(Resetting(k)) \in Nat
             /\ Cardinality(Threads) \in Nat /\ spent[k] \in Nat
  <2>1. Resetting(k)' \in SUBSET Resetting(k) /\ Resetting(k) \in SUBSET Threads
    BY CalmSets DEF Resetting
  <2>2. spent[k] \in Nat
    BY Shape
  <2> QED
    BY <2>1, <2>2, SomeThreads
<1> QED
  BY <1>1 DEF ResetInv

-----------------------------------------------------------------------------
(* Threads that load                                                       *)

(* A thread starts with what it found; nothing is written.                 *)
LEMMA Load ==
  ASSUME IInv, NEW t \in Threads, NEW r \in RequestType, r.id \in Ids, Then(t, r),
         UNCHANGED <<data, sweep, spent>>,
         wrong' \in Seq(0..MaxWrong), Len(wrong') = Len(wrong),
         \A n \in Ids : wrong'[n] \in Nat /\ wrong'[n] >= wrong[n],
         r.op = "wrong" => r.fails + 1 <= wrong'[r.id],
         r.op \in Reasons => users[r.id].live,
         r.op = "reset" => resets[r.token].state = "valid"
  PROVE  IInv'
<1>0. /\ TypeInv /\ LockInv /\ AuditInv /\ ResetInv
      /\ UNCHANGED <<users, resets, jobs, audits, sweep, spent>> /\ Ids' = Ids
  BY DEF IInv, data, Ids
<1>1. /\ request' \in [Threads -> RequestType] /\ request'[t] = r
      /\ \A s \in Threads : s # t => request'[s] = request[s]
  BY <1>0, OneRequest
<1>2. TypeInv'
  <2>1. \A s \in Threads : Typed(request[s])'
    <3>1. ASSUME NEW s \in Threads
          PROVE  request'[s] \in RequestType /\ (request'[s].op # "idle" => request'[s].id \in Ids)
      BY <1>0, <1>1 DEF TypeInv, Typed
    <3> QED
      BY <1>0, <3>1 DEF Typed
  <2>2. TypeOK'
    BY <1>0, <1>1 DEF TypeInv, TypeOK
  <2> QED
    BY <1>0, <2>1, <2>2 DEF TypeInv
<1>3. LockInv'
  <2>1. ASSUME NEW n \in Ids
        PROVE  Earned(users'[n], wrong'[n])
    <3>1. users[n] \in Row /\ wrong[n] \in Nat /\ Earned(users[n], wrong[n])
      BY <1>0, Shape DEF LockInv
    <3> QED
      BY <1>0, <3>1, AccountsAssumption DEF Earned, Row
  <2>2. ASSUME NEW s \in Threads, request'[s].op = "wrong"
        PROVE  request'[s].fails + 1 <= wrong'[request'[s].id]
    <3>1. CASE s = t
      BY <1>1, <2>2, <3>1
    <3>2. CASE s # t
      <4>1. /\ request'[s] = request[s] /\ request[s].fails \in Nat /\ request[s].id \in Ids
            /\ request[s].fails + 1 <= wrong[request[s].id]
        BY <1>0, <1>1, <2>2, <3>2 DEF LockInv, TypeInv, Typed, RequestType
      <4>2. wrong[request[s].id] \in Nat
        BY <1>0, <4>1, Shape
      <4> QED
        BY <4>1, <4>2
    <3> QED
      BY <3>1, <3>2
  <2> QED
    BY <1>0, <2>1, <2>2 DEF LockInv
<1>4. AuditInv'
  <2>1. ASSUME NEW n \in Ids, ~users[n].live
        PROVE  /\ Erasing(n)' <= Erasing(n) /\ Erasing(n)' \in Nat /\ Erasing(n) \in Nat
               /\ Everybody \in Nat /\ audits[n].records \in Nat
    <3>1. Deleting(n)' \subseteq Deleting(n)
      BY <1>1, <2>1 DEF Deleting
    <3>2. audits[n].records \in Nat
      BY <1>0, Shape DEF Audit
    <3> QED
      BY <1>0, <2>1, <3>1, <3>2, SweepsStay, ErasingKeeps
  <2>2. Everybody' = Everybody
    BY DEF Everybody
  <2> QED
    BY <1>0, <2>1, <2>2 DEF AuditInv
<1>5. ResetInv'
  <2>1. ASSUME NEW k \in DOMAIN resets
        PROVE  spent[k] + Cardinality(Resetting(k)') <= Cardinality(Threads)
    <3>1. /\ Resetting(k)' \in SUBSET Threads /\ Resetting(k) \in SUBSET Threads
          /\ spent[k] \in Nat
      BY <1>0, Shape DEF Resetting
    <3>2. CASE resets[k].state = "valid"
      BY <1>0, <3>1, <3>2, SomeThreads DEF ResetInv
    <3>3. CASE resets[k].state # "valid"
      <4>1. Resetting(k)' \in SUBSET Resetting(k)
        BY <1>1, <3>3 DEF Resetting
      <4> QED
        BY <1>0, <3>1, <4>1, SomeThreads DEF ResetInv
    <3> QED
      BY <3>2, <3>3
  <2> QED
    BY <1>0, <2>1 DEF ResetInv
<1> QED
  BY <1>2, <1>3, <1>4, <1>5 DEF IInv

LEMMA LoadsKeep ==
  ASSUME IInv, NEW t \in Threads, NEW n \in Ids,
         \/ LoginRead(t, n) \/ ChangePassword(t, n) \/ AdminChangePassword(t, n)
         \/ RecoverPassword(t, n) \/ DeleteProfile(t, n) \/ DeleteByAdmin(t, n)
  PROVE  IInv'
<1>0. /\ TypeInv /\ users[n] \in Row /\ wrong \in [Ids -> 0..MaxWrong]
      /\ wrong \in Seq(0..MaxWrong) /\ Ids = 1..Len(wrong)
      /\ DOMAIN resets \subseteq 1..MaxResets /\ n \in 0..MaxUsers
      /\ \A m \in Ids : wrong[m] \in Nat /\ wrong[m] >= wrong[m]
  <2>1. TypeInv /\ MaxResets \in Nat /\ MaxWrong \in Nat
    BY AccountsAssumption DEF IInv
  <2>2. /\ wrong \in Seq(0..MaxWrong) /\ Ids = 1..Len(wrong)
        /\ Len(resets) <= MaxResets
    BY <2>1 DEF TypeInv, TypeOK, Ids
  <2>3. /\ users[n] \in Row /\ wrong \in [Ids -> 0..MaxWrong] /\ n \in 0..MaxUsers
        /\ DOMAIN resets = 1..Len(resets) /\ Len(resets) \in Nat
    BY <2>1, Shape
  <2>4. DOMAIN resets \subseteq 1..MaxResets
    BY <2>1, <2>2, <2>3
  <2> QED
    BY <2>1, <2>2, <2>3, <2>4
<1>1. ASSUME NEW op \in {"login", "change", "admin-change"}, Then(t, Loaded(op, n)),
             UNCHANGED <<data, sweep, wrong, spent>>
      PROVE  IInv'
  <2> DEFINE r == Loaded(op, n)
  <2>1. r \in RequestType /\ r.op = op /\ r.id = n
    BY <1>0, LoadedTyped DEF Operations
  <2> HIDE DEF r
  <2> QED
    BY <1>0, <1>1, <2>1, Load DEF Reasons, r
<1>2. CASE LoginRead(t, n)
  <2>1. CASE wrong[n] < MaxWrong /\ wrong' = [wrong EXCEPT ![n] = @ + 1] /\ Then(t, Loaded("wrong", n))
    <3> DEFINE r == Loaded("wrong", n)
               w == wrong[n] + 1
    <3>1. r \in RequestType /\ r.op = "wrong" /\ r.id = n /\ r.fails = users[n].fails
      BY <1>0, LoadedTyped DEF Operations
    <3>2. w \in 0..MaxWrong /\ wrong' = [wrong EXCEPT ![n] = w]
      BY <1>0, <2>1, AccountsAssumption
    <3>3. wrong' \in Seq(0..MaxWrong) /\ Len(wrong') = Len(wrong)
      BY <1>0, <3>2, ExceptSeq
    <3>4. \A m \in Ids : wrong'[m] \in Nat /\ wrong'[m] >= wrong[m]
      BY <1>0, <3>2
    <3>5. r.fails + 1 <= wrong'[n]
      BY <1>0, <3>1, <3>2 DEF IInv, LockInv, Earned, Row
    <3>6. UNCHANGED <<data, sweep, spent>> /\ Then(t, r)
      BY <1>2, <2>1 DEF LoginRead
    <3> HIDE DEF r
    <3> QED
      BY <3>1, <3>3, <3>4, <3>5, <3>6, Load DEF Reasons
  <2> QED
    BY <1>1, <1>2, <2>1 DEF LoginRead
<1>3. CASE RecoverPassword(t, n)
  <2> DEFINE r == [Idle EXCEPT !.op = "recover", !.id = n,
                               !.seen = {k \in DOMAIN resets : resets[k].id = n /\ Usable(k)}]
  <2>1. r \in RequestType /\ r.op = "recover" /\ r.id = n
    BY <1>0, IdleTyped DEF Idle, RequestType, Operations
  <2>2. Then(t, r) /\ UNCHANGED <<data, sweep, wrong, spent>>
    BY <1>3 DEF RecoverPassword
  <2> HIDE DEF r
  <2> QED
    BY <1>0, <2>1, <2>2, Load DEF Reasons
<1>4. ASSUME NEW reason \in Reasons, DeleteRead(t, n, reason)
      PROVE  IInv'
  <2> DEFINE r == [Idle EXCEPT !.op = reason, !.id = n]
  <2>1. r \in RequestType /\ r.op = reason /\ r.id = n
    BY <1>0, IdleTyped DEF Idle, RequestType, Operations
  <2>2. Then(t, r) /\ UNCHANGED <<data, sweep, wrong, spent>> /\ users[n].live
    BY <1>4 DEF DeleteRead, Live
  <2> HIDE DEF r
  <2> QED
    BY <1>0, <2>1, <2>2, Load DEF Reasons
<1> QED
  BY <1>1, <1>2, <1>3, <1>4
  DEF ChangePassword, AdminChangePassword, DeleteProfile, DeleteByAdmin, Reasons

LEMMA ResetReadKeeps ==
  ASSUME IInv, NEW t \in Threads, NEW k \in DOMAIN resets, ResetRead(t, k)
  PROVE  IInv'
<1> DEFINE n == resets[k].id
           r == [Loaded("reset", n) EXCEPT !.token = k]
<1>0. /\ TypeInv /\ n \in Ids /\ k \in 0..MaxResets /\ resets[k].state = "valid"
      /\ wrong \in Seq(0..MaxWrong) /\ \A m \in Ids : wrong[m] \in Nat /\ wrong[m] >= wrong[m]
  <2>1. TypeInv /\ MaxResets \in Nat /\ MaxWrong \in Nat
    BY AccountsAssumption DEF IInv
  <2>2. resets[k].state = "valid" /\ wrong \in Seq(0..MaxWrong) /\ Len(resets) <= MaxResets
    BY <2>1 DEF TypeInv, ResetRead, Usable
  <2>3. /\ wrong \in [Ids -> 0..MaxWrong] /\ Len(resets) \in Nat /\ k \in 1..Len(resets)
        /\ resets[k] \in ResetType
    BY <2>1, Shape
  <2>4. n \in Ids
    BY <2>3 DEF ResetType
  <2> QED
    BY <2>1, <2>2, <2>3, <2>4
<1>1. /\ Loaded("reset", n) \in RequestType /\ Loaded("reset", n).op = "reset"
      /\ Loaded("reset", n).id = n
  BY <1>0, LoadedTyped DEF Operations
<1>2. r \in RequestType /\ r.op = "reset" /\ r.id = n /\ r.token = k
  BY <1>0, <1>1 DEF RequestType
<1>3. Then(t, r) /\ UNCHANGED <<data, sweep, wrong, spent>>
  BY DEF ResetRead
<1> HIDE DEF n, r
<1> QED
  BY <1>0, <1>2, <1>3, Load DEF Reasons

-----------------------------------------------------------------------------
(* Steps that write one row, or none                                       *)

LEMMA Quiet ==
  ASSUME IInv, Calm, UNCHANGED <<users, resets, audits, wrong, spent>>,
         jobs' \subseteq Ids, SweepsCalm
  PROVE  IInv'
<1>0. TypeInv /\ LockInv /\ AuditInv /\ ResetInv
  BY DEF IInv
<1>1. TypeInv' /\ Ids' = Ids
  <2>1. /\ users' \in Seq(Row) /\ resets' \in Seq(ResetType) /\ spent' \in Seq(Nat)
        /\ audits' \in Seq(Audit) /\ Len(resets') <= MaxResets /\ Len(spent') = Len(resets')
    BY <1>0 DEF TypeInv, TypeOK, ResetType
  <2> QED
    BY <1>0, <2>1, TypeKeeps
<1>2. LockInv'
  BY <1>0, <1>1, LockKeeps DEF LockInv
<1>3. AuditInv'
  BY <1>0, <1>1, AuditKeeps
<1>4. ResetInv'
  BY <1>0, ResetKeeps
<1> QED
  BY <1>1, <1>2, <1>3, <1>4 DEF IInv

(* A row that is written stays, and its lock stays earned.                 *)
LEMMA OneRowKeeps ==
  ASSUME IInv, Calm, NEW n \in Ids, NEW v \in Row, users' = [users EXCEPT ![n] = v],
         v.live = users[n].live, Earned(v, wrong[n]), UNCHANGED <<audits, sweep, wrong>>
  PROVE  /\ users' \in Seq(Row) /\ Len(users') = Len(users) /\ Ids' = Ids
         /\ LockInv' /\ AuditInv'
<1>0. TypeInv /\ LockInv /\ AuditInv
  BY DEF IInv
<1>1. /\ users' \in Seq(Row) /\ Len(users') = Len(users) /\ Ids' = Ids
      /\ users'[n] = v /\ \A m \in Ids : m # n => users'[m] = users[m]
  BY <1>0, OneRow
<1>2. LockInv'
  <2>1. \A m \in Ids : Earned(users'[m], wrong[m])
    BY <1>0, <1>1 DEF LockInv
  <2> QED
    BY <1>0, <1>1, <2>1, LockKeeps
<1>3. AuditInv'
  <2>1. \A m \in Ids : users'[m].live = users[m].live
    BY <1>1
  <2> QED
    BY <1>0, <1>1, <2>1, SweepsStay, AuditKeeps
<1> QED
  BY <1>1, <1>2, <1>3

LEMMA RowWrite ==
  ASSUME IInv, Calm, NEW n \in Ids, NEW v \in Row, users' = [users EXCEPT ![n] = v],
         v.live = users[n].live, Earned(v, wrong[n]),
         UNCHANGED <<resets, jobs, audits, sweep, wrong, spent>>
  PROVE  IInv'
<1>0. TypeInv /\ ResetInv
  BY DEF IInv
<1>1. /\ users' \in Seq(Row) /\ Len(users') = Len(users) /\ Ids' = Ids
      /\ LockInv' /\ AuditInv'
  BY OneRowKeeps
<1>2. TypeInv'
  <2>1. /\ resets' \in Seq(ResetType) /\ spent' \in Seq(Nat)
        /\ audits' \in Seq(Audit) /\ Len(resets') <= MaxResets /\ Len(spent') = Len(resets')
        /\ jobs' \subseteq Ids /\ SweepsCalm
    BY <1>0, SweepsStay DEF TypeInv, TypeOK, ResetType
  <2> QED
    BY <1>0, <1>1, <2>1, TypeKeeps
<1>3. ResetInv'
  BY <1>0, ResetKeeps
<1> QED
  BY <1>1, <1>2, <1>3 DEF IInv

(* The columns of the lockout as a thread writes them: a count and a lock  *)
(* that were earned.                                                       *)
LEMMA ColumnsEarned ==
  ASSUME IInv, NEW t \in Threads, request[t].op # "idle",
         NEW fails \in 0..MaxWrong, NEW lock \in Locks,
         fails <= wrong[request[t].id],
         lock \in {"none", request[t].lock}
           \/ (wrong[request[t].id] >= TempLockAt
               /\ (lock = "perm" => wrong[request[t].id] >= PermLockAt))
  PROVE  LET n == request[t].id
             v == WithColumns(users[n], request[t], fails, lock)
         IN  /\ n \in Ids /\ v \in Row /\ v.live = users[n].live /\ Earned(v, wrong[n])
             /\ WithFails(t, fails, lock) = [users EXCEPT ![n] = v]
<1> DEFINE r == request[t]
           n == r.id
           v == WithColumns(users[n], r, fails, lock)
<1>0. TypeInv /\ r \in RequestType /\ n \in Ids
  BY DEF IInv, TypeInv, Typed
<1>1. users[n] \in Row /\ Earned(users[n], wrong[n])
  BY <1>0, Shape DEF IInv, LockInv
<1>2. /\ v \in Row /\ v.live = users[n].live
      /\ v.fails = users[n].fails \/ v.fails = fails
      /\ v.lock = users[n].lock \/ (v.lock = lock /\ lock # r.lock)
  BY <1>0, <1>1, Columns
<1>3. WithFails(t, fails, lock) = [users EXCEPT ![n] = v]
  BY <1>0, WithFailsRow
<1>4. Earned(v, wrong[n])
  BY <1>1, <1>2 DEF Earned
<1> QED
  BY <1>0, <1>2, <1>3, <1>4

LEMMA LoginsKeep ==
  ASSUME IInv, NEW t \in Threads,
         \/ RecordFailedLogin(t) \/ RecordLogin(t) \/ PasswordCommit(t)
         \/ AdminPasswordCommit(t) \/ RequestDies(t)
  PROVE  IInv'
<1> DEFINE r == request[t]
           n == r.id
<1>0. /\ TypeInv /\ r \in RequestType /\ Then(t, Idle) /\ Calm
      /\ RequestDies(t) \/ r.op # "idle"
      /\ UNCHANGED <<resets, jobs, audits, sweep, wrong, spent>>
  <2>1. RequestDies(t) \/ r.op # "idle"
    BY DEF RecordFailedLogin, RecordLogin, PasswordCommit,
           AdminPasswordCommit
  <2>2. TypeInv /\ r \in RequestType /\ Then(t, Idle)
        /\ UNCHANGED <<resets, jobs, audits, sweep, wrong, spent>>
    BY DEF IInv, TypeInv, Typed, RecordFailedLogin, RecordLogin, PasswordCommit,
           AdminPasswordCommit, NewPassword, RequestDies, data
  <2> QED
    BY <2>1, <2>2, CalmThen
<1>1. CASE UNCHANGED users
  <2>1. jobs' \subseteq Ids /\ SweepsCalm
    BY <1>0, SweepsStay DEF TypeInv, TypeOK
  <2> QED
    BY <1>0, <1>1, <2>1, Quiet
<1>2. CASE RecordFailedLogin(t) /\ Live(n)
  <2> DEFINE c == r.fails + 1
             l == LockAfter(c, r.lock)
  <2>1. users' = WithFails(t, c, l)
    BY <1>2 DEF RecordFailedLogin
  <2>2. r.op = "wrong" /\ c <= wrong[n] /\ n \in Ids
    BY <1>0, <1>2 DEF RecordFailedLogin, IInv, LockInv, Live
  <2>3. c \in 0..MaxWrong /\ wrong[n] \in Nat
    BY <1>0, <2>2, Shape, AccountsAssumption DEF RequestType
  <2>4. /\ l \in Locks
        /\ l \in {"none", r.lock} \/ (wrong[n] >= TempLockAt /\ (l = "perm" => wrong[n] >= PermLockAt))
    BY <1>0, <2>2, <2>3, AccountsAssumption DEF LockAfter, Locks, RequestType
  <2> HIDE DEF c, l
  <2>5. LET v == WithColumns(users[n], r, c, l) IN
        /\ n \in Ids /\ v \in Row /\ v.live = users[n].live /\ Earned(v, wrong[n])
        /\ users' = [users EXCEPT ![n] = v]
    BY <1>0, <2>1, <2>2, <2>3, <2>4, ColumnsEarned
  <2> QED
    BY <1>0, <2>5, RowWrite
<1>3. ASSUME Live(n), r.op # "idle"
      PROVE  LET v == WithColumns(users[n], r, 0, "none") IN
             /\ n \in Ids /\ v \in Row /\ v.live = users[n].live /\ Earned(v, wrong[n])
             /\ Cleared(t) = [users EXCEPT ![n] = v]
  <2>1. 0 \in 0..MaxWrong /\ 0 <= wrong[n] /\ "none" \in Locks
    BY <1>0, <1>3, Shape, AccountsAssumption DEF Live, Locks
  <2> QED
    BY <1>0, <1>3, <2>1, ColumnsEarned DEF Cleared
<1>4. CASE Live(n) /\ r.op # "idle" /\ users' = Cleared(t)
  BY <1>0, <1>3, <1>4, RowWrite
<1>5. CASE Live(n) /\ r.op # "idle" /\ users' = [Cleared(t) EXCEPT ![n].seen = TRUE, ![n].age = 0]
  <2> DEFINE v == WithColumns(users[n], r, 0, "none")
             w == [v EXCEPT !.seen = TRUE, !.age = 0]
  <2>1. /\ n \in Ids /\ v \in Row /\ v.live = users[n].live /\ Earned(v, wrong[n])
        /\ Cleared(t) = [users EXCEPT ![n] = v] /\ users \in [Ids -> Row]
    BY <1>0, <1>3, <1>5, Shape
  <2> HIDE DEF v
  <2>2. w \in Row /\ w.live = users[n].live /\ Earned(w, wrong[n])
    <3> DEFINE seen == [v EXCEPT !.seen = TRUE]
    <3>1. /\ seen \in Row /\ seen.live = v.live /\ seen.fails = v.fails /\ seen.lock = v.lock
          /\ w = [seen EXCEPT !.age = 0]
      BY <2>1 DEF Row
    <3> HIDE DEF seen, w
    <3>2. w \in Row /\ w.live = seen.live /\ w.fails = seen.fails /\ w.lock = seen.lock
      BY <3>1 DEF Row
    <3> QED
      BY <2>1, <3>1, <3>2 DEF Earned
  <2>3. users' = [users EXCEPT ![n] = w]
    BY <1>5, <2>1
  <2> HIDE DEF w
  <2> QED
    BY <1>0, <2>1, <2>2, <2>3, RowWrite
<1> QED
  BY <1>1, <1>2, <1>4, <1>5
  DEF RecordFailedLogin, RecordLogin, PasswordCommit, AdminPasswordCommit, NewPassword,
      RequestDies, data

LEMMA RowsKeep ==
  ASSUME IInv, NEW n \in Ids,
         \/ UpdateUser(n) \/ Referred(n) \/ StartExecution(n) \/ ExecutionEnds(n)
         \/ LockRunsOut(n) \/ GetsOlder(n)
  PROVE  IInv'
<1>0. /\ TypeInv /\ users[n] \in Row /\ Earned(users[n], wrong[n]) /\ users \in [Ids -> Row]
      /\ jobs \subseteq Ids
  BY Shape DEF IInv, LockInv, TypeInv, TypeOK
<1>1. Calm /\ UNCHANGED <<resets, audits, wrong, spent>>
  BY <1>0, CalmStays
  DEF UpdateUser, Referred, StartExecution, ExecutionEnds, LockRunsOut, GetsOlder
<1>2. CASE UpdateUser(n) \/ Referred(n) \/ LockRunsOut(n) \/ GetsOlder(n)
  <2>1. PICK v \in Row :
          /\ users' = [users EXCEPT ![n] = v] /\ v.live = users[n].live
          /\ v.fails = users[n].fails /\ v.lock \in {users[n].lock, "past"}
          /\ users[n].lock = "none" => v.lock = "none"
    <3>1. CASE UpdateUser(n)
      <4>1. PICK role \in Roles : users' = [users EXCEPT ![n].role = role]
        BY <3>1 DEF UpdateUser
      <4> DEFINE v == [users[n] EXCEPT !.role = role]
      <4>2. users' = [users EXCEPT ![n] = v] /\ v \in Row
        BY <1>0, <4>1 DEF Row
      <4>3. v.live = users[n].live /\ v.fails = users[n].fails /\ v.lock = users[n].lock
        BY <1>0 DEF Row
      <4> QED
        BY <4>2, <4>3
    <3>2. CASE Referred(n)
      <4> DEFINE v == [users[n] EXCEPT !.held = TRUE]
      <4>1. users' = [users EXCEPT ![n] = v] /\ v \in Row
        BY <1>0, <3>2 DEF Referred, Row
      <4>2. v.live = users[n].live /\ v.fails = users[n].fails /\ v.lock = users[n].lock
        BY <1>0 DEF Row
      <4> QED
        BY <4>1, <4>2
    <3>3. CASE LockRunsOut(n)
      <4> DEFINE v == [users[n] EXCEPT !.lock = "past"]
      <4>1. users' = [users EXCEPT ![n] = v] /\ v \in Row /\ users[n].lock = "temp"
        BY <1>0, <3>3 DEF LockRunsOut, Row, Locks
      <4>2. v.live = users[n].live /\ v.fails = users[n].fails /\ v.lock = "past"
        BY <1>0 DEF Row
      <4> QED
        BY <4>1, <4>2
    <3>4. CASE GetsOlder(n)
      <4> DEFINE v == [users[n] EXCEPT !.age = @ + 1]
      <4>1. users' = [users EXCEPT ![n] = v] /\ v \in Row
        BY <1>0, <3>4 DEF GetsOlder, Row
      <4>2. v.live = users[n].live /\ v.fails = users[n].fails /\ v.lock = users[n].lock
        BY <1>0 DEF Row
      <4> QED
        BY <4>1, <4>2
    <3> QED
      BY <1>2, <3>1, <3>2, <3>3, <3>4
  <2>2. Earned(v, wrong[n])
    BY <1>0, <2>1 DEF Earned
  <2>3. UNCHANGED <<jobs, sweep>>
    BY <1>2 DEF UpdateUser, Referred, LockRunsOut, GetsOlder
  <2> QED
    BY <1>1, <2>1, <2>2, <2>3, RowWrite
<1>3. CASE StartExecution(n) \/ ExecutionEnds(n)
  <2>1. jobs' \subseteq Ids /\ users' = users /\ SweepsCalm
    BY <1>0, <1>3, SweepsStay DEF StartExecution, ExecutionEnds
  <2> QED
    BY <1>0, <1>1, <2>1, Quiet
<1> QED
  BY <1>2, <1>3

(* A run that is through with its row.                                     *)
LEMMA SweepFreed ==
  ASSUME TypeInv, NEW s \in Sweepers, sweep' = [sweep EXCEPT ![s] = NoSweep]
  PROVE  SweepsCalm /\ sweep'[s] = NoSweep
BY AccountsAssumption DEF SweepsCalm, SweepType, TypeInv, TypeOK, NoSweep

LEMMA SweepsKeep ==
  ASSUME IInv, NEW s \in Sweepers,
         SweepEnds(s) \/ \E n \in Ids : SweepUnverified(s, n) \/ SweepNeverLoggedIn(s, n)
  PROVE  IInv'
<1>0. /\ TypeInv /\ jobs \subseteq Ids /\ sweep \in SweepType
      /\ \A i \in Sweepers : sweep[i] # NoSweep => sweep[i] \in Ids
  BY DEF IInv, TypeInv, TypeOK, SweepType
<1>1. Calm /\ UNCHANGED <<users, resets, jobs, audits, wrong, spent>>
  <2>1. UNCHANGED <<data, request, wrong, spent>>
    BY DEF SweepEnds, SweepUnverified, SweepNeverLoggedIn, Select
  <2> QED
    BY <1>0, <2>1, CalmStays DEF data
<1>2. CASE SweepEnds(s)
  BY <1>0, <1>1, <1>2, SweepFreed, Quiet DEF SweepEnds
<1>3. CASE \E n \in Ids : SweepUnverified(s, n) \/ SweepNeverLoggedIn(s, n)
  <2>1. PICK n \in Ids : users[n].live /\ sweep' = [sweep EXCEPT ![s] = n]
    BY <1>3 DEF SweepUnverified, SweepNeverLoggedIn, Select, Live
  <2>2. n \in 0..MaxUsers
    BY <1>0, Shape
  <2>3. SweepsCalm
    BY <1>0, <2>1, <2>2 DEF SweepsCalm, SweepType
  <2> QED
    BY <1>0, <1>1, <2>3, Quiet
<1> QED
  BY <1>2, <1>3

-----------------------------------------------------------------------------
(* Reset tokens                                                            *)

LEMMA MapOfSeq ==
  ASSUME NEW S, NEW n \in Nat, NEW f \in [1..n -> S]
  PROVE  f \in Seq(S) /\ Len(f) = n
<1>1. f \in Seq(S)
  BY SeqDef
<1> QED
  BY <1>1, LenProperties

(* Steps that write tokens and nothing else.                               *)
LEMMA TokensWrite ==
  ASSUME IInv, Calm, UNCHANGED <<users, jobs, audits, sweep, wrong>>,
         resets' \in Seq(ResetType), Len(resets') <= MaxResets,
         spent' \in Seq(Nat), Len(spent') = Len(resets'), ResetInv'
  PROVE  IInv'
<1>0. TypeInv /\ LockInv /\ AuditInv
  BY DEF IInv
<1>1. TypeInv' /\ Ids' = Ids
  <2>1. /\ users' \in Seq(Row) /\ audits' \in Seq(Audit) /\ jobs' \subseteq Ids
    BY <1>0 DEF TypeInv, TypeOK
  <2> QED
    BY <1>0, <2>1, SweepsStay, TypeKeeps
<1>2. LockInv'
  BY <1>0, <1>1, LockKeeps DEF LockInv
<1>3. AuditInv'
  BY <1>0, <1>1, SweepsStay, AuditKeeps
<1> QED
  BY <1>1, <1>2, <1>3 DEF IInv

(* One token changes its state.                                            *)
LEMMA OneToken ==
  ASSUME TypeInv, NEW k \in DOMAIN resets, NEW s \in {"used", "expired", "gone"},
         resets' = [resets EXCEPT ![k].state = s]
  PROVE  /\ resets' \in Seq(ResetType) /\ Len(resets') = Len(resets)
         /\ DOMAIN resets' = DOMAIN resets
         /\ \A j \in DOMAIN resets : resets'[j].state \in {resets[j].state, s}
         /\ resets'[k].state = s
<1> DEFINE v == [resets[k] EXCEPT !.state = s]
<1>1. resets[k] \in ResetType /\ resets \in Seq(ResetType) /\ k \in 1..Len(resets)
  BY Shape DEF TypeInv, TypeOK, ResetType
<1>2. v \in ResetType /\ v.state = s
  BY <1>1 DEF ResetType
<1>3. resets' = [resets EXCEPT ![k] = v]
  OBVIOUS
<1> HIDE DEF v
<1>4. /\ resets' \in Seq(ResetType) /\ Len(resets') = Len(resets)
      /\ \A j \in 1..Len(resets) : resets'[j] = IF j = k THEN v ELSE resets[j]
  BY <1>1, <1>2, <1>3, ExceptSeq
<1>5. DOMAIN resets' = 1..Len(resets) /\ DOMAIN resets = 1..Len(resets)
  BY <1>1, <1>4, LenProperties
<1> QED
  BY <1>1, <1>2, <1>4, <1>5

LEMMA TokenExpiresKeeps ==
  ASSUME IInv, NEW k \in DOMAIN resets, TokenExpires(k)
  PROVE  IInv'
<1>0. TypeInv /\ ResetInv /\ Len(resets) <= MaxResets /\ spent \in Seq(Nat)
      /\ Len(spent) = Len(resets)
  BY DEF IInv, TypeInv, TypeOK
<1>1. Calm /\ UNCHANGED <<users, jobs, audits, sweep, wrong, spent>>
      /\ resets' = [resets EXCEPT ![k].state = "expired"]
  BY <1>0, CalmStays DEF TokenExpires
<1>2. /\ resets' \in Seq(ResetType) /\ Len(resets') = Len(resets)
      /\ DOMAIN resets' = DOMAIN resets
      /\ \A j \in DOMAIN resets : resets'[j].state \in {resets[j].state, "expired"}
  BY <1>0, <1>1, OneToken
<1>3. ResetInv'
  BY <1>0, <1>1, <1>2, ResetKeeps
<1> QED
  BY <1>0, <1>1, <1>2, <1>3, TokensWrite

LEMMA RecoverKeeps ==
  ASSUME IInv, NEW t \in Threads, RecoverCommit(t)
  PROVE  IInv'
<1> DEFINE r == request[t]
           n == r.id
           marked == [k \in DOMAIN resets |-> IF k \in r.seen
                        THEN [resets[k] EXCEPT !.state = "used"] ELSE resets[k]]
           new == [id |-> n, state |-> "valid"]
<1>0. /\ TypeInv /\ ResetInv /\ Then(t, Idle) /\ Calm /\ n \in Ids
      /\ UNCHANGED <<users, jobs, audits, sweep, wrong>>
  <2>1. TypeInv /\ ResetInv /\ Then(t, Idle) /\ r.op = "recover"
        /\ UNCHANGED <<users, jobs, audits, sweep, wrong>>
    BY DEF IInv, RecoverCommit
  <2> QED
    BY <2>1, CalmThen DEF TypeInv, Typed
<1>1. CASE ~Live(n)
  <2>1. UNCHANGED <<resets, spent>>
    BY <1>1 DEF RecoverCommit
  <2>2. jobs' \subseteq Ids /\ SweepsCalm
    BY <1>0, SweepsStay DEF TypeInv, TypeOK
  <2> QED
    BY <1>0, <2>1, <2>2, Quiet
<1>2. CASE Live(n)
  <2>1. /\ resets' = Append(marked, new) /\ spent' = Append(spent, 0)
        /\ Len(resets) < MaxResets
    BY <1>2 DEF RecoverCommit
  <2>2. /\ resets \in [1..Len(resets) -> ResetType] /\ DOMAIN resets = 1..Len(resets)
        /\ Len(resets) \in Nat /\ spent \in Seq(Nat) /\ Len(spent) = Len(resets)
    BY <1>0, Shape DEF TypeInv, TypeOK
  <2>3. /\ marked \in [1..Len(resets) -> ResetType]
        /\ \A k \in 1..Len(resets) : marked[k].state \in {resets[k].state, "used"}
    BY <2>2 DEF ResetType
  <2> HIDE DEF marked
  <2>4. marked \in Seq(ResetType) /\ Len(marked) = Len(resets)
    BY <2>2, <2>3, MapOfSeq
  <2>5. new \in ResetType
    BY <1>0 DEF ResetType
  <2> HIDE DEF new
  <2>6. /\ resets' \in Seq(ResetType) /\ Len(resets') = Len(resets) + 1
        /\ \A k \in 1..Len(resets) : resets'[k] = marked[k]
    BY <2>1, <2>4, <2>5, AppendProperties
  <2>7. /\ spent' \in Seq(Nat) /\ Len(spent') = Len(resets) + 1
        /\ \A k \in 1..Len(resets) : spent'[k] = spent[k]
        /\ spent'[Len(resets) + 1] = 0
    BY <2>1, <2>2, AppendProperties
  <2>8. DOMAIN resets' = 1..(Len(resets) + 1)
    BY <2>6, LenProperties
  <2>9. ASSUME NEW k \in DOMAIN resets'
        PROVE  /\ spent'[k] + Cardinality(Resetting(k)') <= Cardinality(Threads)
               /\ resets'[k].state = "valid" => spent'[k] = 0
    <3>0. Resetting(k)' \in SUBSET Resetting(k) /\ Resetting(k) \in SUBSET Threads
      BY <1>0, CalmSets DEF Resetting
    <3>1. CASE k \in 1..Len(resets)
      <4>1. /\ spent'[k] = spent[k] /\ spent[k] \in Nat
            /\ resets'[k].state = "valid" => resets[k].state = "valid"
        BY <1>0, <2>3, <2>6, <2>7, <3>1, Shape
      <4>2. /\ spent[k] + Cardinality(Resetting(k)) <= Cardinality(Threads)
            /\ resets[k].state = "valid" => spent[k] = 0
        BY <1>0, <2>2, <3>1 DEF ResetInv
      <4>3. Cardinality(Resetting(k)') <= Cardinality(Resetting(k))
            /\ Cardinality(Resetting(k)') \in Nat /\ Cardinality(Resetting(k)) \in Nat
            /\ Cardinality(Threads) \in Nat
        BY <3>0, SomeThreads
      <4> QED
        BY <4>1, <4>2, <4>3
    <3>2. CASE k = Len(resets) + 1
      <4>1. Resetting(k)' \in SUBSET Threads
        BY <3>0
      <4>2. Cardinality(Resetting(k)') <= Cardinality(Threads)
            /\ Cardinality(Resetting(k)') \in Nat
        BY <4>1, SomeThreads
      <4> QED
        BY <2>7, <3>2, <4>2
    <3> QED
      BY <2>2, <2>8, <3>1, <3>2
  <2>10. ResetInv'
    BY <2>9 DEF ResetInv
  <2>11. Len(resets') <= MaxResets /\ Len(spent') = Len(resets')
    BY <2>1, <2>2, <2>6, <2>7, AccountsAssumption
  <2> QED
    BY <1>0, <2>6, <2>7, <2>10, <2>11, TokensWrite
<1> QED
  BY <1>1, <1>2

LEMMA ResetCommitKeeps ==
  ASSUME IInv, NEW t \in Threads, ResetCommit(t)
  PROVE  IInv'
<1>0. TypeInv /\ ResetInv /\ Then(t, Idle) /\ UNCHANGED <<jobs, audits, sweep, wrong>>
      /\ request[t].op = "reset"
  BY DEF IInv, ResetCommit
<1>1. PICK n \in Ids, k \in 0..MaxResets :
        n = request[t].id /\ k = request[t].token
  BY <1>0 DEF TypeInv, Typed, RequestType
<1>2. Calm /\ request'[t] = Idle
  BY <1>0, CalmThen, OneRequest, IdleTyped
<1>3. CASE ~Live(n)
  <2>1. UNCHANGED <<users, resets, spent>>
    BY <1>1, <1>3 DEF ResetCommit
  <2>2. jobs' \subseteq Ids /\ SweepsCalm
    BY <1>0, SweepsStay DEF TypeInv, TypeOK
  <2> QED
    BY <1>0, <1>2, <2>1, <2>2, Quiet
<1>4. CASE Live(n)
  <2>1. /\ users' = [Cleared(t) EXCEPT ![n].verified = TRUE]
        /\ resets' = [resets EXCEPT ![k].state = "used"]
        /\ spent' = [spent EXCEPT ![k] = @ + 1]
    BY <1>1, <1>4 DEF ResetCommit
  <2> DEFINE v == WithColumns(users[n], request[t], 0, "none")
             w == [v EXCEPT !.verified = TRUE]
  <2>2. 0 \in 0..MaxWrong /\ 0 <= wrong[n] /\ "none" \in Locks
    BY <1>0, Shape, AccountsAssumption DEF Locks
  <2>3. /\ v \in Row /\ v.live = users[n].live /\ Earned(v, wrong[n])
        /\ Cleared(t) = [users EXCEPT ![n] = v] /\ users \in [Ids -> Row]
    <3>1. LET i == request[t].id
              c == WithColumns(users[i], request[t], 0, "none")
          IN  /\ c \in Row /\ c.live = users[i].live /\ Earned(c, wrong[i])
              /\ Cleared(t) = [users EXCEPT ![i] = c]
      BY <1>0, <1>1, <2>2, ColumnsEarned DEF Cleared
    <3> QED
      BY <1>0, <1>1, <3>1, Shape
  <2> HIDE DEF v
  <2>4. w \in Row /\ w.live = users[n].live /\ Earned(w, wrong[n])
    BY <2>3 DEF Row, Earned
  <2>5. users' = [users EXCEPT ![n] = w]
    BY <2>1, <2>3
  <2> HIDE DEF w
  <2>6. /\ users' \in Seq(Row) /\ Len(users') = Len(users) /\ Ids' = Ids
        /\ LockInv' /\ AuditInv'
    BY <1>0, <1>2, <2>4, <2>5, OneRowKeeps
  <2>7. /\ resets \in Seq(ResetType) /\ DOMAIN resets = 1..Len(resets)
        /\ spent \in Seq(Nat) /\ Len(spent) = Len(resets) /\ Len(resets) <= MaxResets
        /\ spent \in [1..Len(resets) -> Nat]
    BY <1>0, Shape DEF TypeInv, TypeOK, ResetType
  <2>8. /\ resets' \in Seq(ResetType) /\ Len(resets') = Len(resets)
        /\ spent' \in Seq(Nat) /\ Len(spent') = Len(resets) /\ ResetInv'
    <3>1. CASE k \notin 1..Len(resets)
      <4>1. resets' = resets /\ spent' = spent
        BY <2>1, <2>7, <3>1
      <4> QED
        BY <1>0, <1>2, <2>7, <4>1, ResetKeeps
    <3>2. CASE k \in 1..Len(resets)
      <4>1. /\ resets' \in Seq(ResetType) /\ Len(resets') = Len(resets)
            /\ DOMAIN resets' = DOMAIN resets /\ resets'[k].state = "used"
            /\ \A j \in DOMAIN resets : resets'[j].state \in {resets[j].state, "used"}
        BY <1>0, <2>1, <2>7, <3>2, OneToken
      <4> DEFINE m == spent[k] + 1
      <4>2. m \in Nat /\ spent' = [spent EXCEPT ![k] = m]
        BY <2>1, <2>7, <3>2
      <4>3. /\ spent' \in Seq(Nat) /\ Len(spent') = Len(resets) /\ spent'[k] = m
            /\ \A j \in 1..Len(resets) : j # k => spent'[j] = spent[j]
        <5> HIDE DEF m
        <5> QED
          BY <2>7, <3>2, <4>2, ExceptSeq
      <4>4. ASSUME NEW j \in DOMAIN resets
            PROVE  /\ spent'[j] + Cardinality(Resetting(j)') <= Cardinality(Threads)
                   /\ resets'[j].state = "valid" => spent'[j] = 0
        <5>1. /\ Resetting(j)' \in SUBSET Resetting(j) /\ Resetting(j) \in SUBSET Threads
              /\ spent[j] \in Nat
          BY <1>2, <2>7, CalmSets DEF Resetting
        <5>2. /\ spent[j] + Cardinality(Resetting(j)) <= Cardinality(Threads)
              /\ resets[j].state = "valid" => spent[j] = 0
          BY <1>0 DEF ResetInv
        <5>3. CASE j = k
          <6>1. t \in Resetting(j) /\ Resetting(j)' \in SUBSET (Resetting(j) \ {t})
            BY <1>0, <1>1, <1>2, <5>1, <5>3, IdleTyped DEF Resetting
          <6>2. /\ Cardinality(Resetting(j) \ {t}) = Cardinality(Resetting(j)) - 1
                /\ Resetting(j) \ {t} \in SUBSET Threads
                /\ Cardinality(Resetting(j)) \in Nat /\ Cardinality(Threads) \in Nat
            BY <5>1, <6>1, SomeThreads
          <6>3. Cardinality(Resetting(j)') \in Nat
                /\ Cardinality(Resetting(j)') <= Cardinality(Resetting(j)) - 1
            BY <6>1, <6>2, SomeThreads
          <6>4. spent'[j] = spent[j] + 1 /\ resets'[j].state # "valid"
            BY <4>1, <4>3, <5>3
          <6>5. spent'[j] + Cardinality(Resetting(j)') <= Cardinality(Threads)
            BY <5>1, <5>2, <6>2, <6>3, <6>4
          <6> QED
            BY <6>4, <6>5
        <5>4. CASE j # k
          <6>1. /\ Cardinality(Resetting(j)') \in Nat /\ Cardinality(Resetting(j)) \in Nat
                /\ Cardinality(Resetting(j)') <= Cardinality(Resetting(j))
                /\ Cardinality(Threads) \in Nat
            BY <5>1, SomeThreads
          <6>2. spent'[j] = spent[j] /\ (resets'[j].state = "valid" => resets[j].state = "valid")
            BY <2>7, <4>1, <4>3, <5>4
          <6> QED
            BY <5>1, <5>2, <6>1, <6>2
        <5> QED
          BY <5>3, <5>4
      <4> QED
        BY <4>1, <4>3, <4>4 DEF ResetInv
    <3> QED
      BY <3>1, <3>2
  <2>9. TypeInv'
    <3>1. audits' \in Seq(Audit) /\ jobs' \subseteq Ids /\ SweepsCalm
      BY <1>0, SweepsStay DEF TypeInv, TypeOK
    <3> QED
      BY <1>0, <1>2, <2>6, <2>7, <2>8, <3>1, TypeKeeps
  <2> QED
    BY <2>6, <2>8, <2>9 DEF IInv
<1> QED
  BY <1>3, <1>4

-----------------------------------------------------------------------------
(* Deletion                                                                *)

LEMMA HashesKeep ==
  ASSUME IInv, NEW n \in Ids, CleanupHashes(n)
  PROVE  IInv'
<1> DEFINE v == [audits[n] EXCEPT !.hashes = 0, !.expiring = FALSE]
<1>0. /\ TypeInv /\ LockInv /\ AuditInv /\ ResetInv /\ Calm
      /\ UNCHANGED <<users, resets, jobs, request, sweep, wrong, spent>>
  BY CalmStays DEF IInv, CleanupHashes
<1>1. /\ audits \in Seq(Audit) /\ n \in 1..Len(audits) /\ audits[n] \in Audit
      /\ audits \in [Ids -> Audit] /\ Ids = 1..Len(audits)
  BY <1>0, Shape DEF TypeInv, TypeOK, Ids
<1>2. v \in Audit /\ v.records = audits[n].records /\ audits' = [audits EXCEPT ![n] = v]
  BY <1>1 DEF CleanupHashes, Audit
<1> HIDE DEF v
<1>3. /\ audits' \in Seq(Audit) /\ Len(audits') = Len(audits)
      /\ \A m \in Ids : audits'[m].records = audits[m].records
  BY <1>1, <1>2, ExceptSeq
<1>4. TypeInv' /\ Ids' = Ids
  <2>1. /\ users' \in Seq(Row) /\ resets' \in Seq(ResetType) /\ spent' \in Seq(Nat)
        /\ Len(resets') <= MaxResets /\ Len(spent') = Len(resets')
        /\ jobs' \subseteq Ids /\ SweepsCalm
    BY <1>0, SweepsStay DEF TypeInv, TypeOK, ResetType
  <2> QED
    BY <1>0, <1>3, <2>1, TypeKeeps
<1>5. LockInv'
  BY <1>0, <1>4, LockKeeps DEF LockInv
<1>6. AuditInv'
  BY <1>0, <1>3, <1>4, SweepsStay, AuditKeeps
<1>7. ResetInv'
  BY <1>0, ResetKeeps
<1> QED
  BY <1>4, <1>5, <1>6, <1>7 DEF IInv

LEMMA NewRow ==
  ASSUME NEW role \in Roles
  PROVE  New(role) \in Row
BY AccountsAssumption DEF New, Row, Locks

(* A record is written by a thread or a run that had found the row.        *)
LEMMA EraseKeeps ==
  ASSUME IInv, Calm, NEW n \in Ids, NEW reason, Erase(n, reason),
         UNCHANGED <<wrong, spent>>, SweepsCalm, Leaves(n)
  PROVE  IInv'
<1> DEFINE u == [New(users[n].role) EXCEPT !.live = FALSE]
           v == [audits[n] EXCEPT !.records = @ + 1, !.hashes = @ + 1,
                                  !.expiring = @ \/ reason = "user_request"]
<1>0. TypeInv /\ LockInv /\ AuditInv /\ ResetInv
  BY DEF IInv
<1>1. /\ users[n] \in Row /\ users \in [Ids -> Row] /\ Earned(users[n], wrong[n])
      /\ audits \in Seq(Audit) /\ audits[n] \in Audit
      /\ audits \in [Ids -> Audit] /\ Ids = 1..Len(audits)
      /\ resets \in [1..Len(resets) -> ResetType] /\ DOMAIN resets = 1..Len(resets)
      /\ Len(resets) \in Nat /\ spent \in Seq(Nat) /\ Len(spent) = Len(resets)
      /\ Len(resets) <= MaxResets /\ jobs \subseteq Ids
  BY <1>0, Shape DEF TypeInv, TypeOK, Ids, LockInv
<1>2. /\ u \in Row /\ u.live = FALSE /\ Earned(u, wrong[n])
      /\ users' = [users EXCEPT ![n] = u]
  <2>1. New(users[n].role) \in Row
    BY <1>1, NewRow DEF Row
  <2>2. u \in Row /\ u.live = FALSE /\ u.fails = 0 /\ u.lock = "none"
    BY <2>1 DEF New, Row
  <2>3. users' = [users EXCEPT ![n] = u]
    BY <1>1 DEF Erase
  <2>4. wrong[n] \in Nat
    BY <1>0, Shape
  <2> QED
    BY <2>2, <2>3, <2>4 DEF Earned
<1>3. v \in Audit /\ v.records = audits[n].records + 1 /\ audits' = [audits EXCEPT ![n] = v]
  BY <1>1 DEF Erase, WithRecord, Audit
<1> HIDE DEF u, v
<1>4. /\ users' \in Seq(Row) /\ Len(users') = Len(users) /\ Ids' = Ids
      /\ users'[n] = u /\ \A m \in Ids : m # n => users'[m] = users[m]
  BY <1>0, <1>2, OneRow
<1>5. /\ audits' \in Seq(Audit) /\ Len(audits') = Len(audits)
      /\ \A m \in Ids : audits'[m] = IF m = n THEN v ELSE audits[m]
  BY <1>1, <1>3, ExceptSeq
<1>6. /\ resets' \in [1..Len(resets) -> ResetType]
      /\ \A k \in DOMAIN resets : resets'[k].state \in {resets[k].state, "gone"}
  <2>1. resets' = [k \in DOMAIN resets |-> IF resets[k].id = n
                     THEN [resets[k] EXCEPT !.state = "gone"] ELSE resets[k]]
    BY DEF Erase
  <2>2. ASSUME NEW k \in DOMAIN resets
        PROVE  /\ resets'[k] \in ResetType
               /\ resets'[k].state \in {resets[k].state, "gone"}
    <3>1. resets[k] \in ResetType
      BY <1>1
    <3>2. resets'[k] = IF resets[k].id = n THEN [resets[k] EXCEPT !.state = "gone"]
                       ELSE resets[k]
      BY <2>1
    <3> QED
      BY <3>1, <3>2 DEF ResetType
  <2> QED
    BY <1>1, <2>1, <2>2
<1>7. resets' \in Seq(ResetType) /\ Len(resets') = Len(resets)
      /\ DOMAIN resets' = DOMAIN resets
  BY <1>1, <1>6, MapOfSeq
<1>8. TypeInv'
  <2>1. jobs' = jobs /\ spent' = spent
    BY DEF Erase
  <2> QED
    BY <1>0, <1>1, <1>4, <1>5, <1>7, <2>1, TypeKeeps
<1>9. LockInv'
  <2>1. \A m \in Ids : Earned(users'[m], wrong[m])
    BY <1>0, <1>2, <1>4 DEF LockInv
  <2> QED
    BY <1>0, <1>4, <2>1, LockKeeps
<1>10. ResetInv'
  BY <1>0, <1>6, <1>7, ResetKeeps
<1>11. ASSUME NEW m \in Ids
       PROVE  IF users'[m].live THEN audits'[m].records = 0
              ELSE audits'[m].records >= 1 /\ audits'[m].records + Erasing(m)' <= Everybody
  <2>1. Deleting(m)' \subseteq Deleting(m) /\ audits[m].records \in Nat
    BY <1>1, CalmSets DEF Audit
  <2>2. IF users[m].live THEN audits[m].records = 0
        ELSE audits[m].records >= 1 /\ audits[m].records + Erasing(m) <= Everybody
    BY <1>0 DEF AuditInv
  <2>3. CASE m # n
    <3>1. users'[m] = users[m] /\ audits'[m] = audits[m]
      BY <1>4, <1>5, <2>3
    <3>2. CASE users[m].live
      BY <2>2, <3>1, <3>2
    <3>3. CASE ~users[m].live
      <4>1. /\ Erasing(m)' <= Erasing(m) /\ Erasing(m)' \in Nat /\ Erasing(m) \in Nat
            /\ Everybody \in Nat
        BY <2>1, <3>3, ErasingKeeps
      <4> QED
        BY <2>1, <2>2, <3>1, <3>3, <4>1
    <3> QED
      BY <3>2, <3>3
  <2>4. CASE m = n
    <3>1. users'[m].live = FALSE /\ audits'[m].records = audits[m].records + 1
      BY <1>2, <1>3, <1>4, <1>5, <2>4
    <3>2. /\ Erasing(m)' \in Nat /\ Everybody \in Nat /\ Erasing(m)' + 1 <= Everybody
          /\ Deleting(m)' \subseteq Deleting(m) /\ Sweeping(m)' \subseteq Sweeping(m)
               => Erasing(m) \in Nat /\ Erasing(m)' + 1 <= Erasing(m)
      BY <2>4, OneLeaves
    <3>3. CASE users[m].live
      BY <2>2, <3>1, <3>2, <3>3
    <3>4. CASE ~users[m].live
      <4>1. Sweeping(m)' \subseteq Sweeping(m)
        BY <2>1, <3>4, ErasingKeeps
      <4>2. Erasing(m) \in Nat /\ Erasing(m)' + 1 <= Erasing(m)
        BY <2>1, <3>2, <4>1
      <4> QED
        BY <2>1, <2>2, <3>1, <3>2, <3>4, <4>2
    <3> QED
      BY <3>3, <3>4
  <2> QED
    BY <2>3, <2>4
<1>12. AuditInv'
  <2>1. Everybody' = Everybody
    BY DEF Everybody
  <2> QED
    BY <1>4, <1>11, <2>1 DEF AuditInv
<1> QED
  BY <1>8, <1>9, <1>10, <1>12 DEF IInv

LEMMA DeletionsKeep ==
  ASSUME IInv, NEW t \in Threads, DeleteUser(t)
  PROVE  IInv'
<1>0. /\ TypeInv /\ Then(t, Idle) /\ UNCHANGED <<sweep, wrong, spent>>
      /\ request[t].op \in Reasons
  BY DEF IInv, DeleteUser
<1>1. PICK n \in Ids, reason \in Reasons : n = request[t].id /\ reason = request[t].op
  BY <1>0 DEF TypeInv, Typed, Reasons
<1>2. Calm /\ request'[t] = Idle /\ SweepsCalm /\ jobs \subseteq Ids
  BY <1>0, CalmThen, SweepsStay, OneRequest, IdleTyped DEF TypeInv, TypeOK
<1>3. CASE UNCHANGED data
  BY <1>0, <1>2, <1>3, Quiet DEF data
<1>4. CASE Erase(n, reason)
  <2>1. t \in Deleting(n)
    BY <1>1 DEF Deleting
  <2>2. t \notin Deleting(n)'
    BY <1>2, IdleTyped DEF Deleting, Reasons
  <2>3. Leaves(n)
    BY <2>1, <2>2 DEF Leaves
  <2> QED
    BY <1>0, <1>2, <1>4, <2>3, EraseKeeps
<1> QED
  BY <1>1, <1>3, <1>4 DEF DeleteUser

LEMMA SweepDeleteKeeps ==
  ASSUME IInv, NEW s \in Sweepers, SweepDelete(s)
  PROVE  IInv'
<1>0. /\ TypeInv /\ Calm /\ UNCHANGED <<request, wrong, spent>>
      /\ jobs \subseteq Ids /\ sweep[s] # NoSweep /\ sweep[s] \in Ids
      /\ sweep' = [sweep EXCEPT ![s] = NoSweep]
  BY CalmStays DEF IInv, SweepDelete, TypeInv, TypeOK
<1>1. PICK n \in Ids : n = sweep[s]
  BY <1>0
<1>2. SweepsCalm /\ sweep'[s] = NoSweep
  BY <1>0, SweepFreed
<1>3. CASE UNCHANGED data
  BY <1>0, <1>2, <1>3, Quiet DEF data
<1>4. CASE Erase(n, "cleanup")
  <2>1. s \in Sweeping(n) /\ s \notin Sweeping(n)'
    BY <1>0, <1>1, <1>2 DEF Sweeping
  <2>2. Leaves(n)
    BY <2>1 DEF Leaves
  <2> QED
    BY <1>0, <1>2, <1>4, <2>2, EraseKeeps
<1> QED
  BY <1>1, <1>3, <1>4 DEF SweepDelete

-----------------------------------------------------------------------------
(* Registration                                                            *)

LEMMA CreateKeeps ==
  ASSUME IInv, NEW t \in Threads, CreateUser(t)
  PROVE  IInv'
<1> DEFINE N == Len(users) + 1
           r == [Idle EXCEPT !.op = "recover", !.id = N]
           log == [records |-> 0, hashes |-> 0, expiring |-> FALSE]
<1>0. /\ TypeInv /\ LockInv /\ AuditInv /\ ResetInv /\ Len(users) < MaxUsers
      /\ UNCHANGED <<resets, jobs, sweep, spent>> /\ Then(t, r)
      /\ audits' = Append(audits, log) /\ wrong' = Append(wrong, 0)
  BY DEF IInv, CreateUser
<1>1. /\ Len(users) \in Nat /\ Ids = 1..Len(users) /\ users \in Seq(Row)
      /\ wrong \in Seq(0..MaxWrong) /\ Len(wrong) = Len(users)
      /\ audits \in Seq(Audit) /\ Len(audits) = Len(users)
      /\ MaxUsers \in Nat /\ MaxWrong \in Nat
  BY <1>0, Shape, AccountsAssumption DEF TypeInv, TypeOK, Ids
<1>2. PICK u \in Row : users' = Append(users, u) /\ u.live /\ u.fails = 0 /\ u.lock = "none"
  <2>1. PICK role \in Roles : users' = Append(users, New(role))
    BY DEF CreateUser
  <2> QED
    BY <2>1, NewRow DEF New
<1>3. /\ users' \in Seq(Row) /\ Len(users') = N /\ users'[N] = u
      /\ \A n \in Ids : users'[n] = users[n]
  BY <1>1, <1>2, AppendProperties
<1>4. /\ wrong' \in Seq(0..MaxWrong) /\ Len(wrong') = N /\ wrong'[N] = 0
      /\ \A n \in Ids : wrong'[n] = wrong[n]
  BY <1>0, <1>1, AppendProperties
<1>5. /\ audits' \in Seq(Audit) /\ Len(audits') = N /\ audits'[N].records = 0
      /\ \A n \in Ids : audits'[n] = audits[n]
  <2>1. log \in Audit /\ log.records = 0
    BY DEF Audit
  <2> HIDE DEF log
  <2> QED
    BY <1>0, <1>1, <2>1, AppendProperties
<1>6. /\ Ids' = 1..N /\ N <= MaxUsers /\ N \in Nat /\ N \in 1..N
      /\ Ids' = Ids \cup {N} /\ Ids \subseteq Ids'
  BY <1>0, <1>1, <1>3 DEF Ids
<1>7. r \in RequestType /\ r.op = "recover" /\ r.id = N
  <2>1. N \in 0..MaxUsers
    BY <1>1, <1>6
  <2> HIDE DEF N
  <2> QED
    BY <2>1, IdleTyped DEF Idle, RequestType, Operations
<1> HIDE DEF r, log, N
<1>8. /\ request' \in [Threads -> RequestType] /\ request'[t] = r
      /\ \A s \in Threads : s # t => request'[s] = request[s]
  BY <1>0, <1>7, OneRequest
<1>9. TypeInv'
  <2>1. \A s \in Threads : Typed(request[s])'
    <3>1. ASSUME NEW s \in Threads
          PROVE  request'[s] \in RequestType /\ (request'[s].op # "idle" => request'[s].id \in Ids')
      BY <1>0, <1>6, <1>7, <1>8 DEF TypeInv, Typed
    <3> QED
      BY <3>1 DEF Typed
  <2>2. resets' \in Seq([id : Ids', state : {"valid", "used", "expired", "gone"}])
    <3>1. ResetType \subseteq [id : Ids', state : {"valid", "used", "expired", "gone"}]
      BY <1>6 DEF ResetType
    <3>2. resets \in Seq(ResetType)
      BY <1>0 DEF TypeInv, TypeOK, ResetType
    <3> QED
      BY <1>0, <3>1, <3>2, SeqMonotonic
  <2>3. /\ jobs' \subseteq Ids' /\ sweep' \in SweepType
        /\ \A s \in Sweepers : sweep'[s] # NoSweep => sweep'[s] \in Ids'
    <3>1. /\ jobs \subseteq Ids /\ sweep \in SweepType
          /\ \A s \in Sweepers : sweep[s] # NoSweep => sweep[s] \in Ids
      BY <1>0 DEF TypeInv, TypeOK, SweepType
    <3> QED
      BY <1>0, <1>6, <3>1
  <2>4. Len(spent') = Len(resets') /\ spent' \in Seq(Nat) /\ Len(resets') <= MaxResets
    BY <1>0 DEF TypeInv, TypeOK
  <2>5. TypeOK'
    BY <1>3, <1>4, <1>5, <1>6, <1>8, <2>2, <2>3, <2>4 DEF TypeOK, SweepType
  <2> QED
    BY <1>4, <1>5, <2>1, <2>3, <2>4, <2>5 DEF TypeInv
<1>10. LockInv'
  <2>1. ASSUME NEW n \in Ids'
        PROVE  Earned(users'[n], wrong'[n])
    <3>1. CASE n \in Ids
      BY <1>0, <1>3, <1>4, <3>1 DEF LockInv
    <3>2. CASE n = N
      BY <1>2, <1>3, <1>4, <3>2 DEF Earned
    <3> QED
      BY <1>6, <3>1, <3>2
  <2>2. ASSUME NEW s \in Threads, request'[s].op = "wrong"
        PROVE  request'[s].fails + 1 <= wrong'[request'[s].id]
    <3>1. s # t /\ request'[s] = request[s]
      BY <1>7, <1>8, <2>2
    <3>2. request[s].id \in Ids /\ request[s].fails + 1 <= wrong[request[s].id]
      BY <1>0, <2>2, <3>1 DEF LockInv, TypeInv, Typed
    <3> QED
      BY <1>4, <3>1, <3>2
  <2> QED
    BY <2>1, <2>2 DEF LockInv
<1>11. ASSUME NEW n
       PROVE  Deleting(n)' \in SUBSET Deleting(n) /\ Resetting(n)' \in SUBSET Resetting(n)
              /\ Deleting(n) \in SUBSET Threads /\ Resetting(n) \in SUBSET Threads
  BY <1>7, <1>8 DEF Deleting, Resetting, Reasons
<1>12. AuditInv'
  <2>1. ASSUME NEW n \in Ids'
        PROVE  IF users'[n].live THEN audits'[n].records = 0
               ELSE audits'[n].records >= 1 /\ audits'[n].records + Erasing(n)' <= Everybody
    <3>1. CASE n \in Ids /\ users[n].live
      BY <1>0, <1>3, <1>5, <3>1 DEF AuditInv
    <3>2. CASE n \in Ids /\ ~users[n].live
      <4>1. /\ Erasing(n)' <= Erasing(n) /\ Erasing(n)' \in Nat /\ Erasing(n) \in Nat
            /\ Everybody \in Nat
        BY <1>0, <1>11, <3>2, SweepsStay, ErasingKeeps
      <4>2. audits[n].records \in Nat
        BY <1>0, <3>2, Shape DEF Audit
      <4>3. users'[n] = users[n] /\ audits'[n] = audits[n]
        BY <1>3, <1>5, <3>2
      <4>4. audits[n].records >= 1 /\ audits[n].records + Erasing(n) <= Everybody
        BY <1>0, <3>2 DEF AuditInv
      <4> QED
        BY <3>2, <4>1, <4>2, <4>3, <4>4
    <3>3. CASE n = N
      BY <1>2, <1>3, <1>5, <3>3
    <3> QED
      BY <1>6, <3>1, <3>2, <3>3
  <2>2. Everybody' = Everybody
    BY DEF Everybody
  <2> QED
    BY <2>1, <2>2 DEF AuditInv
<1>13. ResetInv'
  <2>1. ASSUME NEW k \in DOMAIN resets
        PROVE  /\ Cardinality(Resetting(k)') <= Cardinality(Resetting(k))
               /\ Cardinality(Resetting(k)') \in Nat /\ Cardinality(Resetting(k)) \in Nat
               /\ Cardinality(Threads) \in Nat /\ spent[k] \in Nat
    BY <1>0, <1>11, SomeThreads, Shape
  <2> QED
    BY <1>0, <2>1 DEF ResetInv
<1> QED
  BY <1>9, <1>10, <1>12, <1>13 DEF IInv

-----------------------------------------------------------------------------
(* Theorems                                                                *)

LEMMA InvInit == Init => IInv
<1> SUFFICES ASSUME Init
             PROVE  IInv
  OBVIOUS
<1>1. Ids = {} /\ DOMAIN resets = {} /\ Len(users) = 0 /\ Len(resets) = 0
  BY DEF Init, Ids
<1>2. TypeInv
  <2>1. /\ users \in Seq(Row) /\ resets \in Seq(ResetType) /\ wrong \in Seq(0..MaxWrong)
        /\ spent \in Seq(Nat) /\ audits \in Seq(Audit)
    BY EmptySeq DEF Init
  <2>2. /\ Len(audits) = 0 /\ Len(wrong) = 0 /\ Len(spent) = 0
        /\ 0 <= MaxUsers /\ 0 <= MaxResets
    BY AccountsAssumption DEF Init
  <2>3. \A t \in Threads : Typed(request[t])
    BY IdleTyped DEF Init, Typed
  <2>4. request \in [Threads -> RequestType] /\ jobs = {}
    BY IdleTyped DEF Init
  <2>5. sweep \in SweepType /\ \A s \in Sweepers : sweep[s] = NoSweep
    BY AccountsAssumption DEF Init, SweepType, NoSweep
  <2> QED
    BY <1>1, <2>1, <2>2, <2>3, <2>4, <2>5 DEF TypeInv, TypeOK, ResetType, SweepType
<1>3. LockInv
  BY <1>1 DEF Init, LockInv, Idle
<1>4. AuditInv /\ ResetInv
  BY <1>1 DEF AuditInv, ResetInv
<1> QED
  BY <1>2, <1>3, <1>4 DEF IInv

LEMMA InvNext == IInv /\ [Next]_vars => IInv'
<1> SUFFICES ASSUME IInv, [Next]_vars
             PROVE  IInv'
  OBVIOUS
<1>1. CASE UNCHANGED vars
  <2>1. TypeInv /\ jobs \subseteq Ids
    BY DEF IInv, TypeInv, TypeOK
  <2> QED
    BY <1>1, <2>1, CalmStays, SweepsStay, Quiet DEF vars, data
<1>2. CASE Next
  BY <1>2, CreateKeeps, LoginsKeep, RecoverKeeps, ResetCommitKeeps, DeletionsKeep, LoadsKeep,
     ResetReadKeeps, RowsKeep, HashesKeep, SweepDeleteKeeps, SweepsKeep, TokenExpiresKeeps
  DEF Next
<1> QED
  BY <1>1, <1>2

(* The rows, the tokens, what the threads loaded and the audit records     *)
(* keep their types: no thread counts a failed login past the wrong        *)
(* passwords there were.                                                   *)
THEOREM TypeCorrect == Spec => []TypeOK
<1>1. IInv => TypeOK
  BY DEF IInv, TypeInv
<1> QED
  BY <1>1, InvInit, InvNext, PTL DEF Spec

(* An account is locked only by that many wrong passwords for it, however  *)
(* many threads write back what they loaded earlier, and however many of   *)
(* them reset or change the password meanwhile.                            *)
THEOREM LocksEarned == Spec => []LockEarned
<1>1. IInv => LockEarned
  BY DEF IInv, LockInv, Earned, LockEarned
<1> QED
  BY <1>1, InvInit, InvNext, PTL DEF Spec

(* A deleted account has an audit record, and no more of them than there   *)
(* are threads and cleanup runs that can have found the row before the     *)
(* first deletion.  A run that still has it loaded does not look again, so *)
(* the two weekly tasks and any number of requests may each write one.     *)
THEOREM DeletionsAudited == Spec => []DeletionAudited
<1>1. IInv => DeletionAudited
  <2> SUFFICES ASSUME IInv, NEW n \in Ids, ~users[n].live
               PROVE  audits[n].records \in 1..(Cardinality(Threads) + Cardinality(Sweepers))
    BY DEF DeletionAudited
  <2>1. /\ audits[n].records \in Nat /\ Deleting(n) \in SUBSET Threads
        /\ Sweeping(n) \in SUBSET Sweepers
    BY Shape DEF IInv, Audit, Deleting, Sweeping
  <2>2. /\ Cardinality(Deleting(n)) \in Nat /\ Cardinality(Threads) \in Nat
        /\ Cardinality(Sweeping(n)) \in Nat /\ Cardinality(Sweepers) \in Nat
    BY <2>1, SomeThreads, SomeSweepers
  <2>3. audits[n].records >= 1 /\ audits[n].records + Erasing(n) <= Everybody
    BY DEF IInv, AuditInv
  <2> QED
    BY <2>1, <2>2, <2>3 DEF Erasing, Everybody
<1> QED
  BY <1>1, InvInit, InvNext, PTL DEF Spec

LEMMA InvBounds == IInv => ResetBounded
<1> SUFFICES ASSUME IInv, NEW k \in DOMAIN resets
             PROVE  spent[k] <= Cardinality(Threads)
  BY DEF ResetBounded
<1>1. spent[k] \in Nat /\ Resetting(k) \in SUBSET Threads
  BY Shape DEF IInv, Resetting
<1>2. Cardinality(Resetting(k)) \in Nat /\ Cardinality(Threads) \in Nat
  BY <1>1, SomeThreads
<1> QED
  BY <1>1, <1>2 DEF IInv, ResetInv

(* A reset token sets at most as many passwords as there are threads that  *)
(* can have found it valid.                                                *)
THEOREM ResetsBounded == Spec => []ResetBounded
BY InvBounds, InvInit, InvNext, PTL DEF Spec
===============================================================================
