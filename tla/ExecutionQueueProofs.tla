------------------------ MODULE ExecutionQueueProofs ------------------------
(***************************************************************************)
(* Theorems about ExecutionQueue, for any users, limits, executions,       *)
(* scripts, API threads and overlapping processors.                        *)
(***************************************************************************)
EXTENDS ExecutionQueue, FiniteSetTheorems, TLAPS

-----------------------------------------------------------------------------
(* Types                                                                   *)

(* The count of active executions is a number: there are finitely many.    *)
LEMMA CountIsNat == \A u : Cardinality(ActiveOf(u)) \in Nat
<1>1. TAKE u
<1>2. ActiveOf(u) \in SUBSET Executions
  BY DEF ActiveOf
<1>3. IsFiniteSet(ActiveOf(u))
  BY <1>2, FS_Subset, QueueAssumption
<1> QED
  BY <1>3, FS_CardinalityType

(* What the loop helpers of the processor return.                          *)
LEMMA IdleTypes == IdleReq \in ReqType /\ IdleRun \in RunType
BY DEF IdleReq, ReqType, IdleRun, RunType, ItemType

LEMMA NextUserType ==
  ASSUME NEW users \in SUBSET Users
  PROVE  NextUser(users) \in RunType
BY IdleTypes DEF NextUser, IdleRun, RunType

LEMMA NextItemType ==
  ASSUME NEW r \in RunType, NEW todo \in SUBSET ItemType
  PROVE  NextItem(r, todo) \in RunType
<1>1. NextUser(r.users) \in RunType
  BY NextUserType DEF RunType
<1>2. [r EXCEPT !.pc = "batch", !.todo = todo, !.e = None] \in RunType
  BY DEF RunType
<1> QED
  BY <1>1, <1>2 DEF NextItem

(* Only a batch has a turn to take; its record holds no execution yet.     *)
LEMMA NotCleared ==
  /\ IdleRun.pc # "cleared"
  /\ \A users : NextUser(users).pc # "cleared"
  /\ \A r \in RunType : \A todo : NextItem(r, todo).pc # "cleared"
BY DEF IdleRun, NextUser, NextItem, RunType

(* Queries return rows with the time they were queued.                     *)
LEMMA ItemsType ==
  ASSUME TypeOK, NEW E \in SUBSET Executions
  PROVE  Items(E) \in SUBSET ItemType
BY DEF TypeOK, Items, ItemType

LEMMA TypeInit == Init => TypeOK
BY QueueAssumption, IdleTypes DEF Init, TypeOK, Status, IdleReq, IdleRun

(* One thread, one processor moves.                                        *)
ReqTyped(r) == r \in ReqType /\ (r.pc # "idle" => r.e \in Executions)
RunTyped(r) == r \in RunType /\ (r.pc = "cleared" => r.e \in Executions)

LEMMA ReqMoves ==
  ASSUME TypeOK, NEW h \in Handlers, NEW v, ReqTyped(v), req' = [req EXCEPT ![h] = v]
  PROVE  /\ req' \in [Handlers -> ReqType]
         /\ \A g \in Handlers : req'[g].pc # "idle" => req'[g].e \in Executions
BY DEF TypeOK, ReqTyped

LEMMA RunMoves ==
  ASSUME TypeOK, NEW p \in Processors, NEW v, RunTyped(v), run' = [run EXCEPT ![p] = v]
  PROVE  /\ run' \in [Processors -> RunType]
         /\ \A q \in Processors : run'[q].pc = "cleared" => run'[q].e \in Executions
BY DEF TypeOK, RunTyped

LEMMA IdleTyped == ReqTyped(IdleReq) /\ RunTyped(IdleRun)
BY IdleTypes DEF ReqTyped, RunTyped, IdleReq, IdleRun

LEMMA NextUserTyped ==
  ASSUME NEW users \in SUBSET Users
  PROVE  RunTyped(NextUser(users))
BY NextUserType, NotCleared DEF RunTyped

LEMMA NextItemTyped ==
  ASSUME NEW r \in RunType, NEW todo \in SUBSET ItemType
  PROVE  RunTyped(NextItem(r, todo))
BY NextItemType, NotCleared DEF RunTyped

LEMMA TypeCreate ==
  ASSUME TypeOK, NEW h \in Handlers, Handler(h)
  PROVE  TypeOK'
<1>0. /\ req[h] \in ReqType /\ req[h].at \in Nat
      /\ req[h].pc # "idle" => req[h].e \in Executions
  BY DEF TypeOK, ReqType
<1>1. CASE CreateCommit(h)
  <2>1. status' \in [Executions -> Status \cup {"NONE"}]
    BY <1>1 DEF CreateCommit, TypeOK, Status, Active
  <2>2. queuedAt' \in [Executions -> Nat]
    BY <1>0, <1>1 DEF CreateCommit, TypeOK
  <2> DEFINE v == IF req[h].at = 0 THEN [req[h] EXCEPT !.pc = "saved"] ELSE IdleReq
  <2>3. ReqTyped([req[h] EXCEPT !.pc = "saved"])
    BY <1>0, <1>1 DEF CreateCommit, ReqTyped, ReqType
  <2>4. ReqTyped(v) /\ req' = [req EXCEPT ![h] = v]
    BY <1>1, <2>3, IdleTyped DEF CreateCommit
  <2> QED
    BY <1>1, <2>1, <2>2, <2>4, ReqMoves
    DEF CreateCommit, TypeOK, brokerVars, configVars
<1>2. CASE CreateDispatch(h)
  <2>1. pending' \in [Executions -> Nat] /\ sent' \in [Executions -> Nat]
    BY <1>0, <1>2 DEF CreateDispatch, Send, TypeOK
  <2>2. req' = [req EXCEPT ![h] = IdleReq]
    BY <1>2 DEF CreateDispatch
  <2> QED
    BY <1>2, <2>1, <2>2, ReqMoves, IdleTyped
    DEF CreateDispatch, TypeOK, rowVars, configVars
<1>3. CASE CreateDispatchFail(h)
  <2>1. lost' \in SUBSET Executions
    BY <1>0, <1>3 DEF CreateDispatchFail, TypeOK
  <2>3. faults' \in Nat
    BY <1>3 DEF CreateDispatchFail, Fault, TypeOK
  <2>2. req' = [req EXCEPT ![h] = IdleReq]
    BY <1>3 DEF CreateDispatchFail
  <2> QED
    BY <1>3, <2>1, <2>2, <2>3, ReqMoves, IdleTyped
    DEF CreateDispatchFail, TypeOK, rowVars, brokerVars, configVars
<1>4. ASSUME NEW e \in Executions, CreateCheck(h, e)
      PROVE  TypeOK'
  <2> DEFINE queue == Owner[e] \notin admins /\ ~HasCapacity(Owner[e])
             at    == IF queue THEN clock + 1 ELSE 0
             v     == [pc |-> "checked", e |-> e, at |-> at]
  <2>1. at \in Nat /\ clock' \in Nat
    BY <1>4 DEF CreateCheck, TypeOK
  <2>2. ReqTyped(v)
    BY <2>1 DEF ReqType, ReqTyped
  <2>3. req' = [req EXCEPT ![h] = v]
    BY <1>4 DEF CreateCheck
  <2> HIDE DEF v
  <2> QED
    BY <1>4, <2>1, <2>2, <2>3, ReqMoves
    DEF CreateCheck, TypeOK, rowVars, brokerVars, configVars
<1> QED
  BY <1>1, <1>2, <1>3, <1>4 DEF Handler

(* A step of the processor gives run[p] a value of its type.               *)
LEMMA TypeProcessor ==
  ASSUME TypeOK, NEW p \in Processors, Processor(p)
  PROVE  TypeOK'
<1> DEFINE r == run[p]
<1>0. /\ r \in RunType
      /\ r.users \in SUBSET Users /\ r.todo \in SUBSET ItemType
      /\ r.pc = "cleared" => r.e \in Executions
  BY DEF TypeOK, RunType
<1>1. ASSUME NEW v, RunTyped(v), run' = [run EXCEPT ![p] = v],
             UNCHANGED <<rowVars, brokerVars, clock, configVars, lost, faults, req>>
      PROVE  TypeOK'
  BY <1>1, RunMoves DEF TypeOK, rowVars, brokerVars, configVars
<1>2. CASE ProcStart(p)
  <2>1. {Owner[e] : e \in {f \in Executions : Waiting(f)}} \in SUBSET Users
    BY QueueAssumption
  <2>2. PICK S \in SUBSET Users : run' = [run EXCEPT ![p] = NextUser(S)]
    BY <1>2, <2>1 DEF ProcStart
  <2> QED
    BY <1>1, <1>2, <2>2, NextUserTyped DEF ProcStart
<1>3. CASE ProcSelect(p)
  <2>1. WaitingOf(r.user) \in SUBSET Executions
    BY DEF WaitingOf
  <2>2. PICK S \in SUBSET Items(WaitingOf(r.user)) :
          run' = [run EXCEPT ![p] = NextItem(r, S)]
    BY <1>3 DEF ProcSelect, Oldest
  <2>3. S \in SUBSET ItemType
    BY <2>1, <2>2, ItemsType
  <2>4. RunTyped(NextItem(r, S))
    BY <1>0, <2>3, NextItemTyped
  <2> QED
    BY <1>1, <1>3, <2>2, <2>4 DEF ProcSelect
<1>4. CASE ProcSkip(p)
  <2>1. PICK i : run' = [run EXCEPT ![p] = NextItem(r, r.todo \ {i})]
    BY <1>4 DEF ProcSkip
  <2>2. RunTyped(NextItem(r, r.todo \ {i}))
    BY <1>0, NextItemTyped
  <2> QED
    BY <1>1, <1>4, <2>1, <2>2 DEF ProcSkip
<1>5. CASE ProcClear(p)
  <2>1. PICK i \in r.todo :
          /\ queuedAt' = [queuedAt EXCEPT ![i.e] = 0]
          /\ run' = [run EXCEPT ![p] =
                       [r EXCEPT !.pc = "cleared", !.todo = r.todo \ {i}, !.e = i.e]]
    BY <1>5 DEF ProcClear, Heads
  <2>2. i.e \in Executions
    BY <1>0, <2>1 DEF ItemType
  <2>3. RunTyped([r EXCEPT !.pc = "cleared", !.todo = r.todo \ {i}, !.e = i.e])
    BY <1>0, <2>2 DEF RunType, RunTyped
  <2>4. queuedAt' \in [Executions -> Nat]
    BY <2>1 DEF TypeOK
  <2> QED
    BY <1>5, <2>1, <2>3, <2>4, RunMoves DEF ProcClear, TypeOK, brokerVars, configVars
<1>6. CASE ProcDispatch(p)
  <2>1. RunTyped(NextItem(r, r.todo))
    BY <1>0, NextItemTyped
  <2>2. run' = [run EXCEPT ![p] = NextItem(r, r.todo)]
    BY <1>6 DEF ProcDispatch
  <2>3. pending' \in [Executions -> Nat] /\ sent' \in [Executions -> Nat]
    BY <1>0, <1>6 DEF ProcDispatch, Send, TypeOK
  <2> QED
    BY <1>6, <2>1, <2>2, <2>3, RunMoves DEF ProcDispatch, TypeOK, rowVars, configVars
<1>7. ASSUME NEW u \in Users, ProcFull(p, u)
      PROVE  TypeOK'
  <2>1. RunTyped(NextUser(r.users \ {u}))
    BY <1>0, NextUserTyped
  <2> QED
    BY <1>1, <1>7, <2>1 DEF ProcFull
<1>8. ASSUME NEW u \in Users, ProcCount(p, u)
      PROVE  TypeOK'
  <2> DEFINE n == MaxConcurrent[u] - Cardinality(ActiveOf(u))
             v == [r EXCEPT !.pc = "counted", !.users = r.users \ {u},
                            !.user = u, !.slots = n]
  <2>1. Cardinality(ActiveOf(u)) \in Nat /\ MaxConcurrent[u] \in Nat
    BY CountIsNat, QueueAssumption
  <2>2. n \in Nat
    BY <1>8, <2>1 DEF ProcCount, HasCapacity
  <2>3. run' = [run EXCEPT ![p] = v]
    BY <1>8 DEF ProcCount
  <2> HIDE DEF n
  <2>4. RunTyped(v)
    BY <1>0, <2>2 DEF RunType, RunTyped
  <2> QED
    BY <1>1, <1>8, <2>3, <2>4 DEF ProcCount
<1>9. ASSUME NEW u \in Users, ProcAdmin(p, u)
      PROVE  TypeOK'
  <2> DEFINE v == [r EXCEPT !.users = r.users \ {u}, !.user = u, !.admin = TRUE]
             todo == Items(WaitingOf(u))
  <2>1. v \in RunType
    BY <1>0 DEF RunType
  <2>2. todo \in SUBSET ItemType
    BY ItemsType DEF WaitingOf
  <2>3. run' = [run EXCEPT ![p] = NextItem(v, todo)]
    BY <1>9 DEF ProcAdmin
  <2> HIDE DEF v, todo
  <2>4. RunTyped(NextItem(v, todo))
    BY <2>1, <2>2, NextItemTyped
  <2> QED
    BY <1>1, <1>9, <2>3, <2>4 DEF ProcAdmin
<1>10. CASE ProcDispatchFail(p)
  <2> DEFINE v == IF r.admin THEN NextUser(r.users) ELSE NextItem(r, r.todo)
  <2>1. RunTyped(v)
    BY <1>0, NextItemTyped, NextUserTyped
  <2>2. run' = [run EXCEPT ![p] = v]
    BY <1>10 DEF ProcDispatchFail
  <2>3. lost' \in SUBSET Executions
    BY <1>0, <1>10 DEF ProcDispatchFail, TypeOK
  <2>4. faults' \in Nat
    BY <1>10 DEF ProcDispatchFail, Fault, TypeOK
  <2> HIDE DEF v
  <2> QED
    BY <1>10, <2>1, <2>2, <2>3, <2>4, RunMoves
    DEF ProcDispatchFail, TypeOK, rowVars, brokerVars, configVars
<1>11. CASE ProcCrash(p)
  <2>1. run' = [run EXCEPT ![p] = IdleRun]
    BY <1>11 DEF ProcCrash
  <2>2. lost' \in SUBSET Executions
    BY <1>0, <1>11 DEF ProcCrash, TypeOK
  <2>3. faults' \in Nat
    BY <1>11 DEF ProcCrash, Fault, TypeOK
  <2> QED
    BY <1>11, <2>1, <2>2, <2>3, RunMoves, IdleTyped
    DEF ProcCrash, TypeOK, rowVars, brokerVars, configVars
<1> QED
  BY <1>2, <1>3, <1>4, <1>5, <1>6, <1>7, <1>8, <1>9, <1>10, <1>11
  DEF Processor, Advance

(* What the workers, the users and the sweeps do to one execution.         *)
LEMMA TypeEnvironment ==
  ASSUME TypeOK, NEW e \in Executions, Environment(e)
  PROVE  TypeOK'
<1>1. ASSUME NEW s \in Status, SetStatus(e, s)
      PROVE  TypeOK'
  BY <1>1 DEF SetStatus, TypeOK, brokerVars, configVars
<1>2. CASE RunTask(e)
  BY <1>2 DEF RunTask, TypeOK, configVars, Status, Active
<1>3. CASE RunTaskNoDocker(e)
  BY <1>3 DEF RunTaskNoDocker, Fault, TypeOK, rowVars, configVars
<1>4. CASE Progress(e) \/ CancelRequest(e) \/ CancelDone(e) \/ StaleCleanup(e)
  BY <1>1, <1>4
  DEF Progress, CancelRequest, CancelDone, StaleCleanup, Status, Active, Terminal
<1> QED
  BY <1>2, <1>3, <1>4 DEF Environment

LEMMA TypeNext == TypeOK /\ [Next]_vars => TypeOK'
<1> SUFFICES ASSUME TypeOK, [Next]_vars PROVE TypeOK'
  OBVIOUS
<1>1. CASE \E s \in Rebuildable : Rebuild(s)
  BY <1>1, QueueAssumption DEF Rebuild, TypeOK, rowVars, brokerVars
<1>2. CASE \E u \in Promotable : ChangeRole(u)
  BY <1>2, QueueAssumption DEF ChangeRole, TypeOK, rowVars, brokerVars
<1>3. CASE UNCHANGED vars
  BY <1>3 DEF vars, rowVars, brokerVars, configVars, TypeOK
<1> QED
  BY <1>1, <1>2, <1>3, TypeCreate, TypeProcessor, TypeEnvironment DEF Next

(* Every variable keeps its type in every behaviour of the queue.          *)
THEOREM TypeCorrect == Spec => []TypeOK
<1> QED
  BY TypeInit, TypeNext, PTL DEF Spec

-----------------------------------------------------------------------------
(* At most one dispatch per processor                                      *)

IInv == TypeOK /\ DispatchInv

LEMMA ClaimsFinite ==
  ASSUME NEW e
  PROVE  /\ Claims(e) \in SUBSET Processors
         /\ IsFiniteSet(Claims(e))
         /\ Cardinality(Claims(e)) \in Nat
         /\ Cardinality(Claims(e)) <= Cardinality(Processors)
<1>1. Claims(e) \in SUBSET Processors
  BY DEF Claims
<1>2. IsFiniteSet(Claims(e)) /\ Cardinality(Claims(e)) <= Cardinality(Processors)
  BY <1>1, FS_Subset, QueueAssumption
<1> QED
  BY <1>1, <1>2, FS_CardinalityType

LEMMA SomeProcessor == Cardinality(Processors) \in Nat /\ Cardinality(Processors) >= 1
<1>1. Cardinality(Processors) \in Nat
  BY FS_CardinalityType, QueueAssumption
<1>2. Cardinality(Processors) # 0
  BY FS_EmptySet, QueueAssumption
<1> QED
  BY <1>1, <1>2

(* What the helpers of the loop hold.                                      *)
LEMMA HeldByIdle == HeldBy(IdleRun) = {} /\ Apart(IdleRun)
BY DEF HeldBy, Apart, IdleRun

LEMMA HeldByNextUser ==
  ASSUME NEW users
  PROVE  HeldBy(NextUser(users)) = {} /\ Apart(NextUser(users))
BY DEF HeldBy, Apart, NextUser, IdleRun

LEMMA HeldByNextItem ==
  ASSUME NEW r \in RunType, NEW todo \in SUBSET ItemType,
         \A i, j \in todo : i.e = j.e => i = j
  PROVE  /\ HeldBy(NextItem(r, todo)) \subseteq {i.e : i \in todo}
         /\ Apart(NextItem(r, todo))
<1>1. CASE todo = {}
  BY <1>1, HeldByNextUser DEF NextItem
<1>2. CASE todo # {}
  <2>1. NextItem(r, todo) = [r EXCEPT !.pc = "batch", !.todo = todo, !.e = None]
    BY <1>2 DEF NextItem
  <2>2. NextItem(r, todo).pc = "batch" /\ NextItem(r, todo).todo = todo
    BY <2>1 DEF RunType
  <2> QED
    BY <2>2 DEF HeldBy, Apart
<1> QED
  BY <1>1, <1>2

(* A query names every execution once, and only waiting ones.              *)
LEMMA ItemsApart ==
  ASSUME NEW u, NEW S \in SUBSET Items(WaitingOf(u))
  PROVE  /\ \A i, j \in S : i.e = j.e => i = j
         /\ {i.e : i \in S} \subseteq {e \in Executions : Waiting(e)}
BY DEF Items, WaitingOf

(* A processor that sends nothing and takes at most waiting executions.    *)
LEMMA Claiming ==
  ASSUME IInv, NEW p \in Processors, NEW v,
         run' = [run EXCEPT ![p] = v],
         Apart(v),
         HeldBy(v) \subseteq HeldBy(run[p]) \cup {e \in Executions : Waiting(e)},
         v.pc = "cleared" => queuedAt'[v.e] = 0,
         \A e \in Executions : queuedAt'[e] \in {queuedAt[e], 0},
         UNCHANGED <<status, pending, sent, req>>
  PROVE  DispatchInv'
<1> USE DEF IInv
<1>2. /\ run'[p] = v
      /\ \A q \in Processors : q # p => run'[q] = run[q]
  BY DEF TypeOK
<1>3. ASSUME NEW e \in Executions, ~Waiting(e)
      PROVE  Claims(e)' \subseteq Claims(e)
  BY <1>2, <1>3 DEF Claims
<1>4. ASSUME NEW e \in Executions
      PROVE  /\ ~Row(e)' => Unseen(e)'
             /\ (pending[e] <= sent[e])'
             /\ (sent[e] + Cardinality(Claims(e)) <= Cardinality(Processors))'
  <2>1. Row(e)' = Row(e)
    BY DEF Row
  <2>2. ~Row(e)' => Unseen(e)'
    BY <1>3, <2>1 DEF DispatchInv, Unseen, Row, Waiting
  <2>3. /\ Claims(e)' \in SUBSET Processors
        /\ IsFiniteSet(Claims(e)')
        /\ Cardinality(Claims(e)') \in Nat
        /\ Cardinality(Claims(e)') <= Cardinality(Processors)
    <3>1. Claims(e)' \in SUBSET Processors
      BY DEF Claims
    <3>2. IsFiniteSet(Claims(e)') /\ Cardinality(Claims(e)') <= Cardinality(Processors)
      BY <3>1, FS_Subset, QueueAssumption
    <3> QED
      BY <3>1, <3>2, FS_CardinalityType
  <2>4. CASE Waiting(e)
    <3>1. sent[e] = 0
      BY <2>4 DEF DispatchInv, WaitingNotDispatched, Waiting
    <3> QED
      BY <2>2, <2>3, <3>1, SomeProcessor DEF DispatchInv
  <2>5. CASE ~Waiting(e)
    <3>1. Claims(e)' \subseteq Claims(e)
      BY <1>3, <2>5
    <3>2. Cardinality(Claims(e)') <= Cardinality(Claims(e))
      BY <3>1, ClaimsFinite, FS_Subset
    <3>3. sent[e] \in Nat /\ sent[e] + Cardinality(Claims(e)) <= Cardinality(Processors)
      BY DEF DispatchInv, TypeOK
    <3>4. sent[e] + Cardinality(Claims(e)') <= Cardinality(Processors)
      BY <2>3, <3>2, <3>3, ClaimsFinite, SomeProcessor
    <3> QED
      BY <2>2, <3>4 DEF DispatchInv
  <2> QED
    BY <2>4, <2>5
<1>5. WaitingNotDispatched'
  BY DEF DispatchInv, WaitingNotDispatched
<1>6. ASSUME NEW h \in Handlers, req[h].pc = "saved"
      PROVE  Row(req[h].e)' /\ Unseen(req[h].e)'
  <2>1. req[h].e \in Executions /\ Row(req[h].e) /\ Unseen(req[h].e)
    BY <1>6 DEF DispatchInv, TypeOK
  <2>2. Claims(req[h].e)' \subseteq Claims(req[h].e)
    BY <1>3, <2>1 DEF Unseen, Waiting
  <2> QED
    BY <2>1, <2>2 DEF Unseen, Row
<1>7. ASSUME NEW q \in Processors
      PROVE  Apart(run'[q]) /\ (run'[q].pc = "cleared" => queuedAt'[run'[q].e] = 0)
  <2>1. CASE q = p
    BY <1>2, <2>1
  <2>2. CASE q # p
    BY <1>2, <2>2 DEF DispatchInv, TypeOK
  <2> QED
    BY <2>1, <2>2
<1> QED
  BY <1>4, <1>5, <1>6, <1>7 DEF DispatchInv, Row

LEMMA InvProcessor ==
  ASSUME IInv, NEW p \in Processors, Processor(p)
  PROVE  DispatchInv'
<1> USE DEF IInv
<1> DEFINE r == run[p]
<1>0. /\ r \in RunType /\ r.todo \in SUBSET ItemType
      /\ r.pc = "cleared" => r.e \in Executions
      /\ Apart(r)
      /\ r.pc = "cleared" => queuedAt[r.e] = 0
  BY DEF TypeOK, RunType, DispatchInv
<1>1. ASSUME NEW v, run' = [run EXCEPT ![p] = v], Apart(v),
             HeldBy(v) \subseteq HeldBy(r) \cup {e \in Executions : Waiting(e)},
             v.pc # "cleared",
             UNCHANGED <<rowVars, brokerVars, req>>
      PROVE  DispatchInv'
  BY <1>1, Claiming DEF rowVars, brokerVars
<1>2. HeldBy(NextItem(r, r.todo)) \subseteq HeldBy(r) /\ Apart(NextItem(r, r.todo))
  BY <1>0, HeldByNextItem DEF Apart, HeldBy
<1>3. CASE ProcStart(p)
  <2>1. PICK S : run' = [run EXCEPT ![p] = NextUser(S)]
    BY <1>3 DEF ProcStart
  <2> QED
    BY <1>1, <1>3, <2>1, HeldByNextUser, NotCleared DEF ProcStart
<1>4. CASE ProcSelect(p)
  <2>1. PICK S \in SUBSET Items(WaitingOf(r.user)) :
          run' = [run EXCEPT ![p] = NextItem(r, S)]
    BY <1>4 DEF ProcSelect, Oldest
  <2>2. S \in SUBSET ItemType
    BY <2>1, ItemsType DEF WaitingOf
  <2>3. /\ HeldBy(NextItem(r, S)) \subseteq {e \in Executions : Waiting(e)}
        /\ Apart(NextItem(r, S))
    BY <1>0, <2>1, <2>2, ItemsApart, HeldByNextItem
  <2> QED
    BY <1>0, <1>1, <1>4, <2>1, <2>3, NotCleared DEF ProcSelect
<1>5. CASE ProcSkip(p)
  <2>1. PICK i : run' = [run EXCEPT ![p] = NextItem(r, r.todo \ {i})]
    BY <1>5 DEF ProcSkip
  <2> DEFINE rest == r.todo \ {i}
  <2>2. rest \in SUBSET ItemType /\ \A j, k \in rest : j.e = k.e => j = k
    BY <1>0 DEF Apart
  <2>3. {j.e : j \in rest} \subseteq HeldBy(r)
    BY DEF HeldBy
  <2> HIDE DEF rest
  <2>4. HeldBy(NextItem(r, rest)) \subseteq HeldBy(r) /\ Apart(NextItem(r, rest))
    BY <1>0, <2>2, <2>3, HeldByNextItem
  <2>5. run' = [run EXCEPT ![p] = NextItem(r, rest)]
    BY <2>1 DEF rest
  <2> QED
    BY <1>0, <1>1, <1>5, <2>4, <2>5, NotCleared DEF ProcSkip
<1>6. CASE ProcClear(p)
  <2>1. PICK i \in r.todo :
          /\ queuedAt' = [queuedAt EXCEPT ![i.e] = 0]
          /\ run' = [run EXCEPT ![p] =
                       [r EXCEPT !.pc = "cleared", !.todo = r.todo \ {i}, !.e = i.e]]
    BY <1>6 DEF ProcClear, Heads
  <2> DEFINE v == [r EXCEPT !.pc = "cleared", !.todo = r.todo \ {i}, !.e = i.e]
  <2>2. i.e \in Executions
    BY <1>0, <2>1 DEF ItemType
  <2>3. v.pc = "cleared" /\ v.todo = r.todo \ {i} /\ v.e = i.e
    BY <1>0 DEF RunType
  <2>4. run' = [run EXCEPT ![p] = v]
    BY <2>1
  <2>5. queuedAt'[i.e] = 0 /\ \A e \in Executions : queuedAt'[e] \in {queuedAt[e], 0}
    BY <2>1, <2>2 DEF TypeOK
  <2> HIDE DEF v
  <2>6. Apart(v) /\ HeldBy(v) \subseteq HeldBy(r)
    BY <1>0, <2>1, <2>3 DEF Apart, HeldBy
  <2> QED
    BY <1>6, <2>3, <2>4, <2>5, <2>6, Claiming DEF ProcClear, brokerVars
<1>7. CASE ProcDispatch(p)
  <2> DEFINE v == NextItem(r, r.todo)
  <2>0. PICK d \in Executions : d = r.e
    BY <1>0, <1>7 DEF ProcDispatch
  <2>1. /\ d = r.e /\ queuedAt[d] = 0 /\ d \in HeldBy(r)
        /\ sent' = [sent EXCEPT ![d] = @ + 1]
        /\ pending' = [pending EXCEPT ![d] = @ + 1]
        /\ run' = [run EXCEPT ![p] = v]
        /\ UNCHANGED <<status, queuedAt, req>>
    BY <1>0, <1>7, <2>0 DEF ProcDispatch, Send, HeldBy, rowVars
  <2>2. HeldBy(v) \subseteq HeldBy(r) \ {d}
    <3>1. HeldBy(v) \subseteq {i.e : i \in r.todo}
      BY <1>0, HeldByNextItem DEF Apart
    <3>2. d \notin {i.e : i \in r.todo}
      BY <1>0, <1>7, <2>0 DEF Apart, ProcDispatch
    <3> QED
      BY <1>2, <3>1, <3>2
  <2>3. Apart(v) /\ v.pc # "cleared"
    BY <1>0, <1>2, NotCleared
  <2> HIDE DEF v
  <2>4. /\ run'[p] = v
        /\ \A q \in Processors : q # p => run'[q] = run[q]
    BY <2>1 DEF TypeOK
  <2>5. p \in Claims(d)
    BY <2>1 DEF Claims
  <2>6. \A e \in Executions : Claims(e)' \subseteq Claims(e)
    BY <2>2, <2>4 DEF Claims
  <2>7. Claims(d)' \subseteq Claims(d) \ {p}
    BY <2>2, <2>4 DEF Claims
  <2>8. Row(d) /\ Claims(d) # {}
    BY <2>1, <2>5 DEF DispatchInv, Unseen
  <2>9. ASSUME NEW e \in Executions
        PROVE  /\ ~Row(e)' => Unseen(e)'
               /\ (pending[e] <= sent[e])'
               /\ (sent[e] + Cardinality(Claims(e)) <= Cardinality(Processors))'
    <3>1. /\ sent[e] \in Nat /\ pending[e] \in Nat /\ pending[e] <= sent[e]
          /\ sent[e] + Cardinality(Claims(e)) <= Cardinality(Processors)
          /\ ~Row(e) => Unseen(e)
      BY DEF DispatchInv, TypeOK
    <3>2. CASE e = d
      <4>1. sent'[e] = sent[e] + 1 /\ pending'[e] = pending[e] + 1
        BY <2>1, <3>2 DEF TypeOK
      <4>2. Cardinality(Claims(d) \ {p}) = Cardinality(Claims(d)) - 1
        BY <2>5, ClaimsFinite, FS_RemoveElement
      <4>3. IsFiniteSet(Claims(d) \ {p})
        BY ClaimsFinite, FS_RemoveElement
      <4>4. IsFiniteSet(Claims(d)') /\ Cardinality(Claims(d)') <= Cardinality(Claims(d) \ {p})
        BY <2>7, <4>3, FS_Subset
      <4>5. Cardinality(Claims(d)') \in Nat
        BY <4>4, FS_CardinalityType
      <4>6. sent'[e] + Cardinality(Claims(d)') <= Cardinality(Processors)
        BY <3>1, <3>2, <4>1, <4>2, <4>4, <4>5, ClaimsFinite, SomeProcessor
      <4>7. Row(e)'
        BY <2>1, <2>8, <3>2 DEF Row
      <4> QED
        BY <3>1, <3>2, <4>1, <4>6, <4>7
    <3>3. CASE e # d
      <4>1. sent'[e] = sent[e] /\ pending'[e] = pending[e] /\ Row(e)' = Row(e)
        BY <2>1, <3>3 DEF TypeOK, Row
      <4>2. Claims(e)' \subseteq Claims(e)
        BY <2>6
      <4>3. IsFiniteSet(Claims(e)') /\ Cardinality(Claims(e)') <= Cardinality(Claims(e))
        BY <4>2, ClaimsFinite, FS_Subset
      <4>4. Cardinality(Claims(e)') \in Nat
        BY <4>3, FS_CardinalityType
      <4>5. sent'[e] + Cardinality(Claims(e)') <= Cardinality(Processors)
        BY <3>1, <4>1, <4>3, <4>4, ClaimsFinite, SomeProcessor
      <4>6. ~Row(e)' => Unseen(e)'
        BY <2>1, <3>1, <4>1, <4>2 DEF Unseen
      <4> QED
        BY <3>1, <4>1, <4>5, <4>6
    <3> QED
      BY <3>2, <3>3
  <2>10. WaitingNotDispatched'
    BY <2>1 DEF DispatchInv, WaitingNotDispatched, TypeOK
  <2>11. ASSUME NEW h \in Handlers, req[h].pc = "saved"
         PROVE  Row(req[h].e)' /\ Unseen(req[h].e)'
    <3>1. req[h].e \in Executions /\ Row(req[h].e) /\ Unseen(req[h].e)
      BY <2>11 DEF DispatchInv, TypeOK
    <3>2. req[h].e # d
      BY <2>8, <3>1 DEF Unseen
    <3>3. Claims(req[h].e)' = {}
      BY <2>1, <2>6, <3>1 DEF Unseen
    <3> QED
      BY <2>1, <3>1, <3>2, <3>3 DEF Unseen, Row, TypeOK
  <2>12. ASSUME NEW q \in Processors
         PROVE  Apart(run'[q]) /\ (run'[q].pc = "cleared" => queuedAt'[run'[q].e] = 0)
    BY <2>1, <2>3, <2>4 DEF DispatchInv
  <2> QED
    BY <2>1, <2>9, <2>10, <2>11, <2>12 DEF DispatchInv, Row
<1>8. ASSUME NEW u \in Users, ProcFull(p, u)
      PROVE  DispatchInv'
  BY <1>1, <1>8, HeldByNextUser, NotCleared DEF ProcFull
<1>9. ASSUME NEW u \in Users, ProcCount(p, u)
      PROVE  DispatchInv'
  <2> DEFINE n == MaxConcurrent[u] - Cardinality(ActiveOf(u))
             v == [r EXCEPT !.pc = "counted", !.users = r.users \ {u},
                            !.user = u, !.slots = n]
  <2>1. run' = [run EXCEPT ![p] = v]
    BY <1>9 DEF ProcCount
  <2> HIDE DEF n
  <2>2. v.pc = "counted" /\ v.todo = r.todo
    BY <1>0 DEF RunType
  <2> HIDE DEF v
  <2>3. Apart(v) /\ HeldBy(v) \subseteq HeldBy(r)
    BY <1>0, <2>2 DEF Apart, HeldBy
  <2> QED
    BY <1>1, <1>9, <2>1, <2>2, <2>3 DEF ProcCount
<1>10. ASSUME NEW u \in Users, ProcAdmin(p, u)
       PROVE  DispatchInv'
  <2> DEFINE v == [r EXCEPT !.users = r.users \ {u}, !.user = u, !.admin = TRUE]
             todo == Items(WaitingOf(u))
  <2>1. run' = [run EXCEPT ![p] = NextItem(v, todo)]
    BY <1>10 DEF ProcAdmin
  <2>2. v \in RunType
    BY <1>0 DEF RunType
  <2>3. todo \in SUBSET ItemType
    BY ItemsType DEF WaitingOf
  <2>4. /\ \A i, j \in todo : i.e = j.e => i = j
        /\ {i.e : i \in todo} \subseteq {e \in Executions : Waiting(e)}
    BY ItemsApart
  <2> HIDE DEF v, todo
  <2>5. /\ HeldBy(NextItem(v, todo)) \subseteq {e \in Executions : Waiting(e)}
        /\ Apart(NextItem(v, todo))
    BY <2>2, <2>3, <2>4, HeldByNextItem
  <2> QED
    BY <1>1, <1>10, <2>1, <2>2, <2>5, NotCleared DEF ProcAdmin
<1>11. CASE ProcDispatchFail(p)
  <2> DEFINE v == IF r.admin THEN NextUser(r.users) ELSE NextItem(r, r.todo)
  <2>1. run' = [run EXCEPT ![p] = v]
    BY <1>11 DEF ProcDispatchFail
  <2>2. Apart(v) /\ HeldBy(v) \subseteq HeldBy(r) /\ v.pc # "cleared"
    BY <1>0, <1>2, HeldByNextUser, NotCleared
  <2> HIDE DEF v
  <2> QED
    BY <1>1, <1>11, <2>1, <2>2 DEF ProcDispatchFail
<1>12. CASE ProcCrash(p)
  BY <1>1, <1>12, HeldByIdle, NotCleared DEF ProcCrash
<1> QED
  BY <1>3, <1>4, <1>5, <1>6, <1>7, <1>8, <1>9, <1>10, <1>11, <1>12
  DEF Processor, Advance

(* A step of an API thread touches one execution, which no processor holds *)
(* and no other thread serves.                                             *)
LEMMA Serving ==
  ASSUME IInv, NEW h \in Handlers, NEW d \in Executions,
         run' = run,
         \A g \in Handlers : g # h => req'[g] = req[g],
         \A g \in Handlers : g # h /\ req[g].pc # "idle" => req[g].e # d,
         req'[h].pc # "idle" => req'[h].e = d,
         \A e \in Executions : e # d =>
           /\ status'[e] = status[e] /\ queuedAt'[e] = queuedAt[e]
           /\ pending'[e] = pending[e] /\ sent'[e] = sent[e],
         Claims(d) = {},
         sent'[d] \in {0, 1}, pending'[d] <= sent'[d],
         queuedAt'[d] # 0 => sent'[d] = 0,
         ~Row(d)' => sent'[d] = 0 /\ queuedAt'[d] = 0,
         req'[h].pc = "checked" => ~Row(d)',
         req'[h].pc = "saved" => Row(d)' /\ sent'[d] = 0 /\ queuedAt'[d] = 0
  PROVE  DispatchInv'
<1> USE DEF IInv
<1>1. ASSUME NEW e \in Executions
      PROVE  /\ Claims(e)' = Claims(e)
             /\ e # d => Row(e)' = Row(e) /\ Unseen(e)' = Unseen(e)
  <2>1. Claims(e)' = Claims(e)
    BY DEF Claims
  <2> QED
    BY <2>1 DEF Row, Unseen
<1>2. WaitingNotDispatched'
  BY DEF DispatchInv, WaitingNotDispatched
<1>3. ASSUME NEW e \in Executions
      PROVE  /\ ~Row(e)' => Unseen(e)'
             /\ (pending[e] <= sent[e])'
             /\ (sent[e] + Cardinality(Claims(e)) <= Cardinality(Processors))'
  <2>1. CASE e # d
    <3>1. /\ ~Row(e) => Unseen(e)
          /\ pending[e] <= sent[e]
          /\ sent[e] + Cardinality(Claims(e)) <= Cardinality(Processors)
      BY DEF DispatchInv
    <3> QED
      BY <1>1, <2>1, <3>1
  <2>2. CASE e = d
    <3>1. Claims(d)' = {} /\ Cardinality(Claims(d)') = 0
      BY <1>1, FS_EmptySet
    <3>2. ~Row(e)' => Unseen(e)'
      BY <2>2, <3>1 DEF Unseen
    <3> QED
      BY <2>2, <3>1, <3>2, SomeProcessor
  <2> QED
    BY <2>1, <2>2
<1>4. ASSUME NEW g \in Handlers
      PROVE  /\ (req[g].pc = "checked" => ~Row(req[g].e))'
             /\ (req[g].pc = "saved" => Row(req[g].e) /\ Unseen(req[g].e))'
  <2>1. CASE g = h
    <3>1. req'[h].pc = "saved" => Unseen(d)'
      BY <1>1 DEF Unseen
    <3> QED
      BY <2>1, <3>1 DEF Row, Unseen, Claims
  <2>2. CASE g # h /\ req[g].pc # "idle"
    <3>1. PICK c \in Executions : c = req[g].e
      BY <2>2 DEF TypeOK
    <3>2. /\ req'[g] = req[g] /\ c # d
          /\ req[g].pc = "checked" => ~Row(c)
          /\ req[g].pc = "saved" => Row(c) /\ Unseen(c)
      BY <2>2, <3>1 DEF DispatchInv
    <3>3. /\ req'[g].pc = "checked" => ~Row(c)'
          /\ req'[g].pc = "saved" => Row(c)' /\ Unseen(c)'
      BY <1>1, <3>2
    <3> QED
      BY <3>1, <3>2, <3>3 DEF Row, Unseen, Claims
  <2>3. CASE g # h /\ req[g].pc = "idle"
    BY <2>3
  <2> QED
    BY <2>1, <2>2, <2>3
<1>5. ASSUME NEW f \in Handlers, NEW g \in Handlers,
             req'[f].pc # "idle", req'[g].pc # "idle", req'[f].e = req'[g].e
      PROVE  f = g
  <2>1. CASE f = h \/ g = h
    BY <1>5, <2>1
  <2>2. CASE f # h /\ g # h
    BY <1>5, <2>2 DEF DispatchInv
  <2> QED
    BY <2>1, <2>2
<1>6. ASSUME NEW p \in Processors
      PROVE  (Apart(run[p]) /\ (run[p].pc = "cleared" => queuedAt[run[p].e] = 0))'
  <2>1. Apart(run[p]) /\ (run[p].pc = "cleared" => queuedAt[run[p].e] = 0)
    BY DEF DispatchInv
  <2>2. run[p].pc = "cleared" => run[p].e \in Executions /\ run[p].e # d
    BY DEF TypeOK, Claims, HeldBy
  <2> QED
    BY <2>1, <2>2
<1> QED
  BY <1>2, <1>3, <1>4, <1>5, <1>6 DEF DispatchInv

LEMMA InvCreate ==
  ASSUME IInv, NEW h \in Handlers, Handler(h)
  PROVE  DispatchInv'
<1> USE DEF IInv
<1>0. /\ run' = run
      /\ \A g \in Handlers : g # h => req'[g] = req[g]
  BY DEF Handler, CreateCheck, CreateCommit, CreateDispatch, CreateDispatchFail, TypeOK
<1>1. ASSUME NEW d \in Executions, req[h].pc # "idle", d = req[h].e
      PROVE  /\ sent[d] = 0 /\ pending[d] <= sent[d] /\ Claims(d) = {}
             /\ req[h].pc = "saved" => Row(d) /\ queuedAt[d] = 0
             /\ \A g \in Handlers : g # h /\ req[g].pc # "idle" => req[g].e # d
  <2>1. Unseen(d)
    BY <1>1 DEF DispatchInv, TypeOK, ReqType
  <2> QED
    BY <1>1, <2>1 DEF DispatchInv, Unseen
<1>2. ASSUME NEW e \in Executions, CreateCheck(h, e)
      PROVE  DispatchInv'
  <2>1. /\ req'[h].pc = "checked" /\ req'[h].e = e /\ ~Row(e)
        /\ \A g \in Handlers : req[g].e # e
        /\ UNCHANGED <<status, queuedAt, pending, sent>>
    BY <1>2 DEF CreateCheck, TypeOK, rowVars, brokerVars
  <2>2. ~Row(e)' /\ sent[e] = 0 /\ queuedAt[e] = 0 /\ Claims(e) = {} /\ pending[e] <= sent[e]
    BY <2>1 DEF DispatchInv, Unseen, Row
  <2> QED
    BY <1>0, <2>1, <2>2, Serving
<1>3. CASE CreateCommit(h)
  <2>1. PICK d \in Executions : d = req[h].e
    BY <1>3 DEF CreateCommit, TypeOK
  <2>2. /\ status' = [status EXCEPT ![d] = "PENDING"]
        /\ queuedAt' = [queuedAt EXCEPT ![d] = req[h].at]
        /\ req'[h].pc = "idle" \/ (req'[h].pc = "saved" /\ req'[h].e = d /\ req[h].at = 0)
        /\ UNCHANGED <<pending, sent>>
    BY <1>3, <2>1 DEF CreateCommit, TypeOK, ReqType, IdleReq, brokerVars
  <2>3. Row(d)' /\ queuedAt'[d] = req[h].at
    BY <2>2 DEF Row, TypeOK
  <2>4. \A e \in Executions : e # d => status'[e] = status[e] /\ queuedAt'[e] = queuedAt[e]
    BY <2>2 DEF TypeOK
  <2>5. req[h].pc # "idle"
    BY <1>3 DEF CreateCommit
  <2> QED
    BY <1>0, <1>1, <2>1, <2>2, <2>3, <2>4, <2>5, Serving
<1>4. CASE CreateDispatch(h)
  <2>1. PICK d \in Executions : d = req[h].e
    BY <1>4 DEF CreateDispatch, TypeOK
  <2>2. /\ pending' = [pending EXCEPT ![d] = @ + 1]
        /\ sent' = [sent EXCEPT ![d] = @ + 1]
        /\ req'[h].pc = "idle" /\ req[h].pc = "saved"
        /\ UNCHANGED <<status, queuedAt>>
    BY <1>4, <2>1 DEF CreateDispatch, Send, TypeOK, IdleReq, rowVars
  <2>3. /\ sent[d] = 0 /\ pending[d] = 0 /\ Claims(d) = {}
        /\ Row(d) /\ queuedAt[d] = 0
        /\ \A g \in Handlers : g # h /\ req[g].pc # "idle" => req[g].e # d
    BY <1>1, <2>1, <2>2 DEF TypeOK
  <2>4. Row(d)' /\ sent'[d] = 1 /\ pending'[d] = 1 /\ queuedAt'[d] = 0
    BY <2>2, <2>3 DEF Row, TypeOK
  <2>5. \A e \in Executions : e # d => pending'[e] = pending[e] /\ sent'[e] = sent[e]
    BY <2>2 DEF TypeOK
  <2> QED
    BY <1>0, <2>2, <2>3, <2>4, <2>5, Serving
<1>5. CASE CreateDispatchFail(h)
  <2>1. PICK d \in Executions : d = req[h].e
    BY <1>5 DEF CreateDispatchFail, TypeOK
  <2>2. /\ req'[h].pc = "idle" /\ req[h].pc = "saved"
        /\ UNCHANGED <<status, queuedAt, pending, sent>>
    BY <1>5 DEF CreateDispatchFail, TypeOK, IdleReq, rowVars, brokerVars
  <2>3. Row(d)' /\ queuedAt[d] = 0
    BY <1>1, <2>1, <2>2 DEF Row
  <2> QED
    BY <1>0, <1>1, <2>1, <2>2, <2>3, Serving
<1> QED
  BY <1>2, <1>3, <1>4, <1>5 DEF Handler

(* The workers, the owners and the sweeps change statuses of rows that      *)
(* exist, and consume tasks that were sent.                                *)
LEMMA EnvironmentFrame ==
  ASSUME IInv, NEW d \in Executions, Environment(d)
  PROVE  /\ UNCHANGED <<queuedAt, sent, lost, req, run>>
         /\ \A e \in Executions : pending'[e] <= pending[e] /\ pending'[e] \in Nat
         /\ \A e \in Executions : Row(e)' = Row(e)
<1> USE DEF IInv
<1>1. ASSUME NEW s \in Status, SetStatus(d, s), Row(d)
      PROVE  /\ UNCHANGED <<queuedAt, pending, sent, lost, req, run>>
             /\ \A e \in Executions : Row(e)' = Row(e)
  BY <1>1 DEF SetStatus, Row, TypeOK, brokerVars, Status, Active, Terminal
<1>2. CASE Progress(d) \/ CancelRequest(d) \/ CancelDone(d) \/ StaleCleanup(d)
  BY <1>1, <1>2
  DEF Progress, CancelRequest, CancelDone, StaleCleanup, Row, TypeOK,
      Status, Active, Terminal
<1>3. CASE RunTask(d)
  <2>1. sent[d] # 0
    BY <1>3 DEF RunTask, DispatchInv, TypeOK
  <2>2. Row(d)
    BY <2>1 DEF DispatchInv, Unseen
  <2> QED
    BY <1>3, <2>2 DEF RunTask, Row, TypeOK
<1>4. CASE RunTaskNoDocker(d)
  BY <1>4 DEF RunTaskNoDocker, Row, TypeOK, rowVars
<1> QED
  BY <1>2, <1>3, <1>4 DEF Environment, TypeOK

LEMMA InvEnvironment ==
  ASSUME IInv, NEW d \in Executions, Environment(d)
  PROVE  DispatchInv'
<1> USE DEF IInv
<1>1. /\ UNCHANGED <<queuedAt, sent, req, run>>
      /\ \A e \in Executions : pending'[e] <= pending[e] /\ pending'[e] \in Nat
      /\ \A e \in Executions : Row(e)' = Row(e)
  BY EnvironmentFrame
<1>2. ASSUME NEW e
      PROVE  Claims(e)' = Claims(e) /\ (Unseen(e)' <=> Unseen(e))
  <2>1. Claims(e)' = Claims(e)
    BY <1>1 DEF Claims
  <2> QED
    BY <1>1, <2>1 DEF Unseen
<1>3. WaitingNotDispatched'
  BY <1>1 DEF DispatchInv, WaitingNotDispatched
<1>4. ASSUME NEW e \in Executions
      PROVE  /\ ~Row(e)' => Unseen(e)'
             /\ (pending[e] <= sent[e])'
             /\ (sent[e] + Cardinality(Claims(e)) <= Cardinality(Processors))'
  <2>1. /\ ~Row(e) => Unseen(e)
        /\ pending[e] <= sent[e]
        /\ sent[e] + Cardinality(Claims(e)) <= Cardinality(Processors)
        /\ pending[e] \in Nat /\ sent[e] \in Nat
    BY DEF DispatchInv, TypeOK
  <2> QED
    BY <1>1, <1>2, <2>1
<1>5. ASSUME NEW g \in Handlers
      PROVE  /\ (req[g].pc = "checked" => ~Row(req[g].e))'
             /\ (req[g].pc = "saved" => Row(req[g].e) /\ Unseen(req[g].e))'
  <2>1. CASE req[g].pc = "idle"
    BY <1>1, <2>1
  <2>2. CASE req[g].pc # "idle"
    <3>1. PICK c \in Executions : c = req[g].e
      BY <2>2 DEF TypeOK
    <3>2. /\ req[g].pc = "checked" => ~Row(c)
          /\ req[g].pc = "saved" => Row(c) /\ Unseen(c)
      BY <3>1 DEF DispatchInv
    <3>3. /\ req'[g] = req[g]
          /\ req[g].pc = "checked" => ~Row(c)'
          /\ req[g].pc = "saved" => Row(c)' /\ Unseen(c)'
      BY <1>1, <1>2, <3>2
    <3> QED
      BY <3>1, <3>3 DEF Row, Unseen, Claims
  <2> QED
    BY <2>1, <2>2
<1> QED
  BY <1>1, <1>3, <1>4, <1>5 DEF DispatchInv

LEMMA InvInit == Init => IInv
<1> SUFFICES ASSUME Init PROVE IInv
  OBVIOUS
<1>1. TypeOK
  BY TypeInit
<1>2. \A e : Claims(e) = {}
  BY HeldByIdle DEF Init, Claims
<1>3. \A e \in Executions : Unseen(e) /\ sent[e] + Cardinality(Claims(e)) = 0
  BY <1>2, FS_EmptySet DEF Init, Unseen
<1>4. WaitingNotDispatched
  BY DEF Init, WaitingNotDispatched
<1>5. \A h \in Handlers : req[h].pc = "idle"
  BY DEF Init, IdleReq
<1>6. \A p \in Processors : Apart(run[p]) /\ run[p].pc # "cleared"
  BY HeldByIdle, NotCleared DEF Init
<1>7. \A e \in Executions : pending[e] <= sent[e]
  BY DEF Init
<1> QED
  BY <1>1, <1>3, <1>4, <1>5, <1>6, <1>7, SomeProcessor DEF IInv, DispatchInv

LEMMA InvNext == IInv /\ [Next]_vars => IInv'
<1> SUFFICES ASSUME IInv, [Next]_vars PROVE DispatchInv'
  BY TypeNext DEF IInv
<1>1. ASSUME UNCHANGED <<status, queuedAt, pending, sent, req, run>>
      PROVE  DispatchInv'
  BY <1>1 DEF IInv, DispatchInv, WaitingNotDispatched, Unseen, Row, Apart, Claims
<1>2. CASE \E s \in Rebuildable : Rebuild(s)
  BY <1>1, <1>2 DEF Rebuild, rowVars, brokerVars
<1>3. CASE \E u \in Promotable : ChangeRole(u)
  BY <1>1, <1>3 DEF ChangeRole, rowVars, brokerVars
<1>4. CASE UNCHANGED vars
  BY <1>1, <1>4 DEF vars, rowVars, brokerVars
<1> QED
  BY <1>2, <1>3, <1>4, InvCreate, InvProcessor, InvEnvironment DEF Next

(* The inductive invariant holds in every behaviour of the queue: whoever   *)
(* holds an execution has a dispatch of it left, and no processor comes to  *)
(* hold one whose queued_at was cleared or never set.                      *)
THEOREM DispatchInvariant == Spec => []DispatchInv
<1>1. IInv => DispatchInv
  BY DEF IInv
<1> QED
  BY <1>1, InvInit, InvNext, PTL DEF Spec

(* create_execution and process_queued_executions dispatch an execution at  *)
(* most once per processor that overlaps, whatever is cancelled, rebuilt,   *)
(* promoted, crashed or redelivered meanwhile.                             *)
THEOREM DispatchBounded == Spec => []DispatchBound
<1>1. IInv => DispatchBound
  <2> SUFFICES ASSUME IInv, NEW e \in Executions
               PROVE  sent[e] <= Cardinality(Processors)
    BY DEF DispatchBound
  <2>1. sent[e] \in Nat /\ sent[e] + Cardinality(Claims(e)) <= Cardinality(Processors)
    BY DEF IInv, TypeOK, DispatchInv
  <2> QED
    BY <2>1, ClaimsFinite, SomeProcessor
<1> QED
  BY <1>1, InvInit, InvNext, PTL DEF Spec

(* With one processor at a time, as beat and one worker give it, nothing is *)
(* dispatched twice.                                                       *)
THEOREM SingleDispatch ==
  ASSUME Cardinality(Processors) = 1
  PROVE  Spec => [](\A e \in Executions : sent[e] <= 1)
<1>1. DispatchBound => \A e \in Executions : sent[e] <= 1
  BY DEF DispatchBound
<1> QED
  BY <1>1, DispatchBounded, PTL

-----------------------------------------------------------------------------
(* No quiet loss                                                           *)

Accounted(e) ==
  \/ sent[e] > 0
  \/ e \in lost
  \/ \E h \in Handlers : req[h].pc = "saved" /\ req[h].e = e
  \/ \E p \in Processors : run[p].pc = "cleared" /\ run[p].e = e

LEMMA LossCreate ==
  ASSUME IInv, NoSilentLoss, NEW h \in Handlers, Handler(h)
  PROVE  NoSilentLoss'
<1> SUFFICES ASSUME NEW e \in Executions, Row(e)', queuedAt'[e] = 0
             PROVE  Accounted(e)'
  BY DEF NoSilentLoss, Accounted
<1> USE DEF IInv
<1>1. /\ run' = run /\ lost \subseteq lost'
      /\ \A g \in Handlers : g # h => req'[g] = req[g]
      /\ sent[e] > 0 => sent'[e] > 0
  BY DEF Handler, CreateCheck, CreateCommit, CreateDispatch, CreateDispatchFail, Send,
         TypeOK, brokerVars
<1>2. CASE req[h].e = e /\ req[h].pc = "checked"
  <2>1. CreateCommit(h)
    BY <1>2 DEF Handler, CreateCheck, CreateDispatch, CreateDispatchFail
  <2>2. queuedAt'[e] = req[h].at
    BY <1>2, <2>1 DEF CreateCommit, TypeOK
  <2>3. req'[h].pc = "saved" /\ req'[h].e = e
    BY <1>2, <2>1, <2>2 DEF CreateCommit, TypeOK, ReqType
  <2> QED
    BY <2>3 DEF Accounted
<1>3. CASE req[h].e = e /\ req[h].pc = "saved"
  <2>1. CASE CreateDispatch(h)
    <3>1. sent'[e] > 0
      BY <1>3, <2>1 DEF CreateDispatch, Send, TypeOK
    <3> QED
      BY <3>1 DEF Accounted
  <2>2. CASE CreateDispatchFail(h)
    BY <1>3, <2>2 DEF CreateDispatchFail, Accounted
  <2> QED
    BY <1>3, <2>1, <2>2 DEF Handler, CreateCheck, CreateCommit
<1>4. CASE ~(req[h].e = e /\ req[h].pc \in {"checked", "saved"})
  <2>1. Row(e) /\ queuedAt[e] = 0
    BY <1>4 DEF Handler, CreateCheck, CreateCommit, CreateDispatch, CreateDispatchFail,
                Row, TypeOK, rowVars
  <2>2. Accounted(e)
    BY <2>1 DEF NoSilentLoss, Accounted
  <2> QED
    BY <1>1, <1>4, <2>2 DEF Accounted
<1> QED
  BY <1>2, <1>3, <1>4

LEMMA LossProcessor ==
  ASSUME IInv, NoSilentLoss, NEW p \in Processors, Processor(p)
  PROVE  NoSilentLoss'
<1> SUFFICES ASSUME NEW e \in Executions, Row(e)', queuedAt'[e] = 0
             PROVE  Accounted(e)'
  BY DEF NoSilentLoss, Accounted
<1> USE DEF IInv
<1>0. \/ ProcClear(p)
      \/ ProcDispatch(p)
      \/ ProcDispatchFail(p)
      \/ ProcCrash(p)
      \/ /\ run[p].pc # "cleared"
         /\ UNCHANGED <<status, queuedAt, sent, lost, req>>
         /\ \A q \in Processors : q # p => run'[q] = run[q]
  BY DEF Processor, Advance, ProcStart, ProcFull, ProcCount, ProcSelect, ProcAdmin,
         ProcSkip, TypeOK, rowVars, brokerVars
<1>1. ASSUME Row(e), queuedAt[e] = 0, ~(run[p].pc = "cleared" /\ run[p].e = e),
             req' = req, lost \subseteq lost', sent[e] > 0 => sent'[e] > 0,
             \A q \in Processors : q # p => run'[q] = run[q]
      PROVE  Accounted(e)'
  BY <1>1 DEF NoSilentLoss, Accounted
<1>2. CASE ProcClear(p)
  <2>1. PICK i \in run[p].todo :
          /\ queuedAt' = [queuedAt EXCEPT ![i.e] = 0]
          /\ run' = [run EXCEPT ![p] =
               [run[p] EXCEPT !.pc = "cleared", !.todo = run[p].todo \ {i}, !.e = i.e]]
    BY <1>2 DEF ProcClear, Heads
  <2>2. /\ run'[p].pc = "cleared" /\ run'[p].e = i.e
        /\ \A q \in Processors : q # p => run'[q] = run[q]
    BY <2>1 DEF TypeOK, RunType
  <2>3. CASE i.e = e
    BY <2>2, <2>3 DEF Accounted
  <2>4. CASE i.e # e
    <3>1. Row(e) /\ queuedAt[e] = 0
      BY <1>2, <2>1, <2>4 DEF ProcClear, Row, TypeOK
    <3>2. UNCHANGED <<sent, lost, req>> /\ run[p].pc # "cleared"
      BY <1>2 DEF ProcClear, brokerVars
    <3> QED
      BY <1>1, <2>2, <3>1, <3>2
  <2> QED
    BY <2>3, <2>4
<1>3. CASE ProcDispatch(p)
  <2>1. /\ run[p].e \in Executions
        /\ sent' = [sent EXCEPT ![run[p].e] = @ + 1]
        /\ UNCHANGED <<status, queuedAt, lost, req>>
        /\ \A q \in Processors : q # p => run'[q] = run[q]
    BY <1>3 DEF ProcDispatch, Send, TypeOK, rowVars
  <2>2. CASE run[p].e = e
    <3>1. sent'[e] > 0
      BY <2>1, <2>2 DEF TypeOK
    <3> QED
      BY <3>1 DEF Accounted
  <2>3. CASE run[p].e # e
    <3>1. sent'[e] = sent[e] /\ Row(e) /\ queuedAt[e] = 0
      BY <2>1, <2>3 DEF TypeOK, Row
    <3> QED
      BY <1>1, <2>1, <2>3, <3>1
  <2> QED
    BY <2>2, <2>3
<1>4. CASE ProcDispatchFail(p) \/ ProcCrash(p)
  <2>1. /\ UNCHANGED <<status, queuedAt, sent, req>> /\ lost \subseteq lost'
        /\ \A q \in Processors : q # p => run'[q] = run[q]
        /\ run[p].pc = "cleared" => run[p].e \in lost'
    BY <1>4 DEF ProcDispatchFail, ProcCrash, TypeOK, rowVars, brokerVars
  <2>2. CASE run[p].pc = "cleared" /\ run[p].e = e
    BY <2>1, <2>2 DEF Accounted
  <2>3. CASE ~(run[p].pc = "cleared" /\ run[p].e = e)
    <3>1. Row(e) /\ queuedAt[e] = 0
      BY <2>1 DEF Row
    <3> QED
      BY <1>1, <2>1, <2>3, <3>1
  <2> QED
    BY <2>2, <2>3
<1>5. CASE /\ run[p].pc # "cleared"
           /\ UNCHANGED <<status, queuedAt, sent, lost, req>>
           /\ \A q \in Processors : q # p => run'[q] = run[q]
  BY <1>1, <1>5 DEF Row
<1> QED
  BY <1>0, <1>2, <1>3, <1>4, <1>5

LEMMA LossNext == IInv /\ NoSilentLoss /\ [Next]_vars => NoSilentLoss'
<1> SUFFICES ASSUME IInv, NoSilentLoss, [Next]_vars PROVE NoSilentLoss'
  OBVIOUS
<1>1. CASE \E d \in Executions : Environment(d)
  BY <1>1, EnvironmentFrame DEF NoSilentLoss
<1>2. CASE \E s \in Rebuildable : Rebuild(s)
  BY <1>2 DEF Rebuild, NoSilentLoss, Row, rowVars, brokerVars
<1>3. CASE \E u \in Promotable : ChangeRole(u)
  BY <1>3 DEF ChangeRole, NoSilentLoss, Row, rowVars, brokerVars
<1>4. CASE UNCHANGED vars
  BY <1>4 DEF vars, NoSilentLoss, Row, rowVars, brokerVars
<1> QED
  BY <1>1, <1>2, <1>3, <1>4, LossCreate, LossProcessor DEF Next

(* A committed execution that left the queue is dispatched, in somebody's   *)
(* hands, or was hit by a fault: no path of create_execution or of the      *)
(* queue processor forgets it.                                             *)
THEOREM NothingLostSilently == Spec => []NoSilentLoss
<1>1. Init => NoSilentLoss
  BY DEF Init, NoSilentLoss, Row
<1> QED
  BY <1>1, InvInit, InvNext, LossNext, PTL DEF Spec

-----------------------------------------------------------------------------
(* First in, first out                                                     *)

(* Timestamps are given in the order of the commits, and a processor that  *)
(* is in the middle of a batch leaves only later executions to others.     *)
FifoInv ==
  /\ admins = {} /\ built = Scripts
  /\ \A e \in Executions :
       /\ queuedAt[e] <= clock
       /\ \A f \in Executions : queuedAt[e] # 0 /\ queuedAt[e] = queuedAt[f] => e = f
  /\ \A h \in Handlers : req[h].pc = "checked" /\ req[h].at # 0 =>
       /\ req[h].at <= clock
       /\ \A e \in Executions : queuedAt[e] < req[h].at
       /\ \A p \in Processors : \A i \in run[p].todo : i.at < req[h].at
  /\ \A p \in Processors : ~run[p].admin /\ \A i \in run[p].todo :
       /\ i.at <= clock
       /\ queuedAt[i.e] \in {0, i.at}
       /\ \A f \in Executions :
            Waiting(f) /\ Owner[f] = Owner[i.e] /\ (\A j \in run[p].todo : j.e # f)
              => i.at <= queuedAt[f]

(* What a batch is made of.                                                *)
LEMMA NextItemTodo ==
  ASSUME NEW r \in RunType, NEW todo, ~r.admin
  PROVE  NextItem(r, todo).todo = todo /\ ~NextItem(r, todo).admin
BY DEF NextItem, NextUser, IdleRun, RunType

LEMMA NextUserTodo ==
  ASSUME NEW users
  PROVE  NextUser(users).todo = {} /\ ~NextUser(users).admin
BY DEF NextUser, IdleRun

(* A processor moves on; its batch is part of the old one, or fresh.       *)
LEMMA FifoMoves ==
  ASSUME IInv, FifoInv, NEW p \in Processors, NEW v,
         run' = [run EXCEPT ![p] = v], ~v.admin,
         v.todo \subseteq run[p].todo \cup Items(Executions),
         \A e \in Executions : queuedAt'[e] \in {queuedAt[e], 0},
         \A i \in v.todo, f \in Executions :
           /\ status[f] = "PENDING" /\ queuedAt'[f] # 0 /\ Owner[f] = Owner[i.e]
           /\ \A j \in v.todo : j.e # f
           => i.at <= queuedAt[f],
         UNCHANGED <<status, clock, built, admins, req>>
  PROVE  FifoInv'
<1>1. /\ run'[p] = v
      /\ \A q \in Processors : q # p => run'[q] = run[q]
  BY DEF IInv, TypeOK
<1>2. \A e \in Executions : queuedAt[e] \in Nat
  BY DEF IInv, TypeOK
<1>3. \A e \in Executions :
        /\ queuedAt'[e] <= clock
        /\ \A f \in Executions : queuedAt'[e] # 0 /\ queuedAt'[e] = queuedAt'[f] => e = f
  <2>1. clock \in Nat
    BY DEF IInv, TypeOK
  <2> QED
    BY <1>2, <2>1 DEF FifoInv
<1>4. \A i \in v.todo : i.at <= clock /\ queuedAt'[i.e] \in {0, i.at}
  <2>1. \A i \in Items(Executions) :
          i.e \in Executions /\ i.at <= clock /\ queuedAt[i.e] = i.at
    BY DEF Items, FifoInv
  <2>2. \A i \in run[p].todo :
          i.e \in Executions /\ i.at <= clock /\ queuedAt[i.e] \in {0, i.at}
    BY DEF IInv, TypeOK, RunType, ItemType, FifoInv
  <2> QED
    BY <2>1, <2>2
<1>5. ASSUME NEW h \in Handlers, req[h].pc = "checked", req[h].at # 0
      PROVE  /\ req[h].at <= clock
             /\ \A e \in Executions : queuedAt'[e] < req[h].at
             /\ \A q \in Processors : \A i \in run'[q].todo : i.at < req[h].at
  <2>1. /\ req[h].at <= clock
        /\ \A e \in Executions : queuedAt[e] < req[h].at
        /\ \A q \in Processors : \A i \in run[q].todo : i.at < req[h].at
    BY <1>5 DEF FifoInv
  <2>2. req[h].at \in Nat
    BY DEF IInv, TypeOK, ReqType
  <2>3. \A i \in v.todo : i.at < req[h].at
    BY <2>1 DEF Items
  <2>4. \A e \in Executions : queuedAt'[e] < req[h].at
    BY <1>2, <1>5, <2>1, <2>2
  <2> QED
    BY <1>1, <2>1, <2>3, <2>4
<1>6. ASSUME NEW q \in Processors, q # p, NEW i \in run[q].todo, NEW f \in Executions,
             Waiting(f)', Owner[f] = Owner[i.e], \A j \in run[q].todo : j.e # f
      PROVE  i.at <= queuedAt'[f]
  BY <1>6 DEF FifoInv, Waiting
<1>7. ASSUME NEW i \in v.todo, NEW f \in Executions,
             Waiting(f)', Owner[f] = Owner[i.e], \A j \in v.todo : j.e # f
      PROVE  i.at <= queuedAt'[f]
  BY <1>7 DEF Waiting
<1>8. ASSUME NEW q \in Processors, q # p
      PROVE  ~run[q].admin /\ \A i \in run[q].todo :
               i.at <= clock /\ queuedAt'[i.e] \in {0, i.at}
  <2>1. \A i \in run[q].todo : i.e \in Executions
    BY DEF IInv, TypeOK, RunType, ItemType
  <2> QED
    BY <2>1 DEF FifoInv
<1> QED
  BY <1>1, <1>3, <1>4, <1>5, <1>6, <1>7, <1>8 DEF FifoInv

LEMMA FifoProcessor ==
  ASSUME IInv, FifoInv, NEW p \in Processors, Processor(p)
  PROVE  FifoInv'
<1> DEFINE r == run[p]
<1>0. /\ r \in RunType /\ ~r.admin /\ r.todo \in SUBSET ItemType
      /\ \A e \in Executions : queuedAt[e] \in Nat
  BY DEF IInv, TypeOK, RunType, FifoInv
<1>1. \A i \in r.todo, f \in Executions :
        /\ status[f] = "PENDING" /\ queuedAt[f] # 0 /\ Owner[f] = Owner[i.e]
        /\ \A j \in r.todo : j.e # f
        => i.at <= queuedAt[f]
  BY DEF FifoInv, Waiting
<1>2. ASSUME NEW v, run' = [run EXCEPT ![p] = v], ~v.admin, v.todo = {} \/ v.todo = r.todo,
             UNCHANGED <<rowVars, clock, configVars, req>>
      PROVE  FifoInv'
  BY <1>1, <1>2, FifoMoves DEF rowVars, configVars
<1>3. CASE ProcStart(p)
  <2>1. PICK S : run' = [run EXCEPT ![p] = NextUser(S)]
    BY <1>3 DEF ProcStart
  <2> QED
    BY <1>2, <1>3, <2>1, NextUserTodo DEF ProcStart
<1>4. CASE ProcSelect(p)
  <2> DEFINE all == Items(WaitingOf(r.user))
  <2>1. PICK S \in Oldest(all, r.slots) : run' = [run EXCEPT ![p] = NextItem(r, S)]
    BY <1>4 DEF ProcSelect
  <2>2. S \subseteq all /\ \A i \in S, j \in all \ S : i.at <= j.at
    BY <2>1 DEF Oldest
  <2>3. ASSUME NEW i \in S, NEW f \in Executions, status[f] = "PENDING", queuedAt[f] # 0,
               Owner[f] = Owner[i.e], \A j \in S : j.e # f
        PROVE  i.at <= queuedAt[f]
    <3>1. Owner[i.e] = r.user
      BY <2>2 DEF Items, WaitingOf
    <3>2. [e |-> f, at |-> queuedAt[f]] \in all \ S
      BY <2>3, <3>1 DEF Items, WaitingOf, Waiting
    <3> QED
      BY <2>2, <3>2
  <2>4. S \subseteq Items(Executions)
    BY <2>2 DEF Items, WaitingOf
  <2>5. NextItem(r, S).todo = S /\ ~NextItem(r, S).admin
    BY <1>0, NextItemTodo
  <2>6. UNCHANGED <<status, queuedAt, clock, built, admins, req>>
    BY <1>4 DEF ProcSelect, rowVars, configVars
  <2> DEFINE v == NextItem(r, S)
  <2>7. run' = [run EXCEPT ![p] = v] /\ v.todo = S /\ ~v.admin
    BY <2>1, <2>5
  <2> HIDE DEF v
  <2> QED
    BY <2>3, <2>4, <2>6, <2>7, FifoMoves
<1>5. CASE ProcSkip(p)
  BY <1>0, <1>5, QueueAssumption DEF ProcSkip, Heads, FifoInv, ItemType
<1>6. CASE ProcClear(p)
  <2>1. PICK i \in Heads(r) :
          /\ queuedAt' = [queuedAt EXCEPT ![i.e] = 0]
          /\ run' = [run EXCEPT ![p] =
                       [r EXCEPT !.pc = "cleared", !.todo = r.todo \ {i}, !.e = i.e]]
    BY <1>6 DEF ProcClear
  <2> DEFINE v == [r EXCEPT !.pc = "cleared", !.todo = r.todo \ {i}, !.e = i.e]
  <2>2. v.todo = r.todo \ {i} /\ ~v.admin /\ i \in r.todo
    BY <1>0, <2>1 DEF RunType, Heads
  <2>3. queuedAt'[i.e] = 0 /\ \A e \in Executions : e # i.e => queuedAt'[e] = queuedAt[e]
    BY <1>0, <2>1, <2>2 DEF ItemType, IInv, TypeOK
  <2>4. ASSUME NEW j \in v.todo, NEW f \in Executions, status[f] = "PENDING", queuedAt'[f] # 0,
               Owner[f] = Owner[j.e], \A k \in v.todo : k.e # f
        PROVE  j.at <= queuedAt[f]
    BY <1>1, <2>2, <2>3, <2>4
  <2>5. run' = [run EXCEPT ![p] = v]
    BY <2>1
  <2> HIDE DEF v
  <2> QED
    BY <1>6, <2>2, <2>3, <2>4, <2>5, FifoMoves DEF ProcClear, configVars
<1>7. CASE ProcDispatch(p)
  BY <1>0, <1>2, <1>7, NextItemTodo DEF ProcDispatch
<1>8. ASSUME NEW u \in Users, ProcFull(p, u)
      PROVE  FifoInv'
  BY <1>2, <1>8, NextUserTodo DEF ProcFull
<1>9. ASSUME NEW u \in Users, ProcCount(p, u)
      PROVE  FifoInv'
  <2> DEFINE n == MaxConcurrent[u] - Cardinality(ActiveOf(u))
             v == [r EXCEPT !.pc = "counted", !.users = r.users \ {u},
                            !.user = u, !.slots = n]
  <2>1. run' = [run EXCEPT ![p] = v]
    BY <1>9 DEF ProcCount
  <2> HIDE DEF n
  <2>2. ~v.admin /\ v.todo = r.todo
    BY <1>0 DEF RunType
  <2> HIDE DEF v
  <2> QED
    BY <1>2, <1>9, <2>1, <2>2 DEF ProcCount
<1>10. ASSUME NEW u \in Users
       PROVE  ~ProcAdmin(p, u)
  BY DEF ProcAdmin, FifoInv
<1>11. CASE ProcDispatchFail(p)
  BY <1>0, <1>2, <1>11, NextItemTodo DEF ProcDispatchFail
<1>12. CASE ProcCrash(p)
  <2>1. ~IdleRun.admin /\ IdleRun.todo = {}
    BY DEF IdleRun
  <2> QED
    BY <1>2, <1>12, <2>1 DEF ProcCrash
<1> QED
  BY <1>3, <1>4, <1>5, <1>6, <1>7, <1>8, <1>9, <1>10, <1>11, <1>12
  DEF Processor, Advance

(* The only API thread gives its row a timestamp and commits it before it  *)
(* gives the next one.                                                     *)
LEMMA FifoCreate ==
  ASSUME IInv, FifoInv, NEW h \in Handlers, \A g \in Handlers : g = h, Handler(h)
  PROVE  FifoInv'
<1>0. /\ clock \in Nat /\ \A e \in Executions : queuedAt[e] \in Nat
      /\ req[h].at \in Nat /\ (req[h].pc # "idle" => req[h].e \in Executions)
      /\ req[h].e \in Executions /\ ~Row(req[h].e) => Unseen(req[h].e)
      /\ req[h].pc = "checked" => ~Row(req[h].e)
      /\ \A p \in Processors : run[p].todo \in SUBSET ItemType
  BY DEF IInv, TypeOK, ReqType, DispatchInv, RunType
<1>1. ASSUME NEW e \in Executions, CreateCheck(h, e)
      PROVE  FifoInv'
  <2>1. PICK at : /\ req' = [req EXCEPT ![h] = [pc |-> "checked", e |-> e, at |-> at]]
                  /\ \/ at = clock + 1 /\ clock' = clock + 1
                     \/ at = 0 /\ clock' = clock
    <3> DEFINE queue == Owner[e] \notin admins /\ ~HasCapacity(Owner[e])
    <3>1. /\ req' = [req EXCEPT ![h] =
                       [pc |-> "checked", e |-> e, at |-> IF queue THEN clock + 1 ELSE 0]]
          /\ clock' = clock + (IF queue THEN 1 ELSE 0)
      BY <1>1 DEF CreateCheck
    <3> HIDE DEF queue
    <3>2. CASE queue
      BY <3>1, <3>2
    <3>3. CASE ~queue
      <4>1. clock' = clock
        BY <1>0, <3>1, <3>3
      <4>2. req' = [req EXCEPT ![h] = [pc |-> "checked", e |-> e, at |-> 0]]
        BY <3>1, <3>3
      <4> QED
        BY <4>1, <4>2
    <3> QED
      BY <3>2, <3>3
  <2>2. req'[h].at = at
    BY <2>1 DEF IInv, TypeOK
  <2>3. \A p \in Processors : \A i \in run[p].todo : i.at \in Nat /\ i.at <= clock
    BY <1>0 DEF FifoInv, ItemType
  <2>4. UNCHANGED <<status, queuedAt, built, admins, run>>
    BY <1>1 DEF CreateCheck, rowVars, configVars
  <2>5. at # 0 =>
          /\ at <= clock'
          /\ \A f \in Executions : queuedAt[f] < at
          /\ \A p \in Processors : \A i \in run[p].todo : i.at < at
    BY <1>0, <2>1, <2>3 DEF FifoInv
  <2>6. \A f \in Executions : queuedAt[f] <= clock'
    BY <1>0, <2>1 DEF FifoInv
  <2>7. \A p \in Processors : \A i \in run[p].todo : i.at <= clock'
    BY <1>0, <2>1, <2>3
  <2> QED
    BY <2>2, <2>4, <2>5, <2>6, <2>7 DEF FifoInv, Waiting
<1>2. CASE CreateCommit(h)
  <2>0. PICK d \in Executions, at \in Nat : d = req[h].e /\ at = req[h].at
    BY <1>0, <1>2 DEF CreateCommit
  <2>1. /\ d \in Executions /\ status'[d] = "PENDING" /\ queuedAt'[d] = at
        /\ \A e \in Executions : e # d => status'[e] = status[e] /\ queuedAt'[e] = queuedAt[e]
        /\ UNCHANGED <<clock, built, admins, run>>
    BY <1>0, <1>2, <2>0 DEF CreateCommit, IInv, TypeOK, configVars
  <2>2. req'[h].pc # "checked"
    BY <1>0, <1>2 DEF CreateCommit, IInv, TypeOK, ReqType, IdleReq
  <2>3. Unseen(d) /\ queuedAt[d] = 0
    BY <1>0, <1>2, <2>0 DEF CreateCommit, Unseen
  <2>4. \A p \in Processors : \A i \in run[p].todo : i.e # d
    BY <2>3 DEF Unseen, Claims, HeldBy
  <2>5. at # 0 =>
          /\ at <= clock
          /\ \A e \in Executions : queuedAt[e] < at
          /\ \A p \in Processors : \A i \in run[p].todo : i.at < at
    BY <1>2, <2>0 DEF FifoInv, CreateCommit
  <2>6. \A e \in Executions :
          /\ queuedAt'[e] <= clock
          /\ \A f \in Executions : queuedAt'[e] # 0 /\ queuedAt'[e] = queuedAt'[f] => e = f
    <3>1. ASSUME NEW e \in Executions
          PROVE  queuedAt'[e] <= clock
      BY <1>0, <2>1, <2>5 DEF FifoInv
    <3>2. ASSUME NEW e \in Executions, NEW f \in Executions, queuedAt'[e] # 0,
                 queuedAt'[e] = queuedAt'[f], e # f
          PROVE  FALSE
      <4>1. CASE e = d \/ f = d
        BY <1>0, <2>1, <2>5, <3>2, <4>1
      <4>2. CASE e # d /\ f # d
        BY <2>1, <3>2, <4>2 DEF FifoInv
      <4> QED
        BY <4>1, <4>2
    <3> QED
      BY <3>1, <3>2
  <2>7. ASSUME NEW p \in Processors, NEW i \in run[p].todo
        PROVE  /\ i.at <= clock /\ queuedAt'[i.e] \in {0, i.at}
               /\ \A f \in Executions :
                    Waiting(f)' /\ Owner[f] = Owner[i.e] /\ (\A j \in run[p].todo : j.e # f)
                      => i.at <= queuedAt'[f]
    <3>1. i.e \in Executions /\ i.e # d /\ i.at \in Nat
      BY <1>0, <2>4 DEF ItemType
    <3>2. /\ i.at <= clock /\ queuedAt[i.e] \in {0, i.at}
          /\ \A f \in Executions :
               Waiting(f) /\ Owner[f] = Owner[i.e] /\ (\A j \in run[p].todo : j.e # f)
                 => i.at <= queuedAt[f]
      BY DEF FifoInv
    <3>3. Waiting(d)' => i.at <= queuedAt'[d]
      BY <1>0, <2>1, <2>5, <3>1 DEF Waiting
    <3>4. \A f \in Executions : f # d => Waiting(f)' = Waiting(f) /\ queuedAt'[f] = queuedAt[f]
      BY <2>1 DEF Waiting
    <3> QED
      BY <2>1, <3>1, <3>2, <3>3, <3>4
  <2> QED
    BY <2>1, <2>2, <2>6, <2>7 DEF FifoInv
<1>3. CASE CreateDispatch(h) \/ CreateDispatchFail(h)
  <2>1. /\ UNCHANGED <<status, queuedAt, clock, built, admins, run>>
        /\ req'[h].pc # "checked"
    BY <1>3
    DEF CreateDispatch, CreateDispatchFail, IdleReq, IInv, TypeOK, rowVars, configVars
  <2> QED
    BY <2>1 DEF FifoInv, Waiting
<1> QED
  BY <1>1, <1>2, <1>3 DEF Handler

LEMMA FifoEnvironment ==
  ASSUME IInv, FifoInv, NEW d \in Executions, Environment(d)
  PROVE  FifoInv'
<1>1. UNCHANGED <<queuedAt, req, run>>
  BY EnvironmentFrame
<1>2. /\ UNCHANGED <<clock, built, admins>>
      /\ \A e \in Executions : status'[e] = "PENDING" => status[e] = "PENDING"
  BY DEF Environment, RunTask, RunTaskNoDocker, Progress, CancelRequest, CancelDone,
         StaleCleanup, SetStatus, IInv, TypeOK, rowVars, configVars
<1>3. \A e \in Executions : Waiting(e)' => Waiting(e)
  BY <1>1, <1>2 DEF Waiting
<1> QED
  BY <1>1, <1>2, <1>3 DEF FifoInv

LEMMA FifoNext ==
  ASSUME IInv, FifoInv, \A g, h \in Handlers : g = h, Promotable = {}, Rebuildable = {},
         [Next]_vars
  PROVE  FifoInv'
<1>1. CASE UNCHANGED vars
  BY <1>1 DEF vars, rowVars, configVars, FifoInv, Waiting
<1> QED
  BY <1>1, FifoProcessor, FifoCreate, FifoEnvironment DEF Next

(* What leaves the queue is the head of a batch.                           *)
LEMMA FifoStep ==
  ASSUME IInv, FifoInv, \A g, h \in Handlers : g = h, Promotable = {}, Rebuildable = {}, Next,
         NEW e \in Executions, NEW f \in Executions,
         queuedAt[e] # 0, queuedAt'[e] = 0, e # f, Owner[e] = Owner[f], Waiting(f)
  PROVE  queuedAt[e] < queuedAt[f]
<1>1. ASSUME NEW h \in Handlers, Handler(h)
      PROVE  FALSE
  <2>1. CreateCommit(h)
    BY <1>1 DEF Handler, CreateCheck, CreateDispatch, CreateDispatchFail, rowVars
  <2>2. req[h].e \in Executions /\ Unseen(req[h].e)
    BY <2>1 DEF CreateCommit, IInv, TypeOK, DispatchInv
  <2> QED
    BY <2>1, <2>2 DEF CreateCommit, Unseen, IInv, TypeOK
<1>2. ASSUME NEW d \in Executions, Environment(d)
      PROVE  FALSE
  BY <1>2, EnvironmentFrame
<1>3. PICK p \in Processors : Processor(p)
  BY <1>1, <1>2 DEF Next
<1>4. ProcClear(p)
  BY <1>3
  DEF Processor, Advance, ProcStart, ProcSelect, ProcSkip, ProcDispatch, ProcFull, ProcCount,
      ProcAdmin, ProcDispatchFail, ProcCrash, rowVars
<1>5. PICK i \in Heads(run[p]) : queuedAt' = [queuedAt EXCEPT ![i.e] = 0]
  BY <1>4 DEF ProcClear
<1>6. /\ i \in run[p].todo /\ i \in ItemType /\ \A j \in run[p].todo : i.at <= j.at
      /\ run[p].todo \in SUBSET ItemType
  BY <1>5 DEF Heads, FifoInv, IInv, TypeOK, RunType
<1>7. e = i.e /\ queuedAt[e] = i.at
  BY <1>5, <1>6 DEF FifoInv, IInv, TypeOK
<1>8. queuedAt[f] # 0 /\ queuedAt[e] # queuedAt[f] /\ queuedAt[e] \in Nat /\ queuedAt[f] \in Nat
  BY DEF FifoInv, Waiting, IInv, TypeOK
<1>9. i.at <= queuedAt[f]
  <2>1. CASE \E j \in run[p].todo : j.e = f
    BY <1>6, <1>8, <2>1 DEF FifoInv
  <2>2. CASE \A j \in run[p].todo : j.e # f
    BY <1>6, <1>7, <2>2 DEF FifoInv
  <2> QED
    BY <2>1, <2>2
<1> QED
  BY <1>7, <1>8, <1>9

(* A user's executions leave the queue in the order in which they joined   *)
(* it, although any number of processors overlap, each with a batch that   *)
(* it selected some time ago.  One API thread, as two commit out of the    *)
(* order of their timestamps; users who are no admins, whose batch has no  *)
(* order; scripts that stay built, as a skipped execution is overtaken.    *)
THEOREM FifoAdmitted ==
  ASSUME \A g, h \in Handlers : g = h, Admins = {}, Promotable = {}, Rebuildable = {}
  PROVE  Spec => FifoAdmission
<1>1. Init => FifoInv
  BY DEF Init, FifoInv, IdleReq, IdleRun, Waiting
<1>2. IInv /\ FifoInv /\ [Next]_vars => FifoInv'
  BY FifoNext
<1>3. IInv /\ FifoInv /\ [Next]_vars =>
        [\A e, f \in Executions :
           /\ queuedAt[e] # 0 /\ queuedAt'[e] = 0
           /\ e # f /\ Owner[e] = Owner[f] /\ Waiting(f)
           => queuedAt[e] < queuedAt[f]]_vars
  BY FifoStep
<1> QED
  BY <1>1, <1>2, <1>3, InvInit, InvNext, PTL DEF Spec, FifoAdmission

-----------------------------------------------------------------------------
(* The promise made for each execution                                     *)

(* With a single processor: what it holds is still in the queue, and what  *)
(* is lost is in nobody's hands, neither before it was lost nor after.     *)
LoneInv ==
  /\ \A e \in Executions : ~Row(e) \/ queuedAt[e] # 0 => e \notin lost
  /\ \A h \in Handlers : req[h].pc = "saved" => req[h].e \notin lost
  /\ \A p \in Processors :
       /\ run[p].pc = "cleared" => run[p].e \notin lost
       /\ \A i \in run[p].todo : queuedAt[i.e] # 0

LEMMA OnlyOne ==
  ASSUME Cardinality(Processors) = 1
  PROVE  \A p, q \in Processors : p = q
<1>1. PICK x : Processors = {x}
  BY FS_Singleton, QueueAssumption
<1> QED
  BY <1>1

(* One execution moves from a stage to the next, the others stay.          *)
Moves(d, from, to) ==
  /\ Stage(d) = from /\ Stage(d)' = to
  /\ \A e \in Executions : e # d => Stage(e)' = Stage(e)

LEMMA MovesMove ==
  ASSUME NEW d \in Executions, NEW from, NEW to, Moves(d, from, to)
  PROVE  Promise!Move(d, from, to)
BY DEF Moves, Promise!Move

(* Steps that only touch the row, the dispatches and the losses of one.    *)
Only(d) ==
  \A e \in Executions : e # d =>
    /\ status'[e] = status[e] /\ queuedAt'[e] = queuedAt[e]
    /\ sent'[e] = sent[e] /\ (e \in lost' <=> e \in lost)

LEMMA OthersStay ==
  ASSUME NEW d \in Executions, Only(d)
  PROVE  \A e \in Executions : e # d => Stage(e)' = Stage(e)
BY DEF Only, Stage, Row

PromiseStep == [Promise!Next]_<<[e \in Executions |-> Stage(e)], sent>>

LEMMA NoStage ==
  ASSUME UNCHANGED <<queuedAt, sent, lost>>, \A e \in Executions : Row(e)' = Row(e)
  PROVE  PromiseStep
<1>1. \A e \in Executions : Stage(e)' = Stage(e)
  BY DEF Stage
<1> QED
  BY <1>1 DEF PromiseStep

LEMMA LoneCreate ==
  ASSUME IInv, LoneInv, NEW h \in Handlers, Handler(h)
  PROVE  LoneInv' /\ PromiseStep
<1>0. /\ run' = run /\ \A g \in Handlers : g # h => req'[g] = req[g]
      /\ \A p \in Processors : run[p].todo \in SUBSET ItemType
  BY DEF Handler, CreateCheck, CreateCommit, CreateDispatch, CreateDispatchFail,
         IInv, TypeOK, RunType
<1>1. ASSUME NEW e \in Executions, CreateCheck(h, e)
      PROVE  LoneInv' /\ PromiseStep
  <2>1. UNCHANGED <<status, queuedAt, sent, lost>> /\ req'[h].pc = "checked"
    BY <1>1 DEF CreateCheck, IInv, TypeOK, rowVars, brokerVars
  <2>2. PromiseStep
    BY <2>1, NoStage DEF Row
  <2> QED
    BY <1>0, <2>1, <2>2 DEF LoneInv, Row
<1>2. ASSUME req[h].pc # "idle"
      PROVE  \E d \in Executions : d = req[h].e
  BY <1>2 DEF IInv, TypeOK
<1>3. CASE CreateCommit(h)
  <2>0. PICK d \in Executions : d = req[h].e
    BY <1>2, <1>3 DEF CreateCommit
  <2>1. /\ status'[d] = "PENDING" /\ queuedAt'[d] = req[h].at /\ UNCHANGED <<sent, lost>>
        /\ \A e \in Executions : e # d => status'[e] = status[e] /\ queuedAt'[e] = queuedAt[e]
        /\ req'[h].pc = "saved" => req'[h].e = d
    BY <1>3, <2>0
    DEF CreateCommit, IInv, TypeOK, ReqType, IdleReq, brokerVars
  <2>2. ~Row(d) /\ Unseen(d) /\ d \notin lost /\ sent[d] = 0
    BY <1>3, <2>0 DEF CreateCommit, IInv, DispatchInv, LoneInv, Unseen
  <2>3. \A p \in Processors : \A i \in run[p].todo : i.e # d
    BY <2>2 DEF Unseen, Claims, HeldBy
  <2>4. LoneInv'
    <3>1. \A e \in Executions : ~Row(e)' \/ queuedAt'[e] # 0 => e \notin lost
      BY <2>1, <2>2 DEF LoneInv, Row
    <3>2. \A g \in Handlers : req'[g].pc = "saved" => req'[g].e \notin lost
      BY <1>0, <2>1, <2>2 DEF LoneInv
    <3>3. \A p \in Processors : \A i \in run[p].todo : queuedAt'[i.e] # 0
      BY <1>0, <2>1, <2>3 DEF LoneInv, ItemType
    <3> QED
      BY <1>0, <2>1, <3>1, <3>2, <3>3 DEF LoneInv
  <2>5. Stage(d) = "new" /\ Stage(d)' \in {"waiting", "admitted"}
    BY <2>1, <2>2 DEF Stage, Row
  <2>6. \E to \in {"waiting", "admitted"} : Moves(d, "new", to)
    BY <2>1, <2>5, OthersStay DEF Only, Moves
  <2>7. Promise!Submit(d)
    BY <2>1, <2>6, MovesMove DEF Promise!Submit
  <2> QED
    BY <2>4, <2>7 DEF PromiseStep, Promise!Next
<1>4. CASE CreateDispatch(h) \/ CreateDispatchFail(h)
  <2>0. PICK d \in Executions : d = req[h].e
    BY <1>2, <1>4 DEF CreateDispatch, CreateDispatchFail
  <2>1. /\ Row(d) /\ Unseen(d) /\ d \notin lost /\ sent[d] = 0 /\ queuedAt[d] = 0
        /\ \A g \in Handlers : g # h /\ req[g].pc # "idle" => req[g].e # d
    BY <1>4, <2>0
    DEF CreateDispatch, CreateDispatchFail, IInv, DispatchInv, LoneInv, Unseen
  <2>2. /\ UNCHANGED <<status, queuedAt>> /\ req'[h].pc = "idle"
    BY <1>4
    DEF CreateDispatch, CreateDispatchFail, rowVars, IInv, TypeOK, IdleReq
  <2>3. lost' \subseteq lost \cup {d}
    BY <1>4, <2>0 DEF CreateDispatch, CreateDispatchFail
  <2>4. \A p \in Processors : run[p].pc = "cleared" => run[p].e # d
    BY <2>1 DEF Unseen, Claims, HeldBy
  <2>5. LoneInv'
    <3>1. \A e \in Executions : ~Row(e)' \/ queuedAt'[e] # 0 => e \notin lost'
      BY <2>1, <2>2, <2>3 DEF LoneInv, Row
    <3>2. \A g \in Handlers : req'[g].pc = "saved" => req'[g].e \notin lost'
      BY <1>0, <2>1, <2>2, <2>3 DEF LoneInv
    <3> QED
      BY <1>0, <2>2, <2>3, <2>4, <3>1, <3>2 DEF LoneInv
  <2>6. Stage(d) = "admitted"
    BY <2>1 DEF Stage
  <2>7. CASE CreateDispatch(h)
    <3>1. /\ sent' = [sent EXCEPT ![d] = @ + 1] /\ lost' = lost /\ sent'[d] = 1
          /\ \A e \in Executions : e # d => sent'[e] = sent[e]
      <4>1. sent' = [sent EXCEPT ![d] = @ + 1] /\ lost' = lost
        BY <2>0, <2>7 DEF CreateDispatch, Send
      <4>2. sent \in [Executions -> Nat]
        BY DEF IInv, TypeOK
      <4> QED
        BY <2>1, <4>1, <4>2
    <3>2. Stage(d)' = "dispatched"
      BY <2>1, <2>2, <3>1 DEF Stage, Row
    <3>3. Moves(d, "admitted", "dispatched")
      BY <2>2, <2>6, <3>1, <3>2, OthersStay DEF Only, Moves
    <3>4. Promise!Dispatch(d)
      BY <3>1, <3>3, MovesMove DEF Promise!Dispatch
    <3> QED
      BY <2>5, <3>4 DEF PromiseStep, Promise!Next
  <2>8. CASE CreateDispatchFail(h)
    <3>1. lost' = lost \cup {d} /\ sent' = sent
      BY <2>0, <2>8 DEF CreateDispatchFail, brokerVars
    <3>2. Stage(d)' = "dropped"
      BY <2>1, <2>2, <3>1 DEF Stage, Row
    <3>3. Moves(d, "admitted", "dropped")
      BY <2>2, <2>6, <3>1, <3>2, OthersStay DEF Only, Moves
    <3>4. Promise!Drop(d)
      BY <3>1, <3>3, MovesMove DEF Promise!Drop
    <3> QED
      BY <2>5, <3>4 DEF PromiseStep, Promise!Next
  <2> QED
    BY <1>4, <2>7, <2>8
<1> QED
  BY <1>1, <1>3, <1>4 DEF Handler

LEMMA LoneProcessor ==
  ASSUME IInv, LoneInv, Cardinality(Processors) = 1, NEW p \in Processors, Processor(p)
  PROVE  LoneInv' /\ PromiseStep
<1> DEFINE r == run[p]
<1>0. /\ r \in RunType /\ r.todo \in SUBSET ItemType /\ Apart(r)
      /\ r.pc = "cleared" => r.e \in Executions /\ queuedAt[r.e] = 0
      /\ \A q \in Processors : q = p
  BY OnlyOne DEF IInv, TypeOK, RunType, DispatchInv
<1>1. ASSUME NEW v, run' = [run EXCEPT ![p] = v], HeldBy(v) \subseteq HeldBy(r) \cup
               {e \in Executions : Waiting(e)},
             v.pc # "cleared", r.pc # "cleared",
             UNCHANGED <<rowVars, brokerVars, req, lost>>
      PROVE  LoneInv' /\ PromiseStep
  <2>1. UNCHANGED <<status, queuedAt, sent, lost>> /\ run'[p] = v
    BY <1>1 DEF rowVars, brokerVars, IInv, TypeOK
  <2>2. \A i \in v.todo : queuedAt[i.e] # 0
    BY <1>1 DEF HeldBy, LoneInv, Waiting
  <2>3. PromiseStep
    BY <2>1, NoStage DEF Row
  <2> QED
    BY <1>0, <1>1, <2>1, <2>2, <2>3 DEF LoneInv, Row
<1>2. CASE ProcStart(p)
  <2>1. PICK S : run' = [run EXCEPT ![p] = NextUser(S)]
    BY <1>2 DEF ProcStart
  <2> QED
    BY <1>1, <1>2, <2>1, HeldByNextUser, NotCleared DEF ProcStart
<1>3. CASE ProcSelect(p)
  <2>1. PICK S \in SUBSET Items(WaitingOf(r.user)) :
          run' = [run EXCEPT ![p] = NextItem(r, S)]
    BY <1>3 DEF ProcSelect, Oldest
  <2>2. S \in SUBSET ItemType
    BY <2>1, ItemsType DEF WaitingOf, IInv
  <2>3. HeldBy(NextItem(r, S)) \subseteq {e \in Executions : Waiting(e)}
    BY <1>0, <2>1, <2>2, ItemsApart, HeldByNextItem
  <2>4. r.pc # "cleared" /\ UNCHANGED <<rowVars, brokerVars, req, lost>>
    BY <1>3 DEF ProcSelect
  <2>5. NextItem(r, S).pc # "cleared"
    BY <1>0, NotCleared
  <2> HIDE DEF r
  <2> QED
    BY <1>1, <2>1, <2>3, <2>4, <2>5
<1>4. CASE ProcSkip(p)
  <2>1. PICK i : run' = [run EXCEPT ![p] = NextItem(r, r.todo \ {i})]
    BY <1>4 DEF ProcSkip
  <2> DEFINE rest == r.todo \ {i}
  <2>2. rest \in SUBSET ItemType /\ \A j, k \in rest : j.e = k.e => j = k
    BY <1>0 DEF Apart
  <2>3. {j.e : j \in rest} \subseteq HeldBy(r)
    BY DEF HeldBy
  <2> HIDE DEF rest
  <2>4. HeldBy(NextItem(r, rest)) \subseteq HeldBy(r)
    BY <1>0, <2>2, <2>3, HeldByNextItem
  <2>5. run' = [run EXCEPT ![p] = NextItem(r, rest)]
    BY <2>1 DEF rest
  <2>6. r.pc # "cleared" /\ UNCHANGED <<rowVars, brokerVars, req, lost>>
    BY <1>4 DEF ProcSkip
  <2>7. NextItem(r, rest).pc # "cleared"
    BY <1>0, NotCleared
  <2> HIDE DEF r
  <2> QED
    BY <1>1, <2>4, <2>5, <2>6, <2>7
<1>5. ASSUME NEW u \in Users, ProcFull(p, u)
      PROVE  LoneInv' /\ PromiseStep
  BY <1>1, <1>5, HeldByNextUser, NotCleared DEF ProcFull
<1>6. ASSUME NEW u \in Users, ProcCount(p, u)
      PROVE  LoneInv' /\ PromiseStep
  <2> DEFINE n == MaxConcurrent[u] - Cardinality(ActiveOf(u))
             v == [r EXCEPT !.pc = "counted", !.users = r.users \ {u},
                            !.user = u, !.slots = n]
  <2>1. run' = [run EXCEPT ![p] = v]
    BY <1>6 DEF ProcCount
  <2> HIDE DEF n
  <2>2. v.pc = "counted" /\ v.todo = r.todo
    BY <1>0 DEF RunType
  <2> HIDE DEF v
  <2>3. HeldBy(v) \subseteq HeldBy(r)
    BY <2>2 DEF HeldBy
  <2> QED
    BY <1>1, <1>6, <2>1, <2>2, <2>3 DEF ProcCount
<1>7. ASSUME NEW u \in Users, ProcAdmin(p, u)
      PROVE  LoneInv' /\ PromiseStep
  <2> DEFINE v == [r EXCEPT !.users = r.users \ {u}, !.user = u, !.admin = TRUE]
             todo == Items(WaitingOf(u))
  <2>1. run' = [run EXCEPT ![p] = NextItem(v, todo)]
    BY <1>7 DEF ProcAdmin
  <2>2. v \in RunType
    BY <1>0 DEF RunType
  <2>3. todo \in SUBSET ItemType
    BY ItemsType DEF WaitingOf, IInv
  <2>4. /\ \A i, j \in todo : i.e = j.e => i = j
        /\ {i.e : i \in todo} \subseteq {e \in Executions : Waiting(e)}
    BY ItemsApart
  <2> HIDE DEF v, todo
  <2>5. HeldBy(NextItem(v, todo)) \subseteq {e \in Executions : Waiting(e)}
    BY <2>2, <2>3, <2>4, HeldByNextItem
  <2>6. r.pc # "cleared" /\ UNCHANGED <<rowVars, brokerVars, req, lost>>
    BY <1>7 DEF ProcAdmin
  <2>7. NextItem(v, todo).pc # "cleared"
    BY <2>2, NotCleared
  <2> HIDE DEF r
  <2> QED
    BY <1>1, <2>1, <2>5, <2>6, <2>7
<1>8. CASE ProcClear(p)
  <2>1. PICK i \in r.todo :
          /\ queuedAt' = [queuedAt EXCEPT ![i.e] = 0]
          /\ run' = [run EXCEPT ![p] =
                       [r EXCEPT !.pc = "cleared", !.todo = r.todo \ {i}, !.e = i.e]]
    BY <1>8 DEF ProcClear, Heads
  <2>2. PICK d \in Executions : d = i.e
    BY <1>0, <2>1 DEF ItemType
  <2>3. run'[p].pc = "cleared" /\ run'[p].todo = r.todo \ {i} /\ run'[p].e = d
    BY <1>0, <2>1, <2>2 DEF RunType, IInv, TypeOK
  <2>4. /\ queuedAt[d] # 0 /\ d \notin lost /\ sent[d] = 0
    BY <2>1, <2>2 DEF LoneInv, IInv, DispatchInv, WaitingNotDispatched
  <2>5. /\ queuedAt'[d] = 0 /\ UNCHANGED <<status, sent, lost, req>>
        /\ \A e \in Executions : e # d => queuedAt'[e] = queuedAt[e]
    BY <1>8, <2>1, <2>2 DEF ProcClear, IInv, TypeOK, brokerVars
  <2>6. \A j \in run'[p].todo : j.e \in Executions /\ j.e # d /\ queuedAt[j.e] # 0
    BY <1>0, <2>1, <2>2, <2>3 DEF Apart, ItemType, LoneInv
  <2>7. LoneInv'
    <3>1. \A e \in Executions : ~Row(e)' \/ queuedAt'[e] # 0 => e \notin lost
      BY <2>5 DEF LoneInv, Row
    <3> QED
      BY <1>0, <2>3, <2>4, <2>5, <2>6, <3>1 DEF LoneInv
  <2>8. Row(d)
    BY <2>4 DEF IInv, DispatchInv, Unseen
  <2>9. Stage(d) = "waiting" /\ Stage(d)' = "admitted"
    BY <2>4, <2>5, <2>8 DEF Stage, Row
  <2>10. Moves(d, "waiting", "admitted")
    BY <2>5, <2>9, OthersStay DEF Only, Moves
  <2>11. Promise!Admit(d)
    BY <2>5, <2>10, MovesMove DEF Promise!Admit
  <2> QED
    BY <2>7, <2>11 DEF PromiseStep, Promise!Next
<1>9. ASSUME r.pc = "cleared", NEW v, run' = [run EXCEPT ![p] = v],
             v.pc # "cleared", v.todo \subseteq r.todo,
             UNCHANGED <<status, queuedAt, req>>,
             \/ sent' = [sent EXCEPT ![r.e] = @ + 1] /\ lost' = lost
             \/ sent' = sent /\ lost' = lost \cup {r.e}
      PROVE  LoneInv' /\ PromiseStep
  <2>0. PICK d \in Executions : d = r.e
    BY <1>0, <1>9
  <2>1. queuedAt[d] = 0 /\ d \notin lost /\ d \in HeldBy(r) /\ run'[p] = v
    BY <1>0, <1>9, <2>0 DEF LoneInv, HeldBy, IInv, TypeOK
  <2>2. p \in Claims(d) /\ Row(d)
    BY <2>1 DEF Claims, IInv, DispatchInv, Unseen
  <2>3. sent[d] = 0
    <3>1. Cardinality(Claims(d)) >= 1
      BY <2>2, ClaimsFinite, FS_EmptySet
    <3>2. sent[d] \in Nat /\ sent[d] + Cardinality(Claims(d)) <= 1
      BY DEF IInv, TypeOK, DispatchInv
    <3> QED
      BY <3>1, <3>2, ClaimsFinite
  <2>4. \A h \in Handlers : req[h].pc = "saved" => req[h].e # d
    BY <2>2 DEF IInv, DispatchInv, Unseen
  <2>5. LoneInv'
    <3>1. lost' \subseteq lost \cup {d}
      BY <1>9, <2>0
    <3>2. \A e \in Executions : ~Row(e)' \/ queuedAt'[e] # 0 => e \notin lost'
      BY <1>9, <2>1, <2>2, <3>1 DEF LoneInv, Row
    <3> QED
      BY <1>0, <1>9, <2>1, <2>4, <3>1, <3>2 DEF LoneInv
  <2>6. Stage(d) = "admitted"
    BY <2>1, <2>2, <2>3 DEF Stage
  <2>7. CASE sent' = [sent EXCEPT ![d] = @ + 1] /\ lost' = lost
    <3>1. sent'[d] = 1 /\ \A e \in Executions : e # d => sent'[e] = sent[e]
      BY <2>3, <2>7 DEF IInv, TypeOK
    <3>2. Stage(d)' = "dispatched"
      BY <1>9, <2>1, <2>2, <3>1 DEF Stage, Row
    <3>3. Moves(d, "admitted", "dispatched")
      BY <1>9, <2>6, <2>7, <3>1, <3>2, OthersStay DEF Only, Moves
    <3>4. Promise!Dispatch(d)
      BY <2>7, <3>3, MovesMove DEF Promise!Dispatch
    <3> QED
      BY <2>5, <3>4 DEF PromiseStep, Promise!Next
  <2>8. CASE sent' = sent /\ lost' = lost \cup {d}
    <3>1. Stage(d)' = "dropped"
      BY <1>9, <2>1, <2>2, <2>3, <2>8 DEF Stage, Row
    <3>2. Moves(d, "admitted", "dropped")
      BY <1>9, <2>6, <2>8, <3>1, OthersStay DEF Only, Moves
    <3>3. Promise!Drop(d)
      BY <2>8, <3>2, MovesMove DEF Promise!Drop
    <3> QED
      BY <2>5, <3>3 DEF PromiseStep, Promise!Next
  <2> QED
    BY <1>9, <2>0, <2>7, <2>8
<1>10. NextItem(r, r.todo).todo \subseteq r.todo
  BY <1>0 DEF NextItem, NextUser, IdleRun, RunType
<1>11. \A users : NextUser(users).todo = {}
  BY DEF NextUser, IdleRun
<1>12. CASE ProcDispatch(p)
  <2>1. /\ r.pc = "cleared" /\ run' = [run EXCEPT ![p] = NextItem(r, r.todo)]
        /\ sent' = [sent EXCEPT ![r.e] = @ + 1] /\ lost' = lost
        /\ UNCHANGED <<status, queuedAt, req>>
    BY <1>12 DEF ProcDispatch, Send, rowVars
  <2>2. NextItem(r, r.todo).pc # "cleared"
    BY <1>0, NotCleared
  <2> QED
    BY <1>9, <1>10, <2>1, <2>2
<1>13. CASE ProcDispatchFail(p)
  <2> DEFINE v == IF r.admin THEN NextUser(r.users) ELSE NextItem(r, r.todo)
  <2>1. /\ r.pc = "cleared" /\ run' = [run EXCEPT ![p] = v]
        /\ sent' = sent /\ lost' = lost \cup {r.e}
        /\ UNCHANGED <<status, queuedAt, req>>
    BY <1>13 DEF ProcDispatchFail, rowVars, brokerVars
  <2>2. v.pc # "cleared" /\ v.todo \subseteq r.todo
    BY <1>0, <1>10, <1>11, NotCleared
  <2> HIDE DEF v
  <2> QED
    BY <1>9, <2>1, <2>2
<1>14. CASE ProcCrash(p)
  <2>1. IdleRun.todo = {} /\ IdleRun.pc # "cleared"
    BY DEF IdleRun
  <2>2. CASE r.pc = "cleared"
    BY <1>9, <1>14, <2>1, <2>2 DEF ProcCrash, rowVars, brokerVars
  <2>3. CASE r.pc # "cleared"
    BY <1>1, <1>14, <2>1, <2>3, HeldByIdle DEF ProcCrash
  <2> QED
    BY <2>2, <2>3
<1> QED
  BY <1>2, <1>3, <1>4, <1>5, <1>6, <1>7, <1>8, <1>12, <1>13, <1>14
  DEF Processor, Advance

LEMMA LoneNext ==
  ASSUME IInv, LoneInv, Cardinality(Processors) = 1, [Next]_vars
  PROVE  LoneInv' /\ PromiseStep
<1>1. ASSUME UNCHANGED <<queuedAt, sent, lost, req, run>>,
             \A e \in Executions : Row(e)' = Row(e)
      PROVE  LoneInv' /\ PromiseStep
  BY <1>1, NoStage DEF LoneInv
<1>2. CASE \E d \in Executions : Environment(d)
  BY <1>1, <1>2, EnvironmentFrame
<1>3. CASE (\E s \in Rebuildable : Rebuild(s)) \/ (\E u \in Promotable : ChangeRole(u))
           \/ UNCHANGED vars
  BY <1>1, <1>3 DEF Rebuild, ChangeRole, vars, rowVars, brokerVars, Row
<1> QED
  BY <1>2, <1>3, LoneCreate, LoneProcessor DEF Next

(* The queue implements Admission: with a single processor, whatever       *)
(* crashes or fails at any point, every execution waits at most once, is   *)
(* admitted once and for good, and is then dispatched once or, by a fault  *)
(* at that very step, never.                                               *)
THEOREM PromiseKept ==
  ASSUME Cardinality(Processors) = 1
  PROVE  Spec => AdmissionPromise
<1>1. Init => LoneInv /\ Promise!Init
  <2> SUFFICES ASSUME Init
               PROVE  LoneInv /\ Promise!Init
    OBVIOUS
  <2>1. \A e \in Executions : Stage(e) = "new"
    BY DEF Init, Stage, Row
  <2>2. LoneInv
    BY DEF Init, LoneInv, IdleReq, IdleRun
  <2> QED
    BY <2>1, <2>2 DEF Init, Promise!Init
<1>2. IInv /\ LoneInv /\ [Next]_vars => LoneInv' /\ PromiseStep
  BY LoneNext
<1> QED
  BY <1>1, <1>2, InvInit, InvNext, PTL DEF Spec, AdmissionPromise, Promise!Spec, PromiseStep
=============================================================================
