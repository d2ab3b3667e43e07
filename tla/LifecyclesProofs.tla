--------------------------- MODULE LifecyclesProofs ---------------------------
(***************************************************************************)
(* Theorems about what surrounds the executions, for any values of the     *)
(* constants of MCLifecycles: cached values, openEO jobs and the pages of  *)
(* the list of executions; and the types of every part.                    *)
(***************************************************************************)
EXTENDS DeliveryProofs, BatchExecutionProofs

(* A step is a step of a part, or leaves that part alone.                  *)
LEMMA CachesMove == [AllNext]_allVars => [Redis!Next]_cachesVars
BY DEF AllNext, Frame, allVars

LEMMA OpenEOMove == [AllNext]_allVars => [OpenEO!Next]_openeoVars
BY DEF AllNext, Frame, allVars

LEMMA PagesMove == [AllNext]_allVars => [Pages!Next]_pagesVars
BY DEF AllNext, Frame, allVars

-----------------------------------------------------------------------------
(* Cached values                                                           *)

Entry == [age : Nat, left : Nat]
Computation == [key : {"plain", "built", "swarm", "none"}, needs : BOOLEAN, age : Nat, spent : Nat]

CacheTypes ==
  /\ k_cache \in [{"plain", "built", "swarm"} -> Entry] /\ k_tasks \in Entry
  /\ k_work \in [Workers -> Computation]

(* A value that is there is as old as the time it has left allows.         *)
Young(e, b) == e.left > 0 => e.age + e.left <= b

(* A computation is older than what it read by no more than it took.       *)
Timely(w) ==
  /\ w.spent <= Compute
  /\ w.needs => w.key = "built" /\ w.age <= w.spent
  /\ w.key = "plain" => w.age <= w.spent
  /\ w.key = "built" => w.age <= Compute + Ttl + w.spent
  /\ w.key = "swarm" => w.age <= Local + w.spent

AgeInv ==
  /\ Young(k_cache["plain"], Compute + Ttl)
  /\ Young(k_cache["built"], 2 * (Compute + Ttl))
  /\ Young(k_cache["swarm"], Local + Compute + Ttl)
  /\ Young(k_tasks, Local)
  /\ \A p \in Workers : Timely(k_work[p])

CachesInv == CacheTypes /\ AgeInv

LEMMA Naturals == {Ttl, Local, Compute} \subseteq Nat
BY LifecyclesAssumption

LEMMA NoComputation ==
  /\ Redis!Idle = [key |-> "none", needs |-> FALSE, age |-> 0, spent |-> 0]
  /\ Redis!Idle \in Computation /\ Timely(Redis!Idle)
BY Naturals DEF Redis!Idle, Computation, Timely

LEMMA NoEntry == Redis!Absent = [age |-> 0, left |-> 0] /\ Redis!Absent \in Entry
BY DEF Redis!Absent, Entry

LEMMA CachesStart == AllInit => CachesInv
<1> SUFFICES ASSUME AllInit PROVE CachesInv
  OBVIOUS
<1>1. /\ k_cache = [k \in {"plain", "built", "swarm"} |-> Redis!Absent]
      /\ k_tasks = Redis!Absent /\ k_work = [p \in Workers |-> Redis!Idle]
  BY DEF AllInit, Redis!Init, Redis!Keys, Redis!Plain, Redis!Built, Redis!Swarm
<1>2. CacheTypes
  BY <1>1, NoEntry, NoComputation DEF CacheTypes
<1>3. AgeInv
  BY <1>1, NoEntry, NoComputation DEF AgeInv, Young
<1> QED
  BY <1>2, <1>3 DEF CachesInv

(* Some moves of the cache leave everything as it is.                      *)
LEMMA CachesStay ==
  ASSUME CachesInv, UNCHANGED <<k_cache, k_work, k_tasks>>
  PROVE  CachesInv'
BY DEF CachesInv, CacheTypes, AgeInv, Young, Timely

(* A computation that begins or goes on.                                   *)
LEMMA WorkKeeps ==
  ASSUME CachesInv, NEW p \in Workers, NEW w \in Computation, Timely(w),
         k_work' = [k_work EXCEPT ![p] = w], UNCHANGED k_cache,
         k_tasks' \in Entry, Young(k_tasks', Local)
  PROVE  CachesInv'
<1>1. CacheTypes'
  BY DEF CachesInv, CacheTypes
<1>2. \A q \in Workers : Timely(k_work'[q])
  BY DEF CachesInv, CacheTypes, AgeInv
<1> QED
  BY <1>1, <1>2 DEF CachesInv, AgeInv, Young, Timely

(* A computation that stores its value.                                    *)
LEMMA StoringKeeps ==
  ASSUME CachesInv, NEW p \in Workers, NEW w \in Computation, Timely(w),
         NEW k \in {"plain", "built", "swarm"}, NEW age \in Nat, Redis!Store(k, age),
         k = "plain" => age <= Compute, k = "built" => age <= 2 * Compute + Ttl,
         k = "swarm" => age <= Local + Compute,
         k_work' = [k_work EXCEPT ![p] = w], UNCHANGED k_tasks
  PROVE  CachesInv'
<1>1. CacheTypes /\ AgeInv /\ Compute \in Nat /\ Ttl \in Nat /\ Local \in Nat
  BY Naturals DEF CachesInv
<1>2. PICK e \in Entry : /\ k_cache' = k_cache \/ k_cache' = [k_cache EXCEPT ![k] = e]
                         /\ e.age = age /\ e.left = Ttl
  <2> DEFINE d == [age |-> age, left |-> Ttl]
  <2>1. d \in Entry /\ d.age = age /\ d.left = Ttl
    BY <1>1 DEF Entry
  <2>2. k_cache' = k_cache \/ k_cache' = [k_cache EXCEPT ![k] = d]
    BY DEF Redis!Store
  <2> HIDE DEF d
  <2> QED
    BY <2>1, <2>2
<1>3. CacheTypes'
  BY <1>1, <1>2 DEF CacheTypes
<1>4. \A q \in Workers : Timely(k_work'[q])
  BY <1>1 DEF CacheTypes, AgeInv
<1>5. \A j \in {"plain", "built", "swarm"} :
        k_cache'[j] = k_cache[j] \/ (j = k /\ k_cache'[j] = e)
  BY <1>1, <1>2 DEF CacheTypes
<1>6. Young(k_cache'["plain"], Compute + Ttl)
  BY <1>1, <1>2, <1>5 DEF AgeInv, Young
<1>7. Young(k_cache'["built"], 2 * (Compute + Ttl))
  BY <1>1, <1>2, <1>5 DEF AgeInv, Young
<1>8. Young(k_cache'["swarm"], Local + Compute + Ttl)
  BY <1>1, <1>2, <1>5 DEF AgeInv, Young
<1>9. AgeInv'
  BY <1>1, <1>4, <1>6, <1>7, <1>8 DEF AgeInv, Young, Timely
<1> QED
  BY <1>3, <1>9 DEF CachesInv

(* What a computation that begins has read and needs.                      *)
LEMMA SetKey ==
  ASSUME NEW w \in Computation, NEW k \in {"plain", "built", "swarm"},
         NEW v, v = [w EXCEPT !.key = k]
  PROVE  /\ v \in Computation /\ v.key = k /\ (v.needs <=> w.needs)
         /\ v.age = w.age /\ v.spent = w.spent
BY DEF Computation

LEMMA NeedsSet ==
  ASSUME NEW w \in Computation, NEW v, v = [w EXCEPT !.needs = TRUE]
  PROVE  /\ v \in Computation /\ v.key = w.key /\ v.needs
         /\ v.age = w.age /\ v.spent = w.spent
BY DEF Computation

LEMMA NeedsMet ==
  ASSUME NEW w \in Computation, NEW v, v = [w EXCEPT !.needs = FALSE]
  PROVE  /\ v \in Computation /\ v.key = w.key /\ ~v.needs
         /\ v.age = w.age /\ v.spent = w.spent
BY DEF Computation

LEMMA SetAge ==
  ASSUME NEW w \in Computation, NEW a \in Nat, NEW v, v = [w EXCEPT !.age = a]
  PROVE  /\ v \in Computation /\ v.key = w.key /\ (v.needs <=> w.needs)
         /\ v.age = a /\ v.spent = w.spent
BY DEF Computation

LEMMA KeyBegun ==
  ASSUME NEW k \in {"plain", "built", "swarm"}, NEW v, v = [Redis!Idle EXCEPT !.key = k]
  PROVE  v \in Computation /\ v.key = k /\ ~v.needs /\ v.age = 0 /\ v.spent = 0
<1> DEFINE i == Redis!Idle
<1>1. i \in Computation /\ ~i.needs /\ i.age = 0 /\ i.spent = 0
  BY NoComputation
<1> HIDE DEF i
<1>2. v = [i EXCEPT !.key = k]
  BY Zenon DEF i
<1> QED
  BY <1>1, <1>2 DEF Computation

LEMMA NeedsBegun ==
  ASSUME NEW k \in {"plain", "built", "swarm"}, NEW v,
         v = [Redis!Idle EXCEPT !.key = k, !.needs = TRUE]
  PROVE  v \in Computation /\ v.key = k /\ v.needs /\ v.age = 0 /\ v.spent = 0
<1>1. PICK j : j = [Redis!Idle EXCEPT !.key = k]
  OBVIOUS
<1>2. j \in Computation /\ j.key = k /\ j.age = 0 /\ j.spent = 0
  BY <1>1, KeyBegun
<1>3. v = [j EXCEPT !.needs = TRUE]
  BY <1>1, Zenon
<1> QED
  BY <1>2, <1>3, NeedsSet, Zenon

LEMMA StatisticsKeep ==
  ASSUME CachesInv, NEW p \in Workers, Redis!GetExecutionStats(p) \/ Redis!GetDashboardStats(p)
  PROVE  CachesInv'
<1>1. CacheTypes /\ AgeInv /\ Compute \in Nat /\ Ttl \in Nat /\ Local \in Nat
  BY Naturals DEF CachesInv
<1>2. CASE UNCHANGED <<k_cache, k_work, k_tasks>>
  BY <1>2, CachesStay
<1>3. CASE ~UNCHANGED <<k_cache, k_work, k_tasks>>
  <2>1. PICK w : /\ k_work' = [k_work EXCEPT ![p] = w] /\ UNCHANGED <<k_cache, k_tasks>>
                 /\ \/ w = [Redis!Idle EXCEPT !.key = "plain"]
                    \/ w = [Redis!Idle EXCEPT !.key = "built", !.needs = TRUE]
                    \/ /\ k_cache["plain"].left > 0
                       /\ w = [Redis!Idle EXCEPT !.key = "built", !.age = k_cache["plain"].age]
    BY <1>3 DEF Redis!GetExecutionStats, Redis!GetDashboardStats, Redis!Hit, Redis!vars,
                Redis!Begin, Redis!Plain, Redis!Built, Redis!Cached
  <2>2. k_cache["plain"] \in Entry
    BY <1>1 DEF CacheTypes
  <2>3. k_cache["plain"].left > 0 => k_cache["plain"].age <= Compute + Ttl
    BY <1>1, <2>2 DEF AgeInv, Young, Entry
  <2>4. /\ w \in Computation /\ w.spent = 0 /\ w.key \in {"plain", "built"}
        /\ w.age = 0 \/ (~w.needs /\ w.key = "built" /\ w.age <= Compute + Ttl)
        /\ w.needs => w.key = "built"
    <3>1. CASE w = [Redis!Idle EXCEPT !.key = "plain"]
      BY <3>1, KeyBegun
    <3>2. CASE w = [Redis!Idle EXCEPT !.key = "built", !.needs = TRUE]
      <4>1. "built" \in {"plain", "built", "swarm"}
        OBVIOUS
      <4>2. w \in Computation /\ w.key = "built" /\ w.needs /\ w.age = 0 /\ w.spent = 0
        BY <3>2, <4>1, NeedsBegun, Zenon
      <4> QED
        BY <4>2
    <3>3. CASE /\ k_cache["plain"].left > 0
               /\ w = [Redis!Idle EXCEPT !.key = "built", !.age = k_cache["plain"].age]
      <4>1. PICK a \in Nat : a = k_cache["plain"].age
        BY <2>2 DEF Entry
      <4>2. PICK j : j = [Redis!Idle EXCEPT !.key = "built"]
        OBVIOUS
      <4>3. w = [j EXCEPT !.age = a]
        BY <3>3, <4>1, <4>2, Zenon
      <4>4. w \in Computation /\ w.key = "built" /\ ~w.needs /\ w.age = a /\ w.spent = 0
        <5>1. j \in Computation /\ j.key = "built" /\ ~j.needs /\ j.spent = 0
          BY <4>2, KeyBegun
        <5> QED
          BY <4>3, <5>1 DEF Computation
      <4> QED
        BY <2>3, <3>3, <4>1, <4>4
    <3> QED
      BY <2>1, <3>1, <3>2, <3>3
  <2>5. w \in Computation /\ Timely(w)
    BY <1>1, <2>4 DEF Computation, Timely
  <2> QED
    BY <1>1, <2>1, <2>5, WorkKeeps DEF CacheTypes, AgeInv
<1> QED
  BY <1>2, <1>3

LEMMA SectionKeeps ==
  ASSUME CachesInv, NEW p \in Workers, Redis!SectionComputed(p)
  PROVE  CachesInv'
<1>0. k_work' = [k_work EXCEPT ![p].needs = FALSE]
  BY DEF Redis!SectionComputed
<1>1. /\ CacheTypes /\ AgeInv /\ Compute \in Nat /\ k_work[p] \in Computation
      /\ k_work[p].needs
      /\ Redis!Store("plain", k_work[p].age) /\ UNCHANGED k_tasks
  BY Naturals DEF CachesInv, CacheTypes, Redis!SectionComputed, Redis!Plain
<1>2. PICK w : w = [k_work[p] EXCEPT !.needs = FALSE]
  OBVIOUS
<1>3. /\ w \in Computation /\ w.key = k_work[p].key /\ ~w.needs
      /\ w.age = k_work[p].age /\ w.spent = k_work[p].spent
  BY <1>1, <1>2, NeedsMet, Zenon
<1>4. Timely(k_work[p])
  BY <1>1 DEF AgeInv
<1>5. Timely(w)
  BY <1>3, <1>4 DEF Timely
<1>6. k_work[p].age \in Nat /\ k_work[p].spent \in Nat
  BY <1>1 DEF Computation
<1>7. k_work[p].age <= Compute
  BY <1>1, <1>4, <1>6 DEF Timely
<1>8. k_work' = [k_work EXCEPT ![p] = w]
  BY <1>0, <1>2, Zenon
<1> QED
  BY <1>1, <1>3, <1>5, <1>6, <1>7, <1>8, StoringKeeps

LEMMA ComputedKeeps ==
  ASSUME CachesInv, NEW p \in Workers, Redis!Computed(p) \/ Redis!UpdateSwarmCache(p)
  PROVE  CachesInv'
<1>1. PICK k : k = k_work[p].key
  OBVIOUS
<1>2. /\ CacheTypes /\ AgeInv /\ Compute \in Nat /\ Ttl \in Nat /\ Local \in Nat
      /\ k_work[p] \in Computation
      /\ k \in {"plain", "built", "swarm"} /\ k_work' = [k_work EXCEPT ![p] = Redis!Idle]
      /\ Redis!Store(k, k_work[p].age) /\ UNCHANGED k_tasks
  BY <1>1, Naturals
     DEF CachesInv, CacheTypes, Redis!Computed, Redis!UpdateSwarmCache, Redis!Plain, Redis!Built,
         Redis!Swarm
<1>3. k_work[p].age \in Nat /\ k_work[p].spent \in Nat /\ Timely(k_work[p])
  BY <1>2 DEF AgeInv, Computation
<1>4. /\ k = "plain" => k_work[p].age <= Compute
      /\ k = "built" => k_work[p].age <= 2 * Compute + Ttl
      /\ k = "swarm" => k_work[p].age <= Local + Compute
  BY <1>1, <1>2, <1>3 DEF Timely
<1> QED
  BY <1>2, <1>3, <1>4, NoComputation, StoringKeeps

LEMMA FailsKeeps ==
  ASSUME CachesInv, NEW p \in Workers, Redis!ComputeFails(p)
  PROVE  CachesInv'
<1>1. k_work' = [k_work EXCEPT ![p] = Redis!Idle] /\ UNCHANGED <<k_cache, k_tasks>>
  BY DEF Redis!ComputeFails
<1>2. k_tasks' \in Entry /\ Young(k_tasks', Local)
  BY <1>1 DEF CachesInv, CacheTypes, AgeInv
<1> QED
  BY <1>1, <1>2, NoComputation, WorkKeeps

LEMMA CollectKeeps ==
  ASSUME CachesInv, NEW p \in Workers, Redis!CollectTasks(p)
  PROVE  CachesInv'
<1>1. CacheTypes /\ AgeInv /\ Compute \in Nat /\ Ttl \in Nat /\ Local \in Nat /\ k_tasks \in Entry
  BY Naturals DEF CachesInv, CacheTypes
<1>2. PICK a : a = IF k_tasks.left > 0 THEN k_tasks.age ELSE 0
  OBVIOUS
<1>3. a \in Nat /\ a <= Local
  BY <1>1, <1>2 DEF AgeInv, Young, Entry
<1>4. PICK j, w : /\ w = [Redis!Idle EXCEPT !.key = "swarm", !.age = a]
                  /\ j = [Redis!Idle EXCEPT !.key = "swarm"]
                  /\ w = [j EXCEPT !.age = a]
  BY Zenon
<1>5. w \in Computation /\ w.key = "swarm" /\ ~w.needs /\ w.age = a /\ w.spent = 0
  <2>1. w = [j EXCEPT !.age = a] /\ j = [Redis!Idle EXCEPT !.key = "swarm"]
    BY <1>4, Zenon
  <2>2. j \in Computation /\ j.key = "swarm" /\ ~j.needs /\ j.spent = 0
    BY <2>1, KeyBegun
  <2> QED
    BY <1>3, <2>1, <2>2 DEF Computation
<1>6. Timely(w)
  BY <1>1, <1>3, <1>5 DEF Timely
<1>7. k_work' = [k_work EXCEPT ![p] = w] /\ UNCHANGED k_cache
  BY <1>2, <1>4, Zenon DEF Redis!CollectTasks, Redis!Begin, Redis!Swarm
<1>8. k_tasks' = k_tasks \/ k_tasks' = [age |-> 0, left |-> Local]
  BY DEF Redis!CollectTasks
<1>9. k_tasks' \in Entry /\ Young(k_tasks', Local)
  <2>1. CASE k_tasks' = k_tasks
    BY <1>1, <2>1 DEF AgeInv
  <2>2. CASE k_tasks' = [age |-> 0, left |-> Local]
    BY <1>1, <2>2 DEF Entry, Young
  <2> QED
    BY <1>8, <2>1, <2>2
<1> QED
  BY <1>5, <1>6, <1>7, <1>9, WorkKeeps

(* What ages, or is lost, stays within its bound.                          *)
LEMMA OlderYoung ==
  ASSUME NEW e \in Entry, NEW b \in Nat, Young(e, b)
  PROVE  /\ Redis!Older(e) \in Entry /\ Young(Redis!Older(e), b)
         /\ Young(Redis!Absent, b)
<1>1. Young(Redis!Absent, b)
  BY NoEntry DEF Young
<1>2. CASE e.left <= 1
  BY <1>1, <1>2, NoEntry DEF Redis!Older
<1>3. CASE ~(e.left <= 1)
  <2>1. e.age \in Nat /\ e.left \in Nat /\ e.left - 1 \in Nat /\ e.left > 1
    BY <1>3 DEF Entry
  <2>2. Redis!Older(e) = [age |-> e.age + 1, left |-> e.left - 1]
    BY <1>3 DEF Redis!Older
  <2> QED
    BY <1>1, <2>1, <2>2 DEF Entry, Young
<1> QED
  BY <1>2, <1>3

LEMMA LossKeeps ==
  ASSUME CachesInv, Redis!ClearCache \/ Redis!RedisRestarts
  PROVE  CachesInv'
<1>1. CacheTypes /\ AgeInv /\ UNCHANGED <<k_work, k_tasks>>
  BY DEF CachesInv, Redis!ClearCache, Redis!RedisRestarts
<1>2. \E found : k_cache' = [k \in {"plain", "built", "swarm"} |->
                               IF k \in found THEN Redis!Absent ELSE k_cache[k]]
  <2>1. CASE Redis!ClearCache
    BY <2>1 DEF Redis!ClearCache, Redis!Keys, Redis!Plain, Redis!Built, Redis!Swarm
  <2>2. CASE Redis!RedisRestarts
    <3>1. k_cache' = [k \in {"plain", "built", "swarm"} |->
                        IF k \in {"plain", "built", "swarm"} THEN Redis!Absent ELSE k_cache[k]]
      BY <2>2 DEF Redis!RedisRestarts, Redis!Keys, Redis!Plain, Redis!Built, Redis!Swarm
    <3> QED
      BY <3>1
  <2> QED
    BY <2>1, <2>2
<1>3. \A k \in {"plain", "built", "swarm"} : k_cache'[k] = Redis!Absent \/ k_cache'[k] = k_cache[k]
  BY <1>2
<1>4. CacheTypes'
  BY <1>1, <1>2, NoEntry DEF CacheTypes
<1>5. AgeInv'
  BY <1>1, <1>3, NoEntry DEF AgeInv, Young, Timely
<1> QED
  BY <1>4, <1>5 DEF CachesInv

LEMMA TickKeeps ==
  ASSUME CachesInv, Redis!Tick
  PROVE  CachesInv'
<1>1. /\ CacheTypes /\ AgeInv /\ Compute \in Nat /\ Ttl \in Nat /\ Local \in Nat
      /\ \A p \in Workers : k_work[p].spent < Compute
      /\ k_cache' = [k \in {"plain", "built", "swarm"} |-> Redis!Older(k_cache[k])]
      /\ k_tasks' = Redis!Older(k_tasks)
  BY Naturals DEF CachesInv, Redis!Tick, Redis!Keys, Redis!Plain, Redis!Built, Redis!Swarm
<1>0. k_work' = [p \in Workers |-> IF k_work[p] = Redis!Idle THEN Redis!Idle
                                   ELSE [k_work[p] EXCEPT !.age = @ + 1, !.spent = @ + 1]]
  BY DEF Redis!Tick
<1>2. /\ \A k \in {"plain", "built", "swarm"} : k_cache[k] \in Entry
      /\ k_tasks \in Entry
  BY <1>1 DEF CacheTypes
<1>3. /\ Redis!Older(k_cache["plain"]) \in Entry
      /\ Young(Redis!Older(k_cache["plain"]), Compute + Ttl)
  BY <1>1, <1>2, OlderYoung DEF AgeInv
<1>4. /\ Redis!Older(k_cache["built"]) \in Entry
      /\ Young(Redis!Older(k_cache["built"]), 2 * (Compute + Ttl))
  <2>1. 2 * (Compute + Ttl) \in Nat
    BY <1>1
  <2> QED
    BY <1>1, <1>2, <2>1, OlderYoung DEF AgeInv
<1>5. /\ Redis!Older(k_cache["swarm"]) \in Entry
      /\ Young(Redis!Older(k_cache["swarm"]), Local + Compute + Ttl)
  BY <1>1, <1>2, OlderYoung DEF AgeInv
<1>6. Redis!Older(k_tasks) \in Entry /\ Young(Redis!Older(k_tasks), Local)
  BY <1>1, <1>2, OlderYoung DEF AgeInv
<1>7. ASSUME NEW p \in Workers PROVE k_work'[p] \in Computation /\ Timely(k_work'[p])
  <2>1. CASE k_work[p] = Redis!Idle
    BY <1>0, <2>1, NoComputation, Zenon
  <2>2. CASE k_work[p] # Redis!Idle
    <3>1. PICK w \in Computation : w = k_work[p] /\ Timely(w) /\ w.spent < Compute
      BY <1>1 DEF CacheTypes, AgeInv
    <3>2. PICK x : x = [w EXCEPT !.age = w.age + 1]
      OBVIOUS
    <3>3. w.age + 1 \in Nat /\ w.spent + 1 \in Nat
      BY DEF Computation
    <3>4. /\ x \in Computation /\ x.key = w.key /\ x.needs = w.needs
          /\ x.age = w.age + 1 /\ x.spent = w.spent
      BY <3>2, <3>3, SetAge
    <3>5. PICK v : v = [x EXCEPT !.spent = x.spent + 1]
      OBVIOUS
    <3>6. /\ v \in Computation /\ v.key = w.key /\ v.needs = w.needs
          /\ v.age = w.age + 1 /\ v.spent = w.spent + 1
      BY <3>3, <3>4, <3>5 DEF Computation
    <3>7. k_work'[p] = [w EXCEPT !.age = @ + 1, !.spent = @ + 1]
      BY <1>0, <2>2, <3>1, Zenon
    <3>8. k_work'[p] = v
      BY <3>2, <3>5, <3>7, Zenon
    <3>9. Timely(v)
      BY <1>1, <3>1, <3>6 DEF Timely, Computation
    <3> QED
      BY <3>6, <3>8, <3>9
  <2> QED
    BY <2>1, <2>2
<1>8. CacheTypes'
  <2>1. k_work' \in [Workers -> Computation]
    BY <1>0, <1>7, Zenon
  <2>2. k_cache' \in [{"plain", "built", "swarm"} -> Entry]
    BY <1>1, <1>3, <1>4, <1>5
  <2> QED
    BY <1>1, <1>6, <2>1, <2>2 DEF CacheTypes
<1>9. AgeInv'
  BY <1>1, <1>3, <1>4, <1>5, <1>6, <1>7 DEF AgeInv, Young, Timely
<1> QED
  BY <1>8, <1>9 DEF CachesInv

LEMMA CachesStep ==
  ASSUME CachesInv, [Redis!Next]_cachesVars
  PROVE  CachesInv'
<1>1. CASE UNCHANGED cachesVars \/ Redis!GetCachedSwarmStatus
  BY <1>1, CachesStay DEF cachesVars, Redis!GetCachedSwarmStatus, Redis!Hit, Redis!vars
<1>2. ASSUME NEW p \in Workers,
             \/ Redis!GetDashboardStats(p) \/ Redis!GetExecutionStats(p) \/ Redis!GetUserStats(p)
             \/ Redis!WarmupStatsCacheOnStartup(p)
      PROVE  CachesInv'
  BY <1>2, StatisticsKeep
     DEF Redis!GetUserStats, Redis!WarmupStatsCacheOnStartup, Redis!RefreshDashboardStatsCache,
         Redis!RefreshExecutionStatsCache, Redis!RefreshUserStatsCache
<1> QED
  BY <1>1, <1>2, SectionKeeps, ComputedKeeps, FailsKeeps, CollectKeeps, LossKeeps, TickKeeps
     DEF Redis!Next

(* What a client is given from Redis is younger than every delay on its    *)
(* path together, whatever was computed twice, refreshed, cleared or lost, *)
(* for every time that Redis keeps a value, that the worker keeps its task *)
(* data, and that a computation takes.                                     *)
THEOREM CachesFresh == AllSpec => []ServedFresh
<1>1. CachesInv => ServedFresh
  <2> SUFFICES ASSUME CachesInv, NEW k \in {"plain", "built", "swarm"}, k_cache[k].left > 0
               PROVE  k_cache[k].age < Redis!Bound[k]
    BY DEF ServedFresh, Redis!ServedFresh, Redis!Keys, Redis!Plain, Redis!Built, Redis!Swarm,
           Redis!Cached
  <2>1. k_cache[k].age \in Nat /\ k_cache[k].left \in Nat
    BY DEF CachesInv, CacheTypes, Entry
  <2>2. /\ Redis!Bound["plain"] = Compute + Ttl
        /\ Redis!Bound["built"] = 2 * (Compute + Ttl)
        /\ Redis!Bound["swarm"] = Local + Compute + Ttl
    BY DEF Redis!Bound
  <2> QED
    BY <2>1, <2>2, Naturals DEF CachesInv, AgeInv, Young
<1>2. CachesInv /\ [AllNext]_allVars => CachesInv'
  BY CachesMove, CachesStep
<1> QED
  BY <1>1, <1>2, CachesStart, PTL DEF AllSpec

(* What is left of a value is at most a lifetime.                          *)
LeftInv ==
  /\ \A k \in {"plain", "built", "swarm"} : k_cache[k].left <= Ttl
  /\ k_tasks.left <= Local

LEMMA LeftStart == AllInit => LeftInv
<1> SUFFICES ASSUME AllInit PROVE LeftInv
  OBVIOUS
<1>1. /\ k_cache = [k \in {"plain", "built", "swarm"} |-> Redis!Absent]
      /\ k_tasks = Redis!Absent
  BY DEF AllInit, Redis!Init, Redis!Keys, Redis!Plain, Redis!Built, Redis!Swarm
<1>2. Redis!Absent.left = 0 /\ 0 <= Ttl /\ 0 <= Local
  BY NoEntry, Naturals
<1> QED
  BY <1>1, <1>2 DEF LeftInv

LEMMA StoredLeft ==
  ASSUME CachesInv, LeftInv, NEW k, NEW age, Redis!Store(k, age), UNCHANGED k_tasks
  PROVE  LeftInv'
<1>1. k_cache \in [{"plain", "built", "swarm"} -> Entry] /\ Ttl <= Ttl
  BY Naturals DEF CachesInv, CacheTypes
<1>2. k_cache' = k_cache \/ k_cache' = [k_cache EXCEPT ![k] = [age |-> age, left |-> Ttl]]
  BY DEF Redis!Store
<1>3. \A j \in {"plain", "built", "swarm"} : k_cache'[j].left \in {k_cache[j].left, Ttl}
  BY <1>1, <1>2
<1> QED
  BY <1>1, <1>3 DEF LeftInv

LEMMA OlderLeft ==
  ASSUME NEW e \in Entry
  PROVE  Redis!Older(e).left <= e.left
<1>1. e.left \in Nat
  BY DEF Entry
<1> QED
  BY <1>1, NoEntry DEF Redis!Older

LEMMA LeftStep ==
  ASSUME CachesInv, LeftInv, [Redis!Next]_cachesVars
  PROVE  LeftInv'
<1>1. CacheTypes /\ Ttl \in Nat /\ Local \in Nat
  BY Naturals DEF CachesInv
<1>2. CASE UNCHANGED cachesVars
  BY <1>2 DEF cachesVars, LeftInv
<1>3. ASSUME NEW p \in Workers, Redis!GetExecutionStats(p) \/ Redis!GetDashboardStats(p)
      PROVE  LeftInv'
  <2>1. UNCHANGED <<k_cache, k_tasks>>
    BY <1>3 DEF Redis!GetExecutionStats, Redis!GetDashboardStats, Redis!Hit, Redis!vars
  <2> QED
    BY <2>1 DEF LeftInv
<1>4. ASSUME NEW p \in Workers, Redis!ComputeFails(p) PROVE LeftInv'
  BY <1>4 DEF Redis!ComputeFails, LeftInv
<1>5. ASSUME NEW p \in Workers,
             Redis!SectionComputed(p) \/ Redis!Computed(p) \/ Redis!UpdateSwarmCache(p)
      PROVE  LeftInv'
  <2>1. UNCHANGED k_tasks /\ \E k, age : Redis!Store(k, age)
    BY <1>5, Zenon DEF Redis!SectionComputed, Redis!Computed, Redis!UpdateSwarmCache
  <2> QED
    BY <2>1, StoredLeft
<1>6. ASSUME NEW p \in Workers, Redis!CollectTasks(p) PROVE LeftInv'
  <2>1. UNCHANGED k_cache /\ k_tasks' \in {k_tasks, [age |-> 0, left |-> Local]}
    BY <1>6 DEF Redis!CollectTasks
  <2> QED
    BY <1>1, <2>1 DEF LeftInv
<1>7. CASE Redis!ClearCache \/ Redis!RedisRestarts
  <2>1. /\ UNCHANGED k_tasks
        /\ \A k \in {"plain", "built", "swarm"} : k_cache'[k] \in {k_cache[k], Redis!Absent}
    BY <1>7 DEF Redis!ClearCache, Redis!RedisRestarts, Redis!Keys, Redis!Plain, Redis!Built, Redis!Swarm
  <2> QED
    BY <1>1, <2>1, NoEntry DEF LeftInv
<1>8. CASE Redis!Tick
  <2>1. /\ k_cache' = [k \in {"plain", "built", "swarm"} |-> Redis!Older(k_cache[k])]
        /\ k_tasks' = Redis!Older(k_tasks)
    BY <1>8 DEF Redis!Tick, Redis!Keys, Redis!Plain, Redis!Built, Redis!Swarm
  <2>2. ASSUME NEW e \in Entry, NEW n \in Nat, e.left <= n PROVE Redis!Older(e).left <= n
    <3>1. e.left \in Nat /\ Redis!Older(e).left \in Nat
      <4>1. Young(e, e.age + e.left) /\ e.age + e.left \in Nat
        BY DEF Young, Entry
      <4>2. Redis!Older(e) \in Entry
        BY <4>1, OlderYoung
      <4> QED
        BY <4>2 DEF Entry
    <3> QED
      BY <2>2, <3>1, OlderLeft
  <2>3. \A k \in {"plain", "built", "swarm"} : Redis!Older(k_cache[k]).left <= Ttl
    BY <1>1, <2>2 DEF CacheTypes, LeftInv
  <2>4. Redis!Older(k_tasks).left <= Local
    BY <1>1, <2>2 DEF CacheTypes, LeftInv
  <2> QED
    BY <2>1, <2>3, <2>4 DEF LeftInv
<1> QED
  BY <1>2, <1>3, <1>4, <1>5, <1>6, <1>7, <1>8
     DEF Redis!Next, Redis!GetUserStats, Redis!WarmupStatsCacheOnStartup,
         Redis!RefreshDashboardStatsCache, Redis!RefreshExecutionStatsCache,
         Redis!RefreshUserStatsCache, Redis!GetCachedSwarmStatus, Redis!Hit, Redis!vars, cachesVars

LEMMA CachesTyped == CachesInv /\ LeftInv => Redis!TypeOK
<1> SUFFICES ASSUME CachesInv, LeftInv PROVE Redis!TypeOK
  OBVIOUS
<1>1. CacheTypes /\ AgeInv /\ Ttl \in Nat /\ Local \in Nat /\ Compute \in Nat
  BY Naturals DEF CachesInv
<1>2. k_cache \in [{"plain", "built", "swarm"} -> [age : Nat, left : 0..Ttl]]
  <2>1. \A k \in {"plain", "built", "swarm"} : k_cache[k] \in [age : Nat, left : 0..Ttl]
    BY <1>1 DEF CacheTypes, Entry, LeftInv
  <2> QED
    BY <1>1, <2>1 DEF CacheTypes
<1>3. k_tasks \in [age : Nat, left : 0..Local]
  BY <1>1 DEF CacheTypes, Entry, LeftInv
<1>4. k_work \in [Workers -> [key : {"plain", "built", "swarm", "none"}, needs : BOOLEAN,
                              age : Nat, spent : 0..Compute]]
  <2>1. \A p \in Workers : k_work[p] \in [key : {"plain", "built", "swarm", "none"}, needs : BOOLEAN,
                                          age : Nat, spent : 0..Compute]
    BY <1>1 DEF CacheTypes, Computation, AgeInv, Timely
  <2> QED
    BY <1>1, <2>1 DEF CacheTypes
<1>5. Redis!Keys = {"plain", "built", "swarm"}
      /\ Redis!Keys \cup {"none"} = {"plain", "built", "swarm", "none"}
  BY DEF Redis!Keys, Redis!Plain, Redis!Built, Redis!Swarm
<1> QED
  BY <1>2, <1>3, <1>4, <1>5 DEF Redis!TypeOK

-----------------------------------------------------------------------------
(* openEO jobs                                                             *)

JobStates == {"running", "finished", "error", "canceled"}
Verdicts == {"none", "RUNNING", "FINISHED", "FAILED", "CANCELLED"}

(* How many jobs there are. *)
JobCount == Len(o_jobs)

JobTask == [task : {"none", "run", "submitted", "recorded", "monitor", "polled",
                    "docker monitor", "stale sweep", "cancel"},
            was : OpenEO!Status, job : Nat, verdict : Verdicts]

OpenEOTypes ==
  /\ o_status \in OpenEO!Status /\ o_recorded \in Nat /\ o_recorded <= JobCount
  /\ o_jobs \in Seq(JobStates)
  /\ o_worker \in [Workers -> JobTask]
  /\ \A w \in Workers :
       /\ o_worker[w].job <= JobCount
       /\ o_worker[w].task = "polled" => o_worker[w].verdict # "none"
  /\ o_api \in [Requests -> [pc : {"new", "checked", "marked", "done"},
                             was : OpenEO!Cancellable]]

SomeJobFinished == \E j \in 1..JobCount : o_jobs[j] = "finished"

(* FINISHED is what a monitor read of a job, and is not read off the row.  *)
DoneInv ==
  /\ o_status = "FINISHED" => SomeJobFinished
  /\ \A w \in Workers : o_worker[w].verdict = "FINISHED" => SomeJobFinished

OpenEOInv == OpenEOTypes /\ DoneInv

LEMMA JobNumbers ==
  ASSUME o_jobs \in Seq(JobStates)
  PROVE  /\ JobCount \in Nat /\ 0 <= JobCount /\ DOMAIN o_jobs = 1..JobCount
         /\ \A j \in 1..JobCount : o_jobs[j] \in JobStates
BY LenProperties, ElementOfSeq DEF JobCount

LEMMA NoJobTask ==
  /\ OpenEO!Idle = [task |-> "none", was |-> "PENDING", job |-> 0, verdict |-> "none"]
  /\ OpenEO!Idle \in JobTask /\ OpenEO!Idle.task = "none" /\ OpenEO!Idle.job = 0 /\ OpenEO!Idle.verdict = "none"
BY DEF OpenEO!Idle, JobTask, Verdicts, OpenEO!Status, OpenEO!Cancellable

LEMMA OpenEOStart == AllInit => OpenEOInv
<1> SUFFICES ASSUME AllInit PROVE OpenEOInv
  OBVIOUS
<1>1. /\ o_status = "PENDING" /\ o_recorded = 0 /\ o_jobs = <<>>
      /\ o_worker = [w \in Workers |-> OpenEO!Idle]
      /\ o_api = [r \in Requests |-> [pc |-> "new", was |-> "PENDING"]]
  BY DEF AllInit, OpenEO!Init, OpenEO!CancelInit
<1>2. o_worker \in [Workers -> JobTask] /\ \A w \in Workers : o_worker[w] = OpenEO!Idle
  BY <1>1, NoJobTask
<1>3. JobCount = 0 /\ o_jobs \in Seq(JobStates)
  BY <1>1 DEF JobCount
<1>4. OpenEOTypes
  BY <1>1, <1>2, <1>3, NoJobTask DEF OpenEOTypes, OpenEO!Status, OpenEO!Cancellable
<1>5. DoneInv
  BY <1>1, <1>2, NoJobTask DEF DoneInv
<1> QED
  BY <1>4, <1>5 DEF OpenEOInv

(* A step that leaves the jobs alone: who goes on, with what, and what the *)
(* row becomes.                                                            *)
LEMMA TaskKeeps ==
  ASSUME OpenEOInv, NEW w \in Workers, NEW x \in JobTask, x.job <= JobCount,
         o_worker' = [o_worker EXCEPT ![w] = x], UNCHANGED <<o_jobs, o_api>>,
         o_recorded' \in Nat, o_recorded' <= JobCount, o_status' \in OpenEO!Status,
         o_status' = "FINISHED" => SomeJobFinished,
         x.verdict = "FINISHED" => SomeJobFinished,
         x.task = "polled" => x.verdict # "none"
  PROVE  OpenEOInv'
<1>1. /\ o_worker' \in [Workers -> JobTask]
      /\ \A v \in Workers : o_worker'[v] = o_worker[v] \/ (v = w /\ o_worker'[v] = x)
  BY DEF OpenEOInv, OpenEOTypes
<1>2. OpenEOTypes'
  <2>1. JobCount' = JobCount
    BY DEF JobCount
  <2> QED
    BY <1>1, <2>1 DEF OpenEOInv, OpenEOTypes
<1>3. SomeJobFinished' <=> SomeJobFinished
  BY DEF SomeJobFinished, JobCount
<1>4. DoneInv'
  BY <1>1, <1>3 DEF OpenEOInv, DoneInv
<1> QED
  BY <1>2, <1>4 DEF OpenEOInv

(* What a finished task wrote: nothing, or a status that is not FINISHED.  *)
LEMMA EndedTaskKeeps ==
  ASSUME OpenEOInv, NEW w \in Workers, OpenEO!Finish(w), UNCHANGED <<o_jobs, o_api, o_recorded>>,
         o_status' \in {o_status, "FAILED", "CANCELLED"}
  PROVE  OpenEOInv'
<1>1. /\ o_worker' = [o_worker EXCEPT ![w] = OpenEO!Idle]
      /\ JobCount \in Nat /\ o_status' \in OpenEO!Status /\ o_recorded' \in Nat /\ o_recorded' <= JobCount
      /\ o_status' = "FINISHED" => SomeJobFinished
  BY JobNumbers DEF OpenEOInv, OpenEOTypes, DoneInv, OpenEO!Finish, OpenEO!Status, OpenEO!Terminal
<1>2. PICK x : x = OpenEO!Idle
  OBVIOUS
<1>3. x \in JobTask /\ x.job <= JobCount /\ x.verdict = "none" /\ x.task = "none"
  BY <1>1, <1>2, NoJobTask
<1>4. o_worker' = [o_worker EXCEPT ![w] = x]
  BY <1>1, <1>2
<1> QED
  BY <1>1, <1>3, <1>4, TaskKeeps

LEMMA TaskRecord ==
  ASSUME NEW a, NEW b, NEW c
  PROVE  [OpenEO!Idle EXCEPT !.task = a, !.was = b, !.job = c]
         = [task |-> a, was |-> b, job |-> c, verdict |-> "none"]
<1> DEFINE i == [task |-> "none", was |-> "PENDING", job |-> 0, verdict |-> "none"]
           j == [task |-> a, was |-> "PENDING", job |-> 0, verdict |-> "none"]
           k == [task |-> a, was |-> b, job |-> 0, verdict |-> "none"]
<1>1. [i EXCEPT !.task = a] = j
  OBVIOUS
<1>2. [j EXCEPT !.was = b] = k
  OBVIOUS
<1>3. [k EXCEPT !.job = c] = [task |-> a, was |-> b, job |-> c, verdict |-> "none"]
  OBVIOUS
<1>4. OpenEO!Idle = i
  BY NoJobTask
<1> HIDE DEF i, j, k
<1> QED
  BY <1>1, <1>2, <1>3, <1>4

(* A task begins, with or without a look at the row.                       *)
LEMMA BegunTaskKeeps ==
  ASSUME OpenEOInv, NEW w \in Workers,
         NEW task \in {"run", "monitor", "docker monitor", "stale sweep", "cancel"},
         OpenEO!Take(w, task) \/ OpenEO!TakeRow(w, task),
         UNCHANGED <<o_status, o_recorded, o_jobs, o_api>>
  PROVE  OpenEOInv'
<1>0. o_worker[w] = OpenEO!Idle
  BY Zenon DEF OpenEO!Take, OpenEO!TakeRow
<1>1. /\ OpenEOTypes /\ DoneInv /\ JobCount \in Nat /\ o_worker[w] = OpenEO!Idle
      /\ 0 <= JobCount
  BY <1>0, JobNumbers, Zenon DEF OpenEOInv, OpenEOTypes
<1>2. PICK x \in JobTask : /\ o_worker' = [o_worker EXCEPT ![w] = x] /\ x.task = task
                           /\ x.job <= JobCount /\ x.verdict = "none"
  <2>1. CASE OpenEO!Take(w, task)
    <3>1. PICK x : x = [o_worker[w] EXCEPT !.task = task]
      OBVIOUS
    <3>2. x \in JobTask /\ x.task = task /\ x.job = 0 /\ x.verdict = "none"
      <4>1. o_worker[w] \in JobTask /\ o_worker[w].job = 0 /\ o_worker[w].verdict = "none"
        BY <1>1, NoJobTask
      <4> QED
        BY <3>1, <4>1 DEF JobTask
    <3>3. o_worker' = [o_worker EXCEPT ![w] = x]
      BY <2>1, <3>1, Zenon DEF OpenEO!Take
    <3>4. x.job <= JobCount
      BY <1>1, <3>2, Zenon
    <3> QED
      BY <3>2, <3>3, <3>4, Zenon
  <2>2. CASE OpenEO!TakeRow(w, task)
    <3>1. PICK x : x = [OpenEO!Idle EXCEPT !.task = task, !.was = o_status, !.job = o_recorded]
      OBVIOUS
    <3>2. x = [task |-> task, was |-> o_status, job |-> o_recorded, verdict |-> "none"]
      BY <3>1, TaskRecord
    <3>3. o_status \in OpenEO!Status /\ o_recorded \in Nat /\ o_recorded <= JobCount
      BY <1>1, Zenon DEF OpenEOTypes
    <3>4. x \in JobTask /\ x.task = task /\ x.job <= JobCount /\ x.verdict = "none"
      BY <3>2, <3>3 DEF JobTask, Verdicts
    <3>5. o_worker' = [o_worker EXCEPT ![w] = x]
      BY <2>2, <3>1, Zenon DEF OpenEO!TakeRow
    <3> QED
      BY <3>4, <3>5
  <2> QED
    BY <2>1, <2>2
<1> QED
  BY <1>1, <1>2, TaskKeeps DEF OpenEOTypes, DoneInv

LEMMA MonitorTaskKeeps ==
  ASSUME OpenEOInv, NEW w \in Workers, OpenEO!Poll(w)
  PROVE  OpenEOInv'
<1>0. UNCHANGED <<o_status, o_recorded, o_jobs, o_api>>
  BY Zenon DEF OpenEO!Poll, OpenEO!row
<1>1. /\ OpenEOTypes /\ DoneInv /\ o_worker[w] \in JobTask
      /\ UNCHANGED <<o_status, o_recorded, o_jobs, o_api>>
  BY <1>0 DEF OpenEOInv, OpenEOTypes
<1>2. CASE OpenEO!Finish(w)
  BY <1>1, <1>2, EndedTaskKeeps
<1>3. CASE ~OpenEO!Finish(w)
  <2>1. PICK j, v : j = o_worker[w].job /\ v = OpenEO!Verdict(o_jobs[j])
    OBVIOUS
  <2>2. j \in 1..JobCount /\ o_jobs[j] \in JobStates /\ JobCount \in Nat
    <3>1. j # 0
      BY <1>3, <2>1, Zenon DEF OpenEO!Poll
    <3>2. j \in Nat /\ j <= JobCount
      BY <1>1, <2>1 DEF OpenEOTypes, JobTask
    <3> QED
      BY <1>1, <3>1, <3>2, JobNumbers DEF OpenEOTypes
  <2>3. v \in Verdicts /\ v # "none" /\ (v = "FINISHED" => SomeJobFinished)
    BY <2>1, <2>2 DEF OpenEO!Verdict, JobStates, Verdicts, SomeJobFinished
  <2>4. PICK y, x : y = [o_worker[w] EXCEPT !.task = "polled"] /\ x = [y EXCEPT !.verdict = v]
    OBVIOUS
  <2>5. o_worker' = [o_worker EXCEPT ![w] = x]
    BY <1>3, <2>1, <2>4, Zenon DEF OpenEO!Poll
  <2>6. y \in JobTask /\ y.job = j
    BY <1>1, <2>1, <2>4 DEF JobTask
  <2>7. x \in JobTask /\ x.job = j /\ x.verdict = v
    BY <2>3, <2>4, <2>6 DEF JobTask
  <2>8. x.task = "polled"
    BY <1>1, <2>4, <2>6 DEF JobTask
  <2>9. /\ o_recorded' \in Nat /\ o_recorded' <= JobCount /\ o_status' \in OpenEO!Status
        /\ o_status' = "FINISHED" => SomeJobFinished
    BY <1>1 DEF OpenEOTypes, DoneInv
  <2>10. x.job <= JobCount
    BY <2>2, <2>7
  <2>11. UNCHANGED <<o_jobs, o_api>>
    BY <1>1
  <2> QED
    BY <2>3, <2>5, <2>7, <2>9, <2>10, <2>11, TaskKeeps
<1> QED
  BY <1>2, <1>3

LEMMA MonitorCommitKeeps ==
  ASSUME OpenEOInv, NEW w \in Workers, OpenEO!MonitorCommit(w)
  PROVE  OpenEOInv'
<1>1. /\ OpenEOTypes /\ DoneInv /\ o_worker[w] \in JobTask
      /\ UNCHANGED <<o_jobs, o_api>> /\ o_recorded' = o_worker[w].job
      /\ o_worker' = [o_worker EXCEPT ![w] = OpenEO!Idle]
  BY DEF OpenEOInv, OpenEOTypes, OpenEO!MonitorCommit, OpenEO!Finish
<1>2. o_status' = o_worker[w].verdict \/ o_status' = o_status
  BY DEF OpenEO!MonitorCommit, OpenEO!Column
<1>3. /\ JobCount \in Nat /\ o_worker[w].job \in Nat /\ o_worker[w].job <= JobCount
      /\ o_worker[w].verdict \in Verdicts /\ o_worker[w].verdict # "none"
      /\ o_status \in OpenEO!Status
  BY <1>1, JobNumbers DEF OpenEOTypes, JobTask, OpenEO!MonitorCommit
<1>4. o_recorded' \in Nat /\ o_recorded' <= JobCount
  BY <1>1, <1>3
<1>5. o_status' \in OpenEO!Status
  BY <1>2, <1>3 DEF Verdicts, OpenEO!Status, OpenEO!Terminal, OpenEO!Cancellable
<1>6. o_status' = "FINISHED" => SomeJobFinished
  BY <1>1, <1>2 DEF DoneInv
<1>7. PICK x : x = OpenEO!Idle
  OBVIOUS
<1>8. x \in JobTask /\ x.job <= JobCount /\ x.verdict = "none" /\ x.task = "none"
  BY <1>3, <1>7, NoJobTask
<1>9. o_worker' = [o_worker EXCEPT ![w] = x]
  BY <1>1, <1>7
<1> QED
  BY <1>1, <1>4, <1>5, <1>6, <1>8, <1>9, TaskKeeps

LEMMA SubmitKeeps ==
  ASSUME OpenEOInv, NEW w \in Workers, OpenEO!SubmitJob(w)
  PROVE  OpenEOInv'
<1>0. /\ UNCHANGED <<o_status, o_recorded, o_api>>
      /\ o_jobs' = Append(o_jobs, "running")
      /\ o_worker' = [o_worker EXCEPT ![w].task = "submitted", ![w].job = JobCount + 1]
  BY Zenon DEF OpenEO!SubmitJob, OpenEO!row, JobCount
<1>1. /\ OpenEOTypes /\ DoneInv /\ o_worker[w] \in JobTask /\ o_jobs \in Seq(JobStates)
      /\ o_worker \in [Workers -> JobTask]
  BY DEF OpenEOInv, OpenEOTypes
<1>2. PICK n \in Nat : n = JobCount
  BY <1>1, JobNumbers
<1>3. /\ o_jobs' \in Seq(JobStates) /\ JobCount' = n + 1
      /\ \A j \in 1..n : o_jobs'[j] = o_jobs[j]
  <2>1. "running" \in JobStates
    BY DEF JobStates
  <2> QED
    BY <1>0, <1>1, <1>2, <2>1, AppendProperties DEF JobCount
<1>4. PICK y, x : y = [o_worker[w] EXCEPT !.task = "submitted"] /\ x = [y EXCEPT !.job = n + 1]
  OBVIOUS
<1>5. y \in JobTask /\ y.task = "submitted" /\ y.verdict = o_worker[w].verdict
  BY <1>1, <1>4 DEF JobTask
<1>6. /\ x \in JobTask /\ x.task = "submitted" /\ x.verdict = o_worker[w].verdict
      /\ x.job = n + 1
  <2>1. n + 1 \in Nat
    OBVIOUS
  <2> QED
    BY <1>4, <1>5, <2>1 DEF JobTask
<1>7. o_worker' = [o_worker EXCEPT ![w] = x]
  <2>1. PICK z : z = [o_worker EXCEPT ![w].task = "submitted"]
    OBVIOUS
  <2>2. z = [o_worker EXCEPT ![w] = y]
    BY <1>4, <2>1, Zenon
  <2>3. o_worker' = [z EXCEPT ![w].job = n + 1]
    BY <1>0, <1>2, <2>1, Zenon
  <2>4. z \in [Workers -> JobTask] /\ z[w] = y
    BY <1>1, <1>5, <2>2
  <2>5. o_worker' = [z EXCEPT ![w] = x]
    BY <1>4, <2>3, <2>4, Zenon
  <2> QED
    BY <1>1, <2>2, <2>5
<1>8. /\ o_worker' \in [Workers -> JobTask]
      /\ \A v \in Workers : o_worker'[v] = o_worker[v] \/ (v = w /\ o_worker'[v] = x)
  BY <1>1, <1>6, <1>7
<1>9. OpenEOTypes'
  <2>1. o_status' \in OpenEO!Status /\ o_recorded' \in Nat
    BY <1>0, <1>1 DEF OpenEOTypes
  <2>2. o_recorded' <= JobCount'
    <3>1. o_recorded \in Nat /\ o_recorded <= n /\ o_recorded' = o_recorded
      BY <1>0, <1>1, <1>2 DEF OpenEOTypes
    <3> QED
      BY <1>3, <3>1
  <2>3. ASSUME NEW v \in Workers
        PROVE  /\ o_worker'[v].job <= JobCount'
               /\ o_worker'[v].task = "polled" => o_worker'[v].verdict # "none"
    <3>1. o_worker[v] \in JobTask /\ o_worker[v].job <= n
      BY <1>1, <1>2 DEF OpenEOTypes
    <3>2. o_worker[v].job \in Nat
      BY <3>1 DEF JobTask
    <3>3. o_worker[v].task = "polled" => o_worker[v].verdict # "none"
      BY <1>1 DEF OpenEOTypes
    <3>4. CASE o_worker'[v] = o_worker[v]
      BY <1>3, <3>1, <3>2, <3>3, <3>4
    <3>5. CASE o_worker'[v] = x
      BY <1>3, <1>6, <3>5
    <3> QED
      BY <1>8, <3>4, <3>5
  <2>4. o_api' = o_api
    BY <1>0
  <2> QED
    BY <1>1, <1>3, <1>8, <2>1, <2>2, <2>3, <2>4 DEF OpenEOTypes
<1>10. SomeJobFinished => SomeJobFinished'
  BY <1>2, <1>3 DEF SomeJobFinished
<1>11. DoneInv'
  BY <1>0, <1>1, <1>6, <1>8, <1>10 DEF DoneInv
<1> QED
  BY <1>9, <1>11 DEF OpenEOInv

LEMMA JobEndsKeeps ==
  ASSUME OpenEOInv, NEW j \in DOMAIN o_jobs, OpenEO!JobEnds(j)
  PROVE  OpenEOInv'
<1>1. /\ OpenEOTypes /\ DoneInv /\ o_jobs \in Seq(JobStates) /\ o_jobs[j] = "running"
      /\ UNCHANGED <<o_status, o_recorded, o_worker, o_api>>
  BY DEF OpenEOInv, OpenEOTypes, OpenEO!JobEnds, OpenEO!row
<1>2. PICK s \in {"finished", "error", "canceled"} : o_jobs' = [o_jobs EXCEPT ![j] = s]
  BY DEF OpenEO!JobEnds
<1>3. JobCount \in Nat /\ DOMAIN o_jobs = 1..JobCount /\ s \in JobStates
  BY <1>1, JobNumbers DEF JobStates
<1>4. o_jobs' \in Seq(JobStates) /\ JobCount' = JobCount
  BY <1>1, <1>2, <1>3, ExceptSeq DEF JobCount
<1>5. \A i \in 1..JobCount : o_jobs[i] = "finished" => o_jobs'[i] = "finished"
  BY <1>1, <1>2, <1>3
<1>6. SomeJobFinished => SomeJobFinished'
  BY <1>4, <1>5 DEF SomeJobFinished
<1>7. OpenEOTypes'
  BY <1>1, <1>4 DEF OpenEOTypes
<1>8. DoneInv'
  BY <1>1, <1>6 DEF DoneInv
<1> QED
  BY <1>7, <1>8 DEF OpenEOInv

LEMMA RecordKeeps ==
  ASSUME OpenEOInv, NEW w \in Workers, OpenEO!RecordJob(w)
  PROVE  OpenEOInv'
<1>0. /\ UNCHANGED <<o_jobs, o_api>> /\ o_recorded' = o_worker[w].job
      /\ o_status' = OpenEO!Column(w, "READY")
      /\ o_worker' = [o_worker EXCEPT ![w].task = "recorded", ![w].was = o_status', ![w].job = 0]
  BY Zenon DEF OpenEO!RecordJob
<1>1. /\ OpenEOTypes /\ DoneInv /\ o_worker[w] \in JobTask /\ JobCount \in Nat
      /\ o_worker \in [Workers -> JobTask]
  BY JobNumbers DEF OpenEOInv, OpenEOTypes
<1>2. o_status' \in {"READY", o_status}
  BY <1>0 DEF OpenEO!Column
<1>3. o_status' \in OpenEO!Status /\ (o_status' = "FINISHED" => SomeJobFinished)
  BY <1>1, <1>2 DEF OpenEOTypes, DoneInv, OpenEO!Status, OpenEO!Cancellable
<1>4. PICK st \in OpenEO!Status : st = o_status'
  BY <1>3
<1>5. PICK a, b, x : /\ a = [o_worker[w] EXCEPT !.task = "recorded"]
                     /\ b = [a EXCEPT !.was = st] /\ x = [b EXCEPT !.job = 0]
  OBVIOUS
<1>6. a \in JobTask /\ a.task = "recorded" /\ a.verdict = o_worker[w].verdict
  BY <1>1, <1>5 DEF JobTask
<1>7. b \in JobTask /\ b.task = "recorded" /\ b.verdict = o_worker[w].verdict
  BY <1>4, <1>5, <1>6 DEF JobTask
<1>8. x \in JobTask /\ x.task = "recorded" /\ x.verdict = o_worker[w].verdict /\ x.job = 0
  BY <1>5, <1>7 DEF JobTask
<1>9. o_worker' = [o_worker EXCEPT ![w] = x]
  <2>1. PICK y, z : y = [o_worker EXCEPT ![w].task = "recorded"] /\ z = [y EXCEPT ![w].was = st]
    OBVIOUS
  <2>2. y = [o_worker EXCEPT ![w] = a]
    BY <1>5, <2>1, Zenon
  <2>3. y \in [Workers -> JobTask] /\ y[w] = a
    BY <1>1, <1>6, <2>2
  <2>4. z = [y EXCEPT ![w] = b]
    BY <1>5, <2>1, <2>3, Zenon
  <2>5. z \in [Workers -> JobTask] /\ z[w] = b
    BY <1>7, <2>3, <2>4
  <2>6. o_worker' = [z EXCEPT ![w].job = 0]
    BY <1>0, <1>4, <2>1, Zenon
  <2>7. o_worker' = [z EXCEPT ![w] = x]
    BY <1>5, <2>5, <2>6, Zenon
  <2> QED
    BY <1>1, <2>2, <2>4, <2>7
<1>10. o_recorded' \in Nat /\ o_recorded' <= JobCount
  BY <1>0, <1>1, Zenon DEF OpenEOTypes, JobTask
<1>11. x.job <= JobCount
  <2>1. 0 <= JobCount
    BY <1>1
  <2> QED
    BY <1>8, <2>1, Zenon
<1>12. x.verdict = "FINISHED" => SomeJobFinished
  BY <1>1, <1>8 DEF DoneInv
<1> QED
  BY <1>0, <1>3, <1>8, <1>9, <1>10, <1>11, <1>12, TaskKeeps

(* The job id may be gone, and there may be a job that nobody knows of.    *)
LEMMA RunFailKeeps ==
  ASSUME OpenEOInv, NEW w \in Workers, OpenEO!RunFail(w)
  PROVE  OpenEOInv'
<1>1. /\ OpenEOTypes /\ DoneInv /\ o_worker[w] \in JobTask /\ o_jobs \in Seq(JobStates)
      /\ UNCHANGED o_api /\ o_worker' = [o_worker EXCEPT ![w] = OpenEO!Idle]
  BY DEF OpenEOInv, OpenEOTypes, OpenEO!RunFail, OpenEO!Finish
<1>2. /\ o_status' \in {o_status, "FAILED"} /\ o_recorded' \in {o_recorded, o_worker[w].job}
      /\ o_jobs' = o_jobs \/ o_jobs' = Append(o_jobs, "running")
  BY DEF OpenEO!RunFail, OpenEO!Column
<1>3. PICK n \in Nat : n = JobCount
  BY <1>1, JobNumbers
<1>4. PICK m \in Nat : m = JobCount' /\ n <= m /\ \A j \in 1..n : o_jobs'[j] = o_jobs[j]
  <2>1. CASE o_jobs' = o_jobs
    BY <1>3, <2>1 DEF JobCount
  <2>2. CASE o_jobs' = Append(o_jobs, "running")
    <3>1. "running" \in JobStates
      BY DEF JobStates
    <3>2. JobCount' = n + 1 /\ \A j \in 1..n : o_jobs'[j] = o_jobs[j]
      BY <1>1, <1>3, <2>2, <3>1, AppendProperties DEF JobCount
    <3> QED
      BY <3>2
  <2> QED
    BY <1>2, <2>1, <2>2
<1>5. o_jobs' \in Seq(JobStates)
  <2>1. "running" \in JobStates
    BY DEF JobStates
  <2> QED
    BY <1>1, <1>2, <2>1, AppendProperties
<1>6. PICK x \in JobTask : x = OpenEO!Idle /\ x.job = 0 /\ x.verdict = "none" /\ x.task = "none"
  BY NoJobTask
<1>7. /\ o_worker' \in [Workers -> JobTask]
      /\ \A v \in Workers : o_worker'[v] = o_worker[v] \/ o_worker'[v] = x
  BY <1>1, <1>6 DEF OpenEOTypes
<1>8. OpenEOTypes'
  <2>1. o_recorded' \in Nat /\ o_recorded' <= m /\ o_status' \in OpenEO!Status
    <3>1. /\ o_recorded \in Nat /\ o_recorded <= n /\ o_status \in OpenEO!Status
          /\ o_worker[w].job \in Nat /\ o_worker[w].job <= n
      BY <1>1, <1>3 DEF OpenEOTypes, JobTask
    <3>2. "FAILED" \in OpenEO!Status
      BY DEF OpenEO!Status, OpenEO!Terminal
    <3> QED
      BY <1>2, <1>4, <3>1, <3>2
  <2>2. ASSUME NEW v \in Workers
        PROVE  /\ o_worker'[v].job <= m
               /\ o_worker'[v].task = "polled" => o_worker'[v].verdict # "none"
    <3>1. /\ o_worker[v].job \in Nat /\ o_worker[v].job <= n
          /\ o_worker[v].task = "polled" => o_worker[v].verdict # "none"
      BY <1>1, <1>3 DEF OpenEOTypes, JobTask
    <3> QED
      BY <1>4, <1>6, <1>7, <3>1
  <2> QED
    BY <1>1, <1>4, <1>5, <1>7, <2>1, <2>2 DEF OpenEOTypes
<1>9. SomeJobFinished => SomeJobFinished'
  BY <1>3, <1>4 DEF SomeJobFinished
<1>10. DoneInv'
  BY <1>1, <1>2, <1>6, <1>7, <1>9 DEF DoneInv
<1> QED
  BY <1>8, <1>10 DEF OpenEOInv

LEMMA OpenEOStays ==
  ASSUME OpenEOInv, UNCHANGED <<o_jobs, o_api, o_recorded, o_worker, o_status>>
  PROVE  OpenEOInv'
<1>1. JobCount' = JobCount /\ (SomeJobFinished' <=> SomeJobFinished)
  BY DEF JobCount, SomeJobFinished
<1> QED
  BY <1>1 DEF OpenEOInv, OpenEOTypes, DoneInv

(* A cancel request writes CANCELLING, or the status that it found.        *)
LEMMA RequestKeeps ==
  ASSUME OpenEOInv, NEW r \in Requests, OpenEO!CancelRequest(r)
  PROVE  OpenEOInv'
<1> DEFINE Request == [pc : {"new", "checked", "marked", "done"}, was : OpenEO!Cancellable]
<1>1. /\ UNCHANGED <<o_jobs, o_recorded, o_worker>>
      /\ o_api \in [Requests -> Request] /\ o_status \in OpenEO!Status /\ DoneInv
      /\ o_api[r] \in Request
  BY DEF OpenEO!CancelRequest, OpenEOInv, OpenEOTypes
<1>2. /\ o_api' \in [Requests -> Request]
      /\ o_status' \in {o_status, "CANCELLING"} \cup OpenEO!Cancellable
  <2>1. CASE OpenEO!CancelCheck(r)
    BY <1>1, <2>1 DEF OpenEO!CancelCheck
  <2>2. CASE OpenEO!CancelMark(r)
    BY <1>1, <2>2 DEF OpenEO!CancelMark, OpenEO!SetStatus
  <2>3. CASE OpenEO!CancelSend(r) \/ OpenEO!CancelDies(r)
    BY <1>1, <2>3 DEF OpenEO!CancelSend, OpenEO!CancelDies
  <2>4. CASE OpenEO!CancelRollback(r)
    BY <1>1, <2>4 DEF OpenEO!CancelRollback, OpenEO!SetStatus
  <2> QED
    BY <2>1, <2>2, <2>3, <2>4
       DEF OpenEO!CancelRequest, OpenEO!CancelStep, OpenEO!CancelProceed
<1>3. o_status' \in OpenEO!Status /\ (o_status' = "FINISHED" => o_status = "FINISHED")
  BY <1>1, <1>2 DEF OpenEO!Status, OpenEO!Cancellable
<1>4. JobCount' = JobCount /\ (SomeJobFinished' <=> SomeJobFinished)
  BY <1>1 DEF JobCount, SomeJobFinished
<1>5. OpenEOTypes'
  BY <1>1, <1>2, <1>3, <1>4 DEF OpenEOInv, OpenEOTypes
<1>6. DoneInv'
  BY <1>1, <1>3, <1>4 DEF DoneInv
<1> QED
  BY <1>5, <1>6 DEF OpenEOInv

LEMMA OpenEOStep ==
  ASSUME OpenEOInv, [OpenEO!Next]_openeoVars
  PROVE  OpenEOInv'
<1>1. CASE UNCHANGED openeoVars
  BY <1>1, OpenEOStays DEF openeoVars
<1>2. ASSUME NEW w \in Workers, OpenEO!Run(w) PROVE OpenEOInv'
  <2>1. CASE OpenEO!RunStart(w)
    <3>1. OpenEO!TakeRow(w, "run") /\ UNCHANGED <<o_status, o_recorded, o_jobs, o_api>>
      BY <2>1, Zenon DEF OpenEO!RunStart, OpenEO!row
    <3> QED
      BY <3>1, BegunTaskKeeps
  <2>2. CASE OpenEO!LogSubmission(w) \/ OpenEO!WorkerLost(w)
    <3>1. OpenEO!Finish(w) /\ UNCHANGED <<o_jobs, o_api, o_recorded, o_status>>
      BY <2>2, Zenon DEF OpenEO!LogSubmission, OpenEO!WorkerLost, OpenEO!row
    <3> QED
      BY <3>1, EndedTaskKeeps
  <2> QED
    BY <1>2, <2>1, <2>2, SubmitKeeps, RecordKeeps, RunFailKeeps DEF OpenEO!Run
<1>3. ASSUME NEW w \in Workers, OpenEO!Monitor(w) PROVE OpenEOInv'
  <2>1. CASE OpenEO!MonitorSelect(w)
    <3>1. OpenEO!TakeRow(w, "monitor") /\ UNCHANGED <<o_status, o_recorded, o_jobs, o_api>>
      BY <2>1, Zenon DEF OpenEO!MonitorSelect, OpenEO!row
    <3> QED
      BY <3>1, BegunTaskKeeps
  <2> QED
    BY <1>3, <2>1, MonitorTaskKeeps, MonitorCommitKeeps DEF OpenEO!Monitor
<1>4. ASSUME NEW w \in Workers, OpenEO!Sweep(w) PROVE OpenEOInv'
  <2>1. CASE OpenEO!DockerMonitorSelect(w)
    <3>1. OpenEO!Take(w, "docker monitor") /\ UNCHANGED <<o_status, o_recorded, o_jobs, o_api>>
      BY <2>1, Zenon DEF OpenEO!DockerMonitorSelect, OpenEO!row
    <3> QED
      BY <3>1, BegunTaskKeeps
  <2>2. CASE OpenEO!StaleSelect(w)
    <3>1. OpenEO!Take(w, "stale sweep") /\ UNCHANGED <<o_status, o_recorded, o_jobs, o_api>>
      BY <2>2, Zenon DEF OpenEO!StaleSelect, OpenEO!row
    <3> QED
      BY <3>1, BegunTaskKeeps
  <2>3. CASE OpenEO!DockerMonitorCommit(w) \/ OpenEO!StaleCommit(w)
    <3>1. /\ OpenEO!Finish(w) /\ UNCHANGED <<o_jobs, o_api, o_recorded>> /\ o_status' = "FAILED"
      BY <2>3, Zenon DEF OpenEO!DockerMonitorCommit, OpenEO!StaleCommit, OpenEO!SetStatus
    <3> QED
      BY <3>1, EndedTaskKeeps
  <2> QED
    BY <1>4, <2>1, <2>2, <2>3 DEF OpenEO!Sweep
<1>5. ASSUME NEW w \in Workers, OpenEO!WorkflowStart(w) PROVE OpenEOInv'
  <2>1. /\ OpenEO!Take(w, "cancel") \/ UNCHANGED o_worker
        /\ UNCHANGED <<o_status, o_recorded, o_jobs, o_api>>
    BY <1>5, Zenon DEF OpenEO!WorkflowStart, OpenEO!row
  <2> QED
    BY <2>1, BegunTaskKeeps, OpenEOStays
<1>6. ASSUME NEW w \in Workers, OpenEO!WorkflowWrite(w) PROVE OpenEOInv'
  <2>1. OpenEO!Finish(w) /\ UNCHANGED <<o_jobs, o_api, o_recorded>> /\ o_status' = "CANCELLED"
    BY <1>6, Zenon DEF OpenEO!WorkflowWrite, OpenEO!SetStatus
  <2> QED
    BY <2>1, EndedTaskKeeps
<1>7. ASSUME OpenEO!GetsOlder PROVE OpenEOInv'
  BY <1>7, OpenEOStays DEF OpenEO!GetsOlder, OpenEO!row
<1> QED
  BY <1>1, <1>2, <1>3, <1>4, <1>5, <1>6, <1>7, JobEndsKeeps, RequestKeeps DEF OpenEO!Next

(* An openEO execution that says FINISHED has a job that finished: through *)
(* resubmissions after a lost worker, monitors that write back the job id  *)
(* they read, the sweeps written for Docker and the cancel requests, for   *)
(* every number of each (openeo_monitoring.py:252-307).                    *)
THEOREM OpenEODone == AllSpec => []FinishedMeansDone
<1>1. OpenEOInv => FinishedMeansDone
  BY JobNumbers
     DEF OpenEOInv, OpenEOTypes, DoneInv, SomeJobFinished, FinishedMeansDone,
         OpenEO!FinishedMeansDone
<1>2. OpenEOInv /\ [AllNext]_allVars => OpenEOInv'
  BY OpenEOMove, OpenEOStep
<1> QED
  BY <1>1, <1>2, OpenEOStart, PTL DEF AllSpec

(* openEO: what the types of the jobs leave out. *)
CountsInv ==
  /\ o_ended \in BOOLEAN /\ o_runTasks \in Nat /\ o_age \in 0..2
  /\ o_cancelTasks \in Nat /\ o_faults \in 0..MaxFaults

LEMMA CountsStart == AllInit => CountsInv
<1> SUFFICES ASSUME AllInit PROVE CountsInv
  OBVIOUS
<1>1. /\ o_ended = FALSE /\ o_runTasks \in Dispatches /\ o_age = 0
      /\ o_cancelTasks = 0 /\ o_faults = 0
  BY DEF AllInit, OpenEO!Init, OpenEO!CancelInit
<1>2. Dispatches \subseteq Nat /\ MaxFaults \in Nat
  BY BatchAssumption, CancellationAssumption
<1>3. o_runTasks \in Nat
  BY <1>1, <1>2
<1>4. o_age \in 0..2 /\ o_cancelTasks \in Nat /\ o_faults \in 0..MaxFaults
  <2>1. o_age = 0 /\ o_cancelTasks = 0 /\ o_faults = 0
    BY <1>1
  <2> QED
    BY <1>2, <2>1
<1>5. o_ended \in BOOLEAN
  BY <1>1
<1> QED
  BY <1>3, <1>4, <1>5 DEF CountsInv

LEMMA CountsStep ==
  ASSUME CountsInv, [OpenEO!Next]_openeoVars
  PROVE  CountsInv'
<1>0. MaxFaults \in Nat
  BY CancellationAssumption
<1>1. o_ended' \in BOOLEAN
  <2>1. CASE UNCHANGED openeoVars
    BY <2>1 DEF openeoVars, CountsInv
  <2>2. ASSUME NEW w \in Workers, OpenEO!Run(w) PROVE o_ended' \in BOOLEAN
    BY <2>2 DEF OpenEO!Run, OpenEO!RunStart, OpenEO!SubmitJob, OpenEO!RecordJob, OpenEO!LogSubmission,
                OpenEO!RunFail, OpenEO!WorkerLost, OpenEO!row, CountsInv
  <2>3. ASSUME NEW w \in Workers, OpenEO!Monitor(w) PROVE o_ended' \in BOOLEAN
    <3>1. CASE OpenEO!MonitorCommit(w)
      BY <3>1 DEF OpenEO!MonitorCommit
    <3> QED
      BY <2>3, <3>1 DEF OpenEO!Monitor, OpenEO!MonitorSelect, OpenEO!Poll, OpenEO!row, CountsInv
  <2>4. ASSUME NEW w \in Workers, OpenEO!Sweep(w) PROVE o_ended' \in BOOLEAN
    BY <2>4 DEF OpenEO!Sweep, OpenEO!DockerMonitorSelect, OpenEO!DockerMonitorCommit,
                OpenEO!StaleSelect, OpenEO!StaleCommit, OpenEO!SetStatus, OpenEO!row, CountsInv
  <2>5. ASSUME NEW w \in Workers, OpenEO!WorkflowStart(w) \/ OpenEO!WorkflowWrite(w)
        PROVE  o_ended' \in BOOLEAN
    BY <2>5 DEF OpenEO!WorkflowStart, OpenEO!WorkflowWrite, OpenEO!SetStatus, OpenEO!row, CountsInv
  <2>6. ASSUME NEW r \in Requests, OpenEO!CancelRequest(r) PROVE o_ended' \in BOOLEAN
    BY <2>6 DEF OpenEO!CancelRequest, OpenEO!CancelStep, OpenEO!CancelProceed, OpenEO!CancelCheck,
                OpenEO!CancelMark, OpenEO!CancelSend, OpenEO!CancelRollback, OpenEO!CancelDies,
                OpenEO!SetStatus, CountsInv
  <2>7. ASSUME OpenEO!GetsOlder \/ \E j \in DOMAIN o_jobs : OpenEO!JobEnds(j)
        PROVE  o_ended' \in BOOLEAN
    BY <2>7 DEF OpenEO!GetsOlder, OpenEO!JobEnds, OpenEO!row, CountsInv
  <2> QED
    BY <2>1, <2>2, <2>3, <2>4, <2>5, <2>6, <2>7 DEF OpenEO!Next
<1>2. /\ o_runTasks' \in {o_runTasks, o_runTasks - 1} /\ (o_runTasks' # o_runTasks => o_runTasks > 0)
      /\ o_cancelTasks' \in {o_cancelTasks, o_cancelTasks - 1, o_cancelTasks + 1}
      /\ o_cancelTasks' = o_cancelTasks - 1 => o_cancelTasks > 0
      /\ o_age' = o_age \/ (o_age < 2 /\ o_age' = o_age + 1)
      /\ o_faults' = o_faults \/ (o_faults < MaxFaults /\ o_faults' = o_faults + 1)
  <2>0. o_cancelTasks \in Nat /\ o_runTasks \in Nat
    BY DEF CountsInv
  <2>1. CASE UNCHANGED openeoVars
    BY <2>0, <2>1 DEF openeoVars
  <2>2. ASSUME NEW w \in Workers, OpenEO!Run(w)
        PROVE  /\ UNCHANGED <<o_cancelTasks, o_age, o_faults>>
               /\ o_runTasks' = o_runTasks \/ (o_runTasks > 0 /\ o_runTasks' = o_runTasks - 1)
    BY <2>2 DEF OpenEO!Run, OpenEO!RunStart, OpenEO!SubmitJob, OpenEO!RecordJob, OpenEO!LogSubmission,
                OpenEO!RunFail, OpenEO!WorkerLost, OpenEO!broker
  <2>3. ASSUME NEW w \in Workers, OpenEO!Monitor(w) \/ OpenEO!Sweep(w) \/ OpenEO!WorkflowWrite(w)
        PROVE  UNCHANGED <<o_runTasks, o_cancelTasks, o_age, o_faults>>
    BY <2>3 DEF OpenEO!Monitor, OpenEO!MonitorSelect, OpenEO!Poll, OpenEO!MonitorCommit,
                OpenEO!Sweep, OpenEO!DockerMonitorSelect, OpenEO!DockerMonitorCommit,
                OpenEO!StaleSelect, OpenEO!StaleCommit, OpenEO!WorkflowWrite, OpenEO!broker
  <2>4. ASSUME NEW w \in Workers, OpenEO!WorkflowStart(w)
        PROVE  /\ UNCHANGED <<o_runTasks, o_age, o_faults>>
               /\ o_cancelTasks > 0 /\ o_cancelTasks' = o_cancelTasks - 1
    BY <2>4 DEF OpenEO!WorkflowStart
  <2>5. ASSUME NEW r \in Requests, OpenEO!CancelRequest(r)
        PROVE  /\ UNCHANGED <<o_runTasks, o_age>> /\ o_cancelTasks' \in {o_cancelTasks, o_cancelTasks + 1}
               /\ o_faults' = o_faults \/ (o_faults < MaxFaults /\ o_faults' = o_faults + 1)
    BY <2>5 DEF OpenEO!CancelRequest, OpenEO!CancelStep, OpenEO!CancelProceed, OpenEO!CancelCheck,
                OpenEO!CancelMark, OpenEO!CancelSend, OpenEO!CancelRollback, OpenEO!CancelDies,
                OpenEO!Fault
  <2>6. ASSUME OpenEO!GetsOlder \/ \E j \in DOMAIN o_jobs : OpenEO!JobEnds(j)
        PROVE  /\ UNCHANGED <<o_runTasks, o_cancelTasks, o_faults>>
               /\ o_age' = o_age \/ (o_age < 2 /\ o_age' = o_age + 1)
    BY <2>6 DEF OpenEO!GetsOlder, OpenEO!JobEnds, OpenEO!broker
  <2> QED
    BY <2>0, <2>1, <2>2, <2>3, <2>4, <2>5, <2>6 DEF OpenEO!Next
<1>3. o_runTasks \in Nat /\ o_cancelTasks \in Nat /\ o_age \in 0..2 /\ o_faults \in 0..MaxFaults
  BY DEF CountsInv
<1>4. o_runTasks' \in Nat /\ o_cancelTasks' \in Nat /\ o_age' \in 0..2 /\ o_faults' \in 0..MaxFaults
  BY <1>0, <1>2, <1>3
<1> QED
  BY <1>1, <1>4 DEF CountsInv

LEMMA OpenEOTyped == OpenEOInv /\ CountsInv => OpenEO!TypeOK
<1> SUFFICES ASSUME OpenEOInv, CountsInv PROVE OpenEO!TypeOK
  OBVIOUS
<1>1. /\ o_recorded \in 0..Len(o_jobs) /\ o_jobs \in Seq({"running", "finished", "error", "canceled"})
      /\ o_status \in OpenEO!Status /\ o_worker \in [Workers -> JobTask] /\ OpenEO!CancelType
  <2>1. OpenEOTypes /\ JobCount \in Nat
    BY JobNumbers DEF OpenEOInv, OpenEOTypes
  <2>2. o_recorded \in 0..Len(o_jobs)
    BY <2>1 DEF OpenEOTypes, JobCount
  <2> QED
    BY <2>1, <2>2 DEF OpenEOTypes, JobStates, CountsInv, OpenEO!CancelType
<1>2. Verdicts = {"none", "RUNNING"} \cup OpenEO!Terminal
  BY DEF Verdicts, OpenEO!Terminal
<1> QED
  BY <1>1, <1>2 DEF OpenEO!TypeOK, CountsInv, JobTask

-----------------------------------------------------------------------------
(* The pages of the list of executions                                     *)

Smaller(S, R, x) == {y \in S : <<y, x>> \in R}

(* In a strict total order a member has as many smaller ones as its place  *)
(* says: no two have the same number, and every number below the size of   *)
(* the set is that of some member.                                         *)
LEMMA Places ==
  ASSUME NEW S, IsFiniteSet(S), NEW R,
         \A x \in S : <<x, x>> \notin R,
         \A x, y, z \in S : <<x, y>> \in R /\ <<y, z>> \in R => <<x, z>> \in R,
         \A x, y \in S : x # y => <<x, y>> \in R \/ <<y, x>> \in R
  PROVE  /\ \A x \in S : /\ Cardinality(Smaller(S, R, x)) \in Nat
                         /\ Cardinality(Smaller(S, R, x)) < Cardinality(S)
         /\ \A k \in Nat : k < Cardinality(S) => \E x \in S : Cardinality(Smaller(S, R, x)) = k
<1>1. PICK n \in Nat : n = Cardinality(S)
  BY FS_CardinalityType
<1> DEFINE f == [x \in S |-> Cardinality(Smaller(S, R, x))]
<1>2. ASSUME NEW x \in S
      PROVE  /\ IsFiniteSet(Smaller(S, R, x)) /\ f[x] = Cardinality(Smaller(S, R, x))
             /\ f[x] \in Nat /\ f[x] < n
  <2>1. Smaller(S, R, x) \in SUBSET S /\ x \notin Smaller(S, R, x)
    BY DEF Smaller
  <2>2. IsFiniteSet(Smaller(S, R, x)) /\ Cardinality(Smaller(S, R, x)) \in Nat
    BY <2>1, FS_Subset, FS_CardinalityType
  <2>3. Cardinality(Smaller(S, R, x)) <= n /\ Cardinality(Smaller(S, R, x)) # n
    <3>1. Cardinality(Smaller(S, R, x)) <= Cardinality(S)
      BY <2>1, FS_Subset
    <3>2. Cardinality(S) = Cardinality(Smaller(S, R, x)) => S = Smaller(S, R, x)
      BY <2>1, FS_Subset
    <3> QED
      BY <1>1, <2>1, <3>1, <3>2
  <2> QED
    BY <1>1, <2>2, <2>3
<1>3. ASSUME NEW x \in S, NEW y \in S, <<x, y>> \in R PROVE f[x] < f[y]
  <2>1. Smaller(S, R, x) \in SUBSET Smaller(S, R, y) /\ Smaller(S, R, x) # Smaller(S, R, y)
    BY <1>3 DEF Smaller
  <2>2. IsFiniteSet(Smaller(S, R, y))
    BY <1>2
  <2>3. /\ Cardinality(Smaller(S, R, x)) <= Cardinality(Smaller(S, R, y))
        /\ Cardinality(Smaller(S, R, x)) # Cardinality(Smaller(S, R, y))
    BY <2>1, <2>2, FS_Subset
  <2> HIDE DEF f
  <2> QED
    BY <1>2, <2>3
<1>4. \A x, y \in S : f[x] = f[y] => x = y
  <2> SUFFICES ASSUME NEW x \in S, NEW y \in S, x # y PROVE f[x] # f[y]
    OBVIOUS
  <2>1. f[x] \in Nat /\ f[y] \in Nat
    BY <1>2
  <2>2. f[x] < f[y] \/ f[y] < f[x]
    BY <1>3
  <2> HIDE DEF f
  <2> QED
    BY <2>1, <2>2
<1>5. IsFiniteSet(0..(n - 1)) /\ Cardinality(0..(n - 1)) = n
  BY FS_Interval
<1>6. f \in [S -> 0..(n - 1)]
  <2>1. \A x \in S : f[x] \in 0..(n - 1)
    <3> HIDE DEF f
    <3> QED
      BY <1>2
  <2> QED
    BY <2>1
<1> HIDE DEF f
<1>7. f \in Injection(S, 0..(n - 1))
  BY <1>4, <1>6, Fun_IsInj
<1>8. f \in Surjection(S, 0..(n - 1))
  BY <1>1, <1>5, <1>7, FS_Injection
<1>9. ASSUME NEW k \in Nat, k < n PROVE \E x \in S : f[x] = k
  <2>1. k \in 0..(n - 1)
    BY <1>9
  <2>2. \A j \in 0..(n - 1) : \E x \in S : f[x] = j
    BY <1>8 DEF Surjection
  <2> QED
    BY <2>1, <2>2, Zenon
<1> QED
  BY <1>1, <1>2, <1>9

(* A page that others come after is full.                                  *)
LEMMA FullPage ==
  ASSUME NEW S, IsFiniteSet(S), NEW R,
         \A x \in S : <<x, x>> \notin R,
         \A x, y, z \in S : <<x, y>> \in R /\ <<y, z>> \in R => <<x, z>> \in R,
         \A x, y \in S : x # y => <<x, y>> \in R \/ <<y, x>> \in R,
         NEW o \in Nat, NEW p \in Nat,
         NEW e \in S, o + p <= Cardinality(Smaller(S, R, e)),
         NEW T, T = {x \in S : /\ o <= Cardinality(Smaller(S, R, x))
                               /\ Cardinality(Smaller(S, R, x)) < o + p}
  PROVE  Cardinality(T) \in Nat /\ p <= Cardinality(T)
<1> DEFINE f == [x \in T |-> Cardinality(Smaller(S, R, x))]
<1>1. /\ \A x \in S : /\ Cardinality(Smaller(S, R, x)) \in Nat
                      /\ Cardinality(Smaller(S, R, x)) < Cardinality(S)
      /\ \A k \in Nat : k < Cardinality(S) => \E x \in S : Cardinality(Smaller(S, R, x)) = k
  BY Places
<1>2. IsFiniteSet(T) /\ Cardinality(T) \in Nat
  <2>1. T \in SUBSET S
    OBVIOUS
  <2> QED
    BY <2>1, FS_Subset, FS_CardinalityType
<1>3. f \in [T -> o..(o + p - 1)]
  <2>1. \A x \in T : Cardinality(Smaller(S, R, x)) \in o..(o + p - 1)
    BY <1>1
  <2> QED
    BY <2>1
<1>4. \A k \in o..(o + p - 1) : \E x \in T : f[x] = k
  <2> SUFFICES ASSUME NEW k \in o..(o + p - 1) PROVE \E x \in T : f[x] = k
    OBVIOUS
  <2>1. Cardinality(S) \in Nat
    BY FS_CardinalityType
  <2>2. k \in Nat /\ k < Cardinality(S)
    BY <1>1, <2>1
  <2>3. PICK x \in S : Cardinality(Smaller(S, R, x)) = k
    BY <1>1, <2>2
  <2>4. x \in T
    BY <2>3
  <2> QED
    BY <2>3, <2>4
<1> HIDE DEF f
<1>5. f \in Surjection(T, o..(o + p - 1))
  BY <1>3, <1>4, Fun_IsSurj
<1>6. Cardinality(o..(o + p - 1)) <= Cardinality(T)
  BY <1>2, <1>5, FS_Surjection
<1>7. Cardinality(o..(o + p - 1)) = p
  <2>1. o \in Int /\ o + p - 1 \in Int
    OBVIOUS
  <2>2. Cardinality(o..(o + p - 1)) = IF o > o + p - 1 THEN 0 ELSE (o + p - 1) - o + 1
    BY <2>1, FS_Interval
  <2> QED
    BY <2>2
<1> QED
  BY <1>2, <1>6, <1>7

ExecRow == [owner : Users \cup {"nobody"}, end : Nat]

Walker == [op : {"idle", "pages", "export", "done"}, by : Users \cup Admins \cup {"nobody"},
           own : BOOLEAN, running : BOOLEAN, sort : {"default", "newest", "oldest"}, page : Nat,
           due : SUBSET Nat, since : SUBSET {"start", "end", "delete"}]

(* How many executions there have been. *)
ExecCount == Len(p_exec)

PagesTypes == p_exec \in Seq(ExecRow) /\ p_walk \in Walker

(* No two end at the same time, so that the default order is total; and    *)
(* some number is as large as every end, so that there is a last one.      *)
EndsInv ==
  /\ \A a, b \in 1..ExecCount : a # b /\ p_exec[a].end # 0 => p_exec[a].end # p_exec[b].end
  /\ \E m \in Nat : \A e \in 1..ExecCount : p_exec[e].end <= m

(* Nothing happened since the walk began that may make it miss a row.      *)
Quiet(w) == "delete" \notin w.since /\ ("end" \in w.since => w.sort # "default" /\ ~w.running)

(* What is due is on a page that is still to come.                         *)
ToCome(w) ==
  \A e \in w.due :
    e \in Pages!Selected(w) /\ Pages!Offset(w.page) <= Cardinality(Pages!Ahead(w, e))

WalkOn(w) ==
  Quiet(w) =>
    /\ w.op = "pages" => w.page >= 1 /\ ToCome(w)
    /\ w.op = "export" => w.due \subseteq Pages!Live
    /\ w.op = "done" => w.due = {}

PagesInv == PagesTypes /\ EndsInv /\ WalkOn(p_walk)

LEMMA SamePageSizes == \A S : Pages!Cardinality(S) = Cardinality(S)
BY DEF Cardinality, Pages!Cardinality

LEMMA PageNumbers == PageSize \in Nat /\ PageSize # 0
BY LifecyclesAssumption

LEMMA ExecNumbers ==
  ASSUME PagesTypes
  PROVE  /\ ExecCount \in Nat /\ DOMAIN p_exec = 1..ExecCount /\ Pages!Execs = 1..ExecCount
         /\ \A e \in 1..ExecCount : p_exec[e] \in ExecRow
BY LenProperties, ElementOfSeq DEF PagesTypes, ExecCount, Pages!Execs

LEMMA NumbersNext == (PagesTypes => ExecCount \in Nat /\ Pages!Execs = 1..ExecCount)'
<1>1. PagesTypes => ExecCount \in Nat /\ Pages!Execs = 1..ExecCount
  BY ExecNumbers
<1> QED
  BY <1>1, PTL

LEMMA SelectedFinite ==
  ASSUME PagesTypes, NEW w
  PROVE  /\ Pages!Selected(w) \subseteq Pages!Live /\ Pages!Live \subseteq 1..ExecCount
         /\ IsFiniteSet(Pages!Selected(w))
         /\ \A e : IsFiniteSet(Pages!Ahead(w, e)) /\ Cardinality(Pages!Ahead(w, e)) \in Nat
<1>1. Pages!Selected(w) \subseteq Pages!Live /\ Pages!Live \subseteq 1..ExecCount
  BY ExecNumbers DEF Pages!Selected, Pages!Live
<1>2. IsFiniteSet(1..ExecCount)
  BY ExecNumbers, FS_Interval
<1>3. Pages!Selected(w) \in SUBSET (1..ExecCount)
  BY <1>1
<1>4. IsFiniteSet(Pages!Selected(w))
  BY <1>2, <1>3, FS_Subset
<1>5. ASSUME NEW e PROVE IsFiniteSet(Pages!Ahead(w, e)) /\ Cardinality(Pages!Ahead(w, e)) \in Nat
  <2>1. Pages!Ahead(w, e) \in SUBSET Pages!Selected(w)
    BY DEF Pages!Ahead
  <2> QED
    BY <1>4, <2>1, FS_Subset, FS_CardinalityType
<1> QED
  BY <1>1, <1>4, <1>5

FiniteAhead ==
  \A w, e : IsFiniteSet(Pages!Ahead(w, e)) /\ Cardinality(Pages!Ahead(w, e)) \in Nat

LEMMA FiniteNow == PagesTypes => FiniteAhead
BY SelectedFinite DEF FiniteAhead

LEMMA FiniteNext == PagesTypes' => FiniteAhead'
BY FiniteNow, PTL

LEMMA NoWalkRecord ==
  /\ Pages!NoWalk = [op |-> "idle", by |-> "nobody", own |-> FALSE, running |-> FALSE,
                     sort |-> "default", page |-> 0, due |-> {}, since |-> {}]
  /\ Pages!NoWalk \in Walker /\ Pages!NoWalk.op = "idle"
BY DEF Pages!NoWalk, Pages!Nobody, Walker

LEMMA PagesStart == AllInit => PagesInv
<1> SUFFICES ASSUME AllInit PROVE PagesInv
  OBVIOUS
<1>1. p_exec = <<>> /\ p_walk = Pages!NoWalk
  BY DEF AllInit, Pages!Init
<1>2. PagesTypes /\ ExecCount = 0
  BY <1>1, NoWalkRecord DEF PagesTypes, ExecCount
<1>3. EndsInv
  BY <1>2 DEF EndsInv
<1>4. WalkOn(p_walk)
  BY <1>1, NoWalkRecord DEF WalkOn
<1> QED
  BY <1>2, <1>3, <1>4 DEF PagesInv

(* What happens to the table is noted by a walk that goes on.              *)
LEMMA Noted ==
  ASSUME NEW w \in Walker, NEW what \in {"start", "end", "delete"}, NEW x,
         x = [w EXCEPT !.since = IF w.op \in {"idle", "done"} THEN @ ELSE @ \cup {what}]
  PROVE  /\ x \in Walker /\ x.op = w.op /\ x.by = w.by /\ (x.own <=> w.own)
         /\ (x.running <=> w.running) /\ x.sort = w.sort /\ x.page = w.page /\ x.due = w.due
         /\ w.since \subseteq x.since
         /\ w.op \in {"pages", "export"} => what \in x.since
<1>1. PICK s : s = IF w.op \in {"idle", "done"} THEN w.since ELSE w.since \cup {what}
  OBVIOUS
<1>2. /\ s \in SUBSET {"start", "end", "delete"} /\ w.since \subseteq s
      /\ w.op \in {"pages", "export"} => what \in s
  BY <1>1 DEF Walker
<1>3. x = [w EXCEPT !.since = s]
  BY <1>1, Zenon
<1> QED
  BY <1>2, <1>3 DEF Walker

LEMMA NotedQuiet ==
  ASSUME NEW w \in Walker, NEW what \in {"start", "end", "delete"}, NEW x,
         x = [w EXCEPT !.since = IF w.op \in {"idle", "done"} THEN @ ELSE @ \cup {what}],
         Quiet(x)
  PROVE  /\ Quiet(w)
         /\ w.op \in {"pages", "export"} => what # "delete"
         /\ w.op \in {"pages", "export"} /\ what = "end" => w.sort # "default" /\ ~w.running
BY Noted DEF Quiet

LEMMA HappensNoted ==
  ASSUME NEW what, Pages!Happens(what)
  PROVE  p_walk' = [p_walk EXCEPT !.since = IF p_walk.op \in {"idle", "done"} THEN @ ELSE @ \cup {what}]
BY Zenon DEF Pages!Happens

(* A row that has more rows ahead of it is not on an earlier page.         *)
LEMMA TableGrows ==
  ASSUME PagesTypes, PagesTypes', NEW w \in Walker, NEW x \in Walker,
         x.by = w.by, x.own <=> w.own, x.running <=> w.running, x.sort = w.sort,
         x.page = w.page, x.due = w.due,
         \A e \in Pages!Selected(w) : e \in Pages!Selected(w)',
         \A a, b \in Pages!Selected(w) : Pages!Before(w.sort, a, b) => Pages!Before(w.sort, a, b)',
         ToCome(w)
  PROVE  ToCome(x)'
<1>1. Pages!Selected(x)' = Pages!Selected(w)'
  BY DEF Pages!Selected
<1>2. ASSUME NEW e \in x.due
      PROVE  /\ e \in Pages!Selected(x)'
             /\ Pages!Offset(x.page) <= Cardinality(Pages!Ahead(x, e)')
  <2>1. e \in Pages!Selected(w) /\ Pages!Offset(w.page) <= Cardinality(Pages!Ahead(w, e))
    BY <1>2 DEF ToCome
  <2>2. Pages!Ahead(w, e) \in SUBSET (Pages!Ahead(x, e)')
    BY <1>1, <2>1 DEF Pages!Ahead
  <2>3. IsFiniteSet(Pages!Ahead(x, e)') /\ Cardinality(Pages!Ahead(x, e)') \in Nat
    BY FiniteNext DEF FiniteAhead
  <2>4. Cardinality(Pages!Ahead(w, e)) <= Cardinality(Pages!Ahead(x, e)')
    BY <2>2, <2>3, FS_Subset
  <2>5. Pages!Offset(x.page) = Pages!Offset(w.page) /\ Pages!Offset(w.page) \in Int
    BY PageNumbers DEF Pages!Offset, Walker
  <2>6. Cardinality(Pages!Ahead(w, e)) \in Nat
    BY SelectedFinite
  <2> QED
    BY <1>1, <2>1, <2>3, <2>4, <2>5, <2>6
<1> QED
  BY <1>2 DEF ToCome, Pages!Offset

(* The rows keep their owners; those that a walk sees keep their ends.     *)
LEMMA RowsKept ==
  ASSUME PagesTypes, PagesTypes', ExecCount <= ExecCount', NEW w \in Walker,
         \A e \in 1..ExecCount : p_exec'[e].owner = p_exec[e].owner,
         \/ \A e \in 1..ExecCount : p_exec'[e].end = p_exec[e].end
         \/ w.sort # "default" /\ ~w.running
  PROVE  /\ \A e \in Pages!Selected(w) : e \in Pages!Selected(w)'
         /\ \A a, b \in Pages!Selected(w) : Pages!Before(w.sort, a, b) => Pages!Before(w.sort, a, b)'
         /\ \A e \in Pages!Live : e \in Pages!Live'
<1>1. ExecCount \in Nat /\ Pages!Execs = 1..ExecCount
  BY ExecNumbers
<1>2. (PagesTypes => ExecCount \in Nat /\ Pages!Execs = 1..ExecCount)'
  BY NumbersNext
<1>3. \A e \in Pages!Execs : e \in Pages!Execs'
  BY <1>1, <1>2
<1>4. \A e \in Pages!Live : e \in Pages!Live'
  BY <1>1, <1>3 DEF Pages!Live
<1>5. \A e \in Pages!Selected(w) : e \in Pages!Live /\ e \in 1..ExecCount
  BY <1>1 DEF Pages!Selected, Pages!Live
<1>6. \A e \in Pages!Selected(w) : e \in Pages!Selected(w)'
  BY <1>1, <1>4, <1>5 DEF Pages!Selected, Pages!Ended
<1>7. \A a, b \in Pages!Selected(w) : Pages!Before(w.sort, a, b) => Pages!Before(w.sort, a, b)'
  <2> SUFFICES ASSUME NEW a \in Pages!Selected(w), NEW b \in Pages!Selected(w),
                      Pages!Before(w.sort, a, b)
               PROVE  Pages!Before(w.sort, a, b)'
    OBVIOUS
  <2>1. a \in 1..ExecCount /\ b \in 1..ExecCount
    BY <1>5
  <2>2. CASE w.sort # "default"
    <3>1. w.sort \in {"newest", "oldest"}
      BY <2>2 DEF Walker
    <3> QED
      BY <3>1 DEF Pages!Before
  <2>3. CASE w.sort = "default"
    <3>1. p_exec'[a].end = p_exec[a].end /\ p_exec'[b].end = p_exec[b].end
      BY <2>1, <2>3
    <3> QED
      BY <2>3, <3>1 DEF Pages!Before, Pages!Ended
  <2> QED
    BY <2>2, <2>3
<1> QED
  BY <1>4, <1>6, <1>7

LEMMA WalkOnNext ==
  ASSUME NEW x, x = p_walk', WalkOn(x)'
  PROVE  WalkOn(p_walk)'
BY DEF WalkOn, Quiet, ToCome, Pages!Selected, Pages!Ahead, Pages!Offset, Pages!Before

(* The table changes under a walk.                                         *)
LEMMA TableKeeps ==
  ASSUME PagesInv, PagesTypes', ExecCount <= ExecCount',
         NEW what \in {"start", "end", "delete"}, Pages!Happens(what),
         what # "delete" => \A e \in 1..ExecCount : p_exec'[e].owner = p_exec[e].owner,
         what = "start" => \A e \in 1..ExecCount : p_exec'[e].end = p_exec[e].end
  PROVE  WalkOn(p_walk)'
<1>1. PICK w \in Walker : w = p_walk /\ WalkOn(w)
  BY DEF PagesInv, PagesTypes
<1>2. PICK x : x = [w EXCEPT !.since = IF w.op \in {"idle", "done"} THEN @ ELSE @ \cup {what}]
  OBVIOUS
<1>3. x = p_walk'
  BY <1>1, <1>2, HappensNoted, Zenon
<1>4. /\ x \in Walker /\ x.op = w.op /\ x.by = w.by /\ (x.own <=> w.own)
      /\ (x.running <=> w.running) /\ x.sort = w.sort /\ x.page = w.page /\ x.due = w.due
  BY <1>2, Noted
<1>5. WalkOn(x)'
  <2> SUFFICES ASSUME Quiet(x)
               PROVE  /\ x.op = "pages" => x.page >= 1 /\ ToCome(x)'
                      /\ x.op = "export" => x.due \subseteq Pages!Live'
                      /\ x.op = "done" => x.due = {}
    BY DEF WalkOn, Quiet
  <2>1. Quiet(w)
    BY <1>2, NotedQuiet
  <2>2. ASSUME w.op \in {"pages", "export"}
        PROVE  /\ \A e \in 1..ExecCount : p_exec'[e].owner = p_exec[e].owner
               /\ \/ \A e \in 1..ExecCount : p_exec'[e].end = p_exec[e].end
                  \/ w.sort # "default" /\ ~w.running
    BY <1>2, <2>2, NotedQuiet
  <2>3. ASSUME w.op \in {"pages", "export"}
        PROVE  /\ \A e \in Pages!Selected(w) : e \in Pages!Selected(w)'
               /\ \A a, b \in Pages!Selected(w) :
                    Pages!Before(w.sort, a, b) => Pages!Before(w.sort, a, b)'
               /\ \A e \in Pages!Live : e \in Pages!Live'
    BY <2>2, <2>3, RowsKept DEF PagesInv
  <2>4. ASSUME x.op = "pages" PROVE x.page >= 1 /\ ToCome(x)'
    <3>1. w.op = "pages" /\ w.page >= 1 /\ ToCome(w)
      BY <1>1, <1>4, <2>1, <2>4 DEF WalkOn
    <3> QED
      BY <1>4, <2>3, <3>1, TableGrows DEF PagesInv
  <2>5. ASSUME x.op = "export" PROVE x.due \subseteq Pages!Live'
    <3>1. w.op = "export" /\ w.due \subseteq Pages!Live
      BY <1>1, <1>4, <2>1, <2>5 DEF WalkOn
    <3> QED
      BY <1>4, <2>3, <3>1
  <2>6. ASSUME x.op = "done" PROVE x.due = {}
    BY <1>1, <1>4, <2>1, <2>6 DEF WalkOn
  <2> QED
    BY <2>4, <2>5, <2>6
<1> QED
  BY <1>3, <1>5, WalkOnNext

LEMMA RunScriptKeeps ==
  ASSUME PagesInv, NEW u \in Users, Pages!RunScript(u)
  PROVE  PagesInv'
<1>1. /\ PagesTypes /\ EndsInv /\ Pages!Happens("start")
      /\ p_exec' = Append(p_exec, [owner |-> u, end |-> 0])
  BY DEF PagesInv, Pages!RunScript
<1>2. PICK n \in Nat : n = ExecCount
  BY <1>1, ExecNumbers
<1>3. PICK r : r = [owner |-> u, end |-> 0]
  OBVIOUS
<1>31. r \in ExecRow /\ r.end = 0
  BY <1>3 DEF ExecRow
<1>4. /\ p_exec' \in Seq(ExecRow) /\ ExecCount' = n + 1
      /\ \A e \in 1..n : p_exec'[e] = p_exec[e]
      /\ p_exec'[n + 1] = r
  <2>1. p_exec \in Seq(ExecRow) /\ p_exec' = Append(p_exec, r)
    BY <1>1, <1>3 DEF PagesTypes
  <2> QED
    BY <1>2, <1>31, <2>1, AppendProperties DEF ExecCount
<1>5. PagesTypes'
  <2>1. PICK w \in Walker : w = p_walk
    BY <1>1 DEF PagesTypes
  <2>2. PICK x : x = [w EXCEPT !.since = IF w.op \in {"idle", "done"} THEN @ ELSE @ \cup {"start"}]
    OBVIOUS
  <2>3. x \in Walker
    BY <2>2, Noted
  <2>4. p_walk' = x
    BY <1>1, <2>1, <2>2, HappensNoted, Zenon
  <2> QED
    BY <1>4, <2>3, <2>4 DEF PagesTypes
<1>6. EndsInv'
  <2>1. \A e \in 1..ExecCount' : e \in 1..n \/ (e = n + 1 /\ p_exec'[e].end = 0)
    BY <1>2, <1>31, <1>4
  <2>2. /\ \A a, b \in 1..n : a # b /\ p_exec[a].end # 0 => p_exec[a].end # p_exec[b].end
        /\ \E m \in Nat : \A e \in 1..n : p_exec[e].end <= m
    BY <1>1, <1>2 DEF EndsInv
  <2>3. \A a, b \in 1..ExecCount' : a # b /\ p_exec'[a].end # 0 => p_exec'[a].end # p_exec'[b].end
    BY <1>4, <2>1, <2>2
  <2>4. PICK m \in Nat : \A e \in 1..n : p_exec[e].end <= m
    BY <2>2
  <2>5. \A e \in 1..ExecCount' : p_exec'[e].end <= m
    BY <1>4, <2>1, <2>4
  <2> QED
    BY <2>3, <2>5 DEF EndsInv
<1>7. WalkOn(p_walk)'
  <2>1. ExecCount <= ExecCount'
    BY <1>2, <1>4
  <2> QED
    BY <1>1, <1>2, <1>4, <1>5, <2>1, TableKeeps
<1> QED
  BY <1>5, <1>6, <1>7 DEF PagesInv

(* A step that rewrites one row. *)
LEMMA RowKeeps ==
  ASSUME PagesInv, NEW e \in 1..ExecCount, NEW r \in ExecRow, p_exec' = [p_exec EXCEPT ![e] = r],
         r.end # 0 => \A a \in 1..ExecCount : p_exec[a].end < r.end,
         NEW what \in {"end", "delete"}, Pages!Happens(what),
         what = "end" => r.owner = p_exec[e].owner
  PROVE  PagesInv'
<1>1. PagesTypes /\ EndsInv
  BY DEF PagesInv
<1>2. PICK n \in Nat : n = ExecCount /\ DOMAIN p_exec = 1..n
  BY <1>1, ExecNumbers
<1>3. p_exec' \in Seq(ExecRow) /\ ExecCount' = n
  BY <1>1, <1>2, ExceptSeq DEF PagesTypes, ExecCount
<1>4. p_exec'[e] = r /\ \A a \in 1..n : a # e => p_exec'[a] = p_exec[a]
  BY <1>1, <1>2 DEF PagesTypes
<1>5. PagesTypes'
  <2>1. PICK w \in Walker : w = p_walk
    BY <1>1 DEF PagesTypes
  <2>2. PICK x : x = [w EXCEPT !.since = IF w.op \in {"idle", "done"} THEN @ ELSE @ \cup {what}]
    OBVIOUS
  <2>3. x \in Walker
    BY <2>2, Noted
  <2>4. p_walk' = x
    BY <2>1, <2>2, HappensNoted, Zenon
  <2> QED
    BY <1>3, <2>3, <2>4 DEF PagesTypes
<1>6. EndsInv'
  <2>1. \A a \in 1..n : p_exec[a].end \in Nat /\ r.end \in Nat
    BY <1>1, <1>2, ExecNumbers DEF ExecRow
  <2>2. \A a, b \in 1..n : a # b /\ p_exec'[a].end # 0 => p_exec'[a].end # p_exec'[b].end
    <3> SUFFICES ASSUME NEW a \in 1..n, NEW b \in 1..n, a # b, p_exec'[a].end # 0
                 PROVE  p_exec'[a].end # p_exec'[b].end
      OBVIOUS
    <3>1. CASE a = e
      BY <1>2, <1>4, <2>1, <3>1
    <3>2. CASE b = e
      <4>1. p_exec'[a].end = p_exec[a].end /\ p_exec'[b].end = r.end
        BY <1>4, <3>2
      <4> QED
        BY <1>2, <2>1, <3>2, <4>1
    <3>3. CASE a # e /\ b # e
      BY <1>1, <1>2, <1>4, <3>3 DEF EndsInv
    <3> QED
      BY <3>1, <3>2, <3>3
  <2>3. PICK m \in Nat : \A a \in 1..n : p_exec[a].end <= m
    BY <1>1, <1>2 DEF EndsInv
  <2>4. PICK k \in Nat : k = m + r.end
    BY <1>2, <2>1
  <2>5. \A a \in 1..n : p_exec'[a].end <= k
    BY <1>4, <2>1, <2>3, <2>4
  <2> QED
    BY <1>3, <2>2, <2>5 DEF EndsInv
<1>7. WalkOn(p_walk)'
  <2>1. ExecCount <= ExecCount'
    BY <1>2, <1>3
  <2>2. what # "delete" => \A a \in 1..ExecCount : p_exec'[a].owner = p_exec[a].owner
    BY <1>2, <1>4
  <2> QED
    BY <1>5, <2>1, <2>2, TableKeeps
<1> QED
  BY <1>5, <1>6, <1>7 DEF PagesInv

LEMMA LargestOf ==
  ASSUME NEW n \in Nat, NEW S \in SUBSET (0..n), S # {}
  PROVE  \E m \in S : \A k \in S : m >= k
<1> DEFINE T == {n - k : k \in S}
           R == {ss \in Nat \X Nat : ss[1] < ss[2]}
<1>1. T \subseteq Nat /\ T # {}
  <2>1. \A k \in S : n - k \in Nat
    OBVIOUS
  <2> QED
    BY <2>1
<1>2. PICK d \in T : \A e \in T : d <= e
  <2>1. IsWellFoundedOn(R, Nat)
    BY NatLessThanWellFounded DEF OpToRel
  <2>2. PICK x \in T : \A y \in T : ~(<<y, x>> \in R)
    <3> HIDE DEF T, R
    <3> QED
      BY <1>1, <2>1, WFMin
  <2>3. \A y \in T : ~(y < x)
    BY <1>1, <2>2
  <2> HIDE DEF T
  <2> QED
    BY <1>1, <2>3
<1>3. PICK m \in S : d = n - m
  OBVIOUS
<1>4. ASSUME NEW k \in S
      PROVE  m >= k
  <2>1. n - k \in T
    OBVIOUS
  <2>2. d <= n - k
    BY <1>2, <2>1
  <2> QED
    BY <1>3, <2>2
<1> QED
  BY <1>4

LEMMA EndKeeps ==
  ASSUME PagesInv, NEW e \in Pages!Execs, Pages!End(e)
  PROVE  PagesInv'
<1> DEFINE S == {p_exec[x].end : x \in Pages!Execs}
<1>1. PagesTypes /\ EndsInv
  BY DEF PagesInv
<1>2. /\ e \in 1..ExecCount /\ Pages!Execs = 1..ExecCount
      /\ \A a \in 1..ExecCount : p_exec[a] \in ExecRow /\ p_exec[a].end \in Nat
  BY <1>1, ExecNumbers DEF ExecRow
<1>3. PICK m \in Nat : \A a \in 1..ExecCount : p_exec[a].end <= m
  BY <1>1 DEF EndsInv
<1>4. S \in SUBSET (0..m) /\ p_exec[e].end \in S
  BY <1>2, <1>3
<1>5. \E k \in S : \A j \in S : k >= j
  <2> HIDE DEF S
  <2> QED
    BY <1>4, LargestOf
<1>6. Pages!Max(S) \in S /\ \A j \in S : Pages!Max(S) >= j
  <2> HIDE DEF S
  <2> QED
    BY <1>5 DEF Pages!Max
<1>7. PICK k \in Nat : k = 1 + Pages!Max(S) /\ \A a \in 1..ExecCount : p_exec[a].end < k
  <2>1. \A a \in 1..ExecCount : p_exec[a].end \in S
    BY <1>2
  <2> HIDE DEF S
  <2>2. PICK x \in Nat : x = Pages!Max(S) /\ \A j \in S : x >= j
    <3>1. S \subseteq Nat
      BY <1>4
    <3> QED
      BY <1>6, <3>1, Zenon
  <2>3. \A a \in 1..ExecCount : p_exec[a].end < 1 + x
    BY <1>2, <2>1, <2>2
  <2>4. 1 + x \in Nat /\ 1 + x = 1 + Pages!Max(S)
    BY <2>2
  <2> QED
    BY <2>3, <2>4
<1>8. PICK r : r = [p_exec[e] EXCEPT !.end = k]
  OBVIOUS
<1>9. r \in ExecRow /\ r.end = k /\ r.owner = p_exec[e].owner
  BY <1>2, <1>8 DEF ExecRow
<1>10. p_exec' = [p_exec EXCEPT ![e] = r] /\ Pages!Happens("end")
  BY <1>7, <1>8, Zenon DEF Pages!End
<1> QED
  BY <1>2, <1>7, <1>9, <1>10, RowKeeps

LEMMA DeleteKeeps ==
  ASSUME PagesInv, NEW e \in Pages!Execs, Pages!Delete(e)
  PROVE  PagesInv'
<1>1. PagesTypes
  BY DEF PagesInv
<1>2. PICK r : r = Pages!Gone
  OBVIOUS
<1>21. r \in ExecRow /\ r.end = 0
  BY <1>2 DEF Pages!Gone, Pages!Nobody, ExecRow
<1>3. /\ e \in 1..ExecCount /\ p_exec' = [p_exec EXCEPT ![e] = r] /\ Pages!Happens("delete")
  BY <1>1, <1>2, ExecNumbers DEF Pages!Delete
<1> QED
  BY <1>21, <1>3, RowKeeps

-----------------------------------------------------------------------------
(* The client                                                              *)

(* A step of the client. *)
LEMMA ClientKeeps ==
  ASSUME PagesInv, UNCHANGED p_exec, NEW x \in Walker, p_walk' = x, WalkOn(x)
  PROVE  PagesInv'
<1>1. WalkOn(x)'
  BY DEF WalkOn, Quiet, ToCome, Pages!Offset, Pages!Selected, Pages!Ahead, Pages!Before,
         Pages!Live, Pages!Execs, Pages!Ended
<1>2. PagesTypes' /\ EndsInv'
  BY DEF PagesInv, PagesTypes, EndsInv, ExecCount
<1> QED
  BY <1>1, <1>2, WalkOnNext DEF PagesInv

(* Everything due is selected, and is on the first page or a later one.    *)
LEMMA WalkKeeps ==
  ASSUME PagesInv, NEW u \in Users \cup Admins, NEW own \in BOOLEAN, NEW running \in BOOLEAN,
         NEW sort \in {"default", "newest", "oldest"}, Pages!Walk(u, own, running, sort)
  PROVE  PagesInv'
<1>1. PagesTypes
  BY DEF PagesInv
<1>2. PICK w : w = [op |-> "pages", by |-> u, own |-> own, running |-> running, sort |-> sort,
                    page |-> 1, due |-> {}, since |-> {}]
  OBVIOUS
<1>3. w \in Walker /\ w.page = 1 /\ w.op = "pages" /\ w.since = {} /\ w.by = u /\ (w.own <=> own)
  BY <1>2 DEF Walker
<1>5. PICK D : D = Pages!Due(w)
  OBVIOUS
<1>6. PICK x : x = [w EXCEPT !.due = D]
  OBVIOUS
<1>7. p_walk' = x /\ UNCHANGED p_exec
  BY <1>2, <1>5, <1>6, Zenon DEF Pages!Walk
<1>8. D \subseteq Pages!Selected(w) /\ D \in SUBSET Nat
  <2>1. D \subseteq Pages!Execs /\ Pages!Execs \subseteq Nat
    BY <1>1, <1>5, ExecNumbers DEF Pages!Due
  <2>2. \A e \in D : e \in Pages!Selected(w)
    BY <1>5 DEF Pages!Due, Pages!GetExecution, Pages!Selected
  <2> QED
    BY <2>1, <2>2
<1>9. /\ x \in Walker /\ x.op = "pages" /\ x.page = 1 /\ x.due = D /\ x.by = w.by
      /\ (x.own <=> w.own) /\ (x.running <=> w.running) /\ x.sort = w.sort
  BY <1>3, <1>6, <1>8 DEF Walker
<1>10. Pages!Selected(x) = Pages!Selected(w)
  BY <1>9 DEF Pages!Selected
<1>11. ToCome(x)
  <2> SUFFICES ASSUME NEW e \in x.due
               PROVE  /\ e \in Pages!Selected(x)
                      /\ Pages!Offset(x.page) <= Cardinality(Pages!Ahead(x, e))
    BY DEF ToCome
  <2>1. Pages!Offset(x.page) = 0
    BY <1>9, PageNumbers DEF Pages!Offset
  <2>2. Cardinality(Pages!Ahead(x, e)) \in Nat
    BY <1>1, SelectedFinite
  <2>3. Pages!Offset(x.page) <= Cardinality(Pages!Ahead(x, e))
    BY <2>1, <2>2
  <2>4. e \in Pages!Selected(x)
    BY <1>8, <1>9, <1>10
  <2> QED
    BY <2>3, <2>4
<1>12. WalkOn(x)
  BY <1>9, <1>11 DEF WalkOn
<1> QED
  BY <1>7, <1>9, <1>12, ClientKeeps

(* The order of every list is strict and total. *)
Order(w) ==
  {p \in Pages!Selected(w) \X Pages!Selected(w) : Pages!Before(w.sort, p[1], p[2])}

LEMMA OrderIs ==
  ASSUME PagesTypes, EndsInv, NEW w \in Walker
  PROVE  LET S == Pages!Selected(w)
             R == Order(w)
         IN  /\ \A x \in S : <<x, x>> \notin R
             /\ \A x, y, z \in S : <<x, y>> \in R /\ <<y, z>> \in R => <<x, z>> \in R
             /\ \A x, y \in S : x # y => <<x, y>> \in R \/ <<y, x>> \in R
             /\ \A e \in S : Pages!Ahead(w, e) = Smaller(S, R, e)
<1> DEFINE S == Pages!Selected(w)
           R == Order(w)
<1>1. \A x, y \in S : <<x, y>> \in R <=> Pages!Before(w.sort, x, y)
  BY DEF Order
<1>2. \A x \in S : /\ x \in 1..ExecCount /\ x \in Nat /\ p_exec[x].end \in Nat
  BY SelectedFinite, ExecNumbers DEF ExecRow
<1>3. \A x, y \in S : x # y /\ p_exec[x].end # 0 => p_exec[x].end # p_exec[y].end
  BY <1>2 DEF EndsInv
<1>4. w.sort \in {"default", "newest", "oldest"}
  BY DEF Walker
<1>5. \A x, y \in S :
        Pages!Before(w.sort, x, y) <=>
          \/ w.sort = "newest" /\ x > y
          \/ w.sort = "oldest" /\ x < y
          \/ /\ w.sort = "default"
             /\ \/ p_exec[x].end = 0 /\ p_exec[y].end # 0
                \/ p_exec[x].end = 0 /\ p_exec[y].end = 0 /\ x > y
                \/ p_exec[x].end # 0 /\ p_exec[y].end # 0 /\ p_exec[x].end > p_exec[y].end
  <2>1. CASE w.sort = "newest"
    BY <2>1 DEF Pages!Before
  <2>2. CASE w.sort = "oldest"
    BY <2>2 DEF Pages!Before
  <2>3. CASE w.sort = "default"
    BY <2>3 DEF Pages!Before, Pages!Ended
  <2> QED
    BY <1>4, <2>1, <2>2, <2>3
<1> HIDE DEF S, R
<1>6. \A x \in S : <<x, x>> \notin R
  BY <1>1, <1>2, <1>5
<1>7. \A x, y, z \in S : <<x, y>> \in R /\ <<y, z>> \in R => <<x, z>> \in R
  <2> SUFFICES ASSUME NEW x \in S, NEW y \in S, NEW z \in S, <<x, y>> \in R, <<y, z>> \in R
               PROVE  <<x, z>> \in R
    OBVIOUS
  <2>1. Pages!Before(w.sort, x, y) /\ Pages!Before(w.sort, y, z)
    BY <1>1
  <2>2. Pages!Before(w.sort, x, z)
    <3>1. /\ x \in Nat /\ y \in Nat /\ z \in Nat
          /\ p_exec[x].end \in Nat /\ p_exec[y].end \in Nat /\ p_exec[z].end \in Nat
      BY <1>2
    <3> QED
      BY <1>5, <2>1, <3>1
  <2> QED
    BY <1>1, <2>2
<1>8. \A x, y \in S : x # y => <<x, y>> \in R \/ <<y, x>> \in R
  <2> SUFFICES ASSUME NEW x \in S, NEW y \in S, x # y
               PROVE  Pages!Before(w.sort, x, y) \/ Pages!Before(w.sort, y, x)
    BY <1>1
  <2>1. /\ x \in Nat /\ y \in Nat /\ p_exec[x].end \in Nat /\ p_exec[y].end \in Nat
        /\ p_exec[x].end # 0 => p_exec[x].end # p_exec[y].end
    BY <1>2, <1>3
  <2> QED
    BY <1>4, <1>5, <2>1
<1>9. \A e \in S : Pages!Ahead(w, e) = Smaller(S, R, e)
  BY <1>1 DEF Pages!Ahead, Smaller, S
<1> QED
  BY <1>6, <1>7, <1>8, <1>9 DEF S, R

LEMMA PageKeeps ==
  ASSUME PagesInv, Pages!GetPage
  PROVE  PagesInv'
<1>1. PICK w \in Walker : w = p_walk /\ WalkOn(w) /\ w.op = "pages"
  BY DEF PagesInv, PagesTypes, Pages!GetPage
<1>2. PagesTypes /\ EndsInv /\ UNCHANGED p_exec
  BY DEF PagesInv, Pages!GetPage
<1>3. PICK D, o : /\ D = w.due \ Pages!Rows(w)
                  /\ o = IF Pages!Cardinality(Pages!Rows(w)) < PageSize THEN "done" ELSE w.op
  OBVIOUS
<1>4. w.page + 1 \in Nat /\ D \in SUBSET Nat /\ o \in {"pages", "done"}
  BY <1>1, <1>3 DEF Walker
<1>5. PICK a : a = [w EXCEPT !.due = D]
  OBVIOUS
<1>51. PICK b : b = [a EXCEPT !.page = w.page + 1]
  OBVIOUS
<1>52. PICK x : x = [b EXCEPT !.op = o]
  OBVIOUS
<1>6. p_walk' = x
  BY <1>1, <1>3, <1>5, <1>51, <1>52, Zenon DEF Pages!GetPage
<1>7. /\ a \in Walker /\ a.due = D /\ a.by = w.by /\ (a.own <=> w.own)
      /\ (a.running <=> w.running) /\ a.sort = w.sort /\ a.since = w.since
  BY <1>4, <1>5 DEF Walker
<1>8. /\ b \in Walker /\ b.due = D /\ b.by = w.by /\ (b.own <=> w.own) /\ b.page = w.page + 1
      /\ (b.running <=> w.running) /\ b.sort = w.sort /\ b.since = w.since
  BY <1>4, <1>51, <1>7 DEF Walker
<1>9. /\ x \in Walker /\ x.due = D /\ x.by = w.by /\ (x.own <=> w.own) /\ x.page = w.page + 1
      /\ (x.running <=> w.running) /\ x.sort = w.sort /\ x.since = w.since /\ x.op = o
  BY <1>4, <1>52, <1>8 DEF Walker
<1>10. Pages!Selected(x) = Pages!Selected(w) /\ \A e : Pages!Ahead(x, e) = Pages!Ahead(w, e)
  BY <1>9 DEF Pages!Selected, Pages!Ahead
<1>11. ASSUME Quiet(x)
       PROVE  x.page >= 1 /\ ToCome(x) /\ (x.op = "done" => x.due = {})
  <2>1. Quiet(w)
    BY <1>9, <1>11 DEF Quiet
  <2>2. w.page \in Nat /\ w.page >= 1 /\ ToCome(w)
    BY <1>1, <2>1 DEF WalkOn, Walker
  <2>3. PICK f \in Nat : /\ f = Pages!Offset(w.page) /\ f + PageSize = Pages!Offset(w.page + 1)
    <3>1. (w.page - 1) * PageSize \in Nat
      BY <2>2, PageNumbers
    <3>2. (w.page - 1) * PageSize + PageSize = ((w.page + 1) - 1) * PageSize
      BY <2>2, PageNumbers
    <3> QED
      BY <3>1, <3>2 DEF Pages!Offset
  <2>4. ASSUME NEW e \in D
        PROVE  /\ e \in Pages!Selected(w)
               /\ f + PageSize <= Cardinality(Pages!Ahead(w, e))
    <3>1. e \in Pages!Selected(w) /\ f <= Cardinality(Pages!Ahead(w, e))
      BY <1>3, <2>2, <2>3, <2>4 DEF ToCome
    <3>2. e \notin Pages!Rows(w)
      BY <1>3, <2>4
    <3>3. ~(Cardinality(Pages!Ahead(w, e)) < f + PageSize)
      BY <2>3, <3>1, <3>2, SamePageSizes DEF Pages!Rows, Pages!Rank
    <3>4. Cardinality(Pages!Ahead(w, e)) \in Nat
      BY <1>2, SelectedFinite
    <3> QED
      BY <3>1, <3>3, <3>4, PageNumbers
  <2>5. ToCome(x)
    BY <1>9, <1>10, <2>3, <2>4 DEF ToCome
  <2>6. ASSUME x.op = "done" PROVE x.due = {}
    <3> SUFFICES ASSUME NEW e \in D PROVE FALSE
      BY <1>9
    <3> DEFINE S == Pages!Selected(w)
               R == Order(w)
               T == Pages!Rows(w)
    <3>1. e \in S /\ f + PageSize <= Cardinality(Smaller(S, R, e))
      BY <1>2, <2>4, OrderIs
    <3>2. T = {y \in S : /\ f <= Cardinality(Smaller(S, R, y))
                         /\ Cardinality(Smaller(S, R, y)) < f + PageSize}
      <4>1. \A y \in S : Pages!Rank(w, y) = Cardinality(Smaller(S, R, y))
        BY <1>2, OrderIs, SamePageSizes DEF Pages!Rank
      <4>2. T = {y \in S : f <= Pages!Rank(w, y) /\ Pages!Rank(w, y) < f + PageSize}
        BY <2>3 DEF Pages!Rows
      <4> HIDE DEF S, R, T
      <4> QED
        BY <4>1, <4>2
    <3>3. /\ IsFiniteSet(S)
          /\ \A y \in S : <<y, y>> \notin R
          /\ \A y, z, t \in S : <<y, z>> \in R /\ <<z, t>> \in R => <<y, t>> \in R
          /\ \A y, z \in S : y # z => <<y, z>> \in R \/ <<z, y>> \in R
      BY <1>2, OrderIs, SelectedFinite
    <3>4. Cardinality(T) < PageSize
      BY <1>3, <1>9, <2>6, <1>1, SamePageSizes
    <3> HIDE DEF S, R, T
    <3>5. Cardinality(T) \in Nat /\ PageSize <= Cardinality(T)
      BY <3>1, <3>2, <3>3, PageNumbers, FullPage
    <3> QED
      BY <3>4, <3>5, PageNumbers
  <2> QED
    BY <1>9, <2>2, <2>5, <2>6
<1>12. WalkOn(x)
  BY <1>4, <1>9, <1>11 DEF WalkOn
<1> QED
  BY <1>2, <1>6, <1>9, <1>12, ClientKeeps

LEMMA ExportCountKeeps ==
  ASSUME PagesInv, NEW u \in Users \cup Admins, Pages!ExportCount(u)
  PROVE  PagesInv'
<1>1. PagesTypes
  BY DEF PagesInv
<1>2. PICK D : D = {e \in Pages!Execs : Pages!GetExecution(u, e)}
  OBVIOUS
<1>3. D \in SUBSET Nat /\ D \subseteq Pages!Live
  BY <1>1, <1>2, ExecNumbers DEF Pages!GetExecution
<1>4. PICK a : a = [Pages!NoWalk EXCEPT !.op = "export"]
  OBVIOUS
<1>41. PICK b : b = [a EXCEPT !.by = u]
  OBVIOUS
<1>42. PICK x : x = [b EXCEPT !.due = D]
  OBVIOUS
<1>5. p_walk' = x /\ UNCHANGED p_exec
  BY <1>2, <1>4, <1>41, <1>42, Zenon DEF Pages!ExportCount
<1>6. a \in Walker /\ a.op = "export"
  BY <1>4, NoWalkRecord DEF Walker
<1>7. b \in Walker /\ b.op = "export"
  BY <1>41, <1>6 DEF Walker
<1>8. x \in Walker /\ x.op = "export" /\ x.due = D
  BY <1>3, <1>42, <1>7 DEF Walker
<1>9. WalkOn(x)
  BY <1>3, <1>8 DEF WalkOn
<1> QED
  BY <1>5, <1>8, <1>9, ClientKeeps

LEMMA ExportRowsKeeps ==
  ASSUME PagesInv, Pages!ExportRows
  PROVE  PagesInv'
<1>1. PICK w \in Walker : w = p_walk /\ WalkOn(w) /\ w.op = "export"
  BY DEF PagesInv, PagesTypes, Pages!ExportRows
<1>2. PICK D : D = w.due \ Pages!Live
  OBVIOUS
<1>3. D \in SUBSET Nat
  BY <1>1, <1>2 DEF Walker
<1>4. PICK a, x : a = [w EXCEPT !.due = D] /\ x = [a EXCEPT !.op = "done"]
  OBVIOUS
<1>5. p_walk' = x /\ UNCHANGED p_exec
  BY <1>1, <1>2, <1>4, Zenon DEF Pages!ExportRows
<1>6. /\ a \in Walker /\ a.due = D /\ a.since = w.since /\ a.sort = w.sort
      /\ (a.running <=> w.running)
  BY <1>3, <1>4 DEF Walker
<1>7. /\ x \in Walker /\ x.op = "done" /\ x.due = D /\ x.since = w.since /\ x.sort = w.sort
      /\ (x.running <=> w.running)
  BY <1>4, <1>6 DEF Walker
<1>8. Quiet(x) => D = {}
  BY <1>1, <1>2, <1>7 DEF WalkOn, Quiet
<1>9. WalkOn(x)
  BY <1>7, <1>8 DEF WalkOn
<1> QED
  BY <1>5, <1>7, <1>9, ClientKeeps

LEMMA CloseKeeps ==
  ASSUME PagesInv, Pages!Close
  PROVE  PagesInv'
<1>1. PICK x : x = Pages!NoWalk
  OBVIOUS
<1>2. x \in Walker /\ x.op = "idle"
  BY <1>1, NoWalkRecord
<1>3. WalkOn(x)
  BY <1>2 DEF WalkOn
<1>4. UNCHANGED p_exec /\ p_walk' = x
  BY <1>1 DEF Pages!Close
<1> QED
  BY <1>2, <1>3, <1>4, ClientKeeps

LEMMA PagesStay ==
  ASSUME PagesInv, UNCHANGED pagesVars
  PROVE  PagesInv'
<1>1. PICK x \in Walker : x = p_walk /\ WalkOn(x)
  BY DEF PagesInv, PagesTypes
<1>2. UNCHANGED p_exec /\ p_walk' = x
  BY <1>1 DEF pagesVars
<1> QED
  BY <1>1, <1>2, ClientKeeps

LEMMA PagesStep == PagesInv /\ [Pages!Next]_pagesVars => PagesInv'
<1> SUFFICES ASSUME PagesInv, [Pages!Next]_pagesVars PROVE PagesInv'
  OBVIOUS
<1>1. CASE UNCHANGED pagesVars
  BY <1>1, PagesStay
<1>2. ASSUME NEW u \in Users, Pages!RunScript(u) PROVE PagesInv'
  BY <1>2, RunScriptKeeps
<1>3. ASSUME NEW e \in Pages!Execs, Pages!End(e) \/ Pages!Delete(e) PROVE PagesInv'
  BY <1>3, EndKeeps, DeleteKeeps
<1>4. ASSUME NEW u \in Users \cup Admins, Pages!GetExecutions(u) \/ Pages!GetUserExecutions(u)
      PROVE  PagesInv'
  <2>1. PICK own \in BOOLEAN, running \in BOOLEAN, sort \in {"default", "newest", "oldest"} :
          Pages!Walk(u, own, running, sort)
    BY <1>4 DEF Pages!GetExecutions, Pages!GetUserExecutions, Pages!Sorts
  <2> QED
    BY <2>1, WalkKeeps
<1>5. ASSUME NEW u \in Users \cup Admins, Pages!ExportCount(u) PROVE PagesInv'
  BY <1>5, ExportCountKeeps
<1>6. CASE Pages!GetPage
  BY <1>6, PageKeeps
<1>7. CASE Pages!ExportRows
  BY <1>7, ExportRowsKeeps
<1>8. CASE Pages!Close
  BY <1>8, CloseKeeps
<1> QED
  BY <1>1, <1>2, <1>3, <1>4, <1>5, <1>6, <1>7, <1>8 DEF Pages!Next

(* A client that came to the last page has seen every execution that was   *)
(* there when it began and that it may open, however many others started   *)
(* meanwhile and whatever the size of a page: unless one was deleted, or   *)
(* ended while the order or the filter depends on it                       *)
(* (execution_service.py:679-689).                                         *)
THEOREM PagesMissNothing == AllSpec => []PagesComplete
<1>1. AllInit => PagesInv
  BY PagesStart
<1>2. PagesInv /\ [AllNext]_allVars => PagesInv'
  BY PagesMove, PagesStep
<1>3. PagesInv => PagesComplete
  BY DEF PagesInv, WalkOn, Quiet, PagesComplete, Pages!PagesComplete
<1> QED
  BY <1>1, <1>2, <1>3, PTL DEF AllSpec

-----------------------------------------------------------------------------
(* The bounds of the list and of a walk over its pages                     *)

(* Executions that ended or are gone. *)
Over == {e \in 1..ExecCount : p_exec[e].owner = "nobody" \/ p_exec[e].end # 0}

(* Every end is counted. *)
ListBounds ==
  /\ ExecCount <= MaxExecs
  /\ \A e \in 1..ExecCount : p_exec[e].end <= Cardinality(Over)

(* A walk comes to its last page: each page but that one has a row that    *)
(* no earlier page has.                                                    *)
WalkBounds(w, n) ==
  /\ w.page <= MaxExecs + 2 /\ w.due \subseteq 1..n
  /\ w.op = "pages" => w.page >= 1 /\ w.page <= MaxExecs + 1

PageBounds == ListBounds /\ WalkBounds(p_walk, ExecCount)

LEMMA MaxExecsIs == MaxExecs \in Nat
BY LifecyclesAssumption

LEMMA OverCount ==
  ASSUME PagesTypes
  PROVE  IsFiniteSet(Over) /\ Cardinality(Over) \in Nat /\ Cardinality(Over) <= ExecCount
<1>1. ExecCount \in Nat /\ IsFiniteSet(1..ExecCount) /\ Cardinality(1..ExecCount) = ExecCount
  BY ExecNumbers, FS_Interval
<1>2. Over \in SUBSET (1..ExecCount)
  BY DEF Over
<1> QED
  BY <1>1, <1>2, FS_Subset, FS_CardinalityType

LEMMA OverCountNext ==
  PagesTypes' => IsFiniteSet(Over') /\ Cardinality(Over') \in Nat /\ Cardinality(Over') <= ExecCount'
<1>1. (PagesTypes => IsFiniteSet(Over) /\ Cardinality(Over) \in Nat /\ Cardinality(Over) <= ExecCount)'
  BY OverCount, PTL
<1> QED
  BY <1>1

LEMMA OverGrows ==
  ASSUME PagesTypes, PagesTypes', Over \subseteq Over'
  PROVE  Cardinality(Over) <= Cardinality(Over')
<1>1. IsFiniteSet(Over') /\ Over \in SUBSET Over'
  BY OverCountNext
<1> QED
  BY <1>1, FS_Subset

LEMMA PageBoundsStart == AllInit => PageBounds
<1> SUFFICES ASSUME AllInit PROVE PageBounds
  OBVIOUS
<1>1. p_exec = <<>> /\ p_walk = Pages!NoWalk
  BY DEF AllInit, Pages!Init
<1>2. ExecCount = 0
  BY <1>1 DEF ExecCount
<1>3. WalkBounds(Pages!NoWalk, 0)
  BY NoWalkRecord, MaxExecsIs DEF WalkBounds
<1> QED
  BY <1>1, <1>2, <1>3, MaxExecsIs DEF PageBounds, ListBounds

(* What happens to the table leaves a walk where it is.                    *)
LEMMA HappensBounds ==
  ASSUME PagesTypes, PagesTypes', WalkBounds(p_walk, ExecCount), ExecCount <= ExecCount',
         NEW what \in {"start", "end", "delete"}, Pages!Happens(what)
  PROVE  WalkBounds(p_walk, ExecCount)'
<1>1. PICK w \in Walker : w = p_walk
  BY DEF PagesTypes
<1>2. PICK x : x = [w EXCEPT !.since = IF w.op \in {"idle", "done"} THEN @ ELSE @ \cup {what}]
  OBVIOUS
<1>3. x.op = w.op /\ x.page = w.page /\ x.due = w.due
  BY <1>2, Noted
<1>4. p_walk' = x
  BY <1>1, <1>2, HappensNoted, Zenon
<1>5. ExecCount \in Nat /\ ExecCount' \in Nat
  BY ExecNumbers, NumbersNext
<1>6. w.due \subseteq 1..ExecCount'
  BY <1>1, <1>5 DEF WalkBounds
<1>7. WalkBounds(x, ExecCount')
  BY <1>1, <1>3, <1>6 DEF WalkBounds
<1> QED
  BY <1>4, <1>7 DEF WalkBounds

LEMMA RunScriptBounded ==
  ASSUME PagesTypes, PagesTypes', PageBounds, NEW u \in Users, Pages!RunScript(u)
  PROVE  PageBounds'
<1>1. /\ Pages!Happens("start") /\ ExecCount < MaxExecs
      /\ p_exec' = Append(p_exec, [owner |-> u, end |-> 0])
  BY DEF Pages!RunScript, ExecCount
<1>2. PICK n \in Nat : n = ExecCount
  BY ExecNumbers
<1>3. PICK r : r = [owner |-> u, end |-> 0]
  OBVIOUS
<1>4. r \in ExecRow /\ r.end = 0
  BY <1>3 DEF ExecRow
<1>5. ExecCount' = n + 1 /\ p_exec'[n + 1] = r /\ \A e \in 1..n : p_exec'[e] = p_exec[e]
  <2>1. p_exec \in Seq(ExecRow) /\ p_exec' = Append(p_exec, r)
    BY <1>1, <1>3 DEF PagesTypes
  <2> QED
    BY <1>2, <1>4, <2>1, AppendProperties DEF ExecCount
<1>6. Over \subseteq Over'
  BY <1>2, <1>5 DEF Over
<1>7. PICK c \in Nat, d \in Nat : c = Cardinality(Over) /\ d = Cardinality(Over') /\ c <= d
  BY <1>6, OverCount, OverCountNext, OverGrows
<1>8. ListBounds'
  <2>1. n + 1 <= MaxExecs
    BY <1>1, <1>2, MaxExecsIs
  <2>2. \A e \in 1..n : p_exec[e].end \in Nat /\ p_exec[e].end <= c
    BY <1>2, <1>7, ExecNumbers DEF PageBounds, ListBounds, ExecRow
  <2>3. \A e \in 1..(n + 1) : p_exec'[e].end <= d
    <3> SUFFICES ASSUME NEW e \in 1..(n + 1) PROVE p_exec'[e].end <= d
      OBVIOUS
    <3>1. CASE e \in 1..n
      <4>1. p_exec'[e].end = p_exec[e].end
        BY <1>5, <3>1
      <4> QED
        BY <1>7, <2>2, <3>1, <4>1
    <3>2. CASE e = n + 1
      BY <1>4, <1>5, <3>2
    <3> QED
      BY <3>1, <3>2
  <2> QED
    BY <1>5, <1>7, <2>1, <2>3 DEF ListBounds
<1>9. WalkBounds(p_walk, ExecCount)'
  BY <1>1, <1>2, <1>5, HappensBounds DEF PageBounds
<1> QED
  BY <1>8, <1>9 DEF PageBounds

(* One row ends or goes away. *)
LEMMA RowBounded ==
  ASSUME PagesTypes, PagesTypes', PageBounds, NEW e \in 1..ExecCount, NEW r \in ExecRow,
         p_exec' = [p_exec EXCEPT ![e] = r], r.owner = "nobody" \/ r.end # 0,
         r.end # 0 => e \notin Over /\ r.end <= Cardinality(Over) + 1,
         NEW what \in {"end", "delete"}, Pages!Happens(what)
  PROVE  PageBounds'
<1>1. PICK n \in Nat : n = ExecCount /\ DOMAIN p_exec = 1..n
  BY ExecNumbers
<1>2. ExecCount' = n
  BY <1>1, ExceptSeq DEF PagesTypes, ExecCount
<1>3. p_exec'[e] = r /\ \A a \in 1..n : a # e => p_exec'[a] = p_exec[a]
  BY <1>1 DEF PagesTypes
<1>4. Over' = Over \cup {e}
  BY <1>1, <1>2, <1>3 DEF Over
<1>5. PICK c \in Nat, d \in Nat : /\ c = Cardinality(Over) /\ d = Cardinality(Over') /\ c <= d
                                  /\ e \notin Over => d = c + 1
  <2>1. IsFiniteSet(Over)
    BY OverCount
  <2>2. e \notin Over => Cardinality(Over') = Cardinality(Over) + 1
    BY <1>4, <2>1, FS_AddElement
  <2> QED
    BY <1>4, <2>2, OverCount, OverCountNext, OverGrows
<1>6. ListBounds'
  <2>1. \A a \in 1..n : p_exec[a].end \in Nat /\ p_exec[a].end <= c
    BY <1>1, <1>5, ExecNumbers DEF PageBounds, ListBounds, ExecRow
  <2>2. r.end \in Nat /\ r.end <= d
    BY <1>5 DEF ExecRow
  <2>3. ASSUME NEW a \in 1..n PROVE p_exec'[a].end <= d
    <3>1. CASE a = e
      BY <1>3, <2>2, <3>1
    <3>2. CASE a # e
      <4>1. p_exec'[a].end = p_exec[a].end
        BY <1>3, <3>2
      <4> QED
        BY <1>5, <2>1, <4>1
    <3> QED
      BY <3>1, <3>2
  <2> QED
    BY <1>1, <1>2, <1>5, <2>3 DEF PageBounds, ListBounds
<1>7. WalkBounds(p_walk, ExecCount)'
  <2>1. ExecCount <= ExecCount'
    BY <1>1, <1>2
  <2> QED
    BY <2>1, HappensBounds DEF PageBounds
<1> QED
  BY <1>6, <1>7 DEF PageBounds

LEMMA EndBounded ==
  ASSUME PagesTypes, PagesTypes', PageBounds, NEW e \in Pages!Execs, Pages!End(e)
  PROVE  PageBounds'
<1> DEFINE S == {p_exec[x].end : x \in Pages!Execs}
<1>1. /\ e \in 1..ExecCount /\ Pages!Execs = 1..ExecCount
      /\ \A a \in 1..ExecCount : p_exec[a] \in ExecRow /\ p_exec[a].end \in Nat
  BY ExecNumbers DEF ExecRow
<1>2. PICK c \in Nat : c = Cardinality(Over) /\ \A a \in 1..ExecCount : p_exec[a].end <= c
  BY OverCount DEF PageBounds, ListBounds
<1>3. S \in SUBSET (0..c) /\ p_exec[e].end \in S
  BY <1>1, <1>2
<1>4. \E k \in S : \A j \in S : k >= j
  <2> HIDE DEF S
  <2> QED
    BY <1>3, LargestOf
<1>5. Pages!Max(S) \in S
  <2> HIDE DEF S
  <2> QED
    BY <1>4 DEF Pages!Max
<1>6. PICK k \in Nat : k = 1 + Pages!Max(S) /\ k <= c + 1 /\ k # 0
  <2> HIDE DEF S
  <2>1. Pages!Max(S) \in 0..c
    BY <1>3, <1>5, Zenon
  <2>2. PICK x \in 0..c : x = Pages!Max(S)
    BY <2>1, Zenon
  <2>3. 1 + x \in Nat /\ 1 + x <= c + 1 /\ 1 + x # 0
    OBVIOUS
  <2> QED
    BY <2>2, <2>3
<1>7. PICK r : r = [p_exec[e] EXCEPT !.end = k]
  OBVIOUS
<1>8. r \in ExecRow /\ r.end = k
  BY <1>1, <1>7 DEF ExecRow
<1>9. p_exec' = [p_exec EXCEPT ![e] = r] /\ Pages!Happens("end")
  BY <1>6, <1>7, Zenon DEF Pages!End
<1>10. e \notin Over
  BY DEF Pages!End, Pages!Live, Pages!Ended, Pages!Nobody, Over
<1> QED
  BY <1>1, <1>2, <1>6, <1>8, <1>9, <1>10, RowBounded

LEMMA DeleteBounded ==
  ASSUME PagesTypes, PagesTypes', PageBounds, NEW e \in Pages!Execs, Pages!Delete(e)
  PROVE  PageBounds'
<1>1. PICK r : r = Pages!Gone
  OBVIOUS
<1>2. r \in ExecRow /\ r.end = 0 /\ r.owner = "nobody"
  BY <1>1 DEF Pages!Gone, Pages!Nobody, ExecRow
<1>3. /\ e \in 1..ExecCount /\ p_exec' = [p_exec EXCEPT ![e] = r] /\ Pages!Happens("delete")
  BY <1>1, ExecNumbers DEF Pages!Delete
<1> QED
  BY <1>2, <1>3, RowBounded

-----------------------------------------------------------------------------
(* Bounds: the client                                                      *)

(* A step of the client. *)
LEMMA ClientBounded ==
  ASSUME PagesTypes, PageBounds, UNCHANGED p_exec, NEW x \in Walker, p_walk' = x,
         WalkBounds(x, ExecCount)
  PROVE  PageBounds'
<1>1. ExecCount' = ExecCount /\ Over' = Over
  BY DEF ExecCount, Over
<1>2. ListBounds'
  BY <1>1 DEF PageBounds, ListBounds
<1>3. WalkBounds(p_walk, ExecCount)'
  BY <1>1 DEF WalkBounds
<1> QED
  BY <1>2, <1>3 DEF PageBounds

LEMMA WalkBounded ==
  ASSUME PagesTypes, PageBounds, NEW u \in Users \cup Admins, NEW own \in BOOLEAN,
         NEW running \in BOOLEAN, NEW sort \in {"default", "newest", "oldest"},
         Pages!Walk(u, own, running, sort)
  PROVE  PageBounds'
<1>1. PICK w : w = [op |-> "pages", by |-> u, own |-> own, running |-> running, sort |-> sort,
                    page |-> 1, due |-> {}, since |-> {}]
  OBVIOUS
<1>2. w \in Walker /\ w.page = 1 /\ w.op = "pages"
  BY <1>1 DEF Walker
<1>3. PICK D : D = Pages!Due(w)
  OBVIOUS
<1>4. PICK x : x = [w EXCEPT !.due = D]
  OBVIOUS
<1>5. p_walk' = x /\ UNCHANGED p_exec
  BY <1>1, <1>3, <1>4, Zenon DEF Pages!Walk
<1>6. D \subseteq 1..ExecCount /\ D \in SUBSET Nat
  BY <1>3, ExecNumbers DEF Pages!Due
<1>7. x \in Walker /\ x.op = "pages" /\ x.page = 1 /\ x.due = D
  BY <1>2, <1>4, <1>6 DEF Walker
<1>8. WalkBounds(x, ExecCount)
  BY <1>6, <1>7, MaxExecsIs DEF WalkBounds
<1> QED
  BY <1>5, <1>7, <1>8, ClientBounded

(* A full page has a row, and fewer rows come before it than there are.    *)
LEMMA FullPageFits ==
  ASSUME PagesTypes, EndsInv, PageBounds, NEW w \in Walker, w.page >= 1,
         ~(Pages!Cardinality(Pages!Rows(w)) < PageSize)
  PROVE  w.page <= MaxExecs
<1> DEFINE S == Pages!Selected(w)
           R == Order(w)
<1>1. IsFiniteSet(S) /\ S \in SUBSET (1..ExecCount)
  BY SelectedFinite
<1>2. Pages!Rows(w) # {}
  <2> SUFFICES ASSUME Pages!Rows(w) = {} PROVE FALSE
    OBVIOUS
  <2>1. Cardinality(Pages!Rows(w)) = 0
    BY FS_EmptySet
  <2> QED
    BY <2>1, SamePageSizes, PageNumbers
<1>3. PICK e : e \in S /\ Pages!Offset(w.page) <= Pages!Rank(w, e)
  BY <1>2 DEF Pages!Rows
<1>4. PICK k \in Nat : k = Pages!Rank(w, e) /\ k < Cardinality(S)
  <2>1. Pages!Rank(w, e) = Cardinality(Smaller(S, R, e))
    BY <1>3, OrderIs, SamePageSizes DEF Pages!Rank
  <2>2. /\ \A y \in S : <<y, y>> \notin R
        /\ \A y, z, t \in S : <<y, z>> \in R /\ <<z, t>> \in R => <<y, t>> \in R
        /\ \A y, z \in S : y # z => <<y, z>> \in R \/ <<z, y>> \in R
    BY OrderIs
  <2> HIDE DEF S, R
  <2>3. \A x \in S : /\ Cardinality(Smaller(S, R, x)) \in Nat
                     /\ Cardinality(Smaller(S, R, x)) < Cardinality(S)
    BY <1>1, <2>2, Places
  <2> QED
    BY <1>3, <2>1, <2>3
<1>5. Cardinality(S) \in Nat /\ Cardinality(S) <= ExecCount /\ ExecCount \in Nat
  <2>1. ExecCount \in Nat /\ IsFiniteSet(1..ExecCount) /\ Cardinality(1..ExecCount) = ExecCount
    BY ExecNumbers, FS_Interval
  <2> HIDE DEF S
  <2> QED
    BY <1>1, <2>1, FS_Subset, FS_CardinalityType
<1>6. PICK p \in Nat : w.page = p + 1
  <2>1. w.page \in Nat /\ w.page - 1 \in Nat /\ w.page = (w.page - 1) + 1
    BY DEF Walker
  <2> QED
    BY <2>1
<1>7. p <= p * PageSize
  <2>1. PICK q \in Nat : PageSize = q + 1
    <3>1. PageSize - 1 \in Nat /\ PageSize = (PageSize - 1) + 1
      BY PageNumbers
    <3> QED
      BY <3>1
  <2>2. p * (q + 1) = p * q + p /\ p * q \in Nat
    OBVIOUS
  <2> QED
    BY <2>1, <2>2
<1>8. p * PageSize <= k
  <2>1. w.page - 1 = p
    BY <1>6
  <2> QED
    BY <1>3, <1>4, <2>1 DEF Pages!Offset
<1>9. p + 1 <= MaxExecs
  <2>1. p * PageSize \in Nat /\ ExecCount <= MaxExecs
    BY PageNumbers DEF PageBounds, ListBounds
  <2> HIDE DEF S
  <2>2. p < Cardinality(S)
    BY <1>4, <1>5, <1>7, <1>8, <2>1
  <2> QED
    BY <1>5, <2>1, <2>2, MaxExecsIs
<1> QED
  BY <1>6, <1>9

LEMMA GetPageBounded ==
  ASSUME PagesTypes, EndsInv, PageBounds, Pages!GetPage
  PROVE  PageBounds'
<1>1. PICK w \in Walker : w = p_walk /\ w.op = "pages" /\ WalkBounds(w, ExecCount)
  BY DEF PagesTypes, PageBounds, Pages!GetPage
<1>2. w.page \in Nat /\ w.page >= 1 /\ w.page <= MaxExecs + 1 /\ w.due \subseteq 1..ExecCount
  BY <1>1 DEF WalkBounds, Walker
<1>3. PICK D, o : /\ D = w.due \ Pages!Rows(w)
                  /\ o = IF Pages!Cardinality(Pages!Rows(w)) < PageSize THEN "done" ELSE w.op
  OBVIOUS
<1>4. /\ w.page + 1 \in Nat /\ D \in SUBSET Nat /\ D \subseteq 1..ExecCount
      /\ o \in {"pages", "done"}
  BY <1>1, <1>2, <1>3 DEF Walker
<1>5. PICK a : a = [w EXCEPT !.due = D]
  OBVIOUS
<1>6. PICK b : b = [a EXCEPT !.page = w.page + 1]
  OBVIOUS
<1>7. PICK x : x = [b EXCEPT !.op = o]
  OBVIOUS
<1>8. p_walk' = x /\ UNCHANGED p_exec
  BY <1>1, <1>3, <1>5, <1>6, <1>7, Zenon DEF Pages!GetPage
<1>9. a \in Walker /\ a.due = D
  BY <1>4, <1>5 DEF Walker
<1>10. b \in Walker /\ b.due = D /\ b.page = w.page + 1
  BY <1>4, <1>6, <1>9 DEF Walker
<1>11. x \in Walker /\ x.due = D /\ x.page = w.page + 1 /\ x.op = o
  BY <1>4, <1>7, <1>10 DEF Walker
<1>12. o = "pages" => w.page <= MaxExecs
  BY <1>2, <1>3, FullPageFits
<1>13. WalkBounds(x, ExecCount)
  <2>1. x.page <= MaxExecs + 2 /\ x.page >= 1 /\ (o = "pages" => x.page <= MaxExecs + 1)
    BY <1>2, <1>11, <1>12, MaxExecsIs
  <2> QED
    BY <1>4, <1>11, <2>1 DEF WalkBounds
<1> QED
  BY <1>8, <1>11, <1>13, ClientBounded

LEMMA ExportCountBounded ==
  ASSUME PagesTypes, PageBounds, NEW u \in Users \cup Admins, Pages!ExportCount(u)
  PROVE  PageBounds'
<1>1. PICK D : D = {e \in Pages!Execs : Pages!GetExecution(u, e)}
  OBVIOUS
<1>2. D \in SUBSET Nat /\ D \subseteq 1..ExecCount
  BY <1>1, ExecNumbers
<1>3. PICK a : a = [Pages!NoWalk EXCEPT !.op = "export"]
  OBVIOUS
<1>4. PICK b : b = [a EXCEPT !.by = u]
  OBVIOUS
<1>5. PICK x : x = [b EXCEPT !.due = D]
  OBVIOUS
<1>6. p_walk' = x /\ UNCHANGED p_exec
  BY <1>1, <1>3, <1>4, <1>5, Zenon DEF Pages!ExportCount
<1>7. a \in Walker /\ a.op = "export" /\ a.page = 0
  BY <1>3, NoWalkRecord DEF Walker
<1>8. b \in Walker /\ b.op = "export" /\ b.page = 0
  BY <1>4, <1>7 DEF Walker
<1>9. x \in Walker /\ x.op = "export" /\ x.page = 0 /\ x.due = D
  BY <1>2, <1>5, <1>8 DEF Walker
<1>10. WalkBounds(x, ExecCount)
  BY <1>2, <1>9, MaxExecsIs DEF WalkBounds
<1> QED
  BY <1>6, <1>9, <1>10, ClientBounded

LEMMA ExportRowsBounded ==
  ASSUME PagesTypes, PageBounds, Pages!ExportRows
  PROVE  PageBounds'
<1>1. PICK w \in Walker : w = p_walk /\ WalkBounds(w, ExecCount)
  BY DEF PagesTypes, PageBounds
<1>2. PICK D : D = w.due \ Pages!Live
  OBVIOUS
<1>3. D \in SUBSET Nat /\ D \subseteq 1..ExecCount
  BY <1>1, <1>2 DEF Walker, WalkBounds
<1>4. PICK a, x : a = [w EXCEPT !.due = D] /\ x = [a EXCEPT !.op = "done"]
  OBVIOUS
<1>5. p_walk' = x /\ UNCHANGED p_exec
  BY <1>1, <1>2, <1>4, Zenon DEF Pages!ExportRows
<1>6. a \in Walker /\ a.due = D /\ a.page = w.page
  BY <1>3, <1>4 DEF Walker
<1>7. x \in Walker /\ x.op = "done" /\ x.due = D /\ x.page = w.page
  BY <1>4, <1>6 DEF Walker
<1>8. WalkBounds(x, ExecCount)
  BY <1>1, <1>3, <1>7 DEF WalkBounds
<1> QED
  BY <1>5, <1>7, <1>8, ClientBounded

LEMMA CloseBounded ==
  ASSUME PagesTypes, PageBounds, Pages!Close
  PROVE  PageBounds'
<1>1. PICK x : x = Pages!NoWalk
  OBVIOUS
<1>2. x \in Walker /\ x.op = "idle" /\ x.page = 0 /\ x.due = {}
  BY <1>1, NoWalkRecord
<1>3. WalkBounds(x, ExecCount)
  BY <1>2, MaxExecsIs DEF WalkBounds
<1>4. UNCHANGED p_exec /\ p_walk' = x
  BY <1>1 DEF Pages!Close
<1> QED
  BY <1>2, <1>3, <1>4, ClientBounded

LEMMA PageBoundsStep ==
  PagesInv /\ PagesInv' /\ PageBounds /\ [Pages!Next]_pagesVars => PageBounds'
<1> SUFFICES ASSUME PagesTypes, PagesTypes', EndsInv, PageBounds, [Pages!Next]_pagesVars
             PROVE  PageBounds'
  BY DEF PagesInv
<1>1. CASE UNCHANGED pagesVars
  <2>1. PICK x \in Walker : x = p_walk /\ WalkBounds(x, ExecCount)
    BY DEF PagesTypes, PageBounds
  <2>2. UNCHANGED p_exec /\ p_walk' = x
    BY <1>1, <2>1 DEF pagesVars
  <2> QED
    BY <2>1, <2>2, ClientBounded
<1>2. ASSUME NEW u \in Users, Pages!RunScript(u) PROVE PageBounds'
  BY <1>2, RunScriptBounded
<1>3. ASSUME NEW e \in Pages!Execs, Pages!End(e) \/ Pages!Delete(e) PROVE PageBounds'
  BY <1>3, EndBounded, DeleteBounded
<1>4. ASSUME NEW u \in Users \cup Admins, Pages!GetExecutions(u) \/ Pages!GetUserExecutions(u)
      PROVE  PageBounds'
  <2>1. PICK own \in BOOLEAN, running \in BOOLEAN, sort \in {"default", "newest", "oldest"} :
          Pages!Walk(u, own, running, sort)
    BY <1>4 DEF Pages!GetExecutions, Pages!GetUserExecutions, Pages!Sorts
  <2> QED
    BY <2>1, WalkBounded
<1>5. ASSUME NEW u \in Users \cup Admins, Pages!ExportCount(u) PROVE PageBounds'
  BY <1>5, ExportCountBounded
<1>6. CASE Pages!GetPage
  BY <1>6, GetPageBounded
<1>7. CASE Pages!ExportRows
  BY <1>7, ExportRowsBounded
<1>8. CASE Pages!Close
  BY <1>8, CloseBounded
<1> QED
  BY <1>1, <1>2, <1>3, <1>4, <1>5, <1>6, <1>7, <1>8 DEF Pages!Next

LEMMA PagesTyped == PagesTypes /\ PageBounds => Pages!TypeOK
<1> SUFFICES ASSUME PagesTypes, PageBounds PROVE Pages!TypeOK
  OBVIOUS
<1>1. PICK n \in Nat : n = ExecCount /\ DOMAIN p_exec = 1..n /\ Pages!Execs = 1..n
  BY ExecNumbers
<1>2. p_exec \in Seq([owner : Users \cup {Pages!Nobody}, end : 0..MaxExecs])
  <2>1. PICK S : S = [owner : Users \cup {Pages!Nobody}, end : 0..MaxExecs]
    OBVIOUS
  <2>2. ASSUME NEW e \in 1..n PROVE p_exec[e] \in S
    <3>1. p_exec[e] \in ExecRow /\ p_exec[e].end \in Nat
      BY <1>1, ExecNumbers DEF ExecRow
    <3>2. p_exec[e].end \in 0..MaxExecs
      <4>1. PICK c \in Nat : c = Cardinality(Over) /\ c <= n
        BY <1>1, OverCount
      <4>2. p_exec[e].end <= c /\ n <= MaxExecs
        BY <1>1, <4>1 DEF PageBounds, ListBounds
      <4> QED
        BY <3>1, <4>1, <4>2, MaxExecsIs
    <3> QED
      BY <2>1, <3>1, <3>2 DEF ExecRow, Pages!Nobody
  <2>3. p_exec = [e \in 1..n |-> p_exec[e]]
    BY <1>1 DEF PagesTypes
  <2>4. p_exec \in Seq(S)
    BY <2>2, <2>3
  <2> QED
    BY <2>1, <2>4
<1>3. p_walk \in [op : {"idle", "pages", "export", "done"}, by : Users \cup Admins \cup {Pages!Nobody},
                  own : BOOLEAN, running : BOOLEAN, sort : Pages!Sorts, page : 0..(MaxExecs + 2),
                  due : SUBSET Pages!Execs, since : SUBSET {"start", "end", "delete"}]
  <2>1. PICK w \in Walker : w = p_walk /\ WalkBounds(w, n)
    BY <1>1 DEF PagesTypes, PageBounds
  <2>2. w.page \in 0..(MaxExecs + 2) /\ w.due \in SUBSET (1..n)
    BY <2>1, MaxExecsIs DEF WalkBounds, Walker
  <2> QED
    BY <1>1, <2>1, <2>2 DEF Walker, Pages!Nobody, Pages!Sorts
<1> QED
  BY <1>2, <1>3 DEF Pages!TypeOK

-----------------------------------------------------------------------------
(* Every part                                                              *)

(* The job of one execution on Batch (BatchExecutionProofs). *)
LEMMA BatchMove == [AllNext]_allVars => [Next]_vars
BY DEF AllNext, Frame, allVars

LEMMA BatchTyped == PipelineInv => TypeOK
BY DEF PipelineInv

PartsInv ==
  /\ PipelineInv
  /\ OpenEOInv /\ CountsInv
  /\ EmailTypes
  /\ BuildsInv /\ ScriptBounds
  /\ PagesInv /\ PageBounds
  /\ CachesInv /\ LeftInv

LEMMA PartsStart == AllInit => PartsInv
<1>1. AllInit => PipelineInv
  BY PipelineInit DEF AllInit
<1> QED
  BY <1>1, OpenEOStart, CountsStart, EmailTypesStart, BuildsStart, ScriptBoundsStart,
     PagesStart, PageBoundsStart, CachesStart, LeftStart DEF PartsInv

LEMMA PartsStep == PartsInv /\ [AllNext]_allVars => PartsInv'
<1> SUFFICES ASSUME PartsInv, [AllNext]_allVars PROVE PartsInv'
  OBVIOUS
<1>1. PipelineInv'
  BY BatchMove, PipelineNext DEF PartsInv
<1>2. OpenEOInv' /\ CountsInv'
  BY OpenEOMove, OpenEOStep, CountsStep DEF PartsInv
<1>3. EmailTypes'
  BY EmailMove, EmailTypesStep DEF PartsInv
<1>4. BuildsInv'
  BY ScriptsMove, BuildsStep DEF PartsInv
<1>5. ScriptBounds'
  <2>1. BuildTypes /\ BuildTypes'
    BY <1>4 DEF PartsInv, BuildsInv
  <2> QED
    BY <2>1, ScriptsMove, ScriptBoundsStep DEF PartsInv
<1>6. PagesInv'
  BY PagesMove, PagesStep DEF PartsInv
<1>7. PageBounds'
  BY <1>6, PagesMove, PageBoundsStep DEF PartsInv
<1>8. CachesInv' /\ LeftInv'
  BY CachesMove, CachesStep, LeftStep DEF PartsInv
<1> QED
  BY <1>1, <1>2, <1>3, <1>4, <1>5, <1>6, <1>7, <1>8 DEF PartsInv

(* The types of every part, and with them what each part keeps within      *)
(* bounds: no more docker_build messages than uploads and faults, three    *)
(* pushes of an image (docker_service.py:559-596), at most one page more   *)
(* asked for by a walk than there may be executions                        *)
(* (execution_service.py:679-689), and nothing in Redis for longer than    *)
(* its time: for any values of the constants.                              *)
THEOREM LifecyclesCorrect == AllSpec => []TypesOK
<1>1. PartsInv => TypesOK
  <2> SUFFICES ASSUME PartsInv PROVE TypesOK
    OBVIOUS
  <2>1. TypeOK /\ OpenEO!TypeOK /\ Email!TypeOK
    BY BatchTyped, OpenEOTyped, EmailTyped DEF PartsInv
  <2>2. Scripts!TypeOK /\ Pages!TypeOK /\ Redis!TypeOK
    BY ScriptsTyped, PagesTyped, CachesTyped DEF PartsInv, BuildsInv, PagesInv
  <2> QED
    BY <2>1, <2>2 DEF TypesOK
<1> QED
  BY <1>1, PartsStart, PartsStep, PTL DEF AllSpec
===============================================================================
