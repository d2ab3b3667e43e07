------------------------------- MODULE Caches -------------------------------
(***************************************************************************)
(* What the API serves from Redis instead of computing it.  The sections   *)
(* of the dashboard and the execution statistics are cached as they come   *)
(* from the database; the dashboard and the user statistics are built from *)
(* sections, cached or not, and cached again.  The state of the swarm is   *)
(* collected by the monitoring worker only, from task data it keeps in its *)
(* own memory for a while.                                                 *)
(*                                                                         *)
(* A value is its age, the time since the database or Docker was read.     *)
(* Redis may be out of reach of any operation, and may lose everything.    *)
(***************************************************************************)
EXTENDS Naturals

CONSTANTS
  Processes,   (* API processes and workers that compute                     *)
  Ttl,         (* CACHE_TTL and SWARM_CACHE_TTL: ticks Redis keeps a value   *)
  Local,       (* ticks the worker keeps its task data (30 seconds)          *)
  Compute      (* bound: ticks a computation takes at most                   *)

VARIABLES
  cache,   (* Redis: of each key the age and the ticks it has left           *)
  work,    (* each process: the key it computes, what it still needs, the    *)
           (* age of what it read, and the ticks it has taken                *)
  tasks    (* the worker's task data                                         *)

vars == <<cache, work, tasks>>

(* One key stands for the parameters that make many. *)
Plain == "plain"   (* a section, or the execution statistics               *)
Built == "built"   (* the dashboard, or the user statistics                *)
Swarm == "swarm"
Keys == {Plain, Built, Swarm}

Absent == [age |-> 0, left |-> 0]
Idle == [key |-> "none", needs |-> FALSE, age |-> 0, spent |-> 0]

Init ==
  /\ cache = [k \in Keys |-> Absent] /\ tasks = Absent
  /\ work = [p \in Processes |-> Idle]

Cached(k) == cache[k].left > 0
Begin(p, w) == work[p] = Idle /\ work' = [work EXCEPT ![p] = w]

(* RedisCache.set, which may fail. *)
Store(k, age) ==
  cache' \in {cache, [cache EXCEPT ![k] = [age |-> age, left |-> Ttl]]}

-----------------------------------------------------------------------------
(* Statistics                                                              *)

(* Mutant: a hit is written back, to keep the cache warm. *)
HitRewarmed(k) ==
  /\ Cached(k) /\ cache' = [cache EXCEPT ![k].left = Ttl]
  /\ UNCHANGED <<work, tasks>>

(* _get_from_cache_or_execute: a hit is served as it is. *)
Hit(k) == Cached(k) /\ UNCHANGED vars

(* On a miss, or without Redis, it is computed: by every process that      *)
(* misses.                                                                 *)
GetExecutionStats(p) ==
  \/ Hit(Plain)
  \/ Begin(p, [Idle EXCEPT !.key = Plain]) /\ UNCHANGED <<cache, tasks>>

(* The sections are read in the same way. *)
GetDashboardStats(p) ==
  \/ Hit(Built)
  \/ /\ Begin(p, [Idle EXCEPT !.key = Built, !.needs = TRUE])
     /\ UNCHANGED <<cache, tasks>>
  \/ /\ Cached(Plain)
     /\ Begin(p, [Idle EXCEPT !.key = Built, !.age = cache[Plain].age])
     /\ UNCHANGED <<cache, tasks>>

(* Registrations and activity, and the geographic section. *)
GetUserStats(p) == GetDashboardStats(p)

SectionComputed(p) ==
  /\ work[p].needs /\ work' = [work EXCEPT ![p].needs = FALSE]
  /\ Store(Plain, work[p].age) /\ UNCHANGED tasks

(* The value is stored, whatever was stored or cleared meanwhile. *)
Computed(p) ==
  /\ work[p].key \in {Plain, Built} /\ ~work[p].needs
  /\ Store(work[p].key, work[p].age) /\ work' = [work EXCEPT ![p] = Idle]
  /\ UNCHANGED tasks

ComputeFails(p) ==
  /\ work[p] # Idle /\ work' = [work EXCEPT ![p] = Idle]
  /\ UNCHANGED <<cache, tasks>>

(* The periodic refreshes and the warm-up call the service as a request    *)
(* does: they fill a key that has expired, and leave one that has not.     *)
RefreshDashboardStatsCache(p) == GetDashboardStats(p)
RefreshExecutionStatsCache(p) == GetExecutionStats(p)
RefreshUserStatsCache(p) == GetUserStats(p)
WarmupStatsCacheOnStartup(p) ==
  \/ RefreshDashboardStatsCache(p) \/ RefreshExecutionStatsCache(p)
  \/ RefreshUserStatsCache(p)

(* What a pattern matches: the name of a section its keys and those of     *)
(* the dashboards with it, not the user statistics built from it; the      *)
(* other names allowed are in no key.                                      *)
Matched == {{Plain, Built}, {Plain}, {}}

(* DELETE /stats/cache *)
ClearCache ==
  /\ \E found \in Matched :
        cache' = [k \in Keys |-> IF k \in found THEN Absent ELSE cache[k]]
  /\ UNCHANGED <<work, tasks>>

-----------------------------------------------------------------------------
(* The swarm                                                               *)

(* _get_optimized_task_data: the data in memory, or else what Docker       *)
(* answers; nothing is kept of an error.                                   *)
CollectTasks(p) ==
  /\ Begin(p, [Idle EXCEPT !.key = Swarm,
                           !.age = IF tasks.left > 0 THEN tasks.age ELSE 0])
  /\ IF tasks.left > 0 THEN UNCHANGED tasks
     ELSE tasks' \in {tasks, [age |-> 0, left |-> Local]}
  /\ UNCHANGED cache

(* The nodes with their load, or Docker's error, are stored alike. *)
UpdateSwarmCache(p) ==
  /\ work[p].key = Swarm /\ Store(Swarm, work[p].age)
  /\ work' = [work EXCEPT ![p] = Idle] /\ UNCHANGED tasks

(* From Redis, or "unavailable"; never from Docker. *)
GetCachedSwarmStatus == Hit(Swarm)

-----------------------------------------------------------------------------
RedisRestarts == cache' = [k \in Keys |-> Absent] /\ UNCHANGED <<work, tasks>>

Older(e) ==
  IF e.left <= 1 THEN Absent ELSE [age |-> e.age + 1, left |-> e.left - 1]

Tick ==
  /\ \A p \in Processes : work[p].spent < Compute
  /\ cache' = [k \in Keys |-> Older(cache[k])] /\ tasks' = Older(tasks)
  /\ work' = [p \in Processes |->
                IF work[p] = Idle THEN Idle
                ELSE [work[p] EXCEPT !.age = @ + 1, !.spent = @ + 1]]

Next ==
  \/ \E p \in Processes :
        \/ GetDashboardStats(p) \/ GetExecutionStats(p) \/ GetUserStats(p)
        \/ WarmupStatsCacheOnStartup(p) \/ SectionComputed(p) \/ Computed(p)
        \/ ComputeFails(p) \/ CollectTasks(p) \/ UpdateSwarmCache(p)
  \/ ClearCache \/ GetCachedSwarmStatus \/ RedisRestarts \/ Tick

Spec == Init /\ [][Next]_vars

-----------------------------------------------------------------------------
(* The age no value reaches, by the path it takes to a client. *)
Bound == [plain |-> Compute + Ttl, built |-> 2 * (Compute + Ttl),
          swarm |-> Local + Compute + Ttl]

(* The types of the variables. *)
TypeOK ==
  /\ cache \in [Keys -> [age : Nat, left : 0..Ttl]]
  /\ work \in [Processes -> [key : Keys \cup {"none"}, needs : BOOLEAN,
                             age : Nat, spent : 0..Compute]]
  /\ tasks \in [age : Nat, left : 0..Local]

(* What a client is given from Redis is younger than every delay on its    *)
(* path together: what it was computed from, the computation, and the time *)
(* Redis keeps it, twice where a cached section was built in               *)
(* (stats_service.py:146 over 330), whatever was computed twice, refreshed,*)
(* cleared or lost: nothing prolongs a value that is there.                *)
ServedFresh == \A k \in Keys : Cached(k) => cache[k].age < Bound[k]
=============================================================================
