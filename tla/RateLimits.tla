----------------------------- MODULE RateLimits -----------------------------
(***************************************************************************)
(* The rate limits of one endpoint: the counters of Flask-Limiter in Redis,*)
(* one per caller and limit, the events a refused request leaves in the    *)
(* database, the list of active limits that administrators see, and their  *)
(* resets, which clear first the counters and then the events.  An endpoint*)
(* may have several limits, "10 per minute,40 per hour"; they differ in    *)
(* their windows, and a limit is named by its window.  Time passes in ticks.*)
(***************************************************************************)
EXTENDS Naturals

CONSTANTS
  Threads,    (* API threads                                                *)
  Users,      (* whoever calls: users, or addresses without a session       *)
  Anonymous,  (* those without a session, known by their address            *)
  Address,    (* the address each caller comes from                         *)
  Admins,     (* ADMIN and SUPERADMIN users among them                      *)
  Internal,   (* callers from the networks of the containers                *)
  Windows,    (* the windows of the limits, in ticks                        *)
  Quota,      (* requests each limit allows in its window                   *)
  Horizon     (* bound: ticks for which an event is kept in the model; no   *)
              (* window is longer                                           *)

VARIABLES
  count,    (* each caller's counter for each limit                         *)
  left,     (* ticks until the counter is dropped                           *)
  events,   (* each caller's events: age, window, and whether a reset ended *)
            (* them                                                         *)
  request   (* each API thread: a refused request, a reset, or neither      *)

vars == <<count, left, events, request>>

Nobody == "nobody"
NoRequest == [op |-> "idle", by |-> Nobody, window |-> 0, age |-> 0]

Init ==
  /\ count = [u \in Users |-> [w \in Windows |-> 0]]
  /\ left = [u \in Users |-> [w \in Windows |-> 0]]
  /\ events = [u \in Users |-> {}]
  /\ request = [t \in Threads |-> NoRequest]

Then(t, r) == request' = [request EXCEPT ![t] = r]

(* expires_at: a window after the refusal, or the moment of a reset. *)
IsActive(e) == ~e.over /\ e.age < e.window
Active(u) == \E e \in events[u] : IsActive(e)

Neighbours(u) == {v \in Users : Address[v] = Address[u]}

-----------------------------------------------------------------------------
(* Requests                                                                *)

IsInternal(u) == u \in Internal

Bypassed(u) == IsInternal(u)

(* get_admin_aware_key: without a key there is no limit. *)
Limited(u) == ~Bypassed(u) /\ u \notin Admins

Full(u, w) == count[u][w] = Quota[w]

Counted(u, W) ==
  /\ count' = [count EXCEPT ![u] = [w \in Windows |-> IF w \in W THEN count[u][w] + 1 ELSE count[u][w]]]
  /\ left' = [left EXCEPT ![u] = [w \in Windows |-> IF w \in W /\ count[u][w] = 0 THEN w ELSE left[u][w]]]

Pass(u) ==
  /\ Limited(u) /\ \A w \in Windows : ~Full(u, w)
  /\ Counted(u, Windows)
  /\ UNCHANGED <<events, request>>

(* 429, by the shortest limit that is full; the shorter ones have counted. *)
Refuse(t, u, w) ==
  /\ Limited(u) /\ Full(u, w) /\ request[t].op = "idle"
  /\ \A v \in Windows : v < w => ~Full(u, v)
  /\ Counted(u, {v \in Windows : v < w})
  /\ Then(t, [NoRequest EXCEPT !.op = "refused", !.by = u, !.window = w])
  /\ UNCHANGED events

(* Mutant: an event of any age stands for the new one. *)
ExistingEver(u, w) ==
  \E v \in Users : (v = u \/ v \in Neighbours(u)) /\ events[v] # {}

(* An event that occurred within the window of the limit that refuses,     *)
(* ended or not: of the same limit, else of the same user at the endpoint, *)
(* else of anybody at the same address.                                    *)
Existing(u, w) ==
  \E v \in Users : (v = u \/ v \in Neighbours(u)) /\ \E e \in events[v] : e.age <= w

RecordRead(t) ==
  LET r == request[t] IN
  /\ r.op = "refused"
  /\ Then(t, [r EXCEPT !.op = IF Existing(r.by, r.window) THEN "answered" ELSE "insert"])
  /\ UNCHANGED <<count, left, events>>

(* The event occurred when record_event was called. *)
RecordInsert(t) ==
  LET r == request[t] IN
  /\ r.op = "insert" /\ Then(t, [r EXCEPT !.op = "answered"])
  /\ events' = [events EXCEPT ![r.by] = @ \cup {[age |-> r.age, window |-> r.window, over |-> FALSE]}]
  /\ UNCHANGED <<count, left>>

(* An error of the database is only logged. *)
RecordFails(t) ==
  /\ request[t].op \in {"refused", "insert"} /\ Then(t, NoRequest)
  /\ UNCHANGED <<count, left, events>>

Answer(t) ==
  /\ request[t].op = "answered" /\ Then(t, NoRequest)
  /\ UNCHANGED <<count, left, events>>

-----------------------------------------------------------------------------
(* Resets, by a SUPERADMIN                                                 *)

Clear(U) ==
  /\ count' = [u \in Users |-> IF u \in U THEN [w \in Windows |-> 0] ELSE count[u]]
  /\ left' = [u \in Users |-> IF u \in U THEN [w \in Windows |-> 0] ELSE left[u]]
  /\ UNCHANGED events

Expire(U) ==
  /\ events' = [u \in Users |->
       IF u \in U THEN {[e EXCEPT !.over = e.over \/ IsActive(e)] : e \in events[u]} ELSE events[u]]
  /\ UNCHANGED <<count, left>>

(* An exempt caller has neither counters nor events that could be reset.   *)
ResetByIdentifier(t, u) ==
  /\ Limited(u) /\ request[t].op = "idle" /\ Clear({u})
  /\ Then(t, [NoRequest EXCEPT !.op = "reset", !.by = u])

(* The events that name the user, or those that name the address, of users *)
(* with a session as well.                                                 *)
Named(u) == IF u \in Anonymous THEN Neighbours(u) ELSE {u}

ExpireEventsForIdentifier(t) ==
  /\ request[t].op = "reset" /\ Then(t, NoRequest) /\ Expire(Named(request[t].by))

ResetAll(t) ==
  /\ request[t].op = "idle" /\ Then(t, [NoRequest EXCEPT !.op = "reset_all"]) /\ Clear(Users)

ExpireAllActiveEvents(t) ==
  /\ request[t].op = "reset_all" /\ Then(t, NoRequest) /\ Expire(Users)

(* A refusal is recorded within the window, and the event is looked for and *)
(* the answer given at once.                                               *)
Recording(t) ==
  /\ request[t].op \notin {"refused", "answered"}
  /\ request[t].op = "insert" => request[t].age + 1 < request[t].window

Tick ==
  /\ \A t \in Threads : Recording(t)
  /\ left' = [u \in Users |-> [w \in Windows |-> IF left[u][w] > 0 THEN left[u][w] - 1 ELSE 0]]
  /\ count' = [u \in Users |-> [w \in Windows |-> IF left[u][w] <= 1 THEN 0 ELSE count[u][w]]]
  /\ events' = [u \in Users |-> {[e EXCEPT !.age = e.age + 1] : e \in {d \in events[u] : d.age < Horizon}}]
  /\ request' = [t \in Threads |-> IF request[t].op = "insert" THEN [request[t] EXCEPT !.age = @ + 1]
                                   ELSE request[t]]

Next ==
  \/ \E u \in Users : Pass(u)
  \/ \E t \in Threads :
        \/ \E u \in Users : ResetByIdentifier(t, u) \/ \E w \in Windows : Refuse(t, u, w)
        \/ RecordRead(t) \/ RecordInsert(t) \/ RecordFails(t) \/ Answer(t)
        \/ ExpireEventsForIdentifier(t) \/ ResetAll(t) \/ ExpireAllActiveEvents(t)
  \/ Tick

Spec == Init /\ [][Next]_vars

-----------------------------------------------------------------------------
(* The types of the variables. *)
TypeOK ==
  /\ count \in [Users -> [Windows -> Nat]] /\ left \in [Users -> [Windows -> 0..Horizon]]
  /\ \A u \in Users, w \in Windows : count[u][w] <= Quota[w]
  /\ events \in [Users -> SUBSET [age : 0..Horizon, window : Windows, over : BOOLEAN]]
  /\ request \in [Threads -> [op : {"idle", "refused", "insert", "answered", "reset", "reset_all"},
                              by : Users \cup {Nobody}, window : Windows \cup {0}, age : 0..Horizon]]

(* The list of active limits shows whoever is refused, at the latest when  *)
(* the refusal is answered, with three exceptions of                       *)
(* rate_limit_event_service.py:84-123: the event that stands for this      *)
(* refusal was ended by a reset, it is of a shorter limit and is over (or  *)
(* ends at this moment), or it names another caller from the same address. *)
RefusedIsListed ==
  \A t \in Threads : LET r == request[t] IN
     r.op = "answered" =>
        \/ Active(r.by)
        \/ \E e \in events[r.by] :
              e.age <= r.window /\ (e.over \/ e.window < r.window \/ e.age = e.window)
        \/ \E v \in Neighbours(r.by) \ {r.by} : \E e \in events[v] : e.age <= r.window

(* "Query current rate limiting status across the system" (admin.py:27):   *)
(* as long as nothing was reset, a caller who is refused is on the list.   *)
RefusedShows ==
  (\A u \in Users : \A e \in events[u] : ~e.over)
    => \A t \in Threads : request[t].op = "answered" => Active(request[t].by)
=============================================================================
