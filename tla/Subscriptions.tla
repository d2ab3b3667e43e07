---------------------------- MODULE Subscriptions ---------------------------
(***************************************************************************)
(* The bulk email subscription of one user.  The user sets it in the       *)
(* profile or on the unsubscribe page; SparkPost records opt-outs and      *)
(* addresses that do not exist, and a task that beat starts every four     *)
(* hours reads the events of the last 24 hours again and again, without    *)
(* a cursor.  A tick is the time between two starts of the task.           *)
(***************************************************************************)
EXTENDS Integers, FiniteSetsExt

CONSTANTS
  Events,    (* opt-outs the user may ever cause                            *)
  Window,    (* SPARKPOST_SUPPRESSION_LOOKBACK_HOURS, in ticks (6)          *)
  MaxGap     (* bound: ticks between two runs of the task that succeed      *)

VARIABLES
  subscribed,  (* the three flags: news, engagement, system updates         *)
  age,         (* of each event in SparkPost, in ticks; Window + 1: older   *)
  sync,        (* the task: the events it got, and the flags it loaded      *)
  edit,        (* a PATCH by the user: the flags it loaded and will set     *)
  gap,         (* ticks since the last fetch of a task that succeeded       *)
  heard,       (* history: events a task that succeeded got                 *)
  since        (* history: events before the user's last choice to get mail *)

vars == <<subscribed, age, sync, edit, gap, heard, since>>

NotYet == -1
NoSync == [op |-> "idle", got |-> {}, seen |-> FALSE, at |-> 0]
NoEdit == [busy |-> FALSE, seen |-> FALSE, new |-> FALSE]

Init ==
  /\ subscribed \in BOOLEAN /\ age = [e \in Events |-> NotYet]
  /\ sync = NoSync /\ edit = NoEdit /\ gap = 0 /\ heard = {} /\ since = {}

Happened == {e \in Events : age[e] # NotYet}

-----------------------------------------------------------------------------
(* The user, and SparkPost                                                 *)

OptOut(e) ==
  /\ age[e] = NotYet /\ age' = [age EXCEPT ![e] = 0]
  /\ UNCHANGED <<subscribed, sync, edit, gap, heard, since>>

(* The token of the link, or the session, names the user. *)
EditRead ==
  /\ ~edit.busy
  /\ \E new \in BOOLEAN : edit' = [busy |-> TRUE, seen |-> subscribed, new |-> new]
  /\ UNCHANGED <<subscribed, age, sync, gap, heard, since>>

(* A flag that does not change is not written; the request may fail. *)
UpdatePrefs ==
  /\ edit.busy /\ edit' = NoEdit
  /\ \/ /\ subscribed' = IF edit.new # edit.seen THEN edit.new ELSE subscribed
        /\ since' = IF edit.new THEN Happened ELSE since
     \/ UNCHANGED <<subscribed, since>>
  /\ UNCHANGED <<age, sync, gap, heard>>

-----------------------------------------------------------------------------
(* sync_sparkpost_suppressions                                             *)

(* Mutant: only the events since the last start are asked for. *)
RecentOnly(e) == age[e] # NotYet /\ age[e] <= 1

(* The last minute is left out: an event of this tick may be missing.      *)
Recent(e) == age[e] # NotYet /\ age[e] <= Window

RecentTrackingEvents ==
  /\ sync.op = "idle"
  /\ \E late \in SUBSET {e \in Events : age[e] = 0} :
       sync' = [NoSync EXCEPT !.op = "fetched", !.got = {e \in Events : Recent(e)} \ late]
  /\ UNCHANGED <<subscribed, age, edit, gap, heard, since>>

LoadUsers ==
  /\ sync.op = "fetched" /\ sync.got # {}
  /\ sync' = [sync EXCEPT !.op = "loaded", !.seen = subscribed]
  /\ UNCHANGED <<subscribed, age, edit, gap, heard, since>>

(* Nothing to do, or the flags that were set are cleared. *)
SyncEnds ==
  /\ \/ sync.op = "loaded" /\ subscribed' = (subscribed /\ ~sync.seen)
     \/ sync.op = "fetched" /\ sync.got = {} /\ UNCHANGED subscribed
  /\ heard' = heard \cup sync.got /\ gap' = sync.at /\ sync' = NoSync
  /\ UNCHANGED <<age, edit, since>>

(* SparkPost does not answer one of the pages, or the worker is lost. *)
SyncFails ==
  /\ sync.op # "idle" /\ sync' = NoSync
  /\ UNCHANGED <<subscribed, age, edit, gap, heard, since>>

Tick ==
  /\ gap < MaxGap /\ gap' = gap + 1
  /\ sync' = IF sync.op = "idle" THEN sync ELSE [sync EXCEPT !.at = @ + 1]
  /\ age' = [e \in Events |-> IF age[e] # NotYet /\ age[e] <= Window THEN age[e] + 1 ELSE age[e]]
  /\ UNCHANGED <<subscribed, edit, heard, since>>

Next ==
  \/ \E e \in Events : OptOut(e)
  \/ EditRead \/ UpdatePrefs
  \/ RecentTrackingEvents \/ LoadUsers \/ SyncEnds \/ SyncFails \/ Tick

Spec == Init /\ [][Next]_vars

-----------------------------------------------------------------------------
(* The types of the variables. *)
TypeOK ==
  /\ subscribed \in BOOLEAN /\ age \in [Events -> NotYet..(Window + 1)]
  /\ sync \in [op : {"idle", "fetched", "loaded"}, got : SUBSET Events, seen : BOOLEAN, at : 0..MaxGap]
  /\ edit \in [busy : BOOLEAN, seen : BOOLEAN, new : BOOLEAN]
  /\ gap \in 0..MaxGap /\ heard \subseteq Events /\ since \subseteq Events

(* "The overlapping lookback window makes the task safe to retry without a *)
(* database cursor" (sparkpost_suppression_sync.py:93): an opt-out that    *)
(* has left the window was honoured, although tasks fail and edits run in  *)
(* between, unless the user chose to get mail again after it.              *)
OptOutHonoured ==
  \A e \in Events \ since : age[e] = Window + 1 => e \in heard /\ ~subscribed
=============================================================================
