---------------------------- MODULE UserDataProofs ----------------------------
(***************************************************************************)
(* Theorems about the services that keep data of users and show it to      *)
(* them, for any values of the constants of MCServices: subscriptions,     *)
(* logs, access lists and credentials; and the types of the variables of   *)
(* all parts of MCServices, which rest on the invariants of both modules.  *)
(***************************************************************************)
EXTENDS ServicesProofs, WellFoundedInduction

(* A step of the services is a step of a part, or leaves that part alone.  *)
LEMMA MailMove == [AllNext]_allVars => [Mail!Next]_subscriptionsVars
BY DEF AllNext, Frame, allVars

LEMMA LogsMove == [AllNext]_allVars => [Logs!Next]_logsVars
BY DEF AllNext, Frame, allVars

LEMMA AccessMove == [AllNext]_allVars => [Access!Next]_accessVars
BY DEF AllNext, Frame, allVars

LEMMA CredentialsMove == [AllNext]_allVars => [Google!Next]_credentialsVars
BY DEF AllNext, Frame, allVars

-----------------------------------------------------------------------------
(* Subscriptions                                                           *)

SyncType == [op : {"idle", "fetched", "loaded"}, got : SUBSET OptOuts, seen : BOOLEAN, at : Nat]
EditType == [busy : BOOLEAN, seen : BOOLEAN, new : BOOLEAN]

MailTypes ==
  /\ m_subscribed \in BOOLEAN /\ m_age \in [OptOuts -> Int]
  /\ \A e \in OptOuts : m_age[e] >= -1
  /\ m_sync \in SyncType /\ m_edit \in EditType
  /\ m_gap \in 0..MaxGap /\ m_since \subseteq OptOuts
  /\ m_heard \subseteq Mail!Happened /\ m_sync.got \subseteq Mail!Happened

(* An opt-out that no task has got is as young as the last fetch, and one  *)
(* that the running task did not get is as young as its own.               *)
UnheardInv ==
  /\ m_sync.at <= m_gap
  /\ \A e \in Mail!Happened \ m_heard :
       /\ m_age[e] <= m_gap
       /\ m_sync.op # "idle" /\ e \notin m_sync.got => m_age[e] <= m_sync.at

(* Who gets mail chose so after the opt-outs that tasks have worked off,   *)
(* and after those of a task that found nothing to clear.                  *)
ChosenInv ==
  m_subscribed =>
    /\ m_heard \subseteq m_since
    /\ m_sync.op = "loaded" /\ ~m_sync.seen => m_sync.got \subseteq m_since

MailInv == MailTypes /\ UnheardInv /\ ChosenInv

LEMMA MailStart == AllInit => MailInv
<1> SUFFICES ASSUME AllInit PROVE MailInv
  OBVIOUS
<1>1. /\ m_subscribed \in BOOLEAN /\ m_age = [e \in OptOuts |-> -1] /\ m_gap = 0
      /\ m_sync = [op |-> "idle", got |-> {}, seen |-> FALSE, at |-> 0]
      /\ m_edit = [busy |-> FALSE, seen |-> FALSE, new |-> FALSE]
      /\ m_heard = {} /\ m_since = {}
  BY DEF AllInit, Mail!Init, Mail!NotYet, Mail!NoSync, Mail!NoEdit
<1>2. Mail!Happened = {}
  BY <1>1 DEF Mail!Happened, Mail!NotYet
<1>3. MailTypes
  BY <1>1, <1>2, ServicesAssumption DEF MailTypes, SyncType, EditType
<1> QED
  BY <1>1, <1>2, <1>3 DEF MailInv, UnheardInv, ChosenInv

LEMMA OptOutKeeps ==
  ASSUME MailInv, NEW e \in OptOuts, Mail!OptOut(e)
  PROVE  MailInv'
<1>1. /\ m_age \in [OptOuts -> Int] /\ m_age' = [m_age EXCEPT ![e] = 0] /\ m_age[e] = -1
      /\ m_gap \in Nat /\ m_sync.at \in Nat
      /\ UNCHANGED <<m_subscribed, m_sync, m_edit, m_gap, m_heard, m_since>>
  BY DEF MailInv, MailTypes, SyncType, Mail!OptOut, Mail!NotYet
<1>2. /\ m_age' \in [OptOuts -> Int] /\ m_age'[e] = 0
      /\ \A d \in OptOuts : d # e => m_age'[d] = m_age[d]
  BY <1>1
<1>3. Mail!Happened' = Mail!Happened \cup {e}
  BY <1>1, <1>2 DEF Mail!Happened, Mail!NotYet
<1>4. MailTypes'
  BY <1>1, <1>2, <1>3 DEF MailInv, MailTypes
<1>5. UnheardInv'
  BY <1>1, <1>2, <1>3 DEF MailInv, UnheardInv, Mail!Happened
<1>6. ChosenInv'
  BY <1>1 DEF MailInv, ChosenInv
<1> QED
  BY <1>4, <1>5, <1>6 DEF MailInv

LEMMA EditsKeep ==
  ASSUME MailInv, Mail!EditRead \/ Mail!UpdatePrefs
  PROVE  MailInv'
<1>1. /\ m_edit \in EditType /\ m_subscribed \in BOOLEAN
      /\ UNCHANGED <<m_age, m_sync, m_gap, m_heard>>
  BY DEF MailInv, MailTypes, Mail!EditRead, Mail!UpdatePrefs
<1>2. Mail!Happened' = Mail!Happened /\ Mail!Happened \subseteq OptOuts
  BY <1>1 DEF Mail!Happened
<1>3. m_edit' \in EditType
  <2>1. CASE Mail!EditRead
    <3>1. PICK new \in BOOLEAN : m_edit' = [busy |-> TRUE, seen |-> m_subscribed, new |-> new]
      BY <2>1 DEF Mail!EditRead
    <3>2. m_subscribed = TRUE \/ m_subscribed = FALSE
      BY <1>1
    <3> QED
      BY <3>1, <3>2 DEF EditType
  <2>2. CASE Mail!UpdatePrefs
    BY <2>2 DEF Mail!UpdatePrefs, Mail!NoEdit, EditType
  <2> QED
    BY <2>1, <2>2
<1>4. UnheardInv'
  BY <1>1, <1>2 DEF MailInv, UnheardInv
<1>5. CASE UNCHANGED <<m_subscribed, m_since>>
  BY <1>1, <1>2, <1>3, <1>4, <1>5 DEF MailInv, MailTypes, ChosenInv
<1>6. CASE /\ m_subscribed' = IF m_edit.new # m_edit.seen THEN m_edit.new ELSE m_subscribed
           /\ m_since' = IF m_edit.new THEN Mail!Happened ELSE m_since
  <2>1. m_subscribed' \in BOOLEAN /\ m_since' \subseteq OptOuts
    BY <1>1, <1>2, <1>6 DEF EditType, MailInv, MailTypes
  <2>2. m_edit.new \in BOOLEAN /\ m_edit.seen \in BOOLEAN
    BY <1>1 DEF EditType
  <2>3. CASE m_edit.new = TRUE
    BY <1>1, <1>2, <1>3, <1>4, <1>6, <2>1, <2>3 DEF MailInv, MailTypes, ChosenInv
  <2>4. CASE m_edit.new = FALSE
    <3>1. m_since' = m_since /\ (m_subscribed' => m_subscribed)
      BY <1>6, <2>2, <2>4
    <3> QED
      BY <1>1, <1>2, <1>3, <1>4, <2>1, <3>1 DEF MailInv, MailTypes, ChosenInv
  <2> QED
    BY <2>2, <2>3, <2>4
<1> QED
  BY <1>5, <1>6 DEF Mail!EditRead, Mail!UpdatePrefs

LEMMA FetchKeeps ==
  ASSUME MaxGap <= Lookback, MailInv, Mail!RecentTrackingEvents
  PROVE  MailInv'
<1>1. PICK late \in SUBSET {e \in OptOuts : m_age[e] = 0} :
        m_sync' = [Mail!NoSync EXCEPT !.op = "fetched",
                                      !.got = {e \in OptOuts : Mail!Recent(e)} \ late]
  BY DEF Mail!RecentTrackingEvents
<1> DEFINE got == {e \in OptOuts : Mail!Recent(e)} \ late
<1>2. m_sync' = [op |-> "fetched", got |-> got, seen |-> FALSE, at |-> 0]
  BY <1>1 DEF Mail!NoSync
<1>3. UNCHANGED <<m_subscribed, m_age, m_edit, m_gap, m_heard, m_since>>
  BY DEF Mail!RecentTrackingEvents
<1>4. got \in SUBSET OptOuts /\ got \subseteq Mail!Happened /\ Mail!Happened' = Mail!Happened
  BY <1>3 DEF Mail!Happened, Mail!Recent
<1>5. ASSUME NEW e \in Mail!Happened \ m_heard, e \notin got
      PROVE  m_age[e] <= 0
  <2>1. m_age[e] \in Int /\ m_age[e] <= m_gap /\ m_gap \in 0..MaxGap /\ e \in OptOuts
        /\ m_age[e] # Mail!NotYet
    BY DEF MailInv, MailTypes, UnheardInv, Mail!Happened
  <2>2. m_age[e] <= Lookback
    BY <2>1, ServicesAssumption
  <2>3. e \in late
    BY <1>5, <2>1, <2>2 DEF Mail!Recent
  <2> QED
    BY <2>1, <2>3
<1> HIDE DEF got
<1>6. m_sync' \in SyncType /\ m_sync'.got = got /\ m_sync'.at = 0 /\ m_sync'.op = "fetched"
  BY <1>2, <1>4 DEF SyncType
<1>7. MailTypes'
  BY <1>3, <1>4, <1>6 DEF MailInv, MailTypes
<1>8. UnheardInv'
  BY <1>3, <1>4, <1>5, <1>6 DEF MailInv, MailTypes, UnheardInv
<1>9. ChosenInv'
  BY <1>3, <1>6 DEF MailInv, ChosenInv
<1> QED
  BY <1>7, <1>8, <1>9 DEF MailInv

LEMMA LoadUsersKeeps ==
  ASSUME MailInv, Mail!LoadUsers
  PROVE  MailInv'
<1>1. /\ m_sync \in SyncType /\ m_sync.op = "fetched"
      /\ m_sync' = [m_sync EXCEPT !.op = "loaded", !.seen = m_subscribed]
      /\ UNCHANGED <<m_subscribed, m_age, m_edit, m_gap, m_heard, m_since>>
      /\ m_subscribed \in BOOLEAN
  BY DEF MailInv, MailTypes, Mail!LoadUsers
<1>2. /\ m_sync' \in SyncType /\ m_sync'.op = "loaded" /\ m_sync'.seen = m_subscribed
      /\ m_sync'.got = m_sync.got /\ m_sync'.at = m_sync.at
  BY <1>1 DEF SyncType
<1>3. Mail!Happened' = Mail!Happened
  BY <1>1 DEF Mail!Happened
<1> QED
  BY <1>1, <1>2, <1>3 DEF MailInv, MailTypes, UnheardInv, ChosenInv

LEMMA SyncReturns ==
  ASSUME MailInv, m_sync' = Mail!NoSync
  PROVE  m_sync' \in SyncType /\ m_sync'.op = "idle" /\ m_sync'.got = {} /\ m_sync'.at = 0
BY DEF Mail!NoSync, SyncType

LEMMA SyncEndsKeeps ==
  ASSUME MailInv, Mail!SyncEnds
  PROVE  MailInv'
<1>1. /\ m_heard' = m_heard \cup m_sync.got /\ m_gap' = m_sync.at
      /\ UNCHANGED <<m_age, m_edit, m_since>> /\ m_sync \in SyncType
      /\ m_sync' \in SyncType /\ m_sync'.op = "idle" /\ m_sync'.got = {} /\ m_sync'.at = 0
      /\ m_sync.op # "idle" /\ m_subscribed \in BOOLEAN /\ m_since \subseteq OptOuts
      /\ m_gap \in 0..MaxGap /\ m_sync.at <= m_gap
  BY SyncReturns DEF MailInv, MailTypes, UnheardInv, Mail!SyncEnds
<1>2. Mail!Happened' = Mail!Happened
  BY <1>1 DEF Mail!Happened
<1>3. m_subscribed' \in BOOLEAN
  BY <1>1 DEF Mail!SyncEnds
<1>4. m_sync.at \in Nat /\ m_gap' \in 0..MaxGap
  BY <1>1, ServicesAssumption DEF SyncType
<1>5. MailTypes'
  BY <1>1, <1>2, <1>3, <1>4 DEF MailInv, MailTypes
<1>6. UnheardInv'
  <2> SUFFICES ASSUME NEW e \in Mail!Happened, e \notin m_heard, e \notin m_sync.got
               PROVE  m_age[e] <= m_sync.at
    BY <1>1, <1>2, <1>4 DEF UnheardInv
  <2> QED
    BY <1>1 DEF MailInv, UnheardInv
<1>7. ChosenInv'
  <2> SUFFICES ASSUME m_subscribed' PROVE m_heard \cup m_sync.got \subseteq m_since
    BY <1>1 DEF ChosenInv
  <2>1. CASE m_sync.op = "loaded" /\ m_subscribed' = (m_subscribed /\ ~m_sync.seen)
    BY <2>1 DEF MailInv, ChosenInv
  <2>2. CASE m_sync.got = {} /\ UNCHANGED m_subscribed
    BY <2>2 DEF MailInv, ChosenInv
  <2> QED
    BY <2>1, <2>2 DEF Mail!SyncEnds
<1> QED
  BY <1>5, <1>6, <1>7 DEF MailInv

LEMMA SyncFailsKeeps ==
  ASSUME MailInv, Mail!SyncFails
  PROVE  MailInv'
<1>1. /\ UNCHANGED <<m_subscribed, m_age, m_edit, m_gap, m_heard, m_since>>
      /\ m_sync' \in SyncType /\ m_sync'.op = "idle" /\ m_sync'.got = {} /\ m_sync'.at = 0
      /\ Mail!Happened' = Mail!Happened
  BY SyncReturns DEF Mail!SyncFails, Mail!Happened
<1> QED
  BY <1>1 DEF MailInv, MailTypes, UnheardInv, ChosenInv

LEMMA MailTickKeeps ==
  ASSUME MailInv, Mail!Tick
  PROVE  MailInv'
<1>1. /\ m_age \in [OptOuts -> Int] /\ m_sync \in SyncType /\ m_gap \in 0..MaxGap
      /\ m_gap' = m_gap + 1 /\ m_gap < MaxGap /\ m_sync.at <= m_gap
      /\ UNCHANGED <<m_subscribed, m_edit, m_heard, m_since>>
  BY DEF MailInv, MailTypes, UnheardInv, Mail!Tick
<1>2. ASSUME NEW e \in OptOuts
      PROVE  /\ m_age'[e] \in Int /\ m_age'[e] >= -1 /\ m_age'[e] <= m_age[e] + 1
             /\ (m_age'[e] = -1 <=> m_age[e] = -1)
  <2>1. /\ m_age[e] \in Int /\ m_age[e] >= -1
        /\ m_age'[e] = IF m_age[e] # -1 /\ m_age[e] <= Lookback THEN m_age[e] + 1 ELSE m_age[e]
    BY <1>1 DEF MailInv, MailTypes, Mail!Tick, Mail!NotYet
  <2> QED
    BY <2>1, ServicesAssumption
<1>3. m_age' \in [OptOuts -> Int]
  BY <1>2 DEF Mail!Tick
<1>4. Mail!Happened' = Mail!Happened
  BY <1>2 DEF Mail!Happened, Mail!NotYet
<1>5. /\ m_sync' \in SyncType /\ m_sync'.op = m_sync.op /\ m_sync'.got = m_sync.got
      /\ m_sync'.seen = m_sync.seen
      /\ m_sync'.at = IF m_sync.op = "idle" THEN m_sync.at ELSE m_sync.at + 1
  BY <1>1 DEF Mail!Tick, SyncType
<1>6. m_gap' \in 0..MaxGap /\ m_sync.at \in Nat
  BY <1>1, ServicesAssumption DEF SyncType
<1>7. MailTypes'
  BY <1>1, <1>2, <1>3, <1>4, <1>5, <1>6 DEF MailInv, MailTypes
<1>8. UnheardInv'
  <2> SUFFICES ASSUME NEW e \in Mail!Happened \ m_heard
               PROVE  /\ m_age'[e] <= m_gap + 1
                      /\ m_sync.op # "idle" /\ e \notin m_sync.got => m_age'[e] <= m_sync.at + 1
    BY <1>1, <1>4, <1>5, <1>6 DEF UnheardInv
  <2>1. /\ e \in OptOuts /\ m_age[e] \in Int /\ m_age[e] <= m_gap
        /\ m_sync.op # "idle" /\ e \notin m_sync.got => m_age[e] <= m_sync.at
    BY <1>1 DEF MailInv, UnheardInv, Mail!Happened
  <2> QED
    BY <1>1, <1>2, <1>6, <2>1
<1>9. ChosenInv'
  BY <1>1, <1>5 DEF MailInv, ChosenInv
<1> QED
  BY <1>7, <1>8, <1>9 DEF MailInv

LEMMA MailStep ==
  ASSUME MaxGap <= Lookback, MailInv, [Mail!Next]_subscriptionsVars
  PROVE  MailInv'
<1>1. CASE UNCHANGED subscriptionsVars
  BY <1>1 DEF subscriptionsVars, MailInv, MailTypes, UnheardInv, ChosenInv, Mail!Happened
<1> QED
  BY <1>1, OptOutKeeps, EditsKeep, FetchKeeps, LoadUsersKeeps, SyncEndsKeeps,
     SyncFailsKeeps, MailTickKeeps DEF Mail!Next

(* An opt-out that has left the window of the task was honoured, although   *)
(* tasks fail and edits run in between, unless the user chose to get mail    *)
(* again after it: for every window, as long as no more time than the        *)
(* window passes between two tasks that succeed                              *)
(* (sparkpost_suppression_sync.py:93).                                       *)
THEOREM OptOutsHonoured ==
  ASSUME MaxGap <= Lookback
  PROVE  AllSpec => []OptOutHonoured
<1>1. MailInv => OptOutHonoured
  <2> SUFFICES ASSUME MailInv, NEW e \in OptOuts \ m_since, m_age[e] = Lookback + 1
               PROVE  e \in m_heard /\ ~m_subscribed
    BY DEF OptOutHonoured, Mail!OptOutHonoured
  <2>1. /\ m_gap \in 0..MaxGap /\ e \in Mail!Happened
    BY ServicesAssumption DEF MailInv, MailTypes, Mail!Happened, Mail!NotYet
  <2>2. e \in m_heard
    BY <2>1, ServicesAssumption DEF MailInv, UnheardInv
  <2> QED
    BY <2>2 DEF MailInv, ChosenInv
<1>2. MailInv /\ [AllNext]_allVars => MailInv'
  BY MailMove, MailStep
<1> QED
  BY <1>1, <1>2, MailStart, PTL DEF AllSpec

-----------------------------------------------------------------------------
(* Logs                                                                    *)

(* What the client goes by, of a line and of the lines so far.             *)
Key(l) == IF l_after = "id" THEN l.id ELSE l.date
Given == IF l_after = "id" THEN l_ids ELSE l_dates

LogTypes ==
  /\ l_ids \in Nat /\ l_dates \in Nat /\ l_last \in Nat /\ l_last <= Given
  /\ l_writer \in [Threads -> [id : Nat, date : Nat]] /\ l_seen \subseteq l_lines
  /\ \A l \in l_lines : l \in [id : Nat, date : Nat] /\ l.id <= l_ids /\ l.date <= l_dates

(* A line that comes out with a key the client is past was being written   *)
(* when it got there.                                                      *)
WriterInv ==
  \A w \in Threads :
    LET l == l_writer[w] IN
    /\ l.id <= l_ids /\ l.date <= l_dates /\ (l.date = 0 => l.id = 0)
    /\ Key(l) # 0 /\ Key(l) <= l_last => l.date \in l_late

SeenInv ==
  /\ \A l \in l_seen : Key(l) <= l_last
  /\ ~l_repeated
  /\ \A l \in l_lines \ l_seen : Key(l) > l_last \/ l.date \in l_late

LogInv == LogTypes /\ WriterInv /\ SeenInv

LEMMA LogStart == AllInit => LogInv
<1> SUFFICES ASSUME AllInit PROVE LogInv
  OBVIOUS
<1>1. /\ l_lines = {} /\ l_dates = 0 /\ l_ids = 0 /\ l_last = 0 /\ l_seen = {}
      /\ l_repeated = FALSE /\ l_late = {}
      /\ l_writer = [w \in Threads |-> [id |-> 0, date |-> 0]]
  BY DEF AllInit, Logs!Init, Logs!NoLine
<1>2. LogTypes
  BY <1>1 DEF LogTypes, Given
<1>3. WriterInv
  BY <1>1 DEF WriterInv, Key
<1>4. SeenInv
  BY <1>1 DEF SeenInv
<1> QED
  BY <1>2, <1>3, <1>4 DEF LogInv

(* A set of numbers up to a bound has a largest one.                       *)
LEMMA LargestOf ==
  ASSUME NEW n \in Nat, NEW S \in SUBSET (0..n), S # {}
  PROVE  \E m \in S : \A k \in S : m >= k
<1> DEFINE T == {n - k : k \in S}
           R == {ss \in Nat \X Nat : ss[1] < ss[2]}
<1>1. T \subseteq Nat /\ T # {}
  <2>1. \A k \in S : n - k \in Nat
    OBVIOUS
  <2> QED
    BY <2>1
<1>2. PICK d \in T : \A e \in T : d <= e
  <2>1. IsWellFoundedOn(R, Nat)
    BY NatLessThanWellFounded DEF OpToRel
  <2>2. PICK x \in T : \A y \in T : ~(<<y, x>> \in R)
    <3> HIDE DEF T, R
    <3> QED
      BY <1>1, <2>1, WFMin
  <2>3. \A y \in T : ~(y < x)
    BY <1>1, <2>2
  <2> HIDE DEF T
  <2> QED
    BY <1>1, <2>3
<1>3. PICK m \in S : d = n - m
  OBVIOUS
<1>4. ASSUME NEW k \in S
      PROVE  m >= k
  <2>1. n - k \in T
    OBVIOUS
  <2>2. d <= n - k
    BY <1>2, <2>1
  <2> QED
    BY <1>3, <2>2
<1> QED
  BY <1>4

LEMMA WritesKeep ==
  ASSUME LogInv, NEW w \in Threads,
         Logs!CreateLog(w) \/ Logs!Insert(w) \/ Logs!Rollback(w)
  PROVE  LogInv'
<1>1. /\ l_ids \in Nat /\ l_dates \in Nat /\ l_last \in Nat /\ l_last <= Given
      /\ l_writer \in [Threads -> [id : Nat, date : Nat]]
      /\ UNCHANGED <<l_lines, l_after, l_last, l_seen, l_repeated, l_late>>
  BY DEF LogInv, LogTypes, Logs!CreateLog, Logs!Insert, Logs!Rollback
<1>2. l_writer[w] \in [id : Nat, date : Nat] /\ l_writer[w].id \in Nat /\ l_writer[w].date \in Nat
      /\ l_writer[w].id <= l_ids /\ l_writer[w].date <= l_dates
      /\ (l_writer[w].date = 0 => l_writer[w].id = 0)
      /\ (Key(l_writer[w]) # 0 /\ Key(l_writer[w]) <= l_last => l_writer[w].date \in l_late)
  BY <1>1 DEF LogInv, WriterInv
<1> DEFINE InOrder(l) ==
             /\ l_writer' = [l_writer EXCEPT ![w] = l]
             /\ l_ids' \in Nat /\ l_dates' \in Nat /\ l_ids' >= l_ids /\ l_dates' >= l_dates
             /\ l.id <= l_ids' /\ l.date <= l_dates' /\ (l.date = 0 => l.id = 0)
             /\ Key(l) # 0 /\ Key(l) <= l_last => l.date \in l_late
<1>3. \E l \in [id : Nat, date : Nat] : InOrder(l)
  <2>1. CASE Logs!CreateLog(w)
    <3> DEFINE l == [l_writer[w] EXCEPT !.date = l_dates + 1]
    <3>1. l_writer[w].id = 0 /\ l_dates' = l_dates + 1 /\ UNCHANGED l_ids
          /\ l_writer' = [l_writer EXCEPT ![w] = l]
      BY <1>1, <2>1 DEF Logs!CreateLog, Logs!NoLine
    <3>2. l \in [id : Nat, date : Nat] /\ l.id = 0 /\ l.date = l_dates + 1
      BY <1>1, <1>2, <3>1
    <3> HIDE DEF l
    <3>3. Key(l) # 0 => ~(Key(l) <= l_last)
      BY <1>1, <3>2 DEF Key, Given
    <3>4. l_dates' \in Nat /\ l_dates' >= l_dates /\ l.date # 0 /\ l.id <= l_ids
      BY <1>1, <3>1, <3>2
    <3>5. InOrder(l)
      BY <1>1, <3>1, <3>2, <3>3, <3>4
    <3> HIDE DEF InOrder
    <3> QED
      BY <3>2, <3>5
  <2>2. CASE Logs!Insert(w)
    <3> DEFINE l == [l_writer[w] EXCEPT !.id = l_ids + 1]
    <3>1. l_ids' = l_ids + 1 /\ UNCHANGED l_dates /\ l_writer[w].date # 0
          /\ l_writer' = [l_writer EXCEPT ![w] = l]
      BY <1>1, <2>2 DEF Logs!Insert
    <3>2. l \in [id : Nat, date : Nat] /\ l.date = l_writer[w].date /\ l.id = l_ids + 1
      BY <1>1, <1>2
    <3> HIDE DEF l
    <3>3. Key(l) # 0 /\ Key(l) <= l_last => l.date \in l_late
      BY <1>1, <1>2, <3>2 DEF Key, Given
    <3>4. l_ids' \in Nat /\ l_ids' >= l_ids /\ l.date # 0
      BY <1>1, <3>1, <3>2
    <3>5. InOrder(l)
      BY <1>1, <1>2, <3>1, <3>2, <3>3, <3>4
    <3> HIDE DEF InOrder
    <3> QED
      BY <3>2, <3>5
  <2>3. CASE Logs!Rollback(w)
    <3> DEFINE l == [id |-> 0, date |-> 0]
    <3>1. /\ UNCHANGED <<l_ids, l_dates>> /\ l_writer' = [l_writer EXCEPT ![w] = l]
          /\ l \in [id : Nat, date : Nat] /\ l.id = 0 /\ l.date = 0
      BY <2>3 DEF Logs!Rollback, Logs!NoLine
    <3> HIDE DEF l
    <3>2. Key(l) = 0
      BY <3>1 DEF Key
    <3>3. InOrder(l)
      BY <1>1, <3>1, <3>2
    <3> HIDE DEF InOrder
    <3> QED
      BY <3>1, <3>3
  <2> QED
    BY <2>1, <2>2, <2>3
<1>4. PICK l \in [id : Nat, date : Nat] : InOrder(l)
  BY <1>3
<1>5. /\ l_writer' \in [Threads -> [id : Nat, date : Nat]] /\ l_writer'[w] = l
      /\ \A v \in Threads : v # w => l_writer'[v] = l_writer[v]
  BY <1>1, <1>4
<1>6. LogTypes'
  BY <1>1, <1>4, <1>5 DEF LogInv, LogTypes, Given
<1>7. WriterInv'
  <2> SUFFICES ASSUME NEW v \in Threads
               PROVE  LET m == l_writer'[v] IN
                      /\ m.id <= l_ids' /\ m.date <= l_dates' /\ (m.date = 0 => m.id = 0)
                      /\ Key(m) # 0 /\ Key(m) <= l_last => m.date \in l_late
    BY <1>1 DEF WriterInv, Key
  <2>1. CASE v = w
    BY <1>4, <1>5, <2>1
  <2>2. CASE v # w
    <3>1. l_writer[v].id \in Nat /\ l_writer[v].date \in Nat
          /\ l_writer[v].id <= l_ids /\ l_writer[v].date <= l_dates
          /\ (l_writer[v].date = 0 => l_writer[v].id = 0)
          /\ (Key(l_writer[v]) # 0 /\ Key(l_writer[v]) <= l_last => l_writer[v].date \in l_late)
      BY <1>1 DEF LogInv, WriterInv
    <3> QED
      BY <1>1, <1>4, <1>5, <2>2, <3>1
  <2> QED
    BY <2>1, <2>2
<1>8. SeenInv'
  BY <1>1 DEF LogInv, SeenInv, Key
<1> QED
  BY <1>6, <1>7, <1>8 DEF LogInv

LEMMA CommitKeeps ==
  ASSUME LogInv, NEW w \in Threads, Logs!Commit(w)
  PROVE  LogInv'
<1>1. /\ l_ids \in Nat /\ l_dates \in Nat /\ l_last \in Nat /\ l_last <= Given
      /\ l_writer \in [Threads -> [id : Nat, date : Nat]] /\ l_writer[w].id # 0
      /\ l_lines' = l_lines \cup {l_writer[w]}
      /\ l_writer' = [l_writer EXCEPT ![w] = [id |-> 0, date |-> 0]]
      /\ UNCHANGED <<l_dates, l_ids, l_after, l_last, l_seen, l_repeated, l_late>>
  BY DEF LogInv, LogTypes, Logs!Commit, Logs!NoLine
<1>2. /\ l_writer[w] \in [id : Nat, date : Nat] /\ l_writer[w].id <= l_ids
      /\ l_writer[w].date <= l_dates /\ l_writer[w].date # 0
      /\ (Key(l_writer[w]) # 0 /\ Key(l_writer[w]) <= l_last => l_writer[w].date \in l_late)
  BY <1>1 DEF LogInv, WriterInv
<1>3. /\ l_writer' \in [Threads -> [id : Nat, date : Nat]]
      /\ l_writer'[w].id = 0 /\ l_writer'[w].date = 0
      /\ \A v \in Threads : v # w => l_writer'[v] = l_writer[v]
  BY <1>1
<1>4. LogTypes'
  BY <1>1, <1>2, <1>3 DEF LogInv, LogTypes, Given
<1>5. WriterInv'
  BY <1>1, <1>3 DEF LogInv, WriterInv, Key
<1>6. SeenInv'
  <2>1. Key(l_writer[w]) \in Nat /\ Key(l_writer[w]) # 0
    BY <1>1, <1>2 DEF Key
  <2>2. Key(l_writer[w]) > l_last \/ l_writer[w].date \in l_late
    BY <1>1, <1>2, <2>1
  <2> QED
    BY <1>1, <2>2 DEF LogInv, SeenInv, Key
<1> QED
  BY <1>4, <1>5, <1>6 DEF LogInv

LEMMA PollKeeps ==
  ASSUME LogInv, Logs!Poll
  PROVE  LogInv'
<1> DEFINE got == {l \in l_lines : Logs!AfterLast(l)}
           keys == {Key(l) : l \in got}
<1>1. /\ l_seen' = l_seen \cup got /\ l_repeated' = (l_repeated \/ got \cap l_seen # {})
      /\ l_last' = Logs!Max({l_last} \cup keys)
      /\ l_late' = l_late \cup {l_writer[w].date : w \in {v \in Threads : l_writer[v] # Logs!NoLine}}
      /\ UNCHANGED <<l_lines, l_dates, l_ids, l_writer, l_after>>
  BY DEF Logs!Poll, Key
<1>2. /\ l_ids \in Nat /\ l_dates \in Nat /\ l_last \in Nat /\ l_last <= Given
      /\ l_writer \in [Threads -> [id : Nat, date : Nat]] /\ l_seen \subseteq l_lines
      /\ Given \in Nat
      /\ \A l \in l_lines : Key(l) \in Nat /\ Key(l) <= Given
  BY DEF LogInv, LogTypes, Given, Key
<1>3. \A l \in l_lines : l \in got <=> Key(l) > l_last
  BY DEF Logs!AfterLast, Key
<1>4. got \subseteq l_lines /\ keys \in SUBSET Nat /\ \A k \in keys : k <= Given
  BY <1>2
<1> HIDE DEF got
<1>5. /\ l_last' \in Nat /\ l_last' <= Given /\ l_last' >= l_last
      /\ \A l \in got : Key(l) <= l_last'
  <2> DEFINE S == {l_last} \cup keys
  <2>1. S \in SUBSET (0..Given) /\ S # {} /\ l_last \in S
    BY <1>2, <1>4
  <2>2. \A l \in got : Key(l) \in S
    OBVIOUS
  <2>3. l_last' = CHOOSE m \in S : \A k \in S : m >= k
    BY <1>1 DEF Logs!Max
  <2> HIDE DEF S
  <2>4. \E m \in S : \A k \in S : m >= k
    BY <1>2, <2>1, LargestOf
  <2>5. l_last' \in S /\ \A k \in S : l_last' >= k
    BY <2>3, <2>4
  <2> QED
    BY <1>2, <1>4, <2>1, <2>2, <2>5
<1>6. LogTypes'
  <2>1. Given' = Given
    BY <1>1 DEF Given
  <2> QED
    BY <1>1, <1>4, <1>5, <2>1 DEF LogInv, LogTypes
<1>7. WriterInv'
  <2> SUFFICES ASSUME NEW w \in Threads
               PROVE  LET m == l_writer[w] IN
                      /\ m.id <= l_ids /\ m.date <= l_dates /\ (m.date = 0 => m.id = 0)
                      /\ Key(m) # 0 /\ Key(m) <= l_last' => m.date \in l_late'
    BY <1>1 DEF WriterInv, Key
  <2>1. l_writer[w].id <= l_ids /\ l_writer[w].date <= l_dates
        /\ (l_writer[w].date = 0 => l_writer[w].id = 0)
    BY DEF LogInv, WriterInv
  <2>2. ASSUME Key(l_writer[w]) # 0
        PROVE  l_writer[w].date \in l_late'
    <3>1. l_writer[w] # Logs!NoLine
      BY <2>2 DEF Key, Logs!NoLine
    <3> QED
      BY <1>1, <3>1
  <2> QED
    BY <2>1, <2>2
<1>8. SeenInv'
  <2>1. \A l \in l_seen \cup got : Key(l) <= l_last'
    BY <1>2, <1>5 DEF LogInv, SeenInv
  <2>2. ~l_repeated'
    <3>1. got \cap l_seen = {}
      BY <1>2, <1>3 DEF LogInv, SeenInv
    <3> QED
      BY <1>1, <3>1 DEF LogInv, SeenInv
  <2>3. \A l \in l_lines \ (l_seen \cup got) : l.date \in l_late'
    BY <1>1, <1>2, <1>3 DEF LogInv, SeenInv
  <2>4. \A l : Key(l)' = Key(l)
    BY <1>1 DEF Key
  <2> QED
    BY <1>1, <2>1, <2>2, <2>3, <2>4 DEF SeenInv, Key
<1> QED
  BY <1>6, <1>7, <1>8 DEF LogInv

LEMMA LogStep ==
  ASSUME LogInv, [Logs!Next]_logsVars
  PROVE  LogInv'
<1>1. CASE UNCHANGED logsVars
  BY <1>1 DEF logsVars, LogInv, LogTypes, WriterInv, SeenInv, Key, Given
<1> QED
  BY <1>1, WritesKeep, CommitKeeps, PollKeeps
     DEF Logs!Next, Logs!SaveBuildLog, Logs!GetExecutionLogs, Logs!GetScriptLogs

(* A client that polls a log is given no line twice, and misses none but    *)
(* those that were being written while it polled, which an id or a date     *)
(* beyond theirs hides from it (executions.py:953).                         *)
THEOREM LinesPolledOnce == AllSpec => []PolledOnce
<1>1. LogInv => PolledOnce
  BY DEF LogInv, SeenInv, PolledOnce, Logs!PolledOnce, Logs!AfterLast, Key
<1>2. LogInv /\ [AllNext]_allVars => LogInv'
  BY LogsMove, LogStep
<1> QED
  BY <1>1, <1>2, LogStart, PTL DEF AllSpec

-----------------------------------------------------------------------------
(* Access lists                                                            *)

(* A script that names users or roles is restricted to them.               *)
Granted(s) == s.users # {} \/ s.roles # {} => s.restricted

(* What a request that is under way makes of the script.                   *)
Pending(t, s) == Access!Written(s, a_request[t].writes)

AccessTypes ==
  /\ a_row \in Access!Script
  /\ a_mixed \in BOOLEAN
  /\ a_request = [t \in Threads |-> a_request[t]]
  /\ \A t \in Threads : a_request[t].busy => \A s \in Access!Script : Pending(t, s) \in Access!Script

AloneInv ==
  ~a_mixed =>
    /\ Granted(a_row)
    /\ \A t, u \in Threads : a_request[t].busy /\ a_request[u].busy => t = u
    /\ \A t \in Threads : a_request[t].busy => Granted(Pending(t, a_row))

AccessInv == AccessTypes /\ AloneInv

(* Each request leaves the lists as they should be.                        *)
Scoped(s) == s \in Access!Script /\ (Granted(a_row) => Granted(s))

LEMMA WithRolesSound ==
  ASSUME a_row \in Access!Script, NEW roles \in SUBSET {"USER"}
  PROVE  Scoped(Access!WithRoles(a_row, roles))
BY DEF Scoped, Granted, Access!Script, Access!WithRoles

LEMMA WithUsersSound ==
  ASSUME a_row \in Access!Script, NEW us \in SUBSET Users
  PROVE  Scoped(Access!WithUsers(a_row, us))
BY DEF Scoped, Granted, Access!Script, Access!WithUsers

LEMMA ListsSound ==
  ASSUME a_row \in Access!Script
  PROVE  /\ Scoped(a_row) /\ Scoped(Access!Cleared(a_row))
         /\ Scoped([a_row EXCEPT !.public = TRUE]) /\ Scoped([a_row EXCEPT !.public = FALSE])
         /\ \A u \in Users : Scoped(Access!AddUser(a_row, u)) /\ Scoped(Access!RemoveUser(a_row, u))
         /\ \A r \in {"USER"} : Scoped(Access!AddRole(a_row, r)) /\ Scoped(Access!RemoveRole(a_row, r))
<1>1. Scoped(a_row)
  BY DEF Scoped
<1>2. Scoped(Access!Cleared(a_row))
  BY DEF Scoped, Granted, Access!Script, Access!Cleared
<1>3. Scoped([a_row EXCEPT !.public = TRUE]) /\ Scoped([a_row EXCEPT !.public = FALSE])
  BY DEF Scoped, Granted, Access!Script
<1>4. a_row.users \in SUBSET Users /\ a_row.roles \in SUBSET {"USER"}
  BY DEF Access!Script
<1>5. ASSUME NEW u \in Users
      PROVE  Scoped(Access!AddUser(a_row, u)) /\ Scoped(Access!RemoveUser(a_row, u))
  <2>1. (a_row.users \cup {u}) \in SUBSET Users /\ (a_row.users \ {u}) \in SUBSET Users
    BY <1>4
  <2>2. /\ Scoped(Access!WithUsers(a_row, a_row.users \cup {u}))
        /\ Scoped(Access!WithUsers(a_row, a_row.users \ {u}))
    BY <2>1, WithUsersSound
  <2> QED
    BY <1>1, <2>2 DEF Access!AddUser, Access!RemoveUser
<1>6. ASSUME NEW r \in {"USER"}
      PROVE  Scoped(Access!AddRole(a_row, r)) /\ Scoped(Access!RemoveRole(a_row, r))
  <2>1. (a_row.roles \cup {r}) \in SUBSET {"USER"} /\ (a_row.roles \ {r}) \in SUBSET {"USER"}
    BY <1>4
  <2>2. /\ Scoped(Access!WithRoles(a_row, a_row.roles \cup {r}))
        /\ Scoped(Access!WithRoles(a_row, a_row.roles \ {r}))
    BY <2>1, WithRolesSound
  <2> QED
    BY <1>1, <2>2 DEF Access!AddRole, Access!RemoveRole
<1> QED
  BY <1>1, <1>2, <1>3, <1>5, <1>6

(* Writing the columns that differ makes the row what was wanted.          *)
LEMMA WrittenRow ==
  ASSUME NEW old \in Access!Script, NEW new \in Access!Script
  PROVE  LET changed == {c \in DOMAIN old : new[c] # old[c]}
             writes == [c \in changed |-> new[c]]
         IN  /\ Access!Written(old, writes) = new
             /\ \A s \in Access!Script : Access!Written(s, writes) \in Access!Script
<1> DEFINE changed == {c \in DOMAIN old : new[c] # old[c]}
           writes == [c \in changed |-> new[c]]
<1>1. Access!Written(old, writes) = new
  BY DEF Access!Script, Access!Written
<1>2. ASSUME NEW s \in Access!Script
      PROVE  Access!Written(s, writes) \in Access!Script
  <2> DEFINE v == Access!Written(s, writes)
  <2>1. \A c \in {"public", "restricted", "roles", "users"} : v[c] \in {new[c], s[c]}
    BY DEF Access!Script, Access!Written
  <2>2. v = [c \in {"public", "restricted", "roles", "users"} |-> v[c]]
    BY DEF Access!Script, Access!Written
  <2> HIDE DEF v
  <2>3. v.public \in BOOLEAN /\ v.restricted \in BOOLEAN
    BY <2>1 DEF Access!Script
  <2>4. v.roles \in SUBSET {"USER"} /\ v.users \in SUBSET Users
    BY <2>1 DEF Access!Script
  <2>5. v \in Access!Script
    BY <2>2, <2>3, <2>4 DEF Access!Script
  <2> QED
    BY <2>5 DEF v
<1> QED
  BY <1>1, <1>2

LEMMA LoadKeeps ==
  ASSUME AccessInv, NEW t \in Threads, NEW new, Scoped(new), Access!Load(t, new)
  PROVE  AccessInv'
<1> DEFINE changed == {c \in DOMAIN a_row : new[c] # a_row[c]}
           writes == [c \in changed |-> new[c]]
<1>1. /\ a_row \in Access!Script /\ new \in Access!Script /\ UNCHANGED a_row
      /\ a_request = [u \in Threads |-> a_request[u]]
      /\ a_request' = [a_request EXCEPT ![t] = [busy |-> TRUE, writes |-> writes]]
      /\ a_mixed' = (a_mixed \/ \E u \in Threads : a_request[u].busy)
      /\ a_mixed' \in BOOLEAN
  BY DEF AccessInv, AccessTypes, Scoped, Access!Load
<1>2. /\ Access!Written(a_row, writes) = new
      /\ \A s \in Access!Script : Access!Written(s, writes) \in Access!Script
  BY <1>1, WrittenRow
<1> HIDE DEF writes
<1>3. /\ a_request' = [u \in Threads |-> a_request'[u]]
      /\ a_request'[t].writes = writes /\ a_request'[t].busy
      /\ \A u \in Threads : u # t => a_request'[u] = a_request[u]
  BY <1>1
<1>4. AccessTypes'
  <2> SUFFICES ASSUME NEW u \in Threads, a_request'[u].busy, NEW s \in Access!Script
               PROVE  Access!Written(s, a_request'[u].writes) \in Access!Script
    BY <1>1, <1>3 DEF AccessTypes, Pending
  <2> QED
    BY <1>2, <1>3 DEF AccessInv, AccessTypes, Pending
<1>5. AloneInv'
  <2> SUFFICES ASSUME ~a_mixed'
               PROVE  /\ Granted(a_row)
                      /\ \A u \in Threads : a_request'[u].busy => u = t
                      /\ \A u \in Threads :
                           a_request'[u].busy => Granted(Access!Written(a_row, a_request'[u].writes))
    BY <1>1 DEF AloneInv, Pending
  <2>1. ~a_mixed /\ \A u \in Threads : ~a_request[u].busy
    BY <1>1
  <2>2. Granted(a_row) /\ Granted(new)
    BY <2>1 DEF AccessInv, AloneInv, Scoped
  <2> QED
    BY <1>2, <1>3, <2>1, <2>2
<1> QED
  BY <1>4, <1>5 DEF AccessInv

LEMMA AccessEndsKeep ==
  ASSUME AccessInv, NEW t \in Threads, Access!Commit(t) \/ Access!RequestDies(t)
  PROVE  AccessInv'
<1>1. /\ a_row \in Access!Script /\ UNCHANGED a_mixed /\ a_request[t].busy
      /\ a_request = [u \in Threads |-> a_request[u]]
      /\ a_request' = [a_request EXCEPT ![t] = [busy |-> FALSE, writes |-> <<>>]]
      /\ a_row' = a_row \/ a_row' = Pending(t, a_row)
  BY DEF AccessInv, AccessTypes, Pending, Access!Commit, Access!RequestDies, Access!NoRequest
<1>2. /\ a_request' = [u \in Threads |-> a_request'[u]] /\ ~a_request'[t].busy
      /\ \A u \in Threads : u # t => a_request'[u] = a_request[u]
  BY <1>1
<1>3. a_row' \in Access!Script
  BY <1>1 DEF AccessInv, AccessTypes
<1>4. AccessTypes'
  BY <1>1, <1>2, <1>3 DEF AccessInv, AccessTypes, Pending
<1>5. AloneInv'
  <2> SUFFICES ASSUME ~a_mixed
               PROVE  Granted(a_row') /\ \A u \in Threads : ~a_request'[u].busy
    BY <1>1 DEF AloneInv
  <2> QED
    BY <1>1, <1>2 DEF AccessInv, AloneInv
<1> QED
  BY <1>4, <1>5 DEF AccessInv

LEMMA AccessStart == AllInit => AccessInv
<1> SUFFICES ASSUME AllInit PROVE AccessInv
  OBVIOUS
<1>1. /\ a_row = [public |-> FALSE, restricted |-> FALSE, roles |-> {}, users |-> {}]
      /\ a_request = [t \in Threads |-> [busy |-> FALSE, writes |-> <<>>]] /\ a_mixed = FALSE
  BY DEF AllInit, Access!Init, Access!New, Access!NoRequest
<1>2. a_row \in Access!Script /\ Granted(a_row)
  BY <1>1 DEF Access!Script, Granted
<1> QED
  BY <1>1, <1>2 DEF AccessInv, AccessTypes, AloneInv

LEMMA AccessStep ==
  ASSUME AccessInv, [Access!Next]_accessVars
  PROVE  AccessInv'
<1>1. CASE UNCHANGED accessVars
  BY <1>1 DEF accessVars, AccessInv, AccessTypes, AloneInv, Granted, Pending
<1>2. a_row \in Access!Script
  BY DEF AccessInv, AccessTypes
<1>3. ASSUME NEW t \in Threads, NEW u \in Access!Everyone,
             \/ Access!SetScriptAccessRoles(t, u) \/ Access!SetScriptAccessUsers(t, u)
             \/ Access!AddScriptAccessUser(t, u) \/ Access!RemoveScriptAccessUser(t, u)
             \/ Access!AddScriptAccessRole(t, u) \/ Access!RemoveScriptAccessRole(t, u)
             \/ Access!ClearScriptAccess(t, u) \/ Access!PublishScript(t, u)
             \/ Access!UnpublishScript(t, u)
      PROVE  AccessInv'
  <2>1. \E new : Scoped(new) /\ Access!Load(t, new)
    BY <1>2, <1>3, WithRolesSound, WithUsersSound, ListsSound
       DEF Access!SetScriptAccessRoles, Access!SetScriptAccessUsers,
           Access!AddScriptAccessUser, Access!RemoveScriptAccessUser,
           Access!AddScriptAccessRole, Access!RemoveScriptAccessRole,
           Access!ClearScriptAccess, Access!PublishScript, Access!UnpublishScript
  <2> QED
    BY <2>1, LoadKeeps
<1> QED
  BY <1>1, <1>3, AccessEndsKeep DEF Access!Next

(* Whoever is shown a script in the list can open it, and a script that     *)
(* names users or roles is restricted to them as long as no two requests on  *)
(* its lists overlapped.                                                     *)
THEOREM ListsHold == AllSpec => []AccessHolds
<1>1. AccessInv => AccessHolds
  BY DEF AccessInv, AloneInv, Granted, AccessHolds, Access!ListedIsAccessible,
         Access!GrantsRestrict, Access!Listed, Access!GetScript, Access!CanAccess
<1>2. AccessInv /\ [AllNext]_allVars => AccessInv'
  BY AccessMove, AccessStep
<1> QED
  BY <1>1, <1>2, AccessStart, PTL DEF AllSpec

-----------------------------------------------------------------------------
(* Credentials                                                             *)

CredentialOps == {"idle", "verified", "exchange", "project", "delete", "test", "valid"}
Identities == Accounts \cup {Google!None, "own", "default", "other"}
CredentialRequest == [op : CredentialOps, loaded : Google!Row, flow : Nat, by : Identities]

CredentialTypes ==
  /\ g_row \in Google!Row /\ g_flows \in Nat /\ g_mixed \in BOOLEAN
  /\ g_request \in [Threads -> CredentialRequest]
  /\ g_ee \in [Threads -> {Google!None, "own", "default", "other"}]
  /\ \A t \in Threads :
       g_request[t].op = "project" => /\ g_request[t].loaded.type = "oauth"
                                      /\ g_request[t].by \in Accounts \cup {Google!None}

(* What a request loaded is what the row still holds, openEO aside.        *)
Fresh(r) ==
  r.op \in {"verified", "exchange", "project", "delete", "test"} =>
    \A c \in {"type", "tokens", "key", "email", "project"} : r.loaded[c] = g_row[c]

ErasedInv ==
  ~g_mixed =>
    /\ Google!ErasedWhenDeleted
    /\ \A t, u \in Threads :
         g_request[t] # Google!NoRequest /\ g_request[u] # Google!NoRequest => t = u
    /\ \A t \in Threads : Fresh(g_request[t])

CredentialsInv == CredentialTypes /\ ErasedInv

LEMMA NoCredentialRequest ==
  /\ Google!NoRequest \in CredentialRequest /\ Google!NoRequest.op = "idle"
  /\ Google!NoRequest.loaded = Google!Empty /\ Google!Empty \in Google!Row
BY DEF Google!NoRequest, CredentialRequest, CredentialOps, Identities, Google!Empty, Google!Row

LEMMA OneCredentialRequest ==
  ASSUME CredentialTypes, NEW t \in Threads, NEW r \in CredentialRequest, Google!Then(t, r)
  PROVE  /\ g_request' \in [Threads -> CredentialRequest] /\ g_request'[t] = r
         /\ \A u \in Threads : u # t => g_request'[u] = g_request[u]
BY DEF CredentialTypes, Google!Then

(* The request that begins found the row as it is, and no other.           *)
LEMMA CredentialsBegin ==
  ASSUME CredentialsInv, NEW t \in Threads, NEW r \in CredentialRequest, Google!Begin(t, r),
         UNCHANGED <<g_row, g_flows, g_ee>>, Fresh(r),
         r.op = "project" => r.loaded.type = "oauth" /\ r.by \in Accounts \cup {Google!None}
  PROVE  CredentialsInv'
<1>1. /\ CredentialTypes /\ Google!Then(t, r)
      /\ g_mixed' = (g_mixed \/ \E u \in Threads : g_request[u] # Google!NoRequest)
  BY DEF CredentialsInv, Google!Begin, Google!Overlap
<1>2. /\ g_request' \in [Threads -> CredentialRequest] /\ g_request'[t] = r
      /\ \A u \in Threads : u # t => g_request'[u] = g_request[u]
  BY <1>1, OneCredentialRequest
<1>3. g_mixed' \in BOOLEAN
  BY <1>1 DEF CredentialTypes
<1>4. CredentialTypes'
  BY <1>1, <1>2, <1>3 DEF CredentialTypes
<1>5. ErasedInv'
  <2> SUFFICES ASSUME ~g_mixed'
               PROVE  /\ Google!ErasedWhenDeleted'
                      /\ \A u \in Threads : g_request'[u] # Google!NoRequest => u = t
                      /\ \A u \in Threads : Fresh(g_request'[u])
    BY DEF ErasedInv, Fresh
  <2>1. ~g_mixed /\ \A u \in Threads : g_request[u] = Google!NoRequest
    BY <1>1
  <2>2. Google!ErasedWhenDeleted'
    BY <2>1 DEF CredentialsInv, ErasedInv, Google!ErasedWhenDeleted
  <2>3. Fresh(Google!NoRequest)
    BY NoCredentialRequest DEF Fresh
  <2> QED
    BY <1>2, <2>1, <2>2, <2>3
<1> QED
  BY <1>4, <1>5 DEF CredentialsInv

(* A request goes on: what it writes erases all or nothing, and it is done *)
(* with what it loaded or the row is as it was.                            *)
LEMMA CredentialsGoOn ==
  ASSUME CredentialsInv, NEW t \in Threads, NEW r \in CredentialRequest, Google!Then(t, r),
         g_request[t] # Google!NoRequest, UNCHANGED <<g_flows, g_mixed>>,
         g_row' \in Google!Row, g_ee' \in [Threads -> {Google!None, "own", "default", "other"}],
         r.op # "project",
         ~g_mixed => /\ Google!ErasedWhenDeleted'
                     /\ Fresh(r)'
  PROVE  CredentialsInv'
<1>1. CredentialTypes
  BY DEF CredentialsInv
<1>2. /\ g_request' \in [Threads -> CredentialRequest] /\ g_request'[t] = r
      /\ \A u \in Threads : u # t => g_request'[u] = g_request[u]
  BY <1>1, OneCredentialRequest
<1>3. CredentialTypes'
  BY <1>1, <1>2 DEF CredentialTypes
<1>4. ErasedInv'
  <2> SUFFICES ASSUME ~g_mixed
               PROVE  /\ Google!ErasedWhenDeleted'
                      /\ \A u \in Threads : g_request'[u] # Google!NoRequest => u = t
                      /\ \A u \in Threads : Fresh(g_request[u])'
    BY DEF ErasedInv
  <2>1. \A u \in Threads : u # t => g_request[u] = Google!NoRequest
    BY DEF CredentialsInv, ErasedInv
  <2>2. \A u \in Threads : u # t => Fresh(g_request[u])'
    BY <1>2, <2>1, NoCredentialRequest DEF Fresh
  <2>3. Fresh(g_request[t])'
    BY <1>2 DEF Fresh
  <2> QED
    BY <1>2, <2>1, <2>2, <2>3
<1> QED
  BY <1>3, <1>4 DEF CredentialsInv

(* A commit leaves a row, whose columns are the old ones or the new ones.  *)
LEMMA CommittedColumns ==
  ASSUME g_row \in Google!Row, NEW old \in Google!Row, NEW new
  PROVE  /\ DOMAIN Google!Committed(old, new) = {"type", "tokens", "key", "email", "project", "openeo"}
         /\ \A c \in {"type", "tokens", "key", "email", "project", "openeo"} :
              Google!Committed(old, new)[c] =
                IF c \in DOMAIN new /\ (new[c] # old[c] \/ (c = "tokens" /\ new[c] # Google!None))
                THEN new[c] ELSE g_row[c]
<1>1. DOMAIN g_row = {"type", "tokens", "key", "email", "project", "openeo"}
  BY DEF Google!Row
<1> QED
  BY <1>1 DEF Google!Committed

LEMMA CommittedRow ==
  ASSUME g_row \in Google!Row, NEW old \in Google!Row, NEW new,
         "type" \in DOMAIN new => new["type"] \in {Google!None, "oauth", "service_account"},
         "tokens" \in DOMAIN new => new["tokens"] \in Accounts \cup {Google!None},
         "key" \in DOMAIN new => new["key"] \in BOOLEAN,
         "email" \in DOMAIN new => new["email"] \in Accounts \cup {Google!None},
         "project" \in DOMAIN new => new["project"] \in BOOLEAN,
         "openeo" \notin DOMAIN new
  PROVE  Google!Committed(old, new) \in Google!Row
<1> DEFINE v == Google!Committed(old, new)
<1>1. /\ g_row["type"] \in {Google!None, "oauth", "service_account"}
      /\ g_row["tokens"] \in Accounts \cup {Google!None}
      /\ g_row["key"] \in BOOLEAN /\ g_row["email"] \in Accounts \cup {Google!None}
      /\ g_row["project"] \in BOOLEAN /\ g_row["openeo"] \in BOOLEAN
  BY DEF Google!Row
<1>2. v = [c \in {"type", "tokens", "key", "email", "project", "openeo"} |-> v[c]]
  BY CommittedColumns DEF Google!Committed
<1>3. v["type"] \in {Google!None, "oauth", "service_account"}
  BY <1>1, CommittedColumns
<1>4. v["tokens"] \in Accounts \cup {Google!None}
  BY <1>1, CommittedColumns
<1>5. v["key"] \in BOOLEAN
  BY <1>1, CommittedColumns
<1>6. v["email"] \in Accounts \cup {Google!None}
  BY <1>1, CommittedColumns
<1>7. v["project"] \in BOOLEAN /\ v["openeo"] \in BOOLEAN
  BY <1>1, CommittedColumns
<1> HIDE DEF v
<1>8. v \in Google!Row
  BY <1>2, <1>3, <1>4, <1>5, <1>6, <1>7 DEF Google!Row
<1> QED
  BY <1>8 DEF v

(* What the requests write, if the row is still what they loaded.          *)
LEMMA StoredRow ==
  ASSUME g_row \in Google!Row, NEW old \in Google!Row, NEW a \in Accounts
  PROVE  /\ Google!Committed(old, Google!WithAccount(a)) \in Google!Row
         /\ Google!Committed(old, Google!WithTokens(a)) \in Google!Row
         /\ old["type"] = g_row["type"] =>
              /\ Google!Committed(old, Google!WithAccount(a))["type"] = "oauth"
              /\ Google!Committed(old, Google!WithTokens(a))["type"] = "oauth"
<1>1. /\ Google!WithAccount(a) = [type |-> "oauth", tokens |-> a, email |-> a]
      /\ Google!WithTokens(a) = [type |-> "oauth", tokens |-> a]
  BY DEF Google!WithAccount, Google!WithTokens
<1> DEFINE w == Google!WithAccount(a)
           x == Google!WithTokens(a)
<1>2. /\ DOMAIN w = {"type", "tokens", "email"} /\ w["type"] = "oauth"
      /\ w["tokens"] = a /\ w["email"] = a
      /\ DOMAIN x = {"type", "tokens"} /\ x["type"] = "oauth" /\ x["tokens"] = a
  BY <1>1
<1> HIDE DEF w, x
<1>3. Google!Committed(old, w) \in Google!Row
  BY <1>2, CommittedRow
<1>4. Google!Committed(old, x) \in Google!Row
  BY <1>2, CommittedRow
<1>5. /\ Google!Committed(old, w)["type"] = IF w["type"] # old["type"] THEN w["type"] ELSE g_row["type"]
      /\ Google!Committed(old, x)["type"] = IF x["type"] # old["type"] THEN x["type"] ELSE g_row["type"]
  BY <1>2, CommittedColumns
<1> QED
  BY <1>2, <1>3, <1>4, <1>5 DEF w, x

LEMMA ProjectRow ==
  ASSUME g_row \in Google!Row, NEW old \in Google!Row, NEW e \in Accounts \cup {Google!None}
  PROVE  LET new == [project |-> TRUE, email |-> e]
             now == Google!Committed(old, new)
         IN  \A v \in {now, [now EXCEPT !.project = TRUE]} :
               v \in Google!Row /\ v["type"] = g_row["type"]
<1> DEFINE w == [project |-> TRUE, email |-> e]
           now == Google!Committed(old, w)
           v == [now EXCEPT !.project = TRUE]
<1>1. DOMAIN w = {"project", "email"} /\ w["project"] = TRUE /\ w["email"] = e
  OBVIOUS
<1> HIDE DEF w
<1>2. Google!Committed(old, w) \in Google!Row
  BY <1>1, CommittedRow
<1>3. Google!Committed(old, w)["type"] = g_row["type"]
  BY <1>1, CommittedColumns
<1> HIDE DEF now
<1>4. v \in Google!Row /\ v["type"] = now["type"]
  BY <1>2 DEF Google!Row, now
<1> HIDE DEF v
<1> QED
  BY <1>2, <1>3, <1>4 DEF w, now, v

LEMMA ClearedRow ==
  ASSUME g_row \in Google!Row, NEW old \in Google!Row
  PROVE  /\ Google!Committed(old, Google!Cleared) \in Google!Row
         /\ (\A c \in {"type", "tokens", "key", "email", "project"} : old[c] = g_row[c]) =>
              /\ Google!Committed(old, Google!Cleared)["tokens"] = Google!None
              /\ Google!Committed(old, Google!Cleared)["key"] = FALSE
              /\ Google!Committed(old, Google!Cleared)["email"] = Google!None
<1> DEFINE w == Google!Cleared
<1>1. /\ DOMAIN w = {"type", "tokens", "key", "email", "project"} /\ w["type"] = Google!None
      /\ w["tokens"] = Google!None /\ w["key"] = FALSE /\ w["email"] = Google!None
      /\ w["project"] = FALSE
  BY DEF Google!Cleared
<1> HIDE DEF w
<1>2. Google!Committed(old, w) \in Google!Row
  BY <1>1, CommittedRow
<1>3. \A c \in {"tokens", "key", "email"} :
        old[c] = g_row[c] => Google!Committed(old, w)[c] = w[c]
  BY <1>1, CommittedColumns
<1> QED
  BY <1>1, <1>2, <1>3 DEF w

LEMMA LoadedColumns ==
  ASSUME g_row \in Google!Row
  PROVE  /\ Google!Loaded \in Google!Row
         /\ \A c \in {"type", "tokens", "key", "email", "project"} : Google!Loaded[c] = g_row[c]
BY DEF Google!Loaded, Google!Row

(* A request that loads the row.                                           *)
LEMMA LoadingRequest ==
  ASSUME CredentialTypes, NEW op \in CredentialOps, NEW f \in Nat, NEW b \in Identities
  PROVE  LET r == [op |-> op, loaded |-> Google!Loaded, flow |-> f, by |-> b]
         IN  r \in CredentialRequest /\ Fresh(r)
<1>1. /\ Google!Loaded \in Google!Row
      /\ \A c \in {"type", "tokens", "key", "email", "project"} : Google!Loaded[c] = g_row[c]
  BY LoadedColumns DEF CredentialTypes
<1> QED
  BY <1>1 DEF CredentialRequest, Fresh

(* The records of the requests, written out.                               *)
LEMMA RequestRecord ==
  ASSUME NEW op, NEW x, NEW f
  PROVE  /\ [Google!NoRequest EXCEPT !.op = op, !.loaded = x]
              = [op |-> op, loaded |-> x, flow |-> 0, by |-> Google!None]
         /\ [Google!NoRequest EXCEPT !.op = op, !.loaded = x, !.flow = f]
              = [op |-> op, loaded |-> x, flow |-> f, by |-> Google!None]
<1> DEFINE i == [op |-> "idle", loaded |-> Google!Empty, flow |-> 0, by |-> Google!None]
           j == [op |-> op, loaded |-> Google!Empty, flow |-> 0, by |-> Google!None]
           k == [op |-> op, loaded |-> x, flow |-> 0, by |-> Google!None]
<1>1. Google!NoRequest = i
  BY DEF Google!NoRequest
<1>2. [i EXCEPT !.op = op] = j
  OBVIOUS
<1>3. [j EXCEPT !.loaded = x] = k
  OBVIOUS
<1>4. [k EXCEPT !.flow = f] = [op |-> op, loaded |-> x, flow |-> f, by |-> Google!None]
  OBVIOUS
<1> HIDE DEF i, j
<1> QED
  BY <1>1, <1>2, <1>3, <1>4

LEMMA GrantingRecord ==
  ASSUME NEW x, NEW b
  PROVE  [Google!NoRequest EXCEPT !.op = "project", !.loaded = x, !.by = b]
         = [op |-> "project", loaded |-> x, flow |-> 0, by |-> b]
<1> DEFINE k == [op |-> "project", loaded |-> x, flow |-> 0, by |-> Google!None]
<1>1. [k EXCEPT !.by = b] = [op |-> "project", loaded |-> x, flow |-> 0, by |-> b]
  OBVIOUS
<1>2. [Google!NoRequest EXCEPT !.op = "project", !.loaded = x] = k
  BY RequestRecord
<1> QED
  BY <1>1, <1>2

LEMMA ConsentBegins ==
  ASSUME CredentialsInv, NEW t \in Threads, NEW s \in 1..g_flows, Google!CallbackVerify(t, s)
  PROVE  CredentialsInv'
<1> DEFINE r == [op |-> "verified", loaded |-> Google!Loaded, flow |-> s, by |-> Google!None]
<1>1. CredentialTypes /\ s \in Nat
  BY DEF CredentialsInv, CredentialTypes
<1>2. r = [Google!NoRequest EXCEPT !.op = "verified", !.loaded = Google!Loaded, !.flow = s]
  BY RequestRecord
<1>3. r \in CredentialRequest /\ Fresh(r)
  BY <1>1, LoadingRequest DEF CredentialOps, Identities
<1>4. r.op # "project"
  OBVIOUS
<1> HIDE DEF r
<1>5. Google!Begin(t, r) /\ UNCHANGED <<g_row, g_flows, g_ee>>
  BY <1>2 DEF Google!CallbackVerify
<1> QED
  BY <1>3, <1>4, <1>5, CredentialsBegin

LEMMA ProjectBegins ==
  ASSUME CredentialsInv, NEW t \in Threads, Google!GrantBucketWrite(t)
  PROVE  CredentialsInv'
<1>1. CredentialTypes /\ g_row.type = "oauth" /\ g_row.tokens \in Accounts \cup {Google!None}
  BY DEF CredentialsInv, CredentialTypes, Google!Row, Google!GrantBucketWrite
<1>2. PICK b \in Accounts \cup {Google!None} :
        Google!Begin(t, [op |-> "project", loaded |-> Google!Loaded, flow |-> 0, by |-> b])
  <2>1. [Google!NoRequest EXCEPT !.op = "project", !.loaded = Google!Loaded]
          = [op |-> "project", loaded |-> Google!Loaded, flow |-> 0, by |-> Google!None]
    BY RequestRecord
  <2>2. [Google!NoRequest EXCEPT !.op = "project", !.loaded = Google!Loaded, !.by = g_row.tokens]
          = [op |-> "project", loaded |-> Google!Loaded, flow |-> 0, by |-> g_row.tokens]
    BY GrantingRecord
  <2> QED
    BY <1>1, <2>1, <2>2 DEF Google!GrantBucketWrite
<1> DEFINE r == [op |-> "project", loaded |-> Google!Loaded, flow |-> 0, by |-> b]
<1>3. b \in Identities /\ 0 \in Nat /\ "project" \in CredentialOps
  BY DEF Identities, CredentialOps
<1>4. r \in CredentialRequest /\ Fresh(r)
  BY <1>1, <1>3, LoadingRequest
<1>5. r.loaded.type = "oauth" /\ r.by \in Accounts \cup {Google!None}
  BY <1>1, LoadedColumns DEF CredentialTypes
<1> HIDE DEF r
<1>6. Google!Begin(t, r) /\ UNCHANGED <<g_row, g_flows, g_ee>>
  BY <1>2 DEF r, Google!GrantBucketWrite
<1> QED
  BY <1>4, <1>5, <1>6, CredentialsBegin

LEMMA DeleteOrTestBegins ==
  ASSUME CredentialsInv, NEW t \in Threads, Google!RevokeBucketWrite(t) \/ Google!TestCredentials(t)
  PROVE  CredentialsInv'
<1>1. PICK op \in {"delete", "test"} :
        Google!Begin(t, [op |-> op, loaded |-> Google!Loaded, flow |-> 0, by |-> Google!None])
  <2>1. [Google!NoRequest EXCEPT !.op = "delete", !.loaded = Google!Loaded]
          = [op |-> "delete", loaded |-> Google!Loaded, flow |-> 0, by |-> Google!None]
    BY RequestRecord
  <2>2. [Google!NoRequest EXCEPT !.op = "test", !.loaded = Google!Loaded]
          = [op |-> "test", loaded |-> Google!Loaded, flow |-> 0, by |-> Google!None]
    BY RequestRecord
  <2> QED
    BY <2>1, <2>2 DEF Google!RevokeBucketWrite, Google!TestCredentials
<1> DEFINE r == [op |-> op, loaded |-> Google!Loaded, flow |-> 0, by |-> Google!None]
<1>2. CredentialTypes /\ op \in CredentialOps /\ Google!None \in Identities /\ 0 \in Nat
  BY DEF CredentialsInv, CredentialOps, Identities
<1>3. r \in CredentialRequest /\ Fresh(r)
  BY <1>2, LoadingRequest
<1>4. r.op # "project"
  OBVIOUS
<1> HIDE DEF r
<1>5. Google!Begin(t, r) /\ UNCHANGED <<g_row, g_flows, g_ee>>
  BY <1>1 DEF r, Google!RevokeBucketWrite, Google!TestCredentials
<1> QED
  BY <1>3, <1>4, <1>5, CredentialsBegin

(* The answer to a check.                                                  *)
LEMMA AnswerRequest ==
  ASSUME NEW b \in Identities
  PROVE  LET r == [Google!NoRequest EXCEPT !.op = "valid", !.by = b]
         IN  r \in CredentialRequest /\ r.op = "valid" /\ Fresh(r)
BY NoCredentialRequest DEF Google!NoRequest, CredentialRequest, CredentialOps, Fresh

LEMMA OpenEOChecked ==
  ASSUME CredentialsInv, NEW t \in Threads, Google!CheckOpenEO(t)
  PROVE  CredentialsInv'
<1>1. PICK b \in Google!Connected :
        Google!Begin(t, [Google!NoRequest EXCEPT !.op = "valid", !.by = b])
  BY DEF Google!CheckOpenEO
<1> DEFINE r == [Google!NoRequest EXCEPT !.op = "valid", !.by = b]
<1>2. b \in Identities
  BY DEF Google!Connected, Identities
<1>3. r \in CredentialRequest /\ r.op = "valid" /\ Fresh(r)
  BY <1>2, AnswerRequest
<1> HIDE DEF r
<1>4. Google!Begin(t, r) /\ UNCHANGED <<g_row, g_flows, g_ee>>
  BY <1>1 DEF r, Google!CheckOpenEO
<1> QED
  BY <1>3, <1>4, CredentialsBegin

(* A request that is over, or was never there.                             *)
LEMMA RequestIsThere ==
  ASSUME NEW t \in Threads, g_request[t].op # "idle"
  PROVE  g_request[t] # Google!NoRequest
BY NoCredentialRequest

LEMMA ConsumeKeeps ==
  ASSUME CredentialsInv, NEW t \in Threads, Google!CallbackConsume(t)
  PROVE  CredentialsInv'
<1>1. PICK r : r = [g_request[t] EXCEPT !.op = "exchange"]
  OBVIOUS
<1>2. /\ CredentialTypes /\ g_request[t].op = "verified" /\ g_request[t] \in CredentialRequest
      /\ Google!Then(t, r) /\ UNCHANGED <<g_row, g_flows, g_ee, g_mixed>>
  BY <1>1 DEF CredentialsInv, CredentialTypes, Google!CallbackConsume
<1>3. r \in CredentialRequest /\ r.op = "exchange" /\ r.loaded = g_request[t].loaded
  BY <1>1, <1>2 DEF CredentialRequest, CredentialOps
<1>4. g_request[t] # Google!NoRequest
  BY <1>2, RequestIsThere
<1>5. ASSUME ~g_mixed PROVE Google!ErasedWhenDeleted' /\ Fresh(r)'
  <2>1. Google!ErasedWhenDeleted /\ Fresh(g_request[t])
    BY <1>5 DEF CredentialsInv, ErasedInv
  <2> QED
    BY <1>2, <1>3, <2>1 DEF Fresh, Google!ErasedWhenDeleted
<1>6. g_row' \in Google!Row /\ g_ee' \in [Threads -> {Google!None, "own", "default", "other"}]
  BY <1>2 DEF CredentialTypes
<1>7. g_row' = g_row /\ g_flows' = g_flows /\ g_mixed' = g_mixed /\ r.op # "project"
  BY <1>2, <1>3
<1> QED
  BY <1>2, <1>3, <1>4, <1>5, <1>6, <1>7, CredentialsGoOn

(* A request is done, and what it stored erases all or nothing.            *)
LEMMA RequestDone ==
  ASSUME CredentialsInv, NEW t \in Threads, Google!Done(t), g_request[t] # Google!NoRequest,
         UNCHANGED <<g_flows, g_mixed>>, g_row' \in Google!Row,
         g_ee' \in [Threads -> {Google!None, "own", "default", "other"}],
         ~g_mixed => Google!ErasedWhenDeleted'
  PROVE  CredentialsInv'
<1>1. /\ Google!NoRequest \in CredentialRequest /\ Google!NoRequest.op = "idle"
      /\ Google!Then(t, Google!NoRequest)
  BY NoCredentialRequest DEF Google!Done
<1>2. Fresh(Google!NoRequest)'
  BY <1>1 DEF Fresh, Google!NoRequest
<1> QED
  BY <1>1, <1>2, CredentialsGoOn

LEMMA StoreKeeps ==
  ASSUME CredentialsInv, NEW t \in Threads, Google!CallbackStore(t)
  PROVE  CredentialsInv'
<1> DEFINE old == g_request[t].loaded
<1>1. /\ CredentialTypes /\ g_request[t].op = "exchange" /\ Google!Done(t)
      /\ old \in Google!Row /\ g_row \in Google!Row
      /\ UNCHANGED <<g_flows, g_ee, g_mixed>>
  BY DEF CredentialsInv, CredentialTypes, CredentialRequest, Google!CallbackStore
<1>2. \/ \E a \in Accounts : \/ g_row' = Google!Committed(old, Google!WithAccount(a))
                             \/ g_row' = Google!Committed(old, Google!WithTokens(a))
      \/ UNCHANGED g_row
  BY DEF Google!CallbackStore
<1>3. g_request[t] # Google!NoRequest
  BY <1>1, RequestIsThere
<1>4. ASSUME ~g_mixed PROVE Google!ErasedWhenDeleted /\ old["type"] = g_row["type"]
  BY <1>1, <1>4 DEF CredentialsInv, ErasedInv, Fresh
<1> HIDE DEF old
<1>5. g_row' \in Google!Row
  BY <1>1, <1>2, StoredRow
<1>6. ASSUME ~g_mixed PROVE UNCHANGED g_row \/ g_row'["type"] = "oauth"
  BY <1>1, <1>2, <1>4, <1>6, StoredRow
<1>7. ASSUME ~g_mixed PROVE Google!ErasedWhenDeleted'
  <2>1. "oauth" # Google!None
    BY DEF Google!None
  <2> QED
    BY <1>1, <1>4, <1>6, <1>7, <2>1 DEF Google!ErasedWhenDeleted
<1>8. g_ee' \in [Threads -> {Google!None, "own", "default", "other"}]
  BY <1>1 DEF CredentialTypes
<1> QED
  BY <1>1, <1>3, <1>5, <1>7, <1>8, RequestDone

LEMMA ProjectKeeps ==
  ASSUME CredentialsInv, NEW t \in Threads, Google!SetCloudProject(t)
  PROVE  CredentialsInv'
<1> DEFINE r == g_request[t]
           e == IF r.by = Google!None THEN r.loaded.email ELSE r.by
<1>1. /\ CredentialTypes /\ r.op = "project" /\ Google!Done(t)
      /\ r \in CredentialRequest /\ g_row \in Google!Row
      /\ r.loaded.type = "oauth" /\ r.by \in Accounts \cup {Google!None}
      /\ UNCHANGED <<g_flows, g_ee, g_mixed>>
      /\ LET now == Google!Committed(r.loaded, [project |-> TRUE, email |-> e])
         IN  g_row' \in {now, [now EXCEPT !.project = TRUE]}
  BY DEF CredentialsInv, CredentialTypes, Google!SetCloudProject
<1>2. r.loaded \in Google!Row /\ e \in Accounts \cup {Google!None}
  BY <1>1 DEF CredentialRequest, Google!Row
<1>3. g_row' \in Google!Row /\ g_row'["type"] = g_row["type"]
  <2> HIDE DEF r, e
  <2>1. LET now == Google!Committed(r.loaded, [project |-> TRUE, email |-> e])
        IN  \A v \in {now, [now EXCEPT !.project = TRUE]} :
              v \in Google!Row /\ v["type"] = g_row["type"]
    BY <1>1, <1>2, ProjectRow
  <2> QED
    BY <1>1, <2>1
<1>4. r # Google!NoRequest
  BY <1>1, RequestIsThere
<1>5. ASSUME ~g_mixed PROVE Google!ErasedWhenDeleted'
  <2>1. g_row["type"] = "oauth" /\ "oauth" # Google!None
    BY <1>1, <1>5 DEF CredentialsInv, ErasedInv, Fresh, Google!None
  <2> QED
    BY <1>3, <2>1 DEF Google!ErasedWhenDeleted
<1>6. g_ee' \in [Threads -> {Google!None, "own", "default", "other"}]
  BY <1>1 DEF CredentialTypes
<1> QED
  BY <1>1, <1>3, <1>4, <1>5, <1>6, RequestDone

LEMMA ClearKeeps ==
  ASSUME CredentialsInv, NEW t \in Threads, Google!ClearCredentials(t)
  PROVE  CredentialsInv'
<1> DEFINE old == g_request[t].loaded
<1>1. /\ CredentialTypes /\ g_request[t].op = "delete" /\ Google!Done(t)
      /\ old \in Google!Row /\ g_row \in Google!Row
      /\ UNCHANGED <<g_flows, g_ee, g_mixed>>
      /\ g_row' = Google!Committed(old, Google!Cleared)
  BY DEF CredentialsInv, CredentialTypes, CredentialRequest, Google!ClearCredentials
<1>2. g_request[t] # Google!NoRequest
  BY <1>1, RequestIsThere
<1>3. ASSUME ~g_mixed
      PROVE  \A c \in {"type", "tokens", "key", "email", "project"} : old[c] = g_row[c]
  BY <1>1, <1>3 DEF CredentialsInv, ErasedInv, Fresh
<1> HIDE DEF old
<1>4. g_row' \in Google!Row
  BY <1>1, ClearedRow
<1>5. ASSUME ~g_mixed PROVE Google!ErasedWhenDeleted'
  BY <1>1, <1>3, <1>5, ClearedRow DEF Google!ErasedWhenDeleted
<1>6. g_ee' \in [Threads -> {Google!None, "own", "default", "other"}]
  BY <1>1 DEF CredentialTypes
<1> QED
  BY <1>1, <1>2, <1>4, <1>5, <1>6, RequestDone

(* A check answers, or goes back to the default of the process.            *)
LEMMA CheckKeeps ==
  ASSUME CredentialsInv, NEW t \in Threads,
         \/ Google!AlreadyInitialized(t) \/ Google!InitializeWithOAuth(t)
         \/ Google!InitializeWithServiceAccount(t)
         \/ Google!InitializeWithDefault(t) /\ ~Google!Done(t)
  PROVE  CredentialsInv'
<1> DEFINE old == g_request[t].loaded
<1>1. /\ CredentialTypes /\ g_request[t].op = "test"
      /\ old \in Google!Row /\ g_row \in Google!Row
      /\ UNCHANGED <<g_flows, g_mixed>>
  BY DEF CredentialsInv, CredentialTypes, CredentialRequest, Google!AlreadyInitialized,
         Google!InitializeWithOAuth, Google!InitializeWithServiceAccount,
         Google!InitializeWithDefault
<1>2. PICK b \in {"own", "default", g_ee[t]} : Google!Answer(t, b)
  BY DEF Google!AlreadyInitialized, Google!InitializeWithOAuth,
         Google!InitializeWithServiceAccount, Google!InitializeWithDefault
<1>3. PICK r : r = [Google!NoRequest EXCEPT !.op = "valid", !.by = b]
  OBVIOUS
<1>4. b \in Identities
  BY <1>1, <1>2 DEF CredentialTypes, Identities
<1>5. r \in CredentialRequest /\ r.op = "valid" /\ Google!Then(t, r)
  BY <1>2, <1>3, <1>4, AnswerRequest DEF Google!Answer
<1>6. g_request[t] # Google!NoRequest
  BY <1>1, RequestIsThere
<1>7. g_ee' \in [Threads -> {Google!None, "own", "default", "other"}]
  BY <1>1 DEF CredentialTypes, Google!AlreadyInitialized, Google!InitializeWithOAuth,
              Google!InitializeWithServiceAccount, Google!InitializeWithDefault
<1>8. \/ UNCHANGED g_row
      \/ /\ old.type = "oauth" /\ old.tokens \in Accounts
         /\ g_row' = Google!Committed(old, Google!WithTokens(old.tokens))
  <2>1. old.tokens # Google!None => old.tokens \in Accounts
    BY <1>1 DEF Google!Row
  <2> QED
    BY <2>1 DEF Google!AlreadyInitialized, Google!InitializeWithOAuth,
                Google!InitializeWithServiceAccount, Google!InitializeWithDefault
<1>9. ASSUME ~g_mixed PROVE Google!ErasedWhenDeleted /\ old["type"] = g_row["type"]
  BY <1>1, <1>9 DEF CredentialsInv, ErasedInv, Fresh
<1> HIDE DEF old
<1>10. g_row' \in Google!Row
  BY <1>1, <1>8, StoredRow
<1>11. ASSUME ~g_mixed PROVE Google!ErasedWhenDeleted'
  <2>1. UNCHANGED g_row \/ g_row'["type"] = "oauth"
    BY <1>1, <1>8, <1>9, <1>11, StoredRow
  <2>2. "oauth" # Google!None
    BY DEF Google!None
  <2> QED
    BY <1>1, <1>9, <1>11, <2>1, <2>2 DEF Google!ErasedWhenDeleted
<1>12. Fresh(r)' /\ r.op # "project"
  BY <1>5 DEF Fresh
<1> QED
  BY <1>1, <1>5, <1>6, <1>7, <1>10, <1>11, <1>12, CredentialsGoOn

(* A request ends without storing anything.                                *)
LEMMA EndKeeps ==
  ASSUME CredentialsInv, NEW t \in Threads,
         \/ Google!Answered(t) \/ Google!RequestFails(t)
         \/ Google!InitializeWithDefault(t) /\ Google!Done(t)
  PROVE  CredentialsInv'
<1>1. /\ CredentialTypes /\ Google!Done(t) /\ UNCHANGED <<g_row, g_flows, g_mixed>>
      /\ g_request[t].op # "idle" \/ g_request[t] # Google!NoRequest
  BY DEF CredentialsInv, Google!Answered, Google!RequestFails, Google!InitializeWithDefault
<1>2. g_request[t] # Google!NoRequest
  BY <1>1, RequestIsThere
<1>3. g_ee' \in [Threads -> {Google!None, "own", "default", "other"}]
  BY <1>1 DEF CredentialTypes, Google!Answered, Google!RequestFails, Google!InitializeWithDefault
<1>4. g_row' \in Google!Row
  BY <1>1 DEF CredentialTypes
<1>5. ASSUME ~g_mixed PROVE Google!ErasedWhenDeleted'
  BY <1>1, <1>5 DEF CredentialsInv, ErasedInv, Google!ErasedWhenDeleted
<1> QED
  BY <1>1, <1>2, <1>3, <1>4, <1>5, RequestDone

(* What is done in one step: the requests stay, and if there are any, the  *)
(* columns they loaded stay too, or they overlapped.                       *)
LEMMA AtOnceKeeps ==
  ASSUME CredentialsInv, UNCHANGED g_request, g_row' \in Google!Row, g_flows' \in Nat,
         g_mixed' \in BOOLEAN, g_ee' \in [Threads -> {Google!None, "own", "default", "other"}],
         g_mixed => g_mixed', ~g_mixed' => Google!ErasedWhenDeleted',
         \/ \A c \in {"type", "tokens", "key", "email", "project"} : g_row'[c] = g_row[c]
         \/ g_mixed' \/ \A u \in Threads : g_request[u] = Google!NoRequest
  PROVE  CredentialsInv'
<1>1. CredentialTypes'
  BY DEF CredentialsInv, CredentialTypes
<1>2. ErasedInv'
  <2> SUFFICES ASSUME ~g_mixed'
               PROVE  /\ Google!ErasedWhenDeleted'
                      /\ \A u, v \in Threads :
                           g_request[u] # Google!NoRequest /\ g_request[v] # Google!NoRequest => u = v
                      /\ \A u \in Threads : Fresh(g_request[u])'
    BY DEF ErasedInv
  <2>1. ErasedInv /\ ~g_mixed
    BY DEF CredentialsInv
  <2>2. ASSUME NEW u \in Threads PROVE Fresh(g_request[u])'
    BY <2>1, NoCredentialRequest DEF ErasedInv, Fresh
  <2> QED
    BY <2>1, <2>2 DEF ErasedInv
<1> QED
  BY <1>1, <1>2 DEF CredentialsInv

LEMMA UploadKeeps ==
  ASSUME CredentialsInv, Google!UploadServiceAccount
  PROVE  CredentialsInv'
<1>1. /\ CredentialTypes /\ g_row \in Google!Row /\ g_mixed \in BOOLEAN
      /\ g_row' = [g_row EXCEPT !.key = TRUE, !.type = "service_account"]
      /\ g_mixed' = (g_mixed \/ \E u \in Threads : g_request[u] # Google!NoRequest)
      /\ UNCHANGED <<g_flows, g_ee, g_request>>
  BY DEF CredentialsInv, CredentialTypes, Google!UploadServiceAccount, Google!Overlap
<1>2. PICK middle : middle = [g_row EXCEPT !.key = TRUE]
  OBVIOUS
<1>3. middle \in Google!Row
  BY <1>1, <1>2 DEF Google!Row
<1>4. g_row' = [middle EXCEPT !.type = "service_account"]
  BY <1>1, <1>2, Zenon
<1>5. g_row' \in Google!Row /\ g_row'.type = "service_account"
  BY <1>3, <1>4 DEF Google!Row
<1>6. Google!ErasedWhenDeleted'
  BY <1>5 DEF Google!ErasedWhenDeleted, Google!None
<1>7. /\ g_mixed' \in BOOLEAN /\ (g_mixed => g_mixed')
      /\ g_mixed' \/ \A u \in Threads : g_request[u] = Google!NoRequest
  BY <1>1
<1>8. g_flows' \in Nat /\ g_ee' \in [Threads -> {Google!None, "own", "default", "other"}]
  BY <1>1 DEF CredentialTypes
<1> QED
  BY <1>1, <1>5, <1>6, <1>7, <1>8, AtOnceKeeps

LEMMA OthersKeep ==
  ASSUME CredentialsInv,
         \/ Google!InitiateOAuth \/ Google!StateExpires \/ Google!SetOpenEO \/ Google!DeleteOpenEO
         \/ \E t \in Threads : Google!ClientChanges(t)
  PROVE  CredentialsInv'
<1>1. CredentialTypes
  BY DEF CredentialsInv
<1>2. /\ g_row' = g_row \/ \E b \in BOOLEAN : g_row' = [g_row EXCEPT !.openeo = b]
      /\ UNCHANGED <<g_request, g_mixed>> /\ g_flows' \in {g_flows, g_flows + 1}
  BY DEF Google!InitiateOAuth, Google!StateExpires, Google!SetOpenEO, Google!DeleteOpenEO,
         Google!ClientChanges
<1>3. g_ee' \in [Threads -> {Google!None, "own", "default", "other"}]
  BY <1>1 DEF CredentialTypes, Google!InitiateOAuth, Google!StateExpires, Google!SetOpenEO,
              Google!DeleteOpenEO, Google!ClientChanges
<1>4. /\ g_row' \in Google!Row
      /\ \A c \in {"type", "tokens", "key", "email", "project"} : g_row'[c] = g_row[c]
  BY <1>1, <1>2 DEF CredentialTypes, Google!Row
<1>5. ~g_mixed' => Google!ErasedWhenDeleted'
  BY <1>2, <1>4 DEF CredentialsInv, ErasedInv, Google!ErasedWhenDeleted
<1>6. g_flows' \in Nat /\ g_mixed' \in BOOLEAN /\ (g_mixed => g_mixed')
  BY <1>1, <1>2 DEF CredentialTypes
<1> QED
  BY <1>2, <1>3, <1>4, <1>5, <1>6, AtOnceKeeps

LEMMA CredentialsStart == AllInit => CredentialsInv
<1> SUFFICES ASSUME AllInit PROVE CredentialsInv
  OBVIOUS
<1>1. /\ g_row = Google!Empty /\ g_flows = 0 /\ g_mixed = FALSE
      /\ g_ee = [t \in Threads |-> Google!None]
      /\ g_request = [t \in Threads |-> Google!NoRequest]
  BY DEF AllInit, Google!Init
<1>2. CredentialTypes
  BY <1>1, NoCredentialRequest DEF CredentialTypes
<1>3. Google!ErasedWhenDeleted
  BY <1>1 DEF Google!ErasedWhenDeleted, Google!Empty
<1>4. \A t \in Threads : Fresh(g_request[t])
  BY <1>1, NoCredentialRequest DEF Fresh
<1> QED
  BY <1>1, <1>2, <1>3, <1>4 DEF CredentialsInv, ErasedInv

LEMMA CredentialsStep ==
  ASSUME CredentialsInv, [Google!Next]_credentialsVars
  PROVE  CredentialsInv'
<1>1. CASE UNCHANGED credentialsVars
  BY <1>1 DEF credentialsVars, CredentialsInv, CredentialTypes, ErasedInv, Fresh,
              Google!ErasedWhenDeleted
<1>2. CASE Google!UploadServiceAccount \/ Google!UploadServiceAccountAdmin
  BY <1>2, UploadKeeps DEF Google!UploadServiceAccountAdmin
<1>3. CASE \/ Google!InitiateOAuth \/ Google!StateExpires \/ Google!SetOpenEO \/ Google!DeleteOpenEO
           \/ \E t \in Threads : Google!ClientChanges(t)
  BY <1>3, OthersKeep
<1>4. ASSUME NEW t \in Threads, NEW s \in 1..g_flows,
             Google!CallbackVerify(t, s) \/ Google!CallbackAnonymous(t, s)
      PROVE  CredentialsInv'
  BY <1>4, ConsentBegins DEF Google!CallbackAnonymous
<1>5. ASSUME NEW t \in Threads,
             \/ Google!RevokeBucketWrite(t) \/ Google!DeleteByAdmin(t)
             \/ Google!TestCredentials(t) \/ Google!TestByAdmin(t)
      PROVE  CredentialsInv'
  BY <1>5, DeleteOrTestBegins DEF Google!DeleteByAdmin, Google!TestByAdmin
<1>6. ASSUME NEW t \in Threads, Google!InitializeWithDefault(t)
      PROVE  CredentialsInv'
  BY <1>6, CheckKeeps, EndKeeps
<1> QED
  BY <1>1, <1>2, <1>3, <1>4, <1>5, <1>6, ConsumeKeeps, StoreKeeps, ProjectBegins, ProjectKeeps,
     ClearKeeps, CheckKeeps, EndKeeps, OpenEOChecked DEF Google!Next

(* A user without credentials has none in the row, as long as no two       *)
(* requests overlapped, however often accounts and keys were replaced.     *)
THEOREM CredentialsErased == AllSpec => []ErasedWhenDeleted
<1>1. CredentialsInv => ErasedWhenDeleted
  BY DEF CredentialsInv, ErasedInv, ErasedWhenDeleted, Google!ErasedWhenDeleted
<1>2. CredentialsInv /\ [AllNext]_allVars => CredentialsInv'
  BY CredentialsMove, CredentialsStep
<1> QED
  BY <1>1, <1>2, CredentialsStart, PTL DEF AllSpec

-----------------------------------------------------------------------------
(* The types of all parts                                                  *)

(* Lifetimes, which the blocklist's own invariant does not bound.          *)
LifeInv ==
  /\ t_redis \in BOOLEAN /\ t_client \in [Threads -> BOOLEAN]
  /\ t_throttled \in [Threads -> BOOLEAN]
  /\ \A k \in Jtis : t_left[k] <= Life /\ t_entry[k] <= Life + Buffer

LEMMA StorageTypes ==
  ASSUME LifeInv, NEW p \in Threads, NEW b \in BOOLEAN,
         Blocklist!Storage(p) \/ Blocklist!NoStorage(p), Blocklist!SetClient(p, b)
  PROVE  t_client' \in [Threads -> BOOLEAN] /\ t_throttled' \in [Threads -> BOOLEAN]
<1>1. t_client' \in [Threads -> BOOLEAN]
  BY DEF LifeInv, Blocklist!SetClient
<1>2. t_throttled' \in [Threads -> BOOLEAN]
  BY DEF LifeInv, Blocklist!Storage, Blocklist!NoStorage
<1> QED
  BY <1>1, <1>2

LEMMA LifeBlock ==
  ASSUME BlockInv, LifeInv, NEW p \in Threads, Blocklist!Block(p)
  PROVE  LifeInv'
<1> DEFINE k == t_leaving[p]
<1>1. /\ Blocklist!Storage(p) /\ Blocklist!SetClient(p, TRUE)
      /\ k # Blocklist!None /\ UNCHANGED <<t_redis, t_left>>
  BY DEF Blocklist!Block
<1>2. PICK ttl \in Blocklist!Ttl(k) :
        t_entry' = [t_entry EXCEPT ![k] = IF t_left[k] = 0 THEN 0 ELSE ttl]
  BY DEF Blocklist!Block
<1>3. /\ k \in Jtis /\ t_left[k] \in Nat /\ t_left[k] <= Life
      /\ t_entry \in [Jtis -> Nat] /\ Life \in Nat /\ Buffer \in Nat
  BY <1>1, ServicesAssumption DEF BlockInv, LifeInv
<1> HIDE DEF k
<1>4. ttl \in Int /\ ttl <= Life + Buffer
  BY <1>3 DEF Blocklist!Ttl
<1>5. \A j \in Jtis : t_entry'[j] <= Life + Buffer
  BY <1>2, <1>3, <1>4 DEF LifeInv
<1> QED
  BY <1>1, <1>5, StorageTypes DEF LifeInv

LEMMA LifeStep ==
  ASSUME BlockInv, LifeInv, [Blocklist!Next]_blocklistVars
  PROVE  LifeInv'
<1>1. CASE UNCHANGED blocklistVars
  BY <1>1 DEF blocklistVars, LifeInv
<1>2. CASE Blocklist!RedisStops \/ Blocklist!RedisStarts
  BY <1>2 DEF Blocklist!RedisStops, Blocklist!RedisStarts, LifeInv
<1>3. ASSUME NEW p \in Threads, NEW k \in Jtis,
             \/ Blocklist!Accept(p, k) \/ Blocklist!Reject(p, k) \/ Blocklist!FailClosed(p, k)
             \/ Blocklist!BlockFails(p)
      PROVE  LifeInv'
  <2>1. /\ UNCHANGED <<t_redis, t_left, t_entry>>
        /\ Blocklist!Storage(p) \/ Blocklist!NoStorage(p)
        /\ Blocklist!SetClient(p, TRUE) \/ Blocklist!SetClient(p, FALSE)
    BY <1>3 DEF Blocklist!Accept, Blocklist!Reject, Blocklist!FailClosed, Blocklist!BlockFails
  <2>2. t_client' \in [Threads -> BOOLEAN] /\ t_throttled' \in [Threads -> BOOLEAN]
    BY <2>1, StorageTypes
  <2> QED
    BY <2>1, <2>2 DEF LifeInv
<1>4. ASSUME NEW p \in Threads, Blocklist!BlockFails(p)
      PROVE  LifeInv'
  <2>1. t_leaving[p] \in Jtis
    BY <1>4 DEF Blocklist!BlockFails, BlockInv
  <2> QED
    BY <1>3, <1>4, <2>1
<1>5. ASSUME NEW p \in Threads, Blocklist!RetryDue(p)
      PROVE  LifeInv'
  BY <1>5 DEF Blocklist!RetryDue, LifeInv
<1>6. ASSUME NEW k \in Jtis, Blocklist!Login(k)
      PROVE  LifeInv'
  <2>1. \A j \in Jtis : t_left'[j] <= Life /\ t_entry'[j] <= Life + Buffer
    BY <1>6, ServicesAssumption DEF Blocklist!Login, LifeInv, BlockInv
  <2> QED
    BY <1>6, <2>1 DEF Blocklist!Login, LifeInv
<1>7. CASE Blocklist!Tick
  <2>1. \A j \in Jtis : t_left'[j] <= Life /\ t_entry'[j] <= Life + Buffer
    BY <1>7, ServicesAssumption DEF Blocklist!Tick, LifeInv, BlockInv
  <2> QED
    BY <1>7, <2>1 DEF Blocklist!Tick, LifeInv
<1> QED
  BY <1>1, <1>2, <1>3, <1>4, <1>5, <1>6, <1>7, LifeBlock DEF Blocklist!Next

(* A request that is not under way has no columns to write.                *)
RestInv ==
  \A t \in Threads :
    /\ a_request[t].busy \in BOOLEAN
    /\ ~a_request[t].busy => a_request[t].writes = << >>

LEMMA RestStep ==
  ASSUME AccessInv, RestInv, [Access!Next]_accessVars
  PROVE  RestInv'
<1>1. CASE UNCHANGED accessVars
  BY <1>1 DEF accessVars, RestInv
<1>2. ASSUME NEW t \in Threads, NEW r, a_request' = [a_request EXCEPT ![t] = r],
             r.busy \/ r = Access!NoRequest, r.busy \in BOOLEAN
      PROVE  RestInv'
  <2>1. a_request = [u \in Threads |-> a_request[u]]
    BY DEF AccessInv, AccessTypes
  <2>2. a_request'[t] = r /\ \A u \in Threads : u # t => a_request'[u] = a_request[u]
    BY <1>2, <2>1
  <2>3. ~r.busy => r.writes = << >>
    BY <1>2 DEF Access!NoRequest
  <2> QED
    BY <1>2, <2>2, <2>3 DEF RestInv
<1>3. ASSUME NEW t \in Threads, NEW new, Access!Load(t, new)
      PROVE  RestInv'
  <2> DEFINE r == [busy |-> TRUE, writes |-> [c \in {c \in DOMAIN a_row : new[c] # a_row[c]} |-> new[c]]]
  <2>1. a_request' = [a_request EXCEPT ![t] = r] /\ r.busy = TRUE
    BY <1>3 DEF Access!Load
  <2> HIDE DEF r
  <2> QED
    BY <1>2, <2>1
<1>4. ASSUME NEW t \in Threads, Access!Commit(t) \/ Access!RequestDies(t)
      PROVE  RestInv'
  BY <1>2, <1>4 DEF Access!Commit, Access!RequestDies, Access!NoRequest
<1> QED
  BY <1>1, <1>3, <1>4
     DEF Access!Next, Access!SetScriptAccessRoles, Access!SetScriptAccessUsers,
         Access!AddScriptAccessUser, Access!RemoveScriptAccessUser,
         Access!AddScriptAccessRole, Access!RemoveScriptAccessRole,
         Access!ClearScriptAccess, Access!PublishScript, Access!UnpublishScript

(* Types that hold however long the task fails, unlike MailInv.            *)
AgesInv ==
  /\ m_subscribed \in BOOLEAN /\ m_age \in [OptOuts -> -1..(Lookback + 1)]
  /\ m_sync \in SyncType /\ m_edit \in EditType
  /\ m_gap \in 0..MaxGap /\ m_sync.at <= m_gap
  /\ m_heard \subseteq OptOuts /\ m_since \subseteq OptOuts

LEMMA AgesStep ==
  ASSUME AgesInv, [Mail!Next]_subscriptionsVars
  PROVE  AgesInv'
<1>1. Lookback \in Nat /\ MaxGap \in Nat /\ 0 \in -1..(Lookback + 1)
  BY ServicesAssumption
<1>2. /\ m_age \in [OptOuts -> -1..(Lookback + 1)] /\ m_gap \in 0..MaxGap
      /\ m_sync \in SyncType /\ m_sync.at \in Nat /\ m_sync.at <= m_gap /\ m_sync.got \subseteq OptOuts
      /\ m_subscribed \in BOOLEAN /\ m_edit \in EditType /\ m_edit.new \in BOOLEAN
      /\ m_heard \subseteq OptOuts /\ m_since \subseteq OptOuts
  BY DEF AgesInv, SyncType, EditType
<1>3. Mail!NoSync \in SyncType /\ Mail!NoSync.at = 0 /\ Mail!NoEdit \in EditType
      /\ Mail!Happened \subseteq OptOuts
  BY DEF Mail!NoSync, Mail!NoEdit, SyncType, EditType, Mail!Happened
<1>4. CASE UNCHANGED subscriptionsVars
  BY <1>4 DEF subscriptionsVars, AgesInv
<1>5. ASSUME NEW e \in OptOuts, Mail!OptOut(e)
      PROVE  AgesInv'
  <2>1. m_age' \in [OptOuts -> -1..(Lookback + 1)]
    BY <1>1, <1>2, <1>5 DEF Mail!OptOut
  <2> QED
    BY <1>5, <2>1 DEF Mail!OptOut, AgesInv
<1>6. CASE Mail!EditRead \/ Mail!UpdatePrefs
  <2>1. m_edit' \in EditType
    <3>1. CASE Mail!EditRead
      <4>1. PICK n \in BOOLEAN : m_edit' = [busy |-> TRUE, seen |-> m_subscribed, new |-> n]
        BY <3>1 DEF Mail!EditRead
      <4> QED
        BY <1>2, <4>1 DEF EditType
    <3>2. CASE Mail!UpdatePrefs
      BY <1>3, <3>2 DEF Mail!UpdatePrefs
    <3> QED
      BY <1>6, <3>1, <3>2
  <2>2. m_subscribed' \in BOOLEAN /\ m_since' \subseteq OptOuts
    BY <1>2, <1>3, <1>6 DEF Mail!EditRead, Mail!UpdatePrefs
  <2>3. UNCHANGED <<m_age, m_sync, m_gap, m_heard>>
    BY <1>6 DEF Mail!EditRead, Mail!UpdatePrefs
  <2> QED
    BY <1>2, <2>1, <2>2, <2>3 DEF AgesInv
<1>7. CASE Mail!RecentTrackingEvents \/ Mail!LoadUsers
  <2>1. m_sync' \in SyncType /\ m_sync'.at <= m_gap
    <3>1. CASE Mail!RecentTrackingEvents
      <4>1. PICK late \in SUBSET OptOuts :
              m_sync' = [Mail!NoSync EXCEPT !.op = "fetched", !.got = {e \in OptOuts : Mail!Recent(e)} \ late]
        BY <3>1 DEF Mail!RecentTrackingEvents
      <4> DEFINE got == {e \in OptOuts : Mail!Recent(e)} \ late
      <4>2. got \in SUBSET OptOuts
        OBVIOUS
      <4> HIDE DEF got
      <4>3. m_sync' = [op |-> "fetched", got |-> got, seen |-> FALSE, at |-> 0]
        BY <4>1 DEF Mail!NoSync, got
      <4> QED
        BY <1>2, <4>2, <4>3 DEF SyncType
    <3>2. CASE Mail!LoadUsers
      BY <1>2, <3>2 DEF Mail!LoadUsers, SyncType
    <3> QED
      BY <1>7, <3>1, <3>2
  <2>2. UNCHANGED <<m_subscribed, m_age, m_edit, m_gap, m_heard, m_since>>
    BY <1>7 DEF Mail!RecentTrackingEvents, Mail!LoadUsers
  <2> QED
    BY <1>2, <2>1, <2>2 DEF AgesInv
<1>8. CASE Mail!SyncEnds \/ Mail!SyncFails
  <2>1. m_sync' = Mail!NoSync /\ UNCHANGED <<m_age, m_edit, m_since>>
    BY <1>8 DEF Mail!SyncEnds, Mail!SyncFails
  <2>2. m_gap' \in {m_gap, m_sync.at} /\ m_heard' \subseteq OptOuts
    BY <1>2, <1>8 DEF Mail!SyncEnds, Mail!SyncFails
  <2>3. m_subscribed' \in BOOLEAN
    BY <1>2, <1>8 DEF Mail!SyncEnds, Mail!SyncFails
  <2>4. m_gap' \in 0..MaxGap
    BY <1>1, <1>2, <2>2
  <2> QED
    BY <1>2, <1>3, <2>1, <2>2, <2>3, <2>4 DEF AgesInv
<1>9. CASE Mail!Tick
  <2>1. m_age' \in [OptOuts -> -1..(Lookback + 1)]
    BY <1>1, <1>2, <1>9 DEF Mail!Tick, Mail!NotYet
  <2>2. m_gap' \in 0..MaxGap /\ m_gap' = m_gap + 1
    BY <1>1, <1>2, <1>9 DEF Mail!Tick
  <2>3. m_sync' \in SyncType /\ m_sync'.at <= m_gap'
    <3>1. m_sync' = m_sync \/ m_sync' = [m_sync EXCEPT !.at = @ + 1]
      BY <1>9 DEF Mail!Tick
    <3> QED
      BY <1>2, <2>2, <3>1 DEF SyncType
  <2> QED
    BY <1>2, <1>9, <2>1, <2>2, <2>3 DEF Mail!Tick, AgesInv
<1> QED
  BY <1>4, <1>5, <1>6, <1>7, <1>8, <1>9 DEF Mail!Next

(* A flow is exchanged once it was started, and only then; access to the   *)
(* bucket is for accounts of the user.                                     *)
FlowInv ==
  /\ g_flows <= MaxFlows /\ g_flow \in 0..g_flows /\ g_exchanged \subseteq 1..g_flows
  /\ g_bucket \subseteq Accounts
  /\ \A t \in Threads :
       /\ g_request[t].flow \in 0..g_flows
       /\ g_request[t].op \in {"verified", "exchange"} => g_request[t].flow # 0

LEMMA FlowFrame ==
  ASSUME CredentialTypes, FlowInv, NEW t \in Threads, NEW r, Google!Then(t, r),
         r.flow \in 0..g_flows, r.op \in {"verified", "exchange"} => r.flow # 0,
         g_flow' \in {0, g_flow}, UNCHANGED g_flows,
         g_exchanged' \subseteq 1..g_flows, g_bucket' \subseteq Accounts
  PROVE  FlowInv'
<1>1. g_request'[t] = r /\ \A u \in Threads : u # t => g_request'[u] = g_request[u]
  BY DEF CredentialTypes, Google!Then
<1> QED
  BY <1>1 DEF FlowInv, CredentialTypes

LEMMA FlowRest ==
  ASSUME FlowInv, UNCHANGED <<g_flows, g_exchanged, g_bucket, g_request>>, g_flow' \in {0, g_flow},
         g_flows \in Nat
  PROVE  FlowInv'
BY DEF FlowInv

LEMMA FlowStarts ==
  ASSUME CredentialTypes, FlowInv, Google!InitiateOAuth
  PROVE  FlowInv'
<1>1. /\ g_flows \in Nat /\ MaxFlows \in Nat /\ g_flows < MaxFlows
      /\ g_flows' = g_flows + 1 /\ g_flow' = g_flows + 1
      /\ UNCHANGED <<g_exchanged, g_bucket, g_request>>
  BY ServicesAssumption DEF CredentialTypes, Google!InitiateOAuth
<1>2. g_flows' <= MaxFlows /\ g_flow' \in 0..g_flows' /\ 0..g_flows \subseteq 0..g_flows'
      /\ 1..g_flows \subseteq 1..g_flows'
  BY <1>1
<1> QED
  BY <1>1, <1>2 DEF FlowInv

(* Requests other than callbacks have no flow.                             *)
NoFlow(r) == r.flow = 0 /\ r.op \notin {"verified", "exchange"}

LEMMA NoFlows ==
  /\ NoFlow(Google!NoRequest)
  /\ \A by : NoFlow([Google!NoRequest EXCEPT !.op = "valid", !.by = by])
  /\ \A l : /\ NoFlow([Google!NoRequest EXCEPT !.op = "delete", !.loaded = l])
           /\ NoFlow([Google!NoRequest EXCEPT !.op = "test", !.loaded = l])
           /\ NoFlow([Google!NoRequest EXCEPT !.op = "project", !.loaded = l])
  /\ \A l, by : NoFlow([Google!NoRequest EXCEPT !.op = "project", !.loaded = l, !.by = by])
BY DEF NoFlow, Google!NoRequest

LEMMA FlowRequests ==
  ASSUME CredentialTypes, FlowInv, NEW t \in Threads,
         \/ Google!GrantBucketWrite(t) \/ Google!RevokeBucketWrite(t) \/ Google!TestCredentials(t)
         \/ Google!CheckOpenEO(t)
  PROVE  FlowInv'
<1>1. g_flows \in Nat /\ g_row \in Google!Row /\ 0 \in 0..g_flows
  BY DEF CredentialTypes
<1>2. g_bucket' \subseteq Accounts /\ UNCHANGED <<g_flow, g_flows, g_exchanged>>
  BY <1>1 DEF Google!GrantBucketWrite, Google!RevokeBucketWrite, Google!TestCredentials,
              Google!CheckOpenEO, FlowInv, Google!Row
<1>3. \E r : Google!Then(t, r) /\ NoFlow(r)
  BY NoFlows DEF Google!GrantBucketWrite, Google!RevokeBucketWrite, Google!TestCredentials,
                 Google!CheckOpenEO, Google!Begin
<1> QED
  BY <1>1, <1>2, <1>3, FlowFrame DEF FlowInv, NoFlow

LEMMA FlowEnds ==
  ASSUME CredentialTypes, FlowInv, NEW t \in Threads,
         \/ Google!SetCloudProject(t) \/ Google!ClearCredentials(t) \/ Google!AlreadyInitialized(t)
         \/ Google!InitializeWithOAuth(t) \/ Google!InitializeWithServiceAccount(t)
         \/ Google!InitializeWithDefault(t) \/ Google!Answered(t) \/ Google!RequestFails(t)
  PROVE  FlowInv'
<1>1. g_flows \in Nat /\ 0 \in 0..g_flows
  BY DEF CredentialTypes
<1>2. UNCHANGED <<g_flow, g_flows, g_exchanged, g_bucket>>
  BY DEF Google!SetCloudProject, Google!ClearCredentials, Google!AlreadyInitialized,
         Google!InitializeWithOAuth, Google!InitializeWithServiceAccount,
         Google!InitializeWithDefault, Google!Answered, Google!RequestFails
<1>3. \E by : Google!Answer(t, by) \/ Google!Done(t)
  BY DEF Google!SetCloudProject, Google!ClearCredentials, Google!AlreadyInitialized,
         Google!InitializeWithOAuth, Google!InitializeWithServiceAccount,
         Google!InitializeWithDefault, Google!Answered, Google!RequestFails
<1>4. \E r : Google!Then(t, r) /\ NoFlow(r)
  BY <1>3, NoFlows DEF Google!Answer, Google!Done
<1> QED
  BY <1>1, <1>2, <1>4, FlowFrame DEF FlowInv, NoFlow

LEMMA FlowCallback ==
  ASSUME CredentialTypes, FlowInv, NEW t \in Threads,
         \/ \E s \in 1..g_flows : Google!CallbackVerify(t, s)
         \/ Google!CallbackConsume(t) \/ Google!CallbackStore(t)
  PROVE  FlowInv'
<1>1. /\ g_flows \in Nat /\ 0 \in 0..g_flows /\ g_request[t] \in CredentialRequest
      /\ g_request[t].flow \in 0..g_flows
      /\ g_request[t].op \in {"verified", "exchange"} => g_request[t].flow # 0
      /\ g_exchanged \subseteq 1..g_flows /\ g_bucket \subseteq Accounts
  BY DEF CredentialTypes, FlowInv
<1>2. ASSUME NEW s \in 1..g_flows, Google!CallbackVerify(t, s)
      PROVE  FlowInv'
  <2>0. \A l : [Google!NoRequest EXCEPT !.op = "verified", !.loaded = l, !.flow = s].flow = s
    BY DEF Google!NoRequest
  <2>1. \E r : Google!Then(t, r) /\ r.flow = s
    BY <1>2, <2>0 DEF Google!CallbackVerify, Google!Begin
  <2>2. s \in 0..g_flows /\ s # 0
    BY <1>1
  <2>3. UNCHANGED <<g_flow, g_flows, g_exchanged, g_bucket>>
    BY <1>2 DEF Google!CallbackVerify
  <2> QED
    BY <1>1, <2>1, <2>2, <2>3, FlowFrame
<1>3. CASE Google!CallbackConsume(t)
  <2> DEFINE r == [g_request[t] EXCEPT !.op = "exchange"]
  <2>1. /\ Google!Then(t, r) /\ g_request[t].op = "verified" /\ g_flow' = 0
        /\ UNCHANGED <<g_flows, g_exchanged, g_bucket>>
    BY <1>3 DEF Google!CallbackConsume
  <2>2. r.flow = g_request[t].flow
    BY <1>1 DEF CredentialRequest
  <2> HIDE DEF r
  <2> QED
    BY <1>1, <2>1, <2>2, FlowFrame
<1>4. CASE Google!CallbackStore(t)
  <2>1. /\ Google!Then(t, Google!NoRequest) /\ g_request[t].op = "exchange"
        /\ g_exchanged' \in {g_exchanged, g_exchanged \cup {g_request[t].flow}}
        /\ UNCHANGED <<g_flow, g_flows, g_bucket>>
    BY <1>4 DEF Google!CallbackStore, Google!Done
  <2>2. Google!NoRequest.flow = 0 /\ Google!NoRequest.op = "idle"
    BY DEF Google!NoRequest
  <2>3. g_request[t].flow \in 1..g_flows
    BY <1>1, <2>1
  <2>4. g_exchanged' \subseteq 1..g_flows
    BY <1>1, <2>1, <2>3
  <2> QED
    BY <1>1, <2>1, <2>2, <2>4, FlowFrame
<1> QED
  BY <1>2, <1>3, <1>4

LEMMA FlowStep ==
  ASSUME CredentialsInv, FlowInv, [Google!Next]_credentialsVars
  PROVE  FlowInv'
<1>1. CredentialTypes /\ g_flows \in Nat
  BY DEF CredentialsInv, CredentialTypes
<1>2. CASE \/ UNCHANGED credentialsVars \/ Google!StateExpires \/ Google!UploadServiceAccount
           \/ Google!UploadServiceAccountAdmin \/ Google!SetOpenEO \/ Google!DeleteOpenEO
           \/ \E t \in Threads : Google!ClientChanges(t)
  BY <1>1, <1>2, FlowRest
     DEF credentialsVars, Google!StateExpires, Google!UploadServiceAccount,
         Google!UploadServiceAccountAdmin, Google!SetOpenEO, Google!DeleteOpenEO,
         Google!ClientChanges
<1>3. ASSUME NEW t \in Threads,
             \/ \E s \in 1..g_flows : Google!CallbackVerify(t, s) \/ Google!CallbackAnonymous(t, s)
             \/ Google!CallbackConsume(t) \/ Google!CallbackStore(t)
      PROVE  FlowInv'
  BY <1>1, <1>3, FlowCallback DEF Google!CallbackAnonymous
<1>4. ASSUME NEW t \in Threads,
             \/ Google!GrantBucketWrite(t) \/ Google!RevokeBucketWrite(t) \/ Google!DeleteByAdmin(t)
             \/ Google!TestCredentials(t) \/ Google!TestByAdmin(t) \/ Google!CheckOpenEO(t)
      PROVE  FlowInv'
  BY <1>1, <1>4, FlowRequests DEF Google!DeleteByAdmin, Google!TestByAdmin
<1> QED
  BY <1>1, <1>2, <1>3, <1>4, FlowStarts, FlowEnds DEF Google!Next

(* The lines that have a date and no id yet.                               *)
Unnumbered == {w \in Threads : l_writer[w].date # 0 /\ l_writer[w].id = 0}

(* Each line gets its date, then its id.                                   *)
NumberInv ==
  /\ l_dates <= MaxLines /\ l_ids + Cardinality(Unnumbered) <= l_dates
  /\ l_after \in {"id", "date"} /\ l_repeated \in BOOLEAN /\ l_late \subseteq 1..l_dates

LEMMA NumberTypes ==
  ASSUME LogInv
  PROVE  /\ l_ids \in Nat /\ l_dates \in Nat /\ MaxLines \in Nat
         /\ l_writer \in [Threads -> [id : Nat, date : Nat]]
         /\ \A w \in Threads : l_writer[w].date <= l_dates /\ (l_writer[w].date = 0 => l_writer[w].id = 0)
         /\ Unnumbered \in SUBSET Threads /\ IsFiniteSet(Unnumbered)
         /\ Cardinality(Unnumbered) \in Nat
<1>1. Unnumbered \in SUBSET Threads
  BY DEF Unnumbered
<1> QED
  BY <1>1, SomeThreads, ServicesAssumption DEF LogInv, LogTypes, WriterInv

LEMMA NumberTypesNext ==
  ASSUME LogInv'
  PROVE  IsFiniteSet(Unnumbered') /\ Cardinality(Unnumbered') \in Nat
<1>1. (LogInv => IsFiniteSet(Unnumbered) /\ Cardinality(Unnumbered) \in Nat)'
  BY NumberTypes, PTL
<1> QED
  BY <1>1

LEMMA NumberWriter ==
  ASSUME LogInv, LogInv', NumberInv, NEW w \in Threads,
         \/ Logs!CreateLog(w) \/ Logs!Insert(w) \/ Logs!Commit(w) \/ Logs!Rollback(w)
  PROVE  NumberInv'
<1>1. /\ l_ids \in Nat /\ l_dates \in Nat /\ MaxLines \in Nat
      /\ l_writer \in [Threads -> [id : Nat, date : Nat]]
      /\ l_writer[w].date <= l_dates /\ (l_writer[w].date = 0 => l_writer[w].id = 0)
      /\ IsFiniteSet(Unnumbered) /\ Cardinality(Unnumbered) \in Nat
      /\ IsFiniteSet(Unnumbered') /\ Cardinality(Unnumbered') \in Nat
      /\ UNCHANGED <<l_after, l_repeated, l_late>>
  BY NumberTypes, NumberTypesNext DEF Logs!CreateLog, Logs!Insert, Logs!Commit, Logs!Rollback
<1>2. /\ l_dates <= MaxLines /\ l_ids + Cardinality(Unnumbered) <= l_dates
      /\ l_after \in {"id", "date"} /\ l_repeated \in BOOLEAN /\ l_late \subseteq 1..l_dates
  BY DEF NumberInv
<1>3. CASE Logs!CreateLog(w)
  <2>1. l_dates < MaxLines /\ l_dates' = l_dates + 1 /\ UNCHANGED l_ids
    BY <1>3 DEF Logs!CreateLog
  <2>2. Unnumbered' \subseteq Unnumbered \cup {w}
    BY <1>1, <1>3 DEF Logs!CreateLog, Unnumbered
  <2>3. Cardinality(Unnumbered') <= Cardinality(Unnumbered) + 1
    <3>1. IsFiniteSet(Unnumbered \cup {w}) /\ Cardinality(Unnumbered \cup {w}) \in Nat
          /\ Cardinality(Unnumbered \cup {w}) <= Cardinality(Unnumbered) + 1
      <4>1. IsFiniteSet(Unnumbered \cup {w})
        BY <1>1, FS_AddElement
      <4>2. Cardinality(Unnumbered \cup {w}) \in {Cardinality(Unnumbered), Cardinality(Unnumbered) + 1}
        BY <1>1, FS_AddElement
      <4> QED
        BY <1>1, <4>1, <4>2
    <3>2. Cardinality(Unnumbered') <= Cardinality(Unnumbered \cup {w})
      BY <2>2, <3>1, FS_Subset
    <3> QED
      BY <1>1, <3>1, <3>2
  <2>4. Cardinality(Unnumbered)' = Cardinality(Unnumbered')
    OBVIOUS
  <2>5. l_dates' <= MaxLines /\ l_ids' + Cardinality(Unnumbered') <= l_dates'
        /\ l_late' \subseteq 1..l_dates'
    BY <1>1, <1>2, <2>1, <2>3
  <2> QED
    BY <1>1, <1>2, <2>4, <2>5 DEF NumberInv
<1>4. CASE Logs!Insert(w)
  <2>1. l_ids' = l_ids + 1 /\ UNCHANGED l_dates /\ w \in Unnumbered
    BY <1>4 DEF Logs!Insert, Unnumbered
  <2>2. Unnumbered' \subseteq Unnumbered \ {w}
    BY <1>1, <1>4 DEF Logs!Insert, Unnumbered
  <2>3. Cardinality(Unnumbered') <= Cardinality(Unnumbered) - 1
    <3>1. IsFiniteSet(Unnumbered \ {w}) /\ Cardinality(Unnumbered \ {w}) = Cardinality(Unnumbered) - 1
      BY <1>1, <2>1, FS_RemoveElement
    <3> QED
      BY <2>2, <3>1, FS_Subset
  <2>4. Cardinality(Unnumbered)' = Cardinality(Unnumbered')
    OBVIOUS
  <2>5. l_ids' + Cardinality(Unnumbered') <= l_dates'
    BY <1>1, <1>2, <2>1, <2>3
  <2> QED
    BY <1>1, <1>2, <2>1, <2>4, <2>5 DEF NumberInv
<1>5. CASE Logs!Commit(w) \/ Logs!Rollback(w)
  <2>1. UNCHANGED <<l_ids, l_dates>>
    BY <1>5 DEF Logs!Commit, Logs!Rollback
  <2>2. Unnumbered' \subseteq Unnumbered
    BY <1>1, <1>5 DEF Logs!Commit, Logs!Rollback, Logs!NoLine, Unnumbered
  <2>3. Cardinality(Unnumbered') <= Cardinality(Unnumbered)
    BY <1>1, <2>2, FS_Subset
  <2>4. Cardinality(Unnumbered)' = Cardinality(Unnumbered')
    OBVIOUS
  <2>5. l_ids' + Cardinality(Unnumbered') <= l_dates'
    BY <1>1, <1>2, <2>1, <2>3
  <2> QED
    BY <1>1, <1>2, <2>1, <2>4, <2>5 DEF NumberInv
<1> QED
  BY <1>3, <1>4, <1>5

LEMMA NumberStep ==
  ASSUME LogInv, LogInv', NumberInv, [Logs!Next]_logsVars
  PROVE  NumberInv'
<1>1. CASE UNCHANGED logsVars
  BY <1>1 DEF logsVars, NumberInv, Unnumbered
<1>2. CASE Logs!Poll
  <2>1. /\ l_late' = l_late \cup {l_writer[w].date : w \in {v \in Threads : l_writer[v] # Logs!NoLine}}
        /\ l_repeated' \in BOOLEAN /\ UNCHANGED <<l_dates, l_ids, l_writer, l_after>>
    BY <1>2 DEF Logs!Poll, NumberInv
  <2>2. ASSUME NEW w \in Threads, l_writer[w] # Logs!NoLine
        PROVE  l_writer[w].date \in 1..l_dates
    BY <2>2, NumberTypes DEF Logs!NoLine
  <2>3. l_late' \subseteq 1..l_dates
    BY <2>1, <2>2 DEF NumberInv
  <2>4. Unnumbered' = Unnumbered
    BY <2>1 DEF Unnumbered
  <2> QED
    BY <2>1, <2>3, <2>4 DEF NumberInv
<1> QED
  BY <1>1, <1>2, NumberWriter
     DEF Logs!Next, Logs!SaveBuildLog, Logs!GetExecutionLogs, Logs!GetScriptLogs

-----------------------------------------------------------------------------

ServiceInvs ==
  /\ IInv /\ SessionsInv /\ BlockInv /\ AccessInv /\ ClientsInv
  /\ CredentialsInv /\ LogInv /\ LimitsInv

BoundsInv == LifeInv /\ RestInv /\ AgesInv /\ FlowInv /\ NumberInv

LEMMA ServicesStart == AllInit => ServiceInvs
BY InvInit, SessionsStart, BlocklistStart, AccessStart, ClientsStart,
   CredentialsStart, LogStart, LimitsStart DEF AllInit, ServiceInvs

LEMMA ServicesStep == ServiceInvs /\ [AllNext]_allVars => ServiceInvs'
<1> SUFFICES ASSUME ServiceInvs, [AllNext]_allVars PROVE ServiceInvs'
  OBVIOUS
<1>1. IInv' /\ SessionsInv' /\ BlockInv'
  BY AccountsMove, InvNext, SessionsMove, SessionsStep, BlocklistMove, BlocklistStep DEF ServiceInvs
<1>2. AccessInv' /\ ClientsInv'
  BY AccessMove, AccessStep, ClientsMove, ClientsStep DEF ServiceInvs
<1>3. CredentialsInv' /\ LogInv' /\ LimitsInv'
  BY CredentialsMove, CredentialsStep, LogsMove, LogStep, LimitsMove, LimitsStep DEF ServiceInvs
<1> QED
  BY <1>1, <1>2, <1>3 DEF ServiceInvs

LEMMA BoundsStart == AllInit => BoundsInv
<1> SUFFICES ASSUME AllInit PROVE BoundsInv
  OBVIOUS
<1>1. LifeInv
  BY ServicesAssumption DEF AllInit, Blocklist!Init, LifeInv
<1>2. RestInv
  BY DEF AllInit, Access!Init, Access!NoRequest, RestInv
<1>3. AgesInv
  BY ServicesAssumption
     DEF AllInit, Mail!Init, Mail!NotYet, Mail!NoSync, Mail!NoEdit, SyncType, EditType, AgesInv
<1>4. FlowInv
  BY ServicesAssumption DEF AllInit, Google!Init, Google!NoRequest, FlowInv
<1>5. NumberInv
  <2>1. l_writer = [w \in Threads |-> [id |-> 0, date |-> 0]]
    BY DEF AllInit, Logs!Init, Logs!NoLine
  <2>2. Unnumbered = {}
    BY <2>1 DEF Unnumbered
  <2>3. Cardinality(Unnumbered) = 0
    BY <2>2, FS_EmptySet
  <2> QED
    <3>1. l_dates = 0 /\ l_ids = 0 /\ l_after \in {"id", "date"} /\ l_repeated = FALSE /\ l_late = {}
      BY DEF AllInit, Logs!Init
    <3>2. MaxLines \in Nat
      BY ServicesAssumption
    <3> HIDE DEF Unnumbered
    <3>3. l_dates <= MaxLines /\ l_ids + Cardinality(Unnumbered) <= l_dates
      BY <2>3, <3>1, <3>2
    <3> QED
      BY <3>1, <3>3 DEF NumberInv
<1> QED
  BY <1>1, <1>2, <1>3, <1>4, <1>5 DEF BoundsInv

LEMMA BoundsStep == ServiceInvs /\ BoundsInv /\ [AllNext]_allVars => BoundsInv'
<1> SUFFICES ASSUME ServiceInvs, BoundsInv, [AllNext]_allVars PROVE BoundsInv'
  OBVIOUS
<1>1. LifeInv' /\ RestInv' /\ AgesInv'
  BY BlocklistMove, LifeStep, AccessMove, RestStep, MailMove, AgesStep DEF ServiceInvs, BoundsInv
<1>2. FlowInv'
  BY CredentialsMove, FlowStep DEF ServiceInvs, BoundsInv
<1>3. NumberInv'
  BY LogsMove, LogStep, NumberStep DEF ServiceInvs, BoundsInv
<1> QED
  BY <1>1, <1>2, <1>3 DEF BoundsInv

LEMMA ServicesTyped == ServiceInvs /\ BoundsInv => TypesOK
<1> SUFFICES ASSUME ServiceInvs, BoundsInv PROVE TypesOK
  OBVIOUS
<1>1. TypeOK /\ Logins!TypeOK /\ Limits!TypeOK
  <2>1. TypeOK /\ Logins!TypeOK
    BY DEF ServiceInvs, IInv, TypeInv, SessionsInv, SessionTypes
  <2>2. Limits!TypeOK
    BY DEF ServiceInvs, LimitsInv, LimitsTypes, CounterTypes, Everyone,
           Limits!TypeOK, RateEvent, RateRequest, RateOps
  <2> QED
    BY <2>1, <2>2
<1>2. Blocklist!TypeOK
  BY ServicesAssumption DEF ServiceInvs, BoundsInv, BlockInv, LifeInv, Blocklist!TypeOK
<1>3. Access!TypeOK
  <2>1. Access!New \in Access!Script
    BY DEF Access!New, Access!Script
  <2>2. Access!Written(Access!New, << >>) = Access!New
    BY DEF Access!Written, Access!New
  <2> QED
    BY <2>1, <2>2 DEF ServiceInvs, BoundsInv, AccessInv, AccessTypes, RestInv, Pending, Access!TypeOK
<1>4. OAuth!TypeOK
  BY ServicesAssumption DEF ServiceInvs, ClientsInv, ClientTypes, EndInv, OAuth!TypeOK
<1>5. Mail!TypeOK
  BY ServicesAssumption
     DEF BoundsInv, AgesInv, SyncType, EditType, Mail!NotYet, Mail!TypeOK
<1>6. Google!TypeOK
  BY ServicesAssumption
     DEF ServiceInvs, BoundsInv, CredentialsInv, CredentialTypes, FlowInv, CredentialRequest,
         CredentialOps, Identities, Google!TypeOK
<1>7. Logs!TypeOK
  <2>1. LogInv /\ NumberInv /\ MaxLines \in Nat /\ Cardinality(Unnumbered) \in Nat
    BY NumberTypes DEF ServiceInvs, BoundsInv
  <2>2. l_ids \in Nat /\ l_dates \in Nat /\ l_ids <= l_dates /\ l_dates <= MaxLines
    BY <2>1 DEF LogInv, LogTypes, NumberInv
  <2>3. l_last \in 0..MaxLines
    BY <2>1, <2>2 DEF LogInv, LogTypes, Given
  <2>4. \A l \in l_lines : l \in [id : 0..MaxLines, date : 0..MaxLines]
    BY <2>1, <2>2 DEF LogInv, LogTypes
  <2>5. l_writer \in [Threads -> [id : 0..MaxLines, date : 0..MaxLines]]
    BY <2>1, <2>2 DEF LogInv, LogTypes, WriterInv
  <2> QED
    BY <2>1, <2>2, <2>3, <2>4, <2>5 DEF LogInv, LogTypes, NumberInv, Logs!TypeOK
<1> QED
  BY <1>1, <1>2, <1>3, <1>4, <1>5, <1>6, <1>7 DEF TypesOK

(* Type correctness of every service, with the bounds of its counters: no  *)
(* lifetime in Redis is longer than the token's and the buffer, no flow is *)
(* exchanged that was not started, no id is given without a date.          *)
THEOREM ServicesCorrect == AllSpec => []TypesOK
BY ServicesStart, ServicesStep, BoundsStart, BoundsStep, ServicesTyped, PTL DEF AllSpec
===============================================================================
