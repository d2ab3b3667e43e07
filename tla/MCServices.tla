------------------------------ MODULE MCServices ------------------------------
(* The services around the executions, each explored by itself: they share   *)
(* no state but the user row, of which each writes columns of its own.       *)
EXTENDS Accounts, TLC

CONSTANTS
  Parts,                  (* the parts a run is about, of: "accounts",       *)
                          (* "sessions", "blocklist", "access", "clients",   *)
                          (* "subscriptions", "credentials", "logs", "limits"*)
  MaxSessions,            (* of Sessions                                     *)
  Jtis, Life, Buffer,     (* of TokenBlocklist                               *)
  Users, Owner,           (* of ScriptAccess                                 *)
  Apps, MaxApps, AppLife, (* of ServiceClients                               *)
  OptOuts, Lookback, MaxGap,  (* of Subscriptions                            *)
  Accounts, MaxFlows,     (* of UserCredentials                              *)
  MaxLines,               (* of LogPolling                                   *)
  Admin, Monitor, Callers, Anonymous, Address, (* of RateLimits              *)
  Windows, Quota, Horizon

(* A user may have a client, tokens live and logout adds a minute to them.   *)
ASSUME ServicesAssumption ==
  /\ IsFiniteSet(Apps) /\ MaxApps \in Nat \ {0} /\ AppLife \in Nat \ {0}
  /\ MaxSessions \in Nat /\ Life \in Nat /\ Buffer \in Nat \ {0}
  /\ {MaxLines, MaxFlows, Lookback, MaxGap, Horizon} \subseteq Nat
  /\ Windows \subseteq 1..Horizon /\ Quota \in [Windows -> Nat \ {0}]

(* Two callers behind one address, an administrator, and the monitor from an *)
(* address of the containers; two limits of one request each.                *)
OneAddress == [u \in Callers \cup {Admin, Monitor} |-> u = Monitor]
OneEach == [w \in Windows |-> 1]

VARIABLES
  focus,
  s_account, s_tokens, s_request, s_sweep, s_rotated, s_signedOut,
  t_redis, t_client, t_throttled, t_left, t_entry, t_leaving, t_listed,
  a_row, a_request, a_mixed,
  c_client, c_request, c_token, c_ended,
  m_subscribed, m_age, m_sync, m_edit, m_gap, m_heard, m_since,
  g_row, g_flow, g_flows, g_exchanged, g_bucket, g_ee, g_request, g_mixed,
  l_lines, l_dates, l_ids, l_writer, l_after, l_last, l_seen, l_repeated,
  l_late,
  r_count, r_left, r_events, r_request

Logins == INSTANCE Sessions WITH
  account <- s_account, tokens <- s_tokens,
  request <- s_request, sweep <- s_sweep, rotated <- s_rotated,
  signedOut <- s_signedOut

Blocklist == INSTANCE TokenBlocklist WITH
  Processes <- Threads, Tokens <- Jtis,
  redis <- t_redis, client <- t_client, throttled <- t_throttled,
  left <- t_left, entry <- t_entry, leaving <- t_leaving, listed <- t_listed

Access == INSTANCE ScriptAccess WITH
  Admins <- {Admin}, Roles <- {"USER"}, row <- a_row, request <- a_request,
  mixed <- a_mixed

OAuth == INSTANCE ServiceClients WITH
  Clients <- Apps, Limit <- MaxApps, Lifetime <- AppLife, client <- c_client,
  request <- c_request, token <- c_token, ended <- c_ended

Mail == INSTANCE Subscriptions WITH
  Events <- OptOuts, Window <- Lookback, subscribed <- m_subscribed,
  age <- m_age, sync <- m_sync, edit <- m_edit, gap <- m_gap, heard <- m_heard,
  since <- m_since

Google == INSTANCE UserCredentials WITH
  row <- g_row, flow <- g_flow,
  flows <- g_flows, exchanged <- g_exchanged, bucket <- g_bucket, ee <- g_ee,
  request <- g_request, mixed <- g_mixed

Logs == INSTANCE LogPolling WITH
  Writers <- Threads, lines <- l_lines, dates <- l_dates,
  ids <- l_ids, writer <- l_writer, after <- l_after, last <- l_last,
  seen <- l_seen, repeated <- l_repeated, late <- l_late

Limits == INSTANCE RateLimits WITH
  Users <- Callers \cup {Admin, Monitor}, Admins <- {Admin},
  Internal <- {Monitor}, count <- r_count, left <- r_left, events <- r_events,
  request <- r_request

Alike == Permutations(Threads) \cup Permutations(Sweepers)

(* Which part a behaviour is about is chosen once; only that part moves.     *)
AllInit ==
  /\ focus \in Parts
  /\ Init /\ Logins!Init /\ Blocklist!Init /\ Access!Init /\ OAuth!Init
     /\ Mail!Init /\ Google!Init /\ Logs!Init /\ Limits!Init
  /\ focus # "blocklist" => t_redis
  /\ focus # "subscriptions" => m_subscribed
  /\ focus # "logs" => l_after = "id"

sessionsVars ==
  <<s_account, s_tokens, s_request, s_sweep, s_rotated, s_signedOut>>

blocklistVars ==
  <<t_redis, t_client, t_throttled, t_left, t_entry, t_leaving, t_listed>>

accessVars ==
  <<a_row, a_request, a_mixed>>

clientsVars ==
  <<c_client, c_request, c_token, c_ended>>

subscriptionsVars ==
  <<m_subscribed, m_age, m_sync, m_edit, m_gap, m_heard, m_since>>

credentialsVars ==
  <<g_row, g_flow, g_flows, g_exchanged, g_bucket, g_ee, g_request, g_mixed>>

logsVars ==
  <<l_lines, l_dates, l_ids, l_writer, l_after, l_last, l_seen, l_repeated,
    l_late>>

limitsVars ==
  <<r_count, r_left, r_events, r_request>>

allVars == <<focus, vars, sessionsVars, blocklistVars, accessVars, clientsVars,
             subscriptionsVars, credentialsVars, logsVars, limitsVars>>

(* The variables of the other parts stay as they are.                        *)
Frame ==
  /\ UNCHANGED focus
  /\ focus # "accounts" => UNCHANGED vars
  /\ focus # "sessions" => UNCHANGED sessionsVars
  /\ focus # "blocklist" => UNCHANGED blocklistVars
  /\ focus # "access" => UNCHANGED accessVars
  /\ focus # "clients" => UNCHANGED clientsVars
  /\ focus # "subscriptions" => UNCHANGED subscriptionsVars
  /\ focus # "credentials" => UNCHANGED credentialsVars
  /\ focus # "logs" => UNCHANGED logsVars
  /\ focus # "limits" => UNCHANGED limitsVars

AllNext ==
  \/ focus = "accounts" /\ Next /\ Frame
  \/ focus = "sessions" /\ Logins!Next /\ Frame
  \/ focus = "blocklist" /\ Blocklist!Next /\ Frame
  \/ focus = "access" /\ Access!Next /\ Frame
  \/ focus = "clients" /\ OAuth!Next /\ Frame
  \/ focus = "subscriptions" /\ Mail!Next /\ Frame
  \/ focus = "credentials" /\ Google!Next /\ Frame
  \/ focus = "logs" /\ Logs!Next /\ Frame
  \/ focus = "limits" /\ Limits!Next /\ Frame

AllSpec == AllInit /\ [][AllNext]_allVars

(* The types of the variables of every part.                                 *)
TypesOK ==
  /\ focus = "accounts" => TypeOK
  /\ focus = "sessions" => Logins!TypeOK
  /\ focus = "blocklist" => Blocklist!TypeOK
  /\ focus = "access" => Access!TypeOK
  /\ focus = "clients" => OAuth!TypeOK
  /\ focus = "subscriptions" => Mail!TypeOK
  /\ focus = "credentials" => Google!TypeOK
  /\ focus = "logs" => Logs!TypeOK
  /\ focus = "limits" => Limits!TypeOK

(* Accounts and Sessions, a token meant for one use is used by overlapping   *)
(* requests only.                                                            *)
SingleUseBounded ==
  /\ focus = "accounts" => ResetBounded
  /\ focus = "sessions" => Logins!RotationBounded

(* Sessions, no session survives a sign-out or comes back after it.          *)
SignOutFinal ==
  focus = "sessions" => Logins!SignOutFinal

(* TokenBlocklist, a token that was put on the list is refused to its end.   *)
BlockedUntilExpiry ==
  focus = "blocklist" => Blocklist!BlockedUntilExpiry

(* ScriptAccess, what is listed may be opened, and grants restrict.          *)
AccessHolds ==
  focus = "access" => Access!ListedIsAccessible /\ Access!GrantsRestrict

(* ServiceClients, the limit of clients, and the end of a revoked one.       *)
ClientsBounded ==
  focus = "clients" => OAuth!LimitPassedByThreads /\ OAuth!TokensEnd

(* Subscriptions, an opt-out at SparkPost reaches the user row.              *)
OptOutHonoured ==
  focus = "subscriptions" => Mail!OptOutHonoured

(* UserCredentials, deleted credentials leave nothing in the row.            *)
ErasedWhenDeleted ==
  focus = "credentials" => Google!ErasedWhenDeleted

(* LogPolling, a line is given once, and none is passed over in silence.     *)
PolledOnce ==
  focus = "logs" => Logs!PolledOnce

(* RateLimits, whoever is refused is on the list of active limits, with the  *)
(* exceptions stated there.                                                  *)
RefusedIsListed ==
  focus = "limits" => Limits!RefusedIsListed

===============================================================================
