------------------------------- MODULE Alerts -------------------------------
(***************************************************************************)
(* send_alert with its deduplication table, app/alerts/service.py, the     *)
(* Telegram call under it, and the watchdog that alerts when no run has    *)
(* succeeded for too long, app/scheduler/watchdog.py.                      *)
(*                                                                         *)
(* A call reads the clock and the table, asks Telegram, then writes the    *)
(* table: sessions of different threads interleave between the three.      *)
(***************************************************************************)
EXTENDS Integers, FiniteSets

CONSTANTS
    Sessions,   \* threads that may alert at once
    Keys,       \* dedup keys
    WatchKey,   \* "cron_watchdog"
    Window,     \* alert_dedup_window_minutes
    Limit,      \* cron_watchdog_minutes
    MaxTime     \* bound on the clock

ASSUME KeysAssumption   == WatchKey \in Keys
ASSUME WindowAssumption == Window \in Nat
ASSUME LimitAssumption  == Limit \in Nat /\ Window <= Limit
ASSUME TimeAssumption   == MaxTime \in Nat

VARIABLES
    now,        \* the clock
    row,        \* alert_dedup: last_sent_at of each key
    job,        \* per session, the call it is in
    success,    \* finished_at of the last successful run
    began,      \* history: when the last call that sends was begun
    repeated,   \* history: keys sent again within their window
    overlapped, \* history: keys two calls were sending at once
    unrecorded, \* history: keys a call was sending when it was cut off
    raised      \* history: keys whose INSERT lost to another call's

vars == <<now, row, job, success, began,
          repeated, overlapped, unrecorded, raised>>

-----------------------------------------------------------------------------
Never == -1
Times == 0..MaxTime
TimesOrNever == Times \cup {Never}

Jobs  == [pc : {"idle", "post", "record"}, key : Keys, start : Times,
          fresh : BOOLEAN]   \* there was no row of the key to update
NoJob == [pc |-> "idle", key |-> WatchKey, start |-> 0, fresh |-> FALSE]

At(s, p) == job[s].pc = p
Becomes(s, j) == job' = [job EXCEPT ![s] = j]
Sending(k) == {s \in Sessions : ~At(s, "idle") /\ job[s].key = k}

TypeOK ==
    /\ now \in Times
    /\ row \in [Keys -> TimesOrNever]
    /\ job \in [Sessions -> Jobs]
    /\ success \in TimesOrNever
    /\ began \in [Keys -> TimesOrNever]
    /\ repeated \subseteq Keys
    /\ overlapped \subseteq Keys
    /\ unrecorded \subseteq Keys
    /\ raised \subseteq Keys

Init ==
    /\ now = 0
    /\ row = [k \in Keys |-> Never]
    /\ job = [s \in Sessions |-> NoJob]
    /\ success = Never
    /\ began = [k \in Keys |-> Never]
    /\ repeated = {}
    /\ overlapped = {}
    /\ unrecorded = {}
    /\ raised = {}

-----------------------------------------------------------------------------
(* send_alert *)

RecentForever(k) ==   \* mutant: a row suppresses whatever its age
    row[k] # Never

\* The row of the key is younger than the window.
Recent(k) == row[k] # Never /\ row[k] > now - Window

SuppressRefreshing(s, k) ==   \* mutant: as the docstring has it
    /\ At(s, "idle") /\ Recent(k)
    /\ row' = [row EXCEPT ![k] = now]
    /\ UNCHANGED <<now, job, success, began,
                   repeated, overlapped, unrecorded, raised>>

Suppress(s, k) ==
    /\ At(s, "idle") /\ Recent(k)
    /\ UNCHANGED vars

AdmitInserting(s, k) ==   \* mutant: the row is always inserted
    /\ At(s, "idle") /\ ~Recent(k)
    /\ Becomes(s, [pc |-> "post", key |-> k, start |-> now, fresh |-> TRUE])
    /\ began' = [began EXCEPT ![k] = now]
    /\ repeated' = IF began[k] # Never /\ now - began[k] < Window
                   THEN repeated \cup {k} ELSE repeated
    /\ overlapped' = IF Sending(k) # {} THEN overlapped \cup {k} ELSE overlapped
    /\ UNCHANGED <<now, row, success, unrecorded, raised>>

\* The alert is due: the call has its time stamp, and knows if there is a row.
Admit(s, k) ==
    /\ At(s, "idle") /\ ~Recent(k)
    /\ Becomes(s, [pc |-> "post", key |-> k, start |-> now, fresh |-> row[k] = Never])
    /\ began' = [began EXCEPT ![k] = now]
    /\ repeated' = IF began[k] # Never /\ now - began[k] < Window
                   THEN repeated \cup {k} ELSE repeated
    /\ overlapped' = IF Sending(k) # {} THEN overlapped \cup {k} ELSE overlapped
    /\ UNCHANGED <<now, row, success, unrecorded, raised>>

SendAlert(s, k) == Suppress(s, k) \/ Admit(s, k)

\* telegram.post_message: sent, or not (an error status, no network, or no
\* configuration); it never raises, and nothing below depends on its answer.
Post(s) ==
    /\ At(s, "post")
    /\ Becomes(s, [job[s] EXCEPT !.pc = "record"])
    /\ UNCHANGED <<now, row, success, began, repeated, overlapped, unrecorded, raised>>

RecordFirstOnly(s) ==   \* mutant: an existing row is not written
    /\ At(s, "record")
    /\ job[s].fresh => row[job[s].key] = Never
    /\ row' = [row EXCEPT ![job[s].key] = IF job[s].fresh THEN job[s].start ELSE @]
    /\ Becomes(s, NoJob)
    /\ UNCHANGED <<now, success, began,
                   repeated, overlapped, unrecorded, raised>>

RecordCutoff(s) ==   \* mutant: `cutoff` is written for `now`
    /\ At(s, "record")
    /\ job[s].fresh => row[job[s].key] = Never
    /\ row' = [row EXCEPT ![job[s].key] = job[s].start - Window]
    /\ Becomes(s, NoJob)
    /\ UNCHANGED <<now, success, began,
                   repeated, overlapped, unrecorded, raised>>

\* The INSERT or UPDATE, and its commit, whether Telegram took the message or
\* not, with the time at which the call began.
Record(s) ==
    /\ At(s, "record")
    /\ job[s].fresh => row[job[s].key] = Never
    /\ row' = [row EXCEPT ![job[s].key] = job[s].start]
    /\ Becomes(s, NoJob)
    /\ UNCHANGED <<now, success, began,
                   repeated, overlapped, unrecorded, raised>>

\* Another call has inserted the row: IntegrityError, raised to the caller.
RecordConflict(s) ==
    /\ At(s, "record")
    /\ job[s].fresh /\ row[job[s].key] # Never
    /\ Becomes(s, NoJob)
    /\ raised' = raised \cup {job[s].key}
    /\ UNCHANGED <<now, row, success, began,
                   repeated, overlapped, unrecorded>>

-----------------------------------------------------------------------------
(* The callers, the clock and the process *)

\* Any trigger helper but the watchdog's.
Trigger(s, k) == k # WatchKey /\ SendAlert(s, k)

\* check_cron_health: no success on record is no reason to alert.
Stale == success # Never /\ now - success > Limit

Watch(s) == Stale /\ SendAlert(s, WatchKey)

\* run_sync ends well.
RunSucceeds ==
    /\ success' = now
    /\ UNCHANGED <<now, row, job, began,
                   repeated, overlapped, unrecorded, raised>>

Tick ==
    /\ now < MaxTime
    /\ now' = now + 1
    /\ UNCHANGED <<row, job, success, began,
                   repeated, overlapped, unrecorded, raised>>

\* The process dies, or the database fails the session of every call.
Crash ==
    /\ \E s \in Sessions : ~At(s, "idle")
    /\ job' = [s \in Sessions |-> NoJob]
    /\ unrecorded' = unrecorded \cup {k \in Keys : Sending(k) # {}}
    /\ UNCHANGED <<now, row, success, began,
                   repeated, overlapped, raised>>

Call(s) == Post(s) \/ Record(s) \/ RecordConflict(s)

Next ==
    \/ \E s \in Sessions :
          Call(s) \/ Watch(s) \/ \E k \in Keys : Trigger(s, k)
    \/ RunSucceeds
    \/ Tick
    \/ Crash

Spec == Init /\ [][Next]_vars
-----------------------------------------------------------------------------
(* What alerting promises *)

\* A sustained incident is never silenced for longer than the window: while
\* calls of a key are suppressed, one was admitted less than a window ago.
SilenceIsBounded ==
    \A k \in Keys : Recent(k) => began[k] # Never /\ now - began[k] < Window

\* A key is sent twice within its window only after two calls overlapped, or
\* after one was cut off before it recorded what it sent.
RepeatsExplained == repeated \subseteq overlapped \cup unrecorded

\* Alerting takes its caller down only when two calls of a key overlapped.
RaisesExplained == raised \subseteq overlapped

\* Every outage is alerted anew: what suppresses the watchdog's alert was begun
\* in the same outage, never in one that a successful run has ended.
OutageHasOwnAlert == Stale /\ Recent(WatchKey) => row[WatchKey] > success + Limit
=============================================================================
