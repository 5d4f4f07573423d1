---------------------------- MODULE AlertsProofs ----------------------------
(***************************************************************************)
(* Theorems of Alerts, for any threads and keys, any window, and any limit *)
(* of the watchdog that is no shorter than the window.                     *)
(***************************************************************************)
EXTENDS Alerts, TLAPS

-----------------------------------------------------------------------------
(* The inductive invariant *)

\* Nothing is dated in the future, and what is recorded or being sent no later
\* than the last call that sends.
Clocked ==
    /\ success <= now
    /\ \A k \in Keys : row[k] <= began[k] /\ began[k] <= now
    /\ \A s \in Sessions : ~At(s, "idle") => job[s].start <= began[job[s].key]

\* A key whose calls did not overlap has one call at most, the one begun last,
\* and between two calls the row says when that was, unless one was cut off.
Recorded ==
    \A k \in Keys \ overlapped :
        /\ \A s, t \in Sending(k) : s = t
        /\ \A s \in Sending(k) : /\ job[s].start = began[k]
                                 /\ job[s].fresh => row[k] = Never
        /\ Sending(k) = {} /\ k \notin unrecorded => row[k] = began[k]

\* Time t is none of the present outage, or it is past the watchdog's limit.
PastLimit(t) == success # Never /\ (t > success => t > success + Limit)

\* The watchdog alerts only when the limit has passed.
WatchedOutage ==
    /\ row[WatchKey] # Never => PastLimit(row[WatchKey])
    /\ \A s \in Sending(WatchKey) : PastLimit(job[s].start)

IInv ==
    /\ TypeOK
    /\ Clocked
    /\ Recorded
    /\ RepeatsExplained
    /\ RaisesExplained
    /\ WatchedOutage

USE KeysAssumption, WindowAssumption, LimitAssumption, TimeAssumption

-----------------------------------------------------------------------------
(* The steps *)

\* A step of the service is one of these: a suppressed call changes nothing,
\* and the watchdog alone alerts under its key.
LEMMA Steps ==
    ASSUME [Next]_vars
    PROVE  \/ UNCHANGED vars
           \/ \E s \in Sessions, k \in Keys : Admit(s, k) /\ (k = WatchKey => Stale)
           \/ \E s \in Sessions : Post(s)
           \/ \E s \in Sessions : Record(s)
           \/ \E s \in Sessions : RecordConflict(s)
           \/ RunSucceeds
           \/ Tick
           \/ Crash
    BY DEF Next, Call, Watch, Trigger, SendAlert, Suppress

\* Every variable keeps its type.
LEMMA TypeStep == TypeOK /\ [Next]_vars => TypeOK'
<1> SUFFICES ASSUME TypeOK, [Next]_vars PROVE TypeOK'
    OBVIOUS
<1> USE DEF TypeOK, Times, TimesOrNever, Never, Jobs, Becomes, NoJob
<1>1. CASE UNCHANGED vars
    BY <1>1 DEF vars
<1>2. ASSUME NEW s \in Sessions, NEW k \in Keys, Admit(s, k)
      PROVE  TypeOK'
    BY <1>2 DEF Admit
<1>3. ASSUME NEW s \in Sessions, Post(s)
      PROVE  TypeOK'
  <2>1. job[s] \in Jobs /\ [job[s] EXCEPT !.pc = "record"] \in Jobs
      OBVIOUS
  <2> QED BY <1>3, <2>1 DEF Post
<1>4. ASSUME NEW s \in Sessions, Record(s)
      PROVE  TypeOK'
    BY <1>4 DEF Record
<1>5. ASSUME NEW s \in Sessions, RecordConflict(s)
      PROVE  TypeOK'
    BY <1>5 DEF RecordConflict
<1>6. CASE RunSucceeds
    BY <1>6 DEF RunSucceeds
<1>7. CASE Tick
    BY <1>7 DEF Tick
<1>8. CASE Crash
    BY <1>8 DEF Crash
<1> QED BY <1>1, <1>2, <1>3, <1>4, <1>5, <1>6, <1>7, <1>8, Steps

\* Times stay in their order: the clock only moves forward, and a call records
\* the time it was begun.
LEMMA ClockedStep == TypeOK /\ Clocked /\ [Next]_vars => Clocked'
<1> SUFFICES ASSUME TypeOK, Clocked, [Next]_vars PROVE Clocked'
    OBVIOUS
<1> USE DEF TypeOK, Clocked, Times, TimesOrNever, Never, Jobs, At, Becomes, NoJob
<1>1. CASE UNCHANGED vars
    BY <1>1 DEF vars
<1>2. ASSUME NEW s \in Sessions, NEW k \in Keys, Admit(s, k)
      PROVE  Clocked'
    BY <1>2 DEF Admit
<1>3. ASSUME NEW s \in Sessions, Post(s)
      PROVE  Clocked'
    BY <1>3 DEF Post
<1>4. ASSUME NEW s \in Sessions, Record(s)
      PROVE  Clocked'
    BY <1>4 DEF Record
<1>5. ASSUME NEW s \in Sessions, RecordConflict(s)
      PROVE  Clocked'
    BY <1>5 DEF RecordConflict
<1>6. CASE RunSucceeds
    BY <1>6 DEF RunSucceeds
<1>7. CASE Tick
    BY <1>7 DEF Tick
<1>8. CASE Crash
    BY <1>8 DEF Crash
<1> QED BY <1>1, <1>2, <1>3, <1>4, <1>5, <1>6, <1>7, <1>8, Steps

-----------------------------------------------------------------------------
(* Repetition *)

\* Only an overlap and a cut off call part the row of a key from the call that
\* was begun last, so only they let a key be sent twice in its window or make
\* two calls insert its row.
LEMMA RecordedStep ==
    ASSUME TypeOK, Recorded, RepeatsExplained, RaisesExplained, [Next]_vars
    PROVE  Recorded' /\ RepeatsExplained' /\ RaisesExplained'
<1> USE DEF TypeOK, Recorded, RepeatsExplained, RaisesExplained, Sending, At,
            Becomes, NoJob
<1>1. CASE UNCHANGED vars
    BY <1>1 DEF vars
<1>2. ASSUME NEW s \in Sessions, NEW k \in Keys, Admit(s, k)
      PROVE  Recorded' /\ RepeatsExplained' /\ RaisesExplained'
  <2>1. job'[s] = [pc |-> "post", key |-> k, start |-> now, fresh |-> row[k] = Never]
      BY <1>2 DEF Admit
  <2>2. \A t \in Sessions \ {s} : job'[t] = job[t]
      BY <1>2 DEF Admit
  <2>3. began' = [began EXCEPT ![k] = now] /\ UNCHANGED <<now, row, unrecorded, raised>>
      BY <1>2 DEF Admit
  <2>4. overlapped' = IF Sending(k) # {} THEN overlapped \cup {k} ELSE overlapped
      BY <1>2 DEF Admit
  <2>5. k \notin overlapped' =>
           Sending(k) = {} /\ (k \notin unrecorded => row[k] = began[k])
      BY <2>4
  <2>6. \A l \in Keys \ {k} : Sending(l)' = Sending(l) /\ s \notin Sending(l)
      BY <1>2, <2>1, <2>2 DEF Admit
  <2>7. Recorded'
    <3> SUFFICES ASSUME NEW l \in Keys, l \notin overlapped'
                 PROVE  /\ \A t, u \in Sending(l)' : t = u
                        /\ \A t \in Sending(l)' : /\ job'[t].start = began'[l]
                                                  /\ job'[t].fresh => row'[l] = Never
                        /\ Sending(l)' = {} /\ l \notin unrecorded' => row'[l] = began'[l]
        OBVIOUS
    <3>1. CASE l = k
      <4>1. s \in Sending(k)' /\ \A t \in Sending(k)' : t = s
          BY <2>1, <2>2, <2>5, <3>1
      <4>2. job'[s].start = began'[k]
          BY <2>1, <2>3
      <4>3. job'[s].fresh => row'[k] = Never
        <5>1. job'[s].fresh = (row[k] = Never)
            BY <2>1
        <5> QED BY <2>3, <5>1
      <4> HIDE DEF Sending
      <4> QED BY <3>1, <4>1, <4>2, <4>3
    <3>2. CASE l # k
        BY <2>2, <2>3, <2>4, <2>6, <3>2
    <3> QED BY <3>1, <3>2
  <2>8. RepeatsExplained'
    <3>1. k \in repeated' \ repeated => began[k] # Never /\ now - began[k] < Window
        BY <1>2 DEF Admit
    <3>2. k \in repeated' \ repeated => row[k] # began[k]
        BY <1>2, <3>1 DEF Admit, Recent, Times, TimesOrNever, Never
    <3>3. repeated' \subseteq repeated \cup {k}
        BY <1>2 DEF Admit
    <3> QED BY <2>3, <2>4, <2>5, <3>2, <3>3
  <2>9. RaisesExplained'
      BY <2>3, <2>4
  <2> QED BY <2>7, <2>8, <2>9
<1>3. ASSUME NEW s \in Sessions, Post(s)
      PROVE  Recorded' /\ RepeatsExplained' /\ RaisesExplained'
  <2>1. \A t \in Sessions : /\ job'[t].key = job[t].key
                            /\ job'[t].start = job[t].start
                            /\ job'[t].fresh = job[t].fresh
                            /\ job'[t].pc = "idle" <=> job[t].pc = "idle"
      BY <1>3 DEF Post, Jobs
  <2>2. \A k \in Keys : Sending(k)' = Sending(k)
      BY <2>1
  <2> QED BY <1>3, <2>1, <2>2 DEF Post
<1>4. ASSUME NEW s \in Sessions, Record(s)
      PROVE  Recorded' /\ RepeatsExplained' /\ RaisesExplained'
  <2> DEFINE k == job[s].key
  <2>1. k \in Keys /\ s \in Sending(k)
      BY <1>4 DEF Record, Jobs
  <2>2. \A l \in Keys : Sending(l)' = Sending(l) \ {s}
      BY <1>4 DEF Record
  <2>3. row' = [row EXCEPT ![k] = job[s].start]
      BY <1>4 DEF Record
  <2>4. \A l \in Keys \ {k} : Sending(l)' = Sending(l)
      BY <2>1, <2>2
  <2>5. \A t \in Sessions \ {s} : job'[t] = job[t]
      BY <1>4 DEF Record
  <2>6. UNCHANGED <<began, repeated, overlapped, unrecorded, raised>>
      BY <1>4 DEF Record
  <2>7. Recorded'
    <3> SUFFICES ASSUME NEW l \in Keys, l \notin overlapped
                 PROVE  /\ \A t, u \in Sending(l)' : t = u
                        /\ \A t \in Sending(l)' : /\ job'[t].start = began[l]
                                                  /\ job'[t].fresh => row'[l] = Never
                        /\ Sending(l)' = {} /\ l \notin unrecorded => row'[l] = began[l]
        BY <2>6
    <3>1. CASE l = k
        BY <2>1, <2>2, <2>3, <3>1
    <3>2. CASE l # k
        BY <2>2, <2>3, <2>4, <2>5, <3>2
    <3> QED BY <3>1, <3>2
  <2> QED BY <2>6, <2>7
<1>5. ASSUME NEW s \in Sessions, RecordConflict(s)
      PROVE  Recorded' /\ RepeatsExplained' /\ RaisesExplained'
  <2> DEFINE k == job[s].key
  <2>1. k \in Keys /\ s \in Sending(k)
      BY <1>5 DEF RecordConflict, Jobs
  <2>2. k \in overlapped
      BY <1>5, <2>1 DEF RecordConflict
  <2>3. \A l \in Keys \ {k} : Sending(l)' = Sending(l)
      BY <1>5 DEF RecordConflict
  <2> QED BY <1>5, <2>1, <2>2, <2>3 DEF RecordConflict
<1>6. CASE RunSucceeds
    BY <1>6 DEF RunSucceeds
<1>7. CASE Tick
    BY <1>7 DEF Tick
<1>8. CASE Crash
    BY <1>8 DEF Crash
<1> QED BY <1>1, <1>2, <1>3, <1>4, <1>5, <1>6, <1>7, <1>8, Steps

-----------------------------------------------------------------------------
(* The watchdog *)

\* What the watchdog sends, and what it has on record, was due: a run that
\* succeeds later ends the outage, as it succeeds no earlier.
LEMMA WatchedStep ==
    ASSUME TypeOK, Clocked, WatchedOutage, [Next]_vars
    PROVE  WatchedOutage'
<1> USE DEF TypeOK, WatchedOutage, PastLimit, Sending, At, Becomes, NoJob,
            Times, TimesOrNever, Never
<1>1. CASE UNCHANGED vars
    BY <1>1 DEF vars
<1>2. ASSUME NEW s \in Sessions, NEW k \in Keys, Admit(s, k), k = WatchKey => Stale
      PROVE  WatchedOutage'
    BY <1>2 DEF Admit, Stale
<1>3. ASSUME NEW s \in Sessions, Post(s)
      PROVE  WatchedOutage'
  <2>1. \A t \in Sessions : /\ job'[t].key = job[t].key
                            /\ job'[t].start = job[t].start
                            /\ job'[t].pc = "idle" <=> job[t].pc = "idle"
      BY <1>3 DEF Post, Jobs
  <2> QED BY <1>3, <2>1 DEF Post
<1>4. ASSUME NEW s \in Sessions, Record(s)
      PROVE  WatchedOutage'
    BY <1>4 DEF Record
<1>5. ASSUME NEW s \in Sessions, RecordConflict(s)
      PROVE  WatchedOutage'
    BY <1>5 DEF RecordConflict
<1>6. CASE RunSucceeds
  <2>1. row[WatchKey] <= now
      BY DEF Clocked
  <2>2. \A s \in Sending(WatchKey) : job[s].start <= now
      BY DEF Clocked, Jobs
  <2> QED BY <1>6, <2>1, <2>2 DEF RunSucceeds, Jobs
<1>7. CASE Tick
    BY <1>7 DEF Tick
<1>8. CASE Crash
    BY <1>8 DEF Crash
<1> QED BY <1>1, <1>2, <1>3, <1>4, <1>5, <1>6, <1>7, <1>8, Steps

-----------------------------------------------------------------------------
(* The theorems *)

LEMMA InitIInv == Init => IInv
    BY DEF Init, IInv, TypeOK, Clocked, Recorded, RepeatsExplained, RaisesExplained,
           WatchedOutage, Times, TimesOrNever, Never, Jobs, NoJob, At, Sending

LEMMA StepIInv == IInv /\ [Next]_vars => IInv'
    BY TypeStep, ClockedStep, RecordedStep, WatchedStep DEF IInv

\* The inductive invariant of send_alert, its callers and the clock.
THEOREM Invariance == Spec => []IInv
    BY InitIInv, StepIInv, PTL DEF Spec

\* Every variable of the alerting keeps its type.
THEOREM TypeCorrect == Spec => []TypeOK
<1>1. IInv => TypeOK
    BY DEF IInv
<1> QED BY <1>1, Invariance, PTL

\* However many threads alert, a key is silent only for a window after a call
\* that was admitted: a suppressed call never extends the silence.
THEOREM SilenceBounded == Spec => []SilenceIsBounded
<1>1. IInv => SilenceIsBounded
    BY DEF IInv, TypeOK, Clocked, SilenceIsBounded, Recent, Times, TimesOrNever, Never
<1> QED BY <1>1, Invariance, PTL

\* A message repeated within its window had an overlapping or a cut off call.
THEOREM RepeatsAreExplained == Spec => []RepeatsExplained
<1>1. IInv => RepeatsExplained
    BY DEF IInv
<1> QED BY <1>1, Invariance, PTL

\* send_alert raises for a conflict only after two calls of the key overlapped.
THEOREM RaisesAreExplained == Spec => []RaisesExplained
<1>1. IInv => RaisesExplained
    BY DEF IInv
<1> QED BY <1>1, Invariance, PTL

\* The alert of one outage never suppresses the alert of the next, since the
\* limit is no shorter than the window.
THEOREM OutagesAreAlerted == Spec => []OutageHasOwnAlert
<1>1. IInv => OutageHasOwnAlert
    BY DEF IInv, TypeOK, WatchedOutage, PastLimit, OutageHasOwnAlert, Stale, Recent,
           Times, TimesOrNever, Never
<1> QED BY <1>1, Invariance, PTL
=============================================================================
