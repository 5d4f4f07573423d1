------------------------- MODULE GeocodeCacheProofs -------------------------
(***************************************************************************)
(* The safety properties of GeocodeCache, for any number of sessions and   *)
(* addresses.                                                              *)
(***************************************************************************)
EXTENDS GeocodeCache, TLAPS, FiniteSetTheorems

\* The sessions that will ask for an address or hold an answer for it.
InPlay(k) == Missing(k) \cup Holding(k)

\* A session that has missed has no row of its own, and a verdict an address.
Local ==
    /\ \A s \in Sessions : job[s].pc \in CallPcs \cup HeldPcs => draft[s][job[s].key] = NoAnswer
    /\ \A s \in Sessions : job[s].verdict # "none" => job[s].key \in Keys

\* Each request past the first has an excuse, the pending ones included; and
\* while nothing is committed even the first is held by some session.
Paid ==
    \A k \in Keys :
       /\ asked[k] + Cardinality(Missing(k)) <= 1 + Excuses(k)
       /\ cache[k] = NoAnswer => asked[k] <= Excuses(k) + Cardinality(Holding(k))

\* Two sessions at one address, or one and a committed row, have overlapped.
Apart ==
    \A k \in Keys : \A s \in InPlay(k) :
       cache[k] # NoAnswer \/ InPlay(k) # {s} => overlap[k] > 0

\* Without an excuse, every verdict is that of the one answer there is.
Evidence ==
    \A s \in Sessions, k \in Keys :
       On(s, k) /\ job[s].verdict # "none" /\ Excuses(k) = 0 =>
          \/ cache[k] # NoAnswer /\ job[s].verdict = Verdict(cache[k])
          \/ \E t \in Sessions : draft[t][k] # NoAnswer /\ job[s].verdict = Verdict(draft[t][k])

\* A sleeper whose sleep is over before the interval is.
Spoiled(s) == job[s].wait + since < Interval

\* Of those who sleep at once all but one have been counted, and all of them
\* once a request has been made since one of them fell asleep.
Spaced ==
    /\ bursts <= crowd
    /\ Sleepers # {} => bursts + Cardinality(Sleepers) <= crowd + 1
    /\ (\E s \in Sleepers : Spoiled(s)) => bursts + Cardinality(Sleepers) <= crowd

IInv == TypeOK /\ Local /\ Paid /\ Apart /\ Evidence /\ Spaced

-----------------------------------------------------------------------------
(* Types *)

\* What a backend says becomes an answer: a confidence between 0 and 10 tenths.
LEMMA RepliesAreAnswers == TypeOK => Replies \subseteq Answers
<1> SUFFICES ASSUME TypeOK, NEW answer \in Replies PROVE answer \in Answers
    OBVIOUS
<1>1. \A r \in GoogleReplies : GoogleConfidence(r) \in 0..10
    BY DEF GoogleConfidence, TypeConfidence
<1>2. \A i \in NominatimReplies : NominatimConfidence(i) \in 0..10
    BY RepliesAssumption DEF NominatimConfidence
<1> QED BY <1>1, <1>2 DEF Replies, Answers, TypeOK

\* No answer is not an answer, and not the mark of one either.
LEMMA NoAnswerIsNone == NoAnswer \notin Answers
    BY DEF NoAnswer, Answers

\* A session's job is replaced and no other one's.
LEMMA OneMoves ==
    ASSUME TypeOK, NEW s \in Sessions, NEW j, Becomes(s, j)
    PROVE  job'[s] = j /\ \A t \in Sessions \ {s} : job'[t] = job[t]
    BY DEF Becomes, TypeOK

\* A call that goes on, or returns, keeps the shape of its record.
LEMMA JobGoes ==
    ASSUME NEW j \in Jobs, NEW p \in Pcs
    PROVE  [j EXCEPT !.pc = p] \in Jobs
    BY DEF Jobs
LEMMA JobReturns ==
    ASSUME NEW j \in Jobs, NEW answer \in Answers \cup {NoAnswer}
    PROVE  [j EXCEPT !.pc = "ready", !.answer = NoAnswer, !.verdict = Verdict(answer)] \in Jobs
    BY DEF Jobs, Pcs, Verdict
LEMMA JobSleeps ==
    ASSUME NEW j \in Jobs, NEW w \in 0..Interval
    PROVE  [j EXCEPT !.pc = "sleep", !.wait = w] \in Jobs /\ [j EXCEPT !.wait = w] \in Jobs
    BY DEF Jobs, Pcs, CallPcs
LEMMA JobFinds ==
    ASSUME NEW j \in Jobs, NEW answer \in Answers
    PROVE  [j EXCEPT !.pc = "check", !.answer = answer] \in Jobs
    BY DEF Jobs, Pcs, HeldPcs
LEMMA NoJobIsJob ==
    /\ NoJob \in Jobs
    /\ \A k \in Keys : [NoJob EXCEPT !.pc = "lookup", !.key = k] \in Jobs
<1>1. NoJob \in Jobs
    BY BoundsAssumption DEF NoJob, Jobs, Pcs
<1>2. \A k \in Keys : NoJob.key = NoKey /\ [NoJob EXCEPT !.key = k] \in Jobs
    BY <1>1 DEF NoJob, Jobs
<1>3. \A k \in Keys : [NoJob EXCEPT !.pc = "lookup", !.key = k]
                        = [[NoJob EXCEPT !.key = k] EXCEPT !.pc = "lookup"]
    BY DEF NoJob
<1> QED BY <1>1, <1>2, <1>3, JobGoes DEF Pcs

\* The steps there are.
LEMMA Steps ==
    ASSUME Next
    PROVE  \/ \E s \in Sessions, k \in Keys : Resolve(s, k)
           \/ \E s \in Sessions :
                 \/ Hit(s) \/ Miss(s) \/ Limit(s) \/ Wake(s)
                 \/ Found(s) \/ NotFound(s) \/ BackendRaises(s)
                 \/ CheckRow(s) \/ Insert(s) \/ Update(s)
                 \/ Undo(s) \/ Commit(s)
           \/ Tick \/ Crash \/ UNCHANGED vars
    BY DEF Next, Step, InsertConflict, Deadlock, RollBack, Finished

\* What the job of a moving session must be for the types to hold.
GoodJob(j) ==
    /\ j \in Jobs
    /\ j.pc \notin {"ready", "raised"} => j.key \in Keys
    /\ j.pc \in HeldPcs => j.answer # NoAnswer
LEMMA JobsStayTyped ==
    ASSUME TypeOK, NEW s \in Sessions, NEW j, Becomes(s, j), GoodJob(j)
    PROVE  /\ job' \in [Sessions -> Jobs]
           /\ \A t \in Sessions : Busy(t)' => job'[t].key \in Keys
           /\ \A t \in Sessions : job'[t].pc \in HeldPcs => job'[t].answer # NoAnswer
    BY DEF TypeOK, Becomes, Busy, GoodJob

\* Every variable keeps its type.
LEMMA TypeStep == TypeOK /\ [Next]_vars => TypeOK'
<1> SUFFICES ASSUME TypeOK, [Next]_vars PROVE TypeOK'
    OBVIOUS
<1> USE BoundsAssumption
<1>a. \A s \in Sessions : GoodJob(job[s])
    BY DEF TypeOK, GoodJob, Busy
<1>b. \A s \in Sessions, p \in Pcs \ HeldPcs :
         Busy(s) => GoodJob([job[s] EXCEPT !.pc = p])
    BY JobGoes DEF TypeOK, GoodJob, Jobs
<1>c. \A s \in Sessions, answer \in Answers \cup {NoAnswer} :
         GoodJob([job[s] EXCEPT !.pc = "ready", !.answer = NoAnswer, !.verdict = Verdict(answer)])
    BY JobReturns DEF TypeOK, GoodJob, Jobs, HeldPcs
<1>d. GoodJob(NoJob)
    BY NoJobIsJob DEF GoodJob, NoJob, HeldPcs
<1>e. \A s \in Sessions : Visible(s) \in Answers \cup {NoAnswer} \/ ~Busy(s)
    BY DEF TypeOK, Visible
<1>f. NoDrafts \in [Keys -> Answers \cup {NoAnswer}]
    BY DEF NoDrafts
<1>1. ASSUME NEW s \in Sessions, NEW k \in Keys, Resolve(s, k)
      PROVE  TypeOK'
  <2>1. GoodJob([NoJob EXCEPT !.pc = "lookup", !.key = k])
      BY NoJobIsJob DEF GoodJob, NoJob, HeldPcs
  <2> QED BY <1>1, <2>1, JobsStayTyped DEF Resolve, TypeOK, database, history
<1>2. ASSUME NEW s \in Sessions, Hit(s)
      PROVE  TypeOK'
  <2>1. Visible(s) \in Answers \cup {NoAnswer}
      BY <1>2, <1>e DEF Hit, At, Busy
  <2> QED BY <1>2, <1>c, <2>1, JobsStayTyped DEF Hit, Return, TypeOK, database, history
<1>3. ASSUME NEW s \in Sessions, Miss(s)
      PROVE  TypeOK'
  <2>1. job[s].key \in Keys /\ Busy(s)
      BY <1>3 DEF Miss, At, Busy, TypeOK
  <2>2. overlap' \in [Keys -> Nat]
      BY <1>3, <2>1 DEF Miss, TypeOK
  <2>3. \A p \in {"limit", "call"} : GoodJob([job[s] EXCEPT !.pc = p])
      BY <1>b, <2>1 DEF Pcs, CallPcs, HeldPcs
  <2> QED BY <1>3, <2>2, <2>3, JobsStayTyped DEF Miss, Goto, TypeOK, database
<1>4. ASSUME NEW s \in Sessions, Limit(s)
      PROVE  TypeOK'
  <2>1. Interval - since \in 0..Interval
      BY DEF TypeOK
  <2>2. GoodJob([job[s] EXCEPT !.pc = "sleep", !.wait = Interval - since])
      BY <1>4, <2>1, JobSleeps DEF Limit, At, GoodJob, TypeOK, Busy, Jobs, HeldPcs
  <2>3. crowd' \in Nat
      BY <1>4 DEF Limit, TypeOK
  <2> QED BY <1>4, <2>2, <2>3, JobsStayTyped DEF Limit, TypeOK, database
<1>5. ASSUME NEW s \in Sessions, Wake(s)
      PROVE  TypeOK'
  <2>1. GoodJob([job[s] EXCEPT !.pc = "call"])
      BY <1>5, <1>b DEF Wake, At, Busy, Pcs, CallPcs, HeldPcs
  <2>2. bursts' \in Nat /\ since' \in 0..Interval
      BY <1>5 DEF Wake, TypeOK
  <2> QED BY <1>5, <2>1, <2>2, JobsStayTyped DEF Wake, Goto, TypeOK, database
<1>6. ASSUME NEW s \in Sessions, Found(s)
      PROVE  TypeOK'
  <2>1. PICK answer \in Answers : Becomes(s, [job[s] EXCEPT !.pc = "check", !.answer = answer])
      BY <1>6, RepliesAreAnswers DEF Found
  <2>2. GoodJob([job[s] EXCEPT !.pc = "check", !.answer = answer])
      BY <1>6, JobFinds, NoAnswerIsNone DEF Found, At, GoodJob, TypeOK, Busy, Jobs
  <2>3. job[s].key \in Keys /\ asked' \in [Keys -> Nat]
      BY <1>6 DEF Found, At, Asks, TypeOK, Busy
  <2> QED BY <1>6, <2>1, <2>2, <2>3, JobsStayTyped DEF Found, TypeOK, database
<1>7. ASSUME NEW s \in Sessions, NotFound(s) \/ BackendRaises(s)
      PROVE  TypeOK'
  <2>1. job[s].key \in Keys /\ asked' \in [Keys -> Nat] /\ wasted' \in [Keys -> Nat]
    <3>1. job[s].key \in Keys
        BY <1>7 DEF NotFound, BackendRaises, At, TypeOK, Busy
    <3> QED BY <1>7, <3>1 DEF NotFound, BackendRaises, Asks, Wastes, TypeOK
  <2>2. GoodJob([job[s] EXCEPT !.pc = "raised"])
      BY <1>7, <1>b DEF NotFound, BackendRaises, At, Busy, Pcs, HeldPcs
  <2> QED BY <1>7, <1>c, <2>1, <2>2, JobsStayTyped
          DEF NotFound, BackendRaises, Goto, Return, TypeOK, database
<1>8. ASSUME NEW s \in Sessions, CheckRow(s)
      PROVE  TypeOK'
  <2>1. /\ GoodJob([job[s] EXCEPT !.pc = "insert"])
        /\ GoodJob([job[s] EXCEPT !.pc = "update"])
    <3>1. job[s] \in Jobs /\ job[s].key \in Keys /\ job[s].answer # NoAnswer
        BY <1>8 DEF CheckRow, At, TypeOK, Busy, HeldPcs
    <3>2. \A p \in {"insert", "update"} : [job[s] EXCEPT !.pc = p] \in Jobs
        BY <3>1, JobGoes DEF Pcs, HeldPcs
    <3> QED BY <3>1, <3>2 DEF GoodJob, Jobs
  <2>2. Visible(s) \in Answers \cup {NoAnswer}
      BY <1>8, <1>e DEF CheckRow, At, Busy
  <2>3. \E j : GoodJob(j) /\ Becomes(s, j)
    <3>1. CASE Visible(s) = NoAnswer
      <4>1. job[s].answer # NoAnswer
          BY <1>8 DEF CheckRow, At, TypeOK, HeldPcs
      <4> QED BY <1>8, <2>1, <3>1, <4>1 DEF CheckRow, Goto
    <3>2. CASE Visible(s) # NoAnswer /\ Visible(s) = job[s].answer
        BY <1>8, <1>c, <2>2, <3>2 DEF CheckRow, Return
    <3>3. CASE Visible(s) # NoAnswer /\ Visible(s) # job[s].answer
        BY <1>8, <2>1, <3>3 DEF CheckRow, Goto
    <3> QED BY <3>1, <3>2, <3>3
  <2> QED BY <1>8, <2>3, JobsStayTyped DEF CheckRow, TypeOK, database, history
<1>9. ASSUME NEW s \in Sessions, Insert(s) \/ Update(s)
      PROVE  TypeOK'
  <2>1. job[s].answer \in Answers \cup {NoAnswer} /\ job[s].key \in Keys
      BY <1>9 DEF Insert, Update, At, TypeOK, Busy, Jobs
  <2>2. draft' \in [Sessions -> [Keys -> Answers \cup {NoAnswer}]]
      BY <1>9, <2>1 DEF Insert, Update, Flush, TypeOK
  <2> QED BY <1>9, <1>c, <2>1, <2>2, JobsStayTyped
          DEF Insert, Update, Flush, Return, TypeOK, history
<1>10. ASSUME NEW s \in Sessions, Undo(s)
       PROVE  TypeOK'
  <2>1. draft' \in [Sessions -> [Keys -> Answers \cup {NoAnswer}]]
      BY <1>10, <1>f DEF Undo, TypeOK
  <2>2. wasted' \in [Keys -> Nat]
      BY <1>10 DEF Undo, TypeOK
  <2> QED BY <1>10, <1>d, <2>1, <2>2, JobsStayTyped DEF Undo, TypeOK
<1>11. ASSUME NEW s \in Sessions, Commit(s)
       PROVE  TypeOK'
  <2>1. draft' \in [Sessions -> [Keys -> Answers \cup {NoAnswer}]]
      BY <1>11, <1>f DEF Commit, TypeOK
  <2>2. cache' \in [Keys -> Answers \cup {NoAnswer}]
      BY <1>11 DEF Commit, TypeOK
  <2>3. GoodJob([job[s] EXCEPT !.pc = "ready"])
    <3>1. job[s] \in Jobs /\ [job[s] EXCEPT !.pc = "ready"] \in Jobs
        BY JobGoes DEF TypeOK, Pcs
    <3> QED BY <3>1 DEF GoodJob, Jobs, HeldPcs
  <2> QED BY <1>11, <2>1, <2>2, <2>3, JobsStayTyped DEF Commit, Goto, TypeOK, history
<1>12. CASE Tick
  <2>1. \A s \in Sessions : LET j == [job[s] EXCEPT !.wait = IF @ > 0 THEN @ - 1 ELSE 0]
                             IN  GoodJob(j) /\ job'[s] = j
    <3> SUFFICES ASSUME NEW s \in Sessions
                 PROVE  LET j == [job[s] EXCEPT !.wait = IF @ > 0 THEN @ - 1 ELSE 0]
                        IN  GoodJob(j) /\ job'[s] = j
        OBVIOUS
    <3>1. job[s].wait \in 0..Interval
        BY DEF TypeOK, Jobs
    <3>2. (IF job[s].wait > 0 THEN job[s].wait - 1 ELSE 0) \in 0..Interval
        BY <3>1
    <3>3. GoodJob([job[s] EXCEPT !.wait = IF @ > 0 THEN @ - 1 ELSE 0])
        BY <1>a, <3>2, JobSleeps DEF GoodJob, Jobs
    <3> QED BY <1>12, <3>3 DEF Tick
  <2>2. since' \in 0..Interval
      BY <1>12 DEF Tick, TypeOK
  <2>3. job' \in [Sessions -> Jobs]
      BY <1>12, <2>1 DEF Tick, GoodJob
  <2> QED BY <1>12, <2>1, <2>2, <2>3 DEF Tick, TypeOK, GoodJob, Busy, database, history
<1>13. CASE Crash
  <2>1. wasted' \in [Keys -> Nat]
    <3>1. \A k \in Keys : Cardinality(Holding(k)) \in Nat
        BY SessionsAssumption, FS_Subset, FS_CardinalityType DEF Holding
    <3> QED BY <1>13, <3>1 DEF Crash, TypeOK
  <2>2. job' \in [Sessions -> Jobs] /\ draft' \in [Sessions -> [Keys -> Answers \cup {NoAnswer}]]
      BY <1>13, <1>d, <1>f DEF Crash, GoodJob
  <2> QED BY <1>13, <1>d, <2>1, <2>2 DEF Crash, TypeOK, GoodJob, Busy
<1>14. CASE UNCHANGED vars
    BY <1>14 DEF vars, TypeOK, Busy
<1> QED BY Steps, <1>1, <1>2, <1>3, <1>4, <1>5, <1>6, <1>7, <1>8, <1>9, <1>10, <1>11, <1>12,
           <1>13, <1>14

-----------------------------------------------------------------------------
(* What a step of session s does at address k *)

Counts(k) == <<asked[k], overlap[k], wasted[k]>>

Untouched(k) ==
    /\ Missing(k)' = Missing(k) /\ Holding(k)' = Holding(k)
    /\ cache'[k] = cache[k] /\ Counts(k)' = Counts(k)

\* It misses, and will ask.
Joins(s, k) ==
    /\ s \notin InPlay(k) /\ Missing(k)' = Missing(k) \cup {s} /\ Holding(k)' = Holding(k)
    /\ cache[k] = NoAnswer /\ cache'[k] = cache[k]
    /\ asked'[k] = asked[k] /\ wasted'[k] = wasted[k]
    /\ overlap'[k] = overlap[k] + (IF InPlay(k) = {} THEN 0 ELSE 1)

\* It asks, and has an answer to keep.
Answered(s, k) ==
    /\ s \in Missing(k) \ Holding(k)
    /\ Missing(k)' = Missing(k) \ {s} /\ Holding(k)' = Holding(k) \cup {s}
    /\ cache'[k] = cache[k]
    /\ asked'[k] = asked[k] + 1 /\ overlap'[k] = overlap[k] /\ wasted'[k] = wasted[k]

\* It asks in vain.
Failed(s, k) ==
    /\ s \in Missing(k) /\ Missing(k)' = Missing(k) \ {s} /\ Holding(k)' = Holding(k)
    /\ cache'[k] = cache[k]
    /\ asked'[k] = asked[k] + 1 /\ overlap'[k] = overlap[k] /\ wasted'[k] = wasted[k] + 1

\* It leaves the answer it has to the one that is committed, or commits its own.
Leaves(s, k) ==
    /\ s \in Holding(k) /\ Missing(k)' = Missing(k) /\ Holding(k)' = Holding(k) \ {s}
    /\ cache'[k] # NoAnswer /\ Counts(k)' = Counts(k)

\* It loses what it has.
Undone(s, k) ==
    /\ Missing(k)' = Missing(k) \ {s} /\ Holding(k)' = Holding(k) \ {s}
    /\ cache'[k] = cache[k] /\ asked'[k] = asked[k] /\ overlap'[k] = overlap[k]
    /\ wasted'[k] = wasted[k] + (IF s \in Holding(k) THEN 1 ELSE 0)

Effect(s, k) ==
    \/ Untouched(k) \/ Joins(s, k) \/ Answered(s, k) \/ Failed(s, k)
    \/ Leaves(s, k) \/ Undone(s, k)

\* The steps of one session.
Acts(s) ==
    \/ \E k \in Keys : Resolve(s, k)
    \/ Hit(s) \/ Miss(s) \/ Limit(s) \/ Wake(s) \/ Found(s) \/ NotFound(s) \/ BackendRaises(s)
    \/ CheckRow(s) \/ Insert(s) \/ Update(s) \/ Undo(s) \/ Commit(s)

\* The others' jobs and rows are their own.
LEMMA OthersStay ==
    ASSUME TypeOK, NEW s \in Sessions, Acts(s), NEW t \in Sessions \ {s}
    PROVE  job'[t] = job[t] /\ draft'[t] = draft[t]
<1>1. CASE \E k \in Keys : Resolve(s, k)
    BY <1>1 DEF Resolve, Becomes, TypeOK, database
<1>2. CASE Hit(s) \/ Miss(s) \/ Limit(s) \/ Wake(s)
    BY <1>2 DEF Hit, Miss, Limit, Wake, Goto, Return, Becomes, TypeOK, database
<1>3. CASE Found(s) \/ NotFound(s) \/ BackendRaises(s)
    BY <1>3 DEF Found, NotFound, BackendRaises, Goto, Return, Becomes, TypeOK, database
<1>4. CASE CheckRow(s)
  <2>1. draft' = draft /\ \E j : Becomes(s, j)
      BY <1>4 DEF CheckRow, Goto, Return, database
  <2> QED BY <2>1, OneMoves
<1>5. CASE Insert(s) \/ Update(s)
    BY <1>5 DEF Insert, Update, Flush, Return, Becomes, TypeOK
<1>6. CASE Undo(s) \/ Commit(s)
    BY <1>6 DEF Undo, Commit, Goto, Becomes, TypeOK
<1> QED BY <1>1, <1>2, <1>3, <1>4, <1>5, <1>6 DEF Acts

\* Sets that differ in s at most.
LEMMA ButFor ==
    ASSUME NEW S, NEW T, NEW s, S \ {s} = T \ {s}
    PROVE  /\ (s \in T <=> s \in S) => T = S
           /\ s \in T => T = S \cup {s}
           /\ s \notin T => T = S \ {s}
    OBVIOUS

Asking(s, k) == job[s].key = k /\ job[s].pc \in CallPcs
Owning(s, k) == draft[s][k] # NoAnswer \/ (job[s].key = k /\ job[s].pc \in HeldPcs)

LEMMA AskingIsMissing ==
    ASSUME NEW s \in Sessions, NEW k \in Keys
    PROVE  /\ s \in Missing(k) <=> Asking(s, k)
           /\ s \in Holding(k) <=> Owning(s, k)
           /\ s \in Missing(k)' <=> Asking(s, k)'
           /\ s \in Holding(k)' <=> Owning(s, k)'
    BY DEF Missing, Holding, On, Asking, Owning

\* So only s can join or leave those who ask and those who hold.
LEMMA OnlyOneMoves ==
    ASSUME TypeOK, NEW s \in Sessions, Acts(s), NEW k \in Keys
    PROVE  /\ (Asking(s, k)' <=> Asking(s, k)) => Missing(k)' = Missing(k)
           /\ Asking(s, k)' => Missing(k)' = Missing(k) \cup {s}
           /\ ~Asking(s, k)' => Missing(k)' = Missing(k) \ {s}
           /\ (Owning(s, k)' <=> Owning(s, k)) => Holding(k)' = Holding(k)
           /\ Owning(s, k)' => Holding(k)' = Holding(k) \cup {s}
           /\ ~Owning(s, k)' => Holding(k)' = Holding(k) \ {s}
<1>1. \A t \in Sessions \ {s} : job'[t] = job[t] /\ draft'[t] = draft[t]
    BY OthersStay
<1>2. Missing(k) \ {s} = Missing(k)' \ {s}
    BY <1>1 DEF Missing, On
<1>3. Holding(k) \ {s} = Holding(k)' \ {s}
    BY <1>1 DEF Holding, On
<1> QED BY <1>2, <1>3, ButFor, AskingIsMissing

\* Every step of a session has one of the effects.
LEMMA Effects ==
    ASSUME TypeOK, Local, NEW s \in Sessions, Acts(s), NEW k \in Keys
    PROVE  Effect(s, k)
<1> USE OnlyOneMoves, AskingIsMissing DEF Effect
<1>u. ASSUME Asking(s, k)' <=> Asking(s, k), Owning(s, k)' <=> Owning(s, k),
             cache'[k] = cache[k], Counts(k)' = Counts(k)
      PROVE  Untouched(k)
    BY <1>u DEF Untouched
<1>1. CASE \/ \E l \in Keys : Resolve(s, l)
           \/ Hit(s) \/ Limit(s) \/ Wake(s)
  <2>0. /\ draft' = draft
        /\ \/ job[s].pc \in {"ready", "lookup"} /\ job'[s].pc \in {"ready", "lookup"}
           \/ job'[s].key = job[s].key /\ job[s].pc \in CallPcs /\ job'[s].pc \in CallPcs
    <3>1. CASE \E l \in Keys : Resolve(s, l)
        BY <3>1 DEF Resolve, At, Becomes, TypeOK, NoJob, database
    <3>2. CASE Hit(s)
        BY <3>2 DEF Hit, At, Return, Becomes, TypeOK, Jobs, database
    <3>3. CASE Limit(s)
        BY <3>3 DEF Limit, At, Becomes, TypeOK, Jobs, CallPcs, database
    <3>4. CASE Wake(s)
        BY <3>4 DEF Wake, At, Goto, Becomes, TypeOK, Jobs, CallPcs, database
    <3> QED BY <1>1, <3>1, <3>2, <3>3, <3>4
  <2>1. Asking(s, k)' <=> Asking(s, k)
      BY <2>0 DEF CallPcs, Asking
  <2>2. Owning(s, k)' <=> Owning(s, k)
      BY <2>0 DEF CallPcs, HeldPcs, Owning
  <2>3. cache'[k] = cache[k] /\ Counts(k)' = Counts(k)
      BY <1>1 DEF Resolve, Hit, Limit, Wake, database, history, Counts
  <2> QED BY <1>u, <2>1, <2>2, <2>3
<1>2. CASE Miss(s)
  <2>1. CASE job[s].key = k
    <3>1. ~Asking(s, k) /\ ~Owning(s, k) /\ cache[k] = NoAnswer
        BY <1>2, <2>1 DEF Miss, At, Usable, Visible, CallPcs, HeldPcs, Asking, Owning
    <3>2. Asking(s, k)' /\ ~Owning(s, k)'
        BY <1>2, <2>1, <3>1 DEF Miss, At, Goto, Becomes, TypeOK, Jobs, CallPcs, HeldPcs, database,
                                Asking, Owning
    <3>3. cache' = cache /\ asked' = asked /\ wasted' = wasted
        BY <1>2 DEF Miss, database
    <3>4. overlap'[k] = overlap[k] + (IF InPlay(k) = {} THEN 0 ELSE 1)
        BY <1>2, <2>1 DEF Miss, TypeOK, InPlay
    <3> QED BY <3>1, <3>2, <3>3, <3>4 DEF Joins, InPlay
  <2>2. CASE job[s].key # k
    <3>1. job'[s].key = job[s].key /\ draft' = draft /\ cache' = cache
        BY <1>2 DEF Miss, Goto, Becomes, TypeOK, Jobs, database
    <3>2. Counts(k)' = Counts(k)
        BY <1>2, <2>2 DEF Miss, TypeOK, Counts
    <3> QED BY <1>u, <2>2, <3>1, <3>2 DEF Asking, Owning
  <2> QED BY <2>1, <2>2
<1>3. CASE Found(s) \/ NotFound(s) \/ BackendRaises(s)
  <2>a. /\ draft' = draft /\ cache' = cache /\ overlap' = overlap /\ job[s].pc = "call"
        /\ job[s].key \in Keys /\ draft[s][job[s].key] = NoAnswer
      BY <1>3 DEF Found, NotFound, BackendRaises, At, TypeOK, Busy, database, Local, CallPcs
  <2>b. job'[s].key = job[s].key
    <3>1. CASE Found(s)
        BY <3>1 DEF Found, Becomes, TypeOK, Jobs
    <3>2. CASE NotFound(s)
        BY <3>2 DEF NotFound, Return, Becomes, TypeOK, Jobs
    <3>3. CASE BackendRaises(s)
        BY <3>3 DEF BackendRaises, Goto, Becomes, TypeOK, Jobs
    <3> QED BY <1>3, <3>1, <3>2, <3>3
  <2>0. /\ job'[s].key = job[s].key /\ draft' = draft /\ cache' = cache
        /\ overlap' = overlap /\ job[s].pc = "call" /\ job[s].key \in Keys
        /\ draft[s][job[s].key] = NoAnswer
      BY <2>a, <2>b
  <2>1. CASE job[s].key = k /\ Found(s)
    <3>1. job'[s].pc = "check"
        BY <2>1 DEF Found, Becomes, TypeOK, Jobs
    <3>2. asked'[k] = asked[k] + 1 /\ wasted' = wasted
        BY <2>1 DEF Found, Asks, TypeOK
    <3> QED BY <2>0, <2>1, <3>1, <3>2 DEF Answered, CallPcs, HeldPcs, Asking, Owning
  <2>2. CASE job[s].key = k /\ (NotFound(s) \/ BackendRaises(s))
    <3>1. job'[s].pc \in {"ready", "raised"}
      <4>1. CASE NotFound(s)
          BY <4>1 DEF NotFound, Return, Becomes, TypeOK, Jobs
      <4>2. CASE BackendRaises(s)
          BY <4>2 DEF BackendRaises, Goto, Becomes, TypeOK, Jobs
      <4> QED BY <2>2, <4>1, <4>2
    <3>2. asked'[k] = asked[k] + 1 /\ wasted'[k] = wasted[k] + 1
        BY <2>2 DEF NotFound, BackendRaises, Asks, Wastes, TypeOK
    <3> QED BY <2>0, <2>2, <3>1, <3>2 DEF Failed, CallPcs, HeldPcs, Asking, Owning
  <2>3. CASE job[s].key # k
    <3>1. Counts(k)' = Counts(k)
        BY <1>3, <2>0, <2>3 DEF Found, NotFound, BackendRaises, Asks, Wastes, TypeOK, Counts
    <3> QED BY <1>u, <2>0, <2>3, <3>1 DEF Asking, Owning
  <2> QED BY <1>3, <2>1, <2>2, <2>3
<1>4. CASE CheckRow(s)
  <2>0. /\ job[s].pc = "check" /\ job[s].key \in Keys /\ draft[s][job[s].key] = NoAnswer
        /\ draft' = draft /\ cache' = cache /\ Counts(k)' = Counts(k)
        /\ job[s].answer # NoAnswer
      BY <1>4 DEF CheckRow, At, Local, HeldPcs, database, history, Counts, TypeOK, Busy
  <2>1. CASE Visible(s) = job[s].answer
    <3>1. Return(s, job[s].answer)
        BY <1>4, <2>0, <2>1 DEF CheckRow
    <3>2. job'[s].pc = "ready"
        BY <3>1 DEF Return, Becomes, TypeOK, Jobs
    <3>3. cache[job[s].key] # NoAnswer
        BY <2>0, <2>1 DEF Visible
    <3>4. CASE job[s].key = k
        BY <2>0, <3>2, <3>3, <3>4 DEF Leaves, CallPcs, HeldPcs, Asking, Owning
    <3>5. CASE job[s].key # k
        BY <1>u, <2>0, <3>2, <3>5 DEF CallPcs, HeldPcs, Asking, Owning
    <3> QED BY <3>4, <3>5
  <2>2. CASE Visible(s) # job[s].answer
    <3>1. Goto(s, "insert") \/ Goto(s, "update")
        BY <1>4, <2>0, <2>2 DEF CheckRow
    <3>2. job'[s].pc \in {"insert", "update"} /\ job'[s].key = job[s].key
        BY <3>1 DEF Goto, Becomes, TypeOK, Jobs
    <3> QED BY <1>u, <2>0, <3>2 DEF CallPcs, HeldPcs, Asking, Owning
  <2> QED BY <2>1, <2>2
<1>5. CASE Insert(s) \/ Update(s)
  <2>1. /\ job[s].pc \in {"insert", "update"} /\ job[s].key \in Keys /\ job[s].answer # NoAnswer
        /\ cache' = cache /\ Counts(k)' = Counts(k)
      BY <1>5 DEF Insert, Update, Flush, At, TypeOK, Busy, HeldPcs, history, Counts
  <2>2. job'[s].pc = "ready"
    <3>1. Return(s, job[s].answer)
        BY <1>5 DEF Insert, Update, Flush
    <3> QED BY <3>1 DEF Return, Becomes, TypeOK, Jobs
  <2>3. draft'[s][k] = IF job[s].key = k THEN job[s].answer ELSE draft[s][k]
      BY <1>5 DEF Insert, Update, Flush, TypeOK
  <2> QED BY <1>u, <2>1, <2>2, <2>3 DEF CallPcs, HeldPcs, Asking, Owning
<1>6. CASE Undo(s)
  <2>1. job'[s].pc = "ready" /\ draft'[s][k] = NoAnswer
      BY <1>6 DEF Undo, Becomes, TypeOK, NoJob, NoDrafts
  <2>2. /\ cache' = cache /\ asked' = asked /\ overlap' = overlap
        /\ wasted'[k] = wasted[k] + (IF s \in Holding(k) THEN 1 ELSE 0)
      BY <1>6 DEF Undo, TypeOK
  <2> QED BY <2>1, <2>2 DEF Undone, CallPcs, HeldPcs, Asking, Owning
<1>7. CASE Commit(s)
  <2>1. job[s].pc \in {"ready", "raised"} /\ Counts(k)' = Counts(k)
      BY <1>7 DEF Commit, history, Counts
  <2>2. job'[s].pc = "ready" /\ draft'[s][k] = NoAnswer
      BY <1>7 DEF Commit, Goto, Becomes, TypeOK, Jobs, NoDrafts
  <2>3. cache'[k] = IF draft[s][k] # NoAnswer THEN draft[s][k] ELSE cache[k]
      BY <1>7 DEF Commit, TypeOK
  <2>4. CASE draft[s][k] = NoAnswer
      BY <1>u, <2>1, <2>2, <2>3, <2>4 DEF CallPcs, HeldPcs, Asking, Owning
  <2>5. CASE draft[s][k] # NoAnswer
      BY <2>1, <2>2, <2>3, <2>5 DEF Leaves, CallPcs, HeldPcs, Asking, Owning
  <2> QED BY <2>4, <2>5
<1> QED BY <1>1, <1>2, <1>3, <1>4, <1>5, <1>6, <1>7 DEF Acts

\* While time passes nothing happens at any address.
LEMMA TimeTouchesNothing ==
    ASSUME TypeOK, Tick, NEW k \in Keys
    PROVE  /\ Untouched(k)
           /\ draft' = draft
           /\ \A s \in Sessions : /\ job'[s].pc = job[s].pc
                                 /\ job'[s].key = job[s].key
                                 /\ job'[s].verdict = job[s].verdict
<1>1. \A s \in Sessions : /\ job'[s].pc = job[s].pc
                         /\ job'[s].key = job[s].key
                         /\ job'[s].verdict = job[s].verdict
    BY DEF Tick, TypeOK, Jobs
<1>2. draft' = draft /\ cache' = cache /\ Counts(k)' = Counts(k)
    BY DEF Tick, database, history, Counts
<1>3. Missing(k)' = Missing(k)
    BY <1>1 DEF Missing, On
<1>4. Holding(k)' = Holding(k)
    BY <1>1, <1>2 DEF Holding, On
<1> QED BY <1>1, <1>2, <1>3, <1>4 DEF Untouched

\* A crash leaves nobody to ask or to hold an answer.
LEMMA CrashClears ==
    ASSUME TypeOK, Crash, NEW k \in Keys
    PROVE  /\ Missing(k)' = {} /\ Holding(k)' = {} /\ cache' = cache /\ overlap' = overlap
           /\ asked'[k] = asked[k] /\ wasted'[k] = wasted[k] + Cardinality(Holding(k))
           /\ \A s \in Sessions : job'[s] = NoJob /\ draft'[s] = NoDrafts
<1>1. \A s \in Sessions : job'[s] = NoJob /\ draft'[s] = NoDrafts
    BY DEF Crash
<1>2. Missing(k)' = {}
    BY <1>1 DEF Missing, NoJob, CallPcs
<1>3. Holding(k)' = {}
    BY <1>1 DEF Holding, NoJob, HeldPcs, NoDrafts
<1> QED BY <1>1, <1>2, <1>3 DEF Crash

\* Counting sessions.
LEMMA Sizes ==
    ASSUME NEW S \in SUBSET Sessions
    PROVE  /\ Cardinality(S) \in Nat
           /\ S = {} <=> Cardinality(S) = 0
           /\ \A s \in Sessions \ S : Cardinality(S \cup {s}) = Cardinality(S) + 1
           /\ \A s \in S : Cardinality(S \ {s}) = Cardinality(S) - 1
           /\ \A s \in Sessions \ S : S \ {s} = S
<1>1. IsFiniteSet(S)
    BY SessionsAssumption, FS_Subset
<1> QED BY <1>1, FS_CardinalityType, FS_EmptySet, FS_AddElement, FS_RemoveElement

-----------------------------------------------------------------------------
(* The invariant, part by part *)

\* What concerns one session alone.
LEMMA LocalStep == TypeOK /\ Local /\ [Next]_vars => Local'
<1> SUFFICES ASSUME TypeOK, Local, [Next]_vars PROVE Local'
    OBVIOUS
<1> DEFINE Fine(s) == /\ job[s].pc \in CallPcs \cup HeldPcs => draft[s][job[s].key] = NoAnswer
                      /\ job[s].verdict # "none" => job[s].key \in Keys
<1>1. ASSUME NEW s \in Sessions, Acts(s)
      PROVE  Local'
  <2>1. \A t \in Sessions \ {s} : Fine(t)'
      BY <1>1, OthersStay DEF Local
  <2>2. Fine(s)'
    <3>1. CASE \E k \in Keys : Resolve(s, k)
        BY <3>1 DEF Resolve, Becomes, TypeOK, NoJob, CallPcs, HeldPcs
    <3>2. CASE Hit(s)
        BY <3>2 DEF Hit, At, Return, Becomes, TypeOK, Jobs, Busy, CallPcs, HeldPcs
    <3>3. CASE Miss(s)
      <4>1. draft[s][job[s].key] = NoAnswer /\ draft' = draft /\ job[s].key \in Keys
          BY <3>3 DEF Miss, Usable, Visible, At, TypeOK, Busy, database
      <4> QED BY <3>3, <4>1 DEF Miss, Goto, Becomes, TypeOK, Jobs
    <3>4. CASE Limit(s)
        BY <3>4 DEF Limit, At, Becomes, TypeOK, Jobs, Local, CallPcs, database
    <3>5. CASE Wake(s)
        BY <3>5 DEF Wake, At, Goto, Becomes, TypeOK, Jobs, Local, CallPcs, database
    <3>6. CASE Found(s)
        BY <3>6 DEF Found, At, Becomes, TypeOK, Jobs, Local, CallPcs, database
    <3>7. CASE NotFound(s)
        BY <3>7 DEF NotFound, At, Return, Becomes, TypeOK, Jobs, Busy, CallPcs, HeldPcs
    <3>8. CASE BackendRaises(s)
        BY <3>8 DEF BackendRaises, At, Goto, Becomes, TypeOK, Jobs, Busy, CallPcs, HeldPcs
    <3>9. CASE CheckRow(s)
      <4>1. draft[s][job[s].key] = NoAnswer /\ draft' = draft /\ job[s].key \in Keys
            /\ job[s].answer # NoAnswer
          BY <3>9 DEF CheckRow, At, Local, TypeOK, Busy, HeldPcs, database
      <4>2. Return(s, Visible(s)) \/ Goto(s, "insert") \/ Goto(s, "update")
          BY <3>9, <4>1 DEF CheckRow
      <4>3. job'[s].key = job[s].key
          BY <4>2 DEF Return, Goto, Becomes, TypeOK, Jobs
      <4> QED BY <4>1, <4>3
    <3>10. CASE Insert(s) \/ Update(s)
      <4>1. Return(s, job[s].answer) /\ job[s].key \in Keys
          BY <3>10 DEF Insert, Update, Flush, At, TypeOK, Busy
      <4>2. job'[s].pc = "ready" /\ job'[s].key = job[s].key
          BY <4>1 DEF Return, Becomes, TypeOK, Jobs
      <4> QED BY <4>1, <4>2 DEF CallPcs, HeldPcs
    <3>11. CASE Undo(s)
        BY <3>11 DEF Undo, Becomes, TypeOK, NoJob, CallPcs, HeldPcs
    <3>12. CASE Commit(s)
      <4>1. job'[s].pc = "ready" /\ job'[s].key = job[s].key /\ job'[s].verdict = job[s].verdict
          BY <3>12 DEF Commit, Goto, Becomes, TypeOK, Jobs
      <4> QED BY <4>1 DEF Local, CallPcs, HeldPcs
    <3> QED BY <1>1, <3>1, <3>2, <3>3, <3>4, <3>5, <3>6, <3>7, <3>8, <3>9, <3>10, <3>11, <3>12
            DEF Acts
  <2> QED BY <2>1, <2>2 DEF Local
<1>2. CASE Tick
  <2>1. draft' = draft /\ \A s \in Sessions : /\ job'[s].pc = job[s].pc
                                            /\ job'[s].key = job[s].key
                                            /\ job'[s].verdict = job[s].verdict
      BY <1>2 DEF Tick, TypeOK, Jobs, database
  <2> QED BY <2>1 DEF Local
<1>3. CASE Crash
    BY <1>3 DEF Crash, Local, NoJob, CallPcs, HeldPcs
<1>4. CASE UNCHANGED vars
    BY <1>4 DEF vars, Local
<1> QED BY Steps, <1>1, <1>2, <1>3, <1>4 DEF Acts

\* What concerns one address alone.
LEMMA KeySteps ==
    ASSUME TypeOK, Local, [Next]_vars, NEW k \in Keys
    PROVE  \/ \E s \in Sessions : Acts(s) /\ Effect(s, k)
           \/ Untouched(k)
           \/ Crash
<1>1. CASE UNCHANGED vars
  <2>1. Missing(k)' = Missing(k) /\ Holding(k)' = Holding(k)
      BY <1>1 DEF vars, Missing, Holding, On
  <2> QED BY <1>1, <2>1 DEF vars, Untouched, Counts
<1>2. CASE \E s \in Sessions : Acts(s)
    BY <1>2, Effects
<1>3. CASE Tick
    BY <1>3, TimeTouchesNothing
<1> QED BY Steps, <1>1, <1>2, <1>3 DEF Acts

LEMMA PaidStep == TypeOK /\ Local /\ Paid /\ [Next]_vars => Paid'
<1> SUFFICES ASSUME TypeOK, Local, Paid, [Next]_vars, NEW k \in Keys
             PROVE  (/\ asked[k] + Cardinality(Missing(k)) <= 1 + Excuses(k)
                     /\ cache[k] = NoAnswer => asked[k] <= Excuses(k) + Cardinality(Holding(k)))'
    BY DEF Paid
<1> DEFINE m == Cardinality(Missing(k))
           h == Cardinality(Holding(k))
<1>0. /\ Missing(k) \in SUBSET Sessions /\ Holding(k) \in SUBSET Sessions
      /\ asked[k] \in Nat /\ overlap[k] \in Nat /\ wasted[k] \in Nat /\ m \in Nat /\ h \in Nat
      /\ asked[k] + m <= 1 + overlap[k] + wasted[k]
      /\ cache[k] = NoAnswer => asked[k] <= overlap[k] + wasted[k] + h
  <2>1. Missing(k) \in SUBSET Sessions /\ Holding(k) \in SUBSET Sessions
      BY DEF Missing, Holding
  <2>2. asked[k] \in Nat /\ overlap[k] \in Nat /\ wasted[k] \in Nat
      BY DEF TypeOK
  <2>3. m \in Nat /\ h \in Nat
      BY <2>1, Sizes
  <2> QED BY <2>1, <2>2, <2>3 DEF Paid, Excuses
<1> SUFFICES /\ asked'[k] + m' <= 1 + overlap'[k] + wasted'[k]
             /\ cache'[k] = NoAnswer => asked'[k] <= overlap'[k] + wasted'[k] + h'
  <2>1. overlap'[k] + wasted'[k] = Excuses(k)'
      BY DEF Excuses
  <2>2. overlap'[k] \in Nat /\ wasted'[k] \in Nat /\ asked'[k] \in Nat
      BY TypeStep DEF TypeOK
  <2>3. m' \in Nat /\ h' \in Nat
    <3>1. Missing(k)' \in SUBSET Sessions /\ Holding(k)' \in SUBSET Sessions
        BY DEF Missing, Holding
    <3> QED BY <3>1, Sizes
  <2> QED BY <2>1, <2>2, <2>3
<1>1. CASE Untouched(k)
    BY <1>0, <1>1 DEF Untouched, Counts
<1>2. ASSUME NEW s \in Sessions, Joins(s, k)
      PROVE  /\ asked'[k] + m' <= 1 + overlap'[k] + wasted'[k]
             /\ cache'[k] = NoAnswer => asked'[k] <= overlap'[k] + wasted'[k] + h'
  <2>1. m' = m + 1 /\ h' = h
      BY <1>0, <1>2, Sizes DEF Joins, InPlay
  <2>2. InPlay(k) = {} => m = 0 /\ h = 0
      BY <1>0, Sizes DEF InPlay
  <2> QED BY <1>0, <1>2, <2>1, <2>2 DEF Joins
<1>3. ASSUME NEW s \in Sessions, Answered(s, k)
      PROVE  /\ asked'[k] + m' <= 1 + overlap'[k] + wasted'[k]
             /\ cache'[k] = NoAnswer => asked'[k] <= overlap'[k] + wasted'[k] + h'
  <2>1. m' = m - 1 /\ h' = h + 1
      BY <1>0, <1>3, Sizes DEF Answered
  <2> QED BY <1>0, <1>3, <2>1 DEF Answered
<1>4. ASSUME NEW s \in Sessions, Failed(s, k)
      PROVE  /\ asked'[k] + m' <= 1 + overlap'[k] + wasted'[k]
             /\ cache'[k] = NoAnswer => asked'[k] <= overlap'[k] + wasted'[k] + h'
  <2>1. m' = m - 1 /\ h' = h
      BY <1>0, <1>4, Sizes DEF Failed
  <2> QED BY <1>0, <1>4, <2>1 DEF Failed
<1>5. ASSUME NEW s \in Sessions, Leaves(s, k)
      PROVE  /\ asked'[k] + m' <= 1 + overlap'[k] + wasted'[k]
             /\ cache'[k] = NoAnswer => asked'[k] <= overlap'[k] + wasted'[k] + h'
    BY <1>0, <1>5 DEF Leaves, Counts
<1>6. ASSUME NEW s \in Sessions, Undone(s, k)
      PROVE  /\ asked'[k] + m' <= 1 + overlap'[k] + wasted'[k]
             /\ cache'[k] = NoAnswer => asked'[k] <= overlap'[k] + wasted'[k] + h'
  <2>1. m' = m \/ m' = m - 1
    <3>1. m' = Cardinality(Missing(k) \ {s})
        BY <1>6 DEF Undone
    <3> QED BY <1>0, <3>1, Sizes
  <2>2. IF s \in Holding(k) THEN h' = h - 1 ELSE h' = h
    <3>1. h' = Cardinality(Holding(k) \ {s})
        BY <1>6 DEF Undone
    <3> QED BY <1>0, <3>1, Sizes
  <2> QED BY <1>0, <1>6, <2>1, <2>2 DEF Undone
<1>7. CASE Crash
  <2>1. m' = 0 /\ h' = 0
      BY <1>7, CrashClears, FS_EmptySet
  <2> QED BY <1>0, <1>7, <2>1, CrashClears
<1> QED BY KeySteps, <1>1, <1>2, <1>3, <1>4, <1>5, <1>6, <1>7 DEF Effect

LEMMA ApartStep == TypeOK /\ Local /\ Apart /\ [Next]_vars => Apart'
<1> SUFFICES ASSUME TypeOK, Local, Apart, [Next]_vars, NEW k \in Keys, NEW t \in InPlay(k)',
                    cache'[k] # NoAnswer \/ InPlay(k)' # {t}
             PROVE  overlap'[k] > 0
    BY DEF Apart
<1>0. /\ overlap[k] \in Nat
      /\ t \in InPlay(k) /\ (cache[k] # NoAnswer \/ InPlay(k) # {t}) => overlap[k] > 0
    BY DEF Apart, TypeOK
<1>1. CASE Untouched(k)
    BY <1>0, <1>1 DEF Untouched, Counts, InPlay
<1>2. ASSUME NEW s \in Sessions, Joins(s, k)
      PROVE  overlap'[k] > 0
  <2>1. InPlay(k)' = InPlay(k) \cup {s}
      BY <1>2 DEF Joins, InPlay
  <2> QED BY <1>0, <1>2, <2>1 DEF Joins
<1>3. ASSUME NEW s \in Sessions, Answered(s, k) \/ Failed(s, k)
      PROVE  overlap'[k] > 0
  <2>1. InPlay(k)' \subseteq InPlay(k)
      BY <1>3 DEF Answered, Failed, InPlay
  <2> QED BY <1>0, <1>3, <2>1 DEF Answered, Failed
<1>4. ASSUME NEW s \in Sessions, Leaves(s, k)
      PROVE  overlap'[k] > 0
  <2>1. InPlay(k)' \subseteq InPlay(k) /\ s \in InPlay(k) /\ overlap'[k] = overlap[k]
      BY <1>4 DEF Leaves, InPlay, Counts
  <2>2. CASE InPlay(k) # {t}
      BY <1>0, <2>1, <2>2
  <2>3. CASE InPlay(k) = {t}
    <3>1. s = t /\ t \in Missing(k)
        BY <1>4, <2>1, <2>3 DEF Leaves, InPlay
    <3>2. t \notin Holding(k)
        BY <3>1, AskingIsMissing DEF Missing, On, Local, Asking, Owning, CallPcs, HeldPcs
    <3> QED BY <1>4, <3>1, <3>2 DEF Leaves
  <2> QED BY <2>2, <2>3
<1>5. ASSUME NEW s \in Sessions, Undone(s, k)
      PROVE  overlap'[k] > 0
  <2>1. InPlay(k)' \subseteq InPlay(k)
      BY <1>5 DEF Undone, InPlay
  <2> QED BY <1>0, <1>5, <2>1 DEF Undone
<1>6. CASE Crash
    BY <1>6, CrashClears DEF InPlay
<1> QED BY KeySteps, <1>1, <1>2, <1>3, <1>4, <1>5, <1>6 DEF Effect

\* The verdicts agree with the one answer there is.
LEMMA EvidenceStep == TypeOK /\ Local /\ Apart /\ Evidence /\ [Next]_vars => Evidence'
<1> SUFFICES ASSUME TypeOK, Local, Apart, Evidence, [Next]_vars,
                    NEW r \in Sessions, NEW k \in Keys,
                    job'[r].key = k, job'[r].verdict # "none", Excuses(k)' = 0
             PROVE  \/ cache'[k] # NoAnswer /\ job'[r].verdict = Verdict(cache'[k])
                    \/ \E t \in Sessions : /\ draft'[t][k] # NoAnswer
                                          /\ job'[r].verdict = Verdict(draft'[t][k])
    BY DEF Evidence, On
<1> DEFINE Goal == \/ cache'[k] # NoAnswer /\ job'[r].verdict = Verdict(cache'[k])
                   \/ \E t \in Sessions : /\ draft'[t][k] # NoAnswer
                                         /\ job'[r].verdict = Verdict(draft'[t][k])
           Was  == \/ cache[k] # NoAnswer /\ job[r].verdict = Verdict(cache[k])
                   \/ \E t \in Sessions : /\ draft[t][k] # NoAnswer
                                         /\ job[r].verdict = Verdict(draft[t][k])
<1>0. /\ asked'[k] \in Nat /\ overlap[k] \in Nat /\ wasted[k] \in Nat
      /\ overlap'[k] = 0 /\ wasted'[k] = 0
  <2>1. /\ overlap[k] \in Nat /\ wasted[k] \in Nat
        /\ overlap'[k] \in Nat /\ wasted'[k] \in Nat /\ asked'[k] \in Nat
      BY TypeStep DEF TypeOK
  <2> QED BY <2>1 DEF Excuses
\* No excuse is ever taken back.
<1>1. overlap[k] = 0 /\ wasted[k] = 0 /\ (Crash => Holding(k) = {})
  <2>1. CASE Crash
    <3>1. Cardinality(Holding(k)) \in Nat /\ (Holding(k) = {} <=> Cardinality(Holding(k)) = 0)
        BY Sizes DEF Holding
    <3> QED BY <1>0, <2>1, <3>1, CrashClears
  <2>2. CASE ~Crash /\ Untouched(k)
      BY <1>0, <2>2 DEF Untouched, Counts
  <2>3. ASSUME ~Crash, NEW s \in Sessions, Effect(s, k)
        PROVE  overlap[k] = 0 /\ wasted[k] = 0
      BY <1>0, <2>3 DEF Effect, Untouched, Joins, Answered, Failed, Leaves, Undone, Counts
  <2> QED BY KeySteps, <2>1, <2>2, <2>3
\* So at most one session is in play, and none beside a committed row.
<1>2. \A s, t \in InPlay(k) : s = t /\ cache[k] = NoAnswer
    BY <1>1 DEF Apart
<1>3. job[r].key = k /\ job[r].verdict = job'[r].verdict => Was
    BY <1>1 DEF Evidence, On, Excuses
<1> DEFINE Same == job[r].key = k /\ job[r].verdict = job'[r].verdict
<1>4. Same /\ cache' = cache /\ draft' = draft => Goal
    BY <1>3
<1>5. ASSUME NEW s \in Sessions, s # r, Acts(s) PROVE Same
    BY <1>5, OthersStay
<1>6. ASSUME NEW s \in Sessions, NEW l \in Keys, Resolve(s, l)
      PROVE  Goal
  <2>1. cache' = cache /\ draft' = draft /\ job'[s].verdict = "none"
      BY <1>6 DEF Resolve, Becomes, TypeOK, NoJob, database
  <2> QED BY <1>4, <1>5, <1>6, <2>1 DEF Acts
<1>7. ASSUME NEW s \in Sessions, Hit(s)
      PROVE  Goal
  <2>1. cache' = cache /\ draft' = draft
      BY <1>7 DEF Hit, database
  <2>2. CASE s = r
    <3>1. job[r].key = k /\ job'[r].verdict = Verdict(Visible(r)) /\ Visible(r) # NoAnswer
        BY <1>7, <2>2 DEF Hit, Usable, Return, Becomes, TypeOK, Jobs
    <3> QED BY <2>1, <3>1 DEF Visible
  <2> QED BY <1>4, <1>5, <1>7, <2>1, <2>2 DEF Acts
<1>8. ASSUME NEW s \in Sessions, Miss(s) \/ Limit(s) \/ Wake(s) \/ Found(s)
      PROVE  Goal
  <2>1. cache' = cache /\ draft' = draft
      BY <1>8 DEF Miss, Limit, Wake, Found, database
  <2>2. job'[s].key = job[s].key /\ job'[s].verdict = job[s].verdict
    <3>1. CASE Miss(s)
        BY <3>1 DEF Miss, Goto, Becomes, TypeOK, Jobs
    <3>2. CASE Limit(s)
        BY <3>2 DEF Limit, Becomes, TypeOK, Jobs
    <3>3. CASE Wake(s)
        BY <3>3 DEF Wake, Goto, Becomes, TypeOK, Jobs
    <3>4. CASE Found(s)
        BY <3>4 DEF Found, Becomes, TypeOK, Jobs
    <3> QED BY <1>8, <3>1, <3>2, <3>3, <3>4
  <2> QED BY <1>4, <1>5, <1>8, <2>1, <2>2 DEF Acts
<1>9. ASSUME NEW s \in Sessions, NotFound(s) \/ BackendRaises(s)
      PROVE  Goal
  <2>1. cache' = cache /\ draft' = draft
      BY <1>9 DEF NotFound, BackendRaises, database
  <2>2. job'[s].key = job[s].key
    <3>1. CASE NotFound(s)
        BY <3>1 DEF NotFound, Return, Becomes, TypeOK, Jobs
    <3>2. CASE BackendRaises(s)
        BY <3>2 DEF BackendRaises, Goto, Becomes, TypeOK, Jobs
    <3> QED BY <1>9, <3>1, <3>2
  <2>3. job[s].key = k => wasted'[k] = wasted[k] + 1
      BY <1>9 DEF NotFound, BackendRaises, Wastes, TypeOK
  <2> QED BY <1>0, <1>1, <1>4, <1>5, <1>9, <2>1, <2>2, <2>3 DEF Acts
<1>10. ASSUME NEW s \in Sessions, CheckRow(s)
       PROVE  Goal
  <2>1. cache' = cache /\ draft' = draft /\ job[s].answer # NoAnswer
      BY <1>10 DEF CheckRow, At, TypeOK, HeldPcs, database
  <2>2. \/ Return(s, Visible(s)) /\ Visible(s) # NoAnswer
        \/ Goto(s, "insert") \/ Goto(s, "update")
      BY <1>10, <2>1 DEF CheckRow
  <2>3. CASE s = r /\ Return(r, Visible(r)) /\ Visible(r) # NoAnswer
    <3>1. job[r].key = k /\ job'[r].verdict = Verdict(Visible(r))
        BY <2>3 DEF Return, Becomes, TypeOK, Jobs
    <3> QED BY <2>1, <2>3, <3>1 DEF Visible
  <2>4. CASE Goto(s, "insert") \/ Goto(s, "update")
    <3>1. job'[s].key = job[s].key /\ job'[s].verdict = job[s].verdict
        BY <2>4 DEF Goto, Becomes, TypeOK, Jobs
    <3> QED BY <1>4, <1>5, <1>10, <2>1, <3>1 DEF Acts
  <2> QED BY <1>4, <1>5, <1>10, <2>1, <2>2, <2>3, <2>4 DEF Acts
<1>11. ASSUME NEW s \in Sessions, Insert(s) \/ Update(s)
       PROVE  Goal
  <2>1. /\ job[s].pc \in {"insert", "update"} /\ job[s].answer # NoAnswer /\ cache' = cache
        /\ draft[s][job[s].key] = NoAnswer
        /\ Return(s, job[s].answer)
      BY <1>11 DEF Insert, Update, Flush, At, TypeOK, Local, HeldPcs
  <2>2. \A t \in Sessions :
           draft'[t][k] = IF t = s /\ job[s].key = k THEN job[s].answer ELSE draft[t][k]
      BY <1>11 DEF Insert, Update, Flush, TypeOK
  <2>3. job'[s].key = job[s].key /\ job'[s].verdict = Verdict(job[s].answer)
      BY <2>1 DEF Return, Becomes, TypeOK, Jobs
  <2>4. CASE s = r
      BY <2>1, <2>2, <2>3, <2>4
  <2>5. CASE s # r /\ job[s].key # k
      BY <1>3, <1>5, <1>11, <2>1, <2>2, <2>5 DEF Acts
  <2>6. CASE s # r /\ job[s].key = k
    <3>1. s \in InPlay(k) /\ Was
        BY <1>3, <1>5, <1>11, <2>1, <2>6, AskingIsMissing DEF Acts, InPlay, Owning, HeldPcs
    <3>2. \A t \in Sessions : draft[t][k] # NoAnswer => t \in InPlay(k)
        BY AskingIsMissing DEF InPlay, Owning
    <3> QED BY <1>2, <2>1, <2>6, <3>1, <3>2
  <2> QED BY <2>4, <2>5, <2>6
<1>12. ASSUME NEW s \in Sessions, Undo(s)
       PROVE  Goal
  <2>1. cache' = cache /\ job'[s].verdict = "none" /\ draft' = [draft EXCEPT ![s] = NoDrafts]
        /\ wasted'[k] = wasted[k] + (IF s \in Holding(k) THEN 1 ELSE 0)
      BY <1>12 DEF Undo, Becomes, TypeOK, NoJob
  <2>2. s # r /\ Same /\ Was
      BY <1>3, <1>5, <1>12, <2>1 DEF Acts
  <2>3. draft[s][k] = NoAnswer
      BY <1>0, <1>1, <2>1, AskingIsMissing DEF Owning
  <2>4. \A t \in Sessions : draft[t][k] # NoAnswer => draft'[t][k] = draft[t][k]
      BY <2>1, <2>3 DEF TypeOK
  <2> QED BY <2>1, <2>2, <2>4
<1>13. ASSUME NEW s \in Sessions, Commit(s)
       PROVE  Goal
  <2>1. job'[s].key = job[s].key /\ job'[s].verdict = job[s].verdict
      BY <1>13 DEF Commit, Goto, Becomes, TypeOK, Jobs
  <2>2. Same /\ Was
      BY <1>3, <1>5, <1>13, <2>1 DEF Acts
  <2>3. /\ cache'[k] = IF draft[s][k] # NoAnswer THEN draft[s][k] ELSE cache[k]
        /\ \A t \in Sessions \ {s} : draft'[t][k] = draft[t][k]
      BY <1>13 DEF Commit, TypeOK
  <2>4. draft[s][k] # NoAnswer => s \in InPlay(k)
      BY AskingIsMissing DEF InPlay, Owning
  <2> QED BY <1>2, <2>2, <2>3, <2>4
<1>14. CASE Tick
  <2>1. Same /\ cache' = cache /\ draft' = draft
      BY <1>14, TimeTouchesNothing DEF Tick, database
  <2> QED BY <1>4, <2>1
<1>15. CASE Crash
    BY <1>15, CrashClears DEF NoJob
<1>16. CASE UNCHANGED vars
    BY <1>4, <1>16 DEF vars
<1> QED BY Steps, <1>6, <1>7, <1>8, <1>9, <1>10, <1>11, <1>12, <1>13, <1>14, <1>15, <1>16

\* The sleepers of the rate limit.
LEMMA SpacedStep == TypeOK /\ Spaced /\ [Next]_vars => Spaced'
<1> SUFFICES ASSUME TypeOK, Spaced, [Next]_vars PROVE Spaced'
    OBVIOUS
<1> DEFINE n == Cardinality(Sleepers)
<1>0. /\ Sleepers \in SUBSET Sessions /\ n \in Nat /\ (Sleepers = {} <=> n = 0)
      /\ Sleepers' \in SUBSET Sessions /\ n' \in Nat /\ (Sleepers' = {} <=> n' = 0)
      /\ bursts \in Nat /\ crowd \in Nat /\ since \in 0..Interval /\ Interval \in Nat
      /\ \A s \in Sessions : job[s].wait \in 0..Interval
  <2>1. Sleepers \in SUBSET Sessions /\ Sleepers' \in SUBSET Sessions
      BY DEF Sleepers
  <2> QED BY <2>1, Sizes, BoundsAssumption DEF TypeOK, Jobs
\* Whoever only leaves the sleepers leaves the counters, and the others, as they are.
<1>1. ASSUME Sleepers' \subseteq Sleepers, bursts' = bursts, crowd' = crowd, n' <= n,
             \A s \in Sleepers' : Spoiled(s)' => Spoiled(s)
      PROVE  Spaced'
    BY <1>0, <1>1 DEF Spaced
<1>2. ASSUME NEW s \in Sessions, Acts(s), ~Limit(s), ~Wake(s)
      PROVE  Spaced'
  <2>1. \A t \in Sessions \ {s} : job'[t] = job[t]
      BY <1>2, OthersStay
  <2>2. bursts' = bursts /\ crowd' = crowd /\ since' = since
      BY <1>2 DEF Acts, Resolve, Hit, Miss, Found, NotFound, BackendRaises, CheckRow, Insert,
                  Update, Flush, Undo, Commit, history
  <2>3. job'[s].pc # "sleep"
    <3>1. CASE CheckRow(s)
      <4>1. job[s].answer # NoAnswer
          BY <3>1 DEF CheckRow, At, TypeOK, HeldPcs
      <4>2. Return(s, Visible(s)) \/ Goto(s, "insert") \/ Goto(s, "update")
          BY <3>1, <4>1 DEF CheckRow
      <4> QED BY <4>2 DEF Return, Goto, Becomes, TypeOK, Jobs
    <3>2. CASE Insert(s) \/ Update(s)
      <4>1. Return(s, job[s].answer)
          BY <3>2 DEF Insert, Update, Flush
      <4> QED BY <4>1 DEF Return, Becomes, TypeOK, Jobs
    <3>3. CASE Hit(s) \/ NotFound(s)
      <4>1. \E answer : Return(s, answer)
          BY <3>3 DEF Hit, NotFound
      <4> QED BY <4>1 DEF Return, Becomes, TypeOK, Jobs
    <3>4. CASE (\E k \in Keys : Resolve(s, k)) \/ Undo(s)
      <4>1. \E j : Becomes(s, j) /\ j.pc \in {"ready", "lookup"}
        <5>1. CASE Undo(s)
            BY <5>1 DEF Undo, NoJob
        <5>2. ASSUME NEW k \in Keys, Resolve(s, k)
              PROVE  \E j : Becomes(s, j) /\ j.pc \in {"ready", "lookup"}
          <6>1. [NoJob EXCEPT !.pc = "lookup", !.key = k].pc = "lookup"
              BY DEF NoJob
          <6> QED BY <5>2, <6>1 DEF Resolve
        <5> QED BY <3>4, <5>1, <5>2
      <4> QED BY <4>1, OneMoves
    <3>5. CASE Miss(s)
        BY <3>5 DEF Miss, Goto, Becomes, TypeOK, Jobs
    <3>6. CASE Found(s)
        BY <3>6 DEF Found, Becomes, TypeOK, Jobs
    <3>7. CASE BackendRaises(s) \/ Commit(s)
      <4>1. Goto(s, "raised") \/ Goto(s, "ready")
          BY <3>7 DEF BackendRaises, Commit
      <4> QED BY <4>1 DEF Goto, Becomes, TypeOK, Jobs
    <3> QED BY <1>2, <3>1, <3>2, <3>3, <3>4, <3>5, <3>6, <3>7 DEF Acts
  <2>4. Sleepers' = Sleepers \ {s}
      BY <2>1, <2>3 DEF Sleepers, At
  <2>5. n' <= n
      BY <1>0, <2>4, Sizes
  <2>6. \A t \in Sleepers' : Spoiled(t)' => Spoiled(t)
      BY <2>1, <2>2, <2>4 DEF Spoiled, Sleepers
  <2> QED BY <1>1, <2>2, <2>4, <2>5, <2>6
<1>3. ASSUME NEW s \in Sessions, Limit(s)
      PROVE  Spaced'
  <2>1. \A t \in Sessions \ {s} : job'[t] = job[t]
      BY <1>3, OthersStay DEF Acts
  <2>2. /\ job'[s].pc = "sleep" /\ job'[s].wait = Interval - since /\ s \notin Sleepers
        /\ bursts' = bursts /\ since' = since
        /\ crowd' = crowd + (IF Sleepers = {} THEN 0 ELSE 1)
      BY <1>3 DEF Limit, At, Becomes, TypeOK, Jobs, Sleepers
  <2>3. Sleepers' = Sleepers \cup {s}
      BY <2>1, <2>2 DEF Sleepers, At
  <2>4. n' = n + 1
      BY <1>0, <2>2, <2>3, Sizes
  <2>5. \A t \in Sleepers' : Spoiled(t)' => t # s /\ t \in Sleepers /\ Spoiled(t)
    <3>1. ~Spoiled(s)'
        BY <1>0, <2>2 DEF Spoiled
    <3> QED BY <2>1, <2>2, <2>3, <3>1 DEF Spoiled, Sleepers
  <2> QED BY <1>0, <2>2, <2>4, <2>5 DEF Spaced
<1>4. ASSUME NEW s \in Sessions, Wake(s)
      PROVE  Spaced'
  <2>1. \A t \in Sessions \ {s} : job'[t] = job[t]
      BY <1>4, OthersStay DEF Acts
  <2>2. /\ s \in Sleepers /\ job[s].wait = 0 /\ job'[s].pc = "call" /\ crowd' = crowd
        /\ bursts' = bursts + (IF since < Interval THEN 1 ELSE 0)
      BY <1>4 DEF Wake, At, Goto, Becomes, TypeOK, Jobs, Sleepers
  <2>3. Sleepers' = Sleepers \ {s}
      BY <2>1, <2>2 DEF Sleepers, At
  <2>4. n' = n - 1
      BY <1>0, <2>2, <2>3, Sizes
  <2>5. since < Interval => bursts + n <= crowd
      BY <1>0, <2>2 DEF Spaced, Spoiled
  <2> QED BY <1>0, <2>2, <2>4, <2>5 DEF Spaced
<1>5. CASE Tick
  <2>1. \A s \in Sessions : /\ job'[s].pc = job[s].pc
                           /\ job'[s].wait = IF job[s].wait > 0 THEN job[s].wait - 1 ELSE 0
      BY <1>5 DEF Tick, TypeOK, Jobs
  <2>2. /\ since' = (IF since < Interval THEN since + 1 ELSE since)
        /\ bursts' = bursts /\ crowd' = crowd
      BY <1>5 DEF Tick, history
  <2>3. Sleepers' = Sleepers
      BY <2>1 DEF Sleepers, At
  <2>4. \A s \in Sleepers' : Spoiled(s)' => Spoiled(s)
    <3> SUFFICES ASSUME NEW s \in Sessions, job'[s].wait + since' < Interval
                 PROVE  job[s].wait + since < Interval
        BY <2>3 DEF Spoiled, Sleepers
    <3> QED BY <1>0, <2>1, <2>2
  <2> QED BY <1>0, <1>1, <2>2, <2>3, <2>4
<1>6. CASE Crash
  <2>1. Sleepers' = {}
      BY <1>6 DEF Crash, Sleepers, At, NoJob
  <2> QED BY <1>0, <1>1, <1>6, <2>1 DEF Crash
<1>7. CASE UNCHANGED vars
  <2>1. Sleepers' = Sleepers /\ \A s \in Sleepers : Spoiled(s)' => Spoiled(s)
      BY <1>7 DEF vars, Sleepers, Spoiled, At
  <2> QED BY <1>0, <1>1, <1>7, <2>1 DEF vars
<1> QED BY Steps, <1>2, <1>3, <1>4, <1>5, <1>6, <1>7 DEF Acts

-----------------------------------------------------------------------------
(* What is proved *)

\* The invariant holds.
THEOREM Invariance == Spec => []IInv
<1>1. Init => IInv
  <2> SUFFICES ASSUME Init PROVE IInv
      OBVIOUS
  <2>1. TypeOK
    <3>1. NoDrafts \in [Keys -> Answers \cup {NoAnswer}]
        BY DEF NoDrafts
    <3>2. job \in [Sessions -> Jobs] /\ \A s \in Sessions : job[s] = NoJob
        BY NoJobIsJob DEF Init
    <3>3. \A s \in Sessions : ~Busy(s) /\ job[s].pc \notin HeldPcs
        BY <3>2 DEF Busy, NoJob, HeldPcs
    <3>4. draft \in [Sessions -> [Keys -> Answers \cup {NoAnswer}]]
        BY <3>1 DEF Init
    <3> QED BY <3>2, <3>3, <3>4, BoundsAssumption DEF Init, TypeOK
  <2>2. /\ \A k \in Keys : Missing(k) = {} /\ Holding(k) = {}
        /\ Sleepers = {}
      BY DEF Init, Missing, Holding, Sleepers, At, NoJob, NoDrafts, CallPcs, HeldPcs
  <2>3. Local /\ Apart
      BY <2>2 DEF Init, Local, Apart, InPlay, NoJob, CallPcs, HeldPcs
  <2>4. Paid
      BY <2>2, FS_EmptySet DEF Init, Paid, Excuses
  <2>5. Evidence /\ Spaced
      BY <2>2 DEF Init, Evidence, Spaced, NoJob, On
  <2> QED BY <2>1, <2>3, <2>4, <2>5 DEF IInv
<1>2. IInv /\ [Next]_vars => IInv'
    BY TypeStep, LocalStep, PaidStep, ApartStep, EvidenceStep, SpacedStep DEF IInv
<1> QED BY <1>1, <1>2, PTL DEF Spec

\* Every variable has its type.
THEOREM TypeCorrect == Spec => []TypeOK
<1>1. IInv => TypeOK
    BY DEF IInv
<1> QED BY <1>1, Invariance, PTL

\* No order of lookups, waits, commits and rollbacks of any number of sessions
\* repeats a paid request without an excuse.
THEOREM RepeatsArePaidFor == Spec => []RepeatsPaidFor
<1>1. IInv => RepeatsPaidFor
  <2> SUFFICES ASSUME IInv, NEW k \in Keys PROVE asked[k] <= 1 + Excuses(k)
      BY DEF RepeatsPaidFor
  <2>1. Cardinality(Missing(k)) \in Nat
      BY Sizes DEF Missing
  <2> QED BY <2>1 DEF IInv, TypeOK, Paid, Excuses
<1> QED BY <1>1, Invariance, PTL

\* An INSERT conflicts only with an answer that was asked for at the same time.
THEOREM ConflictsAreExplained == Spec => []ConflictExplained
<1>1. IInv => ConflictExplained
    BY AskingIsMissing DEF IInv, TypeOK, Apart, InPlay, Owning, ConflictExplained, At, Busy, HeldPcs
<1> QED BY <1>1, Invariance, PTL

\* Orders to one address get one verdict.
THEOREM OneVerdict == Spec => []SameAddressSameVerdict
<1>1. IInv => SameAddressSameVerdict
  <2> SUFFICES ASSUME IInv, NEW s \in Sessions, NEW t \in Sessions,
                      job[s].key = job[t].key, job[s].verdict # "none", job[t].verdict # "none",
                      Excuses(job[s].key) = 0
               PROVE  job[s].verdict = job[t].verdict
      BY DEF SameAddressSameVerdict
  <2> DEFINE k == job[s].key
  <2>1. k \in Keys /\ overlap[k] = 0
    <3>1. k \in Keys
        BY DEF IInv, Local
    <3> QED BY <3>1 DEF IInv, TypeOK, Excuses
  <2>2. \A r, q \in InPlay(k) : r = q /\ cache[k] = NoAnswer
      BY <2>1 DEF IInv, Apart
  <2>3. \A r \in Sessions : draft[r][k] # NoAnswer => r \in InPlay(k)
      BY <2>1, AskingIsMissing DEF InPlay, Owning
  <2>4. \A r \in {s, t} :
           \/ cache[k] # NoAnswer /\ job[r].verdict = Verdict(cache[k])
           \/ \E q \in Sessions : draft[q][k] # NoAnswer /\ job[r].verdict = Verdict(draft[q][k])
      BY <2>1 DEF IInv, Evidence, On
  <2> HIDE DEF k
  <2> QED BY <2>2, <2>3, <2>4
<1> QED BY <1>1, Invariance, PTL

\* A committed answer is not replaced.
THEOREM AnswersAreKept == Spec => AnswerKept
<1>1. IInv /\ [Next]_vars => [\A k \in Keys : cache[k] # NoAnswer /\ overlap[k] = 0
                                              => cache'[k] = cache[k]]_vars
  <2> SUFFICES ASSUME IInv, [Next]_vars, NEW k \in Keys, cache[k] # NoAnswer, overlap[k] = 0
               PROVE  cache'[k] = cache[k]
      OBVIOUS
  <2>1. TypeOK /\ Local /\ InPlay(k) = {}
      BY DEF IInv, TypeOK, Apart
  <2> QED BY <2>1, KeySteps
          DEF Effect, Untouched, Joins, Answered, Failed, Leaves, Undone, InPlay, Crash
<1> QED BY <1>1, Invariance, PTL DEF Spec, AnswerKept

\* Requests to Nominatim come too close only if sessions waited together.
THEOREM BurstsAreExplained == Spec => []BurstsExplained
<1>1. IInv => BurstsExplained
    BY DEF IInv, Spaced, BurstsExplained
<1> QED BY <1>1, Invariance, PTL
-----------------------------------------------------------------------------
(* The length of a call of resolve *)

\* How many steps a call has before it at most, a tick of its sleep included:
\* the lookup, the rate limit, the request, what it stores, and the end of the
\* transaction of one that raised.
StepsLeft(j) ==
    CASE j.pc = "lookup" -> Interval + 7
      [] j.pc = "limit"  -> Interval + 6
      [] j.pc = "sleep"  -> j.wait + 5
      [] j.pc = "call"   -> 4
      [] j.pc = "check"  -> 3
      [] j.pc \in {"insert", "update"} -> 2
      [] j.pc = "raised" -> 1
      [] j.pc = "ready"  -> 0

\* The table, in the form the steps use it.
LEMMA StepsAt ==
    ASSUME NEW j
    PROVE  /\ j.pc = "lookup" => StepsLeft(j) = Interval + 7
           /\ j.pc = "limit"  => StepsLeft(j) = Interval + 6
           /\ j.pc = "sleep"  => StepsLeft(j) = j.wait + 5
           /\ j.pc = "call"   => StepsLeft(j) = 4
           /\ j.pc = "check"  => StepsLeft(j) = 3
           /\ j.pc \in {"insert", "update"} => StepsLeft(j) = 2
           /\ j.pc = "raised" => StepsLeft(j) = 1
           /\ j.pc = "ready"  => StepsLeft(j) = 0
    BY DEF StepsLeft

LEMMA StepsAreCounted ==
    ASSUME NEW j \in Jobs
    PROVE  /\ StepsLeft(j) \in 0..Interval + 7
           /\ j.pc \notin {"ready", "raised"} => StepsLeft(j) > 1
<1>1. j.wait \in 0..Interval /\ Interval \in Nat /\ j.pc \in Pcs
    BY BoundsAssumption DEF Jobs
<1>2. CASE j.pc = "sleep"
    BY <1>1, <1>2, StepsAt
<1>3. CASE j.pc # "sleep"
    BY <1>1, <1>3, StepsAt DEF Pcs, CallPcs, HeldPcs
<1> QED BY <1>2, <1>3

\* What the steps make of a job.
LEMMA Updates ==
    ASSUME NEW j \in Jobs, NEW a, NEW v
    PROVE  /\ [j EXCEPT !.pc = "ready", !.answer = a, !.verdict = v].pc = "ready"
           /\ [j EXCEPT !.pc = "sleep", !.wait = v].pc = "sleep"
           /\ [j EXCEPT !.pc = "sleep", !.wait = v].wait = v
           /\ [j EXCEPT !.pc = "check", !.answer = a].pc = "check"
<1>1. {"pc", "answer", "verdict", "wait"} \subseteq DOMAIN j
    BY DEF Jobs
<1> QED BY <1>1

\* Where each step of a call leads.
LEMMA StepLeads ==
    ASSUME TypeOK, NEW s \in Sessions, Busy(s), Step(s)
    PROVE  \/ job[s].pc = "lookup" /\ job'[s].pc \in {"ready", "limit", "call"}
           \/ job[s].pc = "limit" /\ job'[s].pc = "sleep" /\ job'[s].wait \in 0..Interval
           \/ job[s].pc = "sleep" /\ job[s].wait = 0 /\ job'[s].pc = "call"
           \/ job[s].pc = "call" /\ job'[s].pc \in {"check", "ready", "raised"}
           \/ job[s].pc = "check" /\ job'[s].pc \in {"ready", "insert", "update"}
           \/ job[s].pc \in {"insert", "update"} /\ job'[s].pc = "ready"
<1>1. job \in [Sessions -> Jobs] /\ job[s] \in Jobs /\ since \in 0..Interval
    BY DEF TypeOK
<1>2. \A p : [job[s] EXCEPT !.pc = p].pc = p
    BY <1>1 DEF Jobs
<1>3. ASSUME NEW p, Goto(s, p) PROVE job'[s].pc = p
    BY <1>1, <1>2, <1>3, OneMoves DEF Goto
<1>4. ASSUME NEW answer, Return(s, answer) PROVE job'[s].pc = "ready"
  <2>1. job'[s] = [job[s] EXCEPT !.pc = "ready", !.answer = NoAnswer, !.verdict = Verdict(answer)]
      BY <1>4, OneMoves DEF Return
  <2> DEFINE v == Verdict(answer)
  <2> HIDE DEF v
  <2> QED BY <1>1, <2>1, Updates DEF v
<1>5. ASSUME Undo(s) PROVE job'[s].pc = "ready"
    BY <1>5, OneMoves DEF Undo, NoJob
<1>6. CASE Hit(s)
    BY <1>6, <1>4 DEF Hit, At
<1>7. CASE Miss(s)
    BY <1>7, <1>3 DEF Miss, At
<1>8. CASE Limit(s)
  <2>1. job'[s] = [job[s] EXCEPT !.pc = "sleep", !.wait = Interval - since]
      BY <1>8, OneMoves DEF Limit
  <2>2. Interval - since \in 0..Interval
      BY <1>1, BoundsAssumption
  <2> QED BY <1>1, <1>8, <2>1, <2>2, Updates DEF Limit, At
<1>9. CASE Wake(s)
    BY <1>9, <1>3 DEF Wake, At
<1>10. CASE Found(s)
  <2>1. \E answer : job'[s] = [job[s] EXCEPT !.pc = "check", !.answer = answer]
      BY <1>10, OneMoves DEF Found
  <2> QED BY <1>1, <1>10, <2>1, Updates DEF Found, At
<1>11. CASE NotFound(s)
    BY <1>11, <1>4 DEF NotFound, At
<1>12. CASE BackendRaises(s)
    BY <1>12, <1>3 DEF BackendRaises, At
<1>13. CASE CheckRow(s)
  <2>1. \/ Goto(s, "insert") \/ Goto(s, "update") \/ \E row : Return(s, row)
      BY <1>13 DEF CheckRow
  <2> QED BY <1>13, <2>1, <1>3, <1>4 DEF CheckRow, At
<1>14. CASE Insert(s) \/ Update(s)
    BY <1>14, <1>4 DEF Insert, Update, Flush, At
<1>15. CASE InsertConflict(s)
    BY <1>15, <1>5 DEF InsertConflict, At
<1>16. CASE Deadlock(s)
  <2>1. job[s].pc \in {"insert", "update"}
      BY <1>16 DEF Deadlock, InCircle, WaitsFor
  <2> QED BY <1>16, <2>1, <1>5 DEF Deadlock
<1>17. ~Commit(s)
    BY DEF Commit, Busy
<1> QED BY <1>6, <1>7, <1>8, <1>9, <1>10, <1>11, <1>12, <1>13, <1>14, <1>15, <1>16, <1>17 DEF Step

\* A session's own step, or the end of its transaction, brings its call nearer to
\* the end.
LEMMA StepShortens ==
    ASSUME TypeOK, NEW s \in Sessions, Busy(s), Step(s) \/ RollBack(s)
    PROVE  StepsLeft(job'[s]) < StepsLeft(job[s])
<1>1. job[s] \in Jobs /\ job[s].wait \in 0..Interval /\ Interval \in Nat
    BY BoundsAssumption DEF TypeOK, Jobs
<1>2. CASE RollBack(s)
  <2>1. job'[s] = NoJob
      BY <1>2, OneMoves DEF RollBack, Undo
  <2>2. StepsLeft(job'[s]) = 0
      BY <2>1, StepsAt DEF NoJob
  <2>3. StepsLeft(job[s]) \in 0..Interval + 7 /\ StepsLeft(job[s]) > 1
      BY <1>1, StepsAreCounted DEF Busy
  <2> QED BY <2>2, <2>3
<1>3. CASE Step(s)
  <2> DEFINE m == StepsLeft(job[s])
             n == StepsLeft(job'[s])
  <2> HIDE DEF m, n
  <2>1. CASE job[s].pc = "lookup"
    <3>1. m = Interval + 7 /\ n \in {0, Interval + 6, 4}
        BY <1>3, <2>1, StepsAt, StepLeads DEF m, n
    <3> QED BY <1>1, <3>1 DEF m, n
  <2>2. CASE job[s].pc = "limit"
    <3>1. m = Interval + 6 /\ n = job'[s].wait + 5 /\ job'[s].wait \in 0..Interval
        BY <1>3, <2>2, StepsAt, StepLeads DEF m, n
    <3> QED BY <1>1, <3>1 DEF m, n
  <2>3. CASE job[s].pc = "sleep"
    <3>1. m = 5 /\ n = 4
        BY <1>3, <2>3, StepsAt, StepLeads DEF m, n
    <3> QED BY <3>1 DEF m, n
  <2>4. CASE job[s].pc \notin {"lookup", "limit", "sleep"}
    <3>1. \/ m = 4 /\ n \in {3, 0, 1}
          \/ m = 3 /\ n \in {0, 2}
          \/ m = 2 /\ n = 0
        BY <1>3, <2>4, StepsAt, StepLeads DEF m, n
    <3> QED BY <3>1 DEF m, n
  <2> QED BY <2>1, <2>2, <2>3, <2>4
<1> QED BY <1>2, <1>3

\* Nothing lengthens a call, and its session's own steps shorten it.
ResolvesShorten ==
    \A s \in Sessions : Busy(s) =>
       /\ StepsLeft(job'[s]) <= StepsLeft(job[s])
       /\ Step(s) \/ RollBack(s) => StepsLeft(job'[s]) < StepsLeft(job[s])

\* A call of resolve makes at most Interval + 7 steps, the ticks of its sleep
\* included: none of its own, and nothing another session or the process does,
\* sends it back.  (That it makes them, although its flush may wait for the row of
\* another session, is EveryResolveEnds.)
THEOREM ResolvesAreBounded ==
    Spec => [](\A s \in Sessions : StepsLeft(job[s]) \in 0..Interval + 7)
            /\ [][ResolvesShorten]_vars
<1>1. TypeOK => \A s \in Sessions : StepsLeft(job[s]) \in 0..Interval + 7
    BY StepsAreCounted DEF TypeOK
<1>2. TypeOK /\ [Next]_vars => [ResolvesShorten]_vars
  <2> SUFFICES ASSUME TypeOK, Next, NEW x \in Sessions, Busy(x)
               PROVE  /\ StepsLeft(job'[x]) <= StepsLeft(job[x])
                      /\ Step(x) \/ RollBack(x) => StepsLeft(job'[x]) < StepsLeft(job[x])
      BY DEF ResolvesShorten
  <2>1. job[x] \in Jobs /\ StepsLeft(job[x]) \in 0..Interval + 7
      BY StepsAreCounted DEF TypeOK
  <2>2. StepsLeft(job[x]) > 1
      BY StepsAreCounted DEF TypeOK, Busy
  <2>3. job' \in [Sessions -> Jobs] /\ StepsLeft(job'[x]) \in 0..Interval + 7
      BY TypeStep, StepsAreCounted DEF TypeOK
  <2>4. Step(x) \/ RollBack(x) => StepsLeft(job'[x]) < StepsLeft(job[x])
      BY StepShortens
  <2>5. CASE Step(x) \/ RollBack(x)
      BY <2>1, <2>3, <2>4, <2>5, BoundsAssumption
  <2>6. SUFFICES ASSUME ~(Step(x) \/ RollBack(x))
                 PROVE  StepsLeft(job'[x]) <= StepsLeft(job[x])
      BY <2>4, <2>5
  <2>7. ASSUME job'[x] = job[x] PROVE StepsLeft(job'[x]) <= StepsLeft(job[x])
      BY <2>1, <2>7, BoundsAssumption
  <2>8. ASSUME NEW s \in Sessions, s # x, NEW j, Becomes(s, j) PROVE job'[x] = job[x]
      BY <2>8, OneMoves
  <2>9. CASE \E s \in Sessions, k \in Keys : Resolve(s, k)
    <3>1. PICK s \in Sessions : \E k \in Keys : Resolve(s, k)
        BY <2>9
    <3>2. s # x /\ \E j : Becomes(s, j)
        BY <3>1 DEF Resolve, At, Busy
    <3> QED BY <3>2, <2>7, <2>8
  <2>10. CASE \E s \in Sessions : Step(s) \/ RollBack(s)
    <3>1. PICK s \in Sessions : Step(s) \/ RollBack(s)
        BY <2>10
    <3>2. s # x
        BY <3>1, <2>6
    <3>3. \E j : Becomes(s, j)
        BY <3>1 DEF Step, RollBack, Goto, Return, Undo, Hit, Miss, Limit, Wake, Found, NotFound,
                    BackendRaises, CheckRow, Insert, Update, Flush, InsertConflict, Deadlock, Commit
    <3> QED BY <3>2, <3>3, <2>7, <2>8
  <2>11. CASE Tick
    <3>1. job'[x] = [job[x] EXCEPT !.wait = IF @ > 0 THEN @ - 1 ELSE 0]
        BY <2>11 DEF Tick
    <3>2. job'[x].pc = job[x].pc /\ job'[x].wait <= job[x].wait
          /\ job[x].wait \in 0..Interval /\ job'[x].wait \in 0..Interval
        BY <2>1, <2>3, <3>1, BoundsAssumption DEF Jobs
    <3>3. CASE job[x].pc = "sleep"
      <4>1. StepsLeft(job[x]) = job[x].wait + 5 /\ StepsLeft(job'[x]) = job'[x].wait + 5
          BY <3>2, <3>3, StepsAt
      <4> QED BY <3>2, <4>1, BoundsAssumption
    <3>4. CASE job[x].pc # "sleep"
      <4>1. StepsLeft(job'[x]) = StepsLeft(job[x])
          BY <2>1, <3>2, <3>4, StepsAt DEF Jobs, Pcs, CallPcs, HeldPcs
      <4> QED BY <2>1, <4>1, BoundsAssumption
    <3> QED BY <3>3, <3>4
  <2>12. CASE Crash
    <3>1. job'[x] = NoJob
        BY <2>12 DEF Crash
    <3>2. StepsLeft(NoJob) = 0
        BY StepsAt DEF NoJob
    <3> QED BY <2>1, <3>1, <3>2, BoundsAssumption
  <2>13. CASE Finished
      BY <2>7, <2>13 DEF Finished, vars
  <2> QED BY <2>9, <2>10, <2>11, <2>12, <2>13 DEF Next
<1> QED BY <1>1, <1>2, TypeCorrect, PTL DEF Spec
=============================================================================
