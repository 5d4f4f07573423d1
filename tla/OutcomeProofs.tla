--------------------------- MODULE OutcomeProofs ---------------------------
(***************************************************************************)
(* That a call of process_order leaves the record its outcome stands for,  *)
(* and that it makes a bounded number of steps, for every set of orders    *)
(* and workers and every number of attempts.                               *)
(***************************************************************************)
EXTENDS ProcessorProofs

-----------------------------------------------------------------------------
(* The inductive invariant *)

\* The outcomes that say the order has a visit, and those of a failed delivery.
Delivered == {"completed", "recovered", "skipped_duplicate"}
Failures  == {"permanent_failed", "transient_failed"}

\* Which outcomes a call may have where it is: none before its delivery, one of
\* the delivery's while the result is written, a reason while it is flagged.
Foreseen(j) ==
    /\ j.pc \in {"map", "claim", "find", "post"} => j.outcome = "none"
    /\ j.pc = "complete" => j.outcome \in {"completed", "recovered"} /\ j.visit # NoVisit
    /\ j.pc = "fail_permanent" => j.outcome = "permanent_failed"
    /\ j.pc = "fail_transient" => j.outcome = "transient_failed"
    /\ j.pc \in {"review", "review_insert"} =>
          j.outcome \in {"manual_review", "permanent_failed"} /\ j.reason # NoReason
    /\ j.pc = "alert" => j.outcome \in Failures \/ j.outcome = "manual_review"

\* A call that is past its review has left one.
Flagged(j) ==
    j.pc \in {"alert", "returned"} /\ j.outcome \in {"manual_review", "permanent_failed"}
       => reviews[j.order] # NoReason

\* A call that is past the write of its result has left the row it stands for.
Written(j) ==
    /\ j.pc = "returned" /\ j.outcome \in Delivered => rows[j.order].visit # NoVisit
    /\ j.pc \in {"review", "review_insert", "alert", "returned"} /\ j.outcome \in Failures
          => rows[j.order].status \in {"failed", "completed"}

Recorded == \A w \in Workers : Foreseen(job[w]) /\ Flagged(job[w]) /\ Written(job[w])

\* A completed row has a visit (half of RowVisitIsOwn).
CompletedRowsBind ==
    \A o \in Orders : rows[o].status = "completed" => rows[o].visit # NoVisit

\* What a table row says of an order is not unsaid.
Kept(o) ==
    /\ rows[o].visit # NoVisit => rows'[o].visit # NoVisit
    /\ rows[o].status \in {"failed", "completed"}
          => rows'[o].status \in {"failed", "completed"}
    /\ reviews[o] # NoReason => reviews'[o] # NoReason

-----------------------------------------------------------------------------
\* A reason that a worker records is one.
LEMMA ReasonsAreReasons == NoReason \notin Reasons
BY DataReasonsAssumption DEF Reasons, NoReason, PermanentReason

\* No step takes a visit or a review away, or makes a failed row pending.
LEMMA RecordsStay ==
    ASSUME TypeOK, Recorded, [Next]_vars, NEW o \in Orders
    PROVE  Kept(o)
<1>. USE DEF shared
<1>1. CASE UNCHANGED <<rows, reviews>>
  BY <1>1 DEF Kept
<1>2. ASSUME NEW w \in Workers, ReviewInsert(w)
      PROVE  Kept(o)
  BY <1>2 DEF ReviewInsert, TypeOK, Recorded, Foreseen, At, Kept
<1>3. ASSUME NEW w \in Workers,
             ClaimNew(w) \/ MarkCompleted(w) \/ MarkFailedPermanent(w) \/ MarkFailedTransient(w)
      PROVE  Kept(o)
  <2>1. UNCHANGED reviews /\ job[w].order \in Orders /\ rows \in [Orders -> Rows]
    BY <1>3 DEF TypeOK, At, ClaimNew, MarkCompleted, MarkFailedPermanent, MarkFailedTransient
  <2>2. rows[o] \in Rows
    BY <2>1
  <2>3. CASE ClaimNew(w)
    BY <2>1, <2>2, <2>3 DEF ClaimNew, ClaimResult, Rows, Kept
  <2>4. CASE MarkCompleted(w)
    <3>1. job[w].visit # NoVisit
      BY <2>4 DEF MarkCompleted, Recorded, Foreseen, At
    <3>. QED
      BY <2>1, <2>2, <2>4, <3>1 DEF MarkCompleted, Rows, Kept
  <2>5. CASE MarkFailedPermanent(w)
    BY <2>1, <2>2, <2>5 DEF MarkFailedPermanent, Rows, Kept
  <2>6. CASE MarkFailedTransient(w)
    BY <2>1, <2>2, <2>6 DEF MarkFailedTransient, Rows, Kept
  <2>. QED
    BY <1>3, <2>1, <2>3, <2>4, <2>5, <2>6
<1>4. \/ UNCHANGED <<rows, reviews>>
      \/ \E w \in Workers : ReviewInsert(w)
      \/ \E w \in Workers : \/ ClaimNew(w) \/ MarkCompleted(w)
                            \/ MarkFailedPermanent(w) \/ MarkFailedTransient(w)
  BY DEF Next, vars, Begin, Work, Raise, Collect, LateArrival, Crash, Finished,
         MapOk, MapReview, ReviewLookup, ReviewConflict, Alert, ClaimSkip, ClaimRetry,
         FindHit, FindNone, FindTransient, PostOk, PostUnreadable, PostRejected,
         PostRefused, PostAbandoned
<1>. QED
  BY <1>1, <1>2, <1>3, <1>4

\* The calls a step does not touch stay recorded.
LEMMA OthersStayRecorded ==
    ASSUME TypeOK, Recorded, [Next]_vars,
           NEW w \in Workers, job'[w] = job[w]
    PROVE  (Foreseen(job[w]) /\ Flagged(job[w]) /\ Written(job[w]))'
<1>1. CASE job[w].pc = "idle"
  BY <1>1 DEF Foreseen, Flagged, Written
<1>2. CASE job[w].pc # "idle"
  <2>1. job[w].order \in Orders
    BY <1>2 DEF TypeOK, At
  <2>. QED
    BY <2>1, RecordsStay DEF Recorded, Foreseen, Flagged, Written, Kept
<1>. QED
  BY <1>1, <1>2

\* A step of a call that writes neither table.
LEMMA QuietMoves ==
    ASSUME TypeOK, CompletedRowsBind, Recorded, NEW w \in Workers, UNCHANGED <<rows, reviews>>,
           \/ MapOk(w) \/ (\E reason \in DataReasons : MapReview(w, reason))
           \/ ReviewLookup(w) \/ ReviewConflict(w) \/ Alert(w)
           \/ ClaimSkip(w) \/ Raise(w)
    PROVE  (Foreseen(job[w]) /\ Flagged(job[w]) /\ Written(job[w]))'
<1>. DEFINE Stands == (Foreseen(job[w]) /\ Flagged(job[w]) /\ Written(job[w]))'
<1>1. job[w] \in Jobs /\ job \in [Workers -> Jobs] /\ (job[w].pc # "idle" => job[w].order \in Orders)
  BY DEF TypeOK, At
<1>2. Foreseen(job[w]) /\ Flagged(job[w]) /\ Written(job[w])
  BY DEF Recorded
<1>. USE <1>1, <1>2 DEF Becomes, Goto, Conclude, At, Jobs, Foreseen, Flagged, Written, Delivered, Failures
<1>3. CASE MapOk(w)
  BY <1>3 DEF MapOk
<1>4. ASSUME NEW reason \in DataReasons, MapReview(w, reason)
      PROVE  Stands
  BY <1>4, ReasonsAreReasons DEF MapReview, Reasons
<1>5. CASE ReviewLookup(w)
  BY <1>5 DEF ReviewLookup
<1>6. CASE ReviewConflict(w)
  BY <1>6 DEF ReviewConflict
<1>7. CASE Alert(w)
  BY <1>7 DEF Alert
<1>8. CASE ClaimSkip(w)
  <2>1. rows[job[w].order].visit # NoVisit
    BY <1>8 DEF ClaimSkip, ClaimResult, CompletedRowsBind
  <2>. QED
    BY <1>8, <2>1 DEF ClaimSkip
<1>9. CASE Raise(w)
  BY <1>9 DEF Raise
<1>. QED
  BY <1>3, <1>4, <1>5, <1>6, <1>7, <1>8, <1>9

\* A step of the delivery that writes neither table.
LEMMA DeliveryMoves ==
    ASSUME TypeOK, Recorded, NEW w \in Workers, UNCHANGED <<rows, reviews>>,
           \/ ClaimRetry(w) \/ FindHit(w) \/ FindNone(w) \/ FindTransient(w)
           \/ PostOk(w) \/ PostUnreadable(w) \/ PostRejected(w)
           \/ PostRefused(w) \/ PostAbandoned(w)
    PROVE  (Foreseen(job[w]) /\ Flagged(job[w]) /\ Written(job[w]))'
<1>1. job[w] \in Jobs /\ job \in [Workers -> Jobs] /\ (job[w].pc # "idle" => job[w].order \in Orders)
  BY DEF TypeOK, At
<1>2. Foreseen(job[w]) /\ Flagged(job[w]) /\ Written(job[w])
  BY DEF Recorded
<1>. USE <1>1, <1>2 DEF Becomes, Goto, Conclude, At, Jobs, Foreseen, Flagged, Written, Delivered, Failures
<1>3. CASE ClaimRetry(w)
  BY <1>3 DEF ClaimRetry, ClaimResult
<1>4. CASE FindHit(w)
  <2>1. PICK v \in FoundByReference(job[w].order) :
           Becomes(w, [job[w] EXCEPT !.pc = "complete", !.visit = v, !.outcome = "recovered"])
    BY <1>4 DEF FindHit
  <2>2. job'[w] = [job[w] EXCEPT !.pc = "complete", !.visit = v, !.outcome = "recovered"]
    BY <2>1
  <2>3. v # NoVisit
    BY <1>4, <2>1 DEF FindHit, FoundByReference, TypeOK, VisitIds, NoVisit
  <2>. QED
    BY <1>4, <2>2, <2>3 DEF FindHit
<1>5. CASE FindNone(w)
  BY <1>5 DEF FindNone
<1>6. CASE FindTransient(w)
  BY <1>6 DEF FindTransient
<1>7. CASE PostOk(w)
  <2>1. nextVisit # NoVisit
    BY DEF TypeOK, VisitIds, NoVisit
  <2>. QED
    BY <1>7, <2>1 DEF PostOk
<1>8. CASE PostUnreadable(w)
  BY <1>8 DEF PostUnreadable
<1>9. CASE PostRejected(w)
  BY <1>9 DEF PostRejected
<1>10. CASE At(w, "post") /\ RetryPost(w)
  <2>1. \/ job'[w] = [job[w] EXCEPT !.attempt = @ + 1]
        \/ job'[w] = [job[w] EXCEPT !.pc = "fail_transient", !.outcome = "transient_failed"]
    BY <1>10 DEF RetryPost
  <2>. QED
    BY <1>10, <2>1
<1>11. CASE PostRefused(w) \/ PostAbandoned(w)
  BY <1>10, <1>11 DEF PostRefused, PostAbandoned
<1>. QED
  BY <1>3, <1>4, <1>5, <1>6, <1>7, <1>8, <1>9, <1>10, <1>11

\* A step that writes a row or a review.
LEMMA WritingMoves ==
    ASSUME TypeOK, Recorded, NEW w \in Workers,
           \/ ReviewInsert(w) \/ ClaimNew(w) \/ MarkCompleted(w)
           \/ MarkFailedPermanent(w) \/ MarkFailedTransient(w)
    PROVE  (Foreseen(job[w]) /\ Flagged(job[w]) /\ Written(job[w]))'
<1>0. job[w].pc # "idle"
  BY DEF At, ReviewInsert, ClaimNew, MarkCompleted, MarkFailedPermanent, MarkFailedTransient
<1>1. /\ job[w] \in Jobs /\ job \in [Workers -> Jobs] /\ job[w].order \in Orders
      /\ rows \in [Orders -> Rows] /\ reviews \in [Orders -> Reasons \cup {NoReason}]
      /\ rows[job[w].order] \in Rows
  BY <1>0 DEF TypeOK, At
<1>2. Foreseen(job[w]) /\ Flagged(job[w]) /\ Written(job[w])
  BY DEF Recorded
<1>. USE <1>1, <1>2 DEF Becomes, Goto, At, Jobs, Rows, Foreseen, Flagged, Written, Delivered, Failures
<1>3. CASE ReviewInsert(w)
  BY <1>3 DEF ReviewInsert
<1>4. CASE ClaimNew(w)
  BY <1>4 DEF ClaimNew
<1>5. CASE MarkCompleted(w)
  BY <1>5 DEF MarkCompleted
<1>6. CASE MarkFailedPermanent(w)
  <2>1. job'[w].order = job[w].order /\ rows'[job[w].order].status = "failed"
    BY <1>6 DEF MarkFailedPermanent
  <2>. QED
    BY <1>6, <2>1 DEF MarkFailedPermanent, NoReason, PermanentReason
<1>7. CASE MarkFailedTransient(w)
  BY <1>7 DEF MarkFailedTransient
<1>. QED
  BY <1>3, <1>4, <1>5, <1>6, <1>7

\* Every step keeps every call recorded: the calls it does not touch, and the
\* one that takes it.
LEMMA StepRecorded ==
    ASSUME TypeOK, CompletedRowsBind, Recorded, [Next]_vars
    PROVE  Recorded'
<1>. SUFFICES ASSUME NEW x \in Workers
              PROVE  (Foreseen(job[x]) /\ Flagged(job[x]) /\ Written(job[x]))'
  BY DEF Recorded
<1>. DEFINE Stands == (Foreseen(job[x]) /\ Flagged(job[x]) /\ Written(job[x]))'
<1>1. job'[x] = job[x] => Stands
  BY OthersStayRecorded
<1>2. (job'[x] = NoJob) => Stands
  BY DEF NoJob, Foreseen, Flagged, Written
<1>3. ASSUME NEW w \in Workers, NEW j, Becomes(w, j), x # w
      PROVE  job'[x] = job[x]
  BY <1>3 DEF Becomes, TypeOK
<1>4. CASE UNCHANGED job
  BY <1>1, <1>4
<1>5. ASSUME NEW w \in Workers, NEW o \in Orders, Begin(w, o)
      PROVE  Stands
  <2>1. CASE x = w
    BY <1>5, <2>1 DEF Begin, Becomes, TypeOK, NoJob, Foreseen, Flagged, Written
  <2>2. CASE x # w
    BY <1>1, <1>3, <1>5, <2>2 DEF Begin
  <2>. QED
    BY <2>1, <2>2
<1>6. ASSUME NEW w \in Workers, Work(w) \/ Raise(w)
      PROVE  Stands
  <2>1. \E j : Becomes(w, j)
    BY <1>6 DEF Work, Raise, Goto, Conclude, RetryPost,
         MapOk, MapReview, ReviewLookup, ReviewInsert, ReviewConflict, Alert, ClaimNew,
         ClaimSkip, ClaimRetry, FindHit, FindNone, FindTransient, PostOk, PostUnreadable,
         PostRejected, PostRefused, PostAbandoned, MarkCompleted, MarkFailedPermanent,
         MarkFailedTransient
  <2>2. CASE x # w
    BY <1>1, <1>3, <2>1, <2>2
  <2>3. CASE x = w /\ (\/ ReviewInsert(w) \/ ClaimNew(w) \/ MarkCompleted(w)
                       \/ MarkFailedPermanent(w) \/ MarkFailedTransient(w))
    BY <2>3, WritingMoves
  <2>4. CASE x = w /\ (\/ MapOk(w) \/ (\E reason \in DataReasons : MapReview(w, reason))
                       \/ ReviewLookup(w) \/ ReviewConflict(w) \/ Alert(w)
                       \/ ClaimSkip(w) \/ Raise(w))
    <3>1. UNCHANGED <<rows, reviews>>
      BY <2>4 DEF shared, MapOk, MapReview, ReviewLookup, ReviewConflict, Alert,
                  ClaimSkip, Raise
    <3>. QED
      BY <2>4, <3>1, QuietMoves
  <2>5. CASE x = w /\ (\/ ClaimRetry(w) \/ FindHit(w) \/ FindNone(w) \/ FindTransient(w)
                       \/ PostOk(w) \/ PostUnreadable(w) \/ PostRejected(w)
                       \/ PostRefused(w) \/ PostAbandoned(w))
    <3>1. UNCHANGED <<rows, reviews>>
      BY <2>5 DEF shared, ClaimRetry, FindHit, FindNone, FindTransient, PostOk,
                  PostUnreadable, PostRejected, PostRefused, PostAbandoned
    <3>. QED
      BY <2>5, <3>1, DeliveryMoves
  <2>. QED
    BY <1>6, <2>2, <2>3, <2>4, <2>5 DEF Work
<1>7. ASSUME NEW w \in Workers, Collect(w)
      PROVE  Stands
  <2>1. CASE x = w
    BY <1>2, <1>7, <2>1 DEF Collect, Becomes, TypeOK
  <2>2. CASE x # w
    BY <1>1, <1>3, <1>7, <2>2 DEF Collect
  <2>. QED
    BY <2>1, <2>2
<1>8. CASE Crash
  BY <1>2, <1>8 DEF Crash
<1>. QED
  BY <1>4, <1>5, <1>6, <1>7, <1>8 DEF Next, vars, LateArrival, Finished

\* A call of process_order that ends with an outcome has left the record the
\* outcome stands for, whatever other threads do with the order meanwhile: a
\* review an operator sees, a visit bound to the order, or a row that is failed
\* (or since completed) and that a later call takes up again.
THEOREM OutcomesAreAccountedFor == Spec => []AccountedFor
<1>1. Init => Recorded
  BY DEF Init, NoJob, Recorded, Foreseen, Flagged, Written
<1>2. TypeOK /\ CompletedRowsBind /\ Recorded /\ [Next]_vars => Recorded'
  BY StepRecorded
<1>3. Recorded => AccountedFor
  BY DEF Recorded, Flagged, Written, Delivered, Failures, AccountedFor, At
<1>4. IInv => TypeOK /\ CompletedRowsBind
  BY DEF IInv, RowVisitIsOwn, CompletedRowsBind
<1>. QED
  BY <1>1, <1>2, <1>3, <1>4, Invariance, PTL DEF Spec

-----------------------------------------------------------------------------
(* The length of a call *)

\* How many steps a call has before it at most: the attempts it has left, and
\* what precedes and follows them.
StepsLeft(j) ==
    CASE j.pc = "map"            -> MaxAttempts + 8
      [] j.pc = "claim"          -> MaxAttempts + 7
      [] j.pc = "find"           -> MaxAttempts + 6
      [] j.pc = "post"           -> MaxAttempts - j.attempt + 6
      [] j.pc = "fail_permanent" -> 5
      [] j.pc = "review"         -> 4
      [] j.pc \in {"review_insert", "fail_transient"} -> 3
      [] j.pc \in {"alert", "complete"}               -> 2
      [] j.pc = "returned"       -> 1
      [] j.pc = "idle"           -> 0

\* The table, in the form the steps use it.
LEMMA StepsAt ==
    ASSUME NEW j
    PROVE  /\ j.pc = "map"   => StepsLeft(j) = MaxAttempts + 8
           /\ j.pc = "claim" => StepsLeft(j) = MaxAttempts + 7
           /\ j.pc = "find"  => StepsLeft(j) = MaxAttempts + 6
           /\ j.pc = "post"  => StepsLeft(j) = MaxAttempts - j.attempt + 6
           /\ j.pc = "fail_permanent" => StepsLeft(j) = 5
           /\ j.pc = "review" => StepsLeft(j) = 4
           /\ j.pc \in {"review_insert", "fail_transient"} => StepsLeft(j) = 3
           /\ j.pc \in {"alert", "complete"} => StepsLeft(j) = 2
           /\ j.pc = "returned" => StepsLeft(j) = 1
           /\ j.pc = "idle" => StepsLeft(j) = 0
BY DEF StepsLeft

LEMMA StepsAreCounted ==
    ASSUME NEW j \in Jobs
    PROVE  /\ StepsLeft(j) \in 0..MaxAttempts + 8
           /\ j.pc # "idle" => StepsLeft(j) > 0
           /\ j.pc \notin {"idle", "returned"} => StepsLeft(j) > 1
<1>1. /\ j.attempt \in 0..MaxAttempts /\ MaxAttempts \in Nat
      /\ j.pc \in {"map", "claim", "find", "post", "fail_permanent", "review",
                    "review_insert", "fail_transient", "alert", "complete", "returned", "idle"}
  BY MaxAttemptsAssumption DEF Jobs, BusyPcs, DeliveryPcs
<1>2. MaxAttempts - j.attempt \in 0..MaxAttempts
  BY <1>1
<1>. DEFINE n == StepsLeft(j)
<1>3. CASE j.pc \in {"map", "claim", "find"}
  <2>1. n \in {MaxAttempts + 8, MaxAttempts + 7, MaxAttempts + 6}
    BY <1>3, StepsAt
  <2>. QED
    BY <1>1, <1>3, <2>1
<1>4. CASE j.pc = "post"
  <2>1. n = MaxAttempts - j.attempt + 6
    BY <1>4, StepsAt
  <2>. QED
    BY <1>1, <1>2, <1>4, <2>1
<1>5. CASE j.pc \notin {"map", "claim", "find", "post", "returned", "idle"}
  <2>1. n \in {5, 4, 3, 2}
    BY <1>1, <1>5, StepsAt
  <2>. QED
    BY <1>1, <1>5, <2>1
<1>6. CASE j.pc \in {"returned", "idle"}
  <2>1. n = IF j.pc = "idle" THEN 0 ELSE 1
    BY <1>6, StepsAt
  <2>. QED
    BY <1>1, <1>6, <2>1
<1>. QED
  BY <1>1, <1>3, <1>4, <1>5, <1>6

\* Where the steps of a thread lead.
LEMMA WorkLeads ==
    ASSUME TypeOK, NEW w \in Workers, Work(w)
    PROVE  LET j == job[w]
               k == job'[w]
           IN  \/ j.pc = "map" /\ k.pc \in {"claim", "review"}
               \/ j.pc = "review" /\ k.pc \in {"review_insert", "alert"}
               \/ j.pc = "review_insert" /\ k.pc \in {"alert", "returned"}
               \/ j.pc = "alert" /\ k.pc = "returned"
               \/ j.pc = "claim" /\ k.pc \in {"returned", "find"}
               \/ j.pc \in {"claim", "find"} /\ k.pc = "post" /\ k.attempt = 1
               \/ j.pc = "find" /\ k.pc = "complete"
               \/ /\ j.pc = "post"
                  /\ k.pc \in {"complete", "returned", "fail_permanent", "fail_transient"}
               \/ /\ j.pc = "post" /\ k.pc = "post"
                  /\ j.attempt < MaxAttempts /\ k.attempt = j.attempt + 1
               \/ j.pc = "complete" /\ k.pc = "returned"
               \/ j.pc = "fail_permanent" /\ k.pc = "review"
               \/ j.pc = "fail_transient" /\ k.pc = "alert"
<1>1. job \in [Workers -> Jobs] /\ job[w] \in Jobs
  BY DEF TypeOK
<1>. USE <1>1 DEF At, Becomes, Goto, Conclude, Jobs
<1>2. CASE MapOk(w)
  BY <1>2 DEF MapOk
<1>3. ASSUME NEW reason \in DataReasons, MapReview(w, reason)
      PROVE  job[w].pc = "map" /\ job'[w].pc = "review"
  BY <1>3 DEF MapReview
<1>4. CASE ReviewLookup(w)
  BY <1>4 DEF ReviewLookup
<1>5. CASE ReviewInsert(w)
  BY <1>5 DEF ReviewInsert
<1>6. CASE ReviewConflict(w)
  BY <1>6 DEF ReviewConflict
<1>7. CASE Alert(w)
  BY <1>7 DEF Alert
<1>8. CASE ClaimNew(w)
  BY <1>8 DEF ClaimNew
<1>9. ASSUME ClaimSkip(w) \/ ClaimRetry(w)
      PROVE  job[w].pc = "claim" /\ job'[w].pc \in {"returned", "find"}
  <2>1. CASE ClaimSkip(w)
    BY <2>1 DEF ClaimSkip
  <2>2. CASE ClaimRetry(w)
    BY <2>2 DEF ClaimRetry
  <2>. QED
    BY <1>9, <2>1, <2>2
<1>10. CASE FindHit(w)
  BY <1>10 DEF FindHit
<1>11. ASSUME FindNone(w) \/ FindTransient(w)
       PROVE  job[w].pc = "find" /\ job'[w].pc = "post" /\ job'[w].attempt = 1
  <2>1. /\ job[w].pc = "find"
        /\ job' = [job EXCEPT ![w] = [job[w] EXCEPT !.pc = "post", !.attempt = 1]]
    BY <1>11 DEF FindNone, FindTransient
  <2>. QED
    BY <2>1
<1>12. ASSUME PostOk(w) \/ PostUnreadable(w) \/ PostRejected(w)
       PROVE  job[w].pc = "post" /\ job'[w].pc \in {"complete", "returned", "fail_permanent"}
  <2>1. CASE PostOk(w)
    BY <2>1 DEF PostOk
  <2>2. CASE PostUnreadable(w)
    BY <2>2 DEF PostUnreadable
  <2>3. CASE PostRejected(w)
    BY <2>3 DEF PostRejected
  <2>. QED
    BY <1>12, <2>1, <2>2, <2>3
<1>13. ASSUME PostRefused(w) \/ PostAbandoned(w)
       PROVE  /\ job[w].pc = "post"
              /\ \/ /\ job'[w].pc = "post" /\ job[w].attempt < MaxAttempts
                    /\ job'[w].attempt = job[w].attempt + 1
                 \/ job'[w].pc = "fail_transient"
  <2>1. job[w].pc = "post" /\ RetryPost(w)
    BY <1>13 DEF PostRefused, PostAbandoned
  <2>2. CASE job[w].attempt < MaxAttempts
    <3>1. job' = [job EXCEPT ![w] = [job[w] EXCEPT !.attempt = job[w].attempt + 1]]
      BY <2>1, <2>2 DEF RetryPost
    <3>. QED
      BY <2>1, <2>2, <3>1
  <2>3. CASE ~(job[w].attempt < MaxAttempts)
    <3>1. job'[w].pc = "fail_transient"
      BY <2>1, <2>3 DEF RetryPost
    <3>. QED
      BY <2>1, <3>1
  <2>. QED
    BY <2>2, <2>3
<1>14. CASE MarkCompleted(w)
  BY <1>14 DEF MarkCompleted
<1>15. CASE MarkFailedPermanent(w)
  BY <1>15 DEF MarkFailedPermanent
<1>16. CASE MarkFailedTransient(w)
  BY <1>16 DEF MarkFailedTransient
<1>. QED
  BY <1>2, <1>3, <1>4, <1>5, <1>6, <1>7, <1>8, <1>9, <1>10, <1>11, <1>12, <1>13, <1>14, <1>15,
     <1>16 DEF Work

\* A thread's own step uses up a step at least.
LEMMA WorkShortens ==
    ASSUME TypeOK, NEW w \in Workers, Work(w) \/ Raise(w) \/ Collect(w)
    PROVE  StepsLeft(job'[w]) < StepsLeft(job[w])
<1>1. /\ job \in [Workers -> Jobs] /\ job[w] \in Jobs
      /\ job[w].attempt \in 0..MaxAttempts /\ MaxAttempts \in Nat \ {0}
  BY MaxAttemptsAssumption DEF TypeOK, Jobs
<1>2. StepsLeft(job[w]) \in Nat
  BY <1>1, StepsAreCounted
<1>3. CASE Raise(w)
  <2>1. job'[w].pc = "returned" /\ job[w].pc \notin {"idle", "returned"}
    BY <1>1, <1>3 DEF Raise, Conclude, Becomes, BusyPcs, DeliveryPcs, Jobs
  <2>. QED
    BY <1>1, <1>2, <2>1, StepsAt, StepsAreCounted
<1>4. CASE Collect(w)
  <2>1. job'[w].pc = "idle" /\ job[w].pc = "returned"
    BY <1>1, <1>4 DEF Collect, At, Becomes, NoJob
  <2>. QED
    BY <2>1, StepsAt
<1>5. CASE Work(w)
  <2>. DEFINE m == StepsLeft(job[w])
              n == StepsLeft(job'[w])
  <2>. HIDE DEF m, n
  <2>1. CASE job[w].pc = "post" /\ job'[w].pc = "post"
    <3>1. /\ m = MaxAttempts - job[w].attempt + 6 /\ n = MaxAttempts - job'[w].attempt + 6
          /\ job'[w].attempt = job[w].attempt + 1
      BY <1>5, <2>1, StepsAt, WorkLeads DEF m, n
    <3>. QED
      BY <1>1, <3>1 DEF m, n
  <2>2. CASE job[w].pc = "post" /\ job'[w].pc # "post"
    <3>1. m = MaxAttempts - job[w].attempt + 6 /\ n \in {1, 2, 3, 5}
      BY <1>5, <2>2, StepsAt, WorkLeads DEF m, n
    <3>. QED
      BY <1>1, <3>1 DEF m, n
  <2>3. CASE job[w].pc # "post" /\ job'[w].pc = "post"
    <3>1. m \in {MaxAttempts + 6, MaxAttempts + 7} /\ n = MaxAttempts - 1 + 6
      BY <1>5, <2>3, StepsAt, WorkLeads DEF m, n
    <3>. QED
      BY <1>1, <3>1 DEF m, n
  <2>4. CASE job[w].pc # "post" /\ job'[w].pc # "post"
    <3>1. \/ m = MaxAttempts + 8 /\ n \in {MaxAttempts + 7, 4}
          \/ m = MaxAttempts + 7 /\ n \in {MaxAttempts + 6, 1}
          \/ m = MaxAttempts + 6 /\ n = 2
          \/ m = 5 /\ n = 4
          \/ m = 4 /\ n \in {3, 2}
          \/ m = 3 /\ n \in {2, 1}
          \/ m = 2 /\ n = 1
      BY <1>5, <2>4, StepsAt, WorkLeads DEF m, n
    <3>. QED
      BY <1>1, <3>1 DEF m, n
  <2>. QED
    BY <2>1, <2>2, <2>3, <2>4
<1>. QED
  BY <1>3, <1>4, <1>5

\* A call begins, is left alone, or comes nearer to its end.
CallsShorten ==
    \A w \in Workers :
       job[w].pc # "idle" => job'[w] = job[w] \/ StepsLeft(job'[w]) < StepsLeft(job[w])

\* A call of process_order makes at most MaxAttempts + 8 steps, alert and return
\* included: nothing it does, and nothing that happens to the order meanwhile,
\* sends it back to a step it has made.  (That it makes them is EveryCallReturns.)
THEOREM CallsAreBounded ==
    Spec => [](\A w \in Workers : StepsLeft(job[w]) \in 0..MaxAttempts + 8)
            /\ [][CallsShorten]_vars
<1>1. TypeOK => \A w \in Workers : StepsLeft(job[w]) \in 0..MaxAttempts + 8
  BY StepsAreCounted DEF TypeOK
<1>2. TypeOK /\ [Next]_vars => [CallsShorten]_vars
  <2>. SUFFICES ASSUME TypeOK, Next, NEW x \in Workers, job[x].pc # "idle"
                PROVE  job'[x] = job[x] \/ StepsLeft(job'[x]) < StepsLeft(job[x])
    BY DEF CallsShorten
  <2>1. ASSUME NEW w \in Workers, NEW j, Becomes(w, j), x # w
        PROVE  job'[x] = job[x]
    BY <2>1 DEF Becomes, TypeOK
  <2>2. ASSUME NEW w \in Workers, NEW o \in Orders, Begin(w, o)
        PROVE  job'[x] = job[x]
    BY <2>1, <2>2 DEF Begin, At
  <2>3. ASSUME NEW w \in Workers, Work(w) \/ Raise(w) \/ Collect(w)
        PROVE  job'[x] = job[x] \/ StepsLeft(job'[x]) < StepsLeft(job[x])
    <3>1. \E j : Becomes(w, j)
      BY <2>3 DEF Work, Raise, Collect, Goto, Conclude, RetryPost,
           MapOk, MapReview, ReviewLookup, ReviewInsert, ReviewConflict, Alert, ClaimNew,
           ClaimSkip, ClaimRetry, FindHit, FindNone, FindTransient, PostOk, PostUnreadable,
           PostRejected, PostRefused, PostAbandoned, MarkCompleted, MarkFailedPermanent,
           MarkFailedTransient
    <3>. QED
      BY <2>1, <2>3, <3>1, WorkShortens
  <2>4. CASE Crash
    <3>1. job'[x] = NoJob /\ job[x] \in Jobs
      BY <2>4 DEF Crash, TypeOK
    <3>2. StepsLeft(NoJob) = 0
      BY StepsAt DEF NoJob
    <3>. QED
      BY <3>1, <3>2, StepsAreCounted
  <2>5. CASE (\E o \in Orders : LateArrival(o)) \/ Finished
    BY <2>5 DEF LateArrival, Finished, vars
  <2>. QED
    BY <2>2, <2>3, <2>4, <2>5 DEF Next
<1>. QED
  BY <1>1, <1>2, TypeCorrect, PTL DEF Spec
=============================================================================
