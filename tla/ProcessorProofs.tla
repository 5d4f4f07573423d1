-------------------------- MODULE ProcessorProofs --------------------------
(***************************************************************************)
(* What holds of the order processor for every set of orders and workers,  *)
(* every number of attempts and every number of calls.                     *)
(***************************************************************************)
EXTENDS ProcessorRefinement, FiniteSetTheorems, TLAPS

-----------------------------------------------------------------------------
(* Types *)

\* A worker that takes a well-typed next state leaves job well typed.
LEMMA JobTypes ==
    ASSUME TypeOK, NEW w \in Workers, NEW j \in Jobs,
           j.pc # "idle" => j.order \in Orders,
           Becomes(w, j)
    PROVE  /\ job' \in [Workers -> Jobs]
           /\ \A x \in Workers : ~At(x, "idle")' => job'[x].order \in Orders
BY DEF TypeOK, Becomes, At

\* Moving on to another point of process_order keeps a busy worker well typed.
LEMMA GotoTypes ==
    ASSUME TypeOK, NEW w \in Workers, ~At(w, "idle"),
           NEW p \in BusyPcs \cup {"returned"}, NEW oc \in Outcomes,
           Goto(w, p) \/ Conclude(w, p, oc)
    PROVE  /\ job' \in [Workers -> Jobs]
           /\ \A x \in Workers : ~At(x, "idle")' => job'[x].order \in Orders
<1>1. job[w] \in Jobs /\ job[w].order \in Orders
  BY DEF TypeOK
<1>2. [job[w] EXCEPT !.pc = p] \in Jobs
  BY <1>1 DEF Jobs
<1>3. [job[w] EXCEPT !.pc = p, !.outcome = oc] \in Jobs
  BY <1>1 DEF Jobs
<1>4. CASE Goto(w, p)
  BY <1>1, <1>2, <1>4, JobTypes DEF Goto, Jobs
<1>5. CASE Conclude(w, p, oc)
  BY <1>1, <1>3, <1>5, JobTypes DEF Conclude, Jobs
<1>. QED
  BY <1>4, <1>5

\* A counter that is counted up stays a natural number.
LEMMA CountsUp == \A n \in Nat : n + 1 \in Nat
OBVIOUS

\* The attempt counter may be reset and started.
LEMMA AttemptBounds == 0 \in 0..MaxAttempts /\ 1 \in 0..MaxAttempts
BY MaxAttemptsAssumption

\* A job taken over by a new call, or dropped, is well typed.
LEMMA NewJobTypes ==
    /\ NoJob \in Jobs
    /\ \A o \in Orders : [NoJob EXCEPT !.pc = "map", !.order = o] \in Jobs
<1>1. NoJob \in Jobs
  BY AttemptBounds DEF NoJob, Jobs
<1>2. ASSUME NEW o \in Orders
      PROVE  [NoJob EXCEPT !.pc = "map", !.order = o] \in Jobs
  BY AttemptBounds DEF NoJob, Jobs, BusyPcs
<1>. QED
  BY <1>1, <1>2

\* Every step of the processor keeps the variables in their types.
LEMMA StepTypes == ASSUME TypeOK, [Next]_vars PROVE TypeOK'
<1>1. ASSUME NEW w \in Workers, NEW o \in Orders, Begin(w, o)
      PROVE  TypeOK'
  <2>1. begun' \in 0..MaxBegins
    BY <1>1, MaxBeginsAssumption DEF Begin, TypeOK
  <2>2. [NoJob EXCEPT !.pc = "map", !.order = o].order = o
    BY DEF NoJob
  <2>. QED
    BY <1>1, <2>1, <2>2, NewJobTypes, JobTypes DEF Begin, TypeOK
<1>2. ASSUME NEW w \in Workers,
             \/ MapOk(w) \/ ReviewLookup(w) \/ ReviewConflict(w) \/ Alert(w)
             \/ ClaimSkip(w) \/ Raise(w)
      PROVE  TypeOK'
  <2>1. PICK p \in BusyPcs \cup {"returned"}, oc \in Outcomes :
           Goto(w, p) \/ Conclude(w, p, oc)
    BY <1>2 DEF MapOk, ReviewLookup, ReviewConflict, Alert, ClaimSkip, Raise,
                BusyPcs, Outcomes
  <2>2. ~At(w, "idle") /\ UNCHANGED shared
    BY <1>2 DEF MapOk, ReviewLookup, ReviewConflict, Alert, ClaimSkip, Raise, At,
                BusyPcs, DeliveryPcs
  <2>. QED
    BY <2>1, <2>2, GotoTypes DEF TypeOK, shared
<1>3. ASSUME NEW w \in Workers, NEW reason \in DataReasons, MapReview(w, reason)
      PROVE  TypeOK'
  <2>1. [job[w] EXCEPT !.pc = "review", !.reason = reason,
                       !.outcome = "manual_review"] \in Jobs
    BY DEF TypeOK, Jobs, BusyPcs, Reasons, Outcomes
  <2>. QED
    BY <1>3, <2>1, JobTypes DEF MapReview, TypeOK, shared, At, Jobs
<1>4. ASSUME NEW w \in Workers, Collect(w)
      PROVE  TypeOK'
  BY <1>4, NewJobTypes, JobTypes DEF Collect, TypeOK, shared, NoJob
<1>5. ASSUME NEW w \in Workers, ReviewInsert(w)
      PROVE  TypeOK'
  <2>1. "alert" \in BusyPcs /\ "raised" \in Outcomes /\ ~At(w, "idle")
    BY <1>5 DEF ReviewInsert, At, BusyPcs, Outcomes
  <2>2. reviews' \in [Orders -> Reasons \cup {NoReason}]
    BY <1>5 DEF ReviewInsert, TypeOK, Jobs
  <2>. QED
    BY <1>5, <2>1, <2>2, GotoTypes DEF ReviewInsert, TypeOK
<1>6. ASSUME NEW w \in Workers,
             ClaimNew(w) \/ FindNone(w) \/ FindTransient(w)
      PROVE  TypeOK'
  <2>1. ~At(w, "idle") /\ Becomes(w, [job[w] EXCEPT !.pc = "post", !.attempt = 1])
    BY <1>6 DEF ClaimNew, FindNone, FindTransient, At
  <2>2. [job[w] EXCEPT !.pc = "post", !.attempt = 1] \in Jobs
    BY AttemptBounds DEF TypeOK, Jobs, BusyPcs, DeliveryPcs
  <2>3. [job[w] EXCEPT !.pc = "post", !.attempt = 1].order \in Orders
    BY <2>1 DEF TypeOK, Jobs
  <2>4. rows' \in [Orders -> Rows]
    <3>1. CASE ClaimNew(w)
      BY <3>1 DEF ClaimNew, TypeOK, Rows, Statuses
    <3>2. CASE FindNone(w) \/ FindTransient(w)
      BY <3>2 DEF FindNone, FindTransient, TypeOK, shared
    <3>. QED
      BY <1>6, <3>1, <3>2
  <2>5. blind' \in [Orders -> Nat]
    BY <1>6, CountsUp DEF ClaimNew, FindNone, FindTransient, TypeOK, shared
  <2>. QED
    BY <1>6, <2>1, <2>2, <2>3, <2>4, <2>5, JobTypes
    DEF ClaimNew, FindNone, FindTransient, TypeOK, shared
<1>7. ASSUME NEW w \in Workers, ClaimRetry(w)
      PROVE  TypeOK'
  <2>1. "find" \in BusyPcs /\ "raised" \in Outcomes /\ ~At(w, "idle")
    BY <1>7 DEF ClaimRetry, At, BusyPcs, DeliveryPcs, Outcomes
  <2>2. overlap' \in [Orders -> Nat]
    BY <1>7, CountsUp DEF ClaimRetry, TypeOK
  <2>. QED
    BY <1>7, <2>1, <2>2, GotoTypes DEF ClaimRetry, TypeOK
<1>8. ASSUME NEW w \in Workers, FindHit(w)
      PROVE  TypeOK'
  <2>1. ~At(w, "idle") /\ job[w].order \in Orders
    BY <1>8 DEF FindHit, At, TypeOK
  <2>2. PICK v \in visits[job[w].order] :
           Becomes(w, [job[w] EXCEPT !.pc = "complete", !.visit = v,
                                     !.outcome = "recovered"])
    BY <1>8 DEF FindHit, FoundByReference
  <2>3. [job[w] EXCEPT !.pc = "complete", !.visit = v, !.outcome = "recovered"]
           \in Jobs
    <3>1. job[w] \in Jobs /\ v \in VisitIds
      BY <2>1, <2>2 DEF TypeOK
    <3>. QED
      BY <3>1 DEF Jobs, BusyPcs, DeliveryPcs, Outcomes
  <2>4. [job[w] EXCEPT !.pc = "complete", !.visit = v,
                       !.outcome = "recovered"].order \in Orders
    BY <2>1 DEF TypeOK, Jobs
  <2>. QED
    BY <1>8, <2>2, <2>3, <2>4, JobTypes DEF FindHit, TypeOK, shared
<1>9. ASSUME NEW w \in Workers, PostOk(w)
      PROVE  TypeOK'
  <2>1. ~At(w, "idle") /\ job[w].order \in Orders
    BY <1>9 DEF PostOk, At, TypeOK
  <2>2. [job[w] EXCEPT !.pc = "complete", !.visit = nextVisit,
                       !.outcome = "completed"] \in Jobs
    BY DEF TypeOK, Jobs, BusyPcs, DeliveryPcs, Outcomes
  <2>3. [job[w] EXCEPT !.pc = "complete", !.visit = nextVisit,
                       !.outcome = "completed"].order \in Orders
    BY <2>1 DEF TypeOK, Jobs
  <2>4. nextVisit' \in VisitIds
    BY <1>9 DEF PostOk, CreateVisitFor, TypeOK, VisitIds
  <2>5. visits' \in [Orders -> SUBSET VisitIds]
    BY <1>9 DEF PostOk, CreateVisitFor, TypeOK
  <2>. QED
    BY <1>9, <2>2, <2>3, <2>4, <2>5, JobTypes DEF PostOk, TypeOK
<1>10. ASSUME NEW w \in Workers, PostRejected(w)
       PROVE  TypeOK'
  <2>1. ~At(w, "idle") /\ job[w].order \in Orders
    BY <1>10 DEF PostRejected, At, TypeOK
  <2>2. [job[w] EXCEPT !.pc = "fail_permanent", !.outcome = "permanent_failed"]
           \in Jobs
    BY DEF TypeOK, Jobs, BusyPcs, DeliveryPcs, Outcomes
  <2>3. [job[w] EXCEPT !.pc = "fail_permanent",
                       !.outcome = "permanent_failed"].order \in Orders
    BY <2>1 DEF TypeOK, Jobs
  <2>. QED
    BY <1>10, <2>2, <2>3, JobTypes DEF PostRejected, TypeOK, shared
<1>11. ASSUME NEW w \in Workers, PostRefused(w) \/ PostAbandoned(w)
       PROVE  TypeOK'
  <2>1. ~At(w, "idle") /\ job[w].order \in Orders /\ RetryPost(w)
    BY <1>11 DEF PostRefused, PostAbandoned, At, TypeOK
  <2>2. /\ job' \in [Workers -> Jobs]
        /\ \A x \in Workers : ~At(x, "idle")' => job'[x].order \in Orders
    <3>1. CASE job[w].attempt < MaxAttempts
      <4>1. [job[w] EXCEPT !.attempt = @ + 1] \in Jobs
        BY <3>1, MaxAttemptsAssumption DEF TypeOK, Jobs
      <4>2. [job[w] EXCEPT !.attempt = @ + 1].order \in Orders
        BY <2>1 DEF TypeOK, Jobs
      <4>. QED
        BY <2>1, <3>1, <4>1, <4>2, JobTypes DEF RetryPost
    <3>2. CASE ~(job[w].attempt < MaxAttempts)
      <4>1. "fail_transient" \in BusyPcs /\ "transient_failed" \in Outcomes
        BY DEF BusyPcs, DeliveryPcs, Outcomes
      <4>. QED
        BY <2>1, <3>2, <4>1, GotoTypes DEF RetryPost
    <3>. QED
      BY <3>1, <3>2
  <2>. QED
    BY <1>11, <2>2 DEF PostRefused, PostAbandoned, TypeOK, shared
<1>12. ASSUME NEW w \in Workers, MarkCompleted(w) \/ MarkFailedTransient(w)
       PROVE  TypeOK'
  <2>1. /\ "returned" \in BusyPcs \cup {"returned"} /\ "alert" \in BusyPcs
        /\ "raised" \in Outcomes
    BY DEF BusyPcs, Outcomes
  <2>2. ~At(w, "idle")
    BY <1>12 DEF MarkCompleted, MarkFailedTransient, At
  <2>3. rows' \in [Orders -> Rows]
    BY <1>12 DEF MarkCompleted, MarkFailedTransient, TypeOK, Jobs, Rows, Statuses
  <2>. QED
    BY <1>12, <2>1, <2>2, <2>3, GotoTypes
    DEF MarkCompleted, MarkFailedTransient, TypeOK
<1>13. ASSUME NEW w \in Workers, MarkFailedPermanent(w)
       PROVE  TypeOK'
  <2>1. ~At(w, "idle") /\ job[w].order \in Orders
    BY <1>13 DEF MarkFailedPermanent, At, TypeOK
  <2>2. [job[w] EXCEPT !.pc = "review", !.reason = PermanentReason] \in Jobs
    BY DEF TypeOK, Jobs, BusyPcs, Reasons
  <2>3. [job[w] EXCEPT !.pc = "review", !.reason = PermanentReason].order \in Orders
    BY <2>1 DEF TypeOK, Jobs
  <2>4. rows' \in [Orders -> Rows]
    BY <1>13 DEF MarkFailedPermanent, TypeOK, Rows, Statuses
  <2>. QED
    BY <1>13, <2>2, <2>3, <2>4, JobTypes DEF MarkFailedPermanent, TypeOK
<1>14. ASSUME NEW o \in Orders, LateArrival(o)
       PROVE  TypeOK'
  BY <1>14 DEF LateArrival, CreateVisitFor, VisitIds, TypeOK, At
<1>15. CASE Crash
  <2>1. \A o \in Orders : Cardinality(Posting(o)) \in Nat
    BY WorkersAssumption, FS_Subset, FS_CardinalityType DEF Posting
  <2>2. /\ job' \in [Workers -> Jobs]
        /\ \A x \in Workers : At(x, "idle")'
    BY <1>15, NewJobTypes DEF Crash, NoJob, At
  <2>. QED
    BY <1>15, <2>1, <2>2 DEF Crash, TypeOK
<1>16. CASE UNCHANGED vars
  BY <1>16 DEF vars, TypeOK, At
<1>17. ASSUME NEW w \in Workers, PostUnreadable(w)
       PROVE  TypeOK'
  <2>1. ~At(w, "idle") /\ job[w].order \in Orders
    BY <1>17 DEF PostUnreadable, At, TypeOK
  <2>2. [job[w] EXCEPT !.pc = "returned", !.outcome = "raised"] \in Jobs
    BY DEF TypeOK, Jobs, Outcomes
  <2>3. [job[w] EXCEPT !.pc = "returned", !.outcome = "raised"].order \in Orders
    BY <2>1 DEF TypeOK, Jobs
  <2>4. nextVisit' \in VisitIds
    BY <1>17 DEF PostUnreadable, CreateVisitFor, TypeOK, VisitIds
  <2>5. visits' \in [Orders -> SUBSET VisitIds]
    BY <1>17 DEF PostUnreadable, CreateVisitFor, TypeOK
  <2>. QED
    BY <1>17, <2>2, <2>3, <2>4, <2>5, JobTypes DEF PostUnreadable, Conclude, TypeOK
<1>. QED
  BY <1>1, <1>2, <1>3, <1>4, <1>5, <1>6, <1>7, <1>8, <1>9, <1>10, <1>11, <1>12,
     <1>13, <1>14, <1>15, <1>16, <1>17 DEF Next, Work, Finished

\* The initial state has the types.
LEMMA InitTypes == Init => TypeOK
<1>1. Init => nextVisit \in VisitIds /\ begun \in 0..MaxBegins
  BY MaxBeginsAssumption DEF Init, VisitIds
<1>2. NoRow \in Rows /\ NoJob.pc = "idle"
  BY DEF NoRow, Rows, Statuses, NoJob
<1>3. Init => /\ job \in [Workers -> Jobs]
              /\ \A w \in Workers : At(w, "idle")
  BY <1>2, NewJobTypes DEF Init, At
<1>4. Init => /\ rows \in [Orders -> Rows]
              /\ reviews \in [Orders -> Reasons \cup {NoReason}]
              /\ visits \in [Orders -> SUBSET VisitIds]
  BY <1>2 DEF Init
<1>5. Init => /\ inflight \in [Orders -> Nat]
              /\ blind \in [Orders -> Nat]
              /\ overlap \in [Orders -> Nat]
  BY DEF Init
<1>. QED
  BY <1>1, <1>3, <1>4, <1>5 DEF TypeOK

\* The variables always have their types: in particular no call of
\* create_visit makes more than MaxAttempts attempts.
THEOREM TypeCorrect == Spec => []TypeOK
BY InitTypes, StepTypes, PTL DEF Spec

-----------------------------------------------------------------------------
(* Counting workers *)

\* The workers of an order are finite in number.
LEMMA WorkersCountable ==
    ASSUME NEW o
    PROVE  /\ IsFiniteSet(Posting(o)) /\ IsFiniteSet(Delivering(o))
           /\ Cardinality(Posting(o)) \in Nat /\ Cardinality(Delivering(o)) \in Nat
           /\ Posting(o) \subseteq Delivering(o)
           /\ Cardinality(Posting(o)) <= Cardinality(Delivering(o))
<1>1. Delivering(o) \subseteq Workers /\ Posting(o) \subseteq Delivering(o)
  BY DEF Posting, Delivering, DeliveryPcs
<1>2. IsFiniteSet(Delivering(o))
  BY <1>1, WorkersAssumption, FS_Subset
<1>3. IsFiniteSet(Posting(o)) /\ Cardinality(Posting(o)) <= Cardinality(Delivering(o))
  BY <1>1, <1>2, FS_Subset
<1>. QED
  BY <1>1, <1>2, <1>3, FS_CardinalityType

\* The same of the next state.
LEMMA WorkersCountableNext ==
    ASSUME NEW o
    PROVE  /\ IsFiniteSet(Posting(o)') /\ IsFiniteSet(Delivering(o)')
           /\ Cardinality(Posting(o)') \in Nat /\ Cardinality(Delivering(o)') \in Nat
           /\ Cardinality(Posting(o)') <= Cardinality(Delivering(o)')
<1>1. Delivering(o)' \subseteq Workers /\ Posting(o)' \subseteq Delivering(o)'
  BY DEF Posting, Delivering, DeliveryPcs
<1>2. IsFiniteSet(Delivering(o)')
  BY <1>1, WorkersAssumption, FS_Subset
<1>3. IsFiniteSet(Posting(o)') /\ Cardinality(Posting(o)') <= Cardinality(Delivering(o)')
  BY <1>1, <1>2, FS_Subset
<1>. QED
  BY <1>1, <1>2, <1>3, FS_CardinalityType

\* The size of a set that gains at most one element.
LEMMA OneMore ==
    ASSUME NEW S, NEW T, NEW x, IsFiniteSet(S), T \subseteq S \cup {x}
    PROVE  Cardinality(T) <= Cardinality(S) + 1
<1>1. IsFiniteSet(S \cup {x}) /\ Cardinality(S \cup {x}) <= Cardinality(S) + 1
  <2>1. Cardinality(S) \in Nat
    BY FS_CardinalityType
  <2>. QED
    BY <2>1, FS_AddElement
<1>2. Cardinality(T) <= Cardinality(S \cup {x}) /\ IsFiniteSet(T)
  BY <1>1, FS_Subset
<1>. QED
  BY <1>1, <1>2, FS_CardinalityType

\* The size of a set that loses an element.
LEMMA OneLess ==
    ASSUME NEW S, NEW T, NEW x \in S, IsFiniteSet(S), T \subseteq S \ {x}
    PROVE  Cardinality(T) + 1 <= Cardinality(S)
<1>1. IsFiniteSet(S \ {x}) /\ Cardinality(S \ {x}) = Cardinality(S) - 1
  BY FS_RemoveElement
<1>2. Cardinality(T) <= Cardinality(S \ {x}) /\ IsFiniteSet(T)
  BY <1>1, FS_Subset
<1>. QED
  BY <1>1, <1>2, FS_CardinalityType

\* A step of one worker moves no other worker.
LEMMA WorkerMoves ==
    ASSUME TypeOK, NEW w \in Workers, NEW j \in Jobs, Becomes(w, j), NEW o
    PROVE  /\ Delivering(o)' = IF j.order = o /\ j.pc \in DeliveryPcs
                               THEN Delivering(o) \cup {w} ELSE Delivering(o) \ {w}
           /\ Posting(o)' = IF j.order = o /\ j.pc = "post"
                            THEN Posting(o) \cup {w} ELSE Posting(o) \ {w}
<1>1. job'[w] = j /\ \A x \in Workers \ {w} : job'[x] = job[x]
  BY DEF TypeOK, Becomes
<1>. QED
  BY <1>1 DEF Delivering, Posting

-----------------------------------------------------------------------------
(* The kinds of steps *)

\* What a worker's next state keeps of the bindings, if the visit it carries
\* is one of its order and no visit disappears.
LEMMA JobBindingKept ==
    ASSUME IInv, NEW w \in Workers, NEW j \in Jobs, Becomes(w, j),
           \A o \in Orders : visits[o] \subseteq visits'[o],
           j.visit # NoVisit => j.visit \in visits'[j.order],
           j.pc = "complete" => j.visit # NoVisit,
           j.pc = "idle" => j.visit = NoVisit
    PROVE  CompletersHaveVisits' /\ JobVisitIsOwn'
<1>1. job'[w] = j /\ \A x \in Workers \ {w} : job'[x] = job[x]
  BY DEF IInv, TypeOK, Becomes
<1>2. CompletersHaveVisits'
  BY <1>1 DEF IInv, CompletersHaveVisits, At
<1>3. ASSUME NEW x \in Workers \ {w}, job[x].visit # NoVisit
      PROVE  job[x].visit \in visits'[job[x].order]
  <2>1. job[x].visit \in visits[job[x].order]
    BY <1>3 DEF IInv, JobVisitIsOwn
  <2>2. job[x].order \in Orders
    BY <1>3 DEF IInv, TypeOK, CompletersHaveVisits
  <2>. QED
    BY <2>1, <2>2
<1>. QED
  BY <1>1, <1>2, <1>3 DEF JobVisitIsOwn

\* The counts stay within their bounds when the workers of an order only leave.
LEMMA CountsKept ==
    ASSUME IInv, UNCHANGED <<visits, inflight, blind, overlap>>,
           \A o : Delivering(o)' \subseteq Delivering(o) /\ Posting(o)' \subseteq Posting(o)
    PROVE  DeliveriesCounted' /\ VisitsCounted'
<1>1. ASSUME NEW o \in Orders
      PROVE  /\ Cardinality(Delivering(o)') <= 1 + overlap[o]
             /\ Cardinality(visits[o]) + Cardinality(Posting(o)') + inflight[o]
                   <= 1 + Excuses(o)
  <2>1. /\ Cardinality(Delivering(o)') <= Cardinality(Delivering(o))
        /\ Cardinality(Posting(o)') <= Cardinality(Posting(o))
    BY WorkersCountable, FS_Subset
  <2>2. /\ Cardinality(Delivering(o)) <= 1 + overlap[o]
        /\ Cardinality(visits[o]) + Cardinality(Posting(o)) + inflight[o]
              <= 1 + Excuses(o)
    BY DEF IInv, DeliveriesCounted, VisitsCounted
  <2>3. /\ Cardinality(Posting(o)') \in Nat /\ Cardinality(Delivering(o)') \in Nat
        /\ Cardinality(Posting(o)) \in Nat /\ Cardinality(Delivering(o)) \in Nat
        /\ Cardinality(visits[o]) \in Nat
    BY WorkersCountable, WorkersCountableNext, FS_CardinalityType DEF IInv, FreshIds
  <2>4. inflight[o] \in Nat /\ overlap[o] \in Nat /\ blind[o] \in Nat
    BY DEF IInv, TypeOK
  <2>. QED
    BY <2>1, <2>2, <2>3, <2>4 DEF Excuses
<1>. QED
  BY <1>1 DEF IInv, DeliveriesCounted, VisitsCounted, Excuses

\* A step that leaves rows and SimpliRoute alone and takes its worker into no
\* delivery it was not in already.
LEMMA QuietStep ==
    ASSUME IInv, TypeOK', NEW w \in Workers, NEW j \in Jobs, Becomes(w, j),
           UNCHANGED <<rows, visits, inflight, nextVisit, blind, overlap>>,
           j.pc \in DeliveryPcs => job[w].pc \in DeliveryPcs /\ job[w].order = j.order,
           j.pc = "post" => job[w].pc = "post",
           j.visit # NoVisit => j.visit \in visits[j.order],
           j.pc = "complete" => j.visit # NoVisit,
           j.pc = "idle" => j.visit = NoVisit
    PROVE  IInv'
<1>1. CompletersHaveVisits' /\ JobVisitIsOwn'
  BY JobBindingKept
<1>2. \A o : Delivering(o)' \subseteq Delivering(o) /\ Posting(o)' \subseteq Posting(o)
  <2> SUFFICES ASSUME NEW o
               PROVE  Delivering(o)' \subseteq Delivering(o) /\ Posting(o)' \subseteq Posting(o)
    OBVIOUS
  <2>. QED
    <3>1. TypeOK
      BY DEF IInv
    <3>2. /\ w \in Delivering(o) <=> job[w].order = o /\ job[w].pc \in DeliveryPcs
          /\ w \in Posting(o) <=> job[w].order = o /\ job[w].pc = "post"
      BY DEF Delivering, Posting
    <3>. QED
      BY <3>1, <3>2, WorkerMoves DEF DeliveryPcs
<1>3. FreshIds' /\ RowVisitIsOwn'
  BY DEF IInv, FreshIds, RowVisitIsOwn
<1>4. UnclaimedIsUntouched' /\ CompletedIsLeft'
  BY <1>2 DEF IInv, UnclaimedIsUntouched, CompletedIsLeft
<1>5. DeliveriesCounted' /\ VisitsCounted'
  BY <1>2, CountsKept
<1>. QED
  BY <1>1, <1>3, <1>4, <1>5 DEF IInv

\* A worker that delivers an order writes its result and leaves the delivery.
LEMMA ResultStep ==
    ASSUME IInv, TypeOK', NEW w \in Workers, NEW j \in Jobs, Becomes(w, j),
           UNCHANGED <<visits, inflight, nextVisit, blind, overlap>>,
           NEW o \in Orders, NEW r \in Rows, w \in Delivering(o),
           rows' = [rows EXCEPT ![o] = r],
           r.status # "none",
           r.visit # NoVisit => r.visit \in visits[o],
           r.status = "completed" => r.visit # NoVisit,
           j.pc \notin DeliveryPcs, j.pc # "idle",
           j.visit = job[w].visit, j.order = job[w].order
    PROVE  IInv'
<1>1. CompletersHaveVisits' /\ JobVisitIsOwn'
  BY JobBindingKept DEF DeliveryPcs, IInv, JobVisitIsOwn
<1>2. ASSUME NEW p
      PROVE  Delivering(p)' = Delivering(p) \ {w} /\ Posting(p)' = Posting(p) \ {w}
  BY WorkerMoves DEF IInv, DeliveryPcs
<1>3. FreshIds'
  BY DEF IInv, FreshIds
<1>4. RowVisitIsOwn'
  BY DEF IInv, TypeOK, RowVisitIsOwn
<1>5. UnclaimedIsUntouched'
  BY <1>2 DEF IInv, TypeOK, UnclaimedIsUntouched
<1>6. CompletedIsLeft'
  <2> SUFFICES ASSUME NEW p \in Orders, rows'[p].status = "completed", overlap[p] = 0
               PROVE  Delivering(p) \subseteq {w}
    BY <1>2 DEF CompletedIsLeft
  <2>1. CASE p # o
    BY <2>1 DEF IInv, TypeOK, CompletedIsLeft
  <2>2. CASE p = o
    <3>1. Cardinality(Delivering(o)) <= 1
      BY <2>2 DEF IInv, DeliveriesCounted
    <3>2. ASSUME NEW x \in Delivering(o), x # w
          PROVE  FALSE
      <4>1. Cardinality({x}) = 1 /\ Cardinality({x}) + 1 <= Cardinality(Delivering(o))
        BY <3>2, WorkersCountable, OneLess, FS_Singleton
      <4>. QED
        BY <3>1, <4>1, WorkersCountable
    <3>. QED
      BY <2>2, <3>2
  <2>. QED
    BY <2>1, <2>2
<1>7. DeliveriesCounted' /\ VisitsCounted'
  BY <1>2, CountsKept
<1>. QED
  BY <1>1, <1>3, <1>4, <1>5, <1>6, <1>7 DEF IInv

\* The counts are natural numbers, so that their sums can be compared.
LEMMA NaturalCounts ==
    ASSUME IInv, NEW o \in Orders
    PROVE  /\ Cardinality(visits[o]) \in Nat /\ inflight[o] \in Nat
           /\ overlap[o] \in Nat /\ blind[o] \in Nat
           /\ Cardinality(Posting(o)) \in Nat /\ Cardinality(Delivering(o)) \in Nat
           /\ Cardinality(Posting(o)') \in Nat /\ Cardinality(Delivering(o)') \in Nat
<1>1. Cardinality(visits[o]) \in Nat
  BY FS_CardinalityType DEF IInv, FreshIds
<1>2. inflight[o] \in Nat /\ overlap[o] \in Nat /\ blind[o] \in Nat
  BY DEF IInv, TypeOK
<1>. QED
  BY <1>1, <1>2, WorkersCountable, WorkersCountableNext

\* A worker goes on with its order and takes no visit with it.
LEMMA PcStep ==
    ASSUME IInv, TypeOK', NEW w \in Workers, NEW j \in Jobs, Becomes(w, j),
           \A o \in Orders : visits[o] \subseteq visits'[o],
           j.order = job[w].order, j.visit = job[w].visit, ~At(w, "idle"),
           j.pc # "complete", j.pc # "idle"
    PROVE  CompletersHaveVisits' /\ JobVisitIsOwn'
<1>1. j.visit # NoVisit => j.visit \in visits'[j.order]
  BY DEF IInv, TypeOK, JobVisitIsOwn
<1>. QED
  BY <1>1, JobBindingKept

\* The first claim of an order starts its first delivery.
LEMMA ClaimNewStep ==
    ASSUME IInv, TypeOK', NEW w \in Workers, ClaimNew(w)
    PROVE  IInv'
<1>1. PICK o \in Orders, j \in Jobs :
         /\ TypeOK /\ Becomes(w, j) /\ job[w].order = o
         /\ j.order = o /\ j.pc = "post" /\ j.visit = job[w].visit
         /\ UNCHANGED <<visits, inflight, nextVisit, blind, overlap>>
  <2> DEFINE j == [job[w] EXCEPT !.pc = "post", !.attempt = 1]
  <2>1. /\ TypeOK /\ job[w].order \in Orders /\ Becomes(w, j)
        /\ UNCHANGED <<visits, inflight, nextVisit, blind, overlap>>
    BY DEF ClaimNew, IInv, TypeOK, At
  <2>2. /\ j \in Jobs /\ j.order = job[w].order /\ j.pc = "post"
        /\ j.visit = job[w].visit
    BY <2>1, AttemptBounds DEF TypeOK, Jobs, BusyPcs, DeliveryPcs
  <2>. QED
    BY <2>1, <2>2
<1>2. rows[o].status = "none" /\ rows' = [rows EXCEPT ![o].status = "pending"]
  BY <1>1 DEF ClaimNew, ClaimResult
<1>3. visits[o] = {} /\ inflight[o] = 0 /\ Delivering(o) = {}
  BY <1>1, <1>2 DEF IInv, UnclaimedIsUntouched
<1>4. Delivering(o)' = {w} /\ Posting(o)' = {w}
  <2>1. Posting(o) = {}
    BY <1>3 DEF Posting, Delivering, DeliveryPcs
  <2>2. "post" \in DeliveryPcs
    BY DEF DeliveryPcs
  <2>. QED
    BY <1>1, <1>3, <2>1, <2>2, WorkerMoves
<1>5. ASSUME NEW p, p # o
      PROVE  Delivering(p)' = Delivering(p) /\ Posting(p)' = Posting(p)
  <2>1. w \notin Delivering(p) /\ w \notin Posting(p)
    BY <1>1, <1>5 DEF Delivering, Posting
  <2>. QED
    BY <1>1, <1>5, <2>1, WorkerMoves
<1>6. CompletersHaveVisits' /\ JobVisitIsOwn'
  <2>1. ~At(w, "idle")
    BY DEF ClaimNew, At
  <2>. QED
    BY <1>1, <2>1, PcStep
<1>7. FreshIds'
  BY <1>1 DEF IInv, FreshIds
<1>8. UnclaimedIsUntouched' /\ CompletedIsLeft'
  BY <1>1, <1>2, <1>5 DEF IInv, TypeOK, Rows, UnclaimedIsUntouched, CompletedIsLeft
<1>9. RowVisitIsOwn'
  BY <1>1, <1>2 DEF IInv, TypeOK, Rows, RowVisitIsOwn
<1>10. DeliveriesCounted' /\ VisitsCounted'
  <2>1. Cardinality({w}) = 1 /\ Cardinality({}) = 0
    BY FS_Singleton, FS_EmptySet
  <2>2. ASSUME NEW p \in Orders
        PROVE  /\ Cardinality(Delivering(p)') <= 1 + overlap[p]
               /\ Cardinality(visits[p]) + Cardinality(Posting(p)') + inflight[p]
                     <= 1 + Excuses(p)
    <3>1. CASE p = o
      <4>1. /\ Cardinality(Delivering(o)') = 1 /\ Cardinality(Posting(o)') = 1
            /\ Cardinality(visits[o]) = 0 /\ inflight[o] = 0
        BY <1>3, <1>4, <2>1
      <4>2. overlap[o] \in Nat /\ blind[o] \in Nat
        BY <1>1 DEF TypeOK
      <4>. QED
        BY <3>1, <4>1, <4>2 DEF Excuses
    <3>2. CASE p # o
      BY <1>5, <3>2 DEF IInv, DeliveriesCounted, VisitsCounted
    <3>. QED
      BY <3>1, <3>2
  <2>. QED
    BY <1>1, <2>2 DEF IInv, DeliveriesCounted, VisitsCounted, Excuses
<1>. QED
  BY <1>6, <1>7, <1>8, <1>9, <1>10 DEF IInv

\* A further claim is an overlap unless nobody delivers the order.
LEMMA ClaimRetryStep ==
    ASSUME IInv, TypeOK', NEW w \in Workers, ClaimRetry(w)
    PROVE  IInv'
<1>1. PICK o \in Orders, j \in Jobs :
         /\ TypeOK /\ Becomes(w, j) /\ ~At(w, "idle") /\ job[w].order = o
         /\ j.order = o /\ j.pc = "find" /\ j.visit = job[w].visit
         /\ UNCHANGED <<rows, visits, inflight, nextVisit, blind>>
  <2> DEFINE j == [job[w] EXCEPT !.pc = "find"]
  <2>1. /\ TypeOK /\ job[w].order \in Orders /\ Becomes(w, j) /\ ~At(w, "idle")
        /\ UNCHANGED <<rows, visits, inflight, nextVisit, blind>>
    BY DEF ClaimRetry, Goto, IInv, TypeOK, At
  <2>2. /\ j \in Jobs /\ j.order = job[w].order /\ j.pc = "find"
        /\ j.visit = job[w].visit
    BY <2>1 DEF TypeOK, Jobs, BusyPcs, DeliveryPcs
  <2>. QED
    BY <2>1, <2>2
<1>2. rows[o].status \notin {"none", "completed"}
  BY <1>1 DEF ClaimRetry, ClaimResult
<1>3. /\ overlap'[o] = IF Delivering(o) = {} THEN overlap[o] ELSE overlap[o] + 1
      /\ \A p \in Orders \ {o} : overlap'[p] = overlap[p]
  BY <1>1 DEF ClaimRetry, IInv, TypeOK
<1>4. /\ Delivering(o)' \subseteq Delivering(o) \cup {w}
      /\ \A p : Posting(p)' \subseteq Posting(p)
      /\ \A p : p # o => Delivering(p)' = Delivering(p)
  <2>1. ASSUME NEW p
        PROVE  /\ Delivering(p)' \subseteq Delivering(p) \cup {w}
               /\ Posting(p)' \subseteq Posting(p)
               /\ p # o => Delivering(p)' = Delivering(p)
    <3>1. w \in Delivering(p) => p = o
      BY <1>1 DEF Delivering
    <3>. QED
      BY <1>1, <3>1, WorkerMoves
  <2>. QED
    BY <2>1
<1>5. CompletersHaveVisits' /\ JobVisitIsOwn'
  BY <1>1, PcStep
<1>6. FreshIds' /\ RowVisitIsOwn'
  BY <1>1 DEF IInv, FreshIds, RowVisitIsOwn
<1>7. UnclaimedIsUntouched' /\ CompletedIsLeft'
  BY <1>1, <1>2, <1>3, <1>4 DEF IInv, UnclaimedIsUntouched, CompletedIsLeft
<1>8. Cardinality(Delivering(o)') <= 1 + overlap'[o]
  <2>1. /\ overlap[o] \in Nat /\ Cardinality(Delivering(o)) \in Nat
        /\ Cardinality(Delivering(o)') \in Nat
    BY <1>1, WorkersCountable, WorkersCountableNext DEF TypeOK
  <2>2. CASE Delivering(o) = {}
    <3>1. Cardinality(Delivering(o)) = 0
      BY <2>2, FS_EmptySet
    <3>2. Cardinality(Delivering(o)') <= Cardinality(Delivering(o)) + 1
      BY <1>4, WorkersCountable, OneMore
    <3>3. overlap'[o] = overlap[o]
      BY <1>3, <2>2
    <3>. QED
      BY <2>1, <3>1, <3>2, <3>3
  <2>3. CASE Delivering(o) # {}
    <3>1. Cardinality(Delivering(o)') <= Cardinality(Delivering(o)) + 1
      BY <1>4, WorkersCountable, OneMore
    <3>2. Cardinality(Delivering(o)) <= 1 + overlap[o]
      BY <1>1 DEF IInv, DeliveriesCounted
    <3>3. overlap'[o] = overlap[o] + 1
      BY <1>3, <2>3
    <3>. QED
      BY <2>1, <3>1, <3>2, <3>3
  <2>. QED
    BY <2>2, <2>3
<1>9. ASSUME NEW p \in Orders
      PROVE  /\ inflight[p] <= blind[p]
             /\ Cardinality(visits[p]) + Cardinality(Posting(p)') + inflight[p]
                   <= 1 + blind[p] + overlap'[p]
  <2>1. Cardinality(Posting(p)') <= Cardinality(Posting(p))
    BY <1>4, WorkersCountable, FS_Subset
  <2>2. overlap'[p] \in Nat /\ overlap[p] <= overlap'[p]
    BY <1>3, NaturalCounts
  <2>3. /\ inflight[p] <= blind[p]
        /\ Cardinality(visits[p]) + Cardinality(Posting(p)) + inflight[p]
              <= 1 + (blind[p] + overlap[p])
    BY DEF IInv, VisitsCounted, Excuses
  <2>. QED
    BY <2>1, <2>2, <2>3, NaturalCounts
<1>10. DeliveriesCounted' /\ VisitsCounted'
  <2>1. \A p \in Orders : overlap'[p] \in Nat /\ blind[p] \in Nat
    BY DEF IInv, TypeOK
  <2>2. \A p \in Orders : Cardinality(Delivering(p)') <= 1 + overlap'[p]
    BY <1>3, <1>4, <1>8 DEF IInv, DeliveriesCounted
  <2>. QED
    BY <1>1, <1>9, <2>1, <2>2 DEF DeliveriesCounted, VisitsCounted, Excuses
<1>. QED
  BY <1>5, <1>6, <1>7, <1>10 DEF IInv

\* A lookup that finds nothing, or fails, makes the worker post.
LEMMA LookupStep ==
    ASSUME IInv, TypeOK', NEW w \in Workers, FindNone(w) \/ FindTransient(w)
    PROVE  IInv'
<1>1. PICK o \in Orders, j \in Jobs :
         /\ TypeOK /\ Becomes(w, j) /\ At(w, "find") /\ job[w].order = o
         /\ j.order = o /\ j.pc = "post" /\ j.visit = job[w].visit
         /\ UNCHANGED <<rows, visits, inflight, nextVisit, overlap>>
  <2> DEFINE j == [job[w] EXCEPT !.pc = "post", !.attempt = 1]
  <2>1. /\ TypeOK /\ job[w].order \in Orders /\ Becomes(w, j) /\ At(w, "find")
        /\ UNCHANGED <<rows, visits, inflight, nextVisit, overlap>>
    BY DEF FindNone, FindTransient, shared, IInv, TypeOK, At
  <2>2. /\ j \in Jobs /\ j.order = job[w].order /\ j.pc = "post"
        /\ j.visit = job[w].visit
    BY <2>1, AttemptBounds DEF TypeOK, Jobs, BusyPcs, DeliveryPcs
  <2>. QED
    BY <2>1, <2>2
<1>2. ASSUME NEW p
      PROVE  /\ Delivering(p)' = Delivering(p)
             /\ p # o => Posting(p)' = Posting(p)
             /\ Posting(p)' \subseteq Posting(p) \cup {w}
  <2>1. /\ w \in Delivering(p) <=> p = o
        /\ w \in Posting(p) => p = o
        /\ "post" \in DeliveryPcs
    BY <1>1 DEF Delivering, Posting, DeliveryPcs, At
  <2>2. Delivering(p) \cup {w} = Delivering(p) \/ p # o
    BY <2>1
  <2>. QED
    BY <1>1, <2>1, <2>2, WorkerMoves
<1>3. CompletersHaveVisits' /\ JobVisitIsOwn'
  <2>1. ~At(w, "idle")
    BY <1>1 DEF At
  <2>. QED
    BY <1>1, <2>1, PcStep
<1>4. FreshIds' /\ RowVisitIsOwn'
  BY <1>1 DEF IInv, FreshIds, RowVisitIsOwn
<1>5. UnclaimedIsUntouched' /\ CompletedIsLeft' /\ DeliveriesCounted'
  BY <1>1, <1>2 DEF IInv, UnclaimedIsUntouched, CompletedIsLeft, DeliveriesCounted
<1>6. /\ blind'[o] \in Nat /\ blind[o] <= blind'[o]
      /\ FindTransient(w) => blind'[o] = blind[o] + 1
      /\ \A p \in Orders : p # o => blind'[p] = blind[p]
  <2>1. blind[o] \in Nat
    BY <1>1 DEF TypeOK
  <2>2. CASE FindNone(w)
    <3>1. ~FindTransient(w) \/ blind'[o] = blind[o] + 1
      BY <1>1 DEF FindTransient, TypeOK
    <3>. QED
      BY <2>1, <2>2, <3>1 DEF FindNone, shared
  <2>3. CASE FindTransient(w)
    <3>1. blind' = [blind EXCEPT ![o] = blind[o] + 1]
      BY <1>1, <2>3 DEF FindTransient
    <3>2. /\ blind'[o] = blind[o] + 1
          /\ \A p \in Orders : p # o => blind'[p] = blind[p]
      BY <1>1, <3>1 DEF TypeOK
    <3>. QED
      BY <2>1, <3>2
  <2>. QED
    BY <2>2, <2>3
<1>7. /\ inflight[o] <= blind[o]
      /\ Cardinality(visits[o]) + Cardinality(Posting(o)) + inflight[o]
           <= 1 + (blind[o] + overlap[o])
      /\ Cardinality(Delivering(o)) <= 1 + overlap[o]
  BY <1>1 DEF IInv, VisitsCounted, DeliveriesCounted, Excuses
<1>8. /\ inflight[o] <= blind'[o]
      /\ Cardinality(visits[o]) + Cardinality(Posting(o)') + inflight[o]
           <= 1 + (blind'[o] + overlap[o])
  <2>1. CASE FindTransient(w)
    <3>1. Cardinality(Posting(o)') <= Cardinality(Posting(o)) + 1
      BY <1>2, WorkersCountable, OneMore
    <3>. QED
      BY <1>6, <1>7, <2>1, <3>1, NaturalCounts
  <2>2. CASE FindNone(w)
    <3>1. Cardinality(visits[o]) = 0
      BY <1>1, <2>2, FS_EmptySet DEF FindNone, FoundByReference
    <3>2. Cardinality(Posting(o)') <= Cardinality(Delivering(o)')
      BY WorkersCountableNext
    <3>3. Cardinality(Delivering(o)') = Cardinality(Delivering(o))
      BY <1>2
    <3>. QED
      BY <1>6, <1>7, <3>1, <3>2, <3>3, NaturalCounts
  <2>. QED
    BY <2>1, <2>2
<1>9. VisitsCounted'
  <2>1. ASSUME NEW p \in Orders, p # o
        PROVE  /\ inflight[p] <= blind'[p]
               /\ Cardinality(visits[p]) + Cardinality(Posting(p)') + inflight[p]
                    <= 1 + (blind'[p] + overlap[p])
    BY <1>2, <1>6, <2>1 DEF IInv, VisitsCounted, Excuses
  <2>. QED
    BY <1>1, <1>8, <2>1 DEF VisitsCounted, Excuses
<1>. QED
  BY <1>3, <1>4, <1>5, <1>9 DEF IInv

\* A visit more than before leaves the ids fresh.
LEMMA CreateKeepsFresh ==
    ASSUME IInv, NEW o \in Orders, CreateVisitFor(o)
    PROVE  /\ FreshIds'
           /\ Cardinality(visits'[o]) <= Cardinality(visits[o]) + 1
           /\ \A p \in Orders : visits[p] \subseteq visits'[p]
           /\ \A p \in Orders \ {o} : visits'[p] = visits[p]
           /\ visits'[o] = visits[o] \cup {nextVisit}
<1>1. /\ visits'[o] = visits[o] \cup {nextVisit}
      /\ \A p \in Orders \ {o} : visits'[p] = visits[p]
  BY DEF CreateVisitFor, IInv, TypeOK
<1>2. \A p \in Orders : IsFiniteSet(visits[p]) /\ \A v \in visits[p] : v < nextVisit
  BY DEF IInv, FreshIds
<1>3. IsFiniteSet(visits'[o]) /\ Cardinality(visits'[o]) <= Cardinality(visits[o]) + 1
  <2>1. IsFiniteSet(visits[o]) /\ visits'[o] \subseteq visits[o] \cup {nextVisit}
    BY <1>1, <1>2
  <2>2. IsFiniteSet(visits'[o])
    BY <1>1, <2>1, FS_AddElement
  <2>. QED
    BY <2>1, <2>2, OneMore
<1>4. nextVisit \in Nat /\ nextVisit' = nextVisit + 1
  BY DEF CreateVisitFor, IInv, TypeOK, VisitIds
<1>5. ASSUME NEW p \in Orders, NEW v \in visits'[p]
      PROVE  v < nextVisit'
  <2>1. v \in visits[p] \/ v = nextVisit
    BY <1>1
  <2>2. v \in visits[p] => v \in Nat /\ v < nextVisit
    BY <1>2 DEF IInv, TypeOK, VisitIds
  <2>. QED
    BY <1>4, <2>1, <2>2
<1>6. \A p \in Orders : IsFiniteSet(visits'[p])
  BY <1>1, <1>2, <1>3
<1>. QED
  BY <1>1, <1>3, <1>5, <1>6 DEF FreshIds

\* A POST that is executed and answered turns a posting worker into a visit.
LEMMA PostOkStep ==
    ASSUME IInv, TypeOK', NEW w \in Workers, PostOk(w)
    PROVE  IInv'
<1>1. PICK o \in Orders, j \in Jobs :
         /\ TypeOK /\ Becomes(w, j) /\ At(w, "post") /\ job[w].order = o
         /\ j.order = o /\ j.pc = "complete" /\ j.visit = nextVisit
         /\ CreateVisitFor(o)
         /\ UNCHANGED <<rows, inflight, blind, overlap>>
  <2> DEFINE j == [job[w] EXCEPT !.pc = "complete", !.visit = nextVisit,
                                 !.outcome = "completed"]
  <2>1. /\ TypeOK /\ job[w].order \in Orders /\ Becomes(w, j) /\ At(w, "post")
        /\ CreateVisitFor(job[w].order)
        /\ UNCHANGED <<rows, inflight, blind, overlap>>
    BY DEF PostOk, IInv, TypeOK, At
  <2>2. j \in Jobs
    <3>1. job[w] \in Jobs /\ nextVisit \in VisitIds
      BY <2>1 DEF TypeOK
    <3>. QED
      BY <3>1 DEF Jobs, BusyPcs, DeliveryPcs, Outcomes
  <2>3. j.order = job[w].order /\ j.pc = "complete" /\ j.visit = nextVisit
    BY <2>1 DEF TypeOK, Jobs
  <2>. QED
    BY <2>1, <2>2, <2>3
<1>2. ASSUME NEW p
      PROVE  /\ Delivering(p)' = Delivering(p)
             /\ Posting(p)' = Posting(p) \ {w}
  <2>1. (w \in Delivering(p) <=> p = o) /\ "complete" \in DeliveryPcs
    BY <1>1 DEF Delivering, DeliveryPcs, At
  <2>2. IF p = o THEN Delivering(p) \cup {w} = Delivering(p)
                 ELSE Delivering(p) \ {w} = Delivering(p)
    BY <2>1
  <2>. QED
    BY <1>1, <2>1, <2>2, WorkerMoves
<1>3. w \in Posting(o) /\ w \in Delivering(o)
  BY <1>1 DEF Posting, Delivering, DeliveryPcs, At
<1>4. /\ FreshIds'
      /\ Cardinality(visits'[o]) <= Cardinality(visits[o]) + 1
      /\ \A p \in Orders : visits[p] \subseteq visits'[p]
      /\ \A p \in Orders \ {o} : visits'[p] = visits[p]
      /\ nextVisit \in visits'[o]
  BY <1>1, CreateKeepsFresh
<1>5. CompletersHaveVisits' /\ JobVisitIsOwn'
  <2>1. j.visit # NoVisit
    BY <1>1 DEF TypeOK, VisitIds, NoVisit
  <2>2. j.pc # "idle"
    BY <1>1
  <2>. QED
    BY <1>1, <1>4, <2>1, <2>2, JobBindingKept
<1>6. RowVisitIsOwn'
  BY <1>1, <1>4 DEF IInv, RowVisitIsOwn
<1>7. rows[o].status # "none"
  BY <1>3 DEF IInv, UnclaimedIsUntouched
<1>8. UnclaimedIsUntouched' /\ CompletedIsLeft' /\ DeliveriesCounted'
  BY <1>1, <1>2, <1>4, <1>7
  DEF IInv, UnclaimedIsUntouched, CompletedIsLeft, DeliveriesCounted
<1>9. VisitsCounted'
  <2>1. /\ inflight[o] <= blind[o]
        /\ Cardinality(visits'[o]) + Cardinality(Posting(o)') + inflight[o]
             <= 1 + (blind[o] + overlap[o])
    <3>1. Cardinality(Posting(o)') + 1 <= Cardinality(Posting(o))
      BY <1>2, <1>3, WorkersCountable, OneLess
    <3>2. /\ inflight[o] <= blind[o]
          /\ Cardinality(visits[o]) + Cardinality(Posting(o)) + inflight[o]
               <= 1 + (blind[o] + overlap[o])
      BY DEF IInv, VisitsCounted, Excuses
    <3>3. Cardinality(visits'[o]) \in Nat
      BY <1>4, FS_CardinalityType DEF FreshIds
    <3>. QED
      BY <1>4, <3>1, <3>2, <3>3, NaturalCounts
  <2>2. ASSUME NEW p \in Orders, p # o
        PROVE  /\ inflight[p] <= blind[p]
               /\ Cardinality(visits'[p]) + Cardinality(Posting(p)') + inflight[p]
                    <= 1 + (blind[p] + overlap[p])
    <3>1. Posting(p)' = Posting(p)
      <4>1. w \notin Posting(p)
        BY <1>1, <2>2 DEF Posting
      <4>. QED
        BY <1>2, <4>1
    <3>. QED
      BY <1>4, <2>2, <3>1 DEF IInv, VisitsCounted, Excuses
  <2>. QED
    BY <1>1, <2>1, <2>2 DEF VisitsCounted, Excuses
<1>. QED
  BY <1>4, <1>5, <1>6, <1>8, <1>9 DEF IInv

\* A POST that is executed and answered unreadably: a visit without a worker.
LEMMA PostUnreadableStep ==
    ASSUME IInv, TypeOK', NEW w \in Workers, PostUnreadable(w)
    PROVE  IInv'
<1>1. PICK o \in Orders, j \in Jobs :
         /\ TypeOK /\ Becomes(w, j) /\ At(w, "post") /\ job[w].order = o
         /\ j.order = o /\ j.pc = "returned" /\ j.visit = job[w].visit
         /\ CreateVisitFor(o)
         /\ UNCHANGED <<rows, inflight, blind, overlap>>
  <2> DEFINE j == [job[w] EXCEPT !.pc = "returned", !.outcome = "raised"]
  <2>1. /\ TypeOK /\ job[w].order \in Orders /\ Becomes(w, j) /\ At(w, "post")
        /\ CreateVisitFor(job[w].order)
        /\ UNCHANGED <<rows, inflight, blind, overlap>>
    BY DEF PostUnreadable, Conclude, IInv, TypeOK, At
  <2>2. j \in Jobs
    <3>1. job[w] \in Jobs
      BY <2>1 DEF TypeOK
    <3>. QED
      BY <3>1 DEF Jobs, Outcomes
  <2>3. j.order = job[w].order /\ j.pc = "returned" /\ j.visit = job[w].visit
    BY <2>1 DEF TypeOK, Jobs
  <2>. QED
    BY <2>1, <2>2, <2>3
<1>2. ASSUME NEW p
      PROVE  /\ Delivering(p)' = Delivering(p) \ {w}
             /\ Posting(p)' = Posting(p) \ {w}
  <2>1. "returned" \notin DeliveryPcs
    BY DEF DeliveryPcs
  <2>. QED
    BY <1>1, <2>1, WorkerMoves
<1>3. w \in Posting(o) /\ w \in Delivering(o)
  BY <1>1 DEF Posting, Delivering, DeliveryPcs, At
<1>4. /\ FreshIds'
      /\ Cardinality(visits'[o]) <= Cardinality(visits[o]) + 1
      /\ \A p \in Orders : visits[p] \subseteq visits'[p]
      /\ \A p \in Orders \ {o} : visits'[p] = visits[p]
      /\ nextVisit \in visits'[o]
  BY <1>1, CreateKeepsFresh
<1>5. CompletersHaveVisits' /\ JobVisitIsOwn'
  <2>1. j.pc # "idle" /\ j.pc # "complete"
    BY <1>1
  <2>. QED
    BY <1>1, <1>4, <2>1, JobBindingKept DEF IInv, JobVisitIsOwn
<1>6. RowVisitIsOwn'
  BY <1>1, <1>4 DEF IInv, RowVisitIsOwn
<1>7. rows[o].status # "none"
  BY <1>3 DEF IInv, UnclaimedIsUntouched
<1>8. UnclaimedIsUntouched' /\ CompletedIsLeft'
  BY <1>1, <1>2, <1>4, <1>7 DEF IInv, UnclaimedIsUntouched, CompletedIsLeft
<1>10. DeliveriesCounted'
  <2>1. ASSUME NEW p \in Orders
        PROVE  Cardinality(Delivering(p)') <= Cardinality(Delivering(p))
    BY <1>2, WorkersCountable, FS_Subset
  <2>. QED
    BY <1>1, <1>2, <2>1, WorkersCountable, NaturalCounts
    DEF IInv, TypeOK, DeliveriesCounted
<1>9. VisitsCounted'
  <2>1. /\ inflight[o] <= blind[o]
        /\ Cardinality(visits'[o]) + Cardinality(Posting(o)') + inflight[o]
             <= 1 + (blind[o] + overlap[o])
    <3>1. Cardinality(Posting(o)') + 1 <= Cardinality(Posting(o))
      BY <1>2, <1>3, WorkersCountable, OneLess
    <3>2. /\ inflight[o] <= blind[o]
          /\ Cardinality(visits[o]) + Cardinality(Posting(o)) + inflight[o]
               <= 1 + (blind[o] + overlap[o])
      BY DEF IInv, VisitsCounted, Excuses
    <3>3. Cardinality(visits'[o]) \in Nat
      BY <1>4, FS_CardinalityType DEF FreshIds
    <3>. QED
      BY <1>4, <3>1, <3>2, <3>3, NaturalCounts
  <2>2. ASSUME NEW p \in Orders, p # o
        PROVE  /\ inflight[p] <= blind[p]
               /\ Cardinality(visits'[p]) + Cardinality(Posting(p)') + inflight[p]
                    <= 1 + (blind[p] + overlap[p])
    <3>1. Posting(p)' = Posting(p)
      <4>1. w \notin Posting(p)
        BY <1>1, <2>2 DEF Posting
      <4>. QED
        BY <1>2, <4>1
    <3>. QED
      BY <1>4, <2>2, <3>1 DEF IInv, VisitsCounted, Excuses
  <2>. QED
    BY <1>1, <2>1, <2>2 DEF VisitsCounted, Excuses
<1>. QED
  BY <1>4, <1>5, <1>6, <1>8, <1>9, <1>10 DEF IInv

\* After a failed attempt the worker posts again or gives up.
LEMMA RetryPostJob ==
    ASSUME NEW w \in Workers, job[w] \in Jobs, At(w, "post"), RetryPost(w)
    PROVE  \E j \in Jobs :
              /\ Becomes(w, j) /\ j.order = job[w].order /\ j.visit = job[w].visit
              /\ j.pc \in {"post", "fail_transient"}
<1>1. CASE job[w].attempt < MaxAttempts
  <2>1. job[w].attempt + 1 \in 0..MaxAttempts
    BY <1>1, MaxAttemptsAssumption DEF Jobs
  <2> DEFINE j == [job[w] EXCEPT !.attempt = @ + 1]
  <2>2. /\ j \in Jobs /\ j.order = job[w].order /\ j.visit = job[w].visit
        /\ j.pc = "post"
    BY <2>1 DEF Jobs, At
  <2>. QED
    BY <1>1, <2>2 DEF RetryPost
<1>2. CASE ~(job[w].attempt < MaxAttempts)
  <2> DEFINE j == [job[w] EXCEPT !.pc = "fail_transient",
                                 !.outcome = "transient_failed"]
  <2>1. j \in Jobs
    BY DEF Jobs, BusyPcs, DeliveryPcs, Outcomes
  <2>2. /\ j.order = job[w].order /\ j.visit = job[w].visit
        /\ j.pc = "fail_transient"
    BY DEF Jobs
  <2>. QED
    BY <1>2, <2>1, <2>2 DEF RetryPost, Conclude
<1>. QED
  BY <1>1, <1>2

\* A POST that is abandoned may still create a visit, and is one excuse more.
LEMMA PostAbandonedStep ==
    ASSUME IInv, TypeOK', NEW w \in Workers, PostAbandoned(w)
    PROVE  IInv'
<1>1. PICK o \in Orders, j \in Jobs :
         /\ TypeOK /\ Becomes(w, j) /\ At(w, "post") /\ job[w].order = o
         /\ j.order = o /\ j.pc \in {"post", "fail_transient"}
         /\ j.visit = job[w].visit
         /\ inflight' = [inflight EXCEPT ![o] = inflight[o] + 1]
         /\ blind' = [blind EXCEPT ![o] = blind[o] + 1]
         /\ UNCHANGED <<rows, visits, nextVisit, overlap>>
  <2>1. /\ TypeOK /\ job[w].order \in Orders /\ At(w, "post") /\ RetryPost(w)
        /\ job[w] \in Jobs
    BY DEF PostAbandoned, IInv, TypeOK, At
  <2>2. PICK j \in Jobs :
           /\ Becomes(w, j) /\ j.order = job[w].order /\ j.visit = job[w].visit
           /\ j.pc \in {"post", "fail_transient"}
    BY <2>1, RetryPostJob
  <2>. QED
    BY <2>1, <2>2 DEF PostAbandoned
<1>2. ASSUME NEW p
      PROVE  /\ Delivering(p)' = Delivering(p)
             /\ Posting(p)' \subseteq Posting(p)
  <2>1. /\ w \in Delivering(p) <=> p = o
        /\ w \in Posting(p) <=> p = o
        /\ j.pc \in DeliveryPcs
    BY <1>1 DEF Delivering, Posting, DeliveryPcs, At
  <2>2. IF p = o THEN Delivering(p) \cup {w} = Delivering(p) /\ Posting(p) \cup {w} = Posting(p)
                 ELSE Delivering(p) \ {w} = Delivering(p)
    BY <2>1
  <2>. QED
    BY <1>1, <2>1, <2>2, WorkerMoves
<1>3. CompletersHaveVisits' /\ JobVisitIsOwn'
  <2>1. ~At(w, "idle") /\ j.pc # "complete" /\ j.pc # "idle"
    BY <1>1 DEF At
  <2>. QED
    BY <1>1, <2>1, PcStep
<1>4. FreshIds' /\ RowVisitIsOwn'
  BY <1>1 DEF IInv, FreshIds, RowVisitIsOwn
<1>5. rows[o].status # "none"
  <2>1. w \in Delivering(o)
    BY <1>1 DEF Delivering, DeliveryPcs, At
  <2>. QED
    BY <2>1 DEF IInv, UnclaimedIsUntouched
<1>6. /\ inflight'[o] = inflight[o] + 1 /\ blind'[o] = blind[o] + 1
      /\ \A p \in Orders : p # o => inflight'[p] = inflight[p] /\ blind'[p] = blind[p]
  BY <1>1 DEF TypeOK
<1>7. UnclaimedIsUntouched' /\ CompletedIsLeft' /\ DeliveriesCounted'
  BY <1>1, <1>2, <1>5, <1>6
  DEF IInv, UnclaimedIsUntouched, CompletedIsLeft, DeliveriesCounted
<1>8. VisitsCounted'
  <2>1. /\ inflight'[o] <= blind'[o]
        /\ Cardinality(visits[o]) + Cardinality(Posting(o)') + inflight'[o]
             <= 1 + (blind'[o] + overlap[o])
    <3>1. Cardinality(Posting(o)') <= Cardinality(Posting(o))
      BY <1>2, WorkersCountable, FS_Subset
    <3>2. /\ inflight[o] <= blind[o]
          /\ Cardinality(visits[o]) + Cardinality(Posting(o)) + inflight[o]
               <= 1 + (blind[o] + overlap[o])
      BY DEF IInv, VisitsCounted, Excuses
    <3>. QED
      BY <1>6, <3>1, <3>2, NaturalCounts
  <2>2. ASSUME NEW p \in Orders, p # o
        PROVE  /\ inflight'[p] <= blind'[p]
               /\ Cardinality(visits[p]) + Cardinality(Posting(p)') + inflight'[p]
                    <= 1 + (blind'[p] + overlap[p])
    <3>1. Cardinality(Posting(p)') <= Cardinality(Posting(p))
      BY <1>2, WorkersCountable, FS_Subset
    <3>2. /\ inflight[p] <= blind[p]
          /\ Cardinality(visits[p]) + Cardinality(Posting(p)) + inflight[p]
               <= 1 + (blind[p] + overlap[p])
      BY DEF IInv, VisitsCounted, Excuses
    <3>. QED
      BY <1>6, <2>2, <3>1, <3>2, NaturalCounts
  <2>. QED
    BY <1>1, <2>1, <2>2 DEF VisitsCounted, Excuses
<1>. QED
  BY <1>3, <1>4, <1>7, <1>8 DEF IInv

\* A request executed late adds its visit and is in flight no more.
LEMMA LateArrivalStep ==
    ASSUME IInv, TypeOK', NEW o \in Orders, LateArrival(o)
    PROVE  IInv'
<1>1. /\ TypeOK /\ CreateVisitFor(o) /\ inflight[o] > 0
      /\ inflight'[o] = inflight[o] - 1
      /\ \A p \in Orders : p # o => inflight'[p] = inflight[p]
      /\ UNCHANGED <<rows, job, blind, overlap>>
  BY DEF LateArrival, IInv, TypeOK
<1>2. ASSUME NEW p
      PROVE  Delivering(p)' = Delivering(p) /\ Posting(p)' = Posting(p)
  BY <1>1 DEF Delivering, Posting
<1>3. /\ FreshIds'
      /\ Cardinality(visits'[o]) <= Cardinality(visits[o]) + 1
      /\ \A p \in Orders : visits[p] \subseteq visits'[p]
      /\ \A p \in Orders \ {o} : visits'[p] = visits[p]
  BY <1>1, CreateKeepsFresh
<1>4. rows[o].status # "none"
  BY <1>1 DEF IInv, UnclaimedIsUntouched
<1>5. CompletersHaveVisits'
  BY <1>1 DEF IInv, CompletersHaveVisits, At
<1>6. JobVisitIsOwn'
  <2>1. ASSUME NEW w \in Workers, job[w].visit # NoVisit
        PROVE  job[w].visit \in visits'[job[w].order]
    <3>1. job[w].visit \in visits[job[w].order] /\ job[w].order \in Orders
      BY <2>1 DEF IInv, TypeOK, CompletersHaveVisits, JobVisitIsOwn
    <3>. QED
      BY <1>3, <3>1
  <2>. QED
    BY <1>1, <2>1 DEF JobVisitIsOwn
<1>7. RowVisitIsOwn'
  BY <1>1, <1>3 DEF IInv, RowVisitIsOwn
<1>8. UnclaimedIsUntouched' /\ CompletedIsLeft' /\ DeliveriesCounted'
  BY <1>1, <1>2, <1>3, <1>4
  DEF IInv, UnclaimedIsUntouched, CompletedIsLeft, DeliveriesCounted
<1>9. VisitsCounted'
  <2>1. /\ inflight'[o] <= blind[o]
        /\ Cardinality(visits'[o]) + Cardinality(Posting(o)) + inflight'[o]
             <= 1 + (blind[o] + overlap[o])
    <3>1. /\ inflight[o] <= blind[o]
          /\ Cardinality(visits[o]) + Cardinality(Posting(o)) + inflight[o]
               <= 1 + (blind[o] + overlap[o])
      BY DEF IInv, VisitsCounted, Excuses
    <3>2. Cardinality(visits'[o]) \in Nat
      BY <1>3, FS_CardinalityType DEF FreshIds
    <3>. QED
      BY <1>1, <1>3, <3>1, <3>2, NaturalCounts
  <2>2. ASSUME NEW p \in Orders, p # o
        PROVE  /\ inflight'[p] <= blind[p]
               /\ Cardinality(visits'[p]) + Cardinality(Posting(p)) + inflight'[p]
                    <= 1 + (blind[p] + overlap[p])
    BY <1>1, <1>3, <2>2 DEF IInv, VisitsCounted, Excuses
  <2>. QED
    BY <1>1, <1>2, <2>1, <2>2 DEF VisitsCounted, Excuses
<1>. QED
  BY <1>3, <1>5, <1>6, <1>7, <1>8, <1>9 DEF IInv

\* A crash empties the threads and leaves every POST in progress in flight.
LEMMA CrashStep ==
    ASSUME IInv, TypeOK', Crash
    PROVE  IInv'
<1>1. /\ TypeOK
      /\ UNCHANGED <<rows, visits, nextVisit, overlap>>
      /\ \A p \in Orders : /\ inflight'[p] = inflight[p] + Cardinality(Posting(p))
                           /\ blind'[p] = blind[p] + Cardinality(Posting(p))
      /\ \A w \in Workers : job'[w] = NoJob
  BY DEF Crash, IInv
<1>2. NoJob.pc = "idle" /\ NoJob.visit = NoVisit
  BY DEF NoJob
<1>3. ASSUME NEW p
      PROVE  Delivering(p)' = {} /\ Posting(p)' = {}
  BY <1>1, <1>2 DEF Delivering, Posting, DeliveryPcs
<1>4. CompletersHaveVisits' /\ JobVisitIsOwn'
  BY <1>1, <1>2 DEF CompletersHaveVisits, JobVisitIsOwn, At
<1>5. FreshIds' /\ RowVisitIsOwn'
  BY <1>1 DEF IInv, FreshIds, RowVisitIsOwn
<1>6. Cardinality({}) = 0
  BY FS_EmptySet
<1>7. UnclaimedIsUntouched'
  <2> SUFFICES ASSUME NEW p \in Orders, rows[p].status = "none"
               PROVE  visits[p] = {} /\ inflight'[p] = 0
    BY <1>1, <1>3 DEF UnclaimedIsUntouched
  <2>1. visits[p] = {} /\ inflight[p] = 0 /\ Delivering(p) = {}
    BY DEF IInv, UnclaimedIsUntouched
  <2>2. Posting(p) = {}
    BY <2>1, WorkersCountable
  <2>. QED
    BY <1>1, <1>6, <2>1, <2>2
<1>8. CompletedIsLeft'
  BY <1>3 DEF CompletedIsLeft
<1>9. DeliveriesCounted'
  <2>1. \A p \in Orders : 0 <= 1 + overlap[p]
    BY <1>1 DEF TypeOK
  <2>. QED
    BY <1>1, <1>3, <1>6, <2>1 DEF DeliveriesCounted
<1>10. VisitsCounted'
  <2>1. ASSUME NEW p \in Orders
        PROVE  /\ inflight'[p] <= blind'[p]
               /\ Cardinality(visits[p]) + 0 + inflight'[p]
                    <= 1 + (blind'[p] + overlap[p])
    <3>1. /\ inflight[p] <= blind[p]
          /\ Cardinality(visits[p]) + Cardinality(Posting(p)) + inflight[p]
               <= 1 + (blind[p] + overlap[p])
      BY DEF IInv, VisitsCounted, Excuses
    <3>. QED
      BY <1>1, <3>1, NaturalCounts
  <2>. QED
    BY <1>1, <1>3, <1>6, <2>1 DEF VisitsCounted, Excuses
<1>. QED
  BY <1>4, <1>5, <1>7, <1>8, <1>9, <1>10 DEF IInv

\* The steps of a worker that disturb no count.
LEMMA QuietSteps ==
    ASSUME IInv, TypeOK', NEW w \in Workers,
           \/ \E o \in Orders : Begin(w, o)
           \/ MapOk(w) \/ \E reason \in DataReasons : MapReview(w, reason)
           \/ ReviewLookup(w) \/ ReviewInsert(w) \/ ReviewConflict(w) \/ Alert(w)
           \/ ClaimSkip(w) \/ FindHit(w) \/ PostRejected(w) \/ PostRefused(w)
           \/ Raise(w) \/ Collect(w)
    PROVE  IInv'
<1>1. /\ TypeOK /\ job[w] \in Jobs
      /\ ~At(w, "idle") => job[w].order \in Orders
      /\ job[w].visit # NoVisit => job[w].visit \in visits[job[w].order]
  BY DEF IInv, TypeOK, JobVisitIsOwn
<1>2. ASSUME NEW p \in {"claim", "alert", "review", "review_insert", "returned"},
             NEW j \in Jobs, Becomes(w, j), UNCHANGED shared \/ ReviewInsert(w),
             j.pc = p, j.order = job[w].order, j.visit = job[w].visit
      PROVE  IInv'
  <2>1. UNCHANGED <<rows, visits, inflight, nextVisit, blind, overlap>>
    BY <1>2 DEF shared, ReviewInsert
  <2>2. j.pc \notin DeliveryPcs /\ j.pc # "post" /\ j.pc # "complete" /\ j.pc # "idle"
    BY <1>2 DEF DeliveryPcs
  <2>. QED
    BY <1>1, <1>2, <2>1, <2>2, QuietStep
<1>3. ASSUME NEW o \in Orders, Begin(w, o)
      PROVE  IInv'
  <2> DEFINE j == [NoJob EXCEPT !.pc = "map", !.order = o]
  <2>1. j \in Jobs /\ j.pc = "map" /\ j.visit = NoVisit
    BY NewJobTypes DEF NoJob
  <2>2. /\ Becomes(w, j)
        /\ UNCHANGED <<rows, visits, inflight, nextVisit, blind, overlap>>
    BY <1>3 DEF Begin
  <2>3. "map" \notin DeliveryPcs
    BY DEF DeliveryPcs
  <2> HIDE DEF j
  <2>. QED
    BY <2>1, <2>2, <2>3, QuietStep
<1>4. CASE \/ MapOk(w) \/ ReviewLookup(w) \/ ReviewInsert(w) \/ Alert(w)
  <2>1. PICK p \in {"claim", "alert", "review_insert", "returned"} : Goto(w, p)
    BY <1>4 DEF MapOk, ReviewLookup, ReviewInsert, Alert
  <2> DEFINE j == [job[w] EXCEPT !.pc = p]
  <2>2. j \in Jobs /\ j.pc = p /\ j.order = job[w].order /\ j.visit = job[w].visit
    BY <1>1 DEF Jobs, BusyPcs
  <2>3. UNCHANGED shared \/ ReviewInsert(w)
    BY <1>4 DEF MapOk, ReviewLookup, Alert
  <2>. QED
    BY <1>2, <2>1, <2>2, <2>3 DEF Goto
<1>5. CASE ReviewConflict(w) \/ ClaimSkip(w) \/ Raise(w)
  <2>1. PICK oc \in Outcomes : Conclude(w, "returned", oc)
    BY <1>5 DEF ReviewConflict, ClaimSkip, Raise, Outcomes
  <2> DEFINE j == [job[w] EXCEPT !.pc = "returned", !.outcome = oc]
  <2>2. /\ j \in Jobs /\ j.pc = "returned" /\ j.order = job[w].order
        /\ j.visit = job[w].visit
    BY <1>1 DEF Jobs
  <2>3. UNCHANGED shared
    BY <1>5 DEF ReviewConflict, ClaimSkip, Raise
  <2>. QED
    BY <1>2, <2>1, <2>2, <2>3 DEF Conclude
<1>6. ASSUME NEW reason \in DataReasons, MapReview(w, reason)
      PROVE  IInv'
  <2> DEFINE j == [job[w] EXCEPT !.pc = "review", !.reason = reason,
                                 !.outcome = "manual_review"]
  <2>1. /\ j \in Jobs /\ j.pc = "review" /\ j.order = job[w].order
        /\ j.visit = job[w].visit
    BY <1>1 DEF Jobs, BusyPcs, Reasons, Outcomes
  <2>. QED
    BY <1>2, <1>6, <2>1 DEF MapReview
<1>7. CASE FindHit(w)
  <2>1. PICK v \in visits[job[w].order] :
           Becomes(w, [job[w] EXCEPT !.pc = "complete", !.visit = v,
                                     !.outcome = "recovered"])
    BY <1>7 DEF FindHit, FoundByReference
  <2> DEFINE j == [job[w] EXCEPT !.pc = "complete", !.visit = v,
                                 !.outcome = "recovered"]
  <2>2. job[w].order \in Orders /\ v \in VisitIds /\ job[w].pc = "find"
    BY <1>1, <1>7, <2>1 DEF FindHit, At, TypeOK
  <2>3. v # NoVisit
    BY <2>2 DEF VisitIds, NoVisit
  <2>4. /\ j \in Jobs /\ j.pc = "complete" /\ j.order = job[w].order /\ j.visit = v
    BY <1>1, <2>2 DEF Jobs, BusyPcs, DeliveryPcs, Outcomes
  <2>5. UNCHANGED <<rows, visits, inflight, nextVisit, blind, overlap>>
    BY <1>7 DEF FindHit, shared
  <2>6. "find" \in DeliveryPcs
    BY DEF DeliveryPcs
  <2> HIDE DEF j
  <2>. QED
    BY <2>1, <2>2, <2>3, <2>4, <2>5, <2>6, QuietStep DEF j
<1>8. CASE PostRejected(w)
  <2> DEFINE j == [job[w] EXCEPT !.pc = "fail_permanent",
                                 !.outcome = "permanent_failed"]
  <2>1. /\ j \in Jobs /\ j.pc = "fail_permanent" /\ j.order = job[w].order
        /\ j.visit = job[w].visit
    BY <1>1 DEF Jobs, BusyPcs, DeliveryPcs, Outcomes
  <2>2. Becomes(w, j) /\ job[w].pc = "post" /\ UNCHANGED shared
    BY <1>8 DEF PostRejected, At
  <2>3. "post" \in DeliveryPcs
    BY DEF DeliveryPcs
  <2> HIDE DEF j
  <2>. QED
    BY <1>1, <2>1, <2>2, <2>3, QuietStep DEF shared
<1>9. CASE PostRefused(w)
  <2>1. job[w].pc = "post" /\ UNCHANGED shared /\ RetryPost(w)
    BY <1>9 DEF PostRefused, At
  <2>2. PICK j \in Jobs :
           /\ Becomes(w, j) /\ j.order = job[w].order /\ j.visit = job[w].visit
           /\ j.pc \in {"post", "fail_transient"}
    BY <1>1, <2>1, RetryPostJob DEF At
  <2>3. "post" \in DeliveryPcs
    BY DEF DeliveryPcs
  <2>. QED
    BY <1>1, <2>1, <2>2, <2>3, QuietStep DEF shared
<1>10. CASE Collect(w)
  <2>1. NoJob \in Jobs /\ NoJob.pc = "idle" /\ NoJob.visit = NoVisit
    BY NewJobTypes DEF NoJob
  <2>2. Becomes(w, NoJob) /\ UNCHANGED shared /\ "idle" \notin DeliveryPcs
    BY <1>10 DEF Collect, DeliveryPcs
  <2>. QED
    BY <2>1, <2>2, QuietStep DEF shared
<1>. QED
  BY <1>3, <1>4, <1>5, <1>6, <1>7, <1>8, <1>9, <1>10

\* The writes of a result.
LEMMA ResultSteps ==
    ASSUME IInv, TypeOK', NEW w \in Workers,
           MarkCompleted(w) \/ MarkFailedPermanent(w) \/ MarkFailedTransient(w)
    PROVE  IInv'
<1>1. PICK o \in Orders :
         /\ TypeOK /\ job[w] \in Jobs /\ job[w].order = o /\ w \in Delivering(o)
         /\ UNCHANGED <<visits, inflight, nextVisit, blind, overlap>>
  BY DEF MarkCompleted, MarkFailedPermanent, MarkFailedTransient, IInv, TypeOK, At,
         Delivering, DeliveryPcs
<1>2. PICK j \in Jobs :
         /\ Becomes(w, j) /\ j.pc \notin DeliveryPcs /\ j.pc # "idle"
         /\ j.visit = job[w].visit /\ j.order = job[w].order
  <2>1. CASE MarkCompleted(w)
    <3> DEFINE j == [job[w] EXCEPT !.pc = "returned"]
    <3>1. j \in Jobs /\ j.pc = "returned" /\ j.visit = job[w].visit /\ j.order = job[w].order
      BY <1>1 DEF Jobs
    <3>. QED
      BY <2>1, <3>1 DEF MarkCompleted, Goto, DeliveryPcs
  <2>2. CASE MarkFailedTransient(w)
    <3> DEFINE j == [job[w] EXCEPT !.pc = "alert"]
    <3>1. j \in Jobs /\ j.pc = "alert" /\ j.visit = job[w].visit /\ j.order = job[w].order
      BY <1>1 DEF Jobs, BusyPcs
    <3>. QED
      BY <2>2, <3>1 DEF MarkFailedTransient, Goto, DeliveryPcs
  <2>3. CASE MarkFailedPermanent(w)
    <3> DEFINE j == [job[w] EXCEPT !.pc = "review", !.reason = PermanentReason]
    <3>1. j \in Jobs /\ j.pc = "review" /\ j.visit = job[w].visit /\ j.order = job[w].order
      BY <1>1 DEF Jobs, BusyPcs, Reasons
    <3>. QED
      BY <2>3, <3>1 DEF MarkFailedPermanent, DeliveryPcs
  <2>. QED
    BY <2>1, <2>2, <2>3
<1>3. PICK r \in Rows :
         /\ rows' = [rows EXCEPT ![o] = r] /\ r.status # "none"
         /\ r.visit # NoVisit => r.visit \in visits[o]
         /\ r.status = "completed" => r.visit # NoVisit
  <2>1. CASE MarkCompleted(w)
    <3> DEFINE r == [status |-> "completed", visit |-> job[w].visit]
    <3>1. r \in Rows /\ r.status = "completed" /\ r.visit = job[w].visit
      BY <1>1 DEF Jobs, Rows, Statuses
    <3>2. job[w].visit # NoVisit /\ job[w].visit \in visits[o]
      BY <1>1, <2>1 DEF MarkCompleted, IInv, CompletersHaveVisits, JobVisitIsOwn
    <3>. QED
      BY <1>1, <2>1, <3>1, <3>2 DEF MarkCompleted
  <2>2. CASE MarkFailedPermanent(w) \/ MarkFailedTransient(w)
    <3> DEFINE r == [rows[o] EXCEPT !.status = "failed"]
    <3>1. r \in Rows /\ r.status = "failed" /\ r.visit = rows[o].visit
      BY <1>1 DEF TypeOK, Rows, Statuses
    <3>2. rows[o].visit # NoVisit => rows[o].visit \in visits[o]
      BY DEF IInv, RowVisitIsOwn
    <3>3. rows' = [rows EXCEPT ![o] = r]
      BY <1>1, <2>2 DEF MarkFailedPermanent, MarkFailedTransient
    <3>. QED
      BY <3>1, <3>2, <3>3
  <2>. QED
    BY <2>1, <2>2
<1>. QED
  BY <1>1, <1>2, <1>3, ResultStep

\* A step that changes nothing keeps the invariant.
LEMMA StutteringStep == ASSUME IInv, UNCHANGED vars PROVE IInv'
BY DEF vars, IInv, TypeOK, FreshIds, CompletersHaveVisits, UnclaimedIsUntouched,
       DeliveriesCounted, VisitsCounted, CompletedIsLeft, RowVisitIsOwn,
       JobVisitIsOwn, At, Delivering, Posting, Excuses

\* The invariant is inductive.
LEMMA StepInvariant == ASSUME IInv, [Next]_vars PROVE IInv'
<1>1. TypeOK'
  BY StepTypes DEF IInv
<1>. QED
  BY <1>1, QuietSteps, ResultSteps, ClaimNewStep, ClaimRetryStep, LookupStep,
     PostOkStep, PostUnreadableStep, PostAbandonedStep, LateArrivalStep, CrashStep, StutteringStep
  DEF Next, Work, Finished

\* The inductive invariant of the processor, of which the safety properties
\* below are parts or consequences.
THEOREM Invariance == Spec => []IInv
<1>1. Init => IInv
  <2>1. Init => TypeOK
    BY InitTypes
  <2>2. IsFiniteSet({}) /\ Cardinality({}) = 0
    BY FS_EmptySet
  <2>3. NoJob.pc = "idle" /\ NoJob.visit = NoVisit
    BY DEF NoJob
  <2>4. ASSUME Init, NEW o \in Orders
        PROVE  /\ Delivering(o) = {} /\ Posting(o) = {} /\ visits[o] = {}
               /\ inflight[o] = 0 /\ blind[o] = 0 /\ overlap[o] = 0
    BY <2>3, <2>4 DEF Init, Delivering, Posting, DeliveryPcs
  <2>5. Init => FreshIds /\ CompletersHaveVisits /\ UnclaimedIsUntouched
    BY <2>2, <2>3, <2>4 DEF Init, FreshIds, CompletersHaveVisits, UnclaimedIsUntouched, At
  <2>6. Init => DeliveriesCounted /\ VisitsCounted
    BY <2>2, <2>4 DEF DeliveriesCounted, VisitsCounted, Excuses
  <2>7. Init => CompletedIsLeft /\ RowVisitIsOwn /\ JobVisitIsOwn
    BY <2>3, <2>4 DEF Init, NoRow, CompletedIsLeft, RowVisitIsOwn, JobVisitIsOwn
  <2>. QED
    BY <2>1, <2>5, <2>6, <2>7 DEF IInv
<1>. QED
  BY <1>1, StepInvariant, PTL DEF Spec

-----------------------------------------------------------------------------
(* The safety properties *)

\* An order has at most one visit more than it has lost answers, failed
\* lookups and overlapping claims.
THEOREM DuplicatesAreExplained == Spec => []DuplicatesExplained
<1>1. IInv => DuplicatesExplained
  <2> SUFFICES ASSUME IInv, NEW o \in Orders
               PROVE  Cardinality(visits[o]) <= 1 + (blind[o] + overlap[o])
    BY DEF DuplicatesExplained, Excuses
  <2>1. Cardinality(visits[o]) + Cardinality(Posting(o)) + inflight[o]
          <= 1 + (blind[o] + overlap[o])
    BY DEF IInv, VisitsCounted, Excuses
  <2>. QED
    BY <2>1, NaturalCounts
<1>. QED
  BY <1>1, Invariance, PTL

\* No visit, and no request that may become one, precedes the committed claim.
THEOREM ClaimPrecedesVisit == Spec => []ClaimBeforeVisit
<1>1. IInv => ClaimBeforeVisit
  <2> SUFFICES ASSUME IInv, NEW o \in Orders, rows[o].status = "none"
               PROVE  visits[o] = {} /\ ~(inflight[o] > 0)
    BY DEF ClaimBeforeVisit
  <2>1. visits[o] = {} /\ inflight[o] = 0
    BY DEF IInv, UnclaimedIsUntouched
  <2>. QED
    BY <2>1
<1>. QED
  BY <1>1, Invariance, PTL

\* A bound visit id is the id of a visit of the same order.
THEOREM BoundVisitsAreOwn == Spec => []BoundVisitIsOwn
<1>1. IInv => BoundVisitIsOwn
  BY DEF IInv, BoundVisitIsOwn
<1>. QED
  BY <1>1, Invariance, PTL

\* Only an order without a row, or one that is being delivered, gets its row
\* written.
LEMMA RowWriters ==
    ASSUME IInv, [Next]_vars, NEW o \in Orders, rows'[o] # rows[o]
    PROVE  rows[o].status = "none" \/ Delivering(o) # {}
<1>1. rows' # rows
  OBVIOUS
<1>2. PICK w \in Workers : ClaimNew(w) \/ MarkCompleted(w) \/ MarkFailedPermanent(w)
                            \/ MarkFailedTransient(w)
  BY <1>1 DEF Next, Work, vars, shared, Begin, MapOk, MapReview, ReviewLookup,
     ReviewInsert, ReviewConflict, Alert, ClaimSkip, ClaimRetry, FindHit, FindNone,
     FindTransient, PostOk, PostUnreadable, PostRejected, PostRefused, PostAbandoned, LateArrival,
     Raise, Collect, Crash, Finished
<1>3. rows \in [Orders -> Rows]
  BY DEF IInv, TypeOK
<1>4. job[w].order = o
  BY <1>2, <1>3 DEF ClaimNew, MarkCompleted, MarkFailedPermanent, MarkFailedTransient
<1>5. CASE ClaimNew(w)
  BY <1>4, <1>5 DEF ClaimNew, ClaimResult
<1>6. CASE ~ClaimNew(w)
  <2>1. w \in Delivering(o)
    BY <1>2, <1>4, <1>6 DEF MarkCompleted, MarkFailedPermanent, MarkFailedTransient, At,
       Delivering, DeliveryPcs
  <2>. QED
    BY <2>1
<1>. QED
  BY <1>5, <1>6

\* A completed row is final unless the order was claimed during a delivery.
THEOREM CompletionIsFinal == Spec => CompletedIsFinal
<1>1. ASSUME IInv, [Next]_vars
      PROVE  \A o \in Orders : rows[o].status = "completed" /\ overlap[o] = 0
                => rows'[o] = rows[o]
  <2> SUFFICES ASSUME NEW o \in Orders, rows[o].status = "completed", overlap[o] = 0
               PROVE  rows'[o] = rows[o]
    OBVIOUS
  <2>1. Delivering(o) = {}
    BY <1>1 DEF IInv, CompletedIsLeft
  <2>. QED
    BY <1>1, <2>1, RowWriters
<1>. QED
  BY <1>1, Invariance, PTL DEF Spec, CompletedIsFinal

\* A recorded reason stays: only ReviewInsert writes, and only where none is.
THEOREM ReasonsAreKept == Spec => FirstReasonKept
<1>1. ASSUME TypeOK, [Next]_vars
      PROVE  \A o \in Orders : reviews[o] # NoReason => reviews'[o] = reviews[o]
  <2> SUFFICES ASSUME NEW o \in Orders, reviews'[o] # reviews[o]
               PROVE  reviews[o] = NoReason
    OBVIOUS
  <2>1. reviews' # reviews
    OBVIOUS
  <2>2. PICK w \in Workers : ReviewInsert(w)
    BY <1>1, <2>1 DEF Next, Work, vars, shared, Begin, MapOk, MapReview, ReviewLookup,
       ReviewConflict, Alert, ClaimNew, ClaimSkip, ClaimRetry, FindHit, FindNone,
       FindTransient, PostOk, PostUnreadable, PostRejected, PostRefused, PostAbandoned, LateArrival,
       MarkCompleted, MarkFailedPermanent, MarkFailedTransient, Raise, Collect, Crash,
       Finished
  <2>. QED
    BY <1>1, <2>2 DEF ReviewInsert, TypeOK
<1>. QED
  BY <1>1, TypeCorrect, PTL DEF Spec, FirstReasonKept

-----------------------------------------------------------------------------
(* Refinement *)

\* No step forgets an excuse.
LEMMA ExcusesGrow ==
    ASSUME IInv, [Next]_vars, NEW o \in Orders
    PROVE  Excuses(o)' \in Nat /\ Excuses(o)' >= Excuses(o)
<1>1. TypeOK /\ TypeOK'
  BY StepTypes DEF IInv
<1>2. blind[o] \in Nat /\ blind'[o] \in Nat /\ overlap[o] \in Nat /\ overlap'[o] \in Nat
  BY <1>1 DEF TypeOK
<1>3. blind'[o] >= blind[o]
  <2>1. CASE blind' = blind
    BY <1>2, <2>1
  <2>2. ASSUME NEW w \in Workers, FindTransient(w) \/ PostAbandoned(w)
        PROVE  blind'[o] >= blind[o]
    <3>1. blind' = [blind EXCEPT ![job[w].order] = @ + 1]
      BY <2>2 DEF FindTransient, PostAbandoned
    <3>. QED
      BY <1>1, <1>2, <3>1 DEF TypeOK
  <2>3. CASE Crash
    BY <1>2, <2>3, WorkersCountable DEF Crash
  <2>. QED
    BY <2>1, <2>2, <2>3 DEF Next, Work, vars, shared, Begin, MapOk, MapReview,
       ReviewLookup, ReviewInsert, ReviewConflict, Alert, ClaimNew, ClaimSkip,
       ClaimRetry, FindHit, FindNone, PostOk, PostUnreadable, PostRejected, PostRefused, LateArrival,
       MarkCompleted, MarkFailedPermanent, MarkFailedTransient, Raise, Collect, Finished
<1>4. overlap'[o] >= overlap[o]
  <2>1. CASE overlap' = overlap
    BY <1>2, <2>1
  <2>2. ASSUME NEW w \in Workers, ClaimRetry(w)
        PROVE  overlap'[o] >= overlap[o]
    BY <1>1, <1>2, <2>2 DEF ClaimRetry, TypeOK
  <2>. QED
    BY <2>1, <2>2 DEF Next, Work, vars, shared, Begin, MapOk, MapReview,
       ReviewLookup, ReviewInsert, ReviewConflict, Alert, ClaimNew, ClaimSkip,
       FindHit, FindNone, FindTransient, PostOk, PostUnreadable, PostRejected, PostRefused,
       PostAbandoned, LateArrival, MarkCompleted, MarkFailedPermanent,
       MarkFailedTransient, Raise, Collect, Crash, Finished
<1>. QED
  BY <1>2, <1>3, <1>4 DEF Excuses

\* The instance counts with the same operator.
LEMMA SameCardinality == \A S : D!Cardinality(S) = Cardinality(S)
BY DEF D!Cardinality, Cardinality

\* A created visit is excused: the POST that creates it is still counted.
LEMMA CreateImplements ==
    ASSUME IInv, NEW o \in Orders, CreateVisitFor(o), UNCHANGED <<rows, blind, overlap>>,
           Posting(o) # {} \/ inflight[o] > 0
    PROVE  D!Create(o)
<1>1. Cardinality(visits[o]) <= Excuses(o)
  <2>1. Cardinality(Posting(o)) + inflight[o] >= 1
    <3>1. CASE Posting(o) # {}
      <4>1. Cardinality(Posting(o)) # 0
        BY <3>1, WorkersCountable, FS_EmptySet
      <4>. QED
        BY <4>1, NaturalCounts
    <3>2. CASE inflight[o] > 0
      BY <3>2, NaturalCounts
    <3>. QED
      BY <3>1, <3>2
  <2>2. Cardinality(visits[o]) + Cardinality(Posting(o)) + inflight[o]
          <= 1 + (blind[o] + overlap[o])
    BY DEF IInv, VisitsCounted, Excuses
  <2>. QED
    BY <2>1, <2>2, NaturalCounts DEF Excuses
<1>2. /\ UNCHANGED [p \in Orders |-> rows[p].visit]
      /\ UNCHANGED [p \in Orders |-> Excuses(p)]
  BY DEF Excuses
<1>. QED
  BY <1>1, <1>2, SameCardinality DEF D!Create, CreateVisitFor

\* A completion binds the row to a visit of its order.
LEMMA CompletionImplements ==
    ASSUME IInv, NEW w \in Workers, MarkCompleted(w)
    PROVE  \E o \in Orders : D!Bind(o)
<1>1. PICK o \in Orders :
         /\ job[w].order = o /\ job[w].visit \in visits[o]
         /\ rows' = [rows EXCEPT ![o] = [status |-> "completed", visit |-> job[w].visit]]
         /\ UNCHANGED <<visits, nextVisit, blind, overlap>>
         /\ rows \in [Orders -> Rows]
  BY DEF MarkCompleted, IInv, TypeOK, CompletersHaveVisits, JobVisitIsOwn, At
<1>2. [p \in Orders |-> rows[p].visit]'
        = [[p \in Orders |-> rows[p].visit] EXCEPT ![o] = job[w].visit]
  BY <1>1
<1>3. UNCHANGED [p \in Orders |-> Excuses(p)]
  BY <1>1 DEF Excuses
<1>. QED
  BY <1>1, <1>2, <1>3 DEF D!Bind

\* Every other step creates and binds nothing: at most it adds an excuse.
LEMMA OtherStepsImplement ==
    ASSUME IInv, [Next]_vars, UNCHANGED <<visits, nextVisit>>,
           \A o \in Orders : rows'[o].visit = rows[o].visit
    PROVE  D!Excuse
<1>1. UNCHANGED [p \in Orders |-> rows[p].visit]
  OBVIOUS
<1>2. [p \in Orders |-> Excuses(p)]' \in [Orders -> Nat]
  BY ExcusesGrow
<1>3. \A p \in Orders : [q \in Orders |-> Excuses(q)]'[p] >= [q \in Orders |-> Excuses(q)][p]
  BY ExcusesGrow
<1>. QED
  BY <1>1, <1>2, <1>3 DEF D!Excuse

\* Every step of the processor is a step of Delivery.
LEMMA StepImplements == ASSUME IInv, [Next]_vars PROVE D!Next
<1>1. TypeOK
  BY DEF IInv
<1>2. ASSUME NEW w \in Workers, PostOk(w)
      PROVE  D!Next
  <2>1. PICK o \in Orders :
           /\ CreateVisitFor(o) /\ UNCHANGED <<rows, blind, overlap>>
           /\ w \in Posting(o)
    BY <1>1, <1>2 DEF PostOk, TypeOK, At, Posting
  <2>. QED
    BY <2>1, CreateImplements DEF D!Next
<1>3. ASSUME NEW o \in Orders, LateArrival(o)
      PROVE  D!Next
  BY <1>3, CreateImplements DEF LateArrival, D!Next
<1>4. ASSUME NEW w \in Workers, MarkCompleted(w)
      PROVE  D!Next
  BY <1>4, CompletionImplements DEF D!Next
<1>5. ASSUME NEW w \in Workers, PostUnreadable(w)
      PROVE  D!Next
  <2>1. PICK o \in Orders :
           /\ CreateVisitFor(o) /\ UNCHANGED <<rows, blind, overlap>>
           /\ w \in Posting(o)
    BY <1>1, <1>5 DEF PostUnreadable, TypeOK, At, Posting
  <2>. QED
    BY <2>1, CreateImplements DEF D!Next
<1>6. CASE /\ \A w \in Workers : ~PostOk(w) /\ ~PostUnreadable(w) /\ ~MarkCompleted(w)
           /\ \A o \in Orders : ~LateArrival(o)
  <2>1. UNCHANGED <<visits, nextVisit>>
    BY <1>6 DEF Next, Work, vars, shared, Begin, MapOk, MapReview, ReviewLookup,
       ReviewInsert, ReviewConflict, Alert, ClaimNew, ClaimSkip, ClaimRetry, FindHit,
       FindNone, FindTransient, PostRejected, PostRefused, PostAbandoned,
       MarkFailedPermanent, MarkFailedTransient, Raise, Collect, Crash, Finished
  <2>2. \A o \in Orders : rows'[o].visit = rows[o].visit
    <3>1. CASE rows' = rows
      BY <3>1
    <3>2. ASSUME NEW w \in Workers,
                 ClaimNew(w) \/ MarkFailedPermanent(w) \/ MarkFailedTransient(w)
          PROVE  \A o \in Orders : rows'[o].visit = rows[o].visit
      BY <1>1, <3>2 DEF ClaimNew, MarkFailedPermanent, MarkFailedTransient, TypeOK, Rows
    <3>. QED
      BY <1>6, <3>1, <3>2 DEF Next, Work, vars, shared, Begin, MapOk, MapReview,
         ReviewLookup, ReviewInsert, ReviewConflict, Alert, ClaimSkip, ClaimRetry,
         FindHit, FindNone, FindTransient, PostRejected, PostRefused, PostAbandoned,
         Raise, Collect, Crash, Finished
  <2>. QED
    BY <2>1, <2>2, OtherStepsImplement DEF D!Next
<1>. QED
  BY <1>2, <1>3, <1>4, <1>5, <1>6

\* The processor implements Delivery.
THEOREM Refinement == Spec => ImplementsDelivery
<1>1. Init => D!Init
  BY DEF Init, D!Init, NoRow, NoVisit, Excuses
<1>2. IInv /\ [Next]_vars => [D!Next]_(D!vars)
  BY StepImplements
<1>. QED
  BY <1>1, <1>2, Invariance, PTL DEF Spec, ImplementsDelivery, D!Spec
=============================================================================
