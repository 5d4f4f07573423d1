----------------------------- MODULE Processor -----------------------------
(***************************************************************************)
(* The order processor, app/scheduler/processor.py, with the SimpliRoute   *)
(* client it drives, app/simpliroute/client.py.                            *)
(*                                                                         *)
(* A worker is one thread inside process_order: the cron loop, a webhook   *)
(* background task or a QR scan.  The threads share the two tables         *)
(* processed_orders and manual_review and the remote SimpliRoute account;  *)
(* every variable below except job survives a crash of the process.  A     *)
(* step of this module is what a worker does between two points at which   *)
(* another worker can be observed: one committed transaction, one lookup,  *)
(* or one HTTP request.                                                    *)
(***************************************************************************)
EXTENDS Naturals, FiniteSets

CONSTANTS
    Orders,       \* ML order ids
    Workers,      \* threads that may be inside process_order at once
    DataReasons,  \* why mapping or geocoding sends an order to manual review
    MaxAttempts,  \* settings.simpliroute_max_retries
    MaxBegins,    \* bound on the calls of process_order in a behaviour
    NoOrder       \* the order of an idle worker

ASSUME OrdersAssumption      == NoOrder \notin Orders
ASSUME WorkersAssumption     == IsFiniteSet(Workers)
ASSUME DataReasonsAssumption ==
    DataReasons \cap {"none", "simpliroute_permanent_error"} = {}
ASSUME MaxAttemptsAssumption == MaxAttempts \in Nat \ {0}
ASSUME MaxBeginsAssumption   == MaxBegins \in Nat

VARIABLES
    rows,       \* processed_orders: status and simpliroute_visit_id per order
    reviews,    \* manual_review: the recorded reason per order
    visits,     \* SimpliRoute: the visits whose reference is the order
    inflight,   \* abandoned POSTs per order that SimpliRoute may still execute
    nextVisit,  \* the id SimpliRoute gives to the next visit
    job,        \* per worker, the local state of its call of process_order
    begun,      \* calls of process_order so far
    blind,      \* history: POSTs nobody saw the answer of, and failed lookups
    overlap     \* history: claims granted while the order was being delivered

\* All that outlives a worker's call.
shared == <<rows, reviews, visits, inflight, nextVisit, begun, blind, overlap>>

vars == <<rows, reviews, visits, inflight, nextVisit, job, begun, blind, overlap>>

-----------------------------------------------------------------------------
(* Values *)

VisitIds == Nat \ {0}
NoVisit  == 0
NoReason == "none"
PermanentReason == "simpliroute_permanent_error"
Reasons  == DataReasons \cup {PermanentReason}

Outcomes == {"completed", "skipped_duplicate", "recovered", "manual_review",
             "permanent_failed", "transient_failed", "raised"}

Statuses == {"none", "pending", "completed", "failed"}
Rows  == [status : Statuses, visit : VisitIds \cup {NoVisit}]
NoRow == [status |-> "none", visit |-> NoVisit]

\* Between the claim and the write of its result a worker owns the delivery.
DeliveryPcs == {"find", "post", "complete", "fail_permanent", "fail_transient"}
BusyPcs == DeliveryPcs \cup {"map", "review", "review_insert", "claim", "alert"}

Jobs == [pc      : BusyPcs \cup {"idle", "returned"},
         order   : Orders \cup {NoOrder},
         attempt : 0..MaxAttempts,
         visit   : VisitIds \cup {NoVisit},
         reason  : Reasons \cup {NoReason},
         outcome : Outcomes \cup {"none"}]
NoJob == [pc |-> "idle", order |-> NoOrder, attempt |-> 0, visit |-> NoVisit,
          reason |-> NoReason, outcome |-> "none"]

At(w, p)     == job[w].pc = p
Delivering(o) == {w \in Workers : job[w].order = o /\ job[w].pc \in DeliveryPcs}
Posting(o)    == {w \in Workers : job[w].order = o /\ job[w].pc = "post"}
Excuses(o)    == blind[o] + overlap[o]

Becomes(w, j) == job' = [job EXCEPT ![w] = j]
Goto(w, p) == Becomes(w, [job[w] EXCEPT !.pc = p])
Conclude(w, p, outcome) ==
    Becomes(w, [job[w] EXCEPT !.pc = p, !.outcome = outcome])

-----------------------------------------------------------------------------
TypeOK ==
    /\ rows \in [Orders -> Rows]
    /\ reviews \in [Orders -> Reasons \cup {NoReason}]
    /\ visits \in [Orders -> SUBSET VisitIds]
    /\ inflight \in [Orders -> Nat]
    /\ nextVisit \in VisitIds
    /\ job \in [Workers -> Jobs]
    /\ \A w \in Workers : ~At(w, "idle") => job[w].order \in Orders
    /\ begun \in 0..MaxBegins
    /\ blind \in [Orders -> Nat]
    /\ overlap \in [Orders -> Nat]

Init ==
    /\ rows = [o \in Orders |-> NoRow]
    /\ reviews = [o \in Orders |-> NoReason]
    /\ visits = [o \in Orders |-> {}]
    /\ inflight = [o \in Orders |-> 0]
    /\ nextVisit = 1
    /\ job = [w \in Workers |-> NoJob]
    /\ begun = 0
    /\ blind = [o \in Orders |-> 0]
    /\ overlap = [o \in Orders |-> 0]

-----------------------------------------------------------------------------
(* Entry: mapping and geocoding *)

\* _execute or ondemand._run calls process_order on a fetched order.
Begin(w, o) ==
    /\ At(w, "idle")
    /\ begun < MaxBegins
    /\ begun' = begun + 1
    /\ Becomes(w, [NoJob EXCEPT !.pc = "map", !.order = o])
    /\ UNCHANGED <<rows, reviews, visits, inflight, nextVisit, blind, overlap>>

\* The order maps to a payload that has coordinates, or gets them.
MapOk(w) ==
    /\ At(w, "map")
    /\ Goto(w, "claim")
    /\ UNCHANGED shared

\* A field is missing, or the address does not geocode well enough.
MapReview(w, reason) ==
    /\ At(w, "map")
    /\ Becomes(w, [job[w] EXCEPT !.pc = "review", !.reason = reason,
                               !.outcome = "manual_review"])
    /\ UNCHANGED shared

-----------------------------------------------------------------------------
(* _record_manual_review, followed by the alert of its caller *)

\* The SELECT: an order that is already flagged keeps its row.
ReviewLookup(w) ==
    /\ At(w, "review")
    /\ Goto(w, IF reviews[job[w].order] = NoReason THEN "review_insert" ELSE "alert")
    /\ UNCHANGED shared

\* The INSERT and its commit.
ReviewInsert(w) ==
    /\ At(w, "review_insert")
    /\ reviews[job[w].order] = NoReason
    /\ reviews' = [reviews EXCEPT ![job[w].order] = job[w].reason]
    /\ Goto(w, "alert")
    /\ UNCHANGED <<rows, visits, inflight, nextVisit, begun, blind, overlap>>

ReviewUpsert(w) ==   \* mutant: the conflicting INSERT updates the row
    /\ At(w, "review_insert")
    /\ reviews[job[w].order] # NoReason
    /\ reviews' = [reviews EXCEPT ![job[w].order] = job[w].reason]
    /\ Goto(w, "alert")
    /\ UNCHANGED <<rows, visits, inflight, nextVisit, begun, blind, overlap>>

\* The INSERT loses a race: uq_manual_review_ml_order_id raises an
\* IntegrityError that nothing catches before process_order's caller.
ReviewConflict(w) ==
    /\ At(w, "review_insert")
    /\ reviews[job[w].order] # NoReason
    /\ Conclude(w, "returned", "raised")
    /\ UNCHANGED shared

\* The alert helpers end both review paths and the transient failure.
Alert(w) ==
    /\ At(w, "alert")
    /\ Goto(w, "returned")
    /\ UNCHANGED shared

-----------------------------------------------------------------------------
(* _claim_or_retry: one INSERT guarded by UNIQUE(ml_order_id), or an update. *)
(* No row is ever deleted, so the failed INSERT and the SELECT after it     *)
(* cannot be told from one step.                                            *)

ClaimResultCompletedToo(status) ==   \* mutant: completed rows are not skipped
    IF status = "none" THEN "new" ELSE "retry"

ClaimResult(status) ==
    CASE status = "none"      -> "new"
      [] status = "completed" -> "skip"
      [] OTHER                -> "retry"

ClaimNewUncommitted(w) ==   \* mutant: the pending row is not committed
    /\ At(w, "claim")
    /\ ClaimResult(rows[job[w].order].status) = "new"
    /\ Becomes(w, [job[w] EXCEPT !.pc = "post", !.attempt = 1])
    /\ UNCHANGED shared

ClaimNew(w) ==
    /\ At(w, "claim")
    /\ ClaimResult(rows[job[w].order].status) = "new"
    /\ rows' = [rows EXCEPT ![job[w].order].status = "pending"]
    /\ Becomes(w, [job[w] EXCEPT !.pc = "post", !.attempt = 1])
    /\ UNCHANGED <<reviews, visits, inflight, nextVisit, begun, blind, overlap>>

ClaimSkip(w) ==
    /\ At(w, "claim")
    /\ ClaimResult(rows[job[w].order].status) = "skip"
    /\ Conclude(w, "returned", "skipped_duplicate")
    /\ UNCHANGED shared

ClaimRetryUnchecked(w) ==   \* mutant: a retry posts without the lookup
    /\ At(w, "claim")
    /\ ClaimResult(rows[job[w].order].status) = "retry"
    /\ Becomes(w, [job[w] EXCEPT !.pc = "post", !.attempt = 1])
    /\ overlap' = [overlap EXCEPT ![job[w].order] =
                       IF Delivering(job[w].order) = {} THEN @ ELSE @ + 1]
    /\ UNCHANGED <<rows, reviews, visits, inflight, nextVisit, begun, blind>>

\* The row's status does not tell a crashed worker's claim from a live one's:
\* the claim is granted even while another worker delivers the same order.
ClaimRetry(w) ==
    /\ At(w, "claim")
    /\ ClaimResult(rows[job[w].order].status) = "retry"
    /\ Goto(w, "find")
    /\ overlap' = [overlap EXCEPT ![job[w].order] =
                       IF Delivering(job[w].order) = {} THEN @ ELSE @ + 1]
    /\ UNCHANGED <<rows, reviews, visits, inflight, nextVisit, begun, blind>>

-----------------------------------------------------------------------------
(* find_visit_by_reference, on the retry path only *)

AnyListedVisit(o) == UNION {visits[p] : p \in Orders}   \* mutant: no filter

\* The listed visits whose reference equals the order id.
FoundByReference(o) == visits[o]

FindHit(w) ==
    /\ At(w, "find")
    /\ \E v \in FoundByReference(job[w].order) :
          Becomes(w, [job[w] EXCEPT !.pc = "complete", !.visit = v,
                               !.outcome = "recovered"])
    /\ UNCHANGED shared

FindNone(w) ==
    /\ At(w, "find")
    /\ FoundByReference(job[w].order) = {}
    /\ Becomes(w, [job[w] EXCEPT !.pc = "post", !.attempt = 1])
    /\ UNCHANGED shared

FindTransientReclaims(w) ==   \* mutant: a failed lookup starts over, without limit
    /\ At(w, "find")
    /\ Goto(w, "claim")
    /\ UNCHANGED shared

\* A timeout or a 5xx of the lookup falls through to the create call.
FindTransient(w) ==
    /\ At(w, "find")
    /\ Becomes(w, [job[w] EXCEPT !.pc = "post", !.attempt = 1])
    /\ blind' = [blind EXCEPT ![job[w].order] = @ + 1]
    /\ UNCHANGED <<rows, reviews, visits, inflight, nextVisit, begun, overlap>>

-----------------------------------------------------------------------------
(* create_visit: POST with a bounded number of attempts.  SimpliRoute       *)
(* creates one visit for every POST it executes, whatever its reference.    *)

CreateVisitFor(o) ==
    /\ visits' = [visits EXCEPT ![o] = @ \cup {nextVisit}]
    /\ nextVisit' = nextVisit + 1

PostOk(w) ==
    /\ At(w, "post")
    /\ CreateVisitFor(job[w].order)
    /\ Becomes(w, [job[w] EXCEPT !.pc = "complete", !.visit = nextVisit,
                               !.outcome = "completed"])
    /\ UNCHANGED <<rows, reviews, inflight, begun, blind, overlap>>

\* The visit is created and the body of the answer is not the JSON of a visit:
\* the exception is no SimpliRouteError, so nothing retries or records it.
PostUnreadable(w) ==
    /\ At(w, "post")
    /\ CreateVisitFor(job[w].order)
    /\ Conclude(w, "returned", "raised")
    /\ UNCHANGED <<rows, reviews, inflight, begun, blind, overlap>>

\* 4xx: PermanentSimpliRouteError is not retried.
PostRejected(w) ==
    /\ At(w, "post")
    /\ Becomes(w, [job[w] EXCEPT !.pc = "fail_permanent", !.outcome = "permanent_failed"])
    /\ UNCHANGED shared

RetryPostOneTooMany(w) ==   \* mutant: the attempt counter stops one too late
    IF job[w].attempt <= MaxAttempts
    THEN Becomes(w, [job[w] EXCEPT !.attempt = @ + 1])
    ELSE Conclude(w, "fail_transient", "transient_failed")

\* tenacity: another attempt, or the last exception surfaces.
RetryPost(w) ==
    IF job[w].attempt < MaxAttempts
    THEN Becomes(w, [job[w] EXCEPT !.attempt = @ + 1])
    ELSE Conclude(w, "fail_transient", "transient_failed")

\* SimpliRoute answers 5xx, or is not reached: no visit results.
PostRefused(w) ==
    /\ At(w, "post")
    /\ RetryPost(w)
    /\ UNCHANGED shared

\* A timeout or a broken connection: the request may have been executed or
\* may be executed later (LateArrival), and the client cannot know.
PostAbandoned(w) ==
    /\ At(w, "post")
    /\ RetryPost(w)
    /\ inflight' = [inflight EXCEPT ![job[w].order] = @ + 1]
    /\ blind' = [blind EXCEPT ![job[w].order] = @ + 1]
    /\ UNCHANGED <<rows, reviews, visits, nextVisit, begun, overlap>>

\* SimpliRoute executes a POST whose client has stopped waiting.
LateArrival(o) ==
    /\ inflight[o] > 0
    /\ inflight' = [inflight EXCEPT ![o] = @ - 1]
    /\ CreateVisitFor(o)
    /\ UNCHANGED <<rows, reviews, job, begun, blind, overlap>>

-----------------------------------------------------------------------------
(* The write of the result *)

MarkCompleted(w) ==
    /\ At(w, "complete")
    /\ rows' = [rows EXCEPT ![job[w].order] =
                    [status |-> "completed", visit |-> job[w].visit]]
    /\ Goto(w, "returned")
    /\ UNCHANGED <<reviews, visits, inflight, nextVisit, begun, blind, overlap>>

MarkFailedPermanentNoReview(w) ==   \* mutant: no manual review is recorded
    /\ At(w, "fail_permanent")
    /\ rows' = [rows EXCEPT ![job[w].order].status = "failed"]
    /\ Goto(w, "alert")
    /\ UNCHANGED <<reviews, visits, inflight, nextVisit, begun, blind, overlap>>

\* _mark_failed writes the status unconditionally and keeps the visit id.
MarkFailedPermanent(w) ==
    /\ At(w, "fail_permanent")
    /\ rows' = [rows EXCEPT ![job[w].order].status = "failed"]
    /\ Becomes(w, [job[w] EXCEPT !.pc = "review", !.reason = PermanentReason])
    /\ UNCHANGED <<reviews, visits, inflight, nextVisit, begun, blind, overlap>>

MarkFailedTransient(w) ==
    /\ At(w, "fail_transient")
    /\ rows' = [rows EXCEPT ![job[w].order].status = "failed"]
    /\ Goto(w, "alert")
    /\ UNCHANGED <<reviews, visits, inflight, nextVisit, begun, blind, overlap>>

-----------------------------------------------------------------------------
(* Leaving process_order *)

\* An exception process_order does not catch: a lookup answered 4xx or with a
\* body that is not JSON, a geocoder or database error, an alert that fails.
Raise(w) ==
    /\ job[w].pc \in BusyPcs
    /\ Conclude(w, "returned", "raised")
    /\ UNCHANGED shared

\* The caller takes the result (or the exception) and the thread is free.
Collect(w) ==
    /\ At(w, "returned")
    /\ Becomes(w, NoJob)
    /\ UNCHANGED shared

\* The process stops: every thread is gone, requests on the wire are not.
Crash ==
    /\ \E w \in Workers : ~At(w, "idle")
    /\ job' = [w \in Workers |-> NoJob]
    /\ inflight' = [o \in Orders |-> inflight[o] + Cardinality(Posting(o))]
    /\ blind' = [o \in Orders |-> blind[o] + Cardinality(Posting(o))]
    /\ UNCHANGED <<rows, reviews, visits, nextVisit, begun, overlap>>

\* Every call of the bounded behaviour has ended: stuttering, not deadlock.
Finished ==
    /\ begun = MaxBegins
    /\ \A w \in Workers : At(w, "idle")
    /\ UNCHANGED vars

-----------------------------------------------------------------------------
\* What the thread of worker w does inside process_order.
Work(w) ==
    \/ MapOk(w)
    \/ \E reason \in DataReasons : MapReview(w, reason)
    \/ ReviewLookup(w) \/ ReviewInsert(w) \/ ReviewConflict(w) \/ Alert(w)
    \/ ClaimNew(w) \/ ClaimSkip(w) \/ ClaimRetry(w)
    \/ FindHit(w) \/ FindNone(w) \/ FindTransient(w)
    \/ PostOk(w) \/ PostUnreadable(w)
    \/ PostRejected(w) \/ PostRefused(w) \/ PostAbandoned(w)
    \/ MarkCompleted(w) \/ MarkFailedPermanent(w) \/ MarkFailedTransient(w)

Next ==
    \/ \E w \in Workers, o \in Orders : Begin(w, o)
    \/ \E w \in Workers : Work(w) \/ Raise(w) \/ Collect(w)
    \/ \E o \in Orders : LateArrival(o)
    \/ Crash
    \/ Finished

Spec == Init /\ [][Next]_vars

\* A thread that runs is scheduled again: each request has a timeout, each
\* statement ends, and nothing in process_order waits for another worker.  That
\* an exception ends the call is not relied upon.
Fairness == \A w \in Workers : WF_vars(Work(w))

FairSpec == Spec /\ Fairness
-----------------------------------------------------------------------------
(* What process_order promises *)

\* The number of SimpliRoute visits of an order never exceeds one by more than
\* the times its delivery went blind (an answer or a lookup was lost) or was
\* claimed twice at once: the two-stage write, the UNIQUE claim and the lookup
\* by reference together leave no third way to a duplicate.
DuplicatesExplained ==
    \A o \in Orders : Cardinality(visits[o]) <= 1 + Excuses(o)

\* Claim before call: as soon as SimpliRoute may hold a visit of an order, or
\* may yet execute a request for one, the order has a committed row, so that
\* a later run looks the visit up instead of starting afresh.
ClaimBeforeVisit ==
    \A o \in Orders : visits[o] # {} \/ inflight[o] > 0 => rows[o].status # "none"

\* The row half of the binding: the recorded id is a visit of the row's order,
\* and a completed row has one.
RowVisitIsOwn ==
    \A o \in Orders :
       /\ rows[o].visit # NoVisit => rows[o].visit \in visits[o]
       /\ rows[o].status = "completed" => rows[o].visit # NoVisit

\* The worker half: the id a worker holds is a visit of its order.
JobVisitIsOwn ==
    \A w \in Workers :
       job[w].visit # NoVisit => job[w].visit \in visits[job[w].order]

\* A visit id bound to an order, in its row or in a worker's result, is an id
\* of a visit that carries this order's reference, and a completed row has one.
BoundVisitIsOwn == RowVisitIsOwn /\ JobVisitIsOwn

\* A call that ends with an outcome has left the record its outcome stands
\* for, whatever other workers do with the order meanwhile: a manual_review row
\* for the two outcomes an operator must act on, a visit bound to the order for
\* the three that say it has one, a failed row (or a completed one, by another
\* worker) for the two failures, so that a later run takes the order up again.
AccountedFor ==
    \A w \in Workers : At(w, "returned") =>
       LET outcome == job[w].outcome
           row == rows[job[w].order]
       IN  /\ outcome \in {"manual_review", "permanent_failed"}
                => reviews[job[w].order] # NoReason
           /\ outcome \in {"completed", "recovered", "skipped_duplicate"}
                => row.visit # NoVisit
           /\ outcome \in {"permanent_failed", "transient_failed"}
                => row.status \in {"failed", "completed"}

\* The first reason an order was flagged with is never overwritten, whichever
\* workers flag it again and whatever they race on.
FirstReasonKept ==
    [][\A o \in Orders : reviews[o] # NoReason => reviews'[o] = reviews[o]]_vars

\* A completed row is final as long as no claim of its order was granted while
\* another worker was delivering it.
CompletedIsFinal ==
    [][\A o \in Orders : rows[o].status = "completed" /\ overlap[o] = 0
          => rows'[o] = rows[o]]_vars

\* Every call of process_order ends (or its process does): the attempts of
\* create_visit are bounded and no step waits for another worker.
EveryCallReturns ==
    \A w \in Workers : job[w].pc \in BusyPcs ~> job[w].pc \notin BusyPcs

-----------------------------------------------------------------------------
(* Why it holds: the inductive invariant of the proofs *)

\* Visits are finite in number and were given ids in the order of creation.
FreshIds ==
    \A o \in Orders :
       IsFiniteSet(visits[o]) /\ \A v \in visits[o] : v < nextVisit

\* A worker about to complete a row has the visit to bind, an idle one none.
CompletersHaveVisits ==
    \A w \in Workers :
       /\ At(w, "complete") => job[w].visit # NoVisit
       /\ At(w, "idle") => job[w].visit = NoVisit

\* Nothing happens to an order before its row is committed.
UnclaimedIsUntouched ==
    \A o \in Orders : rows[o].status = "none" =>
       visits[o] = {} /\ inflight[o] = 0 /\ Delivering(o) = {}

\* Each delivery beyond the first was granted by an overlapping claim.
DeliveriesCounted ==
    \A o \in Orders : Cardinality(Delivering(o)) <= 1 + overlap[o]

\* The visits there are, those the posting workers may create and those the
\* abandoned requests may create are together within the excuses.
VisitsCounted ==
    \A o \in Orders :
       /\ inflight[o] <= blind[o]
       /\ Cardinality(visits[o]) + Cardinality(Posting(o)) + inflight[o]
             <= 1 + Excuses(o)

\* Without overlap nobody delivers an order that is completed.
CompletedIsLeft ==
    \A o \in Orders : rows[o].status = "completed" /\ overlap[o] = 0
       => Delivering(o) = {}

\* The inductive invariant: the parts above, with the types and the binding.
IInv ==
    /\ TypeOK
    /\ FreshIds
    /\ CompletersHaveVisits
    /\ UnclaimedIsUntouched
    /\ DeliveriesCounted
    /\ VisitsCounted
    /\ CompletedIsLeft
    /\ RowVisitIsOwn
    /\ JobVisitIsOwn

-----------------------------------------------------------------------------
(* What the repository says of it, and the code does not do *)

\* README: "a notification racing the cron never duplicates".  Without any
\* lost answer or failed lookup an order has at most one visit.
RacingWorkersShareOneVisit ==
    \A o \in Orders : blind[o] = 0 => Cardinality(visits[o]) <= 1
=============================================================================
