----------------------------- MODULE OrderFeed -----------------------------
(***************************************************************************)
(* Which orders a cron run gets to see, app/ml/orders.py, and what becomes *)
(* of those it has seen or not: the cursor of the last successful run, the *)
(* pages of /orders/search, the orders dropped on the way, and the calls   *)
(* of process_order from _execute and from notifications and scans.        *)
(*                                                                         *)
(* Orders are numbered as they were created, the order of the listing.     *)
(* Time is counted in ticks of one clock; Mercado Libre stamps an update   *)
(* with a time up to Skew ticks behind it.  process_order is reduced to    *)
(* its outcome: Processor has its steps.                                   *)
(***************************************************************************)
EXTENDS Integers, Sequences, FiniteSets

CONSTANTS
    Orders,     \* the seller's orders
    Runs,       \* runs that may be under way at once
    PageSize,   \* PAGE_SIZE
    Overlap,    \* CURSOR_OVERLAP
    Lookback,   \* DEFAULT_LOOKBACK
    Skew,       \* how far Mercado Libre's stamps may lag
    MaxTime,    \* bound on the clock
    MaxFaults   \* bound on the runs that fail and the crashes

ASSUME OrdersAssumption == Orders \subseteq Nat /\ IsFiniteSet(Orders)
ASSUME PageAssumption   == PageSize \in Nat \ {0}
ASSUME WindowAssumption == /\ Overlap \in Nat /\ Lookback \in Nat
                           /\ Skew \in 0..Overlap
ASSUME BoundsAssumption == MaxTime \in Nat /\ MaxFaults \in Nat

VARIABLES
    now,        \* the clock
    stage,      \* Mercado Libre: is the order placed, listed by the search, gone
    kind,       \* its shipment: Flex, another, or none yet
    updated,    \* its date_last_updated
    fate,       \* what processed_orders and manual_review say of the order
    successes,  \* started_at of the cron_runs rows with status success
    run,        \* per run, where it is
    faults,     \* failed runs and crashes so far
    horizon,    \* history: the last `since` for want of a successful run
    shifted,    \* history: orders that moved onto a page a run had taken
    stray       \* history: claims cut off where the next run may not look

vars == <<now, stage, kind, updated, fate, successes, run, faults,
          horizon, shifted, stray>>
shop == <<stage, kind, updated>>

-----------------------------------------------------------------------------
Times  == 0..MaxTime
Stamps == -Skew..MaxTime
Sinces == -(IF Lookback > Overlap THEN Lookback ELSE Overlap)..MaxTime

Stages == {"absent", "placed", "listed", "gone"}
Kinds  == {"flex", "other", "none"}

\* "flagged": dropped without a shipment; "pending": claimed; "unlocated": no
\* coordinates found; "recorded": row failed, or any other manual review.
Fates == {"none", "flagged", "pending", "unlocated", "recorded", "completed"}

\* What process_order returns, but for an order that is completed already.
Outcomes == {"completed", "recorded", "unlocated"}

Pcs  == {"idle", "cursor", "search", "take", "process"}
Jobs == [pc : Pcs, started : Times, since : Sinces, offset : Nat,
         page : SUBSET Orders,     \* the page, without the orders dealt with
         bare : SUBSET Orders,     \* those of it without a shipment id
         more : BOOLEAN,           \* paging.total promises another page
         fetched : Seq(Orders)]    \* FetchSummary.fetched, still to process
NoJob == [pc |-> "idle", started |-> 0, since |-> 0, offset |-> 0, page |-> {},
          bare |-> {}, more |-> FALSE, fetched |-> <<>>]

At(r, p) == run[r].pc = p

TypeOK ==
    /\ now \in Times
    /\ stage \in [Orders -> Stages]
    /\ kind \in [Orders -> Kinds]
    /\ updated \in [Orders -> Stamps]
    /\ fate \in [Orders -> Fates]
    /\ successes \subseteq Times
    /\ run \in [Runs -> Jobs]
    /\ faults \in 0..MaxFaults
    /\ horizon \in Sinces
    /\ shifted \subseteq Orders
    /\ stray \subseteq Orders

Init ==
    /\ now = 0
    /\ stage = [o \in Orders |-> "absent"]
    /\ kind = [o \in Orders |-> "none"]
    /\ updated = [o \in Orders |-> 0]
    /\ fate = [o \in Orders |-> "none"]
    /\ successes = {}
    /\ run = [r \in Runs |-> NoJob]
    /\ faults = 0
    /\ horizon = 0
    /\ shifted = {}
    /\ stray = {}

-----------------------------------------------------------------------------
(* /orders/search *)

\* The orders in the trigger status that were updated since then, and the
\* position of one among them.
Listing(since) == {o \in Orders : stage[o] = "listed" /\ updated[o] >= since}
Rank(o, since) == Cardinality({p \in Listing(since) : p < o})

Page(since, offset) ==
    {o \in Listing(since) : Rank(o, since) >= offset /\ Rank(o, since) < offset + PageSize}

\* How much of the listing run r has taken, while it wants more.
Passed(r) ==
    CASE At(r, "search")               -> run[r].offset
      [] At(r, "take") /\ run[r].more  -> run[r].offset + PageSize
      [] OTHER                         -> 0

\* If o leaves the listing, the first order of r's next page moves to the end
\* of the last one.
ShiftedBy(o, r) ==
    LET since == run[r].since
    IN  IF o \in Listing(since) /\ Rank(o, since) < Passed(r)
        THEN {p \in Listing(since) : Rank(p, since) = Passed(r)}
        ELSE {}

-----------------------------------------------------------------------------
(* Mercado Libre and the clock *)

Tick ==
    /\ now < MaxTime
    /\ now' = now + 1
    /\ UNCHANGED <<shop, fate, successes, run, faults, horizon, shifted, stray>>

\* An update of o is stamped, never with a time before that of the last one.
Stamp(o) == \E d \in 0..Skew :
    /\ stage[o] = "listed" => now - d >= updated[o]
    /\ updated' = [updated EXCEPT ![o] = now - d]

\* An order is placed; it enters the trigger status now or later.
Place(o) ==
    /\ stage[o] = "absent"
    /\ stage' = [stage EXCEPT ![o] = "placed"]
    /\ \E k \in Kinds : kind' = [kind EXCEPT ![o] = k]
    /\ UNCHANGED <<now, updated, fate, successes, run, faults, horizon, shifted, stray>>

EnterTrigger(o) ==
    /\ stage[o] = "placed"
    /\ stage' = [stage EXCEPT ![o] = "listed"]
    /\ Stamp(o)
    /\ UNCHANGED <<now, kind, fate, successes, run, faults, horizon, shifted, stray>>

\* Any update of a listed order; it may bring the shipment.
Update(o) ==
    /\ stage[o] = "listed"
    /\ kind' \in {kind, [kind EXCEPT ![o] = IF @ = "none" THEN "flex" ELSE @]}
    /\ Stamp(o)
    /\ UNCHANGED <<now, stage, fate, successes, run, faults, horizon, shifted, stray>>

\* The order is cancelled, or no longer ready to ship.
LeaveTrigger(o) ==
    /\ stage[o] = "listed"
    /\ stage' = [stage EXCEPT ![o] = "gone"]
    /\ shifted' = shifted \cup UNION {ShiftedBy(o, r) : r \in Runs}
    /\ UNCHANGED <<now, kind, updated, fate, successes, run, faults, horizon, stray>>

-----------------------------------------------------------------------------
(* A run *)

Becomes(r, j) == run' = [run EXCEPT ![r] = j]

Start(r) ==
    /\ At(r, "idle")
    /\ Becomes(r, [NoJob EXCEPT !.pc = "cursor", !.started = now])
    /\ UNCHANGED <<now, shop, fate, successes, faults, horizon, shifted, stray>>

\* LockNotAcquired: the run is recorded as skipped, before it has a cursor.
\* SyncRun says when; a lock that was left behind refuses run after run.
Refuse(r) ==
    /\ At(r, "cursor")
    /\ Becomes(r, NoJob)
    /\ UNCHANGED <<now, shop, fate, successes, faults, horizon, shifted, stray>>

Latest(S) == CHOOSE t \in S : \A u \in S : u <= t

CursorFurtherBack ==   \* mutant: the overlap is taken off the lookback too
    (IF successes = {} THEN now - Lookback ELSE Latest(successes)) - Overlap

\* get_cursor.
Cursor ==
    IF successes = {} THEN now - Lookback ELSE Latest(successes) - Overlap

ReadCursor(r) ==
    /\ At(r, "cursor")
    /\ Becomes(r, [run[r] EXCEPT !.pc = "search", !.since = Cursor])
    /\ horizon' = IF successes = {} THEN Cursor ELSE horizon
    /\ UNCHANGED <<now, shop, fate, successes, faults, shifted, stray>>

\* One page of _iterate_orders; a page without results is the last.
Search(r) ==
    /\ At(r, "search")
    /\ LET since  == run[r].since
           page   == Page(since, run[r].offset)
           beyond == run[r].offset + PageSize < Cardinality(Listing(since))
       IN  Becomes(r, [run[r] EXCEPT !.pc = "take", !.page = page,
                                     !.bare = {o \in page : kind[o] = "none"},
                                     !.more = beyond /\ page # {}])
    /\ UNCHANGED <<now, shop, fate, successes, faults, horizon, shifted, stray>>

First(S) == CHOOSE o \in S : \A p \in S : o <= p

\* The next order of the page: flagged if it has no shipment (unless it has a
\* review already), kept if the shipment is Flex, else dropped.
Take(r) ==
    /\ At(r, "take")
    /\ run[r].page # {}
    /\ LET o    == First(run[r].page)
           keep == o \notin run[r].bare /\ kind[o] = "flex"
       IN  /\ Becomes(r, [run[r] EXCEPT
                            !.page = @ \ {o}, !.bare = @ \ {o},
                            !.fetched = IF keep THEN Append(@, o) ELSE @])
           /\ fate' = [fate EXCEPT ![o] =
                         IF o \in run[r].bare /\ @ = "none" THEN "flagged" ELSE @]
    /\ UNCHANGED <<now, shop, successes, faults, horizon, shifted, stray>>

\* The iteration is over.
Iterated(r) == [NoJob EXCEPT !.pc = "process", !.started = run[r].started,
                             !.since = run[r].since, !.fetched = run[r].fetched]

TurnPageOnce(r) ==   \* mutant: only the first page is read
    /\ At(r, "take")
    /\ run[r].page = {}
    /\ Becomes(r, Iterated(r))
    /\ UNCHANGED <<now, shop, fate, successes, faults, horizon, shifted, stray>>

TurnPage(r) ==
    /\ At(r, "take")
    /\ run[r].page = {}
    /\ Becomes(r, IF run[r].more
                  THEN [run[r] EXCEPT !.pc = "search", !.offset = @ + PageSize]
                  ELSE Iterated(r))
    /\ UNCHANGED <<now, shop, fate, successes, faults, horizon, shifted, stray>>

\* process_order leaves a completed order alone.
After(o, outcome) == [fate EXCEPT ![o] = IF @ = "completed" THEN @ ELSE outcome]

\* What an exception or a crash inside process_order leaves: a claim at most,
\* of each of the orders that are processed at once.
Unfinished(S) ==
    {[o \in Orders |-> IF o \in C /\ fate[o] # "completed" THEN "pending" ELSE fate[o]] :
        C \in SUBSET S}

\* A run that has read its cursor.
Active(r) == run[r].pc \in {"search", "take", "process"}

Delivers(r, o) == At(r, "process") /\ run[r].fetched # <<>> /\ o = Head(run[r].fetched)

\* History: claims that are left now, while one of the runs that go on is under
\* way, or when the cursor had passed the order: unless it was the run's own
\* order, and no other run has moved the cursor since.
Missed(others) ==
    {o \in Orders :
        /\ fate[o] # "pending" /\ fate'[o] = "pending"
        /\ \/ \E q \in others : Active(q)
           \/ /\ updated[o] < Cursor
              /\ ~ \E r \in Runs : Delivers(r, o) /\ (successes = {} \/ run[r].since = Cursor)}

Process(r) ==
    /\ At(r, "process")
    /\ run[r].fetched # <<>>
    /\ \E outcome \in Outcomes : fate' = After(Head(run[r].fetched), outcome)
    /\ Becomes(r, [run[r] EXCEPT !.fetched = Tail(@)])
    /\ stray' = stray \ {Head(run[r].fetched)}
    /\ UNCHANGED <<now, shop, successes, faults, horizon, shifted>>

FinishNow(r) ==   \* mutant: the run is dated by its end
    /\ At(r, "process")
    /\ run[r].fetched = <<>>
    /\ successes' = successes \cup {now}
    /\ Becomes(r, NoJob)
    /\ UNCHANGED <<now, shop, fate, faults, horizon, shifted, stray>>

\* A run that has processed its orders is a success, whatever their outcomes.
Finish(r) ==
    /\ At(r, "process")
    /\ run[r].fetched = <<>>
    /\ successes' = successes \cup {run[r].started}
    /\ Becomes(r, NoJob)
    /\ UNCHANGED <<now, shop, fate, faults, horizon, shifted, stray>>

FailCounted(r) ==   \* mutant: a failed run moves the cursor
    /\ ~At(r, "idle")
    /\ faults < MaxFaults /\ faults' = faults + 1
    /\ successes' = successes \cup {run[r].started}
    /\ Becomes(r, NoJob)
    /\ UNCHANGED <<now, shop, fate, horizon, shifted, stray>>

\* Any call of the run raises; the row is written failed, or stays running.
Fail(r) ==
    /\ ~At(r, "idle")
    /\ faults < MaxFaults /\ faults' = faults + 1
    /\ fate' \in Unfinished({o \in Orders : Delivers(r, o)})
    /\ stray' = stray \cup Missed(Runs \ {r})
    /\ Becomes(r, NoJob)
    /\ UNCHANGED <<now, shop, successes, horizon, shifted>>

-----------------------------------------------------------------------------
(* Notifications and scans, and the process *)

\* fetch_order_by_id and fetch_order_by_shipment look at the shipment alone.
Deliverable(o) == stage[o] # "absent" /\ kind[o] = "flex"

OnDemand(o) ==
    /\ Deliverable(o)
    /\ \E outcome \in Outcomes : fate' = After(o, outcome)
    /\ stray' = stray \ {o}
    /\ UNCHANGED <<now, shop, successes, run, faults, horizon, shifted>>

\* Its exception ends a notification or a scan, and nothing else.
OnDemandFails(o) ==
    /\ Deliverable(o)
    /\ faults < MaxFaults /\ faults' = faults + 1
    /\ fate' \in Unfinished({o})
    /\ stray' = stray \cup Missed(Runs)
    /\ UNCHANGED <<now, shop, successes, run, horizon, shifted>>

\* The process dies, with every run, while orders may be in process_order.
Crash ==
    /\ faults < MaxFaults /\ faults' = faults + 1
    /\ fate' \in Unfinished({o \in Orders : Deliverable(o)})
    /\ stray' = stray \cup Missed({})
    /\ run' = [r \in Runs |-> NoJob]
    /\ UNCHANGED <<now, shop, successes, horizon, shifted>>

RunStep(r) ==
    \/ Start(r) \/ Refuse(r) \/ ReadCursor(r) \/ Search(r) \/ Take(r) \/ TurnPage(r)
    \/ Process(r) \/ Finish(r)

Next ==
    \/ Tick
    \/ \E o \in Orders :
          \/ Place(o) \/ EnterTrigger(o) \/ Update(o) \/ LeaveTrigger(o)
          \/ OnDemand(o) \/ OnDemandFails(o)
    \/ \E r \in Runs : RunStep(r) \/ Fail(r)
    \/ Crash

Spec == Init /\ [][Next]_vars

\* Railway posts /internal/run every twenty minutes, and a run that does not
\* raise ends: its requests have timeouts.  Whether the lock lets it in is not
\* a matter of fairness: every run may be refused.
FairSpec == Spec /\ \A r \in Runs : WF_vars(RunStep(r))
-----------------------------------------------------------------------------
(* What the feed promises *)

\* An order the service owes something and has no record of: a Flex order it
\* has not processed, or whose processing was cut off after the claim (but for
\* a stray one), or one without a shipment it has not flagged.
Untraced(o) ==
    /\ stage[o] = "listed"
    /\ \/ kind[o] = "flex" /\ fate[o] \in {"none", "flagged"}
       \/ kind[o] = "flex" /\ fate[o] = "pending" /\ o \notin stray
       \/ kind[o] = "none" /\ fate[o] = "none"

\* The oldest update that runs without a successful run before them look at.
Horizon == IF successes = {} THEN now - Lookback ELSE horizon

\* The cursor never passes an order without a record: the next run lists every
\* untraced order, but for those older than the first runs looked back and those
\* that crossed a page boundary when an order before them left the listing.
\* Slow runs, overlapping runs, failed runs, late stamps and shipments that
\* come later lose none, nor does a run cut off between claim and visit.
NothingPassedUnseen ==
    \A o \in Orders :
       Untraced(o) /\ updated[o] >= Horizon /\ o \notin shifted => updated[o] >= Cursor

\* The lock lets runs in, again and again (lock.py): nothing in the code sees
\* to that, as a lock that leaked refuses every run until a restart.
RunsAreAdmitted == []<>(\E r \in Runs : Active(r))

\* As long as it does, and with finitely many failures, every such order gets
\* a record: the retry path through the listing never starves an order.
EverySaleTraced ==
    RunsAreAdmitted =>
       \A o \in Orders :
          Untraced(o) ~> ~Untraced(o) \/ updated[o] < Horizon \/ o \in shifted

\* geocoder/service.py: "negative results are NOT cached; the order will be
\* retried next run".
UnlocatedIsRetried ==
    \A o \in Orders : stage[o] = "listed" /\ fate[o] = "unlocated" => updated[o] >= Cursor
=============================================================================
