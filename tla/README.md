# Verification of the Mercado Libre Flex to SimpliRoute integration

TLA+ models of the service under `src/app`, checked with TLC on small
instances and, where marked, proved with TLAPS for every instance.

## 1. The system

A single FastAPI process (`uvicorn --workers 1`) polls Mercado Libre (ML) for
Flex orders and creates one SimpliRoute visit per order.  Its endpoints are
synchronous functions in a thread pool, its webhooks background tasks, so
several requests run at once over one PostgreSQL database.

| component | state it keeps | operations | talks to |
|---|---|---|---|
| order processor (`scheduler/processor.py`) | `processed_orders`, `manual_review` | `process_order`: map, geocode, claim, look up, create, record | SimpliRoute client, geocoder, alerts |
| SimpliRoute client (`simpliroute/client.py`) | none; the visits are remote | `create_visit` (bounded retries), `find_visit_by_reference` | SimpliRoute HTTP API |
| cron run and lock (`scheduler/job.py`, `lock.py`, `core/db.py`) | `cron_runs`, the advisory lock of a pooled connection | `run_sync`, `_execute` | fetching, processor, alerts |
| on-demand entry (`scheduler/ondemand.py`, `routes.py`, `ml/webhooks.py`) | none | scan, notification | ML API, processor |
| fetching and cursor (`ml/orders.py`, `ml/api.py`) | `manual_review`, the cursor read from `cron_runs` | `get_cursor`, `fetch_new_orders` | ML API, token store |
| token store (`ml/oauth.py`, `ml/routes.py`) | `oauth_tokens` | exchange, refresh, persist, read | ML OAuth server |
| alerts and watchdogs (`alerts/`, `scheduler/watchdog.py`) | `alert_dedup` | `send_alert`, cron and token checks | Telegram |
| geocoder (`geocoder/`) | `geocoding_cache` | `resolve` with read-through cache | Google, Nominatim |
| mapping (`core/transform.py`, `core/address.py`) | none | `map_order_to_visit`, `normalize_address` | |
| web pages, health, configuration, migrations | none of their own | read-only | |

What is hard here is the order of steps that no test exercises: two threads
on one order, a request whose answer is lost, a crash between the remote write
and its record, a lock that belongs to a connection and not to a session.
`PROJECT.json` lists these hazards by line, with the properties that cover them.

What makes each component correct:

* processor: an order gets one visit unless something it cannot know happened;
  a row is bound to its own visit; completion and the first review reason stay;
  every call ends and leaves a record of its outcome.
* cron run: one run at a time holds the lock; every run row leaves `running`;
  a lock does not outlive its run.
* fetching: an order that appeared since the last success is listed or flagged;
  the cursor never passes an order no run has seen.
* token store: the refresh token in use is the one that is persisted.
* alerts: no two alerts of a key within the window, and none lost for longer.
* geocoder: an address is paid for once, gets one verdict, and every call ends.
* mapping and entry points: what is sent can be driven to and is what was asked
  for, a review names a defect the data has, and a call that leaves neither a
  row nor a review has a cause that its end names.

## 2. Modules

| module | what it is |
|---|---|
| `Processor` | `process_order` with the SimpliRoute client: the core |
| `Delivery` | abstract specification: visits, bindings and excuses of an order |
| `ProcessorRefinement` | the mapping under which `Processor` implements `Delivery` |
| `SyncRun` | `run_sync` under the advisory lock and the connection pool |
| `TokenStore` | the token pair, Mercado Libre's token endpoint, transactions of the callers |
| `OrderFeed` | the cursor, the pages of the search, and what becomes of each order |
| `Alerts` | `send_alert`, its deduplication table, the cron watchdog |
| `GeocodeCache` | `resolve` with its cache, both backends and the rate limit, and the verdict on an order |
| `Mapping` | from an order and its shipment to a visit, as operators |
| `Intake` | one notification, scan or run to its end: routing, fetching, mapping, locating, the claim, the body that is posted, the outcome |
| `ProcessorProofs`, `OutcomeProofs` | theorems about `Processor` |
| `SyncRunProofs`, `TokenStoreProofs`, `OrderFeedProofs`, `AlertsProofs`, `GeocodeCacheProofs`, `IntakeProofs` | theorems about the others |
| `MCProcessor`, `MCSyncRun`, `MCTokenStore`, `MCOrderFeed`, `MCAlerts`, `MCGeocodeCache`, `MCIntake` | instances for TLC |

The modules meet where one component calls another, and each replaces the other
side by all it can answer: `SyncRun` reduces the batch to its commits and
exceptions, `OrderFeed` reduces `process_order` to its outcomes and to the
claim an exception leaves, `TokenStore` reduces the work of a request to its
commits and its end, `Processor` takes its calls from anyone at any time.
`Intake` follows one call through all of them to its end: from the claim on its
actions are those of `Processor` for one worker, with the attempts of
`create_visit` as one; its `Located` and `NotLocated` are the verdicts of
`GeocodeCache`, its `CacheRaises` that module's `InsertConflict` and `Deadlock`;
`Processor` reduces mapping and locating to `MapOk` and `MapReview`, and
`OrderFeed` reduces `SyncRun` to runs that are let in or refused.  An
operator with the comment `mutant` is a faulty variant of a definition that
follows it, to show that the properties notice; no specification uses it.

### Processor

A worker is one thread inside `process_order`, whoever called it.  A step is
what a worker does between two points where another thread can see a
difference: a committed transaction, one lookup, one HTTP request.

| variable | code |
|---|---|
| `rows[o]` | the `processed_orders` row: `status` and `simpliroute_visit_id` |
| `reviews[o]` | the reason in the order's `manual_review` row |
| `visits[o]` | SimpliRoute's visits whose `reference` is the order id |
| `inflight[o]` | POSTs whose client stopped waiting and which may still execute |
| `job[w]` | locals of the call: program counter, order, attempt, visit id, reason, outcome |
| `blind[o]`, `overlap[o]` | history: lost answers and failed lookups; claims granted during a delivery |
| `begun` | calls so far, bounded by `MaxBegins` |

| action | code |
|---|---|
| `Begin`, `Collect` | the call from `_execute` or `ondemand._run`, and its return |
| `MapOk`, `MapReview` | mapping and geocoding succeed, or name a reason |
| `ReviewLookup`, `ReviewInsert`, `ReviewConflict` | `_record_manual_review`: SELECT, INSERT, and the INSERT that violates the unique constraint |
| `ClaimNew`, `ClaimSkip`, `ClaimRetry` | `_claim_or_retry` |
| `FindHit`, `FindNone`, `FindTransient` | `find_visit_by_reference` on the retry path |
| `PostOk`, `PostUnreadable`, `PostRejected`, `PostRefused`, `PostAbandoned` | one attempt of `create_visit`: answered, answered with no JSON, 4xx, 5xx or unreachable, timed out |
| `LateArrival` | SimpliRoute executes an abandoned POST |
| `MarkCompleted`, `MarkFailedPermanent`, `MarkFailedTransient` | the writes of the result |
| `Alert`, `Raise`, `Crash` | an alert, an uncaught exception, the death of the process |

Abstractions.  Timestamps, error texts and the retry counter of a row are left
out.  `_mark_completed` and `_mark_failed` are a SELECT and an UPDATE of the
changed columns; the pair is one step because any interleaving of two of them
ends in a state that one of the two orders also reaches.  The failed INSERT and
the SELECT of `_claim_or_retry` are one step because no row is deleted.
SimpliRoute is assumed to answer a created visit with its id, and to list on
the first page the visits of the reference it is asked for; it may list others
too, and the filter in the client is modelled.  A 5xx is taken to mean that no
visit was created; a gateway that answers 504 after executing the request is
`PostAbandoned`.

### Delivery

Four variables: what SimpliRoute holds of an order, the next id, what the
service has bound, and the excuses.  `Create` needs as many excuses as there
are visits; `Bind` needs a visit of the order; `Excuse` is what the service
cannot prevent.  Under the mapping an excuse is a blind event or an
overlapping claim, so the refinement says exactly which events can lead to a
duplicate and that nothing else can.

### SyncRun

A session owns a connection for the length of a transaction only: `commit`
gives it to the end of the pool's queue, the next statement takes the one at
the front.  PostgreSQL's advisory lock stays with the connection.

| variable | code |
|---|---|
| `status[r]`, `result[r]` | `cron_runs.status`, and the status the run is about to write |
| `pc[r]`, `left[r]` | where `run_sync` is; commits its batch has still to do |
| `conn[s]`, `pool` | the connection each session has checked out; the idle queue |
| `held[c]` | how often PostgreSQL has granted the lock to the connection |
| `grant`, `moved`, `dropped` | history: where a run got the lock; the events that parted a lock from its run |
| `served` | transactions of other requests, bounded by `MaxOthers` |

| action | code |
|---|---|
| `Start`, `Insert` | the request; the `running` row and its commit |
| `Connect`, `OtherConnects` | the checkout of the next statement, of a run or of another request |
| `LockGranted`, `LockRefused` | `advisory_lock`: entered, or `LockNotAcquired` |
| `Commit` | a commit inside the locked block |
| `LeaveBlock`, `Unlock` | the end of the batch, or an exception; the `finally` clause |
| `Record`, `Alert`, `Leave` | the final commit, the failure alert, the end of `session_scope` |
| `DatabaseError` | a failed statement: everything up to the end of the session fails too |
| `PoolTimeout` | no connection within `pool_timeout`, and the handlers that go on |
| `OtherCommits`, `Restart` | another request gives its connection back; the process stops |

Abstractions.  A statement is a checkout and what it does.  PostgreSQL itself
does not restart, and connections are not recycled by age.  The run's alert is
one transaction; `Alerts` has its steps.

### TokenStore

Mercado Libre honours only the last refresh token it issued; tokens are
numbered as they are issued.

| variable | code |
|---|---|
| `live` | Mercado Libre: the token it honours |
| `row`, `usable` | the committed `oauth_tokens` row: its refresh token, and if its access token outlives the leeway |
| `writer` | the session whose flushed UPDATE is not committed (PostgreSQL's row lock) |
| `job[s]` | the request: its kind, where it is, the refresh token it has read, the one it has got |
| `lost`, `clash` | history: tokens that went with a request; exchanges made while another session held one |

| action | code |
|---|---|
| `Begin` | a run, a notification or scan, the weekly check, the callback |
| `ReadStale` | `get_valid_access_token` with an expiring token |
| `RefreshOk`, `RefreshRejected`, `RefreshUnanswered` | `refresh_access_token`: a pair, `invalid_grant`, no usable answer |
| `ExchangeOk`, `ExchangeFails` | `exchange_code_for_token` |
| `Store` | `persist_token`: the flushed UPDATE, which waits for another's row lock |
| `CommitMidway`, `CommitAtEnd` | a commit of `process_order`; the end of the request or of a failed run |
| `Succeed`, `Fail`, `RollBack`, `DatabaseError`, `Crash` | how a request ends, and what is undone |
| `Expire` | time passes |

Abstractions.  The application has been authorized once, so the row exists.  A
new authorization revokes the old refresh token.  A use of a valid token
changes nothing and is no step.  The alert of the weekly check is in `Alerts`.

### OrderFeed

Time is counted in ticks of one clock.  Orders are numbered in the order of the
listing, so a page is a set of ranks and needs no sequence.

| variable | code |
|---|---|
| `now` | the clock |
| `stage`, `kind`, `updated` | Mercado Libre: placed, listed or gone; the shipment; `date_last_updated` |
| `fate[o]` | what `processed_orders` and `manual_review` say of the order |
| `successes` | `started_at` of the successful `cron_runs` rows |
| `run[r]` | locals of the run: cursor, offset, page, what it has fetched |
| `faults` | failed runs and crashes, bounded by `MaxFaults` |
| `horizon`, `shifted` | history: how far back the first run looked; orders that moved onto a page already read |
| `stray` | history: claims cut off where the next run may not look (below) |

| action | code |
|---|---|
| `Place`, `EnterTrigger`, `Update`, `LeaveTrigger`, `Tick` | Mercado Libre and time |
| `Start`, `Refuse`, `ReadCursor` | the run's row; `LockNotAcquired`, which ends the run as skipped; `get_cursor` |
| `Search` | one request of `_iterate_orders` |
| `Take` | one order of the page: flagged, fetched or dropped |
| `TurnPage` | the next offset, or the end of the iteration |
| `Process` | one call of `process_order`, by its outcome |
| `Finish`, `Fail`, `Crash` | success with its start as the next cursor; an exception; the death of the process |
| `OnDemand`, `OnDemandFails` | a notification or scan of one order, and one that raises |

A claim cut off.  An exception in `process_order` may leave the claim of its
order, and a crash those of all the orders in process (`Unfinished`).  A run
that fails leaves the cursor where it was, so the next one lists the order
again, and `NothingPassedUnseen` and `EverySaleTraced` ask for that.  `stray`
names the claims for which it cannot be asked (`Missed`): those left while
another run is under way, which may have passed the order and may succeed, and
those of an order the cursor has passed already, as a notification or a scan of
an old order has.  The next completed call for the order ends it.

Abstractions.  A listing is sorted by creation, as the search asks.  Orders
leave it by cancellation or shipping and do not return.  Stamps lag by at most
`Skew`, which is no more than the overlap.  A review is a fate of the order,
not a row of its own.

### Alerts

| variable | code |
|---|---|
| `now`, `success` | the clock; `finished_at` of the last successful run |
| `row[k]` | `alert_dedup.last_sent_at` of the key |
| `job[s]` | the call: before Telegram, before the write; its time stamp; if there was a row |
| `began`, `repeated`, `overlapped`, `unrecorded`, `raised` | history |

| action | code |
|---|---|
| `Trigger`, `Watch` | a trigger helper; `check_cron_health` when the last success is too old |
| `Suppress`, `Admit` | the two ways `send_alert` goes on after its SELECT |
| `Post` | `telegram.post_message` |
| `Record`, `RecordConflict` | the write and its commit; the INSERT that violates the unique key |
| `RunSucceeds`, `Tick`, `Crash` | the world around |

Abstractions.  Message texts are left out.  Keys stand for incidents: two
errors that share a key are the same incident.  The limit of the watchdog is
assumed to be no shorter than the window, as configured (45 and 15 minutes),
and `OutageHasOwnAlert` needs it.  What Telegram answers makes no difference:
the row is written either way.

### GeocodeCache

A session is a request or a run; it resolves one address after the other.

| variable | code |
|---|---|
| `backend` | `settings.geocoder_backend`, read when the process starts |
| `cache[k]` | the committed `geocoding_cache` row of the address |
| `draft[s][k]` | the row the session has flushed and not committed |
| `job[s]` | locals of `resolve` and of the backend: where it is, the address, the answer, the rest of the sleep, the last verdict |
| `since` | the clock against `_last_call_ts`, up to the interval |
| `begun` | calls so far, bounded by `MaxResolves` |
| `asked[k]`, `overlap[k]`, `wasted[k]`, `crowd`, `bursts` | history: requests; misses beside another session; requests without a committed answer; waits begun beside another; requests too close to the last |

| action | code |
|---|---|
| `Resolve`, `Hit`, `Miss` | the call and its first SELECT |
| `Limit`, `Wake`, `Tick` | `_respect_rate_limit`: the wait is computed, slept, and stamped |
| `Found`, `NotFound`, `BackendRaises` | Google or Nominatim answers, has no result, or raises |
| `CheckRow` | the second SELECT of `_store_cache` |
| `Insert`, `Update`, `InsertConflict` | the flush, which waits for another's uncommitted row, and the violated unique constraint |
| `Deadlock` | PostgreSQL ends one of the sessions that wait for each other |
| `Commit`, `RollBack`, `Crash` | the transaction of the request ends; the process stops and starts with either backend |

Abstractions.  Confidences are in tenths and exact: 0.6 less 0.2 is 0.4.  An
address is what its hash keeps of it, which ignores case and spacing.  Nobody
oversleeps, which only makes bursts likelier.

### Mapping and Intake

A text of the payload has a form (absent, blank, a text, no string at all) and a
word, which stands for it up to what cleaning removes: spacing, letter forms,
abbreviations.  Regular expressions are what they find: the floor and the
apartment a comment names are fields of their own, a label is its runs of
digits and its keys.  An order and a shipment have the structure Mercado Libre
documents; which shipment belongs to which order, and which of the two has the
address, is free.

| operator | code |
|---|---|
| `CleanText`, `Coordinate`, `Normalize`, `FullLine`, `Unreadable` | `core/address.py`: what cleaning finds, and when it raises |
| `AddressSource`, `ReceiverName`, `Phone`, `ItemsSummary`, `WindowStart`, `MapOrderToVisit` | `core/transform.py` |
| `Render` | `_render_visit_payload` |
| `ParseFlexQr` | `ml/flex_label.py`: a number alone, a key of an object, the first run of six digits |

| variable | code |
|---|---|
| `shop` | Mercado Libre's orders and shipments |
| `seller` | if `ml_seller_id` is configured |
| `call` | the call: entry point, number, label, what was fetched, the visit, the body posted, the order's `processed_orders` row as it last saw it, the reason of its review, the result, and who an exception comes from |

| action | code |
|---|---|
| `NotifyIgnored`, `NotifySkipped`, `NotifyAccepted`, `StartTask` | the webhook, and its background task |
| `Scan`, `RunUnconfigured`, `RunLists` | the scan's number or label; a run, as it comes to an order |
| `FetchOrder`, `FetchItsShipment`, `FetchShipment`, `FetchItsOrder`, `FetchUnknown`, `FetchFails`, `TokenRaises` | the requests of `ml/orders.py`; the token that is read and written before each |
| `MapRaises`, `MapReview`, `MapVisit` | `map_order_to_visit` |
| `Located`, `NotLocated`, `LocateRaises`, `CacheRaises` | `_resolve_coordinates`: found, a reason, no answer of the backend, an exception of this service's own cache |
| `AlreadySent`, `ClaimNew`, `ClaimRetry`, `Recovered`, `FindNone` | `_claim_or_retry`; the lookup on the retry path |
| `Post`, `Completed`, `Exhausted`, `Rejected`, `FlagRejected`, `AlertSent` | `create_visit`, and the three ways it ends, each with its writes, alert and outcome |
| `SimpliRouteRaises`, `RecordRaises`, `Crash` | a lookup refused or an answer unread; a write or alert that fails; a stop |

A result is the outcome `process_order` returns, what ended the call before it,
or `raised` or `lost`.  What is committed stays when a call raises or is lost, so
`row` and `reason` outlive it.  `fault` tells Mercado Libre, the geocoder and
SimpliRoute apart from the database and from the code itself (`none`).

A cleaned word is not spelled out; of the abbreviations, "Nº" is never expanded,
as NFKC has made "No" of it by then.  The buyer's profile is never filled in.

## 3. Runs

| run | instance | shows |
|---|---|---|
| `orders` | 2 orders, 2 workers, 2 attempts, 3 calls | every safety and action property of `Processor`, the inductive invariant and the refinement, under every race, fault and crash |
| `live` | 1 order, 2 workers, 3 attempts, 2 calls | every call of `process_order` ends |
| `runs` | 2 runs, 1 other session, 2 connections, a queue of 1 | runs meet, or are turned away, only after an event that parted a lock from its run; every run ends |
| `requests` | 2 requests, 4 tokens | the chain, the explained rejections, the row that moves forward, every request ends |
| `window` | 2 orders on 2 pages, 1 run at a time, 2 ticks, lagging stamps, no fault | the cursor passes no order without a record, except over a page boundary |
| `feed_live` | 1 order, 2 runs at once, 1 tick, 2 faults | the same with overlapping runs and claims cut off, and every order gets a record as long as runs keep being admitted |
| `alerts` | 2 threads, 2 keys, 6 ticks, window and limit of 2 | bounded silence, explained repetitions and exceptions, an alert for each outage |
| `geocoding` | 2 sessions, 2 addresses, both backends, 4 calls | a repeated request, a conflict, a second verdict and a burst each have a cause; committed answers stay; every call ends although flushes wait for each other |
| `intake` | some 600 shops of 2 orders and 2 shipments, 11 labels, all ends of a call | what is posted is deliverable and what was asked for, reviews name real defects, and a call that leaves neither a row nor a review stopped before its claim for a cause that is there |

Three runs end in a violation: what the repository says and the code does not do.

| run | who says it | what happens |
|---|---|---|
| `racing` | README, "a notification racing the cron never duplicates" | both post: only `run_sync` takes the lock, and a pending row is granted to anyone |
| `two_runs` | `lock.py`, "only one worker is processing orders at a time" | the first commit of a run returns the connection with the lock, a second run checks it out and is granted the lock again |
| `unlocated` | `geocoder/service.py`, "the order will be retried next run" | the run is a success, and the cursor passes the order |

Met on the way, and without a run of their own: `service.py` says a suppressed
alert refreshes its time stamp (it does not; `SilenceIsBounded` would fail if
it did); `lock.py` says of a refusal that "another worker holds" the lock, and
the unlock of a run may go to a connection without the lock, or fail in an
aborted transaction, and leave the lock behind, which turns away later runs
that are alone (`dropped` and `moved` of `SyncRun`, excuses of
`SkipExplained`); README takes `invalid_grant` for a broken chain (two
refreshes at once suffice: `RejectionExplained`); a notification delivers an
order outside the trigger status (`OnDemand`); a lost answer or a failed lookup
lets one worker alone create two visits (`blind` of `Processor`); `oauth.py`
says "we persist it atomically so we never lose the chain", and a scan that
fails after its refresh rolls the new token back (`lost` of `TokenStore`, an
excuse of `ChainHeld`); `alerts/service.py` says a suppressed alert "was
already sent", and the row is written for a message Telegram refused too;
`transform.py` says "We never raise for bad data" and a test of it repeats it,
and a field of the address that is neither text nor missing makes `_clean_text`
raise, so that the order is not flagged (`MapRaises`, a cause that
`UnrecordedHasCause` therefore has to name); `flex_label.py` says it returns
the shipment id or nothing, and a text with another long number first gives
that number (`Misread`, an excuse of `AskedIsDelivered`); `processor.py` says a
pending row "is retried on the next cron run", which holds for a run's own
claims and not for those in `stray`; `nominatim.py` promises one request per
second, and threads that wait together ask together (`bursts` of
`GeocodeCache`).

Bounds.  Rows of different orders share nothing but the id counter and the
lookup, so two orders show any mix-up; two workers show every pairwise race,
and three calls let a race follow a crash or a failed delivery.  Two attempts
give a first and a last one.  `begun` stops at `MaxBegins`, and then every
other counter is bounded too.  Two runs, one other session and a queue shorter
than the connections give every way a connection changes hands, overflow and
timeout included.  Four tokens let a lost token be followed by an authorization
and a refresh.  A page of one order makes two orders two pages; two ticks
exceed the overlap and the lag; with no overlap one tick is as much, and two
faults let a claim be cut off in the run that retries another.  Six ticks hold
two outages, each longer than the limit.  Two sessions and two addresses are
what a circle of flushes takes, and four calls let each session come back to an
address after a rollback or a restart with the other backend.  The shops of
`intake` vary the structure with plain addresses, and then each field of the
address alone, the pairs of fields of which one replaces the other, and what
else a review depends on.  Deadlock is checked in every run; `Finished` in
`Processor`, `SyncRun`, `GeocodeCache` and `Intake` keeps the end of a bounded
behaviour from being one.  Symmetry is used only in runs without liveness.

Fairness.  Every assumption is weak fairness of the steps of a thread that
runs: HTTP requests and the pool have timeouts, statements end.  In
`TokenStore` a step may wait for a row lock, whose holder is such a thread.
`GeocodeCache` counts PostgreSQL's detection of a deadlock as a step of a
session and the passing of time as fair, as a sleep ends; its batches are
finite, so that a session commits or fails at last.  `OrderFeed` also assumes
that runs go on being started, as the scheduler of the deployment does.  That
they are let in is not assumed: a lock that leaked refuses every run until the
process or the connection ends (`dropped` of `SyncRun`), and no code sees to
that.  `Refuse` may end any run, and `EverySaleTraced` has as its premise that
again and again a run gets past the lock (`RunsAreAdmitted`), beside the bound
on failures.  `NothingPassedUnseen` needs neither.  No fairness of new calls,
of Mercado Libre, SimpliRoute or Telegram is assumed, and none of faults: apart
from that deadlock, an exception, a failed statement or a crash never is what
ends a wait.  `Intake` states no liveness: each of its calls is twelve steps at
most (`CallsGoForward`).

## 4. Proofs

All hold for any values of the constants that satisfy the named assumptions.

| theorem | property |
|---|---|
| `ProcessorProofs!TypeCorrect` | `TypeOK` |
| `ProcessorProofs!Invariance` | `IInv` |
| `ProcessorProofs!DuplicatesAreExplained` | `DuplicatesExplained` |
| `ProcessorProofs!ClaimPrecedesVisit` | `ClaimBeforeVisit` |
| `ProcessorProofs!BoundVisitsAreOwn` | `BoundVisitIsOwn` |
| `ProcessorProofs!CompletionIsFinal` | `CompletedIsFinal` |
| `ProcessorProofs!ReasonsAreKept` | `FirstReasonKept` |
| `ProcessorProofs!Refinement` | `ImplementsDelivery` |
| `OutcomeProofs!OutcomesAreAccountedFor` | `AccountedFor` |
| `OutcomeProofs!CallsAreBounded` | a call: at most `MaxAttempts + 8` steps |
| `SyncRunProofs!TypeCorrect` | `TypeOK` |
| `SyncRunProofs!ExclusionIsExplained` | `ExclusionExplained` |
| `SyncRunProofs!SkipsAreExplained` | `SkipExplained` |
| `SyncRunProofs!RunsAreBounded` | a run: at most `2 * MaxCommits + 15` steps |
| `OrderFeedProofs!TypeCorrect` | `TypeOK` |
| `OrderFeedProofs!NothingIsPassedUnseen` | `NothingPassedUnseen` |
| `TokenStoreProofs!TypeCorrect` | `TypeOK` |
| `TokenStoreProofs!ChainIsHeld` | `ChainHeld` |
| `TokenStoreProofs!RejectionsAreExplained` | `RejectionExplained` |
| `TokenStoreProofs!RowsMoveForward` | `RowMovesForward` |
| `AlertsProofs!TypeCorrect` | `TypeOK` |
| `AlertsProofs!SilenceBounded` | `SilenceIsBounded` |
| `AlertsProofs!RepeatsAreExplained` | `RepeatsExplained` |
| `AlertsProofs!RaisesAreExplained` | `RaisesExplained` |
| `AlertsProofs!OutagesAreAlerted` | `OutageHasOwnAlert` |
| `GeocodeCacheProofs!TypeCorrect` | `TypeOK` |
| `GeocodeCacheProofs!RepeatsArePaidFor` | `RepeatsPaidFor` |
| `GeocodeCacheProofs!ConflictsAreExplained` | `ConflictExplained` |
| `GeocodeCacheProofs!OneVerdict` | `SameAddressSameVerdict` |
| `GeocodeCacheProofs!AnswersAreKept` | `AnswerKept` |
| `GeocodeCacheProofs!BurstsAreExplained` | `BurstsExplained` |
| `GeocodeCacheProofs!ResolvesAreBounded` | a call of `resolve`: at most `Interval + 7` steps |
| `IntakeProofs!Invariance` | `IInv` |
| `IntakeProofs!TypeCorrect` | `TypeOK` |
| `IntakeProofs!SentCanBeDelivered` | `SentIsDeliverable` |
| `IntakeProofs!AskedWasDelivered` | `AskedIsDelivered` |
| `IntakeProofs!ReviewsFit` | `ReviewFits` |
| `IntakeProofs!UnrecordedHaveCauses` | `UnrecordedHasCause` |
| `IntakeProofs!CallsGoForward` | a call: at most twelve steps, none of them twice |

Processor.  `DuplicatesExplained` is not inductive: a state with no visit, no
excuse and two posting workers satisfies it, and leads to two visits.  `IInv`
counts what may become a visit along with what is one: visits, posting workers
and abandoned requests of an order are together at most one more than its
excuses (`VisitsCounted`), every delivery beyond the first was granted by an
overlapping claim (`DeliveriesCounted`), nothing happens to an order without a
row (`UnclaimedIsUntouched`), and without overlap nobody delivers a completed
order (`CompletedIsLeft`).  The step proof groups the actions by what they
disturb and has one lemma per group; the refinement follows from
`VisitsCounted`, which is the guard of `Create`.  It assumes finitely many
workers.

Outcomes.  `AccountedFor` looks at a call when it returns, and asks of the order
what the outcome says: a bound visit for `completed`, `recovered` and
`skipped_duplicate`, a failed row for the two failures, a review for
`manual_review` and `permanent_failed`.  `Recorded` says what the call owes on
the way there: which outcomes it may have at each step, a review once it is past
its review, its row once it is past the write of its result.  Other workers
write the same rows meanwhile, so the proof needs that no step takes a visit or a
review away or makes a failed row pending again (`RecordsStay`).  A failed row
may be completed by another worker before the call returns, and a completed one
marked failed; neither loses its visit.  A call that raises owes nothing here:
between the two commits of a rejected order (`processor.py:132`) an exception or a
stop leaves a failed row without a review, which the next run takes up again
only if the cursor has not passed it (`OrderFeed`).

SyncRun.  `LockInv` counts.  PostgreSQL lets one connection hold the lock, at
whatever count (`OneHolder`), so the runs in the block are at most the holds of
that connection plus the locks that were dropped (`WorkPaid`).  A connection
gets a second hold only by a run that tries the lock on a connection that has it
already, and that connection was counted in `moved` when it was checked out
(`CandidatesPaid`, `HoldsPaid`).  Hence the bound of `ExclusionExplained`.  While
nothing has been parted, a run works on the connection it was granted the lock
on and every hold is that of a working run (`OwnConnection`, `OwnLock`), so a
refusal means that one works.  It assumes finitely many runs.

OrderFeed.  `NothingPassedUnseen` speaks of the cursor a run would read now; it
is the runs under way that will move it.  `Covered` says of each of them that
every order it answers for was updated after it began, or is ahead of it: among
the fetched orders, on its page, or at a position of the listing it has not come
to.  The listing changes under the run.  It may grow, which moves orders
further back (`PositionGrows`); it may lose one, which moves each order behind
it a position forward, and the one that crosses the end of the last page is
what `shifted` records (`PositionAfterRemoval`).  A run stops asking when a page
is empty, so the proof also needs that a listing has an order at every position
up to its last (`PositionsFilled`, from the least element of a set of numbers).
`PagesSeen` says that a page is out of date only for orders updated since the
run began, and `LookedBack` that a history without a success is not one that
looked back less.  For a claim that a run's end cuts off, `FetchedSeen` says that
what a run has fetched was not updated before its cursor; if that is still the
cursor of the next run, the claim is not behind it (`CutOffStep`).

GeocodeCache.  `Paid` counts, per address, the sessions that will still ask
along with the requests made; `Apart` says that two sessions at one address, or
one and a committed row, have overlapped; `Evidence` that without an excuse a
verdict is that of the one answer there is, committed or not; `Spaced` that of
the sessions that sleep at once all but one are counted, and all of them when a
request was made after one fell asleep.  `Local` ties a session's draft to the
call it is in.

TokenStore.  `ChainHeld` says nothing of a session that commits without owning
the row lock.  `OwnToken` adds that a session with a new token is about to
write it or has the lock, and that a writer has one; `IssuedOnly` that no token
is from the future; `SoleHolder` that without a clash the holder is alone, its
token newer than the row, and no other session has read the live token.  The
last one is what makes the row move forward.

Alerts.  `Clocked` orders the times; `Recorded` says that a key without overlap
has one call at most, and that between calls the row holds its time;
`WatchedOutage` says that what the watchdog sent was past the limit of the
outage it was sent in.  A success ends the outage, and a row that is older than
the success cannot be within the window when the limit has passed again.

Intake.  The lemmas about `Mapping` say what its operators do for every address
and not only for those of the run: cleaning leaves nothing of a text exactly
when it is missing or blank (`Cleaned`), the line that is sent begins with the
street and its number (`FullLineBegins`), and an order is mapped exactly when
its data have no defect (`DefectsOf`, `MappedTo`).  `IInv` follows a call: a
label gave the number that is asked for (`Scanned`), what is asked for exists and
leads on (`Requested`), what has been fetched is an order and its shipment, or a
shipment and its order (`Resolved`), the visit is what they map to, located if
need be (`Carried`), a call past its claim has a row (`Recorded`), and one that
ended with neither a row nor a review has a cause (`Excused`).
It assumes of Mercado Libre that its references resolve and that a text has a
word unless it is missing or blank (`ShopsAssumption`); of labels, what
`flex_label.py` says of its keys, that they "hold the shipment id"
(`LabelsAssumption`), and nothing of the other numbers on them.  The proof
showed that a telephone written like the placeholder of a missing one must not
count as missing; the code keeps a flag apart from the text, and so does the
model.

Lengths.  `StepsLeft` bounds what a call of `process_order`, a run or a call of
`resolve` has before it: each of its own steps lowers it, and no step of anyone
else raises it.  The bounds are those of the code: the attempts of
`create_visit`, the commits of a batch, the wait for the rate limit.  With a step
enabled and fair this gives `EveryCallReturns`, `EveryRunEnds` and
`EveryResolveEnds`; that one is enabled, although a run waits for a connection
and a flush for another session's row, is left to TLC.  A request of `TokenStore`
and an order of `OrderFeed` have no such bound: requests refresh as often as
tokens expire, and runs fail as often as they fail.

Every safety invariant and action property of the passing runs, and the
refinement, is proved.  Only model-checked: `EveryCallReturns`, `EveryRunEnds`,
`EveryRequestEnds`, `EverySaleTraced` and `EveryResolveEnds`, as liveness under
fairness and ENABLED are beyond the prover.

## 5. Not modelled

* Web pages, health, configuration, logging: no state changes.
* Schema and migrations: the unique constraints the code relies on are guards
  of the modules that insert.
* The secret of the internal endpoints: it admits a request or refuses it.
* `get_visit` of the SimpliRoute client: nobody calls it.
* Spelling: what cleaning does to letters, the formats of dates and messages.

## 6. What is left

Hazards that no property covers, and why:

* `ml/orders.py:104`: an order that makes every run fail starves those behind
  it.  `EverySaleTraced` allows finitely many failures only.
* `ml/orders.py:212`: a notification delivers an order outside the trigger
  status.  `OnDemand` does so; nothing in the repository excludes it.
* `job.py:84`: after a database error the run's row stays `running` and nobody is
  alerted.  No doc says when a row must leave that status.
* `watchdog.py:51`: the watchdog is silent before the first success, by design.

Next would be `Processor` and `OrderFeed` under one next-state relation, so that
a pending row of the one is the cut-off claim of the other, and `Intake` with
several calls at once.
