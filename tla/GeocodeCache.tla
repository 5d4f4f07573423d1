---------------------------- MODULE GeocodeCache ----------------------------
(***************************************************************************)
(* The cached geocoder, app/geocoder/, as process_order calls it.          *)
(*                                                                         *)
(* A session resolves one address after the other.  What it writes to      *)
(* geocoding_cache is only flushed: the commit of a claim, of a review or  *)
(* of the request puts it into the table, and until then PostgreSQL makes  *)
(* every other writer of the same address wait.  The Nominatim backend     *)
(* spaces its requests by a time stamp all threads share.                  *)
(***************************************************************************)
EXTENDS Naturals, FiniteSets

CONSTANTS
    Sessions,          \* requests and runs that may be under way at once
    Keys,              \* addresses, by their hash
    GoogleReplies,     \* the results Google may find: location type, partial match
    NominatimReplies,  \* the importance Nominatim may give, in tenths; 0 for none
    Threshold,         \* settings.geocoder_min_confidence, in tenths
    Interval,          \* _MIN_INTERVAL_SECONDS, in ticks
    MaxResolves,       \* bound on the calls of resolve in a behaviour
    NoKey              \* the address of a session that has not called resolve

ASSUME KeysAssumption     == NoKey \notin Keys
ASSUME SessionsAssumption == IsFiniteSet(Sessions)
ASSUME RepliesAssumption  ==
    /\ GoogleReplies \subseteq [type : STRING, partial : BOOLEAN]
    /\ NominatimReplies \subseteq Nat
ASSUME BoundsAssumption   ==
    Threshold \in Nat /\ Interval \in Nat /\ MaxResolves \in Nat

VARIABLES
    backend,  \* settings.geocoder_backend, read when the process starts
    cache,    \* geocoding_cache: the committed row of each address
    draft,    \* per session, the rows it has flushed and not committed
    job,      \* per session, where its call of resolve is
    since,    \* ticks since _last_call_ts, up to Interval
    begun,    \* calls of resolve so far
    asked,    \* history: requests to the backend, per address
    overlap,  \* history: misses while another session held no committed answer
    wasted,   \* history: requests without an answer, or whose answer was undone
    crowd,    \* history: waits begun while another session was waiting
    bursts    \* history: Nominatim requests less than Interval after the last

vars == <<backend, cache, draft, job, since, begun,
          asked, overlap, wasted, crowd, bursts>>

-----------------------------------------------------------------------------
(* Answers *)

\* GoogleGeocoder: the confidence of a result, in tenths.
TypeConfidence(type) ==
    CASE type = "ROOFTOP"            -> 10
      [] type = "RANGE_INTERPOLATED" -> 8
      [] type = "GEOMETRIC_CENTER"   -> 6
      [] OTHER                       -> 3

GoogleConfidence(reply) ==
    TypeConfidence(reply.type) - (IF reply.partial THEN 2 ELSE 0)

NominatimConfidenceUnclamped(importance) ==   \* mutant: no upper limit
    IF importance = 0 THEN 3 ELSE importance

\* NominatimGeocoder: an importance of zero counts as a missing one.
NominatimConfidence(importance) ==
    CASE importance = 0  -> 3
      [] importance > 10 -> 10
      [] OTHER           -> importance

\* GeocodeResult without its coordinates.
Answers == [backend : {"google", "nominatim"}, confidence : 0..10]
NoAnswer == [backend |-> "none", confidence |-> 0]

Replies ==
    {[backend |-> backend, confidence |-> c] : c \in
        IF backend = "google" THEN {GoogleConfidence(r) : r \in GoogleReplies}
                              ELSE {NominatimConfidence(i) : i \in NominatimReplies}}

\* _resolve_coordinates: what an answer means for the order.
Verdict(answer) ==
    CASE answer = NoAnswer               -> "geocode_failed"
      [] answer.confidence < Threshold   -> "geocode_low_confidence"
      [] OTHER                           -> "located"

-----------------------------------------------------------------------------
CallPcs == {"limit", "sleep", "call"}      \* the lookup has missed
HeldPcs == {"check", "insert", "update"}   \* there is an answer to store
Pcs == {"ready", "raised", "lookup"} \cup CallPcs \cup HeldPcs

Jobs == [pc : Pcs, key : Keys \cup {NoKey}, answer : Answers \cup {NoAnswer},
         wait : 0..Interval,   \* ticks of sleep that are left
         verdict : {"none", "located", "geocode_failed", "geocode_low_confidence"}]
NoJob == [pc |-> "ready", key |-> NoKey, answer |-> NoAnswer, wait |-> 0,
          verdict |-> "none"]

At(s, p) == job[s].pc = p
On(s, k) == job[s].key = k
Busy(s)  == job[s].pc \notin {"ready", "raised"}
Becomes(s, j) == job' = [job EXCEPT ![s] = j]
Goto(s, p) == Becomes(s, [job[s] EXCEPT !.pc = p])

\* resolve returns an answer, or none, to _resolve_coordinates.
Return(s, answer) ==
    Becomes(s, [job[s] EXCEPT !.pc = "ready", !.answer = NoAnswer,
                              !.verdict = Verdict(answer)])

Missing(k)  == {s \in Sessions : On(s, k) /\ job[s].pc \in CallPcs}
Holding(k)  == {s \in Sessions : draft[s][k] # NoAnswer \/ (On(s, k) /\ job[s].pc \in HeldPcs)}
Sleepers    == {s \in Sessions : At(s, "sleep")}
Excuses(k)  == overlap[k] + wasted[k]

TypeOK ==
    /\ backend \in {"google", "nominatim"}
    /\ cache \in [Keys -> Answers \cup {NoAnswer}]
    /\ draft \in [Sessions -> [Keys -> Answers \cup {NoAnswer}]]
    /\ job \in [Sessions -> Jobs]
    /\ \A s \in Sessions : Busy(s) => job[s].key \in Keys
    /\ \A s \in Sessions : job[s].pc \in HeldPcs => job[s].answer # NoAnswer
    /\ since \in 0..Interval
    /\ begun \in 0..MaxResolves
    /\ asked \in [Keys -> Nat]
    /\ overlap \in [Keys -> Nat]
    /\ wasted \in [Keys -> Nat]
    /\ crowd \in Nat
    /\ bursts \in Nat

NoDrafts == [k \in Keys |-> NoAnswer]

\* _last_call_ts is zero, long ago.
Init ==
    /\ backend \in {"google", "nominatim"}
    /\ cache = [k \in Keys |-> NoAnswer]
    /\ draft = [s \in Sessions |-> NoDrafts]
    /\ job = [s \in Sessions |-> NoJob]
    /\ since = Interval
    /\ begun = 0
    /\ asked = [k \in Keys |-> 0]
    /\ overlap = [k \in Keys |-> 0]
    /\ wasted = [k \in Keys |-> 0]
    /\ crowd = 0
    /\ bursts = 0

history  == <<asked, overlap, wasted, crowd, bursts>>
database == <<cache, draft>>

-----------------------------------------------------------------------------
(* resolve: the lookup *)

Resolve(s, k) ==
    /\ At(s, "ready")
    /\ begun < MaxResolves
    /\ begun' = begun + 1
    /\ Becomes(s, [NoJob EXCEPT !.pc = "lookup", !.key = k])
    /\ UNCHANGED <<backend, database, since, history>>

VisibleOwn(s) == draft[s][job[s].key]   \* mutant: committed rows are not seen

\* What a SELECT of session s finds: its own row, or the committed one.
Visible(s) ==
    LET k == job[s].key
    IN  IF draft[s][k] # NoAnswer THEN draft[s][k] ELSE cache[k]

UsableThisBackend(row) == row.backend = backend   \* mutant: rows of another are not used

\* A row is used whatever its confidence and its backend.
Usable(row) == row # NoAnswer

HitTrusted(s) ==   \* mutant: a cached answer is good enough
    /\ At(s, "lookup")
    /\ Usable(Visible(s))
    /\ Becomes(s, [job[s] EXCEPT !.pc = "ready", !.verdict = "located"])
    /\ UNCHANGED <<backend, database, since, begun, history>>

Hit(s) ==
    /\ At(s, "lookup")
    /\ Usable(Visible(s))
    /\ Return(s, Visible(s))
    /\ UNCHANGED <<backend, database, since, begun, history>>

\* Nothing tells this session of another one that asks for the same address.
Miss(s) ==
    /\ At(s, "lookup")
    /\ ~Usable(Visible(s))
    /\ Goto(s, IF backend = "nominatim" THEN "limit" ELSE "call")
    /\ LET k == job[s].key
       IN  overlap' = [overlap EXCEPT ![k] =
                          IF Missing(k) \cup Holding(k) = {} THEN @ ELSE @ + 1]
    /\ UNCHANGED <<backend, database, since, begun, asked, wasted, crowd, bursts>>

-----------------------------------------------------------------------------
(* _respect_rate_limit: read the time stamp, sleep, write it *)

LimitStampless(s) ==   \* mutant: the wait is not computed from the stamp
    /\ At(s, "limit")
    /\ Becomes(s, [job[s] EXCEPT !.pc = "sleep", !.wait = 0])
    /\ crowd' = crowd + (IF Sleepers = {} THEN 0 ELSE 1)
    /\ UNCHANGED <<backend, database, since, begun, asked, overlap, wasted, bursts>>

Limit(s) ==
    /\ At(s, "limit")
    /\ Becomes(s, [job[s] EXCEPT !.pc = "sleep", !.wait = Interval - since])
    /\ crowd' = crowd + (IF Sleepers = {} THEN 0 ELSE 1)
    /\ UNCHANGED <<backend, database, since, begun, asked, overlap, wasted, bursts>>

Wake(s) ==
    /\ At(s, "sleep")
    /\ job[s].wait = 0
    /\ since' = 0
    /\ bursts' = bursts + (IF since < Interval THEN 1 ELSE 0)
    /\ Goto(s, "call")
    /\ UNCHANGED <<backend, database, begun, asked, overlap, wasted, crowd>>

\* Time passes; nobody oversleeps in the model, which only makes bursts likelier.
Tick ==
    /\ since < Interval \/ \E s \in Sessions : job[s].wait > 0
    /\ since' = IF since < Interval THEN since + 1 ELSE since
    /\ job' = [s \in Sessions |->
                  [job[s] EXCEPT !.wait = IF @ > 0 THEN @ - 1 ELSE 0]]
    /\ UNCHANGED <<backend, database, begun, history>>

-----------------------------------------------------------------------------
(* The backend *)

Asks(s) == asked' = [asked EXCEPT ![job[s].key] = @ + 1]
Wastes(s) == wasted' = [wasted EXCEPT ![job[s].key] = @ + 1]

Found(s) ==
    /\ At(s, "call")
    /\ \E answer \in Replies :
          Becomes(s, [job[s] EXCEPT !.pc = "check", !.answer = answer])
    /\ Asks(s)
    /\ UNCHANGED <<backend, database, since, begun, overlap, wasted, crowd, bursts>>

\* An empty or a failed answer: None, which is not cached.
NotFound(s) ==
    /\ At(s, "call")
    /\ Return(s, NoAnswer)
    /\ Asks(s) /\ Wastes(s)
    /\ UNCHANGED <<backend, database, since, begun, overlap, crowd, bursts>>

\* A timeout, a body that is no JSON, no API key: out of process_order.
BackendRaises(s) ==
    /\ At(s, "call")
    /\ Goto(s, "raised")
    /\ Asks(s) /\ Wastes(s)
    /\ UNCHANGED <<backend, database, since, begun, overlap, crowd, bursts>>

-----------------------------------------------------------------------------
(* _write_cache *)

\* The second SELECT; a row that says the same already is not written.
CheckRow(s) ==
    /\ At(s, "check")
    /\ LET row == Visible(s)
       IN  CASE row = NoAnswer       -> Goto(s, "insert")
             [] row = job[s].answer  -> Return(s, row)
             [] OTHER                -> Goto(s, "update")
    /\ UNCHANGED <<backend, database, since, begun, history>>

\* PostgreSQL: the flush waits for another's uncommitted row of the address.
WaitsFor(s, t) ==
    /\ t # s
    /\ job[s].pc \in {"insert", "update"}
    /\ draft[t][job[s].key] # NoAnswer
Blocked(s) == \E t \in Sessions : WaitsFor(s, t)

Flush(s) ==
    /\ ~Blocked(s)
    /\ draft' = [draft EXCEPT ![s][job[s].key] = job[s].answer]
    /\ Return(s, job[s].answer)
    /\ UNCHANGED <<backend, cache, since, begun, history>>

Insert(s) == At(s, "insert") /\ cache[job[s].key] = NoAnswer /\ Flush(s)
Update(s) == At(s, "update") /\ Flush(s)

\* Everything s has flushed, and the answer it has in hand, is gone.
Undo(s) ==
    /\ draft' = [draft EXCEPT ![s] = NoDrafts]
    /\ wasted' = [k \in Keys |-> wasted[k] + (IF s \in Holding(k) THEN 1 ELSE 0)]
    /\ Becomes(s, NoJob)
    /\ UNCHANGED <<backend, cache, since, begun, asked, overlap, crowd, bursts>>

\* uq_geocoding_cache_address_hash: an IntegrityError out of process_order.
InsertConflict(s) ==
    /\ At(s, "insert")
    /\ ~Blocked(s)
    /\ cache[job[s].key] # NoAnswer
    /\ Undo(s)

\* Sessions that wait for each other in a circle: PostgreSQL ends one of them.
InCircle(s) == \E C \in SUBSET Sessions :
    s \in C /\ \A t \in C : (\E u \in C : WaitsFor(t, u)) /\ (\E u \in C : WaitsFor(u, t))

DeadlockUnseen(s) == FALSE /\ InCircle(s) /\ Undo(s)   \* mutant: nobody looks for it

Deadlock(s) == InCircle(s) /\ Undo(s)

-----------------------------------------------------------------------------
(* The transaction of process_order and of its caller *)

\* The claim, the first review, the last commit of a request, or the failed
\* run's; an order that is skipped or flagged already goes on without one.
Commit(s) ==
    /\ job[s].pc \in {"ready", "raised"}
    /\ draft[s] # NoDrafts \/ At(s, "raised")
    /\ cache' = [k \in Keys |-> IF draft[s][k] # NoAnswer THEN draft[s][k] ELSE cache[k]]
    /\ draft' = [draft EXCEPT ![s] = NoDrafts]
    /\ Goto(s, "ready")
    /\ UNCHANGED <<backend, since, begun, history>>

\* session_scope, when something raises in a request, and any database error.
RollBack(s) ==
    /\ draft[s] # NoDrafts \/ At(s, "raised")
    /\ ~Blocked(s)
    /\ Undo(s)

\* The process stops, and starts with the settings it finds.
Crash ==
    /\ \E s \in Sessions : job[s] # NoJob
    /\ backend' \in {"google", "nominatim"}
    /\ job' = [s \in Sessions |-> NoJob]
    /\ draft' = [s \in Sessions |-> NoDrafts]
    /\ wasted' = [k \in Keys |-> wasted[k] + Cardinality(Holding(k))]
    /\ since' = Interval
    /\ UNCHANGED <<cache, begun, asked, overlap, crowd, bursts>>

\* Nothing is under way: the end of a bounded behaviour, not a deadlock.
Finished ==
    /\ begun = MaxResolves
    /\ \A s \in Sessions : At(s, "ready")
    /\ UNCHANGED vars

Step(s) ==
    \/ Hit(s) \/ Miss(s) \/ Limit(s) \/ Wake(s)
    \/ Found(s) \/ NotFound(s) \/ BackendRaises(s)
    \/ CheckRow(s) \/ Insert(s) \/ Update(s) \/ InsertConflict(s)
    \/ Deadlock(s) \/ Commit(s)

Next ==
    \/ \E s \in Sessions, k \in Keys : Resolve(s, k)
    \/ \E s \in Sessions : Step(s) \/ RollBack(s)
    \/ Tick
    \/ Crash
    \/ Finished

Spec == Init /\ [][Next]_vars

\* Threads are scheduled, requests have timeouts, PostgreSQL looks for circles,
\* time passes; a batch is finite, so that a session comes to its commit.
FairSpec == Spec /\ WF_vars(Tick) /\ \A s \in Sessions : WF_vars(Step(s))
-----------------------------------------------------------------------------
(* What the cache promises *)

\* models.py, GeocodingCache: it "avoids repeat Google calls".  Each request for
\* an address beyond the first is paid for by one that had no answer or whose
\* answer was undone, or by a lookup that missed while another session was
\* asking: no order of lookups, waits, commits and rollbacks repeats a request
\* otherwise.
RepeatsPaidFor == \A k \in Keys : asked[k] <= 1 + Excuses(k)

\* An INSERT of an address runs into a committed row, and raises out of
\* process_order, only if two sessions were asking for the address at once.
ConflictExplained ==
    \A s \in Sessions :
       At(s, "insert") /\ cache[job[s].key] # NoAnswer => overlap[job[s].key] > 0

\* Orders to one address get the same verdict, accepted or rejected, whichever
\* backend is configured by then, unless two sessions asked for it at once or
\* an answer was undone.
SameAddressSameVerdict ==
    \A s, t \in Sessions :
       (/\ job[s].key = job[t].key
        /\ "none" \notin {job[s].verdict, job[t].verdict}
        /\ Excuses(job[s].key) = 0) => job[s].verdict = job[t].verdict

\* A committed answer is never replaced unless two sessions asked at once.
AnswerKept ==
    [][\A k \in Keys : cache[k] # NoAnswer /\ overlap[k] = 0 => cache'[k] = cache[k]]_vars

\* nominatim.py: "1 request/second per the OSM usage policy".  The time stamp is
\* read before the sleep and written after it; requests come closer than the
\* interval at most as often as a session began to wait while another waited.
BurstsExplained == bursts <= crowd

\* Every call of resolve ends, although its flush may wait for the transaction
\* of another session, and that one for it.
EveryResolveEnds == \A s \in Sessions : Busy(s) ~> ~Busy(s)
=============================================================================
