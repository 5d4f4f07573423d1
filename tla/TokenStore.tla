----------------------------- MODULE TokenStore -----------------------------
(***************************************************************************)
(* The Mercado Libre token pair, app/ml/oauth.py, with the callers that    *)
(* decide what becomes of an unfinished transaction: the cron run, which   *)
(* commits also when it fails; notifications and scans, which roll back    *)
(* when they fail (session_scope); the weekly token-health check; and the  *)
(* authorization callback.                                                 *)
(*                                                                         *)
(* Mercado Libre honours one refresh token, the last it issued; each use   *)
(* of it issues the next.  Refresh tokens are numbered as they are issued. *)
(* The row exists: the application has been authorized once.               *)
(***************************************************************************)
EXTENDS Naturals, FiniteSets

CONSTANTS
    Sessions,   \* requests that may be under way at once
    MaxTokens,  \* bound on the tokens Mercado Libre issues
    NoSession   \* nobody has written the row without committing

ASSUME SessionsAssumption  == NoSession \notin Sessions
ASSUME MaxTokensAssumption == MaxTokens \in Nat \ {0}

VARIABLES
    live,     \* Mercado Libre: the refresh token it honours, the last issued
    row,      \* oauth_tokens: the committed refresh token
    usable,   \* the committed access token outlives the leeway
    writer,   \* the session whose UPDATE of the row is not committed
    job,      \* per session, what its request does
    lost,     \* history: tokens that went with their request or were overwritten
    clash     \* history: exchanges made while a session held a token

vars == <<live, row, usable, writer, job, lost, clash>>

-----------------------------------------------------------------------------
NoToken == 0
Tokens  == 1..MaxTokens

Kinds == {"run", "request", "health", "callback"}
Pcs   == {"idle", "api", "refresh", "exchange", "store", "finish", "raised"}

Jobs  == [pc : Pcs, kind : Kinds \cup {"none"},
          seen : Tokens \cup {NoToken},   \* the refresh token it has read
          new  : Tokens \cup {NoToken}]   \* the one it has got and not committed
NoJob == [pc |-> "idle", kind |-> "none", seen |-> NoToken, new |-> NoToken]

At(s, p) == job[s].pc = p
Becomes(s, j) == job' = [job EXCEPT ![s] = j]
Goto(s, p) == Becomes(s, [job[s] EXCEPT !.pc = p])

\* A session that has got the live token and has not committed it.
Holds(s) == job[s].new = live

VisibleShared(s) ==   \* mutant: a token is shared before it is stored
    IF \E t \in Sessions : Holds(t) THEN live ELSE row

\* What a SELECT of session s reads: its own UPDATE, or what is committed.
Visible(s)       == IF writer = s THEN job[s].new ELSE row
VisibleUsable(s) == writer = s \/ usable

TypeOK ==
    /\ live \in Tokens
    /\ row \in Tokens
    /\ usable \in BOOLEAN
    /\ writer \in Sessions \cup {NoSession}
    /\ job \in [Sessions -> Jobs]
    /\ lost \subseteq Tokens
    /\ clash \in Nat

Init ==
    /\ live = 1
    /\ row = 1
    /\ usable = TRUE
    /\ writer = NoSession
    /\ job = [s \in Sessions |-> NoJob]
    /\ lost = {}
    /\ clash = 0

-----------------------------------------------------------------------------
(* Requests *)

FirstPc(kind) ==
    CASE kind \in {"run", "request"} -> "api"
      [] kind = "health"             -> "refresh"
      [] kind = "callback"           -> "exchange"

\* check_token_health reads the row first, and alerts before it refreshes.
Begin(s, kind) ==
    /\ At(s, "idle")
    /\ Becomes(s, [pc |-> FirstPc(kind), kind |-> kind, new |-> NoToken,
                   seen |-> IF kind = "health" THEN row ELSE NoToken])
    /\ UNCHANGED <<live, row, usable, writer, lost, clash>>

ReadStaleUnflushed(s) ==   \* mutant: a flushed token is refreshed again
    /\ At(s, "api")
    /\ ~usable
    /\ Becomes(s, [job[s] EXCEPT !.pc = "refresh", !.seen = row])
    /\ UNCHANGED <<live, row, usable, writer, lost, clash>>

\* get_valid_access_token, before every call of the ML API: the token expires
\* within the leeway.  With a valid token nothing changes.
ReadStale(s) ==
    /\ At(s, "api")
    /\ ~VisibleUsable(s)
    /\ Becomes(s, [job[s] EXCEPT !.pc = "refresh", !.seen = Visible(s)])
    /\ UNCHANGED <<live, row, usable, writer, lost, clash>>

\* The work of the request is done, or ML or anything else raises an exception
\* that is no database error.
Succeed(s) ==
    /\ At(s, "api")
    /\ Goto(s, "finish")
    /\ UNCHANGED <<live, row, usable, writer, lost, clash>>

Fail(s) ==
    /\ At(s, "api")
    /\ Goto(s, "raised")
    /\ UNCHANGED <<live, row, usable, writer, lost, clash>>

-----------------------------------------------------------------------------
(* The token endpoint *)

Issue == live < MaxTokens /\ live' = live + 1

RefreshOk(s) ==
    /\ At(s, "refresh")
    /\ job[s].seen = live
    /\ Issue
    /\ Becomes(s, [job[s] EXCEPT !.pc = "store", !.new = live + 1])
    /\ UNCHANGED <<row, usable, writer, lost, clash>>

\* invalid_grant: OAuthError.
RefreshRejected(s) ==
    /\ At(s, "refresh")
    /\ job[s].seen # live
    /\ Goto(s, "raised")
    /\ UNCHANGED <<live, row, usable, writer, lost, clash>>

\* No answer, or one that is not a token pair; ML may have rotated the token.
RefreshUnanswered(s) ==
    /\ At(s, "refresh")
    /\ \/ UNCHANGED <<live, lost>>
       \/ job[s].seen = live /\ Issue /\ lost' = lost \cup {live'}
    /\ Goto(s, "raised")
    /\ UNCHANGED <<row, usable, writer, clash>>

\* The callback exchanges its code for a new pair, whatever the old one is.
ExchangeOk(s) ==
    /\ At(s, "exchange")
    /\ Issue
    /\ Becomes(s, [job[s] EXCEPT !.pc = "store", !.new = live + 1])
    /\ clash' = IF \E t \in Sessions : job[t].new # NoToken THEN clash + 1 ELSE clash
    /\ UNCHANGED <<row, usable, writer, lost>>

\* An OAuthError is an error page, anything else a 500: no row is touched.
ExchangeFails(s) ==
    /\ At(s, "exchange")
    /\ \/ UNCHANGED <<live, lost>>
       \/ Issue /\ lost' = lost \cup {live'}
    /\ Goto(s, "raised")
    /\ UNCHANGED <<row, usable, writer, clash>>

-----------------------------------------------------------------------------
(* persist_token and the end of the transaction *)

\* The flushed UPDATE: it waits for the transaction of another writer.
Store(s) ==
    /\ At(s, "store")
    /\ writer \in {NoSession, s}
    /\ writer' = s
    /\ Goto(s, IF job[s].kind \in {"run", "request"} THEN "api" ELSE "finish")
    /\ UNCHANGED <<live, row, usable, lost, clash>>

CommittedAccessOnly(s) ==   \* mutant: the rotated refresh token is not stored
    IF writer = s
    THEN usable' = TRUE /\ writer' = NoSession /\ UNCHANGED <<row, lost>>
    ELSE UNCHANGED <<row, usable, writer, lost>>

CommittedUnchecked(s) ==   \* mutant: a request without a new token writes it too
    /\ row' = job[s].new
    /\ usable' = TRUE
    /\ writer' = NoSession
    /\ UNCHANGED lost

\* What a COMMIT of session s makes of the row.
Committed(s) ==
    IF writer = s
    THEN /\ row' = job[s].new
         /\ usable' = TRUE
         /\ writer' = NoSession
         /\ lost' = IF job[s].new < row THEN lost \cup {row} ELSE lost
    ELSE UNCHANGED <<row, usable, writer, lost>>

\* process_order commits many times before its request ends.
CommitMidway(s) ==
    /\ At(s, "api")
    /\ writer = s
    /\ Committed(s)
    /\ Becomes(s, [job[s] EXCEPT !.new = NoToken])
    /\ UNCHANGED <<live, clash>>

\* The request ends well, or is a failed run, which records its failure.
CommitAtEnd(s) ==
    /\ At(s, "finish") \/ (At(s, "raised") /\ job[s].kind = "run")
    /\ Committed(s)
    /\ Becomes(s, NoJob)
    /\ UNCHANGED <<live, clash>>

UndoneUnreleased(s) ==   \* mutant: the row lock outlives its request
    /\ lost' = lost \cup ({job[s].new} \ {NoToken})
    /\ Becomes(s, NoJob)
    /\ UNCHANGED <<live, row, usable, writer, clash>>

\* The transaction of s is undone.
Undone(s) ==
    /\ writer' = IF writer = s THEN NoSession ELSE writer
    /\ lost' = lost \cup ({job[s].new} \ {NoToken})
    /\ Becomes(s, NoJob)
    /\ UNCHANGED <<live, row, usable, clash>>

\* session_scope rolls back when anything but a run raises.
RollBack(s) ==
    /\ At(s, "raised") /\ job[s].kind # "run"
    /\ Undone(s)

\* A database error leaves the session unusable for any caller.
DatabaseError(s) ==
    /\ ~At(s, "idle")
    /\ Undone(s)

-----------------------------------------------------------------------------
(* Time, and the process *)

\* The access token comes within the leeway of its expiry.
Expire ==
    /\ usable
    /\ usable' = FALSE
    /\ UNCHANGED <<live, row, writer, job, lost, clash>>

Crash ==
    /\ \E s \in Sessions : ~At(s, "idle")
    /\ job' = [s \in Sessions |-> NoJob]
    /\ writer' = NoSession
    /\ lost' = lost \cup ({job[s].new : s \in Sessions} \ {NoToken})
    /\ UNCHANGED <<live, row, usable, clash>>

\* What the thread of session s does once its request has come.
Step(s) ==
    \/ ReadStale(s) \/ Succeed(s) \/ Fail(s)
    \/ RefreshOk(s) \/ RefreshRejected(s) \/ RefreshUnanswered(s)
    \/ ExchangeOk(s) \/ ExchangeFails(s)
    \/ Store(s) \/ CommitMidway(s) \/ CommitAtEnd(s)
    \/ RollBack(s)

Next ==
    \/ \E s \in Sessions : Step(s) \/ DatabaseError(s) \/ \E kind \in Kinds : Begin(s, kind)
    \/ Expire
    \/ Crash

Spec == Init /\ [][Next]_vars

\* A thread is scheduled again: the token endpoint has a timeout, and a row
\* lock is waited for only while another thread is on its way to a commit.
FairSpec == Spec /\ \A s \in Sessions : WF_vars(Step(s))
-----------------------------------------------------------------------------
(* What the store promises *)

\* The live token is in the row or on its way to it.
Chain == live = row \/ \E s \in Sessions : Holds(s)

\* The chain of refresh tokens breaks only with a token whose transaction was
\* undone, whose answer never came, or which an older one overwrote: no order
\* of reads, refreshes, row locks and commits loses it otherwise.
ChainHeld == Chain \/ live \in lost

\* The row never goes back to an older token, unless the seller re-authorized
\* while a request held a new one: of two requests that read the same token
\* one is rejected, and nobody reads the next one before it is committed.
RowMovesForward == [][clash = 0 => row' >= row]_vars

\* A refresh is rejected, and the operator alerted to re-authorize, only when
\* a token was lost or another request has refreshed since this one read.
RejectionExplained ==
    \A s \in Sessions :
       At(s, "refresh") /\ job[s].seen # live =>
          \/ live \in lost
          \/ row # job[s].seen
          \/ \E t \in Sessions \ {s} : job[t].new # NoToken

\* Every request ends, although the UPDATE of one may wait for another's.
EveryRequestEnds == \A s \in Sessions : ~At(s, "idle") ~> At(s, "idle")
=============================================================================
