------------------------------ MODULE SyncRun ------------------------------
(***************************************************************************)
(* One cron run, app/scheduler/job.py, under the advisory lock of          *)
(* app/scheduler/lock.py and the connection pool of app/core/db.py.        *)
(*                                                                         *)
(* PostgreSQL grants pg_try_advisory_lock to a connection, and grants it   *)
(* again to the connection that holds it.  A session owns a connection     *)
(* only for the length of a transaction: every commit puts it at the end   *)
(* of the pool's queue and the next statement takes the one at the front.  *)
(* Sessions are the calls of run_sync and all other requests of the        *)
(* process: notifications, scans, health and status pages.                 *)
(***************************************************************************)
EXTENDS Naturals, Sequences, FiniteSets, Functions

CONSTANTS
    Runs,       \* calls of run_sync
    Others,     \* sessions of the other requests
    Conns,      \* connections: pool_size and max_overflow together
    PoolSize,   \* the connections the pool keeps when they are idle
    MaxCommits, \* bound on the transactions of a run's batch
    MaxOthers,  \* bound on the transactions of the other requests
    NoConn      \* a session without a connection

ASSUME SessionsAssumption   == Runs \cap Others = {}
ASSUME RunsAssumption       == IsFiniteSet(Runs)
ASSUME ConnsAssumption      == NoConn \notin Conns
ASSUME PoolSizeAssumption   == PoolSize \in Nat
ASSUME MaxCommitsAssumption == MaxCommits \in Nat
ASSUME MaxOthersAssumption  == MaxOthers \in Nat

VARIABLES
    status,   \* cron_runs.status of each run
    pc,       \* where each run is in run_sync
    result,   \* the status a run is about to record
    left,     \* transactions a run's batch has yet to commit
    conn,     \* the connection each session has checked out
    pool,     \* the queue of idle connections
    served,   \* transactions the other requests have begun
    held,     \* PostgreSQL: how often a connection holds the lock
    grant,    \* history: the connection a run was granted the lock on
    moved,    \* history: check-outs by which a lock and its run parted
    dropped   \* history: lock holds nobody will give back

vars == <<status, pc, result, left, conn, pool, served, held, grant, moved, dropped>>

Sessions == Runs \cup Others

-----------------------------------------------------------------------------
RunStatuses == {"none", "running", "success", "failed", "skipped"}

\* Where the next statement needs a connection, and where none is needed.
StatementPcs == {"insert", "lock", "work", "unlock", "record", "alert"}
BusyPcs == StatementPcs \cup {"leave"}

\* The body and the exit of `with advisory_lock(session)`.
InBlock(s) == s \in Runs /\ pc[s] \in {"work", "unlock"}
Working == {r \in Runs : InBlock(r)}

Open == Range(pool) \cup ({conn[s] : s \in Sessions} \ {NoConn})

TypeOK ==
    /\ status \in [Runs -> RunStatuses]
    /\ pc \in [Runs -> BusyPcs \cup {"idle", "ended"}]
    /\ result \in [Runs -> RunStatuses]
    /\ left \in [Runs -> 0..MaxCommits]
    /\ conn \in [Sessions -> Conns \cup {NoConn}]
    /\ pool \in Seq(Conns)
    /\ Len(pool) <= PoolSize
    /\ served \in 0..MaxOthers
    /\ held \in [Conns -> Nat]
    /\ grant \in [Runs -> Conns \cup {NoConn}]
    /\ moved \in Nat
    /\ dropped \in Nat

Init ==
    /\ status = [r \in Runs |-> "none"]
    /\ pc = [r \in Runs |-> "idle"]
    /\ result = [r \in Runs |-> "none"]
    /\ left = [r \in Runs |-> 0]
    /\ conn = [s \in Sessions |-> NoConn]
    /\ pool = <<>>
    /\ served = 0
    /\ held = [c \in Conns |-> 0]
    /\ grant = [r \in Runs |-> NoConn]
    /\ moved = 0
    /\ dropped = 0

-----------------------------------------------------------------------------
(* The pool *)

\* The connection at the front of the queue, or a new one.
Available(c) ==
    IF pool # <<>> THEN c = Head(pool) ELSE c \in Conns \ Open

\* Session s goes on with connection c: does the lock lose its run by it?
Parts(s, c) ==
    \/ held[c] > 0 /\ ~(InBlock(s) /\ grant[s] = c)
    \/ InBlock(s) /\ grant[s] # c

CheckOut(s) ==
    /\ conn[s] = NoConn
    /\ \E c \in Conns :
          /\ Available(c)
          /\ conn' = [conn EXCEPT ![s] = c]
          /\ moved' = IF Parts(s, c) THEN moved + 1 ELSE moved
    /\ pool' = IF pool # <<>> THEN Tail(pool) ELSE pool
    /\ UNCHANGED <<status, pc, result, left, held, grant, dropped>>

GiveBackOverfull(s) ==   \* mutant: a full queue takes one more
    /\ conn' = [conn EXCEPT ![s] = NoConn]
    /\ \/ /\ Len(pool) <= PoolSize
          /\ pool' = Append(pool, conn[s])
          /\ UNCHANGED <<held, dropped>>
       \/ /\ Len(pool) > PoolSize
          /\ held' = [held EXCEPT ![conn[s]] = 0]
          /\ dropped' = dropped + held[conn[s]]
          /\ UNCHANGED pool

\* The connection of s goes back to the queue.  The rollback on return keeps
\* its advisory lock; a full queue closes the connection and the lock with it.
GiveBack(s) ==
    /\ conn' = [conn EXCEPT ![s] = NoConn]
    /\ \/ /\ Len(pool) < PoolSize
          /\ pool' = Append(pool, conn[s])
          /\ UNCHANGED <<held, dropped>>
       \/ /\ Len(pool) >= PoolSize
          /\ held' = [held EXCEPT ![conn[s]] = 0]
          /\ dropped' = dropped + held[conn[s]]
          /\ UNCHANGED pool

\* At the end of a session: as GiveBack, if it has a connection at all.
Close(s) ==
    \/ conn[s] # NoConn /\ GiveBack(s)
    \/ conn[s] = NoConn /\ UNCHANGED <<conn, pool, held, dropped>>

-----------------------------------------------------------------------------
(* run_sync *)

\* POST /internal/run: a session is opened, without a connection.
Start(r) ==
    /\ pc[r] = "idle"
    /\ pc' = [pc EXCEPT ![r] = "insert"]
    /\ UNCHANGED <<status, result, left, conn, pool, served, held, grant, moved, dropped>>

\* A statement of the run in a new transaction.
Connect(r) ==
    /\ pc[r] \in StatementPcs
    /\ CheckOut(r)
    /\ UNCHANGED served

Ready(r, p) == pc[r] = p /\ conn[r] # NoConn

\* The row is committed before the lock is tried.
Insert(r) ==
    /\ Ready(r, "insert")
    /\ status' = [status EXCEPT ![r] = "running"]
    /\ pc' = [pc EXCEPT ![r] = "lock"]
    /\ GiveBack(r)
    /\ UNCHANGED <<result, left, served, grant, moved>>

\* PostgreSQL: free, or held by this very connection.
Grants(c) == \A d \in Conns \ {c} : held[d] = 0

LockGranted(r) ==
    /\ Ready(r, "lock")
    /\ Grants(conn[r])
    /\ held' = [held EXCEPT ![conn[r]] = @ + 1]
    /\ grant' = [grant EXCEPT ![r] = conn[r]]
    /\ left' \in {[left EXCEPT ![r] = n] : n \in 0..MaxCommits}
    /\ pc' = [pc EXCEPT ![r] = "work"]
    /\ UNCHANGED <<status, result, conn, pool, served, moved, dropped>>

LockIgnored(r) ==   \* mutant: the answer of pg_try_advisory_lock is not looked at
    /\ Ready(r, "lock")
    /\ ~Grants(conn[r])
    /\ grant' = [grant EXCEPT ![r] = conn[r]]
    /\ left' \in {[left EXCEPT ![r] = n] : n \in 0..MaxCommits}
    /\ pc' = [pc EXCEPT ![r] = "work"]
    /\ UNCHANGED <<status, result, conn, pool, served, held, moved, dropped>>

LockAwaited(r) ==   \* mutant: pg_advisory_lock, which blocks
    /\ Ready(r, "lock")
    /\ ~Grants(conn[r])
    /\ UNCHANGED vars

\* LockNotAcquired is raised before the body: nothing is unlocked.
LockRefused(r) ==
    /\ Ready(r, "lock")
    /\ ~Grants(conn[r])
    /\ result' = [result EXCEPT ![r] = "skipped"]
    /\ pc' = [pc EXCEPT ![r] = "record"]
    /\ UNCHANGED <<status, left, conn, pool, served, held, grant, moved, dropped>>

\* process_order commits after each of its steps.
Commit(r) ==
    /\ Ready(r, "work")
    /\ left[r] > 0
    /\ left' = [left EXCEPT ![r] = @ - 1]
    /\ GiveBack(r)
    /\ UNCHANGED <<status, pc, result, served, grant, moved>>

LeaveBlockNoFinally(r) ==   \* mutant: an exception skips the unlocking
    /\ pc[r] = "work"
    /\ \/ /\ left[r] = 0
          /\ result' = [result EXCEPT ![r] = "success"]
          /\ pc' = [pc EXCEPT ![r] = "unlock"]
       \/ /\ result' = [result EXCEPT ![r] = "failed"]
          /\ pc' = [pc EXCEPT ![r] = "record"]
    /\ UNCHANGED <<status, left, conn, pool, served, held, grant, moved, dropped>>

\* The batch is done, or a call to Mercado Libre, SimpliRoute or the geocoder
\* raises; either way the finally clause unlocks.
LeaveBlock(r) ==
    /\ pc[r] = "work"
    /\ \/ left[r] = 0 /\ result' = [result EXCEPT ![r] = "success"]
       \/ result' = [result EXCEPT ![r] = "failed"]
    /\ pc' = [pc EXCEPT ![r] = "unlock"]
    /\ UNCHANGED <<status, left, conn, pool, served, held, grant, moved, dropped>>

\* On a connection without the lock pg_advisory_unlock only warns.
Unlocked(c) == [held EXCEPT ![c] = IF @ > 0 THEN @ - 1 ELSE 0]

Unlock(r) ==
    /\ Ready(r, "unlock")
    /\ held' = Unlocked(conn[r])
    /\ pc' = [pc EXCEPT ![r] = "record"]
    /\ UNCHANGED <<status, result, left, conn, pool, served, grant, moved, dropped>>

\* One of the final commits; only the failures alert, and raise.
Record(r) ==
    /\ Ready(r, "record")
    /\ status' = [status EXCEPT ![r] = result[r]]
    /\ pc' = [pc EXCEPT ![r] = IF result[r] = "failed" THEN "alert" ELSE "leave"]
    /\ GiveBack(r)
    /\ UNCHANGED <<result, left, served, grant, moved>>

Alert(r) ==
    /\ Ready(r, "alert")
    /\ pc' = [pc EXCEPT ![r] = "leave"]
    /\ GiveBack(r)
    /\ UNCHANGED <<status, result, left, served, grant, moved>>

\* A statement fails and aborts the transaction (an IntegrityError lost to a
\* notification, for one).  Unlocking and recording fail on the same session,
\* so run_sync raises from its own except clause: the row stays as it is and
\* the connection goes back to the pool as it is.
DatabaseError(r) ==
    /\ pc[r] \in StatementPcs
    /\ conn[r] # NoConn
    /\ pc' = [pc EXCEPT ![r] = "leave"]
    /\ dropped' = IF InBlock(r) THEN dropped + 1 ELSE dropped
    /\ UNCHANGED <<status, result, left, conn, pool, served, held, grant, moved>>

\* No connection within pool_timeout: an exception at the statement.  The
\* handlers of run_sync go on, with statements that need a connection again.
PoolTimeout(r) ==
    /\ pc[r] \in StatementPcs
    /\ conn[r] = NoConn
    /\ pool = <<>> /\ Conns \subseteq Open
    /\ LET next == CASE pc[r] \in {"lock", "unlock"} -> "record"
                     [] pc[r] = "work"               -> "unlock"
                     [] OTHER                        -> "leave"
       IN  /\ pc' = [pc EXCEPT ![r] = next]
           /\ result' = [result EXCEPT ![r] = IF next = "leave" THEN @ ELSE "failed"]
    /\ dropped' = IF pc[r] = "unlock" THEN dropped + 1 ELSE dropped
    /\ UNCHANGED <<status, left, conn, pool, served, held, grant, moved>>

\* session_scope ends: rollback of what is open, and close.
Leave(r) ==
    /\ pc[r] = "leave"
    /\ Close(r)
    /\ pc' = [pc EXCEPT ![r] = "ended"]
    /\ UNCHANGED <<status, result, left, served, grant, moved>>

-----------------------------------------------------------------------------
(* The other requests, and the process *)

OtherConnects(s) ==
    /\ s \in Others
    /\ served < MaxOthers
    /\ served' = served + 1
    /\ CheckOut(s)

OtherCommits(s) ==
    /\ s \in Others
    /\ conn[s] # NoConn
    /\ GiveBack(s)
    /\ UNCHANGED <<status, pc, result, left, served, grant, moved>>

\* The process stops and PostgreSQL ends its connections.
Restart ==
    /\ \E r \in Runs : pc[r] \in BusyPcs
    /\ pc' = [r \in Runs |-> IF pc[r] \in BusyPcs THEN "ended" ELSE pc[r]]
    /\ conn' = [s \in Sessions |-> NoConn]
    /\ pool' = <<>>
    /\ held' = [c \in Conns |-> 0]
    /\ UNCHANGED <<status, result, left, served, grant, moved, dropped>>

\* Every run has ended: the end of a bounded behaviour, not a deadlock.
Finished ==
    /\ \A r \in Runs : pc[r] = "ended"
    /\ UNCHANGED vars

RunStep(r) ==
    \/ Connect(r) \/ Insert(r) \/ LockGranted(r) \/ LockRefused(r)
    \/ Commit(r) \/ LeaveBlock(r) \/ Unlock(r) \/ Record(r) \/ Alert(r)
    \/ PoolTimeout(r) \/ Leave(r)

Next ==
    \/ \E r \in Runs : Start(r) \/ RunStep(r) \/ DatabaseError(r)
    \/ \E s \in Others : OtherConnects(s) \/ OtherCommits(s)
    \/ Restart
    \/ Finished

Spec == Init /\ [][Next]_vars

\* A run's thread is scheduled again; no other request need ever end, as a
\* statement waits for a connection no longer than pool_timeout.
FairSpec == Spec /\ \A r \in Runs : WF_vars(RunStep(r))
-----------------------------------------------------------------------------
(* What the lock gives *)

\* Every run in the locked block beyond the first is paid for by an event that
\* parted a lock from its run: a connection that carries the lock was taken by
\* another session, the run went on with another connection, or the lock was
\* lost with its session or its connection.  Nothing else lets two runs in.
ExclusionExplained == Cardinality(Working) <= 1 + moved + dropped

\* A run is turned away only while another run works, or after such an event
\* has left a lock behind.
SkipExplained ==
    [][\A r \in Runs : result'[r] = "skipped" /\ result[r] # "skipped"
          => Working # {} \/ moved + dropped > 0]_vars

\* Every run ends, whatever the other requests do with the pool.
EveryRunEnds == \A r \in Runs : pc[r] \in BusyPcs ~> pc[r] = "ended"

\* lock.py: "guarantee that only one worker is processing orders at a time".
OneRunAtATime == Cardinality(Working) <= 1
=============================================================================
