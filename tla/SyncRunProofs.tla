--------------------------- MODULE SyncRunProofs ---------------------------
(***************************************************************************)
(* What holds of the cron runs, the advisory lock and the pool for every   *)
(* number of runs, of other requests and of connections.                   *)
(***************************************************************************)
EXTENDS SyncRun, FiniteSetTheorems, TLAPS

-----------------------------------------------------------------------------
(* The inductive invariant *)

\* A connection is checked out by one session, or is once in the queue.
Exclusive ==
    /\ \A s, t \in Sessions : conn[s] # NoConn /\ conn[s] = conn[t] => s = t
    /\ \A i, j \in 1..Len(pool) : pool[i] = pool[j] => i = j
    /\ \A s \in Sessions, i \in 1..Len(pool) : conn[s] # pool[i]

\* PostgreSQL lets one connection hold the lock.
OneHolder == \A c, d \in Conns : held[c] > 0 /\ held[d] > 0 => c = d

\* A connection that holds the lock more than once was taken over with it.
HoldsPaid == \A c \in Conns : held[c] <= 1 + moved

\* So was the connection of a run that tries the lock it holds already.
CandidatesPaid == \A r \in Runs : Ready(r, "lock") => held[conn[r]] <= moved

\* A run in the block has a hold of the lock, or has been left without.
WorkPaid ==
    \/ Cardinality(Working) <= dropped
    \/ \E c \in Conns : Cardinality(Working) <= held[c] + dropped

\* As long as no lock has been parted from its run, a run works on the
\* connection it was granted the lock on, and a lock is that of a working run.
OwnConnection == moved = 0 => \A r \in Working : conn[r] \in {NoConn, grant[r]}
OwnLock ==
    moved = 0 /\ dropped = 0 =>
       \A c \in Conns : held[c] > 0 => \E r \in Working : grant[r] = c

LockInv ==
    /\ Exclusive
    /\ OneHolder
    /\ HoldsPaid
    /\ CandidatesPaid
    /\ WorkPaid
    /\ OwnConnection
    /\ OwnLock

-----------------------------------------------------------------------------
(* Types *)

LEMMA Basics ==
    /\ Runs \subseteq Sessions /\ Others \subseteq Sessions /\ Working \subseteq Runs
    /\ NoConn \notin Conns
    /\ PoolSize \in Nat /\ MaxCommits \in Nat /\ MaxOthers \in Nat
BY ConnsAssumption, PoolSizeAssumption, MaxCommitsAssumption, MaxOthersAssumption
   DEF Sessions, Working

\* A checkout keeps the types.
LEMMA CheckOutTypes ==
    ASSUME TypeOK, NEW s \in Sessions, CheckOut(s), served' \in 0..MaxOthers
    PROVE  TypeOK'
<1>1. PICK c \in Conns :
         /\ Available(c)
         /\ conn' = [conn EXCEPT ![s] = c]
         /\ moved' = IF Parts(s, c) THEN moved + 1 ELSE moved
  BY DEF CheckOut
<1>2. pool' \in Seq(Conns) /\ Len(pool') <= PoolSize
  BY Basics DEF CheckOut, TypeOK
<1>3. conn' \in [Sessions -> Conns \cup {NoConn}] /\ moved' \in Nat
  BY <1>1 DEF TypeOK
<1>. QED
  BY <1>2, <1>3 DEF TypeOK, CheckOut

\* A connection that is given back keeps them.
LEMMA GiveBackTypes ==
    ASSUME TypeOK, NEW s \in Sessions, conn[s] # NoConn, GiveBack(s)
    PROVE  /\ conn' \in [Sessions -> Conns \cup {NoConn}]
           /\ pool' \in Seq(Conns) /\ Len(pool') <= PoolSize
           /\ held' \in [Conns -> Nat] /\ dropped' \in Nat
<1>1. conn[s] \in Conns
  BY DEF TypeOK
<1>2. conn' \in [Sessions -> Conns \cup {NoConn}]
  BY DEF TypeOK, GiveBack
<1>3. CASE Len(pool) < PoolSize /\ pool' = Append(pool, conn[s]) /\ UNCHANGED <<held, dropped>>
  BY <1>1, <1>2, <1>3, Basics DEF TypeOK
<1>4. CASE /\ held' = [held EXCEPT ![conn[s]] = 0] /\ dropped' = dropped + held[conn[s]]
           /\ UNCHANGED pool
  BY <1>1, <1>2, <1>4 DEF TypeOK
<1>. QED
  BY <1>3, <1>4 DEF GiveBack

\* Every step keeps the types.
LEMMA StepTypes == ASSUME TypeOK, [Next]_vars PROVE TypeOK'
<1>. USE DEF BusyPcs, StatementPcs, RunStatuses
<1>1. ASSUME NEW r \in Runs, Start(r) PROVE TypeOK'
  BY <1>1 DEF Start, TypeOK
<1>2. ASSUME NEW r \in Runs, Connect(r) PROVE TypeOK'
  BY <1>2, CheckOutTypes, Basics DEF Connect, TypeOK
<1>3. ASSUME NEW r \in Runs,
             Insert(r) \/ Commit(r) \/ Record(r) \/ Alert(r)
      PROVE  TypeOK'
  <2>1. r \in Sessions /\ conn[r] # NoConn /\ GiveBack(r)
    BY <1>3, Basics DEF Insert, Commit, Record, Alert, Ready
  <2>2. /\ conn' \in [Sessions -> Conns \cup {NoConn}]
        /\ pool' \in Seq(Conns) /\ Len(pool') <= PoolSize
        /\ held' \in [Conns -> Nat] /\ dropped' \in Nat
    BY <2>1, GiveBackTypes
  <2>3. /\ status' \in [Runs -> RunStatuses] /\ pc' \in [Runs -> BusyPcs \cup {"idle", "ended"}]
        /\ result' \in [Runs -> RunStatuses] /\ left' \in [Runs -> 0..MaxCommits]
        /\ served' \in 0..MaxOthers /\ grant' \in [Runs -> Conns \cup {NoConn}] /\ moved' \in Nat
    <3>1. CASE Insert(r)
      BY <3>1 DEF Insert, TypeOK
    <3>2. CASE Commit(r)
      BY <3>2, Basics DEF Commit, TypeOK
    <3>3. CASE Record(r)
      BY <3>3 DEF Record, TypeOK
    <3>4. CASE Alert(r)
      BY <3>4 DEF Alert, TypeOK
    <3>. QED
      BY <1>3, <3>1, <3>2, <3>3, <3>4
  <2>. QED
    BY <2>2, <2>3 DEF TypeOK
<1>4. ASSUME NEW r \in Runs, LockGranted(r) PROVE TypeOK'
  <2>1. conn[r] \in Conns
    BY <1>4, Basics DEF LockGranted, Ready, TypeOK
  <2>2. left' \in [Runs -> 0..MaxCommits]
    BY <1>4 DEF LockGranted, TypeOK
  <2>. QED
    BY <1>4, <2>1, <2>2 DEF LockGranted, TypeOK
<1>5. ASSUME NEW r \in Runs, LockRefused(r) \/ LeaveBlock(r) PROVE TypeOK'
  BY <1>5 DEF LockRefused, LeaveBlock, TypeOK
<1>6. ASSUME NEW r \in Runs, Unlock(r) PROVE TypeOK'
  <2>1. conn[r] \in Conns /\ held \in [Conns -> Nat]
    BY <1>6, Basics DEF Unlock, Ready, TypeOK
  <2>2. (IF held[conn[r]] > 0 THEN held[conn[r]] - 1 ELSE 0) \in Nat
    BY <2>1
  <2>3. held' \in [Conns -> Nat]
    BY <1>6, <2>1, <2>2 DEF Unlock, Unlocked
  <2>. QED
    BY <1>6, <2>3 DEF Unlock, TypeOK
<1>7. ASSUME NEW r \in Runs, DatabaseError(r) PROVE TypeOK'
  BY <1>7 DEF DatabaseError, TypeOK
<1>8. ASSUME NEW r \in Runs, PoolTimeout(r) PROVE TypeOK'
  <2>1. pc' \in [Runs -> BusyPcs \cup {"idle", "ended"}] /\ result' \in [Runs -> RunStatuses]
    BY <1>8 DEF PoolTimeout, TypeOK
  <2>. QED
    BY <1>8, <2>1 DEF PoolTimeout, TypeOK
<1>9. ASSUME NEW r \in Runs, Leave(r) PROVE TypeOK'
  <2>1. CASE conn[r] # NoConn
    BY <1>9, <2>1, GiveBackTypes, Basics DEF Leave, Close, TypeOK
  <2>2. CASE conn[r] = NoConn
    BY <1>9, <2>2 DEF Leave, Close, GiveBack, TypeOK
  <2>. QED
    BY <2>1, <2>2
<1>10. ASSUME NEW s \in Others, OtherConnects(s) PROVE TypeOK'
  BY <1>10, CheckOutTypes, Basics DEF OtherConnects, TypeOK
<1>11. ASSUME NEW s \in Others, OtherCommits(s) PROVE TypeOK'
  BY <1>11, GiveBackTypes, Basics DEF OtherCommits, TypeOK
<1>12. CASE Restart
  BY <1>12, Basics DEF Restart, TypeOK
<1>13. CASE UNCHANGED vars
  BY <1>13 DEF vars, TypeOK
<1>. QED
  BY <1>1, <1>2, <1>3, <1>4, <1>5, <1>6, <1>7, <1>8, <1>9, <1>10, <1>11, <1>12, <1>13
     DEF Next, RunStep, Finished

\* Every variable of the runs, the pool and the lock keeps its type, and the
\* queue never holds more connections than pool_size.
THEOREM TypeCorrect == Spec => []TypeOK
<1>1. Init => TypeOK
  BY Basics DEF Init, TypeOK, RunStatuses
<1>. QED
  BY <1>1, StepTypes, PTL DEF Spec

-----------------------------------------------------------------------------
(* Counting the runs in the block *)

\* The working runs are finite in number.
LEMMA WorkingFinite ==
    /\ IsFiniteSet(Working) /\ Cardinality(Working) \in Nat
    /\ \A r : Cardinality(Working \cup {r}) <= Cardinality(Working) + 1
    /\ \A r \in Working : Cardinality(Working \ {r}) = Cardinality(Working) - 1
<1>1. IsFiniteSet(Working) /\ Cardinality(Working) \in Nat
  BY Basics, RunsAssumption, FS_Subset, FS_CardinalityType
<1>2. ASSUME NEW r PROVE Cardinality(Working \cup {r}) <= Cardinality(Working) + 1
  BY <1>1, FS_AddElement
<1>3. ASSUME NEW r \in Working PROVE Cardinality(Working \ {r}) = Cardinality(Working) - 1
  BY <1>1, FS_RemoveElement
<1>. QED
  BY <1>1, <1>2, <1>3

-----------------------------------------------------------------------------
(* Steps of one kind *)

\* A checkout: the connection is nobody else's, and if the lock goes with it,
\* or stays behind, the step is counted.
LEMMA CheckOutStep ==
    ASSUME TypeOK, LockInv, NEW s \in Sessions, CheckOut(s)
    PROVE  LockInv'
<1>1. PICK c \in Conns :
         /\ Available(c)
         /\ conn' = [conn EXCEPT ![s] = c]
         /\ moved' = IF Parts(s, c) THEN moved + 1 ELSE moved
  BY DEF CheckOut
<1>2. /\ conn[s] = NoConn /\ UNCHANGED <<pc, held, grant, dropped>>
      /\ pool' = IF pool # <<>> THEN Tail(pool) ELSE pool
      /\ moved \in Nat /\ moved' \in Nat /\ moved' >= moved /\ dropped \in Nat
      /\ held \in [Conns -> Nat] /\ pool \in Seq(Conns)
      /\ conn \in [Sessions -> Conns \cup {NoConn}]
  BY <1>1 DEF CheckOut, TypeOK
<1>3. Working' = Working
  BY <1>2 DEF Working, InBlock
<1>4. \A t \in Sessions : conn[t] # c
  <2>1. CASE pool # <<>>
    BY <1>1, <1>2, <2>1 DEF Available, LockInv, Exclusive
  <2>2. CASE pool = <<>>
    BY <1>1, <2>2, Basics DEF Available, Open
  <2>. QED
    BY <2>1, <2>2
<1>5. Exclusive'
  <2>1. \A t, u \in Sessions : conn'[t] # NoConn /\ conn'[t] = conn'[u] => t = u
    BY <1>1, <1>2, <1>4 DEF LockInv, Exclusive
  <2>2. CASE pool = <<>>
    BY <1>2, <2>1, <2>2 DEF Exclusive
  <2>3. CASE pool # <<>>
    <3>1. /\ Len(pool') = Len(pool) - 1 /\ Len(pool) \in Nat
          /\ \A i \in 1..Len(pool') : i + 1 \in 1..Len(pool) /\ pool'[i] = pool[i + 1]
          /\ c = pool[1] /\ 1 \in 1..Len(pool)
      BY <1>1, <1>2, <2>3 DEF Available
    <3>2. \A i, j \in 1..Len(pool') : pool'[i] = pool'[j] => i = j
      BY <3>1 DEF LockInv, Exclusive
    <3>3. \A t \in Sessions, i \in 1..Len(pool') : conn'[t] # pool'[i]
      BY <1>1, <1>2, <3>1 DEF LockInv, Exclusive
    <3>. QED
      BY <2>1, <3>2, <3>3 DEF Exclusive
  <2>. QED
    BY <2>2, <2>3
<1>6. OneHolder' /\ HoldsPaid' /\ WorkPaid'
  BY <1>2, <1>3 DEF LockInv, OneHolder, HoldsPaid, WorkPaid
<1>7. CandidatesPaid'
  <2>. SUFFICES ASSUME NEW r \in Runs, Ready(r, "lock")'
                PROVE  held'[conn'[r]] <= moved'
    BY DEF CandidatesPaid
  <2>1. r \in Sessions /\ pc[r] = "lock"
    BY <1>2, Basics DEF Ready
  <2>2. CASE r # s
    BY <1>1, <1>2, <2>1, <2>2 DEF Ready, LockInv, CandidatesPaid, TypeOK
  <2>3. CASE r = s /\ held[c] > 0
    <3>1. moved' = moved + 1
      BY <1>1, <2>1, <2>3 DEF Parts, InBlock
    <3>. QED
      BY <1>1, <1>2, <2>3, <3>1 DEF LockInv, HoldsPaid
  <2>4. CASE r = s /\ ~(held[c] > 0)
    BY <1>1, <1>2, <2>4
  <2>. QED
    BY <2>2, <2>3, <2>4
<1>8. OwnConnection'
  <2>. SUFFICES ASSUME moved' = 0, NEW r \in Working
                PROVE  conn'[r] \in {NoConn, grant[r]}
    BY <1>2, <1>3 DEF OwnConnection
  <2>1. moved = 0 /\ ~Parts(s, c)
    BY <1>1, <1>2
  <2>2. CASE r = s
    BY <1>1, <1>2, <2>1, <2>2 DEF Parts, Working
  <2>3. CASE r # s
    BY <1>1, <1>2, <2>1, <2>3, Basics DEF LockInv, OwnConnection
  <2>. QED
    BY <2>2, <2>3
<1>9. OwnLock'
  BY <1>2, <1>3 DEF LockInv, OwnLock
<1>. QED
  BY <1>5, <1>6, <1>7, <1>8, <1>9 DEF LockInv

\* A connection is given back, with its lock or without.
LEMMA GiveBackStep ==
    ASSUME TypeOK, LockInv, NEW s \in Sessions, conn[s] # NoConn, GiveBack(s),
           Working' = Working, UNCHANGED <<grant, moved>>,
           \A r \in Runs : pc'[r] = "lock" => pc[r] = "lock" \/ r = s
    PROVE  LockInv'
<1>1. /\ moved \in Nat /\ dropped \in Nat /\ held \in [Conns -> Nat] /\ pool \in Seq(Conns)
      /\ conn \in [Sessions -> Conns \cup {NoConn}] /\ conn[s] \in Conns
      /\ conn' = [conn EXCEPT ![s] = NoConn]
  BY DEF TypeOK, GiveBack
<1>2. /\ held' \in [Conns -> Nat] /\ dropped' \in Nat /\ dropped' >= dropped
      /\ \A c \in Conns : held'[c] <= held[c] /\ held[c] + dropped <= held'[c] + dropped'
      /\ \A c \in Conns : held'[c] # held[c] => held'[c] = 0
  <2>1. CASE UNCHANGED <<held, dropped>>
    BY <1>1, <2>1
  <2>2. CASE held' = [held EXCEPT ![conn[s]] = 0] /\ dropped' = dropped + held[conn[s]]
    BY <1>1, <2>2
  <2>. QED
    BY <2>1, <2>2 DEF GiveBack
<1>3. Exclusive'
  <2>1. \A t, u \in Sessions : conn'[t] # NoConn /\ conn'[t] = conn'[u] => t = u
    BY <1>1 DEF LockInv, Exclusive
  <2>2. CASE pool' = pool
    BY <1>1, <2>1, <2>2, Basics DEF LockInv, Exclusive
  <2>3. CASE pool' = Append(pool, conn[s])
    <3>1. /\ Len(pool') = Len(pool) + 1 /\ Len(pool) \in Nat
          /\ \A i \in 1..Len(pool) : pool'[i] = pool[i]
          /\ pool'[Len(pool')] = conn[s]
      BY <1>1, <2>3
    <3>2. \A i, j \in 1..Len(pool') : pool'[i] = pool'[j] => i = j
      <4>. SUFFICES ASSUME NEW i \in 1..Len(pool'), NEW j \in 1..Len(pool'), pool'[i] = pool'[j]
                    PROVE  i = j
        OBVIOUS
      <4>1. CASE i \in 1..Len(pool) /\ j \in 1..Len(pool)
        BY <3>1, <4>1 DEF LockInv, Exclusive
      <4>2. CASE i \in 1..Len(pool) /\ j = Len(pool')
        BY <3>1, <4>2 DEF LockInv, Exclusive
      <4>3. CASE j \in 1..Len(pool) /\ i = Len(pool')
        BY <3>1, <4>3 DEF LockInv, Exclusive
      <4>. QED
        BY <3>1, <4>1, <4>2, <4>3
    <3>3. \A t \in Sessions, i \in 1..Len(pool') : conn'[t] # pool'[i]
      <4>. SUFFICES ASSUME NEW t \in Sessions, NEW i \in 1..Len(pool') PROVE conn'[t] # pool'[i]
        OBVIOUS
      <4>1. pool'[i] \in Conns
        BY <1>1, <2>3
      <4>2. CASE t = s
        BY <1>1, <4>1, <4>2, Basics
      <4>3. CASE t # s /\ i \in 1..Len(pool)
        BY <1>1, <3>1, <4>3 DEF LockInv, Exclusive
      <4>4. CASE t # s /\ i = Len(pool')
        BY <1>1, <3>1, <4>4 DEF LockInv, Exclusive
      <4>. QED
        BY <3>1, <4>2, <4>3, <4>4
    <3>. QED
      BY <2>1, <3>2, <3>3 DEF Exclusive
  <2>. QED
    BY <2>2, <2>3 DEF GiveBack
<1>4. OneHolder' /\ HoldsPaid'
  <2>1. \A c \in Conns : held[c] \in Nat /\ held'[c] \in Nat /\ held'[c] <= held[c]
    BY <1>1, <1>2
  <2>2. OneHolder'
    BY <2>1 DEF LockInv, OneHolder
  <2>3. ASSUME NEW c \in Conns PROVE held'[c] <= 1 + moved'
    <3>1. held[c] <= 1 + moved
      BY DEF LockInv, HoldsPaid
    <3>. QED
      BY <1>1, <2>1, <3>1
  <2>. QED
    BY <2>2, <2>3 DEF HoldsPaid
<1>5. CandidatesPaid'
  <2>. SUFFICES ASSUME NEW r \in Runs, Ready(r, "lock")'
                PROVE  held'[conn'[r]] <= moved'
    BY DEF CandidatesPaid
  <2>1. r \in Sessions /\ r # s /\ pc[r] = "lock" /\ conn'[r] = conn[r] /\ conn[r] \in Conns
    BY <1>1, Basics DEF Ready
  <2>2. held[conn[r]] <= moved
    BY <2>1, Basics DEF Ready, LockInv, CandidatesPaid
  <2>. QED
    BY <1>1, <1>2, <2>1, <2>2
<1>6. WorkPaid'
  <2>1. Cardinality(Working) \in Nat
    BY WorkingFinite
  <2>2. CASE Cardinality(Working) <= dropped
    BY <1>1, <1>2, <2>1, <2>2 DEF WorkPaid
  <2>3. ASSUME NEW c \in Conns, Cardinality(Working) <= held[c] + dropped
        PROVE  WorkPaid'
    BY <1>1, <1>2, <2>1, <2>3 DEF WorkPaid
  <2>. QED
    BY <2>2, <2>3 DEF LockInv, WorkPaid
<1>7. OwnConnection'
  BY <1>1, Basics DEF LockInv, OwnConnection
<1>8. OwnLock'
  BY <1>1, <1>2 DEF LockInv, OwnLock
<1>. QED
  BY <1>3, <1>4, <1>5, <1>6, <1>7, <1>8 DEF LockInv

\* A step that leaves the pool, the lock and the block as they are.
LEMMA QuietStep ==
    ASSUME LockInv, Working' = Working, UNCHANGED <<conn, pool, held, grant, moved, dropped>>,
           \A r \in Runs : pc'[r] = "lock" /\ conn[r] # NoConn => pc[r] = "lock"
    PROVE  LockInv'
<1>1. CandidatesPaid'
  BY DEF LockInv, CandidatesPaid, Ready
<1>. QED
  BY <1>1 DEF LockInv, Exclusive, OneHolder, HoldsPaid, WorkPaid, OwnConnection, OwnLock

\* The lock is granted: to a connection nobody else shares it with.
LEMMA GrantStep ==
    ASSUME TypeOK, LockInv, NEW r \in Runs, LockGranted(r)
    PROVE  LockInv'
<1>. DEFINE c == conn[r]
<1>1. /\ pc[r] = "lock" /\ c # NoConn /\ c \in Conns /\ r \in Sessions
      /\ moved \in Nat /\ dropped \in Nat /\ held \in [Conns -> Nat]
      /\ grant \in [Runs -> Conns \cup {NoConn}] /\ pc \in [Runs -> BusyPcs \cup {"idle", "ended"}]
      /\ held' = [held EXCEPT ![c] = @ + 1] /\ grant' = [grant EXCEPT ![r] = c]
      /\ pc' = [pc EXCEPT ![r] = "work"]
      /\ UNCHANGED <<conn, pool, moved, dropped>>
      /\ \A d \in Conns \ {c} : held[d] = 0
  BY Basics DEF TypeOK, LockGranted, Ready, Grants
<1>2. r \notin Working /\ Working' = Working \cup {r}
  BY <1>1 DEF Working, InBlock
<1>3. held[c] <= moved
  BY <1>1 DEF LockInv, CandidatesPaid, Ready
<1>4. Exclusive'
  BY <1>1 DEF LockInv, Exclusive
<1>5. OneHolder'
  BY <1>1 DEF OneHolder
<1>6. HoldsPaid'
  BY <1>1, <1>3 DEF LockInv, HoldsPaid
<1>7. CandidatesPaid'
  <2>. SUFFICES ASSUME NEW q \in Runs, Ready(q, "lock")'
                PROVE  held'[conn'[q]] <= moved'
    BY DEF CandidatesPaid
  <2>1. q # r /\ pc[q] = "lock" /\ conn[q] # NoConn /\ q \in Sessions
    BY <1>1, Basics DEF Ready
  <2>2. conn[q] # c /\ conn[q] \in Conns
    BY <1>1, <2>1 DEF LockInv, Exclusive, TypeOK
  <2>. QED
    BY <1>1, <2>2
<1>8. WorkPaid'
  <2>1. Cardinality(Working) \in Nat /\ Cardinality(Working') <= Cardinality(Working) + 1
    BY <1>2, WorkingFinite
  <2>2. Cardinality(Working') \in Nat
    BY <1>2, <2>1, WorkingFinite, FS_AddElement
  <2>3. Cardinality(Working) <= held[c] + dropped
    BY <1>1, <2>1 DEF LockInv, WorkPaid
  <2>. QED
    BY <1>1, <2>1, <2>2, <2>3 DEF WorkPaid
<1>9. OwnConnection'
  BY <1>1, <1>2, Basics DEF LockInv, OwnConnection
<1>10. OwnLock'
  <2>. SUFFICES ASSUME moved = 0, dropped = 0, NEW d \in Conns, held'[d] > 0
                PROVE  \E q \in Working' : grant'[q] = d
    BY <1>1 DEF OwnLock
  <2>1. d = c
    BY <1>1
  <2>. QED
    BY <1>1, <1>2, <2>1
<1>. QED
  BY <1>4, <1>5, <1>6, <1>7, <1>8, <1>9, <1>10 DEF LockInv

\* A run unlocks and leaves the block: on whatever connection it has.
LEMMA UnlockStep ==
    ASSUME TypeOK, LockInv, NEW r \in Runs, Unlock(r)
    PROVE  LockInv'
<1>. DEFINE c == conn[r]
<1>1. /\ pc[r] = "unlock" /\ c # NoConn /\ c \in Conns /\ r \in Sessions
      /\ moved \in Nat /\ dropped \in Nat /\ held \in [Conns -> Nat]
      /\ pc \in [Runs -> BusyPcs \cup {"idle", "ended"}]
      /\ held' = [held EXCEPT ![c] = IF @ > 0 THEN @ - 1 ELSE 0]
      /\ pc' = [pc EXCEPT ![r] = "record"]
      /\ UNCHANGED <<conn, pool, grant, moved, dropped>>
  BY Basics DEF TypeOK, Unlock, Unlocked, Ready
<1>2. r \in Working /\ Working' = Working \ {r}
  BY <1>1 DEF Working, InBlock
<1>3. /\ held' \in [Conns -> Nat]
      /\ \A d \in Conns : held'[d] <= held[d] /\ held[d] <= held'[d] + 1
      /\ \A d \in Conns \ {c} : held'[d] = held[d]
  BY <1>1
<1>4. Exclusive' /\ OneHolder' /\ HoldsPaid'
  BY <1>1, <1>3 DEF LockInv, Exclusive, OneHolder, HoldsPaid
<1>5. CandidatesPaid'
  <2>. SUFFICES ASSUME NEW q \in Runs, Ready(q, "lock")'
                PROVE  held'[conn'[q]] <= moved'
    BY DEF CandidatesPaid
  <2>1. Ready(q, "lock") /\ conn[q] \in Conns
    BY <1>1, Basics DEF Ready, TypeOK
  <2>2. held[conn[q]] <= moved
    BY <2>1 DEF LockInv, CandidatesPaid
  <2>. QED
    BY <1>1, <1>3, <2>1, <2>2
<1>6. WorkPaid'
  <2>1. /\ Cardinality(Working) \in Nat /\ Cardinality(Working') = Cardinality(Working) - 1
    BY <1>2, WorkingFinite
  <2>2. CASE Cardinality(Working) <= dropped
    BY <1>1, <2>1, <2>2 DEF WorkPaid
  <2>3. ASSUME NEW d \in Conns, Cardinality(Working) <= held[d] + dropped
        PROVE  WorkPaid'
    BY <1>1, <1>3, <2>1, <2>3 DEF WorkPaid
  <2>. QED
    BY <2>2, <2>3 DEF LockInv, WorkPaid
<1>7. OwnConnection'
  BY <1>1, <1>2 DEF LockInv, OwnConnection
<1>8. OwnLock'
  <2>. SUFFICES ASSUME moved = 0, dropped = 0, NEW d \in Conns, held'[d] > 0
                PROVE  \E q \in Working' : grant[q] = d
    BY <1>1 DEF OwnLock
  <2>1. grant[r] = c
    BY <1>1, <1>2 DEF LockInv, OwnConnection
  <2>2. held[c] <= 1
    BY <1>1 DEF LockInv, HoldsPaid
  <2>3. d # c
    BY <1>1, <2>2
  <2>4. PICK q \in Working : grant[q] = d
    BY <1>1, <1>3, <2>3 DEF LockInv, OwnLock
  <2>. QED
    BY <1>2, <2>1, <2>3, <2>4
<1>. QED
  BY <1>4, <1>5, <1>6, <1>7, <1>8 DEF LockInv

\* A run leaves the block without unlocking, which is counted.
LEMMA LossStep ==
    ASSUME TypeOK, LockInv, NEW r \in Working, Working' = Working \ {r},
           dropped' = dropped + 1, UNCHANGED <<conn, pool, held, grant, moved>>,
           \A q \in Runs : pc'[q] = "lock" => pc[q] = "lock"
    PROVE  LockInv'
<1>1. moved \in Nat /\ dropped \in Nat /\ held \in [Conns -> Nat]
  BY DEF TypeOK
<1>2. Cardinality(Working) \in Nat /\ Cardinality(Working') = Cardinality(Working) - 1
  BY WorkingFinite
<1>3. Exclusive' /\ OneHolder' /\ HoldsPaid' /\ CandidatesPaid'
  BY DEF LockInv, Exclusive, OneHolder, HoldsPaid, CandidatesPaid, Ready
<1>4. WorkPaid'
  BY <1>1, <1>2 DEF LockInv, WorkPaid
<1>5. OwnConnection' /\ OwnLock'
  BY <1>1 DEF LockInv, OwnConnection, OwnLock
<1>. QED
  BY <1>3, <1>4, <1>5 DEF LockInv

\* The process stops: no connection, no lock, no run.
LEMMA RestartStep == ASSUME TypeOK, LockInv, Restart PROVE LockInv'
<1>1. /\ conn' = [s \in Sessions |-> NoConn] /\ pool' = <<>> /\ held' = [c \in Conns |-> 0]
      /\ \A r \in Runs : pc'[r] \notin {"work", "unlock", "lock"}
      /\ UNCHANGED <<moved, dropped>> /\ moved \in Nat /\ dropped \in Nat
  BY DEF Restart, TypeOK, BusyPcs, StatementPcs
<1>2. Working' = {}
  BY <1>1 DEF Working, InBlock
<1>3. Cardinality(Working') = 0
  BY <1>2, FS_EmptySet
<1>4. Exclusive' /\ OneHolder' /\ HoldsPaid' /\ CandidatesPaid'
  BY <1>1 DEF Exclusive, OneHolder, HoldsPaid, CandidatesPaid, Ready
<1>. QED
  BY <1>1, <1>2, <1>3, <1>4 DEF LockInv, WorkPaid, OwnConnection, OwnLock

-----------------------------------------------------------------------------
(* Every step *)

\* No step breaks the invariant.
LEMMA StepLocks == ASSUME TypeOK, LockInv, [Next]_vars PROVE LockInv'
<1>. DEFINE Candidates == \A q \in Runs : pc'[q] = "lock" /\ conn[q] # NoConn => pc[q] = "lock"
<1>. USE DEF Working, InBlock
<1>1. ASSUME NEW r \in Runs, Start(r) PROVE LockInv'
  <2>1. Working' = Working /\ Candidates
    BY <1>1 DEF Start, TypeOK
  <2>. QED
    BY <1>1, <2>1, QuietStep DEF Start
<1>2. ASSUME NEW r \in Runs, Connect(r) PROVE LockInv'
  BY <1>2, CheckOutStep, Basics DEF Connect
<1>3. ASSUME NEW r \in Runs, Insert(r) \/ Commit(r) \/ Record(r) \/ Alert(r)
      PROVE  LockInv'
  <2>1. r \in Sessions /\ conn[r] # NoConn /\ GiveBack(r) /\ UNCHANGED <<grant, moved>>
    BY <1>3, Basics DEF Insert, Commit, Record, Alert, Ready
  <2>2. Working' = Working
    BY <1>3 DEF Insert, Commit, Record, Alert, Ready, TypeOK
  <2>3. \A q \in Runs : pc'[q] = "lock" => pc[q] = "lock" \/ q = r
    BY <1>3 DEF Insert, Commit, Record, Alert, Ready, TypeOK
  <2>. QED
    BY <2>1, <2>2, <2>3, GiveBackStep
<1>4. ASSUME NEW r \in Runs, LockRefused(r) \/ LeaveBlock(r) PROVE LockInv'
  <2>1. Working' = Working /\ Candidates
    BY <1>4 DEF LockRefused, LeaveBlock, Ready, TypeOK
  <2>. QED
    BY <1>4, <2>1, QuietStep DEF LockRefused, LeaveBlock
<1>5. ASSUME NEW r \in Runs, DatabaseError(r) PROVE LockInv'
  <2>1. CASE r \in Working
    <3>1. Working' = Working \ {r} /\ \A q \in Runs : pc'[q] = "lock" => pc[q] = "lock"
      BY <1>5, <2>1 DEF DatabaseError, TypeOK
    <3>2. dropped' = dropped + 1
      BY <1>5, <2>1 DEF DatabaseError
    <3>. QED
      BY <1>5, <2>1, <3>1, <3>2, LossStep DEF DatabaseError
  <2>2. CASE r \notin Working
    <3>1. Working' = Working /\ Candidates
      BY <1>5, <2>2 DEF DatabaseError, TypeOK
    <3>2. dropped' = dropped
      BY <1>5, <2>2 DEF DatabaseError
    <3>. QED
      BY <1>5, <3>1, <3>2, QuietStep DEF DatabaseError
  <2>. QED
    BY <2>1, <2>2
<1>6. ASSUME NEW r \in Runs, PoolTimeout(r) PROVE LockInv'
  <2>1. CASE pc[r] = "unlock"
    <3>1. pc' = [pc EXCEPT ![r] = "record"] /\ dropped' = dropped + 1
      BY <1>6, <2>1 DEF PoolTimeout
    <3>2. r \in Working /\ Working' = Working \ {r}
      BY <2>1, <3>1 DEF TypeOK
    <3>3. \A q \in Runs : pc'[q] = "lock" => pc[q] = "lock"
      BY <3>1 DEF TypeOK
    <3>. QED
      BY <1>6, <3>1, <3>2, <3>3, LossStep DEF PoolTimeout
  <2>2. CASE pc[r] # "unlock"
    <3>1. PICK p \in {"unlock", "record", "leave"} :
             /\ pc' = [pc EXCEPT ![r] = p]
             /\ p = "unlock" <=> pc[r] = "work"
      BY <1>6, <2>2 DEF PoolTimeout
    <3>2. Working' = Working /\ Candidates
      BY <2>2, <3>1 DEF TypeOK
    <3>3. dropped' = dropped
      BY <1>6, <2>2 DEF PoolTimeout
    <3>. QED
      BY <1>6, <3>2, <3>3, QuietStep DEF PoolTimeout
  <2>. QED
    BY <2>1, <2>2
<1>7. ASSUME NEW r \in Runs, Leave(r) PROVE LockInv'
  <2>1. Working' = Working /\ \A q \in Runs : pc'[q] = "lock" => pc[q] = "lock"
    BY <1>7 DEF Leave, TypeOK
  <2>2. CASE conn[r] # NoConn
    <3>1. r \in Sessions /\ GiveBack(r) /\ UNCHANGED <<grant, moved>>
      BY <1>7, <2>2, Basics DEF Leave, Close
    <3>. QED
      BY <2>1, <2>2, <3>1, GiveBackStep
  <2>3. CASE conn[r] = NoConn
    <3>1. UNCHANGED <<conn, pool, held, grant, moved, dropped>>
      BY <1>7, <2>3 DEF Leave, Close
    <3>. QED
      BY <2>1, <3>1, QuietStep
  <2>. QED
    BY <2>2, <2>3
<1>8. ASSUME NEW s \in Others, OtherConnects(s) PROVE LockInv'
  BY <1>8, CheckOutStep, Basics DEF OtherConnects
<1>9. ASSUME NEW s \in Others, OtherCommits(s) PROVE LockInv'
  <2>1. Working' = Working /\ s \in Sessions
    BY <1>9, Basics DEF OtherCommits
  <2>. QED
    BY <1>9, <2>1, GiveBackStep DEF OtherCommits
<1>10. CASE UNCHANGED vars
  <2>1. Working' = Working
    BY <1>10 DEF vars
  <2>. QED
    BY <1>10, <2>1, QuietStep DEF vars
<1>. QED
  BY <1>1, <1>2, <1>3, <1>4, <1>5, <1>6, <1>7, <1>8, <1>9, <1>10,
     GrantStep, UnlockStep, RestartStep DEF Next, RunStep, Finished

\* The invariant of the lock and the pool.
THEOREM Invariance == Spec => [](TypeOK /\ LockInv)
<1>1. Init => LockInv
  <2>. SUFFICES ASSUME Init PROVE LockInv
    OBVIOUS
  <2>1. Working = {} /\ Cardinality(Working) = 0
    BY FS_EmptySet DEF Init, Working, InBlock
  <2>. QED
    BY <2>1 DEF Init, LockInv, Exclusive, OneHolder, HoldsPaid, CandidatesPaid, Ready,
                WorkPaid, OwnConnection, OwnLock
<1>2. TypeOK /\ LockInv /\ [Next]_vars => LockInv'
  BY StepLocks
<1>. QED
  BY <1>1, <1>2, TypeCorrect, PTL DEF Spec

\* However many runs, requests and connections there are, the runs that work
\* together beyond the first are no more than the events that parted a lock
\* from its run.
THEOREM ExclusionIsExplained == Spec => []ExclusionExplained
<1>1. TypeOK /\ LockInv => ExclusionExplained
  <2>. SUFFICES ASSUME TypeOK, LockInv PROVE ExclusionExplained
    OBVIOUS
  <2>1. Cardinality(Working) \in Nat /\ moved \in Nat /\ dropped \in Nat /\ held \in [Conns -> Nat]
    BY WorkingFinite DEF TypeOK
  <2>. QED
    BY <2>1 DEF LockInv, WorkPaid, HoldsPaid, ExclusionExplained
<1>. QED
  BY <1>1, Invariance, PTL

\* A run is turned away only while another one works, or after a lock was
\* parted from its run.
THEOREM SkipsAreExplained == Spec => SkipExplained
<1>1. ASSUME TypeOK, LockInv, [Next]_vars
      PROVE  [\A r \in Runs : result'[r] = "skipped" /\ result[r] # "skipped"
                 => Working # {} \/ moved + dropped > 0]_vars
  <2>. SUFFICES ASSUME NEW r \in Runs, result'[r] = "skipped", result[r] # "skipped"
                PROVE  Working # {} \/ moved + dropped > 0
    OBVIOUS
  <2>1. \/ UNCHANGED result
        \/ \E q \in Runs : LockRefused(q) \/ LeaveBlock(q) \/ PoolTimeout(q)
    BY <1>1 DEF Next, vars, RunStep, Start, Connect, CheckOut, Insert, LockGranted, Commit,
           Unlock, Record, Alert, DatabaseError, Leave, OtherConnects, OtherCommits,
           Restart, Finished
  <2>2. ASSUME NEW q \in Runs, LeaveBlock(q) \/ PoolTimeout(q)
        PROVE  result'[r] \in {result[r], "success", "failed"}
    BY <1>1, <2>2 DEF LeaveBlock, PoolTimeout, TypeOK
  <2>3. PICK q \in Runs : LockRefused(q)
    BY <2>1, <2>2
  <2>4. PICK c \in Conns : held[c] # 0
    BY <2>3 DEF LockRefused, Grants
  <2>5. held[c] > 0 /\ moved \in Nat /\ dropped \in Nat
    BY <1>1, <2>4 DEF TypeOK
  <2>6. moved = 0 /\ dropped = 0 => Working # {}
    BY <1>1, <2>5 DEF LockInv, OwnLock
  <2>. QED
    BY <2>5, <2>6
<1>. QED
  BY <1>1, Invariance, PTL DEF Spec, SkipExplained

-----------------------------------------------------------------------------
(* The length of a run *)

\* How far a run is from its end, with n commits of its batch to do: every commit
\* of the batch, and what precedes and follows the batch.
StagesLeft(p, n) ==
    CASE p = "insert" -> MaxCommits + 7
      [] p = "lock"   -> MaxCommits + 6
      [] p = "work"   -> n + 5
      [] p = "unlock" -> 4
      [] p = "record" -> 3
      [] p = "alert"  -> 2
      [] p = "leave"  -> 1
      [] p \in {"ended", "idle"} -> 0

\* A stage may take a connection first.
StepsLeft(r) == 2 * StagesLeft(pc[r], left[r]) + (IF conn[r] = NoConn THEN 1 ELSE 0)

LEMMA StagesAt ==
    ASSUME NEW n
    PROVE  /\ StagesLeft("insert", n) = MaxCommits + 7
           /\ StagesLeft("lock", n) = MaxCommits + 6
           /\ StagesLeft("work", n) = n + 5
           /\ StagesLeft("unlock", n) = 4
           /\ StagesLeft("record", n) = 3
           /\ StagesLeft("alert", n) = 2
           /\ StagesLeft("leave", n) = 1
           /\ StagesLeft("ended", n) = 0
           /\ StagesLeft("idle", n) = 0
BY DEF StagesLeft

LEMMA StagesAreCounted ==
    ASSUME NEW p \in BusyPcs \cup {"idle", "ended"}, NEW n \in 0..MaxCommits
    PROVE  /\ StagesLeft(p, n) \in 0..MaxCommits + 7
           /\ p \in BusyPcs => StagesLeft(p, n) > 0
BY MaxCommitsAssumption, StagesAt DEF BusyPcs, StatementPcs

\* A step of the run itself takes a connection, or brings it a stage further.
LEMMA RunStepLeads ==
    ASSUME TypeOK, NEW r \in Runs, RunStep(r) \/ DatabaseError(r)
    PROVE  \/ /\ pc'[r] = pc[r] /\ left'[r] = left[r]
              /\ conn[r] = NoConn /\ conn'[r] # NoConn
           \/ StagesLeft(pc'[r], left'[r]) < StagesLeft(pc[r], left[r])
<1>. DEFINE Further == StagesLeft(pc'[r], left'[r]) < StagesLeft(pc[r], left[r])
<1>1. /\ pc \in [Runs -> BusyPcs \cup {"idle", "ended"}]
      /\ left \in [Runs -> 0..MaxCommits] /\ left[r] \in 0..MaxCommits
      /\ conn \in [Sessions -> Conns \cup {NoConn}] /\ r \in Sessions
      /\ MaxCommits \in Nat
  BY MaxCommitsAssumption DEF TypeOK, Sessions
<1>2. CASE Connect(r)
  <2>1. PICK c \in Conns : conn' = [conn EXCEPT ![r] = c]
    BY <1>2 DEF Connect, CheckOut
  <2>2. conn[r] = NoConn /\ pc' = pc /\ left' = left
    BY <1>2 DEF Connect, CheckOut
  <2>. QED
    BY <1>1, <2>1, <2>2, ConnsAssumption
<1>3. CASE Insert(r)
  <2>1. pc[r] = "insert" /\ pc'[r] = "lock"
    BY <1>1, <1>3 DEF Insert, Ready
  <2>. QED
    BY <1>1, <2>1, StagesAt
<1>4. CASE LockGranted(r)
  <2>1. pc[r] = "lock" /\ pc'[r] = "work"
    BY <1>1, <1>4 DEF LockGranted, Ready
  <2>2. PICK n \in 0..MaxCommits : left' = [left EXCEPT ![r] = n]
    BY <1>4 DEF LockGranted
  <2>3. left'[r] = n /\ n + 5 < MaxCommits + 6
    BY <1>1, <2>2
  <2>. QED
    BY <1>1, <2>1, <2>3, StagesAt
<1>5. CASE LockRefused(r)
  <2>1. pc[r] = "lock" /\ pc'[r] = "record"
    BY <1>1, <1>5 DEF LockRefused, Ready
  <2>. QED
    BY <1>1, <2>1, StagesAt
<1>6. CASE Commit(r)
  <2>1. pc[r] = "work" /\ pc'[r] = "work" /\ left'[r] = left[r] - 1
    BY <1>1, <1>6 DEF Commit, Ready
  <2>. QED
    BY <1>1, <2>1, StagesAt
<1>7. CASE LeaveBlock(r)
  <2>1. pc[r] = "work" /\ pc'[r] = "unlock"
    BY <1>1, <1>7 DEF LeaveBlock
  <2>. QED
    BY <1>1, <2>1, StagesAt
<1>8. CASE Unlock(r)
  <2>1. pc[r] = "unlock" /\ pc'[r] = "record"
    BY <1>1, <1>8 DEF Unlock, Ready
  <2>. QED
    BY <2>1, StagesAt
<1>9. CASE Record(r)
  <2>1. pc[r] = "record" /\ pc'[r] \in {"alert", "leave"}
    BY <1>1, <1>9 DEF Record, Ready
  <2>. QED
    BY <2>1, StagesAt
<1>10. CASE Alert(r)
  <2>1. pc[r] = "alert" /\ pc'[r] = "leave"
    BY <1>1, <1>10 DEF Alert, Ready
  <2>. QED
    BY <2>1, StagesAt
<1>11. CASE PoolTimeout(r)
  <2>1. \/ pc[r] \in {"lock", "unlock"} /\ pc'[r] = "record"
        \/ pc[r] = "work" /\ pc'[r] = "unlock"
        \/ pc[r] \in {"insert", "record", "alert"} /\ pc'[r] = "leave"
    BY <1>1, <1>11 DEF PoolTimeout, StatementPcs
  <2>. QED
    BY <1>1, <2>1, StagesAt
<1>12. CASE Leave(r)
  <2>1. pc[r] = "leave" /\ pc'[r] = "ended"
    BY <1>1, <1>12 DEF Leave
  <2>. QED
    BY <2>1, StagesAt
<1>13. CASE DatabaseError(r)
  <2>1. pc[r] \in StatementPcs /\ pc'[r] = "leave"
    BY <1>1, <1>13 DEF DatabaseError
  <2>. QED
    BY <1>1, <2>1, StagesAt DEF StatementPcs
<1>. QED
  BY <1>2, <1>3, <1>4, <1>5, <1>6, <1>7, <1>8, <1>9, <1>10, <1>11, <1>12, <1>13 DEF RunStep

\* A step of somebody else's leaves the run alone.
LEMMA OthersLeaveAlone ==
    ASSUME TypeOK, NEW r \in Runs, NEW s \in Sessions, s # r,
           \/ s \in Runs /\ (Start(s) \/ RunStep(s) \/ DatabaseError(s))
           \/ OtherConnects(s) \/ OtherCommits(s)
    PROVE  pc'[r] = pc[r] /\ left'[r] = left[r] /\ conn'[r] = conn[r]
<1>1. /\ pc \in [Runs -> BusyPcs \cup {"idle", "ended"}] /\ left \in [Runs -> 0..MaxCommits]
      /\ conn \in [Sessions -> Conns \cup {NoConn}] /\ r \in Sessions
  BY DEF TypeOK, Sessions
<1>2. UNCHANGED conn \/ (\E c : conn' = [conn EXCEPT ![s] = c])
  BY DEF Start, RunStep, DatabaseError, OtherConnects, OtherCommits, Connect, CheckOut, Insert,
         LockGranted, LockRefused, Commit, LeaveBlock, Unlock, Record, Alert, PoolTimeout,
         Leave, Close, GiveBack
<1>3. UNCHANGED pc \/ (\E p : pc' = [pc EXCEPT ![s] = p])
  BY DEF Start, RunStep, DatabaseError, OtherConnects, OtherCommits, Connect, CheckOut, Insert,
         LockGranted, LockRefused, Commit, LeaveBlock, Unlock, Record, Alert, PoolTimeout,
         Leave
<1>4. UNCHANGED left \/ (\E n : left' = [left EXCEPT ![s] = n])
  BY DEF Start, RunStep, DatabaseError, OtherConnects, OtherCommits, Connect, CheckOut, Insert,
         LockGranted, LockRefused, Commit, LeaveBlock, Unlock, Record, Alert, PoolTimeout,
         Leave
<1>. QED
  BY <1>1, <1>2, <1>3, <1>4

\* A run that has begun is left alone or comes nearer to its end, where it stays.
RunsShorten ==
    \A r \in Runs :
       /\ pc[r] \in BusyPcs => \/ pc'[r] = pc[r] /\ left'[r] = left[r] /\ conn'[r] = conn[r]
                              \/ StepsLeft(r)' < StepsLeft(r)
       /\ pc[r] = "ended" => pc'[r] = "ended"

\* A run whose batch commits MaxCommits times makes at most twice that and fifteen
\* steps, whatever the pool, the lock and the other sessions do: a refused lock,
\* a full pool and a failed statement all lead towards its end.  (That it makes
\* them is EveryRunEnds.)
THEOREM RunsAreBounded ==
    Spec => [](\A r \in Runs : StepsLeft(r) \in 0..2 * MaxCommits + 15) /\ [][RunsShorten]_vars
<1>1. ASSUME TypeOK, NEW r \in Runs
      PROVE  StepsLeft(r) \in 0..2 * MaxCommits + 15
  <2>1. StagesLeft(pc[r], left[r]) \in 0..MaxCommits + 7 /\ MaxCommits \in Nat
    BY <1>1, StagesAreCounted, MaxCommitsAssumption DEF TypeOK
  <2>. QED
    BY <2>1 DEF StepsLeft
<1>2. ASSUME TypeOK, NEW r \in Runs, pc[r] \in BusyPcs \cup {"idle", "ended"},
             pc'[r] \in BusyPcs \cup {"idle", "ended"}, left'[r] \in 0..MaxCommits,
             StagesLeft(pc'[r], left'[r]) < StagesLeft(pc[r], left[r])
      PROVE  StepsLeft(r)' < StepsLeft(r)
  <2>. DEFINE m == StagesLeft(pc[r], left[r])
              n == StagesLeft(pc'[r], left'[r])
              f == IF conn[r] = NoConn THEN 1 ELSE 0
              g == IF conn'[r] = NoConn THEN 1 ELSE 0
  <2>1. m \in 0..MaxCommits + 7 /\ n \in 0..MaxCommits + 7 /\ MaxCommits \in Nat
    BY <1>2, StagesAreCounted, MaxCommitsAssumption DEF TypeOK
  <2>2. f \in {0, 1} /\ g \in {0, 1} /\ n < m
    BY <1>2
  <2>3. StepsLeft(r) = 2 * m + f /\ StepsLeft(r)' = 2 * n + g
    BY DEF StepsLeft
  <2>. HIDE DEF m, n, f, g
  <2>. QED
    BY <2>1, <2>2, <2>3
<1>3. ASSUME TypeOK, TypeOK', [Next]_vars PROVE [RunsShorten]_vars
  <2>. SUFFICES ASSUME Next, NEW r \in Runs
                PROVE  /\ pc[r] \in BusyPcs =>
                             \/ pc'[r] = pc[r] /\ left'[r] = left[r] /\ conn'[r] = conn[r]
                             \/ StepsLeft(r)' < StepsLeft(r)
                       /\ pc[r] = "ended" => pc'[r] = "ended"
    BY <1>3 DEF RunsShorten
  <2>0. /\ pc[r] \in BusyPcs \cup {"idle", "ended"} /\ pc'[r] \in BusyPcs \cup {"idle", "ended"}
        /\ left[r] \in 0..MaxCommits /\ left'[r] \in 0..MaxCommits
        /\ r \in Sessions /\ "idle" \notin BusyPcs /\ "ended" \notin BusyPcs
    BY <1>3 DEF TypeOK, Sessions, BusyPcs, StatementPcs
  <2>1. CASE Start(r)
    BY <2>0, <2>1 DEF Start
  <2>2. CASE RunStep(r) \/ DatabaseError(r)
    <3>1. CASE StagesLeft(pc'[r], left'[r]) < StagesLeft(pc[r], left[r])
      <4>1. pc[r] # "ended"
        BY <2>0, <3>1, <1>3, StagesAreCounted, StagesAt, MaxCommitsAssumption
      <4>. QED
        BY <1>2, <1>3, <2>0, <3>1, <4>1
    <3>2. CASE /\ pc'[r] = pc[r] /\ left'[r] = left[r]
               /\ conn[r] = NoConn /\ conn'[r] # NoConn
      <4>1. StepsLeft(r) = 2 * StagesLeft(pc[r], left[r]) + 1
        BY <3>2 DEF StepsLeft
      <4>2. StepsLeft(r)' = 2 * StagesLeft(pc[r], left[r]) + 0
        BY <3>2 DEF StepsLeft
      <4>3. StagesLeft(pc[r], left[r]) \in 0..MaxCommits + 7 /\ MaxCommits \in Nat
        BY <2>0, StagesAreCounted, MaxCommitsAssumption
      <4>. QED
        BY <3>2, <4>1, <4>2, <4>3
    <3>. QED
      BY <1>3, <2>2, <3>1, <3>2, RunStepLeads
  <2>3. ASSUME NEW s \in Runs, s # r, Start(s) \/ RunStep(s) \/ DatabaseError(s)
        PROVE  pc'[r] = pc[r] /\ left'[r] = left[r] /\ conn'[r] = conn[r]
    <3>1. s \in Sessions
      BY DEF Sessions
    <3>. QED
      BY <1>3, <2>3, <3>1, OthersLeaveAlone
  <2>4. ASSUME NEW s \in Others, OtherConnects(s) \/ OtherCommits(s)
        PROVE  pc'[r] = pc[r] /\ left'[r] = left[r] /\ conn'[r] = conn[r]
    <3>1. s \in Sessions /\ s # r
      BY SessionsAssumption DEF Sessions
    <3>. QED
      BY <1>3, <2>4, <3>1, OthersLeaveAlone
  <2>5. CASE Restart
    <3>1. /\ pc[r] \in BusyPcs => pc'[r] = "ended"
          /\ pc[r] \notin BusyPcs => pc'[r] = pc[r]
      BY <2>5 DEF Restart
    <3>2. pc[r] \in BusyPcs => StagesLeft(pc'[r], left'[r]) < StagesLeft(pc[r], left[r])
      BY <2>0, <3>1, StagesAt, StagesAreCounted
    <3>. QED
      BY <1>2, <1>3, <2>0, <3>1, <3>2
  <2>6. CASE Finished
    BY <2>6 DEF Finished, vars
  <2>. QED
    BY <2>1, <2>2, <2>3, <2>4, <2>5, <2>6 DEF Next
<1>4. TypeOK => \A r \in Runs : StepsLeft(r) \in 0..2 * MaxCommits + 15
  BY <1>1
<1>5. TypeOK /\ TypeOK' /\ [Next]_vars => [RunsShorten]_vars
  BY <1>3
<1>. QED
  BY <1>4, <1>5, TypeCorrect, PTL DEF Spec
=============================================================================
