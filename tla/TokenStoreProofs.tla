-------------------------- MODULE TokenStoreProofs --------------------------
(***************************************************************************)
(* Theorems of TokenStore, for any number of requests at once and any      *)
(* number of tokens.                                                       *)
(***************************************************************************)
EXTENDS TokenStore, TLAPS

-----------------------------------------------------------------------------
(* The inductive invariant *)

\* Nobody has a token that Mercado Libre has not issued.
IssuedOnly ==
    /\ row <= live
    /\ \A s \in Sessions : job[s].seen <= live /\ job[s].new <= live

\* A session has a token of its own from its answer to its commit: until the
\* UPDATE in its locals, from then on under the row lock.
OwnToken ==
    \A s \in Sessions :
       /\ At(s, "store") => job[s].new # NoToken
       /\ job[s].new # NoToken => At(s, "store") \/ writer = s
       /\ writer = s => job[s].new # NoToken
       /\ At(s, "idle") \/ At(s, "refresh") \/ At(s, "exchange")
             => job[s].new = NoToken

\* Without a clash the session with a token of its own is the only one, its
\* token is newer than the row, and nobody can refresh the live one.
SoleHolder ==
    clash = 0 => \A s \in Sessions : job[s].new # NoToken =>
       /\ row < job[s].new
       /\ \A t \in Sessions : job[t].seen # live
       /\ \A t \in Sessions : job[t].new # NoToken => t = s

IInv ==
    /\ TypeOK
    /\ IssuedOnly
    /\ OwnToken
    /\ ChainHeld
    /\ SoleHolder

USE SessionsAssumption, MaxTokensAssumption

-----------------------------------------------------------------------------
(* The steps *)

\* What a session does to its locals leaves them well typed.
LEMMA JobsTyped ==
    ASSUME NEW j \in Jobs, NEW p \in Pcs, NEW n \in Tokens \cup {NoToken}
    PROVE  /\ [j EXCEPT !.pc = p, !.new = n] \in Jobs
           /\ [j EXCEPT !.pc = p, !.seen = n] \in Jobs
    BY DEF Jobs

LEMMA InitIInv == Init => IInv
<1> SUFFICES ASSUME Init PROVE IInv
    OBVIOUS
<1> USE DEF Init, NoJob, NoToken, Tokens, At
<1>1. TypeOK
    BY DEF TypeOK, Jobs, Pcs
<1>2. IssuedOnly
    BY DEF IssuedOnly
<1>3. OwnToken
    BY DEF OwnToken
<1>4. ChainHeld
    BY DEF ChainHeld, Chain
<1>5. SoleHolder
    BY DEF SoleHolder
<1> QED BY <1>1, <1>2, <1>3, <1>4, <1>5 DEF IInv

\* A request comes, looks at the row, or does what touches no token.
LEMMA QuietStep ==
    ASSUME IInv, NEW s \in Sessions,
           \/ \E kind \in Kinds : Begin(s, kind)
           \/ ReadStale(s) \/ Succeed(s) \/ Fail(s) \/ RefreshRejected(s)
    PROVE  IInv'
<1> USE DEF IInv, TypeOK, IssuedOnly, OwnToken, ChainHeld, Chain, SoleHolder, Holds,
            Tokens, Jobs, Pcs, Kinds, NoToken, At, Becomes, Goto
<1>1. ASSUME NEW kind \in Kinds, Begin(s, kind)
      PROVE  IInv'
  <2>0. FirstPc(kind) \in {"api", "refresh", "exchange"}
      BY DEF FirstPc, Kinds
  <2>1. TypeOK'
      BY <1>1, <2>0 DEF Begin
  <2>2. IssuedOnly'
      BY <1>1, <2>0 DEF Begin
  <2>3. OwnToken'
      BY <1>1, <2>0 DEF Begin
  <2>4. ChainHeld'
      BY <1>1, <2>0 DEF Begin
  <2>5. SoleHolder'
      BY <1>1, <2>0 DEF Begin
  <2> QED BY <2>1, <2>2, <2>3, <2>4, <2>5
<1>2. CASE ReadStale(s)
  <2>0. writer # s /\ job'[s].seen = row
      BY <1>2 DEF ReadStale, VisibleUsable, Visible
  <2>1. TypeOK'
    <3> HIDE DEF Jobs
    <3>1. [job[s] EXCEPT !.pc = "refresh", !.seen = row] \in Jobs
        BY JobsTyped
    <3> QED BY <1>2, <2>0, <3>1 DEF ReadStale, Visible
  <2>2. IssuedOnly'
      BY <1>2, <2>0 DEF ReadStale
  <2>3. OwnToken'
      BY <1>2, <2>0 DEF ReadStale
  <2>4. ChainHeld'
      BY <1>2, <2>0 DEF ReadStale
  <2>5. SoleHolder'
      BY <1>2, <2>0 DEF ReadStale
  <2> QED BY <2>1, <2>2, <2>3, <2>4, <2>5
<1>3. CASE Succeed(s)
    BY <1>3 DEF Succeed
<1>4. CASE Fail(s)
    BY <1>4 DEF Fail
<1>5. CASE RefreshRejected(s)
    BY <1>5 DEF RefreshRejected
<1> QED BY <1>1, <1>2, <1>3, <1>4, <1>5

\* Mercado Libre issues a token: to a session, or with an answer that is lost.
LEMMA IssueStep ==
    ASSUME IInv, NEW s \in Sessions,
           \/ RefreshOk(s) \/ RefreshUnanswered(s) \/ ExchangeOk(s) \/ ExchangeFails(s)
    PROVE  IInv'
<1> USE DEF IInv, TypeOK, IssuedOnly, OwnToken, ChainHeld, Chain, SoleHolder, Holds,
            Tokens, Jobs, Pcs, Kinds, NoToken, At, Becomes, Goto, Issue
<1>1. CASE RefreshOk(s)
  <2>1. TypeOK'
    <3> HIDE DEF Jobs
    <3>1. live + 1 \in Tokens
        BY <1>1 DEF RefreshOk
    <3>2. [job[s] EXCEPT !.pc = "store", !.new = live + 1] \in Jobs
        BY <3>1, JobsTyped
    <3> QED BY <1>1, <3>1, <3>2 DEF RefreshOk
  <2>2. IssuedOnly'
      BY <1>1 DEF RefreshOk
  <2>3. OwnToken'
      BY <1>1 DEF RefreshOk
  <2>4. ChainHeld'
      BY <1>1 DEF RefreshOk
  <2>5. SoleHolder'
      BY <1>1 DEF RefreshOk
  <2> QED BY <2>1, <2>2, <2>3, <2>4, <2>5
<1>2. CASE RefreshUnanswered(s)
    BY <1>2 DEF RefreshUnanswered
<1>3. CASE ExchangeOk(s)
  <2>1. TypeOK'
    <3> HIDE DEF Jobs
    <3>1. live + 1 \in Tokens
        BY <1>3 DEF ExchangeOk
    <3>2. [job[s] EXCEPT !.pc = "store", !.new = live + 1] \in Jobs
        BY <3>1, JobsTyped
    <3> QED BY <1>3, <3>1, <3>2 DEF ExchangeOk
  <2>2. IssuedOnly'
      BY <1>3 DEF ExchangeOk
  <2>3. OwnToken'
      BY <1>3 DEF ExchangeOk
  <2>4. ChainHeld'
      BY <1>3 DEF ExchangeOk
  <2>5. SoleHolder'
      BY <1>3 DEF ExchangeOk
  <2> QED BY <2>1, <2>2, <2>3, <2>4, <2>5
<1>4. CASE ExchangeFails(s)
    BY <1>4 DEF ExchangeFails
<1> QED BY <1>1, <1>2, <1>3, <1>4

\* A session writes the row, commits it, or loses what it wrote.
LEMMA StoreStep ==
    ASSUME IInv, NEW s \in Sessions,
           \/ Store(s) \/ CommitMidway(s) \/ CommitAtEnd(s) \/ Undone(s)
    PROVE  IInv'
<1> USE DEF IInv, TypeOK, IssuedOnly, OwnToken, ChainHeld, Chain, SoleHolder, Holds,
            Tokens, Jobs, Pcs, Kinds, NoJob, NoToken, At, Becomes, Goto
<1>1. CASE Store(s)
    BY <1>1 DEF Store
<1>2. CASE CommitMidway(s)
  <2>1. TypeOK'
      BY <1>2 DEF CommitMidway, Committed
  <2>2. IssuedOnly'
      BY <1>2 DEF CommitMidway, Committed
  <2>3. OwnToken'
      BY <1>2 DEF CommitMidway, Committed
  <2>4. ChainHeld'
      BY <1>2 DEF CommitMidway, Committed
  <2>5. SoleHolder'
      BY <1>2 DEF CommitMidway, Committed
  <2> QED BY <2>1, <2>2, <2>3, <2>4, <2>5
<1>3. CASE CommitAtEnd(s)
  <2>1. TypeOK'
    <3>1. writer = s => job[s].new \in Tokens
        OBVIOUS
    <3>2. NoJob \in Jobs
        OBVIOUS
    <3>3. row' \in Tokens /\ usable' \in BOOLEAN /\ lost' \subseteq Tokens
      <4>1. CASE writer = s
        <5>1. /\ row' = job[s].new
              /\ usable' = TRUE
              /\ lost' = lost \/ lost' = lost \cup {row}
            BY <1>3, <4>1 DEF CommitAtEnd, Committed
        <5> QED BY <3>1, <4>1, <5>1
      <4>2. CASE writer # s
          BY <1>3, <4>2 DEF CommitAtEnd, Committed
      <4> QED BY <4>1, <4>2
    <3>4. job' \in [Sessions -> Jobs]
        BY <1>3, <3>2 DEF CommitAtEnd
    <3> QED BY <1>3, <3>3, <3>4 DEF CommitAtEnd, Committed
  <2>2. IssuedOnly'
      BY <1>3 DEF CommitAtEnd, Committed
  <2>3. OwnToken'
      BY <1>3 DEF CommitAtEnd, Committed
  <2>4. ChainHeld'
      BY <1>3 DEF CommitAtEnd, Committed
  <2>5. SoleHolder'
      BY <1>3 DEF CommitAtEnd, Committed
  <2> QED BY <2>1, <2>2, <2>3, <2>4, <2>5
<1>4. CASE Undone(s)
  <2>1. TypeOK'
      BY <1>4 DEF Undone
  <2>2. IssuedOnly'
      BY <1>4 DEF Undone
  <2>3. OwnToken'
      BY <1>4 DEF Undone
  <2>4. ChainHeld'
      BY <1>4 DEF Undone
  <2>5. SoleHolder'
      BY <1>4 DEF Undone
  <2> QED BY <2>1, <2>2, <2>3, <2>4, <2>5
<1> QED BY <1>1, <1>2, <1>3, <1>4

\* The process dies, and every session loses what it has not committed.
LEMMA CrashStep == IInv /\ Crash => IInv'
<1> SUFFICES ASSUME IInv, Crash PROVE IInv'
    OBVIOUS
<1> USE DEF IInv, Crash, Tokens, Jobs, Pcs, Kinds, NoJob, NoToken, At
<1>1. TypeOK'
  <2>1. lost' \subseteq Tokens
      BY DEF TypeOK
  <2> QED BY <2>1 DEF TypeOK
<1>2. IssuedOnly'
    BY DEF TypeOK, IssuedOnly
<1>3. OwnToken'
    BY DEF OwnToken
<1>4. ChainHeld'
    BY DEF TypeOK, ChainHeld, Chain, Holds
<1>5. SoleHolder'
    BY DEF SoleHolder
<1> QED BY <1>1, <1>2, <1>3, <1>4, <1>5

\* A step is one of those, or the expiry of the access token.
LEMMA StepIInv == IInv /\ [Next]_vars => IInv'
<1> SUFFICES ASSUME IInv, [Next]_vars PROVE IInv'
    OBVIOUS
<1>1. CASE UNCHANGED vars \/ Expire
    BY <1>1 DEF vars, Expire, IInv, TypeOK, IssuedOnly, OwnToken, ChainHeld, Chain,
                SoleHolder, Holds, At
<1>2. ASSUME NEW s \in Sessions,
             Step(s) \/ DatabaseError(s) \/ \E kind \in Kinds : Begin(s, kind)
      PROVE  IInv'
    BY <1>2, QuietStep, IssueStep, StoreStep DEF Step, DatabaseError, RollBack
<1> QED BY <1>1, <1>2, CrashStep DEF Next

-----------------------------------------------------------------------------
(* The theorems *)

\* The inductive invariant of the requests and the token row.
THEOREM Invariance == Spec => []IInv
    BY InitIInv, StepIInv, PTL DEF Spec

\* Every variable of the token store keeps its type.
THEOREM TypeCorrect == Spec => []TypeOK
<1>1. IInv => TypeOK
    BY DEF IInv
<1> QED BY <1>1, Invariance, PTL

\* Whatever requests refresh, exchange, commit and fail at once, the chain of
\* refresh tokens breaks only with a token on record as lost.
THEOREM ChainIsHeld == Spec => []ChainHeld
<1>1. IInv => ChainHeld
    BY DEF IInv
<1> QED BY <1>1, Invariance, PTL

\* A refresh is rejected only after a loss or a refresh of another request.
THEOREM RejectionsAreExplained == Spec => []RejectionExplained
<1>1. ASSUME IInv, NEW s \in Sessions, At(s, "refresh"), job[s].seen # live
      PROVE  \/ live \in lost
             \/ row # job[s].seen
             \/ \E t \in Sessions \ {s} : job[t].new # NoToken
  <2>1. job[s].new = NoToken /\ live # NoToken
      BY <1>1 DEF IInv, TypeOK, OwnToken, Tokens, NoToken
  <2>2. live = row \/ live \in lost \/ \E t \in Sessions : job[t].new = live
      BY <1>1 DEF IInv, ChainHeld, Chain, Holds
  <2> QED BY <1>1, <2>1, <2>2
<1>2. IInv => RejectionExplained
    BY <1>1 DEF RejectionExplained
<1> QED BY <1>2, Invariance, PTL

\* Without a clash no commit puts an older token into the row.
THEOREM RowsMoveForward == Spec => RowMovesForward
<1>1. IInv /\ [Next]_vars => [clash = 0 => row' >= row]_vars
  <2> SUFFICES ASSUME IInv, [Next]_vars, clash = 0 PROVE row' >= row
      OBVIOUS
  <2>1. row \in Nat
      BY DEF IInv, TypeOK, Tokens
  <2>2. ASSUME NEW s \in Sessions, Committed(s)
        PROVE  row' >= row
    <3>1. CASE writer = s
      <4>1. row' = job[s].new
          BY <2>2, <3>1 DEF Committed
      <4>2. row < job[s].new /\ job[s].new \in Nat
          BY <3>1 DEF IInv, TypeOK, OwnToken, SoleHolder, Jobs, Tokens, NoToken
      <4> QED BY <2>1, <4>1, <4>2
    <3>2. CASE writer # s
        BY <2>1, <2>2, <3>2 DEF Committed
    <3> QED BY <3>1, <3>2
  <2>3. row' = row \/ \E s \in Sessions : Committed(s)
      BY DEF Next, vars, Step, Begin, ReadStale, Succeed, Fail, RefreshOk,
             RefreshRejected, RefreshUnanswered, ExchangeOk, ExchangeFails, Store,
             CommitMidway, CommitAtEnd, RollBack, Undone, DatabaseError, Expire, Crash
  <2> QED BY <2>1, <2>2, <2>3
<1> QED BY <1>1, Invariance, PTL DEF Spec, RowMovesForward
=============================================================================
