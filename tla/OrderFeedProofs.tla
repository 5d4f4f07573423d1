-------------------------- MODULE OrderFeedProofs --------------------------
(***************************************************************************)
(* What holds of the cursor and of the orders it passes, for every number  *)
(* of orders and runs, every page size, overlap, lookback and lag.         *)
(***************************************************************************)
EXTENDS OrderFeed, WellFoundedInduction, FiniteSetTheorems, SequenceTheorems, TLAPS

-----------------------------------------------------------------------------
(* The inductive invariant *)

\* A run will come to an order that it has fetched, that is on its page, or
\* that has its place on a page the run has not asked for.
Fetched(o, r) == \E i \in 1..Len(run[r].fetched) : run[r].fetched[i] = o
Asking(r)     == At(r, "search") \/ (At(r, "take") /\ run[r].more)
Beyond(o, r)  == /\ Asking(r)
                 /\ o \in Listing(run[r].since)
                 /\ Rank(o, run[r].since) >= Passed(r)
OnPage(o, r)  == At(r, "take") /\ o \in run[r].page
Ahead(o, r)   == Fetched(o, r) \/ OnPage(o, r) \/ Beyond(o, r)

\* An order the feed answers for.
Owed(o, since) == Untraced(o) /\ updated[o] >= since /\ o \notin shifted

\* Nothing is dated by the future.
Clocked ==
    /\ \A t \in successes : t <= now
    /\ \A r \in Runs : run[r].started <= now

\* A run that has yet to read its cursor will begin with the first page.
FromTheStart == \A r \in Runs : At(r, "cursor") => run[r].offset = 0 /\ run[r].fetched = <<>>

\* Before the first success, the runs under way have looked back as far as the
\* history says, and the clock has gone on since.
LookedBack ==
    successes = {} /\ (\E r \in Runs : Active(r)) => horizon <= now - Lookback

\* An order of a page has been listed, and its last update is not before the
\* cursor; what the page says of its shipment is true, or the order was updated
\* after the run began.
Since(o, r) == stage[o] \in {"listed", "gone"} /\ updated[o] >= run[r].since
PageSeen(r) ==
    At(r, "take") =>
       \A o \in run[r].page :
          /\ Since(o, r)
          /\ o \notin run[r].bare => kind[o] # "none"
          /\ o \in run[r].bare /\ kind[o] = "flex" => updated[o] >= run[r].started - Skew

\* So has an order that was fetched.
FetchedSeen(r) == Active(r) => \A o \in Orders : Fetched(o, r) => Since(o, r)
PagesSeen == \A r \in Runs : PageSeen(r) /\ FetchedSeen(r)

\* A run has dealt with every order it answers for, has it ahead, or leaves it
\* to the next run, whose cursor it will be.
Covered(r) ==
    Active(r) =>
       \A o \in Orders :
          Owed(o, horizon) => updated[o] >= run[r].started - Skew \/ Ahead(o, r)
AllCovered == \A r \in Runs : Covered(r)

FeedInv ==
    /\ Clocked
    /\ FromTheStart
    /\ LookedBack
    /\ PagesSeen
    /\ AllCovered
    /\ NothingPassedUnseen

IInv == TypeOK /\ FeedInv

-----------------------------------------------------------------------------
(* Numbers: the least and the greatest of a set, the rank in a listing *)

LEMMA Basics ==
    /\ Orders \subseteq Nat /\ IsFiniteSet(Orders)
    /\ PageSize \in Nat /\ PageSize > 0
    /\ Overlap \in Nat /\ Lookback \in Nat
    /\ Skew \in Nat /\ Skew <= Overlap
    /\ MaxTime \in Nat /\ MaxFaults \in Nat
BY OrdersAssumption, PageAssumption, WindowAssumption, BoundsAssumption

LEMMA LeastExists ==
    ASSUME NEW S \in SUBSET Nat, S # {}
    PROVE  \E x \in S : \A y \in S : x <= y
<1>1. PICK x \in S : \A y \in S : ~ (<<y, x>> \in OpToRel(<, Nat))
  BY NatLessThanWellFounded, WFMin
<1>2. ASSUME NEW y \in S PROVE x <= y
  <2>1. ~ (<<y, x>> \in OpToRel(<, Nat))
    BY <1>1
  <2>2. ~ (y < x)
    BY <2>1 DEF OpToRel
  <2> QED BY <2>2
<1> QED BY <1>2

\* The greatest is as far as possible below a bound.
LEMMA GreatestExists ==
    ASSUME NEW S \in SUBSET Nat, S # {}, NEW b \in Nat, \A x \in S : x <= b
    PROVE  \E x \in S : \A y \in S : y <= x
<1> DEFINE T == {b - x : x \in S}
<1>1. T \in SUBSET Nat /\ T # {}
  <2>1. ASSUME NEW x \in S PROVE b - x \in Nat
    <3>1. x \in Nat /\ x <= b
      OBVIOUS
    <3> QED BY <3>1
  <2> QED BY <2>1
<1>2. PICK t \in T : \A u \in T : t <= u
  BY <1>1, LeastExists
<1>3. PICK x \in S : t = b - x
  OBVIOUS
<1>4. ASSUME NEW y \in S PROVE y <= x
  <2>1. b - x <= b - y
    BY <1>2, <1>3
  <2> QED BY <2>1
<1> QED BY <1>4

LEMMA FirstIsMember ==
    ASSUME NEW S \in SUBSET Orders, S # {}
    PROVE  First(S) \in S
<1>1. S \in SUBSET Nat
  BY Basics
<1> QED BY <1>1, LeastExists DEF First

LEMMA LatestIsGreatest ==
    ASSUME NEW S \in SUBSET Times, S # {}
    PROVE  Latest(S) \in S /\ \A t \in S : t <= Latest(S)
<1>1. S \in SUBSET Nat /\ MaxTime \in Nat /\ \A x \in S : x <= MaxTime
  BY Basics DEF Times
<1> QED BY <1>1, GreatestExists DEF Latest

\* How many members of a set are below one.
Position(S, o) == Cardinality({p \in S : p < o})

LEMMA PositionType ==
    ASSUME NEW S \in SUBSET Orders, NEW o \in Nat
    PROVE  /\ IsFiniteSet(S) /\ IsFiniteSet({p \in S : p < o})
           /\ Position(S, o) \in Nat /\ Cardinality(S) \in Nat
<1>1. IsFiniteSet(S)
  BY Basics, FS_Subset
<1>2. {p \in S : p < o} \in SUBSET S
  OBVIOUS
<1>3. IsFiniteSet({p \in S : p < o})
  BY <1>1, <1>2, FS_Subset
<1> QED BY <1>1, <1>3, FS_CardinalityType DEF Position

LEMMA PositionGrows ==
    ASSUME NEW T \in SUBSET Orders, NEW S \in SUBSET T, NEW o \in Nat
    PROVE  Position(S, o) <= Position(T, o)
<1>1. {p \in S : p < o} \in SUBSET {p \in T : p < o}
  OBVIOUS
<1> QED BY <1>1, PositionType, FS_Subset DEF Position

\* Members are in different positions, in their order.
LEMMA PositionOfEarlier ==
    ASSUME NEW S \in SUBSET Orders, NEW x \in S, NEW o \in Nat, x < o
    PROVE  Position(S, x) + 1 <= Position(S, o)
<1> DEFINE A == {p \in S : p < x}
           B == {p \in S : p < o}
<1>1. S \subseteq Nat /\ x \in Nat
  BY Basics
<1>2. IsFiniteSet(A) /\ IsFiniteSet(B) /\ Cardinality(A) \in Nat
  BY <1>1, PositionType DEF Position
<1>3. x \notin A /\ A \cup {x} \in SUBSET B
  <2>1. ASSUME NEW z \in A PROVE z \in B
    <3>1. z \in S /\ z \in Nat /\ z < x
      BY <1>1
    <3> QED BY <1>1, <3>1
  <2>2. x \notin A
    BY <1>1
  <2> QED BY <2>1, <2>2
<1>4. Cardinality(A \cup {x}) = Cardinality(A) + 1
  BY <1>2, <1>3, FS_AddElement
<1>5. Cardinality(A \cup {x}) <= Cardinality(B)
  BY <1>2, <1>3, FS_Subset
<1> QED BY <1>4, <1>5 DEF Position

LEMMA PositionInside ==
    ASSUME NEW S \in SUBSET Orders, NEW o \in S
    PROVE  Position(S, o) < Cardinality(S)
<1> DEFINE B == {p \in S : p < o}
<1>1. o \in Nat
  BY Basics
<1>2. IsFiniteSet(S) /\ Cardinality(S) \in Nat /\ Cardinality(B) \in Nat
  BY <1>1, PositionType DEF Position
<1>3. B \in SUBSET S /\ B # S
  BY <1>1
<1>4. Cardinality(B) <= Cardinality(S) /\ Cardinality(S) # Cardinality(B)
  BY <1>2, <1>3, FS_Subset
<1> QED BY <1>2, <1>4 DEF Position

\* A member that leaves takes one position from those after it.
LEMMA PositionAfterRemoval ==
    ASSUME NEW S \in SUBSET Orders, NEW x \in S, NEW o \in Nat
    PROVE  Position(S \ {x}, o) = IF x < o THEN Position(S, o) - 1 ELSE Position(S, o)
<1> DEFINE B == {p \in S : p < o}
<1>1. {p \in S \ {x} : p < o} = B \ {x}
  OBVIOUS
<1>2. IsFiniteSet(B)
  BY PositionType
<1>3. x \in B <=> x < o
  OBVIOUS
<1> QED BY <1>1, <1>2, <1>3, FS_RemoveElement DEF Position

\* Before a member at position n or later there is one at position n.
LEMMA PositionsFilled ==
    ASSUME NEW S \in SUBSET Orders, NEW o \in S, NEW n \in Nat, Position(S, o) >= n
    PROVE  \E p \in S : Position(S, p) = n
<1> DEFINE T == {p \in S : Position(S, p) >= n}
<1>1. S \in SUBSET Nat /\ \A p \in S : Position(S, p) \in Nat
  BY Basics, PositionType
<1>2. PICK p \in T : \A q \in T : p <= q
  <2>1. T \in SUBSET Nat /\ o \in T
    BY <1>1
  <2> HIDE DEF T
  <2> QED BY <2>1, LeastExists
<1>3. ASSUME Position(S, p) # n PROVE FALSE
  <2> DEFINE B == {z \in S : z < p}
  <2>1. p \in S /\ p \in Nat /\ Position(S, p) \in Nat /\ Position(S, p) >= n + 1
    BY <1>1, <1>3
  <2>2. B \in SUBSET Nat /\ B # {} /\ \A z \in B : z <= p
    <3>1. Cardinality(B) > 0
      BY <2>1 DEF Position
    <3>2. B # {}
      BY <3>1, FS_EmptySet
    <3>3. ASSUME NEW z \in B PROVE z \in Nat /\ z <= p
      <4>1. z \in S /\ z < p
        OBVIOUS
      <4> QED BY <1>1, <2>1, <4>1
    <3> QED BY <3>2, <3>3
  <2>3. PICK q \in B : \A z \in B : z <= q
    <3> HIDE DEF B
    <3> QED BY <2>1, <2>2, GreatestExists
  <2>4. q \in S /\ q \in Nat /\ q < p /\ Position(S, q) \in Nat
    BY <1>1
  <2>5. B = {z \in S : z < q} \cup {q}
    <3>1. ASSUME NEW z \in S PROVE z < p <=> z < q \/ z = q
      <4>1. z \in Nat
        BY <1>1
      <4>2. z < p => z <= q
        BY <2>3
      <4> QED BY <2>1, <2>4, <4>1, <4>2
    <3> QED BY <2>4, <3>1
  <2>6. Position(S, p) = Position(S, q) + 1
    <3>1. IsFiniteSet({z \in S : z < q}) /\ q \notin {z \in S : z < q}
      BY <2>4, PositionType
    <3>2. Cardinality({z \in S : z < q} \cup {q}) = Cardinality({z \in S : z < q}) + 1
      BY <3>1, FS_AddElement
    <3> QED BY <2>5, <3>2 DEF Position
  <2>7. q \in T
    BY <2>1, <2>4, <2>6
  <2> QED BY <1>2, <2>1, <2>4, <2>7
<1> QED BY <1>3

-----------------------------------------------------------------------------
(* Types *)

LEMMA CursorType ==
    ASSUME TypeOK
    PROVE  Cursor \in Sinces
<1>1. CASE successes = {}
  BY <1>1, Basics DEF TypeOK, Cursor, Sinces, Times
<1>2. CASE successes # {}
  <2>1. Latest(successes) \in Times
    BY <1>2, LatestIsGreatest DEF TypeOK
  <2> QED BY <1>2, <2>1, Basics DEF Cursor, Sinces, Times
<1> QED BY <1>1, <1>2

LEMMA JobTypes ==
    ASSUME TypeOK, NEW r \in Runs
    PROVE  /\ NoJob \in Jobs /\ run[r] \in Jobs
           /\ run[r].started \in Times /\ run[r].offset \in Nat
           /\ run[r].since \in Sinces /\ run[r].more \in BOOLEAN
           /\ run[r].page \in SUBSET Orders /\ run[r].bare \in SUBSET Orders
           /\ run[r].fetched \in Seq(Orders) /\ Len(run[r].fetched) \in Nat
           /\ Iterated(r) \in Jobs
<1>1. run[r] \in Jobs
  BY DEF TypeOK
<1>2. 0 \in Times /\ 0 \in Sinces /\ <<>> \in Seq(Orders)
  BY Basics DEF Times, Sinces
<1>3. NoJob \in Jobs
  BY <1>2 DEF NoJob, Jobs, Pcs
<1>4. Iterated(r) \in Jobs
  BY <1>1, <1>3 DEF Iterated, Jobs, Pcs
<1> QED BY <1>1, <1>3, <1>4 DEF Jobs

LEMMA AfterType ==
    ASSUME TypeOK, NEW o \in Orders, NEW f \in Fates
    PROVE  After(o, f) \in [Orders -> Fates]
BY DEF TypeOK, After

LEMMA UnfinishedType ==
    ASSUME TypeOK, NEW S \in SUBSET Orders, fate' \in Unfinished(S)
    PROVE  /\ fate' \in [Orders -> Fates]
           /\ \A o \in Orders :
                 \/ fate'[o] = fate[o]
                 \/ o \in S /\ fate'[o] = "pending"
<1>1. PICK C \in SUBSET S :
         fate' = [o \in Orders |->
                    IF o \in C /\ fate[o] # "completed" THEN "pending" ELSE fate[o]]
  BY DEF Unfinished
<1>2. fate \in [Orders -> Fates] /\ "pending" \in Fates
  BY DEF TypeOK, Fates
<1>3. fate' \in [Orders -> Fates]
  BY <1>1, <1>2
<1>4. ASSUME NEW o \in Orders
      PROVE  fate'[o] = fate[o] \/ (o \in S /\ fate'[o] = "pending")
  <2>1. CASE o \in C /\ fate[o] # "completed"
    BY <1>1, <2>1
  <2>2. CASE ~(o \in C /\ fate[o] # "completed")
    BY <1>1, <2>2
  <2> QED BY <2>1, <2>2
<1> QED BY <1>3, <1>4

LEMMA TypeInit == Init => TypeOK
<1> SUFFICES ASSUME Init PROVE TypeOK
  OBVIOUS
<1>1. 0 \in Times /\ 0 \in Sinces /\ 0 \in Stamps /\ 0 \in 0..MaxFaults
  BY Basics DEF Times, Sinces, Stamps
<1>2. NoJob \in Jobs
  BY <1>1 DEF NoJob, Jobs, Pcs
<1> QED BY <1>1, <1>2 DEF Init, TypeOK, Stages, Kinds, Fates

\* A step of a run that gives it a job and leaves Mercado Libre and the clock.
LEMMA BecomesType ==
    ASSUME TypeOK, NEW r \in Runs, NEW j \in Jobs, Becomes(r, j),
           UNCHANGED <<now, shop, shifted>>, stray' \subseteq Orders,
           fate' \in [Orders -> Fates], successes' \subseteq Times,
           faults' \in 0..MaxFaults, horizon' \in Sinces
    PROVE  TypeOK'
BY DEF TypeOK, Becomes, shop

LEMMA StampType ==
    ASSUME TypeOK, NEW o \in Orders, Stamp(o)
    PROVE  updated' \in [Orders -> Stamps]
<1>1. PICK d \in 0..Skew : updated' = [updated EXCEPT ![o] = now - d]
  BY DEF Stamp
<1>2. now - d \in Stamps
  BY Basics DEF TypeOK, Times, Stamps
<1> QED BY <1>1, <1>2 DEF TypeOK

LEMMA ShopType ==
    ASSUME TypeOK,
           \/ Tick
           \/ \E o \in Orders : Place(o) \/ EnterTrigger(o) \/ Update(o) \/ LeaveTrigger(o)
    PROVE  TypeOK'
<1>1. CASE Tick
  <2>1. now' \in Times
    BY <1>1, Basics DEF Tick, TypeOK, Times
  <2> QED BY <1>1, <2>1 DEF Tick, TypeOK, shop
<1>2. ASSUME NEW o \in Orders, Place(o) PROVE TypeOK'
  BY <1>2 DEF Place, TypeOK, Stages, Kinds
<1>3. ASSUME NEW o \in Orders, EnterTrigger(o) PROVE TypeOK'
  <2>1. updated' \in [Orders -> Stamps]
    BY <1>3, StampType DEF EnterTrigger
  <2> QED BY <1>3, <2>1 DEF EnterTrigger, TypeOK, Stages
<1>4. ASSUME NEW o \in Orders, Update(o) PROVE TypeOK'
  <2>1. updated' \in [Orders -> Stamps]
    BY <1>4, StampType DEF Update
  <2>2. kind' \in [Orders -> Kinds]
    BY <1>4 DEF Update, TypeOK, Kinds
  <2> QED BY <1>4, <2>1, <2>2 DEF Update, TypeOK
<1>5. ASSUME NEW o \in Orders, LeaveTrigger(o) PROVE TypeOK'
  <2>1. \A r \in Runs : ShiftedBy(o, r) \subseteq Orders
    BY DEF ShiftedBy, Listing
  <2>2. shifted' \subseteq Orders
    BY <1>5, <2>1 DEF LeaveTrigger, TypeOK
  <2> QED BY <1>5, <2>2 DEF LeaveTrigger, TypeOK, Stages
<1> QED BY <1>1, <1>2, <1>3, <1>4, <1>5

LEMMA RunType ==
    ASSUME TypeOK, NEW r \in Runs, RunStep(r) \/ Fail(r)
    PROVE  TypeOK'
<1> USE JobTypes
<1>1. CASE Start(r)
  <2>1. [NoJob EXCEPT !.pc = "cursor", !.started = now] \in Jobs
    BY DEF TypeOK, Jobs, Pcs
  <2> QED BY <1>1, <2>1, BecomesType DEF Start, TypeOK
<1>2. CASE ReadCursor(r)
  <2>1. [run[r] EXCEPT !.pc = "search", !.since = Cursor] \in Jobs
    BY CursorType DEF Jobs, Pcs
  <2>2. horizon' \in Sinces
    BY <1>2, CursorType DEF ReadCursor, TypeOK
  <2> QED BY <1>2, <2>1, <2>2, BecomesType DEF ReadCursor, TypeOK
<1>3. CASE Search(r)
  <2> DEFINE page == Page(run[r].since, run[r].offset)
             bare == {o \in page : kind[o] = "none"}
             more == /\ run[r].offset + PageSize < Cardinality(Listing(run[r].since))
                     /\ page # {}
             j    == [run[r] EXCEPT !.pc = "take", !.page = page, !.bare = bare, !.more = more]
  <2>1. page \in SUBSET Orders /\ bare \in SUBSET Orders /\ more \in BOOLEAN
    BY DEF Page, Listing
  <2>2. j \in Jobs
    <3> HIDE DEF page, bare, more
    <3> QED BY <2>1 DEF Jobs, Pcs
  <2>3. Becomes(r, j)
    BY <1>3 DEF Search
  <2> QED BY <1>3, <2>2, <2>3, BecomesType DEF Search, TypeOK
<1>4. CASE Take(r)
  <2> DEFINE o    == First(run[r].page)
             keep == o \notin run[r].bare /\ kind[o] = "flex"
             j    == [run[r] EXCEPT !.page = @ \ {o}, !.bare = @ \ {o},
                                    !.fetched = IF keep THEN Append(@, o) ELSE @]
  <2>1. o \in Orders
    BY <1>4, FirstIsMember DEF Take
  <2>2. j \in Jobs
    <3> HIDE DEF o, keep
    <3>1. Append(run[r].fetched, o) \in Seq(Orders)
      BY <2>1, AppendProperties
    <3> QED BY <3>1 DEF Jobs
  <2>3. Becomes(r, j)
    BY <1>4 DEF Take
  <2>4. fate' \in [Orders -> Fates]
    <3>1. "flagged" \in Fates
      BY DEF Fates
    <3> QED BY <1>4, <2>1, <3>1 DEF Take, TypeOK
  <2> QED BY <1>4, <2>2, <2>3, <2>4, BecomesType DEF Take, TypeOK
<1>5. CASE TurnPage(r)
  <2>1. run[r].offset + PageSize \in Nat
    BY Basics
  <2>2. [run[r] EXCEPT !.pc = "search", !.offset = @ + PageSize] \in Jobs
    BY <2>1 DEF Jobs, Pcs
  <2>3. \E j \in Jobs : Becomes(r, j)
    BY <1>5, <2>2 DEF TurnPage
  <2> QED BY <1>5, <2>3, BecomesType DEF TurnPage, TypeOK
<1>6. CASE Process(r)
  <2>1. Head(run[r].fetched) \in Orders /\ Tail(run[r].fetched) \in Seq(Orders)
    BY <1>6, HeadTailProperties DEF Process
  <2>2. [run[r] EXCEPT !.fetched = Tail(@)] \in Jobs
    BY <2>1 DEF Jobs
  <2>3. fate' \in [Orders -> Fates]
    BY <1>6, <2>1, AfterType DEF Process, Outcomes, Fates
  <2>4. stray' \subseteq Orders
    BY <1>6 DEF Process, TypeOK
  <2> QED BY <1>6, <2>2, <2>3, <2>4, BecomesType DEF Process, TypeOK
<1>7. CASE Finish(r)
  <2>1. successes' \subseteq Times
    BY <1>7 DEF Finish, TypeOK
  <2> QED BY <1>7, <2>1, BecomesType DEF Finish, TypeOK
<1>9. CASE Refuse(r)
  BY <1>9, BecomesType DEF Refuse, TypeOK
<1>8. CASE Fail(r)
  <2>1. fate' \in [Orders -> Fates]
    <3>1. {o \in Orders : Delivers(r, o)} \in SUBSET Orders
      OBVIOUS
    <3> QED BY <1>8, <3>1, UnfinishedType DEF Fail
  <2>2. faults' \in 0..MaxFaults
    BY <1>8, Basics DEF Fail, TypeOK
  <2>3. stray' \subseteq Orders
    BY <1>8 DEF Fail, Missed, TypeOK
  <2> QED BY <1>8, <2>1, <2>2, <2>3, BecomesType DEF Fail, TypeOK
<1> QED BY <1>1, <1>2, <1>3, <1>4, <1>5, <1>6, <1>7, <1>8, <1>9 DEF RunStep

LEMMA TypeStep == TypeOK /\ [Next]_vars => TypeOK'
<1> SUFFICES ASSUME TypeOK, [Next]_vars PROVE TypeOK'
  OBVIOUS
<1>1. ASSUME NEW o \in Orders, OnDemand(o) PROVE TypeOK'
  <2>1. fate' \in [Orders -> Fates]
    BY <1>1, AfterType DEF OnDemand, Outcomes, Fates
  <2> QED BY <1>1, <2>1 DEF OnDemand, TypeOK, shop
<1>2. CASE Crash
  <2>1. fate' \in [Orders -> Fates]
    <3>1. {o \in Orders : Deliverable(o)} \in SUBSET Orders
      OBVIOUS
    <3> QED BY <1>2, <3>1, UnfinishedType DEF Crash
  <2>2. faults' \in 0..MaxFaults
    BY <1>2, Basics DEF Crash, TypeOK
  <2>3. run' \in [Runs -> Jobs]
    BY <1>2, JobTypes DEF Crash
  <2>4. stray' \subseteq Orders
    BY <1>2 DEF Crash, Missed, TypeOK
  <2> QED BY <1>2, <2>1, <2>2, <2>3, <2>4 DEF Crash, TypeOK, shop
<1>3. ASSUME NEW o \in Orders, OnDemandFails(o) PROVE TypeOK'
  <2>1. fate' \in [Orders -> Fates]
    BY <1>3, UnfinishedType DEF OnDemandFails
  <2>2. faults' \in 0..MaxFaults
    BY <1>3, Basics DEF OnDemandFails, TypeOK
  <2>3. stray' \subseteq Orders
    BY <1>3 DEF OnDemandFails, Missed, TypeOK
  <2> QED BY <1>3, <2>1, <2>2, <2>3 DEF OnDemandFails, TypeOK, shop
<1>4. CASE UNCHANGED vars
  BY <1>4 DEF vars, TypeOK
<1> QED BY <1>1, <1>2, <1>3, <1>4, ShopType, RunType DEF Next

-----------------------------------------------------------------------------
(* What a step leaves of the invariant *)

LEMMA ListingFacts ==
    ASSUME NEW since, NEW o \in Orders
    PROVE  /\ Listing(since) \in SUBSET Orders
           /\ Rank(o, since) = Position(Listing(since), o)
           /\ Rank(o, since) \in Nat
           /\ o \in Nat
<1>1. Listing(since) \in SUBSET Orders /\ o \in Nat
  BY Basics DEF Listing
<1> QED BY <1>1, PositionType DEF Rank, Position

LEMMA PassedType ==
    ASSUME TypeOK, NEW r \in Runs
    PROVE  Passed(r) \in Nat
BY JobTypes, Basics DEF Passed

\* What is ahead of a run depends on its job and on the listing.
LEMMA AheadKept ==
    ASSUME NEW r \in Runs, NEW o \in Orders, UNCHANGED <<stage, updated>>,
           run'[r] = run[r], Ahead(o, r)
    PROVE  Ahead(o, r)'
<1>1. \A s : Listing(s)' = Listing(s)
  BY DEF Listing
<1>2. \A s : Rank(o, s)' = Rank(o, s)
  BY <1>1 DEF Rank
<1>3. Passed(r)' = Passed(r)
  BY DEF Passed, At
<1> QED BY <1>1, <1>2, <1>3 DEF Ahead, Fetched, OnPage, Beyond, Asking, At

\* The records change so that no order becomes one the service has lost sight of.
RecordsKept ==
    /\ UNCHANGED shop
    /\ \A p \in Orders : \/ fate'[p] = fate[p] /\ (p \in stray => p \in stray')
                         \/ fate'[p] \in Outcomes
                         \/ fate[p] = "none" /\ fate'[p] = "flagged"

NoneNew == \A o \in Orders : Untraced(o)' => Untraced(o)

LEMMA KeptIsNotNew ==
    ASSUME RecordsKept
    PROVE  NoneNew
BY DEF RecordsKept, shop, NoneNew, Untraced, Outcomes

LEMMA OwedBefore ==
    ASSUME RecordsKept, UNCHANGED shifted, NEW o \in Orders, NEW s, Owed(o, s)'
    PROVE  Owed(o, s)
BY KeptIsNotNew DEF RecordsKept, shop, Owed, NoneNew

LEMMA OutcomesKeepRecords ==
    ASSUME TypeOK, UNCHANGED shop, NEW o \in Orders, NEW f \in Outcomes,
           fate' = After(o, f), stray' = stray \ {o}
    PROVE  RecordsKept
<1>1. fate'[o] \in Outcomes
  BY DEF TypeOK, After, Outcomes
<1>2. ASSUME NEW p \in Orders, p # o
      PROVE  fate'[p] = fate[p] /\ (p \in stray => p \in stray')
  BY <1>2 DEF TypeOK, After
<1> QED BY <1>1, <1>2 DEF RecordsKept

LEMMA FatesKeepRecords ==
    ASSUME UNCHANGED <<shop, fate, stray>>
    PROVE  RecordsKept
BY DEF RecordsKept

\* A run that does not move keeps its part, when only records change.
LEMMA RunKept ==
    ASSUME TypeOK, NEW r \in Runs, UNCHANGED <<shop, shifted>>,
           Active(r) => NoneNew /\ horizon' >= horizon, horizon' \in Sinces,
           run'[r] = run[r], PageSeen(r), FetchedSeen(r), Covered(r)
    PROVE  PageSeen(r)' /\ FetchedSeen(r)' /\ Covered(r)'
<1>1. PageSeen(r)' /\ FetchedSeen(r)'
  BY DEF PageSeen, FetchedSeen, Since, Fetched, Active, shop, At
<1>2. ASSUME Active(r)', NEW o \in Orders, Owed(o, horizon)'
      PROVE  updated'[o] >= run'[r].started - Skew \/ Ahead(o, r)'
  <2>1. Active(r)
    BY <1>2 DEF Active
  <2>2. Untraced(o) /\ updated[o] >= horizon' /\ o \notin shifted
    BY <1>2, <2>1 DEF Owed, NoneNew, shop
  <2>3. updated[o] \in Int /\ horizon \in Int /\ horizon' \in Int
    BY Basics DEF TypeOK, Stamps, Sinces
  <2>4. Owed(o, horizon)
    BY <2>1, <2>2, <2>3 DEF Owed
  <2>5. updated[o] >= run[r].started - Skew \/ Ahead(o, r)
    BY <2>1, <2>4 DEF Covered
  <2> QED BY <2>5, AheadKept DEF shop
<1>3. Covered(r)'
  BY <1>2 DEF Covered, Owed
<1> QED BY <1>1, <1>3

\* A run that has ended has no part.
LEMMA RunEnded ==
    ASSUME NEW r \in Runs, run'[r].pc \in {"idle", "cursor"}
    PROVE  PageSeen(r)' /\ FetchedSeen(r)' /\ Covered(r)'
BY DEF PageSeen, FetchedSeen, Covered, Active, At

\* The cursor stays, and with it what it has passed.
LEMMA PassedKept ==
    ASSUME NothingPassedUnseen, RecordsKept, UNCHANGED <<now, successes, horizon, shifted>>
    PROVE  NothingPassedUnseen'
<1>1. Cursor' = Cursor /\ Horizon' = Horizon
  BY DEF Cursor, Horizon
<1>2. ASSUME NEW o \in Orders, Untraced(o)', updated'[o] >= Horizon', o \notin shifted'
      PROVE  updated'[o] >= Cursor'
  <2>1. Untraced(o) /\ updated' = updated
    BY <1>2, KeptIsNotNew DEF RecordsKept, shop, NoneNew
  <2> QED BY <1>1, <1>2, <2>1 DEF NothingPassedUnseen
<1> QED BY <1>2 DEF NothingPassedUnseen

\* A step that gives one run a job: the other runs and the clock go on.
LEMMA OneRunMoves ==
    ASSUME TypeOK, TypeOK', FeedInv, NEW r \in Runs, NEW j, Becomes(r, j), RecordsKept,
           UNCHANGED <<now, successes, horizon, shifted>>,
           j.started <= now, j.pc = "cursor" => j.offset = 0 /\ j.fetched = <<>>,
           Active(r)' => Active(r),
           PageSeen(r)', FetchedSeen(r)', Covered(r)'
    PROVE  FeedInv'
<1>1. run'[r] = j /\ \A q \in Runs : q # r => run'[q] = run[q]
  BY DEF Becomes, TypeOK
<1>2. Clocked'
  BY <1>1 DEF Clocked, FeedInv
<1>3. FromTheStart'
  BY <1>1 DEF FromTheStart, At, FeedInv
<1>4. ASSUME NEW q \in Runs, Active(q)' PROVE Active(q)
  BY <1>1, <1>4 DEF Active
<1>5. LookedBack'
  BY <1>4 DEF LookedBack, FeedInv
<1>6. horizon' >= horizon /\ horizon' \in Sinces
  BY Basics DEF TypeOK, Sinces
<1>7. \A q \in Runs : PageSeen(q)' /\ FetchedSeen(q)' /\ Covered(q)'
  BY <1>1, <1>6, RunKept, KeptIsNotNew DEF FeedInv, PagesSeen, AllCovered, RecordsKept
<1> QED BY <1>2, <1>5, <1>7, <1>3, PassedKept DEF FeedInv, PagesSeen, AllCovered

-----------------------------------------------------------------------------
(* The steps of a run *)

LEMMA StartStep ==
    ASSUME TypeOK, TypeOK', FeedInv, NEW r \in Runs, Start(r)
    PROVE  FeedInv'
<1> DEFINE j == [NoJob EXCEPT !.pc = "cursor", !.started = now]
<1>1. Becomes(r, j) /\ RecordsKept
  BY FatesKeepRecords DEF Start
<1>2. j.pc = "cursor" /\ j.started = now /\ j.offset = 0 /\ j.fetched = <<>> /\ now \in Int
  BY Basics DEF NoJob, TypeOK, Times
<1>3. run'[r] = j
  BY <1>1 DEF Becomes, TypeOK
<1>4. PageSeen(r)' /\ FetchedSeen(r)' /\ Covered(r)' /\ ~Active(r)'
  BY <1>2, <1>3, RunEnded DEF Active
<1> HIDE DEF j
<1> QED BY <1>1, <1>2, <1>4, OneRunMoves DEF Start

LEMMA RefuseStep ==
    ASSUME TypeOK, TypeOK', FeedInv, NEW r \in Runs, Refuse(r)
    PROVE  FeedInv'
<1>1. Becomes(r, NoJob) /\ RecordsKept
  BY FatesKeepRecords DEF Refuse
<1>2. NoJob.pc = "idle" /\ NoJob.started <= now
  BY Basics DEF NoJob, TypeOK, Times
<1>3. run'[r] = NoJob
  BY <1>1 DEF Becomes, TypeOK
<1>4. PageSeen(r)' /\ FetchedSeen(r)' /\ Covered(r)' /\ ~Active(r)'
  BY <1>2, <1>3, RunEnded DEF Active
<1> QED BY <1>1, <1>2, <1>4, OneRunMoves DEF Refuse

LEMMA ReadCursorStep ==
    ASSUME TypeOK, TypeOK', FeedInv, NEW r \in Runs, ReadCursor(r)
    PROVE  FeedInv'
<1> DEFINE j == [run[r] EXCEPT !.pc = "search", !.since = Cursor]
<1>1. /\ run'[r] = j /\ \A q \in Runs : q # r => run'[q] = run[q]
      /\ RecordsKept
      /\ UNCHANGED <<now, successes, shifted>>
      /\ At(r, "cursor")
  BY FatesKeepRecords DEF ReadCursor, Becomes, TypeOK
<1>2. /\ j.pc = "search" /\ j.since = Cursor /\ j.offset = 0 /\ j.started = run[r].started
      /\ j.fetched = <<>>
  BY <1>1, JobTypes DEF FeedInv, FromTheStart, Jobs
<1> HIDE DEF j
<1>3. Clocked' /\ FromTheStart'
  BY <1>1, <1>2 DEF FeedInv, Clocked, FromTheStart, At
<1>4. successes = {} => horizon' = now - Lookback
  BY DEF ReadCursor, Cursor
<1>5. successes # {} => horizon' = horizon
  BY DEF ReadCursor
<1>6. LookedBack'
  BY <1>1, <1>4, Basics DEF LookedBack, TypeOK, Times
<1>7. ASSUME NEW q \in Runs, q # r PROVE PageSeen(q)' /\ FetchedSeen(q)' /\ Covered(q)'
  <2>1. Active(q) => horizon' >= horizon
    BY <1>4, <1>5, <1>7, Basics DEF FeedInv, LookedBack, TypeOK, Sinces
  <2>2. horizon' \in Sinces
    BY DEF TypeOK
  <2> QED BY <1>1, <1>7, <2>1, <2>2, RunKept, KeptIsNotNew
          DEF FeedInv, PagesSeen, AllCovered, RecordsKept
<1>8. PageSeen(r)' /\ FetchedSeen(r)'
  BY <1>1, <1>2 DEF PageSeen, FetchedSeen, Fetched, At
<1>9. ASSUME NEW o \in Orders, Owed(o, horizon)' PROVE Ahead(o, r)'
  <2>1. /\ Untraced(o) /\ updated[o] >= horizon' /\ o \notin shifted
        /\ updated' = updated /\ stage' = stage
    BY <1>1, <1>9, KeptIsNotNew DEF Owed, RecordsKept, shop, NoneNew
  <2>2. updated[o] >= Cursor
    <3>1. CASE successes = {}
      BY <2>1, <1>4, <3>1 DEF Cursor
    <3>2. CASE successes # {}
      BY <1>5, <2>1, <3>2 DEF FeedInv, NothingPassedUnseen, Horizon
    <3> QED BY <3>1, <3>2
  <2>3. \A s : Listing(s)' = Listing(s) /\ Rank(o, s)' = Rank(o, s)
    BY <2>1 DEF Listing, Rank
  <2>4. o \in Listing(Cursor) /\ Rank(o, Cursor) \in Nat
    BY <2>1, <2>2, ListingFacts DEF Listing, Untraced
  <2>5. Passed(r)' = 0
    BY <1>1, <1>2 DEF Passed, At
  <2> QED BY <1>1, <1>2, <2>3, <2>4, <2>5 DEF Ahead, Beyond, Asking, At
<1>10. Covered(r)'
  BY <1>9 DEF Covered
<1>11. NothingPassedUnseen'
  <2>1. CASE successes = {}
    BY <1>1, <2>1 DEF NothingPassedUnseen, Horizon, Cursor
  <2>2. CASE successes # {}
    BY <1>1, <1>5, <2>2, PassedKept DEF FeedInv
  <2> QED BY <2>1, <2>2
<1> QED BY <1>3, <1>6, <1>7, <1>8, <1>10, <1>11 DEF FeedInv, PagesSeen, AllCovered

LEMMA SearchStep ==
    ASSUME TypeOK, TypeOK', FeedInv, NEW r \in Runs, Search(r)
    PROVE  FeedInv'
<1> DEFINE since == run[r].since
           offset == run[r].offset
           page == Page(since, offset)
           bare == {o \in page : kind[o] = "none"}
           more == offset + PageSize < Cardinality(Listing(since)) /\ page # {}
           j    == [run[r] EXCEPT !.pc = "take", !.page = page, !.bare = bare, !.more = more]
<1>1. /\ Becomes(r, j) /\ RecordsKept
      /\ UNCHANGED <<now, stage, kind, updated, successes, horizon, shifted>>
  BY FatesKeepRecords DEF Search, shop
<1>2. /\ j.pc = "take" /\ j.page = page /\ j.bare = bare /\ j.more = more
      /\ j.since = since /\ j.offset = offset /\ j.fetched = run[r].fetched
      /\ j.started = run[r].started
  <2> HIDE DEF page, bare, more
  <2> QED BY JobTypes DEF Jobs
<1> HIDE DEF j
<1>3. run'[r] = j
  BY <1>1 DEF Becomes, TypeOK
<1>4. PageSeen(r)' /\ FetchedSeen(r)'
  <2>1. \A o \in page : o \in Orders /\ stage[o] = "listed" /\ updated[o] >= since
    BY DEF Page, Listing
  <2>2. Active(r) /\ FetchedSeen(r)
    BY DEF Search, At, Active, FeedInv, PagesSeen
  <2> HIDE DEF page
  <2>3. PageSeen(r)'
    BY <1>1, <1>2, <1>3, <2>1 DEF PageSeen, Since, At
  <2>4. FetchedSeen(r)'
    BY <1>1, <1>2, <1>3, <2>2 DEF FetchedSeen, Fetched, Since
  <2> QED BY <2>3, <2>4
<1>5. ASSUME NEW o \in Orders, Owed(o, horizon)'
      PROVE  updated'[o] >= run'[r].started - Skew \/ Ahead(o, r)'
  <2>1. Owed(o, horizon)
    BY <1>1, <1>5, OwedBefore DEF Owed
  <2>2. updated[o] >= run[r].started - Skew \/ Ahead(o, r)
    BY <2>1 DEF FeedInv, AllCovered, Covered, Active, Search, At
  <2>3. CASE updated[o] >= run[r].started - Skew
    BY <1>1, <1>2, <1>3, <2>3
  <2>4. CASE Fetched(o, r)
    BY <1>2, <1>3, <2>4 DEF Fetched, Ahead
  <2>5. CASE Beyond(o, r)
    <3>1. o \in Listing(since) /\ Rank(o, since) >= offset
      BY <2>5 DEF Beyond, Passed, Search, At
    <3>2. Rank(o, since) \in Nat /\ offset \in Nat /\ PageSize \in Nat /\ PageSize > 0
      BY ListingFacts, JobTypes, Basics
    <3>3. CASE Rank(o, since) < offset + PageSize
      <4>1. o \in page
        BY <3>1, <3>3 DEF Page
      <4> HIDE DEF page
      <4> QED BY <1>2, <1>3, <4>1 DEF Ahead, OnPage, At
    <3>4. CASE Rank(o, since) >= offset + PageSize
      <4>1. Listing(since) \in SUBSET Orders /\ Rank(o, since) = Position(Listing(since), o)
        BY ListingFacts
      <4>2. Position(Listing(since), o) < Cardinality(Listing(since))
        BY <3>1, <4>1, PositionInside
      <4>3. Cardinality(Listing(since)) \in Nat
        BY <4>1, <3>2, PositionType, ListingFacts
      <4>4. offset + PageSize < Cardinality(Listing(since))
        BY <3>2, <3>4, <4>1, <4>2, <4>3
      <4>5. PICK p \in Listing(since) : Position(Listing(since), p) = offset
        BY <3>1, <3>2, <4>1, PositionsFilled
      <4>6. p \in page
        <5>1. p \in Orders /\ Rank(p, since) = offset
          BY <4>1, <4>5, ListingFacts
        <5> QED BY <3>2, <4>5, <5>1 DEF Page
      <4>7. more
        BY <4>4, <4>6
      <4>8. Listing(since)' = Listing(since) /\ since' = since
        BY <1>1, <1>2, <1>3 DEF Listing
      <4>9. Rank(o, since)' = Rank(o, since)
        BY <4>8 DEF Rank
      <4> HIDE DEF page, more, since, offset
      <4>10. Passed(r)' = offset + PageSize
        BY <1>2, <1>3, <4>7 DEF Passed, At
      <4>11. Beyond(o, r)'
        BY <1>2, <1>3, <3>1, <3>4, <4>7, <4>8, <4>9, <4>10 DEF Beyond, Asking, At, since
      <4> QED BY <4>11 DEF Ahead
    <3> QED BY <3>2, <3>3, <3>4
  <2> QED BY <2>2, <2>3, <2>4, <2>5 DEF Ahead, OnPage, Search, At
<1>6. Covered(r)'
  BY <1>5 DEF Covered
<1>7. run[r].started <= now /\ Active(r)
  BY DEF FeedInv, Clocked, Active, Search, At
<1> QED BY <1>1, <1>2, <1>4, <1>6, <1>7, OneRunMoves

\* The order taken is flagged, kept, of no concern, or was updated meanwhile.
LEMMA TakeStep ==
    ASSUME TypeOK, TypeOK', FeedInv, NEW r \in Runs, Take(r)
    PROVE  FeedInv'
<1> DEFINE x    == First(run[r].page)
           keep == x \notin run[r].bare /\ kind[x] = "flex"
           j    == [run[r] EXCEPT !.page = @ \ {x}, !.bare = @ \ {x},
                                  !.fetched = IF keep THEN Append(@, x) ELSE @]
<1>1. /\ Becomes(r, j) /\ UNCHANGED <<now, stage, kind, updated, successes, horizon, shifted,
                                     stray>>
      /\ At(r, "take")
      /\ fate' = [fate EXCEPT ![x] =
                    IF x \in run[r].bare /\ @ = "none" THEN "flagged" ELSE @]
  BY DEF Take, shop
<1>2. x \in run[r].page /\ x \in Orders
  BY JobTypes, FirstIsMember DEF Take
<1>3. RecordsKept
  BY <1>1, <1>2 DEF RecordsKept, TypeOK, shop
<1>4. /\ j.pc = "take" /\ j.page = run[r].page \ {x} /\ j.bare = run[r].bare \ {x}
      /\ j.more = run[r].more /\ j.since = run[r].since /\ j.offset = run[r].offset
      /\ j.started = run[r].started
      /\ j.fetched = IF keep THEN Append(run[r].fetched, x) ELSE run[r].fetched
  <2> HIDE DEF x, keep
  <2> QED BY <1>1, JobTypes DEF Jobs, At
<1> HIDE DEF j
<1>5. run'[r] = j
  BY <1>1 DEF Becomes, TypeOK
<1>6. PageSeen(r)' /\ FetchedSeen(r)'
  <2>1. PageSeen(r) /\ FetchedSeen(r) /\ Active(r)
    BY <1>1 DEF FeedInv, PagesSeen, Active, At
  <2>2. PageSeen(r)'
    <3> HIDE DEF x
    <3> QED BY <1>1, <1>4, <1>5, <2>1 DEF PageSeen, Since, At
  <2>3. ASSUME NEW o \in Orders, Fetched(o, r)' PROVE Since(o, r)'
    <3> HIDE DEF x
    <3>1. Fetched(o, r) \/ o = x
      <4>1. /\ Len(Append(run[r].fetched, x)) = Len(run[r].fetched) + 1
            /\ \A i \in 1..Len(run[r].fetched) :
                  Append(run[r].fetched, x)[i] = run[r].fetched[i]
            /\ Append(run[r].fetched, x)[Len(run[r].fetched) + 1] = x
            /\ Len(run[r].fetched) \in Nat
        BY <1>2, JobTypes, AppendProperties
      <4>2. CASE run'[r].fetched = Append(run[r].fetched, x)
        <5>1. PICK i \in 1..Len(run'[r].fetched) : run'[r].fetched[i] = o
          BY <2>3 DEF Fetched
        <5>2. i \in 1..Len(run[r].fetched) \/ i = Len(run[r].fetched) + 1
          BY <4>1, <4>2, <5>1
        <5> QED BY <4>1, <4>2, <5>1, <5>2 DEF Fetched
      <4>3. CASE run'[r].fetched = run[r].fetched
        BY <2>3, <4>3 DEF Fetched
      <4> QED BY <1>4, <1>5, <4>2, <4>3
    <3>2. Since(o, r)
      BY <1>1, <1>2, <2>1, <3>1 DEF PageSeen, FetchedSeen
    <3> QED BY <1>1, <1>4, <1>5, <3>2 DEF Since
  <2> QED BY <2>2, <2>3 DEF FetchedSeen
<1>7. \A o \in Orders : Fetched(o, r) \/ (keep /\ o = x) => Fetched(o, r)'
  <2> HIDE DEF x
  <2>1. CASE keep
    <3>1. /\ Len(Append(run[r].fetched, x)) = Len(run[r].fetched) + 1
          /\ \A i \in 1..Len(run[r].fetched) :
                Append(run[r].fetched, x)[i] = run[r].fetched[i]
          /\ Append(run[r].fetched, x)[Len(run[r].fetched) + 1] = x
          /\ Len(run[r].fetched) \in Nat
      BY <1>2, JobTypes, AppendProperties
    <3>2. run'[r].fetched = Append(run[r].fetched, x)
      BY <1>4, <1>5, <2>1
    <3>3. ASSUME NEW o \in Orders, Fetched(o, r) PROVE Fetched(o, r)'
      BY <3>1, <3>2, <3>3 DEF Fetched
    <3>4. ASSUME NEW o \in Orders, o = x PROVE Fetched(o, r)'
      <4>1. Len(run[r].fetched) + 1 \in 1..Len(run'[r].fetched)
        BY <3>1, <3>2
      <4> QED BY <3>1, <3>2, <3>4, <4>1 DEF Fetched
    <3> QED BY <2>1, <3>3, <3>4
  <2>2. CASE ~keep
    BY <1>4, <1>5, <2>2 DEF Fetched
  <2> QED BY <2>1, <2>2
<1>8. ASSUME NEW o \in Orders, Owed(o, horizon)'
      PROVE  updated'[o] >= run'[r].started - Skew \/ Ahead(o, r)'
  <2>1. Owed(o, horizon)
    BY <1>1, <1>3, <1>8, OwedBefore DEF Owed
  <2>2. updated[o] >= run[r].started - Skew \/ Ahead(o, r)
    BY <1>1, <2>1 DEF FeedInv, AllCovered, Covered, Active, At
  <2>3. CASE updated[o] >= run[r].started - Skew
    BY <1>1, <1>4, <1>5, <2>3
  <2>4. CASE Fetched(o, r)
    BY <1>7, <2>4 DEF Ahead
  <2>5. CASE OnPage(o, r) /\ o # x
    BY <1>4, <1>5, <2>5 DEF Ahead, OnPage, At
  <2>6. CASE o = x
    <3>1. CASE x \in run[r].bare /\ kind[x] = "flex"
      BY <1>1, <1>2, <1>4, <1>5, <2>6, <3>1 DEF FeedInv, PagesSeen, PageSeen
    <3>2. CASE x \in run[r].bare /\ kind[x] # "flex"
      BY <1>1, <1>2, <1>8, <2>6, <3>2 DEF Owed, Untraced, TypeOK
    <3>3. CASE x \notin run[r].bare
      <4>1. kind[x] = "flex"
        BY <1>1, <1>2, <2>1, <2>6, <3>3
           DEF Owed, Untraced, FeedInv, PagesSeen, PageSeen
      <4> QED BY <1>7, <2>6, <3>3, <4>1 DEF Ahead
    <3> QED BY <3>1, <3>2, <3>3
  <2>7. CASE Beyond(o, r)
    <3>1. \A s : Listing(s)' = Listing(s) /\ Rank(o, s)' = Rank(o, s)
      BY <1>1 DEF Listing, Rank
    <3>2. Passed(r)' = Passed(r)
      BY <1>1, <1>4, <1>5 DEF Passed, At
    <3> QED BY <1>1, <1>4, <1>5, <2>7, <3>1, <3>2 DEF Ahead, Beyond, Asking, At
  <2> QED BY <2>2, <2>3, <2>4, <2>5, <2>6, <2>7 DEF Ahead
<1>9. Covered(r)'
  BY <1>8 DEF Covered
<1>10. run[r].started <= now /\ Active(r)
  BY <1>1 DEF FeedInv, Clocked, Active, At
<1> QED BY <1>1, <1>3, <1>4, <1>6, <1>9, <1>10, OneRunMoves

LEMMA TurnPageStep ==
    ASSUME TypeOK, TypeOK', FeedInv, NEW r \in Runs, TurnPage(r)
    PROVE  FeedInv'
<1> DEFINE j == IF run[r].more
                THEN [run[r] EXCEPT !.pc = "search", !.offset = @ + PageSize]
                ELSE Iterated(r)
<1>1. /\ Becomes(r, j) /\ RecordsKept
      /\ UNCHANGED <<now, stage, kind, updated, successes, horizon, shifted>>
      /\ At(r, "take") /\ run[r].page = {}
  BY FatesKeepRecords DEF TurnPage, shop
<1>2. /\ j.started = run[r].started /\ j.fetched = run[r].fetched
      /\ j.since = run[r].since
      /\ run[r].more => /\ j.pc = "search"
                        /\ j.offset = run[r].offset + PageSize
      /\ ~run[r].more => j.pc = "process"
  BY JobTypes DEF Jobs, Iterated, NoJob
<1> HIDE DEF j
<1>3. run'[r] = j
  BY <1>1 DEF Becomes, TypeOK
<1>4. PageSeen(r)' /\ FetchedSeen(r)'
  <2>1. FetchedSeen(r) /\ Active(r)
    BY <1>1 DEF FeedInv, PagesSeen, Active, At
  <2> QED BY <1>1, <1>2, <1>3, <2>1 DEF PageSeen, FetchedSeen, Fetched, Since, At
<1>5. ASSUME NEW o \in Orders, Owed(o, horizon)'
      PROVE  updated'[o] >= run'[r].started - Skew \/ Ahead(o, r)'
  <2>1. Owed(o, horizon)
    BY <1>1, <1>5, OwedBefore DEF Owed
  <2>2. updated[o] >= run[r].started - Skew \/ Ahead(o, r)
    BY <1>1, <2>1 DEF FeedInv, AllCovered, Covered, Active, At
  <2>3. CASE updated[o] >= run[r].started - Skew
    BY <1>1, <1>2, <1>3, <2>3
  <2>4. CASE Fetched(o, r)
    BY <1>2, <1>3, <2>4 DEF Ahead, Fetched
  <2>5. CASE Beyond(o, r)
    <3>1. \A s : Listing(s)' = Listing(s) /\ Rank(o, s)' = Rank(o, s)
      BY <1>1 DEF Listing, Rank
    <3>2. run[r].more
      BY <1>1, <2>5 DEF Beyond, Asking, At
    <3>3. Passed(r)' = Passed(r)
      BY <1>1, <1>2, <1>3, <3>2 DEF Passed, At
    <3> QED BY <1>2, <1>3, <2>5, <3>1, <3>2, <3>3 DEF Ahead, Beyond, Asking, At
  <2> QED BY <1>1, <2>2, <2>3, <2>4, <2>5 DEF Ahead, OnPage
<1>6. Covered(r)'
  BY <1>5 DEF Covered
<1>7. run[r].started <= now /\ Active(r) /\ j.pc # "cursor"
  BY <1>1, <1>2 DEF FeedInv, Clocked, Active, At
<1> QED BY <1>1, <1>2, <1>4, <1>6, <1>7, OneRunMoves

LEMMA ProcessStep ==
    ASSUME TypeOK, TypeOK', FeedInv, NEW r \in Runs, Process(r)
    PROVE  FeedInv'
<1> DEFINE f == run[r].fetched
           h == Head(f)
           j == [run[r] EXCEPT !.fetched = Tail(@)]
<1>1. /\ Becomes(r, j) /\ At(r, "process") /\ f # <<>>
      /\ UNCHANGED <<now, stage, kind, updated, successes, horizon, shifted>>
      /\ stray' = stray \ {h}
  BY DEF Process, shop
<1>2. PICK outcome \in Outcomes : fate' = After(h, outcome)
  BY DEF Process
<1>3. /\ h \in Orders /\ Tail(f) \in Seq(Orders) /\ f \in Seq(Orders) /\ Len(f) \in Nat
      /\ Len(f) > 0 /\ h = f[1] /\ Len(Tail(f)) = Len(f) - 1
      /\ \A i \in 1..Len(Tail(f)) : Tail(f)[i] = f[i + 1]
  BY <1>1, JobTypes, HeadTailProperties
<1>4. RecordsKept /\ \A o \in Orders : o = h => ~Untraced(o)'
  <2>2. RecordsKept
    BY <1>1, <1>2, <1>3, OutcomesKeepRecords DEF shop
  <2>3. fate'[h] \notin {"none", "flagged", "pending"}
    BY <1>2, <1>3 DEF After, TypeOK, Outcomes
  <2>4. ASSUME NEW o \in Orders, fate'[o] \notin {"none", "flagged", "pending"}
        PROVE  ~Untraced(o)'
    BY <2>4 DEF Untraced
  <2> HIDE DEF h
  <2> QED BY <1>3, <2>2, <2>3, <2>4
<1>5. /\ j.pc = "process" /\ j.started = run[r].started /\ j.fetched = Tail(f)
      /\ j.since = run[r].since
  BY <1>1, JobTypes DEF Jobs, At
<1> HIDE DEF j
<1>6. run'[r] = j
  BY <1>1 DEF Becomes, TypeOK
<1>7. PageSeen(r)' /\ FetchedSeen(r)'
  <2>1. FetchedSeen(r) /\ Active(r)
    BY <1>1 DEF FeedInv, PagesSeen, Active, At
  <2>2. ASSUME NEW o \in Orders, Fetched(o, r)' PROVE Since(o, r)'
    <3>1. PICK i \in 1..Len(Tail(f)) : Tail(f)[i] = o
      BY <1>5, <1>6, <2>2 DEF Fetched
    <3>2. i + 1 \in 1..Len(f) /\ f[i + 1] = o
      BY <1>3, <3>1
    <3>3. Fetched(o, r)
      BY <3>2 DEF Fetched
    <3> QED BY <1>1, <1>5, <1>6, <2>1, <3>3 DEF FetchedSeen, Since
  <2> QED BY <1>5, <1>6, <2>2 DEF PageSeen, FetchedSeen, At
<1>8. ASSUME NEW o \in Orders, Owed(o, horizon)'
      PROVE  updated'[o] >= run'[r].started - Skew \/ Ahead(o, r)'
  <2>1. Owed(o, horizon) /\ o # h
    BY <1>1, <1>4, <1>8, OwedBefore DEF Owed
  <2>2. updated[o] >= run[r].started - Skew \/ Ahead(o, r)
    BY <1>1, <2>1 DEF FeedInv, AllCovered, Covered, Active, At
  <2>3. CASE updated[o] >= run[r].started - Skew
    BY <1>1, <1>5, <1>6, <2>3
  <2>4. CASE Fetched(o, r)
    <3>1. PICK i \in 1..Len(f) : f[i] = o
      BY <2>4 DEF Fetched
    <3>2. i \in Nat /\ i > 1 /\ i - 1 \in 1..Len(Tail(f)) /\ Tail(f)[i - 1] = f[i - 1 + 1]
      BY <1>3, <2>1, <3>1
    <3>3. Tail(f)[i - 1] = o
      BY <3>1, <3>2
    <3> QED BY <1>5, <1>6, <3>2, <3>3 DEF Ahead, Fetched
  <2> QED BY <1>1, <2>2, <2>3, <2>4 DEF Ahead, OnPage, Beyond, Asking, At
<1>9. Covered(r)'
  BY <1>8 DEF Covered
<1>10. run[r].started <= now /\ Active(r)
  BY <1>1 DEF FeedInv, Clocked, Active, At
<1> QED BY <1>1, <1>4, <1>5, <1>7, <1>9, <1>10, OneRunMoves

\* The next cursor is the start of this run, or what it was or before.
LEMMA FinishStep ==
    ASSUME TypeOK, TypeOK', FeedInv, NEW r \in Runs, Finish(r)
    PROVE  FeedInv'
<1> DEFINE started == run[r].started
<1>1. /\ Becomes(r, NoJob) /\ At(r, "process") /\ run[r].fetched = <<>>
      /\ successes' = successes \cup {started}
      /\ RecordsKept
      /\ UNCHANGED <<now, stage, kind, updated, horizon, shifted>>
  BY FatesKeepRecords DEF Finish, shop
<1>2. /\ run'[r] = NoJob /\ \A q \in Runs : q # r => run'[q] = run[q]
      /\ NoJob.pc = "idle" /\ NoJob.started = 0
  BY <1>1 DEF Becomes, TypeOK, NoJob
<1>3. Clocked'
  BY <1>1, <1>2, Basics DEF FeedInv, Clocked, TypeOK, Times
<1>4. FromTheStart' /\ LookedBack'
  BY <1>1, <1>2 DEF FeedInv, FromTheStart, LookedBack, At
<1>5. \A q \in Runs : PageSeen(q)' /\ FetchedSeen(q)' /\ Covered(q)'
  <2>1. PageSeen(r)' /\ FetchedSeen(r)' /\ Covered(r)'
    BY <1>2, RunEnded
  <2>2. horizon' >= horizon /\ horizon' \in Sinces
    BY <1>1, Basics DEF TypeOK, Sinces
  <2> QED BY <1>1, <1>2, <2>1, <2>2, RunKept, KeptIsNotNew
          DEF FeedInv, PagesSeen, AllCovered, RecordsKept
<1>6. ASSUME NEW o \in Orders, Untraced(o)', updated'[o] >= Horizon', o \notin shifted'
      PROVE  updated'[o] >= Cursor'
  <2>1. successes' # {} /\ successes' \subseteq Times
    BY <1>1 DEF TypeOK
  <2>2. Latest(successes') \in successes' /\ Cursor' = Latest(successes') - Overlap
    BY <2>1, LatestIsGreatest DEF Cursor
  <2>3. Owed(o, horizon)
    BY <1>1, <1>6, <2>1, KeptIsNotNew DEF Owed, NoneNew, Horizon
  <2>4. updated[o] \in Int /\ started \in Int /\ Latest(successes') \in Int
    <3>1. started \in Times /\ Latest(successes') \in Times
      BY <2>1, <2>2, JobTypes
    <3>2. updated[o] \in Stamps
      BY DEF TypeOK
    <3> QED BY <3>1, <3>2, Basics DEF Stamps, Times
  <2>5. CASE Latest(successes') = started
    <3>1. updated[o] >= started - Skew
      <4>1. ~Ahead(o, r)
        BY <1>1 DEF Ahead, Fetched, OnPage, Beyond, Asking, At
      <4> QED BY <1>1, <2>3, <4>1 DEF FeedInv, AllCovered, Covered, Active, At
    <3> QED BY <1>1, <2>2, <2>4, <2>5, <3>1, Basics
  <2>6. CASE Latest(successes') \in successes
    <3>1. successes # {} /\ Latest(successes') <= Latest(successes)
          /\ Latest(successes) \in Times
      BY <2>6, LatestIsGreatest DEF TypeOK
    <3>2. updated[o] >= Latest(successes) - Overlap
      BY <2>3, <3>1 DEF FeedInv, NothingPassedUnseen, Owed, Horizon, Cursor
    <3> QED BY <1>1, <2>2, <2>4, <3>1, <3>2, Basics DEF Times
  <2> QED BY <1>1, <2>2, <2>5, <2>6
<1>7. NothingPassedUnseen'
  BY <1>6 DEF NothingPassedUnseen
<1> QED BY <1>3, <1>4, <1>5, <1>7 DEF FeedInv, PagesSeen, AllCovered

\* Calls that are cut off leave claims.  Those that are not missed are the last
\* ones of a run whose cursor is still the next one's, or are past the cursor.
LEMMA CutOffStep ==
    ASSUME TypeOK, TypeOK', FeedInv, NEW others \in SUBSET Runs,
           \A q \in others : run'[q] = run[q],
           \A q \in Runs \ others : run'[q] = NoJob,
           NEW S \in SUBSET Orders, fate' \in Unfinished(S),
           stray' = stray \cup Missed(others),
           UNCHANGED <<now, shop, successes, horizon, shifted>>
    PROVE  FeedInv'
<1>1. ASSUME NEW o \in Orders, Untraced(o)', ~Untraced(o)
      PROVE  /\ \A q \in others : ~Active(q)
             /\ \/ ~(updated[o] < Cursor)
                \/ \E r \in Runs : Delivers(r, o) /\ (successes = {} \/ run[r].since = Cursor)
  <2>1. fate'[o] = "pending" /\ o \notin stray' /\ fate[o] # "pending"
    BY <1>1, UnfinishedType DEF Untraced, shop
  <2>2. o \notin Missed(others)
    BY <2>1
  <2> QED BY <2>1, <2>2 DEF Missed
<1>2. NoJob.pc = "idle" /\ NoJob.started <= now
  BY Basics DEF NoJob, TypeOK, Times
<1>3. \A q \in Runs : Active(q)' => q \in others /\ Active(q)
  BY <1>2 DEF Active
<1>4. Clocked' /\ FromTheStart' /\ LookedBack'
  BY <1>2, <1>3 DEF FeedInv, Clocked, FromTheStart, LookedBack, At
<1>5. ASSUME NEW q \in Runs PROVE PageSeen(q)' /\ FetchedSeen(q)' /\ Covered(q)'
  <2>1. CASE q \in others
    <3>1. Active(q) => NoneNew
      BY <1>1, <2>1 DEF NoneNew
    <3>2. horizon' >= horizon /\ horizon' \in Sinces
      BY Basics DEF TypeOK, Sinces
    <3> QED BY <2>1, <3>1, <3>2, RunKept DEF FeedInv, PagesSeen, AllCovered
  <2>2. CASE q \notin others
    BY <1>2, <2>2, RunEnded
  <2> QED BY <2>1, <2>2
<1>6. NothingPassedUnseen'
  <2>1. Cursor' = Cursor /\ Horizon' = Horizon
    BY DEF Cursor, Horizon
  <2> SUFFICES ASSUME NEW o \in Orders, Untraced(o)', updated[o] >= Horizon, o \notin shifted
               PROVE  updated[o] >= Cursor
    BY <2>1 DEF NothingPassedUnseen, shop
  <2>2. CASE Untraced(o)
    BY <2>2 DEF FeedInv, NothingPassedUnseen
  <2>3. CASE ~Untraced(o) /\ ~(updated[o] < Cursor)
    <3>1. updated[o] \in Int /\ Cursor \in Int
      BY CursorType, Basics DEF TypeOK, Stamps, Sinces
    <3> QED BY <2>3, <3>1
  <2>4. CASE \E r \in Runs : Delivers(r, o) /\ (successes = {} \/ run[r].since = Cursor)
    <3>1. PICK r \in Runs : Delivers(r, o) /\ (successes = {} \/ run[r].since = Cursor)
      BY <2>4
    <3>2. CASE successes = {}
      BY <3>2 DEF Horizon, Cursor
    <3>3. CASE run[r].since = Cursor
      <4>1. Fetched(o, r) /\ Active(r)
        <5>1. run[r].fetched[1] = o /\ 1 \in 1..Len(run[r].fetched)
          BY <3>1, JobTypes, HeadTailProperties DEF Delivers
        <5> QED BY <3>1, <5>1 DEF Fetched, Delivers, Active, At
      <4> QED BY <3>3, <4>1 DEF FeedInv, PagesSeen, FetchedSeen, Since
    <3> QED BY <3>1, <3>2, <3>3
  <2> QED BY <1>1, <2>2, <2>3, <2>4
<1> QED BY <1>4, <1>5, <1>6 DEF FeedInv, PagesSeen, AllCovered

LEMMA FailStep ==
    ASSUME TypeOK, TypeOK', FeedInv, NEW r \in Runs, Fail(r)
    PROVE  FeedInv'
<1>1. run'[r] = NoJob /\ \A q \in Runs \ {r} : run'[q] = run[q]
  BY DEF Fail, Becomes, TypeOK
<1>2. Runs \ {r} \in SUBSET Runs /\ Runs \ (Runs \ {r}) = {r}
  OBVIOUS
<1>3. {o \in Orders : Delivers(r, o)} \in SUBSET Orders
  OBVIOUS
<1> QED BY <1>1, <1>2, <1>3, CutOffStep DEF Fail

-----------------------------------------------------------------------------
(* Mercado Libre and the clock *)

LEMMA TickStep ==
    ASSUME TypeOK, TypeOK', FeedInv, Tick
    PROVE  FeedInv'
<1>1. /\ now' = now + 1 /\ RecordsKept
      /\ UNCHANGED <<stage, kind, updated, successes, run, horizon, shifted>>
      /\ now \in Int
  BY FatesKeepRecords, Basics DEF Tick, shop, TypeOK, Times
<1>2. Clocked' /\ FromTheStart'
  <2>1. \A t \in successes : t \in Int
    BY Basics DEF TypeOK, Times
  <2>2. \A r \in Runs : run[r].started \in Int
    BY JobTypes, Basics DEF Times
  <2> QED BY <1>1, <2>1, <2>2 DEF FeedInv, Clocked, FromTheStart, At
<1>3. LookedBack'
  <2>1. horizon \in Int /\ Lookback \in Int
    BY Basics DEF TypeOK, Sinces
  <2> QED BY <1>1, <2>1 DEF FeedInv, LookedBack, Active
<1>4. \A r \in Runs : PageSeen(r)' /\ FetchedSeen(r)' /\ Covered(r)'
  <2>1. horizon' >= horizon /\ horizon' \in Sinces
    BY <1>1, Basics DEF TypeOK, Sinces
  <2> QED BY <1>1, <2>1, RunKept, KeptIsNotNew DEF FeedInv, PagesSeen, AllCovered, RecordsKept
<1>5. NothingPassedUnseen'
  <2>1. CASE successes = {}
    BY <1>1, <2>1 DEF NothingPassedUnseen, Horizon, Cursor
  <2>2. CASE successes # {}
    <3>1. Cursor' = Cursor /\ Horizon' = Horizon
      BY <1>1, <2>2 DEF Cursor, Horizon
    <3>2. ASSUME NEW o \in Orders PROVE Untraced(o)' => Untraced(o)
      BY <1>1, KeptIsNotNew DEF NoneNew
    <3> QED BY <1>1, <3>1, <3>2 DEF FeedInv, NothingPassedUnseen
  <2> QED BY <2>1, <2>2
<1> QED BY <1>2, <1>3, <1>4, <1>5 DEF FeedInv, PagesSeen, AllCovered

\* What an order may do without leaving the listing.
Stays(p) == /\ stage'[p] = stage[p]
            /\ kind'[p] = kind[p]
            /\ updated'[p] = updated[p]
Placed(p) == stage[p] = "absent" /\ stage'[p] = "placed" /\ updated'[p] = updated[p]
Updated(p) == /\ stage[p] \in {"placed", "listed"} /\ stage'[p] = "listed"
              /\ updated'[p] >= now - Skew
              /\ stage[p] = "listed" => updated'[p] >= updated[p]
              /\ kind'[p] = kind[p] \/ (kind[p] = "none" /\ kind'[p] = "flex")

LEMMA ListingGrowsStep ==
    ASSUME TypeOK, TypeOK', FeedInv,
           UNCHANGED <<now, fate, successes, run, horizon, shifted, stray>>,
           \A p \in Orders : Stays(p) \/ Placed(p) \/ Updated(p)
    PROVE  FeedInv'
<1>1. Clocked' /\ FromTheStart' /\ LookedBack'
  BY DEF FeedInv, Clocked, FromTheStart, LookedBack, Active, At
<1>2. ASSUME NEW o \in Orders
      PROVE  /\ updated[o] \in Int /\ updated'[o] \in Int
             /\ now \in Int /\ Skew \in Int /\ horizon \in Int
  BY Basics DEF TypeOK, Stamps, Times, Sinces
<1>3. ASSUME NEW r \in Runs, NEW o \in Orders, Updated(o)
      PROVE  updated'[o] >= run[r].started - Skew
  <2>1. run[r].started <= now
    BY DEF FeedInv, Clocked
  <2>2. run[r].started \in Int
    BY JobTypes, Basics DEF Times
  <2> QED BY <1>2, <1>3, <2>1, <2>2 DEF Updated
<1>7. ASSUME NEW r \in Runs, NEW o \in Orders, Since(o, r)
      PROVE  Since(o, r)' /\ ~Placed(o)
  <2>1. run[r].since \in Int
    BY JobTypes, Basics DEF Sinces
  <2>2. stage[o] \in {"listed", "gone"} /\ updated[o] >= run[r].since
    BY <1>7 DEF Since
  <2>3. stage'[o] \in {"listed", "gone"} /\ updated'[o] >= updated[o] /\ ~Placed(o)
    BY <1>2, <2>2 DEF Stays, Placed, Updated
  <2>4. updated'[o] >= run[r].since
    BY <1>2, <2>1, <2>2, <2>3
  <2> QED BY <2>3, <2>4 DEF Since
<1>8. ASSUME NEW r \in Runs PROVE FetchedSeen(r)'
  BY <1>7 DEF FeedInv, PagesSeen, FetchedSeen, Fetched, Active
<1>4. ASSUME NEW r \in Runs PROVE PageSeen(r)'
  <2> SUFFICES ASSUME At(r, "take")', NEW o \in run[r].page
               PROVE  /\ Since(o, r)'
                      /\ o \notin run[r].bare => kind'[o] # "none"
                      /\ o \in run[r].bare /\ kind'[o] = "flex"
                           => updated'[o] >= run[r].started - Skew
    BY DEF PageSeen
  <2>1. o \in Orders
    BY JobTypes
  <2>2. /\ Since(o, r)
        /\ o \notin run[r].bare => kind[o] # "none"
        /\ o \in run[r].bare /\ kind[o] = "flex" => updated[o] >= run[r].started - Skew
    BY DEF FeedInv, PagesSeen, PageSeen, At
  <2>3. CASE Stays(o)
    BY <1>7, <2>1, <2>2, <2>3 DEF Stays
  <2>4. CASE Updated(o)
    BY <1>3, <1>7, <2>1, <2>2, <2>4 DEF Updated
  <2> QED BY <1>7, <2>1, <2>2, <2>3, <2>4
<1>5. ASSUME NEW r \in Runs PROVE Covered(r)'
  <2> SUFFICES ASSUME Active(r)', NEW o \in Orders, Owed(o, horizon)'
               PROVE  updated'[o] >= run[r].started - Skew \/ Ahead(o, r)'
    BY DEF Covered
  <2>1. CASE Placed(o)
    BY <2>1 DEF Placed, Owed, Untraced
  <2>2. CASE Updated(o)
    BY <1>3, <2>2
  <2>3. CASE Stays(o)
    <3>1. Owed(o, horizon)
      BY <2>3 DEF Stays, Owed, Untraced
    <3>2. updated[o] >= run[r].started - Skew \/ Ahead(o, r)
      BY <3>1 DEF FeedInv, AllCovered, Covered, Active
    <3>3. CASE Beyond(o, r)
      <4> DEFINE L == Listing(run[r].since)
                 M == Listing(run[r].since)'
      <4>1. L \in SUBSET Orders /\ M \in SUBSET Orders
        BY DEF Listing
      <4>2. L \subseteq M
        <5>1. ASSUME NEW p \in L PROVE p \in M
          <6>1. p \in Orders /\ stage[p] = "listed" /\ updated[p] >= run[r].since
            BY DEF Listing
          <6>2. run[r].since \in Int
            BY JobTypes, Basics DEF Sinces
          <6>3. stage'[p] = "listed" /\ updated'[p] >= updated[p]
            BY <1>2, <6>1 DEF Stays, Placed, Updated
          <6>4. updated'[p] >= run[r].since
            BY <1>2, <6>1, <6>2, <6>3
          <6> QED BY <6>1, <6>3, <6>4 DEF Listing
        <5> QED BY <5>1
      <4>3. o \in L /\ Position(L, o) >= Passed(r) /\ Passed(r) \in Nat
        BY <3>3, ListingFacts, PassedType DEF Beyond
      <4>4. Position(L, o) <= Position(M, o) /\ Position(L, o) \in Nat /\ Position(M, o) \in Nat
        <5> HIDE DEF L, M
        <5>1. o \in Nat
          BY Basics
        <5> QED BY <4>1, <4>2, <5>1, PositionGrows, PositionType
      <4>5. Rank(o, run[r].since)' = Position(M, o)
        BY DEF Rank, Position
      <4>6. Passed(r)' = Passed(r)
        BY DEF Passed, At
      <4>7. o \in M
        BY <4>2, <4>3
      <4>8. Position(M, o) >= Passed(r)
        <5> HIDE DEF L, M
        <5> QED BY <4>3, <4>4
      <4> QED BY <3>3, <4>5, <4>6, <4>7, <4>8 DEF Ahead, Beyond, Asking, At
    <3>4. CASE Fetched(o, r) \/ OnPage(o, r)
      BY <3>4 DEF Ahead, Fetched, OnPage, At
    <3>5. CASE updated[o] >= run[r].started - Skew
      BY <2>3, <3>5 DEF Stays
    <3> QED BY <3>2, <3>3, <3>4, <3>5 DEF Ahead
  <2> QED BY <2>1, <2>2, <2>3
<1>6. NothingPassedUnseen'
  <2>1. Cursor' = Cursor /\ Horizon' = Horizon
    BY DEF Cursor, Horizon
  <2> SUFFICES ASSUME NEW o \in Orders, Untraced(o)', updated'[o] >= Horizon,
                      o \notin shifted
               PROVE  updated'[o] >= Cursor
    BY <2>1 DEF NothingPassedUnseen
  <2>2. CASE Placed(o)
    BY <2>2 DEF Placed, Untraced
  <2>3. CASE Stays(o)
    BY <2>3 DEF Stays, Untraced, FeedInv, NothingPassedUnseen
  <2>4. CASE Updated(o)
    <3>1. CASE successes = {}
      BY <3>1 DEF Horizon, Cursor
    <3>2. CASE successes # {}
      <4>1. Latest(successes) \in successes /\ Latest(successes) \in Times
        BY <3>2, LatestIsGreatest DEF TypeOK
      <4>2. Latest(successes) <= now /\ Latest(successes) \in Int
        BY <4>1, Basics DEF FeedInv, Clocked, Times
      <4>3. updated'[o] >= now - Skew /\ Cursor = Latest(successes) - Overlap
        BY <2>4, <3>2 DEF Updated, Cursor
      <4> QED BY <1>2, <4>2, <4>3, Basics
    <3> QED BY <3>1, <3>2
  <2> QED BY <2>2, <2>3, <2>4
<1> QED BY <1>1, <1>4, <1>5, <1>6, <1>8 DEF FeedInv, PagesSeen, AllCovered

LEMMA StampedIsUpdated ==
    ASSUME TypeOK, NEW o \in Orders, Stamp(o)
    PROVE  /\ updated'[o] >= now - Skew
           /\ stage[o] = "listed" => updated'[o] >= updated[o]
           /\ \A p \in Orders : p # o => updated'[p] = updated[p]
<1>1. PICK d \in 0..Skew : /\ stage[o] = "listed" => now - d >= updated[o]
                           /\ updated' = [updated EXCEPT ![o] = now - d]
  BY DEF Stamp
<1>2. now - d >= now - Skew /\ updated'[o] = now - d
  BY <1>1, Basics DEF TypeOK, Times
<1> QED BY <1>1, <1>2 DEF TypeOK

LEMMA GrowingSteps ==
    ASSUME TypeOK, TypeOK', FeedInv, NEW o \in Orders, Place(o) \/ EnterTrigger(o) \/ Update(o)
    PROVE  FeedInv'
<1>1. UNCHANGED <<now, fate, successes, run, horizon, shifted, stray>>
  BY DEF Place, EnterTrigger, Update
<1>2. CASE Place(o)
  <2>1. \A p \in Orders : Stays(p) \/ Placed(p)
    BY <1>2 DEF Place, Stays, Placed, TypeOK
  <2> QED BY <1>1, <2>1, ListingGrowsStep
<1>3. CASE EnterTrigger(o)
  <2>1. \A p \in Orders : Stays(p) \/ Updated(p)
    <3>1. Stamp(o)
      BY <1>3 DEF EnterTrigger
    <3>2. Updated(o)
      <4>1. /\ updated'[o] >= now - Skew
            /\ stage[o] = "listed" => updated'[o] >= updated[o]
        BY <3>1, StampedIsUpdated
      <4>2. stage[o] \in {"placed", "listed"} /\ stage'[o] = "listed"
        BY <1>3 DEF EnterTrigger, TypeOK
      <4>3. kind'[o] = kind[o] \/ (kind[o] = "none" /\ kind'[o] = "flex")
        BY <1>3 DEF EnterTrigger, TypeOK
      <4> QED BY <4>1, <4>2, <4>3 DEF Updated
    <3>3. ASSUME NEW p \in Orders, p # o PROVE Stays(p)
      BY <1>3, <3>1, <3>3, StampedIsUpdated DEF EnterTrigger, Stays, TypeOK
    <3> QED BY <3>2, <3>3
  <2> QED BY <1>1, <2>1, ListingGrowsStep
<1>4. CASE Update(o)
  <2>1. \A p \in Orders : Stays(p) \/ Updated(p)
    <3>1. Stamp(o)
      BY <1>4 DEF Update
    <3>2. Updated(o)
      <4>1. /\ updated'[o] >= now - Skew
            /\ stage[o] = "listed" => updated'[o] >= updated[o]
        BY <3>1, StampedIsUpdated
      <4>2. stage[o] \in {"placed", "listed"} /\ stage'[o] = "listed"
        BY <1>4 DEF Update, TypeOK
      <4>3. kind'[o] = kind[o] \/ (kind[o] = "none" /\ kind'[o] = "flex")
        BY <1>4 DEF Update, TypeOK
      <4> QED BY <4>1, <4>2, <4>3 DEF Updated
    <3>3. ASSUME NEW p \in Orders, p # o PROVE Stays(p)
      BY <1>4, <3>1, <3>3, StampedIsUpdated DEF Update, Stays, TypeOK
    <3> QED BY <3>2, <3>3
  <2> QED BY <1>1, <2>1, ListingGrowsStep
<1> QED BY <1>2, <1>3, <1>4

\* The order at the next position of a run is shifted when one before it leaves;
\* any other order ahead of a run stays ahead.
LEMMA LeaveStep ==
    ASSUME TypeOK, TypeOK', FeedInv, NEW x \in Orders, LeaveTrigger(x)
    PROVE  FeedInv'
<1>1. /\ stage[x] = "listed" /\ stage' = [stage EXCEPT ![x] = "gone"]
      /\ shifted' = shifted \cup UNION {ShiftedBy(x, r) : r \in Runs}
      /\ UNCHANGED <<now, kind, updated, fate, successes, run, horizon, stray>>
  BY DEF LeaveTrigger
<1>2. Clocked' /\ FromTheStart' /\ LookedBack'
  BY <1>1 DEF FeedInv, Clocked, FromTheStart, LookedBack, Active, At
<1>3. ASSUME NEW r \in Runs PROVE PageSeen(r)' /\ FetchedSeen(r)'
  <2>1. ASSUME NEW o \in Orders, Since(o, r) PROVE Since(o, r)'
    BY <1>1, <2>1 DEF Since, TypeOK
  <2>2. PageSeen(r) /\ FetchedSeen(r) /\ run[r].page \in SUBSET Orders
    BY JobTypes DEF FeedInv, PagesSeen
  <2> QED BY <1>1, <2>1, <2>2 DEF PageSeen, FetchedSeen, Fetched, Active, At
<1>4. ASSUME NEW o \in Orders, NEW s, Owed(o, s)'
      PROVE  Owed(o, s) /\ o # x
  BY <1>1, <1>4 DEF Owed, Untraced, TypeOK
<1>5. ASSUME NEW r \in Runs PROVE Covered(r)'
  <2> SUFFICES ASSUME Active(r)', NEW o \in Orders, Owed(o, horizon)'
               PROVE  updated'[o] >= run[r].started - Skew \/ Ahead(o, r)'
    BY <1>1 DEF Covered
  <2>1. Owed(o, horizon) /\ o # x
    BY <1>1, <1>4 DEF Owed
  <2>2. updated[o] >= run[r].started - Skew \/ Ahead(o, r)
    BY <1>1, <2>1 DEF FeedInv, AllCovered, Covered, Active
  <2>3. CASE Fetched(o, r) \/ OnPage(o, r)
    BY <1>1, <2>3 DEF Ahead, Fetched, OnPage, At
  <2>4. CASE Beyond(o, r)
    <3> DEFINE L == Listing(run[r].since)
               M == Listing(run[r].since)'
    <3>1. L \in SUBSET Orders /\ x \in Nat /\ o \in Nat
      BY Basics DEF Listing
    <3>2. M = L \ {x}
      BY <1>1 DEF Listing, TypeOK
    <3>3. o \in L /\ Position(L, o) >= Passed(r) /\ Passed(r) \in Nat
      BY <2>4, ListingFacts, PassedType DEF Beyond
    <3>4. Rank(o, run[r].since)' = Position(M, o)
      BY <1>1 DEF Rank, Position
    <3>5. Passed(r)' = Passed(r)
      BY <1>1 DEF Passed, At
    <3>6. Position(M, o) >= Passed(r)
      <4>1. CASE x \in L /\ x < o
        <5>1. Position(L, o) # Passed(r)
          <6> SUFFICES ASSUME Position(L, o) = Passed(r) PROVE FALSE
            OBVIOUS
          <6>1. Position(L, x) + 1 <= Position(L, o) /\ Position(L, x) \in Nat
            <7> HIDE DEF L
            <7> QED BY <3>1, <4>1, PositionOfEarlier, PositionType
          <6>2. Rank(x, run[r].since) < Passed(r) /\ Rank(o, run[r].since) = Passed(r)
            BY <3>3, <6>1, ListingFacts
          <6>3. o \in ShiftedBy(x, r)
            BY <3>3, <4>1, <6>2 DEF ShiftedBy
          <6>4. o \in shifted'
            BY <1>1, <6>3
          <6> QED BY <6>4 DEF Owed
        <5>2. Position(M, o) = Position(L, o) - 1 /\ Position(L, o) \in Nat
          <6> HIDE DEF L, M
          <6> QED BY <3>1, <3>2, <4>1, PositionAfterRemoval, PositionType
        <5> HIDE DEF L, M
        <5> QED BY <3>3, <5>1, <5>2
      <4>2. CASE x \in L /\ ~(x < o)
        <5> HIDE DEF L, M
        <5> QED BY <3>1, <3>2, <3>3, <4>2, PositionAfterRemoval
      <4>3. CASE x \notin L
        <5>1. M = L
          BY <3>2, <4>3
        <5> HIDE DEF L, M
        <5> QED BY <3>3, <5>1
      <4> QED BY <4>1, <4>2, <4>3
    <3>7. o \in M
      BY <2>1, <3>2, <3>3
    <3> QED BY <1>1, <2>4, <3>4, <3>5, <3>6, <3>7 DEF Ahead, Beyond, Asking, At
  <2> QED BY <1>1, <2>2, <2>3, <2>4 DEF Ahead
<1>6. NothingPassedUnseen'
  <2>1. Cursor' = Cursor /\ Horizon' = Horizon
    BY <1>1 DEF Cursor, Horizon
  <2>2. ASSUME NEW o \in Orders, Untraced(o)', o \notin shifted'
        PROVE  Untraced(o) /\ o \notin shifted
    BY <1>1, <2>2 DEF Untraced, TypeOK
  <2> QED BY <1>1, <2>1, <2>2 DEF FeedInv, NothingPassedUnseen
<1> QED BY <1>2, <1>3, <1>5, <1>6 DEF FeedInv, PagesSeen, AllCovered

-----------------------------------------------------------------------------
(* The theorems *)

LEMMA InitHolds == Init => FeedInv
<1> SUFFICES ASSUME Init PROVE FeedInv
  OBVIOUS
<1>1. \A r \in Runs : run[r].pc = "idle" /\ run[r].started = 0
  BY DEF Init, NoJob
<1> QED BY <1>1, Basics DEF Init, FeedInv, Clocked, FromTheStart, LookedBack, PagesSeen,
             PageSeen, FetchedSeen, AllCovered, Covered, Active, At, NothingPassedUnseen, Untraced

\* Steps outside the runs that change no more than records.
LEMMA OutsideStep ==
    ASSUME TypeOK, TypeOK', FeedInv,
           (\E o \in Orders : OnDemand(o)) \/ UNCHANGED vars
    PROVE  FeedInv'
<1>1. RecordsKept /\ UNCHANGED <<now, successes, horizon, shifted>>
  <2>1. CASE \E o \in Orders : OnDemand(o)
    <3>1. PICK o \in Orders : OnDemand(o)
      BY <2>1
    <3>2. PICK f \in Outcomes : fate' = After(o, f)
      BY <3>1 DEF OnDemand
    <3> QED BY <3>1, <3>2, OutcomesKeepRecords DEF OnDemand
  <2>2. CASE UNCHANGED vars
    BY <2>2, FatesKeepRecords DEF vars, shop
  <2> QED BY <2>1, <2>2
<1>2. UNCHANGED run
  BY DEF OnDemand, vars
<1>3. Clocked' /\ FromTheStart' /\ LookedBack'
  BY <1>1, <1>2 DEF FeedInv, Clocked, FromTheStart, LookedBack, Active, At
<1>4. horizon' >= horizon /\ horizon' \in Sinces
  BY <1>1, Basics DEF TypeOK, Sinces
<1>5. \A r \in Runs : PageSeen(r)' /\ FetchedSeen(r)' /\ Covered(r)'
  BY <1>1, <1>2, <1>4, RunKept, KeptIsNotNew DEF FeedInv, PagesSeen, AllCovered, RecordsKept
<1> QED BY <1>1, <1>3, <1>5, PassedKept DEF FeedInv, PagesSeen, AllCovered

\* A call on demand that raises, and the death of the process.
LEMMA FaultStep ==
    ASSUME TypeOK, TypeOK', FeedInv, (\E o \in Orders : OnDemandFails(o)) \/ Crash
    PROVE  FeedInv'
<1>1. ASSUME NEW o \in Orders, OnDemandFails(o) PROVE FeedInv'
  <2>1. Runs \in SUBSET Runs /\ Runs \ Runs = {} /\ {o} \in SUBSET Orders
    OBVIOUS
  <2> QED BY <1>1, <2>1, CutOffStep DEF OnDemandFails
<1>2. CASE Crash
  <2>1. {o \in Orders : Deliverable(o)} \in SUBSET Orders /\ {} \in SUBSET Runs
    OBVIOUS
  <2>2. \A q \in Runs \ {} : run'[q] = NoJob
    BY <1>2 DEF Crash
  <2> QED BY <1>2, <2>1, <2>2, CutOffStep DEF Crash
<1> QED BY <1>1, <1>2

LEMMA FeedInvStep == TypeOK /\ FeedInv /\ [Next]_vars => FeedInv'
<1> SUFFICES ASSUME TypeOK, FeedInv, [Next]_vars PROVE FeedInv'
  OBVIOUS
<1>1. TypeOK'
  BY TypeStep
<1>2. CASE Tick
  BY <1>1, <1>2, TickStep
<1>3. ASSUME NEW o \in Orders,
             \/ Place(o) \/ EnterTrigger(o) \/ Update(o) \/ LeaveTrigger(o)
             \/ OnDemand(o) \/ OnDemandFails(o)
      PROVE  FeedInv'
  BY <1>1, <1>3, GrowingSteps, LeaveStep, OutsideStep, FaultStep
<1>4. ASSUME NEW r \in Runs, RunStep(r) \/ Fail(r) PROVE FeedInv'
  BY <1>1, <1>4, StartStep, RefuseStep, ReadCursorStep, SearchStep, TakeStep, TurnPageStep,
     ProcessStep, FinishStep, FailStep DEF RunStep
<1>5. CASE Crash \/ UNCHANGED vars
  BY <1>1, <1>5, OutsideStep, FaultStep
<1> QED BY <1>2, <1>3, <1>4, <1>5 DEF Next

\* Every variable keeps its type: the job of a run, what it has fetched, and the
\* cursor it reads (app/ml/orders.py, get_cursor and fetch_new_orders).
THEOREM TypeCorrect == Spec => []TypeOK
<1>1. Init => TypeOK
  BY TypeInit
<1>2. TypeOK /\ [Next]_vars => TypeOK'
  BY TypeStep
<1> QED BY <1>1, <1>2, PTL DEF Spec

\* The inductive invariant of the feed: every run under way has each order it
\* answers for behind it, updated since, or ahead.
THEOREM Invariance == Spec => []IInv
<1>1. Init => TypeOK /\ FeedInv
  BY TypeInit, InitHolds
<1>2. (TypeOK /\ FeedInv) /\ [Next]_vars => (TypeOK /\ FeedInv)'
  BY TypeStep, FeedInvStep
<1>3. TypeOK /\ FeedInv => IInv
  BY DEF IInv
<1> QED BY <1>1, <1>2, <1>3, PTL DEF Spec

\* The cursor of get_cursor never passes an order without a record, but for
\* those older than the first runs looked back and those that moved over a page
\* boundary: whatever runs overlap, fail or crash, and however late stamps are.
THEOREM NothingIsPassedUnseen == Spec => []NothingPassedUnseen
<1>1. IInv => NothingPassedUnseen
  BY DEF IInv, FeedInv
<1> QED BY <1>1, Invariance, PTL
=============================================================================
