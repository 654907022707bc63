-------------------------- MODULE BookingLocksProofs --------------------------
(***************************************************************************)
(* Proofs about the aggregate locks, for any tasks and keys, and about the *)
(* room commands: their plans use the locks as AggregateLocks allows, so   *)
(* they inherit its theorems; the room grid matches the guests whatever    *)
(* the locks cover; and what a phased command writes its keys cover.       *)
(***************************************************************************)
EXTENDS BookingLocks, SequenceTheorems, WellFoundedInduction, TLAPS

-----------------------------------------------------------------------------
(* Naturals, sequences and the order of the keys.                           *)

\* A nonempty set of naturals has a least element.
LEMMA LeastNatural ==
  ASSUME NEW S \in SUBSET Nat, S # {}
  PROVE  \E m \in S : \A n \in S : m <= n
<1>1. \E m \in S : \A n \in S : <<n, m>> \notin OpToRel(<, Nat)
  BY NatLessThanWellFounded, WFMin
<1>2. \A m, n \in Nat : <<n, m>> \notin OpToRel(<, Nat) => m <= n
  BY DEF OpToRel
<1> QED BY <1>1, <1>2

\* A nonempty set of naturals with a bound has a greatest element.
LEMMA GreatestNatural ==
  ASSUME NEW S \in SUBSET Nat, S # {}, NEW b \in Nat, \A n \in S : n <= b
  PROVE  \E m \in S : \A n \in S : n <= m
<1> DEFINE Gaps == {b - n : n \in S}
<1>1. Gaps \in SUBSET Nat /\ Gaps # {}
  <2>1. \A n \in S : b - n \in Nat
    OBVIOUS
  <2>2. \A n \in S : b - n \in Gaps
    OBVIOUS
  <2> QED BY <2>1, <2>2
<1>2. PICK g \in Gaps : \A h \in Gaps : g <= h
  BY <1>1, LeastNatural
<1>3. PICK m \in S : g = b - m
  BY DEF Gaps
<1>4. \A n \in S : b - m <= b - n
  BY <1>2, <1>3
<1> QED BY <1>4

\* Removing an element from a queue leaves a queue.
LEMMA RemoveFirstType ==
  ASSUME NEW S, NEW q \in Seq(S), NEW e
  PROVE  RemoveFirst(q, e) \in Seq(S)
<1>1. CASE \E i \in 1 .. Len(q) : q[i] = e
  <2> DEFINE I == {i \in 1 .. Len(q) : q[i] = e}
  <2>1. Len(q) \in Nat
    OBVIOUS
  <2>2. I \in SUBSET Nat /\ I # {}
    BY <1>1, <2>1
  <2>3. Min(I) \in I
    BY <2>2, LeastNatural DEF Min
  <2>4. SelectInSeq(q, LAMBDA v : v = e) = Min(I)
    BY <2>2 DEF SelectInSeq
  <2>5. RemoveFirst(q, e) = RemoveAt(q, Min(I))
    BY <1>1, <2>4 DEF RemoveFirst
  <2> DEFINE i == Min(I)
  <2>6. i \in 1 .. Len(q)
    BY <2>3
  <2> HIDE DEF i, I
  <2>7. SubSeq(q, 1, i - 1) \in Seq(S)
    BY <2>1, <2>6, SubSeqProperties
  <2>8. SubSeq(q, i + 1, Len(q)) \in Seq(S)
    BY <2>1, <2>6, SubSeqProperties
  <2> QED BY <2>5, <2>7, <2>8, ConcatProperties DEF RemoveAt, i
<1>2. CASE ~\E i \in 1 .. Len(q) : q[i] = e
  BY <1>2 DEF RemoveFirst
<1> QED BY <1>1, <1>2

\* The ranks of keys are naturals up to 9, and the ids naturals too.
LEMMA KeyFacts ==
  ASSUME NEW k \in Keys
  PROVE  /\ scope_rank(k) \in Nat /\ scope_rank(k) <= 9
         /\ k.id \in Nat /\ k.id <= MaxId
BY KeysAssumption DEF scope_rank, Scopes, Ids

\* The canonical order is transitive and no key precedes itself.
LEMMA PrecedesIsAnOrder ==
  /\ \A a \in Keys : ~Precedes(a, a)
  /\ \A a, b, c \in Keys : Precedes(a, b) /\ Precedes(b, c) => Precedes(a, c)
BY KeyFacts DEF Precedes

\* A nonempty set of keys has a last one.
LEMMA LastKey ==
  ASSUME NEW K \in SUBSET Keys, K # {}
  PROVE  \E k \in K : \A j \in K : ~Precedes(k, j)
<1> DEFINE Rs == {scope_rank(k) : k \in K}
<1>1. PICK k1 \in K : \A j \in K : scope_rank(j) <= scope_rank(k1)
  <2>1. Rs \in SUBSET Nat
    BY KeyFacts
  <2>2. Rs # {}
    OBVIOUS
  <2>3. \A r \in Rs : r <= 9
    BY KeyFacts
  <2>4. PICK r \in Rs : \A n \in Rs : n <= r
    BY <2>1, <2>2, <2>3, GreatestNatural
  <2> QED BY <2>4
<1> DEFINE Top == {k \in K : scope_rank(k) = scope_rank(k1)}
           Is == {k.id : k \in Top}
<1>2. PICK k2 \in Top : \A j \in Top : j.id <= k2.id
  <2>1. Is \in SUBSET Nat
    BY KeyFacts
  <2>2. Is # {}
    BY <1>1
  <2>3. MaxId \in Nat /\ \A i \in Is : i <= MaxId
    BY KeyFacts, KeysAssumption
  <2>4. PICK i \in Is : \A n \in Is : n <= i
    BY <2>1, <2>2, <2>3, GreatestNatural
  <2> QED BY <2>4
<1>3. \A j \in K : ~Precedes(k2, j)
  BY <1>1, <1>2, KeyFacts DEF Precedes
<1> QED BY <1>2, <1>3

-----------------------------------------------------------------------------
(* The invariant.                                                           *)

\* Ordering is inductive with the types and, for the ring, exclusion: a key in
\* one task's hands is in nobody else's.
LockInv == LockTypeOK /\ GuardsAreExclusive /\ LocksAreOrdered

\* Dropping t's guards disturbs no other task's.
LEMMA DropKeepsLockInv ==
  ASSUME LockInv, NEW t \in Tasks, DropAll(t)
  PROVE  LockInv'
<1>1. holder' \in [Keys -> Tasks \cup {NoTask}]
  <2>1. \A k \in Keys : RemoveFirst(waiting[k], t) \in Seq(Tasks)
    BY RemoveFirstType DEF LockInv, LockTypeOK
  <2>2. \A q \in Seq(Tasks) : NextHolder(q) \in Tasks \cup {NoTask}
    BY HeadTailProperties DEF NextHolder
  <2> QED BY <2>1, <2>2 DEF LockInv, LockTypeOK, DropAll, Leave
<1>2. waiting' \in [Keys -> Seq(Tasks)]
  <2>1. \A k \in Keys : RemoveFirst(waiting[k], t) \in Seq(Tasks)
    BY RemoveFirstType DEF LockInv, LockTypeOK
  <2>2. \A q \in Seq(Tasks) : q # <<>> => Tail(q) \in Seq(Tasks)
    BY HeadTailProperties
  <2> QED BY <2>1, <2>2 DEF DropAll, Leave
<1>3. LockTypeOK'
  BY <1>1, <1>2 DEF LockInv, LockTypeOK, DropAll
<1>4. GuardsAreExclusive'
  <2> SUFFICES ASSUME NEW u \in Tasks, NEW k \in Held(u)'
               PROVE  holder'[k] = u
    BY DEF GuardsAreExclusive
  <2>1. u # t /\ k \in Held(u)
    BY DEF LockInv, LockTypeOK, DropAll, Held
  <2>2. k \in Keys /\ holder[k] = u
    BY <2>1 DEF LockInv, LockTypeOK, GuardsAreExclusive, Held
  <2> QED BY <2>1, <2>2 DEF DropAll, Leave
<1>5. LocksAreOrdered'
  BY DEF LockInv, LockTypeOK, LocksAreOrdered, DropAll, Held
<1> QED BY <1>3, <1>4, <1>5 DEF LockInv

\* A phase adds only keys above those of the guard.
LEMMA PhaseKeepsLockInv ==
  ASSUME LockInv, NEW t \in Tasks, NEW K \in SUBSET Keys,
         Acquire(t, K) \/ AcquireNext(t, K)
  PROVE  LockInv'
<1>1. pc[t] # "locking" /\ BeginPhase(t, K)
      /\ UNCHANGED <<holder, waiting, guard, got>>
  BY DEF Acquire, AcquireNext
<1>2. LockTypeOK'
  BY <1>1 DEF LockInv, LockTypeOK, BeginPhase
<1>3. GuardsAreExclusive'
  BY <1>1 DEF LockInv, GuardsAreExclusive, Held
<1>4. \A k \in Held(t), j \in K : Precedes(k, j)
  <2>1. got[t] = {}
    BY <1>1 DEF LockInv, LockTypeOK
  <2>2. guard[t] = {} \/ Outranks(K, guard[t])
    BY DEF Acquire, AcquireNext, LockInv, LockTypeOK
  <2> QED BY <2>1, <2>2 DEF Held, Outranks, Precedes
<1>5. LocksAreOrdered'
  BY <1>1, <1>4 DEF LockInv, LockTypeOK, LocksAreOrdered, Held, BeginPhase
<1> QED BY <1>2, <1>3, <1>5 DEF LockInv

\* Asking for a mutex takes only a free one.
LEMMA AskKeepsLockInv ==
  ASSUME LockInv, NEW t \in Tasks, Ask(t)
  PROVE  LockInv'
<1>1. PICK k \in todo[t] :
        IF holder[k] = NoTask
        THEN holder' = [holder EXCEPT ![k] = t] /\ UNCHANGED waiting
        ELSE waiting' = [waiting EXCEPT ![k] = Push(@, t)] /\ UNCHANGED holder
  BY DEF Ask
<1>2. UNCHANGED <<pc, guard, got, todo>> /\ k \in Keys
  BY DEF Ask, LockInv, LockTypeOK
<1>3. waiting' \in [Keys -> Seq(Tasks)]
  <2>1. Push(waiting[k], t) \in Seq(Tasks)
    BY <1>2, AppendProperties DEF Push, LockInv, LockTypeOK
  <2> QED BY <1>1, <2>1 DEF LockInv, LockTypeOK
<1>4. LockTypeOK'
  BY <1>1, <1>2, <1>3 DEF LockInv, LockTypeOK
<1>5. GuardsAreExclusive'
  BY <1>1, <1>2, KeysAssumption DEF LockInv, LockTypeOK, GuardsAreExclusive, Held
<1>6. LocksAreOrdered'
  BY <1>2 DEF LockInv, LocksAreOrdered, Held
<1> QED BY <1>4, <1>5, <1>6 DEF LockInv

\* The key taken is the first of those left, so it precedes the others.
LEMMA TakeKeepsLockInv ==
  ASSUME LockInv, NEW t \in Tasks, Take(t)
  PROVE  LockInv'
<1>1. PICK k \in todo[t] : /\ IsFirst(k, todo[t])
                           /\ holder[k] = t
                           /\ got'  = [got EXCEPT ![t] = @ \cup {k}]
                           /\ todo' = [todo EXCEPT ![t] = @ \ {k}]
  BY DEF Take
<1>2. pc[t] = "locking" /\ UNCHANGED <<holder, waiting, pc, guard>> /\ k \in Keys
  BY DEF Take, LockInv, LockTypeOK
<1>3. LockTypeOK'
  BY <1>1, <1>2 DEF LockInv, LockTypeOK
<1>4. GuardsAreExclusive'
  BY <1>1, <1>2 DEF LockInv, LockTypeOK, GuardsAreExclusive, Held
<1>5. LocksAreOrdered'
  BY <1>1, <1>2 DEF LockInv, LockTypeOK, LocksAreOrdered, Held, IsFirst
<1> QED BY <1>3, <1>4, <1>5 DEF LockInv

\* Merging a phase moves keys from one part of a guard to the other.
LEMMA MergeKeepsLockInv ==
  ASSUME LockInv, NEW t \in Tasks, MergePhase(t)
  PROVE  LockInv'
<1>1. LockTypeOK'
  BY DEF LockInv, LockTypeOK, MergePhase
<1>2. \A u \in Tasks : Held(u)' = Held(u)
  BY DEF LockInv, LockTypeOK, MergePhase, Held
<1>3. GuardsAreExclusive' /\ LocksAreOrdered'
  BY <1>2 DEF LockInv, GuardsAreExclusive, LocksAreOrdered, MergePhase
<1> QED BY <1>1, <1>3 DEF LockInv

-----------------------------------------------------------------------------
(* The theorems.                                                            *)

\* Every step keeps the invariant.
LEMMA LockStepKeepsLockInv ==
  ASSUME LockInv, [LockNext]_lockVars
  PROVE  LockInv'
<1>1. CASE UNCHANGED lockVars
  BY <1>1 DEF lockVars, LockInv, LockTypeOK, GuardsAreExclusive,
              LocksAreOrdered, Held
<1>2. CASE LockNext
  <2>1. PICK t \in Tasks : LockStep(t)
    BY <1>2 DEF LockNext
  <2>2. CASE \E K \in SUBSET Keys : Acquire(t, K) \/ AcquireNext(t, K)
    BY <2>2, PhaseKeepsLockInv
  <2>3. CASE Ask(t)
    BY <2>3, AskKeepsLockInv
  <2>4. CASE Take(t)
    BY <2>4, TakeKeepsLockInv
  <2>5. CASE MergePhase(t)
    BY <2>5, MergeKeepsLockInv
  <2>6. CASE Release(t) \/ Cancel(t)
    BY <2>6, DropKeepsLockInv DEF Release, Cancel
  <2> QED BY <2>1, <2>2, <2>3, <2>4, <2>5, <2>6 DEF LockStep
<1> QED BY <1>1, <1>2

\* The lock table's inductive invariant holds in every reachable state.
THEOREM LockInvariant == LockSpec => []LockInv
<1>1. LockInit => LockInv
  BY DEF LockInit, LockInv, LockTypeOK, GuardsAreExclusive, LocksAreOrdered, Held
<1> QED BY <1>1, LockStepKeepsLockInv, PTL DEF LockSpec

\* Two commands never have the same aggregate locked.
THEOREM LocksExclude == LockSpec => []GuardsAreExclusive
<1>1. LockInv => GuardsAreExclusive
  BY DEF LockInv
<1> QED BY <1>1, LockInvariant, PTL

\* Every chain of locks, phased or one-shot, ascends.
THEOREM LocksAscend == LockSpec => []LocksAreOrdered
<1>1. LockInv => LocksAreOrdered
  BY DEF LockInv
<1> QED BY <1>1, LockInvariant, PTL

\* In ascending chains the tasks of a ring would need ever later keys, and the
\* keys they need have a last one: nobody waits in a ring.
LEMMA AscendingHasNoCycle ==
  ASSUME LockInv
  PROVE  NoWaitCycle
<1> SUFFICES ASSUME NEW S \in SUBSET Tasks, S # {},
                    \A t \in S : \E u \in S : WaitsFor(t, u)
             PROVE  FALSE
  BY DEF NoWaitCycle
<1> DEFINE Needed == {k \in Keys : \E t \in S : k \in todo[t] /\ IsFirst(k, todo[t])}
<1>1. \A t \in S : \E k \in Needed : k \in todo[t] /\ IsFirst(k, todo[t])
  BY DEF WaitsFor, LockInv, LockTypeOK
<1>2. Needed # {}
  BY <1>1
<1>3. PICK k \in Needed : \A j \in Needed : ~Precedes(k, j)
  BY <1>2, LastKey
<1>4. PICK t \in S : k \in todo[t] /\ IsFirst(k, todo[t])
  OBVIOUS
<1>5. PICK u \in S : WaitsFor(t, u)
  OBVIOUS
<1>6. PICK h \in todo[t] : IsFirst(h, todo[t]) /\ h \in Held(u)
  BY <1>5 DEF WaitsFor
<1>7. h = k
  <2>1. h \in Keys /\ k \in Keys
    BY <1>6 DEF LockInv, LockTypeOK
  <2>2. h = k \/ (Precedes(h, k) /\ Precedes(k, h))
    BY <1>4, <1>6 DEF IsFirst
  <2> QED BY <2>1, <2>2, PrecedesIsAnOrder
<1>8. PICK j \in Needed : j \in todo[u]
  BY <1>1
<1>9. Precedes(k, j)
  BY <1>6, <1>7, <1>8 DEF LockInv, LocksAreOrdered
<1> QED BY <1>3, <1>9

\* Aggregate locks cannot deadlock, however many commands, keys and phases.
THEOREM LocksNeverDeadlock == LockSpec => []NoWaitCycle
BY LockInvariant, AscendingHasNoCycle, PTL

(***************************************************************************)
(* The room commands.                                                      *)
(***************************************************************************)
\* Every booking a command works on has a row, hence a room.
RowsOK ==
  /\ status \in [Bookings -> {"new", "active", "checked_out"}]
  /\ roomOf \in [Bookings -> Rooms \cup {NoRoom}]
  /\ room \in [Rooms -> {"vacant", "occupied"}]
  /\ \A b \in Bookings : status[b] # "new" => roomOf[b] \in Rooms

JobsOK ==
  /\ job \in [Tasks -> Job]
  /\ \A t \in Tasks : \A b \in job[t].bookings :
       /\ status[b] # "new"
       /\ job[t].stage = "looked" => job[t].seen[b] \in Rooms
  /\ \A t \in Tasks :
       /\ job[t].kind \in {"check_in", "change_room"} => job[t].to \in Rooms
       /\ job[t].stage = "looked" => job[t].kind = "change_room"

BookingInv == RowsOK /\ JobsOK /\ RoomsMatchStays

-----------------------------------------------------------------------------
(* Types of the jobs.                                                       *)

LEMMA NewJobType ==
  ASSUME NEW kind \in Kinds, NEW stage \in Stages, NEW B \in SUBSET Bookings,
         NEW r \in Rooms \cup {NoRoom}
  PROVE  NewJob(kind, stage, B, r) \in Job
BY DEF NewJob, Job, NothingSeen

LEMMA NoJobType == NoJob \in Job
BY NewJobType DEF NoJob, Kinds, Stages

\* One job changes and the rows stay.
LEMMA BecomeKeepsJobs ==
  ASSUME JobsOK, UNCHANGED rowVars, NEW t \in Tasks, NEW j \in Job, Become(t, j),
         \A b \in j.bookings : /\ status[b] # "new"
                               /\ j.stage = "looked" => j.seen[b] \in Rooms,
         j.kind \in {"check_in", "change_room"} => j.to \in Rooms,
         j.stage = "looked" => j.kind = "change_room"
  PROVE  JobsOK'
BY DEF JobsOK, Become, rowVars

\* The rooms looked up for bookings with rows are rooms.
LEMMA LookupType ==
  ASSUME RowsOK, NEW B \in SUBSET Bookings
  PROVE  /\ Lookup(B) \in [Bookings -> Rooms \cup {NoRoom}]
         /\ \A b \in B : status[b] # "new" => Lookup(B)[b] \in Rooms
BY DEF RowsOK, Lookup

\* A command that does not run its transaction keeps the jobs well formed.
LEMMA StartKeepsJobs ==
  ASSUME RowsOK, JobsOK, NEW t \in Tasks, Start(t)
  PROVE  JobsOK' /\ UNCHANGED rowVars
<1>1. CASE \E r \in Rooms : CheckIn(t, r)
  <2>1. PICK r \in Rooms : CheckIn(t, r)
    BY <1>1
  <2> DEFINE j == NewJob("check_in", "room", {}, r)
  <2>2. j \in Job
    BY NewJobType DEF Kinds, Stages
  <2>3. Become(t, j) /\ UNCHANGED rowVars
    BY <2>1 DEF CheckIn
  <2>4. j.bookings = {} /\ j.to = r /\ j.stage = "room"
    BY DEF NewJob
  <2> HIDE DEF j
  <2> QED BY <2>2, <2>3, <2>4, BecomeKeepsJobs
<1>2. CASE \E b \in Bookings, r \in Rooms : ChangeRoom(t, b, r)
  <2>1. PICK b \in Bookings, r \in Rooms : ChangeRoom(t, b, r)
    BY <1>2
  <2> DEFINE j == [NewJob("change_room", "looked", {b}, r) EXCEPT !.seen = Lookup({b})]
  <2>2. NewJob("change_room", "looked", {b}, r) \in Job
    BY NewJobType DEF Kinds, Stages
  <2>3. j \in Job
    BY <2>2, LookupType DEF Job
  <2>4. Become(t, j) /\ UNCHANGED rowVars /\ status[b] # "new"
    BY <2>1 DEF ChangeRoom
  <2>5. /\ j.bookings = {b} /\ j.to = r /\ j.seen = Lookup({b})
        /\ j.kind = "change_room"
    BY DEF NewJob
  <2>6. Lookup({b})[b] \in Rooms
    BY <2>4, LookupType
  <2> HIDE DEF j
  <2> QED BY <2>3, <2>4, <2>5, <2>6, BecomeKeepsJobs
<1>3. CASE \E b \in Bookings : CheckOut(t, b)
  <2>1. PICK b \in Bookings : CheckOut(t, b)
    BY <1>3
  <2> DEFINE j == NewJob("check_out", "booking", {b}, NoRoom)
  <2>2. j \in Job
    BY NewJobType DEF Kinds, Stages
  <2>3. Become(t, j) /\ UNCHANGED rowVars /\ status[b] # "new"
    BY <2>1 DEF CheckOut
  <2>4. j.bookings = {b} /\ j.stage = "booking" /\ j.kind = "check_out"
    BY DEF NewJob
  <2> HIDE DEF j
  <2> QED BY <2>2, <2>3, <2>4, BecomeKeepsJobs
<1>4. CASE \E g \in Groups, B \in SUBSET Bookings : GroupCheckout(t, g, B)
  <2>1. PICK g \in Groups, B \in SUBSET Bookings : GroupCheckout(t, g, B)
    BY <1>4
  <2> DEFINE j == NewJob("group_checkout", "group", B, NoRoom)
  <2>2. j \in Job
    BY NewJobType DEF Kinds, Stages
  <2>3. Become(t, j) /\ UNCHANGED rowVars /\ \A b \in B : status[b] # "new"
    BY <2>1 DEF GroupCheckout
  <2>4. j.bookings = B /\ j.stage = "group" /\ j.kind = "group_checkout"
    BY DEF NewJob
  <2> HIDE DEF j
  <2> QED BY <2>2, <2>3, <2>4, BecomeKeepsJobs
<1> QED BY <1>1, <1>2, <1>3, <1>4 DEF Start

\* A step of t that only moves its job on: same kind, bookings and target.
LEMMA MoveOnKeepsJobs ==
  ASSUME JobsOK, UNCHANGED rowVars, NEW t \in Tasks, NEW j \in Job, Become(t, j),
         j.kind = job[t].kind, j.bookings = job[t].bookings, j.to = job[t].to,
         j.stage # "looked"
  PROVE  JobsOK'
BY BecomeKeepsJobs DEF JobsOK

\* A job that ends leaves nothing to be well formed.
LEMMA EndKeepsJobs ==
  ASSUME JobsOK, UNCHANGED rowVars, NEW t \in Tasks, Become(t, NoJob)
  PROVE  JobsOK'
<1>1. NoJob.bookings = {} /\ NoJob.kind = "none" /\ NoJob.stage = "free"
  BY DEF NoJob, NewJob
<1> QED BY <1>1, NoJobType, BecomeKeepsJobs

\* The steps of a command between its start and its transaction, and after.
Between(t) ==
  \/ LockGroupBookings(t) \/ LockRoomsRead(t) \/ LockMove(t) \/ LockProgress(t)
  \/ Resolved(t) \/ Begin(t) \/ DropGuard(t) \/ Finish(t) \/ GiveUp(t)

LEMMA BetweenKeepsJobs ==
  ASSUME LockInv, RowsOK, JobsOK, NEW t \in Tasks, Between(t)
  PROVE  JobsOK' /\ UNCHANGED rowVars
<1> USE DEF rowVars
<1>1. job[t] \in Job
  BY DEF JobsOK
<1>2. CASE LockGroupBookings(t)
  <2> DEFINE j == [job[t] EXCEPT !.stage = "booking"]
  <2>1. j \in Job
    BY <1>1 DEF Job, Stages
  <2>2. /\ j.kind = job[t].kind /\ j.bookings = job[t].bookings
        /\ j.to = job[t].to /\ j.stage # "looked"
    BY <1>1 DEF Job
  <2>3. Become(t, j) /\ UNCHANGED rowVars
    BY <1>2 DEF LockGroupBookings
  <2> HIDE DEF j
  <2> QED BY <2>1, <2>2, <2>3, MoveOnKeepsJobs
<1>3. CASE LockRoomsRead(t)
  <2> DEFINE j == [job[t] EXCEPT !.stage = "room", !.seen = Lookup(job[t].bookings)]
  <2>1. Lookup(job[t].bookings) \in [Bookings -> Rooms \cup {NoRoom}]
    BY <1>1, LookupType DEF Job
  <2>2. j \in Job
    BY <1>1, <2>1 DEF Job, Stages
  <2>3. /\ j.kind = job[t].kind /\ j.bookings = job[t].bookings
        /\ j.to = job[t].to /\ j.stage # "looked"
    BY <1>1 DEF Job
  <2>4. Become(t, j) /\ UNCHANGED rowVars
    BY <1>3 DEF LockRoomsRead
  <2> HIDE DEF j
  <2> QED BY <2>2, <2>3, <2>4, MoveOnKeepsJobs
<1>4. CASE LockMove(t)
  <2> DEFINE j == [job[t] EXCEPT !.stage = "room"]
  <2>1. j \in Job
    BY <1>1 DEF Job, Stages
  <2>2. /\ j.kind = job[t].kind /\ j.bookings = job[t].bookings
        /\ j.to = job[t].to /\ j.stage # "looked"
    BY <1>1 DEF Job
  <2>3. Become(t, j) /\ UNCHANGED rowVars
    BY <1>4 DEF LockMove
  <2> HIDE DEF j
  <2> QED BY <2>1, <2>2, <2>3, MoveOnKeepsJobs
<1>5. CASE LockProgress(t) \/ DropGuard(t)
  <2>1. UNCHANGED <<rowVars, job>>
    BY <1>5 DEF LockProgress, DropGuard
  <2> QED BY <2>1 DEF JobsOK
<1>6. CASE Resolved(t)
  <2> DEFINE j == [job[t] EXCEPT !.stage = "resolved", !.keys = guard[t]]
  <2>1. guard[t] \in SUBSET Keys
    BY DEF LockInv, LockTypeOK
  <2>2. j \in Job
    BY <1>1, <2>1 DEF Job, Stages
  <2>3. /\ j.kind = job[t].kind /\ j.bookings = job[t].bookings
        /\ j.to = job[t].to /\ j.stage # "looked"
    BY <1>1 DEF Job
  <2>4. Become(t, j) /\ UNCHANGED rowVars
    BY <1>6 DEF Resolved
  <2> HIDE DEF j
  <2> QED BY <2>2, <2>3, <2>4, MoveOnKeepsJobs
<1>7. CASE Begin(t)
  <2> DEFINE j == [job[t] EXCEPT !.stage = "writing"]
  <2>1. j \in Job
    BY <1>1 DEF Job, Stages
  <2>2. /\ j.kind = job[t].kind /\ j.bookings = job[t].bookings
        /\ j.to = job[t].to /\ j.stage # "looked"
    BY <1>1 DEF Job
  <2>3. Become(t, j) /\ UNCHANGED rowVars
    BY <1>7 DEF Begin
  <2> HIDE DEF j
  <2> QED BY <2>1, <2>2, <2>3, MoveOnKeepsJobs
<1>8. CASE Finish(t) \/ GiveUp(t)
  BY <1>8, EndKeepsJobs DEF Finish, GiveUp
<1> QED BY <1>2, <1>3, <1>4, <1>5, <1>6, <1>7, <1>8 DEF Between

-----------------------------------------------------------------------------
(* The transactions.                                                        *)

\* A row once inserted stays inserted, and rooms and guests stay in step.
RowEffect ==
  /\ RowsOK'
  /\ RoomsMatchStays'
  /\ \A b \in Bookings : status[b] # "new" => status'[b] # "new"

LEMMA CheckInEffect ==
  ASSUME RowsOK, RoomsMatchStays, NEW r \in Rooms, CheckInTx(r)
  PROVE  RowEffect
<1>1. CASE Rollback
  BY <1>1 DEF Rollback, rowVars, RowEffect, RowsOK, RoomsMatchStays, InHouse
<1>2. CASE room[r] = "vacant" /\ \E b \in FreshIds : MoveIn(b, r)
  <2>1. PICK b \in FreshIds : MoveIn(b, r)
    BY <1>2
  <2>2. b \in Bookings /\ status[b] = "new"
    BY <2>1 DEF FreshIds
  <2>3. RowsOK'
    BY <2>1, <2>2 DEF RowsOK, MoveIn
  <2>4. \A c \in Bookings, s \in Rooms :
          InHouse(c, s)' <=> IF c = b THEN s = r ELSE InHouse(c, s)
    BY <2>1, <2>2 DEF RowsOK, MoveIn, InHouse
  <2>5. \A c \in Bookings : ~InHouse(c, r)
    BY <1>2 DEF RoomsMatchStays
  <2>6. \A s \in Rooms : room'[s] = IF s = r THEN "occupied" ELSE room[s]
    BY <2>1 DEF RowsOK, MoveIn
  <2>7. \A s \in Rooms : room'[s] = "occupied" <=> \E c \in Bookings : InHouse(c, s)'
    <3>1. \A s \in Rooms : ~InHouse(b, s)
      BY <2>2 DEF InHouse
    <3>2. \A s \in Rooms \ {r} :
            (\E c \in Bookings : InHouse(c, s)') <=> \E c \in Bookings : InHouse(c, s)
      BY <2>4, <3>1
    <3>3. \A s \in Rooms \ {r} : room'[s] = "occupied" <=> room[s] = "occupied"
      BY <2>6
    <3>4. InHouse(b, r)' /\ room'[r] = "occupied"
      BY <2>2, <2>4, <2>6
    <3> QED BY <2>2, <3>2, <3>3, <3>4 DEF RoomsMatchStays
  <2>8. \A c, d \in Bookings, s \in Rooms : InHouse(c, s)' /\ InHouse(d, s)' => c = d
    BY <2>4, <2>5 DEF RoomsMatchStays
  <2>9. \A c \in Bookings : status'[c] = "active" => roomOf'[c] \in Rooms
    BY <2>3 DEF RowsOK
  <2>10. \A c \in Bookings : status[c] # "new" => status'[c] # "new"
    BY <2>1, <2>2 DEF RowsOK, MoveIn
  <2> QED BY <2>3, <2>7, <2>8, <2>9, <2>10 DEF RowEffect, RoomsMatchStays
<1> QED BY <1>1, <1>2 DEF CheckInTx

LEMMA CheckOutEffect ==
  ASSUME RowsOK, RoomsMatchStays, NEW B \in SUBSET Bookings, NEW seen, CheckOutTx(B, seen)
  PROVE  RowEffect
<1> DEFINE rooms == {roomOf[b] : b \in B}
<1>1. CASE Rollback
  BY <1>1 DEF Rollback, rowVars, RowEffect, RowsOK, RoomsMatchStays, InHouse
<1>2. CASE /\ \A b \in B : roomOf[b] = seen[b] /\ status[b] = "active"
           /\ \A r \in rooms : room[r] = "occupied"
           /\ status' = [b \in Bookings |-> IF b \in B THEN "checked_out" ELSE status[b]]
           /\ room' = [r \in Rooms |-> IF r \in rooms THEN "vacant" ELSE room[r]]
           /\ UNCHANGED roomOf
  <2>1. RowsOK'
    BY <1>2 DEF RowsOK
  <2>2. \A c \in Bookings, s \in Rooms :
          InHouse(c, s)' <=> c \notin B /\ InHouse(c, s)
    BY <1>2 DEF RowsOK, InHouse
  <2>3. \A c \in Bookings, s \in Rooms : InHouse(c, s) => (s \in rooms <=> c \in B)
    BY <1>2 DEF InHouse, RoomsMatchStays
  <2>4. \A s \in Rooms : room'[s] = "occupied" <=> s \notin rooms /\ room[s] = "occupied"
    BY <1>2 DEF RowsOK
  <2>5. \A s \in Rooms : room'[s] = "occupied" <=> \E c \in Bookings : InHouse(c, s)'
    BY <2>2, <2>3, <2>4 DEF RoomsMatchStays
  <2>6. \A c, d \in Bookings, s \in Rooms : InHouse(c, s)' /\ InHouse(d, s)' => c = d
    BY <2>2 DEF RoomsMatchStays
  <2>7. \A c \in Bookings : status'[c] = "active" => roomOf'[c] \in Rooms
    BY <2>1 DEF RowsOK
  <2>8. \A c \in Bookings : status[c] # "new" => status'[c] # "new"
    BY <1>2
  <2> QED BY <2>1, <2>5, <2>6, <2>7, <2>8 DEF RowEffect, RoomsMatchStays
<1> QED BY <1>1, <1>2 DEF CheckOutTx

LEMMA ChangeRoomEffect ==
  ASSUME RowsOK, RoomsMatchStays, NEW b \in Bookings, NEW r \in Rooms, NEW seen,
         ChangeRoomTx(b, r, seen)
  PROVE  RowEffect
<1>1. CASE Rollback
  BY <1>1 DEF Rollback, rowVars, RowEffect, RowsOK, RoomsMatchStays, InHouse
<1>2. CASE /\ status[b] = "active" /\ roomOf[b] # r
           /\ room[r] = "vacant" /\ room[roomOf[b]] = "occupied"
           /\ roomOf' = [roomOf EXCEPT ![b] = r]
           /\ room' = [room EXCEPT ![roomOf[b]] = "vacant", ![r] = "occupied"]
           /\ UNCHANGED status
  <2> DEFINE old == roomOf[b]
  <2>1. old \in Rooms /\ InHouse(b, old)
    BY <1>2 DEF RowsOK, InHouse
  <2>2. RowsOK'
    BY <1>2, <2>1 DEF RowsOK
  <2>3. \A c \in Bookings, s \in Rooms :
          InHouse(c, s)' <=> IF c = b THEN s = r ELSE InHouse(c, s)
    BY <1>2 DEF RowsOK, InHouse
  <2>4. \A c \in Bookings : ~InHouse(c, r) /\ (InHouse(c, old) => c = b)
    BY <1>2, <2>1 DEF RoomsMatchStays
  <2>5. \A s \in Rooms : room'[s] = IF s = r THEN "occupied"
                                     ELSE IF s = old THEN "vacant" ELSE room[s]
    BY <1>2, <2>1 DEF RowsOK
  <2>6. \A s \in Rooms : InHouse(b, s) => s = old
    BY DEF InHouse
  <2> HIDE DEF old
  <2>7. \A s \in Rooms : room'[s] = "occupied" <=> \E c \in Bookings : InHouse(c, s)'
    <3> SUFFICES ASSUME NEW s \in Rooms
                 PROVE  room'[s] = "occupied" <=> \E c \in Bookings : InHouse(c, s)'
      OBVIOUS
    <3>1. CASE s = r
      BY <2>3, <2>5, <3>1
    <3>2. CASE s # r /\ s = old
      BY <2>3, <2>4, <2>5, <3>2
    <3>3. CASE s # r /\ s # old
      BY <2>3, <2>5, <2>6, <3>3 DEF RoomsMatchStays
    <3> QED BY <3>1, <3>2, <3>3
  <2>8. \A c, d \in Bookings, s \in Rooms : InHouse(c, s)' /\ InHouse(d, s)' => c = d
    BY <2>3, <2>4 DEF RoomsMatchStays
  <2>9. \A c \in Bookings : status'[c] = "active" => roomOf'[c] \in Rooms
    BY <2>2 DEF RowsOK
  <2>10. \A c \in Bookings : status[c] # "new" => status'[c] # "new"
    BY <1>2
  <2> QED BY <2>2, <2>7, <2>8, <2>9, <2>10 DEF RowEffect, RoomsMatchStays
<1> QED BY <1>1, <1>2 DEF ChangeRoomTx

\* The transaction keeps rows, rooms and jobs consistent.
LEMMA RunKeepsBookingInv ==
  ASSUME BookingInv, NEW t \in Tasks, Run(t)
  PROVE  BookingInv'
<1> DEFINE j == job[t]
           j2 == IF j.kind = "check_in" THEN [j EXCEPT !.stage = "answered"] ELSE NoJob
<1>1. j \in Job /\ (\A b \in j.bookings : status[b] # "new")
      /\ (j.kind \in {"check_in", "change_room"} => j.to \in Rooms)
  BY DEF BookingInv, JobsOK
<1>2. RowEffect
  <2>1. CASE j.kind = "check_in" /\ CheckInTx(j.to)
    BY <1>1, <2>1, CheckInEffect DEF BookingInv
  <2>2. CASE CheckOutTx(j.bookings, j.seen)
    BY <1>1, <2>2, CheckOutEffect DEF BookingInv, Job
  <2>3. CASE j.kind = "change_room" /\ \E b \in j.bookings : ChangeRoomTx(b, j.to, j.seen)
    BY <1>1, <2>3, ChangeRoomEffect DEF BookingInv, Job
  <2> QED BY <2>1, <2>2, <2>3 DEF Run
<1>3. job' = [job EXCEPT ![t] = j2]
  BY DEF Run, Become
<1>4. j2 \in Job
  BY <1>1, NoJobType DEF Job, Stages
<1>5. /\ j2.bookings \subseteq j.bookings
      /\ j2.stage # "looked"
      /\ j2.kind \in {"check_in", "change_room"} => j2.to \in Rooms
  BY <1>1 DEF Job, NoJob, NewJob
<1> HIDE DEF j, j2
<1>6. job' \in [Tasks -> Job]
  BY <1>3, <1>4 DEF BookingInv, JobsOK
<1>7. \A u \in Tasks : job'[u] = IF u = t THEN j2 ELSE job[u]
  BY <1>3 DEF BookingInv, JobsOK
<1>8. \A u \in Tasks : job[u].bookings \subseteq Bookings
  BY DEF BookingInv, JobsOK, Job
<1>9. \A u \in Tasks : \A b \in job'[u].bookings : b \in job[u].bookings
  BY <1>5, <1>7 DEF j
<1>10. JobsOK'
  BY <1>2, <1>5, <1>6, <1>7, <1>8, <1>9 DEF BookingInv, JobsOK, RowEffect
<1> QED BY <1>2, <1>10 DEF BookingInv, RowEffect

-----------------------------------------------------------------------------
(* The plans use the locks as AggregateLocks allows.                        *)

\* The keys of bookings, folios, rooms and groups are keys.
LEMMA PlanKeys ==
  /\ \A B \in SUBSET Bookings : BookingKeys(B) \in SUBSET Keys
  /\ \A R \in SUBSET Rooms : RoomKeys(R) \in SUBSET Keys
  /\ \A g \in Groups : {group_key(g)} \in SUBSET Keys
  /\ \A r \in Rooms : {room_key(r)} \in SUBSET Keys
BY BookingLocksAssumption DEF BookingKeys, RoomKeys

\* Every step of a command is a step of the lock manager or leaves it alone.
LEMMA StepsUseLocks ==
  ASSUME BookingInv, NEW t \in Tasks, Start(t) \/ Progress(t) \/ GiveUp(t)
  PROVE  LockStep(t) \/ UNCHANGED lockVars
<1>1. job[t] \in Job /\ (\A b \in job[t].bookings : status[b] # "new")
  BY DEF BookingInv, JobsOK
<1>2. CASE Start(t)
  BY <1>2, PlanKeys DEF Start, CheckIn, CheckOut, GroupCheckout, ChangeRoom, LockStep
<1>3. CASE LockGroupBookings(t)
  <2>1. BookingKeys(job[t].bookings) \in SUBSET Keys
    BY <1>1, PlanKeys DEF Job
  <2> QED BY <1>3, <2>1 DEF LockGroupBookings, LockStep
<1>4. CASE LockRoomsRead(t)
  <2> DEFINE B == job[t].bookings
             R == {Lookup(B)[b] : b \in B}
  <2>1. R \in SUBSET Rooms
    BY <1>1, LookupType DEF BookingInv, Job
  <2>2. RoomKeys(R) \in SUBSET Keys
    BY <2>1, PlanKeys
  <2>3. AcquireNext(t, RoomKeys(R))
    BY <1>4 DEF LockRoomsRead
  <2> HIDE DEF R
  <2> QED BY <2>2, <2>3 DEF LockStep
<1>5. CASE LockMove(t)
  <2> DEFINE R == SeenRooms(t) \cup {job[t].to}
             K == BookingKeys(job[t].bookings) \cup RoomKeys(R)
  <2>1. K \in SUBSET Keys
    <3>1. SeenRooms(t) \subseteq Rooms
      BY <1>5 DEF LockMove, At, BookingInv, JobsOK, SeenRooms
    <3>2. BookingKeys(job[t].bookings) \in SUBSET Keys
      BY <1>1, PlanKeys DEF Job
    <3>3. CASE job[t].to \in Rooms
      BY <3>1, <3>2, <3>3, PlanKeys
    <3>4. CASE job[t].to \notin Rooms
      BY <1>5, <3>4 DEF LockMove, At, BookingInv, JobsOK
    <3> QED BY <3>3, <3>4
  <2>2. Acquire(t, K)
    BY <1>5 DEF LockMove
  <2> HIDE DEF K
  <2> QED BY <2>1, <2>2 DEF LockStep
<1>6. CASE LockProgress(t) \/ DropGuard(t) \/ Finish(t) \/ GiveUp(t)
  BY <1>6 DEF LockProgress, DropGuard, Finish, GiveUp, LockStep
<1>7. CASE Resolved(t) \/ Begin(t) \/ Run(t)
  BY <1>7 DEF Resolved, Begin, Run
<1> QED BY <1>2, <1>3, <1>4, <1>5, <1>6, <1>7 DEF Progress

-----------------------------------------------------------------------------
(* The theorems.                                                            *)

\* The locks' invariant and the rows', together.
CommandInv == LockInv /\ BookingInv

LEMMA InitEstablishesCommandInv == Init => CommandInv
<1> SUFFICES ASSUME Init
             PROVE  CommandInv
  OBVIOUS
<1>1. LockInv
  BY DEF Init, LockInit, LockInv, LockTypeOK, GuardsAreExclusive, LocksAreOrdered, Held
<1>2. RowsOK
  BY BookingLocksAssumption DEF Init, RowsOK
<1>3. JobsOK
  <2>1. NoJob.bookings = {} /\ NoJob.kind = "none" /\ NoJob.stage = "free"
    BY DEF NoJob, NewJob
  <2> QED BY <2>1, NoJobType DEF Init, JobsOK
<1>4. RoomsMatchStays
  BY BookingLocksAssumption DEF Init, RoomsMatchStays, InHouse
<1> QED BY <1>1, <1>2, <1>3, <1>4 DEF CommandInv, BookingInv

LEMMA NextKeepsCommandInv ==
  ASSUME CommandInv, [Next]_vars
  PROVE  CommandInv' /\ [LockNext]_lockVars
<1>1. CASE UNCHANGED vars
  BY <1>1 DEF vars, lockVars, rowVars, CommandInv, LockInv, LockTypeOK,
              GuardsAreExclusive, LocksAreOrdered, Held, BookingInv, RowsOK,
              JobsOK, RoomsMatchStays, InHouse
<1>2. CASE Next
  <2>1. PICK t \in Tasks : Start(t) \/ Progress(t) \/ GiveUp(t)
    BY <1>2 DEF Next
  <2>2. [LockNext]_lockVars
    BY <2>1, StepsUseLocks DEF CommandInv, LockNext
  <2>3. LockInv'
    BY <2>2, LockStepKeepsLockInv DEF CommandInv
  <2>4. CASE Start(t) \/ Between(t)
    <3>1. JobsOK' /\ UNCHANGED rowVars
      BY <2>4, StartKeepsJobs, BetweenKeepsJobs DEF CommandInv, BookingInv
    <3>2. RowsOK' /\ RoomsMatchStays'
      BY <3>1 DEF CommandInv, BookingInv, rowVars, RowsOK, RoomsMatchStays, InHouse
    <3> QED BY <2>2, <2>3, <3>1, <3>2 DEF CommandInv, BookingInv
  <2>5. CASE Run(t)
    BY <2>2, <2>3, <2>5, RunKeepsBookingInv DEF CommandInv
  <2> QED BY <2>1, <2>4, <2>5 DEF Progress, Between
<1> QED BY <1>1, <1>2

\* A room is occupied exactly when one guest is in it, in every reachable state.
THEOREM RoomGridIsTrue == Spec => []RoomsMatchStays
<1>1. CommandInv => RoomsMatchStays
  BY DEF CommandInv, BookingInv
<1> QED BY <1>1, InitEstablishesCommandInv, NextKeepsCommandInv, PTL DEF Spec

\* The commands' plans are behaviours of the lock manager.
THEOREM PlansRefineLocks == Spec => LockSpec
<1>1. Init => LockInit
  BY DEF Init
<1> QED BY <1>1, InitEstablishesCommandInv, NextKeepsCommandInv, PTL DEF Spec, LockSpec

\* Only a command in its transaction has the write lock, and its mutexes were
\* all taken before.
WriterHasItsLocks ==
  \A t \in Tasks :
    /\ writer = t => At(t, "writing")
    /\ At(t, "resolved") \/ At(t, "writing") => pc[t] # "locking"

\* One task's row of the lock table and its job change, by a step that leaves
\* it waiting for nothing it must not wait for.
LEMMA StepKeepsWriter ==
  ASSUME WriterHasItsLocks,
         job \in [Tasks -> Job], pc \in [Tasks -> {"idle", "locking", "guarded"}],
         NEW t \in Tasks, NEW j, job' = [job EXCEPT ![t] = j],
         \A u \in Tasks \ {t} : pc'[u] = pc[u] /\ (writer' = u => writer = u),
         writer' = t => j.stage = "writing",
         j.stage \in {"resolved", "writing"} => pc'[t] # "locking"
  PROVE  WriterHasItsLocks'
<1>1. \A u \in Tasks : job'[u] = IF u = t THEN j ELSE job[u]
  OBVIOUS
<1> QED BY <1>1 DEF WriterHasItsLocks, At

\* A lock step of t changes nobody else's place in it.
LEMMA LockStepIsOwn ==
  ASSUME pc \in [Tasks -> {"idle", "locking", "guarded"}], NEW t \in Tasks,
         LockStep(t) \/ UNCHANGED lockVars
  PROVE  \A u \in Tasks \ {t} : pc'[u] = pc[u]
BY DEF LockStep, Acquire, AcquireNext, BeginPhase, Ask, Take, MergePhase, Release,
       Cancel, DropAll, lockVars

LEMMA NextKeepsWriter ==
  ASSUME CommandInv, WriterHasItsLocks, [Next]_vars
  PROVE  WriterHasItsLocks'
<1>1. CASE UNCHANGED vars
  BY <1>1 DEF vars, lockVars, WriterHasItsLocks, At
<1>2. CASE Next
  <2>1. PICK t \in Tasks : Start(t) \/ Progress(t) \/ GiveUp(t)
    BY <1>2 DEF Next
  <2>2. job \in [Tasks -> Job] /\ pc \in [Tasks -> {"idle", "locking", "guarded"}]
    BY DEF CommandInv, BookingInv, JobsOK, LockInv, LockTypeOK
  <2>3. \A u \in Tasks \ {t} : pc'[u] = pc[u]
    BY <2>1, <2>2, StepsUseLocks, LockStepIsOwn DEF CommandInv
  <2>4. job[t] \in Job /\ NoTask \notin Tasks
    BY <2>2, KeysAssumption
  <2>5. CASE Start(t)
    <3>1. PICK j : /\ job' = [job EXCEPT ![t] = j] /\ writer' = writer
                   /\ j.stage \notin {"resolved", "writing"} /\ At(t, "free")
      BY <2>5 DEF Start, CheckIn, CheckOut, GroupCheckout, ChangeRoom, Become, NewJob
    <3>2. writer' # t
      BY <3>1 DEF WriterHasItsLocks, At
    <3> QED BY <2>2, <2>3, <3>1, <3>2, StepKeepsWriter
  <2>6. CASE LockGroupBookings(t) \/ LockRoomsRead(t) \/ LockMove(t)
    <3>1. PICK j : /\ job' = [job EXCEPT ![t] = j] /\ writer' = writer
                   /\ j.stage \in {"booking", "room"} /\ ~At(t, "writing")
      BY <2>4, <2>6 DEF LockGroupBookings, LockRoomsRead, LockMove, Become, At, Job
    <3>2. writer' # t
      BY <3>1 DEF WriterHasItsLocks, At
    <3> QED BY <2>2, <2>3, <3>1, <3>2, StepKeepsWriter
  <2>7. CASE LockProgress(t) \/ DropGuard(t)
    <3>1. job' = job /\ writer' = writer
      BY <2>7 DEF LockProgress, DropGuard
    <3>2. At(t, "resolved") \/ At(t, "writing") => pc'[t] # "locking"
      <4>1. CASE LockProgress(t)
        BY <4>1 DEF LockProgress, Ask, Take, MergePhase, WriterHasItsLocks
      <4>2. CASE DropGuard(t)
        BY <2>2, <4>2 DEF DropGuard, Release, DropAll
      <4> QED BY <2>7, <4>1, <4>2
    <3> QED BY <2>3, <3>1, <3>2 DEF WriterHasItsLocks, At
  <2>8. CASE Resolved(t)
    <3>1. PICK j : /\ job' = [job EXCEPT ![t] = j] /\ writer' = writer
                   /\ j.stage = "resolved" /\ At(t, "room") /\ pc'[t] # "locking"
      BY <2>4, <2>8 DEF Resolved, Become, At, Job, lockVars
    <3>2. writer' # t
      BY <3>1 DEF WriterHasItsLocks, At
    <3> QED BY <2>2, <2>3, <3>1, <3>2, StepKeepsWriter
  <2>9. CASE Begin(t)
    <3>1. PICK j : /\ job' = [job EXCEPT ![t] = j] /\ writer' = t
                   /\ j.stage = "writing" /\ pc'[t] # "locking"
      BY <2>4, <2>9 DEF Begin, Become, At, Job, lockVars, WriterHasItsLocks
    <3> QED BY <2>2, <2>3, <3>1, StepKeepsWriter
  <2>10. CASE Run(t)
    <3> DEFINE j == IF job[t].kind = "check_in"
                    THEN [job[t] EXCEPT !.stage = "answered"] ELSE NoJob
    <3>1. job' = [job EXCEPT ![t] = j] /\ writer' = NoTask
      BY <2>10 DEF Run, Become
    <3>2. j.stage \in {"answered", "free"}
      BY <2>4 DEF Job, NoJob, NewJob
    <3> HIDE DEF j
    <3> QED BY <2>2, <2>3, <2>4, <3>1, <3>2, StepKeepsWriter
  <2>11. CASE Finish(t) \/ GiveUp(t)
    <3>1. /\ job' = [job EXCEPT ![t] = NoJob] /\ writer' = writer
          /\ NoJob.stage = "free" /\ ~At(t, "writing")
      BY <2>11 DEF Finish, GiveUp, Become, NoJob, NewJob, At, Cancel, WriterHasItsLocks
    <3>2. writer' # t
      BY <3>1 DEF WriterHasItsLocks
    <3> QED BY <2>2, <2>3, <3>1, <3>2, StepKeepsWriter
  <2> QED BY <2>1, <2>5, <2>6, <2>7, <2>8, <2>9, <2>10, <2>11 DEF Progress
<1> QED BY <1>1, <1>2

\* The writer itself is stuck behind nobody, so a ring would be one of mutexes.
LEMMA WriterBreaksRings ==
  ASSUME LockInv, WriterHasItsLocks
  PROVE  NoCommandCycle
<1> SUFFICES ASSUME NEW S \in SUBSET Tasks, S # {},
                    \A t \in S : \E u \in S : StuckBehind(t, u)
             PROVE  FALSE
  BY DEF NoCommandCycle
<1>1. \A t, u \in S : StuckBehind(t, u) => writer # t
  BY DEF StuckBehind, WaitsFor, NeedsWriter, WriterHasItsLocks, At, LockInv, LockTypeOK
<1>2. \A t \in S : writer # t
  BY <1>1
<1>3. \A t \in S : \E u \in S : WaitsFor(t, u)
  BY <1>2 DEF StuckBehind
<1> QED BY <1>3, AscendingHasNoCycle DEF NoWaitCycle

\* No set of room commands waits in a ring, neither for each other's mutexes
\* nor for the write lock.
THEOREM CommandsNeverDeadlock == Spec => []NoCommandCycle
<1>1. Init => WriterHasItsLocks
  BY KeysAssumption DEF Init, LockInit, WriterHasItsLocks, At, NoJob, NewJob
<1>2. CommandInv /\ WriterHasItsLocks => NoCommandCycle
  BY WriterBreaksRings DEF CommandInv
<1> QED BY <1>1, <1>2, InitEstablishesCommandInv, NextKeepsCommandInv,
           NextKeepsWriter, PTL DEF Spec

-----------------------------------------------------------------------------
(* What a phased command writes it has locked.                              *)

\* The room keys t's plan is after: the room of the request, or the rooms the
\* command read for its bookings.
RoomsWanted(t) ==
  IF job[t].kind = "check_in" THEN {room_key(job[t].to)} ELSE RoomKeys(SeenRooms(t))

\* Their way through the phases: asked for, locked, merged, then recorded.
KeysKept(t) ==
  job[t].kind # "change_room" =>
    /\ At(t, "group") \/ At(t, "booking") => job[t].kind # "check_in"
    /\ At(t, "room") => RoomsWanted(t) \subseteq Held(t) \cup todo[t]
    /\ At(t, "resolved") \/ At(t, "writing") => RoomsWanted(t) \subseteq job[t].keys

KeysInv == CommandInv /\ WriterHasItsLocks /\ \A t \in Tasks : KeysKept(t)

\* A lock step of t changes nobody else's keys.
LEMMA LockStepKeepsOthersKeys ==
  ASSUME LockTypeOK, NEW t \in Tasks, LockStep(t) \/ UNCHANGED lockVars
  PROVE  \A u \in Tasks \ {t} :
           guard'[u] = guard[u] /\ got'[u] = got[u] /\ todo'[u] = todo[u]
BY DEF LockTypeOK, LockStep, Acquire, AcquireNext, BeginPhase, Ask, Take, MergePhase,
       Release, Cancel, DropAll, lockVars

\* Only t's own job changes by t's step.
LEMMA StepIsOwnJob ==
  ASSUME NEW t \in Tasks, Start(t) \/ Progress(t) \/ GiveUp(t)
  PROVE  \E j : job' = job \/ job' = [job EXCEPT ![t] = j]
BY DEF Start, CheckIn, ChangeRoom, CheckOut, GroupCheckout, Progress, GiveUp,
       LockGroupBookings, LockRoomsRead, LockMove, LockProgress, Resolved, Begin,
       DropGuard, Run, Finish, Become

\* A mutex moves keys of the phase from "to lock" to "locked", none out of it.
LEMMA ProgressKeepsKeys ==
  ASSUME LockTypeOK, NEW t \in Tasks, Ask(t) \/ Take(t) \/ MergePhase(t)
  PROVE  Held(t)' \cup todo'[t] = Held(t) \cup todo[t]
<1>1. CASE Ask(t)
  BY <1>1 DEF Ask, Held
<1>2. CASE Take(t)
  <2>1. PICK k \in todo[t] : /\ got'  = [got EXCEPT ![t] = @ \cup {k}]
                             /\ todo' = [todo EXCEPT ![t] = @ \ {k}]
                             /\ UNCHANGED guard
    BY <1>2 DEF Take
  <2>2. got'[t] = got[t] \cup {k} /\ todo'[t] = todo[t] \ {k} /\ guard'[t] = guard[t]
    BY <2>1 DEF LockTypeOK
  <2> QED BY <2>2 DEF Held
<1>3. CASE MergePhase(t)
  <2>1. /\ guard'[t] = guard[t] \cup got[t] /\ got'[t] = {}
        /\ todo'[t] = todo[t]
    BY <1>3 DEF MergePhase, LockTypeOK
  <2> QED BY <2>1 DEF Held
<1> QED BY <1>1, <1>2, <1>3

\* t's own keys, by any step of t.
LEMMA StepKeepsOwnKeys ==
  ASSUME KeysInv, NEW t \in Tasks, Start(t) \/ Progress(t) \/ GiveUp(t)
  PROVE  KeysKept(t)'
<1>1. /\ job[t] \in Job /\ job \in [Tasks -> Job] /\ LockTypeOK
      /\ KeysKept(t)
  BY DEF KeysInv, CommandInv, BookingInv, JobsOK, LockInv
<1>2. CASE \E r \in Rooms : CheckIn(t, r)
  <2>1. PICK r \in Rooms : CheckIn(t, r)
    BY <1>2
  <2>2. job'[t].stage = "room" /\ job'[t].kind = "check_in" /\ job'[t].to = r
    BY <1>1, <2>1 DEF CheckIn, Become, NewJob
  <2>3. todo'[t] = {room_key(r)}
    BY <1>1, <2>1 DEF CheckIn, Acquire, BeginPhase, LockTypeOK
  <2> QED BY <2>2, <2>3 DEF KeysKept, RoomsWanted, At
<1>3. CASE (\E b \in Bookings, r \in Rooms : ChangeRoom(t, b, r))
           \/ (\E b \in Bookings : CheckOut(t, b))
           \/ (\E g \in Groups, B \in SUBSET Bookings : GroupCheckout(t, g, B))
  <2>1. \A B, b, r :
          LET looked == [NewJob("change_room", "looked", B, r) EXCEPT !.seen = Lookup(b)]
          IN  looked.stage = "looked" /\ looked.kind = "change_room"
    BY DEF NewJob
  <2>2. \A B, r : /\ NewJob("check_out", "booking", B, r).stage = "booking"
                  /\ NewJob("check_out", "booking", B, r).kind = "check_out"
                  /\ NewJob("group_checkout", "group", B, r).stage = "group"
                  /\ NewJob("group_checkout", "group", B, r).kind = "group_checkout"
    BY DEF NewJob
  <2> DEFINE Fresh(j) == /\ job' = [job EXCEPT ![t] = j]
                         /\ j.stage \in {"looked", "booking", "group"}
                         /\ j.kind # "check_in"
  <2>3. \E j : Fresh(j)
    <3>1. CASE \E b \in Bookings, r \in Rooms : ChangeRoom(t, b, r)
      <4>1. PICK b \in Bookings, r \in Rooms : ChangeRoom(t, b, r)
        BY <3>1
      <4>2. Fresh([NewJob("change_room", "looked", {b}, r) EXCEPT !.seen = Lookup({b})])
        BY <2>1, <4>1 DEF ChangeRoom, Become
      <4> HIDE DEF Fresh
      <4> QED BY <4>2
    <3>2. CASE \E b \in Bookings : CheckOut(t, b)
      <4>1. PICK b \in Bookings : CheckOut(t, b)
        BY <3>2
      <4>2. Fresh(NewJob("check_out", "booking", {b}, NoRoom))
        BY <2>2, <4>1 DEF CheckOut, Become
      <4> HIDE DEF Fresh
      <4> QED BY <4>2
    <3>3. CASE \E g \in Groups, B \in SUBSET Bookings : GroupCheckout(t, g, B)
      <4>1. PICK g \in Groups, B \in SUBSET Bookings : GroupCheckout(t, g, B)
        BY <3>3
      <4>2. Fresh(NewJob("group_checkout", "group", B, NoRoom))
        BY <2>2, <4>1 DEF GroupCheckout, Become
      <4> HIDE DEF Fresh
      <4> QED BY <4>2
    <3> HIDE DEF Fresh
    <3> QED BY <1>3, <3>1, <3>2, <3>3
  <2>4. job'[t].stage \in {"looked", "booking", "group"} /\ job'[t].kind # "check_in"
    BY <1>1, <2>3
  <2> QED BY <2>4 DEF KeysKept, At
<1>4. CASE LockGroupBookings(t)
  <2>1. job'[t].stage = "booking" /\ job'[t].kind = job[t].kind /\ At(t, "group")
    BY <1>1, <1>4 DEF LockGroupBookings, Become, Job
  <2> QED BY <1>1, <2>1 DEF KeysKept, At
<1>5. CASE LockRoomsRead(t)
  <2> DEFINE B == job[t].bookings
             seen == Lookup(B)
             R == {seen[b] : b \in B}
             j == [job[t] EXCEPT !.stage = "room", !.seen = seen]
  <2>1. todo' = [todo EXCEPT ![t] = RoomKeys(R)] /\ job' = [job EXCEPT ![t] = j]
    BY <1>5 DEF LockRoomsRead, AcquireNext, BeginPhase, Become
  <2>2. todo'[t] = RoomKeys(R) /\ job'[t] = j
    BY <1>1, <2>1 DEF LockTypeOK
  <2>3. /\ j.stage = "room" /\ j.bookings = B /\ j.seen = seen
        /\ j.kind = job[t].kind
    BY <1>1 DEF Job
  <2>4. j.kind # "change_room" => j.kind # "check_in"
    BY <1>1, <1>5, <2>3 DEF LockRoomsRead, KeysKept
  <2>5. SeenRooms(t)' = R
    BY <2>2, <2>3 DEF SeenRooms
  <2> HIDE DEF j, R
  <2>6. j.kind # "change_room" => RoomsWanted(t)' = RoomKeys(R)
    BY <2>2, <2>4, <2>5 DEF RoomsWanted, RoomKeys
  <2> QED BY <2>2, <2>3, <2>6 DEF KeysKept, At
<1>6. CASE LockMove(t)
  <2>1. job'[t].kind = "change_room"
    BY <1>1, <1>6 DEF LockMove, Become, Job, At, KeysInv, CommandInv, BookingInv, JobsOK
  <2> QED BY <2>1 DEF KeysKept
<1>7. CASE LockProgress(t)
  <2>1. job' = job /\ Held(t)' \cup todo'[t] = Held(t) \cup todo[t]
    BY <1>1, <1>7, ProgressKeepsKeys DEF LockProgress
  <2> QED BY <1>1, <2>1 DEF KeysKept, At, RoomsWanted, SeenRooms
<1>8. CASE Resolved(t)
  <2> DEFINE j == [job[t] EXCEPT !.stage = "resolved", !.keys = guard[t]]
  <2>1. job'[t] = j
    BY <1>1, <1>8 DEF Resolved, Become
  <2>2. /\ j.stage = "resolved" /\ j.keys = guard[t] /\ j.kind = job[t].kind
        /\ j.bookings = job[t].bookings /\ j.to = job[t].to /\ j.seen = job[t].seen
    BY <1>1 DEF Job
  <2> HIDE DEF j
  <2>3. RoomsWanted(t)' = RoomsWanted(t)
    BY <2>1, <2>2 DEF RoomsWanted, SeenRooms
  <2>4. At(t, "room") /\ Held(t) \cup todo[t] = guard[t]
    BY <1>1, <1>8 DEF Resolved, LockTypeOK, Held
  <2> QED BY <1>1, <2>1, <2>2, <2>3, <2>4 DEF KeysKept, At
<1>9. CASE Begin(t)
  <2> DEFINE j == [job[t] EXCEPT !.stage = "writing"]
  <2>1. job'[t] = j
    BY <1>1, <1>9 DEF Begin, Become
  <2>2. /\ j.stage = "writing" /\ j.keys = job[t].keys /\ j.kind = job[t].kind
        /\ j.bookings = job[t].bookings /\ j.to = job[t].to /\ j.seen = job[t].seen
    BY <1>1 DEF Job
  <2> HIDE DEF j
  <2>3. RoomsWanted(t)' = RoomsWanted(t)
    BY <2>1, <2>2 DEF RoomsWanted, SeenRooms
  <2>4. At(t, "resolved")
    BY <1>9 DEF Begin
  <2> QED BY <1>1, <2>1, <2>2, <2>3, <2>4 DEF KeysKept, At
<1>10. CASE DropGuard(t)
  <2>1. job' = job /\ At(t, "writing")
    BY <1>10 DEF DropGuard
  <2> QED BY <1>1, <2>1 DEF KeysKept, At, RoomsWanted, SeenRooms
<1>11. CASE Run(t) \/ Finish(t) \/ GiveUp(t)
  <2>1. NoJob.stage = "free" /\ [job[t] EXCEPT !.stage = "answered"].stage = "answered"
    BY <1>1 DEF NoJob, NewJob, Job
  <2>2. job'[t].stage \in {"free", "answered"}
    BY <1>1, <1>11, <2>1 DEF Run, Finish, GiveUp, Become
  <2> QED BY <2>2 DEF KeysKept, At
<1> QED BY <1>2, <1>3, <1>4, <1>5, <1>6, <1>7, <1>8, <1>9, <1>10, <1>11
        DEF Start, Progress

LEMMA NextKeepsKeys ==
  ASSUME KeysInv, [Next]_vars
  PROVE  KeysInv'
<1>1. CommandInv' /\ WriterHasItsLocks'
  BY NextKeepsCommandInv, NextKeepsWriter DEF KeysInv
<1>2. CASE UNCHANGED vars
  <2>1. \A u \in Tasks : KeysKept(u)'
    BY <1>2 DEF KeysInv, KeysKept, At, RoomsWanted, SeenRooms, Held, vars, lockVars
  <2> QED BY <1>1, <2>1 DEF KeysInv
<1>3. CASE Next
  <2>1. PICK t \in Tasks : Start(t) \/ Progress(t) \/ GiveUp(t)
    BY <1>3 DEF Next
  <2>2. KeysKept(t)'
    BY <2>1, StepKeepsOwnKeys
  <2>3. LockTypeOK /\ job \in [Tasks -> Job] /\ BookingInv
    BY DEF KeysInv, CommandInv, BookingInv, JobsOK, LockInv
  <2>4. LockStep(t) \/ UNCHANGED lockVars
    BY <2>1, <2>3, StepsUseLocks
  <2>5. ASSUME NEW u \in Tasks \ {t}
        PROVE  KeysKept(u)'
    <3>1. guard'[u] = guard[u] /\ got'[u] = got[u] /\ todo'[u] = todo[u]
      BY <2>3, <2>4, LockStepKeepsOthersKeys
    <3>2. job'[u] = job[u]
      BY <2>1, <2>3, StepIsOwnJob
    <3>3. KeysKept(u)
      BY DEF KeysInv
    <3> QED BY <3>1, <3>2, <3>3 DEF KeysKept, At, RoomsWanted, SeenRooms, Held
  <2> QED BY <1>1, <2>2, <2>5 DEF KeysInv
<1> QED BY <1>2, <1>3

\* A check-in writes its room's row alone.
LEMMA CheckInWrites ==
  ASSUME RowsOK, NEW r \in Rooms, CheckInTx(r)
  PROVE  Rewritten \subseteq {r}
BY DEF CheckInTx, MoveIn, Rollback, rowVars, RowsOK, Rewritten

\* A check-out writes the rooms that it found its bookings still to be in.
LEMMA CheckOutWrites ==
  ASSUME RowsOK, NEW B \in SUBSET Bookings, NEW seen, CheckOutTx(B, seen)
  PROVE  Rewritten \subseteq {seen[b] : b \in B}
BY DEF CheckOutTx, Rollback, rowVars, RowsOK, Rewritten

\* A command that commits is the one whose step it was, in its transaction.
LEMMA CommitIsRun ==
  ASSUME KeysInv, NEW t \in Tasks, Next, Commits(t)
  PROVE  Run(t)
<1>1. PICK u \in Tasks : Start(u) \/ Progress(u) \/ GiveUp(u)
  BY DEF Next
<1>2. job \in [Tasks -> Job] /\ At(t, "writing") /\ job'[t] # job[t]
  BY DEF KeysInv, CommandInv, BookingInv, JobsOK, Commits, At
<1>3. u = t
  BY <1>1, <1>2, StepIsOwnJob
<1>4. ~Start(t) /\ ~LockGroupBookings(t) /\ ~LockRoomsRead(t) /\ ~LockMove(t)
      /\ ~Resolved(t) /\ ~Begin(t) /\ ~Finish(t)
  BY <1>2 DEF Start, CheckIn, ChangeRoom, CheckOut, GroupCheckout, LockGroupBookings,
              LockRoomsRead, LockMove, Resolved, Begin, Finish, At
<1>5. ~LockProgress(t) /\ ~DropGuard(t)
  BY <1>2 DEF LockProgress, DropGuard
<1>6. ~GiveUp(t)
  BY <1>2 DEF GiveUp, Cancel, KeysInv, WriterHasItsLocks
<1> QED BY <1>1, <1>3, <1>4, <1>5, <1>6 DEF Progress

\* Whatever else moves while it resolves its locks, a check-in, check-out or
\* group check-out writes only rooms whose keys its ledger row records.
THEOREM RecordedKeysCoverWrites == Spec => PhasedKeysCoverWrites
<1>1. Init => KeysInv
  <2>1. NoJob.stage = "free"
    BY DEF NoJob, NewJob
  <2>2. Init => \A t \in Tasks : WriterHasItsLocks /\ KeysKept(t)
    BY <2>1, KeysAssumption DEF Init, LockInit, WriterHasItsLocks, At, KeysKept
  <2>3. Init => WriterHasItsLocks
    BY <2>1, KeysAssumption DEF Init, LockInit, WriterHasItsLocks, At
  <2> QED BY <2>2, <2>3, InitEstablishesCommandInv DEF KeysInv
<1>2. KeysInv /\ [Next]_vars
        => [\A t \in Tasks :
              Commits(t) /\ job[t].kind # "change_room"
                => RoomKeys(Rewritten) \subseteq job[t].keys]_vars
  <2> SUFFICES ASSUME KeysInv, Next, NEW t \in Tasks, Commits(t),
                      job[t].kind # "change_room"
               PROVE  RoomKeys(Rewritten) \subseteq job[t].keys
    OBVIOUS
  <2>1. Run(t)
    BY CommitIsRun
  <2>2. RowsOK /\ job[t] \in Job /\ (job[t].kind = "check_in" => job[t].to \in Rooms)
    BY DEF KeysInv, CommandInv, BookingInv, JobsOK
  <2>3. RoomsWanted(t) \subseteq job[t].keys
    BY DEF KeysInv, KeysKept, Commits
  <2>4. CASE job[t].kind = "check_in"
    <3>1. Rewritten \subseteq {job[t].to}
      BY <2>1, <2>2, <2>4, CheckInWrites DEF Run
    <3> QED BY <2>3, <2>4, <3>1 DEF RoomsWanted, RoomKeys
  <2>5. CASE job[t].kind # "check_in"
    <3>1. CheckOutTx(job[t].bookings, job[t].seen)
      BY <2>1, <2>5 DEF Run
    <3>2. Rewritten \subseteq SeenRooms(t)
      BY <2>2, <3>1, CheckOutWrites DEF SeenRooms, Job
    <3> QED BY <2>3, <2>5, <3>2 DEF RoomsWanted, RoomKeys
  <2> QED BY <2>4, <2>5
<1> QED BY <1>1, <1>2, NextKeepsKeys, PTL DEF Spec, PhasedKeysCoverWrites

=============================================================================
