---------------------------- MODULE DeliveryProofs ----------------------------
(***************************************************************************)
(* Proofs about what the house hands to others.                            *)
(*                                                                         *)
(* The outbox, for any number of workers, events, aggregates, subscribers  *)
(* and attempts, and any lease longer than a wait for the write lock:      *)
(* order per aggregate, full acceptance behind "dispatched", one hand-over *)
(* per subscriber and attempt, and the fence of the lease.                 *)
(*                                                                         *)
(* The declaration of guests, for any commands, documents, stays and       *)
(* batches: its foreign keys, and that a verified batch declares what the  *)
(* portal took.                                                            *)
(***************************************************************************)
EXTENDS Outbox, Declaration, FiniteSetTheorems, WellFoundedInduction, TLAPS

-----------------------------------------------------------------------------
(* Types.                                                                   *)

LEMMA ConstantTypes ==
  /\ Events \subseteq Nat /\ LongAgo \in Int /\ LongAgo < 0
  /\ Subscribers \in Nat /\ Subscribers >= 1
  /\ MaxAttempts \in Nat /\ MaxAttempts >= 1
BY OutboxAssumption DEF Events, LongAgo

\* What a row keeps when its claim is over.
LEMMA ReleaseFacts ==
  ASSUME NEW r \in Row, NEW status \in Statuses, NEW due \in Int
  PROVE  /\ Release(r, status, due) \in Row
         /\ Release(r, status, due).status = status
         /\ Release(r, status, due).token = Nil
         /\ Release(r, status, due).key = r.key
         /\ Release(r, status, due).attempts = r.attempts
BY DEF Release, Row

LEMMA ClaimedFacts ==
  ASSUME TypeOK, NEW w \in Workers, NEW e \in Events
  PROVE  /\ Claimed(w, e) \in Row
         /\ Claimed(w, e).status = "processing"
         /\ Claimed(w, e).token = w
         /\ Claimed(w, e).key = row[e].key
         /\ Claimed(w, e).attempts = row[e].attempts + 1
<1>1. row[e] \in Row /\ worker[w].age \in Int
  BY OutboxAssumption DEF TypeOK, Worker
<1>2. Lease - worker[w].age \in Int
  BY <1>1, OutboxAssumption
<1> DEFINE until == Lease - worker[w].age
<1>3. Claimed(w, e) = [row[e] EXCEPT !.status = "processing", !.token = w,
                                     !.attempts = @ + 1, !.until = until]
  BY DEF Claimed
<1>4. until \in Int
  BY <1>2
<1> HIDE DEF until
<1>5. row[e].attempts + 1 \in Nat
  BY <1>1 DEF Row
<1> QED BY <1>1, <1>3, <1>4, <1>5 DEF Row, Statuses

LEMMA AsleepType == Asleep \in Worker /\ Asleep.pc = "asleep"
BY OutboxAssumption DEF Asleep, Worker, PCs

LEMMA NextClaimFacts ==
  ASSUME TypeOK, NEW w \in Workers
  PROVE  /\ NextClaim(w) \in Worker
         /\ NextClaim(w).pc \in {"asleep", "claiming"}
         /\ NextClaim(w).pc = "claiming" => NextClaim(w).claims < BatchSize
<1>1. worker[w].claims \in 0 .. BatchSize
  BY DEF TypeOK, Worker
<1> DEFINE again == [Asleep EXCEPT !.pc = "claiming", !.claims = worker[w].claims]
<1>2. /\ again \in Worker /\ again.pc = "claiming"
      /\ again.claims = worker[w].claims
  BY <1>1, AsleepType DEF Worker, PCs
<1>3. \/ NextClaim(w) = again /\ worker[w].claims < BatchSize
      \/ NextClaim(w) = Asleep
  BY DEF NextClaim
<1> HIDE DEF again
<1> QED BY <1>2, <1>3, AsleepType

LEMMA AfterHandOverFacts ==
  ASSUME TypeOK, NEW w \in Workers, NEW ok \in BOOLEAN, worker[w].pc = "handing"
  PROVE  LET a == AfterHandOver(w, ok)
         IN  /\ a \in Worker
             /\ a.event = worker[w].event
             /\ a.attempt = worker[w].attempt
             /\ \/ ~ok /\ a.pc = "failing" /\ a.next = worker[w].next
                \/ /\ ok /\ worker[w].next < Subscribers
                   /\ a.pc = "handing" /\ a.next = worker[w].next + 1
                \/ /\ ok /\ ~(worker[w].next < Subscribers)
                   /\ a.pc = "marking" /\ a.next = worker[w].next
<1>1. worker[w] \in Worker
  BY DEF TypeOK
<1>2. CASE ~ok
  BY <1>1, <1>2 DEF AfterHandOver, Worker, PCs
<1>3. CASE ok /\ worker[w].next < Subscribers
  BY <1>1, <1>3 DEF AfterHandOver, Worker, PCs
<1>4. CASE ok /\ ~(worker[w].next < Subscribers)
  BY <1>1, <1>4 DEF AfterHandOver, Worker, PCs
<1> QED BY <1>2, <1>3, <1>4

\* The registers of a worker that has an event in hand.
LEMMA BusyFacts ==
  ASSUME OutboxInv, NEW w \in Workers
  PROVE  /\ worker[w] \in Worker /\ worker[w].age \in Nat
         /\ Busy(w) => /\ worker[w].event \in Events
                       /\ row[worker[w].event] \in Row
                       /\ worker[w].attempt \in 1 .. MaxAttempts
                       /\ worker[w].attempt <= row[worker[w].event].attempts
                       /\ worker[w].next \in 1 .. Subscribers
<1>1. worker[w] \in Worker /\ worker[w].age \in Nat
  BY OutboxAssumption DEF OutboxInv, TypeOK, Worker
<1>2. ASSUME Busy(w)
      PROVE  /\ worker[w].event \in Events
             /\ worker[w].attempt \in 1 .. row[worker[w].event].attempts
             /\ worker[w].next \in 1 .. Subscribers
  BY <1>2 DEF OutboxInv, AttemptsHaveWorkers
<1>3. ASSUME Busy(w)
      PROVE  /\ row[worker[w].event] \in Row
             /\ row[worker[w].event].attempts \in Nat
             /\ row[worker[w].event].attempts <= MaxAttempts
  BY <1>2, <1>3 DEF OutboxInv, TypeOK, AttemptsAreCounted, Row
<1>4. ASSUME Busy(w)
      PROVE  /\ worker[w].attempt \in 1 .. MaxAttempts
             /\ worker[w].attempt <= row[worker[w].event].attempts
  BY <1>2, <1>3, <1>4, OutboxAssumption
<1> QED BY <1>1, <1>2, <1>3, <1>4

-----------------------------------------------------------------------------
(* What each step does to rows and workers.                                 *)

\* Rows keep all but the instant they wait for.
SameRows ==
  \A e \in Events :
    /\ row'[e].status = row[e].status /\ row'[e].token = row[e].token
    /\ row'[e].key = row[e].key /\ row'[e].attempts = row[e].attempts

LEMMA TickFacts ==
  ASSUME TypeOK, Tick
  PROVE  /\ row' \in [Events -> Row] /\ worker' \in [Workers -> Worker] /\ SameRows
         /\ \A w \in Workers :
              /\ worker'[w].pc = worker[w].pc
              /\ worker'[w].event = worker[w].event
              /\ worker'[w].attempt = worker[w].attempt
              /\ worker'[w].next = worker[w].next
              /\ worker'[w].claims = worker[w].claims
<1>1. \A e \in Events : row[e] \in Row
  BY DEF TypeOK
<1>2. \A left \in Int : Sooner(left) \in Int
  BY ConstantTypes DEF Sooner
<1>3. \A e \in Events :
        [row[e] EXCEPT !.until = Sooner(@)] \in Row
  BY <1>1, <1>2 DEF Row
<1>4. row' \in [Events -> Row]
  BY <1>3 DEF Tick
<1>5. SameRows
  BY <1>1 DEF Tick, Row, SameRows
<1>6. ASSUME NEW w \in Workers
      PROVE  /\ worker'[w] \in Worker
             /\ worker'[w].pc = worker[w].pc
             /\ worker'[w].event = worker[w].event
             /\ worker'[w].attempt = worker[w].attempt
             /\ worker'[w].next = worker[w].next
             /\ worker'[w].claims = worker[w].claims
  <2>1. worker[w] \in Worker
    BY DEF TypeOK
  <2>2. CASE Waiting(w)
    <3>1. worker[w].age < MaxWait /\ worker[w].age \in 0 .. MaxWait
      BY <2>1, <2>2 DEF Tick, Worker
    <3>2. worker'[w] = [worker[w] EXCEPT !.age = @ + 1]
      BY <2>2 DEF Tick
    <3>3. worker[w].age + 1 \in 0 .. MaxWait
      BY <3>1, OutboxAssumption
    <3> QED BY <2>1, <3>2, <3>3 DEF Worker
  <2>3. CASE ~Waiting(w)
    BY <2>1, <2>3 DEF Tick
  <2> QED BY <2>2, <2>3
<1>7. worker' \in [Workers -> Worker]
  BY <1>6 DEF Tick
<1> QED BY <1>4, <1>5, <1>6, <1>7

\* The sweep closes open rows and touches no others.
LEMMA SweepFacts ==
  ASSUME TypeOK, NEW w \in Workers, FailRetryLimitRows(w)
  PROVE  /\ row' \in [Events -> Row]
         /\ \A e \in Events :
              /\ row'[e].key = row[e].key /\ row'[e].attempts = row[e].attempts
              /\ \/ row'[e] = row[e]
                 \/ /\ row'[e].status = "failed" /\ row'[e].token = Nil
                    /\ Open(row[e]) /\ Passed(row[e].until, worker[w].age)
<1>1. \A e \in Events : row[e] \in Row
  BY DEF TypeOK
<1>2. "failed" \in Statuses /\ LongAgo \in Int
  BY ConstantTypes DEF Statuses
<1>3. ASSUME NEW e \in Events
      PROVE  /\ row'[e] \in Row
             /\ row'[e].key = row[e].key /\ row'[e].attempts = row[e].attempts
             /\ \/ row'[e] = row[e]
                \/ /\ row'[e].status = "failed" /\ row'[e].token = Nil
                   /\ Open(row[e]) /\ Passed(row[e].until, worker[w].age)
  <2>1. CASE AtLimit(row[e], worker[w].age)
    <3>1. row'[e] = Release(row[e], "failed", LongAgo)
      BY <2>1 DEF FailRetryLimitRows
    <3> QED BY <1>1, <1>2, <2>1, <3>1, ReleaseFacts DEF AtLimit, Ready
  <2>2. CASE ~AtLimit(row[e], worker[w].age)
    BY <1>1, <2>2 DEF FailRetryLimitRows
  <2> QED BY <2>1, <2>2
<1> QED BY <1>3 DEF FailRetryLimitRows

\* A finalization closes or reopens the row its worker holds, or nothing.
LEMMA FinalizeFacts ==
  ASSUME OutboxInv, NEW w \in Workers, MarkDispatched(w) \/ RecordFailure(w)
  PROVE  /\ row' \in [Events -> Row]
         /\ \A e \in Events :
              /\ row'[e].key = row[e].key /\ row'[e].attempts = row[e].attempts
              /\ \/ row'[e] = row[e]
                 \/ /\ Holds(w) /\ e = worker[w].event /\ row'[e].token = Nil
                    /\ row'[e].status \in {"pending", "failed", "dispatched"}
                    /\ row'[e].status = "dispatched" => worker[w].pc = "marking"
         /\ worker' = [worker EXCEPT ![w] = NextClaim(w)]
         /\ UNCHANGED <<accepted, tried, faults>>
<1>1. TypeOK /\ \A e \in Events : row[e] \in Row
  BY DEF OutboxInv, TypeOK
<1>2. PICK status \in {"pending", "failed", "dispatched"}, due \in Int :
        /\ Finalize(w, status, due)
        /\ status = "dispatched" => worker[w].pc = "marking"
  <2>1. CASE MarkDispatched(w)
    BY <2>1, ConstantTypes DEF MarkDispatched
  <2>2. CASE RecordFailure(w)
    <3>1. CASE worker[w].attempt >= MaxAttempts
      BY <2>2, <3>1, ConstantTypes DEF RecordFailure
    <3>2. CASE ~(worker[w].attempt >= MaxAttempts)
      <4>1. Finalize(w, "pending", Backoff[worker[w].attempt] - worker[w].age)
        BY <2>2, <3>2 DEF RecordFailure
      <4>2. Backoff[worker[w].attempt] - worker[w].age \in Int
        BY <2>2, BusyFacts, OutboxAssumption DEF RecordFailure, Busy
      <4> QED BY <4>1, <4>2
    <3> QED BY <3>1, <3>2
  <2> QED BY <2>1, <2>2
<1>3. status \in Statuses
  BY DEF Statuses
<1>4. CASE Holds(w)
  <2>1. worker[w].event \in Events
    BY <1>4 DEF Holds
  <2>2. row' = [row EXCEPT ![worker[w].event] = Release(@, status, due)]
    BY <1>2, <1>4 DEF Finalize
  <2>3. Release(row[worker[w].event], status, due) \in Row
    BY <1>1, <1>3, <2>1, ReleaseFacts
  <2>4. row' \in [Events -> Row]
    BY <1>1, <2>1, <2>2, <2>3 DEF TypeOK
  <2>5. ASSUME NEW e \in Events
        PROVE  /\ row'[e].key = row[e].key /\ row'[e].attempts = row[e].attempts
               /\ \/ row'[e] = row[e]
                  \/ /\ e = worker[w].event /\ row'[e].token = Nil
                     /\ row'[e].status = status
    <3>1. CASE e = worker[w].event
      <4>1. row'[e] = Release(row[e], status, due)
        BY <1>1, <2>2, <3>1 DEF TypeOK
      <4> QED BY <1>1, <1>3, <3>1, <4>1, ReleaseFacts
    <3>2. CASE e # worker[w].event
      BY <1>1, <2>2, <3>2 DEF TypeOK
    <3> QED BY <3>1, <3>2
  <2> QED BY <1>2, <1>4, <2>4, <2>5 DEF Finalize
<1>5. CASE ~Holds(w)
  <2>1. row' = row
    BY <1>2, <1>5 DEF Finalize
  <2> QED BY <1>1, <1>2, <2>1 DEF Finalize, TypeOK
<1> QED BY <1>4, <1>5

-----------------------------------------------------------------------------
(* The types are kept.                                                      *)

\* One step per action: rows, workers and histories stay what they are.
LEMMA TypesKept ==
  ASSUME OutboxInv, Next
  PROVE  TypeOK'
<1>1. /\ TypeOK
      /\ row \in [Events -> Row] /\ worker \in [Workers -> Worker]
  BY DEF OutboxInv, TypeOK
<1>2. CASE InsertEvent
  <2>1. PICK e \in Events : row' = [row EXCEPT ![e].status = "pending"]
    BY <1>2 DEF InsertEvent
  <2>2. [row[e] EXCEPT !.status = "pending"] \in Row
    BY <1>1 DEF Row, Statuses
  <2> QED BY <1>1, <1>2, <2>1, <2>2 DEF InsertEvent, TypeOK
<1>3. ASSUME NEW w \in Workers, StartBatch(w)
      PROVE  TypeOK'
  <2>1. [Asleep EXCEPT !.pc = "sweeping"] \in Worker
    BY AsleepType DEF Worker, PCs
  <2> QED BY <1>1, <1>3, <2>1 DEF StartBatch, TypeOK
<1>4. ASSUME NEW w \in Workers, FailRetryLimitRows(w)
      PROVE  TypeOK'
  <2>1. row' \in [Events -> Row]
    BY <1>1, <1>4, SweepFacts
  <2>2. /\ worker' = [worker EXCEPT ![w] = NextClaim(w)]
        /\ UNCHANGED <<accepted, tried, faults>>
    BY <1>4 DEF FailRetryLimitRows
  <2> QED BY <1>1, <2>1, <2>2, NextClaimFacts DEF TypeOK
<1>5. ASSUME NEW w \in Workers, Claim(w)
      PROVE  TypeOK'
  <2>1. PICK e \in Claimable(worker[w].age) :
          /\ row' = [row EXCEPT ![e] = Claimed(w, e)]
          /\ worker' = [worker EXCEPT ![w] =
               [pc |-> "handing", event |-> e, attempt |-> row[e].attempts + 1,
                next |-> 1, age |-> 0, claims |-> worker[w].claims + 1]]
    BY <1>5 DEF Claim
  <2>2. e \in Events /\ e \in Nat /\ row[e].attempts + 1 \in Nat
    BY <1>1, ConstantTypes DEF Claimable, Row
  <2>3. worker[w].claims + 1 \in 0 .. BatchSize
    <3>1. worker[w].claims \in 0 .. BatchSize /\ worker[w].claims < BatchSize
      BY <1>1, <1>5 DEF Claim, TypeOK, Worker
    <3> QED BY <3>1, OutboxAssumption
  <2>4. [pc |-> "handing", event |-> e, attempt |-> row[e].attempts + 1,
         next |-> 1, age |-> 0, claims |-> worker[w].claims + 1] \in Worker
    BY <2>2, <2>3, OutboxAssumption DEF Worker, PCs
  <2>5. Claimed(w, e) \in Row
    BY <1>1, <2>2, ClaimedFacts
  <2>6. /\ row' \in [Events -> Row] /\ worker' \in [Workers -> Worker]
        /\ \A v \in Workers : worker'[v].pc = "claiming" => worker[v].pc = "claiming"
                                                          /\ worker'[v] = worker[v]
    BY <1>1, <2>1, <2>2, <2>4, <2>5
  <2> QED BY <1>1, <1>5, <2>6 DEF Claim, TypeOK
<1>6. ASSUME NEW w \in Workers, NothingToClaim(w)
      PROVE  TypeOK'
  BY <1>1, <1>6, AsleepType DEF NothingToClaim, TypeOK
<1>7. ASSUME NEW w \in Workers, NEW ok \in BOOLEAN, HandOver(w, ok)
      PROVE  TypeOK'
  <2> DEFINE e == worker[w].event
             s == worker[w].next
  <2>1. e \in Events /\ s \in 1 .. Subscribers /\ worker[w].attempt \in 1 .. MaxAttempts
    BY <1>7, BusyFacts DEF HandOver, Busy
  <2>2. AfterHandOver(w, ok) \in Worker
    BY <1>1, <1>7, AfterHandOverFacts DEF HandOver
  <2>3. /\ tried' = [tried EXCEPT ![e][s] = @ \cup {worker[w].attempt}]
        /\ accepted' = IF ok THEN [accepted EXCEPT ![e] = @ \cup {s}] ELSE accepted
        /\ worker' = [worker EXCEPT ![w] = AfterHandOver(w, ok)]
        /\ row' = row /\ faults' = faults
    BY <1>7 DEF HandOver
  <2> HIDE DEF e, s
  <2>4. tried' \in [Events -> [1 .. Subscribers -> SUBSET (1 .. MaxAttempts)]]
    BY <1>1, <2>1, <2>3 DEF TypeOK
  <2>5. accepted' \in [Events -> SUBSET (1 .. Subscribers)]
    BY <1>1, <2>1, <2>3 DEF TypeOK
  <2>6. /\ worker' \in [Workers -> Worker]
        /\ \A v \in Workers : worker'[v].pc = "claiming" => worker'[v] = worker[v]
    <3>1. AfterHandOver(w, ok).pc # "claiming"
      BY <1>1, <1>7, AfterHandOverFacts DEF HandOver
    <3> QED BY <1>1, <2>2, <2>3, <3>1
  <2> QED BY <1>1, <2>3, <2>4, <2>5, <2>6 DEF TypeOK
<1>8. ASSUME NEW w \in Workers, MarkDispatched(w) \/ RecordFailure(w)
      PROVE  TypeOK'
  BY <1>1, <1>8, FinalizeFacts, NextClaimFacts DEF TypeOK
<1>9. ASSUME NEW w \in Workers, Abandon(w)
      PROVE  TypeOK'
  BY <1>1, <1>9, AsleepType, OutboxAssumption DEF Abandon, TypeOK
<1>10. CASE Tick
  BY <1>1, <1>10, TickFacts DEF Tick, TypeOK
<1> QED
  BY <1>2, <1>3, <1>4, <1>5, <1>6, <1>7, <1>8, <1>9, <1>10 DEF Next, Work

-----------------------------------------------------------------------------
(* What the parts of the invariant need of a step that claims nothing.      *)

\* No row is born, attempted or reopened.
RowsOnlyClose ==
  \A e \in Events :
    /\ row'[e].key = row[e].key /\ row'[e].attempts = row[e].attempts
    /\ row'[e].status = "absent" <=> row[e].status = "absent"
    /\ Open(row'[e]) => Open(row[e])

LEMMA ClosingKeepsOrder ==
  ASSUME OutboxInv, RowsOnlyClose
  PROVE  IdsInOrder' /\ FifoPerAggregate'
BY DEF RowsOnlyClose, OutboxInv, IdsInOrder, FifoPerAggregate, Open

\* Whoever has an event in hand after the step had it before.
WorkersOnlyLeave ==
  \A v \in Workers : worker'[v].pc \in {"handing", "marking", "failing"} =>
    /\ worker'[v].pc = worker[v].pc
    /\ worker'[v].event = worker[v].event
    /\ worker'[v].attempt = worker[v].attempt
    /\ worker'[v].next = worker[v].next

LEMMA LeavingKeepsAttempts ==
  ASSUME OutboxInv, WorkersOnlyLeave,
         \A e \in Events : row'[e].attempts = row[e].attempts,
         UNCHANGED <<accepted, tried>>
  PROVE  AttemptsAreCounted' /\ AttemptsHaveWorkers' /\ HandOversSoFar'
<1>1. AttemptsAreCounted'
  BY DEF OutboxInv, AttemptsAreCounted
<1>2. AttemptsHaveWorkers'
  <2>1. ASSUME NEW w \in Workers, Busy(w)'
        PROVE  /\ worker'[w].event \in Events
               /\ worker'[w].attempt \in 1 .. row'[worker'[w].event].attempts
               /\ worker'[w].next \in 1 .. Subscribers
    <3>1. Busy(w) /\ worker'[w].event = worker[w].event
          /\ worker'[w].attempt = worker[w].attempt /\ worker'[w].next = worker[w].next
      BY <2>1 DEF WorkersOnlyLeave, Busy
    <3> QED BY <3>1 DEF OutboxInv, AttemptsHaveWorkers
  <2>2. ASSUME NEW v \in Workers, NEW w \in Workers, Busy(v)', Busy(w)', v # w,
               worker'[v].event = worker'[w].event
        PROVE  worker'[v].attempt # worker'[w].attempt
    <3>1. /\ Busy(v) /\ worker'[v].event = worker[v].event
          /\ worker'[v].attempt = worker[v].attempt
          /\ Busy(w) /\ worker'[w].event = worker[w].event
          /\ worker'[w].attempt = worker[w].attempt
      BY <2>2 DEF WorkersOnlyLeave, Busy
    <3> QED BY <2>2, <3>1 DEF OutboxInv, AttemptsHaveWorkers
  <2> QED BY <2>1, <2>2 DEF AttemptsHaveWorkers
<1>3. HandOversSoFar'
  BY DEF OutboxInv, HandOversSoFar, WorkersOnlyLeave
<1> QED BY <1>1, <1>2, <1>3

\* A step in which no row becomes dispatched keeps what dispatched rows say.
LEMMA NothingDispatched ==
  ASSUME OutboxInv, UNCHANGED accepted,
         \A e \in Events : row'[e].status = "dispatched" => row[e].status = "dispatched"
  PROVE  DispatchedWasAccepted'
BY DEF OutboxInv, DispatchedWasAccepted

-----------------------------------------------------------------------------
(* The steps that do more: an insert, a claim, a hand-over, a finalization. *)

LEMMA InsertKeeps ==
  ASSUME OutboxInv, InsertEvent
  PROVE  /\ IdsInOrder' /\ FifoPerAggregate' /\ AttemptsAreCounted'
         /\ AttemptsHaveWorkers' /\ HandOversSoFar' /\ DispatchedWasAccepted'
<1>1. PICK e \in Events :
        /\ row[e].status = "absent"
        /\ \A f \in Events : f < e => row[f].status # "absent"
        /\ row' = [row EXCEPT ![e].status = "pending"]
        /\ UNCHANGED <<worker, accepted, tried>>
  BY DEF InsertEvent
<1>2. \A f \in Events :
        /\ row'[f].key = row[f].key /\ row'[f].attempts = row[f].attempts
        /\ f # e => row'[f].status = row[f].status
  BY <1>1 DEF OutboxInv, TypeOK, Row
<1>3. row'[e].status = "pending"
  BY <1>1 DEF OutboxInv, TypeOK, Row
<1>4. IdsInOrder'
  BY <1>1, <1>2, <1>3, ConstantTypes DEF OutboxInv, IdsInOrder
<1>5. FifoPerAggregate'
  <2>1. ASSUME NEW d \in Events, NEW f \in Events, d < f, row'[d].key = row'[f].key,
               row'[f].attempts > 0
        PROVE  ~Open(row'[d])
    <3>1. ~Open(row[d]) /\ row[f].status # "absent"
      BY <1>2, <2>1 DEF OutboxInv, FifoPerAggregate, IdsInOrder
    <3>2. d # e
      BY <1>1, <2>1, <3>1 DEF OutboxInv, IdsInOrder
    <3> QED BY <1>2, <3>1, <3>2 DEF Open
  <2> QED BY <2>1 DEF FifoPerAggregate
<1>6. WorkersOnlyLeave
  BY <1>1 DEF WorkersOnlyLeave
<1>7. DispatchedWasAccepted'
  BY <1>1, <1>2, <1>3 DEF OutboxInv, DispatchedWasAccepted
<1> QED BY <1>1, <1>2, <1>4, <1>5, <1>6, <1>7, LeavingKeepsAttempts

LEMMA ClaimKeeps ==
  ASSUME OutboxInv, NEW w \in Workers, Claim(w)
  PROVE  /\ IdsInOrder' /\ FifoPerAggregate' /\ AttemptsAreCounted'
         /\ AttemptsHaveWorkers' /\ HandOversSoFar' /\ DispatchedWasAccepted'
<1>1. PICK e \in Claimable(worker[w].age) :
        /\ row' = [row EXCEPT ![e] = Claimed(w, e)]
        /\ worker' = [worker EXCEPT ![w] =
             [pc |-> "handing", event |-> e, attempt |-> row[e].attempts + 1,
              next |-> 1, age |-> 0, claims |-> worker[w].claims + 1]]
        /\ UNCHANGED <<accepted, tried>>
  BY DEF Claim
<1>2. /\ e \in Events /\ Open(row[e]) /\ ~HasOpenElder(e)
      /\ row[e].attempts \in Nat /\ row[e].attempts < MaxAttempts
  BY <1>1 DEF Claimable, Ready, OutboxInv, TypeOK, Row
<1>3. /\ row'[e].status = "processing" /\ row'[e].key = row[e].key
      /\ row'[e].attempts = row[e].attempts + 1
      /\ \A f \in Events : f # e => row'[f] = row[f]
  BY <1>1, <1>2, ClaimedFacts DEF OutboxInv, TypeOK
<1>4. /\ worker'[w].pc = "handing" /\ worker'[w].event = e
      /\ worker'[w].attempt = row[e].attempts + 1 /\ worker'[w].next = 1
      /\ \A v \in Workers : v # w => worker'[v] = worker[v]
  BY <1>1 DEF OutboxInv, TypeOK
<1>5. IdsInOrder'
  BY <1>2, <1>3 DEF OutboxInv, IdsInOrder, Open
<1>6. FifoPerAggregate'
  <2>1. ASSUME NEW d \in Events, NEW f \in Events, d < f, row'[d].key = row'[f].key,
               row'[f].attempts > 0
        PROVE  ~Open(row'[d])
    <3>1. CASE f = e
      BY <1>2, <1>3, <2>1, <3>1, ConstantTypes DEF HasOpenElder
    <3>2. CASE f # e
      BY <1>2, <1>3, <2>1, <3>2 DEF OutboxInv, FifoPerAggregate
    <3> QED BY <3>1, <3>2
  <2> QED BY <2>1 DEF FifoPerAggregate
<1>7. \A s \in 1 .. Subscribers : tried[e][s] \subseteq 1 .. row[e].attempts
  BY <1>2 DEF OutboxInv, AttemptsAreCounted
<1>8. AttemptsAreCounted'
  <2>1. 1 .. row[e].attempts \subseteq 1 .. row'[e].attempts
        /\ row'[e].attempts <= MaxAttempts
    BY <1>2, <1>3, ConstantTypes
  <2> QED BY <1>1, <1>3, <1>7, <2>1 DEF OutboxInv, AttemptsAreCounted
<1>9. \A v \in Workers : Busy(v) /\ worker[v].event = e =>
        worker[v].attempt \in 1 .. row[e].attempts
  BY DEF OutboxInv, AttemptsHaveWorkers
<1>10. AttemptsHaveWorkers'
  <2>1. ASSUME NEW v \in Workers, Busy(v)'
        PROVE  /\ worker'[v].event \in Events
               /\ worker'[v].attempt \in 1 .. row'[worker'[v].event].attempts
               /\ worker'[v].next \in 1 .. Subscribers
    <3>1. CASE v = w
      BY <1>2, <1>3, <1>4, <3>1, ConstantTypes
    <3>2. CASE v # w
      <4>1. Busy(v) /\ worker'[v] = worker[v]
        BY <1>4, <2>1, <3>2 DEF Busy
      <4>2. /\ worker[v].event \in Events /\ worker[v].next \in 1 .. Subscribers
            /\ worker[v].attempt \in 1 .. row[worker[v].event].attempts
        BY <4>1 DEF OutboxInv, AttemptsHaveWorkers
      <4>3. CASE worker[v].event = e
        BY <1>2, <1>3, <4>1, <4>2, <4>3
      <4>4. CASE worker[v].event # e
        BY <1>3, <4>1, <4>2, <4>4
      <4> QED BY <4>3, <4>4
    <3> QED BY <3>1, <3>2
  <2>2. ASSUME NEW u \in Workers, NEW v \in Workers, Busy(u)', Busy(v)', u # v,
               worker'[u].event = worker'[v].event
        PROVE  worker'[u].attempt # worker'[v].attempt
    <3>1. \A x \in Workers : x # w /\ Busy(x)' => Busy(x)
      BY <1>4 DEF Busy
    <3>2. CASE u = w
      <4>1. Busy(v) /\ worker[v].event = e /\ worker'[v] = worker[v]
        BY <1>4, <2>2, <3>1, <3>2
      <4> QED BY <1>2, <1>4, <1>9, <3>2, <4>1
    <3>3. CASE v = w
      <4>1. Busy(u) /\ worker[u].event = e /\ worker'[u] = worker[u]
        BY <1>4, <2>2, <3>1, <3>3
      <4> QED BY <1>2, <1>4, <1>9, <3>3, <4>1
    <3>4. CASE u # w /\ v # w
      BY <1>4, <2>2, <3>1, <3>4 DEF OutboxInv, AttemptsHaveWorkers
    <3> QED BY <3>2, <3>3, <3>4
  <2> QED BY <2>1, <2>2 DEF AttemptsHaveWorkers
<1>11. HandOversSoFar'
  <2>1. ASSUME NEW v \in Workers
        PROVE  /\ worker'[v].pc = "handing" =>
                    /\ \A s \in 1 .. Subscribers :
                         s < worker'[v].next => s \in accepted'[worker'[v].event]
                    /\ \A s \in 1 .. Subscribers :
                         s >= worker'[v].next =>
                           worker'[v].attempt \notin tried'[worker'[v].event][s]
               /\ worker'[v].pc = "marking" =>
                    accepted'[worker'[v].event] = 1 .. Subscribers
    <3>1. CASE v = w
      <4>1. row[e].attempts + 1 \notin 1 .. row[e].attempts
        BY <1>2
      <4>2. \A s \in 1 .. Subscribers : ~(s < 1)
        OBVIOUS
      <4> QED BY <1>1, <1>4, <1>7, <3>1, <4>1, <4>2
    <3>2. CASE v # w
      BY <1>1, <1>4, <3>2 DEF OutboxInv, HandOversSoFar
    <3> QED BY <3>1, <3>2
  <2> QED BY <2>1 DEF HandOversSoFar
<1>12. DispatchedWasAccepted'
  BY <1>1, <1>3, NothingDispatched
<1> QED BY <1>5, <1>6, <1>8, <1>10, <1>11, <1>12

LEMMA HandOverKeeps ==
  ASSUME OutboxInv, NEW w \in Workers, NEW ok \in BOOLEAN, HandOver(w, ok)
  PROVE  /\ IdsInOrder' /\ FifoPerAggregate' /\ AttemptsAreCounted'
         /\ AttemptsHaveWorkers' /\ HandOversSoFar' /\ DispatchedWasAccepted'
<1> DEFINE e == worker[w].event
           s == worker[w].next
           n == worker[w].attempt
<1>1. /\ Busy(w) /\ worker[w].pc = "handing" /\ row' = row
      /\ tried' = [tried EXCEPT ![e][s] = @ \cup {n}]
      /\ accepted' = IF ok THEN [accepted EXCEPT ![e] = @ \cup {s}] ELSE accepted
      /\ worker' = [worker EXCEPT ![w] = AfterHandOver(w, ok)]
  BY DEF HandOver, Busy
<1>2. e \in Events /\ s \in 1 .. Subscribers /\ n \in 1 .. row[e].attempts
  BY <1>1 DEF OutboxInv, AttemptsHaveWorkers
<1>3. /\ worker'[w].event = e /\ worker'[w].attempt = n
      /\ \/ ~ok /\ worker'[w].pc = "failing" /\ worker'[w].next = s
         \/ /\ ok /\ s < Subscribers
            /\ worker'[w].pc = "handing" /\ worker'[w].next = s + 1
         \/ /\ ok /\ ~(s < Subscribers)
            /\ worker'[w].pc = "marking" /\ worker'[w].next = s
      /\ \A v \in Workers : v # w => worker'[v] = worker[v]
  <2>1. worker'[w] = AfterHandOver(w, ok)
        /\ \A v \in Workers : v # w => worker'[v] = worker[v]
    BY <1>1 DEF OutboxInv, TypeOK
  <2> QED BY <1>1, <2>1, AfterHandOverFacts DEF OutboxInv
<1>4. /\ \A f \in Events : accepted[f] \subseteq accepted'[f] /\ accepted'[f] \subseteq 1 .. Subscribers
      /\ ok => s \in accepted'[e]
  BY <1>1, <1>2 DEF OutboxInv, TypeOK
<1>5. /\ \A f \in Events, q \in 1 .. Subscribers :
           f # e \/ q # s => tried'[f][q] = tried[f][q]
      /\ tried'[e][s] = tried[e][s] \cup {n}
  BY <1>1, <1>2 DEF OutboxInv, TypeOK
<1>6. \A v \in Workers : v # w /\ Busy(v) /\ worker[v].event = e => worker[v].attempt # n
  BY <1>1 DEF OutboxInv, AttemptsHaveWorkers
<1> HIDE DEF e, s, n
<1>7. IdsInOrder' /\ FifoPerAggregate'
  BY <1>1 DEF OutboxInv, IdsInOrder, FifoPerAggregate, Open
<1>8. AttemptsAreCounted'
  BY <1>1, <1>2, <1>5 DEF OutboxInv, AttemptsAreCounted
<1>9. \A v \in Workers : Busy(v)' =>
        /\ Busy(v) /\ worker'[v].event = worker[v].event
        /\ worker'[v].attempt = worker[v].attempt
        /\ worker'[v].next \in 1 .. Subscribers
  <2>1. ASSUME NEW v \in Workers, Busy(v)'
        PROVE  /\ Busy(v) /\ worker'[v].event = worker[v].event
               /\ worker'[v].attempt = worker[v].attempt
               /\ worker'[v].next \in 1 .. Subscribers
    <3>1. CASE v = w
      BY <1>1, <1>2, <1>3, <3>1, ConstantTypes DEF e, n
    <3>2. CASE v # w
      BY <1>3, <2>1, <3>2 DEF Busy, OutboxInv, AttemptsHaveWorkers
    <3> QED BY <3>1, <3>2
  <2> QED BY <2>1
<1>10. AttemptsHaveWorkers'
  BY <1>1, <1>9 DEF OutboxInv, AttemptsHaveWorkers
<1>11. HandOversSoFar'
  <2>1. ASSUME NEW v \in Workers, worker'[v].pc = "handing"
        PROVE  /\ \A q \in 1 .. Subscribers :
                    q < worker'[v].next => q \in accepted'[worker'[v].event]
               /\ \A q \in 1 .. Subscribers :
                    q >= worker'[v].next =>
                      worker'[v].attempt \notin tried'[worker'[v].event][q]
    <3>1. CASE v = w
      <4>1. ok /\ worker'[w].next = s + 1
        BY <1>3, <2>1, <3>1
      <4>2. /\ \A q \in 1 .. Subscribers : q < s => q \in accepted[e]
            /\ \A q \in 1 .. Subscribers : q >= s => n \notin tried[e][q]
        BY <1>1 DEF OutboxInv, HandOversSoFar, e, s, n
      <4>3. \A q \in 1 .. Subscribers : q < s + 1 <=> q < s \/ q = s
        BY <1>2
      <4>4. \A q \in 1 .. Subscribers : q >= s + 1 <=> q >= s /\ q # s
        BY <1>2
      <4> QED BY <1>2, <1>3, <1>4, <1>5, <3>1, <4>1, <4>2, <4>3, <4>4
    <3>2. CASE v # w
      <4>1. worker'[v] = worker[v] /\ Busy(v) /\ worker[v].event \in Events
        BY <1>3, <2>1, <3>2 DEF Busy, OutboxInv, AttemptsHaveWorkers
      <4>2. /\ \A q \in 1 .. Subscribers :
                 q < worker[v].next => q \in accepted[worker[v].event]
            /\ \A q \in 1 .. Subscribers :
                 q >= worker[v].next => worker[v].attempt \notin tried[worker[v].event][q]
        BY <2>1, <4>1 DEF OutboxInv, HandOversSoFar
      <4>3. worker[v].event = e => worker[v].attempt # n
        BY <1>6, <3>2, <4>1
      <4> QED BY <1>4, <1>5, <4>1, <4>2, <4>3
    <3> QED BY <3>1, <3>2
  <2>2. ASSUME NEW v \in Workers, worker'[v].pc = "marking"
        PROVE  accepted'[worker'[v].event] = 1 .. Subscribers
    <3>1. CASE v = w
      <4>1. ok /\ ~(s < Subscribers)
        BY <1>3, <2>2, <3>1
      <4>2. \A q \in 1 .. Subscribers : q < s => q \in accepted[e]
        BY <1>1 DEF OutboxInv, HandOversSoFar, e, s
      <4>3. \A q \in 1 .. Subscribers : q < s \/ q = s
        BY <1>2, <4>1, ConstantTypes
      <4> QED BY <1>2, <1>3, <1>4, <3>1, <4>1, <4>2, <4>3
    <3>2. CASE v # w
      <4>1. worker'[v] = worker[v] /\ worker[v].event \in Events
        BY <1>3, <2>2, <3>2 DEF Busy, OutboxInv, AttemptsHaveWorkers
      <4>2. accepted[worker[v].event] = 1 .. Subscribers
        BY <2>2, <4>1 DEF OutboxInv, HandOversSoFar
      <4> QED BY <1>4, <4>1, <4>2
    <3> QED BY <3>1, <3>2
  <2> QED BY <2>1, <2>2 DEF HandOversSoFar
<1>12. DispatchedWasAccepted'
  BY <1>1, <1>4 DEF OutboxInv, DispatchedWasAccepted
<1> QED BY <1>7, <1>8, <1>10, <1>11, <1>12

LEMMA FinalizeKeeps ==
  ASSUME OutboxInv, NEW w \in Workers, MarkDispatched(w) \/ RecordFailure(w)
  PROVE  /\ IdsInOrder' /\ FifoPerAggregate' /\ AttemptsAreCounted'
         /\ AttemptsHaveWorkers' /\ HandOversSoFar' /\ DispatchedWasAccepted'
<1>1. \A e \in Events :
        /\ row'[e].key = row[e].key /\ row'[e].attempts = row[e].attempts
        /\ \/ row'[e] = row[e]
           \/ /\ Holds(w) /\ e = worker[w].event
              /\ row'[e].status \in {"pending", "failed", "dispatched"}
              /\ row'[e].status = "dispatched" => worker[w].pc = "marking"
  BY FinalizeFacts
<1>2. /\ worker' = [worker EXCEPT ![w] = NextClaim(w)]
      /\ UNCHANGED <<accepted, tried>>
  BY FinalizeFacts
<1>3. RowsOnlyClose
  BY <1>1 DEF RowsOnlyClose, Holds, Open
<1>4. WorkersOnlyLeave
  BY <1>2, NextClaimFacts DEF WorkersOnlyLeave, OutboxInv, TypeOK
<1>5. DispatchedWasAccepted'
  <2>1. ASSUME NEW e \in Events, row'[e].status = "dispatched", row[e].status # "dispatched"
        PROVE  accepted[e] = 1 .. Subscribers
    BY <1>1, <2>1 DEF OutboxInv, HandOversSoFar
  <2> QED BY <1>2, <2>1 DEF OutboxInv, DispatchedWasAccepted
<1> QED BY <1>1, <1>2, <1>3, <1>4, <1>5, ClosingKeepsOrder, LeavingKeepsAttempts

\* Starting a batch, sweeping, finding nothing, and dying.
LEMMA OtherStepsKeep ==
  ASSUME OutboxInv, NEW w \in Workers,
         \/ StartBatch(w) \/ FailRetryLimitRows(w)
         \/ NothingToClaim(w) \/ Abandon(w)
  PROVE  /\ IdsInOrder' /\ FifoPerAggregate' /\ AttemptsAreCounted'
         /\ AttemptsHaveWorkers' /\ HandOversSoFar' /\ DispatchedWasAccepted'
<1>1. RowsOnlyClose /\ \A e \in Events :
        row'[e].status = "dispatched" => row[e].status = "dispatched"
  <2>1. CASE FailRetryLimitRows(w)
    BY <2>1, SweepFacts DEF RowsOnlyClose, OutboxInv, Open
  <2>2. CASE StartBatch(w) \/ NothingToClaim(w) \/ Abandon(w)
    <3>1. row' = row
      BY <2>2 DEF StartBatch, NothingToClaim, Abandon
    <3> QED BY <3>1 DEF RowsOnlyClose, Open
  <2> QED BY <2>1, <2>2
<1>2. PICK x : /\ worker' = [worker EXCEPT ![w] = x]
               /\ x.pc \notin {"handing", "marking", "failing"}
               /\ UNCHANGED <<accepted, tried>>
  <2>1. CASE FailRetryLimitRows(w)
    BY <2>1, NextClaimFacts DEF FailRetryLimitRows, OutboxInv
  <2>2. CASE StartBatch(w)
    BY <2>2 DEF StartBatch, Asleep
  <2>3. CASE NothingToClaim(w) \/ Abandon(w)
    BY <2>3, AsleepType DEF NothingToClaim, Abandon
  <2> QED BY <2>1, <2>2, <2>3
<1>3. WorkersOnlyLeave
  BY <1>2 DEF WorkersOnlyLeave, OutboxInv, TypeOK
<1>4. \A e \in Events : row'[e].attempts = row[e].attempts
  BY <1>1 DEF RowsOnlyClose
<1> QED BY <1>1, <1>2, <1>3, <1>4, ClosingKeepsOrder, LeavingKeepsAttempts, NothingDispatched

LEMMA TickKeeps ==
  ASSUME OutboxInv, Tick
  PROVE  /\ IdsInOrder' /\ FifoPerAggregate' /\ AttemptsAreCounted'
         /\ AttemptsHaveWorkers' /\ HandOversSoFar' /\ DispatchedWasAccepted'
<1>1. UNCHANGED <<accepted, tried>>
  BY DEF Tick
<1>2. RowsOnlyClose /\ \A e \in Events : row'[e].status = row[e].status
  BY TickFacts DEF OutboxInv, SameRows, RowsOnlyClose, Open
<1>3. WorkersOnlyLeave
  BY TickFacts DEF OutboxInv, WorkersOnlyLeave
<1> QED
  BY <1>1, <1>2, <1>3, ClosingKeepsOrder, LeavingKeepsAttempts, NothingDispatched
     DEF RowsOnlyClose

-----------------------------------------------------------------------------
(* The theorems.                                                            *)

\* The invariant: rows are attempted in order, every attempt in hand is one
\* the row counts and nobody else has, and what a worker has handed over is
\* what the subscribers have seen.
THEOREM OutboxInvariant == Spec => []OutboxInv
<1>1. Init => OutboxInv
  <2> SUFFICES ASSUME Init PROVE OutboxInv
    OBVIOUS
  <2>1. PICK keys \in Streams : row = [e \in Events |-> Absent(keys[e])]
    BY DEF Init
  <2>2. \A e \in Events : /\ row[e] \in Row /\ row[e].status = "absent"
                          /\ row[e].attempts = 0
    BY <2>1, OutboxAssumption, ConstantTypes DEF Absent, Row, Statuses
  <2>3. \A w \in Workers : worker[w] \in Worker /\ worker[w].pc = "asleep"
    BY AsleepType DEF Init
  <2>4. TypeOK
    BY <2>1, <2>2, <2>3, OutboxAssumption DEF Init, TypeOK
  <2>5. IdsInOrder /\ FifoPerAggregate /\ DispatchedWasAccepted
    BY <2>2 DEF IdsInOrder, FifoPerAggregate, DispatchedWasAccepted
  <2>6. AttemptsAreCounted
    BY <2>2, ConstantTypes DEF Init, AttemptsAreCounted
  <2>7. AttemptsHaveWorkers /\ HandOversSoFar
    BY <2>3 DEF AttemptsHaveWorkers, HandOversSoFar, Busy
  <2> QED BY <2>4, <2>5, <2>6, <2>7 DEF OutboxInv
<1>2. OutboxInv /\ [Next]_vars => OutboxInv'
  <2> SUFFICES ASSUME OutboxInv, [Next]_vars PROVE OutboxInv'
    OBVIOUS
  <2>1. CASE Next
    <3>1. TypeOK'
      BY <2>1, TypesKept
    <3>2. CASE InsertEvent
      BY <3>1, <3>2, InsertKeeps DEF OutboxInv
    <3>3. ASSUME NEW w \in Workers, Claim(w)
          PROVE  OutboxInv'
      BY <3>1, <3>3, ClaimKeeps DEF OutboxInv
    <3>4. ASSUME NEW w \in Workers, NEW ok \in BOOLEAN, HandOver(w, ok)
          PROVE  OutboxInv'
      BY <3>1, <3>4, HandOverKeeps DEF OutboxInv
    <3>5. ASSUME NEW w \in Workers, MarkDispatched(w) \/ RecordFailure(w)
          PROVE  OutboxInv'
      BY <3>1, <3>5, FinalizeKeeps DEF OutboxInv
    <3>6. ASSUME NEW w \in Workers,
                 \/ StartBatch(w) \/ FailRetryLimitRows(w)
                 \/ NothingToClaim(w) \/ Abandon(w)
          PROVE  OutboxInv'
      BY <3>1, <3>6, OtherStepsKeep DEF OutboxInv
    <3>7. CASE Tick
      BY <3>1, <3>7, TickKeeps DEF OutboxInv
    <3> QED BY <2>1, <3>2, <3>3, <3>4, <3>5, <3>6, <3>7 DEF Next, Work
  <2>2. CASE UNCHANGED vars
    BY <2>2 DEF vars, OutboxInv, TypeOK, IdsInOrder, FifoPerAggregate, Open,
       AttemptsAreCounted, AttemptsHaveWorkers, Busy, HandOversSoFar, DispatchedWasAccepted
  <2> QED BY <2>1, <2>2
<1> QED BY <1>1, <1>2, PTL DEF Spec

\* Rows, workers and histories keep their types through every step.
THEOREM OutboxTypes == Spec => []TypeOK
<1>1. OutboxInv => TypeOK
  BY DEF OutboxInv
<1> QED BY <1>1, OutboxInvariant, PTL

\* The claim's NOT EXISTS keeps the events of an aggregate in order: none is
\* attempted while an older one is open.
THEOREM EventsStayInOrder == Spec => []FifoPerAggregate
<1>1. OutboxInv => FifoPerAggregate
  BY DEF OutboxInv
<1> QED BY <1>1, OutboxInvariant, PTL

\* A row is marked dispatched only after every subscriber accepted its event.
THEOREM DispatchMeansAcceptance == Spec => []DispatchedWasAccepted
<1>1. OutboxInv => DispatchedWasAccepted
  BY DEF OutboxInv
<1> QED BY <1>1, OutboxInvariant, PTL

\* Attempts never exceed the limit, and no subscriber sees more than them.
THEOREM AttemptsAreBounded == Spec => []AttemptsAreCounted
<1>1. OutboxInv => AttemptsAreCounted
  BY DEF OutboxInv
<1> QED BY <1>1, OutboxInvariant, PTL

\* Within one attempt no subscriber is handed the event twice.
THEOREM OneHandOverPerAttempt == Spec => HandedOncePerAttempt
<1>1. OutboxInv /\ [Next]_vars =>
        [\A w \in Workers :
           (\E ok \in BOOLEAN : HandOver(w, ok)) =>
             worker[w].attempt \notin tried[worker[w].event][worker[w].next]]_vars
  <2> SUFFICES ASSUME OutboxInv, NEW w \in Workers, NEW ok \in BOOLEAN, HandOver(w, ok)
               PROVE  worker[w].attempt \notin tried[worker[w].event][worker[w].next]
    OBVIOUS
  <2>1. worker[w].pc = "handing" /\ worker[w].next \in 1 .. Subscribers
    BY BusyFacts DEF HandOver, Busy
  <2> QED BY <2>1, ConstantTypes DEF OutboxInv, HandOversSoFar
<1> QED BY <1>1, OutboxInvariant, PTL DEF Spec, HandedOncePerAttempt

\* The fence: a claim ends by the word of the worker whose token the row
\* carries, or after its lease has lapsed.
THEOREM ClaimsAreFenced == Spec => LeaseIsRespected
<1>1. ASSUME OutboxInv, Next, NEW e \in Events, row[e].status = "processing",
             <<row'[e].status, row'[e].token, row'[e].attempts>>
               # <<row[e].status, row[e].token, row[e].attempts>>
      PROVE  \/ row[e].until <= 0
             \/ \E w \in Workers : Holds(w) /\ (MarkDispatched(w) \/ RecordFailure(w))
  <2>1. row[e] \in Row /\ TypeOK
    BY <1>1 DEF OutboxInv, TypeOK
  <2>2. \A w \in Workers : Passed(row[e].until, worker[w].age) => row[e].until <= 0
    BY <1>1, <2>1, BusyFacts DEF Passed, Row
  <2>3. CASE InsertEvent
    BY <1>1, <2>1, <2>3 DEF InsertEvent, TypeOK, Row
  <2>4. ASSUME NEW w \in Workers, Claim(w)
        PROVE  row[e].until <= 0
    <3>1. PICK f \in Claimable(worker[w].age) : row' = [row EXCEPT ![f] = Claimed(w, f)]
      BY <2>4 DEF Claim
    <3>2. f = e
      BY <1>1, <2>1, <3>1 DEF TypeOK
    <3> QED BY <2>2, <3>2 DEF Claimable, Ready
  <2>5. ASSUME NEW w \in Workers, FailRetryLimitRows(w)
        PROVE  row[e].until <= 0
    BY <1>1, <2>1, <2>2, <2>5, SweepFacts
  <2>6. ASSUME NEW w \in Workers, MarkDispatched(w) \/ RecordFailure(w)
        PROVE  Holds(w)
    BY <1>1, <2>6, FinalizeFacts
  <2>7. ASSUME NEW w \in Workers
        PROVE  ~(StartBatch(w) \/ NothingToClaim(w) \/ Abandon(w)
                  \/ \E ok \in BOOLEAN : HandOver(w, ok))
    BY <1>1 DEF StartBatch, NothingToClaim, Abandon, HandOver
  <2>8. ~Tick
    BY <1>1, <2>1, TickFacts DEF SameRows
  <2> QED BY <1>1, <2>3, <2>4, <2>5, <2>6, <2>7, <2>8 DEF Next, Work
<1>2. OutboxInv /\ [Next]_vars =>
        [\A e \in Events :
           /\ row[e].status = "processing"
           /\ <<row'[e].status, row'[e].token, row'[e].attempts>>
                # <<row[e].status, row[e].token, row[e].attempts>>
           => \/ row[e].until <= 0
              \/ \E w \in Workers : Holds(w) /\ (MarkDispatched(w) \/ RecordFailure(w))]_vars
  BY <1>1
<1> QED BY <1>2, OutboxInvariant, PTL DEF Spec, LeaseIsRespected

\* Late hand-overs are a stale worker's: one that still has its claim hands
\* nothing over behind a younger event of the same aggregate.
THEOREM LateHandOversAreStale == Spec => OnlyStaleWorkersAreLate
<1>1. ASSUME OutboxInv, NEW w \in Workers, NEW ok \in BOOLEAN, HandOver(w, ok), Holds(w),
             NEW f \in Events, f > worker[w].event, row[f].key = row[worker[w].event].key
      PROVE  tried[f][worker[w].next] = {}
  <2>1. worker[w].event \in Events /\ worker[w].next \in 1 .. Subscribers
    BY <1>1, BusyFacts DEF HandOver, Busy
  <2>2. row[f].attempts \in Nat /\ ~(row[f].attempts > 0)
    BY <1>1, <2>1, ConstantTypes DEF OutboxInv, TypeOK, Row, FifoPerAggregate, Open, Holds
  <2>3. row[f].attempts = 0
    BY <2>2
  <2>4. tried[f][worker[w].next] \subseteq 1 .. 0
    BY <1>1, <2>1, <2>3 DEF OutboxInv, AttemptsAreCounted
  <2> QED BY <2>4
<1>2. OutboxInv /\ [Next]_vars =>
        [\A w \in Workers :
           (\E ok \in BOOLEAN : HandOver(w, ok)) /\ Holds(w) =>
             \A f \in Events :
               f > worker[w].event /\ row[f].key = row[worker[w].event].key =>
                 tried[f][worker[w].next] = {}]_vars
  BY <1>1
<1> QED BY <1>2, OutboxInvariant, PTL DEF Spec, OnlyStaleWorkersAreLate

-----------------------------------------------------------------------------
(* The declaration: types and foreign keys. *)

\* A nonempty set of naturals has a least element.
LEMMA LeastNatural ==
  ASSUME NEW S \in SUBSET Nat, S # {}
  PROVE  \E m \in S : \A n \in S : m <= n
<1>1. \E m \in S : \A n \in S : <<n, m>> \notin OpToRel(<, Nat)
  BY NatLessThanWellFounded, WFMin
<1>2. \A m, n \in Nat : <<n, m>> \notin OpToRel(<, Nat) => m <= n
  BY DEF OpToRel
<1> QED
  BY <1>1, <1>2

FilingTables ==
  /\ identity \in [Identities -> IdentityRow \cup {None}]
  /\ link \in [Links -> LinkRow \cup {None}]
  /\ batch \in [Batches -> BatchRow \cup {None}]
  /\ made \in [identity : 0 .. MaxIdentities, link : 0 .. MaxLinks,
               batch : 0 .. MaxBatches]
  /\ entry \subseteq Batches \X Links

ForeignKeys ==
  /\ \A l \in Links : link[l] # None => identity[link[l].who] # None
  /\ \A b \in Batches : \A l \in EntriesOf(b) : batch[b] # None /\ link[l] # None

FilingRest ==
  /\ file \in [Minutes -> Files] /\ minute \in Minutes
  /\ panel \in Batches \cup {None} /\ portal \in Files
  /\ wrote \in [Batches -> Files] /\ counted \in [Batches -> Files]
  /\ reused \subseteq Minutes

LEMMA FilingParts ==
  FilingTypeOK <=>
    FilingTables /\ ForeignKeys /\ FilingRest /\ task \in [Tasks -> Task]
BY DEF FilingTypeOK, FilingTables, ForeignKeys, FilingRest

LEMMA FilingPartsNext ==
  ASSUME FilingTables', ForeignKeys', FilingRest', task' \in [Tasks -> Task]
  PROVE  FilingTypeOK'
BY DEF FilingTypeOK, FilingTables, ForeignKeys, FilingRest

LEMMA NoneFacts ==
  None \notin IdentityRow /\ None \notin LinkRow /\ None \notin BatchRow
BY DeclarationAssumption

LEMMA FilingBounds ==
  /\ MaxIdentities \in Nat \ {0} /\ MaxLinks \in Nat \ {0}
  /\ MaxBatches \in Nat \ {0} /\ MaxMinute \in Nat \ {0}
BY DeclarationAssumption

LEMMA FilesFacts ==
  /\ {} \in Files
  /\ \A rows \in Files :
       /\ rows \subseteq FileRow /\ IsFiniteSet(rows) /\ Cardinality(rows) \in Nat
       /\ \A some \in SUBSET rows : some \in Files
<1>1. {} \in Files
  BY FS_EmptySet DEF Files
<1>2. ASSUME NEW rows \in Files
      PROVE  /\ rows \subseteq FileRow /\ IsFiniteSet(rows) /\ Cardinality(rows) \in Nat
             /\ \A some \in SUBSET rows : some \in Files
  <2>1. rows \subseteq FileRow /\ IsFiniteSet(rows)
    BY DEF Files
  <2>. QED
    BY <2>1, FS_CardinalityType, FS_Subset DEF Files
<1>. QED
  BY <1>1, <1>2

\* The locals of a command at each of its statements.
LEMMA TaskFields ==
  ASSUME task \in [Tasks -> Task], NEW t \in Tasks
  PROVE  /\ At(t, "update") => task[t].id \in Identities /\ task[t].data \in Versions
         /\ At(t, "insert") => task[t].doc \in Documents /\ task[t].data \in Versions
         /\ At(t, "unlink") => task[t].link \in Links
         /\ At(t, "write") => task[t].ids \subseteq Links /\ task[t].rows \in Files
         /\ At(t, "batch") => /\ task[t].ids \subseteq Links
                              /\ task[t].rows \in Files
                              /\ task[t].path \in Minutes
         /\ At(t, "entries") => task[t].ids \subseteq Links /\ task[t].batch \in Batches
<1>1. task[t] \in Task
  OBVIOUS
<1>. QED
  BY <1>1 DEF Task, At, Idle

LEMMA TaskMembers ==
  /\ Idle \in Task
  /\ \A i \in Identities, v \in Versions : [pc |-> "update", id |-> i, data |-> v] \in Task
  /\ \A d \in Documents, v \in Versions : [pc |-> "insert", doc |-> d, data |-> v] \in Task
  /\ \A l \in Links : [pc |-> "unlink", link |-> l] \in Task
  /\ \A ids \in SUBSET Links, rows \in Files :
       /\ [pc |-> "write", ids |-> ids, rows |-> rows] \in Task
       /\ \A m \in Minutes :
            [pc |-> "batch", ids |-> ids, rows |-> rows, path |-> m] \in Task
       /\ \A b \in Batches : [pc |-> "entries", ids |-> ids, batch |-> b] \in Task
BY DEF Task

LEMMA GotoFacts ==
  ASSUME task \in [Tasks -> Task], NEW t \in Tasks, NEW s \in Task, Goto(t, s)
  PROVE  /\ task' \in [Tasks -> Task] /\ task'[t] = s
         /\ \A u \in Tasks : u # t => task'[u] = task[u]
BY DEF Goto

LEMMA InitFilingTypes == FilingInit => FilingTypeOK
<1>. SUFFICES ASSUME FilingInit PROVE FilingTypeOK
  OBVIOUS
<1>1. FilingTables
  BY FilingBounds DEF FilingInit, FilingTables
<1>2. ForeignKeys
  BY DEF FilingInit, ForeignKeys, EntriesOf
<1>3. FilingRest
  BY FilingBounds, FilesFacts DEF FilingInit, FilingRest, Minutes
<1>4. task \in [Tasks -> Task]
  BY TaskMembers DEF FilingInit
<1>. QED
  BY <1>1, <1>2, <1>3, <1>4, FilingParts

\* A row of a file, of a link that is there.
LEMMA RowOfType ==
  ASSUME FilingTables, ForeignKeys, NEW l \in Links, link[l] # None
  PROVE  RowOf(l) \in FileRow /\ RowOf(l).link = l
<1>1. link[l] \in LinkRow /\ identity[link[l].who] # None
  BY DEF FilingTables, ForeignKeys
<1>2. link[l].who \in Identities /\ link[l].stay \in Stays /\ link[l].reason \in Versions
  BY <1>1 DEF LinkRow
<1>3. identity[link[l].who] \in IdentityRow
  BY <1>1, <1>2 DEF FilingTables
<1>. QED
  BY <1>2, <1>3 DEF RowOf, FileRow, IdentityRow

\* The commands on identities.
LEMMA SaveTypes ==
  ASSUME FilingTypeOK, NEW t \in Tasks,
         \/ \E d \in Documents, v \in Versions : SaveLooks(t, d, v)
         \/ SaveUpdates(t) \/ SaveInserts(t)
  PROVE  FilingTypeOK'
<1>1. FilingTables /\ ForeignKeys /\ FilingRest /\ task \in [Tasks -> Task]
  BY FilingParts
<1>2. ASSUME NEW d \in Documents, NEW v \in Versions, SaveLooks(t, d, v)
      PROVE  FilingTypeOK'
  <2>1. UNCHANGED <<tables, file, minute, panel, portal, wrote, counted, reused>>
    BY <1>2 DEF SaveLooks
  <2>2. task' \in [Tasks -> Task]
    <3>1. CASE UNCHANGED task
      BY <1>1, <3>1
    <3>2. CASE WithDocument(d) # {}
               /\ Goto(t, [pc |-> "update", id |-> Oldest(WithDocument(d)), data |-> v])
      <4>1. Oldest(WithDocument(d)) \in Identities
        <5>1. WithDocument(d) \in SUBSET Nat /\ WithDocument(d) \subseteq Identities
          BY DEF WithDocument, Identities
        <5>2. \E m \in WithDocument(d) : \A n \in WithDocument(d) : m <= n
          BY <3>2, <5>1, LeastNatural
        <5>. QED
          BY <5>1, <5>2 DEF Oldest
      <4>2. [pc |-> "update", id |-> Oldest(WithDocument(d)), data |-> v] \in Task
        BY <4>1, TaskMembers
      <4>. QED
        BY <1>1, <3>2, <4>2, GotoFacts
    <3>3. CASE Goto(t, [pc |-> "insert", doc |-> d, data |-> v])
      <4>1. [pc |-> "insert", doc |-> d, data |-> v] \in Task
        BY TaskMembers
      <4>. QED
        BY <1>1, <3>3, <4>1, GotoFacts
    <3>. QED
      BY <1>2, <3>1, <3>2, <3>3 DEF SaveLooks
  <2>3. FilingTables' /\ ForeignKeys' /\ FilingRest'
    BY <1>1, <2>1 DEF FilingTables, ForeignKeys, FilingRest, EntriesOf, tables
  <2>. QED
    BY <2>2, <2>3, FilingPartsNext
<1>3. ASSUME SaveUpdates(t)
      PROVE  FilingTypeOK'
  <2>1. /\ UNCHANGED <<link, batch, entry, made, file, minute, panel, portal,
                       wrote, counted, reused>>
        /\ Goto(t, Idle) /\ task[t].data \in Versions
    BY <1>1, <1>3, TaskFields DEF SaveUpdates
  <2>2. \A i \in Identities :
          /\ identity'[i] \in IdentityRow \cup {None}
          /\ identity[i] # None => identity'[i] # None
    <3>1. \A i \in Identities : identity'[i] =
            IF i = task[t].id /\ identity[i] # None
              THEN [identity[i] EXCEPT !.data = task[t].data] ELSE identity[i]
      BY <1>3 DEF SaveUpdates
    <3>. SUFFICES ASSUME NEW i \in Identities
                  PROVE  /\ identity'[i] \in IdentityRow \cup {None}
                         /\ identity[i] # None => identity'[i] # None
      OBVIOUS
    <3>2. CASE i = task[t].id /\ identity[i] # None
      <4>1. identity[i] \in IdentityRow
        BY <1>1, <3>2 DEF FilingTables
      <4>2. [identity[i] EXCEPT !.data = task[t].data] \in IdentityRow
        BY <2>1, <4>1 DEF IdentityRow
      <4>. QED
        BY <3>1, <3>2, <4>2, NoneFacts
    <3>3. CASE ~(i = task[t].id /\ identity[i] # None)
      <4>1. identity'[i] = identity[i]
        BY <3>1, <3>3
      <4>. QED
        BY <1>1, <4>1 DEF FilingTables
    <3>. QED
      BY <3>2, <3>3
  <2>3. FilingTables'
    <3>1. identity' = [i \in Identities |-> identity'[i]]
      BY <1>3 DEF SaveUpdates
    <3>. QED
      BY <1>1, <2>1, <2>2, <3>1 DEF FilingTables
  <2>4. ForeignKeys'
    <3>1. \A l \in Links : link[l] # None => link[l].who \in Identities
      BY <1>1 DEF FilingTables, LinkRow
    <3>. QED
      BY <1>1, <2>1, <2>2, <3>1 DEF ForeignKeys, EntriesOf
  <2>5. FilingRest' /\ task' \in [Tasks -> Task]
    BY <1>1, <2>1, GotoFacts, TaskMembers DEF FilingRest
  <2>. QED
    BY <2>3, <2>4, <2>5, FilingPartsNext
<1>4. ASSUME SaveInserts(t)
      PROVE  FilingTypeOK'
  <2>1. /\ UNCHANGED <<link, batch, entry, file, minute, panel, portal,
                       wrote, counted, reused>>
        /\ Goto(t, Idle) /\ task[t].data \in Versions /\ task[t].doc \in Documents
        /\ made.identity < MaxIdentities
        /\ made' = [made EXCEPT !.identity = @ + 1]
        /\ identity' = [identity EXCEPT ![made'.identity] =
                          [doc |-> task[t].doc, data |-> task[t].data]]
    BY <1>1, <1>4, TaskFields DEF SaveInserts
  <2>2. made'.identity = made.identity + 1 /\ made'.identity \in Identities
        /\ made'.identity \in 0 .. MaxIdentities
    BY <1>1, <2>1, FilingBounds DEF FilingTables, Identities
  <2>3. [doc |-> task[t].doc, data |-> task[t].data] \in IdentityRow
    BY <2>1 DEF IdentityRow
  <2>4. \A i \in Identities :
          identity'[i] = IF i = made'.identity
                         THEN [doc |-> task[t].doc, data |-> task[t].data] ELSE identity[i]
    BY <1>1, <2>1, <2>2 DEF FilingTables
  <2>5. \A i \in Identities : identity[i] # None => identity'[i] # None
    BY <2>3, <2>4, NoneFacts
  <2>6. FilingTables'
    <3>1. identity' \in [Identities -> IdentityRow \cup {None}]
      BY <1>1, <2>1, <2>3 DEF FilingTables
    <3>2. made' \in [identity : 0 .. MaxIdentities, link : 0 .. MaxLinks,
                     batch : 0 .. MaxBatches]
      BY <1>1, <2>1, <2>2 DEF FilingTables
    <3>. QED
      BY <1>1, <2>1, <3>1, <3>2 DEF FilingTables
  <2>7. ForeignKeys'
    <3>1. \A l \in Links : link[l] # None => link[l].who \in Identities
      BY <1>1 DEF FilingTables, LinkRow
    <3>. QED
      BY <1>1, <2>1, <2>5, <3>1 DEF ForeignKeys, EntriesOf
  <2>8. FilingRest' /\ task' \in [Tasks -> Task]
    BY <1>1, <2>1, GotoFacts, TaskMembers DEF FilingRest
  <2>. QED
    BY <2>6, <2>7, <2>8, FilingPartsNext
<1>. QED
  BY <1>2, <1>3, <1>4

LEMMA DiscardTypes ==
  ASSUME FilingTypeOK, NEW i \in Identities, Discard(i)
  PROVE  FilingTypeOK'
<1>1. FilingTables /\ ForeignKeys /\ FilingRest /\ task \in [Tasks -> Task]
  BY FilingParts
<1>2. /\ identity' = [identity EXCEPT ![i] = None]
      /\ \A l \in Links : link[l] # None => link[l].who # i
      /\ UNCHANGED <<link, batch, entry, made, file, minute, panel, portal, task,
                     wrote, counted, reused>>
  BY DEF Discard
<1>3. FilingTables'
  BY <1>1, <1>2 DEF FilingTables
<1>4. ForeignKeys'
  <2>1. \A j \in Identities : j # i => identity'[j] = identity[j]
    BY <1>1, <1>2 DEF FilingTables
  <2>2. \A l \in Links : link[l] # None => link[l].who \in Identities
    BY <1>1 DEF FilingTables, LinkRow
  <2>. QED
    BY <1>1, <1>2, <2>1, <2>2 DEF ForeignKeys, EntriesOf
<1>5. FilingRest' /\ task' \in [Tasks -> Task]
  BY <1>1, <1>2 DEF FilingRest
<1>. QED
  BY <1>3, <1>4, <1>5, FilingPartsNext

\* The commands on links.
LEMMA InsertLinkTypes ==
  ASSUME FilingTypeOK, NEW i \in Identities, NEW s \in Stays, NEW r \in Versions,
         InsertLink(i, s, r)
  PROVE  FilingTypeOK'
<1>1. FilingTables /\ ForeignKeys /\ FilingRest /\ task \in [Tasks -> Task]
  BY FilingParts
<1>2. /\ identity[i] # None
      /\ UNCHANGED <<identity, batch, entry, file, minute, panel, portal, task,
                     wrote, counted, reused>>
  BY DEF InsertLink
<1>3. PICK n \in Links, changed \in LinkRow :
        /\ link' = [link EXCEPT ![n] = changed] /\ changed.who = i
        /\ \/ UNCHANGED made
           \/ made' = [made EXCEPT !.link = n] /\ n \in 0 .. MaxLinks
  <2>1. CASE \E l \in Links : /\ link[l] # None /\ link[l].who = i
                              /\ link' = [link EXCEPT ![l].reason = r] /\ UNCHANGED made
    <3>1. PICK l \in Links : /\ link[l] # None /\ link[l].who = i
                             /\ link' = [link EXCEPT ![l].reason = r] /\ UNCHANGED made
      BY <2>1
    <3>2. link[l] \in LinkRow
      BY <1>1, <3>1 DEF FilingTables
    <3>3. /\ [link[l] EXCEPT !.reason = r] \in LinkRow
          /\ [link[l] EXCEPT !.reason = r].who = i
      BY <3>1, <3>2 DEF LinkRow
    <3>4. link' = [link EXCEPT ![l] = [link[l] EXCEPT !.reason = r]]
      BY <3>1
    <3>. QED
      BY <3>1, <3>3, <3>4
  <2>2. CASE /\ made.link < MaxLinks /\ made' = [made EXCEPT !.link = @ + 1]
             /\ link' = [link EXCEPT ![made'.link] = [who |-> i, stay |-> s, reason |-> r]]
    <3>1. made'.link = made.link + 1 /\ made' = [made EXCEPT !.link = made'.link]
      BY <1>1, <2>2 DEF FilingTables
    <3>2. made'.link \in Links /\ made'.link \in 0 .. MaxLinks
      BY <1>1, <2>2, <3>1, FilingBounds DEF FilingTables, Links
    <3>3. [who |-> i, stay |-> s, reason |-> r] \in LinkRow
      BY DEF LinkRow
    <3>. QED
      BY <2>2, <3>1, <3>2, <3>3
  <2>. QED
    BY <2>1, <2>2 DEF InsertLink
<1>4. \A l \in Links : link'[l] = IF l = n THEN changed ELSE link[l]
  BY <1>1, <1>3 DEF FilingTables
<1>5. FilingTables'
  <2>1. link' \in [Links -> LinkRow \cup {None}]
    BY <1>1, <1>3 DEF FilingTables
  <2>2. made' \in [identity : 0 .. MaxIdentities, link : 0 .. MaxLinks,
                   batch : 0 .. MaxBatches]
    BY <1>1, <1>3 DEF FilingTables
  <2>. QED
    BY <1>1, <1>2, <2>1, <2>2 DEF FilingTables
<1>6. ForeignKeys'
  <2>1. changed # None
    BY <1>3, NoneFacts
  <2>2. \A b \in Batches : EntriesOf(b) \subseteq Links
    BY DEF EntriesOf
  <2>. QED
    BY <1>1, <1>2, <1>3, <1>4, <2>1, <2>2 DEF ForeignKeys, EntriesOf
<1>7. FilingRest' /\ task' \in [Tasks -> Task]
  BY <1>1, <1>2 DEF FilingRest
<1>. QED
  BY <1>5, <1>6, <1>7, FilingPartsNext

LEMMA UnlinkTypes ==
  ASSUME FilingTypeOK, NEW t \in Tasks,
         (\E l \in Links : UnlinkLooks(t, l)) \/ UnlinkDeletes(t)
  PROVE  FilingTypeOK'
<1>1. FilingTables /\ ForeignKeys /\ FilingRest /\ task \in [Tasks -> Task]
  BY FilingParts
<1>2. ASSUME NEW l \in Links, UnlinkLooks(t, l)
      PROVE  FilingTypeOK'
  <2>1. /\ UNCHANGED <<tables, file, minute, panel, portal, wrote, counted, reused>>
        /\ Goto(t, [pc |-> "unlink", link |-> l])
    BY <1>2 DEF UnlinkLooks
  <2>2. [pc |-> "unlink", link |-> l] \in Task
    BY TaskMembers
  <2>3. task' \in [Tasks -> Task]
    BY <1>1, <2>1, <2>2, GotoFacts
  <2>4. FilingTables' /\ ForeignKeys' /\ FilingRest'
    BY <1>1, <2>1 DEF FilingTables, ForeignKeys, FilingRest, EntriesOf, tables
  <2>. QED
    BY <2>3, <2>4, FilingPartsNext
<1>3. ASSUME UnlinkDeletes(t)
      PROVE  FilingTypeOK'
  <2>1. PICK l \in Links : /\ entry' = {e \in entry : e[2] # l}
                           /\ link' = [link EXCEPT ![l] = None]
    BY <1>1, <1>3, TaskFields DEF UnlinkDeletes
  <2>2. /\ UNCHANGED <<identity, batch, made, file, minute, panel, portal,
                       wrote, counted, reused>>
        /\ Goto(t, Idle)
    BY <1>3 DEF UnlinkDeletes
  <2>3. FilingTables'
    BY <1>1, <2>1, <2>2 DEF FilingTables
  <2>4. ForeignKeys'
    <3>1. \A k \in Links : link'[k] = IF k = l THEN None ELSE link[k]
      BY <1>1, <2>1 DEF FilingTables
    <3>2. \A b \in Batches : \A k \in Links :
            <<b, k>> \in entry' => k # l /\ <<b, k>> \in entry
      BY <2>1
    <3>3. \A b \in Batches : \A k \in Links :
            <<b, k>> \in entry' => batch'[b] # None /\ link'[k] # None
      BY <1>1, <2>2, <3>1, <3>2 DEF ForeignKeys, EntriesOf
    <3>. QED
      BY <1>1, <2>2, <3>1, <3>3 DEF ForeignKeys, EntriesOf
  <2>5. FilingRest' /\ task' \in [Tasks -> Task]
    BY <1>1, <2>2, GotoFacts, TaskMembers DEF FilingRest
  <2>. QED
    BY <2>3, <2>4, <2>5, FilingPartsNext
<1>. QED
  BY <1>2, <1>3

\* The statements of an export.
LEMMA ExportTypes ==
  ASSUME FilingTypeOK, NEW t \in Tasks,
         \/ \E ids \in SUBSET (1 .. made.link) : ExportLoads(t, ids)
         \/ ExportWrites(t) \/ ExportFails(t)
  PROVE  FilingTypeOK'
<1>1. FilingTables /\ ForeignKeys /\ FilingRest /\ task \in [Tasks -> Task]
  BY FilingParts
<1>2. ASSUME NEW ids \in SUBSET (1 .. made.link), ExportLoads(t, ids)
      PROVE  FilingTypeOK'
  <2>1. PICK rows : /\ rows = {RowOf(l) : l \in {k \in ids : link[k] # None}}
                    /\ Goto(t, [pc |-> "write", ids |-> ids, rows |-> rows])
    BY <1>2 DEF ExportLoads
  <2>2. UNCHANGED <<tables, file, minute, panel, portal, wrote, counted, reused>>
    BY <1>2 DEF ExportLoads
  <2>3. ids \in SUBSET Links
    BY <1>1, FilingBounds DEF FilingTables, Links
  <2>4. rows \in Files
    <3>1. rows \subseteq FileRow
      BY <1>1, <2>1, <2>3, RowOfType
    <3>2. IsFiniteSet({k \in ids : link[k] # None})
      <4>1. IsFiniteSet(Links)
        BY FS_Interval, FilingBounds, 1 \in Int, MaxLinks \in Int DEF Links
      <4>2. {k \in ids : link[k] # None} \subseteq Links
        BY <2>3
      <4>. QED
        BY <4>1, <4>2, FS_Subset
    <3>3. IsFiniteSet(rows)
      <4> DEFINE S == {k \in ids : link[k] # None}
                 f == [k \in S |-> RowOf(k)]
      <4>1. f \in Surjection(S, rows)
        BY <2>1 DEF Surjection
      <4>. HIDE DEF f
      <4>. QED
        BY <3>2, <4>1, FS_Surjection
    <3>. QED
      BY <3>1, <3>3 DEF Files
  <2>5. [pc |-> "write", ids |-> ids, rows |-> rows] \in Task
    BY <2>3, <2>4, TaskMembers
  <2>6. task' \in [Tasks -> Task]
    BY <1>1, <2>1, <2>5, GotoFacts
  <2>7. FilingTables' /\ ForeignKeys' /\ FilingRest'
    BY <1>1, <2>2 DEF FilingTables, ForeignKeys, FilingRest, EntriesOf, tables
  <2>. QED
    BY <2>6, <2>7, FilingPartsNext
<1>3. ASSUME ExportWrites(t) \/ ExportFails(t)
      PROVE  FilingTypeOK'
  <2>1. /\ task[t].ids \in SUBSET Links /\ task[t].rows \in Files
        /\ minute \in Minutes
    BY <1>1, <1>3, TaskFields DEF ExportWrites, ExportFails, FilingRest
  <2>2. /\ UNCHANGED <<tables, minute, panel, portal, wrote, counted>>
        /\ \/ Goto(t, [pc |-> "batch", ids |-> task[t].ids, rows |-> task[t].rows,
                       path |-> minute])
           \/ Goto(t, Idle)
        /\ \/ UNCHANGED <<file, reused>>
           \/ /\ \E rows \in Files : file' = [file EXCEPT ![minute] = rows]
              /\ reused' \subseteq reused \cup {minute}
    BY <1>3, <2>1, FilesFacts DEF ExportWrites, ExportFails
  <2>3. task' \in [Tasks -> Task]
    <3>1. [pc |-> "batch", ids |-> task[t].ids, rows |-> task[t].rows,
           path |-> minute] \in Task /\ Idle \in Task
      BY <2>1, TaskMembers
    <3>. QED
      BY <1>1, <2>2, <3>1, GotoFacts
  <2>4. file' \in [Minutes -> Files] /\ reused' \subseteq Minutes
    BY <1>1, <2>1, <2>2 DEF FilingRest
  <2>5. FilingTables' /\ ForeignKeys'
    BY <1>1, <2>2 DEF FilingTables, ForeignKeys, EntriesOf, tables
  <2>6. FilingRest'
    BY <1>1, <2>2, <2>4 DEF FilingRest
  <2>. QED
    BY <2>3, <2>5, <2>6, FilingPartsNext
<1>. QED
  BY <1>2, <1>3

LEMMA InsertBatchTypes ==
  ASSUME FilingTypeOK, NEW t \in Tasks, InsertBatch(t)
  PROVE  FilingTypeOK'
<1>1. FilingTables /\ ForeignKeys /\ FilingRest /\ task \in [Tasks -> Task]
  BY FilingParts
<1>2. /\ task[t].ids \in SUBSET Links /\ task[t].rows \in Files
      /\ task[t].path \in Minutes
  BY <1>1, TaskFields DEF InsertBatch
<1>3. /\ made.batch < MaxBatches /\ made' = [made EXCEPT !.batch = @ + 1]
      /\ batch' = [batch EXCEPT ![made'.batch] =
           [path |-> task[t].path, count |-> Cardinality(task[t].rows),
            status |-> "exported"]]
      /\ wrote' = [wrote EXCEPT ![made'.batch] = task[t].rows]
      /\ Goto(t, [pc |-> "entries", ids |-> task[t].ids, batch |-> made'.batch])
      /\ UNCHANGED <<identity, link, entry, file, minute, panel, portal, counted, reused>>
  BY DEF InsertBatch
<1>4. PICK n : n = made'.batch
  OBVIOUS
<1>5. n = made.batch + 1 /\ n \in Batches /\ n \in 0 .. MaxBatches
  BY <1>1, <1>3, <1>4, FilingBounds DEF FilingTables, Batches
<1>6. PICK bat \in BatchRow : batch' = [batch EXCEPT ![n] = bat]
  <2>1. Cardinality(task[t].rows) \in Nat
    BY <1>2, FilesFacts
  <2>2. [path |-> task[t].path, count |-> Cardinality(task[t].rows),
         status |-> "exported"] \in BatchRow
    BY <1>2, <2>1 DEF BatchRow
  <2>. QED
    BY <1>3, <1>4, <2>2
<1>7. FilingTables'
  <2>1. batch' \in [Batches -> BatchRow \cup {None}]
    BY <1>1, <1>6 DEF FilingTables
  <2>2. made' \in [identity : 0 .. MaxIdentities, link : 0 .. MaxLinks,
                   batch : 0 .. MaxBatches]
    BY <1>1, <1>3, <1>4, <1>5 DEF FilingTables
  <2>. QED
    BY <1>1, <1>3, <2>1, <2>2 DEF FilingTables
<1>8. ForeignKeys'
  <2>1. \A b \in Batches : batch'[b] = IF b = n THEN bat ELSE batch[b]
    BY <1>1, <1>6 DEF FilingTables
  <2>2. bat # None
    BY <1>6, NoneFacts
  <2>. QED
    BY <1>1, <1>3, <2>1, <2>2 DEF ForeignKeys, EntriesOf
<1>9. FilingRest'
  <2>1. wrote' \in [Batches -> Files]
    BY <1>1, <1>2, <1>3, <1>4, <1>5 DEF FilingRest
  <2>. QED
    BY <1>1, <1>3, <2>1 DEF FilingRest
<1>10. task' \in [Tasks -> Task]
  <2>1. [pc |-> "entries", ids |-> task[t].ids, batch |-> n] \in Task
    BY <1>2, <1>5, TaskMembers
  <2>. QED
    BY <1>1, <1>3, <1>4, <2>1, GotoFacts
<1>. QED
  BY <1>7, <1>8, <1>9, <1>10, FilingPartsNext

LEMMA InsertEntriesTypes ==
  ASSUME FilingTypeOK, NEW t \in Tasks, InsertEntries(t),
         At(t, "entries") => batch[task[t].batch] # None
  PROVE  FilingTypeOK'
<1>1. FilingTables /\ ForeignKeys /\ FilingRest /\ task \in [Tasks -> Task]
  BY FilingParts
<1>2. /\ At(t, "entries") /\ task[t].ids \subseteq Links /\ task[t].batch \in Batches
      /\ Goto(t, Idle)
      /\ UNCHANGED <<identity, link, batch, made, file, minute, wrote, counted, reused>>
  BY <1>1, TaskFields DEF InsertEntries
<1>3. \/ UNCHANGED <<entry, panel, portal>>
      \/ /\ \A l \in task[t].ids : link[l] # None
         /\ entry' = entry \cup ({task[t].batch} \X task[t].ids)
         /\ panel' = task[t].batch /\ portal' = {}
  BY DEF InsertEntries, Show
<1>4. FilingTables'
  BY <1>1, <1>2, <1>3 DEF FilingTables
<1>5. ForeignKeys'
  <2>1. \A b \in Batches : \A l \in Links :
          <<b, l>> \in entry' => \/ <<b, l>> \in entry
                                 \/ b = task[t].batch /\ link[l] # None
    BY <1>3
  <2>2. \A b \in Batches : \A l \in Links :
          <<b, l>> \in entry' => batch[b] # None /\ link[l] # None
    BY <1>1, <1>2, <2>1 DEF ForeignKeys, EntriesOf
  <2>. QED
    BY <1>1, <1>2, <2>2 DEF ForeignKeys, EntriesOf
<1>6. FilingRest' /\ task' \in [Tasks -> Task]
  BY <1>1, <1>2, <1>3, GotoFacts, TaskMembers, FilesFacts DEF FilingRest
<1>. QED
  BY <1>4, <1>5, <1>6, FilingPartsNext

\* What happens on the page, at the portal and to the process.
LEMMA PageTypes ==
  ASSUME FilingTypeOK,
         \/ \E b \in Batches : batch[b] # None /\ (Upload(b) \/ Reconcile(b))
         \/ ClosePage \/ MinutePasses \/ Crash
  PROVE  FilingTypeOK'
<1>1. FilingTables /\ ForeignKeys /\ FilingRest /\ task \in [Tasks -> Task]
  BY FilingParts
<1>2. ASSUME NEW b \in Batches, Reconcile(b), batch[b] # None
      PROVE  FilingTypeOK'
  <2>1. PICK s \in {"verified", "failed"}, seen \in Files :
          /\ batch' = [batch EXCEPT ![b].status = s]
          /\ counted' = [counted EXCEPT ![b] = seen]
    BY <1>1, <1>2, FilesFacts DEF Reconcile, FilingRest
  <2>2. UNCHANGED <<identity, link, entry, made, file, minute, panel, portal, task,
                    wrote, reused>>
    BY <1>2 DEF Reconcile
  <2>3. PICK bat \in BatchRow : batch' = [batch EXCEPT ![b] = bat]
    <3>1. batch[b] \in BatchRow
      BY <1>1, <1>2 DEF FilingTables
    <3>2. [batch[b] EXCEPT !.status = s] \in BatchRow
      BY <3>1 DEF BatchRow
    <3>3. batch' = [batch EXCEPT ![b] = [batch[b] EXCEPT !.status = s]]
      BY <2>1
    <3>. QED
      BY <3>2, <3>3
  <2>4. FilingTables'
    BY <1>1, <2>2, <2>3 DEF FilingTables
  <2>5. ForeignKeys'
    <3>1. \A c \in Batches : batch'[c] = IF c = b THEN bat ELSE batch[c]
      BY <1>1, <2>3 DEF FilingTables
    <3>2. bat # None
      BY <2>3, NoneFacts
    <3>. QED
      BY <1>1, <2>2, <3>1, <3>2 DEF ForeignKeys, EntriesOf
  <2>6. FilingRest' /\ task' \in [Tasks -> Task]
    BY <1>1, <2>1, <2>2 DEF FilingRest
  <2>. QED
    BY <2>4, <2>5, <2>6, FilingPartsNext
<1>3. ASSUME \/ \E b \in Batches : batch[b] # None /\ Upload(b)
             \/ ClosePage \/ MinutePasses \/ Crash
      PROVE  FilingTypeOK'
  <2>1. UNCHANGED <<tables, file, wrote, counted, reused>>
    BY <1>3 DEF Upload, ClosePage, MinutePasses, Crash
  <2>2. task' \in [Tasks -> Task]
    BY <1>1, <1>3, TaskMembers DEF Upload, ClosePage, MinutePasses, Crash
  <2>3. minute' \in Minutes
    <3>1. minute \in Nat /\ minute >= 1 /\ minute <= MaxMinute
      BY <1>1, FilingBounds DEF FilingRest, Minutes
    <3>. QED
      BY <1>1, <1>3, <3>1, FilingBounds DEF Upload, ClosePage, MinutePasses, Crash, Minutes
  <2>4. panel' \in Batches \cup {None} /\ portal' \in Files
    <3>1. ASSUME NEW b \in Batches, batch[b] # None, Upload(b)
          PROVE  panel' \in Batches \cup {None} /\ portal' \in Files
      <4>1. panel = b /\ panel' = panel
            /\ \E taken \in SUBSET file[batch[b].path] : portal' = taken
        BY <3>1 DEF Upload
      <4>2. file[batch[b].path] \in Files
        <5>1. batch[b] \in BatchRow
          BY <1>1, <3>1 DEF FilingTables
        <5>2. batch[b].path \in Minutes
          BY <5>1 DEF BatchRow
        <5>. QED
          BY <1>1, <5>2 DEF FilingRest
      <4>. QED
        BY <1>1, <4>1, <4>2, FilesFacts DEF FilingRest
    <3>2. ASSUME ClosePage \/ MinutePasses \/ Crash
          PROVE  panel' \in Batches \cup {None} /\ portal' \in Files
      BY <1>1, <3>2, FilesFacts DEF ClosePage, MinutePasses, Crash, Show, FilingRest
    <3>. QED
      BY <1>3, <3>1, <3>2
  <2>5. FilingTables' /\ ForeignKeys'
    BY <1>1, <2>1 DEF FilingTables, ForeignKeys, EntriesOf, tables
  <2>6. FilingRest'
    BY <1>1, <2>1, <2>3, <2>4 DEF FilingRest
  <2>. QED
    BY <2>2, <2>5, <2>6, FilingPartsNext
<1>. QED
  BY <1>2, <1>3

-----------------------------------------------------------------------------
(* The declaration: what was filed. *)

LinksIn(rows) == {r.link : r \in rows}

\* Rows that a command loaded for the links it was asked for: those it has no
\* row of were gone by then, and stay gone.
Asked(ids, rows) ==
  /\ rows # {} /\ ids \subseteq 1 .. made.link /\ LinksIn(rows) \subseteq ids
  /\ \A l \in ids : l \in LinksIn(rows) \/ link[l] = None

\* The entries of a batch are the links its file was made of that are left.
Whole(b) == EntriesOf(b) = {l \in LinksIn(wrote[b]) : link[l] # None}

\* A batch whose entries are not inserted, nor ever will be once its command is
\* over.
Bare(b) == EntriesOf(b) = {} /\ panel # b /\ ~Verified(b)

LinksAreNew == \A l \in Links : l > made.link => link[l] = None

\* A file that no later export took the name of holds what its batch was made of.
BatchOK(b) ==
  IF b > made.batch THEN batch[b] = None /\ Bare(b)
  ELSE /\ batch[b] # None
       /\ wrote[b] # {} /\ LinksIn(wrote[b]) \subseteq 1 .. made.link
       /\ batch[b].count = Cardinality(wrote[b])
       /\ batch[b].path \notin reused => file[batch[b].path] = wrote[b]

\* What the page shows and the portal took, and what was counted, is of a whole
\* batch.
CountOK(b) ==
  /\ Bare(b) \/ Whole(b)
  /\ panel = b /\ batch[b].path \notin reused => portal \subseteq wrote[b]
  /\ Verified(b) /\ batch[b].path \notin reused => counted[b] = wrote[b]

TaskOK(t) ==
  /\ At(t, "write") => Asked(task[t].ids, task[t].rows)
  /\ At(t, "batch") =>
       /\ Asked(task[t].ids, task[t].rows)
       /\ task[t].path \notin reused => file[task[t].path] = task[t].rows
  /\ At(t, "entries") =>
       /\ task[t].batch <= made.batch /\ Bare(task[t].batch)
       /\ Asked(task[t].ids, wrote[task[t].batch])

\* A batch is of one command.
OneCommand ==
  \A t, u \in Tasks :
    At(t, "entries") /\ At(u, "entries") /\ t # u => task[t].batch # task[u].batch

FilingInv ==
  /\ FilingTypeOK
  /\ LinksAreNew
  /\ \A b \in Batches : BatchOK(b) /\ CountOK(b)
  /\ \A t \in Tasks : TaskOK(t)
  /\ OneCommand

LEMMA InitFilingInv == FilingInit => FilingInv
<1>. SUFFICES ASSUME FilingInit PROVE FilingInv
  OBVIOUS
<1>1. \A b \in Batches : BatchOK(b) /\ CountOK(b)
  <2>. SUFFICES ASSUME NEW b \in Batches PROVE BatchOK(b) /\ CountOK(b)
    OBVIOUS
  <2>1. b \in Nat /\ b > 0 /\ b # None
    BY FilingBounds, DeclarationAssumption DEF Batches
  <2>2. Bare(b) /\ batch[b] = None /\ made.batch = 0 /\ panel = None
    BY <2>1 DEF FilingInit, Bare, EntriesOf, Verified
  <2>. QED
    BY <2>1, <2>2 DEF BatchOK, CountOK, Verified
<1>2. LinksAreNew /\ (\A t \in Tasks : TaskOK(t)) /\ OneCommand
  BY DEF FilingInit, LinksAreNew, TaskOK, OneCommand, At, Idle
<1>. QED
  BY <1>1, <1>2, InitFilingTypes DEF FilingInv

LEMMA MadeTypes ==
  ASSUME FilingInv
  PROVE  /\ made.link \in 0 .. MaxLinks /\ made.batch \in 0 .. MaxBatches
         /\ FilingTables /\ ForeignKeys /\ FilingRest /\ task \in [Tasks -> Task]
         /\ \A b \in Batches : b \in Nat
         /\ \A l \in Links : l \in Nat
BY FilingParts, FilingBounds DEF FilingInv, FilingTables, Batches, Links

\* Where only identities, the clock and locals that name no rows change.
LEMMA QuietInv ==
  ASSUME FilingInv, FilingTypeOK',
         UNCHANGED <<link, batch, entry, file, panel, portal, wrote, counted, reused>>,
         made'.link = made.link, made'.batch = made.batch,
         \A t \in Tasks : \/ task'[t] = task[t]
                          \/ task'[t].pc \notin {"write", "batch", "entries"}
  PROVE  FilingInv'
<1>1. LinksAreNew'
  BY DEF FilingInv, LinksAreNew
<1>2. \A b \in Batches : (BatchOK(b) /\ CountOK(b))'
  BY DEF FilingInv, BatchOK, CountOK, Bare, Whole, EntriesOf, Verified, LinksIn
<1>3. \A t \in Tasks : TaskOK(t)'
  BY DEF FilingInv, TaskOK, Asked, Bare, EntriesOf, Verified, LinksIn, At
<1>4. OneCommand'
  BY DEF FilingInv, OneCommand, At
<1>. QED
  BY <1>1, <1>2, <1>3, <1>4 DEF FilingInv

LEMMA PageInv ==
  ASSUME FilingInv, FilingTypeOK', (\E b \in Batches : Upload(b)) \/ ClosePage \/ Crash
  PROVE  FilingInv'
<1>1. UNCHANGED <<tables, file, minute, wrote, counted, reused>>
  BY DEF Upload, ClosePage, Crash
<1>2. \A t \in Tasks : task'[t] = task[t] \/ task'[t] = Idle
  BY DEF Upload, ClosePage, Crash
<1>3. \A b \in Batches : panel' = b => panel = b
  <2>1. ASSUME panel' = None
        PROVE  \A b \in Batches : panel' # b
    BY <2>1, NoneFacts, DeclarationAssumption DEF Batches
  <2>. QED
    BY <2>1 DEF Upload, ClosePage, Crash, Show
<1>4. \A b \in Batches : BatchOK(b)'
  BY <1>1, <1>3 DEF FilingInv, BatchOK, Bare, EntriesOf, Verified, LinksIn, tables
<1>5. ASSUME NEW b \in Batches
      PROVE  CountOK(b)'
  <2>1. (Bare(b) => Bare(b)') /\ (Whole(b) => Whole(b)')
    BY <1>1, <1>3 DEF Bare, Whole, EntriesOf, Verified, LinksIn, tables
  <2>2. ASSUME panel' = b, batch[b].path \notin reused
        PROVE  portal' \subseteq wrote[b]
    <3>1. panel = b /\ portal \subseteq wrote[b]
      BY <1>3, <2>2 DEF FilingInv, CountOK
    <3>2. ~(b > made.batch)
      BY <3>1 DEF FilingInv, BatchOK, Bare
    <3>3. file[batch[b].path] = wrote[b]
      BY <2>2, <3>2 DEF FilingInv, BatchOK
    <3>4. ASSUME NEW c \in Batches, Upload(c)
          PROVE  portal' \subseteq wrote[b]
      BY <3>1, <3>3, <3>4 DEF Upload
    <3>. QED
      BY <3>1, <3>4 DEF ClosePage, Crash, Show
  <2>. QED
    BY <1>1, <2>1, <2>2 DEF FilingInv, CountOK, Verified, tables
<1>6. \A t \in Tasks : TaskOK(t)'
  <2>1. ASSUME NEW t \in Tasks, task'[t] = task[t]
        PROVE  TaskOK(t)'
    <3>1. At(t, "entries") => task[t].batch \in Batches
      BY MadeTypes, TaskFields
    <3>2. \A b \in Batches : Bare(b) => Bare(b)'
      BY <1>1, <1>3 DEF Bare, EntriesOf, Verified, tables
    <3>. QED
      BY <1>1, <2>1, <3>1, <3>2 DEF FilingInv, TaskOK, Asked, LinksIn, At, tables
  <2>2. ASSUME NEW t \in Tasks, task'[t] = Idle
        PROVE  TaskOK(t)'
    BY <2>2 DEF TaskOK, At, Idle
  <2>. QED
    BY <1>2, <2>1, <2>2
<1>7. LinksAreNew' /\ OneCommand'
  BY <1>1, <1>2 DEF FilingInv, LinksAreNew, OneCommand, At, Idle, tables
<1>. QED
  BY <1>4, <1>5, <1>6, <1>7 DEF FilingInv

\* A new link has a number that no file knows.
LEMMA InsertLinkInv ==
  ASSUME FilingInv, FilingTypeOK', NEW i \in Identities, NEW s \in Stays,
         NEW r \in Versions, InsertLink(i, s, r)
  PROVE  FilingInv'
<1>1. /\ UNCHANGED <<identity, batch, entry, file, minute, panel, portal, task,
                     wrote, counted, reused>>
      /\ made'.batch = made.batch
  BY MadeTypes DEF InsertLink, FilingTables
<1>2. /\ made'.link \in Nat /\ made.link \in Nat /\ made.link <= made'.link
      /\ \A l \in Links : l <= made.link => (link'[l] = None <=> link[l] = None)
      /\ \A l \in Links : l > made'.link => link'[l] = link[l]
  <2>1. CASE \E l \in Links : /\ link[l] # None /\ UNCHANGED made
                              /\ link' = [link EXCEPT ![l].reason = r]
    <3>1. PICK k \in Links : /\ link[k] # None /\ UNCHANGED made
                             /\ link' = [link EXCEPT ![k].reason = r]
      BY <2>1
    <3>2. link[k] \in LinkRow
      BY <3>1, MadeTypes DEF FilingTables
    <3>3. [link[k] EXCEPT !.reason = r] \in LinkRow
      BY <3>2 DEF LinkRow
    <3>4. \A l \in Links :
            link'[l] = IF l = k THEN [link[k] EXCEPT !.reason = r] ELSE link[l]
      BY <3>1, MadeTypes DEF FilingTables
    <3>5. k <= made.link
      BY <3>1, MadeTypes DEF FilingInv, LinksAreNew
    <3>6. made.link \in Nat
      BY MadeTypes
    <3>. QED
      BY <3>1, <3>3, <3>4, <3>5, <3>6, NoneFacts, MadeTypes
  <2>2. CASE /\ made' = [made EXCEPT !.link = @ + 1]
             /\ link' = [link EXCEPT ![made'.link] = [who |-> i, stay |-> s, reason |-> r]]
    <3>1. made'.link = made.link + 1 /\ made.link \in Nat
      BY <2>2, MadeTypes DEF FilingTables
    <3>2. \A l \in Links : l # made'.link => link'[l] = link[l]
      BY <2>2, MadeTypes DEF FilingTables
    <3>. QED
      BY <3>1, <3>2, MadeTypes
  <2>. QED
    BY <2>1, <2>2 DEF InsertLink
<1>3. LinksAreNew'
  BY <1>2, MadeTypes DEF FilingInv, LinksAreNew
<1>4. ASSUME NEW b \in Batches
      PROVE  (BatchOK(b) /\ CountOK(b))'
  <2>1. BatchOK(b)'
    <3>1. LinksIn(wrote[b]) \subseteq 1 .. made.link
            => LinksIn(wrote[b]) \subseteq 1 .. made'.link
      BY <1>2
    <3>. QED
      BY <1>1, <3>1 DEF FilingInv, BatchOK, Bare, EntriesOf, Verified, LinksIn
  <2>2. Bare(b) => Bare(b)'
    BY <1>1 DEF Bare, EntriesOf, Verified
  <2>3. Whole(b) /\ ~Bare(b) => Whole(b)'
    <3>1. ASSUME ~Bare(b)
          PROVE  \A l \in LinksIn(wrote[b]) : l \in Links /\ l <= made.link
      <4>1. LinksIn(wrote[b]) \subseteq 1 .. made.link
        BY <3>1 DEF FilingInv, BatchOK
      <4>2. made.link \in 0 .. MaxLinks
        BY MadeTypes
      <4>. QED
        BY <4>1, <4>2, FilingBounds DEF Links
    <3>. QED
      BY <1>1, <1>2, <3>1 DEF Whole, EntriesOf, LinksIn
  <2>. QED
    BY <1>1, <2>1, <2>2, <2>3 DEF FilingInv, CountOK, Verified
<1>5. \A t \in Tasks : TaskOK(t)'
  <2>1. ASSUME NEW ids, NEW rows, Asked(ids, rows)
        PROVE  Asked(ids, rows)'
    <3>1. made.link \in 0 .. MaxLinks
      BY MadeTypes
    <3>2. \A l \in ids : l \in Links /\ l <= made.link
      BY <2>1, <3>1, FilingBounds DEF Asked, Links
    <3>3. ids \subseteq 1 .. made'.link
      BY <1>2, <2>1 DEF Asked
    <3>. QED
      BY <1>2, <2>1, <3>2, <3>3 DEF Asked, LinksIn
  <2>2. \A b : Bare(b) => Bare(b)'
    BY <1>1 DEF Bare, EntriesOf, Verified
  <2>. QED
    BY <1>1, <2>1, <2>2 DEF FilingInv, TaskOK, At
<1>6. OneCommand'
  BY <1>1 DEF FilingInv, OneCommand, At
<1>. QED
  BY <1>3, <1>4, <1>5, <1>6 DEF FilingInv

\* A link is deleted with its entries.
LEMMA UnlinkInv ==
  ASSUME FilingInv, FilingTypeOK', NEW t \in Tasks, UnlinkDeletes(t)
  PROVE  FilingInv'
<1>1. PICK k \in Links : /\ entry' = {e \in entry : e[2] # k}
                         /\ link' = [link EXCEPT ![k] = None]
  BY MadeTypes, TaskFields DEF UnlinkDeletes
<1>2. /\ UNCHANGED <<identity, batch, made, file, minute, panel, portal,
                     wrote, counted, reused>>
      /\ task'[t] = Idle /\ \A u \in Tasks : u # t => task'[u] = task[u]
  BY MadeTypes, GotoFacts, TaskMembers DEF UnlinkDeletes
<1>3. \A l \in Links : link'[l] = IF l = k THEN None ELSE link[l]
  BY <1>1, MadeTypes DEF FilingTables
<1>4. \A b \in Batches : EntriesOf(b)' = EntriesOf(b) \ {k}
  <2>1. \A b \in Batches : \A l \in Links :
          <<b, l>> \in entry' <=> <<b, l>> \in entry /\ l # k
    BY <1>1
  <2>. QED
    BY <2>1 DEF EntriesOf
<1>5. LinksAreNew'
  BY <1>2, <1>3 DEF FilingInv, LinksAreNew
<1>6. \A b \in Batches : Bare(b) => Bare(b)'
  BY <1>2, <1>4 DEF Bare, Verified
<1>7. ASSUME NEW b \in Batches
      PROVE  (BatchOK(b) /\ CountOK(b))'
  <2>1. BatchOK(b)'
    BY <1>2, <1>6 DEF FilingInv, BatchOK, LinksIn
  <2>2. Whole(b) /\ ~Bare(b) => Whole(b)'
    <3>1. ASSUME ~Bare(b)
          PROVE  LinksIn(wrote[b]) \subseteq Links
      <4>1. LinksIn(wrote[b]) \subseteq 1 .. made.link
        BY <3>1 DEF FilingInv, BatchOK
      <4>2. made.link \in 0 .. MaxLinks
        BY MadeTypes
      <4>. QED
        BY <4>1, <4>2, FilingBounds DEF Links
    <3>2. ASSUME Whole(b), ~Bare(b)
          PROVE  EntriesOf(b) \ {k} = {l \in LinksIn(wrote[b]) : link'[l] # None}
      BY <1>3, <3>1, <3>2 DEF Whole
    <3>. QED
      BY <1>2, <1>4, <3>2 DEF Whole, LinksIn
  <2>. QED
    BY <1>2, <1>6, <2>1, <2>2 DEF FilingInv, CountOK, Verified
<1>8. \A u \in Tasks : TaskOK(u)'
  <2>1. ASSUME NEW ids, NEW rows, Asked(ids, rows)
        PROVE  Asked(ids, rows)'
    <3>1. ids \subseteq Links
      BY <2>1, MadeTypes, FilingBounds DEF Asked, Links
    <3>. QED
      BY <1>2, <1>3, <2>1, <3>1 DEF Asked, LinksIn
  <2>2. ASSUME NEW u \in Tasks, u # t
        PROVE  TaskOK(u)'
    <3>1. At(u, "entries") => task[u].batch \in Batches
      BY MadeTypes, TaskFields
    <3>. QED
      BY <1>2, <1>6, <2>1, <2>2, <3>1 DEF FilingInv, TaskOK, At
  <2>3. TaskOK(t)'
    BY <1>2 DEF TaskOK, At, Idle
  <2>. QED
    BY <2>2, <2>3
<1>9. OneCommand'
  BY <1>2 DEF FilingInv, OneCommand, At, Idle
<1>. QED
  BY <1>5, <1>7, <1>8, <1>9 DEF FilingInv

\* The rows of an export are those of the links that are there.
LEMMA ExportLoadsInv ==
  ASSUME FilingInv, FilingTypeOK', NEW t \in Tasks, NEW ids \in SUBSET (1 .. made.link),
         ExportLoads(t, ids)
  PROVE  FilingInv'
<1>1. PICK rows : /\ rows = {RowOf(l) : l \in {k \in ids : link[k] # None}}
                  /\ rows # {} /\ Goto(t, [pc |-> "write", ids |-> ids, rows |-> rows])
  BY DEF ExportLoads
<1>2. /\ UNCHANGED <<identity, link, batch, entry, made, file, minute, panel, portal,
                     wrote, counted, reused>>
      /\ task'[t] = [pc |-> "write", ids |-> ids, rows |-> rows]
      /\ \A u \in Tasks : u # t => task'[u] = task[u]
  BY <1>1, MadeTypes DEF ExportLoads, tables, Goto
<1>3. LinksAreNew'
  BY <1>2 DEF FilingInv, LinksAreNew
<1>4. \A b \in Batches : (BatchOK(b) /\ CountOK(b))'
  BY <1>2 DEF FilingInv, BatchOK, CountOK, Bare, Whole, EntriesOf, Verified, LinksIn
<1>5. Asked(ids, rows)
  <2>1. LinksIn(rows) = {k \in ids : link[k] # None}
    <3>1. \A l \in ids : RowOf(l).link = l
      BY DEF RowOf
    <3>. QED
      BY <1>1, <3>1 DEF LinksIn
  <2>. QED
    BY <1>1, <2>1 DEF Asked
<1>6. \A u \in Tasks : TaskOK(u)'
  <2>1. TaskOK(t)'
    BY <1>2, <1>5 DEF TaskOK, Asked, LinksIn, At
  <2>2. ASSUME NEW u \in Tasks, u # t
        PROVE  TaskOK(u)'
    BY <1>2, <2>2 DEF FilingInv, TaskOK, Asked, Bare, EntriesOf, Verified, LinksIn, At
  <2>. QED
    BY <2>1, <2>2
<1>7. OneCommand'
  BY <1>2 DEF FilingInv, OneCommand, At
<1>. QED
  BY <1>3, <1>4, <1>6, <1>7 DEF FilingInv

\* A file that is written again, or away, has a name that is reused.
LEMMA ExportFileInv ==
  ASSUME FilingInv, FilingTypeOK', NEW t \in Tasks, ExportWrites(t) \/ ExportFails(t)
  PROVE  FilingInv'
<1>1. /\ UNCHANGED <<identity, link, batch, entry, made, minute, panel, portal,
                     wrote, counted>>
      /\ At(t, "write") /\ minute \in Minutes
  BY MadeTypes DEF ExportWrites, ExportFails, tables, FilingRest
<1>2. \A u \in Tasks : u # t => task'[u] = task[u]
  BY MadeTypes DEF ExportWrites, ExportFails, Goto
<1>3. \/ task'[t] = Idle
      \/ /\ ExportWrites(t)
         /\ task'[t] = [pc |-> "batch", ids |-> task[t].ids, rows |-> task[t].rows,
                        path |-> minute]
  BY MadeTypes DEF ExportWrites, ExportFails, Goto
<1>4. /\ reused \subseteq reused'
      /\ \A m \in Minutes : m \notin reused' => file'[m] = file[m] \/ file[m] = {}
      /\ ExportWrites(t) => file'[minute] = task[t].rows
  <2>1. file \in [Minutes -> Files]
    BY MadeTypes DEF FilingRest
  <2>. QED
    BY <1>1, <2>1 DEF ExportWrites, ExportFails
<1>5. ASSUME NEW m \in Minutes, NEW rows, rows # {}, m \notin reused => file[m] = rows,
             m \notin reused'
      PROVE  file'[m] = rows
  BY <1>4, <1>5
<1>6. LinksAreNew'
  BY <1>1 DEF FilingInv, LinksAreNew
<1>7. ASSUME NEW b \in Batches
      PROVE  (BatchOK(b) /\ CountOK(b))'
  <2>1. CASE b > made.batch
    <3>1. batch[b] = None /\ Bare(b)
      BY <2>1 DEF FilingInv, BatchOK
    <3>2. Bare(b)' /\ batch'[b] = None
      BY <1>1, <3>1 DEF Bare, EntriesOf, Verified
    <3>3. panel' # b /\ ~Verified(b)'
      BY <3>2 DEF Bare
    <3>. QED
      BY <1>1, <2>1, <3>2, <3>3 DEF BatchOK, CountOK
  <2>2. CASE ~(b > made.batch)
    <3>1. batch[b] \in BatchRow /\ batch[b].path \in Minutes
      <4>1. batch[b] \in BatchRow
        BY <2>2, MadeTypes DEF FilingInv, BatchOK, FilingTables
      <4>. QED
        BY <4>1 DEF BatchRow
    <3>2. batch[b].path \notin reused' => file'[batch[b].path] = wrote[b]
      <4>1. wrote[b] # {} /\ (batch[b].path \notin reused => file[batch[b].path] = wrote[b])
        BY <2>2 DEF FilingInv, BatchOK
      <4>. QED
        BY <1>5, <3>1, <4>1
    <3>3. BatchOK(b)'
      BY <1>1, <2>2, <3>2 DEF FilingInv, BatchOK, LinksIn
    <3>4. CountOK(b)'
      BY <1>1, <1>4 DEF FilingInv, CountOK, Bare, Whole, EntriesOf, Verified, LinksIn
    <3>. QED
      BY <3>3, <3>4
  <2>. QED
    BY <2>1, <2>2
<1>8. \A ids, rows : Asked(ids, rows) => Asked(ids, rows)'
  BY <1>1 DEF Asked, LinksIn
<1>9. \A b : Bare(b) => Bare(b)'
  BY <1>1 DEF Bare, EntriesOf, Verified
<1>10. ASSUME NEW u \in Tasks, u # t
       PROVE  TaskOK(u)'
  <2>1. task'[u] = task[u]
    BY <1>2, <1>10
  <2>2. ASSUME At(u, "batch"), task[u].path \notin reused'
        PROVE  file'[task[u].path] = task[u].rows
    <3>1. task[u].path \in Minutes
      BY <2>2, MadeTypes, TaskFields
    <3>2. /\ task[u].rows # {}
          /\ task[u].path \notin reused => file[task[u].path] = task[u].rows
      BY <2>2 DEF FilingInv, TaskOK, Asked
    <3>. QED
      BY <1>5, <2>2, <3>1, <3>2
  <2>. QED
    BY <1>1, <1>8, <1>9, <2>1, <2>2 DEF FilingInv, TaskOK, At
<1>11. TaskOK(t)'
  <2>1. CASE task'[t] = Idle
    BY <2>1 DEF TaskOK, At, Idle
  <2>2. CASE /\ ExportWrites(t)
             /\ task'[t] = [pc |-> "batch", ids |-> task[t].ids, rows |-> task[t].rows,
                            path |-> minute]
    <3>1. Asked(task[t].ids, task[t].rows)'
      <4>1. Asked(task[t].ids, task[t].rows)
        BY <1>1 DEF FilingInv, TaskOK
      <4>2. PICK ids, rows : ids = task[t].ids /\ rows = task[t].rows
        OBVIOUS
      <4>3. Asked(ids, rows)'
        BY <1>8, <4>1, <4>2
      <4>4. task'[t].ids = ids /\ task'[t].rows = rows
        BY <2>2, <4>2
      <4>. QED
        BY <4>3, <4>4 DEF Asked, LinksIn
    <3>. QED
      BY <1>4, <2>2, <3>1 DEF TaskOK, At
  <2>. QED
    BY <1>3, <2>1, <2>2
<1>12. OneCommand'
  BY <1>2, <1>3 DEF FilingInv, OneCommand, At, Idle
<1>. QED
  BY <1>6, <1>7, <1>10, <1>11, <1>12 DEF FilingInv

\* A batch is inserted for the rows of a file.
LEMMA InsertBatchInv ==
  ASSUME FilingInv, FilingTypeOK', NEW t \in Tasks, InsertBatch(t)
  PROVE  FilingInv'
<1>1. PICK n, ids, rows, path :
        /\ n = made'.batch /\ ids = task[t].ids /\ rows = task[t].rows
        /\ path = task[t].path
  OBVIOUS
<1>2. /\ ids \in SUBSET Links /\ rows \in Files /\ path \in Minutes
      /\ Asked(ids, rows) /\ (path \notin reused => file[path] = rows)
  BY <1>1, MadeTypes, TaskFields DEF InsertBatch, FilingInv, TaskOK
<1>3. PICK bat : /\ bat.path = path /\ bat.count = Cardinality(rows)
                 /\ bat.status = "exported"
                 /\ batch' = [batch EXCEPT ![n] = bat]
  BY <1>1 DEF InsertBatch
<1>4. /\ made' = [made EXCEPT !.batch = @ + 1] /\ made.batch < MaxBatches
      /\ wrote' = [wrote EXCEPT ![n] = rows]
      /\ Goto(t, [pc |-> "entries", ids |-> ids, batch |-> n])
      /\ UNCHANGED <<identity, link, entry, file, minute, panel, portal, counted, reused>>
  BY <1>1 DEF InsertBatch
<1>5. /\ n = made.batch + 1 /\ n \in Batches /\ n > made.batch /\ made'.link = made.link
      /\ made.batch \in Nat
  BY <1>1, <1>4, MadeTypes, FilingBounds DEF FilingTables, Batches
<1>6. /\ task'[t] = [pc |-> "entries", ids |-> ids, batch |-> n]
      /\ \A u \in Tasks : u # t => task'[u] = task[u]
  BY <1>4, MadeTypes DEF Goto
<1>7. \A b \in Batches : /\ batch'[b] = IF b = n THEN bat ELSE batch[b]
                         /\ wrote'[b] = IF b = n THEN rows ELSE wrote[b]
  BY <1>3, <1>4, MadeTypes DEF FilingTables, FilingRest
<1>8. LinksAreNew'
  BY <1>4, <1>5 DEF FilingInv, LinksAreNew
<1>9. Bare(n)' /\ batch'[n] # None
  <2>1. Bare(n)
    BY <1>5 DEF FilingInv, BatchOK
  <2>2. batch'[n] # None
    <3>1. made.batch \in 0 .. MaxBatches
      BY MadeTypes
    <3>2. Cardinality(rows) \in Nat
      BY <1>2, FilesFacts
    <3>3. [path |-> path, count |-> Cardinality(rows), status |-> "exported"] \in BatchRow
      BY <1>2, <3>2 DEF BatchRow
    <3>4. batch' = [batch EXCEPT ![n] =
            [path |-> path, count |-> Cardinality(rows), status |-> "exported"]]
      BY <1>1 DEF InsertBatch
    <3>5. batch'[n] = [path |-> path, count |-> Cardinality(rows), status |-> "exported"]
      BY <1>5, <3>4, MadeTypes DEF FilingTables
    <3>. QED
      BY <3>3, <3>5, NoneFacts
  <2>. QED
    BY <1>3, <1>4, <1>5, <1>7, <2>1, <2>2 DEF Bare, EntriesOf, Verified
<1>10. \A b \in Batches : b # n => (Bare(b) => Bare(b)')
  BY <1>4, <1>7 DEF Bare, EntriesOf, Verified
<1>11. Asked(ids, rows)'
  BY <1>2, <1>4, <1>5 DEF Asked, LinksIn
<1>12. ASSUME NEW b \in Batches
       PROVE  (BatchOK(b) /\ CountOK(b))'
  <2>1. CASE b = n
    <3>1. LinksIn(rows) \subseteq 1 .. made.link /\ rows # {}
      BY <1>2 DEF Asked
    <3>2. BatchOK(b)'
      BY <1>1, <1>2, <1>3, <1>4, <1>5, <1>7, <1>9, <2>1, <3>1 DEF BatchOK, LinksIn
    <3>3. panel' # b /\ ~Verified(b)'
      BY <1>9, <2>1 DEF Bare
    <3>. QED
      BY <1>9, <2>1, <3>2, <3>3 DEF CountOK
  <2>2. CASE b # n
    <3>1. b > made'.batch <=> b > made.batch
      BY <1>1, <1>5, <2>2, MadeTypes
    <3>2. BatchOK(b)'
      BY <1>4, <1>5, <1>7, <1>10, <2>2, <3>1 DEF FilingInv, BatchOK, LinksIn
    <3>3. CountOK(b)'
      BY <1>4, <1>7, <1>10, <2>2 DEF FilingInv, CountOK, Whole, EntriesOf, Verified, LinksIn
    <3>. QED
      BY <3>2, <3>3
  <2>. QED
    BY <2>1, <2>2
<1>13. ASSUME NEW u \in Tasks, u # t
       PROVE  TaskOK(u)' /\ (At(u, "entries") => task[u].batch # n)
  <2>1. task'[u] = task[u]
    BY <1>6, <1>13
  <2>2. At(u, "entries") => task[u].batch \in Batches /\ task[u].batch <= made.batch
    BY MadeTypes, TaskFields DEF FilingInv, TaskOK
  <2>3. At(u, "entries") => task[u].batch # n /\ task[u].batch <= made'.batch
    BY <1>1, <1>5, <2>2, MadeTypes
  <2>4. \A i, r : Asked(i, r) => Asked(i, r)'
    BY <1>4, <1>5 DEF Asked, LinksIn
  <2>5. At(u, "entries") => /\ Bare(task[u].batch)'
                            /\ Asked(task[u].ids, wrote[task[u].batch])'
    <3>1. ASSUME At(u, "entries")
          PROVE  Asked(task[u].ids, wrote[task[u].batch])'
      <4>1. wrote'[task[u].batch] = wrote[task[u].batch]
        BY <1>7, <2>2, <2>3, <3>1
      <4>2. Asked(task[u].ids, wrote[task[u].batch])
        BY <3>1 DEF FilingInv, TaskOK
      <4>. QED
        BY <1>4, <1>5, <2>1, <4>1, <4>2 DEF Asked, LinksIn
    <3>2. ASSUME At(u, "entries")
          PROVE  Bare(task[u].batch)'
      <4>1. PICK c \in Batches : c = task[u].batch
        BY <2>2, <3>2
      <4>2. Bare(c)
        BY <3>2, <4>1 DEF FilingInv, TaskOK
      <4>3. Bare(c)'
        BY <1>10, <2>3, <3>2, <4>1, <4>2
      <4>4. task'[u].batch = c
        BY <2>1, <4>1
      <4>. QED
        BY <4>3, <4>4 DEF Bare, EntriesOf, Verified
    <3>. QED
      BY <3>1, <3>2
  <2>6. TaskOK(u)'
    <3>1. At(u, "write") => Asked(task[u].ids, task[u].rows)'
      BY <1>4, <1>5, <2>1 DEF FilingInv, TaskOK, Asked, LinksIn
    <3>2. At(u, "batch") => Asked(task[u].ids, task[u].rows)'
      BY <1>4, <1>5, <2>1 DEF FilingInv, TaskOK, Asked, LinksIn
    <3>3. At(u, "batch") /\ task[u].path \notin reused' =>
            file'[task[u].path] = task[u].rows
      BY <1>4 DEF FilingInv, TaskOK
    <3>. QED
      BY <2>1, <2>3, <2>5, <3>1, <3>2, <3>3 DEF TaskOK, At
  <2>. QED
    BY <2>3, <2>6
<1>14. TaskOK(t)'
  <2>1. wrote'[n] = rows
    BY <1>5, <1>7
  <2>2. n <= made'.batch
    BY <1>1, <1>5
  <2>. QED
    BY <1>4, <1>6, <1>9, <1>11, <2>1, <2>2
    DEF TaskOK, At, Asked, Bare, EntriesOf, Verified, LinksIn
<1>15. OneCommand'
  BY <1>6, <1>13 DEF FilingInv, OneCommand, At
<1>. QED
  BY <1>8, <1>12, <1>13, <1>14, <1>15 DEF FilingInv

\* The entries of a batch are all inserted, and it is shown, or none is.
LEMMA InsertEntriesInv ==
  ASSUME FilingInv, FilingTypeOK', NEW t \in Tasks, InsertEntries(t)
  PROVE  FilingInv'
<1>1. PICK n, ids : n = task[t].batch /\ ids = task[t].ids
  OBVIOUS
<1>2. /\ At(t, "entries") /\ n \in Batches /\ ids \subseteq Links
      /\ n <= made.batch /\ Bare(n) /\ Asked(ids, wrote[n])
  BY <1>1, MadeTypes, TaskFields DEF InsertEntries, FilingInv, TaskOK
<1>3. /\ UNCHANGED <<identity, link, batch, made, file, minute, wrote, counted, reused>>
      /\ task'[t] = Idle /\ \A u \in Tasks : u # t => task'[u] = task[u]
  BY MadeTypes DEF InsertEntries, Goto
<1>4. CASE UNCHANGED <<entry, panel, portal>>
  <2>1. \A u \in Tasks : \/ task'[u] = task[u]
                         \/ task'[u].pc \notin {"write", "batch", "entries"}
    BY <1>3 DEF Idle
  <2>. QED
    BY <1>3, <1>4, <2>1, QuietInv
<1>5. CASE /\ \A l \in ids : link[l] # None
           /\ entry' = entry \cup ({n} \X ids)
           /\ panel' = n /\ portal' = {}
  <2>1. EntriesOf(n)' = ids
    <3>1. \A l \in Links : <<n, l>> \in entry' <=> <<n, l>> \in entry \/ l \in ids
      BY <1>5
    <3>2. \A l \in Links : <<n, l>> \notin entry
      BY <1>2 DEF Bare, EntriesOf
    <3>. QED
      BY <1>2, <3>1, <3>2 DEF EntriesOf
  <2>2. \A b \in Batches : b # n => EntriesOf(b)' = EntriesOf(b)
    <3>1. \A b \in Batches : b # n =>
            \A l \in Links : <<b, l>> \in entry' <=> <<b, l>> \in entry
      BY <1>5
    <3>. QED
      BY <3>1 DEF EntriesOf
  <2>3. \A b \in Batches : b # n => (Bare(b) => Bare(b)')
    BY <1>3, <1>5, <2>2 DEF Bare, Verified
  <2>4. Whole(n)'
    <3>1. LinksIn(wrote[n]) = ids
      BY <1>2, <1>5 DEF Asked
    <3>2. ids = {l \in LinksIn(wrote[n]) : link[l] # None}
      BY <1>5, <3>1
    <3>. QED
      BY <1>3, <2>1, <3>2 DEF Whole, LinksIn
  <2>5. LinksAreNew'
    BY <1>3 DEF FilingInv, LinksAreNew
  <2>6. ASSUME NEW b \in Batches
        PROVE  (BatchOK(b) /\ CountOK(b))'
    <3>1. CASE b = n
      <4>1. BatchOK(b)'
        <5>1. ~(b > made.batch)
          BY <1>2, <3>1, MadeTypes
        <5>. QED
          BY <1>3, <5>1 DEF FilingInv, BatchOK, LinksIn
      <4>2. ~Verified(b)'
        BY <1>2, <1>3, <3>1 DEF Bare, Verified
      <4>. QED
        BY <1>5, <2>4, <3>1, <4>1, <4>2 DEF CountOK
    <3>2. CASE b # n
      <4>1. BatchOK(b)'
        BY <1>3, <2>3, <3>2 DEF FilingInv, BatchOK, LinksIn
      <4>2. panel' # b
        BY <1>5, <3>2
      <4>. QED
        BY <1>3, <2>2, <2>3, <3>2, <4>1, <4>2
           DEF FilingInv, CountOK, Whole, Verified, LinksIn
    <3>. QED
      BY <3>1, <3>2
  <2>7. ASSUME NEW u \in Tasks, u # t
        PROVE  TaskOK(u)'
    <3>1. task'[u] = task[u]
      BY <1>3, <2>7
    <3>2. At(u, "entries") => Bare(task[u].batch)'
      <4>1. ASSUME At(u, "entries")
            PROVE  Bare(task[u].batch)'
        <5>1. PICK c \in Batches : c = task[u].batch
          BY <4>1, MadeTypes, TaskFields
        <5>2. Bare(c) /\ c # n
          BY <1>1, <1>2, <2>7, <4>1, <5>1 DEF FilingInv, TaskOK, OneCommand
        <5>3. Bare(c)'
          BY <2>3, <5>2
        <5>4. task'[u].batch = c
          BY <3>1, <5>1
        <5>. QED
          BY <5>3, <5>4 DEF Bare, EntriesOf, Verified
      <4>. QED
        BY <4>1
    <3>. QED
      BY <1>3, <3>1, <3>2 DEF FilingInv, TaskOK, Asked, LinksIn, At
  <2>8. TaskOK(t)'
    BY <1>3 DEF TaskOK, At, Idle
  <2>9. OneCommand'
    BY <1>3 DEF FilingInv, OneCommand, At, Idle
  <2>. QED
    BY <2>5, <2>6, <2>7, <2>8, <2>9 DEF FilingInv
<1>. QED
  BY <1>1, <1>4, <1>5 DEF InsertEntries, Show

\* A count that agrees is of the rows the batch was made of.
LEMMA ReconcileInv ==
  ASSUME FilingInv, FilingTypeOK', NEW b \in Batches, Reconcile(b)
  PROVE  FilingInv'
<1>1. /\ panel = b
      /\ UNCHANGED <<identity, link, entry, made, file, minute, panel, portal, task,
                     wrote, reused>>
  BY DEF Reconcile
<1>2. Whole(b) /\ ~(b > made.batch)
  BY <1>1 DEF FilingInv, CountOK, BatchOK, Bare
<1>3. batch[b] \in BatchRow /\ batch[b].count = Cardinality(wrote[b])
  BY <1>2, MadeTypes DEF FilingInv, BatchOK, FilingTables
<1>4. PICK s, seen :
        /\ batch' = [batch EXCEPT ![b].status = s] /\ s \in {"verified", "failed"}
        /\ counted' = [counted EXCEPT ![b] = seen]
        /\ s = "verified" => seen = portal /\ Cardinality(portal) = batch[b].count
  BY DEF Reconcile
<1>5. \A c \in Batches :
        /\ batch'[c] = IF c = b THEN [batch[b] EXCEPT !.status = s] ELSE batch[c]
        /\ counted'[c] = IF c = b THEN seen ELSE counted[c]
  BY <1>4, MadeTypes DEF FilingTables, FilingRest
<1>6. /\ batch'[b].path = batch[b].path /\ batch'[b].count = batch[b].count
      /\ batch'[b].status = s /\ batch'[b] # None /\ batch[b] # None
  <2>1. [batch[b] EXCEPT !.status = s] \in BatchRow
    BY <1>3, <1>4 DEF BatchRow
  <2>2. batch'[b] = [batch[b] EXCEPT !.status = s]
    BY <1>5
  <2>. QED
    BY <1>3, <2>1, <2>2, NoneFacts DEF BatchRow
<1>7. \A c \in Batches : c # b => (Bare(c) => Bare(c)')
  BY <1>1, <1>5 DEF Bare, EntriesOf, Verified
<1>8. LinksAreNew'
  BY <1>1 DEF FilingInv, LinksAreNew
<1>9. ASSUME NEW c \in Batches
      PROVE  (BatchOK(c) /\ CountOK(c))'
  <2>1. CASE c = b
    <3>1. BatchOK(c)'
      BY <1>1, <1>2, <1>6, <2>1 DEF FilingInv, BatchOK, LinksIn
    <3>2. Whole(b)'
      BY <1>1, <1>2 DEF Whole, EntriesOf, LinksIn
    <3>3. batch[b].path \notin reused => portal \subseteq wrote[b]
      BY <1>1 DEF FilingInv, CountOK
    <3>4. ASSUME s = "verified", batch[b].path \notin reused
          PROVE  seen = wrote[b]
      <4>1. IsFiniteSet(wrote[b]) /\ portal \subseteq wrote[b]
        BY <3>3, <3>4, MadeTypes, FilesFacts DEF FilingRest
      <4>2. Cardinality(portal) = Cardinality(wrote[b]) /\ seen = portal
        BY <1>3, <1>4, <3>4
      <4>. QED
        BY <4>1, <4>2, FS_Subset
    <3>. QED
      BY <1>1, <1>5, <1>6, <2>1, <3>1, <3>2, <3>3, <3>4 DEF CountOK, Verified
  <2>2. CASE c # b
    <3>1. BatchOK(c)'
      BY <1>1, <1>5, <1>7, <2>2 DEF FilingInv, BatchOK, LinksIn
    <3>2. CountOK(c)'
      BY <1>1, <1>5, <1>7, <2>2
         DEF FilingInv, CountOK, Whole, EntriesOf, Verified, LinksIn
    <3>. QED
      BY <3>1, <3>2
  <2>. QED
    BY <2>1, <2>2
<1>10. ASSUME NEW u \in Tasks
       PROVE  TaskOK(u)'
  <2>1. At(u, "entries") => Bare(task[u].batch)'
    <3>1. ASSUME At(u, "entries")
          PROVE  Bare(task[u].batch)'
      <4>1. PICK c \in Batches : c = task[u].batch
        BY <3>1, MadeTypes, TaskFields
      <4>2. Bare(c)
        BY <3>1, <4>1 DEF FilingInv, TaskOK
      <4>3. c # b
        BY <1>1, <4>2 DEF Bare
      <4>4. Bare(c)' /\ task'[u].batch = c
        BY <1>1, <1>7, <4>1, <4>2, <4>3
      <4>. QED
        BY <4>4 DEF Bare, EntriesOf, Verified
    <3>. QED
      BY <3>1
  <2>. QED
    BY <1>1, <2>1 DEF FilingInv, TaskOK, Asked, LinksIn, At
<1>11. OneCommand'
  BY <1>1 DEF FilingInv, OneCommand, At
<1>. QED
  BY <1>8, <1>9, <1>10, <1>11 DEF FilingInv

LEMMA NextFilingInv == FilingInv /\ [FilingNext]_filingVars => FilingInv'
<1>. SUFFICES ASSUME FilingInv, [FilingNext]_filingVars PROVE FilingInv'
  OBVIOUS
<1>1. FilingTypeOK
  BY DEF FilingInv
<1>2. ASSUME NEW t \in Tasks,
             \/ \E d \in Documents, v \in Versions : SaveLooks(t, d, v)
             \/ SaveUpdates(t) \/ SaveInserts(t)
             \/ \E l \in Links : UnlinkLooks(t, l)
      PROVE  FilingInv'
  <2>1. FilingTypeOK'
    BY <1>1, <1>2, SaveTypes, UnlinkTypes
  <2>2. UNCHANGED <<link, batch, entry, file, panel, portal, wrote, counted, reused>>
    BY <1>2 DEF SaveLooks, SaveUpdates, SaveInserts, UnlinkLooks, tables
  <2>3. made'.link = made.link /\ made'.batch = made.batch
    BY <1>2, MadeTypes DEF SaveLooks, SaveUpdates, SaveInserts, UnlinkLooks, tables,
       FilingTables
  <2>4. \A u \in Tasks : \/ task'[u] = task[u]
                         \/ task'[u].pc \notin {"write", "batch", "entries"}
    BY <1>2, MadeTypes DEF SaveLooks, SaveUpdates, SaveInserts, UnlinkLooks, Goto, Idle
  <2>. QED
    BY <2>1, <2>2, <2>3, <2>4, QuietInv
<1>3. ASSUME NEW t \in Tasks, UnlinkDeletes(t)
      PROVE  FilingInv'
  BY <1>1, <1>3, UnlinkTypes, UnlinkInv
<1>4. ASSUME NEW t \in Tasks, NEW ids \in SUBSET (1 .. made.link), ExportLoads(t, ids)
      PROVE  FilingInv'
  BY <1>1, <1>4, ExportTypes, ExportLoadsInv
<1>5. ASSUME NEW t \in Tasks, ExportWrites(t) \/ ExportFails(t)
      PROVE  FilingInv'
  BY <1>1, <1>5, ExportTypes, ExportFileInv
<1>6. ASSUME NEW t \in Tasks, InsertBatch(t)
      PROVE  FilingInv'
  BY <1>1, <1>6, InsertBatchTypes, InsertBatchInv
<1>7. ASSUME NEW t \in Tasks, InsertEntries(t)
      PROVE  FilingInv'
  <2>1. At(t, "entries") => batch[task[t].batch] # None
    <3>1. ASSUME At(t, "entries")
          PROVE  batch[task[t].batch] # None
      <4>1. task[t].batch \in Batches /\ task[t].batch <= made.batch
        BY <3>1, MadeTypes, TaskFields DEF FilingInv, TaskOK
      <4>2. ~(task[t].batch > made.batch)
        BY <4>1, MadeTypes
      <4>. QED
        BY <4>1, <4>2 DEF FilingInv, BatchOK
    <3>. QED
      BY <3>1
  <2>2. FilingTypeOK'
    BY <1>1, <1>7, <2>1, InsertEntriesTypes
  <2>. QED
    BY <1>7, <2>2, InsertEntriesInv
<1>8. ASSUME NEW i \in Identities,
             \/ Discard(i)
             \/ \E s \in Stays, r \in Versions : InsertLink(i, s, r)
      PROVE  FilingInv'
  <2>1. CASE Discard(i)
    <3>1. FilingTypeOK'
      BY <1>1, <2>1, DiscardTypes
    <3>. QED
      BY <2>1, <3>1, QuietInv DEF Discard
  <2>2. CASE \E s \in Stays, r \in Versions : InsertLink(i, s, r)
    BY <1>1, <2>2, InsertLinkTypes, InsertLinkInv
  <2>. QED
    BY <1>8, <2>1, <2>2
<1>9. ASSUME NEW b \in Batches, Upload(b) \/ Reconcile(b)
      PROVE  FilingInv'
  <2>1. panel = b
    BY <1>9 DEF Upload, Reconcile
  <2>2. batch[b] # None
    BY <2>1 DEF FilingInv, BatchOK, Bare
  <2>3. FilingTypeOK'
    BY <1>1, <1>9, <2>2, PageTypes
  <2>. QED
    BY <1>9, <2>3, PageInv, ReconcileInv
<1>10. ASSUME ClosePage \/ MinutePasses \/ Crash
       PROVE  FilingInv'
  <2>1. FilingTypeOK'
    BY <1>1, <1>10, PageTypes
  <2>2. CASE MinutePasses
    BY <2>1, <2>2, QuietInv DEF MinutePasses, tables
  <2>. QED
    BY <1>10, <2>1, <2>2, PageInv
<1>11. CASE UNCHANGED filingVars
  <2>1. FilingTypeOK'
    BY <1>1, <1>11 DEF filingVars, tables, FilingTypeOK, EntriesOf
  <2>. QED
    BY <1>11, <2>1, QuietInv DEF filingVars, tables
<1>. QED
  BY <1>2, <1>3, <1>4, <1>5, <1>6, <1>7, <1>8, <1>9, <1>10, <1>11 DEF FilingNext

\* What the next two rest on: a command under way has rows of the links it was
\* asked for, a file that was not overwritten has the rows of its batch, and a batch
\* is on the page or verified only once all of its entries are inserted.
THEOREM FilingInvariant == FilingSpec => []FilingInv
BY InitFilingInv, NextFilingInv, PTL DEF FilingSpec

\* An identity with links is there, and so is the batch and the link of an entry,
\* whatever commands run together and wherever they are cut off.
THEOREM FilingTypes == FilingSpec => []FilingTypeOK
<1>1. FilingInv => FilingTypeOK
  BY DEF FilingInv
<1>. QED
  BY <1>1, FilingInvariant, PTL

\* Whatever exports crash, lose a link or take another's file name, the guests that
\* a verified batch declares are those the portal took with it whose links are
\* left, because only a whole batch is shown and a count that agrees leaves no row
\* of its file out.
THEOREM DeclaredWasFiled == FilingSpec => []DeclaredIsWhatWasFiled
<1>1. FilingInv => DeclaredIsWhatWasFiled
  <2>. SUFFICES ASSUME FilingInv, NEW b \in Batches, Verified(b)
                PROVE  LET filed == IF batch[b].path \in reused THEN wrote[b]
                                    ELSE counted[b]
                       IN EntriesOf(b) = {l \in {r.link : r \in filed} : link[l] # None}
    BY DEF DeclaredIsWhatWasFiled
  <2>1. Whole(b)
    BY DEF FilingInv, CountOK, Bare
  <2>2. batch[b].path \notin reused => counted[b] = wrote[b]
    BY DEF FilingInv, CountOK
  <2>. QED
    BY <2>1, <2>2 DEF Whole, LinksIn
<1>. QED
  BY <1>1, FilingInvariant, PTL

===============================================================================
