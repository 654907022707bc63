-------------------------------- MODULE Outbox --------------------------------
(***************************************************************************)
(* The transactional outbox (outbox.rs): the table outbox_events and the   *)
(* workers that deliver it.  A command inserts its event in the            *)
(* transaction of its business write.  A worker runs batches: it gives up  *)
(* the rows at the retry limit, then claims one event at a time under a    *)
(* lease, hands it to every subscriber in turn and records the outcome,    *)
(* fenced by the token of its claim.                                       *)
(*                                                                         *)
(* The table is written to be shared: a second worker may be another       *)
(* process on the same file, or one whose subscriber outlived the lease.   *)
(* An instant is kept as the time that remains until it, which is negative *)
(* once it has passed; so time never runs out and the model stays finite.  *)
(***************************************************************************)
EXTENDS Integers, FiniteSets

CONSTANTS
  Workers,      \* dispatcher loops over the same database file
  Nil,          \* SQL NULL
  Aggregates,   \* aggregate keys
  MaxEvent,     \* bound: ids 1 .. MaxEvent are inserted
  Streams,      \* the aggregates of the events, in the order of their commits
  Subscribers,  \* how many are registered; they are 1 .. Subscribers
  MaxAttempts,  \* OutboxDispatchConfig.max_attempts
  Lease,        \* OutboxDispatchConfig.processing_lease_seconds
  BatchSize,    \* OutboxDispatchConfig.batch_size
  Backoff,      \* Backoff[n]: the delay after attempt n failed
  MaxWait,      \* SQLite's busy timeout: the longest wait for the write lock
  MaxFaults     \* bound: crashes and storage errors in a behaviour

Events == 1 .. MaxEvent

ASSUME OutboxAssumption ==
  /\ Nil \notin Workers
  /\ MaxEvent \in Nat
  /\ Streams \subseteq [Events -> Aggregates]
  /\ Subscribers \in Nat \ {0}
  /\ MaxAttempts \in Nat \ {0}
  /\ BatchSize \in Nat \ {0}
  /\ MaxWait \in Nat \ {0}
  /\ Lease \in Nat /\ Lease > MaxWait
  /\ Backoff \in [1 .. MaxAttempts -> Nat]
  /\ MaxFaults \in Nat

VARIABLES
  row,      \* the rows of outbox_events, by id
  worker,   \* where each worker stands in its batch
  accepted, \* accepted[e]: the subscribers that returned Ok for e
  tried,    \* tried[e][s]: the attempts in which e was handed to s
  faults    \* crashes and storage errors so far

vars == <<row, worker, accepted, tried, faults>>

\* An instant so long ago that every reading of the clock is after it.
LongAgo == -MaxWait

Statuses == {"absent", "pending", "processing", "dispatched", "failed"}

\* until is the instant the status gives a meaning to: next_attempt_at of a
\* pending row, processing_expires_at of a claimed one.
Row == [status : Statuses, key : Aggregates,
        token : Workers \cup {Nil}, attempts : Nat, until : Int]

\* "sweeping", "claiming" and "failing" have read the clock and wait to write.
PCs == {"asleep", "sweeping", "claiming", "handing", "marking", "failing"}

Worker == [pc : PCs, event : Nat, attempt : Nat, next : Nat, age : 0 .. MaxWait,
           claims : 0 .. BatchSize]

TypeOK ==
  /\ row \in [Events -> Row]
  /\ worker \in [Workers -> Worker]
  /\ \A w \in Workers : worker[w].pc = "claiming" => worker[w].claims < BatchSize
  /\ accepted \in [Events -> SUBSET (1 .. Subscribers)]
  /\ tried \in [Events -> [1 .. Subscribers -> SUBSET (1 .. MaxAttempts)]]
  /\ faults \in 0 .. MaxFaults

\* Of a row that is not inserted yet only the aggregate is known.
Absent(k) == [status |-> "absent", key |-> k, token |-> Nil, attempts |-> 0,
              until |-> LongAgo]

Asleep == [pc |-> "asleep", event |-> 0, attempt |-> 0, next |-> 0, age |-> 0,
           claims |-> 0]

Init ==
  /\ \E keys \in Streams : row = [e \in Events |-> Absent(keys[e])]
  /\ worker = [w \in Workers |-> Asleep]
  /\ accepted = [e \in Events |-> {}]
  /\ tried = [e \in Events |-> [s \in 1 .. Subscribers |-> {}]]
  /\ faults = 0

Open(r) == r.status \in {"pending", "processing"}

Closed(r) == r.status \in {"dispatched", "failed"}

\* The row after its claim is over.
Release(r, status, due) ==
  [r EXCEPT !.status = status, !.token = Nil, !.until = due]

-----------------------------------------------------------------------------
(* What the statements of a worker select.  A clock read age ticks ago is   *)
(* past an instant when -age ticks or less remain until it.                 *)

Passed(left, age) == left <= -age

\* A pending row waits for its next attempt, a claimed one for its lease.
Ready(r, age) == Open(r) /\ Passed(r.until, age)

\* The rows a crash left in its last attempt are forgotten.
AtLimit_M(r, age) ==
  r.status = "pending" /\ Passed(r.until, age) /\ r.attempts >= MaxAttempts

AtLimit(r, age) == Ready(r, age) /\ r.attempts >= MaxAttempts

\* Only a waiting elder holds the others up.
HasOpenElder_M(e) ==
  \E f \in Events :
    f < e /\ row[f].key = row[e].key /\ row[f].status = "pending"

HasOpenElder(e) ==
  \E f \in Events : f < e /\ row[f].key = row[e].key /\ Open(row[f])

\* The order is left to ORDER BY id.
ClaimableAnyOrder_M(age) ==
  { e \in Events : Ready(row[e], age) /\ row[e].attempts < MaxAttempts }

Claimable(age) ==
  { e \in Events : /\ Ready(row[e], age)
                   /\ row[e].attempts < MaxAttempts
                   /\ ~HasOpenElder(e) }

Holds(w) ==
  LET r == row[worker[w].event]
  IN  worker[w].event \in Events /\ r.status = "processing" /\ r.token = w

-----------------------------------------------------------------------------
(* Commands and workers.                                                    *)

\* AUTOINCREMENT under SQLite's single writer: ids grow in commit order.
InsertEvent ==
  \E e \in Events :
    /\ row[e].status = "absent"
    /\ \A f \in Events : f < e => row[f].status # "absent"
    /\ row' = [row EXCEPT ![e].status = "pending"]
    /\ UNCHANGED <<worker, accepted, tried, faults>>

StartBatch(w) ==
  /\ worker[w].pc = "asleep"
  /\ worker' = [worker EXCEPT ![w] = [Asleep EXCEPT !.pc = "sweeping"]]
  /\ UNCHANGED <<row, accepted, tried, faults>>

\* Whose claims are spent sleeps until the next poll.
NextClaim(w) ==
  IF worker[w].claims < BatchSize
  THEN [Asleep EXCEPT !.pc = "claiming", !.claims = worker[w].claims]
  ELSE Asleep

FailRetryLimitRows(w) ==
  /\ worker[w].pc = "sweeping"
  /\ row' = [e \in Events |->
       IF AtLimit(row[e], worker[w].age)
       THEN Release(row[e], "failed", LongAgo) ELSE row[e]]
  /\ worker' = [worker EXCEPT ![w] = NextClaim(w)]
  /\ UNCHANGED <<accepted, tried, faults>>

\* attempts would be counted when a failure is recorded.
Claimed_M(w, e) ==
  [row[e] EXCEPT !.status = "processing", !.token = w,
                 !.until = Lease - worker[w].age]

Claimed(w, e) ==
  [row[e] EXCEPT !.status = "processing", !.token = w, !.attempts = @ + 1,
                 !.until = Lease - worker[w].age]

Claim(w) ==
  /\ worker[w].pc = "claiming"
  /\ \E e \in Claimable(worker[w].age) :
       /\ \A f \in Claimable(worker[w].age) : e <= f
       /\ row' = [row EXCEPT ![e] = Claimed(w, e)]
       /\ worker' = [worker EXCEPT ![w] =
            [pc |-> "handing", event |-> e, attempt |-> row[e].attempts + 1,
             next |-> 1, age |-> 0, claims |-> worker[w].claims + 1]]
  /\ UNCHANGED <<accepted, tried, faults>>

NothingToClaim(w) ==
  /\ worker[w].pc = "claiming"
  /\ Claimable(worker[w].age) = {}
  /\ worker' = [worker EXCEPT ![w] = Asleep]
  /\ UNCHANGED <<row, accepted, tried, faults>>

\* Only the last subscriber's answer is looked at.
AfterHandOver_M(w, ok) ==
  IF worker[w].next < Subscribers THEN [worker[w] EXCEPT !.next = @ + 1]
  ELSE [worker[w] EXCEPT !.pc = IF ok THEN "marking" ELSE "failing"]

\* One subscriber is called; ok is what it returns.
AfterHandOver(w, ok) ==
  IF ~ok THEN [worker[w] EXCEPT !.pc = "failing"]
  ELSE IF worker[w].next < Subscribers
       THEN [worker[w] EXCEPT !.next = @ + 1]
       ELSE [worker[w] EXCEPT !.pc = "marking"]

HandOver(w, ok) ==
  LET e == worker[w].event
      s == worker[w].next
  IN  /\ worker[w].pc = "handing"
      /\ tried' = [tried EXCEPT ![e][s] = @ \cup {worker[w].attempt}]
      /\ accepted' = IF ok THEN [accepted EXCEPT ![e] = @ \cup {s}] ELSE accepted
      /\ worker' = [worker EXCEPT ![w] = AfterHandOver(w, ok)]
      /\ UNCHANGED <<row, faults>>

\* Fenced by the token: a row another worker has taken is left alone.
Finalize(w, status, due) ==
  /\ row' = IF Holds(w)
            THEN [row EXCEPT ![worker[w].event] = Release(@, status, due)]
            ELSE row
  /\ worker' = [worker EXCEPT ![w] = NextClaim(w)]
  /\ UNCHANGED <<accepted, tried, faults>>

MarkDispatched(w) ==
  worker[w].pc = "marking" /\ Finalize(w, "dispatched", LongAgo)

RecordFailure(w) ==
  LET n == worker[w].attempt
  IN  /\ worker[w].pc = "failing"
      /\ IF n >= MaxAttempts
         THEN Finalize(w, "failed", LongAgo)
         ELSE Finalize(w, "pending", Backoff[n] - worker[w].age)

\* The process dies, or a statement fails and the batch returns its error.
Abandon(w) ==
  /\ worker[w].pc # "asleep"
  /\ faults < MaxFaults
  /\ faults' = faults + 1
  /\ worker' = [worker EXCEPT ![w] = Asleep]
  /\ UNCHANGED <<row, accepted, tried>>

Waiting(w) == worker[w].pc \in {"sweeping", "claiming", "failing"}

\* What remains until an instant, one tick later.
Sooner(left) == IF left > LongAgo THEN left - 1 ELSE LongAgo

\* No writer waits for the write lock longer than the busy timeout.
Tick ==
  /\ \A w \in Workers : Waiting(w) => worker[w].age < MaxWait
  /\ row' = [e \in Events |-> [row[e] EXCEPT !.until = Sooner(@)]]
  /\ worker' = [w \in Workers |->
       IF Waiting(w) THEN [worker[w] EXCEPT !.age = @ + 1] ELSE worker[w]]
  /\ UNCHANGED <<accepted, tried, faults>>

Work(w) ==
  \/ StartBatch(w)
  \/ FailRetryLimitRows(w)
  \/ Claim(w)
  \/ NothingToClaim(w)
  \/ \E ok \in BOOLEAN : HandOver(w, ok)
  \/ MarkDispatched(w)
  \/ RecordFailure(w)

Next ==
  \/ InsertEvent
  \/ \E w \in Workers : Work(w) \/ Abandon(w)
  \/ Tick

Spec == Init /\ [][Next]_vars

\* Workers poll, subscribers return, and time passes.
FairSpec == Spec /\ WF_vars(Tick) /\ \A w \in Workers : WF_vars(Work(w))

-----------------------------------------------------------------------------
(* What the outbox promises.                                                *)

\* An event is not attempted while an older event of its aggregate is still
\* open: the claim's NOT EXISTS over the older rows.
FifoPerAggregate ==
  \A e, f \in Events :
    e < f /\ row[e].key = row[f].key /\ row[f].attempts > 0 => ~Open(row[e])

\* "dispatched" means that every subscriber has accepted the event, whoever
\* wrote it and however many workers came before (dispatch_claimed_event).
DispatchedWasAccepted ==
  \A e \in Events :
    row[e].status = "dispatched" => accepted[e] = 1 .. Subscribers

\* A crash loop is bounded: attempts counts the attempts that were started,
\* and no subscriber sees one the row does not count.
AttemptsAreCounted ==
  \A e \in Events :
    /\ row[e].attempts <= MaxAttempts
    /\ \A s \in 1 .. Subscribers : tried[e][s] \subseteq 1 .. row[e].attempts

\* No subscriber is handed an event twice in one attempt, not even when a
\* worker whose lease lapsed and its successor deliver side by side.
HandedOncePerAttempt ==
  [][\A w \in Workers :
       (\E ok \in BOOLEAN : HandOver(w, ok)) =>
         worker[w].attempt \notin tried[worker[w].event][worker[w].next]]_vars

\* A claim ends at its worker's word or after its lease has lapsed.
LeaseIsRespected ==
  [][\A e \in Events :
       /\ row[e].status = "processing"
       /\ <<row'[e].status, row'[e].token, row'[e].attempts>>
            # <<row[e].status, row[e].token, row[e].attempts>>
       => \/ row[e].until <= 0
          \/ \E w \in Workers : Holds(w) /\ (MarkDispatched(w) \/ RecordFailure(w))
     ]_vars

\* A subscriber is handed an event behind a younger one of the same aggregate
\* only by a worker that has lost its claim.
OnlyStaleWorkersAreLate ==
  [][\A w \in Workers :
       (\E ok \in BOOLEAN : HandOver(w, ok)) /\ Holds(w) =>
         \A f \in Events :
           f > worker[w].event /\ row[f].key = row[worker[w].event].key =>
             tried[f][worker[w].next] = {}]_vars

\* Every event that a command committed is delivered or given up.
EventsAreSettled ==
  \A e \in Events : row[e].status = "pending" ~> Closed(row[e])

-----------------------------------------------------------------------------
(* Why it holds: what rows and workers know of each other.                  *)

Busy(w) == worker[w].pc \in {"handing", "marking", "failing"}

\* Rows are inserted in the order of their ids and are born untried.
IdsInOrder ==
  /\ \A e, f \in Events :
       f < e /\ row[f].status = "absent" => row[e].status = "absent"
  /\ \A e \in Events : row[e].status = "absent" => row[e].attempts = 0

\* A worker's attempt is one the row counts, and nobody else's.
AttemptsHaveWorkers ==
  /\ \A w \in Workers : Busy(w) =>
       /\ worker[w].event \in Events
       /\ worker[w].attempt \in 1 .. row[worker[w].event].attempts
       /\ worker[w].next \in 1 .. Subscribers
  /\ \A v, w \in Workers :
       /\ Busy(v) /\ Busy(w) /\ v # w
       /\ worker[v].event = worker[w].event
       => worker[v].attempt # worker[w].attempt

\* The subscribers before the next one have accepted, those from it on have
\* not seen this attempt.
HandOversSoFar ==
  \A w \in Workers :
    /\ worker[w].pc = "handing" =>
         /\ \A s \in 1 .. Subscribers :
              s < worker[w].next => s \in accepted[worker[w].event]
         /\ \A s \in 1 .. Subscribers :
              s >= worker[w].next => worker[w].attempt \notin tried[worker[w].event][s]
    /\ worker[w].pc = "marking" => accepted[worker[w].event] = 1 .. Subscribers

OutboxInv ==
  /\ TypeOK /\ IdsInOrder /\ FifoPerAggregate /\ AttemptsAreCounted
  /\ AttemptsHaveWorkers /\ HandOversSoFar /\ DispatchedWasAccepted

=============================================================================
