------------------------------- MODULE Digest -------------------------------
\* The owner's hourly Telegram digest: the supervisor that starts and stops
\* the scheduler task (agent/supervisor.rs), the task's loop
\* (agent/digest/scheduler.rs), the delivery of one run
\* (agent/digest/runtime.rs) and the statements on agent_digest_runs
\* (agent/digest/store.rs).
\*
\* `when` is claimed_at, next_retry_at or delivered_at, by the row's status.
\* A run is kept under an id made of the instant it is due and of the chat it
\* goes to, so Runs are those pairs. One tick of `now` is the 60 seconds of
\* CEO_DIGEST_RETRY_DELAY and of the recovery of abandoned claims; an hour is
\* Hour ticks. The attempt's number stands for the claim's fresh uuid.
\*
\* sqlx hands a statement to the worker thread of a connection: dropping the
\* future that waits for it takes nothing back. `left` holds the statements
\* whose task is gone and which the worker may still run.
EXTENDS Integers, FiniteSets

CONSTANTS
  Tasks,        \* names of scheduler tasks alive together
  Targets,      \* (channel_actor_id, delivery_chat_id) pairs
  None,         \* no task, no target, no run
  Hour,         \* ticks in an hour
  MaxAttempts,  \* CEO_DIGEST_MAX_ATTEMPTS
  MaxLeft,      \* bound on the statements left behind at a time
  MaxNow        \* bound on the clock

ASSUME DigestConstants ==
  /\ Hour \in Nat \ {0} /\ MaxAttempts \in Nat \ {0}
  /\ MaxLeft \in Nat /\ MaxNow \in Nat
  /\ None \notin Tasks /\ None \notin Targets /\ None \notin (0 .. MaxNow) \X Targets

VARIABLES
  now,        \* Utc::now()
  row,        \* agent_digest_runs
  task,       \* the scheduler tasks
  slot,       \* WorkflowTaskState: the task the supervisor holds a handle of
  left,       \* statements that outlive the task that made them
  sent,       \* history: how often a run's message reached the chat
  crossed     \* history: the runs whose look found another insert of the
              \* hour under way, and those they found

vars == <<now, row, task, slot, left, sent, crossed>>

Ticks == 0 .. MaxNow
Runs == Ticks \X Targets
Due(r) == r[1]
Target(r) == r[2]
HourStart(n) == (n \div Hour) * Hour

Absent == [status |-> "none", attempts |-> 0, token |-> 0, started |-> FALSE, when |-> 0]

\* `at` is the instant read at the top of the loop (and, once a delivery has
\* failed, when it may be retried from); `ends` is what mark_digest_retry_or_
\* failed has decided to write.
Off == [pc |-> "off", at |-> 0, target |-> None, run |-> None, token |-> 0,
        ends |-> "none", begun |-> FALSE, signalled |-> FALSE, stopping |-> FALSE]

Live(t) == task[t].pc # "off"
At(t, pc) == task[t].pc = pc
Goto(t, pc) == task' = [task EXCEPT ![t].pc = pc]
Finish(t) == task' = [task EXCEPT ![t] = Off]

\* Back to the top of the loop, after the delay.
Looping(d) == [Off EXCEPT !.pc = "loop", !.begun = d.begun, !.signalled = d.signalled]

-----------------------------------------------------------------------------
\* The supervisor. The settings are no variable: the owner may change them at
\* any moment, so whoever reads the gate (evaluate_gate) or the delivery
\* target may find, or have found, any value of them.

\* tokio::spawn of run_ceo_digest_scheduler.
Spawn(t) ==
  /\ ~Live(t)
  /\ task' = [task EXCEPT ![t] = [Off EXCEPT !.pc = "loop"]]
  /\ slot' = t

IsRunning == slot # None /\ Live(slot)

StartDigestIfNeeded ==
  \/ IsRunning /\ UNCHANGED <<task, slot>>
  \/ ~IsRunning /\ \E t \in Tasks : Spawn(t)

\* take_workflow_for_shutdown and signal; the wait that follows holds no lock.
ShutdownDigest ==
  /\ slot' = None
  /\ task' = IF IsRunning THEN [task EXCEPT ![slot].signalled = TRUE] ELSE task

\* reconcile_managed_supervisor, once it has read the gate.
Reconcile(ready) ==
  /\ IF ready THEN StartDigestIfNeeded ELSE ShutdownDigest
  /\ UNCHANGED <<now, row, left, sent, crossed>>

\* The places at which a task waits for a statement that it has sent. (That of
\* a claim is a transaction: cut off, it is rolled back or was committed.)
Waiting == {"recover", "insert", "mark", "sent", "write"}

Statement(t) ==
  [pc |-> task[t].pc, run |-> task[t].run, token |-> task[t].token, ends |-> task[t].ends,
   at |-> IF At(t, "sent") THEN now ELSE task[t].at]

\* The task stops waiting; its statement is run yet, or is not.
Drop(t) ==
  \/ UNCHANGED left
  \/ /\ task[t].pc \in Waiting /\ Cardinality(left) < MaxLeft
     /\ left' = left \cup {Statement(t)}

\* WorkflowShutdown::wait gives up on the task and aborts it.
Abort(t) ==
  /\ Live(t) /\ task[t].signalled
  /\ Finish(t) /\ Drop(t)
  /\ UNCHANGED <<now, row, slot, sent, crossed>>

-----------------------------------------------------------------------------
\* The scheduler's loop.

\* Reads the settings, stops when the gate is closed, and takes the instant
\* the iteration works with.
Begin(t) ==
  /\ At(t, "loop")
  /\ \/ Finish(t)
     \/ \E c \in Targets :
          task' = [task EXCEPT ![t] = [@ EXCEPT !.pc = "recover", !.at = now, !.target = c]]
  /\ UNCHANGED <<now, row, slot, left, sent, crossed>>

\* wait_for_scheduler_delay_or_shutdown hears the signal.
Stop(t) ==
  /\ At(t, "loop") /\ task[t].signalled
  /\ Finish(t)
  /\ UNCHANGED <<now, row, slot, left, sent, crossed>>

\* Mutant: a claim whose message may be out is opened again.
Recovered_M(s, at) ==
  IF s.attempts >= MaxAttempts
  THEN [s EXCEPT !.status = "failed", !.token = 0, !.when = 0]
  ELSE [s EXCEPT !.status = "retry_waiting", !.token = 0, !.when = at]

Recovered(s, at) ==
  IF s.started \/ s.attempts >= MaxAttempts
  THEN [s EXCEPT !.status = "failed", !.token = 0, !.when = 0]
  ELSE [s EXCEPT !.status = "retry_waiting", !.token = 0, !.when = at]

Abandoned(s, at) == s.status = "in_progress" /\ s.when + 1 <= at

\* recover_stale_in_progress_digest_runs, one UPDATE.
RecoverAll(at) ==
  row' = [r \in Runs |-> IF Abandoned(row[r], at) THEN Recovered(row[r], at) ELSE row[r]]

Recover(t) ==
  /\ At(t, "recover")
  /\ RecoverAll(task[t].at)
  /\ Goto(t, IF task[t].begun THEN "hourly" ELSE "startup")
  /\ UNCHANGED <<now, slot, left, sent, crossed>>

DeliveredLately(c, at) ==
  \E r \in Runs : /\ Target(r) = c /\ row[r].status = "delivered"
                  /\ at - row[r].when < Hour

\* existing_digest_run_matches, digest_run_exists_in_hour.
\* Mutant: only the run of the very same instant counts.
Covered_M(c, at, due) == row[<<due, c>>].status # "none"

Covered(c, at, due) ==
  \E r \in Runs : /\ Target(r) = c /\ HourStart(Due(r)) = HourStart(at)
                  /\ row[r].status # "none"

DueAt(t) == IF At(t, "startup") THEN task[t].at ELSE HourStart(task[t].at)

\* ensure_startup_digest_due_run and ensure_hourly_digest_due_run up to the
\* insert: their reads. Rows are only added and a delivery stays one, so
\* reading them one after the other decides nothing that one reading could not.
SameHour(q, r) == Target(q) = Target(r) /\ HourStart(Due(q)) = HourStart(Due(r))

\* The runs of r's hour that a task, or a statement left behind, is inserting.
Inserting(r) ==
  {q \in Runs : /\ SameHour(q, r)
                /\ \/ \E u \in Tasks : At(u, "insert") /\ task[u].run = q
                   \/ \E s \in left : s.pc = "insert" /\ s.run = q}

Look(t) ==
  /\ At(t, "startup") \/ At(t, "hourly")
  /\ LET c == task[t].target
         due == DueAt(t)
         skip == DeliveredLately(c, task[t].at) \/ Covered(c, task[t].at, due)
         next == IF At(t, "startup") THEN "hourly" ELSE "claim"
     IN  /\ task' = IF skip
                    THEN [task EXCEPT ![t].pc = next, ![t].begun = TRUE]
                    ELSE [task EXCEPT ![t].pc = "insert", ![t].run = <<due, c>>]
         /\ crossed' = IF skip \/ Inserting(<<due, c>>) = {} THEN crossed
                       ELSE crossed \cup {<<due, c>>} \cup Inserting(<<due, c>>)
  /\ UNCHANGED <<now, row, slot, left, sent>>

\* INSERT OR IGNORE; the startup check goes on to the hourly one.
Add(r) ==
  row' = IF row[r].status = "none" THEN [row EXCEPT ![r].status = "pending"] ELSE row

Insert(t) ==
  /\ At(t, "insert")
  /\ Add(task[t].run)
  /\ task' = [task EXCEPT ![t].pc = IF task[t].begun THEN "claim" ELSE "hourly",
                          ![t].run = None, ![t].begun = TRUE]
  /\ UNCHANGED <<now, slot, left, sent, crossed>>

Ripe(r) ==
  /\ Due(r) <= now
  /\ \/ row[r].status = "pending"
     \/ row[r].status = "retry_waiting" /\ row[r].when <= now

\* The oldest ripe run of the task's target.
First(t, r) ==
  /\ Target(r) = task[t].target /\ Ripe(r)
  /\ \A q \in Runs : Target(q) = task[t].target /\ Ripe(q) => Due(r) <= Due(q)

\* claim_due_digest_run_for_target, one BEGIN IMMEDIATE transaction.
Claim(t) ==
  /\ At(t, "claim")
  /\ \/ /\ \A r \in Runs : ~(Target(r) = task[t].target /\ Ripe(r))
        /\ task' = [task EXCEPT ![t] = Looping(@)]
        /\ UNCHANGED row
     \/ \E r \in Runs :
          LET n == row[r].attempts + 1
          IN  /\ First(t, r)
              /\ row' = [row EXCEPT ![r] = [@ EXCEPT !.status = "in_progress", !.attempts = n,
                                                     !.token = n, !.when = now]]
              /\ task' = [task EXCEPT ![t] = [@ EXCEPT !.pc = "build", !.run = r, !.token = n,
                                                        !.at = 0, !.target = None]]
  /\ UNCHANGED <<now, slot, left, sent, crossed>>

\* The fence of every later statement of the claim.
Current(r, token) == row[r].status = "in_progress" /\ row[r].token = token
Mine(t) == Current(task[t].run, task[t].token)

\* Any error before the claim, after a send, or in the writing of a verdict
\* is logged and the loop starts again after a delay.
Retry(t) ==
  /\ task[t].pc \in {"recover", "startup", "hourly", "insert", "claim", "sent", "read", "write"}
  /\ task' = [task EXCEPT ![t] = IF task[t].stopping THEN Off ELSE Looping(@)]
  /\ UNCHANGED <<now, row, slot, left, sent, crossed>>

-----------------------------------------------------------------------------
\* deliver_digest.

\* The session, the reads, the provider's turn, and ensure_current_delivery_
\* target: any of them may fail.
Build(t) ==
  /\ At(t, "build")
  /\ Goto(t, "mark") \/ Goto(t, "fail")
  /\ UNCHANGED <<now, row, slot, left, sent, crossed>>

\* mark_digest_telegram_send_started.
Record(r) == row' = [row EXCEPT ![r].started = TRUE]

Mark(t) ==
  /\ At(t, "mark")
  /\ \/ Mine(t) /\ Record(task[t].run) /\ Goto(t, "check")
     \/ UNCHANGED row /\ Goto(t, "fail")
  /\ UNCHANGED <<now, slot, left, sent, crossed>>

\* The audit event, and the second look at the target.
Check(t) ==
  /\ At(t, "check")
  /\ Goto(t, "send") \/ Goto(t, "fail")
  /\ UNCHANGED <<now, row, slot, left, sent, crossed>>

\* The request reaches the chat ...
Arrive(t) ==
  /\ At(t, "send")
  /\ sent' = [sent EXCEPT ![task[t].run] = @ + 1]
  /\ Goto(t, "arrived")
  /\ UNCHANGED <<now, row, slot, left, crossed>>

\* ... and its answer the task; an error says nothing of whether it arrived.
Answer(t) ==
  /\ \/ At(t, "arrived") /\ Goto(t, "sent")
     \/ (At(t, "send") \/ At(t, "arrived")) /\ Goto(t, "fail")
  /\ UNCHANGED <<now, row, slot, left, sent, crossed>>

\* mark_digest_delivered.
Close(r, status, at) == row' = [row EXCEPT ![r] = [@ EXCEPT !.status = status, !.when = at]]

Delivered(t) ==
  /\ At(t, "sent") /\ Mine(t)
  /\ Close(task[t].run, "delivered", now)
  /\ task' = [task EXCEPT ![t] = Looping(@)]
  /\ UNCHANGED <<now, slot, left, sent, crossed>>

\* The select hears the signal first and drops the delivery's future. A
\* request it had on the wire is one that Arrive has counted or that is lost;
\* a mark it had sent may be written behind the task's back.
Shutdown(t) ==
  /\ task[t].pc \in {"build", "mark", "check", "send", "arrived"} /\ task[t].signalled
  /\ task' = [task EXCEPT ![t] = [@ EXCEPT !.pc = "fail", !.stopping = TRUE]]
  /\ Drop(t)
  /\ UNCHANGED <<now, row, slot, sent, crossed>>

\* mark_digest_retry_or_failed: the retry's instant is taken, the row read
\* under no fence ...
Fail(t) ==
  /\ At(t, "fail")
  /\ LET s == row[task[t].run]
         over == s.started \/ s.attempts >= MaxAttempts
     IN  task' = [task EXCEPT ![t] =
                    IF over THEN [@ EXCEPT !.pc = "write", !.ends = "failed"]
                    ELSE [@ EXCEPT !.pc = "write", !.at = now + 1, !.ends = "retry_waiting"]]
  /\ UNCHANGED <<now, row, slot, left, sent, crossed>>

Verdict(t) ==
  /\ Close(task[t].run, task[t].ends, task[t].at)
  /\ task' = [task EXCEPT ![t] = IF task[t].stopping THEN Off ELSE Looping(@)]
  /\ UNCHANGED <<now, slot, left, sent, crossed>>

\* ... and written under the claim's.
Write(t) == At(t, "write") /\ Mine(t) /\ Verdict(t)

-----------------------------------------------------------------------------
\* A statement left behind is run after all: nothing tells when. The fenced
\* ones still ask for their claim.
Fenced(s) ==
  IF ~Current(s.run, s.token) THEN UNCHANGED row
  ELSE \/ s.pc = "mark" /\ Record(s.run)
       \/ s.pc = "sent" /\ Close(s.run, "delivered", s.at)
       \/ s.pc = "write" /\ Close(s.run, s.ends, s.at)

Land(s) ==
  /\ left' = left \ {s}
  /\ \/ s.pc = "recover" /\ RecoverAll(s.at)
     \/ s.pc = "insert" /\ Add(s.run)
     \/ s.pc \in {"mark", "sent", "write"} /\ Fenced(s)
  /\ UNCHANGED <<now, task, slot, sent, crossed>>

-----------------------------------------------------------------------------
\* Time passes, the process dies.

Tick ==
  /\ now < MaxNow
  /\ now' = now + 1
  /\ UNCHANGED <<row, task, slot, left, sent, crossed>>

Crash ==
  /\ task' = [t \in Tasks |-> Off]
  /\ slot' = None /\ left' = {}
  /\ UNCHANGED <<now, row, sent, crossed>>

Init ==
  /\ now = 0
  /\ row = [r \in Runs |-> Absent]
  /\ task = [t \in Tasks |-> Off]
  /\ slot = None
  /\ left = {}
  /\ sent = [r \in Runs |-> 0]
  /\ crossed = {}

Step(t) ==
  \/ Abort(t) \/ Begin(t) \/ Stop(t) \/ Recover(t) \/ Look(t) \/ Insert(t) \/ Claim(t)
  \/ Retry(t) \/ Build(t) \/ Mark(t) \/ Check(t) \/ Arrive(t) \/ Answer(t) \/ Delivered(t)
  \/ Shutdown(t) \/ Fail(t) \/ Write(t)

Next ==
  \/ \E ready \in BOOLEAN : Reconcile(ready)
  \/ \E t \in Tasks : Step(t)
  \/ \E s \in left : Land(s)
  \/ Tick \/ Crash

Spec == Init /\ [][Next]_vars

-----------------------------------------------------------------------------
Statuses == {"none", "pending", "in_progress", "retry_waiting", "delivered", "failed"}
Pcs == {"off", "loop", "recover", "startup", "hourly", "insert", "claim", "build", "mark",
        "check", "send", "arrived", "sent", "fail", "write"}
Holding == {"build", "mark", "check", "send", "arrived", "sent", "fail", "write"}

RowType == [status : Statuses, attempts : Nat, token : Nat, started : BOOLEAN, when : Nat]
TaskType == [pc : Pcs, at : Nat, target : Targets \cup {None}, run : Runs \cup {None},
             token : Nat, ends : {"none", "failed", "retry_waiting"},
             begun : BOOLEAN, signalled : BOOLEAN, stopping : BOOLEAN]
LeftType == [pc : Waiting, run : Runs \cup {None}, token : Nat,
             ends : {"none", "failed", "retry_waiting"}, at : Nat]

TypeOK ==
  /\ now \in Nat
  /\ row \in [Runs -> RowType]
  /\ task \in [Tasks -> TaskType]
  /\ slot \in Tasks \cup {None}
  /\ left \subseteq LeftType
  /\ sent \in [Runs -> Nat]
  /\ crossed \subseteq Runs

\* The digest of a run reaches the owner at most once, whatever schedulers
\* overlap, die or are shut down in the middle of it (the send is recorded
\* before it is made and suppresses every retry).
SentOnce == \A r \in Runs : sent[r] <= 1

\* An hour gets a second run for a target only out of two looks that crossed:
\* both runs were being inserted when the later of the looks was made.  A run
\* that is there is seen by every look, the startup's and the hourly one, that
\* of a scheduler overlapping another and that of one whose predecessor left
\* its insert behind.
HourHasOneRun ==
  \A q, r \in Runs :
    /\ q # r /\ SameHour(q, r)
    /\ row[q].status # "none" /\ row[r].status # "none"
    => {q, r} \subseteq crossed

=============================================================================
