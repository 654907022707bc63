---------------------------- MODULE CommandLedger ----------------------------
(***************************************************************************)
(* The durable command ledger of the PMS core: the table                   *)
(* command_idempotency and the WriteCommandExecutor that drives it.        *)
(*                                                                         *)
(* A write command arrives as a call that carries a key (command name and  *)
(* idempotency key) and the hash of its payload.  The executor claims the  *)
(* key's row under a lease, waits for the aggregate locks, runs the        *)
(* business service and completes the row in ONE sqlite transaction, or    *)
(* records the failure.  Calls of one process interleave at every await,   *)
(* the process may crash between any two statements, the lease may lapse   *)
(* under a slow owner, and an operator may act on a row meanwhile.         *)
(*                                                                         *)
(* One action is one sqlite statement or transaction: SQLite has a single  *)
(* writer, and a transaction that is rolled back leaves no trace.          *)
(***************************************************************************)
EXTENDS Integers

CONSTANTS
  Calls,       \* invocations of the executor; a call is also its claim token
  Keys,        \* (command_name, idempotency_key) pairs
  Hashes,      \* request hashes
  Nil,         \* SQL NULL
  Operator,    \* the author of the RECOVERY_REQUIRED error
  Path,        \* Path[k]: the executor entry point the command of k goes through
  HighRisk,    \* keys of the commands command_recovery_risk_level calls High
  LeaseTime,   \* CLAIM_LEASE_SECONDS
  Horizon,     \* bound: claims and refreshes happen up to this instant
  ClockJumps   \* whether the wall clock may be set back

ASSUME LedgerAssumption ==
  /\ Nil \notin Calls \cup Hashes
  /\ Operator \notin Calls \cup {Nil}
  /\ Path \in [Keys -> {"plain", "guarded", "resolved", "atomic"}]
  /\ HighRisk \subseteq Keys
  /\ LeaseTime \in Nat \ {0}
  /\ Horizon \in Nat
  /\ ClockJumps \in BOOLEAN

VARIABLES
  request,   \* request[c]: the key and the hash call c was made with
  now,       \* the wall clock, Utc::now()
  ledger,    \* the rows of command_idempotency
  effects,   \* business writes that were committed: who wrote for which key
  call,      \* where each call stands and what it answered
  audit      \* the rows of command_recovery_actions

vars == <<request, now, ledger, effects, call, audit>>

NoLease == -1

Leases == Nat \cup {NoLease}

Failures == {"retryable", "terminal"}

InFlight == {"fetch", "reclaim", "insert", "resolve", "guard", "lock_keys",
             "run", "finalize", "atomic"}

\* Where a call may hold a claim.
Holding == {"guard", "lock_keys", "run", "finalize", "lost"}

PCs == InFlight \cup {"idle", "done", "lost"}

\* "unrecorded" stands for every error the ledger does not keep.
Kinds == {"none", "ok", "replayed", "hash_mismatch", "in_flight", "terminal",
          "retryable", "unrecorded"}

Authors == Calls \cup {Nil, Operator}

Reply == [kind : Kinds, by : Authors]

CallState == [pc : PCs, readAt : Nat, failure : Failures, reply : Reply]

Statuses == {"absent", "in_progress", "completed", "failed_retryable",
             "failed_terminal"}

Row == [status : Statuses, hash : Hashes \cup {Nil}, token : Calls \cup {Nil},
        lease : Leases, locks : Calls \cup {Nil},
        response : Calls \cup {Nil}, error : Authors, dismissed : BOOLEAN]

Absent == [status |-> "absent", hash |-> Nil, token |-> Nil,
           lease |-> NoLease, locks |-> Nil, response |-> Nil, error |-> Nil,
           dismissed |-> FALSE]

Key(c) == request[c].key
Hash(c) == request[c].hash
RowOf(c) == ledger[Key(c)]

(***************************************************************************)
(* The predicates of the statements' WHERE clauses.                        *)
(***************************************************************************)

\* The fence of every UPDATE an owner makes.
Owns(c) == RowOf(c).status = "in_progress" /\ RowOf(c).token = c

Expired(row, t) == row.status = "in_progress" /\ row.lease # NoLease /\ row.lease <= t

\* Definitions whose name ends in _M are mutated forms: the definition that
\* follows is replaced by one to show that a property would notice.
ReclaimableAnyPayload_M(row, hash, t) ==
  \/ row.status = "failed_retryable"
  \/ row.status = "in_progress" /\ (row.lease = NoLease \/ row.lease <= t)

Reclaimable(row, hash, t) ==
  /\ row.hash = hash
  /\ \/ row.status = "failed_retryable"
     \/ row.status = "in_progress" /\ (row.lease = NoLease \/ row.lease <= t)

Recoverable(row, t) == row.status = "failed_retryable" \/ Expired(row, t)

\* What an existing row answers to a call with this hash.
Resolution(row, hash) ==
  CASE row.hash # hash -> [kind |-> "hash_mismatch", by |-> Nil]
    [] row.hash = hash /\ row.status = "completed" ->
         [kind |-> "replayed", by |-> row.response]
    [] row.hash = hash /\ row.status = "failed_terminal" ->
         [kind |-> "terminal", by |-> row.error]
    [] OTHER -> [kind |-> "in_flight", by |-> Nil]

(***************************************************************************)
(* Steps of a call.                                                        *)
(***************************************************************************)
Goto(c, pc) == call' = [call EXCEPT ![c].pc = pc]

Answer(c, kind, by) ==
  call' = [call EXCEPT ![c].pc = "done", ![c].reply = [kind |-> kind, by |-> by]]

FailWith(c, failure) ==
  call' = [call EXCEPT ![c].pc = "finalize", ![c].failure = failure]

Resolve(c) ==
  LET r == Resolution(RowOf(c), Hash(c)) IN Answer(c, r.kind, r.by)

Write(c, row) == ledger' = [ledger EXCEPT ![Key(c)] = row]

\* claim_or_reclaim reads the clock once, before it reads the row.
Submit(c) ==
  /\ call[c].pc = "idle"
  /\ now <= Horizon
  /\ call' = [call EXCEPT
       ![c].pc = IF Path[Key(c)] = "atomic" THEN "atomic" ELSE "fetch",
       ![c].readAt = now]
  /\ UNCHANGED <<request, now, ledger, effects, audit>>

Fetch(c) ==
  /\ call[c].pc = "fetch"
  /\ \/ RowOf(c).status = "absent" /\ Goto(c, "insert")
     \/ /\ RowOf(c).status # "absent"
        /\ Reclaimable(RowOf(c), Hash(c), call[c].readAt)
        /\ Goto(c, "reclaim")
     \/ /\ RowOf(c).status # "absent"
        /\ ~Reclaimable(RowOf(c), Hash(c), call[c].readAt)
        /\ Resolve(c)
  /\ UNCHANGED <<request, now, ledger, effects, audit>>

\* The pc a call goes to once it holds the claim.
Claimed(c) == IF Path[Key(c)] = "plain" THEN "run" ELSE "guard"

NewClaim(c) ==
  [Absent EXCEPT !.status = "in_progress", !.hash = Hash(c), !.token = c,
                 !.lease = call[c].readAt + LeaseTime]

Insert_M(c) ==
  /\ call[c].pc = "insert"
  /\ \/ /\ RowOf(c).status = "absent"
        /\ Write(c, [NewClaim(c) EXCEPT !.lease = NoLease])
        /\ Goto(c, Claimed(c))
     \/ RowOf(c).status # "absent" /\ Goto(c, "resolve") /\ UNCHANGED ledger
  /\ UNCHANGED <<request, now, effects, audit>>

\* INSERT OR IGNORE under UNIQUE(command_name, idempotency_key).
Insert(c) ==
  /\ call[c].pc = "insert"
  /\ \/ /\ RowOf(c).status = "absent"
        /\ Write(c, NewClaim(c))
        /\ Goto(c, Claimed(c))
     \/ RowOf(c).status # "absent" /\ Goto(c, "resolve") /\ UNCHANGED ledger
  /\ UNCHANGED <<request, now, effects, audit>>

TakenOver(c, row) ==
  [row EXCEPT !.status = "in_progress", !.token = c,
              !.lease = call[c].readAt + LeaseTime, !.response = Nil,
              !.error = Nil, !.dismissed = FALSE]

Reclaim_M(c) ==
  /\ call[c].pc = "reclaim"
  /\ \/ /\ RowOf(c).hash = Hash(c)
        /\ RowOf(c).status \in {"in_progress", "failed_retryable"}
        /\ Write(c, TakenOver(c, RowOf(c)))
        /\ Goto(c, Claimed(c))
     \/ /\ RowOf(c).status \in {"completed", "failed_terminal"}
        /\ Goto(c, "resolve")
        /\ UNCHANGED ledger
  /\ UNCHANGED <<request, now, effects, audit>>

\* The conditional UPDATE judges the row again, against the same instant.
Reclaim(c) ==
  /\ call[c].pc = "reclaim"
  /\ \/ /\ Reclaimable(RowOf(c), Hash(c), call[c].readAt)
        /\ Write(c, TakenOver(c, RowOf(c)))
        /\ Goto(c, Claimed(c))
     \/ /\ ~Reclaimable(RowOf(c), Hash(c), call[c].readAt)
        /\ Goto(c, "resolve")
        /\ UNCHANGED ledger
  /\ UNCHANGED <<request, now, effects, audit>>

ResolveExisting(c) ==
  /\ call[c].pc = "resolve"
  /\ Resolve(c)
  /\ UNCHANGED <<request, now, ledger, effects, audit>>

\* The aggregate locks are held: the guard future is ready.
AcquireGuard(c) ==
  /\ call[c].pc = "guard"
  /\ Goto(c, IF Path[Key(c)] = "resolved" THEN "lock_keys" ELSE "run")
  /\ UNCHANGED <<request, now, ledger, effects, audit>>

\* The guard future, or a refresh with an error that is not transient, fails.
GuardFails(c) ==
  /\ call[c].pc = "guard"
  /\ \E f \in Failures : FailWith(c, f)
  /\ UNCHANGED <<request, now, ledger, effects, audit>>

Refreshed(row) == [row EXCEPT !.lease = now + LeaseTime]

\* The interval of await_pre_transaction_guard ticks while the guard waits.
RefreshLease(c) ==
  /\ call[c].pc = "guard"
  /\ now <= Horizon
  /\ \/ /\ Owns(c)
        /\ Write(c, Refreshed(RowOf(c)))
        /\ UNCHANGED call
     \/ ~Owns(c) /\ FailWith(c, "terminal") /\ UNCHANGED ledger
  /\ UNCHANGED <<request, now, effects, audit>>

\* A timed-out refresh may have reached the database all the same.
RefreshTimesOut(c) ==
  /\ call[c].pc = "guard"
  /\ now <= Horizon
  /\ FailWith(c, "retryable")
  /\ \/ UNCHANGED ledger
     \/ Owns(c) /\ Write(c, Refreshed(RowOf(c)))
  /\ UNCHANGED <<request, now, effects, audit>>

\* refresh_claim_lock_keys, for the keys that were resolved under the locks.
RecordLockKeys(c) ==
  /\ call[c].pc = "lock_keys"
  /\ \/ /\ Owns(c)
        /\ Write(c, [RowOf(c) EXCEPT !.locks = c])
        /\ Goto(c, "run")
     \/ ~Owns(c) /\ FailWith(c, "terminal") /\ UNCHANGED ledger
     \/ \E f \in Failures : FailWith(c, f) /\ UNCHANGED ledger
  /\ UNCHANGED <<request, now, effects, audit>>

CompletedBy(c, row) ==
  [row EXCEPT !.status = "completed", !.lease = NoLease, !.response = c,
              !.error = Nil, !.dismissed = FALSE]

\* run_claimed: the service's writes, the outbox event and the completion of
\* the row commit together.
CommitClaimed(c) ==
  /\ call[c].pc = "run"
  /\ Owns(c)
  /\ effects' = effects \cup {[key |-> Key(c), hash |-> Hash(c), by |-> c]}
  /\ Write(c, CompletedBy(c, RowOf(c)))
  /\ Answer(c, "ok", c)
  /\ UNCHANGED <<request, now, audit>>

LoseClaim_M(c) ==
  /\ call[c].pc = "run"
  /\ ~Owns(c)
  /\ effects' = effects \cup {[key |-> Key(c), hash |-> Hash(c), by |-> c]}
  /\ Answer(c, "unrecorded", Nil)
  /\ UNCHANGED <<request, now, ledger, audit>>

\* The completion touches no row: the claim is somebody else's by now, and the
\* service's writes are rolled back.
LoseClaim(c) ==
  /\ call[c].pc = "run"
  /\ ~Owns(c)
  /\ Answer(c, "unrecorded", Nil)
  /\ UNCHANGED <<request, now, ledger, effects, audit>>

\* The service or the outbox refuses: rollback, then finalize_failure.
ServiceFails(c) ==
  /\ call[c].pc = "run"
  /\ \E f \in Failures : FailWith(c, f)
  /\ UNCHANGED <<request, now, ledger, effects, audit>>

FailedByDismissed_M(c, row) ==
  [row EXCEPT !.status = IF call[c].failure = "retryable"
                           THEN "failed_retryable" ELSE "failed_terminal",
              !.lease = NoLease, !.response = Nil, !.error = c]

FailedBy(c, row) ==
  [row EXCEPT !.status = IF call[c].failure = "retryable"
                           THEN "failed_retryable" ELSE "failed_terminal",
              !.lease = NoLease, !.response = Nil, !.error = c,
              !.dismissed = FALSE]

FinalizeUnfenced_M(c) ==
  /\ call[c].pc = "finalize"
  /\ Write(c, FailedBy(c, RowOf(c)))
  /\ Answer(c, call[c].failure, c)
  /\ UNCHANGED <<request, now, effects, audit>>

FinalizeStuck_M(c) ==
  /\ call[c].pc = "finalize"
  /\ Owns(c) /\ Write(c, FailedBy(c, RowOf(c))) /\ Answer(c, call[c].failure, c)
  /\ UNCHANGED <<request, now, effects, audit>>

Finalize(c) ==
  /\ call[c].pc = "finalize"
  /\ \/ Owns(c) /\ Write(c, FailedBy(c, RowOf(c))) /\ Answer(c, call[c].failure, c)
     \/ ~Owns(c) /\ Answer(c, "unrecorded", Nil) /\ UNCHANGED ledger
  /\ UNCHANGED <<request, now, effects, audit>>

\* execute_atomic: claim, service and completion in one transaction.
ExecuteAtomic(c) ==
  /\ call[c].pc = "atomic"
  /\ \/ RowOf(c).status # "absent" /\ Resolve(c) /\ UNCHANGED <<ledger, effects>>
     \/ /\ RowOf(c).status = "absent"
        /\ effects' = effects \cup {[key |-> Key(c), hash |-> Hash(c), by |-> c]}
        /\ Write(c, CompletedBy(c, [Absent EXCEPT !.hash = Hash(c), !.token = c]))
        /\ Answer(c, "ok", c)
  /\ UNCHANGED <<request, now, audit>>

\* A statement fails with a database error (or, in execute_atomic, the service
\* refuses): the call returns and leaves the row as it is.
StatementFails(c) ==
  /\ call[c].pc \in InFlight \ {"guard", "lock_keys"}
  /\ Answer(c, "unrecorded", Nil)
  /\ UNCHANGED <<request, now, ledger, effects, audit>>

(***************************************************************************)
(* The operator's recovery actions, each one BEGIN IMMEDIATE transaction.  *)
(***************************************************************************)
Approved(k, confirmed) == k \in HighRisk => confirmed

Record(k, action, confirmed) ==
  audit' = audit \cup {[key |-> k, action |-> action, confirmed |-> confirmed]}

RequestRetry(k, confirmed) ==
  /\ Recoverable(ledger[k], now)
  /\ Approved(k, confirmed)
  /\ Record(k, "retry_requested", confirmed)
  /\ ledger' = [ledger EXCEPT ![k] = [ledger[k] EXCEPT !.dismissed = FALSE]]
  /\ UNCHANGED <<request, now, effects, call>>

Dismiss(k, confirmed) ==
  /\ Recoverable(ledger[k], now) /\ ~ledger[k].dismissed
  /\ Approved(k, confirmed)
  /\ Record(k, "dismissed", confirmed)
  /\ ledger' = [ledger EXCEPT ![k] = [ledger[k] EXCEPT !.dismissed = TRUE]]
  /\ UNCHANGED <<request, now, effects, call>>

GivenUp(row) ==
  [row EXCEPT !.status = "failed_terminal", !.response = Nil,
              !.error = Operator, !.lease = NoLease, !.dismissed = FALSE]

MarkTerminal(k, confirmed) ==
  /\ Recoverable(ledger[k], now)
  /\ Approved(k, confirmed)
  /\ Record(k, "marked_terminal", confirmed)
  /\ ledger' = [ledger EXCEPT ![k] = GivenUp(ledger[k])]
  /\ UNCHANGED <<request, now, effects, call>>

(***************************************************************************)
(* The environment.                                                        *)
(***************************************************************************)

\* The process dies: every call in flight is gone, the tables stay.
Crash ==
  /\ \E c \in Calls : call[c].pc \in InFlight
  /\ call' = [c \in Calls |-> IF call[c].pc \in InFlight
                                THEN [call[c] EXCEPT !.pc = "lost"] ELSE call[c]]
  /\ UNCHANGED <<request, now, ledger, effects, audit>>

Tick ==
  /\ now < Horizon + LeaseTime
  /\ now' = now + 1
  /\ UNCHANGED <<request, ledger, effects, call, audit>>

SetClockBack ==
  /\ ClockJumps
  /\ now > 0
  /\ now' = now - 1
  /\ UNCHANGED <<request, ledger, effects, call, audit>>

Init ==
  /\ request \in [Calls -> [key : Keys, hash : Hashes]]
  /\ now = 0
  /\ ledger = [k \in Keys |-> Absent]
  /\ effects = {}
  /\ call = [c \in Calls |-> [pc |-> "idle", readAt |-> 0, failure |-> "retryable",
                              reply |-> [kind |-> "none", by |-> Nil]]]
  /\ audit = {}

Claim(c) == Submit(c) \/ Fetch(c) \/ Insert(c) \/ Reclaim(c) \/ ResolveExisting(c)

Guard(c) == \/ AcquireGuard(c) \/ GuardFails(c) \/ RefreshLease(c)
            \/ RefreshTimesOut(c) \/ RecordLockKeys(c)

Run(c) == \/ CommitClaimed(c) \/ LoseClaim(c) \/ ServiceFails(c) \/ Finalize(c)
          \/ ExecuteAtomic(c) \/ StatementFails(c)

Recover(k) == \E confirmed \in BOOLEAN :
  RequestRetry(k, confirmed) \/ Dismiss(k, confirmed) \/ MarkTerminal(k, confirmed)

Next ==
  \/ \E c \in Calls : Claim(c) \/ Guard(c) \/ Run(c)
  \/ \E k \in Keys : Recover(k)
  \/ Crash \/ Tick \/ SetClockBack

Spec == Init /\ [][Next]_vars

(***************************************************************************)
(* Fairness: tokio polls every ready task and the database answers, so a   *)
(* call that can take its next regular step takes it in the end: no        *)
(* progress is owed to a failure.  A guard future that keeps waiting is    *)
(* the one thing the executor cannot bound by itself; AggregateLocks shows *)
(* that it is granted.  Time passes.                                       *)
(***************************************************************************)
Advance(c) ==
  \/ Fetch(c) \/ Insert(c) \/ Reclaim(c) \/ ResolveExisting(c)
  \/ AcquireGuard(c) \/ RecordLockKeys(c)
  \/ CommitClaimed(c) \/ LoseClaim(c) \/ Finalize(c) \/ ExecuteAtomic(c)

FairSpec == Spec /\ WF_vars(Tick) /\ \A c \in Calls : WF_vars(Advance(c))

(***************************************************************************)
(* Properties.                                                             *)
(***************************************************************************)
TypeOK ==
  /\ request \in [Calls -> [key : Keys, hash : Hashes]]
  /\ now \in Nat
  /\ ledger \in [Keys -> Row]
  /\ effects \subseteq [key : Keys, hash : Hashes, by : Calls]
  /\ call \in [Calls -> CallState]
  /\ audit \subseteq [key : Keys,
                      action : {"retry_requested", "dismissed", "marked_terminal"},
                      confirmed : BOOLEAN]

\* At most one call ever applies its business write under a key, whatever the
\* crashes, retries, reclaims and lapsed leases: run_claimed rolls the service
\* back unless the completion still finds the claim.
EffectAtMostOnce ==
  \A e, f \in effects : e.key = f.key => e = f

\* The ledger and the business tables agree at every instant a crash could
\* strike: a key's write is there exactly when its row is completed, with the
\* payload hash and the author of the recorded response.
EffectIffCompleted ==
  /\ \A e \in effects : /\ ledger[e.key].status = "completed"
                        /\ ledger[e.key].hash = e.hash
                        /\ ledger[e.key].response = e.by
  /\ \A k \in Keys : ledger[k].status = "completed" =>
       [key |-> k, hash |-> ledger[k].hash, by |-> ledger[k].response] \in effects

\* An answer given to a caller stays true: a success, first or replayed, is the
\* recorded response for the caller's own payload; a recorded refusal is the
\* row's terminal error.  Later claims, crashes and operators never undo it.
AnswersAreKept ==
  \A c \in Calls :
    /\ call[c].reply.kind \in {"ok", "replayed"} =>
         /\ RowOf(c).status = "completed"
         /\ RowOf(c).response = call[c].reply.by
         /\ RowOf(c).hash = Hash(c)
    /\ call[c].reply.kind = "terminal" =>
         /\ RowOf(c).status = "failed_terminal"
         /\ RowOf(c).error = call[c].reply.by
         /\ RowOf(c).hash = Hash(c)

\* Whoever holds a live claim under the key is still on its way or was lost in
\* a crash, or returned an error the ledger did not keep: no call that was
\* answered from the ledger leaves a claim behind.
ClaimHasAnOwner ==
  \A k \in Keys : ledger[k].status = "in_progress" =>
    LET c == ledger[k].token IN
    /\ c \in Calls /\ request[c] = [key |-> k, hash |-> ledger[k].hash]
    /\ \/ call[c].pc \in Holding
       \/ call[c].pc = "done" /\ call[c].reply.kind = "unrecorded"

\* Nothing is told before a call ends.
SilentUntilDone ==
  \A c \in Calls : call[c].pc # "done" =>
    call[c].reply = [kind |-> "none", by |-> Nil]

\* A key has a payload exactly when it has a row.
RowsHavePayloads ==
  \A k \in Keys : IF ledger[k].status = "absent" THEN ledger[k] = Absent
                                                ELSE ledger[k].hash \in Hashes

\* With these, the owners and the verdicts this is the induction that
\* makes the executor exactly-once.
LedgerInv ==
  /\ TypeOK
  /\ SilentUntilDone
  /\ RowsHavePayloads
  /\ ClaimHasAnOwner
  /\ EffectIffCompleted
  /\ AnswersAreKept

\* While the clock runs forward, nobody takes a claim, or closes it over the
\* owner's head, before its lease lapsed: the judgement made when the row was
\* read is made again by the UPDATE.
LeaseIsRespected ==
  [][\A k \in Keys :
       /\ ledger[k].status = "in_progress"
       /\ ledger'[k].token # ledger[k].token \/ ledger'[k].error = Operator
       => ledger[k].lease <= now]_vars

\* A dismissal hides the attempt the operator looked at and no other: as soon
\* as the key is claimed anew or its attempt ends, the row is visible again.
DismissalCoversOneAttempt ==
  [][\A k \in Keys :
       \/ ledger'[k].token # ledger[k].token
       \/ ledger'[k].status # ledger[k].status
       => ~ledger'[k].dismissed]_vars

\* Every call that was made is answered, unless the process died under it.
CallsAreAnswered ==
  \A c \in Calls : call[c].pc \in InFlight ~> call[c].pc \in {"done", "lost"}

\* No claim stays locked forever: it ends, or its lease lapses and the next
\* retry of the command may take it over.
ClaimsComeFree ==
  \A k \in Keys :
    ledger[k].status = "in_progress"
      ~> (ledger[k].status # "in_progress" \/ Expired(ledger[k], now))

(***************************************************************************)
(* What the ledger promises, in terms of CommandOnce: a row that may still *)
(* be retried is an open verdict.                                          *)
(***************************************************************************)
Verdict(row) ==
  [hash |-> row.hash,
   state |-> CASE row.status = "completed" -> "done"
               [] row.status = "failed_terminal" -> "failed"
               [] OTHER -> "open",
   by |-> CASE row.status = "completed" -> row.response
            [] row.status = "failed_terminal" -> row.error
            [] OTHER -> Nil]

Once == INSTANCE CommandOnce WITH
  verdict <- [k \in Keys |-> Verdict(ledger[k])],
  answer <- [c \in Calls |-> call[c].reply]

\* The executor implements "one verdict per key, told to everybody alike".
ImplementsCommandOnce == Once!Spec

=============================================================================
