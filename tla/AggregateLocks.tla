---------------------------- MODULE AggregateLocks ----------------------------
(***************************************************************************)
(* The process-wide table of aggregate locks (aggregate_locks.rs).  Every  *)
(* high-risk write command locks the aggregates it touches, "group:G",     *)
(* "booking:B", "folio:B" and "room:R", before it opens its transaction.   *)
(* A guard is built in phases: acquire takes the first set of keys,        *)
(* acquire_next adds sets of strictly higher rank while the earlier ones   *)
(* stay locked.  Within a phase the keys are locked one at a time in       *)
(* canonical order, each from a fair (first come, first served) mutex.     *)
(*                                                                         *)
(* A task here is any future that wants locks; which keys it asks for is   *)
(* left open (BookingLocks gives the real commands' plans).                *)
(***************************************************************************)
EXTENDS Integers, Sequences, SequencesExt

CONSTANTS
  Tasks,      \* the futures that acquire locks
  NoTask,     \* the holder of a free mutex
  MaxId,      \* aggregate ids are 1 .. MaxId, in the order of their text
  Keys        \* the lock keys in use

Ids == 1 .. MaxId

Scopes == {"group", "booking", "folio", "room", "other"}

ASSUME KeysAssumption ==
  /\ NoTask \notin Tasks
  /\ MaxId \in Nat
  /\ Keys \subseteq [scope : Scopes, id : Ids]

VARIABLES
  holder,     \* who holds each key's mutex, or was handed it and not yet woke
  waiting,    \* each key's queue of waiting tasks
  pc,         \* "idle", "locking" a phase, or "guarded"
  guard,      \* the keys of the finished phases: AggregateLockGuard.keys
  got,        \* keys of the running phase already locked
  todo        \* keys of the running phase still to lock

lockVars == <<holder, waiting, pc, guard, got, todo>>

-----------------------------------------------------------------------------
(* Keys and their order.                                                    *)

scope_rank(k) ==
  CASE k.scope = "group"   -> 0
    [] k.scope = "booking" -> 1
    [] k.scope = "folio"   -> 2
    [] k.scope = "room"    -> 3
    [] OTHER               -> 9

\* canonicalize_lock_keys: by rank, then by text.
Precedes(a, b) ==
  \/ scope_rank(a) < scope_rank(b)
  \/ scope_rank(a) = scope_rank(b) /\ a.id < b.id

\* k is the next key to lock of the canonicalized set K.
IsFirst(k, K) == k \in K /\ \A j \in K \ {k} : Precedes(k, j)

\* acquire_next's test: the lowest new rank is above the highest held one.
Outranks(K, held) ==
  \A j \in K, k \in held : scope_rank(k) < scope_rank(j)

\* What t's guards hold, the unfinished phase included.
Held(t) == guard[t] \cup got[t]

-----------------------------------------------------------------------------
LockInit ==
  /\ holder  = [k \in Keys |-> NoTask]
  /\ waiting = [k \in Keys |-> <<>>]
  /\ pc      = [t \in Tasks |-> "idle"]
  /\ guard   = [t \in Tasks |-> {}]
  /\ got     = [t \in Tasks |-> {}]
  /\ todo    = [t \in Tasks |-> {}]

\* A phase of keys K begins.
BeginPhase(t, K) ==
  /\ pc'   = [pc EXCEPT ![t] = "locking"]
  /\ todo' = [todo EXCEPT ![t] = K]

\* acquire: the first phase.  An empty set of keys is refused.
Acquire(t, K) ==
  /\ pc[t] = "idle"
  /\ K # {}
  /\ BeginPhase(t, K)
  /\ UNCHANGED <<holder, waiting, guard, got>>

\* acquire_next: the guard is consumed and comes back merged.
AcquireNext(t, K) ==
  /\ pc[t] = "guarded"
  /\ K # {}
  /\ Outranks(K, guard[t])
  /\ BeginPhase(t, K)
  /\ UNCHANGED <<holder, waiting, guard, got>>

\* A waiter joins its mutex's queue.
Push(q, t) == Append(q, t)

\* lock_owned(): take the next key's mutex if it is free, queue otherwise.
Ask(t) ==
  /\ pc[t] = "locking"
  /\ \E k \in todo[t] :
       /\ IsFirst(k, todo[t])
       /\ holder[k] # t
       /\ \A i \in DOMAIN waiting[k] : waiting[k][i] # t
       /\ IF holder[k] = NoTask
          THEN /\ holder' = [holder EXCEPT ![k] = t]
               /\ UNCHANGED waiting
          ELSE /\ waiting' = [waiting EXCEPT ![k] = Push(@, t)]
               /\ UNCHANGED holder
  /\ UNCHANGED <<pc, guard, got, todo>>

\* The loop goes on without awaiting the mutex.
Take_M(t) ==
  /\ pc[t] = "locking"
  /\ \E k \in todo[t] :
       /\ IsFirst(k, todo[t])
       /\ got'  = [got EXCEPT ![t] = @ \cup {k}]
       /\ todo' = [todo EXCEPT ![t] = @ \ {k}]
  /\ UNCHANGED <<holder, waiting, pc, guard>>

\* The mutex is ours: its guard is kept and the loop goes on.
Take(t) ==
  /\ pc[t] = "locking"
  /\ \E k \in todo[t] :
       /\ IsFirst(k, todo[t])
       /\ holder[k] = t
       /\ got'  = [got EXCEPT ![t] = @ \cup {k}]
       /\ todo' = [todo EXCEPT ![t] = @ \ {k}]
  /\ UNCHANGED <<holder, waiting, pc, guard>>

\* The phase is complete: its keys join those of the phases before it.
MergePhase(t) ==
  /\ pc[t] = "locking"
  /\ todo[t] = {}
  /\ pc'    = [pc EXCEPT ![t] = "guarded"]
  /\ guard' = [guard EXCEPT ![t] = @ \cup got[t]]
  /\ got'   = [got EXCEPT ![t] = {}]
  /\ UNCHANGED <<holder, waiting, todo>>

NextHolder(q) == IF q = <<>> THEN NoTask ELSE Head(q)

\* Every mutex t holds goes to the head of its queue, and t leaves the queue
\* it stands in.
Leave(t) ==
  /\ holder' = [k \in Keys |->
       IF holder[k] = t THEN NextHolder(RemoveFirst(waiting[k], t)) ELSE holder[k]]
  /\ waiting' = [k \in Keys |->
       LET q == RemoveFirst(waiting[k], t)
       IN  IF holder[k] = t /\ q # <<>> THEN Tail(q) ELSE q]

\* The guard, or the future that was building it, is dropped.
DropAll(t) ==
  /\ Leave(t)
  /\ pc'    = [pc EXCEPT ![t] = "idle"]
  /\ guard' = [guard EXCEPT ![t] = {}]
  /\ got'   = [got EXCEPT ![t] = {}]
  /\ todo'  = [todo EXCEPT ![t] = {}]

\* The holder is done, or its next phase is refused: acquire_next consumed
\* the guard and returned an error.
Release(t) == pc[t] = "guarded" /\ DropAll(t)

\* The future is dropped while it waits: a lease refresh failed beside it.
Cancel(t) == pc[t] = "locking" /\ DropAll(t)

LockStep(t) ==
  \/ \E K \in SUBSET Keys : Acquire(t, K) \/ AcquireNext(t, K)
  \/ Ask(t) \/ Take(t) \/ MergePhase(t)
  \/ Release(t) \/ Cancel(t)

LockNext == \E t \in Tasks : LockStep(t)

LockSpec == LockInit /\ [][LockNext]_lockVars

-----------------------------------------------------------------------------
(* Properties.                                                              *)

LockTypeOK ==
  /\ holder \in [Keys -> Tasks \cup {NoTask}]
  /\ waiting \in [Keys -> Seq(Tasks)]
  /\ pc \in [Tasks -> {"idle", "locking", "guarded"}]
  /\ guard \in [Tasks -> SUBSET Keys]
  /\ got \in [Tasks -> SUBSET Keys]
  /\ todo \in [Tasks -> SUBSET Keys]
  /\ \A t \in Tasks : \* an idle task has left nothing locked
       /\ pc[t] # "locking" => got[t] = {} /\ todo[t] = {}
       /\ pc[t] = "idle" => guard[t] = {}

\* A guard never names a key another task could have: whatever is cancelled,
\* handed over or merged, each key in a guard, or locked on the way to one,
\* is a mutex its own task holds.
GuardsAreExclusive ==
  \A t \in Tasks : \A k \in Held(t) : holder[k] = t

\* The deadlock invariant acquire_next and canonicalize_lock_keys promise
\* together: a task waits only for keys above everything it holds, across
\* phases and one-shot acquisitions alike.
LocksAreOrdered ==
  \A t \in Tasks : \A k \in Held(t), j \in todo[t] : Precedes(k, j)

\* t cannot go on before u does: u has the key t needs next.
WaitsFor(t, u) ==
  \E k \in todo[t] : IsFirst(k, todo[t]) /\ k \in Held(u)

\* No set of tasks waits in a ring, whatever phases and one-shot sets mix:
\* the cycle of remove_group_service and group_checkout cannot occur.
NoWaitCycle ==
  \A S \in SUBSET Tasks :
    S # {} => \E t \in S : \A u \in S : ~WaitsFor(t, u)

=============================================================================
