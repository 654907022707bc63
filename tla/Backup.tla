------------------------------- MODULE Backup -------------------------------
\* Backups: the coordinator that admits, queues and runs them one at a time
\* and drains them at exit (backup/coordinator.rs, lib.rs), the scheduler
\* (backup/scheduler.rs), the making of one (backup/runner.rs), the directory
\* with its reservations and its retention (backup/storage.rs), and the
\* indicator the front end keeps from the events (RuntimeStateProvider.tsx).
\*
\* One tick of `now` is the resolution of a backup's name; the retention
\* windows and the scheduler's interval are numbers of ticks.
EXTENDS Integers, FiniteSets, Sequences

CONSTANTS
  Callers,     \* commands that may ask for a backup at the same time
  Sched, Quit, \* the scheduler's task and the exit's
  None,        \* nobody
  ManualDays, AutomaticDays,  \* retention_window
  Interval,    \* SCHEDULED_BACKUP_INTERVAL
  MaxNow, MaxRequests  \* bounds: clock, requests and restarts made

ASSUME BackupConstants ==
  /\ ManualDays \in Nat /\ AutomaticDays \in Nat /\ Interval \in Nat
  /\ MaxNow \in Nat /\ MaxRequests \in Nat
  /\ Sched \notin Callers /\ Quit \notin Callers /\ Sched # Quit
  /\ None \notin Callers \cup {Sched, Quit}

VARIABLES
  now,        \* Utc::now()
  files,      \* published backups, by name
  locks,      \* reservations on disk
  job,        \* requests, by who makes them
  pending,    \* pending_jobs
  gate,       \* the mutex's holder
  queue,      \* and its waiters, in the order they will have it
  shutdown,   \* shutdown_started
  exit,       \* the exit: "no", "agents", "draining", "ended", "gone"
  owed,       \* history: a commit made before the exit was asked for is in no backup
  booted,     \* the scheduler has seen to its startup catch-up
  ui,         \* the front end's indicator
  requests    \* bound: requests and restarts made

vars == <<now, files, locks, job, pending, gate, queue, shutdown, exit, owed,
          booted, ui, requests>>

disk == <<files, locks>>
Jobs == Callers \cup {Sched, Quit}
Reasons == {"manual", "checkout", "scheduled", "app_exit"}
ReasonsOf(j) == CASE j = Sched -> {"scheduled"} [] j = Quit -> {"app_exit"}
                  [] OTHER -> {"manual", "checkout"}

NoFile == [reason |-> "none", at |-> 0, n |-> 0]
Idle == [pc |-> "idle", reason |-> "none", name |-> NoFile, latest |-> FALSE, ok |-> FALSE, left |-> 0]

At(j, pc) == exit # "gone" /\ job[j].pc = pc
Goto(j, pc) == job' = [job EXCEPT ![j].pc = pc]
Waiting(q, j) == \E i \in 1 .. Len(q) : q[i] = j

-----------------------------------------------------------------------------
\* Admission.

\* ensure_request_allowed
Allowed(reason) == ~shutdown \/ reason = "app_exit"

\* request_backup, its first look at the flag; a refused request leaves no trace.
Ask(j, reason) ==
  /\ At(j, "idle") /\ Allowed(reason)
  /\ requests < MaxRequests /\ requests' = requests + 1
  /\ job' = [job EXCEPT ![j] = [Idle EXCEPT !.pc = "asked", !.reason = reason]]

Command(j) ==
  /\ \E reason \in ReasonsOf(j) : Ask(j, reason)
  /\ UNCHANGED <<now, disk, pending, gate, queue, shutdown, exit, owed, booted, ui>>

Count(j) ==
  /\ At(j, "asked")
  /\ pending' = pending + 1
  /\ Goto(j, "counted")
  /\ UNCHANGED <<now, disk, gate, queue, shutdown, exit, owed, booted, ui, requests>>

\* The second look: a request that lost the race to the shutdown takes its
\* count back.
Recheck(j) ==
  /\ At(j, "counted")
  /\ IF Allowed(job[j].reason)
     THEN Goto(j, "admitted") /\ UNCHANGED pending
     ELSE job' = [job EXCEPT ![j] = Idle] /\ pending' = pending - 1
  /\ UNCHANGED <<now, disk, gate, queue, shutdown, exit, owed, booted, ui, requests>>

\* gate.lock(): the mutex serves its waiters in the order they came.
Enqueue(j) ==
  /\ At(j, "admitted")
  /\ queue' = Append(queue, j)
  /\ Goto(j, "queued")
  /\ UNCHANGED <<now, disk, pending, gate, shutdown, exit, owed, booted, ui, requests>>

Next1(j) == gate = None /\ queue # <<>> /\ Head(queue) = j

\* The gate is had, and the event tells so.
Start(j) ==
  /\ At(j, "queued") /\ Next1(j)
  /\ gate' = j /\ queue' = Tail(queue)
  /\ ui' = "saving"
  /\ Goto(j, "reserve")
  /\ UNCHANGED <<now, disk, pending, shutdown, exit, owed, booted, requests>>

-----------------------------------------------------------------------------
\* run_backup_once.

Group(reason) == IF reason = "manual" THEN "manual" ELSE "automatic"
Window(reason) == IF reason = "manual" THEN ManualDays ELSE AutomaticDays

\* BackupReservation::acquire: the first index whose name and lock are free.
\* Mutant: only the locks are looked at.
IsFree_M(f) == f \notin locks

IsFree(f) == f \notin files /\ f \notin locks

FirstFree(f) == IsFree(f) /\ \A k \in 0 .. f.n - 1 : ~IsFree([f EXCEPT !.n = k])

Reserve(j) ==
  /\ At(j, "reserve")
  /\ \E n \in 0 .. Cardinality(files) + Cardinality(locks) :
       LET f == [reason |-> job[j].reason, at |-> now, n |-> n]
       IN  /\ FirstFree(f)
           /\ locks' = locks \cup {f}
           /\ job' = [job EXCEPT ![j].pc = "vacuum", ![j].name = f]
  /\ UNCHANGED <<now, files, pending, gate, queue, shutdown, exit, owed, booted, ui,
                 requests>>

\* VACUUM INTO the temporary file: it holds what is committed when it reads,
\* and is the latest there is until the next commit.
Vacuum(j) ==
  /\ At(j, "vacuum")
  /\ job' = [job EXCEPT ![j].pc = "publish", ![j].latest = TRUE]
  /\ UNCHANGED <<now, disk, pending, gate, queue, shutdown, exit, owed, booted, ui,
                 requests>>

\* sync, rename, sync of the directory, drop of the reservation.
Publish(j) ==
  /\ At(j, "publish")
  /\ files' = files \cup {job[j].name}
  /\ locks' = locks \ {job[j].name}
  /\ job' = [job EXCEPT ![j] = [@ EXCEPT !.pc = "prune", !.ok = TRUE, !.name = NoFile,
                                         !.latest = FALSE]]
  /\ owed' = (owed /\ ~job[j].latest)
  /\ UNCHANGED <<now, pending, gate, queue, shutdown, exit, booted, ui, requests>>

\* A step of it fails and the reservation is dropped. When that is the sync of
\* the directory, the file has been renamed and is there for all that.
Fail(j) ==
  /\ \E pc \in {"reserve", "vacuum", "publish"} : At(j, pc)
  /\ \/ UNCHANGED <<files, owed>>
     \/ /\ At(j, "publish")
        /\ files' = files \cup {job[j].name}
        /\ owed' = (owed /\ ~job[j].latest)
  /\ locks' = locks \ {job[j].name}
  /\ job' = [job EXCEPT ![j] = [@ EXCEPT !.pc = "finish", !.name = NoFile, !.latest = FALSE]]
  /\ UNCHANGED <<now, pending, gate, queue, shutdown, exit, booted, ui, requests>>

\* prune_old_backups. (timestamp, index, name), newest first; of two backups
\* of one instant and index the name, that is the reason, decides.
ReasonRank(reason) ==
  CASE reason = "app_exit" -> 0 [] reason = "checkout" -> 1
    [] reason = "manual" -> 2 [] OTHER -> 3
Newer(f, g) ==
  \/ f.at > g.at
  \/ f.at = g.at /\ f.n > g.n
  \/ f.at = g.at /\ f.n = g.n /\ ReasonRank(f.reason) > ReasonRank(g.reason)

\* Mutant: the safety floor is one file, not one for each group.
SafetyFloor_M == {f \in files : \A g \in files : ~Newer(g, f)}

SafetyFloor ==
  {f \in files : \A g \in files : Group(g.reason) = Group(f.reason) => ~Newer(g, f)}

Expired(f) == now - f.at > Window(f.reason)
Removable == {f \in files : Expired(f) /\ f \notin SafetyFloor}

\* Every removable file, or those down to the first that cannot be removed.
Prune(j) ==
  /\ At(j, "prune")
  /\ \/ files' = files \ Removable
     \/ \E stuck \in Removable : files' = files \ {f \in Removable : Newer(f, stuck)}
  /\ Goto(j, "finish")
  /\ UNCHANGED <<now, locks, pending, gate, queue, shutdown, exit, owed, booted, ui,
                 requests>>

\* fetch_sub ...
\* Mutant: the count is read before the job is taken off it.
Finish_M(j) ==
  /\ At(j, "finish")
  /\ pending' = pending - 1
  /\ job' = [job EXCEPT ![j].pc = "emit", ![j].left = pending]
  /\ UNCHANGED <<now, disk, gate, queue, shutdown, exit, owed, booted, ui, requests>>

Finish(j) ==
  /\ At(j, "finish")
  /\ pending' = pending - 1
  /\ job' = [job EXCEPT ![j].pc = "emit", ![j].left = pending - 1]
  /\ UNCHANGED <<now, disk, gate, queue, shutdown, exit, owed, booted, ui, requests>>

\* ... and the event, and the guard dropped. The front end stays at "saving"
\* while the event counts others. The exit ends with its own backup.
Emit(j) ==
  /\ At(j, "emit")
  /\ ui' = IF ~job[j].ok THEN "failed" ELSE IF job[j].left > 0 THEN "saving" ELSE "saved"
  /\ gate' = None
  /\ IF j = Quit THEN exit' = "ended" /\ Goto(j, "done")
     ELSE UNCHANGED exit /\ job' = [job EXCEPT ![j] = Idle]
  /\ UNCHANGED <<now, disk, pending, queue, shutdown, owed, booted, requests>>

\* The indicator's timer.
Hide ==
  /\ ui = "saved" /\ ui' = "idle"
  /\ UNCHANGED <<now, disk, job, pending, gate, queue, shutdown, exit, owed, booted,
                 requests>>

-----------------------------------------------------------------------------
\* The scheduler.

ScheduledAt == {f.at : f \in {g \in files : g.reason = "scheduled"}}

\* should_run_startup_catch_up
CatchUpDue == \A t \in ScheduledAt : now - t > Interval

CatchUp ==
  /\ ~booted /\ At(Sched, "idle")
  /\ booted' = TRUE
  /\ IF CatchUpDue /\ Allowed("scheduled") THEN Ask(Sched, "scheduled")
     ELSE UNCHANGED <<job, requests>>
  /\ UNCHANGED <<now, disk, pending, gate, queue, shutdown, exit, owed, ui>>

\* The interval loop, which the signal of the exit ends.
Scheduled ==
  /\ booted /\ Ask(Sched, "scheduled")
  /\ UNCHANGED <<now, disk, pending, gate, queue, shutdown, exit, owed, booted, ui>>

-----------------------------------------------------------------------------
\* The exit.

\* RunEvent::ExitRequested and begin_exit_drain; asked for again it does nothing.
ExitRequested ==
  /\ exit = "no"
  /\ exit' = "agents" /\ shutdown' = TRUE
  /\ UNCHANGED <<now, disk, job, pending, gate, queue, owed, booted, ui, requests>>

\* The agent supervisor is down: the drain waits for the gate ...
Drain ==
  /\ exit = "agents"
  /\ exit' = "draining"
  /\ queue' = Append(queue, Quit)
  /\ Goto(Quit, "draining")
  /\ UNCHANGED <<now, disk, pending, gate, shutdown, owed, booted, ui, requests>>

\* ... and, having had it, asks for a backup of its own.
\* Mutant: having had it is enough.
Drained_M ==
  /\ At(Quit, "draining") /\ Next1(Quit)
  /\ queue' = Tail(queue)
  /\ exit' = "ended"
  /\ job' = [job EXCEPT ![Quit].pc = "done", ![Quit].ok = TRUE]
  /\ UNCHANGED <<now, disk, pending, gate, shutdown, owed, booted, ui, requests>>

Drained ==
  /\ At(Quit, "draining") /\ Next1(Quit)
  /\ queue' = Tail(queue)
  /\ job' = [job EXCEPT ![Quit] = [Idle EXCEPT !.pc = "asked", !.reason = "app_exit"]]
  /\ UNCHANGED <<now, disk, pending, gate, shutdown, exit, owed, booted, ui, requests>>

\* The drain's future is dropped, with its place in the queue, its guard and
\* its reservation, but not its count.
QuitDropped ==
  /\ exit' = "ended"
  /\ queue' = SelectSeq(queue, LAMBDA j : j # Quit)
  /\ gate' = IF gate = Quit THEN None ELSE gate
  /\ locks' = locks \ {job[Quit].name}
  /\ job' = [job EXCEPT ![Quit] = [Idle EXCEPT !.pc = "done"]]
  /\ UNCHANGED <<now, files, pending, shutdown, owed, booted, ui, requests>>

\* Ten seconds are over. The time-out finds the future only where it awaits:
\* at the gate, twice, and at the database. A step in the file system is a
\* blocking call, and no step after the VACUUM awaits anything.
\* Mutant: the seconds are counted for the first wait only.
TimedOut_M == exit = "draining" /\ At(Quit, "draining") /\ QuitDropped

TimedOut ==
  /\ exit = "draining"
  /\ \E pc \in {"draining", "queued", "vacuum"} : At(Quit, pc)
  /\ QuitDropped

\* The process is gone, with exit(0) or without.
Gone ==
  /\ exit' = "gone"
  /\ job' = [j \in Jobs |-> Idle]
  /\ pending' = 0 /\ gate' = None /\ queue' = <<>> /\ shutdown' = FALSE
  /\ booted' = FALSE /\ ui' = "idle"
  /\ UNCHANGED <<now, disk, owed, requests>>

Exit == exit = "ended" /\ Gone
Crash == exit \notin {"ended", "gone"} /\ Gone

Restart ==
  /\ exit = "gone" /\ exit' = "no"
  /\ requests < MaxRequests /\ requests' = requests + 1
  /\ UNCHANGED <<now, disk, job, pending, gate, queue, shutdown, owed, booted, ui>>

-----------------------------------------------------------------------------
\* A command commits. Commands go on until the process is gone, but nobody
\* promises to back up what they commit after the exit was asked for.
Commit ==
  /\ exit = "no"
  /\ owed' = TRUE
  /\ job' = [j \in Jobs |-> [job[j] EXCEPT !.latest = FALSE]]
  /\ UNCHANGED <<now, disk, pending, gate, queue, shutdown, exit, booted, ui, requests>>

Tick ==
  /\ now < MaxNow
  /\ now' = now + 1
  /\ UNCHANGED <<disk, job, pending, gate, queue, shutdown, exit, owed, booted, ui,
                 requests>>

Init ==
  /\ now = 0 /\ files = {} /\ locks = {}
  /\ job = [j \in Jobs |-> Idle]
  /\ pending = 0 /\ gate = None /\ queue = <<>> /\ shutdown = FALSE
  /\ exit = "no" /\ owed = FALSE /\ booted = FALSE /\ ui = "idle" /\ requests = 0

JobStep(j) ==
  \/ Count(j) \/ Recheck(j) \/ Enqueue(j) \/ Start(j) \/ Reserve(j) \/ Vacuum(j) \/ Publish(j)
  \/ Fail(j) \/ Prune(j) \/ Finish(j) \/ Emit(j)

Next ==
  \/ \E j \in Callers : Command(j)
  \/ \E j \in Jobs : JobStep(j)
  \/ Hide \/ CatchUp \/ Scheduled
  \/ ExitRequested \/ Drain \/ Drained \/ TimedOut \/ Exit \/ Crash \/ Restart
  \/ Commit \/ Tick

\* What the exit's task does with neither the gate, the database nor the file
\* system to wait for.
QuitRuns == Count(Quit) \/ Recheck(Quit) \/ Enqueue(Quit) \/ Finish(Quit) \/ Emit(Quit)

Fairness == WF_vars(Drain) /\ WF_vars(TimedOut) /\ WF_vars(Exit) /\ WF_vars(QuitRuns)

Spec == Init /\ [][Next]_vars
FairSpec == Spec /\ Fairness

-----------------------------------------------------------------------------
\* While a job holds the gate the indicator says so, and once nobody is being
\* counted, queued or run it does not say "saving" any more: the events come
\* in the order of the jobs, and each counts those that will still emit one.
IndicatorIsTrue ==
  /\ gate # None => ui = "saving"
  /\ (\A j \in Jobs : job[j].pc = "idle") /\ ~shutdown => ui # "saving"

\* A backup never takes the place of another one: two of one reason in one
\* second get two names, whatever crashes left behind.
NeverOverwrites ==
  [][\A j \in Jobs : job[j].pc = "publish" /\ job'[j].pc \in {"prune", "finish"} =>
                       job[j].name \notin files]_vars

\* Retention never takes a group's last backup, nor one while a newer one of
\* its group is missing.
KeepsTheNewest ==
  [][\A f \in files \ files' :
       \E g \in files' : Group(g.reason) = Group(f.reason) /\ Newer(g, f)]_vars

\* When an exit's drain has neither timed out nor failed, every commit made
\* before the exit was asked for is in a backup.
ExitBackupCoversCommits == exit = "ended" /\ job[Quit].ok => ~owed

\* An exit ends the process though the backup it waits for, or the reading of
\* the database for its own, hangs. Its own steps in the file system are all it
\* can hang in, and while it hangs in one it is in that one.
Blocking == {"reserve", "publish", "prune"}
ExitEnds == exit = "agents" ~> (exit = "gone" \/ [](job[Quit].pc \in Blocking))

-----------------------------------------------------------------------------
Files == [reason : Reasons, at : Nat, n : Nat]
Pcs == {"idle", "asked", "counted", "admitted", "queued", "reserve", "vacuum", "publish",
        "prune", "finish", "emit", "draining", "done"}
JobType == [pc : Pcs, reason : Reasons \cup {"none"}, name : Files \cup {NoFile}, latest : BOOLEAN,
            ok : BOOLEAN, left : Nat]
TypeOK ==
  /\ now \in Nat /\ files \subseteq Files /\ locks \subseteq Files
  /\ job \in [Jobs -> JobType]
  /\ pending \in Nat /\ gate \in Jobs \cup {None} /\ queue \in Seq(Jobs)
  /\ shutdown \in BOOLEAN /\ exit \in {"no", "agents", "draining", "ended", "gone"}
  /\ owed \in BOOLEAN /\ booted \in BOOLEAN /\ ui \in {"idle", "saving", "saved", "failed"}
  /\ requests \in Nat
=============================================================================
