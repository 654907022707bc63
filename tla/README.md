# CapyInn in TLA+

CapyInn is a desktop property management system: a Tauri application whose
Rust core (`src/mhm/src-tauri/src`; paths below are relative to it unless they
begin with `docs/` or end in `.ts`, `.tsx`) keeps rooms, stays, money and a
durable command ledger in one SQLite file (WAL mode, a busy timeout of five
seconds, a pool of connections, one writer at a time), with a React front end in
one web view and a Telegram digest for the owner.  This directory holds TLA+
models of that core, the TLC runs that check them, and proofs that the TLA+
proof system checks.  `PROJECT.json` lists components, runs, mutated definitions,
the source lines each definition stands for, findings, hazards and theorems.

## 1. Inventory

| component | state it keeps | operations | interacts through | what is hard | what makes it correct |
|---|---|---|---|---|---|
| Command ledger (`command_idempotency.rs`, `command_idempotency/`, `db/command_safety.rs`) | table `command_idempotency` | `execute`, `execute_with_pre_transaction_guard`, `execute_with_resolved_guard`, `execute_atomic` | every write command goes through it | two calls for one key, leases that lapse under a slow owner, crashes between statements, refresh timeouts | a command's effect happens at most once and exactly when its row says completed; an answer stays true |
| Recovery queue (`command_recovery.rs`) | the same table, `command_recovery_actions` | request retry, dismiss, mark terminal | races with slow owners | judging a lease the owner is renewing | a dismissal hides one attempt |
| Aggregate locks (`aggregate_locks.rs`) | map of tokio mutexes | `acquire`, `acquire_next`, drop | taken before a command's transaction | phases, one-shot sets, cancellation | exclusion, no ring of waiters |
| Booking lock plans (`services/booking/*`) | `bookings`, `rooms` | check in/out, extend, shorten, void, change room, group check-out, reservation commands | locks, then `BEGIN IMMEDIATE`, then each other's rows | rows read before the lock or outside the transaction | the room grid equals the stays |
| Stays, reservations, late entries, voids (`services/booking/*`) | `bookings`, `rooms`, `room_calendar` | the command bodies | one transaction each | long sequences of legal commands, desks that look and then write | one guest per room and night; past rows are where the guest slept |
| Folio and groups (`billing_service.rs`, `group_lifecycle.rs`, `stay_lifecycle.rs`, ...) | `transactions`, `bookings.paid_amount`, `booking_groups` | charges, payments, deposits, rates, group check-in and check-out | inside the command bodies | rounding, prices that fall after money was taken, single commands on members of a group | money is neither lost nor made up; charges are the price |
| Invoices (`invoice_generation.rs`) | `invoices` | issue, issue again, void | the folio | a number deleted and given anew | a number is one booking's |
| Pricing engine (`pricing.rs`, `domain/booking/pricing.rs`, `money.rs`) | none | price of a stay | called by every command that prices | rounding, surcharges, special days | night by night costs what the whole costs |
| Outbox (`outbox.rs`) | table `outbox_events` | insert with the command, claim, deliver, retry, give up | written by the ledger's commit | leases, slow subscribers, per-aggregate order | nothing is lost, order per aggregate |
| Digest and its supervisor (`agent/digest/`, `agent/supervisor.rs`) | table `agent_digest_runs`, the task's handle | start, stop, abort; find, claim, send, retry, recover a run | settings, network | two schedulers alive together, a crash between send and record | a digest reaches its chat once |
| Backup (`backup/`, `lib.rs`, `RuntimeStateProvider.tsx`) | the gate, the count, files and reservations | request, run, publish, prune, drain at exit | settings changes, check-outs, scheduler, exit, the web view's indicator | requests during the exit, files that cannot be removed, crashes with a reservation held | no backup replaces another; the newest stays; an exit covers what was committed, and ends unless its own backup hangs |
| Assistant desk (`useAssistantStore.ts`, `useAuthStore.ts`, `commands/assistant*.rs`) | the panel's store, `assistant_conversations`, `assistant_messages`, the person logged in | turn, approve, dismiss, open, list, delete, log in and out | promises that land late | results of an earlier session or another person | a card is approved once; what is on file is its owner's |
| Guest declaration (`declaration/`, `commands/declaration.rs`) | identities, links, batches, entries, files | save, link, unlink, export, count | the police portal, by hand | a file, then a batch, then its rows, each its own statement; the clock names the file | what counts as declared was filed |
| Night audit, group services, guest manifests, restore drill, drafts, gateway, schema, authentication, settings, rooms, diagnostics, OCR, queries, front end | - | - | - | sequential, read-only, pure or disabled | section 7 |

## 2. Plan

Done, in this order:

1. `CommandLedger` and `CommandOnce`: what every write rests on.
2. `AggregateLocks` and, on top of it, `BookingLocks`: what serializes writes.
3. `StayCalendar` and, on top of it, `StayHistory`: a booking's life.
4. `Outbox`: how a committed event leaves the process.
5. `Folio` and, on top of it, `GroupFolio`: the money of bookings and groups;
   `StayPrice` and `StayQuote`: what the prices are.
6. `Digest`, `Backup`, `AssistantDesk`, `Declaration`: the machinery around it.

Left, most important first:

1. `folio_lines` and group services beside `GroupFolio`, and the night audit
   over its sums.
2. A composition of `GroupFolio` and `StayCalendar`: a group's status against
   its members' nights.
3. The Telegram chat workflow of the supervisor, should the shipped profile
   enable it: its update offset is persisted under an idempotency key named
   after the offset, so an offset set back by an aborted task's late write could
   not be restored under the same name.
4. A refinement for the declaration (a ledger of guests filed, with no files,
   batches or commands) and one for the outbox (a queue per aggregate).

## 3. What models what

A definition carries the name of the function or the statement it stands for;
`PROJECT.json`'s `map` gives the lines of each.  One action is one statement or
transaction (SQLite has one writer, and a rollback leaves no trace), so actions
interleave exactly where the code awaits.

Operators whose names end in `_M` are used by no action.  Each is a definition
with one plausible mistake in it (a fence dropped, a lease not checked, a count
off by one); put in the place of the definition it is named after, it breaks the
property `PROJECT.json` pairs it with.  They are how the project knows that a
property can fail.

### CommandLedger - `command_idempotency.rs`, `claim_replay.rs`, `command_recovery.rs`

| state | code |
|---|---|
| `ledger[k]` | the row of `command_idempotency`; `token`, `lease`, `locks`, `response`, `error`, `dismissed` are its columns, a text column being the call that wrote it |
| `call[c]` | the future running `execute*`: the statement it stands before, the instant it captured (`readAt`), the failure it is about to record, its answer |
| `request[c]` | the key and payload hash the caller sent; a call is also its claim token |
| `effects` | the business writes that were committed |
| `audit` | `command_recovery_actions` |
| `now` | `Utc::now()`, the wall clock; it may be set back when `ClockJumps` |

`Path[k]` is the entry point of the command: plain `execute`, the guarded ones
(keys known before the claim, or resolved under the locks), or `execute_atomic`.
`Submit`, `Fetch`, `Insert`, `Reclaim` and `ResolveExisting` are
`claim_or_reclaim`; `AcquireGuard`, `GuardFails`, `RefreshLease`,
`RefreshTimesOut` and `RecordLockKeys` are the wait for the guard (a refresh that
timed out may still have been applied: the statement runs on sqlx's worker
thread); `CommitClaimed`, `LoseClaim`, `ServiceFails` and `Finalize` are
`run_claimed`; `RequestRetry`, `Dismiss` and `MarkTerminal` are the operator's.
`Crash` loses every call and no row.

`CommandOnce` is what the ledger promises its callers with no leases, claims,
clocks or locks: a key has at most one verdict, for one payload, and everybody
is told that verdict.  `ImplementsCommandOnce` instantiates it with
`verdict <- Verdict(ledger[k])`, `answer <- call[c].reply`: a row that may be
retried is an open verdict.

### AggregateLocks - `aggregate_locks.rs`

`holder` and `waiting` are one tokio mutex per key (external: fair, handed to the
first waiter on unlock, a dropped waiter leaves the queue and hands on what it
was given).  `pc`, `guard`, `got` and `todo` are a task's guard and the phase it
is in.  `Acquire` and `AcquireNext` start a phase (`AcquireNext` only with ranks
above all it holds, as `acquire_next` checks), `Ask` and `Take` lock its keys in
canonical order, `MergePhase` merges the guard, `Release` drops it and `Cancel`
drops the future in the middle of anything.

### BookingLocks - `services/booking/*`, over AggregateLocks

Four plans stand for the commands; the others have the same locks in the same
order.  `status`, `roomOf` and `room` are `bookings.status`, `bookings.room_id`
and `rooms.status`, `writer` is SQLite's write lock, and `job[t]` is a running
command: its stage, the rooms it read while it resolved its locks (`seen`) and
the keys it recorded in the ledger (`keys`).  `Resolved`, `Begin`, `DropGuard`,
`Run` and `Finish` are the executor's order: record the keys, BEGIN IMMEDIATE,
drop the guard that was moved into the closure (before the COMMIT), run and
commit.  A check-in keeps its guard to the end.

### StayCalendar - the command bodies of one booking

`booking`, `calendar`, `rooms` are the three tables; dates are days, and the
hours of a check-in or a check-out are left out.  Every command that changes a
booking's status, dates or room is one action, guard for guard.  The one command
that reads outside of its transaction, the desk's shorten, is two
(`LookupExpectedCheckout`, `ShortenStay`).  `Tick` is midnight.

### StayHistory - over StayCalendar

Adds `slept`, who was in which room on which night, which no table keeps; a late
entry's nights are taken at its word.

### Outbox - `outbox.rs`

`row` is `outbox_events` (`until` is `next_attempt_at` of a pending row and
`processing_expires_at` of a claimed one, kept as the time that remains);
`worker[w]` is a dispatcher in a batch: its statement, its event, its attempt, the
subscriber it calls next, the claims it has left, and how long ago it read the
clock of the statement that now waits for the write lock (`age`).
`FailRetryLimitRows`, `Claim`, `NothingToClaim`, `HandOver`, `MarkDispatched` and
`RecordFailure` are the statements, `Abandon` a crash or a failed statement.
`accepted` and `tried` are what the subscribers (external) have seen.

The shipped profile registers no subscriber and so starts no dispatcher; the
model takes one or more.  The insert here is a step of its own; that it commits
together with the business write is `CommitClaimed`'s.

### Folio and GroupFolio - the money in `services/booking/*`

`book[b]` is the row of `bookings` with the sums of its rows in `transactions` by
type (`charges`, `payments`, `deposits`, `fees`); `invoice` and `group` are the
tables of those names.  An action is what one command's transaction does to them;
a refused command is a step not taken.  The history variables are `cash` (all the
money guests handed over), `numbered` (every invoice number given) and
`repriced`.  Which nights and rooms are free is `StayCalendar`'s matter, so here
any price the engine gives for a length of stay may apply: `Engine` is a constant
operator, which `MCFolio` defines by `StayPrice` itself.

`GroupFolio` adds the group commands: `Allocate` is
`allocate_paid_amount_by_room_price` with its rounding, `GroupCheckin` and
`GroupCheckOut` make, pay and end several bookings at once, `Lead` and
`NextMasters` pick the next master.  The single commands of `Folio` go on working
on a group's members, as they do in the code.

### StayPrice and StayQuote - `pricing.rs`, `domain/booking/pricing.rs`, `money.rs`

`StayPrice` is the engine as pure operators: the four pricing models, early and
late surcharges, weekends, special days, extra guests, each with the code's
rounding.  `StayQuote` is a small state machine over it: a stay is quoted and then
lengthened the way `extend_stay` does, which prices the added night alone
(`ExtendNight`), or an hourly stay goes on (`StayOn`).  Its `rule` is one the
manager has saved (`StoredRules`: `save_pricing_rule` takes rates that are not
negative in any order, and any hours and percentages) or is derived from the base
price, and stands while the stay lasts.

### Digest - `agent/digest/`, `agent/supervisor.rs`

`row[r]` is a row of `agent_digest_runs`, a run being the instant it is due and
the chat it goes to; `task[t]` a scheduler task at one of its awaits; `slot` the
handle the supervisor keeps.  `Reconcile`, `Spawn`, `ShutdownDigest` and `Abort`
are the supervisor's; `Begin` to `Claim` the loop; `Build`, `Mark`, `Check`,
`Arrive`, `Answer`, `Delivered`, `Shutdown`, `Fail` and `Write` one delivery,
where `Arrive` is the message at the chat (external) and `Mark` the statement
that records it beforehand.  Dropping a task takes back no statement that it has
sent, since sqlx runs those on a thread of the connection's: `Drop` puts the
statement a dropped task waits for into `left`, and `Land` runs it at any later
time, long after the next scheduler has begun.  Statements with a claim's fence
ask for it even then.  Settings are no variable: whoever reads them may find any
value.  `sent` counts what reached the chat; `crossed` remembers the runs whose
look (`Look`, the reads before the insert) found another run of the hour being
inserted, by a scheduler or by a statement left behind, and those it found.

### Backup - `backup/`, `lib.rs`, `RuntimeStateProvider.tsx`

`job[j]` is the request of a command, of the scheduler or of the exit; `gate` and
`queue` are the tokio mutex, `pending` is `pending_jobs`, `files` and `locks` the
directory, `ui` the web view's indicator as it follows from the events.  `Ask`,
`Count`, `Recheck`, `Enqueue` are the admission with both of its looks at the
shutdown flag; `Start` to `Prune` one backup; `Finish` and `Emit` its end, the
count taken down before the event and the gate freed after it.  A backup
that fails leaves no file, except that the directory's sync may fail after the
rename: the file is there and the backup is said to have failed.
`ExitRequested`, `Drain`, `Drained`, `TimedOut` and `Exit` are the exit.  The ten
seconds (`TimedOut`) can only end the drain where it awaits: at the gate, where
it waits twice, and at the VACUUM.  `Crash` leaves the reservations on disk.  `owed` and a job's `latest` are history: whether a commit
made before the exit is in no backup, and whether the copy a job took is still
the whole truth.  That `exit(0)` ends the process is Tauri's (external).

### AssistantDesk - `useAssistantStore.ts`, `useAuthStore.ts`, `commands/assistant.rs`, `commands/assistant_conversations.rs`

`desk` is the panel's store, `call[c]` a command sent by it with what it carries
and brings back, `current` the person the back end takes calls for, `screen` the
one who sees the panel, `owner` and `rows` the two tables.  A command is sent
(`Send`, `Approve`, `OpenConversation`, ...), runs in the back end (`TurnStart`,
`TurnCheck`, `TurnAsk`, `TurnClose`, `RunWrite`, ...) and lands (`TurnLands`,
`ApproveLands`, ...), with anything in between.  Logging in is two steps, the back
end (`entering`) and the screen (`LoginLands`).  Logging out is three: the click,
which resets the store and closes the panel, the back end, and the log-in screen.
Until that screen is there the panel can be opened again, a turn sent or a card
approved in it, and the button clicked again (`leaving` counts the log-outs by how
far they have come); `late` marks what was sent at such a time.  Whether a write
that reports an error has left anything behind is `CommandLedger`'s matter;
here it is only refused or done.  Left out: restarts of the
application, the order of the list, notices, and the five minutes of a card (an
expired card is one nobody approves).  An errand that fails is over at once.  A
turn that fails on a new conversation leaves it on file empty, as the code's own
comment has it.

### Declaration - `declaration/repo.rs`, `commands/declaration.rs`, the Declaration page

`identity`, `link`, `batch`, `entry` are the tables, `file` the export directory,
`panel` the batch the page can still count, `task[t]` a command between two of
its statements.  Saving an identity looks and then writes; unlinking looks and
then deletes; an export loads its rows, writes the file, inserts the batch and
then the entries.  The portal (external) takes any part of the file that is
uploaded, and the operator counts what it shows.  `wrote`, `counted` and `reused`
are history: the rows a batch was made of, those the portal had when it was
verified, and the file names written twice.  One kind of guest is modelled (the
other has file names of its own), stays of different days of arrival, and no
masking, which only tests call.

## 4. Runs

| run | instance | what it shows |
|---|---|---|
| `ledger_once` | 3 calls, 1 high-risk key, 2 payloads, lease 1 tick, a clock that also runs back | ledger and effect agree at every crash point, answers stay true, a dismissal covers one attempt, `CommandOnce` is implemented |
| `ledger_live` | 2 calls, 2 keys, a guarded and an atomic command, forward clock | leases are respected; every call is answered or dies with the process; a claim ends or lapses |
| `booking_rooms` | 2 commands at a time, 2 guests of one group, 3 rooms | locks exclude; nobody waits in a ring of mutexes and write lock; grid and stays agree; phased commands write under the keys they recorded |
| `calendar_stays` | 2 bookings, 2 rooms, 1 desk, 4 days, 3 nights | nights, dates, rows and grid tell one story; past rows are where the guest slept; a shorten click takes the night it saw |
| `outbox_dispatch` | 2 workers, 2 events of one aggregate, 2 subscribers, 2 attempts, lease 2, 1 crash or error | order, acceptance, one hand-over an attempt, late hand-overs only by those whose lease lapsed, every event settled |
| `folio_money` | 2 bookings and a group of them, 2 nights, rooms at 3 and 4, a hand-set rate of 2, payments of 3, 5 commands | money is accounted for, charges are the price, one master, an invoice number stays with its booking, only five commands can leave a guest having paid too much |
| `stay_quote` | prices 7 and 400, three rules a manager saved, every weekday at 4 hours, a special day anywhere at +25 or -10 %, 3 days, half hours | a stay lengthened night by night costs what it costs whole, up to rounding; staying on is never cheaper where the caps are in order, no percentage is a discount and no day is special |
| `digest_runs` | 2 schedulers, 1 chat, an hour of 2 ticks, 2 attempts, 2 statements left behind at a time, clock to 1 | a digest is sent once; an hour gets a second run only out of two looks that crossed |
| `backup_drain` | a command, the scheduler and the exit, windows of 1 and 0 ticks, clock to 2, 3 requests or restarts | the indicator is true, no backup replaces another, the newest of a group stays, a drain that succeeds covers every earlier commit, an exit ends unless its own backup hangs in the file system |
| `assistant_cards` | 3 commands, 2 sessions, a receptionist and the admin, one old conversation | the busy flag stays with its session; a card is approved once, and by the person it was made for unless its turn was sent during a log-out; what is on file is its owner's and whole |
| `declaration_batches` | 2 commands at a time, 1 guest, 2 stays, 2 links, 2 batches, 2 minutes | the guests a verified batch declares are those the portal took |
| `declaration_evidence` | 1 command at a time, 1 guest, 2 versions of the document | refutes "an identity that is filed is not rewritten" (section 6) |

Why the bounds are enough.  The ledger's hazards need an owner, a successor and
a third call that reads what they left, on one key (keys share nothing); one
tick of lease tells "before" from "after", and `Horizon` stops claims one tick
after the start so that the last lease can still lapse.  A ring of lock waiters
is possible with two tasks and two keys, and the theorems hold for any number.  A
stale room needs a mover and a reader, and a room to move back to; a third room
lets the mover miss both.  A stay of three nights over four days has a night gone
by, tonight and a night to come, and can be late, overstay and be shortened; two
bookings are what an overlap takes.  The outbox's two events of one aggregate are
the whole of what order is promised for; two attempts are a retry and the limit,
a lease of two with waits of one is the least in which a claim can lapse, be
swept and be claimed by a worker whose clock reading is old.  Money needs a sum
that does not divide (3 over rooms of 3 and 4, or of 2), a room change that makes
a stay cheaper, and the five commands of the longest story: a group arrives, pays,
moves, is issued an invoice and leaves.  A price of 7 is below the rounding of a
percentage, 400 above; the saved rules have a night dearer than the day, a night
so dear that it caps nothing, and discounts with hours of their own; three days
hold a weekend and a special day in every order.  A digest is in danger between
one scheduler that will not die, or whose statements outlive it, and one that
begins, over a retry and a recovery: two statements left behind are a claim's and
an insert, and the two instants of one hour are a startup's run and the hourly
one.  The exit's drain has two waits, so one job already
queued and one admitted late are enough; a retention of one tick and of none puts
every file on either side of its window.  A card is in danger between the turn
that made it and two approvals, hence three commands; two sessions make one of
them late.  The log-out button clicked twice needs a third, which the theorems
have.  Two exports in one minute, or one link in two batches, are what a
declaration can go wrong by.

Symmetry is used over calls and payloads, tasks, bookings and rooms, schedulers,
documents, stays and versions, in safety runs only (`ledger_once`,
`booking_rooms`, `calendar_stays`, `digest_runs` and the declaration's).

Deadlock is checked in the booking and outbox runs, where it may not happen.
Elsewhere the clock or the number of commands stops at a bound, and a state
without a step is one in which everything bounded has been used up.

Fairness.  *Ledger*: `WF(Tick)` and, per call, `WF(Advance)`: tokio polls a ready
task and the database answers.  No failure, crash or refresh is owed.
*Outbox*: `WF(Tick)` and `WF(Work(w))`: workers poll every few seconds,
subscribers return, time passes.  That crashes and errors are at most `MaxFaults`
is needed by no safety property; `EventsAreSettled` needs that they end.  A write
waits no longer than `MaxWait`, SQLite's busy timeout, which is shorter than the
lease (5 s and 30 s).
*Backup*: `WF(Drain)`, the agent supervisor's shutdown, which comes first, has time limits of
its own (two seconds a wait);
`WF(TimedOut)`, the ten seconds are a timer, and it is enabled only where the
drain awaits; `WF(QuitRuns)`, the steps of the exit's own request that await
nothing; `WF(Exit)`, the runtime carries the exit out.  Nothing is assumed of the
file system (`fsync`, `rename` and the rest are blocking calls, which no timer
interrupts), of the VACUUM, or of any other backup: one may hang for ever.
The booking plans have no liveness run: that no state lets everybody wait on
everybody is `NoCommandCycle`, which is proved.

## 5. Proofs

| module | assumptions on the constants | theorems |
|---|---|---|
| `CommandLedgerProofs` | `LedgerAssumption` | `LedgerInvariant`, `TypesAreKept`, `EffectsMatchTheLedger`, `ExactlyOnce`, `AnswersStayTrue`, `DismissalsCoverOneAttempt`, `LedgerImplementsOnce`; for `~ClockJumps` also `LeasesAreRespected` |
| `BookingLocksProofs` | `KeysAssumption`, `BookingLocksAssumption` | `LocksExclude`, `LocksAscend`, `LocksNeverDeadlock`, `RoomGridIsTrue`, `PlansRefineLocks`, `CommandsNeverDeadlock`, `RecordedKeysCoverWrites` |
| `StayCalendarProofs` | `CalendarAssumption` | `CalendarRowsAreTheStay`, `CalendarRooms`, `CalendarGrid`, `CalendarTypes`, `PastNightsAreTrue`, `DesksTakeTheNightSeen` |
| `DeliveryProofs` (events and declarations that leave the process) | `OutboxAssumption`, `DeclarationAssumption` | `OutboxInvariant`, `OutboxTypes`, `EventsStayInOrder`, `DispatchMeansAcceptance`, `AttemptsAreBounded`, `OneHandOverPerAttempt`, `ClaimsAreFenced`, `LateHandOversAreStale`; `FilingInvariant`, `FilingTypes`, `DeclaredWasFiled` |
| `FolioProofs` (bookings' money, and bills of lengthened stays) | `FolioAssumption`, `StayPriceAssumption`, `StayQuoteAssumption` | `FolioTypes`, `PaidIsItsRows`, `NoMoneyIsLost`, `AllocateAddsUp`, `ChargesAddUp`, `OneMaster`, `Overpaying`, `NumbersStay`; `QuoteInvariant`, `QuoteTypes`, `LengthenedStaysAddUp`, `StayingOnCostsNoLess` |
| `DigestProofs` | `DigestConstants` | `DigestInvariant`, `DigestTypes`, `DigestIsSentOnce`, `HoursHaveOneRun` |
| `BackupProofs` | `BackupConstants` | `BackupInvariant`, `IndicatorTellsTruth`, `BackupIsNew`, `RetentionKeepsTheNewest`, `ExitCovers` |
| `AssistantDeskProofs` | `DeskAssumption` | `DeskTypes`, `FlagIsOwned`, `CardsAreMoney`, `FileIsOwn`, `TurnsAreKept` |

All are proved for any sets of calls, keys, tasks, bookings, rooms, workers,
chats, callers, people, guests and batches, for any prices, and for any bounds.
TLC evaluates the assumptions on every run.  `FolioAssumption` has the bookings be
finitely many, without which the sum of their payments means nothing;
`DeclarationAssumption` only has the empty value differ from every row.

- **Ledger.**  "The effect is there exactly when the row is completed" is not
  inductive alone: a completion is safe because a claim's token is a call that
  is still on its way and carries the row's payload (`ClaimHasAnOwner`), because
  a call tells nothing before it ends (`SilentUntilDone`) and because rows and
  payloads come together (`RowsHavePayloads`).  `LedgerInv` is their conjunction.
  `ExactlyOnce` then follows with no mention of the clock, which is why it holds
  when the clock is set back.  `LedgerImplementsOnce` uses the same invariant:
  a step that writes a verdict is `Accept`, `Refuse` or `Close`, the first claim
  is `Pin`, an answer is `Repeat` or `PutOff`, and everything else (reclaims,
  refreshes, guards, dismissals, crashes, clocks) shows nothing.
  `LeasesAreRespected` needs two more facts: the instant a call has read is past
  (true only while the clock runs forward), and a claim in progress carries no
  operator's verdict.  `DismissalsCoverOneAttempt` goes over the statements that
  write a row: each new attempt clears the mark.
- **Locks.**  `LockInv` is exclusion and order.  No ring: were there one, the
  ranks of the keys its tasks wait for would have a least element, and the task
  that waits for it holds a key below it.
- **Booking.**  `PlansRefineLocks` shows that each step of a plan is a step of
  the lock table or leaves it alone, so the lock theorems carry over.
  `RoomGridIsTrue` uses no lock at all: its invariant says that the guards inside
  the transactions suffice, whatever the locks were resolved for.
  `RecordedKeysCoverWrites` is about what the ledger keeps of those locks: once
  recorded, a phased command's keys include those of every room it saw
  (`KeysKept`), and its transaction compares the rooms it saw with the rows again
  and refuses if one is another by then (`KeysInv`).
- **Calendar.**  `CalendarInv` joins dates and nights, rows, rooms and grid:
  a check-out may delete a booking's rows only because they are all its own, and
  a move may vacate the old room only because nobody else is in it.
  `PastNightsAreTrue` adds `HistoryInv`: rows before the check-out name where the
  night was slept, and nights overstayed were slept in the room still held,
  because a room change needs a night to come.
- **Outbox.**  Order alone is not inductive: ids are inserted in order
  (`IdsInOrder`), every worker's attempt is one its row counts and no other
  worker has (`AttemptsHaveWorkers`), and the subscribers before the next one
  have accepted (`HandOversSoFar`).  That no attempt is handed twice, and that
  a dispatched row was accepted by all even when its claim lapsed, follow.
  `ClaimsAreFenced` uses `MaxWait < Lease`.
- **Declaration.**  A batch begins with no entries and gets all of them in one
  transaction, so it is bare, or whole less the links removed since (`Bare`,
  `Whole`).  Why those entries are the file's rows: a command that has asked for
  some links holds exactly the rows of those that were there (`Asked`); a link
  removed in between never comes back, as ids are handed out once
  (`LinksAreNew`), so its batch gets no entries at all; only whole batches are
  ever shown, so only those are counted.  Why the portal's rows are the file's: what
  was uploaded is part of the file under the batch's name, which is the batch's
  rows unless the name was written twice, and a part of a finite set with as many
  elements is that set.  A batch whose name was written twice is promised the rows
  it was made of, which is the exception the property makes.  Along with the types
  go the foreign keys: an entry has its batch and its link, a link its identity,
  whatever is interleaved or lost.
- **Folio.**  `FolioInv` carries, for every row, that what is paid is its payments
  and deposits (`Balanced`) and that a booking not yet made is in no group, and for
  the groups that one with members exists; the commands are shown row by row to
  keep them (`Follows`), and a group's commands are that on several rows at once.
  `Overpaying` goes through every command and shows which look at what was paid.
  `NumbersStay` needs that a booking's number is the highest it ever had and that
  the one before it was at most handed to another (`NumberInv`): deleting an
  invoice frees the highest number only for the booking that had it.
  `NoMoneyIsLost` carries that the books' sum is `cash`.  A command that changes
  one booking changes the sum by what it changes there; a group's payment enters
  as the sum of its shares, and `AllocateAddsUp` says that these are the payment:
  shares rounded down leave fewer units than there are rooms, and those are
  spread one a room.  Sums over sets need induction; `EveryNatural` and
  `EverySubset` state it for a set instead of a predicate, and the fold that the
  sum is comes apart one element at a time.
- **Prices.**  `LengthenedStaysAddUp` compares the bill and the quote of the whole
  stay with the exact price of the same nights, kept in parts of a unit so small
  that every percentage is whole.  The invariant (`QuoteInv`) is that the bill is
  within two units a night of it (by the day, not below it by more); each added
  night's own quote is within two units of its exact price, weekend and special
  day being rounded once each, and the exact price is additive in the nights.  The
  whole stay is rounded twice, and its special uplift is a mean over its nights,
  rounded to a percentage, which is the rest of `Rounding`.
  All of it is for any saved rule; only "by the day, not below"
  asks for percentages that are no discounts.  `StayingOnCostsNoLess` shows every
  part of a price to grow with the time of departure, where no day is special,
  under two conditions that the code does not enforce and the property states:
  `NoDiscounts`, and `CapsInOrder`, that the night's rate is not above the day's
  or is never a cap.  A derived rule meets both.
- **Digest.**  Claims of a run are numbered by the row's own count, so no two are
  alike; the send is recorded before it is made, and a run that is out is in
  progress, delivered or failed; a claim that is still current and has not sent
  (building, marking, or about to write `retry_waiting`) means that nothing is
  out.  A verdict left behind (`LeftInv`) is that of a claim its row has counted
  and no task holds any more; while the claim is current, nothing of it is out
  if the verdict is `retry_waiting`.  The hour: a run whose look crossed no
  other insert has its hour to itself from the look on, since a look sees every
  run that is there and every later look sees it.
- **Backup.**  Who works holds the gate, names reserved are new, the exit's copy
  is taken after the last commit it has to cover, and until the exit the count is
  that of the jobs on their way, so that an event that counts others leaves one of
  them in front of the gate to emit the next.  Retention: above a backup that is
  not its group's newest there is one that is, since a finite set of backups has
  one with fewest above it.
- **Assistant.**  `CardInv`: a session is one person's but for what is sent during
  a log-out, since every log-out mints a key and no login does; the card at hand
  is a turn of this session; an approval is backed by its card; of the approvals
  of a card all but one were refused.  `EnteringInv`: nobody is let in by the back
  end while somebody is on the screen.  `FileInv`: the conversation a turn writes to is known,
  and its permission stands unless the conversation is gone.

Only model-checked: all liveness (`CallsAreAnswered`, `ClaimsComeFree`,
`EventsAreSettled`, `ExitEnds`), which with ENABLED is beyond the prover;
and `EvidenceIsWhatWasFiled`, which fails (section 6).  Every other property of
the runs is a theorem.  That the engine's operators are the code's is not proved
but compared by reading; what TLC adds is the instance, with real prices.  No
theorem states the type of the backup's queue: the library's theorem about
`SelectSeq` takes an operator as a parameter.

## 6. Where code and words part

**Checked: the evidence of what was filed** (`declaration_evidence`).
`declaration/repo.rs:185` says that an identity filed with the police is evidence
and may not be rewritten.  The code asks for a *verified* batch; between export
and count, when the file may already be uploaded, the same document scanned again
rewrites the identity, and the batch then verified keeps a record that was never
filed.

The following came up while modelling.  None is a run of its own.

- *Room read under its booking's key.*  `services/booking/support.rs:327` says the
  read is the truth, as every mover holds that key.  `change_room` does, but its
  guard (`room_change.rs:628`) is dropped before its COMMIT, so a check-out can
  hold the key and read the room that is about to change.
  `ensure_locked_room_matches_booking` (`stay_lifecycle.rs:48`) refuses it inside
  the transaction: a spurious refusal, never a wrong room (`RoomsMatchStays`).
- *Room changes and their lock keys.*  `docs/architecture/core-pms-boundaries.md:60`
  wants high-risk writes serialized by stable lock keys.  A room change looks the
  old room up before it holds a key (`room_change.rs:614`), and its transaction
  reads the room again without a comparison: after a concurrent move it rewrites a
  room it neither locked nor recorded.
- *The date the timeline draws.*  `stay_lifecycle.rs:1281` says
  `scheduled_checkout` follows `expected_checkout`.  The confirmation of a guest
  who comes on the day of departure moves only the latter
  (`reservation_lifecycle.rs:748`).
- *A late entry over a settled stay.*  `services/booking/tests/backfill.rs:221` has
  overlapping late entries refused.  The check (`backfill.rs:146`) asks
  `room_calendar`, from which a check-out has deleted the nights
  (`stay_lifecycle.rs:1107`): over a stay that is settled the entry is accepted.
- *A slow outbox worker.*  One whose lease lapsed while a subscriber was slow still
  calls the remaining subscribers, which may by then have seen a younger event.
  `OnlyStaleWorkersAreLate` says that nobody else does; the table's own order is
  never broken.
- *Holes in the invoice numbers.*  `void_lifecycle.rs:141` keeps a voided invoice so
  that the sequence has no holes; issuing an invoice anew deletes the old row and
  takes a new number (`invoice_generation.rs:20`), which leaves one.  No number
  ever comes to stand for two bookings (`InvoiceNumberHasOneBooking`).
- *Logging out.*  `useAuthStore.ts:52` and `useAssistantStore.ts:521` have a
  person's conversations out of memory before the log-out is awaited.  A list or a
  conversation still being fetched lands afterwards without a comparison of
  sessions (`useAssistantStore.ts:572` and `:602`) and is in the store when the
  next person logs in.
- *A card asked for while logging out.*  `useAssistantStore.ts:512-520` has the
  fresh key drop a previous person's card.  The key is minted at the click; until
  `invoke("logout")` returns the panel can be opened again (`MainShell.tsx:258`)
  and a turn sent under the new key, which the next login keeps.  Its card can then
  be on the next person's screen, who may approve it, as that person
  (`CardsAreApprovedOnce` makes the exception; without it TLC finds the story).
- *Caps out of order.*  `pricing.rs:15` promises the lower rate.  A saved rule may
  ask more for the night than for the day (`pricing_service.rs:148` compares
  nothing); an hourly stay of up to 13 hours is then capped at the night's rate and
  a longer one at the day's, so that staying on costs less.
- *Two digests in an hour.*  The looks at an hour's runs and the insert share no
  transaction (`scheduler.rs:362`).  A scheduler that overlaps another, or begins
  while the insert of an aborted one waits (`supervisor.rs:84`), can give the hour
  a second run, and the owner a second digest; each is sent once.
- *The ten seconds of an exit* (`backup/coordinator.rs:173`) do not bound one whose own
  backup hangs in a blocking call of the file system (`backup/runner.rs:33-36`,
  `:57-62`).  And a backup whose directory could not be synced after the rename is
  reported as failed though its file is there.
- *Unlinking from an exported batch.*  `declaration/repo.rs:319` says the batch will
  not add up when it is counted.  The count is compared with the number fixed at
  the export, so it does add up, and the guest who was filed counts as not yet
  declared.  The check of `delete_link` (`repo.rs:322`) is a statement of its own:
  a count that lands between it and the delete lets a declared link go.
- *Two exports in one minute* share a file name (`commands/declaration.rs:287`); one
  batch may be verified by the other's rows, the exception
  `DeclaredIsWhatWasFiled` makes.
- *Links older than thirty days.*  `declaration/repo.rs:40` says they export with
  empty dates and only a warning; the validator blocks them
  (`validator.rs:61`).
- *Two identities of one document.*  `insert_identity` looks and then inserts, with
  neither transaction nor unique index; two saves at once make two, and the export
  then refuses the pair as one guest twice.
- *The declaration page.*  A returning guest whose identity is linked to an earlier
  stay is not offered for a new one, and the checklist of an exported batch is in
  the page's state alone, so that a batch left uncounted cannot be counted later.
  It is rendered without a key (`ExportPanel.tsx:123`): a count typed for one
  batch stays in the field when another is exported.

## 7. Not modelled

`PROJECT.json` lists each part with its reason.  Group services, folio lines and
guest manifests are inserts that no total and no later step reads (the declaration
reads guests).  The night audit reads its check and its sums outside of the
transaction that inserts, and UNIQUE `audit_date` decides between two audits of a
date; the rest is arithmetic over reports.  The restore drill and the money
migration are offline tools over a copy.  An assistant's draft is computed from
reads and kept by nobody but the card.  The gateway and the chat workflow are
experimental and disabled in the shipped profile.  Schema, authentication, setup,
room administration and diagnostics are sequential; OCR is pure input; queries
read; of the front end only the stores with a protocol of their own are modelled.
These parts, with SQL text, tests and presentation, are the larger share of the
repository's lines, and what is left of them is data, not control.

Inside the modelled parts these are left out: the text of rows, errors and keys
(members of small sets); the hash of a payload (a value); the hours of a day and
the guests' names in the calendar; the capacity check of a check-in; a second
process on the file in the ledger (a crash ends every call there is); a clock
that is set back in the outbox, whose order and acceptance do not use it, but
whose leases do; the days of an invoice number (one day is modelled); prices
beyond the integers of the code, which refuses them.
