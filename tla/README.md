# TLA+ models of the infrastructure controller

This directory models the parts of the repository whose correctness depends on
what happens at the same time: the rack-level automation service (RLA, `rla/`) with
its task manager, its task schedules and its in-process scheduler; the firmware
updates of the NVSwitch manager; and the allocation of IP prefixes. The modules are
written from the Go source; `PROJECT.json` gives for every definition the lines it stands for, for
every property a mutant of the code that violates it, and the list of hazards that
the properties are aimed at.

    tlc -workers 2 -config tm_safety.cfg MCTaskManager     # one run
    tlapm TaskManagerProofs.tla                            # the proofs of a module

## 1. The system

### Components

| component | state | operations | interacts with |
|---|---|---|---|
| RLA task manager (`rla/internal/task/manager`) | the task table: status, execution ID, creation and expiry time | SubmitTask, CancelTask, the store that notifies on a final status | conflict rule, promoter, executor, PostgreSQL |
| RLA conflict rule (`task/conflict/conflict.go`) | none: a table of pairs of operations | Conflicts, HasConflict, HasScheduleConflict | asked by the task manager, the promoter and the schedule RPCs |
| RLA promoter (`task/conflict/promoter.go`) | a bounded channel of rack IDs | Notify, the event loop, the sweep, processRack | reads and writes the task table, executes what it promotes |
| RLA executor (`task/executor/temporalworkflow`) | one Temporal workflow per task | Execute, TerminateTask, the workflow, its activities | writes the status of tasks back through the notifying store |
| RLA operation rules (`task/operationrules`) | rules in the database, defaults in the code | ResolveRule | asked before a task is executed |
| RLA task schedules (`scheduler/taskschedule`, `service/server_impl_task_schedule.go`) | the tables task_schedule and task_schedule_scope | dispatchers that poll; RPCs to create, update, pause, resume, delete, trigger, and to change scopes | submits tasks; dispatchers of several instances share the tables |
| RLA in-process scheduler (`scheduler/*.go`) | per job a queue, channels and a worker | Schedule, Start, Stop, four overlap policies | runs inventory synchronisation and leak detection |
| RLA worker pool (`pkg/workerpool`) | a bounded job channel | Start, Submit, Stop | used for parallel calls |
| RLA inventory, service, component managers | racks and components | queries, synchronisation, calls to devices | task manager, schedules |
| NVSwitch manager (`nvswitch-manager`) | firmware updates with a state each, bundles | QueueUpdate, CancelUpdate, a scheduler with workers, three strategies | switches over Redfish, SSH and scripts |
| Power shelf manager (`powershelf-manager`) | firmware updates | the same, smaller | power shelves |
| IPAM (`ipam`, `db/pkg/db/ipam`) | a row per block and per child prefix, with a version | acquire and release children, with optimistic locking and retry | the handlers of allocations, subnets and VPC prefixes, inside of their transactions |
| Site manager and site agent | the one-time password of a site, its credentials | create, roll, exchange the password | bootstrap of a site |
| Cloud and site workflows (`workflow`, `site-workflow`) | the rows of the cloud database | reconciliation of reported inventory, forwarding of calls | Temporal between cloud and site |
| REST API, database layer, authentication, certificate manager, CLI, SDK | the cloud database | request handlers | everything above |

### How they interact, and what is hard

*Tasks.* `SubmitTask` reads the active tasks of a rack, decides with the conflict
rule, and inserts a pending or a waiting task; a pending one is executed at once.
`RunInTransaction` opens a READ COMMITTED transaction, which does not keep two
submissions apart. A status write that makes a task final notifies the promoter over
a channel that drops what does not fit. The promoter lists the waiting tasks of a
rack, ends the expired ones, promotes in order until the first conflict and executes
what it promoted. `UpdateTaskStatus` writes on the store's own connection, also
inside somebody's transaction, and does not look at the status it overwrites.
Workflows run on Temporal, their status activities are retried and may be late.
Any call may fail, and the service may restart between any two.

*Schedules.* A firing locks and advances the row in one transaction, submits the
tasks outside of it and writes their IDs back in another one. Dispatchers of other
instances, triggers, updates, pauses and changes of scopes happen in between. The
row lock is what keeps them apart. PurgeRack of the inventory does not take it: the
foreign key of the scopes cascades, so that the scopes of a purged rack go at any moment.

*Firmware updates.* A scheduler goroutine fetches a batch that fits the free workers,
and the next one only when the workers are done with it: that is all that keeps two
workers from the same update. A worker holds a copy of the row; `Save` writes all of it
back, whatever CancelUpdate or a cascade has written in between. Steps are not
idempotent (power cycle, copy, script); what has been begun is remembered in
`exec_context`. A failure cancels the rest of its bundle, whose rows QueueUpdate may
still be inserting. The service may stop between a step and its Save.

*In-process scheduler.* Trigger, intake, dispatcher and worker are goroutines joined
by channels of capacity one or none. A signal to the dispatcher is dropped when one is
pending. The policies put events back, merge them, or cancel the job that runs. Stop
ends all of them through a cascade of closed channels, forced or not.

*IPAM.* A handler's transaction reads the block, picks a child, and writes the block
only if its version is still the one it read; otherwise the operation is repeated, up
to ten times, inside of the same transaction, which sees its own earlier writes.
Releases lock the row of the child before the block, acquisitions after it.

The properties that make these parts correct: conflicting tasks are not active
together; nothing is executed twice; the queue of a rack is bounded, first-in
first-out, and drains; nobody holds a rack without a worker; a cancelled task stays
cancelled; a one-time schedule fires at most once; a paused one stays paused; every
enabled schedule has a next run, no RPC takes a schedule's last rack; due schedules
are handled; the policy *skip* does not overlap. One worker per update, bundles in order,
one active update per switch, no step twice, no update left behind. No event lost that
a policy promises to keep, none out of order, Stop returns. No address leased twice,
none leaked, no two transactions that wait for each other.

## 2. Modules

| module | models | state and actions |
|---|---|---|
| `TaskConflict` | `conflict.go` | operators only: `builtinRule`, `entryConflict`, `Conflicts`, `HasScheduleConflict` |
| `RackReservation` | the promise: what the task manager would do if every decision were one step on the current state | `state`, `queue`; Admit, Enqueue, Promote, Finish, Drop |
| `TaskManager` | `manager.go`, `notifying_store.go`, `promoter.go`, the statements of `store/postgres.go`, executor and workflows | below |
| `TaskSchedule` | `taskschedule/dispatcher.go`, `taskschedule/store.go`, `server_impl_task_schedule.go` | below |
| `FirmwareUpdates` | `nvswitch-manager/pkg/firmwaremanager`: `manager.go`, `worker.go`, `store_postgres.go`, the strategies | below |
| `JobScheduler` | `rla/internal/scheduler`: `scheduler.go`, `relay.go`, `dispatcher.go`, `worker.go`, the triggers | below |
| `Ipam` | `ipam/prefix.go` and `ipam/bun.go` as `db/pkg/db/ipam` and the handlers use them | below |
| `ScheduleTable`, `UpdateBundles`, `EventBox`, `PrefixPool` | promises: what the users of `TaskSchedule`, `FirmwareUpdates`, `JobScheduler` and `Ipam` may rely on | below, with the proofs |
| `MC...` | constants for TLC | |
| `...Proofs` | theorems with proofs; `TaskExclusionProofs` continues `TaskManagerProofs` | |

### TaskManager

Every statement on the task table is a step. `sub[t]` is where a call of
createAndExecuteTask is, `run[t]` where resolveAndExecuteTask is (called by SubmitTask
or by the promoter), `cancel[t]` where CancelTask is. `SubmitCheck` is HasConflict,
`SubmitReject`, `SubmitCount`, `SubmitEnqueue` and `SubmitCreate` are the branches of
the transaction; `Execute`, `RecordExecution`, `MarkFailed` the steps of
resolveAndExecuteTask; `CancelLoad`, `CancelTerminate`, `CancelWrite` those of
CancelTask. `wf[t]` is the workflow of a task and `activity[t]` the status that one of
its activities is about to write; an activity may outlive its workflow, and its
completion may be lost (`ActivityUnacked`, it is then retried). `StoreUpdate` is the
notifying store: the write and, for a final status, `Notify`. The promoter is `Sweep`,
`Notified`, `ListWaiting`, `Purge`, `ListActive`, `Promote`, `StopPromoting`,
`ExecutePromoted`, `RackDone`, `LoopDone`. Each has a variant that fails, within
`MaxFaults`; `Crash` is a restart of the service, within `MaxCrashes`: calls, channel
and promoter are lost, table and workflows stay.

Abstracted: the conflict strategy of a request is chosen when it matters, among those the
constants `Queueing` and `Rejecting` allow; targets are sets of component IDs per type;
the resolution of targets and rules succeeds or fails; the steps of a rule inside a
workflow are one (`Operate`);
`created_at` is a number that orders tasks, taken when the transaction starts, as
PostgreSQL does; `queue_expires_at` has passed or not (`Expire`). After a final status
the notifying store looks up the rack of the task, and when that fails it sends no
notification (`notifying_store.go:64-70`); `StoreUpdate` leaves this out, as it loses one
notification just as a full channel does, which the model has, and the sweep covers both.

### TaskSchedule

A transaction with a row lock is two steps, lock and read (`Lock`), and write and
commit. `pc[a]` says what dispatcher or RPC `a` is doing, `cur[a]` to which schedule,
`snap[a]` is the row it read under the lock. `Poll` is firedue's unlocked query,
`FireLock`, `FireSkip`, `FireCommit` are Phase 1, `SubmitTask`, `SubmitRefused` Phase 2,
`Record`, `RecordFails` Phase 3; `TriggerLock`, `TriggerCommit`, `TriggerRefuse` are
Phase 1 of FireNow. The RPCs are named after their handlers. PauseTaskSchedule reads
without a lock and writes later (`PauseGet`, `PauseSet`), as the code does.
`racks` are the racks that have a row. AddScopes and UpdateScope insert only for those
(the foreign key; `RescopeRefuse` is the refusal), and `PurgeRack` deletes one:
`task_schedule_scope.rack_id` is ON DELETE CASCADE (migration 20260410000000, line 26;
`docs/task-schedules.md:429`), so that all scopes of the rack go with it, with no lock of
their schedules and no look at what is left. An RPC that changes scopes decides on the list
it read under the lock (`seen`), which a purge can make old before the commit: it may then
take what has become the last scope. A schedule without scopes stays; firing it only
advances it (`dispatcher.go:255`). That every other step leaves a scope is
`LastScopeStays`, which is therefore about steps and not about states.
`CallFails`, `FireFails` are rolled back transactions, `Crash` is a dispatcher or an
RPC that stops anywhere. `fired`, `latest`, `scopeOf`, `created` and `usedScopes` are
history, for the properties.

Abstracted: `next_run_at` is null, ahead or past; `overdue` keeps the order in which
rows became due, which is the order of the query (`FetchDue` is the set of its answers);
`Tick` is the passing of time, and since LockForFire compares with the time of the poll,
a row that becomes due again after a poll is not fired by that poll. Interval and cron
schedules are both "recurring". Names, templates and component filters are left out; a
scope row is one rack. PurgeRack takes a rack that was deleted softly before; that mark
is left out, since the foreign key only asks for the row. A task submitted here is
active until it ends; why SubmitTask refuses is the subject of `TaskManager`. Two things
we noted while reading and do not check, because they are about clock values:
`docs/task-schedules.md` describes the advance of an interval as an addition to the old
`next_run_at`, the code adds to the time of the poll; and updates of the timezone of a
schedule that is not cron are dropped.

### FirmwareUpdates

`row[u]` is the state of an update and whether its `exec_context` is set. `call[b]` is
where a QueueUpdate call is (it holds the lock of its switch while it saves), `cancel[u]`
a CancelUpdate call, `sched` and `batch` the cycle of the scheduler, `job[w]` the copy
that worker `w` has and what it is about to do. `QueueCheck`, `QueueSave` are
QueueUpdate; `FetchQueued`, `FetchActive`, `BatchDone` runSchedulerCycle; `Take`,
`Start`, `ExecuteStep`, `SaveOutcome`, `Cascade` processUpdate, handleStepOutcome and
failUpdate; `CancelGet`, `CancelJob`, `CancelSave`, `CancelBundle` the four steps of
CancelUpdate. `...Fails` are failed statements, `Stop`, `Crash`, `Restart` the service.
`FirstCall` and `LaterCall` give the outcomes a strategy can have in each state, at the
first call of a step and when it polls; `Deadline` is the clock.

Abstracted: what a step does to the switch; `updated_at`, of which only the order
matters (`since`); versions and firmware files. The in-memory store is a test double and
has no model; `Delete` has no caller.

Things the model shows and that no document forbids: an update that CancelUpdate ended
while a worker held an older copy is brought back by that worker's Save, also next to a
new update that QueueUpdate let in (the exception in `TrayExclusive`); a row that
QueueUpdate inserts after its predecessor has failed stays QUEUED for good (`tooLate`
in `OrphansExplained`); CancelUpdate can write CANCELLED over COMPLETED; a bundle whose
later rows could not be saved is worked on without them.

### JobScheduler

The pipeline of one entry; entries share nothing. `trig`, `intake`, `disp`, `worker` and
`stop` say where Emit, g1, g2, the worker and Stop are; `eventCh`, `notify`, `queue` and
`sending` are the channels, the queue and what g2 has taken from it. workCh has no
buffer: `HandOver` is a step of g2 and of the worker. `Occur`, `Send`, `EmitReturns`,
`CronFires`, `CronEmits` are the triggers; `IntakeReceive`, `IntakeAppend`, `IntakePing`
g1; `Wake`, `Dequeue`, `HandOver`, `SkipDrops`, `Interrupt`, `Merge` the loops of the
dispatchers; `StopCall`, `ForceClear`, `ForceClose`, `RunCancel`, `StopReturns` Stop.
Abstracted: what a job does, and the errors of calls in the wrong order.

Observations. `scheduler-architecture.md:184` and the comment of Stop
(`scheduler.go:160-162`) say that Skip, Queue and Replace leave without draining; the
code of Queue and Replace delivers the latest event. `LatestKept` and `Delivered` take no
side: they say nothing of the events of these policies once Stop was called. What the
code does then is in `EventBox`, which `PipelineIsABox` proves of it.
cron.Stop does not wait for the goroutines it has started, and one that sends after
Emit has returned meets a closed channel: the model has the panic (`crashed`), and the
liveness properties make an exception for it; no caller uses the cron trigger yet.
Skip drops an event whenever the worker is not at its receive, where `policy.go` says
"busy". The last flush of QueueAll never finds anything.

### Ipam

`version` and `taken` are the row of a block, `rows` the children that have a row,
`lease` what the handlers have given away. `call[c]` is a handler's call, with the copy
of the block it has read; `tx[c]` is what its transaction has written and not committed.
A statement sees what is committed and its own writes (`VersionSeen`, `TakenSeen`,
`RowsSeen`) and waits for rows that others have written (`BlockLocked`, `RowLocked`).
`Create`, `Delete`, `Resize` begin a call; `Find`, `ReleaseRead`, `ReleaseCheck`,
`ReleaseDelete`, `ReleaseUpdate` are DeleteChildIpamEntryFromCidr and
ReleaseChildPrefix; `AcquireRead`, `AcquireUpdate`, `AcquireCheck`, `AcquireInsert`
AcquireChildPrefix; `Lose` is retryOnOptimisticLock. SELECT FOR UPDATE compares the
committed version before it waits and again afterwards: a call whose version is old
loses at once, one whose version is current waits for the writer.

Abstracted: a prefix is its set of addresses, and any free one of the wanted size may be
picked. Assumed: one call per lease at a time, a block that stays, no full grants.

On the retry: the comment of retryOnOptimisticLock (`prefix.go:684-686`) promises that
what fails with an OptimisticLockError is repeated. For an acquisition this is so. A
release has deleted the child in the caller's transaction before it loses, and its next
attempt fails because the child is not found. The model has this behaviour; no property
asks for it. The transaction is rolled back, and `Bookkeeping` shows that nothing leaks.
What the assumptions leave out and no run covers: full grants are decided on a flag that
was read without a lock; the mutex of NewPrefix belongs to an object made per request;
DeleteAllocation counts subnets without the lock of CreateSubnet; CreateSubnet reads its
block before it takes the lock.

## 3. Runs

| run | instance | checks | states |
|---|---|---|---|
| `rack_pairs` | every two operations on every choice of targets, one of each component type | `Exclusive`, `HardwareExclusive`, `AdvisoryComplete` of RackReservation | 44.5 k |
| `tm_safety` | two clients, three conflicting tasks that queue, one of which may also ask not to, one rack, queue of one, channel of one; fairness | `TypeOK`, `SameActorExclusion`, `ActiveHasWorker`, `QueueBoundSlack`, `PromotionFIFO`, `WaitingIsExecuted` | 280 k |
| `tm_restart` | two tasks, one may be cancelled, one failed call, one restart; fairness | `AtMostOneExecution`, `QueueDrains` | 464 k |
| `sched_safety` | one schedule, two racks, one dispatcher, two RPCs of seven kinds, either rack may be purged, one failure or crash anywhere | `TypeOK`, `SnapshotCurrent`, `EnabledHasNextRun`, `LastScopeStays`, `AtMostOnce`, `PauseHolds` | 1.51 M |
| `sched_poller` | two schedules on a rack that may be purged, a batch of one, one dispatcher, pause, policy and delete; fairness | `SkipHolds`, `DueIsHandled` | 249 k |
| `fw_pool` | one switch, a bundle of two components and a call for a third, two workers, one cancellation, one failure, stop or crash anywhere; fairness | `TypeOK`, `OneWorkerPerUpdate`, `BundleInOrder`, `TrayExclusive`, `BegunOnce`, `OrphansExplained`, `Settles` | 571 k |
| `job_pipeline` | one entry, four policies, cron, once and event triggers, three events, a queue of two; fairness | `TypeOK`, `InOrder`, `NothingLost`, `LatestKept`, `ReplacedIsCancelled`, `Delivered`, `StopEnds` | 307 k |
| `ipam_leases` | two calls, three leases, two sizes, three attempts; fairness | `TypeOK`, `LeasesDisjoint`, `Bookkeeping`, `HolderProceeds`, `CallsEnd`, `ImplementsPool` | 320 k |

Four runs show that what a comment or a document promises does not hold (the findings
of `PROJECT.json` quote the lines):

| run | property | what happens |
|---|---|---|
| `tm_race` | `NoConflictingActive` | two SubmitTask calls both find the rack free: the check is in a transaction, but READ COMMITTED does not order it with the other insert |
| `tm_cancel` | `CancelHolds` | a task is cancelled before its execution ID is recorded: no workflow is terminated, and it writes *running* over *terminated* |
| `tm_queue` | `QueueBound` | two SubmitTask calls of different clients count the queue of a rack below its limit and both insert |
| `sched_overlap` | `SkipHolds` | two dispatchers: the second fires a scope whose previous task has been submitted but not yet recorded |

What holds instead is what the passing runs state. Conflicting tasks are kept apart
among those one client submits and among those the promoter promotes
(`SameActorExclusion`); one client alone gets the abstract specification (the theorem
`Refinement`); several clients overshoot the queue limit by less than their number
(`QueueBoundSlack`, beside the violated `QueueBound`). `ActiveHasWorker` makes an
exception for failed calls: a promotion pass that fails after its first write leaves a
promoted task that nobody executes, as UpdateTaskStatus is not part of the transaction
around it.

*Bounds.* The races need two clients or a client and the promoter, and three tasks: one
that holds the rack, one that waits and one that comes between. A channel of one place
is the smallest that drops; a batch of one the smallest that can starve the second
schedule. One failure and one restart can hit any step; a second one only repeats, as
every failure path leaves the table in a state that a run without failures starts from
too, or strands a task. For schedules two RPCs and a dispatcher are enough for every
pair of transactions on a row, with a third waiting. One task suffices in
`sched_safety`, as none of its properties looks at tasks. `sched_safety` and
`sched_poller` do not check for deadlock: when the only schedule is consumed or
deleted and no ID is left for another, nothing remains to be done; the same holds for
the task manager when all tasks have ended.

For firmware the hard cases need a bundle of two, a second call for the same switch and
two workers; the flows chosen have a polling step, a step begun once and a wait with a
deadline. For the scheduler three events overflow a queue of two and let two follow a
running job. For IPAM two calls race for the block while a third lease stands; three
attempts let a call lose, try again and give up; no call begins once the version is
four. In these three a state without a step is one in which all is done, so that they do
not check for deadlock either; `Settles`, `StopEnds` and `CallsEnd` say that everything
gets there.

*Fairness.* For the task manager, weak fairness of the steps of calls in progress, of
workflows and their activities, of the promoter's loop and of the sweep: goroutines are
scheduled, Temporal retries and enforces timeouts, the ticker of the promoter is
recreated when the loop restarts after a panic. None for clients, for queue timeouts,
for failures, for restarts or for cancellations. `WaitingIsExecuted` is checked in a run
without failures. For the dispatcher of schedules, weak fairness of its own steps.
`DueIsHandled` is checked with RPCs that are a single statement: FOR UPDATE SKIP LOCKED
gives no guarantee against callers that hold the row at the moment of every poll.
Firmware: weak fairness of the scheduler's ticker, of the workers, of deadlines and of a
restart after a stop; a call may stay halfway for ever. Scheduler: goroutines run and
jobs return, nothing for events. IPAM: strong fairness of the statements of a call,
since PostgreSQL serves those that wait for a row in turn; with weak fairness others
could take the row again and again.

## 4. Proofs

The theorems hold for any sets of tasks, racks, clients, schedules, scopes, dispatchers,
RPCs, updates, bundles, switches, workers, calls and leases and any bounds that satisfy
the assumptions of the modules. Most of what those say is that constants have their
types, that sets over which cardinalities are taken are finite, and that queues and
channels have room for one. What else is assumed comes from the code:

- `ReservationAssumption`: no two tasks have the same component under two types
  (`OneTypePerComponent`), since createAndExecuteTask files a component under the one
  type of its row.
- `FirmwareAssumption`: the updates of a bundle are numbered from one without gaps, as
  QueueUpdate numbers them, and a bundle has an update, since QueueUpdate refuses a
  bundle without components.

Three theorems have hypotheses of their own; they are named below, with the reason. Five
components have an abstract specification, and a theorem says that the code implements
it. `ImplementsPool` is also checked, by `ipam_leases`. The others are theorems only:
`ImplementsTable`, `ImplementsBundles` and `ImplementsBox` can be checked by adding the
name as a PROPERTY to the configuration of `sched_safety`, `fw_pool` or `job_pipeline`,
which was done before they were proved, and `ImplementsReservation` under constants with
one client. All but the last have no hypothesis. The mutants of those runs that change
what a user can see violate them: no row lock, a consumed schedule resumed or triggered,
the last scope removed; no lock of the switch, a batch that is fetched again while it is
worked on; the newest event first, or the newest dropped; no version check. Mutants that
only concern history, `exec_context` or liveness do not: the abstract specifications
have no fairness and say what may happen. For every theorem `Spec => []P` there is an
inductive invariant, and the proof has a lemma that every step keeps it, with one case
per action or kind of action.

**TaskConflictProofs.** Facts about the rule alone. `ConflictsSymmetric`: it does not
depend on who asks, since entryConflict tries both directions. `SharedHardwareConflicts`:
any two power or firmware operations that have a component in common conflict, so that
the table has no gap. `GuardedMatch` says what the evaluation of one entry amounts to.

**RackReservationProofs.** `MutualExclusion`: a new active task was checked against the
active ones, and by symmetry they would not conflict with it. `HardwareNeverShared`
follows with `SharedHardwareConflicts`. `AdvisoryCheckComplete`: the check for
schedules, which ignores targets, reports every conflict.

**TaskManagerProofs.** One inductive invariant,
`IInv == TypeOK /\ Ownership /\ Order /\ OneCallPerClient /\ QueueBoundSlack`.

- `ExecutedOnce` (`Spec => []AtMostOneExecution`) is not inductive alone: it has to be
  known that a task that waits, or that the promoter holds for execution, has no
  other owner and was never executed, and that an open workflow or activity belongs to
  an executed task. That is `Ownership`.
- `PromotedInOrder` (`Spec => PromotionFIFO`): the candidates were listed before the
  transaction. `Order` says that everything that was ahead of a task when it was
  submitted is older, and that among the candidates all older waiting tasks that had
  not expired are still present; the pass takes the oldest.
- `QueueBounded` (`Spec => []QueueBoundSlack`) is proved by counting: the property is
  stated for all subsets of the queue, which makes it inductive; a call that passes
  the check adds itself, and its client, to the sets, and `OneCallPerClient` says that
  no other call of that client is between check and insert.
- `TypeCorrect` includes that the notify channel stays within its capacity.

**TaskExclusionProofs.** What is left of the exclusion when the checks are not atomic.
`XInv` adds to the `IInv` of TaskManagerProofs what the two actors know between check
and write: the answer of HasConflict stays true of the client's own tasks until its call
inserts the row (`CheckedInv`); `workingActive` has every active task of the rack that
the promoter activated (`WorkingInv`); and no task becomes active behind their back,
because nobody is about to execute, or to report as running, a task that is not active
(`BeginInv`, `ActivityInv`, `ListedInv`). Tasks that CancelTask has raced
(`disowned`) are outside of all that: the finding of `tm_cancel` is about them.

- `NoOwnConflict` (`SameActorExclusion`) holds through any number of failed calls
  and restarts.
- `NoHardwareShared`: as a consequence, disruptive operations that one actor has made
  active share no component. Its hypothesis `TypesFixed` is `OneTypePerComponent` for
  the tasks of this module.
- `NoRackHeldByNobody` (`ActiveHasWorker`) needs to know of every active task who carries
  it out (`CarriedInv`), and that a workflow is closed only after its outcome was
  written (`ClosedInv`).
- `Refinement` (`ImplementsReservation`): every step is a step of RackReservation or a
  stutter. SubmitCreate is Admit, a final status is Finish. The hypothesis `SoleClient`
  (one client, no queueing, no cancellation, no failed call; restarts are allowed) is
  needed in each part: two clients are the finding of
  `tm_race`, cancellation that of `tm_cancel`, the promoter and a client race like two
  clients, and after a failed call a closed workflow may leave an activity behind.

**TaskScheduleProofs.** The inductive invariant joins `SnapshotCurrent` (what a
transaction has read of its row stays true until it commits, and nobody else holds the
row), `EnabledHasNextRun`, `FiredConsumed` (a one-time schedule that has fired has no
next run), `TargetOwned` (the scope a call removes belongs to the schedule it locks)
and `FireDue` (a dispatcher fires only what it found enabled).

- `LocksProtect` (`SnapshotCurrent`) is the base: every other writer of a row waits for
  its lock, and `Tick` changes only *ahead* to *past*.
- `EnabledIsArmed`: a resume enables only what is not consumed in its snapshot, hence
  in the row.
- `FiresAtMostOnce`: what has fired is consumed, hence not enabled, so that no
  dispatcher fires it and a trigger refuses it.
- `PausedStaysPaused`: firings and triggers write back the flag of their snapshot,
  which is that of the row.
- `LastScopeIsKept` (`LastScopeStays`): in every step in which a schedule that stays loses
  its last scope, a rack is purged, or the step is that of a call on whose list a rack has
  been purged. A removal counts under the lock of the schedule to which its target belongs
  (`TargetOwned`), and what it has listed is there until the commit unless it was purged
  (`SeenInv`): every other writer of the scopes waits for the lock.
- `OverlapSkipped` (`SkipHolds`) has the hypothesis `Alone`: one dispatcher, no trigger
  by hand, no failed statement or crash; any other RPCs, in any number. Two dispatchers
  are the finding of `sched_overlap`, a trigger ignores the policy by design, and a
  dispatcher that stops after SubmitTask leaves `last_task_id` old. What is needed
  (`SkipInv`) is that the row of a scope has its latest task or the dispatcher still
  has to write it (`LatestRecorded`), which it does before it fires again.
- `TypeCorrect` (`TypeOK`): a schedule is in `overdue` exactly when its next run has
  passed, and once; no batch has a schedule twice; a firing is in Phase 2 exactly while
  scopes are pending. It needs the row locks too, without which a commit could write the
  row of a schedule that is gone. The lists are functions on an interval, and taking an
  element out (`Without`) is defined by its position, without recursion.
- `TableIsSerial` (`ImplementsTable`): `ScheduleTable` has only the tables and what has
  fired; every firing and every RPC is one step on the row as it is then. The mapping is
  the identity on those variables. A commit is the step, everything before it a stutter,
  so that what has to be shown is that nothing read before the commit is stale: this is
  `SnapshotCurrent`, and for a dispatcher also that its row is still due (`FireNext`).
  Scopes belong to schedules that exist (`ScopesLive`) and no schedule has two for a
  rack (`RacksOnce`). A purge is a step of the table as well, and once a rack of a
  schedule is gone a change of its scopes may leave none (`Retarget`).
  PauseTaskSchedule, which reads without a lock, is serial as well, since its statement
  disables whatever it finds. Phases 2 and 3 are not covered: that they are not atomic
  with Phase 1 is the finding of `sched_overlap`.

**FirmwareUpdatesProofs.** Twelve parts make the inductive invariant. The first are about
the pool: a job exists only while the scheduler waits, a batch only from the first query
to the last Take (`PoolInv`), and an update is in one item or in one job (`Alone`); this
is all that stands for a lock, since a row does not say that it is taken.

- `NoTwoWorkers` (`OneWorkerPerUpdate`) is `Alone`. At the second query it needs that
  the rows of the first are queued and those of the second active (`PoolInv`).
- `BundlesInOrder` (`BundleInOrder`): a predecessor was completed when the query read
  it. `OrderInv` speaks of the history and not of the row, because CancelUpdate may
  overwrite COMPLETED.
- `OneUpdatePerTray` (`TrayExclusive`): all pending rows of a switch are of one bundle,
  whose call is the only one that saves (`TrayInv`, `CallInv`); inside of a bundle the
  order does it. For this a copy must agree with its row as long as nobody
  cancels (`SyncInv`), or a Save could bring an ended update back.
- `StepsBegunOnce` (`BegunOnce`): the states of every strategy come in one order (`Rank`);
  a step that was begun is behind the row, or its `exec_context` is saved or about to be
  (`OnceInv`).
- `NoUnexplainedOrphan` (`OrphansExplained`): not only is somebody at the point from which
  he cancels the rest of the bundle, his context is not cancelled, so that he will be
  able to (`OrphanInv`, `CancelInv`).
- `TypeCorrect` says that the batch fits the free workers (`SizeInv`) and that an active
  row is in a state of its strategy; `SinceInv` makes `updated_at` a strict order.
- `BundlesRunInTurn` (`ImplementsBundles`): `UpdateBundles` has the states of the updates,
  what has completed and what somebody cancelled, and no workers. An update is queued
  behind those before it in its bundle and on a switch that has no other bundle to do;
  it begins when those before it have completed, goes through the steps of its strategy
  one by one, and when it fails the rest of the bundle is cancelled. The step is the
  statement that writes the row; a repeated step or a restart is a stutter. It follows
  from the same invariant: `SyncInv` makes a worker's copy the row it overwrites,
  `OrderInv` and `TrayInv` give the guards. For what CancelUpdate has touched the promise
  is weaker (`Stray`): a worker may bring such an update back, though not ahead of its
  predecessors.

**JobSchedulerProofs.** `OrderInv` strings the places of an event together: what was
handed over is older than what g2 sends, that than the queue, that than what g1 has
received, that than eventCh, and that than what a trigger sends.

- `EventsInOrder` (`InOrder`) is its first part.
- `NothingIsLost` (`NothingLost`) and `NewestIsKept` (`LatestKept`): an event leaves one
  place only for the next; and g2 returns only after it has looked into the queue once
  more when it knew that g1 had ended (`EndInv`). The policies differ in what Dequeue
  takes: `NewestInv` is LatestKept for any event that has no newer one, through a graceful
  stop as well, where LatestKept itself ends with the call of Stop.
- `PredecessorCancelled` (`ReplacedIsCancelled`): what replaceDispatcher remembers is
  what the worker has (`ReplaceInv`).
- `TypeCorrect` bounds the channels and the queue.
- `PipelineIsABox` (`ImplementsBox`): `EventBox` has no goroutines, channels or signals,
  only the events that g1 has accepted, those that wait (in the queue, or with g2, which
  is trying to send them), those that a job was started for, and whether it is open
  (g2 runs). Only the oldest event starts a job. An event that finds the box full
  replaces one of it; under Queue and Replace the newest stands for all; under Skip the
  oldest is dropped, or all but it; a forced stop may drop anything; under QueueAll
  nothing else leaves. And the box is closed only when it is empty, unless by force.
  The last point needs that no wake-up is lost (`SignalInv`): while the queue holds
  something, a signal is pending, g1 is about to send one, or g2 is going to look.

**IpamProofs.** The inductive invariant `IInv` adds to TypeOK, `LeasesDisjoint` and
`Bookkeeping`: two calls serve different leases (`OneCallPerLease`), at most one
transaction has written the block (`OneWriter`, from the row lock), and for every call
`CallInv`, what it knows at each of its points. The heart is `Copied`: a copy of the
block is what is committed, or its version is older, so that the version check of
UpdatePrefix makes sure that the pick is free of everything in use. A commit replaces
`taken`, `rows` and `lease` together and makes the copies of all others too old.

- `NeverTwice` (`LeasesDisjoint`) and `NothingLeaks` (`Bookkeeping`) are conjuncts; each
  needs the other, as the pick is compared with the block and not with the leases.
- `NoCircle` (`HolderProceeds`): what others have deleted and not committed belongs to
  other leases, so that it is still taken and apart from the pick of the writer.
- `TypeCorrect` includes that a call that has used up its attempts has given up.
- `Serializable` (`ImplementsPool`): `PrefixPool` has the leases and the requests that
  are open; a request is served in one step, with a prefix that is free then, or refused
  and nothing changes. The step is the commit. What a call wants is fixed when it begins
  (`WantedInv`), and by `Copied` what it picked from a copy is free of everything leased
  at the commit. This is what optimistic locking is for: READ COMMITTED alone does not
  give it, and the mutant without the version check violates it.

*Only model-checked.* Liveness (`QueueDrains`, `WaitingIsExecuted`, `DueIsHandled`,
`Settles`, `Delivered`, `StopEnds`, `CallsEnd`), which the prover does not do. All
invariants and action properties of the passing runs are theorems, and each inductive
invariant was checked with TLC before it was proved.

## 5. Not modelled

The REST API (but for what it does to IP blocks), its database layer, authentication,
certificates, the command line and the SDK are request handlers, queries, I/O or
generated code without interleavings of their own; site workflows forward calls. They
make up most of the repository, half of it generated. Inside RLA the steps of operation
rules, the worker pool, the inventory and the component managers are I/O or pending. Of
IPAM the creation and deletion of blocks, full grants and single addresses are left out.
The firmware manager of the power shelf manager works like that of the NVSwitch manager,
with fewer states. `PROJECT.json` lists every component with its reason.

## 6. Plan

In order of importance.

1. `TaskConflict`, `RackReservation`: the rule and the promise. Done.
2. `TaskManager`: submission, promotion, execution, cancellation. Done.
3. `TaskSchedule`: dispatchers and RPCs on locked rows. Done.
4. Proofs of the invariants of 1 to 3. Done, with the refinements: of the task manager
   for a single client, of the schedules for any number of callers.
5. `FirmwareUpdates`: the NVSwitch manager. Done, with proofs; the power shelf manager
   is left.
6. `JobScheduler`: the in-process scheduler. Done, with proofs; `WorkerPool`, Submit
   against Stop, is left.
7. `Ipam`: allocation of prefixes under optimistic locking, with proofs. Done for one
   block; full grants, creation and deletion of blocks, and blocks carved from blocks
   are left.
8. `OperationRules`: resolution of rules and the sequence of stages as operators with a
   reference definition, and the stages of a workflow in place of `Operate`.
9. `SiteBootstrap`: the one-time password of a site between site manager and agent.
10. Inventory reconciliation of the cloud workflows with paged and repeated reports.

Further theorems: every invariant and action property that the runs check is proved, and
every component has an abstract specification that it implements. To strengthen:
`Refinement` for a client that queues, with the promoter as the only other actor on a
rack of its own; and `ScheduleTable` with tasks, once Phase 3 is atomic with the firing.
New modules come with their proofs.
Runs are grouped by instance, so that each answers one question; where a new module needs a run,
runs of the task manager that share an instance are merged.
