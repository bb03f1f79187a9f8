---------------------------- MODULE TaskSchedule ----------------------------
(***************************************************************************)
(* RLA's task schedules: the dispatchers that poll the task_schedule table *)
(* (one per service instance), the RPCs that change it and the trigger RPC *)
(* that fires a schedule by hand (rla/internal/scheduler/taskschedule and  *)
(* rla/internal/service/server_impl_task_schedule.go).                     *)
(*                                                                         *)
(* A firing has three phases: a transaction that locks the row and         *)
(* advances it, SubmitTask for every scope outside any transaction, and a  *)
(* transaction that writes the new task IDs to the scope rows.  Row locks  *)
(* are held from LockForFire or LockForTrigger to the commit, so that a    *)
(* transaction is two steps here, lock and read, and write and commit.     *)
(*                                                                         *)
(* Time is abstracted to whether next_run_at is NULL, ahead or past, and   *)
(* to the order in which rows became due.  Interval and cron schedules     *)
(* differ only in how the next time is computed: both are "recurring".     *)
(***************************************************************************)
EXTENDS Naturals, Sequences, FiniteSets

CONSTANTS
    Schedules,    \* IDs of rows of task_schedule
    Scopes,       \* IDs of rows of task_schedule_scope
    ScheduleOf,   \* column schedule_id of a scope row
    RackOf,       \* column rack_id of a scope row
    Tasks,        \* IDs of tasks
    Pollers,      \* dispatchers
    Callers,      \* RPCs in progress
    Calls,        \* the RPCs that are called
    Policies,     \* the overlap policies requests ask for
    Batch,        \* Config.FetchBatch
    MaxFaults     \* bound: failed transactions, crashed dispatchers, cancelled RPCs

ASSUME ScheduleAssumption ==
    /\ ScheduleOf \in [Scopes -> Schedules]
    /\ DOMAIN RackOf = Scopes
    /\ IsFiniteSet(Scopes)
    /\ Pollers \cap Callers = {}
    /\ Calls \subseteq {"trigger", "resume", "update", "rescope", "remove", "pause",
                        "policy", "delete"}
    /\ Policies \subseteq {"skip", "queue"}
    /\ Batch \in Nat \ {0}
    /\ MaxFaults \in Nat
    /\ "none" \notin Tasks \cup Schedules \cup Scopes

VARIABLES
    live,       \* schedules that exist
    row,        \* columns spec_type, enabled, next_run_at, overlap_policy
    overdue,    \* schedules whose next_run_at has passed, in its order
    racks,      \* racks that are in the inventory, soft-deleted ones included
    scopes,     \* scope rows that exist
    lastTask,   \* column last_task_id of a scope row
    task,       \* whether a task is waiting, pending or running, or finished
    pc,         \* what a dispatcher or an RPC is doing
    cur,        \* the schedule it is doing it to
    snap,       \* the row as it was when it was locked
    target,     \* the scope a RemoveTaskScheduleScope call removes
    seen,       \* the scopes that ListScopes returned to a change of scopes
    pending,    \* Phase 2: scopes still to submit
    got,        \* Phase 2: tasks submitted
    todo,       \* IDs a dispatcher has fetched
    faults,
    \* history
    created,    \* schedules that existed
    usedScopes, \* scope rows that existed
    scopeOf,    \* the scope a task was submitted for
    latest,     \* the task submitted last for a scope
    fired       \* schedules that fired since they were given their spec

tableVars == <<live, row, overdue, racks, scopes, lastTask>>
actorVars == <<pc, cur, snap, target, seen, pending, got, todo>>
historyVars == <<created, usedScopes, scopeOf, latest, fired>>
vars == <<tableVars, task, actorVars, faults, historyVars>>

-----------------------------------------------------------------------------
Actors == Pollers \cup Callers

Row == [type: {"one-time", "recurring"}, enabled: BOOLEAN,
        next: {"null", "future", "due"}, policy: {"skip", "queue"}]
NoRow == [type |-> "recurring", enabled |-> FALSE, next |-> "null", policy |-> "skip"]

ScopesOf(s) == { sc \in scopes : ScheduleOf[sc] = s }

(* Lists of schedules, each of which occurs once. *)
Listed(q) == { q[i] : i \in 1..Len(q) }
Once(q) == \A i, j \in 1..Len(q) : q[i] = q[j] => i = j
Without(q, s) ==
    IF s \notin Listed(q) THEN q
    ELSE LET k == CHOOSE i \in 1..Len(q) : q[i] = s
         IN [i \in 1..(Len(q) - 1) |-> q[IF i < k THEN i ELSE i + 1]]

(* Transactions that hold the lock of the row. *)
InTransaction == {"fire", "trigger", "resume", "update", "rescope", "removing"}

(* Mutant: rows are read without FOR UPDATE. *)
Unlocked(s) == TRUE

Free(s) == \A a \in Actors : pc[a] \in InTransaction => cur[a] # s

(* The row of s is written and its next_run_at becomes r.next.             *)
WriteRow(s, r) ==
    /\ row' = [row EXCEPT ![s] = r]
    /\ overdue' = IF r.next = "due" /\ row[s].next = "due" THEN overdue
                  ELSE IF r.next = "due" THEN Append(overdue, s)
                  ELSE Without(overdue, s)

Fault == faults < MaxFaults /\ faults' = faults + 1

(* A one-time schedule that has fired. *)
Consumed(r) == r.type = "one-time" /\ r.next = "null"

Goto(a, label) == pc' = [pc EXCEPT ![a] = label]
Return(a) ==
    /\ pc' = [pc EXCEPT ![a] = "idle"]
    /\ cur' = [cur EXCEPT ![a] = "none"]
    /\ snap' = [snap EXCEPT ![a] = NoRow]
    /\ target' = [target EXCEPT ![a] = "none"]
    /\ seen' = [seen EXCEPT ![a] = {}]

(* SELECT ... FOR UPDATE: wait for the lock and read the row.              *)
Lock(a, s, label) ==
    /\ s \in live /\ Free(s)
    /\ Goto(a, label)
    /\ cur' = [cur EXCEPT ![a] = s]
    /\ snap' = [snap EXCEPT ![a] = row[s]]

-----------------------------------------------------------------------------
(* Time passes: a next_run_at that lay ahead is in the past.  LockForFire  *)
(* compares it with the time of the poll, so that a dispatcher that has    *)
(* fetched s before will pass it over.                                     *)
Tick(s) ==
    /\ s \in live /\ row[s].next = "future"
    /\ WriteRow(s, [row[s] EXCEPT !.next = "due"])
    /\ todo' = [a \in Actors |-> Without(todo[a], s)]
    /\ UNCHANGED <<live, racks, scopes, lastTask, task, pc, cur, snap, target, seen, pending,
                   got, faults, historyVars>>

(* A task ends. *)
Finish(t) ==
    /\ task[t] = "active"
    /\ task' = [task EXCEPT ![t] = "finished"]
    /\ UNCHANGED <<tableVars, actorVars, faults, historyVars>>

-----------------------------------------------------------------------------
(* Enabled and due; the earlier next_run_at comes first. *)
Fetchable == { s \in Listed(overdue) : row[s].enabled }
Before(s, t) ==
    \E i, j \in 1..Len(overdue) : i < j /\ overdue[i] = s /\ overdue[j] = t

(* Mutant: ORDER BY next_run_at DESC. *)
FetchLatest ==
    { q \in UNION { [1..n -> Fetchable] : n \in 0..Batch } :
        /\ \A i, j \in 1..Len(q) : i < j => Before(q[j], q[i])
        /\ \A s \in Fetchable \ Listed(q) :
             Len(q) = Batch /\ \A i \in 1..Len(q) : Before(s, q[i]) }

(* ORDER BY next_run_at LIMIT batch: what the query returns. *)
FetchDue ==
    { q \in UNION { [1..n -> Fetchable] : n \in 0..Batch } :
        /\ \A i, j \in 1..Len(q) : i < j => Before(q[i], q[j])
        /\ \A s \in Fetchable \ Listed(q) :
             Len(q) = Batch /\ \A i \in 1..Len(q) : Before(q[i], s) }

(* A ticker fires: firedue fetches a batch of IDs, without locking.        *)
Poll(p) ==
    /\ pc[p] = "idle" /\ todo[p] = << >>
    /\ \E q \in FetchDue \ {<< >>} : todo' = [todo EXCEPT ![p] = q]
    /\ UNCHANGED <<tableVars, task, pc, cur, snap, target, seen, pending, got, faults,
                   historyVars>>

Drop(p) == todo' = [todo EXCEPT ![p] = Tail(@)]

(* LockForFire: the row must still be enabled and due. *)
Due(s) == s \in live /\ row[s].enabled /\ row[s].next = "due"

FireLock(p) ==
    /\ pc[p] = "idle" /\ todo[p] # << >>
    /\ Due(Head(todo[p]))
    /\ Lock(p, Head(todo[p]), "fire")
    /\ Drop(p)
    /\ UNCHANGED <<tableVars, task, target, seen, pending, got, faults, historyVars>>

(* SKIP LOCKED, or no longer due. *)
FireSkip(p) ==
    /\ pc[p] = "idle" /\ todo[p] # << >>
    /\ ~ Due(Head(todo[p])) \/ ~ Free(Head(todo[p]))
    /\ Drop(p)
    /\ UNCHANGED <<tableVars, task, pc, cur, snap, target, seen, pending, got, faults,
                   historyVars>>

(* A statement of Phase 1 or the commit fails: rolled back. *)
FireFails(p) ==
    /\ pc[p] = "fire"
    /\ Fault
    /\ Return(p)
    /\ UNCHANGED <<tableVars, task, pending, got, todo, historyVars>>

(* isTaskActive; filterScopesByPolicy *)
isTaskActive(t) == task[t] = "active"

(* Mutant: the policy is not looked at. *)
Unfiltered(s, policy) == ScopesOf(s)

Eligible(s, policy) ==
    { sc \in ScopesOf(s) : \/ policy = "queue"
                           \/ lastTask[sc] = "none"
                           \/ ~ isTaskActive(lastTask[sc]) }

(* Mutant: enabled is forced to true. *)
AfterFireEnabled(r) ==
    IF r.type = "one-time" THEN [r EXCEPT !.enabled = FALSE, !.next = "null"]
                           ELSE [r EXCEPT !.enabled = TRUE, !.next = "future"]

(* applyAfterFire and advanceOnly: a one-time schedule is consumed, a      *)
(* recurring one advances and stays as enabled as it was.                  *)
AfterFire(r) ==
    IF r.type = "one-time" THEN [r EXCEPT !.enabled = FALSE, !.next = "null"]
                           ELSE [r EXCEPT !.next = "future"]

(* Phase 1 commits; nothing is submitted when no scope is eligible.  The   *)
(* scopes listed under the lock are those of this moment: a rack purged    *)
(* between list and commit could as well be purged after both.             *)
Advance(a, S) ==
    /\ WriteRow(cur[a], [row[cur[a]] EXCEPT !.enabled = AfterFire(snap[a]).enabled,
                                            !.next = AfterFire(snap[a]).next])
    /\ \/ S = {} /\ Return(a) /\ UNCHANGED <<pending, fired>>
       \/ /\ S # {}
          /\ Goto(a, "submit")
          /\ pending' = [pending EXCEPT ![a] = S]
          /\ fired' = fired \cup {cur[a]}
          /\ UNCHANGED <<cur, snap, target, seen>>
    /\ UNCHANGED <<live, racks, scopes, lastTask, task, got, todo, faults, created,
                   usedScopes, scopeOf, latest>>

FireCommit(p) ==
    /\ pc[p] = "fire"
    /\ Advance(p, Eligible(cur[p], snap[p].policy))

-----------------------------------------------------------------------------
(* TriggerTaskSchedule: FireNow ignores enabled, next_run_at and policy.   *)
Call(c, name) == c \in Callers /\ name \in Calls /\ pc[c] = "idle"

TriggerLock(c, s) ==
    /\ Call(c, "trigger")
    /\ Lock(c, s, "trigger")
    /\ UNCHANGED <<tableVars, task, target, seen, pending, got, todo, faults, historyVars>>

(* Mutant: no check under the lock. *)
TriggerAlways(c) ==
    /\ pc[c] = "trigger"
    /\ Advance(c, ScopesOf(cur[c]))

TriggerCommit(c) ==
    /\ pc[c] = "trigger"
    /\ snap[c].enabled \/ ~ Consumed(snap[c])
    /\ Advance(c, ScopesOf(cur[c]))

TriggerRefuse(c) ==
    /\ pc[c] = "trigger"
    /\ ~ snap[c].enabled /\ Consumed(snap[c])
    /\ Return(c)
    /\ UNCHANGED <<tableVars, task, pending, got, todo, faults, historyVars>>

-----------------------------------------------------------------------------
(* Mutant: Phase 3 is entered although every submission failed. *)
SubmittedNone(a, sc, new) ==
    /\ pc[a] = "submit" /\ sc \in pending[a]
    /\ pending' = [pending EXCEPT ![a] = @ \ {sc}]
    /\ got' = [got EXCEPT ![a] = @ \cup new]
    /\ pc' = [pc EXCEPT ![a] = IF pending[a] = {sc} THEN "record" ELSE @]
    /\ UNCHANGED <<tableVars, cur, snap, target, seen, todo, faults, created, usedScopes, fired>>

(* Phase 2, submitScopeTasks.  After the last scope: Phase 3 if any task   *)
(* was created, an error otherwise.                                        *)
Submitted(a, sc, new) ==
    /\ pc[a] = "submit" /\ sc \in pending[a]
    /\ pending' = [pending EXCEPT ![a] = @ \ {sc}]
    /\ got' = [got EXCEPT ![a] = @ \cup new]
    /\ IF pending[a] # {sc} THEN UNCHANGED <<pc, cur, snap, target, seen>>
       ELSE IF got[a] \cup new = {} THEN Return(a)
       ELSE Goto(a, "record") /\ UNCHANGED <<cur, snap, target, seen>>
    /\ UNCHANGED <<tableVars, todo, faults, created, usedScopes, fired>>

SubmitTask(a, sc, t) ==
    /\ task[t] = "none"
    /\ task' = [task EXCEPT ![t] = "active"]
    /\ scopeOf' = [scopeOf EXCEPT ![t] = sc]
    /\ latest' = [latest EXCEPT ![sc] = t]
    /\ Submitted(a, sc, {t})

(* The task manager refuses (a conflict, a full queue, a component that    *)
(* has moved to another rack) or fails; a malformed template or filter.    *)
SubmitRefused(a, sc) ==
    /\ Submitted(a, sc, {})
    /\ UNCHANGED <<task, scopeOf, latest>>

(* Phase 3, UpdateScopeLastTaskIDs: scope rows that are gone are not       *)
(* touched.                                                                *)
Record(a) ==
    /\ pc[a] = "record"
    /\ lastTask' = [sc \in Scopes |->
                      IF \E t \in got[a] : sc \in scopes /\ scopeOf[t] = sc
                      THEN CHOOSE t \in got[a] : scopeOf[t] = sc ELSE lastTask[sc]]
    /\ got' = [got EXCEPT ![a] = {}]
    /\ Return(a)
    /\ UNCHANGED <<live, row, overdue, racks, scopes, task, pending, todo, faults,
                   historyVars>>

(* Every retry of the write fails; the tasks have been created.            *)
RecordFails(a) ==
    /\ pc[a] = "record"
    /\ Fault
    /\ got' = [got EXCEPT ![a] = {}]
    /\ Return(a)
    /\ UNCHANGED <<tableVars, task, pending, todo, historyVars>>

-----------------------------------------------------------------------------
(* Each scope row maps one-to-one with a rack. *)
OneRowPerRack(S) == \A x, y \in S : RackOf[x] = RackOf[y] => x = y

(* CreateTaskSchedule: the row and its scopes in one transaction; rack_id  *)
(* is a foreign key.  A one-time schedule may be given a time in the past. *)
FirstRun(type) == IF type = "one-time" THEN {"future", "due"} ELSE {"future"}

Create(s) ==
    /\ s \notin created
    /\ \E type \in {"one-time", "recurring"}, policy \in Policies,
          S \in SUBSET { sc \in Scopes : ScheduleOf[sc] = s /\ RackOf[sc] \in racks } :
         /\ S # {} /\ OneRowPerRack(S)
         /\ \E next \in FirstRun(type) :
               WriteRow(s, [type |-> type, enabled |-> TRUE, next |-> next,
                            policy |-> policy])
         /\ scopes' = scopes \cup S
         /\ usedScopes' = usedScopes \cup S
    /\ live' = live \cup {s} /\ created' = created \cup {s}
    /\ UNCHANGED <<racks, lastTask, task, actorVars, faults, scopeOf, latest, fired>>

(* DeleteTaskSchedule: waits for the lock, cascades to the scopes.         *)
Delete(c, s) ==
    /\ Call(c, "delete")
    /\ s \in live /\ Free(s)
    /\ live' = live \ {s}
    /\ WriteRow(s, NoRow)
    /\ scopes' = scopes \ ScopesOf(s)
    /\ lastTask' = [sc \in Scopes |-> IF sc \in ScopesOf(s) THEN "none" ELSE lastTask[sc]]
    /\ UNCHANGED <<racks, task, actorVars, faults, historyVars>>

(* PauseTaskSchedule reads the row without a lock; consumed or paused      *)
(* schedules are left alone.                                               *)
PauseGet(c, s) ==
    /\ Call(c, "pause")
    /\ s \in live /\ row[s].enabled /\ ~ Consumed(row[s])
    /\ Goto(c, "pause")
    /\ cur' = [cur EXCEPT ![c] = s]
    /\ UNCHANGED <<tableVars, task, snap, target, seen, pending, got, todo, faults,
                   historyVars>>

(* SetEnabled(false) on whatever the row has become. *)
PauseSet(c) ==
    /\ pc[c] = "pause" /\ Free(cur[c])
    /\ IF cur[c] \in live THEN WriteRow(cur[c], [row[cur[c]] EXCEPT !.enabled = FALSE])
                          ELSE UNCHANGED <<row, overdue>>
    /\ Return(c)
    /\ UNCHANGED <<live, racks, scopes, lastTask, task, pending, got, todo, faults,
                   historyVars>>

ResumeLock(c, s) ==
    /\ Call(c, "resume")
    /\ Lock(c, s, "resume")
    /\ UNCHANGED <<tableVars, task, target, seen, pending, got, todo, faults, historyVars>>

(* Mutant: a consumed schedule is resumed. *)
ResumeConsumed(c) ==
    /\ pc[c] = "resume"
    /\ WriteRow(cur[c], [row[cur[c]] EXCEPT
                           !.enabled = TRUE,
                           !.next = IF snap[c].type = "recurring" THEN "future" ELSE @])
    /\ Return(c)
    /\ UNCHANGED <<live, racks, scopes, lastTask, task, pending, got, todo, faults,
                   historyVars>>

(* ResumeTaskSchedule: a recurring schedule starts a new interval; an      *)
(* enabled or a consumed schedule is left alone.                           *)
ResumeCommit(c) ==
    /\ pc[c] = "resume"
    /\ IF snap[c].enabled \/ Consumed(snap[c]) THEN UNCHANGED <<row, overdue>>
       ELSE WriteRow(cur[c], [row[cur[c]] EXCEPT
                         !.enabled = TRUE,
                         !.next = IF snap[c].type = "recurring" THEN "future" ELSE @])
    /\ Return(c)
    /\ UNCHANGED <<live, racks, scopes, lastTask, task, pending, got, todo, faults,
                   historyVars>>

(* UpdateTaskSchedule of the spec or of the timezone of a cron spec.       *)
UpdateLock(c, s) ==
    /\ Call(c, "update")
    /\ Lock(c, s, "update")
    /\ UNCHANGED <<tableVars, task, target, seen, pending, got, todo, faults, historyVars>>

UpdateCommit(c) ==
    /\ pc[c] = "update" /\ ~ Consumed(snap[c])
    /\ \E type \in {"one-time", "recurring"}, policy \in Policies \cup {snap[c].policy} :
          \E next \in FirstRun(type) :
             WriteRow(cur[c], [type |-> type, enabled |-> row[cur[c]].enabled,
                               next |-> next, policy |-> policy])
    /\ fired' = fired \ {cur[c]}
    /\ Return(c)
    /\ UNCHANGED <<live, racks, scopes, lastTask, task, pending, got, todo, faults,
                   created, usedScopes, scopeOf, latest>>

UpdateRefuse(c) ==
    /\ pc[c] = "update" /\ Consumed(snap[c])
    /\ Return(c)
    /\ UNCHANGED <<tableVars, task, pending, got, todo, faults, historyVars>>

(* UpdateTaskSchedule of the overlap policy alone: one statement.  With    *)
(* the timezone of a schedule that is not cron it has the same effect.     *)
UpdatePolicy(c, s) ==
    /\ Call(c, "policy")
    /\ s \in live /\ Free(s)
    /\ \E policy \in Policies \ {row[s].policy} :
          WriteRow(s, [row[s] EXCEPT !.policy = policy])
    /\ UNCHANGED <<live, racks, scopes, lastTask, task, actorVars, faults, historyVars>>

-----------------------------------------------------------------------------
(* ListScopes under the lock.  Only PurgeRack, which does not take the     *)
(* lock, can make the list old before the commit.                          *)
ListScopes(c, s) == seen' = [seen EXCEPT ![c] = ScopesOf(s)]

(* AddTaskScheduleScope and UpdateTaskScheduleScope: applyScopeChanges.    *)
RescopeLock(c, s) ==
    /\ Call(c, "rescope")
    /\ Lock(c, s, "rescope") /\ ListScopes(c, s)
    /\ UNCHANGED <<tableVars, task, target, pending, got, todo, faults, historyVars>>

(* DeleteScope; with the row goes its last_task_id. *)
DeleteScopes(S) ==
    /\ scopes' = scopes \ S
    /\ lastTask' = [sc \in Scopes |-> IF sc \in S THEN "none" ELSE lastTask[sc]]

(* partitionScopeChanges keeps every row, diffScopeChanges those of the    *)
(* racks asked for; a rack without a row gets a new one.  No change of the *)
(* list may leave it empty.  A row to be removed must still exist.         *)
RescopeCommit(c) ==
    /\ pc[c] = "rescope"
    /\ \E new \in SUBSET { sc \in Scopes \ usedScopes :
                             ScheduleOf[sc] = cur[c] /\ RackOf[sc] \in racks },
          gone \in SUBSET ScopesOf(cur[c]) :
         /\ OneRowPerRack(new \cup ScopesOf(cur[c]))
         /\ (seen[c] \ gone) \cup new # {}
         /\ scopes' = (scopes \ gone) \cup new
         /\ lastTask' = [sc \in Scopes |-> IF sc \in gone THEN "none" ELSE lastTask[sc]]
         /\ usedScopes' = usedScopes \cup new
    /\ Return(c)
    /\ UNCHANGED <<live, row, overdue, racks, task, pending, got, todo, faults, created,
                   scopeOf, latest, fired>>

(* The change would leave no scope, a rack has been purged since it was    *)
(* resolved or listed, or a component filter cannot be read: rolled back.  *)
RescopeRefuse(c) ==
    /\ pc[c] = "rescope"
    /\ Return(c)
    /\ UNCHANGED <<tableVars, task, pending, got, todo, faults, historyVars>>

(* RemoveTaskScheduleScope reads the scope, then locks its schedule. *)
RemoveGet(c, sc) ==
    /\ Call(c, "remove") /\ sc \in scopes
    /\ Goto(c, "remove")
    /\ cur' = [cur EXCEPT ![c] = ScheduleOf[sc]]
    /\ target' = [target EXCEPT ![c] = sc]
    /\ UNCHANGED <<tableVars, task, snap, seen, pending, got, todo, faults, historyVars>>

RemoveLock(c) ==
    /\ pc[c] = "remove"
    /\ \/ Lock(c, cur[c], "removing") /\ ListScopes(c, cur[c]) /\ UNCHANGED target
       \/ cur[c] \notin live /\ Return(c)
    /\ UNCHANGED <<tableVars, task, pending, got, todo, faults, historyVars>>

(* Mutant: the last scope may go. *)
RemoveLast(c) ==
    /\ pc[c] = "removing"
    /\ DeleteScopes({target[c]})
    /\ Return(c)
    /\ UNCHANGED <<live, row, overdue, racks, task, pending, got, todo, faults,
                   historyVars>>

(* The last scope listed is not removed; one that is gone is not found. *)
RemoveCommit(c) ==
    /\ pc[c] = "removing"
    /\ IF Cardinality(seen[c]) <= 1 THEN UNCHANGED <<scopes, lastTask>>
       ELSE DeleteScopes({target[c]})
    /\ Return(c)
    /\ UNCHANGED <<live, row, overdue, racks, task, pending, got, todo, faults,
                   historyVars>>

(* PurgeRack removes a rack; the foreign key cascades to its scope rows,   *)
(* of any schedule, without the lock of the schedule's row and whether or  *)
(* not it has other scopes.                                                *)
PurgeRack(r) ==
    /\ r \in racks
    /\ racks' = racks \ {r}
    /\ DeleteScopes({ sc \in scopes : RackOf[sc] = r })
    /\ UNCHANGED <<live, row, overdue, task, actorVars, faults, historyVars>>

(* A statement of an RPC's transaction fails: rolled back. *)
CallFails(c) ==
    /\ c \in Callers /\ pc[c] \notin {"idle", "submit", "record"}
    /\ Fault
    /\ Return(c)
    /\ UNCHANGED <<tableVars, task, pending, got, todo, historyVars>>

(* A dispatcher stops or crashes, or the context of an RPC is cancelled.   *)
Crash(a) ==
    /\ pc[a] # "idle" \/ todo[a] # << >>
    /\ Fault
    /\ Return(a)
    /\ pending' = [pending EXCEPT ![a] = {}]
    /\ got' = [got EXCEPT ![a] = {}]
    /\ todo' = [todo EXCEPT ![a] = << >>]
    /\ UNCHANGED <<tableVars, task, historyVars>>

-----------------------------------------------------------------------------
Init ==
    /\ live = {} /\ created = {}
    /\ row = [s \in Schedules |-> NoRow]
    /\ overdue = << >>
    /\ racks = { RackOf[sc] : sc \in Scopes }
    /\ scopes = {} /\ usedScopes = {}
    /\ lastTask = [sc \in Scopes |-> "none"]
    /\ task = [t \in Tasks |-> "none"]
    /\ pc = [a \in Actors |-> "idle"]
    /\ cur = [a \in Actors |-> "none"]
    /\ snap = [a \in Actors |-> NoRow]
    /\ target = [a \in Actors |-> "none"]
    /\ seen = [a \in Actors |-> {}]
    /\ pending = [a \in Actors |-> {}]
    /\ got = [a \in Actors |-> {}]
    /\ todo = [a \in Actors |-> << >>]
    /\ faults = 0
    /\ scopeOf = [t \in Tasks |-> "none"]
    /\ latest = [sc \in Scopes |-> "none"]
    /\ fired = {}

Phases23(a) ==
    \/ \E sc \in Scopes : SubmitRefused(a, sc) \/ \E t \in Tasks : SubmitTask(a, sc, t)
    \/ Record(a)
Dispatch(p) == Poll(p) \/ FireLock(p) \/ FireSkip(p) \/ FireCommit(p) \/ Phases23(p)

Begin(c) ==
    \/ \E s \in Schedules : \/ TriggerLock(c, s) \/ ResumeLock(c, s) \/ UpdateLock(c, s)
                            \/ RescopeLock(c, s) \/ PauseGet(c, s) \/ UpdatePolicy(c, s)
                            \/ Delete(c, s)
    \/ \E sc \in Scopes : RemoveGet(c, sc)
Proceed(c) ==
    \/ TriggerCommit(c) \/ TriggerRefuse(c) \/ ResumeCommit(c) \/ UpdateCommit(c)
    \/ UpdateRefuse(c) \/ RescopeCommit(c) \/ RescopeRefuse(c) \/ PauseSet(c)
    \/ RemoveLock(c) \/ RemoveCommit(c) \/ Phases23(c)

Next ==
    \/ \E s \in Schedules : Create(s) \/ Tick(s)
    \/ \E t \in Tasks : Finish(t)
    \/ \E r \in racks : PurgeRack(r)
    \/ \E p \in Pollers : Dispatch(p) \/ FireFails(p)
    \/ \E c \in Callers : Begin(c) \/ Proceed(c) \/ CallFails(c)
    \/ \E a \in Actors : RecordFails(a) \/ Crash(a)

Spec == Init /\ [][Next]_vars

(* Dispatchers and RPCs that have begun keep running.                      *)
FairSpec == Spec /\ (\A p \in Pollers : WF_vars(Dispatch(p)))
                 /\ (\A c \in Callers : WF_vars(Proceed(c)))

-----------------------------------------------------------------------------
Labels == InTransaction \cup {"idle", "submit", "record", "pause", "remove"}

(* The rows that are due are listed, each of them once. *)
TypeOK ==
    /\ live \subseteq created /\ created \subseteq Schedules
    /\ row \in [Schedules -> Row]
    /\ overdue \in Seq(Schedules) /\ Once(overdue)
    /\ \A s \in Schedules : s \in Listed(overdue) <=> row[s].next = "due"
    /\ scopes \subseteq usedScopes /\ usedScopes \subseteq Scopes
    /\ racks \subseteq { RackOf[sc] : sc \in Scopes }
    /\ lastTask \in [Scopes -> Tasks \cup {"none"}]
    /\ task \in [Tasks -> {"none", "active", "finished"}]
    /\ pc \in [Actors -> Labels]
    /\ cur \in [Actors -> Schedules \cup {"none"}]
    /\ snap \in [Actors -> Row]
    /\ target \in [Actors -> Scopes \cup {"none"}]
    /\ seen \in [Actors -> SUBSET Scopes]
    /\ pending \in [Actors -> SUBSET Scopes]
    /\ got \in [Actors -> SUBSET Tasks]
    /\ \A a \in Actors : /\ pc[a] = "submit" <=> pending[a] # {}
                         /\ pc[a] = "record" => got[a] # {}
                         /\ pc[a] = "idle" <=> cur[a] = "none"
    /\ todo \in [Actors -> Seq(Schedules)]
    /\ \A a \in Actors : Once(todo[a])
    /\ faults \in 0..MaxFaults
    /\ scopeOf \in [Tasks -> Scopes \cup {"none"}]
    /\ latest \in [Scopes -> Tasks \cup {"none"}]
    /\ fired \subseteq Schedules

(* Row locks protect the row: what a transaction has read stays true until *)
(* it commits (but for the passing of time), no two transactions hold the  *)
(* same row, and a locked row is not deleted.                              *)
SnapshotCurrent ==
    \A a \in Actors : pc[a] \in InTransaction =>
        /\ cur[a] \in live
        /\ snap[a].type = row[cur[a]].type
        /\ snap[a].enabled = row[cur[a]].enabled
        /\ snap[a].policy = row[cur[a]].policy
        /\ snap[a].next = "null" <=> row[cur[a]].next = "null"
        /\ \A b \in Actors \ {a} : pc[b] \in InTransaction => cur[b] # cur[a]

(* fire: "At-most-once semantics for one-time schedules": whatever         *)
(* dispatchers, triggers and updates run at the same time, a one-time      *)
(* schedule that has fired does not fire again until it is given a new     *)
(* spec, which a consumed one never is.                                    *)
Fires(a) == pc[a] \in {"fire", "trigger"} /\ pc'[a] = "submit"

AtMostOnce ==
    [][\A a \in Actors : Fires(a) =>
          ~ (row[cur[a]].type = "one-time" /\ cur[a] \in fired)]_vars

(* A consumed schedule is never re-armed, and ResumeTaskSchedule's         *)
(* "invalid state (enabled=true, next_run_at=NULL)" is never reached.      *)
EnabledHasNextRun == \A s \in live : row[s].enabled => row[s].next # "null"

(* A paused schedule stays paused until a resume commits, also when it is  *)
(* triggered or updated meanwhile, and no dispatcher fires it.             *)
PauseHolds ==
    [][/\ \A s \in live \cap live' :
             (~ row[s].enabled /\ row'[s].enabled) =>
                 \E c \in Callers : pc[c] = "resume" /\ cur[c] = s /\ pc'[c] = "idle"
       /\ \A p \in Pollers : Fires(p) => row[cur[p]].enabled]_vars

(* "A schedule must have at least one rack target": it is created with     *)
(* one, and no mix of concurrent scope changes, firings and deletions      *)
(* takes its last one.  Only PurgeRack does, or an RPC that has listed a   *)
(* scope whose rack has been purged since.                                 *)
LastScopeStays ==
    [][\A s \in live' : { sc \in scopes' : ScheduleOf[sc] = s } = {} =>
          \/ s \in live /\ ScopesOf(s) = {}
          \/ \E sc \in ScopesOf(s) : RackOf[sc] \in racks \ racks'
          \/ \E c \in Callers : /\ pc[c] \in {"rescope", "removing"} /\ cur[c] = s
                               /\ \E sc \in seen[c] : RackOf[sc] \notin racks]_vars

(* Overlap policy skip: no dispatcher fires for a scope while the task     *)
(* submitted last for it is active.  It holds for one dispatcher whose     *)
(* writes succeed, unless somebody triggers the schedule by hand.          *)
SkipHolds ==
    [][\A p \in Pollers : (Fires(p) /\ snap[p].policy = "skip") =>
          \A sc \in pending'[p] : latest[sc] = "none" \/ task[latest[sc]] # "active"]_vars

(* Every due schedule is fired, advanced, paused or deleted, also when     *)
(* more are due than a batch holds.                                        *)
DueIsHandled == \A s \in Schedules : Due(s) ~> ~ Due(s)

(* Seen from the table, transactions that lock, read and write later are   *)
(* single steps, and so is a pause, which reads without a lock.            *)
Table == INSTANCE ScheduleTable
ImplementsTable == Table!TSpec
=============================================================================
