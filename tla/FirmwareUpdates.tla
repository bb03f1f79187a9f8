-------------------------- MODULE FirmwareUpdates ---------------------------
(***************************************************************************)
(* The firmware manager of nvswitch-manager: QueueUpdate and CancelUpdate  *)
(* calls, the scheduler goroutine and its workers, and the table           *)
(* firmware_update they share (nvswitch-manager/pkg/firmwaremanager).      *)
(*                                                                         *)
(* A worker holds a copy of the row that the scheduler read; Save writes   *)
(* the whole copy back, whatever the row has become in the meantime.       *)
(* Timestamps are kept as the order they give: updated_at by which updates *)
(* have been saved since.                                                  *)
(***************************************************************************)
EXTENDS Naturals, Sequences, FiniteSets

CONSTANTS
    Updates,      \* rows that QueueUpdate calls may insert
    Bundles,      \* QueueUpdate calls
    Switches,
    BundleOf,     \* the call that inserts an update
    SwitchOf,     \* the switch of a call
    Order,        \* sequence_order: 1, 2, ... within a call
    Flow,         \* strategy and component of an update
    Workers,      \* worker goroutines; numWorkers of them
    Cancellable,  \* updates for which CancelUpdate may be called, once
    MaxFaults     \* bound: failed statements, failed lookups, stops and crashes

Flows == {"redfish", "script", "cpld", "nvos"}

ASSUME FirmwareAssumption ==
    /\ BundleOf \in [Updates -> Bundles]
    /\ SwitchOf \in [Bundles -> Switches]
    /\ \A b \in Bundles : \E u \in Updates : BundleOf[u] = b
    /\ Order \in [Updates -> Nat \ {0}]
    /\ Flow \in [Updates -> Flows]
    /\ \A u, v \in Updates : BundleOf[u] = BundleOf[v] /\ Order[u] = Order[v] => u = v
    /\ \A u \in Updates : Order[u] > 1 =>
         \E v \in Updates : BundleOf[v] = BundleOf[u] /\ Order[v] + 1 = Order[u]
    /\ IsFiniteSet(Updates) /\ IsFiniteSet(Workers) /\ Workers # {}
    /\ "none" \notin Updates
    /\ Cancellable \subseteq Updates
    /\ MaxFaults \in Nat

VARIABLES
    \* the table
    row,        \* columns state and exec_context (whether it is set)
    since,      \* active updates saved after this one, an active one, was
    late,       \* updates whose exec_context is past its deadline
    \* calls in progress
    call,       \* QueueUpdate
    cancel,     \* CancelUpdate
    \* the worker pool
    sched,      \* where the scheduler is in its cycle
    batch,      \* items of the cycle that no worker has taken
    job,        \* what a worker is processing
    stopping,   \* Stop has cancelled the context of the pool
    \* bound
    faults,
    \* history
    completed,  \* updates that were saved as COMPLETED
    tooLate,    \* updates inserted after their predecessor had ended badly
    begun,      \* first calls of a step
    repeated    \* updates of which a step was begun twice

tableVars == <<row, since, late>>
callVars == <<call, cancel>>
poolVars == <<sched, batch, job, stopping>>
historyVars == <<completed, tooLate, begun, repeated>>
vars == <<tableVars, callVars, poolVars, faults, historyVars>>

-----------------------------------------------------------------------------
(* UpdateState: IsTerminal, IsActive. *)
Terminal == {"COMPLETED", "FAILED", "CANCELLED"}
Active == {"INSTALL", "VERIFY", "CLEANUP", "POWER_CYCLE", "WAIT_REACHABLE", "COPY",
           "UPLOAD", "POLL_COMPLETION"}
States == Terminal \cup Active \cup {"none", "QUEUED"}
Pending(u) == row[u].state \in Active \cup {"QUEUED"}

SameBundle(u, v) == BundleOf[u] = BundleOf[v]
SwitchOfUpdate(u) == SwitchOf[BundleOf[u]]
Precedes(v, u) == SameBundle(u, v) /\ Order[v] + 1 = Order[u]

(* UpdateStrategy.Steps.  NVOS power-cycles the tray first when it follows *)
(* other components of its bundle.                                         *)
SSHSteps == <<"WAIT_REACHABLE", "COPY", "UPLOAD", "INSTALL", "VERIFY", "CLEANUP">>
Steps(u) ==
    CASE Flow[u] = "redfish" -> <<"UPLOAD", "POLL_COMPLETION", "VERIFY">>
      [] Flow[u] = "script" -> <<"INSTALL", "VERIFY">>
      [] Flow[u] = "nvos" /\ Order[u] > 1 -> <<"POWER_CYCLE">> \o SSHSteps
      [] OTHER -> SSHSteps

(* Mutant: a strategy without a case of its own. *)
FirstStateDefault(u) == IF Flow[u] = "cpld" THEN "WAIT_REACHABLE" ELSE "INSTALL"

(* GetFirstState. *)
FirstState(u) ==
    CASE Flow[u] = "redfish" -> "UPLOAD"
      [] Flow[u] = "script" -> "INSTALL"
      [] Flow[u] = "nvos" /\ Order[u] > 1 -> "POWER_CYCLE"
      [] OTHER -> "WAIT_REACHABLE"

(* The state that Transition names. *)
NextState(u, s) ==
    LET after == { i \in 2..Len(Steps(u)) : Steps(u)[i - 1] = s }
    IN IF after = {} THEN "COMPLETED" ELSE Steps(u)[CHOOSE i \in after : TRUE]

(* What ExecuteStep may return on the first call of a step, when there is  *)
(* no exec_context, and on a later one.                                    *)
AnyOutcome == {"Wait", "Transition", "Failed"}
RedfishFirst == [UPLOAD |-> AnyOutcome, POLL_COMPLETION |-> AnyOutcome, VERIFY |-> {"Wait"}]
ScriptFirst == [INSTALL |-> {"Wait", "Failed"}, VERIFY |-> {"Transition"}]
SSHFirst(u) ==
    [POWER_CYCLE |-> {"Wait", "Failed"},
     WAIT_REACHABLE |-> {"Wait"},
     COPY |-> {"Wait", "Failed"},
     UPLOAD |-> {"Transition", "Failed"},
     INSTALL |-> {"Transition", "Failed"} \cup (IF Flow[u] = "nvos" THEN {"Wait"} ELSE {}),
     VERIFY |-> {"Transition", "Failed"},
     CLEANUP |-> {"Transition"}]
FirstCall(u) == CASE Flow[u] = "redfish" -> RedfishFirst
                  [] Flow[u] = "script" -> ScriptFirst
                  [] OTHER -> SSHFirst(u)
LaterCall(u, s) ==
    CASE s = "POWER_CYCLE" -> {"Wait"}
      [] s = "WAIT_REACHABLE" \/ (s = "INSTALL" /\ Flow[u] = "nvos") -> {"Wait", "Transition"}
      [] OTHER -> AnyOutcome

(* Mutant: a step that does not look at its deadline. *)
OutcomesNoDeadline(u, s, exec) == IF exec THEN LaterCall(u, s) ELSE FirstCall(u)[s]

(* Past its deadline a step fails, or the tray has had time to go down.    *)
Outcomes(u, s, exec) ==
    CASE ~ exec -> FirstCall(u)[s]
      [] exec /\ u \notin late -> LaterCall(u, s)
      [] exec /\ u \in late -> IF s = "POWER_CYCLE" THEN {"Transition"} ELSE {"Failed"}

-----------------------------------------------------------------------------
(* UpdateStore.Save: insert, or overwrite the row. *)
Save(u, s, exec) ==
    /\ row' = [row EXCEPT ![u] = [state |-> s, exec |-> exec]]
    /\ since' = [v \in Updates |->
                   CASE v = u \/ row[v].state \notin Active -> {}
                     [] OTHER -> IF s \in Active THEN since[v] \cup {u} ELSE since[v] \ {u}]
    /\ late' = IF exec /\ row[u].exec THEN late ELSE late \ {u}
    /\ completed' = IF s = "COMPLETED" THEN completed \cup {u} ELSE completed

(* Mutant: sequence_order > afterSequence + 1. *)
RemainingBeyond(u) ==
    { v \in Updates : SameBundle(u, v) /\ Order[v] > Order[u] + 1 /\ row[v].state = "QUEUED" }

(* CancelRemainingInBundle. *)
Remaining(u) ==
    { v \in Updates : SameBundle(u, v) /\ Order[v] > Order[u] /\ row[v].state = "QUEUED" }

CancelRemaining(u) ==
    /\ row' = [v \in Updates |-> IF v \in Remaining(u)
                                 THEN [row[v] EXCEPT !.state = "CANCELLED"] ELSE row[v]]
    /\ UNCHANGED <<since, late, completed>>

Fault == faults < MaxFaults /\ faults' = faults + 1

-----------------------------------------------------------------------------
(* QueueUpdate. *)
Missing(b) == { u \in Updates : BundleOf[u] = b /\ row[u].state = "none" }
NextMissing(b) == CHOOSE u \in Missing(b) : \A v \in Missing(b) : Order[u] <= Order[v]

(* Mutant: no per-switch mutex. *)
NoLock(b) == TRUE

(* getSwitchLock: the mutex is held until the call returns. *)
LockFree(b) == \A c \in Bundles : SwitchOf[c] = SwitchOf[b] => call[c] # "saving"

(* GetAnyActiveForSwitch finds nothing, and the rows will be saved one by  *)
(* one.  A call that is refused changes nothing and may be repeated.       *)
QueueCheck(b) ==
    /\ call[b] = "idle"
    /\ LockFree(b)
    /\ \A u \in Updates : SwitchOfUpdate(u) = SwitchOf[b] => ~ Pending(u)
    /\ call' = [call EXCEPT ![b] = "saving"]
    /\ UNCHANGED <<tableVars, cancel, poolVars, faults, historyVars>>

(* Save of the next row.  getCurrentVersion asks the switch before each,   *)
(* so workers may process the first rows before the last one is there.     *)
EndedBadly(u) ==
    \E v \in Updates : Precedes(v, u) /\ row[v].state \in {"FAILED", "CANCELLED"}

QueueSave(b) ==
    /\ call[b] = "saving"
    /\ LET u == NextMissing(b) IN
         /\ Save(u, "QUEUED", FALSE)
         /\ call' = [call EXCEPT ![b] = IF Missing(b) = {u} THEN "done" ELSE "saving"]
         /\ tooLate' = IF EndedBadly(u) THEN tooLate \cup {u} ELSE tooLate
    /\ UNCHANGED <<cancel, poolVars, faults, begun, repeated>>

(* Save fails: the call returns the error and leaves the rows it has saved. *)
QueueFails(b) ==
    /\ call[b] = "saving"
    /\ Fault
    /\ call' = [call EXCEPT ![b] = "done"]
    /\ UNCHANGED <<tableVars, cancel, poolVars, historyVars>>

-----------------------------------------------------------------------------
(* Mutant: the predecessor is not looked at. *)
ReadyAny == { u \in Updates : row[u].state = "QUEUED" }

(* The scheduler: GetPendingUpdates in two queries, batch and wait.        *)
Ready == { u \in Updates : /\ row[u].state = "QUEUED"
                           /\ \A v \in Updates : Precedes(v, u) => row[v].state = "COMPLETED" }
ActiveRows == { u \in Updates : row[u].state \in Active }
Item(u) == [upd |-> u, state |-> row[u].state, exec |-> row[u].exec]
NoJob == [upd |-> "none", state |-> "none", exec |-> FALSE, pc |-> "idle",
          cancelled |-> FALSE, outcome |-> "none"]
Idle(w) == job[w].pc = "idle"
NumWorkers == Cardinality(Workers)

(* Rows of equal sequence_order come in any order; created_at is left out. *)
FetchQueued ==
    /\ sched = "idle" /\ ~ stopping
    /\ \E Q \in SUBSET Ready :
         /\ Cardinality(Q) = IF Cardinality(Ready) < NumWorkers
                             THEN Cardinality(Ready) ELSE NumWorkers
         /\ \A u \in Q, v \in Ready \ Q : Order[u] <= Order[v]
         /\ batch' = { Item(u) : u \in Q }
    /\ sched' = "fetched"
    /\ UNCHANGED <<tableVars, callVars, job, stopping, faults, historyVars>>

(* The least recently saved active rows fill the rest of the batch, which  *)
(* is sent on workChan: there is room for it and a worker for every item.  *)
FetchActive ==
    /\ sched = "fetched" /\ ~ stopping
    /\ LET Before(u) == { v \in ActiveRows : u \in since[v] }
           room == NumWorkers - Cardinality(batch)
       IN batch' = batch \cup { Item(u) : u \in { v \in ActiveRows :
                                                    Cardinality(Before(v)) < room } }
    /\ sched' = "waiting"
    /\ UNCHANGED <<tableVars, callVars, job, stopping, faults, historyVars>>

(* The second query fails, or its context is cancelled.                    *)
FetchFails ==
    /\ sched = "fetched"
    /\ \/ stopping /\ UNCHANGED faults
       \/ Fault
    /\ sched' = "idle" /\ batch' = {}
    /\ UNCHANGED <<tableVars, callVars, job, stopping, historyVars>>

(* Mutant: the next cycle does not wait for the workers. *)
BatchTaken ==
    /\ sched = "waiting" /\ batch = {}
    /\ sched' = "idle"
    /\ UNCHANGED <<tableVars, callVars, batch, job, stopping, faults, historyVars>>

(* batchWg.Wait returns. *)
BatchDone ==
    /\ sched = "waiting" /\ batch = {} /\ \A w \in Workers : Idle(w)
    /\ sched' = "idle"
    /\ UNCHANGED <<tableVars, callVars, batch, job, stopping, faults, historyVars>>

-----------------------------------------------------------------------------
(* The workers: processUpdate. *)
EndJob(w) == job' = [job EXCEPT ![w] = NoJob]

(* An item is received and registered in activeJobs; during a shutdown its *)
(* context is cancelled already and it is dropped.                         *)
Take(w) ==
    /\ sched = "waiting" /\ Idle(w)
    /\ \E item \in batch :
         /\ batch' = batch \ {item}
         /\ job' = [job EXCEPT ![w] =
              IF stopping THEN NoJob
              ELSE [upd |-> item.upd, state |-> item.state, exec |-> item.exec,
                    pc |-> IF item.state = "QUEUED" THEN "start" ELSE "step",
                    cancelled |-> FALSE, outcome |-> "none"]]
    /\ UNCHANGED <<tableVars, callVars, sched, stopping, faults, historyVars>>

(* QUEUED becomes the first state; if that is not saved, the job ends.     *)
Start(w) ==
    /\ job[w].pc = "start"
    /\ LET u == job[w].upd IN
         \/ /\ ~ job[w].cancelled
            /\ Save(u, FirstState(u), FALSE)
            /\ job' = [job EXCEPT ![w].state = FirstState(u), ![w].pc = "step"]
         \/ /\ job[w].cancelled
            /\ EndJob(w)
            /\ UNCHANGED <<tableVars, completed>>
    /\ UNCHANGED <<callVars, sched, batch, stopping, faults, tooLate, begun, repeated>>

StartFails(w) ==
    /\ job[w].pc = "start"
    /\ Fault
    /\ EndJob(w)
    /\ UNCHANGED <<tableVars, callVars, sched, batch, stopping, historyVars>>

(* Package, switch or component is not found: failUpdate. *)
LookupFails(w) ==
    /\ job[w].pc = "step"
    /\ Fault
    /\ job' = [job EXCEPT ![w].pc = "save", ![w].outcome = "Failed"]
    /\ UNCHANGED <<tableVars, callVars, sched, batch, stopping, historyVars>>

(* Before the first call of a step version_from may be read and saved,     *)
(* with the rest of the copy.  Then UpdateStrategy.ExecuteStep.            *)
ExecuteStep(w) ==
    /\ job[w].pc = "step"
    /\ \/ UNCHANGED <<tableVars, completed>>
       \/ ~ job[w].exec /\ ~ job[w].cancelled /\ Save(job[w].upd, job[w].state, FALSE)
    /\ \E o \in Outcomes(job[w].upd, job[w].state, job[w].exec) :
         job' = [job EXCEPT ![w].pc = "save", ![w].outcome = o]
    /\ LET step == <<job[w].upd, job[w].state>> IN
         /\ begun' = IF job[w].exec THEN begun ELSE begun \cup {step}
         /\ repeated' = IF ~ job[w].exec /\ step \in begun
                        THEN repeated \cup {job[w].upd} ELSE repeated
    /\ UNCHANGED <<callVars, sched, batch, stopping, faults, tooLate>>

(* Mutant: exec_context is not part of what is saved. *)
SavedNoContext(w) ==
    LET u == job[w].upd IN
    CASE job[w].outcome = "Wait" -> Save(u, job[w].state, FALSE)
      [] job[w].outcome = "Transition" -> Save(u, NextState(u, job[w].state), FALSE)
      [] job[w].outcome = "Failed" -> Save(u, "FAILED", FALSE)

(* handleStepOutcome: what is saved.  Nothing reads the exec_context of a  *)
(* terminal row.                                                           *)
Saved(w) ==
    LET u == job[w].upd IN
    CASE job[w].outcome = "Wait" -> Save(u, job[w].state, TRUE)
      [] job[w].outcome = "Transition" -> Save(u, NextState(u, job[w].state), FALSE)
      [] job[w].outcome = "Failed" -> Save(u, "FAILED", FALSE)

(* After Save, successful or not, a failed update goes on to the bundle.   *)
AfterSave(w) ==
    IF job[w].outcome = "Failed" THEN job' = [job EXCEPT ![w].pc = "cascade"] ELSE EndJob(w)

(* A cancelled context makes Save fail; the error is only logged. *)
SaveOutcome(w) ==
    /\ job[w].pc = "save"
    /\ AfterSave(w)
    /\ \/ ~ job[w].cancelled /\ Saved(w)
       \/ job[w].cancelled /\ UNCHANGED <<tableVars, completed>>
    /\ UNCHANGED <<callVars, sched, batch, stopping, faults, tooLate, begun, repeated>>

SaveFails(w) ==
    /\ job[w].pc = "save"
    /\ Fault
    /\ AfterSave(w)
    /\ UNCHANGED <<tableVars, callVars, sched, batch, stopping, historyVars>>

(* failUpdate cancels the rest of the bundle. *)
Cascade(w) ==
    /\ job[w].pc = "cascade"
    /\ EndJob(w)
    /\ \/ ~ job[w].cancelled /\ CancelRemaining(job[w].upd)
       \/ job[w].cancelled /\ UNCHANGED <<tableVars, completed>>
    /\ UNCHANGED <<callVars, sched, batch, stopping, faults, tooLate, begun, repeated>>

CascadeFails(w) ==
    /\ job[w].pc = "cascade"
    /\ Fault
    /\ EndJob(w)
    /\ UNCHANGED <<tableVars, callVars, sched, batch, stopping, historyVars>>

-----------------------------------------------------------------------------
(* CancelUpdate.  A terminal update is refused. *)
CancelGet(u) ==
    /\ u \in Cancellable /\ cancel[u] = "idle" /\ Pending(u)
    /\ cancel' = [cancel EXCEPT ![u] = "job"]
    /\ UNCHANGED <<tableVars, call, poolVars, faults, historyVars>>

(* CancelJob: the context of the job is cancelled, if there is one.        *)
CancelJob(u) ==
    /\ cancel[u] = "job"
    /\ cancel' = [cancel EXCEPT ![u] = "write"]
    /\ job' = [w \in Workers |-> IF job[w].upd = u
                                 THEN [job[w] EXCEPT !.cancelled = TRUE] ELSE job[w]]
    /\ UNCHANGED <<tableVars, call, sched, batch, stopping, faults, historyVars>>

(* Save of the copy read at the start, with state CANCELLED.               *)
CancelSave(u) ==
    /\ cancel[u] = "write"
    /\ Save(u, "CANCELLED", FALSE)
    /\ cancel' = [cancel EXCEPT ![u] = "bundle"]
    /\ UNCHANGED <<call, poolVars, faults, tooLate, begun, repeated>>

CancelBundle(u) ==
    /\ cancel[u] = "bundle"
    /\ CancelRemaining(u)
    /\ cancel' = [cancel EXCEPT ![u] = "done"]
    /\ UNCHANGED <<call, poolVars, faults, tooLate, begun, repeated>>

(* Either statement fails: the call ends. *)
CancelFails(u) ==
    /\ cancel[u] \in {"write", "bundle"}
    /\ Fault
    /\ cancel' = [cancel EXCEPT ![u] = "done"]
    /\ UNCHANGED <<tableVars, call, poolVars, historyVars>>

-----------------------------------------------------------------------------
(* The deadline of an exec_context passes. *)
Deadline(u) ==
    /\ row[u].state \in Active /\ row[u].exec /\ u \notin late
    /\ late' = late \cup {u}
    /\ UNCHANGED <<row, since, callVars, poolVars, faults, historyVars>>

(* WorkerPool.Stop: every context is cancelled. *)
Stop ==
    /\ ~ stopping
    /\ Fault
    /\ stopping' = TRUE
    /\ job' = [w \in Workers |-> IF Idle(w) THEN job[w] ELSE [job[w] EXCEPT !.cancelled = TRUE]]
    /\ UNCHANGED <<tableVars, callVars, sched, batch, historyVars>>

(* The process ends and starts again; the calls it was serving are lost.   *)
NewProcess ==
    /\ call' = [b \in Bundles |-> IF call[b] = "saving" THEN "done" ELSE call[b]]
    /\ cancel' = [u \in Updates |-> IF cancel[u] = "idle" THEN "idle" ELSE "done"]
    /\ sched' = "idle" /\ batch' = {}
    /\ job' = [w \in Workers |-> NoJob]
    /\ stopping' = FALSE
    /\ UNCHANGED <<tableVars, historyVars>>

(* Stop has waited for the scheduler and the workers. *)
Restart ==
    /\ stopping /\ sched = "idle"
    /\ NewProcess
    /\ UNCHANGED faults

Crash ==
    /\ Fault
    /\ NewProcess

-----------------------------------------------------------------------------
Init ==
    /\ row = [u \in Updates |-> [state |-> "none", exec |-> FALSE]]
    /\ since = [u \in Updates |-> {}] /\ late = {}
    /\ call = [b \in Bundles |-> "idle"]
    /\ cancel = [u \in Updates |-> "idle"]
    /\ sched = "idle" /\ batch = {}
    /\ job = [w \in Workers |-> NoJob]
    /\ stopping = FALSE
    /\ faults = 0
    /\ completed = {} /\ tooLate = {} /\ begun = {} /\ repeated = {}

Scheduler == FetchQueued \/ FetchActive \/ BatchDone
Worker(w) == Take(w) \/ Start(w) \/ ExecuteStep(w) \/ SaveOutcome(w) \/ Cascade(w)
WorkerFails(w) == StartFails(w) \/ LookupFails(w) \/ SaveFails(w) \/ CascadeFails(w)
CancelProceeds(u) == CancelJob(u) \/ CancelSave(u) \/ CancelBundle(u)

Next ==
    \/ \E b \in Bundles : QueueCheck(b) \/ QueueSave(b) \/ QueueFails(b)
    \/ \E u \in Updates : CancelGet(u) \/ CancelProceeds(u) \/ CancelFails(u) \/ Deadline(u)
    \/ \E w \in Workers : Worker(w) \/ WorkerFails(w)
    \/ Scheduler \/ FetchFails
    \/ Stop \/ Restart \/ Crash

Spec == Init /\ [][Next]_vars

(* The ticker of the scheduler keeps firing, workers proceed, deadlines    *)
(* pass, a stopped service is started again.  Calls may stay halfway.      *)
Fairness ==
    /\ WF_vars(Scheduler) /\ WF_vars(FetchFails /\ stopping) /\ WF_vars(Restart)
    /\ \A w \in Workers : WF_vars(Worker(w))
    /\ \A u \in Updates : WF_vars(Deadline(u))

FairSpec == Spec /\ Fairness

-----------------------------------------------------------------------------
InSteps(u, s) == \E i \in 1..Len(Steps(u)) : Steps(u)[i] = s
Copy == [upd : Updates, state : States, exec : BOOLEAN]
Job == [upd : Updates, state : States, exec : BOOLEAN,
        pc : {"start", "step", "save", "cascade"}, cancelled : BOOLEAN,
        outcome : {"none", "Wait", "Transition", "Failed"}]

(* An active update is in a state of its strategy (processUpdate fails it  *)
(* otherwise), and the batch fits workChan.                                *)
TypeOK ==
    /\ row \in [Updates -> [state : States, exec : BOOLEAN]]
    /\ \A u \in ActiveRows : InSteps(u, row[u].state)
    /\ since \in [Updates -> SUBSET Updates] /\ late \subseteq Updates
    /\ call \in [Bundles -> {"idle", "saving", "done"}]
    /\ cancel \in [Updates -> {"idle", "job", "write", "bundle", "done"}]
    /\ sched \in {"idle", "fetched", "waiting"}
    /\ batch \subseteq Copy /\ Cardinality(batch) <= NumWorkers
    /\ job \in [Workers -> Job \cup {NoJob}]
    /\ stopping \in BOOLEAN
    /\ faults \in 0..MaxFaults
    /\ completed \subseteq Updates /\ tooLate \subseteq Updates
    /\ begun \subseteq Updates \X States /\ repeated \subseteq Updates

(* worker.go: "This ensures no two workers process the same update         *)
(* simultaneously (channel = natural mutex)": nor is an update that a      *)
(* worker processes in the batch, through stops and restarts.              *)
OneWorkerPerUpdate ==
    \A w \in Workers : ~ Idle(w) =>
        /\ \A x \in Workers \ {w} : job[x].upd # job[w].upd
        /\ \A item \in batch : item.upd # job[w].upd

(* An update of a bundle is worked on only after every update before it in *)
(* the bundle has completed.                                               *)
Started(u) == row[u].state \in Active \/ u \in completed \/ \E w \in Workers : job[w].upd = u
BundleInOrder ==
    \A u, v \in Updates :
        (SameBundle(u, v) /\ Order[v] < Order[u] /\ Started(u)) => v \in completed

(* Two updates of a switch are active at the same time only if CancelUpdate *)
(* was called for one of them or for one before it in its bundle: a worker *)
(* that held an old copy has then brought back an update that had ended.   *)
(* Failures, stops and restarts do not do that.                            *)
CancelTouched(u) ==
    \E v \in Updates : SameBundle(u, v) /\ Order[v] <= Order[u] /\ cancel[v] # "idle"
TrayExclusive ==
    \A u, v \in ActiveRows :
        (u # v /\ SwitchOfUpdate(u) = SwitchOfUpdate(v)) => (CancelTouched(u) \/ CancelTouched(v))

(* A step that is not idempotent (power cycle, SCP, install script) is     *)
(* begun once, unless a statement failed, the service stopped or somebody  *)
(* cancelled the update.                                                   *)
BegunOnce ==
    \A u \in repeated : faults > 0 \/ cancel[u] # "idle"

(* A queued update whose predecessor failed or was cancelled is about to   *)
(* be cancelled by whoever ended the predecessor, unless a statement       *)
(* failed, the service stopped, or QueueUpdate inserted it only afterwards. *)
Cascading(v) == \/ \E w \in Workers : job[w].upd = v /\ job[w].pc = "cascade"
                \/ cancel[v] \in {"job", "write", "bundle"}
Orphan(u) == row[u].state = "QUEUED" /\ EndedBadly(u)
             /\ ~ \E v \in Updates : SameBundle(u, v) /\ Order[v] < Order[u] /\ Cascading(v)
OrphansExplained ==
    \A u \in Updates : Orphan(u) => (u \in tooLate \/ faults > 0)

(* In the end no update is left that a worker could work on, however long  *)
(* steps wait and wherever a statement fails or the service stops:         *)
(* deadlines end every step, and no row goes round in circles.             *)
Workable(u) == row[u].state \in Active \/ u \in Ready
Settles == <>[](\A u \in Updates : ~ Workable(u))

(* Seen from the states of the rows, the pool of workers runs the bundles  *)
(* one update after the other.                                             *)
RowState == [u \in Updates |-> row[u].state]
Begins == [u \in Updates |-> FirstState(u)]
Follows == [u \in Updates |-> [s \in Active |-> NextState(u, s)]]
CancelledFrom == { u \in Updates : CancelTouched(u) }
Lifecycle == INSTANCE UpdateBundles WITH First <- Begins, After <- Follows, state <- RowState,
                                         done <- completed, touched <- CancelledFrom
ImplementsBundles == Lifecycle!USpec
=============================================================================
