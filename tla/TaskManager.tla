---------------------------- MODULE TaskManager -----------------------------
(***************************************************************************)
(* RLA's task manager: SubmitTask and CancelTask calls, the promoter of    *)
(* waiting tasks, the Temporal workflows that carry the tasks out and the  *)
(* task table they all share (rla/internal/task).                          *)
(*                                                                         *)
(* Every statement on the table is a step of its own.  RunInTransaction    *)
(* opens a transaction at PostgreSQL's default isolation level, READ       *)
(* COMMITTED, which does not serialise a read with a later insert; and     *)
(* UpdateTaskStatus runs outside the surrounding transaction, on the       *)
(* store's own connection, and overwrites whatever status it finds.        *)
(***************************************************************************)
EXTENDS TaskConflict, Naturals, Sequences, FiniteSets

CONSTANTS
    Tasks,        \* the tasks that may be created
    Racks,        \* racks
    RackOf,       \* the rack of a task
    Info,         \* the operation and targets of a task
    Clients,      \* callers of SubmitTask, each one call at a time
    ClientOf,     \* the client that submits a task
    Queueing,     \* tasks whose request may have ConflictStrategyQueue
    Rejecting,    \* tasks whose request may have another strategy
    Cancellable,  \* tasks a client may cancel
    MaxWaiting,   \* Config.MaxWaitingTasksPerRack
    NotifyCap,    \* PromoterConfig.NotifyChannelSize
    MaxFaults,    \* bound: failed calls to the database or to Temporal
    MaxCrashes    \* bound: restarts of the service

ASSUME ManagerAssumption ==
    /\ RackOf \in [Tasks -> Racks]
    /\ Info \in [Tasks -> TaskInfo]
    /\ ClientOf \in [Tasks -> Clients]
    /\ Queueing \subseteq Tasks
    /\ Queueing \cup Rejecting = Tasks
    /\ Cancellable \subseteq Tasks
    /\ MaxWaiting \in Nat \ {0}
    /\ NotifyCap \in Nat \ {0}
    /\ MaxFaults \in Nat
    /\ MaxCrashes \in Nat
    /\ IsFiniteSet(Tasks) /\ IsFiniteSet(Clients)
    /\ "promoter" \notin Clients
    /\ "none" \notin Clients

VARIABLES
    \* the task table
    status,      \* column status; "none" when the row does not exist
    execId,      \* column execution_id is set
    createdAt,   \* column created_at: the start of the inserting transaction
    expired,     \* tasks whose queue_expires_at has passed
    clock,       \* the time of the last created_at
    \* calls in progress
    sub,         \* createAndExecuteTask
    run,         \* resolveAndExecuteTask
    cancel,      \* CancelTask
    \* Temporal
    wf,          \* the workflow of a task
    activity,    \* the status an UpdateTaskStatus activity is about to write
    \* the promoter
    notify,      \* notifyCh
    pPc,         \* where the event loop is
    pRacks,      \* racks of the current sweep still to process
    pExpired,    \* expired tasks of the rack being processed
    pCand,       \* candidates of the rack being processed
    pActive,     \* workingActive
    pExec,       \* toExecute
    \* bounds
    faults, crashes,
    \* history
    executed,    \* tasks handed to the executor
    activator,   \* who moved a task to pending
    disowned,    \* tasks to which CancelTask or a failed Execute gave a final status
    ahead        \* older tasks in the queue of the rack when this one joined it

tableVars == <<status, execId, createdAt, expired, clock>>
temporalVars == <<wf, activity>>
promoterVars == <<pPc, pRacks, pExpired, pCand, pActive, pExec>>
boundVars == <<faults, crashes>>
historyVars == <<executed, activator, disowned, ahead>>
vars == <<tableVars, sub, run, cancel, temporalVars, notify, promoterVars,
          boundVars, historyVars>>

-----------------------------------------------------------------------------
(* taskcommon.TaskStatus *)
Active == {"pending", "running"}
Finished == {"completed", "failed", "terminated"}
Status == Active \cup Finished \cup {"none", "waiting"}

OnRack(r) == { t \in Tasks : RackOf[t] = r }

(* Mutant: a query on the wrong set of statuses. *)
WaitingOnUnstarted(r) == { t \in OnRack(r) : status[t] \in {"waiting", "pending"} }

(* ListActiveTasksForRack, ListWaitingTasksForRack, ListRacksWithWaitingTasks *)
ActiveOn(r) == { t \in OnRack(r) : status[t] \in Active }
WaitingOn(r) == { t \in OnRack(r) : status[t] = "waiting" }
RacksWithWaiting == { r \in Racks : WaitingOn(r) # {} }

(* Mutant: descending order. *)
Newest(S) == CHOOSE t \in S : \A u \in S : createdAt[t] >= createdAt[u]

(* ORDER BY created_at ASC: the first row of a result. *)
Oldest(S) == CHOOSE t \in S : \A u \in S : createdAt[t] <= createdAt[u]

InfosOf(S) == { Info[t] : t \in S }

(* Mutant: a channel without a capacity. *)
NotifyAlways(r) == Append(notify, r)

(* UpdateTaskStatus of the wrapped store: the promoter is notified of a    *)
(* finished task unless its channel is full.                               *)
Notify(r) == IF Len(notify) < NotifyCap THEN Append(notify, r) ELSE notify

StoreUpdate(t, s) ==
    /\ status' = [status EXCEPT ![t] = s]
    /\ notify' = IF s \in Finished THEN Notify(RackOf[t]) ELSE notify

(* A call to the database or to Temporal fails. *)
Fault == faults < MaxFaults /\ faults' = faults + 1 /\ UNCHANGED crashes

-----------------------------------------------------------------------------
(* SubmitTask calls createAndExecuteTask for one rack of the request after *)
(* the other, whether or not it fails for one.  The transaction begins and *)
(* HasConflict reads the active tasks of the rack.                         *)
SubmitCheck(t) ==
    /\ sub[t] = "idle"
    /\ \A u \in Tasks : ClientOf[u] = ClientOf[t] => sub[u] \in {"idle", "done"}
    /\ sub' = [sub EXCEPT ![t] =
                 IF Conflicts(Info[t], InfosOf(ActiveOn(RackOf[t])))
                 THEN "conflict" ELSE "clear"]
    /\ clock' = clock + 1
    /\ createdAt' = [createdAt EXCEPT ![t] = clock + 1]
    /\ UNCHANGED <<status, execId, expired, run, cancel, temporalVars, notify,
                   promoterVars, boundVars, historyVars>>

(* The request does not queue: "rack already has a conflicting task".      *)
SubmitReject(t) ==
    /\ sub[t] = "conflict" /\ t \in Rejecting
    /\ sub' = [sub EXCEPT ![t] = "done"]
    /\ UNCHANGED <<tableVars, run, cancel, temporalVars, notify, promoterVars,
                   boundVars, historyVars>>

(* Mutant: count > maxWaitingPerRack. *)
SubmitCountOffByOne(t) ==
    /\ sub[t] = "conflict" /\ t \in Queueing
    /\ sub' = [sub EXCEPT ![t] =
                 IF Cardinality(WaitingOn(RackOf[t])) > MaxWaiting
                 THEN "done" ELSE "enqueue"]
    /\ UNCHANGED <<tableVars, run, cancel, temporalVars, notify, promoterVars,
                   boundVars, historyVars>>

(* CountWaitingTasksForRack: the queue is full, or there is room.          *)
SubmitCount(t) ==
    /\ sub[t] = "conflict" /\ t \in Queueing
    /\ sub' = [sub EXCEPT ![t] =
                 IF Cardinality(WaitingOn(RackOf[t])) >= MaxWaiting
                 THEN "done" ELSE "enqueue"]
    /\ UNCHANGED <<tableVars, run, cancel, temporalVars, notify, promoterVars,
                   boundVars, historyVars>>

(* CreateTask and commit, with status waiting. *)
SubmitEnqueue(t) ==
    /\ sub[t] = "enqueue"
    /\ sub' = [sub EXCEPT ![t] = "done"]
    /\ status' = [status EXCEPT ![t] = "waiting"]
    /\ ahead' = [ahead EXCEPT ![t] =
                   { u \in WaitingOn(RackOf[t]) : createdAt[u] < createdAt[t] }]
    /\ UNCHANGED <<execId, createdAt, expired, clock, run, cancel, temporalVars,
                   notify, promoterVars, boundVars, executed, activator, disowned>>

(* CreateTask and commit, with status pending; the task executes now.      *)
SubmitCreate(t) ==
    /\ sub[t] = "clear"
    /\ sub' = [sub EXCEPT ![t] = "executing"]
    /\ status' = [status EXCEPT ![t] = "pending"]
    /\ run' = [run EXCEPT ![t] = "resolve"]
    /\ activator' = [activator EXCEPT ![t] = ClientOf[t]]
    /\ UNCHANGED <<execId, createdAt, expired, clock, cancel, temporalVars,
                   notify, promoterVars, boundVars, executed, disowned, ahead>>

(* A statement of the transaction fails. *)
SubmitFails(t) ==
    /\ sub[t] \in {"conflict", "clear", "enqueue"}
    /\ Fault
    /\ sub' = [sub EXCEPT ![t] = "done"]
    /\ UNCHANGED <<tableVars, run, cancel, temporalVars, notify, promoterVars,
                   historyVars>>

-----------------------------------------------------------------------------
(* resolveAndExecuteTask, shared by createAndExecuteTask and promoteTask.  *)
EndRun(t) ==
    /\ run' = [run EXCEPT ![t] = "no"]
    /\ sub' = [sub EXCEPT ![t] = "done"]

(* GetTask, loadRackForTask or ResolveRule fails: the call returns, the    *)
(* row stays pending.                                                      *)
ResolveFails(t) ==
    /\ run[t] = "resolve"
    /\ Fault
    /\ EndRun(t)
    /\ UNCHANGED <<tableVars, cancel, temporalVars, notify, promoterVars, historyVars>>

(* Temporal accepts the workflow.  The status of the row is not looked at. *)
Execute(t) ==
    /\ run[t] = "resolve"
    /\ run' = [run EXCEPT ![t] = "scheduled"]
    /\ wf' = [wf EXCEPT ![t] = "starting"]
    /\ executed' = executed \cup {t}
    /\ UNCHANGED <<tableVars, sub, cancel, activity, notify, promoterVars,
                   boundVars, activator, disowned, ahead>>

(* Execute returns an error; Temporal may have started the workflow        *)
(* nevertheless (a lost answer, or Encode of the execution ID failing).    *)
ExecuteFails(t) ==
    /\ run[t] = "resolve"
    /\ Fault
    /\ run' = [run EXCEPT ![t] = "errored"]
    /\ \/ UNCHANGED wf
       \/ wf' = [wf EXCEPT ![t] = "starting"]
    /\ executed' = executed \cup {t}
    /\ UNCHANGED <<tableVars, sub, cancel, activity, notify, promoterVars,
                   activator, disowned, ahead>>

(* UpdateTaskStatus(failed) after an Execute error.                        *)
MarkFailed(t) ==
    /\ run[t] = "errored"
    /\ StoreUpdate(t, "failed")
    /\ EndRun(t)
    /\ disowned' = disowned \cup {t}
    /\ UNCHANGED <<execId, createdAt, expired, clock, cancel, temporalVars,
                   promoterVars, boundVars, executed, activator, ahead>>

(* UpdateScheduledTask writes execution_id and executor_type.              *)
RecordExecution(t) ==
    /\ run[t] = "scheduled"
    /\ execId' = [execId EXCEPT ![t] = TRUE]
    /\ EndRun(t)
    /\ UNCHANGED <<status, createdAt, expired, clock, cancel, temporalVars, notify,
                   promoterVars, boundVars, historyVars>>

(* Either of the two writes fails; the failure is only logged.             *)
RunWriteFails(t) ==
    /\ run[t] \in {"errored", "scheduled"}
    /\ Fault
    /\ EndRun(t)
    /\ UNCHANGED <<tableVars, cancel, temporalVars, notify, promoterVars, historyVars>>

-----------------------------------------------------------------------------
(* CancelTask.  A finished task is left alone (the call returns nil or an  *)
(* error without a write), so only unfinished tasks take a step.           *)
CancelLoad(t) ==
    /\ t \in Cancellable /\ cancel[t] = "idle"
    /\ status[t] \in Active \cup {"waiting"}
    /\ cancel' = [cancel EXCEPT ![t] = IF execId[t] THEN "terminate" ELSE "write"]
    /\ UNCHANGED <<tableVars, sub, run, temporalVars, notify, promoterVars,
                   boundVars, historyVars>>

(* TerminateWorkflow; not-found (already closed) is ignored.               *)
CancelTerminate(t) ==
    /\ cancel[t] = "terminate"
    /\ cancel' = [cancel EXCEPT ![t] = "write"]
    /\ wf' = [wf EXCEPT ![t] = "closed"]
    /\ UNCHANGED <<tableVars, sub, run, activity, notify, promoterVars, boundVars,
                   historyVars>>

CancelWrite(t) ==
    /\ cancel[t] = "write"
    /\ cancel' = [cancel EXCEPT ![t] = "idle"]
    /\ StoreUpdate(t, "terminated")
    /\ disowned' = disowned \cup {t}
    /\ UNCHANGED <<execId, createdAt, expired, clock, sub, run, temporalVars,
                   promoterVars, boundVars, executed, activator, ahead>>

CancelFails(t) ==
    /\ cancel[t] # "idle"
    /\ Fault
    /\ cancel' = [cancel EXCEPT ![t] = "idle"]
    /\ UNCHANGED <<tableVars, sub, run, temporalVars, notify, promoterVars, historyVars>>

-----------------------------------------------------------------------------
(* The workflow (powerControl, firmwareControl, bringUp): report running,  *)
(* carry the operation out, report the outcome.                            *)
Report == [starting |-> "running", completing |-> "completed", failing |-> "failed"]
Reported == [starting |-> "operating", completing |-> "closed", failing |-> "closed"]
Reporting == DOMAIN Report

(* A worker picks the UpdateTaskStatus activity up.                        *)
ActivityStart(t) ==
    /\ wf[t] \in Reporting /\ activity[t] = "none"
    /\ activity' = [activity EXCEPT ![t] = Report[wf[t]]]
    /\ UNCHANGED <<tableVars, sub, run, cancel, wf, notify, promoterVars, boundVars,
                   historyVars>>

(* The activity writes, whether or not its workflow is still open.         *)
ActivityWrite(t) ==
    /\ activity[t] # "none"
    /\ StoreUpdate(t, activity[t])
    /\ activity' = [activity EXCEPT ![t] = "none"]
    /\ wf' = [wf EXCEPT ![t] = IF @ \in Reporting THEN Reported[@] ELSE @]
    /\ UNCHANGED <<execId, createdAt, expired, clock, sub, run, cancel, promoterVars,
                   boundVars, historyVars>>

(* The write is done but its acknowledgement lost: Temporal will retry.    *)
ActivityUnacked(t) ==
    /\ activity[t] # "none"
    /\ Fault
    /\ StoreUpdate(t, activity[t])
    /\ activity' = [activity EXCEPT ![t] = "none"]
    /\ UNCHANGED <<execId, createdAt, expired, clock, sub, run, cancel, wf,
                   promoterVars, historyVars>>

(* Every attempt of the activity failed: the workflow returns the error.   *)
ActivityGivesUp(t) ==
    /\ wf[t] \in Reporting /\ activity[t] = "none"
    /\ Fault
    /\ wf' = [wf EXCEPT ![t] = "closed"]
    /\ UNCHANGED <<tableVars, sub, run, cancel, activity, notify, promoterVars,
                   historyVars>>

(* executeRuleBasedOperation succeeds or fails.                            *)
Operate(t) ==
    /\ wf[t] = "operating"
    /\ \E outcome \in {"completing", "failing"} : wf' = [wf EXCEPT ![t] = outcome]
    /\ UNCHANGED <<tableVars, sub, run, cancel, activity, notify, promoterVars,
                   boundVars, historyVars>>

(* WorkflowExecutionTimeout: Temporal closes the workflow.                 *)
WorkflowTimeout(t) ==
    /\ wf[t] \in Reporting \cup {"operating"}
    /\ Fault
    /\ wf' = [wf EXCEPT ![t] = "closed"]
    /\ UNCHANGED <<tableVars, sub, run, cancel, activity, notify, promoterVars,
                   historyVars>>

-----------------------------------------------------------------------------
(* The promoter's event loop: one goroutine. *)
PromoterLocal == <<pExpired, pCand, pActive, pExec>>

(* Mutant: no ticker. *)
SweepAtStart ==
    /\ pPc = "start"
    /\ pPc' = "next"
    /\ pRacks' = RacksWithWaiting
    /\ UNCHANGED <<tableVars, sub, run, cancel, temporalVars, notify, PromoterLocal,
                   boundVars, historyVars>>

(* sweepAllRacks, at start and on every tick. *)
Sweep ==
    /\ pPc \in {"start", "idle"}
    /\ pPc' = "next"
    /\ pRacks' = RacksWithWaiting
    /\ UNCHANGED <<tableVars, sub, run, cancel, temporalVars, notify, PromoterLocal,
                   boundVars, historyVars>>

(* A rack ID arrives on notifyCh. *)
Notified ==
    /\ pPc = "idle" /\ notify # << >>
    /\ pPc' = "next"
    /\ pRacks' = {Head(notify)}
    /\ notify' = Tail(notify)
    /\ UNCHANGED <<tableVars, sub, run, cancel, temporalVars, PromoterLocal,
                   boundVars, historyVars>>

LoopDone ==
    /\ pPc = "next" /\ pRacks = {}
    /\ pPc' = "idle"
    /\ UNCHANGED <<tableVars, sub, run, cancel, temporalVars, notify, pRacks,
                   PromoterLocal, boundVars, historyVars>>

(* processRack lists the waiting tasks and splits them by expiry.          *)
ListWaiting(r) ==
    /\ pPc = "next" /\ r \in pRacks
    /\ pPc' = "purge"
    /\ pRacks' = pRacks \ {r}
    /\ pExpired' = WaitingOn(r) \cap expired
    /\ pCand' = WaitingOn(r) \ expired
    /\ UNCHANGED <<tableVars, sub, run, cancel, temporalVars, notify, pActive, pExec,
                   boundVars, historyVars>>

ListWaitingFails(r) ==
    /\ pPc = "next" /\ r \in pRacks
    /\ Fault
    /\ pRacks' = pRacks \ {r}
    /\ UNCHANGED <<tableVars, sub, run, cancel, temporalVars, notify, pPc,
                   PromoterLocal, historyVars>>

(* "Expired: queue timeout reached", on the store that does not notify.    *)
Purge ==
    /\ pPc = "purge" /\ pExpired # {}
    /\ status' = [status EXCEPT ![Oldest(pExpired)] = "terminated"]
    /\ pExpired' = pExpired \ {Oldest(pExpired)}
    /\ UNCHANGED <<execId, createdAt, expired, clock, sub, run, cancel, temporalVars,
                   notify, pPc, pRacks, pCand, pActive, pExec, boundVars, historyVars>>

PurgeFails ==
    /\ pPc = "purge" /\ pExpired # {}
    /\ Fault
    /\ pExpired' = pExpired \ {Oldest(pExpired)}
    /\ UNCHANGED <<tableVars, sub, run, cancel, temporalVars, notify, pPc, pRacks,
                   pCand, pActive, pExec, historyVars>>

(* No candidates: return.  Otherwise begin and fetch the active set.       *)
ListActive ==
    /\ pPc = "purge" /\ pExpired = {}
    /\ \/ /\ pCand = {}
          /\ pPc' = "next"
          /\ UNCHANGED pActive
       \/ /\ pCand # {}
          /\ pPc' = "promote"
          /\ pActive' = ActiveOn(RackOf[Oldest(pCand)])
    /\ UNCHANGED <<tableVars, sub, run, cancel, temporalVars, notify, pRacks,
                   pExpired, pCand, pExec, boundVars, historyVars>>

(* Mutant: workingActive does not grow during the pass. *)
PromotableStale(c) == ~ Conflicts(Info[c], InfosOf(pActive \ pExec))

Promotable(c) == ~ Conflicts(Info[c], InfosOf(pActive))

(* One candidate is promoted; the write is not part of the transaction.    *)
Promote ==
    /\ pPc = "promote" /\ pCand # {}
    /\ LET c == Oldest(pCand) IN
         /\ Promotable(c)
         /\ status' = [status EXCEPT ![c] = "pending"]
         /\ pCand' = pCand \ {c}
         /\ pActive' = pActive \cup {c}
         /\ pExec' = pExec \cup {c}
         /\ activator' = [activator EXCEPT ![c] = "promoter"]
    /\ UNCHANGED <<execId, createdAt, expired, clock, sub, run, cancel, temporalVars,
                   notify, pPc, pRacks, pExpired, boundVars, executed, disowned, ahead>>

(* The active set cannot be read, a write or the commit fails: the         *)
(* transaction is abandoned and nothing is executed.                       *)
PromoteFails ==
    /\ pPc = "promote"
    /\ Fault
    /\ pPc' = "next"
    /\ pCand' = {} /\ pActive' = {} /\ pExec' = {}
    /\ UNCHANGED <<tableVars, sub, run, cancel, temporalVars, notify, pRacks,
                   pExpired, historyVars>>

(* Mutant: the pass returns, rather than breaks, at the first conflict. *)
StopPromotingEarly ==
    /\ pPc = "promote"
    /\ pCand # {} => ~ Promotable(Oldest(pCand))
    /\ pPc' = "execute"
    /\ pExec' = IF pCand # {} THEN {} ELSE pExec
    /\ pCand' = {} /\ pActive' = {}
    /\ UNCHANGED <<tableVars, sub, run, cancel, temporalVars, notify, pRacks,
                   pExpired, boundVars, historyVars>>

(* No candidate left, or the first one conflicts: stop and commit.         *)
StopPromoting ==
    /\ pPc = "promote"
    /\ pCand # {} => ~ Promotable(Oldest(pCand))
    /\ pPc' = "execute"
    /\ pCand' = {} /\ pActive' = {}
    /\ UNCHANGED <<tableVars, sub, run, cancel, temporalVars, notify, pRacks,
                   pExpired, pExec, boundVars, historyVars>>

(* promoteFunc is synchronous: a run not made by a submitter is its run.   *)
PromoterRunning == \E t \in Tasks : run[t] # "no" /\ sub[t] # "executing"

(* promoteTask: the next promoted task is resolved and executed.           *)
ExecutePromoted ==
    /\ pPc = "execute" /\ pExec # {} /\ ~ PromoterRunning
    /\ run' = [run EXCEPT ![Oldest(pExec)] = "resolve"]
    /\ pExec' = pExec \ {Oldest(pExec)}
    /\ UNCHANGED <<tableVars, sub, cancel, temporalVars, notify, pPc, pRacks,
                   pExpired, pCand, pActive, boundVars, historyVars>>

RackDone ==
    /\ pPc = "execute" /\ pExec = {} /\ ~ PromoterRunning
    /\ pPc' = "next"
    /\ UNCHANGED <<tableVars, sub, run, cancel, temporalVars, notify, pRacks,
                   PromoterLocal, boundVars, historyVars>>

-----------------------------------------------------------------------------
(* The queue timeout of a waiting task passes. *)
Expire(t) ==
    /\ status[t] = "waiting" /\ t \notin expired
    /\ expired' = expired \cup {t}
    /\ UNCHANGED <<status, execId, createdAt, clock, sub, run, cancel, temporalVars,
                   notify, promoterVars, boundVars, historyVars>>

(* The service stops and starts again: its calls, its channel and the      *)
(* activities its worker had picked up are lost; the table and the         *)
(* workflows are not.                                                      *)
Crash ==
    /\ crashes < MaxCrashes
    /\ crashes' = crashes + 1
    /\ sub' = [t \in Tasks |-> IF sub[t] = "idle" THEN "idle" ELSE "done"]
    /\ run' = [t \in Tasks |-> "no"]
    /\ cancel' = [t \in Tasks |-> "idle"]
    /\ activity' = [t \in Tasks |-> "none"]
    /\ notify' = << >>
    /\ pPc' = "start"
    /\ pRacks' = {} /\ pExpired' = {} /\ pCand' = {} /\ pActive' = {} /\ pExec' = {}
    /\ UNCHANGED <<tableVars, wf, faults, historyVars>>

Init ==
    /\ status = [t \in Tasks |-> "none"]
    /\ execId = [t \in Tasks |-> FALSE]
    /\ createdAt = [t \in Tasks |-> 0]
    /\ expired = {} /\ clock = 0
    /\ sub = [t \in Tasks |-> "idle"]
    /\ run = [t \in Tasks |-> "no"]
    /\ cancel = [t \in Tasks |-> "idle"]
    /\ wf = [t \in Tasks |-> "none"]
    /\ activity = [t \in Tasks |-> "none"]
    /\ notify = << >>
    /\ pPc = "start"
    /\ pRacks = {} /\ pExpired = {} /\ pCand = {} /\ pActive = {} /\ pExec = {}
    /\ faults = 0 /\ crashes = 0
    /\ executed = {} /\ disowned = {}
    /\ activator = [t \in Tasks |-> "none"]
    /\ ahead = [t \in Tasks |-> {}]

Submit(t) == SubmitCheck(t) \/ SubmitReject(t) \/ SubmitCount(t)
                \/ SubmitEnqueue(t) \/ SubmitCreate(t) \/ SubmitFails(t)
Run(t) == Execute(t) \/ MarkFailed(t) \/ RecordExecution(t)
RunFails(t) == ResolveFails(t) \/ ExecuteFails(t) \/ RunWriteFails(t)
Cancel(t) == CancelLoad(t) \/ CancelTerminate(t) \/ CancelWrite(t) \/ CancelFails(t)
Workflow(t) == ActivityStart(t) \/ ActivityWrite(t) \/ Operate(t)
WorkflowFails(t) == ActivityUnacked(t) \/ ActivityGivesUp(t) \/ WorkflowTimeout(t)
Promoter == \/ Notified \/ LoopDone \/ Purge \/ ListActive \/ Promote \/ StopPromoting
            \/ ExecutePromoted \/ RackDone
            \/ \E r \in Racks : ListWaiting(r)
PromoterFails == PurgeFails \/ PromoteFails \/ \E r \in Racks : ListWaitingFails(r)

Next ==
    \/ \E t \in Tasks : \/ Submit(t) \/ Run(t) \/ RunFails(t) \/ Cancel(t)
                        \/ Workflow(t) \/ WorkflowFails(t) \/ Expire(t)
    \/ Sweep \/ Promoter \/ PromoterFails
    \/ Crash

Spec == Init /\ [][Next]_vars

(* Fairness: goroutines, Temporal and its workers keep running, the ticker *)
(* of the promoter keeps firing.  Clients, failures and the queue timeouts *)
(* are under no obligation.                                                *)
SubmitProceeds(t) == \/ SubmitReject(t) \/ SubmitCount(t) \/ SubmitEnqueue(t)
                     \/ SubmitCreate(t)
ServiceFairness ==
    /\ \A t \in Tasks : /\ WF_vars(SubmitProceeds(t))
                        /\ WF_vars(Run(t))
                        /\ WF_vars(Workflow(t))
    /\ WF_vars(Promoter)
    /\ WF_vars(Sweep)
FairSpec == Spec /\ ServiceFairness

-----------------------------------------------------------------------------
TypeOK ==
    /\ status \in [Tasks -> Status]
    /\ execId \in [Tasks -> BOOLEAN]
    /\ createdAt \in [Tasks -> Nat]
    /\ expired \subseteq Tasks
    /\ clock \in Nat
    /\ sub \in [Tasks -> {"idle", "conflict", "clear", "enqueue", "executing", "done"}]
    /\ run \in [Tasks -> {"no", "resolve", "scheduled", "errored"}]
    /\ cancel \in [Tasks -> {"idle", "terminate", "write"}]
    /\ wf \in [Tasks -> Reporting \cup {"none", "operating", "closed"}]
    /\ activity \in [Tasks -> {"none", "running", "completed", "failed"}]
    /\ notify \in Seq(Racks) /\ Len(notify) <= NotifyCap
    /\ pPc \in {"start", "idle", "next", "purge", "promote", "execute"}
    /\ pRacks \subseteq Racks
    /\ pExpired \subseteq Tasks /\ pCand \subseteq Tasks
    /\ pActive \subseteq Tasks /\ pExec \subseteq Tasks
    /\ faults \in 0..MaxFaults /\ crashes \in 0..MaxCrashes
    /\ executed \subseteq Tasks /\ disowned \subseteq Tasks
    /\ activator \in [Tasks -> Clients \cup {"none", "promoter"}]
    /\ ahead \in [Tasks -> SUBSET Tasks]

(* A task is handed to the executor at most once, by SubmitTask or by the  *)
(* promoter, through cancellations, failed writes and restarts: whoever is *)
(* about to call Execute holds a task that nobody has executed before.     *)
AtMostOneExecution == \A t \in Tasks : run[t] = "resolve" => t \notin executed

(* Tasks made pending by one actor - one client of SubmitTask, or the     *)
(* promoter - are never active together on a rack when they conflict, as   *)
(* long as neither was given a final status by CancelTask or after a       *)
(* failed Execute (such a task may come back, see CancelHolds).            *)
ConflictingActive(t, u) ==
    /\ t # u /\ RackOf[t] = RackOf[u]
    /\ status[t] \in Active /\ status[u] \in Active
    /\ Conflicts(Info[t], {Info[u]})

SameActorExclusion ==
    \A t, u \in Tasks \ disowned :
        activator[t] = activator[u] => ~ ConflictingActive(t, u)

(* When the promoter promotes a task, no unexpired task of an earlier      *)
(* created_at that was in the queue of the rack when this one joined it is *)
(* still waiting, also when concurrent calls queued them out of order.     *)
PromotedNow(t) == activator[t] # "promoter" /\ activator'[t] = "promoter"

PromotionFIFO ==
    [][\A t \in Tasks : PromotedNow(t) =>
          \A u \in ahead[t] \ expired : status[u] # "waiting"]_vars

(* Concurrent SubmitTask calls may overshoot the limit on waiting tasks,   *)
(* but any set of tasks in the queue of a rack, those included whose call  *)
(* has counted the queue and goes on to insert, exceeds the limit by fewer *)
(* than the clients that submitted them.  One client alone keeps to it.    *)
Enqueueing(r) == { t \in OnRack(r) : sub[t] = "enqueue" }
Queued(r) == WaitingOn(r) \cup Enqueueing(r)
ClientsOf(S) == { ClientOf[t] : t \in S }

QueueBoundSlack ==
    \A r \in Racks : \A S \in SUBSET Queued(r) :
        S # {} => Cardinality(S) < MaxWaiting + Cardinality(ClientsOf(S))

(* Config: MaxWaitingTasksPerRack is "the maximum number of queued tasks   *)
(* allowed per rack".  Two SubmitTask calls that count the queue before    *)
(* either inserts exceed it.                                               *)
QueueBound == \A r \in Racks : Cardinality(WaitingOn(r)) <= MaxWaiting

(* A rack is held only by tasks that somebody is carrying out: an active   *)
(* task has a caller about to execute it, an open workflow or a write on   *)
(* its way, or a CancelTask call at work on it, unless a call failed, the  *)
(* service restarted or the task was cancelled.                            *)
HasWorker(t) ==
    \/ run[t] # "no" \/ t \in pExec
    \/ wf[t] \notin {"none", "closed"} \/ activity[t] # "none"
    \/ cancel[t] # "idle"

ActiveHasWorker ==
    \A t \in Tasks :
        (status[t] \in Active /\ ~ HasWorker(t))
            => (faults > 0 \/ crashes > 0 \/ t \in disowned)

(* A task whose queue timeout has passed leaves the queue - purged,        *)
(* promoted by a pass that had listed it, or cancelled - whatever          *)
(* notifications are dropped, calls fail or restarts happen.               *)
QueueDrains ==
    \A t \in Tasks : (status[t] = "waiting" /\ t \in expired) ~> status[t] # "waiting"

(* Without failures, restarts and cancellations a task that waits is       *)
(* executed before its queue timeout, if that leaves the time, also when   *)
(* the notification that freed its rack was dropped.                       *)
WaitingIsExecuted ==
    \A t \in Tasks : status[t] = "waiting" ~> (t \in executed \/ t \in expired)

(* Seen through the table, a single client that does not queue its tasks   *)
(* gets exactly what RackReservation promises.                             *)
AbstractState == [t \in Tasks |-> CASE status[t] \in Active -> "active"
                                    [] status[t] \in Finished -> "finished"
                                    [] OTHER -> status[t]]
Reservation == INSTANCE RackReservation
                 WITH Infos <- InfosOf(Tasks), attr <- Info, state <- AbstractState,
                      queue <- [r \in Racks |-> << >>]
ImplementsReservation == Reservation!RSpec

-----------------------------------------------------------------------------
(* What the comments of the code promise and the code does not keep.       *)

(* manager.go: "Check for conflicts inside a transaction to avoid a race   *)
(* between the check and the creation."                                    *)
NoConflictingActive ==
    \A t, u \in Tasks \ disowned : ~ ConflictingActive(t, u)

(* manager.go: "Waiting tasks are terminated immediately (no workflow to   *)
(* stop).  Pending/running tasks have their Temporal workflow terminated." *)
CancelHolds ==
    [][\A t \in Tasks : status[t] = "terminated" => status'[t] = "terminated"]_vars
=============================================================================
