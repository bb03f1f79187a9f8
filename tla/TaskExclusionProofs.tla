------------------------ MODULE TaskExclusionProofs -------------------------
(***************************************************************************)
(* Who keeps conflicting tasks apart, and who carries an active task out:  *)
(* theorems about TaskManager for every number of tasks, racks, clients,   *)
(* failures and restarts, and the proof that TaskManager implements        *)
(* RackReservation for a single client that does not queue.                *)
(***************************************************************************)
EXTENDS TaskManagerProofs, TaskConflictProofs

Owned == Tasks \ disowned
Open == Reporting \cup {"operating"}

(* The activity of a task is the one its workflow asked for, unless the    *)
(* workflow was closed under it.                                           *)
ActivityInv ==
    \A t \in Tasks : activity[t] # "none" =>
        wf[t] = "closed" \/ (wf[t] \in Reporting /\ activity[t] = Report[wf[t]])

(* What the promoter has listed as waiting still waits, unless cancelled.  *)
ListedInv ==
    /\ \A t \in (pCand \cup pExpired) \ disowned : status[t] = "waiting"
    /\ pCand \cap pExpired = {}

(* Nobody is about to run or to report as running a task that is not       *)
(* active: no task becomes active behind the back of the conflict check.   *)
BeginInv ==
    \A t \in Owned :
        (run[t] = "resolve" \/ t \in pExec \/ wf[t] = "starting" \/ activity[t] = "running")
            => status[t] \in Active

(* An active task was activated by somebody. *)
ActivatedInv == \A t \in Owned : status[t] \in Active => activator[t] # "none"

(* The result of HasConflict stays true of the client's own tasks until    *)
(* its call inserts the row.                                               *)
Clash(t, u) == t # u /\ RackOf[t] = RackOf[u] /\ Conflicts(Info[t], {Info[u]})

CheckedInv ==
    \A t \in Tasks : sub[t] = "clear" =>
        \A u \in Owned : (activator[u] = ClientOf[t] /\ status[u] \in Active) => ~ Clash(t, u)

(* The candidates share a rack, and workingActive holds every active task  *)
(* of it that the promoter activated.                                      *)
WorkingInv ==
    /\ \A c, d \in pCand : RackOf[c] = RackOf[d]
    /\ pPc = "promote" =>
         \A c \in pCand, u \in Owned :
             (RackOf[u] = RackOf[c] /\ activator[u] = "promoter" /\ status[u] \in Active)
                 => u \in pActive

Exclusion == ActivityInv /\ ListedInv /\ BeginInv /\ ActivatedInv /\ CheckedInv /\ WorkingInv
             /\ SameActorExclusion

(* Without failures a workflow is closed only when it has reported its     *)
(* outcome or CancelTask is about to write its own, and an active task     *)
(* that nobody is about to execute has a workflow or a write on its way.   *)
Faultless == faults = 0 /\ crashes = 0

ClosedInv ==
    Faultless => \A t \in Owned : wf[t] = "closed" =>
        (status[t] \in Finished /\ activity[t] = "none") \/ cancel[t] = "write"

CarriedOut(t) ==
    \/ run[t] = "resolve" \/ t \in pExec
    \/ wf[t] \in Open \/ activity[t] # "none" \/ cancel[t] # "idle"
CarriedInv == Faultless => \A t \in Owned : status[t] \in Active => CarriedOut(t)

(* What a single client sees that does not queue, cancel or meet failures. *)
NoQueueInv ==
    Queueing = {} =>
        /\ pCand = {} /\ pExpired = {} /\ pExec = {}
        /\ \A t \in Tasks : /\ status[t] # "waiting" /\ sub[t] # "enqueue"
                            /\ activator[t] \in {"none", ClientOf[t]}
OpenInv ==
    (MaxFaults = 0 /\ Cancellable = {}) =>
        /\ disowned = {}
        /\ \A t \in Tasks : /\ cancel[t] = "idle" /\ run[t] # "errored"
                            /\ wf[t] \in Open => status[t] \in Active
                            /\ wf[t] = "closed" => activity[t] = "none"

-----------------------------------------------------------------------------
(* What a step does, by the variables it changes. *)
TableKept == status' = status /\ disowned' = disowned /\ activator' = activator
TemporalKept == wf' = wf /\ activity' = activity
ListsKept == pCand' = pCand /\ pExpired' = pExpired

LEMMA TableEffect ==
    ASSUME [Next]_vars
    PROVE  \/ TableKept
           \/ \E t \in Tasks : \/ SubmitEnqueue(t) \/ SubmitCreate(t) \/ MarkFailed(t)
                               \/ CancelWrite(t) \/ ActivityWrite(t) \/ ActivityUnacked(t)
           \/ Purge \/ Promote
  <1> USE DEF TableKept, tableVars, historyVars
  <1>1. ASSUME NEW t \in Tasks,
               SubmitCheck(t) \/ SubmitReject(t) \/ SubmitCount(t) \/ SubmitFails(t)
        PROVE  TableKept
    BY <1>1 DEF SubmitCheck, SubmitReject, SubmitCount, SubmitFails
  <1>2. ASSUME NEW t \in Tasks, Execute(t) \/ RecordExecution(t) \/ RunFails(t)
        PROVE  TableKept
    BY <1>2 DEF Execute, RecordExecution, RunFails, ResolveFails, ExecuteFails, RunWriteFails
  <1>3. ASSUME NEW t \in Tasks, CancelLoad(t) \/ CancelTerminate(t) \/ CancelFails(t) \/ Expire(t)
        PROVE  TableKept
    BY <1>3 DEF CancelLoad, CancelTerminate, CancelFails, Expire
  <1>4. ASSUME NEW t \in Tasks,
               ActivityStart(t) \/ Operate(t) \/ ActivityGivesUp(t) \/ WorkflowTimeout(t)
        PROVE  TableKept
    BY <1>4 DEF ActivityStart, Operate, ActivityGivesUp, WorkflowTimeout
  <1>5. CASE Sweep \/ Notified \/ LoopDone \/ ListActive \/ StopPromoting \/ ExecutePromoted
             \/ RackDone
    BY <1>5 DEF Sweep, Notified, LoopDone, ListActive, StopPromoting, ExecutePromoted, RackDone
  <1>6. ASSUME NEW r \in Racks, ListWaiting(r) \/ ListWaitingFails(r)
        PROVE  TableKept
    BY <1>6 DEF ListWaiting, ListWaitingFails
  <1>7. CASE PurgeFails \/ PromoteFails \/ Crash
    BY <1>7 DEF PurgeFails, PromoteFails, Crash
  <1>8. CASE UNCHANGED vars
    BY <1>8 DEF vars
  <1>9. QED
    BY <1>1, <1>2, <1>3, <1>4, <1>5, <1>6, <1>7, <1>8
       DEF Next, Submit, Run, Cancel, Workflow, WorkflowFails, Promoter, PromoterFails

LEMMA TemporalEffect ==
    ASSUME [Next]_vars
    PROVE  \/ TemporalKept
           \/ \E t \in Tasks : \/ Execute(t) \/ ExecuteFails(t) \/ CancelTerminate(t)
                               \/ Workflow(t) \/ WorkflowFails(t)
           \/ Crash
  <1> USE DEF TemporalKept, temporalVars
  <1>1. ASSUME NEW t \in Tasks, Submit(t)
        PROVE  TemporalKept
    BY <1>1 DEF Submit, SubmitCheck, SubmitReject, SubmitCount, SubmitEnqueue, SubmitCreate,
                SubmitFails
  <1>2. ASSUME NEW t \in Tasks, MarkFailed(t) \/ RecordExecution(t) \/ ResolveFails(t) \/ RunWriteFails(t)
        PROVE  TemporalKept
    BY <1>2 DEF MarkFailed, RecordExecution, ResolveFails, RunWriteFails
  <1>3. ASSUME NEW t \in Tasks, CancelLoad(t) \/ CancelWrite(t) \/ CancelFails(t) \/ Expire(t)
        PROVE  TemporalKept
    BY <1>3 DEF CancelLoad, CancelWrite, CancelFails, Expire
  <1>4. CASE Sweep \/ Notified \/ LoopDone \/ Purge \/ ListActive \/ Promote \/ StopPromoting
             \/ ExecutePromoted \/ RackDone
    BY <1>4 DEF Sweep, Notified, LoopDone, Purge, ListActive, Promote, StopPromoting,
                ExecutePromoted, RackDone
  <1>5. ASSUME NEW r \in Racks, ListWaiting(r) \/ ListWaitingFails(r)
        PROVE  TemporalKept
    BY <1>5 DEF ListWaiting, ListWaitingFails
  <1>6. CASE PurgeFails \/ PromoteFails
    BY <1>6 DEF PurgeFails, PromoteFails
  <1>7. CASE UNCHANGED vars
    BY <1>7 DEF vars
  <1>8. QED
    BY <1>1, <1>2, <1>3, <1>4, <1>5, <1>6, <1>7
       DEF Next, Run, RunFails, Cancel, Promoter, PromoterFails

LEMMA ListsEffect ==
    ASSUME [Next]_vars
    PROVE  \/ ListsKept
           \/ \E r \in Racks : ListWaiting(r)
           \/ Purge \/ PurgeFails \/ Promote \/ PromoteFails \/ StopPromoting \/ Crash
  <1> USE DEF ListsKept, promoterVars, PromoterLocal
  <1>1. ASSUME NEW t \in Tasks, Submit(t)
        PROVE  ListsKept
    BY <1>1 DEF Submit, SubmitCheck, SubmitReject, SubmitCount, SubmitEnqueue, SubmitCreate,
                SubmitFails
  <1>2. ASSUME NEW t \in Tasks, Run(t) \/ RunFails(t)
        PROVE  ListsKept
    BY <1>2 DEF Run, RunFails, Execute, MarkFailed, RecordExecution, ResolveFails, ExecuteFails,
                RunWriteFails
  <1>3. ASSUME NEW t \in Tasks, Cancel(t) \/ Expire(t)
        PROVE  ListsKept
    BY <1>3 DEF Cancel, CancelLoad, CancelTerminate, CancelWrite, CancelFails, Expire
  <1>4. ASSUME NEW t \in Tasks, Workflow(t) \/ WorkflowFails(t)
        PROVE  ListsKept
    BY <1>4 DEF Workflow, WorkflowFails, ActivityStart, ActivityWrite, Operate, ActivityUnacked,
                ActivityGivesUp, WorkflowTimeout
  <1>5. CASE Sweep \/ Notified \/ LoopDone \/ ListActive \/ ExecutePromoted \/ RackDone
    BY <1>5 DEF Sweep, Notified, LoopDone, ListActive, ExecutePromoted, RackDone
  <1>6. ASSUME NEW r \in Racks, ListWaitingFails(r)
        PROVE  ListsKept
    BY <1>6 DEF ListWaitingFails
  <1>7. CASE UNCHANGED vars
    BY <1>7 DEF vars
  <1>8. QED
    BY <1>1, <1>2, <1>3, <1>4, <1>5, <1>6, <1>7 DEF Next, Promoter, PromoterFails

(* How a call comes to resolveAndExecuteTask, and an insert to be decided. *)
LEMMA RunEffect ==
    ASSUME TypeOK, [Next]_vars, NEW t \in Tasks
    PROVE  /\ run'[t] = "resolve" => \/ run[t] = "resolve" \/ SubmitCreate(t)
                                     \/ ExecutePromoted /\ t \in pExec
           /\ run[t] = "resolve" => \/ run'[t] = "resolve" \/ Execute(t) \/ Crash
                                    \/ ResolveFails(t) \/ ExecuteFails(t)
           /\ t \in pExec' => t \in pExec \/ (Promote /\ t = Oldest(pCand))
           /\ t \in pExec => \/ t \in pExec' \/ PromoteFails \/ Crash
                             \/ ExecutePromoted /\ run'[t] = "resolve"
           /\ sub'[t] = "clear" => sub[t] = "clear" \/ SubmitCheck(t)
           /\ cancel[t] # "idle" => cancel'[t] # "idle" \/ CancelWrite(t) \/ CancelFails(t) \/ Crash
           /\ cancel[t] = "write" => cancel'[t] = "write" \/ CancelWrite(t) \/ CancelFails(t) \/ Crash
  <1> DEFINE Goal ==
           /\ run'[t] = "resolve" => \/ run[t] = "resolve" \/ SubmitCreate(t)
                                     \/ ExecutePromoted /\ t \in pExec
           /\ run[t] = "resolve" => \/ run'[t] = "resolve" \/ Execute(t) \/ Crash
                                    \/ ResolveFails(t) \/ ExecuteFails(t)
           /\ t \in pExec' => t \in pExec \/ (Promote /\ t = Oldest(pCand))
           /\ t \in pExec => \/ t \in pExec' \/ PromoteFails \/ Crash
                             \/ ExecutePromoted /\ run'[t] = "resolve"
           /\ sub'[t] = "clear" => sub[t] = "clear" \/ SubmitCheck(t)
           /\ cancel[t] # "idle" => cancel'[t] # "idle" \/ CancelWrite(t) \/ CancelFails(t) \/ Crash
           /\ cancel[t] = "write" => cancel'[t] = "write" \/ CancelWrite(t) \/ CancelFails(t) \/ Crash
  <1> SUFFICES Goal
    OBVIOUS
  <1>0. /\ run \in [Tasks -> {"no", "resolve", "scheduled", "errored"}]
        /\ sub \in [Tasks -> {"idle", "conflict", "clear", "enqueue", "executing", "done"}]
        /\ cancel \in [Tasks -> {"idle", "terminate", "write"}]
        /\ pExec \subseteq Tasks /\ createdAt \in [Tasks -> Nat]
    BY DEF TypeOK
  <1>1. ASSUME NEW u \in Tasks, SubmitCheck(u) \/ SubmitReject(u) \/ SubmitCount(u)
        PROVE  Goal
    BY <1>0, <1>1 DEF SubmitCheck, SubmitReject, SubmitCount, promoterVars
  <1>2. ASSUME NEW u \in Tasks, SubmitEnqueue(u) \/ SubmitCreate(u) \/ SubmitFails(u)
        PROVE  Goal
    BY <1>0, <1>2 DEF SubmitEnqueue, SubmitCreate, SubmitFails, promoterVars
  <1>3. ASSUME NEW u \in Tasks, Execute(u) \/ MarkFailed(u) \/ RecordExecution(u)
        PROVE  Goal
    BY <1>0, <1>3 DEF Execute, MarkFailed, RecordExecution, EndRun, promoterVars
  <1>4. ASSUME NEW u \in Tasks, ResolveFails(u) \/ ExecuteFails(u) \/ RunWriteFails(u)
        PROVE  Goal
    BY <1>0, <1>4 DEF ResolveFails, ExecuteFails, RunWriteFails, EndRun, promoterVars
  <1>5. ASSUME NEW u \in Tasks, CancelLoad(u) \/ CancelTerminate(u) \/ CancelWrite(u) \/ CancelFails(u)
        PROVE  Goal
    BY <1>0, <1>5 DEF CancelLoad, CancelTerminate, CancelWrite, CancelFails, promoterVars
  <1>6. ASSUME NEW u \in Tasks, Workflow(u) \/ WorkflowFails(u) \/ Expire(u)
        PROVE  Goal
    BY <1>6 DEF Workflow, WorkflowFails, ActivityStart, ActivityWrite, Operate, ActivityUnacked,
                ActivityGivesUp, WorkflowTimeout, Expire, promoterVars
  <1>7. CASE Sweep \/ Notified \/ LoopDone \/ Purge \/ ListActive \/ StopPromoting \/ RackDone
    BY <1>7 DEF Sweep, Notified, LoopDone, Purge, ListActive, StopPromoting, RackDone, PromoterLocal
  <1>8. ASSUME NEW r \in Racks, ListWaiting(r) \/ ListWaitingFails(r)
        PROVE  Goal
    BY <1>8 DEF ListWaiting, ListWaitingFails, PromoterLocal
  <1>9. CASE Promote
    BY <1>9 DEF Promote
  <1>10. CASE ExecutePromoted
    <2>1. Oldest(pExec) \in pExec
      BY <1>0, <1>10, OldestIsFirst DEF ExecutePromoted
    <2>2. QED
      BY <1>0, <1>10, <2>1 DEF ExecutePromoted
  <1>11. CASE PurgeFails \/ PromoteFails \/ Crash
    BY <1>0, <1>11 DEF PurgeFails, PromoteFails, Crash
  <1>12. CASE UNCHANGED vars
    BY <1>12 DEF vars, promoterVars
  <1>13. QED
    BY <1>1, <1>2, <1>3, <1>4, <1>5, <1>6, <1>7, <1>8, <1>9, <1>10, <1>11, <1>12
       DEF Next, Submit, Run, RunFails, Cancel, Promoter, PromoterFails

-----------------------------------------------------------------------------
(* The types that the steps below need. *)
LEMMA Types ==
    ASSUME TypeOK
    PROVE  /\ status \in [Tasks -> Status] /\ createdAt \in [Tasks -> Nat]
           /\ wf \in [Tasks -> Reporting \cup {"none", "operating", "closed"}]
           /\ activity \in [Tasks -> {"none", "running", "completed", "failed"}]
           /\ cancel \in [Tasks -> {"idle", "terminate", "write"}]
           /\ activator \in [Tasks -> Clients \cup {"none", "promoter"}]
           /\ pCand \subseteq Tasks /\ pExpired \subseteq Tasks
           /\ pActive \subseteq Tasks /\ pExec \subseteq Tasks
           /\ disowned \subseteq Tasks /\ executed \subseteq Tasks
           /\ faults \in Nat /\ crashes \in Nat
  BY ManagerAssumption DEF TypeOK

LEMMA Reports ==
    /\ Reporting = {"starting", "completing", "failing"}
    /\ Report["starting"] = "running" /\ Report["completing"] = "completed"
    /\ Report["failing"] = "failed"
    /\ Reported["starting"] = "operating" /\ Reported["completing"] = "closed"
    /\ Reported["failing"] = "closed"
  BY DEF Reporting, Report, Reported

LEMMA ActivityStep ==
    ASSUME TypeOK, Ownership, ActivityInv, [Next]_vars
    PROVE  ActivityInv'
  <1>0. /\ wf \in [Tasks -> Reporting \cup {"none", "operating", "closed"}]
        /\ activity \in [Tasks -> {"none", "running", "completed", "failed"}]
    BY Types
  <1>1. CASE TemporalKept
    BY <1>1 DEF TemporalKept, ActivityInv
  <1>2. ASSUME NEW t \in Tasks, Execute(t) \/ ExecuteFails(t)
        PROVE  ActivityInv'
    <2>1. run[t] = "resolve" /\ activity' = activity
          /\ (wf' = wf \/ wf' = [wf EXCEPT ![t] = "starting"])
      BY <1>2 DEF Execute, ExecuteFails
    <2>2. activity[t] = "none"
      BY <2>1 DEF Ownership, WorkflowsExecuted, AtMostOneExecution
    <2>3. QED
      BY <1>0, <2>1, <2>2 DEF ActivityInv
  <1>3. ASSUME NEW t \in Tasks,
               CancelTerminate(t) \/ ActivityGivesUp(t) \/ WorkflowTimeout(t)
        PROVE  ActivityInv'
    BY <1>0, <1>3 DEF CancelTerminate, ActivityGivesUp, WorkflowTimeout, ActivityInv
  <1>4. ASSUME NEW t \in Tasks, ActivityStart(t) \/ ActivityWrite(t) \/ ActivityUnacked(t)
        PROVE  ActivityInv'
    BY <1>0, <1>4, Reports DEF ActivityStart, ActivityWrite, ActivityUnacked, ActivityInv
  <1>5. ASSUME NEW t \in Tasks, Operate(t)
        PROVE  ActivityInv'
    <2>1. activity[t] = "none"
      BY <1>5, Reports DEF Operate, ActivityInv
    <2>2. QED
      BY <1>0, <1>5, <2>1 DEF Operate, ActivityInv
  <1>6. CASE Crash
    BY <1>6 DEF Crash, ActivityInv
  <1>7. QED
    BY <1>1, <1>2, <1>3, <1>4, <1>5, <1>6, TemporalEffect DEF Workflow, WorkflowFails

(* A task that is listed, or executed, is not written by others. *)
LEMMA ListedStep ==
    ASSUME TypeOK, Ownership, ListedInv, [Next]_vars
    PROVE  ListedInv'
  <1>0. /\ status \in [Tasks -> Status] /\ createdAt \in [Tasks -> Nat]
        /\ pCand \subseteq Tasks /\ pExpired \subseteq Tasks
    BY Types
  <1>1. /\ pCand' \subseteq pCand /\ pExpired' \subseteq pExpired
        \/ \E r \in Racks : ListWaiting(r)
    BY ListsEffect DEF ListsKept, Purge, PurgeFails, Promote, PromoteFails, StopPromoting, Crash
  <1>2. ASSUME NEW r \in Racks, ListWaiting(r)
        PROVE  ListedInv'
    BY <1>2 DEF ListWaiting, WaitingOn, OnRack, tableVars, historyVars, ListedInv
  <1>3. ASSUME pCand' \subseteq pCand, pExpired' \subseteq pExpired
        PROVE  ListedInv'
    <2>1. SUFFICES ASSUME NEW t \in (pCand' \cup pExpired') \ disowned'
                   PROVE  status'[t] = "waiting"
      BY <1>3 DEF ListedInv
    <2>2. t \in Tasks /\ t \in pCand \cup pExpired
      BY <1>0, <1>3
    <2>3. ASSUME t \notin disowned
          PROVE  status[t] = "waiting" /\ t \notin executed /\ activity[t] = "none"
      BY <2>2, <2>3 DEF ListedInv, Ownership, WaitingUnclaimed, WorkflowsExecuted
    <2>4. CASE TableKept
      BY <2>1, <2>3, <2>4 DEF TableKept
    <2>5. ASSUME NEW u \in Tasks, SubmitEnqueue(u) \/ SubmitCreate(u)
          PROVE  status'[t] = "waiting"
      <3>1. u \notin pCand \cup pExpired /\ disowned' = disowned
            /\ \A v \in Tasks : v # u => status'[v] = status[v]
        BY <1>0, <2>5 DEF SubmitEnqueue, SubmitCreate, Ownership, UncreatedUnknown, Created
      <3>2. QED
        BY <2>1, <2>2, <2>3, <3>1
    <2>6. ASSUME NEW u \in Tasks, MarkFailed(u) \/ CancelWrite(u)
          PROVE  status'[t] = "waiting"
      <3>1. disowned' = disowned \cup {u} /\ \A v \in Tasks : v # u => status'[v] = status[v]
        BY <1>0, <2>6 DEF MarkFailed, CancelWrite, StoreUpdate
      <3>2. QED
        BY <2>1, <2>2, <2>3, <3>1
    <2>7. ASSUME NEW u \in Tasks, ActivityWrite(u) \/ ActivityUnacked(u)
          PROVE  status'[t] = "waiting"
      <3>1. /\ activity[u] # "none" /\ disowned' = disowned
            /\ \A v \in Tasks : v # u => status'[v] = status[v]
        BY <1>0, <2>7 DEF ActivityWrite, ActivityUnacked, StoreUpdate, historyVars
      <3>2. QED
        BY <2>1, <2>2, <2>3, <3>1
    <2>8. CASE Purge
      <3> DEFINE o == Oldest(pExpired)
      <3>1. o \in pExpired
        BY <1>0, <2>8, OldestIsFirst DEF Purge
      <3>2. /\ disowned' = disowned /\ pExpired' = pExpired \ {o} /\ pCand' = pCand
            /\ status' = [status EXCEPT ![o] = "terminated"]
        BY <2>8 DEF Purge, historyVars
      <3> HIDE DEF o
      <3>3. t # o
        BY <2>1, <3>1, <3>2 DEF ListedInv
      <3>4. QED
        BY <1>0, <2>1, <2>2, <2>3, <3>2, <3>3
    <2>9. CASE Promote
      <3> DEFINE o == Oldest(pCand)
      <3>1. o \in pCand
        BY <1>0, <2>9, OldestIsFirst DEF Promote
      <3>2. /\ disowned' = disowned /\ pCand' = pCand \ {o} /\ pExpired' = pExpired
            /\ status' = [status EXCEPT ![o] = "pending"]
        BY <2>9 DEF Promote
      <3> HIDE DEF o
      <3>3. t # o
        BY <2>1, <3>1, <3>2 DEF ListedInv
      <3>4. QED
        BY <1>0, <2>1, <2>2, <2>3, <3>2, <3>3
    <2>10. QED
      BY <2>4, <2>5, <2>6, <2>7, <2>8, <2>9, TableEffect
  <1>4. QED
    BY <1>1, <1>2, <1>3

(* How a task that is not disowned leaves the set of active tasks. *)
LEMMA Deactivated ==
    ASSUME TypeOK, Ownership, ActivityInv, ListedInv, [Next]_vars,
           NEW t \in Tasks \ disowned', status[t] \in Active, status'[t] \notin Active
    PROVE  /\ ActivityWrite(t) \/ ActivityUnacked(t)
           /\ status'[t] = activity[t] /\ activity[t] \in {"completed", "failed"}
  <1>0. /\ status \in [Tasks -> Status] /\ createdAt \in [Tasks -> Nat]
        /\ pCand \subseteq Tasks /\ pExpired \subseteq Tasks
        /\ activity \in [Tasks -> {"none", "running", "completed", "failed"}]
    BY Types
  <1>1. ~ TableKept
    BY DEF TableKept
  <1>2. ASSUME NEW u \in Tasks, SubmitEnqueue(u) \/ SubmitCreate(u)
        PROVE  FALSE
    <2>1. status[u] = "none" /\ \A v \in Tasks : v # u => status'[v] = status[v]
      BY <1>0, <1>2 DEF SubmitEnqueue, SubmitCreate, Ownership, UncreatedUnknown, Created
    <2>2. QED
      BY <2>1 DEF Active
  <1>3. ASSUME NEW u \in Tasks, MarkFailed(u) \/ CancelWrite(u)
        PROVE  FALSE
    BY <1>0, <1>3 DEF MarkFailed, CancelWrite, StoreUpdate
  <1>4. ~ Purge
    <2>1. SUFFICES ASSUME Purge
                   PROVE  FALSE
      OBVIOUS
    <2> DEFINE o == Oldest(pExpired)
    <2>2. o \in pExpired
      BY <1>0, <2>1, OldestIsFirst DEF Purge
    <2>3. disowned' = disowned /\ status' = [status EXCEPT ![o] = "terminated"]
      BY <2>1 DEF Purge, historyVars
    <2> HIDE DEF o
    <2>4. QED
      BY <1>0, <2>2, <2>3 DEF ListedInv, Active
  <1>5. ~ Promote
    BY <1>0 DEF Promote, Active
  <1>6. ASSUME NEW u \in Tasks, ActivityWrite(u) \/ ActivityUnacked(u)
        PROVE  u = t /\ status'[t] = activity[t] /\ activity[t] \in {"completed", "failed"}
    <2>1. status' = [status EXCEPT ![u] = activity[u]] /\ activity[u] # "none"
      BY <1>6 DEF ActivityWrite, ActivityUnacked, StoreUpdate
    <2>2. u = t
      BY <1>0, <2>1
    <2>3. QED
      BY <1>0, <2>1, <2>2 DEF Active
  <1>7. QED
    BY <1>1, <1>2, <1>3, <1>4, <1>5, <1>6, TableEffect

LEMMA BeginStep ==
    ASSUME TypeOK, Ownership, ActivityInv, ListedInv, BeginInv, [Next]_vars
    PROVE  BeginInv'
  <1>0. /\ status \in [Tasks -> Status] /\ createdAt \in [Tasks -> Nat]
        /\ pCand \subseteq Tasks /\ disowned \subseteq Tasks
        /\ wf \in [Tasks -> Reporting \cup {"none", "operating", "closed"}]
        /\ activity \in [Tasks -> {"none", "running", "completed", "failed"}]
    BY Types
  <1>1. disowned \subseteq disowned'
    BY TableEffect DEF TableKept, SubmitEnqueue, SubmitCreate, MarkFailed, CancelWrite,
                       ActivityWrite, ActivityUnacked, Purge, Promote, historyVars
  <1> DEFINE Begins(t) ==
        run[t] = "resolve" \/ t \in pExec \/ wf[t] = "starting" \/ activity[t] = "running"
  <1>2. SUFFICES ASSUME NEW t \in Tasks, t \notin disowned', Begins(t)'
                 PROVE  status'[t] \in Active
    BY DEF BeginInv, Owned
  <1>3. CASE SubmitCreate(t)
    BY <1>0, <1>3 DEF SubmitCreate, Active
  <1>4. CASE Promote /\ t = Oldest(pCand)
    BY <1>0, <1>4 DEF Promote, Active
  <1>5. ASSUME ~ SubmitCreate(t), ~ (Promote /\ t = Oldest(pCand))
        PROVE  Begins(t)
    <2>1. CASE run'[t] = "resolve" \/ t \in pExec'
      BY <1>5, <2>1, RunEffect
    <2>2. CASE wf'[t] = "starting"
      <3>1. CASE TemporalKept
        BY <2>2, <3>1 DEF TemporalKept
      <3>2. ASSUME NEW u \in Tasks, Execute(u) \/ ExecuteFails(u)
            PROVE  Begins(t)
        BY <1>0, <2>2, <3>2 DEF Execute, ExecuteFails
      <3>3. ASSUME NEW u \in Tasks, CancelTerminate(u) \/ Workflow(u) \/ WorkflowFails(u)
            PROVE  wf[t] = "starting"
        BY <1>0, <2>2, <3>3, Reports
           DEF CancelTerminate, Workflow, WorkflowFails, ActivityStart, ActivityWrite, Operate,
               ActivityUnacked, ActivityGivesUp, WorkflowTimeout
      <3>4. CASE Crash
        BY <2>2, <3>4 DEF Crash
      <3>5. QED
        BY <3>1, <3>2, <3>3, <3>4, TemporalEffect
    <2>3. CASE activity'[t] = "running"
      <3>1. CASE TemporalKept
        BY <2>3, <3>1 DEF TemporalKept
      <3>2. ASSUME NEW u \in Tasks, Execute(u) \/ ExecuteFails(u) \/ CancelTerminate(u)
            PROVE  Begins(t)
        BY <2>3, <3>2 DEF Execute, ExecuteFails, CancelTerminate
      <3>3. ASSUME NEW u \in Tasks, Workflow(u) \/ WorkflowFails(u)
            PROVE  activity[t] = "running" \/ wf[t] = "starting"
        BY <1>0, <2>3, <3>3, Reports
           DEF Workflow, WorkflowFails, ActivityStart, ActivityWrite, Operate,
               ActivityUnacked, ActivityGivesUp, WorkflowTimeout
      <3>4. CASE Crash
        BY <2>3, <3>4 DEF Crash
      <3>5. QED
        BY <3>1, <3>2, <3>3, <3>4, TemporalEffect
    <2>4. QED
      BY <1>2, <2>1, <2>2, <2>3
  <1>6. ASSUME Begins(t), status'[t] \notin Active
        PROVE  FALSE
    <2>1. status[t] \in Active
      BY <1>1, <1>2, <1>6 DEF BeginInv, Owned
    <2>2. /\ ActivityWrite(t) \/ ActivityUnacked(t)
          /\ status'[t] = activity[t] /\ activity[t] \in {"completed", "failed"}
      BY <1>2, <1>6, <2>1, Deactivated
    <2>3. t \in executed /\ run[t] # "resolve" /\ t \notin pExec
      BY <2>2 DEF Ownership, WorkflowsExecuted, AtMostOneExecution, PromotedUnclaimed
    <2>4. run' = run /\ pExec' = pExec /\ activity'[t] = "none"
      BY <1>0, <2>2 DEF ActivityWrite, ActivityUnacked, promoterVars
    <2>5. wf'[t] # "starting"
      BY <1>0, <2>2, Reports DEF ActivityWrite, ActivityUnacked, ActivityInv
    <2>6. QED
      BY <1>2, <2>3, <2>4, <2>5
  <1>7. QED
    BY <1>3, <1>4, <1>5, <1>6

-----------------------------------------------------------------------------
(* A task becomes active by SubmitCreate or Promote, after a conflict      *)
(* check, and in no other way.                                             *)
LEMMA DisownedStays ==
    ASSUME [Next]_vars
    PROVE  disowned \subseteq disowned'
  BY TableEffect DEF TableKept, SubmitEnqueue, SubmitCreate, MarkFailed, CancelWrite,
                     ActivityWrite, ActivityUnacked, Purge, Promote, historyVars

LEMMA NewlyActive ==
    ASSUME TypeOK, Ownership, ListedInv, BeginInv, [Next]_vars,
           NEW t \in Tasks \ disowned', status'[t] \in Active
    PROVE  \/ status[t] \in Active /\ activator'[t] = activator[t]
           \/ SubmitCreate(t)
           \/ Promote /\ t = Oldest(pCand)
  <1>0. /\ status \in [Tasks -> Status] /\ createdAt \in [Tasks -> Nat]
        /\ activator \in [Tasks -> Clients \cup {"none", "promoter"}]
        /\ pCand \subseteq Tasks
        /\ activity \in [Tasks -> {"none", "running", "completed", "failed"}]
    BY Types
  <1>1. CASE TableKept
    BY <1>1 DEF TableKept
  <1>2. ASSUME NEW u \in Tasks, SubmitEnqueue(u)
        PROVE  status[t] \in Active /\ activator'[t] = activator[t]
    BY <1>0, <1>2 DEF SubmitEnqueue, Active
  <1>3. ASSUME NEW u \in Tasks, SubmitCreate(u), t # u
        PROVE  status[t] \in Active /\ activator'[t] = activator[t]
    BY <1>0, <1>3 DEF SubmitCreate
  <1>4. ASSUME NEW u \in Tasks, MarkFailed(u) \/ CancelWrite(u)
        PROVE  status[t] \in Active /\ activator'[t] = activator[t]
    BY <1>0, <1>4 DEF MarkFailed, CancelWrite, StoreUpdate
  <1>5. ASSUME NEW u \in Tasks, ActivityWrite(u) \/ ActivityUnacked(u)
        PROVE  status[t] \in Active /\ activator'[t] = activator[t]
    <2>1. status' = [status EXCEPT ![u] = activity[u]] /\ activator' = activator
          /\ activity[u] # "none"
      BY <1>5 DEF ActivityWrite, ActivityUnacked, StoreUpdate, historyVars
    <2>2. CASE t = u
      <3>1. activity[t] = "running"
        BY <1>0, <2>1, <2>2 DEF Active
      <3>2. t \in Owned
        BY DisownedStays DEF Owned
      <3>3. QED
        BY <2>1, <3>1, <3>2 DEF BeginInv
    <2>3. QED
      BY <1>0, <2>1, <2>2
  <1>6. CASE Purge
    BY <1>0, <1>6 DEF Purge, historyVars, Active
  <1>7. ASSUME Promote, t # Oldest(pCand)
        PROVE  status[t] \in Active /\ activator'[t] = activator[t]
    BY <1>0, <1>7 DEF Promote
  <1>8. QED
    BY <1>1, <1>2, <1>3, <1>4, <1>5, <1>6, <1>7, TableEffect

LEMMA ActivatedStep ==
    ASSUME TypeOK, Ownership, ListedInv, BeginInv, ActivatedInv, [Next]_vars
    PROVE  ActivatedInv'
  <1>0. activator \in [Tasks -> Clients \cup {"none", "promoter"}]
        /\ pCand \subseteq Tasks /\ createdAt \in [Tasks -> Nat]
    BY Types
  <1>1. SUFFICES ASSUME NEW t \in Tasks \ disowned', status'[t] \in Active
                 PROVE  activator'[t] # "none"
    BY DEF ActivatedInv, Owned
  <1>2. CASE status[t] \in Active /\ activator'[t] = activator[t]
    BY <1>1, <1>2, DisownedStays DEF ActivatedInv, Owned
  <1>3. CASE SubmitCreate(t)
    <2>1. activator'[t] = ClientOf[t]
      BY <1>0, <1>3 DEF SubmitCreate
    <2>2. ClientOf[t] # "none"
      BY ManagerAssumption
    <2>3. QED
      BY <2>1, <2>2
  <1>4. CASE Promote /\ t = Oldest(pCand)
    BY <1>0, <1>4 DEF Promote
  <1>5. QED
    BY <1>1, <1>2, <1>3, <1>4, NewlyActive

(* Conflicts with a set of tasks. *)
LEMMA NoClash ==
    ASSUME NEW t \in Tasks, NEW S \in SUBSET Tasks, ~ Conflicts(Info[t], InfosOf(S)),
           NEW u \in S
    PROVE  ~ Clash(t, u) /\ ~ Clash(u, t)
  <1>1. Info[u] \in InfosOf(S)
    BY DEF InfosOf
  <1>2. ~ Conflicts(Info[t], {Info[u]})
    BY <1>1, ConflictsPointwise
  <1>3. QED
    BY <1>2, ConflictsSymmetric DEF Clash

LEMMA CheckedStep ==
    ASSUME TypeOK, Ownership, OneCallPerClient, ListedInv, BeginInv, CheckedInv, [Next]_vars
    PROVE  CheckedInv'
  <1>0. activator \in [Tasks -> Clients \cup {"none", "promoter"}]
        /\ sub \in [Tasks -> {"idle", "conflict", "clear", "enqueue", "executing", "done"}]
        /\ pCand \subseteq Tasks /\ createdAt \in [Tasks -> Nat]
    BY DEF TypeOK
  <1>1. SUFFICES ASSUME NEW t \in Tasks, sub'[t] = "clear", NEW u \in Tasks \ disowned',
                        activator'[u] = ClientOf[t], status'[u] \in Active, Clash(t, u)
                 PROVE  FALSE
    BY DEF CheckedInv, Owned, Clash
  <1>2. CASE SubmitCheck(t)
    <2>1. ~ Conflicts(Info[t], InfosOf(ActiveOn(RackOf[t]))) /\ status' = status
      BY <1>0, <1>1, <1>2 DEF SubmitCheck
    <2>2. u \in ActiveOn(RackOf[t]) /\ ActiveOn(RackOf[t]) \subseteq Tasks
      BY <1>1, <2>1 DEF ActiveOn, OnRack, Clash
    <2>3. QED
      BY <1>1, <2>1, <2>2, NoClash
  <1>3. CASE sub[t] = "clear"
    <2>1. CASE status[u] \in Active /\ activator'[u] = activator[u]
      BY <1>1, <1>3, <2>1, DisownedStays DEF CheckedInv, Owned
    <2>2. CASE SubmitCreate(u)
      <3>1. sub[u] = "clear" /\ activator'[u] = ClientOf[u]
        BY <1>0, <2>2 DEF SubmitCreate
      <3>2. u = t
        BY <1>1, <1>3, <3>1 DEF OneCallPerClient, InCall
      <3>3. QED
        BY <1>1, <3>2 DEF Clash
    <2>3. CASE Promote /\ u = Oldest(pCand)
      <3>1. activator'[u] = "promoter"
        BY <1>0, <2>3 DEF Promote
      <3>2. QED
        BY <1>1, <3>1, ManagerAssumption
    <2>4. QED
      BY <1>1, <2>1, <2>2, <2>3, NewlyActive
  <1>4. QED
    BY <1>1, <1>2, <1>3, RunEffect

LEMMA WorkingEffect ==
    ASSUME [Next]_vars
    PROVE  /\ pCand' \subseteq pCand \/ \E r \in Racks : ListWaiting(r)
           /\ pPc' = "promote" => ListActive \/ (pPc = "promote" /\ pActive \subseteq pActive'
                                                 /\ pCand' \subseteq pCand)
  <1>1. pCand' \subseteq pCand \/ \E r \in Racks : ListWaiting(r)
    BY ListsEffect DEF ListsKept, Purge, PurgeFails, Promote, PromoteFails, StopPromoting, Crash
  <1> DEFINE Goal == pPc' = "promote" => ListActive \/ (pPc = "promote" /\ pActive \subseteq pActive'
                                                        /\ pCand' \subseteq pCand)
  <1>2. ASSUME NEW t \in Tasks, Submit(t) \/ Run(t) \/ RunFails(t)
        PROVE  promoterVars' = promoterVars
    BY <1>2 DEF Submit, SubmitCheck, SubmitReject, SubmitCount, SubmitEnqueue, SubmitCreate,
                SubmitFails, Run, RunFails, Execute, MarkFailed, RecordExecution, ResolveFails,
                ExecuteFails, RunWriteFails
  <1>3. ASSUME NEW t \in Tasks, Cancel(t) \/ Expire(t) \/ Workflow(t) \/ WorkflowFails(t)
        PROVE  promoterVars' = promoterVars
    BY <1>3 DEF Cancel, CancelLoad, CancelTerminate, CancelWrite, CancelFails, Expire,
                Workflow, WorkflowFails, ActivityStart, ActivityWrite, Operate, ActivityUnacked,
                ActivityGivesUp, WorkflowTimeout
  <1>4. CASE Sweep \/ Notified \/ LoopDone \/ Purge \/ Promote \/ StopPromoting
             \/ ExecutePromoted \/ RackDone
    BY <1>4 DEF Sweep, Notified, LoopDone, Purge, Promote, StopPromoting,
                ExecutePromoted, RackDone, PromoterLocal
  <1>5. ASSUME NEW r \in Racks, ListWaiting(r) \/ ListWaitingFails(r)
        PROVE  Goal
    BY <1>5 DEF ListWaiting, ListWaitingFails
  <1>6. CASE PurgeFails \/ PromoteFails \/ Crash
    BY <1>6 DEF PurgeFails, PromoteFails, Crash
  <1>7. CASE UNCHANGED vars
    BY <1>7 DEF vars, promoterVars
  <1>8. promoterVars' = promoterVars => Goal
    BY DEF promoterVars
  <1>9. Goal
    BY <1>2, <1>3, <1>4, <1>5, <1>6, <1>7, <1>8 DEF Next, Promoter, PromoterFails
  <1>10. QED
    BY <1>1, <1>9

LEMMA WorkingStep ==
    ASSUME TypeOK, Ownership, ListedInv, BeginInv, WorkingInv, [Next]_vars
    PROVE  WorkingInv'
  <1>0. /\ activator \in [Tasks -> Clients \cup {"none", "promoter"}]
        /\ pCand \subseteq Tasks /\ createdAt \in [Tasks -> Nat] /\ pActive \subseteq Tasks
    BY Types
  <1>1. \A c, d \in pCand' : RackOf[c] = RackOf[d]
    BY WorkingEffect DEF WorkingInv, ListWaiting, WaitingOn, OnRack
  <1>2. ASSUME pPc' = "promote", NEW c \in pCand', NEW u \in Tasks \ disowned',
               RackOf[u] = RackOf[c], activator'[u] = "promoter", status'[u] \in Active
        PROVE  u \in pActive'
    <2>1. CASE ListActive
      <3>1. pCand' = pCand /\ pActive' = ActiveOn(RackOf[Oldest(pCand)]) /\ status' = status
        BY <1>2, <2>1 DEF ListActive, tableVars
      <3>2. Oldest(pCand) \in pCand
        BY <1>0, <1>2, <3>1, OldestIsFirst
      <3>3. RackOf[Oldest(pCand)] = RackOf[c]
        BY <1>2, <3>1, <3>2 DEF WorkingInv
      <3>4. QED
        BY <1>2, <3>1, <3>3 DEF ActiveOn, OnRack
    <2>2. CASE pPc = "promote" /\ pActive \subseteq pActive' /\ pCand' \subseteq pCand
      <3>1. CASE status[u] \in Active /\ activator'[u] = activator[u]
        BY <1>2, <2>2, <3>1, DisownedStays DEF WorkingInv, Owned
      <3>2. CASE SubmitCreate(u)
        <4>1. activator'[u] = ClientOf[u]
          BY <1>0, <3>2 DEF SubmitCreate
        <4>2. QED
          BY <1>2, <4>1, ManagerAssumption
      <3>3. CASE Promote /\ u = Oldest(pCand)
        BY <3>3 DEF Promote
      <3>4. QED
        BY <1>2, <3>1, <3>2, <3>3, NewlyActive
    <2>3. QED
      BY <1>2, <2>1, <2>2, WorkingEffect
  <1>3. QED
    BY <1>1, <1>2 DEF WorkingInv, Owned

(* A task that becomes active does not conflict with the active tasks of   *)
(* the same actor.                                                         *)
LEMMA SameActorStep ==
    ASSUME TypeOK, Ownership, OneCallPerClient, ListedInv, BeginInv, ActivatedInv, CheckedInv,
           WorkingInv, SameActorExclusion, [Next]_vars
    PROVE  SameActorExclusion'
  <1>0. /\ activator \in [Tasks -> Clients \cup {"none", "promoter"}]
        /\ pCand \subseteq Tasks /\ createdAt \in [Tasks -> Nat] /\ pActive \subseteq Tasks
        /\ sub \in [Tasks -> {"idle", "conflict", "clear", "enqueue", "executing", "done"}]
    BY DEF TypeOK
  <1> DEFINE Was(u) == status[u] \in Active /\ activator'[u] = activator[u]
             Begun(u) == SubmitCreate(u) \/ (Promote /\ u = Oldest(pCand))
  <1>1. SUFFICES ASSUME NEW t \in Tasks \ disowned', NEW u \in Tasks \ disowned',
                        activator'[t] = activator'[u], status'[t] \in Active,
                        status'[u] \in Active, Clash(t, u)
                 PROVE  FALSE
    BY DEF SameActorExclusion, ConflictingActive, Clash
  <1>2. (Was(t) \/ Begun(t)) /\ (Was(u) \/ Begun(u))
    BY <1>1, NewlyActive
  <1>3. CASE Was(t) /\ Was(u)
    BY <1>1, <1>3, DisownedStays DEF SameActorExclusion, ConflictingActive, Clash
  <1>4. ASSUME NEW v \in Tasks \ disowned', NEW w \in Tasks \ disowned', Begun(v), Was(w),
               activator'[v] = activator'[w]
        PROVE  ~ Clash(v, w)
    <2>1. CASE SubmitCreate(v)
      <3>1. sub[v] = "clear" /\ activator'[v] = ClientOf[v]
        BY <1>0, <2>1 DEF SubmitCreate
      <3>2. QED
        BY <1>4, <3>1, DisownedStays DEF CheckedInv, Owned
    <2>2. CASE Promote /\ v = Oldest(pCand)
      <3>1. v \in pCand /\ activator'[v] = "promoter" /\ pPc = "promote"
            /\ ~ Conflicts(Info[v], InfosOf(pActive))
        BY <1>0, <2>2, OldestIsFirst DEF Promote, Promotable
      <3>2. CASE RackOf[w] = RackOf[v]
        <4>1. w \in pActive
          BY <1>4, <3>1, <3>2, DisownedStays DEF WorkingInv, Owned
        <4>2. QED
          BY <1>0, <3>1, <4>1, NoClash
      <3>3. QED
        BY <3>2 DEF Clash
    <2>3. QED
      BY <1>4, <2>1, <2>2
  <1>5. Clash(u, t)
    BY <1>1, ConflictsSymmetric DEF Clash
  <1>6. ASSUME Begun(t), Begun(u)
        PROVE  t = u
    <2>1. ~ (SubmitCreate(t) /\ SubmitCreate(u) /\ t # u)
      BY <1>0 DEF SubmitCreate
    <2>2. ~ (Promote /\ (SubmitCreate(t) \/ SubmitCreate(u)))
      <3>1. \A v \in Tasks : SubmitCreate(v) => sub' # sub
        BY <1>0 DEF SubmitCreate
      <3>2. Promote => sub' = sub
        BY DEF Promote
      <3>3. QED
        BY <3>1, <3>2
    <2>3. QED
      BY <1>6, <2>1, <2>2
  <1>7. QED
    BY <1>1, <1>2, <1>3, <1>4, <1>5, <1>6 DEF Clash

-----------------------------------------------------------------------------
(* Without failures and restarts nobody drops what he carries out. *)
LEMMA FaultlessStep ==
    ASSUME TypeOK, [Next]_vars, Faultless'
    PROVE  /\ Faultless
           /\ ~ Crash /\ ~ PromoteFails
           /\ \A t \in Tasks : /\ ~ ResolveFails(t) /\ ~ ExecuteFails(t) /\ ~ CancelFails(t)
                               /\ ~ ActivityUnacked(t) /\ ~ ActivityGivesUp(t)
                               /\ ~ WorkflowTimeout(t)
  <1>0. faults \in Nat /\ crashes \in Nat /\ faults' = 0 /\ crashes' = 0
    BY Types DEF Faultless
  <1>1. ~ Fault /\ ~ Crash
    BY <1>0 DEF Fault, Crash
  <1>2. faults' = faults /\ crashes' = crashes
    <2>1. ASSUME NEW t \in Tasks, Submit(t) \/ Run(t) \/ RunFails(t)
          PROVE  faults' = faults /\ crashes' = crashes
      BY <1>1, <2>1 DEF Submit, SubmitCheck, SubmitReject, SubmitCount, SubmitEnqueue, SubmitCreate,
                        SubmitFails, Run, RunFails, Execute, MarkFailed, RecordExecution,
                        ResolveFails, ExecuteFails, RunWriteFails, boundVars
    <2>2. ASSUME NEW t \in Tasks, Cancel(t) \/ Expire(t) \/ Workflow(t) \/ WorkflowFails(t)
          PROVE  faults' = faults /\ crashes' = crashes
      BY <1>1, <2>2 DEF Cancel, CancelLoad, CancelTerminate, CancelWrite, CancelFails, Expire,
                        Workflow, WorkflowFails, ActivityStart, ActivityWrite, Operate,
                        ActivityUnacked, ActivityGivesUp, WorkflowTimeout, boundVars
    <2>3. CASE Sweep \/ Notified \/ LoopDone \/ Purge \/ ListActive \/ Promote \/ StopPromoting
               \/ ExecutePromoted \/ RackDone
      BY <2>3 DEF Sweep, Notified, LoopDone, Purge, ListActive, Promote, StopPromoting,
                  ExecutePromoted, RackDone, boundVars
    <2>4. ASSUME NEW r \in Racks, ListWaiting(r) \/ ListWaitingFails(r)
          PROVE  faults' = faults /\ crashes' = crashes
      BY <1>1, <2>4 DEF ListWaiting, ListWaitingFails, boundVars
    <2>5. ~ PurgeFails /\ ~ PromoteFails
      BY <1>1 DEF PurgeFails, PromoteFails
    <2>6. CASE UNCHANGED vars
      BY <2>6 DEF vars, boundVars
    <2>7. QED
      BY <1>1, <2>1, <2>2, <2>3, <2>4, <2>5, <2>6 DEF Next, Promoter, PromoterFails
  <1>3. Faultless
    BY <1>0, <1>2 DEF Faultless
  <1>4. QED
    BY <1>1, <1>3 DEF PromoteFails, ResolveFails, ExecuteFails, CancelFails, ActivityUnacked,
                      ActivityGivesUp, WorkflowTimeout

LEMMA ClosedStep ==
    ASSUME TypeOK, Ownership, ActivityInv, ListedInv, ClosedInv, [Next]_vars
    PROVE  ClosedInv'
  <1>0. /\ status \in [Tasks -> Status] /\ createdAt \in [Tasks -> Nat]
        /\ wf \in [Tasks -> Reporting \cup {"none", "operating", "closed"}]
        /\ activity \in [Tasks -> {"none", "running", "completed", "failed"}]
        /\ cancel \in [Tasks -> {"idle", "terminate", "write"}]
        /\ pCand \subseteq Tasks /\ pExpired \subseteq Tasks
    BY Types
  <1>1. SUFFICES ASSUME Faultless', NEW t \in Tasks \ disowned', wf'[t] = "closed"
                 PROVE  (status'[t] \in Finished /\ activity'[t] = "none") \/ cancel'[t] = "write"
    BY DEF ClosedInv, Owned
  <1>2. /\ Faultless /\ t \in Owned
        /\ ~ Crash /\ ~ PromoteFails
        /\ \A u \in Tasks : /\ ~ ResolveFails(u) /\ ~ ExecuteFails(u) /\ ~ CancelFails(u)
                            /\ ~ ActivityUnacked(u) /\ ~ ActivityGivesUp(u)
                            /\ ~ WorkflowTimeout(u)
    BY <1>1, FaultlessStep, DisownedStays DEF Owned
  <1>3. CASE CancelTerminate(t)
    BY <1>0, <1>3 DEF CancelTerminate
  <1>4. CASE ActivityWrite(t) /\ wf[t] # "closed"
    <2>1. /\ activity[t] = Report[wf[t]] /\ wf[t] \in Reporting /\ activity'[t] = "none"
          /\ status'[t] = activity[t] /\ wf'[t] = Reported[wf[t]]
      BY <1>0, <1>4 DEF ActivityWrite, StoreUpdate, ActivityInv
    <2>2. QED
      BY <1>1, <2>1, Reports DEF Finished
  <1>5. ASSUME wf[t] # "closed", ~ CancelTerminate(t), ~ ActivityWrite(t)
        PROVE  FALSE
    BY <1>0, <1>1, <1>2, <1>5, TemporalEffect, Reports
       DEF TemporalKept, Execute, CancelTerminate, Workflow, WorkflowFails, ActivityStart,
           ActivityWrite, Operate
  <1>6. CASE wf[t] = "closed"
    <2>1. (status[t] \in Finished /\ activity[t] = "none") \/ cancel[t] = "write"
      BY <1>2, <1>6 DEF ClosedInv
    <2>2. CASE cancel[t] = "write"
      <3>1. ~ CancelWrite(t)
        BY <1>1 DEF CancelWrite
      <3>2. QED
        BY <1>2, <2>2, <3>1, RunEffect
    <2>3. ASSUME status[t] \in Finished, activity[t] = "none"
          PROVE  activity'[t] = "none"
      <3>1. ~ ActivityStart(t)
        BY <1>6, Reports DEF ActivityStart
      <3>2. QED
        BY <1>0, <1>2, <2>3, <3>1, TemporalEffect
           DEF TemporalKept, Execute, CancelTerminate, Workflow, WorkflowFails, ActivityStart,
               ActivityWrite, Operate
    <2>4. ASSUME status[t] \in Finished, activity[t] = "none"
          PROVE  status'[t] = status[t]
      <3>0. status[t] \notin {"none", "waiting"}
        BY <2>4 DEF Finished
      <3>1. CASE TableKept
        BY <3>1 DEF TableKept
      <3>2. ASSUME NEW u \in Tasks, SubmitEnqueue(u) \/ SubmitCreate(u)
            PROVE  status'[t] = status[t]
        <4>1. status[u] = "none" /\ \A v \in Tasks : v # u => status'[v] = status[v]
          BY <1>0, <3>2 DEF SubmitEnqueue, SubmitCreate, Ownership, UncreatedUnknown, Created
        <4>2. QED
          BY <3>0, <4>1
      <3>3. ASSUME NEW u \in Tasks, MarkFailed(u) \/ CancelWrite(u)
            PROVE  status'[t] = status[t]
        BY <1>0, <1>1, <3>3 DEF MarkFailed, CancelWrite, StoreUpdate
      <3>4. ASSUME NEW u \in Tasks, ActivityWrite(u)
            PROVE  status'[t] = status[t]
        BY <1>0, <2>4, <3>4 DEF ActivityWrite, StoreUpdate
      <3>5. CASE Purge
        <4>1. Oldest(pExpired) \in pExpired
          BY <1>0, <3>5, OldestIsFirst DEF Purge
        <4>2. t # Oldest(pExpired)
          BY <1>2, <3>0, <4>1 DEF ListedInv, Owned
        <4>3. QED
          BY <1>0, <3>5, <4>2 DEF Purge
      <3>6. CASE Promote
        <4>1. Oldest(pCand) \in pCand
          BY <1>0, <3>6, OldestIsFirst DEF Promote
        <4>2. t # Oldest(pCand)
          BY <1>2, <3>0, <4>1 DEF ListedInv, Owned
        <4>3. QED
          BY <1>0, <3>6, <4>2 DEF Promote
      <3>7. QED
        BY <1>2, <3>1, <3>2, <3>3, <3>4, <3>5, <3>6, TableEffect
    <2>5. QED
      BY <2>1, <2>2, <2>3, <2>4
  <1>7. QED
    BY <1>3, <1>4, <1>5, <1>6

LEMMA CarriedStep ==
    ASSUME TypeOK, Ownership, ActivityInv, ListedInv, BeginInv, ClosedInv, CarriedInv, [Next]_vars
    PROVE  CarriedInv'
  <1>0. /\ wf \in [Tasks -> Reporting \cup {"none", "operating", "closed"}]
        /\ activity \in [Tasks -> {"none", "running", "completed", "failed"}]
        /\ run \in [Tasks -> {"no", "resolve", "scheduled", "errored"}]
        /\ pCand \subseteq Tasks /\ createdAt \in [Tasks -> Nat]
    BY DEF TypeOK
  <1>1. SUFFICES ASSUME Faultless', NEW t \in Tasks \ disowned', status'[t] \in Active
                 PROVE  CarriedOut(t)'
    BY DEF CarriedInv, Owned
  <1>2. /\ Faultless /\ t \in Owned
        /\ ~ Crash /\ ~ PromoteFails
        /\ \A u \in Tasks : /\ ~ ResolveFails(u) /\ ~ ExecuteFails(u) /\ ~ CancelFails(u)
                            /\ ~ ActivityUnacked(u) /\ ~ ActivityGivesUp(u)
                            /\ ~ WorkflowTimeout(u)
    BY <1>1, FaultlessStep, DisownedStays DEF Owned
  <1>3. wf'[t] = "closed" => cancel'[t] = "write"
    <2>1. ClosedInv'
      BY ClosedStep
    <2>2. status'[t] \notin Finished
      BY <1>1 DEF Active, Finished
    <2>3. QED
      BY <1>1, <2>1, <2>2 DEF ClosedInv, Owned
  <1>4. CASE SubmitCreate(t)
    BY <1>0, <1>4 DEF SubmitCreate, CarriedOut
  <1>5. CASE Promote /\ t = Oldest(pCand)
    BY <1>5 DEF Promote, CarriedOut
  <1>6. CASE status[t] \in Active
    <2>1. CASE run[t] = "resolve"
      <3>1. CASE Execute(t)
        BY <1>0, <3>1 DEF Execute, CarriedOut, Open, Reporting, Report
      <3>2. QED
        BY <1>2, <2>1, <3>1, RunEffect DEF CarriedOut
    <2>2. CASE t \in pExec
      BY <1>2, <2>2, RunEffect DEF CarriedOut
    <2>3. CASE wf[t] \in Open
      <3>1. wf'[t] \in Open \cup {"closed"}
        BY <1>0, <1>2, <2>3, TemporalEffect, Reports
           DEF TemporalKept, Execute, CancelTerminate, Workflow, WorkflowFails, ActivityStart,
               ActivityWrite, Operate, Open
      <3>2. QED
        BY <1>3, <3>1 DEF CarriedOut
    <2>4. CASE cancel[t] # "idle"
      <3>1. ~ CancelWrite(t)
        BY <1>1 DEF CancelWrite
      <3>2. QED
        BY <1>2, <2>4, <3>1, RunEffect DEF CarriedOut
    <2>5. activity[t] # "none" => wf[t] \in Open \/ cancel[t] # "idle"
      BY <1>2 DEF ActivityInv, ClosedInv, Open
    <2>6. QED
      BY <1>2, <1>6, <2>1, <2>2, <2>3, <2>4, <2>5 DEF CarriedInv, CarriedOut
  <1>7. QED
    BY <1>1, <1>4, <1>5, <1>6, NewlyActive

-----------------------------------------------------------------------------
XInv == IInv /\ Exclusion /\ ClosedInv /\ CarriedInv

LEMMA InitXInv ==
    Init => Exclusion /\ ClosedInv /\ CarriedInv
  <1> SUFFICES ASSUME Init
               PROVE  Exclusion /\ ClosedInv /\ CarriedInv
    OBVIOUS
  <1>1. ActivityInv /\ ListedInv /\ BeginInv /\ ActivatedInv /\ CheckedInv /\ WorkingInv
    BY DEF Init, ActivityInv, ListedInv, BeginInv, ActivatedInv, CheckedInv, WorkingInv, Owned, Active
  <1>2. SameActorExclusion
    BY DEF Init, SameActorExclusion, ConflictingActive, Active
  <1>3. ClosedInv /\ CarriedInv
    BY DEF Init, ClosedInv, CarriedInv, Owned, Active
  <1>4. QED
    BY <1>1, <1>2, <1>3 DEF Exclusion

(* Every reachable state of the task manager satisfies the inductive       *)
(* invariant.                                                              *)
THEOREM ExclusionInductive == Spec => []XInv
  <1>1. Init => Exclusion /\ ClosedInv /\ CarriedInv
    BY InitXInv
  <1>2. IInv /\ Exclusion /\ ClosedInv /\ CarriedInv /\ [Next]_vars
          => (Exclusion /\ ClosedInv /\ CarriedInv)'
    BY ActivityStep, ListedStep, BeginStep, ActivatedStep, CheckedStep, WorkingStep,
       SameActorStep, ClosedStep, CarriedStep DEF Exclusion, IInv
  <1>3. XInv <=> IInv /\ Exclusion /\ ClosedInv /\ CarriedInv
    BY DEF XInv
  <1>4. QED
    BY <1>1, <1>2, <1>3, Invariance, PTL DEF Spec

(* createAndExecuteTask and the promoter never make a task pending next to *)
(* one that they activated and that it conflicts with, however their steps *)
(* and those of workflows, CancelTask calls, failures and restarts mix.    *)
THEOREM NoOwnConflict == Spec => []SameActorExclusion
  <1>1. XInv => SameActorExclusion
    BY DEF XInv, Exclusion
  <1>2. QED
    BY <1>1, ExclusionInductive, PTL

(* The same, stated on the hardware: no compute tray, NVLink switch or     *)
(* power shelf is the target of two active power or firmware tasks that    *)
(* one actor made pending.                                                 *)
Disrupts(t) == Info[t].op.type \in {"power_control", "firmware_control"}
Hardware(t) == UNION { Info[t].comps[ct] : ct \in ComponentTypes \ {"Other"} }

OwnHardwareExclusive ==
    \A t, u \in Tasks \ disowned :
        (/\ t # u /\ RackOf[t] = RackOf[u] /\ activator[t] = activator[u]
         /\ status[t] \in Active /\ status[u] \in Active
         /\ Disrupts(t) /\ Disrupts(u))
            => Hardware(t) \cap Hardware(u) = {}

(* A component has one type: see OneTypePerComponent of RackReservation.   *)
TypesFixed ==
    \A t, u \in Tasks : \A c, d \in ComponentTypes :
        c # d => Info[t].comps[c] \cap Info[u].comps[d] = {}

(* SubmitTask and the promoter each keep the disruptive operations they    *)
(* start on a rack off each other's hardware, through failed calls,        *)
(* cancellations and restarts.                                             *)
THEOREM NoHardwareShared == ASSUME TypesFixed PROVE Spec => []OwnHardwareExclusive
  <1>1. SameActorExclusion => OwnHardwareExclusive
    <2> SUFFICES ASSUME SameActorExclusion, NEW t \in Tasks \ disowned, NEW u \in Tasks \ disowned,
                        t # u, RackOf[t] = RackOf[u], activator[t] = activator[u],
                        status[t] \in Active, status[u] \in Active,
                        Disrupts(t), Disrupts(u),
                        NEW x, x \in Hardware(t), x \in Hardware(u)
                 PROVE  FALSE
      BY DEF OwnHardwareExclusive
    <2>1. PICK c \in ComponentTypes \ {"Other"} : x \in Info[t].comps[c]
      BY DEF Hardware
    <2>2. PICK d \in ComponentTypes \ {"Other"} : x \in Info[u].comps[d]
      BY DEF Hardware
    <2>3. c = d
      BY <2>1, <2>2 DEF TypesFixed
    <2>4. c \in {"Compute", "NVLSwitch", "PowerShelf"}
      BY DEF ComponentTypes
    <2>5. Conflicts(Info[t], {Info[u]})
      BY <2>1, <2>2, <2>3, <2>4, SharedHardwareConflicts DEF Disrupts
    <2>6. QED
      BY <2>5 DEF SameActorExclusion, ConflictingActive
  <1>2. QED
    BY <1>1, NoOwnConflict, PTL

(* Without failed calls and restarts no row stays active without a call,   *)
(* a workflow or a write on its way that will end it.                      *)
THEOREM NoRackHeldByNobody == Spec => []ActiveHasWorker
  <1>1. XInv => ActiveHasWorker
    <2> SUFFICES ASSUME XInv, NEW t \in Tasks, status[t] \in Active, ~ HasWorker(t),
                        ~ (faults > 0 \/ crashes > 0 \/ t \in disowned)
                 PROVE  FALSE
      BY DEF ActiveHasWorker
    <2>1. TypeOK
      BY DEF XInv, IInv
    <2>2. Faultless
      BY <2>1, Types DEF Faultless
    <2>3. CarriedOut(t)
      BY <2>2 DEF XInv, CarriedInv, Owned
    <2>4. wf[t] \in Open => wf[t] \notin {"none", "closed"}
      BY Reports DEF Open
    <2>5. QED
      BY <2>3, <2>4 DEF CarriedOut, HasWorker
  <1>2. QED
    BY <1>1, ExclusionInductive, PTL

-----------------------------------------------------------------------------
(* Refinement. *)

LEMMA NoQueueStep ==
    ASSUME TypeOK, NoQueueInv, [Next]_vars
    PROVE  NoQueueInv'
  <1> SUFFICES ASSUME Queueing = {}
               PROVE  /\ pCand' = {} /\ pExpired' = {} /\ pExec' = {}
                      /\ \A t \in Tasks : /\ status'[t] # "waiting" /\ sub'[t] # "enqueue"
                                          /\ activator'[t] \in {"none", ClientOf[t]}
    BY DEF NoQueueInv
  <1>0. /\ status \in [Tasks -> Status]
        /\ activator \in [Tasks -> Clients \cup {"none", "promoter"}]
        /\ activity \in [Tasks -> {"none", "running", "completed", "failed"}]
        /\ sub \in [Tasks -> {"idle", "conflict", "clear", "enqueue", "executing", "done"}]
    BY DEF TypeOK
  <1>1. /\ pCand = {} /\ pExpired = {} /\ pExec = {}
        /\ \A t \in Tasks : /\ status[t] # "waiting" /\ sub[t] # "enqueue"
                            /\ activator[t] \in {"none", ClientOf[t]}
    BY DEF NoQueueInv
  <1>2. ~ Promote /\ ~ Purge /\ \A t \in Tasks : ~ SubmitEnqueue(t) /\ ~ SubmitCount(t)
    BY <1>1 DEF Promote, Purge, SubmitEnqueue, SubmitCount
  <1>3. pCand' = {} /\ pExpired' = {}
    BY <1>1, <1>2, ListsEffect
       DEF ListsKept, PurgeFails, PromoteFails, StopPromoting, Crash, ListWaiting, WaitingOn, OnRack
  <1>4. pExec' = {}
    <2>1. pExec' \subseteq Tasks
      BY TypeStep DEF TypeOK
    <2>2. QED
      BY <1>1, <1>2, <2>1, RunEffect
  <1>5. \A t \in Tasks : status'[t] # "waiting" /\ activator'[t] \in {"none", ClientOf[t]}
    BY <1>0, <1>1, <1>2, TableEffect
       DEF TableKept, SubmitCreate, MarkFailed, CancelWrite, ActivityWrite, ActivityUnacked,
           StoreUpdate, historyVars
  <1>6. \A t \in Tasks : sub'[t] # "enqueue"
    <2>1. ASSUME NEW u \in Tasks, Submit(u) \/ Run(u) \/ RunFails(u)
          PROVE  \A t \in Tasks : sub'[t] # "enqueue"
      BY <1>0, <1>1, <1>2, <2>1
         DEF Submit, SubmitCheck, SubmitReject, SubmitCreate, SubmitFails, Run, RunFails, Execute,
             MarkFailed, RecordExecution, ResolveFails, ExecuteFails, RunWriteFails, EndRun
    <2>2. ASSUME NEW u \in Tasks, Cancel(u) \/ Expire(u) \/ Workflow(u) \/ WorkflowFails(u)
          PROVE  sub' = sub
      BY <2>2 DEF Cancel, CancelLoad, CancelTerminate, CancelWrite, CancelFails, Expire,
                  Workflow, WorkflowFails, ActivityStart, ActivityWrite, Operate, ActivityUnacked,
                  ActivityGivesUp, WorkflowTimeout
    <2>3. CASE Sweep \/ Notified \/ LoopDone \/ Purge \/ ListActive \/ Promote \/ StopPromoting
               \/ ExecutePromoted \/ RackDone
      BY <1>1, <2>3 DEF Sweep, Notified, LoopDone, Purge, ListActive, Promote, StopPromoting,
                  ExecutePromoted, RackDone
    <2>4. ASSUME NEW r \in Racks, ListWaiting(r) \/ ListWaitingFails(r)
          PROVE  sub' = sub
      BY <2>4 DEF ListWaiting, ListWaitingFails
    <2>5. CASE PurgeFails \/ PromoteFails \/ Crash \/ UNCHANGED vars
      BY <1>0, <1>1, <2>5 DEF PurgeFails, PromoteFails, Crash, vars
    <2>6. QED
      BY <1>1, <2>1, <2>2, <2>3, <2>4, <2>5 DEF Next, Promoter, PromoterFails
  <1>7. QED
    BY <1>3, <1>4, <1>5, <1>6

LEMMA OpenStep ==
    ASSUME TypeOK, Ownership, ActivityInv, ListedInv, BeginInv, OpenInv, TypeOK', [Next]_vars
    PROVE  OpenInv'
  <1> SUFFICES ASSUME MaxFaults = 0, Cancellable = {}
               PROVE  /\ disowned' = {}
                      /\ \A t \in Tasks : /\ cancel'[t] = "idle" /\ run'[t] # "errored"
                                          /\ wf'[t] \in Open => status'[t] \in Active
                                          /\ wf'[t] = "closed" => activity'[t] = "none"
    BY DEF OpenInv
  <1>0. /\ status \in [Tasks -> Status] /\ createdAt \in [Tasks -> Nat]
        /\ wf \in [Tasks -> Reporting \cup {"none", "operating", "closed"}]
        /\ activity \in [Tasks -> {"none", "running", "completed", "failed"}]
        /\ run \in [Tasks -> {"no", "resolve", "scheduled", "errored"}]
        /\ cancel \in [Tasks -> {"idle", "terminate", "write"}]
        /\ pExpired \subseteq Tasks
    BY DEF TypeOK
  <1>1. /\ disowned = {}
        /\ \A t \in Tasks : /\ cancel[t] = "idle" /\ run[t] # "errored"
                            /\ wf[t] \in Open => status[t] \in Active
                            /\ wf[t] = "closed" => activity[t] = "none"
    BY DEF OpenInv
  <1>2. ~ Fault
    BY DEF Fault, TypeOK
  <1>3. /\ ~ PromoteFails /\ ~ PurgeFails
        /\ \A u \in Tasks : /\ ~ ResolveFails(u) /\ ~ ExecuteFails(u) /\ ~ RunWriteFails(u)
                            /\ ~ MarkFailed(u) /\ ~ Cancel(u)
                            /\ ~ ActivityUnacked(u) /\ ~ ActivityGivesUp(u)
                            /\ ~ WorkflowTimeout(u)
    BY <1>1, <1>2 DEF PromoteFails, PurgeFails, ResolveFails, ExecuteFails, RunWriteFails,
                      MarkFailed, Cancel, CancelLoad, CancelTerminate, CancelWrite, CancelFails,
                      ActivityUnacked, ActivityGivesUp, WorkflowTimeout
  <1>4. disowned' = {}
    BY <1>1, <1>3, TableEffect DEF TableKept, SubmitEnqueue, SubmitCreate, Cancel, ActivityWrite,
                                   Purge, Promote, historyVars
  <1>5. \A t \in Tasks : cancel'[t] = "idle" /\ run'[t] # "errored"
    <2>1. ASSUME NEW u \in Tasks, Submit(u) \/ Run(u)
          PROVE  \A t \in Tasks : cancel'[t] = "idle" /\ run'[t] # "errored"
      BY <1>0, <1>1, <1>3, <2>1
         DEF Submit, SubmitCheck, SubmitReject, SubmitCount, SubmitEnqueue, SubmitCreate,
             SubmitFails, Run, Execute, RecordExecution, EndRun
    <2>2. ASSUME NEW u \in Tasks, Expire(u) \/ Workflow(u)
          PROVE  cancel' = cancel /\ run' = run
      BY <2>2 DEF Expire, Workflow, ActivityStart, ActivityWrite, Operate
    <2>3. CASE Sweep \/ Notified \/ LoopDone \/ Purge \/ ListActive \/ Promote \/ StopPromoting
               \/ ExecutePromoted \/ RackDone
      BY <1>0, <1>1, <2>3 DEF Sweep, Notified, LoopDone, Purge, ListActive, Promote, StopPromoting,
                  ExecutePromoted, RackDone
    <2>4. ASSUME NEW r \in Racks, ListWaiting(r) \/ ListWaitingFails(r)
          PROVE  cancel' = cancel /\ run' = run
      BY <2>4 DEF ListWaiting, ListWaitingFails
    <2>5. CASE Crash \/ UNCHANGED vars
      BY <1>0, <1>1, <2>5 DEF Crash, vars
    <2>6. QED
      BY <1>1, <1>3, <2>1, <2>2, <2>3, <2>4, <2>5
         DEF Next, RunFails, WorkflowFails, Promoter, PromoterFails
  <1>6. \A t \in Tasks : wf'[t] = "closed" => activity'[t] = "none"
    <2> SUFFICES ASSUME NEW t \in Tasks, wf'[t] = "closed"
                 PROVE  activity'[t] = "none"
      OBVIOUS
    <2>1. CASE TemporalKept
      BY <1>1, <2>1 DEF TemporalKept
    <2>2. ASSUME NEW u \in Tasks, Execute(u) \/ Workflow(u)
          PROVE  activity'[t] = "none"
      BY <1>0, <1>1, <2>2, Reports DEF Execute, Workflow, ActivityStart, ActivityWrite, Operate
    <2>3. CASE Crash
      BY <2>3 DEF Crash
    <2>4. QED
      BY <1>3, <2>1, <2>2, <2>3, TemporalEffect DEF Cancel, WorkflowFails
  <1>7. ASSUME NEW t \in Tasks, wf'[t] \in Open
        PROVE  status'[t] \in Active
    <2>1. status[t] \in Active
      <3>1. CASE wf[t] \in Open
        BY <1>1, <3>1
      <3>2. CASE Execute(t)
        BY <1>1, <3>2 DEF Execute, BeginInv, Owned
      <3>3. ASSUME ~ Execute(t), wf[t] \notin Open
            PROVE  FALSE
        BY <1>0, <1>3, <1>7, <3>3, TemporalEffect, Reports
           DEF TemporalKept, Execute, Cancel, Workflow, WorkflowFails, ActivityStart,
               ActivityWrite, Operate, Crash, Open
      <3>4. QED
        BY <3>1, <3>2, <3>3
    <2>2. ASSUME status'[t] \notin Active
          PROVE  FALSE
      <3>1. ActivityWrite(t) /\ activity[t] \in {"completed", "failed"}
        BY <1>3, <1>4, <2>1, <2>2, Deactivated
      <3>2. wf'[t] = "closed"
        BY <1>0, <1>1, <3>1, Reports DEF ActivityWrite, ActivityInv
      <3>3. QED
        BY <1>7, <3>2, Reports DEF Open
    <2>3. QED
      BY <2>2
  <1>8. QED
    BY <1>4, <1>5, <1>6, <1>7

(* The conflict rule of the abstract specification is the same rule.       *)
LEMMA SameRule ==
    ASSUME NEW t, NEW S
    PROVE  Reservation!Conflicts(t, S) <=> Conflicts(t, S)
  BY DEF Reservation!Conflicts, Reservation!RuleConflicts, Reservation!builtinRule,
         Reservation!entryConflict, Reservation!opMatch, Reservation!componentMatch,
         Reservation!hasComponentType, Reservation!componentUUIDsOverlap,
         Reservation!AllComponentUUIDs, Reservation!Matches, Reservation!Pair,
         Reservation!OpSpec, Reservation!Power, Reservation!Firmware, Reservation!Unknown,
         Reservation!Star, Reservation!NoCode, Reservation!ComponentTypes,
         Conflicts, RuleConflicts, builtinRule, entryConflict, opMatch, componentMatch,
         hasComponentType, componentUUIDsOverlap, AllComponentUUIDs, Matches, Pair,
         OpSpec, Power, Firmware, Unknown, Star, NoCode, ComponentTypes

(* A client on its own: its calls follow one another, it asks neither      *)
(* to queue nor to cancel, and no call fails.  The service may restart.    *)
SoleClient ==
    /\ \A t, u \in Tasks : ClientOf[t] = ClientOf[u]
    /\ Queueing = {} /\ Cancellable = {} /\ MaxFaults = 0

RefInv == XInv /\ NoQueueInv /\ OpenInv

LEMMA StepRefines ==
    ASSUME SoleClient, RefInv, [Next]_vars
    PROVE  [Reservation!RNext]_(Reservation!rvars)
  <1>0. /\ status \in [Tasks -> Status] /\ createdAt \in [Tasks -> Nat]
        /\ activity \in [Tasks -> {"none", "running", "completed", "failed"}]
        /\ activator \in [Tasks -> Clients \cup {"none", "promoter"}]
    BY Types DEF RefInv, XInv, IInv
  <1>1. /\ TypeOK /\ Ownership /\ ActivityInv /\ CheckedInv /\ ActivatedInv
        /\ disowned = {} /\ pCand = {} /\ pExpired = {}
        /\ \A t \in Tasks : /\ status[t] # "waiting" /\ sub[t] # "enqueue"
                            /\ activator[t] \in {"none", ClientOf[t]}
                            /\ cancel[t] = "idle" /\ run[t] # "errored"
                            /\ wf[t] \in Open => status[t] \in Active
                            /\ wf[t] = "closed" => activity[t] = "none"
    BY DEF SoleClient, RefInv, XInv, IInv, Exclusion, NoQueueInv, OpenInv
  <1>2. ~ Fault
    BY <1>1 DEF Fault, TypeOK, SoleClient
  <1>3. CASE status' = status
    BY <1>3 DEF AbstractState, Reservation!rvars
  <1>4. ASSUME NEW t \in Tasks, SubmitCreate(t)
        PROVE  Reservation!Admit(t)
    <2>1. status[t] = "none" /\ sub[t] = "clear" /\ status' = [status EXCEPT ![t] = "pending"]
      BY <1>1, <1>4 DEF SubmitCreate, Ownership, UncreatedUnknown, Created
    <2>2. ASSUME NEW u \in Tasks, RackOf[u] = RackOf[t], status[u] \in Active
          PROVE  ~ Conflicts(Info[t], {Info[u]})
      <3>1. activator[u] = ClientOf[t] /\ u \in Owned
        BY <1>1, <2>2 DEF SoleClient, ActivatedInv, Owned
      <3>2. u # t
        BY <2>1, <2>2 DEF Active
      <3>3. QED
        BY <1>1, <2>1, <2>2, <3>1, <3>2 DEF CheckedInv, Clash
    <2>3. \A u \in Tasks : AbstractState[u] = "active" => status[u] \in Active
      BY <1>0 DEF AbstractState, Status, Active, Finished
    <2>4. ASSUME NEW i \in Reservation!ActiveInfos(RackOf[t])
          PROVE  ~ Conflicts(Info[t], {i})
      BY <2>2, <2>3 DEF Reservation!ActiveInfos
    <2>5. ~ Reservation!Conflicts(Info[t], Reservation!ActiveInfos(RackOf[t]))
      BY <2>4, ConflictsPointwise, SameRule
    <2>6. AbstractState[t] = "none"
      BY <2>1 DEF AbstractState, Active, Finished
    <2>7. AbstractState' = [AbstractState EXCEPT ![t] = "active"]
      BY <1>0, <2>1 DEF AbstractState, Active, Finished
    <2>8. QED
      BY <2>5, <2>6, <2>7 DEF Reservation!Admit
  <1>5. ASSUME NEW t \in Tasks, ActivityWrite(t)
        PROVE  [Reservation!RNext]_(Reservation!rvars)
    <2>1. /\ status' = [status EXCEPT ![t] = activity[t]]
          /\ activity[t] \in {"running", "completed", "failed"}
      BY <1>0, <1>5 DEF ActivityWrite, StoreUpdate
    <2>2. status[t] \in Active
      BY <1>1, <2>1 DEF ActivityInv, Open
    <2>3. AbstractState[t] = "active"
      BY <2>2 DEF AbstractState, Active, Finished
    <2>4. CASE activity[t] = "running"
      <3>1. AbstractState' = AbstractState
        BY <1>0, <2>1, <2>2, <2>4 DEF AbstractState, Active, Finished
      <3>2. QED
        BY <3>1 DEF Reservation!rvars
    <2>5. CASE activity[t] \in {"completed", "failed"}
      <3>1. AbstractState' = [AbstractState EXCEPT ![t] = "finished"]
        BY <1>0, <2>1, <2>5 DEF AbstractState, Active, Finished
      <3>2. Reservation!Finish(t)
        BY <2>3, <3>1 DEF Reservation!Finish
      <3>3. QED
        BY <3>2 DEF Reservation!RNext
    <2>6. QED
      BY <2>1, <2>4, <2>5
  <1>6. /\ ~ Purge /\ ~ Promote
        /\ \A t \in Tasks : /\ ~ SubmitEnqueue(t) /\ ~ MarkFailed(t) /\ ~ CancelWrite(t)
                            /\ ~ ActivityUnacked(t)
    BY <1>1, <1>2 DEF Purge, Promote, SubmitEnqueue, MarkFailed, CancelWrite, ActivityUnacked
  <1>7. QED
    BY <1>3, <1>4, <1>5, <1>6, TableEffect DEF TableKept, Reservation!RNext

(* Seen through the table, the task manager of a single client that does   *)
(* not queue or cancel is RackReservation, and so never has two            *)
(* conflicting tasks active on a rack, also when the service restarts.     *)
THEOREM Refinement ==
    ASSUME SoleClient
    PROVE  Spec => ImplementsReservation
  <1>1. Init => NoQueueInv /\ OpenInv
    BY DEF Init, NoQueueInv, OpenInv, Open, Reporting, Report
  <1>2. Init => Reservation!RInit
    <2> SUFFICES ASSUME Init
                 PROVE  Reservation!RInit
      OBVIOUS
    <2>1. AbstractState = [t \in Tasks |-> "none"]
      BY DEF Init, AbstractState, Active, Finished
    <2>2. Info \in [Tasks -> InfosOf(Tasks)]
      BY ManagerAssumption DEF InfosOf
    <2>3. QED
      BY <2>1, <2>2 DEF Reservation!RInit
  <1>3. XInv /\ XInv' /\ NoQueueInv /\ OpenInv /\ [Next]_vars => NoQueueInv' /\ OpenInv'
    BY NoQueueStep, OpenStep DEF XInv, IInv, Exclusion
  <1>4. XInv /\ NoQueueInv /\ OpenInv /\ [Next]_vars => [Reservation!RNext]_(Reservation!rvars)
    BY StepRefines DEF RefInv
  <1>5. QED
    BY <1>1, <1>2, <1>3, <1>4, ExclusionInductive, PTL
       DEF Spec, ImplementsReservation, Reservation!RSpec
=============================================================================
