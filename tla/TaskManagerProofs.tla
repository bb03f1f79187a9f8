------------------------- MODULE TaskManagerProofs --------------------------
(***************************************************************************)
(* Theorems about TaskManager, for every number of tasks, racks, clients,  *)
(* failures and restarts.                                                  *)
(***************************************************************************)
EXTENDS TaskManager, WellFoundedInduction, FiniteSetTheorems, TLAPS

(* A nonempty set of naturals has a least element.                         *)
LEMMA LeastNatural ==
    ASSUME NEW S \in SUBSET Nat, S # {}
    PROVE  \E x \in S : \A y \in S : x <= y
<1>1. \E x \in S : \A y \in S : ~ (<<y, x>> \in OpToRel(<, Nat))
  BY NatLessThanWellFounded, WFMin
<1>2. PICK x \in S : \A y \in S : ~ (<<y, x>> \in OpToRel(<, Nat))
  BY <1>1
<1>3. \A y \in S : ~ (y < x)
  BY <1>2 DEF OpToRel
<1> QED BY <1>3

(* ORDER BY created_at: the first row of a nonempty result is one of its   *)
(* rows, and none was created before it.                                   *)
LEMMA OldestIsFirst ==
    ASSUME NEW S \in SUBSET Tasks, S # {}, createdAt \in [Tasks -> Nat]
    PROVE  /\ Oldest(S) \in S
           /\ \A u \in S : createdAt[Oldest(S)] <= createdAt[u]
<1>1. { createdAt[t] : t \in S } \in SUBSET Nat
  OBVIOUS
<1>2. { createdAt[t] : t \in S } # {}
  OBVIOUS
<1>3. \E x \in { createdAt[t] : t \in S } :
        \A y \in { createdAt[t] : t \in S } : x <= y
  BY <1>1, <1>2, LeastNatural
<1>4. \E t \in S : \A u \in S : createdAt[t] <= createdAt[u]
  BY <1>3
<1> QED BY <1>4 DEF Oldest

(* Every step preserves TypeOK.                                            *)
LEMMA TypeStep == TypeOK /\ [Next]_vars => TypeOK'
<1> SUFFICES ASSUME TypeOK, [Next]_vars PROVE TypeOK'
  OBVIOUS
<1> USE ManagerAssumption DEF TypeOK, tableVars, temporalVars, promoterVars, PromoterLocal,
             boundVars, historyVars
<1>1. ASSUME NEW t \in Tasks, SubmitCheck(t) PROVE TypeOK'
  BY <1>1 DEF SubmitCheck
<1>2. ASSUME NEW t \in Tasks, SubmitReject(t) PROVE TypeOK'
  BY <1>2 DEF SubmitReject
<1>3. ASSUME NEW t \in Tasks, SubmitCount(t) PROVE TypeOK'
  BY <1>3 DEF SubmitCount
<1>4. ASSUME NEW t \in Tasks, SubmitEnqueue(t) PROVE TypeOK'
  BY <1>4 DEF SubmitEnqueue, WaitingOn, OnRack, Status, Active, Finished
<1>5. ASSUME NEW t \in Tasks, SubmitCreate(t) PROVE TypeOK'
  BY <1>5 DEF SubmitCreate, Status, Active, Finished
<1>6. ASSUME NEW t \in Tasks, SubmitFails(t) PROVE TypeOK'
  BY <1>6 DEF SubmitFails, Fault
<1>7. ASSUME NEW t \in Tasks, Execute(t) PROVE TypeOK'
  BY <1>7 DEF Execute, Reporting, Report
<1>8. ASSUME NEW t \in Tasks, MarkFailed(t) PROVE TypeOK'
  BY <1>8 DEF MarkFailed, StoreUpdate, Notify, Finished, EndRun, Status, Active
<1>9. ASSUME NEW t \in Tasks, RecordExecution(t) PROVE TypeOK'
  BY <1>9 DEF RecordExecution, EndRun
<1>10. ASSUME NEW t \in Tasks, ResolveFails(t) PROVE TypeOK'
  BY <1>10 DEF ResolveFails, Fault, EndRun
<1>11. ASSUME NEW t \in Tasks, ExecuteFails(t) PROVE TypeOK'
  BY <1>11 DEF ExecuteFails, Fault, Reporting, Report
<1>12. ASSUME NEW t \in Tasks, RunWriteFails(t) PROVE TypeOK'
  BY <1>12 DEF RunWriteFails, Fault, EndRun
<1>13. ASSUME NEW t \in Tasks, CancelLoad(t) PROVE TypeOK'
  BY <1>13 DEF CancelLoad
<1>14. ASSUME NEW t \in Tasks, CancelTerminate(t) PROVE TypeOK'
  BY <1>14 DEF CancelTerminate, Reporting, Report
<1>15. ASSUME NEW t \in Tasks, CancelWrite(t) PROVE TypeOK'
  BY <1>15 DEF CancelWrite, StoreUpdate, Notify, Finished, Status, Active
<1>16. ASSUME NEW t \in Tasks, CancelFails(t) PROVE TypeOK'
  BY <1>16 DEF CancelFails, Fault
<1>17. ASSUME NEW t \in Tasks, ActivityStart(t) PROVE TypeOK'
  BY <1>17 DEF ActivityStart, Reporting, Report, Reported
<1>18. ASSUME NEW t \in Tasks, ActivityWrite(t) PROVE TypeOK'
  BY <1>18 DEF ActivityWrite, StoreUpdate, Notify, Finished, Reporting, Report, Reported, Status, Active
<1>19. ASSUME NEW t \in Tasks, Operate(t) PROVE TypeOK'
  BY <1>19 DEF Operate, Reporting, Report, Reported
<1>20. ASSUME NEW t \in Tasks, ActivityUnacked(t) PROVE TypeOK'
  BY <1>20 DEF ActivityUnacked, StoreUpdate, Notify, Finished, Fault, Status, Active
<1>21. ASSUME NEW t \in Tasks, ActivityGivesUp(t) PROVE TypeOK'
  BY <1>21 DEF ActivityGivesUp, Fault, Reporting, Report, Reported
<1>22. ASSUME NEW t \in Tasks, WorkflowTimeout(t) PROVE TypeOK'
  BY <1>22 DEF WorkflowTimeout, Fault, Reporting, Report, Reported
<1>23. ASSUME NEW t \in Tasks, Expire(t) PROVE TypeOK'
  BY <1>23 DEF Expire
<1>24. CASE Sweep
  BY <1>24 DEF Sweep, RacksWithWaiting
<1>25. CASE Notified
  BY <1>25 DEF Notified
<1>26. CASE LoopDone
  BY <1>26 DEF LoopDone
<1>27. CASE Purge
  BY <1>27 DEF Purge, Status, Active, Finished
<1>28. CASE ListActive
  BY <1>28 DEF ListActive, ActiveOn, OnRack
<1>29. CASE Promote
  BY <1>29, OldestIsFirst DEF Promote, Status, Active, Finished
<1>30. CASE StopPromoting
  BY <1>30 DEF StopPromoting
<1>31. CASE ExecutePromoted
  BY <1>31, OldestIsFirst DEF ExecutePromoted
<1>32. CASE RackDone
  BY <1>32 DEF RackDone
<1>33. CASE PurgeFails
  BY <1>33 DEF PurgeFails, Fault
<1>34. CASE PromoteFails
  BY <1>34 DEF PromoteFails, Fault
<1>35. CASE Crash
  BY <1>35 DEF Crash
<1>36. ASSUME NEW r \in Racks, ListWaiting(r) PROVE TypeOK'
  BY <1>36 DEF ListWaiting, WaitingOn, OnRack
<1>37. ASSUME NEW r \in Racks, ListWaitingFails(r) PROVE TypeOK'
  BY <1>37 DEF ListWaitingFails, Fault
<1>38. CASE UNCHANGED vars
  BY <1>38 DEF vars
<1> QED
  BY <1>1, <1>2, <1>3, <1>4, <1>5, <1>6, <1>7, <1>8, <1>9, <1>10, <1>11,
     <1>12, <1>13, <1>14, <1>15, <1>16, <1>17, <1>18, <1>19, <1>20, <1>21,
     <1>22, <1>23, <1>24, <1>25, <1>26, <1>27, <1>28, <1>29, <1>30, <1>31,
     <1>32, <1>33, <1>34, <1>35, <1>36, <1>37, <1>38
  DEF Next, Submit, Run, RunFails, Cancel, Workflow, WorkflowFails, Promoter,
      PromoterFails

-----------------------------------------------------------------------------
(* The inductive invariant.  AtMostOneExecution alone is not inductive: it *)
(* does not say where the caller of Execute got its task from.             *)

(* createAndExecuteTask has committed the row of t, or has given up.       *)
Created(t) == sub[t] \in {"executing", "done"}

(* Nobody but its own SubmitTask call knows a task that is not created.    *)
UncreatedUnknown ==
    \A t \in Tasks : ~ Created(t) =>
        /\ status[t] = "none" /\ run[t] = "no" /\ cancel[t] = "idle"
        /\ t \notin executed \cup pExpired \cup pCand \cup pExec

(* Only an executed task has a workflow, an activity or an execution_id.   *)
WorkflowsExecuted ==
    \A t \in Tasks :
        (\/ wf[t] # "none" \/ activity[t] # "none"
         \/ run[t] = "scheduled" \/ execId[t] \/ cancel[t] = "terminate")
            => t \in executed

(* Nobody runs a task that is waiting, or that the promoter still takes    *)
(* for waiting (it may have been cancelled since).                         *)
WaitingUnclaimed ==
    \A t \in Tasks : (status[t] = "waiting" \/ t \in pCand) =>
        run[t] = "no" /\ t \notin executed \cup pExec

(* Nobody else runs a task that the promoter has promoted.                 *)
PromotedUnclaimed == \A t \in pExec : run[t] = "no" /\ t \notin executed

(* created_at never lies ahead of the clock.                               *)
CreatedInPast == \A t \in Tasks : createdAt[t] <= clock

(* What ahead records of t was created before t, on its rack.              *)
AheadIsOlder ==
    \A t \in Tasks : \A u \in ahead[t] :
        Created(u) /\ RackOf[u] = RackOf[t] /\ createdAt[u] < createdAt[t]

(* If t is a candidate, so is what still waits ahead of it.                *)
CandidatesComplete ==
    \A t \in pCand : \A u \in ahead[t] \ expired :
        status[u] = "waiting" => u \in pCand

(* A client has at most one call in progress.                              *)
InCall(t) == sub[t] \in {"conflict", "clear", "enqueue", "executing"}
OneCallPerClient ==
    \A t, u \in Tasks :
        (InCall(t) /\ InCall(u) /\ ClientOf[t] = ClientOf[u]) => t = u

Ownership ==
    /\ UncreatedUnknown /\ WorkflowsExecuted
    /\ WaitingUnclaimed /\ PromotedUnclaimed /\ AtMostOneExecution

Order == CreatedInPast /\ AheadIsOlder /\ CandidatesComplete

IInv == TypeOK /\ Ownership /\ Order /\ OneCallPerClient /\ QueueBoundSlack


(* Every step preserves the part of IInv that says who holds a task.       *)
LEMMA OwnershipStep == TypeOK /\ Ownership /\ [Next]_vars => Ownership'
<1> SUFFICES ASSUME TypeOK, Ownership, [Next]_vars PROVE Ownership'
  OBVIOUS
<1> USE ManagerAssumption
       DEF TypeOK, Ownership, UncreatedUnknown, Created, WorkflowsExecuted,
           WaitingUnclaimed, PromotedUnclaimed, AtMostOneExecution, tableVars, temporalVars, promoterVars, PromoterLocal,
             boundVars, historyVars
<1>1. ASSUME NEW t \in Tasks, SubmitCheck(t) PROVE Ownership'
  BY <1>1 DEF SubmitCheck, WaitingOn, OnRack
<1>2. ASSUME NEW t \in Tasks, SubmitReject(t) PROVE Ownership'
  BY <1>2 DEF SubmitReject
<1>3. ASSUME NEW t \in Tasks, SubmitCount(t) PROVE Ownership'
  BY <1>3 DEF SubmitCount
<1>4. ASSUME NEW t \in Tasks, SubmitEnqueue(t) PROVE Ownership'
  <2>1. run[t] = "no" /\ t \notin executed \cup pCand \cup pExec
    BY <1>4 DEF SubmitEnqueue
  <2>2. UncreatedUnknown'
    BY <1>4, <2>1 DEF SubmitEnqueue
  <2>3. WorkflowsExecuted'
    BY <1>4, <2>1 DEF SubmitEnqueue
  <2>4. WaitingUnclaimed'
    BY <1>4, <2>1 DEF SubmitEnqueue
  <2>5. PromotedUnclaimed'
    BY <1>4, <2>1 DEF SubmitEnqueue
  <2>6. AtMostOneExecution'
    BY <1>4, <2>1 DEF SubmitEnqueue
  <2> QED BY <2>2, <2>3, <2>4, <2>5, <2>6
<1>5. ASSUME NEW t \in Tasks, SubmitCreate(t) PROVE Ownership'
  <2>1. run[t] = "no" /\ t \notin executed \cup pCand \cup pExec
    BY <1>5 DEF SubmitCreate
  <2>2. UncreatedUnknown'
    BY <1>5, <2>1 DEF SubmitCreate
  <2>3. WorkflowsExecuted'
    BY <1>5, <2>1 DEF SubmitCreate
  <2>4. WaitingUnclaimed'
    BY <1>5, <2>1 DEF SubmitCreate
  <2>5. PromotedUnclaimed'
    BY <1>5, <2>1 DEF SubmitCreate
  <2>6. AtMostOneExecution'
    BY <1>5, <2>1 DEF SubmitCreate
  <2> QED BY <2>2, <2>3, <2>4, <2>5, <2>6
<1>6. ASSUME NEW t \in Tasks, SubmitFails(t) PROVE Ownership'
  BY <1>6 DEF SubmitFails, Fault
<1>7. ASSUME NEW t \in Tasks, Execute(t) PROVE Ownership'
  BY <1>7 DEF Execute
<1>8. ASSUME NEW t \in Tasks, MarkFailed(t) PROVE Ownership'
  BY <1>8 DEF MarkFailed, StoreUpdate, EndRun, Finished
<1>9. ASSUME NEW t \in Tasks, RecordExecution(t) PROVE Ownership'
  BY <1>9 DEF RecordExecution, EndRun
<1>10. ASSUME NEW t \in Tasks, ResolveFails(t) PROVE Ownership'
  BY <1>10 DEF ResolveFails, Fault, EndRun
<1>11. ASSUME NEW t \in Tasks, ExecuteFails(t) PROVE Ownership'
  BY <1>11 DEF ExecuteFails, Fault
<1>12. ASSUME NEW t \in Tasks, RunWriteFails(t) PROVE Ownership'
  BY <1>12 DEF RunWriteFails, Fault, EndRun
<1>13. ASSUME NEW t \in Tasks, CancelLoad(t) PROVE Ownership'
  BY <1>13 DEF CancelLoad, Active
<1>14. ASSUME NEW t \in Tasks, CancelTerminate(t) PROVE Ownership'
  BY <1>14 DEF CancelTerminate
<1>15. ASSUME NEW t \in Tasks, CancelWrite(t) PROVE Ownership'
  BY <1>15 DEF CancelWrite, StoreUpdate, Finished
<1>16. ASSUME NEW t \in Tasks, CancelFails(t) PROVE Ownership'
  BY <1>16 DEF CancelFails, Fault
<1>17. ASSUME NEW t \in Tasks, ActivityStart(t) PROVE Ownership'
  BY <1>17 DEF ActivityStart, Reporting, Report
<1>18. ASSUME NEW t \in Tasks, ActivityWrite(t) PROVE Ownership'
  BY <1>18 DEF ActivityWrite, StoreUpdate, Reporting, Report, Finished
<1>19. ASSUME NEW t \in Tasks, Operate(t) PROVE Ownership'
  BY <1>19 DEF Operate, Reporting, Report
<1>20. ASSUME NEW t \in Tasks, ActivityUnacked(t) PROVE Ownership'
  BY <1>20 DEF ActivityUnacked, StoreUpdate, Fault, Finished
<1>21. ASSUME NEW t \in Tasks, ActivityGivesUp(t) PROVE Ownership'
  BY <1>21 DEF ActivityGivesUp, Fault, Reporting, Report
<1>22. ASSUME NEW t \in Tasks, WorkflowTimeout(t) PROVE Ownership'
  BY <1>22 DEF WorkflowTimeout, Fault, Reporting, Report
<1>23. ASSUME NEW t \in Tasks, Expire(t) PROVE Ownership'
  BY <1>23 DEF Expire
<1>24. CASE Sweep
  BY <1>24 DEF Sweep, RacksWithWaiting
<1>25. CASE Notified
  BY <1>25 DEF Notified
<1>26. CASE LoopDone
  BY <1>26 DEF LoopDone
<1>27. CASE Purge
  <2>1. Oldest(pExpired) \in pExpired
    BY <1>27, OldestIsFirst DEF Purge
  <2> QED BY <1>27, <2>1 DEF Purge
<1>28. CASE ListActive
  BY <1>28 DEF ListActive
<1>29. CASE Promote
  <2>1. Oldest(pCand) \in pCand
    BY <1>29, OldestIsFirst DEF Promote
  <2>2. UncreatedUnknown'
    BY <1>29, <2>1 DEF Promote
  <2>3. WorkflowsExecuted'
    BY <1>29, <2>1 DEF Promote
  <2>4. WaitingUnclaimed'
    BY <1>29, <2>1 DEF Promote
  <2>5. PromotedUnclaimed'
    BY <1>29, <2>1 DEF Promote
  <2>6. AtMostOneExecution'
    BY <1>29, <2>1 DEF Promote
  <2> QED BY <2>2, <2>3, <2>4, <2>5, <2>6
<1>30. CASE StopPromoting
  BY <1>30 DEF StopPromoting
<1>31. CASE ExecutePromoted
  <2>1. Oldest(pExec) \in pExec
    BY <1>31, OldestIsFirst DEF ExecutePromoted
  <2>2. UncreatedUnknown'
    BY <1>31, <2>1 DEF ExecutePromoted
  <2>3. WorkflowsExecuted'
    BY <1>31, <2>1 DEF ExecutePromoted
  <2>4. WaitingUnclaimed'
    BY <1>31, <2>1 DEF ExecutePromoted
  <2>5. PromotedUnclaimed'
    BY <1>31, <2>1 DEF ExecutePromoted
  <2>6. AtMostOneExecution'
    BY <1>31, <2>1 DEF ExecutePromoted
  <2> QED BY <2>2, <2>3, <2>4, <2>5, <2>6
<1>32. CASE RackDone
  BY <1>32 DEF RackDone
<1>33. CASE PurgeFails
  BY <1>33 DEF PurgeFails, Fault
<1>34. CASE PromoteFails
  BY <1>34 DEF PromoteFails, Fault
<1>35. CASE Crash
  BY <1>35 DEF Crash
<1>36. ASSUME NEW r \in Racks, ListWaiting(r) PROVE Ownership'
  BY <1>36 DEF ListWaiting, WaitingOn, OnRack
<1>37. ASSUME NEW r \in Racks, ListWaitingFails(r) PROVE Ownership'
  BY <1>37 DEF ListWaitingFails, Fault
<1>38. CASE UNCHANGED vars
  BY <1>38 DEF vars
<1> QED
  BY <1>1, <1>2, <1>3, <1>4, <1>5, <1>6, <1>7, <1>8, <1>9, <1>10, <1>11,
     <1>12, <1>13, <1>14, <1>15, <1>16, <1>17, <1>18, <1>19, <1>20, <1>21,
     <1>22, <1>23, <1>24, <1>25, <1>26, <1>27, <1>28, <1>29, <1>30, <1>31,
     <1>32, <1>33, <1>34, <1>35, <1>36, <1>37, <1>38
  DEF Next, Submit, Run, RunFails, Cancel, Workflow, WorkflowFails, Promoter,
      PromoterFails
(* Every step preserves the part of IInv about the order of the queue.     *)
LEMMA OrderStep == TypeOK /\ Ownership /\ Order /\ [Next]_vars => Order'
<1> SUFFICES ASSUME TypeOK, Ownership, Order, [Next]_vars PROVE Order'
  OBVIOUS
<1> USE ManagerAssumption
       DEF TypeOK, Ownership, UncreatedUnknown, Order, CreatedInPast,
           AheadIsOlder, CandidatesComplete, Created, tableVars, temporalVars, promoterVars, PromoterLocal,
           boundVars, historyVars
<1>1. ASSUME NEW t \in Tasks, SubmitCheck(t) PROVE Order'
  <2>1. clock' = clock + 1 /\ createdAt'[t] = clock + 1
    BY <1>1 DEF SubmitCheck
  <2>2. ahead' = ahead /\ \A u \in Tasks : u # t => createdAt'[u] = createdAt[u]
    BY <1>1 DEF SubmitCheck
  <2>3. ~ Created(t) /\ t \notin pCand /\ \A u \in Tasks : Created(u) => Created(u)'
    BY <1>1 DEF SubmitCheck
  <2>4. \A v \in Tasks : \A u \in ahead[v] : u \in Tasks /\ u # t
    BY <2>3
  <2>5. CreatedInPast'
    <3> SUFFICES ASSUME NEW u \in Tasks PROVE createdAt'[u] <= clock'
      OBVIOUS
    <3>1. createdAt[u] \in Nat /\ createdAt[u] <= clock /\ clock \in Nat
      OBVIOUS
    <3>2. CASE u = t
      BY <2>1, <3>1, <3>2
    <3>3. CASE u # t
      BY <2>1, <2>2, <3>1, <3>3
    <3> QED BY <3>2, <3>3
  <2>6. AheadIsOlder'
    <3> SUFFICES ASSUME NEW v \in Tasks, NEW u \in ahead'[v]
                 PROVE  Created(u)' /\ RackOf[u] = RackOf[v] /\ createdAt'[u] < createdAt'[v]
      OBVIOUS
    <3>1. u \in ahead[v] /\ u \in Tasks /\ u # t
      BY <2>2, <2>4
    <3>2. createdAt[u] \in Nat /\ createdAt[u] <= clock /\ clock \in Nat
      BY <3>1
    <3>3. createdAt'[u] = createdAt[u] /\ Created(u)' /\ RackOf[u] = RackOf[v]
      BY <2>2, <2>3, <3>1
    <3>4. CASE v = t
      BY <2>1, <3>2, <3>3, <3>4
    <3>5. CASE v # t
      BY <2>2, <3>1, <3>3, <3>5
    <3> QED BY <3>3, <3>4, <3>5
  <2>7. CandidatesComplete'
    BY <1>1, <2>2, <2>3 DEF SubmitCheck
  <2> QED BY <2>5, <2>6, <2>7
<1>2. ASSUME NEW t \in Tasks, SubmitReject(t) PROVE Order'
  BY <1>2 DEF SubmitReject
<1>3. ASSUME NEW t \in Tasks, SubmitCount(t) PROVE Order'
  BY <1>3 DEF SubmitCount
<1>4. ASSUME NEW t \in Tasks, SubmitEnqueue(t) PROVE Order'
  <2>1. ~ Created(t) /\ \A u \in Tasks : Created(u) => Created(u)'
    BY <1>4 DEF SubmitEnqueue
  <2>2. \A u \in ahead'[t] : /\ u \in Tasks /\ Created(u)
                            /\ RackOf[u] = RackOf[t] /\ createdAt[u] < createdAt[t]
    BY <1>4 DEF SubmitEnqueue, WaitingOn, OnRack
  <2>3. \A v \in Tasks : v # t => ahead'[v] = ahead[v]
    BY <1>4 DEF SubmitEnqueue
  <2>4. CreatedInPast'
    BY <1>4 DEF SubmitEnqueue
  <2>5. AheadIsOlder'
    <3> SUFFICES ASSUME NEW v \in Tasks, NEW u \in ahead'[v]
                 PROVE  Created(u)' /\ RackOf[u] = RackOf[v] /\ createdAt[u] < createdAt[v]
      BY <1>4 DEF SubmitEnqueue
    <3>1. CASE v = t
      BY <2>1, <2>2, <3>1
    <3>2. CASE v # t
      BY <2>1, <2>3, <3>2
    <3> QED BY <3>1, <3>2
  <2>6. CandidatesComplete'
    <3> SUFFICES ASSUME NEW v \in pCand, NEW u \in ahead'[v] \ expired,
                        status'[u] = "waiting"
                 PROVE  u \in pCand
      BY <1>4 DEF SubmitEnqueue
    <3>1. v \in Tasks /\ v # t
      BY <2>1
    <3>2. u \in ahead[v] /\ u \in Tasks /\ u # t
      BY <2>1, <2>3, <3>1
    <3>3. status[u] = "waiting"
      BY <1>4, <3>2 DEF SubmitEnqueue
    <3> QED BY <3>2, <3>3
  <2> QED BY <2>4, <2>5, <2>6
<1>5. ASSUME NEW t \in Tasks, SubmitCreate(t) PROVE Order'
  BY <1>5 DEF SubmitCreate
<1>6. ASSUME NEW t \in Tasks, SubmitFails(t) PROVE Order'
  BY <1>6 DEF SubmitFails, Fault
<1>7. ASSUME NEW t \in Tasks, Execute(t) PROVE Order'
  BY <1>7 DEF Execute
<1>8. ASSUME NEW t \in Tasks, MarkFailed(t) PROVE Order'
  BY <1>8 DEF MarkFailed, StoreUpdate, EndRun
<1>9. ASSUME NEW t \in Tasks, RecordExecution(t) PROVE Order'
  BY <1>9 DEF RecordExecution, EndRun
<1>10. ASSUME NEW t \in Tasks, ResolveFails(t) PROVE Order'
  BY <1>10 DEF ResolveFails, Fault, EndRun
<1>11. ASSUME NEW t \in Tasks, ExecuteFails(t) PROVE Order'
  BY <1>11 DEF ExecuteFails, Fault
<1>12. ASSUME NEW t \in Tasks, RunWriteFails(t) PROVE Order'
  BY <1>12 DEF RunWriteFails, Fault, EndRun
<1>13. ASSUME NEW t \in Tasks, CancelLoad(t) PROVE Order'
  BY <1>13 DEF CancelLoad
<1>14. ASSUME NEW t \in Tasks, CancelTerminate(t) PROVE Order'
  BY <1>14 DEF CancelTerminate
<1>15. ASSUME NEW t \in Tasks, CancelWrite(t) PROVE Order'
  BY <1>15 DEF CancelWrite, StoreUpdate
<1>16. ASSUME NEW t \in Tasks, CancelFails(t) PROVE Order'
  BY <1>16 DEF CancelFails, Fault
<1>17. ASSUME NEW t \in Tasks, ActivityStart(t) PROVE Order'
  BY <1>17 DEF ActivityStart
<1>18. ASSUME NEW t \in Tasks, ActivityWrite(t) PROVE Order'
  <2>1. \A u \in Tasks : status'[u] = "waiting" => status[u] = "waiting"
    BY <1>18 DEF ActivityWrite, StoreUpdate
  <2> QED BY <1>18, <2>1 DEF ActivityWrite, StoreUpdate
<1>19. ASSUME NEW t \in Tasks, Operate(t) PROVE Order'
  BY <1>19 DEF Operate
<1>20. ASSUME NEW t \in Tasks, ActivityUnacked(t) PROVE Order'
  <2>1. \A u \in Tasks : status'[u] = "waiting" => status[u] = "waiting"
    BY <1>20 DEF ActivityUnacked, StoreUpdate
  <2> QED BY <1>20, <2>1 DEF ActivityUnacked, StoreUpdate, Fault
<1>21. ASSUME NEW t \in Tasks, ActivityGivesUp(t) PROVE Order'
  BY <1>21 DEF ActivityGivesUp, Fault
<1>22. ASSUME NEW t \in Tasks, WorkflowTimeout(t) PROVE Order'
  BY <1>22 DEF WorkflowTimeout, Fault
<1>23. ASSUME NEW t \in Tasks, Expire(t) PROVE Order'
  BY <1>23 DEF Expire
<1>24. CASE Sweep
  BY <1>24 DEF Sweep
<1>25. CASE Notified
  BY <1>25 DEF Notified
<1>26. CASE LoopDone
  BY <1>26 DEF LoopDone
<1>27. CASE Purge
  BY <1>27 DEF Purge
<1>28. CASE ListActive
  BY <1>28 DEF ListActive
<1>29. CASE Promote
  <2>1. Oldest(pCand) \in pCand
    BY <1>29, OldestIsFirst DEF Promote
  <2> QED BY <1>29, <2>1 DEF Promote
<1>30. CASE StopPromoting
  BY <1>30 DEF StopPromoting
<1>31. CASE ExecutePromoted
  BY <1>31 DEF ExecutePromoted
<1>32. CASE RackDone
  BY <1>32 DEF RackDone
<1>33. CASE PurgeFails
  BY <1>33 DEF PurgeFails, Fault
<1>34. CASE PromoteFails
  BY <1>34 DEF PromoteFails, Fault
<1>35. CASE Crash
  BY <1>35 DEF Crash
<1>36. ASSUME NEW r \in Racks, ListWaiting(r) PROVE Order'
  BY <1>36 DEF ListWaiting, WaitingOn, OnRack
<1>37. ASSUME NEW r \in Racks, ListWaitingFails(r) PROVE Order'
  BY <1>37 DEF ListWaitingFails, Fault
<1>38. CASE UNCHANGED vars
  BY <1>38 DEF vars
<1> QED
  BY <1>1, <1>2, <1>3, <1>4, <1>5, <1>6, <1>7, <1>8, <1>9, <1>10, <1>11,
     <1>12, <1>13, <1>14, <1>15, <1>16, <1>17, <1>18, <1>19, <1>20, <1>21,
     <1>22, <1>23, <1>24, <1>25, <1>26, <1>27, <1>28, <1>29, <1>30, <1>31,
     <1>32, <1>33, <1>34, <1>35, <1>36, <1>37, <1>38
  DEF Next, Submit, Run, RunFails, Cancel, Workflow, WorkflowFails, Promoter,
      PromoterFails

(* Every step leaves a client with at most one call in progress.           *)
LEMMA CallsStep == TypeOK /\ OneCallPerClient /\ [Next]_vars => OneCallPerClient'
<1> SUFFICES ASSUME TypeOK, OneCallPerClient, [Next]_vars PROVE OneCallPerClient'
  OBVIOUS
<1> USE ManagerAssumption DEF TypeOK, OneCallPerClient, InCall, tableVars, temporalVars, promoterVars, PromoterLocal,
             boundVars, historyVars
<1>1. ASSUME NEW t \in Tasks, SubmitCheck(t) PROVE OneCallPerClient'
  BY <1>1 DEF SubmitCheck
<1>2. ASSUME NEW t \in Tasks, SubmitReject(t) PROVE OneCallPerClient'
  BY <1>2 DEF SubmitReject
<1>3. ASSUME NEW t \in Tasks, SubmitCount(t) PROVE OneCallPerClient'
  BY <1>3 DEF SubmitCount
<1>4. ASSUME NEW t \in Tasks, SubmitEnqueue(t) PROVE OneCallPerClient'
  BY <1>4 DEF SubmitEnqueue
<1>5. ASSUME NEW t \in Tasks, SubmitCreate(t) PROVE OneCallPerClient'
  BY <1>5 DEF SubmitCreate
<1>6. ASSUME NEW t \in Tasks, SubmitFails(t) PROVE OneCallPerClient'
  BY <1>6 DEF SubmitFails
<1>7. ASSUME NEW t \in Tasks, Execute(t) PROVE OneCallPerClient'
  BY <1>7 DEF Execute
<1>8. ASSUME NEW t \in Tasks, MarkFailed(t) PROVE OneCallPerClient'
  BY <1>8 DEF MarkFailed, EndRun
<1>9. ASSUME NEW t \in Tasks, RecordExecution(t) PROVE OneCallPerClient'
  BY <1>9 DEF RecordExecution, EndRun
<1>10. ASSUME NEW t \in Tasks, ResolveFails(t) PROVE OneCallPerClient'
  BY <1>10 DEF ResolveFails, EndRun
<1>11. ASSUME NEW t \in Tasks, ExecuteFails(t) PROVE OneCallPerClient'
  BY <1>11 DEF ExecuteFails
<1>12. ASSUME NEW t \in Tasks, RunWriteFails(t) PROVE OneCallPerClient'
  BY <1>12 DEF RunWriteFails, EndRun
<1>13. ASSUME NEW t \in Tasks, CancelLoad(t) PROVE OneCallPerClient'
  BY <1>13 DEF CancelLoad
<1>14. ASSUME NEW t \in Tasks, CancelTerminate(t) PROVE OneCallPerClient'
  BY <1>14 DEF CancelTerminate
<1>15. ASSUME NEW t \in Tasks, CancelWrite(t) PROVE OneCallPerClient'
  BY <1>15 DEF CancelWrite
<1>16. ASSUME NEW t \in Tasks, CancelFails(t) PROVE OneCallPerClient'
  BY <1>16 DEF CancelFails
<1>17. ASSUME NEW t \in Tasks, ActivityStart(t) PROVE OneCallPerClient'
  BY <1>17 DEF ActivityStart
<1>18. ASSUME NEW t \in Tasks, ActivityWrite(t) PROVE OneCallPerClient'
  BY <1>18 DEF ActivityWrite
<1>19. ASSUME NEW t \in Tasks, Operate(t) PROVE OneCallPerClient'
  BY <1>19 DEF Operate
<1>20. ASSUME NEW t \in Tasks, ActivityUnacked(t) PROVE OneCallPerClient'
  BY <1>20 DEF ActivityUnacked
<1>21. ASSUME NEW t \in Tasks, ActivityGivesUp(t) PROVE OneCallPerClient'
  BY <1>21 DEF ActivityGivesUp
<1>22. ASSUME NEW t \in Tasks, WorkflowTimeout(t) PROVE OneCallPerClient'
  BY <1>22 DEF WorkflowTimeout
<1>23. ASSUME NEW t \in Tasks, Expire(t) PROVE OneCallPerClient'
  BY <1>23 DEF Expire
<1>24. CASE Sweep
  BY <1>24 DEF Sweep
<1>25. CASE Notified
  BY <1>25 DEF Notified
<1>26. CASE LoopDone
  BY <1>26 DEF LoopDone
<1>27. CASE Purge
  BY <1>27 DEF Purge
<1>28. CASE ListActive
  BY <1>28 DEF ListActive
<1>29. CASE Promote
  BY <1>29 DEF Promote
<1>30. CASE StopPromoting
  BY <1>30 DEF StopPromoting
<1>31. CASE ExecutePromoted
  BY <1>31 DEF ExecutePromoted
<1>32. CASE RackDone
  BY <1>32 DEF RackDone
<1>33. CASE PurgeFails
  BY <1>33 DEF PurgeFails
<1>34. CASE PromoteFails
  BY <1>34 DEF PromoteFails
<1>35. CASE Crash
  BY <1>35 DEF Crash
<1>36. ASSUME NEW r \in Racks, ListWaiting(r) PROVE OneCallPerClient'
  BY <1>36 DEF ListWaiting
<1>37. ASSUME NEW r \in Racks, ListWaitingFails(r) PROVE OneCallPerClient'
  BY <1>37 DEF ListWaitingFails
<1>38. CASE UNCHANGED vars
  BY <1>38 DEF vars
<1> QED
  BY <1>1, <1>2, <1>3, <1>4, <1>5, <1>6, <1>7, <1>8, <1>9, <1>10, <1>11,
     <1>12, <1>13, <1>14, <1>15, <1>16, <1>17, <1>18, <1>19, <1>20, <1>21,
     <1>22, <1>23, <1>24, <1>25, <1>26, <1>27, <1>28, <1>29, <1>30, <1>31,
     <1>32, <1>33, <1>34, <1>35, <1>36, <1>37, <1>38
  DEF Next, Submit, Run, RunFails, Cancel, Workflow, WorkflowFails, Promoter,
      PromoterFails

-----------------------------------------------------------------------------
(* Counting the queue. *)

(* No rack gets a task that it did not have in its queue.                  *)
NothingQueued == \A r \in Racks : Queued(r)' \subseteq Queued(r)

(* Only the step that counts the queue of a rack adds to it.               *)
LEMMA QueuedShrinks ==
    TypeOK /\ [Next]_vars =>
        (\E t \in Tasks : SubmitCount(t)) \/ NothingQueued
<1> SUFFICES ASSUME TypeOK, ~ (\E t \in Tasks : SubmitCount(t)), [Next]_vars
             PROVE  NothingQueued
  OBVIOUS
<1> USE DEF NothingQueued, Queued, TypeOK, WaitingOn, Enqueueing, OnRack, tableVars, temporalVars, promoterVars, PromoterLocal,
             boundVars, historyVars
<1>1. ASSUME NEW t \in Tasks, SubmitCheck(t) PROVE NothingQueued
  BY <1>1 DEF SubmitCheck
<1>2. ASSUME NEW t \in Tasks, SubmitReject(t) PROVE NothingQueued
  BY <1>2 DEF SubmitReject
<1>3. ASSUME NEW t \in Tasks, SubmitCount(t) PROVE NothingQueued
  BY <1>3
<1>4. ASSUME NEW t \in Tasks, SubmitEnqueue(t) PROVE NothingQueued
  BY <1>4 DEF SubmitEnqueue
<1>5. ASSUME NEW t \in Tasks, SubmitCreate(t) PROVE NothingQueued
  BY <1>5 DEF SubmitCreate
<1>6. ASSUME NEW t \in Tasks, SubmitFails(t) PROVE NothingQueued
  BY <1>6 DEF SubmitFails
<1>7. ASSUME NEW t \in Tasks, Execute(t) PROVE NothingQueued
  BY <1>7 DEF Execute
<1>8. ASSUME NEW t \in Tasks, MarkFailed(t) PROVE NothingQueued
  BY <1>8 DEF MarkFailed, StoreUpdate, EndRun
<1>9. ASSUME NEW t \in Tasks, RecordExecution(t) PROVE NothingQueued
  BY <1>9 DEF RecordExecution, EndRun
<1>10. ASSUME NEW t \in Tasks, ResolveFails(t) PROVE NothingQueued
  BY <1>10 DEF ResolveFails, EndRun
<1>11. ASSUME NEW t \in Tasks, ExecuteFails(t) PROVE NothingQueued
  BY <1>11 DEF ExecuteFails
<1>12. ASSUME NEW t \in Tasks, RunWriteFails(t) PROVE NothingQueued
  BY <1>12 DEF RunWriteFails, EndRun
<1>13. ASSUME NEW t \in Tasks, CancelLoad(t) PROVE NothingQueued
  BY <1>13 DEF CancelLoad
<1>14. ASSUME NEW t \in Tasks, CancelTerminate(t) PROVE NothingQueued
  BY <1>14 DEF CancelTerminate
<1>15. ASSUME NEW t \in Tasks, CancelWrite(t) PROVE NothingQueued
  BY <1>15 DEF CancelWrite, StoreUpdate
<1>16. ASSUME NEW t \in Tasks, CancelFails(t) PROVE NothingQueued
  BY <1>16 DEF CancelFails
<1>17. ASSUME NEW t \in Tasks, ActivityStart(t) PROVE NothingQueued
  BY <1>17 DEF ActivityStart
<1>18. ASSUME NEW t \in Tasks, ActivityWrite(t) PROVE NothingQueued
  BY <1>18 DEF ActivityWrite, StoreUpdate
<1>19. ASSUME NEW t \in Tasks, Operate(t) PROVE NothingQueued
  BY <1>19 DEF Operate
<1>20. ASSUME NEW t \in Tasks, ActivityUnacked(t) PROVE NothingQueued
  BY <1>20 DEF ActivityUnacked, StoreUpdate
<1>21. ASSUME NEW t \in Tasks, ActivityGivesUp(t) PROVE NothingQueued
  BY <1>21 DEF ActivityGivesUp
<1>22. ASSUME NEW t \in Tasks, WorkflowTimeout(t) PROVE NothingQueued
  BY <1>22 DEF WorkflowTimeout
<1>23. ASSUME NEW t \in Tasks, Expire(t) PROVE NothingQueued
  BY <1>23 DEF Expire
<1>24. CASE Sweep
  BY <1>24 DEF Sweep
<1>25. CASE Notified
  BY <1>25 DEF Notified
<1>26. CASE LoopDone
  BY <1>26 DEF LoopDone
<1>27. CASE Purge
  BY <1>27 DEF Purge
<1>28. CASE ListActive
  BY <1>28 DEF ListActive
<1>29. CASE Promote
  <2>1. Oldest(pCand) \in pCand
    BY <1>29, OldestIsFirst DEF Promote
  <2> QED BY <1>29, <2>1 DEF Promote
<1>30. CASE StopPromoting
  BY <1>30 DEF StopPromoting
<1>31. CASE ExecutePromoted
  BY <1>31 DEF ExecutePromoted
<1>32. CASE RackDone
  BY <1>32 DEF RackDone
<1>33. CASE PurgeFails
  BY <1>33 DEF PurgeFails
<1>34. CASE PromoteFails
  BY <1>34 DEF PromoteFails
<1>35. CASE Crash
  BY <1>35 DEF Crash
<1>36. ASSUME NEW r \in Racks, ListWaiting(r) PROVE NothingQueued
  BY <1>36 DEF ListWaiting
<1>37. ASSUME NEW r \in Racks, ListWaitingFails(r) PROVE NothingQueued
  BY <1>37 DEF ListWaitingFails
<1>38. CASE UNCHANGED vars
  BY <1>38 DEF vars
<1> QED
  BY <1>1, <1>2, <1>3, <1>4, <1>5, <1>6, <1>7, <1>8, <1>9, <1>10, <1>11,
     <1>12, <1>13, <1>14, <1>15, <1>16, <1>17, <1>18, <1>19, <1>20, <1>21,
     <1>22, <1>23, <1>24, <1>25, <1>26, <1>27, <1>28, <1>29, <1>30, <1>31,
     <1>32, <1>33, <1>34, <1>35, <1>36, <1>37, <1>38
  DEF Next, Submit, Run, RunFails, Cancel, Workflow, WorkflowFails, Promoter,
      PromoterFails

(* Every step preserves QueueBoundSlack.                                   *)
LEMMA SlackStep ==
    TypeOK /\ OneCallPerClient /\ QueueBoundSlack /\ [Next]_vars => QueueBoundSlack'
<1> SUFFICES ASSUME TypeOK, OneCallPerClient, QueueBoundSlack, [Next]_vars,
                    NEW r \in Racks, NEW S \in SUBSET (Queued(r)'), S # {}
             PROVE  Cardinality(S) < MaxWaiting + Cardinality(ClientsOf(S))
  BY DEF QueueBoundSlack, ClientsOf
<1>1. OneCallPerClient'
  BY CallsStep
<1>2. CASE S \subseteq Queued(r)
  BY <1>2 DEF QueueBoundSlack
<1>3. ASSUME NEW t \in Tasks, SubmitCount(t), ~ (S \subseteq Queued(r))
      PROVE  Cardinality(S) < MaxWaiting + Cardinality(ClientsOf(S))
  <2> DEFINE W == S \cap WaitingOn(r)
             E == S \ WaitingOn(r)
  <2>1. IsFiniteSet(WaitingOn(r)) /\ IsFiniteSet(ClientsOf(S))
    <3>1. WaitingOn(r) \in SUBSET Tasks
      BY DEF WaitingOn, OnRack
    <3>2. ClientsOf(S) \in SUBSET Clients
      BY ManagerAssumption DEF ClientsOf, Queued, WaitingOn, Enqueueing, OnRack
    <3> QED BY <3>1, <3>2, ManagerAssumption, FS_Subset
  <2>2. Cardinality(WaitingOn(r)) < MaxWaiting
    <3>1. RackOf[t] = r /\ sub'[t] = "enqueue"
      BY <1>3 DEF SubmitCount, Queued, WaitingOn, Enqueueing, OnRack, TypeOK, tableVars
    <3>2. Cardinality(WaitingOn(r)) \in Nat
      BY <2>1, FS_CardinalityType
    <3> QED BY <1>3, <3>1, <3>2, ManagerAssumption DEF SubmitCount, TypeOK
  <2>3. IsFiniteSet(W) /\ Cardinality(W) <= Cardinality(WaitingOn(r))
    <3>1. W \in SUBSET WaitingOn(r)
      OBVIOUS
    <3> QED BY <2>1, <3>1, FS_Subset
  <2>4. IsFiniteSet(E) /\ Cardinality(E) <= Cardinality(ClientsOf(S))
    <3> DEFINE f == [u \in E |-> ClientOf[u]]
    <3>1. \A u \in E : u \in Enqueueing(r)'
      BY <1>3 DEF SubmitCount, Queued, WaitingOn, OnRack, tableVars
    <3>2. \A u, v \in E : ClientOf[u] = ClientOf[v] => u = v
      BY <1>1, <3>1 DEF OneCallPerClient, InCall, Enqueueing, OnRack
    <3>3. f \in [E -> ClientsOf(S)]
      BY DEF ClientsOf
    <3>4. f \in Injection(E, ClientsOf(S))
      BY <3>2, <3>3 DEF Injection, IsInjective
    <3> QED BY <2>1, <3>4, FS_Injection
  <2>5. Cardinality(S) = Cardinality(W) + Cardinality(E)
    <3>1. S = W \cup E /\ W \cap E = {}
      OBVIOUS
    <3>2. Cardinality(W \cap E) = 0
      BY <3>1, FS_EmptySet
    <3>3. Cardinality(W \cup E) = Cardinality(W) + Cardinality(E) - Cardinality(W \cap E)
      BY <2>3, <2>4, FS_Union
    <3>4. Cardinality(W) \in Nat /\ Cardinality(E) \in Nat
      BY <2>3, <2>4, FS_CardinalityType
    <3> HIDE DEF W, E
    <3> QED BY <3>1, <3>2, <3>3, <3>4
  <2>6. /\ Cardinality(W) \in Nat /\ Cardinality(E) \in Nat
        /\ Cardinality(WaitingOn(r)) \in Nat /\ Cardinality(ClientsOf(S)) \in Nat
    BY <2>1, <2>3, <2>4, FS_CardinalityType
  <2> HIDE DEF W, E
  <2> QED BY <2>2, <2>3, <2>4, <2>5, <2>6, ManagerAssumption
<1> QED BY <1>2, <1>3, QueuedShrinks DEF NothingQueued

-----------------------------------------------------------------------------
(* The theorems. *)

(* IInv is an invariant of the task manager.                               *)
THEOREM Invariance == Spec => []IInv
<1>1. Init => IInv
  <2> SUFFICES ASSUME Init PROVE IInv
    OBVIOUS
  <2>1. TypeOK
    BY ManagerAssumption DEF Init, TypeOK, Status, Reporting, Report
  <2>2. Ownership
    BY DEF Init, Ownership, UncreatedUnknown, Created, WorkflowsExecuted,
           WaitingUnclaimed, PromotedUnclaimed, AtMostOneExecution
  <2>3. Order
    BY DEF Init, Order, CreatedInPast, AheadIsOlder, CandidatesComplete
  <2>4. OneCallPerClient
    BY DEF Init, OneCallPerClient, InCall
  <2>5. QueueBoundSlack
    BY DEF Init, QueueBoundSlack, Queued, WaitingOn, Enqueueing, OnRack
  <2> QED BY <2>1, <2>2, <2>3, <2>4, <2>5 DEF IInv
<1>2. IInv /\ [Next]_vars => IInv'
  BY TypeStep, OwnershipStep, OrderStep, CallsStep, SlackStep DEF IInv
<1> QED BY <1>1, <1>2, PTL DEF Spec

(* The task table, the calls in progress, Temporal and the promoter always *)
(* have values of their types; the channel of the promoter never holds     *)
(* more than its capacity.                                                 *)
THEOREM TypeCorrect == Spec => []TypeOK
<1>1. IInv => TypeOK
  BY DEF IInv
<1> QED BY <1>1, Invariance, PTL

(* resolveAndExecuteTask never hands a task to the executor that was       *)
(* handed over before, whatever fails and whoever cancels.                 *)
THEOREM ExecutedOnce == Spec => []AtMostOneExecution
<1>1. IInv => AtMostOneExecution
  BY DEF IInv, Ownership
<1> QED BY <1>1, Invariance, PTL

(* createAndExecuteTask lets a queue exceed MaxWaitingTasksPerRack by less *)
(* than the number of clients that have tasks in it.                       *)
THEOREM QueueBounded == Spec => []QueueBoundSlack
<1>1. IInv => QueueBoundSlack
  BY DEF IInv
<1> QED BY <1>1, Invariance, PTL

(* processRack promotes in FIFO order: no unexpired older task that was in *)
(* the queue when the promoted one joined it is still waiting.             *)
THEOREM PromotedInOrder == Spec => PromotionFIFO
<1>1. IInv /\ [Next]_vars =>
        [\A t \in Tasks : PromotedNow(t) =>
            \A u \in ahead[t] \ expired : status[u] # "waiting"]_vars
  <2> SUFFICES ASSUME IInv, Next, NEW t \in Tasks, PromotedNow(t),
                      NEW u \in ahead[t] \ expired, status[u] = "waiting"
               PROVE  FALSE
    BY DEF vars
  <2> USE ManagerAssumption DEF PromotedNow, IInv, TypeOK
  <2>1. Promote /\ t = Oldest(pCand)
    BY DEF Next, Submit, SubmitCheck, SubmitReject, SubmitCount, SubmitEnqueue,
           SubmitCreate, SubmitFails, Run, Execute, MarkFailed, RecordExecution,
           RunFails, ResolveFails, ExecuteFails, RunWriteFails, Cancel, CancelLoad,
           CancelTerminate, CancelWrite, CancelFails, Workflow, ActivityStart,
           ActivityWrite, Operate, WorkflowFails, ActivityUnacked, ActivityGivesUp,
           WorkflowTimeout, Expire, Sweep, Promoter, Notified, LoopDone, Purge,
           ListActive, Promote, StopPromoting, ExecutePromoted, RackDone, ListWaiting,
           PromoterFails, PurgeFails, PromoteFails, ListWaitingFails, Crash, historyVars
  <2>2. /\ t \in pCand
        /\ \A v \in pCand : createdAt[t] <= createdAt[v]
    BY <2>1, OldestIsFirst DEF Promote
  <2>3. u \in pCand /\ createdAt[u] < createdAt[t]
    BY <2>2 DEF Order, AheadIsOlder, CandidatesComplete
  <2>4. createdAt[u] \in Nat /\ createdAt[t] \in Nat
    BY <2>3
  <2> QED BY <2>2, <2>3, <2>4
<1> QED BY <1>1, Invariance, PTL DEF Spec, PromotionFIFO

=============================================================================
