-------------------------- MODULE RackReservation ---------------------------
(***************************************************************************)
(* What RLA's task manager promises the operators of a rack, as an         *)
(* abstract specification: tasks are admitted, queued, promoted and        *)
(* finished one at a time, each decision taken on the current state of the *)
(* rack.  TaskManager.tla models the code that implements it.              *)
(***************************************************************************)
EXTENDS TaskConflict, Naturals, Sequences, FiniteSets

CONSTANTS
    Tasks,        \* task identities
    Racks,        \* rack identities
    RackOf,       \* the rack a task operates on
    Infos,        \* the operations and targets tasks may have
    MaxWaiting    \* Config.MaxWaitingTasksPerRack

(* A component has one type, which nothing patches: createAndExecuteTask   *)
(* files each target under the type of its row.                            *)
OneTypePerComponent ==
    \A i, j \in Infos : \A c, d \in ComponentTypes :
        c # d => i.comps[c] \cap j.comps[d] = {}

ASSUME ReservationAssumption ==
    /\ RackOf \in [Tasks -> Racks]
    /\ Infos \subseteq TaskInfo
    /\ OneTypePerComponent
    /\ MaxWaiting \in Nat \ {0}

VARIABLES
    attr,    \* the operation and targets of each task
    state,   \* where each task is in its life
    queue    \* per rack, the waiting tasks, oldest first

rvars == <<attr, state, queue>>

ActiveInfos(r) == { attr[u] : u \in { v \in Tasks : state[v] = "active" /\ RackOf[v] = r } }

RInit ==
    /\ attr \in [Tasks -> Infos]
    /\ state = [t \in Tasks |-> "none"]
    /\ queue = [r \in Racks |-> << >>]

(* SubmitTask finds the rack free of conflicting tasks.                    *)
Admit(t) ==
    /\ state[t] = "none"
    /\ ~ Conflicts(attr[t], ActiveInfos(RackOf[t]))
    /\ state' = [state EXCEPT ![t] = "active"]
    /\ UNCHANGED <<attr, queue>>

(* SubmitTask finds a conflict; the request asks to be queued and the      *)
(* queue has room.                                                         *)
Enqueue(t) ==
    /\ state[t] = "none"
    /\ Conflicts(attr[t], ActiveInfos(RackOf[t]))
    /\ Len(queue[RackOf[t]]) < MaxWaiting
    /\ state' = [state EXCEPT ![t] = "waiting"]
    /\ queue' = [queue EXCEPT ![RackOf[t]] = Append(@, t)]
    /\ UNCHANGED attr

(* The promoter takes the oldest waiting task of a rack.                   *)
Promote(t) ==
    /\ queue[RackOf[t]] # << >> /\ Head(queue[RackOf[t]]) = t
    /\ ~ Conflicts(attr[t], ActiveInfos(RackOf[t]))
    /\ state' = [state EXCEPT ![t] = "active"]
    /\ queue' = [queue EXCEPT ![RackOf[t]] = Tail(@)]
    /\ UNCHANGED attr

(* An active task completes, fails or is cancelled.                        *)
Finish(t) ==
    /\ state[t] = "active"
    /\ state' = [state EXCEPT ![t] = "finished"]
    /\ UNCHANGED <<attr, queue>>

(* A waiting task expires or is cancelled.                                 *)
Drop(t) ==
    /\ state[t] = "waiting"
    /\ state' = [state EXCEPT ![t] = "finished"]
    /\ queue' = [queue EXCEPT ![RackOf[t]] = SelectSeq(@, LAMBDA u : u # t)]
    /\ UNCHANGED attr

RNext == \E t \in Tasks : Admit(t) \/ Enqueue(t) \/ Promote(t) \/ Finish(t) \/ Drop(t)

RSpec == RInit /\ [][RNext]_rvars

-----------------------------------------------------------------------------
(* Two tasks that are active on one rack at the same time never conflict,  *)
(* whichever of the two was submitted first: Rule.Conflicts is evaluated   *)
(* only for the incoming task, so this needs the rule to be symmetric.     *)
Exclusive ==
    \A t, u \in Tasks :
        (t # u /\ state[t] = "active" /\ state[u] = "active" /\ RackOf[t] = RackOf[u])
            => ~ Conflicts(attr[t], {attr[u]})

(* No compute tray, NVLink switch or power shelf is ever the target of two *)
(* active power or firmware operations: stated on the hardware, without    *)
(* the table of builtinRule.                                               *)
Guarded(t) == UNION { attr[t].comps[ct] : ct \in ComponentTypes \ {"Other"} }
Disruptive(t) == attr[t].op.type \in {"power_control", "firmware_control"}

HardwareExclusive ==
    \A t, u \in Tasks :
        (/\ t # u /\ RackOf[t] = RackOf[u]
         /\ state[t] = "active" /\ state[u] = "active"
         /\ Disruptive(t) /\ Disruptive(u))
            => Guarded(t) \cap Guarded(u) = {}

(* The advisory check made when a schedule is created reports every pair   *)
(* of operations that the task manager would keep apart at run time.       *)
AdvisoryComplete ==
    \A t \in Tasks :
        LET active == ActiveInfos(RackOf[t]) IN
        Conflicts(attr[t], active)
            => HasScheduleConflict(attr[t].op, { i.op : i \in active })
=============================================================================
