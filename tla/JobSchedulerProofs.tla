------------------------- MODULE JobSchedulerProofs -------------------------
(***************************************************************************)
(* Proofs about the pipeline of one entry of the in-process scheduler, for *)
(* every policy, trigger and size of the queue and any number of events.   *)
(***************************************************************************)
EXTENDS JobScheduler, FiniteSetTheorems, FunctionTheorems, TLAPS

Increasing(s) == \A i, j \in 1..Len(s) : i < j => s[i] < s[j]
Below(A, B) == \A a \in A, b \in B : a < b

(* Before Start nothing has happened; nothing is off afterwards. *)
OffInv ==
    /\ trig = "off" <=> disp = "off"
    /\ trig = "off" <=> intake = "off"
    /\ trig = "off" =>
         /\ worker = "off" /\ emitted = 0 /\ emitters = 0 /\ ~ exhausted /\ prev = 0
         /\ stop = "idle" /\ enqueued = {}
    /\ policy = "none" => trig = "off"

(* Stop: force is set for good when forceStop begins. *)
StopInv ==
    /\ stop = "idle" => ~ force
    /\ stop \in {"clear", "close", "abort"} => force

(* Events on their way stay in order: handed over, being sent, queued,     *)
(* received, in eventCh, about to be sent.                                 *)
Known == Handed \cup Held(sending) \cup Held(queue)
OrderInv ==
    /\ Increasing(handed) /\ Increasing(sending) /\ Increasing(queue)
    /\ Below(Handed, Held(sending)) /\ Below(Handed, Held(queue))
    /\ Below(Held(sending), Held(queue))
    /\ Known \subseteq enqueued
    /\ \A n \in enqueued : n <= emitted
    /\ enqueued # {} => \E n \in enqueued : \A m \in enqueued : m <= n
    /\ Below(enqueued, Held(eventCh))
    /\ \A n \in Held(eventCh) : n <= emitted
    /\ intake = "append" =>
         got # 0 /\ got <= emitted /\ Below(enqueued, {got}) /\ Below({got}, Held(eventCh))

(* The event that a trigger is sending is newer than all others. *)
EmitInv ==
    /\ emitters > 0 => trigger = "cron"
    /\ emitted + emitters <= MaxEvents
    /\ trigger = "cron" => trig # "send"
    /\ trig = "send" =>
         /\ emitted > 0
         /\ Below(enqueued, {emitted}) /\ Below(Held(eventCh), {emitted})
         /\ intake = "append" => got < emitted

(* Once g2 knows that g1 has ended it looks into the queue for the last    *)
(* time, and it returns only then, unless by force.                        *)
EndInv ==
    /\ exhausted => intake = "done"
    /\ disp = "done" /\ ~ force => exhausted
    /\ exhausted /\ policy # "Skip" /\ disp \notin {"dequeue", "merge"} => queue = <<>>
    /\ policy # "QueueAll" => Len(sending) <= 1
    /\ disp = "merge" => policy = "Queue"

(* What replaceDispatcher remembers is what the worker has. *)
ReplaceInv ==
    policy = "Replace" =>
      /\ worker \in {"check", "running"} => item = prev /\ item # 0
      /\ disp = "send" => prev = 0 \/ prev \in cancelled

(* LatestKept, without the choice, and through a graceful stop as well.    *)
NewestInv ==
    policy \in {"Queue", "Replace"} /\ ~ force =>
      \A n \in enqueued : (\A m \in enqueued : m <= n) =>
        n \in Handed \/ (disp # "done" /\ n \in Held(queue) \cup Held(sending))

IInv == TypeOK /\ OffInv /\ StopInv /\ OrderInv /\ EmitInv /\ EndInv /\ ReplaceInv
        /\ NothingLost /\ NewestInv

-----------------------------------------------------------------------------
(* Sequences of events. *)
LEMMA EventType ==
    Events \subseteq Nat /\ 0 \notin Events /\ MaxEvents \in Nat /\ 1 \in Events
  BY SchedulerAssumption DEF Events

LEMMA HeldEmpty ==
    /\ Held(<<>>) = {} /\ Increasing(<<>>) /\ <<>> \in Seq(Events) /\ Len(<<>>) = 0
  BY DEF Held, Increasing

LEMMA HeldType ==
    ASSUME NEW s \in Seq(Events)
    PROVE  Held(s) \subseteq Events /\ Len(s) \in Nat /\ (Len(s) = 0 => s = <<>>)
  BY DEF Held

LEMMA HeldOne ==
    ASSUME NEW x \in Events
    PROVE  /\ Held(<<x>>) = {x} /\ Increasing(<<x>>) /\ <<x>> \in Seq(Events)
           /\ Len(<<x>>) = 1 /\ <<x>> # <<>> /\ Head(<<x>>) = x
  BY DEF Held, Increasing

LEMMA HeldAppend ==
    ASSUME NEW s \in Seq(Events), NEW x \in Events
    PROVE  /\ Append(s, x) \in Seq(Events) /\ Len(Append(s, x)) = Len(s) + 1
           /\ Held(Append(s, x)) = Held(s) \cup {x}
           /\ Increasing(s) /\ Below(Held(s), {x}) => Increasing(Append(s, x))
  <1> DEFINE t == Append(s, x)
  <1>1. /\ t \in Seq(Events) /\ Len(t) = Len(s) + 1 /\ Len(s) \in Nat /\ t[Len(s) + 1] = x
        /\ \A i \in 1..Len(s) : t[i] = s[i]
    OBVIOUS
  <1> HIDE DEF t
  <1>2. Held(t) = Held(s) \cup {x}
    BY <1>1 DEF Held
  <1>3. ASSUME Increasing(s), Below(Held(s), {x})
        PROVE  Increasing(t)
    BY <1>1, <1>3 DEF Increasing, Below, Held
  <1>4. QED
    BY <1>1, <1>2, <1>3 DEF t

LEMMA HeldTail ==
    ASSUME NEW s \in Seq(Events), s # <<>>
    PROVE  /\ Tail(s) \in Seq(Events) /\ Len(Tail(s)) = Len(s) - 1 /\ Len(s) \in Nat \ {0}
           /\ Head(s) \in Events /\ Held(s) = {Head(s)} \cup Held(Tail(s))
           /\ Increasing(s) => Increasing(Tail(s)) /\ Below({Head(s)}, Held(Tail(s)))
  <1> DEFINE t == Tail(s)
  <1>1. /\ t \in Seq(Events) /\ Len(t) = Len(s) - 1 /\ Len(s) \in Nat \ {0} /\ Head(s) = s[1]
        /\ \A i \in 1..Len(t) : t[i] = s[i + 1]
    OBVIOUS
  <1>2. Head(s) \in Events
    BY <1>1
  <1> HIDE DEF t
  <1>3. Held(s) = {Head(s)} \cup Held(t)
    <2>1. \A i \in 1..Len(s) : s[i] = Head(s) \/ \E j \in 1..Len(t) : s[i] = t[j]
      <3>1. \A i \in 1..Len(s) : i = 1 \/ (i - 1 \in 1..Len(t) /\ t[i - 1] = s[i])
        BY <1>1
      <3>2. QED
        BY <1>1, <3>1
    <2>2. \A i \in 1..Len(t) : i + 1 \in 1..Len(s) /\ t[i] = s[i + 1]
      BY <1>1
    <2>3. 1 \in 1..Len(s)
      BY <1>1
    <2>4. Held(s) \subseteq {Head(s)} \cup Held(t)
      BY <2>1 DEF Held
    <2>5. Held(t) \subseteq Held(s)
      BY <2>2 DEF Held
    <2>6. Head(s) \in Held(s)
      BY <1>1, <2>3 DEF Held
    <2>7. QED
      BY <2>4, <2>5, <2>6
  <1>4. ASSUME Increasing(s)
        PROVE  Increasing(t) /\ Below({Head(s)}, Held(t))
    <2>1. \A i \in 1..Len(t) : i + 1 \in 1..Len(s) /\ 1 < i + 1 /\ 1 \in 1..Len(s)
      BY <1>1
    <2>2. \A i, j \in 1..Len(t) : i < j => i + 1 < j + 1
      BY <1>1
    <2>3. Increasing(t)
      BY <1>1, <1>4, <2>1, <2>2 DEF Increasing
    <2>4. \A i \in 1..Len(t) : Head(s) < t[i]
      BY <1>1, <1>4, <2>1 DEF Increasing
    <2>5. QED
      BY <2>3, <2>4 DEF Below, Held
  <1>5. QED
    BY <1>1, <1>2, <1>3, <1>4 DEF t

LEMMA HeldLatest ==
    ASSUME NEW s \in Seq(Events), s # <<>>
    PROVE  /\ Latest(s) \in Held(s) /\ Latest(s) \in Events
           /\ Increasing(s) => \A a \in Held(s) : a <= Latest(s)
  <1>1. Len(s) \in Nat \ {0} /\ Len(s) \in 1..Len(s)
    OBVIOUS
  <1>2. Latest(s) \in Held(s) /\ Latest(s) \in Events
    BY <1>1 DEF Latest, Held
  <1>3. ASSUME Increasing(s), NEW i \in 1..Len(s)
        PROVE  s[i] <= Latest(s)
    <2>1. s[i] \in Nat /\ s[Len(s)] \in Nat
      <3>1. s[i] \in Events /\ s[Len(s)] \in Events
        BY <1>1
      <3>2. QED
        BY <3>1, EventType
    <2>2. i = Len(s) \/ i < Len(s)
      BY <1>1
    <2>3. QED
      BY <1>1, <1>3, <2>1, <2>2 DEF Increasing, Latest
  <1>4. QED
    BY <1>2, <1>3 DEF Held

LEMMA PickedType ==
    ASSUME NEW q \in Seq(Events), q # <<>>, Len(q) <= MaxQueue
    PROVE  /\ Picked(q) \in Seq(Events) /\ Picked(q) # <<>> /\ Len(Picked(q)) <= MaxQueue
           /\ Held(Picked(q)) \subseteq Held(q)
           /\ Increasing(q) => Increasing(Picked(q))
           /\ policy = "QueueAll" => Picked(q) = q
           /\ policy # "QueueAll" => Len(Picked(q)) = 1
           /\ policy \in {"Queue", "Replace"} => Held(Picked(q)) = {Latest(q)}
  <1>1. Head(q) \in Events /\ Head(q) \in Held(q) /\ Latest(q) \in Events /\ Latest(q) \in Held(q)
    BY HeldTail, HeldLatest
  <1>2. 1 <= MaxQueue
    BY SchedulerAssumption
  <1>3. CASE policy = "QueueAll"
    BY <1>3 DEF Picked
  <1>4. CASE policy = "Skip"
    BY <1>1, <1>2, <1>4, HeldOne DEF Picked
  <1>5. CASE policy \notin {"Skip", "QueueAll"}
    BY <1>1, <1>2, <1>5, HeldOne DEF Picked
  <1>6. QED
    BY <1>3, <1>4, <1>5

-----------------------------------------------------------------------------
(* TypeOK, by goroutine. *)
EntryOK ==
    /\ policy \in Policies \cup {"none"} /\ trigger \in Triggers \cup {"none"}
    /\ stop \in {"idle", "clear", "close", "abort", "cancel", "wait", "returned"}
    /\ force \in BOOLEAN /\ ctxDone \in BOOLEAN /\ crashed \in BOOLEAN
TriggerOK ==
    /\ trig \in {"off", "wait", "send", "done"}
    /\ emitted \in 0..MaxEvents /\ emitters \in 0..MaxEvents
    /\ eventCh \in Seq(Events) /\ Len(eventCh) <= 1
IntakeOK ==
    /\ intake \in {"off", "range", "append", "ping", "done"} /\ got \in Events \cup {0}
    /\ queue \in Seq(Events) /\ Len(queue) <= MaxQueue
    /\ notify \in BOOLEAN
    /\ enqueued \subseteq Events /\ overflowed \subseteq Events
DispatchOK ==
    /\ disp \in {"off", "wait", "dequeue", "send", "merge", "done"}
    /\ sending \in Seq(Events) /\ Len(sending) <= MaxQueue
    /\ (disp \in {"send", "merge"}) <=> (sending # <<>>)
    /\ exhausted \in BOOLEAN /\ prev \in Events \cup {0}
WorkerOK ==
    /\ worker \in {"off", "away", "ready", "check", "running", "done"}
    /\ item \in Events \cup {0} /\ cancelled \subseteq Events
    /\ handed \in Seq(Events)

LEMMA TypeParts ==
    TypeOK <=> EntryOK /\ TriggerOK /\ IntakeOK /\ DispatchOK /\ WorkerOK
  BY DEF TypeOK, EntryOK, TriggerOK, IntakeOK, DispatchOK, WorkerOK

LEMMA EntryStep ==
    ASSUME EntryOK, [Next]_vars
    PROVE  EntryOK'
  <1>1. ASSUME NEW p \in Policies, NEW t \in Triggers, Schedule(p, t)
        PROVE  EntryOK'
    BY <1>1 DEF Schedule, EntryOK, stopVars
  <1>2. CASE Start \/ Occur \/ CronFires \/ ParentCancel
    BY <1>2 DEF Start, Occur, CronFires, ParentCancel, EntryOK, stopVars, entryVars
  <1>3. CASE Emit
    BY <1>3 DEF Emit, Send, EmitReturns, CronEmits, EntryOK, stopVars, entryVars
  <1>4. CASE Intake
    BY <1>4 DEF Intake, IntakeReceive, IntakeAppend, IntakePing, IntakeExit, EntryOK, stopVars,
                entryVars
  <1>5. CASE Dispatch
    BY <1>5 DEF Dispatch, Wake, Dequeue, HandOver, SkipDrops, Interrupt, Merge, ForceExit, EntryOK,
                stopVars, entryVars
  <1>6. CASE Work
    BY <1>6 DEF Work, WorkerWaits, RunJob, JobEnds, WorkerExit, EntryOK, stopVars, entryVars
  <1>7. CASE StopProceeds
    BY <1>7 DEF StopProceeds, ForceClear, ForceClose, RunCancel, StopReturns, EntryOK, stopVars,
                entryVars
  <1>8. ASSUME NEW f \in BOOLEAN, StopCall(f)
        PROVE  EntryOK'
    BY <1>8 DEF StopCall, EntryOK, entryVars
  <1>9. CASE UNCHANGED vars
    BY <1>9 DEF vars, EntryOK, stopVars, entryVars
  <1>10. QED
    BY <1>1, <1>2, <1>3, <1>4, <1>5, <1>6, <1>7, <1>8, <1>9 DEF Next

(* What a step does to the trigger. *)
TriggerKept == trig' = trig /\ emitted' = emitted /\ emitters' = emitters /\ eventCh' = eventCh

LEMMA TriggerEffect ==
    ASSUME [Next]_vars
    PROVE  TriggerKept \/ Start \/ Occur \/ CronFires \/ Emit \/ IntakeReceive
  <1>1. ASSUME NEW p \in Policies, NEW t \in Triggers, Schedule(p, t)
        PROVE  TriggerKept
    BY <1>1 DEF Schedule, TriggerKept, triggerVars
  <1>2. CASE IntakeAppend \/ IntakePing \/ IntakeExit
    BY <1>2 DEF IntakeAppend, IntakePing, IntakeExit, TriggerKept, triggerVars
  <1>3. CASE Dispatch
    BY <1>3 DEF Dispatch, Wake, Dequeue, HandOver, SkipDrops, Interrupt, Merge, ForceExit,
                TriggerKept, triggerVars
  <1>4. CASE Work
    BY <1>4 DEF Work, WorkerWaits, RunJob, JobEnds, WorkerExit, TriggerKept, triggerVars
  <1>5. CASE StopProceeds \/ ParentCancel
    BY <1>5 DEF StopProceeds, ForceClear, ForceClose, RunCancel, StopReturns, ParentCancel,
                TriggerKept, triggerVars
  <1>6. ASSUME NEW f \in BOOLEAN, StopCall(f)
        PROVE  TriggerKept
    BY <1>6 DEF StopCall, TriggerKept, triggerVars
  <1>7. CASE UNCHANGED vars
    BY <1>7 DEF vars, TriggerKept, triggerVars
  <1>8. QED
    BY <1>1, <1>2, <1>3, <1>4, <1>5, <1>6, <1>7 DEF Next, Intake

LEMMA TriggerStep ==
    ASSUME TriggerOK, EmitInv, [Next]_vars
    PROVE  TriggerOK'
  <1>0. /\ MaxEvents \in Nat /\ MaxEvents > 0 /\ emitted \in 0..MaxEvents /\ emitters \in 0..MaxEvents
        /\ emitted + emitters <= MaxEvents
    BY SchedulerAssumption DEF TriggerOK, EmitInv
  <1>1. \A n \in 1..MaxEvents : <<n>> \in Seq(Events) /\ Len(<<n>>) = 1
    BY DEF Events
  <1>2. <<>> \in Seq(Events) /\ Len(<<>>) = 0
    BY HeldEmpty
  <1>3. CASE TriggerKept
    BY <1>3 DEF TriggerKept, TriggerOK
  <1>4. CASE Start \/ Occur \/ CronFires
    BY <1>0, <1>4 DEF Start, Occur, CronFires, TriggerOK
  <1>5. CASE Send
    <2>1. emitted \in 1..MaxEvents
      BY <1>0, <1>5 DEF Send, EmitInv
    <2>2. QED
      BY <1>1, <1>5, <2>1 DEF Send, TriggerOK
  <1>6. CASE EmitReturns
    BY <1>6 DEF EmitReturns, TriggerOK
  <1>7. CASE CronEmits
    <2>1. emitted + 1 \in 1..MaxEvents /\ emitters - 1 \in 0..MaxEvents
      BY <1>0, <1>7 DEF CronEmits
    <2>2. emitters' = emitters - 1 /\ trig' = trig
      BY <1>7 DEF CronEmits
    <2>3. CASE eventCh' = <<emitted + 1>> /\ emitted' = emitted + 1
      BY <1>0, <1>1, <2>1, <2>2, <2>3 DEF TriggerOK
    <2>4. CASE UNCHANGED <<emitted, eventCh>>
      BY <2>1, <2>2, <2>4 DEF TriggerOK
    <2>5. QED
      BY <1>7, <2>3, <2>4 DEF CronEmits
  <1>8. CASE IntakeReceive
    BY <1>2, <1>8 DEF IntakeReceive, TriggerOK
  <1>9. QED
    BY <1>3, <1>4, <1>5, <1>6, <1>7, <1>8, TriggerEffect DEF Emit

(* What a step does to the intake and to the queue. *)
IntakeKept == intake' = intake /\ got' = got
QueueKept == queue' = queue /\ enqueued' = enqueued /\ overflowed' = overflowed
             /\ sending' = sending /\ handed' = handed

LEMMA IntakeEffect ==
    ASSUME [Next]_vars
    PROVE  (IntakeKept \/ Start \/ Intake) /\ (notify' = notify \/ notify' \in BOOLEAN)
  <1>1. ASSUME NEW p \in Policies, NEW t \in Triggers, Schedule(p, t)
        PROVE  IntakeKept /\ notify' = notify
    BY <1>1 DEF Schedule, IntakeKept, intakeVars
  <1>2. CASE Start \/ Occur \/ CronFires \/ ParentCancel
    BY <1>2 DEF Start, Occur, CronFires, ParentCancel, IntakeKept, intakeVars
  <1>3. CASE Emit
    BY <1>3 DEF Emit, Send, EmitReturns, CronEmits, IntakeKept, intakeVars
  <1>4. CASE Intake
    BY <1>4 DEF Intake, IntakeReceive, IntakeAppend, IntakePing, IntakeExit
  <1>5. CASE Dispatch
    BY <1>5 DEF Dispatch, Wake, Dequeue, HandOver, SkipDrops, Interrupt, Merge, ForceExit,
                IntakeKept, intakeVars
  <1>6. CASE Work
    BY <1>6 DEF Work, WorkerWaits, RunJob, JobEnds, WorkerExit, IntakeKept, intakeVars
  <1>7. CASE StopProceeds
    BY <1>7 DEF StopProceeds, ForceClear, ForceClose, RunCancel, StopReturns, IntakeKept, intakeVars
  <1>8. ASSUME NEW f \in BOOLEAN, StopCall(f)
        PROVE  IntakeKept /\ notify' = notify
    BY <1>8 DEF StopCall, IntakeKept, intakeVars
  <1>9. CASE UNCHANGED vars
    BY <1>9 DEF vars, IntakeKept, intakeVars
  <1>10. QED
    BY <1>1, <1>2, <1>3, <1>4, <1>5, <1>6, <1>7, <1>8, <1>9 DEF Next

LEMMA QueueEffect ==
    ASSUME [Next]_vars
    PROVE  \/ QueueKept
           \/ IntakeAppend \/ Dequeue \/ HandOver \/ SkipDrops \/ Merge \/ ForceExit \/ ForceClear
  <1>1. ASSUME NEW p \in Policies, NEW t \in Triggers, Schedule(p, t)
        PROVE  QueueKept
    BY <1>1 DEF Schedule, QueueKept, dispVars, historyVars
  <1>2. CASE Start \/ Occur \/ CronFires \/ ParentCancel
    BY <1>2 DEF Start, Occur, CronFires, ParentCancel, QueueKept, dispVars, historyVars
  <1>3. CASE Emit
    BY <1>3 DEF Emit, Send, EmitReturns, CronEmits, QueueKept, dispVars, historyVars
  <1>4. CASE IntakeReceive \/ IntakePing \/ IntakeExit
    BY <1>4 DEF IntakeReceive, IntakePing, IntakeExit, QueueKept, dispVars, historyVars
  <1>5. CASE Wake \/ Interrupt
    BY <1>5 DEF Wake, Interrupt, QueueKept, historyVars
  <1>6. CASE Work
    BY <1>6 DEF Work, WorkerWaits, RunJob, JobEnds, WorkerExit, QueueKept, dispVars, historyVars
  <1>7. CASE ForceClose \/ RunCancel \/ StopReturns
    BY <1>7 DEF ForceClose, RunCancel, StopReturns, QueueKept, dispVars, historyVars
  <1>8. ASSUME NEW f \in BOOLEAN, StopCall(f)
        PROVE  QueueKept
    BY <1>8 DEF StopCall, QueueKept, dispVars, historyVars
  <1>9. CASE UNCHANGED vars
    BY <1>9 DEF vars, QueueKept, dispVars, historyVars
  <1>10. QED
    BY <1>1, <1>2, <1>3, <1>4, <1>5, <1>6, <1>7, <1>8, <1>9 DEF Next, Intake, Dispatch, StopProceeds

-----------------------------------------------------------------------------
(* What the actions on the queue do. *)
LEMMA AppendEffect ==
    ASSUME IntakeOK, OrderInv, IntakeAppend
    PROVE  /\ queue' \in Seq(Events) /\ Len(queue') <= MaxQueue
           /\ sending' = sending /\ handed' = handed /\ disp' = disp
           /\ got \in Events /\ enqueued' = enqueued \cup {got}
           /\ Held(queue') \subseteq Held(queue) \cup {got}
           /\ got \in Held(queue')
           /\ \A n \in Held(queue) : n \in Held(queue') \cup overflowed'
           /\ overflowed \subseteq overflowed' /\ overflowed' \subseteq Events
           /\ Increasing(queue')
           /\ intake = "append" /\ intake' = "ping"
  <1>1. got \in Events /\ Below(enqueued, {got}) /\ queue \in Seq(Events) /\ Len(queue) <= MaxQueue
    BY DEF IntakeOK, OrderInv, IntakeAppend
  <1>2. Increasing(queue) /\ Below(Held(queue), {got})
    BY <1>1 DEF OrderInv, Known, Below
  <1>3. MaxQueue \in Nat \ {0} /\ Len(queue) \in Nat
    BY <1>1, SchedulerAssumption, HeldType
  <1>4. /\ sending' = sending /\ handed' = handed /\ enqueued' = enqueued \cup {got} /\ disp' = disp
        /\ intake = "append" /\ intake' = "ping" /\ overflowed \subseteq Events
    BY DEF IntakeAppend, dispVars, IntakeOK
  <1>5. CASE HasRoom
    <2>1. queue' = Append(queue, got) /\ overflowed' = overflowed
      BY <1>5 DEF IntakeAppend
    <2>2. Len(queue) + 1 <= MaxQueue
      BY <1>3, <1>5 DEF HasRoom
    <2>3. QED
      BY <1>1, <1>2, <1>4, <2>1, <2>2, HeldAppend
  <1>6. CASE ~ HasRoom
    <2> DEFINE t == Tail(queue)
    <2>1. queue' = Append(t, got) /\ overflowed' = overflowed \cup {Head(queue)}
      BY <1>6 DEF IntakeAppend
    <2>2. Len(queue) = MaxQueue /\ queue # <<>>
      BY <1>1, <1>3, <1>6, HeldEmpty DEF HasRoom
    <2>3. /\ t \in Seq(Events) /\ Len(t) = Len(queue) - 1 /\ Head(queue) \in Events
          /\ Held(queue) = {Head(queue)} \cup Held(t) /\ Increasing(t)
      BY <1>1, <1>2, <2>2, HeldTail
    <2>4. Below(Held(t), {got})
      BY <1>2, <2>3 DEF Below
    <2> HIDE DEF t
    <2>5. /\ queue' \in Seq(Events) /\ Len(queue') = Len(t) + 1
          /\ Held(queue') = Held(t) \cup {got} /\ Increasing(queue')
      BY <1>1, <2>1, <2>3, <2>4, HeldAppend
    <2>6. Len(queue') <= MaxQueue
      BY <1>3, <2>2, <2>3, <2>5
    <2>7. QED
      BY <1>1, <1>4, <2>1, <2>3, <2>5, <2>6
  <1>7. QED
    BY <1>5, <1>6

LEMMA DequeueEffect ==
    ASSUME IntakeOK, DispatchOK, OrderInv, Dequeue
    PROVE  /\ queue' = <<>> /\ handed' = handed /\ enqueued' = enqueued /\ overflowed' = overflowed
           /\ sending = <<>> /\ disp = "dequeue" /\ intake' = intake
           /\ exhausted' = exhausted /\ prev' = prev
           /\ sending' \in Seq(Events) /\ Len(sending') <= MaxQueue
           /\ Held(sending') \subseteq Held(queue) /\ Increasing(sending')
           /\ queue = <<>> => sending' = <<>> /\ disp' = EndOrWait /\ cancelled' = cancelled
           /\ queue # <<>> => /\ sending' # <<>> /\ disp' = "send"
                              /\ policy = "QueueAll" => sending' = queue
                              /\ policy # "QueueAll" => Len(sending') = 1
                              /\ policy \in {"Queue", "Replace"} => Held(sending') = {Latest(queue)}
                              /\ cancelled' = IF policy = "Replace"
                                              THEN cancelled \cup ({prev} \ {0}) ELSE cancelled
  <1>1. /\ queue' = <<>> /\ handed' = handed /\ enqueued' = enqueued /\ overflowed' = overflowed
        /\ disp = "dequeue" /\ exhausted' = exhausted /\ prev' = prev /\ intake' = intake
    BY DEF Dequeue, historyVars, intakeVars
  <1>2. sending = <<>>
    BY <1>1 DEF DispatchOK
  <1>3. Len(<<>>) <= MaxQueue
    BY SchedulerAssumption, HeldEmpty
  <1>4. CASE queue = <<>>
    BY <1>1, <1>2, <1>3, <1>4, HeldEmpty DEF Dequeue
  <1>5. CASE queue # <<>>
    <2>1. sending' = Picked(queue) /\ disp' = "send"
          /\ cancelled' = IF policy = "Replace" THEN cancelled \cup ({prev} \ {0}) ELSE cancelled
      BY <1>5 DEF Dequeue
    <2>2. queue \in Seq(Events) /\ Len(queue) <= MaxQueue /\ Increasing(queue)
      BY DEF IntakeOK, OrderInv
    <2>3. QED
      BY <1>1, <1>2, <1>5, <2>1, <2>2, PickedType
  <1>6. QED
    BY <1>4, <1>5

LEMMA HandOverEffect ==
    ASSUME DispatchOK, WorkerOK, OrderInv, HandOver
    PROVE  LET h == Head(sending) IN
           /\ queue' = queue /\ enqueued' = enqueued /\ overflowed' = overflowed
           /\ disp = "send" /\ exhausted' = exhausted /\ intake' = intake /\ cancelled' = cancelled
           /\ h \in Events /\ item' = h /\ prev' = IF policy = "Replace" THEN h ELSE prev
           /\ worker = "ready" /\ worker' = "check"
           /\ sending' \in Seq(Events) /\ Len(sending') = Len(sending) - 1 /\ Len(sending) \in Nat
           /\ Held(sending) = {h} \cup Held(sending') /\ Increasing(sending')
           /\ Below({h}, Held(sending'))
           /\ handed' \in Seq(Events) /\ Held(handed') = Held(handed) \cup {h} /\ Increasing(handed')
           /\ disp' = AfterSend(sending')
  <1> DEFINE h == Head(sending)
  <1>1. /\ queue' = queue /\ enqueued' = enqueued /\ overflowed' = overflowed /\ disp = "send"
        /\ exhausted' = exhausted /\ intake' = intake /\ cancelled' = cancelled
        /\ worker = "ready" /\ worker' = "check" /\ item' = h
        /\ prev' = IF policy = "Replace" THEN h ELSE prev
        /\ handed' = Append(handed, h) /\ sending' = Tail(sending)
        /\ disp' = AfterSend(sending')
    BY DEF HandOver, Tracked, intakeVars
  <1>2. sending # <<>> /\ sending \in Seq(Events) /\ handed \in Seq(Events)
    BY <1>1 DEF DispatchOK, WorkerOK
  <1>3. /\ sending' \in Seq(Events) /\ Len(sending') = Len(sending) - 1 /\ Len(sending) \in Nat
        /\ h \in Events /\ Held(sending) = {h} \cup Held(sending')
        /\ Increasing(sending') /\ Below({h}, Held(sending'))
    BY <1>1, <1>2, HeldTail DEF OrderInv
  <1> HIDE DEF h
  <1>4. Below(Held(handed), {h})
    BY <1>3 DEF OrderInv, Below, Handed, Held
  <1>5. handed' \in Seq(Events) /\ Held(handed') = Held(handed) \cup {h} /\ Increasing(handed')
    BY <1>1, <1>2, <1>3, <1>4, HeldAppend DEF OrderInv
  <1>6. QED
    BY <1>1, <1>3, <1>5 DEF h

LEMMA MergeEffect ==
    ASSUME IntakeOK, DispatchOK, OrderInv, Merge
    PROVE  /\ handed' = handed /\ enqueued' = enqueued /\ overflowed' = overflowed
           /\ disp = "merge" /\ disp' = "dequeue" /\ sending' = <<>> /\ sending # <<>>
           /\ exhausted' = exhausted /\ prev' = prev /\ intake' = intake /\ cancelled' = cancelled
           /\ queue' \in Seq(Events) /\ Len(queue') <= MaxQueue /\ Increasing(queue')
           /\ \/ queue = <<>> /\ Held(queue') = {Head(sending)}
              \/ queue # <<>> /\ Held(queue') = {Latest(queue)}
           /\ Held(queue') \subseteq Held(queue) \cup Held(sending)
  <1>1. /\ handed' = handed /\ enqueued' = enqueued /\ overflowed' = overflowed
        /\ disp = "merge" /\ disp' = "dequeue" /\ sending' = <<>> /\ queue' = Merged
        /\ exhausted' = exhausted /\ prev' = prev /\ intake' = intake /\ cancelled' = cancelled
    BY DEF Merge, historyVars, intakeVars
  <1>2. sending # <<>> /\ sending \in Seq(Events) /\ queue \in Seq(Events)
    BY <1>1 DEF DispatchOK, IntakeOK
  <1>3. 1 <= MaxQueue
    BY SchedulerAssumption
  <1>4. CASE queue = <<>>
    <2>1. queue' = <<Head(sending)>> /\ Head(sending) \in Events /\ Head(sending) \in Held(sending)
      BY <1>1, <1>2, <1>4, HeldTail DEF Merged
    <2>2. QED
      BY <1>1, <1>2, <1>3, <1>4, <2>1, HeldOne
  <1>5. CASE queue # <<>>
    <2>1. queue' = <<Latest(queue)>> /\ Latest(queue) \in Events /\ Latest(queue) \in Held(queue)
      BY <1>1, <1>2, <1>5, HeldLatest DEF Merged
    <2>2. QED
      BY <1>1, <1>2, <1>3, <1>5, <2>1, HeldOne
  <1>6. QED
    BY <1>4, <1>5

LEMMA DropEffect ==
    ASSUME SkipDrops \/ ForceExit
    PROVE  /\ queue' = queue /\ handed' = handed /\ enqueued' = enqueued /\ overflowed' = overflowed
           /\ sending' = <<>> /\ exhausted' = exhausted /\ prev' = prev /\ intake' = intake
           /\ cancelled' = cancelled /\ disp' \in {"wait", "done"} /\ disp \in {"wait", "send"}
           /\ (policy = "Skip" /\ disp' = "wait") \/ ForceClosed
  BY DEF SkipDrops, ForceExit, EndOrWait, historyVars, intakeVars

LEMMA ClearEffect ==
    ASSUME ForceClear
    PROVE  /\ queue' = <<>> /\ handed' = handed /\ enqueued' = enqueued /\ overflowed' = overflowed
           /\ sending' = sending /\ intake' = intake /\ disp' = disp /\ exhausted' = exhausted
           /\ prev' = prev /\ cancelled' = cancelled /\ stop = "clear"
  BY DEF ForceClear, dispVars, intakeVars, historyVars

-----------------------------------------------------------------------------
(* What a step does to the entry, the dispatcher, the worker and Stop. *)
LEMMA EntryEffect ==
    ASSUME [Next]_vars
    PROVE  \/ policy' = policy /\ trigger' = trigger
           \/ \E p \in Policies, t \in Triggers : policy = "none" /\ Schedule(p, t)
  <1>1. CASE Start \/ Occur \/ CronFires \/ ParentCancel
    BY <1>1 DEF Start, Occur, CronFires, ParentCancel, entryVars
  <1>2. CASE Emit
    BY <1>2 DEF Emit, Send, EmitReturns, CronEmits, entryVars
  <1>3. CASE Intake
    BY <1>3 DEF Intake, IntakeReceive, IntakeAppend, IntakePing, IntakeExit, entryVars
  <1>4. CASE Dispatch
    BY <1>4 DEF Dispatch, Wake, Dequeue, HandOver, SkipDrops, Interrupt, Merge, ForceExit, entryVars
  <1>5. CASE Work
    BY <1>5 DEF Work, WorkerWaits, RunJob, JobEnds, WorkerExit, entryVars
  <1>6. CASE StopProceeds
    BY <1>6 DEF StopProceeds, ForceClear, ForceClose, RunCancel, StopReturns, entryVars
  <1>7. ASSUME NEW f \in BOOLEAN, StopCall(f)
        PROVE  policy' = policy /\ trigger' = trigger
    BY <1>7 DEF StopCall, entryVars
  <1>8. CASE UNCHANGED vars
    BY <1>8 DEF vars, entryVars
  <1>9. QED
    BY <1>1, <1>2, <1>3, <1>4, <1>5, <1>6, <1>7, <1>8 DEF Next

DispatchKept == disp' = disp /\ sending' = sending /\ exhausted' = exhausted /\ prev' = prev
                /\ cancelled' = cancelled
WorkerKept == worker' = worker /\ item' = item
StopKept == stop' = stop /\ force' = force

LEMMA DispatchEffect ==
    ASSUME [Next]_vars
    PROVE  DispatchKept \/ Start \/ Dispatch
  <1>1. ASSUME NEW p \in Policies, NEW t \in Triggers, Schedule(p, t)
        PROVE  DispatchKept
    BY <1>1 DEF Schedule, DispatchKept, dispVars
  <1>2. CASE Occur \/ CronFires \/ ParentCancel
    BY <1>2 DEF Occur, CronFires, ParentCancel, DispatchKept, dispVars
  <1>3. CASE Emit
    BY <1>3 DEF Emit, Send, EmitReturns, CronEmits, DispatchKept, dispVars
  <1>4. CASE Intake
    BY <1>4 DEF Intake, IntakeReceive, IntakeAppend, IntakePing, IntakeExit, DispatchKept, dispVars
  <1>5. CASE Work
    BY <1>5 DEF Work, WorkerWaits, RunJob, JobEnds, WorkerExit, DispatchKept, dispVars
  <1>6. CASE StopProceeds
    BY <1>6 DEF StopProceeds, ForceClear, ForceClose, RunCancel, StopReturns, DispatchKept, dispVars
  <1>7. ASSUME NEW f \in BOOLEAN, StopCall(f)
        PROVE  DispatchKept
    BY <1>7 DEF StopCall, DispatchKept, dispVars
  <1>8. CASE UNCHANGED vars
    BY <1>8 DEF vars, DispatchKept, dispVars
  <1>9. QED
    BY <1>1, <1>2, <1>3, <1>4, <1>5, <1>6, <1>7, <1>8 DEF Next

LEMMA WorkerEffect ==
    ASSUME [Next]_vars
    PROVE  WorkerKept \/ Start \/ Work \/ HandOver
  <1>1. ASSUME NEW p \in Policies, NEW t \in Triggers, Schedule(p, t)
        PROVE  WorkerKept
    BY <1>1 DEF Schedule, WorkerKept, workerVars
  <1>2. CASE Occur \/ CronFires \/ ParentCancel
    BY <1>2 DEF Occur, CronFires, ParentCancel, WorkerKept, workerVars
  <1>3. CASE Emit
    BY <1>3 DEF Emit, Send, EmitReturns, CronEmits, WorkerKept, workerVars
  <1>4. CASE Intake
    BY <1>4 DEF Intake, IntakeReceive, IntakeAppend, IntakePing, IntakeExit, WorkerKept, workerVars
  <1>5. CASE Dispatch /\ ~ HandOver
    BY <1>5 DEF Dispatch, Wake, Dequeue, SkipDrops, Interrupt, Merge, ForceExit, WorkerKept, workerVars
  <1>6. CASE StopProceeds
    BY <1>6 DEF StopProceeds, ForceClear, ForceClose, RunCancel, StopReturns, WorkerKept, workerVars
  <1>7. ASSUME NEW f \in BOOLEAN, StopCall(f)
        PROVE  WorkerKept
    BY <1>7 DEF StopCall, WorkerKept, workerVars
  <1>8. CASE UNCHANGED vars
    BY <1>8 DEF vars, WorkerKept, workerVars
  <1>9. QED
    BY <1>1, <1>2, <1>3, <1>4, <1>5, <1>6, <1>7, <1>8 DEF Next

LEMMA StopEffect ==
    ASSUME [Next]_vars
    PROVE  StopKept \/ StopProceeds \/ \E f \in BOOLEAN : StopCall(f)
  <1>1. ASSUME NEW p \in Policies, NEW t \in Triggers, Schedule(p, t)
        PROVE  StopKept
    BY <1>1 DEF Schedule, StopKept, stopVars
  <1>2. CASE Start \/ Occur \/ CronFires \/ ParentCancel
    BY <1>2 DEF Start, Occur, CronFires, ParentCancel, StopKept, stopVars
  <1>3. CASE Emit
    BY <1>3 DEF Emit, Send, EmitReturns, CronEmits, StopKept, stopVars
  <1>4. CASE Intake
    BY <1>4 DEF Intake, IntakeReceive, IntakeAppend, IntakePing, IntakeExit, StopKept, stopVars
  <1>5. CASE Dispatch
    BY <1>5 DEF Dispatch, Wake, Dequeue, HandOver, SkipDrops, Interrupt, Merge, ForceExit, StopKept,
                stopVars
  <1>6. CASE Work
    BY <1>6 DEF Work, WorkerWaits, RunJob, JobEnds, WorkerExit, StopKept, stopVars
  <1>7. CASE UNCHANGED vars
    BY <1>7 DEF vars, StopKept, stopVars
  <1>8. QED
    BY <1>1, <1>2, <1>3, <1>4, <1>5, <1>6, <1>7 DEF Next

LEMMA IntakeStep ==
    ASSUME IntakeOK, TriggerOK, DispatchOK, OrderInv, [Next]_vars
    PROVE  IntakeOK'
  <1>1. /\ intake' \in {"off", "range", "append", "ping", "done"} /\ got' \in Events \cup {0}
        /\ notify' \in BOOLEAN
    <2>1. notify' \in BOOLEAN
      BY IntakeEffect DEF IntakeOK
    <2>2. CASE IntakeKept
      BY <2>1, <2>2 DEF IntakeKept, IntakeOK
    <2>3. CASE Start \/ IntakeAppend \/ IntakePing \/ IntakeExit
      BY <2>1, <2>3 DEF Start, IntakeAppend, IntakePing, IntakeExit, IntakeOK
    <2>4. CASE IntakeReceive
      <3>1. Head(eventCh) \in Events
        BY <2>4, HeldTail DEF IntakeReceive, TriggerOK
      <3>2. QED
        BY <2>1, <2>4, <3>1 DEF IntakeReceive
    <2>5. QED
      BY <2>2, <2>3, <2>4, IntakeEffect DEF Intake
  <1>2. /\ queue' \in Seq(Events) /\ Len(queue') <= MaxQueue
        /\ enqueued' \subseteq Events /\ overflowed' \subseteq Events
    <2>1. <<>> \in Seq(Events) /\ Len(<<>>) <= MaxQueue
      BY HeldEmpty, SchedulerAssumption
    <2>2. CASE QueueKept
      BY <2>2 DEF QueueKept, IntakeOK
    <2>3. CASE IntakeAppend
      BY <2>3, AppendEffect DEF IntakeOK
    <2>4. CASE Dequeue
      BY <2>1, <2>4, DequeueEffect DEF IntakeOK
    <2>5. CASE HandOver
      BY <2>5 DEF HandOver, IntakeOK
    <2>6. CASE Merge
      BY <2>6, MergeEffect DEF IntakeOK
    <2>7. CASE SkipDrops \/ ForceExit \/ ForceClear
      BY <2>1, <2>7, DropEffect, ClearEffect DEF IntakeOK
    <2>8. QED
      BY <2>2, <2>3, <2>4, <2>5, <2>6, <2>7, QueueEffect
  <1>3. QED
    BY <1>1, <1>2 DEF IntakeOK

LEMMA DispatchStep ==
    ASSUME IntakeOK, DispatchOK, WorkerOK, OffInv, OrderInv, [Next]_vars
    PROVE  DispatchOK'
  <1>0. <<>> \in Seq(Events) /\ Len(<<>>) <= MaxQueue
    BY HeldEmpty, SchedulerAssumption
  <1>1. CASE DispatchKept
    BY <1>1 DEF DispatchKept, DispatchOK
  <1>2. CASE Start
    BY <1>2 DEF Start, DispatchOK, OffInv
  <1>3. CASE Wake
    BY <1>3 DEF Wake, DispatchOK, AtClose
  <1>4. CASE Dequeue
    BY <1>4, DequeueEffect DEF DispatchOK, EndOrWait
  <1>5. CASE HandOver
    <2>1. MaxQueue \in Nat
      BY SchedulerAssumption
    <2>2. (disp' \in {"send", "merge"}) <=> (sending' # <<>>)
      BY <1>5, HandOverEffect DEF AfterSend, EndOrWait
    <2>3. disp' \in {"off", "wait", "dequeue", "send", "merge", "done"}
      BY <1>5, HandOverEffect DEF AfterSend, EndOrWait
    <2>4. QED
      BY <1>5, <2>1, <2>2, <2>3, HandOverEffect DEF DispatchOK
  <1>6. CASE Interrupt
    BY <1>6 DEF Interrupt, DispatchOK
  <1>7. CASE Merge
    BY <1>0, <1>7, MergeEffect DEF DispatchOK
  <1>8. CASE SkipDrops \/ ForceExit
    BY <1>0, <1>8, DropEffect DEF DispatchOK
  <1>9. QED
    BY <1>1, <1>2, <1>3, <1>4, <1>5, <1>6, <1>7, <1>8, DispatchEffect DEF Dispatch

LEMMA WorkerStep ==
    ASSUME IntakeOK, DispatchOK, WorkerOK, OrderInv, [Next]_vars
    PROVE  WorkerOK'
  <1>1. handed' \in Seq(Events)
    BY QueueEffect, AppendEffect, DequeueEffect, HandOverEffect, MergeEffect, DropEffect, ClearEffect
       DEF QueueKept, WorkerOK
  <1>2. cancelled' \subseteq Events
    <2>1. CASE DispatchKept
      BY <2>1 DEF DispatchKept, WorkerOK
    <2>2. CASE Start \/ Wake \/ Interrupt
      BY <2>2 DEF Start, Wake, Interrupt, WorkerOK
    <2>3. CASE Dequeue
      BY <2>3, DequeueEffect DEF WorkerOK, DispatchOK
    <2>4. CASE HandOver \/ Merge \/ SkipDrops \/ ForceExit
      BY <2>4, HandOverEffect, MergeEffect, DropEffect DEF WorkerOK
    <2>5. QED
      BY <2>1, <2>2, <2>3, <2>4, DispatchEffect DEF Dispatch
  <1>3. /\ worker' \in {"off", "away", "ready", "check", "running", "done"}
        /\ item' \in Events \cup {0}
    <2>1. CASE WorkerKept
      BY <2>1 DEF WorkerKept, WorkerOK
    <2>2. CASE Start \/ Work
      BY <2>2 DEF Start, Work, WorkerWaits, RunJob, JobEnds, WorkerExit, WorkerOK
    <2>3. CASE HandOver
      BY <2>3, HandOverEffect
    <2>4. QED
      BY <2>1, <2>2, <2>3, WorkerEffect
  <1>4. QED
    BY <1>1, <1>2, <1>3 DEF WorkerOK

LEMMA OffStep ==
    ASSUME TypeOK, OffInv, OrderInv, [Next]_vars
    PROVE  OffInv'
  <1>1. CASE trig # "off"
    <2>1. trig' # "off"
      BY <1>1, TriggerEffect DEF TriggerKept, Start, Occur, CronFires, Emit, Send, EmitReturns,
                                 CronEmits, IntakeReceive
    <2>2. disp' # "off"
      BY <1>1, DispatchEffect
         DEF DispatchKept, Start, Dispatch, Wake, Dequeue, HandOver, SkipDrops, Interrupt, Merge,
             ForceExit, AtClose, EndOrWait, AfterSend, OffInv
    <2>3. intake' # "off"
      BY <1>1, IntakeEffect DEF IntakeKept, Start, Intake, IntakeReceive, IntakeAppend, IntakePing,
                                IntakeExit, OffInv
    <2>4. policy' # "none"
      BY <1>1, EntryEffect DEF OffInv, Schedule
    <2>5. QED
      BY <2>1, <2>2, <2>3, <2>4 DEF OffInv
  <1>2. CASE trig = "off"
    <2>1. disp = "off" /\ intake = "off" /\ worker = "off" /\ stop = "idle" /\ emitters = 0
      BY <1>2 DEF OffInv
    <2>2. ~ Dispatch /\ ~ Intake /\ ~ Work /\ ~ StopProceeds /\ ~ Emit
      BY <1>2, <2>1
         DEF Dispatch, Wake, Dequeue, HandOver, SkipDrops, Interrupt, Merge, ForceExit, Intake,
             IntakeReceive, IntakeAppend, IntakePing, IntakeExit, Work, WorkerWaits, RunJob, JobEnds,
             WorkerExit, StopProceeds, ForceClear, ForceClose, RunCancel, StopReturns, Emit, Send,
             EmitReturns, CronEmits
    <2>3. ~ Occur /\ ~ CronFires /\ ~ ParentCancel /\ \A f \in BOOLEAN : ~ StopCall(f)
      BY <1>2 DEF Occur, CronFires, ParentCancel, StopCall
    <2>4. CASE Start
      BY <2>4 DEF Start, entryVars, OffInv
    <2>5. ASSUME NEW p \in Policies, NEW t \in Triggers, Schedule(p, t)
          PROVE  OffInv'
      <3>1. p # "none"
        BY SchedulerAssumption DEF AllPolicies
      <3>2. QED
        BY <1>2, <2>5, <3>1 DEF Schedule, OffInv, triggerVars, intakeVars, dispVars, workerVars,
                                stopVars, historyVars
    <2>6. CASE UNCHANGED vars
      BY <2>6 DEF vars, OffInv, entryVars, triggerVars, intakeVars, dispVars, workerVars, stopVars,
                  historyVars
    <2>7. QED
      BY <2>2, <2>3, <2>4, <2>5, <2>6 DEF Next
  <1>3. QED
    BY <1>1, <1>2

LEMMA StopStep ==
    ASSUME EntryOK, StopInv, [Next]_vars
    PROVE  StopInv'
  <1>1. CASE StopKept
    BY <1>1 DEF StopKept, StopInv
  <1>2. CASE StopProceeds
    BY <1>2 DEF StopProceeds, ForceClear, ForceClose, RunCancel, StopReturns, StopInv, EntryOK
  <1>3. ASSUME NEW f \in BOOLEAN, StopCall(f)
        PROVE  StopInv'
    BY <1>3 DEF StopCall, StopInv
  <1>4. QED
    BY <1>1, <1>2, <1>3, StopEffect

(* force, once set, stays. *)
LEMMA ForceStays ==
    ASSUME EntryOK, StopInv, [Next]_vars
    PROVE  /\ ~ force' => ~ force
           /\ ForceClosed => force
  BY StopEffect DEF StopKept, StopProceeds, ForceClear, ForceClose, RunCancel, StopReturns, StopCall,
                    StopInv, ForceClosed

-----------------------------------------------------------------------------
(* What is handed over, being sent and queued stays in order. *)
LEMMA QueueOrderStep ==
    ASSUME TypeOK, OrderInv, [Next]_vars
    PROVE  /\ Increasing(handed)' /\ Increasing(sending)' /\ Increasing(queue)'
           /\ Below(Handed, Held(sending))' /\ Below(Handed, Held(queue))'
           /\ Below(Held(sending), Held(queue))'
           /\ Known' \subseteq enqueued'
           /\ enqueued' # {} => \E n \in enqueued' : \A m \in enqueued' : m <= n
           /\ enqueued' = enqueued \/ IntakeAppend
  <1>0. IntakeOK /\ DispatchOK /\ WorkerOK /\ enqueued \subseteq Nat
    BY TypeParts, EventType DEF IntakeOK
  <1>1. /\ Increasing(handed) /\ Increasing(sending) /\ Increasing(queue)
        /\ Below(Handed, Held(sending)) /\ Below(Handed, Held(queue))
        /\ Below(Held(sending), Held(queue)) /\ Known \subseteq enqueued
        /\ enqueued # {} => \E n \in enqueued : \A m \in enqueued : m <= n
    BY DEF OrderInv
  <1>2. Handed = Held(handed) /\ Handed' = Held(handed')
    BY DEF Handed, Held
  <1>3. CASE QueueKept
    BY <1>1, <1>2, <1>3 DEF QueueKept, Known
  <1>4. CASE IntakeAppend
    <2>1. /\ sending' = sending /\ handed' = handed /\ enqueued' = enqueued \cup {got}
          /\ Held(queue') \subseteq Held(queue) \cup {got} /\ Increasing(queue') /\ got \in Events
          /\ intake = "append"
      BY <1>0, <1>4, AppendEffect
    <2>2. Below(enqueued, {got})
      BY <2>1 DEF OrderInv
    <2>3. \A m \in enqueued' : m <= got
      BY <1>0, <2>1, <2>2, EventType DEF Below
    <2>4. Held(sending) \subseteq enqueued /\ Held(handed) \subseteq enqueued /\ Held(queue) \subseteq enqueued
      BY <1>1, <1>2 DEF Known
    <2>5. Below(Held(handed), Held(queue')) /\ Below(Held(sending), Held(queue'))
      BY <1>1, <1>2, <2>1, <2>2, <2>4 DEF Below
    <2>6. QED
      BY <1>1, <1>2, <1>4, <2>1, <2>3, <2>4, <2>5 DEF Known
  <1>5. CASE Dequeue
    BY <1>0, <1>1, <1>2, <1>5, DequeueEffect, HeldEmpty DEF Known, Below
  <1>6. CASE HandOver
    <2> DEFINE h == Head(sending)
    <2>1. /\ queue' = queue /\ enqueued' = enqueued /\ Held(sending) = {h} \cup Held(sending')
          /\ Increasing(sending') /\ Below({h}, Held(sending'))
          /\ Held(handed') = Held(handed) \cup {h} /\ Increasing(handed')
      BY <1>0, <1>6, HandOverEffect
    <2> HIDE DEF h
    <2>2. QED
      BY <1>1, <1>2, <2>1 DEF Known, Below
  <1>7. CASE Merge
    BY <1>0, <1>1, <1>2, <1>7, MergeEffect, HeldEmpty DEF Known, Below
  <1>8. CASE SkipDrops \/ ForceExit \/ ForceClear
    BY <1>1, <1>2, <1>8, DropEffect, ClearEffect, HeldEmpty DEF Known, Below
  <1>9. QED
    BY <1>3, <1>4, <1>5, <1>6, <1>7, <1>8, QueueEffect

(* So does what is on its way from the trigger to the queue. *)
LEMMA TriggerOrderStep ==
    ASSUME TypeOK, OffInv, OrderInv, EmitInv, [Next]_vars
    PROVE  /\ \A n \in enqueued' : n <= emitted'
           /\ Below(enqueued', Held(eventCh'))
           /\ \A n \in Held(eventCh') : n <= emitted'
           /\ intake' = "append" =>
                got' # 0 /\ got' <= emitted' /\ Below(enqueued', {got'}) /\ Below({got'}, Held(eventCh'))
           /\ emitters' > 0 => trigger' = "cron"
           /\ emitted' + emitters' <= MaxEvents
           /\ trigger' = "cron" => trig' # "send"
           /\ trig' = "send" =>
                /\ emitted' > 0
                /\ Below(enqueued', {emitted'}) /\ Below(Held(eventCh'), {emitted'})
                /\ intake' = "append" => got' < emitted'
  <1> DEFINE Goal ==
           /\ \A n \in enqueued' : n <= emitted'
           /\ Below(enqueued', Held(eventCh'))
           /\ \A n \in Held(eventCh') : n <= emitted'
           /\ intake' = "append" =>
                got' # 0 /\ got' <= emitted' /\ Below(enqueued', {got'}) /\ Below({got'}, Held(eventCh'))
           /\ emitters' > 0 => trigger' = "cron"
           /\ emitted' + emitters' <= MaxEvents
           /\ trigger' = "cron" => trig' # "send"
           /\ trig' = "send" =>
                /\ emitted' > 0
                /\ Below(enqueued', {emitted'}) /\ Below(Held(eventCh'), {emitted'})
                /\ intake' = "append" => got' < emitted'
  <1> SUFFICES Goal
    OBVIOUS
  <1>0. /\ IntakeOK /\ TriggerOK /\ eventCh \in Seq(Events) /\ Len(eventCh) <= 1
        /\ enqueued \subseteq Nat /\ got \in Nat /\ emitted \in Nat /\ emitters \in Nat
        /\ MaxEvents \in Nat /\ MaxEvents > 0
    <2>1. IntakeOK /\ TriggerOK /\ MaxEvents \in Nat /\ MaxEvents > 0
      BY TypeParts, SchedulerAssumption
    <2>2. Events \subseteq Nat
      BY EventType
    <2>3. QED
      BY <2>1, <2>2 DEF IntakeOK, TriggerOK
  <1>00. Held(eventCh) \subseteq Nat /\ 0 \notin Held(eventCh)
    BY <1>0, HeldType, EventType
  <1>1. /\ \A n \in enqueued : n <= emitted
        /\ Below(enqueued, Held(eventCh)) /\ \A n \in Held(eventCh) : n <= emitted
        /\ intake = "append" =>
             got # 0 /\ got <= emitted /\ Below(enqueued, {got}) /\ Below({got}, Held(eventCh))
    BY DEF OrderInv
  <1>2. /\ emitters > 0 => trigger = "cron"
        /\ emitted + emitters <= MaxEvents
        /\ trigger = "cron" => trig # "send"
        /\ trig = "send" =>
             /\ emitted > 0
             /\ Below(enqueued, {emitted}) /\ Below(Held(eventCh), {emitted})
             /\ intake = "append" => got < emitted
    BY DEF EmitInv
  <1>3. ASSUME NEW p \in Policies, NEW t \in Triggers, Schedule(p, t)
        PROVE  Goal
    <2>1. trig = "off" /\ emitted = 0 /\ emitters = 0 /\ intake = "off"
      BY <1>3 DEF Schedule, OffInv
    <2>2. /\ trig' = trig /\ emitted' = emitted /\ emitters' = emitters /\ eventCh' = eventCh
          /\ intake' = intake /\ got' = got /\ enqueued' = enqueued
      BY <1>3 DEF Schedule, triggerVars, intakeVars, historyVars
    <2>3. QED
      BY <1>0, <1>1, <2>1, <2>2
  <1>4. CASE Start
    <2>1. trig = "off" /\ emitters = 0 /\ emitted = 0 /\ enqueued = {}
      BY <1>4 DEF Start, OffInv
    <2>2. Held(eventCh) = {}
      BY <1>00, <1>1, <2>1
    <2>3. /\ enqueued' = enqueued /\ eventCh' = eventCh /\ emitters' = emitters /\ intake' = "range"
          /\ emitted' = (IF trigger = "once" THEN 1 ELSE 0) /\ trigger' = trigger
          /\ trig' = (IF trigger = "once" THEN "send" ELSE "wait")
      BY <1>4 DEF Start, historyVars, entryVars
    <2>4. QED
      BY <1>0, <2>1, <2>2, <2>3 DEF Below
  <1>5. CASE Occur
    <2>1. /\ enqueued' = enqueued /\ eventCh' = eventCh /\ emitters' = emitters /\ intake' = intake
          /\ got' = got /\ emitted' = emitted + 1 /\ trigger' = trigger /\ trig' = "send"
          /\ trigger # "cron" /\ emitted < MaxEvents
      BY <1>5 DEF Occur, historyVars, entryVars, intakeVars
    <2>2. emitters = 0
      BY <1>0, <1>2, <2>1
    <2>3. \A n \in Nat : n <= emitted => n <= emitted + 1 /\ n < emitted + 1
      BY <1>0
    <2>4. QED
      BY <1>0, <1>00, <1>1, <2>1, <2>2, <2>3 DEF Below
  <1>6. CASE CronFires
    <2>1. /\ enqueued' = enqueued /\ eventCh' = eventCh /\ emitters' = emitters + 1
          /\ intake' = intake /\ trig' = trig /\ trig = "wait"
          /\ got' = got /\ emitted' = emitted /\ trigger' = trigger /\ trigger = "cron"
          /\ emitted + emitters < MaxEvents
      BY <1>6 DEF CronFires, historyVars, entryVars, intakeVars
    <2>2. QED
      BY <1>0, <1>1, <1>2, <2>1
  <1>7. CASE Send
    <2>1. /\ enqueued' = enqueued /\ eventCh' = <<emitted>> /\ emitters' = emitters
          /\ intake' = intake /\ trig = "send" /\ trig' # "send"
          /\ got' = got /\ emitted' = emitted /\ trigger' = trigger
      BY <1>7 DEF Send, historyVars, entryVars, intakeVars
    <2>2. Held(eventCh') = {emitted}
      <3>1. emitted \in Events
        BY <1>0, <1>2, <2>1 DEF Events
      <3>2. QED
        BY <2>1, <3>1, HeldOne
    <2>3. QED
      BY <1>0, <1>1, <1>2, <2>1, <2>2 DEF Below
  <1>8. CASE EmitReturns
    <2>1. /\ enqueued' = enqueued /\ eventCh' = eventCh /\ emitters' = emitters
          /\ intake' = intake /\ trig' = "done"
          /\ got' = got /\ emitted' = emitted /\ trigger' = trigger
      BY <1>8 DEF EmitReturns, historyVars, entryVars, intakeVars
    <2>2. QED
      BY <1>1, <1>2, <2>1
  <1>9. CASE CronEmits
    <2>1. /\ enqueued' = enqueued /\ emitters' = emitters - 1 /\ emitters > 0
          /\ intake' = intake /\ trig' = trig /\ got' = got /\ trigger' = trigger
          /\ \/ emitted' = emitted /\ eventCh' = eventCh
             \/ emitted' = emitted + 1 /\ eventCh' = <<emitted + 1>>
      BY <1>9 DEF CronEmits, historyVars, entryVars, intakeVars
    <2>2. trigger = "cron" /\ trig # "send"
      BY <1>2, <2>1
    <2>3. CASE emitted' = emitted /\ eventCh' = eventCh
      BY <1>0, <1>1, <1>2, <2>1, <2>2, <2>3
    <2>4. CASE emitted' = emitted + 1 /\ eventCh' = <<emitted + 1>>
      <3>1. Held(eventCh') = {emitted + 1}
        <4>1. emitted + 1 \in Events
          BY <1>0, <1>2, <2>1 DEF Events
        <4>2. QED
          BY <2>4, <4>1, HeldOne
      <3>2. \A n \in Nat : n <= emitted => n <= emitted + 1 /\ n < emitted + 1
        BY <1>0
      <3>3. emitted' + emitters' <= MaxEvents
        BY <1>0, <1>2, <2>1, <2>4
      <3>4. QED
        BY <1>0, <1>1, <2>1, <2>2, <2>4, <3>1, <3>2, <3>3 DEF Below
    <2>5. QED
      BY <2>1, <2>3, <2>4
  <1>10. CASE IntakeReceive
    <2>1. /\ enqueued' = enqueued /\ emitters' = emitters /\ eventCh # <<>> /\ eventCh' = <<>>
          /\ intake' = "append" /\ trig' = trig /\ got' = Head(eventCh) /\ trigger' = trigger
          /\ emitted' = emitted
      BY <1>10 DEF IntakeReceive, historyVars, entryVars
    <2>2. Head(eventCh) \in Held(eventCh) /\ Held(eventCh') = {}
      BY <1>0, <2>1, HeldTail, HeldEmpty
    <2>3. QED
      BY <1>0, <1>00, <1>1, <1>2, <2>1, <2>2 DEF Below
  <1>11. CASE IntakeAppend
    <2>1. /\ enqueued' = enqueued \cup {got} /\ emitters' = emitters /\ eventCh' = eventCh
          /\ intake = "append" /\ intake' = "ping" /\ trig' = trig /\ trigger' = trigger
          /\ emitted' = emitted
      BY <1>11 DEF IntakeAppend, entryVars, triggerVars
    <2>2. QED
      BY <1>1, <1>2, <2>1 DEF Below
  <1>12. CASE IntakePing \/ IntakeExit
    <2>1. /\ enqueued' = enqueued /\ emitters' = emitters /\ eventCh' = eventCh
          /\ intake' # "append" /\ trig' = trig /\ trigger' = trigger /\ emitted' = emitted
      BY <1>12 DEF IntakePing, IntakeExit, historyVars, entryVars, triggerVars
    <2>2. QED
      BY <1>1, <1>2, <2>1
  <1>13. ASSUME TriggerKept, IntakeKept, enqueued' = enqueued, trigger' = trigger
         PROVE  Goal
    BY <1>1, <1>2, <1>13 DEF TriggerKept, IntakeKept
  <1>14. QED
    <2>1. enqueued' = enqueued \/ IntakeAppend
      BY QueueOrderStep
    <2>2. TriggerKept \/ Start \/ Occur \/ CronFires \/ Emit \/ IntakeReceive
      BY TriggerEffect
    <2>3. IntakeKept \/ Start \/ Intake
      BY IntakeEffect
    <2>4. trigger' = trigger \/ \E p \in Policies, t \in Triggers : Schedule(p, t)
      BY EntryEffect
    <2> HIDE DEF Goal
    <2>5. QED
      BY <1>3, <1>4, <1>5, <1>6, <1>7, <1>8, <1>9, <1>10, <1>11, <1>12, <1>13, <2>1, <2>2, <2>3, <2>4
         DEF Emit, Intake

LEMMA OrderStep ==
    ASSUME TypeOK, OffInv, OrderInv, EmitInv, [Next]_vars
    PROVE  OrderInv' /\ EmitInv'
  BY QueueOrderStep, TriggerOrderStep DEF OrderInv, EmitInv, Increasing, Below, Held, Handed, Known

-----------------------------------------------------------------------------
(* g1 has ended for good. *)
LEMMA DoneStays ==
    ASSUME OffInv, [Next]_vars, intake = "done"
    PROVE  intake' = "done" /\ ~ IntakeAppend
  BY IntakeEffect DEF IntakeKept, Start, Intake, IntakeReceive, IntakeAppend, IntakePing, IntakeExit,
                      OffInv

LEMMA EndStep ==
    ASSUME TypeOK, OffInv, StopInv, OrderInv, EndInv, [Next]_vars
    PROVE  EndInv'
  <1>0. /\ IntakeOK /\ DispatchOK /\ WorkerOK /\ EntryOK
        /\ ~ force' => ~ force
        /\ ForceClosed => force
    BY TypeParts, ForceStays
  <1>1. ASSUME NEW p \in Policies, NEW t \in Triggers, policy = "none", Schedule(p, t)
        PROVE  EndInv'
    <2>1. trig = "off" /\ disp = "off" /\ ~ exhausted
      BY <1>1 DEF OffInv
    <2>2. sending = <<>> /\ disp' = disp /\ exhausted' = exhausted /\ sending' = sending
      BY <1>0, <1>1, <2>1 DEF DispatchOK, Schedule, dispVars
    <2>3. Len(sending') <= 1
      BY <2>2, HeldEmpty
    <2>4. QED
      BY <2>1, <2>2, <2>3 DEF EndInv
  <1>2. CASE policy' = policy
    <2>1. CASE DispatchKept
      <3>1. CASE exhausted
        <4>1. intake = "done" /\ intake' = "done" /\ ~ IntakeAppend
          BY <3>1, DoneStays DEF EndInv
        <4>2. queue' = queue \/ queue' = <<>> \/ Merge
          BY <1>0, <4>1, QueueEffect, DequeueEffect, HandOverEffect, DropEffect, ClearEffect
             DEF QueueKept
        <4>3. ~ Merge
          BY <1>0, <2>1, MergeEffect DEF DispatchKept
        <4>4. QED
          BY <1>0, <1>2, <2>1, <4>1, <4>2, <4>3 DEF DispatchKept, EndInv
      <3>2. CASE ~ exhausted
        BY <1>0, <1>2, <2>1, <3>2 DEF DispatchKept, EndInv
      <3>3. QED
        BY <3>1, <3>2
    <2>2. CASE Start
      <3>1. ~ exhausted /\ trig = "off"
        BY <2>2 DEF Start, OffInv
      <3>2. QED
        BY <1>2, <2>2, <3>1 DEF Start, EndInv
    <2>3. CASE Wake
      BY <1>0, <1>2, <2>3 DEF Wake, EndInv, NotifyClosed, AtClose
    <2>4. CASE Dequeue
      <3>1. /\ queue' = <<>> /\ exhausted' = exhausted /\ intake' = intake
            /\ disp' = "send" \/ (disp' = EndOrWait /\ sending' = <<>>)
            /\ policy # "QueueAll" => Len(sending') <= 1
        <4>1. CASE queue = <<>>
          <5>1. /\ queue' = <<>> /\ exhausted' = exhausted /\ intake' = intake
                /\ disp' = EndOrWait /\ sending' = sending /\ sending = <<>>
            BY <1>0, <2>4, <4>1, DequeueEffect
          <5>2. Len(sending') <= 1
            BY <5>1, HeldEmpty
          <5>3. QED
            BY <5>1, <5>2
        <4>2. CASE queue # <<>>
          <5>1. /\ queue' = <<>> /\ exhausted' = exhausted /\ intake' = intake
                /\ disp' = "send" /\ (policy # "QueueAll" => Len(sending') = 1)
            BY <1>0, <2>4, <4>2, DequeueEffect
          <5>2. ASSUME policy # "QueueAll"
                PROVE  Len(sending') <= 1
            <6>1. Len(sending') = 1
              BY <5>1, <5>2
            <6>2. QED
              BY <6>1
          <5>3. QED
            BY <5>1, <5>2
        <4>3. QED
          BY <4>1, <4>2
      <3>2. QED
        BY <1>2, <3>1 DEF EndInv, EndOrWait
    <2>5. CASE HandOver
      <3>1. /\ queue' = queue /\ exhausted' = exhausted /\ intake' = intake /\ disp = "send"
            /\ disp' = AfterSend(sending')
            /\ Len(sending') = Len(sending) - 1 /\ Len(sending) \in Nat
        BY <1>0, <2>5, HandOverEffect
      <3>2. policy # "QueueAll" => Len(sending') <= 1
        BY <3>1 DEF EndInv
      <3>3. disp' \in {"done", "wait", "dequeue", "send"} /\ (disp' = "done" => exhausted)
        BY <3>1 DEF AfterSend, EndOrWait
      <3>4. QED
        BY <1>2, <3>1, <3>2, <3>3 DEF EndInv
    <2>6. CASE Interrupt
      BY <1>2, <2>6 DEF Interrupt, EndInv, NotifyClosed
    <2>7. CASE Merge
      <3>1. /\ exhausted' = exhausted /\ intake' = intake /\ disp' = "dequeue" /\ Len(sending') = 0
        BY <1>0, <2>7, MergeEffect, HeldEmpty
      <3>2. QED
        BY <1>2, <3>1 DEF EndInv
    <2>8. CASE SkipDrops \/ ForceExit
      <3>1. /\ queue' = queue /\ exhausted' = exhausted /\ intake' = intake /\ Len(sending') = 0
            /\ disp' \in {"wait", "done"} /\ disp \in {"wait", "send"}
            /\ disp' = "wait" \/ ForceClosed
        BY <2>8, DropEffect, HeldEmpty
      <3>2. QED
        BY <1>0, <1>2, <3>1 DEF EndInv
    <2>9. QED
      BY <2>1, <2>2, <2>3, <2>4, <2>5, <2>6, <2>7, <2>8, DispatchEffect DEF Dispatch
  <1>3. QED
    BY <1>1, <1>2, EntryEffect

LEMMA ReplaceStep ==
    ASSUME TypeOK, OffInv, OrderInv, EndInv, ReplaceInv, [Next]_vars
    PROVE  ReplaceInv'
  <1>0. IntakeOK /\ DispatchOK /\ WorkerOK
    BY TypeParts
  <1>1. ASSUME NEW p \in Policies, NEW t \in Triggers, policy = "none", Schedule(p, t)
        PROVE  ReplaceInv'
    <2>1. worker = "off" /\ disp = "off"
      BY <1>1 DEF OffInv
    <2>2. worker' = worker /\ disp' = disp
      BY <1>1 DEF Schedule, workerVars, dispVars
    <2>3. QED
      BY <2>1, <2>2 DEF ReplaceInv
  <1>2. ASSUME policy' = policy, policy = "Replace"
        PROVE  /\ worker' \in {"check", "running"} => item' = prev' /\ item' # 0
               /\ disp' = "send" => prev' = 0 \/ prev' \in cancelled'
    <2>1. CASE HandOver
      <3> DEFINE h == Head(sending)
      <3>1. /\ h \in Events /\ item' = h /\ prev' = h /\ disp' = AfterSend(sending')
            /\ sending' \in Seq(Events)
            /\ Len(sending') = Len(sending) - 1 /\ Len(sending) \in Nat
        BY <1>0, <1>2, <2>1, HandOverEffect
      <3>2. Len(sending) <= 1
        BY <1>2 DEF EndInv
      <3>3. sending' = <<>>
        BY <3>1, <3>2, HeldType
      <3>4. disp' # "send"
        BY <3>1, <3>3 DEF AfterSend, EndOrWait
      <3> HIDE DEF h
      <3>5. QED
        BY <3>1, <3>4, EventType
    <2>2. ASSUME ~ HandOver
          PROVE  /\ disp' = "send" => prev' = 0 \/ prev' \in cancelled'
                 /\ prev' = prev
      <3>1. CASE DispatchKept
        BY <1>2, <3>1 DEF DispatchKept, ReplaceInv
      <3>2. CASE Start \/ Wake
        BY <3>2 DEF Start, Wake, AtClose
      <3>3. CASE Dequeue
        BY <1>0, <1>2, <3>3, DequeueEffect DEF EndOrWait
      <3>4. CASE Interrupt
        BY <3>4 DEF Interrupt
      <3>5. CASE Merge \/ SkipDrops \/ ForceExit
        BY <1>0, <3>5, MergeEffect, DropEffect
      <3>6. QED
        BY <2>2, <3>1, <3>2, <3>3, <3>4, <3>5, DispatchEffect DEF Dispatch
    <2>3. ASSUME ~ HandOver
          PROVE  worker' \in {"check", "running"} => item' = item /\ worker \in {"check", "running"}
      BY <2>3, WorkerEffect DEF WorkerKept, Start, Work, WorkerWaits, RunJob, JobEnds, WorkerExit
    <2>4. QED
      BY <1>2, <2>1, <2>2, <2>3 DEF ReplaceInv
  <1>3. QED
    BY <1>1, <1>2, EntryEffect DEF ReplaceInv

-----------------------------------------------------------------------------
(* QueueAll drops nothing but what the queue had no room for. *)
LEMMA NothingLostStep ==
    ASSUME TypeOK, OffInv, StopInv, OrderInv, EndInv, NothingLost, [Next]_vars
    PROVE  NothingLost'
  <1>0. /\ IntakeOK /\ DispatchOK /\ WorkerOK /\ EntryOK
        /\ ~ force' => ~ force
        /\ ForceClosed => force
    BY TypeParts, ForceStays
  <1>1. Handed = Held(handed) /\ Handed' = Held(handed')
    BY DEF Handed, Held
  <1> DEFINE kept == enqueued \ overflowed
  <1>2. SUFFICES ASSUME policy' = "QueueAll", ~ force'
                 PROVE  /\ kept' \subseteq Held(handed') \cup Held(queue') \cup Held(sending')
                        /\ disp' = "done" => kept' \subseteq Held(handed')
    BY <1>1 DEF NothingLost, Held
  <1>3. ASSUME NEW p \in Policies, NEW t \in Triggers, policy = "none", Schedule(p, t)
        PROVE  kept' = {}
    BY <1>3 DEF OffInv, Schedule, historyVars
  <1>4. ASSUME policy = "QueueAll"
        PROVE  /\ kept' \subseteq Held(handed') \cup Held(queue') \cup Held(sending')
               /\ disp' = "done" => kept' \subseteq Held(handed')
    <2>1. /\ kept \subseteq Held(handed) \cup Held(queue) \cup Held(sending)
          /\ disp = "done" => kept \subseteq Held(handed)
      BY <1>0, <1>1, <1>2, <1>4 DEF NothingLost
    <2>2. CASE QueueKept /\ ~ Dequeue
      <3>1. disp' = "done" => disp = "done"
        <4>1. CASE DispatchKept
          BY <4>1 DEF DispatchKept
        <4>2. CASE Start
          BY <4>2 DEF Start
        <4>3. CASE Wake \/ Interrupt \/ Merge
          BY <1>4, <4>3 DEF Wake, AtClose, Interrupt, Merge
        <4>5. CASE HandOver
          <5>1. Len(sending') = Len(sending) - 1 /\ Len(sending) \in Nat
            BY <1>0, <4>5, HandOverEffect
          <5>2. QED
            BY <2>2, <5>1 DEF QueueKept
        <4>6. CASE SkipDrops \/ ForceExit
          BY <1>0, <1>2, <1>4, <4>6, DropEffect
        <4>7. QED
          BY <2>2, <4>1, <4>2, <4>3, <4>5, <4>6, DispatchEffect DEF Dispatch
      <3>2. QED
        BY <2>1, <2>2, <3>1 DEF QueueKept
    <2>3. CASE IntakeAppend
      <3>1. /\ sending' = sending /\ handed' = handed /\ disp' = disp
            /\ enqueued' = enqueued \cup {got} /\ got \in Held(queue')
            /\ \A n \in Held(queue) : n \in Held(queue') \cup overflowed'
            /\ overflowed \subseteq overflowed' /\ intake = "append"
        BY <1>0, <2>3, AppendEffect
      <3>2. disp # "done"
        BY <1>0, <1>2, <3>1 DEF EndInv
      <3>3. QED
        BY <2>1, <3>1, <3>2
    <2>4. CASE Dequeue
      <3>1. /\ queue' = <<>> /\ handed' = handed /\ enqueued' = enqueued /\ overflowed' = overflowed
            /\ sending = <<>> /\ sending' = queue
            /\ disp' = "done" => queue = <<>>
        BY <1>0, <1>4, <2>4, DequeueEffect
      <3>2. QED
        BY <2>1, <3>1, HeldEmpty
    <2>5. CASE HandOver
      <3> DEFINE h == Head(sending)
      <3>1. /\ queue' = queue /\ enqueued' = enqueued /\ overflowed' = overflowed /\ disp = "send"
            /\ Held(sending) = {h} \cup Held(sending') /\ Held(handed') = Held(handed) \cup {h}
            /\ disp' = AfterSend(sending')
        BY <1>0, <2>5, HandOverEffect
      <3> HIDE DEF h
      <3>2. ASSUME disp' = "done"
            PROVE  Held(sending') = {} /\ Held(queue) = {}
        <4>1. sending' = <<>> /\ exhausted
          BY <1>4, <3>1, <3>2 DEF AfterSend, EndOrWait
        <4>2. queue = <<>>
          BY <1>4, <3>1, <4>1 DEF EndInv
        <4>3. QED
          BY <4>1, <4>2, HeldEmpty
      <3>3. QED
        BY <2>1, <3>1, <3>2
    <2>6. ~ Merge
      BY <1>4 DEF Merge, EndInv
    <2>7. ~ SkipDrops /\ ~ ForceExit
      BY <1>0, <1>2, <1>4 DEF SkipDrops, ForceExit
    <2>8. ~ ForceClear
      BY <1>0, <1>2 DEF ForceClear, StopInv
    <2>9. QED
      BY <2>2, <2>3, <2>4, <2>5, <2>6, <2>7, <2>8, QueueEffect
  <1>5. QED
    <2>1. CASE policy' = policy
      BY <1>2, <1>4, <2>1
    <2>2. CASE \E p \in Policies, t \in Triggers : policy = "none" /\ Schedule(p, t)
      BY <1>3, <2>2
    <2>3. QED
      BY <2>1, <2>2, EntryEffect

-----------------------------------------------------------------------------
(* The newest event is the last of the queue, or the one being sent. *)
LEMMA NewestStep ==
    ASSUME TypeOK, OffInv, StopInv, OrderInv, EndInv, NewestInv, [Next]_vars
    PROVE  NewestInv'
  <1>0. /\ IntakeOK /\ DispatchOK /\ WorkerOK /\ EntryOK
        /\ ~ force' => ~ force
        /\ ForceClosed => force
    BY TypeParts, ForceStays
  <1>1. /\ Handed = Held(handed) /\ Handed' = Held(handed') /\ enqueued \subseteq Nat
        /\ Held(queue) \subseteq enqueued /\ Held(sending) \subseteq enqueued
        /\ Increasing(queue) /\ Below(Held(sending), Held(queue))
    <2>1. Handed = Held(handed) /\ Handed' = Held(handed')
      BY DEF Handed, Held
    <2>2. enqueued \subseteq Nat
      BY <1>0, EventType DEF IntakeOK
    <2>3. QED
      BY <2>1, <2>2 DEF OrderInv, Known
  <1>2. SUFFICES ASSUME policy' \in {"Queue", "Replace"}, ~ force', NEW n \in enqueued',
                        \A m \in enqueued' : m <= n
                 PROVE  n \in Held(handed') \/ (disp' # "done" /\ n \in Held(queue') \cup Held(sending'))
    BY <1>1 DEF NewestInv, Held
  <1>3. ASSUME NEW p \in Policies, NEW t \in Triggers, policy = "none", Schedule(p, t)
        PROVE  FALSE
    BY <1>2, <1>3 DEF OffInv, Schedule, historyVars
  <1>4. policy' = policy
    BY <1>3, EntryEffect
  <1>5. CASE IntakeAppend
    <2>1. /\ disp' = disp /\ enqueued' = enqueued \cup {got} /\ got \in Held(queue')
          /\ intake = "append" /\ got \in Nat
      BY <1>0, <1>5, AppendEffect, EventType
    <2>2. n = got
      <3>1. Below(enqueued, {got})
        BY <2>1 DEF OrderInv
      <3>2. n \in enqueued => n < got
        BY <3>1 DEF Below
      <3>3. got <= n
        BY <1>2, <2>1
      <3>4. n \in Nat
        BY <1>1, <1>2, <2>1
      <3>5. QED
        BY <1>2, <2>1, <3>2, <3>3, <3>4
    <2>3. disp # "done"
      BY <1>0, <1>2, <2>1 DEF EndInv
    <2>4. QED
      BY <2>1, <2>2, <2>3
  <1>6. ASSUME enqueued' = enqueued
        PROVE  n \in Held(handed') \/ (disp' # "done" /\ n \in Held(queue') \cup Held(sending'))
    <2>1. n \in Held(handed) \/ (disp # "done" /\ n \in Held(queue) \cup Held(sending))
      BY <1>0, <1>1, <1>2, <1>4, <1>6 DEF NewestInv
    <2>2. ASSUME n \in Held(queue)
          PROVE  queue # <<>> /\ n = Latest(queue)
      <3>1. queue # <<>>
        BY <2>2, HeldEmpty
      <3>2. Latest(queue) \in Held(queue) /\ n <= Latest(queue)
        BY <1>0, <1>1, <2>2, <3>1, HeldLatest DEF IntakeOK
      <3>3. Latest(queue) \in Nat /\ n \in Nat /\ Latest(queue) <= n
        BY <1>1, <1>2, <1>6, <3>2
      <3>4. QED
        BY <3>1, <3>2, <3>3
    <2>3. ASSUME n \in Held(sending)
          PROVE  Held(queue) = {}
      <3>1. ASSUME NEW m \in Held(queue)
            PROVE  FALSE
        <4>1. m \in Nat /\ n \in Nat /\ n < m /\ m <= n
          BY <1>1, <1>2, <1>6, <2>3, <3>1 DEF Below
        <4>2. QED
          BY <4>1
      <3>2. QED
        BY <3>1
    <2>4. CASE QueueKept
      <3>1. CASE n \in Held(handed)
        BY <2>4, <3>1 DEF QueueKept
      <3>2. CASE disp # "done" /\ n \in Held(queue) \cup Held(sending)
        <4>1. disp' # "done"
          <5>1. CASE DispatchKept
            BY <3>2, <5>1 DEF DispatchKept
          <5>2. CASE Start
            BY <5>2 DEF Start
          <5>3. CASE Wake \/ Interrupt \/ Merge
            BY <1>2, <1>4, <5>3 DEF Wake, AtClose, Interrupt, Merge
          <5>4. CASE Dequeue
            <6>1. disp' = "done" => sending = <<>> /\ queue = <<>>
              BY <1>0, <5>4, DequeueEffect
            <6>2. QED
              BY <3>2, <6>1, HeldEmpty
          <5>5. CASE HandOver
            <6>1. Len(sending') = Len(sending) - 1 /\ Len(sending) \in Nat
              BY <1>0, <5>5, HandOverEffect
            <6>2. QED
              BY <2>4, <6>1 DEF QueueKept
          <5>6. CASE SkipDrops \/ ForceExit
            BY <1>0, <1>2, <1>4, <5>6, DropEffect
          <5>7. QED
            BY <5>1, <5>2, <5>3, <5>4, <5>5, <5>6, DispatchEffect DEF Dispatch
        <4>2. QED
          BY <2>4, <3>2, <4>1 DEF QueueKept
      <3>3. QED
        BY <2>1, <3>1, <3>2
    <2>5. CASE Dequeue
      <3>1. /\ handed' = handed /\ sending = <<>>
            /\ queue # <<>> => disp' = "send" /\ Held(sending') = {Latest(queue)}
        BY <1>0, <1>2, <1>4, <2>5, DequeueEffect
      <3>2. QED
        BY <2>1, <2>2, <3>1, HeldEmpty
    <2>6. CASE HandOver
      <3> DEFINE h == Head(sending)
      <3>1. /\ queue' = queue /\ disp = "send"
            /\ Held(sending) = {h} \cup Held(sending') /\ Held(handed') = Held(handed) \cup {h}
            /\ disp' = AfterSend(sending')
        BY <1>0, <2>6, HandOverEffect
      <3> HIDE DEF h
      <3>2. disp' = "done" => Held(sending') = {} /\ Held(queue) = {}
        <4>1. SUFFICES ASSUME disp' = "done"
                       PROVE  Held(sending') = {} /\ Held(queue) = {}
          OBVIOUS
        <4>2. sending' = <<>> /\ exhausted
          BY <3>1, <4>1 DEF AfterSend, EndOrWait
        <4>3. queue = <<>>
          BY <1>2, <1>4, <3>1, <4>2 DEF EndInv
        <4>4. QED
          BY <4>2, <4>3, HeldEmpty
      <3>3. QED
        BY <2>1, <3>1, <3>2
    <2>7. CASE Merge
      <3>1. /\ handed' = handed /\ disp' = "dequeue" /\ sending # <<>> /\ sending \in Seq(Events)
            /\ \/ queue = <<>> /\ Held(queue') = {Head(sending)}
               \/ queue # <<>> /\ Held(queue') = {Latest(queue)}
        BY <1>0, <2>7, MergeEffect DEF DispatchOK
      <3>2. CASE n \in Held(handed)
        BY <3>1, <3>2
      <3>3. CASE n \in Held(queue)
        BY <2>2, <3>1, <3>3
      <3>4. CASE n \in Held(sending)
        <4>1. queue = <<>>
          BY <1>0, <2>3, <3>4, HeldLatest DEF IntakeOK
        <4>2. Held(sending) = {Head(sending)}
          <5>1. /\ Tail(sending) \in Seq(Events) /\ Len(Tail(sending)) = Len(sending) - 1
                /\ Len(sending) \in Nat \ {0} /\ Held(sending) = {Head(sending)} \cup Held(Tail(sending))
            BY <3>1, HeldTail
          <5>2. Len(sending) <= 1
            BY <1>2, <1>4 DEF EndInv
          <5>3. Tail(sending) = <<>>
            BY <5>1, <5>2, HeldType
          <5>4. QED
            BY <5>1, <5>3, HeldEmpty
        <4>3. QED
          BY <3>1, <3>4, <4>1, <4>2
      <3>5. QED
        BY <2>1, <3>2, <3>3, <3>4
    <2>8. ~ SkipDrops /\ ~ ForceExit
      BY <1>0, <1>2, <1>4 DEF SkipDrops, ForceExit
    <2>9. ~ ForceClear
      BY <1>0, <1>2 DEF ForceClear, StopInv
    <2>10. QED
      BY <1>5, <2>4, <2>5, <2>6, <2>7, <2>8, <2>9, QueueEffect
  <1>7. QED
    BY <1>5, <1>6, QueueOrderStep

-----------------------------------------------------------------------------
LEMMA InitIInv ==
    Init => IInv
  <1> SUFFICES ASSUME Init
               PROVE  IInv
    OBVIOUS
  <1>1. /\ 0 \in 0..MaxEvents /\ Len(<<>>) <= 1 /\ Len(<<>>) <= MaxQueue /\ Handed = {}
    BY SchedulerAssumption, HeldEmpty DEF Handed, Init
  <1>2. TypeOK
    BY <1>1, HeldEmpty DEF Init, TypeOK
  <1>3. OffInv /\ StopInv /\ ReplaceInv
    BY DEF Init, OffInv, StopInv, ReplaceInv
  <1>4. OrderInv
    BY <1>1, HeldEmpty DEF Init, OrderInv, Known, Below
  <1>5. EmitInv
    BY SchedulerAssumption DEF Init, EmitInv
  <1>6. EndInv
    BY <1>1 DEF Init, EndInv
  <1>7. NothingLost /\ NewestInv
    BY DEF Init, NothingLost, NewestInv
  <1>8. QED
    BY <1>2, <1>3, <1>4, <1>5, <1>6, <1>7 DEF IInv

LEMMA NextIInv ==
    ASSUME IInv, [Next]_vars
    PROVE  IInv'
  <1>1. /\ TypeOK /\ OffInv /\ StopInv /\ OrderInv /\ EmitInv /\ EndInv /\ ReplaceInv
        /\ NothingLost /\ NewestInv
    BY DEF IInv
  <1>2. EntryOK /\ TriggerOK /\ IntakeOK /\ DispatchOK /\ WorkerOK
    BY <1>1, TypeParts
  <1>3. EntryOK' /\ TriggerOK' /\ IntakeOK' /\ DispatchOK' /\ WorkerOK'
    BY <1>1, <1>2, EntryStep, TriggerStep, IntakeStep, DispatchStep, WorkerStep
  <1>4. TypeOK'
    BY <1>3 DEF TypeOK, EntryOK, TriggerOK, IntakeOK, DispatchOK, WorkerOK
  <1>5. OffInv' /\ StopInv' /\ OrderInv' /\ EmitInv'
    BY <1>1, <1>2, OffStep, StopStep, OrderStep
  <1>6. EndInv' /\ ReplaceInv' /\ NothingLost' /\ NewestInv'
    BY <1>1, EndStep, ReplaceStep, NothingLostStep, NewestStep
  <1>7. QED
    BY <1>4, <1>5, <1>6 DEF IInv

(* Every reachable state of an entry's pipeline satisfies the inductive    *)
(* invariant.                                                              *)
THEOREM Inductive == Spec => []IInv
  BY InitIInv, NextIInv, PTL DEF Spec

(* The channels and the queue of relay stay within their capacities, and   *)
(* g2 holds events exactly while it sends or merges.                       *)
THEOREM TypeCorrect == Spec => []TypeOK
  <1>1. IInv => TypeOK
    BY DEF IInv
  <1>2. QED
    BY <1>1, Inductive, PTL

(* Whatever the policy and the trigger, relay hands an event to the worker *)
(* at most once, and never an older one after a newer one.                 *)
THEOREM EventsInOrder == Spec => []InOrder
  <1>1. IInv => InOrder
    BY DEF IInv, OrderInv, Increasing, InOrder
  <1>2. QED
    BY <1>1, Inductive, PTL

(* QueueAll: what intake took in and maxQueueSize had room for is handed   *)
(* over before queueAllDispatcher returns, unless Stop is forced.          *)
THEOREM NothingIsLost == Spec => []NothingLost
  <1>1. IInv => NothingLost
    BY DEF IInv
  <1>2. QED
    BY <1>1, Inductive, PTL

(* Queue and Replace: until Stop is called the newest event survives every *)
(* signal, merge and put-back until it is handed to the worker, also when  *)
(* the trigger ends by itself.                                             *)
THEOREM NewestIsKept == Spec => []LatestKept
  <1>1. IInv => LatestKept
    <2> SUFFICES ASSUME IInv, policy \in {"Queue", "Replace"}, stop = "idle", enqueued # {}
                 PROVE  LET newest == CHOOSE n \in enqueued : \A m \in enqueued : m <= n
                        IN newest \in Handed
                             \/ (disp # "done" /\ newest \in Held(queue) \cup Held(sending))
      BY DEF LatestKept
    <2> DEFINE newest == CHOOSE n \in enqueued : \A m \in enqueued : m <= n
    <2>1. \E n \in enqueued : \A m \in enqueued : m <= n
      BY DEF IInv, OrderInv
    <2>2. newest \in enqueued /\ \A m \in enqueued : m <= newest
      BY <2>1
    <2> HIDE DEF newest
    <2>3. ~ force
      BY DEF IInv, StopInv
    <2>4. newest \in Handed \/ (disp # "done" /\ newest \in Held(queue) \cup Held(sending))
      BY <2>2, <2>3 DEF IInv, NewestInv
    <2>5. QED
      BY <2>4 DEF newest
  <1>2. QED
    BY <1>1, Inductive, PTL

(* Replace: while replaceDispatcher waits to hand over an event, the       *)
(* context of the job that keeps the worker busy is cancelled.             *)
THEOREM PredecessorCancelled == Spec => []ReplacedIsCancelled
  <1>1. IInv => ReplacedIsCancelled
    <2> SUFFICES ASSUME IInv, policy = "Replace", disp = "send", worker \in {"check", "running"}
                 PROVE  item \in cancelled
      BY DEF ReplacedIsCancelled
    <2>1. item = prev /\ item # 0 /\ (prev = 0 \/ prev \in cancelled)
      BY DEF IInv, ReplaceInv
    <2>2. QED
      BY <2>1
  <1>2. QED
    BY <1>1, Inductive, PTL

-----------------------------------------------------------------------------
(* The pipeline is a box of events (EventBox).                             *)

(* No signal is missing: g2 has been told of what is in the queue, is      *)
(* being told, or is about to look.  skipDispatcher looks no more when g1  *)
(* has ended.                                                              *)
SignalInv ==
    /\ queue # <<>> => notify \/ intake = "ping" \/ disp \in {"dequeue", "merge"}
    /\ exhausted /\ policy = "Skip" => disp = "done"

LEMMA SignalStep ==
    ASSUME SignalInv, OffInv, [Next]_vars
    PROVE  SignalInv'
  <1>1. ASSUME NEW p \in Policies, NEW t \in Triggers, Schedule(p, t)
        PROVE  SignalInv'
    BY <1>1 DEF Schedule, SignalInv, OffInv, intakeVars, dispVars, entryVars
  <1>2. CASE Start \/ Occur \/ CronFires \/ ParentCancel
    BY <1>2 DEF Start, Occur, CronFires, ParentCancel, SignalInv, OffInv, intakeVars, dispVars, entryVars
  <1>3. CASE Emit
    BY <1>3 DEF Emit, Send, EmitReturns, CronEmits, SignalInv, intakeVars, dispVars, entryVars
  <1>4. CASE Intake
    BY <1>4 DEF Intake, IntakeReceive, IntakeAppend, IntakePing, IntakeExit, SignalInv, dispVars, entryVars
  <1>5. CASE Wake \/ Interrupt \/ Merge
    BY <1>5 DEF Wake, Interrupt, Merge, SignalInv, NotifyClosed, AtClose, intakeVars, entryVars
  <1>6. CASE Dequeue \/ ForceClear
    BY <1>6 DEF Dequeue, ForceClear, SignalInv, EndOrWait, dispVars, entryVars
  <1>7. CASE HandOver \/ SkipDrops \/ ForceExit
    BY <1>7 DEF HandOver, SkipDrops, ForceExit, SignalInv, AfterSend, EndOrWait, intakeVars, entryVars
  <1>8. CASE Work
    BY <1>8 DEF Work, WorkerWaits, RunJob, JobEnds, WorkerExit, SignalInv, intakeVars, dispVars, entryVars
  <1>9. CASE ForceClose \/ RunCancel \/ StopReturns
    BY <1>9 DEF ForceClose, RunCancel, StopReturns, SignalInv, intakeVars, dispVars, entryVars
  <1>10. ASSUME NEW f \in BOOLEAN, StopCall(f)
         PROVE  SignalInv'
    BY <1>10 DEF StopCall, SignalInv, intakeVars, dispVars, entryVars
  <1>11. CASE UNCHANGED vars
    BY <1>11 DEF vars, SignalInv, intakeVars, dispVars, entryVars
  <1>12. QED
    BY <1>1, <1>2, <1>3, <1>4, <1>5, <1>6, <1>7, <1>8, <1>9, <1>10, <1>11
       DEF Next, Dispatch, StopProceeds

(* A sequence of events in order has as many events as it has places. *)
LEMMA HeldCount ==
    ASSUME NEW s \in Seq(Events), Increasing(s)
    PROVE  IsFiniteSet(Held(s)) /\ Cardinality(Held(s)) = Len(s)
  <1>1. /\ Len(s) \in Nat /\ Events \subseteq Nat /\ s \in [1..Len(s) -> Events]
        /\ \A i, j \in 1..Len(s) : i < j => s[i] < s[j]
    BY EventType DEF Increasing
  <1>2. \A i \in 1..Len(s) : s[i] \in Nat
    BY <1>1
  <1>3. s \in [1..Len(s) -> Held(s)]
    BY <1>1 DEF Held
  <1>4. \A a, b \in 1..Len(s) : s[a] = s[b] => a = b
    <2> SUFFICES ASSUME NEW a \in 1..Len(s), NEW b \in 1..Len(s), a # b
                 PROVE  s[a] # s[b]
      OBVIOUS
    <2>1. a < b \/ b < a
      BY <1>1
    <2>2. s[a] < s[b] \/ s[b] < s[a]
      BY <1>1, <2>1
    <2>3. QED
      BY <1>2, <2>2
  <1>5. s \in Injection(1..Len(s), Held(s))
    BY <1>3, <1>4, Fun_IsInj
  <1>6. s \in Surjection(1..Len(s), Held(s))
    BY <1>3 DEF Surjection, Held
  <1>7. ExistsBijection(1..Len(s), Held(s))
    BY <1>5, <1>6 DEF ExistsBijection, Bijection
  <1>8. QED
    BY <1>1, <1>7, FS_NatBijection, FS_CountingElements

LEMMA SameCount == \A S : Box!Cardinality(S) = Cardinality(S)
  BY DEF Box!Cardinality, Cardinality

(* What the dispatcher has, or will find, when it is about to do something. *)
LEMMA WaitingFacts ==
    ASSUME IInv
    PROVE  /\ IntakeOK /\ DispatchOK /\ WorkerOK /\ EntryOK /\ OrderInv /\ OffInv /\ EndInv /\ StopInv
           /\ queue \in Seq(Events) /\ sending \in Seq(Events)
           /\ Waiting \subseteq Events /\ Events \subseteq Nat
           /\ Held(queue) \subseteq Waiting /\ Held(sending) \subseteq Waiting
           /\ Held(<<>>) = {}
           /\ disp \notin {"send", "merge"} => sending = <<>>
           /\ disp # "off" => policy \in AllPolicies
  <1>1. /\ IntakeOK /\ DispatchOK /\ WorkerOK /\ EntryOK /\ OrderInv /\ OffInv /\ EndInv /\ StopInv
    BY TypeParts DEF IInv
  <1>2. queue \in Seq(Events) /\ sending \in Seq(Events)
    BY <1>1 DEF IntakeOK, DispatchOK
  <1>3. /\ Waiting \subseteq Events /\ Events \subseteq Nat /\ Held(<<>>) = {}
        /\ Held(queue) \subseteq Waiting /\ Held(sending) \subseteq Waiting
    BY <1>2, HeldType, HeldEmpty, EventType DEF Waiting
  <1>4. disp \notin {"send", "merge"} => sending = <<>>
    BY <1>1 DEF DispatchOK
  <1>5. disp # "off" => policy \in AllPolicies
    BY <1>1, SchedulerAssumption DEF EntryOK, OffInv
  <1>6. QED
    BY <1>1, <1>2, <1>3, <1>4, <1>5

LEMMA AppendRefines ==
    ASSUME IInv, IntakeAppend
    PROVE  Box!BNext
  <1>1. /\ IntakeOK /\ OrderInv /\ EndInv /\ queue \in Seq(Events) /\ Events \subseteq Nat
        /\ sending \in Seq(Events) /\ Waiting \subseteq Events /\ Held(queue) \subseteq Waiting
    BY WaitingFacts
  <1>2. /\ got \in Events /\ enqueued' = enqueued \cup {got} /\ sending' = sending /\ handed' = handed
        /\ disp' = disp /\ policy' = policy /\ force' = force /\ intake = "append"
    BY <1>1, AppendEffect DEF IntakeAppend, entryVars, stopVars
  <1>3. disp # "done" \/ force
    BY <1>1, <1>2 DEF EndInv
  <1>4. \A m \in enqueued : m < got
    BY <1>1, <1>2 DEF OrderInv, Below
  <1>5. CASE HasRoom
    <2>1. queue' = Append(queue, got)
      BY <1>5 DEF IntakeAppend
    <2>2. Held(queue') = Held(queue) \cup {got}
      BY <1>1, <1>2, <2>1, HeldAppend
    <2>3. Waiting' = Waiting \cup {got}
      BY <1>2, <2>2 DEF Waiting
    <2>4. Box!Accept(got)
      BY <1>2, <1>3, <1>4, <2>3 DEF Box!Accept
    <2>5. QED
      BY <1>2, <2>4 DEF Box!BNext
  <1>6. CASE ~ HasRoom
    <2> DEFINE h == Head(queue)
    <2>1. queue' = Append(Tail(queue), got) /\ Len(queue) >= MaxQueue /\ Increasing(queue)
      BY <1>1, <1>6, SchedulerAssumption DEF IntakeAppend, HasRoom, OrderInv
    <2>2. queue # <<>>
      BY <2>1, HeldEmpty, SchedulerAssumption
    <2>3. /\ Tail(queue) \in Seq(Events) /\ h \in Events /\ Held(queue) = {h} \cup Held(Tail(queue))
          /\ Below({h}, Held(Tail(queue)))
      BY <1>1, <2>1, <2>2, HeldTail
    <2>4. Held(queue') = Held(Tail(queue)) \cup {got}
      BY <1>2, <2>1, <2>3, HeldAppend
    <2> HIDE DEF h
    <2>5. h \notin Held(Tail(queue)) /\ h \notin Held(sending) /\ h \in Waiting
      <3>1. ~ (h < h)
        BY <1>1, <2>3
      <3>2. QED
        BY <1>1, <2>3, <3>1 DEF OrderInv, Below
    <2>6. h # got
      <3>1. ~ (got < got) /\ h \in enqueued
        BY <1>1, <1>2, <2>3 DEF OrderInv, Known
      <3>2. QED
        BY <1>4, <3>1
    <2>7. Waiting' = (Waiting \ {h}) \cup {got}
      BY <1>2, <2>3, <2>4, <2>5, <2>6 DEF Waiting
    <2>8. Box!Cardinality(Waiting) >= MaxQueue
      <3>1. IsFiniteSet(Waiting) /\ Cardinality(Held(queue)) = Len(queue)
        <4>1. IsFiniteSet(Held(queue)) /\ IsFiniteSet(Held(sending)) /\ Cardinality(Held(queue)) = Len(queue)
          BY <1>1, <2>1, HeldCount DEF OrderInv
        <4>2. QED
          BY <4>1, FS_Union DEF Waiting
      <3>2. Cardinality(Held(queue)) <= Cardinality(Waiting)
        BY <1>1, <3>1, FS_Subset
      <3>3. Cardinality(Waiting) \in Nat /\ Len(queue) \in Nat /\ MaxQueue \in Nat
        BY <1>1, <3>1, FS_CardinalityType, SchedulerAssumption
      <3>4. QED
        BY <2>1, <3>1, <3>2, <3>3, SameCount
    <2>9. Box!Accept(got)
      BY <1>2, <1>3, <1>4, <2>5, <2>7, <2>8 DEF Box!Accept
    <2>10. QED
      BY <1>2, <2>9 DEF Box!BNext
  <1>7. QED
    BY <1>5, <1>6

LEMMA HeldSingle ==
    ASSUME NEW s \in Seq(Events), s # <<>>, Len(s) <= 1
    PROVE  Held(s) = {Head(s)} /\ Head(s) \in Events
  <1>1. Len(s) \in Nat /\ Len(s) # 0
    BY HeldType
  <1>2. /\ Len(Tail(s)) = Len(s) - 1 /\ Tail(s) \in Seq(Events)
        /\ Held(s) = {Head(s)} \cup Held(Tail(s)) /\ Head(s) \in Events
    BY HeldTail
  <1>3. Held(Tail(s)) = {}
    <2>1. Len(Tail(s)) = 0
      BY <1>1, <1>2
    <2>2. Tail(s) = <<>>
      BY <1>2, <2>1, HeldType
    <2>3. QED
      BY <2>2, HeldEmpty
  <1>4. QED
    BY <1>2, <1>3

LEMMA HeadOldest ==
    ASSUME NEW s \in Seq(Events), s # <<>>, Increasing(s)
    PROVE  Head(s) \in Held(s) /\ \A m \in Held(s) : Head(s) <= m
  <1>1. /\ Head(s) \in Events /\ Held(s) = {Head(s)} \cup Held(Tail(s))
        /\ \A m \in Held(Tail(s)) : Head(s) < m
    BY HeldTail DEF Below
  <1>2. Held(s) \subseteq Nat
    BY HeldType, EventType
  <1>3. ASSUME NEW m \in Held(s)
        PROVE  Head(s) <= m
    <2>1. m \in Nat /\ Head(s) \in Nat
      BY <1>1, <1>2
    <2>2. m = Head(s) \/ Head(s) < m
      BY <1>1
    <2>3. QED
      BY <2>1, <2>2
  <1>4. QED
    BY <1>1, <1>3

LEMMA DequeueRefines ==
    ASSUME IInv, Dequeue
    PROVE  [Box!BNext]_(Box!bvars)
  <1>1. /\ IntakeOK /\ DispatchOK /\ OrderInv /\ queue \in Seq(Events) /\ Events \subseteq Nat
        /\ policy \in AllPolicies /\ Held(<<>>) = {}
    BY WaitingFacts DEF Dequeue
  <1>2. /\ queue' = <<>> /\ handed' = handed /\ enqueued' = enqueued /\ sending = <<>>
        /\ disp = "dequeue" /\ policy' = policy /\ force' = force
    BY <1>1, DequeueEffect DEF Dequeue, entryVars, stopVars
  <1>3. Waiting = Held(queue) /\ Waiting' = Held(sending')
    BY <1>1, <1>2 DEF Waiting
  <1>4. CASE queue = <<>>
    <2>1. Waiting = {} /\ Waiting' = {} /\ disp' \in {"done", "wait"}
      BY <1>1, <1>3, <1>4, DequeueEffect DEF EndOrWait
    <2>2. CASE disp' = "done"
      BY <1>2, <2>1, <2>2 DEF Box!Close, Box!BNext
    <2>3. CASE disp' = "wait"
      BY <1>2, <2>1, <2>3 DEF Box!bvars
    <2>4. QED
      BY <2>1, <2>2, <2>3
  <1>5. CASE queue # <<>>
    <2>1. disp' = "send"
      BY <1>1, <1>5, DequeueEffect
    <2>2. CASE policy = "QueueAll"
      <3>1. Waiting' = Waiting
        BY <1>1, <1>3, <1>5, <2>2, DequeueEffect
      <3>2. QED
        BY <1>2, <2>1, <3>1 DEF Box!bvars
    <2>3. CASE policy \in {"Queue", "Replace"}
      <3> DEFINE n == Latest(queue)
      <3>1. Waiting' = {n}
        BY <1>1, <1>3, <1>5, <2>3, DequeueEffect
      <3>2. n \in Events /\ n \in Waiting /\ \A m \in Waiting : m <= n
        BY <1>1, <1>3, <1>5, HeldLatest DEF OrderInv
      <3> HIDE DEF n
      <3>3. Box!Supersede(n)
        BY <1>2, <2>1, <2>3, <3>1, <3>2 DEF Box!Supersede, Box!Newest
      <3>4. QED
        BY <3>2, <3>3 DEF Box!BNext
    <2>4. CASE policy = "Skip"
      <3> DEFINE n == Head(queue)
      <3>1. sending' = <<n>>
        BY <1>5, <2>4 DEF Dequeue, Picked
      <3>2. n \in Events /\ Held(queue) = {n} \cup Held(Tail(queue)) /\ Below({n}, Held(Tail(queue)))
            /\ Held(Tail(queue)) \subseteq Events
        BY <1>1, <1>5, HeldTail, HeldType DEF OrderInv
      <3> HIDE DEF n
      <3>3. Waiting' = {n}
        BY <1>3, <3>1, <3>2, HeldOne
      <3>4. n \in Waiting /\ \A m \in Waiting : n <= m
        BY <1>1, <1>3, <1>5, HeadOldest DEF OrderInv, n
      <3>5. Box!Skip(n)
        BY <1>2, <2>1, <2>4, <3>3, <3>4 DEF Box!Skip, Box!Oldest
      <3>6. QED
        BY <3>2, <3>5 DEF Box!BNext
    <2>5. QED
      BY <1>1, <2>2, <2>3, <2>4 DEF AllPolicies
  <1>6. QED
    BY <1>4, <1>5

LEMMA HandOverRefines ==
    ASSUME IInv, SignalInv, HandOver
    PROVE  Box!BNext
  <1> DEFINE h == Head(sending)
  <1>1. /\ DispatchOK /\ WorkerOK /\ OrderInv /\ EndInv /\ EntryOK /\ Events \subseteq Nat
        /\ queue \in Seq(Events) /\ sending \in Seq(Events) /\ sending # <<>> /\ policy \in AllPolicies
        /\ Waiting \subseteq Events
    BY WaitingFacts DEF HandOver, DispatchOK
  <1>2. /\ queue' = queue /\ enqueued' = enqueued /\ disp = "send" /\ h \in Events
        /\ handed' = Append(handed, h) /\ policy' = policy /\ force' = force
        /\ Held(sending) = {h} \cup Held(sending') /\ disp' = AfterSend(sending')
        /\ Below({h}, Held(sending')) /\ sending' \in Seq(Events)
    BY <1>1, HandOverEffect DEF HandOver, entryVars, stopVars
  <1>3. \A m \in Held(sending) : h <= m
    BY <1>1, HeadOldest DEF OrderInv
  <1> HIDE DEF h
  <1>4. \A m \in Held(queue) : h < m
    BY <1>1, <1>2 DEF OrderInv, Below
  <1>5. h \in Nat /\ ~ (h < h) /\ \A m \in Waiting : m \in Nat
    BY <1>1, <1>2
  <1>6. \A m \in Waiting : h <= m
    <2>1. \A m \in Held(queue) : h <= m
      BY <1>4, <1>5 DEF Waiting
    <2>2. QED
      BY <1>3, <2>1 DEF Waiting
  <1>7. h \notin Held(queue) /\ h \notin Held(sending')
    BY <1>2, <1>4, <1>5 DEF Below
  <1>8. Waiting' = Waiting \ {h} /\ h \in Waiting
    BY <1>2, <1>7 DEF Waiting
  <1>9. disp' # "done" \/ Waiting' = {} \/ force
    <2> SUFFICES ASSUME disp' = "done", ~ force
                 PROVE  Waiting' = {}
      OBVIOUS
    <2>1. sending' = <<>> /\ exhausted
      BY <1>2 DEF AfterSend, EndOrWait
    <2>2. policy # "Skip" => queue = <<>>
      BY <1>1, <1>2, <2>1 DEF EndInv
    <2>3. policy # "Skip"
      BY <1>2, <2>1 DEF SignalInv
    <2>4. QED
      BY <1>2, <2>1, <2>2, <2>3, HeldEmpty DEF Waiting
  <1>10. Box!Give(h)
    BY <1>2, <1>6, <1>8, <1>9 DEF Box!Give, Box!Oldest, Box!Closing
  <1>11. QED
    BY <1>2, <1>10 DEF Box!BNext

LEMMA MergeRefines ==
    ASSUME IInv, Merge
    PROVE  Box!BNext
  <1>1. /\ IntakeOK /\ DispatchOK /\ OrderInv /\ EndInv /\ queue \in Seq(Events)
        /\ sending \in Seq(Events) /\ Waiting \subseteq Events /\ Events \subseteq Nat
    BY WaitingFacts
  <1>2. /\ handed' = handed /\ enqueued' = enqueued /\ disp = "merge" /\ disp' = "dequeue"
        /\ sending' = <<>> /\ sending # <<>> /\ policy' = policy /\ force' = force
    BY <1>1, MergeEffect DEF Merge, entryVars, stopVars
  <1>3. policy = "Queue" /\ Len(sending) <= 1
    BY <1>1, <1>2 DEF EndInv
  <1>4. Held(sending) = {Head(sending)}
    BY <1>1, <1>2, <1>3, HeldSingle
  <1>5. PICK n \in Waiting : Waiting' = {n} /\ \A m \in Waiting : m <= n
    <2>1. Waiting' = Held(queue')
      BY <1>2, HeldEmpty DEF Waiting
    <2>2. CASE queue = <<>>
      <3>1. Held(queue') = {Head(sending)} /\ Waiting = {Head(sending)}
        BY <1>1, <1>4, <2>2, MergeEffect, HeldEmpty DEF Waiting
      <3>2. \A m \in Waiting : m \in Nat /\ m = Head(sending)
        BY <1>1, <3>1
      <3>3. \A m \in Waiting : m <= Head(sending)
        BY <3>2
      <3>4. QED
        BY <2>1, <3>1, <3>3
    <2>3. CASE queue # <<>>
      <3> DEFINE n == Latest(queue)
      <3>1. Held(queue') = {n}
        BY <1>1, <2>3, MergeEffect
      <3>2. n \in Held(queue) /\ \A m \in Held(queue) : m <= n
        BY <1>1, <2>3, HeldLatest DEF OrderInv
      <3> HIDE DEF n
      <3>3. \A m \in Held(sending) : m \in Nat /\ n \in Nat /\ m < n
        BY <1>1, <3>2, HeldType DEF OrderInv, Below
      <3>4. \A m \in Held(sending) : m <= n
        BY <3>3
      <3>5. n \in Waiting /\ \A m \in Waiting : m <= n
        BY <3>2, <3>4 DEF Waiting
      <3>6. QED
        BY <2>1, <3>1, <3>5
    <2>4. QED
      BY <2>2, <2>3
  <1>6. Box!Supersede(n)
    BY <1>2, <1>3, <1>5 DEF Box!Supersede, Box!Newest
  <1>7. QED
    BY <1>1, <1>5, <1>6 DEF Box!BNext

LEMMA DropRefines ==
    ASSUME IInv, SkipDrops \/ ForceExit
    PROVE  [Box!BNext]_(Box!bvars)
  <1>1. /\ DispatchOK /\ OrderInv /\ EndInv /\ EntryOK /\ StopInv /\ queue \in Seq(Events)
        /\ sending \in Seq(Events) /\ Events \subseteq Nat /\ Held(queue) \subseteq Waiting
        /\ Waiting \subseteq Events
    BY WaitingFacts
  <1>2. /\ queue' = queue /\ handed' = handed /\ enqueued' = enqueued /\ sending' = <<>>
        /\ policy' = policy /\ force' = force
    BY DropEffect DEF SkipDrops, ForceExit, entryVars, stopVars
  <1>3. Waiting' = Held(queue)
    BY <1>2, HeldEmpty DEF Waiting
  <1>4. CASE ForceExit
    <2>1. force /\ (disp' # "done" => disp # "done") /\ disp # "done"
      BY <1>4 DEF ForceExit, ForceClosed
    <2>2. Box!Discard
      BY <1>1, <1>2, <1>3, <2>1 DEF Box!Discard, Box!Closing
    <2>3. QED
      BY <2>2 DEF Box!BNext
  <1>5. CASE SkipDrops
    <2> DEFINE h == Head(sending)
    <2>1. disp = "send" /\ disp' = "wait" /\ policy = "Skip" /\ sending # <<>> /\ Len(sending) <= 1
      BY <1>1, <1>5 DEF SkipDrops, DispatchOK, EndInv
    <2>3. Held(sending) = {h} /\ h \in Events
      BY <1>1, <2>1, HeldSingle
    <2> HIDE DEF h
    <2>4. \A m \in Held(queue) : h < m
      BY <1>1, <2>3 DEF OrderInv, Below
    <2>5. h \in Nat /\ ~ (h < h) /\ h <= h /\ \A m \in Held(queue) : m \in Nat
      <3>1. h \in Nat /\ \A m \in Held(queue) : m \in Nat
        BY <1>1, <2>3
      <3>2. QED
        BY <3>1
    <2>6. \A m \in Held(queue) : h <= m
      BY <2>4, <2>5
    <2>7. /\ Waiting' = Waiting \ {h} /\ h \in Waiting /\ \A m \in Waiting : h <= m
      BY <1>3, <2>3, <2>4, <2>5, <2>6 DEF Waiting
    <2>8. Box!Skip(h)
      BY <1>2, <2>1, <2>7 DEF Box!Skip, Box!Oldest
    <2>9. QED
      BY <2>3, <2>8 DEF Box!BNext
  <1>6. QED
    BY <1>4, <1>5

(* The steps that nobody sees. *)
Quiet ==
    /\ queue' = queue /\ sending' = sending /\ handed' = handed /\ enqueued' = enqueued
    /\ policy' = policy /\ force' = force
    /\ disp' = "done" <=> disp = "done"

LEMMA QuietStep ==
    ASSUME OffInv,
           \/ Start \/ Occur \/ CronFires \/ ParentCancel \/ Emit \/ IntakeReceive \/ IntakePing
           \/ IntakeExit \/ Interrupt \/ Work \/ ForceClose \/ RunCancel \/ StopReturns
           \/ UNCHANGED vars
    PROVE  Quiet
  <1>1. CASE Start \/ Occur \/ CronFires \/ ParentCancel
    BY <1>1 DEF Start, Occur, CronFires, ParentCancel, Quiet, OffInv, dispVars, historyVars,
                entryVars, stopVars
  <1>2. CASE Emit
    BY <1>2 DEF Emit, Send, EmitReturns, CronEmits, Quiet, dispVars, historyVars, entryVars, stopVars
  <1>3. CASE IntakeReceive \/ IntakePing \/ IntakeExit
    BY <1>3 DEF IntakeReceive, IntakePing, IntakeExit, Quiet, dispVars, historyVars, entryVars, stopVars
  <1>4. CASE Interrupt
    BY <1>4 DEF Interrupt, Quiet, historyVars, entryVars, stopVars
  <1>5. CASE Work
    BY <1>5 DEF Work, WorkerWaits, RunJob, JobEnds, WorkerExit, Quiet, dispVars, historyVars,
                entryVars, stopVars
  <1>6. CASE ForceClose \/ RunCancel \/ StopReturns
    BY <1>6 DEF ForceClose, RunCancel, StopReturns, Quiet, dispVars, historyVars, entryVars
  <1>7. CASE UNCHANGED vars
    BY <1>7 DEF vars, Quiet, dispVars, historyVars, entryVars, stopVars
  <1>8. QED
    BY <1>1, <1>2, <1>3, <1>4, <1>5, <1>6, <1>7

LEMMA BoxStep ==
    ASSUME IInv, SignalInv, [Next]_vars
    PROVE  [Box!BNext]_(Box!bvars)
  <1>1. /\ OffInv /\ StopInv /\ EntryOK /\ Held(<<>>) = {}
        /\ disp \notin {"send", "merge"} => sending = <<>>
    BY WaitingFacts
  <1>2. CASE Quiet
    <2>1. Waiting' = Waiting /\ (disp # "done")' = (disp # "done")
      BY <1>2 DEF Quiet, Waiting, Held
    <2>2. QED
      BY <1>2, <2>1 DEF Quiet, Box!bvars
  <1>3. ASSUME NEW p \in Policies, NEW t \in Triggers, policy = "none", Schedule(p, t)
        PROVE  Box!BNext
    <2>1. /\ policy' = p /\ queue' = queue /\ sending' = sending /\ handed' = handed
          /\ enqueued' = enqueued /\ force' = force /\ disp' = disp
      BY <1>3 DEF Schedule, dispVars, historyVars, stopVars
    <2>2. Waiting' = Waiting
      BY <2>1 DEF Waiting, Held
    <2>3. Box!Configure(p)
      BY <1>3, <2>1, <2>2 DEF Box!Configure
    <2>4. QED
      BY <2>3 DEF Box!BNext
  <1>4. ASSUME NEW f \in BOOLEAN, StopCall(f)
        PROVE  [Box!BNext]_(Box!bvars)
    <2>1. /\ policy' = policy /\ queue' = queue /\ sending' = sending /\ handed' = handed
          /\ enqueued' = enqueued /\ force' = f /\ disp' = disp /\ stop = "idle"
      BY <1>4 DEF StopCall, dispVars, historyVars, entryVars
    <2>2. Waiting' = Waiting
      BY <2>1 DEF Waiting, Held
    <2>3. CASE f = TRUE
      BY <2>1, <2>2, <2>3 DEF Box!Force, Box!BNext
    <2>4. CASE f = FALSE
      <3>1. force' = force
        BY <1>1, <2>1, <2>4 DEF StopInv, EntryOK
      <3>2. QED
        BY <2>1, <2>2, <3>1 DEF Box!bvars
    <2>5. QED
      BY <2>3, <2>4
  <1>5. CASE Wake
    <2>1. /\ policy' = policy /\ queue' = queue /\ sending' = sending /\ handed' = handed
          /\ enqueued' = enqueued /\ force' = force /\ disp = "wait"
          /\ disp' = "dequeue" \/ (disp' = "done" /\ NotifyClosed)
      BY <1>5 DEF Wake, AtClose, historyVars, entryVars, stopVars
    <2>2. Waiting' = Waiting
      BY <2>1 DEF Waiting, Held
    <2>3. CASE disp' = "dequeue"
      BY <2>1, <2>2, <2>3 DEF Box!bvars
    <2>4. CASE disp' = "done" /\ NotifyClosed
      <3>1. queue = <<>> /\ sending = <<>>
        BY <1>1, <2>1, <2>4 DEF SignalInv, NotifyClosed
      <3>2. Waiting = {}
        BY <1>1, <3>1 DEF Waiting
      <3>3. Box!Close
        BY <2>1, <2>2, <2>4, <3>2 DEF Box!Close
      <3>4. QED
        BY <3>3 DEF Box!BNext
    <2>5. QED
      BY <2>1, <2>3, <2>4
  <1>6. CASE ForceClear
    <2>1. /\ policy' = policy /\ queue' = <<>> /\ sending' = sending /\ handed' = handed
          /\ enqueued' = enqueued /\ force' = force /\ disp' = disp /\ force
      BY <1>1, <1>6 DEF ForceClear, StopInv, dispVars, historyVars, entryVars
    <2>2. Waiting' \subseteq Waiting
      BY <1>1, <2>1 DEF Waiting
    <2>3. Box!Discard
      BY <2>1, <2>2 DEF Box!Discard, Box!Closing
    <2>4. QED
      BY <2>3 DEF Box!BNext
  <1>7. QED
    BY <1>1, <1>2, <1>3, <1>4, <1>5, <1>6, QuietStep, AppendRefines, DequeueRefines, HandOverRefines,
       MergeRefines, DropRefines DEF Next, Intake, Dispatch, StopProceeds

(* The goroutines of an entry and the channels between them behave as one  *)
(* box of events: an event that relay.intake takes in is handed to the     *)
(* worker once and in turn, or it leaves in a way that its overlap policy, *)
(* maxQueueSize or forceStop allows; and only forceStop ends the           *)
(* dispatcher while something waits.                                       *)
THEOREM PipelineIsABox == Spec => ImplementsBox
  <1>1. Init => SignalInv /\ Box!BInit
    <2> SUFFICES ASSUME Init
                 PROVE  SignalInv /\ Box!BInit
      OBVIOUS
    <2>1. SignalInv
      BY DEF Init, SignalInv
    <2>2. Waiting = {}
      BY HeldEmpty DEF Init, Waiting
    <2>3. Box!BInit
      BY <2>2 DEF Init, Box!BInit
    <2>4. QED
      BY <2>1, <2>3
  <1>2. IInv /\ SignalInv /\ [Next]_vars => SignalInv' /\ [Box!BNext]_(Box!bvars)
    BY SignalStep, BoxStep DEF IInv
  <1>3. QED
    BY <1>1, <1>2, Inductive, PTL DEF Spec, ImplementsBox, Box!BSpec
=============================================================================
