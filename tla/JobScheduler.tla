---------------------------- MODULE JobScheduler ----------------------------
(***************************************************************************)
(* The in-process scheduler of RLA (rla/internal/scheduler): the pipeline  *)
(* of one entry, that is a trigger, the relay's intake (g1) and dispatcher *)
(* (g2), and a worker, with the channels between them, and Scheduler.Stop. *)
(* Entries share nothing but the calls of the scheduler.                   *)
(*                                                                         *)
(* Events are numbered in the order in which they occur.  A job has a      *)
(* context of its own, named by its event, whose parent forceStop cancels. *)
(***************************************************************************)
EXTENDS Naturals, Sequences

CONSTANTS
    Policies,    \* overlap policies that Schedule may be given
    Triggers,    \* and triggers
    MaxQueue,    \* maxQueueSize
    MaxEvents    \* bound: ticks, or events of the source

AllPolicies == {"Skip", "Queue", "QueueAll", "Replace"}
AllTriggers == {"interval", "cron", "once", "event"}

ASSUME SchedulerAssumption ==
    /\ Policies \subseteq AllPolicies
    /\ Triggers \subseteq AllTriggers
    /\ MaxQueue \in Nat \ {0}
    /\ MaxEvents \in Nat \ {0}

VARIABLES
    policy, trigger,   \* of the entry
    \* the trigger
    trig,       \* where Emit is; "done" when eventCh is closed
    emitted,    \* events so far
    emitters,   \* goroutines of the cron library that are about to send
    eventCh,    \* capacity 1
    \* the relay
    intake,     \* where g1 is; "done" when notifyCh is closed
    got,        \* the event g1 has received
    queue,
    notify,     \* notifyCh, capacity 1
    disp,       \* where g2 is; workCh is closed when g1 and g2 are "done"
    sending,    \* dequeued events that g2 still has to send
    exhausted,  \* g2 has seen notifyCh closed
    prev,       \* replaceDispatcher: the event of cancelPrev, or 0
    \* the worker
    worker, item,
    cancelled,  \* events whose own context is cancelled
    \* Stop
    stop, force,
    ctxDone,    \* the run context is cancelled
    crashed,    \* a send on a closed channel has panicked
    \* history
    enqueued, overflowed,
    handed      \* what the worker received, in order

entryVars == <<policy, trigger>>
triggerVars == <<trig, emitted, emitters, eventCh>>
intakeVars == <<intake, got, notify>>
dispVars == <<disp, sending, exhausted, prev>>
workerVars == <<worker, item>>
stopVars == <<stop, force, ctxDone>>
historyVars == <<enqueued, overflowed, handed>>
vars == <<entryVars, triggerVars, intakeVars, queue, dispVars, workerVars, cancelled,
          stopVars, crashed, historyVars>>

-----------------------------------------------------------------------------
(* Schedule; Start launches the goroutines.  OnceTrigger sends at once, and *)
(* queueAllDispatcher looks into the queue before it waits.                 *)
Schedule(p, t) ==
    /\ trig = "off"
    /\ policy' = p /\ trigger' = t
    /\ UNCHANGED <<triggerVars, intakeVars, queue, dispVars, workerVars, cancelled,
                   stopVars, crashed, historyVars>>

Start ==
    /\ trig = "off" /\ policy # "none"
    /\ trig' = IF trigger = "once" THEN "send" ELSE "wait"
    /\ emitted' = IF trigger = "once" THEN 1 ELSE 0
    /\ intake' = "range" /\ worker' = "away"
    /\ disp' = IF policy = "QueueAll" THEN "dequeue" ELSE "wait"
    /\ UNCHANGED <<entryVars, emitters, eventCh, got, notify, queue, sending, exhausted, prev,
                   item, cancelled, stopVars, crashed, historyVars>>

-----------------------------------------------------------------------------
(* Trigger.Emit. *)

(* The ticker fires, or the source channel has an event. *)
Occur ==
    /\ trigger \in {"interval", "event"} /\ trig = "wait" /\ emitted < MaxEvents
    /\ emitted' = emitted + 1
    /\ trig' = "send"
    /\ UNCHANGED <<entryVars, emitters, eventCh, intakeVars, queue, dispVars, workerVars,
                   cancelled, stopVars, crashed, historyVars>>

Send ==
    /\ trig = "send" /\ eventCh = <<>>
    /\ eventCh' = <<emitted>>
    /\ trig' = IF trigger = "once" THEN "done" ELSE "wait"
    /\ UNCHANGED <<entryVars, emitted, emitters, intakeVars, queue, dispVars, workerVars,
                   cancelled, stopVars, crashed, historyVars>>

(* Emit returns and eventCh is closed: the context is cancelled, or the    *)
(* source channel of an EventTrigger is closed.                            *)
EmitReturns ==
    /\ \/ ctxDone /\ trig \in {"wait", "send"}
       \/ trigger = "event" /\ trig = "wait"
    /\ trig' = "done"
    /\ UNCHANGED <<entryVars, emitted, emitters, eventCh, intakeVars, queue, dispVars,
                   workerVars, cancelled, stopVars, crashed, historyVars>>

(* The cron library starts a goroutine at each scheduled time until it is  *)
(* stopped; Stop does not wait for those that have been started.           *)
CronFires ==
    /\ trigger = "cron" /\ trig = "wait" /\ emitted + emitters < MaxEvents
    /\ emitters' = emitters + 1
    /\ UNCHANGED <<entryVars, trig, emitted, eventCh, intakeVars, queue, dispVars, workerVars,
                   cancelled, stopVars, crashed, historyVars>>

(* The select of emitter: send, give up if the context is cancelled, drop  *)
(* the tick if neither is possible.  A closed channel counts as ready, and *)
(* the send panics.                                                        *)
CronEmits ==
    /\ emitters > 0
    /\ emitters' = emitters - 1
    /\ \/ trig = "done" /\ crashed' = TRUE /\ UNCHANGED <<emitted, eventCh>>
       \/ /\ trig # "done" /\ eventCh = <<>>
          /\ emitted' = emitted + 1 /\ eventCh' = <<emitted + 1>> /\ UNCHANGED crashed
       \/ ctxDone /\ UNCHANGED <<emitted, eventCh, crashed>>
       \/ trig # "done" /\ eventCh # <<>> /\ UNCHANGED <<emitted, eventCh, crashed>>
    /\ UNCHANGED <<entryVars, trig, intakeVars, queue, dispVars, workerVars, cancelled,
                   stopVars, historyVars>>

-----------------------------------------------------------------------------
(* relay.intake. *)
IntakeReceive ==
    /\ intake = "range" /\ eventCh # <<>>
    /\ got' = Head(eventCh) /\ eventCh' = <<>>
    /\ intake' = "append"
    /\ UNCHANGED <<entryVars, trig, emitted, emitters, queue, notify, dispVars, workerVars,
                   cancelled, stopVars, crashed, historyVars>>

(* Mutant: off by one. *)
RoomOffByOne == Len(queue) <= MaxQueue

HasRoom == Len(queue) < MaxQueue

(* Under the mutex: the oldest event makes room. *)
IntakeAppend ==
    /\ intake = "append"
    /\ queue' = Append(IF HasRoom THEN queue ELSE Tail(queue), got)
    /\ overflowed' = IF HasRoom THEN overflowed ELSE overflowed \cup {Head(queue)}
    /\ enqueued' = enqueued \cup {got}
    /\ intake' = "ping"
    /\ UNCHANGED <<entryVars, triggerVars, got, notify, dispVars, workerVars, cancelled,
                   stopVars, crashed, handed>>

(* Mutant: the ping waits for room in notifyCh. *)
IntakePingBlocking ==
    /\ intake = "ping" /\ ~ notify
    /\ notify' = TRUE
    /\ intake' = "range" /\ got' = 0
    /\ UNCHANGED <<entryVars, triggerVars, queue, dispVars, workerVars, cancelled,
                   stopVars, crashed, historyVars>>

(* Does not block: a signal that is pending stands for this event too. *)
IntakePing ==
    /\ intake = "ping"
    /\ notify' = TRUE
    /\ intake' = "range" /\ got' = 0
    /\ UNCHANGED <<entryVars, triggerVars, queue, dispVars, workerVars, cancelled,
                   stopVars, crashed, historyVars>>

IntakeExit ==
    /\ intake = "range" /\ eventCh = <<>> /\ trig = "done"
    /\ intake' = "done"
    /\ UNCHANGED <<entryVars, triggerVars, got, queue, notify, dispVars, workerVars, cancelled,
                   stopVars, crashed, historyVars>>

-----------------------------------------------------------------------------
(* dispatcher.run. *)
Latest(q) == q[Len(q)]
ForceClosed == force /\ stop \in {"abort", "cancel", "wait", "returned"}
ForceCancelled == force /\ stop \in {"cancel", "wait", "returned"}
EndOrWait == IF exhausted THEN "done" ELSE "wait"

(* A closed notifyCh still delivers the signal in its buffer. *)
NotifyClosed == intake = "done" /\ ~ notify

(* skipDispatcher leaves it at that, the others look into the queue once   *)
(* more.                                                                   *)
AtClose == IF policy = "Skip" THEN "done" ELSE "dequeue"

(* The outer select: a signal, or notifyCh is closed. *)
Wake ==
    /\ disp = "wait"
    /\ \/ notify /\ notify' = FALSE /\ disp' = "dequeue" /\ UNCHANGED exhausted
       \/ /\ NotifyClosed
          /\ disp' = AtClose
          /\ exhausted' = TRUE /\ UNCHANGED notify
    /\ UNCHANGED <<entryVars, triggerVars, intake, got, queue, sending, prev, workerVars,
                   cancelled, stopVars, crashed, historyVars>>

(* Mutant: QueueAll keeps the newest only. *)
PickedLatest(q) == IF policy = "Skip" THEN <<Head(q)>> ELSE <<Latest(q)>>

(* Mutant: the last one in is the first one out. *)
PickedReversed(q) == CASE policy = "Skip" -> <<Head(q)>>
                       [] policy = "QueueAll" -> [i \in 1..Len(q) |-> q[Len(q) + 1 - i]]
                       [] OTHER -> <<Latest(q)>>

(* What is sent of the queue. *)
Picked(q) == CASE policy = "Skip" -> <<Head(q)>>
               [] policy = "QueueAll" -> q
               [] OTHER -> <<Latest(q)>>

(* Under the mutex the queue is read and cleared; replaceDispatcher then   *)
(* cancels the job it started last.                                        *)
Dequeue ==
    /\ disp = "dequeue"
    /\ IF queue = <<>>
       THEN disp' = EndOrWait /\ UNCHANGED <<sending, cancelled>>
       ELSE /\ disp' = "send" /\ sending' = Picked(queue)
            /\ cancelled' = IF policy = "Replace" THEN cancelled \cup ({prev} \ {0}) ELSE cancelled
    /\ queue' = <<>>
    /\ UNCHANGED <<entryVars, triggerVars, intakeVars, exhausted, prev, workerVars, stopVars,
                   crashed, historyVars>>

(* Mutant: cancelPrev is set once. *)
TrackedFirst == IF policy = "Replace" /\ prev = 0 THEN Head(sending) ELSE prev

(* replaceDispatcher remembers how to cancel the job it hands over. *)
Tracked == IF policy = "Replace" THEN Head(sending) ELSE prev

(* Where a dispatcher goes when the events rest are still to be sent.      *)
AfterSend(rest) ==
    CASE rest # <<>> -> "send"
      [] rest = <<>> /\ policy = "Queue" /\ ~ exhausted -> "dequeue"
      [] OTHER -> EndOrWait

(* workCh has no buffer: the worker is waiting and receives the item.      *)
HandOver ==
    /\ disp = "send" /\ worker = "ready"
    /\ worker' = "check" /\ item' = Head(sending)
    /\ handed' = Append(handed, Head(sending))
    /\ prev' = Tracked
    /\ sending' = Tail(sending)
    /\ disp' = AfterSend(Tail(sending))
    /\ UNCHANGED <<entryVars, triggerVars, intakeVars, queue, exhausted, cancelled, stopVars,
                   crashed, enqueued, overflowed>>

(* skipDispatcher: nobody is receiving. *)
SkipDrops ==
    /\ disp = "send" /\ policy = "Skip" /\ worker # "ready"
    /\ disp' = "wait" /\ sending' = <<>>
    /\ UNCHANGED <<entryVars, triggerVars, intakeVars, queue, exhausted, prev, workerVars,
                   cancelled, stopVars, crashed, historyVars>>

(* queueDispatcher: a signal, or the end of g1, while it is sending ...    *)
Interrupt ==
    /\ disp = "send" /\ policy = "Queue" /\ ~ exhausted
    /\ \/ notify /\ notify' = FALSE /\ UNCHANGED exhausted
       \/ NotifyClosed /\ exhausted' = TRUE /\ UNCHANGED notify
    /\ disp' = "merge"
    /\ UNCHANGED <<entryVars, triggerVars, intake, got, queue, sending, prev, workerVars,
                   cancelled, stopVars, crashed, historyVars>>

(* Mutant: it puts back its own event in any case. *)
MergedOwn == <<Head(sending)>>

(* ... and it puts back the newest event, its own if no other has come.    *)
Merged == <<IF queue = <<>> THEN Head(sending) ELSE Latest(queue)>>

(* Mutant: it waits for the next signal. *)
MergeWaits ==
    /\ disp = "merge"
    /\ queue' = Merged
    /\ sending' = <<>> /\ disp' = IF exhausted THEN "dequeue" ELSE "wait"
    /\ UNCHANGED <<entryVars, triggerVars, intakeVars, exhausted, prev, workerVars, cancelled,
                   stopVars, crashed, historyVars>>

Merge ==
    /\ disp = "merge"
    /\ queue' = Merged
    /\ sending' = <<>> /\ disp' = "dequeue"
    /\ UNCHANGED <<entryVars, triggerVars, intakeVars, exhausted, prev, workerVars, cancelled,
                   stopVars, crashed, historyVars>>

(* forceCh is closed.  queueAllDispatcher returns from deliver only.       *)
ForceExit ==
    /\ ForceClosed
    /\ \/ disp = "wait" /\ disp' = "done"
       \/ /\ disp = "send" /\ policy # "Skip"
          /\ disp' = IF policy = "QueueAll" THEN EndOrWait ELSE "done"
    /\ sending' = <<>>
    /\ UNCHANGED <<entryVars, triggerVars, intakeVars, queue, exhausted, prev, workerVars,
                   cancelled, stopVars, crashed, historyVars>>

-----------------------------------------------------------------------------
(* worker.run. *)
WorkerWaits ==
    /\ worker = "away"
    /\ worker' = "ready"
    /\ UNCHANGED <<entryVars, triggerVars, intakeVars, queue, dispVars, item, cancelled,
                   stopVars, crashed, historyVars>>

(* runJob skips a job whose context is cancelled. *)
RunJob ==
    /\ worker = "check"
    /\ IF ForceCancelled \/ item \in cancelled
       THEN worker' = "away" /\ item' = 0
       ELSE worker' = "running" /\ UNCHANGED item
    /\ UNCHANGED <<entryVars, triggerVars, intakeVars, queue, dispVars, cancelled, stopVars,
                   crashed, historyVars>>

(* Job.Run returns or panics. *)
JobEnds ==
    /\ worker = "running"
    /\ worker' = "away" /\ item' = 0
    /\ UNCHANGED <<entryVars, triggerVars, intakeVars, queue, dispVars, cancelled, stopVars,
                   crashed, historyVars>>

(* relay.run has closed workCh. *)
WorkerExit ==
    /\ worker = "ready" /\ disp = "done" /\ intake = "done"
    /\ worker' = "done"
    /\ UNCHANGED <<entryVars, triggerVars, intakeVars, queue, dispVars, item, cancelled,
                   stopVars, crashed, historyVars>>

-----------------------------------------------------------------------------
(* Scheduler.Stop, and the context that Start was given. *)
StopCall(f) ==
    /\ trig # "off" /\ stop = "idle"
    /\ force' = f
    /\ stop' = IF f THEN "clear" ELSE "cancel"
    /\ UNCHANGED <<entryVars, triggerVars, intakeVars, queue, dispVars, workerVars, cancelled,
                   ctxDone, crashed, historyVars>>

(* relay.forceStop: the queue is cleared, forceCh closed, forceCtx cancelled. *)
ForceClear ==
    /\ stop = "clear"
    /\ queue' = <<>>
    /\ stop' = "close"
    /\ UNCHANGED <<entryVars, triggerVars, intakeVars, dispVars, workerVars, cancelled, force,
                   ctxDone, crashed, historyVars>>

ForceClose ==
    /\ stop \in {"close", "abort"}
    /\ stop' = IF stop = "close" THEN "abort" ELSE "cancel"
    /\ UNCHANGED <<entryVars, triggerVars, intakeVars, queue, dispVars, workerVars, cancelled,
                   force, ctxDone, crashed, historyVars>>

RunCancel ==
    /\ stop = "cancel"
    /\ stop' = "wait" /\ ctxDone' = TRUE
    /\ UNCHANGED <<entryVars, triggerVars, intakeVars, queue, dispVars, workerVars, cancelled,
                   force, crashed, historyVars>>

(* wg.Wait returns: trigger, relay and worker have ended. *)
StopReturns ==
    /\ stop = "wait" /\ trig = "done" /\ worker = "done"
    /\ stop' = "returned"
    /\ UNCHANGED <<entryVars, triggerVars, intakeVars, queue, dispVars, workerVars, cancelled,
                   force, ctxDone, crashed, historyVars>>

ParentCancel ==
    /\ trig # "off" /\ ~ ctxDone
    /\ ctxDone' = TRUE
    /\ UNCHANGED <<entryVars, triggerVars, intakeVars, queue, dispVars, workerVars, cancelled,
                   stop, force, crashed, historyVars>>

-----------------------------------------------------------------------------
Init ==
    /\ policy = "none" /\ trigger = "none"
    /\ trig = "off" /\ emitted = 0 /\ emitters = 0 /\ eventCh = <<>>
    /\ intake = "off" /\ got = 0 /\ queue = <<>> /\ notify = FALSE
    /\ disp = "off" /\ sending = <<>> /\ exhausted = FALSE /\ prev = 0
    /\ worker = "off" /\ item = 0 /\ cancelled = {}
    /\ stop = "idle" /\ force = FALSE /\ ctxDone = FALSE /\ crashed = FALSE
    /\ enqueued = {} /\ overflowed = {} /\ handed = <<>>

Emit == Send \/ EmitReturns \/ CronEmits
Intake == IntakeReceive \/ IntakeAppend \/ IntakePing \/ IntakeExit
Dispatch == Wake \/ Dequeue \/ HandOver \/ SkipDrops \/ Interrupt \/ Merge \/ ForceExit
Work == WorkerWaits \/ RunJob \/ JobEnds \/ WorkerExit
StopProceeds == ForceClear \/ ForceClose \/ RunCancel \/ StopReturns

Next ==
    /\ ~ crashed
    /\ \/ \E p \in Policies, t \in Triggers : policy = "none" /\ Schedule(p, t)
       \/ Start \/ Occur \/ CronFires \/ ParentCancel
       \/ Emit \/ Intake \/ Dispatch \/ Work \/ StopProceeds
       \/ \E f \in BOOLEAN : StopCall(f)

Spec == Init /\ [][Next]_vars

(* Goroutines are scheduled, and jobs return. *)
Fairness ==
    /\ WF_vars(~ crashed /\ (Send \/ (ctxDone /\ EmitReturns)))
    /\ WF_vars(~ crashed /\ Intake)
    /\ WF_vars(~ crashed /\ Dispatch)
    /\ WF_vars(~ crashed /\ Work)
    /\ WF_vars(~ crashed /\ StopProceeds)

FairSpec == Spec /\ Fairness

-----------------------------------------------------------------------------
Events == 1..MaxEvents

(* Channels and the queue stay within their capacities. *)
TypeOK ==
    /\ policy \in Policies \cup {"none"} /\ trigger \in Triggers \cup {"none"}
    /\ trig \in {"off", "wait", "send", "done"}
    /\ emitted \in 0..MaxEvents /\ emitters \in 0..MaxEvents
    /\ eventCh \in Seq(Events) /\ Len(eventCh) <= 1
    /\ intake \in {"off", "range", "append", "ping", "done"} /\ got \in Events \cup {0}
    /\ queue \in Seq(Events) /\ Len(queue) <= MaxQueue
    /\ notify \in BOOLEAN
    /\ disp \in {"off", "wait", "dequeue", "send", "merge", "done"}
    /\ sending \in Seq(Events) /\ Len(sending) <= MaxQueue
    /\ (disp \in {"send", "merge"}) <=> (sending # <<>>)
    /\ exhausted \in BOOLEAN /\ prev \in Events \cup {0}
    /\ worker \in {"off", "away", "ready", "check", "running", "done"}
    /\ item \in Events \cup {0} /\ cancelled \subseteq Events
    /\ stop \in {"idle", "clear", "close", "abort", "cancel", "wait", "returned"}
    /\ force \in BOOLEAN /\ ctxDone \in BOOLEAN /\ crashed \in BOOLEAN
    /\ enqueued \subseteq Events /\ overflowed \subseteq Events /\ handed \in Seq(Events)

(* Whatever the policy, the worker receives an event once, and never an    *)
(* older one after a newer one.                                            *)
InOrder ==
    \A i, j \in 1..Len(handed) : i < j => handed[i] < handed[j]

Handed == { handed[i] : i \in 1..Len(handed) }
Held(q) == { q[i] : i \in 1..Len(q) }

(* QueueAll, "Use this when each event carries unique data that must not   *)
(* be dropped": what intake took in and the queue had room for is handed   *)
(* to the worker, or will be when the dispatcher returns, unless by force. *)
NothingLost ==
    (policy = "QueueAll" /\ ~ force) =>
        /\ enqueued \ overflowed \subseteq Handed \cup Held(queue) \cup Held(sending)
        /\ disp = "done" => enqueued \ overflowed \subseteq Handed

(* Queue and Replace keep the newest event through every coalesced signal, *)
(* merge and put-back until Stop is called, also when the trigger comes to *)
(* its end before: when the dispatcher returns for that, the newest event  *)
(* of all was handed to the worker.                                        *)
LatestKept ==
    (policy \in {"Queue", "Replace"} /\ stop = "idle" /\ enqueued # {}) =>
        LET newest == CHOOSE n \in enqueued : \A m \in enqueued : m <= n
        IN newest \in Handed \/ (disp # "done" /\ newest \in Held(queue) \cup Held(sending))

(* While replaceDispatcher waits to hand over an event, the context of the *)
(* job that keeps the worker busy is cancelled.                            *)
ReplacedIsCancelled ==
    (policy = "Replace" /\ disp = "send" /\ worker \in {"check", "running"})
        => item \in cancelled

(* An event that was taken in, or a newer one, reaches the worker, except  *)
(* under Skip: no signal between g1 and g2 is lost for good.  Stop excuses *)
(* Queue and Replace, QueueAll only when forced.                           *)
Delivered ==
    \A n \in Events :
        (n \in enqueued /\ policy # "Skip") ~>
            \/ n \in Handed \cup overflowed
            \/ policy # "QueueAll" /\ (stop # "idle" \/ \E m \in Handed : m > n)
            \/ force \/ crashed

(* Stop returns, whatever the goroutines were waiting for, with all of     *)
(* them ended.                                                             *)
StopEnds ==
    (stop # "idle") ~> (crashed \/ (stop = "returned" /\ disp = "done" /\ intake = "done"))

(* Seen from the trigger and the jobs, g1, g2, the queue and the signals   *)
(* between them are one box of events.                                     *)
Waiting == Held(queue) \cup Held(sending)
Box == INSTANCE EventBox WITH Capacity <- MaxQueue, accepted <- enqueued, waiting <- Waiting,
                              given <- handed, open <- (disp # "done"), forced <- force
ImplementsBox == Box!BSpec
=============================================================================
