----------------------- MODULE FirmwareUpdatesProofs ------------------------
(***************************************************************************)
(* Proofs about the firmware manager, for any number of updates, bundles,  *)
(* switches, workers, cancellations and faults.                            *)
(*                                                                         *)
(* The module first says what every action does, in plain facts (the       *)
(* lemmas ...Effect); RowEffect, PoolEffect, CallsEffect, TableEffect and  *)
(* FaultlessPool then sort the steps of Next into a few kinds, and there   *)
(* is one lemma ...Step for every part of the inductive invariant IInv.    *)
(***************************************************************************)
EXTENDS FirmwareUpdates, FiniteSetTheorems, TLAPS

(* What a copy of a row looks like in the batch and in a job. *)
ItemOK(i) ==
    /\ i \in Copy
    /\ \/ i.state = "QUEUED" /\ ~ i.exec
       \/ i.state \in Active /\ InSteps(i.upd, i.state)
JobOK(j) ==
    \/ j = NoJob
    \/ /\ j \in Job
       /\ j.pc = "start" => j.state = "QUEUED" /\ ~ j.exec
       /\ j.pc # "start" => j.state \in Active /\ InSteps(j.upd, j.state)
       /\ j.pc = "save" => j.outcome # "none"

(* The table: rows have their types, an active one is in a state of its    *)
(* strategy, a queued one was never worked on.                             *)
RowInv ==
    /\ row \in [Updates -> [state : States, exec : BOOLEAN]]
    /\ \A u \in Updates : row[u].state \in Active => InSteps(u, row[u].state)
    /\ \A u \in Updates : row[u].state = "QUEUED" => ~ row[u].exec
    /\ completed \subseteq Updates
    /\ \A u \in Updates : row[u].state = "COMPLETED" => u \in completed

(* The pool: no batch between cycles, and no job but while the scheduler   *)
(* waits; between the two queries the batch has only rows that the second  *)
(* one will not return.                                                    *)
PoolInv ==
    /\ sched \in {"idle", "fetched", "waiting"}
    /\ \A i \in batch : ItemOK(i)
    /\ job \in [Workers -> Job \cup {NoJob}]
    /\ \A w \in Workers : JobOK(job[w])
    /\ stopping \in BOOLEAN
    /\ sched = "idle" => batch = {}
    /\ sched # "waiting" => \A w \in Workers : job[w] = NoJob
    /\ sched = "fetched" => \A i \in batch : i.state = "QUEUED" /\ row[i.upd].state \notin Active

(* An update is in one item or in one job at most.                         *)
Alone ==
    /\ \A i, k \in batch : i.upd = k.upd => i = k
    /\ \A w \in Workers, i \in batch : job[w].upd # i.upd
    /\ \A w, x \in Workers : job[w].upd \in Updates /\ job[w].upd = job[x].upd => w = x

(* Whatever is worked on has its predecessors completed.  What matters is  *)
(* the history: the row of a completed update may be cancelled later.      *)
EarlierIn(u, done) == \A v \in Updates : SameBundle(u, v) /\ Order[v] < Order[u] => v \in done
OrderInv ==
    /\ \A i \in batch : EarlierIn(i.upd, completed)
    /\ \A w \in Workers : job[w].upd \in Updates => EarlierIn(job[w].upd, completed)
    /\ \A u \in Updates : row[u].state \in Active \/ u \in completed => EarlierIn(u, completed)

(* The calls: one that is saving has a row left to save and is the only one*)
(* of its switch; only existing rows are cancelled, fetched and processed. *)
CallInv ==
    /\ call \in [Bundles -> {"idle", "saving", "done"}]
    /\ cancel \in [Updates -> {"idle", "job", "write", "bundle", "done"}]
    /\ \A b \in Bundles : call[b] = "saving" => \E u \in Updates : u \in Missing(b)
    /\ \A u \in Updates : call[BundleOf[u]] = "idle" => row[u].state = "none"
    /\ \A u \in Updates : cancel[u] # "idle" => row[u].state # "none"
    /\ \A i \in batch : row[i.upd].state # "none"
    /\ \A w \in Workers : job[w].upd \in Updates => row[job[w].upd].state # "none"
    /\ \A b, c \in Bundles :
         call[b] = "saving" /\ call[c] = "saving" /\ SwitchOf[b] = SwitchOf[c] => b = c

(* The copy in an item or a job agrees with the row while nobody cancels   *)
(* the update, except that a queued row may have been cancelled with the   *)
(* rest of its bundle.                                                     *)
SyncItem(i, r, c) ==
    c = "idle" =>
      /\ i.state = "QUEUED" => r.state \in {"QUEUED", "CANCELLED"}
      /\ i.state # "QUEUED" => r.state = i.state /\ r.exec = i.exec
SyncJob(j, r, c) ==
    c = "idle" =>
      /\ j.pc = "start" => r.state \in {"QUEUED", "CANCELLED"}
      /\ j.pc \in {"step", "save"} => r.state = j.state /\ r.exec = j.exec
      /\ j.pc = "cascade" => r.state \in Active \cup {"FAILED"}
SyncInv ==
    /\ \A i \in batch : SyncItem(i, row[i.upd], cancel[i.upd])
    /\ \A w \in Workers : job[w].upd \in Updates =>
         SyncJob(job[w], row[job[w].upd], cancel[job[w].upd])
    /\ \A u \in completed : cancel[u] = "idle" => row[u].state = "COMPLETED"

(* Without a CancelUpdate for it or for one before it, a queued copy is of a*)
(* queued row, and all pending rows of a switch are of one bundle, whose call *)
(* is the only one that may be saving.                                     *)
Touched(u, c) == \E v \in Updates : SameBundle(u, v) /\ Order[v] <= Order[u] /\ c[v] # "idle"
TrayInv ==
    /\ \A i \in batch : i.state = "QUEUED" /\ ~ Touched(i.upd, cancel) => row[i.upd].state = "QUEUED"
    /\ \A w \in Workers : job[w].pc = "start" /\ ~ Touched(job[w].upd, cancel)
                            => row[job[w].upd].state = "QUEUED"
    /\ \A u, v \in Updates :
         (/\ BundleOf[u] # BundleOf[v] /\ SwitchOfUpdate(u) = SwitchOfUpdate(v)
          /\ ~ Touched(u, cancel) /\ ~ Touched(v, cancel) /\ Pending(u))
           => ~ Pending(v) /\ call[BundleOf[v]] # "saving"

(* Without faults only CancelJob cancels the context of a job.             *)
CancelInv ==
    /\ faults \in 0..MaxFaults
    /\ stopping => faults > 0
    /\ faults = 0 => \A w \in Workers :
         job[w].upd \in Updates /\ job[w].cancelled => cancel[job[w].upd] \notin {"idle", "job"}

(* The steps of every strategy come in this order.  A step that was begun is*)
(* behind the row, or is the one of the row and its exec_context is saved or*)
(* about to be.                                                            *)
Rank == [POWER_CYCLE |-> 1, WAIT_REACHABLE |-> 2, COPY |-> 3, UPLOAD |-> 4,
         POLL_COMPLETION |-> 5, INSTALL |-> 6, VERIFY |-> 7, CLEANUP |-> 8]
Passed(u, s) ==
    /\ row[u].state \notin {"none", "QUEUED"}
    /\ \A w \in Workers : job[w].pc = "start" => job[w].upd # u
    /\ \A i \in batch : i.state = "QUEUED" => i.upd # u
    /\ row[u].state \in Active =>
         \/ Rank[s] < Rank[row[u].state]
         \/ /\ s = row[u].state
            /\ row[u].exec \/ \E w \in Workers : job[w].upd = u /\ job[w].pc = "save"
OnceInv ==
    /\ repeated \subseteq Updates /\ begun \subseteq Updates \X Active
    /\ BegunOnce
    /\ \A u \in Updates, s \in Active :
         faults = 0 /\ cancel[u] = "idle" /\ <<u, s>> \in begun => Passed(u, s)

(* Somebody is about to cancel the rest of the bundle of x, and will be able*)
(* to: his context is not cancelled.                                       *)
Effective(x) ==
    \/ \E w \in Workers : job[w].upd = x /\ job[w].pc = "cascade" /\ ~ job[w].cancelled
    \/ cancel[x] \in {"job", "write", "bundle"}
OrphanInv ==
    /\ tooLate \subseteq Updates
    /\ \A u \in Updates :
         row[u].state = "QUEUED" /\ u \notin tooLate /\ EndedBadly(u) /\ faults = 0
           => \E x \in Updates : SameBundle(u, x) /\ Order[x] < Order[u] /\ Effective(x)

(* updated_at orders the active rows strictly and totally.                 *)
SinceInv ==
    /\ since \in [Updates -> SUBSET Updates] /\ late \subseteq Updates
    /\ \A u, v \in Updates : u \in since[v] => row[u].state \in Active /\ row[v].state \in Active
    /\ \A u \in Updates : u \notin since[u]
    /\ \A u, v \in ActiveRows : u = v \/ u \in since[v] \/ v \in since[u]
    /\ \A u, v, x \in Updates : u \in since[v] /\ v \in since[x] => u \in since[x]
(* workChan has room for the batch.                                        *)
SizeInv == IsFiniteSet(batch) /\ Cardinality(batch) <= NumWorkers

IInv == RowInv /\ PoolInv /\ Alone /\ OrderInv /\ CallInv /\ SyncInv /\ TrayInv /\ CancelInv
        /\ OnceInv /\ OrphanInv /\ SinceInv /\ SizeInv

-----------------------------------------------------------------------------
(* Steps, case by case.                                                    *)
LEMMA StepsOf ==
    ASSUME NEW u \in Updates
    PROVE  \/ Flow[u] = "redfish" /\ Steps(u) = <<"UPLOAD", "POLL_COMPLETION", "VERIFY">>
           \/ Flow[u] = "script" /\ Steps(u) = <<"INSTALL", "VERIFY">>
           \/ /\ Flow[u] = "nvos" /\ Order[u] > 1
              /\ Steps(u) = <<"POWER_CYCLE", "WAIT_REACHABLE", "COPY", "UPLOAD", "INSTALL",
                              "VERIFY", "CLEANUP">>
           \/ /\ Flow[u] \in {"cpld", "nvos"} /\ ~ (Flow[u] = "nvos" /\ Order[u] > 1)
              /\ Steps(u) = <<"WAIT_REACHABLE", "COPY", "UPLOAD", "INSTALL", "VERIFY", "CLEANUP">>
  <1>1. Flow[u] \in Flows
    BY FirmwareAssumption
  <1>2. CASE Flow[u] = "redfish"
    BY <1>2 DEF Steps
  <1>3. CASE Flow[u] = "script"
    BY <1>3 DEF Steps
  <1>4. CASE Flow[u] = "nvos" /\ Order[u] > 1
    <2>1. Steps(u) = <<"POWER_CYCLE">> \o SSHSteps
      BY <1>4 DEF Steps
    <2> DEFINE c == <<"POWER_CYCLE">> \o SSHSteps
               t == <<"POWER_CYCLE", "WAIT_REACHABLE", "COPY", "UPLOAD", "INSTALL", "VERIFY",
                      "CLEANUP">>
    <2>2. c \in Seq(Active) /\ t \in Seq(Active) /\ Len(c) = 7 /\ Len(t) = 7
      <3>1. <<"POWER_CYCLE">> \in Seq(Active) /\ Len(<<"POWER_CYCLE">>) = 1
        BY DEF Active
      <3>2. SSHSteps \in Seq(Active) /\ Len(SSHSteps) = 6
        BY DEF SSHSteps, Active
      <3>3. \A p, q \in Seq(Active) : p \o q \in Seq(Active) /\ Len(p \o q) = Len(p) + Len(q)
        OBVIOUS
      <3>4. t \in Seq(Active) /\ Len(t) = 7
        BY DEF Active
      <3>5. c \in Seq(Active) /\ Len(c) = Len(<<"POWER_CYCLE">>) + Len(SSHSteps)
        BY <3>1, <3>2, <3>3, Zenon
      <3>6. QED
        BY <3>1, <3>2, <3>4, <3>5
    <2>3. \A i \in 1..7 : c[i] = t[i]
      BY DEF SSHSteps
    <2>4. c = t
      <3> HIDE DEF c, t
      <3>1. QED
        BY <2>2, <2>3
    <2>5. QED
      BY <1>4, <2>1, <2>4
  <1>5. CASE Flow[u] \in {"cpld", "nvos"} /\ ~ (Flow[u] = "nvos" /\ Order[u] > 1)
    BY <1>5 DEF Steps, SSHSteps
  <1>6. QED
    BY <1>1, <1>2, <1>3, <1>4, <1>5 DEF Flows

(* Every step is an active state.                                          *)
LEMMA StepIsActive ==
    ASSUME NEW u \in Updates, NEW s, InSteps(u, s)
    PROVE  s \in Active
  BY StepsOf DEF InSteps, Active

(* GetFirstState agrees with Steps.                                        *)
LEMMA FirstIsStep ==
    ASSUME NEW u \in Updates
    PROVE  InSteps(u, FirstState(u))
  <1>1. 1 \in 1..Len(Steps(u)) /\ Steps(u)[1] = FirstState(u)
    BY StepsOf DEF FirstState
  <1>2. QED
    BY <1>1 DEF InSteps

(* Transition names a later step, or the end.                              *)
LEMMA NextIsStep ==
    ASSUME NEW u \in Updates, NEW s, InSteps(u, s)
    PROVE  \/ NextState(u, s) = "COMPLETED"
           \/ InSteps(u, NextState(u, s)) /\ Rank[s] < Rank[NextState(u, s)]
  <1> DEFINE after == { i \in 2..Len(Steps(u)) : Steps(u)[i - 1] = s }
  <1>1. CASE after = {}
    BY <1>1 DEF NextState
  <1>2. CASE after # {}
    <2> DEFINE n == CHOOSE i \in after : TRUE
    <2>1. n \in after
      BY <1>2
    <2>2. NextState(u, s) = Steps(u)[n]
      BY <1>2 DEF NextState
    <2> HIDE DEF n
    <2>3. n \in 1..Len(Steps(u)) /\ n - 1 \in 1..Len(Steps(u))
      BY <2>1, StepsOf
    <2>4. Rank[Steps(u)[n - 1]] < Rank[Steps(u)[n]]
      BY <2>1, StepsOf DEF Rank
    <2>5. QED
      BY <2>1, <2>2, <2>3, <2>4 DEF InSteps
  <1>3. QED
    BY <1>1, <1>2

(* ExecuteStep returns one of three outcomes, whatever the strategy.       *)
LEMMA OutcomeType ==
    ASSUME NEW u \in Updates, NEW s, InSteps(u, s), NEW e \in BOOLEAN
    PROVE  Outcomes(u, s, e) \subseteq AnyOutcome
  <1>1. FirstCall(u)[s] \subseteq AnyOutcome
    <2>1. CASE Flow[u] = "redfish"
      <3>1. s \in {"UPLOAD", "POLL_COMPLETION", "VERIFY"}
        BY <2>1, StepsOf DEF InSteps
      <3>2. QED
        BY <2>1, <3>1 DEF FirstCall, RedfishFirst, AnyOutcome
    <2>2. CASE Flow[u] = "script"
      <3>1. s \in {"INSTALL", "VERIFY"}
        BY <2>2, StepsOf DEF InSteps
      <3>2. QED
        BY <2>2, <3>1 DEF FirstCall, ScriptFirst, AnyOutcome
    <2>3. CASE Flow[u] \in {"cpld", "nvos"}
      <3>1. s \in {"POWER_CYCLE", "WAIT_REACHABLE", "COPY", "UPLOAD", "INSTALL", "VERIFY",
                   "CLEANUP"}
        <4>1. Steps(u) = <<"POWER_CYCLE", "WAIT_REACHABLE", "COPY", "UPLOAD", "INSTALL", "VERIFY",
                           "CLEANUP">>
              \/ Steps(u) = <<"WAIT_REACHABLE", "COPY", "UPLOAD", "INSTALL", "VERIFY", "CLEANUP">>
          BY <2>3, StepsOf
        <4>2. PICK i \in 1..Len(Steps(u)) : Steps(u)[i] = s
          BY DEF InSteps
        <4>3. QED
          BY <4>1, <4>2
      <3>2. FirstCall(u) = SSHFirst(u)
        BY <2>3 DEF FirstCall
      <3>3. CASE s = "INSTALL"
        BY <3>2, <3>3 DEF SSHFirst, AnyOutcome
      <3>4. CASE s # "INSTALL"
        BY <3>1, <3>2, <3>4 DEF SSHFirst, AnyOutcome
      <3>5. QED
        BY <3>3, <3>4
    <2>4. QED
      BY <2>1, <2>2, <2>3, StepsOf
  <1>2. LaterCall(u, s) \subseteq AnyOutcome
    BY DEF LaterCall, AnyOutcome
  <1>3. QED
    BY <1>1, <1>2 DEF Outcomes, AnyOutcome

-----------------------------------------------------------------------------
(* What Save and CancelRemainingInBundle do to the rows.                   *)
RowType == [Updates -> [state : States, exec : BOOLEAN]]
RowsKept == row' = row /\ completed' = completed
RowSaved(u, s, e) ==
    /\ row' \in RowType
    /\ row'[u].state = s /\ row'[u].exec = e
    /\ \A v \in Updates : v # u => row'[v] = row[v]
    /\ completed' = IF s = "COMPLETED" THEN completed \cup {u} ELSE completed
RowsCancelled(u) ==
    /\ row' \in RowType
    /\ \A v \in Updates : v \notin Remaining(u) => row'[v] = row[v]
    /\ \A v \in Remaining(u) : row'[v].state = "CANCELLED" /\ row'[v].exec = row[v].exec
    /\ completed' = completed

LEMMA SaveEffect ==
    ASSUME RowInv, NEW u \in Updates, NEW s \in States, NEW e \in BOOLEAN, Save(u, s, e)
    PROVE  RowSaved(u, s, e)
  <1> DEFINE r == [state |-> s, exec |-> e]
  <1>1. row' = [row EXCEPT ![u] = r] /\ r \in [state : States, exec : BOOLEAN]
    BY DEF Save
  <1>2. r.state = s /\ r.exec = e
    OBVIOUS
  <1> HIDE DEF r
  <1>3. row' \in RowType /\ row'[u] = r /\ \A v \in Updates : v # u => row'[v] = row[v]
    BY <1>1 DEF RowInv, RowType
  <1>4. QED
    BY <1>2, <1>3 DEF RowSaved, Save

LEMMA CancelEffect ==
    ASSUME RowInv, NEW u \in Updates, CancelRemaining(u)
    PROVE  RowsCancelled(u)
  <1> DEFINE r(v) == [row[v] EXCEPT !.state = "CANCELLED"]
  <1>1. ASSUME NEW v \in Updates
        PROVE  /\ r(v) \in [state : States, exec : BOOLEAN]
               /\ r(v).state = "CANCELLED" /\ r(v).exec = row[v].exec
    BY DEF RowInv, States, Terminal
  <1>2. row' = [v \in Updates |-> IF v \in Remaining(u) THEN r(v) ELSE row[v]]
    BY DEF CancelRemaining
  <1> HIDE DEF r
  <1>3. row' \in RowType
    BY <1>1, <1>2 DEF RowInv, RowType
  <1>4. \A v \in Updates : row'[v] = IF v \in Remaining(u) THEN r(v) ELSE row[v]
    BY <1>2
  <1>5. Remaining(u) \subseteq Updates
    BY DEF Remaining
  <1>6. QED
    BY <1>1, <1>3, <1>4, <1>5 DEF RowsCancelled, CancelRemaining

(* The rows of a call that are not there yet have a first one. *)
LEMMA NextMissingType ==
    ASSUME NEW b \in Bundles, \E u \in Updates : u \in Missing(b)
    PROVE  /\ NextMissing(b) \in Missing(b)
           /\ \A v \in Missing(b) : Order[NextMissing(b)] <= Order[v]
  <1> DEFINE T == { Order[u] : u \in Missing(b) }
  <1>1. T \subseteq Nat /\ T # {}
    BY FirmwareAssumption DEF Missing
  <1>2. \E x \in T : \A y \in T : ~ (<<y, x>> \in OpToRel(<, Nat))
    <2> HIDE DEF T
    <2>1. QED
      BY <1>1, NatLessThanWellFounded, WFMin
  <1>3. PICK x \in T : \A y \in T : ~ (<<y, x>> \in OpToRel(<, Nat))
    BY <1>2
  <1>4. \A y \in T : x <= y
    <2>1. OpToRel(<, Nat) = { ss \in Nat \X Nat : ss[1] < ss[2] }
      BY DEF OpToRel
    <2>2. \A y \in Nat : y < x => <<y, x>> \in { ss \in Nat \X Nat : ss[1] < ss[2] }
      BY <1>1, <1>3
    <2>3. \A y \in T : ~ (y < x)
      BY <1>1, <1>3, <2>1, <2>2, Zenon
    <2>4. x \in Nat /\ \A y \in T : y \in Nat
      BY <1>1, <1>3
    <2> HIDE DEF T
    <2>5. QED
      BY <2>3, <2>4
  <1>5. \E u \in Missing(b) : \A v \in Missing(b) : Order[u] <= Order[v]
    BY <1>3, <1>4
  <1>6. QED
    BY <1>5 DEF NextMissing

-----------------------------------------------------------------------------
(* What a worker does to its own job: the job ends, or goes on by one state.*)
Goes(j, k) ==
    /\ k.upd = j.upd /\ k.exec = j.exec /\ k.cancelled = j.cancelled
    /\ \/ j.pc = "start" /\ k.pc = "step" /\ k.state = FirstState(j.upd)
       \/ j.pc = "step" /\ k.pc = "save" /\ k.state = j.state
       \/ j.pc = "save" /\ k.pc = "cascade" /\ k.state = j.state /\ j.outcome = "Failed"

WorkerMoves(w) ==
    /\ job[w] \in Job /\ sched = "waiting"
    /\ job' \in [Workers -> Job \cup {NoJob}]
    /\ \A x \in Workers : x # w => job'[x] = job[x]
    /\ JobOK(job'[w])
    /\ job'[w] = NoJob \/ Goes(job[w], job'[w])
    /\ call' = call /\ cancel' = cancel /\ sched' = sched /\ batch' = batch
    /\ stopping' = stopping /\ tooLate' = tooLate

LEMMA JobType ==
    ASSUME NEW j, JobOK(j)
    PROVE  /\ j \in Job \cup {NoJob}
           /\ j.pc \in {"start", "step", "save", "cascade"} <=> j \in Job
           /\ j.pc = "idle" <=> j = NoJob
           /\ j.upd \in Updates <=> j \in Job
           /\ j \in Job \/ j = NoJob
  BY FirmwareAssumption DEF JobOK, Job, NoJob

LEMMA BusyWorker ==
    ASSUME PoolInv, NEW w \in Workers, job[w].pc \in {"start", "step", "save", "cascade"}
    PROVE  /\ job[w] \in Job /\ job[w] # NoJob /\ JobOK(job[w])
           /\ sched = "waiting"
  <1>1. JobOK(job[w])
    BY DEF PoolInv
  <1>2. job[w] \in Job /\ job[w] # NoJob
    BY <1>1, JobType DEF NoJob
  <1>3. QED
    BY <1>1, <1>2 DEF PoolInv

(* What one worker does to its job. *)
LEMMA OwnJob ==
    ASSUME PoolInv, NEW w \in Workers,
           job[w].pc \in {"start", "step", "save", "cascade"},
           job' = [job EXCEPT ![w] = job'[w]], JobOK(job'[w]),
           job'[w] = NoJob \/ Goes(job[w], job'[w]),
           call' = call /\ cancel' = cancel /\ sched' = sched /\ batch' = batch,
           stopping' = stopping /\ tooLate' = tooLate
    PROVE  WorkerMoves(w)
  <1>1. job[w] \in Job /\ sched = "waiting"
    BY BusyWorker
  <1>2. job'[w] \in Job \cup {NoJob}
    BY JobType
  <1>3. job' \in [Workers -> Job \cup {NoJob}]
        /\ \A x \in Workers : x # w => job'[x] = job[x]
    BY <1>2 DEF PoolInv
  <1>4. QED
    BY <1>1, <1>3 DEF WorkerMoves

LEMMA OwnJobEnds ==
    ASSUME PoolInv, NEW w \in Workers,
           job[w].pc \in {"start", "step", "save", "cascade"}, EndJob(w),
           call' = call /\ cancel' = cancel /\ sched' = sched /\ batch' = batch,
           stopping' = stopping /\ tooLate' = tooLate
    PROVE  WorkerMoves(w) /\ job'[w] = NoJob
  <1>1. JobOK(NoJob) /\ job' = [job EXCEPT ![w] = NoJob]
    BY DEF JobOK, EndJob
  <1>2. job'[w] = NoJob
    BY <1>1 DEF PoolInv
  <1>3. QED
    BY <1>1, <1>2, OwnJob

LEMMA StartEffect ==
    ASSUME RowInv, PoolInv, NEW w \in Workers, Start(w)
    PROVE  /\ WorkerMoves(w) /\ job[w].pc = "start"
           /\ UNCHANGED <<faults, begun, repeated>>
           /\ \/ /\ ~ job[w].cancelled
                 /\ RowSaved(job[w].upd, FirstState(job[w].upd), FALSE)
                 /\ job'[w] # NoJob
              \/ job[w].cancelled /\ RowsKept /\ job'[w] = NoJob
  <1> DEFINE u == job[w].upd
  <1>1. job[w].pc = "start" /\ UNCHANGED <<faults, begun, repeated>>
        /\ call' = call /\ cancel' = cancel /\ sched' = sched /\ batch' = batch
        /\ stopping' = stopping /\ tooLate' = tooLate
        /\ job[w].pc \in {"start", "step", "save", "cascade"}
    BY DEF Start, callVars
  <1>2. job[w] \in Job /\ JobOK(job[w])
    BY <1>1, BusyWorker
  <1>3. u \in Updates
    BY <1>2 DEF Job
  <1>4. InSteps(u, FirstState(u)) /\ FirstState(u) \in Active
    BY <1>3, FirstIsStep, StepIsActive
  <1>5. CASE ~ job[w].cancelled /\ Save(u, FirstState(u), FALSE)
             /\ job' = [job EXCEPT ![w].state = FirstState(u), ![w].pc = "step"]
    <2> DEFINE k == [job[w] EXCEPT !.state = FirstState(u), !.pc = "step"]
    <2>1. job' = [job EXCEPT ![w] = k]
      BY <1>5
    <2>2. /\ k.upd = u /\ k.exec = job[w].exec /\ k.cancelled = job[w].cancelled
          /\ k.pc = "step" /\ k.state = FirstState(u) /\ k.outcome = job[w].outcome
          /\ k \in Job
      BY <1>2, <1>3, <1>4 DEF Job, States
    <2> HIDE DEF k
    <2>3. JobOK(k) /\ Goes(job[w], k) /\ k # NoJob
      BY <1>1, <1>4, <2>2 DEF JobOK, Goes, NoJob
    <2>4. WorkerMoves(w) /\ job'[w] = k
      <3>1. job'[w] = k
        BY <2>1 DEF PoolInv
      <3>2. QED
        BY <1>1, <2>1, <2>3, <3>1, OwnJob
    <2>5. RowSaved(u, FirstState(u), FALSE)
      BY <1>3, <1>4, <1>5, SaveEffect DEF States
    <2>6. QED
      BY <1>1, <1>5, <2>3, <2>4, <2>5
  <1>6. CASE job[w].cancelled /\ EndJob(w) /\ UNCHANGED <<tableVars, completed>>
    <2>1. WorkerMoves(w) /\ job'[w] = NoJob
      BY <1>1, <1>6, OwnJobEnds
    <2>2. QED
      BY <1>1, <1>6, <2>1 DEF RowsKept, tableVars
  <1>7. QED
    BY <1>5, <1>6 DEF Start

LEMMA LookupFailsEffect ==
    ASSUME PoolInv, NEW w \in Workers, LookupFails(w)
    PROVE  /\ WorkerMoves(w) /\ RowsKept /\ faults' = faults + 1
           /\ UNCHANGED <<begun, repeated>>
  <1>1. job[w].pc = "step" /\ job[w].pc \in {"start", "step", "save", "cascade"}
        /\ job' = [job EXCEPT ![w].pc = "save", ![w].outcome = "Failed"]
        /\ call' = call /\ cancel' = cancel /\ sched' = sched /\ batch' = batch
        /\ stopping' = stopping /\ tooLate' = tooLate
        /\ RowsKept /\ faults' = faults + 1 /\ begun' = begun /\ repeated' = repeated
    BY DEF LookupFails, callVars, tableVars, historyVars, RowsKept, Fault
  <1>2. job[w] \in Job /\ JobOK(job[w])
    BY <1>1, BusyWorker
  <1> DEFINE k == [job[w] EXCEPT !.pc = "save", !.outcome = "Failed"]
  <1>3. job' = [job EXCEPT ![w] = k]
    BY <1>1
  <1>4. /\ k.upd = job[w].upd /\ k.exec = job[w].exec /\ k.cancelled = job[w].cancelled
        /\ k.pc = "save" /\ k.state = job[w].state /\ k.outcome = "Failed"
        /\ k \in Job
    BY <1>2 DEF Job
  <1> HIDE DEF k
  <1>5. job[w].state \in Active /\ InSteps(job[w].upd, job[w].state)
    BY <1>1, <1>2 DEF JobOK, NoJob
  <1>6. JobOK(k) /\ Goes(job[w], k)
    BY <1>1, <1>4, <1>5 DEF JobOK, Goes
  <1>7. job'[w] = k
    BY <1>3 DEF PoolInv
  <1>8. WorkerMoves(w)
    BY <1>1, <1>3, <1>6, <1>7, OwnJob
  <1>9. QED
    BY <1>1, <1>8

LEMMA ExecuteStepEffect ==
    ASSUME RowInv, PoolInv, NEW w \in Workers, ExecuteStep(w)
    PROVE  /\ WorkerMoves(w) /\ job[w].pc = "step" /\ job'[w] # NoJob
           /\ faults' = faults
           /\ \/ RowsKept
              \/ ~ job[w].exec /\ RowSaved(job[w].upd, job[w].state, FALSE)
           /\ begun' = IF job[w].exec THEN begun ELSE begun \cup {<<job[w].upd, job[w].state>>}
           /\ repeated' = IF ~ job[w].exec /\ <<job[w].upd, job[w].state>> \in begun
                          THEN repeated \cup {job[w].upd} ELSE repeated
  <1>1. job[w].pc = "step" /\ job[w].pc \in {"start", "step", "save", "cascade"}
        /\ call' = call /\ cancel' = cancel /\ sched' = sched /\ batch' = batch
        /\ stopping' = stopping /\ tooLate' = tooLate /\ faults' = faults
    BY DEF ExecuteStep, callVars
  <1>2. job[w] \in Job /\ JobOK(job[w]) /\ job[w] # NoJob
    BY <1>1, BusyWorker
  <1>3. /\ job[w].state \in Active /\ InSteps(job[w].upd, job[w].state)
        /\ job[w].upd \in Updates /\ job[w].exec \in BOOLEAN
    BY <1>1, <1>2 DEF JobOK, Job
  <1>4. PICK o \in Outcomes(job[w].upd, job[w].state, job[w].exec) :
             job' = [job EXCEPT ![w].pc = "save", ![w].outcome = o]
    BY DEF ExecuteStep
  <1>5. o \in AnyOutcome
    BY <1>3, <1>4, OutcomeType
  <1> DEFINE k == [job[w] EXCEPT !.pc = "save", !.outcome = o]
  <1>6. job' = [job EXCEPT ![w] = k]
    BY <1>4
  <1>7. /\ k.upd = job[w].upd /\ k.exec = job[w].exec /\ k.cancelled = job[w].cancelled
        /\ k.pc = "save" /\ k.state = job[w].state /\ k.outcome = o
        /\ k \in Job
    BY <1>2, <1>5 DEF Job, AnyOutcome
  <1> HIDE DEF k
  <1>8. JobOK(k) /\ Goes(job[w], k) /\ k # NoJob
    BY <1>1, <1>3, <1>5, <1>7 DEF JobOK, Goes, AnyOutcome, NoJob
  <1>9. job'[w] = k
    BY <1>6 DEF PoolInv
  <1>10. WorkerMoves(w)
    BY <1>1, <1>6, <1>8, <1>9, OwnJob
  <1>11. RowsKept \/ (~ job[w].exec /\ RowSaved(job[w].upd, job[w].state, FALSE))
    <2>1. CASE UNCHANGED <<tableVars, completed>>
      BY <2>1 DEF RowsKept, tableVars
    <2>2. CASE ~ job[w].exec /\ Save(job[w].upd, job[w].state, FALSE)
      BY <1>3, <2>2, SaveEffect DEF States
    <2>3. QED
      BY <2>1, <2>2 DEF ExecuteStep
  <1>12. QED
    BY <1>1, <1>8, <1>9, <1>10, <1>11 DEF ExecuteStep

LEMMA AfterSaveEffect ==
    ASSUME PoolInv, NEW w \in Workers, job[w].pc = "save", AfterSave(w),
           call' = call /\ cancel' = cancel /\ sched' = sched /\ batch' = batch,
           stopping' = stopping /\ tooLate' = tooLate
    PROVE  /\ WorkerMoves(w)
           /\ job[w].outcome = "Failed" => job'[w] # NoJob
           /\ job[w].outcome # "Failed" => job'[w] = NoJob
  <1>1. job[w].pc \in {"start", "step", "save", "cascade"}
    OBVIOUS
  <1>2. job[w] \in Job /\ JobOK(job[w]) /\ job[w] # NoJob
    BY <1>1, BusyWorker
  <1>3. CASE job[w].outcome = "Failed"
    <2> DEFINE k == [job[w] EXCEPT !.pc = "cascade"]
    <2>1. job' = [job EXCEPT ![w] = k]
      BY <1>3 DEF AfterSave
    <2>2. /\ k.upd = job[w].upd /\ k.exec = job[w].exec /\ k.cancelled = job[w].cancelled
          /\ k.pc = "cascade" /\ k.state = job[w].state
          /\ k \in Job
      BY <1>2 DEF Job
    <2> HIDE DEF k
    <2>3. job[w].state \in Active /\ InSteps(job[w].upd, job[w].state)
      BY <1>2 DEF JobOK
    <2>4. JobOK(k) /\ Goes(job[w], k) /\ k # NoJob
      BY <1>3, <2>2, <2>3 DEF JobOK, Goes, NoJob
    <2>5. job'[w] = k
      BY <2>1 DEF PoolInv
    <2>6. WorkerMoves(w)
      BY <1>1, <2>1, <2>4, <2>5, OwnJob
    <2>7. QED
      BY <1>3, <2>4, <2>5, <2>6
  <1>4. CASE job[w].outcome # "Failed"
    <2>1. EndJob(w)
      BY <1>4 DEF AfterSave
    <2>2. QED
      BY <1>1, <1>4, <2>1, OwnJobEnds
  <1>5. QED
    BY <1>3, <1>4

LEMMA SaveOutcomeEffect ==
    ASSUME RowInv, PoolInv, NEW w \in Workers, SaveOutcome(w)
    PROVE  /\ WorkerMoves(w) /\ job[w].pc = "save"
           /\ job[w].outcome = "Failed" => job'[w] # NoJob
           /\ job[w].outcome # "Failed" => job'[w] = NoJob
           /\ UNCHANGED <<faults, begun, repeated>>
           /\ \/ job[w].cancelled /\ RowsKept
              \/ /\ ~ job[w].cancelled
                 /\ \/ job[w].outcome = "Wait" /\ RowSaved(job[w].upd, job[w].state, TRUE)
                    \/ /\ job[w].outcome = "Transition"
                       /\ RowSaved(job[w].upd, NextState(job[w].upd, job[w].state), FALSE)
                    \/ job[w].outcome = "Failed" /\ RowSaved(job[w].upd, "FAILED", FALSE)
  <1>1. job[w].pc = "save" /\ job[w].pc \in {"start", "step", "save", "cascade"} /\ AfterSave(w)
        /\ call' = call /\ cancel' = cancel /\ sched' = sched /\ batch' = batch
        /\ stopping' = stopping /\ tooLate' = tooLate /\ UNCHANGED <<faults, begun, repeated>>
    BY DEF SaveOutcome, callVars
  <1>2. job[w] \in Job /\ JobOK(job[w]) /\ job[w] # NoJob
    BY <1>1, BusyWorker
  <1>3. /\ job[w].state \in Active /\ InSteps(job[w].upd, job[w].state)
        /\ job[w].upd \in Updates /\ job[w].outcome \in {"Wait", "Transition", "Failed"}
    BY <1>1, <1>2 DEF JobOK, Job
  <1>4. /\ WorkerMoves(w)
        /\ job[w].outcome = "Failed" => job'[w] # NoJob
        /\ job[w].outcome # "Failed" => job'[w] = NoJob
    BY <1>1, AfterSaveEffect
  <1>5. CASE job[w].cancelled /\ UNCHANGED <<tableVars, completed>>
    BY <1>1, <1>4, <1>5 DEF RowsKept, tableVars
  <1>6. CASE ~ job[w].cancelled /\ Saved(w)
    <2> DEFINE u == job[w].upd
               n == NextState(u, job[w].state)
    <2>1. n \in States
      BY <1>3, NextIsStep, StepIsActive DEF States, Terminal
    <2>2. CASE job[w].outcome = "Wait"
      <3>1. Save(u, job[w].state, TRUE)
        BY <1>6, <2>2 DEF Saved
      <3>2. RowSaved(u, job[w].state, TRUE)
        BY <1>3, <3>1, SaveEffect DEF States
      <3>3. QED
        BY <1>1, <1>4, <1>6, <2>2, <3>2
    <2>3. CASE job[w].outcome = "Transition"
      <3>1. Save(u, n, FALSE)
        BY <1>6, <2>3 DEF Saved
      <3>2. RowSaved(u, n, FALSE)
        BY <1>3, <2>1, <3>1, SaveEffect
      <3>3. QED
        BY <1>1, <1>4, <1>6, <2>3, <3>2
    <2>4. CASE job[w].outcome = "Failed"
      <3>1. Save(u, "FAILED", FALSE)
        BY <1>6, <2>4 DEF Saved
      <3>2. RowSaved(u, "FAILED", FALSE)
        BY <1>3, <3>1, SaveEffect DEF States, Terminal
      <3>3. QED
        BY <1>1, <1>4, <1>6, <2>4, <3>2
    <2>5. QED
      BY <1>3, <2>2, <2>3, <2>4
  <1>7. QED
    BY <1>5, <1>6 DEF SaveOutcome

LEMMA CascadeEffect ==
    ASSUME RowInv, PoolInv, NEW w \in Workers, Cascade(w)
    PROVE  /\ WorkerMoves(w) /\ job[w].pc = "cascade" /\ job'[w] = NoJob
           /\ UNCHANGED <<faults, begun, repeated>>
           /\ \/ ~ job[w].cancelled /\ RowsCancelled(job[w].upd)
              \/ job[w].cancelled /\ RowsKept
  <1>1. job[w].pc = "cascade" /\ job[w].pc \in {"start", "step", "save", "cascade"} /\ EndJob(w)
        /\ call' = call /\ cancel' = cancel /\ sched' = sched /\ batch' = batch
        /\ stopping' = stopping /\ tooLate' = tooLate /\ UNCHANGED <<faults, begun, repeated>>
    BY DEF Cascade, callVars
  <1>2. job[w].upd \in Updates
    BY <1>1, BusyWorker DEF Job
  <1>3. WorkerMoves(w) /\ job'[w] = NoJob
    BY <1>1, OwnJobEnds
  <1>4. CASE ~ job[w].cancelled /\ CancelRemaining(job[w].upd)
    BY <1>1, <1>2, <1>3, <1>4, CancelEffect
  <1>5. CASE job[w].cancelled /\ UNCHANGED <<tableVars, completed>>
    BY <1>1, <1>3, <1>5 DEF RowsKept, tableVars
  <1>6. QED
    BY <1>4, <1>5 DEF Cascade

LEMMA WorkerFailsEffect ==
    ASSUME PoolInv, NEW w \in Workers, WorkerFails(w)
    PROVE  /\ WorkerMoves(w) /\ RowsKept /\ faults' = faults + 1
           /\ UNCHANGED <<begun, repeated>>
           /\ job'[w] = NoJob \/ job[w].pc \in {"step", "save"}
  <1>1. CASE LookupFails(w)
    BY <1>1, LookupFailsEffect DEF LookupFails
  <1>2. CASE StartFails(w)
    <2>1. job[w].pc \in {"start", "step", "save", "cascade"} /\ EndJob(w)
          /\ call' = call /\ cancel' = cancel /\ sched' = sched /\ batch' = batch
          /\ stopping' = stopping /\ tooLate' = tooLate
          /\ RowsKept /\ faults' = faults + 1 /\ begun' = begun /\ repeated' = repeated
      BY <1>2 DEF StartFails, callVars, tableVars, historyVars, RowsKept, Fault
    <2>2. QED
      BY <2>1, OwnJobEnds
  <1>3. CASE SaveFails(w)
    <2>1. job[w].pc = "save" /\ AfterSave(w)
          /\ call' = call /\ cancel' = cancel /\ sched' = sched /\ batch' = batch
          /\ stopping' = stopping /\ tooLate' = tooLate
          /\ RowsKept /\ faults' = faults + 1 /\ begun' = begun /\ repeated' = repeated
      BY <1>3 DEF SaveFails, callVars, tableVars, historyVars, RowsKept, Fault
    <2>2. QED
      BY <2>1, AfterSaveEffect
  <1>4. CASE CascadeFails(w)
    <2>1. job[w].pc \in {"start", "step", "save", "cascade"} /\ EndJob(w)
          /\ call' = call /\ cancel' = cancel /\ sched' = sched /\ batch' = batch
          /\ stopping' = stopping /\ tooLate' = tooLate
          /\ RowsKept /\ faults' = faults + 1 /\ begun' = begun /\ repeated' = repeated
      BY <1>4 DEF CascadeFails, callVars, tableVars, historyVars, RowsKept, Fault
    <2>2. QED
      BY <2>1, OwnJobEnds
  <1>5. QED
    BY <1>1, <1>2, <1>3, <1>4 DEF WorkerFails

Takes(w, item) ==
    /\ item \in batch /\ batch' = batch \ {item}
    /\ sched = "waiting" /\ job[w] = NoJob
    /\ job' \in [Workers -> Job \cup {NoJob}]
    /\ \A x \in Workers : x # w => job'[x] = job[x]
    /\ \/ job'[w] = NoJob
       \/ /\ job'[w] \in Job /\ JobOK(job'[w])
          /\ job'[w].upd = item.upd /\ job'[w].state = item.state /\ job'[w].exec = item.exec
          /\ job'[w].pc = (IF item.state = "QUEUED" THEN "start" ELSE "step")
          /\ ~ job'[w].cancelled

LEMMA TakeEffect ==
    ASSUME PoolInv, NEW w \in Workers, Take(w)
    PROVE  /\ \E item \in batch : Takes(w, item)
           /\ RowsKept
           /\ UNCHANGED <<call, cancel, sched, stopping, faults, tooLate, begun, repeated>>
  <1>1. /\ RowsKept /\ sched = "waiting" /\ job[w].pc = "idle"
        /\ UNCHANGED <<call, cancel, sched, stopping, faults, tooLate, begun, repeated>>
    BY DEF Take, RowsKept, tableVars, callVars, historyVars, Idle
  <1>2. job[w] = NoJob
    BY <1>1, JobType DEF PoolInv
  <1>3. PICK item \in batch :
             /\ batch' = batch \ {item}
             /\ job' = [job EXCEPT ![w] =
                  IF stopping THEN NoJob
                  ELSE [upd |-> item.upd, state |-> item.state, exec |-> item.exec,
                        pc |-> IF item.state = "QUEUED" THEN "start" ELSE "step",
                        cancelled |-> FALSE, outcome |-> "none"]]
    BY DEF Take
  <1>4. ItemOK(item)
    BY DEF PoolInv
  <1>5. CASE stopping
    <2>1. job' = [job EXCEPT ![w] = NoJob]
      BY <1>3, <1>5
    <2>2. job' \in [Workers -> Job \cup {NoJob}] /\ job'[w] = NoJob
          /\ \A x \in Workers : x # w => job'[x] = job[x]
      BY <2>1 DEF PoolInv
    <2>3. Takes(w, item)
      BY <1>1, <1>2, <1>3, <2>2 DEF Takes
    <2>4. QED
      BY <1>1, <2>3
  <1>6. CASE ~ stopping
    <2> DEFINE p == IF item.state = "QUEUED" THEN "start" ELSE "step"
               k == [upd |-> item.upd, state |-> item.state, exec |-> item.exec,
                     pc |-> p, cancelled |-> FALSE, outcome |-> "none"]
    <2>1. job' = [job EXCEPT ![w] = k]
      BY <1>3, <1>6
    <2>2. p \in {"start", "step"}
      OBVIOUS
    <2>3. /\ k \in Job /\ k.upd = item.upd /\ k.state = item.state /\ k.exec = item.exec
          /\ k.pc = p /\ k.cancelled = FALSE /\ k.outcome = "none"
      <3> HIDE DEF p
      <3>1. QED
        BY <1>4, <2>2 DEF ItemOK, Copy, Job
    <2> HIDE DEF k
    <2>4. JobOK(k)
      BY <1>4, <2>3 DEF JobOK, ItemOK, Active
    <2>5. job' \in [Workers -> Job \cup {NoJob}] /\ job'[w] = k
          /\ \A x \in Workers : x # w => job'[x] = job[x]
      BY <2>1, <2>3 DEF PoolInv
    <2>6. Takes(w, item)
      BY <1>1, <1>2, <1>3, <2>3, <2>4, <2>5 DEF Takes
    <2>7. QED
      BY <1>1, <2>6
  <1>7. QED
    BY <1>5, <1>6

Inserts(b, u) ==
    /\ u \in Updates /\ BundleOf[u] = b /\ row[u].state = "none" /\ call[b] = "saving"
    /\ RowSaved(u, "QUEUED", FALSE)
    /\ call' = [call EXCEPT ![b] = IF Missing(b) = {u} THEN "done" ELSE "saving"]
    /\ tooLate' = IF EndedBadly(u) THEN tooLate \cup {u} ELSE tooLate

LEMMA QueueSaveEffect ==
    ASSUME RowInv, CallInv, NEW b \in Bundles, QueueSave(b)
    PROVE  /\ Inserts(b, NextMissing(b))
           /\ UNCHANGED <<cancel, sched, batch, job, stopping, faults, begun, repeated>>
  <1>1. call[b] = "saving"
    BY DEF QueueSave
  <1>2. NextMissing(b) \in Missing(b)
    BY <1>1, NextMissingType DEF CallInv
  <1>3. NextMissing(b) \in Updates /\ BundleOf[NextMissing(b)] = b
        /\ row[NextMissing(b)].state = "none"
    BY <1>2 DEF Missing
  <1>4. RowSaved(NextMissing(b), "QUEUED", FALSE)
    BY <1>3, SaveEffect DEF QueueSave, States
  <1>5. QED
    BY <1>1, <1>3, <1>4 DEF QueueSave, Inserts, poolVars

-----------------------------------------------------------------------------
(* What a step does to the rows. *)
Cascades(u) ==
    \/ cancel[u] = "bundle"
    \/ \E w \in Workers : WorkerMoves(w) /\ job[w].upd = u /\ job[w].pc = "cascade"
RowWritten(u, s, e) ==
    /\ \/ cancel[u] = "write" /\ s = "CANCELLED"
       \/ /\ s # "CANCELLED"
          /\ \E w \in Workers : WorkerMoves(w) /\ job[w].upd = u /\ job[w].pc # "cascade"
    /\ u \in Updates /\ s \in States /\ e \in BOOLEAN
    /\ RowSaved(u, s, e)
    /\ s \in Active => InSteps(u, s) /\ sched = "waiting"
    /\ s \notin {"none", "QUEUED"} /\ row[u].state # "none"
    /\ s \in Active \cup {"COMPLETED"} => EarlierIn(u, completed)

LEMMA RowEffect ==
    ASSUME RowInv, PoolInv, OrderInv, CallInv, [Next]_vars
    PROVE  \/ RowsKept
           \/ \E u \in Updates : RowsCancelled(u) /\ Cascades(u)
           \/ \E b \in Bundles : QueueSave(b)
           \/ \E u \in Updates, s \in States, e \in BOOLEAN : RowWritten(u, s, e)
  <1> DEFINE Goal == \/ RowsKept
                     \/ \E u \in Updates : RowsCancelled(u) /\ Cascades(u)
                     \/ \E u \in Updates, s \in States, e \in BOOLEAN : RowWritten(u, s, e)
  <1>1. ASSUME NEW w \in Workers, WorkerMoves(w)
        PROVE  /\ job[w].upd \in Updates /\ EarlierIn(job[w].upd, completed) /\ sched = "waiting"
               /\ JobOK(job[w]) /\ job[w] # NoJob /\ row[job[w].upd].state # "none"
    <2>1. job[w].upd \in Updates
      BY <1>1 DEF WorkerMoves, Job
    <2>2. QED
      BY <1>1, <2>1, FirmwareAssumption DEF OrderInv, PoolInv, CallInv, WorkerMoves, NoJob
  <1>2. ASSUME NEW w \in Workers, Start(w)
        PROVE  Goal
    <2> DEFINE u == job[w].upd
    <2>1. WorkerMoves(w) /\ job[w].pc = "start"
          /\ (RowsKept \/ RowSaved(u, FirstState(u), FALSE))
      BY <1>2, StartEffect
    <2>2. u \in Updates /\ EarlierIn(u, completed) /\ sched = "waiting"
          /\ row[u].state # "none"
      BY <1>1, <2>1
    <2>3. InSteps(u, FirstState(u)) /\ FirstState(u) \in Active
      BY <2>2, FirstIsStep, StepIsActive
    <2>4. CASE RowSaved(u, FirstState(u), FALSE)
      <3>1. RowWritten(u, FirstState(u), FALSE)
        BY <2>1, <2>2, <2>3, <2>4 DEF RowWritten, States, Active
      <3>2. QED
        BY <3>1 DEF RowWritten
    <2>5. QED
      BY <2>1, <2>4
  <1>3. ASSUME NEW w \in Workers, ExecuteStep(w)
        PROVE  Goal
    <2> DEFINE u == job[w].upd
    <2>1. WorkerMoves(w) /\ job[w].pc = "step" /\ (RowsKept \/ RowSaved(u, job[w].state, FALSE))
      BY <1>3, ExecuteStepEffect
    <2>2. u \in Updates /\ EarlierIn(u, completed) /\ sched = "waiting" /\ JobOK(job[w])
          /\ job[w] # NoJob /\ row[u].state # "none"
      BY <1>1, <2>1
    <2>3. InSteps(u, job[w].state) /\ job[w].state \in Active
      BY <2>1, <2>2 DEF JobOK
    <2>4. CASE RowSaved(u, job[w].state, FALSE)
      <3>1. RowWritten(u, job[w].state, FALSE)
        BY <2>1, <2>2, <2>3, <2>4 DEF RowWritten, States, Active
      <3>2. QED
        BY <3>1 DEF RowWritten
    <2>5. QED
      BY <2>1, <2>4
  <1>4. ASSUME NEW w \in Workers, SaveOutcome(w)
        PROVE  Goal
    <2> DEFINE u == job[w].upd
               n == NextState(u, job[w].state)
    <2>1. /\ WorkerMoves(w) /\ job[w].pc = "save"
          /\ \/ RowsKept
             \/ RowSaved(u, job[w].state, TRUE)
             \/ RowSaved(u, n, FALSE)
             \/ RowSaved(u, "FAILED", FALSE)
      BY <1>4, SaveOutcomeEffect
    <2>2. u \in Updates /\ EarlierIn(u, completed) /\ sched = "waiting" /\ JobOK(job[w])
          /\ job[w] # NoJob /\ row[u].state # "none"
      BY <1>1, <2>1
    <2>3. InSteps(u, job[w].state) /\ job[w].state \in Active
      BY <2>1, <2>2 DEF JobOK
    <2>4. n = "COMPLETED" \/ (InSteps(u, n) /\ n \in Active)
      BY <2>2, <2>3, NextIsStep, StepIsActive
    <2> HIDE DEF n
    <2>5. CASE RowSaved(u, job[w].state, TRUE)
      <3>1. RowWritten(u, job[w].state, TRUE)
        BY <2>1, <2>2, <2>3, <2>5 DEF RowWritten, States, Active
      <3>2. QED
        BY <3>1 DEF RowWritten
    <2>6. CASE RowSaved(u, n, FALSE)
      <3>1. RowWritten(u, n, FALSE)
        BY <2>1, <2>2, <2>4, <2>6 DEF RowWritten, States, Active, Terminal
      <3>2. QED
        BY <3>1 DEF RowWritten
    <2>7. CASE RowSaved(u, "FAILED", FALSE)
      <3>1. RowWritten(u, "FAILED", FALSE)
        BY <2>1, <2>2, <2>7 DEF RowWritten, States, Active, Terminal
      <3>2. QED
        BY <3>1 DEF RowWritten
    <2>8. QED
      BY <2>1, <2>5, <2>6, <2>7
  <1>5. ASSUME NEW w \in Workers, Cascade(w)
        PROVE  Goal
    <2>1. WorkerMoves(w) /\ job[w].pc = "cascade" /\ (RowsKept \/ RowsCancelled(job[w].upd))
      BY <1>5, CascadeEffect
    <2>2. QED
      BY <1>1, <2>1 DEF Cascades
  <1>6. ASSUME NEW w \in Workers, Take(w) \/ WorkerFails(w)
        PROVE  Goal
    BY <1>6, TakeEffect, WorkerFailsEffect
  <1>7. ASSUME NEW u \in Updates, CancelSave(u)
        PROVE  Goal
    <2>1. RowSaved(u, "CANCELLED", FALSE)
      BY <1>7, SaveEffect DEF CancelSave, States, Terminal
    <2>2. RowWritten(u, "CANCELLED", FALSE)
      BY <1>7, <2>1 DEF RowWritten, CancelSave, CallInv, States, Active, Terminal
    <2>3. QED
      BY <2>2 DEF RowWritten
  <1>8. ASSUME NEW u \in Updates, CancelBundle(u)
        PROVE  Goal
    BY <1>8, CancelEffect DEF CancelBundle, Cascades
  <1>9. ASSUME NEW u \in Updates, CancelGet(u) \/ CancelJob(u) \/ CancelFails(u) \/ Deadline(u)
         PROVE  RowsKept
    BY <1>9 DEF CancelGet, CancelJob, CancelFails, Deadline, RowsKept, tableVars, historyVars
  <1>10. ASSUME NEW b \in Bundles, QueueCheck(b) \/ QueueFails(b)
         PROVE  RowsKept
    BY <1>10 DEF QueueCheck, QueueFails, RowsKept, tableVars, historyVars
  <1>11. CASE Scheduler \/ FetchFails
    BY <1>11 DEF Scheduler, FetchQueued, FetchActive, BatchDone, FetchFails, RowsKept, tableVars,
                 historyVars
  <1>12. CASE Stop \/ Restart \/ Crash
    BY <1>12 DEF Stop, Restart, Crash, NewProcess, RowsKept, tableVars, historyVars
  <1>13. CASE UNCHANGED vars
    BY <1>13 DEF vars, tableVars, historyVars, RowsKept
  <1>14. QED
    BY <1>2, <1>3, <1>4, <1>5, <1>6, <1>7, <1>8, <1>9, <1>10, <1>11, <1>12, <1>13
       DEF Next, Worker, CancelProceeds

LEMMA QueueSaveInserts ==
    ASSUME RowInv, CallInv, NEW b \in Bundles, QueueSave(b)
    PROVE  \E u \in Updates : Inserts(b, u)
  BY QueueSaveEffect DEF Inserts

LEMMA RowInvStep ==
    ASSUME RowInv, PoolInv, OrderInv, CallInv, [Next]_vars
    PROVE  RowInv'
  <1>1. CASE RowsKept
    BY <1>1 DEF RowsKept, RowInv
  <1>2. ASSUME NEW u \in Updates, RowsCancelled(u)
        PROVE  RowInv'
    BY <1>2 DEF RowsCancelled, RowInv, RowType, Remaining, Active
  <1>3. ASSUME NEW u \in Updates, NEW s \in States, NEW e \in BOOLEAN, RowWritten(u, s, e)
        PROVE  RowInv'
    BY <1>3 DEF RowWritten, RowSaved, RowInv, RowType
  <1>4. ASSUME NEW b \in Bundles, NEW u \in Updates, Inserts(b, u)
        PROVE  RowInv'
    BY <1>4 DEF Inserts, RowSaved, RowInv, RowType, Active
  <1>5. QED
    BY <1>1, <1>2, <1>3, <1>4, RowEffect, QueueSaveInserts

-----------------------------------------------------------------------------
(* What a step does to the worker pool. *)
PoolKept == sched' = sched /\ batch' = batch /\ job' = job /\ stopping' = stopping
PoolEmptied ==
    /\ sched' = "idle" /\ batch' = {} /\ stopping' \in BOOLEAN
    /\ job' \in [Workers -> Job \cup {NoJob}] /\ \A w \in Workers : job'[w] = NoJob
JobsFlagged ==
    /\ sched' = sched /\ batch' = batch /\ stopping' \in BOOLEAN
    /\ job' \in [Workers -> Job \cup {NoJob}]
    /\ \A w \in Workers :
         /\ job[w] = NoJob => job'[w] = NoJob
         /\ job[w] # NoJob => job'[w] # NoJob
         /\ JobOK(job'[w])
         /\ job'[w].upd = job[w].upd /\ job'[w].state = job[w].state
         /\ job'[w].exec = job[w].exec /\ job'[w].pc = job[w].pc
QueuedFetched ==
    /\ sched = "idle" /\ sched' = "fetched" /\ job' = job /\ stopping' = stopping
    /\ \A i \in batch' : \E u \in Ready : i = Item(u)
ActiveFetched ==
    /\ sched = "fetched" /\ sched' = "waiting" /\ job' = job /\ stopping' = stopping
    /\ \A i \in batch' : i \in batch \/ \E u \in ActiveRows : i = Item(u)

LEMMA FlagType ==
    ASSUME NEW j, JobOK(j), j # NoJob
    PROVE  LET k == [j EXCEPT !.cancelled = TRUE]
           IN  /\ JobOK(k) /\ k # NoJob /\ k \in Job
               /\ k.upd = j.upd /\ k.state = j.state /\ k.exec = j.exec /\ k.pc = j.pc
               /\ k.outcome = j.outcome /\ k.cancelled = TRUE
  <1> DEFINE k == [j EXCEPT !.cancelled = TRUE]
  <1>1. j \in Job
    BY DEF JobOK
  <1>2. /\ k.upd = j.upd /\ k.state = j.state /\ k.exec = j.exec /\ k.pc = j.pc
        /\ k.outcome = j.outcome /\ k.cancelled = TRUE /\ k \in Job
    BY <1>1 DEF Job
  <1> HIDE DEF k
  <1>3. JobOK(k) /\ k # NoJob
    BY <1>1, <1>2 DEF JobOK, NoJob, Job
  <1>4. QED
    BY <1>2, <1>3 DEF k

LEMMA CancelJobEffect ==
    ASSUME PoolInv, NEW u \in Updates, CancelJob(u)
    PROVE  /\ JobsFlagged
           /\ \A w \in Workers : job'[w] # job[w] => job[w].upd = u
           /\ \A w \in Workers : job[w].upd # u => job'[w] = job[w]
  <1>1. job' = [w \in Workers |-> IF job[w].upd = u
                                  THEN [job[w] EXCEPT !.cancelled = TRUE] ELSE job[w]]
        /\ sched' = sched /\ batch' = batch /\ stopping' = stopping
    BY DEF CancelJob
  <1>2. ASSUME NEW w \in Workers
        PROVE  /\ job'[w] \in Job \cup {NoJob}
               /\ job[w] = NoJob => job'[w] = NoJob
               /\ job[w] # NoJob => job'[w] # NoJob
               /\ JobOK(job'[w])
               /\ job'[w].upd = job[w].upd /\ job'[w].state = job[w].state
               /\ job'[w].exec = job[w].exec /\ job'[w].pc = job[w].pc
               /\ job[w].upd # u => job'[w] = job[w]
    <2>1. JobOK(job[w])
      BY DEF PoolInv
    <2>2. CASE job[w].upd = u
      <3>1. job[w] # NoJob
        BY <2>2, FirmwareAssumption DEF NoJob
      <3>2. job'[w] = [job[w] EXCEPT !.cancelled = TRUE]
        BY <1>1, <2>2
      <3>3. QED
        BY <2>1, <2>2, <3>1, <3>2, FlagType
    <2>3. CASE job[w].upd # u
      BY <1>1, <2>1, <2>3 DEF JobOK
    <2>4. QED
      BY <2>2, <2>3
  <1>3. job' \in [Workers -> Job \cup {NoJob}]
    BY <1>1, <1>2
  <1>4. QED
    BY <1>1, <1>2, <1>3 DEF JobsFlagged, PoolInv

LEMMA StopEffect ==
    ASSUME PoolInv, Stop
    PROVE  JobsFlagged
  <1>1. job' = [w \in Workers |-> IF Idle(w) THEN job[w]
                                  ELSE [job[w] EXCEPT !.cancelled = TRUE]]
        /\ sched' = sched /\ batch' = batch /\ stopping' = TRUE
    BY DEF Stop
  <1>2. ASSUME NEW w \in Workers
        PROVE  /\ job'[w] \in Job \cup {NoJob}
               /\ job[w] = NoJob => job'[w] = NoJob
               /\ job[w] # NoJob => job'[w] # NoJob
               /\ JobOK(job'[w])
               /\ job'[w].upd = job[w].upd /\ job'[w].state = job[w].state
               /\ job'[w].exec = job[w].exec /\ job'[w].pc = job[w].pc
    <2>1. JobOK(job[w])
      BY DEF PoolInv
    <2>2. CASE ~ Idle(w)
      <3>1. job[w] # NoJob
        BY <2>2 DEF NoJob, Idle
      <3>2. job'[w] = [job[w] EXCEPT !.cancelled = TRUE]
        BY <1>1, <2>2
      <3>3. QED
        BY <2>1, <3>1, <3>2, FlagType
    <2>3. CASE Idle(w)
      BY <1>1, <2>1, <2>3 DEF JobOK
    <2>4. QED
      BY <2>2, <2>3
  <1>3. job' \in [Workers -> Job \cup {NoJob}]
    BY <1>1, <1>2
  <1>4. QED
    BY <1>1, <1>2, <1>3 DEF JobsFlagged, PoolInv

LEMMA PoolEffect ==
    ASSUME RowInv, PoolInv, CallInv, [Next]_vars
    PROVE  \/ PoolKept
           \/ PoolEmptied /\ ((\A w \in Workers : job[w] = NoJob) \/ Restart \/ Crash)
           \/ JobsFlagged
           \/ \E w \in Workers : WorkerMoves(w)
           \/ \E w \in Workers, i \in batch :
                Takes(w, i) /\ RowsKept /\ UNCHANGED <<sched, stopping>>
           \/ QueuedFetched /\ RowsKept
           \/ ActiveFetched /\ RowsKept
  <1>1. ASSUME NEW w \in Workers, Start(w) \/ ExecuteStep(w) \/ SaveOutcome(w) \/ Cascade(w)
        PROVE  WorkerMoves(w)
    BY <1>1, StartEffect, ExecuteStepEffect, SaveOutcomeEffect, CascadeEffect
  <1>2. ASSUME NEW w \in Workers, WorkerFails(w)
        PROVE  WorkerMoves(w)
    BY <1>2, WorkerFailsEffect
  <1>3. ASSUME NEW w \in Workers, Take(w)
        PROVE  \E i \in batch : Takes(w, i) /\ RowsKept /\ UNCHANGED <<sched, stopping>>
    BY <1>3, TakeEffect
  <1>4. ASSUME NEW u \in Updates, CancelJob(u)
        PROVE  JobsFlagged
    BY <1>4, CancelJobEffect
  <1>5. ASSUME NEW u \in Updates,
               CancelGet(u) \/ CancelSave(u) \/ CancelBundle(u) \/ CancelFails(u) \/ Deadline(u)
        PROVE  PoolKept
    BY <1>5 DEF CancelGet, CancelSave, CancelBundle, CancelFails, Deadline, PoolKept, poolVars
  <1>6. ASSUME NEW b \in Bundles, QueueCheck(b) \/ QueueSave(b) \/ QueueFails(b)
        PROVE  PoolKept
    BY <1>6 DEF QueueCheck, QueueSave, QueueFails, PoolKept, poolVars
  <1>7. CASE FetchQueued
    <2>1. /\ sched = "idle" /\ sched' = "fetched" /\ job' = job /\ stopping' = stopping
          /\ RowsKept
      BY <1>7 DEF FetchQueued, RowsKept, tableVars, historyVars
    <2>2. PICK Q \in SUBSET Ready : batch' = { Item(u) : u \in Q }
      BY <1>7 DEF FetchQueued
    <2>3. \A i \in batch' : \E u \in Ready : i = Item(u)
      BY <2>2
    <2>4. QED
      BY <2>1, <2>3 DEF QueuedFetched
  <1>8. CASE FetchActive
    <2>1. /\ sched = "fetched" /\ sched' = "waiting" /\ job' = job /\ stopping' = stopping
          /\ RowsKept
      BY <1>8 DEF FetchActive, RowsKept, tableVars, historyVars
    <2>2. \A i \in batch' : i \in batch \/ \E u \in ActiveRows : i = Item(u)
      BY <1>8 DEF FetchActive
    <2>3. QED
      BY <2>1, <2>2 DEF ActiveFetched
  <1>9. CASE FetchFails
    BY <1>9 DEF FetchFails, PoolEmptied, PoolInv
  <1>10. CASE BatchDone
    <2>1. \A w \in Workers : job[w] = NoJob
      BY <1>10, JobType DEF BatchDone, Idle, PoolInv
    <2>2. QED
      BY <1>10, <2>1 DEF BatchDone, PoolEmptied, PoolInv
  <1>11. CASE Stop
    BY <1>11, StopEffect
  <1>12. CASE Restart \/ Crash
    BY <1>12 DEF Restart, Crash, NewProcess, PoolEmptied
  <1>13. CASE UNCHANGED vars
    BY <1>13 DEF vars, poolVars, PoolKept
  <1>14. QED
    BY <1>1, <1>2, <1>3, <1>4, <1>5, <1>6, <1>7, <1>8, <1>9, <1>10, <1>11, <1>12, <1>13
       DEF Next, Worker, CancelProceeds, Scheduler

LEMMA ItemType ==
    ASSUME RowInv, NEW u \in Updates, row[u].state = "QUEUED" \/ row[u].state \in Active
    PROVE  /\ ItemOK(Item(u)) /\ Item(u).upd = u
           /\ Item(u).state = row[u].state /\ Item(u).exec = row[u].exec
  BY DEF RowInv, Item, ItemOK, Copy

LEMMA FetchedNotActive ==
    ASSUME RowInv, PoolInv, OrderInv, CallInv, [Next]_vars, sched = "fetched", NEW i \in batch
    PROVE  row'[i.upd].state \notin Active
  <1>1. i.upd \in Updates /\ row[i.upd].state \notin Active
    BY DEF PoolInv, ItemOK, Copy
  <1>2. CASE RowsKept
    BY <1>1, <1>2 DEF RowsKept
  <1>3. ASSUME NEW u \in Updates, RowsCancelled(u)
        PROVE  row'[i.upd].state \notin Active
    BY <1>1, <1>3 DEF RowsCancelled, Active
  <1>4. ASSUME NEW u \in Updates, NEW s \in States, NEW e \in BOOLEAN, RowWritten(u, s, e)
        PROVE  row'[i.upd].state \notin Active
    BY <1>1, <1>4 DEF RowWritten, RowSaved
  <1>5. ASSUME NEW b \in Bundles, NEW u \in Updates, Inserts(b, u)
        PROVE  row'[i.upd].state \notin Active
    BY <1>1, <1>5 DEF Inserts, RowSaved, Active
  <1>6. QED
    BY <1>2, <1>3, <1>4, <1>5, RowEffect, QueueSaveInserts

LEMMA PoolInvStep ==
    ASSUME RowInv, PoolInv, OrderInv, CallInv, [Next]_vars
    PROVE  PoolInv'
  <1>1. CASE PoolKept
    BY <1>1, FetchedNotActive DEF PoolKept, PoolInv
  <1>2. CASE PoolEmptied
    BY <1>2 DEF PoolEmptied, PoolInv, JobOK
  <1>3. CASE JobsFlagged
    BY <1>3, FetchedNotActive DEF JobsFlagged, PoolInv
  <1>4. ASSUME NEW w \in Workers, WorkerMoves(w)
        PROVE  PoolInv'
    BY <1>4 DEF WorkerMoves, PoolInv
  <1>5. ASSUME NEW w \in Workers, NEW i \in batch, Takes(w, i), RowsKept,
               UNCHANGED <<sched, stopping>>
        PROVE  PoolInv'
    BY <1>5 DEF Takes, PoolInv, JobOK
  <1>6. CASE QueuedFetched /\ RowsKept
    <2>1. \A i \in batch' : ItemOK(i) /\ i.state = "QUEUED" /\ row'[i.upd].state \notin Active
      <3>1. SUFFICES ASSUME NEW u \in Ready
                     PROVE  LET i == Item(u) IN ItemOK(i) /\ i.state = "QUEUED"
                                                /\ row'[i.upd].state \notin Active
        BY <1>6 DEF QueuedFetched
      <3>2. u \in Updates /\ row[u].state = "QUEUED"
        BY DEF Ready
      <3>3. QED
        BY <1>6, <3>2, ItemType DEF RowsKept, Active
    <2>2. QED
      BY <1>6, <2>1 DEF QueuedFetched, PoolInv
  <1>7. CASE ActiveFetched /\ RowsKept
    <2>1. \A i \in batch' : ItemOK(i)
      <3>1. SUFFICES ASSUME NEW u \in ActiveRows
                     PROVE  ItemOK(Item(u))
        BY <1>7 DEF ActiveFetched, PoolInv
      <3>2. QED
        BY ItemType DEF ActiveRows
    <2>2. QED
      BY <1>7, <2>1 DEF ActiveFetched, PoolInv
  <1>8. QED
    BY <1>1, <1>2, <1>3, <1>4, <1>5, <1>6, <1>7, PoolEffect

(* The batch has been processed before the next one is fetched, and the    *)
(* second query returns no row of the first.                               *)
LEMMA AloneStep ==
    ASSUME RowInv, PoolInv, CallInv, Alone, [Next]_vars
    PROVE  Alone'
  <1>0. \A i \in batch : i.upd \in Updates
    BY DEF PoolInv, ItemOK, Copy
  <1>1. CASE PoolKept
    BY <1>1 DEF PoolKept, Alone
  <1>2. CASE PoolEmptied
    BY <1>2, FirmwareAssumption DEF PoolEmptied, Alone, NoJob
  <1>3. CASE JobsFlagged
    BY <1>3 DEF JobsFlagged, Alone
  <1>4. ASSUME NEW w \in Workers, WorkerMoves(w)
        PROVE  Alone'
    <2>1. job'[w].upd = job[w].upd \/ job'[w].upd = "none"
      BY <1>4 DEF WorkerMoves, Goes, NoJob
    <2>2. QED
      BY <1>0, <1>4, <2>1, FirmwareAssumption DEF WorkerMoves, Alone
  <1>5. ASSUME NEW w \in Workers, NEW i \in batch, Takes(w, i)
        PROVE  Alone'
    <2>1. job'[w].upd = i.upd \/ job'[w].upd = "none"
      BY <1>5 DEF Takes, NoJob
    <2>2. QED
      BY <1>0, <1>5, <2>1, FirmwareAssumption DEF Takes, Alone
  <1>6. CASE QueuedFetched
    <2>1. \A i \in batch' : i.upd \in Updates /\ i = Item(i.upd)
      BY <1>6, ItemType DEF QueuedFetched, Ready
    <2>2. \A w \in Workers : job'[w].upd = "none"
      BY <1>6 DEF QueuedFetched, PoolInv, NoJob
    <2>3. QED
      BY <2>1, <2>2, FirmwareAssumption DEF Alone
  <1>7. CASE ActiveFetched
    <2>1. ASSUME NEW i \in batch'
          PROVE  /\ i.upd \in Updates
                 /\ \/ i \in batch /\ row[i.upd].state \notin Active
                    \/ i = Item(i.upd) /\ row[i.upd].state \in Active
      <3>1. CASE i \in batch
        BY <1>0, <1>7, <3>1 DEF ActiveFetched, PoolInv
      <3>2. ASSUME NEW u \in ActiveRows, i = Item(u)
            PROVE  i.upd = u /\ u \in Updates /\ row[u].state \in Active
        BY <3>2, ItemType DEF ActiveRows
      <3>3. QED
        BY <1>7, <3>1, <3>2 DEF ActiveFetched
    <2>2. \A w \in Workers : job'[w].upd = "none"
      BY <1>7 DEF ActiveFetched, PoolInv, NoJob
    <2>3. QED
      BY <2>1, <2>2, FirmwareAssumption DEF Alone
  <1>8. QED
    BY <1>1, <1>2, <1>3, <1>4, <1>5, <1>6, <1>7, PoolEffect

(* The update before a ready one in its bundle has completed, and so have  *)
(* those before that one.                                                  *)
(* The query asks for the predecessor only; it is enough.                  *)
LEMMA ReadyIsInOrder ==
    ASSUME RowInv, OrderInv, NEW u \in Ready
    PROVE  EarlierIn(u, completed)
  <1>1. u \in Updates
    BY DEF Ready
  <1>2. SUFFICES ASSUME NEW v \in Updates, SameBundle(u, v), Order[v] < Order[u]
                 PROVE  v \in completed
    BY DEF EarlierIn
  <1>3. Order[u] \in Nat /\ Order[v] \in Nat /\ Order[v] > 0
    BY <1>1, FirmwareAssumption
  <1>4. PICK x \in Updates : BundleOf[x] = BundleOf[u] /\ Order[x] + 1 = Order[u]
    BY <1>1, <1>2, <1>3, FirmwareAssumption
  <1>5. x \in completed
    BY <1>1, <1>4 DEF Ready, Precedes, SameBundle, RowInv
  <1>6. Order[x] \in Nat
    BY <1>4, FirmwareAssumption
  <1>7. CASE Order[v] = Order[x]
    BY <1>2, <1>4, <1>5, <1>7, FirmwareAssumption DEF SameBundle
  <1>8. CASE Order[v] < Order[x]
    BY <1>2, <1>4, <1>5, <1>8 DEF OrderInv, EarlierIn, SameBundle
  <1>9. QED
    BY <1>2, <1>3, <1>4, <1>6, <1>7, <1>8

LEMMA OrderInvStep ==
    ASSUME RowInv, PoolInv, OrderInv, CallInv, [Next]_vars
    PROVE  OrderInv'
  <1>1. completed \subseteq completed'
    BY RowEffect, QueueSaveInserts DEF RowsKept, RowsCancelled, RowWritten, Inserts, RowSaved
  <1>2. \A u : EarlierIn(u, completed) => EarlierIn(u, completed')
    BY <1>1 DEF EarlierIn
  <1>3. ASSUME NEW u \in Updates, row'[u].state \in Active \/ u \in completed'
        PROVE  EarlierIn(u, completed')
    <2>1. CASE RowsKept
      BY <1>2, <1>3, <2>1 DEF RowsKept, OrderInv
    <2>2. ASSUME NEW x \in Updates, RowsCancelled(x)
          PROVE  EarlierIn(u, completed')
      BY <1>2, <1>3, <2>2 DEF RowsCancelled, OrderInv, Active
    <2>3. ASSUME NEW x \in Updates, NEW s \in States, NEW e \in BOOLEAN, RowWritten(x, s, e)
          PROVE  EarlierIn(u, completed')
      BY <1>2, <1>3, <2>3 DEF RowWritten, RowSaved, OrderInv
    <2>4. ASSUME NEW b \in Bundles, NEW x \in Updates, Inserts(b, x)
          PROVE  EarlierIn(u, completed')
      BY <1>2, <1>3, <2>4 DEF Inserts, RowSaved, OrderInv, Active
    <2>5. QED
      BY <2>1, <2>2, <2>3, <2>4, RowEffect, QueueSaveInserts
  <1>4. ASSUME NEW i \in batch'
        PROVE  EarlierIn(i.upd, completed')
    <2>1. CASE PoolKept \/ JobsFlagged \/ PoolEmptied
      BY <1>2, <2>1 DEF PoolKept, JobsFlagged, PoolEmptied, OrderInv
    <2>2. CASE \E w \in Workers : WorkerMoves(w)
      BY <1>2, <2>2 DEF WorkerMoves, OrderInv
    <2>3. CASE \E w \in Workers, k \in batch : Takes(w, k)
      BY <1>2, <2>3 DEF Takes, OrderInv
    <2>4. CASE QueuedFetched
      <3>1. PICK u \in Ready : i = Item(u)
        BY <2>4 DEF QueuedFetched
      <3>2. i.upd = u
        BY <3>1, ItemType DEF Ready
      <3>3. QED
        BY <1>2, <3>2, ReadyIsInOrder
    <2>5. CASE ActiveFetched
      <3>1. CASE i \in batch
        BY <1>2, <3>1 DEF OrderInv
      <3>2. ASSUME NEW u \in ActiveRows, i = Item(u)
            PROVE  EarlierIn(i.upd, completed')
        <4>1. u \in Updates /\ row[u].state \in Active /\ i.upd = u
          BY <3>2, ItemType DEF ActiveRows
        <4>2. QED
          BY <1>2, <4>1 DEF OrderInv
      <3>3. QED
        BY <2>5, <3>1, <3>2 DEF ActiveFetched
    <2>6. QED
      BY <2>1, <2>2, <2>3, <2>4, <2>5, PoolEffect
  <1>5. ASSUME NEW x \in Workers, job'[x].upd \in Updates
        PROVE  EarlierIn(job'[x].upd, completed')
    <2>1. CASE PoolKept \/ JobsFlagged \/ QueuedFetched \/ ActiveFetched
      BY <1>2, <1>5, <2>1 DEF PoolKept, JobsFlagged, QueuedFetched, ActiveFetched, OrderInv
    <2>2. CASE PoolEmptied
      BY <1>5, <2>2, FirmwareAssumption DEF PoolEmptied, NoJob
    <2>3. ASSUME NEW w \in Workers, WorkerMoves(w)
          PROVE  EarlierIn(job'[x].upd, completed')
      <3>1. job'[w].upd = job[w].upd \/ job'[w].upd = "none"
        BY <2>3 DEF WorkerMoves, Goes, NoJob
      <3>2. QED
        BY <1>2, <1>5, <2>3, <3>1, FirmwareAssumption DEF WorkerMoves, OrderInv
    <2>4. ASSUME NEW w \in Workers, NEW i \in batch, Takes(w, i)
          PROVE  EarlierIn(job'[x].upd, completed')
      <3>1. job'[w].upd = i.upd \/ job'[w].upd = "none"
        BY <2>4 DEF Takes, NoJob
      <3>2. QED
        BY <1>2, <1>5, <2>4, <3>1, FirmwareAssumption DEF Takes, OrderInv
    <2>5. QED
      BY <2>1, <2>2, <2>3, <2>4, PoolEffect
  <1>6. QED
    BY <1>3, <1>4, <1>5 DEF OrderInv

(* What a step does to the calls. *)
LEMMA CallsEffect ==
    ASSUME RowInv, PoolInv, CallInv, [Next]_vars
    PROVE  \/ call' = call /\ cancel' = cancel
           \/ call' = call /\ \E u \in Updates : CancelGet(u) \/ CancelProceeds(u) \/ CancelFails(u)
           \/ cancel' = cancel /\ \E b \in Bundles : QueueCheck(b) \/ QueueFails(b)
           \/ \E b \in Bundles : QueueSave(b)
           \/ NewProcess /\ (Restart \/ Crash)
  <1>1. ASSUME NEW w \in Workers, Worker(w) \/ WorkerFails(w)
        PROVE  call' = call /\ cancel' = cancel
    BY <1>1, TakeEffect, StartEffect, ExecuteStepEffect, SaveOutcomeEffect, CascadeEffect,
       WorkerFailsEffect DEF Worker, WorkerMoves
  <1>2. ASSUME NEW b \in Bundles, QueueCheck(b) \/ QueueFails(b)
        PROVE  cancel' = cancel
    BY <1>2 DEF QueueCheck, QueueFails
  <1>3. ASSUME NEW u \in Updates, CancelGet(u) \/ CancelProceeds(u) \/ CancelFails(u)
        PROVE  call' = call
    BY <1>3 DEF CancelGet, CancelProceeds, CancelJob, CancelSave, CancelBundle, CancelFails
  <1>4. ASSUME NEW u \in Updates, Deadline(u)
        PROVE  call' = call /\ cancel' = cancel
    BY <1>4 DEF Deadline, callVars
  <1>5. CASE Scheduler \/ FetchFails \/ Stop
    BY <1>5 DEF Scheduler, FetchQueued, FetchActive, BatchDone, FetchFails, Stop, callVars
  <1>6. CASE Restart \/ Crash
    BY <1>6 DEF Restart, Crash
  <1>7. CASE UNCHANGED vars
    BY <1>7 DEF vars, callVars
  <1>8. QED
    BY <1>1, <1>2, <1>3, <1>4, <1>5, <1>6, <1>7 DEF Next

(* A row that is there stays there; only QueueSave inserts. *)
LEMMA RowsStay ==
    ASSUME RowInv, PoolInv, OrderInv, CallInv, [Next]_vars
    PROVE  /\ \A u \in Updates : row[u].state # "none" => row'[u].state # "none"
           /\ \/ \A u \in Updates : row[u].state = "none" => row'[u].state = "none"
              \/ \E b \in Bundles : QueueSave(b)
  <1>1. CASE RowsKept
    BY <1>1 DEF RowsKept
  <1>2. ASSUME NEW x \in Updates, RowsCancelled(x), NEW u \in Updates
        PROVE  (row'[u].state = "none") <=> (row[u].state = "none")
    BY <1>2 DEF RowsCancelled, Remaining
  <1>3. ASSUME NEW x \in Updates, NEW s \in States, NEW e \in BOOLEAN, RowWritten(x, s, e),
               NEW u \in Updates
        PROVE  (row'[u].state = "none") <=> (row[u].state = "none")
    BY <1>3 DEF RowWritten, RowSaved
  <1>4. ASSUME NEW b \in Bundles, NEW x \in Updates, Inserts(b, x), NEW u \in Updates
        PROVE  row[u].state # "none" => row'[u].state # "none"
    BY <1>4 DEF Inserts, RowSaved
  <1>5. QED
    BY <1>1, <1>2, <1>3, <1>4, RowEffect, QueueSaveInserts

LEMMA CallInvStep ==
    ASSUME RowInv, PoolInv, OrderInv, CallInv, [Next]_vars
    PROVE  CallInv'
  <1>1. \A u \in Updates : row[u].state # "none" => row'[u].state # "none"
    BY RowsStay
  <1>2. /\ \A i \in batch' : row'[i.upd].state # "none"
        /\ \A w \in Workers : job'[w].upd \in Updates => row'[job'[w].upd].state # "none"
    <2>0. /\ \A i \in batch : i.upd \in Updates /\ row'[i.upd].state # "none"
          /\ \A w \in Workers : job[w].upd \in Updates => row'[job[w].upd].state # "none"
      BY <1>1 DEF PoolInv, ItemOK, Copy, CallInv
    <2>1. CASE PoolKept \/ JobsFlagged
      BY <2>0, <2>1 DEF PoolKept, JobsFlagged
    <2>2. CASE PoolEmptied
      BY <2>2, FirmwareAssumption DEF PoolEmptied, NoJob
    <2>3. ASSUME NEW w \in Workers, WorkerMoves(w)
          PROVE  <1>2!:
      <3>1. job'[w].upd = job[w].upd \/ job'[w].upd = "none"
        BY <2>3 DEF WorkerMoves, Goes, NoJob
      <3>2. QED
        BY <2>0, <2>3, <3>1, FirmwareAssumption DEF WorkerMoves
    <2>4. ASSUME NEW w \in Workers, NEW i \in batch, Takes(w, i)
          PROVE  <1>2!:
      <3>1. job'[w].upd = i.upd \/ job'[w].upd = "none"
        BY <2>4 DEF Takes, NoJob
      <3>2. QED
        BY <2>0, <2>4, <3>1, FirmwareAssumption DEF Takes
    <2>5. CASE QueuedFetched \/ ActiveFetched
      <3>1. \A i \in batch' : i \in batch \/ \E u \in Updates : i = Item(u) /\ Pending(u)
        BY <2>5 DEF QueuedFetched, ActiveFetched, Ready, ActiveRows, Pending
      <3>2. \A u \in Updates : Pending(u) => Item(u).upd = u /\ row[u].state # "none"
        BY ItemType DEF Pending, Active
      <3>3. job' = job
        BY <2>5 DEF QueuedFetched, ActiveFetched
      <3>4. QED
        BY <1>1, <2>0, <3>1, <3>2, <3>3
    <2>6. QED
      BY <2>1, <2>2, <2>3, <2>4, <2>5, PoolEffect
  <1>3. ASSUME NEW b \in Bundles, QueueSave(b)
        PROVE  CallInv'
    <2> DEFINE u == NextMissing(b)
    <2>1. Inserts(b, u) /\ cancel' = cancel
      BY <1>3, QueueSaveEffect
    <2> HIDE DEF u
    <2>2. /\ u \in Updates /\ BundleOf[u] = b /\ row[u].state = "none" /\ call[b] = "saving"
          /\ row'[u].state = "QUEUED" /\ \A v \in Updates : v # u => row'[v] = row[v]
          /\ call' = [call EXCEPT ![b] = IF Missing(b) = {u} THEN "done" ELSE "saving"]
      BY <2>1 DEF Inserts, RowSaved
    <2>3. call' \in [Bundles -> {"idle", "saving", "done"}] /\ call'[b] \in {"saving", "done"}
          /\ \A c \in Bundles : c # b => call'[c] = call[c]
      BY <2>2 DEF CallInv
    <2>4. ASSUME NEW c \in Bundles, call'[c] = "saving"
          PROVE  \E v \in Updates : v \in Missing(c)'
      <3>1. CASE c = b
        <4>1. Missing(b) # {u} /\ u \in Missing(b)
          BY <2>2, <2>4, <3>1 DEF CallInv, Missing
        <4>2. PICK v \in Missing(b) : v # u
          BY <4>1
        <4>3. QED
          BY <2>2, <3>1, <4>2 DEF Missing
      <3>2. CASE c # b
        BY <2>2, <2>3, <2>4, <3>2 DEF CallInv, Missing
      <3>3. QED
        BY <3>1, <3>2
    <2>5. \A v \in Updates : call'[BundleOf[v]] = "idle" => row'[v].state = "none"
      BY <2>2, <2>3, FirmwareAssumption DEF CallInv
    <2>6. \A v \in Updates : cancel'[v] # "idle" => row'[v].state # "none"
      BY <1>1, <2>1 DEF CallInv
    <2>7. \A c, d \in Bundles :
            call'[c] = "saving" /\ call'[d] = "saving" /\ SwitchOf[c] = SwitchOf[d] => c = d
      BY <2>2, <2>3 DEF CallInv
    <2>8. cancel' \in [Updates -> {"idle", "job", "write", "bundle", "done"}]
      BY <2>1 DEF CallInv
    <2>9. QED
      BY <1>2, <2>3, <2>4, <2>5, <2>6, <2>7, <2>8 DEF CallInv
  <1>4. CASE ~ \E b \in Bundles : QueueSave(b)
    <2>1. \A u \in Updates : (row'[u].state = "none") <=> (row[u].state = "none")
      BY <1>1, <1>4, RowsStay
    <2>2. \A b \in Bundles : Missing(b)' = Missing(b)
      BY <2>1 DEF Missing
    <2>3. CASE call' = call /\ cancel' = cancel
      BY <1>2, <2>1, <2>2, <2>3 DEF CallInv
    <2>4. ASSUME call' = call, NEW u \in Updates, CancelGet(u) \/ CancelProceeds(u) \/ CancelFails(u)
          PROVE  CallInv'
      <3>1. /\ cancel' \in [Updates -> {"idle", "job", "write", "bundle", "done"}]
            /\ \A v \in Updates : v # u => cancel'[v] = cancel[v]
        BY <2>4 DEF CancelGet, CancelProceeds, CancelJob, CancelSave, CancelBundle, CancelFails,
                    CallInv
      <3>2. row[u].state # "none"
        BY <2>4 DEF CancelGet, CancelProceeds, CancelJob, CancelSave, CancelBundle, CancelFails,
                    CallInv, Pending, Active
      <3>3. QED
        BY <1>2, <2>1, <2>2, <2>4, <3>1, <3>2 DEF CallInv
    <2>5. ASSUME cancel' = cancel, NEW b \in Bundles, QueueCheck(b)
          PROVE  CallInv'
      <3>1. call[b] = "idle" /\ call' = [call EXCEPT ![b] = "saving"] /\ LockFree(b)
        BY <2>5 DEF QueueCheck
      <3>2. PICK v \in Updates : BundleOf[v] = b
        BY FirmwareAssumption
      <3>3. v \in Missing(b)
        BY <3>1, <3>2 DEF CallInv, Missing
      <3>4. call' \in [Bundles -> {"idle", "saving", "done"}] /\ call'[b] = "saving"
            /\ \A c \in Bundles : c # b => call'[c] = call[c]
        BY <3>1 DEF CallInv
      <3>5. \A c, d \in Bundles :
              call'[c] = "saving" /\ call'[d] = "saving" /\ SwitchOf[c] = SwitchOf[d] => c = d
        BY <3>1, <3>4 DEF CallInv, LockFree
      <3>6. QED
        BY <1>2, <2>1, <2>2, <2>5, <3>2, <3>3, <3>4, <3>5, FirmwareAssumption DEF CallInv
    <2>6. ASSUME cancel' = cancel, NEW b \in Bundles, QueueFails(b)
          PROVE  CallInv'
      <3>1. call[b] = "saving" /\ call' = [call EXCEPT ![b] = "done"]
        BY <2>6 DEF QueueFails
      <3>2. call' \in [Bundles -> {"idle", "saving", "done"}] /\ call'[b] = "done"
            /\ \A c \in Bundles : c # b => call'[c] = call[c]
        BY <3>1 DEF CallInv
      <3>3. QED
        BY <1>2, <2>1, <2>2, <2>6, <3>2, FirmwareAssumption DEF CallInv
    <2>7. CASE NewProcess
      <3>1. /\ call' \in [Bundles -> {"idle", "saving", "done"}]
            /\ \A b \in Bundles : call'[b] # "saving" /\ (call'[b] = "idle" => call[b] = "idle")
        BY <2>7 DEF NewProcess, CallInv
      <3>2. /\ cancel' \in [Updates -> {"idle", "job", "write", "bundle", "done"}]
            /\ \A u \in Updates : cancel'[u] # "idle" => cancel[u] # "idle"
        BY <2>7 DEF NewProcess, CallInv
      <3>3. QED
        BY <1>2, <2>1, <3>1, <3>2, FirmwareAssumption DEF CallInv
    <2>8. QED
      BY <1>4, <2>3, <2>4, <2>5, <2>6, <2>7, CallsEffect
  <1>5. QED
    BY <1>3, <1>4

-----------------------------------------------------------------------------
(* A call of CancelUpdate leaves its trace.                                *)
LEMMA CancelStays ==
    ASSUME RowInv, PoolInv, CallInv, [Next]_vars
    PROVE  \A u \in Updates :
             /\ cancel'[u] = "idle" => cancel[u] = "idle"
             /\ cancel'[u] \in {"idle", "job"} => cancel[u] \in {"idle", "job"}
  <1>1. ASSUME NEW u \in Updates, CancelGet(u) \/ CancelProceeds(u) \/ CancelFails(u)
        PROVE  \A v \in Updates :
                 /\ cancel'[v] = "idle" => cancel[v] = "idle"
                 /\ cancel'[v] \in {"idle", "job"} => cancel[v] \in {"idle", "job"}
    BY <1>1 DEF CancelGet, CancelProceeds, CancelJob, CancelSave, CancelBundle, CancelFails,
                CallInv
  <1>2. ASSUME NEW b \in Bundles, QueueSave(b)
        PROVE  cancel' = cancel
    BY <1>2 DEF QueueSave
  <1>3. CASE NewProcess
    BY <1>3 DEF NewProcess, CallInv
  <1>4. QED
    BY <1>1, <1>2, <1>3, CallsEffect

(* A step in which no worker saves what it has done. *)
Quiet ==
    /\ completed' = completed
    /\ \A u \in Updates :
         \/ row'[u] = row[u]
         \/ /\ row[u].state = "QUEUED"
            /\ row'[u].state = "CANCELLED" /\ row'[u].exec = row[u].exec
         \/ row[u].state = "none" /\ row'[u].state = "QUEUED"
         \/ cancel[u] # "idle"
    /\ \A w \in Workers : WorkerMoves(w) => job'[w] = NoJob \/ job[w].pc \in {"step", "save"}

WorkerSaves(w) ==
    LET u == job[w].upd IN
    \/ job[w].pc = "start" /\ job'[w] # NoJob /\ RowSaved(u, FirstState(u), FALSE)
    \/ job[w].pc = "step" /\ job'[w] # NoJob /\ ~ job[w].exec /\ RowSaved(u, job[w].state, FALSE)
    \/ job[w].pc = "save" /\ job'[w] = NoJob /\ RowSaved(u, job[w].state, TRUE)
    \/ job[w].pc = "save" /\ job'[w] = NoJob /\ RowSaved(u, NextState(u, job[w].state), FALSE)
    \/ job[w].pc = "save" /\ job'[w] # NoJob /\ RowSaved(u, "FAILED", FALSE)

(* One worker moves in a step.                                             *)
LEMMA OneMoves ==
    ASSUME NEW w \in Workers, NEW x \in Workers, WorkerMoves(w), WorkerMoves(x)
    PROVE  x = w
  BY DEF WorkerMoves, Goes, Job, NoJob

LEMMA QuietOrSaves ==
    ASSUME RowInv, PoolInv, CallInv, [Next]_vars
    PROVE  Quiet \/ \E w \in Workers : WorkerMoves(w) /\ WorkerSaves(w)
  <1>1. ASSUME RowsKept \/ \E u \in Updates : RowsCancelled(u)
        PROVE  /\ completed' = completed
               /\ \A u \in Updates :
                    \/ row'[u] = row[u]
                    \/ /\ row[u].state = "QUEUED"
                       /\ row'[u].state = "CANCELLED" /\ row'[u].exec = row[u].exec
    BY <1>1 DEF RowsKept, RowsCancelled, Remaining
  <1>2. ASSUME NEW w \in Workers, WorkerMoves(w),
               job'[w] = NoJob \/ job[w].pc \in {"step", "save"},
               RowsKept \/ \E u \in Updates : RowsCancelled(u)
        PROVE  Quiet
    BY <1>1, <1>2, OneMoves DEF Quiet
  <1>3. ASSUME PoolKept \/ job' = job \/ JobsFlagged \/ PoolEmptied, NEW w \in Workers,
               WorkerMoves(w)
        PROVE  job'[w] = NoJob
    BY <1>3 DEF PoolKept, JobsFlagged, PoolEmptied, WorkerMoves, Goes
  <1>4. ASSUME NEW w \in Workers, Start(w)
        PROVE  Quiet \/ (WorkerMoves(w) /\ WorkerSaves(w))
    BY <1>2, <1>4, StartEffect DEF WorkerSaves
  <1>5. ASSUME NEW w \in Workers, ExecuteStep(w)
        PROVE  Quiet \/ (WorkerMoves(w) /\ WorkerSaves(w))
    BY <1>2, <1>5, ExecuteStepEffect DEF WorkerSaves
  <1>6. ASSUME NEW w \in Workers, SaveOutcome(w)
        PROVE  Quiet \/ (WorkerMoves(w) /\ WorkerSaves(w))
    BY <1>2, <1>6, SaveOutcomeEffect DEF WorkerSaves
  <1>7. ASSUME NEW w \in Workers, Cascade(w)
        PROVE  Quiet
    <2>1. job[w].upd \in Updates
      BY <1>7, CascadeEffect DEF WorkerMoves, Job
    <2>2. QED
      BY <1>2, <1>7, <2>1, CascadeEffect
  <1>8. ASSUME NEW w \in Workers, WorkerFails(w)
        PROVE  Quiet
    BY <1>2, <1>8, WorkerFailsEffect
  <1>9. ASSUME NEW w \in Workers, Take(w)
        PROVE  Quiet
    <2>1. PICK i \in batch : Takes(w, i)
      BY <1>9, TakeEffect
    <2>2. \A x \in Workers : ~ WorkerMoves(x)
      BY <2>1 DEF Takes, WorkerMoves
    <2>3. QED
      BY <1>1, <1>9, <2>2, TakeEffect DEF Quiet
  <1>10. ASSUME NEW u \in Updates, CancelSave(u)
         PROVE  Quiet
    <2>1. RowSaved(u, "CANCELLED", FALSE) /\ cancel[u] # "idle" /\ job' = job
      BY <1>10, SaveEffect DEF CancelSave, States, Terminal, poolVars
    <2>2. QED
      BY <1>3, <2>1 DEF Quiet, RowSaved
  <1>11. ASSUME NEW u \in Updates, CancelBundle(u)
         PROVE  Quiet
    <2>1. RowsCancelled(u) /\ job' = job
      BY <1>11, CancelEffect DEF CancelBundle, poolVars
    <2>2. QED
      BY <1>1, <1>3, <2>1 DEF Quiet
  <1>12. ASSUME NEW b \in Bundles, QueueSave(b)
         PROVE  Quiet
    <2>1. PICK u \in Updates : Inserts(b, u)
      BY <1>12, QueueSaveInserts
    <2>2. job' = job
      BY <1>12, QueueSaveEffect
    <2>3. QED
      BY <1>3, <2>1, <2>2 DEF Quiet, Inserts, RowSaved
  <1>13. ASSUME RowsKept, PoolKept \/ job' = job \/ JobsFlagged \/ PoolEmptied
         PROVE  Quiet
    BY <1>1, <1>3, <1>13 DEF Quiet
  <1>14. ASSUME NEW u \in Updates, CancelGet(u) \/ CancelFails(u) \/ Deadline(u)
         PROVE  Quiet
    <2>1. RowsKept /\ job' = job
      BY <1>14 DEF CancelGet, CancelFails, Deadline, RowsKept, tableVars, historyVars, poolVars
    <2>2. QED
      BY <1>13, <2>1
  <1>15. ASSUME NEW u \in Updates, CancelJob(u)
         PROVE  Quiet
    BY <1>13, <1>15, CancelJobEffect DEF CancelJob, RowsKept, tableVars, historyVars
  <1>16. ASSUME NEW b \in Bundles, QueueCheck(b) \/ QueueFails(b)
         PROVE  Quiet
    <2>1. RowsKept /\ job' = job
      BY <1>16 DEF QueueCheck, QueueFails, RowsKept, tableVars, historyVars, poolVars
    <2>2. QED
      BY <1>13, <2>1
  <1>17. CASE Scheduler \/ FetchFails
    <2>1. RowsKept /\ job' = job
      BY <1>17 DEF Scheduler, FetchQueued, FetchActive, BatchDone, FetchFails, RowsKept, tableVars,
                   historyVars
    <2>2. QED
      BY <1>13, <2>1
  <1>18. CASE Stop
    BY <1>13, <1>18, StopEffect DEF Stop, RowsKept, tableVars, historyVars
  <1>19. CASE Restart \/ Crash
    <2>1. RowsKept /\ PoolEmptied
      BY <1>19 DEF Restart, Crash, NewProcess, RowsKept, tableVars, historyVars, PoolEmptied
    <2>2. QED
      BY <1>13, <2>1
  <1>20. CASE UNCHANGED vars
    <2>1. RowsKept /\ job' = job
      BY <1>20 DEF vars, tableVars, historyVars, poolVars, RowsKept
    <2>2. QED
      BY <1>13, <2>1
  <1>21. QED
    BY <1>4, <1>5, <1>6, <1>7, <1>8, <1>9, <1>10, <1>11, <1>12, <1>14, <1>15, <1>16, <1>17, <1>18,
       <1>19, <1>20 DEF Next, Worker, CancelProceeds

LEMMA SyncInvStep ==
    ASSUME RowInv, PoolInv, Alone, CallInv, SyncInv, [Next]_vars
    PROVE  SyncInv'
  <1>0. \A i \in batch : i.upd \in Updates
    BY DEF PoolInv, ItemOK, Copy
  <1>1. \A u \in Updates : cancel'[u] = "idle" => cancel[u] = "idle"
    BY CancelStays
  <1>2. CASE Quiet
    <2>1. ASSUME NEW i \in batch
          PROVE  SyncItem(i, row'[i.upd], cancel'[i.upd])
      <3>1. i.upd \in Updates /\ row[i.upd].state # "none"
            /\ SyncItem(i, row[i.upd], cancel[i.upd]) /\ ItemOK(i)
        BY <1>0 DEF CallInv, SyncInv, PoolInv
      <3>2. QED
        BY <1>1, <1>2, <3>1 DEF Quiet, SyncItem, ItemOK, Active
    <2>2. ASSUME NEW w \in Workers, job[w].upd \in Updates
          PROVE  SyncJob(job[w], row'[job[w].upd], cancel'[job[w].upd])
      <3>1. /\ row[job[w].upd].state # "none" /\ JobOK(job[w]) /\ job[w] # NoJob
            /\ SyncJob(job[w], row[job[w].upd], cancel[job[w].upd])
        BY <2>2, FirmwareAssumption DEF CallInv, SyncInv, PoolInv, NoJob
      <3>2. job[w].pc \in {"step", "save"} => job[w].state \in Active
        BY <3>1 DEF JobOK
      <3>3. QED
        BY <1>1, <1>2, <2>2, <3>1, <3>2 DEF Quiet, SyncJob, Active
    <2>3. \A u \in completed' : cancel'[u] = "idle" => row'[u].state = "COMPLETED"
      <3>1. completed \subseteq Updates
        BY DEF RowInv
      <3>2. QED
        BY <1>1, <1>2, <3>1 DEF Quiet, SyncInv
    <2>4. CASE PoolKept
      BY <2>1, <2>2, <2>3, <2>4 DEF PoolKept, SyncInv
    <2>5. CASE PoolEmptied
      BY <2>3, <2>5, FirmwareAssumption DEF PoolEmptied, SyncInv, NoJob
    <2>6. CASE JobsFlagged
      <3>1. ASSUME NEW w \in Workers, job'[w].upd \in Updates
            PROVE  SyncJob(job'[w], row'[job'[w].upd], cancel'[job'[w].upd])
        BY <2>2, <2>6, <3>1 DEF JobsFlagged, SyncJob
      <3>2. QED
        BY <2>1, <2>3, <2>6, <3>1 DEF JobsFlagged, SyncInv
    <2>7. ASSUME NEW w \in Workers, WorkerMoves(w)
          PROVE  SyncInv'
      <3>1. ASSUME NEW x \in Workers, job'[x].upd \in Updates
            PROVE  SyncJob(job'[x], row'[job'[x].upd], cancel'[job'[x].upd])
        <4>1. CASE x # w
          BY <2>2, <2>7, <3>1, <4>1 DEF WorkerMoves
        <4>2. CASE x = w
          <5>1. job'[w] # NoJob /\ job[w].pc \in {"step", "save"} /\ Goes(job[w], job'[w])
            BY <1>2, <2>7, <3>1, <4>2, FirmwareAssumption DEF Quiet, WorkerMoves, NoJob
          <5>2. JobOK(job[w]) /\ job[w] # NoJob
            BY <2>7, FirmwareAssumption DEF PoolInv, WorkerMoves, Job, NoJob
          <5>3. job[w].state \in Active
            BY <5>1, <5>2 DEF JobOK
          <5>4. job[w].upd \in Updates /\ SyncJob(job[w], row'[job[w].upd], cancel'[job[w].upd])
            BY <2>2, <2>7 DEF WorkerMoves, Job
          <5>5. QED
            BY <4>2, <5>1, <5>3, <5>4 DEF Goes, SyncJob
        <4>3. QED
          BY <4>1, <4>2
      <3>2. QED
        BY <2>1, <2>3, <2>7, <3>1 DEF WorkerMoves, SyncInv
    <2>8. ASSUME NEW w \in Workers, NEW i \in batch, Takes(w, i)
          PROVE  SyncInv'
      <3>1. ASSUME NEW x \in Workers, job'[x].upd \in Updates
            PROVE  SyncJob(job'[x], row'[job'[x].upd], cancel'[job'[x].upd])
        <4>1. CASE x # w
          BY <2>2, <2>8, <3>1, <4>1 DEF Takes
        <4>2. CASE x = w
          <5>1. job'[w] # NoJob
            BY <3>1, <4>2, FirmwareAssumption DEF NoJob
          <5>2. QED
            BY <2>1, <2>8, <4>2, <5>1 DEF Takes, SyncJob, SyncItem
        <4>3. QED
          BY <4>1, <4>2
      <3>2. QED
        BY <2>1, <2>3, <2>8, <3>1 DEF Takes, SyncInv
    <2>9. ASSUME NEW u \in Updates, Pending(u), RowsKept
          PROVE  SyncItem(Item(u), row'[Item(u).upd], cancel'[Item(u).upd])
      BY <2>9, ItemType DEF SyncItem, RowsKept, Pending
    <2>10. CASE QueuedFetched /\ RowsKept
      <3>1. \A i \in batch' : \E u \in Updates : Pending(u) /\ i = Item(u)
        BY <2>10 DEF QueuedFetched, Ready, Pending
      <3>2. QED
        BY <2>2, <2>3, <2>9, <2>10, <3>1 DEF QueuedFetched, SyncInv
    <2>11. CASE ActiveFetched /\ RowsKept
      <3>1. \A i \in batch' : i \in batch \/ \E u \in Updates : Pending(u) /\ i = Item(u)
        BY <2>11 DEF ActiveFetched, ActiveRows, Pending
      <3>2. QED
        BY <2>1, <2>2, <2>3, <2>9, <2>11, <3>1 DEF ActiveFetched, SyncInv
    <2>12. QED
      BY <2>4, <2>5, <2>6, <2>7, <2>8, <2>10, <2>11, PoolEffect
  <1>3. ASSUME NEW w \in Workers, WorkerMoves(w), WorkerSaves(w)
        PROVE  SyncInv'
    <2> DEFINE u == job[w].upd
    <2>1. u \in Updates /\ JobOK(job[w]) /\ job[w] # NoJob
      BY <1>3, FirmwareAssumption DEF WorkerMoves, Job, NoJob, PoolInv
    <2>2. PICK s, e : RowSaved(u, s, e)
      BY <1>3 DEF WorkerSaves
    <2>3. \A v \in Updates : v # u => row'[v] = row[v]
      BY <2>2 DEF RowSaved
    <2>4. \A i \in batch : SyncItem(i, row'[i.upd], cancel'[i.upd])
      BY <1>0, <1>1, <2>3 DEF Alone, SyncInv, SyncItem
    <2>5. ASSUME NEW x \in Workers, x # w, job'[x].upd \in Updates
          PROVE  SyncJob(job'[x], row'[job'[x].upd], cancel'[job'[x].upd])
      <3>1. job'[x] = job[x] /\ job[x].upd # u
        BY <1>3, <2>5 DEF WorkerMoves, Alone
      <3>2. QED
        BY <1>1, <2>3, <2>5, <3>1 DEF SyncInv, SyncJob
    <2>6. \A v \in completed : v # u /\ cancel'[v] = "idle" => row'[v].state = "COMPLETED"
      BY <1>1, <2>3 DEF SyncInv, RowInv
    <2>7. cancel'[u] = "idle" => u \notin completed
      BY <1>1, <1>3, <2>1 DEF SyncInv, SyncJob, JobOK, Active, WorkerSaves
    <2>8. completed' \subseteq completed \cup {u}
          /\ (u \in completed' => u \in completed \/ row'[u].state = "COMPLETED")
      BY <2>1, <2>2 DEF RowSaved
    <2>9. job'[w].upd \in Updates => SyncJob(job'[w], row'[job'[w].upd], cancel'[job'[w].upd])
      <3>1. SUFFICES ASSUME job'[w] # NoJob
                     PROVE  SyncJob(job'[w], row'[job'[w].upd], cancel'[job'[w].upd])
        BY FirmwareAssumption DEF NoJob
      <3>2. Goes(job[w], job'[w]) /\ JobOK(job[w]) /\ job[w] # NoJob
        BY <1>3, <2>1, <3>1 DEF WorkerMoves
      <3>3. CASE job[w].pc = "start"
        <4>1. RowSaved(u, FirstState(u), FALSE) /\ ~ job[w].exec
          BY <1>3, <3>2, <3>3 DEF WorkerSaves, JobOK
        <4>2. job'[w].pc = "step" /\ job'[w].state = FirstState(u) /\ job'[w].upd = u
              /\ job'[w].exec = job[w].exec
          BY <3>2, <3>3 DEF Goes
        <4>3. row'[u].state = FirstState(u) /\ row'[u].exec = FALSE /\ job[w].exec = FALSE
          BY <4>1, <2>1 DEF RowSaved, JobOK, Job
        <4>4. QED
          BY <4>2, <4>3 DEF SyncJob
      <3>4. CASE job[w].pc = "step"
        <4>1. RowSaved(u, job[w].state, FALSE) /\ ~ job[w].exec
          BY <1>3, <3>4 DEF WorkerSaves
        <4>2. QED
          BY <3>2, <3>4, <4>1, <2>1 DEF RowSaved, Goes, SyncJob, JobOK, Job
      <3>5. CASE job[w].pc = "save"
        <4>1. RowSaved(u, "FAILED", FALSE)
          BY <1>3, <3>1, <3>5 DEF WorkerSaves
        <4>2. QED
          BY <3>2, <3>5, <4>1 DEF RowSaved, Goes, SyncJob
      <3>6. QED
        BY <1>3, <3>3, <3>4, <3>5 DEF WorkerSaves
    <2>10. \A v \in completed' : cancel'[v] = "idle" => row'[v].state = "COMPLETED"
      BY <2>6, <2>7, <2>8
    <2>11. batch' = batch
      BY <1>3 DEF WorkerMoves
    <2>12. QED
      BY <2>4, <2>5, <2>9, <2>10, <2>11 DEF SyncInv
  <1>4. QED
    BY <1>2, <1>3, QuietOrSaves

-----------------------------------------------------------------------------
LEMMA CancelledIsTouched ==
    ASSUME PoolInv, SyncInv, NEW y \in Updates, Cascades(y),
           NEW x \in Remaining(y), EarlierIn(x, completed)
    PROVE  Touched(x, cancel)
  <1>1. x \in Updates /\ SameBundle(x, y) /\ Order[y] < Order[x]
    BY DEF Remaining, SameBundle
  <1>2. Order[y] \in Nat /\ Order[x] \in Nat
    BY <1>1, FirmwareAssumption
  <1>3. CASE cancel[y] # "idle"
    BY <1>1, <1>2, <1>3 DEF Touched
  <1>4. CASE cancel[y] = "idle"
    <2>1. PICK w \in Workers : job[w].upd = y /\ job[w].pc = "cascade"
      BY <1>4 DEF Cascades
    <2>2. row[y].state \in Active \cup {"FAILED"}
      BY <1>4, <2>1 DEF SyncInv, SyncJob
    <2>3. y \in completed
      BY <1>1 DEF EarlierIn
    <2>4. row[y].state = "COMPLETED"
      BY <1>4, <2>3 DEF SyncInv
    <2>5. QED
      BY <2>2, <2>4 DEF Active
  <1>5. QED
    BY <1>3, <1>4

LEMMA QueuedStays ==
    ASSUME RowInv, PoolInv, OrderInv, CallInv, SyncInv, [Next]_vars,
           NEW x \in Updates, row[x].state = "QUEUED", EarlierIn(x, completed),
           ~ Touched(x, cancel)
    PROVE  \/ row'[x].state = "QUEUED"
           \/ \E w \in Workers : WorkerMoves(w) /\ job[w].upd = x
  <1>0. cancel[x] = "idle"
    BY FirmwareAssumption DEF Touched, SameBundle
  <1>1. CASE RowsKept
    BY <1>1 DEF RowsKept
  <1>2. ASSUME NEW u \in Updates, RowsCancelled(u), Cascades(u)
        PROVE  row'[x].state = "QUEUED"
    <2>1. x \notin Remaining(u)
      BY <1>2, CancelledIsTouched
    <2>2. QED
      BY <1>2, <2>1 DEF RowsCancelled
  <1>3. ASSUME NEW u \in Updates, NEW s \in States, NEW e \in BOOLEAN, RowWritten(u, s, e)
        PROVE  \/ row'[x].state = "QUEUED"
               \/ \E w \in Workers : WorkerMoves(w) /\ job[w].upd = x
    BY <1>0, <1>3 DEF RowWritten, RowSaved
  <1>4. ASSUME NEW b \in Bundles, NEW u \in Updates, Inserts(b, u)
        PROVE  row'[x].state = "QUEUED"
    BY <1>4 DEF Inserts, RowSaved
  <1>5. QED
    BY <1>1, <1>2, <1>3, <1>4, RowEffect, QueueSaveInserts

LEMMA PendingStays ==
    ASSUME RowInv, PoolInv, OrderInv, CallInv, SyncInv, TrayInv, [Next]_vars,
           NEW x \in Updates, ~ Touched(x, cancel), Pending(x)'
    PROVE  Pending(x) \/ \E b \in Bundles : Inserts(b, x)
  <1>0. cancel[x] = "idle"
    BY FirmwareAssumption DEF Touched, SameBundle
  <1>1. CASE RowsKept
    BY <1>1 DEF RowsKept, Pending
  <1>2. ASSUME NEW u \in Updates, RowsCancelled(u)
        PROVE  Pending(x)
    BY <1>2 DEF RowsCancelled, Pending, Active
  <1>3. ASSUME NEW u \in Updates, NEW s \in States, NEW e \in BOOLEAN, RowWritten(u, s, e)
        PROVE  Pending(x)
    <2>1. CASE u # x
      BY <1>3, <2>1 DEF RowWritten, RowSaved, Pending
    <2>2. CASE u = x
      <3>1. PICK w \in Workers : WorkerMoves(w) /\ job[w].upd = x /\ job[w].pc # "cascade"
        BY <1>0, <1>3, <2>2 DEF RowWritten
      <3>2. job[w] \in Job /\ JobOK(job[w]) /\ job[w] # NoJob
        BY <3>1, FirmwareAssumption DEF WorkerMoves, PoolInv, NoJob
      <3>3. SyncJob(job[w], row[x], cancel[x])
        BY <3>1 DEF SyncInv
      <3>4. CASE job[w].pc = "start"
        BY <3>1, <3>4 DEF TrayInv, Pending
      <3>5. CASE job[w].pc \in {"step", "save"}
        BY <1>0, <3>2, <3>3, <3>5 DEF SyncJob, JobOK, Pending
      <3>6. QED
        BY <3>1, <3>2, <3>4, <3>5 DEF Job
    <2>3. QED
      BY <2>1, <2>2
  <1>4. ASSUME NEW b \in Bundles, NEW u \in Updates, Inserts(b, u), u # x
        PROVE  Pending(x)
    BY <1>4 DEF Inserts, RowSaved, Pending
  <1>5. QED
    BY <1>1, <1>2, <1>3, <1>4, RowEffect, QueueSaveInserts

LEMMA TouchedStays ==
    ASSUME RowInv, PoolInv, CallInv, [Next]_vars, NEW u, Touched(u, cancel)
    PROVE  Touched(u, cancel')
  BY CancelStays DEF Touched

LEMMA TrayInvStep ==
    ASSUME RowInv, PoolInv, Alone, OrderInv, CallInv, SyncInv, TrayInv, [Next]_vars
    PROVE  TrayInv'
  <1>0. \A i \in batch : i.upd \in Updates
    BY DEF PoolInv, ItemOK, Copy
  <1>1. ASSUME NEW i \in batch, i \in batch', i.state = "QUEUED", ~ Touched(i.upd, cancel')
        PROVE  row'[i.upd].state = "QUEUED"
    <2>1. row[i.upd].state = "QUEUED" /\ EarlierIn(i.upd, completed) /\ ~ Touched(i.upd, cancel)
      BY <1>1, TouchedStays DEF TrayInv, OrderInv
    <2>2. \A w \in Workers : job[w].upd # i.upd
      BY DEF Alone
    <2>3. QED
      BY <1>0, <2>1, <2>2, QueuedStays
  <1>2. ASSUME NEW w \in Workers, job[w].pc = "start", ~ WorkerMoves(w),
               ~ Touched(job[w].upd, cancel')
        PROVE  row'[job[w].upd].state = "QUEUED"
    <2>1. job[w].upd \in Updates
      BY <1>2, BusyWorker DEF Job
    <2>2. row[job[w].upd].state = "QUEUED" /\ EarlierIn(job[w].upd, completed)
          /\ ~ Touched(job[w].upd, cancel)
      BY <1>2, <2>1, TouchedStays DEF TrayInv, OrderInv
    <2>3. \A x \in Workers : WorkerMoves(x) => job[x].upd # job[w].upd
      BY <1>2, <2>1 DEF Alone
    <2>4. QED
      BY <2>1, <2>2, <2>3, QueuedStays
  <1>3. \A i \in batch' : i.state = "QUEUED" /\ ~ Touched(i.upd, cancel')
                            => row'[i.upd].state = "QUEUED"
    <2>1. CASE QueuedFetched /\ RowsKept
      <3>1. \A u \in Ready : u \in Updates /\ row[u].state = "QUEUED" /\ Item(u).upd = u
        BY ItemType DEF Ready
      <3>2. QED
        BY <2>1, <3>1 DEF QueuedFetched, RowsKept
    <2>2. CASE ActiveFetched /\ RowsKept
      <3>1. \A u \in ActiveRows : Item(u).state # "QUEUED"
        BY ItemType DEF ActiveRows, Active
      <3>2. QED
        BY <1>1, <2>2, <3>1 DEF ActiveFetched
    <2>3. CASE batch' \subseteq batch
      BY <1>1, <2>3
    <2>4. QED
      BY <2>1, <2>2, <2>3, PoolEffect DEF PoolKept, PoolEmptied, JobsFlagged, WorkerMoves, Takes
  <1>4. \A x \in Workers : job'[x].pc = "start" /\ ~ Touched(job'[x].upd, cancel')
                             => row'[job'[x].upd].state = "QUEUED"
    <2>0. SUFFICES ASSUME NEW x \in Workers, job'[x].pc = "start",
                          ~ Touched(job'[x].upd, cancel')
                   PROVE  row'[job'[x].upd].state = "QUEUED"
      OBVIOUS
    <2>1. ~ WorkerMoves(x)
      BY <2>0 DEF WorkerMoves, Goes, NoJob
    <2>2. CASE job'[x].upd = job[x].upd /\ job[x].pc = "start"
      BY <1>2, <2>0, <2>1, <2>2
    <2>3. CASE PoolKept \/ JobsFlagged \/ QueuedFetched \/ ActiveFetched
      BY <2>0, <2>2, <2>3 DEF PoolKept, JobsFlagged, QueuedFetched, ActiveFetched
    <2>4. CASE PoolEmptied
      BY <2>0, <2>4 DEF PoolEmptied, NoJob
    <2>5. ASSUME NEW w \in Workers, WorkerMoves(w)
          PROVE  row'[job'[x].upd].state = "QUEUED"
      <3>1. x # w
        BY <2>1, <2>5
      <3>2. QED
        BY <2>0, <2>2, <2>5, <3>1 DEF WorkerMoves
    <2>6. ASSUME NEW w \in Workers, NEW i \in batch, Takes(w, i), RowsKept
          PROVE  row'[job'[x].upd].state = "QUEUED"
      <3>1. CASE x # w
        BY <2>0, <2>2, <2>6, <3>1 DEF Takes
      <3>2. CASE x = w
        <4>1. job'[x] # NoJob
          BY <2>0 DEF NoJob
        <4>2. job'[x].upd = i.upd /\ i.state = "QUEUED"
          BY <2>0, <2>6, <3>2, <4>1 DEF Takes
        <4>3. ~ Touched(i.upd, cancel)
          BY <2>0, <4>2, TouchedStays
        <4>4. row[i.upd].state = "QUEUED"
          BY <4>2, <4>3 DEF TrayInv
        <4>5. QED
          BY <2>6, <4>2, <4>4 DEF RowsKept
      <3>3. QED
        BY <3>1, <3>2
    <2>7. QED
      BY <2>3, <2>4, <2>5, <2>6, PoolEffect
  <1>5. ASSUME NEW u \in Updates, NEW v \in Updates, BundleOf[u] # BundleOf[v],
               SwitchOfUpdate(u) = SwitchOfUpdate(v),
               ~ Touched(u, cancel'), ~ Touched(v, cancel'), Pending(u)'
        PROVE  ~ Pending(v)' /\ call'[BundleOf[v]] # "saving"
    <2>0. ~ Touched(u, cancel) /\ ~ Touched(v, cancel)
      BY <1>5, TouchedStays
    <2>1. BundleOf[u] \in Bundles /\ BundleOf[v] \in Bundles
          /\ SwitchOf[BundleOf[u]] = SwitchOf[BundleOf[v]]
      BY <1>5, FirmwareAssumption DEF SwitchOfUpdate
    <2>2. /\ Pending(u) => ~ Pending(v) /\ call[BundleOf[v]] # "saving"
          /\ Pending(v) => ~ Pending(u) /\ call[BundleOf[u]] # "saving"
      BY <1>5, <2>0 DEF TrayInv
    <2>3. Pending(u) \/ call[BundleOf[u]] = "saving"
      BY <1>5, <2>0, PendingStays DEF Inserts
    <2>4. Pending(v)' => Pending(v) \/ call[BundleOf[v]] = "saving"
      BY <2>0, PendingStays DEF Inserts
    <2>5. ~ (call[BundleOf[u]] = "saving" /\ call[BundleOf[v]] = "saving")
      BY <1>5, <2>1 DEF CallInv
    <2>6. ~ Pending(v)'
      BY <2>2, <2>3, <2>4, <2>5
    <2>7. ASSUME call'[BundleOf[v]] = "saving", call[BundleOf[v]] # "saving"
          PROVE  FALSE
      <3>1. QueueCheck(BundleOf[v])
        <4>1. ASSUME NEW b \in Bundles, QueueSave(b)
              PROVE  FALSE
          BY <2>1, <2>7, <4>1 DEF QueueSave, CallInv
        <4>2. ASSUME NEW b \in Bundles, QueueFails(b)
              PROVE  FALSE
          BY <2>1, <2>7, <4>2 DEF QueueFails, CallInv
        <4>3. ASSUME NEW b \in Bundles, QueueCheck(b)
              PROVE  b = BundleOf[v]
          BY <2>1, <2>7, <4>3 DEF QueueCheck, CallInv
        <4>4. CASE NewProcess
          BY <2>1, <2>7, <4>4 DEF NewProcess
        <4>5. QED
          BY <2>7, <4>1, <4>2, <4>3, <4>4, CallsEffect
      <3>2. ~ Pending(u)
        BY <1>5, <2>1, <3>1 DEF QueueCheck, SwitchOfUpdate
      <3>3. row' = row
        BY <3>1 DEF QueueCheck, tableVars
      <3>4. QED
        BY <1>5, <3>2, <3>3 DEF Pending
    <2>8. QED
      BY <2>2, <2>3, <2>5, <2>6, <2>7
  <1>6. QED
    BY <1>3, <1>4, <1>5 DEF TrayInv

-----------------------------------------------------------------------------
(* Faults are counted up to the bound.                                     *)
LEMMA FaultsStay ==
    ASSUME RowInv, PoolInv, CallInv, CancelInv, [Next]_vars
    PROVE  faults' \in 0..MaxFaults /\ faults <= faults'
  <1>0. MaxFaults \in Nat /\ faults \in 0..MaxFaults
    BY FirmwareAssumption DEF CancelInv
  <1>1. ASSUME faults' = faults \/ Fault
        PROVE  faults' \in 0..MaxFaults /\ faults <= faults'
    BY <1>0, <1>1 DEF Fault
  <1>2. ASSUME NEW w \in Workers, Worker(w) \/ WorkerFails(w)
        PROVE  faults' = faults \/ Fault
    BY <1>2 DEF Worker, WorkerFails, Take, Start, ExecuteStep, SaveOutcome, Cascade, StartFails,
                LookupFails, SaveFails, CascadeFails
  <1>3. ASSUME NEW u \in Updates, CancelGet(u) \/ CancelProceeds(u) \/ CancelFails(u) \/ Deadline(u)
        PROVE  faults' = faults \/ Fault
    BY <1>3 DEF CancelGet, CancelProceeds, CancelJob, CancelSave, CancelBundle, CancelFails, Deadline
  <1>4. ASSUME NEW b \in Bundles, QueueCheck(b) \/ QueueSave(b) \/ QueueFails(b)
        PROVE  faults' = faults \/ Fault
    BY <1>4 DEF QueueCheck, QueueSave, QueueFails
  <1>5. CASE Scheduler \/ FetchFails \/ Stop \/ Restart \/ Crash
    BY <1>1, <1>5 DEF Scheduler, FetchQueued, FetchActive, BatchDone, FetchFails, Stop, Restart, Crash
  <1>6. CASE UNCHANGED vars
    BY <1>1, <1>6 DEF vars
  <1>7. QED
    BY <1>1, <1>2, <1>3, <1>4, <1>5, <1>6 DEF Next

(* What a step without a fault does to the pool. *)
LEMMA FaultlessPool ==
    ASSUME RowInv, PoolInv, CallInv, CancelInv, [Next]_vars, faults' = 0
    PROVE  /\ faults = 0
           /\ \/ PoolKept
              \/ PoolEmptied /\ stopping' = stopping /\ \A w \in Workers : job[w] = NoJob
              \/ \E u \in Updates : CancelJob(u)
              \/ \E w \in Workers : Start(w) \/ ExecuteStep(w) \/ SaveOutcome(w) \/ Cascade(w)
              \/ \E w \in Workers, i \in batch :
                   Takes(w, i) /\ RowsKept /\ UNCHANGED <<sched, stopping, cancel>>
              \/ QueuedFetched /\ RowsKept /\ cancel' = cancel
              \/ ActiveFetched /\ RowsKept /\ cancel' = cancel
  <1>1. faults = 0 /\ ~ stopping
    BY FaultsStay, FirmwareAssumption DEF CancelInv
  <1>2. ~ Fault
    BY <1>1 DEF Fault
  <1>3. ASSUME NEW w \in Workers, Take(w)
        PROVE  \E i \in batch : Takes(w, i) /\ RowsKept /\ UNCHANGED <<sched, stopping, cancel>>
    BY <1>3, TakeEffect
  <1>4. \A w \in Workers : ~ WorkerFails(w)
    BY <1>2 DEF WorkerFails, StartFails, LookupFails, SaveFails, CascadeFails
  <1>5. ASSUME NEW u \in Updates,
               CancelGet(u) \/ CancelSave(u) \/ CancelBundle(u) \/ CancelFails(u) \/ Deadline(u)
        PROVE  PoolKept
    BY <1>5 DEF CancelGet, CancelSave, CancelBundle, CancelFails, Deadline, PoolKept, poolVars
  <1>6. ASSUME NEW b \in Bundles, QueueCheck(b) \/ QueueSave(b) \/ QueueFails(b)
        PROVE  PoolKept
    BY <1>6 DEF QueueCheck, QueueSave, QueueFails, PoolKept, poolVars
  <1>7. CASE FetchQueued
    <2>1. /\ sched = "idle" /\ sched' = "fetched" /\ job' = job /\ stopping' = stopping
          /\ RowsKept /\ cancel' = cancel
      BY <1>7 DEF FetchQueued, RowsKept, tableVars, historyVars, callVars
    <2>2. PICK Q \in SUBSET Ready : batch' = { Item(u) : u \in Q }
      BY <1>7 DEF FetchQueued
    <2>3. \A i \in batch' : \E u \in Ready : i = Item(u)
      BY <2>2
    <2>4. QED
      BY <1>1, <2>1, <2>3 DEF QueuedFetched
  <1>8. CASE FetchActive
    <2>1. /\ sched = "fetched" /\ sched' = "waiting" /\ job' = job /\ stopping' = stopping
          /\ RowsKept /\ cancel' = cancel
      BY <1>8 DEF FetchActive, RowsKept, tableVars, historyVars, callVars
    <2>2. \A i \in batch' : i \in batch \/ \E u \in ActiveRows : i = Item(u)
      BY <1>8 DEF FetchActive
    <2>3. QED
      BY <1>1, <2>1, <2>2 DEF ActiveFetched
  <1>9. ~ FetchFails /\ ~ Stop /\ ~ Restart /\ ~ Crash
    BY <1>1, <1>2 DEF FetchFails, Stop, Restart, Crash
  <1>10. CASE BatchDone
    <2>1. \A w \in Workers : job[w] = NoJob
      BY <1>10, JobType DEF BatchDone, Idle, PoolInv
    <2>2. QED
      BY <1>1, <1>10, <2>1 DEF BatchDone, PoolEmptied, PoolInv
  <1>11. CASE UNCHANGED vars
    BY <1>1, <1>11 DEF vars, poolVars, PoolKept
  <1>12. QED
    BY <1>1, <1>3, <1>4, <1>5, <1>6, <1>7, <1>8, <1>9, <1>10, <1>11
       DEF Next, Worker, CancelProceeds, Scheduler

LEMMA CancelInvStep ==
    ASSUME RowInv, PoolInv, CallInv, CancelInv, [Next]_vars
    PROVE  CancelInv'
  <1>1. faults' \in 0..MaxFaults /\ faults <= faults' /\ faults \in 0..MaxFaults /\ MaxFaults \in Nat
    BY FaultsStay, FirmwareAssumption DEF CancelInv
  <1>2. stopping' => faults' > 0
    <2>1. SUFFICES ASSUME stopping', faults' = 0
                   PROVE  FALSE
      BY <1>1
    <2>2. ~ stopping
      BY <1>1, <2>1 DEF CancelInv
    <2>3. ~ PoolKept /\ ~ \E w \in Workers : WorkerMoves(w)
      BY <2>1, <2>2 DEF PoolKept, WorkerMoves
    <2>4. ASSUME NEW w \in Workers, Start(w) \/ ExecuteStep(w) \/ SaveOutcome(w) \/ Cascade(w)
          PROVE  WorkerMoves(w)
      BY <2>4, StartEffect, ExecuteStepEffect, SaveOutcomeEffect, CascadeEffect
    <2>5. ~ \E u \in Updates : CancelJob(u)
      BY <2>1, <2>2 DEF CancelJob
    <2>6. ~ QueuedFetched /\ ~ ActiveFetched
      BY <2>1, <2>2 DEF QueuedFetched, ActiveFetched
    <2>7. QED
      BY <2>1, <2>2, <2>3, <2>4, <2>5, <2>6, FaultlessPool
  <1>3. ASSUME faults' = 0, NEW w \in Workers, job'[w].upd \in Updates, job'[w].cancelled
        PROVE  cancel'[job'[w].upd] \notin {"idle", "job"}
    <2>0. faults = 0
      BY <1>3, FaultlessPool
    <2>1. CASE job[w].upd = job'[w].upd /\ job[w].cancelled
      BY <1>3, <2>0, <2>1, CancelStays DEF CancelInv
    <2>2. CASE PoolKept \/ QueuedFetched \/ ActiveFetched
      BY <1>3, <2>1, <2>2 DEF PoolKept, QueuedFetched, ActiveFetched
    <2>3. CASE PoolEmptied
      BY <1>3, <2>3, FirmwareAssumption DEF PoolEmptied, NoJob
    <2>4. ASSUME NEW u \in Updates, CancelJob(u)
          PROVE  cancel'[job'[w].upd] \notin {"idle", "job"}
      <3>1. CASE job[w].upd = u
        <4>1. job'[w].upd = u
          BY <2>4, <3>1, CancelJobEffect DEF JobsFlagged
        <4>2. QED
          BY <2>4, <4>1 DEF CancelJob, CallInv
      <3>2. CASE job[w].upd # u
        BY <1>3, <2>1, <2>4, <3>2, CancelJobEffect
      <3>3. QED
        BY <3>1, <3>2
    <2>5. ASSUME NEW x \in Workers, WorkerMoves(x)
          PROVE  cancel'[job'[w].upd] \notin {"idle", "job"}
      <3>1. job'[w] # NoJob
        BY <1>3, FirmwareAssumption DEF NoJob
      <3>2. QED
        BY <1>3, <2>1, <2>5, <3>1 DEF WorkerMoves, Goes
    <2>6. ASSUME NEW x \in Workers, NEW i \in batch, Takes(x, i)
          PROVE  cancel'[job'[w].upd] \notin {"idle", "job"}
      <3>1. job'[w] # NoJob
        BY <1>3, FirmwareAssumption DEF NoJob
      <3>2. QED
        BY <1>3, <2>1, <2>6, <3>1 DEF Takes
    <2>7. ASSUME NEW x \in Workers, Start(x) \/ ExecuteStep(x) \/ SaveOutcome(x) \/ Cascade(x)
          PROVE  WorkerMoves(x)
      BY <2>7, StartEffect, ExecuteStepEffect, SaveOutcomeEffect, CascadeEffect
    <2>8. QED
      BY <1>3, <2>2, <2>3, <2>4, <2>5, <2>6, <2>7, FaultlessPool
  <1>4. QED
    BY <1>1, <1>2, <1>3 DEF CancelInv

-----------------------------------------------------------------------------
(* Only ExecuteStep begins a step.                                         *)
LEMMA BegunEffect ==
    ASSUME RowInv, PoolInv, CallInv, [Next]_vars
    PROVE  (begun' = begun /\ repeated' = repeated) \/ \E w \in Workers : ExecuteStep(w)
  <1>1. ASSUME NEW w \in Workers,
               Take(w) \/ Start(w) \/ SaveOutcome(w) \/ Cascade(w) \/ WorkerFails(w)
        PROVE  begun' = begun /\ repeated' = repeated
    BY <1>1 DEF WorkerFails, Take, Start, SaveOutcome, Cascade, StartFails, LookupFails, SaveFails,
                CascadeFails, historyVars
  <1>2. ASSUME NEW u \in Updates, CancelGet(u) \/ CancelProceeds(u) \/ CancelFails(u) \/ Deadline(u)
        PROVE  begun' = begun /\ repeated' = repeated
    BY <1>2 DEF CancelGet, CancelProceeds, CancelJob, CancelSave, CancelBundle, CancelFails, Deadline,
                historyVars
  <1>3. ASSUME NEW b \in Bundles, QueueCheck(b) \/ QueueSave(b) \/ QueueFails(b)
        PROVE  begun' = begun /\ repeated' = repeated
    BY <1>3 DEF QueueCheck, QueueSave, QueueFails, historyVars
  <1>4. CASE Scheduler \/ FetchFails \/ Stop \/ Restart \/ Crash
    BY <1>4 DEF Scheduler, FetchQueued, FetchActive, BatchDone, FetchFails, Stop, Restart, Crash,
                NewProcess, historyVars
  <1>5. CASE UNCHANGED vars
    BY <1>5 DEF vars, historyVars
  <1>6. QED
    BY <1>1, <1>2, <1>3, <1>4, <1>5 DEF Next, Worker

LEMMA RankType ==
    \A s \in Active : Rank[s] \in Nat
  BY DEF Active, Rank

(* A step that was begun is not begun again. *)
LEMMA BegunOnceStep ==
    ASSUME RowInv, PoolInv, Alone, CallInv, SyncInv, CancelInv, OnceInv,
           NEW w \in Workers, ExecuteStep(w), ~ job[w].exec,
           <<job[w].upd, job[w].state>> \in begun, faults = 0
    PROVE  cancel[job[w].upd] # "idle"
  <1> DEFINE u == job[w].upd
             s == job[w].state
  <1>1. WorkerMoves(w) /\ job[w].pc = "step"
    BY ExecuteStepEffect
  <1>2. u \in Updates /\ JobOK(job[w]) /\ job[w] # NoJob
    BY <1>1, FirmwareAssumption DEF WorkerMoves, PoolInv, Job, NoJob
  <1>3. s \in Active
    BY <1>1, <1>2 DEF JobOK
  <1>4. SUFFICES ASSUME cancel[u] = "idle"
                 PROVE  FALSE
    OBVIOUS
  <1>5. row[u].state = s /\ row[u].exec = job[w].exec
    BY <1>1, <1>2, <1>4 DEF SyncInv, SyncJob
  <1>6. Passed(u, s)
    BY <1>2, <1>3, <1>4 DEF OnceInv
  <1>7. ~ (Rank[s] < Rank[s])
    BY <1>3, RankType
  <1>8. PICK x \in Workers : job[x].upd = u /\ job[x].pc = "save"
    BY <1>3, <1>5, <1>6, <1>7 DEF Passed
  <1>9. x = w
    BY <1>2, <1>8 DEF Alone
  <1>10. QED
    BY <1>1, <1>8, <1>9

LEMMA WhichWorker ==
    ASSUME RowInv, PoolInv, CallInv, CancelInv, [Next]_vars, faults' = 0,
           NEW w \in Workers, WorkerMoves(w)
    PROVE  Start(w) \/ ExecuteStep(w) \/ SaveOutcome(w) \/ Cascade(w)
  <1>0. sched = "waiting" /\ sched' = "waiting" /\ job[w] # NoJob
        /\ (job'[w] = NoJob \/ job'[w].pc # job[w].pc)
    BY FirmwareAssumption DEF WorkerMoves, Job, NoJob, Goes
  <1>1. ~ PoolKept /\ ~ PoolEmptied /\ ~ QueuedFetched /\ ~ ActiveFetched
    BY <1>0 DEF PoolKept, PoolEmptied, QueuedFetched, ActiveFetched
  <1>2. ~ \E u \in Updates : CancelJob(u)
    BY <1>0, CancelJobEffect DEF JobsFlagged
  <1>3. ~ \E x \in Workers, i \in batch : Takes(x, i)
    BY <1>0 DEF Takes
  <1>4. ASSUME NEW x \in Workers, Start(x) \/ ExecuteStep(x) \/ SaveOutcome(x) \/ Cascade(x)
        PROVE  x = w
    BY <1>4, OneMoves, StartEffect, ExecuteStepEffect, SaveOutcomeEffect, CascadeEffect
  <1>5. QED
    BY <1>1, <1>2, <1>3, <1>4, FaultlessPool

(* The worker of the update moves. *)
LEMMA PassedByWorker ==
    ASSUME RowInv, PoolInv, Alone, CallInv, SyncInv, CancelInv, OnceInv, [Next]_vars,
           NEW w \in Workers, WorkerMoves(w), NEW u \in Updates, job[w].upd = u, NEW s \in Active,
           cancel[u] = "idle", faults = 0, faults' = 0, <<u, s>> \in begun'
    PROVE  Passed(u, s)'
  <1>1. JobOK(job[w]) /\ job[w] # NoJob /\ SyncJob(job[w], row[u], cancel[u])
        /\ ~ job[w].cancelled /\ job[w] \in Job
    BY FirmwareAssumption DEF WorkerMoves, PoolInv, NoJob, SyncInv, CancelInv
  <1>2. \A x \in Workers : x # w => job[x].upd # u /\ job'[x] = job[x]
    BY DEF WorkerMoves, Alone
  <1>3. \A i \in batch : i.upd # u
    BY DEF Alone
  <1>4. batch' = batch
    BY DEF WorkerMoves
  <1>5. job'[w].pc # "start"
    BY DEF WorkerMoves, Goes, NoJob
  <1>6. SUFFICES ASSUME TRUE
                 PROVE  /\ row'[u].state \notin {"none", "QUEUED"}
                        /\ row'[u].state \in Active =>
                             \/ Rank[s] < Rank[row'[u].state]
                             \/ /\ s = row'[u].state
                                /\ \/ row'[u].exec
                                   \/ job'[w].upd = u /\ job'[w].pc = "save"
    BY <1>2, <1>3, <1>4, <1>5 DEF Passed
  <1>7. ASSUME <<u, s>> \in begun
        PROVE  Passed(u, s) /\ job[w].pc # "start"
               /\ (row[u].state \in Active =>
                     \/ Rank[s] < Rank[row[u].state]
                     \/ s = row[u].state /\ (row[u].exec \/ job[w].pc = "save"))
    <2>1. Passed(u, s)
      BY <1>7 DEF OnceInv
    <2>2. QED
      BY <1>2, <2>1 DEF Passed
  <1>8. CASE Start(w)
    <2>1. begun' = begun /\ job[w].pc = "start"
      BY <1>8 DEF Start
    <2>2. QED
      BY <1>7, <2>1
  <1>9. CASE ExecuteStep(w)
    <2>1. /\ job[w].pc = "step" /\ job'[w] # NoJob
          /\ \/ RowsKept
             \/ ~ job[w].exec /\ RowSaved(u, job[w].state, FALSE)
          /\ begun' = IF job[w].exec THEN begun ELSE begun \cup {<<u, job[w].state>>}
      BY <1>9, ExecuteStepEffect
    <2>2. job'[w].pc = "save" /\ job'[w].upd = u
      BY <2>1 DEF WorkerMoves, Goes
    <2>3. row[u].state = job[w].state /\ row[u].exec = job[w].exec /\ job[w].state \in Active
      BY <1>1, <2>1 DEF SyncJob, JobOK
    <2>4. row'[u].state = row[u].state
      BY <2>1, <2>3 DEF RowsKept, RowSaved
    <2>5. <<u, s>> \in begun \/ s = row[u].state
      BY <2>1, <2>3
    <2>6. QED
      BY <1>7, <2>2, <2>3, <2>4, <2>5 DEF Active
  <1>10. CASE SaveOutcome(w)
    <2> DEFINE n == NextState(u, job[w].state)
    <2>1. /\ job[w].pc = "save" /\ begun' = begun
          /\ \/ RowSaved(u, job[w].state, TRUE)
             \/ RowSaved(u, n, FALSE)
             \/ RowSaved(u, "FAILED", FALSE)
      BY <1>1, <1>10, SaveOutcomeEffect
    <2>2. row[u].state = job[w].state /\ job[w].state \in Active
          /\ InSteps(u, job[w].state)
      BY <1>1, <2>1 DEF SyncJob, JobOK
    <2>3. n = "COMPLETED" \/ (n \in Active /\ Rank[job[w].state] < Rank[n])
      BY <2>2, NextIsStep, StepIsActive
    <2> HIDE DEF n
    <2>4. Rank[s] < Rank[job[w].state] \/ s = job[w].state
      BY <1>7, <2>1, <2>2
    <2>5. CASE RowSaved(u, job[w].state, TRUE)
      BY <2>2, <2>4, <2>5 DEF RowSaved, Active
    <2>6. CASE RowSaved(u, n, FALSE)
      <3>1. row'[u].state = n
        BY <2>6 DEF RowSaved
      <3>2. CASE n = "COMPLETED"
        BY <3>1, <3>2 DEF Active
      <3>3. CASE n \in Active /\ Rank[job[w].state] < Rank[n]
        <4>1. Rank[s] < Rank[n]
          BY <2>2, <2>4, <3>3, RankType
        <4>2. QED
          BY <3>1, <3>3, <4>1 DEF Active
      <3>4. QED
        BY <2>3, <3>2, <3>3
    <2>7. CASE RowSaved(u, "FAILED", FALSE)
      BY <2>7 DEF RowSaved, Active
    <2>8. QED
      BY <2>1, <2>5, <2>6, <2>7
  <1>11. CASE Cascade(w)
    <2>1. job[w].pc = "cascade" /\ begun' = begun /\ RowsCancelled(u)
      BY <1>1, <1>11, CascadeEffect
    <2>2. u \notin Remaining(u)
      BY FirmwareAssumption DEF Remaining
    <2>3. row'[u] = row[u]
      BY <2>1, <2>2 DEF RowsCancelled
    <2>4. QED
      BY <1>7, <2>1, <2>3 DEF Passed
  <1>12. QED
    BY <1>8, <1>9, <1>10, <1>11, WhichWorker

(* No worker of the update moves. *)
LEMMA PassedByOthers ==
    ASSUME RowInv, PoolInv, Alone, CallInv, SyncInv, CancelInv, OnceInv, [Next]_vars,
           NEW u \in Updates, NEW s \in Active, cancel[u] = "idle", faults = 0, faults' = 0,
           \A w \in Workers : WorkerMoves(w) => job[w].upd # u,
           <<u, s>> \in begun, Passed(u, s)
    PROVE  Passed(u, s)'
  <1>1. row[u].state \notin {"none", "QUEUED"}
    BY DEF Passed
  <1>2. row'[u] = row[u]
    <2>1. CASE Quiet
      BY <1>1, <2>1 DEF Quiet
    <2>2. ASSUME NEW w \in Workers, WorkerMoves(w), WorkerSaves(w)
          PROVE  row'[u] = row[u]
      BY <2>2 DEF WorkerSaves, RowSaved
    <2>3. QED
      BY <2>1, <2>2, QuietOrSaves
  <1>3. \A w \in Workers : job'[w].pc = "start" => job'[w].upd # u
    <2>1. SUFFICES ASSUME NEW w \in Workers, job'[w].pc = "start", job'[w].upd = u
                   PROVE  FALSE
      OBVIOUS
    <2>2. ~ (job[w].pc = "start" /\ job[w].upd = u)
      BY DEF Passed
    <2>3. ~ PoolKept /\ ~ PoolEmptied /\ ~ JobsFlagged /\ ~ QueuedFetched /\ ~ ActiveFetched
      BY <2>1, <2>2 DEF PoolKept, PoolEmptied, JobsFlagged, QueuedFetched, ActiveFetched, NoJob
    <2>4. ASSUME NEW x \in Workers, WorkerMoves(x)
          PROVE  FALSE
      BY <2>1, <2>2, <2>4 DEF WorkerMoves, Goes, NoJob
    <2>5. ASSUME NEW x \in Workers, NEW i \in batch, Takes(x, i)
          PROVE  FALSE
      BY <2>1, <2>2, <2>5 DEF Takes, NoJob, Passed
    <2>6. QED
      BY <2>3, <2>4, <2>5, PoolEffect
  <1>4. \A i \in batch' : i.state = "QUEUED" => i.upd # u
    <2>1. CASE batch' \subseteq batch
      BY <2>1 DEF Passed
    <2>2. CASE QueuedFetched
      <3>1. \A x \in Ready : x \in Updates /\ row[x].state = "QUEUED" /\ Item(x).upd = x
        BY ItemType DEF Ready
      <3>2. QED
        BY <1>1, <2>2, <3>1 DEF QueuedFetched
    <2>3. CASE ActiveFetched
      <3>1. \A x \in ActiveRows : Item(x).state # "QUEUED"
        BY ItemType DEF ActiveRows, Active
      <3>2. QED
        BY <2>3, <3>1 DEF ActiveFetched, Passed
    <2>4. QED
      BY <2>1, <2>2, <2>3, PoolEffect DEF PoolKept, PoolEmptied, JobsFlagged, WorkerMoves, Takes
  <1>5. ASSUME NEW w \in Workers, job[w].upd = u, job[w].pc = "save"
        PROVE  job'[w].upd = u /\ job'[w].pc = "save"
    <2>1. ~ WorkerMoves(w) /\ job[w] # NoJob
      BY <1>5, FirmwareAssumption DEF NoJob
    <2>2. CASE PoolKept \/ QueuedFetched \/ ActiveFetched
      BY <1>5, <2>2 DEF PoolKept, QueuedFetched, ActiveFetched
    <2>3. ASSUME NEW x \in Updates, CancelJob(x)
          PROVE  job'[w].upd = u /\ job'[w].pc = "save"
      BY <1>5, <2>3, CancelJobEffect DEF JobsFlagged
    <2>4. ASSUME NEW x \in Workers, WorkerMoves(x)
          PROVE  job'[w].upd = u /\ job'[w].pc = "save"
      BY <1>5, <2>1, <2>4 DEF WorkerMoves
    <2>5. ASSUME NEW x \in Workers, NEW i \in batch, Takes(x, i)
          PROVE  job'[w].upd = u /\ job'[w].pc = "save"
      BY <1>5, <2>1, <2>5 DEF Takes
    <2>6. ASSUME NEW x \in Workers, Start(x) \/ ExecuteStep(x) \/ SaveOutcome(x) \/ Cascade(x)
          PROVE  WorkerMoves(x)
      BY <2>6, StartEffect, ExecuteStepEffect, SaveOutcomeEffect, CascadeEffect
    <2>7. QED
      BY <2>1, <2>2, <2>3, <2>4, <2>5, <2>6, FaultlessPool
  <1>6. QED
    BY <1>2, <1>3, <1>4, <1>5 DEF Passed

LEMMA OnceInvStep ==
    ASSUME RowInv, PoolInv, Alone, CallInv, SyncInv, CancelInv, OnceInv, [Next]_vars
    PROVE  OnceInv'
  <1>0. /\ faults' \in 0..MaxFaults /\ faults <= faults' /\ faults \in 0..MaxFaults
        /\ MaxFaults \in Nat
    BY FaultsStay, FirmwareAssumption DEF CancelInv
  <1>1. ASSUME NEW w \in Workers, ExecuteStep(w)
        PROVE  /\ repeated' \subseteq Updates /\ begun' \subseteq Updates \X Active
               /\ BegunOnce'
    <2>1. /\ WorkerMoves(w) /\ job[w].pc = "step" /\ faults' = faults
          /\ begun' = IF job[w].exec THEN begun ELSE begun \cup {<<job[w].upd, job[w].state>>}
          /\ repeated' = IF ~ job[w].exec /\ <<job[w].upd, job[w].state>> \in begun
                         THEN repeated \cup {job[w].upd} ELSE repeated
      BY <1>1, ExecuteStepEffect
    <2>2. job[w].upd \in Updates /\ JobOK(job[w]) /\ job[w] # NoJob /\ cancel' = cancel
      BY <2>1, FirmwareAssumption DEF WorkerMoves, PoolInv, Job, NoJob
    <2>3. job[w].state \in Active
      BY <2>1, <2>2 DEF JobOK
    <2>4. ASSUME NEW u \in repeated', faults = 0
          PROVE  cancel[u] # "idle"
      <3>1. CASE u \in repeated
        BY <1>0, <2>4, <3>1 DEF OnceInv, BegunOnce
      <3>2. CASE u \notin repeated
        BY <1>1, <2>1, <2>4, <3>2, BegunOnceStep
      <3>3. QED
        BY <3>1, <3>2
    <2>5. BegunOnce'
      BY <1>0, <2>1, <2>2, <2>4 DEF BegunOnce
    <2>6. QED
      BY <2>1, <2>2, <2>3, <2>5 DEF OnceInv
  <1>2. ASSUME begun' = begun /\ repeated' = repeated
        PROVE  /\ repeated' \subseteq Updates /\ begun' \subseteq Updates \X Active
               /\ BegunOnce'
    <2>1. BegunOnce'
      <3>1. SUFFICES ASSUME NEW u \in repeated', faults' = 0
                     PROVE  cancel'[u] # "idle"
        BY <1>0 DEF BegunOnce
      <3>2. u \in repeated /\ u \in Updates /\ faults = 0
        BY <1>0, <1>2, <3>1 DEF OnceInv
      <3>3. cancel[u] # "idle"
        BY <3>2 DEF OnceInv, BegunOnce
      <3>4. QED
        BY <3>2, <3>3, CancelStays
    <2>2. QED
      BY <1>2, <2>1 DEF OnceInv
  <1>3. ASSUME NEW u \in Updates, NEW s \in Active,
               faults' = 0, cancel'[u] = "idle", <<u, s>> \in begun'
        PROVE  Passed(u, s)'
    <2>1. faults = 0 /\ cancel[u] = "idle"
      BY <1>0, <1>3, CancelStays
    <2>2. CASE \E w \in Workers : WorkerMoves(w) /\ job[w].upd = u
      BY <1>3, <2>1, <2>2, PassedByWorker
    <2>3. CASE \A w \in Workers : WorkerMoves(w) => job[w].upd # u
      <3>1. <<u, s>> \in begun
        <4>1. ASSUME NEW w \in Workers, ExecuteStep(w)
              PROVE  <<u, s>> \in begun
          <5>1. /\ WorkerMoves(w)
                /\ begun' = IF job[w].exec THEN begun
                            ELSE begun \cup {<<job[w].upd, job[w].state>>}
            BY <4>1, ExecuteStepEffect
          <5>2. QED
            BY <1>3, <2>3, <5>1
        <4>2. QED
          BY <1>3, <4>1, BegunEffect
      <3>2. Passed(u, s)
        BY <2>1, <3>1 DEF OnceInv
      <3>3. QED
        BY <1>3, <2>1, <2>3, <3>1, <3>2, PassedByOthers
    <2>4. QED
      BY <2>2, <2>3
  <1>4. QED
    BY <1>1, <1>2, <1>3, BegunEffect DEF OnceInv

-----------------------------------------------------------------------------
(* A CancelUpdate call goes on, in the end to the rest of the bundle. *)
LEMMA CancelGoesOn ==
    ASSUME RowInv, PoolInv, CallInv, CancelInv, [Next]_vars, faults' = 0,
           NEW x \in Updates, cancel[x] \in {"job", "write", "bundle"}
    PROVE  \/ cancel'[x] \in {"job", "write", "bundle"}
           \/ cancel[x] = "bundle" /\ RowsCancelled(x)
  <1>1. faults = 0 /\ ~ stopping /\ ~ Fault
    BY FaultsStay, FirmwareAssumption DEF CancelInv, Fault
  <1>2. ASSUME NEW u \in Updates, CancelGet(u) \/ CancelProceeds(u) \/ CancelFails(u), u # x
        PROVE  cancel'[x] = cancel[x]
    BY <1>2 DEF CancelGet, CancelProceeds, CancelJob, CancelSave, CancelBundle, CancelFails, CallInv
  <1>3. CASE CancelGet(x) \/ CancelJob(x) \/ CancelSave(x) \/ CancelFails(x)
    BY <1>1, <1>3 DEF CancelGet, CancelJob, CancelSave, CancelFails, CallInv
  <1>4. CASE CancelBundle(x)
    BY <1>4, CancelEffect DEF CancelBundle
  <1>5. ASSUME NEW b \in Bundles, QueueSave(b)
        PROVE  cancel' = cancel
    BY <1>5 DEF QueueSave
  <1>6. ~ Restart /\ ~ Crash
    BY <1>1 DEF Restart, Crash
  <1>7. QED
    BY <1>2, <1>3, <1>4, <1>5, <1>6, CallsEffect DEF CancelProceeds

(* Whoever is about to cancel the rest of a bundle goes on until he does.  *)
LEMMA EffectiveStays ==
    ASSUME RowInv, PoolInv, CallInv, CancelInv, [Next]_vars, faults' = 0,
           NEW x \in Updates, Effective(x)
    PROVE  Effective(x)' \/ RowsCancelled(x)
  <1>1. CASE cancel[x] \in {"job", "write", "bundle"}
    BY <1>1, CancelGoesOn DEF Effective
  <1>2. ASSUME NEW w \in Workers, job[w].upd = x, job[w].pc = "cascade", ~ job[w].cancelled
        PROVE  Effective(x)' \/ RowsCancelled(x)
    <2>1. job[w] # NoJob
      BY <1>2, FirmwareAssumption DEF NoJob
    <2>2. ASSUME job'[w] = job[w]
          PROVE  Effective(x)'
      BY <1>2, <2>2 DEF Effective
    <2>3. CASE PoolKept \/ QueuedFetched \/ ActiveFetched
      BY <2>2, <2>3 DEF PoolKept, QueuedFetched, ActiveFetched
    <2>4. ASSUME NEW u \in Updates, CancelJob(u)
          PROVE  Effective(x)'
      <3>1. CASE u = x
        BY <2>4, <3>1 DEF CancelJob, Effective, CallInv
      <3>2. CASE u # x
        BY <1>2, <2>2, <2>4, <3>2, CancelJobEffect
      <3>3. QED
        BY <3>1, <3>2
    <2>5. ASSUME NEW y \in Workers, Start(y) \/ ExecuteStep(y) \/ SaveOutcome(y) \/ Cascade(y)
          PROVE  Effective(x)' \/ RowsCancelled(x)
      <3>1. WorkerMoves(y)
        BY <2>5, StartEffect, ExecuteStepEffect, SaveOutcomeEffect, CascadeEffect
      <3>2. CASE y # w
        BY <2>2, <3>1, <3>2 DEF WorkerMoves
      <3>3. CASE y = w
        BY <1>2, <2>5, <3>3, StartEffect, ExecuteStepEffect, SaveOutcomeEffect, CascadeEffect
      <3>4. QED
        BY <3>2, <3>3
    <2>6. ASSUME NEW y \in Workers, NEW i \in batch, Takes(y, i)
          PROVE  Effective(x)'
      BY <2>1, <2>2, <2>6 DEF Takes
    <2>7. QED
      BY <2>1, <2>3, <2>4, <2>5, <2>6, FaultlessPool
  <1>3. QED
    BY <1>1, <1>2 DEF Effective

Bad == {"FAILED", "CANCELLED"}

(* Whoever ends an update badly goes on to the rest of its bundle. *)
LEMMA BadIsEffective ==
    ASSUME RowInv, PoolInv, OrderInv, CallInv, CancelInv, [Next]_vars, faults' = 0,
           NEW v \in Updates, row[v].state \notin Bad, row'[v].state \in Bad
    PROVE  Effective(v)' \/ \E y \in Updates : RowsCancelled(y) /\ v \in Remaining(y)
  <1>1. ASSUME RowsKept
        PROVE  FALSE
    BY <1>1 DEF RowsKept
  <1>2. ASSUME NEW y \in Updates, RowsCancelled(y)
        PROVE  v \in Remaining(y)
    BY <1>2 DEF RowsCancelled
  <1>3. ASSUME NEW b \in Bundles, QueueSave(b)
        PROVE  FALSE
    <2>1. PICK u \in Updates : Inserts(b, u)
      BY <1>3, QueueSaveInserts
    <2>2. QED
      BY <2>1 DEF Inserts, RowSaved, Bad
  <1>4. ASSUME NEW u \in Updates, NEW s \in States, NEW e \in BOOLEAN, RowWritten(u, s, e)
        PROVE  Effective(v)' \/ \E y \in Updates : RowsCancelled(y) /\ v \in Remaining(y)
    <2>1. u = v
      BY <1>4 DEF RowWritten, RowSaved
    <2>2. CASE cancel[v] = "write"
      BY <2>2, CancelGoesOn DEF Effective
    <2>3. ASSUME NEW w \in Workers, WorkerMoves(w), job[w].upd = v
          PROVE  Effective(v)' \/ \E y \in Updates : RowsCancelled(y) /\ v \in Remaining(y)
      <3>1. Start(w) \/ ExecuteStep(w) \/ SaveOutcome(w) \/ Cascade(w)
        BY <2>3, WhichWorker
      <3>2. JobOK(job[w]) /\ job[w] # NoJob
        BY <2>3, FirmwareAssumption DEF PoolInv, NoJob
      <3>3. ~ Start(w)
        <4>1. FirstState(v) \notin Bad
          BY FirstIsStep, StepIsActive DEF Active, Bad
        <4>2. QED
          BY <1>1, <2>3, <4>1, StartEffect DEF RowSaved
      <3>4. ~ ExecuteStep(w)
        <4>1. ASSUME job[w].pc = "step"
              PROVE  job[w].state \notin Bad
          BY <3>2, <4>1 DEF JobOK, Active, Bad
        <4>2. QED
          BY <1>1, <2>3, <4>1, ExecuteStepEffect DEF RowSaved
      <3>5. CASE Cascade(w)
        BY <1>1, <1>2, <2>3, <3>5, CascadeEffect
      <3>6. CASE SaveOutcome(w)
        <4> DEFINE n == NextState(v, job[w].state)
        <4>1. /\ job[w].pc = "save" /\ ~ job[w].cancelled
              /\ \/ RowSaved(v, job[w].state, TRUE)
                 \/ RowSaved(v, n, FALSE)
                 \/ job[w].outcome = "Failed" /\ job'[w] # NoJob
          BY <1>1, <2>3, <3>6, SaveOutcomeEffect
        <4>2. job[w].state \in Active /\ InSteps(v, job[w].state)
          BY <2>3, <3>2, <4>1 DEF JobOK
        <4>3. n = "COMPLETED" \/ n \in Active
          BY <4>2, NextIsStep, StepIsActive
        <4> HIDE DEF n
        <4>4. job'[w] # NoJob
          BY <4>1, <4>2, <4>3 DEF RowSaved, Active, Bad
        <4>5. job'[w].upd = v /\ job'[w].pc = "cascade" /\ ~ job'[w].cancelled
          BY <2>3, <4>1, <4>4 DEF WorkerMoves, Goes
        <4>6. QED
          BY <4>5 DEF Effective
      <3>7. QED
        BY <3>1, <3>3, <3>4, <3>5, <3>6
    <2>4. QED
      BY <1>4, <2>1, <2>2, <2>3 DEF RowWritten
  <1>5. QED
    BY <1>1, <1>2, <1>3, <1>4, RowEffect

(* Only QueueSave inserts too late.                                        *)
LEMMA TooLateEffect ==
    ASSUME RowInv, PoolInv, CallInv, [Next]_vars
    PROVE  tooLate' = tooLate \/ \E b \in Bundles : QueueSave(b)
  <1>1. ASSUME NEW w \in Workers, Worker(w) \/ WorkerFails(w)
        PROVE  tooLate' = tooLate
    BY <1>1, TakeEffect, StartEffect, ExecuteStepEffect, SaveOutcomeEffect, CascadeEffect,
       WorkerFailsEffect DEF Worker, WorkerMoves, Take, historyVars
  <1>2. ASSUME NEW u \in Updates, CancelGet(u) \/ CancelProceeds(u) \/ CancelFails(u) \/ Deadline(u)
        PROVE  tooLate' = tooLate
    BY <1>2 DEF CancelGet, CancelProceeds, CancelJob, CancelSave, CancelBundle, CancelFails, Deadline,
                historyVars
  <1>3. ASSUME NEW b \in Bundles, QueueCheck(b) \/ QueueFails(b)
        PROVE  tooLate' = tooLate
    BY <1>3 DEF QueueCheck, QueueFails, historyVars
  <1>4. CASE Scheduler \/ FetchFails \/ Stop \/ Restart \/ Crash
    BY <1>4 DEF Scheduler, FetchQueued, FetchActive, BatchDone, FetchFails, Stop, Restart, Crash,
                NewProcess, historyVars
  <1>5. CASE UNCHANGED vars
    BY <1>5 DEF vars, historyVars
  <1>6. QED
    BY <1>1, <1>2, <1>3, <1>4, <1>5 DEF Next

LEMMA OrphanInvStep ==
    ASSUME RowInv, PoolInv, OrderInv, CallInv, CancelInv, OrphanInv, [Next]_vars
    PROVE  OrphanInv'
  <1>1. ASSUME NEW b \in Bundles, QueueSave(b)
        PROVE  /\ tooLate \subseteq tooLate' /\ tooLate' \subseteq Updates
               /\ \A u \in Updates : row[u].state = "none" /\ row'[u].state = "QUEUED" =>
                    (EndedBadly(u)' => u \in tooLate')
    <2>1. PICK x \in Updates : Inserts(b, x)
      BY <1>1, QueueSaveInserts
    <2>2. EndedBadly(x)' => EndedBadly(x)
      BY <2>1 DEF EndedBadly, Inserts, RowSaved
    <2>3. \A u \in Updates : row[u].state = "none" /\ row'[u].state = "QUEUED" => u = x
      BY <2>1 DEF Inserts, RowSaved
    <2>4. tooLate' = IF EndedBadly(x) THEN tooLate \cup {x} ELSE tooLate
      BY <2>1 DEF Inserts
    <2>5. QED
      BY <2>2, <2>3, <2>4 DEF OrphanInv
  <1>2. tooLate \subseteq tooLate' /\ tooLate' \subseteq Updates
    BY <1>1, TooLateEffect DEF OrphanInv
  <1>3. SUFFICES ASSUME NEW u \in Updates, row'[u].state = "QUEUED", u \notin tooLate',
                        EndedBadly(u)', faults' = 0
                 PROVE  \E x \in Updates : SameBundle(u, x) /\ Order[x] < Order[u] /\ Effective(x)'
    BY <1>2 DEF OrphanInv
  <1>4. faults = 0
    BY <1>3, FaultsStay, FirmwareAssumption DEF CancelInv
  <1>5. row[u].state = "QUEUED"
    <2>1. CASE row[u].state = "none"
      BY <1>1, <1>3, <2>1, RowsStay
    <2>2. CASE row[u].state # "none"
      <3>1. CASE RowsKept
        BY <1>3, <3>1 DEF RowsKept
      <3>2. ASSUME NEW y \in Updates, RowsCancelled(y)
            PROVE  row[u].state = "QUEUED"
        BY <1>3, <3>2 DEF RowsCancelled, Remaining
      <3>3. ASSUME NEW y \in Updates, NEW s \in States, NEW e \in BOOLEAN, RowWritten(y, s, e)
            PROVE  row[u].state = "QUEUED"
        BY <1>3, <3>3 DEF RowWritten, RowSaved
      <3>4. ASSUME NEW b \in Bundles, NEW y \in Updates, Inserts(b, y)
            PROVE  row[u].state = "QUEUED"
        BY <1>3, <2>2, <3>4 DEF Inserts, RowSaved
      <3>5. QED
        BY <3>1, <3>2, <3>3, <3>4, RowEffect, QueueSaveInserts
    <2>3. QED
      BY <2>1, <2>2
  <1>6. \A y \in Updates : RowsCancelled(y) => u \notin Remaining(y)
    BY <1>3 DEF RowsCancelled
  <1>7. PICK v \in Updates : Precedes(v, u) /\ row'[v].state \in Bad
    BY <1>3 DEF EndedBadly, Bad
  <1>8. SameBundle(u, v) /\ Order[v] < Order[u]
    BY <1>7, FirmwareAssumption DEF Precedes
  <1>9. CASE row[v].state \in Bad
    <2>1. PICK x \in Updates : SameBundle(u, x) /\ Order[x] < Order[u] /\ Effective(x)
      BY <1>2, <1>3, <1>4, <1>5, <1>7, <1>9 DEF OrphanInv, EndedBadly, Bad
    <2>2. u \in Remaining(x)
      BY <1>5, <2>1 DEF Remaining, SameBundle
    <2>3. QED
      BY <1>3, <1>6, <2>1, <2>2, EffectiveStays
  <1>10. CASE row[v].state \notin Bad
    <2>1. ASSUME NEW y \in Updates, RowsCancelled(y), v \in Remaining(y)
          PROVE  FALSE
      <3>1. Order[y] < Order[u] /\ SameBundle(y, u)
        BY <1>8, <2>1, FirmwareAssumption DEF Remaining, SameBundle
      <3>2. u \in Remaining(y)
        BY <1>5, <3>1 DEF Remaining
      <3>3. QED
        BY <1>6, <2>1, <3>2
    <2>2. QED
      BY <1>3, <1>7, <1>8, <1>10, <2>1, BadIsEffective
  <1>11. QED
    BY <1>9, <1>10

-----------------------------------------------------------------------------
(* What a step does to the columns of the table. *)
LEMMA TableEffect ==
    ASSUME RowInv, PoolInv, CallInv, SinceInv, [Next]_vars
    PROVE  \/ row' = row /\ since' = since /\ late' \subseteq Updates
           \/ \E u \in Updates : CancelRemaining(u)
           \/ \E u \in Updates, s \in States, e \in BOOLEAN : Save(u, s, e)
  <1> DEFINE Goal == \/ row' = row /\ since' = since /\ late' \subseteq Updates
                     \/ \E u \in Updates : CancelRemaining(u)
                     \/ \E u \in Updates, s \in States, e \in BOOLEAN : Save(u, s, e)
  <1>0. late \subseteq Updates
    BY DEF SinceInv
  <1>1. ASSUME UNCHANGED tableVars
        PROVE  Goal
    BY <1>0, <1>1 DEF tableVars
  <1>2. ASSUME NEW w \in Workers, job[w].pc \in {"start", "step", "save", "cascade"}
        PROVE  job[w].upd \in Updates /\ JobOK(job[w]) /\ job[w] # NoJob
    BY <1>2, BusyWorker DEF Job
  <1>3. ASSUME NEW w \in Workers, Start(w)
        PROVE  Goal
    <2>1. job[w].upd \in Updates
      BY <1>2, <1>3 DEF Start
    <2>2. FirstState(job[w].upd) \in States
      BY <2>1, FirstIsStep, StepIsActive DEF States
    <2>3. CASE Save(job[w].upd, FirstState(job[w].upd), FALSE)
      BY <2>1, <2>2, <2>3
    <2>4. QED
      BY <1>1, <1>3, <2>3 DEF Start
  <1>4. ASSUME NEW w \in Workers, ExecuteStep(w)
        PROVE  Goal
    <2>1. job[w].upd \in Updates /\ job[w].state \in States
      BY <1>2, <1>4 DEF ExecuteStep, JobOK, Job
    <2>2. CASE Save(job[w].upd, job[w].state, FALSE)
      BY <2>1, <2>2
    <2>3. QED
      BY <1>1, <1>4, <2>2 DEF ExecuteStep
  <1>5. ASSUME NEW w \in Workers, SaveOutcome(w)
        PROVE  Goal
    <2>1. job[w].pc = "save"
      BY <1>5 DEF SaveOutcome
    <2>2. job[w].upd \in Updates /\ JobOK(job[w]) /\ job[w] # NoJob
      BY <1>2, <2>1
    <2>3. /\ job[w].state \in Active /\ InSteps(job[w].upd, job[w].state)
          /\ job[w].outcome \in {"Wait", "Transition", "Failed"}
      BY <2>1, <2>2 DEF JobOK, Job
    <2> DEFINE n == NextState(job[w].upd, job[w].state)
    <2>4. n \in States
      BY <2>2, <2>3, NextIsStep, StepIsActive DEF States, Terminal
    <2>5. CASE Saved(w)
      <3>1. \/ Save(job[w].upd, job[w].state, TRUE)
            \/ Save(job[w].upd, n, FALSE)
            \/ Save(job[w].upd, "FAILED", FALSE)
        BY <2>3, <2>5 DEF Saved
      <3> HIDE DEF n
      <3>2. QED
        BY <2>2, <2>3, <2>4, <3>1 DEF States, Terminal
    <2>6. QED
      BY <1>1, <1>5, <2>5 DEF SaveOutcome
  <1>6. ASSUME NEW w \in Workers, Cascade(w)
        PROVE  Goal
    <2>1. job[w].upd \in Updates
      BY <1>2, <1>6 DEF Cascade
    <2>2. QED
      BY <1>1, <1>6, <2>1 DEF Cascade
  <1>7. ASSUME NEW w \in Workers, Take(w) \/ WorkerFails(w)
        PROVE  Goal
    BY <1>1, <1>7 DEF Take, WorkerFails, StartFails, LookupFails, SaveFails, CascadeFails
  <1>8. ASSUME NEW u \in Updates, CancelGet(u) \/ CancelProceeds(u) \/ CancelFails(u)
        PROVE  Goal
    BY <1>1, <1>8 DEF CancelGet, CancelProceeds, CancelJob, CancelSave, CancelBundle, CancelFails,
                      States, Terminal
  <1>9. ASSUME NEW u \in Updates, Deadline(u)
        PROVE  Goal
    BY <1>0, <1>9 DEF Deadline
  <1>10. ASSUME NEW b \in Bundles, QueueCheck(b) \/ QueueFails(b)
         PROVE  Goal
    BY <1>1, <1>10 DEF QueueCheck, QueueFails
  <1>11. ASSUME NEW b \in Bundles, QueueSave(b)
         PROVE  Goal
    <2>1. NextMissing(b) \in Updates
      BY <1>11, QueueSaveEffect DEF Inserts
    <2>2. QED
      BY <1>11, <2>1 DEF QueueSave, States
  <1>12. CASE Scheduler \/ FetchFails \/ Stop \/ Restart \/ Crash
    BY <1>1, <1>12 DEF Scheduler, FetchQueued, FetchActive, BatchDone, FetchFails, Stop, Restart,
                       Crash, NewProcess
  <1>13. CASE UNCHANGED vars
    BY <1>1, <1>13 DEF vars
  <1>14. QED
    BY <1>3, <1>4, <1>5, <1>6, <1>7, <1>8, <1>9, <1>10, <1>11, <1>12, <1>13 DEF Next, Worker

LEMMA SinceInvStep ==
    ASSUME RowInv, PoolInv, OrderInv, CallInv, SinceInv, [Next]_vars
    PROVE  SinceInv'
  <1>0. RowInv'
    BY RowInvStep
  <1>1. CASE row' = row /\ since' = since /\ late' \subseteq Updates
    BY <1>1 DEF SinceInv, ActiveRows
  <1>2. ASSUME NEW u \in Updates, CancelRemaining(u)
        PROVE  SinceInv'
    <2>1. since' = since /\ late' = late
      BY <1>2 DEF CancelRemaining
    <2>2. \A v \in Updates : (row'[v].state \in Active) <=> (row[v].state \in Active)
      BY <1>2, CancelEffect DEF RowsCancelled, Remaining, Active
    <2>3. ActiveRows' = ActiveRows
      BY <2>2 DEF ActiveRows
    <2>4. QED
      BY <2>1, <2>2, <2>3 DEF SinceInv
  <1>3. ASSUME NEW u \in Updates, NEW s \in States, NEW e \in BOOLEAN, Save(u, s, e)
        PROVE  SinceInv'
    <2>1. since' = [v \in Updates |->
                      CASE v = u \/ row[v].state \notin Active -> {}
                        [] OTHER -> IF s \in Active THEN since[v] \cup {u} ELSE since[v] \ {u}]
          /\ late' \subseteq late
      BY <1>3 DEF Save
    <2>2. \A v, x \in Updates :
            x \in since'[v] <=>
              (/\ v # u /\ row[v].state \in Active
               /\ (x = u /\ s \in Active) \/ (x # u /\ x \in since[v]))
      BY <2>1
    <2>3. since' \in [Updates -> SUBSET Updates]
      <3>1. \A v \in Updates : since[v] \subseteq Updates
        BY DEF SinceInv
      <3>2. QED
        BY <2>1, <3>1
    <2>4. \A v \in Updates : v # u => row'[v] = row[v]
      BY <1>3, SaveEffect DEF RowSaved
    <2>5. row'[u].state = s
      BY <1>3, SaveEffect DEF RowSaved
    <2>6. \A x, v \in Updates : x \in since'[v] => row'[x].state \in Active /\ row'[v].state \in Active
      BY <2>2, <2>4, <2>5 DEF SinceInv
    <2>7. \A x \in Updates : x \notin since'[x]
      BY <2>2 DEF SinceInv
    <2>8. \A x, v \in ActiveRows' : x = v \/ x \in since'[v] \/ v \in since'[x]
      <3>1. SUFFICES ASSUME NEW x \in Updates, NEW v \in Updates, x # v,
                            row'[x].state \in Active, row'[v].state \in Active
                     PROVE  x \in since'[v] \/ v \in since'[x]
        BY DEF ActiveRows
      <3>2. CASE x # u /\ v # u
        BY <2>2, <2>4, <3>1, <3>2 DEF SinceInv, ActiveRows
      <3>3. CASE x = u \/ v = u
        BY <2>2, <2>4, <2>5, <3>1, <3>3
      <3>4. QED
        BY <3>2, <3>3
    <2>9. \A x, v, y \in Updates : x \in since'[v] /\ v \in since'[y] => x \in since'[y]
      BY <2>2 DEF SinceInv
    <2>10. QED
      BY <2>1, <2>3, <2>6, <2>7, <2>8, <2>9 DEF SinceInv
  <1>4. QED
    BY <1>1, <1>2, <1>3, TableEffect

-----------------------------------------------------------------------------
SavedBefore(u) == { v \in ActiveRows : u \in since[v] }

(* The order in which the active rows were saved is total: the rows with   *)
(* fewer than n before them are n at most.                                 *)
LEMMA OldestRows ==
    ASSUME SinceInv, NEW n \in Nat
    PROVE  LET P == { v \in ActiveRows : Cardinality(SavedBefore(v)) < n }
           IN  IsFiniteSet(P) /\ Cardinality(P) <= n
  <1> DEFINE P == { v \in ActiveRows : Cardinality(SavedBefore(v)) < n }
             f == [v \in P |-> Cardinality(SavedBefore(v))]
  <1>1. ActiveRows \subseteq Updates /\ IsFiniteSet(Updates) /\ P \subseteq ActiveRows
    BY FirmwareAssumption DEF ActiveRows
  <1>2. \A v \in ActiveRows :
          IsFiniteSet(SavedBefore(v)) /\ Cardinality(SavedBefore(v)) \in Nat
    <2>1. \A v \in ActiveRows : SavedBefore(v) \subseteq Updates
      BY <1>1 DEF SavedBefore
    <2>2. QED
      BY <1>1, <2>1, FS_Subset, FS_CardinalityType
  <1>3. f \in [P -> 0..(n - 1)]
    BY <1>1, <1>2
  <1>4. ASSUME NEW u \in P, NEW v \in P, u \in since[v]
        PROVE  f[u] # f[v]
    <2>1. u \in ActiveRows /\ v \in ActiveRows /\ u \in Updates /\ v \in Updates
      BY <1>1
    <2>2. SavedBefore(v) \subseteq SavedBefore(u)
      BY <1>1, <1>4, <2>1 DEF SavedBefore, SinceInv
    <2>3. v \in SavedBefore(u) /\ v \notin SavedBefore(v)
      BY <1>4, <2>1 DEF SavedBefore, SinceInv
    <2>4. Cardinality(SavedBefore(u)) # Cardinality(SavedBefore(v))
      BY <1>2, <2>1, <2>2, <2>3, FS_Subset
    <2>5. QED
      BY <2>4
  <1>5. \A u, v \in P : u = v \/ u \in since[v] \/ v \in since[u]
    BY DEF SinceInv
  <1>6. \A u, v \in P : f[u] = f[v] => u = v
    BY <1>4, <1>5
  <1> HIDE DEF f
  <1>7. f \in Injection(P, 0..(n - 1))
    BY <1>3, <1>6 DEF Injection, IsInjective
  <1>8. IsFiniteSet(0..(n - 1)) /\ Cardinality(0..(n - 1)) = n
    <2>1. 0 \in Int /\ n - 1 \in Int /\ (0 > n - 1 => n = 0) /\ n - 1 - 0 + 1 = n
      OBVIOUS
    <2>2. QED
      BY <2>1, FS_Interval
  <1> HIDE DEF P
  <1>9. QED
    BY <1>7, <1>8, FS_Injection DEF P

LEMMA ItemsFinite ==
    ASSUME NEW Q, IsFiniteSet(Q)
    PROVE  LET T == { Item(u) : u \in Q } IN IsFiniteSet(T) /\ Cardinality(T) <= Cardinality(Q)
  <1> DEFINE T == { Item(u) : u \in Q }
             f == [u \in Q |-> Item(u)]
  <1>1. f \in Surjection(Q, T)
    BY DEF Surjection
  <1> HIDE DEF T, f
  <1>2. QED
    BY <1>1, FS_Surjection DEF T

LEMMA SizeInvStep ==
    ASSUME RowInv, PoolInv, CallInv, SinceInv, SizeInv, [Next]_vars
    PROVE  SizeInv'
  <1>0. NumWorkers \in Nat /\ Cardinality(batch) \in Nat
    BY FirmwareAssumption, FS_CardinalityType DEF NumWorkers, SizeInv
  <1>1. ASSUME batch' \subseteq batch
        PROVE  SizeInv'
    <2>1. IsFiniteSet(batch') /\ Cardinality(batch') <= Cardinality(batch)
      BY <1>1, FS_Subset DEF SizeInv
    <2>2. Cardinality(batch') \in Nat
      BY <2>1, FS_CardinalityType
    <2>3. QED
      BY <1>0, <2>1, <2>2 DEF SizeInv, NumWorkers
  <1>2. CASE FetchQueued
    <2>1. PICK Q \in SUBSET Ready :
            /\ Cardinality(Q) = IF Cardinality(Ready) < NumWorkers
                                THEN Cardinality(Ready) ELSE NumWorkers
            /\ batch' = { Item(u) : u \in Q }
      BY <1>2 DEF FetchQueued
    <2>2. IsFiniteSet(Ready)
      BY FirmwareAssumption, FS_Subset DEF Ready
    <2>3. IsFiniteSet(Q) /\ Cardinality(Q) \in Nat /\ Cardinality(Ready) \in Nat
      BY <2>2, FS_Subset, FS_CardinalityType
    <2>4. Cardinality(Q) <= NumWorkers
      BY <1>0, <2>1, <2>3
    <2>5. IsFiniteSet(batch') /\ Cardinality(batch') <= Cardinality(Q)
      BY <2>1, <2>3, ItemsFinite
    <2>6. Cardinality(batch') \in Nat
      BY <2>5, FS_CardinalityType
    <2>7. QED
      BY <1>0, <2>3, <2>4, <2>5, <2>6 DEF SizeInv, NumWorkers
  <1>3. CASE FetchActive
    <2> DEFINE room == NumWorkers - Cardinality(batch)
               P == { v \in ActiveRows : Cardinality(SavedBefore(v)) < room }
               A == { Item(u) : u \in P }
    <2>1. batch' = batch \cup A
      BY <1>3 DEF FetchActive, SavedBefore
    <2>2. room \in Nat
      BY <1>0 DEF SizeInv
    <2>3. IsFiniteSet(P) /\ Cardinality(P) <= room
      <3> HIDE DEF room
      <3>1. QED
        BY <2>2, OldestRows
    <2>4. IsFiniteSet(A) /\ Cardinality(A) <= Cardinality(P)
      <3> HIDE DEF P
      <3>1. QED
        BY <2>3, ItemsFinite
    <2> HIDE DEF A, P
    <2>5. Cardinality(A) \in Nat /\ Cardinality(P) \in Nat
      BY <2>3, <2>4, FS_CardinalityType
    <2>6. /\ IsFiniteSet(batch \cup A)
          /\ Cardinality(batch \cup A) = Cardinality(batch) + Cardinality(A)
                                         - Cardinality(batch \cap A)
      BY <2>4, FS_Union DEF SizeInv
    <2>7. Cardinality(batch \cap A) \in Nat
      BY <2>4, FS_Intersection, FS_CardinalityType
    <2>8. Cardinality(batch \cup A) <= NumWorkers
      BY <1>0, <2>2, <2>3, <2>4, <2>5, <2>6, <2>7
    <2>9. QED
      BY <2>1, <2>6, <2>8 DEF SizeInv, NumWorkers
  <1>4. ASSUME NEW w \in Workers, Worker(w) \/ WorkerFails(w)
        PROVE  batch' \subseteq batch
    BY <1>4 DEF Worker, WorkerFails, Take, Start, ExecuteStep, SaveOutcome, Cascade, StartFails,
                LookupFails, SaveFails, CascadeFails
  <1>5. ASSUME NEW u \in Updates, CancelGet(u) \/ CancelProceeds(u) \/ CancelFails(u) \/ Deadline(u)
        PROVE  batch' \subseteq batch
    BY <1>5 DEF CancelGet, CancelProceeds, CancelJob, CancelSave, CancelBundle, CancelFails, Deadline,
                poolVars
  <1>6. ASSUME NEW b \in Bundles, QueueCheck(b) \/ QueueSave(b) \/ QueueFails(b)
        PROVE  batch' \subseteq batch
    BY <1>6 DEF QueueCheck, QueueSave, QueueFails, poolVars
  <1>7. ASSUME BatchDone \/ FetchFails \/ Stop \/ Restart \/ Crash
        PROVE  batch' \subseteq batch
    BY <1>7 DEF BatchDone, FetchFails, Stop, Restart, Crash, NewProcess
  <1>8. ASSUME UNCHANGED vars
        PROVE  batch' \subseteq batch
    BY <1>8 DEF vars, poolVars
  <1>9. QED
    BY <1>1, <1>2, <1>3, <1>4, <1>5, <1>6, <1>7, <1>8 DEF Next, Scheduler

-----------------------------------------------------------------------------
LEMMA InitIInv ==
    Init => IInv
  <1> SUFFICES ASSUME Init
               PROVE  IInv
    OBVIOUS
  <1>1. /\ \A u \in Updates : row[u].state = "none" /\ row[u].exec = FALSE
        /\ row \in [Updates -> [state : States, exec : BOOLEAN]]
    BY DEF Init, States
  <1>2. /\ sched = "idle" /\ batch = {} /\ stopping = FALSE /\ faults = 0 /\ late = {}
        /\ completed = {} /\ tooLate = {} /\ begun = {} /\ repeated = {}
        /\ job \in [Workers -> Job \cup {NoJob}] /\ \A w \in Workers : job[w] = NoJob
    BY DEF Init
  <1>3. /\ call \in [Bundles -> {"idle", "saving", "done"}] /\ \A b \in Bundles : call[b] = "idle"
        /\ cancel \in [Updates -> {"idle", "job", "write", "bundle", "done"}]
        /\ \A u \in Updates : cancel[u] = "idle"
        /\ since \in [Updates -> SUBSET Updates] /\ \A u \in Updates : since[u] = {}
    BY DEF Init
  <1>4. \A w \in Workers : job[w].upd \notin Updates /\ job[w].pc = "idle"
    BY <1>2, FirmwareAssumption DEF NoJob
  <1>5. RowInv /\ PoolInv
    BY <1>1, <1>2 DEF RowInv, PoolInv, JobOK, Active
  <1>6. Alone /\ OrderInv /\ SyncInv
    BY <1>1, <1>2, <1>4 DEF Alone, OrderInv, SyncInv, Active
  <1>7. CallInv
    BY <1>1, <1>2, <1>3, <1>4, FirmwareAssumption DEF CallInv
  <1>8. TrayInv
    BY <1>1, <1>2, <1>4 DEF TrayInv, Pending, Active
  <1>9. CancelInv /\ OnceInv
    BY <1>2, <1>4, FirmwareAssumption DEF CancelInv, OnceInv, BegunOnce
  <1>10. OrphanInv
    BY <1>1, <1>2 DEF OrphanInv
  <1>11. SinceInv
    BY <1>1, <1>2, <1>3 DEF SinceInv, ActiveRows, Active
  <1>12. SizeInv
    BY <1>2, FirmwareAssumption, FS_EmptySet, FS_CardinalityType DEF SizeInv, NumWorkers
  <1>13. QED
    BY <1>5, <1>6, <1>7, <1>8, <1>9, <1>10, <1>11, <1>12 DEF IInv

LEMMA NextIInv ==
    IInv /\ [Next]_vars => IInv'
  BY RowInvStep, PoolInvStep, AloneStep, OrderInvStep, CallInvStep, SyncInvStep, TrayInvStep,
     CancelInvStep, OnceInvStep, OrphanInvStep, SinceInvStep, SizeInvStep DEF IInv

(* The inductive invariant holds in every state of the manager: whatever   *)
(* the workers, the scheduler, QueueUpdate, CancelUpdate, stops and        *)
(* crashes do, and in whatever order.                                      *)
THEOREM Inductive == Spec => []IInv
  <1>1. QED
    BY InitIInv, NextIInv, PTL DEF Spec

(* An active row is in a state of its strategy, so that processUpdate      *)
(* never meets one it has no step for, and a batch never exceeds the       *)
(* number of workers, the capacity of workChan.                            *)
THEOREM TypeCorrect == Spec => []TypeOK
  <1>1. IInv => TypeOK
    <2> SUFFICES ASSUME IInv
                 PROVE  TypeOK
      OBVIOUS
    <2>1. \A u \in ActiveRows : InSteps(u, row[u].state)
      BY DEF IInv, RowInv, ActiveRows
    <2>2. batch \subseteq Copy
      BY DEF IInv, PoolInv, ItemOK
    <2>3. begun \subseteq Updates \X States
      BY DEF IInv, OnceInv, States
    <2>4. QED
      BY <2>1, <2>2, <2>3 DEF IInv, RowInv, PoolInv, CallInv, CancelInv, OnceInv, OrphanInv, SinceInv,
                              SizeInv, TypeOK
  <1>2. QED
    BY <1>1, Inductive, PTL

(* No update is processed by two workers, nor waits in the batch while a   *)
(* worker processes it: the mutual exclusion that worker.go expects of the *)
(* channel and of the wait for the batch.                                  *)
THEOREM NoTwoWorkers == Spec => []OneWorkerPerUpdate
  <1>1. IInv => OneWorkerPerUpdate
    <2> SUFFICES ASSUME IInv, NEW w \in Workers, ~ Idle(w)
                 PROVE  /\ \A x \in Workers \ {w} : job[x].upd # job[w].upd
                        /\ \A item \in batch : item.upd # job[w].upd
      BY DEF OneWorkerPerUpdate
    <2>1. JobOK(job[w]) /\ job[w] # NoJob
      BY DEF IInv, PoolInv, Idle, NoJob
    <2>2. job[w].upd \in Updates
      BY <2>1 DEF JobOK, Job
    <2>3. QED
      BY <2>2 DEF IInv, Alone
  <1>2. QED
    BY <1>1, Inductive, PTL

(* The queries of GetPendingUpdates keep the order of a bundle: an update  *)
(* is worked on only after all updates before it have completed, through   *)
(* cancellations, failures and restarts.                                   *)
THEOREM BundlesInOrder == Spec => []BundleInOrder
  <1>1. IInv => BundleInOrder
    <2> SUFFICES ASSUME IInv, NEW u \in Updates, NEW v \in Updates, SameBundle(u, v),
                        Order[v] < Order[u], Started(u)
                 PROVE  v \in completed
      BY DEF BundleInOrder
    <2>1. EarlierIn(u, completed)
      BY DEF IInv, OrderInv, Started
    <2>2. QED
      BY <2>1 DEF EarlierIn
  <1>2. QED
    BY <1>1, Inductive, PTL

(* Two updates of one switch are active together only after a CancelUpdate *)
(* of one of them or of one before it: QueueUpdate's check under the mutex *)
(* of the switch and the order within a bundle suffice otherwise.          *)
THEOREM OneUpdatePerTray == Spec => []TrayExclusive
  <1>1. IInv => TrayExclusive
    <2> SUFFICES ASSUME IInv, NEW u \in ActiveRows, NEW v \in ActiveRows, u # v,
                        SwitchOfUpdate(u) = SwitchOfUpdate(v)
                 PROVE  CancelTouched(u) \/ CancelTouched(v)
      BY DEF TrayExclusive
    <2>1. /\ u \in Updates /\ v \in Updates /\ row[u].state \in Active /\ row[v].state \in Active
          /\ Order[u] \in Nat /\ Order[v] \in Nat
      BY FirmwareAssumption DEF ActiveRows
    <2>2. ASSUME NEW x \in Updates, NEW y \in Updates, row[x].state \in Active,
                 row[y].state \in Active, SameBundle(x, y), Order[y] < Order[x]
          PROVE  CancelTouched(y)
      <3>1. y \in completed
        BY <2>2 DEF IInv, OrderInv, EarlierIn
      <3>2. cancel[y] # "idle"
        BY <2>2, <3>1 DEF IInv, SyncInv, Active
      <3>3. SameBundle(y, y) /\ Order[y] <= Order[y]
        BY FirmwareAssumption DEF SameBundle
      <3>4. QED
        BY <3>2, <3>3 DEF CancelTouched
    <2>3. CASE BundleOf[u] = BundleOf[v]
      <3>1. Order[u] # Order[v]
        BY <2>1, <2>3, FirmwareAssumption
      <3>2. Order[u] < Order[v] \/ Order[v] < Order[u]
        BY <2>1, <3>1
      <3>3. SameBundle(u, v) /\ SameBundle(v, u)
        BY <2>3 DEF SameBundle
      <3>4. QED
        BY <2>1, <2>2, <3>2, <3>3
    <2>4. CASE BundleOf[u] # BundleOf[v]
      BY <2>1, <2>4 DEF IInv, TrayInv, Pending, Touched, CancelTouched
    <2>5. QED
      BY <2>3, <2>4
  <1>2. QED
    BY <1>1, Inductive, PTL

(* While no statement fails and the service does not stop, ExecuteStep is  *)
(* called for the first time at most once for every step of an update that *)
(* nobody cancels: no tray is power-cycled and no script run twice.        *)
THEOREM StepsBegunOnce == Spec => []BegunOnce
  <1>1. IInv => BegunOnce
    BY DEF IInv, OnceInv
  <1>2. QED
    BY <1>1, Inductive, PTL

(* A queued update behind one that failed or was cancelled has somebody    *)
(* about to cancel it, unless a fault interrupted failUpdate or            *)
(* CancelUpdate, or QueueUpdate inserted it when they were done.           *)
THEOREM NoUnexplainedOrphan == Spec => []OrphansExplained
  <1>1. IInv => OrphansExplained
    <2> SUFFICES ASSUME IInv, NEW u \in Updates, Orphan(u), u \notin tooLate, ~ (faults > 0)
                 PROVE  FALSE
      BY DEF OrphansExplained
    <2>1. faults = 0
      BY FirmwareAssumption DEF IInv, CancelInv
    <2>2. PICK x \in Updates : SameBundle(u, x) /\ Order[x] < Order[u] /\ Effective(x)
      BY <2>1 DEF IInv, OrphanInv, Orphan
    <2>3. Cascading(x)
      BY <2>2 DEF Effective, Cascading
    <2>4. QED
      BY <2>2, <2>3 DEF Orphan
  <1>2. QED
    BY <1>1, Inductive, PTL

-----------------------------------------------------------------------------
(* The states of the rows implement UpdateBundles.                         *)
LEMMA RunningIsActive == \A s \in States : Lifecycle!Running(s) <=> s \in Active
  BY DEF Lifecycle!Running, Lifecycle!Ended, States, Terminal, Active

LEMMA OutstandingIsPending ==
    ASSUME RowInv, NEW u \in Updates
    PROVE  Lifecycle!Outstanding(u) <=> Pending(u)
  <1>1. RowState[u] = row[u].state /\ row[u].state \in States
    BY DEF RowState, RowInv
  <1>2. QED
    BY <1>1, RunningIsActive DEF Lifecycle!Outstanding, Pending

LEMMA EarlierIsEarlier ==
    ASSUME NEW u \in Updates
    PROVE  EarlierIn(u, completed) <=> Lifecycle!Earlier(u) \subseteq completed
  BY DEF EarlierIn, Lifecycle!Earlier, SameBundle

(* A statement that saves a row changes one state. *)
LEMMA StateSaved ==
    ASSUME NEW u \in Updates, NEW s, NEW e, RowSaved(u, s, e)
    PROVE  RowState' = [RowState EXCEPT ![u] = s]
  <1>1. \A v \in Updates : row'[v].state = IF v = u THEN s ELSE row[v].state
    BY DEF RowSaved
  <1>2. QED
    BY <1>1 DEF RowState

LEMMA StateKept ==
    ASSUME \A v \in Updates : row'[v].state = row[v].state
    PROVE  RowState' = RowState
  BY DEF RowState

(* Only a call of CancelUpdate takes updates out of the promise. *)
LEMMA CancelTouches ==
    ASSUME RowInv, CallInv, NEW u \in Updates, CancelGet(u)
    PROVE  Lifecycle!Cancel(u)
  <1>1. RowState' = RowState /\ completed' = completed
    BY DEF CancelGet, tableVars, historyVars, RowState
  <1>2. Lifecycle!Outstanding(u)
    BY OutstandingIsPending DEF CancelGet
  <1>3. cancel' = [cancel EXCEPT ![u] = "job"] /\ cancel[u] = "idle"
    BY DEF CancelGet
  <1>4. \A v \in Updates : cancel'[v] # "idle" <=> (cancel[v] # "idle" \/ v = u)
    BY <1>3 DEF CallInv
  <1>5. ASSUME NEW x \in Updates
        PROVE  (x \in CancelledFrom')
                 <=> (x \in CancelledFrom \/ x = u \/ x \in Lifecycle!Later(u))
    <2>1. x \in CancelledFrom' <=> \E v \in Updates : SameBundle(x, v) /\ Order[v] <= Order[x]
                                                       /\ cancel'[v] # "idle"
      BY DEF CancelledFrom, CancelTouched
    <2>2. x \in CancelledFrom <=> \E v \in Updates : SameBundle(x, v) /\ Order[v] <= Order[x]
                                                      /\ cancel[v] # "idle"
      BY DEF CancelledFrom, CancelTouched
    <2>3. SameBundle(x, u) /\ Order[u] <= Order[x] <=> x = u \/ x \in Lifecycle!Later(u)
      BY FirmwareAssumption DEF SameBundle, Lifecycle!Later
    <2>4. QED
      BY <1>4, <2>1, <2>2, <2>3
  <1>6. CancelledFrom' = CancelledFrom \cup {u} \cup Lifecycle!Later(u)
    BY <1>5 DEF CancelledFrom, Lifecycle!Later
  <1>7. QED
    BY <1>1, <1>2, <1>6 DEF Lifecycle!Cancel

LEMMA TouchedEffect ==
    ASSUME RowInv, PoolInv, CallInv, [Next]_vars
    PROVE  CancelledFrom' = CancelledFrom \/ \E u \in Updates : CancelGet(u)
  <1>1. ASSUME \A v \in Updates : cancel'[v] = "idle" <=> cancel[v] = "idle"
        PROVE  CancelledFrom' = CancelledFrom
    BY <1>1 DEF CancelledFrom, CancelTouched
  <1>2. ASSUME NEW u \in Updates, CancelProceeds(u) \/ CancelFails(u)
        PROVE  CancelledFrom' = CancelledFrom
    BY <1>1, <1>2 DEF CancelProceeds, CancelJob, CancelSave, CancelBundle, CancelFails, CallInv
  <1>3. ASSUME NEW b \in Bundles, QueueSave(b)
        PROVE  CancelledFrom' = CancelledFrom
    BY <1>1, <1>3 DEF QueueSave
  <1>4. CASE NewProcess
    BY <1>1, <1>4 DEF NewProcess
  <1>5. CASE cancel' = cancel
    BY <1>1, <1>5
  <1>6. QED
    BY <1>2, <1>3, <1>4, <1>5, CallsEffect

(* QueueUpdate inserts the next row of a bundle while no other bundle of   *)
(* the switch has something to do.                                         *)
LEMMA InsertEnqueues ==
    ASSUME IInv, NEW b \in Bundles, QueueSave(b), CancelledFrom' = CancelledFrom
    PROVE  \E u \in Updates : Lifecycle!Enqueue(u)
  <1> DEFINE u == NextMissing(b)
  <1>0. RowInv /\ CallInv /\ TrayInv
    BY DEF IInv
  <1>1. Inserts(b, u)
    BY <1>0, QueueSaveEffect
  <1>2. /\ u \in Updates /\ BundleOf[u] = b /\ call[b] = "saving"
        /\ RowSaved(u, "QUEUED", FALSE) /\ row[u].state = "none"
    BY <1>1 DEF Inserts
  <1>3. \A v \in Missing(b) : Order[u] <= Order[v]
    BY <1>0, <1>2, NextMissingType DEF CallInv
  <1> HIDE DEF u
  <1>4. ASSUME NEW v \in Lifecycle!Earlier(u)
        PROVE  RowState[v] # "none"
    <2>1. v \in Updates /\ BundleOf[v] = b /\ Order[v] < Order[u]
      BY <1>2 DEF Lifecycle!Earlier
    <2>2. Order[v] \in Nat /\ Order[u] \in Nat
      BY <1>2, <2>1, FirmwareAssumption
    <2>3. v \notin Missing(b)
      BY <1>3, <2>1, <2>2
    <2>4. QED
      BY <2>1, <2>3 DEF Missing, RowState
  <1>5. ASSUME u \notin CancelledFrom, NEW v \in Lifecycle!Rivals(u) \ CancelledFrom
        PROVE  ~ Lifecycle!Outstanding(v)
    <2>1. v \in Updates /\ BundleOf[v] # BundleOf[u] /\ SwitchOfUpdate(v) = SwitchOfUpdate(u)
      BY DEF Lifecycle!Rivals, SwitchOfUpdate
    <2>2. ~ Touched(u, cancel) /\ ~ Touched(v, cancel)
      BY <1>2, <1>5, <2>1 DEF CancelledFrom, CancelTouched, Touched
    <2>3. ~ Pending(v)
      BY <1>0, <1>2, <2>1, <2>2 DEF TrayInv
    <2>4. QED
      BY <1>0, <2>1, <2>3, OutstandingIsPending
  <1>6. RowState' = [RowState EXCEPT ![u] = "QUEUED"] /\ completed' = completed
    BY <1>2, StateSaved DEF RowSaved
  <1>7. Lifecycle!Enqueue(u)
    BY <1>2, <1>4, <1>5, <1>6 DEF Lifecycle!Enqueue, RowState
  <1>8. QED
    BY <1>2, <1>7

(* What a worker saves of an update that nobody has cancelled is the next  *)
(* step of it: its copy is of the row as it is.                            *)
LEMMA WorkerAdvances ==
    ASSUME IInv, NEW w \in Workers, WorkerMoves(w), WorkerSaves(w),
           job[w].upd \notin CancelledFrom, CancelledFrom' = CancelledFrom
    PROVE  [Lifecycle!UNext]_(Lifecycle!uvars)
  <1> DEFINE u == job[w].upd
             t == row[u].state
  <1>0. RowInv /\ PoolInv /\ OrderInv /\ SyncInv /\ TrayInv
    BY DEF IInv
  <1>1. u \in Updates /\ JobOK(job[w]) /\ job[w] # NoJob /\ EarlierIn(u, completed)
    <2>1. job[w] \in Job /\ u \in Updates
      BY DEF WorkerMoves, Job
    <2>2. QED
      BY <1>0, <2>1, FirmwareAssumption DEF PoolInv, OrderInv, NoJob
  <1>2. ~ Touched(u, cancel)
    BY <1>1 DEF CancelledFrom, CancelTouched, Touched
  <1>3. cancel[u] = "idle"
    BY <1>1, <1>2, FirmwareAssumption DEF Touched, SameBundle
  <1>4. RowState[u] = t /\ t \in States
    BY <1>0, <1>1 DEF RowState, RowInv
  <1>5. SyncJob(job[w], row[u], cancel[u])
    BY <1>0, <1>1 DEF SyncInv
  <1>6. CASE job[w].pc = "start" /\ RowSaved(u, FirstState(u), FALSE)
    <2>1. t = "QUEUED"
      BY <1>0, <1>2, <1>6 DEF TrayInv
    <2>2. FirstState(u) # "COMPLETED"
      BY <1>1, FirstIsStep, StepIsActive DEF Active
    <2>3. RowState' = [RowState EXCEPT ![u] = Begins[u]] /\ completed' = completed
      BY <1>1, <1>6, <2>2, StateSaved DEF RowSaved, Begins
    <2>4. Lifecycle!Begin(u)
      BY <1>1, <1>4, <2>1, <2>3, EarlierIsEarlier DEF Lifecycle!Begin
    <2>5. QED
      BY <1>1, <2>4 DEF Lifecycle!UNext
  <1>7. CASE job[w].pc \in {"step", "save"}
    <2>1. job[w].state = t /\ t \in Active /\ InSteps(u, t)
      BY <1>1, <1>3, <1>5, <1>7 DEF SyncJob, JobOK
    <2>2. Lifecycle!Running(RowState[u])
      BY <1>4, <2>1, RunningIsActive
    <2>3. ASSUME NEW e, RowSaved(u, t, e)
          PROVE  UNCHANGED Lifecycle!uvars
      <3>1. \A v \in Updates : row'[v].state = row[v].state
        BY <1>1, <2>3 DEF RowSaved
      <3>2. completed' = completed
        BY <2>1, <2>3 DEF RowSaved, Active
      <3>3. QED
        BY <3>1, <3>2, StateKept DEF Lifecycle!uvars
    <2>4. CASE RowSaved(u, NextState(u, t), FALSE)
      <3>1. Follows[u][RowState[u]] = NextState(u, t)
        BY <1>1, <1>4, <2>1 DEF Follows
      <3>2. RowState' = [RowState EXCEPT ![u] = NextState(u, t)]
        BY <1>1, <2>4, StateSaved
      <3>3. Lifecycle!Advance(u)
        BY <2>2, <2>4, <3>1, <3>2 DEF Lifecycle!Advance, RowSaved
      <3>4. QED
        BY <1>1, <3>3 DEF Lifecycle!UNext
    <2>5. CASE RowSaved(u, "FAILED", FALSE)
      <3>1. RowState' = [RowState EXCEPT ![u] = "FAILED"] /\ completed' = completed
        BY <1>1, <2>5, StateSaved DEF RowSaved
      <3>2. Lifecycle!Fail(u)
        BY <2>2, <3>1 DEF Lifecycle!Fail
      <3>3. QED
        BY <1>1, <3>2 DEF Lifecycle!UNext
    <2>6. QED
      BY <1>7, <2>1, <2>3, <2>4, <2>5 DEF WorkerSaves
  <1>8. QED
    BY <1>6, <1>7 DEF WorkerSaves

(* A save of an update that was cancelled, or comes after one that was. *)
LEMMA TouchedStrays ==
    ASSUME IInv, NEW u \in CancelledFrom, NEW s \in States, NEW e \in BOOLEAN,
           RowWritten(u, s, e), CancelledFrom' = CancelledFrom
    PROVE  Lifecycle!Stray
  <1>1. u \in Updates /\ RowInv
    BY DEF CancelledFrom, IInv
  <1>2. RowState' = [RowState EXCEPT ![u] = s] /\ RowState \in [Updates -> States]
    BY <1>1, StateSaved DEF RowWritten, RowInv, RowState
  <1>3. RowState' \in [Updates -> States]
    BY <1>1, <1>2
  <1>4. completed \subseteq completed' /\ completed' \subseteq completed \cup CancelledFrom
    BY DEF RowWritten, RowSaved
  <1>5. /\ RowState[u] # "none" /\ s \notin {"none", "QUEUED"}
        /\ s \in Active \cup {"COMPLETED"} => Lifecycle!Earlier(u) \subseteq completed
    BY <1>1, EarlierIsEarlier DEF RowWritten, RowState
  <1>6. \A v \in Updates : RowState'[v] # RowState[v] => v = u /\ RowState'[v] = s
    BY <1>1, <1>2
  <1>7. QED
    BY <1>1, <1>3, <1>4, <1>5, <1>6, RunningIsActive DEF Lifecycle!Stray

(* CancelRemainingInBundle, of a worker whose update has failed or of a    *)
(* call of CancelUpdate.                                                   *)
LEMMA CascadeCancels ==
    ASSUME IInv, NEW u \in Updates, RowsCancelled(u), Cascades(u), CancelledFrom' = CancelledFrom
    PROVE  Lifecycle!UNext
  <1>0. RowInv /\ PoolInv /\ SyncInv
    BY DEF IInv
  <1>1. \A v \in Updates :
          v \in Remaining(u) <=> v \in Lifecycle!Later(u) /\ RowState[v] = "QUEUED"
    BY DEF Remaining, Lifecycle!Later, RowState, SameBundle
  <1>2. /\ \A v \in Updates : row'[v].state = IF v \in Remaining(u) THEN "CANCELLED"
                                              ELSE row[v].state
        /\ completed' = completed
    BY DEF RowsCancelled
  <1>3. CASE u \notin CancelledFrom
    <2>1. cancel[u] = "idle"
      BY <1>3, FirmwareAssumption DEF CancelledFrom, CancelTouched, SameBundle
    <2>2. PICK w \in Workers : job[w].upd = u /\ job[w].pc = "cascade"
      BY <2>1 DEF Cascades
    <2>3. row[u].state \in Active \cup {"FAILED"}
      BY <1>0, <2>1, <2>2 DEF SyncInv, SyncJob
    <2>4. Lifecycle!Running(RowState[u]) \/ RowState[u] = "FAILED"
      BY <1>0, <2>3, RunningIsActive DEF RowState, RowInv
    <2>5. RowState' = [v \in Updates |-> IF v \in Lifecycle!Later(u) /\ RowState[v] = "QUEUED"
                                         THEN "CANCELLED" ELSE RowState[v]]
      <3>1. \A v \in Updates : RowState'[v] = IF v \in Remaining(u) THEN "CANCELLED"
                                               ELSE RowState[v]
        BY <1>2 DEF RowState
      <3>2. RowState' = [v \in Updates |-> RowState'[v]]
        BY DEF RowState
      <3>3. QED
        BY <1>1, <3>1, <3>2
    <2>6. Lifecycle!CancelRest(u)
      BY <1>2, <2>4, <2>5 DEF Lifecycle!CancelRest
    <2>7. QED
      BY <2>6 DEF Lifecycle!UNext
  <1>4. CASE u \in CancelledFrom
    <2>1. ASSUME NEW v \in Remaining(u)
          PROVE  v \in CancelledFrom
      <3>1. PICK x \in Updates : SameBundle(u, x) /\ Order[x] <= Order[u] /\ cancel[x] # "idle"
        BY <1>4 DEF CancelledFrom, CancelTouched
      <3>2. v \in Updates /\ SameBundle(u, v) /\ Order[u] < Order[v]
        BY DEF Remaining
      <3>3. Order[x] \in Nat /\ Order[u] \in Nat /\ Order[v] \in Nat
        BY <3>1, <3>2, FirmwareAssumption
      <3>4. SameBundle(v, x) /\ Order[x] <= Order[v]
        BY <3>1, <3>2, <3>3 DEF SameBundle
      <3>5. QED
        BY <3>1, <3>2, <3>4 DEF CancelledFrom, CancelTouched
    <2>2. /\ RowState' \in [Updates -> States]
          /\ \A v \in Updates : RowState'[v] # RowState[v] =>
               v \in Remaining(u) /\ RowState[v] = "QUEUED" /\ RowState'[v] = "CANCELLED"
      BY <1>0, <1>1, <1>2 DEF RowState, RowInv, States, Terminal
    <2>3. ~ Lifecycle!Running("CANCELLED")
      BY DEF Lifecycle!Running, Lifecycle!Ended
    <2>4. Lifecycle!Stray
      BY <1>2, <2>1, <2>2, <2>3 DEF Lifecycle!Stray
    <2>5. QED
      BY <2>4 DEF Lifecycle!UNext
  <1>5. QED
    BY <1>3, <1>4

LEMMA BundlesStep ==
    ASSUME IInv, [Next]_vars
    PROVE  [Lifecycle!UNext]_(Lifecycle!uvars)
  <1>0. RowInv /\ PoolInv /\ OrderInv /\ CallInv /\ SyncInv
    BY DEF IInv
  <1>1. ASSUME NEW u \in Updates, CancelGet(u)
        PROVE  Lifecycle!UNext
    BY <1>0, <1>1, CancelTouches DEF Lifecycle!UNext
  <1>2. CASE CancelledFrom' = CancelledFrom
    <2>1. CASE RowsKept
      BY <1>2, <2>1, StateKept DEF RowsKept, Lifecycle!uvars
    <2>2. ASSUME NEW u \in Updates, RowsCancelled(u), Cascades(u)
          PROVE  Lifecycle!UNext
      BY <1>2, <2>2, CascadeCancels
    <2>3. ASSUME NEW b \in Bundles, QueueSave(b)
          PROVE  Lifecycle!UNext
      BY <1>2, <2>3, InsertEnqueues DEF Lifecycle!UNext
    <2>4. ASSUME NEW u \in Updates, NEW s \in States, NEW e \in BOOLEAN, RowWritten(u, s, e)
          PROVE  [Lifecycle!UNext]_(Lifecycle!uvars)
      <3>1. CASE u \in CancelledFrom
        BY <1>2, <2>4, <3>1, TouchedStrays DEF Lifecycle!UNext
      <3>2. CASE u \notin CancelledFrom
        <4>1. cancel[u] = "idle"
          BY <3>2, FirmwareAssumption DEF CancelledFrom, CancelTouched, SameBundle
        <4>2. PICK w \in Workers : s # "CANCELLED" /\ WorkerMoves(w) /\ job[w].upd = u
          BY <2>4, <4>1 DEF RowWritten
        <4>3. CASE WorkerSaves(w)
          BY <1>2, <3>2, <4>2, <4>3, WorkerAdvances
        <4>4. CASE Quiet
          <5>1. row'[u].state = row[u].state
            BY <2>4, <4>1, <4>2, <4>4 DEF Quiet, RowWritten, RowSaved
          <5>2. \A v \in Updates : row'[v].state = row[v].state
            BY <2>4, <5>1 DEF RowWritten, RowSaved
          <5>3. completed' = completed
            BY <4>4 DEF Quiet
          <5>4. QED
            BY <1>2, <5>2, <5>3, StateKept DEF Lifecycle!uvars
        <4>5. QED
          BY <1>0, <4>2, <4>3, <4>4, QuietOrSaves, OneMoves
      <3>3. QED
        BY <3>1, <3>2
    <2>5. QED
      BY <1>0, <2>1, <2>2, <2>3, <2>4, RowEffect
  <1>3. QED
    BY <1>0, <1>1, <1>2, TouchedEffect

(* For those who read the states of the rows, the scheduler, the workers   *)
(* with their copies and QueueUpdate's mutex amount to bundles that run    *)
(* one at a time on a switch and one update after the other, through       *)
(* failed statements, stops and crashes; what CancelUpdate has touched is  *)
(* the only exception.                                                     *)
THEOREM BundlesRunInTurn == Spec => ImplementsBundles
  <1>1. Init => Lifecycle!UInit
    <2> SUFFICES ASSUME Init
                 PROVE  Lifecycle!UInit
      OBVIOUS
    <2>1. \A u \in Updates : row[u].state = "none" /\ cancel[u] = "idle"
      BY DEF Init
    <2>2. RowState = [u \in Updates |-> "none"]
      BY <2>1 DEF RowState
    <2>3. CancelledFrom = {}
      BY <2>1 DEF CancelledFrom, CancelTouched
    <2>4. QED
      BY <2>2, <2>3 DEF Init, Lifecycle!UInit
  <1>2. IInv /\ [Next]_vars => [Lifecycle!UNext]_(Lifecycle!uvars)
    BY BundlesStep
  <1>3. QED
    BY <1>1, <1>2, Inductive, PTL DEF Spec, ImplementsBundles, Lifecycle!USpec
=============================================================================
