------------------------- MODULE TaskScheduleProofs -------------------------
(***************************************************************************)
(* Proofs about the task schedules, for any number of dispatchers, RPCs,   *)
(* schedules and scopes.                                                   *)
(***************************************************************************)
EXTENDS TaskSchedule, FiniteSetTheorems, TLAPS

(* The types of the variables that the arguments need. *)
Types ==
    /\ live \subseteq created /\ fired \subseteq created /\ created \subseteq Schedules
    /\ row \in [Schedules -> Row]
    /\ scopes \subseteq Scopes
    /\ pc \in [Actors -> Labels]
    /\ cur \in [Actors -> Schedules \cup {"none"}]
    /\ snap \in [Actors -> Row]
    /\ target \in [Actors -> Scopes \cup {"none"}]

-----------------------------------------------------------------------------
(* A row whose enabled flag is replaced is a row with that flag. *)
LEMMA SetEnabled ==
    ASSUME NEW r \in Row, NEW e \in BOOLEAN
    PROVE  /\ [r EXCEPT !.enabled = e] \in Row
           /\ [r EXCEPT !.enabled = e].enabled = e
           /\ [r EXCEPT !.enabled = e].type = r.type
           /\ [r EXCEPT !.enabled = e].next = r.next
           /\ [r EXCEPT !.enabled = e].policy = r.policy
  BY DEF Row

(* The same for next_run_at, *)
LEMMA SetNext ==
    ASSUME NEW r \in Row, NEW n \in {"null", "future", "due"}
    PROVE  /\ [r EXCEPT !.next = n] \in Row
           /\ [r EXCEPT !.next = n].next = n
           /\ [r EXCEPT !.next = n].type = r.type
           /\ [r EXCEPT !.next = n].enabled = r.enabled
           /\ [r EXCEPT !.next = n].policy = r.policy
  BY DEF Row

(* and for both. *)
LEMMA SetBoth ==
    ASSUME NEW r \in Row, NEW e \in BOOLEAN, NEW n \in {"null", "future", "due"}
    PROVE  /\ [r EXCEPT !.enabled = e, !.next = n] \in Row
           /\ [r EXCEPT !.enabled = e, !.next = n].enabled = e
           /\ [r EXCEPT !.enabled = e, !.next = n].next = n
           /\ [r EXCEPT !.enabled = e, !.next = n].type = r.type
           /\ [r EXCEPT !.enabled = e, !.next = n].policy = r.policy
  BY DEF Row

(* WriteRow writes one row. *)
LEMMA Written ==
    ASSUME row \in [Schedules -> Row], NEW s \in Schedules, NEW r \in Row, WriteRow(s, r)
    PROVE  /\ row' \in [Schedules -> Row]
           /\ row'[s] = r
           /\ \A x \in Schedules \ {s} : row'[x] = row[x]
  BY DEF WriteRow

(* Return ends the call of one actor. *)
LEMMA Returned ==
    ASSUME Types, NEW a \in Actors, Return(a)
    PROVE  /\ pc' \in [Actors -> Labels]
           /\ cur' \in [Actors -> Schedules \cup {"none"}]
           /\ snap' \in [Actors -> Row]
           /\ target' \in [Actors -> Scopes \cup {"none"}]
           /\ pc'[a] = "idle"
           /\ \A b \in Actors \ {a} : /\ pc'[b] = pc[b] /\ cur'[b] = cur[b]
                                      /\ snap'[b] = snap[b] /\ target'[b] = target[b]
<1>1. NoRow \in Row
  BY DEF NoRow, Row
<1>2. "idle" \in Labels
  BY DEF Labels
<1>. QED
  BY <1>1, <1>2 DEF Types, Return

(* The row after a firing: consumed, or advanced and as enabled as before. *)
LEMMA Fired ==
    ASSUME NEW r \in Row
    PROVE  /\ AfterFire(r) \in Row
           /\ r.type = "one-time" => AfterFire(r).enabled = FALSE
           /\ r.type = "one-time" => AfterFire(r).next = "null"
           /\ r.type # "one-time" => AfterFire(r).enabled = r.enabled
           /\ r.type # "one-time" => AfterFire(r).next = "future"
<1>1. r.enabled \in BOOLEAN
  BY DEF Row
<1>2. CASE r.type = "one-time"
  BY <1>2, SetBoth DEF AfterFire
<1>3. CASE r.type # "one-time"
  BY <1>3, SetNext DEF AfterFire
<1>. QED
  BY <1>2, <1>3

(* The step changes the local state of no actor but a. *)
OthersUntouched(a) ==
    \A b \in Actors \ {a} : /\ pc'[b] = pc[b] /\ cur'[b] = cur[b]
                            /\ snap'[b] = snap[b] /\ target'[b] = target[b]

(* No row but that of s is written. *)
OnlyRow(s) == \A x \in Schedules \ {s} : row'[x] = row[x]

(* Advance consumes a one-time schedule and moves a recurring one ahead.   *)
LEMMA AdvanceEffect ==
    ASSUME Types, SnapshotCurrent, NEW a \in Actors, pc[a] \in {"fire", "trigger"},
           NEW S, Advance(a, S)
    PROVE  /\ Types' /\ OthersUntouched(a) /\ OnlyRow(cur[a])
           /\ pc'[a] \in {"idle", "submit"}
           /\ fired' \subseteq fired \cup {cur[a]}
           /\ live' = live /\ scopes' = scopes /\ created' = created
           /\ row'[cur[a]].type = row[cur[a]].type
           /\ row'[cur[a]].policy = row[cur[a]].policy
           /\ row[cur[a]].type = "one-time" =>
                 row'[cur[a]].enabled = FALSE /\ row'[cur[a]].next = "null"
           /\ row[cur[a]].type # "one-time" =>
                 /\ row'[cur[a]].enabled = row[cur[a]].enabled
                 /\ row'[cur[a]].next = "future"
<1>. DEFINE s == cur[a]
            f == AfterFire(snap[a])
            r == [row[s] EXCEPT !.enabled = f.enabled, !.next = f.next]
<1>1. /\ s \in live /\ s \in Schedules /\ s \in created
      /\ row[s] \in Row /\ snap[a] \in Row
      /\ snap[a].type = row[s].type /\ snap[a].enabled = row[s].enabled
  BY DEF Types, SnapshotCurrent, InTransaction
<1>2. f \in Row /\ f.enabled \in BOOLEAN /\ f.next \in {"null", "future", "due"}
  BY <1>1, Fired DEF Row
<1>3. r \in Row /\ r.enabled = f.enabled /\ r.next = f.next /\ r.type = row[s].type
      /\ r.policy = row[s].policy
  <2>. HIDE DEF f, s
  <2>. QED
    BY <1>1, <1>2 DEF Row
<1>4. row' \in [Schedules -> Row] /\ row'[s] = r /\ OnlyRow(s)
  <2>1. row \in [Schedules -> Row] /\ WriteRow(s, r)
    BY DEF Advance, Types
  <2>. QED
    BY <2>1, <1>1, <1>3, Written DEF OnlyRow
<1>5. /\ row'[s].type = row[s].type /\ row'[s].policy = row[s].policy
      /\ row[s].type = "one-time" => row'[s].enabled = FALSE /\ row'[s].next = "null"
      /\ row[s].type # "one-time" => /\ row'[s].enabled = row[s].enabled
                                     /\ row'[s].next = "future"
  BY <1>1, <1>3, <1>4, Fired
<1>6. /\ live' = live /\ scopes' = scopes /\ created' = created
      /\ fired' \subseteq fired \cup {s} /\ fired' \subseteq created
  BY <1>1 DEF Advance, Types
<1>7. /\ pc' \in [Actors -> Labels] /\ cur' \in [Actors -> Schedules \cup {"none"}]
      /\ snap' \in [Actors -> Row] /\ target' \in [Actors -> Scopes \cup {"none"}]
      /\ pc'[a] \in {"idle", "submit"} /\ OthersUntouched(a)
  <2>1. CASE S = {}
    BY <2>1, Returned DEF Advance, OthersUntouched
  <2>2. CASE S # {}
    BY <2>2 DEF Advance, OthersUntouched, Types, Goto, Labels
  <2>. QED
    BY <2>1, <2>2
<1>. QED
  BY <1>4, <1>5, <1>6, <1>7 DEF Types

(* ResumeTaskSchedule enables a row that is not consumed. *)
LEMMA ResumeEffect ==
    ASSUME Types, SnapshotCurrent, NEW c \in Callers, ResumeCommit(c)
    PROVE  /\ Types' /\ OthersUntouched(c) /\ OnlyRow(cur[c])
           /\ pc'[c] = "idle" /\ fired' = fired
           /\ live' = live /\ scopes' = scopes /\ created' = created
           /\ row'[cur[c]].type = row[cur[c]].type
           /\ \/ row' = row
              \/ /\ ~ Consumed(row[cur[c]]) /\ ~ row[cur[c]].enabled
                 /\ row'[cur[c]].next # "null" /\ row'[cur[c]].enabled = TRUE
                 /\ row'[cur[c]].next = IF row[cur[c]].type = "recurring" THEN "future"
                                        ELSE row[cur[c]].next
                 /\ row'[cur[c]].policy = row[cur[c]].policy
<1>. DEFINE s == cur[c]
            n == IF snap[c].type = "recurring" THEN "future" ELSE row[s].next
            r == [row[s] EXCEPT !.enabled = TRUE, !.next = n]
<1>1. c \in Actors /\ pc[c] = "resume"
  BY DEF Actors, ResumeCommit
<1>2. /\ s \in live /\ s \in Schedules
      /\ row[s] \in Row /\ snap[c] \in Row /\ snap[c].type = row[s].type
      /\ snap[c].enabled = row[s].enabled
      /\ snap[c].next = "null" <=> row[s].next = "null"
  BY <1>1 DEF Types, SnapshotCurrent, InTransaction
<1>3. n \in {"null", "future", "due"} /\ row[s].type \in {"one-time", "recurring"}
  BY <1>2 DEF Row
<1>4. r \in Row /\ r.next = n /\ r.type = row[s].type /\ r.enabled = TRUE
      /\ r.policy = row[s].policy
  <2>. HIDE DEF n, s
  <2>. QED
    BY <1>2, <1>3 DEF Row
<1>5. /\ row' \in [Schedules -> Row] /\ OnlyRow(s)
      /\ row'[s].type = row[s].type
      /\ \/ row' = row
         \/ /\ ~ Consumed(row[s]) /\ ~ row[s].enabled
            /\ row'[s].next # "null" /\ row'[s].enabled = TRUE
            /\ row'[s].next = IF row[s].type = "recurring" THEN "future" ELSE row[s].next
            /\ row'[s].policy = row[s].policy
  <2>1. CASE snap[c].enabled \/ Consumed(snap[c])
    BY <2>1 DEF ResumeCommit, Types, OnlyRow
  <2>2. CASE ~ (snap[c].enabled \/ Consumed(snap[c]))
    <3>1. row \in [Schedules -> Row] /\ WriteRow(s, r)
      BY <2>2 DEF ResumeCommit, Types
    <3>2. row' \in [Schedules -> Row] /\ row'[s] = r /\ OnlyRow(s)
      BY <3>1, <1>2, <1>4, Written DEF OnlyRow
    <3>3. ~ Consumed(row[s]) /\ ~ row[s].enabled /\ n # "null"
      BY <2>2, <1>2, <1>3 DEF Consumed
    <3>. QED
      BY <3>2, <3>3, <1>2, <1>4
  <2>. QED
    BY <2>1, <2>2
<1>6. /\ pc' \in [Actors -> Labels] /\ cur' \in [Actors -> Schedules \cup {"none"}]
      /\ snap' \in [Actors -> Row] /\ target' \in [Actors -> Scopes \cup {"none"}]
      /\ pc'[c] = "idle" /\ OthersUntouched(c)
  BY <1>1, Returned DEF ResumeCommit, OthersUntouched
<1>7. live' = live /\ scopes' = scopes /\ created' = created /\ fired' = fired
  BY DEF ResumeCommit, historyVars
<1>. QED
  BY <1>5, <1>6, <1>7 DEF Types

(* UpdateTaskSchedule gives a new spec and a next_run_at to a row that is  *)
(* not consumed.                                                           *)
LEMMA UpdateEffect ==
    ASSUME Types, SnapshotCurrent, NEW c \in Callers, UpdateCommit(c)
    PROVE  /\ Types' /\ OthersUntouched(c) /\ OnlyRow(cur[c])
           /\ pc'[c] = "idle" /\ fired' = fired \ {cur[c]}
           /\ live' = live /\ scopes' = scopes /\ created' = created
           /\ row'[cur[c]].next # "null"
           /\ row'[cur[c]].next \in FirstRun(row'[cur[c]].type)
           /\ row'[cur[c]].enabled = row[cur[c]].enabled
           /\ row'[cur[c]].policy \in Policies \cup {row[cur[c]].policy}
<1>. DEFINE s == cur[c]
<1>1. c \in Actors /\ pc[c] = "update"
  BY DEF Actors, UpdateCommit
<1>2. s \in Schedules /\ row[s] \in Row /\ snap[c].policy = row[s].policy
  BY <1>1 DEF Types, SnapshotCurrent, InTransaction
<1>3. PICK y \in {"one-time", "recurring"}, q \in Policies \cup {snap[c].policy} :
          \E n \in FirstRun(y) :
             WriteRow(s, [type |-> y, enabled |-> row[s].enabled, next |-> n, policy |-> q])
  BY DEF UpdateCommit
<1>4. PICK n \in FirstRun(y) :
          WriteRow(s, [type |-> y, enabled |-> row[s].enabled, next |-> n, policy |-> q])
  BY <1>3
<1>5. n \in {"future", "due"} /\ q \in {"skip", "queue"} /\ row[s].enabled \in BOOLEAN
  BY <1>1, <1>2, ScheduleAssumption DEF FirstRun, Types, Row
<1>. DEFINE r == [type |-> y, enabled |-> row[s].enabled, next |-> n, policy |-> q]
<1>6. r \in Row /\ r.next = n /\ r.enabled = row[s].enabled /\ r.type = y /\ r.policy = q
  <2>. HIDE DEF s
  <2>. QED
    BY <1>2, <1>5 DEF Row
<1>7. row' \in [Schedules -> Row] /\ row'[s] = r /\ OnlyRow(s)
  <2>1. row \in [Schedules -> Row] /\ WriteRow(s, r)
    BY <1>4 DEF Types
  <2>. QED
    BY <2>1, <1>2, <1>6, Written DEF OnlyRow
<1>8. /\ pc' \in [Actors -> Labels] /\ cur' \in [Actors -> Schedules \cup {"none"}]
      /\ snap' \in [Actors -> Row] /\ target' \in [Actors -> Scopes \cup {"none"}]
      /\ pc'[c] = "idle" /\ OthersUntouched(c)
  BY <1>1, Returned DEF UpdateCommit, OthersUntouched
<1>9. live' = live /\ scopes' = scopes /\ created' = created /\ fired' = fired \ {s}
  BY DEF UpdateCommit
<1>. QED
  BY <1>2, <1>5, <1>6, <1>7, <1>8, <1>9 DEF Types

(* PauseTaskSchedule disables whatever the row has become. *)
LEMMA PauseEffect ==
    ASSUME Types, NEW c \in Callers, PauseSet(c)
    PROVE  /\ Types' /\ OthersUntouched(c) /\ OnlyRow(cur[c])
           /\ pc'[c] = "idle" /\ fired' = fired
           /\ live' = live /\ scopes' = scopes /\ created' = created
           /\ cur[c] \in live => /\ row'[cur[c]].enabled = FALSE
                                 /\ row'[cur[c]].type = row[cur[c]].type
                                 /\ row'[cur[c]].next = row[cur[c]].next
                                 /\ row'[cur[c]].policy = row[cur[c]].policy
           /\ cur[c] \notin live => row' = row
<1>. DEFINE s == cur[c]
            r == [row[s] EXCEPT !.enabled = FALSE]
<1>1. c \in Actors
  BY DEF Actors
<1>2. /\ row' \in [Schedules -> Row] /\ OnlyRow(s)
      /\ s \in live => /\ row'[s].enabled = FALSE /\ row'[s].type = row[s].type
                       /\ row'[s].next = row[s].next /\ row'[s].policy = row[s].policy
      /\ s \notin live => row' = row
  <2>1. CASE s \in live
    <3>1. s \in Schedules /\ row[s] \in Row /\ row \in [Schedules -> Row]
      BY <2>1 DEF Types
    <3>2. r \in Row /\ r.enabled = FALSE /\ r.type = row[s].type /\ r.next = row[s].next
          /\ r.policy = row[s].policy
      BY <3>1, SetEnabled
    <3>3. WriteRow(s, r)
      BY <2>1 DEF PauseSet
    <3>. QED
      BY <2>1, <3>1, <3>2, <3>3, Written DEF OnlyRow
  <2>2. CASE s \notin live
    BY <2>2 DEF PauseSet, Types, OnlyRow
  <2>. QED
    BY <2>1, <2>2
<1>3. /\ pc' \in [Actors -> Labels] /\ cur' \in [Actors -> Schedules \cup {"none"}]
      /\ snap' \in [Actors -> Row] /\ target' \in [Actors -> Scopes \cup {"none"}]
      /\ pc'[c] = "idle" /\ OthersUntouched(c)
  BY <1>1, Returned DEF PauseSet, OthersUntouched
<1>4. live' = live /\ scopes' = scopes /\ created' = created /\ fired' = fired
  BY DEF PauseSet, historyVars
<1>. QED
  BY <1>2, <1>3, <1>4 DEF Types

(* When an actor is in no transaction any more, and has not changed the    *)
(* rows that the others hold, their snapshots are current.                 *)
LEMMA TransactionEnds ==
    ASSUME Types, SnapshotCurrent, NEW a \in Actors, OthersUntouched(a),
           pc'[a] \notin InTransaction, live \subseteq live',
           \A b \in Actors \ {a} : pc[b] \in InTransaction => row'[cur[b]] = row[cur[b]]
    PROVE  SnapshotCurrent'
<1>. SUFFICES ASSUME NEW b \in Actors, pc'[b] \in InTransaction
              PROVE  /\ cur'[b] \in live'
                     /\ snap'[b].type = row'[cur'[b]].type
                     /\ snap'[b].enabled = row'[cur'[b]].enabled
                     /\ snap'[b].policy = row'[cur'[b]].policy
                     /\ snap'[b].next = "null" <=> row'[cur'[b]].next = "null"
                     /\ \A d \in Actors \ {b} : pc'[d] \in InTransaction => cur'[d] # cur'[b]
  BY DEF SnapshotCurrent, InTransaction
<1>1. b # a /\ pc[b] \in InTransaction /\ cur'[b] = cur[b] /\ snap'[b] = snap[b]
      /\ row'[cur[b]] = row[cur[b]]
  BY DEF OthersUntouched
<1>2. \A d \in Actors \ {b} : pc'[d] \in InTransaction => cur'[d] # cur'[b]
  BY <1>1 DEF OthersUntouched, SnapshotCurrent
<1>. QED
  BY <1>1, <1>2 DEF SnapshotCurrent

-----------------------------------------------------------------------------
(* Every step preserves the types. *)
LEMMA TypesStep ==
    ASSUME Types, SnapshotCurrent, [Next]_vars
    PROVE  Types'
<1>1. ASSUME NEW s \in Schedules, Create(s)
      PROVE  Types'
  BY <1>1, ScheduleAssumption, SMTT(30) DEF Create, WriteRow, FirstRun, Types, Row,
        NoRow, Labels, InTransaction, Actors, SnapshotCurrent, tableVars, actorVars,
        historyVars
<1>2. ASSUME NEW s \in Schedules, Tick(s)
      PROVE  Types'
  <2>1. row[s] \in Row /\ row \in [Schedules -> Row]
    BY DEF Types
  <2>2. row' \in [Schedules -> Row]
    BY <1>2, <2>1, SetNext, Written DEF Tick
  <2>. QED
    BY <1>2, <2>2 DEF Tick, Types, actorVars, historyVars
<1>3. ASSUME NEW t \in Tasks, Finish(t)
      PROVE  Types'
  BY <1>3 DEF Finish, Types, Row, NoRow, Labels, InTransaction, Actors,
        SnapshotCurrent, tableVars, actorVars, historyVars
<1>4. ASSUME NEW a \in Pollers, Poll(a)
      PROVE  Types'
  BY <1>4 DEF Poll, Types, Row, NoRow, Labels, InTransaction, Actors,
        SnapshotCurrent, tableVars, actorVars, historyVars
<1>5. ASSUME NEW a \in Pollers, FireLock(a)
      PROVE  Types'
  BY <1>5 DEF FireLock, Lock, Goto, Due, Free, Types, Row, NoRow, Labels,
        InTransaction, Actors, SnapshotCurrent, tableVars, actorVars, historyVars
<1>6. ASSUME NEW a \in Pollers, FireSkip(a)
      PROVE  Types'
  BY <1>6 DEF FireSkip, Types, Row, NoRow, Labels, InTransaction, Actors,
        SnapshotCurrent, tableVars, actorVars, historyVars
<1>7. ASSUME NEW a \in Pollers, FireCommit(a)
      PROVE  Types'
  BY <1>7, AdvanceEffect DEF FireCommit, Actors
<1>8. ASSUME NEW a \in Pollers, FireFails(a)
      PROVE  Types'
  BY <1>8 DEF FireFails, Return, Fault, Types, Row, NoRow, Labels, InTransaction,
        Actors, SnapshotCurrent, tableVars, actorVars, historyVars
<1>9. ASSUME NEW a \in Actors, NEW sc \in Scopes, SubmitRefused(a, sc)
      PROVE  Types'
  <2>1. CASE Return(a)
    BY <1>9, <2>1, Returned DEF SubmitRefused, Submitted, Types, tableVars
  <2>2. CASE ~ Return(a)
    BY <1>9, <2>2 DEF SubmitRefused, Submitted, Types, tableVars, Goto, Labels
  <2>. QED
    BY <2>1, <2>2
<1>10. ASSUME NEW a \in Actors, NEW sc \in Scopes, NEW t \in Tasks, SubmitTask(a, sc, t)
      PROVE  Types'
  <2>1. CASE Return(a)
    BY <1>10, <2>1, Returned DEF SubmitTask, Submitted, Types, tableVars
  <2>2. CASE ~ Return(a)
    BY <1>10, <2>2 DEF SubmitTask, Submitted, Types, tableVars, Goto, Labels
  <2>. QED
    BY <2>1, <2>2
<1>11. ASSUME NEW a \in Actors, Record(a)
      PROVE  Types'
  BY <1>11 DEF Record, Return, Types, Row, NoRow, Labels, InTransaction, Actors,
        SnapshotCurrent, tableVars, actorVars, historyVars
<1>12. ASSUME NEW a \in Actors, RecordFails(a)
      PROVE  Types'
  BY <1>12 DEF RecordFails, Return, Fault, Types, Row, NoRow, Labels, InTransaction,
        Actors, SnapshotCurrent, tableVars, actorVars, historyVars
<1>13. ASSUME NEW a \in Actors, Crash(a)
      PROVE  Types'
  BY <1>13 DEF Crash, Return, Fault, Types, Row, NoRow, Labels, InTransaction,
        Actors, SnapshotCurrent, tableVars, actorVars, historyVars
<1>14. ASSUME NEW a \in Callers, NEW s \in Schedules, TriggerLock(a, s)
      PROVE  Types'
  BY <1>14 DEF TriggerLock, Lock, Goto, Call, Free, Types, Row, NoRow, Labels,
        InTransaction, Actors, SnapshotCurrent, tableVars, actorVars, historyVars
<1>15. ASSUME NEW a \in Callers, NEW s \in Schedules, ResumeLock(a, s)
      PROVE  Types'
  BY <1>15 DEF ResumeLock, Lock, Goto, Call, Free, Types, Row, NoRow, Labels,
        InTransaction, Actors, SnapshotCurrent, tableVars, actorVars, historyVars
<1>16. ASSUME NEW a \in Callers, NEW s \in Schedules, UpdateLock(a, s)
      PROVE  Types'
  BY <1>16 DEF UpdateLock, Lock, Goto, Call, Free, Types, Row, NoRow, Labels,
        InTransaction, Actors, SnapshotCurrent, tableVars, actorVars, historyVars
<1>17. ASSUME NEW a \in Callers, NEW s \in Schedules, RescopeLock(a, s)
      PROVE  Types'
  BY <1>17 DEF RescopeLock, Lock, Goto, Call, Free, Types, Row, NoRow, Labels,
        InTransaction, Actors, SnapshotCurrent, tableVars, actorVars, historyVars
<1>18. ASSUME NEW a \in Callers, NEW s \in Schedules, PauseGet(a, s)
      PROVE  Types'
  BY <1>18 DEF PauseGet, Goto, Call, Types, Row, NoRow, Labels, InTransaction,
        Actors, SnapshotCurrent, tableVars, actorVars, historyVars
<1>19. ASSUME NEW a \in Callers, NEW s \in Schedules, UpdatePolicy(a, s)
      PROVE  Types'
  BY <1>19, ScheduleAssumption, SMTT(30) DEF UpdatePolicy, WriteRow, Call, Free,
        Types, Row, NoRow, Labels, InTransaction, Actors, SnapshotCurrent, tableVars,
        actorVars, historyVars
<1>20. ASSUME NEW a \in Callers, NEW s \in Schedules, Delete(a, s)
      PROVE  Types'
  BY <1>20 DEF Delete, WriteRow, Call, Free, Types, Row, NoRow, Labels,
        InTransaction, Actors, SnapshotCurrent, tableVars, actorVars, historyVars
<1>21. ASSUME NEW a \in Callers, NEW sc \in Scopes, RemoveGet(a, sc)
      PROVE  Types'
  BY <1>21, ScheduleAssumption, SMTT(30) DEF RemoveGet, Goto, Call, Types, Row,
        NoRow, Labels, InTransaction, Actors, SnapshotCurrent, tableVars, actorVars,
        historyVars
<1>22. ASSUME NEW a \in Callers, TriggerCommit(a)
      PROVE  Types'
  BY <1>22, AdvanceEffect DEF TriggerCommit, Actors
<1>23. ASSUME NEW a \in Callers, TriggerRefuse(a)
      PROVE  Types'
  BY <1>23 DEF TriggerRefuse, Return, Types, Row, NoRow, Labels, InTransaction,
        Actors, SnapshotCurrent, tableVars, actorVars, historyVars
<1>24. ASSUME NEW a \in Callers, ResumeCommit(a)
      PROVE  Types'
  BY <1>24, ResumeEffect
<1>25. ASSUME NEW a \in Callers, UpdateCommit(a)
      PROVE  Types'
  BY <1>25, UpdateEffect
<1>26. ASSUME NEW a \in Callers, UpdateRefuse(a)
      PROVE  Types'
  BY <1>26 DEF UpdateRefuse, Return, Types, Row, NoRow, Labels, InTransaction,
        Actors, SnapshotCurrent, tableVars, actorVars, historyVars
<1>27. ASSUME NEW a \in Callers, RescopeCommit(a)
      PROVE  Types'
  BY <1>27 DEF RescopeCommit, Return, Types, Row, NoRow, Labels, InTransaction,
        Actors, SnapshotCurrent, tableVars, actorVars, historyVars
<1>28. ASSUME NEW a \in Callers, PauseSet(a)
      PROVE  Types'
  BY <1>28, PauseEffect
<1>29. ASSUME NEW a \in Callers, RemoveLock(a)
      PROVE  Types'
  <2>1. CASE Return(a)
    BY <1>29, <2>1, Returned DEF RemoveLock, Types, tableVars, historyVars, Actors
  <2>2. CASE Lock(a, cur[a], "removing") /\ ListScopes(a, cur[a]) /\ UNCHANGED target
    BY <1>29, <2>2 DEF RemoveLock, Lock, Goto, Types, tableVars, historyVars, Actors,
        Labels, InTransaction
  <2>. QED
    BY <1>29, <2>1, <2>2 DEF RemoveLock
<1>30. ASSUME NEW a \in Callers, RemoveCommit(a)
      PROVE  Types'
  BY <1>30 DEF RemoveCommit, DeleteScopes, Return, Types, Row, NoRow, Labels,
        InTransaction, Actors, SnapshotCurrent, tableVars, actorVars, historyVars
<1>31. ASSUME NEW a \in Callers, CallFails(a)
      PROVE  Types'
  BY <1>31 DEF CallFails, Return, Fault, Types, Row, NoRow, Labels, InTransaction,
        Actors, SnapshotCurrent, tableVars, actorVars, historyVars
<1>32. CASE UNCHANGED vars
  BY <1>32 DEF vars, Types, Row, NoRow, Labels, InTransaction, Actors,
        SnapshotCurrent, tableVars, actorVars, historyVars
<1>33. ASSUME NEW a \in Callers, RescopeRefuse(a)
      PROVE  Types'
  BY <1>33 DEF RescopeRefuse, Return, Types, Row, NoRow, Labels, InTransaction,
        Actors, SnapshotCurrent, tableVars, actorVars, historyVars
<1>34. ASSUME NEW r \in racks, PurgeRack(r)
      PROVE  Types'
  BY <1>34 DEF PurgeRack, DeleteScopes, Types, Row, NoRow, Labels, InTransaction, Actors,
        SnapshotCurrent, tableVars, actorVars, historyVars
<1>. QED
  BY <1>1, <1>2, <1>3, <1>4, <1>5, <1>6, <1>7, <1>8, <1>9, <1>10, <1>11, <1>12,
        <1>13, <1>14, <1>15, <1>16, <1>17, <1>18, <1>19, <1>20, <1>21, <1>22, <1>23,
        <1>24, <1>25, <1>26, <1>27, <1>28, <1>29, <1>30, <1>31, <1>32, <1>33, <1>34
     DEF Next, Dispatch, Begin, Proceed, Phases23, Actors

(* A transaction that holds a row keeps the others out of it. *)
LEMMA SnapshotStep ==
    ASSUME Types, Types', SnapshotCurrent, [Next]_vars
    PROVE  SnapshotCurrent'
<1>1. ASSUME NEW s \in Schedules, Create(s)
      PROVE  SnapshotCurrent'
  <2>1. s \notin live /\ live' = live \cup {s} /\ UNCHANGED <<pc, cur, snap>>
    BY <1>1 DEF Create, Types, actorVars
  <2>2. \A x \in Schedules \ {s} : row'[x] = row[x]
    BY <1>1 DEF Create, WriteRow, Types
  <2>3. \A b \in Actors : pc[b] \in InTransaction =>
            cur[b] \in live /\ row'[cur[b]] = row[cur[b]]
    BY <2>1, <2>2 DEF SnapshotCurrent, Types
  <2>. QED
    BY <2>1, <2>3 DEF SnapshotCurrent
<1>2. ASSUME NEW s \in Schedules, Tick(s)
      PROVE  SnapshotCurrent'
  BY <1>2 DEF Tick, WriteRow, SnapshotCurrent, Types, Row, NoRow, Labels,
        InTransaction, Actors, tableVars, actorVars, historyVars
<1>3. ASSUME NEW t \in Tasks, Finish(t)
      PROVE  SnapshotCurrent'
  BY <1>3 DEF Finish, SnapshotCurrent, Types, Row, NoRow, Labels, InTransaction,
        Actors, tableVars, actorVars, historyVars
<1>4. ASSUME NEW a \in Pollers, Poll(a)
      PROVE  SnapshotCurrent'
  BY <1>4 DEF Poll, SnapshotCurrent, Types, Row, NoRow, Labels, InTransaction,
        Actors, tableVars, actorVars, historyVars
<1>5. ASSUME NEW a \in Pollers, FireLock(a)
      PROVE  SnapshotCurrent'
  BY <1>5 DEF FireLock, Lock, Goto, Due, Free, SnapshotCurrent, Types, Row, NoRow,
        Labels, InTransaction, Actors, tableVars, actorVars, historyVars
<1>6. ASSUME NEW a \in Pollers, FireSkip(a)
      PROVE  SnapshotCurrent'
  BY <1>6 DEF FireSkip, SnapshotCurrent, Types, Row, NoRow, Labels, InTransaction,
        Actors, tableVars, actorVars, historyVars
<1>7. ASSUME NEW a \in Pollers, FireCommit(a)
      PROVE  SnapshotCurrent'
  <2>1. a \in Actors /\ pc[a] \in InTransaction
    BY <1>7 DEF FireCommit, Actors, InTransaction
  <2>2. /\ OthersUntouched(a) /\ OnlyRow(cur[a]) /\ live' = live
        /\ pc'[a] \in {"idle", "submit"}
    BY <1>7, <2>1, AdvanceEffect DEF FireCommit, InTransaction
  <2>3. \A b \in Actors \ {a} : pc[b] \in InTransaction => row'[cur[b]] = row[cur[b]]
    BY <2>1, <2>2 DEF OnlyRow, SnapshotCurrent, Types
  <2>. QED
    BY <2>1, <2>2, <2>3, TransactionEnds DEF InTransaction
<1>8. ASSUME NEW a \in Pollers, FireFails(a)
      PROVE  SnapshotCurrent'
  <2>1. a \in Actors /\ Return(a) /\ row' = row /\ live' = live
    BY <1>8 DEF FireFails, Actors, tableVars
  <2>2. pc'[a] = "idle" /\ OthersUntouched(a)
    BY <2>1, Returned DEF OthersUntouched
  <2>. QED
    BY <2>1, <2>2, TransactionEnds DEF InTransaction
<1>9. ASSUME NEW a \in Actors, NEW sc \in Scopes, SubmitRefused(a, sc)
      PROVE  SnapshotCurrent'
  <2>1. CASE Return(a)
    BY <1>9, <2>1, Returned DEF SubmitRefused, Submitted, SnapshotCurrent, Types,
        tableVars, InTransaction
  <2>2. CASE ~ Return(a)
    BY <1>9, <2>2 DEF SubmitRefused, Submitted, SnapshotCurrent, Types, tableVars,
        InTransaction, Goto
  <2>. QED
    BY <2>1, <2>2
<1>10. ASSUME NEW a \in Actors, NEW sc \in Scopes, NEW t \in Tasks, SubmitTask(a, sc, t)
      PROVE  SnapshotCurrent'
  <2>1. CASE Return(a)
    BY <1>10, <2>1, Returned DEF SubmitTask, Submitted, SnapshotCurrent, Types,
        tableVars, InTransaction
  <2>2. CASE ~ Return(a)
    BY <1>10, <2>2 DEF SubmitTask, Submitted, SnapshotCurrent, Types, tableVars,
        InTransaction, Goto
  <2>. QED
    BY <2>1, <2>2
<1>11. ASSUME NEW a \in Actors, Record(a)
      PROVE  SnapshotCurrent'
  <2>1. a \in Actors /\ Return(a) /\ row' = row /\ live' = live
    BY <1>11 DEF Record, Actors, tableVars
  <2>2. pc'[a] = "idle" /\ OthersUntouched(a)
    BY <2>1, Returned DEF OthersUntouched
  <2>. QED
    BY <2>1, <2>2, TransactionEnds DEF InTransaction
<1>12. ASSUME NEW a \in Actors, RecordFails(a)
      PROVE  SnapshotCurrent'
  <2>1. a \in Actors /\ Return(a) /\ row' = row /\ live' = live
    BY <1>12 DEF RecordFails, Actors, tableVars
  <2>2. pc'[a] = "idle" /\ OthersUntouched(a)
    BY <2>1, Returned DEF OthersUntouched
  <2>. QED
    BY <2>1, <2>2, TransactionEnds DEF InTransaction
<1>13. ASSUME NEW a \in Actors, Crash(a)
      PROVE  SnapshotCurrent'
  <2>1. a \in Actors /\ Return(a) /\ row' = row /\ live' = live
    BY <1>13 DEF Crash, Actors, tableVars
  <2>2. pc'[a] = "idle" /\ OthersUntouched(a)
    BY <2>1, Returned DEF OthersUntouched
  <2>. QED
    BY <2>1, <2>2, TransactionEnds DEF InTransaction
<1>14. ASSUME NEW a \in Callers, NEW s \in Schedules, TriggerLock(a, s)
      PROVE  SnapshotCurrent'
  BY <1>14 DEF TriggerLock, Lock, Goto, Call, Free, SnapshotCurrent, Types, Row,
        NoRow, Labels, InTransaction, Actors, tableVars, actorVars, historyVars
<1>15. ASSUME NEW a \in Callers, NEW s \in Schedules, ResumeLock(a, s)
      PROVE  SnapshotCurrent'
  BY <1>15 DEF ResumeLock, Lock, Goto, Call, Free, SnapshotCurrent, Types, Row,
        NoRow, Labels, InTransaction, Actors, tableVars, actorVars, historyVars
<1>16. ASSUME NEW a \in Callers, NEW s \in Schedules, UpdateLock(a, s)
      PROVE  SnapshotCurrent'
  BY <1>16 DEF UpdateLock, Lock, Goto, Call, Free, SnapshotCurrent, Types, Row,
        NoRow, Labels, InTransaction, Actors, tableVars, actorVars, historyVars
<1>17. ASSUME NEW a \in Callers, NEW s \in Schedules, RescopeLock(a, s)
      PROVE  SnapshotCurrent'
  BY <1>17 DEF RescopeLock, Lock, Goto, Call, Free, SnapshotCurrent, Types, Row,
        NoRow, Labels, InTransaction, Actors, tableVars, actorVars, historyVars
<1>18. ASSUME NEW a \in Callers, NEW s \in Schedules, PauseGet(a, s)
      PROVE  SnapshotCurrent'
  BY <1>18 DEF PauseGet, Goto, Call, SnapshotCurrent, Types, Row, NoRow, Labels,
        InTransaction, Actors, tableVars, actorVars, historyVars
<1>19. ASSUME NEW a \in Callers, NEW s \in Schedules, UpdatePolicy(a, s)
      PROVE  SnapshotCurrent'
  BY <1>19 DEF UpdatePolicy, WriteRow, Call, Free, SnapshotCurrent, Types, Row,
        NoRow, Labels, InTransaction, Actors, tableVars, actorVars, historyVars
<1>20. ASSUME NEW a \in Callers, NEW s \in Schedules, Delete(a, s)
      PROVE  SnapshotCurrent'
  <2>1. live' = live \ {s} /\ Free(s) /\ UNCHANGED <<pc, cur, snap>>
    BY <1>20 DEF Delete, actorVars
  <2>2. \A x \in Schedules \ {s} : row'[x] = row[x]
    BY <1>20 DEF Delete, WriteRow, Types
  <2>3. \A b \in Actors : pc[b] \in InTransaction =>
            cur[b] \in live' /\ row'[cur[b]] = row[cur[b]]
    BY <2>1, <2>2 DEF SnapshotCurrent, Types, Free
  <2>. QED
    BY <2>1, <2>3 DEF SnapshotCurrent
<1>21. ASSUME NEW a \in Callers, NEW sc \in Scopes, RemoveGet(a, sc)
      PROVE  SnapshotCurrent'
  BY <1>21 DEF RemoveGet, Goto, Call, SnapshotCurrent, Types, Row, NoRow, Labels,
        InTransaction, Actors, tableVars, actorVars, historyVars
<1>22. ASSUME NEW a \in Callers, TriggerCommit(a)
      PROVE  SnapshotCurrent'
  <2>1. a \in Actors /\ pc[a] \in InTransaction
    BY <1>22 DEF TriggerCommit, Actors, InTransaction
  <2>2. /\ OthersUntouched(a) /\ OnlyRow(cur[a]) /\ live' = live
        /\ pc'[a] \in {"idle", "submit"}
    BY <1>22, <2>1, AdvanceEffect DEF TriggerCommit, InTransaction
  <2>3. \A b \in Actors \ {a} : pc[b] \in InTransaction => row'[cur[b]] = row[cur[b]]
    BY <2>1, <2>2 DEF OnlyRow, SnapshotCurrent, Types
  <2>. QED
    BY <2>1, <2>2, <2>3, TransactionEnds DEF InTransaction
<1>23. ASSUME NEW a \in Callers, TriggerRefuse(a)
      PROVE  SnapshotCurrent'
  <2>1. a \in Actors /\ Return(a) /\ row' = row /\ live' = live
    BY <1>23 DEF TriggerRefuse, Actors, tableVars
  <2>2. pc'[a] = "idle" /\ OthersUntouched(a)
    BY <2>1, Returned DEF OthersUntouched
  <2>. QED
    BY <2>1, <2>2, TransactionEnds DEF InTransaction
<1>24. ASSUME NEW a \in Callers, ResumeCommit(a)
      PROVE  SnapshotCurrent'
  <2>1. a \in Actors /\ pc[a] \in InTransaction
    BY <1>24 DEF ResumeCommit, Actors, InTransaction
  <2>2. /\ OthersUntouched(a) /\ OnlyRow(cur[a]) /\ live' = live
        /\ pc'[a] \in {"idle", "submit"}
    BY <1>24, <2>1, ResumeEffect DEF ResumeCommit, InTransaction
  <2>3. \A b \in Actors \ {a} : pc[b] \in InTransaction => row'[cur[b]] = row[cur[b]]
    BY <2>1, <2>2 DEF OnlyRow, SnapshotCurrent, Types
  <2>. QED
    BY <2>1, <2>2, <2>3, TransactionEnds DEF InTransaction
<1>25. ASSUME NEW a \in Callers, UpdateCommit(a)
      PROVE  SnapshotCurrent'
  <2>1. a \in Actors /\ pc[a] \in InTransaction
    BY <1>25 DEF UpdateCommit, Actors, InTransaction
  <2>2. /\ OthersUntouched(a) /\ OnlyRow(cur[a]) /\ live' = live
        /\ pc'[a] \in {"idle", "submit"}
    BY <1>25, <2>1, UpdateEffect DEF UpdateCommit, InTransaction
  <2>3. \A b \in Actors \ {a} : pc[b] \in InTransaction => row'[cur[b]] = row[cur[b]]
    BY <2>1, <2>2 DEF OnlyRow, SnapshotCurrent, Types
  <2>. QED
    BY <2>1, <2>2, <2>3, TransactionEnds DEF InTransaction
<1>26. ASSUME NEW a \in Callers, UpdateRefuse(a)
      PROVE  SnapshotCurrent'
  <2>1. a \in Actors /\ Return(a) /\ row' = row /\ live' = live
    BY <1>26 DEF UpdateRefuse, Actors, tableVars
  <2>2. pc'[a] = "idle" /\ OthersUntouched(a)
    BY <2>1, Returned DEF OthersUntouched
  <2>. QED
    BY <2>1, <2>2, TransactionEnds DEF InTransaction
<1>27. ASSUME NEW a \in Callers, RescopeCommit(a)
      PROVE  SnapshotCurrent'
  <2>1. a \in Actors /\ Return(a) /\ row' = row /\ live' = live
    BY <1>27 DEF RescopeCommit, Actors, tableVars
  <2>2. pc'[a] = "idle" /\ OthersUntouched(a)
    BY <2>1, Returned DEF OthersUntouched
  <2>. QED
    BY <2>1, <2>2, TransactionEnds DEF InTransaction
<1>28. ASSUME NEW a \in Callers, PauseSet(a)
      PROVE  SnapshotCurrent'
  <2>1. a \in Actors
    BY DEF Actors
  <2>2. OthersUntouched(a) /\ OnlyRow(cur[a]) /\ live' = live /\ pc'[a] = "idle"
    BY <1>28, PauseEffect
  <2>3. \A b \in Actors \ {a} : pc[b] \in InTransaction => row'[cur[b]] = row[cur[b]]
    BY <1>28, <2>1, <2>2 DEF PauseSet, Free, OnlyRow, SnapshotCurrent, Types
  <2>. QED
    BY <2>1, <2>2, <2>3, TransactionEnds DEF InTransaction
<1>29. ASSUME NEW a \in Callers, RemoveLock(a)
      PROVE  SnapshotCurrent'
  BY <1>29 DEF RemoveLock, Lock, Goto, Return, Free, SnapshotCurrent, Types, Row,
        NoRow, Labels, InTransaction, Actors, tableVars, actorVars, historyVars
<1>30. ASSUME NEW a \in Callers, RemoveCommit(a)
      PROVE  SnapshotCurrent'
  <2>1. a \in Actors /\ Return(a) /\ row' = row /\ live' = live
    BY <1>30 DEF RemoveCommit, Actors, tableVars
  <2>2. pc'[a] = "idle" /\ OthersUntouched(a)
    BY <2>1, Returned DEF OthersUntouched
  <2>. QED
    BY <2>1, <2>2, TransactionEnds DEF InTransaction
<1>31. ASSUME NEW a \in Callers, CallFails(a)
      PROVE  SnapshotCurrent'
  <2>1. a \in Actors /\ Return(a) /\ row' = row /\ live' = live
    BY <1>31 DEF CallFails, Actors, tableVars
  <2>2. pc'[a] = "idle" /\ OthersUntouched(a)
    BY <2>1, Returned DEF OthersUntouched
  <2>. QED
    BY <2>1, <2>2, TransactionEnds DEF InTransaction
<1>32. CASE UNCHANGED vars
  BY <1>32 DEF vars, SnapshotCurrent, Types, Row, NoRow, Labels, InTransaction,
        Actors, tableVars, actorVars, historyVars
<1>33. ASSUME NEW a \in Callers, RescopeRefuse(a)
      PROVE  SnapshotCurrent'
  <2>1. a \in Actors /\ Return(a) /\ row' = row /\ live' = live
    BY <1>33 DEF RescopeRefuse, Actors, tableVars
  <2>2. pc'[a] = "idle" /\ OthersUntouched(a)
    BY <2>1, Returned DEF OthersUntouched
  <2>. QED
    BY <2>1, <2>2, TransactionEnds DEF InTransaction
<1>34. ASSUME NEW r \in racks, PurgeRack(r)
      PROVE  SnapshotCurrent'
  BY <1>34 DEF PurgeRack, DeleteScopes, SnapshotCurrent, Types, Row, NoRow, Labels,
        InTransaction,
        Actors, tableVars, actorVars, historyVars
<1>. QED
  BY <1>1, <1>2, <1>3, <1>4, <1>5, <1>6, <1>7, <1>8, <1>9, <1>10, <1>11, <1>12,
        <1>13, <1>14, <1>15, <1>16, <1>17, <1>18, <1>19, <1>20, <1>21, <1>22, <1>23,
        <1>24, <1>25, <1>26, <1>27, <1>28, <1>29, <1>30, <1>31, <1>32, <1>33, <1>34
     DEF Next, Dispatch, Begin, Proceed, Phases23, Actors

(* No step enables a row without a next_run_at. *)
LEMMA EnabledStep ==
    ASSUME Types, Types', SnapshotCurrent, EnabledHasNextRun, [Next]_vars
    PROVE  EnabledHasNextRun'
<1>1. ASSUME NEW s \in Schedules, Create(s)
      PROVE  EnabledHasNextRun'
  BY <1>1 DEF Create, WriteRow, FirstRun, EnabledHasNextRun, Types, Row, NoRow,
        tableVars, actorVars, historyVars
<1>2. ASSUME NEW s \in Schedules, Tick(s)
      PROVE  EnabledHasNextRun'
  BY <1>2 DEF Tick, WriteRow, EnabledHasNextRun, Types, Row, NoRow, tableVars,
        actorVars, historyVars
<1>3. ASSUME NEW t \in Tasks, Finish(t)
      PROVE  EnabledHasNextRun'
  BY <1>3 DEF Finish, EnabledHasNextRun, Types, Row, NoRow, tableVars, actorVars,
        historyVars
<1>4. ASSUME NEW a \in Pollers, Poll(a)
      PROVE  EnabledHasNextRun'
  BY <1>4 DEF Poll, EnabledHasNextRun, Types, Row, NoRow, tableVars, actorVars,
        historyVars
<1>5. ASSUME NEW a \in Pollers, FireLock(a)
      PROVE  EnabledHasNextRun'
  BY <1>5 DEF FireLock, Lock, Goto, Due, Free, EnabledHasNextRun, Types, Row, NoRow,
        tableVars, actorVars, historyVars
<1>6. ASSUME NEW a \in Pollers, FireSkip(a)
      PROVE  EnabledHasNextRun'
  BY <1>6 DEF FireSkip, EnabledHasNextRun, Types, Row, NoRow, tableVars, actorVars,
        historyVars
<1>7. ASSUME NEW a \in Pollers, FireCommit(a)
      PROVE  EnabledHasNextRun'
  <2>1. a \in Actors /\ pc[a] \in {"fire", "trigger"}
    BY <1>7 DEF FireCommit, Actors, InTransaction
  <2>2. /\ OnlyRow(cur[a]) /\ live' = live /\ fired' \subseteq fired \cup {cur[a]}
        /\ row'[cur[a]].type = row[cur[a]].type
        /\ row[cur[a]].type = "one-time" =>
              row'[cur[a]].enabled = FALSE /\ row'[cur[a]].next = "null"
        /\ row[cur[a]].type # "one-time" => row'[cur[a]].next = "future"
    BY <1>7, <2>1, AdvanceEffect DEF FireCommit
  <2>3. \A x \in live : x # cur[a] => row'[x] = row[x]
    BY <2>2 DEF OnlyRow, Types
  <2>. QED
    BY <2>2, <2>3 DEF EnabledHasNextRun
<1>8. ASSUME NEW a \in Pollers, FireFails(a)
      PROVE  EnabledHasNextRun'
  BY <1>8 DEF FireFails, Return, Fault, EnabledHasNextRun, Types, Row, NoRow,
        tableVars, actorVars, historyVars
<1>9. ASSUME NEW a \in Actors, NEW sc \in Scopes, SubmitRefused(a, sc)
      PROVE  EnabledHasNextRun'
  BY <1>9 DEF SubmitRefused, Submitted, Return, Goto, EnabledHasNextRun, Types, Row,
        NoRow, tableVars, actorVars, historyVars
<1>10. ASSUME NEW a \in Actors, NEW sc \in Scopes, NEW t \in Tasks, SubmitTask(a, sc, t)
      PROVE  EnabledHasNextRun'
  BY <1>10 DEF SubmitTask, Submitted, Return, Goto, EnabledHasNextRun, Types, Row,
        NoRow, tableVars, actorVars, historyVars
<1>11. ASSUME NEW a \in Actors, Record(a)
      PROVE  EnabledHasNextRun'
  BY <1>11 DEF Record, Return, EnabledHasNextRun, Types, Row, NoRow, tableVars,
        actorVars, historyVars
<1>12. ASSUME NEW a \in Actors, RecordFails(a)
      PROVE  EnabledHasNextRun'
  BY <1>12 DEF RecordFails, Return, Fault, EnabledHasNextRun, Types, Row, NoRow,
        tableVars, actorVars, historyVars
<1>13. ASSUME NEW a \in Actors, Crash(a)
      PROVE  EnabledHasNextRun'
  BY <1>13 DEF Crash, Return, Fault, EnabledHasNextRun, Types, Row, NoRow, tableVars,
        actorVars, historyVars
<1>14. ASSUME NEW a \in Callers, NEW s \in Schedules, TriggerLock(a, s)
      PROVE  EnabledHasNextRun'
  BY <1>14 DEF TriggerLock, Lock, Goto, Call, Free, EnabledHasNextRun, Types, Row,
        NoRow, tableVars, actorVars, historyVars
<1>15. ASSUME NEW a \in Callers, NEW s \in Schedules, ResumeLock(a, s)
      PROVE  EnabledHasNextRun'
  BY <1>15 DEF ResumeLock, Lock, Goto, Call, Free, EnabledHasNextRun, Types, Row,
        NoRow, tableVars, actorVars, historyVars
<1>16. ASSUME NEW a \in Callers, NEW s \in Schedules, UpdateLock(a, s)
      PROVE  EnabledHasNextRun'
  BY <1>16 DEF UpdateLock, Lock, Goto, Call, Free, EnabledHasNextRun, Types, Row,
        NoRow, tableVars, actorVars, historyVars
<1>17. ASSUME NEW a \in Callers, NEW s \in Schedules, RescopeLock(a, s)
      PROVE  EnabledHasNextRun'
  BY <1>17 DEF RescopeLock, Lock, Goto, Call, Free, EnabledHasNextRun, Types, Row,
        NoRow, tableVars, actorVars, historyVars
<1>18. ASSUME NEW a \in Callers, NEW s \in Schedules, PauseGet(a, s)
      PROVE  EnabledHasNextRun'
  BY <1>18 DEF PauseGet, Goto, Call, EnabledHasNextRun, Types, Row, NoRow, tableVars,
        actorVars, historyVars
<1>19. ASSUME NEW a \in Callers, NEW s \in Schedules, UpdatePolicy(a, s)
      PROVE  EnabledHasNextRun'
  BY <1>19 DEF UpdatePolicy, WriteRow, Call, Free, EnabledHasNextRun, Types, Row,
        NoRow, tableVars, actorVars, historyVars
<1>20. ASSUME NEW a \in Callers, NEW s \in Schedules, Delete(a, s)
      PROVE  EnabledHasNextRun'
  BY <1>20 DEF Delete, WriteRow, Call, Free, EnabledHasNextRun, Types, Row, NoRow,
        tableVars, actorVars, historyVars
<1>21. ASSUME NEW a \in Callers, NEW sc \in Scopes, RemoveGet(a, sc)
      PROVE  EnabledHasNextRun'
  BY <1>21 DEF RemoveGet, Goto, Call, EnabledHasNextRun, Types, Row, NoRow,
        tableVars, actorVars, historyVars
<1>22. ASSUME NEW a \in Callers, TriggerCommit(a)
      PROVE  EnabledHasNextRun'
  <2>1. a \in Actors /\ pc[a] \in {"fire", "trigger"}
    BY <1>22 DEF TriggerCommit, Actors, InTransaction
  <2>2. /\ OnlyRow(cur[a]) /\ live' = live /\ fired' \subseteq fired \cup {cur[a]}
        /\ row'[cur[a]].type = row[cur[a]].type
        /\ row[cur[a]].type = "one-time" =>
              row'[cur[a]].enabled = FALSE /\ row'[cur[a]].next = "null"
        /\ row[cur[a]].type # "one-time" => row'[cur[a]].next = "future"
    BY <1>22, <2>1, AdvanceEffect DEF TriggerCommit
  <2>3. \A x \in live : x # cur[a] => row'[x] = row[x]
    BY <2>2 DEF OnlyRow, Types
  <2>. QED
    BY <2>2, <2>3 DEF EnabledHasNextRun
<1>23. ASSUME NEW a \in Callers, TriggerRefuse(a)
      PROVE  EnabledHasNextRun'
  BY <1>23 DEF TriggerRefuse, Return, EnabledHasNextRun, Types, Row, NoRow,
        tableVars, actorVars, historyVars
<1>24. ASSUME NEW a \in Callers, ResumeCommit(a)
      PROVE  EnabledHasNextRun'
  <2>1. a \in Actors /\ pc[a] \in InTransaction
    BY <1>24 DEF ResumeCommit, Actors, InTransaction
  <2>2. /\ OnlyRow(cur[a]) /\ live' = live /\ fired' = fired
        /\ row'[cur[a]].type = row[cur[a]].type
        /\ \/ row'[cur[a]] = row[cur[a]]
           \/ ~ Consumed(row[cur[a]]) /\ row'[cur[a]].next # "null"
    BY <1>24, <2>1, ResumeEffect DEF ResumeCommit
  <2>3. \A x \in live : x # cur[a] => row'[x] = row[x]
    BY <2>2 DEF OnlyRow, Types
  <2>. QED
    BY <2>2, <2>3 DEF EnabledHasNextRun
<1>25. ASSUME NEW a \in Callers, UpdateCommit(a)
      PROVE  EnabledHasNextRun'
  <2>1. a \in Actors /\ pc[a] \in InTransaction
    BY <1>25 DEF UpdateCommit, Actors, InTransaction
  <2>2. /\ OnlyRow(cur[a]) /\ live' = live /\ fired' = fired \ {cur[a]}
        /\ row'[cur[a]].next # "null"
    BY <1>25, <2>1, UpdateEffect DEF UpdateCommit
  <2>3. \A x \in live : x # cur[a] => row'[x] = row[x]
    BY <2>2 DEF OnlyRow, Types
  <2>. QED
    BY <2>2, <2>3 DEF EnabledHasNextRun
<1>26. ASSUME NEW a \in Callers, UpdateRefuse(a)
      PROVE  EnabledHasNextRun'
  BY <1>26 DEF UpdateRefuse, Return, EnabledHasNextRun, Types, Row, NoRow, tableVars,
        actorVars, historyVars
<1>27. ASSUME NEW a \in Callers, RescopeCommit(a)
      PROVE  EnabledHasNextRun'
  BY <1>27 DEF RescopeCommit, Return, EnabledHasNextRun, Types, Row, NoRow,
        tableVars, actorVars, historyVars
<1>28. ASSUME NEW a \in Callers, PauseSet(a)
      PROVE  EnabledHasNextRun'
  <2>1. /\ OnlyRow(cur[a]) /\ live' = live
        /\ cur[a] \in live => row'[cur[a]].enabled = FALSE
    BY <1>28, PauseEffect
  <2>. QED
    BY <2>1 DEF EnabledHasNextRun, OnlyRow, Types
<1>29. ASSUME NEW a \in Callers, RemoveLock(a)
      PROVE  EnabledHasNextRun'
  BY <1>29 DEF RemoveLock, Lock, Goto, Return, Free, EnabledHasNextRun, Types, Row,
        NoRow, tableVars, actorVars, historyVars
<1>30. ASSUME NEW a \in Callers, RemoveCommit(a)
      PROVE  EnabledHasNextRun'
  BY <1>30 DEF RemoveCommit, DeleteScopes, Return, EnabledHasNextRun, Types, Row,
        NoRow, tableVars, actorVars, historyVars
<1>31. ASSUME NEW a \in Callers, CallFails(a)
      PROVE  EnabledHasNextRun'
  BY <1>31 DEF CallFails, Return, Fault, EnabledHasNextRun, Types, Row, NoRow,
        tableVars, actorVars, historyVars
<1>32. CASE UNCHANGED vars
  BY <1>32 DEF vars, EnabledHasNextRun, Types, Row, NoRow, tableVars, actorVars,
        historyVars
<1>33. ASSUME NEW a \in Callers, RescopeRefuse(a)
      PROVE  EnabledHasNextRun'
  BY <1>33 DEF RescopeRefuse, Return, EnabledHasNextRun, Types, Row, NoRow,
        tableVars, actorVars, historyVars
<1>34. ASSUME NEW r \in racks, PurgeRack(r)
      PROVE  EnabledHasNextRun'
  BY <1>34 DEF PurgeRack, DeleteScopes, EnabledHasNextRun, Types, Row, NoRow, tableVars,
        actorVars,
        historyVars
<1>. QED
  BY <1>1, <1>2, <1>3, <1>4, <1>5, <1>6, <1>7, <1>8, <1>9, <1>10, <1>11, <1>12,
        <1>13, <1>14, <1>15, <1>16, <1>17, <1>18, <1>19, <1>20, <1>21, <1>22, <1>23,
        <1>24, <1>25, <1>26, <1>27, <1>28, <1>29, <1>30, <1>31, <1>32, <1>33, <1>34
     DEF Next, Dispatch, Begin, Proceed, Phases23, Actors

(* A one-time schedule that has fired is consumed. *)
FiredConsumed ==
    \A s \in live : (s \in fired /\ row[s].type = "one-time") => row[s].next = "null"

(* No step re-arms a consumed schedule. *)
LEMMA FiredStep ==
    ASSUME Types, Types', SnapshotCurrent, FiredConsumed, [Next]_vars
    PROVE  FiredConsumed'
<1>1. ASSUME NEW s \in Schedules, Create(s)
      PROVE  FiredConsumed'
  BY <1>1 DEF Create, WriteRow, FirstRun, FiredConsumed, Types, Row, NoRow,
        tableVars, actorVars, historyVars
<1>2. ASSUME NEW s \in Schedules, Tick(s)
      PROVE  FiredConsumed'
  BY <1>2 DEF Tick, WriteRow, FiredConsumed, Types, Row, NoRow, tableVars, actorVars,
        historyVars
<1>3. ASSUME NEW t \in Tasks, Finish(t)
      PROVE  FiredConsumed'
  BY <1>3 DEF Finish, FiredConsumed, Types, Row, NoRow, tableVars, actorVars,
        historyVars
<1>4. ASSUME NEW a \in Pollers, Poll(a)
      PROVE  FiredConsumed'
  BY <1>4 DEF Poll, FiredConsumed, Types, Row, NoRow, tableVars, actorVars, historyVars
<1>5. ASSUME NEW a \in Pollers, FireLock(a)
      PROVE  FiredConsumed'
  BY <1>5 DEF FireLock, Lock, Goto, Due, Free, FiredConsumed, Types, Row, NoRow,
        tableVars, actorVars, historyVars
<1>6. ASSUME NEW a \in Pollers, FireSkip(a)
      PROVE  FiredConsumed'
  BY <1>6 DEF FireSkip, FiredConsumed, Types, Row, NoRow, tableVars, actorVars,
        historyVars
<1>7. ASSUME NEW a \in Pollers, FireCommit(a)
      PROVE  FiredConsumed'
  <2>1. a \in Actors /\ pc[a] \in {"fire", "trigger"}
    BY <1>7 DEF FireCommit, Actors, InTransaction
  <2>2. /\ OnlyRow(cur[a]) /\ live' = live /\ fired' \subseteq fired \cup {cur[a]}
        /\ row'[cur[a]].type = row[cur[a]].type
        /\ row[cur[a]].type = "one-time" =>
              row'[cur[a]].enabled = FALSE /\ row'[cur[a]].next = "null"
        /\ row[cur[a]].type # "one-time" => row'[cur[a]].next = "future"
    BY <1>7, <2>1, AdvanceEffect DEF FireCommit
  <2>3. \A x \in live : x # cur[a] => row'[x] = row[x]
    BY <2>2 DEF OnlyRow, Types
  <2>. QED
    BY <2>2, <2>3 DEF FiredConsumed
<1>8. ASSUME NEW a \in Pollers, FireFails(a)
      PROVE  FiredConsumed'
  BY <1>8 DEF FireFails, Return, Fault, FiredConsumed, Types, Row, NoRow, tableVars,
        actorVars, historyVars
<1>9. ASSUME NEW a \in Actors, NEW sc \in Scopes, SubmitRefused(a, sc)
      PROVE  FiredConsumed'
  BY <1>9 DEF SubmitRefused, Submitted, Return, Goto, FiredConsumed, Types, Row,
        NoRow, tableVars, actorVars, historyVars
<1>10. ASSUME NEW a \in Actors, NEW sc \in Scopes, NEW t \in Tasks, SubmitTask(a, sc, t)
      PROVE  FiredConsumed'
  BY <1>10 DEF SubmitTask, Submitted, Return, Goto, FiredConsumed, Types, Row, NoRow,
        tableVars, actorVars, historyVars
<1>11. ASSUME NEW a \in Actors, Record(a)
      PROVE  FiredConsumed'
  BY <1>11 DEF Record, Return, FiredConsumed, Types, Row, NoRow, tableVars,
        actorVars, historyVars
<1>12. ASSUME NEW a \in Actors, RecordFails(a)
      PROVE  FiredConsumed'
  BY <1>12 DEF RecordFails, Return, Fault, FiredConsumed, Types, Row, NoRow,
        tableVars, actorVars, historyVars
<1>13. ASSUME NEW a \in Actors, Crash(a)
      PROVE  FiredConsumed'
  BY <1>13 DEF Crash, Return, Fault, FiredConsumed, Types, Row, NoRow, tableVars,
        actorVars, historyVars
<1>14. ASSUME NEW a \in Callers, NEW s \in Schedules, TriggerLock(a, s)
      PROVE  FiredConsumed'
  BY <1>14 DEF TriggerLock, Lock, Goto, Call, Free, FiredConsumed, Types, Row, NoRow,
        tableVars, actorVars, historyVars
<1>15. ASSUME NEW a \in Callers, NEW s \in Schedules, ResumeLock(a, s)
      PROVE  FiredConsumed'
  BY <1>15 DEF ResumeLock, Lock, Goto, Call, Free, FiredConsumed, Types, Row, NoRow,
        tableVars, actorVars, historyVars
<1>16. ASSUME NEW a \in Callers, NEW s \in Schedules, UpdateLock(a, s)
      PROVE  FiredConsumed'
  BY <1>16 DEF UpdateLock, Lock, Goto, Call, Free, FiredConsumed, Types, Row, NoRow,
        tableVars, actorVars, historyVars
<1>17. ASSUME NEW a \in Callers, NEW s \in Schedules, RescopeLock(a, s)
      PROVE  FiredConsumed'
  BY <1>17 DEF RescopeLock, Lock, Goto, Call, Free, FiredConsumed, Types, Row, NoRow,
        tableVars, actorVars, historyVars
<1>18. ASSUME NEW a \in Callers, NEW s \in Schedules, PauseGet(a, s)
      PROVE  FiredConsumed'
  BY <1>18 DEF PauseGet, Goto, Call, FiredConsumed, Types, Row, NoRow, tableVars,
        actorVars, historyVars
<1>19. ASSUME NEW a \in Callers, NEW s \in Schedules, UpdatePolicy(a, s)
      PROVE  FiredConsumed'
  BY <1>19 DEF UpdatePolicy, WriteRow, Call, Free, FiredConsumed, Types, Row, NoRow,
        tableVars, actorVars, historyVars
<1>20. ASSUME NEW a \in Callers, NEW s \in Schedules, Delete(a, s)
      PROVE  FiredConsumed'
  BY <1>20 DEF Delete, WriteRow, Call, Free, FiredConsumed, Types, Row, NoRow,
        tableVars, actorVars, historyVars
<1>21. ASSUME NEW a \in Callers, NEW sc \in Scopes, RemoveGet(a, sc)
      PROVE  FiredConsumed'
  BY <1>21 DEF RemoveGet, Goto, Call, FiredConsumed, Types, Row, NoRow, tableVars,
        actorVars, historyVars
<1>22. ASSUME NEW a \in Callers, TriggerCommit(a)
      PROVE  FiredConsumed'
  <2>1. a \in Actors /\ pc[a] \in {"fire", "trigger"}
    BY <1>22 DEF TriggerCommit, Actors, InTransaction
  <2>2. /\ OnlyRow(cur[a]) /\ live' = live /\ fired' \subseteq fired \cup {cur[a]}
        /\ row'[cur[a]].type = row[cur[a]].type
        /\ row[cur[a]].type = "one-time" =>
              row'[cur[a]].enabled = FALSE /\ row'[cur[a]].next = "null"
        /\ row[cur[a]].type # "one-time" => row'[cur[a]].next = "future"
    BY <1>22, <2>1, AdvanceEffect DEF TriggerCommit
  <2>3. \A x \in live : x # cur[a] => row'[x] = row[x]
    BY <2>2 DEF OnlyRow, Types
  <2>. QED
    BY <2>2, <2>3 DEF FiredConsumed
<1>23. ASSUME NEW a \in Callers, TriggerRefuse(a)
      PROVE  FiredConsumed'
  BY <1>23 DEF TriggerRefuse, Return, FiredConsumed, Types, Row, NoRow, tableVars,
        actorVars, historyVars
<1>24. ASSUME NEW a \in Callers, ResumeCommit(a)
      PROVE  FiredConsumed'
  <2>1. a \in Actors /\ pc[a] \in InTransaction
    BY <1>24 DEF ResumeCommit, Actors, InTransaction
  <2>2. /\ OnlyRow(cur[a]) /\ live' = live /\ fired' = fired
        /\ row'[cur[a]].type = row[cur[a]].type
        /\ \/ row'[cur[a]] = row[cur[a]]
           \/ ~ Consumed(row[cur[a]]) /\ row'[cur[a]].next # "null"
    BY <1>24, <2>1, ResumeEffect DEF ResumeCommit
  <2>3. \A x \in live : x # cur[a] => row'[x] = row[x]
    BY <2>2 DEF OnlyRow, Types
  <2>. QED
    BY <2>2, <2>3 DEF FiredConsumed, Consumed
<1>25. ASSUME NEW a \in Callers, UpdateCommit(a)
      PROVE  FiredConsumed'
  <2>1. a \in Actors /\ pc[a] \in InTransaction
    BY <1>25 DEF UpdateCommit, Actors, InTransaction
  <2>2. /\ OnlyRow(cur[a]) /\ live' = live /\ fired' = fired \ {cur[a]}
        /\ row'[cur[a]].next # "null"
    BY <1>25, <2>1, UpdateEffect DEF UpdateCommit
  <2>3. \A x \in live : x # cur[a] => row'[x] = row[x]
    BY <2>2 DEF OnlyRow, Types
  <2>. QED
    BY <2>2, <2>3 DEF FiredConsumed
<1>26. ASSUME NEW a \in Callers, UpdateRefuse(a)
      PROVE  FiredConsumed'
  BY <1>26 DEF UpdateRefuse, Return, FiredConsumed, Types, Row, NoRow, tableVars,
        actorVars, historyVars
<1>27. ASSUME NEW a \in Callers, RescopeCommit(a)
      PROVE  FiredConsumed'
  BY <1>27 DEF RescopeCommit, Return, FiredConsumed, Types, Row, NoRow, tableVars,
        actorVars, historyVars
<1>28. ASSUME NEW a \in Callers, PauseSet(a)
      PROVE  FiredConsumed'
  <2>1. /\ OnlyRow(cur[a]) /\ live' = live /\ fired' = fired
        /\ cur[a] \in live => /\ row'[cur[a]].type = row[cur[a]].type
                              /\ row'[cur[a]].next = row[cur[a]].next
    BY <1>28, PauseEffect
  <2>. QED
    BY <2>1 DEF FiredConsumed, OnlyRow, Types
<1>29. ASSUME NEW a \in Callers, RemoveLock(a)
      PROVE  FiredConsumed'
  BY <1>29 DEF RemoveLock, Lock, Goto, Return, Free, FiredConsumed, Types, Row,
        NoRow, tableVars, actorVars, historyVars
<1>30. ASSUME NEW a \in Callers, RemoveCommit(a)
      PROVE  FiredConsumed'
  BY <1>30 DEF RemoveCommit, DeleteScopes, Return, FiredConsumed, Types, Row, NoRow,
        tableVars, actorVars, historyVars
<1>31. ASSUME NEW a \in Callers, CallFails(a)
      PROVE  FiredConsumed'
  BY <1>31 DEF CallFails, Return, Fault, FiredConsumed, Types, Row, NoRow, tableVars,
        actorVars, historyVars
<1>32. CASE UNCHANGED vars
  BY <1>32 DEF vars, FiredConsumed, Types, Row, NoRow, tableVars, actorVars, historyVars
<1>33. ASSUME NEW a \in Callers, RescopeRefuse(a)
      PROVE  FiredConsumed'
  BY <1>33 DEF RescopeRefuse, Return, FiredConsumed, Types, Row, NoRow, tableVars,
        actorVars, historyVars
<1>34. ASSUME NEW r \in racks, PurgeRack(r)
      PROVE  FiredConsumed'
  BY <1>34 DEF PurgeRack, DeleteScopes, FiredConsumed, Types, Row, NoRow, tableVars,
        actorVars,
        historyVars
<1>. QED
  BY <1>1, <1>2, <1>3, <1>4, <1>5, <1>6, <1>7, <1>8, <1>9, <1>10, <1>11, <1>12,
        <1>13, <1>14, <1>15, <1>16, <1>17, <1>18, <1>19, <1>20, <1>21, <1>22, <1>23,
        <1>24, <1>25, <1>26, <1>27, <1>28, <1>29, <1>30, <1>31, <1>32, <1>33, <1>34
     DEF Next, Dispatch, Begin, Proceed, Phases23, Actors

(* The scope that a call is about to remove is one of the schedule it will *)
(* lock.                                                                   *)
TargetOwned ==
    \A a \in Actors : pc[a] \in {"remove", "removing"} =>
        target[a] \in Scopes /\ ScheduleOf[target[a]] = cur[a]

(* It stays so until the call has ended. *)
LEMMA TargetStep ==
    ASSUME Types, SnapshotCurrent, TargetOwned, [Next]_vars
    PROVE  TargetOwned'
<1>1. ASSUME NEW s \in Schedules, Create(s)
      PROVE  TargetOwned'
  BY <1>1 DEF Create, WriteRow, FirstRun, TargetOwned, Types, Actors, tableVars,
        actorVars, historyVars
<1>2. ASSUME NEW s \in Schedules, Tick(s)
      PROVE  TargetOwned'
  BY <1>2 DEF Tick, WriteRow, TargetOwned, Types, Actors, tableVars, actorVars,
        historyVars
<1>3. ASSUME NEW t \in Tasks, Finish(t)
      PROVE  TargetOwned'
  BY <1>3 DEF Finish, TargetOwned, Types, Actors, tableVars, actorVars, historyVars
<1>4. ASSUME NEW a \in Pollers, Poll(a)
      PROVE  TargetOwned'
  BY <1>4 DEF Poll, TargetOwned, Types, Actors, tableVars, actorVars, historyVars
<1>5. ASSUME NEW a \in Pollers, FireLock(a)
      PROVE  TargetOwned'
  BY <1>5 DEF FireLock, Lock, Goto, Due, Free, TargetOwned, Types, Actors, tableVars,
        actorVars, historyVars
<1>6. ASSUME NEW a \in Pollers, FireSkip(a)
      PROVE  TargetOwned'
  BY <1>6 DEF FireSkip, TargetOwned, Types, Actors, tableVars, actorVars, historyVars
<1>7. ASSUME NEW a \in Pollers, FireCommit(a)
      PROVE  TargetOwned'
  <2>1. a \in Actors /\ pc[a] \in {"fire", "trigger"}
    BY <1>7 DEF FireCommit, Actors
  <2>2. OthersUntouched(a) /\ pc'[a] \in {"idle", "submit"}
    BY <1>7, <2>1, AdvanceEffect DEF FireCommit
  <2>. QED
    BY <2>1, <2>2 DEF TargetOwned, OthersUntouched
<1>8. ASSUME NEW a \in Pollers, FireFails(a)
      PROVE  TargetOwned'
  <2>1. a \in Actors /\ Return(a)
    BY <1>8 DEF FireFails, Actors
  <2>. QED
    BY <2>1, Returned DEF TargetOwned
<1>9. ASSUME NEW a \in Actors, NEW sc \in Scopes, SubmitRefused(a, sc)
      PROVE  TargetOwned'
  <2>1. CASE Return(a)
    BY <1>9, <2>1, Returned DEF SubmitRefused, Submitted, TargetOwned, Types
  <2>2. CASE ~ Return(a)
    BY <1>9, <2>2 DEF SubmitRefused, Submitted, TargetOwned, Types, Goto
  <2>. QED
    BY <2>1, <2>2
<1>10. ASSUME NEW a \in Actors, NEW sc \in Scopes, NEW t \in Tasks, SubmitTask(a, sc, t)
      PROVE  TargetOwned'
  <2>1. CASE Return(a)
    BY <1>10, <2>1, Returned DEF SubmitTask, Submitted, TargetOwned, Types
  <2>2. CASE ~ Return(a)
    BY <1>10, <2>2 DEF SubmitTask, Submitted, TargetOwned, Types, Goto
  <2>. QED
    BY <2>1, <2>2
<1>11. ASSUME NEW a \in Actors, Record(a)
      PROVE  TargetOwned'
  <2>1. a \in Actors /\ Return(a)
    BY <1>11 DEF Record, Actors
  <2>. QED
    BY <2>1, Returned DEF TargetOwned
<1>12. ASSUME NEW a \in Actors, RecordFails(a)
      PROVE  TargetOwned'
  <2>1. a \in Actors /\ Return(a)
    BY <1>12 DEF RecordFails, Actors
  <2>. QED
    BY <2>1, Returned DEF TargetOwned
<1>13. ASSUME NEW a \in Actors, Crash(a)
      PROVE  TargetOwned'
  <2>1. a \in Actors /\ Return(a)
    BY <1>13 DEF Crash, Actors
  <2>. QED
    BY <2>1, Returned DEF TargetOwned
<1>14. ASSUME NEW a \in Callers, NEW s \in Schedules, TriggerLock(a, s)
      PROVE  TargetOwned'
  BY <1>14 DEF TriggerLock, Lock, Goto, Call, Free, TargetOwned, Types, Actors,
        tableVars, actorVars, historyVars
<1>15. ASSUME NEW a \in Callers, NEW s \in Schedules, ResumeLock(a, s)
      PROVE  TargetOwned'
  BY <1>15 DEF ResumeLock, Lock, Goto, Call, Free, TargetOwned, Types, Actors,
        tableVars, actorVars, historyVars
<1>16. ASSUME NEW a \in Callers, NEW s \in Schedules, UpdateLock(a, s)
      PROVE  TargetOwned'
  BY <1>16 DEF UpdateLock, Lock, Goto, Call, Free, TargetOwned, Types, Actors,
        tableVars, actorVars, historyVars
<1>17. ASSUME NEW a \in Callers, NEW s \in Schedules, RescopeLock(a, s)
      PROVE  TargetOwned'
  BY <1>17 DEF RescopeLock, Lock, Goto, Call, Free, TargetOwned, Types, Actors,
        tableVars, actorVars, historyVars
<1>18. ASSUME NEW a \in Callers, NEW s \in Schedules, PauseGet(a, s)
      PROVE  TargetOwned'
  BY <1>18 DEF PauseGet, Goto, Call, TargetOwned, Types, Actors, tableVars,
        actorVars, historyVars
<1>19. ASSUME NEW a \in Callers, NEW s \in Schedules, UpdatePolicy(a, s)
      PROVE  TargetOwned'
  BY <1>19 DEF UpdatePolicy, WriteRow, Call, Free, TargetOwned, Types, Actors,
        tableVars, actorVars, historyVars
<1>20. ASSUME NEW a \in Callers, NEW s \in Schedules, Delete(a, s)
      PROVE  TargetOwned'
  BY <1>20 DEF Delete, WriteRow, Call, Free, TargetOwned, Types, Actors, tableVars,
        actorVars, historyVars
<1>21. ASSUME NEW a \in Callers, NEW sc \in Scopes, RemoveGet(a, sc)
      PROVE  TargetOwned'
  BY <1>21 DEF RemoveGet, Goto, Call, TargetOwned, Types, Actors, tableVars,
        actorVars, historyVars
<1>22. ASSUME NEW a \in Callers, TriggerCommit(a)
      PROVE  TargetOwned'
  <2>1. a \in Actors /\ pc[a] \in {"fire", "trigger"}
    BY <1>22 DEF TriggerCommit, Actors
  <2>2. OthersUntouched(a) /\ pc'[a] \in {"idle", "submit"}
    BY <1>22, <2>1, AdvanceEffect DEF TriggerCommit
  <2>. QED
    BY <2>1, <2>2 DEF TargetOwned, OthersUntouched
<1>23. ASSUME NEW a \in Callers, TriggerRefuse(a)
      PROVE  TargetOwned'
  <2>1. a \in Actors /\ Return(a)
    BY <1>23 DEF TriggerRefuse, Actors
  <2>. QED
    BY <2>1, Returned DEF TargetOwned
<1>24. ASSUME NEW a \in Callers, ResumeCommit(a)
      PROVE  TargetOwned'
  <2>1. a \in Actors
    BY <1>24 DEF ResumeCommit, Actors
  <2>2. OthersUntouched(a) /\ pc'[a] \in {"idle", "submit"}
    BY <1>24, <2>1, ResumeEffect DEF ResumeCommit
  <2>. QED
    BY <2>1, <2>2 DEF TargetOwned, OthersUntouched
<1>25. ASSUME NEW a \in Callers, UpdateCommit(a)
      PROVE  TargetOwned'
  <2>1. a \in Actors
    BY <1>25 DEF UpdateCommit, Actors
  <2>2. OthersUntouched(a) /\ pc'[a] \in {"idle", "submit"}
    BY <1>25, <2>1, UpdateEffect DEF UpdateCommit
  <2>. QED
    BY <2>1, <2>2 DEF TargetOwned, OthersUntouched
<1>26. ASSUME NEW a \in Callers, UpdateRefuse(a)
      PROVE  TargetOwned'
  <2>1. a \in Actors /\ Return(a)
    BY <1>26 DEF UpdateRefuse, Actors
  <2>. QED
    BY <2>1, Returned DEF TargetOwned
<1>27. ASSUME NEW a \in Callers, RescopeCommit(a)
      PROVE  TargetOwned'
  <2>1. a \in Actors /\ Return(a)
    BY <1>27 DEF RescopeCommit, Actors
  <2>. QED
    BY <2>1, Returned DEF TargetOwned
<1>28. ASSUME NEW a \in Callers, PauseSet(a)
      PROVE  TargetOwned'
  <2>1. a \in Actors
    BY <1>28 DEF PauseSet, Actors
  <2>2. OthersUntouched(a) /\ pc'[a] \in {"idle", "submit"}
    BY <1>28, <2>1, PauseEffect DEF PauseSet
  <2>. QED
    BY <2>1, <2>2 DEF TargetOwned, OthersUntouched
<1>29. ASSUME NEW a \in Callers, RemoveLock(a)
      PROVE  TargetOwned'
  <2>1. CASE Return(a)
    BY <1>29, <2>1, Returned DEF TargetOwned, Actors
  <2>2. CASE Lock(a, cur[a], "removing") /\ ListScopes(a, cur[a]) /\ UNCHANGED target
    BY <1>29, <2>2 DEF RemoveLock, Lock, Goto, TargetOwned, Types, Actors
  <2>. QED
    BY <1>29, <2>1, <2>2 DEF RemoveLock
<1>30. ASSUME NEW a \in Callers, RemoveCommit(a)
      PROVE  TargetOwned'
  <2>1. a \in Actors /\ Return(a)
    BY <1>30 DEF RemoveCommit, Actors
  <2>. QED
    BY <2>1, Returned DEF TargetOwned
<1>31. ASSUME NEW a \in Callers, CallFails(a)
      PROVE  TargetOwned'
  <2>1. a \in Actors /\ Return(a)
    BY <1>31 DEF CallFails, Actors
  <2>. QED
    BY <2>1, Returned DEF TargetOwned
<1>32. CASE UNCHANGED vars
  BY <1>32 DEF vars, TargetOwned, Types, Actors, tableVars, actorVars, historyVars
<1>33. ASSUME NEW a \in Callers, RescopeRefuse(a)
      PROVE  TargetOwned'
  <2>1. a \in Actors /\ Return(a)
    BY <1>33 DEF RescopeRefuse, Actors
  <2>. QED
    BY <2>1, Returned DEF TargetOwned
<1>34. ASSUME NEW r \in racks, PurgeRack(r)
      PROVE  TargetOwned'
  BY <1>34 DEF PurgeRack, DeleteScopes, TargetOwned, Types, Actors, tableVars, actorVars,
        historyVars
<1>. QED
  BY <1>1, <1>2, <1>3, <1>4, <1>5, <1>6, <1>7, <1>8, <1>9, <1>10, <1>11, <1>12,
        <1>13, <1>14, <1>15, <1>16, <1>17, <1>18, <1>19, <1>20, <1>21, <1>22, <1>23,
        <1>24, <1>25, <1>26, <1>27, <1>28, <1>29, <1>30, <1>31, <1>32, <1>33, <1>34
     DEF Next, Dispatch, Begin, Proceed, Phases23, Actors

(* Only dispatchers fire without being asked, and only what is enabled;    *)
(* only RPCs trigger.                                                      *)
FireDue ==
    /\ \A a \in Actors : pc[a] = "fire" => snap[a].enabled
    /\ \A p \in Pollers : pc[p] # "trigger"

(* No step makes a dispatcher fire a disabled schedule. *)
LEMMA FireStep ==
    ASSUME Types, SnapshotCurrent, FireDue, [Next]_vars
    PROVE  FireDue'
<1>1. ASSUME NEW s \in Schedules, Create(s)
      PROVE  FireDue'
  BY <1>1 DEF Create, WriteRow, FirstRun, FireDue, Types, Actors, tableVars,
        actorVars, historyVars
<1>2. ASSUME NEW s \in Schedules, Tick(s)
      PROVE  FireDue'
  BY <1>2 DEF Tick, WriteRow, FireDue, Types, Actors, tableVars, actorVars, historyVars
<1>3. ASSUME NEW t \in Tasks, Finish(t)
      PROVE  FireDue'
  BY <1>3 DEF Finish, FireDue, Types, Actors, tableVars, actorVars, historyVars
<1>4. ASSUME NEW a \in Pollers, Poll(a)
      PROVE  FireDue'
  BY <1>4 DEF Poll, FireDue, Types, Actors, tableVars, actorVars, historyVars
<1>5. ASSUME NEW a \in Pollers, FireLock(a)
      PROVE  FireDue'
  BY <1>5 DEF FireLock, Lock, Goto, Due, Free, FireDue, Types, Actors, tableVars,
        actorVars, historyVars
<1>6. ASSUME NEW a \in Pollers, FireSkip(a)
      PROVE  FireDue'
  BY <1>6 DEF FireSkip, FireDue, Types, Actors, tableVars, actorVars, historyVars
<1>7. ASSUME NEW a \in Pollers, FireCommit(a)
      PROVE  FireDue'
  <2>1. a \in Actors /\ pc[a] \in {"fire", "trigger"}
    BY <1>7 DEF FireCommit, Actors
  <2>2. OthersUntouched(a) /\ pc'[a] \in {"idle", "submit"}
    BY <1>7, <2>1, AdvanceEffect DEF FireCommit
  <2>. QED
    BY <2>1, <2>2 DEF FireDue, OthersUntouched, Actors
<1>8. ASSUME NEW a \in Pollers, FireFails(a)
      PROVE  FireDue'
  <2>1. a \in Actors /\ Return(a)
    BY <1>8 DEF FireFails, Actors
  <2>. QED
    BY <2>1, Returned DEF FireDue, Actors
<1>9. ASSUME NEW a \in Actors, NEW sc \in Scopes, SubmitRefused(a, sc)
      PROVE  FireDue'
  <2>1. CASE Return(a)
    BY <1>9, <2>1, Returned DEF SubmitRefused, Submitted, FireDue, Types, Actors
  <2>2. CASE ~ Return(a)
    BY <1>9, <2>2 DEF SubmitRefused, Submitted, FireDue, Types, Actors, Goto
  <2>. QED
    BY <2>1, <2>2
<1>10. ASSUME NEW a \in Actors, NEW sc \in Scopes, NEW t \in Tasks, SubmitTask(a, sc, t)
      PROVE  FireDue'
  <2>1. CASE Return(a)
    BY <1>10, <2>1, Returned DEF SubmitTask, Submitted, FireDue, Types, Actors
  <2>2. CASE ~ Return(a)
    BY <1>10, <2>2 DEF SubmitTask, Submitted, FireDue, Types, Actors, Goto
  <2>. QED
    BY <2>1, <2>2
<1>11. ASSUME NEW a \in Actors, Record(a)
      PROVE  FireDue'
  <2>1. a \in Actors /\ Return(a)
    BY <1>11 DEF Record, Actors
  <2>. QED
    BY <2>1, Returned DEF FireDue, Actors
<1>12. ASSUME NEW a \in Actors, RecordFails(a)
      PROVE  FireDue'
  <2>1. a \in Actors /\ Return(a)
    BY <1>12 DEF RecordFails, Actors
  <2>. QED
    BY <2>1, Returned DEF FireDue, Actors
<1>13. ASSUME NEW a \in Actors, Crash(a)
      PROVE  FireDue'
  <2>1. a \in Actors /\ Return(a)
    BY <1>13 DEF Crash, Actors
  <2>. QED
    BY <2>1, Returned DEF FireDue, Actors
<1>14. ASSUME NEW a \in Callers, NEW s \in Schedules, TriggerLock(a, s)
      PROVE  FireDue'
  BY <1>14, ScheduleAssumption DEF TriggerLock, Lock, Goto, Call, Free, FireDue,
        Types, Actors, tableVars, actorVars, historyVars
<1>15. ASSUME NEW a \in Callers, NEW s \in Schedules, ResumeLock(a, s)
      PROVE  FireDue'
  BY <1>15, ScheduleAssumption DEF ResumeLock, Lock, Goto, Call, Free, FireDue,
        Types, Actors, tableVars, actorVars, historyVars
<1>16. ASSUME NEW a \in Callers, NEW s \in Schedules, UpdateLock(a, s)
      PROVE  FireDue'
  BY <1>16, ScheduleAssumption DEF UpdateLock, Lock, Goto, Call, Free, FireDue,
        Types, Actors, tableVars, actorVars, historyVars
<1>17. ASSUME NEW a \in Callers, NEW s \in Schedules, RescopeLock(a, s)
      PROVE  FireDue'
  BY <1>17, ScheduleAssumption DEF RescopeLock, Lock, Goto, Call, Free, FireDue,
        Types, Actors, tableVars, actorVars, historyVars
<1>18. ASSUME NEW a \in Callers, NEW s \in Schedules, PauseGet(a, s)
      PROVE  FireDue'
  BY <1>18, ScheduleAssumption DEF PauseGet, Goto, Call, FireDue, Types, Actors,
        tableVars, actorVars, historyVars
<1>19. ASSUME NEW a \in Callers, NEW s \in Schedules, UpdatePolicy(a, s)
      PROVE  FireDue'
  BY <1>19 DEF UpdatePolicy, WriteRow, Call, Free, FireDue, Types, Actors, tableVars,
        actorVars, historyVars
<1>20. ASSUME NEW a \in Callers, NEW s \in Schedules, Delete(a, s)
      PROVE  FireDue'
  BY <1>20 DEF Delete, WriteRow, Call, Free, FireDue, Types, Actors, tableVars,
        actorVars, historyVars
<1>21. ASSUME NEW a \in Callers, NEW sc \in Scopes, RemoveGet(a, sc)
      PROVE  FireDue'
  BY <1>21, ScheduleAssumption DEF RemoveGet, Goto, Call, FireDue, Types, Actors,
        tableVars, actorVars, historyVars
<1>22. ASSUME NEW a \in Callers, TriggerCommit(a)
      PROVE  FireDue'
  <2>1. a \in Actors /\ pc[a] \in {"fire", "trigger"}
    BY <1>22 DEF TriggerCommit, Actors
  <2>2. OthersUntouched(a) /\ pc'[a] \in {"idle", "submit"}
    BY <1>22, <2>1, AdvanceEffect DEF TriggerCommit
  <2>. QED
    BY <2>1, <2>2 DEF FireDue, OthersUntouched, Actors
<1>23. ASSUME NEW a \in Callers, TriggerRefuse(a)
      PROVE  FireDue'
  <2>1. a \in Actors /\ Return(a)
    BY <1>23 DEF TriggerRefuse, Actors
  <2>. QED
    BY <2>1, Returned DEF FireDue, Actors
<1>24. ASSUME NEW a \in Callers, ResumeCommit(a)
      PROVE  FireDue'
  <2>1. a \in Actors
    BY <1>24 DEF ResumeCommit, Actors
  <2>2. OthersUntouched(a) /\ pc'[a] \in {"idle", "submit"}
    BY <1>24, <2>1, ResumeEffect DEF ResumeCommit
  <2>. QED
    BY <2>1, <2>2 DEF FireDue, OthersUntouched, Actors
<1>25. ASSUME NEW a \in Callers, UpdateCommit(a)
      PROVE  FireDue'
  <2>1. a \in Actors
    BY <1>25 DEF UpdateCommit, Actors
  <2>2. OthersUntouched(a) /\ pc'[a] \in {"idle", "submit"}
    BY <1>25, <2>1, UpdateEffect DEF UpdateCommit
  <2>. QED
    BY <2>1, <2>2 DEF FireDue, OthersUntouched, Actors
<1>26. ASSUME NEW a \in Callers, UpdateRefuse(a)
      PROVE  FireDue'
  <2>1. a \in Actors /\ Return(a)
    BY <1>26 DEF UpdateRefuse, Actors
  <2>. QED
    BY <2>1, Returned DEF FireDue, Actors
<1>27. ASSUME NEW a \in Callers, RescopeCommit(a)
      PROVE  FireDue'
  <2>1. a \in Actors /\ Return(a)
    BY <1>27 DEF RescopeCommit, Actors
  <2>. QED
    BY <2>1, Returned DEF FireDue, Actors
<1>28. ASSUME NEW a \in Callers, PauseSet(a)
      PROVE  FireDue'
  <2>1. a \in Actors
    BY <1>28 DEF PauseSet, Actors
  <2>2. OthersUntouched(a) /\ pc'[a] \in {"idle", "submit"}
    BY <1>28, <2>1, PauseEffect DEF PauseSet
  <2>. QED
    BY <2>1, <2>2 DEF FireDue, OthersUntouched, Actors
<1>29. ASSUME NEW a \in Callers, RemoveLock(a)
      PROVE  FireDue'
  <2>1. CASE Return(a)
    BY <1>29, <2>1, Returned DEF FireDue, Actors
  <2>2. CASE Lock(a, cur[a], "removing") /\ ListScopes(a, cur[a]) /\ UNCHANGED target
    BY <1>29, <2>2 DEF RemoveLock, Lock, Goto, FireDue, Types, Actors
  <2>. QED
    BY <1>29, <2>1, <2>2 DEF RemoveLock
<1>30. ASSUME NEW a \in Callers, RemoveCommit(a)
      PROVE  FireDue'
  <2>1. a \in Actors /\ Return(a)
    BY <1>30 DEF RemoveCommit, Actors
  <2>. QED
    BY <2>1, Returned DEF FireDue, Actors
<1>31. ASSUME NEW a \in Callers, CallFails(a)
      PROVE  FireDue'
  <2>1. a \in Actors /\ Return(a)
    BY <1>31 DEF CallFails, Actors
  <2>. QED
    BY <2>1, Returned DEF FireDue, Actors
<1>32. CASE UNCHANGED vars
  BY <1>32 DEF vars, FireDue, Types, Actors, tableVars, actorVars, historyVars
<1>33. ASSUME NEW a \in Callers, RescopeRefuse(a)
      PROVE  FireDue'
  <2>1. a \in Actors /\ Return(a)
    BY <1>33 DEF RescopeRefuse, Actors
  <2>. QED
    BY <2>1, Returned DEF FireDue, Actors
<1>34. ASSUME NEW r \in racks, PurgeRack(r)
      PROVE  FireDue'
  BY <1>34 DEF PurgeRack, DeleteScopes, FireDue, Types, Actors, tableVars, actorVars,
        historyVars
<1>. QED
  BY <1>1, <1>2, <1>3, <1>4, <1>5, <1>6, <1>7, <1>8, <1>9, <1>10, <1>11, <1>12,
        <1>13, <1>14, <1>15, <1>16, <1>17, <1>18, <1>19, <1>20, <1>21, <1>22, <1>23,
        <1>24, <1>25, <1>26, <1>27, <1>28, <1>29, <1>30, <1>31, <1>32, <1>33, <1>34
     DEF Next, Dispatch, Begin, Proceed, Phases23, Actors

-----------------------------------------------------------------------------
(* The inductive invariant.  EnabledHasNextRun needs SnapshotCurrent,      *)
(* since resume and update write what they decided on their snapshot;      *)
(* LastScopeStays needs TargetOwned, and AtMostOnce needs all but it.      *)
IInv ==
    /\ Types /\ SnapshotCurrent /\ EnabledHasNextRun /\ FiredConsumed
    /\ TargetOwned /\ FireDue

(* It holds when the service starts with an empty table. *)
LEMMA InitIInv == Init => IInv
<1>1. Init => Types
  BY DEF Init, Types, Row, NoRow, Labels
<1>2. Init => SnapshotCurrent /\ TargetOwned
  BY DEF Init, SnapshotCurrent, TargetOwned, InTransaction
<1>3. Init => EnabledHasNextRun /\ FiredConsumed
  BY DEF Init, EnabledHasNextRun, FiredConsumed
<1>4. Init => FireDue
  BY DEF Init, FireDue, Actors
<1>. QED
  BY <1>1, <1>2, <1>3, <1>4 DEF IInv

(* Every step keeps it. *)
LEMMA IInvStep ==
    ASSUME IInv, [Next]_vars
    PROVE  IInv'
<1>1. Types /\ SnapshotCurrent /\ EnabledHasNextRun /\ FiredConsumed
      /\ TargetOwned /\ FireDue
  BY DEF IInv
<1>2. Types'
  BY <1>1, TypesStep
<1>3. SnapshotCurrent'
  BY <1>1, <1>2, SnapshotStep
<1>4. EnabledHasNextRun'
  BY <1>1, <1>2, EnabledStep
<1>5. FiredConsumed'
  BY <1>1, <1>2, FiredStep
<1>6. TargetOwned'
  BY <1>1, TargetStep
<1>7. FireDue'
  BY <1>1, FireStep
<1>. QED
  BY <1>2, <1>3, <1>4, <1>5, <1>6, <1>7 DEF IInv

(* The invariant holds of every reachable state, whatever dispatchers and  *)
(* RPCs run at the same time and whichever of them fail.                   *)
THEOREM Invariance == Spec => []IInv
  BY InitIInv, IInvStep, PTL DEF Spec

(* LockForFire and LockForTrigger make a transaction's view of its row     *)
(* exclusive and current until it commits, for every mix of callers.       *)
THEOREM LocksProtect == Spec => []SnapshotCurrent
<1>1. IInv => SnapshotCurrent
  BY DEF IInv
<1>. QED
  BY <1>1, Invariance, PTL

(* The state that ResumeTaskSchedule reports as invalid, enabled without a *)
(* next_run_at, is unreachable.                                            *)
THEOREM EnabledIsArmed == Spec => []EnabledHasNextRun
<1>1. IInv => EnabledHasNextRun
  BY DEF IInv
<1>. QED
  BY <1>1, Invariance, PTL

(* A trigger that goes on to submit has found its schedule not consumed. *)
LEMMA TriggerChecks ==
    ASSUME IInv, Next, NEW a \in Actors, pc[a] = "trigger", pc'[a] = "submit"
    PROVE  snap[a].enabled \/ ~ Consumed(snap[a])
<1>1. ASSUME NEW s \in Schedules, Create(s)
      PROVE  snap[a].enabled \/ ~ Consumed(snap[a])
  BY <1>1 DEF Create, WriteRow, FirstRun, IInv, Types, Actors, tableVars, actorVars,
        historyVars
<1>2. ASSUME NEW s \in Schedules, Tick(s)
      PROVE  snap[a].enabled \/ ~ Consumed(snap[a])
  BY <1>2 DEF Tick, WriteRow, IInv, Types, Actors, tableVars, actorVars, historyVars
<1>3. ASSUME NEW t \in Tasks, Finish(t)
      PROVE  snap[a].enabled \/ ~ Consumed(snap[a])
  BY <1>3 DEF Finish, IInv, Types, Actors, tableVars, actorVars, historyVars
<1>4. ASSUME NEW x \in Pollers, Poll(x)
      PROVE  snap[a].enabled \/ ~ Consumed(snap[a])
  BY <1>4 DEF Poll, IInv, Types, Actors, tableVars, actorVars, historyVars
<1>5. ASSUME NEW x \in Pollers, FireLock(x)
      PROVE  snap[a].enabled \/ ~ Consumed(snap[a])
  BY <1>5 DEF FireLock, Lock, Goto, Due, Free, IInv, Types, Actors, tableVars,
        actorVars, historyVars
<1>6. ASSUME NEW x \in Pollers, FireSkip(x)
      PROVE  snap[a].enabled \/ ~ Consumed(snap[a])
  BY <1>6 DEF FireSkip, IInv, Types, Actors, tableVars, actorVars, historyVars
<1>7. ASSUME NEW x \in Pollers, FireCommit(x)
      PROVE  snap[a].enabled \/ ~ Consumed(snap[a])
  BY <1>7 DEF FireCommit, Advance, WriteRow, AfterFire, Return, Goto, IInv, Types,
        Actors, tableVars, actorVars, historyVars
<1>8. ASSUME NEW x \in Pollers, FireFails(x)
      PROVE  snap[a].enabled \/ ~ Consumed(snap[a])
  BY <1>8 DEF FireFails, Return, Fault, IInv, Types, Actors, tableVars, actorVars,
        historyVars
<1>9. ASSUME NEW x \in Actors, NEW sc \in Scopes, SubmitRefused(x, sc)
      PROVE  snap[a].enabled \/ ~ Consumed(snap[a])
  BY <1>9 DEF SubmitRefused, Submitted, Return, Goto, IInv, Types, Actors, tableVars,
        actorVars, historyVars
<1>10. ASSUME NEW x \in Actors, NEW sc \in Scopes, NEW t \in Tasks, SubmitTask(x, sc, t)
      PROVE  snap[a].enabled \/ ~ Consumed(snap[a])
  BY <1>10 DEF SubmitTask, Submitted, Return, Goto, IInv, Types, Actors, tableVars,
        actorVars, historyVars
<1>11. ASSUME NEW x \in Actors, Record(x)
      PROVE  snap[a].enabled \/ ~ Consumed(snap[a])
  BY <1>11 DEF Record, Return, IInv, Types, Actors, tableVars, actorVars, historyVars
<1>12. ASSUME NEW x \in Actors, RecordFails(x)
      PROVE  snap[a].enabled \/ ~ Consumed(snap[a])
  BY <1>12 DEF RecordFails, Return, Fault, IInv, Types, Actors, tableVars, actorVars,
        historyVars
<1>13. ASSUME NEW x \in Actors, Crash(x)
      PROVE  snap[a].enabled \/ ~ Consumed(snap[a])
  BY <1>13 DEF Crash, Return, Fault, IInv, Types, Actors, tableVars, actorVars,
        historyVars
<1>14. ASSUME NEW x \in Callers, NEW s \in Schedules, TriggerLock(x, s)
      PROVE  snap[a].enabled \/ ~ Consumed(snap[a])
  BY <1>14 DEF TriggerLock, Lock, Goto, Call, Free, IInv, Types, Actors, tableVars,
        actorVars, historyVars
<1>15. ASSUME NEW x \in Callers, NEW s \in Schedules, ResumeLock(x, s)
      PROVE  snap[a].enabled \/ ~ Consumed(snap[a])
  BY <1>15 DEF ResumeLock, Lock, Goto, Call, Free, IInv, Types, Actors, tableVars,
        actorVars, historyVars
<1>16. ASSUME NEW x \in Callers, NEW s \in Schedules, UpdateLock(x, s)
      PROVE  snap[a].enabled \/ ~ Consumed(snap[a])
  BY <1>16 DEF UpdateLock, Lock, Goto, Call, Free, IInv, Types, Actors, tableVars,
        actorVars, historyVars
<1>17. ASSUME NEW x \in Callers, NEW s \in Schedules, RescopeLock(x, s)
      PROVE  snap[a].enabled \/ ~ Consumed(snap[a])
  BY <1>17 DEF RescopeLock, Lock, Goto, Call, Free, IInv, Types, Actors, tableVars,
        actorVars, historyVars
<1>18. ASSUME NEW x \in Callers, NEW s \in Schedules, PauseGet(x, s)
      PROVE  snap[a].enabled \/ ~ Consumed(snap[a])
  BY <1>18 DEF PauseGet, Goto, Call, IInv, Types, Actors, tableVars, actorVars,
        historyVars
<1>19. ASSUME NEW x \in Callers, NEW s \in Schedules, UpdatePolicy(x, s)
      PROVE  snap[a].enabled \/ ~ Consumed(snap[a])
  BY <1>19 DEF UpdatePolicy, WriteRow, Call, Free, IInv, Types, Actors, tableVars,
        actorVars, historyVars
<1>20. ASSUME NEW x \in Callers, NEW s \in Schedules, Delete(x, s)
      PROVE  snap[a].enabled \/ ~ Consumed(snap[a])
  BY <1>20 DEF Delete, WriteRow, Call, Free, IInv, Types, Actors, tableVars,
        actorVars, historyVars
<1>21. ASSUME NEW x \in Callers, NEW sc \in Scopes, RemoveGet(x, sc)
      PROVE  snap[a].enabled \/ ~ Consumed(snap[a])
  BY <1>21 DEF RemoveGet, Goto, Call, IInv, Types, Actors, tableVars, actorVars,
        historyVars
<1>22. ASSUME NEW x \in Callers, TriggerCommit(x)
      PROVE  snap[a].enabled \/ ~ Consumed(snap[a])
  BY <1>22 DEF TriggerCommit, Advance, WriteRow, AfterFire, Return, Goto, Consumed,
        IInv, Types, Actors, tableVars, actorVars, historyVars
<1>23. ASSUME NEW x \in Callers, TriggerRefuse(x)
      PROVE  snap[a].enabled \/ ~ Consumed(snap[a])
  BY <1>23 DEF TriggerRefuse, Return, IInv, Types, Actors, tableVars, actorVars,
        historyVars
<1>24. ASSUME NEW x \in Callers, ResumeCommit(x)
      PROVE  snap[a].enabled \/ ~ Consumed(snap[a])
  BY <1>24 DEF ResumeCommit, WriteRow, Return, Consumed, IInv, Types, Actors,
        tableVars, actorVars, historyVars
<1>25. ASSUME NEW x \in Callers, UpdateCommit(x)
      PROVE  snap[a].enabled \/ ~ Consumed(snap[a])
  BY <1>25 DEF UpdateCommit, WriteRow, Return, FirstRun, Consumed, IInv, Types,
        Actors, tableVars, actorVars, historyVars
<1>26. ASSUME NEW x \in Callers, UpdateRefuse(x)
      PROVE  snap[a].enabled \/ ~ Consumed(snap[a])
  BY <1>26 DEF UpdateRefuse, Return, IInv, Types, Actors, tableVars, actorVars,
        historyVars
<1>27. ASSUME NEW x \in Callers, RescopeCommit(x)
      PROVE  snap[a].enabled \/ ~ Consumed(snap[a])
  BY <1>27 DEF RescopeCommit, Return, IInv, Types, Actors, tableVars, actorVars,
        historyVars
<1>28. ASSUME NEW x \in Callers, PauseSet(x)
      PROVE  snap[a].enabled \/ ~ Consumed(snap[a])
  BY <1>28 DEF PauseSet, WriteRow, Return, Free, IInv, Types, Actors, tableVars,
        actorVars, historyVars
<1>29. ASSUME NEW x \in Callers, RemoveLock(x)
      PROVE  snap[a].enabled \/ ~ Consumed(snap[a])
  BY <1>29 DEF RemoveLock, Lock, Goto, Return, Free, IInv, Types, Actors, tableVars,
        actorVars, historyVars
<1>30. ASSUME NEW x \in Callers, RemoveCommit(x)
      PROVE  snap[a].enabled \/ ~ Consumed(snap[a])
  BY <1>30 DEF RemoveCommit, DeleteScopes, Return, IInv, Types, Actors, tableVars,
        actorVars, historyVars
<1>31. ASSUME NEW x \in Callers, CallFails(x)
      PROVE  snap[a].enabled \/ ~ Consumed(snap[a])
  BY <1>31 DEF CallFails, Return, Fault, IInv, Types, Actors, tableVars, actorVars,
        historyVars
<1>32. ASSUME NEW x \in Callers, RescopeRefuse(x)
      PROVE  snap[a].enabled \/ ~ Consumed(snap[a])
  BY <1>32 DEF RescopeRefuse, Return, IInv, Types, Actors, tableVars, actorVars,
        historyVars
<1>33. ASSUME NEW r \in racks, PurgeRack(r)
      PROVE  snap[a].enabled \/ ~ Consumed(snap[a])
  BY <1>33 DEF PurgeRack, DeleteScopes, IInv, Types, Actors, tableVars, actorVars, historyVars
<1>. QED
  BY <1>1, <1>2, <1>3, <1>4, <1>5, <1>6, <1>7, <1>8, <1>9, <1>10, <1>11, <1>12,
        <1>13, <1>14, <1>15, <1>16, <1>17, <1>18, <1>19, <1>20, <1>21, <1>22, <1>23,
        <1>24, <1>25, <1>26, <1>27, <1>28, <1>29, <1>30, <1>31, <1>32, <1>33
     DEF Next, Dispatch, Begin, Proceed, Phases23, Actors

(* A one-time schedule fires at most once, for any number of dispatchers   *)
(* and triggers: the firing nulls next_run_at under the row lock, and both *)
(* FireCommit and TriggerCommit look at the row under it.                  *)
THEOREM FiresAtMostOnce == Spec => AtMostOnce
<1>1. IInv /\ [Next]_vars =>
        [\A a \in Actors : Fires(a) =>
            ~ (row[cur[a]].type = "one-time" /\ cur[a] \in fired)]_vars
  <2>. SUFFICES ASSUME IInv, Next, NEW a \in Actors, Fires(a),
                       row[cur[a]].type = "one-time", cur[a] \in fired
                PROVE  FALSE
    OBVIOUS
  <2>1. pc[a] \in {"fire", "trigger"} /\ pc'[a] = "submit"
    BY DEF Fires
  <2>2. /\ cur[a] \in live /\ snap[a].enabled = row[cur[a]].enabled
        /\ snap[a].type = row[cur[a]].type
        /\ snap[a].next = "null" <=> row[cur[a]].next = "null"
    BY <2>1 DEF IInv, SnapshotCurrent, InTransaction
  <2>3. row[cur[a]].next = "null"
    BY <2>2 DEF IInv, FiredConsumed
  <2>4. ~ snap[a].enabled
    BY <2>2, <2>3 DEF IInv, EnabledHasNextRun
  <2>5. CASE pc[a] = "fire"
    BY <2>4, <2>5 DEF IInv, FireDue
  <2>6. CASE pc[a] = "trigger"
    BY <2>1, <2>2, <2>3, <2>4, <2>6, TriggerChecks DEF Consumed
  <2>. QED
    BY <2>1, <2>5, <2>6
<1>. QED
  BY <1>1, Invariance, PTL DEF Spec, AtMostOnce

(* Only a resume that commits enables a schedule. *)
LEMMA OnlyResumeEnables ==
    ASSUME IInv, Next, NEW s \in live, s \in live', ~ row[s].enabled, row'[s].enabled
    PROVE  \E c \in Callers : pc[c] = "resume" /\ cur[c] = s /\ pc'[c] = "idle"
<1>1. ASSUME NEW z \in Schedules, Create(z)
      PROVE  \E c \in Callers : pc[c] = "resume" /\ cur[c] = s /\ pc'[c] = "idle"
  BY <1>1 DEF Create, WriteRow, FirstRun, IInv, Types, Row, tableVars, actorVars,
        historyVars
<1>2. ASSUME NEW z \in Schedules, Tick(z)
      PROVE  \E c \in Callers : pc[c] = "resume" /\ cur[c] = s /\ pc'[c] = "idle"
  <2>1. row[z] \in Row /\ row \in [Schedules -> Row]
    BY DEF IInv, Types
  <2>2. row'[z] = [row[z] EXCEPT !.next = "due"] /\ OnlyRow(z)
    <3>1. [row[z] EXCEPT !.next = "due"] \in Row
      BY <2>1, SetNext
    <3>2. WriteRow(z, [row[z] EXCEPT !.next = "due"])
      BY <1>2 DEF Tick
    <3>. QED
      BY <2>1, <3>1, <3>2, Written DEF OnlyRow
  <2>3. row'[z].enabled = row[z].enabled
    BY <2>1, <2>2, SetNext
  <2>. QED
    BY <2>2, <2>3 DEF OnlyRow, IInv, Types
<1>3. ASSUME NEW t \in Tasks, Finish(t)
      PROVE  \E c \in Callers : pc[c] = "resume" /\ cur[c] = s /\ pc'[c] = "idle"
  BY <1>3 DEF Finish, IInv, Types, Row, tableVars, actorVars, historyVars
<1>4. ASSUME NEW x \in Pollers, Poll(x)
      PROVE  \E c \in Callers : pc[c] = "resume" /\ cur[c] = s /\ pc'[c] = "idle"
  BY <1>4 DEF Poll, IInv, Types, Row, tableVars, actorVars, historyVars
<1>5. ASSUME NEW x \in Pollers, FireLock(x)
      PROVE  \E c \in Callers : pc[c] = "resume" /\ cur[c] = s /\ pc'[c] = "idle"
  BY <1>5 DEF FireLock, Lock, Goto, Due, Free, IInv, Types, Row, tableVars,
        actorVars, historyVars
<1>6. ASSUME NEW x \in Pollers, FireSkip(x)
      PROVE  \E c \in Callers : pc[c] = "resume" /\ cur[c] = s /\ pc'[c] = "idle"
  BY <1>6 DEF FireSkip, IInv, Types, Row, tableVars, actorVars, historyVars
<1>7. ASSUME NEW x \in Pollers, FireCommit(x)
      PROVE  \E c \in Callers : pc[c] = "resume" /\ cur[c] = s /\ pc'[c] = "idle"
  <2>1. x \in Actors /\ pc[x] \in {"fire", "trigger"}
    BY <1>7 DEF FireCommit, Actors, InTransaction
  <2>2. OnlyRow(cur[x]) /\ (row'[cur[x]].enabled => row[cur[x]].enabled)
    BY <1>7, <2>1, AdvanceEffect DEF FireCommit, IInv
  <2>. QED
    BY <2>2 DEF OnlyRow, IInv, Types
<1>8. ASSUME NEW x \in Pollers, FireFails(x)
      PROVE  \E c \in Callers : pc[c] = "resume" /\ cur[c] = s /\ pc'[c] = "idle"
  BY <1>8 DEF FireFails, Return, Fault, IInv, Types, Row, tableVars, actorVars,
        historyVars
<1>9. ASSUME NEW x \in Actors, NEW sc \in Scopes, SubmitRefused(x, sc)
      PROVE  \E c \in Callers : pc[c] = "resume" /\ cur[c] = s /\ pc'[c] = "idle"
  BY <1>9 DEF SubmitRefused, Submitted, Return, Goto, IInv, Types, Row, tableVars,
        actorVars, historyVars
<1>10. ASSUME NEW x \in Actors, NEW sc \in Scopes, NEW t \in Tasks, SubmitTask(x, sc, t)
      PROVE  \E c \in Callers : pc[c] = "resume" /\ cur[c] = s /\ pc'[c] = "idle"
  BY <1>10 DEF SubmitTask, Submitted, Return, Goto, IInv, Types, Row, tableVars,
        actorVars, historyVars
<1>11. ASSUME NEW x \in Actors, Record(x)
      PROVE  \E c \in Callers : pc[c] = "resume" /\ cur[c] = s /\ pc'[c] = "idle"
  BY <1>11 DEF Record, Return, IInv, Types, Row, tableVars, actorVars, historyVars
<1>12. ASSUME NEW x \in Actors, RecordFails(x)
      PROVE  \E c \in Callers : pc[c] = "resume" /\ cur[c] = s /\ pc'[c] = "idle"
  BY <1>12 DEF RecordFails, Return, Fault, IInv, Types, Row, tableVars, actorVars,
        historyVars
<1>13. ASSUME NEW x \in Actors, Crash(x)
      PROVE  \E c \in Callers : pc[c] = "resume" /\ cur[c] = s /\ pc'[c] = "idle"
  BY <1>13 DEF Crash, Return, Fault, IInv, Types, Row, tableVars, actorVars, historyVars
<1>14. ASSUME NEW x \in Callers, NEW z \in Schedules, TriggerLock(x, z)
      PROVE  \E c \in Callers : pc[c] = "resume" /\ cur[c] = s /\ pc'[c] = "idle"
  BY <1>14 DEF TriggerLock, Lock, Goto, Call, Free, IInv, Types, Row, tableVars,
        actorVars, historyVars
<1>15. ASSUME NEW x \in Callers, NEW z \in Schedules, ResumeLock(x, z)
      PROVE  \E c \in Callers : pc[c] = "resume" /\ cur[c] = s /\ pc'[c] = "idle"
  BY <1>15 DEF ResumeLock, Lock, Goto, Call, Free, IInv, Types, Row, tableVars,
        actorVars, historyVars
<1>16. ASSUME NEW x \in Callers, NEW z \in Schedules, UpdateLock(x, z)
      PROVE  \E c \in Callers : pc[c] = "resume" /\ cur[c] = s /\ pc'[c] = "idle"
  BY <1>16 DEF UpdateLock, Lock, Goto, Call, Free, IInv, Types, Row, tableVars,
        actorVars, historyVars
<1>17. ASSUME NEW x \in Callers, NEW z \in Schedules, RescopeLock(x, z)
      PROVE  \E c \in Callers : pc[c] = "resume" /\ cur[c] = s /\ pc'[c] = "idle"
  BY <1>17 DEF RescopeLock, Lock, Goto, Call, Free, IInv, Types, Row, tableVars,
        actorVars, historyVars
<1>18. ASSUME NEW x \in Callers, NEW z \in Schedules, PauseGet(x, z)
      PROVE  \E c \in Callers : pc[c] = "resume" /\ cur[c] = s /\ pc'[c] = "idle"
  BY <1>18 DEF PauseGet, Goto, Call, IInv, Types, Row, tableVars, actorVars, historyVars
<1>19. ASSUME NEW x \in Callers, NEW z \in Schedules, UpdatePolicy(x, z)
      PROVE  \E c \in Callers : pc[c] = "resume" /\ cur[c] = s /\ pc'[c] = "idle"
  BY <1>19, ScheduleAssumption DEF UpdatePolicy, WriteRow, Call, Free, IInv, Types,
        Row, tableVars, actorVars, historyVars
<1>20. ASSUME NEW x \in Callers, NEW z \in Schedules, Delete(x, z)
      PROVE  \E c \in Callers : pc[c] = "resume" /\ cur[c] = s /\ pc'[c] = "idle"
  BY <1>20 DEF Delete, WriteRow, Call, Free, IInv, Types, Row, tableVars, actorVars,
        historyVars
<1>21. ASSUME NEW x \in Callers, NEW sc \in Scopes, RemoveGet(x, sc)
      PROVE  \E c \in Callers : pc[c] = "resume" /\ cur[c] = s /\ pc'[c] = "idle"
  BY <1>21 DEF RemoveGet, Goto, Call, IInv, Types, Row, tableVars, actorVars,
        historyVars
<1>22. ASSUME NEW x \in Callers, TriggerCommit(x)
      PROVE  \E c \in Callers : pc[c] = "resume" /\ cur[c] = s /\ pc'[c] = "idle"
  <2>1. x \in Actors /\ pc[x] \in {"fire", "trigger"}
    BY <1>22 DEF TriggerCommit, Actors, InTransaction
  <2>2. OnlyRow(cur[x]) /\ (row'[cur[x]].enabled => row[cur[x]].enabled)
    BY <1>22, <2>1, AdvanceEffect DEF TriggerCommit, IInv
  <2>. QED
    BY <2>2 DEF OnlyRow, IInv, Types
<1>23. ASSUME NEW x \in Callers, TriggerRefuse(x)
      PROVE  \E c \in Callers : pc[c] = "resume" /\ cur[c] = s /\ pc'[c] = "idle"
  BY <1>23 DEF TriggerRefuse, Return, IInv, Types, Row, tableVars, actorVars,
        historyVars
<1>24. ASSUME NEW x \in Callers, ResumeCommit(x)
      PROVE  \E c \in Callers : pc[c] = "resume" /\ cur[c] = s /\ pc'[c] = "idle"
  <2>1. x \in Actors /\ pc[x] = "resume"
    BY <1>24 DEF ResumeCommit, Actors
  <2>2. OnlyRow(cur[x]) /\ pc'[x] = "idle"
    BY <1>24, ResumeEffect DEF IInv
  <2>3. cur[x] = s
    BY <2>2 DEF OnlyRow, IInv, Types
  <2>. QED
    BY <2>1, <2>2, <2>3
<1>25. ASSUME NEW x \in Callers, UpdateCommit(x)
      PROVE  \E c \in Callers : pc[c] = "resume" /\ cur[c] = s /\ pc'[c] = "idle"
  <2>1. x \in Actors /\ pc[x] \in InTransaction
    BY <1>25 DEF UpdateCommit, Actors, InTransaction
  <2>2. OnlyRow(cur[x]) /\ (row'[cur[x]].enabled => row[cur[x]].enabled)
    BY <1>25, <2>1, UpdateEffect DEF UpdateCommit, IInv
  <2>. QED
    BY <2>2 DEF OnlyRow, IInv, Types
<1>26. ASSUME NEW x \in Callers, UpdateRefuse(x)
      PROVE  \E c \in Callers : pc[c] = "resume" /\ cur[c] = s /\ pc'[c] = "idle"
  BY <1>26 DEF UpdateRefuse, Return, IInv, Types, Row, tableVars, actorVars, historyVars
<1>27. ASSUME NEW x \in Callers, RescopeCommit(x)
      PROVE  \E c \in Callers : pc[c] = "resume" /\ cur[c] = s /\ pc'[c] = "idle"
  BY <1>27 DEF RescopeCommit, Return, IInv, Types, Row, tableVars, actorVars,
        historyVars
<1>28. ASSUME NEW x \in Callers, PauseSet(x)
      PROVE  \E c \in Callers : pc[c] = "resume" /\ cur[c] = s /\ pc'[c] = "idle"
  <2>1. x \in Actors 
    BY <1>28 DEF PauseSet, Actors, InTransaction
  <2>2. OnlyRow(cur[x]) /\ (cur[x] \in live => row'[cur[x]].enabled = FALSE)
    BY <1>28, <2>1, PauseEffect DEF PauseSet, IInv
  <2>. QED
    BY <2>2 DEF OnlyRow, IInv, Types
<1>29. ASSUME NEW x \in Callers, RemoveLock(x)
      PROVE  \E c \in Callers : pc[c] = "resume" /\ cur[c] = s /\ pc'[c] = "idle"
  BY <1>29 DEF RemoveLock, Lock, Goto, Return, Free, IInv, Types, Row, tableVars,
        actorVars, historyVars
<1>30. ASSUME NEW x \in Callers, RemoveCommit(x)
      PROVE  \E c \in Callers : pc[c] = "resume" /\ cur[c] = s /\ pc'[c] = "idle"
  BY <1>30 DEF RemoveCommit, DeleteScopes, Return, IInv, Types, Row, tableVars,
        actorVars, historyVars
<1>31. ASSUME NEW x \in Callers, CallFails(x)
      PROVE  \E c \in Callers : pc[c] = "resume" /\ cur[c] = s /\ pc'[c] = "idle"
  BY <1>31 DEF CallFails, Return, Fault, IInv, Types, Row, tableVars, actorVars,
        historyVars
<1>32. ASSUME NEW x \in Callers, RescopeRefuse(x)
      PROVE  \E c \in Callers : pc[c] = "resume" /\ cur[c] = s /\ pc'[c] = "idle"
  BY <1>32 DEF RescopeRefuse, Return, IInv, Types, Row, tableVars, actorVars,
        historyVars
<1>33. ASSUME NEW r \in racks, PurgeRack(r)
      PROVE  \E c \in Callers : pc[c] = "resume" /\ cur[c] = s /\ pc'[c] = "idle"
  BY <1>33 DEF PurgeRack, DeleteScopes, IInv, Types, Row, tableVars, actorVars, historyVars
<1>. QED
  BY <1>1, <1>2, <1>3, <1>4, <1>5, <1>6, <1>7, <1>8, <1>9, <1>10, <1>11, <1>12,
        <1>13, <1>14, <1>15, <1>16, <1>17, <1>18, <1>19, <1>20, <1>21, <1>22, <1>23,
        <1>24, <1>25, <1>26, <1>27, <1>28, <1>29, <1>30, <1>31, <1>32, <1>33
     DEF Next, Dispatch, Begin, Proceed, Phases23, Actors

(* A paused schedule stays paused, and is fired by no dispatcher, until a  *)
(* ResumeTaskSchedule commits: firings, triggers and updates write back    *)
(* the enabled flag they read under the row lock.                          *)
THEOREM PausedStaysPaused == Spec => PauseHolds
<1>. DEFINE Step ==
       /\ \A s \in live \cap live' :
             (~ row[s].enabled /\ row'[s].enabled) =>
                 \E c \in Callers : pc[c] = "resume" /\ cur[c] = s /\ pc'[c] = "idle"
       /\ \A p \in Pollers : Fires(p) => row[cur[p]].enabled
<1>1. IInv /\ [Next]_vars => [Step]_vars
  <2>. SUFFICES ASSUME IInv, Next
                PROVE  Step
    OBVIOUS
  <2>1. ASSUME NEW p \in Pollers, Fires(p)
        PROVE  row[cur[p]].enabled
    <3>1. p \in Actors /\ pc[p] = "fire"
      BY <2>1 DEF Fires, IInv, FireDue, Actors
    <3>. QED
      BY <3>1 DEF IInv, FireDue, SnapshotCurrent, InTransaction
  <2>. QED
    BY <2>1, OnlyResumeEnables
<1>. QED
  BY <1>1, Invariance, PTL DEF Spec, PauseHolds

-----------------------------------------------------------------------------
(* Overlap policy skip.  It is kept by one dispatcher whose writes         *)
(* succeed, while nobody triggers a schedule by hand; with two dispatchers *)
(* it is not.  The dispatcher itself must have recorded the tasks of one   *)
(* firing before it begins the next.                                       *)
Alone ==
    /\ \E p : Pollers = {p}
    /\ "trigger" \notin Calls
    /\ MaxFaults = 0

SubmitTypes ==
    /\ scopes \subseteq usedScopes /\ usedScopes \subseteq Scopes
    /\ lastTask \in [Scopes -> Tasks \cup {"none"}]
    /\ latest \in [Scopes -> Tasks \cup {"none"}]
    /\ scopeOf \in [Tasks -> Scopes \cup {"none"}]
    /\ task \in [Tasks -> {"none", "active", "finished"}]
    /\ pending \in [Actors -> SUBSET Scopes]
    /\ got \in [Actors -> SUBSET Tasks]
    /\ faults = 0

(* No RPC is between its commit and the recording of its tasks. *)
OnlyPollersSubmit == \A c \in Callers : pc[c] \notin {"trigger", "submit", "record"}

(* The tasks a firing has submitted are the latest of their scopes, which  *)
(* are no longer pending.                                                  *)
HoldsTasks ==
    \A a \in Actors :
        /\ got[a] # {} => pc[a] \in {"submit", "record"}
        /\ pending[a] \subseteq usedScopes
        /\ \A t \in got[a] : /\ task[t] # "none"
                             /\ scopeOf[t] \in usedScopes \ pending[a]
                             /\ latest[scopeOf[t]] = t

(* last_task_id of a row is the latest task of its scope, or a dispatcher  *)
(* still has to write it.                                                  *)
LatestRecorded ==
    \A sc \in scopes :
        \/ latest[sc] = lastTask[sc]
        \/ \E p \in Pollers : latest[sc] \in got[p] /\ scopeOf[latest[sc]] = sc

(* A new row has no tasks. *)
NewScopesClean ==
    /\ \A sc \in usedScopes : ScheduleOf[sc] \in created
    /\ \A sc \in Scopes \ usedScopes : latest[sc] = "none" /\ lastTask[sc] = "none"

SkipInv == SubmitTypes /\ OnlyPollersSubmit /\ HoldsTasks /\ LatestRecorded /\ NewScopesClean

(* What a step may change of the scope rows, *)
LEMMA ScopeRowsEffect ==
    ASSUME [Next]_vars
    PROVE  \/ UNCHANGED <<scopes, usedScopes, created, lastTask>>
           \/ \E s \in Schedules : Create(s)
           \/ \E c \in Callers : \/ \E s \in Schedules : Delete(c, s)
                                 \/ RescopeCommit(c) \/ RemoveCommit(c)
           \/ \E a \in Actors : Record(a)
           \/ \E r \in racks : PurgeRack(r)
<1>. DEFINE Kept == UNCHANGED <<scopes, usedScopes, created, lastTask>>
<1>. USE DEF tableVars, actorVars, historyVars
<1>1. ASSUME NEW s \in Schedules,
             Tick(s)
      PROVE  Kept
  BY <1>1 DEF Tick
<1>2. ASSUME NEW t \in Tasks,
             Finish(t)
      PROVE  Kept
  BY <1>2 DEF Finish
<1>3. ASSUME NEW p \in Pollers,
             Poll(p) \/ FireLock(p) \/ FireSkip(p) \/ FireCommit(p) \/ FireFails(p)
      PROVE  Kept
  BY <1>3 DEF Poll, FireLock, Lock, FireSkip, FireCommit, Advance, FireFails
<1>4. ASSUME NEW a \in Actors, NEW sc \in Scopes, NEW t \in Tasks,
             SubmitTask(a, sc, t)
      PROVE  Kept
  BY <1>4 DEF SubmitTask, Submitted
<1>5. ASSUME NEW a \in Actors, NEW sc \in Scopes,
             SubmitRefused(a, sc)
      PROVE  Kept
  BY <1>5 DEF SubmitRefused, Submitted
<1>6. ASSUME NEW a \in Actors,
             RecordFails(a) \/ Crash(a)
      PROVE  Kept
  BY <1>6 DEF RecordFails, Crash
<1>7. ASSUME NEW c \in Callers, NEW s \in Schedules,
             TriggerLock(c, s) \/ ResumeLock(c, s) \/ UpdateLock(c, s) \/
             RescopeLock(c, s) \/ PauseGet(c, s) \/ UpdatePolicy(c, s)
      PROVE  Kept
  BY <1>7 DEF TriggerLock, Lock, ResumeLock, UpdateLock, RescopeLock, PauseGet,
              UpdatePolicy
<1>8. ASSUME NEW c \in Callers, NEW sc \in Scopes,
             RemoveGet(c, sc)
      PROVE  Kept
  BY <1>8 DEF RemoveGet
<1>9. ASSUME NEW c \in Callers,
             TriggerCommit(c) \/ TriggerRefuse(c) \/ ResumeCommit(c) \/
             UpdateCommit(c) \/ UpdateRefuse(c) \/ RescopeRefuse(c)
      PROVE  Kept
  BY <1>9 DEF TriggerCommit, Advance, TriggerRefuse, ResumeCommit, UpdateCommit,
              UpdateRefuse, RescopeRefuse
<1>10. ASSUME NEW c \in Callers,
             PauseSet(c) \/ RemoveLock(c) \/ CallFails(c)
      PROVE  Kept
  BY <1>10 DEF PauseSet, RemoveLock, CallFails
<1>11. CASE UNCHANGED vars
  BY <1>11 DEF vars
<1>. QED
  BY <1>1, <1>2, <1>3, <1>4, <1>5, <1>6, <1>7, <1>8, <1>9, <1>10, <1>11
     DEF Next, Dispatch, Begin, Proceed, Phases23, Actors

(* of the tasks, *)
LEMMA TasksEffect ==
    ASSUME [Next]_vars
    PROVE  \/ UNCHANGED <<task, scopeOf, latest>>
           \/ \E t \in Tasks : Finish(t)
           \/ \E a \in Actors, sc \in Scopes, t \in Tasks : SubmitTask(a, sc, t)
<1>. DEFINE Kept == UNCHANGED <<task, scopeOf, latest>>
<1>. USE DEF tableVars, actorVars, historyVars
<1>1. ASSUME NEW s \in Schedules,
             Create(s) \/ Tick(s)
      PROVE  Kept
  BY <1>1 DEF Create, Tick
<1>2. ASSUME NEW p \in Pollers,
             Poll(p) \/ FireLock(p) \/ FireSkip(p) \/ FireCommit(p) \/ FireFails(p)
      PROVE  Kept
  BY <1>2 DEF Poll, FireLock, Lock, FireSkip, FireCommit, Advance, FireFails
<1>3. ASSUME NEW a \in Actors, NEW sc \in Scopes,
             SubmitRefused(a, sc)
      PROVE  Kept
  BY <1>3 DEF SubmitRefused, Submitted
<1>4. ASSUME NEW a \in Actors,
             Record(a) \/ RecordFails(a) \/ Crash(a)
      PROVE  Kept
  BY <1>4 DEF Record, RecordFails, Crash
<1>5. ASSUME NEW c \in Callers, NEW s \in Schedules,
             TriggerLock(c, s) \/ ResumeLock(c, s) \/ UpdateLock(c, s) \/
             RescopeLock(c, s) \/ PauseGet(c, s) \/ UpdatePolicy(c, s) \/ Delete(c, s)
      PROVE  Kept
  BY <1>5 DEF TriggerLock, Lock, ResumeLock, UpdateLock, RescopeLock, PauseGet,
              UpdatePolicy, Delete
<1>6. ASSUME NEW c \in Callers, NEW sc \in Scopes,
             RemoveGet(c, sc)
      PROVE  Kept
  BY <1>6 DEF RemoveGet
<1>7. ASSUME NEW c \in Callers,
             TriggerCommit(c) \/ TriggerRefuse(c) \/ ResumeCommit(c) \/
             UpdateCommit(c) \/ UpdateRefuse(c) \/ RescopeRefuse(c)
      PROVE  Kept
  BY <1>7 DEF TriggerCommit, Advance, TriggerRefuse, ResumeCommit, UpdateCommit,
              UpdateRefuse, RescopeRefuse
<1>8. ASSUME NEW c \in Callers,
             RescopeCommit(c) \/ PauseSet(c) \/ RemoveLock(c) \/ RemoveCommit(c) \/
             CallFails(c)
      PROVE  Kept
  BY <1>8 DEF RescopeCommit, PauseSet, RemoveLock, RemoveCommit, DeleteScopes,
              CallFails
<1>9. CASE UNCHANGED vars
  BY <1>9 DEF vars
<1>10. ASSUME NEW r \in racks, PurgeRack(r)
       PROVE  Kept
  BY <1>10 DEF PurgeRack
<1>. QED
  BY <1>1, <1>2, <1>3, <1>4, <1>5, <1>6, <1>7, <1>8, <1>9, <1>10
     DEF Next, Dispatch, Begin, Proceed, Phases23, Actors

(* and of Phases 2 and 3. *)
LEMMA FiringEffect ==
    ASSUME [Next]_vars
    PROVE  \/ UNCHANGED <<pending, got>>
           \/ \E p \in Pollers : FireCommit(p)
           \/ \E c \in Callers : TriggerCommit(c)
           \/ \E a \in Actors : \/ Record(a) \/ RecordFails(a) \/ Crash(a)
                                \/ \E sc \in Scopes : \/ SubmitRefused(a, sc)
                                                      \/ \E t \in Tasks : SubmitTask(a, sc, t)
<1>. DEFINE Kept == UNCHANGED <<pending, got>>
<1>. USE DEF tableVars, actorVars, historyVars
<1>1. ASSUME NEW s \in Schedules,
             Create(s) \/ Tick(s)
      PROVE  Kept
  BY <1>1 DEF Create, Tick
<1>2. ASSUME NEW t \in Tasks,
             Finish(t)
      PROVE  Kept
  BY <1>2 DEF Finish
<1>3. ASSUME NEW p \in Pollers,
             Poll(p) \/ FireLock(p) \/ FireSkip(p) \/ FireFails(p)
      PROVE  Kept
  BY <1>3 DEF Poll, FireLock, Lock, FireSkip, FireFails
<1>4. ASSUME NEW c \in Callers, NEW s \in Schedules,
             TriggerLock(c, s) \/ ResumeLock(c, s) \/ UpdateLock(c, s) \/
             RescopeLock(c, s) \/ PauseGet(c, s) \/ UpdatePolicy(c, s) \/ Delete(c, s)
      PROVE  Kept
  BY <1>4 DEF TriggerLock, Lock, ResumeLock, UpdateLock, RescopeLock, PauseGet,
              UpdatePolicy, Delete
<1>5. ASSUME NEW c \in Callers, NEW sc \in Scopes,
             RemoveGet(c, sc)
      PROVE  Kept
  BY <1>5 DEF RemoveGet
<1>6. ASSUME NEW c \in Callers,
             TriggerRefuse(c) \/ ResumeCommit(c) \/ UpdateCommit(c) \/
             UpdateRefuse(c) \/ RescopeRefuse(c)
      PROVE  Kept
  BY <1>6 DEF TriggerRefuse, ResumeCommit, UpdateCommit, UpdateRefuse, RescopeRefuse
<1>7. ASSUME NEW c \in Callers,
             RescopeCommit(c) \/ PauseSet(c) \/ RemoveLock(c) \/ RemoveCommit(c) \/
             CallFails(c)
      PROVE  Kept
  BY <1>7 DEF RescopeCommit, PauseSet, RemoveLock, RemoveCommit, DeleteScopes,
              CallFails
<1>8. CASE UNCHANGED vars
  BY <1>8 DEF vars
<1>9. ASSUME NEW r \in racks, PurgeRack(r)
       PROVE  Kept
  BY <1>9 DEF PurgeRack
<1>. QED
  BY <1>1, <1>2, <1>3, <1>4, <1>5, <1>6, <1>7, <1>8, <1>9
     DEF Next, Dispatch, Begin, Proceed, Phases23, Actors

(* Who enters and leaves Phases 2 and 3. *)
LEMMA PhaseEffect ==
    ASSUME Types, [Next]_vars, NEW x \in Actors, pc'[x] # pc[x]
    PROVE  \/ x \in Pollers /\ FireCommit(x)
           \/ x \in Callers /\ (TriggerCommit(x) \/ \E s \in Schedules : TriggerLock(x, s))
           \/ \E sc \in Scopes : \/ SubmitRefused(x, sc)
                                 \/ \E t \in Tasks : SubmitTask(x, sc, t)
           \/ Record(x) \/ RecordFails(x) \/ Crash(x)
           \/ /\ pc[x] \notin {"submit", "record"}
              /\ pc'[x] \notin {"trigger", "submit", "record"}
<1>. DEFINE Outside == /\ pc[x] \notin {"submit", "record"}
                       /\ pc'[x] \notin {"trigger", "submit", "record"}
<1>. USE DEF tableVars, actorVars, historyVars, Return, Goto
<1>0. pc \in [Actors -> Labels]
  BY DEF Types
<1>1. ASSUME NEW s \in Schedules, Create(s) \/ Tick(s)
      PROVE  FALSE
  BY <1>1 DEF Create, Tick
<1>2. ASSUME NEW t \in Tasks, Finish(t)
      PROVE  FALSE
  BY <1>2 DEF Finish
<1>3. ASSUME NEW p \in Pollers, Poll(p) \/ FireLock(p) \/ FireSkip(p) \/ FireFails(p)
      PROVE  Outside
  BY <1>0, <1>3 DEF Poll, FireLock, Lock, FireSkip, FireFails, Actors
<1>4. ASSUME NEW p \in Pollers, FireCommit(p)
      PROVE  x = p
  BY <1>0, <1>4 DEF FireCommit, Advance, Actors
<1>5. ASSUME NEW a \in Actors, NEW sc \in Scopes, NEW t \in Tasks, SubmitTask(a, sc, t)
      PROVE  x = a
  BY <1>0, <1>5 DEF SubmitTask, Submitted
<1>6. ASSUME NEW a \in Actors, NEW sc \in Scopes, SubmitRefused(a, sc)
      PROVE  x = a
  BY <1>0, <1>6 DEF SubmitRefused, Submitted
<1>7. ASSUME NEW a \in Actors, Record(a) \/ RecordFails(a) \/ Crash(a)
      PROVE  x = a
  BY <1>0, <1>7 DEF Record, RecordFails, Crash
<1>8. ASSUME NEW c \in Callers, NEW s \in Schedules, TriggerLock(c, s)
      PROVE  x = c
  BY <1>0, <1>8 DEF TriggerLock, Lock, Actors
<1>9. ASSUME NEW c \in Callers, NEW s \in Schedules,
             ResumeLock(c, s) \/ UpdateLock(c, s) \/ RescopeLock(c, s) \/ PauseGet(c, s)
      PROVE  Outside
  BY <1>0, <1>9 DEF ResumeLock, UpdateLock, RescopeLock, PauseGet, Lock, Call, Actors
<1>10. ASSUME NEW c \in Callers, NEW s \in Schedules, UpdatePolicy(c, s) \/ Delete(c, s)
       PROVE  FALSE
  BY <1>10 DEF UpdatePolicy, Delete
<1>11. ASSUME NEW c \in Callers, NEW sc \in Scopes, RemoveGet(c, sc)
       PROVE  Outside
  BY <1>0, <1>11 DEF RemoveGet, Call, Actors
<1>12. ASSUME NEW c \in Callers, TriggerCommit(c)
       PROVE  x = c
  BY <1>0, <1>12 DEF TriggerCommit, Advance, Actors
<1>13. ASSUME NEW c \in Callers,
              TriggerRefuse(c) \/ ResumeCommit(c) \/ UpdateCommit(c) \/
              UpdateRefuse(c) \/ RescopeRefuse(c)
       PROVE  Outside
  BY <1>0, <1>13 DEF TriggerRefuse, ResumeCommit, UpdateCommit, UpdateRefuse,
        RescopeRefuse, Actors
<1>14. ASSUME NEW c \in Callers,
              RescopeCommit(c) \/ PauseSet(c) \/ RemoveLock(c) \/ RemoveCommit(c)
       PROVE  Outside
  BY <1>0, <1>14 DEF RescopeCommit, PauseSet, RemoveLock, Lock, RemoveCommit, Actors
<1>15. ASSUME NEW c \in Callers, CallFails(c)
       PROVE  Outside
  BY <1>0, <1>15 DEF CallFails, Actors
<1>16. CASE UNCHANGED vars
  BY <1>16 DEF vars
<1>17. ASSUME NEW r \in racks, PurgeRack(r)
       PROVE  FALSE
  BY <1>17 DEF PurgeRack
<1>. QED
  BY <1>1, <1>2, <1>3, <1>4, <1>5, <1>6, <1>7, <1>8, <1>9, <1>10, <1>11, <1>12, <1>13,
     <1>14, <1>15, <1>16, <1>17
     DEF Next, Dispatch, Begin, Proceed, Phases23, Actors

(* Only failures are counted. *)
LEMMA FaultsEffect ==
    ASSUME [Next]_vars
    PROVE  UNCHANGED faults \/ Fault
<1>. DEFINE Kept == UNCHANGED faults
<1>1. ASSUME NEW s \in Schedules, Create(s) \/ Tick(s)
      PROVE  Kept
  BY <1>1 DEF Create, Tick
<1>2. ASSUME NEW t \in Tasks, Finish(t)
      PROVE  Kept
  BY <1>2 DEF Finish
<1>3. ASSUME NEW p \in Pollers, Poll(p) \/ FireLock(p) \/ FireSkip(p) \/ FireCommit(p)
      PROVE  Kept
  BY <1>3 DEF Poll, FireLock, FireSkip, FireCommit, Advance
<1>4. ASSUME NEW p \in Pollers, FireFails(p)
      PROVE  Fault
  BY <1>4 DEF FireFails
<1>5. ASSUME NEW a \in Actors, NEW sc \in Scopes,
             SubmitRefused(a, sc) \/ \E t \in Tasks : SubmitTask(a, sc, t)
      PROVE  Kept
  BY <1>5 DEF SubmitRefused, SubmitTask, Submitted
<1>6. ASSUME NEW a \in Actors, Record(a)
      PROVE  Kept
  BY <1>6 DEF Record
<1>7. ASSUME NEW a \in Actors, RecordFails(a) \/ Crash(a)
      PROVE  Fault
  BY <1>7 DEF RecordFails, Crash
<1>8. ASSUME NEW c \in Callers, NEW s \in Schedules,
             TriggerLock(c, s) \/ ResumeLock(c, s) \/ UpdateLock(c, s) \/
             RescopeLock(c, s) \/ PauseGet(c, s) \/ UpdatePolicy(c, s) \/ Delete(c, s)
      PROVE  Kept
  BY <1>8 DEF TriggerLock, ResumeLock, UpdateLock, RescopeLock, PauseGet, UpdatePolicy, Delete
<1>9. ASSUME NEW c \in Callers, NEW sc \in Scopes, RemoveGet(c, sc)
      PROVE  Kept
  BY <1>9 DEF RemoveGet
<1>10. ASSUME NEW c \in Callers,
              TriggerCommit(c) \/ TriggerRefuse(c) \/ ResumeCommit(c) \/
              UpdateCommit(c) \/ UpdateRefuse(c) \/ RescopeRefuse(c)
       PROVE  Kept
  BY <1>10 DEF TriggerCommit, Advance, TriggerRefuse, ResumeCommit, UpdateCommit,
        UpdateRefuse, RescopeRefuse
<1>11. ASSUME NEW c \in Callers,
              RescopeCommit(c) \/ PauseSet(c) \/ RemoveLock(c) \/ RemoveCommit(c)
       PROVE  Kept
  BY <1>11 DEF RescopeCommit, PauseSet, RemoveLock, RemoveCommit
<1>12. ASSUME NEW c \in Callers, CallFails(c)
       PROVE  Fault
  BY <1>12 DEF CallFails
<1>13. CASE UNCHANGED vars
  BY <1>13 DEF vars
<1>14. ASSUME NEW r \in racks, PurgeRack(r)
       PROVE  Kept
  BY <1>14 DEF PurgeRack
<1>. QED
  BY <1>1, <1>2, <1>3, <1>4, <1>5, <1>6, <1>7, <1>8, <1>9, <1>10, <1>11, <1>12, <1>13, <1>14
     DEF Next, Dispatch, Begin, Proceed, Phases23, Actors

(* Without failures and triggers only a dispatcher goes through Phases 2   *)
(* and 3, and to the end.                                                  *)
LEMMA Undisturbed ==
    ASSUME Alone, SubmitTypes, OnlyPollersSubmit, [Next]_vars
    PROVE  /\ ~ Fault /\ faults' = 0
           /\ \A a \in Actors : ~ RecordFails(a) /\ ~ Crash(a)
           /\ \A c \in Callers : ~ TriggerCommit(c) /\ \A s \in Schedules : ~ TriggerLock(c, s)
           /\ \A a \in Actors : pc[a] \in {"submit", "record"} => a \in Pollers
<1>1. ~ Fault
  BY DEF Alone, SubmitTypes, Fault
<1>2. faults' = 0
  BY <1>1, FaultsEffect DEF SubmitTypes
<1>3. \A a \in Actors : ~ RecordFails(a) /\ ~ Crash(a)
  BY <1>1 DEF RecordFails, Crash
<1>4. \A c \in Callers : ~ TriggerCommit(c) /\ \A s \in Schedules : ~ TriggerLock(c, s)
  BY DEF Alone, OnlyPollersSubmit, TriggerCommit, TriggerLock, Call
<1>5. \A a \in Actors : pc[a] \in {"submit", "record"} => a \in Pollers
  BY DEF OnlyPollersSubmit, Actors
<1>. QED
  BY <1>1, <1>2, <1>3, <1>4, <1>5

LEMMA PollersStep ==
    ASSUME Alone, Types, SubmitTypes, OnlyPollersSubmit, [Next]_vars
    PROVE  OnlyPollersSubmit'
<1>. SUFFICES ASSUME NEW c \in Callers, pc'[c] # pc[c]
              PROVE  pc'[c] \notin {"trigger", "submit", "record"}
  BY DEF OnlyPollersSubmit
<1>1. c \in Actors /\ c \notin Pollers
  BY ScheduleAssumption DEF Actors
<1>2. pc[c] \notin {"submit", "record"}
  BY <1>1, Undisturbed
<1>3. \A sc \in Scopes : /\ ~ SubmitRefused(c, sc)
                         /\ \A t \in Tasks : ~ SubmitTask(c, sc, t)
  BY <1>2 DEF SubmitRefused, SubmitTask, Submitted
<1>4. ~ Record(c)
  BY <1>2 DEF Record
<1>. QED
  BY <1>1, <1>3, <1>4, Undisturbed, PhaseEffect

(* Rows of scopes come fresh and go with their last_task_id; what is left  *)
(* keeps it, but for the write of Phase 3.                                 *)
LEMMA RowsStep ==
    ASSUME Types, SnapshotCurrent, SubmitTypes, NewScopesClean, [Next]_vars,
           \A a \in Actors : ~ Record(a)
    PROVE  /\ usedScopes \subseteq usedScopes' /\ usedScopes' \subseteq Scopes
           /\ scopes' \subseteq usedScopes'
           /\ lastTask' \in [Scopes -> Tasks \cup {"none"}]
           /\ \A sc \in scopes' : \/ sc \in scopes /\ lastTask'[sc] = lastTask[sc]
                                  \/ sc \notin usedScopes /\ lastTask'[sc] = "none"
           /\ \A sc \in usedScopes' : ScheduleOf[sc] \in created'
           /\ \A sc \in Scopes \ usedScopes' : lastTask'[sc] = "none"
<1>. DEFINE Goal ==
           /\ usedScopes \subseteq usedScopes' /\ usedScopes' \subseteq Scopes
           /\ scopes' \subseteq usedScopes'
           /\ lastTask' \in [Scopes -> Tasks \cup {"none"}]
           /\ \A sc \in scopes' : \/ sc \in scopes /\ lastTask'[sc] = lastTask[sc]
                                  \/ sc \notin usedScopes /\ lastTask'[sc] = "none"
           /\ \A sc \in usedScopes' : ScheduleOf[sc] \in created'
           /\ \A sc \in Scopes \ usedScopes' : lastTask'[sc] = "none"
<1>. SUFFICES Goal
  OBVIOUS
<1>1. CASE UNCHANGED <<scopes, usedScopes, created, lastTask>>
  BY <1>1 DEF SubmitTypes, NewScopesClean
<1>2. ASSUME NEW s \in Schedules, Create(s)
      PROVE  Goal
  <2>1. PICK S \in SUBSET { sc \in Scopes : ScheduleOf[sc] = s /\ RackOf[sc] \in racks } :
            scopes' = scopes \cup S /\ usedScopes' = usedScopes \cup S
    BY <1>2 DEF Create
  <2>2. s \notin created /\ created' = created \cup {s} /\ lastTask' = lastTask
    BY <1>2 DEF Create
  <2>3. \A sc \in S : sc \in Scopes /\ ScheduleOf[sc] = s /\ sc \notin usedScopes
    BY <2>1, <2>2 DEF NewScopesClean
  <2>. QED
    BY <2>1, <2>2, <2>3 DEF SubmitTypes, NewScopesClean
<1>3. ASSUME NEW c \in Callers, NEW s \in Schedules, Delete(c, s)
      PROVE  Goal
  BY <1>3 DEF Delete, ScopesOf, historyVars, SubmitTypes, NewScopesClean
<1>4. ASSUME NEW c \in Callers, RescopeCommit(c)
      PROVE  Goal
  <2>1. PICK new \in SUBSET { sc \in Scopes \ usedScopes :
                             ScheduleOf[sc] = cur[c] /\ RackOf[sc] \in racks },
             gone \in SUBSET ScopesOf(cur[c]) :
          /\ scopes' = (scopes \ gone) \cup new
          /\ lastTask' = [sc \in Scopes |-> IF sc \in gone THEN "none" ELSE lastTask[sc]]
          /\ usedScopes' = usedScopes \cup new
    BY <1>4 DEF RescopeCommit
  <2>2. cur[c] \in created /\ created' = created
    BY <1>4 DEF RescopeCommit, SnapshotCurrent, InTransaction, Types, Actors
  <2>3. gone \subseteq scopes /\ gone \cap new = {}
    BY <2>1 DEF ScopesOf, SubmitTypes
  <2>. QED
    BY <2>1, <2>2, <2>3 DEF SubmitTypes, NewScopesClean
<1>5. ASSUME NEW c \in Callers, RemoveCommit(c)
      PROVE  Goal
  <2>1. CASE UNCHANGED <<scopes, lastTask>>
    BY <1>5, <2>1 DEF RemoveCommit, historyVars, SubmitTypes, NewScopesClean
  <2>2. CASE DeleteScopes({target[c]})
    BY <1>5, <2>2 DEF RemoveCommit, DeleteScopes, historyVars, SubmitTypes, NewScopesClean
  <2>. QED
    BY <1>5, <2>1, <2>2 DEF RemoveCommit
<1>6. ASSUME NEW r \in racks, PurgeRack(r)
      PROVE  Goal
  BY <1>6 DEF PurgeRack, DeleteScopes, historyVars, SubmitTypes, NewScopesClean
<1>. QED
  BY <1>1, <1>2, <1>3, <1>4, <1>5, <1>6, ScopeRowsEffect

(* Phase 3 writes the latest task of every scope the firing submitted.     *)
LEMMA RecordStep ==
    ASSUME Alone, SubmitTypes, OnlyPollersSubmit, HoldsTasks, LatestRecorded,
           [Next]_vars, NEW a \in Actors, Record(a)
    PROVE  /\ lastTask' \in [Scopes -> Tasks \cup {"none"}]
           /\ \A sc \in scopes : lastTask'[sc] = latest[sc]
           /\ \A sc \in Scopes \ usedScopes : lastTask'[sc] = lastTask[sc]
           /\ got' = [got EXCEPT ![a] = {}]
           /\ UNCHANGED <<scopes, usedScopes, created, task, scopeOf, latest, pending>>
<1>1. a \in Pollers /\ Pollers = {a}
  BY Undisturbed DEF Record, Alone
<1>2. /\ lastTask' = [sc \in Scopes |->
                        IF \E t \in got[a] : sc \in scopes /\ scopeOf[t] = sc
                        THEN CHOOSE t \in got[a] : scopeOf[t] = sc ELSE lastTask[sc]]
      /\ got' = [got EXCEPT ![a] = {}]
      /\ UNCHANGED <<scopes, usedScopes, created, task, scopeOf, latest, pending>>
  BY DEF Record, historyVars
<1>3. ASSUME NEW sc \in Scopes, NEW u \in got[a], scopeOf[u] = sc
      PROVE  /\ (CHOOSE t \in got[a] : scopeOf[t] = sc) = latest[sc]
             /\ latest[sc] \in Tasks
  <2> DEFINE k == CHOOSE t \in got[a] : scopeOf[t] = sc
  <2>1. k \in got[a] /\ scopeOf[k] = sc
    BY <1>3
  <2>2. latest[sc] = k
    BY <2>1 DEF HoldsTasks
  <2>3. latest[sc] = u /\ u \in Tasks
    BY <1>3 DEF HoldsTasks, SubmitTypes
  <2>. QED
    BY <2>2, <2>3
<1>4. lastTask' \in [Scopes -> Tasks \cup {"none"}]
  BY <1>2, <1>3 DEF SubmitTypes
<1>5. ASSUME NEW sc \in scopes
      PROVE  lastTask'[sc] = latest[sc]
  <2>1. sc \in Scopes
    BY DEF SubmitTypes
  <2>2. CASE \E t \in got[a] : scopeOf[t] = sc
    BY <1>2, <1>3, <2>1, <2>2
  <2>3. CASE ~ \E t \in got[a] : scopeOf[t] = sc
    <3>1. latest[sc] = lastTask[sc]
      BY <1>1, <2>3 DEF LatestRecorded
    <3>. QED
      BY <1>2, <2>1, <2>3, <3>1
  <2>. QED
    BY <2>2, <2>3
<1>6. \A sc \in Scopes \ usedScopes : lastTask'[sc] = lastTask[sc]
  BY <1>2 DEF SubmitTypes
<1>. QED
  BY <1>2, <1>4, <1>5, <1>6

(* SubmitTask gives a scope that was pending its latest task. *)
LEMMA SubmitTaskEffect ==
    ASSUME SubmitTypes, HoldsTasks, [Next]_vars,
           NEW a \in Actors, NEW sc \in Scopes, NEW t \in Tasks, SubmitTask(a, sc, t)
    PROVE  /\ sc \in usedScopes /\ sc \in pending[a] /\ pc[a] = "submit"
           /\ pending' = [pending EXCEPT ![a] = @ \ {sc}]
           /\ got' = [got EXCEPT ![a] = @ \cup {t}]
           /\ pc' = pc \/ pc' = [pc EXCEPT ![a] = "record"]
           /\ task[t] = "none"
           /\ task' = [task EXCEPT ![t] = "active"]
           /\ scopeOf' = [scopeOf EXCEPT ![t] = sc]
           /\ latest' = [latest EXCEPT ![sc] = t]
           /\ UNCHANGED <<scopes, usedScopes, created, lastTask>>
<1>1. Submitted(a, sc, {t}) /\ pc[a] = "submit" /\ sc \in pending[a]
  BY DEF SubmitTask, Submitted
<1>2. pc' = pc \/ pc' = [pc EXCEPT ![a] = "record"]
  BY <1>1 DEF Submitted, Goto
<1>3. sc \in usedScopes
  BY <1>1 DEF HoldsTasks
<1>. QED
  BY <1>1, <1>2, <1>3 DEF SubmitTask, Submitted, tableVars

(* A refused submission only takes the scope off the list. *)
LEMMA SubmitRefusedEffect ==
    ASSUME SubmitTypes, [Next]_vars,
           NEW a \in Actors, NEW sc \in Scopes, SubmitRefused(a, sc)
    PROVE  /\ pc[a] = "submit"
           /\ pending' = [pending EXCEPT ![a] = @ \ {sc}]
           /\ got' = got
           /\ \/ pc' = pc \/ pc' = [pc EXCEPT ![a] = "record"]
              \/ got[a] = {} /\ pc' = [pc EXCEPT ![a] = "idle"]
           /\ UNCHANGED <<scopes, usedScopes, created, lastTask, task, scopeOf, latest>>
<1>1. Submitted(a, sc, {}) /\ UNCHANGED <<task, scopeOf, latest>>
  BY DEF SubmitRefused
<1>2. \/ pc' = pc \/ pc' = [pc EXCEPT ![a] = "record"]
      \/ got[a] = {} /\ pc' = [pc EXCEPT ![a] = "idle"]
  BY <1>1 DEF Submitted, Goto, Return
<1>3. got' = got
  BY <1>1 DEF Submitted, SubmitTypes
<1>. QED
  BY <1>1, <1>2, <1>3 DEF Submitted, tableVars

(* Phase 1 lists scope rows of the schedule. *)
LEMMA FireCommitEffect ==
    ASSUME SubmitTypes, [Next]_vars, NEW p \in Pollers, FireCommit(p)
    PROVE  /\ pc[p] = "fire" /\ got' = got
           /\ \/ pending' = pending
              \/ pending' = [pending EXCEPT ![p] = Eligible(cur[p], snap[p].policy)]
           /\ Eligible(cur[p], snap[p].policy) \subseteq scopes
           /\ UNCHANGED <<scopes, usedScopes, created, lastTask, task, scopeOf, latest>>
  BY DEF FireCommit, Advance, Eligible, ScopesOf

(* The five ways in which a step bears on the submissions. *)
LEMMA SubmissionCases ==
    ASSUME Alone, SubmitTypes, OnlyPollersSubmit, [Next]_vars
    PROVE  \/ \E p \in Pollers : FireCommit(p)
           \/ \E a \in Actors, sc \in Scopes, t \in Tasks : SubmitTask(a, sc, t)
           \/ \E a \in Actors, sc \in Scopes : SubmitRefused(a, sc)
           \/ \E a \in Actors : Record(a)
           \/ /\ UNCHANGED <<pending, got, scopeOf, latest>>
              /\ UNCHANGED task \/ \E t \in Tasks : Finish(t)
              /\ \A a \in Actors : ~ Record(a)
<1>1. ASSUME NEW t \in Tasks, Finish(t)
      PROVE  UNCHANGED <<scopeOf, latest>>
  BY <1>1 DEF Finish, historyVars
<1>. QED
  BY <1>1, Undisturbed, FiringEffect, TasksEffect

LEMMA NewScopesStep ==
    ASSUME Alone, Types, SnapshotCurrent, SkipInv, [Next]_vars
    PROVE  NewScopesClean'
<1>. USE DEF SkipInv
<1>1. ASSUME NEW a \in Actors, Record(a)
      PROVE  NewScopesClean'
  BY <1>1, RecordStep DEF NewScopesClean
<1>2. CASE \A a \in Actors : ~ Record(a)
  <2>1. /\ usedScopes \subseteq usedScopes' /\ usedScopes' \subseteq Scopes
        /\ \A sc \in usedScopes' : ScheduleOf[sc] \in created'
        /\ \A sc \in Scopes \ usedScopes' : lastTask'[sc] = "none"
    BY <1>2, RowsStep
  <2>2. ASSUME NEW a \in Actors, NEW sc \in Scopes, NEW t \in Tasks, SubmitTask(a, sc, t)
        PROVE  \A x \in Scopes \ usedScopes : latest'[x] = "none"
    BY <2>2, SubmitTaskEffect DEF NewScopesClean, SubmitTypes
  <2>3. \A x \in Scopes \ usedScopes : latest'[x] = "none"
    BY <2>2, TasksEffect DEF NewScopesClean, Finish, historyVars
  <2>. QED
    BY <2>1, <2>3 DEF NewScopesClean
<1>. QED
  BY <1>1, <1>2

LEMMA LatestStep ==
    ASSUME Alone, Types, SnapshotCurrent, SkipInv, [Next]_vars
    PROVE  LatestRecorded'
<1>. USE DEF SkipInv
<1>1. ASSUME NEW a \in Actors, Record(a)
      PROVE  LatestRecorded'
  BY <1>1, RecordStep DEF LatestRecorded
<1>2. CASE \A a \in Actors : ~ Record(a)
  <2>. SUFFICES ASSUME NEW sc \in scopes'
                PROVE  \/ latest'[sc] = lastTask'[sc]
                       \/ \E p \in Pollers : latest'[sc] \in got'[p] /\ scopeOf'[latest'[sc]] = sc
    BY DEF LatestRecorded
  <2>1. \/ sc \in scopes /\ lastTask'[sc] = lastTask[sc]
        \/ sc \in Scopes \ usedScopes /\ lastTask'[sc] = "none"
    BY <1>2, RowsStep
  <2>2. \/ latest[sc] = lastTask'[sc]
        \/ \E p \in Pollers : latest[sc] \in got[p] /\ scopeOf[latest[sc]] = sc
    BY <2>1 DEF LatestRecorded, NewScopesClean
  <2>3. sc \in Scopes
    BY <2>1 DEF Types
  <2>4. ASSUME NEW a \in Actors, NEW x \in Scopes, NEW t \in Tasks, SubmitTask(a, x, t)
        PROVE  \/ latest'[sc] = lastTask'[sc]
               \/ \E p \in Pollers : latest'[sc] \in got'[p] /\ scopeOf'[latest'[sc]] = sc
    <3>1. /\ got' = [got EXCEPT ![a] = @ \cup {t}]
          /\ scopeOf' = [scopeOf EXCEPT ![t] = x]
          /\ latest' = [latest EXCEPT ![x] = t]
          /\ task[t] = "none" /\ pc[a] = "submit"
      BY <2>4, SubmitTaskEffect
    <3>2. a \in Pollers
      BY <3>1, Undisturbed
    <3>3. CASE sc = x
      <4>1. latest'[sc] = t /\ t \in got'[a] /\ scopeOf'[t] = sc
        BY <3>1, <3>3, <2>3 DEF SubmitTypes
      <4>. QED
        BY <3>2, <4>1
    <3>4. CASE sc # x
      <4>1. latest'[sc] = latest[sc]
        BY <3>1, <3>4, <2>3 DEF SubmitTypes
      <4>2. ASSUME NEW p \in Pollers, latest[sc] \in got[p], scopeOf[latest[sc]] = sc
            PROVE  latest[sc] \in got'[p] /\ scopeOf'[latest[sc]] = sc
        <5>1. p \in Actors /\ latest[sc] \in Tasks /\ latest[sc] # t
          BY <4>2, <3>1 DEF Actors, SubmitTypes, HoldsTasks
        <5>. QED
          BY <4>2, <5>1, <3>1 DEF SubmitTypes
      <4>. QED
        BY <2>2, <4>1, <4>2
    <3>. QED
      BY <3>3, <3>4
  <2>5. CASE UNCHANGED <<got, scopeOf, latest>>
    BY <2>2, <2>5
  <2>6. ASSUME NEW p \in Pollers, FireCommit(p)
        PROVE  UNCHANGED <<got, scopeOf, latest>>
    BY <2>6, FireCommitEffect
  <2>7. ASSUME NEW a \in Actors, NEW x \in Scopes, SubmitRefused(a, x)
        PROVE  UNCHANGED <<got, scopeOf, latest>>
    BY <2>7, SubmitRefusedEffect
  <2>. QED
    BY <1>2, <2>4, <2>5, <2>6, <2>7, SubmissionCases
<1>. QED
  BY <1>1, <1>2

LEMMA HoldsStep ==
    ASSUME Alone, Types, SnapshotCurrent, SkipInv, [Next]_vars
    PROVE  HoldsTasks'
<1>. USE DEF SkipInv
<1>. SUFFICES ASSUME NEW x \in Actors
              PROVE  /\ got'[x] # {} => pc'[x] \in {"submit", "record"}
                     /\ pending'[x] \subseteq usedScopes'
                     /\ \A u \in got'[x] : /\ task'[u] # "none"
                                           /\ scopeOf'[u] \in usedScopes' \ pending'[x]
                                           /\ latest'[scopeOf'[u]] = u
  BY DEF HoldsTasks
<1>. DEFINE Goal ==
       /\ got'[x] # {} => pc'[x] \in {"submit", "record"}
       /\ pending'[x] \subseteq usedScopes'
       /\ \A u \in got'[x] : /\ task'[u] # "none"
                             /\ scopeOf'[u] \in usedScopes' \ pending'[x]
                             /\ latest'[scopeOf'[u]] = u
<1>1. /\ got[x] # {} => pc[x] \in {"submit", "record"}
      /\ pending[x] \subseteq usedScopes /\ got[x] \subseteq Tasks
      /\ \A u \in got[x] : /\ task[u] # "none"
                           /\ scopeOf[u] \in usedScopes \ pending[x]
                           /\ latest[scopeOf[u]] = u
  BY DEF HoldsTasks, SubmitTypes
<1>2. ASSUME NEW a \in Actors, Record(a)
      PROVE  Goal
  <2>1. /\ got' = [got EXCEPT ![a] = {}]
        /\ UNCHANGED <<usedScopes, task, scopeOf, latest, pending>>
    BY <1>2, RecordStep
  <2>2. x # a => pc'[x] = pc[x]
    BY <1>2 DEF Record, Return, Types
  <2>. QED
    BY <1>1, <2>1, <2>2 DEF SubmitTypes
<1>3. ASSUME NEW a \in Actors, NEW sc \in Scopes, NEW t \in Tasks, SubmitTask(a, sc, t)
      PROVE  Goal
  <2>1. /\ sc \in usedScopes /\ sc \in pending[a] /\ pc[a] = "submit"
        /\ pending' = [pending EXCEPT ![a] = @ \ {sc}]
        /\ got' = [got EXCEPT ![a] = @ \cup {t}]
        /\ pc' = pc \/ pc' = [pc EXCEPT ![a] = "record"]
        /\ task[t] = "none"
        /\ task' = [task EXCEPT ![t] = "active"]
        /\ scopeOf' = [scopeOf EXCEPT ![t] = sc]
        /\ latest' = [latest EXCEPT ![sc] = t]
        /\ usedScopes' = usedScopes
    BY <1>3, SubmitTaskEffect
  <2>2. ASSUME x # a
        PROVE  Goal
    <3>1. got[x] = {} /\ got'[x] = {}
      <4>1. a \in Pollers /\ Pollers = {a}
        BY <2>1, Undisturbed DEF Alone
      <4>2. pc[x] \notin {"submit", "record"}
        BY <2>2, <4>1, Undisturbed
      <4>. QED
        BY <1>1, <2>1, <2>2, <4>2 DEF SubmitTypes
    <3>2. pending'[x] = pending[x]
      BY <2>1, <2>2 DEF SubmitTypes
    <3>. QED
      BY <1>1, <2>1, <3>1, <3>2
  <2>3. CASE x = a
    <3>1. pc'[x] \in {"submit", "record"}
      BY <2>1, <2>3 DEF Types
    <3>2. pending'[x] = pending[x] \ {sc} /\ got'[x] = got[x] \cup {t}
      BY <2>1, <2>3 DEF SubmitTypes
    <3>3. task'[t] # "none" /\ scopeOf'[t] = sc /\ latest'[sc] = t
      BY <2>1 DEF SubmitTypes
    <3>4. ASSUME NEW u \in got[x]
          PROVE  /\ task'[u] # "none" /\ scopeOf'[u] \in usedScopes \ pending[x]
                 /\ latest'[scopeOf'[u]] = u
      <4>1. u # t /\ u \in Tasks /\ scopeOf[u] # sc /\ scopeOf[u] \in Scopes
        BY <1>1, <2>1, <2>3 DEF SubmitTypes
      <4>2. task'[u] = task[u] /\ scopeOf'[u] = scopeOf[u]
        BY <2>1, <4>1 DEF SubmitTypes
      <4>3. latest'[scopeOf[u]] = latest[scopeOf[u]]
        BY <2>1, <4>1 DEF SubmitTypes
      <4>. QED
        BY <1>1, <4>2, <4>3
    <3>. QED
      BY <1>1, <2>1, <3>1, <3>2, <3>3, <3>4
  <2>. QED
    BY <2>2, <2>3
<1>4. ASSUME NEW a \in Actors, NEW sc \in Scopes, SubmitRefused(a, sc)
      PROVE  Goal
  <2>1. /\ pending' = [pending EXCEPT ![a] = @ \ {sc}] /\ got' = got
        /\ \/ pc' = pc \/ pc' = [pc EXCEPT ![a] = "record"]
           \/ got[a] = {} /\ pc' = [pc EXCEPT ![a] = "idle"]
        /\ UNCHANGED <<usedScopes, task, scopeOf, latest>>
    BY <1>4, SubmitRefusedEffect
  <2>2. pending'[x] \subseteq pending[x]
    BY <2>1 DEF SubmitTypes
  <2>3. got'[x] # {} => pc'[x] \in {"submit", "record"}
    BY <1>1, <2>1 DEF Types
  <2>. QED
    BY <1>1, <2>1, <2>2, <2>3
<1>5. ASSUME NEW p \in Pollers, FireCommit(p)
      PROVE  Goal
  <2>1. /\ pc[p] = "fire" /\ got' = got
        /\ \/ pending' = pending
           \/ pending' = [pending EXCEPT ![p] = Eligible(cur[p], snap[p].policy)]
        /\ Eligible(cur[p], snap[p].policy) \subseteq scopes
        /\ UNCHANGED <<usedScopes, task, scopeOf, latest>>
    BY <1>5, FireCommitEffect
  <2>2. pending'[x] \subseteq usedScopes /\ (x # p => pending'[x] = pending[x])
    BY <1>1, <2>1 DEF SubmitTypes
  <2>3. got[p] = {}
    BY <2>1 DEF HoldsTasks, Actors
  <2>4. x # p => pc'[x] = pc[x]
    BY <1>5 DEF FireCommit, Advance, Return, Goto, Types
  <2>. QED
    BY <1>1, <2>1, <2>2, <2>3, <2>4
<1>6. ASSUME UNCHANGED <<pending, got, scopeOf, latest>>,
             UNCHANGED task \/ \E t \in Tasks : Finish(t),
             \A a \in Actors : ~ Record(a),
             \A p \in Pollers : ~ FireCommit(p),
             \A a \in Actors, sc \in Scopes :
                 ~ SubmitRefused(a, sc) /\ \A t \in Tasks : ~ SubmitTask(a, sc, t)
      PROVE  Goal
  <2>1. usedScopes \subseteq usedScopes'
    BY <1>6, RowsStep
  <2>2. \A u \in Tasks : task[u] # "none" => task'[u] # "none"
    BY <1>6 DEF Finish, SubmitTypes
  <2>3. pc[x] \in {"submit", "record"} => pc'[x] = pc[x]
    BY <1>6, Undisturbed, PhaseEffect
  <2>. QED
    BY <1>1, <1>6, <2>1, <2>2, <2>3
<1>. QED
  BY <1>2, <1>3, <1>4, <1>5, <1>6, SubmissionCases

LEMMA SubmitTypesStep ==
    ASSUME Alone, Types, SnapshotCurrent, SkipInv, [Next]_vars
    PROVE  SubmitTypes'
<1>. USE DEF SkipInv
<1>1. /\ scopes' \subseteq usedScopes' /\ usedScopes' \subseteq Scopes
      /\ lastTask' \in [Scopes -> Tasks \cup {"none"}]
  <2>1. ASSUME NEW a \in Actors, Record(a)
        PROVE  /\ scopes' \subseteq usedScopes' /\ usedScopes' \subseteq Scopes
               /\ lastTask' \in [Scopes -> Tasks \cup {"none"}]
    BY <2>1, RecordStep DEF SubmitTypes
  <2>. QED
    BY <2>1, RowsStep
<1>2. /\ latest' \in [Scopes -> Tasks \cup {"none"}]
      /\ scopeOf' \in [Tasks -> Scopes \cup {"none"}]
      /\ task' \in [Tasks -> {"none", "active", "finished"}]
  <2>1. ASSUME NEW t \in Tasks, Finish(t)
        PROVE  /\ task' \in [Tasks -> {"none", "active", "finished"}]
               /\ UNCHANGED <<scopeOf, latest>>
    BY <2>1 DEF Finish, historyVars, SubmitTypes
  <2>2. ASSUME NEW a \in Actors, NEW sc \in Scopes, NEW t \in Tasks, SubmitTask(a, sc, t)
        PROVE  /\ latest' \in [Scopes -> Tasks \cup {"none"}]
               /\ scopeOf' \in [Tasks -> Scopes \cup {"none"}]
               /\ task' \in [Tasks -> {"none", "active", "finished"}]
    <3>1. /\ task' = [task EXCEPT ![t] = "active"]
          /\ scopeOf' = [scopeOf EXCEPT ![t] = sc]
          /\ latest' = [latest EXCEPT ![sc] = t]
      BY <2>2, SubmitTaskEffect
    <3>. QED
      BY <3>1 DEF SubmitTypes
  <2>. QED
    BY <2>1, <2>2, TasksEffect DEF SubmitTypes
<1>3. pending' \in [Actors -> SUBSET Scopes] /\ got' \in [Actors -> SUBSET Tasks]
  <2>1. ASSUME NEW p \in Pollers, FireCommit(p)
        PROVE  pending' \in [Actors -> SUBSET Scopes] /\ got' \in [Actors -> SUBSET Tasks]
    BY <2>1, FireCommitEffect DEF SubmitTypes
  <2>2. ASSUME NEW a \in Actors, NEW sc \in Scopes, NEW t \in Tasks, SubmitTask(a, sc, t)
        PROVE  pending' \in [Actors -> SUBSET Scopes] /\ got' \in [Actors -> SUBSET Tasks]
    <3>1. /\ pending' = [pending EXCEPT ![a] = @ \ {sc}]
          /\ got' = [got EXCEPT ![a] = @ \cup {t}]
      BY <2>2, SubmitTaskEffect
    <3>. QED
      BY <3>1 DEF SubmitTypes
  <2>3. ASSUME NEW a \in Actors, NEW sc \in Scopes, SubmitRefused(a, sc)
        PROVE  pending' \in [Actors -> SUBSET Scopes] /\ got' \in [Actors -> SUBSET Tasks]
    BY <2>3, SubmitRefusedEffect DEF SubmitTypes
  <2>4. ASSUME NEW a \in Actors, Record(a)
        PROVE  pending' \in [Actors -> SUBSET Scopes] /\ got' \in [Actors -> SUBSET Tasks]
    BY <2>4, RecordStep DEF SubmitTypes
  <2>5. CASE UNCHANGED <<pending, got>>
    BY <2>5 DEF SubmitTypes
  <2>. QED
    BY <2>1, <2>2, <2>3, <2>4, <2>5, SubmissionCases
<1>4. faults' = 0
  BY Undisturbed
<1>. QED
  BY <1>1, <1>2, <1>3, <1>4 DEF SubmitTypes

(* A firing dispatcher commits Phase 1. *)
LEMMA DispatcherFires ==
    ASSUME Types, SubmitTypes, [Next]_vars, Alone, OnlyPollersSubmit, FireDue,
           NEW p \in Pollers, Fires(p)
    PROVE  FireCommit(p)
<1>1. p \in Actors /\ p \notin Callers /\ pc[p] \in {"fire", "trigger"} /\ pc'[p] = "submit"
  BY ScheduleAssumption DEF Fires, Actors
<1>2. ~ Record(p) /\ \A sc \in Scopes : /\ ~ SubmitRefused(p, sc)
                                        /\ \A t \in Tasks : ~ SubmitTask(p, sc, t)
  BY <1>1 DEF Record, SubmitRefused, SubmitTask, Submitted
<1>. QED
  BY <1>1, <1>2, Undisturbed, PhaseEffect

(* The overlap policy skip is kept: a lone dispatcher whose writes         *)
(* succeed, in a service where nobody triggers schedules by hand, never    *)
(* fires for a scope whose latest task is active.                          *)
THEOREM OverlapSkipped == ASSUME Alone PROVE Spec => SkipHolds
<1>1. Init => SkipInv
  BY DEF Init, SkipInv, SubmitTypes, OnlyPollersSubmit, HoldsTasks, LatestRecorded,
         NewScopesClean, Actors
<1>2. IInv /\ SkipInv /\ [Next]_vars => SkipInv'
  BY PollersStep, NewScopesStep, LatestStep, HoldsStep, SubmitTypesStep DEF SkipInv, IInv
<1>3. IInv /\ SkipInv /\ [Next]_vars =>
        [\A p \in Pollers : (Fires(p) /\ snap[p].policy = "skip") =>
            \A sc \in pending'[p] : latest[sc] = "none" \/ task[latest[sc]] # "active"]_vars
  <2>. SUFFICES ASSUME IInv, SkipInv, [Next]_vars, NEW p \in Pollers, Fires(p),
                       snap[p].policy = "skip", NEW sc \in pending'[p]
                PROVE  latest[sc] = "none" \/ task[latest[sc]] # "active"
    OBVIOUS
  <2>. USE DEF SkipInv, IInv
  <2>1. p \in Actors /\ FireCommit(p) /\ pc[p] = "fire" /\ pc'[p] = "submit"
    BY DispatcherFires DEF Actors, FireCommit, Fires
  <2>2. pending' = [pending EXCEPT ![p] = Eligible(cur[p], snap[p].policy)]
    BY <2>1 DEF FireCommit, Advance, Return, Types
  <2>3. sc \in Eligible(cur[p], "skip")
    BY <2>1, <2>2 DEF SubmitTypes
  <2>4. sc \in scopes /\ (lastTask[sc] = "none" \/ task[lastTask[sc]] # "active")
    BY <2>3 DEF Eligible, ScopesOf, isTaskActive
  <2>5. \A q \in Pollers : got[q] = {}
    BY <2>1 DEF Alone, HoldsTasks
  <2>. QED
    BY <2>4, <2>5 DEF LatestRecorded
<1>. QED
  BY <1>1, <1>2, <1>3, Invariance, PTL DEF Spec, SkipHolds

-----------------------------------------------------------------------------
(* The type invariant, for any number of failures and dispatchers.         *)

(* Lists of schedules, each of which occurs once. *)
List(q) == q \in Seq(Schedules) /\ Once(q)

LEMMA EmptyList == List(<< >>) /\ Listed(<< >>) = {}
  BY DEF List, Once, Listed

LEMMA WithoutList ==
    ASSUME NEW q, List(q), NEW s
    PROVE  List(Without(q, s)) /\ Listed(Without(q, s)) = Listed(q) \ {s}
<1>1. q \in Seq(Schedules) /\ Len(q) \in Nat /\ Once(q) /\ q \in [1..Len(q) -> Schedules]
  BY DEF List
<1>2. CASE s \notin Listed(q)
  BY <1>2 DEF Without
<1>3. CASE s \in Listed(q)
  <2>. DEFINE k == CHOOSE i \in 1..Len(q) : q[i] = s
              n == Len(q) - 1
              At(i) == IF i < k THEN i ELSE i + 1
              w == [i \in 1..n |-> q[At(i)]]
  <2>1. k \in 1..Len(q) /\ q[k] = s
    BY <1>3 DEF Listed
  <2>2. n \in Nat /\ Len(q) = n + 1
    BY <1>1, <2>1
  <2>3. Without(q, s) = w
    BY <1>3 DEF Without
  <2>. HIDE DEF k, n
  <2>4. \A i \in 1..n : At(i) \in 1..Len(q) /\ At(i) # k
    BY <1>1, <2>1, <2>2
  <2>5. \A i, j \in 1..n : At(i) = At(j) => i = j
    BY <1>1, <2>1, <2>2
  <2>6. \A j \in 1..Len(q) : j # k => \E i \in 1..n : At(i) = j
    <3>. SUFFICES ASSUME NEW j \in 1..Len(q), j # k
                  PROVE  \E i \in 1..n : At(i) = j
      OBVIOUS
    <3>1. CASE j < k
      <4>1. j \in 1..n /\ At(j) = j
        BY <1>1, <2>1, <2>2, <3>1
      <4>. QED
        BY <4>1
    <3>2. CASE ~ (j < k)
      <4>1. j - 1 \in 1..n /\ At(j - 1) = j
        BY <1>1, <2>1, <2>2, <3>2
      <4>. QED
        BY <4>1
    <3>. QED
      BY <3>1, <3>2
  <2>. HIDE DEF At
  <2>7. w \in [1..n -> Schedules] /\ \A i \in 1..n : w[i] = q[At(i)]
    BY <1>1, <2>4
  <2>. HIDE DEF w
  <2>8. w \in Seq(Schedules) /\ Len(w) = n
    BY <2>2, <2>7
  <2>9. Once(w)
    <3>. SUFFICES ASSUME NEW i \in 1..n, NEW j \in 1..n, w[i] = w[j]
                  PROVE  i = j
      BY <2>8 DEF Once
    <3>1. q[At(i)] = q[At(j)]
      BY <2>7
    <3>2. At(i) = At(j)
      BY <1>1, <2>4, <3>1 DEF Once
    <3>. QED
      BY <2>5, <3>2
  <2>10. Listed(w) = Listed(q) \ {s}
    <3>1. ASSUME NEW i \in 1..n
          PROVE  w[i] \in Listed(q) /\ w[i] # s
      <4>1. w[i] = q[At(i)] /\ At(i) \in 1..Len(q) /\ At(i) # k
        BY <2>4, <2>7
      <4>2. q[At(i)] # q[k]
        BY <1>1, <2>1, <4>1 DEF Once
      <4>. QED
        BY <2>1, <4>1, <4>2 DEF Listed
    <3>2. ASSUME NEW j \in 1..Len(q), q[j] # s
          PROVE  q[j] \in Listed(w)
      <4>1. PICK i \in 1..n : At(i) = j
        BY <2>1, <2>6, <3>2
      <4>2. w[i] = q[j]
        BY <2>7, <4>1
      <4>. QED
        BY <2>8, <4>2 DEF Listed
    <3>3. Listed(w) \subseteq Listed(q) \ {s}
      BY <2>8, <3>1 DEF Listed
    <3>4. Listed(q) \ {s} \subseteq Listed(w)
      BY <3>2 DEF Listed
    <3>. QED
      BY <3>3, <3>4
  <2>. QED
    BY <2>3, <2>8, <2>9, <2>10 DEF List
<1>. QED
  BY <1>2, <1>3

LEMMA AppendList ==
    ASSUME NEW q, List(q), NEW s \in Schedules, s \notin Listed(q)
    PROVE  List(Append(q, s)) /\ Listed(Append(q, s)) = Listed(q) \cup {s}
<1>. DEFINE w == Append(q, s)
<1>1. /\ q \in Seq(Schedules) /\ Len(q) \in Nat /\ w \in Seq(Schedules) /\ Len(w) = Len(q) + 1
      /\ w[Len(q) + 1] = s /\ \A i \in 1..Len(q) : w[i] = q[i]
  BY DEF List
<1>2. \A i \in 1..Len(w) : i \in 1..Len(q) \/ i = Len(q) + 1
  BY <1>1
<1>. HIDE DEF w
<1>3. Listed(w) = Listed(q) \cup {s}
  <2>1. Listed(w) \subseteq Listed(q) \cup {s}
    BY <1>1, <1>2 DEF Listed
  <2>2. \A i \in 1..Len(q) : i \in 1..Len(w)
    BY <1>1
  <2>3. Len(q) + 1 \in 1..Len(w)
    BY <1>1
  <2>4. Listed(q) \cup {s} \subseteq Listed(w)
    BY <1>1, <2>2, <2>3 DEF Listed
  <2>. QED
    BY <2>1, <2>4
<1>4. Once(w)
  <2>1. \A i, j \in 1..Len(q) : q[i] = q[j] => i = j
    BY DEF List, Once
  <2>2. \A i \in 1..Len(q) : q[i] # s
    BY DEF Listed
  <2>. QED
    BY <1>1, <1>2, <2>1, <2>2 DEF Once
<1>. QED
  BY <1>1, <1>3, <1>4 DEF List, w

LEMMA TailList ==
    ASSUME NEW q, List(q), q # << >>
    PROVE  List(Tail(q))
<1>. DEFINE w == Tail(q)
<1>1. /\ w \in Seq(Schedules) /\ Len(q) \in Nat /\ Len(w) = Len(q) - 1
      /\ \A i \in 1..Len(w) : w[i] = q[i + 1]
  BY DEF List
<1>. HIDE DEF w
<1>2. \A i, j \in 1..Len(w) : /\ i + 1 \in 1..Len(q) /\ j + 1 \in 1..Len(q)
                              /\ i + 1 = j + 1 => i = j
  BY <1>1
<1>3. Once(w)
  <2>. SUFFICES ASSUME NEW i \in 1..Len(w), NEW j \in 1..Len(w), w[i] = w[j]
                PROVE  i = j
    BY DEF Once
  <2>1. q[i + 1] = q[j + 1]
    BY <1>1
  <2>2. i + 1 = j + 1
    BY <1>2, <2>1 DEF List, Once
  <2>. QED
    BY <1>2, <2>2
<1>. QED
  BY <1>1, <1>3 DEF List, w

(* The rows that are due, in their order. *)
OverdueOK ==
    /\ List(overdue)
    /\ \A s \in Schedules : s \in Listed(overdue) <=> row[s].next = "due"

LEMMA WriteOverdue ==
    ASSUME row \in [Schedules -> Row], OverdueOK, NEW s \in Schedules, NEW r, WriteRow(s, r)
    PROVE  OverdueOK'
<1>1. /\ row'[s] = r /\ \A x \in Schedules \ {s} : row'[x] = row[x]
      /\ overdue' = IF r.next = "due" /\ row[s].next = "due" THEN overdue
                    ELSE IF r.next = "due" THEN Append(overdue, s)
                    ELSE Without(overdue, s)
  BY DEF WriteRow
<1>2. CASE r.next = "due" /\ row[s].next = "due"
  <2>1. overdue' = overdue
    BY <1>1, <1>2
  <2>. QED
    BY <1>1, <1>2, <2>1 DEF OverdueOK, List, Listed, Once
<1>3. CASE r.next = "due" /\ row[s].next # "due"
  <2>1. overdue' = Append(overdue, s) /\ s \notin Listed(overdue) /\ List(overdue)
    BY <1>1, <1>3 DEF OverdueOK
  <2>2. List(overdue') /\ Listed(overdue') = Listed(overdue) \cup {s}
    BY <2>1, AppendList
  <2>3. \A x \in Schedules : x \in Listed(overdue') <=> row'[x].next = "due"
    BY <1>1, <1>3, <2>2 DEF OverdueOK
  <2>. QED
    BY <2>2, <2>3 DEF OverdueOK, List, Listed, Once
<1>4. CASE r.next # "due"
  <2>1. overdue' = Without(overdue, s) /\ List(overdue)
    BY <1>1, <1>4 DEF OverdueOK
  <2>2. List(overdue') /\ Listed(overdue') = Listed(overdue) \ {s}
    BY <2>1, WithoutList
  <2>3. \A x \in Schedules : x \in Listed(overdue') <=> row'[x].next = "due"
    BY <1>1, <1>4, <2>2 DEF OverdueOK
  <2>. QED
    BY <2>2, <2>3 DEF OverdueOK, List, Listed, Once
<1>. QED
  BY <1>2, <1>3, <1>4

(* Rows are written by WriteRow only. *)
LEMMA RowsEffect ==
    ASSUME Types, SnapshotCurrent, [Next]_vars
    PROVE  UNCHANGED <<row, overdue>> \/ \E s \in Schedules : \E r : WriteRow(s, r)
<1>. DEFINE Kept == UNCHANGED <<row, overdue>>
            Wrote == \E s \in Schedules : \E r : WriteRow(s, r)
<1>. USE DEF tableVars
<1>0. \A a \in Actors : pc[a] \in InTransaction => cur[a] \in Schedules
  BY DEF SnapshotCurrent, Types
<1>1. ASSUME NEW s \in Schedules, Create(s) \/ Tick(s)
      PROVE  Wrote
  BY <1>1 DEF Create, Tick
<1>2. ASSUME NEW t \in Tasks, Finish(t)
      PROVE  Kept
  BY <1>2 DEF Finish
<1>3. ASSUME NEW p \in Pollers, Poll(p) \/ FireLock(p) \/ FireSkip(p) \/ FireFails(p)
      PROVE  Kept
  BY <1>3 DEF Poll, FireLock, FireSkip, FireFails
<1>4. ASSUME NEW p \in Pollers, FireCommit(p)
      PROVE  Wrote
  BY <1>0, <1>4 DEF FireCommit, Advance, InTransaction, Actors
<1>5. ASSUME NEW a \in Actors, NEW sc \in Scopes,
             SubmitRefused(a, sc) \/ \E t \in Tasks : SubmitTask(a, sc, t)
      PROVE  Kept
  BY <1>5 DEF SubmitRefused, SubmitTask, Submitted
<1>6. ASSUME NEW a \in Actors, Record(a) \/ RecordFails(a) \/ Crash(a)
      PROVE  Kept
  BY <1>6 DEF Record, RecordFails, Crash
<1>7. ASSUME NEW c \in Callers, NEW s \in Schedules,
             TriggerLock(c, s) \/ ResumeLock(c, s) \/ UpdateLock(c, s) \/
             RescopeLock(c, s) \/ PauseGet(c, s)
      PROVE  Kept
  BY <1>7 DEF TriggerLock, ResumeLock, UpdateLock, RescopeLock, PauseGet
<1>8. ASSUME NEW c \in Callers, NEW s \in Schedules, UpdatePolicy(c, s) \/ Delete(c, s)
      PROVE  Wrote
  BY <1>8 DEF UpdatePolicy, Delete
<1>9. ASSUME NEW c \in Callers, NEW sc \in Scopes, RemoveGet(c, sc)
      PROVE  Kept
  BY <1>9 DEF RemoveGet
<1>10. ASSUME NEW c \in Callers, TriggerCommit(c) \/ UpdateCommit(c)
       PROVE  Wrote
  BY <1>0, <1>10 DEF TriggerCommit, Advance, UpdateCommit, InTransaction, Actors
<1>11. ASSUME NEW c \in Callers, ResumeCommit(c) \/ PauseSet(c)
       PROVE  Kept \/ Wrote
  BY <1>0, <1>11 DEF ResumeCommit, PauseSet, InTransaction, Actors, Types
<1>12. ASSUME NEW c \in Callers,
              TriggerRefuse(c) \/ UpdateRefuse(c) \/ RescopeRefuse(c) \/
              RescopeCommit(c) \/ RemoveLock(c) \/
              RemoveCommit(c) \/ CallFails(c)
       PROVE  Kept
  BY <1>12 DEF TriggerRefuse, UpdateRefuse, RescopeRefuse, RescopeCommit, RemoveLock,
        RemoveCommit, CallFails
<1>13. CASE UNCHANGED vars
  BY <1>13 DEF vars
<1>14. ASSUME NEW r \in racks, PurgeRack(r)
       PROVE  Kept
  BY <1>14 DEF PurgeRack
<1>. QED
  BY <1>1, <1>2, <1>3, <1>4, <1>5, <1>6, <1>7, <1>8, <1>9, <1>10, <1>11, <1>12, <1>13, <1>14
     DEF Next, Dispatch, Begin, Proceed, Phases23, Actors

LEMMA OverdueStep ==
    ASSUME Types, SnapshotCurrent, OverdueOK, [Next]_vars
    PROVE  OverdueOK'
<1>1. CASE UNCHANGED <<row, overdue>>
  BY <1>1 DEF OverdueOK, List, Listed, Once
<1>. QED
  BY <1>1, RowsEffect, WriteOverdue DEF Types

-----------------------------------------------------------------------------
(* What a dispatcher has fetched. *)
TodoOK == todo \in [Actors -> Seq(Schedules)] /\ \A a \in Actors : Once(todo[a])

LEMMA FetchedList ==
    ASSUME OverdueOK, NEW q \in FetchDue
    PROVE  List(q)
<1>1. Fetchable \subseteq Schedules
  BY DEF Fetchable, OverdueOK, List, Listed
<1>2. PICK n \in 0..Batch : q \in [1..n -> Fetchable]
  <2>1. q \in UNION { [1..n -> Fetchable] : n \in 0..Batch }
    BY DEF FetchDue
  <2>. QED
    BY <2>1
<1>3. n \in Nat
  BY ScheduleAssumption
<1>4. q \in Seq(Schedules) /\ Len(q) = n
  BY <1>1, <1>2, <1>3
<1>5. \A s : ~ Before(s, s)
  <2>. SUFFICES ASSUME NEW i \in 1..Len(overdue), NEW j \in 1..Len(overdue), i < j,
                       overdue[i] = overdue[j]
                PROVE  FALSE
    BY DEF Before
  <2>1. i = j
    BY DEF OverdueOK, List, Once
  <2>. QED
    BY <2>1
<1>6. Once(q)
  <2>. SUFFICES ASSUME NEW i \in 1..Len(q), NEW j \in 1..Len(q), q[i] = q[j], i # j
                PROVE  FALSE
    BY DEF Once
  <2>1. i < j \/ j < i
    BY <1>3, <1>4
  <2>2. \A x, y \in 1..Len(q) : x < y => Before(q[x], q[y])
    BY DEF FetchDue
  <2>. QED
    BY <1>5, <2>1, <2>2
<1>. QED
  BY <1>4, <1>6 DEF List

LEMMA TodoStep ==
    ASSUME TodoOK, OverdueOK, [Next]_vars
    PROVE  TodoOK'
<1>. DEFINE Kept == UNCHANGED todo
<1>. USE DEF actorVars
<1>0. \A a \in Actors : List(todo[a])
  BY DEF TodoOK, List
<1>1. ASSUME NEW s \in Schedules, Create(s)
      PROVE  Kept
  BY <1>1 DEF Create
<1>2. ASSUME NEW s \in Schedules, Tick(s)
      PROVE  TodoOK'
  <2>1. todo' = [a \in Actors |-> Without(todo[a], s)]
    BY <1>2 DEF Tick
  <2>2. \A a \in Actors : List(Without(todo[a], s))
    BY <1>0, WithoutList
  <2>. QED
    BY <2>1, <2>2 DEF TodoOK, List
<1>3. ASSUME NEW t \in Tasks, Finish(t)
      PROVE  Kept
  BY <1>3 DEF Finish
<1>4. ASSUME NEW p \in Pollers, Poll(p)
      PROVE  TodoOK'
  <2>1. PICK q \in FetchDue : todo' = [todo EXCEPT ![p] = q]
    BY <1>4 DEF Poll
  <2>2. List(q)
    BY FetchedList
  <2>. QED
    BY <2>1, <2>2 DEF TodoOK, List
<1>5. ASSUME NEW p \in Pollers, FireLock(p) \/ FireSkip(p)
      PROVE  TodoOK'
  <2>1. todo' = [todo EXCEPT ![p] = Tail(@)] /\ todo[p] # << >> /\ p \in Actors
    BY <1>5 DEF FireLock, FireSkip, Drop, Actors
  <2>2. List(Tail(todo[p]))
    BY <1>0, <2>1, TailList
  <2>. QED
    BY <2>1, <2>2 DEF TodoOK, List
<1>6. ASSUME NEW p \in Pollers, FireCommit(p) \/ FireFails(p)
      PROVE  Kept
  BY <1>6 DEF FireCommit, Advance, FireFails
<1>7. ASSUME NEW a \in Actors, NEW sc \in Scopes,
             SubmitRefused(a, sc) \/ \E t \in Tasks : SubmitTask(a, sc, t)
      PROVE  Kept
  BY <1>7 DEF SubmitRefused, SubmitTask, Submitted
<1>8. ASSUME NEW a \in Actors, Record(a) \/ RecordFails(a)
      PROVE  Kept
  BY <1>8 DEF Record, RecordFails
<1>9. ASSUME NEW a \in Actors, Crash(a)
      PROVE  TodoOK'
  <2>1. todo' = [todo EXCEPT ![a] = << >>]
    BY <1>9 DEF Crash
  <2>. QED
    BY <2>1, EmptyList DEF TodoOK, List
<1>10. ASSUME NEW c \in Callers, NEW s \in Schedules,
             TriggerLock(c, s) \/ ResumeLock(c, s) \/ UpdateLock(c, s) \/
             RescopeLock(c, s) \/ PauseGet(c, s) \/ UpdatePolicy(c, s) \/ Delete(c, s)
       PROVE  Kept
  BY <1>10 DEF TriggerLock, ResumeLock, UpdateLock, RescopeLock, PauseGet, UpdatePolicy,
        Delete
<1>11. ASSUME NEW c \in Callers, NEW sc \in Scopes, RemoveGet(c, sc)
       PROVE  Kept
  BY <1>11 DEF RemoveGet
<1>12. ASSUME NEW c \in Callers,
              TriggerCommit(c) \/ TriggerRefuse(c) \/ ResumeCommit(c) \/
              UpdateCommit(c) \/ UpdateRefuse(c) \/ RescopeRefuse(c)
       PROVE  Kept
  BY <1>12 DEF TriggerCommit, Advance, TriggerRefuse, ResumeCommit, UpdateCommit,
        UpdateRefuse, RescopeRefuse
<1>13. ASSUME NEW c \in Callers,
              RescopeCommit(c) \/ PauseSet(c) \/ RemoveLock(c) \/ RemoveCommit(c) \/ CallFails(c)
       PROVE  Kept
  BY <1>13 DEF RescopeCommit, PauseSet, RemoveLock, RemoveCommit, CallFails
<1>14. ASSUME UNCHANGED vars
       PROVE  Kept
  BY <1>14 DEF vars
<1>15. ASSUME Kept
       PROVE  TodoOK'
  BY <1>15 DEF TodoOK, Once
<1>16. ASSUME NEW r \in racks, PurgeRack(r)
       PROVE  Kept
  BY <1>16 DEF PurgeRack
<1>. QED
  BY <1>1, <1>2, <1>3, <1>4, <1>5, <1>6, <1>7, <1>8, <1>9, <1>10, <1>11, <1>12, <1>13, <1>14,
     <1>15, <1>16 DEF Next, Dispatch, Begin, Proceed, Phases23, Actors

-----------------------------------------------------------------------------
(* The types of what a firing reads and writes. *)
FiringTypes ==
    /\ scopes \subseteq usedScopes /\ usedScopes \subseteq Scopes
    /\ lastTask \in [Scopes -> Tasks \cup {"none"}]
    /\ latest \in [Scopes -> Tasks \cup {"none"}]
    /\ scopeOf \in [Tasks -> Scopes \cup {"none"}]
    /\ task \in [Tasks -> {"none", "active", "finished"}]
    /\ pending \in [Actors -> SUBSET Scopes]
    /\ got \in [Actors -> SUBSET Tasks]
    /\ faults \in 0..MaxFaults

LEMMA ScopeTypesStep ==
    ASSUME Types, FiringTypes, [Next]_vars
    PROVE  /\ scopes' \subseteq usedScopes' /\ usedScopes' \subseteq Scopes
           /\ lastTask' \in [Scopes -> Tasks \cup {"none"}]
<1>. DEFINE Goal == /\ scopes' \subseteq usedScopes' /\ usedScopes' \subseteq Scopes
                    /\ lastTask' \in [Scopes -> Tasks \cup {"none"}]
<1>. SUFFICES Goal
  OBVIOUS
<1>. USE DEF FiringTypes, historyVars
<1>1. CASE UNCHANGED <<scopes, usedScopes, created, lastTask>>
  BY <1>1
<1>2. ASSUME NEW s \in Schedules, Create(s)
      PROVE  Goal
  <2>1. PICK S \in SUBSET { sc \in Scopes : ScheduleOf[sc] = s /\ RackOf[sc] \in racks } :
            scopes' = scopes \cup S /\ usedScopes' = usedScopes \cup S
    BY <1>2 DEF Create
  <2>2. lastTask' = lastTask
    BY <1>2 DEF Create
  <2>. QED
    BY <2>1, <2>2
<1>3. ASSUME NEW c \in Callers, NEW s \in Schedules, Delete(c, s)
      PROVE  Goal
  BY <1>3 DEF Delete
<1>4. ASSUME NEW c \in Callers, RescopeCommit(c)
      PROVE  Goal
  <2>1. PICK new \in SUBSET { sc \in Scopes \ usedScopes :
                             ScheduleOf[sc] = cur[c] /\ RackOf[sc] \in racks },
             gone \in SUBSET ScopesOf(cur[c]) :
            /\ scopes' = (scopes \ gone) \cup new
            /\ lastTask' = [sc \in Scopes |-> IF sc \in gone THEN "none" ELSE lastTask[sc]]
            /\ usedScopes' = usedScopes \cup new
    BY <1>4 DEF RescopeCommit
  <2>. QED
    BY <2>1
<1>5. ASSUME NEW c \in Callers, RemoveCommit(c)
      PROVE  Goal
  BY <1>5 DEF RemoveCommit, DeleteScopes
<1>6. ASSUME NEW a \in Actors, Record(a)
      PROVE  Goal
  <2>. DEFINE New(sc) == CHOOSE t \in got[a] : scopeOf[t] = sc
  <2>1. ASSUME NEW sc \in Scopes, \E t \in got[a] : sc \in scopes /\ scopeOf[t] = sc
        PROVE  New(sc) \in Tasks
    <3>1. New(sc) \in got[a]
      BY <2>1
    <3>. QED
      BY <3>1
  <2>2. lastTask' = [sc \in Scopes |->
                       IF \E t \in got[a] : sc \in scopes /\ scopeOf[t] = sc
                       THEN New(sc) ELSE lastTask[sc]]
    BY <1>6 DEF Record
  <2>3. UNCHANGED <<scopes, usedScopes>>
    BY <1>6 DEF Record
  <2>. HIDE DEF New
  <2>. QED
    BY <2>1, <2>2, <2>3
<1>7. ASSUME NEW r \in racks, PurgeRack(r)
      PROVE  Goal
  BY <1>7 DEF PurgeRack, DeleteScopes
<1>. QED
  BY <1>1, <1>2, <1>3, <1>4, <1>5, <1>6, <1>7, ScopeRowsEffect

LEMMA FiringTypesStep ==
    ASSUME Types, FiringTypes, [Next]_vars
    PROVE  FiringTypes'
<1>1. /\ task' \in [Tasks -> {"none", "active", "finished"}]
      /\ scopeOf' \in [Tasks -> Scopes \cup {"none"}]
      /\ latest' \in [Scopes -> Tasks \cup {"none"}]
  <2>. DEFINE Goal == /\ task' \in [Tasks -> {"none", "active", "finished"}]
                      /\ scopeOf' \in [Tasks -> Scopes \cup {"none"}]
                      /\ latest' \in [Scopes -> Tasks \cup {"none"}]
  <2>. SUFFICES Goal
    OBVIOUS
  <2>1. CASE UNCHANGED <<task, scopeOf, latest>>
    BY <2>1 DEF FiringTypes
  <2>2. ASSUME NEW t \in Tasks, Finish(t)
        PROVE  Goal
    BY <2>2 DEF FiringTypes, Finish, historyVars
  <2>3. ASSUME NEW a \in Actors, NEW sc \in Scopes, NEW t \in Tasks, SubmitTask(a, sc, t)
        PROVE  Goal
    BY <2>3 DEF FiringTypes, SubmitTask
  <2>. QED
    BY <2>1, <2>2, <2>3, TasksEffect
<1>2. /\ pending' \in [Actors -> SUBSET Scopes]
      /\ got' \in [Actors -> SUBSET Tasks]
  <2>. DEFINE Goal == /\ pending' \in [Actors -> SUBSET Scopes]
                      /\ got' \in [Actors -> SUBSET Tasks]
  <2>. SUFFICES Goal
    OBVIOUS
  <2>1. CASE UNCHANGED <<pending, got>>
    BY <2>1 DEF FiringTypes
  <2>2. ASSUME NEW a \in Actors, NEW S \in SUBSET Scopes, Advance(a, S)
        PROVE  Goal
    BY <2>2 DEF FiringTypes, Advance
  <2>3. ASSUME NEW p \in Pollers, FireCommit(p)
        PROVE  Goal
    <3>1. Eligible(cur[p], snap[p].policy) \in SUBSET Scopes
      BY DEF Eligible, ScopesOf, FiringTypes
    <3>. QED
      BY <2>2, <2>3, <3>1 DEF FireCommit, Actors
  <2>4. ASSUME NEW c \in Callers, TriggerCommit(c)
        PROVE  Goal
    <3>1. ScopesOf(cur[c]) \in SUBSET Scopes
      BY DEF ScopesOf, FiringTypes
    <3>. QED
      BY <2>2, <2>4, <3>1 DEF TriggerCommit, Actors
  <2>5. ASSUME NEW a \in Actors, Record(a) \/ RecordFails(a) \/ Crash(a)
        PROVE  Goal
    BY <2>5 DEF FiringTypes, Record, RecordFails, Crash
  <2>6. ASSUME NEW a \in Actors, NEW sc \in Scopes,
               SubmitRefused(a, sc) \/ \E t \in Tasks : SubmitTask(a, sc, t)
        PROVE  Goal
    BY <2>6 DEF FiringTypes, SubmitRefused, SubmitTask, Submitted
  <2>. QED
    BY <2>1, <2>3, <2>4, <2>5, <2>6, FiringEffect
<1>3. faults' \in 0..MaxFaults
  BY FaultsEffect, ScheduleAssumption DEF Fault, FiringTypes
<1>. QED
  BY <1>1, <1>2, <1>3, ScopeTypesStep DEF FiringTypes

-----------------------------------------------------------------------------
(* A firing is in Phase 2 while scopes are left to submit, and comes to    *)
(* Phase 3 with the tasks that it has to record.                           *)
PhasesOK ==
    \A a \in Actors : /\ pc[a] = "submit" <=> pending[a] # {}
                      /\ pc[a] = "record" => got[a] # {}

LEMMA PhasesStep ==
    ASSUME Types, FiringTypes, PhasesOK, [Next]_vars
    PROVE  PhasesOK'
<1>0. /\ pc \in [Actors -> Labels]
      /\ pending \in [Actors -> SUBSET Scopes] /\ got \in [Actors -> SUBSET Tasks]
  BY DEF Types, FiringTypes
<1>. USE <1>0 DEF Return, Goto
<1>1. ASSUME NEW a \in Actors, NEW S, Advance(a, S), pc[a] \in {"fire", "trigger"}
      PROVE  PhasesOK'
  <2>1. CASE S = {}
    BY <1>1, <2>1 DEF PhasesOK, Advance
  <2>2. CASE S # {}
    BY <1>1, <2>2 DEF PhasesOK, Advance
  <2>. QED
    BY <2>1, <2>2
<1>2. ASSUME NEW p \in Pollers, FireCommit(p)
      PROVE  PhasesOK'
  BY <1>1, <1>2 DEF FireCommit, Actors
<1>3. ASSUME NEW c \in Callers, TriggerCommit(c)
      PROVE  PhasesOK'
  BY <1>1, <1>3 DEF TriggerCommit, Actors
<1>4. ASSUME NEW a \in Actors, Record(a) \/ RecordFails(a) \/ Crash(a)
      PROVE  PhasesOK'
  BY <1>4 DEF PhasesOK, Record, RecordFails, Crash
<1>5. ASSUME NEW a \in Actors, NEW sc \in Scopes, NEW new, Submitted(a, sc, new)
      PROVE  PhasesOK'
  <2>1. CASE pending[a] # {sc}
    <3>1. pending[a] \ {sc} # {}
      BY <1>5, <2>1 DEF Submitted
    <3>. QED
      BY <1>5, <2>1, <3>1 DEF PhasesOK, Submitted
  <2>2. CASE pending[a] = {sc} /\ got[a] \cup new = {}
    BY <1>5, <2>2 DEF PhasesOK, Submitted
  <2>3. CASE pending[a] = {sc} /\ got[a] \cup new # {}
    BY <1>5, <2>3 DEF PhasesOK, Submitted
  <2>. QED
    BY <2>1, <2>2, <2>3
<1>6. ASSUME \A p \in Pollers : ~ FireCommit(p),
             \A c \in Callers : ~ TriggerCommit(c),
             \A a \in Actors : ~ (Record(a) \/ RecordFails(a) \/ Crash(a)),
             \A a \in Actors, sc \in Scopes :
                ~ (SubmitRefused(a, sc) \/ \E t \in Tasks : SubmitTask(a, sc, t))
      PROVE  PhasesOK'
  <2>. SUFFICES ASSUME NEW x \in Actors
                PROVE  /\ pc'[x] = "submit" <=> pending'[x] # {}
                       /\ pc'[x] = "record" => got'[x] # {}
    BY DEF PhasesOK
  <2>1. UNCHANGED <<pending, got>>
    BY <1>6, FiringEffect
  <2>2. CASE pc'[x] = pc[x]
    BY <2>1, <2>2 DEF PhasesOK
  <2>3. CASE pc'[x] # pc[x]
    <3>1. pc[x] \notin {"submit", "record"} /\ pc'[x] \notin {"submit", "record"}
      <4>1. ASSUME NEW s \in Schedules, TriggerLock(x, s)
            PROVE  pc[x] = "idle" /\ pc'[x] = "trigger"
        BY <4>1 DEF TriggerLock, Call, Lock
      <4>. QED
        BY <1>6, <2>3, <4>1, PhaseEffect
    <3>. QED
      BY <2>1, <3>1 DEF PhasesOK
  <2>. QED
    BY <2>2, <2>3
<1>. QED
  BY <1>2, <1>3, <1>4, <1>5, <1>6 DEF SubmitRefused, SubmitTask

-----------------------------------------------------------------------------
(* A dispatcher or an RPC that is at work has a schedule. *)
AtWork == \A a \in Actors : pc[a] = "idle" <=> cur[a] = "none"

LEMMA AtWorkStep ==
    ASSUME Types, SnapshotCurrent, AtWork, [Next]_vars
    PROVE  AtWork'
<1>0. /\ pc \in [Actors -> Labels] /\ cur \in [Actors -> Schedules \cup {"none"}]
      /\ live \subseteq Schedules /\ "none" \notin Schedules /\ Pollers \subseteq Actors
      /\ Callers \subseteq Actors /\ scopes \subseteq Scopes
      /\ \A sc \in Scopes : ScheduleOf[sc] \in Schedules
  BY ScheduleAssumption DEF Types, Actors
<1>. DEFINE Kept == UNCHANGED <<pc, cur>>
<1>. USE DEF actorVars
<1>1. ASSUME Kept
      PROVE  AtWork'
  BY <1>1 DEF AtWork
<1>2. ASSUME NEW a \in Actors, Return(a)
      PROVE  AtWork'
  BY <1>0, <1>2 DEF AtWork, Return
<1>3. ASSUME NEW a \in Actors, NEW s, NEW label, label # "idle", Lock(a, s, label)
      PROVE  AtWork'
  BY <1>0, <1>3 DEF AtWork, Lock, Goto
<1>4. ASSUME NEW a \in Actors, NEW label, pc[a] # "idle", label # "idle",
             Goto(a, label), UNCHANGED cur
      PROVE  AtWork'
  BY <1>0, <1>4 DEF AtWork, Goto
<1>5. ASSUME NEW s \in Schedules, Create(s) \/ Tick(s)
      PROVE  AtWork'
  BY <1>1, <1>5 DEF Create, Tick
<1>6. ASSUME NEW t \in Tasks, Finish(t)
      PROVE  AtWork'
  BY <1>1, <1>6 DEF Finish
<1>7. ASSUME NEW p \in Pollers, Poll(p) \/ FireSkip(p)
      PROVE  AtWork'
  BY <1>1, <1>7 DEF Poll, FireSkip
<1>8. ASSUME NEW p \in Pollers, FireLock(p)
      PROVE  AtWork'
  BY <1>0, <1>3, <1>8 DEF FireLock
<1>9. ASSUME NEW p \in Pollers, FireFails(p)
      PROVE  AtWork'
  BY <1>0, <1>2, <1>9 DEF FireFails
<1>10. ASSUME NEW a \in Actors, NEW S, Advance(a, S), pc[a] # "idle"
       PROVE  AtWork'
  BY <1>2, <1>4, <1>10 DEF Advance
<1>11. ASSUME NEW p \in Pollers, FireCommit(p)
       PROVE  AtWork'
  BY <1>0, <1>10, <1>11 DEF FireCommit
<1>12. ASSUME NEW a \in Actors, NEW sc \in Scopes, NEW new, Submitted(a, sc, new)
       PROVE  AtWork'
  BY <1>1, <1>2, <1>4, <1>12 DEF Submitted
<1>13. ASSUME NEW a \in Actors, Record(a) \/ RecordFails(a) \/ Crash(a)
       PROVE  AtWork'
  BY <1>2, <1>13 DEF Record, RecordFails, Crash
<1>14. ASSUME NEW c \in Callers, NEW s \in Schedules,
              TriggerLock(c, s) \/ ResumeLock(c, s) \/ UpdateLock(c, s) \/ RescopeLock(c, s)
       PROVE  AtWork'
  BY <1>0, <1>3, <1>14 DEF TriggerLock, ResumeLock, UpdateLock, RescopeLock
<1>15. ASSUME NEW c \in Callers, NEW s \in Schedules, PauseGet(c, s)
       PROVE  AtWork'
  BY <1>0, <1>15 DEF PauseGet, Goto, AtWork
<1>16. ASSUME NEW c \in Callers, NEW s \in Schedules, UpdatePolicy(c, s) \/ Delete(c, s)
       PROVE  AtWork'
  BY <1>1, <1>16 DEF UpdatePolicy, Delete
<1>17. ASSUME NEW c \in Callers, NEW sc \in Scopes, RemoveGet(c, sc)
       PROVE  AtWork'
  BY <1>0, <1>17 DEF RemoveGet, Goto, AtWork
<1>18. ASSUME NEW c \in Callers, TriggerCommit(c)
       PROVE  AtWork'
  BY <1>0, <1>10, <1>18 DEF TriggerCommit
<1>19. ASSUME NEW c \in Callers,
              TriggerRefuse(c) \/ ResumeCommit(c) \/ UpdateCommit(c) \/
              UpdateRefuse(c) \/ RescopeRefuse(c) \/
              RescopeCommit(c) \/ PauseSet(c) \/ RemoveCommit(c) \/ CallFails(c)
       PROVE  AtWork'
  <2>1. Return(c)
    BY <1>19 DEF TriggerRefuse, ResumeCommit, UpdateCommit, UpdateRefuse, RescopeRefuse,
          RescopeCommit,
                 PauseSet, RemoveCommit, CallFails
  <2>. QED
    BY <1>0, <1>2, <2>1
<1>20. ASSUME NEW c \in Callers, RemoveLock(c)
       PROVE  AtWork'
  BY <1>0, <1>2, <1>3, <1>20 DEF RemoveLock
<1>21. ASSUME UNCHANGED vars
       PROVE  AtWork'
  BY <1>1, <1>21 DEF vars
<1>22. ASSUME NEW r \in racks, PurgeRack(r)
       PROVE  AtWork'
  BY <1>1, <1>22 DEF PurgeRack
<1>. QED
  BY <1>5, <1>6, <1>7, <1>8, <1>9, <1>11, <1>12, <1>13, <1>14, <1>15, <1>16, <1>17, <1>18,
     <1>19, <1>20, <1>21, <1>22
     DEF Next, Dispatch, Begin, Proceed, Phases23, SubmitRefused, SubmitTask, Actors

-----------------------------------------------------------------------------
(* The steps that change the table. *)
LEMMA TableEffect ==
    ASSUME [Next]_vars
    PROVE  \/ UNCHANGED <<live, created, row, racks, scopes, fired>>
           \/ \E s \in Schedules : Create(s) \/ Tick(s)
           \/ \E p \in Pollers : FireCommit(p)
           \/ \E c \in Callers : \/ TriggerCommit(c) \/ ResumeCommit(c) \/ UpdateCommit(c)
                                 \/ RescopeCommit(c) \/ PauseSet(c) \/ RemoveCommit(c)
                                 \/ \E s \in Schedules : UpdatePolicy(c, s) \/ Delete(c, s)
           \/ \E r \in racks : PurgeRack(r)
<1>. DEFINE Kept == UNCHANGED <<live, created, row, racks, scopes, fired>>
<1>. USE DEF tableVars, actorVars, historyVars
<1>1. ASSUME NEW t \in Tasks, Finish(t)
      PROVE  Kept
  BY <1>1 DEF Finish
<1>2. ASSUME NEW p \in Pollers, Poll(p) \/ FireLock(p) \/ FireSkip(p) \/ FireFails(p)
      PROVE  Kept
  BY <1>2 DEF Poll, FireLock, FireSkip, FireFails
<1>3. ASSUME NEW a \in Actors, NEW sc \in Scopes,
             SubmitRefused(a, sc) \/ \E t \in Tasks : SubmitTask(a, sc, t)
      PROVE  Kept
  BY <1>3 DEF SubmitRefused, SubmitTask, Submitted
<1>4. ASSUME NEW a \in Actors, Record(a) \/ RecordFails(a) \/ Crash(a)
      PROVE  Kept
  BY <1>4 DEF Record, RecordFails, Crash
<1>5. ASSUME NEW c \in Callers, NEW s \in Schedules,
             TriggerLock(c, s) \/ ResumeLock(c, s) \/ UpdateLock(c, s) \/
             RescopeLock(c, s) \/ PauseGet(c, s)
      PROVE  Kept
  BY <1>5 DEF TriggerLock, ResumeLock, UpdateLock, RescopeLock, PauseGet
<1>6. ASSUME NEW c \in Callers, NEW sc \in Scopes, RemoveGet(c, sc)
      PROVE  Kept
  BY <1>6 DEF RemoveGet
<1>7. ASSUME NEW c \in Callers,
             TriggerRefuse(c) \/ UpdateRefuse(c) \/ RescopeRefuse(c) \/
             RemoveLock(c) \/ CallFails(c)
      PROVE  Kept
  BY <1>7 DEF TriggerRefuse, UpdateRefuse, RescopeRefuse, RemoveLock, CallFails
<1>8. CASE UNCHANGED vars
  BY <1>8 DEF vars
<1>. QED
  BY <1>1, <1>2, <1>3, <1>4, <1>5, <1>6, <1>7, <1>8
     DEF Next, Dispatch, Begin, Proceed, Phases23, Actors

(* Racks only leave the inventory. *)
RacksKnown == racks \subseteq { RackOf[sc] : sc \in Scopes }

LEMMA RacksStep ==
    ASSUME RacksKnown, [Next]_vars
    PROVE  RacksKnown'
<1>1. CASE UNCHANGED <<live, created, row, racks, scopes, fired>>
  BY <1>1 DEF RacksKnown
<1>2. ASSUME NEW s \in Schedules, Create(s) \/ Tick(s)
      PROVE  RacksKnown'
  BY <1>2 DEF Create, Tick, RacksKnown
<1>3. ASSUME NEW p \in Pollers, FireCommit(p)
      PROVE  RacksKnown'
  BY <1>3 DEF FireCommit, Advance, RacksKnown
<1>4. ASSUME NEW c \in Callers,
             TriggerCommit(c) \/ ResumeCommit(c) \/ UpdateCommit(c) \/ PauseSet(c)
      PROVE  RacksKnown'
  BY <1>4 DEF TriggerCommit, Advance, ResumeCommit, UpdateCommit, PauseSet, RacksKnown
<1>5. ASSUME NEW c \in Callers, RescopeCommit(c) \/ RemoveCommit(c)
      PROVE  RacksKnown'
  BY <1>5 DEF RescopeCommit, RemoveCommit, RacksKnown
<1>6. ASSUME NEW c \in Callers, NEW s \in Schedules, UpdatePolicy(c, s) \/ Delete(c, s)
      PROVE  RacksKnown'
  BY <1>6 DEF UpdatePolicy, Delete, RacksKnown
<1>7. ASSUME NEW r \in racks, PurgeRack(r)
      PROVE  RacksKnown'
  BY <1>7 DEF PurgeRack, RacksKnown
<1>. QED
  BY <1>1, <1>2, <1>3, <1>4, <1>5, <1>6, <1>7, TableEffect

-----------------------------------------------------------------------------
(* A change of scopes has a list of scopes, *)
SeenTyped == seen \in [Actors -> SUBSET Scopes]

LEMMA SeenTypedStep ==
    ASSUME Types, SeenTyped, [Next]_vars
    PROVE  SeenTyped'
<1>. USE DEF tableVars, actorVars, historyVars, SeenTyped
<1>0. \A s : ScopesOf(s) \subseteq Scopes
  BY DEF Types, ScopesOf
<1>1. ASSUME NEW a \in Actors, Return(a)
      PROVE  SeenTyped'
  BY <1>1 DEF Return
<1>2. ASSUME NEW c \in Actors, NEW s, ListScopes(c, s)
      PROVE  SeenTyped'
  <2>1. ScopesOf(s) \in SUBSET Scopes
    BY <1>0
  <2>. QED
    BY <1>2, <2>1 DEF ListScopes
<1>3. CASE seen' = seen
  BY <1>3
<1>4. ASSUME NEW s \in Schedules, Create(s) \/ Tick(s)
      PROVE  SeenTyped'
  BY <1>4 DEF Create, Tick
<1>5. ASSUME NEW t \in Tasks, Finish(t)
      PROVE  SeenTyped'
  BY <1>5 DEF Finish
<1>6. ASSUME NEW p \in Pollers,
             Poll(p) \/ FireLock(p) \/ FireSkip(p) \/ FireFails(p) \/ FireCommit(p)
      PROVE  SeenTyped'
  BY <1>1, <1>6 DEF Poll, FireLock, FireSkip, FireFails, FireCommit, Advance, Actors
<1>7. ASSUME NEW a \in Actors, NEW sc \in Scopes,
             SubmitRefused(a, sc) \/ \E t \in Tasks : SubmitTask(a, sc, t)
      PROVE  SeenTyped'
  BY <1>1, <1>7 DEF SubmitRefused, SubmitTask, Submitted
<1>8. ASSUME NEW a \in Actors, Record(a) \/ RecordFails(a) \/ Crash(a)
      PROVE  SeenTyped'
  BY <1>1, <1>8 DEF Record, RecordFails, Crash
<1>9. ASSUME NEW c \in Callers, NEW s \in Schedules,
             \/ TriggerLock(c, s) \/ ResumeLock(c, s) \/ UpdateLock(c, s)
             \/ PauseGet(c, s) \/ UpdatePolicy(c, s) \/ Delete(c, s)
      PROVE  SeenTyped'
  BY <1>9 DEF TriggerLock, ResumeLock, UpdateLock, PauseGet, UpdatePolicy, Delete
<1>10. ASSUME NEW c \in Callers, NEW s \in Schedules, RescopeLock(c, s)
       PROVE  SeenTyped'
  BY <1>2, <1>10 DEF RescopeLock, Actors
<1>11. ASSUME NEW c \in Callers, NEW sc \in Scopes, RemoveGet(c, sc)
       PROVE  SeenTyped'
  BY <1>11 DEF RemoveGet
<1>12. ASSUME NEW c \in Callers, RemoveLock(c)
       PROVE  SeenTyped'
  BY <1>1, <1>2, <1>12 DEF RemoveLock, Actors
<1>13. ASSUME NEW c \in Callers,
              \/ TriggerCommit(c) \/ TriggerRefuse(c) \/ ResumeCommit(c) \/ UpdateCommit(c)
              \/ UpdateRefuse(c) \/ RescopeCommit(c) \/ RescopeRefuse(c) \/ PauseSet(c)
              \/ RemoveCommit(c) \/ CallFails(c)
       PROVE  SeenTyped'
  BY <1>1, <1>13 DEF TriggerCommit, Advance, TriggerRefuse, ResumeCommit, UpdateCommit,
        UpdateRefuse, RescopeCommit, RescopeRefuse, PauseSet, RemoveCommit, CallFails, Actors
<1>14. ASSUME NEW r \in racks, PurgeRack(r)
       PROVE  SeenTyped'
  BY <1>14 DEF PurgeRack
<1>15. CASE UNCHANGED vars
  BY <1>15 DEF vars
<1>. QED
  BY <1>4, <1>5, <1>6, <1>7, <1>8, <1>9, <1>10, <1>11, <1>12, <1>13, <1>14, <1>15
     DEF Next, Dispatch, Begin, Proceed, Phases23, Actors

(* which it has just read, or held before. *)
Rescoping(x) == pc[x] \in {"rescope", "removing"}

LEMMA SeenPhase ==
    ASSUME Types, SeenTyped, [Next]_vars, NEW x \in Actors, Rescoping(x)'
    PROVE  \/ Rescoping(x) /\ cur'[x] = cur[x] /\ seen'[x] = seen[x]
           \/ seen'[x] = ScopesOf(cur'[x]) /\ scopes' = scopes /\ racks' = racks
<1>. DEFINE Kept == Rescoping(x) /\ cur'[x] = cur[x] /\ seen'[x] = seen[x]
            Read == seen'[x] = ScopesOf(cur'[x]) /\ scopes' = scopes /\ racks' = racks
<1>. USE DEF tableVars, actorVars, historyVars, Goto, Rescoping
<1>0. /\ pc \in [Actors -> Labels] /\ cur \in [Actors -> Schedules \cup {"none"}]
      /\ seen \in [Actors -> SUBSET Scopes]
  BY DEF Types, SeenTyped
<1>1. ASSUME NEW a \in Actors, Return(a)
      PROVE  Kept
  BY <1>0, <1>1 DEF Return
<1>2. ASSUME NEW s \in Schedules, Create(s) \/ Tick(s)
      PROVE  Kept
  BY <1>2 DEF Create, Tick
<1>3. ASSUME NEW t \in Tasks, Finish(t)
      PROVE  Kept
  BY <1>3 DEF Finish
<1>4. ASSUME NEW p \in Pollers, Poll(p) \/ FireSkip(p)
      PROVE  Kept
  BY <1>4 DEF Poll, FireSkip
<1>5. ASSUME NEW p \in Pollers, FireLock(p)
      PROVE  Kept
  BY <1>0, <1>5 DEF FireLock, Lock, Actors
<1>6. ASSUME NEW p \in Pollers, FireCommit(p) \/ FireFails(p)
      PROVE  Kept
  BY <1>0, <1>1, <1>6 DEF FireCommit, Advance, FireFails, Actors
<1>7. ASSUME NEW a \in Actors, NEW sc \in Scopes,
             SubmitRefused(a, sc) \/ \E t \in Tasks : SubmitTask(a, sc, t)
      PROVE  Kept
  BY <1>0, <1>1, <1>7 DEF SubmitRefused, SubmitTask, Submitted
<1>8. ASSUME NEW a \in Actors, Record(a) \/ RecordFails(a) \/ Crash(a)
      PROVE  Kept
  BY <1>1, <1>8 DEF Record, RecordFails, Crash
<1>9. ASSUME NEW c \in Callers, NEW s \in Schedules,
             TriggerLock(c, s) \/ ResumeLock(c, s) \/ UpdateLock(c, s) \/ PauseGet(c, s)
      PROVE  Kept
  BY <1>0, <1>9 DEF TriggerLock, ResumeLock, UpdateLock, PauseGet, Lock, Actors
<1>10. ASSUME NEW c \in Callers, NEW s \in Schedules, RescopeLock(c, s)
       PROVE  Kept \/ Read
  BY <1>0, <1>10 DEF RescopeLock, Lock, ListScopes, Actors
<1>11. ASSUME NEW c \in Callers, NEW s \in Schedules, UpdatePolicy(c, s) \/ Delete(c, s)
       PROVE  Kept
  BY <1>11 DEF UpdatePolicy, Delete
<1>12. ASSUME NEW c \in Callers, NEW sc \in Scopes, RemoveGet(c, sc)
       PROVE  Kept
  BY <1>0, <1>12 DEF RemoveGet, Actors
<1>13. ASSUME NEW c \in Callers, RemoveLock(c)
       PROVE  Kept \/ Read
  <2>1. CASE Return(c)
    BY <1>1, <2>1 DEF Actors
  <2>2. CASE Lock(c, cur[c], "removing") /\ ListScopes(c, cur[c])
    BY <1>0, <1>13, <2>2 DEF RemoveLock, Lock, ListScopes, Actors
  <2>. QED
    BY <1>13, <2>1, <2>2 DEF RemoveLock
<1>14. ASSUME NEW c \in Callers, TriggerCommit(c)
       PROVE  Kept
  BY <1>0, <1>1, <1>14 DEF TriggerCommit, Advance, Actors
<1>15. ASSUME NEW c \in Callers,
              \/ TriggerRefuse(c) \/ ResumeCommit(c) \/ UpdateCommit(c)
              \/ UpdateRefuse(c) \/ RescopeCommit(c) \/ RescopeRefuse(c) \/ PauseSet(c)
              \/ RemoveCommit(c) \/ CallFails(c)
       PROVE  Kept
  BY <1>1, <1>15 DEF TriggerRefuse, ResumeCommit, UpdateCommit, UpdateRefuse,
        RescopeCommit, RescopeRefuse, PauseSet, RemoveCommit, CallFails, Actors
<1>16. ASSUME NEW r \in racks, PurgeRack(r)
       PROVE  Kept
  BY <1>16 DEF PurgeRack
<1>17. CASE UNCHANGED vars
  BY <1>17 DEF vars
<1>. QED
  BY <1>2, <1>3, <1>4, <1>5, <1>6, <1>7, <1>8, <1>9, <1>10, <1>11, <1>12, <1>13, <1>14,
     <1>15, <1>16, <1>17
     DEF Next, Dispatch, Begin, Proceed, Phases23, Actors

(* A scope on the list still exists, or its rack has been purged: every    *)
(* other writer of the scopes of a schedule waits for the lock.            *)
SeenInv ==
    \A x \in Actors : Rescoping(x) =>
        \A sc \in seen[x] : /\ ScheduleOf[sc] = cur[x]
                            /\ sc \in scopes \/ RackOf[sc] \notin racks

LEMMA SeenStep ==
    ASSUME Types, SnapshotCurrent, TargetOwned, SeenTyped, SeenInv, [Next]_vars
    PROVE  SeenInv'
<1>. SUFFICES ASSUME NEW x \in Actors, Rescoping(x)', NEW sc \in seen'[x]
              PROVE  /\ ScheduleOf[sc] = cur'[x]
                     /\ sc \in scopes' \/ RackOf[sc] \notin racks'
  BY DEF SeenInv, Rescoping
<1>1. CASE seen'[x] = ScopesOf(cur'[x]) /\ scopes' = scopes /\ racks' = racks
  BY <1>1 DEF ScopesOf
<1>2. CASE Rescoping(x) /\ cur'[x] = cur[x] /\ seen'[x] = seen[x]
  <2>. DEFINE Stays == sc \in scopes' \/ RackOf[sc] \notin racks'
  <2>1. /\ ScheduleOf[sc] = cur[x]
        /\ sc \in scopes \/ RackOf[sc] \notin racks
        /\ ~ Free(cur[x])
        /\ \A b \in Actors \ {x} : pc[b] \in InTransaction => cur[b] # cur[x]
    <3>1. sc \in seen[x] /\ pc[x] \in InTransaction
      BY <1>2 DEF Rescoping, InTransaction
    <3>2. ScheduleOf[sc] = cur[x] /\ (sc \in scopes \/ RackOf[sc] \notin racks)
      BY <1>2, <3>1 DEF SeenInv
    <3>3. ~ Free(cur[x])
      BY <3>1 DEF Free
    <3>4. \A b \in Actors \ {x} : pc[b] \in InTransaction => cur[b] # cur[x]
      BY <3>1 DEF SnapshotCurrent
    <3>. QED
      BY <3>2, <3>3, <3>4
  <2>2. CASE racks' = racks /\ scopes \subseteq scopes'
    BY <1>2, <2>1, <2>2
  <2>3. ASSUME NEW s \in Schedules, Create(s) \/ Tick(s)
        PROVE  Stays
    BY <2>2, <2>3 DEF Create, Tick
  <2>4. ASSUME NEW p \in Pollers, FireCommit(p)
        PROVE  Stays
    BY <2>2, <2>4 DEF FireCommit, Advance
  <2>5. ASSUME NEW c \in Callers,
               TriggerCommit(c) \/ ResumeCommit(c) \/ UpdateCommit(c) \/ PauseSet(c)
        PROVE  Stays
    BY <2>2, <2>5 DEF TriggerCommit, Advance, ResumeCommit, UpdateCommit, PauseSet
  <2>6. ASSUME NEW c \in Callers, RescopeCommit(c) \/ RemoveCommit(c)
        PROVE  cur[c] # cur[x]
    <3>1. pc'[c] = "idle" /\ c \in Actors /\ pc[c] \in InTransaction
      BY <2>6 DEF RescopeCommit, RemoveCommit, Return, Actors, Types, InTransaction
    <3>2. c # x
      BY <3>1 DEF Rescoping
    <3>. QED
      BY <2>1, <3>1, <3>2
  <2>7. ASSUME NEW c \in Callers, RescopeCommit(c)
        PROVE  Stays
    BY <2>1, <2>6, <2>7 DEF RescopeCommit, ScopesOf
  <2>8. ASSUME NEW c \in Callers, RemoveCommit(c)
        PROVE  Stays
    <3>1. ScheduleOf[target[c]] = cur[c]
      BY <2>8 DEF RemoveCommit, TargetOwned, Actors
    <3>2. racks' = racks /\ (scopes' = scopes \/ scopes' = scopes \ {target[c]})
      BY <2>8 DEF RemoveCommit, DeleteScopes
    <3>. QED
      BY <2>1, <2>6, <2>8, <3>1, <3>2
  <2>9. ASSUME NEW c \in Callers, NEW s \in Schedules, UpdatePolicy(c, s)
        PROVE  Stays
    BY <2>2, <2>9 DEF UpdatePolicy
  <2>10. ASSUME NEW c \in Callers, NEW s \in Schedules, Delete(c, s)
         PROVE  Stays
    BY <2>1, <2>10 DEF Delete, ScopesOf
  <2>11. ASSUME NEW r \in racks, PurgeRack(r)
         PROVE  Stays
    BY <2>1, <2>11 DEF PurgeRack, DeleteScopes
  <2>12. CASE UNCHANGED <<live, created, row, racks, scopes, fired>>
    BY <2>2, <2>12
  <2>. QED
    BY <1>2, <2>1, <2>3, <2>4, <2>5, <2>7, <2>8, <2>9, <2>10, <2>11, <2>12, TableEffect
<1>. QED
  BY <1>1, <1>2, SeenPhase

-----------------------------------------------------------------------------
(* The type invariant with what makes it inductive: the row locks, without *)
(* which a commit could write a row that does not exist.                   *)
TypeInv ==
    /\ Types /\ SnapshotCurrent /\ OverdueOK /\ TodoOK /\ FiringTypes /\ PhasesOK
    /\ AtWork /\ RacksKnown /\ SeenTyped

LEMMA InitTypeInv == Init => TypeInv
<1>. SUFFICES ASSUME Init
              PROVE  TypeInv
  OBVIOUS
<1>1. Types /\ SnapshotCurrent
  BY InitIInv DEF IInv
<1>2. OverdueOK
  <2>1. overdue = << >> /\ \A s \in Schedules : row[s].next # "due"
    BY DEF Init, NoRow
  <2>. QED
    BY <2>1, EmptyList DEF OverdueOK
<1>3. TodoOK
  BY EmptyList DEF Init, TodoOK, List
<1>4. FiringTypes
  BY ScheduleAssumption DEF Init, FiringTypes
<1>5. PhasesOK /\ AtWork /\ RacksKnown /\ SeenTyped
  BY DEF Init, PhasesOK, AtWork, RacksKnown, SeenTyped
<1>. QED
  BY <1>1, <1>2, <1>3, <1>4, <1>5 DEF TypeInv

(* Every variable keeps its type, a schedule is listed as overdue exactly  *)
(* when its next_run_at has passed and listed once, no dispatcher fetches  *)
(* a schedule twice in a batch, and the phases of fire agree with what is  *)
(* left to submit and to record, for any number of dispatchers and RPCs.   *)
THEOREM TypeCorrect == Spec => []TypeOK
<1>1. TypeInv /\ [Next]_vars => TypeInv'
  <2>. SUFFICES ASSUME TypeInv, [Next]_vars
                PROVE  TypeInv'
    OBVIOUS
  <2>1. /\ Types /\ SnapshotCurrent /\ OverdueOK /\ TodoOK /\ FiringTypes /\ PhasesOK
        /\ AtWork /\ RacksKnown /\ SeenTyped
    BY DEF TypeInv
  <2>2. Types'
    BY <2>1, TypesStep
  <2>3. SnapshotCurrent'
    BY <2>1, <2>2, SnapshotStep
  <2>4. OverdueOK' /\ TodoOK'
    BY <2>1, OverdueStep, TodoStep
  <2>5. FiringTypes' /\ PhasesOK' /\ AtWork' /\ RacksKnown' /\ SeenTyped'
    BY <2>1, FiringTypesStep, PhasesStep, AtWorkStep, RacksStep, SeenTypedStep
  <2>. QED
    BY <2>2, <2>3, <2>4, <2>5 DEF TypeInv
<1>2. TypeInv => TypeOK
  <2>. SUFFICES ASSUME TypeInv
                PROVE  TypeOK
    OBVIOUS
  <2>1. overdue \in Seq(Schedules) /\ Once(overdue)
        /\ \A s \in Schedules : s \in Listed(overdue) <=> row[s].next = "due"
    BY DEF TypeInv, OverdueOK, List
  <2>2. fired \subseteq Schedules
    BY DEF TypeInv, Types
  <2>. QED
    BY <2>1, <2>2
       DEF TypeInv, TypeOK, Types, TodoOK, FiringTypes, PhasesOK, AtWork, RacksKnown,
           SeenTyped
<1>. QED
  BY <1>1, <1>2, InitTypeInv, PTL DEF Spec
-----------------------------------------------------------------------------
(* The table as ScheduleTable sees it.  A row is what its columns say, *)
LEMMA RowIs ==
    ASSUME NEW r \in Row
    PROVE  r = [type |-> r.type, enabled |-> r.enabled, next |-> r.next, policy |-> r.policy]
  BY DEF Row

(* and a step that writes no other row has put its columns there.          *)
LEMMA PutBy ==
    ASSUME row \in [Schedules -> Row], row' \in [Schedules -> Row],
           NEW s \in Schedules, OnlyRow(s)
    PROVE  Table!Put(s, row'[s].type, row'[s].enabled, row'[s].next, row'[s].policy)
<1>. DEFINE r == [type |-> row'[s].type, enabled |-> row'[s].enabled,
                  next |-> row'[s].next, policy |-> row'[s].policy]
<1>1. row'[s] = r
  BY RowIs
<1>2. row' = [row EXCEPT ![s] = r]
  <2>. HIDE DEF r
  <2>. QED
    BY <1>1 DEF OnlyRow
<1>. QED
  BY <1>2 DEF Table!Put

-----------------------------------------------------------------------------
(* The scope rows: their schedules exist, and no schedule has two for one  *)
(* rack.                                                                   *)
ScopesLive == \A sc \in scopes : ScheduleOf[sc] \in live
RacksOnce ==
    \A x, y \in scopes : ScheduleOf[x] = ScheduleOf[y] /\ RackOf[x] = RackOf[y] => x = y

(* A dispatcher holds a row that is due: nobody else writes it.            *)
FireNext == \A a \in Actors : pc[a] = "fire" => row[cur[a]].next = "due"

(* What RemoveTaskScheduleScope leaves. *)
LEMMA RemoveEffect ==
    ASSUME NEW c \in Callers, RemoveCommit(c)
    PROVE  /\ live' = live /\ created' = created /\ row' = row /\ fired' = fired
           /\ scopes' = scopes \/ scopes' = scopes \ {target[c]}
  BY DEF RemoveCommit, DeleteScopes, historyVars

(* A change of scopes leaves one, unless a rack on its list is gone. *)
Bereft(c) == \E sc \in seen[c] : RackOf[sc] \notin racks

LEMMA RemoveKeeps ==
    ASSUME TargetOwned, SeenInv, NEW c \in Callers, RemoveCommit(c)
    PROVE  \/ scopes' = scopes
           \/ /\ scopes' = scopes \ {target[c]} /\ ScheduleOf[target[c]] = cur[c]
              /\ ScopesOf(cur[c]) \ {target[c]} # {} \/ Bereft(c)
<1>1. CASE Cardinality(seen[c]) <= 1
  BY <1>1 DEF RemoveCommit
<1>2. CASE ~ (Cardinality(seen[c]) <= 1)
  <2>1. ScheduleOf[target[c]] = cur[c]
    BY DEF RemoveCommit, TargetOwned, Actors
  <2>2. PICK sc \in seen[c] : sc # target[c]
    <3>1. SUFFICES ASSUME seen[c] \subseteq {target[c]}
                   PROVE  FALSE
      OBVIOUS
    <3>2. IsFiniteSet({target[c]}) /\ Cardinality({target[c]}) = 1
      BY FS_Singleton
    <3>3. Cardinality(seen[c]) <= 1
      BY <3>1, <3>2, FS_Subset
    <3>. QED
      BY <1>2, <3>3
  <2>3. ScheduleOf[sc] = cur[c] /\ (sc \in scopes \/ RackOf[sc] \notin racks)
    BY <2>2 DEF RemoveCommit, SeenInv, Rescoping, Actors
  <2>4. scopes' = scopes \ {target[c]}
    BY <1>2 DEF RemoveCommit, DeleteScopes
  <2>. QED
    BY <2>1, <2>2, <2>3, <2>4 DEF ScopesOf, Bereft
<1>. QED
  BY <1>1, <1>2

LEMMA RescopeKeeps ==
    ASSUME SeenInv, NEW c \in Callers, RescopeCommit(c)
    PROVE  \E new \in SUBSET { sc \in Scopes \ usedScopes :
                             ScheduleOf[sc] = cur[c] /\ RackOf[sc] \in racks },
              gone \in SUBSET ScopesOf(cur[c]) :
             /\ (ScopesOf(cur[c]) \ gone) \cup new # {} \/ Bereft(c)
             /\ scopes' = (scopes \ gone) \cup new
<1>1. PICK new \in SUBSET { sc \in Scopes \ usedScopes :
                             ScheduleOf[sc] = cur[c] /\ RackOf[sc] \in racks },
           gone \in SUBSET ScopesOf(cur[c]) :
        (seen[c] \ gone) \cup new # {} /\ scopes' = (scopes \ gone) \cup new
  BY DEF RescopeCommit
<1>2. \A sc \in seen[c] : /\ ScheduleOf[sc] = cur[c]
                          /\ sc \in scopes \/ RackOf[sc] \notin racks
  BY DEF RescopeCommit, SeenInv, Rescoping, Actors
<1>3. (ScopesOf(cur[c]) \ gone) \cup new # {} \/ Bereft(c)
  BY <1>1, <1>2 DEF ScopesOf, Bereft
<1>. QED
  BY <1>1, <1>3

(* Scopes are created with their schedule or for one that is locked, and   *)
(* deleted with it.                                                        *)
LEMMA ScopesLiveStep ==
    ASSUME Types, SnapshotCurrent, ScopesLive, [Next]_vars
    PROVE  ScopesLive'
<1>1. CASE UNCHANGED <<live, created, row, racks, scopes, fired>>
  BY <1>1 DEF ScopesLive
<1>2. ASSUME NEW s \in Schedules, Create(s)
      PROVE  ScopesLive'
  BY <1>2 DEF Create, ScopesLive
<1>3. ASSUME NEW s \in Schedules, Tick(s)
      PROVE  ScopesLive'
  BY <1>3 DEF Tick, ScopesLive
<1>4. ASSUME NEW p \in Pollers, FireCommit(p)
      PROVE  ScopesLive'
  BY <1>4 DEF FireCommit, Advance, ScopesLive
<1>5. ASSUME NEW c \in Callers,
             TriggerCommit(c) \/ ResumeCommit(c) \/ UpdateCommit(c) \/ PauseSet(c)
      PROVE  ScopesLive'
  BY <1>5 DEF TriggerCommit, Advance, ResumeCommit, UpdateCommit, PauseSet, ScopesLive
<1>6. ASSUME NEW c \in Callers, RescopeCommit(c)
      PROVE  ScopesLive'
  <2>1. cur[c] \in live
    BY <1>6 DEF RescopeCommit, SnapshotCurrent, InTransaction, Actors
  <2>. QED
    BY <1>6, <2>1 DEF RescopeCommit, ScopesLive
<1>7. ASSUME NEW c \in Callers, RemoveCommit(c)
      PROVE  ScopesLive'
  BY <1>7, RemoveEffect DEF ScopesLive
<1>8. ASSUME NEW c \in Callers, NEW s \in Schedules, UpdatePolicy(c, s)
      PROVE  ScopesLive'
  BY <1>8 DEF UpdatePolicy, ScopesLive
<1>9. ASSUME NEW c \in Callers, NEW s \in Schedules, Delete(c, s)
      PROVE  ScopesLive'
  BY <1>9 DEF Delete, ScopesOf, ScopesLive
<1>10. ASSUME NEW r \in racks, PurgeRack(r)
       PROVE  ScopesLive'
  BY <1>10 DEF PurgeRack, DeleteScopes, ScopesLive
<1>. QED
  BY <1>1, <1>2, <1>3, <1>4, <1>5, <1>6, <1>7, <1>8, <1>9, <1>10, TableEffect

(* A new scope row is for a rack that has none. *)
LEMMA RacksOnceStep ==
    ASSUME Types, SnapshotCurrent, ScopesLive, RacksOnce, [Next]_vars
    PROVE  RacksOnce'
<1>1. CASE UNCHANGED <<live, created, row, racks, scopes, fired>>
  BY <1>1 DEF RacksOnce
<1>2. ASSUME NEW s \in Schedules, Create(s)
      PROVE  RacksOnce'
  <2>1. PICK S \in SUBSET { sc \in Scopes : ScheduleOf[sc] = s /\ RackOf[sc] \in racks } :
            OneRowPerRack(S) /\ scopes' = scopes \cup S
    BY <1>2 DEF Create
  <2>2. \A sc \in scopes : ScheduleOf[sc] # s
    BY <1>2 DEF Create, ScopesLive, Types
  <2>. QED
    BY <2>1, <2>2 DEF RacksOnce, OneRowPerRack
<1>3. ASSUME NEW s \in Schedules, Tick(s)
      PROVE  RacksOnce'
  BY <1>3 DEF Tick, RacksOnce
<1>4. ASSUME NEW p \in Pollers, FireCommit(p)
      PROVE  RacksOnce'
  BY <1>4 DEF FireCommit, Advance, RacksOnce
<1>5. ASSUME NEW c \in Callers,
             TriggerCommit(c) \/ ResumeCommit(c) \/ UpdateCommit(c) \/ PauseSet(c)
      PROVE  RacksOnce'
  BY <1>5 DEF TriggerCommit, Advance, ResumeCommit, UpdateCommit, PauseSet, RacksOnce
<1>6. ASSUME NEW c \in Callers, RescopeCommit(c)
      PROVE  RacksOnce'
  <2>1. PICK new \in SUBSET { sc \in Scopes \ usedScopes :
                             ScheduleOf[sc] = cur[c] /\ RackOf[sc] \in racks },
             gone \in SUBSET ScopesOf(cur[c]) :
               /\ OneRowPerRack(new \cup ScopesOf(cur[c]))
               /\ scopes' = (scopes \ gone) \cup new
    BY <1>6 DEF RescopeCommit
  <2>2. \A x \in scopes' : \/ x \in scopes /\ ScheduleOf[x] # cur[c]
                           \/ x \in new \cup ScopesOf(cur[c]) /\ ScheduleOf[x] = cur[c]
    BY <2>1 DEF ScopesOf
  <2>. QED
    BY <2>1, <2>2 DEF RacksOnce, OneRowPerRack
<1>7. ASSUME NEW c \in Callers, RemoveCommit(c)
      PROVE  RacksOnce'
  BY <1>7, RemoveEffect DEF RacksOnce
<1>8. ASSUME NEW c \in Callers, NEW s \in Schedules, UpdatePolicy(c, s)
      PROVE  RacksOnce'
  BY <1>8 DEF UpdatePolicy, RacksOnce
<1>9. ASSUME NEW c \in Callers, NEW s \in Schedules, Delete(c, s)
      PROVE  RacksOnce'
  BY <1>9 DEF Delete, RacksOnce
<1>10. ASSUME NEW r \in racks, PurgeRack(r)
       PROVE  RacksOnce'
  BY <1>10 DEF PurgeRack, DeleteScopes, RacksOnce
<1>. QED
  BY <1>1, <1>2, <1>3, <1>4, <1>5, <1>6, <1>7, <1>8, <1>9, <1>10, TableEffect

(* Who holds a row for a firing has just locked it, or held it before. *)
LEMMA FirePhase ==
    ASSUME Types, [Next]_vars, NEW x \in Actors, pc'[x] = "fire"
    PROVE  \/ x \in Pollers /\ FireLock(x)
           \/ pc[x] = "fire" /\ cur'[x] = cur[x]
<1>. DEFINE Kept == pc[x] = "fire" /\ cur'[x] = cur[x]
<1>. USE DEF tableVars, actorVars, historyVars, Return, Goto
<1>0. pc \in [Actors -> Labels] /\ cur \in [Actors -> Schedules \cup {"none"}]
  BY DEF Types
<1>1. ASSUME NEW s \in Schedules, Create(s) \/ Tick(s)
      PROVE  Kept
  BY <1>1 DEF Create, Tick
<1>2. ASSUME NEW t \in Tasks, Finish(t)
      PROVE  Kept
  BY <1>2 DEF Finish
<1>3. ASSUME NEW p \in Pollers, Poll(p) \/ FireSkip(p)
      PROVE  Kept
  BY <1>3 DEF Poll, FireSkip
<1>4. ASSUME NEW p \in Pollers, FireLock(p), x # p
      PROVE  Kept
  BY <1>0, <1>4 DEF FireLock, Lock, Actors
<1>5. ASSUME NEW p \in Pollers, FireCommit(p) \/ FireFails(p)
      PROVE  Kept
  BY <1>0, <1>5 DEF FireCommit, Advance, FireFails, Actors
<1>6. ASSUME NEW a \in Actors, NEW sc \in Scopes,
             SubmitRefused(a, sc) \/ \E t \in Tasks : SubmitTask(a, sc, t)
      PROVE  Kept
  BY <1>0, <1>6 DEF SubmitRefused, SubmitTask, Submitted
<1>7. ASSUME NEW a \in Actors, Record(a) \/ RecordFails(a) \/ Crash(a)
      PROVE  Kept
  BY <1>0, <1>7 DEF Record, RecordFails, Crash
<1>8. ASSUME NEW c \in Callers, NEW s \in Schedules,
             TriggerLock(c, s) \/ ResumeLock(c, s) \/ UpdateLock(c, s) \/
             RescopeLock(c, s) \/ PauseGet(c, s)
      PROVE  Kept
  BY <1>0, <1>8 DEF TriggerLock, ResumeLock, UpdateLock, RescopeLock, PauseGet, Lock, Actors
<1>9. ASSUME NEW c \in Callers, NEW s \in Schedules, UpdatePolicy(c, s) \/ Delete(c, s)
      PROVE  Kept
  BY <1>9 DEF UpdatePolicy, Delete
<1>10. ASSUME NEW c \in Callers, NEW sc \in Scopes, RemoveGet(c, sc)
       PROVE  Kept
  BY <1>0, <1>10 DEF RemoveGet, Actors
<1>11. ASSUME NEW c \in Callers,
              TriggerCommit(c) \/ TriggerRefuse(c) \/ ResumeCommit(c) \/ UpdateCommit(c) \/
              UpdateRefuse(c) \/ RescopeRefuse(c)
       PROVE  Kept
  BY <1>0, <1>11 DEF TriggerCommit, Advance, TriggerRefuse, ResumeCommit, UpdateCommit,
        UpdateRefuse, RescopeRefuse, Actors
<1>12. ASSUME NEW c \in Callers,
              RescopeCommit(c) \/ PauseSet(c) \/ RemoveLock(c) \/ RemoveCommit(c) \/
              CallFails(c)
       PROVE  Kept
  BY <1>0, <1>12 DEF RescopeCommit, PauseSet, RemoveLock, Lock, RemoveCommit, CallFails,
        Actors
<1>13. CASE UNCHANGED vars
  BY <1>13 DEF vars
<1>14. ASSUME NEW r \in racks, PurgeRack(r)
       PROVE  Kept
  BY <1>14 DEF PurgeRack
<1>. QED
  BY <1>1, <1>2, <1>3, <1>4, <1>5, <1>6, <1>7, <1>8, <1>9, <1>10, <1>11, <1>12, <1>13, <1>14
     DEF Next, Dispatch, Begin, Proceed, Phases23, Actors
LEMMA FireNextStep ==
    ASSUME Types, SnapshotCurrent, FireNext, [Next]_vars
    PROVE  FireNext'
<1>. SUFFICES ASSUME NEW x \in Actors, pc'[x] = "fire"
              PROVE  row'[cur'[x]].next = "due"
  BY DEF FireNext
<1>1. CASE x \in Pollers /\ FireLock(x)
  BY <1>1 DEF FireLock, Lock, Due, tableVars, Types
<1>2. CASE pc[x] = "fire" /\ cur'[x] = cur[x]
  <2>. DEFINE s == cur[x]
  <2>1. /\ s \in live /\ s \in Schedules /\ s \in created /\ row[s].next = "due"
        /\ ~ Free(s)
        /\ \A b \in Actors \ {x} : pc[b] \in InTransaction => cur[b] # s
    BY <1>2 DEF SnapshotCurrent, Types, FireNext, InTransaction, Free
  <2>2. row'[s] = row[s]
    <3>1. CASE UNCHANGED <<live, created, row, racks, scopes, fired>>
      BY <3>1
    <3>2. ASSUME NEW t \in Schedules, Create(t) \/ Tick(t)
          PROVE  row'[s] = row[s]
      BY <2>1, <3>2 DEF Create, Tick, WriteRow, Types
    <3>3. ASSUME NEW p \in Pollers, FireCommit(p)
          PROVE  row'[s] = row[s]
      <4>1. p \in Actors /\ pc[p] = "fire" /\ OnlyRow(cur[p]) /\ pc'[p] \in {"idle", "submit"}
        BY <3>3, AdvanceEffect DEF FireCommit, Actors
      <4>. QED
        BY <2>1, <4>1 DEF OnlyRow, InTransaction
    <3>4. ASSUME NEW c \in Callers, TriggerCommit(c)
          PROVE  row'[s] = row[s]
      <4>1. c \in Actors /\ pc[c] = "trigger" /\ OnlyRow(cur[c])
        BY <3>4, AdvanceEffect DEF TriggerCommit, Actors
      <4>. QED
        BY <1>2, <2>1, <4>1 DEF OnlyRow, InTransaction
    <3>5. ASSUME NEW c \in Callers, ResumeCommit(c)
          PROVE  row'[s] = row[s]
      <4>1. c \in Actors /\ pc[c] = "resume" /\ OnlyRow(cur[c])
        BY <3>5, ResumeEffect DEF ResumeCommit, Actors
      <4>. QED
        BY <1>2, <2>1, <4>1 DEF OnlyRow, InTransaction
    <3>6. ASSUME NEW c \in Callers, UpdateCommit(c)
          PROVE  row'[s] = row[s]
      <4>1. c \in Actors /\ pc[c] = "update" /\ OnlyRow(cur[c])
        BY <3>6, UpdateEffect DEF UpdateCommit, Actors
      <4>. QED
        BY <1>2, <2>1, <4>1 DEF OnlyRow, InTransaction
    <3>7. ASSUME NEW c \in Callers, PauseSet(c)
          PROVE  row'[s] = row[s]
      BY <3>7, <2>1, PauseEffect DEF PauseSet, OnlyRow
    <3>8. ASSUME NEW c \in Callers, RescopeCommit(c) \/ RemoveCommit(c)
          PROVE  row'[s] = row[s]
      BY <3>8 DEF RescopeCommit, RemoveCommit
    <3>9. ASSUME NEW c \in Callers, NEW t \in Schedules, UpdatePolicy(c, t) \/ Delete(c, t)
          PROVE  row'[s] = row[s]
      <4>1. t # s
        BY <2>1, <3>9 DEF UpdatePolicy, Delete
      <4>. QED
        BY <2>1, <3>9, <4>1 DEF UpdatePolicy, Delete, WriteRow, Types
    <3>10. ASSUME NEW r \in racks, PurgeRack(r)
           PROVE  row'[s] = row[s]
      BY <3>10 DEF PurgeRack
    <3>. QED
      BY <3>1, <3>2, <3>3, <3>4, <3>5, <3>6, <3>7, <3>8, <3>9, <3>10, TableEffect
  <2>. QED
    BY <1>2, <2>1, <2>2
<1>. QED
  BY <1>1, <1>2, FirePhase

-----------------------------------------------------------------------------
(* The invariant under which every step is one of ScheduleTable's. *)
TableInv == IInv /\ ScopesLive /\ RacksOnce /\ FireNext /\ SeenTyped /\ SeenInv

(* A schedule that may fire has not fired since it was given its spec. *)
LEMMA NotSpent ==
    ASSUME IInv, NEW s \in live, ~ Table!Spent(s)
    PROVE  Table!Fresh(s)
  BY DEF IInv, FiredConsumed, Table!Spent, Table!Fresh

(* CreateTaskSchedule *)
LEMMA CreateIs ==
    ASSUME TableInv, Types', NEW s \in Schedules, Create(s)
    PROVE  Table!Create(s)
<1>1. Types /\ ScopesLive
  BY DEF TableInv, IInv
<1>2. PICK y \in {"one-time", "recurring"}, q \in Policies,
           S \in SUBSET { sc \in Scopes : ScheduleOf[sc] = s /\ RackOf[sc] \in racks } :
         /\ S # {} /\ OneRowPerRack(S)
         /\ \E n \in FirstRun(y) :
               WriteRow(s, [type |-> y, enabled |-> TRUE, next |-> n, policy |-> q])
         /\ scopes' = scopes \cup S
  BY DEF Create
<1>3. \E t \in Table!Types, p \in Policies :
         \E n \in Table!FirstNext(t) : Table!Put(s, t, TRUE, n, p)
  BY <1>2 DEF WriteRow, FirstRun, Table!Types, Table!FirstNext, Table!Put
<1>4. \A sc \in scopes : ScheduleOf[sc] # s
  BY <1>1 DEF Create, ScopesLive, Types
<1>5. Table!Owned(s, scopes') = S
  BY <1>2, <1>4 DEF Table!Owned
<1>6. Table!Aims(s, scopes')
  <2>1. Table!Targeted(s, scopes')
    BY <1>2, <1>5 DEF Table!Targeted, OneRowPerRack
  <2>2. scopes' \subseteq Scopes
    BY DEF Types
  <2>3. \A sc \in Scopes : ScheduleOf[sc] # s => (sc \in scopes' <=> sc \in scopes)
    BY <1>2
  <2>4. \A sc \in scopes' \ scopes : RackOf[sc] \in racks
    BY <1>2
  <2>. QED
    BY <2>1, <2>2, <2>3, <2>4 DEF Table!Aims
<1>. QED
  BY <1>3, <1>6 DEF Create, Table!Create

(* Time passes. *)
LEMMA TickIs ==
    ASSUME TableInv, NEW s \in Schedules, Tick(s)
    PROVE  Table!Elapse(s)
<1>1. row \in [Schedules -> Row] /\ row[s] \in Row
  BY DEF TableInv, IInv, Types
<1>. DEFINE r == [row[s] EXCEPT !.next = "due"]
<1>2. /\ r \in Row /\ r.type = row[s].type /\ r.enabled = row[s].enabled
      /\ r.next = "due" /\ r.policy = row[s].policy
  BY <1>1, SetNext
<1>3. row' \in [Schedules -> Row] /\ row'[s] = r /\ OnlyRow(s)
  BY <1>1, <1>2, Written DEF Tick, OnlyRow
<1>4. Table!Write(s, row[s].enabled, "due")
  BY <1>1, <1>2, <1>3, PutBy DEF Table!Write
<1>. QED
  BY <1>4 DEF Tick, historyVars, Table!Elapse

(* The end of Phase 1, of a dispatcher or a trigger. *)
LEMMA AdvanceIs ==
    ASSUME TableInv, NEW a \in Actors, pc[a] \in {"fire", "trigger"}, NEW S, Advance(a, S),
           ~ Table!Spent(cur[a])
    PROVE  Table!Advance(cur[a])
<1>. DEFINE s == cur[a]
<1>1. Types /\ SnapshotCurrent /\ IInv
  BY DEF TableInv, IInv
<1>2. s \in live /\ s \in Schedules
  BY <1>1 DEF SnapshotCurrent, Types, InTransaction
<1>3. /\ Types' /\ OnlyRow(s) /\ live' = live /\ scopes' = scopes /\ created' = created
      /\ row'[s].type = row[s].type /\ row'[s].policy = row[s].policy
      /\ row[s].type = "one-time" => row'[s].enabled = FALSE /\ row'[s].next = "null"
      /\ row[s].type # "one-time" => /\ row'[s].enabled = row[s].enabled
                                     /\ row'[s].next = "future"
  BY <1>1, AdvanceEffect
<1>4. Table!Put(s, row[s].type, row'[s].enabled, row'[s].next, row[s].policy)
  <2>1. row \in [Schedules -> Row] /\ row' \in [Schedules -> Row]
    BY <1>1, <1>3 DEF Types
  <2>. QED
    BY <2>1, <1>2, <1>3, PutBy
<1>5. IF row[s].type = "one-time" THEN Table!Write(s, FALSE, "null")
                                  ELSE Table!Write(s, row[s].enabled, "future")
  BY <1>3, <1>4 DEF Table!Write
<1>6. Table!Fresh(s)
  BY <1>1, <1>2, NotSpent
<1>7. racks' = racks
  BY DEF Advance
<1>. QED
  BY <1>3, <1>5, <1>6, <1>7 DEF Table!Advance

LEMMA FireIs ==
    ASSUME TableInv, NEW p \in Pollers, FireCommit(p)
    PROVE  Table!Fire(cur[p])
<1>1. p \in Actors /\ pc[p] = "fire"
  BY DEF Actors, FireCommit
<1>2. cur[p] \in live /\ row[cur[p]].enabled /\ row[cur[p]].next = "due"
  BY <1>1 DEF TableInv, IInv, SnapshotCurrent, FireDue, FireNext, InTransaction
<1>3. Table!Advance(cur[p])
  BY <1>1, <1>2, AdvanceIs DEF FireCommit, Table!Spent
<1>4. fired' = fired \/ fired' = fired \cup {cur[p]}
  BY DEF FireCommit, Advance
<1>. QED
  BY <1>2, <1>3, <1>4 DEF Table!Fire

LEMMA TriggerIs ==
    ASSUME TableInv, NEW c \in Callers, TriggerCommit(c)
    PROVE  Table!Trigger(cur[c])
<1>1. c \in Actors /\ pc[c] = "trigger"
  BY DEF Actors, TriggerCommit
<1>2. /\ cur[c] \in live /\ IInv
      /\ snap[c].type = row[cur[c]].type /\ snap[c].enabled = row[cur[c]].enabled
      /\ snap[c].next = "null" <=> row[cur[c]].next = "null"
  BY <1>1 DEF TableInv, IInv, SnapshotCurrent, InTransaction
<1>3. ~ Table!Spent(cur[c])
  BY <1>2 DEF TriggerCommit, Consumed, IInv, EnabledHasNextRun, Table!Spent
<1>4. Table!Advance(cur[c])
  BY <1>1, <1>3, AdvanceIs DEF TriggerCommit
<1>5. fired' = IF Table!Owned(cur[c], scopes) = {} THEN fired ELSE fired \cup {cur[c]}
  BY <1>2 DEF TriggerCommit, Advance, ScopesOf, Table!Owned
<1>. QED
  BY <1>2, <1>3, <1>4, <1>5 DEF Table!Trigger

LEMMA PauseIs ==
    ASSUME TableInv, NEW c \in Callers, PauseSet(c)
    PROVE  (UNCHANGED Table!tvars) \/ (cur[c] \in Schedules /\ Table!Pause(cur[c]))
<1>1. Types
  BY DEF TableInv, IInv
<1>2. /\ Types' /\ OnlyRow(cur[c]) /\ fired' = fired
      /\ live' = live /\ scopes' = scopes /\ created' = created
      /\ cur[c] \in live => /\ row'[cur[c]].enabled = FALSE
                            /\ row'[cur[c]].type = row[cur[c]].type
                            /\ row'[cur[c]].next = row[cur[c]].next
                            /\ row'[cur[c]].policy = row[cur[c]].policy
      /\ cur[c] \notin live => row' = row
  BY <1>1, PauseEffect
<1>5. racks' = racks
  BY DEF PauseSet
<1>3. CASE cur[c] \notin live
  BY <1>2, <1>3, <1>5 DEF Table!tvars
<1>4. CASE cur[c] \in live
  <2>1. cur[c] \in Schedules /\ row \in [Schedules -> Row] /\ row' \in [Schedules -> Row]
    BY <1>1, <1>2, <1>4 DEF Types
  <2>2. Table!Write(cur[c], FALSE, row[cur[c]].next)
    BY <1>2, <1>4, <2>1, PutBy DEF Table!Write
  <2>. QED
    BY <1>2, <1>4, <1>5, <2>1, <2>2 DEF Table!Pause
<1>. QED
  BY <1>3, <1>4

LEMMA ResumeIs ==
    ASSUME TableInv, NEW c \in Callers, ResumeCommit(c)
    PROVE  (UNCHANGED Table!tvars) \/ Table!Resume(cur[c])
<1>. DEFINE s == cur[c]
<1>1. Types /\ SnapshotCurrent /\ s \in live /\ s \in Schedules
  BY DEF TableInv, IInv, SnapshotCurrent, Types, ResumeCommit, InTransaction, Actors
<1>2. /\ Types' /\ OnlyRow(s) /\ fired' = fired
      /\ live' = live /\ scopes' = scopes /\ created' = created
      /\ row'[s].type = row[s].type
      /\ \/ row' = row
         \/ /\ ~ Consumed(row[s]) /\ ~ row[s].enabled /\ row'[s].enabled = TRUE
            /\ row'[s].next = IF row[s].type = "recurring" THEN "future" ELSE row[s].next
            /\ row'[s].policy = row[s].policy
  BY <1>1, ResumeEffect
<1>5. racks' = racks
  BY DEF ResumeCommit
<1>3. CASE row' = row
  BY <1>2, <1>3, <1>5 DEF Table!tvars
<1>4. CASE row' # row
  <2>1. row \in [Schedules -> Row] /\ row' \in [Schedules -> Row]
    BY <1>1, <1>2 DEF Types
  <2>2. Table!Write(s, TRUE, IF row[s].type = "recurring" THEN "future" ELSE row[s].next)
    BY <1>1, <1>2, <1>4, <2>1, PutBy DEF Table!Write
  <2>3. ~ Table!Spent(s) /\ ~ row[s].enabled
    BY <1>2, <1>4 DEF Consumed, Table!Spent
  <2>. QED
    BY <1>1, <1>2, <1>5, <2>2, <2>3 DEF Table!Resume
<1>. QED
  BY <1>3, <1>4

LEMMA UpdateIs ==
    ASSUME TableInv, NEW c \in Callers, UpdateCommit(c)
    PROVE  Table!Update(cur[c])
<1>. DEFINE s == cur[c]
<1>1. /\ Types /\ SnapshotCurrent /\ s \in live /\ s \in Schedules
      /\ snap[c].type = row[s].type /\ snap[c].next = "null" <=> row[s].next = "null"
  BY DEF TableInv, IInv, SnapshotCurrent, Types, UpdateCommit, InTransaction, Actors
<1>2. /\ Types' /\ OnlyRow(s) /\ fired' = fired \ {s}
      /\ live' = live /\ scopes' = scopes /\ created' = created
      /\ row'[s].next \in FirstRun(row'[s].type)
      /\ row'[s].enabled = row[s].enabled
      /\ row'[s].policy \in Policies \cup {row[s].policy}
  BY <1>1, UpdateEffect
<1>3. /\ row \in [Schedules -> Row] /\ row' \in [Schedules -> Row]
      /\ row'[s].type \in {"one-time", "recurring"}
  BY <1>1, <1>2 DEF Types, Row
<1>4. Table!Put(s, row'[s].type, row[s].enabled, row'[s].next, row'[s].policy)
  BY <1>1, <1>2, <1>3, PutBy
<1>5. \E t \in Table!Types, p \in Policies \cup {row[s].policy} :
         \E n \in Table!FirstNext(t) : Table!Put(s, t, row[s].enabled, n, p)
  BY <1>2, <1>3, <1>4 DEF FirstRun, Table!Types, Table!FirstNext
<1>6. ~ Table!Spent(s)
  BY <1>1 DEF UpdateCommit, Consumed, Table!Spent
<1>7. racks' = racks
  BY DEF UpdateCommit
<1>. QED
  BY <1>1, <1>2, <1>5, <1>6, <1>7 DEF Table!Update

LEMMA PolicyIs ==
    ASSUME TableInv, NEW c \in Callers, NEW s \in Schedules, UpdatePolicy(c, s)
    PROVE  Table!SetPolicy(s)
<1>1. row \in [Schedules -> Row] /\ row[s] \in Row
  BY DEF TableInv, IInv, Types
<1>2. PICK q \in Policies : WriteRow(s, [row[s] EXCEPT !.policy = q])
  BY DEF UpdatePolicy
<1>. DEFINE r == [row[s] EXCEPT !.policy = q]
<1>3. /\ r \in Row /\ r.type = row[s].type /\ r.enabled = row[s].enabled
      /\ r.next = row[s].next /\ r.policy = q
  BY <1>1, ScheduleAssumption DEF Row
<1>4. row' \in [Schedules -> Row] /\ row'[s] = r /\ OnlyRow(s)
  BY <1>1, <1>2, <1>3, Written DEF OnlyRow
<1>5. Table!Put(s, row[s].type, row[s].enabled, row[s].next, q)
  BY <1>1, <1>3, <1>4, PutBy
<1>. QED
  BY <1>5 DEF UpdatePolicy, historyVars, Table!SetPolicy

(* A change that leaves no scope, though a rack of the list is gone. *)
LEMMA BereftIs ==
    ASSUME TableInv, TableInv', NEW c \in Callers, Rescoping(c), Bereft(c),
           live' = live, created' = created, row' = row, racks' = racks, fired' = fired,
           { sc \in scopes' : ScheduleOf[sc] = cur[c] } = {},
           \A sc \in Scopes : ScheduleOf[sc] # cur[c] => (sc \in scopes' <=> sc \in scopes)
    PROVE  Table!Retarget(cur[c])
<1>1. c \in Actors /\ cur[c] \in live
  BY DEF TableInv, IInv, SnapshotCurrent, Rescoping, InTransaction, Actors
<1>2. PICK sc \in seen[c] : RackOf[sc] \notin racks
  BY DEF Bereft
<1>3. sc \in Scopes /\ ScheduleOf[sc] = cur[c]
  BY <1>1, <1>2 DEF TableInv, SeenTyped, SeenInv
<1>4. scopes \subseteq Scopes /\ scopes' \subseteq Scopes
  BY DEF TableInv, IInv, Types
<1>5. scopes' = scopes \ Table!Owned(cur[c], scopes)
  BY <1>4 DEF Table!Owned
<1>. QED
  BY <1>1, <1>2, <1>3, <1>5 DEF Table!Retarget

(* AddTaskScheduleScope and UpdateTaskScheduleScope choose the schedule's  *)
(* scopes,                                                                 *)
LEMMA RescopeIs ==
    ASSUME TableInv, TableInv', NEW c \in Callers, RescopeCommit(c)
    PROVE  Table!Retarget(cur[c])
<1>. DEFINE s == cur[c]
<1>1. s \in live /\ Rescoping(c)
  BY DEF TableInv, IInv, SnapshotCurrent, RescopeCommit, Actors, InTransaction, Rescoping
<1>2. PICK new \in SUBSET { sc \in Scopes \ usedScopes :
                             ScheduleOf[sc] = s /\ RackOf[sc] \in racks },
           gone \in SUBSET ScopesOf(s) :
         /\ (ScopesOf(s) \ gone) \cup new # {} \/ Bereft(c)
         /\ scopes' = (scopes \ gone) \cup new
  BY RescopeKeeps DEF TableInv
<1>3. /\ \A sc \in Scopes : ScheduleOf[sc] # s => (sc \in scopes' <=> sc \in scopes)
      /\ \A sc \in scopes' \ scopes : RackOf[sc] \in racks
  BY <1>2 DEF ScopesOf
<1>4. live' = live /\ created' = created /\ row' = row /\ racks' = racks /\ fired' = fired
  BY DEF RescopeCommit
<1>5. CASE { sc \in scopes' : ScheduleOf[sc] = s } = {}
  <2>1. Bereft(c)
    BY <1>2, <1>5 DEF ScopesOf
  <2>. QED
    BY <1>1, <1>3, <1>4, <1>5, <2>1, BereftIs
<1>6. CASE { sc \in scopes' : ScheduleOf[sc] = s } # {}
  <2>1. Table!Targeted(s, scopes')
    BY <1>6 DEF TableInv, RacksOnce, Table!Targeted, Table!Owned
  <2>2. scopes' \subseteq Scopes
    BY DEF TableInv, IInv, Types
  <2>. QED
    BY <1>1, <1>3, <1>4, <2>1, <2>2 DEF Table!Aims, Table!Retarget
<1>. QED
  BY <1>5, <1>6

(* and RemoveTaskScheduleScope takes one of them away, or none. *)
LEMMA RemoveIs ==
    ASSUME TableInv, TableInv', NEW c \in Callers, RemoveCommit(c)
    PROVE  (UNCHANGED Table!tvars) \/ Table!Retarget(cur[c])
<1>. DEFINE s == cur[c]
<1>1. TargetOwned /\ SeenInv /\ s \in live /\ Rescoping(c)
  BY DEF TableInv, IInv, SnapshotCurrent, RemoveCommit, Actors, InTransaction, Rescoping
<1>2. live' = live /\ created' = created /\ row' = row /\ racks' = racks /\ fired' = fired
  BY RemoveEffect DEF RemoveCommit
<1>3. CASE scopes' = scopes
  BY <1>2, <1>3 DEF Table!tvars
<1>4. CASE scopes' # scopes
  <2>1. /\ scopes' = scopes \ {target[c]} /\ ScheduleOf[target[c]] = s
        /\ ScopesOf(s) \ {target[c]} # {} \/ Bereft(c)
    BY <1>1, <1>4, RemoveKeeps
  <2>2. CASE { sc \in scopes' : ScheduleOf[sc] = s } = {}
    <3>1. Bereft(c)
      BY <2>1, <2>2 DEF ScopesOf
    <3>2. \A sc \in Scopes : ScheduleOf[sc] # s => (sc \in scopes' <=> sc \in scopes)
      BY <2>1
    <3>. QED
      BY <1>1, <1>2, <2>2, <3>1, <3>2, BereftIs
  <2>3. CASE { sc \in scopes' : ScheduleOf[sc] = s } # {}
    <3>1. Table!Targeted(s, scopes')
      BY <2>3 DEF TableInv, RacksOnce, Table!Targeted, Table!Owned
    <3>2. scopes' \subseteq Scopes
      BY DEF TableInv, IInv, Types
    <3>. QED
      BY <1>1, <1>2, <2>1, <3>1, <3>2 DEF Table!Aims, Table!Retarget
  <2>. QED
    BY <2>2, <2>3
<1>. QED
  BY <1>3, <1>4

(* PurgeRack *)
LEMMA PurgeIs ==
    ASSUME NEW r \in racks, PurgeRack(r)
    PROVE  Table!Purge
<1>1. /\ live' = live /\ created' = created /\ row' = row /\ fired' = fired
      /\ racks' = racks \ {r}
      /\ scopes' = { sc \in scopes : RackOf[sc] # r }
  BY DEF PurgeRack, DeleteScopes, historyVars
<1>. QED
  BY <1>1 DEF Table!Purge

(* DeleteTaskSchedule *)
LEMMA DeleteIs ==
    ASSUME NEW c \in Callers, NEW s \in Schedules, Delete(c, s)
    PROVE  Table!Delete(s)
  BY DEF Delete, WriteRow, NoRow, ScopesOf, historyVars, Table!Delete, Table!Blank,
        Table!Owned

-----------------------------------------------------------------------------
(* Seen from the table every firing and every RPC is one step on the row   *)
(* as it is at that moment: nothing a dispatcher or a caller has read      *)
(* before the commit is stale, for any number of them, with crashes and    *)
(* rollbacks at any point.  A one-time schedule fires at most once per     *)
(* spec, a paused one is not fired by a dispatcher, and a consumed one is  *)
(* not resumed, triggered or updated.                                      *)
THEOREM TableIsSerial == Spec => ImplementsTable
<1>1. Init => Table!TInit
  BY DEF Init, NoRow, Table!TInit, Table!Blank
<1>2. Init => TableInv
  BY InitIInv DEF Init, TableInv, ScopesLive, RacksOnce, FireNext, SeenTyped, SeenInv,
        Rescoping, Actors
<1>3. TableInv /\ [Next]_vars => TableInv'
  <2>. SUFFICES ASSUME TableInv, [Next]_vars
                PROVE  TableInv'
    OBVIOUS
  <2>1. /\ Types /\ SnapshotCurrent /\ ScopesLive /\ RacksOnce /\ FireNext /\ IInv
        /\ TargetOwned /\ SeenTyped /\ SeenInv
    BY DEF TableInv, IInv
  <2>2. IInv'
    BY <2>1, IInvStep
  <2>. QED
    BY <2>1, <2>2, ScopesLiveStep, RacksOnceStep, FireNextStep, SeenTypedStep, SeenStep
       DEF TableInv
<1>4. TableInv /\ TableInv' /\ [Next]_vars => [Table!TNext]_(Table!tvars)
  <2>. SUFFICES ASSUME TableInv, TableInv', [Next]_vars
                PROVE  Table!TNext \/ UNCHANGED Table!tvars
    OBVIOUS
  <2>1. /\ Types'
        /\ \A a \in Actors : pc[a] \in InTransaction => cur[a] \in Schedules
    BY DEF TableInv, IInv, SnapshotCurrent, Types
  <2>2. CASE UNCHANGED <<live, created, row, racks, scopes, fired>>
    BY <2>2 DEF Table!tvars
  <2>3. ASSUME NEW s \in Schedules, Create(s) \/ Tick(s)
        PROVE  Table!TNext
    BY <2>1, <2>3, CreateIs, TickIs DEF Table!TNext
  <2>4. ASSUME NEW p \in Pollers, FireCommit(p)
        PROVE  Table!TNext
    BY <2>1, <2>4, FireIs DEF FireCommit, InTransaction, Actors, Table!TNext
  <2>5. ASSUME NEW c \in Callers, TriggerCommit(c) \/ UpdateCommit(c)
        PROVE  Table!TNext
    BY <2>1, <2>5, TriggerIs, UpdateIs
       DEF TriggerCommit, UpdateCommit, InTransaction, Actors, Table!TNext
  <2>6. ASSUME NEW c \in Callers, PauseSet(c)
        PROVE  Table!TNext \/ UNCHANGED Table!tvars
    BY <2>6, PauseIs DEF Table!TNext
  <2>7. ASSUME NEW c \in Callers, ResumeCommit(c)
        PROVE  Table!TNext \/ UNCHANGED Table!tvars
    BY <2>1, <2>7, ResumeIs DEF ResumeCommit, InTransaction, Actors, Table!TNext
  <2>8. ASSUME NEW c \in Callers, RescopeCommit(c) \/ RemoveCommit(c)
        PROVE  Table!TNext \/ UNCHANGED Table!tvars
    BY <2>1, <2>8, RescopeIs, RemoveIs
       DEF RescopeCommit, RemoveCommit, InTransaction, Actors, Table!TNext
  <2>9. ASSUME NEW c \in Callers, NEW s \in Schedules, UpdatePolicy(c, s) \/ Delete(c, s)
        PROVE  Table!TNext
    BY <2>9, PolicyIs, DeleteIs DEF Table!TNext
  <2>10. ASSUME NEW r \in racks, PurgeRack(r)
         PROVE  Table!TNext
    BY <2>10, PurgeIs DEF Table!TNext
  <2>. QED
    BY <2>2, <2>3, <2>4, <2>5, <2>6, <2>7, <2>8, <2>9, <2>10, TableEffect
<1>. QED
  BY <1>1, <1>2, <1>3, <1>4, PTL DEF Spec, ImplementsTable, Table!TSpec

-----------------------------------------------------------------------------
(* A schedule without scopes had none before, or racks of it have gone. *)
Stripped(s) ==
    \E c \in Callers : /\ pc[c] \in {"rescope", "removing"} /\ cur[c] = s
                       /\ \E sc \in seen[c] : RackOf[sc] \notin racks

LEMMA LastScopeStep ==
    ASSUME IInv, SeenInv, [Next]_vars, NEW s \in live',
           { sc \in scopes' : ScheduleOf[sc] = s } = {}
    PROVE  \/ s \in live /\ ScopesOf(s) = {}
           \/ \E sc \in ScopesOf(s) : RackOf[sc] \in racks \ racks'
           \/ Stripped(s)
<1>. DEFINE Goal == \/ s \in live /\ ScopesOf(s) = {}
                    \/ \E sc \in ScopesOf(s) : RackOf[sc] \in racks \ racks'
                    \/ Stripped(s)
<1>. SUFFICES Goal
  OBVIOUS
<1>1. CASE live' = live /\ scopes \subseteq scopes'
  BY <1>1 DEF ScopesOf
<1>2. ASSUME NEW x \in Schedules, Create(x)
      PROVE  Goal
  <2>1. PICK S \in SUBSET { sc \in Scopes : ScheduleOf[sc] = x /\ RackOf[sc] \in racks } :
            S # {} /\ scopes' = scopes \cup S
    BY <1>2 DEF Create
  <2>2. s # x
    BY <2>1
  <2>. QED
    BY <1>2, <2>1, <2>2 DEF Create, ScopesOf
<1>3. ASSUME NEW x \in Schedules, Tick(x)
      PROVE  Goal
  BY <1>1, <1>3 DEF Tick
<1>4. ASSUME NEW p \in Pollers, FireCommit(p)
      PROVE  Goal
  BY <1>1, <1>4 DEF FireCommit, Advance
<1>5. ASSUME NEW c \in Callers,
             TriggerCommit(c) \/ ResumeCommit(c) \/ UpdateCommit(c) \/ PauseSet(c)
      PROVE  Goal
  BY <1>1, <1>5 DEF TriggerCommit, Advance, ResumeCommit, UpdateCommit, PauseSet
<1>6. ASSUME NEW c \in Callers, RescopeCommit(c)
      PROVE  Goal
  <2>1. PICK new \in SUBSET { sc \in Scopes \ usedScopes :
                             ScheduleOf[sc] = cur[c] /\ RackOf[sc] \in racks },
             gone \in SUBSET ScopesOf(cur[c]) :
          /\ (ScopesOf(cur[c]) \ gone) \cup new # {} \/ Bereft(c)
          /\ scopes' = (scopes \ gone) \cup new
    BY <1>6, RescopeKeeps
  <2>2. s # cur[c] \/ Stripped(s)
    BY <1>6, <2>1 DEF RescopeCommit, ScopesOf, Bereft, Stripped
  <2>. QED
    BY <1>6, <2>1, <2>2 DEF RescopeCommit, ScopesOf
<1>7. ASSUME NEW c \in Callers, RemoveCommit(c)
      PROVE  Goal
  <2>1. live' = live
    BY <1>7 DEF RemoveCommit
  <2>2. CASE scopes' = scopes
    BY <1>1, <2>1, <2>2
  <2>3. CASE scopes' # scopes
    <3>1. /\ scopes' = scopes \ {target[c]} /\ ScheduleOf[target[c]] = cur[c]
          /\ ScopesOf(cur[c]) \ {target[c]} # {} \/ Bereft(c)
      BY <1>7, <2>3, RemoveKeeps DEF IInv
    <3>2. s # cur[c] \/ Stripped(s)
      BY <1>7, <3>1 DEF RemoveCommit, ScopesOf, Bereft, Stripped
    <3>. QED
      BY <2>1, <3>1, <3>2 DEF ScopesOf
  <2>. QED
    BY <2>2, <2>3
<1>8. ASSUME NEW c \in Callers, NEW x \in Schedules, UpdatePolicy(c, x)
      PROVE  Goal
  BY <1>1, <1>8 DEF UpdatePolicy
<1>9. ASSUME NEW c \in Callers, NEW x \in Schedules, Delete(c, x)
      PROVE  Goal
  BY <1>9 DEF Delete, ScopesOf
<1>10. ASSUME NEW r \in racks, PurgeRack(r)
       PROVE  Goal
  BY <1>10 DEF PurgeRack, DeleteScopes, ScopesOf
<1>11. CASE UNCHANGED <<live, created, row, racks, scopes, fired>>
  BY <1>1, <1>11
<1>. QED
  BY <1>2, <1>3, <1>4, <1>5, <1>6, <1>7, <1>8, <1>9, <1>10, <1>11, TableEffect

(* RemoveTaskScheduleScope's and applyScopeChanges' checks hold for every  *)
(* number of callers: whatever removals, replacements, firings and         *)
(* deletions run at the same time, a schedule loses its last rack only     *)
(* when that rack is purged from the inventory, or by a call that counted  *)
(* a rack which was purged before the call committed.                      *)
THEOREM LastScopeIsKept == Spec => LastScopeStays
<1>1. Init => IInv /\ SeenTyped /\ SeenInv
  BY InitIInv DEF Init, SeenTyped, SeenInv, Rescoping
<1>2. IInv /\ SeenTyped /\ SeenInv /\ [Next]_vars => (IInv /\ SeenTyped /\ SeenInv)'
  BY IInvStep, SeenTypedStep, SeenStep DEF IInv
<1>3. IInv /\ SeenInv /\ [Next]_vars =>
         [\A s \in live' : { sc \in scopes' : ScheduleOf[sc] = s } = {} =>
            \/ s \in live /\ ScopesOf(s) = {}
            \/ \E sc \in ScopesOf(s) : RackOf[sc] \in racks \ racks'
            \/ \E c \in Callers : /\ pc[c] \in {"rescope", "removing"} /\ cur[c] = s
                                 /\ \E sc \in seen[c] : RackOf[sc] \notin racks]_vars
  BY LastScopeStep DEF Stripped
<1>. QED
  BY <1>1, <1>2, <1>3, PTL DEF Spec, LastScopeStays
=============================================================================
