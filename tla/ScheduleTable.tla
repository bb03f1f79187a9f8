--------------------------- MODULE ScheduleTable ----------------------------
(***************************************************************************)
(* What dispatchers and RPCs promise together about the table of task      *)
(* schedules: every firing and every call takes effect in one step, on the *)
(* row as it is at that moment.  Polls, row locks, snapshots, submissions  *)
(* and crashes are not seen.                                               *)
(***************************************************************************)
CONSTANTS Schedules, Scopes, ScheduleOf, RackOf, Policies

VARIABLES
    live,       \* schedules that exist
    created,    \* schedules that existed
    row,        \* their columns
    racks,      \* racks of the inventory
    scopes,     \* scope rows that exist
    fired       \* schedules that fired since they were given their spec

tvars == <<live, created, row, racks, scopes, fired>>

Blank == [type |-> "recurring", enabled |-> FALSE, next |-> "null", policy |-> "skip"]
Owned(s, S) == { sc \in S : ScheduleOf[sc] = s }
Spent(s) == row[s].type = "one-time" /\ row[s].next = "null"
Fresh(s) == row[s].type = "one-time" => s \notin fired

(* One scope row at least, and one per rack at most. *)
Targeted(s, S) ==
    /\ Owned(s, S) # {}
    /\ \A x, y \in Owned(s, S) : RackOf[x] = RackOf[y] => x = y
Aims(s, S) ==
    /\ Targeted(s, S)
    /\ S \subseteq Scopes
    /\ \A sc \in Scopes : ScheduleOf[sc] # s => (sc \in S <=> sc \in scopes)
    /\ \A sc \in S \ scopes : RackOf[sc] \in racks

Types == {"one-time", "recurring"}
(* Only a one-time schedule may be due at once. *)
FirstNext(t) == IF t = "one-time" THEN {"future", "due"} ELSE {"future"}

Put(s, t, e, n, p) ==
    row' = [row EXCEPT ![s] = [type |-> t, enabled |-> e, next |-> n, policy |-> p]]
Write(s, e, n) == Put(s, row[s].type, e, n, row[s].policy)

Create(s) ==
    /\ s \notin created
    /\ live' = live \cup {s} /\ created' = created \cup {s}
    /\ \E t \in Types, p \in Policies : \E n \in FirstNext(t) : Put(s, t, TRUE, n, p)
    /\ Aims(s, scopes')
    /\ UNCHANGED <<racks, fired>>

Elapse(s) ==
    /\ s \in live /\ row[s].next = "future"
    /\ Write(s, row[s].enabled, "due")
    /\ UNCHANGED <<live, created, racks, scopes, fired>>

(* A one-time schedule is consumed, a recurring one waits for its next     *)
(* time; neither has become more enabled.                                  *)
Advance(s) ==
    /\ Fresh(s)
    /\ IF row[s].type = "one-time" THEN Write(s, FALSE, "null")
                                   ELSE Write(s, row[s].enabled, "future")
    /\ UNCHANGED <<live, created, racks, scopes>>

(* A dispatcher: nothing is submitted when the policy skips every scope. *)
Fire(s) ==
    /\ s \in live /\ row[s].enabled /\ row[s].next = "due"
    /\ Advance(s)
    /\ fired' = fired \/ fired' = fired \cup {s}

(* A trigger submits for every scope; a schedule whose racks are gone only *)
(* advances.                                                               *)
Trigger(s) ==
    /\ s \in live /\ ~ Spent(s)
    /\ Advance(s)
    /\ fired' = IF Owned(s, scopes) = {} THEN fired ELSE fired \cup {s}

Pause(s) ==
    /\ s \in live
    /\ Write(s, FALSE, row[s].next)
    /\ UNCHANGED <<live, created, racks, scopes, fired>>

Resume(s) ==
    /\ s \in live /\ ~ Spent(s) /\ ~ row[s].enabled
    /\ Write(s, TRUE, IF row[s].type = "recurring" THEN "future" ELSE row[s].next)
    /\ UNCHANGED <<live, created, racks, scopes, fired>>

Update(s) ==
    /\ s \in live /\ ~ Spent(s)
    /\ \E t \in Types, p \in Policies \cup {row[s].policy} :
         \E n \in FirstNext(t) : Put(s, t, row[s].enabled, n, p)
    /\ fired' = fired \ {s}
    /\ UNCHANGED <<live, created, racks, scopes>>

SetPolicy(s) ==
    /\ s \in live
    /\ \E p \in Policies : Put(s, row[s].type, row[s].enabled, row[s].next, p)
    /\ UNCHANGED <<live, created, racks, scopes, fired>>

(* Only when a rack has been purged may a change take the last scope.      *)
Retarget(s) ==
    /\ s \in live
    /\ \/ Aims(s, scopes')
       \/ /\ \E sc \in Scopes : ScheduleOf[sc] = s /\ RackOf[sc] \notin racks
          /\ scopes' = scopes \ Owned(s, scopes)
    /\ UNCHANGED <<live, created, row, racks, fired>>

Delete(s) ==
    /\ s \in live
    /\ live' = live \ {s}
    /\ row' = [row EXCEPT ![s] = Blank]
    /\ scopes' = scopes \ Owned(s, scopes)
    /\ UNCHANGED <<created, racks, fired>>

(* A rack leaves the inventory, and with it the scopes that name it. *)
Purge ==
    /\ \E r \in racks : /\ racks' = racks \ {r}
                        /\ scopes' = { sc \in scopes : RackOf[sc] # r }
    /\ UNCHANGED <<live, created, row, fired>>

TInit ==
    /\ live = {} /\ created = {} /\ scopes = {} /\ fired = {}
    /\ racks = { RackOf[sc] : sc \in Scopes }
    /\ row = [s \in Schedules |-> Blank]

TNext ==
    \/ \E s \in Schedules :
          \/ Retarget(s) \/ Create(s) \/ Elapse(s) \/ Fire(s) \/ Trigger(s) \/ Pause(s)
          \/ Resume(s) \/ Update(s) \/ SetPolicy(s) \/ Delete(s)
    \/ Purge

TSpec == TInit /\ [][TNext]_tvars
=============================================================================
