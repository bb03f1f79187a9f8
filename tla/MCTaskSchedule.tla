--------------------------- MODULE MCTaskSchedule ---------------------------
(* Small instances of TaskSchedule for TLC. *)
EXTENDS TaskSchedule, TLC

CONSTANTS s1, s2, a1, b1, p1, p2, c1, c2, t1, t2, t3

(* One schedule with two racks, or two schedules with one rack each. *)
SameSchedule == [sc \in {a1, b1} |-> s1]
TwoSchedules == [sc \in {a1, b1} |-> IF sc = a1 THEN s1 ELSE s2]
(* A rack each, named like its scope. *)
RackEach == [sc \in {a1, b1} |-> sc]

(* Both schedules aim at one rack. *)
SharedRack == [sc \in {a1, b1} |-> a1]

(* One schedule with one rack. *)
OneScope == [sc \in {a1} |-> s1]
OneRack == [sc \in {a1} |-> sc]

(* Callers are alike, and scopes where both are of one schedule. *)
Symmetric == Permutations({a1, b1}) \cup Permutations({c1, c2})
=============================================================================
