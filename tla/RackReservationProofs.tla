----------------------- MODULE RackReservationProofs ------------------------
(***************************************************************************)
(* Theorems about RackReservation, for every number of tasks, racks and    *)
(* components.                                                             *)
(***************************************************************************)
EXTENDS RackReservation, TaskConflictProofs, TLAPS

-----------------------------------------------------------------------------
(* The types that Exclusive needs. *)
RTypeOK == state \in [Tasks -> {"none", "waiting", "active", "finished"}]

(* A task becomes active only next to tasks that it does not conflict      *)
(* with, and then they do not conflict with it either.                     *)
LEMMA ActivationKeepsExclusive ==
    ASSUME RTypeOK, Exclusive, NEW t \in Tasks,
           ~ Conflicts(attr[t], ActiveInfos(RackOf[t])),
           state' = [state EXCEPT ![t] = "active"], attr' = attr
    PROVE  Exclusive'
<1> SUFFICES ASSUME NEW v \in Tasks, NEW w \in Tasks, v # w, RackOf[v] = RackOf[w],
                    state'[v] = "active", state'[w] = "active"
             PROVE  ~ Conflicts(attr[v], {attr[w]})
  BY DEF Exclusive
<1>1. \A u \in Tasks : (u # t /\ state[u] = "active" /\ RackOf[u] = RackOf[t])
                          => ~ Conflicts(attr[t], {attr[u]})
  BY ConflictsPointwise DEF ActiveInfos
<1>2. \A u \in Tasks : u # t => state'[u] = state[u]
  BY DEF RTypeOK
<1>3. CASE v = t
  BY <1>1, <1>2, <1>3
<1>4. CASE w = t
  BY <1>1, <1>2, <1>4, ConflictsSymmetric
<1>5. CASE v # t /\ w # t
  BY <1>2, <1>5 DEF Exclusive
<1> QED BY <1>3, <1>4, <1>5

(* Two tasks that are active on one rack never conflict, whichever of the  *)
(* two SubmitTask or the promoter saw first.                               *)
THEOREM MutualExclusion == RSpec => []Exclusive
<1> DEFINE Inv == RTypeOK /\ Exclusive
<1>1. RInit => Inv
  BY DEF RInit, RTypeOK, Exclusive
<1>2. Inv /\ [RNext]_rvars => Inv'
  <2> SUFFICES ASSUME RTypeOK, Exclusive, [RNext]_rvars PROVE RTypeOK' /\ Exclusive'
    OBVIOUS
  <2>1. ASSUME NEW t \in Tasks, Admit(t) PROVE RTypeOK' /\ Exclusive'
    BY <2>1, ActivationKeepsExclusive DEF Admit, RTypeOK
  <2>2. ASSUME NEW t \in Tasks, Enqueue(t) PROVE RTypeOK' /\ Exclusive'
    BY <2>2 DEF Enqueue, RTypeOK, Exclusive
  <2>3. ASSUME NEW t \in Tasks, Promote(t) PROVE RTypeOK' /\ Exclusive'
    BY <2>3, ActivationKeepsExclusive DEF Promote, RTypeOK
  <2>4. ASSUME NEW t \in Tasks, Finish(t) PROVE RTypeOK' /\ Exclusive'
    BY <2>4 DEF Finish, RTypeOK, Exclusive
  <2>5. ASSUME NEW t \in Tasks, Drop(t) PROVE RTypeOK' /\ Exclusive'
    BY <2>5 DEF Drop, RTypeOK, Exclusive
  <2>6. CASE UNCHANGED rvars
    BY <2>6 DEF rvars, RTypeOK, Exclusive
  <2> QED BY <2>1, <2>2, <2>3, <2>4, <2>5, <2>6 DEF RNext
<1> QED BY <1>1, <1>2, PTL DEF RSpec

(* Where no two active tasks of a rack conflict, none of their power and   *)
(* firmware operations share a component of a guarded type: the component  *)
(* has one type, so both targets are found under the same one.             *)
LEMMA RuleCoversHardware ==
    ASSUME attr \in [Tasks -> Infos], Exclusive
    PROVE  HardwareExclusive
<1> SUFFICES ASSUME NEW t \in Tasks, NEW u \in Tasks, t # u, RackOf[t] = RackOf[u],
                    state[t] = "active", state[u] = "active",
                    Disruptive(t), Disruptive(u),
                    NEW x, x \in Guarded(t), x \in Guarded(u)
             PROVE  FALSE
  BY DEF HardwareExclusive
<1>1. PICK c \in ComponentTypes \ {"Other"} : x \in attr[t].comps[c]
  BY DEF Guarded
<1>2. PICK d \in ComponentTypes \ {"Other"} : x \in attr[u].comps[d]
  BY DEF Guarded
<1>3. c = d
  BY <1>1, <1>2, ReservationAssumption DEF OneTypePerComponent
<1>4. c \in {"Compute", "NVLSwitch", "PowerShelf"}
  BY DEF ComponentTypes
<1>5. Conflicts(attr[t], {attr[u]})
  BY <1>1, <1>2, <1>3, <1>4, SharedHardwareConflicts DEF Disruptive
<1> QED BY <1>5 DEF Exclusive

(* No compute tray, NVLink switch or power shelf is ever the target of two *)
(* active power or firmware operations of its rack.                        *)
THEOREM HardwareNeverShared == RSpec => []HardwareExclusive
<1> DEFINE Attr == attr \in [Tasks -> Infos]
<1>1. RInit => Attr
  BY DEF RInit
<1>2. Attr /\ [RNext]_rvars => Attr'
  BY DEF RNext, rvars, Admit, Enqueue, Promote, Finish, Drop
<1>3. Attr /\ Exclusive => HardwareExclusive
  BY RuleCoversHardware
<1> QED BY <1>1, <1>2, <1>3, MutualExclusion, PTL DEF RSpec

(* HasScheduleConflict, which sees only operation types and codes, never   *)
(* misses a pair of operations that the task manager would keep apart.     *)
THEOREM AdvisoryCheckComplete == RSpec => []AdvisoryComplete
<1>1. AdvisoryComplete
  <2> SUFFICES ASSUME NEW t \in Tasks, NEW S, Conflicts(attr[t], S)
               PROVE  HasScheduleConflict(attr[t].op, { i.op : i \in S })
    BY DEF AdvisoryComplete
  <2>1. builtinRule # {}
    BY DEF builtinRule
  <2>2. PICK u \in S, e \in builtinRule : entryConflict(e, attr[t], u)
    BY <2>1 DEF Conflicts, RuleConflicts
  <2>3. opMatch(e, attr[t].op, u.op) \/ opMatch(e, u.op, attr[t].op)
    BY <2>2 DEF entryConflict
  <2>4. u.op \in { i.op : i \in S }
    OBVIOUS
  <2> QED BY <2>3, <2>4 DEF HasScheduleConflict
<1> QED BY <1>1, PTL
=============================================================================
