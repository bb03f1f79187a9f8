------------------------- MODULE TaskConflictProofs -------------------------
(***************************************************************************)
(* The conflict rule looks at one active task at a time, is symmetric and  *)
(* keeps disruptive operations on the same hardware apart, for every set   *)
(* of operations and components.                                           *)
(***************************************************************************)
EXTENDS TaskConflict, TLAPS

(* Rule.Conflicts looks at one active task at a time.                      *)
LEMMA ConflictsPointwise ==
    ASSUME NEW t, NEW S
    PROVE  Conflicts(t, S) <=> \E u \in S : Conflicts(t, {u})
<1>1. builtinRule # {}
  BY DEF builtinRule
<1> QED BY <1>1 DEF Conflicts, RuleConflicts

(* Every entry of a rule is applied in both directions.                    *)
LEMMA EntrySymmetric ==
    ASSUME NEW e, NEW t, NEW u
    PROVE  entryConflict(e, t, u) <=> entryConflict(e, u, t)
<1>1. componentUUIDsOverlap(t, u) <=> componentUUIDsOverlap(u, t)
  BY DEF componentUUIDsOverlap
<1> QED BY <1>1 DEF entryConflict

(* Rule.Conflicts is symmetric: it does not matter which of two tasks is   *)
(* the incoming one.                                                       *)
THEOREM ConflictsSymmetric ==
    ASSUME NEW t, NEW u
    PROVE  Conflicts(t, {u}) <=> Conflicts(u, {t})
<1>1. builtinRule # {}
  BY DEF builtinRule
<1> QED BY <1>1, EntrySymmetric DEF Conflicts, RuleConflicts

(* builtinRule has an entry for every pair of power or firmware operations *)
(* that target the same component of a guarded type.                       *)
LEMMA GuardedMatch ==
    ASSUME NEW i, NEW j, NEW ct \in {"Compute", "NVLSwitch", "PowerShelf"},
           i.op.type \in {"power_control", "firmware_control"},
           j.op.type \in {"power_control", "firmware_control"},
           NEW x, x \in i.comps[ct], x \in j.comps[ct]
    PROVE  \E e \in builtinRule : entryConflict(e, i, j)
<1>1. componentUUIDsOverlap(i, j)
  BY DEF componentUUIDsOverlap, AllComponentUUIDs, ComponentTypes
<1>2. i.comps[ct] # {} /\ j.comps[ct] # {}
  OBVIOUS
<1>3. CASE i.op.type = "power_control" /\ j.op.type = "power_control"
  <2>1. CASE ct = "PowerShelf"
    <3>1. entryConflict(Pair(Power("PowerShelf"), Power(Unknown), FALSE), i, j)
      BY <1>2, <1>3, <2>1 DEF entryConflict, opMatch, Matches, componentMatch,
             hasComponentType, Pair, Power, OpSpec, NoCode, Star, Unknown
    <3> QED BY <3>1 DEF builtinRule
  <2>2. CASE ct # "PowerShelf"
    <3>1. entryConflict(Pair(Power(ct), Power(ct), TRUE), i, j)
      BY <1>1, <1>2, <1>3, <2>2 DEF entryConflict, opMatch, Matches, componentMatch,
             hasComponentType, Pair, Power, OpSpec, NoCode, Star, Unknown
    <3> QED BY <2>2, <3>1 DEF builtinRule
  <2> QED BY <2>1, <2>2
<1>4. CASE i.op.type # j.op.type
  <2>1. CASE ct = "PowerShelf"
    <3>1. entryConflict(Pair(Power("PowerShelf"), Firmware(Unknown), FALSE), i, j)
      BY <1>2, <1>4, <2>1 DEF entryConflict, opMatch, Matches, componentMatch,
             hasComponentType, Pair, Power, Firmware, OpSpec, NoCode, Star, Unknown
    <3> QED BY <3>1 DEF builtinRule
  <2>2. CASE ct # "PowerShelf"
    <3>1. entryConflict(Pair(Power(ct), Firmware(ct), TRUE), i, j)
      BY <1>1, <1>2, <1>4, <2>2 DEF entryConflict, opMatch, Matches, componentMatch,
             hasComponentType, Pair, Power, Firmware, OpSpec, NoCode, Star, Unknown
    <3> QED BY <2>2, <3>1 DEF builtinRule
  <2> QED BY <2>1, <2>2
<1>5. CASE i.op.type = "firmware_control" /\ j.op.type = "firmware_control"
  <2>1. entryConflict(Pair(Firmware(Unknown), Firmware(Unknown), TRUE), i, j)
    BY <1>1, <1>5 DEF entryConflict, opMatch, Matches, componentMatch,
           hasComponentType, Pair, Firmware, OpSpec, NoCode, Star, Unknown
  <2> QED BY <2>1 DEF builtinRule
<1> QED BY <1>3, <1>4, <1>5

(* Two power or firmware operations that target the same compute tray,     *)
(* NVLink switch or power shelf conflict, whichever pair they are.         *)
THEOREM SharedHardwareConflicts ==
    ASSUME NEW i, NEW j, NEW ct \in {"Compute", "NVLSwitch", "PowerShelf"},
           i.op.type \in {"power_control", "firmware_control"},
           j.op.type \in {"power_control", "firmware_control"},
           NEW x, x \in i.comps[ct], x \in j.comps[ct]
    PROVE  Conflicts(i, {j})
<1>1. PICK e \in builtinRule : entryConflict(e, i, j)
  BY GuardedMatch
<1> QED BY <1>1 DEF Conflicts, RuleConflicts
=============================================================================
