---------------------------- MODULE TaskConflict ----------------------------
(***************************************************************************)
(* The conflict rule of RLA's task manager                                 *)
(* (rla/internal/task/conflict/conflict.go): which two tasks may not be    *)
(* active on one rack at the same time.                                    *)
(*                                                                         *)
(* A task is seen through the fields the rule reads: its operation (type   *)
(* and code) and the component UUIDs it targets, by component type.        *)
(***************************************************************************)
CONSTANTS
    UUIDs,   \* component UUIDs
    Codes    \* operation codes ("power_on", "upgrade", ...)

(* taskcommon.TaskType and devicetypes.ComponentType.  "Other" stands for  *)
(* the component types that no entry of the rule names.                    *)
TaskTypes == {"inject_expectation", "power_control", "firmware_control",
              "bring_up"}
ComponentTypes == {"Compute", "NVLSwitch", "PowerShelf", "Other"}

(* The wildcards: ComponentTypeUnknown in an entry, "*" and the empty      *)
(* string in its operation fields.                                         *)
Unknown == "Unknown"
Star == "*"
NoCode == ""

Operation == [type: TaskTypes, code: Codes]
TaskInfo == [op: Operation, comps: [ComponentTypes -> SUBSET UUIDs]]

-----------------------------------------------------------------------------
(* OperationSpec and Entry *)
OpSpec(type, ct) == [type |-> type, code |-> NoCode, ct |-> ct]
Pair(a, b, overlap) == [A |-> a, B |-> b, overlap |-> overlap]

Power(ct) == OpSpec("power_control", ct)
Firmware(ct) == OpSpec("firmware_control", ct)

(* Mutant: one pair forgotten. *)
builtinRuleGap ==
    { Pair(Power("PowerShelf"), Power(Unknown), FALSE),
      Pair(Power("PowerShelf"), Firmware(Unknown), FALSE),
      Pair(Power("Compute"), Power("Compute"), TRUE),
      Pair(Power("NVLSwitch"), Power("NVLSwitch"), TRUE),
      Pair(Power("Compute"), Firmware("Compute"), TRUE),
      Pair(Firmware(Unknown), Firmware(Unknown), TRUE),
      Pair(OpSpec("bring_up", Unknown), OpSpec(Star, Unknown), FALSE) }

builtinRule ==
    { Pair(Power("PowerShelf"), Power(Unknown), FALSE),
      Pair(Power("PowerShelf"), Firmware(Unknown), FALSE),
      Pair(Power("Compute"), Power("Compute"), TRUE),
      Pair(Power("NVLSwitch"), Power("NVLSwitch"), TRUE),
      Pair(Power("Compute"), Firmware("Compute"), TRUE),
      Pair(Power("NVLSwitch"), Firmware("NVLSwitch"), TRUE),
      Pair(Firmware(Unknown), Firmware(Unknown), TRUE),
      Pair(OpSpec("bring_up", Unknown), OpSpec(Star, Unknown), FALSE) }

Matches(s, op) ==
    /\ s.type \in {Star, op.type}
    /\ s.code \in {NoCode, Star, op.code}

opMatch(e, a, b) == Matches(e.A, a) /\ Matches(e.B, b)

hasComponentType(t, ct) == ct # Unknown => t.comps[ct] # {}

componentMatch(e, t, u) ==
    hasComponentType(t, e.A.ct) /\ hasComponentType(u, e.B.ct)

AllComponentUUIDs(t) == UNION { t.comps[ct] : ct \in ComponentTypes }

componentUUIDsOverlap(t, u) == AllComponentUUIDs(t) \cap AllComponentUUIDs(u) # {}

(* Mutant: the pair is tried in one direction only. *)
entryConflictOneWay(e, t, u) ==
    /\ opMatch(e, t.op, u.op) /\ componentMatch(e, t, u)
    /\ e.overlap => componentUUIDsOverlap(t, u)

(* One iteration of the double loop: entry e makes t and u conflict.       *)
entryConflict(e, t, u) ==
    /\ \/ opMatch(e, t.op, u.op) /\ componentMatch(e, t, u)
       \/ opMatch(e, u.op, t.op) /\ componentMatch(e, u, t)
    /\ e.overlap => componentUUIDsOverlap(t, u)

(* Rule.Conflicts; a rule with no pairs is the exclusive mode.             *)
RuleConflicts(pairs, t, active) ==
    IF pairs = {} THEN active # {}
    ELSE \E u \in active, e \in pairs : entryConflict(e, t, u)

Conflicts(t, active) == RuleConflicts(builtinRule, t, active)

(* Mutant: the pair is tried in one direction only. *)
HasScheduleConflictOneWay(op, existing) ==
    \E o \in existing, e \in builtinRule : opMatch(e, op, o)

(* Resolver.HasScheduleConflict: type and code only.                       *)
HasScheduleConflict(op, existing) ==
    \E o \in existing, e \in builtinRule : opMatch(e, op, o) \/ opMatch(e, o, op)
=============================================================================
