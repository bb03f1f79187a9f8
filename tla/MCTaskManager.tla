---------------------------- MODULE MCTaskManager ---------------------------
(***************************************************************************)
(* TaskManager on one or two racks with a handful of power, firmware and   *)
(* bring-up tasks.                                                         *)
(***************************************************************************)
EXTENDS TaskManager

CONSTANTS c1, c2, code, t1, t2, t3, q1, q2, r1, r2

MCUUIDs == {c1, c2}
MCCodes == {code}

On(type, s) == [op |-> [type |-> type, code |-> code],
                comps |-> [ct \in ComponentTypes |-> IF ct = "Compute" THEN s ELSE {}]]

(* Operations of which any two conflict.                                   *)
Clashing == [t \in Tasks |-> CASE t = t1 -> On("power_control", {c1})
                               [] t = t2 -> On("firmware_control", {c1})
                               [] t = t3 -> On("bring_up", {c1, c2})]
(* t1 and t2 do not conflict with each other; t3 conflicts with both.      *)
Mixed == [t \in Tasks |-> CASE t = t1 -> On("power_control", {c1})
                            [] t = t2 -> On("power_control", {c2})
                            [] t = t3 -> On("firmware_control", {c1, c2})]

OneRack == [t \in Tasks |-> r1]
TwoRacks == [t \in Tasks |-> IF t = t3 THEN r2 ELSE r1]

OneClient == [t \in Tasks |-> q1]
TwoClients == [t \in Tasks |-> IF t = t1 THEN q1 ELSE q2]
=============================================================================
