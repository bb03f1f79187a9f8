------------------------- MODULE MCRackReservation --------------------------
(***************************************************************************)
(* RackReservation on one rack, with every operation type and targets      *)
(* drawn from one component of each kind.                                  *)
(***************************************************************************)
EXTENDS RackReservation

CONSTANTS c1, n1, p1, o1, code

MCUUIDs == {c1, n1, p1, o1}
MCCodes == {code}

ByType(s) == [ct \in ComponentTypes |->
                CASE ct = "Compute"    -> s \cap {c1}
                  [] ct = "NVLSwitch"  -> s \cap {n1}
                  [] ct = "PowerShelf" -> s \cap {p1}
                  [] ct = "Other"      -> s \cap {o1}]

Ops == { [type |-> ty, code |-> code] : ty \in TaskTypes }

(* Every operation on every set of targets.                                *)
MCInfos == { [op |-> o, comps |-> ByType(s)] : o \in Ops, s \in SUBSET MCUUIDs }


CONSTANTS rk
MCRackOf == [t \in Tasks |-> rk]
MCRacks == {rk}
=============================================================================
