------------------------ MODULE MCFirmwareUpdates ---------------------------
(***************************************************************************)
(* FirmwareUpdates on one switch: a bundle of two components and a second  *)
(* call for a single one.                                                  *)
(***************************************************************************)
EXTENDS FirmwareUpdates

CONSTANTS u1, u2, u3, b1, b2, s1, w1, w2

MCBundleOf == [u \in Updates |-> IF u = u3 THEN b2 ELSE b1]
MCSwitchOf == [b \in Bundles |-> s1]
MCOrder == [u \in Updates |-> IF u = u2 THEN 2 ELSE 1]
MCFlow == [u \in Updates |-> CASE u = u1 -> "redfish" [] u = u2 -> "nvos" [] u = u3 -> "script"]
=============================================================================
