------------------------------- MODULE MCIpam -------------------------------
(***************************************************************************)
(* Ipam on a block of four addresses of which a child may have one or two. *)
(***************************************************************************)
EXTENDS Ipam

MCPrefixes == {{0, 1}, {0}, {2}}
=============================================================================
