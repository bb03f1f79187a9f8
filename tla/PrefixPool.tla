----------------------------- MODULE PrefixPool -----------------------------
(***************************************************************************)
(* What IPAM promises those who call it: a request to create, resize or    *)
(* delete a lease is served in one step on the leases as they are at that  *)
(* moment, with the size that was asked for, or it is refused and changes  *)
(* nothing.  Copies, versions, rows and retries are not seen.              *)
(***************************************************************************)
EXTENDS FiniteSets

CONSTANTS Calls, Leases, Prefixes

VARIABLES
    lease,      \* lease |-> its prefix, a set of addresses; {} if there is none
    request     \* call |-> what it asks for; op "none" if it asks for nothing

pvars == <<lease, request>>

NoPrefix == {}
NoRequest == [op |-> "none", lease |-> "none", size |-> 0]
Requested(l) == \E c \in Calls : request[c].op # "none" /\ request[c].lease = l

(* Prefixes of n addresses that lease l could have next to all others. *)
Available(l, n) ==
    { p \in Prefixes : Cardinality(p) = n /\ \A m \in Leases \ {l} : p \cap lease[m] = {} }

Ask(c, o, l, n) ==
    /\ request[c].op = "none" /\ ~ Requested(l)
    /\ IF o = "create" THEN lease[l] = NoPrefix ELSE lease[l] # NoPrefix
    /\ request' = [request EXCEPT ![c] = [op |-> o, lease |-> l, size |-> n]]
    /\ UNCHANGED lease

Serve(c) ==
    /\ request[c].op # "none"
    /\ \E p \in IF request[c].op = "delete" THEN {NoPrefix}
                ELSE Available(request[c].lease, request[c].size) :
         lease' = [lease EXCEPT ![request[c].lease] = p]
    /\ request' = [request EXCEPT ![c] = NoRequest]

Refuse(c) ==
    /\ request[c].op # "none"
    /\ request' = [request EXCEPT ![c] = NoRequest]
    /\ UNCHANGED lease

PInit ==
    /\ lease = [l \in Leases |-> NoPrefix]
    /\ request = [c \in Calls |-> NoRequest]

Sizes == { Cardinality(p) : p \in Prefixes }
PNext ==
    \E c \in Calls :
        \/ \E l \in Leases : \/ \E n \in Sizes : Ask(c, "create", l, n)
                             \/ \E n \in Sizes \ {Cardinality(lease[l])} : Ask(c, "resize", l, n)
                             \/ Ask(c, "delete", l, 0)
        \/ Serve(c) \/ Refuse(c)

PSpec == PInit /\ [][PNext]_pvars
=============================================================================
