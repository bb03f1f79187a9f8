------------------------------ MODULE EventBox ------------------------------
(***************************************************************************)
(* What the pipeline of an entry promises: a box of events between the     *)
(* trigger and the jobs.  Events are put into it in the order in which     *)
(* they occur, and the oldest one in it starts the next job.  Which events *)
(* may leave the box in another way depends on the overlap policy; a full  *)
(* box loses an event to a new one.  The box is closed when it is empty,   *)
(* unless by force.                                                        *)
(***************************************************************************)
EXTENDS Naturals, Sequences, FiniteSets

CONSTANTS Policies, Events, Capacity

VARIABLES
    policy,
    accepted,   \* events that were put into the box
    waiting,    \* those that are in it
    given,      \* those that jobs were started for, in order
    open, forced

bvars == <<policy, accepted, waiting, given, open, forced>>

Oldest(n) == n \in waiting /\ \A m \in waiting : n <= m
Newest(n) == n \in waiting /\ \A m \in waiting : m <= n

(* The box may be closed as soon as nothing waits. *)
Closing == open' = open \/ (open' = FALSE /\ (waiting' = {} \/ forced))

Configure(p) ==
    /\ policy = "none" /\ policy' = p
    /\ UNCHANGED <<accepted, waiting, given, open, forced>>

Accept(n) ==
    /\ open \/ forced
    /\ \A m \in accepted : m < n
    /\ accepted' = accepted \cup {n}
    /\ \/ waiting' = waiting \cup {n}
       \/ /\ Cardinality(waiting) >= Capacity
          /\ \E m \in waiting : waiting' = (waiting \ {m}) \cup {n}
    /\ UNCHANGED <<policy, given, open, forced>>

Give(n) ==
    /\ open /\ Oldest(n)
    /\ waiting' = waiting \ {n} /\ given' = Append(given, n)
    /\ Closing
    /\ UNCHANGED <<policy, accepted, forced>>

(* Queue, Replace: a newer event stands for all older ones. *)
Supersede(n) ==
    /\ open /\ policy \in {"Queue", "Replace"} /\ Newest(n)
    /\ waiting' = {n}
    /\ UNCHANGED <<policy, accepted, given, open, forced>>

(* Skip: all but the oldest are dropped, or that one. *)
Skip(n) ==
    /\ open /\ policy = "Skip" /\ Oldest(n)
    /\ waiting' \in {{n}, waiting \ {n}}
    /\ UNCHANGED <<policy, accepted, given, open, forced>>

Discard ==
    /\ forced /\ waiting' \subseteq waiting /\ Closing
    /\ UNCHANGED <<policy, accepted, given, forced>>

Close ==
    /\ open' = FALSE /\ (waiting = {} \/ forced)
    /\ UNCHANGED <<policy, accepted, waiting, given, forced>>

Force ==
    /\ forced' = TRUE
    /\ UNCHANGED <<policy, accepted, waiting, given, open>>

BInit ==
    /\ policy = "none" /\ accepted = {} /\ waiting = {} /\ given = <<>>
    /\ open = TRUE /\ forced = FALSE

BNext ==
    \/ \E p \in Policies : Configure(p)
    \/ \E n \in Events : Accept(n) \/ Give(n) \/ Supersede(n) \/ Skip(n)
    \/ Discard \/ Close \/ Force

BSpec == BInit /\ [][BNext]_bvars
=============================================================================
