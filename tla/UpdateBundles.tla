--------------------------- MODULE UpdateBundles ----------------------------
(***************************************************************************)
(* What the firmware manager promises those who read the states of their   *)
(* updates: a switch is given one bundle at a time, the updates of a       *)
(* bundle run one after the other, each through the steps of its strategy, *)
(* and after a failure the rest of the bundle is cancelled.  Workers,      *)
(* copies of rows, crashes and repeated steps are not seen.                *)
(*                                                                         *)
(* Of the updates that somebody cancels, and of those behind them in the   *)
(* bundle, it promises less: a worker may bring them back.                 *)
(***************************************************************************)
EXTENDS Naturals

CONSTANTS
    Updates, States,
    BundleOf, SwitchOf, Order,
    First,      \* the first step of an update
    After       \* the step after a step, or "COMPLETED"

VARIABLES
    state,      \* column state; "none" before the row is inserted
    done,       \* updates that have completed
    touched     \* updates that are cancelled, or come after one in a bundle

uvars == <<state, done, touched>>

Ended == {"COMPLETED", "FAILED", "CANCELLED"}
Running(s) == s \in States \ (Ended \cup {"none", "QUEUED"})
Outstanding(u) == Running(state[u]) \/ state[u] = "QUEUED"
Later(u) == { v \in Updates : BundleOf[v] = BundleOf[u] /\ Order[u] < Order[v] }
Earlier(u) == { v \in Updates : BundleOf[v] = BundleOf[u] /\ Order[v] < Order[u] }
Rivals(u) ==
    { v \in Updates : BundleOf[v] # BundleOf[u] /\ SwitchOf[BundleOf[v]] = SwitchOf[BundleOf[u]] }

(* The next update of a bundle, on a switch that has no other to do. *)
Enqueue(u) ==
    /\ state[u] = "none"
    /\ \A v \in Earlier(u) : state[v] # "none"
    /\ u \notin touched => \A v \in Rivals(u) \ touched : ~ Outstanding(v)
    /\ state' = [state EXCEPT ![u] = "QUEUED"]
    /\ UNCHANGED <<done, touched>>

Begin(u) ==
    /\ state[u] = "QUEUED" /\ Earlier(u) \subseteq done
    /\ state' = [state EXCEPT ![u] = First[u]]
    /\ UNCHANGED <<done, touched>>

Advance(u) ==
    /\ Running(state[u])
    /\ state' = [state EXCEPT ![u] = After[u][state[u]]]
    /\ done' = IF After[u][state[u]] = "COMPLETED" THEN done \cup {u} ELSE done
    /\ UNCHANGED touched

Fail(u) ==
    /\ Running(state[u])
    /\ state' = [state EXCEPT ![u] = "FAILED"]
    /\ UNCHANGED <<done, touched>>

(* The rest of a bundle goes, also if the failure itself was not recorded. *)
CancelRest(u) ==
    /\ Running(state[u]) \/ state[u] = "FAILED"
    /\ state' = [v \in Updates |-> IF v \in Later(u) /\ state[v] = "QUEUED"
                                   THEN "CANCELLED" ELSE state[v]]
    /\ UNCHANGED <<done, touched>>

Cancel(u) ==
    /\ Outstanding(u)
    /\ touched' = touched \cup {u} \cup Later(u)
    /\ UNCHANGED <<state, done>>

(* What may happen to updates that are touched: they are not forgotten,    *)
(* and still do not run before those before them in the bundle.            *)
Stray ==
    /\ state' \in [Updates -> States]
    /\ \A v \in Updates : state'[v] # state[v] =>
         /\ v \in touched /\ state[v] # "none" /\ state'[v] \notin {"none", "QUEUED"}
         /\ Running(state'[v]) \/ state'[v] = "COMPLETED" => Earlier(v) \subseteq done
    /\ done \subseteq done' /\ done' \subseteq done \cup touched
    /\ UNCHANGED touched

UInit ==
    /\ state = [u \in Updates |-> "none"]
    /\ done = {} /\ touched = {}

UNext ==
    \/ \E u \in Updates : Enqueue(u) \/ Begin(u) \/ Advance(u) \/ Fail(u) \/ CancelRest(u)
                          \/ Cancel(u)
    \/ Stray

USpec == UInit /\ [][UNext]_uvars
=============================================================================
