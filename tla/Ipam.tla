-------------------------------- MODULE Ipam --------------------------------
(***************************************************************************)
(* Child prefixes of one IP block: ipam/prefix.go on the rows that         *)
(* ipam/bun.go keeps in PostgreSQL, called through db/pkg/db/ipam by the   *)
(* handlers that create, resize and delete what is carved from a block     *)
(* (tenant blocks, subnets, VPC prefixes; here: leases).                   *)
(*                                                                         *)
(* A call is one transaction, READ COMMITTED: a statement sees what is     *)
(* committed and what its own transaction has written; a row that another  *)
(* transaction has written is locked until that one ends.  The row of the  *)
(* block holds the child prefixes in use and a version; UpdatePrefix       *)
(* writes it only if the version is the one that was read, and the whole   *)
(* operation is repeated if it is not.  Every child has a row of its own.  *)
(*                                                                         *)
(* Two calls for the same lease are not made at the same time.  The block  *)
(* itself stays, and no child is as large as the block (full grants do not *)
(* touch these rows).                                                      *)
(***************************************************************************)
EXTENDS Integers, FiniteSets

CONSTANTS
    Calls,          \* requests that are served at the same time
    Leases,
    Prefixes,       \* possible children of the block, each a set of addresses
    MaxAttempts,    \* retry.Attempts, ten in the code
    MaxVersion      \* bound: no call begins once the row has this version

ASSUME IpamAssumption ==
    /\ \A p \in Prefixes : IsFiniteSet(p) /\ p # {}
    /\ MaxAttempts \in Nat \ {0}
    /\ MaxVersion \in Nat

VARIABLES
    version, taken,     \* the row of the block
    rows,               \* the children that have a row
    lease,              \* lease |-> its prefix, {} if there is no such lease
    call,               \* call |-> where it is and what it has read; lost is history:
                        \* a release of it found a newer version
    tx                  \* call |-> what it has written and not committed

vars == <<version, taken, rows, lease, call, tx>>
committed == <<version, taken, rows, lease>>

NoPrefix == {}
Sizes == { Cardinality(p) : p \in Prefixes }
Begun(p, o, l, q, n) ==
    [pc |-> p, op |-> o, lease |-> l, old |-> q, size |-> n,
     version |-> 0, taken |-> {}, pick |-> NoPrefix, tries |-> 0, lost |-> FALSE]
Idle == Begun("idle", "none", "none", NoPrefix, 0)
Nothing == [wrote |-> FALSE, version |-> 0, taken |-> {}, added |-> {}, removed |-> {}]

-----------------------------------------------------------------------------
(* What a statement of call c sees, and what it has to wait for. *)
VersionSeen(c) == IF tx[c].wrote THEN tx[c].version ELSE version
TakenSeen(c) == IF tx[c].wrote THEN tx[c].taken ELSE taken
RowsSeen(c) == (rows \ tx[c].removed) \cup tx[c].added
(* Mutant: UpdatePrefix without FOR UPDATE on a row that is not locked. *)
BlockLockedNever(c) == FALSE

BlockLocked(c) == \E d \in Calls \ {c} : tx[d].wrote
RowLocked(c, p) == \E d \in Calls \ {c} : p \in tx[d].added \cup tx[d].removed

(* Prefixes of the wanted size that ipset holds after every child in use   *)
(* was removed; which one RemoveFreePrefix returns is up to netipx.        *)
Free(t, n) == { p \in Prefixes : Cardinality(p) = n /\ \A q \in t : p \cap q = {} }

(* The call goes on at pc p and has written nothing new. *)
Goto(c, p) ==
    /\ call' = [call EXCEPT ![c].pc = p]
    /\ UNCHANGED <<committed, tx>>

-----------------------------------------------------------------------------
(* The handlers. *)
Busy(l) == \E c \in Calls : call[c].pc # "idle" /\ call[c].lease = l
MayBegin(c, l) == call[c].pc = "idle" /\ version < MaxVersion /\ ~ Busy(l)

(* A tenant block, a subnet or a VPC prefix is created. *)
Create(c, l) ==
    /\ MayBegin(c, l) /\ lease[l] = NoPrefix
    /\ \E n \in Sizes :
         call' = [call EXCEPT ![c] = Begun("read", "create", l, NoPrefix, n)]
    /\ UNCHANGED <<committed, tx>>

(* An allocation is deleted, or the inventory no longer has the subnet.    *)
Delete(c, l) ==
    /\ MayBegin(c, l) /\ lease[l] # NoPrefix
    /\ call' = [call EXCEPT ![c] = Begun("find", "delete", l, lease[l], 0)]
    /\ UNCHANGED <<committed, tx>>

(* The size of an allocation changes. *)
Resize(c, l) ==
    /\ MayBegin(c, l) /\ lease[l] # NoPrefix
    /\ \E n \in Sizes \ {Cardinality(lease[l])} :
         call' = [call EXCEPT ![c] = Begun("find", "resize", l, lease[l], n)]
    /\ UNCHANGED <<committed, tx>>

(* Any statement, or the workflow started before the commit, may fail. *)
Fail(c) == call[c].pc \notin {"idle", "error"} /\ Goto(c, "error")

(* The handler returns an error and the transaction is rolled back. *)
Rollback(c) ==
    /\ call[c].pc = "error"
    /\ call' = [call EXCEPT ![c] = Idle]
    /\ tx' = [tx EXCEPT ![c] = Nothing]
    /\ UNCHANGED committed

(* The row of the lease is written, and all of it is committed. *)
Commit(c) ==
    /\ call[c].pc = "commit"
    /\ version' = VersionSeen(c) /\ taken' = TakenSeen(c) /\ rows' = RowsSeen(c)
    /\ lease' = [lease EXCEPT ![call[c].lease] = call[c].pick]
    /\ call' = [call EXCEPT ![c] = Idle]
    /\ tx' = [tx EXCEPT ![c] = Nothing]

-----------------------------------------------------------------------------
(* UpdatePrefix of the block, SELECT FOR UPDATE included. *)
(* Mutant: the version is not compared. *)
CurrentAlways(c) == TRUE

Current(c) == VersionSeen(c) = call[c].version

UpdateBlock(c, t) ==
    /\ Current(c) /\ ~ BlockLocked(c)
    /\ tx' = [tx EXCEPT ![c].wrote = TRUE, ![c].version = call[c].version + 1, ![c].taken = t]

(* Mutant: a retry does not read the block again. *)
LoseSpinning(c, start) == ~ Current(c) /\ UNCHANGED vars

(* Mutant: one attempt too many. *)
LoseOnceMore(c, start) ==
    /\ ~ Current(c)
    /\ call' = [call EXCEPT ![c].pc = IF call[c].tries = MaxAttempts THEN "error" ELSE start,
                            ![c].tries = @ + 1, ![c].lost = @ \/ start = "relRead"]
    /\ UNCHANGED <<committed, tx>>

(* retryOnOptimisticLock: once more from the start, or the error is returned. *)
Lose(c, start) ==
    /\ ~ Current(c)
    /\ call' = [call EXCEPT ![c].pc = IF call[c].tries + 1 = MaxAttempts THEN "error" ELSE start,
                            ![c].tries = @ + 1, ![c].lost = @ \/ start = "relRead"]
    /\ UNCHANGED <<committed, tx>>

-----------------------------------------------------------------------------
(* DeleteChildIpamEntryFromCidr.  That the child is not known is an error  *)
(* for a subnet; the handlers of allocations go on without it.             *)
AfterRelease(c) == IF call[c].op = "resize" THEN "read" ELSE "commit"

Find(c) ==
    /\ call[c].pc = "find"
    /\ \E p \in IF call[c].old \in RowsSeen(c) THEN {"relRead"} ELSE {AfterRelease(c), "error"} :
         Goto(c, p)

(* releaseChildPrefixInternal reads the block. *)
ReleaseRead(c) ==
    /\ call[c].pc = "relRead"
    /\ call' = [call EXCEPT ![c].pc = "relCheck", ![c].version = VersionSeen(c),
                            ![c].taken = TakenSeen(c)]
    /\ UNCHANGED <<committed, tx>>

(* DeletePrefix reads the child: after a lost update it is gone, as this   *)
(* transaction has deleted it.                                             *)
ReleaseCheck(c) ==
    /\ call[c].pc = "relCheck"
    /\ Goto(c, IF call[c].old \in RowsSeen(c) THEN "relDelete" ELSE "error")

(* Mutant: the row is deleted outside of the caller's transaction. *)
DeleteOutside(c) ==
    /\ call[c].pc = "relDelete"
    /\ rows' = rows \ {call[c].old}
    /\ call' = [call EXCEPT ![c].pc = "relUpdate"]
    /\ UNCHANGED <<version, taken, lease, tx>>

ReleaseDelete(c) ==
    /\ call[c].pc = "relDelete"
    /\ ~ RowLocked(c, call[c].old)
    /\ tx' = [tx EXCEPT ![c].removed = @ \cup {call[c].old}]
    /\ call' = [call EXCEPT ![c].pc = "relUpdate"]
    /\ UNCHANGED committed

ReleaseUpdate(c) ==
    /\ call[c].pc = "relUpdate"
    /\ \/ /\ UpdateBlock(c, call[c].taken \ {call[c].old})
          /\ call' = [call EXCEPT ![c].pc = AfterRelease(c), ![c].tries = 0]
          /\ UNCHANGED committed
       \/ Lose(c, "relRead")

-----------------------------------------------------------------------------
(* acquireChildPrefixInternal reads the block and picks a child.           *)
AcquireRead(c) ==
    /\ call[c].pc = "read"
    /\ LET free == Free(TakenSeen(c), call[c].size) IN
         \/ \E p \in free :
              /\ call' = [call EXCEPT ![c].pc = "update", ![c].pick = p,
                            ![c].version = VersionSeen(c), ![c].taken = TakenSeen(c)]
              /\ UNCHANGED <<committed, tx>>
         \/ free = {} /\ Goto(c, "error")

AcquireUpdate(c) ==
    /\ call[c].pc = "update"
    /\ \/ /\ UpdateBlock(c, call[c].taken \cup {call[c].pick})
          /\ call' = [call EXCEPT ![c].pc = "check"]
          /\ UNCHANGED committed
       \/ Lose(c, "read")

(* CreatePrefix: prefixExists, an existing row is returned as it is; then  *)
(* the insert, which the primary key refuses if the row has come meanwhile. *)
AcquireCheck(c) ==
    /\ call[c].pc = "check"
    /\ Goto(c, IF call[c].pick \in RowsSeen(c) THEN "commit" ELSE "insert")

AcquireInsert(c) ==
    /\ call[c].pc = "insert"
    /\ ~ RowLocked(c, call[c].pick)
    /\ IF call[c].pick \in RowsSeen(c) THEN Goto(c, "error")
       ELSE /\ tx' = [tx EXCEPT ![c].added = @ \cup {call[c].pick}]
            /\ call' = [call EXCEPT ![c].pc = "commit"]
            /\ UNCHANGED committed

-----------------------------------------------------------------------------
Init ==
    /\ version = 0 /\ taken = {} /\ rows = {}
    /\ lease = [l \in Leases |-> NoPrefix]
    /\ call = [c \in Calls |-> Idle]
    /\ tx = [c \in Calls |-> Nothing]

Begin(c) == \E l \in Leases : Create(c, l) \/ Delete(c, l) \/ Resize(c, l)
Proceed(c) ==
    \/ Find(c) \/ ReleaseRead(c) \/ ReleaseCheck(c) \/ ReleaseDelete(c) \/ ReleaseUpdate(c)
    \/ AcquireRead(c) \/ AcquireUpdate(c) \/ AcquireCheck(c) \/ AcquireInsert(c)
    \/ Commit(c) \/ Rollback(c)

Next == \E c \in Calls : Begin(c) \/ Proceed(c) \/ Fail(c)

Spec == Init /\ [][Next]_vars

(* Statements are executed, and PostgreSQL serves those that wait for a    *)
(* row in turn, so that nobody is overtaken for ever.                      *)
FairSpec == Spec /\ \A c \in Calls : SF_vars(Proceed(c))

-----------------------------------------------------------------------------
Pcs == {"idle", "find", "relRead", "relCheck", "relDelete", "relUpdate",
        "read", "update", "check", "insert", "commit", "error"}
Call == [pc : Pcs, op : {"none", "create", "delete", "resize"}, lease : Leases \cup {"none"},
         old : Prefixes \cup {NoPrefix}, size : Sizes \cup {0}, version : Nat,
         taken : SUBSET Prefixes, pick : Prefixes \cup {NoPrefix},
         tries : 0..MaxAttempts, lost : BOOLEAN]
Tx == [wrote : BOOLEAN, version : Nat, taken : SUBSET Prefixes,
       added : SUBSET Prefixes, removed : SUBSET Prefixes]

(* An operation that has lost its last attempt is not tried again. *)
TypeOK ==
    /\ version \in Nat /\ taken \subseteq Prefixes /\ rows \subseteq Prefixes
    /\ lease \in [Leases -> Prefixes \cup {NoPrefix}]
    /\ call \in [Calls -> Call]
    /\ tx \in [Calls -> Tx]
    /\ \A c \in Calls : call[c].tries = MaxAttempts => call[c].pc = "error"

(* No address belongs to two leases, although every call picks its prefix  *)
(* from a copy of the block that it read before it could write it.         *)
LeasesDisjoint ==
    \A l, m \in Leases : l # m => lease[l] \cap lease[m] = {}

(* The block marks as used what the leases have, nothing more and nothing  *)
(* less, and these children have a row: whatever fails, is retried or is   *)
(* given up, no prefix leaks and none is free that is in use.              *)
Held == { lease[l] : l \in Leases } \ {NoPrefix}
Bookkeeping == taken = Held /\ rows = Held

(* Whoever has written the block does not wait for the row of a child: the *)
(* two kinds of rows are locked in both orders, but never in a circle.     *)
HolderProceeds ==
    \A c \in Calls : (tx[c].wrote /\ call[c].pc = "insert") => ~ RowLocked(c, call[c].pick)

(* Every call ends. *)
CallsEnd == \A c \in Calls : call[c].pc # "idle" ~> call[c].pc = "idle"

(* Seen from outside, with a request open as long as its call is being     *)
(* served, every call takes effect in one step on the leases: the retries  *)
(* of stale copies make READ COMMITTED transactions serial.                *)
Request == [c \in Calls |-> [op |-> call[c].op, lease |-> call[c].lease, size |-> call[c].size]]
Pool == INSTANCE PrefixPool WITH request <- Request
ImplementsPool == Pool!PSpec
=============================================================================
