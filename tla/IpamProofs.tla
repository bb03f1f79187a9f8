----------------------------- MODULE IpamProofs -----------------------------
(***************************************************************************)
(* Safety of Ipam for every set of calls, leases and prefixes and any      *)
(* number of attempts, by an inductive invariant.                          *)
(***************************************************************************)
EXTENDS Ipam, TLAPS

(* What a call at each of its points knows and has written; k and t are    *)
(* its records in call and tx, the rest is the committed state.            *)
Replaced(k) == {k.old} \ {NoPrefix}
Apart(p, s) == \A q \in s : p \cap q = {}

AnyPoint(k, t, ver, ls) ==
    /\ t.wrote => ver < t.version
    /\ ~ t.wrote => t.added = {}
    /\ k.pc = "idle" => ~ t.wrote /\ t.removed = {} /\ ~ k.lost
    /\ k.pc # "idle" => /\ k.lease \in Leases
                        /\ k.old = ls[k.lease]
                        /\ t.removed \subseteq Replaced(k)
    /\ k.lost => k.pc \in {"relRead", "relCheck", "error"}

(* The copy of the block: as it is, or too old to be written back. *)
Copied(k, t, ver, tk) ==
    IF t.wrote THEN k.version = t.version /\ k.taken = t.taken
    ELSE k.version <= ver /\ (k.version = ver => k.taken = tk)

Releasing(k, t, ver, tk) ==
    /\ k.pc \in {"find", "relRead", "relCheck", "relDelete", "relUpdate"} =>
         /\ ~ t.wrote /\ k.pick = NoPrefix /\ k.old # NoPrefix
         /\ k.op \in {"delete", "resize"}
    /\ k.pc = "find" => t.removed = {}
    /\ k.pc \in {"relCheck", "relDelete", "relUpdate"} => Copied(k, t, ver, tk)
    /\ k.pc = "relUpdate" => t.removed = Replaced(k)
    /\ (k.lost /\ k.pc # "error") => t.removed = Replaced(k)

Acquiring(k, t, ver, tk) ==
    /\ k.pc \in {"read", "update", "check", "insert"} =>
         k.op # "delete" /\ t.added = {} /\ t.removed = Replaced(k)
    /\ k.pc \in {"read", "update"} =>
         /\ t.wrote => t.taken = tk \ Replaced(k)
         /\ ~ t.wrote => k.old = NoPrefix
    /\ k.pc = "update" => /\ Copied(k, t, ver, tk)
                          /\ k.pick \in Prefixes /\ Apart(k.pick, k.taken)
    /\ k.pc \in {"check", "insert"} =>
         /\ t.wrote /\ k.pick \in Prefixes
         /\ t.taken = (tk \ Replaced(k)) \cup {k.pick}
         /\ Apart(k.pick, tk \ Replaced(k))

Committing(k, t, tk) ==
    k.pc = "commit" =>
        /\ t.wrote
        /\ t.removed = Replaced(k) /\ t.added = {k.pick} \ {NoPrefix}
        /\ t.taken = (tk \ Replaced(k)) \cup t.added
        /\ Apart(k.pick, tk \ Replaced(k))

CallInv(k, t, ver, tk, ls) ==
    /\ AnyPoint(k, t, ver, ls)
    /\ Releasing(k, t, ver, tk)
    /\ Acquiring(k, t, ver, tk)
    /\ Committing(k, t, tk)

(* Two calls serve different leases, and one of them at most has written   *)
(* the block.                                                              *)
OneCallPerLease ==
    \A c, d \in Calls : (c # d /\ call[c].pc # "idle" /\ call[d].pc # "idle")
                          => call[c].lease # call[d].lease
OneWriter == \A c, d \in Calls : (tx[c].wrote /\ tx[d].wrote) => c = d

IInv ==
    /\ TypeOK
    /\ OneCallPerLease /\ OneWriter
    /\ \A c \in Calls : CallInv(call[c], tx[c], version, taken, lease)
    /\ LeasesDisjoint /\ Bookkeeping

-----------------------------------------------------------------------------
(* A step of one call that changes only its own records keeps the          *)
(* invariant if the new records fit the committed state, if the lease was  *)
(* its own or free, and if it is the only writer.                          *)
LEMMA CallStep ==
  ASSUME IInv, NEW c \in Calls, NEW k \in Call, NEW t \in Tx,
         call' = [call EXCEPT ![c] = k], tx' = [tx EXCEPT ![c] = t],
         UNCHANGED committed,
         CallInv(k, t, version, taken, lease),
         k.tries = MaxAttempts => k.pc = "error",
         k.pc # "idle" => \A d \in Calls \ {c} : call[d].pc # "idle" => call[d].lease # k.lease,
         t.wrote => \A d \in Calls \ {c} : ~ tx[d].wrote
  PROVE  IInv'
<1> USE DEF IInv
<1>1. /\ call \in [Calls -> Call] /\ tx \in [Calls -> Tx]
      /\ version' = version /\ taken' = taken /\ rows' = rows /\ lease' = lease
  BY DEF TypeOK, committed
<1>2. /\ call'[c] = k /\ tx'[c] = t
      /\ \A d \in Calls \ {c} : call'[d] = call[d] /\ tx'[d] = tx[d]
  BY <1>1
<1>3. TypeOK'
  BY <1>1, <1>2 DEF TypeOK
<1>4. OneCallPerLease'
  BY <1>2 DEF OneCallPerLease
<1>5. OneWriter'
  BY <1>2 DEF OneWriter
<1>6. (\A d \in Calls : CallInv(call[d], tx[d], version, taken, lease))'
  BY <1>1, <1>2
<1>7. (LeasesDisjoint /\ Bookkeeping)'
  BY <1>1 DEF LeasesDisjoint, Bookkeeping, Held
<1> QED
  BY <1>3, <1>4, <1>5, <1>6, <1>7

(* The same for a call that is under way and has written nothing new. *)
LEMMA GotoStep ==
  ASSUME IInv, NEW c \in Calls, NEW k \in Call,
         call' = [call EXCEPT ![c] = k], UNCHANGED <<committed, tx>>,
         CallInv(k, tx[c], version, taken, lease),
         k.tries = MaxAttempts => k.pc = "error",
         call[c].pc # "idle", k.lease = call[c].lease
  PROVE  IInv'
<1>1. tx[c] \in Tx /\ tx' = [tx EXCEPT ![c] = tx[c]]
  BY DEF IInv, TypeOK
<1>2. k.pc # "idle" => \A d \in Calls \ {c} : call[d].pc # "idle" => call[d].lease # k.lease
  BY DEF IInv, OneCallPerLease
<1>3. tx[c].wrote => \A d \in Calls \ {c} : ~ tx[d].wrote
  BY DEF IInv, OneWriter
<1>4. UNCHANGED committed
  OBVIOUS
<1> QED
  BY <1>1, <1>2, <1>3, <1>4, CallStep

-----------------------------------------------------------------------------
(* The handlers begin, fail and roll back. *)
LEMMA BeginStep ==
  ASSUME IInv, NEW c \in Calls, NEW l \in Leases, NEW k \in Call,
         call[c].pc = "idle", ~ Busy(l),
         call' = [call EXCEPT ![c] = k], UNCHANGED <<committed, tx>>,
         k.lease = l, k.old = lease[l], k.pick = NoPrefix, k.tries = 0, ~ k.lost,
         \/ k.pc = "read" /\ k.op = "create" /\ k.old = NoPrefix
         \/ k.pc = "find" /\ k.op \in {"delete", "resize"} /\ k.old # NoPrefix
  PROVE  IInv'
<1>1. tx[c] \in Tx /\ tx' = [tx EXCEPT ![c] = tx[c]]
  BY DEF IInv, TypeOK
<1>2. ~ tx[c].wrote /\ tx[c].removed = {} /\ tx[c].added = {}
  BY DEF IInv, CallInv, AnyPoint
<1>3. CallInv(k, tx[c], version, taken, lease)
  BY <1>2 DEF CallInv, AnyPoint, Releasing, Acquiring, Committing, Replaced
<1>4. \A d \in Calls \ {c} : call[d].pc # "idle" => call[d].lease # k.lease
  BY DEF Busy
<1>5. UNCHANGED committed /\ k.tries # MaxAttempts
  BY IpamAssumption
<1> QED
  BY <1>1, <1>2, <1>3, <1>4, <1>5, CallStep

LEMMA BegunFits ==
  ASSUME NEW p \in Pcs, NEW o \in {"create", "delete", "resize"}, NEW l \in Leases,
         NEW q \in Prefixes \cup {NoPrefix}, NEW n \in Sizes \cup {0}
  PROVE  /\ Begun(p, o, l, q, n) \in Call
         /\ Begun(p, o, l, q, n).pc = p /\ Begun(p, o, l, q, n).op = o
         /\ Begun(p, o, l, q, n).lease = l /\ Begun(p, o, l, q, n).old = q
         /\ Begun(p, o, l, q, n).pick = NoPrefix /\ Begun(p, o, l, q, n).tries = 0
         /\ ~ Begun(p, o, l, q, n).lost
  BY IpamAssumption DEF Begun, Call, Pcs, NoPrefix

LEMMA IdleFits == Idle \in Call /\ Nothing \in Tx
  BY IpamAssumption DEF Idle, Begun, Nothing, Call, Tx, Pcs, NoPrefix

LEMMA CreateInv ==
  ASSUME IInv, NEW c \in Calls, NEW l \in Leases, Create(c, l)
  PROVE  IInv'
<1>1. PICK n \in Sizes : call' = [call EXCEPT ![c] = Begun("read", "create", l, NoPrefix, n)]
  BY DEF Create
<1> DEFINE k == Begun("read", "create", l, NoPrefix, n)
<1>2. "read" \in Pcs
  BY DEF Pcs
<1>3. /\ k \in Call /\ k.pc = "read" /\ k.op = "create" /\ k.lease = l
      /\ k.old = NoPrefix /\ k.pick = NoPrefix /\ k.tries = 0 /\ ~ k.lost
  BY <1>2, BegunFits
<1>4. /\ call[c].pc = "idle" /\ ~ Busy(l) /\ lease[l] = NoPrefix
      /\ UNCHANGED <<committed, tx>>
  BY DEF Create, MayBegin
<1>5. call' = [call EXCEPT ![c] = k]
  BY <1>1
<1> HIDE DEF k
<1> QED
  BY <1>3, <1>4, <1>5, BeginStep

LEMMA ReleaseBegins ==
  ASSUME IInv, NEW c \in Calls, NEW l \in Leases, Delete(c, l) \/ Resize(c, l)
  PROVE  IInv'
<1>1. PICK o \in {"delete", "resize"}, n \in Sizes \cup {0} :
         call' = [call EXCEPT ![c] = Begun("find", o, l, lease[l], n)]
  BY DEF Delete, Resize
<1> DEFINE k == Begun("find", o, l, lease[l], n)
<1>2. lease[l] \in Prefixes \cup {NoPrefix} /\ "find" \in Pcs
  BY DEF IInv, TypeOK, Pcs
<1>3. /\ k \in Call /\ k.pc = "find" /\ k.op = o /\ k.lease = l
      /\ k.old = lease[l] /\ k.pick = NoPrefix /\ k.tries = 0 /\ ~ k.lost
  BY <1>2, BegunFits
<1>4. /\ call[c].pc = "idle" /\ ~ Busy(l) /\ lease[l] # NoPrefix
      /\ UNCHANGED <<committed, tx>>
  BY DEF Delete, Resize, MayBegin
<1>5. call' = [call EXCEPT ![c] = k]
  BY <1>1
<1> HIDE DEF k
<1> QED
  BY <1>3, <1>4, <1>5, BeginStep

LEMMA FailInv ==
  ASSUME IInv, NEW c \in Calls, call[c].pc # "idle", Goto(c, "error")
  PROVE  IInv'
<1> DEFINE k == [call[c] EXCEPT !.pc = "error"]
<1>1. call[c] \in Call
  BY DEF IInv, TypeOK
<1>2. k \in Call /\ k.pc = "error" /\ k.lease = call[c].lease /\ k.old = call[c].old
  BY <1>1 DEF Call, Pcs
<1>3. call' = [call EXCEPT ![c] = k] /\ UNCHANGED <<committed, tx>>
  BY DEF Goto
<1>4. AnyPoint(call[c], tx[c], version, lease)
  BY DEF IInv, CallInv
<1> HIDE DEF k
<1>5. CallInv(k, tx[c], version, taken, lease)
  BY <1>2, <1>4 DEF CallInv, AnyPoint, Releasing, Acquiring, Committing, Replaced
<1> QED
  BY <1>2, <1>3, <1>5, GotoStep

LEMMA RollbackInv ==
  ASSUME IInv, NEW c \in Calls, Rollback(c)
  PROVE  IInv'
<1>1. /\ Idle.pc = "idle" /\ Idle.tries = 0 /\ ~ Idle.lost
      /\ ~ Nothing.wrote /\ Nothing.added = {} /\ Nothing.removed = {}
  BY DEF Idle, Begun, Nothing
<1>2. CallInv(Idle, Nothing, version, taken, lease)
  BY <1>1 DEF CallInv, AnyPoint, Releasing, Acquiring, Committing
<1>3. /\ call' = [call EXCEPT ![c] = Idle] /\ tx' = [tx EXCEPT ![c] = Nothing]
      /\ UNCHANGED committed
  BY DEF Rollback
<1>4. Idle.tries # MaxAttempts
  BY <1>1, IpamAssumption
<1> QED
  BY <1>1, <1>2, <1>3, <1>4, IdleFits, CallStep

-----------------------------------------------------------------------------
(* What a call sees has its type, and is newer than every committed copy.  *)
LEMMA SeenFits ==
  ASSUME IInv, NEW c \in Calls
  PROVE  /\ call[c] \in Call /\ tx[c] \in Tx
         /\ VersionSeen(c) \in Nat /\ TakenSeen(c) \subseteq Prefixes
         /\ version \in Nat /\ taken \subseteq Prefixes
         /\ call[c].tries = MaxAttempts => call[c].pc = "error"
         /\ CallInv(call[c], tx[c], version, taken, lease)
<1>1. call[c] \in Call /\ tx[c] \in Tx
  BY DEF IInv, TypeOK
<1> QED
  BY <1>1 DEF IInv, TypeOK, VersionSeen, TakenSeen, Tx

(* The child that a call is about to release has a row. *)
LEMMA OwnRow ==
  ASSUME IInv, NEW c \in Calls, call[c].pc # "idle", call[c].old # NoPrefix
  PROVE  call[c].old \in rows
<1>1. call[c].lease \in Leases /\ call[c].old = lease[call[c].lease]
  BY DEF IInv, CallInv, AnyPoint
<1> QED
  BY <1>1 DEF IInv, Bookkeeping, Held

LEMMA FindInv ==
  ASSUME IInv, NEW c \in Calls, Find(c)
  PROVE  IInv'
<1> DEFINE k == [call[c] EXCEPT !.pc = "relRead"]
<1>1. call[c] \in Call /\ tx[c] \in Tx /\ CallInv(call[c], tx[c], version, taken, lease)
      /\ call[c].pc = "find" /\ (call[c].tries = MaxAttempts => call[c].pc = "error")
  BY SeenFits DEF Find
<1>2. call[c].old \in RowsSeen(c)
  <2>1. call[c].old \in rows /\ tx[c].removed = {}
    BY <1>1, OwnRow DEF CallInv, Releasing
  <2> QED BY <2>1 DEF RowsSeen
<1>3. call' = [call EXCEPT ![c] = k] /\ UNCHANGED <<committed, tx>>
  BY <1>2 DEF Find, Goto
<1>4. /\ k \in Call /\ k.pc = "relRead" /\ k.lease = call[c].lease /\ k.old = call[c].old
      /\ k.op = call[c].op /\ k.pick = call[c].pick /\ k.lost = call[c].lost
      /\ k.tries = call[c].tries
  BY <1>1 DEF Call, Pcs
<1> HIDE DEF k
<1>5. CallInv(k, tx[c], version, taken, lease)
  BY <1>1, <1>4 DEF CallInv, AnyPoint, Releasing, Acquiring, Committing, Replaced
<1> QED
  BY <1>1, <1>3, <1>4, <1>5, GotoStep

LEMMA ReleaseReadInv ==
  ASSUME IInv, NEW c \in Calls, ReleaseRead(c)
  PROVE  IInv'
<1> DEFINE k == [call[c] EXCEPT !.pc = "relCheck", !.version = VersionSeen(c),
                                !.taken = TakenSeen(c)]
<1>1. call[c] \in Call /\ tx[c] \in Tx /\ CallInv(call[c], tx[c], version, taken, lease)
      /\ call[c].pc = "relRead" /\ (call[c].tries = MaxAttempts => call[c].pc = "error")
      /\ VersionSeen(c) \in Nat /\ TakenSeen(c) \subseteq Prefixes /\ version \in Nat
  BY SeenFits DEF ReleaseRead
<1>2. call' = [call EXCEPT ![c] = k] /\ UNCHANGED <<committed, tx>>
  BY DEF ReleaseRead
<1>3. /\ k \in Call /\ k.pc = "relCheck" /\ k.lease = call[c].lease /\ k.old = call[c].old
      /\ k.op = call[c].op /\ k.pick = call[c].pick /\ k.lost = call[c].lost
      /\ k.tries = call[c].tries /\ k.version = VersionSeen(c) /\ k.taken = TakenSeen(c)
  BY <1>1 DEF Call, Pcs
<1> HIDE DEF k
<1>4. Copied(k, tx[c], version, taken)
  BY <1>1, <1>3 DEF Copied, VersionSeen, TakenSeen
<1>5. CallInv(k, tx[c], version, taken, lease)
  BY <1>1, <1>3, <1>4 DEF CallInv, AnyPoint, Releasing, Acquiring, Committing, Replaced
<1> QED
  BY <1>1, <1>2, <1>3, <1>5, GotoStep

LEMMA ReleaseCheckInv ==
  ASSUME IInv, NEW c \in Calls, ReleaseCheck(c)
  PROVE  IInv'
<1> DEFINE k == [call[c] EXCEPT !.pc = "relDelete"]
<1>1. call[c] \in Call /\ tx[c] \in Tx /\ CallInv(call[c], tx[c], version, taken, lease)
      /\ call[c].pc = "relCheck" /\ (call[c].tries = MaxAttempts => call[c].pc = "error")
  BY SeenFits DEF ReleaseCheck
<1>2. CASE call[c].old \in RowsSeen(c)
  <2>1. ~ call[c].lost
    BY <1>1, <1>2 DEF CallInv, Releasing, AnyPoint, RowsSeen, Replaced
  <2>2. call' = [call EXCEPT ![c] = k] /\ UNCHANGED <<committed, tx>>
    BY <1>2 DEF ReleaseCheck, Goto
  <2>3. /\ k \in Call /\ k.pc = "relDelete" /\ k.lease = call[c].lease /\ k.old = call[c].old
        /\ k.op = call[c].op /\ k.pick = call[c].pick /\ k.lost = call[c].lost
        /\ k.tries = call[c].tries /\ k.version = call[c].version /\ k.taken = call[c].taken
    BY <1>1 DEF Call, Pcs
  <2> HIDE DEF k
  <2>4. CallInv(k, tx[c], version, taken, lease)
    BY <1>1, <2>1, <2>3 DEF CallInv, AnyPoint, Releasing, Acquiring, Committing, Replaced, Copied
  <2> QED
    BY <1>1, <2>2, <2>3, <2>4, GotoStep
<1>3. CASE call[c].old \notin RowsSeen(c)
  BY <1>1, <1>3, FailInv DEF ReleaseCheck
<1> QED
  BY <1>2, <1>3

LEMMA ReleaseDeleteInv ==
  ASSUME IInv, NEW c \in Calls, ReleaseDelete(c)
  PROVE  IInv'
<1> DEFINE k == [call[c] EXCEPT !.pc = "relUpdate"]
           t == [tx[c] EXCEPT !.removed = @ \cup {call[c].old}]
<1>1. call[c] \in Call /\ tx[c] \in Tx /\ CallInv(call[c], tx[c], version, taken, lease)
      /\ call[c].pc = "relDelete" /\ (call[c].tries = MaxAttempts => call[c].pc = "error")
  BY SeenFits DEF ReleaseDelete
<1>2. /\ call' = [call EXCEPT ![c] = k] /\ tx' = [tx EXCEPT ![c] = t]
      /\ UNCHANGED committed
  BY DEF ReleaseDelete
<1>3. /\ k \in Call /\ k.pc = "relUpdate" /\ k.lease = call[c].lease /\ k.old = call[c].old
      /\ k.op = call[c].op /\ k.pick = call[c].pick /\ k.lost = call[c].lost
      /\ k.tries = call[c].tries /\ k.version = call[c].version /\ k.taken = call[c].taken
  BY <1>1 DEF Call, Pcs
<1>4. call[c].old \in Prefixes /\ ~ tx[c].wrote /\ ~ call[c].lost
  BY <1>1 DEF Call, CallInv, Releasing, AnyPoint
<1>5. /\ t \in Tx /\ t.wrote = tx[c].wrote /\ t.added = tx[c].added
      /\ t.removed = tx[c].removed \cup {call[c].old}
  BY <1>1, <1>4 DEF Tx
<1> HIDE DEF k, t
<1>6. CallInv(k, t, version, taken, lease)
  <2>1. t.removed = Replaced(k)
    BY <1>1, <1>3, <1>5 DEF CallInv, AnyPoint, Releasing, Replaced
  <2>2. AnyPoint(k, t, version, lease)
    BY <1>1, <1>3, <1>4, <1>5, <2>1 DEF CallInv, AnyPoint
  <2> QED
    BY <1>1, <1>3, <1>4, <1>5, <2>1, <2>2 DEF CallInv, Releasing, Acquiring, Committing, Copied
<1>7. \A d \in Calls \ {c} : call[d].pc # "idle" => call[d].lease # k.lease
  BY <1>1, <1>3 DEF IInv, OneCallPerLease
<1>8. ~ t.wrote /\ (k.tries = MaxAttempts => k.pc = "error")
  BY <1>1, <1>3, <1>4, <1>5
<1> QED
  BY <1>2, <1>3, <1>5, <1>6, <1>7, <1>8, CallStep

-----------------------------------------------------------------------------
(* An operation that lost the version is tried again or given up. *)
LEMMA LoseInv ==
  ASSUME IInv, NEW c \in Calls, NEW start,
         \/ call[c].pc = "relUpdate" /\ start = "relRead"
         \/ call[c].pc = "update" /\ start = "read",
         Lose(c, start)
  PROVE  IInv'
<1> DEFINE p == IF call[c].tries + 1 = MaxAttempts THEN "error" ELSE start
           k == [call[c] EXCEPT !.pc = p, !.tries = @ + 1, !.lost = @ \/ start = "relRead"]
<1>1. call[c] \in Call /\ tx[c] \in Tx /\ CallInv(call[c], tx[c], version, taken, lease)
      /\ (call[c].tries = MaxAttempts => call[c].pc = "error")
  BY SeenFits
<1>2. call' = [call EXCEPT ![c] = k] /\ UNCHANGED <<committed, tx>>
  BY DEF Lose
<1>3. /\ call[c].tries + 1 \in 0..MaxAttempts /\ p \in Pcs
      /\ p \in {start, "error"} /\ (call[c].tries + 1 = MaxAttempts => p = "error")
  BY <1>1, IpamAssumption DEF Call, Pcs
<1> HIDE DEF p
<1>4. /\ k.pc = p /\ k.lease = call[c].lease /\ k.old = call[c].old
      /\ k.op = call[c].op /\ k.pick = call[c].pick /\ k.tries = call[c].tries + 1
      /\ k.version = call[c].version /\ k.taken = call[c].taken
  BY <1>1 DEF Call
<1>5. k.lost = (call[c].lost \/ start = "relRead")
  BY <1>1 DEF Call
<1>6. k \in Call
  BY <1>1, <1>3 DEF Call
<1> HIDE DEF k
<1>7. ~ call[c].lost
  BY <1>1 DEF CallInv, AnyPoint
<1>8. CallInv(k, tx[c], version, taken, lease)
  <2>1. AnyPoint(k, tx[c], version, lease)
    BY <1>1, <1>3, <1>4, <1>5, <1>7 DEF CallInv, AnyPoint, Replaced
  <2>2. Releasing(k, tx[c], version, taken)
    BY <1>1, <1>3, <1>4, <1>5, <1>7 DEF CallInv, Releasing, Replaced
  <2>3. Acquiring(k, tx[c], version, taken) /\ Committing(k, tx[c], taken)
    BY <1>1, <1>3, <1>4 DEF CallInv, Acquiring, Committing, Replaced
  <2> QED
    BY <2>1, <2>2, <2>3 DEF CallInv
<1> QED
  BY <1>2, <1>3, <1>4, <1>6, <1>8, GotoStep

(* UpdatePrefix of the block writes what follows from the committed row,   *)
(* or from what this transaction has made of it.                           *)
LEMMA CurrentCopy ==
  ASSUME IInv, NEW c \in Calls, call[c].pc \in {"relUpdate", "update"}, Current(c)
  PROVE  /\ call[c].taken = TakenSeen(c) /\ version <= call[c].version
         /\ tx[c].wrote => version < call[c].version
<1>1. Copied(call[c], tx[c], version, taken) /\ AnyPoint(call[c], tx[c], version, lease)
  BY SeenFits DEF CallInv, Releasing, Acquiring
<1>2. version \in Nat /\ call[c].version \in Nat /\ tx[c].version \in Nat
  BY SeenFits DEF Call, Tx
<1>3. CASE tx[c].wrote
  BY <1>1, <1>2, <1>3 DEF Copied, AnyPoint, Current, VersionSeen, TakenSeen
<1>4. CASE ~ tx[c].wrote
  BY <1>1, <1>2, <1>4 DEF Copied, Current, VersionSeen, TakenSeen
<1> QED
  BY <1>3, <1>4

LEMMA WriterStep ==
  ASSUME IInv, NEW c \in Calls, NEW k \in Call, NEW s \in SUBSET Prefixes,
         call[c].pc \in {"relUpdate", "update"}, UpdateBlock(c, s),
         call' = [call EXCEPT ![c] = k], UNCHANGED committed,
         k.lease = call[c].lease, k.tries = MaxAttempts => k.pc = "error",
         \A t \in Tx :
            (/\ t.wrote /\ version < t.version /\ t.taken = s
             /\ t.added = tx[c].added /\ t.removed = tx[c].removed)
               => CallInv(k, t, version, taken, lease)
  PROVE  IInv'
<1> DEFINE t == [tx[c] EXCEPT !.wrote = TRUE, !.version = call[c].version + 1, !.taken = s]
<1>1. call[c] \in Call /\ tx[c] \in Tx /\ version \in Nat
  BY SeenFits
<1>2. tx' = [tx EXCEPT ![c] = t] /\ Current(c) /\ ~ BlockLocked(c)
  BY DEF UpdateBlock
<1>3. version < call[c].version + 1 /\ call[c].version + 1 \in Nat
  <2>1. call[c].version \in Nat
    BY <1>1 DEF Call
  <2>2. version <= call[c].version
    BY <1>2, CurrentCopy
  <2> QED BY <1>1, <2>1, <2>2
<1>4. /\ t \in Tx /\ t.wrote /\ t.version = call[c].version + 1 /\ t.taken = s
      /\ t.added = tx[c].added /\ t.removed = tx[c].removed
  BY <1>1, <1>3 DEF Tx
<1> HIDE DEF t
<1>5. CallInv(k, t, version, taken, lease)
  BY <1>3, <1>4
<1>6. \A d \in Calls \ {c} : ~ tx[d].wrote
  BY <1>2 DEF BlockLocked
<1>7. \A d \in Calls \ {c} : call[d].pc # "idle" => call[d].lease # k.lease
  BY DEF IInv, OneCallPerLease
<1> QED
  BY <1>2, <1>4, <1>5, <1>6, <1>7, CallStep

LEMMA ReleaseUpdateInv ==
  ASSUME IInv, NEW c \in Calls, ReleaseUpdate(c)
  PROVE  IInv'
<1>1. call[c] \in Call /\ tx[c] \in Tx /\ CallInv(call[c], tx[c], version, taken, lease)
      /\ call[c].pc = "relUpdate"
  BY SeenFits DEF ReleaseUpdate
<1>2. CASE Lose(c, "relRead")
  BY <1>1, <1>2, LoseInv
<1>3. CASE /\ UpdateBlock(c, call[c].taken \ {call[c].old})
           /\ call' = [call EXCEPT ![c].pc = AfterRelease(c), ![c].tries = 0]
           /\ UNCHANGED committed
  <2> DEFINE k == [call[c] EXCEPT !.pc = AfterRelease(c), !.tries = 0]
             s == call[c].taken \ {call[c].old}
  <2>1. /\ AfterRelease(c) \in {"read", "commit"}
        /\ AfterRelease(c) = "read" => call[c].op # "delete"
    BY <1>1 DEF AfterRelease
  <2>2. k \in Call /\ k.tries # MaxAttempts
    <3>1. 0 \in 0..MaxAttempts /\ 0 # MaxAttempts /\ AfterRelease(c) \in Pcs
      BY <2>1, IpamAssumption DEF Pcs
    <3> QED BY <1>1, <3>1 DEF Call
  <2>3. /\ k.pc = AfterRelease(c) /\ k.lease = call[c].lease /\ k.old = call[c].old
        /\ k.op = call[c].op /\ k.pick = call[c].pick /\ k.lost = call[c].lost
    BY <1>1 DEF Call
  <2>4. /\ ~ tx[c].wrote /\ tx[c].added = {} /\ tx[c].removed = Replaced(call[c])
        /\ call[c].pick = NoPrefix /\ call[c].old # NoPrefix /\ ~ call[c].lost
        /\ call[c].lease \in Leases /\ call[c].old = lease[call[c].lease]
    BY <1>1 DEF CallInv, AnyPoint, Releasing
  <2>5. s = taken \ {call[c].old} /\ s \in SUBSET Prefixes
    <3>1. Current(c)
      BY <1>3 DEF UpdateBlock
    <3>2. call[c].taken = taken
      BY <1>1, <2>4, <3>1, CurrentCopy DEF TakenSeen
    <3> QED BY <1>1, <3>2 DEF Call
  <2>6. call' = [call EXCEPT ![c] = k]
    BY <1>3
  <2>7. UpdateBlock(c, s)
    BY <1>3
  <2> HIDE DEF k, s
  <2>8. ASSUME NEW t \in Tx, t.wrote, version < t.version, t.taken = s,
               t.added = tx[c].added, t.removed = tx[c].removed
        PROVE  CallInv(k, t, version, taken, lease)
    <3>1. Replaced(k) = {call[c].old} /\ Replaced(call[c]) = {call[c].old}
      BY <2>3, <2>4 DEF Replaced
    <3>2. AnyPoint(k, t, version, lease) /\ Releasing(k, t, version, taken)
      BY <2>1, <2>3, <2>4, <2>8, <3>1 DEF AnyPoint, Releasing
    <3>3. Acquiring(k, t, version, taken)
      BY <2>1, <2>3, <2>4, <2>5, <2>8, <3>1 DEF Acquiring
    <3>4. Committing(k, t, taken)
      BY <2>3, <2>4, <2>5, <2>8, <3>1 DEF Committing, Apart, NoPrefix
    <3> QED BY <3>2, <3>3, <3>4 DEF CallInv
  <2> QED
    BY <1>1, <1>3, <2>2, <2>3, <2>5, <2>6, <2>7, <2>8, WriterStep
<1> QED
  BY <1>2, <1>3 DEF ReleaseUpdate

-----------------------------------------------------------------------------
LEMMA AcquireReadInv ==
  ASSUME IInv, NEW c \in Calls, AcquireRead(c)
  PROVE  IInv'
<1>1. call[c] \in Call /\ tx[c] \in Tx /\ CallInv(call[c], tx[c], version, taken, lease)
      /\ call[c].pc = "read" /\ (call[c].tries = MaxAttempts => call[c].pc = "error")
      /\ VersionSeen(c) \in Nat /\ TakenSeen(c) \subseteq Prefixes /\ version \in Nat
  BY SeenFits DEF AcquireRead
<1>2. CASE Goto(c, "error")
  BY <1>1, <1>2, FailInv
<1>3. ASSUME NEW p \in Free(TakenSeen(c), call[c].size),
             call' = [call EXCEPT ![c].pc = "update", ![c].pick = p,
                            ![c].version = VersionSeen(c), ![c].taken = TakenSeen(c)],
             UNCHANGED <<committed, tx>>
      PROVE  IInv'
  <2> DEFINE k == [call[c] EXCEPT !.pc = "update", !.pick = p,
                                  !.version = VersionSeen(c), !.taken = TakenSeen(c)]
  <2>1. p \in Prefixes /\ Apart(p, TakenSeen(c))
    BY DEF Free, Apart
  <2>2. call' = [call EXCEPT ![c] = k]
    BY <1>3
  <2>3. /\ k \in Call /\ k.pc = "update" /\ k.lease = call[c].lease /\ k.old = call[c].old
        /\ k.op = call[c].op /\ k.pick = p /\ k.lost = call[c].lost
        /\ k.tries = call[c].tries /\ k.version = VersionSeen(c) /\ k.taken = TakenSeen(c)
    BY <1>1, <2>1 DEF Call, Pcs
  <2> HIDE DEF k
  <2>4. Copied(k, tx[c], version, taken)
    BY <1>1, <2>3 DEF Copied, VersionSeen, TakenSeen
  <2>5. CallInv(k, tx[c], version, taken, lease)
    <3>1. AnyPoint(k, tx[c], version, lease) /\ Releasing(k, tx[c], version, taken)
          /\ Committing(k, tx[c], taken)
      BY <1>1, <2>3 DEF CallInv, AnyPoint, Releasing, Committing, Replaced
    <3>2. Acquiring(k, tx[c], version, taken)
      BY <1>1, <2>1, <2>3, <2>4 DEF CallInv, Acquiring, Replaced
    <3> QED BY <3>1, <3>2 DEF CallInv
  <2> QED
    BY <1>1, <1>3, <2>2, <2>3, <2>5, GotoStep
<1> QED
  BY <1>2, <1>3 DEF AcquireRead

LEMMA AcquireUpdateInv ==
  ASSUME IInv, NEW c \in Calls, AcquireUpdate(c)
  PROVE  IInv'
<1>1. call[c] \in Call /\ tx[c] \in Tx /\ CallInv(call[c], tx[c], version, taken, lease)
      /\ call[c].pc = "update" /\ (call[c].tries = MaxAttempts => call[c].pc = "error")
  BY SeenFits DEF AcquireUpdate
<1>2. CASE Lose(c, "read")
  BY <1>1, <1>2, LoseInv
<1>3. CASE /\ UpdateBlock(c, call[c].taken \cup {call[c].pick})
           /\ call' = [call EXCEPT ![c].pc = "check"]
           /\ UNCHANGED committed
  <2> DEFINE k == [call[c] EXCEPT !.pc = "check"]
             s == call[c].taken \cup {call[c].pick}
  <2>1. /\ k \in Call /\ k.pc = "check" /\ k.lease = call[c].lease /\ k.old = call[c].old
        /\ k.op = call[c].op /\ k.pick = call[c].pick /\ k.lost = call[c].lost
        /\ k.tries = call[c].tries
    BY <1>1 DEF Call, Pcs
  <2>2. /\ tx[c].added = {} /\ tx[c].removed = Replaced(call[c]) /\ ~ call[c].lost
        /\ call[c].lease \in Leases /\ call[c].old = lease[call[c].lease]
        /\ call[c].op # "delete" /\ call[c].pick \in Prefixes /\ Apart(call[c].pick, call[c].taken)
    BY <1>1 DEF CallInv, AnyPoint, Acquiring
  <2>3. call[c].taken = taken \ Replaced(call[c])
    <3>1. Current(c)
      BY <1>3 DEF UpdateBlock
    <3>2. call[c].taken = TakenSeen(c)
      BY <1>1, <3>1, CurrentCopy
    <3>3. TakenSeen(c) = taken \ Replaced(call[c])
      BY <1>1 DEF CallInv, Acquiring, TakenSeen, Replaced
    <3> QED BY <3>2, <3>3
  <2>4. s \in SUBSET Prefixes
    BY <1>1, <2>2 DEF Call
  <2>5. call' = [call EXCEPT ![c] = k]
    BY <1>3
  <2>6. UpdateBlock(c, s)
    BY <1>3
  <2>7. s = (taken \ Replaced(call[c])) \cup {call[c].pick}
    BY <2>3
  <2> HIDE DEF k, s
  <2>8. ASSUME NEW t \in Tx, t.wrote, version < t.version, t.taken = s,
               t.added = tx[c].added, t.removed = tx[c].removed
        PROVE  CallInv(k, t, version, taken, lease)
    <3>1. Replaced(k) = Replaced(call[c])
      BY <2>1 DEF Replaced
    <3>2. AnyPoint(k, t, version, lease) /\ Releasing(k, t, version, taken)
          /\ Committing(k, t, taken)
      BY <2>1, <2>2, <2>8, <3>1 DEF AnyPoint, Releasing, Committing
    <3>3. Acquiring(k, t, version, taken)
      BY <2>1, <2>2, <2>3, <2>7, <2>8, <3>1 DEF Acquiring
    <3> QED BY <3>2, <3>3 DEF CallInv
  <2>9. \A t \in Tx :
           (/\ t.wrote /\ version < t.version /\ t.taken = s
            /\ t.added = tx[c].added /\ t.removed = tx[c].removed)
              => CallInv(k, t, version, taken, lease)
    BY <2>8
  <2>10. call[c].pc \in {"relUpdate", "update"} /\ (k.tries = MaxAttempts => k.pc = "error")
    BY <1>1, <2>1
  <2>11. UNCHANGED committed /\ k \in Call /\ k.lease = call[c].lease
    BY <1>3, <2>1
  <2> QED
    BY <2>4, <2>5, <2>6, <2>9, <2>10, <2>11, WriterStep
<1> QED
  BY <1>2, <1>3 DEF AcquireUpdate

(* The prefix that a call has entered in the block has no row yet. *)
LEMMA PickIsNew ==
  ASSUME IInv, NEW c \in Calls, call[c].pc \in {"check", "insert"}
  PROVE  call[c].pick \notin RowsSeen(c)
<1>1. /\ tx[c].added = {} /\ tx[c].removed = Replaced(call[c]) /\ call[c].pick \in Prefixes
      /\ Apart(call[c].pick, taken \ Replaced(call[c]))
  BY SeenFits DEF CallInv, Acquiring
<1>2. rows = taken
  BY DEF IInv, Bookkeeping
<1>3. RowsSeen(c) = taken \ Replaced(call[c])
  BY <1>1, <1>2 DEF RowsSeen
<1>4. call[c].pick # {}
  BY <1>1, IpamAssumption
<1> QED
  BY <1>1, <1>3, <1>4 DEF Apart

LEMMA AcquireCheckInv ==
  ASSUME IInv, NEW c \in Calls, AcquireCheck(c)
  PROVE  IInv'
<1> DEFINE k == [call[c] EXCEPT !.pc = "insert"]
<1>1. call[c] \in Call /\ tx[c] \in Tx /\ CallInv(call[c], tx[c], version, taken, lease)
      /\ call[c].pc = "check" /\ (call[c].tries = MaxAttempts => call[c].pc = "error")
  BY SeenFits DEF AcquireCheck
<1>2. call[c].pick \notin RowsSeen(c)
  BY <1>1, PickIsNew
<1>3. call' = [call EXCEPT ![c] = k] /\ UNCHANGED <<committed, tx>>
  BY <1>2 DEF AcquireCheck, Goto
<1>4. /\ k \in Call /\ k.pc = "insert" /\ k.lease = call[c].lease /\ k.old = call[c].old
      /\ k.op = call[c].op /\ k.pick = call[c].pick /\ k.lost = call[c].lost
      /\ k.tries = call[c].tries
  BY <1>1 DEF Call, Pcs
<1> HIDE DEF k
<1>5. CallInv(k, tx[c], version, taken, lease)
  BY <1>1, <1>4 DEF CallInv, AnyPoint, Releasing, Acquiring, Committing, Replaced
<1> QED
  BY <1>1, <1>3, <1>4, <1>5, GotoStep

LEMMA AcquireInsertInv ==
  ASSUME IInv, NEW c \in Calls, AcquireInsert(c)
  PROVE  IInv'
<1> DEFINE k == [call[c] EXCEPT !.pc = "commit"]
           t == [tx[c] EXCEPT !.added = @ \cup {call[c].pick}]
<1>1. call[c] \in Call /\ tx[c] \in Tx /\ CallInv(call[c], tx[c], version, taken, lease)
      /\ call[c].pc = "insert" /\ (call[c].tries = MaxAttempts => call[c].pc = "error")
  BY SeenFits DEF AcquireInsert
<1>2. call[c].pick \notin RowsSeen(c)
  BY <1>1, PickIsNew
<1>3. /\ call' = [call EXCEPT ![c] = k] /\ tx' = [tx EXCEPT ![c] = t]
      /\ UNCHANGED committed
  BY <1>2 DEF AcquireInsert
<1>4. /\ k \in Call /\ k.pc = "commit" /\ k.lease = call[c].lease /\ k.old = call[c].old
      /\ k.op = call[c].op /\ k.pick = call[c].pick /\ k.lost = call[c].lost
      /\ k.tries = call[c].tries
  BY <1>1 DEF Call, Pcs
<1>5. /\ tx[c].wrote /\ tx[c].added = {} /\ tx[c].removed = Replaced(call[c])
      /\ call[c].pick \in Prefixes /\ ~ call[c].lost
      /\ tx[c].taken = (taken \ Replaced(call[c])) \cup {call[c].pick}
      /\ Apart(call[c].pick, taken \ Replaced(call[c]))
  BY <1>1 DEF CallInv, Acquiring, AnyPoint
<1>6. /\ t \in Tx /\ t.wrote /\ t.version = tx[c].version /\ t.taken = tx[c].taken
      /\ t.removed = tx[c].removed /\ t.added = {call[c].pick}
  BY <1>1, <1>5 DEF Tx
<1> HIDE DEF k, t
<1>7. CallInv(k, t, version, taken, lease)
  <2>1. Replaced(k) = Replaced(call[c]) /\ call[c].pick # NoPrefix
    BY <1>4, <1>5, IpamAssumption DEF Replaced, NoPrefix
  <2>2. AnyPoint(k, t, version, lease)
    BY <1>1, <1>4, <1>5, <1>6, <2>1 DEF CallInv, AnyPoint
  <2>3. Releasing(k, t, version, taken) /\ Acquiring(k, t, version, taken)
    BY <1>4, <1>5 DEF Releasing, Acquiring
  <2>4. Committing(k, t, taken)
    BY <1>4, <1>5, <1>6, <2>1 DEF Committing
  <2> QED BY <2>2, <2>3, <2>4 DEF CallInv
<1>8. \A d \in Calls \ {c} : call[d].pc # "idle" => call[d].lease # k.lease
  BY <1>1, <1>4 DEF IInv, OneCallPerLease
<1>9. \A d \in Calls \ {c} : ~ tx[d].wrote
  BY <1>5 DEF IInv, OneWriter
<1> QED
  BY <1>1, <1>3, <1>4, <1>6, <1>7, <1>8, <1>9, CallStep

-----------------------------------------------------------------------------
(* A call commits: the lease changes together with the rows, and whoever   *)
(* has read the block before holds a copy that is too old.                 *)
LEMMA OthersCopies ==
  ASSUME NEW k \in Call, NEW t \in Tx, NEW l,
         version \in Nat, version' \in Nat, version < version',
         CallInv(k, t, version, taken, lease), ~ t.wrote,
         k.pc # "idle" => k.lease # l,
         \A m \in Leases : m # l => lease'[m] = lease[m]
  PROVE  CallInv(k, t, version', taken', lease')
<1>1. AnyPoint(k, t, version', lease')
  BY DEF CallInv, AnyPoint
<1>2. Copied(k, t, version, taken) => Copied(k, t, version', taken')
  BY DEF Call, Copied
<1>3. Releasing(k, t, version', taken')
  BY <1>2 DEF CallInv, Releasing
<1>4. Acquiring(k, t, version', taken')
  BY <1>2 DEF CallInv, Acquiring
<1>5. Committing(k, t, taken')
  BY DEF CallInv, Committing
<1> QED
  BY <1>1, <1>3, <1>4, <1>5 DEF CallInv

LEMMA CommitInv ==
  ASSUME IInv, NEW c \in Calls, Commit(c)
  PROVE  IInv'
<1> DEFINE l == call[c].lease
           p == call[c].pick
<1>1. call[c] \in Call /\ tx[c] \in Tx /\ version \in Nat /\ taken \subseteq Prefixes
      /\ call[c].pc = "commit" /\ CallInv(call[c], tx[c], version, taken, lease)
  BY SeenFits DEF Commit
<1>2. /\ tx[c].wrote /\ version < tx[c].version
      /\ l \in Leases /\ call[c].old = lease[l]
      /\ tx[c].removed = {lease[l]} \ {NoPrefix} /\ tx[c].added = {p} \ {NoPrefix}
      /\ tx[c].taken = (taken \ ({lease[l]} \ {NoPrefix})) \cup ({p} \ {NoPrefix})
      /\ Apart(p, taken \ ({lease[l]} \ {NoPrefix}))
  BY <1>1 DEF CallInv, AnyPoint, Committing, Replaced
<1>3. /\ lease \in [Leases -> Prefixes \cup {NoPrefix}]
      /\ call \in [Calls -> Call] /\ tx \in [Calls -> Tx]
      /\ taken = Held /\ rows = Held
      /\ \A m, n \in Leases : m # n => lease[m] \cap lease[n] = {}
  BY DEF IInv, TypeOK, Bookkeeping, LeasesDisjoint
<1>4. /\ version' = tx[c].version
      /\ taken' = (taken \ ({lease[l]} \ {NoPrefix})) \cup ({p} \ {NoPrefix})
      /\ rows' = (rows \ ({lease[l]} \ {NoPrefix})) \cup ({p} \ {NoPrefix})
      /\ lease' = [lease EXCEPT ![l] = p]
      /\ call' = [call EXCEPT ![c] = Idle] /\ tx' = [tx EXCEPT ![c] = Nothing]
  BY <1>2 DEF Commit, VersionSeen, TakenSeen, RowsSeen
<1>5. p \in Prefixes \cup {NoPrefix} /\ tx[c].version \in Nat
  BY <1>1 DEF Call, Tx
<1>6. lease'[l] = p /\ \A m \in Leases : m # l => lease'[m] = lease[m]
  BY <1>2, <1>3, <1>4
<1>7. /\ call'[c] = Idle /\ tx'[c] = Nothing
      /\ \A d \in Calls : d # c => call'[d] = call[d] /\ tx'[d] = tx[d]
  BY <1>3, <1>4
<1>8. /\ Idle.pc = "idle" /\ Idle.tries # MaxAttempts /\ ~ Idle.lost
      /\ ~ Nothing.wrote /\ Nothing.added = {} /\ Nothing.removed = {}
  BY IpamAssumption DEF Idle, Begun, Nothing
<1>9. TypeOK'
  <2>1. /\ version' \in Nat /\ taken' \subseteq Prefixes /\ rows' \subseteq Prefixes
        /\ lease' \in [Leases -> Prefixes \cup {NoPrefix}]
    BY <1>1, <1>2, <1>3, <1>4, <1>5
  <2>2. call' \in [Calls -> Call] /\ tx' \in [Calls -> Tx]
    BY <1>3, <1>4, IdleFits
  <2>3. \A d \in Calls : call'[d].tries = MaxAttempts => call'[d].pc = "error"
    BY <1>7, <1>8 DEF IInv, TypeOK
  <2> QED BY <2>1, <2>2, <2>3 DEF TypeOK
<1>10. OneCallPerLease' /\ OneWriter'
  BY <1>7, <1>8 DEF IInv, OneCallPerLease, OneWriter
<1>11. (\A d \in Calls : CallInv(call[d], tx[d], version, taken, lease))'
  <2> SUFFICES ASSUME NEW d \in Calls
               PROVE  CallInv(call'[d], tx'[d], version', taken', lease')
    OBVIOUS
  <2>1. CASE d = c
    <3>1. CallInv(Idle, Nothing, version', taken', lease')
      BY <1>8 DEF CallInv, AnyPoint, Releasing, Acquiring, Committing
    <3> QED BY <1>7, <2>1, <3>1
  <2>2. CASE d # c
    <3>1. ~ tx[d].wrote /\ (call[d].pc # "idle" => call[d].lease # l)
      BY <1>1, <1>2, <2>2 DEF IInv, OneWriter, OneCallPerLease
    <3>2. call[d] \in Call /\ tx[d] \in Tx /\ CallInv(call[d], tx[d], version, taken, lease)
      BY SeenFits
    <3>3. version < version' /\ version' \in Nat
      BY <1>2, <1>4, <1>5
    <3> HIDE DEF l
    <3>4. CallInv(call[d], tx[d], version', taken', lease')
      BY <1>1, <1>6, <3>1, <3>2, <3>3, OthersCopies
    <3> QED BY <1>7, <2>2, <3>4
  <2> QED BY <2>1, <2>2
(* Another lease keeps its prefix, which the block still has. *)
<1>12. ASSUME NEW m \in Leases, m # l, lease[m] # NoPrefix
       PROVE  lease[m] \in taken \ ({lease[l]} \ {NoPrefix})
  <2>1. lease[m] \in taken
    BY <1>3, <1>12 DEF Held
  <2>2. lease[m] # lease[l]
    BY <1>2, <1>3, <1>12 DEF NoPrefix
  <2> QED BY <2>1, <2>2
<1>13. LeasesDisjoint'
  <2> SUFFICES ASSUME NEW m \in Leases, NEW n \in Leases, m # n
               PROVE  lease'[m] \cap lease'[n] = {}
    BY DEF LeasesDisjoint
  <2>1. ASSUME NEW q \in Leases, q # l PROVE p \cap lease[q] = {}
    <3>1. CASE lease[q] = NoPrefix
      BY <3>1 DEF NoPrefix
    <3>2. CASE lease[q] # NoPrefix
      BY <1>2, <1>12, <2>1, <3>2 DEF Apart
    <3> QED BY <3>1, <3>2
  <2>2. CASE m = l
    <3>1. lease'[m] = p /\ lease'[n] = lease[n] /\ n # l
      BY <1>6, <2>2
    <3> QED BY <2>1, <3>1
  <2>3. CASE n = l
    <3>1. lease'[n] = p /\ lease'[m] = lease[m] /\ m # l
      BY <1>6, <2>3
    <3>2. p \cap lease[m] = {}
      BY <2>1, <3>1
    <3> QED BY <3>1, <3>2
  <2>4. CASE m # l /\ n # l
    BY <1>3, <1>6, <2>4
  <2> QED BY <2>2, <2>3, <2>4
<1>14. Bookkeeping'
  <2>1. Held' = (taken \ ({lease[l]} \ {NoPrefix})) \cup ({p} \ {NoPrefix})
    <3>1. ASSUME NEW x \in Held'
          PROVE  x \in (taken \ ({lease[l]} \ {NoPrefix})) \cup ({p} \ {NoPrefix})
      <4>1. PICK m \in Leases : x = lease'[m] /\ x # NoPrefix
        BY DEF Held
      <4>2. CASE m = l
        BY <1>6, <4>1, <4>2
      <4>3. CASE m # l
        BY <1>6, <1>12, <4>1, <4>3
      <4> QED BY <4>2, <4>3
    <3>2. ASSUME NEW x \in (taken \ ({lease[l]} \ {NoPrefix})) \cup ({p} \ {NoPrefix})
          PROVE  x \in Held'
      <4>1. CASE x \in {p} \ {NoPrefix}
        BY <1>2, <1>6, <4>1 DEF Held
      <4>2. CASE x \in taken \ ({lease[l]} \ {NoPrefix})
        <5>1. PICK m \in Leases : x = lease[m] /\ x # NoPrefix
          BY <1>3, <4>2 DEF Held
        <5>2. m # l
          BY <4>2, <5>1
        <5> QED BY <1>6, <5>1, <5>2 DEF Held
      <4> QED BY <3>2, <4>1, <4>2
    <3> QED BY <3>1, <3>2
  <2> QED BY <1>3, <1>4, <2>1 DEF Bookkeeping
<1> QED
  BY <1>9, <1>10, <1>11, <1>13, <1>14 DEF IInv

-----------------------------------------------------------------------------
LEMMA InitInv == Init => IInv
<1> SUFFICES ASSUME Init PROVE IInv
  OBVIOUS
<1>1. /\ Idle.pc = "idle" /\ Idle.tries # MaxAttempts /\ ~ Idle.lost
      /\ ~ Nothing.wrote /\ Nothing.added = {} /\ Nothing.removed = {}
  BY IpamAssumption DEF Idle, Begun, Nothing
<1>2. \A c \in Calls : call[c] = Idle /\ tx[c] = Nothing
  BY DEF Init
<1>3. TypeOK
  BY <1>1, <1>2, IdleFits DEF Init, TypeOK
<1>4. OneCallPerLease /\ OneWriter
  BY <1>1, <1>2 DEF OneCallPerLease, OneWriter
<1>5. \A c \in Calls : CallInv(call[c], tx[c], version, taken, lease)
  BY <1>1, <1>2 DEF CallInv, AnyPoint, Releasing, Acquiring, Committing
<1>6. \A l \in Leases : lease[l] = {}
  BY DEF Init, NoPrefix
<1>7. LeasesDisjoint
  BY <1>6 DEF LeasesDisjoint
<1>8. Bookkeeping
  BY <1>6 DEF Init, Bookkeeping, Held, NoPrefix
<1> QED
  BY <1>3, <1>4, <1>5, <1>7, <1>8 DEF IInv

LEMMA NextInv == IInv /\ [Next]_vars => IInv'
<1> SUFFICES ASSUME IInv, [Next]_vars PROVE IInv'
  OBVIOUS
<1>1. CASE Next
  <2> PICK c \in Calls : Begin(c) \/ Proceed(c) \/ Fail(c)
    BY <1>1 DEF Next
  <2>1. CASE Begin(c)
    BY <2>1, CreateInv, ReleaseBegins DEF Begin
  <2>2. CASE Fail(c)
    BY <2>2, FailInv DEF Fail
  <2>3. CASE Find(c)            BY <2>3, FindInv
  <2>4. CASE ReleaseRead(c)     BY <2>4, ReleaseReadInv
  <2>5. CASE ReleaseCheck(c)    BY <2>5, ReleaseCheckInv
  <2>6. CASE ReleaseDelete(c)   BY <2>6, ReleaseDeleteInv
  <2>7. CASE ReleaseUpdate(c)   BY <2>7, ReleaseUpdateInv
  <2>8. CASE AcquireRead(c)     BY <2>8, AcquireReadInv
  <2>9. CASE AcquireUpdate(c)   BY <2>9, AcquireUpdateInv
  <2>10. CASE AcquireCheck(c)   BY <2>10, AcquireCheckInv
  <2>11. CASE AcquireInsert(c)  BY <2>11, AcquireInsertInv
  <2>12. CASE Commit(c)         BY <2>12, CommitInv
  <2>13. CASE Rollback(c)       BY <2>13, RollbackInv
  <2> QED
    BY <2>1, <2>2, <2>3, <2>4, <2>5, <2>6, <2>7, <2>8, <2>9, <2>10, <2>11, <2>12, <2>13
    DEF Proceed
<1>2. CASE UNCHANGED vars
  <2>1. /\ call' = call /\ tx' = tx /\ version' = version
        /\ taken' = taken /\ rows' = rows /\ lease' = lease
    BY <1>2 DEF vars
  <2> QED
    BY <2>1 DEF IInv, TypeOK, OneCallPerLease, OneWriter, LeasesDisjoint, Bookkeeping, Held
<1> QED
  BY <1>1, <1>2

LEMMA Inductive == Spec => []IInv
  BY InitInv, NextInv, PTL DEF Spec

(* Every variable keeps its type, and a call that has used up its attempts *)
(* has given up.                                                           *)
THEOREM TypeCorrect == Spec => []TypeOK
<1>1. IInv => TypeOK
  BY DEF IInv
<1> QED
  BY <1>1, Inductive, PTL

(* Two leases never share an address, however many calls race for the      *)
(* block and whatever prefixes they ask for.                               *)
THEOREM NeverTwice == Spec => []LeasesDisjoint
<1>1. IInv => LeasesDisjoint
  BY DEF IInv
<1> QED
  BY <1>1, Inductive, PTL

(* What the block marks as used, what has a row and what the leases hold   *)
(* is the same after every commit and every rollback.                      *)
THEOREM NothingLeaks == Spec => []Bookkeeping
<1>1. IInv => Bookkeeping
  BY DEF IInv
<1> QED
  BY <1>1, Inductive, PTL

(* The writer of the block never waits for the row of a child: no two      *)
(* transactions wait for each other.                                       *)
THEOREM NoCircle == Spec => []HolderProceeds
<1>1. ASSUME IInv PROVE HolderProceeds
  <2> SUFFICES ASSUME NEW c \in Calls, tx[c].wrote, call[c].pc = "insert",
                      NEW d \in Calls \ {c}, call[c].pick \in tx[d].added \cup tx[d].removed
               PROVE  FALSE
    BY DEF HolderProceeds, RowLocked
  <2>1. CallInv(call[c], tx[c], version, taken, lease) /\ CallInv(call[d], tx[d], version, taken, lease)
    BY <1>1 DEF IInv
  <2>2. ~ tx[d].wrote /\ tx[d].added = {} /\ call[d].pc # "idle"
    BY <1>1, <2>1 DEF IInv, OneWriter, CallInv, AnyPoint
  <2>3. /\ call[d].lease \in Leases /\ call[c].lease \in Leases
        /\ call[c].pick = lease[call[d].lease] /\ call[c].pick # NoPrefix
        /\ call[c].old = lease[call[c].lease]
        /\ Apart(call[c].pick, taken \ Replaced(call[c]))
    BY <2>1, <2>2 DEF CallInv, AnyPoint, Acquiring, Replaced
  <2>4. call[d].lease # call[c].lease
    BY <1>1, <2>2 DEF IInv, OneCallPerLease
  <2>5. lease[call[d].lease] \cap lease[call[c].lease] = {}
    BY <1>1, <2>3, <2>4 DEF IInv, LeasesDisjoint
  <2>6. call[c].pick \in taken
    BY <1>1, <2>3 DEF IInv, Bookkeeping, Held
  <2>7. call[c].pick # call[c].old
    BY <2>3, <2>5 DEF NoPrefix
  <2> QED
    BY <2>3, <2>6, <2>7 DEF Apart, Replaced, NoPrefix
<1> QED
  BY <1>1, Inductive, PTL
-----------------------------------------------------------------------------
(* What a call picks has the size that was asked for, and a call that does *)
(* not delete has picked something when it commits.  Only the refinement   *)
(* needs this.                                                             *)
Wanted(k) ==
    /\ k.pc = "idle" <=> k.op = "none"
    /\ k.pick # NoPrefix => k.op # "delete" /\ Cardinality(k.pick) = k.size
    /\ k.pc = "commit" => (k.op = "delete" <=> k.pick = NoPrefix)
WantedInv == \A c \in Calls : Wanted(call[c])

(* The call goes on with the same request. *)
Kept(c, k) ==
    /\ call' = [call EXCEPT ![c] = k]
    /\ k.op = call[c].op /\ k.lease = call[c].lease /\ k.size = call[c].size
    /\ Wanted(k)

LEMMA GotoKept ==
  ASSUME IInv, NEW c \in Calls, Wanted(call[c]), call[c].pc # "idle", NEW p \in Pcs \ {"idle"},
         call' = [call EXCEPT ![c].pc = p],
         p = "commit" => (call[c].op = "delete" <=> call[c].pick = NoPrefix)
  PROVE  \E k \in Call : Kept(c, k)
<1> DEFINE k == [call[c] EXCEPT !.pc = p]
<1>1. call[c] \in Call
  BY SeenFits
<1>2. /\ k \in Call /\ k.pc = p /\ k.op = call[c].op /\ k.lease = call[c].lease
      /\ k.size = call[c].size /\ k.pick = call[c].pick
  BY <1>1 DEF Call
<1>3. call' = [call EXCEPT ![c] = k]
  OBVIOUS
<1> HIDE DEF k
<1>4. Kept(c, k)
  BY <1>2, <1>3 DEF Kept, Wanted
<1> QED
  BY <1>2, <1>4

LEMMA LoseKept ==
  ASSUME IInv, NEW c \in Calls, Wanted(call[c]), NEW start,
         \/ call[c].pc = "relUpdate" /\ start = "relRead"
         \/ call[c].pc = "update" /\ start = "read",
         Lose(c, start)
  PROVE  \E k \in Call : Kept(c, k)
<1> DEFINE p == IF call[c].tries + 1 = MaxAttempts THEN "error" ELSE start
           k == [call[c] EXCEPT !.pc = p, !.tries = @ + 1, !.lost = @ \/ start = "relRead"]
<1>1. call[c] \in Call /\ (call[c].tries = MaxAttempts => call[c].pc = "error")
  BY SeenFits
<1>2. call' = [call EXCEPT ![c] = k]
  BY DEF Lose
<1>3. call[c].tries + 1 \in 0..MaxAttempts /\ p \in {start, "error"} /\ p \in Pcs
  BY <1>1, IpamAssumption DEF Call, Pcs
<1> HIDE DEF p
<1>4. /\ k.pc = p /\ k.op = call[c].op /\ k.lease = call[c].lease
      /\ k.size = call[c].size /\ k.pick = call[c].pick
  BY <1>1 DEF Call
<1>5. k \in Call
  BY <1>1, <1>3 DEF Call
<1> HIDE DEF k
<1>6. Kept(c, k)
  BY <1>2, <1>3, <1>4 DEF Kept, Wanted
<1> QED
  BY <1>5, <1>6

LEMMA ReadKept ==
  ASSUME IInv, NEW c \in Calls, Wanted(call[c]), ReleaseRead(c) \/ AcquireRead(c)
  PROVE  \E k \in Call : Kept(c, k)
<1>1. /\ call[c] \in Call /\ VersionSeen(c) \in Nat /\ TakenSeen(c) \subseteq Prefixes
      /\ CallInv(call[c], tx[c], version, taken, lease)
  BY SeenFits
<1>2. CASE ReleaseRead(c)
  <2> DEFINE k == [call[c] EXCEPT !.pc = "relCheck", !.version = VersionSeen(c),
                                  !.taken = TakenSeen(c)]
  <2>1. call' = [call EXCEPT ![c] = k] /\ call[c].pc = "relRead"
    BY <1>2 DEF ReleaseRead
  <2>2. /\ k \in Call /\ k.pc = "relCheck" /\ k.op = call[c].op /\ k.lease = call[c].lease
        /\ k.size = call[c].size /\ k.pick = call[c].pick
    BY <1>1 DEF Call, Pcs
  <2> HIDE DEF k
  <2>3. Kept(c, k)
    BY <2>1, <2>2 DEF Kept, Wanted
  <2> QED
    BY <2>2, <2>3
<1>3. CASE AcquireRead(c)
  <2>1. call[c].pc = "read" /\ call[c].op # "delete"
    BY <1>1, <1>3 DEF AcquireRead, CallInv, Acquiring
  <2>2. CASE Goto(c, "error")
    <3>1. "error" \in Pcs \ {"idle"} /\ call' = [call EXCEPT ![c].pc = "error"]
      BY <2>2 DEF Goto, Pcs
    <3> QED
      BY <2>1, <3>1, GotoKept
  <2>3. ASSUME NEW p \in Free(TakenSeen(c), call[c].size),
               call' = [call EXCEPT ![c].pc = "update", ![c].pick = p,
                            ![c].version = VersionSeen(c), ![c].taken = TakenSeen(c)]
        PROVE  \E k \in Call : Kept(c, k)
    <3> DEFINE k == [call[c] EXCEPT !.pc = "update", !.pick = p, !.version = VersionSeen(c),
                                    !.taken = TakenSeen(c)]
    <3>1. call' = [call EXCEPT ![c] = k]
      BY <2>3
    <3>2. p \in Prefixes /\ Cardinality(p) = call[c].size
      BY DEF Free
    <3>3. /\ k \in Call /\ k.pc = "update" /\ k.op = call[c].op /\ k.lease = call[c].lease
          /\ k.size = call[c].size /\ k.pick = p
      BY <1>1, <3>2 DEF Call, Pcs
    <3> HIDE DEF k
    <3>4. Kept(c, k)
      BY <2>1, <3>1, <3>2, <3>3 DEF Kept, Wanted
    <3> QED
      BY <3>3, <3>4
  <2> QED
    BY <1>3, <2>2, <2>3 DEF AcquireRead
<1> QED
  BY <1>2, <1>3

(* What a call does but begin, commit and roll back is not seen outside.   *)
Inside(c) ==
    \/ Fail(c) \/ Find(c) \/ ReleaseRead(c) \/ ReleaseCheck(c) \/ ReleaseDelete(c)
    \/ ReleaseUpdate(c) \/ AcquireRead(c) \/ AcquireUpdate(c) \/ AcquireCheck(c) \/ AcquireInsert(c)

LEMMA InsideKept ==
  ASSUME IInv, NEW c \in Calls, Wanted(call[c]), Inside(c)
  PROVE  /\ \E k \in Call : Kept(c, k)
         /\ lease' = lease
<1> DEFINE Steps(p) == call' = [call EXCEPT ![c].pc = p]
<1>1. call[c] \in Call /\ CallInv(call[c], tx[c], version, taken, lease)
  BY SeenFits
<1>2. /\ {"error", "relRead", "relDelete", "relUpdate", "check", "insert", "commit", "read"}
           \subseteq Pcs \ {"idle"}
      /\ lease' = lease
  BY DEF Inside, Pcs, Fail, Find, ReleaseRead, ReleaseCheck, ReleaseDelete, ReleaseUpdate,
         AcquireRead, AcquireUpdate, AcquireCheck, AcquireInsert, Goto, Lose, committed
<1>3. CASE Fail(c)
  BY <1>2, <1>3, GotoKept DEF Fail, Goto
<1>4. CASE Find(c)
  <2>1. call[c].pc = "find" /\ call[c].old \in rows /\ tx[c].removed = {}
    BY <1>1, <1>4, OwnRow DEF Find, CallInv, Releasing
  <2>2. call[c].old \in RowsSeen(c)
    BY <2>1 DEF RowsSeen
  <2>3. Steps("relRead")
    BY <1>4, <2>2 DEF Find, Goto
  <2> QED
    BY <1>2, <2>1, <2>3, GotoKept
<1>5. CASE ReleaseCheck(c)
  <2>1. call[c].pc = "relCheck" /\ (Steps("relDelete") \/ Steps("error"))
    BY <1>5 DEF ReleaseCheck, Goto
  <2> QED
    BY <1>2, <2>1, GotoKept
<1>6. CASE ReleaseDelete(c)
  <2>1. call[c].pc = "relDelete" /\ Steps("relUpdate")
    BY <1>6 DEF ReleaseDelete
  <2> QED
    BY <1>2, <2>1, GotoKept
<1>7. CASE ReleaseUpdate(c)
  <2>1. CASE Lose(c, "relRead")
    BY <1>2, <1>7, <2>1, LoseKept DEF ReleaseUpdate
  <2>2. CASE call' = [call EXCEPT ![c].pc = AfterRelease(c), ![c].tries = 0]
    <3> DEFINE a == AfterRelease(c)
               k == [call[c] EXCEPT !.pc = a, !.tries = 0]
    <3>1. call' = [call EXCEPT ![c] = k]
      BY <2>2
    <3>2. /\ call[c].pc = "relUpdate" /\ call[c].op \in {"delete", "resize"}
          /\ call[c].pick = NoPrefix
      BY <1>1, <1>7 DEF ReleaseUpdate, CallInv, Releasing
    <3>3. a \in Pcs /\ a # "idle" /\ (a = "commit" => call[c].op = "delete") /\ 0 \in 0..MaxAttempts
      BY <3>2, IpamAssumption DEF AfterRelease, Pcs
    <3> HIDE DEF a
    <3>4. /\ k \in Call /\ k.pc = a /\ k.op = call[c].op
          /\ k.lease = call[c].lease /\ k.size = call[c].size /\ k.pick = call[c].pick
      BY <1>1, <3>3 DEF Call
    <3> HIDE DEF k
    <3>5. Kept(c, k)
      BY <3>1, <3>2, <3>3, <3>4 DEF Kept, Wanted
    <3> QED
      BY <1>2, <3>4, <3>5
  <2> QED
    BY <1>2, <1>7, <2>1, <2>2 DEF ReleaseUpdate
<1>8. CASE AcquireUpdate(c)
  <2>1. CASE Lose(c, "read")
    BY <1>2, <1>8, <2>1, LoseKept DEF AcquireUpdate
  <2>2. CASE Steps("check")
    BY <1>2, <1>8, <2>2, GotoKept DEF AcquireUpdate
  <2> QED
    BY <1>8, <2>1, <2>2 DEF AcquireUpdate
<1>9. CASE AcquireCheck(c) \/ AcquireInsert(c)
  <2>1. /\ call[c].pc \in {"check", "insert"}
        /\ Steps("commit") \/ Steps("insert") \/ Steps("error")
    BY <1>9 DEF AcquireCheck, AcquireInsert, Goto
  <2>2. call[c].op # "delete" /\ call[c].pick \in Prefixes
    BY <1>1, <2>1 DEF CallInv, Acquiring
  <2>3. call[c].pick # NoPrefix
    BY <2>2, IpamAssumption DEF NoPrefix
  <2> QED
    BY <1>2, <2>1, <2>2, <2>3, GotoKept
<1> QED
  BY <1>2, <1>3, <1>4, <1>5, <1>6, <1>7, <1>8, <1>9, ReadKept DEF Inside

-----------------------------------------------------------------------------
(* The request of a call, and that of the others. *)
LEMMA RequestOf ==
  ASSUME NEW c \in Calls
  PROVE  /\ Request[c].op = call[c].op /\ Request[c].lease = call[c].lease
         /\ Request[c].size = call[c].size
  BY DEF Request

LEMMA RequestStep ==
  ASSUME call \in [Calls -> Call], NEW c \in Calls, NEW k, call' = [call EXCEPT ![c] = k]
  PROVE  Request' = [Request EXCEPT ![c] = [op |-> k.op, lease |-> k.lease, size |-> k.size]]
<1>1. call'[c] = k /\ \A d \in Calls \ {c} : call'[d] = call[d]
  OBVIOUS
<1> QED
  BY <1>1 DEF Request

(* The abstract specification counts as this one does. *)
LEMMA SameCount == \A S : Pool!Cardinality(S) = Cardinality(S)
  BY DEF Pool!Cardinality, Cardinality

LEMMA AskRefines ==
  ASSUME IInv, WantedInv, NEW c \in Calls, Begin(c)
  PROVE  WantedInv' /\ Pool!PNext
<1>1. call \in [Calls -> Call] /\ lease \in [Leases -> Prefixes \cup {NoPrefix}]
  BY DEF IInv, TypeOK
<1>2. PICK l \in Leases : Create(c, l) \/ Delete(c, l) \/ Resize(c, l)
  BY DEF Begin
<1>3. /\ call[c].pc = "idle" /\ ~ Busy(l) /\ lease' = lease
      /\ \/ \E n \in Sizes : /\ lease[l] = NoPrefix
                             /\ call' = [call EXCEPT ![c] = Begun("read", "create", l, NoPrefix, n)]
         \/ /\ lease[l] # NoPrefix
            /\ call' = [call EXCEPT ![c] = Begun("find", "delete", l, lease[l], 0)]
         \/ \E n \in Sizes \ {Cardinality(lease[l])} :
              /\ lease[l] # NoPrefix
              /\ call' = [call EXCEPT ![c] = Begun("find", "resize", l, lease[l], n)]
  BY <1>2 DEF Create, Delete, Resize, MayBegin, committed
(* One of the three requests, whatever the call begins with. *)
<1>4. ASSUME NEW p \in {"read", "find"}, NEW o \in {"create", "delete", "resize"}, NEW q, NEW n,
             call' = [call EXCEPT ![c] = Begun(p, o, l, q, n)],
             IF o = "create" THEN lease[l] = NoPrefix ELSE lease[l] # NoPrefix
      PROVE  WantedInv' /\ Pool!Ask(c, o, l, n)
  <2> DEFINE k == Begun(p, o, l, q, n)
  <2>1. k.pc = p /\ k.op = o /\ k.lease = l /\ k.size = n /\ k.pick = NoPrefix
    BY DEF Begun
  <2>2. call' = [call EXCEPT ![c] = k]
    BY <1>4
  <2> HIDE DEF k
  <2>3. Request' = [Request EXCEPT ![c] = [op |-> o, lease |-> l, size |-> n]]
    BY <1>1, <2>1, <2>2, RequestStep
  <2>4. Request[c].op = "none" /\ ~ Pool!Requested(l)
    BY <1>3, RequestOf DEF WantedInv, Wanted, Busy, Pool!Requested
  <2>5. Pool!Ask(c, o, l, n)
    BY <1>3, <1>4, <2>3, <2>4 DEF Pool!Ask, Pool!NoPrefix, NoPrefix
  <2>6. WantedInv'
    BY <1>1, <2>1, <2>2 DEF WantedInv, Wanted
  <2> QED
    BY <2>5, <2>6
<1>5. Pool!Sizes = Sizes
  BY SameCount DEF Pool!Sizes, Sizes
<1>6. ASSUME NEW n \in Sizes, lease[l] = NoPrefix,
             call' = [call EXCEPT ![c] = Begun("read", "create", l, NoPrefix, n)]
      PROVE  WantedInv' /\ Pool!PNext
  <2>1. WantedInv' /\ Pool!Ask(c, "create", l, n)
    BY <1>4, <1>6
  <2>2. n \in Pool!Sizes
    BY <1>5
  <2> QED
    BY <2>1, <2>2 DEF Pool!PNext
<1>7. ASSUME lease[l] # NoPrefix, call' = [call EXCEPT ![c] = Begun("find", "delete", l, lease[l], 0)]
      PROVE  WantedInv' /\ Pool!PNext
  BY <1>4, <1>7 DEF Pool!PNext
<1>8. ASSUME NEW n \in Sizes \ {Cardinality(lease[l])}, lease[l] # NoPrefix,
             call' = [call EXCEPT ![c] = Begun("find", "resize", l, lease[l], n)]
      PROVE  WantedInv' /\ Pool!PNext
  <2>1. WantedInv' /\ Pool!Ask(c, "resize", l, n)
    BY <1>4, <1>8
  <2>2. n \in Pool!Sizes \ {Pool!Cardinality(lease[l])}
    BY <1>5, SameCount
  <2> QED
    BY <2>1, <2>2 DEF Pool!PNext
<1> QED
  BY <1>3, <1>6, <1>7, <1>8

LEMMA EndRefines ==
  ASSUME IInv, IInv', WantedInv, NEW c \in Calls, Commit(c) \/ Rollback(c)
  PROVE  WantedInv' /\ Pool!PNext
<1>1. /\ call \in [Calls -> Call] /\ call[c] \in Call
      /\ lease \in [Leases -> Prefixes \cup {NoPrefix}]
      /\ CallInv(call[c], tx[c], version, taken, lease) /\ Wanted(call[c])
  BY SeenFits DEF IInv, TypeOK, WantedInv
<1>2. call' = [call EXCEPT ![c] = Idle] /\ call[c].pc # "idle"
  BY DEF Commit, Rollback
<1>3. /\ Idle.pc = "idle" /\ Idle.op = "none" /\ Idle.lease = "none" /\ Idle.size = 0
      /\ Idle.pick = NoPrefix
  BY DEF Idle, Begun
<1>4. WantedInv'
  BY <1>1, <1>2, <1>3 DEF WantedInv, Wanted
<1>0. Request' = [Request EXCEPT ![c] = [op |-> Idle.op, lease |-> Idle.lease, size |-> Idle.size]]
  BY <1>1, <1>2, RequestStep
<1>5. /\ Request' = [Request EXCEPT ![c] = Pool!NoRequest] /\ Request[c].op # "none"
      /\ Request[c].op = call[c].op /\ Request[c].lease = call[c].lease
      /\ Request[c].size = call[c].size
  BY <1>0, <1>1, <1>2, <1>3, RequestOf DEF Wanted, Pool!NoRequest
<1>6. CASE Rollback(c)
  BY <1>4, <1>5, <1>6 DEF Rollback, committed, Pool!Refuse, Pool!PNext
<1>7. CASE Commit(c)
  <2> DEFINE l == call[c].lease
             p == call[c].pick
  <2>1. l \in Leases /\ lease' = [lease EXCEPT ![l] = p] /\ call[c].pc = "commit"
    BY <1>1, <1>2, <1>7 DEF CallInv, AnyPoint, Commit
  <2>2. CASE call[c].op = "delete"
    <3>1. p = Pool!NoPrefix
      BY <1>1, <2>1, <2>2 DEF Wanted, NoPrefix, Pool!NoPrefix
    <3>2. Pool!Serve(c)
      BY <1>5, <2>1, <2>2, <3>1 DEF Pool!Serve
    <3> QED
      BY <1>4, <3>2 DEF Pool!PNext
  <2>3. CASE call[c].op # "delete"
    <3>1. p \in Prefixes /\ Cardinality(p) = call[c].size
      <4>1. p # NoPrefix /\ Cardinality(p) = call[c].size
        BY <1>1, <2>1, <2>3 DEF Wanted
      <4>2. p \in Prefixes \cup {NoPrefix}
        BY <1>1 DEF Call
      <4> QED
        BY <4>1, <4>2
    <3>2. ASSUME NEW m \in Leases \ {l}
          PROVE  p \cap lease[m] = {}
      <4>1. lease'[l] = p /\ lease'[m] = lease[m]
        BY <1>1, <2>1
      <4>2. lease'[l] \cap lease'[m] = {}
        BY <2>1 DEF IInv, LeasesDisjoint
      <4> QED
        BY <4>1, <4>2
    <3> HIDE DEF l, p
    <3>3. p \in Pool!Available(l, call[c].size)
      BY <3>1, <3>2, SameCount DEF Pool!Available
    <3>4. Pool!Serve(c)
      BY <1>5, <2>1, <2>3, <3>3 DEF Pool!Serve, l, p
    <3> QED
      BY <1>4, <3>4 DEF Pool!PNext
  <2> QED
    BY <2>2, <2>3
<1> QED
  BY <1>6, <1>7

LEMMA InsideRefines ==
  ASSUME IInv, WantedInv, NEW c \in Calls, Inside(c)
  PROVE  WantedInv' /\ UNCHANGED Pool!pvars
<1>1. PICK k \in Call : Kept(c, k)
  BY InsideKept DEF WantedInv
<1>2. call \in [Calls -> Call] /\ call' = [call EXCEPT ![c] = k] /\ lease' = lease
  BY <1>1, InsideKept DEF IInv, TypeOK, Kept, WantedInv
<1>3. WantedInv'
  BY <1>1, <1>2 DEF WantedInv, Kept
<1>4. \A d \in Calls : /\ call'[d].op = call[d].op /\ call'[d].lease = call[d].lease
                       /\ call'[d].size = call[d].size
  BY <1>1, <1>2 DEF Kept
<1>5. Request' = Request
  BY <1>4 DEF Request
<1> QED
  BY <1>2, <1>3, <1>5 DEF Pool!pvars

(* Every call takes effect in one step, its commit, on the leases as they  *)
(* are then, and with the size that was asked for: what a READ COMMITTED   *)
(* transaction has read of the block is too old to be written back, or     *)
(* true.                                                                   *)
THEOREM Serializable == Spec => ImplementsPool
<1>1. Init => WantedInv /\ Pool!PInit
  <2> SUFFICES ASSUME Init
               PROVE  WantedInv /\ Pool!PInit
    OBVIOUS
  <2>1. /\ \A c \in Calls : call[c] = Idle
        /\ Idle.pc = "idle" /\ Idle.op = "none" /\ Idle.lease = "none" /\ Idle.size = 0
        /\ Idle.pick = NoPrefix
    BY DEF Init, Idle, Begun
  <2>2. WantedInv
    BY <2>1 DEF WantedInv, Wanted
  <2>3. Request = [c \in Calls |-> Pool!NoRequest]
    BY <2>1 DEF Request, Pool!NoRequest
  <2> QED
    BY <2>2, <2>3 DEF Init, Pool!PInit, Pool!NoPrefix, NoPrefix
<1>2. IInv /\ IInv' /\ WantedInv /\ [Next]_vars => WantedInv' /\ [Pool!PNext]_(Pool!pvars)
  <2> SUFFICES ASSUME IInv, IInv', WantedInv, [Next]_vars
               PROVE  WantedInv' /\ [Pool!PNext]_(Pool!pvars)
    OBVIOUS
  <2>1. CASE UNCHANGED vars
    BY <2>1 DEF vars, WantedInv, Pool!pvars, Request
  <2>2. ASSUME NEW c \in Calls, Begin(c) \/ Proceed(c) \/ Fail(c)
        PROVE  WantedInv' /\ [Pool!PNext]_(Pool!pvars)
    BY <2>2, AskRefines, EndRefines, InsideRefines DEF Proceed, Inside
  <2> QED
    BY <2>1, <2>2 DEF Next
<1> QED
  BY <1>1, <1>2, Inductive, PTL DEF Spec, ImplementsPool, Pool!PSpec
=============================================================================
