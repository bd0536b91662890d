----------------------------- MODULE WriterLease -----------------------------
(***************************************************************************)
(* The writer lease of a shared file                                       *)
(* (packages/collaboration/src/shared-drive.ts), as used by a hosted       *)
(* session (apps/desktop/src/main/collaboration-service.ts) and by a       *)
(* standalone save (standalone-writer-reservation.ts).                     *)
(*                                                                         *)
(* Processes that share nothing but a drive replace one target file.  Who  *)
(* may is written in a sidecar file next to it, a lease with an expiry     *)
(* time.  The sidecar is changed under a mutation lock, a third file that  *)
(* only its owner or an explicit takeover removes.  Each step of a process *)
(* ends in at most one change to one of the files; between two of them it  *)
(* may be suspended, or stop for good.                                     *)
(*                                                                         *)
(* Every process signs with a secret of its own, so another's lease shows  *)
(* whom it names and when it expires, and no more.  Lease ids and the      *)
(* contents of the target are fresh: counters stand for them.              *)
(***************************************************************************)
EXTENDS Integers, FiniteSets

CONSTANTS
    Processes,      \* sessions with a WriterLeaseStore on the same target
    Hosts,          \* those that host; the others are standalone saves
    LeaseTtl,       \* leaseTtlMs, also the takeover's observation window
    SaveExtension,  \* saveLeaseReservationMs and commitExtensionMs
    StallAtFence,   \* a process may be suspended between fence and rename
    StallAtCommit,  \* and between its last lease check and the save's rename
    MaxClock,       \* bound: clock ticks
    MaxClaims,      \* bound: leases ever signed by a claim
    MaxRenewals,    \* bound: heartbeatSeq of a lease
    MaxSaves,       \* bound: contents ever written
    NoLease,        \* no sidecar; nothing owned
    Torn,           \* a sidecar created and not yet written
    NoLock

ASSUME RolesAssumption == Hosts \subseteq Processes
ASSUME TimesAssumption == LeaseTtl \in Nat \ {0} /\ SaveExtension \in Nat
ASSUME StallAssumption == {StallAtFence, StallAtCommit} \subseteq BOOLEAN
ASSUME NullsAssumption == NoLock \notin Processes

VARIABLES
    target,   \* the fingerprint of the shared file
    sidecar,  \* the lease on disk
    lock,     \* the owner of the mutation lock on disk
    signed,   \* number of leases signed by a claim
    clock,
    owned,    \* per process, ownedLease
    op        \* per process, the operation in progress

files == <<target, sidecar, lock>>
vars == <<files, signed, clock, owned, op>>

Lease == [id: Nat, fingerprint: Nat, expires: Nat, seq: Nat]
Goals == {"rest", "claim", "renew", "save", "record", "release"}
Steps == {"rest", "observe", "recover", "sign", "lock", "create", "write",
          "compare", "apply", "unlock", "guard", "check", "replace", "replaced",
          "close"}
ASSUME NullLeasesAssumption == {NoLease, Torn} \cap Lease = {} /\ NoLease # Torn

\* old and new: the sidecar content expected and its replacement; seen: the
\* target fingerprint expected; until: the end of the observation window; done:
\* the sidecar was changed.
Op == [goal: Goals, step: Steps, old: Lease \cup {NoLease}, new: Lease \cup {NoLease},
       seen: Nat, until: Nat, done: BOOLEAN]
Rest == [goal |-> "rest", step |-> "rest", old |-> NoLease, new |-> NoLease,
         seen |-> 0, until |-> 0, done |-> FALSE]

TypeOK ==
    /\ target \in Nat /\ signed \in Nat /\ clock \in Nat
    /\ sidecar \in Lease \cup {NoLease, Torn}
    /\ lock \in Processes \cup {NoLock}
    /\ owned \in [Processes -> Lease \cup {NoLease}]
    /\ op \in [Processes -> Op]

Init ==
    /\ target = 0 /\ signed = 0 /\ clock = 0
    /\ sidecar = NoLease /\ lock = NoLock
    /\ owned = [p \in Processes |-> NoLease]
    /\ op = [p \in Processes |-> Rest]

At(p, step) == op[p].step = step
Owns(p) == owned[p] # NoLease
IsLease(content) == content \notin {NoLease, Torn}
Expired(lease) == lease.expires <= clock
Names(p) == Owns(p) /\ IsLease(sidecar) /\ sidecar.id = owned[p].id

Goto(p, step) == op' = [op EXCEPT ![p].step = step]
Settle(p, lease) ==
    owned' = [owned EXCEPT ![p] = lease] /\ op' = [op EXCEPT ![p] = Rest]
\* A host that fails abandons its lease without releasing it; a standalone save
\* releases what it claimed.
Fail(p) ==
    IF p \notin Hosts /\ Owns(p)
    THEN op' = [op EXCEPT ![p] = [Rest EXCEPT !.step = "close"]] /\ UNCHANGED owned
    ELSE Settle(p, NoLease)
-----------------------------------------------------------------------------
(* claim                                                                   *)

\* Only a host asks for a takeover before it has seen a reason for one.
Observes(p, takeover) ==
    takeover /\ (sidecar # NoLease \/ p \in Hosts \/ At(p, "lock"))
\* inspect: a lease of another that has not expired, and one that cannot be
\* read, end the claim.
BeginClaim(p, takeover) ==
    /\ \/ sidecar = NoLease
       \/ IsLease(sidecar) /\ takeover /\ Expired(sidecar)
    /\ op' = [op EXCEPT ![p] =
         [goal |-> "claim", step |-> IF Observes(p, takeover) THEN "observe" ELSE "sign",
          old |-> sidecar, new |-> NoLease, seen |-> target,
          until |-> clock + LeaseTtl, done |-> FALSE]]
    /\ UNCHANGED <<files, signed, clock, owned>>

Claim(p, takeover) ==
    /\ At(p, "rest") /\ ~Owns(p) /\ signed < MaxClaims
    /\ BeginClaim(p, takeover)

\* The observation must outlast a heartbeat.  Variant: it is not waited for.
ObservedAtOnce(p) == sidecar = op[p].old /\ target = op[p].seen
Observed(p) ==
    /\ clock >= op[p].until
    /\ sidecar = op[p].old
    /\ target = op[p].seen
EndObservation(p) ==
    /\ At(p, "observe")
    /\ clock >= op[p].until \/ Observed(p)
    /\ IF Observed(p) THEN Goto(p, "recover") /\ UNCHANGED owned ELSE Fail(p)
    /\ UNCHANGED <<files, signed, clock>>

\* RECOVER_MUTATION_LOCK removes the lock file it finds, whosever it is.
RecoverLock(p) ==
    /\ At(p, "recover")
    /\ lock' = NoLock
    /\ Goto(p, "sign")
    /\ UNCHANGED <<target, sidecar, signed, clock, owned>>

Sign(p) ==
    /\ At(p, "sign") /\ signed < MaxClaims
    /\ IF target # op[p].seen THEN Fail(p) /\ UNCHANGED signed
       ELSE /\ op' = [op EXCEPT ![p].step = "lock", ![p].new =
                 [id |-> signed + 1, fingerprint |-> target,
                  expires |-> clock + LeaseTtl, seq |-> 0]]
            /\ signed' = signed + 1
            /\ UNCHANGED owned
    /\ UNCHANGED <<files, clock>>
-----------------------------------------------------------------------------
(* The mutations of the sidecar, under the lock.                           *)

AcquireLock(p) ==
    /\ At(p, "lock") /\ lock = NoLock
    /\ lock' = p
    /\ Goto(p, IF op[p].old = NoLease THEN "create" ELSE "compare")
    /\ UNCHANGED <<target, sidecar, signed, clock, owned>>

\* A standalone save that finds a lock and no sidecar asks the user and claims
\* again as a takeover.
LockBusy(p) ==
    /\ At(p, "lock") /\ lock # NoLock
    /\ \/ Fail(p) /\ UNCHANGED <<files, signed, clock>>
       \/ /\ op[p].old = NoLease /\ p \notin Hosts /\ signed < MaxClaims
          /\ BeginClaim(p, TRUE)

\* writeExclusive: the file is created empty, then written.
Create(p) ==
    /\ At(p, "create")
    /\ IF sidecar = NoLease THEN sidecar' = Torn /\ Goto(p, "write")
       ELSE UNCHANGED sidecar /\ Goto(p, "unlock")
    /\ UNCHANGED <<target, lock, signed, clock, owned>>
WriteCreated(p) ==
    /\ At(p, "write")
    /\ \E written \in BOOLEAN :
         /\ sidecar' = IF written THEN op[p].new ELSE NoLease
         /\ op' = [op EXCEPT ![p].step = "unlock", ![p].done = written]
    /\ UNCHANGED <<target, lock, signed, clock, owned>>

\* The comparison and the fence that follows it.  Variant: the lock is relied on
\* alone.
UncomparedMatch(p) == lock = p
Matches(p) == sidecar = op[p].old /\ lock = p
Compare(p) ==
    /\ At(p, "compare")
    /\ Goto(p, IF Matches(p) THEN "apply" ELSE "unlock")
    /\ UNCHANGED <<files, signed, clock, owned>>

\* rename(temporary, sidecar) or unlink(sidecar).
Apply(p) ==
    /\ At(p, "apply")
    /\ sidecar' = op[p].new
    /\ op' = [op EXCEPT ![p].step = "unlock",
                        ![p].done = op[p].goal = "release" => sidecar # NoLease]
    /\ UNCHANGED <<target, lock, signed, clock, owned>>

\* The sidecar is read back and the lock released; a lock that was lost is an
\* error, whatever the mutation did.
Succeeded(p) == op[p].done /\ lock = p /\ (op[p].goal # "release" => sidecar = op[p].new)
AfterMutation(p) ==
    IF op[p].goal = "save"
    THEN /\ op' = [op EXCEPT ![p] = [Rest EXCEPT !.step = "guard", !.seen = op[p].seen]]
         /\ owned' = [owned EXCEPT ![p] = op[p].new]
    ELSE Settle(p, op[p].new)
Unlock(p) ==
    /\ At(p, "unlock")
    /\ lock' = IF lock = p THEN NoLock ELSE lock
    /\ IF Succeeded(p) THEN AfterMutation(p) ELSE Fail(p)
    /\ UNCHANGED <<target, sidecar, signed, clock>>
-----------------------------------------------------------------------------
(* heartbeat, preflight, the save, and release.                            *)

\* Variant: an expired lease is renewed.
HeldThoughExpired(p) == Names(p) /\ target = owned[p].fingerprint
Held(p) ==
    /\ Names(p) /\ ~Expired(sidecar)
    /\ target = owned[p].fingerprint
Mutate(p, goal, new) ==
    op' = [op EXCEPT ![p] = [Rest EXCEPT !.goal = goal, !.step = "lock",
             !.old = sidecar, !.new = new, !.seen = target]]

Extended(extension) ==
    [sidecar EXCEPT !.expires = clock + extension, !.seq = @ + 1]

Heartbeat(p) ==
    /\ At(p, "rest") /\ Owns(p) /\ owned[p].seq < MaxRenewals
    /\ IF Held(p) THEN Mutate(p, "renew", Extended(LeaseTtl)) /\ UNCHANGED owned
       ELSE Fail(p)
    /\ UNCHANGED <<files, signed, clock>>

\* The reservation of a save is renewed for as long as the save may take.
Save(p) ==
    /\ At(p, "rest") /\ Owns(p) /\ owned[p].seq < MaxRenewals /\ target < MaxSaves
    /\ IF Held(p) THEN Mutate(p, "save", Extended(SaveExtension)) /\ UNCHANGED owned
       ELSE Fail(p)
    /\ UNCHANGED <<files, signed, clock>>

\* preflightTarget, the commit guard of saveHdeckAtomic.
Guard(p) ==
    /\ At(p, "guard")
    /\ IF Held(p) /\ sidecar.fingerprint = target THEN Goto(p, "check") /\ UNCHANGED owned
       ELSE Fail(p)
    /\ UNCHANGED <<files, signed, clock>>
\* The last check of the target before the rename.
Check(p) ==
    /\ At(p, "check")
    /\ IF target = op[p].seen THEN Goto(p, "replace") /\ UNCHANGED owned ELSE Fail(p)
    /\ UNCHANGED <<files, signed, clock>>
Replace(p) ==
    /\ At(p, "replace")
    /\ target' = target + 1
    /\ op' = [op EXCEPT ![p].step = "replaced", ![p].until = target + 1]
    /\ UNCHANGED <<sidecar, lock, signed, clock, owned>>

\* The committed file is read back; a host records its fingerprint in the
\* lease, a standalone save releases it.
Confirm(p) ==
    /\ At(p, "replaced")
    /\ IF p \in Hosts
       THEN IF /\ target = op[p].until
               /\ Names(p) /\ ~Expired(sidecar) /\ sidecar.fingerprint = op[p].seen
            THEN /\ Mutate(p, "record", [Extended(LeaseTtl) EXCEPT !.fingerprint = target])
                 /\ UNCHANGED owned
            ELSE Fail(p)
       ELSE Goto(p, "close") /\ UNCHANGED owned
    /\ UNCHANGED <<files, signed, clock>>

\* close() of a standalone reservation, leave() of a host.
Release(p) ==
    /\ Owns(p)
    /\ At(p, "close") \/ At(p, "rest")
    /\ CASE sidecar = NoLease -> Settle(p, NoLease)
         [] Names(p) -> Mutate(p, "release", NoLease) /\ UNCHANGED owned
         [] OTHER -> Settle(p, NoLease)
    /\ UNCHANGED <<files, signed, clock>>
\* A release that failed is retried a few times, then given up.
GiveUp(p) ==
    /\ At(p, "close")
    /\ Settle(p, NoLease)
    /\ UNCHANGED <<files, signed, clock>>
-----------------------------------------------------------------------------
\* The process stops, or fails without reaching the drive any more: what it
\* holds on disk stays.
Stop(p) ==
    /\ Owns(p) \/ ~At(p, "rest")
    /\ Settle(p, NoLease)
    /\ UNCHANGED <<files, signed, clock>>

Fenced(p) == At(p, "apply") /\ ~StallAtFence
Committing(p) == (At(p, "check") \/ At(p, "replace")) /\ ~StallAtCommit

Tick ==
    /\ clock < MaxClock
    /\ \A p \in Processes : ~Fenced(p) /\ (Committing(p) => owned[p].expires > clock + 1)
    /\ clock' = clock + 1
    /\ UNCHANGED <<files, signed, owned, op>>

Step(p) ==
    \/ \E takeover \in BOOLEAN : Claim(p, takeover)
    \/ EndObservation(p) \/ RecoverLock(p) \/ Sign(p)
    \/ AcquireLock(p) \/ LockBusy(p)
    \/ Create(p) \/ WriteCreated(p) \/ Compare(p) \/ Apply(p) \/ Unlock(p)
    \/ Heartbeat(p) \/ Save(p) \/ Guard(p) \/ Check(p) \/ Replace(p) \/ Confirm(p)
    \/ Release(p) \/ GiveUp(p)
    \/ Stop(p)

Next ==
    \/ Tick
    \/ \E p \in Processes :
         /\ \A q \in Processes \ {p} : ~Fenced(q)
         /\ Step(p)

Spec == Init /\ [][Next]_vars
-----------------------------------------------------------------------------
(* What the lease promises.                                                *)

\* An owner whose lease, the one it wrote last, has not expired is the one the
\* sidecar names, unless it has begun to release it: so no two processes own
\* live leases, whatever takeovers, lost locks and stopped owners came before
\* ("keeps exactly one writer when two explicit stale takeovers overlap",
\* shared-drive.test.ts).  ownedLease itself may expire after the lease on the
\* drive: recordSnapshot ends the extension of a save.
Written(p) == IF op[p].done THEN op[p].new ELSE owned[p]
LiveOwner(p) ==
    /\ Owns(p) /\ op[p].goal # "release" /\ ~At(p, "close")
    /\ ~Expired(Written(p))
LiveOwnerIsNamed == \A p \in Processes : LiveOwner(p) => Names(p)

\* A lease is replaced by another one only after it stood expired for a whole
\* observation window, and removed before that only by the process it names
\* (claim, compareAndSwapText, compareAndDeleteText).
LiveLeaseStands ==
    [][IsLease(sidecar) /\ ~Expired(sidecar) =>
         \/ sidecar' = sidecar
         \/ \E p \in Processes : Names(p) /\ At(p, "apply")]_vars
TakeoverWasObserved ==
    [][IsLease(sidecar) /\ IsLease(sidecar') /\ sidecar'.id # sidecar.id =>
         clock >= sidecar.expires + LeaseTtl]_vars

\* No two processes are between their last lease check and their rename, and a
\* save replaces the content its session knew: no save of a host or of a
\* standalone writer is overwritten unseen (saveHost, beforeCommit).
OneCommitter ==
    Cardinality({p \in Processes : At(p, "check") \/ At(p, "replace")}) <= 1
SaveReplacesKnown ==
    [][\A p \in Processes : Replace(p) => target = op[p].seen]_vars

\* "Keeps exactly one writer when two explicit stale takeovers overlap".  The
\* second takeover removes the first one's lock; a first one that has passed
\* the fence renames its lease over the second's, so this is refuted.
OneOwner == \A p, q \in Processes : LiveOwner(p) /\ LiveOwner(q) => p = q
=============================================================================
