-------------------------- MODULE WriterLease_proofs --------------------------
(***************************************************************************)
(* Proofs about the writer lease, for any processes, times and bounds: no  *)
(* live owner is deposed, a live lease stands, and no two processes        *)
(* replace the shared file at a time, as long as a process is not          *)
(* suspended between the fence of a mutation and its rename, or between    *)
(* the last lease check of a save and its rename.                          *)
(***************************************************************************)
EXTENDS WriterLease, FiniteSetTheorems, TLAPS

Leases == Lease \cup {NoLease}
Mutations == {"renew", "save", "record", "release"}

\* How far an operation o of a process that owns l has come.
Shape(o, l) ==
    /\ o.done => o.step = "unlock"
    /\ o.goal = "rest" =>
          /\ o.step \in {"rest", "guard", "check", "replace", "replaced", "close"}
          /\ o.new = NoLease /\ (o.step # "rest" => l # NoLease)
    /\ o.goal = "claim" =>
          /\ o.step \in {"observe", "recover", "sign", "lock", "create", "write", "compare",
                         "apply", "unlock"}
          /\ l = NoLease
          /\ o.step \notin {"observe", "recover", "sign"} => o.new # NoLease
          /\ o.step \in {"compare", "apply"} => o.old # NoLease
    /\ o.goal \in Mutations =>
          /\ o.step \in {"lock", "compare", "apply", "unlock"}
          /\ l # NoLease /\ o.old # NoLease /\ o.old.id = l.id
          /\ o.goal # "release" => o.new # NoLease /\ o.new.id = l.id
          /\ o.goal = "release" => o.new = NoLease

\* A takeover goes on once the lease it found stood expired for a whole window.
Watched(o) ==
    o.goal = "claim" /\ o.old # NoLease =>
       /\ o.old.expires + LeaseTtl <= o.until
       /\ o.step # "observe" => o.until <= clock

\* A sidecar that names an owner is what the owner wrote last, and names it
\* while that has not expired.
Latest(o, l) == IF o.done THEN o.new ELSE l
Standing(o, l) ==
    l # NoLease /\ o.goal # "release" /\ o.step # "close"
      /\ ((IsLease(sidecar) /\ sidecar.id = l.id) \/ ~Expired(Latest(o, l))) =>
         sidecar = Latest(o, l)

\* The ids of the leases a process owns or has signed.
Uses(o, l, i) == (l # NoLease /\ l.id = i) \/ (o.new # NoLease /\ o.new.id = i)
FreshIds ==
    /\ IsLease(sidecar) => sidecar.id <= signed
    /\ \A p \in Processes : \A i \in Nat : Uses(op[p], owned[p], i) => i <= signed
    /\ \A p, q \in Processes : \A i \in Nat :
          Uses(op[p], owned[p], i) /\ Uses(op[q], owned[q], i) => p = q

\* One process creates the sidecar, and the fence of a mutation holds.
Fences ==
    /\ \A p \in Processes : At(p, "write") => sidecar = Torn
    /\ \A p, q \in Processes : At(p, "write") /\ At(q, "write") => p = q
    /\ \A p \in Processes : At(p, "apply") => sidecar = op[p].old

LeaseInv ==
    /\ TypeOK /\ FreshIds /\ Fences
    /\ \A p \in Processes :
          Shape(op[p], owned[p]) /\ Watched(op[p]) /\ Standing(op[p], owned[p])

\* A process that commits holds a live lease and knows what it replaces.
Commits ==
    \A p \in Processes :
       /\ At(p, "check") \/ At(p, "replace") => owned[p].expires > clock
       /\ At(p, "replace") => target = op[p].seen
-----------------------------------------------------------------------------
(* Operations and leases.                                                  *)

LEMMA LeaseFacts ==
    /\ NoLease # Torn /\ NoLease \notin Lease /\ Torn \notin Lease
    /\ \A c \in Lease \cup {NoLease, Torn} : IsLease(c) <=> c \in Lease
    /\ LeaseTtl \in Nat /\ SaveExtension \in Nat
BY NullLeasesAssumption, TimesAssumption DEF IsLease

LEMMA RecordFacts ==
    /\ \A l \in Lease : l.id \in Nat /\ l.expires \in Nat /\ l.seq \in Nat /\ l.fingerprint \in Nat
    /\ \A o \in Op : /\ o.goal \in Goals /\ o.step \in Steps /\ o.old \in Leases
                     /\ o.new \in Leases /\ o.seen \in Nat /\ o.until \in Nat /\ o.done \in BOOLEAN
    /\ Rest \in Op
BY DEF Lease, Op, Leases, Rest, Goals, Steps

\* What a step of a process starts from.
LEMMA OwnState ==
    ASSUME LeaseInv, NEW p \in Processes
    PROVE  /\ op[p] \in Op /\ owned[p] \in Leases
           /\ op \in [Processes -> Op] /\ owned \in [Processes -> Leases]
           /\ Shape(op[p], owned[p]) /\ Watched(op[p]) /\ Standing(op[p], owned[p])
           /\ target \in Nat /\ signed \in Nat /\ clock \in Nat
           /\ sidecar \in Lease \cup {NoLease, Torn} /\ lock \in Processes \cup {NoLock}
BY DEF LeaseInv, TypeOK, Leases

\* An operation o of p, which would own l: the sidecar is left alone.
Good(p, o, l) ==
    /\ o \in Op /\ l \in Leases
    /\ Shape(o, l) /\ Watched(o) /\ Standing(o, l)
    /\ o.step # "write" /\ (o.step = "apply" => sidecar = o.old)
    /\ \A i \in Nat : Uses(o, l, i) => Uses(op[p], owned[p], i) \/ i = signed + 1

\* A step that leaves the sidecar and the clock alone.
LEMMA QuietStep ==
    ASSUME LeaseInv, NEW p \in Processes, NEW o, NEW l, Good(p, o, l),
           op' = [op EXCEPT ![p] = o], owned' = [owned EXCEPT ![p] = l],
           sidecar' = sidecar, clock' = clock, target' \in Nat,
           lock' \in Processes \cup {NoLock},
           \/ signed' = signed + 1
           \/ signed' = signed /\ \A i \in Nat : Uses(o, l, i) => Uses(op[p], owned[p], i)
    PROVE  LeaseInv'
<1>1. /\ op \in [Processes -> Op] /\ owned \in [Processes -> Leases] /\ signed \in Nat
      /\ signed' \in Nat /\ signed' >= signed /\ clock' \in Nat
      /\ sidecar \in Lease \cup {NoLease, Torn}
  BY OwnState DEF Good
<1>2. /\ op'[p] = o /\ owned'[p] = l
      /\ \A q \in Processes \ {p} : op'[q] = op[q] /\ owned'[q] = owned[q]
  BY <1>1
<1>3. TypeOK'
  <2>1. op' \in [Processes -> Op] /\ owned' \in [Processes -> Leases]
    BY <1>1 DEF Good
  <2> QED BY <1>1, <2>1 DEF TypeOK, Leases
<1>4. FreshIds'
  <2>1. IsLease(sidecar)' => sidecar'.id <= signed'
    <3>1. IsLease(sidecar) => sidecar.id \in Nat /\ sidecar.id <= signed
      BY <1>1, LeaseFacts, RecordFacts DEF LeaseInv, FreshIds
    <3> QED BY <1>1, <3>1 DEF IsLease
  <2>2. ASSUME NEW q \in Processes, NEW i \in Nat, Uses(op'[q], owned'[q], i)
        PROVE  /\ i <= signed'
               /\ Uses(op[q], owned[q], i) \/ (q = p /\ i = signed + 1 /\ signed' = signed + 1)
    <3>1. Uses(op[q], owned[q], i) => i <= signed
      BY DEF LeaseInv, FreshIds
    <3>2. CASE q = p
      BY <1>1, <1>2, <2>2, <3>1, <3>2 DEF Good
    <3>3. CASE q # p
      BY <1>1, <1>2, <2>2, <3>1, <3>3
    <3> QED BY <3>2, <3>3
  <2>3. ASSUME NEW q \in Processes, NEW r \in Processes, NEW i \in Nat,
               Uses(op'[q], owned'[q], i), Uses(op'[r], owned'[r], i)
        PROVE  q = r
    <3>1. \A s \in Processes : Uses(op[s], owned[s], i) => i <= signed
      BY DEF LeaseInv, FreshIds
    <3>2. Uses(op[q], owned[q], i) /\ Uses(op[r], owned[r], i) => q = r
      BY DEF LeaseInv, FreshIds
    <3> QED BY <1>1, <2>2, <2>3, <3>1, <3>2
  <2> QED BY <2>1, <2>2, <2>3 DEF FreshIds
<1>5. Fences'
  <2>1. \A q \in Processes : (At(q, "write")' => At(q, "write") /\ q # p)
    BY <1>2 DEF At, Good
  <2>2. \A q \in Processes : At(q, "apply")' => sidecar = op'[q].old
    <3> SUFFICES ASSUME NEW q \in Processes, At(q, "apply")'
                 PROVE  sidecar = op'[q].old
      OBVIOUS
    <3>1. CASE q = p
      BY <1>2, <3>1 DEF At, Good
    <3>2. CASE q # p
      BY <1>2, <3>2 DEF At, LeaseInv, Fences
    <3> QED BY <3>1, <3>2
  <2> QED BY <2>1, <2>2 DEF LeaseInv, Fences
<1>6. ASSUME NEW q \in Processes
      PROVE  Shape(op'[q], owned'[q]) /\ Watched(op[q])' /\ Standing(op[q], owned[q])'
  <2>1. CASE q = p
    BY <1>2, <2>1 DEF Good, Watched, Standing, Expired, Latest, IsLease
  <2>2. CASE q # p
    BY <1>2, <2>2 DEF LeaseInv, Watched, Standing, Expired, Latest, IsLease
  <2> QED BY <2>1, <2>2
<1> QED BY <1>3, <1>4, <1>5, <1>6 DEF LeaseInv, Shape
-----------------------------------------------------------------------------
(* The steps that leave the sidecar alone.                                 *)

Quiet == sidecar' = sidecar /\ clock' = clock /\ target' \in Nat
         /\ lock' \in Processes \cup {NoLock}

LEMMA FailStep ==
    ASSUME LeaseInv, NEW p \in Processes, Fail(p), Quiet, signed' = signed
    PROVE  LeaseInv'
<1> DEFINE closing == [Rest EXCEPT !.step = "close"]
<1>1. /\ op \in [Processes -> Op] /\ owned \in [Processes -> Leases] /\ owned[p] \in Leases
      /\ signed \in Nat
  BY OwnState
<1>2. CASE p \notin Hosts /\ Owns(p)
  <2>1. closing \in Op /\ closing.goal = "rest" /\ closing.step = "close"
        /\ closing.new = NoLease /\ closing.done = FALSE
    BY DEF Op, Rest, Goals, Steps
  <2>2. op' = [op EXCEPT ![p] = closing] /\ owned' = [owned EXCEPT ![p] = owned[p]]
    BY <1>1, <1>2 DEF Fail
  <2> HIDE DEF closing
  <2>3. \A i \in Nat : Uses(closing, owned[p], i) => Uses(op[p], owned[p], i)
    BY <2>1 DEF Uses
  <2>4. Shape(closing, owned[p])
    BY <1>2, <2>1 DEF Shape, Mutations, Owns
  <2>5. Watched(closing) /\ Standing(closing, owned[p])
    BY <2>1 DEF Watched, Standing
  <2>6. Good(p, closing, owned[p])
    BY <1>1, <2>1, <2>3, <2>4, <2>5 DEF Good
  <2> QED BY <2>2, <2>3, <2>6, QuietStep DEF Quiet
<1>3. CASE ~(p \notin Hosts /\ Owns(p))
  <2>1. op' = [op EXCEPT ![p] = Rest] /\ owned' = [owned EXCEPT ![p] = NoLease]
    BY <1>3 DEF Fail, Settle
  <2>2. Rest.goal = "rest" /\ Rest.step = "rest" /\ Rest.new = NoLease /\ Rest.done = FALSE
    BY DEF Rest
  <2>3. \A i \in Nat : ~Uses(Rest, NoLease, i)
    BY <2>2 DEF Uses
  <2>4. Good(p, Rest, NoLease)
    BY <2>2, <2>3, RecordFacts DEF Good, Shape, Watched, Standing, Leases, Mutations
  <2> QED BY <2>1, <2>3, <2>4, QuietStep DEF Quiet
<1> QED BY <1>2, <1>3

\* The operation ends, and its process owns no lease any more.
LEMMA NothingOwned ==
    ASSUME LeaseInv, NEW p \in Processes, Settle(p, NoLease), Quiet, signed' = signed
    PROVE  LeaseInv'
<1>1. op' = [op EXCEPT ![p] = Rest] /\ owned' = [owned EXCEPT ![p] = NoLease]
  BY DEF Settle
<1>2. Rest.goal = "rest" /\ Rest.step = "rest" /\ Rest.new = NoLease /\ Rest.done = FALSE
  BY DEF Rest
<1>3. \A i \in Nat : ~Uses(Rest, NoLease, i)
  BY <1>2 DEF Uses
<1>4. Good(p, Rest, NoLease)
  BY <1>2, <1>3, RecordFacts DEF Good, Shape, Watched, Standing, Leases, Mutations
<1> QED BY <1>1, <1>3, <1>4, QuietStep DEF Quiet

\* An operation goes on to its next step.
LEMMA GotoStep ==
    ASSUME LeaseInv, NEW p \in Processes, NEW step \in Steps \ {"write"},
           Goto(p, step), UNCHANGED owned, Quiet, signed' = signed,
           op[p].step # "close", op[p].done = FALSE,
           step = "apply" => sidecar = op[p].old,
           Shape([op[p] EXCEPT !.step = step], owned[p]),
           Watched([op[p] EXCEPT !.step = step])
    PROVE  LeaseInv'
<1> DEFINE o == [op[p] EXCEPT !.step = step]
<1>1. /\ op \in [Processes -> Op] /\ owned \in [Processes -> Leases] /\ owned[p] \in Leases
      /\ signed \in Nat /\ op[p] \in Op /\ Standing(op[p], owned[p])
  BY OwnState
<1>2. /\ o \in Op /\ o.goal = op[p].goal /\ o.step = step /\ o.new = op[p].new
      /\ o.old = op[p].old /\ o.done = FALSE
  BY <1>1 DEF Op
<1>3. op' = [op EXCEPT ![p] = o] /\ owned' = [owned EXCEPT ![p] = owned[p]]
  BY <1>1 DEF Goto
<1>4. Shape(o, owned[p]) /\ Watched(o)
  OBVIOUS
<1> HIDE DEF o
<1>5. Standing(o, owned[p])
  BY <1>1, <1>2 DEF Standing, Latest
<1>6. \A i \in Nat : Uses(o, owned[p], i) => Uses(op[p], owned[p], i)
  BY <1>2 DEF Uses
<1>7. Good(p, o, owned[p])
  BY <1>1, <1>2, <1>4, <1>5, <1>6 DEF Good
<1> QED BY <1>3, <1>6, <1>7, QuietStep DEF Quiet

\* A claim begins, of a lease that stands expired if there is one.
LEMMA BeginStep ==
    ASSUME LeaseInv, NEW p \in Processes, NEW takeover \in BOOLEAN, owned[p] = NoLease,
           BeginClaim(p, takeover)
    PROVE  LeaseInv'
<1> DEFINE o == [goal |-> "claim", step |-> IF Observes(p, takeover) THEN "observe" ELSE "sign",
                 old |-> sidecar, new |-> NoLease, seen |-> target,
                 until |-> clock + LeaseTtl, done |-> FALSE]
<1>1. /\ op \in [Processes -> Op] /\ owned \in [Processes -> Leases]
      /\ signed \in Nat /\ clock \in Nat /\ target \in Nat
      /\ sidecar \in Lease \cup {NoLease, Torn} /\ lock \in Processes \cup {NoLock}
  BY OwnState
<1>2. sidecar \in Leases
  BY <1>1, LeaseFacts DEF BeginClaim, Leases
<1>3. clock + LeaseTtl \in Nat
  BY <1>1, LeaseFacts
<1>4. /\ o \in Op /\ o.goal = "claim" /\ o.new = NoLease /\ o.done = FALSE /\ o.old = sidecar
      /\ o.step \in {"observe", "sign"} /\ o.until = clock + LeaseTtl
      /\ o.step = IF Observes(p, takeover) THEN "observe" ELSE "sign"
  BY <1>1, <1>2, <1>3 DEF Op, Goals, Steps, Leases
<1>5. op' = [op EXCEPT ![p] = o] /\ owned' = [owned EXCEPT ![p] = NoLease] /\ Quiet
      /\ signed' = signed
  BY <1>1 DEF BeginClaim, files, Quiet
<1> HIDE DEF o
<1>6. Shape(o, NoLease)
  BY <1>4 DEF Shape, Mutations
<1>7. Watched(o)
  <2>1. CASE sidecar = NoLease
    BY <1>4, <2>1 DEF Watched
  <2>2. CASE sidecar # NoLease
    <3>1. IsLease(sidecar) /\ takeover /\ Expired(sidecar)
      BY <2>2 DEF BeginClaim
    <3>2. sidecar \in Lease /\ sidecar.expires <= clock /\ sidecar.expires \in Nat
      BY <1>1, <3>1, LeaseFacts, RecordFacts DEF Expired
    <3>3. o.step = "observe"
      BY <1>4, <2>2, <3>1 DEF Observes
    <3> QED BY <1>1, <1>4, <3>2, <3>3, LeaseFacts DEF Watched
  <2> QED BY <2>1, <2>2
<1>8. \A i \in Nat : ~Uses(o, NoLease, i)
  BY <1>4 DEF Uses
<1>9. Good(p, o, NoLease)
  BY <1>4, <1>6, <1>7, <1>8 DEF Good, Standing, Leases
<1> QED BY <1>5, <1>8, <1>9, QuietStep DEF Quiet

\* A mutation of the lease an owner finds in its name begins.
LEMMA MutateStep ==
    ASSUME LeaseInv, NEW p \in Processes, NEW goal \in Mutations, NEW new \in Leases,
           Mutate(p, goal, new), UNCHANGED owned, Quiet, signed' = signed,
           Names(p), goal # "release" => op[p].goal = "rest" /\ op[p].step # "close",
           IF goal = "release" THEN new = NoLease ELSE new # NoLease /\ new.id = sidecar.id
    PROVE  LeaseInv'
<1> DEFINE o == [Rest EXCEPT !.goal = goal, !.step = "lock",
                             !.old = sidecar, !.new = new, !.seen = target]
<1>1. /\ op \in [Processes -> Op] /\ owned \in [Processes -> Leases] /\ owned[p] \in Leases
      /\ signed \in Nat /\ clock \in Nat /\ target \in Nat
      /\ sidecar \in Lease \cup {NoLease, Torn} /\ lock \in Processes \cup {NoLock}
      /\ Shape(op[p], owned[p]) /\ Standing(op[p], owned[p])
  BY OwnState
<1>2. sidecar \in Lease /\ owned[p] # NoLease /\ sidecar.id = owned[p].id
      /\ sidecar # NoLease /\ IsLease(sidecar)
  BY <1>1, LeaseFacts DEF Names, Owns
<1>3. goal \in Goals /\ goal # "claim" /\ goal # "rest"
  BY DEF Mutations, Goals
<1>4. o \in Op /\ o.goal = goal /\ o.step = "lock" /\ o.old = sidecar /\ o.new = new
      /\ o.done = FALSE
  BY <1>1, <1>2, <1>3 DEF Op, Rest, Leases, Steps
<1>5. op' = [op EXCEPT ![p] = o] /\ owned' = [owned EXCEPT ![p] = owned[p]]
  BY <1>1 DEF Mutate
<1> HIDE DEF o
<1>6. Shape(o, owned[p])
  BY <1>2, <1>3, <1>4 DEF Shape
<1>7. Watched(o)
  BY <1>3, <1>4 DEF Watched
<1>8. Standing(o, owned[p])
  <2>1. CASE goal = "release"
    BY <1>4, <2>1 DEF Standing
  <2>2. CASE goal # "release"
    <3>1. op[p].goal = "rest" /\ op[p].step # "close" /\ op[p].done = FALSE
      BY <1>1, <2>2, OwnState DEF Shape, Op
    <3> QED BY <1>1, <1>2, <1>4, <3>1 DEF Standing, Latest
  <2> QED BY <2>1, <2>2
<1>9. \A i \in Nat : Uses(o, owned[p], i) => Uses(op[p], owned[p], i)
  BY <1>2, <1>4 DEF Uses
<1>10. Good(p, o, owned[p])
  BY <1>1, <1>4, <1>6, <1>7, <1>8, <1>9 DEF Good
<1> QED BY <1>5, <1>9, <1>10, QuietStep DEF Quiet

LEMMA ExtendedFacts ==
    ASSUME LeaseInv, sidecar \in Lease, NEW extension \in Nat
    PROVE  /\ Extended(extension) \in Lease /\ Extended(extension).id = sidecar.id
           /\ [Extended(extension) EXCEPT !.fingerprint = target] \in Lease
           /\ [Extended(extension) EXCEPT !.fingerprint = target].id = sidecar.id
<1>1. clock + extension \in Nat /\ sidecar.seq + 1 \in Nat /\ target \in Nat
  BY RecordFacts DEF LeaseInv, TypeOK
<1> QED BY <1>1 DEF Extended, Lease

LEMMA ClaimKeeps ==
    ASSUME LeaseInv, NEW p \in Processes, NEW takeover \in BOOLEAN, Claim(p, takeover)
    PROVE  LeaseInv'
BY BeginStep DEF Claim, Owns

LEMMA LockBusyKeeps ==
    ASSUME LeaseInv, NEW p \in Processes, LockBusy(p)
    PROVE  LeaseInv'
<1>1. /\ Shape(op[p], owned[p]) /\ op[p] \in Op /\ clock \in Nat /\ target \in Nat
      /\ lock \in Processes \cup {NoLock}
  BY OwnState
<1>2. CASE Fail(p) /\ UNCHANGED <<files, signed, clock>>
  BY <1>1, <1>2, FailStep DEF files, Quiet
<1>3. CASE op[p].old = NoLease /\ BeginClaim(p, TRUE)
  <2>1. op[p].step = "lock" /\ op[p].goal \in Goals
    BY <1>1 DEF LockBusy, At, Op
  <2>2. op[p].goal = "claim"
    BY <1>1, <1>3, <2>1 DEF Shape, Goals, Mutations
  <2>3. owned[p] = NoLease
    BY <1>1, <2>2 DEF Shape
  <2> QED BY <1>3, <2>3, BeginStep
<1> QED BY <1>2, <1>3 DEF LockBusy

LEMMA EndObservationKeeps ==
    ASSUME LeaseInv, NEW p \in Processes, EndObservation(p)
    PROVE  LeaseInv'
<1>1. /\ Shape(op[p], owned[p]) /\ Watched(op[p]) /\ op[p] \in Op /\ clock \in Nat
      /\ target \in Nat /\ lock \in Processes \cup {NoLock}
  BY OwnState
<1>2. Quiet /\ signed' = signed
  BY <1>1 DEF EndObservation, files, Quiet
<1>3. CASE Observed(p)
  <2>1. Goto(p, "recover") /\ UNCHANGED owned /\ op[p].step = "observe"
        /\ op[p].until <= clock
    BY <1>1, <1>3, RecordFacts DEF EndObservation, Observed, At
  <2> DEFINE o == [op[p] EXCEPT !.step = "recover"]
  <2>2. /\ o.goal = op[p].goal /\ o.step = "recover" /\ o.new = op[p].new
        /\ o.old = op[p].old /\ o.done = op[p].done /\ o.until = op[p].until
        /\ op[p].goal \in Goals
    BY <1>1 DEF Op
  <2> HIDE DEF o
  <2>3. Shape(o, owned[p])
    BY <1>1, <2>1, <2>2 DEF Shape, Goals, Mutations
  <2>4. Watched(o)
    BY <1>1, <2>1, <2>2 DEF Watched
  <2>5. op[p].done = FALSE
    BY <1>1, <2>1 DEF Shape, Op
  <2> QED BY <1>2, <2>1, <2>3, <2>4, <2>5, GotoStep DEF o, Steps
<1>4. CASE ~Observed(p)
  BY <1>2, <1>4, FailStep DEF EndObservation
<1> QED BY <1>3, <1>4

LEMMA RecoverLockKeeps ==
    ASSUME LeaseInv, NEW p \in Processes, RecoverLock(p)
    PROVE  LeaseInv'
<1>1. /\ Shape(op[p], owned[p]) /\ Watched(op[p]) /\ op[p] \in Op /\ clock \in Nat
      /\ target \in Nat
  BY OwnState
<1>2. Quiet /\ signed' = signed /\ Goto(p, "sign") /\ UNCHANGED owned /\ op[p].step = "recover"
  BY <1>1 DEF RecoverLock, Quiet, At
<1> DEFINE o == [op[p] EXCEPT !.step = "sign"]
<1>3. /\ o.goal = op[p].goal /\ o.step = "sign" /\ o.new = op[p].new
      /\ o.old = op[p].old /\ o.done = op[p].done /\ o.until = op[p].until
      /\ op[p].goal \in Goals
  BY <1>1 DEF Op
<1> HIDE DEF o
<1>4. Shape(o, owned[p])
  BY <1>1, <1>2, <1>3 DEF Shape, Goals, Mutations
<1>5. Watched(o)
  BY <1>1, <1>2, <1>3 DEF Watched
<1>6. op[p].done = FALSE
  BY <1>1, <1>2 DEF Shape, Op
<1> QED BY <1>2, <1>4, <1>5, <1>6, GotoStep DEF o, Steps

\* The lease of a claim gets an id that no one used.
LEMMA SignKeeps ==
    ASSUME LeaseInv, NEW p \in Processes, Sign(p)
    PROVE  LeaseInv'
<1>1. /\ Shape(op[p], owned[p]) /\ Watched(op[p]) /\ op[p] \in Op /\ clock \in Nat
      /\ target \in Nat /\ signed \in Nat /\ lock \in Processes \cup {NoLock}
      /\ op \in [Processes -> Op] /\ owned \in [Processes -> Leases]
  BY OwnState
<1>2. Quiet
  BY <1>1 DEF Sign, files, Quiet
<1>3. CASE target # op[p].seen
  BY <1>2, <1>3, FailStep DEF Sign
<1>4. CASE target = op[p].seen
  <2> DEFINE new == [id |-> signed + 1, fingerprint |-> target,
                     expires |-> clock + LeaseTtl, seq |-> 0]
             o == [op[p] EXCEPT !.step = "lock", !.new = new]
  <2>1. new \in Lease /\ new.id = signed + 1 /\ new # NoLease
    BY <1>1, LeaseFacts DEF Lease
  <2>2. op' = [op EXCEPT ![p] = o] /\ signed' = signed + 1 /\ owned' = owned
        /\ op[p].step = "sign"
    BY <1>1, <1>4 DEF Sign, At
  <2> HIDE DEF new
  <2>3. /\ o \in Op /\ o.goal = op[p].goal /\ o.step = "lock" /\ o.new = new
        /\ o.old = op[p].old /\ o.done = op[p].done /\ o.until = op[p].until
        /\ op[p].goal \in Goals
    BY <1>1, <2>1 DEF Op, Steps, Leases
  <2> HIDE DEF o
  <2>4. op[p].goal = "claim" /\ owned[p] = NoLease /\ op[p].done = FALSE
    BY <1>1, <2>2, <2>3 DEF Shape, Goals, Mutations, Op
  <2>5. Shape(o, NoLease)
    BY <2>1, <2>3, <2>4 DEF Shape, Mutations
  <2>6. Watched(o)
    BY <1>1, <2>2, <2>3 DEF Watched
  <2>7. \A i \in Nat : Uses(o, NoLease, i) => i = signed + 1
    BY <2>1, <2>3 DEF Uses
  <2>8. Good(p, o, NoLease)
    BY <2>3, <2>5, <2>6, <2>7 DEF Good, Standing, Leases
  <2>9. owned' = [owned EXCEPT ![p] = NoLease]
    BY <1>1, <2>2, <2>4
  <2> QED BY <1>2, <2>2, <2>8, <2>9, QuietStep DEF Quiet
<1> QED BY <1>3, <1>4

LEMMA AcquireLockKeeps ==
    ASSUME LeaseInv, NEW p \in Processes, AcquireLock(p)
    PROVE  LeaseInv'
<1>1. /\ Shape(op[p], owned[p]) /\ Watched(op[p]) /\ op[p] \in Op /\ clock \in Nat
      /\ target \in Nat
  BY OwnState
<1> DEFINE step == IF op[p].old = NoLease THEN "create" ELSE "compare"
           o == [op[p] EXCEPT !.step = step]
<1>2. /\ Quiet /\ signed' = signed /\ Goto(p, step) /\ UNCHANGED owned
      /\ op[p].step = "lock"
  BY <1>1 DEF AcquireLock, Quiet, At
<1>3. /\ o.goal = op[p].goal /\ o.step = step /\ o.new = op[p].new
      /\ o.old = op[p].old /\ o.done = op[p].done /\ o.until = op[p].until
      /\ op[p].goal \in Goals /\ step \in {"create", "compare"}
      /\ (step = "create" => op[p].old = NoLease) /\ (step = "compare" => op[p].old # NoLease)
  BY <1>1 DEF Op
<1>4. op[p] = op[p] /\ [op[p] EXCEPT !.step = step] = o
  OBVIOUS
<1> HIDE DEF o, step
<1>5. Shape(o, owned[p])
  BY <1>1, <1>2, <1>3 DEF Shape, Goals, Mutations
<1>6. Watched(o)
  BY <1>1, <1>2, <1>3 DEF Watched
<1>7. op[p].done = FALSE
  BY <1>1, <1>2 DEF Shape, Op
<1>8. step \in Steps \ {"write"} /\ step # "apply"
  BY <1>3 DEF Steps
<1> QED BY <1>2, <1>4, <1>5, <1>6, <1>7, <1>8, GotoStep

LEMMA CompareKeeps ==
    ASSUME LeaseInv, NEW p \in Processes, Compare(p)
    PROVE  LeaseInv'
<1>1. /\ Shape(op[p], owned[p]) /\ Watched(op[p]) /\ op[p] \in Op /\ clock \in Nat
      /\ target \in Nat /\ lock \in Processes \cup {NoLock}
  BY OwnState
<1> DEFINE step == IF Matches(p) THEN "apply" ELSE "unlock"
           o == [op[p] EXCEPT !.step = step]
<1>2. /\ Quiet /\ signed' = signed /\ Goto(p, step) /\ UNCHANGED owned
      /\ op[p].step = "compare"
  BY <1>1 DEF Compare, Quiet, At, files
<1>3. /\ o.goal = op[p].goal /\ o.step = step /\ o.new = op[p].new
      /\ o.old = op[p].old /\ o.done = op[p].done /\ o.until = op[p].until
      /\ op[p].goal \in Goals /\ step \in {"apply", "unlock"}
      /\ (step = "apply" => sidecar = op[p].old)
  BY <1>1 DEF Op, Matches
<1>4. op[p] = op[p] /\ [op[p] EXCEPT !.step = step] = o
  OBVIOUS
<1> HIDE DEF o, step
<1>5. Shape(o, owned[p])
  BY <1>1, <1>2, <1>3 DEF Shape, Goals, Mutations
<1>6. Watched(o)
  BY <1>1, <1>2, <1>3 DEF Watched
<1>7. op[p].done = FALSE
  BY <1>1, <1>2 DEF Shape, Op
<1>8. step \in Steps \ {"write"}
  BY <1>3 DEF Steps
<1> QED BY <1>2, <1>3, <1>4, <1>5, <1>6, <1>7, <1>8, GotoStep

\* The steps of a save, and its close.
LEMMA SavingStep ==
    ASSUME LeaseInv, NEW p \in Processes,
           NEW step \in {"check", "replace", "replaced", "close"},
           Goto(p, step), UNCHANGED owned, Quiet, signed' = signed,
           op[p].step \in {"guard", "check", "replace", "replaced"}
    PROVE  LeaseInv'
<1> DEFINE o == [op[p] EXCEPT !.step = step]
<1>1. /\ Shape(op[p], owned[p]) /\ op[p] \in Op
      /\ o.goal = op[p].goal /\ o.step = step /\ o.new = op[p].new
      /\ o.old = op[p].old /\ o.done = op[p].done
      /\ op[p].goal \in Goals
  BY OwnState DEF Op
<1> HIDE DEF o
<1>2. op[p].goal = "rest" /\ op[p].done = FALSE
  BY <1>1 DEF Shape, Goals, Mutations, Op
<1>3. Shape(o, owned[p])
  BY <1>1, <1>2 DEF Shape, Mutations
<1>4. Watched(o)
  BY <1>1, <1>2 DEF Watched
<1>5. step \in Steps \ {"write"} /\ step # "apply"
  BY DEF Steps
<1> QED BY <1>2, <1>3, <1>4, <1>5, GotoStep DEF o

LEMMA GuardKeeps ==
    ASSUME LeaseInv, NEW p \in Processes, Guard(p)
    PROVE  LeaseInv'
<1>1. /\ Quiet /\ signed' = signed /\ op[p].step = "guard"
      /\ (Goto(p, "check") /\ UNCHANGED owned) \/ Fail(p)
  BY OwnState DEF Guard, files, Quiet, At
<1> QED BY <1>1, FailStep, SavingStep

LEMMA CheckKeeps ==
    ASSUME LeaseInv, NEW p \in Processes, Check(p)
    PROVE  LeaseInv'
<1>1. /\ Quiet /\ signed' = signed /\ op[p].step = "check"
      /\ (Goto(p, "replace") /\ UNCHANGED owned) \/ Fail(p)
  BY OwnState DEF Check, files, Quiet, At
<1> QED BY <1>1, FailStep, SavingStep

LEMMA ReplaceKeeps ==
    ASSUME LeaseInv, NEW p \in Processes, Replace(p)
    PROVE  LeaseInv'
<1>1. /\ Shape(op[p], owned[p]) /\ Standing(op[p], owned[p]) /\ op[p] \in Op
      /\ target \in Nat /\ signed \in Nat /\ lock \in Processes \cup {NoLock}
      /\ op \in [Processes -> Op] /\ owned \in [Processes -> Leases] /\ owned[p] \in Leases
  BY OwnState
<1> DEFINE o == [op[p] EXCEPT !.step = "replaced", !.until = target + 1]
<1>2. op' = [op EXCEPT ![p] = o] /\ owned' = [owned EXCEPT ![p] = owned[p]]
      /\ Quiet /\ signed' = signed /\ op[p].step = "replace"
  <2>1. target + 1 \in Nat
    BY <1>1
  <2>2. owned' = [owned EXCEPT ![p] = owned[p]]
    BY <1>1 DEF Replace
  <2>3. op' = [op EXCEPT ![p] = o]
    BY <1>1 DEF Replace
  <2> QED BY <1>1, <2>1, <2>2, <2>3 DEF Replace, Quiet, At
<1>3. /\ o \in Op /\ o.goal = op[p].goal /\ o.step = "replaced" /\ o.new = op[p].new
      /\ o.old = op[p].old /\ o.done = op[p].done /\ op[p].goal \in Goals
  <2>1. target + 1 \in Nat /\ "replaced" \in Steps
    BY <1>1 DEF Steps
  <2>2. o \in Op
    BY <1>1, <2>1 DEF Op
  <2> QED BY <1>1, <2>2 DEF Op
<1> HIDE DEF o
<1>4. op[p].goal = "rest" /\ op[p].done = FALSE
  BY <1>1, <1>2, <1>3 DEF Shape, Goals, Mutations, Op
<1>5. Shape(o, owned[p]) /\ Watched(o)
  BY <1>1, <1>2, <1>3, <1>4 DEF Shape, Mutations, Watched
<1>6. Standing(o, owned[p])
  BY <1>1, <1>2, <1>3, <1>4 DEF Standing, Latest
<1>7. \A i \in Nat : Uses(o, owned[p], i) => Uses(op[p], owned[p], i)
  BY <1>3 DEF Uses
<1>8. Good(p, o, owned[p])
  BY <1>1, <1>3, <1>5, <1>6, <1>7 DEF Good
<1> QED BY <1>2, <1>7, <1>8, QuietStep DEF Quiet

LEMMA HeartbeatKeeps ==
    ASSUME LeaseInv, NEW p \in Processes, Heartbeat(p) \/ Save(p)
    PROVE  LeaseInv'
<1>1. /\ Shape(op[p], owned[p]) /\ op[p] \in Op /\ sidecar \in Lease \cup {NoLease, Torn}
      /\ Quiet /\ signed' = signed /\ op[p].step = "rest"
  BY OwnState DEF Heartbeat, Save, files, Quiet, At
<1>2. op[p].goal = "rest"
  BY <1>1 DEF Shape, Mutations, Op, Goals
<1>3. ASSUME Held(p) PROVE Names(p) /\ sidecar \in Lease
  BY <1>1, <1>3, LeaseFacts DEF Held, Names
<1>4. ASSUME Held(p), NEW extension \in Nat, NEW goal \in {"renew", "save"},
             Mutate(p, goal, Extended(extension)), UNCHANGED owned
      PROVE  LeaseInv'
  <2>1. /\ Extended(extension) \in Lease /\ Extended(extension).id = sidecar.id
    BY <1>3, <1>4, ExtendedFacts
  <2>2. Extended(extension) \in Leases /\ Extended(extension) # NoLease
    BY <2>1, LeaseFacts DEF Leases
  <2>3. goal \in Mutations /\ goal # "release"
    BY DEF Mutations
  <2> QED BY <1>1, <1>2, <1>3, <1>4, <2>1, <2>2, <2>3, MutateStep
<1>5. CASE Held(p)
  BY <1>4, <1>5, LeaseFacts DEF Heartbeat, Save
<1>6. CASE ~Held(p)
  BY <1>1, <1>6, FailStep DEF Heartbeat, Save
<1> QED BY <1>5, <1>6

LEMMA ConfirmKeeps ==
    ASSUME LeaseInv, NEW p \in Processes, Confirm(p)
    PROVE  LeaseInv'
<1>1. /\ Shape(op[p], owned[p]) /\ op[p] \in Op /\ sidecar \in Lease \cup {NoLease, Torn}
      /\ Quiet /\ signed' = signed /\ op[p].step = "replaced"
  BY OwnState DEF Confirm, files, Quiet, At
<1>2. op[p].goal = "rest"
  BY <1>1 DEF Shape, Mutations, Op, Goals
<1> DEFINE new == [Extended(LeaseTtl) EXCEPT !.fingerprint = target]
<1>3. ASSUME Names(p), Mutate(p, "record", new), UNCHANGED owned
      PROVE  LeaseInv'
  <2>1. sidecar \in Lease
    BY <1>1, <1>3, LeaseFacts DEF Names
  <2>2. new \in Lease /\ new.id = sidecar.id
    BY <2>1, ExtendedFacts, LeaseFacts
  <2> HIDE DEF new
  <2>3. new \in Leases /\ new # NoLease /\ "record" \in Mutations
    BY <2>2, LeaseFacts DEF Leases, Mutations
  <2> QED BY <1>1, <1>2, <1>3, <2>2, <2>3, MutateStep
<1>4. CASE Names(p) /\ Mutate(p, "record", new) /\ UNCHANGED owned
  BY <1>3, <1>4
<1>5. CASE Goto(p, "close") /\ UNCHANGED owned
  BY <1>1, <1>5, SavingStep
<1>6. CASE Fail(p)
  BY <1>1, <1>6, FailStep
<1> QED BY <1>4, <1>5, <1>6 DEF Confirm

LEMMA ReleaseKeeps ==
    ASSUME LeaseInv, NEW p \in Processes, Release(p)
    PROVE  LeaseInv'
<1>1. Quiet /\ signed' = signed
  BY OwnState DEF Release, files, Quiet
<1>2. CASE Names(p) /\ Mutate(p, "release", NoLease) /\ UNCHANGED owned
  <2>1. "release" \in Mutations /\ NoLease \in Leases
    BY DEF Mutations, Leases
  <2> QED BY <1>1, <1>2, <2>1, MutateStep
<1>3. CASE Settle(p, NoLease)
  BY <1>1, <1>3, NothingOwned
<1> QED BY <1>2, <1>3 DEF Release

LEMMA StopKeeps ==
    ASSUME LeaseInv, NEW p \in Processes, GiveUp(p) \/ Stop(p)
    PROVE  LeaseInv'
BY OwnState, NothingOwned DEF GiveUp, Stop, files, Quiet

\* A mutation ends: what it wrote is owned, unless the lock was lost.
LEMMA UnlockKeeps ==
    ASSUME LeaseInv, NEW p \in Processes, Unlock(p)
    PROVE  LeaseInv'
<1>1. /\ Shape(op[p], owned[p]) /\ op[p] \in Op /\ signed \in Nat
      /\ op[p].goal \in Goals /\ op[p].new \in Leases /\ op[p].seen \in Nat
      /\ op \in [Processes -> Op] /\ owned \in [Processes -> Leases]
      /\ lock \in Processes \cup {NoLock}
  BY OwnState, RecordFacts
<1>2. /\ Quiet /\ signed' = signed /\ op[p].step = "unlock"
      /\ IF Succeeded(p) THEN AfterMutation(p) ELSE Fail(p)
  <2>1. lock' \in Processes \cup {NoLock}
    BY <1>1 DEF Unlock
  <2> QED BY <2>1, OwnState DEF Unlock, Quiet, At
<1>3. ASSUME NEW o \in Op, NEW l, l = op[p].new, Succeeded(p),
             o.goal = "rest", o.step = "rest" \/ (o.step = "guard" /\ l # NoLease),
             o.new = NoLease, o.done = FALSE,
             op' = [op EXCEPT ![p] = o], owned' = [owned EXCEPT ![p] = l]
      PROVE  LeaseInv'
  <2>1. Shape(o, l) /\ Watched(o)
    BY <1>3 DEF Shape, Watched, Mutations
  <2>2. l # NoLease => sidecar = l
    BY <1>1, <1>2, <1>3 DEF Succeeded, Shape, Goals, Mutations
  <2>3. Standing(o, l)
    BY <1>3, <2>2 DEF Standing, Latest
  <2>4. \A i \in Nat : Uses(o, l, i) => Uses(op[p], owned[p], i)
    BY <1>3 DEF Uses
  <2>5. l \in Leases /\ o.step # "write" /\ o.step # "apply"
    BY <1>1, <1>3
  <2>6. Good(p, o, l)
    BY <1>3, <2>1, <2>3, <2>4, <2>5 DEF Good
  <2> QED BY <1>2, <1>3, <2>4, <2>6, QuietStep DEF Quiet
<1>4. CASE Succeeded(p) /\ op[p].goal = "save"
  <2> DEFINE o == [Rest EXCEPT !.step = "guard", !.seen = op[p].seen]
  <2>1. /\ op' = [op EXCEPT ![p] = o] /\ owned' = [owned EXCEPT ![p] = op[p].new]
    BY <1>2, <1>4 DEF AfterMutation
  <2>2. /\ o \in Op /\ o.goal = "rest" /\ o.step = "guard" /\ o.new = NoLease /\ o.done = FALSE
    BY <1>1 DEF Op, Rest, Goals, Steps
  <2>3. op[p].new # NoLease
    BY <1>1, <1>4 DEF Shape, Mutations
  <2> HIDE DEF o
  <2> QED BY <1>3, <1>4, <2>1, <2>2, <2>3
<1>5. CASE Succeeded(p) /\ op[p].goal # "save"
  <2>1. op' = [op EXCEPT ![p] = Rest] /\ owned' = [owned EXCEPT ![p] = op[p].new]
    BY <1>2, <1>5 DEF AfterMutation, Settle
  <2>2. Rest.goal = "rest" /\ Rest.step = "rest" /\ Rest.new = NoLease /\ Rest.done = FALSE
    BY DEF Rest
  <2> QED BY <1>3, <1>5, <2>1, <2>2, RecordFacts
<1>6. CASE ~Succeeded(p)
  BY <1>2, <1>6, FailStep
<1> QED BY <1>4, <1>5, <1>6
-----------------------------------------------------------------------------
(* The steps that change the sidecar, and the clock.                       *)

LEMMA LatestIsLease ==
    ASSUME NEW o \in Op, NEW l \in Lease, Shape(o, l), o.goal # "release"
    PROVE  /\ Latest(o, l) \in Lease
           /\ Latest(o, l).id \in Nat /\ Uses(o, l, Latest(o, l).id)
<1>1. l # NoLease /\ o.goal \in Goals /\ o.new \in Leases /\ l.id \in Nat
  BY LeaseFacts, RecordFacts
<1>2. o.done => o.new # NoLease
  BY <1>1 DEF Shape, Goals, Mutations
<1>3. Latest(o, l) \in Lease
  BY <1>1, <1>2 DEF Latest, Leases
<1> QED BY <1>1, <1>2, <1>3, RecordFacts DEF Latest, Uses

\* A process that applies a mutation has the lease it replaces in its name,
\* unless it claims it.
LEMMA ApplyFacts ==
    ASSUME LeaseInv, NEW p \in Processes, At(p, "apply")
    PROVE  /\ sidecar = op[p].old /\ sidecar \in Lease /\ op[p].done = FALSE
           /\ \/ op[p].goal = "claim" /\ owned[p] = NoLease /\ op[p].new \in Lease
                 /\ sidecar.expires + LeaseTtl <= clock
              \/ op[p].goal \in Mutations /\ Names(p)
                 /\ Uses(op[p], owned[p], sidecar.id)
                 /\ IF op[p].goal = "release" THEN op[p].new = NoLease
                    ELSE op[p].new \in Lease /\ op[p].new.id = sidecar.id
<1>1. /\ Shape(op[p], owned[p]) /\ Watched(op[p]) /\ op[p] \in Op /\ clock \in Nat
      /\ op[p].goal \in Goals /\ op[p].old \in Leases /\ op[p].new \in Leases
      /\ op[p].until \in Nat /\ op[p].done \in BOOLEAN
      /\ owned[p] \in Leases /\ op[p].step = "apply"
  BY OwnState, RecordFacts DEF At
<1>2. sidecar = op[p].old
  BY DEF LeaseInv, Fences
<1>3. op[p].goal # "rest" /\ op[p].done = FALSE /\ op[p].old # NoLease
  BY <1>1 DEF Shape, Goals, Mutations
<1>4. sidecar \in Lease /\ sidecar.expires \in Nat /\ IsLease(sidecar)
  BY <1>1, <1>2, <1>3, LeaseFacts, RecordFacts DEF Leases
<1>5. CASE op[p].goal = "claim"
  <2>1. owned[p] = NoLease /\ op[p].new \in Lease
    BY <1>1, <1>5 DEF Shape, Leases
  <2>2. sidecar.expires + LeaseTtl <= op[p].until /\ op[p].until <= clock
    BY <1>1, <1>2, <1>3, <1>5 DEF Watched
  <2> QED BY <1>1, <1>2, <1>3, <1>4, <1>5, <2>1, <2>2, LeaseFacts
<1>6. CASE op[p].goal \in Mutations
  <2>1. owned[p] # NoLease /\ owned[p].id = sidecar.id
    BY <1>1, <1>2, <1>6 DEF Shape
  <2>2. IF op[p].goal = "release" THEN op[p].new = NoLease
        ELSE op[p].new \in Lease /\ op[p].new.id = sidecar.id
    BY <1>1, <1>6, <2>1 DEF Shape, Leases
  <2> QED BY <1>2, <1>3, <1>4, <1>6, <2>1, <2>2 DEF Names, Owns, Uses
<1> QED BY <1>1, <1>3, <1>5, <1>6 DEF Goals, Mutations

\* What a step of p that changes the sidecar must leave true of the others.
Stands(p) ==
    \A q \in Processes \ {p} :
       /\ ~At(q, "write") /\ ~At(q, "apply")
       /\ Standing(op[q], owned[q])'

LEMMA SidecarStep ==
    ASSUME LeaseInv, NEW p \in Processes, NEW o \in Op, Stands(p),
           op' = [op EXCEPT ![p] = o], UNCHANGED <<target, lock, signed, clock, owned>>,
           sidecar' \in Lease \cup {NoLease, Torn},
           sidecar' \in Lease => sidecar'.id <= signed,
           Shape(o, owned[p]), Watched(o),
           owned[p] # NoLease /\ o.goal # "release" => sidecar' = Latest(o, owned[p]),
           o.step # "apply", o.step = "write" => sidecar' = Torn,
           o.new = op[p].new
    PROVE  LeaseInv'
<1>1. /\ op \in [Processes -> Op] /\ owned \in [Processes -> Leases] /\ signed \in Nat
  BY OwnState
<1>2. /\ op'[p] = o /\ \A q \in Processes \ {p} : op'[q] = op[q]
      /\ owned' = owned /\ signed' = signed /\ clock' = clock
  BY <1>1
<1>3. TypeOK'
  <2>1. op' \in [Processes -> Op]
    BY <1>1
  <2> QED BY <2>1 DEF TypeOK, LeaseInv
<1>4. FreshIds'
  <2>1. \A q \in Processes : \A i \in Nat :
          Uses(op'[q], owned'[q], i) <=> Uses(op[q], owned[q], i)
    BY <1>2 DEF Uses
  <2>2. IsLease(sidecar)' => sidecar'.id <= signed'
    BY <1>2, LeaseFacts DEF IsLease
  <2> QED BY <1>2, <2>1, <2>2 DEF LeaseInv, FreshIds
<1>5. Fences'
  BY <1>2 DEF Fences, Stands, At
<1>6. ASSUME NEW q \in Processes
      PROVE  Shape(op'[q], owned'[q]) /\ Watched(op[q])' /\ Standing(op[q], owned[q])'
  <2>1. CASE q = p
    BY <1>2, <2>1 DEF Watched, Standing, Latest
  <2>2. CASE q # p
    BY <1>2, <2>2 DEF LeaseInv, Watched, Stands
  <2> QED BY <2>1, <2>2
<1> QED BY <1>3, <1>4, <1>5, <1>6 DEF LeaseInv, Shape

LEMMA CreateKeeps ==
    ASSUME LeaseInv, NEW p \in Processes, Create(p)
    PROVE  LeaseInv'
<1>1. /\ Shape(op[p], owned[p]) /\ Watched(op[p]) /\ op[p] \in Op
      /\ op[p].goal \in Goals /\ op[p].done \in BOOLEAN /\ op[p].step = "create"
      /\ op \in [Processes -> Op]
      /\ target \in Nat /\ lock \in Processes \cup {NoLock}
  BY OwnState, RecordFacts DEF Create, At
<1>2. op[p].goal = "claim" /\ op[p].done = FALSE /\ owned[p] = NoLease /\ op[p].new # NoLease
  BY <1>1 DEF Shape, Goals, Mutations
<1> DEFINE step == IF sidecar = NoLease THEN "write" ELSE "unlock"
           o == [op[p] EXCEPT !.step = step]
<1>3. /\ o \in Op /\ o.goal = op[p].goal /\ o.step = step /\ o.new = op[p].new
      /\ o.old = op[p].old /\ o.done = op[p].done /\ o.until = op[p].until
  BY <1>1 DEF Op, Steps
<1>4. Shape(o, owned[p])
  BY <1>1, <1>2, <1>3 DEF Shape, Mutations
<1>5. Watched(o)
  BY <1>1, <1>3 DEF Watched
<1>6. CASE sidecar # NoLease
  <2>1. Goto(p, "unlock") /\ UNCHANGED owned /\ Quiet /\ signed' = signed
    BY <1>1, <1>6 DEF Create, Quiet
  <2>2. "unlock" \in Steps \ {"write"} /\ "unlock" # "apply"
    BY DEF Steps
  <2> QED BY <1>1, <1>2, <1>4, <1>5, <1>6, <2>1, <2>2, GotoStep
<1>7. CASE sidecar = NoLease
  <2>1. Stands(p)
    <3> SUFFICES ASSUME NEW q \in Processes \ {p}
                 PROVE  ~At(q, "write") /\ ~At(q, "apply") /\ Standing(op[q], owned[q])'
      BY DEF Stands
    <3>1. ~At(q, "write")
      BY <1>7, LeaseFacts DEF LeaseInv, Fences
    <3>2. ~At(q, "apply")
      BY <1>7, ApplyFacts, LeaseFacts
    <3>3. /\ Shape(op[q], owned[q]) /\ Standing(op[q], owned[q]) /\ op[q] \in Op
          /\ owned[q] \in Leases
      BY OwnState
    <3>4. op'[q] = op[q] /\ owned'[q] = owned[q] /\ sidecar' = Torn /\ clock' = clock
      BY <1>1, <1>7 DEF Create, Goto
    <3>5. owned[q] # NoLease /\ op[q].goal # "release" => Latest(op[q], owned[q]) # NoLease
      BY <3>3, LatestIsLease, LeaseFacts DEF Leases
    <3>6. Standing(op[q], owned[q])'
      BY <1>7, <3>3, <3>4, <3>5, LeaseFacts DEF Standing, Latest, Expired, IsLease
    <3> QED BY <3>1, <3>2, <3>6
  <2>2. op' = [op EXCEPT ![p] = o] /\ UNCHANGED <<target, lock, signed, clock, owned>>
        /\ sidecar' = Torn /\ step = "write"
    BY <1>1, <1>7 DEF Create, Goto
  <2>3. owned[p] # NoLease /\ o.goal # "release" => sidecar' = Latest(o, owned[p])
    BY <1>2
  <2>4. sidecar' \in Lease \cup {NoLease, Torn} /\ sidecar' \notin Lease
    BY <2>2, LeaseFacts
  <2>5. o.step = "write"
    BY <1>3, <2>2
  <2> HIDE DEF o, step
  <2> QED BY <1>3, <1>4, <1>5, <2>1, <2>2, <2>3, <2>4, <2>5, SidecarStep
<1> QED BY <1>6, <1>7

LEMMA WriteCreatedKeeps ==
    ASSUME LeaseInv, NEW p \in Processes, WriteCreated(p)
    PROVE  LeaseInv'
<1>1. /\ Shape(op[p], owned[p]) /\ Watched(op[p]) /\ op[p] \in Op
      /\ op[p].goal \in Goals /\ op[p].new \in Leases /\ op[p].step = "write"
      /\ op \in [Processes -> Op] /\ signed \in Nat
      /\ sidecar = Torn
  BY OwnState, RecordFacts DEF WriteCreated, At, LeaseInv, Fences
<1>2. op[p].goal = "claim" /\ owned[p] = NoLease /\ op[p].new \in Lease
  BY <1>1 DEF Shape, Goals, Mutations, Leases
<1>3. /\ op[p].new.id \in Nat /\ Uses(op[p], owned[p], op[p].new.id)
      /\ op[p].new.id <= signed
  <2>1. op[p].new.id \in Nat /\ Uses(op[p], owned[p], op[p].new.id)
    BY <1>2, LeaseFacts, RecordFacts DEF Uses
  <2> QED BY <2>1 DEF LeaseInv, FreshIds
<1>4. PICK written \in BOOLEAN :
         /\ sidecar' = IF written THEN op[p].new ELSE NoLease
         /\ op' = [op EXCEPT ![p].step = "unlock", ![p].done = written]
  BY DEF WriteCreated
<1>5. UNCHANGED <<target, lock, signed, clock, owned>>
  BY DEF WriteCreated
<1> DEFINE o == [op[p] EXCEPT !.step = "unlock", !.done = written]
<1>6. op' = [op EXCEPT ![p] = o]
  BY <1>1, <1>4
<1>7. o \in Op
  BY <1>1 DEF Op, Steps
<1>8. /\ o.goal = op[p].goal /\ o.step = "unlock" /\ o.new = op[p].new
      /\ o.old = op[p].old /\ o.until = op[p].until
  BY <1>1 DEF Op
<1> HIDE DEF o
<1>9. Shape(o, owned[p])
  BY <1>1, <1>2, <1>8, LeaseFacts DEF Shape, Mutations
<1>10. Watched(o)
  BY <1>1, <1>8 DEF Watched
<1>11. owned[p] # NoLease /\ o.goal # "release" => sidecar' = Latest(o, owned[p])
  BY <1>2
<1>12. Stands(p)
  <2> SUFFICES ASSUME NEW q \in Processes \ {p}
               PROVE  ~At(q, "write") /\ ~At(q, "apply") /\ Standing(op[q], owned[q])'
    BY DEF Stands
  <2>1. ~At(q, "write")
    BY <1>1 DEF LeaseInv, Fences, At
  <2>2. ~At(q, "apply")
    BY <1>1, ApplyFacts, LeaseFacts
  <2>3. /\ Shape(op[q], owned[q]) /\ Standing(op[q], owned[q]) /\ op[q] \in Op
        /\ owned[q] \in Leases
    BY OwnState
  <2>4. op'[q] = op[q] /\ owned'[q] = owned[q] /\ clock' = clock
    BY <1>1, <1>5, <1>6
  <2>5. owned[q] # NoLease /\ op[q].goal # "release" => Latest(op[q], owned[q]) \in Lease
    BY <2>3, LatestIsLease DEF Leases
  <2>6. ~(IsLease(sidecar') /\ owned[q] # NoLease /\ sidecar'.id = owned[q].id)
    <3> SUFFICES ASSUME IsLease(sidecar'), owned[q] # NoLease, sidecar'.id = owned[q].id
                 PROVE  FALSE
      OBVIOUS
    <3>1. sidecar' = op[p].new
      BY <1>4 DEF IsLease
    <3>2. Uses(op[q], owned[q], op[p].new.id)
      BY <3>1 DEF Uses
    <3> QED BY <1>3, <3>2 DEF LeaseInv, FreshIds
  <2>7. Standing(op[q], owned[q])'
    BY <1>1, <2>3, <2>4, <2>5, <2>6, LeaseFacts DEF Standing, Latest, Expired, IsLease
  <2> QED BY <2>1, <2>2, <2>7
<1>13. sidecar' \in Lease \cup {NoLease, Torn} /\ (sidecar' \in Lease => sidecar'.id <= signed)
  BY <1>2, <1>3, <1>4, LeaseFacts
<1> QED BY <1>5, <1>6, <1>7, <1>8, <1>9, <1>10, <1>11, <1>12, <1>13, SidecarStep

\* No other process is between the fence of a mutation and its rename.
OthersOpen(p) == \A q \in Processes \ {p} : ~At(q, "apply")

LEMMA ApplyKeeps ==
    ASSUME LeaseInv, NEW p \in Processes, Apply(p), OthersOpen(p)
    PROVE  LeaseInv'
<1>1. /\ Shape(op[p], owned[p]) /\ Watched(op[p]) /\ op[p] \in Op
      /\ op[p].goal \in Goals /\ op[p].new \in Leases /\ At(p, "apply")
      /\ op \in [Processes -> Op] /\ signed \in Nat /\ clock \in Nat
      /\ LeaseTtl \in Nat
  BY OwnState, RecordFacts, LeaseFacts DEF Apply
<1> DEFINE written == op[p].goal = "release" => sidecar # NoLease
           o == [op[p] EXCEPT !.step = "unlock", !.done = written]
<1>2. /\ sidecar = op[p].old /\ sidecar \in Lease /\ sidecar.id \in Nat
      /\ sidecar.expires \in Nat
  BY <1>1, ApplyFacts, RecordFacts
<1>3. /\ sidecar' = op[p].new /\ UNCHANGED <<target, lock, signed, clock, owned>>
  BY DEF Apply
<1>4. op' = [op EXCEPT ![p] = o]
  BY <1>1 DEF Apply
<1>5. o \in Op
  BY <1>1 DEF Op, Steps
<1>6. /\ o.goal = op[p].goal /\ o.step = "unlock" /\ o.new = op[p].new
      /\ o.old = op[p].old /\ o.until = op[p].until /\ o.done = written
  BY <1>1 DEF Op
<1> HIDE DEF o
<1>7. Shape(o, owned[p])
  BY <1>1, <1>6 DEF Shape, Mutations, At
<1>8. Watched(o)
  BY <1>1, <1>6 DEF Watched, At
<1>9. owned[p] # NoLease /\ o.goal # "release" => sidecar' = Latest(o, owned[p])
  BY <1>3, <1>6 DEF Latest
<1>10. Stands(p)
  <2> SUFFICES ASSUME NEW q \in Processes \ {p}
               PROVE  ~At(q, "write") /\ ~At(q, "apply") /\ Standing(op[q], owned[q])'
    BY DEF Stands
  <2>1. ~At(q, "write")
    BY <1>2, LeaseFacts DEF LeaseInv, Fences
  <2>2. ~At(q, "apply")
    BY DEF OthersOpen
  <2>3. /\ Shape(op[q], owned[q]) /\ Standing(op[q], owned[q]) /\ op[q] \in Op
        /\ owned[q] \in Leases
    BY OwnState
  <2>4. op'[q] = op[q] /\ owned'[q] = owned[q] /\ clock' = clock
    BY <1>1, <1>3, <1>4
  <2>5. ASSUME owned[q] # NoLease, op[q].goal # "release", op[q].step # "close",
               ~Expired(Latest(op[q], owned[q]))
        PROVE  FALSE
    <3>1. sidecar = Latest(op[q], owned[q]) /\ Uses(op[q], owned[q], sidecar.id)
      BY <2>3, <2>5, LatestIsLease DEF Standing, Leases
    <3>2. sidecar.expires > clock
      BY <1>1, <1>2, <2>5, <3>1 DEF Expired
    <3>3. Uses(op[p], owned[p], sidecar.id)
      <4>1. \/ sidecar.expires + LeaseTtl <= clock
            \/ Uses(op[p], owned[p], sidecar.id)
        BY <1>1, ApplyFacts
      <4>2. ~(sidecar.expires + LeaseTtl <= clock)
        BY <1>1, <1>2, <3>2
      <4> QED BY <4>1, <4>2
    <3> QED BY <1>2, <3>1, <3>3 DEF LeaseInv, FreshIds
  <2>6. ~(IsLease(sidecar') /\ owned[q] # NoLease /\ sidecar'.id = owned[q].id)
    <3> SUFFICES ASSUME IsLease(sidecar'), owned[q] # NoLease, sidecar'.id = owned[q].id
                 PROVE  FALSE
      OBVIOUS
    <3>1. sidecar' = op[p].new /\ op[p].new \in Lease /\ op[p].new # NoLease
      BY <1>1, <1>3, LeaseFacts DEF IsLease, Leases
    <3>2. Uses(op[q], owned[q], op[p].new.id) /\ Uses(op[p], owned[p], op[p].new.id)
      BY <3>1 DEF Uses
    <3>3. op[p].new.id \in Nat
      BY <3>1, RecordFacts
    <3> QED BY <3>2, <3>3 DEF LeaseInv, FreshIds
  <2>7. Standing(op[q], owned[q])'
    BY <2>4, <2>5, <2>6 DEF Standing, Latest, Expired
  <2> QED BY <2>1, <2>2, <2>7
<1>11. sidecar' \in Lease \cup {NoLease, Torn} /\ (sidecar' \in Lease => sidecar'.id <= signed)
  <2>1. op[p].new \in Lease => op[p].new.id \in Nat /\ Uses(op[p], owned[p], op[p].new.id)
    BY LeaseFacts, RecordFacts DEF Uses
  <2>2. op[p].new \in Lease => op[p].new.id <= signed
    BY <2>1 DEF LeaseInv, FreshIds
  <2> QED BY <1>1, <1>3, <2>2 DEF Leases
<1>12. o.step # "apply" /\ o.step # "write"
  BY <1>6
<1> QED BY <1>3, <1>4, <1>5, <1>6, <1>7, <1>8, <1>9, <1>10, <1>11, <1>12, SidecarStep

LEMMA TickKeeps ==
    ASSUME LeaseInv, Tick
    PROVE  LeaseInv'
<1>1. /\ clock \in Nat /\ clock' = clock + 1
      /\ UNCHANGED <<target, sidecar, lock, signed, owned, op>>
  BY DEF Tick, files, LeaseInv, TypeOK
<1>2. TypeOK'
  BY <1>1 DEF LeaseInv, TypeOK
<1>3. FreshIds' /\ Fences'
  BY <1>1 DEF LeaseInv, FreshIds, Fences, At, Uses, IsLease
<1>4. ASSUME NEW p \in Processes
      PROVE  Shape(op[p], owned[p])' /\ Watched(op[p])' /\ Standing(op[p], owned[p])'
  <2>1. /\ Shape(op[p], owned[p]) /\ Watched(op[p]) /\ Standing(op[p], owned[p])
        /\ op[p] \in Op /\ owned[p] \in Leases /\ op[p].until \in Nat
    BY OwnState, RecordFacts
  <2>2. owned[p] # NoLease /\ op[p].goal # "release" =>
           Latest(op[p], owned[p]) \in Lease
    BY <2>1, LatestIsLease DEF Leases
  <2>3. ASSUME NEW lease \in Lease
        PROVE  ~Expired(lease)' => ~Expired(lease)
    BY <1>1, RecordFacts DEF Expired
  <2>4. Shape(op[p], owned[p])' /\ Watched(op[p])'
    BY <1>1, <2>1 DEF Shape, Watched
  <2>5. Standing(op[p], owned[p])'
    <3>1. Latest(op[p], owned[p])' = Latest(op[p], owned[p])
      BY <1>1 DEF Latest
    <3>2. owned[p] # NoLease /\ op[p].goal # "release" =>
             (~Expired(Latest(op[p], owned[p]))' => ~Expired(Latest(op[p], owned[p])))
      <4> DEFINE latest == Latest(op[p], owned[p])
      <4>1. latest' = latest
        BY <3>1
      <4>2. latest \in Lease => latest.expires \in Nat
        BY RecordFacts
      <4> HIDE DEF latest
      <4>3. latest \in Lease => (~(latest.expires <= clock') => ~(latest.expires <= clock))
        BY <1>1, <4>2
      <4> QED BY <2>2, <4>1, <4>3 DEF latest, Expired
    <3> QED BY <1>1, <2>1, <3>1, <3>2 DEF Standing, IsLease
  <2> QED BY <2>4, <2>5
<1> QED BY <1>2, <1>3, <1>4 DEF LeaseInv
-----------------------------------------------------------------------------
(* The invariant of every step.                                            *)

LEMMA InitLease == Init => LeaseInv
<1> SUFFICES ASSUME Init PROVE LeaseInv
  OBVIOUS
<1>1. Rest \in Op /\ Rest.goal = "rest" /\ Rest.step = "rest" /\ Rest.new = NoLease
      /\ Rest.done = FALSE
  BY RecordFacts DEF Rest
<1>2. \A p \in Processes : op[p] = Rest /\ owned[p] = NoLease
  BY DEF Init
<1>3. TypeOK
  BY <1>1 DEF Init, TypeOK
<1>4. FreshIds
  BY <1>1, <1>2 DEF Init, FreshIds, Uses, IsLease
<1>5. Fences
  BY <1>1, <1>2 DEF Fences, At
<1>6. \A p \in Processes :
         Shape(op[p], owned[p]) /\ Watched(op[p]) /\ Standing(op[p], owned[p])
  BY <1>1, <1>2 DEF Shape, Watched, Standing, Mutations
<1> QED BY <1>3, <1>4, <1>5, <1>6 DEF LeaseInv

\* What Next adds to a step of a process.
LEMMA OpenFence ==
    ASSUME ~StallAtFence, NEW p \in Processes, \A q \in Processes \ {p} : ~Fenced(q)
    PROVE  OthersOpen(p)
BY DEF OthersOpen, Fenced

LEMMA LeaseStep ==
    ASSUME ~StallAtFence, LeaseInv, [Next]_vars
    PROVE  LeaseInv'
<1>1. CASE UNCHANGED vars
  <2>1. UNCHANGED <<target, sidecar, lock, signed, clock, owned, op>>
    BY <1>1 DEF vars, files
  <2>2. TypeOK'
    BY <2>1 DEF LeaseInv, TypeOK
  <2>3. FreshIds' /\ Fences'
    BY <2>1 DEF LeaseInv, FreshIds, Fences, At, Uses, IsLease
  <2>4. ASSUME NEW p \in Processes
        PROVE  (Shape(op[p], owned[p]) /\ Watched(op[p]) /\ Standing(op[p], owned[p]))'
    BY <2>1 DEF LeaseInv, Shape, Watched, Standing, Latest, Expired
  <2> QED BY <2>2, <2>3, <2>4 DEF LeaseInv
<1>2. CASE Tick
  BY <1>2, TickKeeps
<1>3. ASSUME NEW p \in Processes, OthersOpen(p), Step(p)
      PROVE  LeaseInv'
  <2>1. CASE \E takeover \in BOOLEAN : Claim(p, takeover)
    BY <2>1, ClaimKeeps
  <2>2. CASE EndObservation(p) \/ RecoverLock(p) \/ Sign(p)
    BY <2>2, EndObservationKeeps, RecoverLockKeeps, SignKeeps
  <2>3. CASE AcquireLock(p) \/ LockBusy(p) \/ Compare(p) \/ Unlock(p)
    BY <2>3, AcquireLockKeeps, LockBusyKeeps, CompareKeeps, UnlockKeeps
  <2>4. CASE Create(p) \/ WriteCreated(p)
    BY <2>4, CreateKeeps, WriteCreatedKeeps
  <2>5. CASE Apply(p)
    BY <1>3, <2>5, ApplyKeeps
  <2>6. CASE Heartbeat(p) \/ Save(p) \/ Confirm(p)
    BY <2>6, HeartbeatKeeps, ConfirmKeeps
  <2>7. CASE Guard(p) \/ Check(p) \/ Replace(p)
    BY <2>7, GuardKeeps, CheckKeeps, ReplaceKeeps
  <2>8. CASE Release(p) \/ GiveUp(p) \/ Stop(p)
    BY <2>8, ReleaseKeeps, StopKeeps
  <2> QED BY <1>3, <2>1, <2>2, <2>3, <2>4, <2>5, <2>6, <2>7, <2>8 DEF Step
<1> QED BY <1>1, <1>2, <1>3, OpenFence DEF Next

\* Every variable keeps its type.
THEOREM Typing == ASSUME ~StallAtFence PROVE Spec => []TypeOK
<1>1. LeaseInv /\ [Next]_vars => LeaseInv'
  BY LeaseStep
<1>2. LeaseInv => TypeOK
  BY DEF LeaseInv
<1> QED BY <1>1, <1>2, InitLease, PTL DEF Spec

LEMMA OwnersAreNamed == LeaseInv => LiveOwnerIsNamed
<1> SUFFICES ASSUME LeaseInv, NEW p \in Processes, LiveOwner(p) PROVE Names(p)
  BY DEF LiveOwnerIsNamed
<1>1. /\ Shape(op[p], owned[p]) /\ Standing(op[p], owned[p]) /\ op[p] \in Op
      /\ owned[p] \in Leases /\ op[p].goal \in Goals
  BY OwnState, RecordFacts
<1>2. owned[p] \in Lease /\ owned[p] # NoLease /\ op[p].goal # "release"
      /\ op[p].step # "close" /\ ~Expired(Latest(op[p], owned[p]))
  BY <1>1 DEF LiveOwner, Owns, At, Written, Latest, Leases
<1>3. sidecar = Latest(op[p], owned[p]) /\ sidecar \in Lease
  BY <1>1, <1>2, LatestIsLease DEF Standing
<1>4. op[p].done => op[p].goal \in Mutations
  BY <1>1, <1>2 DEF Shape, Goals, Mutations
<1>5. sidecar.id = owned[p].id
  BY <1>1, <1>2, <1>3, <1>4 DEF Latest, Shape
<1> QED BY <1>2, <1>3, <1>5, LeaseFacts DEF Names, Owns

\* An owner whose lease has not expired is the one the sidecar names, unless it
\* has begun to release it: however takeovers, lost locks, stopped owners and
\* suspended claims interleave, no two processes own live leases.
THEOREM NoLiveOwnerIsDeposed == ASSUME ~StallAtFence PROVE Spec => []LiveOwnerIsNamed
<1>1. LeaseInv /\ [Next]_vars => LeaseInv'
  BY LeaseStep
<1> QED BY <1>1, OwnersAreNamed, InitLease, PTL DEF Spec

\* The steps of a process that change a lease are those that apply a mutation.
LEMMA OnlyApplyReplaces ==
    ASSUME LeaseInv, [Next]_vars, IsLease(sidecar), sidecar' # sidecar
    PROVE  \E p \in Processes : Apply(p)
<1>1. sidecar # NoLease /\ sidecar # Torn
  BY DEF IsLease
<1>2. ~UNCHANGED vars /\ ~Tick
  BY DEF vars, files, Tick
<1>3. PICK p \in Processes : Step(p)
  BY <1>2 DEF Next
<1>4. ~Create(p) /\ ~WriteCreated(p)
  BY <1>1 DEF Create, WriteCreated, LeaseInv, Fences
<1>5. \A takeover \in BOOLEAN : ~Claim(p, takeover)
  BY DEF Claim, BeginClaim, files
<1>6. /\ ~EndObservation(p) /\ ~RecoverLock(p) /\ ~Sign(p) /\ ~AcquireLock(p)
      /\ ~LockBusy(p) /\ ~Compare(p) /\ ~Unlock(p)
  BY DEF EndObservation, RecoverLock, Sign, AcquireLock, LockBusy, BeginClaim, Compare, Unlock,
         files
<1>7. /\ ~Heartbeat(p) /\ ~Save(p) /\ ~Guard(p) /\ ~Check(p) /\ ~Replace(p) /\ ~Confirm(p)
      /\ ~Release(p) /\ ~GiveUp(p) /\ ~Stop(p)
  BY DEF Heartbeat, Save, Guard, Check, Replace, Confirm, Release, GiveUp, Stop, files
<1> QED BY <1>3, <1>4, <1>5, <1>6, <1>7 DEF Step

\* A lease that has not expired is changed by the process it names, and by no
\* other.
THEOREM LeasesStand == ASSUME ~StallAtFence PROVE Spec => LiveLeaseStands
<1>1. LeaseInv /\ [Next]_vars => LeaseInv'
  BY LeaseStep
<1>2. LeaseInv /\ [Next]_vars =>
        [IsLease(sidecar) /\ ~Expired(sidecar) =>
           \/ sidecar' = sidecar
           \/ \E p \in Processes : Names(p) /\ At(p, "apply")]_vars
  <2> SUFFICES ASSUME LeaseInv, [Next]_vars, IsLease(sidecar), ~Expired(sidecar),
                      sidecar' # sidecar
               PROVE  \E p \in Processes : Names(p) /\ At(p, "apply")
    OBVIOUS
  <2>1. PICK p \in Processes : Apply(p)
    BY OnlyApplyReplaces
  <2>2. At(p, "apply") /\ clock \in Nat /\ LeaseTtl \in Nat
    BY <2>1, OwnState, LeaseFacts DEF Apply
  <2>3. sidecar \in Lease /\ (sidecar.expires + LeaseTtl <= clock \/ Names(p))
    BY <2>2, ApplyFacts
  <2>4. ~(sidecar.expires + LeaseTtl <= clock)
    BY <2>2, <2>3, RecordFacts DEF Expired
  <2> QED BY <2>2, <2>3, <2>4
<1> QED BY <1>1, <1>2, InitLease, PTL DEF Spec, LiveLeaseStands

\* A lease is replaced by another one only after it stood expired for a whole
\* observation window.
THEOREM TakeoversAreObserved == ASSUME ~StallAtFence PROVE Spec => TakeoverWasObserved
<1>1. LeaseInv /\ [Next]_vars => LeaseInv'
  BY LeaseStep
<1>2. LeaseInv /\ [Next]_vars =>
        [IsLease(sidecar) /\ IsLease(sidecar') /\ sidecar'.id # sidecar.id =>
           clock >= sidecar.expires + LeaseTtl]_vars
  <2> SUFFICES ASSUME LeaseInv, [Next]_vars, IsLease(sidecar), IsLease(sidecar'),
                      sidecar'.id # sidecar.id
               PROVE  clock >= sidecar.expires + LeaseTtl
    OBVIOUS
  <2>1. PICK p \in Processes : Apply(p)
    BY OnlyApplyReplaces
  <2>2. At(p, "apply") /\ sidecar' = op[p].new /\ clock \in Nat /\ LeaseTtl \in Nat
    BY <2>1, OwnState, LeaseFacts DEF Apply
  <2>3. sidecar \in Lease
    BY <2>2, ApplyFacts
  <2>4. sidecar.expires + LeaseTtl <= clock
        \/ (IF op[p].goal = "release" THEN op[p].new = NoLease
            ELSE op[p].new \in Lease /\ op[p].new.id = sidecar.id)
    BY <2>2, ApplyFacts
  <2>5. sidecar.expires + LeaseTtl <= clock
    BY <2>2, <2>4 DEF IsLease
  <2>6. sidecar.expires \in Nat
    BY <2>3, RecordFacts
  <2> QED BY <2>2, <2>5, <2>6
<1> QED BY <1>1, <1>2, InitLease, PTL DEF Spec, TakeoverWasObserved
-----------------------------------------------------------------------------
(* The saves.                                                              *)

Committer(p) == At(p, "check") \/ At(p, "replace")

\* The others are left alone.
Alone(p) ==
    /\ \A q \in Processes \ {p} : op'[q] = op[q] /\ owned'[q] = owned[q]
    /\ clock' = clock
    /\ ~Committer(p)'

LEMMA FailAlone ==
    ASSUME LeaseInv, NEW p \in Processes, Fail(p), clock' = clock
    PROVE  Alone(p)
<1>1. op \in [Processes -> Op] /\ owned \in [Processes -> Leases]
  BY OwnState
<1>2. [Rest EXCEPT !.step = "close"].step = "close" /\ Rest.step = "rest"
  BY DEF Rest
<1>3. CASE p \notin Hosts /\ Owns(p)
  <2>1. op' = [op EXCEPT ![p] = [Rest EXCEPT !.step = "close"]] /\ owned' = owned
    BY <1>3 DEF Fail
  <2>2. op'[p].step = "close"
    BY <1>1, <1>2, <2>1
  <2> QED BY <1>1, <2>1, <2>2 DEF Alone, Committer, At
<1>4. CASE ~(p \notin Hosts /\ Owns(p))
  <2>1. op' = [op EXCEPT ![p] = Rest] /\ owned' = [owned EXCEPT ![p] = NoLease]
    BY <1>4 DEF Fail, Settle
  <2>2. op'[p].step = "rest"
    BY <1>1, <1>2, <2>1
  <2> QED BY <1>1, <2>1, <2>2 DEF Alone, Committer, At
<1> QED BY <1>3, <1>4

LEMMA SettleAlone ==
    ASSUME LeaseInv, NEW p \in Processes, NEW l, Settle(p, l), clock' = clock
    PROVE  Alone(p)
<1>1. op \in [Processes -> Op] /\ owned \in [Processes -> Leases] /\ Rest.step = "rest"
  BY OwnState DEF Rest
<1>2. op' = [op EXCEPT ![p] = Rest] /\ owned' = [owned EXCEPT ![p] = l]
  BY DEF Settle
<1> QED BY <1>1, <1>2 DEF Alone, Committer, At

LEMMA GotoAlone ==
    ASSUME LeaseInv, NEW p \in Processes, NEW step, Goto(p, step), UNCHANGED owned,
           clock' = clock, step \notin {"check", "replace"}
    PROVE  Alone(p)
<1>1. op \in [Processes -> Op] /\ op[p] \in Op
  BY OwnState
<1>2. [op[p] EXCEPT !.step = step].step = step
  BY <1>1 DEF Op
<1>3. op' = [op EXCEPT ![p] = [op[p] EXCEPT !.step = step]]
  BY <1>1 DEF Goto
<1>4. op'[p].step = step
  BY <1>1, <1>2, <1>3
<1> QED BY <1>1, <1>3, <1>4 DEF Alone, Committer, At

LEMMA MutateAlone ==
    ASSUME LeaseInv, NEW p \in Processes, NEW goal, NEW new, Mutate(p, goal, new),
           UNCHANGED owned, clock' = clock
    PROVE  Alone(p)
<1> DEFINE o == [Rest EXCEPT !.goal = goal, !.step = "lock",
                             !.old = sidecar, !.new = new, !.seen = target]
<1>1. op \in [Processes -> Op]
  BY OwnState
<1>2. op' = [op EXCEPT ![p] = o] /\ o.step = "lock"
  BY DEF Mutate, Rest
<1> HIDE DEF o
<1>3. op'[p].step = "lock"
  BY <1>1, <1>2
<1> QED BY <1>1, <1>2, <1>3 DEF Alone, Committer, At

LEMMA BeginAlone ==
    ASSUME LeaseInv, NEW p \in Processes, NEW takeover, BeginClaim(p, takeover)
    PROVE  Alone(p) /\ target' = target
<1> DEFINE o == [goal |-> "claim", step |-> IF Observes(p, takeover) THEN "observe" ELSE "sign",
                 old |-> sidecar, new |-> NoLease, seen |-> target,
                 until |-> clock + LeaseTtl, done |-> FALSE]
<1>1. op \in [Processes -> Op]
  BY OwnState
<1>2. op' = [op EXCEPT ![p] = o] /\ o.step \in {"observe", "sign"}
      /\ UNCHANGED <<files, clock, owned>>
  BY DEF BeginClaim
<1> HIDE DEF o
<1>3. op'[p].step \in {"observe", "sign"}
  BY <1>1, <1>2
<1> QED BY <1>1, <1>2, <1>3 DEF Alone, Committer, At, files

\* A step that writes two fields of p's operation.
LEMMA FieldsAlone ==
    ASSUME LeaseInv, NEW p \in Processes, NEW o, op' = [op EXCEPT ![p] = o],
           UNCHANGED <<owned, clock>>, o.step \notin {"check", "replace"}
    PROVE  Alone(p)
<1>1. op \in [Processes -> Op]
  BY OwnState
<1>2. op'[p].step = o.step
  BY <1>1
<1> QED BY <1>1, <1>2 DEF Alone, Committer, At

\* The other steps: only a guard and a last check bring p nearer its rename.
LEMMA OtherSteps ==
    ASSUME LeaseInv, NEW p \in Processes, Step(p), ~Guard(p), ~Check(p), ~Replace(p)
    PROVE  Alone(p) /\ target' = target
<1>1. op \in [Processes -> Op] /\ op[p] \in Op
  BY OwnState
<1>2. CASE \E takeover \in BOOLEAN : Claim(p, takeover)
  BY <1>2, BeginAlone DEF Claim
<1>3. CASE EndObservation(p) \/ RecoverLock(p)
  BY <1>3, FailAlone, GotoAlone DEF EndObservation, RecoverLock, files
<1>4. CASE Sign(p)
  <2>1. CASE Fail(p)
    BY <1>4, <2>1, FailAlone DEF Sign, files
  <2>2. CASE ~Fail(p)
    <3> DEFINE o == [op[p] EXCEPT !.step = "lock", !.new =
                 [id |-> signed + 1, fingerprint |-> target,
                  expires |-> clock + LeaseTtl, seq |-> 0]]
    <3>1. op' = [op EXCEPT ![p] = o] /\ o.step = "lock"
      BY <1>1, <1>4, <2>2 DEF Sign, Op
    <3>2. UNCHANGED <<owned, clock>> /\ target' = target
      BY <1>4, <2>2 DEF Sign, files
    <3> HIDE DEF o
    <3> QED BY <3>1, <3>2, FieldsAlone
  <2> QED BY <2>1, <2>2
<1>5. CASE AcquireLock(p) \/ Compare(p) \/ Create(p)
  BY <1>5, GotoAlone DEF AcquireLock, Compare, Create, files
<1>6. CASE LockBusy(p)
  BY <1>6, FailAlone, BeginAlone DEF LockBusy, files
<1>7. CASE WriteCreated(p)
  <2>1. PICK written \in BOOLEAN : op' = [op EXCEPT ![p].step = "unlock", ![p].done = written]
    BY <1>7 DEF WriteCreated
  <2> DEFINE o == [op[p] EXCEPT !.step = "unlock", !.done = written]
  <2>2. op' = [op EXCEPT ![p] = o] /\ o.step = "unlock"
    BY <1>1, <2>1 DEF Op
  <2> HIDE DEF o
  <2> QED BY <1>7, <2>2, FieldsAlone DEF WriteCreated
<1>8. CASE Apply(p)
  <2> DEFINE written == op[p].goal = "release" => sidecar # NoLease
             o == [op[p] EXCEPT !.step = "unlock", !.done = written]
  <2>1. op' = [op EXCEPT ![p] = o]
    BY <1>1, <1>8 DEF Apply
  <2>2. o.step = "unlock"
    BY <1>1 DEF Op
  <2> HIDE DEF o
  <2> QED BY <1>8, <2>1, <2>2, FieldsAlone DEF Apply
<1>9. CASE Unlock(p)
  <2>1. CASE Fail(p)
    BY <1>9, <2>1, FailAlone DEF Unlock
  <2>2. CASE Settle(p, op[p].new)
    BY <1>9, <2>2, SettleAlone DEF Unlock
  <2>3. CASE ~Fail(p) /\ ~Settle(p, op[p].new)
    <3> DEFINE o == [Rest EXCEPT !.step = "guard", !.seen = op[p].seen]
    <3>1. op' = [op EXCEPT ![p] = o] /\ owned' = [owned EXCEPT ![p] = op[p].new]
      BY <1>9, <2>3 DEF Unlock, AfterMutation
    <3>2. o.step = "guard" /\ owned \in [Processes -> Leases]
      BY OwnState DEF Rest
    <3> HIDE DEF o
    <3>3. op'[p].step = "guard"
      BY <1>1, <3>1, <3>2
    <3> QED BY <1>1, <1>9, <3>1, <3>2, <3>3 DEF Alone, Committer, At, Unlock
  <2> QED BY <2>1, <2>2, <2>3
<1>10. CASE Heartbeat(p) \/ Save(p)
  BY <1>10, FailAlone, MutateAlone DEF Heartbeat, Save, files
<1>11. CASE Confirm(p)
  BY <1>11, FailAlone, MutateAlone, GotoAlone DEF Confirm, files
<1>12. CASE Release(p) \/ GiveUp(p) \/ Stop(p)
  BY <1>12, SettleAlone, MutateAlone DEF Release, GiveUp, Stop, files
<1> QED BY <1>2, <1>3, <1>4, <1>5, <1>6, <1>7, <1>8, <1>9, <1>10, <1>11, <1>12 DEF Step

\* The lease of a process that commits is the one on disk.
LEMMA CommitterIsNamed ==
    ASSUME LeaseInv, NEW p \in Processes,
           op[p].step \in {"guard", "check", "replace"}, owned[p].expires > clock
    PROVE  owned[p] \in Lease /\ sidecar = owned[p] /\ Uses(op[p], owned[p], sidecar.id)
<1>1. /\ Shape(op[p], owned[p]) /\ Standing(op[p], owned[p]) /\ op[p] \in Op
      /\ owned[p] \in Leases /\ op[p].goal \in Goals /\ op[p].done \in BOOLEAN
      /\ clock \in Nat
  BY OwnState, RecordFacts
<1>2. op[p].goal = "rest" /\ op[p].done = FALSE /\ owned[p] \in Lease
  BY <1>1 DEF Shape, Goals, Mutations, Leases
<1>3. ~Expired(Latest(op[p], owned[p])) /\ Latest(op[p], owned[p]) = owned[p]
  BY <1>1, <1>2, RecordFacts DEF Expired, Latest
<1> QED BY <1>1, <1>2, <1>3, LeaseFacts DEF Standing, Uses

LEMMA SoleCommitter ==
    ASSUME LeaseInv, Commits, NEW p \in Processes, NEW q \in Processes,
           Committer(p), Committer(q)
    PROVE  p = q
<1>1. /\ op[p].step \in {"guard", "check", "replace"} /\ owned[p].expires > clock
      /\ op[q].step \in {"guard", "check", "replace"} /\ owned[q].expires > clock
  BY DEF Committer, Commits, At
<1>2. /\ sidecar \in Lease /\ Uses(op[p], owned[p], sidecar.id)
      /\ Uses(op[q], owned[q], sidecar.id)
  BY <1>1, CommitterIsNamed
<1> QED BY <1>2, RecordFacts DEF LeaseInv, FreshIds

LEMMA CommitsStep ==
    ASSUME ~StallAtCommit, LeaseInv, Commits, [Next]_vars
    PROVE  Commits'
<1>1. CASE UNCHANGED vars
  BY <1>1 DEF vars, files, Commits, At
<1>2. CASE Tick
  <2>1. UNCHANGED <<target, owned, op>> /\ clock' = clock + 1
    BY <1>2 DEF Tick, files
  <2>2. \A p \in Processes : Committer(p) => owned[p].expires > clock + 1
    BY <1>2 DEF Tick, Committing, Committer
  <2> QED BY <2>1, <2>2 DEF Commits, Committer, At
<1>3. ASSUME NEW p \in Processes, Step(p)
      PROVE  Commits'
  <2>1. op \in [Processes -> Op] /\ op[p] \in Op /\ owned \in [Processes -> Leases]
        /\ clock \in Nat /\ sidecar \in Lease \cup {NoLease, Torn}
        /\ Standing(op[p], owned[p]) /\ Shape(op[p], owned[p])
    BY OwnState
  <2>2. CASE Alone(p) /\ target' = target
    BY <2>2 DEF Alone, Commits, Committer, At
  <2>3. CASE Guard(p) /\ Held(p) /\ Goto(p, "check") /\ UNCHANGED owned
    <3>1. /\ op[p].step = "guard" /\ sidecar \in Lease /\ sidecar.id = owned[p].id
          /\ IsLease(sidecar) /\ owned[p] # NoLease /\ ~Expired(sidecar)
          /\ UNCHANGED <<target, clock, owned>>
      BY <2>1, <2>3, LeaseFacts DEF Guard, Held, Names, Owns, At, files, Goto
    <3>2. op[p].goal = "rest" /\ op[p].done = FALSE
      BY <2>1, <3>1, RecordFacts DEF Shape, Goals, Mutations
    <3>3. sidecar = owned[p] /\ owned[p].expires > clock
      BY <2>1, <3>1, <3>2, RecordFacts DEF Standing, Latest, Expired
    <3>4. op'[p].step = "check" /\ \A q \in Processes \ {p} : op'[q] = op[q]
      BY <2>1, <2>3 DEF Goto, Op
    <3> QED BY <3>1, <3>3, <3>4 DEF Commits, At
  <2>4. CASE Check(p) /\ Goto(p, "replace") /\ UNCHANGED owned
    <3>1. op'[p].step = "replace" /\ op'[p].seen = op[p].seen
          /\ \A q \in Processes \ {p} : op'[q] = op[q]
      BY <2>1, <2>4 DEF Goto, Op
    <3>2. CASE target = op[p].seen
      BY <2>4, <3>1, <3>2 DEF Check, Commits, At, files
    <3>3. CASE target # op[p].seen
      <4>1. Fail(p) /\ clock' = clock /\ target' = target
        BY <2>4, <3>3 DEF Check, files
      <4> QED BY <2>1, <3>1, <4>1, FailAlone DEF Alone, Committer, At
    <3> QED BY <3>2, <3>3
  <2>5. CASE (Guard(p) \/ Check(p)) /\ Fail(p)
    <3>1. clock' = clock /\ target' = target
      BY <2>5 DEF Guard, Check, files
    <3> QED BY <2>2, <2>5, <3>1, FailAlone
  <2>6. CASE Replace(p)
    <3>1. Committer(p) /\ UNCHANGED <<clock, owned>>
      BY <2>6 DEF Replace, Committer
    <3>2. \A q \in Processes \ {p} : ~Committer(q)
      BY <3>1, SoleCommitter
    <3> DEFINE o == [op[p] EXCEPT !.step = "replaced", !.until = target + 1]
    <3>3. op' = [op EXCEPT ![p] = o]
      BY <2>1, <2>6 DEF Replace
    <3>4. o.step = "replaced"
      BY <2>1 DEF Op
    <3> HIDE DEF o
    <3>5. op'[p].step = "replaced" /\ \A q \in Processes \ {p} : op'[q] = op[q]
      BY <2>1, <3>3, <3>4
    <3> QED BY <3>2, <3>5 DEF Commits, Committer, At
  <2> QED BY <1>3, <2>2, <2>3, <2>4, <2>5, <2>6, OtherSteps DEF Guard, Check
<1> QED BY <1>1, <1>2, <1>3 DEF Next

LEMMA InitCommits == Init => Commits
BY DEF Init, Commits, At, Rest

\* Between its last lease check and its rename a process is alone there, unless
\* it is suspended past the end of its lease.
THEOREM OneCommits == ASSUME ~StallAtFence, ~StallAtCommit PROVE Spec => []OneCommitter
<1>1. LeaseInv /\ Commits /\ [Next]_vars => LeaseInv' /\ Commits'
  BY LeaseStep, CommitsStep
<1>2. LeaseInv /\ Commits => OneCommitter
  <2> SUFFICES ASSUME LeaseInv, Commits PROVE OneCommitter
    OBVIOUS
  <2> DEFINE committers == {p \in Processes : At(p, "check") \/ At(p, "replace")}
  <2>1. \A p, q \in committers : p = q
    BY SoleCommitter DEF Committer
  <2> HIDE DEF committers
  <2>2. CASE committers = {}
    BY <2>2, FS_EmptySet DEF OneCommitter, committers
  <2>3. CASE committers # {}
    <3>1. PICK p \in committers : TRUE
      BY <2>3
    <3>2. committers = {p}
      BY <2>1, <3>1
    <3>3. Cardinality(committers) = 1
      BY <3>2, FS_Singleton
    <3> QED BY <3>3 DEF OneCommitter, committers
  <2> QED BY <2>2, <2>3
<1> QED BY <1>1, <1>2, InitLease, InitCommits, PTL DEF Spec

\* A save replaces the content its session knew: no save is overwritten unseen.
THEOREM KnownIsReplaced == ASSUME ~StallAtFence, ~StallAtCommit PROVE Spec => SaveReplacesKnown
<1>1. LeaseInv /\ Commits /\ [Next]_vars => LeaseInv' /\ Commits'
  BY LeaseStep, CommitsStep
<1>2. LeaseInv /\ Commits /\ [Next]_vars =>
        [\A p \in Processes : Replace(p) => target = op[p].seen]_vars
  BY DEF Commits, Replace
<1> QED BY <1>1, <1>2, InitLease, InitCommits, PTL DEF Spec, SaveReplacesKnown
=============================================================================
