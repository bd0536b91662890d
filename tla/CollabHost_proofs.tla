-------------------------- MODULE CollabHost_proofs --------------------------
(***************************************************************************)
(* Proofs about the authoritative host, for all values of its constants:   *)
(* types, the conflict analysis over a pruned history, the window of        *)
(* remembered results, resynchronisation, and the leases; and about the     *)
(* stale batches it still runs: what a command may touch, what is kept of   *)
(* others' work, and the placeholders of a slide whose layout changes.      *)
(***************************************************************************)
EXTENDS CollabHost, StaleBatches, SequenceTheorems, FiniteSetTheorems,
        FunctionTheorems, WellFoundedInduction, TLAPS

(* Induction over the naturals, for a set instead of a predicate, and what   *)
(* it gives about the smallest element of a set and about sums of bytes.     *)

LEMMA NatSetInduction ==
    ASSUME NEW S, 0 \in S, \A n \in Nat : n \in S => n + 1 \in S
    PROVE  Nat \subseteq S
<1> DEFINE R == OpToRel(<, Nat)
<1>1. IsWellFoundedOn(R, Nat)
  BY NatLessThanWellFounded, Zenon
<1>2. \A x, y \in Nat : <<x, y>> \in R <=> x < y
  BY DEF OpToRel
<1>3. SUFFICES ASSUME Nat \ S # {} PROVE FALSE
  OBVIOUS
<1> HIDE DEF R
<1>4. PICK m \in Nat \ S : \A k \in Nat \ S : ~(<<k, m>> \in R)
  BY <1>1, <1>3, WFMin
<1>5. m # 0 /\ m - 1 \in Nat
  BY <1>4
<1>6. m - 1 \in S
  <2>1. m - 1 < m /\ m \in Nat
    BY <1>4, <1>5
  <2>2. <<m - 1, m>> \in R
    BY <1>2, <1>5, <2>1
  <2> QED BY <1>4, <1>5, <2>2
<1> QED BY <1>4, <1>5, <1>6

LEMMA MinProperties ==
    ASSUME NEW S, S \subseteq Nat, S # {}
    PROVE  Min(S) \in S /\ \A y \in S : Min(S) <= y
<1> DEFINE R == OpToRel(<, Nat)
<1>1. IsWellFoundedOn(R, Nat)
  BY NatLessThanWellFounded, Zenon
<1>2. \A x, y \in Nat : <<x, y>> \in R <=> x < y
  BY DEF OpToRel
<1> HIDE DEF R
<1>3. PICK m \in S : \A k \in S : ~(<<k, m>> \in R)
  BY <1>1, WFMin
<1>4. ASSUME NEW k \in S PROVE m <= k
  <2>1. m \in Nat /\ k \in Nat /\ ~(k < m)
    BY <1>2, <1>3
  <2> QED BY <2>1
<1> QED BY <1>3, <1>4 DEF Min

\* A sum by recursion exists.
LEMMA SumExists ==
    ASSUME NEW s, NEW N \in Nat
    PROVE  \E f : f = [n \in 0..N |-> IF n = 0 THEN 0 ELSE f[n - 1] + s[n].request.body.size]
<1> DEFINE Sum(f, k) ==
             f = [n \in 0..k |-> IF n = 0 THEN 0 ELSE f[n - 1] + s[n].request.body.size]
           T == {k \in Nat : \E f : Sum(f, k)}
<1>1. 0 \in T
  <2>1. Sum([n \in 0..0 |-> 0], 0)
    OBVIOUS
  <2> QED BY <2>1
<1>2. ASSUME NEW k \in Nat, k \in T PROVE k + 1 \in T
  <2>1. PICK f : Sum(f, k)
    BY <1>2
  <2> DEFINE g == [n \in 0..(k + 1) |-> IF n = k + 1 THEN f[k] + s[k + 1].request.body.size
                                        ELSE f[n]]
  <2>2. ASSUME NEW n \in 0..(k + 1)
        PROVE  g[n] = IF n = 0 THEN 0 ELSE g[n - 1] + s[n].request.body.size
    <3>1. CASE n = k + 1
      BY <3>1
    <3>2. CASE n # k + 1
      <4>1. n \in 0..k /\ g[n] = f[n]
        BY <3>2
      <4>2. n # 0 => n - 1 \in 0..(k + 1) /\ n - 1 # k + 1
        BY <4>1
      <4> QED BY <2>1, <4>1, <4>2
    <3> QED BY <3>1, <3>2
  <2> HIDE DEF g
  <2>3. g = [n \in 0..(k + 1) |-> g[n]]
    BY DEF g
  <2>4. Sum(g, k + 1)
    BY <2>2, <2>3
  <2> QED BY <2>4
<1> HIDE DEF T
<1>3. N \in T
  BY <1>1, <1>2, NatSetInduction
<1> QED BY <1>3 DEF T

\* The recursion that BytesUpTo states.
LEMMA BytesEquation ==
    ASSUME NEW s, Len(s) \in Nat
    PROVE  /\ BytesUpTo(s)[0] = 0
           /\ \A n \in 1..Len(s) :
                BytesUpTo(s)[n] = BytesUpTo(s)[n - 1] + s[n].request.body.size
<1> DEFINE b == BytesUpTo(s)
           step(f) == [n \in 0..Len(s) |->
                         IF n = 0 THEN 0 ELSE f[n - 1] + s[n].request.body.size]
<1>1. b = CHOOSE f : f = step(f)
  BY DEF BytesUpTo
<1>2. \E f : f = step(f)
  BY SumExists
<1> HIDE DEF b
<1>3. b = step(b)
  BY <1>1, <1>2
<1>4. b[0] = 0
  BY <1>3
<1>5. ASSUME NEW n \in 1..Len(s) PROVE b[n] = b[n - 1] + s[n].request.body.size
  <2>1. n \in 0..Len(s) /\ n # 0
    OBVIOUS
  <2>2. step(b)[n] = b[n - 1] + s[n].request.body.size
    BY <2>1
  <2> HIDE DEF step
  <2> QED BY <1>3, <2>2
<1> QED BY <1>4, <1>5 DEF b

LEMMA SizesAreNat ==
    ASSUME NEW s \in Seq(Transaction), NEW n \in 1..Len(s)
    PROVE  s[n].request.body.size \in Nat
<1>1. s[n] \in Transaction
  BY ElementOfSeq
<1>2. s[n].request.body \in Bodies
  BY <1>1 DEF Transaction, Request
<1>3. s[n].request.body \in Body
  BY <1>2, BodiesAssumption
<1> QED BY <1>3 DEF Body

\* The sums are naturals and grow with the number of transactions.
LEMMA BytesGrow ==
    ASSUME NEW s \in Seq(Transaction), NEW n \in 0..Len(s)
    PROVE  /\ BytesUpTo(s)[n] \in Nat
           /\ \A m \in 0..n : BytesUpTo(s)[m] <= BytesUpTo(s)[n]
<1> DEFINE b == BytesUpTo(s)
           P(k) == /\ b[k] \in Nat
                   /\ \A m \in 0..k : b[m] \in Nat /\ b[m] <= b[k]
           T == {k \in Nat : k <= Len(s) => P(k)}
<1>0. Len(s) \in Nat
  BY LenProperties
<1>1. b[0] = 0 /\ \A k \in 1..Len(s) : b[k] = b[k - 1] + s[k].request.body.size
  BY <1>0, BytesEquation
<1> HIDE DEF b
<1>2. 0 \in T
  BY <1>1
<1>3. ASSUME NEW k \in Nat, k \in T PROVE k + 1 \in T
  <2>1. SUFFICES ASSUME k + 1 <= Len(s) PROVE P(k + 1)
    OBVIOUS
  <2>2. P(k) /\ k + 1 \in 1..Len(s)
    BY <1>0, <1>3, <2>1
  <2>3. s[k + 1].request.body.size \in Nat
    BY <2>2, SizesAreNat
  <2>4. b[k + 1] = b[k] + s[k + 1].request.body.size
    BY <1>1, <2>2
  <2>5. b[k + 1] \in Nat /\ b[k] <= b[k + 1] /\ b[k] \in Nat
    BY <2>2, <2>3, <2>4
  <2>6. ASSUME NEW m \in 0..(k + 1) PROVE b[m] \in Nat /\ b[m] <= b[k + 1]
    <3>1. CASE m = k + 1
      BY <2>5, <3>1
    <3>2. CASE m \in 0..k
      <4>1. b[m] \in Nat /\ b[m] <= b[k]
        BY <2>2, <3>2
      <4> QED BY <2>5, <4>1
    <3> QED BY <3>1, <3>2
  <2> QED BY <2>5, <2>6
<1> HIDE DEF T
<1>4. n \in T
  BY <1>0, <1>2, <1>3, NatSetInduction
<1>5. P(n)
  BY <1>0, <1>4 DEF T
<1> QED BY <1>5 DEF b

\* Counted from the k-th transaction on, the sums are those of a sequence that
\* begins there.
LEMMA BytesFrom ==
    ASSUME NEW s \in Seq(Transaction), NEW t \in Seq(Transaction), NEW k \in Nat,
           k + Len(t) <= Len(s), \A i \in 1..Len(t) : t[i] = s[k + i], NEW n \in 0..Len(t)
    PROVE  BytesUpTo(t)[n] = BytesUpTo(s)[k + n] - BytesUpTo(s)[k]
<1> DEFINE b == BytesUpTo(s)
           c == BytesUpTo(t)
           T == {i \in Nat : i <= Len(t) => c[i] = b[k + i] - b[k]}
<1>0. Len(s) \in Nat /\ Len(t) \in Nat
  BY LenProperties
<1>1. \A i \in 1..Len(s) : b[i] = b[i - 1] + s[i].request.body.size
  BY <1>0, BytesEquation
<1>2. c[0] = 0 /\ \A i \in 1..Len(t) : c[i] = c[i - 1] + t[i].request.body.size
  BY <1>0, BytesEquation
<1>3. \A i \in 0..Len(s) : b[i] \in Nat
  BY BytesGrow
<1> HIDE DEF b, c
<1>4. 0 \in T
  <2>1. k + 0 = k /\ k \in 0..Len(s)
    BY <1>0
  <2>2. b[k] \in Nat
    BY <1>3, <2>1
  <2>3. c[0] = b[k + 0] - b[k]
    BY <1>2, <2>1, <2>2
  <2> QED BY <2>3
<1>5. ASSUME NEW i \in Nat, i \in T PROVE i + 1 \in T
  <2>1. SUFFICES ASSUME i + 1 <= Len(t) PROVE c[i + 1] = b[k + (i + 1)] - b[k]
    OBVIOUS
  <2>2. /\ i + 1 \in 1..Len(t) /\ k + (i + 1) \in 1..Len(s)
        /\ (i + 1) - 1 = i /\ (k + (i + 1)) - 1 = k + i
        /\ k \in 0..Len(s) /\ k + i \in 0..Len(s)
    <3>1. i + 1 \in 1..Len(t) /\ (i + 1) - 1 = i
      BY <1>0, <2>1
    <3>2. k + (i + 1) \in 1..Len(s) /\ (k + (i + 1)) - 1 = k + i
      BY <1>0, <2>1
    <3>3. k \in 0..Len(s) /\ k + i \in 0..Len(s)
      BY <1>0, <2>1
    <3> QED BY <3>1, <3>2, <3>3
  <2>3. c[i + 1] = c[i] + t[i + 1].request.body.size
    BY <1>2, <2>2
  <2>4. b[k + (i + 1)] = b[k + i] + s[k + (i + 1)].request.body.size
    BY <1>1, <2>2
  <2>5. t[i + 1] = s[k + (i + 1)]
    BY <2>2
  <2>6. c[i] = b[k + i] - b[k]
    BY <1>0, <1>5, <2>1
  <2>7. b[k] \in Nat /\ b[k + i] \in Nat /\ t[i + 1].request.body.size \in Nat
    BY <1>3, <2>2, SizesAreNat
  <2>8. b[k + (i + 1)] = b[k + i] + t[i + 1].request.body.size
    BY <2>4, <2>5
  <2> DEFINE x == b[k]
             y == b[k + i]
             z == t[i + 1].request.body.size
  <2>9. c[i + 1] = (y - x) + z /\ b[k + (i + 1)] = y + z
    BY <2>3, <2>6, <2>8
  <2>10. x \in Nat /\ y \in Nat /\ z \in Nat
    BY <2>7
  <2> HIDE DEF x, y, z
  <2>11. (y - x) + z = (y + z) - x
    BY <2>10
  <2>12. c[i + 1] = b[k + (i + 1)] - x
    BY <2>9, <2>11
  <2> QED BY <2>12 DEF x
<1> HIDE DEF T
<1>6. n \in T
  BY <1>0, <1>4, <1>5, NatSetInduction
<1>7. c[n] = b[k + n] - b[k]
  BY <1>0, <1>6 DEF T
<1> QED BY <1>7 DEF b, c

\* A longer rest fits only if the shorter one does.
LEMMA FitsDownward ==
    ASSUME NEW s \in Seq(Transaction), NEW n \in 0..Len(s), NEW m \in 0..n, NEW k \in m..n,
           Fits(s, m, n)
    PROVE  Fits(s, k, n)
<1>1. /\ Len(s) \in Nat /\ m \in Nat /\ k \in Nat /\ n \in Nat /\ m <= k
      /\ k \in 0..Len(s) /\ m \in 0..k /\ m \in 0..Len(s)
  BY LenProperties
<1>2. /\ BytesUpTo(s)[m] <= BytesUpTo(s)[k] /\ BytesUpTo(s)[m] \in Nat
      /\ BytesUpTo(s)[k] \in Nat /\ BytesUpTo(s)[n] \in Nat
  BY <1>1, BytesGrow
<1>3. IdempotencyLimit \in Nat /\ MaxIdempotencyBytes \in Nat
  BY LimitsAssumption
<1> QED BY <1>1, <1>2, <1>3 DEF Fits

\* The eviction removes the fewest oldest entries after which the rest fits.
LEMMA EvictEffect ==
    ASSUME NEW s \in Seq(Transaction)
    PROVE  \E k \in 0..Len(s) :
             /\ Evict(s) = SubSeq(s, k + 1, Len(s))
             /\ \A m \in 0..Len(s) : Fits(s, m, Len(s)) <=> m >= k
<1> DEFINE n == Len(s)
           Fitting == {m \in 0..n : Fits(s, m, n)}
           k == Min(Fitting)
<1>0. n \in Nat
  BY LenProperties
<1>1. Fits(s, n, n)
  <2>1. BytesUpTo(s)[n] \in Nat
    BY <1>0, BytesGrow
  <2> QED BY <1>0, <2>1, LimitsAssumption DEF Fits
<1>2. k \in Fitting /\ \A m \in Fitting : k <= m
  <2>1. Fitting \subseteq Nat /\ n \in Fitting
    BY <1>0, <1>1
  <2> HIDE DEF Fitting
  <2> QED BY <2>1, MinProperties
<1>3. Evict(s) = SubSeq(s, k + 1, n)
  BY DEF Evict
<1> HIDE DEF k
<1>4. k \in 0..n /\ Fits(s, k, n)
  BY <1>2
<1>5. ASSUME NEW m \in 0..n PROVE Fits(s, m, n) <=> m >= k
  <2>1. ASSUME Fits(s, m, n) PROVE m >= k
    <3>1. k <= m
      BY <1>2, <2>1
    <3> QED BY <1>0, <1>4, <3>1
  <2>2. ASSUME m >= k PROVE Fits(s, m, n)
    <3>1. n \in 0..Len(s) /\ k \in 0..n /\ m \in k..n
      BY <1>0, <1>4, <2>2
    <3> QED BY <1>4, <3>1, FitsDownward
  <2> QED BY <2>1, <2>2
<1> QED BY <1>3, <1>4, <1>5

LEMMA EvictType ==
    ASSUME NEW s \in Seq(Transaction)
    PROVE  Evict(s) \in Seq(Transaction)
<1>1. PICK k \in 0..Len(s) : Evict(s) = SubSeq(s, k + 1, Len(s))
  BY EvictEffect
<1>2. Len(s) \in Nat /\ \A i \in (k + 1)..Len(s) : s[i] \in Transaction
  BY LenProperties, ElementOfSeq
<1>3. SubSeq(s, k + 1, Len(s)) \in Seq(Transaction)
  BY <1>2, SubSeqProperties
<1> QED BY <1>1, <1>3
-----------------------------------------------------------------------------
LEMMA SubmissionsType == TypeOK => Submissions \subseteq Request
<1> SUFFICES ASSUME TypeOK, NEW req \in Submissions PROVE req \in Request
  OBVIOUS
<1>1. sessionSequence \in Nat
  BY DEF TypeOK, sessionSequence
<1>2. req.base \in Nat
  BY <1>1 DEF Submissions
<1>3. req.lockTokens \in [TextElements -> Nat \cup {NoLease}]
  <2>1. nextToken \in Nat
    BY DEF TypeOK
  <2>2. (0..(nextToken - 1)) \cup {NoLease} \subseteq Nat \cup {NoLease}
    BY <2>1
  <2> QED BY <2>2 DEF Submissions
<1> QED BY <1>2, <1>3 DEF Submissions, Request

\* Every step but a commit leaves the ordered log and its indexes alone.
LEMMA OrderingFrame ==
    ASSUME [Next]_vars, ~\E after \in Revisions : Commit(after)
    PROVE  UNCHANGED ordering
<1>1. CASE \E req \in Submissions : Prepare(req)
  BY <1>1 DEF Prepare
<1>2. CASE \E c \in Clients, e \in TextElements : AcquireTextLease(c, e)
  BY <1>2 DEF AcquireTextLease
<1>3. CASE \E c \in Clients, e \in TextElements, token \in 0..(nextToken - 1) :
              RenewTextLease(c, e, token) \/ ReleaseTextLease(c, e, token)
  BY <1>3 DEF RenewTextLease, ReleaseTextLease
<1>4. CASE \E c \in Clients : ReleaseTextLeasesForClient(c)
  BY <1>4 DEF ReleaseTextLeasesForClient
<1>5. CASE TransactFails \/ PurgeExpiredTextLeases \/ Tick \/ UNCHANGED vars
  BY <1>5 DEF TransactFails, PurgeExpiredTextLeases, Tick, vars
<1> QED BY <1>1, <1>2, <1>3, <1>4, <1>5 DEF Next

\* Every step but a commit leaves the awaited submission alone, ends the
\* waiting or prepares a submission.
LEMMA InflightFrame ==
    ASSUME [Next]_vars, ~\E after \in Revisions : Commit(after)
    PROVE  \/ UNCHANGED inflight
           \/ inflight' = NoSubmission
           \/ \E req \in Submissions : Prepare(req)
<1>1. CASE \E c \in Clients, e \in TextElements : AcquireTextLease(c, e)
  BY <1>1 DEF AcquireTextLease
<1>2. CASE \E c \in Clients, e \in TextElements, token \in 0..(nextToken - 1) :
              RenewTextLease(c, e, token) \/ ReleaseTextLease(c, e, token)
  BY <1>2 DEF RenewTextLease, ReleaseTextLease
<1>3. CASE \E c \in Clients : ReleaseTextLeasesForClient(c)
  BY <1>3 DEF ReleaseTextLeasesForClient
<1>4. CASE TransactFails \/ PurgeExpiredTextLeases \/ Tick \/ UNCHANGED vars
  BY <1>4 DEF TransactFails, PurgeExpiredTextLeases, Tick, vars
<1> QED BY <1>1, <1>2, <1>3, <1>4 DEF Next
-----------------------------------------------------------------------------
(* Types.                                                                  *)

LEMMA PurgedType ==
    ASSUME TypeOK
    PROVE  Purged \in [TextElements -> Lease \cup {NoLease}]
BY DEF TypeOK, Purged

\* What a commit appends is a transaction, and the tail stays a sequence.
LEMMA CommitType ==
    ASSUME TypeOK, NEW after \in Revisions, Commit(after)
    PROVE  TypeOK'
<1> DEFINE req == inflight.request
           t == [request |-> req, seq |-> sessionSequence + 1, before |-> inflight.before,
                 after |-> after, rebased |-> inflight.rebased]
<1>1. inflight \in Prepared
  BY DEF TypeOK, Commit
<1>2. t \in Transaction
  BY <1>1 DEF Prepared, Transaction, sessionSequence, TypeOK
<1>3. tail' \in Seq(Transaction)
  <2>1. tail' = Pushed(t)
    BY DEF Commit
  <2>2. CASE Len(tail) < TailLimit
    BY <1>2, <2>1, <2>2 DEF Pushed, TypeOK
  <2>3. CASE ~(Len(tail) < TailLimit)
    <3>1. tail # <<>>
      BY <2>3, LimitsAssumption DEF TypeOK
    <3> QED BY <1>2, <2>1, <2>3, <3>1 DEF Pushed, TypeOK
  <2> QED BY <2>2, <2>3
<1>4. lastModifiedSeq' \in [Keys -> Nat]
  <2> DEFINE noted == [k \in Keys |-> IF k \in req.body.writes THEN t.seq
                                       ELSE lastModifiedSeq[k]]
  <2>1. noted \in [Keys -> Nat]
    BY DEF TypeOK, sessionSequence
  <2>2. lastModifiedSeq' = Pruned(noted, Pushed(t))
    BY DEF Commit
  <2> HIDE DEF noted, t
  <2> QED BY <2>1, <2>2 DEF Pruned
<1>5. idempotency' \in Seq(Transaction)
  <2>1. Append(idempotency, t) \in Seq(Transaction)
    BY <1>2, AppendProperties DEF TypeOK
  <2>2. idempotency' = Evict(Append(idempotency, t))
    BY DEF Commit
  <2> HIDE DEF t
  <2> QED BY <2>1, <2>2, EvictType
<1>6. history' \in Seq(Transaction)
  BY <1>2 DEF Commit, TypeOK
<1>7. textLeases' \in [TextElements -> Lease \cup {NoLease}]
  BY DEF Commit, ValidTextLeases, TypeOK
<1> QED
  BY <1>3, <1>4, <1>5, <1>6, <1>7 DEF Commit, TypeOK

LEMMA TypeStep == TypeOK /\ [Next]_vars => TypeOK'
<1> SUFFICES ASSUME TypeOK, [Next]_vars PROVE TypeOK'
  OBVIOUS
<1> USE PurgedType
<1>1. ASSUME NEW req \in Request, Prepare(req) PROVE TypeOK'
  BY <1>1 DEF Prepare, TypeOK, ordering, Prepared
<1>2. ASSUME NEW after \in Revisions, Commit(after) PROVE TypeOK'
  BY <1>2, CommitType
<1>3. CASE TransactFails
  BY <1>3 DEF TransactFails, TypeOK, ordering
<1>4. ASSUME NEW c \in Clients, NEW e \in TextElements, AcquireTextLease(c, e)
      PROVE  TypeOK'
  <2> DEFINE new == [client |-> c,
                     token |-> IF Purged[e] = NoLease THEN nextToken ELSE Purged[e].token,
                     expiresAt |-> clock + TextLeaseTtl]
  <2>1. new \in Lease
    BY LimitsAssumption DEF Lease, TypeOK
  <2>2. textLeases' = [Purged EXCEPT ![e] = new]
    BY <1>4 DEF AcquireTextLease
  <2>3. nextToken' \in Nat
    BY <1>4 DEF AcquireTextLease, TypeOK
  <2> HIDE DEF new
  <2> QED BY <1>4, <2>1, <2>2, <2>3 DEF AcquireTextLease, TypeOK, ordering
<1>5. ASSUME NEW c \in Clients, NEW e \in TextElements, NEW token,
             RenewTextLease(c, e, token)
      PROVE  TypeOK'
  <2>0. Purged[e] # NoLease
    BY <1>5 DEF RenewTextLease
  <2>1. Purged[e] \in Lease
    BY <2>0
  <2>2. [Purged[e] EXCEPT !.expiresAt = clock + TextLeaseTtl] \in Lease
    <3>1. clock + TextLeaseTtl \in Nat
      BY LimitsAssumption DEF TypeOK
    <3> QED BY <2>1, <3>1 DEF Lease
  <2>3. textLeases' = [Purged EXCEPT ![e] =
                         [Purged[e] EXCEPT !.expiresAt = clock + TextLeaseTtl]]
    BY <1>5 DEF RenewTextLease
  <2> QED BY <1>5, <2>2, <2>3 DEF RenewTextLease, TypeOK, ordering
<1>6. ASSUME NEW c \in Clients, NEW e \in TextElements, NEW token,
             ReleaseTextLease(c, e, token)
      PROVE  TypeOK'
  BY <1>6 DEF ReleaseTextLease, TypeOK, ordering
<1>7. ASSUME NEW c \in Clients, ReleaseTextLeasesForClient(c) PROVE TypeOK'
  BY <1>7 DEF ReleaseTextLeasesForClient, TypeOK, ordering
<1>8. CASE PurgeExpiredTextLeases
  BY <1>8 DEF PurgeExpiredTextLeases, TypeOK, ordering
<1>9. CASE Tick
  BY <1>9 DEF Tick, TypeOK, ordering
<1>10. CASE UNCHANGED vars
  BY <1>10 DEF vars, ordering, TypeOK
<1> QED
  BY <1>1, <1>2, <1>3, <1>4, <1>5, <1>6, <1>7, <1>8, <1>9, <1>10, SubmissionsType DEF Next

\* The variables of the host keep their types.
THEOREM Typing == Spec => []TypeOK
<1>1. Init => TypeOK
  BY RevisionsAssumption DEF Init, TypeOK
<1> QED BY <1>1, TypeStep, PTL DEF Spec
-----------------------------------------------------------------------------
(* The conflict analysis.  The history is numbered, the tail is its last    *)
(* part, and lastModifiedSeq holds the last writer of every key written     *)
(* since the oldest accepted base; what was checked when a batch was        *)
(* prepared still holds when it commits because only a commit changes them. *)

Floor == Len(history) - Len(tail)

Numbered == \A i \in DOMAIN history : history[i].seq = i

TailIsSuffix ==
    /\ Len(tail) <= Len(history)
    /\ history # <<>> => tail # <<>>
    /\ \A i \in DOMAIN tail : tail[i] = history[Floor + i]

\* No write since the oldest accepted base is missing from the index.
IndexComplete ==
    \A j \in DOMAIN history : j > Floor =>
       \A k \in history[j].request.body.writes : lastModifiedSeq[k] >= j

\* What the index holds was written then.
IndexSound ==
    \A k \in Keys : lastModifiedSeq[k] # 0 =>
       /\ lastModifiedSeq[k] \in DOMAIN history
       /\ k \in history[lastModifiedSeq[k]].request.body.writes

AwaitedHasNoConflict ==
    inflight # NoSubmission =>
       \A j \in DOMAIN history : inflight.request.base < j =>
          Touched(inflight.request.body) \cap history[j].request.body.writes = {}

OrderInv ==
    /\ TypeOK
    /\ Numbered
    /\ TailIsSuffix
    /\ IndexComplete
    /\ IndexSound
    /\ AwaitedHasNoConflict
    /\ NoLostUpdate

LEMMA HistoryElements ==
    ASSUME TypeOK, NEW i \in DOMAIN history
    PROVE  /\ history[i] \in Transaction
           /\ history[i].request \in Request
           /\ history[i].request.body \in Bodies
           /\ history[i].request.body.writes \subseteq Keys
           /\ i \in Nat /\ i <= Len(history)
<1>1. history[i] \in Transaction /\ i \in 1..Len(history)
  BY DEF TypeOK
<1>2. history[i].request \in Request
  BY <1>1 DEF Transaction
<1>3. history[i].request.body \in Bodies
  BY <1>2 DEF Request
<1>4. history[i].request.body \in Body
  BY <1>3, BodiesAssumption
<1> QED BY <1>1, <1>2, <1>3, <1>4 DEF Body

\* The oldest base accepted is the sequence before the retained tail.
LEMMA MinimumIsFloor ==
    ASSUME TypeOK, Numbered, TailIsSuffix
    PROVE  /\ MinimumAcceptedBase(tail) = Floor
           /\ Floor \in Nat
<1>1. Len(tail) \in Nat /\ Len(history) \in Nat /\ Len(tail) <= Len(history)
  BY DEF TypeOK, TailIsSuffix
<1>2. CASE tail = <<>>
  <2>1. history = <<>>
    BY <1>2 DEF TailIsSuffix
  <2> QED BY <1>2, <2>1 DEF MinimumAcceptedBase, sessionSequence, Floor
<1>3. CASE tail # <<>>
  <2>1. 1 \in DOMAIN tail /\ Head(tail) = tail[1]
    BY <1>3 DEF TypeOK
  <2>2. Head(tail) = history[Floor + 1]
    BY <2>1 DEF TailIsSuffix
  <2>3. Len(tail) >= 1
    BY <1>1, <1>3 DEF TypeOK
  <2>4. Floor + 1 \in 1..Len(history)
    BY <1>1, <2>3 DEF Floor
  <2>5. Floor + 1 \in DOMAIN history
    BY <2>4 DEF TypeOK
  <2>6. Head(tail).seq = Floor + 1
    BY <2>2, <2>5 DEF Numbered
  <2> QED BY <1>1, <1>3, <2>6 DEF MinimumAcceptedBase, Floor
<1> QED BY <1>2, <1>3

\* What assertCanApply accepts has no conflict after its base, in the whole
\* history.
LEMMA AcceptedHasNoConflict ==
    ASSUME OrderInv, NEW req \in Request, CanApply(req), req.base <= sessionSequence,
           NEW j \in DOMAIN history, req.base < j
    PROVE  Touched(req.body) \cap history[j].request.body.writes = {}
<1>1. j \in Nat /\ j <= sessionSequence /\ req.base \in Nat
  BY HistoryElements DEF OrderInv, sessionSequence, Request
<1>2. req.base # sessionSequence
  BY <1>1 DEF TypeOK, OrderInv, sessionSequence
<1>3. req.base >= Floor /\ Conflicts(req) = {}
  BY <1>2, MinimumIsFloor DEF CanApply, OrderInv
<1>4. j > Floor
  BY <1>1, <1>3, MinimumIsFloor DEF OrderInv
<1>5. ASSUME NEW k \in Touched(req.body), k \in history[j].request.body.writes
      PROVE  FALSE
  <2>1. k \in Keys
    BY <1>5, HistoryElements DEF OrderInv
  <2>2. lastModifiedSeq[k] >= j /\ lastModifiedSeq[k] \in Nat
    BY <1>4, <1>5, <2>1 DEF IndexComplete, OrderInv, TypeOK
  <2>3. lastModifiedSeq[k] > req.base
    BY <1>1, <2>2
  <2> QED BY <1>3, <1>5, <2>3 DEF Conflicts
<1> QED BY <1>5

\* The effect of a commit on the log, its tail and the index.
LEMMA CommitEffect ==
    ASSUME OrderInv, NEW after \in Revisions, Commit(after)
    PROVE  /\ Len(history') = Len(history) + 1
           /\ DOMAIN history' = DOMAIN history \cup {Len(history) + 1}
           /\ \A i \in DOMAIN history : history'[i] = history[i]
           /\ history'[Len(history) + 1].request = inflight.request
           /\ history'[Len(history) + 1].seq = Len(history) + 1
           /\ TailIsSuffix'
           /\ Floor' >= Floor
           /\ Floor' \in Nat /\ Floor' <= Len(history)
           /\ \A k \in Keys :
                lastModifiedSeq'[k] =
                  LET w == IF k \in inflight.request.body.writes
                           THEN Len(history) + 1 ELSE lastModifiedSeq[k]
                  IN  IF w <= Floor' THEN 0 ELSE w
<1> DEFINE n == Len(history)
           t == [request |-> inflight.request, seq |-> n + 1, before |-> inflight.before,
                 after |-> after, rebased |-> inflight.rebased]
<1>1. history \in Seq(Transaction) /\ tail \in Seq(Transaction) /\ n \in Nat
  BY DEF OrderInv, TypeOK
<1>2. history' = Append(history, t) /\ tail' = Pushed(t)
  BY DEF Commit, sessionSequence
<1>3. t \in Transaction
  <2>1. inflight \in Prepared
    BY DEF OrderInv, TypeOK, Commit
  <2> QED BY <1>1, <2>1 DEF Prepared, Transaction
<1> HIDE DEF t
<1>4. t.seq = n + 1 /\ t.request = inflight.request
  BY DEF t
<1>5. /\ Len(history') = n + 1
      /\ DOMAIN history' = DOMAIN history \cup {n + 1}
      /\ \A i \in DOMAIN history : history'[i] = history[i]
      /\ history'[n + 1] = t
  BY <1>1, <1>2, <1>3
<1>6. /\ Len(tail) \in Nat /\ Len(tail) <= n
      /\ \A i \in 1..Len(tail) : tail[i] = history[n - Len(tail) + i]
  BY <1>1 DEF OrderInv, TailIsSuffix, Floor
<1>7. ASSUME Len(tail) < TailLimit
      PROVE  TailIsSuffix' /\ Floor' = Floor /\ Floor \in Nat /\ Floor <= n
  <2>1. tail' = Append(tail, t)
    BY <1>2, <1>7 DEF Pushed
  <2>2. /\ Len(tail') = Len(tail) + 1
        /\ \A i \in 1..Len(tail) : tail'[i] = tail[i]
        /\ tail'[Len(tail) + 1] = t
    BY <1>1, <1>3, <2>1
  <2>3. Floor' = Floor /\ Floor \in Nat /\ Floor <= n
    BY <1>5, <1>6, <2>2 DEF Floor
  <2>4. ASSUME NEW i \in DOMAIN tail' PROVE tail'[i] = history'[Floor' + i]
    <3>1. i \in 1..(Len(tail) + 1)
      BY <1>1, <1>3, <2>1
    <3>2. CASE i = Len(tail) + 1
      BY <1>5, <1>6, <2>2, <2>3, <3>2 DEF Floor
    <3>3. CASE i \in 1..Len(tail)
      <4>1. n - Len(tail) + i \in 1..n
        BY <1>6, <3>3
      <4>2. n - Len(tail) + i \in DOMAIN history
        BY <1>1, <4>1
      <4> QED BY <1>5, <1>6, <2>2, <2>3, <3>3, <4>2 DEF Floor
    <3> QED BY <3>1, <3>2, <3>3, <1>6
  <2>5. tail' # <<>>
    BY <1>1, <1>3, <2>1
  <2>6. TailIsSuffix'
    BY <1>5, <1>6, <2>2, <2>4, <2>5 DEF TailIsSuffix
  <2> QED BY <2>3, <2>6
<1>8. ASSUME ~(Len(tail) < TailLimit)
      PROVE  TailIsSuffix' /\ Floor' = Floor + 1 /\ Floor \in Nat /\ Floor' <= n
  <2>1. tail' = Append(Tail(tail), t)
    BY <1>2, <1>8 DEF Pushed
  <2>2. Len(tail) >= 1
    BY <1>6, <1>8, LimitsAssumption
  <2>3. /\ Tail(tail) \in Seq(Transaction)
        /\ Len(Tail(tail)) = Len(tail) - 1
        /\ \A i \in 1..(Len(tail) - 1) : Tail(tail)[i] = tail[i + 1]
    BY <1>1, <2>2
  <2>4. /\ Len(tail') = Len(tail)
        /\ \A i \in 1..(Len(tail) - 1) : tail'[i] = tail[i + 1]
        /\ tail'[Len(tail)] = t
        /\ DOMAIN tail' = 1..Len(tail)
    BY <1>1, <1>3, <1>6, <2>1, <2>2, <2>3
  <2>5. Floor' = Floor + 1 /\ Floor \in Nat /\ Floor' <= n
    BY <1>5, <1>6, <2>2, <2>4 DEF Floor
  <2>6. ASSUME NEW i \in DOMAIN tail' PROVE tail'[i] = history'[Floor' + i]
    <3>1. CASE i = Len(tail)
      BY <1>5, <1>6, <2>4, <2>5, <3>1 DEF Floor
    <3>2. CASE i \in 1..(Len(tail) - 1)
      <4>1. i + 1 \in 1..Len(tail) /\ n - Len(tail) + (i + 1) \in 1..n
        BY <1>6, <2>2, <3>2
      <4>2. n - Len(tail) + (i + 1) \in DOMAIN history
        BY <1>1, <4>1
      <4>3. tail'[i] = history[n - Len(tail) + (i + 1)]
        BY <1>6, <2>4, <3>2, <4>1
      <4>4. Floor' + i = n - Len(tail) + (i + 1)
        BY <1>6, <2>5, <3>2 DEF Floor
      <4> QED BY <1>5, <4>2, <4>3, <4>4
    <3> QED BY <1>6, <2>2, <2>4, <3>1, <3>2
  <2>7. tail' # <<>>
    BY <1>1, <1>3, <2>1, <2>3
  <2>8. TailIsSuffix'
    BY <1>5, <1>6, <2>4, <2>6, <2>7 DEF TailIsSuffix
  <2> QED BY <2>5, <2>8
<1>9. TailIsSuffix' /\ Floor' >= Floor /\ Floor' \in Nat /\ Floor' <= n
  <2>1. CASE Len(tail) < TailLimit
    BY <1>7, <2>1
  <2>2. CASE ~(Len(tail) < TailLimit)
    BY <1>8, <2>2
  <2> QED BY <2>1, <2>2
<1>a. n \in Nat /\ Floor' \in Nat /\ Floor' <= n
  BY <1>1, <1>9
<1>10. Head(Pushed(t)).seq - 1 = Floor'
  <2>1. tail' # <<>> /\ tail' \in Seq(Transaction)
    BY <1>5, <1>9, CommitType DEF TailIsSuffix, OrderInv, TypeOK
  <2>2. 1 \in DOMAIN tail' /\ Head(tail') = tail'[1]
    BY <2>1
  <2>3. Head(tail') = history'[Floor' + 1]
    BY <1>9, <2>2 DEF TailIsSuffix
  <2>4. history'[Floor' + 1].seq = Floor' + 1
    <3>1. CASE Floor' = n
      BY <1>4, <1>5, <3>1
    <3>2. CASE Floor' # n
      <4> DEFINE f == Floor'
      <4>1. f \in Nat /\ n \in Nat /\ f <= n /\ f # n
        BY <1>a, <3>2
      <4> HIDE DEF f, n
      <4>2. f + 1 \in 1..n
        BY <4>1
      <4>3. f + 1 \in DOMAIN history
        BY <1>1, <4>2 DEF n
      <4> USE DEF f, n
      <4> QED BY <1>5, <4>3 DEF OrderInv, Numbered
    <3> QED BY <3>1, <3>2
  <2>5. Head(Pushed(t)).seq = Floor' + 1
    BY <1>2, <2>3, <2>4
  <2> QED BY <1>a, <2>5
<1>11. ASSUME NEW k \in Keys
       PROVE  lastModifiedSeq'[k] =
                LET w == IF k \in inflight.request.body.writes
                         THEN n + 1 ELSE lastModifiedSeq[k]
                IN  IF w <= Floor' THEN 0 ELSE w
  <2> DEFINE noted == [x \in Keys |-> IF x \in inflight.request.body.writes
                                        THEN n + 1 ELSE lastModifiedSeq[x]]
  <2>1. lastModifiedSeq' = Pruned(noted, Pushed(t))
    BY <1>4 DEF Commit, sessionSequence, t
  <2>2. Floor' = Head(Pushed(t)).seq - 1
    BY <1>10
  <2> QED BY <2>1, <2>2 DEF Pruned
<1> QED BY <1>4, <1>5, <1>9, <1>11

LEMMA CommitKeepsOrder ==
    ASSUME OrderInv, NEW after \in Revisions, Commit(after)
    PROVE  OrderInv'
<1> DEFINE n == Len(history)
           req == inflight.request
<1>1. TypeOK'
  BY CommitType DEF OrderInv
<1>2. /\ n \in Nat
      /\ req \in Request
      /\ \A i \in DOMAIN history : i \in 1..n
      /\ inflight # NoSubmission
  BY DEF OrderInv, TypeOK, Commit, Prepared
<1>3. ASSUME NEW i \in DOMAIN history'
      PROVE  \/ i \in DOMAIN history /\ history'[i] = history[i]
             \/ /\ i = n + 1
                /\ history'[i].request = req
                /\ history'[i].seq = i
  BY CommitEffect
<1>4. Numbered'
  BY <1>3 DEF OrderInv, Numbered
<1>5. TailIsSuffix'
  BY CommitEffect
<1>6. IndexComplete'
  <2> SUFFICES ASSUME NEW j \in DOMAIN history', j > Floor',
                      NEW k \in history'[j].request.body.writes
               PROVE  lastModifiedSeq'[k] >= j
    BY DEF IndexComplete
  <2>1. k \in Keys
    <3>1. history'[j] \in Transaction
      BY <1>1 DEF TypeOK
    <3>2. history'[j].request.body \in Body
      BY <3>1, BodiesAssumption DEF Transaction, Request
    <3> QED BY <3>2 DEF Body
  <2>2. /\ Floor' \in Nat /\ Floor \in Nat /\ Floor' >= Floor
        /\ Floor' <= n
        /\ lastModifiedSeq[k] \in Nat
        /\ lastModifiedSeq'[k] =
              LET w == IF k \in req.body.writes THEN n + 1 ELSE lastModifiedSeq[k]
              IN  IF w <= Floor' THEN 0 ELSE w
    BY <2>1, CommitEffect, MinimumIsFloor DEF OrderInv, TypeOK
  <2>3. CASE j = n + 1 /\ history'[j].request = req
    BY <1>2, <2>2, <2>3
  <2>4. CASE j \in DOMAIN history /\ history'[j] = history[j]
    <3>1. j \in Nat /\ j <= n
      BY <1>2, <2>4
    <3>2. lastModifiedSeq[k] >= j
      BY <2>2, <2>4, <3>1 DEF OrderInv, IndexComplete
    <3> QED BY <1>2, <2>2, <3>1, <3>2
  <2> QED BY <1>3, <2>3, <2>4
<1>7. IndexSound'
  <2> SUFFICES ASSUME NEW k \in Keys, lastModifiedSeq'[k] # 0
               PROVE  /\ lastModifiedSeq'[k] \in DOMAIN history'
                      /\ k \in history'[lastModifiedSeq'[k]].request.body.writes
    BY DEF IndexSound
  <2>1. CASE k \in req.body.writes
    BY <2>1, CommitEffect
  <2>2. CASE k \notin req.body.writes
    <3>1. lastModifiedSeq'[k] = lastModifiedSeq[k] /\ lastModifiedSeq[k] # 0
      BY <2>2, CommitEffect
    <3>2. /\ lastModifiedSeq[k] \in DOMAIN history
          /\ k \in history[lastModifiedSeq[k]].request.body.writes
      BY <3>1 DEF OrderInv, IndexSound
    <3> QED BY <3>1, <3>2, CommitEffect
  <2> QED BY <2>1, <2>2
<1>8. AwaitedHasNoConflict'
  BY DEF AwaitedHasNoConflict, Commit
<1>9. NoLostUpdate'
  <2> SUFFICES ASSUME NEW i \in DOMAIN history', NEW j \in DOMAIN history',
                      history'[i].request.base < j, j < i
               PROVE  Touched(history'[i].request.body)
                        \cap history'[j].request.body.writes = {}
    BY DEF NoLostUpdate, Touched
  <2>1. j \in DOMAIN history /\ history'[j] = history[j]
    <3>1. i <= n + 1 /\ i \in Nat
      BY <1>2, <1>3
    <3>2. j # n + 1
      BY <1>2, <3>1
    <3> QED BY <1>3, <3>2
  <2>2. CASE i \in DOMAIN history /\ history'[i] = history[i]
    BY <2>1, <2>2 DEF OrderInv, NoLostUpdate
  <2>3. CASE i = n + 1 /\ history'[i].request = req
    BY <1>2, <2>1, <2>3 DEF OrderInv, AwaitedHasNoConflict
  <2> QED BY <1>3, <2>2, <2>3
<1> QED BY <1>1, <1>4, <1>5, <1>6, <1>7, <1>8, <1>9 DEF OrderInv

LEMMA OrderStep == OrderInv /\ [Next]_vars => OrderInv'
<1> SUFFICES ASSUME OrderInv, [Next]_vars PROVE OrderInv'
  OBVIOUS
<1>1. TypeOK'
  BY TypeStep DEF OrderInv
<1>2. CASE \E after \in Revisions : Commit(after)
  BY <1>2, CommitKeepsOrder
<1>3. CASE ~\E after \in Revisions : Commit(after)
  <2>1. UNCHANGED ordering
    BY <1>3, OrderingFrame
  <2>2. Numbered' /\ TailIsSuffix' /\ IndexComplete' /\ IndexSound' /\ NoLostUpdate'
    BY <2>1 DEF ordering, OrderInv, Numbered, TailIsSuffix, Floor, IndexComplete,
                IndexSound, NoLostUpdate
  <2>3. AwaitedHasNoConflict'
    <3>1. ASSUME NEW req \in Submissions, Prepare(req) PROVE AwaitedHasNoConflict'
      <4>1. req \in Request
        BY SubmissionsType DEF OrderInv
      <4>2. /\ CanApply(req) /\ req.base <= sessionSequence
            /\ inflight'.request = req /\ history' = history
        BY <3>1, <2>1 DEF Prepare, ordering
      <4> QED BY <4>1, <4>2, AcceptedHasNoConflict DEF AwaitedHasNoConflict
    <3>2. CASE UNCHANGED inflight
      BY <2>1, <3>2 DEF ordering, OrderInv, AwaitedHasNoConflict
    <3>3. CASE inflight' = NoSubmission
      BY <3>3 DEF AwaitedHasNoConflict
    <3> QED BY <1>3, <3>1, <3>2, <3>3, InflightFrame
  <2> QED BY <1>1, <2>2, <2>3 DEF OrderInv
<1> QED BY <1>2, <1>3

LEMMA InitialOrder == Init => OrderInv
<1> SUFFICES ASSUME Init PROVE OrderInv
  OBVIOUS
<1>1. TypeOK
  BY RevisionsAssumption DEF Init, TypeOK
<1>2. history = <<>> /\ tail = <<>> /\ inflight = NoSubmission
      /\ lastModifiedSeq = [k \in Keys |-> 0]
  BY DEF Init
<1>3. DOMAIN history = {} /\ DOMAIN tail = {}
  BY <1>2
<1> QED
  BY <1>1, <1>2, <1>3 DEF OrderInv, Numbered, TailIsSuffix, IndexComplete,
     IndexSound, AwaitedHasNoConflict, NoLostUpdate

LEMMA OrderInductive == Spec => []OrderInv
BY InitialOrder, OrderStep, PTL DEF Spec

\* No transaction of the session was ordered over an update its author had not
\* seen, whatever the batches, the history retained and the retries: the
\* conflict check of assertCanApply against the pruned index is as good as one
\* against the whole history, and it still holds once the journal has answered.
THEOREM Serializability == Spec => []NoLostUpdate
<1>1. OrderInv => NoLostUpdate
  BY DEF OrderInv
<1> QED BY <1>1, OrderInductive, PTL

LEMMA IndexIsExact == OrderInv => ConflictIndexExact
<1> SUFFICES ASSUME OrderInv, NEW n \in MinimumAcceptedBase(tail)..sessionSequence
             PROVE  {k \in Keys : lastModifiedSeq[k] > n} = WrittenAfter(n)
  BY DEF ConflictIndexExact
<1>1. /\ Floor \in Nat /\ Len(history) \in Nat /\ n \in Int
      /\ n >= Floor /\ n <= Len(history)
      /\ \A i \in DOMAIN history : i \in 1..Len(history)
      /\ \A i \in 1..Len(history) : i \in DOMAIN history
  BY MinimumIsFloor DEF OrderInv, TypeOK, sessionSequence
<1>2. ASSUME NEW k \in Keys, lastModifiedSeq[k] > n PROVE k \in WrittenAfter(n)
  <2>1. lastModifiedSeq[k] \in Nat /\ lastModifiedSeq[k] # 0
    BY <1>1, <1>2 DEF OrderInv, TypeOK
  <2>2. /\ lastModifiedSeq[k] \in DOMAIN history
        /\ k \in history[lastModifiedSeq[k]].request.body.writes
    BY <2>1 DEF OrderInv, IndexSound
  <2>3. lastModifiedSeq[k] \in (n + 1)..sessionSequence
    BY <1>1, <1>2, <2>1, <2>2 DEF sessionSequence
  <2> QED BY <2>2, <2>3 DEF WrittenAfter
<1>3. ASSUME NEW k \in WrittenAfter(n) PROVE k \in Keys /\ lastModifiedSeq[k] > n
  <2>1. PICK i \in (n + 1)..sessionSequence : k \in history[i].request.body.writes
    BY DEF WrittenAfter
  <2>2. i \in DOMAIN history /\ i > n /\ i > Floor /\ i \in Nat
    BY <1>1 DEF sessionSequence
  <2>3. k \in Keys
    BY <2>1, <2>2, HistoryElements DEF OrderInv
  <2>4. lastModifiedSeq[k] >= i /\ lastModifiedSeq[k] \in Nat
    BY <2>1, <2>2, <2>3 DEF OrderInv, IndexComplete, TypeOK
  <2> QED BY <1>1, <2>2, <2>3, <2>4
<1> QED BY <1>2, <1>3

\* For every base the host still accepts, the index it prunes after each commit
\* reports exactly the keys written since that base: pruning loses no conflict
\* and keeps no false one.
THEOREM IndexExactness == Spec => []ConflictIndexExact
BY OrderInductive, IndexIsExact, PTL
-----------------------------------------------------------------------------
(* The idempotency window is a suffix of the history, and the longest that   *)
(* fits: a suffix that did not fit does not fit with one more transaction,   *)
(* so the eviction never has to take anything back.  An awaited submission   *)
(* was not remembered when it was prepared, and nothing is remembered but by *)
(* a commit, which ends the waiting.                                         *)

AwaitedIsNew == inflight # NoSubmission => ~Remembered(inflight.request)

WindowInv ==
    /\ TypeOK
    /\ IdempotencyIsRecentWindow
    /\ AtMostOnce
    /\ AwaitedIsNew

LEMMA CommitAppends ==
    ASSUME TypeOK, NEW after \in Revisions, Commit(after)
    PROVE  \E t \in Transaction :
             /\ history' = Append(history, t)
             /\ tail' = Pushed(t)
             /\ idempotency' = Evict(Append(idempotency, t))
             /\ t.request = inflight.request /\ t.seq = Len(history) + 1
             /\ t.before = inflight.before /\ t.after = after
<1> DEFINE t == [request |-> inflight.request, seq |-> sessionSequence + 1,
                 before |-> inflight.before, after |-> after, rebased |-> inflight.rebased]
<1>1. inflight \in Prepared
  BY DEF TypeOK, Commit
<1>2. t \in Transaction
  BY <1>1 DEF Prepared, Transaction, sessionSequence, TypeOK
<1>3. history' = Append(history, t) /\ tail' = Pushed(t)
      /\ idempotency' = Evict(Append(idempotency, t))
  BY DEF Commit
<1>4. /\ t.request = inflight.request /\ t.seq = Len(history) + 1
      /\ t.before = inflight.before /\ t.after = after
  BY DEF sessionSequence
<1> HIDE DEF t
<1> QED BY <1>2, <1>3, <1>4

\* Where t is the rest of s after its first k transactions, so are their rests.
LEMMA SameRest ==
    ASSUME NEW s \in Seq(Transaction), NEW t \in Seq(Transaction), NEW k \in Nat,
           k + Len(t) = Len(s), \A i \in 1..Len(t) : t[i] = s[k + i], NEW j \in 0..Len(t)
    PROVE  SubSeq(t, j + 1, Len(t)) = SubSeq(s, (k + j) + 1, Len(s))
<1> DEFINE p == SubSeq(t, j + 1, Len(t))
           q == SubSeq(s, (k + j) + 1, Len(s))
<1>0. Len(s) \in Nat /\ Len(t) \in Nat /\ j \in Nat
  BY LenProperties
<1>1. /\ \A i \in (j + 1)..Len(t) : t[i] \in Transaction
      /\ \A i \in ((k + j) + 1)..Len(s) : s[i] \in Transaction
  BY <1>0, ElementOfSeq
<1>2. /\ p \in Seq(Transaction) /\ Len(p) = Len(t) - j
      /\ \A i \in 1..(Len(t) - j) : p[i] = t[j + i]
  <2>1. /\ p \in Seq(Transaction)
        /\ Len(p) = IF j + 1 <= Len(t) THEN Len(t) - (j + 1) + 1 ELSE 0
        /\ \A i \in 1..(Len(t) - (j + 1) + 1) : p[i] = t[(j + 1) + i - 1]
    BY <1>0, <1>1, SubSeqProperties
  <2> HIDE DEF p
  <2>2. Len(t) - (j + 1) + 1 = Len(t) - j
    BY <1>0
  <2>3. ASSUME NEW i \in 1..(Len(t) - j) PROVE p[i] = t[j + i]
    <3>1. (j + 1) + i - 1 = j + i
      BY <1>0
    <3>2. p[i] = t[(j + 1) + i - 1]
      BY <2>1, <2>2
    <3> QED BY <3>1, <3>2
  <2>4. Len(p) = Len(t) - j
    BY <1>0, <2>1
  <2> QED BY <2>1, <2>3, <2>4
<1>3. /\ q \in Seq(Transaction) /\ Len(q) = Len(t) - j
      /\ \A i \in 1..(Len(t) - j) : q[i] = s[k + (j + i)]
  <2>1. /\ q \in Seq(Transaction)
        /\ Len(q) = IF (k + j) + 1 <= Len(s) THEN Len(s) - ((k + j) + 1) + 1 ELSE 0
        /\ \A i \in 1..(Len(s) - ((k + j) + 1) + 1) : q[i] = s[((k + j) + 1) + i - 1]
    BY <1>0, <1>1, SubSeqProperties
  <2> HIDE DEF q
  <2>2. Len(s) - ((k + j) + 1) + 1 = Len(t) - j
    BY <1>0
  <2>3. ASSUME NEW i \in 1..(Len(t) - j) PROVE q[i] = s[k + (j + i)]
    <3>1. ((k + j) + 1) + i - 1 = k + (j + i)
      BY <1>0
    <3>2. q[i] = s[((k + j) + 1) + i - 1]
      BY <2>1, <2>2
    <3> QED BY <3>1, <3>2
  <2>4. Len(q) = Len(t) - j
    BY <1>0, <2>1
  <2> QED BY <2>1, <2>3, <2>4
<1> HIDE DEF p, q
<1>4. \A i \in 1..(Len(t) - j) : p[i] = q[i]
  <2> SUFFICES ASSUME NEW i \in 1..(Len(t) - j) PROVE p[i] = q[i]
    OBVIOUS
  <2>1. j + i \in 1..Len(t)
    BY <1>0
  <2> QED BY <1>2, <1>3, <2>1
<1>5. p = q
  BY <1>2, <1>3, <1>4, SeqEqual
<1> QED BY <1>5 DEF p, q

LEMMA CommitKeepsWindow ==
    ASSUME WindowInv, NEW after \in Revisions, Commit(after)
    PROVE  WindowInv'
<1> DEFINE n == Len(history)
<1>1. /\ TypeOK /\ history \in Seq(Transaction) /\ idempotency \in Seq(Transaction)
      /\ n \in Nat /\ sessionSequence = n /\ DOMAIN history = 1..n
  BY LenProperties DEF WindowInv, TypeOK, sessionSequence
<1>2. TypeOK'
  BY <1>1, CommitType
<1>3. PICK t \in Transaction :
        /\ history' = Append(history, t)
        /\ idempotency' = Evict(Append(idempotency, t))
        /\ t.request = inflight.request
  BY <1>1, CommitAppends
<1>4. /\ history' \in Seq(Transaction) /\ Len(history') = n + 1
      /\ DOMAIN history' = 1..(n + 1) /\ history'[n + 1] = t
      /\ \A i \in 1..n : history'[i] = history[i]
  BY <1>1, <1>3, AppendProperties
<1>5. PICK m \in 0..n :
        /\ idempotency = SubSeq(history, m + 1, n)
        /\ \A i \in 0..n : Fits(history, i, n) <=> i >= m
  BY <1>1 DEF WindowInv, IdempotencyIsRecentWindow
<1>6. /\ Len(idempotency) = n - m
      /\ \A i \in 1..(n - m) : idempotency[i] = history[m + i]
  <2>1. \A i \in (m + 1)..n : history[i] \in Transaction
    BY <1>1, ElementOfSeq
  <2>2. /\ Len(idempotency) = IF m + 1 <= n THEN n - (m + 1) + 1 ELSE 0
        /\ \A i \in 1..(n - (m + 1) + 1) : idempotency[i] = history[(m + 1) + i - 1]
    BY <1>1, <1>5, <2>1, SubSeqProperties
  <2>3. n - (m + 1) + 1 = n - m /\ \A i \in Int : (m + 1) + i - 1 = m + i
    BY <1>1
  <2> QED BY <1>1, <2>2, <2>3
<1> DEFINE w == Append(idempotency, t)
<1>7. /\ w \in Seq(Transaction) /\ m + Len(w) = n + 1 /\ Len(w) \in Nat
      /\ \A i \in 1..Len(w) : w[i] = history'[m + i]
  <2>1. /\ w \in Seq(Transaction) /\ Len(w) = (n - m) + 1 /\ w[(n - m) + 1] = t
        /\ \A i \in 1..(n - m) : w[i] = idempotency[i]
    BY <1>1, <1>6, AppendProperties
  <2> HIDE DEF w
  <2>2. ASSUME NEW i \in 1..Len(w) PROVE w[i] = history'[m + i]
    <3>1. CASE i = (n - m) + 1
      BY <1>1, <1>4, <2>1, <3>1
    <3>2. CASE i \in 1..(n - m)
      <4>1. m + i \in 1..n
        BY <1>1, <3>2
      <4> QED BY <1>4, <1>6, <2>1, <3>2, <4>1
    <3> QED BY <1>1, <2>1, <3>1, <3>2
  <2> QED BY <1>1, <2>1, <2>2
<1> HIDE DEF w
<1> DEFINE b == BytesUpTo(history')
<1>8. \A i \in 0..(n + 1) : b[i] \in Nat /\ \A j \in 0..i : b[j] <= b[i]
  BY <1>4, BytesGrow
<1>9. \A i \in 0..n : BytesUpTo(history)[i] = b[i]
  <2>1. b[0] = 0
    BY <1>1, <1>4, BytesEquation
  <2>2. \A i \in 1..n : history[i] = history'[0 + i]
    BY <1>4
  <2>3. \A i \in 0..n : BytesUpTo(history)[i] = b[0 + i] - b[0]
    <3>1. 0 + Len(history) <= Len(history') /\ Len(history) = n
      BY <1>1, <1>4
    <3> HIDE DEF b
    <3> QED BY <1>1, <1>4, <2>2, <3>1, BytesFrom DEF b
  <2> HIDE DEF b
  <2>4. \A i \in 0..n : 0 + i = i /\ b[i] \in Nat
    BY <1>1, <1>8
  <2> QED BY <2>1, <2>3, <2>4
<1>10. \A i \in 0..Len(w) : BytesUpTo(w)[i] = b[m + i] - b[m]
  <2>1. m \in Nat /\ m + Len(w) <= Len(history')
    BY <1>1, <1>4, <1>7
  <2> HIDE DEF b
  <2> QED BY <1>4, <1>7, <2>1, BytesFrom DEF b
<1> HIDE DEF b
<1>11. IdempotencyLimit \in Nat /\ MaxIdempotencyBytes \in Nat
  BY LimitsAssumption
<1>12. \A i, j \in 0..n : Fits(history', i, j) <=> Fits(history, i, j)
  BY <1>9 DEF Fits, b
<1>13. ASSUME NEW i \in 0..n, Fits(history', i, n + 1) PROVE Fits(history, i, n)
  <2>1. /\ (n + 1) - i <= IdempotencyLimit /\ b[n + 1] - b[i] <= MaxIdempotencyBytes
    BY <1>13 DEF Fits, b
  <2>2. b[n] <= b[n + 1] /\ b[n] \in Nat /\ b[n + 1] \in Nat /\ b[i] \in Nat
    BY <1>1, <1>8
  <2>3. n - i <= IdempotencyLimit /\ b[n] - b[i] <= MaxIdempotencyBytes
    BY <1>1, <1>11, <2>1, <2>2
  <2> QED BY <1>1, <1>9, <2>3 DEF Fits
<1>14. ASSUME NEW i \in 0..Len(w)
       PROVE  Fits(w, i, Len(w)) <=> Fits(history', m + i, n + 1)
  <2>1. /\ BytesUpTo(w)[Len(w)] = b[n + 1] - b[m] /\ BytesUpTo(w)[i] = b[m + i] - b[m]
    BY <1>7, <1>10
  <2>2. b[m] \in Nat /\ b[m + i] \in Nat /\ b[n + 1] \in Nat
    BY <1>1, <1>7, <1>8
  <2>3. /\ BytesUpTo(w)[Len(w)] - BytesUpTo(w)[i] = b[n + 1] - b[m + i]
        /\ Len(w) - i = (n + 1) - (m + i)
    BY <1>1, <1>7, <2>1, <2>2
  <2> QED BY <2>3 DEF Fits, b
<1>15. PICK k \in 0..Len(w) :
         /\ idempotency' = SubSeq(w, k + 1, Len(w))
         /\ \A i \in 0..Len(w) : Fits(w, i, Len(w)) <=> i >= k
  BY <1>3, <1>7, EvictEffect DEF w
<1>16. IdempotencyIsRecentWindow'
  <2>1. idempotency' = SubSeq(history', (m + k) + 1, n + 1)
    <3>1. m \in Nat /\ m + Len(w) = Len(history')
      BY <1>1, <1>4, <1>7
    <3>2. SubSeq(w, k + 1, Len(w)) = SubSeq(history', (m + k) + 1, Len(history'))
      BY <1>4, <1>7, <3>1, SameRest
    <3> QED BY <1>4, <1>15, <3>2
  <2>2. m + k \in 0..(n + 1)
    BY <1>1, <1>7
  <2>3. ASSUME NEW i \in 0..(n + 1) PROVE Fits(history', i, n + 1) <=> i >= m + k
    <3>1. CASE i < m
      <4>1. i \in 0..n /\ ~(i >= m) /\ ~(i >= m + k)
        BY <1>1, <3>1
      <4> QED BY <1>5, <1>13, <4>1
    <3>2. CASE ~(i < m)
      <4>1. i - m \in 0..Len(w) /\ m + (i - m) = i /\ (i - m >= k <=> i >= m + k)
        BY <1>1, <1>7, <3>2
      <4> QED BY <1>14, <1>15, <4>1
    <3> QED BY <3>1, <3>2
  <2> QED BY <1>4, <2>1, <2>2, <2>3 DEF IdempotencyIsRecentWindow, sessionSequence
<1>17. AtMostOnce'
  <2> SUFFICES ASSUME NEW i \in 1..(n + 1), NEW j \in 1..(n + 1), i < j,
                      SameRequest(history'[i].request, history'[j].request)
               PROVE  ~Fits(history', i - 1, j - 1)
    BY <1>4 DEF AtMostOnce
  <2>1. i \in 1..n /\ i - 1 \in 0..n /\ j - 1 \in 0..n /\ history'[i] = history[i]
    BY <1>1, <1>4
  <2>2. ~Fits(history, i - 1, j - 1)
    <3>1. CASE j \in 1..n
      <4>1. history'[j] = history[j]
        BY <1>4, <3>1
      <4> QED BY <1>1, <2>1, <3>1, <4>1 DEF WindowInv, AtMostOnce
    <3>2. CASE j = n + 1
      <4>1. SameRequest(history[i].request, inflight.request) /\ ~Remembered(inflight.request)
        BY <1>3, <1>4, <2>1, <3>2 DEF WindowInv, AwaitedIsNew, Commit
      <4>2. ~(i > m)
        <5>1. SUFFICES ASSUME i > m PROVE FALSE
          OBVIOUS
        <5>2. i - m \in 1..(n - m) /\ m + (i - m) = i
          BY <1>1, <2>1, <5>1
        <5>3. idempotency[i - m] = history[i] /\ i - m \in DOMAIN idempotency
          BY <1>1, <1>6, <5>2, LenProperties
        <5> QED BY <4>1, <5>3 DEF Remembered
      <4>3. ~(i - 1 >= m) /\ j - 1 = n
        BY <1>1, <2>1, <3>2, <4>2
      <4> QED BY <1>5, <2>1, <4>3
    <3> QED BY <1>1, <3>1, <3>2
  <2> QED BY <1>12, <2>1, <2>2
<1>18. AwaitedIsNew'
  BY DEF Commit, AwaitedIsNew
<1> QED BY <1>2, <1>16, <1>17, <1>18 DEF WindowInv

LEMMA WindowStep == WindowInv /\ [Next]_vars => WindowInv'
<1> SUFFICES ASSUME WindowInv, [Next]_vars PROVE WindowInv'
  OBVIOUS
<1>1. CASE \E after \in Revisions : Commit(after)
  BY <1>1, CommitKeepsWindow
<1>2. CASE ~\E after \in Revisions : Commit(after)
  <2>1. UNCHANGED <<history, idempotency>>
    BY <1>2, OrderingFrame DEF ordering
  <2>2. TypeOK'
    BY TypeStep DEF WindowInv
  <2>3. IdempotencyIsRecentWindow' /\ AtMostOnce'
    BY <2>1 DEF WindowInv, IdempotencyIsRecentWindow, AtMostOnce, sessionSequence
  <2>4. AwaitedIsNew'
    <3>1. ASSUME NEW req \in Submissions, Prepare(req) PROVE AwaitedIsNew'
      <4>1. inflight'.request = req /\ ~Remembered(req)
        BY <3>1 DEF Prepare
      <4> QED BY <2>1, <4>1 DEF AwaitedIsNew, Remembered
    <3>2. CASE UNCHANGED inflight
      BY <2>1, <3>2 DEF WindowInv, AwaitedIsNew, Remembered
    <3>3. CASE inflight' = NoSubmission
      BY <3>3 DEF AwaitedIsNew
    <3> QED BY <1>2, <3>1, <3>2, <3>3, InflightFrame
  <2> QED BY <2>2, <2>3, <2>4 DEF WindowInv
<1> QED BY <1>1, <1>2

LEMMA WindowInductive == Spec => []WindowInv
<1>1. Init => WindowInv
  <2> SUFFICES ASSUME Init PROVE WindowInv
    OBVIOUS
  <2>1. TypeOK
    BY RevisionsAssumption DEF Init, TypeOK
  <2>2. history = <<>> /\ idempotency = <<>> /\ inflight = NoSubmission /\ sessionSequence = 0
    BY DEF Init, sessionSequence
  <2>3. IdempotencyIsRecentWindow
    <3>1. SubSeq(history, 0 + 1, 0) = <<>>
      BY SubSeqEmpty
    <3>2. Fits(history, 0, 0)
      <4>1. BytesUpTo(history)[0] = 0
        BY <2>2, BytesEquation
      <4> QED BY <4>1, LimitsAssumption DEF Fits
    <3> QED BY <2>2, <3>1, <3>2 DEF IdempotencyIsRecentWindow
  <2>4. DOMAIN history = {}
    BY <2>2
  <2> QED BY <2>1, <2>2, <2>3, <2>4 DEF WindowInv, AtMostOnce, AwaitedIsNew
<1> QED BY <1>1, WindowStep, PTL DEF Spec

\* Whatever the sizes of the requests, the window holds the most recent
\* transactions that fit both bounds, in order, with no gap, and as committed:
\* the loop of rememberIdempotentResult evicts neither too little nor too much.
THEOREM WindowIsRecent == Spec => []IdempotencyIsRecentWindow
BY WindowInductive, PTL DEF WindowInv

\* A retry is committed a second time only when what followed the first commit
\* has pushed it out of the window, also if it was sent while a submission was
\* awaited.
THEOREM RetriesCommitOnce == Spec => []AtMostOnce
BY WindowInductive, PTL DEF WindowInv
-----------------------------------------------------------------------------
(* Resynchronisation.  The revisions of the history form a chain, of which   *)
(* currentRevision is the end and an awaited submission the next link; a     *)
(* transaction has left the tail only if the tail is full.                   *)

Chained ==
    /\ \A i \in DOMAIN history : history[i].before = RevisionAt(i - 1)
    /\ currentRevision = RevisionAt(sessionSequence)
    /\ inflight # NoSubmission => inflight.before = currentRevision

TailIsFull == Len(tail) <= TailLimit /\ (Floor > 0 => Len(tail) = TailLimit)

ResyncInv == OrderInv /\ Chained /\ TailIsFull

LEMMA CommitKeepsResync ==
    ASSUME ResyncInv, NEW after \in Revisions, Commit(after)
    PROVE  ResyncInv'
<1> DEFINE n == Len(history)
<1>1. /\ OrderInv /\ TypeOK /\ history \in Seq(Transaction) /\ tail \in Seq(Transaction)
      /\ n \in Nat /\ sessionSequence = n /\ DOMAIN history = 1..n
  BY LenProperties DEF ResyncInv, OrderInv, TypeOK, sessionSequence
<1>2. OrderInv'
  BY <1>1, CommitKeepsOrder
<1>3. PICK t \in Transaction :
        /\ history' = Append(history, t) /\ tail' = Pushed(t)
        /\ t.before = inflight.before /\ t.after = after
  BY <1>1, CommitAppends
<1>4. /\ Len(history') = n + 1 /\ DOMAIN history' = 1..(n + 1) /\ history'[n + 1] = t
      /\ \A i \in 1..n : history'[i] = history[i]
  BY <1>1, <1>3, AppendProperties
<1>5. \A i \in 0..n : RevisionAt(i)' = RevisionAt(i)
  BY <1>4 DEF RevisionAt
<1>6. Chained'
  <2>1. inflight # NoSubmission /\ inflight.before = RevisionAt(n)
    BY <1>1 DEF Commit, ResyncInv, Chained
  <2>2. ASSUME NEW i \in 1..(n + 1) PROVE history'[i].before = RevisionAt(i - 1)'
    <3>1. i - 1 \in 0..n
      BY <1>1
    <3>2. CASE i = n + 1
      BY <1>1, <1>3, <1>4, <1>5, <2>1, <3>1, <3>2
    <3>3. CASE i \in 1..n
      <4>1. history[i].before = RevisionAt(i - 1)
        BY <1>1, <3>3 DEF ResyncInv, Chained
      <4> QED BY <1>4, <1>5, <3>1, <3>3, <4>1
    <3> QED BY <1>1, <3>2, <3>3
  <2>3. currentRevision' = RevisionAt(sessionSequence)'
    BY <1>1, <1>3, <1>4 DEF Commit, RevisionAt, sessionSequence
  <2>4. inflight' = NoSubmission
    BY DEF Commit
  <2>5. \A i \in DOMAIN history' : history'[i].before = RevisionAt(i - 1)'
    BY <1>4, <2>2
  <2> QED BY <2>3, <2>4, <2>5 DEF Chained
<1>7. TailIsFull'
  <2>0. Len(tail) \in Nat /\ Len(tail) <= n
    BY <1>1, LenProperties DEF OrderInv, TailIsSuffix
  <2>1. CASE Len(tail) < TailLimit
    <3>1. Len(tail') = Len(tail) + 1
      BY <1>1, <1>3, <2>1, AppendProperties DEF Pushed
    <3>2. Floor' = Floor /\ Floor \in Nat
      BY <1>1, <1>4, <2>0, <3>1 DEF Floor
    <3>3. ~(Floor > 0)
      BY <2>0, <2>1, LimitsAssumption DEF ResyncInv, TailIsFull
    <3> QED BY <2>0, <2>1, <3>1, <3>2, <3>3, LimitsAssumption DEF TailIsFull
  <2>2. CASE ~(Len(tail) < TailLimit)
    <3>1. tail # <<>>
      BY <1>1, <2>0, <2>2, LimitsAssumption
    <3>2. Tail(tail) \in Seq(Transaction) /\ Len(Tail(tail)) = Len(tail) - 1
      BY <1>1, <3>1, HeadTailProperties
    <3>3. Len(tail') = Len(tail)
      BY <1>3, <2>0, <2>2, <3>2, AppendProperties DEF Pushed
    <3> QED BY <2>0, <2>2, <3>3, LimitsAssumption DEF TailIsFull, ResyncInv
  <2> QED BY <2>1, <2>2
<1> QED BY <1>2, <1>6, <1>7 DEF ResyncInv

LEMMA ResyncStep == ResyncInv /\ [Next]_vars => ResyncInv'
<1> SUFFICES ASSUME ResyncInv, [Next]_vars PROVE ResyncInv'
  OBVIOUS
<1>1. CASE \E after \in Revisions : Commit(after)
  BY <1>1, CommitKeepsResync
<1>2. CASE ~\E after \in Revisions : Commit(after)
  <2>1. UNCHANGED <<history, tail, currentRevision>>
    BY <1>2, OrderingFrame DEF ordering
  <2>2. OrderInv'
    BY OrderStep DEF ResyncInv
  <2>3. TailIsFull'
    BY <2>1 DEF ResyncInv, TailIsFull, Floor
  <2>4. /\ \A i \in DOMAIN history' : history'[i].before = RevisionAt(i - 1)'
        /\ currentRevision' = RevisionAt(sessionSequence)'
    BY <2>1 DEF ResyncInv, Chained, RevisionAt, sessionSequence
  <2>5. inflight' # NoSubmission => inflight'.before = currentRevision'
    <3>1. ASSUME NEW req \in Submissions, Prepare(req)
          PROVE  inflight'.before = currentRevision
      BY <3>1 DEF Prepare
    <3>2. CASE UNCHANGED inflight
      BY <2>1, <3>2 DEF ResyncInv, Chained
    <3> QED BY <1>2, <2>1, <3>1, <3>2, InflightFrame
  <2> QED BY <2>2, <2>3, <2>4, <2>5 DEF ResyncInv, Chained
<1> QED BY <1>1, <1>2

LEMMA ResyncInductive == Spec => []ResyncInv
<1>1. Init => ResyncInv
  <2> SUFFICES ASSUME Init PROVE ResyncInv
    OBVIOUS
  <2>1. /\ history = <<>> /\ tail = <<>> /\ inflight = NoSubmission
        /\ currentRevision = InitialRevision
    BY DEF Init
  <2>2. Len(history) = 0 /\ Len(tail) = 0 /\ DOMAIN history = {}
    BY <2>1
  <2>3. Chained /\ TailIsFull
    BY <2>1, <2>2, LimitsAssumption
       DEF Chained, TailIsFull, RevisionAt, sessionSequence, Floor
  <2> QED BY <2>3, InitialOrder DEF ResyncInv
<1> QED BY <1>1, ResyncStep, PTL DEF Spec

\* From an accepted sequence on, the tail has what follows it in the history.
LEMMA TailHasTheRest ==
    ASSUME OrderInv, NEW n \in Floor..sessionSequence
    PROVE  TailFrom(n).transactions = SubSeq(history, n + 1, sessionSequence)
<1> DEFINE S == {i \in DOMAIN tail : tail[i].seq > n}
<1>1. /\ history \in Seq(Transaction) /\ tail \in Seq(Transaction) /\ Floor \in Nat
      /\ Len(history) \in Nat /\ Len(tail) \in Nat /\ Floor + Len(tail) = Len(history)
      /\ DOMAIN tail = 1..Len(tail) /\ DOMAIN history = 1..Len(history) /\ n \in Nat
      /\ sessionSequence = Len(history) /\ n <= Len(history) /\ n >= Floor
  <2>1. Floor \in Nat
    BY MinimumIsFloor DEF OrderInv
  <2> QED BY <2>1, LenProperties DEF OrderInv, TypeOK, Floor, sessionSequence
<1>2. \A i \in 1..Len(tail) : tail[i] = history[Floor + i]
  BY <1>1 DEF OrderInv, TailIsSuffix
<1>3. \A i \in 1..Len(tail) : tail[i].seq = Floor + i
  <2> SUFFICES ASSUME NEW i \in 1..Len(tail) PROVE history[Floor + i].seq = Floor + i
    BY <1>2
  <2>1. Floor + i \in DOMAIN history
    BY <1>1
  <2> QED BY <2>1 DEF OrderInv, Numbered
<1>4. S = {i \in 1..Len(tail) : Floor + i > n}
  BY <1>1, <1>3
<1>5. TailFrom(n).transactions = IF S = {} THEN <<>> ELSE SubSeq(tail, Min(S), Len(tail))
  BY DEF TailFrom, TailOn
<1> HIDE DEF S
<1>6. CASE n = Len(history)
  <2>1. S = {}
    BY <1>1, <1>4, <1>6
  <2>2. SubSeq(history, n + 1, n) = <<>>
    BY <1>1, SubSeqEmpty
  <2> QED BY <1>1, <1>5, <1>6, <2>1, <2>2
<1>7. CASE n # Len(history)
  <2> DEFINE k == n - Floor
  <2>1. k \in 0..Len(tail) /\ k + 1 \in S /\ \A i \in S : k + 1 <= i
    BY <1>1, <1>4, <1>7
  <2>2. Min(S) = k + 1
    <3>1. S \subseteq Nat /\ S # {}
      BY <1>4, <2>1
    <3>2. Min(S) \in S /\ \A i \in S : Min(S) <= i
      BY <3>1, MinProperties
    <3>3. k \in Nat
      BY <1>1
    <3> HIDE DEF k
    <3>4. Min(S) \in Nat /\ Min(S) <= k + 1
      BY <2>1, <3>1, <3>2
    <3>5. k + 1 <= Min(S)
      BY <2>1, <3>2
    <3> QED BY <3>3, <3>4, <3>5
  <2>3. SubSeq(tail, k + 1, Len(tail)) = SubSeq(history, (Floor + k) + 1, Len(history))
    BY <1>1, <1>2, <2>1, SameRest
  <2>4. Floor + k = n
    BY <1>1
  <2> QED BY <1>1, <1>5, <2>1, <2>2, <2>3, <2>4
<1> QED BY <1>6, <1>7

LEMMA ResyncIsSound == ResyncInv => ResyncSound
<1> SUFFICES ASSUME ResyncInv, NEW n \in 0..sessionSequence, NEW v \in Revisions \cup {NoRevision}
             PROVE  LET answer == GetResync(n, v)
                        missing == SubSeq(history, n + 1, sessionSequence)
                        diverged == v # NoRevision /\ v # RevisionAt(n)
                    IN  IF answer.kind = "tail"
                        THEN answer.transactions = missing /\ ~diverged
                        ELSE n + TailLimit < sessionSequence \/ diverged
                             \/ BytesOf(missing) > MaxTailResyncBytes
  BY DEF ResyncSound
<1> DEFINE missing == SubSeq(history, n + 1, sessionSequence)
           sent == TailFrom(n).transactions
           base == IF sent = <<>> THEN currentRevision ELSE Head(sent).before
           refused == \/ n < Floor
                      \/ v # NoRevision /\ v # base
                      \/ BytesOf(sent) > MaxTailResyncBytes
<1>1. /\ OrderInv /\ history \in Seq(Transaction) /\ sessionSequence = Len(history)
      /\ Len(history) \in Nat /\ Floor \in Nat /\ MinimumAcceptedBase(tail) = Floor
      /\ n \in Nat /\ n <= Len(history) /\ DOMAIN history = 1..Len(history)
  BY MinimumIsFloor, LenProperties DEF ResyncInv, OrderInv, TypeOK, sessionSequence
<1>2. GetResync(n, v) = IF refused THEN Snapshot ELSE TailFrom(n)
  BY <1>1 DEF GetResync
<1>3. /\ Snapshot.kind = "snapshot" /\ TailFrom(n).kind = "tail"
  BY DEF Snapshot, TailFrom
<1> HIDE DEF sent
<1>4. CASE n < Floor
  <2>1. Len(tail) = TailLimit /\ Len(tail) \in Nat
    BY <1>1, <1>4, LenProperties DEF ResyncInv, TailIsFull, OrderInv, TypeOK
  <2>2. n + TailLimit < sessionSequence
    BY <1>1, <1>4, <2>1 DEF Floor
  <2>3. GetResync(n, v).kind = "snapshot"
    BY <1>2, <1>3, <1>4
  <2> QED BY <2>2, <2>3
<1>5. CASE ~(n < Floor)
  <2>1. sent = missing
    BY <1>1, <1>5, TailHasTheRest DEF sent
  <2>2. base = RevisionAt(n)
    <3>1. CASE n = Len(history)
      <4>1. missing = <<>>
        BY <1>1, <3>1, SubSeqEmpty
      <4> QED BY <1>1, <2>1, <3>1, <4>1 DEF ResyncInv, Chained
    <3>2. CASE n # Len(history)
      <4>1. n + 1 \in 1..Len(history) /\ Len(history) \in (n + 1)..Len(history)
        BY <1>1, <3>2
      <4>2. Head(missing) = history[n + 1]
        BY <1>1, <4>1, HeadTailOfSubSeq
      <4>3. missing # <<>>
        <5>1. \A i \in (n + 1)..Len(history) : history[i] \in Transaction
          BY <1>1, ElementOfSeq
        <5>2. Len(missing) = Len(history) - (n + 1) + 1
          BY <1>1, <4>1, <5>1, SubSeqProperties
        <5>3. Len(missing) # 0
          BY <1>1, <4>1, <5>2
        <5> HIDE DEF missing
        <5> QED BY <5>3
      <4>4. history[n + 1].before = RevisionAt((n + 1) - 1) /\ (n + 1) - 1 = n
        BY <1>1, <4>1 DEF ResyncInv, Chained
      <4> QED BY <2>1, <4>2, <4>3, <4>4
    <3> QED BY <3>1, <3>2
  <2> HIDE DEF base, missing
  <2>3. CASE refused
    <3>1. GetResync(n, v).kind = "snapshot"
      BY <1>2, <1>3, <2>3
    <3>2. \/ v # NoRevision /\ v # RevisionAt(n)
          \/ BytesOf(missing) > MaxTailResyncBytes
      BY <1>5, <2>1, <2>2, <2>3
    <3> QED BY <3>1, <3>2 DEF missing
  <2>4. CASE ~refused
    <3>1. GetResync(n, v).kind = "tail" /\ GetResync(n, v).transactions = missing
      BY <1>2, <1>3, <2>1, <2>4 DEF sent
    <3> QED BY <2>2, <2>4, <3>1 DEF missing
  <2> QED BY <2>3, <2>4
<1> QED BY <1>4, <1>5

\* Every answer to a participant is complete from where it stands, and at the
\* revision it stands at, or a snapshot for a reason: no transaction is skipped
\* or sent twice where the retained tail begins.
THEOREM ResyncIsComplete == Spec => []ResyncSound
BY ResyncInductive, ResyncIsSound, PTL
-----------------------------------------------------------------------------
(* The leases.  A token is compared with the counter of those issued, so a  *)
(* lease that appears while a batch is awaited is told from one that was    *)
(* there when the batch was prepared.                                       *)

LeaseInv ==
    /\ TypeOK
    /\ \A e \in TextElements : textLeases[e] # NoLease => textLeases[e].token < nextToken
    /\ inflight # NoSubmission => inflight.tokenFloor <= nextToken
    /\ LeaseOnlyOnLiveText
    /\ ForeignLeaseIsYounger

\* What a step does to a lease that is there afterwards.
LEMMA LeaseStep ==
    ASSUME LeaseInv, [Next]_vars, NEW e \in TextElements, textLeases'[e] # NoLease
    PROVE  /\ nextToken' \in Nat /\ nextToken' >= nextToken
           /\ textLeases'[e].token < nextToken'
           /\ e \in liveText'
           /\ \/ /\ textLeases[e] # NoLease
                 /\ textLeases'[e].client = textLeases[e].client
                 /\ textLeases'[e].token = textLeases[e].token
              \/ /\ textLeases'[e].token >= nextToken
                 /\ UNCHANGED inflight
<1> DEFINE Kept(x) == /\ textLeases[x] # NoLease
                      /\ textLeases'[x].client = textLeases[x].client
                      /\ textLeases'[x].token = textLeases[x].token
<1>1. /\ nextToken \in Nat /\ TypeOK
      /\ textLeases[e] # NoLease =>
            e \in liveText /\ textLeases[e].token < nextToken /\ textLeases[e] \in Lease
      /\ Purged[e] # NoLease => Purged[e] = textLeases[e] /\ textLeases[e] # NoLease
  BY DEF LeaseInv, TypeOK, LeaseOnlyOnLiveText, Purged
<1>2. Purged \in [TextElements -> Lease \cup {NoLease}]
  BY <1>1, PurgedType
<1>3. CASE \/ \E req \in Submissions : Prepare(req)
           \/ PurgeExpiredTextLeases
  <2>1. textLeases' = Purged /\ UNCHANGED <<liveText, nextToken>>
    BY <1>3 DEF Prepare, PurgeExpiredTextLeases, ordering
  <2> QED BY <1>1, <2>1
<1>4. CASE \E after \in Revisions : Commit(after)
  <2>1. /\ textLeases'[e] = textLeases[e] /\ e \notin inflight.request.body.drops
        /\ liveText' = liveText \ inflight.request.body.drops
        /\ UNCHANGED nextToken
    BY <1>4 DEF Commit, ValidTextLeases
  <2> QED BY <1>1, <2>1
<1>5. CASE TransactFails \/ Tick \/ UNCHANGED vars
  <2>1. UNCHANGED <<textLeases, liveText, nextToken>>
    BY <1>5 DEF TransactFails, Tick, vars, ordering
  <2> QED BY <1>1, <2>1
<1>6. ASSUME NEW c \in Clients, NEW x \in TextElements, AcquireTextLease(c, x)
      PROVE  /\ nextToken' \in Nat /\ nextToken' >= nextToken
             /\ textLeases'[e].token < nextToken'
             /\ e \in liveText'
             /\ \/ Kept(e)
                \/ /\ textLeases'[e].token >= nextToken
                   /\ nextToken' = nextToken + 1
                   /\ UNCHANGED <<inflight, liveText>>
  <2> DEFINE new == [client |-> c,
                     token |-> IF Purged[x] = NoLease THEN nextToken ELSE Purged[x].token,
                     expiresAt |-> clock + TextLeaseTtl]
  <2>1. /\ textLeases' = [Purged EXCEPT ![x] = new]
        /\ nextToken' = IF Purged[x] = NoLease THEN nextToken + 1 ELSE nextToken
        /\ x \in liveText
        /\ Purged[x] # NoLease => Purged[x].client = c
        /\ UNCHANGED <<inflight, liveText>>
    BY <1>6 DEF AcquireTextLease, MayAcquire, ordering
  <2>2. CASE x # e
    <3>1. textLeases'[e] = Purged[e]
      BY <1>2, <2>1, <2>2
    <3>2. textLeases'[e] = textLeases[e] /\ textLeases[e] \in Lease
      BY <1>1, <3>1
    <3>3. /\ nextToken' \in Nat /\ nextToken' >= nextToken
      BY <1>1, <2>1
    <3>4. textLeases'[e].token < nextToken'
      BY <1>1, <3>1, <3>2, <3>3 DEF Lease
    <3> QED BY <1>1, <2>1, <3>1, <3>2, <3>3, <3>4
  <2>3. CASE x = e
    <3>1. textLeases'[e] = new
      BY <1>2, <2>1, <2>3
    <3> QED BY <1>1, <2>1, <2>3, <3>1
  <2> QED BY <2>2, <2>3
<1>7. ASSUME NEW c \in Clients, NEW x \in TextElements, NEW token,
             RenewTextLease(c, x, token) \/ ReleaseTextLease(c, x, token)
      PROVE  Kept(e) /\ UNCHANGED <<liveText, nextToken>>
  <2>1. UNCHANGED <<liveText, nextToken>>
    BY <1>7 DEF RenewTextLease, ReleaseTextLease, ordering
  <2>2. CASE RenewTextLease(c, x, token)
    <3>1. /\ textLeases' = [Purged EXCEPT ![x] =
                              [Purged[x] EXCEPT !.expiresAt = clock + TextLeaseTtl]]
          /\ Purged[x] # NoLease
      BY <2>2 DEF RenewTextLease
    <3>2. Purged[x] \in Lease
      BY <1>2, <3>1
    <3>3. CASE x # e
      <4>1. textLeases'[e] = Purged[e]
        BY <1>2, <3>1, <3>3
      <4> QED BY <1>1, <2>1, <4>1
    <3>4. CASE x = e
      <4>1. textLeases'[e] = [Purged[e] EXCEPT !.expiresAt = clock + TextLeaseTtl]
        BY <1>2, <3>1, <3>4
      <4>2. textLeases'[e].client = Purged[e].client /\ textLeases'[e].token = Purged[e].token
        BY <3>2, <3>4, <4>1 DEF Lease
      <4> QED BY <1>1, <2>1, <3>1, <3>4, <4>2
    <3> QED BY <3>3, <3>4
  <2>3. CASE ReleaseTextLease(c, x, token)
    <3>1. textLeases' = [Purged EXCEPT ![x] = NoLease]
      BY <2>3 DEF ReleaseTextLease
    <3> QED BY <1>1, <1>2, <2>1, <3>1
  <2> QED BY <1>7, <2>2, <2>3
<1>8. ASSUME NEW c \in Clients, ReleaseTextLeasesForClient(c)
      PROVE  Kept(e) /\ UNCHANGED <<liveText, nextToken>>
  BY <1>1, <1>8 DEF ReleaseTextLeasesForClient, ordering
<1> QED BY <1>1, <1>3, <1>4, <1>5, <1>6, <1>7, <1>8 DEF Next

LEMMA LeaseInvStep == LeaseInv /\ [Next]_vars => LeaseInv'
<1> SUFFICES ASSUME LeaseInv, [Next]_vars PROVE LeaseInv'
  OBVIOUS
<1>1. TypeOK /\ TypeOK'
  BY TypeStep DEF LeaseInv
<1>2. ASSUME NEW e \in TextElements, textLeases'[e] # NoLease
      PROVE  textLeases'[e].token < nextToken' /\ e \in liveText'
  BY <1>2, LeaseStep
<1>3. \/ UNCHANGED inflight
      \/ inflight' = NoSubmission
      \/ \E req \in Submissions : Prepare(req)
  <2>1. CASE \E c \in Clients, e \in TextElements : AcquireTextLease(c, e)
    BY <2>1 DEF AcquireTextLease
  <2>2. CASE \E c \in Clients, e \in TextElements, token \in 0..(nextToken - 1) :
                RenewTextLease(c, e, token) \/ ReleaseTextLease(c, e, token)
    BY <2>2 DEF RenewTextLease, ReleaseTextLease
  <2>3. CASE \E c \in Clients : ReleaseTextLeasesForClient(c)
    BY <2>3 DEF ReleaseTextLeasesForClient
  <2>4. CASE \E after \in Revisions : Commit(after)
    BY <2>4 DEF Commit
  <2>5. CASE TransactFails \/ PurgeExpiredTextLeases \/ Tick \/ UNCHANGED vars
    BY <2>5 DEF TransactFails, PurgeExpiredTextLeases, Tick, vars
  <2> QED BY <2>1, <2>2, <2>3, <2>4, <2>5 DEF Next
<1>4. nextToken' \in Nat /\ nextToken' >= nextToken
  <2>1. CASE \E c \in Clients, e \in TextElements : AcquireTextLease(c, e)
    BY <1>1, <2>1 DEF AcquireTextLease, TypeOK
  <2>2. CASE ~\E c \in Clients, e \in TextElements : AcquireTextLease(c, e)
    <3>1. UNCHANGED nextToken
      BY <2>2 DEF Next, Prepare, Commit, TransactFails, RenewTextLease, ReleaseTextLease,
                  ReleaseTextLeasesForClient, PurgeExpiredTextLeases, Tick, vars
    <3> QED BY <1>1, <3>1 DEF TypeOK
  <2> QED BY <2>1, <2>2
<1>5. ASSUME NEW req \in Submissions, Prepare(req)
      PROVE  /\ inflight' # NoSubmission => inflight'.tokenFloor <= nextToken'
             /\ ForeignLeaseIsYounger'
  <2>1. /\ inflight'.request = req /\ inflight'.tokenFloor = nextToken
        /\ nextToken' = nextToken /\ textLeases' = Purged /\ LeaseAccess(req)
    BY <1>5 DEF Prepare
  <2>2. \A e \in TextElements :
           textLeases'[e] # NoLease /\ Guards(e, req.body) =>
              textLeases'[e].client = req.client
    BY <2>1 DEF LeaseAccess
  <2>3. nextToken \in Nat
    BY <1>1 DEF TypeOK
  <2> QED BY <2>1, <2>2, <2>3 DEF ForeignLeaseIsYounger, Guards
<1>6. ASSUME UNCHANGED inflight
      PROVE  /\ inflight' # NoSubmission => inflight'.tokenFloor <= nextToken'
             /\ ForeignLeaseIsYounger'
  <2>1. CASE inflight = NoSubmission
    BY <1>6, <2>1 DEF ForeignLeaseIsYounger
  <2>2. CASE inflight # NoSubmission
    <3>1. /\ inflight.tokenFloor \in Nat /\ inflight.tokenFloor <= nextToken
          /\ nextToken \in Nat
      BY <1>1, <2>2 DEF LeaseInv, TypeOK, Prepared
    <3>2. inflight.tokenFloor <= nextToken'
      BY <1>4, <3>1
    <3>3. ASSUME NEW e \in TextElements, textLeases'[e] # NoLease,
                 textLeases'[e].client # inflight.request.client,
                 Guards(e, inflight.request.body)
          PROVE  textLeases'[e].token >= inflight.tokenFloor
      <4>1. CASE /\ textLeases[e] # NoLease
                 /\ textLeases'[e].client = textLeases[e].client
                 /\ textLeases'[e].token = textLeases[e].token
        BY <2>2, <3>3, <4>1 DEF LeaseInv, ForeignLeaseIsYounger
      <4>2. CASE textLeases'[e].token >= nextToken
        <5>1. textLeases'[e].token \in Nat
          BY <1>1, <3>3 DEF TypeOK, Lease
        <5> QED BY <3>1, <4>2, <5>1
      <4> QED BY <3>3, <4>1, <4>2, LeaseStep
    <3> QED BY <1>6, <3>2, <3>3 DEF ForeignLeaseIsYounger, Guards
  <2> QED BY <2>1, <2>2
<1>7. CASE inflight' = NoSubmission
  BY <1>1, <1>2, <1>7 DEF LeaseInv, LeaseOnlyOnLiveText, ForeignLeaseIsYounger
<1> QED
  BY <1>1, <1>2, <1>3, <1>5, <1>6, <1>7 DEF LeaseInv, LeaseOnlyOnLiveText

LEMMA LeaseInductive == Spec => []LeaseInv
<1>1. Init => LeaseInv
  <2>1. Init => TypeOK
    BY RevisionsAssumption DEF Init, TypeOK
  <2> QED BY <2>1 DEF Init, LeaseInv, LeaseOnlyOnLiveText, ForeignLeaseIsYounger
<1> QED BY <1>1, LeaseInvStep, PTL DEF Spec

\* A foreign lease on what an awaited batch writes is always younger than the
\* batch's lease check, although leases come and go during the wait.
THEOREM LeasesPredatingABatchAreRespected == Spec => []ForeignLeaseIsYounger
BY LeaseInductive, PTL DEF LeaseInv

\* No lease outlives its text element, although one may be granted while a
\* batch that deletes the element is awaited.
THEOREM LeasesFollowTheDocument == Spec => []LeaseOnlyOnLiveText
BY LeaseInductive, PTL DEF LeaseInv

\* Leases are always granted for one lease time, so none reaches further than
\* that: this is why a renewal never brings an expiry forward.
LeaseBounded ==
    \A e \in TextElements :
       textLeases[e] # NoLease => textLeases[e].expiresAt <= clock + TextLeaseTtl

\* How the holder and the expiry of a lease come about.
LEMMA LeaseTerm ==
    ASSUME TypeOK, [Next]_vars, NEW e \in TextElements, textLeases'[e] # NoLease
    PROVE  /\ clock' >= clock
           /\ \/ textLeases[e] # NoLease /\ textLeases'[e] = textLeases[e]
              \/ /\ textLeases[e] # NoLease /\ ~Expired(textLeases[e]) =>
                       /\ textLeases'[e].client = textLeases[e].client
                       /\ textLeases'[e].token = textLeases[e].token
                 /\ textLeases'[e].expiresAt = clock + TextLeaseTtl
                 /\ UNCHANGED clock
<1> DEFINE Same == textLeases[e] # NoLease /\ textLeases'[e] = textLeases[e]
           Granted == /\ textLeases[e] # NoLease /\ ~Expired(textLeases[e]) =>
                            /\ textLeases'[e].client = textLeases[e].client
                            /\ textLeases'[e].token = textLeases[e].token
                      /\ textLeases'[e].expiresAt = clock + TextLeaseTtl
<1>1. /\ clock \in Nat
      /\ Purged \in [TextElements -> Lease \cup {NoLease}]
      /\ Purged[e] # NoLease => Purged[e] = textLeases[e] /\ textLeases[e] # NoLease
      /\ textLeases[e] # NoLease /\ ~Expired(textLeases[e]) => Purged[e] = textLeases[e]
  BY PurgedType DEF TypeOK, Purged
<1>2. CASE \/ \E req \in Submissions : Prepare(req)
           \/ PurgeExpiredTextLeases
  <2>1. textLeases' = Purged /\ UNCHANGED clock
    BY <1>2 DEF Prepare, PurgeExpiredTextLeases, ordering
  <2> QED BY <1>1, <2>1
<1>3. CASE \E after \in Revisions : Commit(after)
  <2>1. textLeases'[e] = textLeases[e] /\ UNCHANGED clock
    BY <1>3 DEF Commit, ValidTextLeases
  <2> QED BY <1>1, <2>1
<1>4. CASE TransactFails \/ Tick \/ UNCHANGED vars
  <2>1. UNCHANGED textLeases /\ clock' \in {clock, clock + 1}
    BY <1>4 DEF TransactFails, Tick, vars, ordering
  <2> QED BY <1>1, <2>1
<1>5. ASSUME NEW c \in Clients, NEW x \in TextElements, AcquireTextLease(c, x)
      PROVE  UNCHANGED clock /\ (Same \/ Granted)
  <2> DEFINE new == [client |-> c,
                     token |-> IF Purged[x] = NoLease THEN nextToken ELSE Purged[x].token,
                     expiresAt |-> clock + TextLeaseTtl]
  <2>1. /\ textLeases' = [Purged EXCEPT ![x] = new]
        /\ Purged[x] # NoLease => Purged[x].client = c
        /\ UNCHANGED clock
    BY <1>5 DEF AcquireTextLease, MayAcquire
  <2>2. CASE x # e
    <3>1. textLeases'[e] = Purged[e]
      BY <1>1, <2>1, <2>2
    <3> QED BY <1>1, <2>1, <3>1
  <2>3. CASE x = e
    <3>1. textLeases'[e] = new
      BY <1>1, <2>1, <2>3
    <3> QED BY <1>1, <2>1, <2>3, <3>1
  <2> QED BY <2>2, <2>3
<1>6. ASSUME NEW c \in Clients, NEW x \in TextElements, NEW token,
             RenewTextLease(c, x, token) \/ ReleaseTextLease(c, x, token)
      PROVE  UNCHANGED clock /\ (Same \/ Granted)
  <2>1. UNCHANGED clock /\ Purged[x] # NoLease
    BY <1>6 DEF RenewTextLease, ReleaseTextLease
  <2>2. CASE x # e
    <3>1. textLeases'[e] = Purged[e]
      BY <1>1, <1>6, <2>2 DEF RenewTextLease, ReleaseTextLease
    <3> QED BY <1>1, <2>1, <3>1
  <2>3. CASE x = e /\ RenewTextLease(c, x, token)
    <3>1. Purged[e] \in Lease /\ Purged[e] = textLeases[e] /\ textLeases[e] # NoLease
      BY <1>1, <2>1, <2>3
    <3>2. textLeases'[e] = [Purged[e] EXCEPT !.expiresAt = clock + TextLeaseTtl]
      BY <1>1, <2>3 DEF RenewTextLease
    <3>3. /\ textLeases'[e].client = Purged[e].client
          /\ textLeases'[e].token = Purged[e].token
          /\ textLeases'[e].expiresAt = clock + TextLeaseTtl
      BY <3>1, <3>2 DEF Lease
    <3> QED BY <2>1, <3>1, <3>3
  <2>4. CASE x = e /\ ReleaseTextLease(c, x, token)
    <3>1. textLeases'[e] = NoLease
      BY <1>1, <2>4 DEF ReleaseTextLease
    <3> QED BY <3>1
  <2> QED BY <1>6, <2>2, <2>3, <2>4
<1>7. ASSUME NEW c \in Clients, ReleaseTextLeasesForClient(c)
      PROVE  UNCHANGED clock /\ Same
  BY <1>7 DEF ReleaseTextLeasesForClient
<1>8. UNCHANGED clock => clock' >= clock
  BY <1>1
<1> QED BY <1>2, <1>3, <1>4, <1>5, <1>6, <1>7, <1>8 DEF Next

LEMMA LeaseBoundedStep == TypeOK /\ LeaseBounded /\ [Next]_vars => LeaseBounded'
<1> SUFFICES ASSUME TypeOK, LeaseBounded, [Next]_vars,
                    NEW e \in TextElements, textLeases'[e] # NoLease
             PROVE  textLeases'[e].expiresAt <= clock' + TextLeaseTtl
  BY DEF LeaseBounded
<1>1. /\ clock \in Nat /\ clock' \in Nat /\ TextLeaseTtl \in Nat
      /\ textLeases[e] # NoLease => textLeases[e].expiresAt \in Nat
  BY TypeStep, LimitsAssumption DEF TypeOK, Lease
<1>2. CASE textLeases[e] # NoLease /\ textLeases'[e] = textLeases[e]
  <2>1. textLeases[e].expiresAt <= clock + TextLeaseTtl /\ clock' >= clock
    BY <1>2, LeaseTerm DEF LeaseBounded
  <2> QED BY <1>1, <1>2, <2>1
<1>3. CASE textLeases'[e].expiresAt = clock + TextLeaseTtl /\ UNCHANGED clock
  BY <1>1, <1>3
<1> QED BY <1>2, <1>3, LeaseTerm

\* A step that leaves a live lease on its element leaves it with its holder,
\* its token and at least its term.
LEMMA LeaseIsKept ==
    ASSUME TypeOK, LeaseBounded, [Next]_vars, NEW e \in TextElements,
           textLeases[e] # NoLease, ~Expired(textLeases[e]), textLeases'[e] # NoLease
    PROVE  /\ textLeases'[e].client = textLeases[e].client
           /\ textLeases'[e].token = textLeases[e].token
           /\ textLeases'[e].expiresAt >= textLeases[e].expiresAt
<1>1. /\ clock \in Nat /\ TextLeaseTtl \in Nat /\ textLeases[e].expiresAt \in Nat
      /\ textLeases[e].expiresAt <= clock + TextLeaseTtl
  BY LimitsAssumption DEF TypeOK, Lease, LeaseBounded
<1>2. CASE textLeases'[e] = textLeases[e]
  BY <1>1, <1>2
<1>3. CASE /\ textLeases'[e].client = textLeases[e].client
           /\ textLeases'[e].token = textLeases[e].token
           /\ textLeases'[e].expiresAt = clock + TextLeaseTtl
  BY <1>1, <1>3
<1> QED BY <1>2, <1>3, LeaseTerm

\* A text lease that has not expired changes hands only through a release, and
\* no renewal shortens it, however many clients ask for it meanwhile.
THEOREM LeasesAreNotStolen == Spec => LeaseNotStolen
<1>1. Init => TypeOK /\ LeaseBounded
  <2>1. Init => TypeOK
    BY RevisionsAssumption DEF Init, TypeOK
  <2> QED BY <2>1 DEF Init, LeaseBounded
<1>2. TypeOK /\ LeaseBounded /\ [Next]_vars => (TypeOK /\ LeaseBounded)'
  BY TypeStep, LeaseBoundedStep
<1>3. TypeOK /\ LeaseBounded /\ [Next]_vars =>
        [\A e \in TextElements :
           /\ textLeases[e] # NoLease /\ ~Expired(textLeases[e])
           /\ textLeases'[e] # NoLease
           => /\ textLeases'[e].client = textLeases[e].client
              /\ textLeases'[e].token = textLeases[e].token
              /\ textLeases'[e].expiresAt >= textLeases[e].expiresAt]_vars
  BY LeaseIsKept
<1> QED BY <1>1, <1>2, <1>3, PTL DEF Spec, LeaseNotStolen

-----------------------------------------------------------------------------
(* What a command may touch.  A deck has the shape its commands expect, and  *)
(* nothing outside the keys analyzeCommandAccess declares is touched.         *)

\* The types of commands, by where Execute sends them; WithIds name several elements.
ResourceTypes == {"deck.set", "theme.create", "theme.update", "theme.enforce-deck",
                  "theme.delete", "master.create", "master.update", "master.delete",
                  "layout.create", "layout.update", "layout.delete", "slide.create",
                  "asset.register", "asset.remove"}
SlideTypes == {"slide.duplicate", "slide.delete", "slide.reorder", "slide.update",
               "slide.set-layout", "slide.reset-placeholder"}
ElementTypes == {"element.insert", "element.update", "element.delete", "element.transform",
                 "element.align", "element.group", "element.ungroup", "element.edit",
                 "element.reorder", "element.set-locked", "connector.update-endpoint"}
WithIds == {"element.delete", "element.transform", "element.align", "element.group"}

\* Which fields a command has tells where Execute sends it.
LEMMA ResourceKinds ==
    ASSUME NEW d, NEW me, NEW c \in ResourceCommands(d, me)
    PROVE  "slide" \notin DOMAIN c /\ c.type \in ResourceTypes
<1>1. CASE c \in DeckCommands(d, me)
  BY <1>1 DEF DeckCommands, ResourceTypes
<1>2. CASE c \in ThemeCommands(d, me)
  BY <1>2 DEF ThemeCommands, ResourceTypes
<1>3. CASE c \in MasterCommands(d, me)
  BY <1>3 DEF MasterCommands, ResourceTypes
<1>4. CASE c \in LayoutCommands(d, me)
  BY <1>4 DEF LayoutCommands, ResourceTypes
<1> QED BY <1>1, <1>2, <1>3, <1>4 DEF ResourceCommands

LEMMA SlideKinds ==
    ASSUME NEW d, NEW me, NEW c \in SlideCommands(d, me)
    PROVE  /\ "slide" \in DOMAIN c /\ "container" \notin DOMAIN c
           /\ c.type \in SlideTypes
  BY SMTT(60) DEF SlideCommands, SlideTypes

LEMMA ElementKinds ==
    ASSUME NEW d, NEW me, NEW c \in ElementCommands(d, me)
    PROVE  /\ "slide" \in DOMAIN c /\ "container" \in DOMAIN c
           /\ c.type \in ElementTypes
           /\ "ids" \in DOMAIN c <=> c.type \in WithIds
<1>1. ASSUME NEW e, c \in CommandsOnSome(d, me, e)
      PROVE  /\ "slide" \in DOMAIN c /\ "container" \in DOMAIN c /\ "ids" \in DOMAIN c
             /\ c.type \in WithIds
  BY <1>1 DEF CommandsOnSome, WithIds
<1>2. ASSUME NEW e, c \in CommandsOnOne(d, e)
      PROVE  /\ "slide" \in DOMAIN c /\ "container" \in DOMAIN c /\ "ids" \notin DOMAIN c
             /\ c.type \in ElementTypes \ WithIds
  BY <1>2 DEF CommandsOnOne, WithIds, ElementTypes
<1>3. ASSUME NEW s, c \in InsertCommands(d, me, s)
      PROVE  /\ "slide" \in DOMAIN c /\ "container" \in DOMAIN c /\ "ids" \notin DOMAIN c
             /\ c.type \in ElementTypes \ WithIds
  BY <1>3 DEF InsertCommands, WithIds, ElementTypes
<1>4. WithIds \subseteq ElementTypes
  BY DEF WithIds, ElementTypes
<1> QED BY <1>1, <1>2, <1>3, <1>4 DEF ElementCommands

\* A tree has the elements it is made from, and only elements of the deck.
LEMMA TreeContains ==
    ASSUME NEW d, NEW E
    PROVE  Tree(d, E) \subseteq DOMAIN d.els /\ E \cap DOMAIN d.els \subseteq Tree(d, E)
  BY DEF Tree

\* What the helpers of the engine leave alone.
LEMMA EditedFrame ==
    ASSUME NEW d, HasShape(d), NEW E, NEW F, NEW by
    PROVE  LET r == Edited(d, E, F, by) IN
           /\ DOMAIN r = DOMAIN d
           /\ r.deck = d.deck /\ r.themes = d.themes /\ r.masters = d.masters
           /\ r.layouts = d.layouts /\ r.slides = d.slides /\ r.assets = d.assets
           /\ DOMAIN r.els = DOMAIN d.els
           /\ \A e \in DOMAIN d.els :
                /\ e \notin E => r.els[e] = d.els[e]
                /\ DOMAIN r.els[e] = DOMAIN d.els[e]
                /\ DOMAIN r.els[e].by = Fields
                /\ r.els[e].slide = d.els[e].slide /\ r.els[e].parent = d.els[e].parent
                /\ r.els[e].kind = d.els[e].kind /\ r.els[e].slot = d.els[e].slot
  BY DEF Edited, HasShape

LEMMA AssignedFrame ==
    ASSUME NEW d, HasShape(d), NEW E, NEW attribute, NEW value
    PROVE  LET r == Assigned(d, E, attribute, value) IN
           /\ DOMAIN r = DOMAIN d
           /\ r.deck = d.deck /\ r.themes = d.themes /\ r.masters = d.masters
           /\ r.layouts = d.layouts /\ r.slides = d.slides /\ r.assets = d.assets
           /\ DOMAIN r.els = DOMAIN d.els
           /\ \A e \in DOMAIN d.els :
                /\ DOMAIN r.els[e] = DOMAIN d.els[e]
                /\ attribute # "by" => r.els[e].by = d.els[e].by
                /\ attribute # "slide" => r.els[e].slide = d.els[e].slide
  BY DEF Assigned, HasShape

LEMMA RemappedFrame ==
    ASSUME NEW d, NEW new, NEW S, "els" \in DOMAIN new,
           \A e \in DOMAIN new.els : {"slot", "by", "slide"} \subseteq DOMAIN new.els[e]
    PROVE  LET r == Remapped(d, new, S) IN
           /\ DOMAIN r = DOMAIN new
           /\ \A field \in DOMAIN new : field # "els" => r[field] = new[field]
           /\ DOMAIN r.els = DOMAIN new.els
           /\ \A e \in DOMAIN new.els :
                /\ DOMAIN r.els[e] = DOMAIN new.els[e]
                /\ r.els[e].by = new.els[e].by
                /\ r.els[e].slide = new.els[e].slide
  BY DEF Remapped, RemappedFrom

\* What x is in the decks' tables f and g, and who its author is, is the same.
Same(f, g, x) == (x \in DOMAIN f <=> x \in DOMAIN g) /\ (x \in DOMAIN f => g[x] = f[x])
SameAuthor(f, g, x) ==
  (x \in DOMAIN f <=> x \in DOMAIN g) /\ (x \in DOMAIN f => g[x].by = f[x].by)

\* What is outside the keys W is in r as it was in d, by the same authors.
Untouched(d, r, W) ==
  /\ \A k : DeckKey(k) \notin W => Same(d.deck, r.deck, k)
  /\ \A t : Theme(t) \notin W => Same(d.themes, r.themes, t)
  /\ \A m : Master(m) \notin W => SameAuthor(d.masters, r.masters, m)
  /\ \A l : Layout(l) \notin W => SameAuthor(d.layouts, r.layouts, l)
  /\ \A s : Slide(s) \notin W => SameAuthor(d.slides, r.slides, s)
  /\ \A e : Element(e) \notin W => SameAuthor(d.els, r.els, e)

\* The helpers keep the shape of a deck and touch only the keys given to them.
LEMMA RemappedKeeps ==
    ASSUME NEW d, NEW new, HasShape(new), NEW S, NEW W, Untouched(d, new, W)
    PROVE  HasShape(Remapped(d, new, S)) /\ Untouched(d, Remapped(d, new, S), W)
<1> DEFINE r == Remapped(d, new, S)
<1>1. /\ DOMAIN r = DOMAIN new
      /\ r.deck = new.deck /\ r.themes = new.themes /\ r.masters = new.masters
      /\ r.layouts = new.layouts /\ r.slides = new.slides
      /\ DOMAIN r.els = DOMAIN new.els
      /\ \A e \in DOMAIN new.els :
           /\ DOMAIN r.els[e] = DOMAIN new.els[e]
           /\ r.els[e].by = new.els[e].by
           /\ r.els[e].slide = new.els[e].slide
  <2>1. /\ "els" \in DOMAIN new
        /\ \A e \in DOMAIN new.els : {"slot", "by", "slide"} \subseteq DOMAIN new.els[e]
    BY DEF HasShape
  <2> QED BY <2>1, RemappedFrame DEF HasShape
<1> HIDE DEF r
<1>2. HasShape(r)
  BY <1>1 DEF HasShape
<1>3. Untouched(d, r, W)
  BY <1>1 DEF Untouched, SameAuthor
<1> QED BY <1>2, <1>3 DEF r

LEMMA EditedKeeps ==
    ASSUME NEW d, HasShape(d), NEW E, NEW F, NEW by,
           NEW W, \A e \in E : Element(e) \in W
    PROVE  HasShape(Edited(d, E, F, by)) /\ Untouched(d, Edited(d, E, F, by), W)
<1> DEFINE r == Edited(d, E, F, by)
<1>1. /\ DOMAIN r = DOMAIN d
      /\ r.deck = d.deck /\ r.themes = d.themes /\ r.masters = d.masters
      /\ r.layouts = d.layouts /\ r.slides = d.slides
      /\ DOMAIN r.els = DOMAIN d.els
      /\ \A e \in DOMAIN d.els :
           /\ e \notin E => r.els[e] = d.els[e]
           /\ DOMAIN r.els[e] = DOMAIN d.els[e]
           /\ DOMAIN r.els[e].by = Fields
           /\ r.els[e].slide = d.els[e].slide
  BY EditedFrame
<1> HIDE DEF r
<1>2. HasShape(r)
  BY <1>1 DEF HasShape
<1>3. Untouched(d, r, W)
  BY <1>1 DEF Untouched, Same, SameAuthor
<1> QED BY <1>2, <1>3 DEF r

LEMMA AssignedKeeps ==
    ASSUME NEW d, HasShape(d), NEW E, NEW attribute, attribute \notin {"by", "slide"},
           NEW value, NEW W
    PROVE  /\ HasShape(Assigned(d, E, attribute, value))
           /\ Untouched(d, Assigned(d, E, attribute, value), W)
<1> DEFINE r == Assigned(d, E, attribute, value)
<1>1. /\ DOMAIN r = DOMAIN d
      /\ r.deck = d.deck /\ r.themes = d.themes /\ r.masters = d.masters
      /\ r.layouts = d.layouts /\ r.slides = d.slides
      /\ DOMAIN r.els = DOMAIN d.els
      /\ \A e \in DOMAIN d.els :
           /\ DOMAIN r.els[e] = DOMAIN d.els[e]
           /\ r.els[e].by = d.els[e].by /\ r.els[e].slide = d.els[e].slide
  BY AssignedFrame
<1> HIDE DEF r
<1>2. HasShape(r)
  BY <1>1 DEF HasShape
<1>3. Untouched(d, r, W)
  BY <1>1 DEF Untouched, Same, SameAuthor
<1> QED BY <1>2, <1>3 DEF r

LEMMA UntouchedTwice ==
    ASSUME NEW d, NEW e, NEW r, NEW W, Untouched(d, e, W), Untouched(e, r, W)
    PROVE  Untouched(d, r, W)
  BY DEF Untouched, Same, SameAuthor

\* The commands that name no slide, by the resource they are about.
LEMMA DeckStep ==
    ASSUME NEW d, HasShape(d), NEW c, NEW by, NEW r \in ResourceCommand(d, c, by),
           c.type \in {"deck.set", "slide.create", "asset.register", "asset.remove"}
    PROVE  HasShape(r) /\ Untouched(d, r, ResourceWrites(d, c))
<1> USE DEF Same, SameAuthor, DeckKey, Theme, Master, Layout, Slide, Element
<1>1. CASE c.type = "deck.set"
  <2>1. r = [d EXCEPT !.deck[c.key] = by]
    BY <1>1 DEF ResourceCommand
  <2>2. ResourceWrites(d, c) = {DeckKey(c.key)}
    BY <1>1 DEF ResourceWrites
  <2>3. HasShape(r)
    BY <2>1 DEF HasShape
  <2> QED BY <2>1, <2>2, <2>3 DEF HasShape, Untouched
<1>2. CASE c.type = "slide.create"
  <2>1. r = [d EXCEPT !.slides = With(@, c.id, [layout |-> c.layout, asset |-> None, by |-> by])]
    BY <1>2 DEF ResourceCommand, CreateSlide
  <2>2. Slide(c.id) \in ResourceWrites(d, c)
    BY <1>2 DEF ResourceWrites, NewSlideKeys
  <2>3. HasShape(r)
    BY <2>1 DEF HasShape, With
  <2> QED BY <2>1, <2>2, <2>3 DEF HasShape, Untouched, With
<1>3. CASE c.type \in {"asset.register", "asset.remove"}
  <2>1. \E A : r = [d EXCEPT !.assets = A]
    BY <1>3 DEF ResourceCommand, When
  <2>2. HasShape(r)
    BY <2>1 DEF HasShape
  <2> QED BY <2>1, <2>2 DEF HasShape, Untouched
<1> QED BY <1>1, <1>2, <1>3

\* The keys of a slide's tree have those of the slide and of its elements.
LEMMA SlideTreeKeysHold ==
    ASSUME NEW d, HasShape(d), NEW S, NEW s \in S
    PROVE  /\ Slide(s) \in SlideTreeKeys(d, S)
           /\ \A e \in OnSlide(d, s) : Element(e) \in SlideTreeKeys(d, S)
<1>1. OnSlide(d, s) \subseteq Tree(d, OnSlide(d, s))
  BY TreeContains DEF OnSlide
<1>2. \A e \in OnSlide(d, s) : Element(e) \in TreeKeys(d, s, OnSlide(d, s))
  BY <1>1 DEF TreeKeys
<1> QED BY <1>2 DEF SlideTreeKeys

LEMMA ThemeStep ==
    ASSUME NEW d, HasShape(d), NEW c, NEW by, NEW r \in ResourceCommand(d, c, by),
           c.type \in {"theme.create", "theme.update", "theme.enforce-deck", "theme.delete"}
    PROVE  HasShape(r) /\ Untouched(d, r, ResourceWrites(d, c))
<1> USE DEF Same, SameAuthor, DeckKey, Theme, Master, Layout, Slide, Element
<1>1. CASE c.type = "theme.create"
  <2>1. r = [d EXCEPT !.themes = With(@, c.id, by)]
    BY <1>1 DEF ResourceCommand
  <2>2. Theme(c.id) \in ResourceWrites(d, c)
    BY <1>1 DEF ResourceWrites
  <2>3. HasShape(r)
    BY <2>1 DEF HasShape
  <2> QED BY <2>1, <2>2, <2>3 DEF HasShape, Untouched, With
<1>2. CASE c.type = "theme.update"
  <2>1. r = [d EXCEPT !.themes[c.id] = by]
    BY <1>2 DEF ResourceCommand, When
  <2>2. Theme(c.id) \in ResourceWrites(d, c)
    BY <1>2 DEF ResourceWrites
  <2>3. HasShape(r)
    BY <2>1 DEF HasShape
  <2> QED BY <2>1, <2>2, <2>3 DEF HasShape, Untouched
<1>3. CASE c.type = "theme.delete"
  <2> DEFINE M == [m \in DOMAIN d.masters |->
                     IF m \in {x \in DOMAIN d.masters : d.masters[x].theme = c.id}
                     THEN [d.masters[m] EXCEPT !.theme = c.replacement] ELSE d.masters[m]]
  <2>1. r = [d EXCEPT !.themes = Without(@, {c.id}), !.masters = M]
    BY <1>3 DEF ResourceCommand, DeleteTheme, When
  <2>2. Theme(c.id) \in ResourceWrites(d, c)
    BY <1>3 DEF ResourceWrites
  <2>3. DOMAIN M = DOMAIN d.masters
    OBVIOUS
  <2>4. \A m \in DOMAIN d.masters :
           DOMAIN M[m] = DOMAIN d.masters[m] /\ M[m].by = d.masters[m].by
    BY DEF HasShape
  <2> HIDE DEF M
  <2>5. HasShape(r)
    BY <2>1, <2>3, <2>4 DEF HasShape
  <2> QED BY <2>1, <2>2, <2>3, <2>4, <2>5 DEF HasShape, Untouched, Without, Restrict
<1>4. CASE c.type = "theme.enforce-deck"
  <2> DEFINE restyled(f) == [x \in DOMAIN f |-> [f[x] EXCEPT !.by = by]]
             M == [m \in DOMAIN d.masters |-> [d.masters[m] EXCEPT !.theme = c.id, !.by = by]]
             d1 == [d EXCEPT !.deck["background"] = by, !.masters = M,
                             !.layouts = restyled(@), !.slides = restyled(@)]
             W == ResourceWrites(d, c)
  <2>1. r = Edited(d1, DOMAIN d.els, {"style"}, by)
    BY <1>4 DEF ResourceCommand, EnforceTheme, When
  <2>2. HasShape(d1)
    BY DEF HasShape
  <2>3. /\ d1.els = d.els /\ d1.themes = d.themes
        /\ DOMAIN d1.deck = DOMAIN d.deck
        /\ \A k \in DOMAIN d.deck : k # "background" => d1.deck[k] = d.deck[k]
        /\ DOMAIN d1.masters = DOMAIN d.masters /\ DOMAIN d1.layouts = DOMAIN d.layouts
        /\ DOMAIN d1.slides = DOMAIN d.slides
    BY DEF HasShape
  <2>4. /\ DOMAIN r = DOMAIN d1
        /\ r.deck = d1.deck /\ r.themes = d1.themes /\ r.masters = d1.masters
        /\ r.layouts = d1.layouts /\ r.slides = d1.slides
        /\ DOMAIN r.els = DOMAIN d1.els
        /\ \A e \in DOMAIN d1.els :
             /\ DOMAIN r.els[e] = DOMAIN d1.els[e] /\ DOMAIN r.els[e].by = Fields
             /\ r.els[e].slide = d1.els[e].slide
    <3> HIDE DEF d1
    <3> QED BY <2>1, <2>2, EditedFrame
  <2> HIDE DEF d1
  <2>5. HasShape(r)
    BY <2>2, <2>4 DEF HasShape
  <2>6. /\ DeckKey("background") \in W
        /\ \A m \in DOMAIN d.masters : Master(m) \in W
        /\ \A l \in DOMAIN d.layouts : Layout(l) \in W
        /\ SlideTreeKeys(d, DOMAIN d.slides) \subseteq W
    BY <1>4 DEF ResourceWrites
  <2>7. \A s \in DOMAIN d.slides :
          Slide(s) \in W /\ \A e \in OnSlide(d, s) : Element(e) \in W
    BY <2>6, SlideTreeKeysHold
  <2>8. \A e \in DOMAIN d.els : Element(e) \in W
    BY <2>7 DEF HasShape, OnSlide
  <2> HIDE DEF W
  <2>9. Untouched(d, r, W)
    <3>1. \A k : DeckKey(k) \notin W => Same(d.deck, r.deck, k)
      BY <2>3, <2>4, <2>6
    <3>2. \A x : Theme(x) \notin W => Same(d.themes, r.themes, x)
      BY <2>3, <2>4
    <3>3. \A m : Master(m) \notin W => SameAuthor(d.masters, r.masters, m)
      BY <2>3, <2>4, <2>6
    <3>4. \A l : Layout(l) \notin W => SameAuthor(d.layouts, r.layouts, l)
      BY <2>3, <2>4, <2>6
    <3>5. \A s : Slide(s) \notin W => SameAuthor(d.slides, r.slides, s)
      BY <2>3, <2>4, <2>7
    <3>6. \A e : Element(e) \notin W => SameAuthor(d.els, r.els, e)
      BY <2>3, <2>4, <2>8
    <3> QED BY <3>1, <3>2, <3>3, <3>4, <3>5, <3>6 DEF Untouched
  <2> QED BY <2>5, <2>9 DEF W
<1> QED BY <1>1, <1>2, <1>3, <1>4

LEMMA MasterStep ==
    ASSUME NEW d, HasShape(d), NEW c, NEW by, NEW r \in ResourceCommand(d, c, by),
           c.type \in {"master.create", "master.update", "master.delete"}
    PROVE  HasShape(r) /\ Untouched(d, r, ResourceWrites(d, c))
<1> USE DEF Same, SameAuthor, DeckKey, Theme, Master, Layout, Slide, Element
<1>1. CASE c.type = "master.create"
  <2>1. r = [d EXCEPT !.masters = With(@, c.id, [theme |-> c.theme, slots |-> c.slots, by |-> by])]
    BY <1>1 DEF ResourceCommand
  <2>2. Master(c.id) \in ResourceWrites(d, c)
    BY <1>1 DEF ResourceWrites
  <2>3. HasShape(r)
    BY <2>1 DEF HasShape, With
  <2> QED BY <2>1, <2>2, <2>3 DEF HasShape, Untouched, With
<1>2. CASE c.type = "master.update"
  <2> DEFINE new == [d EXCEPT !.masters[c.id] = [theme |-> c.theme, slots |-> c.slots, by |-> by]]
             S == SlidesOfMaster(d, c.id)
  <2>1. r = Remapped(d, new, S)
    BY <1>2 DEF ResourceCommand, UpdateMaster, When
  <2>2. Master(c.id) \in ResourceWrites(d, c)
    BY <1>2 DEF ResourceWrites
  <2>3. HasShape(new)
    BY DEF HasShape
  <2>4. Untouched(d, new, ResourceWrites(d, c))
    BY <2>2 DEF HasShape, Untouched
  <2> HIDE DEF new, S
  <2> QED BY <2>1, <2>3, <2>4, RemappedKeeps
<1>3. CASE c.type = "master.delete"
  <2> DEFINE L == [l \in DOMAIN d.layouts |->
                     IF l \in LayoutsOfMaster(d, c.id)
                     THEN [d.layouts[l] EXCEPT !.master = c.replacement] ELSE d.layouts[l]]
             new == [d EXCEPT !.masters = Without(@, {c.id}), !.layouts = L]
             S == SlidesOfMaster(d, c.id)
  <2>1. r = Remapped(d, new, S)
    BY <1>3 DEF ResourceCommand, DeleteMaster, When
  <2>2. Master(c.id) \in ResourceWrites(d, c)
    BY <1>3 DEF ResourceWrites
  <2>3. /\ DOMAIN L = DOMAIN d.layouts
        /\ \A l \in DOMAIN d.layouts :
             DOMAIN L[l] = DOMAIN d.layouts[l] /\ L[l].by = d.layouts[l].by
    BY DEF HasShape
  <2> HIDE DEF L
  <2>4. HasShape(new)
    BY <2>3 DEF HasShape, Without, Restrict
  <2>5. Untouched(d, new, ResourceWrites(d, c))
    BY <2>2, <2>3 DEF HasShape, Untouched, Without, Restrict
  <2> HIDE DEF new, S
  <2> QED BY <2>1, <2>4, <2>5, RemappedKeeps
<1> QED BY <1>1, <1>2, <1>3

LEMMA LayoutStep ==
    ASSUME NEW d, HasShape(d), NEW c, NEW by, NEW r \in ResourceCommand(d, c, by),
           c.type \in {"layout.create", "layout.update", "layout.delete"}
    PROVE  HasShape(r) /\ Untouched(d, r, ResourceWrites(d, c))
<1> USE DEF Same, SameAuthor, DeckKey, Theme, Master, Layout, Slide, Element
<1>1. CASE c.type = "layout.create"
  <2>1. r = [d EXCEPT !.layouts = With(@, c.id, [master |-> c.master, slots |-> c.slots, by |-> by])]
    BY <1>1 DEF ResourceCommand
  <2>2. Layout(c.id) \in ResourceWrites(d, c)
    BY <1>1 DEF ResourceWrites
  <2>3. HasShape(r)
    BY <2>1 DEF HasShape, With
  <2> QED BY <2>1, <2>2, <2>3 DEF HasShape, Untouched, With
<1>2. CASE c.type = "layout.update"
  <2> DEFINE new == [d EXCEPT !.layouts[c.id] = [master |-> c.master, slots |-> c.slots, by |-> by]]
             S == SlidesOfLayout(d, c.id)
  <2>1. r = Remapped(d, new, S)
    BY <1>2 DEF ResourceCommand, UpdateLayout, When
  <2>2. Layout(c.id) \in ResourceWrites(d, c)
    BY <1>2 DEF ResourceWrites
  <2>3. HasShape(new)
    BY DEF HasShape
  <2>4. Untouched(d, new, ResourceWrites(d, c))
    BY <2>2 DEF HasShape, Untouched
  <2> HIDE DEF new, S
  <2> QED BY <2>1, <2>3, <2>4, RemappedKeeps
<1>3. CASE c.type = "layout.delete"
  <2> DEFINE P == [s \in DOMAIN d.slides |->
                     IF s \in SlidesOfLayout(d, c.id)
                     THEN [d.slides[s] EXCEPT !.layout = c.replacement] ELSE d.slides[s]]
             new == [d EXCEPT !.layouts = Without(@, {c.id}), !.slides = P]
             S == SlidesOfLayout(d, c.id)
  <2>1. r = Remapped(d, new, S)
    BY <1>3 DEF ResourceCommand, DeleteLayout, When
  <2>2. Layout(c.id) \in ResourceWrites(d, c)
    BY <1>3 DEF ResourceWrites
  <2>3. /\ DOMAIN P = DOMAIN d.slides
        /\ \A s \in DOMAIN d.slides :
             DOMAIN P[s] = DOMAIN d.slides[s] /\ P[s].by = d.slides[s].by
    BY DEF HasShape
  <2> HIDE DEF P
  <2>4. HasShape(new)
    BY <2>3 DEF HasShape, Without, Restrict
  <2>5. Untouched(d, new, ResourceWrites(d, c))
    BY <2>2, <2>3 DEF HasShape, Untouched, Without, Restrict
  <2> HIDE DEF new, S
  <2> QED BY <2>1, <2>4, <2>5, RemappedKeeps
<1> QED BY <1>1, <1>2, <1>3

\* The keys of a tree have those of its elements.
LEMMA TreeKeysHold ==
    ASSUME NEW d, NEW s, NEW E, E \subseteq OnSlide(d, s)
    PROVE  \A e \in Tree(d, E) : Element(e) \in TreeKeys(d, s, E)
<1>1. E \cap OnSlide(d, s) = E
  OBVIOUS
<1> QED BY <1>1 DEF TreeKeys

\* The commands on a slide.
LEMMA SlideStep ==
    ASSUME NEW d, HasShape(d), NEW c, c.slide \in DOMAIN d.slides, c.type \in SlideTypes,
           NEW by, NEW r \in SlideCommand(d, c, by)
    PROVE  HasShape(r) /\ Untouched(d, r, SlideWrites(d, c))
<1> USE DEF Same, SameAuthor, DeckKey, Theme, Master, Layout, Slide, Element
<1>1. CASE c.type = "slide.duplicate"
  <2>1. r = [d EXCEPT !.slides = With(@, c.id, [layout |-> c.layout, asset |-> None, by |-> by])]
    BY <1>1 DEF SlideCommand, CreateSlide
  <2>2. Slide(c.id) \in SlideWrites(d, c)
    BY <1>1 DEF SlideWrites, NewSlideKeys
  <2>3. HasShape(r)
    BY <2>1 DEF HasShape, With
  <2> QED BY <2>1, <2>2, <2>3 DEF HasShape, Untouched, With
<1>2. CASE c.type = "slide.delete"
  <2> DEFINE E == OnSlide(d, c.slide)
  <2>1. r = [d EXCEPT !.slides = Without(@, {c.slide}), !.els = Without(@, E)]
    BY <1>2 DEF SlideCommand, When
  <2>2. Slide(c.slide) \in SlideWrites(d, c) /\ TreeKeys(d, c.slide, E) \subseteq SlideWrites(d, c)
    BY <1>2 DEF SlideWrites
  <2>3. \A e \in E : Element(e) \in SlideWrites(d, c)
    <3>1. E \subseteq Tree(d, E)
      BY TreeContains DEF OnSlide
    <3> QED BY <2>2, <3>1, TreeKeysHold
  <2>4. HasShape(r)
    <3>1. r.els = Without(d.els, E) /\ r.slides = Without(d.slides, {c.slide})
      BY <2>1 DEF HasShape
    <3>2. DOMAIN r.els = DOMAIN d.els \ E /\ \A e \in DOMAIN r.els : r.els[e] = d.els[e]
      BY <3>1 DEF Without, Restrict
    <3>3. \A e \in DOMAIN r.els : d.els[e].slide # c.slide
      BY <3>2 DEF OnSlide
    <3>4. /\ DOMAIN r.slides = DOMAIN d.slides \ {c.slide}
          /\ \A s \in DOMAIN r.slides : r.slides[s] = d.slides[s]
      BY <3>1 DEF Without, Restrict
    <3>5. IsFiniteSet(DOMAIN r.els)
      BY <3>2, FS_Subset DEF HasShape
    <3>6. DOMAIN r = DOMAIN d /\ r.masters = d.masters /\ r.layouts = d.layouts
      BY <2>1 DEF HasShape
    <3> QED BY <3>2, <3>3, <3>4, <3>5, <3>6 DEF HasShape
  <2> QED BY <2>1, <2>2, <2>3, <2>4 DEF HasShape, Untouched, Without, Restrict
<1>3. CASE c.type = "slide.reorder"
  <2>1. r = [d EXCEPT !.deck["slide-order"] = by]
    BY <1>3 DEF SlideCommand
  <2>2. DeckKey("slide-order") \in SlideWrites(d, c)
    BY <1>3 DEF SlideWrites
  <2>3. HasShape(r)
    BY <2>1 DEF HasShape
  <2> QED BY <2>1, <2>2, <2>3 DEF HasShape, Untouched
<1>4. CASE c.type = "slide.update"
  <2>1. r = [d EXCEPT !.slides[c.slide] =
               [@ EXCEPT !.by = by, !.asset = IF c.asset = Keep THEN @ ELSE c.asset]]
    BY <1>4 DEF SlideCommand
  <2>2. Slide(c.slide) \in SlideWrites(d, c)
    BY <1>4 DEF SlideWrites
  <2>3. HasShape(r)
    BY <2>1 DEF HasShape
  <2> QED BY <2>1, <2>2, <2>3 DEF HasShape, Untouched
<1>5. CASE c.type = "slide.set-layout"
  <2> DEFINE new == [d EXCEPT !.slides[c.slide].layout = c.layout, !.slides[c.slide].by = by]
  <2>1. r = Remapped(d, new, {c.slide})
    BY <1>5 DEF SlideCommand, SetLayout, When
  <2>2. Slide(c.slide) \in SlideWrites(d, c)
    BY <1>5 DEF SlideWrites
  <2>3. HasShape(new)
    BY DEF HasShape
  <2>4. Untouched(d, new, SlideWrites(d, c))
    BY <2>2 DEF HasShape, Untouched
  <2> HIDE DEF new
  <2> QED BY <2>1, <2>3, <2>4, RemappedKeeps
<1>6. CASE c.type = "slide.reset-placeholder"
  <2> DEFINE E == BoundTo(d, c.slide, c.placeholder)
  <2>1. r = Edited(d, E, {"frame", "shown", "style"}, by)
    BY <1>6 DEF SlideCommand, ResetPlaceholder, When
  <2>2. TreeKeys(d, c.slide, E) \subseteq SlideWrites(d, c)
    BY <1>6 DEF SlideWrites
  <2>3. \A e \in E : Element(e) \in SlideWrites(d, c)
    <3>1. E \subseteq OnSlide(d, c.slide) /\ E \subseteq DOMAIN d.els
      BY DEF BoundTo, OnSlide
    <3>2. E \subseteq Tree(d, E)
      BY <3>1, TreeContains
    <3> QED BY <2>2, <3>1, <3>2, TreeKeysHold
  <2> HIDE DEF E
  <2> QED BY <2>1, <2>3, EditedKeeps
<1> QED BY <1>1, <1>2, <1>3, <1>4, <1>5, <1>6 DEF SlideTypes

\* The keys of what an element command names.
LEMMA NamedAreWritten ==
    ASSUME NEW d, NEW c, c.type \in ElementTypes, "ids" \in DOMAIN c <=> c.type \in WithIds
    PROVE  /\ c.type \in WithIds => \A e \in c.ids : Element(e) \in ElementWrites(d, c)
           /\ c.type \notin WithIds \/ c.type = "element.group" => Element(c.id) \in ElementWrites(d, c)
<1>1. c.type \in WithIds => NamedIds(c) = c.ids
  BY DEF NamedIds
<1>2. c.type \notin WithIds => NamedIds(c) = {c.id}
  BY DEF NamedIds
<1>3. \A e \in NamedIds(c) : Element(e) \in ElementWrites(d, c)
  BY DEF ElementWrites, ElementWritesShallow
<1>4. c.type = "element.group" => Element(c.id) \in ElementWrites(d, c)
  BY DEF ElementWrites, ElementWritesShallow
<1> QED BY <1>1, <1>2, <1>3, <1>4

\* The commands on elements.
LEMMA DeleteStep ==
    ASSUME NEW d, HasShape(d), NEW c, "ids" \in DOMAIN c, c.type = "element.delete", NEW by,
           NEW r \in DeleteElements(d, c, by)
    PROVE  HasShape(r) /\ Untouched(d, r, ElementWrites(d, c))
<1> DEFINE gone == Tree(d, c.ids)
           loose == {e \in DOMAIN d.els \ gone : d.els[e].target \in gone}
           new == [d EXCEPT !.els = Without(@, gone)]
           W == ElementWrites(d, c)
<1>1. c.ids \subseteq OnSlide(d, c.slide) /\ r = Assigned(new, loose, "target", None)
  BY DEF DeleteElements, When, Editable, InContainer, Elements, OnSlide
<1>2. \A e \in gone : Element(e) \in W
  <2>1. NamedIds(c) = c.ids
    BY DEF NamedIds
  <2>2. TreeKeys(d, c.slide, c.ids) \subseteq W
    BY <2>1 DEF ElementWrites
  <2> QED BY <1>1, <2>2, TreeKeysHold
<1> HIDE DEF gone, loose, W
<1>3. /\ DOMAIN new.els = DOMAIN d.els \ gone
      /\ \A e \in DOMAIN new.els : new.els[e] = d.els[e]
  BY DEF HasShape, Without, Restrict
<1>4. /\ DOMAIN new = DOMAIN d
      /\ new.deck = d.deck /\ new.themes = d.themes /\ new.masters = d.masters
      /\ new.layouts = d.layouts /\ new.slides = d.slides
  BY DEF HasShape
<1> HIDE DEF new
<1>5. HasShape(new)
  <2>1. IsFiniteSet(DOMAIN new.els)
    BY <1>3, FS_Subset DEF HasShape
  <2> QED BY <1>3, <1>4, <2>1 DEF HasShape
<1>6. Untouched(d, new, W)
  BY <1>2, <1>3, <1>4 DEF Untouched, Same, SameAuthor
<1>7. HasShape(r) /\ Untouched(new, r, W)
  BY <1>1, <1>5, AssignedKeeps
<1> QED BY <1>6, <1>7, UntouchedTwice DEF W

LEMMA MoveStep ==
    ASSUME NEW d, HasShape(d), NEW c, NEW by, NEW r \in MoveElements(d, c, by),
           NEW W, \A e \in c.ids : Element(e) \in W
    PROVE  HasShape(r) /\ Untouched(d, r, W)
<1> DEFINE loose == {e \in c.ids : d.els[e].target # None}
           free == Assigned(d, loose, "target", None)
           signed == Edited(free, loose, {"target"}, by)
<1>1. r = Edited(signed, c.ids, {"frame"}, by)
  BY DEF MoveElements, When
<1>2. \A e \in loose : Element(e) \in W
  OBVIOUS
<1> HIDE DEF loose
<1>3. HasShape(free) /\ Untouched(d, free, W)
  BY AssignedKeeps
<1> HIDE DEF free
<1>4. HasShape(signed) /\ Untouched(free, signed, W)
  BY <1>2, <1>3, EditedKeeps
<1> HIDE DEF signed
<1>5. HasShape(r) /\ Untouched(signed, r, W)
  BY <1>1, <1>4, EditedKeeps
<1> QED BY <1>3, <1>4, <1>5, UntouchedTwice

\* An element of a slide that is added to a deck.
LEMMA AddElement ==
    ASSUME NEW d, HasShape(d), NEW id, NEW element, NEW W, Element(id) \in W,
           DOMAIN element = {"slide", "parent", "kind", "locked", "slot", "target", "asset", "by"},
           DOMAIN element.by = Fields, element.slide \in DOMAIN d.slides
    PROVE  LET r == [d EXCEPT !.els = With(@, id, element)]
           IN  HasShape(r) /\ Untouched(d, r, W)
<1> DEFINE r == [d EXCEPT !.els = With(@, id, element)]
<1>1. /\ DOMAIN r.els = DOMAIN d.els \cup {id} /\ r.els[id] = element
      /\ \A e \in DOMAIN d.els \ {id} : r.els[e] = d.els[e]
  BY DEF HasShape, With
<1>2. /\ DOMAIN r = DOMAIN d
      /\ r.deck = d.deck /\ r.themes = d.themes /\ r.masters = d.masters
      /\ r.layouts = d.layouts /\ r.slides = d.slides
  BY DEF HasShape
<1> HIDE DEF r
<1>3. IsFiniteSet(DOMAIN r.els)
  BY <1>1, FS_AddElement DEF HasShape
<1>4. HasShape(r)
  BY <1>1, <1>2, <1>3 DEF HasShape
<1>5. Untouched(d, r, W)
  BY <1>1, <1>2 DEF Untouched, Same, SameAuthor
<1> QED BY <1>4, <1>5 DEF r

LEMMA GroupStep ==
    ASSUME NEW d, HasShape(d), NEW c, c.slide \in DOMAIN d.slides, NEW by,
           NEW r \in GroupElements(d, c, by), NEW W, Element(c.id) \in W
    PROVE  HasShape(r) /\ Untouched(d, r, W)
<1> DEFINE new == Assigned(d, c.ids, "parent", c.id)
           element == NewElement(c.slide, c.container, "group", by)
<1>1. r = [new EXCEPT !.els = With(@, c.id, element)]
  BY DEF GroupElements, When
<1>2. HasShape(new) /\ Untouched(d, new, W)
  BY AssignedKeeps
<1>3. new.slides = d.slides
  BY AssignedFrame
<1> HIDE DEF new
<1>4. /\ DOMAIN element = {"slide", "parent", "kind", "locked", "slot", "target", "asset", "by"}
      /\ DOMAIN element.by = Fields /\ element.slide \in DOMAIN new.slides
  BY <1>3 DEF NewElement
<1> HIDE DEF element
<1>5. HasShape(r) /\ Untouched(new, r, W)
  BY <1>1, <1>2, <1>4, AddElement
<1> QED BY <1>2, <1>5, UntouchedTwice

LEMMA UngroupStep ==
    ASSUME NEW d, HasShape(d), NEW c, NEW by,
           NEW r \in UngroupElements(d, c, by), NEW W, Element(c.id) \in W
    PROVE  HasShape(r) /\ Untouched(d, r, W)
<1> DEFINE children == Elements(d, c.slide, c.id)
           new == Assigned(d, children, "parent", c.container)
<1>1. r = [new EXCEPT !.els = Without(@, {c.id})]
  BY DEF UngroupElements, When
<1> HIDE DEF children
<1>2. HasShape(new) /\ Untouched(d, new, W)
  BY AssignedKeeps
<1> HIDE DEF new
<1>3. /\ DOMAIN r.els = DOMAIN new.els \ {c.id}
      /\ \A e \in DOMAIN r.els : r.els[e] = new.els[e]
  BY <1>1, <1>2 DEF HasShape, Without, Restrict
<1>4. /\ DOMAIN r = DOMAIN new
      /\ r.deck = new.deck /\ r.themes = new.themes /\ r.masters = new.masters
      /\ r.layouts = new.layouts /\ r.slides = new.slides
  BY <1>1, <1>2 DEF HasShape
<1>5. HasShape(r)
  <2>1. IsFiniteSet(DOMAIN r.els)
    BY <1>2, <1>3, FS_Subset DEF HasShape
  <2> QED BY <1>2, <1>3, <1>4, <2>1 DEF HasShape
<1>6. Untouched(new, r, W)
  BY <1>3, <1>4 DEF Untouched, Same, SameAuthor
<1> QED BY <1>2, <1>5, <1>6, UntouchedTwice

\* Whatever is edited, one element's attribute is set too.
LEMMA EditedAndAssigned ==
    ASSUME NEW d, HasShape(d), NEW E, NEW F, NEW by, NEW attribute, NEW value,
           attribute \notin {"by", "slide"}, NEW W, \A e \in E : Element(e) \in W
    PROVE  /\ HasShape(Assigned(Edited(d, E, F, by), E, attribute, value))
           /\ Untouched(d, Assigned(Edited(d, E, F, by), E, attribute, value), W)
           /\ HasShape(Edited(Assigned(d, E, attribute, value), E, F, by))
           /\ Untouched(d, Edited(Assigned(d, E, attribute, value), E, F, by), W)
<1> DEFINE edited == Edited(d, E, F, by)
           assigned == Assigned(d, E, attribute, value)
<1>1. HasShape(edited) /\ Untouched(d, edited, W)
  BY EditedKeeps
<1>2. HasShape(assigned) /\ Untouched(d, assigned, W)
  BY AssignedKeeps
<1> HIDE DEF edited, assigned
<1>3. /\ HasShape(Assigned(edited, E, attribute, value))
      /\ Untouched(edited, Assigned(edited, E, attribute, value), W)
  BY <1>1, AssignedKeeps
<1>4. /\ HasShape(Edited(assigned, E, F, by))
      /\ Untouched(assigned, Edited(assigned, E, F, by), W)
  BY <1>2, EditedKeeps
<1>5. Untouched(d, Assigned(edited, E, attribute, value), W)
  BY <1>1, <1>3, UntouchedTwice
<1>6. Untouched(d, Edited(assigned, E, F, by), W)
  BY <1>2, <1>4, UntouchedTwice
<1> QED BY <1>3, <1>4, <1>5, <1>6 DEF edited, assigned

LEMMA ElementStep ==
    ASSUME NEW d, HasShape(d), NEW c, c.slide \in DOMAIN d.slides, c.type \in ElementTypes,
           "ids" \in DOMAIN c <=> c.type \in WithIds,
           NEW by, NEW r \in ElementCommand(d, c, by)
    PROVE  HasShape(r) /\ Untouched(d, r, ElementWrites(d, c))
<1> DEFINE W == ElementWrites(d, c)
<1>1. /\ c.type \in WithIds => \A e \in c.ids : Element(e) \in W
      /\ c.type \notin WithIds \/ c.type = "element.group" => Element(c.id) \in W
  BY NamedAreWritten
<1> HIDE DEF W
<1>2. CASE c.type = "element.insert"
  <2> DEFINE element == [NewElement(c.slide, c.container, c.kind, by)
                            EXCEPT !.asset = c.asset, !.target = c.target]
  <2>1. r = [d EXCEPT !.els = With(@, c.id, element)]
    BY <1>2 DEF ElementCommand, InsertElement, When
  <2>2. /\ DOMAIN element = {"slide", "parent", "kind", "locked", "slot", "target", "asset", "by"}
        /\ DOMAIN element.by = Fields /\ element.slide \in DOMAIN d.slides
    BY DEF NewElement
  <2> HIDE DEF element
  <2>3. Element(c.id) \in W
    BY <1>1, <1>2 DEF WithIds
  <2> QED BY <2>1, <2>2, <2>3, AddElement DEF W
<1>3. CASE c.type = "element.update"
  <2>1. PICK F : r = Assigned(Edited(d, {c.id}, F, by), {c.id}, "slot", c.was[c.id].slot)
    BY <1>3 DEF ElementCommand, UpdateElement, When
  <2>2. Element(c.id) \in W
    BY <1>1, <1>3 DEF WithIds
  <2> QED BY <2>1, <2>2, EditedAndAssigned DEF W
<1>4. CASE c.type = "element.delete"
  BY <1>4, DeleteStep DEF ElementCommand, WithIds
<1>5. CASE c.type \in {"element.transform", "element.align"}
  <2>1. r \in MoveElements(d, c, by)
    BY <1>5 DEF ElementCommand
  <2> QED BY <1>1, <1>5, <2>1, MoveStep DEF WithIds, W
<1>6. CASE c.type = "element.group"
  <2>1. r \in GroupElements(d, c, by)
    BY <1>6 DEF ElementCommand
  <2> QED BY <1>1, <1>6, <2>1, GroupStep DEF W
<1>7. CASE c.type = "element.ungroup"
  <2>1. r \in UngroupElements(d, c, by)
    BY <1>7 DEF ElementCommand
  <2> QED BY <1>1, <1>7, <2>1, UngroupStep DEF W, WithIds
<1>8. CASE c.type \in {"element.edit", "element.reorder"}
  <2>1. r = Edited(d, {c.id}, {c.field}, by)
    BY <1>8 DEF ElementCommand, EditElement, When
  <2>2. Element(c.id) \in W
    BY <1>1, <1>8 DEF WithIds
  <2> QED BY <2>1, <2>2, EditedKeeps DEF W
<1>9. CASE c.type = "element.set-locked"
  <2>1. r = Edited(Assigned(d, {c.id}, "locked", c.locked), {c.id}, {"lock"}, by)
    BY <1>9 DEF ElementCommand, When
  <2>2. Element(c.id) \in W
    BY <1>1, <1>9 DEF WithIds
  <2> QED BY <2>1, <2>2, EditedAndAssigned DEF W
<1>10. CASE c.type = "connector.update-endpoint"
  <2>1. r = Edited(Assigned(d, {c.id}, "target", c.target), {c.id}, {"target"}, by)
    BY <1>10 DEF ElementCommand, When
  <2>2. Element(c.id) \in W
    BY <1>1, <1>10 DEF WithIds
  <2> QED BY <2>1, <2>2, EditedAndAssigned DEF W
<1> QED BY <1>2, <1>3, <1>4, <1>5, <1>6, <1>7, <1>8, <1>9, <1>10 DEF ElementTypes

\* What analyzeCommandAccess declares covers what the command does.
LEMMA ExecuteStep ==
    ASSUME NEW d, HasShape(d), NEW x, NEW me, NEW c \in Commands(x, me),
           NEW by, NEW r \in Execute(d, c, by)
    PROVE  HasShape(r) /\ Untouched(d, r, Writes(d, c))
<1>1. CASE c \in ResourceCommands(x, me)
  <2>1. "slide" \notin DOMAIN c /\ c.type \in ResourceTypes
    BY <1>1, ResourceKinds
  <2>2. r \in ResourceCommand(d, c, by) /\ Writes(d, c) = ResourceWrites(d, c)
    BY <2>1 DEF Execute, Writes
  <2>3. \/ c.type \in {"deck.set", "slide.create", "asset.register", "asset.remove"}
        \/ c.type \in {"theme.create", "theme.update", "theme.enforce-deck", "theme.delete"}
        \/ c.type \in {"master.create", "master.update", "master.delete"}
        \/ c.type \in {"layout.create", "layout.update", "layout.delete"}
    BY <2>1 DEF ResourceTypes
  <2> QED BY <2>2, <2>3, DeckStep, ThemeStep, MasterStep, LayoutStep
<1>2. CASE c \in SlideCommands(x, me)
  <2>1. "slide" \in DOMAIN c /\ "container" \notin DOMAIN c /\ c.type \in SlideTypes
    BY <1>2, SlideKinds
  <2>2. /\ r \in SlideCommand(d, c, by) /\ Writes(d, c) = SlideWrites(d, c)
        /\ c.slide \in DOMAIN d.slides
    BY <2>1 DEF Execute, Writes
  <2> QED BY <2>1, <2>2, SlideStep
<1>3. CASE c \in ElementCommands(x, me)
  <2>1. /\ "slide" \in DOMAIN c /\ "container" \in DOMAIN c
        /\ c.type \in ElementTypes /\ ("ids" \in DOMAIN c <=> c.type \in WithIds)
    BY <1>3, ElementKinds
  <2>2. /\ r \in ElementCommand(d, c, by) /\ Writes(d, c) = ElementWrites(d, c)
        /\ c.slide \in DOMAIN d.slides
    BY <2>1 DEF Execute, Writes
  <2> QED BY <2>1, <2>2, ElementStep
<1> QED BY <1>1, <1>2, <1>3 DEF Commands

\* Whoever deletes an element writes its key, whatever the command and however
\* deep the element is in what it names: a text lease, which protects that key,
\* is seen by the host before the element goes (what CollabHost assumes of the
\* batches; addElementTreeWrites and addSlideTreeWrites in access.ts).
THEOREM DeletedElementIsWritten ==
    ASSUME NEW d, HasShape(d), NEW x, NEW me, NEW c \in Commands(x, me),
           NEW by, NEW r \in Execute(d, c, by), NEW e \in DOMAIN d.els \ DOMAIN r.els
    PROVE  Element(e) \in Writes(d, c)
<1>1. Untouched(d, r, Writes(d, c))
  BY ExecuteStep
<1> QED BY <1>1 DEF Untouched, SameAuthor

-----------------------------------------------------------------------------
(* Nothing unseen is lost.                                                   *)

\* The keys of what others have written are known to the host.
WorkIsWritten ==
  /\ \A k \in DOMAIN deck.deck : deck.deck[k] = Others => DeckKey(k) \in written
  /\ \A t \in DOMAIN deck.themes : deck.themes[t] = Others => Theme(t) \in written
  /\ \A m \in DOMAIN deck.masters : deck.masters[m].by = Others => Master(m) \in written
  /\ \A l \in DOMAIN deck.layouts : deck.layouts[l].by = Others => Layout(l) \in written
  /\ \A s \in DOMAIN deck.slides : deck.slides[s].by = Others => Slide(s) \in written
  /\ \A e \in DOMAIN deck.els : \A f \in Fields :
       deck.els[e].by[f] = Others => Element(e) \in written

\* The document keeps its shape and passes validation; while the guest has not
\* sent its batch, what others did is written.
StaleInv == HasShape(deck) /\ Valid(deck) /\ (phase = "open" => WorkIsWritten)

\* Nobody has written anything into the document at the guest's base.
LEMMA StaleInvInit == StaleInit => StaleInv
<1> SUFFICES ASSUME StaleInit PROVE StaleInv
  OBVIOUS
<1>1. Work(deck) = {} /\ HasShape(deck) /\ Valid(deck)
  BY InitialDeckAssumption DEF StaleInit
<1>2. WorkIsWritten
  <2>1. \A k \in DOMAIN deck.deck : deck.deck[k] = Others => <<"deck", k>> \in Work(deck)
    BY DEF Work
  <2>2. \A x \in DOMAIN deck.themes : deck.themes[x] = Others => <<"theme", x>> \in Work(deck)
    BY DEF Work
  <2>3. \A m \in DOMAIN deck.masters : deck.masters[m].by = Others => <<"master", m>> \in Work(deck)
    BY DEF Work
  <2>4. \A l \in DOMAIN deck.layouts : deck.layouts[l].by = Others => <<"layout", l>> \in Work(deck)
    BY DEF Work
  <2>5. \A s \in DOMAIN deck.slides : deck.slides[s].by = Others => <<"slide", s>> \in Work(deck)
    BY DEF Work
  <2>6. \A e \in DOMAIN deck.els : \A f \in Fields :
           deck.els[e].by[f] = Others => <<"element", e, f>> \in Work(deck)
    BY DEF Work
  <2> QED BY <1>1, <2>1, <2>2, <2>3, <2>4, <2>5, <2>6 DEF WorkIsWritten
<1> QED BY <1>1, <1>2 DEF StaleInv

\* A batch of the others: what it writes by ExecuteStep becomes known to the host.
LEMMA CommitOthersStep ==
    ASSUME StaleInv, NEW c \in Commands(deck, Others), CommitOthers(c)
    PROVE  StaleInv'
<1>1. deck' \in Execute(deck, c, Others) /\ Valid(deck')
  BY DEF CommitOthers, Apply
<1>2. HasShape(deck') /\ Untouched(deck, deck', Writes(deck, c))
  BY <1>1, ExecuteStep DEF StaleInv
<1>3. WorkIsWritten /\ written' = written \cup Writes(deck, c)
  BY DEF CommitOthers, StaleInv
<1>4. WorkIsWritten'
  <2>1. \A k \in DOMAIN deck'.deck : deck'.deck[k] = Others => DeckKey(k) \in written'
    BY <1>2, <1>3 DEF WorkIsWritten, Untouched, Same
  <2>2. \A t \in DOMAIN deck'.themes : deck'.themes[t] = Others => Theme(t) \in written'
    BY <1>2, <1>3 DEF WorkIsWritten, Untouched, Same
  <2>3. \A m \in DOMAIN deck'.masters : deck'.masters[m].by = Others => Master(m) \in written'
    BY <1>2, <1>3 DEF WorkIsWritten, Untouched, SameAuthor
  <2>4. \A l \in DOMAIN deck'.layouts : deck'.layouts[l].by = Others => Layout(l) \in written'
    BY <1>2, <1>3 DEF WorkIsWritten, Untouched, SameAuthor
  <2>5. \A s \in DOMAIN deck'.slides : deck'.slides[s].by = Others => Slide(s) \in written'
    BY <1>2, <1>3 DEF WorkIsWritten, Untouched, SameAuthor
  <2>6. \A e \in DOMAIN deck'.els : \A f \in Fields :
           deck'.els[e].by[f] = Others => Element(e) \in written'
    BY <1>2, <1>3 DEF WorkIsWritten, Untouched, SameAuthor
  <2> QED BY <2>1, <2>2, <2>3, <2>4, <2>5, <2>6 DEF WorkIsWritten
<1> QED BY <1>1, <1>2, <1>4 DEF StaleInv

\* The guest's batch: what it writes is disjoint from what is known, or it is refused.
LEMMA SubmitStaleStep ==
    ASSUME StaleInv, NEW c \in PreparedCommands, SubmitStale(c)
    PROVE  StaleInv' /\ Work(deck) \subseteq Work(deck')
<1>1. phase = "open" /\ phase' = "submitted" /\ WorkIsWritten
  BY DEF SubmitStale, StaleInv
<1>2. CASE deck' = deck
  BY <1>1, <1>2 DEF StaleInv
<1>3. CASE deck' # deck
  <2>1. MayRun(c) /\ deck' \in Apply(deck, c, Guest)
    BY <1>3 DEF SubmitStale, OrElse
  <2>2. deck' \in Execute(deck, c, Guest) /\ Valid(deck')
    BY <2>1 DEF Apply
  <2>3. c \in Commands(InitialDeck, Guest)
    BY DEF PreparedCommands
  <2>4. HasShape(deck') /\ Untouched(deck, deck', Writes(deck, c))
    BY <2>2, <2>3, ExecuteStep DEF StaleInv
  <2>5. \A key \in written : key \notin Writes(deck, c)
    BY <2>1 DEF MayRun
  <2>6. ASSUME NEW w \in Work(deck) PROVE w \in Work(deck')
    <3>1. CASE \E k \in DOMAIN deck.deck : deck.deck[k] = Others /\ w = <<"deck", k>>
      <4>1. PICK k \in DOMAIN deck.deck : deck.deck[k] = Others /\ w = <<"deck", k>>
        BY <3>1
      <4>2. k \in DOMAIN deck'.deck /\ deck'.deck[k] = Others
        BY <1>1, <2>4, <2>5, <4>1 DEF WorkIsWritten, Untouched, Same
      <4> QED BY <4>1, <4>2 DEF Work
    <3>2. CASE \E x \in DOMAIN deck.themes : deck.themes[x] = Others /\ w = <<"theme", x>>
      <4>1. PICK x \in DOMAIN deck.themes : deck.themes[x] = Others /\ w = <<"theme", x>>
        BY <3>2
      <4>2. x \in DOMAIN deck'.themes /\ deck'.themes[x] = Others
        BY <1>1, <2>4, <2>5, <4>1 DEF WorkIsWritten, Untouched, Same
      <4> QED BY <4>1, <4>2 DEF Work
    <3>3. CASE \E m \in DOMAIN deck.masters : deck.masters[m].by = Others /\ w = <<"master", m>>
      <4>1. PICK m \in DOMAIN deck.masters : deck.masters[m].by = Others /\ w = <<"master", m>>
        BY <3>3
      <4>2. m \in DOMAIN deck'.masters /\ deck'.masters[m].by = Others
        BY <1>1, <2>4, <2>5, <4>1 DEF WorkIsWritten, Untouched, SameAuthor
      <4> QED BY <4>1, <4>2 DEF Work
    <3>4. CASE \E l \in DOMAIN deck.layouts : deck.layouts[l].by = Others /\ w = <<"layout", l>>
      <4>1. PICK l \in DOMAIN deck.layouts : deck.layouts[l].by = Others /\ w = <<"layout", l>>
        BY <3>4
      <4>2. l \in DOMAIN deck'.layouts /\ deck'.layouts[l].by = Others
        BY <1>1, <2>4, <2>5, <4>1 DEF WorkIsWritten, Untouched, SameAuthor
      <4> QED BY <4>1, <4>2 DEF Work
    <3>5. CASE \E s \in DOMAIN deck.slides : deck.slides[s].by = Others /\ w = <<"slide", s>>
      <4>1. PICK s \in DOMAIN deck.slides : deck.slides[s].by = Others /\ w = <<"slide", s>>
        BY <3>5
      <4>2. s \in DOMAIN deck'.slides /\ deck'.slides[s].by = Others
        BY <1>1, <2>4, <2>5, <4>1 DEF WorkIsWritten, Untouched, SameAuthor
      <4> QED BY <4>1, <4>2 DEF Work
    <3>6. CASE \E e \in DOMAIN deck.els : \E f \in Fields :
                 deck.els[e].by[f] = Others /\ w = <<"element", e, f>>
      <4>1. PICK e \in DOMAIN deck.els, f \in Fields :
                 deck.els[e].by[f] = Others /\ w = <<"element", e, f>>
        BY <3>6
      <4>2. e \in DOMAIN deck'.els /\ deck'.els[e].by[f] = Others
        BY <1>1, <2>4, <2>5, <4>1 DEF WorkIsWritten, Untouched, SameAuthor
      <4> QED BY <4>1, <4>2 DEF Work
    <3> QED BY <3>1, <3>2, <3>3, <3>4, <3>5, <3>6 DEF Work
  <2> QED BY <1>1, <2>2, <2>4, <2>6 DEF StaleInv
<1> QED BY <1>2, <1>3

LEMMA StaleInvStep == StaleInv /\ [StaleNext]_staleVars => StaleInv'
<1> SUFFICES ASSUME StaleInv, [StaleNext]_staleVars PROVE StaleInv'
  OBVIOUS
<1>1. ASSUME NEW c \in Commands(deck, Others), CommitOthers(c) PROVE StaleInv'
  BY <1>1, CommitOthersStep
<1>2. ASSUME NEW c \in PreparedCommands, SubmitStale(c) PROVE StaleInv'
  BY <1>2, SubmitStaleStep
<1>3. CASE UNCHANGED staleVars
  BY <1>3 DEF staleVars, StaleInv, WorkIsWritten
<1> QED BY <1>1, <1>2, <1>3 DEF StaleNext

LEMMA StaleInductive == StaleSpec => []StaleInv
<1>1. StaleInv /\ [StaleNext]_staleVars => StaleInv'
  BY StaleInvStep
<1> QED BY StaleInvInit, <1>1, PTL DEF StaleSpec

\* A stale batch that the host still runs takes nothing away that others wrote
\* since the guest's base (KeepsUnseenWork; submit and assertCanApply in host.ts,
\* analyzeCommandAccess), for any document, any placeholders and any command.
THEOREM UnseenWorkIsKept == StaleSpec => KeepsUnseenWork
<1>1. StaleInv /\ [StaleNext]_staleVars => [phase' # phase => Work(deck) \subseteq Work(deck')]_staleVars
  <2> SUFFICES ASSUME StaleInv, StaleNext, phase' # phase
               PROVE  Work(deck) \subseteq Work(deck')
    OBVIOUS
  <2>1. ASSUME NEW c \in Commands(deck, Others), CommitOthers(c) PROVE FALSE
    BY <2>1 DEF CommitOthers
  <2>2. ASSUME NEW c \in PreparedCommands, SubmitStale(c)
        PROVE  Work(deck) \subseteq Work(deck')
    BY <2>2, SubmitStaleStep
  <2> QED BY <2>1, <2>2 DEF StaleNext
<1> QED BY <1>1, StaleInductive, PTL DEF StaleSpec, KeepsUnseenWork

-----------------------------------------------------------------------------
(* Bindings after a change of layouts.                                       *)

\* A set put in an order.
LEMMA SetToSeqIsBijection ==
    ASSUME NEW S, IsFiniteSet(S)
    PROVE  /\ Cardinality(S) \in Nat
           /\ DOMAIN SetToSeq(S) = 1..Cardinality(S)
           /\ Range(SetToSeq(S)) = S
           /\ \A m, n \in DOMAIN SetToSeq(S) : SetToSeq(S)[m] = SetToSeq(S)[n] => m = n
<1> DEFINE N == Cardinality(S)
           q == SetToSeq(S)
<1>1. N \in Nat /\ ExistsBijection(1..N, S)
  BY FS_CardinalityType
<1>2. PICK f \in [1..N -> S] : IsInjective(f)
  BY <1>1 DEF ExistsBijection, Bijection, Injection
<1>3. q \in [1..N -> S] /\ IsInjective(q)
  BY <1>2 DEF SetToSeq
<1> HIDE DEF q
<1>4. q \in Injection(1..N, S)
  BY <1>3 DEF Injection
<1>5. Cardinality(1..N) = N
  <2>1. 1 \in Int /\ N \in Int /\ (1 > N => N = 0) /\ N - 1 + 1 = N
    BY <1>1
  <2> HIDE DEF N
  <2> QED BY <2>1, FS_Interval
<1>6. q \in Surjection(1..N, S)
  BY <1>4, <1>5, FS_Injection
<1>7. Range(q) = S
  BY <1>6 DEF Surjection, Range
<1> QED BY <1>1, <1>3, <1>7 DEF q, IsInjective

\* f is what the first n elements of q choose.
AreChosenInTurn(f, d, new, s, q, R, N) ==
  f = [n \in 1..N |-> Replacement(d, new, s, q[n], R \cup {f[m] : m \in 1..(n - 1)})]

\* There are such choices, one by one: from n elements to n + 1.
LEMMA ChosenInTurnExist ==
    ASSUME NEW d, NEW new, NEW s, NEW q, NEW R, NEW N \in Nat
    PROVE  \E f : AreChosenInTurn(f, d, new, s, q, R, N)
<1> DEFINE T == {k \in Nat : \E f : AreChosenInTurn(f, d, new, s, q, R, k)}
<1>1. 0 \in T
  <2>1. AreChosenInTurn([n \in 1..0 |-> None], d, new, s, q, R, 0)
    BY DEF AreChosenInTurn
  <2> QED BY <2>1
<1>2. ASSUME NEW k \in Nat, k \in T PROVE k + 1 \in T
  <2>1. PICK f : AreChosenInTurn(f, d, new, s, q, R, k)
    BY <1>2
  <2> DEFINE last == Replacement(d, new, s, q[k + 1], R \cup {f[m] : m \in 1..k})
             g == [n \in 1..(k + 1) |-> IF n = k + 1 THEN last ELSE f[n]]
  <2>2. \A n \in 1..(k + 1) : \A m \in 1..(n - 1) : m \in 1..(k + 1) /\ g[m] = f[m]
    OBVIOUS
  <2>3. ASSUME NEW n \in 1..(k + 1)
        PROVE  g[n] = Replacement(d, new, s, q[n], R \cup {g[m] : m \in 1..(n - 1)})
    <3>1. {g[m] : m \in 1..(n - 1)} = {f[m] : m \in 1..(n - 1)}
      BY <2>2
    <3>2. CASE n = k + 1
      <4>1. n - 1 = k
        BY <3>2
      <4>2. g[n] = last
        BY <3>2
      <4> HIDE DEF g
      <4> QED BY <3>1, <3>2, <4>1, <4>2
    <3>3. CASE n # k + 1
      <4>1. n \in 1..k /\ g[n] = f[n]
        BY <3>3
      <4> HIDE DEF g
      <4> QED BY <2>1, <3>1, <4>1 DEF AreChosenInTurn
    <3> QED BY <3>2, <3>3
  <2>4. g = [n \in 1..(k + 1) |-> g[n]]
    OBVIOUS
  <2> HIDE DEF g
  <2>5. AreChosenInTurn(g, d, new, s, q, R, k + 1)
    BY <2>3, <2>4 DEF AreChosenInTurn
  <2> QED BY <2>5
<1>3. Nat \subseteq T
  <2> HIDE DEF T
  <2> QED BY <1>1, <1>2, NatSetInduction
<1> QED BY <1>3

LEMMA ChosenInTurnEquation ==
    ASSUME NEW d, NEW new, NEW s, NEW q, NEW R, NEW N \in Nat, DOMAIN q = 1..N
    PROVE  AreChosenInTurn(ChosenInTurn(d, new, s, q, R), d, new, s, q, R, N)
<1>1. ChosenInTurn(d, new, s, q, R) = CHOOSE f : AreChosenInTurn(f, d, new, s, q, R, N)
  BY DEF ChosenInTurn, AreChosenInTurn
<1>2. \E f : AreChosenInTurn(f, d, new, s, q, R, N)
  BY ChosenInTurnExist
<1> QED BY <1>1, <1>2

\* A replacement is an unused placeholder that the slide offers and that takes the element.
LEMMA ReplacementEffect ==
    ASSUME NEW d, NEW new, NEW s, NEW e, NEW used
    PROVE  LET p == Replacement(d, new, s, e, used) IN
           \/ p = None
           \/ p \in Offered(new, s) \ used /\ Takes(p, d.els[e])
<1> DEFINE free == {i \in DOMAIN Placeholders :
                 LET p == Placeholders[i] IN
                 /\ p \in Offered(new, s) \ used
                 /\ d.els[e].slot \in Offered(d, s)
                 /\ Role[p] = Role[d.els[e].slot]
                 /\ Takes(p, d.els[e])}
<1>1. free \subseteq Nat
  BY PlaceholdersAssumption
<1>2. CASE free = {}
  BY <1>2 DEF Replacement
<1>3. CASE free # {}
  <2>1. Min(free) \in free
    <3> HIDE DEF free
    <3> QED BY <1>1, <1>3, MinProperties
  <2>2. Replacement(d, new, s, e, used) = Placeholders[Min(free)]
    BY <1>3 DEF Replacement
  <2> DEFINE i == Min(free)
  <2>3. Placeholders[i] \in Offered(new, s) \ used /\ Takes(Placeholders[i], d.els[e])
    BY <2>1
  <2> QED BY <2>2, <2>3
<1> QED BY <1>2, <1>3

\* The elements that lose their placeholder get none, or one each that none of
\* the others has, kept or replaced: the kept ones are reserved first.
LEMMA ReplacementsEffect ==
    ASSUME NEW d, NEW new, NEW s, IsFiniteSet(BoundOn(d, s))
    PROVE  LET f == Replacements(d, new, s, TRUE)
               kept == {e \in BoundOn(d, s) : Keeps(d, new, s, e)}
           IN  /\ DOMAIN f = BoundOn(d, s) \ kept
               /\ \A e \in DOMAIN f : f[e] # None =>
                    /\ f[e] \in Offered(new, s) /\ Takes(f[e], d.els[e])
                    /\ \A k \in kept : f[e] # d.els[k].slot
               /\ \A e, x \in DOMAIN f : e # x /\ f[e] # None => f[e] # f[x]
<1> DEFINE kept == {e \in BoundOn(d, s) : Keeps(d, new, s, e)}
           R == {d.els[e].slot : e \in kept}
           q == SetToSeq(BoundOn(d, s) \ kept)
           N == Cardinality(BoundOn(d, s) \ kept)
           slot == ChosenInTurn(d, new, s, q, R)
           at(e) == CHOOSE n \in DOMAIN q : q[n] = e
           f == Replacements(d, new, s, TRUE)
<1>1. f = [e \in Range(q) |-> slot[at(e)]]
  BY DEF Replacements
<1>2. /\ N \in Nat /\ DOMAIN q = 1..N /\ Range(q) = BoundOn(d, s) \ kept
      /\ \A m, n \in DOMAIN q : q[m] = q[n] => m = n
  <2>1. IsFiniteSet(BoundOn(d, s) \ kept)
    BY FS_Subset
  <2> HIDE DEF kept
  <2> QED BY <2>1, SetToSeqIsBijection
<1>3. \A n \in 1..N : slot[n] = Replacement(d, new, s, q[n], R \cup {slot[m] : m \in 1..(n - 1)})
  <2>1. AreChosenInTurn(slot, d, new, s, q, R, N)
    <3> HIDE DEF q, R, N
    <3> QED BY <1>2, ChosenInTurnEquation
  <2> HIDE DEF slot, q, R, N
  <2> QED BY <2>1 DEF AreChosenInTurn
<1> HIDE DEF slot, q, N, f
<1>4. \A e \in Range(q) : at(e) \in 1..N /\ q[at(e)] = e
  BY <1>2 DEF Range
<1> HIDE DEF at
<1>5. \A e \in DOMAIN f : f[e] = slot[at(e)] /\ at(e) \in 1..N /\ q[at(e)] = e
  BY <1>1, <1>4
<1>6. ASSUME NEW n \in 1..N, slot[n] # None
      PROVE  /\ slot[n] \in Offered(new, s) /\ Takes(slot[n], d.els[q[n]])
             /\ slot[n] \notin R
             /\ \A m \in 1..(n - 1) : slot[n] # slot[m]
  <2> DEFINE used == R \cup {slot[m] : m \in 1..(n - 1)}
  <2>1. slot[n] = Replacement(d, new, s, q[n], used)
    BY <1>3
  <2>2. slot[n] \in Offered(new, s) \ used /\ Takes(slot[n], d.els[q[n]])
    <3> HIDE DEF used
    <3> QED BY <1>6, <2>1, ReplacementEffect
  <2> QED BY <2>2
<1>7. ASSUME NEW m \in 1..N, NEW n \in 1..N, m # n, slot[n] # None
      PROVE  slot[n] # slot[m]
  <2>1. m \in 1..(n - 1) \/ n \in 1..(m - 1)
    BY <1>2, <1>7
  <2>2. CASE m \in 1..(n - 1)
    BY <1>6, <1>7, <2>2
  <2>3. CASE n \in 1..(m - 1) /\ slot[m] # None
    BY <1>6, <2>3
  <2> QED BY <1>7, <2>1, <2>2, <2>3
<1>8. ASSUME NEW e \in DOMAIN f, f[e] # None
      PROVE  /\ f[e] \in Offered(new, s) /\ Takes(f[e], d.els[e])
             /\ \A k \in kept : f[e] # d.els[k].slot
  BY <1>5, <1>6, <1>8
<1>9. ASSUME NEW e \in DOMAIN f, NEW x \in DOMAIN f, e # x, f[e] # None
      PROVE  f[e] # f[x]
  <2>1. at(e) # at(x)
    BY <1>5, <1>9
  <2> QED BY <1>5, <1>7, <1>9, <2>1
<1>10. DOMAIN f = BoundOn(d, s) \ kept
  BY <1>1, <1>2
<1> HIDE DEF kept
<1> QED BY <1>8, <1>9, <1>10 DEF f, kept

\* BindingsHold, of one slide.
SlideBound(d, s) ==
  /\ \A e \in BoundOn(d, s) : d.els[e].slot \in Offered(d, s) /\ Takes(d.els[e].slot, d.els[e])
  /\ \A e, f \in BoundOn(d, s) : e # f => d.els[e].slot # d.els[f].slot

\* BindingsHold is SlideBound of every slide.
LEMMA BoundEverywhere ==
    ASSUME NEW d
    PROVE  BindingsHold(d) <=> \A s \in DOMAIN d.slides : SlideBound(d, s)
  BY DEF BindingsHold, SlideBound

\* A slide whose layout offers what it did, with the elements it had or some of them.
LEMMA SlideUnchanged ==
    ASSUME NEW d, NEW r, NEW s, SlideBound(d, s), Offered(r, s) = Offered(d, s),
           \A e \in DOMAIN r.els : r.els[e].slide = s =>
             /\ e \in DOMAIN d.els /\ d.els[e].slide = s
             /\ r.els[e].slot = d.els[e].slot /\ r.els[e].kind = d.els[e].kind
    PROVE  SlideBound(r, s)
<1>1. \A e \in BoundOn(r, s) : /\ e \in BoundOn(d, s) /\ r.els[e].slot = d.els[e].slot
                               /\ r.els[e].kind = d.els[e].kind
  BY DEF BoundOn, OnSlide
<1> QED BY <1>1 DEF SlideBound, Takes

\* What the elements of slide s that lose their placeholder get.
SlotsAfter(d, new, s) == Replacements(d, new, s, TRUE)

\* A remapping changes the placeholders of elements and nothing else.
LEMMA RemappedElements ==
    ASSUME NEW d, NEW new, "els" \in DOMAIN new, NEW S, NEW e \in DOMAIN new.els,
           NEW s, s = new.els[e].slide, "slot" \in DOMAIN new.els[e]
    PROVE  /\ s \in S /\ e \in DOMAIN SlotsAfter(d, new, s) =>
                Remapped(d, new, S).els[e].slot = SlotsAfter(d, new, s)[e]
           /\ ~(s \in S /\ e \in DOMAIN SlotsAfter(d, new, s)) =>
                Remapped(d, new, S).els[e] = new.els[e]
           /\ \A field \in DOMAIN new.els[e] \ {"slot"} :
                Remapped(d, new, S).els[e][field] = new.els[e][field]
<1> DEFINE slots == [x \in S |-> Replacements(d, new, x, TRUE)]
           moved == {x \in DOMAIN new.els : /\ new.els[x].slide \in S
                                           /\ x \in DOMAIN slots[new.els[x].slide]}
           els == [x \in DOMAIN new.els |->
                     IF x \in moved
                     THEN [new.els[x] EXCEPT !.slot = slots[new.els[x].slide][x]]
                     ELSE new.els[x]]
<1>1. Remapped(d, new, S).els = els
  <2>1. Remapped(d, new, S) = [new EXCEPT !.els = els]
    BY DEF Remapped, RemappedFrom
  <2> HIDE DEF els
  <2> QED BY <2>1
<1>2. \A x \in S : slots[x] = SlotsAfter(d, new, x)
  BY DEF SlotsAfter
<1> HIDE DEF slots
<1>3. els[e] = IF e \in moved THEN [new.els[e] EXCEPT !.slot = slots[new.els[e].slide][e]]
               ELSE new.els[e]
  OBVIOUS
<1> HIDE DEF els
<1> QED BY <1>1, <1>2, <1>3

\* A remapped slide, and one that is not.
LEMMA RemappedSlide ==
    ASSUME NEW d, HasShape(d), NEW new, HasShape(new), new.els = d.els,
           NEW S, NEW s \in S, SlideBound(d, s)
    PROVE  SlideBound(Remapped(d, new, S), s)
<1> DEFINE r == Remapped(d, new, S)
           f == SlotsAfter(d, new, s)
           kept == {e \in BoundOn(d, s) : Keeps(d, new, s, e)}
<1>1. IsFiniteSet(BoundOn(d, s))
  <2>1. BoundOn(d, s) \subseteq DOMAIN d.els
    BY DEF BoundOn, OnSlide
  <2> QED BY <2>1, FS_Subset DEF HasShape
<1>2. /\ DOMAIN f = BoundOn(d, s) \ kept
      /\ \A e \in DOMAIN f : f[e] # None =>
           /\ f[e] \in Offered(new, s) /\ Takes(f[e], d.els[e])
           /\ \A k \in kept : f[e] # d.els[k].slot
      /\ \A e, x \in DOMAIN f : e # x /\ f[e] # None => f[e] # f[x]
  BY <1>1, ReplacementsEffect DEF SlotsAfter
<1>3. /\ r.slides = new.slides /\ r.layouts = new.layouts /\ r.masters = new.masters
      /\ DOMAIN r.els = DOMAIN d.els
      /\ \A e \in DOMAIN d.els :
           /\ r.els[e].slide = d.els[e].slide /\ r.els[e].kind = d.els[e].kind
           /\ d.els[e].slide = s =>
                r.els[e].slot = IF e \in DOMAIN f THEN f[e] ELSE d.els[e].slot
  <2>1. /\ r.slides = new.slides /\ r.layouts = new.layouts /\ r.masters = new.masters
        /\ DOMAIN r.els = DOMAIN d.els
    BY DEF Remapped, RemappedFrom, HasShape
  <2>2. ASSUME NEW e \in DOMAIN d.els
        PROVE  /\ r.els[e].slide = d.els[e].slide /\ r.els[e].kind = d.els[e].kind
               /\ d.els[e].slide = s =>
                    r.els[e].slot = IF e \in DOMAIN f THEN f[e] ELSE d.els[e].slot
    <3>1. "els" \in DOMAIN new /\ {"slide", "kind", "slot"} \subseteq DOMAIN d.els[e]
      BY DEF HasShape
    <3>2. r.els[e].slide = d.els[e].slide /\ r.els[e].kind = d.els[e].kind
      BY <3>1, RemappedElements
    <3>3. CASE d.els[e].slide = s
      BY <3>1, <3>2, <3>3, RemappedElements
    <3> QED BY <3>2, <3>3
  <2> QED BY <2>1, <2>2
<1> HIDE DEF r, f
<1>4. Offered(r, s) = Offered(new, s)
  BY <1>3 DEF Offered
<1>5. ASSUME NEW e \in BoundOn(r, s)
      PROVE  /\ e \in BoundOn(d, s) /\ r.els[e].kind = d.els[e].kind
             /\ \/ e \in kept /\ r.els[e].slot = d.els[e].slot
                \/ e \in DOMAIN f /\ r.els[e].slot = f[e] /\ f[e] # None
  <2>1. e \in DOMAIN d.els /\ d.els[e].slide = s /\ r.els[e].slot # None
    BY <1>3 DEF BoundOn, OnSlide
  <2>2. e \in BoundOn(d, s)
    BY <1>2, <1>3, <2>1 DEF BoundOn, OnSlide
  <2> QED BY <1>2, <1>3, <2>1, <2>2
<1>6. ASSUME NEW e \in kept PROVE d.els[e].slot \in Offered(new, s) /\ Takes(d.els[e].slot, d.els[e])
  BY <1>6 DEF Keeps
<1>7. kept \subseteq BoundOn(d, s)
  OBVIOUS
<1> HIDE DEF kept
<1>8. ASSUME NEW e \in BoundOn(r, s)
      PROVE  r.els[e].slot \in Offered(r, s) /\ Takes(r.els[e].slot, r.els[e])
  <2>1. r.els[e].slot \in Offered(new, s) /\ Takes(r.els[e].slot, d.els[e])
    BY <1>2, <1>5, <1>6
  <2> QED BY <1>4, <1>5, <2>1 DEF Takes
<1>9. ASSUME NEW e \in BoundOn(r, s), NEW x \in BoundOn(r, s), e # x
      PROVE  r.els[e].slot # r.els[x].slot
  <2>1. CASE e \in kept /\ x \in kept
    <3>1. r.els[e].slot = d.els[e].slot /\ r.els[x].slot = d.els[x].slot
      BY <1>2, <1>5, <2>1
    <3> QED BY <1>7, <1>9, <2>1, <3>1 DEF SlideBound
  <2>2. CASE e \in kept /\ x \notin kept
    BY <1>2, <1>5, <2>2
  <2>3. CASE e \notin kept /\ x \in kept
    BY <1>2, <1>5, <2>3
  <2>4. CASE e \notin kept /\ x \notin kept
    BY <1>2, <1>5, <1>9, <2>4
  <2> QED BY <2>1, <2>2, <2>3, <2>4
<1> QED BY <1>8, <1>9 DEF SlideBound, r

LEMMA RemappedElsewhere ==
    ASSUME NEW d, HasShape(d), NEW new, HasShape(new), new.els = d.els,
           NEW S, NEW s, s \notin S, SlideBound(d, s), Offered(new, s) = Offered(d, s)
    PROVE  SlideBound(Remapped(d, new, S), s)
<1> DEFINE r == Remapped(d, new, S)
<1>1. /\ r.slides = new.slides /\ r.layouts = new.layouts /\ r.masters = new.masters
      /\ DOMAIN r.els = DOMAIN d.els
      /\ \A e \in DOMAIN d.els : /\ r.els[e].slide = d.els[e].slide
                                 /\ d.els[e].slide = s => r.els[e] = d.els[e]
  <2>1. /\ r.slides = new.slides /\ r.layouts = new.layouts /\ r.masters = new.masters
        /\ DOMAIN r.els = DOMAIN d.els
    BY DEF Remapped, RemappedFrom, HasShape
  <2>2. /\ "els" \in DOMAIN new
        /\ \A e \in DOMAIN new.els : {"slot", "by", "slide"} \subseteq DOMAIN new.els[e]
    BY DEF HasShape
  <2>3. \A e \in DOMAIN d.els : r.els[e].slide = d.els[e].slide
    BY <2>2, RemappedFrame
  <2>4. ASSUME NEW e \in DOMAIN d.els, d.els[e].slide = s PROVE r.els[e] = d.els[e]
    <3>1. /\ "els" \in DOMAIN new /\ e \in DOMAIN new.els /\ "slot" \in DOMAIN new.els[e]
          /\ s = new.els[e].slide
      BY <2>2, <2>4
    <3>2. ~(s \in S /\ e \in DOMAIN SlotsAfter(d, new, s)) => r.els[e] = new.els[e]
      BY <3>1, RemappedElements
    <3> QED BY <3>2
  <2> HIDE DEF r
  <2> QED BY <2>1, <2>3, <2>4
<1> HIDE DEF r
<1>2. Offered(r, s) = Offered(d, s)
  BY <1>1 DEF Offered
<1>3. SlideBound(r, s)
  BY <1>1, <1>2, SlideUnchanged
<1> QED BY <1>3 DEF r

\* A remapping of the slides whose placeholders change.
LEMMA RemappedBindings ==
    ASSUME NEW d, HasShape(d), BindingsHold(d), NEW new, HasShape(new), new.els = d.els,
           DOMAIN new.slides = DOMAIN d.slides, NEW S,
           \A s \in DOMAIN d.slides \ S : Offered(new, s) = Offered(d, s)
    PROVE  BindingsHold(Remapped(d, new, S))
<1> DEFINE r == Remapped(d, new, S)
<1>1. DOMAIN r.slides = DOMAIN d.slides
  BY DEF Remapped, RemappedFrom, HasShape
<1>2. ASSUME NEW s \in DOMAIN d.slides PROVE SlideBound(r, s)
  <2>1. SlideBound(d, s)
    BY BoundEverywhere
  <2> HIDE DEF r
  <2>2. CASE s \in S
    BY <2>1, <2>2, RemappedSlide DEF r
  <2>3. CASE s \notin S
    BY <2>1, <2>3, RemappedElsewhere DEF r
  <2> QED BY <2>2, <2>3
<1> HIDE DEF r
<1>3. BindingsHold(r)
  BY <1>1, <1>2, BoundEverywhere
<1> QED BY <1>3 DEF r

\* What is created gets an identifier of its own.
LEMMA CreatedIsUnused ==
    ASSUME NEW d, NEW me, NEW c \in Commands(d, me),
           c.type \in {"master.create", "layout.create", "slide.create", "slide.duplicate"}
    PROVE  Unused(d, c.id)
<1>1. "id" \in DOMAIN c /\ c.id = me
  <2>1. CASE c \in DeckCommands(d, me)
    BY <2>1 DEF DeckCommands
  <2>2. CASE c \in ThemeCommands(d, me)
    BY <2>2 DEF ThemeCommands
  <2>3. CASE c \in MasterCommands(d, me)
    BY <2>3 DEF MasterCommands
  <2>4. CASE c \in LayoutCommands(d, me)
    BY <2>4 DEF LayoutCommands
  <2>5. CASE c \in SlideCommands(d, me)
    BY <2>5 DEF SlideCommands
  <2>6. CASE c \in ElementCommands(d, me)
    BY <2>6, ElementKinds DEF ElementTypes
  <2> QED BY <2>1, <2>2, <2>3, <2>4, <2>5, <2>6 DEF Commands, ResourceCommands
<1> QED BY <1>1 DEF Commands

\* What a slide is offered comes from its layout and the layout's master.
LEMMA OfferedSame ==
    ASSUME NEW d, NEW r, NEW s, NEW l, l = d.slides[s].layout, NEW m, m = d.layouts[l].master,
           r.slides[s].layout = l, r.layouts[l].master = m,
           r.layouts[l].slots = d.layouts[l].slots, r.masters[m].slots = d.masters[m].slots
    PROVE  Offered(r, s) = Offered(d, s)
  BY DEF Offered

\* The layout of a slide and its master are there.
LEMMA LayoutsAreThere ==
    ASSUME NEW d, ReferencesHold(d), NEW s \in DOMAIN d.slides
    PROVE  /\ d.slides[s].layout \in DOMAIN d.layouts
           /\ d.layouts[d.slides[s].layout].master \in DOMAIN d.masters
  BY DEF ReferencesHold

\* A command that leaves the bound elements where they are, and their slides
\* with the placeholders they offered; a slide it adds has no element.
LEMMA OthersKeepBindings ==
    ASSUME NEW d, BindingsHold(d), NEW r,
           \A e \in DOMAIN r.els :
             /\ e \in DOMAIN d.els /\ r.els[e].slide = d.els[e].slide
             /\ r.els[e].slot = d.els[e].slot /\ r.els[e].kind = d.els[e].kind
             /\ d.els[e].slide \in DOMAIN d.slides,
           \A s \in DOMAIN d.slides : Offered(r, s) = Offered(d, s)
    PROVE  BindingsHold(r)
<1>1. ASSUME NEW s \in DOMAIN r.slides PROVE SlideBound(r, s)
  <2>1. CASE s \in DOMAIN d.slides
    <3>1. SlideBound(d, s)
      BY <2>1, BoundEverywhere
    <3> QED BY <2>1, <3>1, SlideUnchanged
  <2>2. CASE s \notin DOMAIN d.slides
    <3>1. BoundOn(r, s) = {}
      BY <2>2 DEF BoundOn, OnSlide
    <3> QED BY <3>1 DEF SlideBound
  <2> QED BY <2>1, <2>2
<1> QED BY <1>1, BoundEverywhere

\* The commands that name no slide, and those on a slide.
LEMMA ResourcesKeepBindings ==
    ASSUME NEW d, HasShape(d), Valid(d), NEW me, NEW c \in Commands(d, me),
           c.type \in ResourceTypes, NEW by, NEW r \in ResourceCommand(d, c, by)
    PROVE  BindingsHold(r)
<1>0. /\ BindingsHold(d)
      /\ \A s \in DOMAIN d.slides :
           /\ d.slides[s].layout \in DOMAIN d.layouts
           /\ d.layouts[d.slides[s].layout].master \in DOMAIN d.masters
      /\ \A e \in DOMAIN d.els : d.els[e].slide \in DOMAIN d.slides
  BY LayoutsAreThere DEF Valid, HasShape
<1>1. CASE c.type \in {"deck.set", "theme.create", "theme.update", "asset.register", "asset.remove"}
  <2>1. /\ r.els = d.els /\ r.slides = d.slides
        /\ r.layouts = d.layouts /\ r.masters = d.masters
    BY <1>1 DEF ResourceCommand, When, HasShape
  <2> QED BY <1>0, <2>1, OthersKeepBindings DEF Offered
<1>2. CASE c.type = "theme.delete"
  <2> DEFINE M == [m \in DOMAIN d.masters |->
                     IF m \in {x \in DOMAIN d.masters : d.masters[x].theme = c.id}
                     THEN [d.masters[m] EXCEPT !.theme = c.replacement] ELSE d.masters[m]]
  <2>1. r = [d EXCEPT !.themes = Without(@, {c.id}), !.masters = M]
    BY <1>2 DEF ResourceCommand, DeleteTheme, When
  <2>2. \A m \in DOMAIN d.masters : M[m].slots = d.masters[m].slots
    BY DEF HasShape
  <2> HIDE DEF M
  <2>3. r.els = d.els /\ r.slides = d.slides /\ r.layouts = d.layouts /\ r.masters = M
    BY <2>1 DEF HasShape
  <2>4. \A s \in DOMAIN d.slides : Offered(r, s) = Offered(d, s)
    BY <1>0, <2>2, <2>3, OfferedSame
  <2> QED BY <1>0, <2>3, <2>4, OthersKeepBindings
<1>3. CASE c.type = "theme.enforce-deck"
  <2> DEFINE restyled(f) == [x \in DOMAIN f |-> [f[x] EXCEPT !.by = by]]
             M == [m \in DOMAIN d.masters |-> [d.masters[m] EXCEPT !.theme = c.id, !.by = by]]
             d1 == [d EXCEPT !.deck["background"] = by, !.masters = M,
                             !.layouts = restyled(@), !.slides = restyled(@)]
  <2>1. r = Edited(d1, DOMAIN d.els, {"style"}, by)
    BY <1>3 DEF ResourceCommand, EnforceTheme, When
  <2>2. HasShape(d1)
    BY DEF HasShape
  <2>3. /\ d1.els = d.els
        /\ \A m \in DOMAIN d.masters : d1.masters[m].slots = d.masters[m].slots
        /\ \A l \in DOMAIN d.layouts : /\ d1.layouts[l].slots = d.layouts[l].slots
                                       /\ d1.layouts[l].master = d.layouts[l].master
        /\ \A s \in DOMAIN d.slides : d1.slides[s].layout = d.slides[s].layout
    BY DEF HasShape
  <2> HIDE DEF d1
  <2>4. /\ r.masters = d1.masters /\ r.layouts = d1.layouts /\ r.slides = d1.slides
        /\ DOMAIN r.els = DOMAIN d1.els
        /\ \A e \in DOMAIN d1.els :
             /\ r.els[e].slide = d1.els[e].slide /\ r.els[e].slot = d1.els[e].slot
             /\ r.els[e].kind = d1.els[e].kind
    BY <2>1, <2>2, EditedFrame
  <2>5. \A s \in DOMAIN d.slides : Offered(r, s) = Offered(d, s)
    BY <1>0, <2>3, <2>4, OfferedSame
  <2> QED BY <1>0, <2>3, <2>4, <2>5, OthersKeepBindings
<1>4. CASE c.type = "master.create"
  <2>1. r = [d EXCEPT !.masters = With(@, c.id, [theme |-> c.theme, slots |-> c.slots, by |-> by])]
    BY <1>4 DEF ResourceCommand
  <2>2. c.id \notin DOMAIN d.masters
    BY <1>4, CreatedIsUnused DEF Unused
  <2>3. /\ r.els = d.els /\ r.slides = d.slides /\ r.layouts = d.layouts
        /\ \A m \in DOMAIN d.masters : r.masters[m] = d.masters[m]
    BY <2>1, <2>2 DEF HasShape, With
  <2>4. \A s \in DOMAIN d.slides : Offered(r, s) = Offered(d, s)
    BY <1>0, <2>3, OfferedSame
  <2> QED BY <1>0, <2>3, <2>4, OthersKeepBindings
<1>5. CASE c.type = "layout.create"
  <2>1. r = [d EXCEPT !.layouts = With(@, c.id, [master |-> c.master, slots |-> c.slots, by |-> by])]
    BY <1>5 DEF ResourceCommand
  <2>2. c.id \notin DOMAIN d.layouts
    BY <1>5, CreatedIsUnused DEF Unused
  <2>3. /\ r.els = d.els /\ r.slides = d.slides /\ r.masters = d.masters
        /\ \A l \in DOMAIN d.layouts : r.layouts[l] = d.layouts[l]
    BY <2>1, <2>2 DEF HasShape, With
  <2>4. \A s \in DOMAIN d.slides : Offered(r, s) = Offered(d, s)
    BY <1>0, <2>3, OfferedSame
  <2> QED BY <1>0, <2>3, <2>4, OthersKeepBindings
<1>6. CASE c.type = "slide.create"
  <2>1. r = [d EXCEPT !.slides = With(@, c.id, [layout |-> c.layout, asset |-> None, by |-> by])]
    BY <1>6 DEF ResourceCommand, CreateSlide
  <2>2. c.id \notin DOMAIN d.slides
    BY <1>6, CreatedIsUnused DEF Unused
  <2>3. /\ r.els = d.els /\ r.masters = d.masters /\ r.layouts = d.layouts
        /\ \A s \in DOMAIN d.slides : r.slides[s] = d.slides[s]
    BY <2>1, <2>2 DEF HasShape, With
  <2>4. \A s \in DOMAIN d.slides : Offered(r, s) = Offered(d, s)
    BY <1>0, <2>3, OfferedSame
  <2> QED BY <1>0, <2>3, <2>4, OthersKeepBindings
<1>7. CASE c.type = "master.update"
  <2> DEFINE new == [d EXCEPT !.masters[c.id] = [theme |-> c.theme, slots |-> c.slots, by |-> by]]
             S == SlidesOfMaster(d, c.id)
  <2>1. r = Remapped(d, new, S)
    BY <1>7 DEF ResourceCommand, UpdateMaster, When
  <2>2. HasShape(new)
    BY DEF HasShape
  <2>3. /\ new.els = d.els /\ new.slides = d.slides /\ new.layouts = d.layouts
        /\ \A m \in DOMAIN d.masters \ {c.id} : new.masters[m] = d.masters[m]
    BY DEF HasShape
  <2>4. \A s \in DOMAIN d.slides \ S : d.layouts[d.slides[s].layout].master # c.id
    BY <1>0 DEF SlidesOfMaster, SlidesOfLayout, LayoutsOfMaster
  <2> HIDE DEF new, S
  <2>5. \A s \in DOMAIN d.slides \ S : Offered(new, s) = Offered(d, s)
    BY <1>0, <2>3, <2>4, OfferedSame
  <2> QED BY <1>0, <2>1, <2>2, <2>3, <2>5, RemappedBindings
<1>8. CASE c.type = "master.delete"
  <2> DEFINE L == [l \in DOMAIN d.layouts |->
                     IF l \in LayoutsOfMaster(d, c.id)
                     THEN [d.layouts[l] EXCEPT !.master = c.replacement] ELSE d.layouts[l]]
             new == [d EXCEPT !.masters = Without(@, {c.id}), !.layouts = L]
             S == SlidesOfMaster(d, c.id)
  <2>1. r = Remapped(d, new, S)
    BY <1>8 DEF ResourceCommand, DeleteMaster, When
  <2>2. /\ DOMAIN L = DOMAIN d.layouts
        /\ \A l \in DOMAIN d.layouts :
             /\ DOMAIN L[l] = DOMAIN d.layouts[l]
             /\ d.layouts[l].master # c.id => L[l] = d.layouts[l]
    BY DEF HasShape, LayoutsOfMaster
  <2> HIDE DEF L
  <2>3. HasShape(new)
    BY <2>2 DEF HasShape, Without, Restrict
  <2>4. /\ new.els = d.els /\ new.slides = d.slides /\ new.layouts = L
        /\ \A m \in DOMAIN d.masters \ {c.id} : new.masters[m] = d.masters[m]
    BY DEF HasShape, Without, Restrict
  <2>5. \A s \in DOMAIN d.slides \ S : d.layouts[d.slides[s].layout].master # c.id
    BY <1>0 DEF SlidesOfMaster, SlidesOfLayout, LayoutsOfMaster
  <2> HIDE DEF new, S
  <2>6. \A s \in DOMAIN d.slides \ S : Offered(new, s) = Offered(d, s)
    BY <1>0, <2>2, <2>4, <2>5, OfferedSame
  <2> QED BY <1>0, <2>1, <2>3, <2>4, <2>6, RemappedBindings
<1>9. CASE c.type = "layout.update"
  <2> DEFINE new == [d EXCEPT !.layouts[c.id] = [master |-> c.master, slots |-> c.slots, by |-> by]]
             S == SlidesOfLayout(d, c.id)
  <2>1. r = Remapped(d, new, S)
    BY <1>9 DEF ResourceCommand, UpdateLayout, When
  <2>2. HasShape(new)
    BY DEF HasShape
  <2>3. /\ new.els = d.els /\ new.slides = d.slides /\ new.masters = d.masters
        /\ \A l \in DOMAIN d.layouts \ {c.id} : new.layouts[l] = d.layouts[l]
    BY DEF HasShape
  <2>4. \A s \in DOMAIN d.slides \ S : d.slides[s].layout # c.id
    BY DEF SlidesOfLayout
  <2> HIDE DEF new, S
  <2>5. \A s \in DOMAIN d.slides \ S : Offered(new, s) = Offered(d, s)
    BY <1>0, <2>3, <2>4, OfferedSame
  <2> QED BY <1>0, <2>1, <2>2, <2>3, <2>5, RemappedBindings
<1>10. CASE c.type = "layout.delete"
  <2> DEFINE P == [s \in DOMAIN d.slides |->
                     IF s \in SlidesOfLayout(d, c.id)
                     THEN [d.slides[s] EXCEPT !.layout = c.replacement] ELSE d.slides[s]]
             new == [d EXCEPT !.layouts = Without(@, {c.id}), !.slides = P]
             S == SlidesOfLayout(d, c.id)
  <2>1. r = Remapped(d, new, S)
    BY <1>10 DEF ResourceCommand, DeleteLayout, When
  <2>2. /\ DOMAIN P = DOMAIN d.slides
        /\ \A s \in DOMAIN d.slides :
             /\ DOMAIN P[s] = DOMAIN d.slides[s]
             /\ d.slides[s].layout # c.id => P[s] = d.slides[s]
    BY DEF HasShape, SlidesOfLayout
  <2> HIDE DEF P
  <2>3. HasShape(new)
    BY <2>2 DEF HasShape, Without, Restrict
  <2>4. /\ new.els = d.els /\ new.slides = P /\ new.masters = d.masters
        /\ \A l \in DOMAIN d.layouts \ {c.id} : new.layouts[l] = d.layouts[l]
    BY DEF HasShape, Without, Restrict
  <2>5. \A s \in DOMAIN d.slides \ S : d.slides[s].layout # c.id
    BY DEF SlidesOfLayout
  <2> HIDE DEF new, S
  <2>6. \A s \in DOMAIN d.slides \ S : Offered(new, s) = Offered(d, s)
    BY <1>0, <2>2, <2>4, <2>5, OfferedSame
  <2> QED BY <1>0, <2>1, <2>2, <2>3, <2>4, <2>6, RemappedBindings
<1> QED BY <1>1, <1>2, <1>3, <1>4, <1>5, <1>6, <1>7, <1>8, <1>9, <1>10 DEF ResourceTypes

LEMMA SlidesKeepBindings ==
    ASSUME NEW d, HasShape(d), Valid(d), NEW me, NEW c \in Commands(d, me),
           c.type \in SlideTypes, c.slide \in DOMAIN d.slides,
           NEW by, NEW r \in SlideCommand(d, c, by)
    PROVE  BindingsHold(r)
<1>0. /\ BindingsHold(d)
      /\ \A s \in DOMAIN d.slides :
           /\ d.slides[s].layout \in DOMAIN d.layouts
           /\ d.layouts[d.slides[s].layout].master \in DOMAIN d.masters
      /\ \A e \in DOMAIN d.els : d.els[e].slide \in DOMAIN d.slides
  BY LayoutsAreThere DEF Valid, HasShape
<1>1. CASE c.type = "slide.duplicate"
  <2>1. r = [d EXCEPT !.slides = With(@, c.id, [layout |-> c.layout, asset |-> None, by |-> by])]
    BY <1>1 DEF SlideCommand, CreateSlide
  <2>2. c.id \notin DOMAIN d.slides
    BY <1>1, CreatedIsUnused DEF Unused
  <2>3. /\ r.els = d.els /\ r.masters = d.masters /\ r.layouts = d.layouts
        /\ \A s \in DOMAIN d.slides : r.slides[s] = d.slides[s]
    BY <2>1, <2>2 DEF HasShape, With
  <2>4. \A s \in DOMAIN d.slides : Offered(r, s) = Offered(d, s)
    BY <1>0, <2>3, OfferedSame
  <2> QED BY <1>0, <2>3, <2>4, OthersKeepBindings
<1>2. CASE c.type = "slide.delete"
  <2> DEFINE E == OnSlide(d, c.slide)
  <2>1. r = [d EXCEPT !.slides = Without(@, {c.slide}), !.els = Without(@, E)]
    BY <1>2 DEF SlideCommand, When
  <2> HIDE DEF E
  <2>2. /\ r.masters = d.masters /\ r.layouts = d.layouts
        /\ DOMAIN r.slides = DOMAIN d.slides \ {c.slide}
        /\ \A s \in DOMAIN r.slides : r.slides[s] = d.slides[s]
        /\ \A e \in DOMAIN r.els : e \in DOMAIN d.els /\ r.els[e] = d.els[e]
    BY <2>1 DEF HasShape, Without, Restrict
  <2>3. ASSUME NEW s \in DOMAIN r.slides PROVE SlideBound(r, s)
    <3>1. s \in DOMAIN d.slides /\ r.slides[s] = d.slides[s]
      BY <2>2
    <3>2. Offered(r, s) = Offered(d, s)
      BY <1>0, <2>2, <3>1, OfferedSame
    <3>3. SlideBound(d, s)
      BY <1>0, <3>1, BoundEverywhere
    <3> QED BY <2>2, <3>2, <3>3, SlideUnchanged
  <2> QED BY <2>3, BoundEverywhere
<1>3. CASE c.type = "slide.reorder"
  <2>1. /\ r.els = d.els /\ r.slides = d.slides
        /\ r.layouts = d.layouts /\ r.masters = d.masters
    BY <1>3 DEF SlideCommand, HasShape
  <2> QED BY <1>0, <2>1, OthersKeepBindings DEF Offered
<1>4. CASE c.type = "slide.update"
  <2>1. r = [d EXCEPT !.slides[c.slide] =
               [@ EXCEPT !.by = by, !.asset = IF c.asset = Keep THEN @ ELSE c.asset]]
    BY <1>4 DEF SlideCommand
  <2>2. /\ r.els = d.els /\ r.layouts = d.layouts /\ r.masters = d.masters
        /\ \A s \in DOMAIN d.slides : r.slides[s].layout = d.slides[s].layout
    BY <2>1 DEF HasShape
  <2>3. \A s \in DOMAIN d.slides : Offered(r, s) = Offered(d, s)
    BY <1>0, <2>2, OfferedSame
  <2> QED BY <1>0, <2>2, <2>3, OthersKeepBindings
<1>5. CASE c.type = "slide.set-layout"
  <2> DEFINE new == [d EXCEPT !.slides[c.slide].layout = c.layout, !.slides[c.slide].by = by]
  <2>1. r = Remapped(d, new, {c.slide})
    BY <1>5 DEF SlideCommand, SetLayout, When
  <2>2. HasShape(new)
    BY DEF HasShape
  <2>3. /\ new.els = d.els /\ new.layouts = d.layouts /\ new.masters = d.masters
        /\ DOMAIN new.slides = DOMAIN d.slides
        /\ \A s \in DOMAIN d.slides \ {c.slide} : new.slides[s] = d.slides[s]
    BY DEF HasShape
  <2> HIDE DEF new
  <2>4. \A s \in DOMAIN d.slides \ {c.slide} : Offered(new, s) = Offered(d, s)
    BY <1>0, <2>3, OfferedSame
  <2> QED BY <1>0, <2>1, <2>2, <2>3, <2>4, RemappedBindings
<1>6. CASE c.type = "slide.reset-placeholder"
  <2>1. \E E : r = Edited(d, E, {"frame", "shown", "style"}, by)
    BY <1>6 DEF SlideCommand, ResetPlaceholder, When
  <2>2. /\ r.masters = d.masters /\ r.layouts = d.layouts /\ r.slides = d.slides
        /\ DOMAIN r.els = DOMAIN d.els
        /\ \A e \in DOMAIN d.els :
             /\ r.els[e].slide = d.els[e].slide /\ r.els[e].slot = d.els[e].slot
             /\ r.els[e].kind = d.els[e].kind
    BY <2>1, EditedFrame
  <2> QED BY <1>0, <2>2, OthersKeepBindings DEF Offered
<1> QED BY <1>1, <1>2, <1>3, <1>4, <1>5, <1>6 DEF SlideTypes

\* Whatever becomes of layouts and masters, every slide is left with bindings
\* that stand (RelayoutKeepsBindings; remapPlaceholderBindings in command-engine.ts):
\* the validation after the batch never refuses it for them.
THEOREM BindingsSurviveRelayout == StaleSpec => []RelayoutKeepsBindings
<1>1. StaleInv => RelayoutKeepsBindings
  <2> SUFFICES ASSUME StaleInv, NEW c \in Commands(deck, Others), "container" \notin DOMAIN c,
                      NEW r \in Execute(deck, c, Others)
               PROVE  BindingsHold(r)
    BY DEF RelayoutKeepsBindings
  <2>1. CASE c \in ResourceCommands(deck, Others)
    <3>1. "slide" \notin DOMAIN c /\ c.type \in ResourceTypes
      BY <2>1, ResourceKinds
    <3>2. r \in ResourceCommand(deck, c, Others)
      BY <3>1 DEF Execute
    <3> QED BY <3>1, <3>2, ResourcesKeepBindings DEF StaleInv
  <2>2. CASE c \in SlideCommands(deck, Others)
    <3>1. "slide" \in DOMAIN c /\ "container" \notin DOMAIN c /\ c.type \in SlideTypes
      BY <2>2, SlideKinds
    <3>2. r \in SlideCommand(deck, c, Others) /\ c.slide \in DOMAIN deck.slides
      BY <3>1 DEF Execute
    <3> QED BY <3>1, <3>2, SlidesKeepBindings DEF StaleInv
  <2>3. CASE c \in ElementCommands(deck, Others)
    BY <2>3, ElementKinds
  <2> QED BY <2>1, <2>2, <2>3 DEF Commands
<1> QED BY <1>1, StaleInductive, PTL
=============================================================================
