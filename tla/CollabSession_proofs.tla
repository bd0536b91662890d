------------------------- MODULE CollabSession_proofs -------------------------
(***************************************************************************)
(* Proofs about a live session, for any guests, limits and bounds: every   *)
(* replica is a beginning of the host's log that moves along it, it shows  *)
(* what was acknowledged to its user, no replica is ahead of the file of a *)
(* host that has left, and no connected guest misses a transaction.        *)
(***************************************************************************)
EXTENDS CollabSession, SequenceTheorems, TLAPS

Batch == 1..MaxBatches
Submitters == Guests \cup {HostUser, Nobody}

\* What the variables hold when the log has n transactions.
Ops(n) == [op: {"join", "peer", "own"}, seq: 1..n] \cup [op: {"fence", "recon"}, seq: {0}]
Inbox(n) ==
    [type: {"accepted", "presence", "error"}] \cup [type: {"rejected"}, final: BOOLEAN]
    \cup [type: {"tx", "result"}, seq: 1..n]
    \cup {m \in [type: {"resync"}, from: 0..n, to: 0..n, snapshot: BOOLEAN] : m.from <= m.to}
Outbox(n) ==
    [type: {"submit"}, batch: Batch] \cup [type: {"resync"}, after: 0..n, known: Seq(Batch)]
GuestRecord(n) ==
    [phase: Phases, link: {"down", "opening", "auth", "ready"}, token: BOOLEAN,
     doc: Seq(Batch), lastSeq: 0..n, acked: SUBSET Batch, sent: Nat, queue: Seq(Ops(n)),
     run: {"idle", "connecting", "waiting", "applying", "stranded"}, feed: Seq(1..n),
     buffer: Seq(1..n), attempt: Hung..ReconnectLimit]
Submission == [by: Submitters, batch: Batch]
Decision(n) == [by: Submitters, seq: 0..n]

\* A replica is the beginning of the log its position says, and shows what was
\* acknowledged; an operation that runs is in the queue.
Replica(r) ==
    /\ r \in GuestRecord(Len(log))
    /\ r.doc = Revision(r.lastSeq)
    /\ \A b \in r.acked : \E i \in 1..r.lastSeq : log[i] = b
    /\ r.run # "idle" => r.queue # <<>>
    /\ r.phase \in {"out"} \cup Bootstrapping =>
          r.queue = <<>> /\ r.run = "idle" /\ r.attempt = 0
    /\ r.phase \in {"out", "connecting", "syncing"} => r.lastSeq = 0

\* What is on the way is of the log; a host that has left has saved all of it.
ChannelTypes ==
    /\ batches \in 0..MaxBatches /\ server \in {"open", "draining", "closing", "closed"}
    /\ engine \in Seq(Submission) /\ committed \in Seq(Decision(Len(log)))
    /\ conn \in [Guests -> {"none", "pending", "accepted", "ready", "stale"}]
    /\ toHost \in [Guests -> Seq(Outbox(Len(log)))]
    /\ toGuest \in [Guests -> Seq(Inbox(Len(log)))]
    /\ saved # -1 =>
          saved = Len(log) /\ engine = <<>> /\ server \in {"closing", "closed"}

ReplicaInv ==
    /\ log \in Seq(Batch) /\ guest \in [Guests -> GuestRecord(Len(log))]
    /\ ChannelTypes /\ \A g \in Guests : Replica(guest[g])

\* A replica after a step: it has not moved back.
Moves(r, s) == Replica(s) /\ s.lastSeq >= r.lastSeq

\* What a step does to the log and the replicas: it extends the one, or moves
\* one of the others.
LogGrows == UNCHANGED guest /\ \E b \in Batch : log' = Append(log, b)
GuestMoves(g) ==
    UNCHANGED log /\ \E s : Moves(guest[g], s) /\ guest' = [guest EXCEPT ![g] = s]
Follows == UNCHANGED <<log, guest>> \/ LogGrows \/ \E g \in Guests : GuestMoves(g)
-----------------------------------------------------------------------------
(* Beginnings of the log.                                                  *)

LEMMA Attempts == {Hung, 0, 1} \subseteq Hung..ReconnectLimit /\ 0 \in 0..MaxBatches
BY LimitsAssumption DEF Hung

LEMMA LogLength == log \in Seq(Batch) => Len(log) \in Nat
OBVIOUS

LEMMA Beginnings ==
    ASSUME NEW S, NEW s \in Seq(S), NEW k \in 0..Len(s)
    PROVE  /\ SubSeq(s, 1, k) \in Seq(S) /\ Len(SubSeq(s, 1, k)) = k
           /\ \A i \in 1..k : SubSeq(s, 1, k)[i] = s[i]
<1>1. Len(s) \in Nat /\ k \in Nat /\ k <= Len(s)
  OBVIOUS
<1>2. \A i \in 1..k : s[i] \in S
  BY <1>1, ElementOfSeq
<1>3. 1 \in Int /\ k \in Int
  BY <1>1
<1>4. /\ SubSeq(s, 1, k) \in Seq(S) /\ Len(SubSeq(s, 1, k)) = IF 1 <= k THEN k - 1 + 1 ELSE 0
      /\ \A i \in 1..(k - 1 + 1) : SubSeq(s, 1, k)[i] = s[1 + i - 1]
  BY <1>2, <1>3, SubSeqProperties
<1> QED BY <1>1, <1>4

LEMMA NextBeginning ==
    ASSUME NEW S, NEW s \in Seq(S), NEW k \in 0..Len(s), k < Len(s)
    PROVE  Append(SubSeq(s, 1, k), s[k + 1]) = SubSeq(s, 1, k + 1)
<1>1. k \in Nat /\ k + 1 \in 0..Len(s) /\ k + 1 \in 1..Len(s) /\ s[k + 1] \in S
  BY ElementOfSeq
<1> DEFINE p == SubSeq(s, 1, k)
           q == SubSeq(s, 1, k + 1)
<1>2. /\ p \in Seq(S) /\ Len(p) = k /\ \A i \in 1..k : p[i] = s[i]
      /\ q \in Seq(S) /\ Len(q) = k + 1 /\ \A i \in 1..(k + 1) : q[i] = s[i]
  BY <1>1, Beginnings
<1> HIDE DEF p, q
<1> DEFINE e == s[k + 1]
           a == Append(p, e)
<1>3. /\ a \in Seq(S) /\ Len(a) = k + 1 /\ (\A i \in 1..k : a[i] = p[i]) /\ a[k + 1] = e
  BY <1>1, <1>2, AppendProperties
<1>4. \A i \in 1..(k + 1) : a[i] = q[i]
  BY <1>1, <1>2, <1>3
<1>5. a = q
  BY <1>2, <1>3, <1>4, SeqEqual
<1> QED BY <1>5 DEF a, p, q

LEMMA SameBeginning ==
    ASSUME NEW S, NEW s \in Seq(S), NEW e \in S, NEW k \in 0..Len(s)
    PROVE  SubSeq(Append(s, e), 1, k) = SubSeq(s, 1, k)
<1> DEFINE a == Append(s, e)
<1>1. a \in Seq(S) /\ Len(a) = Len(s) + 1 /\ \A i \in 1..Len(s) : a[i] = s[i]
  BY AppendProperties
<1> HIDE DEF a
<1>2. k \in 0..Len(a) /\ k \in Nat /\ \A i \in 1..k : i \in 1..Len(s)
  BY <1>1
<1> DEFINE p == SubSeq(a, 1, k)
           q == SubSeq(s, 1, k)
<1>3. /\ p \in Seq(S) /\ Len(p) = k /\ \A i \in 1..k : p[i] = a[i]
      /\ q \in Seq(S) /\ Len(q) = k /\ \A i \in 1..k : q[i] = s[i]
  BY <1>1, <1>2, Beginnings
<1> HIDE DEF p, q
<1>4. p = q
  BY <1>1, <1>2, <1>3, SeqEqual
<1> QED BY <1>4 DEF p, q, a

\* A replica is a beginning of the log.
LEMMA ReplicaFacts ==
    ASSUME log \in Seq(Batch), NEW r, Replica(r)
    PROVE  /\ r \in GuestRecord(Len(log)) /\ Len(log) \in Nat
           /\ r.lastSeq \in Nat /\ r.lastSeq <= Len(log)
           /\ r.doc = SubSeq(log, 1, r.lastSeq) /\ r.doc \in Seq(Batch)
           /\ Len(r.doc) = r.lastSeq /\ \A i \in 1..r.lastSeq : r.doc[i] = log[i]
           /\ r.queue \in Seq(Ops(Len(log)))
<1>1. r \in GuestRecord(Len(log)) /\ r.doc = SubSeq(log, 1, r.lastSeq) /\ r.lastSeq \in 0..Len(log)
      /\ r.queue \in Seq(Ops(Len(log)))
  BY DEF Replica, GuestRecord, Revision
<1>2. Len(log) \in Nat
  OBVIOUS
<1>3. /\ Len(r.doc) = r.lastSeq /\ (\A i \in 1..r.lastSeq : r.doc[i] = log[i])
      /\ r.doc \in Seq(Batch)
  BY <1>1, Beginnings
<1> QED BY <1>1, <1>2, <1>3

LEMMA OperationFacts ==
    ASSUME NEW n \in Nat, NEW o \in Ops(n)
    PROVE  /\ o.op \in {"join", "peer", "own", "fence", "recon"} /\ o.seq \in 0..n
           /\ o.op \notin {"fence", "recon"} => o.seq \in 1..n
BY DEF Ops

LEMMA NewOperations ==
    ASSUME NEW n \in Nat
    PROVE  /\ \A s \in 1..n : /\ [op |-> "join", seq |-> s] \in Ops(n)
                              /\ [op |-> "peer", seq |-> s] \in Ops(n)
                              /\ [op |-> "own", seq |-> s] \in Ops(n)
           /\ [op |-> "fence", seq |-> 0] \in Ops(n)
           /\ [op |-> "recon", seq |-> 0] \in Ops(n)
BY DEF Ops
-----------------------------------------------------------------------------
(* What the functions of a guest's record do to a replica.                 *)

\* A change of what is not the replica's contents.
LEMMA SameContents ==
    ASSUME log \in Seq(Batch), NEW r, Replica(r), NEW s \in GuestRecord(Len(log)),
           s.doc = r.doc, s.lastSeq = r.lastSeq, s.acked = r.acked,
           s.run # "idle" => s.queue # <<>>,
           s.phase \in {"out"} \cup Bootstrapping =>
              s.queue = <<>> /\ s.run = "idle" /\ s.attempt = 0,
           s.phase \in {"out", "connecting", "syncing"} => s.lastSeq = 0
    PROVE  Moves(r, s)
BY ReplicaFacts DEF Replica, Moves

LEMMA FinishedMoves ==
    ASSUME log \in Seq(Batch), NEW r, Replica(r), r.queue # <<>>
    PROVE  /\ Moves(r, Finished(r))
           /\ Finished(r).phase = r.phase /\ Finished(r).attempt = r.attempt
           /\ Finished(r).lastSeq = r.lastSeq /\ Finished(r).acked = r.acked
           /\ Finished(r).doc = r.doc /\ Finished(r).run = "idle"
           /\ Finished(r).queue = Tail(r.queue)
           /\ Finished(r).link = r.link
           /\ r.phase \notin {"out"} \cup Bootstrapping
<1> DEFINE s == Finished(r)
<1>1. r \in GuestRecord(Len(log)) /\ Tail(r.queue) \in Seq(Ops(Len(log)))
  BY ReplicaFacts
<1>2. <<>> \in Seq(1..Len(log))
  OBVIOUS
<1>3. /\ s \in GuestRecord(Len(log)) /\ s.phase = r.phase /\ s.attempt = r.attempt
      /\ s.lastSeq = r.lastSeq /\ s.acked = r.acked /\ s.doc = r.doc /\ s.run = "idle"
      /\ s.queue = Tail(r.queue) /\ s.link = r.link
  BY <1>1, <1>2 DEF GuestRecord, Finished
<1>4. r.phase \notin {"out"} \cup Bootstrapping
  BY DEF Replica
<1> HIDE DEF s
<1>5. Moves(r, s)
  BY <1>3, <1>4, SameContents DEF Bootstrapping
<1> QED BY <1>3, <1>4, <1>5 DEF s

LEMMA DownMoves ==
    ASSUME log \in Seq(Batch), NEW r, Replica(r)
    PROVE  Moves(r, Down(r)) /\ Down(r).phase = r.phase /\ Down(r).link = "down"
<1> DEFINE s == Down(r)
<1>1. r \in GuestRecord(Len(log))
  BY ReplicaFacts
<1>2. /\ s \in GuestRecord(Len(log)) /\ s.phase = r.phase /\ s.attempt = r.attempt
      /\ s.lastSeq = r.lastSeq /\ s.acked = r.acked /\ s.doc = r.doc /\ s.run = r.run
      /\ s.queue = r.queue /\ s.link = "down"
  BY <1>1 DEF GuestRecord, Down
<1> HIDE DEF s
<1>3. Moves(r, s)
  BY <1>2, SameContents DEF Replica
<1> QED BY <1>2, <1>3 DEF s

LEMMA LeftMoves ==
    ASSUME log \in Seq(Batch), NEW r, Replica(r)
    PROVE  Moves(r, Left(r)) /\ Left(r).phase = "left" /\ Left(r).link = "down"
<1> DEFINE s == Left(r)
<1>1. r \in GuestRecord(Len(log))
  BY ReplicaFacts
<1>2. r.doc \in Seq(Batch) /\ r.lastSeq \in 0..Len(log) /\ r.acked \in SUBSET Batch
  BY <1>1 DEF GuestRecord
<1>3. <<>> \in Seq(1..Len(log)) /\ <<>> \in Seq(Ops(Len(log)))
  OBVIOUS
<1>4. NewGuest \in GuestRecord(Len(log)) /\ NewGuest.run = "idle" /\ NewGuest.link = "down"
  BY Attempts, <1>2, <1>3 DEF NewGuest, GuestRecord, Phases
<1>5. /\ s \in GuestRecord(Len(log)) /\ s.phase = "left" /\ s.link = "down"
      /\ s.lastSeq = r.lastSeq /\ s.acked = r.acked /\ s.doc = r.doc /\ s.run = "idle"
  BY <1>2, <1>4 DEF GuestRecord, Phases, Left
<1> HIDE DEF s
<1>6. Moves(r, s)
  BY <1>5, SameContents DEF Bootstrapping
<1> QED BY <1>5, <1>6 DEF s

LEMMA FailGuestMoves ==
    ASSUME log \in Seq(Batch), NEW r, Replica(r)
    PROVE  /\ Moves(r, FailGuest(r)) /\ FailGuest(r).phase \in {"left", "failed"}
           /\ FailGuest(r).link = "down"
<1>1. CASE r.phase \in Joining /\ r.run # "stranded"
  BY <1>1, LeftMoves DEF FailGuest
<1>2. CASE ~(r.phase \in Joining /\ r.run # "stranded")
  <2> DEFINE d == Down(r)
             s == [d EXCEPT !.phase = "failed", !.attempt = 0]
  <2>1. Replica(d) /\ d.lastSeq >= r.lastSeq /\ d.link = "down"
    BY DownMoves DEF Moves
  <2>2. d \in GuestRecord(Len(log)) /\ d.lastSeq \in Nat /\ r.lastSeq \in Nat
    BY <2>1, ReplicaFacts
  <2> HIDE DEF d
  <2>3. /\ s \in GuestRecord(Len(log)) /\ s.phase = "failed" /\ s.link = "down"
        /\ s.lastSeq = d.lastSeq /\ s.acked = d.acked /\ s.doc = d.doc /\ s.run = d.run
        /\ s.queue = d.queue
    BY Attempts, <2>1, <2>2 DEF GuestRecord, Phases
  <2> HIDE DEF s
  <2>4. Moves(d, s)
    BY <2>1, <2>3, SameContents DEF Replica, Bootstrapping
  <2>5. FailGuest(r) = s
    BY <1>2 DEF FailGuest, s, d
  <2> QED BY <2>1, <2>2, <2>3, <2>4, <2>5 DEF Moves
<1> QED BY <1>1, <1>2

LEMMA AttemptFailsMoves ==
    ASSUME log \in Seq(Batch), NEW r, Replica(r), r.phase \notin {"out"} \cup Bootstrapping
    PROVE  /\ Moves(r, AttemptFails(r)) /\ AttemptFails(r).link = "down"
<1>1. CASE ~(r.attempt < ReconnectLimit)
  BY <1>1, FailGuestMoves DEF AttemptFails
<1>2. CASE r.attempt < ReconnectLimit
  <2> DEFINE d == Down(r)
             at == d.attempt + 1
             s == [d EXCEPT !.attempt = at]
  <2>1. Replica(d) /\ d.lastSeq >= r.lastSeq /\ d.link = "down" /\ d.phase = r.phase
    BY DownMoves DEF Moves
  <2>2. d \in GuestRecord(Len(log)) /\ d.lastSeq \in Nat /\ r.lastSeq \in Nat
    BY <2>1, ReplicaFacts
  <2> HIDE DEF d
  <2>a. at \in Hung..ReconnectLimit
    <3>1. d.attempt \in Hung..ReconnectLimit /\ d.attempt = r.attempt
      BY <2>2, ReplicaFacts DEF GuestRecord, Down, d
    <3> QED BY <1>2, <3>1, LimitsAssumption DEF at, Hung
  <2> HIDE DEF at
  <2>3. /\ s \in GuestRecord(Len(log)) /\ s.phase = d.phase /\ s.link = "down"
        /\ s.lastSeq = d.lastSeq /\ s.acked = d.acked /\ s.doc = d.doc /\ s.run = d.run
        /\ s.queue = d.queue
    BY <2>1, <2>2, <2>a DEF GuestRecord
  <2> HIDE DEF s
  <2>4. Moves(d, s)
    BY <2>1, <2>3, SameContents DEF Replica, Bootstrapping
  <2>5. AttemptFails(r) = s
    BY <1>2 DEF AttemptFails, s, at, d
  <2> QED BY <2>1, <2>2, <2>3, <2>4, <2>5 DEF Moves
<1> QED BY <1>1, <1>2

LEMMA OperationFailsMoves ==
    ASSUME log \in Seq(Batch), NEW r, Replica(r), r.queue # <<>>
    PROVE  /\ Moves(r, OperationFails(r)) /\ OperationFails(r).link = "down"
<1> DEFINE f == Finished(r)
<1>1. Replica(f) /\ f.lastSeq = r.lastSeq /\ f.phase \notin {"out"} \cup Bootstrapping
  BY FinishedMoves DEF Moves
<1> HIDE DEF f
<1>2. Moves(f, AttemptFails(f)) /\ AttemptFails(f).link = "down"
  BY <1>1, AttemptFailsMoves
<1>3. Moves(f, FailGuest(f)) /\ FailGuest(f).link = "down"
  BY <1>1, FailGuestMoves
<1>4. OperationFails(r) = AttemptFails(f) \/ OperationFails(r) = FailGuest(f)
  BY DEF OperationFails, f
<1> QED BY <1>1, <1>2, <1>3, <1>4 DEF Moves

LEMMA AfterDropMoves ==
    ASSUME log \in Seq(Batch), NEW r, Replica(r)
    PROVE  Moves(r, AfterDrop(r)) /\ AfterDrop(r).link = "down"
<1>1. CASE r.phase \in Bootstrapping \cup {"announce"}
  BY <1>1, LeftMoves DEF AfterDrop
<1>2. CASE r.phase \notin Bootstrapping \cup {"announce"} /\ r.run \in {"connecting", "waiting"}
  <2>1. r.queue # <<>>
    BY <1>2 DEF Replica
  <2> QED BY <1>2, <2>1, OperationFailsMoves DEF AfterDrop
<1>3. CASE /\ r.phase \notin Bootstrapping \cup {"announce"}
           /\ r.run \notin {"connecting", "waiting"}
           /\ r.attempt > 0 /\ ~ReconnectQueued(r)
  <2>1. r.phase # "out"
    BY <1>3 DEF Replica
  <2> QED BY <1>3, <2>1, AttemptFailsMoves DEF AfterDrop
<1>4. CASE r.attempt = 0 /\ r.phase \in Attached \ {"announce"}
           /\ r.run \notin {"connecting", "waiting"}
  <2> DEFINE d == Down(r)
             s == [d EXCEPT !.attempt = 1]
  <2>1. Replica(d) /\ d.lastSeq >= r.lastSeq /\ d.link = "down" /\ d.phase = r.phase
    BY DownMoves DEF Moves
  <2>2. d \in GuestRecord(Len(log)) /\ d.lastSeq \in Nat /\ r.lastSeq \in Nat
    BY <2>1, ReplicaFacts
  <2> HIDE DEF d
  <2>3. /\ s \in GuestRecord(Len(log)) /\ s.phase = d.phase /\ s.link = "down"
        /\ s.lastSeq = d.lastSeq /\ s.acked = d.acked /\ s.doc = d.doc /\ s.run = d.run
        /\ s.queue = d.queue
    BY Attempts, <2>1, <2>2 DEF GuestRecord
  <2> HIDE DEF s
  <2>4. Moves(d, s)
    BY <1>4, <2>1, <2>3, SameContents DEF Replica, Bootstrapping, Attached
  <2>5. AfterDrop(r) = s
    BY <1>4 DEF AfterDrop, s, d, Bootstrapping, Attached
  <2> QED BY <2>1, <2>2, <2>3, <2>4, <2>5 DEF Moves
<1>5. CASE AfterDrop(r) = Down(r)
  BY <1>5, DownMoves
<1> QED BY <1>1, <1>2, <1>3, <1>4, <1>5 DEF AfterDrop

\* A connection that is forgotten leaves what the guest holds alone.
LEMMA AfterSilenceMoves ==
    ASSUME log \in Seq(Batch), NEW r, Replica(r), NEW s \in AfterSilence(r)
    PROVE  /\ Moves(r, s) /\ s.link = "down" /\ s.phase = r.phase
           /\ r.run # "waiting" => s.run # "waiting"
<1> DEFINE d == Down(r)
           run == IF d.run = "connecting" THEN "stranded" ELSE d.run
<1>1. r \in GuestRecord(Len(log))
  BY ReplicaFacts
<1>2. PICK a \in AttemptsAfterSilence(r) : s = [d EXCEPT !.attempt = a, !.run = run]
  BY DEF AfterSilence
<1>3. Replica(d) /\ d.lastSeq >= r.lastSeq /\ d.link = "down" /\ d.phase = r.phase
  BY DownMoves DEF Moves
<1>4. /\ d \in GuestRecord(Len(log)) /\ d.lastSeq \in Nat /\ r.lastSeq \in Nat
      /\ d.run = r.run
  BY <1>1, <1>3, ReplicaFacts DEF Down, GuestRecord
<1>5. /\ a \in Hung..ReconnectLimit
      /\ r.phase \in {"out"} \cup Bootstrapping => a = 0
  <2>1. r.attempt \in Hung..ReconnectLimit
    BY <1>1 DEF GuestRecord
  <2>2. r.phase \in {"out"} \cup Bootstrapping => r.attempt = 0 /\ r.phase \notin Attached
    BY DEF Replica, Bootstrapping, Attached
  <2>3. a \in {Hung, 0, 1, r.attempt}
    BY <1>2 DEF AttemptsAfterSilence
  <2>4. r.attempt = 0 /\ r.phase \notin Attached => a = 0
    BY <1>2 DEF AttemptsAfterSilence
  <2> QED BY <2>1, <2>2, <2>3, <2>4, Attempts
<1> HIDE DEF d
<1>6. /\ s \in GuestRecord(Len(log)) /\ s.phase = d.phase /\ s.link = "down"
      /\ s.lastSeq = d.lastSeq /\ s.acked = d.acked /\ s.doc = d.doc /\ s.run = run
      /\ s.queue = d.queue /\ s.attempt = a
  BY <1>2, <1>3, <1>4, <1>5 DEF GuestRecord
<1>7. Moves(d, s)
  BY <1>3, <1>5, <1>6, SameContents DEF Replica
<1> QED BY <1>3, <1>4, <1>6, <1>7 DEF Moves

LEMMA AfterCloseMoves ==
    ASSUME log \in Seq(Batch), NEW r, Replica(r), NEW s \in AfterClose(r)
    PROVE  Moves(r, s) /\ s.link = "down"
BY AfterDropMoves, AfterSilenceMoves DEF AfterClose

LEMMA CompletedMoves ==
    ASSUME log \in Seq(Batch), NEW r, Replica(r), r.queue # <<>>,
           Operation(r).op = "own" => Operation(r).seq <= r.lastSeq
    PROVE  /\ Moves(r, Completed(r)) /\ Completed(r).lastSeq = r.lastSeq
           /\ Completed(r).link = r.link /\ Completed(r).phase = r.phase
           /\ Completed(r).queue = Tail(r.queue) /\ Completed(r).run = "idle"
           /\ Completed(r).attempt = IF Operation(r).op = "recon" THEN 0 ELSE r.attempt
<1> DEFINE o == Operation(r)
           f == Finished(r)
           acked == IF o.op = "own" THEN f.acked \cup {log[o.seq]} ELSE f.acked
           s == [f EXCEPT !.acked = acked,
                          !.attempt = IF o.op = "recon" THEN 0 ELSE @]
<1>1. Completed(r) = s
  BY DEF Completed
<1>2. /\ Replica(f) /\ f.phase = r.phase /\ f.attempt = r.attempt /\ f.lastSeq = r.lastSeq
      /\ f.acked = r.acked /\ f.doc = r.doc /\ f.run = "idle" /\ f.queue = Tail(r.queue)
      /\ f.link = r.link /\ r.phase \notin {"out"} \cup Bootstrapping
  BY FinishedMoves DEF Moves
<1>3. f \in GuestRecord(Len(log)) /\ r.lastSeq \in Nat /\ r.lastSeq <= Len(log) /\ Len(log) \in Nat
      /\ o \in Ops(Len(log))
  BY <1>2, ReplicaFacts DEF Operation
<1>4. o.op = "own" => o.seq \in 1..r.lastSeq /\ log[o.seq] \in Batch
  BY <1>3, OperationFacts, ElementOfSeq DEF o
<1> HIDE DEF f, o
<1>5. acked \in SUBSET Batch /\ \A b \in acked : \E i \in 1..r.lastSeq : log[i] = b
  <2>1. f.acked \in SUBSET Batch /\ \A b \in f.acked : \E i \in 1..r.lastSeq : log[i] = b
    BY <1>2, <1>3 DEF Replica, GuestRecord
  <2> QED BY <1>4, <2>1
<1> HIDE DEF acked
<1>6. /\ s \in GuestRecord(Len(log)) /\ s.phase = f.phase /\ s.acked = acked
      /\ s.lastSeq = f.lastSeq /\ s.doc = f.doc /\ s.run = f.run /\ s.queue = f.queue
      /\ s.link = f.link /\ s.attempt = IF o.op = "recon" THEN 0 ELSE f.attempt
  BY Attempts, <1>3, <1>5 DEF GuestRecord
<1> HIDE DEF s
<1>7. Replica(s)
  BY <1>2, <1>5, <1>6 DEF Replica, Bootstrapping
<1> QED BY <1>1, <1>2, <1>3, <1>6, <1>7 DEF Moves, o

LEMMA AppliedMoves ==
    ASSUME log \in Seq(Batch), NEW r, Replica(r), NEW seq \in 1..Len(log), Fits(r, seq),
           r.phase \notin {"out"} \cup Bootstrapping
    PROVE  /\ seq = r.lastSeq + 1 /\ Moves(r, Applied(r, seq)) /\ Applied(r, seq).lastSeq = seq
           /\ Applied(r, seq).link = r.link /\ Applied(r, seq).queue = r.queue
           /\ Applied(r, seq).phase = r.phase /\ Applied(r, seq).run = r.run
           /\ Applied(r, seq).attempt = r.attempt /\ Applied(r, seq).feed = r.feed
           /\ Applied(r, seq).buffer = r.buffer
<1> DEFINE k == r.lastSeq
           doc == Append(r.doc, log[seq])
           s == [r EXCEPT !.doc = doc, !.lastSeq = seq]
<1>1. Applied(r, seq) = s
  BY DEF Applied
<1>2. /\ r \in GuestRecord(Len(log)) /\ k \in Nat /\ k <= Len(log) /\ Len(log) \in Nat
      /\ r.doc = SubSeq(log, 1, k) /\ Len(r.doc) = k /\ r.doc \in Seq(Batch)
  BY ReplicaFacts
<1>3. seq - 1 \in 0..Len(log) /\ Len(SubSeq(log, 1, seq - 1)) = seq - 1
  <2>1. seq - 1 \in 0..Len(log)
    BY <1>2
  <2> QED BY <2>1, Beginnings
<1>4. seq = k + 1
  BY <1>2, <1>3 DEF Fits, Revision
<1>5. k \in 0..Len(log) /\ k < Len(log) /\ log[seq] \in Batch
  BY <1>2, <1>4, ElementOfSeq
<1>a. seq \in 0..Len(log)
  BY <1>2
<1>6. doc = SubSeq(log, 1, seq) /\ doc \in Seq(Batch)
  BY <1>2, <1>4, <1>5, NextBeginning, AppendProperties
<1> HIDE DEF doc
<1>7. /\ s \in GuestRecord(Len(log)) /\ s.phase = r.phase /\ s.acked = r.acked
      /\ s.lastSeq = seq /\ s.doc = doc /\ s.run = r.run /\ s.queue = r.queue
      /\ s.link = r.link /\ s.attempt = r.attempt /\ s.feed = r.feed /\ s.buffer = r.buffer
  BY <1>2, <1>6, <1>a DEF GuestRecord
<1> HIDE DEF s
<1>8. \A b \in s.acked : \E i \in 1..seq : log[i] = b
  <2>1. \A i \in 1..k : i \in 1..seq
    BY <1>2, <1>4
  <2> QED BY <1>7, <2>1 DEF Replica
<1>9. Replica(s)
  BY <1>6, <1>7, <1>8 DEF Replica, Revision, Bootstrapping
<1> QED BY <1>1, <1>2, <1>4, <1>7, <1>9 DEF Moves, k

LEMMA ResyncingMoves ==
    ASSUME log \in Seq(Batch), NEW r, Replica(r), r.queue # <<>>
    PROVE  /\ Moves(r, Resyncing(r)) /\ Resyncing(r).run = "connecting"
           /\ Resyncing(r).link = IF r.link = "down" THEN "opening" ELSE r.link
           /\ Resyncing(r).lastSeq = r.lastSeq /\ Resyncing(r).phase = r.phase
           /\ Resyncing(r).queue = r.queue /\ Resyncing(r).attempt = r.attempt
<1> DEFINE link == IF r.link = "down" THEN "opening" ELSE r.link
           s == [r EXCEPT !.run = "connecting", !.link = link]
<1>1. Resyncing(r) = s
  BY DEF Resyncing
<1>2. r \in GuestRecord(Len(log)) /\ link \in {"opening", "auth", "ready"}
  BY ReplicaFacts DEF GuestRecord
<1> HIDE DEF link
<1>3. /\ s \in GuestRecord(Len(log)) /\ s.phase = r.phase /\ s.acked = r.acked
      /\ s.lastSeq = r.lastSeq /\ s.doc = r.doc /\ s.run = "connecting" /\ s.queue = r.queue
      /\ s.link = link /\ s.attempt = r.attempt
  BY <1>2 DEF GuestRecord
<1> HIDE DEF s
<1>4. Moves(r, s)
  BY <1>3, SameContents DEF Replica
<1> QED BY <1>1, <1>3, <1>4 DEF link

LEMMA BeginMoves ==
    ASSUME log \in Seq(Batch), NEW r, Replica(r), r.queue # <<>>, r.run = "idle"
    PROVE  Moves(r, Begin(r))
<1> DEFINE o == Operation(r)
<1>1. /\ o \in Ops(Len(log)) /\ Len(log) \in Nat /\ r.lastSeq \in Nat
      /\ r.phase \notin {"out"} \cup Bootstrapping
  BY ReplicaFacts DEF Operation, Replica
<1>2. o.seq \in 0..Len(log) /\ (o.op \notin {"fence", "recon"} => o.seq \in 1..Len(log))
  BY <1>1, OperationFacts
<1> HIDE DEF o
<1>3. CASE Begin(r) = Resyncing(r)
  BY <1>3, ResyncingMoves
<1>4. CASE o.op \notin {"fence", "recon"} /\ o.seq <= r.lastSeq
  BY <1>4, CompletedMoves DEF Begin, o
<1>5. CASE o.op \notin {"fence", "recon"} /\ o.seq = r.lastSeq + 1 /\ Fits(r, o.seq)
  <2> DEFINE a == Applied(r, o.seq)
  <2>1. /\ Replica(a) /\ a.lastSeq >= r.lastSeq /\ a.lastSeq = o.seq /\ a.queue = r.queue
    BY <1>1, <1>2, <1>5, AppliedMoves DEF Moves
  <2> HIDE DEF a
  <2>2. a.lastSeq \in Nat /\ Operation(a) = o
    BY <2>1, ReplicaFacts DEF Operation, o
  <2>3. Moves(a, Completed(a)) /\ Completed(a).lastSeq = a.lastSeq
    BY <2>1, <2>2, CompletedMoves
  <2>4. Begin(r) = Completed(a)
    BY <1>1, <1>2, <1>5 DEF Begin, o, a
  <2> QED BY <2>1, <2>3, <2>4 DEF Moves
<1> QED BY <1>3, <1>4, <1>5 DEF Begin, o

LEMMA FeedMoves ==
    ASSUME log \in Seq(Batch), NEW r, Replica(r), r.feed # <<>>
    PROVE  /\ Moves(r, [r EXCEPT !.feed = Tail(@)])
           /\ Tail(r.feed) \in Seq(1..Len(log)) /\ Head(r.feed) \in 1..Len(log)
<1> DEFINE s == [r EXCEPT !.feed = Tail(@)]
<1>1. r \in GuestRecord(Len(log)) /\ r.feed \in Seq(1..Len(log))
  BY ReplicaFacts DEF GuestRecord
<1>2. Tail(r.feed) \in Seq(1..Len(log)) /\ Head(r.feed) \in 1..Len(log)
  <2> DEFINE S == 1..Len(log)
             f == r.feed
  <2>1. f \in Seq(S) /\ f # <<>>
    BY <1>1
  <2> HIDE DEF S, f
  <2>2. Tail(f) \in Seq(S) /\ Head(f) \in S
    BY <2>1, HeadTailProperties
  <2> QED BY <2>2 DEF S, f
<1>3. /\ s \in GuestRecord(Len(log)) /\ s.phase = r.phase /\ s.acked = r.acked
      /\ s.lastSeq = r.lastSeq /\ s.doc = r.doc /\ s.run = r.run /\ s.queue = r.queue
      /\ s.attempt = r.attempt
  BY <1>1, <1>2 DEF GuestRecord
<1> HIDE DEF s
<1>4. Moves(r, s)
  BY <1>3, SameContents DEF Replica
<1> QED BY <1>2, <1>4 DEF s

LEMMA ContinueMoves ==
    ASSUME log \in Seq(Batch), NEW r, Replica(r), r.queue # <<>>
    PROVE  Moves(r, Continue(r))
<1> DEFINE o == Operation(r)
           seq == Head(r.feed)
<1>1. r \in GuestRecord(Len(log)) /\ r.phase \notin {"out"} \cup Bootstrapping
  BY ReplicaFacts DEF Replica
<1>2. CASE r.feed = <<>> /\ (o.op \in {"fence", "recon"} \/ o.seq <= r.lastSeq)
  BY <1>2, CompletedMoves DEF Continue
<1>3. CASE r.feed = <<>> /\ ~(o.op \in {"fence", "recon"} \/ o.seq <= r.lastSeq)
  <2> DEFINE s == [r EXCEPT !.run = "idle"]
  <2>1. /\ s \in GuestRecord(Len(log)) /\ s.phase = r.phase /\ s.acked = r.acked
        /\ s.lastSeq = r.lastSeq /\ s.doc = r.doc /\ s.run = "idle" /\ s.queue = r.queue
        /\ s.attempt = r.attempt
    BY <1>1 DEF GuestRecord
  <2>2. Continue(r) = s
    BY <1>3 DEF Continue
  <2> HIDE DEF s
  <2>3. Moves(r, s)
    BY <2>1, SameContents DEF Replica
  <2> QED BY <2>2, <2>3
<1>4. CASE r.feed # <<>> /\ seq <= r.lastSeq
  BY <1>4, FeedMoves DEF Continue
<1>5. CASE r.feed # <<>> /\ ~(seq <= r.lastSeq) /\ Fits(r, seq)
  <2> DEFINE a == Applied(r, seq)
  <2>1. Replica(a) /\ a.lastSeq >= r.lastSeq /\ a.feed = r.feed
    BY <1>1, <1>5, FeedMoves, AppliedMoves DEF Moves
  <2>2. a.lastSeq \in Nat /\ r.lastSeq \in Nat
    BY <2>1, ReplicaFacts
  <2> HIDE DEF a
  <2>3. Moves(a, [a EXCEPT !.feed = Tail(@)])
    BY <1>5, <2>1, FeedMoves
  <2>4. [a EXCEPT !.feed = Tail(@)].lastSeq \in Nat
    BY <2>3, ReplicaFacts DEF Moves
  <2>5. Continue(r) = [a EXCEPT !.feed = Tail(@)]
    BY <1>5 DEF Continue, a
  <2> QED BY <2>1, <2>2, <2>3, <2>4, <2>5 DEF Moves
<1>6. CASE r.feed # <<>> /\ ~(seq <= r.lastSeq) /\ ~Fits(r, seq)
  BY <1>6, OperationFailsMoves DEF Continue
<1> QED BY <1>2, <1>3, <1>4, <1>5, <1>6

LEMMA OnTransactionMoves ==
    ASSUME log \in Seq(Batch), NEW r, Replica(r), NEW seq \in 1..Len(log)
    PROVE  Moves(r, OnTransaction(r, seq))
<1>1. /\ r \in GuestRecord(Len(log)) /\ Len(log) \in Nat
      /\ r.queue \in Seq(Ops(Len(log))) /\ r.buffer \in Seq(1..Len(log))
  BY ReplicaFacts DEF GuestRecord
<1>2. CASE r.phase \in Bootstrapping /\ Len(r.buffer) >= JoinBufferLimit
  BY <1>2, LeftMoves DEF OnTransaction
<1>3. CASE r.phase \in Bootstrapping /\ ~(Len(r.buffer) >= JoinBufferLimit)
  <2> DEFINE buffer == Append(r.buffer, seq)
             s == [r EXCEPT !.buffer = buffer]
  <2>1. buffer \in Seq(1..Len(log))
    BY <1>1
  <2>2. OnTransaction(r, seq) = s
    BY <1>3 DEF OnTransaction
  <2> HIDE DEF buffer
  <2>3. /\ s \in GuestRecord(Len(log)) /\ s.phase = r.phase /\ s.acked = r.acked
        /\ s.lastSeq = r.lastSeq /\ s.doc = r.doc /\ s.run = r.run /\ s.queue = r.queue
        /\ s.attempt = r.attempt
    BY <1>1, <2>1 DEF GuestRecord
  <2> HIDE DEF s
  <2> QED BY <2>2, <2>3, SameContents DEF Replica
<1>4. CASE r.phase \in Attached
  <2> DEFINE o == [op |-> "peer", seq |-> seq]
             queue == Append(r.queue, o)
             s == [r EXCEPT !.queue = queue]
  <2>1. o \in Ops(Len(log))
    BY <1>1, NewOperations
  <2>2. OnTransaction(r, seq) = s
    BY <1>4 DEF OnTransaction, Attached, Bootstrapping
  <2> HIDE DEF o
  <2>3. queue \in Seq(Ops(Len(log))) /\ queue # <<>>
    <3> DEFINE S == Ops(Len(log))
               q == r.queue
    <3>1. q \in Seq(S) /\ o \in S
      BY <1>1, <2>1
    <3> HIDE DEF S, q
    <3>2. Append(q, o) \in Seq(S) /\ Append(q, o) # <<>>
      BY <3>1, AppendProperties
    <3> QED BY <3>2 DEF S, q
  <2> HIDE DEF queue
  <2>4. /\ s \in GuestRecord(Len(log)) /\ s.phase = r.phase /\ s.acked = r.acked
        /\ s.lastSeq = r.lastSeq /\ s.doc = r.doc /\ s.run = r.run /\ s.queue = queue
        /\ s.attempt = r.attempt
    BY <1>1, <2>3 DEF GuestRecord
  <2> HIDE DEF s
  <2> QED BY <1>4, <2>2, <2>3, <2>4, SameContents DEF Replica, Attached, Bootstrapping
<1>5. CASE r.phase \notin Bootstrapping \cup Attached
  <2>1. OnTransaction(r, seq) = r
    BY <1>5 DEF OnTransaction
  <2> QED BY <2>1, ReplicaFacts DEF Moves
<1> QED BY <1>2, <1>3, <1>4, <1>5

LEMMA OnResultMoves ==
    ASSUME log \in Seq(Batch), NEW r, Replica(r), NEW seq \in 1..Len(log)
    PROVE  Moves(r, OnResult(r, seq))
<1>1. /\ r \in GuestRecord(Len(log)) /\ Len(log) \in Nat /\ r.queue \in Seq(Ops(Len(log)))
  BY ReplicaFacts
<1>2. CASE r.sent = 0 \/ r.phase \notin Attached
  <2>1. OnResult(r, seq) = r
    BY <1>2 DEF OnResult
  <2> QED BY <2>1, ReplicaFacts DEF Moves
<1>3. CASE ~(r.sent = 0 \/ r.phase \notin Attached)
  <2> DEFINE o == [op |-> "own", seq |-> seq]
             queue == Append(r.queue, o)
             s == [r EXCEPT !.sent = 0, !.queue = queue]
  <2>1. o \in Ops(Len(log))
    BY <1>1, NewOperations
  <2>2. OnResult(r, seq) = s
    BY <1>3 DEF OnResult
  <2> HIDE DEF o
  <2>3. queue \in Seq(Ops(Len(log))) /\ queue # <<>>
    BY <1>1, <2>1, AppendProperties
  <2> HIDE DEF queue
  <2>4. /\ s \in GuestRecord(Len(log)) /\ s.phase = r.phase /\ s.acked = r.acked
        /\ s.lastSeq = r.lastSeq /\ s.doc = r.doc /\ s.run = r.run /\ s.queue = queue
        /\ s.attempt = r.attempt
    BY <1>1, <2>3 DEF GuestRecord
  <2> HIDE DEF s
  <2> QED BY <1>3, <2>2, <2>3, <2>4, SameContents DEF Replica, Attached, Bootstrapping
<1> QED BY <1>2, <1>3

\* The transactions of an answer, as a sequence.
LEMMA FeedType ==
    ASSUME NEW n \in Nat, NEW from \in 0..n, NEW to \in 0..n, from <= to
    PROVE  [i \in 1..(to - from) |-> from + i] \in Seq(1..n)
<1>1. to - from \in Nat /\ \A i \in 1..(to - from) : from + i \in 1..n
  OBVIOUS
<1>2. [i \in 1..(to - from) |-> from + i] \in [1..(to - from) -> 1..n]
  BY <1>1
<1> QED BY <1>1, <1>2, SeqDef

LEMMA OnResyncMoves ==
    ASSUME log \in Seq(Batch), NEW r, Replica(r), NEW m,
           m.from \in 0..Len(log), m.to \in 0..Len(log), m.from <= m.to
    PROVE  Moves(r, OnResync(r, m))
<1>1. r \in GuestRecord(Len(log)) /\ Len(log) \in Nat
  BY ReplicaFacts
<1>2. CASE r.phase = "syncing"
  <2> DEFINE doc == Revision(m.to)
             to == m.to
             s == [r EXCEPT !.phase = "cloning", !.doc = doc, !.lastSeq = to]
  <2>1. doc \in Seq(Batch) /\ to \in 0..Len(log) /\ doc = Revision(to)
    BY Beginnings DEF Revision
  <2>2. OnResync(r, m) = s
    BY <1>2 DEF OnResync
  <2>3. r.queue = <<>> /\ r.run = "idle" /\ r.attempt = 0 /\ r.lastSeq = 0
        /\ \A b \in r.acked : \E i \in 1..0 : log[i] = b
    BY <1>2 DEF Replica, Bootstrapping
  <2> HIDE DEF doc, to
  <2>4. /\ s \in GuestRecord(Len(log)) /\ s.phase = "cloning" /\ s.acked = r.acked
        /\ s.lastSeq = to /\ s.doc = doc /\ s.run = r.run /\ s.queue = r.queue
        /\ s.attempt = r.attempt
    BY <1>1, <2>1 DEF GuestRecord, Phases
  <2> HIDE DEF s
  <2>5. s.acked = {}
    BY <2>3, <2>4
  <2>6. Replica(s)
    BY <2>1, <2>3, <2>4, <2>5 DEF Replica, Bootstrapping
  <2>7. s.lastSeq >= r.lastSeq
    BY <1>1, <2>1, <2>3, <2>4
  <2> QED BY <2>2, <2>6, <2>7 DEF Moves
<1>3. CASE r.phase # "syncing" /\ r.run # "waiting"
  <2>1. OnResync(r, m) = r
    BY <1>3 DEF OnResync
  <2> QED BY <2>1, ReplicaFacts DEF Moves
<1>4. CASE r.phase # "syncing" /\ r.run = "waiting" /\ m.snapshot
  <2>1. r.queue # <<>>
    BY <1>4 DEF Replica
  <2> QED BY <1>4, <2>1, OperationFailsMoves DEF OnResync
<1>5. CASE r.phase # "syncing" /\ r.run = "waiting" /\ ~m.snapshot
  <2> DEFINE feed == [i \in 1..(m.to - m.from) |-> m.from + i]
             s == [r EXCEPT !.run = "applying", !.feed = feed]
  <2>1. feed \in Seq(1..Len(log))
    BY <1>1, FeedType
  <2>2. OnResync(r, m) = s
    BY <1>5 DEF OnResync
  <2> HIDE DEF feed
  <2>3. /\ s \in GuestRecord(Len(log)) /\ s.phase = r.phase /\ s.acked = r.acked
        /\ s.lastSeq = r.lastSeq /\ s.doc = r.doc /\ s.run = "applying" /\ s.queue = r.queue
        /\ s.attempt = r.attempt
    BY <1>1, <2>1 DEF GuestRecord
  <2> HIDE DEF s
  <2> QED BY <1>5, <2>2, <2>3, SameContents DEF Replica
<1> QED BY <1>2, <1>3, <1>4, <1>5

LEMMA OnRejectedMoves ==
    ASSUME log \in Seq(Batch), NEW r, Replica(r), NEW final
    PROVE  Moves(r, OnRejected(r, final)) /\ OnRejected(r, final).link = "down"
<1>1. CASE OnRejected(r, final) = AfterDrop(r)
  BY <1>1, AfterDropMoves
<1>2. CASE OnRejected(r, final) = FailGuest(r)
  BY <1>2, FailGuestMoves
<1>3. CASE r.run = "connecting" /\ OnRejected(r, final) = FailGuest(Finished(r))
  <2> DEFINE f == Finished(r)
  <2>1. r.queue # <<>>
    BY <1>3 DEF Replica
  <2>2. Replica(f) /\ f.lastSeq = r.lastSeq
    BY <2>1, FinishedMoves DEF Moves
  <2> HIDE DEF f
  <2>3. Moves(f, FailGuest(f)) /\ FailGuest(f).link = "down"
    BY <2>2, FailGuestMoves
  <2> QED BY <1>3, <2>2, <2>3 DEF Moves, f
<1> QED BY <1>1, <1>2, <1>3 DEF OnRejected
-----------------------------------------------------------------------------
(* What the steps do: the requests and the messages.                       *)

LEMMA MessageFacts ==
    ASSUME NEW n \in Nat, NEW m \in Inbox(n)
    PROVE  /\ m.type \in {"accepted", "presence", "rejected", "tx", "result", "error", "resync"}
           /\ m.type \in {"tx", "result"} => m.seq \in 1..n
           /\ m.type = "resync" => m.from \in 0..n /\ m.to \in 0..n /\ m.from <= m.to
BY DEF Inbox

LEMMA NewMessages ==
    ASSUME NEW n \in Nat
    PROVE  /\ [type |-> "accepted"] \in Inbox(n) /\ [type |-> "presence"] \in Inbox(n)
           /\ [type |-> "error"] \in Inbox(n)
           /\ \A f \in BOOLEAN : [type |-> "rejected", final |-> f] \in Inbox(n)
           /\ \A s \in 1..n : /\ [type |-> "tx", seq |-> s] \in Inbox(n)
                              /\ [type |-> "result", seq |-> s] \in Inbox(n)
           /\ \A a \in 0..n, f \in BOOLEAN :
                 [type |-> "resync", from |-> a, to |-> n, snapshot |-> f] \in Inbox(n)
BY DEF Inbox

LEMMA NewRequests ==
    ASSUME NEW n \in Nat
    PROVE  /\ \A b \in Batch : [type |-> "submit", batch |-> b] \in Outbox(n)
           /\ \A a \in 0..n, d \in Seq(Batch) :
                 [type |-> "resync", after |-> a, known |-> d] \in Outbox(n)
BY DEF Outbox

\* A message more in one guest's queue, or in its connection's.
LEMMA OneMore ==
    ASSUME NEW S, NEW f \in [Guests -> Seq(S)], NEW g \in Guests, NEW e \in S
    PROVE  [f EXCEPT ![g] = Append(@, e)] \in [Guests -> Seq(S)]
<1>1. Append(f[g], e) \in Seq(S)
  BY AppendProperties
<1> QED BY <1>1

\* A step of a guest leaves the host alone.
LEMMA GuestStep ==
    ASSUME ReplicaInv, NEW g \in Guests, NEW s, Moves(guest[g], s),
           guest' = [guest EXCEPT ![g] = s], UNCHANGED hostVars,
           conn' \in [Guests -> {"none", "pending", "accepted", "ready", "stale"}],
           toHost' \in [Guests -> Seq(Outbox(Len(log)))],
           toGuest' \in [Guests -> Seq(Inbox(Len(log)))]
    PROVE  ChannelTypes' /\ Follows
<1>1. log' = log /\ UNCHANGED <<engine, committed, server, saved, batches>>
  BY DEF hostVars
<1>2. ChannelTypes'
  BY <1>1 DEF ReplicaInv, ChannelTypes
<1>3. GuestMoves(g)
  BY <1>1 DEF GuestMoves
<1> QED BY <1>2, <1>3 DEF Follows

LEMMA BecomesStep ==
    ASSUME ReplicaInv, NEW g \in Guests, NEW s, Moves(guest[g], s),
           NEW rest \in Seq(Inbox(Len(log))), Becomes(g, s, rest),
           UNCHANGED <<hostVars, toHost>>
    PROVE  ChannelTypes' /\ Follows
<1>1. /\ conn \in [Guests -> {"none", "pending", "accepted", "ready", "stale"}]
      /\ toGuest \in [Guests -> Seq(Inbox(Len(log)))]
      /\ toHost' \in [Guests -> Seq(Outbox(Len(log)))]
  BY DEF ReplicaInv, ChannelTypes
<1>2. <<>> \in Seq(Inbox(Len(log)))
  OBVIOUS
<1>3. toGuest' \in [Guests -> Seq(Inbox(Len(log)))]
  BY <1>1, <1>2 DEF Becomes
<1>4. conn' \in [Guests -> {"none", "pending", "accepted", "ready", "stale"}]
  BY <1>1 DEF Becomes
<1>5. guest' = [guest EXCEPT ![g] = s] /\ UNCHANGED hostVars
  BY DEF Becomes
<1> QED BY <1>1, <1>3, <1>4, <1>5, GuestStep

\* What a step of the guests starts from.
LEMMA GuestState ==
    ASSUME ReplicaInv, NEW g \in Guests
    PROVE  /\ log \in Seq(Batch) /\ Len(log) \in Nat /\ Replica(guest[g])
           /\ guest[g] \in GuestRecord(Len(log)) /\ guest \in [Guests -> GuestRecord(Len(log))]
           /\ conn \in [Guests -> {"none", "pending", "accepted", "ready", "stale"}]
           /\ toHost \in [Guests -> Seq(Outbox(Len(log)))]
           /\ toGuest \in [Guests -> Seq(Inbox(Len(log)))]
           /\ toGuest[g] \in Seq(Inbox(Len(log))) /\ <<>> \in Seq(Inbox(Len(log)))
           /\ Moves(guest[g], guest[g])
<1>1. log \in Seq(Batch) /\ Replica(guest[g]) /\ ChannelTypes
      /\ guest \in [Guests -> GuestRecord(Len(log))]
  BY DEF ReplicaInv
<1>2. Moves(guest[g], guest[g])
  BY <1>1, ReplicaFacts DEF Moves
<1> QED BY <1>1, <1>2 DEF ChannelTypes
-----------------------------------------------------------------------------
(* Every step of a guest keeps the invariant and moves its replica forward. *)

LEMMA JoinStep ==
    ASSUME ReplicaInv, NEW g \in Guests, Join(g)
    PROVE  ChannelTypes' /\ Follows
<1> DEFINE r == guest[g]
           s == [r EXCEPT !.phase = "connecting", !.link = "opening"]
<1>1. Replica(r) /\ r \in GuestRecord(Len(log)) /\ r.phase = "out" /\ log \in Seq(Batch)
  BY GuestState DEF Join
<1>2. guest' = [guest EXCEPT ![g] = s]
  BY GuestState DEF Join
<1> HIDE DEF r
<1>3. /\ s \in GuestRecord(Len(log)) /\ s.phase = "connecting" /\ s.acked = r.acked
      /\ s.lastSeq = r.lastSeq /\ s.doc = r.doc /\ s.run = r.run /\ s.queue = r.queue
      /\ s.attempt = r.attempt
  BY <1>1 DEF GuestRecord, Phases
<1> HIDE DEF s
<1>4. Moves(r, s)
  BY <1>1, <1>3, SameContents DEF Replica
<1> QED BY <1>2, <1>4, GuestState, GuestStep DEF Join, r

LEMMA RequestInitialStep ==
    ASSUME ReplicaInv, NEW g \in Guests, RequestInitial(g)
    PROVE  ChannelTypes' /\ Follows
<1> DEFINE r == guest[g]
           s == [r EXCEPT !.phase = "syncing"]
           q == [type |-> "resync", after |-> 0, known |-> <<>>]
<1>1. Replica(r) /\ r \in GuestRecord(Len(log)) /\ r.phase = "connecting" /\ log \in Seq(Batch)
  BY GuestState DEF RequestInitial
<1>2. guest' = [guest EXCEPT ![g] = s]
  BY GuestState DEF RequestInitial
<1>3. q \in Outbox(Len(log))
  <2>1. 0 \in 0..Len(log) /\ <<>> \in Seq(Batch) /\ Len(log) \in Nat
    BY GuestState
  <2> QED BY <2>1, NewRequests
<1> HIDE DEF r, q
<1>4. /\ s \in GuestRecord(Len(log)) /\ s.phase = "syncing" /\ s.acked = r.acked
      /\ s.lastSeq = r.lastSeq /\ s.doc = r.doc /\ s.run = r.run /\ s.queue = r.queue
      /\ s.attempt = r.attempt
  BY <1>1 DEF GuestRecord, Phases
<1> HIDE DEF s
<1>5. Moves(r, s)
  BY <1>1, <1>4, SameContents DEF Replica, Bootstrapping
<1>6. toHost' \in [Guests -> Seq(Outbox(Len(log)))]
  BY <1>3, GuestState, OneMore DEF RequestInitial, Request, q
<1> QED BY <1>2, <1>5, <1>6, GuestState, GuestStep DEF RequestInitial, r

LEMMA HandoffStep ==
    ASSUME ReplicaInv, NEW g \in Guests, Handoff(g)
    PROVE  ChannelTypes' /\ Follows
<1> DEFINE r == guest[g]
           queue == [i \in DOMAIN r.buffer |-> [op |-> "join", seq |-> r.buffer[i]]]
           s == [r EXCEPT !.phase = "handoff", !.buffer = <<>>, !.queue = queue]
<1>1. Replica(r) /\ r \in GuestRecord(Len(log)) /\ r.phase = "cloning" /\ log \in Seq(Batch)
  BY GuestState DEF Handoff
<1>2. guest' = [guest EXCEPT ![g] = s]
  BY GuestState DEF Handoff
<1> HIDE DEF r
<1>3. queue \in Seq(Ops(Len(log)))
  <2>1. r.buffer \in Seq(1..Len(log)) /\ Len(log) \in Nat
    BY <1>1, GuestState DEF GuestRecord
  <2> DEFINE b == r.buffer
  <2>2. DOMAIN b = 1..Len(b) /\ Len(b) \in Nat /\ \A i \in 1..Len(b) : b[i] \in 1..Len(log)
    BY <2>1
  <2>a. \A i \in 1..Len(b) : [op |-> "join", seq |-> b[i]] \in Ops(Len(log))
    BY <2>1, <2>2, NewOperations
  <2>3. queue \in [1..Len(b) -> Ops(Len(log))] /\ Len(b) \in Nat
    BY <2>2, <2>a
  <2> HIDE DEF queue, b
  <2>4. [1..Len(b) -> Ops(Len(log))] \subseteq Seq(Ops(Len(log)))
    BY <2>3, SeqDef
  <2> QED BY <2>3, <2>4
<1> HIDE DEF queue
<1>4. /\ s \in GuestRecord(Len(log)) /\ s.phase = "handoff" /\ s.acked = r.acked
      /\ s.lastSeq = r.lastSeq /\ s.doc = r.doc /\ s.run = r.run /\ s.queue = queue
  <2>1. <<>> \in Seq(1..Len(log))
    OBVIOUS
  <2> QED BY <1>1, <1>3, <2>1 DEF GuestRecord, Phases
<1> HIDE DEF s
<1>5. Moves(r, s)
  BY <1>1, <1>4, SameContents DEF Replica, Bootstrapping
<1> QED BY <1>2, <1>5, GuestState, GuestStep DEF Handoff, r

LEMMA FenceStep ==
    ASSUME ReplicaInv, NEW g \in Guests, Fence(g)
    PROVE  ChannelTypes' /\ Follows
<1> DEFINE r == guest[g]
           S == Ops(Len(log))
           o == [op |-> "fence", seq |-> 0]
           queue == Append(r.queue, o)
           s == [r EXCEPT !.phase = "fence", !.queue = queue]
<1>1. Replica(r) /\ r \in GuestRecord(Len(log)) /\ r.phase = "handoff" /\ log \in Seq(Batch)
  BY GuestState DEF Fence
<1>2. o \in S /\ r.queue \in Seq(S)
  BY <1>1, GuestState, NewOperations DEF GuestRecord
<1>3. CASE r.link = "ready"
  <2>1. Becomes(g, s, toGuest[g]) /\ UNCHANGED <<hostVars, toHost>>
    BY <1>3 DEF Fence
  <2> HIDE DEF r, S, o
  <2>2. queue \in Seq(S) /\ queue # <<>>
    BY <1>2, AppendProperties
  <2> USE DEF S
  <2> HIDE DEF queue
  <2>3. /\ s \in GuestRecord(Len(log)) /\ s.phase = "fence" /\ s.acked = r.acked
        /\ s.lastSeq = r.lastSeq /\ s.doc = r.doc /\ s.run = r.run /\ s.queue = queue
    BY <1>1, <2>2 DEF GuestRecord, Phases
  <2> HIDE DEF s
  <2>4. Moves(r, s)
    BY <1>1, <2>2, <2>3, SameContents DEF Replica, Bootstrapping
  <2> QED BY <2>1, <2>4, GuestState, BecomesStep DEF r
<1>4. CASE r.link # "ready"
  <2>1. Becomes(g, Left(r), toGuest[g]) /\ UNCHANGED <<hostVars, toHost>>
    BY <1>4 DEF Fence
  <2>2. Moves(r, Left(r))
    BY <1>1, LeftMoves
  <2> HIDE DEF s
  <2> QED BY <2>1, <2>2, GuestState, BecomesStep
<1> QED BY <1>3, <1>4

LEMMA AnnounceStep ==
    ASSUME ReplicaInv, NEW g \in Guests, Announce(g)
    PROVE  ChannelTypes' /\ Follows
<1> DEFINE r == guest[g]
           s == [r EXCEPT !.phase = "announce"]
<1>1. /\ Replica(r) /\ r \in GuestRecord(Len(log)) /\ log \in Seq(Batch)
      /\ UNCHANGED <<hostVars, toHost>>
      /\ Becomes(g, s, toGuest[g]) \/ Becomes(g, Left(r), toGuest[g])
  BY GuestState DEF Announce
<1> HIDE DEF r
<1>2. /\ s \in GuestRecord(Len(log)) /\ s.phase = "announce" /\ s.acked = r.acked
      /\ s.lastSeq = r.lastSeq /\ s.doc = r.doc /\ s.run = r.run /\ s.queue = r.queue
  BY <1>1 DEF GuestRecord, Phases
<1> HIDE DEF s
<1>3. Moves(r, s)
  BY <1>1, <1>2, SameContents DEF Replica, Bootstrapping
<1>4. Moves(r, Left(r))
  BY <1>1, LeftMoves
<1> QED BY <1>1, <1>3, <1>4, GuestState, BecomesStep DEF r

LEMMA JoinedStep ==
    ASSUME ReplicaInv, NEW g \in Guests, Joined(g)
    PROVE  ChannelTypes' /\ Follows
<1> DEFINE r == guest[g]
           s == [r EXCEPT !.phase = "live"]
<1>1. Replica(r) /\ r \in GuestRecord(Len(log)) /\ log \in Seq(Batch)
  BY GuestState
<1>2. guest' = [guest EXCEPT ![g] = s]
  BY GuestState DEF Joined
<1> HIDE DEF r
<1>3. /\ s \in GuestRecord(Len(log)) /\ s.phase = "live" /\ s.acked = r.acked
      /\ s.lastSeq = r.lastSeq /\ s.doc = r.doc /\ s.run = r.run /\ s.queue = r.queue
  BY <1>1 DEF GuestRecord, Phases
<1> HIDE DEF s
<1>4. Moves(r, s)
  BY <1>1, <1>3, SameContents DEF Replica, Bootstrapping
<1> QED BY <1>2, <1>4, GuestState, GuestStep DEF Joined, r

LEMMA LeaveStep ==
    ASSUME ReplicaInv, NEW g \in Guests, Leave(g)
    PROVE  ChannelTypes' /\ Follows
BY GuestState, LeftMoves, BecomesStep DEF Leave

LEMMA ReconnectStep ==
    ASSUME ReplicaInv, NEW g \in Guests, Reconnect(g)
    PROVE  ChannelTypes' /\ Follows
<1> DEFINE r == guest[g]
           s == [r EXCEPT !.link = "opening"]
<1>1. Replica(r) /\ r \in GuestRecord(Len(log)) /\ log \in Seq(Batch)
  BY GuestState
<1>2. guest' = [guest EXCEPT ![g] = s]
  BY GuestState DEF Reconnect
<1> HIDE DEF r
<1>3. /\ s \in GuestRecord(Len(log)) /\ s.phase = r.phase /\ s.acked = r.acked
      /\ s.lastSeq = r.lastSeq /\ s.doc = r.doc /\ s.run = r.run /\ s.queue = r.queue
      /\ s.attempt = r.attempt
  BY <1>1 DEF GuestRecord, Phases
<1> HIDE DEF s
<1>4. Moves(r, s)
  BY <1>1, <1>3, SameContents DEF Replica
<1> QED BY <1>2, <1>4, GuestState, GuestStep DEF Reconnect, r

LEMMA QueueReconnectResyncStep ==
    ASSUME ReplicaInv, NEW g \in Guests, QueueReconnectResync(g)
    PROVE  ChannelTypes' /\ Follows
<1> DEFINE r == guest[g]
           S == Ops(Len(log))
           o == [op |-> "recon", seq |-> 0]
           queue == Append(r.queue, o)
           s == [r EXCEPT !.queue = queue]
<1>1. /\ Replica(r) /\ r \in GuestRecord(Len(log)) /\ log \in Seq(Batch)
      /\ r.attempt > 0
  BY GuestState DEF QueueReconnectResync, JustReconnected
<1>2. o \in S /\ r.queue \in Seq(S)
  BY <1>1, GuestState, NewOperations DEF GuestRecord
<1>3. guest' = [guest EXCEPT ![g] = s]
  BY GuestState DEF QueueReconnectResync
<1> HIDE DEF r, S, o
<1>4. queue \in Seq(S) /\ queue # <<>>
  BY <1>2, AppendProperties
<1> USE DEF S
<1> HIDE DEF queue
<1>5. /\ s \in GuestRecord(Len(log)) /\ s.phase = r.phase /\ s.acked = r.acked
      /\ s.lastSeq = r.lastSeq /\ s.doc = r.doc /\ s.run = r.run /\ s.queue = queue
      /\ s.attempt = r.attempt
  BY <1>1, <1>4 DEF GuestRecord
<1> HIDE DEF s
<1>6. Moves(r, s)
  BY <1>1, <1>4, <1>5, SameContents DEF Replica, Bootstrapping
<1> QED BY <1>3, <1>6, GuestState, GuestStep DEF QueueReconnectResync, r

LEMMA HeartbeatStep ==
    ASSUME ReplicaInv, NEW g \in Guests, Heartbeat(g)
    PROVE  ChannelTypes' /\ Follows
<1> DEFINE r == guest[g]
           s == [r EXCEPT !.attempt = 1]
<1>1. Replica(r) /\ r \in GuestRecord(Len(log)) /\ log \in Seq(Batch) /\ r.phase = "live"
  BY GuestState DEF Heartbeat
<1>2. guest' = [guest EXCEPT ![g] = s]
  BY GuestState DEF Heartbeat
<1> HIDE DEF r
<1>3. /\ s \in GuestRecord(Len(log)) /\ s.phase = r.phase /\ s.acked = r.acked
      /\ s.lastSeq = r.lastSeq /\ s.doc = r.doc /\ s.run = r.run /\ s.queue = r.queue
  BY Attempts, <1>1 DEF GuestRecord, Phases
<1> HIDE DEF s
<1>4. Moves(r, s)
  BY <1>1, <1>3, SameContents DEF Replica, Bootstrapping
<1> QED BY <1>2, <1>4, GuestState, GuestStep DEF Heartbeat, r

LEMMA RunQueueStep ==
    ASSUME ReplicaInv, NEW g \in Guests, RunQueue(g)
    PROVE  ChannelTypes' /\ Follows
<1> DEFINE r == guest[g]
           s == IF r.run = "idle" THEN Begin(r) ELSE Continue(r)
<1>1. /\ log \in Seq(Batch) /\ Replica(r) /\ r.queue # <<>> /\ Becomes(g, s, toGuest[g])
      /\ UNCHANGED <<hostVars, toHost>>
  BY GuestState DEF RunQueue
<1> HIDE DEF r
<1>2. Moves(r, s)
  BY <1>1, BeginMoves, ContinueMoves
<1> HIDE DEF s
<1> QED BY <1>1, <1>2, GuestState, BecomesStep DEF r

LEMMA RequestResyncStep ==
    ASSUME ReplicaInv, NEW g \in Guests, RequestResync(g)
    PROVE  ChannelTypes' /\ Follows
<1> DEFINE r == guest[g]
           s == [r EXCEPT !.run = "waiting"]
           q == [type |-> "resync", after |-> r.lastSeq, known |-> r.doc]
<1>1. /\ Replica(r) /\ r \in GuestRecord(Len(log)) /\ r.run = "connecting"
      /\ log \in Seq(Batch) /\ Len(log) \in Nat
  BY GuestState DEF RequestResync
<1>2. guest' = [guest EXCEPT ![g] = s]
  BY GuestState DEF RequestResync
<1>3. q \in Outbox(Len(log))
  BY <1>1, NewRequests DEF GuestRecord
<1> HIDE DEF r, q
<1>4. /\ s \in GuestRecord(Len(log)) /\ s.phase = r.phase /\ s.acked = r.acked
      /\ s.lastSeq = r.lastSeq /\ s.doc = r.doc /\ s.run = "waiting" /\ s.queue = r.queue
      /\ s.attempt = r.attempt
  BY <1>1 DEF GuestRecord
<1> HIDE DEF s
<1>5. Moves(r, s)
  BY <1>1, <1>4, SameContents DEF Replica
<1>6. toHost' \in [Guests -> Seq(Outbox(Len(log)))]
  BY <1>3, GuestState, OneMore DEF RequestResync, Request, q, r
<1> QED BY <1>2, <1>5, <1>6, GuestState, GuestStep DEF RequestResync, r

LEMMA ReceiveMoves ==
    ASSUME log \in Seq(Batch), NEW r, Replica(r), NEW m \in Inbox(Len(log))
    PROVE  Moves(r,
             CASE m.type = "accepted" -> [r EXCEPT !.link = "auth", !.token = TRUE]
               [] m.type = "presence" -> [r EXCEPT !.link = "ready"]
               [] m.type = "rejected" -> OnRejected(r, m.final)
               [] m.type = "tx"       -> OnTransaction(r, m.seq)
               [] m.type = "result"   -> OnResult(r, m.seq)
               [] m.type = "error"    -> [r EXCEPT !.sent = 0]
               [] m.type = "resync"   -> OnResync(r, m))
<1>1. r \in GuestRecord(Len(log)) /\ Len(log) \in Nat
  BY ReplicaFacts
<1>2. CASE m.type = "accepted"
  <2> DEFINE s == [r EXCEPT !.link = "auth", !.token = TRUE]
  <2>1. /\ s \in GuestRecord(Len(log)) /\ s.phase = r.phase /\ s.acked = r.acked
        /\ s.lastSeq = r.lastSeq /\ s.doc = r.doc /\ s.run = r.run /\ s.queue = r.queue
        /\ s.attempt = r.attempt
    BY <1>1 DEF GuestRecord
  <2> HIDE DEF s
  <2>2. Moves(r, s)
    BY <2>1, SameContents DEF Replica
  <2> QED BY <1>2, <2>2 DEF s
<1>3. CASE m.type = "presence"
  <2> DEFINE s == [r EXCEPT !.link = "ready"]
  <2>1. /\ s \in GuestRecord(Len(log)) /\ s.phase = r.phase /\ s.acked = r.acked
        /\ s.lastSeq = r.lastSeq /\ s.doc = r.doc /\ s.run = r.run /\ s.queue = r.queue
        /\ s.attempt = r.attempt
    BY <1>1 DEF GuestRecord
  <2> HIDE DEF s
  <2>2. Moves(r, s)
    BY <2>1, SameContents DEF Replica
  <2> QED BY <1>3, <2>2 DEF s
<1>4. CASE m.type = "error"
  <2> DEFINE s == [r EXCEPT !.sent = 0]
  <2>1. /\ s \in GuestRecord(Len(log)) /\ s.phase = r.phase /\ s.acked = r.acked
        /\ s.lastSeq = r.lastSeq /\ s.doc = r.doc /\ s.run = r.run /\ s.queue = r.queue
        /\ s.attempt = r.attempt
    BY <1>1 DEF GuestRecord
  <2> HIDE DEF s
  <2>2. Moves(r, s)
    BY <2>1, SameContents DEF Replica
  <2> QED BY <1>4, <2>2 DEF s
<1>5. CASE m.type = "rejected"
  BY <1>5, OnRejectedMoves
<1>6. CASE m.type = "tx"
  <2>1. m.seq \in 1..Len(log)
    BY <1>1, <1>6, MessageFacts
  <2>2. Moves(r, OnTransaction(r, m.seq))
    BY <2>1, OnTransactionMoves
  <2> QED BY <1>6, <2>2
<1>7. CASE m.type = "result"
  <2>1. m.seq \in 1..Len(log)
    BY <1>1, <1>7, MessageFacts
  <2>2. Moves(r, OnResult(r, m.seq))
    BY <2>1, OnResultMoves
  <2> QED BY <1>7, <2>2
<1>8. CASE m.type = "resync"
  <2>1. m.from \in 0..Len(log) /\ m.to \in 0..Len(log) /\ m.from <= m.to
    BY <1>1, <1>8, MessageFacts
  <2>2. Moves(r, OnResync(r, m))
    BY <2>1, OnResyncMoves
  <2> QED BY <1>8, <2>2
<1>9. m.type \in {"accepted", "presence", "rejected", "tx", "result", "error", "resync"}
  BY <1>1, MessageFacts
<1> QED BY <1>2, <1>3, <1>4, <1>5, <1>6, <1>7, <1>8, <1>9

LEMMA ReceiveStep ==
    ASSUME ReplicaInv, NEW g \in Guests, Receive(g)
    PROVE  ChannelTypes' /\ Follows
<1> DEFINE r == guest[g]
           m == Head(toGuest[g])
           s == CASE m.type = "accepted" -> [r EXCEPT !.link = "auth", !.token = TRUE]
                  [] m.type = "presence" -> [r EXCEPT !.link = "ready"]
                  [] m.type = "rejected" -> OnRejected(r, m.final)
                  [] m.type = "tx"       -> OnTransaction(r, m.seq)
                  [] m.type = "result"   -> OnResult(r, m.seq)
                  [] m.type = "error"    -> [r EXCEPT !.sent = 0]
                  [] m.type = "resync"   -> OnResync(r, m)
<1>1. /\ log \in Seq(Batch) /\ Replica(r) /\ toGuest[g] # <<>>
      /\ toGuest[g] \in Seq(Inbox(Len(log)))
      /\ Becomes(g, s, Tail(toGuest[g])) /\ UNCHANGED <<hostVars, toHost>>
  BY GuestState DEF Receive
<1>2. m \in Inbox(Len(log)) /\ Tail(toGuest[g]) \in Seq(Inbox(Len(log)))
  <2> DEFINE q == toGuest[g]
             S == Inbox(Len(log))
  <2>1. q \in Seq(S) /\ q # <<>>
    BY <1>1
  <2> HIDE DEF q, S
  <2>2. Head(q) \in S /\ Tail(q) \in Seq(S)
    BY <2>1, HeadTailProperties
  <2> QED BY <2>2 DEF q, S
<1> HIDE DEF r, m
<1>3. Moves(r, s)
  BY <1>1, <1>2, ReceiveMoves
<1> HIDE DEF s
<1> QED BY <1>1, <1>2, <1>3, BecomesStep DEF r

LEMMA DropStep ==
    ASSUME ReplicaInv, NEW g \in Guests, Drop(g) \/ GuestNotices(g)
    PROVE  ChannelTypes' /\ Follows
<1>1. PICK s \in AfterClose(guest[g]) : Becomes(g, s, <<>>) /\ UNCHANGED <<hostVars, toHost>>
  BY DEF Drop, GuestNotices
<1>2. Moves(guest[g], s)
  BY GuestState, AfterCloseMoves
<1> QED BY <1>1, <1>2, GuestState, BecomesStep

LEMMA TimeoutStep ==
    ASSUME ReplicaInv, NEW g \in Guests, Timeout(g)
    PROVE  ChannelTypes' /\ Follows
<1> DEFINE r == guest[g]
           s == [r EXCEPT !.sent = 0]
<1>1. log \in Seq(Batch) /\ Replica(r) /\ r \in GuestRecord(Len(log)) /\ UNCHANGED <<hostVars, toHost>>
  BY GuestState DEF Timeout
<1>2. CASE Becomes(g, Left(r), <<>>)
  BY <1>1, <1>2, LeftMoves, GuestState, BecomesStep
<1>3. CASE r.run = "waiting" /\ Becomes(g, OperationFails(r), <<>>)
  <2>1. r.queue # <<>>
    BY <1>1, <1>3 DEF Replica
  <2> QED BY <1>1, <1>3, <2>1, OperationFailsMoves, GuestState, BecomesStep
<1>4. CASE Becomes(g, s, toGuest[g])
  <2> HIDE DEF r
  <2>1. /\ s \in GuestRecord(Len(log)) /\ s.phase = r.phase /\ s.acked = r.acked
        /\ s.lastSeq = r.lastSeq /\ s.doc = r.doc /\ s.run = r.run /\ s.queue = r.queue
        /\ s.attempt = r.attempt
    BY <1>1 DEF GuestRecord
  <2> HIDE DEF s
  <2>2. Moves(r, s)
    BY <1>1, <2>1, SameContents DEF Replica
  <2> QED BY <1>1, <1>4, <2>2, GuestState, BecomesStep DEF r
<1> QED BY <1>2, <1>3, <1>4 DEF Timeout

LEMMA SubmitStep ==
    ASSUME ReplicaInv, NEW g \in Guests, Submit(g)
    PROVE  ChannelTypes' /\ Follows
<1> DEFINE r == guest[g]
           b == batches + 1
           s == [r EXCEPT !.sent = b]
           q == [type |-> "submit", batch |-> b]
<1>1. /\ log \in Seq(Batch) /\ Len(log) \in Nat /\ Replica(r) /\ r \in GuestRecord(Len(log))
      /\ batches \in Nat /\ batches < MaxBatches /\ ChannelTypes
      /\ UNCHANGED <<log, engine, committed, server, saved, conn, toGuest>> /\ batches' = b
  BY GuestState DEF Submit, ReplicaInv, ChannelTypes
<1>2. guest' = [guest EXCEPT ![g] = s]
  BY GuestState DEF Submit
<1>3. b \in 0..MaxBatches /\ b \in Batch /\ b \in Nat
  BY <1>1, LimitsAssumption DEF Batch
<1>4. q \in Outbox(Len(log))
  BY <1>1, <1>3, NewRequests
<1>5. toHost' = [toHost EXCEPT ![g] = Append(@, q)]
  BY DEF Submit, Request
<1> HIDE DEF r, b, q
<1>6. /\ s \in GuestRecord(Len(log)) /\ s.phase = r.phase /\ s.acked = r.acked
      /\ s.lastSeq = r.lastSeq /\ s.doc = r.doc /\ s.run = r.run /\ s.queue = r.queue
      /\ s.attempt = r.attempt
  BY <1>1, <1>3 DEF GuestRecord
<1> HIDE DEF s
<1>7. Moves(r, s)
  BY <1>1, <1>6, SameContents DEF Replica
<1>8. toHost' \in [Guests -> Seq(Outbox(Len(log)))]
  BY <1>4, <1>5, GuestState, OneMore
<1>9. ChannelTypes'
  BY <1>1, <1>3, <1>8 DEF ChannelTypes
<1> QED BY <1>1, <1>2, <1>7, <1>9 DEF Follows, GuestMoves, r

\* The record of a guest whose token the server takes.
LEMMA TokenMoves ==
    ASSUME ReplicaInv, NEW g \in Guests, guest' = [guest EXCEPT ![g].token = FALSE]
    PROVE  /\ guest' = [guest EXCEPT ![g] = [guest[g] EXCEPT !.token = FALSE]]
           /\ Moves(guest[g], [guest[g] EXCEPT !.token = FALSE])
<1> DEFINE r == guest[g]
           s == [r EXCEPT !.token = FALSE]
<1>1. Replica(r) /\ r \in GuestRecord(Len(log)) /\ log \in Seq(Batch)
  BY GuestState
<1>2. guest' = [guest EXCEPT ![g] = s]
  BY GuestState
<1> HIDE DEF r
<1>3. /\ s \in GuestRecord(Len(log)) /\ s.phase = r.phase /\ s.acked = r.acked
      /\ s.lastSeq = r.lastSeq /\ s.doc = r.doc /\ s.run = r.run /\ s.queue = r.queue
      /\ s.attempt = r.attempt
  BY <1>1 DEF GuestRecord
<1> HIDE DEF s
<1>4. Moves(r, s)
  BY <1>1, <1>3, SameContents DEF Replica
<1> QED BY <1>2, <1>4 DEF s, r

LEMMA SendTypes ==
    ASSUME ReplicaInv, NEW g \in Guests, NEW m \in Inbox(Len(log)), Send(g, m)
    PROVE  toGuest' \in [Guests -> Seq(Inbox(Len(log)))]
BY GuestState, OneMore DEF Send

LEMMA AuthenticateStep ==
    ASSUME ReplicaInv, NEW g \in Guests, Authenticate(g) \/ DecideJoin(g)
    PROVE  ChannelTypes' /\ Follows
<1>1. UNCHANGED <<hostVars, toHost>> /\ Len(log) \in Nat
  BY GuestState DEF Authenticate, DecideJoin
<1>2. /\ [type |-> "accepted"] \in Inbox(Len(log))
      /\ [type |-> "rejected", final |-> TRUE] \in Inbox(Len(log))
      /\ [type |-> "rejected", final |-> FALSE] \in Inbox(Len(log))
  BY <1>1, NewMessages
<1>3. /\ toGuest' \in [Guests -> Seq(Inbox(Len(log)))]
      /\ conn' \in [Guests -> {"none", "pending", "accepted", "ready", "stale"}]
      /\ toHost' \in [Guests -> Seq(Outbox(Len(log)))]
  BY <1>1, <1>2, GuestState, SendTypes DEF Authenticate, DecideJoin, Admit, Reject
<1>4. CASE UNCHANGED guest
  <2>1. guest' = [guest EXCEPT ![g] = guest[g]]
    BY <1>4, GuestState
  <2> QED BY <1>1, <1>3, <2>1, GuestState, GuestStep
<1>5. CASE guest' = [guest EXCEPT ![g].token = FALSE]
  BY <1>1, <1>3, <1>5, TokenMoves, GuestState, GuestStep
<1> QED BY <1>4, <1>5 DEF Authenticate, DecideJoin
-----------------------------------------------------------------------------
(* Every step of the host.                                                 *)

\* What the host's variables hold.
LEMMA HostState ==
    ASSUME ReplicaInv
    PROVE  /\ log \in Seq(Batch) /\ Len(log) \in Nat /\ ChannelTypes
           /\ batches \in 0..MaxBatches /\ server \in {"open", "draining", "closing", "closed"}
           /\ engine \in Seq(Submission) /\ committed \in Seq(Decision(Len(log)))
           /\ conn \in [Guests -> {"none", "pending", "accepted", "ready", "stale"}]
           /\ toHost \in [Guests -> Seq(Outbox(Len(log)))]
           /\ toGuest \in [Guests -> Seq(Inbox(Len(log)))]
BY DEF ReplicaInv, ChannelTypes

LEMMA BootstrapStep ==
    ASSUME ReplicaInv, NEW g \in Guests, Bootstrap(g)
    PROVE  ChannelTypes' /\ Follows
<1>1. [type |-> "presence"] \in Inbox(Len(log))
  BY HostState, NewMessages
<1>2. toGuest' \in [Guests -> Seq(Inbox(Len(log)))]
  BY <1>1, SendTypes DEF Bootstrap
<1>3. conn' \in [Guests -> {"none", "pending", "accepted", "ready", "stale"}]
  BY HostState DEF Bootstrap
<1> QED BY <1>2, <1>3, HostState DEF Bootstrap, hostVars, ChannelTypes, Follows

LEMMA HandleRequestStep ==
    ASSUME ReplicaInv, NEW g \in Guests, HandleRequest(g)
    PROVE  ChannelTypes' /\ Follows
<1> DEFINE req == Head(toHost[g])
           n == Len(log)
           e == [by |-> g, batch |-> req.batch]
<1>1. req \in Outbox(n) /\ Tail(toHost[g]) \in Seq(Outbox(n)) /\ n \in Nat
  <2> DEFINE q == toHost[g]
             S == Outbox(n)
  <2>1. q \in Seq(S) /\ q # <<>>
    BY HostState DEF HandleRequest
  <2> HIDE DEF q, S
  <2>2. Head(q) \in S /\ Tail(q) \in Seq(S)
    BY <2>1, HeadTailProperties
  <2> QED BY <2>2, HostState DEF q, S
<1>2. toHost' \in [Guests -> Seq(Outbox(n))]
  BY <1>1, HostState DEF HandleRequest
<1>3. /\ saved # -1 => server \in {"closing", "closed"}
      /\ UNCHANGED <<log, committed, server, saved, conn, guest, batches>>
  BY HostState DEF HandleRequest, ChannelTypes
<1>4. CASE req.type = "submit" /\ server = "open"
  <2>1. engine' = Append(engine, e) /\ toGuest' = toGuest
    BY <1>4 DEF HandleRequest
  <2>2. e \in Submission
    BY <1>1, <1>4 DEF Outbox, Submission, Submitters
  <2> HIDE DEF e, req
  <2>3. engine' \in Seq(Submission)
    BY <2>1, <2>2, HostState, AppendProperties
  <2>4. saved = -1
    BY <1>3, <1>4
  <2> QED BY <1>2, <1>3, <2>1, <2>3, <2>4, HostState DEF ChannelTypes, Follows
<1>5. CASE ~(req.type = "submit" /\ server = "open")
  <2>1. engine' = engine
    BY <1>5 DEF HandleRequest
  <2>2. toGuest' \in [Guests -> Seq(Inbox(n))]
    <3>1. CASE toGuest' = toGuest
      BY <3>1, HostState
    <3>2. CASE req.type = "resync" /\ Send(g, Answer(g, req))
      <4>1. req.after \in 0..n
        BY <1>1, <3>2 DEF Outbox
      <4> HIDE DEF req
      <4>2. Answer(g, req) \in Inbox(n)
        BY <1>1, <3>2, <4>1 DEF Answer, Inbox
      <4> QED BY <3>2, <4>2, SendTypes
    <3>3. CASE Send(g, [type |-> "error"])
      <4>1. [type |-> "error"] \in Inbox(n)
        BY <1>1, NewMessages
      <4> QED BY <3>3, <4>1, SendTypes
    <3> QED BY <1>5, <3>1, <3>2, <3>3 DEF HandleRequest
  <2> QED BY <1>2, <1>3, <2>1, <2>2, HostState DEF ChannelTypes, Follows
<1> QED BY <1>4, <1>5

LEMMA HostSubmitStep ==
    ASSUME ReplicaInv, HostSubmit
    PROVE  ChannelTypes' /\ Follows
<1> DEFINE b == batches + 1
           e == [by |-> HostUser, batch |-> b]
<1>1. /\ batches \in Nat /\ batches < MaxBatches /\ server = "open"
      /\ UNCHANGED <<log, committed, server, saved, conn, toHost, toGuest, guest>>
      /\ batches' = b /\ engine' = Append(engine, e)
  BY HostState DEF HostSubmit
<1>2. b \in 0..MaxBatches /\ b \in Batch
  BY <1>1, LimitsAssumption DEF Batch
<1> HIDE DEF b
<1>3. e \in Submission
  BY <1>2 DEF Submission, Submitters
<1> HIDE DEF e
<1>4. engine' \in Seq(Submission)
  BY <1>1, <1>3, HostState, AppendProperties
<1> QED BY <1>1, <1>2, <1>4, HostState DEF ChannelTypes, Follows

\* With a longer log the variables hold what they held.
LEMMA LongerLog ==
    ASSUME NEW n \in Nat
    PROVE  /\ Seq(Ops(n)) \subseteq Seq(Ops(n + 1))
           /\ Seq(Inbox(n)) \subseteq Seq(Inbox(n + 1))
           /\ Seq(Outbox(n)) \subseteq Seq(Outbox(n + 1))
           /\ Seq(Decision(n)) \subseteq Seq(Decision(n + 1))
           /\ Seq(1..n) \subseteq Seq(1..(n + 1))
           /\ GuestRecord(n) \subseteq GuestRecord(n + 1)
<1>1. 1..n \subseteq 1..(n + 1) /\ 0..n \subseteq 0..(n + 1)
  OBVIOUS
<1> DEFINE a == 1..n
           b == 1..(n + 1)
           c == 0..n
           d == 0..(n + 1)
<1>2. a \subseteq b /\ c \subseteq d
  BY <1>1
<1> HIDE DEF a, b, c, d
<1>3. Ops(n) \subseteq Ops(n + 1)
  <2>1. ASSUME NEW o \in Ops(n)
        PROVE  o \in Ops(n + 1)
    BY <1>2 DEF Ops, a, b
  <2> QED BY <2>1
<1>4. Inbox(n) \subseteq Inbox(n + 1)
  <2>1. ASSUME NEW m \in Inbox(n)
        PROVE  m \in Inbox(n + 1)
    BY <1>2 DEF Inbox, a, b, c, d
  <2> QED BY <2>1
<1>5. Outbox(n) \subseteq Outbox(n + 1)
  BY <1>2 DEF Outbox, c, d
<1>6. Decision(n) \subseteq Decision(n + 1)
  BY <1>2 DEF Decision, c, d
<1>7. Seq(a) \subseteq Seq(b)
  BY <1>2, SeqMonotonic
<1>8. Seq(Ops(n)) \subseteq Seq(Ops(n + 1))
  BY <1>3, SeqMonotonic
<1>9. GuestRecord(n) \subseteq GuestRecord(n + 1)
  <2>1. ASSUME NEW r \in GuestRecord(n)
        PROVE  r \in GuestRecord(n + 1)
    BY <1>2, <1>7, <1>8 DEF GuestRecord, a, b, c, d
  <2> QED BY <2>1
<1>10. /\ Seq(Inbox(n)) \subseteq Seq(Inbox(n + 1))
       /\ Seq(Outbox(n)) \subseteq Seq(Outbox(n + 1))
       /\ Seq(Decision(n)) \subseteq Seq(Decision(n + 1))
  BY <1>4, <1>5, <1>6, SeqMonotonic
<1> QED BY <1>7, <1>8, <1>9, <1>10 DEF a, b

LEMMA DecideStep ==
    ASSUME ReplicaInv, Decide
    PROVE  ChannelTypes' /\ Follows
<1> DEFINE s == Head(engine)
           n == Len(log)
           x == [by |-> s.by, seq |-> n + 1]
           y == [by |-> s.by, seq |-> 0]
<1>1. engine \in Seq(Submission) /\ engine # <<>> /\ log \in Seq(Batch) /\ n \in Nat
      /\ UNCHANGED <<server, saved, conn, toHost, toGuest, guest, batches>>
      /\ engine' = Tail(engine)
  BY HostState DEF Decide
<1>2. s \in Submission /\ engine' \in Seq(Submission)
  BY <1>1, HeadTailProperties
<1>3. saved = -1
  BY <1>1, HostState DEF ChannelTypes
<1>4. s.by \in Submitters /\ s.batch \in Batch
  BY <1>2 DEF Submission
<1> HIDE DEF s
<1>5. CASE UNCHANGED log /\ committed' = Append(committed, y)
  <2>1. y \in Decision(n)
    BY <1>1, <1>4 DEF Decision
  <2> HIDE DEF y
  <2>2. committed' \in Seq(Decision(n))
    BY <1>5, <2>1, HostState, AppendProperties
  <2> QED BY <1>1, <1>2, <1>3, <1>5, <2>2, HostState DEF ChannelTypes, Follows
<1>6. CASE log' = Append(log, s.batch) /\ committed' = Append(committed, x)
  <2>1. x \in Decision(n + 1) /\ committed \in Seq(Decision(n + 1))
    <3>1. n + 1 \in 0..(n + 1)
      BY <1>1
    <3>2. committed \in Seq(Decision(n)) /\ Seq(Decision(n)) \subseteq Seq(Decision(n + 1))
      BY <1>1, HostState, LongerLog
    <3> QED BY <1>4, <3>1, <3>2 DEF Decision
  <2> HIDE DEF x
  <2>2. committed' \in Seq(Decision(n + 1))
    BY <1>6, <2>1, AppendProperties
  <2>3. log' \in Seq(Batch) /\ Len(log') = n + 1
    BY <1>1, <1>4, <1>6, AppendProperties
  <2>4. /\ toHost' \in [Guests -> Seq(Outbox(n + 1))]
        /\ toGuest' \in [Guests -> Seq(Inbox(n + 1))]
    <3>1. /\ toHost' = toHost /\ toGuest' = toGuest
          /\ toHost \in [Guests -> Seq(Outbox(n))] /\ toGuest \in [Guests -> Seq(Inbox(n))]
          /\ Seq(Outbox(n)) \subseteq Seq(Outbox(n + 1))
          /\ Seq(Inbox(n)) \subseteq Seq(Inbox(n + 1))
      BY <1>1, HostState, LongerLog
    <3> QED BY <3>1
  <2>5. LogGrows
    BY <1>1, <1>4, <1>6 DEF LogGrows
  <2> QED BY <1>1, <1>2, <1>3, <2>2, <2>3, <2>4, <2>5, HostState DEF ChannelTypes, Follows
<1> QED BY <1>5, <1>6 DEF Decide, s

LEMMA PublishStep ==
    ASSUME ReplicaInv, Publish
    PROVE  ChannelTypes' /\ Follows
<1> DEFINE d == Head(committed)
           n == Len(log)
<1>1. /\ committed # <<>> /\ committed' = Tail(committed) /\ n \in Nat
      /\ UNCHANGED <<log, engine, server, saved, conn, toHost, guest, batches>>
      /\ toGuest' = [g \in Guests |-> toGuest[g] \o Messages(g, d)]
  BY HostState DEF Publish
<1>2. d \in Decision(n) /\ committed' \in Seq(Decision(n))
  <2> DEFINE S == Decision(n)
  <2>1. committed \in Seq(S) /\ committed # <<>>
    BY <1>1, HostState
  <2> HIDE DEF S
  <2>2. Head(committed) \in S /\ Tail(committed) \in Seq(S)
    BY <2>1, HeadTailProperties
  <2> QED BY <1>1, <2>2 DEF S
<1> HIDE DEF d
<1>3. d.seq \in 0..n
  BY <1>2 DEF Decision
<1>4. ASSUME NEW g \in Guests
      PROVE  toGuest[g] \o Messages(g, d) \in Seq(Inbox(n))
  <2> DEFINE S == Inbox(n)
             a == IF d.seq = 0 THEN <<>> ELSE <<[type |-> "tx", seq |-> d.seq]>>
             b == IF d.by # g THEN <<>>
                  ELSE <<IF d.seq = 0 THEN [type |-> "error"]
                         ELSE [type |-> "result", seq |-> d.seq]>>
  <2>1. /\ d.seq # 0 => [type |-> "tx", seq |-> d.seq] \in S
        /\ d.seq # 0 => [type |-> "result", seq |-> d.seq] \in S
        /\ [type |-> "error"] \in S
    BY <1>1, <1>3, NewMessages
  <2>2. toGuest[g] \in Seq(S)
    BY HostState
  <2>3. Messages(g, d) = IF conn[g] # "ready" THEN <<>> ELSE a \o b
    BY DEF Messages
  <2> HIDE DEF S
  <2>4. a \in Seq(S) /\ b \in Seq(S)
    BY <2>1
  <2> HIDE DEF a, b
  <2>5. a \o b \in Seq(S) /\ <<>> \in Seq(S)
    BY <2>4, ConcatProperties
  <2>6. Messages(g, d) \in Seq(S)
    BY <2>3, <2>5
  <2>7. toGuest[g] \o Messages(g, d) \in Seq(S)
    BY <2>2, <2>6, ConcatProperties
  <2> QED BY <2>7 DEF S
<1>5. toGuest' \in [Guests -> Seq(Inbox(n))]
  BY <1>1, <1>4
<1> QED BY <1>1, <1>2, <1>5, HostState DEF ChannelTypes, Follows

LEMMA LeavingStep ==
    ASSUME ReplicaInv, BeginLeave \/ Save \/ HostFails \/ Close
    PROVE  ChannelTypes' /\ Follows
<1>1. <<>> \in Seq(Outbox(Len(log)))
  OBVIOUS
<1>2. CASE BeginLeave \/ HostFails
  BY <1>2, HostState DEF BeginLeave, HostFails, ChannelTypes, Follows
<1>3. CASE Save
  BY <1>3, HostState DEF Save, ChannelTypes, Follows
<1>4. CASE Close
  BY <1>1, <1>4, HostState DEF Close, ChannelTypes, Follows
<1> QED BY <1>2, <1>3, <1>4

LEMMA OrphanedTypes ==
    ASSUME NEW n \in Nat, NEW g \in Guests
    PROVE  /\ \A q \in Seq(Submission) :
                 Orphaned(q, g) \in Seq(Submission) /\ (q = <<>> => Orphaned(q, g) = <<>>)
           /\ \A q \in Seq(Decision(n)) : Orphaned(q, g) \in Seq(Decision(n))
<1>1. ASSUME NEW q \in Seq(Submission)
      PROVE  Orphaned(q, g) \in Seq(Submission) /\ (q = <<>> => Orphaned(q, g) = <<>>)
  <2>1. /\ DOMAIN q = 1..Len(q) /\ Len(q) \in Nat
        /\ \A i \in 1..Len(q) : q[i] \in Submission
    BY ElementOfSeq
  <2>2. \A i \in 1..Len(q) : [q[i] EXCEPT !.by = Nobody] \in Submission
    BY <2>1 DEF Submission, Submitters
  <2>3. Orphaned(q, g) \in [1..Len(q) -> Submission]
    BY <2>1, <2>2 DEF Orphaned
  <2>4. Orphaned(q, g) \in Seq(Submission)
    BY <2>1, <2>3, SeqDef
  <2>5. q = <<>> => Orphaned(q, g) = <<>>
    <3>1. Len(Orphaned(q, g)) = Len(q)
      BY <2>1, <2>3, <2>4, LenProperties
    <3> QED BY <2>4, <3>1, EmptySeq
  <2> QED BY <2>4, <2>5
<1>2. ASSUME NEW q \in Seq(Decision(n))
      PROVE  Orphaned(q, g) \in Seq(Decision(n))
  <2> DEFINE S == Decision(n)
  <2>1. /\ DOMAIN q = 1..Len(q) /\ Len(q) \in Nat
        /\ \A i \in 1..Len(q) : q[i] \in S
    BY ElementOfSeq
  <2>2. \A i \in 1..Len(q) : [q[i] EXCEPT !.by = Nobody] \in S
    BY <2>1 DEF Decision, Submitters
  <2> HIDE DEF S
  <2>3. Orphaned(q, g) \in [1..Len(q) -> S]
    BY <2>1, <2>2 DEF Orphaned
  <2>4. Orphaned(q, g) \in Seq(S)
    BY <2>1, <2>3, SeqDef
  <2> QED BY <2>4 DEF S
<1> QED BY <1>1, <1>2

LEMMA ForgetStep ==
    ASSUME ReplicaInv, NEW g \in Guests, ServerNotices(g) \/ ServerRemoves(g)
    PROVE  ChannelTypes' /\ Follows
<1>1. Forget(g)
  BY DEF ServerNotices, ServerRemoves
<1>2. <<>> \in Seq(Outbox(Len(log)))
  OBVIOUS
<1>3. /\ conn' \in [Guests -> {"none", "pending", "accepted", "ready", "stale"}]
      /\ toHost' \in [Guests -> Seq(Outbox(Len(log)))]
  BY <1>1, <1>2, HostState DEF Forget
<1>4. /\ engine' \in Seq(Submission) /\ committed' \in Seq(Decision(Len(log)))
      /\ engine = <<>> => engine' = <<>>
  BY <1>1, HostState, OrphanedTypes DEF Forget
<1> QED BY <1>1, <1>3, <1>4, HostState DEF Forget, ChannelTypes, Follows
-----------------------------------------------------------------------------
(* The invariant.                                                          *)

LEMMA FollowsReplica ==
    ASSUME ReplicaInv, Follows
    PROVE  /\ log' \in Seq(Batch) /\ guest' \in [Guests -> GuestRecord(Len(log'))]
           /\ \A g \in Guests : Replica(guest[g])'
<1>1. /\ log \in Seq(Batch) /\ Len(log) \in Nat
      /\ guest \in [Guests -> GuestRecord(Len(log))]
      /\ \A g \in Guests : Replica(guest[g])
  BY HostState DEF ReplicaInv
<1>2. CASE UNCHANGED <<log, guest>>
  BY <1>1, <1>2 DEF Replica, Revision
<1>3. CASE LogGrows
  <2>1. PICK b \in Batch : log' = Append(log, b)
    BY <1>3 DEF LogGrows
  <2>2. guest' = guest
    BY <1>3 DEF LogGrows
  <2>3. /\ log' \in Seq(Batch) /\ Len(log') = Len(log) + 1
        /\ \A i \in 1..Len(log) : log'[i] = log[i]
    BY <1>1, <2>1, AppendProperties
  <2>4. guest' \in [Guests -> GuestRecord(Len(log'))]
    <3>1. GuestRecord(Len(log)) \subseteq GuestRecord(Len(log'))
      BY <1>1, <2>3, LongerLog
    <3> QED BY <1>1, <2>2, <3>1
  <2>5. ASSUME NEW g \in Guests
        PROVE  Replica(guest[g])'
    <3> DEFINE r == guest[g]
    <3>1. /\ Replica(r) /\ r.lastSeq \in Nat /\ r.lastSeq <= Len(log)
          /\ r.doc = SubSeq(log, 1, r.lastSeq)
      BY <1>1, ReplicaFacts
    <3>2. r.lastSeq \in 0..Len(log) /\ \A i \in 1..r.lastSeq : i \in 1..Len(log)
      BY <1>1, <3>1
    <3>3. r.doc = SubSeq(log', 1, r.lastSeq)
      BY <1>1, <2>1, <3>1, <3>2, SameBeginning
    <3>4. \A b2 \in r.acked : \E i \in 1..r.lastSeq : log'[i] = b2
      BY <2>3, <3>1, <3>2 DEF Replica
    <3>5. guest'[g] = r /\ r \in GuestRecord(Len(log'))
      BY <2>2, <2>4
    <3> HIDE DEF r
    <3> QED BY <3>1, <3>3, <3>4, <3>5 DEF Replica, Revision
  <2> QED BY <2>3, <2>4, <2>5
<1>4. ASSUME NEW g \in Guests, GuestMoves(g)
      PROVE  /\ log' \in Seq(Batch) /\ guest' \in [Guests -> GuestRecord(Len(log'))]
             /\ \A h \in Guests : Replica(guest[h])'
  <2>1. PICK s : Moves(guest[g], s) /\ guest' = [guest EXCEPT ![g] = s]
    BY <1>4 DEF GuestMoves
  <2>2. log' = log /\ Replica(s) /\ s \in GuestRecord(Len(log))
    BY <1>1, <1>4, <2>1, ReplicaFacts DEF GuestMoves, Moves
  <2>3. guest' \in [Guests -> GuestRecord(Len(log))]
    BY <1>1, <2>1, <2>2
  <2>4. \A h \in Guests : Replica(guest'[h])
    BY <1>1, <2>1, <2>2
  <2> QED BY <1>1, <2>2, <2>3, <2>4 DEF Replica, Revision
<1> QED BY <1>2, <1>3, <1>4 DEF Follows

LEMMA EveryStep ==
    ASSUME ReplicaInv, [Next]_vars
    PROVE  ChannelTypes' /\ Follows
<1>1. CASE HostProgress \/ HostSubmit \/ BeginLeave \/ HostFails
  BY <1>1, DecideStep, PublishStep, LeavingStep, HostSubmitStep DEF HostProgress
<1>2. ASSUME NEW g \in Guests, GuestProgress(g)
      PROVE  ChannelTypes' /\ Follows
  BY <1>2, RequestInitialStep, HandoffStep, FenceStep, AnnounceStep, JoinedStep, ReconnectStep,
     QueueReconnectResyncStep, RunQueueStep, RequestResyncStep, ReceiveStep DEF GuestProgress
<1>3. ASSUME NEW g \in Guests, \/ GuestNotices(g) \/ Heartbeat(g) \/ Authenticate(g)
                               \/ DecideJoin(g) \/ Bootstrap(g)
      PROVE  ChannelTypes' /\ Follows
  BY <1>3, DropStep, HeartbeatStep, AuthenticateStep, BootstrapStep
<1>4. ASSUME NEW g \in Guests, \/ HandleRequest(g) \/ ServerNotices(g) \/ Join(g) \/ Leave(g)
                               \/ Submit(g) \/ ServerRemoves(g) \/ Drop(g) \/ Timeout(g)
      PROVE  ChannelTypes' /\ Follows
  BY <1>4, HandleRequestStep, ForgetStep, JoinStep, LeaveStep, SubmitStep, DropStep, TimeoutStep
<1>5. CASE UNCHANGED vars
  BY <1>5, HostState DEF vars, ChannelTypes, Follows
<1> QED BY <1>1, <1>2, <1>3, <1>4, <1>5 DEF Next

LEMMA ReplicaInvStep ==
    ASSUME ReplicaInv, [Next]_vars
    PROVE  ReplicaInv' /\ Follows
BY EveryStep, FollowsReplica DEF ReplicaInv

LEMMA ReplicaInvInit == Init => ReplicaInv
<1> SUFFICES ASSUME Init
             PROVE  ReplicaInv
  OBVIOUS
<1>1. log = <<>> /\ log \in Seq(Batch) /\ Len(log) = 0 /\ saved = -1
  BY DEF Init
<1>2. \A S : <<>> \in Seq(S)
  OBVIOUS
<1>3. NewGuest \in GuestRecord(0)
  BY Attempts, <1>2 DEF NewGuest, GuestRecord, Phases
<1>4. /\ guest = [g \in Guests |-> NewGuest]
      /\ guest \in [Guests -> GuestRecord(Len(log))]
  BY <1>1, <1>3 DEF Init
<1>5. ChannelTypes
  BY Attempts, <1>1, <1>2 DEF Init, ChannelTypes
<1>6. ASSUME NEW g \in Guests
      PROVE  Replica(guest[g])
  <2>1. guest[g] = NewGuest /\ guest[g] \in GuestRecord(Len(log))
    BY <1>4
  <2>2. /\ NewGuest.phase = "out" /\ NewGuest.queue = <<>> /\ NewGuest.run = "idle"
        /\ NewGuest.attempt = 0 /\ NewGuest.lastSeq = 0 /\ NewGuest.doc = <<>>
        /\ NewGuest.acked = {}
    BY DEF NewGuest
  <2>3. SubSeq(log, 1, 0) = <<>>
    <3>1. 0 \in 0..Len(log)
      BY <1>1
    <3>2. SubSeq(log, 1, 0) \in Seq(Batch) /\ Len(SubSeq(log, 1, 0)) = 0
      BY <1>1, <3>1, Beginnings
    <3> QED BY <3>2, EmptySeq
  <2> QED BY <2>1, <2>2, <2>3 DEF Replica, Revision, Bootstrapping
<1> QED BY <1>1, <1>4, <1>5, <1>6 DEF ReplicaInv

LEMMA ReplicaInvariant == Spec => []ReplicaInv
<1>1. Init => ReplicaInv
  BY ReplicaInvInit
<1>2. ReplicaInv /\ [Next]_vars => ReplicaInv'
  BY ReplicaInvStep
<1> QED BY <1>1, <1>2, PTL DEF Spec
-----------------------------------------------------------------------------
(* The theorems.                                                           *)

\* When execute() has returned to a guest its replica shows the edit: the
\* acknowledgement is given by the apply queue, behind the transaction.
THEOREM AcknowledgedIsShown == Spec => []ReadYourWrites
<1>1. ReplicaInv => ReadYourWrites
  <2> SUFFICES ASSUME ReplicaInv, NEW g \in Guests, NEW b \in guest[g].acked
               PROVE  \E i \in DOMAIN guest[g].doc : guest[g].doc[i] = b
    BY DEF ReadYourWrites
  <2> DEFINE r == guest[g]
  <2>1. /\ Replica(r) /\ r.doc \in Seq(Batch) /\ Len(r.doc) = r.lastSeq
        /\ \A i \in 1..r.lastSeq : r.doc[i] = log[i]
    BY GuestState, ReplicaFacts
  <2>2. PICK i \in 1..r.lastSeq : log[i] = b
    BY <2>1 DEF Replica
  <2>3. i \in DOMAIN r.doc /\ r.doc[i] = b
    BY <2>1, <2>2
  <2> QED BY <2>3
<1> QED BY <1>1, ReplicaInvariant, PTL

\* After a host has left and saved, no guest holds an edit that the shared
\* file lacks: leave() closes admission and drains before it saves.
THEOREM FileHoldsEverything == Spec => []NothingBeyondTheFile
<1>1. ReplicaInv => NothingBeyondTheFile
  <2> SUFFICES ASSUME ReplicaInv, saved # -1, NEW g \in Guests
               PROVE  Len(guest[g].doc) <= saved
    BY DEF NothingBeyondTheFile
  <2>1. saved = Len(log)
    BY DEF ReplicaInv, ChannelTypes
  <2>2. Len(guest[g].doc) <= Len(log)
    BY GuestState, ReplicaFacts
  <2> QED BY <2>1, <2>2
<1> QED BY <1>1, ReplicaInvariant, PTL

\* A step extends the log, or moves one replica forward along it, or neither.
LEMMA DeckStep ==
    ASSUME ReplicaInv, ReplicaInv', Follows
    PROVE  [Deck!Next]_(Deck!vars)
<1> DEFINE copy == [g \in Guests |-> guest[g].doc]
<1>1. CASE UNCHANGED <<log, guest>>
  BY <1>1 DEF Deck!vars
<1>2. CASE LogGrows
  BY <1>2 DEF LogGrows, Deck!Next, Deck!Commit, Batch
<1>3. ASSUME NEW g \in Guests, GuestMoves(g)
      PROVE  [Deck!Next]_(Deck!vars)
  <2>1. PICK s : Moves(guest[g], s) /\ guest' = [guest EXCEPT ![g] = s]
    BY <1>3 DEF GuestMoves
  <2> DEFINE r == guest[g]
  <2>2. /\ log' = log /\ Replica(s) /\ Replica(r) /\ s.lastSeq >= r.lastSeq
        /\ log \in Seq(Batch) /\ guest \in [Guests -> GuestRecord(Len(log))]
    BY <1>3, <2>1, GuestState DEF GuestMoves, Moves
  <2>3. /\ r.lastSeq \in Nat /\ r.doc = SubSeq(log, 1, r.lastSeq) /\ Len(r.doc) = r.lastSeq
        /\ s.lastSeq \in Nat /\ s.doc = SubSeq(log, 1, s.lastSeq) /\ s.lastSeq <= Len(log)
    BY <2>2, ReplicaFacts
  <2>4. copy' = [copy EXCEPT ![g] = s.doc]
    BY <2>1, <2>2
  <2>5. copy[g] = r.doc
    OBVIOUS
  <2>6. CASE s.lastSeq = r.lastSeq
    <3>1. copy' = copy
      BY <2>3, <2>4, <2>5, <2>6
    <3> QED BY <2>2, <3>1 DEF Deck!vars
  <2>7. CASE s.lastSeq > r.lastSeq
    <3>1. s.lastSeq \in (Len(copy[g]) + 1)..Len(log)
      BY <2>2, <2>3, <2>5, <2>7, GuestState
    <3>2. copy' = [copy EXCEPT ![g] = SubSeq(log, 1, s.lastSeq)]
      BY <2>3, <2>4
    <3> HIDE DEF copy
    <3>3. \E n \in (Len(copy[g]) + 1)..Len(log) :
             copy' = [copy EXCEPT ![g] = SubSeq(log, 1, n)]
      BY <3>1, <3>2
    <3>4. Deck!Advance(g)
      BY <2>2, <3>3 DEF Deck!Advance, copy
    <3> QED BY <3>4 DEF Deck!Next
  <2> QED BY <2>2, <2>3, <2>6, <2>7
<1> QED BY <1>1, <1>2, <1>3 DEF Follows

\* Live sessions implement ReplicatedDeck: every replica is at all times a
\* beginning of the host's log and only moves forward along it, whatever is
\* buffered, fetched, broadcast twice or lost.
THEOREM SessionsReplicate == Spec => ReplicasFollow
<1>1. Init => Deck!Init
  BY DEF Init, Deck!Init, NewGuest
<1>2. ReplicaInv /\ ReplicaInv' /\ [Next]_vars => [Deck!Next]_(Deck!vars)
  BY ReplicaInvStep, DeckStep
<1> QED BY <1>1, <1>2, ReplicaInvariant, PTL DEF Spec, ReplicasFollow, Deck!Spec
-----------------------------------------------------------------------------
(* No silent gap: what the two ends of a connection know of each other, and *)
(* where a transaction is that a replica misses.                            *)

Following == Bootstrapping \cup Attached

\* A resynchronisation is still to be asked for, or its answer to come.
QueuedFetch(r) ==
    \E i \in DOMAIN r.queue :
       r.queue[i].op \in {"fence", "recon"} /\ (i # 1 \/ r.run = "idle")
Fetching(r) ==
    \/ r.phase \in {"connecting", "syncing"} \/ r.run \in {"connecting", "waiting"}
    \/ r.attempt > 0 /\ ~ReconnectQueued(r)
    \/ QueuedFetch(r)

\* The connection c of a guest r, the messages to it and its requests.
Linked(c, r, in, out) ==
    /\ c = "pending" => r.link = "opening" /\ in = <<>>
    /\ c = "accepted" =>
          r.link \in {"opening", "auth"} /\ \A i \in DOMAIN in : in[i].type = "accepted"
    /\ c = "ready" => r.link # "down"
    /\ r.link = "down" => in = <<>>
    /\ r.phase = "out" => r.link = "down"
    /\ \A i \in DOMAIN in : in[i].type = "accepted" => i = 1 /\ r.link = "opening"
    /\ r.phase \in Following =>
          /\ r.link \in {"opening", "auth"} => Fetching(r)
          /\ r.run = "waiting" \/ r.phase = "syncing" => r.link = "ready"
    /\ \A i \in DOMAIN in : in[i].type = "resync" => in[i].from <= r.lastSeq
    /\ \A i \in DOMAIN out : out[i].type = "resync" => out[i].after <= r.lastSeq

\* The transactions that are decided, on their way, or at the guest.
Seqs(q) == {q[i].seq : i \in DOMAIN q}
Txs(q) == {q[i].seq : i \in {j \in DOMAIN q : q[j].type = "tx"}}
Held(r) ==
    Seqs(r.queue) \cup (IF r.phase \in Bootstrapping THEN ToSet(r.buffer) ELSE {})
    \cup (IF r.run = "applying" THEN ToSet(r.feed) ELSE {})
Expected(r, in, coming) == Seqs(coming) \cup Txs(in) \cup Held(r)
Missing(r, n) == (r.lastSeq + 1)..n

\* What a connected guest misses is expected, or part of an answer.
Covered(c, r, in, coming, n) ==
    c = "ready" /\ r.phase \in Following =>
       /\ \A i \in DOMAIN in : in[i].type = "resync" =>
             \A seq \in Missing(r, n) : seq <= in[i].to \/ seq \in Expected(r, in, coming)
       /\ ~Fetching(r) => Missing(r, n) \subseteq Expected(r, in, coming)

GapInv ==
    \A g \in Guests :
       /\ Linked(conn[g], guest[g], toGuest[g], toHost[g])
       /\ Covered(conn[g], guest[g], toGuest[g], committed, Len(log))

\* A guest that goes from r to s while its messages go from in to rest forgets
\* no transaction it misses, and no resynchronisation.
Keeps(r, s, in, rest) ==
    /\ s.phase \in Following => r.phase \in Following /\ (Fetching(r) => Fetching(s))
    /\ \A seq \in Txs(in) \cup Held(r) : seq > s.lastSeq => seq \in Txs(rest) \cup Held(s)

\* The requests of a guest r are the former ones, or ask for what follows its
\* replica.
Asks(r, out, more) ==
    \A i \in DOMAIN more : more[i].type = "resync" =>
       more[i].after = r.lastSeq \/ \E j \in DOMAIN out : out[j] = more[i]
-----------------------------------------------------------------------------
(* Sequences and the sets of their elements.                               *)

LEMMA AppendElements ==
    ASSUME NEW S, NEW q \in Seq(S), NEW e \in S
    PROVE  /\ Append(q, e) \in Seq(S) /\ Append(q, e) # <<>>
           /\ DOMAIN q = 1..Len(q) /\ DOMAIN Append(q, e) = 1..(Len(q) + 1) /\ Len(q) \in Nat
           /\ \A i \in DOMAIN q : i \in DOMAIN Append(q, e) /\ Append(q, e)[i] = q[i]
           /\ Len(q) + 1 \in DOMAIN Append(q, e) /\ Append(q, e)[Len(q) + 1] = e
           /\ \A i \in DOMAIN Append(q, e) : i \in DOMAIN q \/ i = Len(q) + 1
<1> DEFINE a == Append(q, e)
<1>1. /\ a \in Seq(S) /\ Len(a) = Len(q) + 1 /\ Len(q) \in Nat /\ DOMAIN q = 1..Len(q)
      /\ (\A i \in 1..Len(q) : a[i] = q[i]) /\ a[Len(q) + 1] = e /\ a # <<>>
  BY AppendProperties, LenProperties
<1> HIDE DEF a
<1>2. DOMAIN a = 1..(Len(q) + 1)
  BY <1>1, LenProperties
<1>3. /\ \A i \in 1..Len(q) : i \in 1..(Len(q) + 1)
      /\ Len(q) + 1 \in 1..(Len(q) + 1)
      /\ \A i \in 1..(Len(q) + 1) : i \in 1..Len(q) \/ i = Len(q) + 1
  BY <1>1
<1> QED BY <1>1, <1>2, <1>3 DEF a

LEMMA TailElements ==
    ASSUME NEW S, NEW q \in Seq(S), q # <<>>
    PROVE  /\ Tail(q) \in Seq(S) /\ Head(q) \in S /\ 1 \in DOMAIN q /\ Head(q) = q[1]
           /\ \A i \in DOMAIN Tail(q) : i + 1 \in DOMAIN q /\ i + 1 # 1 /\ Tail(q)[i] = q[i + 1]
           /\ \A i \in DOMAIN q :
                 i # 1 => i - 1 \in DOMAIN Tail(q) /\ Tail(q)[i - 1] = q[i]
<1> DEFINE t == Tail(q)
<1>1. /\ t \in Seq(S) /\ Len(t) = Len(q) - 1 /\ Len(q) \in Nat \ {0} /\ DOMAIN q = 1..Len(q)
      /\ Head(q) = q[1] /\ Head(q) \in S /\ \A i \in 1..Len(t) : t[i] = q[i + 1]
  BY HeadTailProperties, LenProperties, EmptySeq
<1> HIDE DEF t
<1>2. DOMAIN t = 1..Len(t)
  BY <1>1, LenProperties
<1>3. \A i \in DOMAIN t : i + 1 \in DOMAIN q /\ i + 1 # 1
  BY <1>1, <1>2
<1>4. \A i \in DOMAIN q : i # 1 => i - 1 \in 1..Len(t) /\ t[i - 1] = q[(i - 1) + 1] /\ (i - 1) + 1 = i
  BY <1>1
<1> QED BY <1>1, <1>2, <1>3, <1>4 DEF t

LEMMA AppendSeqs ==
    ASSUME NEW S, NEW q \in Seq(S), NEW e \in S
    PROVE  /\ Seqs(Append(q, e)) = Seqs(q) \cup {e.seq}
           /\ Txs(Append(q, e)) = Txs(q) \cup (IF e.type = "tx" THEN {e.seq} ELSE {})
           /\ ToSet(Append(q, e)) = ToSet(q) \cup {e}
<1> DEFINE a == Append(q, e)
           k == Len(q) + 1
<1>1. /\ \A i \in DOMAIN q : i \in DOMAIN a /\ a[i] = q[i]
      /\ k \in DOMAIN a /\ a[k] = e
      /\ \A i \in DOMAIN a : i \in DOMAIN q \/ i = k
  BY AppendElements
<1> HIDE DEF a, k
<1>2. Seqs(a) = Seqs(q) \cup {e.seq}
  BY <1>1 DEF Seqs
<1>3. Txs(a) = Txs(q) \cup (IF e.type = "tx" THEN {e.seq} ELSE {})
  BY <1>1 DEF Txs
<1>4. ToSet(a) = ToSet(q) \cup {e}
  BY <1>1 DEF ToSet
<1> QED BY <1>2, <1>3, <1>4 DEF a

LEMMA TailSeqs ==
    ASSUME NEW S, NEW q \in Seq(S), q # <<>>
    PROVE  /\ Seqs(q) = {Head(q).seq} \cup Seqs(Tail(q))
           /\ Txs(q) = (IF Head(q).type = "tx" THEN {Head(q).seq} ELSE {}) \cup Txs(Tail(q))
           /\ ToSet(q) = {Head(q)} \cup ToSet(Tail(q))
<1> DEFINE t == Tail(q)
           h == Head(q)
<1>1. /\ 1 \in DOMAIN q /\ h = q[1]
      /\ \A i \in DOMAIN t : i + 1 \in DOMAIN q /\ t[i] = q[i + 1]
      /\ \A i \in DOMAIN q : i # 1 => i - 1 \in DOMAIN t /\ t[i - 1] = q[i]
  BY TailElements
<1> HIDE DEF t, h
<1>2. Seqs(q) = {h.seq} \cup Seqs(t)
  BY <1>1 DEF Seqs
<1>3. Txs(q) = (IF h.type = "tx" THEN {h.seq} ELSE {}) \cup Txs(t)
  <2>1. ASSUME NEW x \in Txs(q)
        PROVE  x \in (IF h.type = "tx" THEN {h.seq} ELSE {}) \cup Txs(t)
    BY <1>1, <2>1 DEF Txs
  <2>2. ASSUME NEW x \in (IF h.type = "tx" THEN {h.seq} ELSE {}) \cup Txs(t)
        PROVE  x \in Txs(q)
    BY <1>1, <2>2 DEF Txs
  <2> QED BY <2>1, <2>2
<1>4. ToSet(q) = {h} \cup ToSet(t)
  BY <1>1 DEF ToSet
<1> QED BY <1>2, <1>3, <1>4 DEF t, h

\* The operations of a queue that grows, or that loses its head.
LEMMA AppendOps ==
    ASSUME NEW n \in Nat, NEW r, r.queue \in Seq(Ops(n)), r.run # "idle" => r.queue # <<>>,
           NEW o \in Ops(n), NEW s, s.queue = Append(r.queue, o), s.run = r.run
    PROVE  /\ ReconnectQueued(s) <=> ReconnectQueued(r) \/ o.op = "recon"
           /\ QueuedFetch(s) <=> QueuedFetch(r) \/ o.op \in {"fence", "recon"}
           /\ Seqs(s.queue) = Seqs(r.queue) \cup {o.seq}
<1> DEFINE q == r.queue
           a == Append(q, o)
           k == Len(q) + 1
<1>1. /\ \A i \in DOMAIN q : i \in DOMAIN a /\ a[i] = q[i]
      /\ k \in DOMAIN a /\ a[k] = o
      /\ \A i \in DOMAIN a : i \in DOMAIN q \/ i = k
  BY AppendElements
<1>2. k = 1 => r.run = "idle"
  <2>1. Len(q) \in Nat /\ (Len(q) = 0 => q = <<>>)
    BY EmptySeq
  <2> QED BY <2>1
<1>3. Seqs(a) = Seqs(q) \cup {o.seq}
  BY AppendSeqs
<1> HIDE DEF a, k
<1>4. ReconnectQueued(s) <=> ReconnectQueued(r) \/ o.op = "recon"
  BY <1>1 DEF ReconnectQueued, a
<1>5. QueuedFetch(s) <=> QueuedFetch(r) \/ o.op \in {"fence", "recon"}
  <2>1. s.queue = a
    BY DEF a
  <2>2. QueuedFetch(s) => QueuedFetch(r) \/ o.op \in {"fence", "recon"}
    BY <1>1, <2>1 DEF QueuedFetch
  <2>3. QueuedFetch(r) => QueuedFetch(s)
    BY <1>1, <2>1 DEF QueuedFetch
  <2>4. o.op \in {"fence", "recon"} => QueuedFetch(s)
    BY <1>1, <1>2, <2>1 DEF QueuedFetch
  <2> QED BY <2>2, <2>3, <2>4
<1> QED BY <1>3, <1>4, <1>5 DEF a

LEMMA TailOps ==
    ASSUME NEW n \in Nat, NEW r, r.queue \in Seq(Ops(n)), r.queue # <<>>,
           NEW s, s.queue = Tail(r.queue), s.run = "idle"
    PROVE  /\ ReconnectQueued(s) => ReconnectQueued(r)
           /\ Operation(r).op = "recon" => ReconnectQueued(r)
           /\ QueuedFetch(r) =>
                 \/ QueuedFetch(s)
                 \/ r.run = "idle" /\ Operation(r).op \in {"fence", "recon"}
           /\ Seqs(r.queue) = {Operation(r).seq} \cup Seqs(s.queue)
<1> DEFINE q == r.queue
           t == Tail(q)
           h == Head(q)
<1>1. /\ 1 \in DOMAIN q /\ h = q[1]
      /\ \A i \in DOMAIN t : i + 1 \in DOMAIN q /\ t[i] = q[i + 1]
      /\ \A i \in DOMAIN q : i # 1 => i - 1 \in DOMAIN t /\ t[i - 1] = q[i]
      /\ Seqs(q) = {h.seq} \cup Seqs(t)
  BY TailElements, TailSeqs
<1>2. Operation(r) = h /\ s.queue = t
  BY DEF Operation
<1> HIDE DEF t, h
<1>3. /\ ReconnectQueued(s) => ReconnectQueued(r)
      /\ h.op = "recon" => ReconnectQueued(r)
  BY <1>1, <1>2 DEF ReconnectQueued
<1>4. QueuedFetch(r) =>
         \/ QueuedFetch(s)
         \/ r.run = "idle" /\ h.op \in {"fence", "recon"}
  BY <1>1, <1>2 DEF QueuedFetch
<1> QED BY <1>1, <1>2, <1>3, <1>4
-----------------------------------------------------------------------------
(* What a step does to the connection of one guest.                        *)

Forward == \A g \in Guests : guest'[g].lastSeq >= guest[g].lastSeq

LEMMA ForwardStep ==
    ASSUME ReplicaInv, Follows
    PROVE  Forward
<1>1. \A g \in Guests : guest[g].lastSeq \in Nat
  BY GuestState, ReplicaFacts
<1>2. guest \in [Guests -> GuestRecord(Len(log))]
  BY DEF ReplicaInv
<1>3. CASE guest' = guest
  BY <1>1, <1>3 DEF Forward
<1>4. ASSUME NEW g \in Guests, GuestMoves(g)
      PROVE  Forward
  <2>1. PICK s : s.lastSeq >= guest[g].lastSeq /\ guest' = [guest EXCEPT ![g] = s]
    BY <1>4 DEF GuestMoves, Moves
  <2> QED BY <1>1, <1>2, <2>1 DEF Forward
<1> QED BY <1>3, <1>4 DEF Follows, LogGrows

LEMMA CoveredKept ==
    ASSUME NEW n \in Nat, NEW c, NEW r, NEW s, NEW in, NEW rest, NEW coming,
           r.lastSeq \in Nat, s.lastSeq \in Nat, s.lastSeq >= r.lastSeq,
           Keeps(r, s, in, rest), Covered(c, r, in, coming, n),
           \A i \in DOMAIN rest : rest[i].type = "resync" => \E j \in DOMAIN in : in[j] = rest[i]
    PROVE  Covered(c, s, rest, coming, n)
<1> SUFFICES ASSUME c = "ready", s.phase \in Following
             PROVE  /\ \A i \in DOMAIN rest : rest[i].type = "resync" =>
                         \A seq \in Missing(s, n) :
                            seq <= rest[i].to \/ seq \in Expected(s, rest, coming)
                    /\ ~Fetching(s) => Missing(s, n) \subseteq Expected(s, rest, coming)
  BY DEF Covered
<1>1. r.phase \in Following /\ (Fetching(r) => Fetching(s))
  BY DEF Keeps
<1>2. \A seq \in Missing(s, n) : seq \in Missing(r, n) /\ seq > s.lastSeq
  BY DEF Missing
<1>3. \A seq \in Missing(s, n) :
         seq \in Expected(r, in, coming) => seq \in Expected(s, rest, coming)
  BY <1>2 DEF Keeps, Expected
<1>4. /\ \A i \in DOMAIN in : in[i].type = "resync" =>
           \A seq \in Missing(r, n) : seq <= in[i].to \/ seq \in Expected(r, in, coming)
      /\ ~Fetching(r) => Missing(r, n) \subseteq Expected(r, in, coming)
  BY <1>1 DEF Covered
<1> HIDE DEF Missing
<1>5. ASSUME NEW i \in DOMAIN rest, rest[i].type = "resync", NEW seq \in Missing(s, n)
      PROVE  seq <= rest[i].to \/ seq \in Expected(s, rest, coming)
  <2>1. PICK j \in DOMAIN in : in[j] = rest[i]
    BY <1>5
  <2>2. seq <= in[j].to \/ seq \in Expected(r, in, coming)
    BY <1>2, <1>4, <1>5, <2>1
  <2> QED BY <1>3, <2>1, <2>2
<1>6. ~Fetching(s) => Missing(s, n) \subseteq Expected(s, rest, coming)
  BY <1>1, <1>2, <1>3, <1>4
<1> QED BY <1>5, <1>6

\* The socket stays as it is, or a guest that has none opens one.
LEMMA LinkedKept ==
    ASSUME NEW n \in Nat, NEW c, NEW r, NEW s, NEW in \in Seq(Inbox(n)), NEW out \in Seq(Outbox(n)),
           r.lastSeq \in Nat, s.lastSeq \in Nat, s.lastSeq >= r.lastSeq, NEW more,
           Linked(c, r, in, out), s.phase # "out",
           \/ s.link = r.link /\ r.phase # "out"
              /\ (s.phase \in Following => r.phase \in Following /\ (Fetching(r) => Fetching(s)))
           \/ r.link = "down" /\ s.link = "opening" /\ (s.phase \in Following => Fetching(s)),
           s.phase \in Following /\ (s.run = "waiting" \/ s.phase = "syncing") => s.link = "ready",
           Asks(r, out, more)
    PROVE  Linked(c, s, in, more)
<1>1. \A i \in DOMAIN in : in[i].type = "resync" => in[i].from \in Nat
  <2>1. \A i \in DOMAIN in : in[i] \in Inbox(n)
    BY ElementOfSeq, LenProperties
  <2> QED BY <2>1, MessageFacts
<1>2. \A i \in DOMAIN out : out[i].type = "resync" => out[i].after \in Nat
  <2>1. \A i \in DOMAIN out : out[i] \in Outbox(n)
    BY ElementOfSeq, LenProperties
  <2> QED BY <2>1 DEF Outbox
<1>3. \A i \in DOMAIN in : in[i].type = "resync" => in[i].from <= s.lastSeq
  BY <1>1 DEF Linked
<1>4. \A i \in DOMAIN more : more[i].type = "resync" => more[i].after <= s.lastSeq
  <2> SUFFICES ASSUME NEW i \in DOMAIN more, more[i].type = "resync"
               PROVE  more[i].after <= s.lastSeq
    OBVIOUS
  <2>1. CASE more[i].after = r.lastSeq
    BY <2>1
  <2>2. ASSUME NEW j \in DOMAIN out, out[j] = more[i]
        PROVE  more[i].after <= s.lastSeq
    BY <1>2, <2>2 DEF Linked
  <2> QED BY <2>1, <2>2 DEF Asks
<1>5. CASE /\ s.link = r.link /\ r.phase # "out"
           /\ s.phase \in Following => r.phase \in Following /\ (Fetching(r) => Fetching(s))
  BY <1>3, <1>4, <1>5 DEF Linked
<1>6. CASE r.link = "down" /\ s.link = "opening" /\ (s.phase \in Following => Fetching(s))
  <2>1. in = <<>> /\ DOMAIN in = {}
    BY <1>6 DEF Linked
  <2> QED BY <1>3, <1>4, <1>6, <2>1 DEF Linked
<1> QED BY <1>5, <1>6

\* The other guests do not take part in what a guest does.
LEMMA GuestGap ==
    ASSUME GapInv, NEW g \in Guests, UNCHANGED <<log, committed>>,
           \A h \in Guests \ {g} : /\ conn'[h] = conn[h] /\ guest'[h] = guest[h]
                                   /\ toGuest'[h] = toGuest[h] /\ toHost'[h] = toHost[h],
           Linked(conn'[g], guest'[g], toGuest'[g], toHost'[g]),
           Covered(conn'[g], guest'[g], toGuest'[g], committed, Len(log))
    PROVE  GapInv'
<1>1. committed' = committed /\ Len(log') = Len(log)
  OBVIOUS
<1>2. ASSUME NEW h \in Guests
      PROVE  /\ Linked(conn'[h], guest'[h], toGuest'[h], toHost'[h])
             /\ Covered(conn'[h], guest'[h], toGuest'[h], committed', Len(log'))
  <2>1. CASE h = g
    BY <1>1, <2>1
  <2>2. CASE h # g
    BY <1>1, <2>2 DEF GapInv
  <2> QED BY <2>1, <2>2
<1> QED BY <1>2 DEF GapInv

LEMMA GapState ==
    ASSUME ReplicaInv, ReplicaInv', Forward, GapInv, NEW g \in Guests, log' = log
    PROVE  /\ Linked(conn[g], guest[g], toGuest[g], toHost[g])
           /\ Covered(conn[g], guest[g], toGuest[g], committed, Len(log))
           /\ guest[g].lastSeq \in Nat /\ guest'[g].lastSeq \in Nat
           /\ guest'[g].lastSeq >= guest[g].lastSeq
           /\ toGuest[g] \in Seq(Inbox(Len(log))) /\ toHost[g] \in Seq(Outbox(Len(log)))
           /\ guest'[g] \in GuestRecord(Len(log)) /\ Len(log) \in Nat
           /\ log \in Seq(Batch) /\ Replica(guest[g]) /\ guest[g] \in GuestRecord(Len(log))
<1>1. guest'[g] \in GuestRecord(Len(log))
  BY DEF ReplicaInv
<1>2. guest'[g].lastSeq \in Nat
  BY <1>1, GuestState DEF GuestRecord
<1> QED BY <1>1, <1>2, GuestState, ReplicaFacts DEF GapInv, Forward

\* A guest that closes its socket: the end of the server is stale.
LEMMA DropGap ==
    ASSUME ReplicaInv, ReplicaInv', Forward, GapInv, NEW g \in Guests, NEW s, NEW rest,
           Becomes(g, s, rest), s.link = "down", UNCHANGED <<hostVars, toHost>>,
           s.phase \in Following => s.run # "waiting" /\ s.phase # "syncing"
    PROVE  GapInv'
<1>1. /\ conn \in [Guests -> {"none", "pending", "accepted", "ready", "stale"}]
      /\ guest \in [Guests -> GuestRecord(Len(log))] /\ log' = log /\ committed' = committed
      /\ toGuest \in [Guests -> Seq(Inbox(Len(log)))]
  BY GuestState DEF hostVars
<1>2. /\ guest'[g] = s /\ toGuest'[g] = <<>>
      /\ conn'[g] = IF guest[g].link # "down" /\ conn[g] # "none" THEN "stale" ELSE conn[g]
      /\ \A h \in Guests \ {g} : /\ conn'[h] = conn[h] /\ guest'[h] = guest[h]
                                 /\ toGuest'[h] = toGuest[h] /\ toHost'[h] = toHost[h]
      /\ toHost'[g] = toHost[g]
  BY <1>1 DEF Becomes
<1>3. conn'[g] \notin {"pending", "accepted", "ready"}
  BY <1>1, <1>2, GapState DEF Linked
<1>4. Covered(conn'[g], guest'[g], toGuest'[g], committed, Len(log))
  BY <1>3 DEF Covered
<1>5. \A i \in DOMAIN toHost[g] :
         toHost[g][i].type = "resync" => toHost[g][i].after <= s.lastSeq
  <2>1. \A i \in DOMAIN toHost[g] : toHost[g][i] \in Outbox(Len(log))
    BY <1>1, GapState, ElementOfSeq, LenProperties
  <2>2. \A i \in DOMAIN toHost[g] : toHost[g][i].type = "resync" => toHost[g][i].after \in Nat
    BY <1>1, <2>1, GapState DEF Outbox
  <2>3. /\ guest[g].lastSeq \in Nat /\ s.lastSeq \in Nat /\ s.lastSeq >= guest[g].lastSeq
        /\ Linked(conn[g], guest[g], toGuest[g], toHost[g])
    BY <1>1, <1>2, GapState
  <2> QED BY <2>2, <2>3 DEF Linked
<1>6. DOMAIN <<>> = {}
  OBVIOUS
<1>7. Linked(conn'[g], guest'[g], toGuest'[g], toHost'[g])
  BY <1>2, <1>3, <1>5, <1>6 DEF Linked
<1> QED BY <1>1, <1>2, <1>4, <1>7, GuestGap

\* A guest that keeps its socket, or opens one.
LEMMA KeptGap ==
    ASSUME ReplicaInv, ReplicaInv', Forward, GapInv, NEW g \in Guests, NEW s,
           guest' = [guest EXCEPT ![g] = s], UNCHANGED <<log, committed, conn, toGuest>>,
           \A h \in Guests \ {g} : toHost'[h] = toHost[h],
           s.phase # "out",
           \/ s.link = guest[g].link /\ guest[g].phase # "out"
              /\ Keeps(guest[g], s, toGuest[g], toGuest[g])
           \/ guest[g].link = "down" /\ s.link = "opening" /\ (s.phase \in Following => Fetching(s)),
           s.phase \in Following /\ (s.run = "waiting" \/ s.phase = "syncing") => s.link = "ready",
           Asks(guest[g], toHost[g], toHost'[g])
    PROVE  GapInv'
<1> DEFINE r == guest[g]
           in == toGuest[g]
           out == toHost[g]
           more == toHost'[g]
           n == Len(log)
<1>1. /\ Linked(conn[g], r, in, out) /\ Covered(conn[g], r, in, committed, n)
      /\ r.lastSeq \in Nat /\ guest'[g].lastSeq \in Nat /\ guest'[g].lastSeq >= r.lastSeq
      /\ in \in Seq(Inbox(n)) /\ out \in Seq(Outbox(n)) /\ n \in Nat
  BY GapState
<1>2. guest'[g] = s /\ \A h \in Guests \ {g} : guest'[h] = guest[h]
  BY GuestState
<1> HIDE DEF r, in, out, more, n
<1>3. Linked(conn[g], s, in, more)
  <2>1. \/ s.link = r.link /\ r.phase # "out"
           /\ (s.phase \in Following => r.phase \in Following /\ (Fetching(r) => Fetching(s)))
        \/ r.link = "down" /\ s.link = "opening" /\ (s.phase \in Following => Fetching(s))
    BY DEF Keeps, r
  <2>2. Asks(r, out, more)
    BY DEF more, out, r
  <2>3. s.lastSeq \in Nat /\ s.lastSeq >= r.lastSeq
    BY <1>1, <1>2
  <2>4. s.phase \in Following /\ (s.run = "waiting" \/ s.phase = "syncing") => s.link = "ready"
    OBVIOUS
  <2>5. s.phase # "out"
    OBVIOUS
  <2> HIDE DEF Following
  <2> QED BY <1>1, <2>1, <2>2, <2>3, <2>4, <2>5, LinkedKept
<1>4. Covered(conn[g], s, in, committed, n)
  <2>1. CASE r.link = "down"
    <3>1. conn[g] # "ready"
      BY <1>1, <2>1 DEF Linked
    <3> QED BY <3>1 DEF Covered
  <2>2. CASE r.link # "down"
    <3>1. Keeps(r, s, in, in)
      BY <2>2 DEF r, in
    <3>2. \A i \in DOMAIN in : in[i].type = "resync" => \E j \in DOMAIN in : in[j] = in[i]
      OBVIOUS
    <3> QED BY <1>1, <1>2, <3>1, <3>2, CoveredKept
  <2> QED BY <2>1, <2>2
<1> QED BY <1>2, <1>3, <1>4, GuestGap DEF more, in, n
-----------------------------------------------------------------------------
(* No step of a guest opens a gap.                                         *)

LEMMA AsksSame ==
    ASSUME NEW r, NEW out
    PROVE  Asks(r, out, out)
BY DEF Asks

LEMMA AsksMore ==
    ASSUME NEW n \in Nat, NEW r, NEW out \in Seq(Outbox(n)), NEW q \in Outbox(n),
           q.type = "resync" => q.after = r.lastSeq
    PROVE  Asks(r, out, Append(out, q))
<1> DEFINE a == Append(out, q)
           k == Len(out) + 1
<1>1. /\ \A i \in DOMAIN out : a[i] = out[i]
      /\ a[k] = q /\ \A i \in DOMAIN a : i \in DOMAIN out \/ i = k
  BY AppendElements
<1> HIDE DEF a, k
<1>2. Asks(r, out, a)
  BY <1>1 DEF Asks
<1> QED BY <1>2 DEF a

LEMMA BecomesUp ==
    ASSUME ReplicaInv, NEW g \in Guests, NEW s, NEW rest, Becomes(g, s, rest), s.link # "down"
    PROVE  /\ conn' = conn /\ guest' = [guest EXCEPT ![g] = s]
           /\ toGuest' = [toGuest EXCEPT ![g] = rest]
BY GuestState DEF Becomes

\* A step that leaves the apply queue and what the guest holds alone.
LEMMA SameGap ==
    ASSUME ReplicaInv, ReplicaInv', Forward, GapInv, NEW g \in Guests, NEW s,
           guest' = [guest EXCEPT ![g] = s], UNCHANGED <<log, committed, conn, toGuest>>,
           \A h \in Guests \ {g} : toHost'[h] = toHost[h],
           Asks(guest[g], toHost[g], toHost'[g]),
           s.queue = guest[g].queue, s.run = guest[g].run, s.buffer = guest[g].buffer,
           s.feed = guest[g].feed, s.lastSeq = guest[g].lastSeq, s.link = guest[g].link,
           guest[g].phase # "out", s.phase # "out",
           s.phase \in Following => guest[g].phase \in Following,
           guest[g].phase \in Bootstrapping => s.phase \in Bootstrapping,
           guest[g].phase \in {"connecting", "syncing"} => s.phase \in {"connecting", "syncing"},
           guest[g].attempt > 0 => s.attempt > 0,
           s.phase = "syncing" => s.link = "ready" \/ guest[g].phase = "syncing"
    PROVE  GapInv'
<1> DEFINE r == guest[g]
<1>1. Linked(conn[g], r, toGuest[g], toHost[g])
  BY GapState
<1>2. Fetching(r) => Fetching(s)
  BY DEF Fetching, QueuedFetch, ReconnectQueued
<1>3. Held(r) \subseteq Held(s)
  BY DEF Held
<1> HIDE DEF r
<1>4. Keeps(r, s, toGuest[g], toGuest[g])
  BY <1>2, <1>3 DEF Keeps, r
<1>5. s.phase \in Following /\ (s.run = "waiting" \/ s.phase = "syncing") => s.link = "ready"
  BY <1>1 DEF Linked, r
<1> QED BY <1>4, <1>5, KeptGap DEF r

LEMMA JoinGap ==
    ASSUME ReplicaInv, ReplicaInv', Forward, GapInv, NEW g \in Guests, Join(g)
    PROVE  GapInv'
<1> DEFINE r == guest[g]
           s == [r EXCEPT !.phase = "connecting", !.link = "opening"]
<1>1. /\ guest' = [guest EXCEPT ![g] = s] /\ r \in GuestRecord(Len(log))
      /\ UNCHANGED <<log, committed, conn, toGuest, toHost>> /\ r.phase = "out"
  BY GuestState DEF Join, hostVars
<1>2. r.link = "down"
  BY <1>1, GapState DEF Linked
<1> HIDE DEF r
<1>3. s.phase = "connecting" /\ s.link = "opening" /\ s.run = r.run
  BY <1>1 DEF GuestRecord
<1> HIDE DEF s
<1>4. Fetching(s)
  BY <1>3 DEF Fetching
<1>5. r.run # "waiting"
  BY <1>1, GuestState DEF Replica, r
<1> QED BY <1>1, <1>2, <1>3, <1>4, <1>5, KeptGap, AsksSame DEF r

LEMMA RequestInitialGap ==
    ASSUME ReplicaInv, ReplicaInv', Forward, GapInv, NEW g \in Guests, RequestInitial(g)
    PROVE  GapInv'
<1> DEFINE r == guest[g]
           s == [r EXCEPT !.phase = "syncing"]
           q == [type |-> "resync", after |-> 0, known |-> <<>>]
<1>1. /\ guest' = [guest EXCEPT ![g] = s] /\ r \in GuestRecord(Len(log))
      /\ UNCHANGED <<log, committed, conn, toGuest>> /\ r.phase = "connecting" /\ r.link = "ready"
      /\ toHost' = [toHost EXCEPT ![g] = Append(@, q)]
      /\ toHost \in [Guests -> Seq(Outbox(Len(log)))] /\ Len(log) \in Nat /\ r.lastSeq = 0
  BY GuestState DEF RequestInitial, hostVars, Request, Replica
<1>2. q \in Outbox(Len(log)) /\ q.after = 0
  <2>1. 0 \in 0..Len(log) /\ <<>> \in Seq(Batch)
    BY <1>1
  <2> QED BY <1>1, <2>1, NewRequests
<1> HIDE DEF r, q
<1>3. Asks(r, toHost[g], toHost'[g])
  <2>1. toHost'[g] = Append(toHost[g], q) /\ toHost[g] \in Seq(Outbox(Len(log)))
    BY <1>1
  <2> QED BY <1>1, <1>2, <2>1, AsksMore
<1>4. \A h \in Guests \ {g} : toHost'[h] = toHost[h]
  BY <1>1
<1>5. /\ s.phase = "syncing" /\ s.queue = r.queue /\ s.run = r.run /\ s.buffer = r.buffer
      /\ s.feed = r.feed /\ s.lastSeq = r.lastSeq /\ s.link = r.link /\ s.attempt = r.attempt
  BY <1>1 DEF GuestRecord
<1> HIDE DEF s
<1> QED BY <1>1, <1>3, <1>4, <1>5, SameGap DEF r, Following, Bootstrapping

LEMMA HandoffGap ==
    ASSUME ReplicaInv, ReplicaInv', Forward, GapInv, NEW g \in Guests, Handoff(g)
    PROVE  GapInv'
<1> DEFINE r == guest[g]
           queue == [i \in DOMAIN r.buffer |-> [op |-> "join", seq |-> r.buffer[i]]]
           s == [r EXCEPT !.phase = "handoff", !.buffer = <<>>, !.queue = queue]
<1>1. /\ guest' = [guest EXCEPT ![g] = s] /\ r \in GuestRecord(Len(log))
      /\ UNCHANGED <<log, committed, conn, toGuest, toHost>> /\ r.phase = "cloning"
      /\ r.queue = <<>> /\ r.run = "idle" /\ r.attempt = 0
  BY GuestState DEF Handoff, hostVars, Replica, Bootstrapping
<1>2. Seqs(queue) = ToSet(r.buffer)
  BY DEF Seqs, ToSet
<1> HIDE DEF r, queue
<1>3. /\ s.phase = "handoff" /\ s.queue = queue /\ s.run = r.run
      /\ s.lastSeq = r.lastSeq /\ s.link = r.link /\ s.attempt = r.attempt
  BY <1>1 DEF GuestRecord
<1> HIDE DEF s
<1>4. DOMAIN r.queue = {}
  BY <1>1
<1>5. ~Fetching(r)
  BY <1>1, <1>4 DEF Fetching, QueuedFetch
<1>6. Held(r) \subseteq Held(s)
  BY <1>1, <1>2, <1>3, <1>4 DEF Held, Seqs
<1>7. Keeps(r, s, toGuest[g], toGuest[g])
  BY <1>1, <1>5, <1>6 DEF Keeps, Following, Bootstrapping
<1>8. s.run # "waiting"
  BY <1>1, <1>3
<1> QED BY <1>1, <1>3, <1>7, <1>8, KeptGap, AsksSame DEF r

\* An operation more in the apply queue, of a guest that is attached.
LEMMA QueueGap ==
    ASSUME ReplicaInv, ReplicaInv', Forward, GapInv, NEW g \in Guests, NEW s,
           guest' = [guest EXCEPT ![g] = s],
           UNCHANGED <<log, committed, conn, toGuest, toHost>>, NEW o \in Ops(Len(log)),
           o.op \in {"fence", "recon"},
           s.queue = Append(guest[g].queue, o), s.run = guest[g].run,
           s.feed = guest[g].feed, s.link = guest[g].link,
           s.phase \notin {"out", "syncing"}, guest[g].phase \notin {"out"} \cup Bootstrapping,
           s.phase \in Following => guest[g].phase \in Following
    PROVE  GapInv'
<1> DEFINE r == guest[g]
<1>1. /\ Linked(conn[g], r, toGuest[g], toHost[g]) /\ r.queue \in Seq(Ops(Len(log)))
      /\ r.run # "idle" => r.queue # <<>>
      /\ Len(log) \in Nat
  BY GapState DEF Replica, GuestRecord
<1>2. /\ ReconnectQueued(s) <=> ReconnectQueued(r) \/ o.op = "recon"
      /\ QueuedFetch(s) <=> QueuedFetch(r) \/ o.op \in {"fence", "recon"}
      /\ Seqs(s.queue) = Seqs(r.queue) \cup {o.seq}
  BY <1>1, AppendOps, ZenonT(30)
<1>3. Fetching(s)
  BY <1>2 DEF Fetching
<1>4. Held(r) \subseteq Held(s)
  BY <1>2 DEF Held
<1> HIDE DEF r
<1>5. Keeps(r, s, toGuest[g], toGuest[g])
  BY <1>3, <1>4 DEF Keeps, r
<1>6. s.phase \in Following /\ (s.run = "waiting" \/ s.phase = "syncing") => s.link = "ready"
  BY <1>1 DEF Linked, r
<1> QED BY <1>5, <1>6, KeptGap, AsksSame DEF r

LEMMA FenceGap ==
    ASSUME ReplicaInv, ReplicaInv', Forward, GapInv, NEW g \in Guests, Fence(g)
    PROVE  GapInv'
<1> DEFINE r == guest[g]
           o == [op |-> "fence", seq |-> 0]
           queue == Append(r.queue, o)
           s == [r EXCEPT !.phase = "fence", !.queue = queue]
<1>1. /\ r \in GuestRecord(Len(log)) /\ r.phase = "handoff" /\ UNCHANGED <<hostVars, toHost>>
      /\ log \in Seq(Batch) /\ Replica(r) /\ o \in Ops(Len(log))
  BY GuestState, NewOperations DEF Fence
<1>2. CASE r.link = "ready"
  <2>1. Becomes(g, s, toGuest[g]) /\ toGuest \in [Guests -> Seq(Inbox(Len(log)))]
    BY <1>2, GuestState DEF Fence
  <2>a. o.op = "fence"
    OBVIOUS
  <2> HIDE DEF r, o, queue
  <2>2. /\ s.phase = "fence" /\ s.queue = queue /\ s.run = r.run /\ s.feed = r.feed
        /\ s.link = r.link
    BY <1>1 DEF GuestRecord
  <2> HIDE DEF s
  <2>3. conn' = conn /\ guest' = [guest EXCEPT ![g] = s] /\ toGuest' = toGuest
    BY <1>2, <2>1, <2>2, BecomesUp
  <2>4. r.phase \in Following /\ r.phase \notin {"out"} \cup Bootstrapping
    BY <1>1 DEF Following, Bootstrapping, Attached
  <2> QED BY <1>1, <2>a, <2>2, <2>3, <2>4, QueueGap DEF r, queue, hostVars
<1>3. CASE r.link # "ready"
  <2>1. Becomes(g, Left(r), toGuest[g]) /\ Left(r).link = "down" /\ Left(r).phase = "left"
    BY <1>1, <1>3, LeftMoves DEF Fence
  <2> HIDE DEF r, s
  <2> QED BY <1>1, <2>1, DropGap DEF Following, Bootstrapping, Attached
<1> QED BY <1>2, <1>3

LEMMA AnnounceGap ==
    ASSUME ReplicaInv, ReplicaInv', Forward, GapInv, NEW g \in Guests, Announce(g)
    PROVE  GapInv'
<1> DEFINE r == guest[g]
           s == [r EXCEPT !.phase = "announce"]
<1>1. /\ r \in GuestRecord(Len(log)) /\ r.phase = "fence" /\ UNCHANGED <<hostVars, toHost>>
      /\ log \in Seq(Batch) /\ Replica(r)
  BY GuestState DEF Announce
<1>2. CASE r.link = "ready"
  <2>1. Becomes(g, s, toGuest[g]) /\ toGuest \in [Guests -> Seq(Inbox(Len(log)))]
    BY <1>2, GuestState DEF Announce
  <2> HIDE DEF r
  <2>2. /\ s.phase = "announce" /\ s.queue = r.queue /\ s.run = r.run /\ s.feed = r.feed
        /\ s.link = r.link /\ s.buffer = r.buffer /\ s.lastSeq = r.lastSeq /\ s.attempt = r.attempt
    BY <1>1 DEF GuestRecord
  <2> HIDE DEF s
  <2>3. conn' = conn /\ guest' = [guest EXCEPT ![g] = s] /\ toGuest' = toGuest
    BY <1>2, <2>1, <2>2, BecomesUp
  <2>4. r.phase \in Following /\ r.phase \notin {"out"} \cup Bootstrapping
    BY <1>1 DEF Following, Bootstrapping, Attached
  <2> QED BY <1>1, <2>2, <2>3, <2>4, SameGap, AsksSame DEF r, hostVars, Bootstrapping
<1>3. CASE r.link # "ready"
  <2>1. Becomes(g, Left(r), toGuest[g]) /\ Left(r).link = "down" /\ Left(r).phase = "left"
    BY <1>1, <1>3, LeftMoves DEF Announce
  <2> HIDE DEF r, s
  <2> QED BY <1>1, <2>1, DropGap DEF Following, Bootstrapping, Attached
<1> QED BY <1>2, <1>3

LEMMA JoinedGap ==
    ASSUME ReplicaInv, ReplicaInv', Forward, GapInv, NEW g \in Guests, Joined(g)
    PROVE  GapInv'
<1> DEFINE r == guest[g]
           s == [r EXCEPT !.phase = "live"]
<1>1. /\ guest' = [guest EXCEPT ![g] = s] /\ r \in GuestRecord(Len(log))
      /\ UNCHANGED <<log, committed, conn, toGuest, toHost>> /\ r.phase = "announce"
  BY GuestState DEF Joined, hostVars
<1> HIDE DEF r
<1>2. /\ s.phase = "live" /\ s.queue = r.queue /\ s.run = r.run /\ s.buffer = r.buffer
      /\ s.feed = r.feed /\ s.lastSeq = r.lastSeq /\ s.link = r.link /\ s.attempt = r.attempt
  BY <1>1 DEF GuestRecord
<1> HIDE DEF s
<1>3. r.phase \in Following /\ r.phase \notin {"out"} \cup Bootstrapping
  BY <1>1 DEF Following, Bootstrapping, Attached
<1> QED BY <1>1, <1>2, <1>3, SameGap, AsksSame DEF r, Bootstrapping

LEMMA LeaveGap ==
    ASSUME ReplicaInv, ReplicaInv', Forward, GapInv, NEW g \in Guests, Leave(g)
    PROVE  GapInv'
<1>1. /\ Becomes(g, Left(guest[g]), <<>>) /\ UNCHANGED <<hostVars, toHost>>
      /\ Left(guest[g]).link = "down" /\ Left(guest[g]).phase = "left"
  BY GuestState, LeftMoves DEF Leave
<1> QED BY <1>1, DropGap DEF Following, Bootstrapping, Attached

LEMMA ReconnectGap ==
    ASSUME ReplicaInv, ReplicaInv', Forward, GapInv, NEW g \in Guests, Reconnect(g)
    PROVE  GapInv'
<1> DEFINE r == guest[g]
           s == [r EXCEPT !.link = "opening"]
<1>1. /\ guest' = [guest EXCEPT ![g] = s] /\ r \in GuestRecord(Len(log))
      /\ UNCHANGED <<log, committed, conn, toGuest, toHost>> /\ r.attempt > 0
      /\ ~ReconnectQueued(r) /\ r.link = "down"
      /\ Linked(conn[g], r, toGuest[g], toHost[g]) /\ Replica(r)
  BY GuestState, GapState DEF Reconnect, hostVars
<1>a. r.phase # "out"
  BY <1>1 DEF Replica
<1> HIDE DEF r
<1>2. /\ s.phase = r.phase /\ s.queue = r.queue /\ s.run = r.run
      /\ s.link = "opening" /\ s.attempt = r.attempt
  BY <1>1 DEF GuestRecord
<1> HIDE DEF s
<1>3. Fetching(s)
  BY <1>1, <1>2 DEF Fetching, ReconnectQueued
<1>4. ~(s.phase \in Following /\ (s.run = "waiting" \/ s.phase = "syncing"))
  BY <1>1, <1>2 DEF Linked
<1> QED BY <1>1, <1>a, <1>2, <1>3, <1>4, KeptGap, AsksSame DEF r

LEMMA QueueReconnectResyncGap ==
    ASSUME ReplicaInv, ReplicaInv', Forward, GapInv, NEW g \in Guests, QueueReconnectResync(g)
    PROVE  GapInv'
<1> DEFINE r == guest[g]
           o == [op |-> "recon", seq |-> 0]
           queue == Append(r.queue, o)
           s == [r EXCEPT !.queue = queue]
<1>1. /\ guest' = [guest EXCEPT ![g] = s] /\ r \in GuestRecord(Len(log))
      /\ UNCHANGED <<log, committed, conn, toGuest, toHost>>
      /\ o \in Ops(Len(log)) /\ o.op = "recon"
  BY GuestState, NewOperations DEF QueueReconnectResync, hostVars
<1>2. r.phase \notin {"out"} \cup Bootstrapping
  BY GuestState DEF QueueReconnectResync, JustReconnected, Replica
<1> HIDE DEF r, o, queue
<1>3. /\ s.phase = r.phase /\ s.queue = queue /\ s.run = r.run /\ s.feed = r.feed
      /\ s.link = r.link
  BY <1>1 DEF GuestRecord
<1> HIDE DEF s
<1>4. s.phase \notin {"out", "syncing"}
  BY <1>2, <1>3 DEF Bootstrapping
<1> QED BY <1>1, <1>2, <1>3, <1>4, QueueGap DEF r, queue

LEMMA HeartbeatGap ==
    ASSUME ReplicaInv, ReplicaInv', Forward, GapInv, NEW g \in Guests, Heartbeat(g)
    PROVE  GapInv'
<1> DEFINE r == guest[g]
           s == [r EXCEPT !.attempt = 1]
<1>1. /\ guest' = [guest EXCEPT ![g] = s] /\ r \in GuestRecord(Len(log))
      /\ UNCHANGED <<log, committed, conn, toGuest, toHost>> /\ r.phase = "live"
  BY GuestState DEF Heartbeat, hostVars
<1> HIDE DEF r
<1>2. /\ s.phase = r.phase /\ s.queue = r.queue /\ s.run = r.run /\ s.buffer = r.buffer
      /\ s.feed = r.feed /\ s.lastSeq = r.lastSeq /\ s.link = r.link /\ s.attempt = 1
  BY <1>1 DEF GuestRecord
<1> HIDE DEF s
<1>3. s.phase = "live" /\ s.attempt > 0 /\ r.phase # "out" /\ s.phase # "out" /\ s.phase # "syncing"
      /\ r.phase \notin {"connecting", "syncing"}
  BY <1>1, <1>2
<1>4. Asks(r, toHost[g], toHost'[g]) /\ \A h \in Guests \ {g} : toHost'[h] = toHost[h]
  BY <1>1, AsksSame
<1>5. (s.phase \in Following => r.phase \in Following)
      /\ (r.phase \in Bootstrapping => s.phase \in Bootstrapping)
  BY <1>2
<1> QED BY <1>1, <1>2, <1>3, <1>4, <1>5, SameGap DEF r

\* The operation at the head of the apply queue ends: what goes is not ahead.
LEMMA CompletedKeeps ==
    ASSUME log \in Seq(Batch), NEW r, Replica(r), r.queue # <<>>, r.run \in {"idle", "applying"},
           NEW s, s.queue = Tail(r.queue), s.run = "idle", s.phase = r.phase,
           s.attempt = IF Operation(r).op = "recon" THEN 0 ELSE r.attempt,
           Operation(r).seq <= s.lastSeq, s.lastSeq \in Nat,
           r.run = "idle" => Operation(r).op \notin {"fence", "recon"},
           r.run = "applying" => r.feed = <<>>, NEW in
    PROVE  Keeps(r, s, in, in)
<1>1. /\ r.queue \in Seq(Ops(Len(log))) /\ Len(log) \in Nat
      /\ r.phase \notin {"out"} \cup Bootstrapping
  BY ReplicaFacts DEF Replica
<1>2. /\ ReconnectQueued(s) => ReconnectQueued(r)
      /\ Operation(r).op = "recon" => ReconnectQueued(r)
      /\ QueuedFetch(r) =>
            \/ QueuedFetch(s)
            \/ r.run = "idle" /\ Operation(r).op \in {"fence", "recon"}
      /\ Seqs(r.queue) = {Operation(r).seq} \cup Seqs(s.queue)
  BY <1>1, TailOps
<1> DEFINE o == Operation(r)
<1> HIDE DEF o
<1>3. Fetching(r) => Fetching(s)
  BY <1>1, <1>2 DEF Fetching, Bootstrapping, o
<1>4. ToSet(<<>>) = {}
  BY DEF ToSet
<1>5. \A seq \in Held(r) : seq > s.lastSeq => seq \in Held(s)
  <2>1. o \in Ops(Len(log))
    BY <1>1, HeadTailProperties DEF o, Operation
  <2>2. o.seq \in 0..Len(log) /\ ~(o.seq > s.lastSeq)
    BY <1>1, <2>1, OperationFacts DEF o
  <2> QED BY <1>1, <1>2, <1>4, <2>2 DEF Held, o
<1> QED BY <1>3, <1>5 DEF Keeps

LEMMA BeginKeeps ==
    ASSUME log \in Seq(Batch), NEW r, Replica(r), r.queue # <<>>, r.run = "idle", NEW in
    PROVE  /\ Begin(r).phase = r.phase /\ Begin(r).run # "waiting"
           /\ \/ Begin(r).link = r.link /\ Keeps(r, Begin(r), in, in)
              \/ r.link = "down" /\ Begin(r).link = "opening" /\ Fetching(Begin(r))
<1> DEFINE o == Operation(r)
<1>1. /\ o \in Ops(Len(log)) /\ Len(log) \in Nat /\ r.lastSeq \in Nat
      /\ r.phase \notin {"out"} \cup Bootstrapping
  BY ReplicaFacts DEF Operation, Replica
<1>2. o.seq \in 0..Len(log) /\ (o.op \notin {"fence", "recon"} => o.seq \in 1..Len(log))
  BY <1>1, OperationFacts
<1> HIDE DEF o
<1>3. CASE Begin(r) = Resyncing(r)
  <2> DEFINE s == Resyncing(r)
  <2>1. /\ s.run = "connecting" /\ s.link = IF r.link = "down" THEN "opening" ELSE r.link
        /\ s.lastSeq = r.lastSeq /\ s.phase = r.phase /\ s.queue = r.queue
    BY ResyncingMoves
  <2> HIDE DEF s
  <2>2. Fetching(s)
    BY <2>1 DEF Fetching
  <2>3. Held(r) \subseteq Held(s)
    BY <1>1, <2>1 DEF Held
  <2>4. Keeps(r, s, in, in)
    BY <2>1, <2>2, <2>3 DEF Keeps
  <2> QED BY <1>3, <2>1, <2>2, <2>4 DEF s
<1>4. CASE o.op \notin {"fence", "recon"} /\ o.seq <= r.lastSeq
  <2> DEFINE s == Completed(r)
  <2>1. /\ s.lastSeq = r.lastSeq /\ s.link = r.link /\ s.phase = r.phase
        /\ s.queue = Tail(r.queue) /\ s.run = "idle"
        /\ s.attempt = IF Operation(r).op = "recon" THEN 0 ELSE r.attempt
    BY <1>4, CompletedMoves DEF o
  <2>2. Begin(r) = s
    BY <1>4 DEF Begin, o
  <2> HIDE DEF s
  <2>3. Keeps(r, s, in, in)
    BY <1>1, <1>4, <2>1, CompletedKeeps DEF o
  <2> QED BY <2>1, <2>2, <2>3
<1>5. CASE o.op \notin {"fence", "recon"} /\ o.seq = r.lastSeq + 1 /\ Fits(r, o.seq)
  <2> DEFINE a == Applied(r, o.seq)
             s == Completed(a)
  <2>1. /\ Replica(a) /\ a.lastSeq = o.seq /\ a.queue = r.queue /\ a.link = r.link
        /\ a.phase = r.phase /\ a.attempt = r.attempt
    BY <1>1, <1>2, <1>5, AppliedMoves DEF Moves
  <2> HIDE DEF a
  <2>2. a.lastSeq \in Nat /\ Operation(a) = o
    BY <2>1, ReplicaFacts DEF Operation, o
  <2>3. /\ s.lastSeq = a.lastSeq /\ s.link = r.link /\ s.phase = r.phase
        /\ s.queue = Tail(r.queue) /\ s.run = "idle"
        /\ s.attempt = IF o.op = "recon" THEN 0 ELSE r.attempt
    BY <2>1, <2>2, CompletedMoves
  <2>4. Begin(r) = s
    BY <1>1, <1>2, <1>5 DEF Begin, o, a
  <2> HIDE DEF s
  <2>5. o.seq <= s.lastSeq /\ s.lastSeq \in Nat
    BY <2>1, <2>2, <2>3
  <2>6. Keeps(r, s, in, in)
    BY <1>5, <2>3, <2>5, CompletedKeeps DEF o
  <2> QED BY <2>3, <2>4, <2>6
<1> QED BY <1>3, <1>4, <1>5 DEF Begin, o

\* A transaction of an answer is applied, or has been.
LEMMA FeedKeeps ==
    ASSUME log \in Seq(Batch), NEW r, Replica(r), r.run = "applying", r.feed # <<>>, NEW s,
           s.feed = Tail(r.feed), s.queue = r.queue, s.run = r.run, s.phase = r.phase,
           s.attempt = r.attempt, s.lastSeq >= Head(r.feed), s.lastSeq \in Nat, NEW in
    PROVE  Keeps(r, s, in, in)
<1>1. r.feed \in Seq(1..Len(log)) /\ r.phase \notin {"out"} \cup Bootstrapping
  BY ReplicaFacts DEF GuestRecord, Replica
<1>2. ToSet(r.feed) = {Head(r.feed)} \cup ToSet(s.feed) /\ Head(r.feed) \in 1..Len(log)
  <2> DEFINE S == 1..Len(log)
             f == r.feed
  <2>1. f \in Seq(S) /\ f # <<>> /\ s.feed = Tail(f)
    BY <1>1
  <2> HIDE DEF S, f
  <2>2. ToSet(f) = {Head(f)} \cup ToSet(s.feed) /\ Head(f) \in S
    BY <2>1, TailSeqs, HeadTailProperties, ZenonT(30)
  <2> QED BY <2>2 DEF S, f
<1>3. Fetching(r) => Fetching(s)
  BY DEF Fetching, QueuedFetch, ReconnectQueued
<1>4. \A seq \in Held(r) : seq > s.lastSeq => seq \in Held(s)
  <2>1. Len(log) \in Nat
    BY ReplicaFacts
  <2> QED BY <1>1, <1>2, <2>1 DEF Held
<1> QED BY <1>3, <1>4 DEF Keeps

\* A failed operation takes the socket down and waits for no answer.
LEMMA FailedIsIdle ==
    ASSUME log \in Seq(Batch), NEW r, Replica(r)
    PROVE  /\ r.queue # <<>> =>
                 /\ OperationFails(r).link = "down"
                 /\ OperationFails(r).phase \in Following =>
                       OperationFails(r).run # "waiting" /\ OperationFails(r).phase # "syncing"
           /\ AfterDrop(r).link = "down"
           /\ AfterDrop(r).phase \in Following =>
                 AfterDrop(r).run # "waiting" /\ AfterDrop(r).phase # "syncing"
<1>0. \A x \in {"left", "failed"} : x \notin Following
  BY DEF Following, Bootstrapping, Attached
<1>1. r \in GuestRecord(Len(log)) /\ (r.queue # <<>> => r.phase \notin {"out"} \cup Bootstrapping)
  BY ReplicaFacts DEF Replica
<1>2. ASSUME NEW q, Replica(q), q.run # "waiting", q.phase \notin {"out"} \cup Bootstrapping
      PROVE  AttemptFails(q).phase \in Following =>
                AttemptFails(q).run # "waiting" /\ AttemptFails(q).phase # "syncing"
  <2>1. CASE AttemptFails(q) = FailGuest(q)
    BY <1>0, <1>2, <2>1, FailGuestMoves
  <2>2. CASE q.attempt < ReconnectLimit
    <3>1. q \in GuestRecord(Len(log))
      BY <1>2, ReplicaFacts
    <3>2. AttemptFails(q).run = q.run /\ AttemptFails(q).phase = q.phase
      BY <2>2, <3>1 DEF AttemptFails, Down, GuestRecord
    <3> QED BY <1>2, <3>2 DEF Bootstrapping
  <2> QED BY <2>1, <2>2 DEF AttemptFails
<1>3. ASSUME r.queue # <<>>
      PROVE  /\ OperationFails(r).link = "down"
             /\ OperationFails(r).phase \in Following =>
                   OperationFails(r).run # "waiting" /\ OperationFails(r).phase # "syncing"
  <2> DEFINE f == Finished(r)
  <2>1. Replica(f) /\ f.run = "idle" /\ f.phase \notin {"out"} \cup Bootstrapping
    BY <1>3, FinishedMoves DEF Moves
  <2>2. OperationFails(r) = AttemptFails(f) \/ OperationFails(r) = FailGuest(f)
    BY DEF OperationFails
  <2>3. OperationFails(r).link = "down"
    BY <1>3, OperationFailsMoves
  <2> HIDE DEF f
  <2> QED BY <1>0, <1>2, <2>1, <2>2, <2>3, FailGuestMoves
<1>4. AfterDrop(r).phase \in Following =>
         AfterDrop(r).run # "waiting" /\ AfterDrop(r).phase # "syncing"
  <2>1. CASE r.phase \in Bootstrapping \cup {"announce"}
    BY <1>0, <2>1, LeftMoves DEF AfterDrop
  <2>2. CASE r.phase \notin Bootstrapping \cup {"announce"} /\ r.run \in {"connecting", "waiting"}
    <3>1. r.queue # <<>>
      BY <2>2 DEF Replica
    <3> QED BY <1>3, <2>2, <3>1 DEF AfterDrop
  <2>3. CASE /\ r.phase \notin Bootstrapping \cup {"announce"}
             /\ r.run \notin {"connecting", "waiting"}
             /\ r.attempt > 0 /\ ~ReconnectQueued(r)
    <3>1. r.phase # "out"
      BY <2>3 DEF Replica
    <3> QED BY <1>2, <2>3, <3>1 DEF AfterDrop
  <2>4. CASE /\ r.phase \notin Bootstrapping \cup {"announce"}
             /\ r.run \notin {"connecting", "waiting"}
             /\ AfterDrop(r) \in {[Down(r) EXCEPT !.attempt = 1], Down(r)}
    <3>1. AfterDrop(r).run = r.run /\ AfterDrop(r).phase = r.phase
      BY <1>1, <2>4 DEF Down, GuestRecord
    <3> QED BY <2>4, <3>1 DEF Bootstrapping
  <2> QED BY <2>1, <2>2, <2>3, <2>4 DEF AfterDrop
<1> QED BY <1>3, <1>4, AfterDropMoves

LEMMA ContinueKeeps ==
    ASSUME log \in Seq(Batch), NEW r, Replica(r), r.queue # <<>>, r.run = "applying", NEW in
    PROVE  \/ /\ Continue(r).phase = r.phase /\ Continue(r).run # "waiting"
              /\ Continue(r).link = r.link /\ Keeps(r, Continue(r), in, in)
           \/ Continue(r) = OperationFails(r)
<1> DEFINE o == Operation(r)
           seq == Head(r.feed)
<1>1. /\ r \in GuestRecord(Len(log)) /\ r.phase \notin {"out"} \cup Bootstrapping
      /\ r.lastSeq \in Nat /\ o \in Ops(Len(log)) /\ Len(log) \in Nat
  BY ReplicaFacts DEF Replica, Operation
<1>2. CASE r.feed = <<>> /\ (o.op \in {"fence", "recon"} \/ o.seq <= r.lastSeq)
  <2> DEFINE s == Completed(r)
  <2>1. /\ s.lastSeq = r.lastSeq /\ s.link = r.link /\ s.phase = r.phase
        /\ s.queue = Tail(r.queue) /\ s.run = "idle"
        /\ s.attempt = IF Operation(r).op = "recon" THEN 0 ELSE r.attempt
    BY <1>2, CompletedMoves
  <2>2. Continue(r) = s
    BY <1>2 DEF Continue
  <2>3. o.seq <= s.lastSeq
    BY <1>1, <1>2, <2>1 DEF Ops
  <2> HIDE DEF s
  <2>4. Keeps(r, s, in, in)
    BY <1>1, <1>2, <2>1, <2>3, CompletedKeeps
  <2> QED BY <2>1, <2>2, <2>4
<1>3. CASE r.feed = <<>> /\ ~(o.op \in {"fence", "recon"} \/ o.seq <= r.lastSeq)
  <2> DEFINE s == [r EXCEPT !.run = "idle"]
  <2>1. /\ s.phase = r.phase /\ s.run = "idle" /\ s.queue = r.queue /\ s.attempt = r.attempt
        /\ s.link = r.link /\ s.buffer = r.buffer
    BY <1>1 DEF GuestRecord
  <2>2. Continue(r) = s
    BY <1>3 DEF Continue
  <2> HIDE DEF s
  <2>3. ToSet(<<>>) = {}
    BY DEF ToSet
  <2>4. Held(r) \subseteq Held(s)
    BY <1>3, <2>1, <2>3 DEF Held
  <2>5. Fetching(r) => Fetching(s)
    BY <2>1 DEF Fetching, QueuedFetch, ReconnectQueued
  <2>6. Keeps(r, s, in, in)
    BY <2>1, <2>4, <2>5 DEF Keeps
  <2> QED BY <2>1, <2>2, <2>6
<1>4. CASE r.feed # <<>> /\ seq <= r.lastSeq
  <2> DEFINE feed == Tail(r.feed)
             s == [r EXCEPT !.feed = feed]
  <2>1. /\ s.phase = r.phase /\ s.run = r.run /\ s.queue = r.queue /\ s.attempt = r.attempt
        /\ s.link = r.link /\ s.feed = feed /\ s.lastSeq = r.lastSeq
    BY <1>1 DEF GuestRecord
  <2>2. Continue(r) = s
    BY <1>4 DEF Continue
  <2> HIDE DEF s
  <2>3. seq \in 1..Len(log)
    BY <1>4, FeedMoves
  <2>4. s.lastSeq >= seq
    BY <1>1, <1>4, <2>1, <2>3
  <2>5. Keeps(r, s, in, in)
    BY <1>1, <1>4, <2>1, <2>4, FeedKeeps
  <2> QED BY <2>1, <2>2, <2>5
<1>5. CASE r.feed # <<>> /\ ~(seq <= r.lastSeq) /\ Fits(r, seq)
  <2> DEFINE a == Applied(r, seq)
             feed == Tail(r.feed)
             s == [a EXCEPT !.feed = feed]
  <2>1. seq \in 1..Len(log)
    BY <1>5, FeedMoves
  <2>2. /\ Replica(a) /\ a.feed = r.feed /\ a.lastSeq = seq /\ a.queue = r.queue
        /\ a.link = r.link /\ a.phase = r.phase /\ a.attempt = r.attempt /\ a.run = r.run
    BY <1>1, <1>5, <2>1, AppliedMoves DEF Moves
  <2>3. a \in GuestRecord(Len(log))
    BY <2>2, ReplicaFacts
  <2>4. Continue(r) = s
    BY <1>5, <2>2 DEF Continue
  <2> HIDE DEF a, feed
  <2>5. /\ s.phase = r.phase /\ s.run = r.run /\ s.queue = r.queue /\ s.attempt = r.attempt
        /\ s.link = r.link /\ s.feed = feed /\ s.lastSeq = seq
    BY <2>2, <2>3 DEF GuestRecord
  <2> HIDE DEF s
  <2>6. s.lastSeq >= seq /\ s.lastSeq \in Nat
    BY <1>1, <2>1, <2>5
  <2>7. Keeps(r, s, in, in)
    BY <1>5, <2>5, <2>6, FeedKeeps DEF feed
  <2> QED BY <2>4, <2>5, <2>7
<1>6. CASE r.feed # <<>> /\ ~(seq <= r.lastSeq) /\ ~Fits(r, seq)
  BY <1>6 DEF Continue
<1> QED BY <1>2, <1>3, <1>4, <1>5, <1>6

LEMMA RunQueueGap ==
    ASSUME ReplicaInv, ReplicaInv', Forward, GapInv, NEW g \in Guests, RunQueue(g)
    PROVE  GapInv'
<1> DEFINE r == guest[g]
           s == IF r.run = "idle" THEN Begin(r) ELSE Continue(r)
<1>1. /\ log \in Seq(Batch) /\ Replica(r) /\ r.queue # <<>> /\ Becomes(g, s, toGuest[g])
      /\ UNCHANGED <<hostVars, toHost>> /\ r.run \in {"idle", "applying"}
      /\ toGuest \in [Guests -> Seq(Inbox(Len(log)))] /\ r \in GuestRecord(Len(log))
      /\ r.phase \notin {"out"} \cup Bootstrapping
  BY GuestState DEF RunQueue, Replica
<1> HIDE DEF r
<1>2. CASE s = OperationFails(r)
  <2>1. /\ s.link = "down"
        /\ s.phase \in Following => s.run # "waiting" /\ s.phase # "syncing"
    BY <1>1, <1>2, FailedIsIdle
  <2> HIDE DEF s
  <2> QED BY <1>1, <2>1, DropGap
<1>3. CASE /\ s.phase = r.phase /\ s.run # "waiting"
           /\ \/ s.link = r.link /\ Keeps(r, s, toGuest[g], toGuest[g])
              \/ r.link = "down" /\ s.link = "opening" /\ Fetching(s)
  <2> HIDE DEF s
  <2>1. CASE s.link = "down"
    BY <1>1, <1>3, <2>1, DropGap DEF Bootstrapping
  <2>2. CASE s.link # "down"
    <3>1. conn' = conn /\ guest' = [guest EXCEPT ![g] = s] /\ toGuest' = toGuest
      BY <1>1, <2>2, BecomesUp
    <3>2. s.phase \notin {"out", "syncing"}
      BY <1>1, <1>3 DEF Bootstrapping
    <3> QED BY <1>1, <1>3, <3>1, <3>2, KeptGap, AsksSame DEF r, hostVars
  <2> QED BY <2>1, <2>2
<1>4. CASE r.run = "idle"
  BY <1>1, <1>3, <1>4, BeginKeeps
<1>5. CASE r.run = "applying"
  BY <1>1, <1>2, <1>3, <1>5, ContinueKeeps
<1> QED BY <1>1, <1>4, <1>5

LEMMA RequestResyncGap ==
    ASSUME ReplicaInv, ReplicaInv', Forward, GapInv, NEW g \in Guests, RequestResync(g)
    PROVE  GapInv'
<1> DEFINE r == guest[g]
           s == [r EXCEPT !.run = "waiting"]
           q == [type |-> "resync", after |-> r.lastSeq, known |-> r.doc]
<1>1. /\ guest' = [guest EXCEPT ![g] = s] /\ r \in GuestRecord(Len(log)) /\ Replica(r)
      /\ UNCHANGED <<log, committed, conn, toGuest>> /\ r.run = "connecting" /\ r.link = "ready"
      /\ toHost' = [toHost EXCEPT ![g] = Append(@, q)]
      /\ toHost \in [Guests -> Seq(Outbox(Len(log)))] /\ Len(log) \in Nat
  BY GuestState DEF RequestResync, hostVars, Request
<1>2. q \in Outbox(Len(log)) /\ q.after = r.lastSeq
  BY <1>1, NewRequests DEF GuestRecord
<1> HIDE DEF r, q
<1>3. Asks(r, toHost[g], toHost'[g])
  <2>1. toHost'[g] = Append(toHost[g], q) /\ toHost[g] \in Seq(Outbox(Len(log)))
    BY <1>1
  <2> QED BY <1>1, <1>2, <2>1, AsksMore
<1>4. \A h \in Guests \ {g} : toHost'[h] = toHost[h]
  BY <1>1
<1>5. /\ s.phase = r.phase /\ s.queue = r.queue /\ s.run = "waiting" /\ s.buffer = r.buffer
      /\ s.lastSeq = r.lastSeq /\ s.link = r.link /\ r.phase # "out"
  BY <1>1 DEF GuestRecord, Replica
<1> HIDE DEF s
<1>6. Fetching(s) /\ Held(r) \subseteq Held(s)
  BY <1>1, <1>5 DEF Fetching, Held
<1>7. Keeps(r, s, toGuest[g], toGuest[g])
  BY <1>5, <1>6 DEF Keeps
<1> QED BY <1>1, <1>3, <1>4, <1>5, <1>7, KeptGap DEF r
-----------------------------------------------------------------------------
(* No message opens a gap.                                                 *)

\* The first message is gone, and the guest is s.
LEMMA ReceivedGap ==
    ASSUME ReplicaInv, ReplicaInv', Forward, GapInv, NEW g \in Guests, NEW s,
           toGuest[g] # <<>>, Becomes(g, s, Tail(toGuest[g])), UNCHANGED <<hostVars, toHost>>,
           s.link # "down", s.phase # "out",
           conn[g] = "accepted" => s.link \in {"opening", "auth"},
           s.phase \in Following =>
              /\ s.link \in {"opening", "auth"} => Fetching(s)
              /\ s.run = "waiting" \/ s.phase = "syncing" => s.link = "ready",
           Covered(conn[g], s, Tail(toGuest[g]), committed, Len(log))
    PROVE  GapInv'
<1> DEFINE r == guest[g]
           in == toGuest[g]
           rest == Tail(in)
           out == toHost[g]
           n == Len(log)
<1>1. /\ Linked(conn[g], r, in, out) /\ n \in Nat /\ in # <<>>
      /\ r.lastSeq \in Nat /\ guest'[g].lastSeq \in Nat /\ guest'[g].lastSeq >= r.lastSeq
      /\ in \in Seq(Inbox(n)) /\ out \in Seq(Outbox(n)) /\ log' = log /\ committed' = committed
      /\ toHost' = toHost
  BY GapState DEF hostVars
<1>2. /\ conn' = conn /\ guest' = [guest EXCEPT ![g] = s]
      /\ toGuest' = [toGuest EXCEPT ![g] = rest]
  BY BecomesUp
<1>3. /\ guest'[g] = s /\ toGuest'[g] = rest
      /\ \A h \in Guests \ {g} : guest'[h] = guest[h] /\ toGuest'[h] = toGuest[h]
  BY <1>2, GuestState
<1>4. /\ rest \in Seq(Inbox(n))
      /\ \A i \in DOMAIN rest : i + 1 \in DOMAIN in /\ i + 1 # 1 /\ rest[i] = in[i + 1]
  BY <1>1, TailElements
<1> HIDE DEF r, in, rest, out, n
<1>5. /\ \A i \in DOMAIN rest : rest[i].type # "accepted"
      /\ conn[g] # "pending"
  BY <1>1, <1>4 DEF Linked
<1>6. \A i \in DOMAIN rest : rest[i].type = "resync" => rest[i].from <= s.lastSeq
  <2> SUFFICES ASSUME NEW i \in DOMAIN rest, rest[i].type = "resync"
               PROVE  rest[i].from <= s.lastSeq
    OBVIOUS
  <2>1. rest[i] = in[i + 1] /\ i + 1 \in DOMAIN in
    BY <1>4
  <2>2. in[i + 1] \in Inbox(n)
    BY <1>1, <2>1, ElementOfSeq, LenProperties
  <2>3. rest[i].from \in Nat /\ rest[i].from <= r.lastSeq
    BY <1>1, <2>1, <2>2, MessageFacts DEF Linked
  <2> QED BY <1>1, <1>3, <2>3
<1>7. \A i \in DOMAIN out : out[i].type = "resync" => out[i].after <= s.lastSeq
  <2> SUFFICES ASSUME NEW i \in DOMAIN out, out[i].type = "resync"
               PROVE  out[i].after <= s.lastSeq
    OBVIOUS
  <2>1. out[i] \in Outbox(n)
    BY <1>1, ElementOfSeq, LenProperties
  <2>2. out[i].after \in Nat /\ out[i].after <= r.lastSeq
    BY <1>1, <2>1 DEF Outbox, Linked
  <2> QED BY <1>1, <1>3, <2>2
<1>8. conn[g] = "accepted" => \A i \in DOMAIN rest : rest[i].type = "accepted"
  BY <1>1, <1>4 DEF Linked
<1>9. Linked(conn[g], s, rest, out)
  BY <1>5, <1>6, <1>7, <1>8 DEF Linked
<1>10. Covered(conn[g], s, rest, committed, n)
  BY DEF rest, in, n
<1> QED BY <1>1, <1>2, <1>3, <1>9, <1>10, GuestGap DEF out, n

\* The message changed neither the socket, nor the phase, nor what runs.
LEMMA HeardGap ==
    ASSUME ReplicaInv, ReplicaInv', Forward, GapInv, NEW g \in Guests, NEW s,
           toGuest[g] # <<>>, Becomes(g, s, Tail(toGuest[g])), UNCHANGED <<hostVars, toHost>>,
           s.link = guest[g].link, s.phase = guest[g].phase, s.run = guest[g].run,
           s.phase \in Following => Keeps(guest[g], s, toGuest[g], Tail(toGuest[g]))
    PROVE  GapInv'
<1> DEFINE r == guest[g]
           in == toGuest[g]
           rest == Tail(in)
           n == Len(log)
<1>1. /\ Linked(conn[g], r, in, toHost[g]) /\ Covered(conn[g], r, in, committed, n) /\ n \in Nat
      /\ r.lastSeq \in Nat /\ guest'[g].lastSeq \in Nat /\ guest'[g].lastSeq >= r.lastSeq
      /\ in \in Seq(Inbox(n))
  BY GapState DEF hostVars
<1>2. r.link # "down" /\ r.phase # "out" /\ (conn[g] = "accepted" => r.link \in {"opening", "auth"})
  BY <1>1 DEF Linked
<1>3. guest'[g] = s
  BY GuestState DEF Becomes
<1>4. \A i \in DOMAIN rest : rest[i].type = "resync" => \E j \in DOMAIN in : in[j] = rest[i]
  BY <1>1, TailElements
<1>5. s.phase \in Following => Keeps(r, s, in, rest)
  OBVIOUS
<1>6. s.phase \in Following =>
         /\ s.link \in {"opening", "auth"} => Fetching(s)
         /\ s.run = "waiting" \/ s.phase = "syncing" => s.link = "ready"
  BY <1>1, <1>5 DEF Keeps, Linked
<1> HIDE DEF r, in, rest, n
<1>7. Covered(conn[g], s, rest, committed, n)
  <2>1. CASE s.phase \notin Following
    BY <2>1 DEF Covered
  <2>2. CASE s.phase \in Following
    BY <1>1, <1>3, <1>4, <1>5, <2>2, CoveredKept
  <2> QED BY <2>1, <2>2
<1>8. s.link # "down" /\ s.phase # "out" /\ (conn[g] = "accepted" => s.link \in {"opening", "auth"})
  BY <1>2 DEF r
<1> QED BY <1>6, <1>7, <1>8, ReceivedGap DEF r, in, rest, n

LEMMA TransactionGap ==
    ASSUME ReplicaInv, ReplicaInv', Forward, GapInv, NEW g \in Guests, toGuest[g] # <<>>,
           Head(toGuest[g]).type = "tx", UNCHANGED <<hostVars, toHost>>,
           Becomes(g, OnTransaction(guest[g], Head(toGuest[g]).seq), Tail(toGuest[g]))
    PROVE  GapInv'
<1> DEFINE r == guest[g]
           in == toGuest[g]
           seq == Head(in).seq
           s == OnTransaction(r, seq)
           n == Len(log)
<1>1. /\ r \in GuestRecord(n) /\ Replica(r) /\ log \in Seq(Batch) /\ n \in Nat
      /\ in \in Seq(Inbox(n)) /\ in # <<>> /\ r.queue \in Seq(Ops(n)) /\ r.buffer \in Seq(1..n)
  BY GuestState, ReplicaFacts DEF GuestRecord
<1>2. Txs(in) = {seq} \cup Txs(Tail(in)) /\ seq \in 1..n
  <2>1. Head(in) \in Inbox(n)
    BY <1>1, HeadTailProperties
  <2>2. seq \in 1..n
    BY <1>1, <2>1, MessageFacts
  <2> QED BY <1>1, <2>2, TailSeqs
<1>3. Becomes(g, s, Tail(in))
  OBVIOUS
<1> HIDE DEF r, in, seq, n
<1>4. CASE s = Left(r)
  <2>1. s.link = "down" /\ s.phase = "left"
    BY <1>1, <1>4, LeftMoves
  <2> HIDE DEF s
  <2> QED BY <1>3, <2>1, DropGap DEF Following, Bootstrapping, Attached
<1>5. CASE r.phase \in Bootstrapping /\ s # Left(r)
  <2> DEFINE buffer == Append(r.buffer, seq)
             t == [r EXCEPT !.buffer = buffer]
  <2>1. ToSet(buffer) = ToSet(r.buffer) \cup {seq}
    <3> DEFINE S == 1..n
    <3>1. r.buffer \in Seq(S) /\ seq \in S
      BY <1>1, <1>2
    <3> HIDE DEF S
    <3> QED BY <3>1, AppendSeqs
  <2>2. s = t
    BY <1>5 DEF OnTransaction
  <2> HIDE DEF s, buffer
  <2>3. /\ s.phase = r.phase /\ s.queue = r.queue /\ s.run = r.run /\ s.buffer = buffer
        /\ s.feed = r.feed /\ s.lastSeq = r.lastSeq /\ s.link = r.link /\ s.attempt = r.attempt
    BY <1>1, <2>2 DEF GuestRecord
  <2>4. Fetching(r) => Fetching(s)
    BY <2>3 DEF Fetching, QueuedFetch, ReconnectQueued
  <2>5. Held(s) = Held(r) \cup {seq}
    BY <1>5, <2>1, <2>3 DEF Held
  <2>6. Keeps(r, s, in, Tail(in))
    BY <1>2, <2>3, <2>4, <2>5 DEF Keeps
  <2> QED BY <1>1, <1>3, <2>3, <2>6, HeardGap DEF r, in
<1>6. CASE r.phase \in Attached
  <2> DEFINE o == [op |-> "peer", seq |-> seq]
             queue == Append(r.queue, o)
             t == [r EXCEPT !.queue = queue]
  <2>1. o \in Ops(n) /\ o.seq = seq
    BY <1>1, <1>2, NewOperations
  <2>2. s = t
    BY <1>6 DEF OnTransaction, Bootstrapping, Attached
  <2> HIDE DEF s, o, queue
  <2>3. /\ s.phase = r.phase /\ s.queue = queue /\ s.run = r.run /\ s.buffer = r.buffer
        /\ s.feed = r.feed /\ s.lastSeq = r.lastSeq /\ s.link = r.link /\ s.attempt = r.attempt
    BY <1>1, <2>2 DEF GuestRecord
  <2>4. (r.run # "idle" => r.queue # <<>>) /\ s.queue = Append(r.queue, o) /\ s.run = r.run
    BY <1>1, <2>3 DEF Replica, queue
  <2>5. /\ ReconnectQueued(s) <=> ReconnectQueued(r) \/ o.op = "recon"
        /\ QueuedFetch(s) <=> QueuedFetch(r) \/ o.op \in {"fence", "recon"}
        /\ Seqs(s.queue) = Seqs(r.queue) \cup {o.seq}
    BY <1>1, <2>1, <2>4, AppendOps
  <2>6. o.op = "peer"
    BY DEF o
  <2>7. Fetching(r) => Fetching(s)
    BY <2>3, <2>5, <2>6 DEF Fetching
  <2>8. Held(s) = Held(r) \cup {seq}
    BY <2>1, <2>3, <2>5 DEF Held
  <2>9. Keeps(r, s, in, Tail(in))
    BY <1>2, <2>3, <2>7, <2>8 DEF Keeps
  <2> QED BY <1>1, <1>3, <2>3, <2>9, HeardGap DEF r, in
<1>7. CASE r.phase \notin Bootstrapping \cup Attached
  <2>1. s = r /\ r.phase \notin Following
    BY <1>7 DEF OnTransaction, Following
  <2> HIDE DEF s
  <2> QED BY <1>1, <1>3, <2>1, HeardGap DEF r, in
<1> QED BY <1>4, <1>5, <1>6, <1>7

\* A message that is neither a transaction nor an answer to a resynchronisation.
LEMMA OtherHead ==
    ASSUME NEW n \in Nat, NEW in \in Seq(Inbox(n)), in # <<>>, Head(in).type # "tx"
    PROVE  Txs(in) = Txs(Tail(in))
BY TailSeqs, ZenonT(30)

LEMMA ResultGap ==
    ASSUME ReplicaInv, ReplicaInv', Forward, GapInv, NEW g \in Guests, toGuest[g] # <<>>,
           Head(toGuest[g]).type = "result", UNCHANGED <<hostVars, toHost>>,
           Becomes(g, OnResult(guest[g], Head(toGuest[g]).seq), Tail(toGuest[g]))
    PROVE  GapInv'
<1> DEFINE r == guest[g]
           in == toGuest[g]
           seq == Head(in).seq
           s == OnResult(r, seq)
           n == Len(log)
<1>1. /\ r \in GuestRecord(n) /\ Replica(r) /\ log \in Seq(Batch) /\ n \in Nat
      /\ in \in Seq(Inbox(n)) /\ in # <<>> /\ r.queue \in Seq(Ops(n))
  BY GuestState, ReplicaFacts
<1>2. Txs(in) = Txs(Tail(in)) /\ seq \in 1..n
  <2>1. Head(in) \in Inbox(n)
    BY <1>1, HeadTailProperties
  <2>2. seq \in 1..n
    BY <1>1, <2>1, MessageFacts
  <2> QED BY <1>1, <2>2, OtherHead
<1>3. Becomes(g, s, Tail(in))
  OBVIOUS
<1> HIDE DEF r, in, seq, n
<1>4. CASE r.sent = 0 \/ r.phase \notin Attached
  <2>1. s = r
    BY <1>4 DEF OnResult
  <2> HIDE DEF s
  <2>2. Keeps(r, s, in, Tail(in))
    BY <1>2, <2>1 DEF Keeps
  <2> QED BY <1>1, <1>3, <2>1, <2>2, HeardGap DEF r, in
<1>5. CASE ~(r.sent = 0 \/ r.phase \notin Attached)
  <2> DEFINE o == [op |-> "own", seq |-> seq]
             queue == Append(r.queue, o)
             t == [r EXCEPT !.sent = 0, !.queue = queue]
  <2>1. o \in Ops(n) /\ o.seq = seq
    BY <1>1, <1>2, NewOperations
  <2>2. s = t
    BY <1>5 DEF OnResult
  <2> HIDE DEF s, o, queue
  <2>3. /\ s.phase = r.phase /\ s.queue = queue /\ s.run = r.run /\ s.buffer = r.buffer
        /\ s.feed = r.feed /\ s.lastSeq = r.lastSeq /\ s.link = r.link /\ s.attempt = r.attempt
    BY <1>1, <2>2 DEF GuestRecord
  <2>4. (r.run # "idle" => r.queue # <<>>) /\ s.queue = Append(r.queue, o) /\ s.run = r.run
    BY <1>1, <2>3 DEF Replica, queue
  <2>5. /\ ReconnectQueued(s) <=> ReconnectQueued(r) \/ o.op = "recon"
        /\ QueuedFetch(s) <=> QueuedFetch(r) \/ o.op \in {"fence", "recon"}
        /\ Seqs(s.queue) = Seqs(r.queue) \cup {o.seq}
    BY <1>1, <2>1, <2>4, AppendOps
  <2>6. o.op = "own"
    BY DEF o
  <2>7. Fetching(r) => Fetching(s)
    BY <2>3, <2>5, <2>6 DEF Fetching
  <2>8. Held(s) = Held(r) \cup {seq}
    BY <2>1, <2>3, <2>5 DEF Held
  <2>9. Keeps(r, s, in, Tail(in))
    BY <1>2, <2>3, <2>7, <2>8 DEF Keeps
  <2> QED BY <1>1, <1>3, <2>3, <2>9, HeardGap DEF r, in
<1> QED BY <1>4, <1>5

LEMMA ErrorGap ==
    ASSUME ReplicaInv, ReplicaInv', Forward, GapInv, NEW g \in Guests, toGuest[g] # <<>>,
           Head(toGuest[g]).type = "error", UNCHANGED <<hostVars, toHost>>,
           Becomes(g, [guest[g] EXCEPT !.sent = 0], Tail(toGuest[g]))
    PROVE  GapInv'
<1> DEFINE r == guest[g]
           in == toGuest[g]
           s == [r EXCEPT !.sent = 0]
           n == Len(log)
<1>1. /\ r \in GuestRecord(n) /\ n \in Nat /\ in \in Seq(Inbox(n)) /\ in # <<>>
      /\ Becomes(g, s, Tail(in))
  BY GuestState
<1>2. Txs(in) = Txs(Tail(in))
  BY <1>1, OtherHead
<1> HIDE DEF r, in, n
<1>3. /\ s.phase = r.phase /\ s.queue = r.queue /\ s.run = r.run /\ s.buffer = r.buffer
      /\ s.feed = r.feed /\ s.lastSeq = r.lastSeq /\ s.link = r.link /\ s.attempt = r.attempt
  BY <1>1 DEF GuestRecord
<1> HIDE DEF s
<1>4. Fetching(r) => Fetching(s)
  BY <1>3 DEF Fetching, QueuedFetch, ReconnectQueued
<1>5. Held(s) = Held(r)
  BY <1>3 DEF Held
<1>6. Keeps(r, s, in, Tail(in))
  BY <1>2, <1>3, <1>4, <1>5 DEF Keeps
<1> QED BY <1>1, <1>3, <1>6, HeardGap DEF r, in

LEMMA RejectedGap ==
    ASSUME ReplicaInv, ReplicaInv', Forward, GapInv, NEW g \in Guests, NEW final, NEW rest,
           Becomes(g, OnRejected(guest[g], final), rest), UNCHANGED <<hostVars, toHost>>
    PROVE  GapInv'
<1> DEFINE r == guest[g]
           s == OnRejected(r, final)
<1>1. log \in Seq(Batch) /\ Replica(r)
  BY GuestState
<1>2. s.link = "down"
  BY <1>1, OnRejectedMoves
<1>3. s.phase \in Following => s.run # "waiting" /\ s.phase # "syncing"
  <2>1. CASE s = AfterDrop(r)
    BY <1>1, <2>1, FailedIsIdle
  <2>2. ASSUME NEW q, Replica(q), s = FailGuest(q)
        PROVE  s.phase \notin Following
    BY <1>1, <2>2, FailGuestMoves DEF Following, Bootstrapping, Attached
  <2>3. r.run = "connecting" => Replica(Finished(r))
    BY <1>1, FinishedMoves DEF Replica, Moves
  <2> QED BY <1>1, <2>1, <2>2, <2>3 DEF OnRejected
<1> HIDE DEF s
<1> QED BY <1>2, <1>3, DropGap DEF s

LEMMA ConnectedGap ==
    ASSUME ReplicaInv, ReplicaInv', Forward, GapInv, NEW g \in Guests, toGuest[g] # <<>>,
           UNCHANGED <<hostVars, toHost>>, NEW s, Becomes(g, s, Tail(toGuest[g])),
           \/ /\ Head(toGuest[g]).type = "accepted"
              /\ s = [guest[g] EXCEPT !.link = "auth", !.token = TRUE]
           \/ Head(toGuest[g]).type = "presence" /\ s = [guest[g] EXCEPT !.link = "ready"]
    PROVE  GapInv'
<1> DEFINE r == guest[g]
           in == toGuest[g]
           n == Len(log)
           rest == Tail(in)
<1>1. /\ r \in GuestRecord(n) /\ n \in Nat /\ in \in Seq(Inbox(n)) /\ in # <<>>
      /\ Linked(conn[g], r, in, toHost[g]) /\ Covered(conn[g], r, in, committed, n)
      /\ r.lastSeq \in Nat
  BY GuestState, GapState DEF hostVars
<1>2. Txs(in) = Txs(rest) /\ 1 \in DOMAIN in /\ Head(in) = in[1]
      /\ \A i \in DOMAIN rest : rest[i].type = "resync" => \E j \in DOMAIN in : in[j] = rest[i]
  BY <1>1, OtherHead, TailElements
<1>3. /\ s.phase = r.phase /\ s.queue = r.queue /\ s.run = r.run /\ s.buffer = r.buffer
      /\ s.feed = r.feed /\ s.lastSeq = r.lastSeq /\ s.attempt = r.attempt
      /\ s.link = IF Head(in).type = "accepted" THEN "auth" ELSE "ready"
  BY <1>1 DEF GuestRecord
<1>a. Head(in).type \in {"accepted", "presence"}
  OBVIOUS
<1> HIDE DEF r, in, n, rest
<1>4. Fetching(r) => Fetching(s)
  BY <1>3 DEF Fetching, QueuedFetch, ReconnectQueued
<1>5. Held(s) = Held(r)
  BY <1>3 DEF Held
<1>6. Keeps(r, s, in, rest)
  BY <1>2, <1>3, <1>4, <1>5 DEF Keeps
<1>7. /\ s.phase # "out" /\ s.link # "down"
      /\ conn[g] = "accepted" => s.link \in {"opening", "auth"}
  BY <1>1, <1>2, <1>3 DEF Linked
<1>8. s.phase \in Following =>
         /\ s.link \in {"opening", "auth"} => Fetching(s)
         /\ s.run = "waiting" \/ s.phase = "syncing" => s.link = "ready"
  <2>1. Head(in).type = "accepted" => r.link = "opening"
    BY <1>1, <1>2 DEF Linked
  <2> QED BY <1>1, <1>3, <1>4, <2>1 DEF Linked
<1>9. Covered(conn[g], s, rest, committed, n)
  <2>1. s.lastSeq \in Nat /\ s.lastSeq >= r.lastSeq
    BY <1>1, <1>3
  <2> QED BY <1>1, <1>2, <1>6, <2>1, CoveredKept
<1> QED BY <1>7, <1>8, <1>9, ReceivedGap DEF r, in, rest, n

\* The answer to a resynchronisation holds what the guest misses.
LEMMA AnswerGap ==
    ASSUME ReplicaInv, ReplicaInv', Forward, GapInv, NEW g \in Guests, toGuest[g] # <<>>,
           Head(toGuest[g]).type = "resync", UNCHANGED <<hostVars, toHost>>,
           Becomes(g, OnResync(guest[g], Head(toGuest[g])), Tail(toGuest[g]))
    PROVE  GapInv'
<1> DEFINE r == guest[g]
           in == toGuest[g]
           m == Head(in)
           rest == Tail(in)
           s == OnResync(r, m)
           n == Len(log)
<1>1. /\ r \in GuestRecord(n) /\ Replica(r) /\ log \in Seq(Batch) /\ n \in Nat
      /\ in \in Seq(Inbox(n)) /\ in # <<>> /\ r.lastSeq \in Nat
      /\ Linked(conn[g], r, in, toHost[g]) /\ Covered(conn[g], r, in, committed, n)
      /\ guest'[g].lastSeq \in Nat /\ guest'[g].lastSeq >= r.lastSeq
  BY GuestState, GapState DEF hostVars
<1>2. /\ Txs(in) = Txs(rest) /\ 1 \in DOMAIN in /\ m = in[1] /\ m.type = "resync"
      /\ \A i \in DOMAIN rest : rest[i].type = "resync" => \E j \in DOMAIN in : in[j] = rest[i]
  BY <1>1, OtherHead, TailElements
<1>3. m.from \in 0..n /\ m.to \in 0..n /\ m.from <= m.to /\ m.from <= r.lastSeq
  <2>1. m \in Inbox(n)
    BY <1>1, HeadTailProperties
  <2> QED BY <1>1, <1>2, <2>1, MessageFacts DEF Linked
<1>4. Becomes(g, s, rest) /\ guest'[g] = s
  BY GuestState DEF Becomes
<1>5. r.link # "down" /\ r.phase # "out"
  BY <1>1 DEF Linked
<1> HIDE DEF r, in, m, rest, n
<1>6. CASE r.phase = "syncing"
  <2> DEFINE doc == Revision(m.to)
             to == m.to
             t == [r EXCEPT !.phase = "cloning", !.doc = doc, !.lastSeq = to]
  <2>1. s = t
    BY <1>6 DEF OnResync
  <2>2. r.queue = <<>> /\ r.run = "idle" /\ r.attempt = 0 /\ r.link = "ready"
    BY <1>1, <1>6 DEF Replica, Linked, Following, Bootstrapping
  <2> HIDE DEF s, doc, to
  <2>3. /\ s.phase = "cloning" /\ s.queue = r.queue /\ s.run = r.run /\ s.buffer = r.buffer
        /\ s.feed = r.feed /\ s.lastSeq = to /\ s.link = r.link /\ s.attempt = r.attempt
    BY <1>1, <2>1 DEF GuestRecord
  <2>4. Held(s) = Held(r)
    BY <1>6, <2>3 DEF Held, Bootstrapping
  <2>5. to \in Nat /\ to >= r.lastSeq
    BY <1>1, <1>4, <2>3
  <2>6. \A seq \in Missing(s, n) : seq \in Missing(r, n) /\ ~(seq <= to)
    BY <1>1, <2>3, <2>5 DEF Missing
  <2>7. Expected(s, rest, committed) = Expected(r, in, committed)
    BY <1>2, <2>4 DEF Expected
  <2>8. Covered(conn[g], s, rest, committed, n)
    <3> SUFFICES ASSUME conn[g] = "ready"
                 PROVE  Covered(conn[g], s, rest, committed, n)
      BY DEF Covered
    <3>1. \A i \in DOMAIN in : in[i].type = "resync" =>
             \A seq \in Missing(r, n) : seq <= in[i].to \/ seq \in Expected(r, in, committed)
      BY <1>1, <1>6 DEF Covered, Following, Bootstrapping
    <3>2. Missing(s, n) \subseteq Expected(s, rest, committed)
      BY <1>2, <2>6, <2>7, <3>1 DEF to
    <3> QED BY <3>2 DEF Covered
  <2>9. s.phase # "out" /\ s.link = "ready" /\ conn[g] # "accepted"
    <3>1. conn[g] # "accepted"
      BY <1>1, <2>2 DEF Linked
    <3> QED BY <2>2, <2>3, <3>1
  <2> QED BY <1>1, <1>4, <2>8, <2>9, ReceivedGap DEF r, in, rest, n
<1>7. CASE r.phase # "syncing" /\ r.run # "waiting"
  <2>1. s = r
    BY <1>7 DEF OnResync
  <2> HIDE DEF s
  <2>2. Keeps(r, s, in, rest)
    BY <1>2, <2>1 DEF Keeps
  <2> QED BY <1>1, <1>4, <2>1, <2>2, HeardGap DEF r, in, rest
<1>8. CASE r.phase # "syncing" /\ r.run = "waiting" /\ m.snapshot
  <2>1. s = OperationFails(r) /\ r.queue # <<>>
    BY <1>1, <1>8 DEF OnResync, Replica
  <2>2. s.link = "down" /\ (s.phase \in Following => s.run # "waiting" /\ s.phase # "syncing")
    BY <1>1, <2>1, FailedIsIdle
  <2> HIDE DEF s
  <2> QED BY <1>4, <2>2, DropGap
<1>9. CASE r.phase # "syncing" /\ r.run = "waiting" /\ ~m.snapshot
  <2> DEFINE feed == [i \in 1..(m.to - m.from) |-> m.from + i]
             t == [r EXCEPT !.run = "applying", !.feed = feed]
  <2>1. s = t
    BY <1>9 DEF OnResync
  <2>2. r.phase \notin {"out"} \cup Bootstrapping
    BY <1>1, <1>9 DEF Replica
  <2>3. \A seq \in Int : m.from < seq /\ seq <= m.to => seq \in ToSet(feed)
    <3> SUFFICES ASSUME NEW seq \in Int, m.from < seq, seq <= m.to
                 PROVE  seq \in ToSet(feed)
      OBVIOUS
    <3>1. seq - m.from \in 1..(m.to - m.from) /\ m.from + (seq - m.from) = seq
      BY <1>1, <1>3
    <3>2. seq - m.from \in DOMAIN feed /\ feed[seq - m.from] = seq
      BY <3>1
    <3> QED BY <3>2 DEF ToSet
  <2> HIDE DEF s, feed
  <2>4. /\ s.phase = r.phase /\ s.queue = r.queue /\ s.run = "applying" /\ s.buffer = r.buffer
        /\ s.feed = feed /\ s.lastSeq = r.lastSeq /\ s.link = r.link /\ s.attempt = r.attempt
    BY <1>1, <2>1 DEF GuestRecord
  <2>5. Held(s) = Held(r) \cup ToSet(feed)
    BY <1>9, <2>2, <2>4 DEF Held
  <2>6. Expected(s, rest, committed) = Expected(r, in, committed) \cup ToSet(feed)
    BY <1>2, <2>5 DEF Expected
  <2>7. Covered(conn[g], s, rest, committed, n)
    <3> SUFFICES ASSUME conn[g] = "ready", s.phase \in Following
                 PROVE  Covered(conn[g], s, rest, committed, n)
      BY DEF Covered
    <3>1. \A i \in DOMAIN in : in[i].type = "resync" =>
             \A seq \in Missing(r, n) : seq <= in[i].to \/ seq \in Expected(r, in, committed)
      BY <1>1, <2>4 DEF Covered
    <3>2. ASSUME NEW seq \in Missing(s, n)
          PROVE  seq \in Expected(s, rest, committed)
      <4>1. seq \in Missing(r, n) /\ seq \in Int /\ seq > r.lastSeq
        BY <1>1, <2>4 DEF Missing
      <4>2. seq <= m.to \/ seq \in Expected(r, in, committed)
        BY <1>2, <3>1, <4>1
      <4>3. m.from < seq
        BY <1>1, <1>3, <4>1
      <4> QED BY <2>3, <2>6, <4>1, <4>2, <4>3
    <3> QED BY <3>2 DEF Covered
  <2>8. s.phase \in Following => s.link = "ready"
    BY <1>1, <1>9, <2>4 DEF Linked
  <2>9. conn[g] # "accepted"
    BY <1>1, <1>2 DEF Linked
  <2> QED BY <1>1, <1>4, <1>5, <2>4, <2>7, <2>8, <2>9, ReceivedGap DEF r, in, rest, n
<1> QED BY <1>6, <1>7, <1>8, <1>9

LEMMA ReceiveGap ==
    ASSUME ReplicaInv, ReplicaInv', Forward, GapInv, NEW g \in Guests, Receive(g)
    PROVE  GapInv'
<1> DEFINE r == guest[g]
           m == Head(toGuest[g])
           s == CASE m.type = "accepted" -> [r EXCEPT !.link = "auth", !.token = TRUE]
                  [] m.type = "presence" -> [r EXCEPT !.link = "ready"]
                  [] m.type = "rejected" -> OnRejected(r, m.final)
                  [] m.type = "tx"       -> OnTransaction(r, m.seq)
                  [] m.type = "result"   -> OnResult(r, m.seq)
                  [] m.type = "error"    -> [r EXCEPT !.sent = 0]
                  [] m.type = "resync"   -> OnResync(r, m)
<1>1. /\ toGuest[g] # <<>> /\ toGuest[g] \in Seq(Inbox(Len(log))) /\ Len(log) \in Nat
      /\ Becomes(g, s, Tail(toGuest[g])) /\ UNCHANGED <<hostVars, toHost>>
  BY GuestState DEF Receive
<1>2. m.type \in {"accepted", "presence", "rejected", "tx", "result", "error", "resync"}
  <2>1. m \in Inbox(Len(log))
    BY <1>1, HeadTailProperties
  <2> QED BY <1>1, <2>1, MessageFacts
<1>3. CASE m.type = "accepted" \/ m.type = "presence"
  <2>1. \/ m.type = "accepted" /\ s = [r EXCEPT !.link = "auth", !.token = TRUE]
        \/ m.type = "presence" /\ s = [r EXCEPT !.link = "ready"]
    BY <1>3
  <2> HIDE DEF s
  <2> QED BY <1>1, <2>1, ConnectedGap
<1>4. CASE m.type = "rejected"
  <2>1. s = OnRejected(r, m.final)
    BY <1>4
  <2> HIDE DEF s
  <2> QED BY <1>1, <2>1, RejectedGap
<1>5. CASE m.type = "tx"
  <2>1. s = OnTransaction(r, m.seq)
    BY <1>5
  <2> HIDE DEF s
  <2> QED BY <1>1, <1>5, <2>1, TransactionGap
<1>6. CASE m.type = "result"
  <2>1. s = OnResult(r, m.seq)
    BY <1>6
  <2> HIDE DEF s
  <2> QED BY <1>1, <1>6, <2>1, ResultGap
<1>7. CASE m.type = "error"
  <2>1. s = [r EXCEPT !.sent = 0]
    BY <1>7
  <2> HIDE DEF s
  <2> QED BY <1>1, <1>7, <2>1, ErrorGap
<1>8. CASE m.type = "resync"
  <2>1. s = OnResync(r, m)
    BY <1>8
  <2> HIDE DEF s
  <2> QED BY <1>1, <1>8, <2>1, AnswerGap
<1> QED BY <1>2, <1>3, <1>4, <1>5, <1>6, <1>7, <1>8

LEMMA DropsGap ==
    ASSUME ReplicaInv, ReplicaInv', Forward, GapInv, NEW g \in Guests, Drop(g) \/ GuestNotices(g)
    PROVE  GapInv'
<1> DEFINE r == guest[g]
<1>1. PICK s \in AfterClose(r) : Becomes(g, s, <<>>) /\ UNCHANGED <<hostVars, toHost>>
  BY DEF Drop, GuestNotices
<1>2. log \in Seq(Batch) /\ Replica(r) /\ Linked(conn[g], r, toGuest[g], toHost[g])
  BY <1>1, GapState DEF hostVars
<1> HIDE DEF r
<1>3. s.link = "down" /\ (s.phase \in Following => s.run # "waiting" /\ s.phase # "syncing")
  <2>1. CASE s = AfterDrop(r)
    BY <1>2, <2>1, FailedIsIdle
  <2>2. CASE s \in AfterSilence(r) /\ r.link = "auth"
    <3>1. s.link = "down" /\ s.phase = r.phase /\ (r.run # "waiting" => s.run # "waiting")
      BY <1>2, <2>2, AfterSilenceMoves
    <3>2. r.phase \in Following => r.run # "waiting" /\ r.phase # "syncing"
      BY <1>2, <2>2 DEF Linked
    <3> QED BY <3>1, <3>2
  <2> QED BY <1>1, <2>1, <2>2 DEF AfterClose
<1> QED BY <1>1, <1>3, GuestState, DropGap DEF r

\* A submission of the guest is sent, or is given up.
LEMMA SentGap ==
    ASSUME ReplicaInv, ReplicaInv', Forward, GapInv, NEW g \in Guests, NEW b,
           guest' = [guest EXCEPT ![g] = [guest[g] EXCEPT !.sent = b]],
           UNCHANGED <<log, committed, conn, toGuest>>, guest[g].phase # "out",
           \A h \in Guests \ {g} : toHost'[h] = toHost[h],
           Asks(guest[g], toHost[g], toHost'[g])
    PROVE  GapInv'
<1> DEFINE r == guest[g]
           s == [r EXCEPT !.sent = b]
<1>1. r \in GuestRecord(Len(log)) /\ guest' = [guest EXCEPT ![g] = s]
  BY GuestState
<1> HIDE DEF r
<1>2. /\ s.phase = r.phase /\ s.queue = r.queue /\ s.run = r.run /\ s.buffer = r.buffer
      /\ s.feed = r.feed /\ s.lastSeq = r.lastSeq /\ s.link = r.link /\ s.attempt = r.attempt
  BY <1>1 DEF GuestRecord
<1>3. /\ r.phase # "out" /\ UNCHANGED <<log, committed, conn, toGuest>>
      /\ Asks(r, toHost[g], toHost'[g]) /\ \A h \in Guests \ {g} : toHost'[h] = toHost[h]
  BY DEF r
<1> HIDE DEF s
<1>4. /\ s.phase # "out" /\ (s.phase \in Following => r.phase \in Following)
      /\ (r.phase \in Bootstrapping => s.phase \in Bootstrapping)
      /\ (r.phase \in {"connecting", "syncing"} => s.phase \in {"connecting", "syncing"})
      /\ (r.attempt > 0 => s.attempt > 0)
      /\ (s.phase = "syncing" => s.link = "ready" \/ r.phase = "syncing")
  BY <1>2, <1>3
<1> QED BY <1>1, <1>2, <1>3, <1>4, SameGap DEF r

LEMMA SubmitGap ==
    ASSUME ReplicaInv, ReplicaInv', Forward, GapInv, NEW g \in Guests, Submit(g)
    PROVE  GapInv'
<1> DEFINE r == guest[g]
           b == batches + 1
           q == [type |-> "submit", batch |-> b]
<1>1. /\ UNCHANGED <<log, committed, conn, toGuest>> /\ r.phase # "out"
      /\ batches \in 0..MaxBatches /\ batches < MaxBatches
      /\ toHost' = [toHost EXCEPT ![g] = Append(@, q)]
      /\ toHost \in [Guests -> Seq(Outbox(Len(log)))] /\ Len(log) \in Nat
  BY GuestState DEF Submit, Request, ReplicaInv, ChannelTypes
<1>2. guest' = [guest EXCEPT ![g] = [r EXCEPT !.sent = b]]
  BY GuestState DEF Submit
<1>3. b \in Batch
  BY <1>1, LimitsAssumption DEF Batch
<1>4. q \in Outbox(Len(log)) /\ q.type = "submit"
  BY <1>1, <1>3, NewRequests
<1> HIDE DEF q, r, b
<1>5. Asks(r, toHost[g], toHost'[g])
  <2>1. toHost'[g] = Append(toHost[g], q) /\ toHost[g] \in Seq(Outbox(Len(log)))
    BY <1>1
  <2> QED BY <1>1, <1>4, <2>1, AsksMore
<1>6. \A h \in Guests \ {g} : toHost'[h] = toHost[h]
  BY <1>1
<1> QED BY <1>1, <1>2, <1>5, <1>6, SentGap DEF r

LEMMA TimeoutGap ==
    ASSUME ReplicaInv, ReplicaInv', Forward, GapInv, NEW g \in Guests, Timeout(g)
    PROVE  GapInv'
<1> DEFINE r == guest[g]
           s == [r EXCEPT !.sent = 0]
<1>1. log \in Seq(Batch) /\ Replica(r) /\ r \in GuestRecord(Len(log)) /\ UNCHANGED <<hostVars, toHost>>
  BY GuestState DEF Timeout
<1>2. CASE Becomes(g, Left(r), <<>>)
  <2>1. Left(r).link = "down" /\ Left(r).phase = "left"
    BY <1>1, LeftMoves
  <2> HIDE DEF r
  <2> QED BY <1>1, <1>2, <2>1, DropGap DEF Following, Bootstrapping, Attached
<1>3. CASE r.run = "waiting" /\ Becomes(g, OperationFails(r), <<>>)
  <2>1. r.queue # <<>>
    BY <1>1, <1>3 DEF Replica
  <2>2. /\ OperationFails(r).link = "down"
        /\ OperationFails(r).phase \in Following =>
              OperationFails(r).run # "waiting" /\ OperationFails(r).phase # "syncing"
    BY <1>1, <2>1, FailedIsIdle
  <2> HIDE DEF r
  <2> QED BY <1>1, <1>3, <2>2, DropGap
<1>4. CASE r.sent # 0 /\ Becomes(g, s, toGuest[g])
  <2>1. s.link = r.link /\ s.phase = r.phase /\ s.run = r.run
    BY <1>1 DEF GuestRecord
  <2>2. CASE r.link = "down"
    <3>1. Linked(conn[g], r, toGuest[g], toHost[g])
      BY <1>1, GapState DEF hostVars
    <3>2. s.phase \in Following => s.run # "waiting" /\ s.phase # "syncing"
      BY <2>1, <2>2, <3>1 DEF Linked
    <3> HIDE DEF s
    <3> QED BY <1>1, <1>4, <2>1, <2>2, <3>2, DropGap
  <2>3. CASE r.link # "down"
    <3>1. r.phase # "out" /\ toGuest \in [Guests -> Seq(Inbox(Len(log)))]
      BY <1>1, <2>3, GapState, GuestState DEF Linked, hostVars
    <3>2. conn' = conn /\ guest' = [guest EXCEPT ![g] = s] /\ toGuest' = toGuest
      <4> HIDE DEF s
      <4> QED BY <1>4, <2>1, <2>3, <3>1, BecomesUp
    <3> QED BY <1>1, <3>1, <3>2, SentGap, AsksSame DEF hostVars
  <2> QED BY <2>2, <2>3
<1> QED BY <1>2, <1>3, <1>4 DEF Timeout
-----------------------------------------------------------------------------
(* No step of the server opens a gap.                                      *)

LEMMA Single ==
    ASSUME NEW m
    PROVE  /\ Append(<<>>, m) = <<m>> /\ DOMAIN <<m>> = {1} /\ <<m>>[1] = m
           /\ DOMAIN <<>> = {}
OBVIOUS

\* A message more for one guest, or none.
LEMMA SendOthers ==
    ASSUME ReplicaInv, NEW g \in Guests, NEW m, Send(g, m)
    PROVE  /\ toGuest'[g] = Append(toGuest[g], m)
           /\ \A h \in Guests \ {g} : toGuest'[h] = toGuest[h]
BY GuestState DEF Send

\* Without its socket a connection that is not ready covers nothing.
LEMMA AuthGap ==
    ASSUME ReplicaInv, ReplicaInv', Forward, GapInv, NEW g \in Guests,
           Authenticate(g) \/ DecideJoin(g)
    PROVE  GapInv'
<1> DEFINE r == guest[g]
           s == guest'[g]
           in == toGuest'[g]
           c == conn'[g]
<1>1. /\ UNCHANGED <<log, committed, toHost>> /\ r \in GuestRecord(Len(log))
      /\ Linked(conn[g], r, toGuest[g], toHost[g]) /\ guest \in [Guests -> GuestRecord(Len(log))]
      /\ conn \in [Guests -> {"none", "pending", "accepted", "ready", "stale"}]
      /\ toGuest \in [Guests -> Seq(Inbox(Len(log)))]
  <2>1. log' = log
    BY DEF Authenticate, DecideJoin, hostVars
  <2> QED BY <2>1, GapState, GuestState DEF Authenticate, DecideJoin, hostVars
<1>2. r.link = "opening" /\ toGuest[g] = <<>>
  BY <1>1 DEF Authenticate, DecideJoin, Linked
<1>3. /\ \/ c \in {"accepted", "stale", "pending"} /\ in = <<>> /\ c # "accepted"
         \/ c = "accepted" /\ in = <<[type |-> "accepted"]>>
         \/ c = "stale" /\ \E f \in BOOLEAN : in = <<[type |-> "rejected", final |-> f]>>
      /\ \A h \in Guests \ {g} : conn'[h] = conn[h] /\ toGuest'[h] = toGuest[h]
  <2>1. CASE Admit(g)
    <3>1. c = "accepted" /\ \A h \in Guests \ {g} : conn'[h] = conn[h]
      BY <1>1, <2>1 DEF Admit
    <3>2. Send(g, [type |-> "accepted"])
      BY <2>1 DEF Admit
    <3> QED BY <1>2, <3>1, <3>2, SendOthers, Single
  <2>2. CASE \E f \in BOOLEAN : Reject(g, f) /\ c = "stale"
    <3>1. PICK f \in BOOLEAN : Reject(g, f) /\ c = "stale"
      BY <2>2
    <3>2. in = <<[type |-> "rejected", final |-> f]>>
          /\ \A h \in Guests \ {g} : toGuest'[h] = toGuest[h]
      BY <1>2, <3>1, SendOthers, Single DEF Reject
    <3>3. \A h \in Guests \ {g} : conn'[h] = conn[h]
      BY <1>1 DEF Authenticate, DecideJoin, Admit
    <3> QED BY <3>1, <3>2, <3>3
  <2>3. CASE conn' = [conn EXCEPT ![g] = "pending"] /\ toGuest' = toGuest
    BY <1>1, <1>2, <2>3
  <2> QED BY <1>1, <2>1, <2>2, <2>3 DEF Authenticate, DecideJoin
<1>4. /\ \A h \in Guests \ {g} : guest'[h] = guest[h]
      /\ s = r \/ s = [r EXCEPT !.token = FALSE]
  BY <1>1 DEF Authenticate, DecideJoin
<1>5. \A h \in Guests \ {g} : toHost'[h] = toHost[h] /\ toHost'[g] = toHost[g]
  BY <1>1
<1> HIDE DEF s, in, c, r
<1>6. /\ s.phase = r.phase /\ s.queue = r.queue /\ s.run = r.run
      /\ s.lastSeq = r.lastSeq /\ s.link = r.link /\ s.attempt = r.attempt
  BY <1>1, <1>4 DEF GuestRecord
<1>7. Fetching(s) <=> Fetching(r)
  BY <1>6 DEF Fetching, QueuedFetch, ReconnectQueued
<1>8. /\ \A i \in DOMAIN in : i = 1 /\ in[i].type \in {"accepted", "rejected"}
      /\ c = "accepted" => \A i \in DOMAIN in : in[i].type = "accepted"
      /\ c = "pending" => in = <<>>
  BY <1>3, Single
<1>9. c \notin {"ready", "none"}
  BY <1>3
<1>10. Linked(c, s, in, toHost[g])
  BY <1>1, <1>2, <1>6, <1>7, <1>8, <1>9 DEF Linked, r
<1>11. Covered(c, s, in, committed, Len(log))
  BY <1>9 DEF Covered
<1> QED BY <1>1, <1>3, <1>4, <1>5, <1>10, <1>11, GuestGap DEF s, in, c

\* A message that is no resynchronisation, and no acceptance, is sent: the
\* connection becomes ready, or already was.
LEMMA SendGap ==
    ASSUME ReplicaInv, ReplicaInv', Forward, GapInv, NEW g \in Guests,
           NEW m \in Inbox(Len(log)), Send(g, m), m.type # "accepted",
           UNCHANGED <<log, committed, guest>>,
           \A h \in Guests \ {g} : toHost'[h] = toHost[h] /\ conn'[h] = conn[h],
           conn'[g] = "ready", guest[g].link # "down",
           \A i \in DOMAIN toHost'[g] : \E j \in DOMAIN toHost[g] : toHost'[g][i] = toHost[g][j],
           m.type = "resync" => m.from <= guest[g].lastSeq /\ m.to = Len(log),
           \/ conn[g] = "ready"
           \/ /\ \A i \in DOMAIN toGuest[g] : toGuest[g][i].type # "resync"
              /\ guest[g].phase \in Following => Fetching(guest[g])
    PROVE  GapInv'
<1> DEFINE r == guest[g]
           in == toGuest[g]
           rest == toGuest'[g]
           out == toHost[g]
           more == toHost'[g]
           n == Len(log)
           k == Len(in) + 1
<1>1. /\ Linked(conn[g], r, in, out) /\ Covered(conn[g], r, in, committed, n)
      /\ in \in Seq(Inbox(n)) /\ n \in Nat /\ r.lastSeq \in Nat
  BY GapState
<1>2. /\ \A h \in Guests \ {g} : toGuest'[h] = toGuest[h] /\ guest'[h] = guest[h]
      /\ rest = Append(in, m) /\ guest'[g] = r
  BY SendOthers
<1>3. /\ \A i \in DOMAIN in : rest[i] = in[i] /\ i \in DOMAIN rest
      /\ rest[k] = m /\ \A i \in DOMAIN rest : i \in DOMAIN in \/ i = k
  BY <1>1, <1>2, AppendElements
<1>4. Txs(in) \subseteq Txs(rest)
  BY <1>1, <1>2, AppendSeqs
<1>5. /\ \A i \in DOMAIN more : \E j \in DOMAIN out : more[i] = out[j]
      /\ m.type = "resync" => m.from <= r.lastSeq /\ m.to = n
      /\ m.type # "accepted" /\ r.link # "down"
      /\ \/ conn[g] = "ready"
         \/ /\ \A i \in DOMAIN in : in[i].type # "resync"
            /\ r.phase \in Following => Fetching(r)
  OBVIOUS
<1> HIDE DEF r, in, rest, out, more, n, k
<1>6. \A i \in DOMAIN more : more[i].type = "resync" => more[i].after <= r.lastSeq
  BY <1>1, <1>5 DEF Linked
<1>7. Linked("ready", r, rest, more)
  BY <1>1, <1>3, <1>5, <1>6 DEF Linked
<1>8. Expected(r, in, committed) \subseteq Expected(r, rest, committed)
  BY <1>4 DEF Expected
<1>9. Covered("ready", r, rest, committed, n)
  <2> SUFFICES ASSUME r.phase \in Following
               PROVE  /\ \A i \in DOMAIN rest : rest[i].type = "resync" =>
                           \A seq \in Missing(r, n) :
                              seq <= rest[i].to \/ seq \in Expected(r, rest, committed)
                      /\ ~Fetching(r) => Missing(r, n) \subseteq Expected(r, rest, committed)
    BY DEF Covered
  <2>1. ASSUME NEW i \in DOMAIN rest, rest[i].type = "resync", NEW seq \in Missing(r, n)
        PROVE  seq <= rest[i].to \/ seq \in Expected(r, rest, committed)
    <3>1. CASE i = k
      BY <1>1, <1>3, <1>5, <2>1, <3>1 DEF Missing
    <3>2. CASE i \in DOMAIN in
      BY <1>3, <1>5, <1>1, <1>8, <2>1, <3>2 DEF Covered
    <3> QED BY <1>3, <3>1, <3>2
  <2>2. ~Fetching(r) => Missing(r, n) \subseteq Expected(r, rest, committed)
    BY <1>1, <1>5, <1>8 DEF Covered
  <2> QED BY <2>1, <2>2
<1> QED BY <1>2, <1>7, <1>9, GuestGap DEF r, in, rest, out, more, n

LEMMA BootstrapGap ==
    ASSUME ReplicaInv, ReplicaInv', Forward, GapInv, NEW g \in Guests, Bootstrap(g)
    PROVE  GapInv'
<1> DEFINE m == [type |-> "presence"]
<1>1. /\ UNCHANGED <<log, committed, toHost, guest>> /\ conn[g] = "accepted" /\ Send(g, m)
      /\ conn'[g] = "ready" /\ \A h \in Guests \ {g} : conn'[h] = conn[h]
  BY GuestState DEF Bootstrap, hostVars
<1>2. m \in Inbox(Len(log)) /\ m.type = "presence"
  BY GuestState, NewMessages
<1>3. Linked(conn[g], guest[g], toGuest[g], toHost[g])
  BY <1>1, GapState
<1>4. /\ \A i \in DOMAIN toGuest[g] : toGuest[g][i].type # "resync"
      /\ guest[g].phase \in Following => Fetching(guest[g])
      /\ guest[g].link # "down"
  BY <1>1, <1>3 DEF Linked
<1> HIDE DEF m
<1>5. \A h \in Guests \ {g} : toHost'[h] = toHost[h] /\ conn'[h] = conn[h]
  BY <1>1
<1>6. \A i \in DOMAIN toHost'[g] : \E j \in DOMAIN toHost[g] : toHost'[g][i] = toHost[g][j]
  BY <1>1
<1> QED BY <1>1, <1>2, <1>4, <1>5, <1>6, SendGap

\* The server stops with some requests, and nothing else changes for the guests.
LEMMA FewerGap ==
    ASSUME ReplicaInv, ReplicaInv', Forward, GapInv, NEW g \in Guests,
           UNCHANGED <<log, committed, guest, conn, toGuest>>,
           \A h \in Guests \ {g} : toHost'[h] = toHost[h],
           \A i \in DOMAIN toHost'[g] : \E j \in DOMAIN toHost[g] : toHost'[g][i] = toHost[g][j]
    PROVE  GapInv'
<1> DEFINE r == guest[g]
           in == toGuest[g]
           out == toHost[g]
           more == toHost'[g]
<1>1. /\ Linked(conn[g], r, in, out) /\ Covered(conn[g], r, in, committed, Len(log))
      /\ \A i \in DOMAIN more : \E j \in DOMAIN out : more[i] = out[j]
  BY GapState
<1>2. /\ \A h \in Guests \ {g} : /\ conn'[h] = conn[h] /\ guest'[h] = guest[h]
                                 /\ toGuest'[h] = toGuest[h] /\ toHost'[h] = toHost[h]
      /\ conn'[g] = conn[g] /\ guest'[g] = r /\ toGuest'[g] = in
  OBVIOUS
<1> HIDE DEF r, in, out, more
<1>3. \A i \in DOMAIN more : more[i].type = "resync" => more[i].after <= r.lastSeq
  BY <1>1 DEF Linked
<1>4. Linked(conn[g], r, in, more)
  BY <1>1, <1>3 DEF Linked
<1> QED BY <1>1, <1>2, <1>4, GuestGap DEF more

LEMMA HandleRequestGap ==
    ASSUME ReplicaInv, ReplicaInv', Forward, GapInv, NEW g \in Guests, HandleRequest(g)
    PROVE  GapInv'
<1> DEFINE out == toHost[g]
           req == Head(out)
           n == Len(log)
<1>1. /\ UNCHANGED <<log, committed, guest, conn>> /\ out # <<>>
      /\ toHost' = [toHost EXCEPT ![g] = Tail(out)] /\ n \in Nat
      /\ toHost \in [Guests -> Seq(Outbox(n))]
  BY GuestState DEF HandleRequest
<1>2. /\ Linked(conn[g], guest[g], toGuest[g], out) /\ out \in Seq(Outbox(n))
  BY <1>1, GapState
<1>3. toHost'[g] = Tail(out) /\ \A h \in Guests \ {g} : toHost'[h] = toHost[h]
  BY <1>1
<1>a. \/ toGuest' = toGuest
      \/ /\ conn[g] # "stale" /\ conn[g] \in {"ready", "stale"}
         /\ \/ req.type = "resync" /\ Send(g, Answer(g, req))
            \/ Send(g, [type |-> "error"])
  BY DEF HandleRequest
<1> HIDE DEF out
<1>4. /\ req \in Outbox(n) /\ 1 \in DOMAIN out /\ req = out[1]
      /\ \A i \in DOMAIN Tail(out) : \E j \in DOMAIN out : Tail(out)[i] = out[j]
  <2> DEFINE S == Outbox(n)
  <2>1. out \in Seq(S) /\ out # <<>>
    BY <1>1, <1>2
  <2> HIDE DEF S
  <2>2. /\ Head(out) \in S /\ 1 \in DOMAIN out /\ Head(out) = out[1]
        /\ \A i \in DOMAIN Tail(out) : i + 1 \in DOMAIN out /\ Tail(out)[i] = out[i + 1]
    BY <2>1, TailElements
  <2> QED BY <2>2 DEF S
<1> HIDE DEF req
<1>5. \A i \in DOMAIN toHost'[g] : \E j \in DOMAIN toHost[g] : toHost'[g][i] = toHost[g][j]
  BY <1>3, <1>4 DEF out
<1>6. CASE toGuest' = toGuest
  BY <1>1, <1>3, <1>5, <1>6, FewerGap
<1>7. ASSUME NEW m \in Inbox(n), Send(g, m), conn[g] = "ready", m.type # "accepted",
             m.type = "resync" => m.from <= guest[g].lastSeq /\ m.to = n
      PROVE  GapInv'
  <2>1. guest[g].link # "down"
    BY <1>2, <1>7 DEF Linked
  <2>2. /\ \A h \in Guests \ {g} : toHost'[h] = toHost[h] /\ conn'[h] = conn[h]
        /\ conn'[g] = "ready"
    BY <1>1, <1>3, <1>7
  <2> QED BY <1>1, <1>5, <1>7, <2>1, <2>2, SendGap
<1>8. CASE conn[g] = "ready" /\ req.type = "resync" /\ Send(g, Answer(g, req))
  <2> DEFINE m == Answer(g, req)
  <2>1. req.after \in 0..n /\ req.after <= guest[g].lastSeq
    BY <1>1, <1>2, <1>4, <1>8 DEF Linked, Outbox
  <2>2. m \in Inbox(n) /\ m.type = "resync" /\ m.from = req.after /\ m.to = n
    BY <1>1, <2>1 DEF Answer, Inbox
  <2> HIDE DEF m
  <2>3. Send(g, m)
    BY <1>8 DEF m
  <2> HIDE DEF n
  <2> QED BY <1>7, <1>8, <2>1, <2>2, <2>3
<1>9. CASE conn[g] = "ready" /\ Send(g, [type |-> "error"])
  <2> DEFINE m == [type |-> "error"]
  <2>1. m \in Inbox(n) /\ m.type = "error" /\ Send(g, m)
    BY <1>1, <1>9, NewMessages
  <2> HIDE DEF m, n
  <2> QED BY <1>7, <1>9, <2>1
<1> QED BY <1>a, <1>6, <1>8, <1>9
-----------------------------------------------------------------------------
(* No step of the host opens a gap.                                        *)

\* What a guest misses of a longer log is in what was decided last.
LEMMA DecideGap ==
    ASSUME ReplicaInv, ReplicaInv', Forward, GapInv, Decide
    PROVE  GapInv'
<1> DEFINE n == Len(log)
           k == Len(log')
           e == IF log' = log THEN 0 ELSE n + 1
           d == [by |-> Head(engine).by, seq |-> e]
<1>1. /\ UNCHANGED <<conn, toHost, toGuest, guest>> /\ n \in Nat /\ log \in Seq(Batch)
      /\ committed \in Seq(Decision(n))
  BY HostState DEF Decide
<1>2. \/ log' = log /\ committed' = Append(committed, d) /\ k = n
      \/ k = n + 1 /\ committed' = Append(committed, d) /\ d.seq = k
  <2>1. CASE log' = log
    <3>1. Len(Append(log, Head(engine).batch)) = n + 1
      BY <1>1
    <3> QED BY <1>1, <2>1, <3>1 DEF Decide
  <2>2. CASE log' # log
    <3>1. log' = Append(log, Head(engine).batch)
          /\ committed' = Append(committed, [by |-> Head(engine).by, seq |-> n + 1])
      BY <2>2 DEF Decide
    <3>2. k = n + 1
      BY <1>1, <3>1
    <3> QED BY <2>2, <3>1, <3>2
  <2> QED BY <2>1, <2>2
<1>3. /\ committed' = Append(committed, d)
      /\ \/ k = n
         \/ k = n + 1 /\ d.seq = k
  BY <1>2
<1> HIDE DEF d, e
<1>4. Seqs(committed') = Seqs(committed) \cup {d.seq}
  <2>1. ASSUME NEW i \in DOMAIN committed
        PROVE  i \in DOMAIN Append(committed, d) /\ Append(committed, d)[i] = committed[i]
    BY <1>1, <2>1
  <2>2. /\ DOMAIN committed = 1..Len(committed) /\ Len(committed) \in Nat
        /\ DOMAIN Append(committed, d) = 1..(Len(committed) + 1)
        /\ Append(committed, d)[Len(committed) + 1] = d
    BY <1>1
  <2>3. ASSUME NEW i \in DOMAIN Append(committed, d)
        PROVE  Append(committed, d)[i].seq \in Seqs(committed) \cup {d.seq}
    BY <2>1, <2>2, <2>3 DEF Seqs
  <2>4. Len(committed) + 1 \in DOMAIN Append(committed, d)
    BY <2>2
  <2> QED BY <1>3, <2>1, <2>2, <2>3, <2>4 DEF Seqs
<1>5. ASSUME NEW g \in Guests
      PROVE  /\ Linked(conn[g], guest[g], toGuest[g], toHost[g])
             /\ Covered(conn[g], guest[g], toGuest[g], committed', k)
  <2> DEFINE r == guest[g]
             in == toGuest[g]
  <2>1. /\ Linked(conn[g], r, in, toHost[g]) /\ Covered(conn[g], r, in, committed, n)
        /\ r.lastSeq \in Nat
    BY GuestState, ReplicaFacts DEF GapInv
  <2> HIDE DEF r, in
  <2>2. Expected(r, in, committed) \cup {d.seq} = Expected(r, in, committed')
    BY <1>4 DEF Expected
  <2>3. \A seq \in Missing(r, k) : seq \in Missing(r, n) \/ seq = d.seq
    BY <1>1, <1>3, <2>1 DEF Missing
  <2>4. Covered(conn[g], r, in, committed', k)
    BY <2>1, <2>2, <2>3 DEF Covered
  <2> QED BY <2>1, <2>4 DEF r, in
<1> QED BY <1>1, <1>5 DEF GapInv

LEMMA Pairs ==
    ASSUME NEW S, NEW x \in S, NEW y \in S
    PROVE  /\ <<>> \o <<>> = <<>> /\ <<>> \o <<y>> = <<y>> /\ <<x>> \o <<>> = <<x>>
           /\ <<x>> \o <<y>> = <<x, y>>
           /\ {<<>>, <<x>>, <<y>>, <<x, y>>} \subseteq Seq(S)
           /\ DOMAIN <<x>> = {1} /\ <<x>>[1] = x /\ DOMAIN <<x, y>> = {1, 2}
           /\ <<x, y>>[1] = x /\ <<x, y>>[2] = y
<1>1. <<>> \in Seq(S) /\ <<x>> \in Seq(S) /\ <<y>> \in Seq(S) /\ <<x, y>> \in Seq(S)
  OBVIOUS
<1>2. /\ <<>> \o <<>> = <<>> /\ <<>> \o <<y>> = <<y>> /\ <<x>> \o <<>> = <<x>>
  BY <1>1, ConcatEmptySeq
<1>3. <<x>> \o <<y>> = <<x, y>>
  <2>1. Append(<<x>>, y) = <<x>> \o <<y>>
    BY <1>1, AppendIsConcat
  <2>2. Append(<<x>>, y) = <<x, y>>
    <3> DEFINE a == Append(<<x>>, y)
               b == <<x, y>>
    <3>1. Len(<<x>>) = 1 /\ <<x>>[1] = x /\ Len(b) = 2 /\ b[1] = x /\ b[2] = y
      OBVIOUS
    <3>2. a \in Seq(S) /\ Len(a) = 2 /\ a[1] = x /\ a[2] = y
      BY <1>1, <3>1, AppendProperties
    <3>3. b \in Seq(S)
      BY <1>1
    <3> HIDE DEF a, b
    <3>4. \A i \in 1..Len(a) : a[i] = b[i]
      BY <3>1, <3>2
    <3>5. a = b
      BY <3>1, <3>2, <3>3, <3>4, SeqEqual
    <3> QED BY <3>5 DEF a, b
  <2> QED BY <2>1, <2>2
<1>4. /\ DOMAIN <<x>> = {1} /\ <<x>>[1] = x /\ DOMAIN <<x, y>> = {1, 2}
      /\ <<x, y>>[1] = x /\ <<x, y>>[2] = y
  OBVIOUS
<1> QED BY <1>1, <1>2, <1>3, <1>4

\* What is published leaves the host and is on its way to who is connected.
LEMMA PublishGap ==
    ASSUME ReplicaInv, ReplicaInv', Forward, GapInv, Publish
    PROVE  GapInv'
<1> DEFINE d == Head(committed)
           n == Len(log)
<1>1. /\ committed # <<>> /\ committed' = Tail(committed) /\ n \in Nat
      /\ UNCHANGED <<log, conn, toHost, guest>> /\ committed \in Seq(Decision(n))
      /\ toGuest' = [g \in Guests |-> toGuest[g] \o Messages(g, d)]
  BY HostState DEF Publish
<1>2. d \in Decision(n) /\ Seqs(committed) = {d.seq} \cup Seqs(committed')
  <2> DEFINE S == Decision(n)
  <2>1. committed \in Seq(S) /\ committed # <<>>
    BY <1>1
  <2> HIDE DEF S
  <2>2. Head(committed) \in S /\ Seqs(committed) = {Head(committed).seq} \cup Seqs(Tail(committed))
    BY <2>1, TailElements, TailSeqs
  <2> QED BY <1>1, <2>2 DEF S
<1> HIDE DEF d
<1>3. d.seq \in 0..n
  BY <1>2 DEF Decision
<1>4. ASSUME NEW g \in Guests
      PROVE  /\ Linked(conn[g], guest[g], toGuest'[g], toHost[g])
             /\ Covered(conn[g], guest[g], toGuest'[g], committed', n)
  <2> DEFINE r == guest[g]
             in == toGuest[g]
             more == Messages(g, d)
             rest == toGuest'[g]
  <2>1. /\ Linked(conn[g], r, in, toHost[g]) /\ Covered(conn[g], r, in, committed, n)
        /\ r.lastSeq \in Nat /\ in \in Seq(Inbox(n)) /\ rest = in \o more
    BY <1>1, GuestState, ReplicaFacts DEF GapInv
  <2>2. CASE conn[g] # "ready"
    <3>1. rest = in
      BY <2>1, <2>2 DEF Messages
    <3> QED BY <2>1, <2>2, <3>1 DEF Covered
  <2>3. CASE conn[g] = "ready"
    <3> DEFINE tx == [type |-> "tx", seq |-> d.seq]
               answer == IF d.seq = 0 THEN [type |-> "error"]
                         ELSE [type |-> "result", seq |-> d.seq]
    <3>1. /\ more \in Seq(Inbox(n))
          /\ \A i \in DOMAIN more : more[i].type \in {"tx", "result", "error"}
          /\ d.seq # 0 => 1 \in DOMAIN more /\ more[1] = tx
      <4>1. d.seq # 0 => more \in {<<tx>>, <<tx, answer>>}
        <5>1. more = (IF d.seq = 0 THEN <<>> ELSE <<tx>>) \o (IF d.by # g THEN <<>> ELSE <<answer>>)
          BY <2>3 DEF Messages
        <5>2. tx \in {tx, answer} /\ answer \in {tx, answer}
          OBVIOUS
        <5> HIDE DEF tx, answer, more
        <5> QED BY <5>1, <5>2, Pairs
      <4>2. /\ d.seq # 0 => tx \in Inbox(n) /\ tx.type = "tx"
            /\ answer \in Inbox(n) /\ answer.type \in {"result", "error"}
        BY <1>1, <1>3, NewMessages
      <4>3. d.seq = 0 => more \in {<<>>, <<answer>>}
        <5>1. more = (IF d.seq = 0 THEN <<>> ELSE <<tx>>) \o (IF d.by # g THEN <<>> ELSE <<answer>>)
          BY <2>3 DEF Messages
        <5>2. tx \in {tx, answer} /\ answer \in {tx, answer}
          OBVIOUS
        <5> HIDE DEF tx, answer, more
        <5> QED BY <5>1, <5>2, Pairs
      <4> DEFINE S == Inbox(n)
      <4> HIDE DEF tx, answer, more
      <4>4. CASE d.seq = 0
        <5>1. answer \in S
          BY <4>2
        <5> HIDE DEF S
        <5>2. more \in Seq(S) /\ \A i \in DOMAIN more : more[i] = answer
          <6>1. CASE more = <<>>
            BY <5>1, <6>1, Pairs, Single
          <6>2. CASE more = <<answer>>
            BY <5>1, <6>2, Pairs
          <6> QED BY <4>3, <4>4, <6>1, <6>2
        <5> QED BY <4>2, <4>4, <5>2 DEF S
      <4>5. CASE d.seq # 0
        <5>1. answer \in S /\ tx \in S
          BY <4>2, <4>5
        <5> HIDE DEF S
        <5>2. /\ more \in Seq(S) /\ \A i \in DOMAIN more : more[i] \in {tx, answer}
              /\ 1 \in DOMAIN more /\ more[1] = tx
          <6>1. CASE more = <<tx>>
            BY <5>1, <6>1, Pairs
          <6>2. CASE more = <<tx, answer>>
            BY <5>1, <6>2, Pairs
          <6> QED BY <4>1, <4>5, <6>1, <6>2
        <5> QED BY <4>2, <4>5, <5>2 DEF S
      <4> QED BY <4>4, <4>5
    <3> HIDE DEF more, rest, in, r
    <3>2. /\ \A i \in DOMAIN in : i \in DOMAIN rest /\ rest[i] = in[i]
          /\ \A i \in DOMAIN more : Len(in) + i \in DOMAIN rest /\ rest[Len(in) + i] = more[i]
          /\ \A i \in DOMAIN rest : i \in DOMAIN in \/ (i - Len(in) \in DOMAIN more /\ rest[i] = more[i - Len(in)])
      <4>1. /\ rest \in Seq(Inbox(n)) /\ Len(rest) = Len(in) + Len(more)
            /\ \A i \in 1..Len(rest) : rest[i] = IF i <= Len(in) THEN in[i] ELSE more[i - Len(in)]
        BY <2>1, <3>1, ConcatProperties
      <4>2. /\ DOMAIN rest = 1..Len(rest) /\ DOMAIN in = 1..Len(in) /\ DOMAIN more = 1..Len(more)
            /\ Len(in) \in Nat /\ Len(more) \in Nat
        BY <2>1, <3>1, <4>1, LenProperties
      <4> QED BY <4>1, <4>2
    <3>3. Linked(conn[g], r, rest, toHost[g])
      <4>1. \A i \in DOMAIN rest : i \in DOMAIN in \/ rest[i].type \in {"tx", "result", "error"}
        BY <3>1, <3>2
      <4>2. r.link # "down"
        BY <2>1, <2>3 DEF Linked
      <4>3. \A i \in DOMAIN rest : rest[i].type = "accepted" => i = 1 /\ r.link = "opening"
        BY <2>1, <3>2, <4>1 DEF Linked
      <4>4. \A i \in DOMAIN rest : rest[i].type = "resync" => rest[i].from <= r.lastSeq
        BY <2>1, <3>2, <4>1 DEF Linked
      <4>5. conn[g] # "pending" /\ conn[g] # "accepted"
        BY <2>3
      <4> QED BY <2>1, <4>2, <4>3, <4>4, <4>5 DEF Linked
    <3>4. Txs(in) \subseteq Txs(rest) /\ (d.seq # 0 => d.seq \in Txs(rest))
      <4>1. Txs(in) \subseteq Txs(rest)
        BY <3>2 DEF Txs
      <4>2. ASSUME d.seq # 0
            PROVE  d.seq \in Txs(rest)
        <5>1. Len(in) + 1 \in DOMAIN rest /\ rest[Len(in) + 1] = tx
          BY <3>1, <3>2, <4>2
        <5>2. tx.type = "tx" /\ tx.seq = d.seq
          OBVIOUS
        <5> HIDE DEF tx
        <5> QED BY <5>1, <5>2 DEF Txs
      <4> QED BY <4>1, <4>2
    <3>5. \A seq \in Missing(r, n) :
             seq \in Expected(r, in, committed) => seq \in Expected(r, rest, committed')
      <4>1. \A seq \in Missing(r, n) : seq # 0
        BY <2>1 DEF Missing
      <4> QED BY <1>2, <3>4, <4>1 DEF Expected
    <3>6. Covered(conn[g], r, rest, committed', n)
      <4> SUFFICES ASSUME r.phase \in Following
                   PROVE  /\ \A i \in DOMAIN rest : rest[i].type = "resync" =>
                               \A seq \in Missing(r, n) :
                                  seq <= rest[i].to \/ seq \in Expected(r, rest, committed')
                          /\ ~Fetching(r) => Missing(r, n) \subseteq Expected(r, rest, committed')
        BY DEF Covered
      <4>1. ASSUME NEW i \in DOMAIN rest, rest[i].type = "resync", NEW seq \in Missing(r, n)
            PROVE  seq <= rest[i].to \/ seq \in Expected(r, rest, committed')
        <5>1. i \in DOMAIN in /\ rest[i] = in[i]
          BY <3>1, <3>2, <4>1
        <5>2. seq <= in[i].to \/ seq \in Expected(r, in, committed)
          BY <2>1, <2>3, <4>1, <5>1 DEF Covered
        <5> QED BY <3>5, <4>1, <5>1, <5>2
      <4>2. ~Fetching(r) => Missing(r, n) \subseteq Expected(r, rest, committed')
        BY <2>1, <2>3, <3>5 DEF Covered
      <4> QED BY <4>1, <4>2
    <3> QED BY <3>3, <3>6 DEF rest, r
  <2> QED BY <2>2, <2>3
<1> QED BY <1>1, <1>4 DEF GapInv

\* A step that takes connections away and leaves the guests alone.
LEMMA ForgetGap ==
    ASSUME ReplicaInv, ReplicaInv', Forward, GapInv, NEW G \in SUBSET Guests,
           UNCHANGED <<log, toGuest, guest>>, Seqs(committed') = Seqs(committed),
           \A g \in Guests \ G : conn'[g] = conn[g] /\ toHost'[g] = toHost[g],
           \A g \in G : conn'[g] = "none" /\ toHost'[g] = <<>>
    PROVE  GapInv'
<1>1. ASSUME NEW g \in Guests
      PROVE  /\ Linked(conn'[g], guest[g], toGuest[g], toHost'[g])
             /\ Covered(conn'[g], guest[g], toGuest[g], committed', Len(log))
  <2> DEFINE r == guest[g]
             in == toGuest[g]
             out == toHost[g]
  <2>1. Linked(conn[g], r, in, out) /\ Covered(conn[g], r, in, committed, Len(log))
    BY DEF GapInv
  <2>2. CASE g \in G
    <3>1. conn'[g] = "none" /\ toHost'[g] = <<>> /\ DOMAIN <<>> = {}
      BY <2>2
    <3> HIDE DEF r, in, out
    <3>2. Linked("none", r, in, <<>>)
      BY <2>1, <3>1 DEF Linked
    <3>3. Covered("none", r, in, committed', Len(log))
      BY DEF Covered
    <3> QED BY <3>1, <3>2, <3>3 DEF r, in
  <2>3. CASE g \notin G
    <3>1. conn'[g] = conn[g] /\ toHost'[g] = out
      BY <2>3
    <3> HIDE DEF r, in, out
    <3>2. Expected(r, in, committed') = Expected(r, in, committed)
      BY DEF Expected
    <3>3. Covered(conn[g], r, in, committed', Len(log))
      BY <2>1, <3>2 DEF Covered
    <3> QED BY <2>1, <3>1, <3>3 DEF r, in
  <2> QED BY <2>2, <2>3
<1> QED BY <1>1 DEF GapInv

LEMMA RemoveGap ==
    ASSUME ReplicaInv, ReplicaInv', Forward, GapInv, NEW g \in Guests,
           ServerNotices(g) \/ ServerRemoves(g)
    PROVE  GapInv'
<1>1. Forget(g)
  BY DEF ServerNotices, ServerRemoves
<1>2. Seqs(committed') = Seqs(committed)
  <2>1. committed \in Seq(Decision(Len(log))) /\ committed' = Orphaned(committed, g)
    BY <1>1, HostState DEF Forget
  <2>2. \A i \in DOMAIN committed : committed[i] \in Decision(Len(log))
    BY <2>1, ElementOfSeq, LenProperties
  <2>3. \A i \in DOMAIN committed : [committed[i] EXCEPT !.by = Nobody].seq = committed[i].seq
    BY <2>2 DEF Decision
  <2>4. DOMAIN committed' = DOMAIN committed
        /\ \A i \in DOMAIN committed : committed'[i].seq = committed[i].seq
    BY <2>1, <2>3 DEF Orphaned
  <2> QED BY <2>4 DEF Seqs
<1>3. /\ UNCHANGED <<log, toGuest, guest>> /\ conn'[g] = "none" /\ toHost'[g] = <<>>
      /\ \A h \in Guests \ {g} : conn'[h] = conn[h] /\ toHost'[h] = toHost[h]
  BY <1>1, HostState DEF Forget
<1> DEFINE G == {g}
<1>4. /\ G \in SUBSET Guests /\ \A h \in G : conn'[h] = "none" /\ toHost'[h] = <<>>
      /\ \A h \in Guests \ G : conn'[h] = conn[h] /\ toHost'[h] = toHost[h]
  BY <1>3
<1> HIDE DEF G
<1> QED BY <1>2, <1>3, <1>4, ForgetGap

LEMMA CloseGap ==
    ASSUME ReplicaInv, ReplicaInv', Forward, GapInv, Close
    PROVE  GapInv'
<1>1. /\ UNCHANGED <<log, toGuest, guest>> /\ Seqs(committed') = Seqs(committed)
      /\ \A g \in Guests : conn'[g] = "none" /\ toHost'[g] = <<>>
  BY DEF Close
<1>2. \A g \in Guests \ Guests : conn'[g] = conn[g] /\ toHost'[g] = toHost[g]
  OBVIOUS
<1> DEFINE G == Guests
<1>3. G \in SUBSET Guests
  OBVIOUS
<1> QED BY <1>1, <1>2, <1>3, ForgetGap

LEMMA QuietGap ==
    ASSUME GapInv, UNCHANGED <<log, committed, conn, toHost, toGuest, guest>>
    PROVE  GapInv'
BY DEF GapInv

LEMMA GapInvStep ==
    ASSUME ReplicaInv, GapInv, [Next]_vars
    PROVE  GapInv'
<1>1. ReplicaInv' /\ Forward
  BY ReplicaInvStep, ForwardStep
<1>2. CASE HostProgress \/ HostSubmit \/ BeginLeave \/ HostFails
  <2>1. CASE HostSubmit \/ BeginLeave \/ HostFails \/ Save
    <3>1. UNCHANGED <<log, committed, conn, toHost, toGuest, guest>>
      BY <2>1 DEF HostSubmit, BeginLeave, HostFails, Save
    <3> QED BY <3>1, QuietGap
  <2> QED BY <1>1, <1>2, <2>1, DecideGap, PublishGap, CloseGap DEF HostProgress
<1>3. ASSUME NEW g \in Guests, GuestProgress(g)
      PROVE  GapInv'
  BY <1>1, <1>3, RequestInitialGap, HandoffGap, FenceGap, AnnounceGap, JoinedGap, ReconnectGap,
     QueueReconnectResyncGap, RunQueueGap, RequestResyncGap, ReceiveGap DEF GuestProgress
<1>4. ASSUME NEW g \in Guests, \/ GuestNotices(g) \/ Heartbeat(g) \/ Authenticate(g)
                               \/ DecideJoin(g) \/ Bootstrap(g)
      PROVE  GapInv'
  BY <1>1, <1>4, DropsGap, HeartbeatGap, AuthGap, BootstrapGap
<1>5. ASSUME NEW g \in Guests, \/ HandleRequest(g) \/ ServerNotices(g) \/ Join(g) \/ Leave(g)
                               \/ Submit(g) \/ ServerRemoves(g) \/ Drop(g) \/ Timeout(g)
      PROVE  GapInv'
  BY <1>1, <1>5, HandleRequestGap, RemoveGap, JoinGap, LeaveGap, SubmitGap, DropsGap, TimeoutGap
<1>6. CASE UNCHANGED vars
  BY <1>6, QuietGap DEF vars
<1> QED BY <1>2, <1>3, <1>4, <1>5, <1>6 DEF Next

LEMMA GapInvariant == Spec => [](ReplicaInv /\ GapInv)
<1>1. Init => GapInv
  <2> SUFFICES ASSUME Init, NEW g \in Guests
               PROVE  /\ Linked(conn[g], guest[g], toGuest[g], toHost[g])
                      /\ Covered(conn[g], guest[g], toGuest[g], committed, Len(log))
    BY DEF GapInv
  <2>1. /\ conn[g] = "none" /\ toGuest[g] = <<>> /\ toHost[g] = <<>> /\ DOMAIN <<>> = {}
        /\ guest[g].phase = "out" /\ guest[g].link = "down"
    BY DEF Init, NewGuest
  <2>2. guest[g].phase \notin Following
    BY <2>1 DEF Following, Bootstrapping, Attached
  <2> QED BY <2>1, <2>2 DEF Linked, Covered
<1>2. ReplicaInv /\ GapInv /\ [Next]_vars => ReplicaInv' /\ GapInv'
  BY ReplicaInvStep, GapInvStep
<1> QED BY <1>1, <1>2, ReplicaInvInit, PTL DEF Spec

\* A connected guest that has nothing left to do misses no transaction that is
\* not still coming: none falls between the acceptance of a connection, the
\* readiness the broadcast looks at and the resynchronisation.
THEOREM NothingIsMissed == Spec => []NoSilentGap
<1>1. ASSUME ReplicaInv, GapInv
      PROVE  NoSilentGap
  <2> SUFFICES ASSUME NEW g \in Guests, guest[g].phase = "live", guest[g].link = "ready",
                      conn[g] = "ready", guest[g].queue = <<>>, guest[g].attempt = 0,
                      NEW seq \in (Len(guest[g].doc) + 1)..Len(log)
               PROVE  OnItsWay(g, seq)
    BY DEF NoSilentGap
  <2> DEFINE r == guest[g]
  <2>1. /\ Covered(conn[g], r, toGuest[g], committed, Len(log)) /\ Replica(r)
        /\ Len(r.doc) = r.lastSeq
    <3>1. Covered(conn[g], r, toGuest[g], committed, Len(log))
      BY <1>1 DEF GapInv
    <3>2. log \in Seq(Batch) /\ Replica(r)
      BY <1>1, GuestState
    <3> HIDE DEF r
    <3> QED BY <3>1, <3>2, ReplicaFacts
  <2>2. r.run = "idle" /\ DOMAIN r.queue = {}
    BY <2>1 DEF Replica
  <2>3. r.phase \in Following /\ ~Fetching(r)
    BY <2>2 DEF Following, Attached, Fetching, QueuedFetch
  <2>4. Held(r) = {}
    BY <2>2 DEF Held, Seqs, Bootstrapping
  <2>5. seq \in Missing(r, Len(log))
    BY <2>1 DEF Missing
  <2> HIDE DEF r
  <2>6. seq \in Seqs(committed) \cup Txs(toGuest[g])
    BY <2>1, <2>3, <2>4, <2>5 DEF Covered, Expected
  <2> QED BY <2>6 DEF OnItsWay, Seqs, Txs
<1> QED BY <1>1, GapInvariant, PTL
-----------------------------------------------------------------------------
LEMMA FaultsStep ==
    ASSUME faults \in 0..MaxFaults, [Next]_vars
    PROVE  faults' \in 0..MaxFaults
<1>1. CASE HostProgress \/ HostSubmit \/ BeginLeave \/ HostFails
  BY <1>1 DEF HostProgress, Decide, Publish, Save, Close, HostSubmit, BeginLeave, HostFails
<1>2. ASSUME NEW g \in Guests, GuestProgress(g)
      PROVE  faults' \in 0..MaxFaults
  BY <1>2 DEF GuestProgress, RequestInitial, Handoff, Fence, Announce, Joined, Reconnect,
     QueueReconnectResync, RunQueue, RequestResync, Receive
<1>3. ASSUME NEW g \in Guests, \/ GuestNotices(g) \/ Heartbeat(g) \/ Authenticate(g)
                               \/ DecideJoin(g) \/ Bootstrap(g)
      PROVE  faults' \in 0..MaxFaults
  BY <1>3 DEF GuestNotices, Heartbeat, Authenticate, DecideJoin, Bootstrap
<1>4. ASSUME NEW g \in Guests, HandleRequest(g) \/ ServerNotices(g) \/ Join(g) \/ Leave(g) \/ Submit(g)
      PROVE  faults' \in 0..MaxFaults
  BY <1>4 DEF HandleRequest, ServerNotices, Join, Leave, Submit
<1>5. ASSUME NEW g \in Guests, ServerRemoves(g) \/ Drop(g) \/ Timeout(g)
      PROVE  faults' \in 0..MaxFaults
  BY <1>5, LimitsAssumption DEF ServerRemoves, Drop, Timeout
<1>6. CASE UNCHANGED vars
  BY <1>6 DEF vars
<1> QED BY <1>1, <1>2, <1>3, <1>4, <1>5, <1>6 DEF Next

\* Type correctness: positions, channels and the states of the two ends of
\* every connection stay what the rest of the module takes them for.
THEOREM Typing == Spec => []TypeOK
<1>1. Init => faults \in 0..MaxFaults
  BY LimitsAssumption DEF Init
<1>2. ReplicaInv /\ GapInv /\ faults \in 0..MaxFaults => TypeOK
  <2> SUFFICES ASSUME ReplicaInv, GapInv, faults \in 0..MaxFaults
               PROVE  TypeOK
    OBVIOUS
  <2>1. ASSUME NEW g \in Guests
        PROVE  /\ guest[g].phase \in Phases
               /\ guest[g].link \in {"down", "opening", "auth", "ready"}
               /\ guest[g].run \in {"idle", "connecting", "waiting", "applying", "stranded"}
               /\ guest[g].attempt \in Hung..ReconnectLimit
               /\ guest[g].run # "idle" => guest[g].queue # <<>>
               /\ guest[g].link = "down" => toGuest[g] = <<>>
    <3> DEFINE r == guest[g]
    <3>1. Replica(r) /\ r \in GuestRecord(Len(log)) /\ Linked(conn[g], r, toGuest[g], toHost[g])
      BY GuestState DEF GapInv
    <3> HIDE DEF r
    <3>2. r.run # "idle" => r.queue # <<>>
      BY <3>1 DEF Replica
    <3>3. r.link = "down" => toGuest[g] = <<>>
      BY <3>1 DEF Linked
    <3>4. /\ r.phase \in Phases /\ r.link \in {"down", "opening", "auth", "ready"}
          /\ r.run \in {"idle", "connecting", "waiting", "applying", "stranded"}
          /\ r.attempt \in Hung..ReconnectLimit
      BY <3>1 DEF GuestRecord
    <3> QED BY <3>2, <3>3, <3>4 DEF r
  <2>2. saved \in -1..Len(log)
    BY HostState DEF ChannelTypes
  <2> QED BY <2>1, <2>2, HostState DEF TypeOK, Batch
<1>3. (faults \in 0..MaxFaults) /\ [Next]_vars => (faults \in 0..MaxFaults)'
  BY FaultsStep
<1> QED BY <1>1, <1>2, <1>3, GapInvariant, PTL DEF Spec
=============================================================================
