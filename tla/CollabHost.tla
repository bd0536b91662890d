----------------------------- MODULE CollabHost -----------------------------
(***************************************************************************)
(* The authoritative session host of a collaboration session               *)
(* (packages/collaboration/src/host.ts, AuthoritativeSessionHost).         *)
(*                                                                         *)
(* The host orders the command batches of every participant, detects       *)
(* conflicts of a stale batch against what was committed since its base,   *)
(* answers retries from a bounded idempotency window, keeps a bounded tail *)
(* of transactions for resynchronisation and grants soft text leases.      *)
(*                                                                         *)
(* A submission is two steps: Prepare runs up to the adapter's transact(), *)
(* which is awaited (it ends with a write to the recovery journal), and    *)
(* Commit or TransactFails is its outcome.  Submissions are serialised     *)
(* with each other by submissionQueue, but leases are acquired, renewed,   *)
(* released and purged, and the clock advances, while one is in flight.    *)
(***************************************************************************)
EXTENDS Integers, FiniteSets, Sequences, FiniteSetsExt

CONSTANTS
    Clients,             \* participants, the host's own user included
    RequestIds,          \* clientRequestId
    Bodies,              \* command batches, as what the host can tell of them
    Keys,                \* entity keys of the conflict analysis
    TextElements,        \* text elements of the initial document
    Protects,            \* keys a lease on an element protects
    Revisions,           \* document revisions (content digests)
    InitialRevision,
    TailLimit,           \* tailLimit
    IdempotencyLimit,    \* idempotencyLimit
    MaxIdempotencyBytes, \* maxIdempotencyBytes
    MaxTailResyncBytes,  \* maxTailResyncBytes
    TextLeaseTtl,        \* textLeaseTtlMs
    MaxCommits,          \* bound: transactions of the session
    MaxClock,            \* bound: clock ticks
    MaxTokens,           \* bound: lease tokens ever issued
    NoSubmission,        \* no submission awaits its adapter
    NoLease,             \* the element is not leased, a token is not supplied
    NoRevision           \* knownRevision is undefined

\* What a command batch is to the host: the access sets the analysis gives it,
\* the text elements it deletes, and the bytes it takes in memory.
Body == [reads: SUBSET Keys, writes: SUBSET Keys,
         drops: SUBSET TextElements, size: Nat]

\* The access sets come from the command analysis: whoever deletes a text
\* element writes one of the keys that a lease on it protects.
ASSUME BodiesAssumption ==
    /\ Bodies \subseteq Body
    /\ \A b \in Bodies : \A e \in b.drops : Protects[e] \cap b.writes # {}
ASSUME ProtectsAssumption == Protects \in [TextElements -> SUBSET Keys]
ASSUME RevisionsAssumption ==
    InitialRevision \in Revisions /\ NoRevision \notin Revisions
\* Host limits must be positive safe integers (the constructor's check).
ASSUME LimitsAssumption ==
    /\ {TailLimit, IdempotencyLimit, MaxIdempotencyBytes, MaxTailResyncBytes,
        TextLeaseTtl} \subseteq Nat \ {0}
    /\ {MaxCommits, MaxClock, MaxTokens} \subseteq Nat

VARIABLES
    history,         \* every transaction committed; sessionSequence is its length
    tail,            \* the retained transactions, oldest first
    lastModifiedSeq, \* per key the last sequence that wrote it, 0 when absent
    idempotency,     \* remembered transactions, oldest first (a Map iterates so)
    currentRevision,
    liveText,        \* text elements of the current document
    textLeases,      \* per element its lease or NoLease
    nextToken,       \* tokens are fresh identifiers: a counter of those issued
    inflight,        \* the prepared submission whose transact() is awaited
    clock

ordering == <<history, tail, lastModifiedSeq, idempotency, currentRevision, liveText>>
vars == <<ordering, textLeases, nextToken, inflight, clock>>

sessionSequence == Len(history)

Request == [client: Clients, rid: RequestIds, body: Bodies, base: Nat,
            baseRev: Revisions, lockTokens: [TextElements -> Nat \cup {NoLease}]]
Transaction == [request: Request, seq: Nat \ {0}, before: Revisions,
                after: Revisions, rebased: BOOLEAN]
\* tokenFloor is history only: every lease granted since has a token >= it.
Prepared == [request: Request, before: Revisions, rebased: BOOLEAN, tokenFloor: Nat]
Lease == [client: Clients, token: Nat, expiresAt: Nat]

Touched(body) == body.reads \cup body.writes

TypeOK ==
    /\ history \in Seq(Transaction)
    /\ tail \in Seq(Transaction)
    /\ lastModifiedSeq \in [Keys -> Nat]
    /\ idempotency \in Seq(Transaction)
    /\ currentRevision \in Revisions
    /\ liveText \subseteq TextElements
    /\ textLeases \in [TextElements -> Lease \cup {NoLease}]
    /\ nextToken \in Nat
    /\ inflight \in Prepared \cup {NoSubmission}
    /\ clock \in Nat

Init ==
    /\ history = <<>>
    /\ tail = <<>>
    /\ lastModifiedSeq = [k \in Keys |-> 0]
    /\ idempotency = <<>>
    /\ currentRevision = InitialRevision
    /\ liveText = TextElements
    /\ textLeases = [e \in TextElements |-> NoLease]
    /\ nextToken = 0
    /\ inflight = NoSubmission
    /\ clock = 0
-----------------------------------------------------------------------------
(* Text leases.                                                            *)

Expired(lease) == lease.expiresAt <= clock

\* The lease table after purgeExpiredTextLeases.
Purged == [e \in TextElements |->
             IF textLeases[e] # NoLease /\ Expired(textLeases[e])
             THEN NoLease ELSE textLeases[e]]

\* Guarded by a lease of the table, the write set needs the lease's token.
Guards(e, body) == Protects[e] \cap body.writes # {}

\* Variant: a batch that supplies no token is not looked at.
LeaseAccessIfSupplied(req) ==
    \A e \in TextElements :
       Purged[e] # NoLease /\ Guards(e, req.body) /\ req.lockTokens[e] # NoLease =>
          req.lockTokens[e] = Purged[e].token

\* assertLeaseAccess, after its purge: a token for an element without a lease
\* is not looked at.
LeaseAccess(req) ==
    \A e \in TextElements :
       Purged[e] # NoLease /\ Guards(e, req.body) =>
          /\ Purged[e].client = req.client
          /\ req.lockTokens[e] = Purged[e].token

\* A lease that is held is granted again to its holder only.
MayAcquire(held, c) == held # NoLease => held.client = c

\* Acquiring again keeps the token and extends the lease.
AcquireTextLease(c, e) ==
    LET held == Purged[e]
        fresh == held = NoLease
    IN
    /\ e \in liveText
    /\ MayAcquire(held, c)
    /\ fresh => nextToken < MaxTokens
    /\ textLeases' = [Purged EXCEPT ![e] =
         [client |-> c, token |-> IF fresh THEN nextToken ELSE held.token,
          expiresAt |-> clock + TextLeaseTtl]]
    /\ nextToken' = IF fresh THEN nextToken + 1 ELSE nextToken
    /\ UNCHANGED <<ordering, inflight, clock>>

RenewTextLease(c, e, token) ==
    /\ Purged[e] # NoLease
    /\ Purged[e].client = c /\ Purged[e].token = token
    /\ textLeases' = [Purged EXCEPT ![e].expiresAt = clock + TextLeaseTtl]
    /\ UNCHANGED <<ordering, nextToken, inflight, clock>>

ReleaseTextLease(c, e, token) ==
    /\ Purged[e] # NoLease
    /\ Purged[e].client = c /\ Purged[e].token = token
    /\ textLeases' = [Purged EXCEPT ![e] = NoLease]
    /\ UNCHANGED <<ordering, nextToken, inflight, clock>>

\* A participant left or its connection was lost.  Nothing is purged here.
ReleaseTextLeasesForClient(c) ==
    /\ textLeases' = [e \in TextElements |->
                        IF textLeases[e] # NoLease /\ textLeases[e].client = c
                        THEN NoLease ELSE textLeases[e]]
    /\ UNCHANGED <<ordering, nextToken, inflight, clock>>

\* Every listing and every request refused after its purge.
PurgeExpiredTextLeases ==
    /\ textLeases' = Purged
    /\ UNCHANGED <<ordering, nextToken, inflight, clock>>
-----------------------------------------------------------------------------
(* Submissions.                                                            *)

\* The bytes of the first n transactions of s, for every n.
BytesUpTo(s) ==
    LET sum[n \in 0..Len(s)] == IF n = 0 THEN 0 ELSE sum[n - 1] + s[n].request.body.size
    IN  sum
BytesOf(s) == BytesUpTo(s)[Len(s)]

\* What follows the first m of the first n transactions of s is within both
\* bounds of the window.
Fits(s, m, n) ==
    /\ n - m <= IdempotencyLimit
    /\ BytesUpTo(s)[n] - BytesUpTo(s)[m] <= MaxIdempotencyBytes

\* Variant: the eviction loop runs once.
EvictOldest(s) == IF Fits(s, 0, Len(s)) THEN s ELSE Tail(s)
\* Oldest first, entries go until the rest fits.
Evict(s) ==
    LET evicted == Min({m \in 0..Len(s) : Fits(s, m, Len(s))})
    IN  SubSeq(s, evicted + 1, Len(s))

\* Variant: a retry sent again from a newer base is not recognised.
RememberedWhole(req) == \E i \in DOMAIN idempotency : idempotency[i].request = req
SameRequest(a, b) == a.client = b.client /\ a.rid = b.rid
Remembered(req) == \E i \in DOMAIN idempotency : SameRequest(idempotency[i].request, req)

MinimumAcceptedBase(log) ==
    (IF log = <<>> THEN sessionSequence + 1 ELSE Head(log).seq) - 1

\* Variant: what the batch only reads is not compared.
WriteConflicts(req) == {k \in req.body.writes : lastModifiedSeq[k] > req.base}
Conflicts(req) == {k \in Touched(req.body) : lastModifiedSeq[k] > req.base}

\* assertCanApply.  The revision of a stale base is not compared.
CanApply(req) ==
    IF req.base = sessionSequence
    THEN req.baseRev = currentRevision
    ELSE req.base >= MinimumAcceptedBase(tail) /\ Conflicts(req) = {}

\* Up to the call of transact().  Lock tokens are ones the host has issued.
Prepare(req) ==
    /\ inflight = NoSubmission
    /\ sessionSequence < MaxCommits
    /\ ~Remembered(req)
    /\ req.base <= sessionSequence
    /\ CanApply(req)
    /\ LeaseAccess(req)
    /\ req.body.size <= MaxIdempotencyBytes
    /\ inflight' = [request |-> req, before |-> currentRevision,
                    rebased |-> req.base # sessionSequence, tokenFloor |-> nextToken]
    /\ textLeases' = Purged
    /\ UNCHANGED <<ordering, nextToken, clock>>

\* tail.push, then shift.
Pushed(t) == IF Len(tail) < TailLimit THEN Append(tail, t) ELSE Append(Tail(tail), t)

\* pruneHistoricalWriteKeys: keys no accepted base can conflict on are
\* forgotten.  Variant: the oldest retained transaction's keys go too.
PrunedOneMore(written, log) ==
    [k \in Keys |-> IF written[k] <= Head(log).seq THEN 0 ELSE written[k]]
Pruned(written, log) ==
    [k \in Keys |-> IF written[k] <= Head(log).seq - 1 THEN 0 ELSE written[k]]

\* removeInvalidTextLeases.  Variant: only the author's own lease is removed.
OwnValidTextLeases(body, author) ==
    [e \in TextElements |->
       IF e \in body.drops /\ textLeases[e] # NoLease /\ textLeases[e].client = author
       THEN NoLease ELSE textLeases[e]]
ValidTextLeases(body, author) ==
    [e \in TextElements |-> IF e \in body.drops THEN NoLease ELSE textLeases[e]]

\* The adapter accepted the batch and its journal record is durable.
Commit(after) ==
    LET req == inflight.request
        t == [request |-> req, seq |-> sessionSequence + 1, before |-> inflight.before,
              after |-> after, rebased |-> inflight.rebased]
        written == [k \in Keys |-> IF k \in req.body.writes THEN t.seq
                                   ELSE lastModifiedSeq[k]]
    IN
    /\ inflight # NoSubmission
    /\ history' = Append(history, t)
    /\ currentRevision' = after
    /\ tail' = Pushed(t)
    /\ lastModifiedSeq' = Pruned(written, Pushed(t))
    /\ idempotency' = Evict(Append(idempotency, t))
    /\ liveText' = liveText \ req.body.drops
    /\ textLeases' = ValidTextLeases(req.body, req.client)
    /\ inflight' = NoSubmission
    /\ UNCHANGED <<nextToken, clock>>

\* The adapter refused the batch or could not make it durable.
TransactFails ==
    /\ inflight # NoSubmission
    /\ inflight' = NoSubmission
    /\ UNCHANGED <<ordering, textLeases, nextToken, clock>>

Tick ==
    /\ clock < MaxClock
    /\ clock' = clock + 1
    /\ UNCHANGED <<ordering, textLeases, nextToken, inflight>>
-----------------------------------------------------------------------------
(* Resynchronisation: the answer to a participant that has applied the     *)
(* transactions up to afterSeq and is at knownRevision (or does not say).  *)

Snapshot == [kind |-> "snapshot", seq |-> sessionSequence, revision |-> currentRevision]
\* The tail from its first transaction in S on: its sequence numbers ascend, so
\* that is what the filter over it keeps.
TailOn(S) == IF S = {} THEN <<>> ELSE SubSeq(tail, Min(S), Len(tail))
\* Variant: the transaction at afterSeq is sent again.
TailFromIncluding(afterSeq) ==
    [kind |-> "tail", transactions |-> TailOn({i \in DOMAIN tail : tail[i].seq >= afterSeq})]
TailFrom(afterSeq) ==
    [kind |-> "tail", transactions |-> TailOn({i \in DOMAIN tail : tail[i].seq > afterSeq})]

GetResync(afterSeq, knownRevision) ==
    LET missing == TailFrom(afterSeq).transactions
        expectedBase == IF missing = <<>> THEN currentRevision
                        ELSE Head(missing).before
    IN
    IF \/ afterSeq < MinimumAcceptedBase(tail)
       \/ knownRevision # NoRevision /\ knownRevision # expectedBase
       \/ BytesOf(missing) > MaxTailResyncBytes
    THEN Snapshot
    ELSE TailFrom(afterSeq)
-----------------------------------------------------------------------------
\* A queued request was built against any sequence its sender could then know,
\* with tokens the host has issued; a base past the end is refused.
Submissions ==
    [client: Clients, rid: RequestIds, body: Bodies, base: 0..(sessionSequence + 1),
     baseRev: Revisions, lockTokens: [TextElements -> (0..(nextToken - 1)) \cup {NoLease}]]

Next ==
    \/ \E req \in Submissions : Prepare(req)
    \/ \E after \in Revisions : Commit(after)
    \/ TransactFails
    \/ \E c \in Clients, e \in TextElements : AcquireTextLease(c, e)
    \/ \E c \in Clients, e \in TextElements, token \in 0..(nextToken - 1) :
          RenewTextLease(c, e, token) \/ ReleaseTextLease(c, e, token)
    \/ \E c \in Clients : ReleaseTextLeasesForClient(c)
    \/ PurgeExpiredTextLeases
    \/ Tick

Spec == Init /\ [][Next]_vars
-----------------------------------------------------------------------------
(* What the host promises.                                                 *)

\* No transaction was ordered over another one that wrote, after its base, a
\* key it read or wrote: a stale batch is accepted only when it commutes with
\* everything its author had not seen, however little history is retained
\* (assertCanApply, pruneHistoricalWriteKeys).
NoLostUpdate ==
    \A i \in DOMAIN history : \A j \in DOMAIN history :
       LET r == history[i].request IN
       r.base < j /\ j < i => Touched(r.body) \cap history[j].request.body.writes = {}

\* For every base still accepted the pruned index answers exactly what the
\* whole history would: no conflict is missed, and none is reported for a key
\* that nobody wrote (lastModifiedSeq).
WrittenAfter(n) ==
    UNION {history[i].request.body.writes : i \in (n + 1)..sessionSequence}
ConflictIndexExact ==
    \A n \in MinimumAcceptedBase(tail)..sessionSequence :
       {k \in Keys : lastModifiedSeq[k] > n} = WrittenAfter(n)

\* The remembered requests are the most recent transactions that fit both
\* bounds, whole and with no gap, and what is remembered of each is what was
\* committed: a retry is answered with the transaction it caused
\* (rememberIdempotentResult).
IdempotencyIsRecentWindow ==
    \E m \in 0..sessionSequence :
       /\ idempotency = SubSeq(history, m + 1, sessionSequence)
       /\ \A n \in 0..sessionSequence : Fits(history, n, sessionSequence) <=> n >= m

\* A request is committed a second time only when everything that followed
\* its first commit has pushed it out of the window (the idempotency lookup of
\* prepareSubmission).
AtMostOnce ==
    \A i, j \in DOMAIN history :
       i < j /\ SameRequest(history[i].request, history[j].request) =>
          ~Fits(history, i - 1, j - 1)

\* A tail answer holds every transaction the participant misses, in order, and
\* starts at the revision it says it has; a snapshot is sent only to one whose
\* sequence is not retained, whose revision differs or whose tail is too long
\* (getResync).
RevisionAt(n) == IF n = 0 THEN InitialRevision ELSE history[n].after
ResyncSound ==
    \A n \in 0..sessionSequence, v \in Revisions \cup {NoRevision} :
       LET answer == GetResync(n, v)
           missing == SubSeq(history, n + 1, sessionSequence)
           diverged == v # NoRevision /\ v # RevisionAt(n)
       IN
       IF answer.kind = "tail"
       THEN answer.transactions = missing /\ ~diverged
       ELSE n + TailLimit < sessionSequence \/ diverged
            \/ BytesOf(missing) > MaxTailResyncBytes

\* A lease held by someone else on what an awaited batch writes was granted
\* after the batch was prepared: one that was there before is never written
\* over, although the host does not look again when the adapter answers
\* (assertLeaseAccess).
ForeignLeaseIsYounger ==
    inflight # NoSubmission =>
       \A e \in TextElements :
          /\ textLeases[e] # NoLease
          /\ textLeases[e].client # inflight.request.client
          /\ Guards(e, inflight.request.body)
          => textLeases[e].token >= inflight.tokenFloor

\* Only text elements of the current document are leased, although a lease may
\* be granted while a batch that deletes its element is awaited
\* (removeInvalidTextLeases).
LeaseOnlyOnLiveText ==
    \A e \in TextElements : textLeases[e] # NoLease => e \in liveText

\* A lease that has not expired changes hands only through a release: no step
\* gives its element to another holder or token, or brings its expiry forward
\* (acquireTextLease, renewTextLease).
LeaseNotStolen ==
    [][\A e \in TextElements :
         /\ textLeases[e] # NoLease /\ ~Expired(textLeases[e])
         /\ textLeases'[e] # NoLease
         => /\ textLeases'[e].client = textLeases[e].client
            /\ textLeases'[e].token = textLeases[e].token
            /\ textLeases'[e].expiresAt >= textLeases[e].expiresAt]_vars

\* A batch that presents the token of a text lease commits only under that
\* lease: "Lock expiry or disconnect makes uncommitted peer text invalid"
\* (specs/002-v1-release/contracts.md).  The host looks only at leases that
\* exist, and only before the adapter is awaited, so this is refuted.
LapsedTextIsInvalid ==
    [][\A after \in Revisions : Commit(after) =>
         \A e \in TextElements :
            /\ Guards(e, inflight.request.body)
            /\ inflight.request.lockTokens[e] # NoLease
            => /\ textLeases[e] # NoLease
               /\ textLeases[e].token = inflight.request.lockTokens[e]
               /\ ~Expired(textLeases[e])]_vars
=============================================================================
