---------------------------- MODULE CollabSession ----------------------------
(***************************************************************************)
(* A live session end to end: the transport server of the host             *)
(* (packages/collaboration/src/transport/server.ts), the transport client  *)
(* of each guest (transport/client.ts) and the guest side of the desktop   *)
(* coordinator (apps/desktop/src/main/collaboration-service.ts).           *)
(*                                                                         *)
(* The server broadcasts a transaction when its submission ends, to the    *)
(* connections that are ready then.  A guest joins (connect, initial       *)
(* resynchronisation, clone, handoff of what was buffered, fence), applies *)
(* transactions one at a time through its apply queue, resynchronises when *)
(* it sees a gap and reconnects up to three times.  The decisions of the   *)
(* engine on a batch are those of CollabHost; here a batch is committed or *)
(* refused.  Connections break at any point, and the two ends notice it    *)
(* separately.                                                             *)
(***************************************************************************)
EXTENDS Integers, Sequences, SequencesExt

CONSTANTS
    Guests,
    HostUser,        \* the submitter of the host's own batches
    Nobody,          \* the submitter whose connection is gone
    TailLimit,       \* tailLimit of the engine
    ReconnectLimit,  \* connection attempts of one reconnection
    JoinBufferLimit, \* maxJoinBufferedTransactions
    MaxBatches,      \* bound: batches ever submitted
    MaxFaults        \* bound: breaks of a connection and request timeouts

ASSUME LimitsAssumption ==
    /\ {TailLimit, ReconnectLimit, JoinBufferLimit} \subseteq Nat \ {0}
    /\ {MaxBatches, MaxFaults} \subseteq Nat
ASSUME SubmittersAssumption == {HostUser, Nobody} \cap Guests = {}

VARIABLES
    log,       \* the transactions of the engine (batch identities, by sequence)
    engine,    \* activeSubmissions not decided yet: [by, batch]
    committed, \* decided and not published yet: [by, batch, seq], seq 0: refused
    server,    \* "open", "draining", "closing", "closed"
    saved,     \* transactions in the shared file when the host left, -1: did not
    conn,      \* per guest its connection at the server
    toHost,    \* per guest the requests of that connection, in order
    toGuest,   \* per guest the messages it has not received, in order
    guest,     \* per guest its coordinator and transport client
    batches,   \* batches submitted so far
    faults

vars == <<log, engine, committed, server, saved, conn, toHost, toGuest, guest,
          batches, faults>>
hostVars == <<log, engine, committed, server, saved, batches>>

(***************************************************************************)
(* A guest:                                                                *)
(*   phase    where join() stands; "failed" after failGuest, "left" after  *)
(*            leave() or a join that failed                                *)
(*   link     its socket: "down", "opening", "auth" (accepted), "ready"    *)
(*   token    its reconnect token is the one the server stored             *)
(*   doc      its replica; lastSeq its position; acked its acknowledged    *)
(*            batches; sent its batch that awaits an answer (0: none)      *)
(*   queue    applyQueue: operations [op, seq, batch], the first one runs  *)
(*   run      what the first operation does: "idle", "connecting" and       *)
(*            "waiting" for a resynchronisation, "applying" the            *)
(*            transactions of feed; "stranded": its connect() never ends   *)
(*   buffer   bufferedTransactions of join()                               *)
(*   attempt  the attempt of reconnectGuest that runs, 0: none, Hung: its  *)
(*            connect() never ends                                         *)
(***************************************************************************)
Hung == -1

NewGuest == [phase |-> "out", link |-> "down", token |-> FALSE, doc |-> <<>>,
             lastSeq |-> 0, acked |-> {}, sent |-> 0, queue |-> <<>>,
             run |-> "idle", feed |-> <<>>, buffer |-> <<>>, attempt |-> 0]

Phases == {"out", "connecting", "syncing", "cloning", "handoff", "fence",
           "announce", "live", "failed", "left"}

TypeOK ==
    /\ log \in Seq(1..MaxBatches) /\ saved \in -1..Len(log)
    /\ server \in {"open", "draining", "closing", "closed"}
    /\ conn \in [Guests -> {"none", "pending", "accepted", "ready", "stale"}]
    /\ \A g \in Guests :
          /\ guest[g].phase \in Phases
          /\ guest[g].link \in {"down", "opening", "auth", "ready"}
          /\ guest[g].run \in {"idle", "connecting", "waiting", "applying", "stranded"}
          /\ guest[g].attempt \in Hung..ReconnectLimit
          /\ guest[g].run # "idle" => guest[g].queue # <<>>
          /\ guest[g].link = "down" => toGuest[g] = <<>>
    /\ batches \in 0..MaxBatches /\ faults \in 0..MaxFaults

Init ==
    /\ log = <<>> /\ engine = <<>> /\ committed = <<>>
    /\ server = "open" /\ saved = -1
    /\ conn = [g \in Guests |-> "none"]
    /\ toHost = [g \in Guests |-> <<>>]
    /\ toGuest = [g \in Guests |-> <<>>]
    /\ guest = [g \in Guests |-> NewGuest]
    /\ batches = 0 /\ faults = 0

Bootstrapping == {"connecting", "syncing", "cloning"}
Joining == Bootstrapping \cup {"handoff", "fence", "announce"}
Attached == {"handoff", "fence", "announce", "live"}
-----------------------------------------------------------------------------
(* What happens to the guest itself, as functions of its record.           *)

Operation(r) == Head(r.queue)
Finished(r) == [r EXCEPT !.queue = Tail(@), !.run = "idle", !.feed = <<>>]
Down(r) == [r EXCEPT !.link = "down", !.sent = 0]

\* leave(), or the catch clause of join(): its session is gone.
Left(r) == [NewGuest EXCEPT !.phase = "left", !.doc = r.doc,
                            !.lastSeq = r.lastSeq, !.acked = r.acked]

\* failGuest: the client is closed, the copy stays as it is.  join() fails
\* when this happens before it returns, unless it waits for a stranded
\* operation.  What is queued still runs.
FailGuest(r) ==
    IF r.phase \in Joining /\ r.run # "stranded" THEN Left(r)
    ELSE [Down(r) EXCEPT !.phase = "failed", !.attempt = 0]

\* The catch clause of one attempt of reconnectGuest.
AttemptFails(r) ==
    IF r.attempt < ReconnectLimit THEN [Down(r) EXCEPT !.attempt = @ + 1]
    ELSE FailGuest(r)

\* The operation at the head of the apply queue rejects.
OperationFails(r) ==
    IF Operation(r).op = "recon" /\ r.phase # "failed" THEN AttemptFails(Finished(r))
    ELSE FailGuest(Finished(r))

ReconnectQueued(r) == \E i \in DOMAIN r.queue : r.queue[i].op = "recon"

\* The disconnect listener, and what connect() rejects.  A connection that ends
\* while the reconnection still applies what it fetched starts no other.
AfterDrop(r) ==
    IF r.phase \in Bootstrapping \cup {"announce"} THEN Left(r)
    ELSE IF r.run \in {"connecting", "waiting"} THEN OperationFails(r)
    ELSE IF r.attempt > 0 /\ ~ReconnectQueued(r) THEN AttemptFails(r)
    ELSE IF r.attempt = 0 /\ r.phase \in Attached THEN [Down(r) EXCEPT !.attempt = 1]
    ELSE Down(r)

\* What becomes of reconnectGuest when the connection that was being made is
\* forgotten: it is started if it was not running, waits for ever if it waits for
\* this connection, and goes on if it waits for its queue, or for its next attempt
\* while an operation connects.
AttemptsAfterSilence(r) ==
    IF r.attempt = 0 THEN {IF r.phase \in Attached THEN 1 ELSE 0}
    ELSE IF r.attempt = Hung \/ ReconnectQueued(r) THEN {r.attempt}
    ELSE IF r.run = "connecting" /\ r.attempt > 1 THEN {r.attempt, Hung}
    ELSE {Hung}

\* handleClose of a socket that closes without an error after auth.accepted and
\* before the presence snapshot: connect() is neither resolved nor rejected, its
\* callbacks and its timer are dropped.  What awaits it waits for ever, join()
\* in phase "connecting" too.
AfterSilence(r) ==
    {[Down(r) EXCEPT !.attempt = a, !.run = IF @ = "connecting" THEN "stranded" ELSE @] :
        a \in AttemptsAfterSilence(r)}

AfterClose(r) == {AfterDrop(r)} \cup IF r.link = "auth" THEN AfterSilence(r) ELSE {}

\* The client becomes r; when r closed its socket, the server's end is stale.
Becomes(g, r, rest) ==
    /\ guest' = [guest EXCEPT ![g] = r]
    /\ toGuest' = [toGuest EXCEPT ![g] = IF r.link = "down" THEN <<>> ELSE rest]
    /\ conn' = [conn EXCEPT ![g] =
                 IF r.link = "down" /\ guest[g].link # "down" /\ @ # "none"
                 THEN "stale" ELSE @]

Request(g, r) == toHost' = [toHost EXCEPT ![g] = Append(@, r)]
Send(g, m) == toGuest' = [toGuest EXCEPT ![g] = Append(@, m)]
-----------------------------------------------------------------------------
(* Joining.                                                                *)

Join(g) ==
    /\ guest[g].phase = "out"
    /\ guest' = [guest EXCEPT ![g].phase = "connecting", ![g].link = "opening"]
    /\ UNCHANGED <<hostVars, conn, toHost, toGuest, faults>>

\* client.connect() has returned: the initial resynchronisation.
RequestInitial(g) ==
    /\ guest[g].phase = "connecting" /\ guest[g].link = "ready"
    /\ guest' = [guest EXCEPT ![g].phase = "syncing"]
    /\ Request(g, [type |-> "resync", after |-> 0, known |-> <<>>])
    /\ UNCHANGED <<hostVars, conn, toGuest, faults>>

\* The clone exists: what was buffered meanwhile enters the apply queue, in
\* order and in one step.
Handoff(g) ==
    /\ guest[g].phase = "cloning"
    /\ guest' = [guest EXCEPT ![g].phase = "handoff", ![g].buffer = <<>>,
           ![g].queue = [i \in DOMAIN guest[g].buffer |->
               [op |-> "join", seq |-> guest[g].buffer[i]]]]
    /\ UNCHANGED <<hostVars, conn, toHost, toGuest, faults>>

\* The handed over transactions are applied: queue the fence, or give up.
Fence(g) ==
    LET r == guest[g] IN
    /\ r.phase = "handoff"
    /\ \A i \in DOMAIN r.queue : r.queue[i].op # "join"
    /\ Becomes(g, IF r.link = "ready"
                  THEN [r EXCEPT !.phase = "fence",
                                 !.queue = Append(@, [op |-> "fence", seq |-> 0])]
                  ELSE Left(r), toGuest[g])
    /\ UNCHANGED <<hostVars, toHost, faults>>

\* The apply queue has drained: announce the guest's presence, or give up.
Announce(g) ==
    LET r == guest[g] IN
    /\ r.phase = "fence" /\ r.queue = <<>>
    /\ Becomes(g, IF r.link = "ready" THEN [r EXCEPT !.phase = "announce"]
                  ELSE Left(r), toGuest[g])
    /\ UNCHANGED <<hostVars, toHost, faults>>

\* The answer to the presence update: join() returns.
Joined(g) ==
    /\ guest[g].phase = "announce" /\ guest[g].queue = <<>>
    /\ guest' = [guest EXCEPT ![g].phase = "live"]
    /\ UNCHANGED <<hostVars, conn, toHost, toGuest, faults>>

\* The guest has left when its state is forgotten, also when leave() then waits
\* for a reconnection that never ends.
Leave(g) ==
    /\ guest[g].phase \in {"live", "failed"}
    /\ Becomes(g, Left(guest[g]), <<>>)
    /\ UNCHANGED <<hostVars, toHost, faults>>
-----------------------------------------------------------------------------
(* Connecting: the server's authentication, and the guest's attempts.      *)

Admit(g) == conn' = [conn EXCEPT ![g] = "accepted"] /\ Send(g, [type |-> "accepted"])
Reject(g, final) == Send(g, [type |-> "rejected", final |-> final])

\* authenticate: an identity that is still connected is rejected; a reconnect
\* grant admits at once, unless it expired; else the host's user decides.
Authenticate(g) ==
    /\ guest[g].link = "opening" /\ toGuest[g] = <<>> /\ server # "closed"
    /\ \/ conn[g] = "stale" /\ Reject(g, FALSE) /\ UNCHANGED <<conn, guest>>
       \/ /\ conn[g] = "none" /\ guest[g].token /\ Admit(g)
          /\ guest' = [guest EXCEPT ![g].token = FALSE]
       \/ /\ conn[g] = "none" /\ UNCHANGED <<toGuest, guest>>
          /\ conn' = [conn EXCEPT ![g] = "pending"]
    /\ UNCHANGED <<hostVars, toHost, faults>>

\* approveJoin, rejectJoin or the approval timeout.
DecideJoin(g) ==
    /\ conn[g] = "pending"
    /\ \/ Admit(g) /\ guest' = [guest EXCEPT ![g].token = FALSE]
       \/ /\ Reject(g, TRUE) /\ conn' = [conn EXCEPT ![g] = "stale"]
          /\ UNCHANGED guest
    /\ UNCHANGED <<hostVars, toHost, faults>>

\* auth.accepted has been sent: the presence snapshot is queued and the
\* connection takes part in broadcasts from here on.
Bootstrap(g) ==
    /\ conn[g] = "accepted"
    /\ conn' = [conn EXCEPT ![g] = "ready"]
    /\ Send(g, [type |-> "presence"])
    /\ UNCHANGED <<hostVars, toHost, guest, faults>>

\* reconnectGuest: the next attempt connects.
Reconnect(g) ==
    LET r == guest[g] IN
    /\ r.attempt > 0 /\ r.link = "down" /\ ~ReconnectQueued(r)
    /\ guest' = [guest EXCEPT ![g].link = "opening"]
    /\ UNCHANGED <<hostVars, conn, toHost, toGuest, faults>>

JustReconnected(r) == r.attempt > 0 /\ r.link = "ready" /\ ~ReconnectQueued(r)

\* Variant: the reconnection is over once connected.
QueueNoResync(g) ==
    /\ JustReconnected(guest[g])
    /\ guest' = [guest EXCEPT ![g].attempt = 0]
    /\ UNCHANGED <<hostVars, conn, toHost, toGuest, faults>>

\* ... and once connected, queues its resynchronisation.
QueueReconnectResync(g) ==
    /\ JustReconnected(guest[g])
    /\ guest' = [guest EXCEPT ![g].queue = Append(@, [op |-> "recon", seq |-> 0])]
    /\ UNCHANGED <<hostVars, conn, toHost, toGuest, faults>>

\* Variant: the heartbeat waits for a connection instead of making one.
HeartbeatPassive(g) ==
    /\ guest[g].phase = "live" /\ guest[g].link = "ready"
    /\ UNCHANGED vars

\* The presence heartbeat reconnects a guest that is not connected.
Heartbeat(g) ==
    LET r == guest[g] IN
    /\ r.phase = "live" /\ r.link = "down" /\ r.attempt = 0
    /\ guest' = [guest EXCEPT ![g].attempt = 1]
    /\ UNCHANGED <<hostVars, conn, toHost, toGuest, faults>>
-----------------------------------------------------------------------------
(* The apply queue.                                                        *)

Revision(seq) == SubSeq(log, 1, seq)

\* The replica's revision is the transaction's beforeRevision.
Fits(r, seq) == r.doc = Revision(seq - 1)

Applied(r, seq) == [r EXCEPT !.doc = Append(@, log[seq]), !.lastSeq = seq]

\* The operation at the head ends: execute() returns its own transaction, the
\* reconnection is over.
Completed(r) ==
    LET o == Operation(r) IN
    [Finished(r) EXCEPT
        !.acked = IF o.op = "own" THEN @ \cup {log[o.seq]} ELSE @,
        !.attempt = IF o.op = "recon" THEN 0 ELSE @]

\* resyncGuest asks for it: getResync connects first when it has to.
Resyncing(r) == [r EXCEPT !.run = "connecting",
                          !.link = IF @ = "down" THEN "opening" ELSE @]

\* Variant: whatever transaction comes next is applied.
BeginInArrivalOrder(r) ==
    LET o == Operation(r) IN
    IF o.op \in {"fence", "recon"} THEN Resyncing(r)
    ELSE IF o.seq <= r.lastSeq THEN Completed(r)
    ELSE Completed(Applied(r, o.seq))

\* queueGuestTransaction, queueGuestResyncFence and the resynchronisation of a
\* reconnection, up to their first await.
Begin(r) ==
    LET o == Operation(r) IN
    IF o.op \in {"fence", "recon"} THEN Resyncing(r)
    ELSE IF o.seq <= r.lastSeq THEN Completed(r)
    ELSE IF o.seq = r.lastSeq + 1 /\ Fits(r, o.seq) THEN Completed(Applied(r, o.seq))
    ELSE Resyncing(r)

\* One transaction of a resynchronisation, which must fit; after the last one
\* the operation that asked for it goes on.
Continue(r) ==
    LET o == Operation(r) IN
    IF r.feed = <<>>
    THEN IF o.op \in {"fence", "recon"} \/ o.seq <= r.lastSeq THEN Completed(r)
         ELSE [r EXCEPT !.run = "idle"]
    ELSE LET seq == Head(r.feed) IN
         IF seq <= r.lastSeq THEN [r EXCEPT !.feed = Tail(@)]
         ELSE IF Fits(r, seq) THEN [Applied(r, seq) EXCEPT !.feed = Tail(@)]
         ELSE OperationFails(r)

RunQueue(g) ==
    LET r == guest[g] IN
    /\ r.queue # <<>> /\ r.run \in {"idle", "applying"}
    /\ Becomes(g, IF r.run = "idle" THEN Begin(r) ELSE Continue(r), toGuest[g])
    /\ UNCHANGED <<hostVars, toHost, faults>>

RequestResync(g) ==
    /\ guest[g].run = "connecting" /\ guest[g].link = "ready"
    /\ guest' = [guest EXCEPT ![g].run = "waiting"]
    /\ Request(g, [type |-> "resync", after |-> guest[g].lastSeq, known |-> guest[g].doc])
    /\ UNCHANGED <<hostVars, conn, toGuest, faults>>
-----------------------------------------------------------------------------
(* Messages to a guest.                                                    *)

\* A transaction is buffered until the guest's copy exists, then queued.
OnTransaction(r, seq) ==
    IF r.phase \in Bootstrapping
    THEN IF Len(r.buffer) >= JoinBufferLimit THEN Left(r)
         ELSE [r EXCEPT !.buffer = Append(@, seq)]
    ELSE IF r.phase \in Attached
    THEN [r EXCEPT !.queue = Append(@, [op |-> "peer", seq |-> seq])]
    ELSE r

\* Variant: execute() returns with the answer.
OnResultReturn(r, seq) ==
    IF r.sent = 0 \/ r.phase \notin Attached THEN r
    ELSE [r EXCEPT !.sent = 0, !.acked = @ \cup {log[seq]}]

\* The guest's own batch was committed: execute() queues it as well.
OnResult(r, seq) ==
    IF r.sent = 0 \/ r.phase \notin Attached THEN r
    ELSE [r EXCEPT !.sent = 0, !.queue = Append(@, [op |-> "own", seq |-> seq])]

\* A snapshot is of use to a join only.
OnResync(r, m) ==
    IF r.phase = "syncing"
    THEN [r EXCEPT !.phase = "cloning", !.doc = Revision(m.to), !.lastSeq = m.to]
    ELSE IF r.run # "waiting" THEN r
    ELSE IF m.snapshot THEN OperationFails(r)
    ELSE [r EXCEPT !.run = "applying",
                   !.feed = [i \in 1..(m.to - m.from) |-> m.from + i]]

\* A rejection that will not change ends the reconnection.
OnRejected(r, final) ==
    IF final /\ r.attempt > 0
    THEN FailGuest(IF r.run = "connecting" THEN Finished(r) ELSE r)
    ELSE AfterDrop(r)

Receive(g) ==
    LET r == guest[g]
        m == Head(toGuest[g])
    IN
    /\ toGuest[g] # <<>>
    /\ Becomes(g,
          CASE m.type = "accepted" -> [r EXCEPT !.link = "auth", !.token = TRUE]
            [] m.type = "presence" -> [r EXCEPT !.link = "ready"]
            [] m.type = "rejected" -> OnRejected(r, m.final)
            [] m.type = "tx"       -> OnTransaction(r, m.seq)
            [] m.type = "result"   -> OnResult(r, m.seq)
            [] m.type = "error"    -> [r EXCEPT !.sent = 0]
            [] m.type = "resync"   -> OnResync(r, m),
          Tail(toGuest[g]))
    /\ UNCHANGED <<hostVars, toHost, faults>>
-----------------------------------------------------------------------------
(* The host.                                                               *)

\* execute() of a guest: one batch at a time.
Submit(g) ==
    LET r == guest[g] IN
    /\ r.phase = "live" /\ r.link = "ready" /\ r.sent = 0 /\ batches < MaxBatches
    /\ batches' = batches + 1
    /\ guest' = [guest EXCEPT ![g].sent = batches + 1]
    /\ Request(g, [type |-> "submit", batch |-> batches + 1])
    /\ UNCHANGED <<log, engine, committed, server, saved, conn, toGuest, faults>>

\* submitAndBroadcast of the host's user, while submissions are accepted.
HostSubmit ==
    /\ server = "open" /\ batches < MaxBatches
    /\ batches' = batches + 1
    /\ engine' = Append(engine, [by |-> HostUser, batch |-> batches + 1])
    /\ UNCHANGED <<log, committed, server, saved, conn, toHost, toGuest, guest, faults>>

\* The connection's request queue runs one request at a time.
Busy(g) == \E q \in {engine, committed} : \E i \in DOMAIN q : q[i].by = g

Answer(g, req) ==
    [type |-> "resync", from |-> req.after, to |-> Len(log),
     snapshot |-> req.after + TailLimit < Len(log) \/ req.known # Revision(req.after)]

\* handleRequest.  A connection whose end was not noticed still submits.
HandleRequest(g) ==
    LET req == Head(toHost[g]) IN
    /\ toHost[g] # <<>> /\ conn[g] \in {"ready", "stale"} /\ ~Busy(g)
    /\ toHost' = [toHost EXCEPT ![g] = Tail(@)]
    /\ IF req.type = "submit" /\ server = "open"
       THEN /\ engine' = Append(engine, [by |-> g, batch |-> req.batch])
            /\ UNCHANGED toGuest
       ELSE /\ UNCHANGED engine
            /\ IF conn[g] = "stale" THEN UNCHANGED toGuest
               ELSE Send(g, IF req.type = "resync" THEN Answer(g, req)
                            ELSE [type |-> "error"])
    /\ UNCHANGED <<log, committed, server, saved, conn, guest, batches, faults>>

\* The engine commits the batch, or refuses it (a conflict, an invalid command,
\* a journal that cannot be written).
Decide ==
    LET s == Head(engine) IN
    /\ engine # <<>>
    /\ engine' = Tail(engine)
    /\ \/ /\ log' = Append(log, s.batch)
          /\ committed' = Append(committed, [by |-> s.by, seq |-> Len(log) + 1])
       \/ /\ UNCHANGED log
          /\ committed' = Append(committed, [by |-> s.by, seq |-> 0])
    /\ UNCHANGED <<server, saved, conn, toHost, toGuest, guest, batches, faults>>

\* What a decision sends to a guest: the broadcast, then the submitter's answer.
Messages(g, d) ==
    IF conn[g] # "ready" THEN <<>>
    ELSE (IF d.seq = 0 THEN <<>> ELSE <<[type |-> "tx", seq |-> d.seq]>>) \o
         (IF d.by # g THEN <<>>
          ELSE <<IF d.seq = 0 THEN [type |-> "error"]
                 ELSE [type |-> "result", seq |-> d.seq]>>)

Publish ==
    /\ committed # <<>>
    /\ committed' = Tail(committed)
    /\ toGuest' = [g \in Guests |-> toGuest[g] \o Messages(g, Head(committed))]
    /\ UNCHANGED <<log, engine, server, saved, conn, toHost, guest, batches, faults>>

\* closeSubmissionAdmissionAndDrain of leave().
BeginLeave ==
    /\ server = "open"
    /\ server' = "draining"
    /\ UNCHANGED <<log, engine, committed, saved, conn, toHost, toGuest, guest,
                   batches, faults>>

\* Variant: the drain does not wait for what the engine still decides.
SaveAtOnce ==
    /\ server = "draining"
    /\ server' = "closing" /\ saved' \in {Len(log), -1}
    /\ UNCHANGED <<log, engine, committed, conn, toHost, toGuest, guest, batches, faults>>

\* Everything admitted is decided and published: leave() saves.  The save may
\* fail, and the host with it.
Save ==
    /\ server = "draining" /\ engine = <<>> /\ committed = <<>>
    /\ server' = "closing" /\ saved' \in {Len(log), -1}
    /\ UNCHANGED <<log, engine, committed, conn, toHost, toGuest, guest, batches, faults>>

\* failHost: the heartbeat of the writer lease failed.
HostFails ==
    /\ server = "open"
    /\ server' = "closing"
    /\ UNCHANGED <<log, engine, committed, saved, conn, toHost, toGuest, guest,
                   batches, faults>>

\* server.close() drains as well, then drops every connection.
Close ==
    /\ server = "closing" /\ engine = <<>> /\ committed = <<>>
    /\ server' = "closed"
    /\ conn' = [g \in Guests |-> "none"] /\ toHost' = [g \in Guests |-> <<>>]
    /\ UNCHANGED <<log, engine, committed, saved, toGuest, guest, batches, faults>>
-----------------------------------------------------------------------------
(* Connections that break, and who notices when.                           *)

Orphaned(q, g) == [i \in DOMAIN q |-> IF q[i].by = g THEN [q[i] EXCEPT !.by = Nobody]
                                      ELSE q[i]]

\* removeConnection: requests in flight are still decided, nobody is answered.
Forget(g) ==
    /\ conn' = [conn EXCEPT ![g] = "none"]
    /\ toHost' = [toHost EXCEPT ![g] = <<>>]
    /\ engine' = Orphaned(engine, g) /\ committed' = Orphaned(committed, g)
    /\ UNCHANGED <<log, server, saved, toGuest, guest, batches>>

\* The server notices that a guest's socket is closed.
ServerNotices(g) == conn[g] = "stale" /\ Forget(g) /\ UNCHANGED faults

\* The server drops a guest: its queue is full, a send failed or timed out.
ServerRemoves(g) ==
    /\ conn[g] = "ready" /\ faults < MaxFaults
    /\ Forget(g) /\ faults' = faults + 1

\* The guest's socket closes although the server did not close it.
Drop(g) ==
    LET r == guest[g] IN
    /\ r.link # "down" /\ ~JustReconnected(r) /\ faults < MaxFaults
    /\ faults' = faults + 1
    /\ \E s \in AfterClose(r) : Becomes(g, s, <<>>)
    /\ UNCHANGED <<hostVars, toHost>>

\* The guest notices that the server closed its connection or refuses one;
\* what it had not received is lost.
GuestNotices(g) ==
    LET r == guest[g] IN
    /\ conn[g] = "none" /\ ~JustReconnected(r)
    /\ r.link \in {"auth", "ready"} \/ (r.link = "opening" /\ server = "closed")
    /\ \E s \in AfterClose(r) : Becomes(g, s, <<>>)
    /\ UNCHANGED <<hostVars, toHost, faults>>

\* A request times out at the guest: what waits for it gives up.
Timeout(g) ==
    LET r == guest[g] IN
    /\ faults < MaxFaults /\ faults' = faults + 1
    /\ \/ r.phase = "syncing" /\ Becomes(g, Left(r), <<>>)
       \/ r.run = "waiting" /\ Becomes(g, OperationFails(r), <<>>)
       \/ r.sent # 0 /\ Becomes(g, [r EXCEPT !.sent = 0], toGuest[g])
    /\ UNCHANGED <<hostVars, toHost>>
-----------------------------------------------------------------------------
HostProgress == Decide \/ Publish \/ Save \/ Close

GuestProgress(g) ==
    \/ RequestInitial(g) \/ Handoff(g) \/ Fence(g) \/ Announce(g) \/ Joined(g)
    \/ Reconnect(g) \/ QueueReconnectResync(g) \/ RunQueue(g) \/ RequestResync(g)
    \/ Receive(g)

Next ==
    \/ HostProgress \/ HostSubmit \/ BeginLeave \/ HostFails
    \/ \E g \in Guests :
          \/ GuestProgress(g) \/ GuestNotices(g) \/ Heartbeat(g)
          \/ Authenticate(g) \/ DecideJoin(g) \/ Bootstrap(g)
          \/ HandleRequest(g) \/ ServerNotices(g)
          \/ Join(g) \/ Leave(g) \/ Submit(g)
          \/ ServerRemoves(g) \/ Drop(g) \/ Timeout(g)

Spec == Init /\ [][Next]_vars

\* Promise chains, timers and sockets make progress; users, and faults, need not.
Fairness ==
    /\ WF_vars(HostProgress)
    /\ \A g \in Guests :
          /\ WF_vars(GuestProgress(g)) /\ WF_vars(GuestNotices(g))
          /\ WF_vars(Heartbeat(g))
          /\ WF_vars(Authenticate(g)) /\ WF_vars(DecideJoin(g))
          /\ WF_vars(Bootstrap(g)) /\ WF_vars(HandleRequest(g))
          /\ WF_vars(ServerNotices(g))

FairSpec == Spec /\ Fairness
-----------------------------------------------------------------------------
(* Properties.                                                             *)

\* Every replica is at all times a beginning of the host's log and only moves
\* forward along it, whatever is buffered, fetched, broadcast twice or lost
\* (queueGuestTransaction, resyncGuest, the handoff of join()).
Deck == INSTANCE ReplicatedDeck
            WITH Replicas <- Guests, Transactions <- 1..MaxBatches,
                 history <- log, copy <- [g \in Guests |-> guest[g].doc]
ReplicasFollow == Deck!Spec

\* A transaction is decided but not broadcast, or on its way to the guest.
OnItsWay(g, seq) ==
    \/ \E i \in DOMAIN committed : committed[i].seq = seq
    \/ \E i \in DOMAIN toGuest[g] :
          toGuest[g][i].type = "tx" /\ toGuest[g][i].seq = seq

\* A connected guest that has nothing left to do misses no transaction that is
\* not still coming: none falls between the acceptance of a connection, the
\* readiness the broadcast looks at and the resynchronisation.
NoSilentGap ==
    \A g \in Guests :
       LET r == guest[g] IN
       r.phase = "live" /\ r.link = "ready" /\ conn[g] = "ready"
         /\ r.queue = <<>> /\ r.attempt = 0 =>
           \A seq \in (Len(r.doc) + 1)..Len(log) : OnItsWay(g, seq)

\* When execute() has returned to a guest, its replica shows the edit.
ReadYourWrites ==
    \A g \in Guests : \A b \in guest[g].acked :
       \E i \in DOMAIN guest[g].doc : guest[g].doc[i] = b

\* After a host has left, no guest holds an edit that the shared file lacks:
\* admission closes and what was admitted drains before the save.
NothingBeyondTheFile ==
    saved # -1 => \A g \in Guests : Len(guest[g].doc) <= saved

\* Something of this guest awaits a connect() that never ends.
Stranded(r) ==
    \/ r.phase = "connecting" /\ r.link = "down"
    \/ r.run = "stranded" \/ r.attempt = Hung

\* Once the breaks stop, a guest that is neither gone nor failed, and waits for
\* no connection that was forgotten, ends up connected and with the whole log:
\* no disconnection is overlooked (reconnectGuest, the heartbeat, failGuest).
Convergence ==
    \A g \in Guests :
       <>[](\/ guest[g].phase \in {"out", "left", "failed"} \/ Stranded(guest[g])
            \/ guest[g].link = "ready" /\ guest[g].doc = log)

\* "A disconnected peer becomes read-only after its bounded reconnect window"
\* (spec.md): it is connected again, fails or leaves.  A connect() that never
\* ends keeps it reconnecting.
ReconnectWindowEnds ==
    \A g \in Guests :
       guest[g].phase = "live" /\ guest[g].link = "down" ~>
          guest[g].link = "ready" \/ guest[g].phase \in {"failed", "left"}

\* status() calls a failed guest "read-only and disconnected".
FailedGuestIsDisconnected ==
    \A g \in Guests : guest[g].phase = "failed" => guest[g].link # "ready"
=============================================================================
