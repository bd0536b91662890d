------------------------- MODULE EditorWindow_proofs -------------------------
(***************************************************************************)
(* Proofs about the editor window, for any sessions, replacements, tasks   *)
(* and bounds.  Two inductive invariants: who owns the open sessions and   *)
(* what was agreed to be discarded, and the handshake that seals the       *)
(* renderer while a close is decided.                                      *)
(***************************************************************************)
EXTENDS EditorWindow, SequenceTheorems, FiniteSetTheorems, TLAPS

SessionTypes ==
    /\ session \in [Sessions -> SessionRecord]
    /\ window \in {"open", "destroyed"} /\ shows \in Sessions \cup {None}
    /\ close \in CloseRecord
    /\ replace \in [Replacements -> ReplaceRecord]
    /\ window = "destroyed" => shows = None /\ close.at = "none"
    /\ close.at \in Decided => close.session \in Sessions
    /\ \A o \in Replacements :
          /\ replace[o].at \notin {"none", "done"} => replace[o].session \in Sessions

\* A replacement owns the session it opened until it is shown or closed.
Owning(o) == replace[o].at \in {"assign", "replace", "cleanup"}

Ownership ==
    /\ \A o \in Replacements :
          Owning(o) => /\ replace[o].new \in Sessions /\ replace[o].new # shows
                       /\ session[replace[o].new].state = "open"
                       /\ ~session[replace[o].new].shown
    /\ \A o, p \in Replacements :
          Owning(o) /\ Owning(p) /\ o # p => replace[o].new # replace[p].new

\* What is about to be closed is what the window shows, or is closed already.
Targets ==
    /\ close.at \in Decided =>
          shows = close.session \/ session[close.session].state = "closed"
    /\ \A o \in Replacements :
          replace[o].at = "replace" =>
             shows = replace[o].session \/ session[replace[o].session].state = "closed"
    /\ \A o \in Replacements :
          replace[o].at \notin {"none", "done"} => session[replace[o].session].state # "absent"

\* A decision to discard is for a revision the user agreed to discard.
Discards ==
    /\ close.at \in {"prompt", "saving", "ending", "detached"} => ~close.discard
    /\ close.at = "closing" /\ close.discard => close.rev \in session[close.session].agreed
    /\ \A o \in Replacements :
          /\ replace[o].at \in {"prompt", "saving", "ending"} => ~replace[o].discard
          /\ replace[o].at \in {"opening", "assign", "replace"} /\ replace[o].discard =>
                replace[o].rev \in session[replace[o].session].agreed

SessionInv == SessionTypes /\ SessionsAreOwned /\ Ownership /\ Targets /\ Discards
              /\ NothingDiscardedUnasked
-----------------------------------------------------------------------------
IsRequest(m, n) == m.type = "request" /\ m.req = n
IsRelease(m, n) == m.type = "release" /\ m.req = n

HandshakeTypes ==
    /\ window \in {"open", "destroyed"}
    /\ close \in CloseRecord
    /\ window = "destroyed" => close.at = "none" /\ toRenderer = <<>>
    /\ late \subseteq Nat \ {None} /\ renderer \in RendererRecord
    /\ toRenderer \in Seq(ToRenderer) /\ toMain \in Seq(ToMain)

\* No message is of a request that was not made; a request is waited for only
\* while main asks; a sealed renderer has prepared for that request.
Requests ==
    /\ broker # None => broker = close.req /\ close.at = "asking"
    /\ close.at # "none" \/ window = "destroyed" => close.req # None
    /\ \A i \in 1..Len(toRenderer) : toRenderer[i].req <= close.req
    /\ \A i \in 1..Len(toMain) : toMain[i].req <= close.req
    /\ renderer.preparing <= close.req
    /\ renderer.seal # None => renderer.seal = renderer.preparing

\* A request that is waited for is in one place: on its way to the renderer, in
\* preparation there, or answered.  One in those places that is not waited for
\* any more is late.
RequestInOnePlace ==
    /\ \A i \in 1..Len(toRenderer) :
          toRenderer[i].type = "request" =>
             toRenderer[i].req \in late \/ (broker # None /\ toRenderer[i].req = broker)
    /\ renderer.preparing # None /\ renderer.seal = None =>
          renderer.preparing \in late \/ renderer.preparing = broker
    /\ broker # None =>
          /\ \A i, j \in 1..Len(toRenderer) :
                IsRequest(toRenderer[i], broker) /\ IsRequest(toRenderer[j], broker) => i = j
          /\ \A i \in 1..Len(toRenderer) :
                IsRequest(toRenderer[i], broker) =>
                   /\ renderer.preparing # broker
                   /\ \A j \in 1..Len(toMain) : toMain[j].req # broker
          /\ renderer.preparing = broker /\ renderer.seal = None =>
                \A j \in 1..Len(toMain) : toMain[j].req # broker

\* A close is released when its decision is over; a renderer that answered ready
\* to the request waited for is sealed for it; one that is sealed for a request
\* given up has its release on the way, unless it is late.
Seals ==
    /\ \A i \in 1..Len(toRenderer) :
          IsRelease(toRenderer[i], close.req) => close.at \in {"none", "refused"}
    /\ \A i \in 1..Len(toMain) :
          toMain[i].decision = "ready" /\ toMain[i].req = broker /\ broker # None =>
             broker \in late \/ renderer.seal = broker
    /\ close.at \in Decided => renderer.seal = close.req \/ close.req \in late
    /\ renderer.seal # None => renderer.draft # "typed"
    /\ window = "destroyed" => renderer.seal = close.req \/ close.req \in late
    /\ window = "open" /\ renderer.seal # None
          /\ (renderer.seal # close.req \/ close.at \in {"none", "refused"}) =>
             \/ renderer.seal \in late
             \/ \E i \in 1..Len(toRenderer) : IsRelease(toRenderer[i], renderer.seal)

HandshakeInv == HandshakeTypes /\ Requests /\ RequestInOnePlace /\ Seals
-----------------------------------------------------------------------------
(* Sessions: what the steps do to them.                                    *)

\* No session opens, closes or is shown for the first time, a closed one does
\* not change, and what was agreed stays agreed.
Preserved ==
    /\ session' \in [Sessions -> SessionRecord]
    /\ \A s \in Sessions :
          /\ session'[s].state = session[s].state /\ session'[s].shown = session[s].shown
          /\ session[s].agreed \subseteq session'[s].agreed
          /\ session[s].state = "closed" =>
                session'[s].rev = session[s].rev /\ session'[s].saved = session[s].saved

LEMMA NoneIsNoSession == None \notin Sessions
BY SessionsAssumption, FS_CardinalityType DEF None

LEMMA SameSessions ==
    ASSUME SessionTypes, UNCHANGED session
    PROVE  Preserved
BY DEF SessionTypes, Preserved

LEMMA OneSession ==
    ASSUME SessionTypes, NEW s \in Sessions, NEW r \in SessionRecord,
           session' = [session EXCEPT ![s] = r],
           r.state = session[s].state, r.shown = session[s].shown,
           session[s].agreed \subseteq r.agreed,
           session[s].state # "closed" \/ (r.rev = session[s].rev /\ r.saved = session[s].saved)
    PROVE  Preserved
BY DEF SessionTypes, Preserved

LEMMA EditPreserves ==
    ASSUME SessionTypes, NEW s \in Sessions, MayEdit(s), session' = Edited(s)
    PROVE  Preserved
<1> DEFINE r == [session[s] EXCEPT !.rev = @ + 1]
<1>1. session[s] \in SessionRecord /\ session[s].state = "open"
  BY DEF SessionTypes, MayEdit
<1>2. /\ r \in SessionRecord /\ r.state = session[s].state /\ r.shown = session[s].shown
      /\ r.agreed = session[s].agreed
  BY <1>1 DEF SessionRecord
<1>3. session' = [session EXCEPT ![s] = r]
  BY DEF Edited
<1> HIDE DEF r
<1> QED BY <1>1, <1>2, <1>3, OneSession

LEMMA SavePreserves ==
    ASSUME SessionTypes, NEW s \in Sessions, session[s].state = "open", session' = Saved(s)
    PROVE  Preserved
<1> DEFINE r == [session[s] EXCEPT !.saved = session[s].rev]
<1>1. session[s] \in SessionRecord
  BY DEF SessionTypes
<1>2. /\ r \in SessionRecord /\ r.state = session[s].state /\ r.shown = session[s].shown
      /\ r.agreed = session[s].agreed
  BY <1>1 DEF SessionRecord
<1>3. session' = [session EXCEPT ![s] = r]
  BY DEF Saved
<1> HIDE DEF r
<1> QED BY <1>2, <1>3, OneSession

LEMMA LeavePreserves ==
    ASSUME SessionTypes, NEW s \in Sessions, session[s].state = "open",
           NEW safe \in BOOLEAN, session' = Left(s, safe)
    PROVE  Preserved
<1> DEFINE saved == IF session[s].mode = "host" /\ safe THEN session[s].rev ELSE session[s].saved
           r == [session[s] EXCEPT !.mode = "offline", !.saved = saved]
<1>1. session[s] \in SessionRecord
  BY DEF SessionTypes
<1>2. /\ r \in SessionRecord /\ r.state = session[s].state /\ r.shown = session[s].shown
      /\ r.agreed = session[s].agreed
  BY <1>1 DEF SessionRecord
<1>3. session' = [session EXCEPT ![s] = r]
  BY DEF Left, SessionTypes
<1> HIDE DEF r
<1> QED BY <1>2, <1>3, OneSession

LEMMA AgreePreserves ==
    ASSUME SessionTypes, NEW s \in Sessions, NEW rev \in Nat, session' = Agreed(s, rev)
    PROVE  Preserved /\ rev \in session'[s].agreed
<1> DEFINE r == [session[s] EXCEPT !.agreed = @ \cup {rev}]
<1>1. session[s] \in SessionRecord
  BY DEF SessionTypes
<1>2. /\ r \in SessionRecord /\ r.state = session[s].state /\ r.shown = session[s].shown
      /\ r.agreed = session[s].agreed \cup {rev} /\ r.rev = session[s].rev
      /\ r.saved = session[s].saved
  BY <1>1 DEF SessionRecord
<1>3. session' = [session EXCEPT ![s] = r]
  BY DEF Agreed
<1> HIDE DEF r
<1>4. Preserved
  BY <1>2, <1>3, OneSession
<1>5. session'[s] = r
  BY <1>3 DEF SessionTypes
<1> QED BY <1>2, <1>4, <1>5

\* The close decision moves, and with it nothing but what Preserved allows.
LEMMA CloseMoves ==
    ASSUME SessionInv, Preserved, UNCHANGED <<window, shows, replace>>, close' \in CloseRecord,
           window = "destroyed" => close'.at = "none",
           close'.at \in Decided =>
              /\ close'.session \in Sessions
              /\ shows = close'.session \/ session[close'.session].state = "closed",
           close'.at \in {"prompt", "saving", "ending", "detached"} => ~close'.discard,
           close'.at = "closing" /\ close'.discard =>
              close'.rev \in session'[close'.session].agreed
    PROVE  SessionInv'
<1>1. SessionTypes'
  BY DEF SessionInv, SessionTypes, Preserved
<1>2. SessionsAreOwned'
  BY DEF SessionInv, SessionsAreOwned, Preserved
<1>3. Ownership'
  BY DEF SessionInv, Ownership, Owning, Preserved
<1>4. Targets'
  BY DEF SessionInv, SessionTypes, Targets, Preserved
<1>5. Discards'
  BY DEF SessionInv, SessionTypes, Discards, Preserved
<1>6. NothingDiscardedUnasked'
  BY DEF SessionInv, NothingDiscardedUnasked, Preserved
<1> QED BY <1>1, <1>2, <1>3, <1>4, <1>5, <1>6 DEF SessionInv

\* A replacement moves, and owns what it owned.
LEMMA ReplaceMoves ==
    ASSUME SessionInv, Preserved, UNCHANGED <<window, shows, close>>, NEW o \in Replacements,
           replace' \in [Replacements -> ReplaceRecord],
           \A p \in Replacements \ {o} : replace'[p] = replace[p],
           replace'[o].at \notin {"none", "done"} =>
              replace'[o].session \in Sessions /\ session[replace'[o].session].state # "absent",
           Owning(o)' <=> Owning(o), Owning(o) => replace'[o].new = replace[o].new,
           replace'[o].at = "replace" =>
              \/ shows = replace'[o].session
              \/ session[replace'[o].session].state = "closed",
           replace'[o].at \in {"prompt", "saving", "ending"} => ~replace'[o].discard,
           replace'[o].at \in {"opening", "assign", "replace"} /\ replace'[o].discard =>
              replace'[o].rev \in session'[replace'[o].session].agreed
    PROVE  SessionInv'
<1>1. SessionTypes'
  BY DEF SessionInv, SessionTypes, Preserved
<1>2. SessionsAreOwned'
  BY DEF SessionInv, SessionsAreOwned, Preserved, Owning
<1>3. Ownership'
  BY DEF SessionInv, Ownership, Owning, Preserved
<1>4. Targets'
  BY DEF SessionInv, SessionTypes, Targets, Preserved
<1>5. Discards'
  <2>1. close.at = "closing" /\ close.discard => close.rev \in session'[close.session].agreed
    BY DEF SessionInv, SessionTypes, Discards, Preserved, Decided
  <2>2. ASSUME NEW p \in Replacements
        PROVE  /\ replace'[p].at \in {"prompt", "saving", "ending"} => ~replace'[p].discard
               /\ replace'[p].at \in {"opening", "assign", "replace"} /\ replace'[p].discard =>
                     replace'[p].rev \in session'[replace'[p].session].agreed
    <3>1. CASE p = o
      BY <3>1
    <3>2. CASE p # o
      BY <3>2 DEF SessionInv, SessionTypes, Discards, Preserved
    <3> QED BY <3>1, <3>2
  <2> QED BY <2>1, <2>2 DEF SessionInv, Discards
<1>6. NothingDiscardedUnasked'
  BY DEF SessionInv, NothingDiscardedUnasked, Preserved
<1> QED BY <1>1, <1>2, <1>3, <1>4, <1>5, <1>6 DEF SessionInv

\* Steps of the users, the agents and the renderer.
LEMMA OnlySessionsMove ==
    ASSUME SessionInv, Preserved, UNCHANGED <<window, shows, close, replace>>
    PROVE  SessionInv'
<1>1. close' \in CloseRecord /\ (window = "destroyed" => close'.at = "none")
  BY DEF SessionInv, SessionTypes
<1>2. close'.at \in Decided =>
         /\ close'.session \in Sessions
         /\ shows = close'.session \/ session[close'.session].state = "closed"
  BY DEF SessionInv, SessionTypes, Targets
<1>3. /\ close'.at \in {"prompt", "saving", "ending", "detached"} => ~close'.discard
      /\ close'.at = "closing" /\ close'.discard =>
            close'.rev \in session'[close'.session].agreed
  BY DEF SessionInv, SessionTypes, Discards, Preserved, Decided
<1> QED BY <1>1, <1>2, <1>3, CloseMoves

LEMMA EditStep ==
    ASSUME SessionInv, UNCHANGED <<window, shows, close, replace>>,
           MayEdit(shows), session' = Edited(shows)
    PROVE  SessionInv'
<1>1. CASE shows \in Sessions
  BY <1>1, EditPreserves, OnlySessionsMove DEF SessionInv
<1>2. CASE shows \notin Sessions
  <2>1. session' = session
    BY <1>2 DEF SessionInv, SessionTypes, Edited
  <2> QED BY <2>1, SameSessions, OnlySessionsMove DEF SessionInv
<1> QED BY <1>1, <1>2

\* The close decision goes on for what the window shows.
LEMMA DecisionGoesOn ==
    ASSUME SessionInv, close.at \in Decided
    PROVE  /\ close.session \in Sessions /\ close \in CloseRecord /\ window = "open"
           /\ shows = close.session \/ session[close.session].state = "closed"
BY DEF SessionInv, SessionTypes, Targets, Decided

LEMMA CloseStops ==
    ASSUME SessionInv, Preserved, UNCHANGED <<window, shows, replace>>,
           \/ \E at \in {"reporting", "refused"} : close' = [close EXCEPT !.at = at]
           \/ close' = Idle,
           close.at # "none"
    PROVE  SessionInv'
<1>1. close \in CloseRecord /\ window = "open"
  BY DEF SessionInv, SessionTypes
<1>2. ASSUME NEW at \in {"reporting", "refused"}, close' = [close EXCEPT !.at = at]
      PROVE  SessionInv'
  <2>1. close' \in CloseRecord /\ close'.at = at
    BY <1>1, <1>2 DEF CloseRecord
  <2> QED BY <1>1, <1>2, <2>1, CloseMoves DEF Decided
<1>3. CASE close' = Idle
  <2>1. close.req \in Nat
    BY <1>1 DEF CloseRecord
  <2>2. close' = [at |-> "none", req |-> close.req, session |-> None, rev |-> 0,
                  discard |-> FALSE]
    BY <1>3 DEF Idle, NoDecision
  <2>3. close' \in CloseRecord /\ close'.at = "none"
    BY <2>1, <2>2 DEF CloseRecord
  <2> QED BY <1>1, <2>3, CloseMoves DEF Decided
<1> QED BY <1>2, <1>3

LEMMA CloseRequestedStep ==
    ASSUME SessionInv, CloseRequested
    PROVE  SessionInv'
<1>1. close \in CloseRecord /\ window = "open"
  BY DEF CloseRequested, SessionInv, SessionTypes
<1>2. close' \in CloseRecord /\ close'.at = "asking"
  <2>1. close.req \in Nat /\ close.req + 1 \in Nat
    BY <1>1 DEF CloseRecord
  <2>2. close' = [close EXCEPT !.at = "asking", !.req = close.req + 1]
    BY DEF CloseRequested
  <2> QED BY <1>1, <2>1, <2>2 DEF CloseRecord
<1> QED BY <1>1, <1>2, SameSessions, CloseMoves DEF CloseRequested, Decided, SessionInv

LEMMA AuthorizedStep ==
    ASSUME SessionInv, Authorized, close.at # "none", UNCHANGED <<session, window, shows, replace>>
    PROVE  SessionInv'
<1>1. /\ close \in CloseRecord /\ window = "open" /\ shows \in Sessions
      /\ session[shows] \in SessionRecord
  BY DEF SessionInv, SessionTypes, SessionsAreOwned
<1>2. /\ close' \in CloseRecord /\ close'.at \in {"ending", "prompt", "closing"}
      /\ close'.session = shows /\ ~close'.discard
  BY <1>1 DEF Authorized, CloseRecord, SessionRecord
<1> QED BY <1>1, <1>2, SameSessions, CloseMoves DEF SessionInv

LEMMA MainReceivesStep ==
    ASSUME SessionInv, HandshakeInv, MainReceives
    PROVE  SessionInv'
<1>1. UNCHANGED <<session, window, shows, replace>>
  BY DEF MainReceives
<1>2. CASE UNCHANGED close
  BY <1>1, <1>2, SameSessions, OnlySessionsMove DEF SessionInv
<1>3. CASE Answers(Head(toMain)) /\ (Authorized \/ Refused)
  <2>1. close.at # "none"
    BY <1>3 DEF Answers, HandshakeInv, Requests
  <2>2. CASE Authorized
    BY <1>1, <2>1, <2>2, AuthorizedStep
  <2>3. CASE Refused
    BY <1>1, <2>1, <2>3, SameSessions, CloseStops DEF Refused, SessionInv
  <2> QED BY <1>3, <2>2, <2>3
<1> QED BY <1>2, <1>3 DEF MainReceives

LEMMA HandshakeTimesOutStep ==
    ASSUME SessionInv, HandshakeInv, HandshakeTimesOut
    PROVE  SessionInv'
<1>1. close.at # "none"
  BY DEF HandshakeTimesOut, HandshakeInv, HandshakeTypes, Requests
<1> QED BY <1>1, SameSessions, CloseStops DEF HandshakeTimesOut, Refused, SessionInv

LEMMA ReportDismissedStep ==
    ASSUME SessionInv, ReportDismissed
    PROVE  SessionInv'
BY SameSessions, CloseStops DEF ReportDismissed, Retain, SessionInv

LEMMA PromptedStep ==
    ASSUME SessionInv, Prompted
    PROVE  SessionInv'
<1>1. close.at \in {"prompt", "detached"} /\ UNCHANGED <<window, shows, replace>>
  BY DEF Prompted
<1>2. /\ close.session \in Sessions /\ close \in CloseRecord /\ window = "open"
      /\ shows = close.session \/ session[close.session].state = "closed"
      /\ ~close.discard
  BY <1>1, DecisionGoesOn DEF SessionInv, Discards, Decided
<1>3. CASE Goes("saving") /\ UNCHANGED session
  <2>1. /\ close' \in CloseRecord /\ close'.at = "saving" /\ close'.session = close.session
        /\ ~close'.discard
    BY <1>2, <1>3 DEF Goes, CloseRecord
  <2> QED BY <1>1, <1>2, <1>3, <2>1, SameSessions, CloseMoves DEF SessionInv
<1>4. CASE close' = [close EXCEPT !.at = "closing", !.discard = TRUE]
           /\ session' = Agreed(close.session, close.rev)
  <2>1. /\ close' \in CloseRecord /\ close'.at = "closing" /\ close'.session = close.session
        /\ close'.rev = close.rev /\ close.rev \in Nat
    BY <1>2, <1>4 DEF CloseRecord
  <2>2. Preserved /\ close.rev \in session'[close.session].agreed
    BY <1>2, <1>4, <2>1, AgreePreserves DEF SessionInv
  <2> QED BY <1>1, <1>2, <2>1, <2>2, CloseMoves
<1>5. CASE Retain /\ UNCHANGED session
  BY <1>1, <1>5, SameSessions, CloseStops DEF Retain, SessionInv
<1> QED BY <1>3, <1>4, <1>5 DEF Prompted

LEMMA CloseSavesStep ==
    ASSUME SessionInv, CloseSaves
    PROVE  SessionInv'
<1>1. close.at = "saving" /\ UNCHANGED <<window, shows, replace>>
  BY DEF CloseSaves
<1>2. /\ close.session \in Sessions /\ close \in CloseRecord /\ window = "open"
      /\ shows = close.session \/ session[close.session].state = "closed"
      /\ ~close.discard /\ session[close.session] \in SessionRecord
  BY <1>1, DecisionGoesOn DEF SessionInv, SessionTypes, Discards, Decided
<1>3. CASE /\ session[close.session].state = "open" /\ session' = Saved(close.session)
           /\ close' = [close EXCEPT !.at = "closing", !.rev = session[close.session].rev]
  <2>1. /\ close' \in CloseRecord /\ close'.session = close.session /\ ~close'.discard
    BY <1>2, <1>3 DEF CloseRecord, SessionRecord
  <2> QED BY <1>1, <1>2, <1>3, <2>1, SavePreserves, CloseMoves DEF SessionInv
<1>4. CASE (Retain \/ Fails) /\ UNCHANGED session
  BY <1>1, <1>4, SameSessions, CloseStops DEF Retain, Fails, SessionInv
<1> QED BY <1>3, <1>4 DEF CloseSaves

LEMMA CloseLeavesStep ==
    ASSUME SessionInv, CloseLeaves
    PROVE  SessionInv'
<1>1. close.at = "ending" /\ UNCHANGED <<window, shows, replace>>
  BY DEF CloseLeaves
<1>2. /\ close.session \in Sessions /\ close \in CloseRecord /\ window = "open"
      /\ shows = close.session \/ session[close.session].state = "closed"
      /\ ~close.discard /\ session[close.session] \in SessionRecord
  BY <1>1, DecisionGoesOn DEF SessionInv, SessionTypes, Discards, Decided
<1>3. ASSUME NEW safe \in BOOLEAN, session[close.session].state = "open",
             session' = Left(close.session, safe), NEW at \in {"detached", "closing"},
             close' = [close EXCEPT !.rev = session[close.session].rev, !.at = at]
      PROVE  SessionInv'
  <2>1. /\ close' \in CloseRecord /\ close'.session = close.session /\ ~close'.discard
    BY <1>2, <1>3 DEF CloseRecord, SessionRecord
  <2> QED BY <1>1, <1>2, <1>3, <2>1, LeavePreserves, CloseMoves DEF SessionInv
<1>4. CASE Fails /\ UNCHANGED session
  BY <1>1, <1>4, SameSessions, CloseStops DEF Fails, SessionInv
<1> QED BY <1>3, <1>4 DEF CloseLeaves

LEMMA CloseStrandsStep ==
    ASSUME SessionInv, CloseStrands
    PROVE  SessionInv'
<1>1. close.at = "ending" /\ UNCHANGED <<window, shows, replace>>
  BY DEF CloseStrands
<1>2. /\ close.session \in Sessions /\ close \in CloseRecord /\ window = "open"
      /\ shows = close.session \/ session[close.session].state = "closed"
      /\ ~close.discard
  BY <1>1, DecisionGoesOn DEF SessionInv, Discards, Decided
<1>3. /\ close' \in CloseRecord /\ close'.session = close.session /\ ~close'.discard
      /\ close'.at = "stranded"
  BY <1>2 DEF CloseStrands, Goes, CloseRecord
<1>4. Preserved
  BY <1>2, LeavePreserves DEF CloseStrands, SessionInv
<1> QED BY <1>1, <1>2, <1>3, <1>4, CloseMoves DEF SessionInv

LEMMA CloseEndsStep ==
    ASSUME SessionInv, CloseEnds
    PROVE  SessionInv'
<1> DEFINE c == close.session
           r == [session[c] EXCEPT !.state = "closed"]
<1>1. close.at = "closing" /\ UNCHANGED replace
  BY DEF CloseEnds
<1>2. /\ c \in Sessions /\ close \in CloseRecord /\ window = "open"
      /\ shows = c \/ session[c].state = "closed"
      /\ session[c] \in SessionRecord
  BY <1>1, DecisionGoesOn DEF SessionInv, SessionTypes, Decided
<1>3. CASE Fails /\ UNCHANGED <<session, window, shows>>
  BY <1>1, <1>3, SameSessions, CloseStops DEF Fails, SessionInv
<1>4. CASE Closable(c, close.rev, close.discard) /\ session' = Closed(c) /\ Destroyed
  <2>1. /\ session[c].state = "open" /\ session[c].rev = close.rev /\ shows = c
        /\ session[c].rev # session[c].saved => close.discard
    BY <1>2, <1>4 DEF Closable, Dirty
  <2>2. /\ r \in SessionRecord /\ r.state = "closed" /\ r.rev = session[c].rev
        /\ r.saved = session[c].saved /\ r.agreed = session[c].agreed
        /\ r.shown = session[c].shown
    BY <1>2 DEF SessionRecord
  <2>3. session' = [session EXCEPT ![c] = r]
    BY <1>4 DEF Closed
  <2> HIDE DEF r, c
  <2>4. /\ session' \in [Sessions -> SessionRecord] /\ session'[c] = r
        /\ \A s \in Sessions \ {c} : session'[s] = session[s]
    BY <1>2, <2>2, <2>3 DEF SessionInv, SessionTypes
  <2>5. /\ window' = "destroyed" /\ shows' = None /\ close' \in CloseRecord
        /\ close'.at = "none"
    BY <1>2, <1>4 DEF Destroyed, Idle, NoDecision, CloseRecord
  <2>6. SessionTypes'
    BY <1>1, <2>4, <2>5 DEF SessionInv, SessionTypes, Decided
  <2>7. SessionsAreOwned'
    BY <1>1, <2>1, <2>2, <2>4, <2>5 DEF SessionInv, SessionsAreOwned
  <2>8. Ownership'
    BY <1>1, <2>1, <2>4, <2>5, NoneIsNoSession DEF SessionInv, Ownership, Owning
  <2>9. Targets'
    BY <1>1, <1>2, <2>1, <2>2, <2>4, <2>5 DEF SessionInv, SessionTypes, Targets, Decided
  <2>10. Discards'
    BY <1>1, <2>2, <2>4, <2>5 DEF SessionInv, SessionTypes, Discards
  <2>11. NothingDiscardedUnasked'
    <3>1. session[c].rev \in session[c].agreed \cup {session[c].saved}
      BY <1>1, <2>1 DEF SessionInv, Discards, c
    <3> QED BY <2>2, <2>4, <3>1 DEF SessionInv, NothingDiscardedUnasked
  <2> QED BY <2>6, <2>7, <2>8, <2>9, <2>10, <2>11 DEF SessionInv
<1> QED BY <1>3, <1>4 DEF CloseEnds
-----------------------------------------------------------------------------
(* Replacements.                                                           *)

LEMMA ReplaceTypes ==
    ASSUME SessionInv, NEW o \in Replacements
    PROVE  /\ replace[o] \in ReplaceRecord
           /\ replace[o].at \notin {"none", "done"} =>
                 replace[o].session \in Sessions /\ session[replace[o].session].state # "absent"
           /\ [NoReplacement EXCEPT !.at = "done"] \in ReplaceRecord
           /\ [NoReplacement EXCEPT !.at = "done"].at = "done"
<1>1. /\ replace[o] \in ReplaceRecord
      /\ replace[o].at \notin {"none", "done"} =>
            replace[o].session \in Sessions /\ session[replace[o].session].state # "absent"
  BY DEF SessionInv, SessionTypes, Targets
<1>2. /\ [NoReplacement EXCEPT !.at = "done"] \in ReplaceRecord
      /\ [NoReplacement EXCEPT !.at = "done"].at = "done"
  BY DEF NoReplacement, ReplaceRecord
<1> QED BY <1>1, <1>2

LEMMA StepRecord ==
    ASSUME NEW r \in ReplaceRecord,
           NEW at \in {"prompt", "saving", "ending", "stranded", "opening", "assign", "replace",
                      "cleanup"},
           NEW n, n = [r EXCEPT !.at = at]
    PROVE  /\ n \in ReplaceRecord /\ n.at = at /\ n.session = r.session
           /\ n.rev = r.rev /\ n.discard = r.discard /\ n.new = r.new
BY DEF ReplaceRecord

LEMMA ReplaceFunction ==
    ASSUME SessionInv, NEW o \in Replacements, NEW r \in ReplaceRecord,
           replace' = [replace EXCEPT ![o] = r]
    PROVE  /\ replace' \in [Replacements -> ReplaceRecord] /\ replace'[o] = r
           /\ \A p \in Replacements \ {o} : replace'[p] = replace[p]
BY DEF SessionInv, SessionTypes

\* A replacement that owns nothing gives up.
LEMMA EndsStep ==
    ASSUME SessionInv, Preserved, UNCHANGED <<window, shows, close>>,
           NEW o \in Replacements, Ends(o), ~Owning(o)
    PROVE  SessionInv'
<1> DEFINE r == [NoReplacement EXCEPT !.at = "done"]
<1>1. r \in ReplaceRecord /\ r.at = "done" /\ replace' = [replace EXCEPT ![o] = r]
  BY ReplaceTypes DEF Ends
<1> HIDE DEF r
<1>2. /\ replace' \in [Replacements -> ReplaceRecord] /\ replace'[o] = r
      /\ \A p \in Replacements \ {o} : replace'[p] = replace[p]
  BY <1>1, ReplaceFunction
<1> QED BY <1>1, <1>2, ReplaceMoves DEF Owning

LEMMA ReplaceRequestedStep ==
    ASSUME SessionInv, NEW o \in Replacements, NEW mode \in {"offline", "host", "guest"},
           ReplaceRequested(o, mode)
    PROVE  SessionInv'
<1> DEFINE at == IF session[shows].mode = "offline" /\ ~Dirty(shows) THEN "opening" ELSE "prompt"
           r == [NoReplacement EXCEPT !.session = shows, !.rev = session[shows].rev,
                                      !.mode = mode, !.at = at]
<1>1. shows \in Sessions /\ session[shows] \in SessionRecord /\ session[shows].state = "open"
  BY DEF ReplaceRequested, SessionInv, SessionTypes, SessionsAreOwned
<1>2. session[shows].rev \in Nat /\ at \in {"opening", "prompt"}
  BY <1>1 DEF SessionRecord
<1>3. replace' = [replace EXCEPT ![o] = r] /\ replace[o].at = "none"
      /\ UNCHANGED <<session, window, shows, close>>
  BY DEF ReplaceRequested
<1> HIDE DEF at
<1>4. r \in ReplaceRecord /\ r.at = at /\ r.session = shows /\ r.discard = FALSE
  BY <1>1, <1>2 DEF NoReplacement, ReplaceRecord
<1> HIDE DEF r
<1>5. /\ replace' \in [Replacements -> ReplaceRecord] /\ replace'[o] = r
      /\ \A p \in Replacements \ {o} : replace'[p] = replace[p]
  BY <1>3, <1>4, ReplaceFunction
<1> QED BY <1>1, <1>2, <1>3, <1>4, <1>5, SameSessions, ReplaceMoves DEF Owning, SessionInv

LEMMA ReplacePromptedStep ==
    ASSUME SessionInv, NEW o \in Replacements, ReplacePrompted(o)
    PROVE  SessionInv'
<1> DEFINE r == replace[o]
<1>1. r.at = "prompt" /\ UNCHANGED <<window, shows, close>>
  BY DEF ReplacePrompted
<1>2. /\ r \in ReplaceRecord /\ r.session \in Sessions /\ session[r.session].state # "absent"
      /\ r.rev \in Nat /\ ~r.discard /\ ~Owning(o)
  BY <1>1, ReplaceTypes DEF ReplaceRecord, SessionInv, Discards, Owning
<1>3. CASE Ends(o) /\ UNCHANGED session
  BY <1>1, <1>2, <1>3, SameSessions, EndsStep DEF SessionInv
<1>4. ASSUME NEW at \in {"saving", "ending"}, Step(o, at), UNCHANGED session
      PROVE  SessionInv'
  <2> DEFINE n == [r EXCEPT !.at = at]
  <2>1. n \in ReplaceRecord /\ n.at = at /\ n.session = r.session /\ ~n.discard
    BY <1>2, StepRecord
  <2>2. replace' = [replace EXCEPT ![o] = n]
    BY <1>4 DEF Step
  <2> HIDE DEF n
  <2>3. /\ replace' \in [Replacements -> ReplaceRecord] /\ replace'[o] = n
        /\ \A p \in Replacements \ {o} : replace'[p] = replace[p]
    BY <2>1, <2>2, ReplaceFunction
  <2> QED BY <1>1, <1>2, <1>4, <2>1, <2>3, SameSessions, ReplaceMoves DEF Owning, SessionInv
<1>5. CASE /\ session' = Agreed(r.session, r.rev)
           /\ replace' = [replace EXCEPT ![o].at = "opening", ![o].discard = TRUE]
  <2> DEFINE n == [r EXCEPT !.at = "opening", !.discard = TRUE]
  <2>1. n \in ReplaceRecord /\ n.at = "opening" /\ n.session = r.session /\ n.rev = r.rev
    BY <1>2 DEF ReplaceRecord
  <2>2. replace' = [replace EXCEPT ![o] = n]
    BY <1>5 DEF SessionInv, SessionTypes
  <2> HIDE DEF n
  <2>3. /\ replace' \in [Replacements -> ReplaceRecord] /\ replace'[o] = n
        /\ \A p \in Replacements \ {o} : replace'[p] = replace[p]
    BY <2>1, <2>2, ReplaceFunction
  <2>4. Preserved /\ r.rev \in session'[r.session].agreed
    BY <1>2, <1>5, AgreePreserves DEF SessionInv
  <2> QED BY <1>1, <1>2, <2>1, <2>3, <2>4, ReplaceMoves DEF Owning
<1> QED BY <1>3, <1>4, <1>5 DEF ReplacePrompted

\* The document is saved, or the collaboration left, at the revision it has then.
LEMMA ReplaceSettles ==
    ASSUME SessionInv, Preserved, UNCHANGED <<window, shows, close>>,
           NEW o \in Replacements, replace[o].at \in {"saving", "ending"},
           replace' = [replace EXCEPT ![o].at = "opening",
                                      ![o].rev = session[replace[o].session].rev]
    PROVE  SessionInv'
<1> DEFINE r == replace[o]
           n == [r EXCEPT !.at = "opening", !.rev = session[r.session].rev]
<1>1. /\ r \in ReplaceRecord /\ r.session \in Sessions /\ session[r.session].state # "absent"
      /\ ~r.discard /\ ~Owning(o)
  BY ReplaceTypes DEF SessionInv, Discards, Owning
<1>2. session[r.session].rev \in Nat
  BY <1>1 DEF SessionInv, SessionTypes, SessionRecord
<1>3. n \in ReplaceRecord /\ n.at = "opening" /\ n.session = r.session /\ ~n.discard
  BY <1>1, <1>2 DEF ReplaceRecord
<1>4. replace' = [replace EXCEPT ![o] = n]
  BY DEF SessionInv, SessionTypes
<1> HIDE DEF n
<1>5. /\ replace' \in [Replacements -> ReplaceRecord] /\ replace'[o] = n
      /\ \A p \in Replacements \ {o} : replace'[p] = replace[p]
  BY <1>3, <1>4, ReplaceFunction
<1> QED BY <1>1, <1>3, <1>5, ReplaceMoves DEF Owning

LEMMA ReplaceSavesStep ==
    ASSUME SessionInv, NEW o \in Replacements, ReplaceSaves(o)
    PROVE  SessionInv'
<1>1. /\ replace[o].at = "saving" /\ replace[o].session \in Sessions /\ ~Owning(o)
      /\ UNCHANGED <<window, shows, close>>
  BY ReplaceTypes DEF ReplaceSaves, Owning
<1>2. CASE Ends(o) /\ UNCHANGED session
  BY <1>1, <1>2, SameSessions, EndsStep DEF SessionInv
<1>3. CASE /\ session[replace[o].session].state = "open" /\ session' = Saved(replace[o].session)
           /\ replace' = [replace EXCEPT ![o].at = "opening",
                                         ![o].rev = session[replace[o].session].rev]
  BY <1>1, <1>3, SavePreserves, ReplaceSettles DEF SessionInv
<1> QED BY <1>2, <1>3 DEF ReplaceSaves

LEMMA ReplaceLeavesStep ==
    ASSUME SessionInv, NEW o \in Replacements, ReplaceLeaves(o)
    PROVE  SessionInv'
<1>1. /\ replace[o].at = "ending" /\ replace[o].session \in Sessions /\ ~Owning(o)
      /\ UNCHANGED <<window, shows, close>>
  BY ReplaceTypes DEF ReplaceLeaves, Owning
<1>2. CASE Ends(o) /\ UNCHANGED session
  BY <1>1, <1>2, SameSessions, EndsStep DEF SessionInv
<1>3. ASSUME NEW safe \in BOOLEAN, session[replace[o].session].state = "open",
             session' = Left(replace[o].session, safe),
             Ends(o) \/ replace' = [replace EXCEPT ![o].rev = session[replace[o].session].rev,
                                                   ![o].at = "opening"]
      PROVE  SessionInv'
  <2>1. Preserved
    BY <1>1, <1>3, LeavePreserves DEF SessionInv
  <2>2. CASE Ends(o)
    BY <1>1, <2>1, <2>2, EndsStep
  <2>3. CASE replace' = [replace EXCEPT ![o].rev = session[replace[o].session].rev,
                                        ![o].at = "opening"]
    <3>1. replace' = [replace EXCEPT ![o].at = "opening",
                                     ![o].rev = session[replace[o].session].rev]
      <4>1. [replace[o] EXCEPT !.rev = session[replace[o].session].rev, !.at = "opening"]
              = [replace[o] EXCEPT !.at = "opening", !.rev = session[replace[o].session].rev]
        BY ReplaceTypes DEF ReplaceRecord
      <4> QED BY <2>3, <4>1 DEF SessionInv, SessionTypes
    <3> QED BY <1>1, <2>1, <3>1, ReplaceSettles
  <2> QED BY <1>3, <2>2, <2>3
<1> QED BY <1>2, <1>3 DEF ReplaceLeaves

LEMMA ReplaceStrandsStep ==
    ASSUME SessionInv, NEW o \in Replacements, ReplaceStrands(o)
    PROVE  SessionInv'
<1> DEFINE n == [replace[o] EXCEPT !.at = "stranded"]
<1>1. /\ replace[o].at = "ending" /\ replace[o].session \in Sessions
      /\ session[replace[o].session].state = "open"
      /\ UNCHANGED <<window, shows, close>> /\ replace' = [replace EXCEPT ![o] = n]
  BY ReplaceTypes DEF ReplaceStrands, Step
<1>2. n \in ReplaceRecord /\ n.at = "stranded" /\ n.session = replace[o].session
  BY <1>1, ReplaceTypes, StepRecord
<1> HIDE DEF n
<1>3. /\ replace' \in [Replacements -> ReplaceRecord] /\ replace'[o] = n
      /\ \A p \in Replacements \ {o} : replace'[p] = replace[p]
  BY <1>1, <1>2, ReplaceFunction
<1>4. ~Owning(o) /\ ~Owning(o)'
  BY <1>1, <1>2, <1>3 DEF Owning
<1>5. Preserved
  BY <1>1, LeavePreserves DEF ReplaceStrands, SessionInv
<1> QED BY <1>1, <1>2, <1>3, <1>4, <1>5, ReplaceMoves

LEMMA AssignStep ==
    ASSUME SessionInv, NEW o \in Replacements, Assign(o)
    PROVE  SessionInv'
<1> DEFINE at == IF shows = replace[o].session THEN "replace" ELSE "cleanup"
           n == [replace[o] EXCEPT !.at = at]
<1>1. /\ replace[o].at = "assign" /\ UNCHANGED <<session, window, shows, close>>
      /\ replace' = [replace EXCEPT ![o] = n]
  BY DEF Assign, Step
<1>2. /\ n \in ReplaceRecord /\ n.at = at /\ n.session = replace[o].session
      /\ n.rev = replace[o].rev /\ n.discard = replace[o].discard /\ n.new = replace[o].new
      /\ n.session \in Sessions /\ session[n.session].state # "absent"
  <2>1. /\ replace[o] \in ReplaceRecord /\ replace[o].session \in Sessions
        /\ session[replace[o].session].state # "absent"
    BY <1>1, ReplaceTypes
  <2>2. at \in {"replace", "cleanup"}
    OBVIOUS
  <2> HIDE DEF at
  <2> QED BY <2>1, <2>2, StepRecord
<1> HIDE DEF n
<1>3. /\ replace' \in [Replacements -> ReplaceRecord] /\ replace'[o] = n
      /\ \A p \in Replacements \ {o} : replace'[p] = replace[p]
  BY <1>1, <1>2, ReplaceFunction
<1>4. Owning(o) /\ Owning(o)'
  BY <1>1, <1>2, <1>3 DEF Owning
<1>5. n.at = "replace" /\ n.discard => n.rev \in session[n.session].agreed
  BY <1>1, <1>2 DEF SessionInv, Discards
<1>6. n.at = "replace" => shows = n.session
  BY <1>2
<1>7. n.at \in {"replace", "cleanup"}
  BY <1>2
<1> HIDE DEF at
<1> QED BY <1>1, <1>2, <1>3, <1>4, <1>5, <1>6, <1>7, SameSessions, ReplaceMoves DEF SessionInv

LEMMA OpenedType ==
    ASSUME NEW mode \in {"offline", "host", "guest"}
    PROVE  /\ Opened(mode) \in SessionRecord /\ Opened(mode).state = "open"
           /\ Opened(mode).shown = FALSE
           /\ [Opened(mode) EXCEPT !.shown = TRUE] \in SessionRecord
           /\ [Opened(mode) EXCEPT !.shown = TRUE].state = "open"
BY DEF Opened, SessionRecord

LEMMA ReplaceOpensStep ==
    ASSUME SessionInv, NEW o \in Replacements, ReplaceOpens(o)
    PROVE  SessionInv'
<1>1. /\ replace[o].at = "opening" /\ ~Owning(o) /\ UNCHANGED <<window, shows, close>>
  BY DEF ReplaceOpens, Owning
<1>2. CASE Ends(o) /\ UNCHANGED session
  BY <1>1, <1>2, SameSessions, EndsStep DEF SessionInv
<1>3. ASSUME NEW s \in Sessions, Fresh(s),
             session' = [session EXCEPT ![s] = Opened(replace[o].mode)],
             replace' = [replace EXCEPT ![o].at = "assign", ![o].new = s]
      PROVE  SessionInv'
  <2> DEFINE r == replace[o]
             n == [r EXCEPT !.at = "assign", !.new = s]
             new == Opened(r.mode)
  <2>1. /\ r \in ReplaceRecord /\ r.mode \in {"offline", "host", "guest"}
        /\ r.session \in Sessions /\ session[r.session].state # "absent"
    BY <1>1, ReplaceTypes DEF ReplaceRecord
  <2>2. n \in ReplaceRecord /\ n.at = "assign" /\ n.new = s /\ n.session = r.session
        /\ n.discard = r.discard /\ n.rev = r.rev
    BY <2>1 DEF ReplaceRecord
  <2>3. replace' = [replace EXCEPT ![o] = n]
    BY <1>3 DEF SessionInv, SessionTypes
  <2> HIDE DEF n
  <2>4. /\ replace' \in [Replacements -> ReplaceRecord] /\ replace'[o] = n
        /\ \A p \in Replacements \ {o} : replace'[p] = replace[p]
    BY <2>2, <2>3, ReplaceFunction
  <2>5. new \in SessionRecord /\ new.state = "open" /\ ~new.shown
    BY <2>1, OpenedType
  <2> HIDE DEF new
  <2>6. /\ session[s].state = "absent"
        /\ session' \in [Sessions -> SessionRecord] /\ session'[s] = new
        /\ \A t \in Sessions \ {s} : session'[t] = session[t]
    BY <1>3, <2>5 DEF Fresh, SessionInv, SessionTypes, new
  <2>7. shows # s
    <3>1. CASE window = "open"
      BY <2>6, <3>1 DEF SessionInv, SessionsAreOwned
    <3>2. CASE window = "destroyed"
      BY <3>2, NoneIsNoSession DEF SessionInv, SessionTypes
    <3> QED BY <3>1, <3>2 DEF SessionInv, SessionTypes
  <2>8. SessionTypes'
    BY <1>1, <2>1, <2>2, <2>4, <2>6 DEF SessionInv, SessionTypes
  <2>9. Owning(o)' /\ \A p \in Replacements \ {o} : Owning(p)' <=> Owning(p)
    BY <2>2, <2>4 DEF Owning
  <2>10. SessionsAreOwned'
    <3>1. window = "open" => shows \in Sessions /\ session'[shows].state = "open"
      BY <2>6, <2>7 DEF SessionInv, SessionsAreOwned
    <3>2. ASSUME NEW t \in Sessions, session'[t].state = "open", t # shows
          PROVE  \E p \in Replacements : replace'[p].new = t /\ Owning(p)'
      <4>1. CASE t = s
        BY <2>2, <2>4, <2>9, <4>1
      <4>2. CASE t # s
        <5>1. PICK p \in Replacements : replace[p].new = t /\ Owning(p)
          BY <2>6, <3>2, <4>2 DEF SessionInv, SessionsAreOwned, Owning
        <5>2. p # o
          BY <1>1, <5>1
        <5> QED BY <2>4, <2>9, <5>1, <5>2
      <4> QED BY <4>1, <4>2
    <3> QED BY <1>1, <3>1, <3>2 DEF SessionsAreOwned, Owning
  <2>11. Ownership'
    <3>1. \A p \in Replacements \ {o} :
             Owning(p) => replace[p].new # s /\ replace[p].new \in Sessions
      BY <2>6 DEF SessionInv, Ownership
    <3>2. ASSUME NEW p \in Replacements, Owning(p)'
          PROVE  /\ replace'[p].new \in Sessions /\ replace'[p].new # shows
                 /\ session'[replace'[p].new].state = "open"
                 /\ ~session'[replace'[p].new].shown
      <4>1. CASE p = o
        BY <2>2, <2>4, <2>5, <2>6, <2>7, <4>1
      <4>2. CASE p # o
        BY <2>4, <2>6, <2>9, <3>1, <3>2, <4>2 DEF SessionInv, Ownership
      <4> QED BY <4>1, <4>2
    <3>3. ASSUME NEW p \in Replacements, NEW q \in Replacements, Owning(p)', Owning(q)', p # q
          PROVE  replace'[p].new # replace'[q].new
      <4>1. CASE p = o
        BY <2>2, <2>4, <2>9, <3>1, <3>3, <4>1
      <4>2. CASE q = o
        BY <2>2, <2>4, <2>9, <3>1, <3>3, <4>2
      <4>3. CASE p # o /\ q # o
        BY <2>4, <2>9, <3>3, <4>3 DEF SessionInv, Ownership
      <4> QED BY <4>1, <4>2, <4>3
    <3> QED BY <1>1, <3>2, <3>3 DEF Ownership
  <2>12. close.at \in Decided => close.session \in Sessions /\ close.session # s
    <3>1. close.at \in Decided => window = "open"
      BY DEF SessionInv, SessionTypes, Decided
    <3> QED BY <2>6, <2>7, <3>1 DEF SessionInv, SessionTypes, Targets
  <2>13. \A p \in Replacements :
            replace[p].at \notin {"none", "done"} =>
               replace[p].session \in Sessions /\ replace[p].session # s
    BY <2>6, ReplaceTypes
  <2>14. Targets'
    <3>1. close.at \in Decided =>
             shows = close.session \/ session'[close.session].state = "closed"
      BY <2>6, <2>12 DEF SessionInv, Targets
    <3>2. ASSUME NEW p \in Replacements
          PROVE  /\ replace'[p].at = "replace" =>
                       \/ shows = replace'[p].session
                       \/ session'[replace'[p].session].state = "closed"
                 /\ replace'[p].at \notin {"none", "done"} =>
                       session'[replace'[p].session].state # "absent"
      <4>1. CASE p = o
        BY <1>1, <2>1, <2>2, <2>4, <2>6, <2>13, <4>1
      <4>2. CASE p # o
        BY <2>4, <2>6, <2>13, <4>2 DEF SessionInv, Targets
      <4> QED BY <4>1, <4>2
    <3> QED BY <1>1, <3>1, <3>2 DEF Targets
  <2>15. Discards'
    <3>1. close.at = "closing" /\ close.discard => close.rev \in session'[close.session].agreed
      BY <2>6, <2>12 DEF SessionInv, Discards, Decided
    <3>2. ASSUME NEW p \in Replacements
          PROVE  /\ replace'[p].at \in {"prompt", "saving", "ending"} => ~replace'[p].discard
                 /\ replace'[p].at \in {"opening", "assign", "replace"} /\ replace'[p].discard =>
                       replace'[p].rev \in session'[replace'[p].session].agreed
      <4>1. CASE p = o
        BY <1>1, <2>2, <2>4, <2>6, <2>13, <4>1 DEF SessionInv, Discards
      <4>2. CASE p # o
        BY <2>4, <2>6, <2>13, <4>2 DEF SessionInv, Discards
      <4> QED BY <4>1, <4>2
    <3> QED BY <1>1, <3>1, <3>2 DEF SessionInv, Discards
  <2>16. NothingDiscardedUnasked'
    BY <2>5, <2>6 DEF SessionInv, NothingDiscardedUnasked
  <2> QED BY <2>8, <2>10, <2>11, <2>14, <2>15, <2>16 DEF SessionInv
<1> QED BY <1>2, <1>3 DEF ReplaceOpens

LEMMA CleanupStep ==
    ASSUME SessionInv, NEW o \in Replacements, Cleanup(o)
    PROVE  SessionInv'
<1> DEFINE s == replace[o].new
           r == [session[s] EXCEPT !.state = "closed"]
           n == [NoReplacement EXCEPT !.at = "done"]
<1>1. Owning(o) /\ UNCHANGED <<window, shows, close>> /\ replace' = [replace EXCEPT ![o] = n]
  BY DEF Cleanup, Owning, Ends
<1>2. s \in Sessions /\ s # shows /\ session[s].state = "open" /\ ~session[s].shown
      /\ session[s] \in SessionRecord
  BY <1>1 DEF SessionInv, Ownership, SessionTypes
<1>3. /\ r \in SessionRecord /\ r.state = "closed" /\ ~r.shown /\ r.agreed = session[s].agreed
      /\ session' = [session EXCEPT ![s] = r]
  BY <1>2 DEF SessionRecord, Cleanup, Closed
<1>4. n \in ReplaceRecord /\ n.at = "done"
  BY ReplaceTypes
<1> HIDE DEF n, r
<1>5. /\ replace' \in [Replacements -> ReplaceRecord] /\ replace'[o] = n
      /\ \A p \in Replacements \ {o} : replace'[p] = replace[p]
  BY <1>1, <1>4, ReplaceFunction
<1>6. /\ session' \in [Sessions -> SessionRecord] /\ session'[s] = r
      /\ \A t \in Sessions \ {s} : session'[t] = session[t]
  BY <1>2, <1>3 DEF SessionInv, SessionTypes
<1>7. \A p \in Replacements \ {o} : Owning(p) => replace[p].new # s /\ replace[p].new \in Sessions
  BY <1>1 DEF SessionInv, Ownership
<1>8. ~Owning(o)' /\ \A p \in Replacements \ {o} : Owning(p)' <=> Owning(p)
  BY <1>4, <1>5 DEF Owning
<1>9. SessionTypes'
  BY <1>1, <1>4, <1>5, <1>6 DEF SessionInv, SessionTypes
<1>10. SessionsAreOwned'
  <2>1. window = "open" => shows \in Sessions /\ session'[shows].state = "open"
    BY <1>2, <1>6 DEF SessionInv, SessionsAreOwned
  <2>2. ASSUME NEW t \in Sessions, session'[t].state = "open", t # shows
        PROVE  \E p \in Replacements : replace'[p].new = t /\ Owning(p)'
    <3>1. t # s
      BY <1>3, <1>6, <2>2
    <3>2. PICK p \in Replacements : replace[p].new = t /\ Owning(p)
      BY <1>6, <2>2, <3>1 DEF SessionInv, SessionsAreOwned, Owning
    <3> QED BY <1>5, <1>8, <3>1, <3>2
  <2> QED BY <1>1, <2>1, <2>2 DEF SessionsAreOwned, Owning
<1>11. Ownership'
  BY <1>1, <1>5, <1>6, <1>7, <1>8 DEF SessionInv, Ownership
<1>12. Targets'
  <2>1. close.at \in Decided => shows = close.session \/ session'[close.session].state = "closed"
    BY <1>3, <1>6 DEF SessionInv, SessionTypes, Targets
  <2>2. \A p \in Replacements \ {o} :
           /\ replace[p].at = "replace" =>
                 \/ shows = replace[p].session
                 \/ session'[replace[p].session].state = "closed"
           /\ replace[p].at \notin {"none", "done"} =>
                 session'[replace[p].session].state # "absent"
    BY <1>3, <1>6 DEF SessionInv, SessionTypes, Targets
  <2> QED BY <1>1, <1>4, <1>5, <2>1, <2>2 DEF Targets
<1>13. Discards'
  <2>1. \A t \in Sessions : session'[t].agreed = session[t].agreed
    BY <1>3, <1>6
  <2>2. close.at = "closing" /\ close.discard => close.rev \in session'[close.session].agreed
    BY <2>1 DEF SessionInv, SessionTypes, Discards, Decided
  <2>3. \A p \in Replacements \ {o} :
           replace[p].at \in {"opening", "assign", "replace"} /\ replace[p].discard =>
              replace[p].rev \in session'[replace[p].session].agreed
    BY <2>1 DEF SessionInv, SessionTypes, Discards
  <2> QED BY <1>1, <1>4, <1>5, <2>2, <2>3 DEF SessionInv, Discards
<1>14. NothingDiscardedUnasked'
  BY <1>3, <1>6 DEF SessionInv, NothingDiscardedUnasked
<1> QED BY <1>9, <1>10, <1>11, <1>12, <1>13, <1>14 DEF SessionInv

LEMMA ReplaceStep ==
    ASSUME SessionInv, NEW o \in Replacements, Replace(o)
    PROVE  SessionInv'
<1> DEFINE old == replace[o].session
           s == replace[o].new
<1>1. replace[o].at = "replace" /\ Owning(o) /\ UNCHANGED <<window, close>>
  BY DEF Replace, Owning
<1>2. /\ s \in Sessions /\ s # shows /\ session[s].state = "open" /\ ~session[s].shown
      /\ session[s] \in SessionRecord /\ old \in Sessions /\ session[old] \in SessionRecord
      /\ shows = old \/ session[old].state = "closed"
  BY <1>1 DEF SessionInv, Ownership, SessionTypes, Targets
<1>3. CASE Step(o, "cleanup") /\ UNCHANGED <<session, shows>>
  <2> DEFINE n == [replace[o] EXCEPT !.at = "cleanup"]
  <2>1. /\ n \in ReplaceRecord /\ n.at = "cleanup" /\ n.session = replace[o].session
        /\ n.new = replace[o].new
    BY ReplaceTypes, StepRecord
  <2>2. replace' = [replace EXCEPT ![o] = n]
    BY <1>3 DEF Step
  <2> HIDE DEF n
  <2>3. /\ replace' \in [Replacements -> ReplaceRecord] /\ replace'[o] = n
        /\ \A p \in Replacements \ {o} : replace'[p] = replace[p]
    BY <2>1, <2>2, ReplaceFunction
  <2>4. session[old].state # "absent" /\ Owning(o)'
    BY <1>1, <2>1, <2>3, ReplaceTypes DEF Owning
  <2> QED BY <1>1, <1>2, <1>3, <2>1, <2>3, <2>4, SameSessions, ReplaceMoves DEF SessionInv
<1>4. CASE /\ Closable(old, replace[o].rev, replace[o].discard)
           /\ session' = [Closed(old) EXCEPT ![s].shown = TRUE]
           /\ shows' = s /\ Ends(o)
  <2> DEFINE c == [session[old] EXCEPT !.state = "closed"]
             f == [session[s] EXCEPT !.shown = TRUE]
             n == [NoReplacement EXCEPT !.at = "done"]
  <2>1. /\ session[old].state = "open" /\ session[old].rev = replace[o].rev /\ shows = old
        /\ session[old].rev # session[old].saved => replace[o].discard
    BY <1>2, <1>4 DEF Closable, Dirty
  <2>2. old # s
    BY <1>2, <2>1
  <2>3. /\ c \in SessionRecord /\ c.state = "closed" /\ c.rev = session[old].rev
        /\ c.saved = session[old].saved /\ c.agreed = session[old].agreed
    BY <1>2 DEF SessionRecord
  <2>4. f \in SessionRecord /\ f.state = "open" /\ f.agreed = session[s].agreed
    BY <1>2 DEF SessionRecord
  <2>5. session' = [[session EXCEPT ![old] = c] EXCEPT ![s] = f]
    BY <1>2, <1>4, <2>2 DEF Closed, SessionInv, SessionTypes
  <2>6. n \in ReplaceRecord /\ n.at = "done" /\ replace' = [replace EXCEPT ![o] = n]
    BY <1>4, ReplaceTypes DEF Ends
  <2> HIDE DEF c, f, n
  <2>7. /\ replace' \in [Replacements -> ReplaceRecord] /\ replace'[o] = n
        /\ \A p \in Replacements \ {o} : replace'[p] = replace[p]
    BY <2>6, ReplaceFunction
  <2> HIDE DEF old, s
  <2>8. /\ session' \in [Sessions -> SessionRecord] /\ session'[old] = c /\ session'[s] = f
        /\ \A t \in Sessions \ {old, s} : session'[t] = session[t]
    BY <1>2, <2>2, <2>3, <2>4, <2>5 DEF SessionInv, SessionTypes
  <2>9. window = "open"
    BY <1>2, <2>1, NoneIsNoSession DEF SessionInv, SessionTypes
  <2>10. \A p \in Replacements \ {o} :
            Owning(p) => /\ replace[p].new # s /\ replace[p].new # old
                         /\ replace[p].new \in Sessions
    BY <1>1, <2>1 DEF SessionInv, Ownership, s
  <2>11. ~Owning(o)' /\ \A p \in Replacements \ {o} : Owning(p)' <=> Owning(p)
    BY <2>6, <2>7 DEF Owning
  <2>12. SessionTypes'
    BY <1>1, <1>2, <1>4, <2>6, <2>7, <2>8, <2>9 DEF SessionInv, SessionTypes, s
  <2>13. SessionsAreOwned'
    <3>1. shows' \in Sessions /\ session'[shows'].state = "open"
      BY <1>2, <1>4, <2>4, <2>8 DEF s
    <3>2. ASSUME NEW t \in Sessions, session'[t].state = "open", t # s
          PROVE  \E p \in Replacements : replace'[p].new = t /\ Owning(p)'
      <4>1. t # old
        BY <2>3, <2>8, <3>2
      <4>2. PICK p \in Replacements : replace[p].new = t /\ Owning(p)
        BY <2>1, <2>8, <3>2, <4>1 DEF SessionInv, SessionsAreOwned, Owning
      <4>3. p # o
        BY <3>2, <4>2 DEF s
      <4> QED BY <2>7, <2>11, <4>2, <4>3
    <3> QED BY <1>4, <3>1, <3>2 DEF SessionsAreOwned, Owning, s
  <2>14. Ownership'
    <3>1. ASSUME NEW p \in Replacements, Owning(p)'
          PROVE  /\ replace'[p].new \in Sessions /\ replace'[p].new # shows'
                 /\ session'[replace'[p].new].state = "open"
                 /\ ~session'[replace'[p].new].shown
      <4>1. p # o /\ Owning(p) /\ replace'[p] = replace[p]
        BY <2>7, <2>11, <3>1
      <4>2. replace[p].new \in Sessions \ {old, s}
        BY <2>10, <4>1
      <4> QED BY <1>4, <2>8, <4>1, <4>2 DEF SessionInv, Ownership, s
    <3>2. ASSUME NEW p \in Replacements, NEW q \in Replacements, Owning(p)', Owning(q)', p # q
          PROVE  replace'[p].new # replace'[q].new
      BY <2>7, <2>11, <3>2 DEF SessionInv, Ownership
    <3> QED BY <3>1, <3>2 DEF Ownership
  <2>15. \A t \in Sessions : session[t].state = "closed" => session'[t].state = "closed"
    BY <1>2, <2>3, <2>8 DEF s
  <2>16. \A t \in Sessions : session[t].state # "absent" => session'[t].state # "absent"
    BY <2>3, <2>4, <2>8
  <2>17. session'[old].state = "closed"
    BY <2>3, <2>8
  <2>18. Targets'
    <3>1. close.at \in Decided => session'[close.session].state = "closed"
      BY <2>1, <2>15, <2>17 DEF SessionInv, SessionTypes, Targets
    <3>2. \A p \in Replacements \ {o} :
             /\ replace[p].at = "replace" => session'[replace[p].session].state = "closed"
             /\ replace[p].at \notin {"none", "done"} =>
                   session'[replace[p].session].state # "absent"
      BY <2>1, <2>15, <2>16, <2>17 DEF SessionInv, SessionTypes, Targets
    <3> QED BY <1>1, <2>6, <2>7, <3>1, <3>2 DEF Targets
  <2>19. \A t \in Sessions : session'[t].agreed = session[t].agreed
    BY <2>3, <2>4, <2>8
  <2>20. Discards'
    <3>1. close.at = "closing" /\ close.discard => close.rev \in session'[close.session].agreed
      BY <2>19 DEF SessionInv, SessionTypes, Discards, Decided
    <3>2. \A p \in Replacements \ {o} :
             replace[p].at \in {"opening", "assign", "replace"} /\ replace[p].discard =>
                replace[p].rev \in session'[replace[p].session].agreed
      BY <2>19 DEF SessionInv, SessionTypes, Discards
    <3> QED BY <1>1, <2>6, <2>7, <3>1, <3>2 DEF SessionInv, Discards
  <2>21. NothingDiscardedUnasked'
    <3>1. session[old].rev \in session[old].agreed \cup {session[old].saved}
      BY <1>1, <2>1 DEF SessionInv, Discards, old
    <3> QED BY <2>3, <2>4, <2>8, <3>1 DEF SessionInv, NothingDiscardedUnasked
  <2> QED BY <2>12, <2>13, <2>14, <2>18, <2>20, <2>21 DEF SessionInv
<1> QED BY <1>3, <1>4 DEF Replace

LEMMA NewWindowStep ==
    ASSUME SessionInv, NewWindow
    PROVE  SessionInv'
<1> DEFINE new == [Opened("offline") EXCEPT !.shown = TRUE]
<1>1. PICK s \in Sessions : Fresh(s) /\ session' = [session EXCEPT ![s] = new] /\ shows' = s
  BY DEF NewWindow
<1>2. /\ new \in SessionRecord /\ new.state = "open"
  BY OpenedType
<1> HIDE DEF new
<1>3. /\ window = "destroyed" /\ window' = "open" /\ UNCHANGED <<close, replace>>
      /\ shows = None /\ close.at = "none"
  BY DEF NewWindow, SessionInv, SessionTypes
<1>4. /\ session[s].state = "absent"
      /\ session' \in [Sessions -> SessionRecord] /\ session'[s] = new
      /\ \A t \in Sessions \ {s} : session'[t] = session[t]
  BY <1>1, <1>2 DEF Fresh, SessionInv, SessionTypes
<1>5. SessionTypes'
  BY <1>1, <1>3, <1>4 DEF SessionInv, SessionTypes
<1>6. SessionsAreOwned'
  <2>1. \A t \in Sessions : session[t].state = "open" =>
           \E p \in Replacements : replace[p].new = t /\ Owning(p)
    BY <1>3, NoneIsNoSession DEF SessionInv, SessionsAreOwned, Owning
  <2> QED BY <1>1, <1>2, <1>3, <1>4, <2>1 DEF SessionsAreOwned, Owning
<1>7. Ownership'
  BY <1>1, <1>3, <1>4 DEF SessionInv, Ownership, Owning
<1>8. Targets'
  <2>1. \A o \in Replacements :
           replace[o].at \notin {"none", "done"} =>
              /\ replace[o].session \in Sessions \ {s} /\ replace[o].session # shows
              /\ session[replace[o].session].state # "absent"
    BY <1>3, <1>4, ReplaceTypes, NoneIsNoSession
  <2> QED BY <1>3, <1>4, <2>1 DEF SessionInv, Targets, Decided
<1>9. Discards'
  BY <1>3, <1>4 DEF SessionInv, SessionTypes, Targets, Discards
<1>10. NothingDiscardedUnasked'
  BY <1>2, <1>4 DEF SessionInv, NothingDiscardedUnasked
<1> QED BY <1>5, <1>6, <1>7, <1>8, <1>9, <1>10 DEF SessionInv

LEMMA SessionStep ==
    ASSUME SessionInv, HandshakeInv, [Next]_vars
    PROVE  SessionInv'
<1>1. CASE UNCHANGED <<session, window, shows, close, replace>>
  BY <1>1, SameSessions, OnlySessionsMove DEF SessionInv
<1>2. CASE AgentEdit \/ CommitDraft \/ Flush
  BY <1>2, EditStep DEF AgentEdit, CommitDraft, Flush
<1>3. CASE Decision
  BY <1>3, MainReceivesStep, HandshakeTimesOutStep, ReportDismissedStep, PromptedStep,
     CloseSavesStep, CloseLeavesStep, CloseEndsStep DEF Decision
<1>4. ASSUME NEW o \in Replacements, Replacing(o)
      PROVE  SessionInv'
  BY <1>4, ReplacePromptedStep, ReplaceSavesStep, ReplaceLeavesStep, ReplaceStrandsStep,
     ReplaceOpensStep, AssignStep, ReplaceStep, CleanupStep DEF Replacing
<1>5. ASSUME NEW o \in Replacements, NEW mode \in {"offline", "host", "guest"},
             ReplaceRequested(o, mode)
      PROVE  SessionInv'
  BY <1>5, ReplaceRequestedStep
<1> QED BY <1>1, <1>2, <1>3, <1>4, <1>5, CloseRequestedStep, CloseStrandsStep, NewWindowStep
        DEF Next, Handshake, Shutdown, Type, DeadlinePasses, RendererReceives, RendererReady,
            RendererBlocks, Watchdog, BeginShutdown, ShutdownDeadline, Exit, TaskSettles, vars
-----------------------------------------------------------------------------
(* The handshake.                                                          *)

LEMMA AppendElements ==
    ASSUME NEW S, NEW s \in Seq(S), NEW e \in S
    PROVE  /\ Append(s, e) \in Seq(S) /\ Len(Append(s, e)) = Len(s) + 1 /\ Len(s) \in Nat
           /\ \A i \in 1..Len(s) : Append(s, e)[i] = s[i]
           /\ Append(s, e)[Len(s) + 1] = e
           /\ \A i \in 1..Len(Append(s, e)) : i \in 1..Len(s) \/ i = Len(s) + 1
<1>1. /\ Append(s, e) \in Seq(S) /\ Len(Append(s, e)) = Len(s) + 1 /\ Len(s) \in Nat
      /\ \A i \in 1..Len(s) : Append(s, e)[i] = s[i]
      /\ Append(s, e)[Len(s) + 1] = e
  BY AppendProperties, LenProperties
<1>2. \A n \in Nat : \A i \in 1..(n + 1) : i \in 1..n \/ i = n + 1
  OBVIOUS
<1> QED BY <1>1, <1>2

LEMMA TailElements ==
    ASSUME NEW S, NEW s \in Seq(S), s # <<>>
    PROVE  /\ Tail(s) \in Seq(S) /\ Len(Tail(s)) = Len(s) - 1 /\ Len(s) \in Nat \ {0}
           /\ Head(s) = s[1] /\ Head(s) \in S /\ 1 \in 1..Len(s)
           /\ \A i \in 1..(Len(s) - 1) : Tail(s)[i] = s[i + 1]
           /\ \A i \in 1..Len(Tail(s)) : i + 1 \in 1..Len(s) /\ i + 1 # 1
           /\ \A i \in 1..Len(s) : i # 1 => i - 1 \in 1..Len(Tail(s)) /\ Tail(s)[i - 1] = s[i]
<1>1. /\ Tail(s) \in Seq(S) /\ Len(Tail(s)) = Len(s) - 1 /\ Len(s) \in Nat \ {0}
      /\ Head(s) = s[1] /\ Head(s) \in S
      /\ \A i \in 1..(Len(s) - 1) : Tail(s)[i] = s[i + 1]
  BY HeadTailProperties, LenProperties, EmptySeq
<1> DEFINE t == Tail(s)
<1> HIDE DEF t
<1>2. \A i \in 1..Len(t) : i + 1 \in 1..Len(s) /\ i + 1 # 1
  BY <1>1 DEF t
<1>3. \A i \in 1..Len(s) : i # 1 => i - 1 \in 1..Len(t) /\ t[i - 1] = s[(i - 1) + 1] /\ (i - 1) + 1 = i
  BY <1>1 DEF t
<1> QED BY <1>1, <1>2, <1>3 DEF t

LEMMA HandshakeFrame ==
    ASSUME HandshakeInv, UNCHANGED <<window, close, broker, late, renderer, toRenderer, toMain>>
    PROVE  HandshakeInv'
<1>1. HandshakeTypes' /\ Requests'
  BY DEF HandshakeInv, HandshakeTypes, Requests
<1>2. RequestInOnePlace'
  BY DEF HandshakeInv, RequestInOnePlace
<1>3. Seals'
  BY DEF HandshakeInv, Seals
<1> QED BY <1>1, <1>2, <1>3 DEF HandshakeInv

\* A decision goes on, or ends in a report.
LEMMA DecisionFrame ==
    ASSUME HandshakeInv, close' \in CloseRecord, close'.req = close.req,
           UNCHANGED <<window, broker, late, renderer, toRenderer, toMain>>,
           close.at \in Decided, close'.at \in Decided \cup {"reporting"}
    PROVE  HandshakeInv'
<1>1. HandshakeTypes'
  BY DEF HandshakeInv, HandshakeTypes, Decided
<1>2. Requests'
  BY DEF HandshakeInv, Requests, Decided
<1>3. RequestInOnePlace'
  BY DEF HandshakeInv, RequestInOnePlace
<1>4. Seals'
  BY DEF HandshakeInv, HandshakeTypes, Seals, Decided, CloseRecord
<1> QED BY <1>1, <1>2, <1>3, <1>4 DEF HandshakeInv

\* Text is typed, or applied.
LEMMA DraftMoves ==
    ASSUME HandshakeInv, NEW d \in {"none", "typed", "unseen", "late"},
           renderer' = [renderer EXCEPT !.draft = d], renderer.seal # None => d # "typed",
           UNCHANGED <<window, close, broker, late, toRenderer, toMain>>
    PROVE  HandshakeInv'
<1>1. /\ renderer' \in RendererRecord /\ renderer'.draft = d
      /\ renderer'.preparing = renderer.preparing /\ renderer'.seal = renderer.seal
  BY DEF HandshakeInv, HandshakeTypes, RendererRecord
<1>2. HandshakeTypes' /\ Requests'
  BY <1>1 DEF HandshakeInv, HandshakeTypes, Requests
<1>3. RequestInOnePlace'
  BY <1>1 DEF HandshakeInv, RequestInOnePlace
<1>4. Seals'
  BY <1>1 DEF HandshakeInv, Seals
<1> QED BY <1>2, <1>3, <1>4 DEF HandshakeInv

\* A renderer that is not sealed for a close that is decided is set free.
LEMMA Frees ==
    ASSUME HandshakeInv, renderer' = Free,
           UNCHANGED <<window, close, broker, late, toRenderer, toMain>>,
           renderer.seal = None \/ renderer.seal \in late
    PROVE  HandshakeInv'
<1>1. renderer \in RendererRecord /\ late \subseteq Nat \ {None}
  BY DEF HandshakeInv, HandshakeTypes
<1>2. renderer' \in RendererRecord /\ renderer'.preparing = None /\ renderer'.seal = None
  BY <1>1 DEF Free, RendererRecord, None
<1>3. HandshakeTypes'
  BY <1>2 DEF HandshakeInv, HandshakeTypes
<1>4. Requests'
  BY <1>2 DEF HandshakeInv, HandshakeTypes, Requests, CloseRecord, None
<1>5. RequestInOnePlace'
  BY <1>2 DEF HandshakeInv, Requests, RequestInOnePlace
<1>6. Seals'
  BY <1>1, <1>2 DEF HandshakeInv, Requests, Seals
<1> QED BY <1>3, <1>4, <1>5, <1>6 DEF HandshakeInv

LEMMA CloseRequestedHandshake ==
    ASSUME HandshakeInv, CloseRequested
    PROVE  HandshakeInv'
<1> DEFINE n == close.req + 1
           m == [type |-> "request", req |-> n]
<1>1. /\ window = "open" /\ close.at = "none" /\ close \in CloseRecord /\ close.req \in Nat
      /\ broker = None
  BY DEF CloseRequested, HandshakeInv, HandshakeTypes, CloseRecord, Requests
<1>2. /\ close' = [close EXCEPT !.at = "asking", !.req = n] /\ broker' = n
      /\ toRenderer' = Append(toRenderer, m)
      /\ UNCHANGED <<window, late, renderer, toMain>>
  BY DEF CloseRequested, Command
<1>3. n \in Nat /\ n # None /\ n > close.req
  BY <1>1 DEF None
<1>4. m \in ToRenderer /\ m.type = "request" /\ m.req = n
  BY <1>3 DEF ToRenderer
<1> HIDE DEF m, n
<1>5. close' \in CloseRecord /\ close'.at = "asking" /\ close'.req = n
  BY <1>1, <1>2, <1>3 DEF CloseRecord
<1>6. /\ toRenderer' \in Seq(ToRenderer) /\ Len(toRenderer') = Len(toRenderer) + 1
      /\ Len(toRenderer) \in Nat
      /\ \A i \in 1..Len(toRenderer) : toRenderer'[i] = toRenderer[i]
      /\ toRenderer'[Len(toRenderer) + 1] = m
      /\ \A i \in 1..Len(toRenderer') : i \in 1..Len(toRenderer) \/ i = Len(toRenderer) + 1
  BY <1>2, <1>4, AppendElements DEF HandshakeInv, HandshakeTypes
<1>7. /\ \A i \in 1..Len(toRenderer) :
            toRenderer[i] \in ToRenderer /\ toRenderer[i].req \in Nat /\ toRenderer[i].req < n
      /\ \A i \in 1..Len(toMain) : toMain[i].req \in Nat /\ toMain[i].req < n
      /\ renderer.preparing \in Nat /\ renderer.preparing < n
      /\ renderer.seal \in Nat /\ renderer.seal < n
  <2>1. \A i \in 1..Len(toRenderer) : toRenderer[i] \in ToRenderer
    BY ElementOfSeq DEF HandshakeInv, HandshakeTypes
  <2>2. \A i \in 1..Len(toMain) : toMain[i] \in ToMain
    BY ElementOfSeq DEF HandshakeInv, HandshakeTypes
  <2>3. \A i \in 1..Len(toRenderer) : toRenderer[i].req \in Nat /\ toRenderer[i].req < n
    BY <1>1, <1>3, <2>1 DEF HandshakeInv, Requests, ToRenderer
  <2>4. \A i \in 1..Len(toMain) : toMain[i].req \in Nat /\ toMain[i].req < n
    BY <1>1, <1>3, <2>2 DEF HandshakeInv, Requests, ToMain
  <2>5. /\ renderer.preparing \in Nat /\ renderer.preparing < n
        /\ renderer.seal \in Nat /\ renderer.seal < n
    BY <1>1, <1>3 DEF HandshakeInv, HandshakeTypes, Requests, RendererRecord, None
  <2> QED BY <2>1, <2>3, <2>4, <2>5
<1>8. HandshakeTypes'
  BY <1>1, <1>2, <1>5, <1>6 DEF HandshakeInv, HandshakeTypes
<1>9. Requests'
  BY <1>2, <1>3, <1>4, <1>5, <1>6, <1>7 DEF HandshakeInv, Requests
<1>10. RequestInOnePlace'
  <2>1. \A i \in 1..Len(toRenderer') :
           toRenderer'[i].type = "request" => toRenderer'[i].req \in late \/ toRenderer'[i].req = n
    BY <1>1, <1>4, <1>6 DEF HandshakeInv, RequestInOnePlace
  <2>2. \A i \in 1..Len(toRenderer') :
           IsRequest(toRenderer'[i], n) => i = Len(toRenderer) + 1
    BY <1>6, <1>7 DEF IsRequest
  <2>3. renderer.preparing # n /\ \A j \in 1..Len(toMain) : toMain[j].req # n
    BY <1>3, <1>7
  <2>4. renderer.preparing # None /\ renderer.seal = None => renderer.preparing \in late
    BY <1>1 DEF HandshakeInv, RequestInOnePlace
  <2> QED BY <1>2, <1>3, <2>1, <2>2, <2>3, <2>4 DEF RequestInOnePlace
<1>11. Seals'
  <2>1. \A i \in 1..Len(toRenderer') : ~IsRelease(toRenderer'[i], n)
    BY <1>4, <1>6, <1>7 DEF IsRelease
  <2>2. \A i \in 1..Len(toMain) : toMain[i].req # n
    BY <1>3, <1>7
  <2>3. renderer.seal # None =>
           \/ renderer.seal \in late
           \/ \E i \in 1..Len(toRenderer') : IsRelease(toRenderer'[i], renderer.seal)
    <3>1. \A i \in 1..Len(toRenderer) : i \in 1..Len(toRenderer')
      BY <1>6
    <3> QED BY <1>1, <1>6, <3>1 DEF HandshakeInv, Seals
  <2> QED BY <1>1, <1>2, <1>5, <2>1, <2>2, <2>3 DEF HandshakeInv, Seals, Decided
<1> QED BY <1>8, <1>9, <1>10, <1>11 DEF HandshakeInv

\* The renderer takes a command: what is left of the invariant about the others.
LEMMA CommandTaken ==
    ASSUME HandshakeInv, toRenderer # <<>>, toRenderer' = Tail(toRenderer)
    PROVE  /\ toRenderer' \in Seq(ToRenderer)
           /\ Head(toRenderer) \in ToRenderer /\ Head(toRenderer).req <= close.req
           /\ IsRelease(Head(toRenderer), close.req) => close.at \in {"none", "refused"}
           /\ Head(toRenderer).type = "request" =>
                 \/ Head(toRenderer).req \in late
                 \/ broker # None /\ Head(toRenderer).req = broker
           /\ broker # None /\ IsRequest(Head(toRenderer), broker) =>
                 /\ renderer.preparing # broker
                 /\ \A j \in 1..Len(toMain) : toMain[j].req # broker
                 /\ \A i \in 1..Len(toRenderer') : ~IsRequest(toRenderer'[i], broker)
           /\ \A i \in 1..Len(toRenderer') :
                 /\ toRenderer'[i].req <= close.req
                 /\ IsRelease(toRenderer'[i], close.req) => close.at \in {"none", "refused"}
                 /\ toRenderer'[i].type = "request" =>
                       \/ toRenderer'[i].req \in late
                       \/ broker # None /\ toRenderer'[i].req = broker
           /\ broker # None =>
                 /\ \A i, j \in 1..Len(toRenderer') :
                       IsRequest(toRenderer'[i], broker) /\ IsRequest(toRenderer'[j], broker) => i = j
                 /\ \A i \in 1..Len(toRenderer') :
                       IsRequest(toRenderer'[i], broker) =>
                          /\ renderer.preparing # broker
                          /\ \A j \in 1..Len(toMain) : toMain[j].req # broker
           /\ \A n : ~IsRelease(Head(toRenderer), n) =>
                 ((\E i \in 1..Len(toRenderer) : IsRelease(toRenderer[i], n)) =>
                    \E i \in 1..Len(toRenderer') : IsRelease(toRenderer'[i], n))
<1> DEFINE h == Head(toRenderer)
<1>1. /\ toRenderer' \in Seq(ToRenderer)
      /\ h = toRenderer[1] /\ h \in ToRenderer /\ 1 \in 1..Len(toRenderer)
      /\ Len(toRenderer') \in Nat
  BY TailElements, LenProperties DEF HandshakeInv, HandshakeTypes
<1>2. \A i \in 1..Len(toRenderer') :
         i + 1 \in 1..Len(toRenderer) /\ i + 1 # 1 /\ toRenderer'[i] = toRenderer[i + 1]
  BY TailElements DEF HandshakeInv, HandshakeTypes
<1>3. \A i \in 1..Len(toRenderer) :
         i # 1 => i - 1 \in 1..Len(toRenderer') /\ toRenderer'[i - 1] = toRenderer[i]
  BY TailElements DEF HandshakeInv, HandshakeTypes
<1>4. \A i, j \in 1..Len(toRenderer') : i + 1 = j + 1 => i = j
  BY <1>1
<1> HIDE DEF h
<1>5. /\ h.req <= close.req
      /\ IsRelease(h, close.req) => close.at \in {"none", "refused"}
      /\ h.type = "request" => h.req \in late \/ (broker # None /\ h.req = broker)
  BY <1>1 DEF HandshakeInv, Requests, RequestInOnePlace, Seals
<1>6. broker # None /\ IsRequest(h, broker) =>
         /\ renderer.preparing # broker
         /\ \A j \in 1..Len(toMain) : toMain[j].req # broker
         /\ \A i \in 1..Len(toRenderer') : ~IsRequest(toRenderer'[i], broker)
  BY <1>1, <1>2 DEF HandshakeInv, RequestInOnePlace
<1>7. \A i \in 1..Len(toRenderer') :
         /\ toRenderer'[i].req <= close.req
         /\ IsRelease(toRenderer'[i], close.req) => close.at \in {"none", "refused"}
         /\ toRenderer'[i].type = "request" =>
               toRenderer'[i].req \in late \/ (broker # None /\ toRenderer'[i].req = broker)
  BY <1>2 DEF HandshakeInv, Requests, RequestInOnePlace, Seals
<1>8. ASSUME broker # None
      PROVE  /\ \A i, j \in 1..Len(toRenderer') :
                   IsRequest(toRenderer'[i], broker) /\ IsRequest(toRenderer'[j], broker) => i = j
             /\ \A i \in 1..Len(toRenderer') :
                   IsRequest(toRenderer'[i], broker) =>
                      /\ renderer.preparing # broker
                      /\ \A j \in 1..Len(toMain) : toMain[j].req # broker
  <2>1. \A i, j \in 1..Len(toRenderer') :
           IsRequest(toRenderer'[i], broker) /\ IsRequest(toRenderer'[j], broker) => i + 1 = j + 1
    BY <1>2, <1>8 DEF HandshakeInv, RequestInOnePlace
  <2>2. \A i, j \in 1..Len(toRenderer') :
           IsRequest(toRenderer'[i], broker) /\ IsRequest(toRenderer'[j], broker) => i = j
    BY <1>4, <2>1
  <2>3. \A i \in 1..Len(toRenderer') :
           IsRequest(toRenderer'[i], broker) =>
              /\ renderer.preparing # broker
              /\ \A j \in 1..Len(toMain) : toMain[j].req # broker
    BY <1>2, <1>8 DEF HandshakeInv, RequestInOnePlace
  <2> QED BY <2>2, <2>3
<1>9. ASSUME NEW n, ~IsRelease(h, n), NEW i \in 1..Len(toRenderer), IsRelease(toRenderer[i], n)
      PROVE  \E k \in 1..Len(toRenderer') : IsRelease(toRenderer'[k], n)
  <2>1. i # 1
    BY <1>1, <1>9
  <2>2. i - 1 \in 1..Len(toRenderer') /\ IsRelease(toRenderer'[i - 1], n)
    BY <1>3, <1>9, <2>1
  <2> QED BY <2>2
<1> QED BY <1>1, <1>5, <1>6, <1>7, <1>8, <1>9 DEF h

\* What a renderer answers is appended to its responses.
LEMMA Replies ==
    ASSUME HandshakeInv, NEW n \in Nat, NEW d \in {"ready", "blocked"}, Reply(n, d)
    PROVE  /\ toMain' \in Seq(ToMain) /\ Len(toMain) \in Nat
           /\ \A i \in 1..Len(toMain) : i \in 1..Len(toMain') /\ toMain'[i] = toMain[i]
           /\ \A i \in 1..Len(toMain') :
                 \/ i \in 1..Len(toMain) /\ toMain'[i] = toMain[i]
                 \/ toMain'[i].req = n /\ toMain'[i].decision = d
<1> DEFINE m == [req |-> n, decision |-> d]
<1>1. m \in ToMain /\ m.req = n /\ m.decision = d
  BY DEF ToMain
<1>2. toMain' = Append(toMain, m)
  BY DEF Reply
<1> HIDE DEF m
<1>3. /\ toMain' \in Seq(ToMain) /\ Len(toMain') = Len(toMain) + 1 /\ Len(toMain) \in Nat
      /\ \A i \in 1..Len(toMain) : toMain'[i] = toMain[i]
      /\ toMain'[Len(toMain) + 1] = m
      /\ \A i \in 1..Len(toMain') : i \in 1..Len(toMain) \/ i = Len(toMain) + 1
  BY <1>1, <1>2, AppendElements DEF HandshakeInv, HandshakeTypes
<1>4. \A i \in 1..Len(toMain) : i \in 1..Len(toMain')
  BY <1>3
<1> QED BY <1>1, <1>3, <1>4

LEMMA RendererReceivesHandshake ==
    ASSUME HandshakeInv, RendererReceives
    PROVE  HandshakeInv'
<1> DEFINE m == Head(toRenderer)
<1>1. /\ toRenderer # <<>> /\ toRenderer' = Tail(toRenderer)
      /\ UNCHANGED <<window, close, broker, late>>
      /\ window = "open"
      /\ close.req \in Nat /\ renderer \in RendererRecord /\ late \subseteq Nat \ {None}
  BY DEF RendererReceives, HandshakeInv, HandshakeTypes, CloseRecord
<1>2. m \in ToRenderer /\ m.req \in Nat /\ m.req <= close.req
  BY <1>1, CommandTaken DEF ToRenderer
<1> HIDE DEF m
<1>3. CASE m.type = "release" /\ renderer.seal = m.req /\ renderer' = Free /\ UNCHANGED toMain
  <2>1. renderer' \in RendererRecord /\ renderer'.preparing = None /\ renderer'.seal = None
    BY <1>1, <1>3 DEF Free, RendererRecord, None
  <2>2. broker # None => renderer.seal # broker
    <3>1. broker = renderer.seal /\ broker # None => IsRelease(m, close.req) /\ close.at = "asking"
      BY <1>3 DEF HandshakeInv, Requests, IsRelease
    <3> QED BY <1>1, <3>1, CommandTaken DEF m
  <2>3. close.at \in Decided => renderer.seal # close.req
    <3>1. close.req = renderer.seal => IsRelease(m, close.req)
      BY <1>3 DEF IsRelease
    <3> QED BY <1>1, <3>1, CommandTaken DEF m, Decided
  <2>4. HandshakeTypes'
    BY <1>1, <1>3, <2>1, CommandTaken DEF HandshakeInv, HandshakeTypes
  <2>5. Requests'
    BY <1>1, <1>3, <2>1, CommandTaken DEF HandshakeInv, Requests, None
  <2>6. RequestInOnePlace'
    BY <1>1, <1>3, <2>1, CommandTaken DEF RequestInOnePlace
  <2>7. Seals'
    BY <1>1, <1>3, <2>1, <2>2, <2>3, CommandTaken DEF HandshakeInv, Seals
  <2> QED BY <2>4, <2>5, <2>6, <2>7 DEF HandshakeInv
<1>4. CASE m.type = "release" /\ renderer.seal # m.req /\ UNCHANGED <<renderer, toMain>>
  <2>1. \A n : n # m.req => ~IsRelease(m, n)
    BY DEF IsRelease
  <2>2. HandshakeTypes'
    BY <1>1, <1>4, CommandTaken DEF HandshakeInv, HandshakeTypes
  <2>3. Requests'
    BY <1>1, <1>4, CommandTaken DEF HandshakeInv, Requests
  <2>4. RequestInOnePlace'
    BY <1>1, <1>4, CommandTaken DEF HandshakeInv, RequestInOnePlace
  <2>5. Seals'
    BY <1>1, <1>4, <2>1, CommandTaken DEF HandshakeInv, Seals, m
  <2> QED BY <2>2, <2>3, <2>4, <2>5 DEF HandshakeInv
<1>5. CASE /\ m.type = "request" /\ (m.req \in late \/ renderer.preparing # None)
           /\ Reply(m.req, "blocked") /\ UNCHANGED renderer
  <2>1. /\ toMain' \in Seq(ToMain)
        /\ \A i \in 1..Len(toMain') :
              \/ i \in 1..Len(toMain) /\ toMain'[i] = toMain[i]
              \/ toMain'[i].req = m.req /\ toMain'[i].decision = "blocked"
    BY <1>2, <1>5, Replies
  <2>2. \A n : ~IsRelease(m, n)
    BY <1>5 DEF IsRelease
  <2>3. broker = m.req => IsRequest(m, broker)
    BY <1>5 DEF IsRequest
  <2>4. HandshakeTypes'
    BY <1>1, <1>5, <2>1, CommandTaken DEF HandshakeInv, HandshakeTypes
  <2>5. Requests'
    BY <1>1, <1>2, <1>5, <2>1, CommandTaken DEF HandshakeInv, Requests
  <2>6. RequestInOnePlace'
    <3>1. CASE broker = m.req /\ broker # None
      BY <1>1, <1>5, <2>1, <2>3, <3>1, CommandTaken DEF HandshakeInv, RequestInOnePlace, m
    <3>2. CASE broker # m.req \/ broker = None
      BY <1>1, <1>5, <2>1, <3>2, CommandTaken DEF HandshakeInv, RequestInOnePlace
    <3> QED BY <3>1, <3>2
  <2>7. Seals'
    BY <1>1, <1>5, <2>1, <2>2, CommandTaken DEF HandshakeInv, Seals, m
  <2> QED BY <2>4, <2>5, <2>6, <2>7 DEF HandshakeInv
<1>6. CASE /\ m.type = "request" /\ m.req \notin late /\ renderer.preparing = None
           /\ renderer' = [renderer EXCEPT !.preparing = m.req] /\ UNCHANGED toMain
  <2>1. /\ renderer' \in RendererRecord /\ renderer'.preparing = m.req
        /\ renderer'.seal = renderer.seal /\ renderer'.draft = renderer.draft
        /\ renderer.seal = None
    BY <1>1, <1>2, <1>6 DEF RendererRecord, HandshakeInv, Requests
  <2>2. broker # None /\ m.req = broker /\ IsRequest(m, broker)
    BY <1>1, <1>6, CommandTaken DEF m, IsRequest
  <2>3. \A n : ~IsRelease(m, n)
    BY <1>6 DEF IsRelease
  <2>4. HandshakeTypes'
    BY <1>1, <1>6, <2>1, CommandTaken DEF HandshakeInv, HandshakeTypes
  <2>5. Requests'
    BY <1>1, <1>2, <1>6, <2>1, CommandTaken DEF HandshakeInv, Requests
  <2>6. RequestInOnePlace'
    BY <1>1, <1>6, <2>1, <2>2, CommandTaken DEF HandshakeInv, RequestInOnePlace, m
  <2>7. Seals'
    BY <1>1, <1>6, <2>1, <2>3, CommandTaken DEF HandshakeInv, Seals, m
  <2> QED BY <2>4, <2>5, <2>6, <2>7 DEF HandshakeInv
<1> QED BY <1>3, <1>4, <1>5, <1>6 DEF RendererReceives, m

LEMMA RendererReadyHandshake ==
    ASSUME HandshakeInv, RendererReady
    PROVE  HandshakeInv'
<1> DEFINE n == renderer.preparing
<1>1. /\ n # None /\ renderer.seal = None /\ renderer.draft # "typed" /\ n \notin late
      /\ renderer' = [renderer EXCEPT !.seal = n] /\ Reply(n, "ready")
      /\ UNCHANGED <<window, close, broker, late, toRenderer>>
      /\ renderer \in RendererRecord /\ n \in Nat
  BY DEF RendererReady, HandshakeInv, HandshakeTypes, RendererRecord
<1>2. broker = n /\ n = close.req /\ close.at = "asking" /\ window = "open"
  BY <1>1 DEF HandshakeInv, HandshakeTypes, Requests, RequestInOnePlace
<1>3. /\ renderer' \in RendererRecord /\ renderer'.preparing = n /\ renderer'.seal = n
      /\ renderer'.draft = renderer.draft
  BY <1>1 DEF RendererRecord
<1>4. /\ toMain' \in Seq(ToMain)
      /\ \A i \in 1..Len(toMain') :
            \/ i \in 1..Len(toMain) /\ toMain'[i] = toMain[i]
            \/ toMain'[i].req = n /\ toMain'[i].decision = "ready"
  BY <1>1, Replies
<1>5. HandshakeTypes'
  BY <1>1, <1>3, <1>4 DEF HandshakeInv, HandshakeTypes
<1>6. Requests'
  BY <1>1, <1>2, <1>3, <1>4 DEF HandshakeInv, Requests
<1>7. RequestInOnePlace'
  BY <1>1, <1>2, <1>3, <1>4 DEF HandshakeInv, RequestInOnePlace
<1>8. Seals'
  BY <1>1, <1>2, <1>3, <1>4 DEF HandshakeInv, Seals, Decided
<1> QED BY <1>5, <1>6, <1>7, <1>8 DEF HandshakeInv

LEMMA RendererBlocksHandshake ==
    ASSUME HandshakeInv, RendererBlocks
    PROVE  HandshakeInv'
<1> DEFINE n == renderer.preparing
<1>1. /\ n # None /\ renderer.seal = None
      /\ renderer' = Free /\ Reply(n, "blocked")
      /\ UNCHANGED <<window, close, broker, late, toRenderer>>
      /\ renderer \in RendererRecord /\ n \in Nat /\ close.req \in Nat
  BY DEF RendererBlocks, HandshakeInv, HandshakeTypes, RendererRecord, CloseRecord
<1>2. renderer' \in RendererRecord /\ renderer'.preparing = None /\ renderer'.seal = None
  BY <1>1 DEF Free, RendererRecord, None
<1>3. /\ toMain' \in Seq(ToMain)
      /\ \A i \in 1..Len(toMain') :
            \/ i \in 1..Len(toMain) /\ toMain'[i] = toMain[i]
            \/ toMain'[i].req = n /\ toMain'[i].decision = "blocked"
  BY <1>1, Replies
<1>4. HandshakeTypes'
  BY <1>1, <1>2, <1>3 DEF HandshakeInv, HandshakeTypes
<1>5. Requests'
  BY <1>1, <1>2, <1>3 DEF HandshakeInv, Requests, None
<1>6. RequestInOnePlace'
  BY <1>1, <1>2, <1>3 DEF HandshakeInv, RequestInOnePlace
<1>7. Seals'
  BY <1>1, <1>2, <1>3 DEF HandshakeInv, Seals
<1> QED BY <1>4, <1>5, <1>6, <1>7 DEF HandshakeInv

LEMMA WatchdogHandshake ==
    ASSUME HandshakeInv, Watchdog
    PROVE  HandshakeInv'
BY Frees DEF Watchdog

LEMMA DeadlineHandshake ==
    ASSUME HandshakeInv, DeadlinePasses
    PROVE  HandshakeInv'
<1>1. /\ late' = late \cup {close.req} /\ close.req # None /\ close.req \in Nat
      /\ UNCHANGED <<window, close, broker, renderer, toRenderer, toMain>>
  BY DEF DeadlinePasses, HandshakeInv, HandshakeTypes, CloseRecord
<1>2. HandshakeTypes'
  BY <1>1 DEF HandshakeInv, HandshakeTypes, None
<1>3. Requests'
  BY <1>1 DEF HandshakeInv, Requests
<1>4. RequestInOnePlace'
  BY <1>1 DEF HandshakeInv, RequestInOnePlace
<1>5. Seals'
  BY <1>1 DEF HandshakeInv, Seals
<1> QED BY <1>2, <1>3, <1>4, <1>5 DEF HandshakeInv

LEMMA TypeHandshake ==
    ASSUME HandshakeInv, Type
    PROVE  HandshakeInv'
<1>1. PICK kind \in DraftKinds : renderer' = [renderer EXCEPT !.draft = kind]
  BY DEF Type
<1>2. kind \in {"typed", "unseen", "late"} /\ (renderer.seal # None => kind # "typed")
  BY DEF DraftKinds
<1> QED BY <1>1, <1>2, DraftMoves DEF Type

LEMMA AppliedHandshake ==
    ASSUME HandshakeInv, CommitDraft \/ Flush
    PROVE  HandshakeInv'
BY DraftMoves DEF CommitDraft, Flush, Applied

\* Main keeps the window: the decision ends, or its failure is reported, and the
\* renderer is released.
LEMMA ReleaseHandshake ==
    ASSUME HandshakeInv, window = "open", close.at # "none",
           close' \in CloseRecord, close'.req = close.req, close'.at \in {"none", "refused"},
           Command("release", close.req),
           \/ UNCHANGED <<broker, toMain>>  /\ broker = None
           \/ broker' = None /\ UNCHANGED toMain /\ broker \in late
           \/ /\ broker' = None /\ toMain # <<>> /\ toMain' = Tail(toMain)
              /\ broker # None /\ Head(toMain).req = broker,
           UNCHANGED <<window, late, renderer>>
    PROVE  HandshakeInv'
<1> DEFINE n == close.req
           m == [type |-> "release", req |-> n]
<1>1. n \in Nat /\ toRenderer' = Append(toRenderer, m)
  BY DEF HandshakeInv, HandshakeTypes, CloseRecord, Command
<1>2. m \in ToRenderer /\ m.type = "release" /\ m.req = n
  BY <1>1 DEF ToRenderer
<1> HIDE DEF m, n
<1>3. /\ toRenderer' \in Seq(ToRenderer) /\ Len(toRenderer') = Len(toRenderer) + 1
      /\ Len(toRenderer) \in Nat
      /\ \A i \in 1..Len(toRenderer) : toRenderer'[i] = toRenderer[i]
      /\ toRenderer'[Len(toRenderer) + 1] = m
      /\ \A i \in 1..Len(toRenderer') : i \in 1..Len(toRenderer) \/ i = Len(toRenderer) + 1
  BY <1>1, <1>2, AppendElements DEF HandshakeInv, HandshakeTypes
<1>4. \A i \in 1..Len(toRenderer) : i \in 1..Len(toRenderer')
  BY <1>3
<1>5. Len(toRenderer) + 1 \in 1..Len(toRenderer') /\ IsRelease(toRenderer'[Len(toRenderer) + 1], n)
  BY <1>2, <1>3 DEF IsRelease
<1>6. /\ broker' = None
      /\ toMain' \in Seq(ToMain)
      /\ \A i \in 1..Len(toMain') : toMain'[i].req <= close.req
  <2>1. CASE toMain # <<>> /\ toMain' = Tail(toMain) /\ broker' = None
    <3>1. \A i \in 1..Len(toMain') : i + 1 \in 1..Len(toMain) /\ toMain'[i] = toMain[i + 1]
      BY <2>1, TailElements DEF HandshakeInv, HandshakeTypes
    <3> QED BY <2>1, <3>1, TailElements DEF HandshakeInv, HandshakeTypes, Requests
  <2> QED BY <2>1 DEF HandshakeInv, HandshakeTypes, Requests
<1>7. /\ \A i \in 1..Len(toRenderer) : toRenderer[i].type = "request" => toRenderer[i].req \in late
      /\ renderer.preparing # None /\ renderer.seal = None => renderer.preparing \in late
  <2>1. CASE broker = None \/ broker \in late
    BY <2>1 DEF HandshakeInv, RequestInOnePlace
  <2>2. CASE broker # None /\ toMain # <<>> /\ Head(toMain).req = broker
    <3>1. 1 \in 1..Len(toMain) /\ toMain[1].req = broker
      BY <2>2, TailElements DEF HandshakeInv, HandshakeTypes
    <3>2. ASSUME NEW i \in 1..Len(toRenderer), toRenderer[i].type = "request"
          PROVE  toRenderer[i].req \in late
      BY <2>2, <3>1, <3>2 DEF HandshakeInv, RequestInOnePlace, IsRequest
    <3>3. renderer.preparing # None /\ renderer.seal = None => renderer.preparing \in late
      BY <2>2, <3>1 DEF HandshakeInv, RequestInOnePlace
    <3> QED BY <3>2, <3>3
  <2> QED BY <2>1, <2>2
<1>8. HandshakeTypes'
  BY <1>3, <1>6 DEF HandshakeInv, HandshakeTypes
<1>9. Requests'
  BY <1>1, <1>2, <1>3, <1>6 DEF HandshakeInv, Requests, n
<1>10. RequestInOnePlace'
  <2>1. \A i \in 1..Len(toRenderer') :
           toRenderer'[i].type = "request" => toRenderer'[i].req \in late
    BY <1>2, <1>3, <1>7
  <2> QED BY <1>6, <1>7, <2>1 DEF RequestInOnePlace
<1>11. Seals'
  <2>1. renderer.seal # None /\ renderer.seal # n =>
           \/ renderer.seal \in late
           \/ \E i \in 1..Len(toRenderer') : IsRelease(toRenderer'[i], renderer.seal)
    BY <1>3, <1>4 DEF HandshakeInv, Seals, n
  <2>2. renderer.seal = n => \E i \in 1..Len(toRenderer') : IsRelease(toRenderer'[i], renderer.seal)
    BY <1>5
  <2> QED BY <1>6, <2>1, <2>2 DEF HandshakeInv, Seals, Decided, n
<1> QED BY <1>8, <1>9, <1>10, <1>11 DEF HandshakeInv

LEMMA RetainHandshake ==
    ASSUME HandshakeInv, Retain, close.at \in Decided \cup {"reporting"},
           UNCHANGED <<window, broker, late, renderer, toMain>>
    PROVE  HandshakeInv'
<1>1. /\ close \in CloseRecord /\ close.req \in Nat /\ broker = None
      /\ window = "open" /\ close.at # "none"
  BY DEF HandshakeInv, HandshakeTypes, Requests, CloseRecord, Decided
<1>2. close' \in CloseRecord /\ close'.req = close.req /\ close'.at = "none"
  BY <1>1 DEF Retain, Idle, NoDecision, CloseRecord, None
<1> QED BY <1>1, <1>2, ReleaseHandshake DEF Retain

LEMMA RefusedHandshake ==
    ASSUME HandshakeInv, Refused, broker # None, broker' = None,
           \/ UNCHANGED toMain /\ broker \in late
           \/ toMain # <<>> /\ toMain' = Tail(toMain) /\ Head(toMain).req = broker,
           UNCHANGED <<window, late, renderer>>
    PROVE  HandshakeInv'
<1>1. close \in CloseRecord /\ close.req \in Nat /\ window = "open" /\ close.at # "none"
  BY DEF HandshakeInv, HandshakeTypes, Requests, CloseRecord
<1>2. close' \in CloseRecord /\ close'.req = close.req /\ close'.at = "refused"
  BY <1>1 DEF Refused, CloseRecord
<1> QED BY <1>1, <1>2, ReleaseHandshake DEF Refused

LEMMA MainReceivesHandshake ==
    ASSUME HandshakeInv, close' \in CloseRecord, MainReceives
    PROVE  HandshakeInv'
<1> DEFINE m == Head(toMain)
<1>1. toMain # <<>> /\ toMain' = Tail(toMain) /\ UNCHANGED <<window, late, renderer>>
  BY DEF MainReceives
<1>2. /\ toMain' \in Seq(ToMain) /\ 1 \in 1..Len(toMain) /\ toMain[1] = m
      /\ \A i \in 1..Len(toMain') : i + 1 \in 1..Len(toMain) /\ toMain'[i] = toMain[i + 1]
  BY <1>1, TailElements DEF HandshakeInv, HandshakeTypes
<1>3. CASE ~Answers(m) /\ UNCHANGED <<close, broker, toRenderer>>
  <2>1. HandshakeTypes'
    BY <1>1, <1>2, <1>3 DEF HandshakeInv, HandshakeTypes
  <2>2. Requests'
    BY <1>1, <1>2, <1>3 DEF HandshakeInv, Requests
  <2>3. RequestInOnePlace'
    BY <1>1, <1>2, <1>3 DEF HandshakeInv, RequestInOnePlace
  <2>4. Seals'
    BY <1>1, <1>2, <1>3 DEF HandshakeInv, Seals
  <2> QED BY <2>1, <2>2, <2>3, <2>4 DEF HandshakeInv
<1>4. CASE Answers(m) /\ broker' = None /\ Refused
  BY <1>1, <1>4, RefusedHandshake DEF Answers
<1>5. CASE /\ Answers(m) /\ broker' = None /\ m.decision = "ready" /\ broker \notin late
           /\ Authorized
  <2>1. /\ broker # None /\ m.req = broker /\ broker = close.req /\ close.at = "asking"
        /\ window = "open" /\ close \in CloseRecord
    BY <1>5 DEF Answers, HandshakeInv, HandshakeTypes, Requests
  <2>2. renderer.seal = broker
    BY <1>2, <1>5, <2>1 DEF HandshakeInv, Seals
  <2>3. close'.req = close.req /\ close'.at \in Decided /\ UNCHANGED toRenderer
    BY <1>5, <2>1 DEF Authorized, CloseRecord, Decided
  <2>4. \A i \in 1..Len(toRenderer) :
           toRenderer[i].type = "request" => toRenderer[i].req \in late
    BY <1>2, <2>1 DEF HandshakeInv, RequestInOnePlace, IsRequest
  <2>5. HandshakeTypes'
    BY <1>1, <1>2, <1>5, <2>1, <2>3 DEF HandshakeInv, HandshakeTypes
  <2>6. Requests'
    BY <1>1, <1>2, <1>5, <2>1, <2>3 DEF HandshakeInv, Requests
  <2>7. RequestInOnePlace'
    BY <1>1, <1>5, <2>1, <2>2, <2>3, <2>4 DEF RequestInOnePlace
  <2>8. Seals'
    BY <1>1, <1>2, <1>5, <2>1, <2>2, <2>3 DEF HandshakeInv, Seals, Decided
  <2> QED BY <2>5, <2>6, <2>7, <2>8 DEF HandshakeInv
<1> QED BY <1>3, <1>4, <1>5 DEF MainReceives

LEMMA TimesOutHandshake ==
    ASSUME HandshakeInv, HandshakeTimesOut
    PROVE  HandshakeInv'
<1>1. broker # None
  BY DEF HandshakeTimesOut, HandshakeInv, HandshakeTypes
<1> QED BY <1>1, RefusedHandshake DEF HandshakeTimesOut

LEMMA DecisionHandshake ==
    ASSUME HandshakeInv, close' \in CloseRecord,
           (Retain /\ close.at = "reporting") \/ Prompted \/ CloseSaves \/ CloseLeaves \/ CloseStrands,
           UNCHANGED <<window, broker, late, renderer, toMain>>
    PROVE  HandshakeInv'
<1>1. close \in CloseRecord
  BY DEF HandshakeInv, HandshakeTypes
<1>2. close.at \in Decided \cup {"reporting"} /\ UNCHANGED <<window, broker, late, renderer, toMain>>
  BY DEF Prompted, CloseSaves, CloseLeaves, CloseStrands, Decided
<1>3. CASE Retain
  BY <1>2, <1>3, RetainHandshake
<1>4. CASE Fails /\ close.at \in Decided
  <2>1. close'.req = close.req /\ close'.at = "reporting" /\ UNCHANGED toRenderer
    BY <1>1, <1>4 DEF Fails, CloseRecord
  <2> QED BY <1>2, <1>4, <2>1, DecisionFrame
<1>5. CASE Prompted /\ ~Retain
  <2>1. close.at \in Decided /\ close'.req = close.req /\ close'.at \in Decided /\ UNCHANGED toRenderer
    BY <1>1, <1>5 DEF Prompted, Goes, CloseRecord, Decided
  <2> QED BY <1>2, <2>1, DecisionFrame
<1>6. CASE CloseSaves /\ ~Retain /\ ~Fails
  <2>1. close.at \in Decided /\ close'.req = close.req /\ close'.at \in Decided /\ UNCHANGED toRenderer
    BY <1>1, <1>6 DEF CloseSaves, CloseRecord, Decided
  <2> QED BY <1>2, <2>1, DecisionFrame
<1>7. CASE CloseLeaves /\ ~Fails
  <2>1. close.at \in Decided /\ UNCHANGED toRenderer
    BY <1>7 DEF CloseLeaves, Decided
  <2>2. PICK at \in {"detached", "closing"} :
           close' = [close EXCEPT !.rev = session[close.session].rev, !.at = at]
    BY <1>7 DEF CloseLeaves
  <2>3. close'.req = close.req /\ close'.at \in Decided
    BY <1>1, <2>2 DEF CloseRecord, Decided
  <2> QED BY <1>2, <2>1, <2>3, DecisionFrame
<1>8. CASE CloseStrands
  <2>1. /\ close.at \in Decided /\ UNCHANGED toRenderer
        /\ close'.req = close.req /\ close'.at \in Decided
    BY <1>1, <1>8 DEF CloseStrands, Goes, CloseRecord, Decided
  <2> QED BY <1>2, <2>1, DecisionFrame
<1> QED BY <1>3, <1>4, <1>5, <1>6, <1>7, <1>8 DEF CloseSaves, CloseLeaves, Decided

\* After a refusal the renderer has been released already.
LEMMA ReportHandshake ==
    ASSUME HandshakeInv, close' \in CloseRecord, ReportDismissed
    PROVE  HandshakeInv'
<1>1. UNCHANGED <<window, broker, late, renderer, toMain>>
  BY DEF ReportDismissed
<1>2. CASE close.at = "reporting" /\ Retain
  BY <1>1, <1>2, DecisionHandshake
<1>3. CASE close.at = "refused" /\ close' = Idle /\ UNCHANGED toRenderer
  <2>1. close'.at = "none" /\ close'.req = close.req /\ broker = None
    BY <1>3 DEF Idle, NoDecision, HandshakeInv, HandshakeTypes, Requests, CloseRecord
  <2>2. HandshakeTypes'
    BY <1>1, <1>3, <2>1 DEF HandshakeInv, HandshakeTypes
  <2>3. Requests'
    BY <1>1, <1>3, <2>1 DEF HandshakeInv, Requests
  <2>4. RequestInOnePlace'
    BY <1>1, <1>3, <2>1 DEF HandshakeInv, RequestInOnePlace
  <2>5. Seals'
    BY <1>1, <1>3, <2>1 DEF HandshakeInv, Seals, Decided
  <2> QED BY <2>2, <2>3, <2>4, <2>5 DEF HandshakeInv
<1> QED BY <1>2, <1>3 DEF ReportDismissed

LEMMA CloseEndsHandshake ==
    ASSUME HandshakeInv, CloseEnds
    PROVE  HandshakeInv'
<1>1. close \in CloseRecord /\ close.req \in Nat /\ close.at = "closing" /\ close.at \in Decided
  BY DEF CloseEnds, HandshakeInv, HandshakeTypes, CloseRecord, Decided
<1>2. CASE Fails /\ UNCHANGED <<window, broker, late, renderer, toMain>>
  <2>1. /\ close' \in CloseRecord /\ close'.req = close.req /\ close'.at = "reporting"
        /\ UNCHANGED toRenderer
    BY <1>1, <1>2 DEF Fails, CloseRecord
  <2> QED BY <1>1, <1>2, <2>1, DecisionFrame
<1>3. CASE Destroyed /\ UNCHANGED <<late, renderer>>
  <2>1. close' \in CloseRecord /\ close'.req = close.req /\ close'.at = "none"
    BY <1>1, <1>3 DEF Destroyed, Idle, NoDecision, CloseRecord, None
  <2>2. Len(<<>>) = 0 /\ (\A i \in 1..0 : FALSE) /\ toRenderer' = <<>> /\ toMain' = <<>>
        /\ <<>> \in Seq(ToMain) /\ <<>> \in Seq(ToRenderer)
    BY <1>3, EmptySeq DEF Destroyed
  <2>3. \A i \in 1..Len(toRenderer') : FALSE
    BY <2>2
  <2>4. \A i \in 1..Len(toMain') : FALSE
    BY <2>2
  <2>5. HandshakeTypes'
    BY <1>3, <2>1, <2>2 DEF HandshakeInv, HandshakeTypes, Destroyed
  <2>6. Requests'
    BY <1>1, <1>3, <2>1, <2>3, <2>4 DEF HandshakeInv, Requests, Destroyed
  <2>7. broker = None
    BY <1>1 DEF HandshakeInv, Requests
  <2>8. RequestInOnePlace'
    BY <1>3, <2>3, <2>4, <2>7 DEF HandshakeInv, RequestInOnePlace, Destroyed
  <2>9. Seals'
    BY <1>1, <1>3, <2>1, <2>3, <2>4 DEF HandshakeInv, Seals, Destroyed, Decided
  <2> QED BY <2>5, <2>6, <2>8, <2>9 DEF HandshakeInv
<1> QED BY <1>2, <1>3 DEF CloseEnds

LEMMA NewWindowHandshake ==
    ASSUME HandshakeInv, NewWindow
    PROVE  HandshakeInv'
<1>1. /\ window = "destroyed" /\ close.at = "none" /\ toRenderer = <<>> /\ broker = None
      /\ window' = "open" /\ renderer' = IdleRenderer
      /\ UNCHANGED <<close, broker, late, toRenderer, toMain>> /\ close.req \in Nat
  BY DEF NewWindow, HandshakeInv, HandshakeTypes, Requests, CloseRecord
<1>2. /\ renderer' \in RendererRecord /\ renderer'.preparing = None /\ renderer'.seal = None
  BY <1>1 DEF IdleRenderer, RendererRecord, None
<1>3. HandshakeTypes'
  BY <1>1, <1>2 DEF HandshakeInv, HandshakeTypes
<1>4. Requests'
  BY <1>1, <1>2 DEF HandshakeInv, Requests, None
<1>5. RequestInOnePlace'
  BY <1>1, <1>2 DEF HandshakeInv, RequestInOnePlace
<1>6. Seals'
  BY <1>1, <1>2 DEF HandshakeInv, Seals, Decided
<1> QED BY <1>3, <1>4, <1>5, <1>6 DEF HandshakeInv

LEMMA HandshakeStep ==
    ASSUME SessionInv, HandshakeInv, [Next]_vars
    PROVE  HandshakeInv'
<1>1. close' \in CloseRecord
  BY SessionStep DEF SessionInv, SessionTypes
<1>2. CASE UNCHANGED <<window, close, broker, late, renderer, toRenderer, toMain>>
  BY <1>2, HandshakeFrame
<1>3. CASE Handshake
  BY <1>3, RendererReceivesHandshake, AppliedHandshake, RendererReadyHandshake,
     RendererBlocksHandshake, WatchdogHandshake DEF Handshake
<1>4. CASE Decision
  <2>1. CASE Prompted \/ CloseSaves \/ CloseLeaves
    <3>1. UNCHANGED <<window, broker, late, renderer, toMain>>
      BY <2>1 DEF Prompted, CloseSaves, CloseLeaves
    <3> QED BY <1>1, <2>1, <3>1, DecisionHandshake
  <2> QED BY <1>1, <1>4, <2>1, MainReceivesHandshake, TimesOutHandshake, ReportHandshake,
          CloseEndsHandshake DEF Decision
<1>5. CASE Type \/ CommitDraft \/ CloseRequested \/ DeadlinePasses \/ NewWindow
  BY <1>5, TypeHandshake, AppliedHandshake, CloseRequestedHandshake, DeadlineHandshake,
     NewWindowHandshake
<1>6. ASSUME NEW o \in Replacements, Replacing(o)
      PROVE  UNCHANGED <<window, close, broker, late, renderer, toRenderer, toMain>>
  BY <1>6 DEF Replacing, ReplacePrompted, ReplaceSaves, ReplaceLeaves, ReplaceStrands,
     ReplaceOpens, Assign, Replace, Cleanup, handshake
<1>7. ASSUME NEW o \in Replacements, NEW mode \in {"offline", "host", "guest"},
             ReplaceRequested(o, mode)
      PROVE  UNCHANGED <<window, close, broker, late, renderer, toRenderer, toMain>>
  BY <1>7 DEF ReplaceRequested, handshake
<1>8. CASE CloseStrands
  <2>1. UNCHANGED <<window, broker, late, renderer, toMain>>
    BY <1>8 DEF CloseStrands
  <2> QED BY <1>1, <1>8, <2>1, DecisionHandshake
<1> QED BY <1>2, <1>3, <1>4, <1>5, <1>6, <1>7, <1>8
        DEF Next, Shutdown, AgentEdit, BeginShutdown, ShutdownDeadline, Exit, TaskSettles,
            handshake, vars
-----------------------------------------------------------------------------
(* The theorems.                                                           *)

LEMMA StartSessions == Init => SessionInv
<1> SUFFICES ASSUME Init PROVE SessionInv
  OBVIOUS
<1> DEFINE first == [Opened("offline") EXCEPT !.shown = TRUE]
<1>1. /\ first \in SessionRecord /\ first.state = "open" /\ first.shown
      /\ Absent \in SessionRecord /\ Absent.state = "absent"
  BY DEF Absent, Opened, SessionRecord
<1> HIDE DEF first
<1>2. 1 \in Sessions /\ None = 0 /\ None \notin Sessions
  BY SessionsAssumption, NoneIsNoSession DEF None
<1>3. /\ session \in [Sessions -> SessionRecord] /\ session[1] = first
      /\ \A s \in Sessions : s # 1 => session[s] = Absent
  BY <1>1, <1>2 DEF Init, first
<1>4. NoReplacement \in ReplaceRecord /\ NoReplacement.at = "none"
  BY DEF NoReplacement, ReplaceRecord
<1>5. /\ replace \in [Replacements -> ReplaceRecord]
      /\ \A o \in Replacements : replace[o].at = "none"
  BY <1>4 DEF Init
<1>6. close \in CloseRecord /\ close.at = "none" /\ window = "open" /\ shows = 1
  BY DEF Init, NoDecision, CloseRecord, None
<1>7. SessionTypes
  BY <1>2, <1>3, <1>5, <1>6 DEF SessionTypes, Decided
<1>8. SessionsAreOwned
  BY <1>1, <1>2, <1>3, <1>6 DEF SessionsAreOwned
<1>9. Ownership /\ Targets /\ Discards
  BY <1>5, <1>6 DEF Ownership, Owning, Targets, Discards, Decided
<1>10. NothingDiscardedUnasked
  BY <1>1, <1>3 DEF NothingDiscardedUnasked
<1> QED BY <1>7, <1>8, <1>9, <1>10 DEF SessionInv

LEMMA StartHandshake == Init => HandshakeInv
<1> SUFFICES ASSUME Init PROVE HandshakeInv
  OBVIOUS
<1>1. /\ close \in CloseRecord /\ close.at = "none" /\ close.req = 0 /\ window = "open"
      /\ broker = None /\ late = {} /\ toRenderer = <<>> /\ toMain = <<>>
  BY DEF Init, NoDecision, CloseRecord, None
<1>2. renderer \in RendererRecord /\ renderer.preparing = None /\ renderer.seal = None /\ None = 0
  BY DEF Init, IdleRenderer, RendererRecord, None
<1>3. Len(<<>>) = 0 /\ (\A i \in 1..0 : FALSE) /\ <<>> \in Seq(ToMain) /\ <<>> \in Seq(ToRenderer)
  BY EmptySeq
<1>4. (\A i \in 1..Len(toRenderer) : FALSE) /\ (\A i \in 1..Len(toMain) : FALSE)
  BY <1>1, <1>3
<1>5. HandshakeTypes
  BY <1>1, <1>2, <1>3 DEF HandshakeTypes
<1>6. Requests
  BY <1>1, <1>2, <1>4 DEF Requests
<1>7. RequestInOnePlace
  BY <1>1, <1>2, <1>4 DEF RequestInOnePlace
<1>8. Seals
  BY <1>1, <1>2, <1>4 DEF Seals, Decided
<1> QED BY <1>5, <1>6, <1>7, <1>8 DEF HandshakeInv

LEMMA Invariants == Spec => [](SessionInv /\ HandshakeInv)
<1>1. Init => SessionInv /\ HandshakeInv
  BY StartSessions, StartHandshake
<1>2. SessionInv /\ HandshakeInv /\ [Next]_vars => (SessionInv /\ HandshakeInv)'
  BY SessionStep, HandshakeStep
<1> QED BY <1>1, <1>2, PTL DEF Spec

\* Whatever is asked for while dialogs, saves and the end of a collaboration are
\* waited for, the recovery files of a presentation that was shown go only with
\* a revision that is saved or that the user chose to discard.
THEOREM DiscardIsAgreed == Spec => []NothingDiscardedUnasked
BY Invariants, PTL DEF SessionInv

\* The window shows an open session, and every other open session belongs to a
\* replacement that will assign it to the window or close it.
THEOREM NoSessionLeaks == Spec => []SessionsAreOwned
BY Invariants, PTL DEF SessionInv

\* A window that goes with text that was there when the renderer checked its fields
\* had outlived the deadline of its close.
THEOREM DraftsSurvive == Spec => []DraftsAreFlushed
<1>1. HandshakeInv => DraftsAreFlushed
  <2> SUFFICES ASSUME HandshakeInv, window = "destroyed", renderer.draft = "typed"
               PROVE  close.req \in late
    BY DEF DraftsAreFlushed
  <2>1. renderer.seal = None
    BY DEF HandshakeInv, Seals
  <2> QED BY <2>1 DEF HandshakeInv, Requests, Seals
<1> QED BY <1>1, Invariants, PTL

\* The renderer stays sealed while the close it agreed to is decided, and is
\* released, or past its deadline, when that close was given up.
THEOREM SealsAreReleased == Spec => []SealFollowsClose
<1>1. HandshakeInv => SealFollowsClose
  <2> SUFFICES ASSUME HandshakeInv, window = "open"
               PROVE  SealFollowsClose
    BY DEF SealFollowsClose
  <2>1. ASSUME renderer.seal # None, close.at = "none", renderer.seal \notin late
        PROVE  \E i \in DOMAIN toRenderer :
                  toRenderer[i] = [type |-> "release", req |-> renderer.seal]
    <3>1. PICK i \in 1..Len(toRenderer) : IsRelease(toRenderer[i], renderer.seal)
      BY <2>1 DEF HandshakeInv, Seals
    <3>2. DOMAIN toRenderer = 1..Len(toRenderer) /\ toRenderer[i] \in ToRenderer
      BY LenProperties, ElementOfSeq DEF HandshakeInv, HandshakeTypes
    <3>3. toRenderer[i] = [type |-> "release", req |-> renderer.seal]
      BY <3>1, <3>2 DEF IsRelease, ToRenderer
    <3> QED BY <3>2, <3>3
  <2> QED BY <2>1 DEF HandshakeInv, Seals, SealFollowsClose
<1> QED BY <1>1, Invariants, PTL

\* Every reachable state of the window, its sessions, the handshake and the process
\* is well typed.
THEOREM Typing == Spec => []TypeOK
<1> DEFINE ProcessTypes == /\ app \in {"running", "cleaning", "due", "exited"}
                           /\ pending \subseteq Tasks
<1>1. Init => ProcessTypes
  BY DEF Init
<1>2. ProcessTypes /\ [Next]_vars => ProcessTypes'
  <2> SUFFICES ASSUME ProcessTypes, [Next]_vars PROVE ProcessTypes'
    OBVIOUS
  <2>1. CASE UNCHANGED process
    BY <2>1 DEF process
  <2>2. CASE Shutdown \/ \E t \in Tasks : TaskSettles(t)
    BY <2>2 DEF Shutdown, BeginShutdown, ShutdownDeadline, Exit, TaskSettles
  <2>3. CASE Handshake \/ Decision \/ CloseStrands
    BY <2>1, <2>3 DEF Handshake, RendererReceives, Flush, RendererReady, RendererBlocks,
       Watchdog, Decision, MainReceives, HandshakeTimesOut, ReportDismissed, Prompted,
       CloseSaves, CloseLeaves, CloseEnds, CloseStrands
  <2>4. ASSUME NEW o \in Replacements, Replacing(o)
        PROVE  UNCHANGED process
    BY <2>4 DEF Replacing, ReplacePrompted, ReplaceSaves, ReplaceLeaves, ReplaceStrands,
       ReplaceOpens, Assign, Replace, Cleanup
  <2>5. ASSUME NEW o \in Replacements, NEW mode \in {"offline", "host", "guest"},
               ReplaceRequested(o, mode)
        PROVE  UNCHANGED process
    BY <2>5 DEF ReplaceRequested
  <2>6. CASE AgentEdit \/ Type \/ CommitDraft \/ CloseRequested \/ DeadlinePasses \/ NewWindow
    BY <2>6 DEF AgentEdit, Type, CommitDraft, CloseRequested, DeadlinePasses, NewWindow, process
  <2>7. CASE UNCHANGED vars
    BY <2>7 DEF vars
  <2> QED BY <2>1, <2>2, <2>3, <2>4, <2>5, <2>6, <2>7 DEF Next
<1>3. SessionInv /\ HandshakeInv /\ ProcessTypes => TypeOK
  <2> SUFFICES ASSUME SessionInv, HandshakeInv, ProcessTypes PROVE TypeOK
    OBVIOUS
  <2>1. broker \in Nat
    BY DEF HandshakeInv, HandshakeTypes, Requests, CloseRecord, None
  <2>2. SessionTypes /\ HandshakeTypes
    BY DEF SessionInv, HandshakeInv
  <2> QED BY <2>1, <2>2 DEF SessionTypes, HandshakeTypes, TypeOK
<1> QED BY <1>1, <1>2, <1>3, Invariants, PTL DEF Spec
=============================================================================
