----------------------------- MODULE EditorWindow -----------------------------
(***************************************************************************)
(* The editor window of the desktop application: which session it shows,   *)
(* how a presentation replaces another (confirmReplace, assignSession and  *)
(* the transitions to hosting and joining of main.ts), how the window      *)
(* closes (its close handler with the renderer handshake of                *)
(* window-lifecycle.ts, preload.ts and App.tsx) and how the process ends   *)
(* (will-quit and bounded-shutdown.ts).                                    *)
(*                                                                         *)
(* Everything here waits: for dialogs, saves, the renderer, the end of a   *)
(* collaboration.  Meanwhile agents edit the session, files are opened by  *)
(* double click and the user asks again.  Revisions count the edits of a   *)
(* session; the recovery files of a session go with runtime.close().       *)
(***************************************************************************)
EXTENDS Integers, Sequences, FiniteSets, SequencesExt

CONSTANTS
    Sessions,     \* session identities, opened in this order: 1..n
    Replacements, \* operations that may replace the session of the window
    Tasks,        \* the tasks of the final shutdown
    MaxEdits,     \* bound: edits of one session
    MaxCloses     \* bound: close requests handled by the handshake

ASSUME SessionsAssumption ==
    IsFiniteSet(Sessions) /\ Sessions = 1..Cardinality(Sessions) /\ 1 \in Sessions

None == 0

VARIABLES
    session,    \* per session [state, mode, rev, saved, agreed, shown]
    window,     \* "open" or "destroyed"
    shows,      \* windowSessions of the window
    close,      \* the close decision: [at, req, session, rev, discard]
    broker,     \* the request of the handshake that is pending, None
    late,       \* requests whose deadline has passed
    renderer,   \* [preparing, seal: requests or None; draft]
    toRenderer, \* requests and releases on their way to the renderer
    toMain,     \* its responses
    replace,    \* per replacement [at, session, rev, discard, new, mode]
    app,        \* "running", "cleaning", "due" (its deadline passed), "exited"
    pending     \* tasks of the final shutdown that have not settled

vars == <<session, window, shows, close, broker, late, renderer, toRenderer, toMain,
          replace, app, pending>>
handshake == <<broker, late, renderer, toRenderer, toMain>>
process == <<app, pending>>

(***************************************************************************)
(* Of a session: rev counts its edits, saved is the revision of its file,  *)
(* agreed the revisions the user chose to discard and shown whether a       *)
(* window has ever shown it.  Of the renderer: draft is text that is typed *)
(* and not applied: "unseen" when a renderer that prepares to close has    *)
(* looked at its fields before it was typed, "late" when typed under seal. *)
(***************************************************************************)
Opened(mode) == [state |-> "open", mode |-> mode, rev |-> 0, saved |-> 0,
                 agreed |-> {}, shown |-> FALSE]
Absent == [Opened("offline") EXCEPT !.state = "absent"]
Fresh(s) == session[s].state = "absent" /\ \A t \in Sessions : t < s => session[t].state # "absent"

NoReplacement == [at |-> "none", session |-> None, rev |-> 0, discard |-> FALSE,
                  new |-> None, mode |-> "offline"]
NoDecision == [at |-> "none", req |-> None, session |-> None, rev |-> 0, discard |-> FALSE]
IdleRenderer == [preparing |-> None, seal |-> None, draft |-> "none"]

SessionRecord == [state: {"absent", "open", "closed"}, mode: {"offline", "host", "guest"},
                  rev: Nat, saved: Nat, agreed: SUBSET Nat, shown: BOOLEAN]
ReplaceRecord ==
    [at: {"none", "prompt", "saving", "ending", "stranded", "opening", "assign", "replace",
          "cleanup", "done"},
     session: Sessions \cup {None}, rev: Nat, discard: BOOLEAN, new: Sessions \cup {None},
     mode: {"offline", "host", "guest"}]
CloseRecord ==
    [at: {"none", "asking", "prompt", "saving", "ending", "stranded", "detached", "closing",
          "reporting", "refused"},
     req: Nat, session: Sessions \cup {None}, rev: Nat, discard: BOOLEAN]
RendererRecord == [preparing: Nat, seal: Nat, draft: {"none", "typed", "unseen", "late"}]
ToRenderer == [type: {"request", "release"}, req: Nat]
ToMain == [req: Nat, decision: {"ready", "blocked"}]

TypeOK ==
    /\ session \in [Sessions -> SessionRecord]
    /\ window \in {"open", "destroyed"} /\ shows \in Sessions \cup {None}
    /\ close \in CloseRecord /\ broker \in Nat /\ late \subseteq Nat \ {None}
    /\ renderer \in RendererRecord
    /\ toRenderer \in Seq(ToRenderer) /\ toMain \in Seq(ToMain)
    /\ replace \in [Replacements -> ReplaceRecord]
    /\ app \in {"running", "cleaning", "due", "exited"} /\ pending \subseteq Tasks
    /\ window = "destroyed" => shows = None /\ close.at = "none"

Init ==
    /\ session = [s \in Sessions |-> IF s = 1 THEN [Opened("offline") EXCEPT !.shown = TRUE]
                                     ELSE Absent]
    /\ window = "open" /\ shows = 1
    /\ close = NoDecision
    /\ broker = None /\ late = {} /\ renderer = IdleRenderer
    /\ toRenderer = <<>> /\ toMain = <<>>
    /\ replace = [o \in Replacements |-> NoReplacement]
    /\ app = "running" /\ pending = {}
-----------------------------------------------------------------------------
(* Sessions.                                                               *)

Dirty(s) == session[s].rev # session[s].saved
Edited(s) == [session EXCEPT ![s].rev = @ + 1]
MayEdit(s) == session[s].state = "open" /\ session[s].rev < MaxEdits

\* Variant: the expected revision is not compared.
ClosableAtAnyRevision(s, rev, discard) ==
    session[s].state = "open" /\ (Dirty(s) => discard)

\* runtime.close: the revision is the expected one, and a dirty document is
\* to be discarded.
Closable(s, rev, discard) ==
    session[s].state = "open" /\ session[s].rev = rev /\ (Dirty(s) => discard)

Closed(s) == [session EXCEPT ![s].state = "closed"]
Saved(s) == [session EXCEPT ![s].saved = session[s].rev]
Agreed(s, rev) == [session EXCEPT ![s].agreed = @ \cup {rev}]

\* An agent, or a participant, edits the session that is shown.
AgentEdit ==
    /\ shows # None /\ MayEdit(shows) /\ app # "exited"
    /\ session' = Edited(shows)
    /\ UNCHANGED <<window, shows, close, handshake, replace, process>>

\* The renderer refuses commands while it prepares to close and while sealed;
\* text fields go on taking text.  Preparing, it leaves the active field first and
\* checks the inline editor once, so it sees only what reaches that editor before.
DraftKinds ==
    CASE renderer.seal # None -> {"late"}
      [] renderer.seal = None /\ renderer.preparing # None -> {"typed", "unseen"}
      [] OTHER -> {"typed"}

Type ==
    /\ window = "open" /\ renderer.draft = "none"
    /\ \E kind \in DraftKinds : renderer' = [renderer EXCEPT !.draft = kind]
    /\ UNCHANGED <<session, window, shows, close, broker, late, toRenderer, toMain,
                   replace, process>>

Applied == [renderer EXCEPT !.draft = "none"]

CommitDraft ==
    /\ window = "open" /\ renderer.draft # "none" /\ MayEdit(shows)
    /\ renderer.preparing = None /\ renderer.seal = None
    /\ renderer' = Applied /\ session' = Edited(shows)
    /\ UNCHANGED <<window, shows, close, broker, late, toRenderer, toMain, replace, process>>
-----------------------------------------------------------------------------
(* The handshake with the renderer.                                        *)

Reply(n, decision) == toMain' = Append(toMain, [req |-> n, decision |-> decision])
Command(type, n) == toRenderer' = Append(toRenderer, [type |-> type, req |-> n])
Free == [renderer EXCEPT !.preparing = None, !.seal = None,
                         !.draft = IF @ = "none" THEN "none" ELSE "typed"]

\* The native close event: nothing happens while a close decision runs.
CloseRequested ==
    /\ window = "open" /\ app # "exited" /\ close.at = "none" /\ close.req < MaxCloses
    /\ close' = [close EXCEPT !.at = "asking", !.req = @ + 1]
    /\ broker' = close.req + 1
    /\ Command("request", close.req + 1)
    /\ UNCHANGED <<session, window, shows, late, renderer, toMain, replace, process>>

\* onWindowCloseRequested and onWindowCloseReleased.
RendererReceives ==
    LET m == Head(toRenderer) IN
    /\ toRenderer # <<>>
    /\ toRenderer' = Tail(toRenderer)
    /\ \/ /\ m.type = "release"
          /\ renderer' = IF renderer.seal = m.req THEN Free ELSE renderer
          /\ UNCHANGED toMain
       \/ /\ m.type = "request"
          /\ IF m.req \in late \/ renderer.preparing # None
             THEN Reply(m.req, "blocked") /\ UNCHANGED renderer
             ELSE renderer' = [renderer EXCEPT !.preparing = m.req] /\ UNCHANGED toMain
    /\ UNCHANGED <<session, window, shows, close, broker, late, replace, process>>

\* A draft is applied before the renderer agrees.
Flush ==
    /\ renderer.preparing # None /\ renderer.seal = None /\ renderer.draft = "typed"
    /\ MayEdit(shows)
    /\ renderer' = Applied /\ session' = Edited(shows)
    /\ UNCHANGED <<window, shows, close, broker, late, toRenderer, toMain, replace, process>>

\* Variant: a draft does not keep the renderer from agreeing.
RendererReadyUnflushed ==
    /\ renderer.preparing # None /\ renderer.seal = None /\ renderer.preparing \notin late
    /\ renderer' = [renderer EXCEPT !.seal = renderer.preparing]
    /\ Reply(renderer.preparing, "ready")
    /\ UNCHANGED <<session, window, shows, close, broker, late, toRenderer, replace, process>>

RendererReady ==
    /\ renderer.preparing # None /\ renderer.seal = None /\ renderer.draft # "typed"
    /\ renderer.preparing \notin late
    /\ renderer' = [renderer EXCEPT !.seal = renderer.preparing]
    /\ Reply(renderer.preparing, "ready")
    /\ UNCHANGED <<session, window, shows, close, broker, late, toRenderer, replace, process>>

\* A draft that cannot be applied, or the deadline.
RendererBlocks ==
    /\ renderer.preparing # None /\ renderer.seal = None
    /\ renderer' = Free
    /\ Reply(renderer.preparing, "blocked")
    /\ UNCHANGED <<session, window, shows, close, broker, late, toRenderer, replace, process>>

\* The watchdog of a sealed renderer.
Watchdog ==
    /\ renderer.seal \in late
    /\ renderer' = Free
    /\ UNCHANGED <<session, window, shows, close, broker, late, toRenderer, toMain, replace, process>>

DeadlinePasses ==
    /\ close.req # None /\ close.req \notin late /\ window = "open"
    /\ late' = late \cup {close.req}
    /\ UNCHANGED <<session, window, shows, close, broker, renderer, toRenderer, toMain, replace, process>>
-----------------------------------------------------------------------------
(* The close decision.                                                     *)

\* A decision that keeps the window releases the renderer.
Idle == [NoDecision EXCEPT !.req = close.req]
Retain == close' = Idle /\ Command("release", close.req)

\* It first reports a failure.
Fails == close' = [close EXCEPT !.at = "reporting"] /\ UNCHANGED toRenderer
Goes(at) == close' = [close EXCEPT !.at = at] /\ UNCHANGED toRenderer

\* The renderer agreed, and the authorised close event follows at once.
Authorized ==
    /\ close' = [close EXCEPT !.session = shows, !.rev = session[shows].rev,
                              !.discard = FALSE,
                              !.at = IF session[shows].mode # "offline" THEN "ending"
                                     ELSE IF Dirty(shows) THEN "prompt" ELSE "closing"]
    /\ UNCHANGED toRenderer

\* A handshake that did not end with a ready renderer.
Refused == close' = [close EXCEPT !.at = "refused"] /\ Command("release", close.req)

\* Variant: the response of an earlier request will do.
AnswersAny(m) == broker # None

\* RendererCloseHandshakeBroker.receive: it answers the pending request.
Answers(m) == broker # None /\ m.req = broker

MainReceives ==
    LET m == Head(toMain) IN
    /\ toMain # <<>> /\ toMain' = Tail(toMain)
    /\ IF ~Answers(m) THEN UNCHANGED <<close, broker, toRenderer>>
       ELSE /\ broker' = None
            /\ IF m.decision = "ready" /\ broker \notin late THEN Authorized ELSE Refused
    /\ UNCHANGED <<session, window, shows, late, renderer, replace, process>>

\* Variant: a renderer that does not answer is waited for.
HandshakeNeverTimesOut == FALSE /\ UNCHANGED vars

HandshakeTimesOut ==
    /\ broker \in late
    /\ broker' = None
    /\ Refused
    /\ UNCHANGED <<session, window, shows, late, renderer, toMain, replace, process>>

\* After a refusal the release has been sent already.
ReportDismissed ==
    /\ \/ close.at = "reporting" /\ Retain
       \/ close.at = "refused" /\ close' = Idle /\ UNCHANGED toRenderer
    /\ UNCHANGED <<session, window, shows, broker, late, renderer, toMain, replace, process>>

\* Save, Discard or Cancel, for the revision the prompt was made for.
Prompted ==
    /\ close.at \in {"prompt", "detached"}
    /\ \/ Goes("saving") /\ UNCHANGED session
       \/ /\ close' = [close EXCEPT !.at = "closing", !.discard = TRUE]
          /\ session' = Agreed(close.session, close.rev)
          /\ UNCHANGED toRenderer
       \/ Retain /\ UNCHANGED session
    /\ UNCHANGED <<window, shows, broker, late, renderer, toMain, replace, process>>

\* saveWithTargetFallback or saveAs: saved, cancelled or failed.
CloseSaves ==
    LET s == close.session IN
    /\ close.at = "saving"
    /\ \/ /\ shows = s /\ session[s].state = "open"
          /\ session' = Saved(s)
          /\ close' = [close EXCEPT !.at = "closing", !.rev = session[s].rev]
          /\ UNCHANGED toRenderer
       \/ Retain /\ UNCHANGED session
       \/ Fails /\ UNCHANGED session
    /\ UNCHANGED <<window, shows, broker, late, renderer, toMain, replace, process>>

\* collaboration.leave: a host that is safe saves; a guest, and a host that is
\* not, keep a dirty copy.  The snapshot is taken when it returns.
Left(s, safe) ==
    [session EXCEPT ![s].mode = "offline",
        ![s].saved = IF session[s].mode = "host" /\ safe THEN session[s].rev ELSE @]

CloseLeaves ==
    LET s == close.session IN
    /\ close.at = "ending"
    /\ \/ \E safe \in BOOLEAN :
             /\ session[s].state = "open"
             /\ session' = Left(s, safe)
             /\ close' = [close EXCEPT !.rev = session[s].rev,
                    !.at = IF session[s].rev # session'[s].saved THEN "detached" ELSE "closing"]
             /\ UNCHANGED toRenderer
       \/ Fails /\ UNCHANGED session
    /\ UNCHANGED <<window, shows, broker, late, renderer, toMain, replace, process>>

\* leave() of a guest waits for a reconnection that never settles (the silent
\* close of CollabSession).  The session has left its collaboration already.
CloseStrands ==
    /\ close.at = "ending"
    /\ session[close.session].state = "open" /\ session[close.session].mode = "guest"
    /\ session' = Left(close.session, FALSE)
    /\ Goes("stranded")
    /\ UNCHANGED <<window, shows, broker, late, renderer, toMain, replace, process>>

\* The window goes, and with it what was on its way to and from it.
Destroyed ==
    /\ window' = "destroyed" /\ shows' = None
    /\ close' = Idle
    /\ broker' = None /\ toRenderer' = <<>> /\ toMain' = <<>>

\* runtime.close refuses, or cannot remove the recovery files, or ends the
\* session.  It runs in the session's queue: what is asked for behind it finds no
\* session.
CloseEnds ==
    /\ close.at = "closing"
    /\ \/ /\ Closable(close.session, close.rev, close.discard)
          /\ session' = Closed(close.session)
          /\ Destroyed
       \/ Fails /\ UNCHANGED <<session, window, shows, broker, toMain>>
    /\ UNCHANGED <<late, renderer, replace, process>>
-----------------------------------------------------------------------------
(* Replacing the session.                                                  *)

Step(o, at) == replace' = [replace EXCEPT ![o].at = at]
Ends(o) == replace' = [replace EXCEPT ![o] = [NoReplacement EXCEPT !.at = "done"]]

\* confirmReplace, or the transition to hosting or joining, whose source is
\* saved.  The first answer may be known without a question.
ReplaceRequested(o, mode) ==
    /\ window = "open" /\ app # "exited" /\ replace[o].at = "none"
    /\ mode # "offline" => session[shows].mode = "offline" /\ ~Dirty(shows)
    /\ replace' = [replace EXCEPT ![o] =
           [NoReplacement EXCEPT !.session = shows, !.rev = session[shows].rev, !.mode = mode,
               !.at = IF session[shows].mode = "offline" /\ ~Dirty(shows)
                      THEN "opening" ELSE "prompt"]]
    /\ UNCHANGED <<session, window, shows, close, handshake, process>>

\* End session or Cancel; Save, Discard or Cancel.
ReplacePrompted(o) ==
    LET r == replace[o] IN
    /\ r.at = "prompt"
    /\ \/ Ends(o) /\ UNCHANGED session
       \/ session[r.session].mode = "offline" /\ Step(o, "saving") /\ UNCHANGED session
       \/ session[r.session].mode # "offline" /\ Step(o, "ending") /\ UNCHANGED session
       \/ /\ session[r.session].mode = "offline"
          /\ session' = Agreed(r.session, r.rev)
          /\ replace' = [replace EXCEPT ![o].at = "opening", ![o].discard = TRUE]
    /\ UNCHANGED <<window, shows, close, handshake, process>>

ReplaceSaves(o) ==
    LET s == replace[o].session IN
    /\ replace[o].at = "saving"
    /\ \/ /\ shows = s /\ session[s].state = "open"
          /\ session' = Saved(s)
          /\ replace' = [replace EXCEPT ![o].at = "opening", ![o].rev = session[s].rev]
       \/ Ends(o) /\ UNCHANGED session
    /\ UNCHANGED <<window, shows, close, handshake, process>>

\* A copy that is not saved anywhere is not replaced.
ReplaceLeaves(o) ==
    LET s == replace[o].session IN
    /\ replace[o].at = "ending"
    /\ \/ \E safe \in BOOLEAN :
             /\ session[s].state = "open"
             /\ session' = Left(s, safe)
             /\ IF session[s].rev # session'[s].saved THEN Ends(o)
                ELSE replace' = [replace EXCEPT ![o].rev = session[s].rev, ![o].at = "opening"]
       \/ Ends(o) /\ UNCHANGED session
    /\ UNCHANGED <<window, shows, close, handshake, process>>

\* As CloseStrands.
ReplaceStrands(o) ==
    LET s == replace[o].session IN
    /\ replace[o].at = "ending" /\ session[s].state = "open" /\ session[s].mode = "guest"
    /\ session' = Left(s, FALSE)
    /\ Step(o, "stranded")
    /\ UNCHANGED <<window, shows, close, handshake, process>>

\* openMainOnly, host() or join(): a new session, or a failure.
ReplaceOpens(o) ==
    /\ replace[o].at = "opening"
    /\ \/ \E s \in Sessions :
             /\ Fresh(s)
             /\ session' = [session EXCEPT ![s] = Opened(replace[o].mode)]
             /\ replace' = [replace EXCEPT ![o].at = "assign", ![o].new = s]
       \/ Ends(o) /\ UNCHANGED session
    /\ UNCHANGED <<window, shows, close, handshake, process>>

\* assignSession: the window still shows the session the user agreed to replace.
Assign(o) ==
    /\ replace[o].at = "assign"
    /\ Step(o, IF shows = replace[o].session THEN "replace" ELSE "cleanup")
    /\ UNCHANGED <<session, window, shows, close, handshake, process>>

\* The old session is closed and the window shows the new one.
Replace(o) ==
    LET r == replace[o] IN
    /\ r.at = "replace"
    /\ \/ /\ Closable(r.session, r.rev, r.discard)
          /\ session' = [Closed(r.session) EXCEPT ![r.new].shown = TRUE]
          /\ shows' = r.new
          /\ Ends(o)
       \/ Step(o, "cleanup") /\ UNCHANGED <<session, shows>>
    /\ UNCHANGED <<window, close, handshake, process>>

\* Variant: the new session is left alone.
CleanupForgotten(o) ==
    /\ replace[o].at = "cleanup" /\ Ends(o)
    /\ UNCHANGED <<session, window, shows, close, handshake, process>>

\* cleanupSessionIfUnowned of the new session.
Cleanup(o) ==
    /\ replace[o].at = "cleanup"
    /\ session' = IF shows = replace[o].new THEN session ELSE Closed(replace[o].new)
    /\ Ends(o)
    /\ UNCHANGED <<window, shows, close, handshake, process>>
-----------------------------------------------------------------------------
(* The process.                                                            *)

\* A second instance asks for a window when none is left.
NewWindow ==
    /\ window = "destroyed" /\ app # "exited"
    /\ \E s \in Sessions :
          /\ Fresh(s)
          /\ session' = [session EXCEPT ![s] = [Opened("offline") EXCEPT !.shown = TRUE]]
          /\ shows' = s
    /\ window' = "open" /\ renderer' = IdleRenderer
    /\ UNCHANGED <<close, broker, late, toRenderer, toMain, replace, process>>

\* window-all-closed and will-quit: the final cleanup is admitted once.
BeginShutdown ==
    /\ window = "destroyed" /\ app = "running"
    /\ app' = "cleaning" /\ pending' = Tasks
    /\ UNCHANGED <<session, window, shows, close, handshake, replace>>

TaskSettles(t) ==
    /\ app \in {"cleaning", "due"} /\ t \in pending
    /\ pending' = pending \ {t}
    /\ UNCHANGED <<session, window, shows, close, handshake, replace, app>>

ShutdownDeadline ==
    /\ app = "cleaning"
    /\ app' = "due"
    /\ UNCHANGED <<session, window, shows, close, handshake, replace, pending>>

\* Variant: every task is waited for.
ExitWhenSettled ==
    /\ app \in {"cleaning", "due"} /\ pending = {}
    /\ app' = "exited"
    /\ UNCHANGED <<session, window, shows, close, handshake, replace, pending>>

\* settleShutdownTasks returns, and the process exits.
Exit ==
    /\ app = "due" \/ (app = "cleaning" /\ pending = {})
    /\ app' = "exited"
    /\ UNCHANGED <<session, window, shows, close, handshake, replace, pending>>
-----------------------------------------------------------------------------
Handshake == RendererReceives \/ Flush \/ RendererReady \/ RendererBlocks \/ Watchdog

Decision ==
    \/ MainReceives \/ HandshakeTimesOut \/ ReportDismissed \/ Prompted
    \/ CloseSaves \/ CloseLeaves \/ CloseEnds

Replacing(o) ==
    \/ ReplacePrompted(o) \/ ReplaceSaves(o) \/ ReplaceLeaves(o) \/ ReplaceStrands(o)
    \/ ReplaceOpens(o)
    \/ Assign(o) \/ Replace(o) \/ Cleanup(o)

Shutdown == BeginShutdown \/ ShutdownDeadline \/ Exit

\* A process that has exited takes no step.
Next ==
    /\ app # "exited"
    /\ \/ AgentEdit \/ Type \/ CommitDraft \/ CloseRequested \/ DeadlinePasses
       \/ Handshake \/ Decision \/ CloseStrands \/ Shutdown \/ NewWindow
       \/ \E t \in Tasks : TaskSettles(t)
       \/ \E o \in Replacements :
             Replacing(o) \/ \E mode \in {"offline", "host", "guest"} : ReplaceRequested(o, mode)

Spec == Init /\ [][Next]_vars

\* Dialogs are answered, saves and files settle, the clock runs.  The renderer
\* may hang, so may every task of the final shutdown, the end of a guest's
\* collaboration (CloseStrands), and a replacement.
Fairness ==
    /\ WF_vars(DeadlinePasses)
    /\ WF_vars(Decision)
    /\ WF_vars(Shutdown)

FairSpec == Spec /\ Fairness
-----------------------------------------------------------------------------
(* Properties.                                                             *)

Decided == {"prompt", "saving", "ending", "stranded", "detached", "closing"}

\* The recovery files of a presentation that was shown go only when its file
\* has every edit, or the user chose to discard exactly this revision: what an
\* agent adds while a prompt or a save is open is never thrown away with it.
NothingDiscardedUnasked ==
    \A s \in Sessions :
       session[s].state = "closed" /\ session[s].shown =>
          session[s].rev \in session[s].agreed \cup {session[s].saved}

\* The window shows a session that is open, and an open session that no window
\* shows belongs to a replacement that will assign or close it.
SessionsAreOwned ==
    /\ window = "open" => shows \in Sessions /\ session[shows].state = "open"
    /\ \A s \in Sessions :
          session[s].state = "open" /\ s # shows =>
             \E o \in Replacements :
                replace[o].new = s /\ replace[o].at \in {"assign", "replace", "cleanup"}

\* Text that was there when the renderer checked its fields for a close is applied
\* before the window goes, unless the close outlived the deadline after which the
\* renderer takes commands again.
DraftsAreFlushed ==
    window = "destroyed" /\ renderer.draft = "typed" => close.req \in late

\* "keep the presentation open whenever the last human edit cannot be applied
\* safely" (CHANGELOG.md): text typed before the renderer agreed is never lost.
\* What is typed between its check and its seal goes with the window, so this is
\* refuted.
LastEditIsKept ==
    window = "destroyed" /\ renderer.draft \in {"typed", "unseen"} => close.req \in late

\* A renderer stays sealed while a close it agreed to is decided, and a sealed
\* one whose close was given up has its release on the way; the deadline frees
\* it in any case.  No late release opens it under a newer close.
SealFollowsClose ==
    window = "open" =>
       /\ close.at \in Decided => renderer.seal = close.req \/ close.req \in late
       /\ renderer.seal # None /\ close.at = "none" =>
             \/ renderer.seal \in late
             \/ \E i \in DOMAIN toRenderer :
                   toRenderer[i] = [type |-> "release", req |-> renderer.seal]

\* Every close request ends, although the renderer never answers, and the
\* window can be closed again; all but the one that waits for a guest's leave()
\* that never settles.
CloseIsDecided == close.at # "none" ~> close.at \in {"none", "stranded"}

\* The process ends, although a task of its shutdown never settles.
ShutdownEnds == app = "cleaning" ~> app = "exited"
=============================================================================
