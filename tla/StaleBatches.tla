---------------------------- MODULE StaleBatches ----------------------------
(***************************************************************************)
(* A guest edits the deck it has seen while others' batches are committed; *)
(* its batch reaches the host stale and is run on the present deck if      *)
(* nothing it touches was written meanwhile (collaboration/src/host.ts,    *)
(* submit and assertCanApply; document-runtime applies the batch through   *)
(* the command engine).  Batches are of one command here.                  *)
(*                                                                         *)
(* MaxOthers bounds the batches of the others; the guest sends one.        *)
(***************************************************************************)
EXTENDS CommandAccess

CONSTANTS
  InitialDeck,   \* the document at the guest's base sequence
  MaxOthers

VARIABLES
  deck,      \* the host's document
  written,   \* lastModifiedSeq: the keys written after the guest's base
  commits,   \* batches committed since
  phase      \* "open", or "submitted" once the guest's batch was answered

staleVars == <<deck, written, commits, phase>>

Others == "others"
Guest == "guest"

StaleInit ==
  /\ deck = InitialDeck
  /\ written = {} /\ commits = 0 /\ phase = "open"

----------------------------------------------------------------------------
(* The commands someone looking at deck d may send: what they create gets   *)
(* an identifier of theirs.                                                 *)

Replaceable(f) == DOMAIN f \cup {None}
Free(d) == Range(Placeholders) \ AllSlots(d)

DeckCommands(d, me) ==
  [type : {"deck.set"}, key : {"name", "page"}]
    \cup [type : {"slide.create"}, id : {me}, layout : DOMAIN d.layouts]
    \cup [type : {"asset.register"}, id : {me}]
    \cup [type : {"asset.remove"}, id : d.assets]

ThemeCommands(d, me) ==
  [type : {"theme.create"}, id : {me}]
    \cup [type : {"theme.update", "theme.enforce-deck"}, id : DOMAIN d.themes]
    \cup [type : {"theme.delete"}, id : DOMAIN d.themes, replacement : Replaceable(d.themes)]

MasterCommands(d, me) ==
  [type : {"master.create"}, id : {me}, theme : DOMAIN d.themes, slots : {Free(d)}]
    \cup (UNION {[type : {"master.update"}, id : {m}, theme : DOMAIN d.themes,
                  slots : SUBSET (d.masters[m].slots \cup Free(d))] : m \in DOMAIN d.masters})
    \cup [type : {"master.delete"}, id : DOMAIN d.masters, replacement : Replaceable(d.masters)]

LayoutCommands(d, me) ==
  [type : {"layout.create"}, id : {me}, master : DOMAIN d.masters, slots : {Free(d)}]
    \cup (UNION {[type : {"layout.update"}, id : {l}, master : DOMAIN d.masters,
                  slots : SUBSET (d.layouts[l].slots \cup Free(d))] : l \in DOMAIN d.layouts})
    \cup [type : {"layout.delete"}, id : DOMAIN d.layouts, replacement : Replaceable(d.layouts)]

ResourceCommands(d, me) ==
  DeckCommands(d, me) \cup ThemeCommands(d, me)
    \cup MasterCommands(d, me) \cup LayoutCommands(d, me)

SlideCommands(d, me) ==
  [type : {"slide.duplicate"}, slide : DOMAIN d.slides, id : {me}, layout : DOMAIN d.layouts]
    \cup [type : {"slide.delete", "slide.reorder"}, slide : DOMAIN d.slides]
    \cup [type : {"slide.update"}, slide : DOMAIN d.slides, asset : d.assets \cup {None, Keep}]
    \cup [type : {"slide.set-layout"}, slide : DOMAIN d.slides, layout : DOMAIN d.layouts]
    \cup [type : {"slide.reset-placeholder"}, slide : DOMAIN d.slides,
          placeholder : Range(Placeholders)]

\* On element e, alone or with another of its container.
CommandsOnSome(d, me, e) ==
  LET s == {d.els[e].slide}
      g == {d.els[e].parent}
      pairs == {{e, f} : f \in Elements(d, d.els[e].slide, d.els[e].parent) \ {e}}
  IN [type : {"element.delete", "element.transform"}, slide : s, container : g, ids : {{e}}]
       \cup [type : {"element.delete", "element.align"}, slide : s, container : g, ids : pairs]
       \cup [type : {"element.group"}, slide : s, container : g, ids : pairs, id : {me}]

CommandsOnOne(d, e) ==
  LET s == {d.els[e].slide}
      g == {d.els[e].parent}
      targets == (OnSlide(d, d.els[e].slide) \ {e}) \cup {None}
  IN [type : {"element.ungroup"}, slide : s, container : g, id : {e}]
       \cup [type : {"element.update"}, slide : s, container : g, id : {e},
             was : {Restrict(d.els, Tree(d, {e}))}]
       \cup [type : {"element.edit"}, slide : s, container : g, id : {e},
             field : {"content", "style", "shown"}]
       \cup [type : {"element.reorder"}, slide : s, container : g, id : {e}, field : {"place"}]
       \cup [type : {"element.set-locked"}, slide : s, container : g, id : {e}, locked : BOOLEAN]
       \cup [type : {"connector.update-endpoint"}, slide : s, container : g, id : {e},
             target : targets]

InsertCommands(d, me, s) ==
  LET groups == {e \in OnSlide(d, s) : d.els[e].kind = "group"}
  IN [type : {"element.insert"}, slide : {s}, container : groups \cup {Root}, id : {me},
      kind : {"image"}, asset : d.assets, target : {None}]

ElementCommands(d, me) ==
  UNION ({CommandsOnSome(d, me, e) \cup CommandsOnOne(d, e) : e \in DOMAIN d.els}
         \cup {InsertCommands(d, me, s) : s \in DOMAIN d.slides})

\* An identifier is used once.
Unused(d, me) == me \notin (DOMAIN d.themes \cup DOMAIN d.masters \cup DOMAIN d.layouts
                             \cup DOMAIN d.slides \cup DOMAIN d.els \cup d.assets)
Commands(d, me) ==
  {c \in ResourceCommands(d, me) \cup SlideCommands(d, me) \cup ElementCommands(d, me) :
     ("id" \in DOMAIN c /\ c.id = me) => Unused(d, me)}

\* What the guest may have prepared: a batch the document it has seen permits.
PreparedCommands == {c \in Commands(InitialDeck, Guest) : Apply(InitialDeck, c, Guest) # {}}

----------------------------------------------------------------------------

\* submit, of a batch made on the present document.
CommitOthers(c) ==
  /\ phase = "open" /\ commits < MaxOthers
  /\ deck' \in Apply(deck, c, Others)
  /\ written' = written \cup Writes(deck, c)
  /\ commits' = commits + 1
  /\ UNCHANGED phase

\* assertCanApply, for a batch made on an earlier document.
MayRun(c) == (Reads(deck, c) \cup Writes(deck, c)) \cap written = {}

OrElse(results, d) == IF results = {} THEN {d} ELSE results

\* submit, of the guest's batch: refused if it conflicts, or if the present
\* document does not permit it.
SubmitStale(c) ==
  /\ phase = "open"
  /\ phase' = "submitted"
  /\ IF MayRun(c) THEN deck' \in OrElse(Apply(deck, c, Guest), deck)
                  ELSE UNCHANGED deck
  /\ UNCHANGED <<written, commits>>

StaleNext ==
  \/ \E c \in Commands(deck, Others) : CommitOthers(c)
  \/ \E c \in PreparedCommands : SubmitStale(c)

StaleSpec == StaleInit /\ [][StaleNext]_staleVars

----------------------------------------------------------------------------

\* What others wrote into the document since the guest's base.
Work(d) ==
  {<<"deck", k>> : k \in {x \in DOMAIN d.deck : d.deck[x] = Others}}
    \cup {<<"theme", t>> : t \in {x \in DOMAIN d.themes : d.themes[x] = Others}}
    \cup {<<"master", m>> : m \in {x \in DOMAIN d.masters : d.masters[x].by = Others}}
    \cup {<<"layout", l>> : l \in {x \in DOMAIN d.layouts : d.layouts[x].by = Others}}
    \cup {<<"slide", s>> : s \in {x \in DOMAIN d.slides : d.slides[x].by = Others}}
    \cup UNION {{<<"element", e, f>> : f \in {x \in Fields : d.els[e].by[x] = Others}} :
                  e \in DOMAIN d.els}

ASSUME InitialDeckAssumption ==
  /\ HasShape(InitialDeck) /\ Valid(InitialDeck)
  /\ Work(InitialDeck) = {}    \* what others write from now on is not in it

\* A stale batch that the host still runs takes nothing away that the guest
\* has not seen: no element inserted, text, style or frame changed, no slide,
\* layout or theme edited by others since the guest's base is removed or
\* overwritten by it, however indirectly the command reaches it
\* (analyzeCommandAccess declares enough, assertCanApply compares it).
KeepsUnseenWork == [][phase' # phase => Work(deck) \subseteq Work(deck')]_staleVars

\* A change of layouts or masters leaves each slide with bindings that stand:
\* every bound element in a placeholder its new layout offers and that takes
\* it, no two in the same one, without the validation that follows the batch
\* (remapPlaceholderBindings, for every way the layouts can come about).
RelayoutKeepsBindings ==
  phase = "open" =>
    \A c \in {x \in Commands(deck, Others) : "container" \notin DOMAIN x} :
      \A r \in Execute(deck, c, Others) :
        ReferencesHold(r) /\ IdentifiersAreUnique(r) => BindingsHold(r)
=============================================================================
