-------------------------------- MODULE Deck --------------------------------
(***************************************************************************)
(* The deck and its command engine (document-core/src/command-engine.ts,   *)
(* validation.ts, design-authority.ts): what each command requires of a    *)
(* deck and what it makes of it.                                           *)
(*                                                                         *)
(* A deck is flat here: an element names its slide and the group it is in  *)
(* (Root when in none).  Of a content, a style or a frame only its author  *)
(* is kept, in `by`: who chose the value last.  A value the engine derives *)
(* from the present one (the frame of a child that leaves its group) keeps *)
(* its author.  Positions in a list are left out, so a command that only   *)
(* moves something writes its "place"; the commands on a table's rows,     *)
(* columns and cells write its "content".  The elements of masters and     *)
(* layouts other than placeholders, and bounds on sizes, are left out.     *)
(***************************************************************************)
EXTENDS Integers, FiniteSets, SequencesExt

Root == "root"
None == "none"
Keep == "keep"    \* a field the command does not mention

CONSTANTS
  Placeholders,   \* the placeholders of masters and layouts, in paint order
  Role, Accepts   \* per placeholder its role and the kinds of element it takes

ASSUME PlaceholdersAssumption ==
  Placeholders \in Seq(Range(Placeholders)) /\ None \notin Range(Placeholders)

Fields == {"content", "style", "frame", "shown", "lock", "place", "target"}

\* A function without some arguments, and with one more.
Without(f, S) == Restrict(f, DOMAIN f \ S)
With(f, x, v) == [y \in DOMAIN f \cup {x} |-> IF y = x THEN v ELSE f[y]]

Elements(d, s, c) ==
  {e \in DOMAIN d.els : d.els[e].slide = s /\ d.els[e].parent = c}
OnSlide(d, s) == {e \in DOMAIN d.els : d.els[e].slide = s}

\* The parts of a deck and of its entities.  An element is on a slide of it.
HasShape(d) ==
  /\ DOMAIN d = {"deck", "themes", "masters", "layouts", "slides", "assets", "els"}
  /\ \A m \in DOMAIN d.masters : DOMAIN d.masters[m] = {"theme", "slots", "by"}
  /\ \A l \in DOMAIN d.layouts : DOMAIN d.layouts[l] = {"master", "slots", "by"}
  /\ \A s \in DOMAIN d.slides : DOMAIN d.slides[s] = {"layout", "asset", "by"}
  /\ IsFiniteSet(DOMAIN d.els)
  /\ \A e \in DOMAIN d.els :
       /\ DOMAIN d.els[e] = {"slide", "parent", "kind", "locked", "slot", "target", "asset", "by"}
       /\ DOMAIN d.els[e].by = Fields
       /\ d.els[e].slide \in DOMAIN d.slides

\* The elements in E and all they contain: what is in every set of elements
\* that has those of E and, with an element, its children.
Tree(d, E) ==
  LET closed == {S \in SUBSET DOMAIN d.els :
                   /\ E \cap DOMAIN d.els \subseteq S
                   /\ \A e \in DOMAIN d.els : d.els[e].parent \in S => e \in S}
  IN  {e \in DOMAIN d.els : \A S \in closed : e \in S}

\* The deck in which `by` has written fields F of the elements E.
Edited(d, E, F, by) ==
  [d EXCEPT !.els =
     [e \in DOMAIN d.els |->
        IF e \notin E THEN d.els[e]
        ELSE [d.els[e] EXCEPT !.by =
                [f \in Fields |-> IF f \in F THEN by ELSE d.els[e].by[f]]]]]

\* Sets one attribute of the elements E, without a trace of who did.
Assigned(d, E, attribute, value) ==
  [d EXCEPT !.els =
     [e \in DOMAIN d.els |->
        IF e \in E THEN [d.els[e] EXCEPT ![attribute] = value] ELSE d.els[e]]]

NewElement(s, c, kind, by) ==
  [slide |-> s, parent |-> c, kind |-> kind, locked |-> FALSE, slot |-> None,
   target |-> None, asset |-> None, by |-> [f \in Fields |-> by]]

\* The result of a command: none when it is refused.
When(permitted, result) == IF permitted THEN {result} ELSE {}

----------------------------------------------------------------------------
(* Placeholders. *)

AllSlots(d) == UNION ({d.masters[m].slots : m \in DOMAIN d.masters}
                      \cup {d.layouts[l].slots : l \in DOMAIN d.layouts})
Offered(d, s) ==
  LET layout == d.layouts[d.slides[s].layout]
  IN  layout.slots \cup d.masters[layout.master].slots
BoundOn(d, s) == {e \in OnSlide(d, s) : d.els[e].slot # None}

Takes(p, element) ==
  element.kind \notin {"connector", "group"} /\ element.kind \in Accepts[p]

\* An element keeps a placeholder that its slide offers it in the new deck too.
Keeps(d, new, s, e) ==
  d.els[e].slot \in Offered(new, s) /\ Takes(d.els[e].slot, d.els[e])

\* What an element that does not takes instead: the first unused placeholder of
\* the same role that takes it, or none.
Replacement(d, new, s, e, used) ==
  LET free == {i \in DOMAIN Placeholders :
                 LET p == Placeholders[i] IN
                 /\ p \in Offered(new, s) \ used
                 /\ d.els[e].slot \in Offered(d, s)
                 /\ Role[p] = Role[d.els[e].slot]
                 /\ Takes(p, d.els[e])}
  IN  IF free = {} THEN None ELSE Placeholders[Min(free)]

\* The elements of the sequence `losing` choose one after the other.
ChosenInTurn(d, new, s, losing, reserve) ==
  LET slot[n \in DOMAIN losing] ==
        Replacement(d, new, s, losing[n], reserve \cup {slot[m] : m \in 1..(n - 1)})
  IN  slot

\* remapPlaceholderBindings of slide s: the placeholders that are kept are
\* reserved, before the elements that lose theirs choose.
Replacements(d, new, s, reserved) ==
  LET kept == {e \in BoundOn(d, s) : Keeps(d, new, s, e)}
      reserve == IF reserved THEN {d.els[e].slot : e \in kept} ELSE {}
      losing == SetToSeq(BoundOn(d, s) \ kept)
      slot == ChosenInTurn(d, new, s, losing, reserve)
  IN  [e \in Range(losing) |-> slot[CHOOSE n \in DOMAIN losing : losing[n] = e]]

\* The new deck, made from d, with the elements of the slides in S in the
\* placeholders of the layouts these have now.
RemappedFrom(d, new, S, reserved) ==
  LET slots == [s \in S |-> Replacements(d, new, s, reserved)]
      moved == {e \in DOMAIN new.els : /\ new.els[e].slide \in S
                                      /\ e \in DOMAIN slots[new.els[e].slide]}
  IN  [new EXCEPT !.els =
         [e \in DOMAIN new.els |->
            IF e \in moved
            THEN [new.els[e] EXCEPT !.slot = slots[new.els[e].slide][e]]
            ELSE new.els[e]]]

RemappedUnreserved(d, new, S) == RemappedFrom(d, new, S, FALSE)
Remapped(d, new, S) == RemappedFrom(d, new, S, TRUE)

SlidesOfLayout(d, l) == {s \in DOMAIN d.slides : d.slides[s].layout = l}
LayoutsOfMaster(d, m) == {l \in DOMAIN d.layouts : d.layouts[l].master = m}
SlidesOfMaster(d, m) == UNION {SlidesOfLayout(d, l) : l \in LayoutsOfMaster(d, m)}
BoundTo(d, s, p) == {e \in OnSlide(d, s) : d.els[e].slot = p}

----------------------------------------------------------------------------
(* Commands that name no slide of the deck. *)

DeleteTheme(d, c, by) ==
  LET users == {m \in DOMAIN d.masters : d.masters[m].theme = c.id} IN
  When(/\ c.id \in DOMAIN d.themes /\ Cardinality(DOMAIN d.themes) > 1
       /\ IF c.replacement = None THEN users = {}
          ELSE c.replacement \in DOMAIN d.themes \ {c.id},
       [d EXCEPT !.themes = Without(@, {c.id}),
                 !.masters = [m \in DOMAIN d.masters |->
                   IF m \in users THEN [d.masters[m] EXCEPT !.theme = c.replacement]
                                  ELSE d.masters[m]]])

UpdateMaster(d, c, by) ==
  When(c.id \in DOMAIN d.masters,
       Remapped(d, [d EXCEPT !.masters[c.id] =
                         [theme |-> c.theme, slots |-> c.slots, by |-> by]],
                   SlidesOfMaster(d, c.id)))

DeleteMaster(d, c, by) ==
  LET users == LayoutsOfMaster(d, c.id) IN
  When(/\ c.id \in DOMAIN d.masters /\ Cardinality(DOMAIN d.masters) > 1
       /\ IF c.replacement = None THEN users = {}
          ELSE c.replacement \in DOMAIN d.masters \ {c.id},
       Remapped(d, [d EXCEPT !.masters = Without(@, {c.id}),
                                !.layouts = [l \in DOMAIN d.layouts |->
                                  IF l \in users
                                  THEN [d.layouts[l] EXCEPT !.master = c.replacement]
                                  ELSE d.layouts[l]]],
                   SlidesOfMaster(d, c.id)))

UpdateLayout(d, c, by) ==
  When(c.id \in DOMAIN d.layouts,
       Remapped(d, [d EXCEPT !.layouts[c.id] =
                         [master |-> c.master, slots |-> c.slots, by |-> by]],
                   SlidesOfLayout(d, c.id)))

DeleteLayout(d, c, by) ==
  LET users == SlidesOfLayout(d, c.id) IN
  When(/\ c.id \in DOMAIN d.layouts /\ Cardinality(DOMAIN d.layouts) > 1
       /\ IF c.replacement = None THEN users = {}
          ELSE c.replacement \in DOMAIN d.layouts \ {c.id},
       Remapped(d, [d EXCEPT !.layouts = Without(@, {c.id}),
                                !.slides = [s \in DOMAIN d.slides |->
                                  IF s \in users
                                  THEN [d.slides[s] EXCEPT !.layout = c.replacement]
                                  ELSE d.slides[s]]],
                   users))

\* enforceThemeAcrossDeck: every master takes the theme, every colour its value.
EnforceTheme(d, c, by) ==
  LET restyled(f) == [x \in DOMAIN f |-> [f[x] EXCEPT !.by = by]] IN
  When(c.id \in DOMAIN d.themes,
       Edited([d EXCEPT !.deck["background"] = by,
                        !.masters = [m \in DOMAIN d.masters |->
                           [d.masters[m] EXCEPT !.theme = c.id, !.by = by]],
                        !.layouts = restyled(@),
                        !.slides = restyled(@)],
              DOMAIN d.els, {"style"}, by))

\* A new slide, or the duplicate the caller made of one: here without elements.
CreateSlide(d, c, by) ==
  {[d EXCEPT !.slides =
      With(@, c.id, [layout |-> c.layout, asset |-> None, by |-> by])]}

ReferencesAsset(d, a) ==
  \/ \E s \in DOMAIN d.slides : d.slides[s].asset = a
  \/ \E e \in DOMAIN d.els : d.els[e].asset = a

ResourceCommand(d, c, by) ==
  CASE c.type = "deck.set" -> {[d EXCEPT !.deck[c.key] = by]}
    [] c.type = "theme.create" -> {[d EXCEPT !.themes = With(@, c.id, by)]}
    [] c.type = "theme.update" ->
         When(c.id \in DOMAIN d.themes, [d EXCEPT !.themes[c.id] = by])
    [] c.type = "theme.enforce-deck" -> EnforceTheme(d, c, by)
    [] c.type = "theme.delete" -> DeleteTheme(d, c, by)
    [] c.type = "master.create" ->
         {[d EXCEPT !.masters = With(@, c.id, [theme |-> c.theme,
                                               slots |-> c.slots, by |-> by])]}
    [] c.type = "master.update" -> UpdateMaster(d, c, by)
    [] c.type = "master.delete" -> DeleteMaster(d, c, by)
    [] c.type = "layout.create" ->
         {[d EXCEPT !.layouts = With(@, c.id, [master |-> c.master,
                                               slots |-> c.slots, by |-> by])]}
    [] c.type = "layout.update" -> UpdateLayout(d, c, by)
    [] c.type = "layout.delete" -> DeleteLayout(d, c, by)
    [] c.type = "slide.create" -> CreateSlide(d, c, by)
    [] c.type = "asset.register" -> {[d EXCEPT !.assets = @ \cup {c.id}]}
    [] c.type = "asset.remove" ->
         When(c.id \in d.assets /\ ~ReferencesAsset(d, c.id),
              [d EXCEPT !.assets = @ \ {c.id}])

----------------------------------------------------------------------------
(* Commands on a slide. *)

SetLayout(d, c, by) ==
  When(c.layout \in DOMAIN d.layouts,
       Remapped(d, [d EXCEPT !.slides[c.slide].layout = c.layout,
                             !.slides[c.slide].by = by], {c.slide}))

\* The bound element takes the placeholder's frame, visibility and style again.
ResetPlaceholder(d, c, by) ==
  LET bound == BoundTo(d, c.slide, c.placeholder)
      above == {g \in OnSlide(d, c.slide) : Tree(d, {g}) \cap bound # {}}
  IN  When(/\ c.placeholder \in Offered(d, c.slide)
           /\ \A e \in above : ~d.els[e].locked,
           Edited(d, bound, {"frame", "shown", "style"}, by))

SlideCommand(d, c, by) ==
  CASE c.type = "slide.duplicate" -> CreateSlide(d, c, by)
    [] c.type = "slide.delete" ->
         When(Cardinality(DOMAIN d.slides) > 1,
              [d EXCEPT !.slides = Without(@, {c.slide}),
                        !.els = Without(@, OnSlide(d, c.slide))])
    [] c.type = "slide.reorder" -> {[d EXCEPT !.deck["slide-order"] = by]}
    [] c.type = "slide.update" ->
         {[d EXCEPT !.slides[c.slide] =
             [@ EXCEPT !.by = by,
                       !.asset = IF c.asset = Keep THEN @ ELSE c.asset]]}
    [] c.type = "slide.set-layout" -> SetLayout(d, c, by)
    [] c.type = "slide.reset-placeholder" -> ResetPlaceholder(d, c, by)

----------------------------------------------------------------------------
(* Commands on elements: each names a slide, a container on it and elements in it. *)

\* updateContainer, requireElements and requireEditable.
InContainer(d, c, E) ==
  /\ \/ c.container = Root
     \/ /\ c.container \in OnSlide(d, c.slide)
        /\ d.els[c.container].kind = "group" /\ ~d.els[c.container].locked
  /\ E \subseteq Elements(d, c.slide, c.container)
Editable(d, c, E) == InContainer(d, c, E) /\ \A e \in E : ~d.els[e].locked

\* releaseDeletedConnectorBindings, for connectors of the same slide.
DeleteElements(d, c, by) ==
  LET gone == Tree(d, c.ids)
      loose == {e \in DOMAIN d.els \ gone : d.els[e].target \in gone}
  IN  When(Editable(d, c, c.ids),
           Assigned([d EXCEPT !.els = Without(@, gone)], loose, "target", None))

\* element.transform, align and distribute: a connector that is moved lets go.
MoveElements(d, c, by) ==
  LET loose == {e \in c.ids : d.els[e].target # None} IN
  When(Editable(d, c, c.ids),
       Edited(Edited(Assigned(d, loose, "target", None), loose, {"target"}, by),
              c.ids, {"frame"}, by))

GroupElements(d, c, by) ==
  When(Editable(d, c, c.ids),
       [Assigned(d, c.ids, "parent", c.id) EXCEPT
          !.els = With(@, c.id, NewElement(c.slide, c.container, "group", by))])

UngroupElements(d, c, by) ==
  LET children == Elements(d, c.slide, c.id) IN
  When(Editable(d, c, {c.id}) /\ d.els[c.id].kind = "group",
       [Assigned(d, children, "parent", c.container) EXCEPT
          !.els = Without(@, {c.id})])

\* requireSafeElementReplacement: a replacement, made from `was`, changes
\* neither what a group contains nor the geometry of a connector.
SafeReplacement(d, c) ==
  LET inside == Tree(d, {c.id}) \ {c.id} IN
  /\ d.els[c.id].kind = "group" =>
       Restrict(d.els, inside) = Without(c.was, {c.id})
  /\ d.els[c.id].kind = "connector" =>
       /\ d.els[c.id].target = c.was[c.id].target
       /\ \A f \in {"frame", "target"} : d.els[c.id].by[f] = c.was[c.id].by[f]

UpdateElement(d, c, by) ==
  When(Editable(d, c, {c.id}) /\ SafeReplacement(d, c),
       LET kept == IF d.els[c.id].kind = "connector" THEN {"frame", "target"} ELSE {}
       IN  Assigned(Edited(d, {c.id}, Fields \ ({"place"} \cup kept), by),
                    {c.id}, "slot", c.was[c.id].slot))

InsertElement(d, c, by) ==
  When(InContainer(d, c, {}),
       [d EXCEPT !.els = With(@, c.id,
          [NewElement(c.slide, c.container, c.kind, by)
             EXCEPT !.asset = c.asset, !.target = c.target])])

\* update-style, set-visible, text.replace-content, the table commands,
\* reorder: one field of an unlocked element of a kind that has it.
EditElement(d, c, by) ==
  When(/\ Editable(d, c, {c.id})
       /\ c.field = "content" => d.els[c.id].kind \in {"text", "table"}
       /\ c.field = "style" => d.els[c.id].kind \in {"text", "shape", "table"},
       Edited(d, {c.id}, {c.field}, by))

ElementCommand(d, c, by) ==
  CASE c.type = "element.insert" -> InsertElement(d, c, by)
    [] c.type = "element.update" -> UpdateElement(d, c, by)
    [] c.type = "element.delete" -> DeleteElements(d, c, by)
    [] c.type \in {"element.transform", "element.align", "element.distribute"} -> MoveElements(d, c, by)
    [] c.type = "element.group" -> GroupElements(d, c, by)
    [] c.type = "element.ungroup" -> UngroupElements(d, c, by)
    [] c.type \in {"element.edit", "element.reorder"} -> EditElement(d, c, by)
    [] c.type = "element.set-locked" ->
         When(InContainer(d, c, {c.id}),
              Edited(Assigned(d, {c.id}, "locked", c.locked), {c.id}, {"lock"}, by))
    [] c.type = "connector.update-endpoint" ->
         When(Editable(d, c, {c.id}) /\ d.els[c.id].kind = "connector",
              Edited(Assigned(d, {c.id}, "target", c.target), {c.id}, {"target"}, by))

----------------------------------------------------------------------------

\* executeCommand: the deck the command makes, if it makes one.
Execute(d, c, by) ==
  IF "slide" \notin DOMAIN c THEN ResourceCommand(d, c, by)
  ELSE IF c.slide \notin DOMAIN d.slides THEN {}
  ELSE IF "container" \in DOMAIN c THEN ElementCommand(d, c, by)
  ELSE SlideCommand(d, c, by)

\* structuralIssues: every reference is to something there, and a slide binds
\* each of its placeholders once, to an element that fits.
BindingsHold(d) ==
  \A s \in DOMAIN d.slides :
    /\ \A e \in BoundOn(d, s) : /\ d.els[e].slot \in Offered(d, s)
                               /\ Takes(d.els[e].slot, d.els[e])
    /\ \A e, f \in BoundOn(d, s) : e # f => d.els[e].slot # d.els[f].slot

ReferencesHold(d) ==
  /\ \A m \in DOMAIN d.masters : d.masters[m].theme \in DOMAIN d.themes
  /\ \A l \in DOMAIN d.layouts : d.layouts[l].master \in DOMAIN d.masters
  /\ \A s \in DOMAIN d.slides : /\ d.slides[s].layout \in DOMAIN d.layouts
                                /\ d.slides[s].asset \in d.assets \cup {None}
  /\ \A e \in DOMAIN d.els :
       /\ d.els[e].asset \in d.assets \cup {None}
       /\ d.els[e].target \in OnSlide(d, d.els[e].slide) \cup {None}

\* registerId, for placeholders: no master or layout has one of another's.
IdentifiersAreUnique(d) ==
  /\ \A m, n \in DOMAIN d.masters :
       m # n => d.masters[m].slots \cap d.masters[n].slots = {}
  /\ \A l, k \in DOMAIN d.layouts :
       l # k => d.layouts[l].slots \cap d.layouts[k].slots = {}
  /\ \A m \in DOMAIN d.masters, l \in DOMAIN d.layouts :
       d.masters[m].slots \cap d.layouts[l].slots = {}

Valid(d) == IdentifiersAreUnique(d) /\ ReferencesHold(d) /\ BindingsHold(d)

\* applyTransaction, for a batch of one command.
Apply(d, c, by) == {r \in Execute(d, c, by) : Valid(r)}
=============================================================================
