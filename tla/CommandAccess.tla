--------------------------- MODULE CommandAccess ---------------------------
(***************************************************************************)
(* What a command reads and writes, by the keys the host compares to       *)
(* decide whether a stale batch may still run (collaboration/src/          *)
(* access.ts, analyzeCommandAccess).  The analysis looks at a deck: the    *)
(* one the host holds when the batch arrives.                              *)
(***************************************************************************)
EXTENDS Deck

\* A collection or a reference, and the entities.
DeckKey(k) == <<"deck", k>>
References(k) == <<"references", k>>
Slide(s) == <<"slide", s>>
Element(e) == <<"element", e>>
Theme(t) == <<"theme", t>>
Master(m) == <<"master", m>>
Layout(l) == <<"layout", l>>
Asset(a) == <<"asset", a>>
Collection(s, c) == <<"elements", s, c>>

\* Assets, replacements and targets that a command may leave out.
Named(id) == {id} \ {None, Keep}

\* addElementTreeWrites, for the elements E and all they contain.
TreeKeys(d, s, E) ==
  LET inside == Tree(d, E \cap OnSlide(d, s)) IN
  {Element(e) : e \in inside}
    \cup {Collection(s, e) : e \in {x \in inside : d.els[x].kind = "group"}}

\* addSlideTreeWrites.
SlideTreeKeys(d, S) ==
  UNION {{Slide(s), Collection(s, Root)} \cup TreeKeys(d, s, OnSlide(d, s)) : s \in S}

NewSlideKeys(c) ==
  {DeckKey("slide-order"), Slide(c.id), Collection(c.id, Root),
   References("layouts"), References("assets")}

ResourceReads(d, c) ==
  CASE c.type = "deck.set" -> {}
    [] c.type = "theme.create" -> {DeckKey("themes")}
    [] c.type = "theme.update" -> {Theme(c.id)}
    [] c.type = "theme.enforce-deck" ->
         {Theme(c.id), DeckKey("masters"), DeckKey("layouts"), DeckKey("slide-order")}
    [] c.type = "theme.delete" ->
         {DeckKey("themes"), Theme(c.id), References("themes")}
           \cup {Theme(x) : x \in Named(c.replacement)}
    [] c.type = "master.create" -> {DeckKey("masters"), Theme(c.theme)}
    [] c.type = "master.update" -> {Master(c.id), Theme(c.theme)}
    [] c.type = "master.delete" ->
         {DeckKey("masters"), Master(c.id), References("masters")}
           \cup {Master(x) : x \in Named(c.replacement)}
    [] c.type = "layout.create" -> {DeckKey("layouts"), Master(c.master)}
    [] c.type = "layout.update" -> {Layout(c.id), Master(c.master)}
    [] c.type = "layout.delete" ->
         {DeckKey("layouts"), Layout(c.id), References("layouts")}
           \cup {Layout(x) : x \in Named(c.replacement)}
    [] c.type = "slide.create" -> {DeckKey("slide-order"), Layout(c.layout)}
    [] c.type = "asset.register" -> {DeckKey("assets")}
    [] c.type = "asset.remove" -> {DeckKey("assets"), Asset(c.id), References("assets")}

ResourceWrites(d, c) ==
  CASE c.type = "deck.set" -> {DeckKey(c.key)}
    [] c.type = "theme.create" -> {DeckKey("themes"), Theme(c.id)}
    [] c.type = "theme.update" -> {Theme(c.id)}
    [] c.type = "theme.enforce-deck" ->
         {DeckKey("background"), References("themes")}
           \cup {Master(m) : m \in DOMAIN d.masters}
           \cup {Layout(l) : l \in DOMAIN d.layouts}
           \cup SlideTreeKeys(d, DOMAIN d.slides)
    [] c.type = "theme.delete" ->
         {DeckKey("themes"), Theme(c.id), References("themes")}
           \cup {Master(m) : m \in {x \in DOMAIN d.masters : d.masters[x].theme = c.id}}
    [] c.type = "master.create" ->
         {DeckKey("masters"), Master(c.id), References("themes"), References("assets")}
    [] c.type = "master.update" ->
         {Master(c.id), References("themes"), References("assets")}
           \cup SlideTreeKeys(d, SlidesOfMaster(d, c.id))
    [] c.type = "master.delete" ->
         {DeckKey("masters"), Master(c.id), References("masters"),
          References("themes"), References("assets")}
           \cup {Layout(l) : l \in LayoutsOfMaster(d, c.id)}
           \cup SlideTreeKeys(d, SlidesOfMaster(d, c.id))
    [] c.type = "layout.create" ->
         {DeckKey("layouts"), Layout(c.id), References("masters"), References("assets")}
    [] c.type = "layout.update" ->
         {Layout(c.id), References("masters"), References("assets")}
           \cup SlideTreeKeys(d, SlidesOfLayout(d, c.id))
    [] c.type = "layout.delete" ->
         {DeckKey("layouts"), Layout(c.id), References("layouts"),
          References("masters"), References("assets")}
           \cup {Slide(s) : s \in SlidesOfLayout(d, c.id)}
    [] c.type = "slide.create" -> NewSlideKeys(c)
    [] c.type = "asset.register" -> {DeckKey("assets"), Asset(c.id)}
    [] c.type = "asset.remove" -> {DeckKey("assets"), Asset(c.id)}

\* addBoundPlaceholderAccess and the resources the slide's layout comes from.
ResetAccess(d, c) ==
  LET known == {s \in {c.slide} : s \in DOMAIN d.slides} IN
  {Slide(c.slide)}
    \cup {Layout(d.slides[s].layout) : s \in known}
    \cup {Master(d.layouts[d.slides[s].layout].master) : s \in known}
    \cup {Element(e) : e \in BoundTo(d, c.slide, c.placeholder)}

SlideReads(d, c) ==
  CASE c.type = "slide.duplicate" ->
         {DeckKey("slide-order"), Slide(c.slide), Layout(c.layout)}
    [] c.type \in {"slide.delete", "slide.reorder"} ->
         {DeckKey("slide-order"), Slide(c.slide)}
    [] c.type = "slide.update" -> {Slide(c.slide)} \cup {Asset(x) : x \in Named(c.asset)}
    [] c.type = "slide.set-layout" -> {Slide(c.slide), Layout(c.layout)}
    [] c.type = "slide.reset-placeholder" -> ResetAccess(d, c)

SlideWrites(d, c) ==
  CASE c.type = "slide.duplicate" -> NewSlideKeys(c)
    [] c.type = "slide.delete" ->
         {DeckKey("slide-order"), Slide(c.slide), References("layouts"),
          References("assets")} \cup TreeKeys(d, c.slide, OnSlide(d, c.slide))
    [] c.type = "slide.reorder" -> {DeckKey("slide-order")}
    [] c.type = "slide.update" ->
         {Slide(c.slide)}
           \cup (IF c.asset = Keep THEN {} ELSE {References("assets")})
    [] c.type = "slide.set-layout" -> {Slide(c.slide), References("layouts")}
    [] c.type = "slide.reset-placeholder" ->
         {Slide(c.slide)}
           \cup TreeKeys(d, c.slide, BoundTo(d, c.slide, c.placeholder))

\* The elements an element command names, and whether it changes which
\* elements its container holds, or their order.  Aligning and distributing is
\* relative to the container, not to the selection.
NamedIds(c) == IF "ids" \in DOMAIN c THEN c.ids ELSE {c.id}
Rearranges(c) == c.type \in {"element.insert", "element.delete", "element.group",
                             "element.ungroup", "element.reorder"}
OwnCollection(c) == IF Rearranges(c) THEN {Collection(c.slide, c.container)} ELSE {}

ElementReads(d, c) ==
  {Slide(c.slide)} \cup (IF c.container = Root THEN {} ELSE {Element(c.container)})
    \cup OwnCollection(c)
    \cup (IF c.type = "element.insert" THEN {Asset(x) : x \in Named(c.asset)}
          ELSE {Element(e) : e \in NamedIds(c)})
    \cup (IF c.type \in {"element.align", "element.distribute"} /\ c.container = Root
          THEN {DeckKey("page")} ELSE {})
    \cup (IF c.type = "connector.update-endpoint" THEN {Element(x) : x \in Named(c.target)} ELSE {})

ElementWritesShallow(d, c) ==
  {Element(e) : e \in NamedIds(c)} \cup OwnCollection(c)
    \cup (IF c.type \in {"element.group", "element.ungroup"}
          THEN {Element(c.id), Collection(c.slide, c.id)} ELSE {})
    \cup (IF c.type \in {"element.update", "element.delete"}
          THEN {References("assets")} ELSE {})
    \cup (IF c.type = "element.insert" /\ c.asset # None
          THEN {References("assets")} ELSE {})

\* addExistingElementTreeWrites: what is deleted or replaced as it is now.
ElementWrites(d, c) ==
  ElementWritesShallow(d, c)
    \cup (IF c.type \in {"element.update", "element.delete"}
          THEN TreeKeys(d, c.slide, NamedIds(c)) ELSE {})

\* analyzeCommandAccess.
Reads(d, c) ==
  IF "slide" \notin DOMAIN c THEN ResourceReads(d, c)
  ELSE IF "container" \in DOMAIN c THEN ElementReads(d, c) ELSE SlideReads(d, c)

Writes(d, c) ==
  IF "slide" \notin DOMAIN c THEN ResourceWrites(d, c)
  ELSE IF "container" \in DOMAIN c THEN ElementWrites(d, c) ELSE SlideWrites(d, c)
=============================================================================
