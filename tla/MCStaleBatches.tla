--------------------------- MODULE MCStaleBatches ---------------------------
EXTENDS StaleBatches

MCPlaceholders == <<"title", "heading", "body", "caption", "note">>
MCRole == [p \in Range(MCPlaceholders) |-> IF p \in {"title", "heading"} THEN "title" ELSE "body"]
MCAccepts == [p \in Range(MCPlaceholders) |->
                IF p = "note" THEN {"text"} ELSE {"text", "image"}]

\* Slide s1 has a bound text, a bound image, a group of a bound text, and a
\* connector to that text; slide s2 is empty.
El(kind, parent, slot, target, asset) ==
  [NewElement("s1", parent, kind, "base")
     EXCEPT !.slot = slot, !.target = target, !.asset = asset]
MCInitialDeck ==
  [deck |-> [k \in {"name", "page", "export-settings", "background", "slide-order"} |-> "base"],
   themes |-> [t \in {"t1", "t2"} |-> "base"],
   masters |-> "m1" :> [theme |-> "t1", slots |-> {"title"}, by |-> "base"]
            @@ "m2" :> [theme |-> "t2", slots |-> {"heading"}, by |-> "base"],
   layouts |-> "l1" :> [master |-> "m1", slots |-> {"body", "caption"}, by |-> "base"]
            @@ "l2" :> [master |-> "m2", slots |-> {"note"}, by |-> "base"],
   slides |-> "s1" :> [layout |-> "l1", asset |-> None, by |-> "base"]
           @@ "s2" :> [layout |-> "l2", asset |-> None, by |-> "base"],
   assets |-> {"a1"},
   els |-> "x" :> El("text", Root, "body", None, None)
        @@ "i" :> El("image", Root, "caption", None, "a1")
        @@ "g" :> El("group", Root, None, None, None)
        @@ "c" :> El("text", "g", "title", None, None)
        @@ "k" :> El("connector", Root, None, "c", None)]
=============================================================================
