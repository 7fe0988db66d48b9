-------------------------------- MODULE MCCursor ------------------------------
(* Cursor.tla where two sentences fill a chunk and a long one overflows it.  *)
(* Blocks are a heading, paragraphs of one or two sentences, an image, a     *)
(* break, raw HTML, and a list item with a quoted list in it.                *)
EXTENDS Cursor

MCCost == [k \in PieceKinds |-> CASE k = "long" -> 3 [] k = "break" -> 0
                                  [] OTHER -> 1]

Leaf(type) == <<Token(type, <<>>)>>
Text(kinds) == <<Token("paragraph_open", kinds)>>
Item(inside) == Leaf("list_item_open") \o inside \o Leaf("list_item_close")
Quote(inside) == Leaf("blockquote_open") \o inside \o Leaf("blockquote_close")

MCConstructs ==
    { Leaf("heading_open"), Leaf("hr"), Leaf("html_block"),
      Text(<<"sentence">>), Text(<<"colon">>), Text(<<"sentence", "long">>),
      Text(<<"image">>),
      Item(Text(<<"colon">>) \o Quote(Item(Leaf("html_block")))) }

===============================================================================
