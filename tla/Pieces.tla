-------------------------------- MODULE Pieces --------------------------------
(***************************************************************************)
(* From a text to the pieces a planner groups: the block tokens of         *)
(* markdown-it made a flat list of blocks (parse/markdown_parse.py), and   *)
(* the blocks made atomic pieces under the default AtomicRules             *)
(* (domain/atomic.py).                                                     *)
(*                                                                         *)
(* A token is its type, and for a paragraph what is in it: the kinds of    *)
(* its sentences, as split_sentences finds them, or one image.  Offsets    *)
(* count sentences and tokens instead of characters.  A piece is the kind  *)
(* the planner (Cursor.tla) sees, and its slice of the source.             *)
(***************************************************************************)
EXTENDS Integers, Sequences, SequencesExt

\* _OPEN_TOKEN_TYPES.  Every other token, html_block among them, is no block.
BlockType ==
    [heading_open |-> "heading", paragraph_open |-> "paragraph",
     list_item_open |-> "list_item", fence |-> "code", code_block |-> "code",
     blockquote_open |-> "blockquote", table_open |-> "table",
     hr |-> "horizontal_rule"]

Absorbing  == {"list_item", "blockquote", "table"}
CloseTypes == {"list_item_close", "blockquote_close", "table_close"}

Token(type, text) == [type |-> type, text |-> text]

\* The kinds of a sentence.
Prose == {"sentence", "long", "colon"}

\* Only a paragraph has a text of its own; markdown-it makes none of white
\* space, so it has a sentence or an image.
Tokens ==
    {token \in [type: DOMAIN BlockType \cup CloseTypes \cup {"html_block"},
                text: Seq(Prose) \cup {<<"image">>}] :
        token.type = "paragraph_open" <=> token.text # <<>>}

\* How much of the source a token stands for.
Width(token) == IF token.type \in CloseTypes THEN 0
                ELSE IF token.text = <<>> THEN 1 ELSE Len(token.text)

\* One turn of the loop of parse.  token.map of a block that absorbs others
\* reaches to the end of what it contains.
ParseToken(s, token) ==
    LET end   == s.at + Width(token)
        opens == token.type \in DOMAIN BlockType
        type  == IF token.text = <<"image">> THEN "image" ELSE BlockType[token.type]
        block == [type |-> type, text |-> token.text, start |-> s.at, end |-> end]
    IN  [blocks |-> IF s.depth > 0
                      THEN Append(Front(s.blocks), [Last(s.blocks) EXCEPT !.end = end])
                      ELSE IF opens THEN Append(s.blocks, block) ELSE s.blocks,
         depth |-> s.depth + IF token.type \in CloseTypes THEN -1
                             ELSE IF opens /\ type \in Absorbing THEN 1 ELSE 0,
         at |-> end]

Parsed(tokens) == FoldLeft(ParseToken, [blocks |-> <<>>, depth |-> 0, at |-> 0], tokens)

Piece(kind, start, end) == [kind |-> kind, start |-> start, end |-> end]

\* _make_block_piece, with the kind that preprocess_pieces derives from it.
BlockPiece(block) ==
    Piece(CASE block.type = "heading" -> "heading"
            [] block.type = "horizontal_rule" -> "break"
            [] OTHER -> "block",
          block.start, block.end)

\* _append_sentence_pieces
SentencePieces(block) ==
    [i \in DOMAIN block.text |->
       Piece(block.text[i], block.start + i - 1, block.start + i)]

\* _append_list_pieces: the last item of the run that starts with block b.
RunEnd(blocks, b) ==
    CHOOSE e \in b .. Len(blocks) :
        /\ \A i \in b .. e : blocks[i].type = "list_item"
        /\ e < Len(blocks) => blocks[e + 1].type # "list_item"

InsideRun(blocks, b) == b > 1 /\ blocks[b - 1].type = "list_item"

\* One turn of the loop of build_atomic_pieces: a run of items is one piece,
\* from the first to the last.
PiecesFrom(blocks, b) ==
    CASE blocks[b].type = "paragraph" -> SentencePieces(blocks[b])
      [] blocks[b].type = "list_item" ->
           IF InsideRun(blocks, b) THEN <<>>
           ELSE <<Piece("block", blocks[b].start, blocks[RunEnd(blocks, b)].end)>>
      [] OTHER -> <<BlockPiece(blocks[b])>>

\* build_atomic_pieces
AtomicPieces(blocks) == FlattenSeq([b \in DOMAIN blocks |-> PiecesFrom(blocks, b)])

PiecesOf(tokens) == AtomicPieces(Parsed(tokens).blocks)

\* The slice of the source materialize_chunks takes for a chunk: from its first
\* piece to its last, whatever lies between.
Slice(pieces) ==
    LET starts == {pieces[i].start : i \in DOMAIN pieces}
        first  == CHOOSE s \in starts : \A t \in starts : s <= t
        final  == CHOOSE s \in starts : \A t \in starts : t <= s
        last   == CHOOSE i \in DOMAIN pieces : pieces[i].start = final
    IN  first .. pieces[last].end - 1

===============================================================================
