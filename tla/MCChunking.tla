------------------------------ MODULE MCChunking ------------------------------
(***************************************************************************)
(* An instance of chunking: headings of two ranks, one of them with the    *)
(* text of a paragraph, a page number, a header that carries one, a block  *)
(* that exceeds the budget of a leaf by itself, a lone number and a        *)
(* picture.                                                                *)
(***************************************************************************)
EXTENDS Chunking

Line(name, key, page, digits, tokens) ==
  [name |-> name, key |-> key, page |-> page, digits |-> digits, short |-> FALSE, tokens |-> tokens]

Prose(name, tokens) == Line(name, name, FALSE, FALSE, tokens)

Heading(level, text) == [level |-> level, text |-> text]

Body(text) == [level |-> 0, text |-> text]

SomeBlocks ==
  {Heading(1, Prose("Rules", 2)), Heading(2, Prose("Rules", 2)), Body(Prose("Rules", 2)),
   Body([Prose("Picture", 0) EXCEPT !.short = TRUE]), Body(Prose("Table", 5)), Body(Line("Page 7", "", TRUE, FALSE, 2)), Body(Line("7", "7", FALSE, TRUE, 1)),
   Body(Line("HR page 1", "HR", FALSE, FALSE, 3)), Body(Line("HR page 2", "HR", FALSE, FALSE, 3))}
=============================================================================
