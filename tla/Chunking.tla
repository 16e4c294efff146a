------------------------------- MODULE Chunking -------------------------------
(***************************************************************************)
(* How a parsed document is cut into the rows that are indexed             *)
(* (knowledge/ingestion/normalize.py and chunk.py): repeated headers,      *)
(* page numbers and duplicates are left out, headings make a tree of       *)
(* sections, and the blocks of a section are grouped into leaves.          *)
(*                                                                         *)
(* The parser delivers blocks one by one.  A text is its name, what is     *)
(* left of it without page numbers (key), whether it is only a page        *)
(* number, only digits or very short, and its tokens.  A row of the result *)
(* has its parent's position, 0 for the document's row, which is the       *)
(* first; the overlap of leaves, which only adds to what is embedded, is   *)
(* left out.                                                               *)
(***************************************************************************)
EXTENDS Naturals, Sequences, FiniteSets

LOCAL INSTANCE SequencesExt
LOCAL INSTANCE FiniteSetsExt

CONSTANTS
  Block,       (* [level, text]; level 0 is not a heading        *)
  MinRepeats,
  MaxTokens,
  MaxBlocks    (* bound on the length of a document              *)

ASSUME ChunkingAssumption ==
  /\ \A b \in Block :
       /\ {b.level, b.text.tokens} \subseteq Nat
       /\ {b.text.page, b.text.digits, b.text.short} \subseteq BOOLEAN
  /\ {MinRepeats, MaxTokens, MaxBlocks} \subseteq Nat \ {0}

VARIABLE blocks   (* the document as far as it has been parsed *)

IsHeading(i) == blocks[i].level # 0

Text(i) == blocks[i].text

-----------------------------------------------------------------------------
(***************************************************************************)
(* detect_boilerplate.                                                     *)
(***************************************************************************)
Frequency(t) == Cardinality({i \in DOMAIN blocks : Text(i) = t})

\* Blocks that differ at most in their page numbers.
Alike(t) ==
  IF t.key = t.name THEN {}
  ELSE {i \in DOMAIN blocks : Text(i).key = t.key /\ Text(i).name # t.key}

IsPageNumber(i) == Text(i).page \/ (Text(i).digits /\ Frequency(Text(i)) >= 2)

IsCounted(t) == ~t.short /\ ~t.digits

IsRepeated(i) ==
  /\ IsCounted(Text(i)) /\ ~IsHeading(i)
  /\ Cardinality(Alike(Text(i))) >= MinRepeats \/ Frequency(Text(i)) >= MinRepeats

\* A mutant: the first occurrence is not kept.
IsDuplicateOfAny(i) ==
  IsCounted(Text(i)) /\ ~IsHeading(i) /\ \E j \in DOMAIN blocks \ {i} : Text(j) = Text(i)

IsDuplicate(i) ==
  /\ IsCounted(Text(i)) /\ ~IsHeading(i)
  /\ \E j \in 1 .. i - 1 : Text(j) = Text(i) /\ ~IsHeading(j)

IsBoilerplate(i) == IsPageNumber(i) \/ IsRepeated(i) \/ IsDuplicate(i)

Kept == SelectSeq([i \in DOMAIN blocks |-> i], LAMBDA i : ~IsBoilerplate(i) /\ Text(i).tokens > 0)

-----------------------------------------------------------------------------
(***************************************************************************)
(* hierarchical_chunk: the tree, then its rows depth first.                *)
(***************************************************************************)
RECURSIVE Popped(_, _)
Popped(stack, level) ==
  IF stack # <<>> /\ blocks[Last(stack)].level >= level THEN Popped(Front(stack), level) ELSE stack

Top(stack) == IF stack = <<>> THEN 0 ELSE Last(stack)

\* A block belongs to the section on top of the stack; a heading opens one.
Place(tree, i) ==
  IF IsHeading(i) THEN
    LET stack == Popped(tree.stack, blocks[i].level) IN
    [stack |-> Append(stack, i), inside |-> [tree.inside EXCEPT ![i] = Top(stack)]]
  ELSE [tree EXCEPT !.inside[i] = Top(tree.stack)]

\* inside: the section that contains each kept block.
Tree == FoldLeft(Place, [stack |-> <<>>, inside |-> [i \in DOMAIN blocks |-> 0]], Kept)

Contents(section, headings) ==
  LET tree == Tree IN
  SelectSeq(Kept, LAMBDA i : tree.inside[i] = section /\ IsHeading(i) = headings)

Tokens(leaf) == FoldLeft(LAMBDA sum, i : sum + Text(i).tokens, 0, leaf)

\* _split_leaves
Grow(leaves, i) ==
  IF leaves # <<>> /\ Tokens(Last(leaves)) + Text(i).tokens <= MaxTokens
  THEN Append(Front(leaves), Append(Last(leaves), i))
  ELSE Append(leaves, <<i>>)

Leaves(section) == FoldLeft(Grow, <<>>, Contents(section, FALSE))

\* emit_section: the row of the section, its leaves, and the sections in it;
\* at is the position of its row.
RECURSIVE Emit(_, _, _)
Emit(section, at, parent) ==
  LET leaves == Leaves(section)
      own == [l \in DOMAIN leaves |->
                [level |-> "leaf", section |-> section, parent |-> at, blocks |-> leaves[l]]]
      head == [level |-> IF section = 0 THEN "document" ELSE "section", section |-> section,
               parent |-> parent, blocks |-> <<>>]
  IN FoldLeft(LAMBDA rows, child : rows \o Emit(child, at + Len(rows), at),
              <<head>> \o own, Contents(section, TRUE))

Rows == Emit(0, 1, 0)

RECURSIVE Ancestors(_, _)
Ancestors(rows, r) ==
  IF rows[r].parent = 0 THEN <<>>
  ELSE <<rows[r].parent>> \o Ancestors(rows, rows[r].parent)

-----------------------------------------------------------------------------
(***************************************************************************)
(* build_normalized.                                                       *)
(***************************************************************************)
\* build_reading_sequence: the heading under which a block is listed.
ReadingSection(i) ==
  LET headings == {h \in 1 .. i : IsHeading(h)} IN IF headings = {} THEN 0 ELSE Max(headings)

Outcome(rows) ==
  IF \A i \in DOMAIN blocks : Text(i).tokens = 0 THEN "NO_EXTRACTABLE_TEXT"
  ELSE IF \A r \in DOMAIN rows : rows[r].level # "leaf" THEN "NO_INDEXABLE_CONTENT"
  ELSE "NORMALIZED"

-----------------------------------------------------------------------------
InitChunking == blocks = <<>>

ReadBlock ==
  /\ Len(blocks) < MaxBlocks
  /\ \E b \in Block : blocks' = Append(blocks, b)

-----------------------------------------------------------------------------
\* The headings that govern a block: no later one before the block is of the
\* same or a higher rank.
Governing(i) ==
  LET headings == {h \in Range(Kept) : IsHeading(h) /\ h < i} IN
  {h \in headings : \A g \in headings : h < g => blocks[g].level > blocks[h].level}

\* Whatever the headings and repetitions of a document: its leaves, in the
\* order of their rows, are its text in reading order; a leaf exceeds the
\* budget only if it is one block, and ends only where the next block would
\* not fit; the ancestors of a leaf are the document and the sections whose
\* headings govern the text, and the last of these is the one under which the
\* artifact lists it, unless that is a page number; a text that is not a page
\* number and does not repeat often is in exactly one leaf; and a document is
\* refused only if it has nothing but headings, page numbers and repetitions.
Chunked ==
  LET rows == Rows
      kept == Range(Kept)
      leaves == {r \in DOMAIN rows : rows[r].level = "leaf"}
      Embedded(t) == {i \in UNION {Range(rows[r].blocks) : r \in leaves} : Text(i) = t}
  IN
  /\ FlattenSeq([r \in DOMAIN rows |-> rows[r].blocks]) = SelectSeq(Kept, LAMBDA i : ~IsHeading(i))
  /\ \A r \in leaves :
       /\ Tokens(rows[r].blocks) <= MaxTokens \/ Len(rows[r].blocks) = 1
       /\ r + 1 \in leaves /\ rows[r + 1].section = rows[r].section =>
            Tokens(rows[r].blocks) + Text(Head(rows[r + 1].blocks)).tokens > MaxTokens
       /\ {rows[a].section : a \in Range(Ancestors(rows, r))} = {0} \cup Governing(Head(rows[r].blocks))
       /\ (\A i \in DOMAIN blocks : IsHeading(i) => i \in kept) =>
            ReadingSection(Head(rows[r].blocks)) = rows[r].section
  /\ \A i \in DOMAIN blocks :
       /\ ~IsHeading(i) /\ Text(i).tokens > 0 /\ ~IsPageNumber(i) /\ IsCounted(Text(i))
       /\ Frequency(Text(i)) < MinRepeats /\ Cardinality(Alike(Text(i))) < MinRepeats
       => Cardinality(Embedded(Text(i))) = 1
  /\ Outcome(rows) # "NORMALIZED" =>
       \A i \in DOMAIN blocks :
         Text(i).tokens = 0 \/ IsHeading(i) \/ IsPageNumber(i) \/ IsRepeated(i)
=============================================================================
