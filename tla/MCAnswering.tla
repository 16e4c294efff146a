------------------------------ MODULE MCAnswering ------------------------------
(***************************************************************************)
(* An instance of retrieval and answering: two documents, the first with   *)
(* two versions, and two questions: one ranked by similarity, one by the   *)
(* cross-encoder, which likes best what has few words in common with it.   *)
(***************************************************************************)
EXTENDS Answering

CONSTANTS d1, d2

Leaf(d, v, l) == [document |-> d, version |-> v, leaf |-> l]

SomeChunks == {Leaf(d1, 1, 1), Leaf(d1, 2, 1), Leaf(d1, 2, 2), Leaf(d2, 1, 1)}

Scored(old, new, second, other) ==
  [c \in SomeChunks |-> CASE c = Leaf(d1, 1, 1) -> old
                          [] c = Leaf(d1, 2, 1) -> new
                          [] c = Leaf(d1, 2, 2) -> second
                          [] c = Leaf(d2, 1, 1) -> other]

SomeQueries ==
  {[lexical    |-> Scored(5, 0, 6, 6),
    similarity |-> Scored(7000, 8000, 3000, 5000),
    reranker   |-> Scored(0, 0, 0, 0),
    reranks    |-> FALSE],
   [lexical    |-> Scored(0, 0, 0, 4),
    similarity |-> Scored(100, 0, -200, 4000),
    reranker   |-> Scored(4000, 3000, 2000, 7000),
    reranks    |-> TRUE]}
=============================================================================
