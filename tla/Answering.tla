------------------------------- MODULE Answering -------------------------------
(***************************************************************************)
(* A question to the knowledge base (knowledge/service.py and              *)
(* agents/knowledge_agent/agent.py): four queries of a changing index, the *)
(* ranking of what they found, and the guarded, cited answer.  Each query  *)
(* sees what is committed at its time.                                     *)
(*                                                                         *)
(* A query is what the search engines make of the words: the score each    *)
(* chunk gets.  A text is its markers, whether it shows a value that the   *)
(* redaction would remove, and whether it declines to answer.              *)
(***************************************************************************)
EXTENDS Integers, FiniteSets, SequencesExt, Lists

CONSTANTS
  Document,
  Chunk,       (* leaves: [document, version, leaf]                           *)
  Role,        (* the roles besides HR_ADMIN                                  *)
  Queries,     (* [lexical, similarity, reranker : Chunk -> Int, reranks : BOOLEAN] *)
  Scale,       (* 1.0 in the scores of the queries                            *)
  Threshold,   (* confidence_threshold, times Scale                           *)
  TopK,        (* top_k                                                       *)
  TopN         (* rerank_top_n                                                *)

ASSUME AnsweringAssumption ==
  /\ IsFiniteSet(Chunk) /\ Queries # {}
  /\ \A c \in Chunk : c.document \in Document /\ c.version \in Nat \ {0}
  /\ {Scale, TopK, TopN} \subseteq Nat \ {0} /\ Threshold \in Int

VARIABLES
  served,   (* the current indexed version of each document, 0 without one   *)
  deleted,
  allowed,  (* role_access of each document, without HR_ADMIN                *)
  stage,    (* of the turn                                                   *)
  turn,     (* role, query, the hits of the lexical leg, the final chunks    *)
  moved,    (* whether the index changed since the question was put          *)
  reply     (* the last one                                                  *)

answeringVars == <<served, deleted, allowed, stage, turn, moved, reply>>

index == <<served, deleted, allowed>>
-----------------------------------------------------------------------------
Requester == Role \cup {"HR_ADMIN"}

TextType == [markers : SUBSET (1 .. TopN + 1), private : BOOLEAN, declines : BOOLEAN]

NoText == [markers |-> {}, private |-> FALSE, declines |-> FALSE]

NoReply == [kind |-> "none", text |-> NoText, citations |-> <<>>, safety |-> "PASS", repaired |-> FALSE]

\* Refusals and denials.
Notice(kind) == [NoReply EXCEPT !.kind = kind, !.text.declines = TRUE]

Indexed(c) == served[c.document] = c.version /\ c.document \notin deleted

MayRead(role, c) == role = "HR_ADMIN" \/ role \in allowed[c.document]

\* A mutant: versions that are no longer current are searched too.
FoundInAnyVersion(role, c) ==
  served[c.document] >= c.version /\ c.document \notin deleted /\ MayRead(role, c)

Found(role, c) == Indexed(c) /\ MayRead(role, c)

-----------------------------------------------------------------------------
(***************************************************************************)
(* Ranking.                                                                *)
(***************************************************************************)
Shorten(s, n) == SubSeq(s, 1, IF Len(s) < n THEN Len(s) ELSE n)

\* What a leg can return: the best hits, those of one score in any order.
Legs(hits, score) ==
  {Shorten(s, TopK) : s \in {t \in SetToSeqs(hits) :
                               \A i, j \in DOMAIN t : i < j => score[t[i]] >= score[t[j]]}}

RankIn(c, list) == CHOOSE i \in DOMAIN list : list[i] = c

\* weight / (k + rank), with the defaults.
Share(c, list) == IF c \in Range(list) THEN Scale \div (60 + RankIn(c, list)) ELSE 0

Rrf(c, lexical, vector) == Share(c, lexical) + Share(c, vector)

\* The quality by which the candidates are ordered: the cross-encoder's score
\* or the similarity, whose absence and 0 leave the fused score.
Quality(c, q, lexical, vector) ==
  IF q.reranks THEN q.reranker[c]
  ELSE IF c \in Range(vector) /\ q.similarity[c] # 0 THEN q.similarity[c]
  ELSE Rrf(c, lexical, vector)

\* Sorting is stable; the fusion lists the lexical hits first.
Key(c, q, lexical, vector) ==
  <<IF q.reranks \/ c \in Range(vector) THEN 0 ELSE 1,
    -Quality(c, q, lexical, vector),
    -Rrf(c, lexical, vector),
    RankIn(c, lexical \o vector)>>

Precedes(k, l) == \E i \in DOMAIN k : k[i] < l[i] /\ \A j \in 1 .. i - 1 : k[j] = l[j]

\* The chunks the model is shown; no two have one key, so this is one list.
Finals(q, lexical, vector) ==
  LET key == [c \in Range(lexical) \cup Range(vector) |-> Key(c, q, lexical, vector)] IN
  {Shorten(s, TopN) : s \in {t \in SetToSeqs(DOMAIN key) :
                               \A i, j \in DOMAIN t : i < j => Precedes(key[t[i]], key[t[j]])}}

\* The scores that count: the qualities that are known, or the fused scores.
Scores(q, final, lexical, vector) ==
  LET known == SelectSeq(final, LAMBDA c : q.reranks \/ c \in Range(vector)) IN
  IF known = <<>> THEN [i \in DOMAIN final |-> Rrf(final[i], lexical, vector)]
  ELSE [i \in DOMAIN known |-> IF q.reranks THEN q.reranker[known[i]] ELSE q.similarity[known[i]]]

\* Four times 0.75 * peak + 0.25 * runner-up.
Confidence4(scores) ==
  LET peak == CHOOSE i \in DOMAIN scores : \A j \in DOMAIN scores : scores[j] <= scores[i]
      rest == {scores[i] : i \in DOMAIN scores \ {peak}}
  IN 3 * scores[peak] + (IF rest = {} THEN scores[peak] ELSE Max(rest))

IsLow(q, final, lexical, vector) ==
  LET scores == Scores(q, final, lexical, vector)
  IN  scores = <<>> \/ Confidence4(scores) < 4 * Threshold

-----------------------------------------------------------------------------
(***************************************************************************)
(* The output guard and the citations.  doubt is the judge's, if there is  *)
(* one; what would block an answer has been refused before.                *)
(***************************************************************************)
Verdicts == {"PASS", "FLAGGED_FOR_REVIEW", "REDACTED"}

Warned(text, doubt) ==
  doubt \/ text.markers = {} \/ \E m \in text.markers : m > Len(turn.final)

\* A mutant: a flag hides the redaction.
VerdictFlagFirst(text, doubt) ==
  IF Warned(text, doubt) THEN "FLAGGED_FOR_REVIEW"
  ELSE IF text.private THEN "REDACTED"
  ELSE "PASS"

Verdict(text, doubt) ==
  IF text.private THEN "REDACTED"
  ELSE IF Warned(text, doubt) THEN "FLAGGED_FOR_REVIEW"
  ELSE "PASS"

Guarded(text, doubt) ==
  IF Verdict(text, doubt) = "REDACTED" THEN [text EXCEPT !.private = FALSE] ELSE text

\* The chunks whose numbers the text cites, in their order.
Verified(text) == Picked(turn.final, text.markers \cap DOMAIN turn.final)

\* A mutant: the markers keep the numbers of what was retrieved.
ServeAsWritten(text, verdict, repaired) ==
  [kind |-> "answer", text |-> text, citations |-> Verified(text), safety |-> verdict,
   repaired |-> repaired]

\* Markers that cite nothing go, the others are numbered as the citations are.
Serve(text, verdict, repaired) ==
  [kind |-> "answer", text |-> [text EXCEPT !.markers = DOMAIN Verified(text)],
   citations |-> Verified(text), safety |-> verdict, repaired |-> repaired]

-----------------------------------------------------------------------------
(***************************************************************************)
(* The turn.                                                               *)
(***************************************************************************)
Enter(point) == stage' = point

Answer(r) ==
  /\ reply' = r
  /\ Enter("idle")
  /\ UNCHANGED <<index, turn, moved>>

\* The query is the question after the rewriting.
Ask ==
  /\ stage = "idle"
  /\ \E role \in Requester, q \in Queries :
       turn' = [role |-> role, query |-> q, lexical |-> <<>>, final |-> <<>>]
  /\ moved' = FALSE
  /\ reply' = NoReply
  /\ Enter("probe")
  /\ UNCHANGED index

\* has_indexed_documents asks for any indexed version, current or not.
SomeIndexed == \E d \in Document \ deleted : served[d] # 0

ProbeEmpty == stage = "probe" /\ ~SomeIndexed /\ Answer(Notice("empty"))

EmbeddingFails == stage = "probe" /\ SomeIndexed /\ Answer(Notice("refusal"))

Probe ==
  /\ stage = "probe" /\ SomeIndexed
  /\ Enter("lexical")
  /\ UNCHANGED <<index, turn, moved, reply>>

LexicalLeg ==
  /\ stage = "lexical"
  /\ \E hits \in Legs({c \in Chunk : Found(turn.role, c) /\ turn.query.lexical[c] > 0},
                      turn.query.lexical) :
       turn' = [turn EXCEPT !.lexical = hits]
  /\ Enter("vector")
  /\ UNCHANGED <<index, moved, reply>>

\* With the last hits the ranking and the confidence are settled.  Without
\* any, the titles that the requester may not read are looked up.
VectorLeg ==
  /\ stage = "vector"
  /\ \E vector \in Legs({c \in Chunk : Found(turn.role, c)}, turn.query.similarity) :
     \E final \in Finals(turn.query, turn.lexical, vector) :
       /\ turn' = [turn EXCEPT !.final = final]
       /\ \/ final = <<>> /\ turn.role # "HR_ADMIN" /\ Enter("restricted")
          \/ final = <<>> /\ turn.role = "HR_ADMIN" /\ Enter("refuse")
          \/ /\ final # <<>>
             /\ Enter(IF IsLow(turn.query, final, turn.lexical, vector) THEN "refuse" ELSE "write")
  /\ UNCHANGED <<index, moved, reply>>

Restricted(c) ==
  Indexed(c) /\ ~MayRead(turn.role, c) /\ turn.query.lexical[c] > 0

RestrictedMatches ==
  /\ stage = "restricted"
  /\ Answer(IF \E c \in Chunk : Restricted(c) THEN Notice("denied") ELSE Notice("refusal"))

Refuse == stage = "refuse" /\ Answer(Notice("refusal"))

\* The model's draft (without a model, the context) and the guard's verdict.
\* A flagged draft that cites nothing is repaired once, if the model can.
Write ==
  /\ stage = "write"
  /\ \E draft \in TextType, doubt \in BOOLEAN :
       LET text == Guarded(draft, doubt) IN
       \/ Answer(Serve(text, Verdict(draft, doubt), FALSE))
       \/ /\ Verdict(draft, doubt) = "FLAGGED_FOR_REVIEW"
          /\ ~draft.declines /\ Verified(draft) = <<>>
          /\ \E repair \in TextType, again \in BOOLEAN :
               /\ Verified(repair) # <<>>
               /\ Answer(Serve(repair, Verdict(repair, again), TRUE))

-----------------------------------------------------------------------------
(***************************************************************************)
(* What ingestion and administrators do meanwhile.                         *)
(***************************************************************************)
Changed == moved' = TRUE /\ UNCHANGED <<stage, turn, reply>>

\* A version that is indexed becomes the current one.
Publish(d) ==
  /\ d \notin deleted
  /\ \E c \in Chunk :
       /\ c.document = d /\ c.version > served[d]
       /\ served' = [served EXCEPT ![d] = c.version]
  /\ UNCHANGED <<deleted, allowed>> /\ Changed

SoftDelete(d) ==
  /\ d \notin deleted
  /\ deleted' = deleted \cup {d}
  /\ UNCHANGED <<served, allowed>> /\ Changed

\* An upload under the same title sets the roles, before it is indexed.
SetRoles(d, roles) ==
  /\ d \notin deleted /\ roles # allowed[d]
  /\ allowed' = [allowed EXCEPT ![d] = roles]
  /\ UNCHANGED <<served, deleted>> /\ Changed

InitAnswering ==
  /\ served = [d \in Document |-> 0]
  /\ deleted = {}
  /\ allowed = [d \in Document |-> {}]
  /\ stage = "idle"
  /\ turn = [role |-> "HR_ADMIN", query |-> CHOOSE q \in Queries : TRUE, lexical |-> <<>>, final |-> <<>>]
  /\ moved = FALSE
  /\ reply = NoReply

NextAnswering ==
  \/ Ask \/ ProbeEmpty \/ EmbeddingFails \/ Probe \/ LexicalLeg \/ VectorLeg
  \/ RestrictedMatches \/ Refuse \/ Write
  \/ \E d \in Document :
       Publish(d) \/ SoftDelete(d) \/ \E roles \in SUBSET Role : SetRoles(d, roles)

AnsweringSpec == InitAnswering /\ [][NextAnswering]_answeringVars

-----------------------------------------------------------------------------
\* Type invariant.  A reply is only there between two turns.
AnsweringTypeOK ==
  /\ served \in [Document -> Nat] /\ deleted \subseteq Document /\ moved \in BOOLEAN
  /\ allowed \in [Document -> SUBSET Role]
  /\ stage \in {"idle", "probe", "lexical", "vector", "restricted", "refuse", "write"}
  /\ turn \in [role : Requester, query : Queries, lexical : Seq(Chunk), final : Seq(Chunk)]
  /\ reply \in [kind : {"none", "empty", "refusal", "denied", "answer"}, text : TextType,
                citations : Seq(Chunk), safety : Verdicts, repaired : BOOLEAN]
  /\ stage # "idle" => reply = NoReply

Cited == {reply.citations[i] : i \in DOMAIN reply.citations}

\* Unless the index changed in between, an answer rests only on what the
\* requester may read now and on one version of each document; nobody is told
\* that the knowledge base is empty, or that documents are closed to them,
\* while there is something for them to read.
ServedFromIndex ==
  ~moved =>
    /\ \A c \in Cited : Found(turn.role, c)
    /\ \A c, d \in Cited : c.document = d.document => c.version = d.version
    /\ reply.kind = "empty" => \A c \in Chunk : ~Indexed(c)
    /\ reply.kind = "denied" =>
         /\ \A c \in Chunk : ~Found(turn.role, c)
         /\ \E c \in Chunk : Indexed(c) /\ ~MayRead(turn.role, c)

\* The markers of an answer count its citations, and each citation is a chunk
\* the model was shown.  Whatever passed the guard cites something, and a value
\* that should be redacted is only ever served in a repaired answer.
CitesWhatItSays ==
  reply.kind = "answer" =>
    /\ reply.text.markers = 1 .. Len(reply.citations)
    /\ Cited \subseteq {turn.final[i] : i \in DOMAIN turn.final}
    /\ Cardinality(Cited) = Len(reply.citations)
    /\ reply.safety = "PASS" => reply.citations # <<>>
    /\ reply.text.private => reply.repaired /\ reply.safety = "REDACTED"

\* agents/knowledge_agent/agent.py: "REDACTED (e.g. PII) -> the redacted response."
RedactedIsRedacted == reply.safety = "REDACTED" => ~reply.text.private
=============================================================================
