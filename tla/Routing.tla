------------------------------- MODULE Routing -------------------------------
(***************************************************************************)
(* Which agent answers a message (agents/supervisor): questions about the  *)
(* conversation first, then the model's choice with its two deterministic  *)
(* overrides, or the keywords when the model is silent.                    *)
(*                                                                         *)
(* A message is the set of the words of the code's lists that occur in it  *)
(* as substrings; one or two words stand for each way in which the lists   *)
(* overlap.                                                                *)
(***************************************************************************)
EXTENDS Naturals, FiniteSets, FiniteSetsExt

CONSTANT MaxWords   (* bound on the words of a message *)

ASSUME RoutingAssumption == MaxWords \in Nat

VARIABLE question   (* the message of the turn *)

Policy == {"policy", "entitled"}

TransactionalOverride == {"balance", "request"}

Definition == {"what is", "how does"}

DefinitionGuard == {"my", "balance", "request", "apply", "get"}

LeaveSubject == {"leave", "holidays"}

TransactionalFraming == {"my", "balance", "request", "apply", "show"}

LeaveKeywords == {"leave", "holidays", "team calendar"}

RecruitmentKeywords == {"vacancy", "apply"}

HistoryKeywords == {"summary", "chat"}

HistoryAnchors == {"above"}

HistoryQuestions == {"what is", "which"}

LeaveHistory == {"leave", "apply", "request", "balance"}

HRKeywords == {"leave", "holidays", "team calendar", "vacancy", "apply", "policy"}

Greetings == {"hello"}

Farewells == {"bye"}

\* The word "lunch" stands for all that no list mentions.
Word ==
  UNION {Policy, Definition, DefinitionGuard, LeaveKeywords, TransactionalFraming,
         RecruitmentKeywords, HistoryKeywords, HistoryAnchors, HistoryQuestions,
         Greetings, Farewells, {"lunch"}}

Routes == {"knowledge", "leave", "recruitment", "clarify"}

Nodes == Routes \cup {"recap"}

Mentions(message, words) == message \cap words # {}
-----------------------------------------------------------------------------
IsHistoryQuestion(message) ==
  \/ Mentions(message, HistoryKeywords)
  \/ Mentions(message, HistoryAnchors) /\ Mentions(message, HistoryQuestions)

RouteHistoryQuestion(message) == IF Mentions(message, LeaveHistory) THEN "leave" ELSE "recap"

IsPolicyQuestion(message) ==
  ~Mentions(message, TransactionalOverride) /\ Mentions(message, Policy)

IsDefinitionQuestion(message) ==
  ~Mentions(message, DefinitionGuard) /\ Mentions(message, Definition)

IsTransactionalAsk(message) ==
  Mentions(message, LeaveSubject) /\ Mentions(message, TransactionalFraming)

HeuristicRoute(message) ==
  CASE IsPolicyQuestion(message)              -> "knowledge"
    [] ~IsPolicyQuestion(message) /\ Mentions(message, LeaveKeywords) ->
         IF IsDefinitionQuestion(message) THEN "knowledge" ELSE "leave"
    [] ~IsPolicyQuestion(message) /\ ~Mentions(message, LeaveKeywords) ->
         IF Mentions(message, RecruitmentKeywords) THEN "recruitment" ELSE "knowledge"

\* A mutant: policy wording does not keep a question with the documents.
OverrideWithoutPolicy(message, route) ==
  CASE route = "leave" /\ (IsPolicyQuestion(message) \/ IsDefinitionQuestion(message)) -> "knowledge"
    [] route = "knowledge" /\ IsTransactionalAsk(message) -> "leave"
    [] OTHER -> route

Override(message, route) ==
  CASE route = "leave" /\ (IsPolicyQuestion(message) \/ IsDefinitionQuestion(message)) -> "knowledge"
    [] route = "knowledge" /\ ~IsPolicyQuestion(message) /\ IsTransactionalAsk(message) -> "leave"
    [] OTHER -> route

\* llm: there is a model and it replies; reply is the route it named, "none" if
\* it named none.  The overrides apply only after a reply.
RouteIntent(message, llm, reply) ==
  IF ~llm THEN HeuristicRoute(message)
  ELSE Override(message, IF reply = "none" THEN HeuristicRoute(message) ELSE reply)

Route(message, llm, reply) ==
  IF IsHistoryQuestion(message) THEN RouteHistoryQuestion(message)
  ELSE RouteIntent(message, llm, reply)

\* What the clarify node says.
Clarification(message) ==
  CASE message # {} /\ message \subseteq Greetings -> "greeting"
    [] message # {} /\ message \subseteq Farewells -> "farewell"
    [] ~Mentions(message, Greetings \cup Farewells) \/ Cardinality(message) > 1 ->
         IF Mentions(message, HRKeywords) THEN "ambiguous" ELSE "off_topic"

-----------------------------------------------------------------------------
InitRouting == question = {}

Send ==
  /\ question = {}
  /\ question' \in UNION {kSubset(n, Word) : n \in 1 .. MaxWords}

RoutingSpec == InitRouting /\ [][Send]_question

-----------------------------------------------------------------------------
\* The wording decides: a policy question, or a question that is either about
\* a definition or transactional, but not both.  (One that is both goes to the
\* agent that the model did not name.)
Clear(message) ==
  \/ IsPolicyQuestion(message)
  \/ ~(IsDefinitionQuestion(message) <=> IsTransactionalAsk(message))

\* Where the wording of a question about leave decides between the documents
\* and the leave agent, the model's choice between them does not matter and the
\* keyword fallback agrees with it.  What the keywords give to the leave or the
\* recruitment agent is never declined as off topic, when the model asks for a
\* clarification instead.
BoundaryAgrees ==
  /\ Mentions(question, LeaveSubject) /\ Clear(question) =>
       \A reply \in {"knowledge", "leave", "none"} :
         RouteIntent(question, TRUE, reply) = HeuristicRoute(question)
  /\ HeuristicRoute(question) \in {"leave", "recruitment"} => Clarification(question) # "off_topic"
=============================================================================
