--------------------------- MODULE ComponentProofs ---------------------------
(***************************************************************************)
(* Proofs about the parts of the system that share no state with another   *)
(* one: the routing of messages, the dialogue of the leave assistant, the  *)
(* company holidays, the outbox, the answers from the documents, the       *)
(* recruitment assistant, the settings and the screening of resumes.  Each *)
(* section speaks of the specification of one part.                        *)
(***************************************************************************)
EXTENDS Routing, LeaveDialogue, CompanyHolidays, OutboxWorker, Answering, RecruitmentAssistant,
        Settings, Screening, FiniteLemmas, FiniteSetTheorems, SequenceTheorems, TLAPS

-----------------------------------------------------------------------------
(* The routing of messages, however many of the lists' words a message has *)
(* (the runs try the messages of up to MaxWords words).                    *)

\* What the finiteness of the keyword lists rests on.
LEMMA FiveAreFinite ==
  ASSUME NEW a, NEW b, NEW c, NEW d, NEW e
  PROVE  IsFiniteSet({a, b, c, d, e})
<1>1. /\ IsFiniteSet({a}) /\ IsFiniteSet({b}) /\ IsFiniteSet({c})
      /\ IsFiniteSet({d}) /\ IsFiniteSet({e})
  BY FS_Singleton
<1>2. IsFiniteSet({a} \cup {b})
  BY <1>1, FS_Union
<1>3. IsFiniteSet(({a} \cup {b}) \cup {c})
  BY <1>1, <1>2, FS_Union
<1>4. IsFiniteSet((({a} \cup {b}) \cup {c}) \cup {d})
  BY <1>1, <1>3, FS_Union
<1>5. IsFiniteSet(((({a} \cup {b}) \cup {c}) \cup {d}) \cup {e})
  BY <1>1, <1>4, FS_Union
<1>6. ((({a} \cup {b}) \cup {c}) \cup {d}) \cup {e} = {a, b, c, d, e}
  OBVIOUS
<1> QED BY <1>5, <1>6

\* There are finitely many words, hence every message is finite.
LEMMA WordsFinite == IsFiniteSet(Word)
<1> DEFINE Some == {"policy", "entitled", "what is", "how does", "my"}
           Others == {"balance", "request", "apply", "get", "leave"}
           More == {"holidays", "team calendar", "show", "vacancy", "summary"}
           Bits == {"chat", "above", "which", "hello", "bye"}
           Lunch == {"lunch", "lunch", "lunch", "lunch", "lunch"}
<1>1. /\ IsFiniteSet(Some) /\ IsFiniteSet(Others) /\ IsFiniteSet(More)
      /\ IsFiniteSet(Bits) /\ IsFiniteSet(Lunch)
  BY FiveAreFinite
<1>2. IsFiniteSet((((Some \cup Others) \cup More) \cup Bits) \cup Lunch)
  <2> HIDE DEF Some, Others, More, Bits, Lunch
  <2>1. IsFiniteSet(Some \cup Others)
    BY <1>1, FS_Union
  <2>2. IsFiniteSet((Some \cup Others) \cup More)
    BY <1>1, <2>1, FS_Union
  <2>3. IsFiniteSet(((Some \cup Others) \cup More) \cup Bits)
    BY <1>1, <2>2, FS_Union
  <2> QED BY <1>1, <2>3, FS_Union
<1>3. Word \subseteq (((Some \cup Others) \cup More) \cup Bits) \cup Lunch
  BY DEF Word, Policy, Definition, DefinitionGuard, LeaveKeywords, TransactionalFraming,
         RecruitmentKeywords, HistoryKeywords, HistoryAnchors, HistoryQuestions, Greetings, Farewells
<1> QED BY <1>2, <1>3, FS_Subset

-----------------------------------------------------------------------------
\* Where the wording decides, every reply of the model ends at the agent that
\* the keywords name.
LEMMA WordingDecides ==
  ASSUME NEW message, Mentions(message, LeaveSubject), Clear(message),
         NEW answer \in {"knowledge", "leave", "none"}
  PROVE  RouteIntent(message, TRUE, answer) = HeuristicRoute(message)
<1>1. Mentions(message, LeaveKeywords)
  BY DEF Mentions, LeaveSubject, LeaveKeywords
<1>2. HeuristicRoute(message) =
        IF IsPolicyQuestion(message) \/ IsDefinitionQuestion(message) THEN "knowledge" ELSE "leave"
  BY <1>1 DEF HeuristicRoute
<1>3. ~IsPolicyQuestion(message) => (IsDefinitionQuestion(message) <=> ~IsTransactionalAsk(message))
  BY DEF Clear
<1> QED BY <1>2, <1>3 DEF RouteIntent, Override

\* A message that the keywords give to an agent has one of the words by which
\* the clarification knows it as one about human resources.
LEMMA AgentsWordsAreKnown ==
  ASSUME NEW message \in SUBSET Word, HeuristicRoute(message) \in {"leave", "recruitment"}
  PROVE  Clarification(message) # "off_topic"
<1>1. Mentions(message, LeaveKeywords) \/ Mentions(message, RecruitmentKeywords)
  BY DEF HeuristicRoute
<1>2. PICK word \in message : word \in HRKeywords
  BY <1>1 DEF Mentions, LeaveKeywords, RecruitmentKeywords, HRKeywords
<1>3. word \notin Greetings \cup Farewells
  BY <1>2 DEF HRKeywords, Greetings, Farewells
<1>4. Mentions(message, HRKeywords)
  BY <1>2 DEF Mentions
<1>5. ~(message \subseteq Greetings) /\ ~(message \subseteq Farewells)
  BY <1>3
<1>6. ~Mentions(message, Greetings \cup Farewells) \/ Cardinality(message) > 1
  <2>1. SUFFICES ASSUME NEW other \in message, other \in Greetings \cup Farewells
                 PROVE  Cardinality(message) > 1
    BY DEF Mentions
  <2>2. word # other
    BY <1>3, <2>1
  <2>3. IsFiniteSet(message)
    BY WordsFinite, FS_Subset
  <2>4. Cardinality({word, other}) = 2
    <3>1. IsFiniteSet({word}) /\ Cardinality({word}) = 1
      BY FS_Singleton
    <3>2. Cardinality({word} \cup {other}) = 1 + 1
      BY <2>2, <3>1, FS_AddElement
    <3>3. {word} \cup {other} = {word, other}
      OBVIOUS
    <3> QED BY <3>2, <3>3
  <2>5. {word, other} \subseteq message
    BY <2>1
  <2>6. Cardinality({word, other}) <= Cardinality(message)
    BY <2>3, <2>5, FS_Subset
  <2>7. Cardinality(message) \in Nat
    BY <2>3, FS_CardinalityType
  <2> QED BY <2>4, <2>6, <2>7
<1> QED BY <1>4, <1>5, <1>6 DEF Clarification

-----------------------------------------------------------------------------
\* A message consists of words.
LEMMA MessagesAreWords == RoutingSpec => [](question \subseteq Word)
<1>1. InitRouting => question \subseteq Word
  BY DEF InitRouting
<1>2. question \subseteq Word /\ [Send]_question => (question \subseteq Word)'
  BY DEF Send, kSubset
<1> QED BY <1>1, <1>2, PTL DEF RoutingSpec

\* However long a message is: where its wording decides between the documents
\* and the leave agent, the model cannot send it elsewhere, and what the
\* keywords give to an agent is never declined as off topic (route_intent,
\* clarify_node).
THEOREM WordingPrevails == RoutingSpec => []BoundaryAgrees
<1>1. question \subseteq Word => BoundaryAgrees
  BY WordingDecides, AgentsWordsAreKnown DEF BoundaryAgrees
<1> QED BY <1>1, MessagesAreWords, PTL

-----------------------------------------------------------------------------
(* The dialogue of the leave assistant, for all messages, drafts and       *)
(* answers of the model: what is executed was shown.  ConfirmedAsShown     *)
(* speaks of the turn that executes a write; it rests on what holds of a   *)
(* staged write at all times before: as long as its time is not up, it is  *)
(* the last summary shown.                                                 *)

StagedIsShown ==
  pending # None /\ ~expired => shown = pending /\ Preflight(pending)

ShownInv == StagedIsShown /\ ConfirmedAsShown

\* A conversation begins with nothing staged.
LEMMA InitShown == InitDialogue => ShownInv
BY DEF InitDialogue, ShownInv, StagedIsShown, ConfirmedAsShown

-----------------------------------------------------------------------------
\* Every handler but the confirmation leaves the staged write with its
\* summary, drops it, or replaces both.
KeptOrDropped ==
  \/ UNCHANGED <<pending, shown, expired>>
  \/ pending' = None
  \/ \E write : Stage(write)

\* Such a handler executes nothing, and what it stages it shows.
LEMMA KeptPreserves ==
  ASSUME ShownInv, KeptOrDropped, UNCHANGED role, executed' = None
  PROVE  ShownInv'
<1>1. CASE UNCHANGED <<pending, shown, expired>>
  BY <1>1 DEF ShownInv, StagedIsShown, ConfirmedAsShown, Preflight
<1>2. CASE pending' = None
  BY <1>2 DEF ShownInv, StagedIsShown, ConfirmedAsShown
<1>3. CASE \E write : Stage(write)
  BY <1>3 DEF ShownInv, StagedIsShown, ConfirmedAsShown, Stage, Preflight
<1> QED BY <1>1, <1>2, <1>3 DEF KeptOrDropped

\* A confirmation executes what is staged, or nothing.
LEMMA ConfirmPreserves ==
  ASSUME NEW m \in Message, NEW write \in Writes, ShownInv, Confirm(m, write), UNCHANGED role
  PROVE  ShownInv'
<1>1. StagedIsShown'
  BY DEF Confirm, StagedIsShown
<1>2. ASSUME executed' # None
      PROVE  executed' = shown' /\ Preflight(executed)'
  <2>1. executed' = write /\ Matches(write) /\ ~expired
    BY <1>2 DEF Confirm
  <2>2. shown = write /\ Preflight(write)
    BY <2>1 DEF Matches, ShownInv, StagedIsShown
  <2> QED BY <2>1, <2>2 DEF Confirm, Preflight
<1> QED BY <1>1, <1>2 DEF ShownInv, ConfirmedAsShown

\* Whatever the model makes of a message.
LEMMA ModelPreserves ==
  ASSUME NEW m \in Message, ShownInv, Model(m), UNCHANGED role
  PROVE  ShownInv'
<1>1. CASE Reply(m) /\ executed' = None
  BY <1>1, KeptPreserves DEF Reply, KeptOrDropped
<1>2. CASE Read(m) /\ executed' = None
  BY <1>2, KeptPreserves DEF Read, KeptOrDropped
<1>3. ASSUME NEW write \in Writes, ModelStage(m, write), executed' = None
      PROVE  ShownInv'
  BY <1>3, KeptPreserves DEF ModelStage, Refused, KeptOrDropped
<1>4. ASSUME NEW write \in Writes, Confirm(m, write)
      PROVE  ShownInv'
  BY <1>4, ConfirmPreserves
<1> QED BY <1>1, <1>2, <1>3, <1>4 DEF Model

\* A turn, by the handler that takes it.
LEMMA TurnPreserves ==
  ASSUME NEW m \in Message, ShownInv, Turn(m)
  PROVE  ShownInv'
<1>1. UNCHANGED role
  BY DEF Turn
<1>2. CASE Say /\ executed' = None
  BY <1>1, <1>2, KeptPreserves DEF Say, KeptOrDropped
<1>3. CASE Drop /\ executed' = None
  BY <1>1, <1>3, KeptPreserves DEF Drop, Supersede, KeptOrDropped
<1>4. CASE GrowDraft(m) /\ executed' = None
  BY <1>1, <1>4, KeptPreserves DEF GrowDraft, Supersede, KeptOrDropped
<1>5. CASE Pivot(m) /\ executed' = None
  BY <1>1, <1>5, KeptPreserves DEF Pivot, Supersede, KeptOrDropped
<1>6. CASE Model(m)
  BY <1>1, <1>6, ModelPreserves
<1> QED BY <1>2, <1>3, <1>4, <1>5, <1>6 DEF Turn

\* The user's turns, and time that passes between them.
LEMMA StepShown == ShownInv /\ [NextDialogue]_dialogue => ShownInv'
<1> SUFFICES ASSUME ShownInv, [NextDialogue]_dialogue PROVE ShownInv'
  OBVIOUS
<1>1. CASE \E m \in Message : Turn(m)
  BY <1>1, TurnPreserves
<1>2. CASE Expire
  BY <1>2 DEF Expire, ShownInv, StagedIsShown, ConfirmedAsShown
<1>3. CASE Restore
  BY <1>3 DEF Restore, ShownInv, StagedIsShown, ConfirmedAsShown, Preflight
<1>4. CASE Midnight
  BY <1>4, KeptPreserves DEF Midnight, KeptOrDropped
<1>5. CASE UNCHANGED dialogue
  BY <1>5 DEF dialogue, ShownInv, StagedIsShown, ConfirmedAsShown, Preflight
<1> QED BY <1>1, <1>2, <1>3, <1>4, <1>5 DEF NextDialogue

-----------------------------------------------------------------------------
\* Whatever is said in whatever order, on whatever days, and whatever the
\* model answers: a write that a turn executes is the one the last summary
\* showed, and the role of the user and its dates allow it (handle_turn,
\* _handle_confirmed_write).
THEOREM ExecutedWasShown == DialogueSpec => []ConfirmedAsShown
<1>1. DialogueSpec => []ShownInv
  BY InitShown, StepShown, PTL DEF DialogueSpec
<1>2. ShownInv => ConfirmedAsShown
  BY DEF ShownInv
<1> QED BY <1>1, <1>2, PTL

-----------------------------------------------------------------------------
\* The writes that the assistant may stage, and the drafts it keeps.
SubmitType == [tool : {"submit"}, type : LeaveType, from : Nat, to : Nat, half : HalfDay]

WriteType ==
  {Cancel(m.number) : m \in Message}
    \cup {Decide(m.number, approve) : m \in Message, approve \in BOOLEAN}
    \cup SubmitType \cup {None}

DayType == Nat \cup {NoDay}

DraftType == [type : LeaveType \cup {None}, from : DayType, to : DayType, half : HalfDay]

LEMMA DialogueTypeIs ==
  DialogueTypeOK <=>
    /\ role \in {"EMPLOYEE", "HR_ADMIN"} /\ today \in 0 .. LastDay
    /\ draft \in DraftType \cup {None}
    /\ pending \in WriteType /\ shown \in WriteType /\ executed \in WriteType
    /\ expired \in BOOLEAN
BY DEF DialogueTypeOK, WriteType, SubmitType, DraftType, DayType

\* The days that a message names.
LEMMA PhraseDays ==
  ASSUME NEW p \in Phrases, NEW start \in Nat, NEW day \in Nat
  PROVE  ResolveStart(p, day) \in DayType /\ ResolveEnd(p, start, day) \in DayType
<1> DEFINE DayKinds == {"date", "offset", "weekday", "next weekday"}
<1>1. p.kind \in {"none", "date", "offset", "weekday", "next weekday"} /\ p.number \in Nat
  <2> HIDE DEF DayKinds
  <2>1. p \in [kind : DayKinds, number : Nat] \/ p \in [kind : {"none"}, number : {0}]
    BY DEF Phrases, DayKinds
  <2>2. (p.kind \in DayKinds \/ p.kind = "none") /\ p.number \in Nat
    BY <2>1
  <2> QED BY <2>2 DEF DayKinds
<1> DEFINE n == p.number
<1> HIDE DEF n
<1>2. n \in Nat
  BY <1>1 DEF n
<1>3. \A x \in Int : x % 7 \in Nat
  OBVIOUS
<1>4. \A base \in Nat : Ahead(n, base) \in Nat
  <2> TAKE base \in Nat
  <2>1. n - base \in Int
    BY <1>2
  <2> DEFINE rest == (n - base) % 7
  <2>2. rest \in Nat
    BY <1>3, <2>1
  <2> HIDE DEF rest
  <2>3. base + rest \in Nat
    BY <2>2
  <2> QED BY <2>3 DEF Ahead, rest
<1>5. \A base \in Nat : NextWeek(n, base) \in Nat
  <2> TAKE base \in Nat
  <2>1. Ahead(n, base) \in Nat /\ Ahead(n, base) + 7 \in Nat
    BY <1>4
  <2> QED BY <2>1 DEF NextWeek
<1>6. n \in DayType /\ NoDay \in DayType /\ \A x \in Nat : x \in DayType
  BY <1>2 DEF DayType
<1>7. day + n \in Nat
  BY <1>2
<1>8. \A x \in Nat : NotBefore(start, x) \in DayType
  BY <1>6 DEF NotBefore
<1>9. ResolveStart(p, day) = CASE p.kind = "none"         -> NoDay
                               [] p.kind = "date"         -> n
                               [] p.kind = "offset"       -> day + n
                               [] p.kind = "weekday"      -> Ahead(n, day)
                               [] p.kind = "next weekday" -> NextWeek(n, day)
  BY DEF ResolveStart, n
<1>10. ResolveEnd(p, start, day) = CASE p.kind = "none"         -> NoDay
                                     [] p.kind = "date"         -> NotBefore(start, n)
                                     [] p.kind = "offset"       -> NotBefore(start, day + n)
                                     [] p.kind = "weekday"      -> Ahead(n, start)
                                     [] p.kind = "next weekday" -> NextWeek(n, start)
  BY DEF ResolveEnd, n
<1>11. ResolveStart(p, day) \in DayType
  BY <1>1, <1>4, <1>5, <1>6, <1>7, <1>9
<1>12. ResolveEnd(p, start, day) \in DayType
  BY <1>1, <1>2, <1>4, <1>5, <1>6, <1>7, <1>8, <1>10
<1> QED BY <1>11, <1>12

LEMMA SaidDays ==
  ASSUME NEW m \in Message, NEW day \in Nat, NEW start \in Nat
  PROVE  /\ Start(m.says, day) \in DayType
         /\ End(m.says, day) \in DayType
         /\ LaterEnd(m.says, start) \in DayType
<1>1. /\ m.says.form \in Forms /\ m.says.first \in Phrases /\ m.says.last \in Phrases
      /\ m.says.days \in Nat
  BY DialogueAssumption
<1>2. Start(m.says, day) \in DayType
  BY <1>1, PhraseDays DEF Start, DayType
<1>3. End(m.says, day) \in DayType
  <2> DEFINE s == Start(m.says, day)
  <2>1. CASE s = NoDay
    BY <2>1 DEF End, DayType
  <2>2. CASE s # NoDay
    <3>1. s \in Nat
      BY <1>2, <2>2 DEF DayType
    <3>2. m.says.form \in {"day", "single", "for", "range", "to"}
      BY <1>1, <2>2 DEF Forms, Start
    <3>3. ResolveEnd(m.says.last, s, day) \in DayType
      BY <1>1, <3>1, PhraseDays
    <3>4. s + m.says.days - 1 \in DayType
      BY <1>1, <3>1 DEF DayType, NoDay
    <3>5. End(m.says, day) = CASE m.says.form = "day"             -> NoDay
                               [] m.says.form = "single"          -> s
                               [] m.says.form = "for"             -> s + m.says.days - 1
                               [] m.says.form \in {"range", "to"} -> ResolveEnd(m.says.last, s, day)
      BY <2>2 DEF End
    <3> HIDE DEF s
    <3> QED BY <3>1, <3>2, <3>3, <3>4, <3>5 DEF DayType
  <2> QED BY <2>1, <2>2
<1>4. LaterEnd(m.says, start) \in DayType
  BY <1>1 DEF LaterEnd, DayType
<1> QED BY <1>2, <1>3, <1>4

\* What a message makes of the draft.
LEMMA DraftGrows ==
  ASSUME NEW m \in Message, today \in Nat, draft \in DraftType \cup {None}
  PROVE  /\ Halving(m) \in DraftType
         /\ Grown(m) \in DraftType
         /\ Held(m) \in DraftType \cup {None}
<1> DEFINE d == Halving(m)
           from == Start(m.says, today)
           to == End(m.says, today)
           given == DatesGiven(d, m)
<1>1. m.type \in LeaveType \cup {None} /\ m.half \in HalfDay
  BY DialogueAssumption DEF HalfDay
<1>2. from \in DayType /\ to \in DayType
  BY SaidDays
<1>3. NewDraft \in DraftType
  BY DEF NewDraft, DraftType, HalfDay, DayType
<1>4. \A old \in DraftType : Halved(old, m, from) \in DraftType
  <2> TAKE old \in DraftType
  <2> HIDE DEF from
  <2> QED BY <1>1, <1>2 DEF Halved, DraftType
<1>5. d \in DraftType
  BY <1>3, <1>4 DEF Halving
<1>6. Held(m) \in DraftType \cup {None}
  BY <1>5 DEF Held
<1> HIDE DEF d
<1>7. d.type \in LeaveType \cup {None} /\ d.from \in DayType /\ d.to \in DayType /\ d.half \in HalfDay
  BY <1>5 DEF DraftType
<1>8. given.from \in DayType /\ given.to \in DayType
  <2>1. d.from # NoDay => LaterEnd(m.says, d.from) \in DayType
    <3>1. d.from # NoDay => d.from \in Nat
      BY <1>7 DEF DayType
    <3> QED BY <3>1, SaidDays
  <2>2. given = IF draft = None \/ d.from = NoDay \/ to # NoDay THEN [from |-> from, to |-> to]
                ELSE IF from = NoDay THEN [from |-> NoDay, to |-> LaterEnd(m.says, d.from)]
                ELSE IF from >= d.from THEN [from |-> NoDay, to |-> from]
                ELSE [from |-> from, to |-> NoDay]
    BY DEF DatesGiven
  <2>3. NoDay \in DayType
    BY DEF DayType
  <2> HIDE DEF given, from, to
  <2> QED BY <1>2, <2>1, <2>2, <2>3
<1>9. Grown(m) = [type |-> IF d.type = None THEN m.type ELSE d.type,
                  from |-> IF given.from = NoDay THEN d.from ELSE given.from,
                  to   |-> IF given.to = NoDay THEN d.to ELSE given.to,
                  half |-> d.half]
  BY DEF Grown, d
<1> HIDE DEF given
<1>10. Grown(m) \in DraftType
  BY <1>1, <1>7, <1>8, <1>9 DEF DraftType
<1> QED BY <1>5, <1>6, <1>10 DEF d

\* What is staged of a draft that is complete.
LEMMA SubmitIs ==
  ASSUME NEW d, d.from \in Nat, d.to \in DayType, d.half \in HalfDay, d.type \in LeaveType
  PROVE  Submit(d) \in WriteType
<1> DEFINE to == IF d.to = NoDay THEN d.from ELSE d.to
<1>1. to \in Nat
  BY DEF DayType
<1>2. Submit(d) = [tool |-> "submit", type |-> d.type, from |-> d.from, half |-> d.half, to |-> to]
  BY DEF Submit
<1> HIDE DEF to
<1>3. Submit(d) \in SubmitType
  BY <1>1, <1>2 DEF SubmitType
<1> QED BY <1>3 DEF WriteType

LEMMA CompleteIs ==
  ASSUME NEW d \in DraftType, IsComplete(d), Preflight(Submit(d))
  PROVE  Submit(d) \in WriteType
<1>1. /\ d.type \in LeaveType \cup {None} /\ d.from \in DayType /\ d.to \in DayType /\ d.half \in HalfDay
  BY DEF DraftType
<1>2. d.type \in LeaveType /\ d.from \in Nat
  BY <1>1 DEF IsComplete, DayType
<1> QED BY <1>1, <1>2, SubmitIs

\* What the model may stage.
LEMMA WritesAre ==
  ASSUME NEW write \in Writes, Preflight(write)
  PROVE  write \in WriteType
<1>1. ASSUME NEW s \in Submission, write = Submit(s) PROVE write \in WriteType
  <2>1. s.from \in Nat /\ s.to \in Nat /\ s.half \in HalfDay
    BY DialogueAssumption DEF HalfDay
  <2>2. write.tool = "submit" /\ write.type = s.type
    BY <1>1 DEF Submit
  <2>3. s.type \in LeaveType
    BY <2>2 DEF Preflight
  <2> QED BY <1>1, <2>1, <2>3, SubmitIs DEF DayType
<1>2. ASSUME NEW n \in {m.number : m \in Message}, write = Cancel(n) PROVE write \in WriteType
  BY <1>2 DEF WriteType
<1>3. ASSUME NEW n \in {m.number : m \in Message}, NEW approve \in BOOLEAN, write = Decide(n, approve)
      PROVE  write \in WriteType
  BY <1>3 DEF WriteType
<1> QED BY <1>1, <1>2, <1>3 DEF Writes

LEMMA MeantIs ==
  ASSUME NEW m \in Message
  PROVE  Meant(m) \in WriteType
<1> DEFINE yes == Says(m, {"approve"})
<1>1. yes \in BOOLEAN
  BY DEF Says
<1> HIDE DEF yes
<1>2. Cancel(m.number) \in WriteType /\ Decide(m.number, yes) \in WriteType
  BY <1>1 DEF WriteType
<1> QED BY <1>2 DEF Meant, yes


\* The draft, and what is staged, shown or executed, after a handler.
LEMMA DialogueMoves ==
  ASSUME DialogueTypeOK, UNCHANGED <<role, today>>, draft' \in DraftType \cup {None},
         \/ UNCHANGED <<pending, shown, expired>>
         \/ pending' = None /\ shown' \in {shown, None} /\ UNCHANGED expired
         \/ \E write \in WriteType : Stage(write),
         executed' \in {pending, None}
  PROVE  DialogueTypeOK'
<1>1. None \in WriteType
  BY DEF WriteType
<1>2. /\ role \in {"EMPLOYEE", "HR_ADMIN"} /\ today \in 0 .. LastDay
      /\ pending \in WriteType /\ shown \in WriteType /\ expired \in BOOLEAN
  BY DialogueTypeIs
<1>3. pending' \in WriteType /\ shown' \in WriteType /\ expired' \in BOOLEAN
  BY <1>1, <1>2 DEF Stage
<1>4. executed' \in WriteType
  BY <1>1, <1>2
<1>5. /\ role' \in {"EMPLOYEE", "HR_ADMIN"} /\ today' \in 0 .. LastDay
      /\ draft' \in DraftType \cup {None}
      /\ pending' \in WriteType /\ shown' \in WriteType /\ executed' \in WriteType
      /\ expired' \in BOOLEAN
  BY <1>2, <1>3, <1>4
<1> QED BY <1>5 DEF DialogueTypeOK, WriteType, SubmitType, DraftType, DayType

LEMMA ModelTypes ==
  ASSUME NEW m \in Message, DialogueTypeOK, Model(m), UNCHANGED <<role, today>>
  PROVE  DialogueTypeOK'
<1>1. today \in Nat /\ draft \in DraftType \cup {None}
  BY DialogueTypeIs, DialogueAssumption
<1>2. Held(m) \in DraftType \cup {None}
  BY <1>1, DraftGrows
<1>3. CASE Reply(m) /\ executed' = None
  BY <1>2, <1>3, DialogueMoves DEF Reply
<1>4. CASE Read(m) /\ executed' = None
  <2>1. draft' \in DraftType
    <3>1. PICK t \in LeaveType \cup {None} : draft' = [NewDraft EXCEPT !.type = t]
      BY <1>4 DEF Read
    <3> QED BY <3>1 DEF NewDraft, DraftType, DayType, HalfDay
  <2> QED BY <1>4, <2>1, DialogueMoves DEF Read
<1>5. ASSUME NEW write \in Writes, ModelStage(m, write), executed' = None
      PROVE  DialogueTypeOK'
  <2>1. CASE /\ write.tool = "submit" /\ Held(m) # None /\ IsComplete(Held(m))
             /\ draft' = None /\ (Refused \/ Stage(Submit(Held(m))))
    <3>1. Stage(Submit(Held(m))) => Submit(Held(m)) \in WriteType
      BY <1>2, <2>1, CompleteIs DEF Stage
    <3> QED BY <1>5, <2>1, <3>1, DialogueMoves DEF Refused
  <2>2. CASE draft' = Held(m) /\ (Refused \/ Stage(write))
    <3>1. Stage(write) => write \in WriteType
      BY WritesAre DEF Stage
    <3> QED BY <1>2, <1>5, <2>2, <3>1, DialogueMoves DEF Refused
  <2> QED BY <1>5, <2>1, <2>2 DEF ModelStage
<1>6. ASSUME NEW write \in Writes, Confirm(m, write)
      PROVE  DialogueTypeOK'
  <2>1. executed' \in {pending, None}
    BY <1>6 DEF Confirm, Matches
  <2> QED BY <1>2, <1>6, <2>1, DialogueMoves DEF Confirm
<1> QED BY <1>3, <1>4, <1>5, <1>6 DEF Model

LEMMA TurnTypes ==
  ASSUME NEW m \in Message, DialogueTypeOK, Turn(m)
  PROVE  DialogueTypeOK'
<1>1. today \in Nat /\ draft \in DraftType \cup {None}
  BY DialogueTypeIs, DialogueAssumption
<1>2. Grown(m) \in DraftType
  BY <1>1, DraftGrows
<1>3. UNCHANGED <<role, today>>
  BY DEF Turn
<1>4. CASE Say /\ executed' = None
  BY <1>1, <1>3, <1>4, DialogueMoves DEF Say
<1>5. CASE Drop /\ executed' = None
  BY <1>3, <1>5, DialogueMoves DEF Drop, Supersede
<1>6. CASE GrowDraft(m) /\ executed' = None
  <2>1. CASE draft' = Grown(m) /\ Supersede
    BY <1>2, <1>3, <1>6, <2>1, DialogueMoves DEF Supersede
  <2>2. CASE IsComplete(Grown(m)) /\ draft' = None /\ Stage(Submit(Grown(m)))
    <3>1. Submit(Grown(m)) \in WriteType
      BY <1>2, <2>2, CompleteIs DEF Stage
    <3> QED BY <1>3, <1>6, <2>2, <3>1, DialogueMoves
  <2> QED BY <1>6, <2>1, <2>2 DEF GrowDraft
<1>7. CASE Pivot(m) /\ executed' = None
  <2>1. CASE Supersede
    BY <1>3, <1>7, <2>1, DialogueMoves DEF Pivot, Supersede
  <2>2. CASE Stage(Meant(m))
    BY <1>3, <1>7, <2>2, MeantIs, DialogueMoves DEF Pivot
  <2> QED BY <1>7, <2>1, <2>2 DEF Pivot
<1>8. CASE Model(m)
  BY <1>3, <1>8, ModelTypes
<1> QED BY <1>4, <1>5, <1>6, <1>7, <1>8 DEF Turn

LEMMA DialogueTypeInitially == InitDialogue => DialogueTypeOK
<1>1. None \in WriteType
  BY DEF WriteType
<1>2. 0 \in 0 .. LastDay
  BY DialogueAssumption
<1> QED BY <1>1, <1>2, DialogueTypeIs DEF InitDialogue

LEMMA DialogueTypeSteps ==
  DialogueTypeOK /\ [NextDialogue]_dialogue => DialogueTypeOK'
<1> SUFFICES ASSUME DialogueTypeOK, [NextDialogue]_dialogue PROVE DialogueTypeOK'
  OBVIOUS
<1>1. CASE \E m \in Message : Turn(m)
  BY <1>1, TurnTypes
<1>2. /\ role \in {"EMPLOYEE", "HR_ADMIN"} /\ today \in 0 .. LastDay
      /\ draft \in DraftType \cup {None}
      /\ pending \in WriteType /\ shown \in WriteType /\ executed \in WriteType
      /\ expired \in BOOLEAN /\ None \in WriteType
  BY DialogueTypeIs DEF WriteType
<1>3. CASE Expire \/ Restore \/ Midnight \/ UNCHANGED dialogue
  <2>1. /\ role' \in {"EMPLOYEE", "HR_ADMIN"} /\ today' \in 0 .. LastDay
        /\ draft' \in DraftType \cup {None}
        /\ pending' \in WriteType /\ shown' \in WriteType /\ executed' \in WriteType
        /\ expired' \in BOOLEAN
    <3>1. CASE Expire
      BY <1>2, <3>1 DEF Expire
    <3>2. CASE Restore
      BY <1>2, <3>2 DEF Restore
    <3>3. CASE Midnight
      BY <1>2, <3>3, DialogueAssumption DEF Midnight
    <3>4. CASE UNCHANGED dialogue
      BY <1>2, <3>4 DEF dialogue
    <3> QED BY <1>3, <3>1, <3>2, <3>3, <3>4
  <2> QED BY <2>1 DEF DialogueTypeOK, WriteType, SubmitType, DraftType, DayType
<1> QED BY <1>1, <1>3 DEF NextDialogue

\* Whatever is said on whatever days: what is staged, shown or executed names a
\* request of a message or a span of days, and a draft names days or none.
THEOREM DialogueType == DialogueSpec => []DialogueTypeOK
BY DialogueTypeInitially, DialogueTypeSteps, PTL DEF DialogueSpec

-----------------------------------------------------------------------------
(* Company holidays.                                                       *)

HolidaysOK == holidays \subseteq HolidayType

\* A date is the first day of its year and the days since.
LEMMA DayOfYear ==
  ASSUME NEW d \in Nat
  PROVE  \E q, r \in Nat : /\ d = q * YearLength + r
                           /\ YearOf(d) = q /\ d % YearLength = r
<1>1. \A L \in Nat \ {0} : \E q, r \in Nat : d = q * L + r /\ q = d \div L /\ r = d % L
  OBVIOUS
<1> QED BY <1>1, YearLengthAssumption DEF YearOf

\* A recurring holiday projected on the year of a date falls on that date
\* exactly when the two are the same day of their years.
LEMMA AnniversaryIs ==
  ASSUME NEW h \in HolidayType, NEW d \in Nat
  PROVE  Anniversary(h, YearOf(d)) = d <=> h.date % YearLength = d % YearLength
<1>1. PICK q, r \in Nat : d = q * YearLength + r /\ YearOf(d) = q /\ d % YearLength = r
  BY DayOfYear
<1>2. PICK m \in Nat : h.date % YearLength = m
  BY YearLengthAssumption DEF HolidayType
<1>3. Anniversary(h, YearOf(d)) = q * YearLength + m
  BY <1>1, <1>2 DEF Anniversary
<1>4. q * YearLength \in Nat
  BY YearLengthAssumption
<1> QED BY <1>1, <1>2, <1>3, <1>4

\* Projected on another year it falls in that year.
LEMMA AnniversaryYear ==
  ASSUME NEW h \in HolidayType, NEW y \in Nat
  PROVE  Anniversary(h, y) \in Nat /\ YearOf(Anniversary(h, y)) = y
<1>1. PICK m \in 0 .. YearLength - 1 : h.date % YearLength = m
  BY YearLengthAssumption DEF HolidayType
<1>2. Anniversary(h, y) = y * YearLength + m
  BY <1>1 DEF Anniversary
<1>3. \A L \in Nat \ {0} : \A d, q \in Nat, r \in 0 .. L - 1 : d = q * L + r => d \div L = q
  OBVIOUS
<1>4. y * YearLength + m \in Nat /\ YearLength \in Nat \ {0}
  BY YearLengthAssumption
<1> QED BY <1>1, <1>2, <1>3, <1>4 DEF YearOf

\* The dates of a span lie in the years it touches.
LEMMA YearGrows ==
  ASSUME NEW a \in Nat, NEW b \in Nat, a <= b
  PROVE  YearOf(a) \in Nat /\ YearOf(b) \in Nat /\ YearOf(a) <= YearOf(b)
<1>1. \A L \in Nat \ {0} : a \div L <= b \div L /\ a \div L \in Nat /\ b \div L \in Nat
  OBVIOUS
<1> QED BY <1>1, YearLengthAssumption DEF YearOf

\* A date of a span is priced as a holiday exactly when the table closes it.
LEMMA HolidayOrNot ==
  ASSUME HolidaysOK, NEW from \in Nat, NEW to \in Nat, NEW d \in from .. to
  PROVE  d \in HolidayDates(holidays, Whole(from, to))
           <=> \E h \in holidays :
                 h.date = d \/ (h.yearly /\ h.date % YearLength = d % YearLength)
<1> DEFINE s == Whole(from, to)
           loaded == UNION {ListAll(holidays, y) : y \in YearsOf(s)}
<1>1. d \in Nat /\ \A h \in holidays : h \in HolidayType /\ h.date \in Nat /\ h.yearly \in BOOLEAN
  BY DEF HolidaysOK, HolidayType
<1>2. YearsOf(s) = YearOf(from) .. YearOf(to)
  BY DEF YearsOf, Whole
<1>3. YearOf(d) \in YearsOf(s)
  BY <1>1, <1>2, YearGrows
<1>4. \A y \in YearsOf(s) : y \in Nat
  BY <1>2, <1>1, YearGrows
<1>5. \A h \in loaded : h \in holidays
  BY DEF ListAll
<1>6. \A h \in holidays : h.yearly \/ YearOf(h.date) \in YearsOf(s) => h \in loaded
  BY <1>3 DEF ListAll
<1>7. d \in HolidayDates(holidays, s)
        <=> \/ \E h \in loaded : ~h.yearly /\ h.date = d
            \/ \E h \in loaded, y \in YearsOf(s) : h.yearly /\ Anniversary(h, y) = d
  BY DEF HolidayDates
<1> HIDE DEF s, loaded
<1>8. ASSUME NEW h \in loaded, ~h.yearly, h.date = d
      PROVE  \E g \in holidays :
               g.date = d \/ (g.yearly /\ g.date % YearLength = d % YearLength)
  BY <1>5, <1>8
<1>9. ASSUME NEW h \in loaded, NEW y \in YearsOf(s), h.yearly, Anniversary(h, y) = d
      PROVE  \E g \in holidays :
               g.date = d \/ (g.yearly /\ g.date % YearLength = d % YearLength)
  <2>1. h \in holidays /\ h \in HolidayType /\ y \in Nat
    BY <1>1, <1>4, <1>5, <1>9
  <2>2. YearOf(d) = y
    BY <1>9, <2>1, AnniversaryYear
  <2>3. h.date % YearLength = d % YearLength
    BY <1>1, <1>9, <2>1, <2>2, AnniversaryIs
  <2> QED BY <1>9, <2>1, <2>3
<1>10. ASSUME NEW h \in holidays, h.yearly, h.date % YearLength = d % YearLength
       PROVE  h \in loaded /\ Anniversary(h, YearOf(d)) = d
  BY <1>1, <1>6, <1>10, AnniversaryIs
<1>11. ASSUME NEW h \in holidays, h.date = d, ~h.yearly PROVE h \in loaded
  BY <1>3, <1>6, <1>11
<1>12. ASSUME NEW h \in holidays, h.date = d, h.yearly
       PROVE  h.date % YearLength = d % YearLength
  BY <1>12
<1> QED BY <1>1, <1>3, <1>7, <1>8, <1>9, <1>10, <1>11, <1>12 DEF s

\* The table holds holidays, finitely many.
LEMMA HolidaysTyped == HolidaySpec => []HolidaysOK
<1>1. InitHolidays => HolidaysOK
  BY DEF InitHolidays, HolidaysOK
<1>2. HolidaysOK /\ [NextHolidays]_holidays => HolidaysOK'
  <2>1. ASSUME NEW d \in HolidayDay, NEW yearly \in BOOLEAN
        PROVE  [date |-> d, yearly |-> yearly] \in HolidayType
    BY WindowAssumption DEF HolidayType
  <2> QED BY <2>1 DEF HolidaysOK, NextHolidays, CreateHoliday, DeleteHoliday
<1> QED BY <1>1, <1>2, PTL DEF HolidaySpec

\* However long the year is and whatever holidays HR declares: what a span of
\* leave costs is two units for every open day of it (calculate_working_days).
THEOREM ChargeCountsOpenDays == HolidaySpec => []ChargeIsOpenDays
<1>1. HolidaysOK => ChargeIsOpenDays
  <2> SUFFICES ASSUME HolidaysOK, NEW from \in Window, NEW to \in Window, from <= to
               PROVE  Charge(from, to) = 2 * Cardinality({d \in from .. to : ~Closed(d)})
    BY DEF ChargeIsOpenDays
  <2>1. from \in Nat /\ to \in Nat
    BY WindowAssumption
  <2>2. WorkingDays(holidays, Whole(from, to))
          = {d \in from .. to :
               ~IsWeekend(d) /\ d \notin HolidayDates(holidays, Whole(from, to))}
    BY DEF WorkingDays, DaysOf, Whole
  <2>3. \A d \in from .. to :
          d \in HolidayDates(holidays, Whole(from, to)) \/ IsWeekend(d) <=> Closed(d)
    BY <2>1, HolidayOrNot DEF Closed
  <2>4. WorkingDays(holidays, Whole(from, to)) = {d \in from .. to : ~Closed(d)}
    BY <2>2, <2>3
  <2>5. ~IsHalfDay(Whole(from, to))
    BY DEF IsHalfDay, Whole
  <2> QED BY <2>4, <2>5 DEF Charge, WorkingUnits
<1> QED BY <1>1, HolidaysTyped, PTL

-----------------------------------------------------------------------------
(* The outbox, for any number of jobs, workers and attempts.  The inductive *)
(* invariant adds to OutboxTypeOK and ExclusiveJobs what each program point *)
(* of a worker knows about the row it holds: a selected row is still        *)
(* PENDING (its lock protects it), an attempt that is being handled has had *)
(* no effect yet, and a handled one has.                                    *)

\* What the row of a job accounts for.
JobRowInv(j) ==
  /\ effects[j] <= attempts[j]
  /\ attempts[j] <= MaxAttempts
  /\ status[j] \in {"unborn", "PENDING"} => attempts[j] < MaxAttempts
  /\ status[j] = "SUCCEEDED" => effects[j] > 0
  /\ status[j] = "FAILED" => attempts[j] = MaxAttempts

\* What a worker knows of the row it holds.
HoldInv(w) ==
  /\ phase[w] = "claim" => status[at[w]] = "PENDING"
  /\ phase[w] \in {"handle", "screen"} => effects[at[w]] < attempts[at[w]]
  /\ phase[w] = "handled" => effects[at[w]] > 0

OutboxInv ==
  /\ OutboxTypeOK
  /\ ExclusiveJobs
  /\ \A j \in Job : JobRowInv(j)
  /\ \A w \in Replica : HoldInv(w)

\* The steps of the outbox and of its workers, one lemma for each.
LEMMA OutboxInitially == InitOutbox => OutboxInv
BY OutboxAssumption
DEF InitOutbox, OutboxInv, OutboxTypeOK, ExclusiveJobs, JobRowInv, HoldInv, Phases, Job

\* A new job is pending and untried.
LEMMA EnqueueKeeps ==
  ASSUME OutboxInv, NEW j \in Job, Enqueue(j)
  PROVE  OutboxInv'
BY DEF Enqueue, OutboxInv, OutboxTypeOK, ExclusiveJobs, JobRowInv, HoldInv, Phases

\* A worker takes a pending job that nobody has locked.
LEMMA SelectKeeps ==
  ASSUME OutboxInv, NEW w \in Replica, Select(w)
  PROVE  OutboxInv'
<1>1. PICK j \in Claimable : at' = [at EXCEPT ![w] = j]
  BY DEF Select
<1>2. /\ j \in Job /\ j # 0 /\ status[j] = "PENDING"
      /\ \A v \in Replica : phase[v] = "claim" => at[v] # j
  BY OutboxAssumption, <1>1 DEF Claimable, Locked, Job
<1>3. OutboxTypeOK'
  BY <1>1, <1>2 DEF Select, OutboxInv, OutboxTypeOK, Advance, Phases
<1>4. ExclusiveJobs'
  <2>1. \A v \in Replica : v # w => at[v] # j
    BY <1>2 DEF OutboxInv, OutboxTypeOK, ExclusiveJobs, Phases
  <2> QED BY <1>1, <1>2, <2>1 DEF Select, OutboxInv, OutboxTypeOK, ExclusiveJobs, Advance
<1>5. \A i \in Job : JobRowInv(i)'
  BY DEF Select, OutboxInv, JobRowInv
<1>6. \A v \in Replica : HoldInv(v)'
  BY <1>1, <1>2 DEF Select, OutboxInv, OutboxTypeOK, HoldInv, Advance
<1> QED BY <1>3, <1>4, <1>5, <1>6 DEF OutboxInv

\* A step of w that keeps its job and changes at most that job's row.
LEMMA StepKeeps ==
  ASSUME OutboxInv, NEW w \in Replica,
         ClaimJob(w) \/ SendMail(w) \/ Extract(w) \/ Screen(w)
  PROVE  OutboxInv'
<1>0. PICK j \in Job : at[w] = j
  BY DEF OutboxInv, OutboxTypeOK, ClaimJob, SendMail, Extract, Screen
<1>1. /\ at' = at
      /\ \A v \in Replica : v # w => at[v] # j
      /\ \A v \in Replica : v # w => phase'[v] = phase[v]
  BY <1>0 DEF OutboxInv, OutboxTypeOK, ExclusiveJobs, ClaimJob, SendMail, Extract, Screen, Advance, Effect
<1>2. \A i \in Job : i # j => status'[i] = status[i] /\ attempts'[i] = attempts[i]
                              /\ effects'[i] = effects[i]
  BY <1>0 DEF OutboxInv, OutboxTypeOK, ClaimJob, SendMail, Extract, Screen, Effect
<1>3. OutboxTypeOK'
  BY <1>0, <1>1 DEF OutboxInv, OutboxTypeOK, ClaimJob, SendMail, Extract, Screen, Advance, Effect, Phases
<1>4. ExclusiveJobs'
  <2>1. phase'[w] \notin {"poll", "claim"} => status'[j] = "RUNNING"
    BY <1>0, <1>1 DEF OutboxInv, OutboxTypeOK, ExclusiveJobs, ClaimJob, SendMail, Extract, Screen, Advance
  <2>2. \A v \in Replica : v # w /\ phase'[v] \notin {"poll", "claim"} => status'[at[v]] = "RUNNING"
    BY <1>1, <1>2 DEF OutboxInv, OutboxTypeOK, ExclusiveJobs
  <2> QED BY <1>0, <1>1, <2>1, <2>2 DEF OutboxInv, ExclusiveJobs
<1>5. \A i \in Job : JobRowInv(i)'
  <2>1. JobRowInv(j)'
    BY <1>0, <1>1, OutboxAssumption
    DEF OutboxInv, OutboxTypeOK, ExclusiveJobs, JobRowInv, HoldInv, ClaimJob, SendMail, Extract, Screen, Effect
  <2>2. \A i \in Job : i # j => JobRowInv(i)'
    BY <1>2 DEF OutboxInv, JobRowInv
  <2> QED BY <2>1, <2>2
<1>6. \A v \in Replica : HoldInv(v)'
  <2>1. HoldInv(w)'
    BY <1>0, <1>1 DEF OutboxInv, OutboxTypeOK, JobRowInv, HoldInv, ClaimJob, SendMail, Extract, Screen, Effect, Advance
  <2>2. \A v \in Replica : v # w => HoldInv(v)'
    BY <1>1, <1>2 DEF OutboxInv, OutboxTypeOK, HoldInv
  <2> QED BY <2>1, <2>2
<1> QED BY <1>3, <1>4, <1>5, <1>6 DEF OutboxInv

\* A step of w that gives its job up, whatever becomes of the row.
LEMMA LeaveKeeps ==
  ASSUME OutboxInv, NEW w \in Replica,
         MarkSucceeded(w) \/ MarkFailed(w) \/ Lose(w)
  PROVE  OutboxInv'
<1>0. PICK j \in Job : at[w] = j
  BY DEF OutboxInv, OutboxTypeOK, MarkSucceeded, MarkFailed, Lose
<1>1. /\ at' = [at EXCEPT ![w] = 0] /\ phase' = [phase EXCEPT ![w] = "poll"]
      /\ UNCHANGED <<attempts, effects>>
      /\ \A v \in Replica : v # w => at[v] # j
  BY <1>0 DEF OutboxInv, OutboxTypeOK, ExclusiveJobs, MarkSucceeded, MarkFailed, Lose, Poll, Advance
<1>2. \A i \in Job : i # j => status'[i] = status[i]
  BY <1>0 DEF OutboxInv, OutboxTypeOK, MarkSucceeded, MarkFailed, Lose
<1>3. OutboxTypeOK'
  BY <1>0, <1>1 DEF OutboxInv, OutboxTypeOK, MarkSucceeded, MarkFailed, Lose, Phases
<1>4. ExclusiveJobs'
  BY <1>0, <1>1, <1>2 DEF OutboxInv, OutboxTypeOK, ExclusiveJobs
<1>5. \A i \in Job : JobRowInv(i)'
  <2>1. JobRowInv(j)'
    BY <1>0, <1>1, OutboxAssumption
    DEF OutboxInv, OutboxTypeOK, ExclusiveJobs, JobRowInv, HoldInv, MarkSucceeded, MarkFailed, Lose
  <2>2. \A i \in Job : i # j => JobRowInv(i)'
    BY <1>1, <1>2 DEF OutboxInv, JobRowInv
  <2> QED BY <2>1, <2>2
<1>6. \A v \in Replica : HoldInv(v)'
  BY <1>1, <1>2 DEF OutboxInv, OutboxTypeOK, HoldInv
<1> QED BY <1>3, <1>4, <1>5, <1>6 DEF OutboxInv

\* Together.
LEMMA OutboxKept == OutboxInv /\ [NextOutbox]_outboxVars => OutboxInv'
<1> SUFFICES ASSUME OutboxInv, [NextOutbox]_outboxVars PROVE OutboxInv'
  OBVIOUS
<1>1. CASE UNCHANGED outboxVars
  BY <1>1 DEF outboxVars, OutboxInv, OutboxTypeOK, ExclusiveJobs, JobRowInv, HoldInv
<1>2. CASE NextOutbox
  BY <1>2, EnqueueKeeps, SelectKeeps, StepKeeps, LeaveKeeps DEF NextOutbox, WorkerStep
<1> QED BY <1>1, <1>2

\* The invariant of the outbox holds throughout.
LEMMA OutboxAlways == OutboxSpec => []OutboxInv
BY OutboxInitially, OutboxKept, PTL DEF OutboxSpec

\* Every reachable state is well-typed, and a polling worker holds no job
\* (jobs/worker.py:159).
THEOREM OutboxTypeCorrect == OutboxSpec => []OutboxTypeOK
BY OutboxAlways, PTL DEF OutboxInv

\* Any number of worker replicas never work on one job at a time
\* (repositories/outbox.py:47).
THEOREM JobsAreExclusive == OutboxSpec => []ExclusiveJobs
BY OutboxAlways, PTL DEF OutboxInv

\* No job is attempted more than max_attempts times, and its final status
\* tells truly what happened (repositories/outbox.py:73).
THEOREM AttemptsAreAccounted == OutboxSpec => []AttemptsAccounted
<1>1. OutboxInv => AttemptsAccounted
  BY DEF OutboxInv, JobRowInv, AttemptsAccounted
<1> QED BY <1>1, OutboxAlways, PTL

\* A settled job is never handled again, and neither is a stranded one
\* (jobs/worker.py:159).
THEOREM OutcomesAreFinal == OutboxSpec => Final
<1> DEFINE Keeps == \A j \in Job : Settled(j) \/ Stranded(j) =>
                      status'[j] = status[j] /\ effects'[j] = effects[j]
<1>1. OutboxInv /\ [NextOutbox]_outboxVars => [Keeps]_outboxVars
  <2> SUFFICES ASSUME OutboxInv, NextOutbox, NEW j \in Job, Settled(j) \/ Stranded(j)
               PROVE  status'[j] = status[j] /\ effects'[j] = effects[j]
    OBVIOUS
  <2>1. \A w \in Replica : at[w] # j
    <3>1. CASE Stranded(j)
      BY <3>1 DEF Stranded, Holders
    <3>2. CASE Settled(j)
      <4>1. 0 \notin Job
        BY OutboxAssumption DEF Job
      <4> QED BY <3>2, <4>1 DEF OutboxInv, OutboxTypeOK, ExclusiveJobs, HoldInv, Settled, Phases
    <3> QED BY <3>1, <3>2
  <2>2. CASE \E i \in Job : Enqueue(i)
    BY <2>2 DEF Enqueue, OutboxInv, OutboxTypeOK, Settled, Stranded
  <2>3. CASE \E w \in Replica : WorkerStep(w) \/ Lose(w)
    BY <2>1, <2>3
    DEF OutboxInv, OutboxTypeOK, WorkerStep, Select, ClaimJob, SendMail, Extract, Screen, MarkSucceeded, MarkFailed, Lose, Effect
  <2> QED BY <2>2, <2>3 DEF NextOutbox
<1> QED BY <1>1, OutboxAlways, PTL DEF OutboxSpec, Final

-----------------------------------------------------------------------------
(* Lists.                                                                  *)

\* A list without repetitions of members of S.
IsList(s, S) ==
  \E n \in Nat : s \in [1 .. n -> S] /\ \A i, j \in 1 .. n : i # j => s[i] # s[j]

LEMMA ListFacts ==
  ASSUME NEW S, NEW s, IsList(s, S)
  PROVE  /\ s \in Seq(S) /\ Len(s) \in Nat /\ DOMAIN s = 1 .. Len(s)
         /\ \A i \in DOMAIN s : s[i] \in S
         /\ \A i, j \in DOMAIN s : i # j => s[i] # s[j]
<1>1. PICK n \in Nat : s \in [1 .. n -> S] /\ \A i, j \in 1 .. n : i # j => s[i] # s[j]
  BY DEF IsList
<1>2. s \in Seq(S) /\ Len(s) = n
  BY <1>1
<1> QED BY <1>1, <1>2

LEMMA ListWider ==
  ASSUME NEW S, NEW T, S \subseteq T, NEW s, IsList(s, S)
  PROVE  IsList(s, T)
BY DEF IsList

LEMMA ListShorten ==
  ASSUME NEW S, NEW s, IsList(s, S), NEW n \in Nat \ {0}
  PROVE  /\ IsList(Shorten(s, n), S)
         /\ s # <<>> => Shorten(s, n) # <<>>
<1>1. /\ s \in Seq(S) /\ Len(s) \in Nat /\ DOMAIN s = 1 .. Len(s)
      /\ \A i, j \in DOMAIN s : i # j => s[i] # s[j]
  BY ListFacts
<1> DEFINE m == IF Len(s) < n THEN Len(s) ELSE n
<1>2. m \in Nat /\ m <= Len(s) /\ (Len(s) # 0 => m # 0)
  BY <1>1
<1>3. Shorten(s, n) = [i \in 1 .. m |-> s[i]]
  BY <1>1, <1>2 DEF Shorten
<1> HIDE DEF m
<1>4. Shorten(s, n) \in [1 .. m -> S]
  BY <1>1, <1>2, <1>3
<1>5. IsList(Shorten(s, n), S)
  BY <1>1, <1>2, <1>3, <1>4 DEF IsList
<1>6. ASSUME s # <<>> PROVE Shorten(s, n) # <<>>
  <2>1. Len(s) # 0
    BY <1>1, <1>6
  <2>2. 1 \in DOMAIN Shorten(s, n)
    BY <1>2, <1>3, <2>1
  <2> QED BY <2>2
<1> QED BY <1>5, <1>6

\* An enumeration of a finite set is a list of its members, as long as it is large.
LEMMA EnumerationIsList ==
  ASSUME NEW S, IsFiniteSet(S), NEW s \in SetToSeqs(S)
  PROVE  IsList(s, S) /\ DOMAIN s = 1 .. Cardinality(S) /\ (S # {} => s # <<>>)
<1>1. Cardinality(S) \in Nat /\ (S # {} => Cardinality(S) # 0)
  BY FS_CardinalityType, FS_EmptySet
<1>2. s \in [1 .. Cardinality(S) -> S] /\ \A i, j \in 1 .. Cardinality(S) : i # j => s[i] # s[j]
  BY DEF SetToSeqs
<1>3. IsList(s, S)
  BY <1>1, <1>2 DEF IsList
<1>4. ASSUME S # {} PROVE s # <<>>
  <2>1. 1 \in DOMAIN s
    BY <1>1, <1>2, <1>4
  <2> QED BY <2>1
<1> QED BY <1>2, <1>3, <1>4

\* Every finite set of numbers can be listed in ascending order.
LEMMA AscendingExists ==
  ASSUME NEW S, IsFiniteSet(S), \A x \in S : x \in Int
  PROVE  \E s \in SetToSeqs(S) : \A i, j \in DOMAIN s : i < j => s[i] < s[j]
<1> DEFINE Good(T) == \E s \in SetToSeqs(T) : \A i, j \in DOMAIN s : i < j => s[i] < s[j]
           Bad == {T \in SUBSET S : ~Good(T)}
<1>1. ASSUME Bad # {} PROVE FALSE
  <2>1. Bad \subseteq SUBSET S
    OBVIOUS
  <2>2. PICK T \in Bad : \A U \in Bad : U \subseteq T => U = T
    <3> HIDE DEF Good, Bad
    <3> QED BY <1>1, <2>1, LeastSet
  <2>3. T \in SUBSET S /\ ~Good(T) /\ IsFiniteSet(T)
    BY FS_Subset
  <2>4. \A U \in SUBSET T : U # T => Good(U)
    BY <2>2, <2>3
  <2> HIDE DEF Bad
  <2>5. T # {}
    <3>1. SUFFICES ASSUME T = {} PROVE FALSE
      OBVIOUS
    <3>2. Cardinality({}) = 0
      BY FS_EmptySet
    <3>3. <<>> \in SetToSeqs({})
      BY <3>2 DEF SetToSeqs
    <3> QED BY <2>3, <3>1, <3>3
  <2>6. PICK m \in T : \A y \in T : m >= y
    <3>1. \A x \in T : x \in Int
      BY <2>3
    <3> QED BY <2>3, <2>5, <3>1, MaxIs
  <2> DEFINE U == T \ {m}
             n == Cardinality(U)
  <2>7. Good(U)
    BY <2>4, <2>6
  <2>8. n \in Nat /\ Cardinality(T) = n + 1
    <3>1. IsFiniteSet(U)
      BY <2>3, FS_Subset
    <3>2. Cardinality(U) = Cardinality(T) - 1 /\ Cardinality(U) \in Nat /\ Cardinality(T) \in Nat
      BY <2>3, <2>6, <3>1, FS_RemoveElement, FS_CardinalityType
    <3> QED BY <3>2
  <2>9. PICK s \in SetToSeqs(U) : \A i, j \in DOMAIN s : i < j => s[i] < s[j]
    BY <2>7
  <2>10. s \in [1 .. n -> U] /\ \A i, j \in 1 .. n : i # j => s[i] # s[j]
    BY <2>9 DEF SetToSeqs
  <2> DEFINE t == [i \in 1 .. n + 1 |-> IF i = n + 1 THEN m ELSE s[i]]
  <2>11. \A i \in 1 .. n : t[i] = s[i] /\ s[i] \in T /\ s[i] # m /\ s[i] < m
    <3> TAKE i \in 1 .. n
    <3>1. s[i] \in U /\ i # n + 1 /\ i \in 1 .. n + 1
      <4> HIDE DEF n, U
      <4> QED BY <2>8, <2>10
    <3>2. s[i] \in Int /\ m \in Int /\ m >= s[i] /\ s[i] # m
      BY <2>3, <2>6, <3>1
    <3> QED BY <3>1, <3>2
  <2>12. t[n + 1] = m
    BY <2>8
  <2>13. t \in [1 .. n + 1 -> T]
    <3> HIDE DEF n
    <3>1. \A i \in 1 .. n + 1 : i \in 1 .. n \/ i = n + 1
      BY <2>8
    <3> QED BY <2>6, <2>11, <2>12, <3>1
  <2>14. \A i, j \in 1 .. n + 1 : i < j => t[i] < t[j]
    <3> HIDE DEF t
    <3> TAKE i, j \in 1 .. n + 1
    <3> HAVE i < j
    <3>1. i \in 1 .. n
      BY <2>8
    <3>2. CASE j = n + 1
      BY <2>11, <2>12, <3>1, <3>2
    <3>3. CASE j # n + 1
      <4>1. j \in 1 .. n
        BY <2>8, <3>3
      <4>2. s[i] < s[j]
        BY <2>9, <2>10, <3>1, <4>1
      <4> QED BY <2>11, <3>1, <4>1, <4>2
    <3> QED BY <3>2, <3>3
  <2>15. \A i, j \in 1 .. n + 1 : i # j => t[i] # t[j]
    <3> HIDE DEF t
    <3> TAKE i, j \in 1 .. n + 1
    <3> HAVE i # j
    <3>1. t[i] \in Int /\ t[j] \in Int
      BY <2>3, <2>13
    <3>2. i < j \/ j < i
      BY <2>8
    <3> QED BY <2>14, <3>1, <3>2
  <2>16. t \in SetToSeqs(T)
    <3> HIDE DEF t, n
    <3> QED BY <2>8, <2>13, <2>15 DEF SetToSeqs
  <2>17. DOMAIN t = 1 .. n + 1
    OBVIOUS
  <2>18. Good(T)
    <3> HIDE DEF t, n
    <3> QED BY <2>14, <2>16, <2>17
  <2> QED BY <2>3, <2>18
<1>2. Good(S)
  BY <1>1
<1> QED BY <1>2

\* A list has as many members as it is long.
LEMMA ListCardinality ==
  ASSUME NEW S, NEW s, IsList(s, S)
  PROVE  Cardinality({s[i] : i \in DOMAIN s}) = Len(s)
<1> DEFINE T == {s[i] : i \in DOMAIN s}
           D == 1 .. Len(s)
<1>1. /\ Len(s) \in Nat /\ DOMAIN s = D /\ s \in [D -> T]
      /\ \A i, j \in D : i # j => s[i] # s[j]
  <2>1. s \in Seq(S) /\ Len(s) \in Nat /\ DOMAIN s = 1 .. Len(s)
    BY ListFacts
  <2>2. s = [i \in D |-> s[i]]
    BY <2>1
  <2> QED BY <2>1, <2>2, ListFacts
<1>2. IsFiniteSet(D) /\ Cardinality(D) = Len(s)
  <2>1. 1 \in Int /\ Len(s) \in Int /\ (IF 1 > Len(s) THEN 0 ELSE Len(s) - 1 + 1) = Len(s)
    BY <1>1
  <2> QED BY <2>1, FS_Interval
<1>3. \A t \in T : \E i \in D : s[i] = t
  BY <1>1
<1> HIDE DEF D, T
<1>4. s \in Surjection(D, T) /\ s \in Injection(D, T)
  BY <1>1, <1>3 DEF Surjection, Injection, IsInjective
<1>5. Cardinality(T) = Cardinality(D)
  BY <1>2, <1>4, FS_Surjection
<1> QED BY <1>2, <1>5 DEF T

\* What is kept of a list stands in it at ascending places.
LEMMA PickedIs ==
  ASSUME NEW S, NEW s \in Seq(S), NEW P \in SUBSET DOMAIN s
  PROVE  \E n \in Nat, spot \in [1 .. Cardinality(P) -> P] :
           /\ n = Cardinality(P)
           /\ \A i, j \in 1 .. n : i < j => spot[i] < spot[j]
           /\ \A p \in P : \E i \in 1 .. n : spot[i] = p
           /\ Picked(s, P) = [i \in 1 .. n |-> s[spot[i]]]
           /\ Picked(s, P) \in Seq(S) /\ Len(Picked(s, P)) = n
<1> DEFINE spot == Ascending(P)
           n == Cardinality(P)
<1>1. /\ DOMAIN s = 1 .. Len(s) /\ Len(s) \in Nat /\ \A i \in DOMAIN s : s[i] \in S
      /\ IsFiniteSet(1 .. Len(s))
  BY FS_Interval
<1>2. IsFiniteSet(P) /\ n \in Nat /\ \A x \in P : x \in Int
  BY <1>1, FS_Subset, FS_CardinalityType
<1>3. spot \in SetToSeqs(P) /\ \A i, j \in DOMAIN spot : i < j => spot[i] < spot[j]
  <2>1. \E t \in SetToSeqs(P) : \A i, j \in DOMAIN t : i < j => t[i] < t[j]
    BY <1>2, AscendingExists
  <2> QED BY <2>1 DEF Ascending
<1> HIDE DEF spot
<1>4. spot \in [1 .. n -> P] /\ \A i, j \in 1 .. n : i # j => spot[i] # spot[j]
  BY <1>3 DEF SetToSeqs
<1> HIDE DEF n
<1>5. \A p \in P : \E i \in 1 .. n : spot[i] = p
  <2>1. IsFiniteSet(1 .. n) /\ Cardinality(1 .. n) = Cardinality(P)
    <3>1. 1 \in Int /\ n \in Int /\ (IF 1 > n THEN 0 ELSE n - 1 + 1) = n
      BY <1>2
    <3> QED BY <3>1, FS_Interval DEF n
  <2> DEFINE D == 1 .. n
  <2>2. spot \in Injection(D, P)
    BY <1>4 DEF Injection, IsInjective
  <2>3. spot \in Surjection(D, P)
    <3> HIDE DEF D
    <3> QED BY <1>2, <2>1, <2>2, FS_Injection DEF D
  <2> QED BY <2>3 DEF Surjection
<1>6. Picked(s, P) = [i \in 1 .. n |-> s[spot[i]]]
  BY <1>4 DEF Picked, spot
<1>7. Picked(s, P) \in Seq(S) /\ Len(Picked(s, P)) = n
  BY <1>1, <1>2, <1>4, <1>6
<1>8. \A i, j \in 1 .. n : i < j => spot[i] < spot[j]
  BY <1>3, <1>4
<1> QED BY <1>2, <1>4, <1>5, <1>6, <1>7, <1>8 DEF n

-----------------------------------------------------------------------------
(* The answers from the documents.                                         *)

\* A query returns a list of some of its hits, of one at least if there are any.
LEMMA LegIsList ==
  ASSUME NEW hits, IsFiniteSet(hits), NEW score, NEW leg \in Legs(hits, score)
  PROVE  IsList(leg, hits) /\ (hits # {} => leg # <<>>)
<1>1. PICK s \in SetToSeqs(hits) : leg = Shorten(s, TopK)
  BY DEF Legs
<1>2. IsList(s, hits) /\ (hits # {} => s # <<>>)
  BY EnumerationIsList
<1>3. TopK \in Nat \ {0}
  BY AnsweringAssumption
<1> QED BY <1>1, <1>2, <1>3, ListShorten

\* What the model is shown is a list of chunks that the queries returned, and
\* there are some if the second query returned any.
LEMMA FinalIsList ==
  ASSUME NEW q, NEW lexical, NEW vector, NEW final \in Finals(q, lexical, vector),
         Range(lexical) \cup Range(vector) \subseteq Chunk
  PROVE  /\ IsList(final, Range(lexical) \cup Range(vector))
         /\ Range(vector) # {} => final # <<>>
<1> DEFINE S == Range(lexical) \cup Range(vector)
<1>1. PICK s \in SetToSeqs(S) : final = Shorten(s, TopN)
  BY DEF Finals
<1>2. IsFiniteSet(S)
  BY AnsweringAssumption, FS_Subset
<1>3. IsList(s, S) /\ (S # {} => s # <<>>)
  <2> HIDE DEF S
  <2> QED BY <1>2, EnumerationIsList
<1>4. TopN \in Nat \ {0}
  BY AnsweringAssumption
<1>5. Range(vector) # {} => S # {}
  OBVIOUS
<1> HIDE DEF S
<1>6. IsList(final, S) /\ (Range(vector) # {} => final # <<>>)
  BY <1>1, <1>3, <1>4, <1>5, ListShorten
<1> QED BY <1>6 DEF S

Shown == {turn.final[i] : i \in DOMAIN turn.final}

\* The citations of a text are a list of chunks the model was shown, at most as
\* many as it has markers, and none are there only if no marker is the number
\* of such a chunk.
LEMMA VerifiedIsList ==
  ASSUME IsList(turn.final, Chunk), NEW text, text.markers \in SUBSET (1 .. TopN + 1)
  PROVE  /\ IsList(Verified(text), Shown)
         /\ DOMAIN Verified(text) \in SUBSET (1 .. TopN + 1)
         /\ text.markers \cap DOMAIN turn.final # {} => Verified(text) # <<>>
<1> DEFINE S == text.markers \cap DOMAIN turn.final
           cited == Ascending(S)
<1>1. TopN \in Nat /\ IsFiniteSet(1 .. TopN + 1) /\ Cardinality(1 .. TopN + 1) = TopN + 1
  <2>1. TopN \in Nat
    BY AnsweringAssumption
  <2>2. TopN + 1 \in Int /\ 1 \in Int /\ ~(1 > TopN + 1) /\ TopN + 1 - 1 + 1 = TopN + 1
    BY <2>1
  <2> QED BY <2>1, <2>2, FS_Interval
<1>2. S \in SUBSET (1 .. TopN + 1)
  OBVIOUS
<1>3. IsFiniteSet(S) /\ Cardinality(S) \in Nat /\ Cardinality(S) <= TopN + 1
  <2> HIDE DEF S
  <2>1. IsFiniteSet(S) /\ Cardinality(S) <= Cardinality(1 .. TopN + 1)
    BY <1>1, <1>2, FS_Subset
  <2> QED BY <1>1, <2>1, FS_CardinalityType
<1>4. cited \in SetToSeqs(S)
  <2> HIDE DEF S
  <2>1. \A x \in S : x \in Int
    BY <1>1, <1>2
  <2>2. \E s \in SetToSeqs(S) : \A i, j \in DOMAIN s : i < j => s[i] < s[j]
    BY <1>3, <2>1, AscendingExists
  <2> QED BY <2>2 DEF Ascending
<1>5. IsList(cited, S) /\ DOMAIN cited = 1 .. Cardinality(S) /\ (S # {} => cited # <<>>)
  <2> HIDE DEF S, cited
  <2> QED BY <1>3, <1>4, EnumerationIsList
<1>6. Verified(text) = [i \in DOMAIN cited |-> turn.final[cited[i]]]
  BY DEF Verified, Picked
<1> DEFINE n == Cardinality(S)
<1>7. /\ \A i \in 1 .. n : cited[i] \in DOMAIN turn.final
      /\ \A i, j \in 1 .. n : i # j => cited[i] # cited[j]
  <2>1. /\ \A i \in DOMAIN cited : cited[i] \in S
        /\ \A i, j \in DOMAIN cited : i # j => cited[i] # cited[j]
    <3> HIDE DEF S, cited
    <3> QED BY <1>5, ListFacts
  <2> HIDE DEF cited, n
  <2>2. DOMAIN cited = 1 .. n
    BY <1>5 DEF n
  <2> QED BY <2>1, <2>2
<1>8. n \in Nat /\ n <= TopN + 1 /\ DOMAIN cited = 1 .. n /\ (S # {} => cited # <<>>)
  BY <1>3, <1>5
<1> HIDE DEF cited, n, S
<1>9. Verified(text) \in [1 .. n -> Shown]
  BY <1>6, <1>7, <1>8 DEF Shown
<1>10. \A i, j \in 1 .. n : i # j => Verified(text)[i] # Verified(text)[j]
  <2> TAKE i, j \in 1 .. n
  <2> HAVE i # j
  <2>1. \A k, l \in DOMAIN turn.final : k # l => turn.final[k] # turn.final[l]
    BY ListFacts
  <2>2. Verified(text)[i] = turn.final[cited[i]] /\ Verified(text)[j] = turn.final[cited[j]]
    BY <1>6, <1>8
  <2> QED BY <1>7, <2>1, <2>2
<1>11. IsList(Verified(text), Shown)
  BY <1>8, <1>9, <1>10 DEF IsList
<1>12. DOMAIN Verified(text) = 1 .. n
  BY <1>9
<1>13. 1 .. n \in SUBSET (1 .. TopN + 1)
  BY <1>1, <1>8
<1>14. ASSUME S # {} PROVE Verified(text) # <<>>
  <2>1. cited # <<>> /\ cited \in [1 .. n -> S]
    <3>1. cited \in SetToSeqs(S)
      BY <1>4
    <3> QED BY <1>8, <1>14, <3>1 DEF SetToSeqs, n
  <2>2. n # 0
    BY <2>1
  <2>3. 1 \in DOMAIN Verified(text)
    BY <1>8, <1>12, <2>2
  <2> QED BY <2>3
<1> QED BY <1>11, <1>12, <1>13, <1>14 DEF S

\* What the steps of a turn know of the index as long as it does not change.
SeesTheIndex ==
  ~moved =>
    /\ stage = "vector" => \A i \in DOMAIN turn.lexical : Found(turn.role, turn.lexical[i])
    /\ stage = "write" => \A i \in DOMAIN turn.final : Found(turn.role, turn.final[i])
    /\ stage = "restricted" => \A c \in Chunk : ~Found(turn.role, c)

AnsweringInv ==
  /\ AnsweringTypeOK
  /\ IsList(turn.final, Chunk)
  /\ SeesTheIndex
  /\ ServedFromIndex
  /\ CitesWhatItSays

\* A reply that says nothing, or only that there is no answer.
LEMMA NoticeType ==
  ASSUME NEW kind \in {"none", "empty", "refusal", "denied", "answer"}
  PROVE  /\ NoReply \in [kind : {"none", "empty", "refusal", "denied", "answer"}, text : TextType,
                         citations : Seq(Chunk), safety : Verdicts, repaired : BOOLEAN]
         /\ Notice(kind) \in [kind : {"none", "empty", "refusal", "denied", "answer"}, text : TextType,
                              citations : Seq(Chunk), safety : Verdicts, repaired : BOOLEAN]
         /\ Notice(kind).kind = kind /\ Notice(kind).citations = <<>>
         /\ NoReply.kind = "none" /\ NoReply.citations = <<>>
<1>1. NoText \in TextType /\ [NoText EXCEPT !.declines = TRUE] \in TextType
  BY DEF NoText, TextType
<1>2. <<>> \in Seq(Chunk) /\ "PASS" \in Verdicts
  BY DEF Verdicts
<1> QED BY <1>1, <1>2 DEF Notice, NoReply

LEMMA InitAnsweringInv == InitAnswering => AnsweringInv
<1> SUFFICES ASSUME InitAnswering PROVE AnsweringInv
  OBVIOUS
<1> USE DEF InitAnswering
<1>1. (CHOOSE q \in Queries : TRUE) \in Queries
  BY AnsweringAssumption
<1>2. turn \in [role : Requester, query : Queries, lexical : Seq(Chunk), final : Seq(Chunk)]
  BY <1>1 DEF Requester
<1>3. AnsweringTypeOK
  BY <1>2, NoticeType DEF AnsweringTypeOK
<1>4. IsList(turn.final, Chunk)
  <2>1. turn.final = <<>> /\ <<>> \in [1 .. 0 -> Chunk]
    OBVIOUS
  <2> QED BY <2>1 DEF IsList
<1>5. SeesTheIndex
  BY DEF SeesTheIndex
<1>6. Cited = {} /\ reply.kind = "none"
  BY NoticeType DEF Cited
<1>7. ServedFromIndex /\ CitesWhatItSays
  BY <1>6 DEF ServedFromIndex, CitesWhatItSays
<1> QED BY <1>3, <1>4, <1>5, <1>7 DEF AnsweringInv

\* A step of the turn that gives no answer yet.
LEMMA SilentStep ==
  ASSUME reply' = NoReply
  PROVE  ServedFromIndex' /\ CitesWhatItSays'
<1>1. Cited' = {} /\ reply'.kind = "none"
  BY NoticeType DEF Cited
<1> QED BY <1>1 DEF ServedFromIndex, CitesWhatItSays

LEMMA AskKeeps ==
  ASSUME AnsweringInv, Ask PROVE AnsweringInv'
<1> USE DEF Ask, Enter, index
<1>1. PICK who \in Requester, q \in Queries :
        turn' = [role |-> who, query |-> q, lexical |-> <<>>, final |-> <<>>]
  OBVIOUS
<1>2. turn' \in [role : Requester, query : Queries, lexical : Seq(Chunk), final : Seq(Chunk)]
  BY <1>1
<1>3. AnsweringTypeOK'
  BY <1>2, NoticeType DEF AnsweringInv, AnsweringTypeOK
<1>4. IsList(turn'.final, Chunk)
  <2>1. turn'.final = <<>> /\ <<>> \in [1 .. 0 -> Chunk]
    BY <1>1
  <2> QED BY <2>1 DEF IsList
<1>5. SeesTheIndex'
  BY DEF SeesTheIndex
<1> QED BY <1>3, <1>4, <1>5, SilentStep DEF AnsweringInv

LEMMA ProbeKeeps ==
  ASSUME AnsweringInv, Probe PROVE AnsweringInv'
<1>1. reply = NoReply
  BY DEF Probe, AnsweringInv, AnsweringTypeOK
<1>2. AnsweringTypeOK' /\ IsList(turn'.final, Chunk) /\ SeesTheIndex'
  BY DEF Probe, Enter, index, AnsweringInv, AnsweringTypeOK, SeesTheIndex
<1> QED BY <1>1, <1>2, SilentStep DEF AnsweringInv, Probe, Enter, index

LEMMA LexicalLegKeeps ==
  ASSUME AnsweringInv, LexicalLeg PROVE AnsweringInv'
<1> DEFINE found == {c \in Chunk : Found(turn.role, c) /\ turn.query.lexical[c] > 0}
<1>1. PICK hits \in Legs(found, turn.query.lexical) : turn' = [turn EXCEPT !.lexical = hits]
  BY DEF LexicalLeg
<1>2. IsList(hits, found)
  <2>1. IsFiniteSet(found)
    BY AnsweringAssumption, FS_Subset
  <2> HIDE DEF found
  <2> QED BY <2>1, LegIsList
<1>3. hits \in Seq(found) /\ \A i \in DOMAIN hits : hits[i] \in found
  <2> HIDE DEF found
  <2> QED BY <1>2, ListFacts
<1>4. hits \in Seq(Chunk)
  BY <1>3
<1>5. turn \in [role : Requester, query : Queries, lexical : Seq(Chunk), final : Seq(Chunk)]
  BY DEF AnsweringInv, AnsweringTypeOK
<1> HIDE DEF found
<1>6. /\ turn' \in [role : Requester, query : Queries, lexical : Seq(Chunk), final : Seq(Chunk)]
      /\ turn'.role = turn.role /\ turn'.lexical = hits /\ turn'.final = turn.final
  BY <1>1, <1>4, <1>5
<1>7. reply = NoReply /\ reply' = NoReply /\ stage' = "vector"
      /\ served' = served /\ deleted' = deleted /\ allowed' = allowed /\ moved' = moved
  BY DEF LexicalLeg, Enter, index, AnsweringInv, AnsweringTypeOK
<1>8. AnsweringTypeOK'
  BY <1>6, <1>7 DEF AnsweringInv, AnsweringTypeOK
<1>9. SeesTheIndex'
  <2>1. \A i \in DOMAIN turn'.lexical : Found(turn.role, turn'.lexical[i])
    BY <1>3, <1>6 DEF found
  <2>2. \A c : Found(turn.role, c) = Found(turn.role, c)'
    BY <1>6, <1>7 DEF Found, Indexed, MayRead
  <2> QED BY <1>6, <1>7, <2>1 DEF SeesTheIndex, Found, Indexed, MayRead
<1> QED BY <1>6, <1>7, <1>8, <1>9, SilentStep DEF AnsweringInv

LEMMA VectorLegKeeps ==
  ASSUME AnsweringInv, VectorLeg PROVE AnsweringInv'
<1> DEFINE found == {c \in Chunk : Found(turn.role, c)}
<1>1. PICK vector \in Legs(found, turn.query.similarity) :
      \E final \in Finals(turn.query, turn.lexical, vector) :
         /\ turn' = [turn EXCEPT !.final = final]
         /\ \/ final = <<>> /\ turn.role # "HR_ADMIN" /\ stage' = "restricted"
            \/ final = <<>> /\ turn.role = "HR_ADMIN" /\ stage' = "refuse"
            \/ final # <<>> /\ stage' \in {"refuse", "write"}
  BY DEF VectorLeg, Enter
<1>2. PICK final \in Finals(turn.query, turn.lexical, vector) :
         /\ turn' = [turn EXCEPT !.final = final]
         /\ \/ final = <<>> /\ turn.role # "HR_ADMIN" /\ stage' = "restricted"
            \/ final = <<>> /\ turn.role = "HR_ADMIN" /\ stage' = "refuse"
            \/ final # <<>> /\ stage' \in {"refuse", "write"}
  BY <1>1
<1>3. turn \in [role : Requester, query : Queries, lexical : Seq(Chunk), final : Seq(Chunk)]
  BY DEF AnsweringInv, AnsweringTypeOK
<1>4. stage = "vector" /\ reply = NoReply /\ reply' = NoReply
      /\ served' = served /\ deleted' = deleted /\ allowed' = allowed /\ moved' = moved
  BY DEF VectorLeg, Enter, index, AnsweringInv, AnsweringTypeOK
<1>5. IsList(vector, found) /\ (found # {} => vector # <<>>)
  <2>1. IsFiniteSet(found)
    BY AnsweringAssumption, FS_Subset
  <2> HIDE DEF found
  <2> QED BY <2>1, LegIsList
<1>6. /\ vector \in Seq(found) /\ \A i \in DOMAIN vector : vector[i] \in found
  <2> HIDE DEF found
  <2> QED BY <1>5, ListFacts
<1>7. Range(vector) \subseteq found /\ (found # {} => Range(vector) # {})
  <2>1. vector # <<>> => 1 \in DOMAIN vector
    <3> HIDE DEF found
    <3> QED BY <1>6
  <2> QED BY <1>5, <1>6, <2>1 DEF Range
<1>8. Range(turn.lexical) \subseteq Chunk
  BY <1>3 DEF Range
<1>9. /\ IsList(final, Range(turn.lexical) \cup Range(vector))
      /\ Range(vector) # {} => final # <<>>
  <2>1. Range(turn.lexical) \cup Range(vector) \subseteq Chunk
    BY <1>7, <1>8
  <2> QED BY <2>1, FinalIsList
<1>10. IsList(final, Chunk)
  <2>1. Range(turn.lexical) \cup Range(vector) \subseteq Chunk
    BY <1>7, <1>8
  <2> QED BY <1>9, <2>1, ListWider
<1>11. final \in Seq(Chunk) /\ \A i \in DOMAIN final : final[i] \in Range(turn.lexical) \cup Range(vector)
  BY <1>9, <1>10, ListFacts
<1>12. /\ turn' \in [role : Requester, query : Queries, lexical : Seq(Chunk), final : Seq(Chunk)]
       /\ turn'.role = turn.role /\ turn'.final = final
  BY <1>2, <1>3, <1>11
<1>13. AnsweringTypeOK'
  BY <1>2, <1>4, <1>12 DEF AnsweringInv, AnsweringTypeOK
<1>14. SeesTheIndex'
  <2> SUFFICES ASSUME ~moved PROVE SeesTheIndex'
    BY <1>4 DEF SeesTheIndex
  <2>1. \A i \in DOMAIN turn.lexical : Found(turn.role, turn.lexical[i])
    BY <1>4 DEF AnsweringInv, SeesTheIndex
  <2>2. \A c \in Range(turn.lexical) \cup Range(vector) : Found(turn.role, c)
    BY <1>7, <2>1 DEF Range
  <2>3. \A i \in DOMAIN final : Found(turn.role, final[i])
    BY <1>11, <2>2
  <2>4. stage' = "restricted" => \A c \in Chunk : ~Found(turn.role, c)
    BY <1>2, <1>7, <1>9
  <2>5. stage' # "vector"
    BY <1>2
  <2> HIDE DEF found
  <2> QED BY <1>4, <1>12, <2>3, <2>4, <2>5 DEF SeesTheIndex, Found, Indexed, MayRead
<1> QED BY <1>4, <1>10, <1>12, <1>13, <1>14, SilentStep DEF AnsweringInv

\* A reply that gives no answer, and denies nothing that is there.
LEMMA NoticeStep ==
  ASSUME AnsweringInv, NEW kind \in {"empty", "refusal", "denied"}, Answer(Notice(kind)),
         ~moved /\ kind = "empty" => \A c \in Chunk : ~Indexed(c),
         ~moved /\ kind = "denied" =>
           /\ \A c \in Chunk : ~Found(turn.role, c)
           /\ \E c \in Chunk : Indexed(c) /\ ~MayRead(turn.role, c)
  PROVE  AnsweringInv'
<1>1. /\ stage' = "idle" /\ reply' = Notice(kind) /\ turn' = turn /\ moved' = moved
      /\ served' = served /\ deleted' = deleted /\ allowed' = allowed
  BY DEF Answer, Enter, index
<1>2. /\ reply' \in [kind : {"none", "empty", "refusal", "denied", "answer"}, text : TextType,
                     citations : Seq(Chunk), safety : Verdicts, repaired : BOOLEAN]
      /\ reply'.kind = kind /\ reply'.citations = <<>>
  BY <1>1, NoticeType
<1>3. AnsweringTypeOK' /\ IsList(turn'.final, Chunk) /\ SeesTheIndex'
  BY <1>1, <1>2 DEF AnsweringInv, AnsweringTypeOK, SeesTheIndex
<1>4. Cited' = {}
  BY <1>2 DEF Cited
<1>5. ServedFromIndex'
  BY <1>1, <1>2, <1>4 DEF ServedFromIndex, Found, Indexed, MayRead
<1>6. CitesWhatItSays'
  BY <1>2 DEF CitesWhatItSays
<1> QED BY <1>3, <1>5, <1>6 DEF AnsweringInv

LEMMA ProbeEmptyKeeps ==
  ASSUME AnsweringInv, ProbeEmpty PROVE AnsweringInv'
<1>1. ~SomeIndexed /\ Answer(Notice("empty"))
  BY DEF ProbeEmpty
<1>2. \A c \in Chunk : ~Indexed(c)
  <2> SUFFICES ASSUME NEW c \in Chunk, Indexed(c) PROVE FALSE
    OBVIOUS
  <2>1. c.document \in Document \ deleted /\ served[c.document] # 0
    BY AnsweringAssumption DEF Indexed
  <2> QED BY <1>1, <2>1 DEF SomeIndexed
<1> QED BY <1>1, <1>2, NoticeStep

LEMMA RefusalsKeep ==
  ASSUME AnsweringInv, EmbeddingFails \/ Refuse PROVE AnsweringInv'
<1>1. Answer(Notice("refusal"))
  BY DEF EmbeddingFails, Refuse
<1> QED BY <1>1, NoticeStep

LEMMA RestrictedMatchesKeeps ==
  ASSUME AnsweringInv, RestrictedMatches PROVE AnsweringInv'
<1>1. ~moved => \A c \in Chunk : ~Found(turn.role, c)
  BY DEF AnsweringInv, SeesTheIndex, RestrictedMatches
<1>2. CASE \E c \in Chunk : Restricted(c)
  <2>1. Answer(Notice("denied"))
    BY <1>2 DEF RestrictedMatches
  <2>2. \E c \in Chunk : Indexed(c) /\ ~MayRead(turn.role, c)
    BY <1>2 DEF Restricted
  <2> QED BY <1>1, <2>1, <2>2, NoticeStep
<1>3. CASE ~\E c \in Chunk : Restricted(c)
  <2>1. Answer(Notice("refusal"))
    BY <1>3 DEF RestrictedMatches
  <2> QED BY <2>1, NoticeStep
<1> QED BY <1>2, <1>3

\* An answer that is served keeps the promise, if a text that passed the guard
\* cites something and one that should be redacted is only there in a repair.
LEMMA ServeStep ==
  ASSUME AnsweringInv, stage = "write", NEW text \in TextType, NEW verdict \in Verdicts,
         NEW repaired \in BOOLEAN, Answer(Serve(text, verdict, repaired)),
         verdict = "PASS" => Verified(text) # <<>>,
         text.private => repaired /\ verdict = "REDACTED"
  PROVE  AnsweringInv'
<1>1. /\ stage' = "idle" /\ reply' = Serve(text, verdict, repaired) /\ turn' = turn /\ moved' = moved
      /\ served' = served /\ deleted' = deleted /\ allowed' = allowed
  BY DEF Answer, Enter, index
<1>2. IsList(turn.final, Chunk)
  BY DEF AnsweringInv
<1>3. text.markers \in SUBSET (1 .. TopN + 1)
  BY DEF TextType
<1>4. /\ IsList(Verified(text), Shown)
      /\ DOMAIN Verified(text) \in SUBSET (1 .. TopN + 1)
  BY <1>2, <1>3, VerifiedIsList
<1>5. Shown \subseteq Chunk
  BY <1>2, ListFacts DEF Shown
<1>6. Verified(text) \in Seq(Chunk)
  <2>1. IsList(Verified(text), Chunk)
    BY <1>4, <1>5, ListWider
  <2> QED BY <2>1, ListFacts
<1>7. /\ DOMAIN Verified(text) = 1 .. Len(Verified(text))
      /\ \A i \in DOMAIN Verified(text) : Verified(text)[i] \in Shown
  BY <1>4, ListFacts
<1>8. [text EXCEPT !.markers = DOMAIN Verified(text)] \in TextType
      /\ [text EXCEPT !.markers = DOMAIN Verified(text)].markers = DOMAIN Verified(text)
      /\ [text EXCEPT !.markers = DOMAIN Verified(text)].private = text.private
  BY <1>4 DEF TextType
<1>9. /\ reply' \in [kind : {"none", "empty", "refusal", "denied", "answer"}, text : TextType,
                     citations : Seq(Chunk), safety : Verdicts, repaired : BOOLEAN]
      /\ reply'.kind = "answer" /\ reply'.citations = Verified(text)
      /\ reply'.text.markers = DOMAIN Verified(text) /\ reply'.text.private = text.private
      /\ reply'.safety = verdict /\ reply'.repaired = repaired
  BY <1>1, <1>6, <1>8 DEF Serve
<1>10. AnsweringTypeOK' /\ IsList(turn'.final, Chunk) /\ SeesTheIndex'
  BY <1>1, <1>9 DEF AnsweringInv, AnsweringTypeOK, SeesTheIndex
<1>11. Cited' = {Verified(text)[i] : i \in DOMAIN Verified(text)}
  BY <1>9 DEF Cited
<1>12. Cited' \subseteq Shown
  BY <1>7, <1>11
<1>13. CitesWhatItSays'
  <2>1. Cardinality(Cited') = Len(Verified(text))
    BY <1>4, <1>11, ListCardinality
  <2> QED BY <1>1, <1>7, <1>9, <1>12, <2>1 DEF CitesWhatItSays, Shown
<1>14. ServedFromIndex'
  <2> SUFFICES ASSUME ~moved PROVE ServedFromIndex'
    BY <1>1 DEF ServedFromIndex
  <2>1. \A c \in Cited' : Found(turn.role, c)
    BY <1>12 DEF AnsweringInv, SeesTheIndex, Shown
  <2>2. \A c, d \in Cited' : c.document = d.document => c.version = d.version
    BY <2>1 DEF Found, Indexed
  <2>3. \A c \in Cited' : Found(turn.role, c)'
    BY <1>1, <2>1 DEF Found, Indexed, MayRead
  <2> QED BY <1>1, <1>9, <2>2, <2>3 DEF ServedFromIndex
<1> QED BY <1>10, <1>13, <1>14 DEF AnsweringInv

LEMMA WriteKeeps ==
  ASSUME AnsweringInv, Write PROVE AnsweringInv'
<1> DEFINE Shows(first, doubt) == Answer(Serve(Guarded(first, doubt), Verdict(first, doubt), FALSE))
           Repairs(repair, again) ==
             Verified(repair) # <<>> /\ Answer(Serve(repair, Verdict(repair, again), TRUE))
<1>1. stage = "write" /\ IsList(turn.final, Chunk)
  BY DEF Write, AnsweringInv
<1>2. PICK first \in TextType : \E doubt \in BOOLEAN :
        \/ Shows(first, doubt)
        \/ \E repair \in TextType, again \in BOOLEAN : Repairs(repair, again)
  BY DEF Write
<1>3. PICK doubt \in BOOLEAN :
        \/ Shows(first, doubt)
        \/ \E repair \in TextType, again \in BOOLEAN : Repairs(repair, again)
  BY <1>2
<1>4. \A text \in TextType, unsure \in BOOLEAN :
        /\ Verdict(text, unsure) \in Verdicts
        /\ Verdict(text, unsure) = "PASS" => Verified(text) # <<>> /\ ~text.private
        /\ text.private => Verdict(text, unsure) = "REDACTED"
  <2> TAKE text \in TextType, unsure \in BOOLEAN
  <2>1. /\ Verdict(text, unsure) \in Verdicts
        /\ Verdict(text, unsure) = "PASS" => ~Warned(text, unsure) /\ ~text.private
        /\ text.private => Verdict(text, unsure) = "REDACTED"
    BY DEF Verdict, Verdicts
  <2>2. ASSUME ~Warned(text, unsure) PROVE Verified(text) # <<>>
    <3>1. text.markers # {} /\ \A m \in text.markers : ~(m > Len(turn.final))
      BY <2>2 DEF Warned
    <3>2. text.markers \in SUBSET (1 .. TopN + 1) /\ TopN \in Nat
      BY AnsweringAssumption DEF TextType
    <3>3. DOMAIN turn.final = 1 .. Len(turn.final) /\ Len(turn.final) \in Nat
      BY <1>1, ListFacts
    <3>4. \A m \in text.markers : m \in DOMAIN turn.final
      BY <3>1, <3>2, <3>3
    <3> QED BY <1>1, <3>1, <3>2, <3>4, VerifiedIsList
  <2> QED BY <2>1, <2>2
<1>5. CASE Shows(first, doubt)
  <2> DEFINE text == Guarded(first, doubt)
  <2>1. text \in TextType /\ ~text.private
    BY <1>4 DEF Guarded, TextType
  <2>2. Verdict(first, doubt) = "PASS" => text = first
    BY DEF Guarded
  <2> HIDE DEF text
  <2>3. Verdict(first, doubt) = "PASS" => Verified(text) # <<>>
    BY <1>4, <2>2
  <2>4. Answer(Serve(text, Verdict(first, doubt), FALSE))
    BY <1>5 DEF text
  <2>5. Verdict(first, doubt) \in Verdicts
    BY <1>4
  <2> QED BY <1>1, <2>1, <2>3, <2>4, <2>5, ServeStep
<1>6. ASSUME NEW repair \in TextType, NEW again \in BOOLEAN, Repairs(repair, again)
      PROVE  AnsweringInv'
  <2>1. /\ Verdict(repair, again) \in Verdicts
        /\ repair.private => Verdict(repair, again) = "REDACTED"
    BY <1>4
  <2> QED BY <1>1, <1>6, <2>1, ServeStep
<1> HIDE DEF Shows, Repairs
<1> QED BY <1>3, <1>5, <1>6

\* Once the index changes, nothing is promised about what it holds; what an
\* answer says of its citations stays.
LEMMA IndexChangeKeeps ==
  ASSUME AnsweringInv, NEW d \in Document,
         Publish(d) \/ SoftDelete(d) \/ \E roles \in SUBSET Role : SetRoles(d, roles)
  PROVE  AnsweringInv'
<1>1. moved' = TRUE /\ stage' = stage /\ turn' = turn /\ reply' = reply
  BY DEF Publish, SoftDelete, SetRoles, Changed
<1>2. /\ served' \in [Document -> Nat] /\ deleted' \subseteq Document
      /\ allowed' \in [Document -> SUBSET Role]
  <2>1. CASE Publish(d)
    <3>1. PICK c \in Chunk : served' = [served EXCEPT ![d] = c.version]
      BY <2>1 DEF Publish
    <3>2. c.version \in Nat
      BY AnsweringAssumption
    <3> QED BY <2>1, <3>1, <3>2 DEF Publish, AnsweringInv, AnsweringTypeOK
  <2>2. CASE SoftDelete(d)
    BY <2>2 DEF SoftDelete, AnsweringInv, AnsweringTypeOK
  <2>3. CASE \E roles \in SUBSET Role : SetRoles(d, roles)
    BY <2>3 DEF SetRoles, AnsweringInv, AnsweringTypeOK
  <2> QED BY <2>1, <2>2, <2>3
<1>3. AnsweringTypeOK' /\ SeesTheIndex' /\ ServedFromIndex'
  BY <1>1, <1>2 DEF AnsweringInv, AnsweringTypeOK, SeesTheIndex, ServedFromIndex
<1>4. CitesWhatItSays'
  <2>1. Cited' = Cited
    BY <1>1 DEF Cited
  <2> QED BY <1>1, <2>1 DEF AnsweringInv, CitesWhatItSays
<1> QED BY <1>1, <1>3, <1>4 DEF AnsweringInv

LEMMA AnsweringInvariant == AnsweringSpec => []AnsweringInv
<1>1. AnsweringInv /\ [NextAnswering]_answeringVars => AnsweringInv'
  <2> SUFFICES ASSUME AnsweringInv, [NextAnswering]_answeringVars PROVE AnsweringInv'
    OBVIOUS
  <2>1. CASE Ask
    BY <2>1, AskKeeps
  <2>2. CASE ProbeEmpty
    BY <2>2, ProbeEmptyKeeps
  <2>3. CASE EmbeddingFails \/ Refuse
    BY <2>3, RefusalsKeep
  <2>4. CASE Probe
    BY <2>4, ProbeKeeps
  <2>5. CASE LexicalLeg
    BY <2>5, LexicalLegKeeps
  <2>6. CASE VectorLeg
    BY <2>6, VectorLegKeeps
  <2>7. CASE RestrictedMatches
    BY <2>7, RestrictedMatchesKeeps
  <2>8. CASE Write
    BY <2>8, WriteKeeps
  <2>9. CASE \E d \in Document :
               Publish(d) \/ SoftDelete(d) \/ \E roles \in SUBSET Role : SetRoles(d, roles)
    BY <2>9, IndexChangeKeeps
  <2>10. CASE UNCHANGED answeringVars
    <3>1. /\ served' = served /\ deleted' = deleted /\ allowed' = allowed
          /\ stage' = stage /\ turn' = turn /\ moved' = moved /\ reply' = reply
      BY <2>10 DEF answeringVars
    <3>2. AnsweringTypeOK' /\ IsList(turn'.final, Chunk)
      BY <3>1 DEF AnsweringInv, AnsweringTypeOK
    <3>5. CitesWhatItSays'
      <4>1. Cited' = Cited
        BY <3>1 DEF Cited
      <4> QED BY <3>1, <4>1 DEF AnsweringInv, CitesWhatItSays
    <3>3. SeesTheIndex'
      BY <3>1 DEF AnsweringInv, SeesTheIndex, Found, Indexed, MayRead
    <3>4. ServedFromIndex'
      BY <3>1 DEF AnsweringInv, ServedFromIndex, Cited, Found, Indexed, MayRead
    <3> QED BY <3>1, <3>2, <3>3, <3>4, <3>5 DEF AnsweringInv
  <2> QED BY <2>1, <2>2, <2>3, <2>4, <2>5, <2>6, <2>7, <2>8, <2>9, <2>10 DEF NextAnswering
<1> QED BY <1>1, InitAnsweringInv, PTL DEF AnsweringSpec

\* Whoever asks and whatever is published, deleted or closed meanwhile.
THEOREM AnswersFromIndex == AnsweringSpec => []ServedFromIndex
<1>1. AnsweringInv => ServedFromIndex
  BY DEF AnsweringInv
<1> QED BY <1>1, AnsweringInvariant, PTL

\* The legs, the answer and its citations are of chunks, and there is no reply
\* while a question is being answered.
THEOREM AnsweringType == AnsweringSpec => []AnsweringTypeOK
<1>1. AnsweringInv => AnsweringTypeOK
  BY DEF AnsweringInv
<1> QED BY <1>1, AnsweringInvariant, PTL

\* Every marker of an answer counts one of its citations, every citation is of a
\* chunk that the model was shown, and what is private is only in a repaired answer,
\* whatever the model writes and the guard replaces.
THEOREM AnswersCite == AnsweringSpec => []CitesWhatItSays
<1>1. AnsweringInv => CitesWhatItSays
  BY DEF AnsweringInv
<1> QED BY <1>1, AnsweringInvariant, PTL

-----------------------------------------------------------------------------
(* The recruitment assistant.                                              *)

LEMMA TitleFacts ==
  /\ Vacancy = 1 .. Len(Titles) /\ Len(Titles) \in Nat
  /\ \A v \in Vacancy : Titles[v] \in Seq(STRING) /\ Titles[v] # <<>> /\ Titles[v] # NoOne
  /\ NoOne \notin Vacancy /\ IsFiniteSet(Vacancy)
<1>1. /\ Vacancy = 1 .. Len(Titles) /\ Len(Titles) \in Nat
      /\ \A v \in Vacancy : Titles[v] \in Seq(STRING) \ {<<>>}
  <2> DEFINE T == Seq(STRING) \ {<<>>}
  <2>1. Titles \in Seq(T)
    BY AssistantAssumption
  <2> HIDE DEF T
  <2>2. Vacancy = 1 .. Len(Titles) /\ Len(Titles) \in Nat /\ \A v \in Vacancy : Titles[v] \in T
    BY <2>1 DEF Vacancy
  <2> QED BY <2>2 DEF T
<1>2. IsFiniteSet(Vacancy)
  BY <1>1, FS_Interval
<1>3. /\ NoOne \notin Vacancy
      /\ NoOne \notin {Titles[v] : v \in Vacancy}
  BY AssistantAssumption
<1>4. NoOne \notin Vacancy /\ \A v \in Vacancy : Titles[v] # NoOne
  BY <1>3
<1> QED BY <1>1, <1>2, <1>4

\* A set of one vacancy is what CHOOSE makes of it, and no other set has one.
LEMMA OnlyVacancy ==
  ASSUME NEW S \in SUBSET Vacancy, Cardinality(S) = 1
  PROVE  S = {CHOOSE v \in S : TRUE} /\ (CHOOSE v \in S : TRUE) \in Vacancy
<1>1. IsFiniteSet(S)
  BY TitleFacts, FS_Subset
<1>2. PICK x : S = {x}
  BY <1>1, FS_Singleton
<1> QED BY <1>2

LEMMA FirstVacancy ==
  ASSUME NEW S \in SUBSET Vacancy, S # {}
  PROVE  Min(S) \in S
<1>1. S \in SUBSET Nat
  BY TitleFacts
<1>2. PICK m \in S : \A k \in S : m <= k
  BY <1>1, LeastNat
<1> QED BY <1>2 DEF Min

-----------------------------------------------------------------------------
(* Words. *)

\* What find_matched_vacancy returns.
LEMMA MatchedFacts ==
  ASSUME opened \subseteq Vacancy, NEW words \in Seq(STRING)
  PROVE  /\ MatchedVacancy(words) \in Vacancy \cup {NoOne}
         /\ MatchedVacancy(words) # NoOne => MatchedVacancy(words) \in FoundIn(words)
<1> DEFINE exact == {v \in opened : Occurs(Titles[v], Bare(words))}
           partial == {v \in opened : TokensOccur(Titles[v], Bare(words))}
<1>1. exact \in SUBSET Vacancy /\ partial \in SUBSET Vacancy
  OBVIOUS
<1>2. MatchedVacancy(words) = IF Cardinality(exact) = 1 THEN CHOOSE v \in exact : TRUE
                              ELSE IF partial = {} THEN NoOne ELSE Min(partial)
  BY DEF MatchedVacancy
<1>3. CASE Cardinality(exact) = 1
  <2>1. (CHOOSE v \in exact : TRUE) \in exact
    <3> HIDE DEF exact
    <3> QED BY <1>1, <1>3, OnlyVacancy
  <2>2. MatchedVacancy(words) \in exact
    BY <1>2, <1>3, <2>1
  <2> QED BY <1>1, <2>2 DEF FoundIn
<1>4. CASE Cardinality(exact) # 1 /\ partial # {}
  <2>1. Min(partial) \in partial
    <3> HIDE DEF partial
    <3> QED BY <1>1, <1>4, FirstVacancy
  <2>2. MatchedVacancy(words) \in partial
    BY <1>2, <1>4, <2>1
  <2> QED BY <1>1, <2>2 DEF FoundIn
<1>5. CASE Cardinality(exact) # 1 /\ partial = {}
  BY <1>2, <1>5
<1> QED BY <1>3, <1>4, <1>5

\* An application is only chosen if it is the only one that is meant.
LEMMA ChoiceFacts ==
  ASSUME NEW title, NEW listed
  PROVE  /\ Choice(title, listed) \in Withdrawable(listed) \cup {NoOne}
         /\ Choice(title, listed) # NoOne =>
              Intended(title, listed) = {Choice(title, listed)}
<1>1. Intended(title, listed) \in SUBSET Vacancy
  BY DEF Intended, Withdrawable
<1>2. CASE Cardinality(Intended(title, listed)) = 1
  <2>1. Choice(title, listed) = CHOOSE v \in Intended(title, listed) : TRUE
    BY <1>2 DEF Choice
  <2>2. Intended(title, listed) = {Choice(title, listed)}
    BY <1>1, <1>2, <2>1, OnlyVacancy
  <2> QED BY <2>2 DEF Intended
<1>3. CASE Cardinality(Intended(title, listed)) # 1
  BY <1>3 DEF Choice
<1> QED BY <1>2, <1>3

-----------------------------------------------------------------------------
(* The turn. *)

\* Until a turn ends nothing is withdrawn, and its step tells who asks for what.
AlongTheTurn ==
  /\ talk.step # "idle" => outcome = NoOne /\ talk.request \in Requests
  /\ outcome = NoOne => \A v \in Vacancy : applied[v] # "WITHDRAWN"
  /\ talk.step = "review" => talk.who = "HR_ADMIN"
  /\ talk.step = "ask" => "withdraw" \notin talk.request.asks
  /\ talk.step = "listed" => talk.who = "CANDIDATE" /\ talk.listed \in [Vacancy -> ApplicationStatus]
  /\ talk.step \in {"find", "listed"} /\ "withdraw" \in talk.request.asks =>
       talk.title \in {NoOne} \cup {Titles[v] : v \in FoundIn(talk.request.words)}

AssistantInv == AssistantTypeOK /\ AlongTheTurn /\ WithdrawsWhatIsNamed

LEMMA InitAssistantInv == InitAssistant => AssistantInv
<1> SUFFICES ASSUME InitAssistant PROVE AssistantInv
  OBVIOUS
<1> USE DEF InitAssistant, NoTalk
<1>1. applied \in [Vacancy -> ApplicationStatus] /\ \A v \in Vacancy : applied[v] # "WITHDRAWN"
  BY DEF ApplicationStatus
<1>2. 0 \in 0 .. MaxChanges
  BY AssistantAssumption
<1>3. AssistantTypeOK
  BY <1>1, <1>2 DEF AssistantTypeOK
<1>4. AlongTheTurn
  BY <1>1 DEF AlongTheTurn
<1>5. WithdrawsWhatIsNamed
  BY DEF WithdrawsWhatIsNamed
<1> QED BY <1>3, <1>4, <1>5 DEF AssistantInv

LEMMA AskAssistantKeeps ==
  ASSUME AssistantInv,
         NEW who \in {"CANDIDATE", "VISITOR", "EMPLOYEE", "HR_ADMIN"}, NEW wish \in Requests,
         AskAssistant(who, wish)
  PROVE  AssistantInv'
<1>1. /\ Path(who, wish.asks) \in
           {"review", "refuse", "withdraw", "status", "apply", "ask"}
      /\ Path(who, wish.asks) = "review" => who = "HR_ADMIN"
      /\ Path(who, wish.asks) = "ask" => "withdraw" \notin wish.asks
  BY DEF Path
<1> DEFINE step == Path(who, wish.asks)
<1>2. talk' = [step |-> step, who |-> who, request |-> wish, title |-> NoOne, listed |-> NoOne]
  BY DEF AskAssistant, NoTalk
<1>3. outcome = NoOne /\ outcome' = NoOne /\ opened' = opened /\ applied' = applied /\ changes' = changes
  BY DEF AskAssistant
<1> HIDE DEF step
<1>4. AssistantTypeOK'
  BY <1>1, <1>2, <1>3 DEF AssistantInv, AssistantTypeOK, step
<1>5. AlongTheTurn'
  BY <1>1, <1>2, <1>3 DEF AssistantInv, AlongTheTurn, step
<1>6. WithdrawsWhatIsNamed'
  BY <1>3 DEF WithdrawsWhatIsNamed
<1> QED BY <1>4, <1>5, <1>6 DEF AssistantInv

\* A turn that ends without a withdrawal.
LEMMA EndTurnKeeps ==
  ASSUME AssistantInv, talk.step # "idle",
         NEW kind \in {"refused", "review", "status", "form", "transfer", "vacancy", "list", "reply", "which"},
         NEW vacancies \in SUBSET Vacancy, NEW applications \in SUBSET Vacancy,
         applications # {} => talk.who \in {"CANDIDATE", "HR_ADMIN"},
         EndTurn(Told(kind, vacancies, applications))
  PROVE  AssistantInv'
<1>1. /\ talk' = [talk EXCEPT !.step = "idle"] /\ outcome' = Told(kind, vacancies, applications)
      /\ opened' = opened /\ applied' = applied /\ changes' = changes
  BY DEF EndTurn
<1>2. /\ outcome' \in Endings /\ outcome'.withdrawn = NoOne
      /\ outcome'.applications = applications
  BY <1>1 DEF Told, Endings
<1>3. outcome' # NoOne
  BY <1>2, AssistantAssumption
<1>4. AssistantTypeOK' /\ talk'.step = "idle" /\ talk'.who = talk.who
  BY <1>1, <1>2 DEF AssistantInv, AssistantTypeOK, Endings
<1>5. AlongTheTurn'
  BY <1>3, <1>4 DEF AlongTheTurn
<1>6. \A v \in Vacancy : applied[v] # "WITHDRAWN"
  BY DEF AssistantInv, AlongTheTurn
<1>7. WithdrawsWhatIsNamed'
  BY <1>1, <1>2, <1>4, <1>6 DEF WithdrawsWhatIsNamed
<1> QED BY <1>4, <1>5, <1>7 DEF AssistantInv

LEMMA OwnFacts ==
  ASSUME NEW who
  PROVE  /\ Own(who) \in SUBSET Vacancy
         /\ Own(who) # {} => who = "CANDIDATE"
BY DEF Own

LEMMA TellingKeeps ==
  ASSUME AssistantInv,
         RefuseOthers \/ ReviewApplications \/ TellStatus \/ ApplyHelp \/ Inform \/ AskWhich
  PROVE  AssistantInv'
<1>1. opened \subseteq Vacancy
  BY DEF AssistantInv, AssistantTypeOK
<1>2. Visible(talk.who) \in SUBSET Vacancy
  BY <1>1 DEF Visible
<1>3. talk.step # "idle" =>
        /\ talk.request \in Requests /\ talk.request.words \in Seq(STRING)
        /\ MatchedVacancy(talk.request.words) \in Vacancy \cup {NoOne}
  <2> SUFFICES ASSUME talk.step # "idle" 
               PROVE  /\ talk.request \in Requests /\ talk.request.words \in Seq(STRING)
                      /\ MatchedVacancy(talk.request.words) \in Vacancy \cup {NoOne}
    OBVIOUS
  <2>1. talk.request \in Requests
    BY DEF AssistantInv, AlongTheTurn
  <2>2. talk.request.words \in Seq(STRING)
    BY <2>1, AssistantAssumption
  <2> QED BY <1>1, <2>1, <2>2, MatchedFacts
<1> DEFINE matched == MatchedVacancy(talk.request.words)
<1>4. CASE RefuseOthers
  <2>1. talk.step # "idle" /\ EndTurn(Told("refused", {}, {}))
    BY <1>4 DEF RefuseOthers
  <2> QED BY <2>1, EndTurnKeeps
<1>5. CASE ReviewApplications
  <2>1. talk.step = "review" /\ talk.who = "HR_ADMIN"
    BY <1>5 DEF ReviewApplications, AssistantInv, AlongTheTurn
  <2>2. PICK applications \in SUBSET Vacancy : EndTurn(Told("review", {}, applications))
    BY <1>5 DEF ReviewApplications
  <2> QED BY <2>1, <2>2, EndTurnKeeps
<1>6. CASE TellStatus
  <2>1. talk.step # "idle" /\ EndTurn(Told("status", {}, Own(talk.who)))
    BY <1>6 DEF TellStatus
  <2> QED BY <2>1, OwnFacts, EndTurnKeeps
<1>7. CASE ApplyHelp
  <2>1. /\ talk.step # "idle"
        /\ EndTurn(Told(IF talk.who \in {"CANDIDATE", "VISITOR"} THEN "form" ELSE "transfer",
                        IF matched # NoOne THEN {matched} ELSE Visible(talk.who), {}))
    BY <1>7 DEF ApplyHelp
  <2>2. (IF matched # NoOne THEN {matched} ELSE Visible(talk.who)) \in SUBSET Vacancy
    BY <1>2, <1>3, <2>1
  <2> HIDE DEF matched
  <2>3. CASE talk.who \in {"CANDIDATE", "VISITOR"}
    BY <2>1, <2>2, <2>3, EndTurnKeeps
  <2>4. CASE talk.who \notin {"CANDIDATE", "VISITOR"}
    BY <2>1, <2>2, <2>4, EndTurnKeeps
  <2> QED BY <2>3, <2>4
<1>8. CASE Inform
  <2>0. talk.step # "idle"
    BY <1>8 DEF Inform
  <2>1. \/ matched # NoOne /\ EndTurn(Told("vacancy", {matched}, {}))
        \/ EndTurn(Told("list", Visible(talk.who), {}))
        \/ EndTurn(Told("reply", {}, {}))
        \/ \E v \in Visible(talk.who) : EndTurn(Told("vacancy", {v}, {}))
        \/ EndTurn(Told("status", {}, Own(talk.who)))
    BY <1>8 DEF Inform
  <2>2. matched # NoOne => {matched} \in SUBSET Vacancy
    BY <1>3, <2>0
  <2> HIDE DEF matched
  <2>3. CASE matched # NoOne /\ EndTurn(Told("vacancy", {matched}, {}))
    BY <2>0, <2>2, <2>3, EndTurnKeeps
  <2>4. CASE EndTurn(Told("list", Visible(talk.who), {}))
    BY <1>2, <2>0, <2>4, EndTurnKeeps
  <2>5. CASE EndTurn(Told("reply", {}, {}))
    BY <2>0, <2>5, EndTurnKeeps
  <2>6. ASSUME NEW v \in Visible(talk.who), EndTurn(Told("vacancy", {v}, {}))
        PROVE  AssistantInv'
    <3>1. {v} \in SUBSET Vacancy
      BY <1>2
    <3> QED BY <2>0, <2>6, <3>1, EndTurnKeeps
  <2>7. CASE EndTurn(Told("status", {}, Own(talk.who)))
    BY <2>0, <2>7, OwnFacts, EndTurnKeeps
  <2> QED BY <2>1, <2>3, <2>4, <2>5, <2>6, <2>7
<1>9. CASE AskWhich
  <2>1. talk.step # "idle" /\ EndTurn(Told("which", {}, Own(talk.who)))
    BY <1>9 DEF AskWhich
  <2> QED BY <2>1, OwnFacts, EndTurnKeeps
<1> QED BY <1>4, <1>5, <1>6, <1>7, <1>8, <1>9

\* The steps that look for the application.
LEMMA FindingKeeps ==
  ASSUME AssistantInv, FindVacancy \/ ModelWithdraws \/ ListApplications
  PROVE  AssistantInv'
<1>1. /\ outcome = NoOne /\ outcome' = outcome /\ talk.step # "idle" /\ talk.request \in Requests
      /\ opened' = opened /\ applied' = applied /\ changes' = changes
  BY DEF FindVacancy, ModelWithdraws, ListApplications, AssistantInv, AlongTheTurn
<1>2. talk.request.words \in Seq(STRING) /\ opened \subseteq Vacancy
  BY <1>1, AssistantAssumption DEF AssistantInv, AssistantTypeOK
<1>3. WithdrawsWhatIsNamed'
  BY <1>1 DEF WithdrawsWhatIsNamed
<1>4. CASE FindVacancy
  <2> DEFINE matched == MatchedVacancy(talk.request.words)
             title == IF matched = NoOne THEN NoOne ELSE Titles[matched]
  <2>1. talk' = [talk EXCEPT !.step = "find", !.title = title]
    BY <1>4 DEF FindVacancy
  <2>2. /\ matched \in Vacancy \cup {NoOne}
        /\ matched # NoOne => matched \in FoundIn(talk.request.words)
    BY <1>2, MatchedFacts
  <2>3. /\ title \in {Titles[v] : v \in Vacancy} \cup {NoOne}
        /\ title \in {NoOne} \cup {Titles[v] : v \in FoundIn(talk.request.words)}
    <3> HIDE DEF matched
    <3> QED BY <2>2
  <2> HIDE DEF matched, title
  <2>4. AssistantTypeOK' /\ talk'.step = "find" /\ talk'.title = title /\ talk'.request = talk.request
    BY <1>1, <2>1, <2>3 DEF AssistantInv, AssistantTypeOK
  <2>5. AlongTheTurn'
    BY <1>1, <2>3, <2>4 DEF AssistantInv, AlongTheTurn, FoundIn
  <2> QED BY <1>3, <2>4, <2>5 DEF AssistantInv
<1>5. CASE ModelWithdraws
  <2>1. PICK title \in {Titles[v] : v \in Vacancy} \cup {NoOne} :
          talk' = [talk EXCEPT !.step = "find", !.title = title]
    BY <1>5 DEF ModelWithdraws
  <2>2. talk.step = "ask" /\ "withdraw" \notin talk.request.asks
    BY <1>5 DEF ModelWithdraws, AssistantInv, AlongTheTurn
  <2>3. AssistantTypeOK' /\ talk'.step = "find" /\ talk'.request = talk.request
    BY <1>1, <2>1 DEF AssistantInv, AssistantTypeOK
  <2>4. AlongTheTurn'
    BY <1>1, <2>2, <2>3 DEF AssistantInv, AlongTheTurn
  <2> QED BY <1>3, <2>3, <2>4 DEF AssistantInv
<1>6. CASE ListApplications
  <2>1. /\ talk.step = "find" /\ talk.who = "CANDIDATE"
        /\ talk' = [talk EXCEPT !.step = "listed", !.listed = applied]
    BY <1>6 DEF ListApplications
  <2>2. /\ AssistantTypeOK' /\ talk'.step = "listed" /\ talk'.request = talk.request
        /\ talk'.who = talk.who /\ talk'.title = talk.title /\ talk'.listed = applied
        /\ applied \in [Vacancy -> ApplicationStatus]
    BY <1>1, <2>1 DEF AssistantInv, AssistantTypeOK
  <2>3. AlongTheTurn'
    BY <1>1, <2>1, <2>2 DEF AssistantInv, AlongTheTurn, FoundIn
  <2> QED BY <1>3, <2>2, <2>3 DEF AssistantInv
<1> QED BY <1>4, <1>5, <1>6

\* A withdrawal.
LEMMA WithdrawalKeeps ==
  ASSUME AssistantInv, WithdrawNamed \/ ModelWithdrawsById
  PROVE  AssistantInv'
<1>1. PICK v \in Vacancy :
        /\ applied' = [applied EXCEPT ![v] = "WITHDRAWN"]
        /\ outcome' = [Told("withdrawn", {}, Own("CANDIDATE")) EXCEPT !.withdrawn = v]
        /\ talk.who = "CANDIDATE" /\ talk.step # "idle"
        /\ talk'.step = "idle" /\ talk'.who = "CANDIDATE" /\ talk'.request = talk.request
        /\ talk' \in [step : {"idle", "review", "refuse", "withdraw", "status", "apply", "ask", "find", "listed"},
                      who : {"CANDIDATE", "VISITOR", "EMPLOYEE", "HR_ADMIN", NoOne},
                      request : Requests \cup {NoOne},
                      title : {Titles[x] : x \in Vacancy} \cup {NoOne},
                      listed : [Vacancy -> ApplicationStatus] \cup {NoOne}]
        /\ \A x \in Withdrawable(talk'.listed) :
             "withdraw" \in talk.request.asks /\ x \in CanMean(talk.request.words) => v = x
        /\ talk'.title = NoOne => Withdrawable(talk'.listed) = {v}
  <2>1. CASE WithdrawNamed
    <3> DEFINE v == Choice(talk.title, talk.listed)
    <3>1. /\ talk.step = "listed" /\ v # NoOne
          /\ applied' = [applied EXCEPT ![v] = "WITHDRAWN"]
          /\ outcome' = [Told("withdrawn", {}, Own("CANDIDATE")) EXCEPT !.withdrawn = v]
          /\ talk' = [talk EXCEPT !.step = "idle"]
      BY <2>1 DEF WithdrawNamed
    <3>2. v \in Withdrawable(talk.listed) /\ Intended(talk.title, talk.listed) = {v}
      BY <3>1, ChoiceFacts
    <3>3. v \in Vacancy
      BY <3>2 DEF Withdrawable
    <3> HIDE DEF v
    <3>4. /\ talk' \in [step : {"idle", "review", "refuse", "withdraw", "status", "apply", "ask", "find", "listed"},
                        who : {"CANDIDATE", "VISITOR", "EMPLOYEE", "HR_ADMIN", NoOne},
                        request : Requests \cup {NoOne},
                        title : {Titles[x] : x \in Vacancy} \cup {NoOne},
                        listed : [Vacancy -> ApplicationStatus] \cup {NoOne}]
          /\ talk'.step = "idle" /\ talk'.who = talk.who /\ talk'.request = talk.request
          /\ talk'.title = talk.title /\ talk'.listed = talk.listed
      BY <3>1 DEF AssistantInv, AssistantTypeOK
    <3>5. talk.who = "CANDIDATE"
      BY <3>1 DEF AssistantInv, AlongTheTurn
    <3>6. talk.title = NoOne => Withdrawable(talk.listed) = {v}
      BY <3>2 DEF Intended
    <3>7. ASSUME NEW x \in Withdrawable(talk.listed),
                 "withdraw" \in talk.request.asks, x \in CanMean(talk.request.words)
          PROVE  v = x
      <4>1. x \in Vacancy
        BY DEF Withdrawable
      <4>2. talk.title \in {NoOne} \cup {Titles[u] : u \in FoundIn(talk.request.words)}
        BY <3>1, <3>7 DEF AssistantInv, AlongTheTurn
      <4>3. CASE talk.title = NoOne
        BY <3>6, <4>3
      <4>4. ASSUME NEW u \in FoundIn(talk.request.words), talk.title = Titles[u] PROVE v = x
        <5>1. Akin(Titles[u], Titles[x])
          BY <3>7 DEF CanMean
        <5>2. Akin(Titles[x], talk.title)
          BY <4>4, <5>1 DEF Akin
        <5>3. talk.title # NoOne
          BY <4>4, TitleFacts DEF FoundIn
        <5>4. x \in Intended(talk.title, talk.listed)
          BY <5>2, <5>3 DEF Intended
        <5> QED BY <3>2, <5>4
      <4> QED BY <4>2, <4>3, <4>4
    <3>8. \A x \in Withdrawable(talk'.listed) :
            "withdraw" \in talk.request.asks /\ x \in CanMean(talk.request.words) => v = x
      BY <3>4, <3>7
    <3> QED BY <3>1, <3>3, <3>4, <3>5, <3>6, <3>8
  <2>2. CASE ModelWithdrawsById
    <3>1. PICK v \in Withdrawable(applied) :
            /\ applied' = [applied EXCEPT ![v] = "WITHDRAWN"]
            /\ outcome' = [Told("withdrawn", {}, Own("CANDIDATE")) EXCEPT !.withdrawn = v]
            /\ talk' = [talk EXCEPT !.step = "idle", !.title = Titles[v], !.listed = applied]
      BY <2>2 DEF ModelWithdrawsById
    <3>2. talk.step = "ask" /\ talk.who = "CANDIDATE" /\ "withdraw" \notin talk.request.asks
      BY <2>2 DEF ModelWithdrawsById, AssistantInv, AlongTheTurn
    <3>3. v \in Vacancy /\ Titles[v] # NoOne
      BY TitleFacts DEF Withdrawable
    <3>4. /\ talk' \in [step : {"idle", "review", "refuse", "withdraw", "status", "apply", "ask", "find", "listed"},
                        who : {"CANDIDATE", "VISITOR", "EMPLOYEE", "HR_ADMIN", NoOne},
                        request : Requests \cup {NoOne},
                        title : {Titles[x] : x \in Vacancy} \cup {NoOne},
                        listed : [Vacancy -> ApplicationStatus] \cup {NoOne}]
          /\ talk'.step = "idle" /\ talk'.who = talk.who /\ talk'.request = talk.request
          /\ talk'.title = Titles[v]
      BY <3>1, <3>3 DEF AssistantInv, AssistantTypeOK
    <3> QED BY <3>1, <3>2, <3>3, <3>4
  <2> QED BY <2>1, <2>2
<1>2. /\ opened' = opened /\ changes' = changes
      /\ outcome = NoOne /\ \A x \in Vacancy : applied[x] # "WITHDRAWN"
  BY <1>1 DEF WithdrawNamed, ModelWithdrawsById, AssistantInv, AlongTheTurn
<1>3. /\ outcome' \in Endings /\ outcome'.withdrawn = v
  BY <1>1, OwnFacts DEF Told, Endings
<1>4. outcome' # NoOne
  BY <1>3, AssistantAssumption
<1>5. /\ applied' \in [Vacancy -> ApplicationStatus] /\ applied'[v] = "WITHDRAWN"
      /\ \A x \in Vacancy : applied'[x] = "WITHDRAWN" => x = v
  BY <1>1, <1>2 DEF AssistantInv, AssistantTypeOK, ApplicationStatus
<1>6. AssistantTypeOK'
  BY <1>1, <1>2, <1>3, <1>5 DEF AssistantInv, AssistantTypeOK, Endings
<1>7. AlongTheTurn'
  BY <1>1, <1>4 DEF AlongTheTurn
<1>8. WithdrawsWhatIsNamed'
  <2>1. \A x : Withdrawable(talk'.listed) = Withdrawable(talk.listed)' /\ CanMean(talk'.request.words) = CanMean(talk.request.words)'
    BY DEF Withdrawable, CanMean, FoundIn
  <2> QED BY <1>1, <1>3, <1>5, <2>1 DEF WithdrawsWhatIsNamed
<1> QED BY <1>6, <1>7, <1>8 DEF AssistantInv

LEMMA ManagersKeep ==
  ASSUME AssistantInv, NEW v \in Vacancy, ToggleVacancy(v) \/ DecideApplication(v)
  PROVE  AssistantInv'
<1>1. /\ talk' = talk /\ outcome' = outcome /\ talk.step # "idle" /\ outcome = NoOne
      /\ changes' = changes + 1 /\ changes < MaxChanges
  BY DEF ToggleVacancy, DecideApplication, Managed, AssistantInv, AlongTheTurn
<1>2. changes' \in 0 .. MaxChanges
  BY <1>1, AssistantAssumption DEF AssistantInv, AssistantTypeOK
<1>3. /\ opened' \subseteq Vacancy /\ applied' \in [Vacancy -> ApplicationStatus]
      /\ \A x \in Vacancy : applied'[x] # "WITHDRAWN"
  <2>1. /\ opened \subseteq Vacancy /\ applied \in [Vacancy -> ApplicationStatus]
        /\ \A x \in Vacancy : applied[x] # "WITHDRAWN"
    BY <1>1 DEF AssistantInv, AssistantTypeOK, AlongTheTurn
  <2>2. CASE ToggleVacancy(v)
    BY <2>1, <2>2 DEF ToggleVacancy
  <2>3. CASE DecideApplication(v)
    <3>1. PICK decision \in {"SHORTLISTED", "REJECTED"} : applied' = [applied EXCEPT ![v] = decision]
      BY <2>3 DEF DecideApplication
    <3> QED BY <2>1, <2>3, <3>1 DEF DecideApplication, ApplicationStatus
  <2> QED BY <2>2, <2>3
<1>4. AssistantTypeOK'
  BY <1>1, <1>2, <1>3 DEF AssistantInv, AssistantTypeOK
<1>5. AlongTheTurn'
  BY <1>1, <1>3 DEF AssistantInv, AlongTheTurn, FoundIn
<1>6. WithdrawsWhatIsNamed'
  BY <1>1 DEF WithdrawsWhatIsNamed
<1> QED BY <1>4, <1>5, <1>6 DEF AssistantInv

LEMMA AssistantInvariant == AssistantSpec => []AssistantInv
<1>1. AssistantInv /\ [NextAssistant]_assistantVars => AssistantInv'
  <2> SUFFICES ASSUME AssistantInv, [NextAssistant]_assistantVars PROVE AssistantInv'
    OBVIOUS
  <2>1. CASE \E who \in {"CANDIDATE", "VISITOR", "EMPLOYEE", "HR_ADMIN"}, wish \in Requests :
               AskAssistant(who, wish)
    BY <2>1, AskAssistantKeeps
  <2>2. CASE RefuseOthers \/ ReviewApplications \/ TellStatus \/ ApplyHelp \/ Inform \/ AskWhich
    BY <2>2, TellingKeeps
  <2>3. CASE FindVacancy \/ ModelWithdraws \/ ListApplications
    BY <2>3, FindingKeeps
  <2>4. CASE WithdrawNamed \/ ModelWithdrawsById
    BY <2>4, WithdrawalKeeps
  <2>5. CASE \E v \in Vacancy : ToggleVacancy(v) \/ DecideApplication(v)
    BY <2>5, ManagersKeep
  <2>6. CASE UNCHANGED assistantVars
    <3>1. /\ opened' = opened /\ applied' = applied /\ changes' = changes
          /\ talk' = talk /\ outcome' = outcome
      BY <2>6 DEF assistantVars
    <3>2. AssistantTypeOK'
      BY <3>1 DEF AssistantInv, AssistantTypeOK
    <3>3. AlongTheTurn'
      BY <3>1 DEF AssistantInv, AlongTheTurn, FoundIn
    <3>4. WithdrawsWhatIsNamed'
      BY <3>1 DEF AssistantInv, WithdrawsWhatIsNamed, CanMean, FoundIn, Withdrawable
    <3> QED BY <3>2, <3>3, <3>4 DEF AssistantInv
  <2> QED BY <2>1, <2>2, <2>3, <2>4, <2>5, <2>6 DEF NextAssistant
<1> QED BY <1>1, InitAssistantInv, PTL DEF AssistantSpec

\* Whoever asks for what, and whatever managers do between the steps of a turn.
THEOREM AssistantType == AssistantSpec => []AssistantTypeOK
<1>1. AssistantInv => AssistantTypeOK
  BY DEF AssistantInv
<1> QED BY <1>1, AssistantInvariant, PTL

\* Nothing is withdrawn but the candidate's own application that the message names,
\* or the only one there is to withdraw, whatever managers do meanwhile.
THEOREM AssistantWithdrawsWhatIsNamed == AssistantSpec => []WithdrawsWhatIsNamed
<1>1. AssistantInv => WithdrawsWhatIsNamed
  BY DEF AssistantInv
<1> QED BY <1>1, AssistantInvariant, PTL

-----------------------------------------------------------------------------
(* The settings, for every text, file and number of requests.  First what   *)
(* comes back of a text that is written: every character function of the    *)
(* quoting is a run over the text, from left to right, and what holds of    *)
(* runs is shown of the shortest text of which it would not hold.           *)

\* A set of sequences that is not empty has a member that is empty, or one that
\* extends a sequence outside of it: induction, for what is said of a set.
LEMMA ShortestOf ==
  ASSUME NEW C, NEW B \in SUBSET Seq(C), B # {}
  PROVE  <<>> \in B \/ \E s \in Seq(C), x \in C : Append(s, x) \in B /\ s \notin B
<1> DEFINE N == {Len(s) : s \in B}
<1>1. N \in SUBSET Nat /\ N # {}
  <2>1. \A s \in B : Len(s) \in Nat
    OBVIOUS
  <2> QED BY <2>1
<1>2. PICK m \in N : \A k \in N : m <= k
  <2> HIDE DEF N
  <2> QED BY <1>1, LeastNat
<1>3. PICK t \in B : Len(t) = m
  OBVIOUS
<1>4. CASE t = <<>>
  BY <1>4
<1>5. CASE t # <<>>
  <2>1. PICK s \in Seq(C), x \in C : t = Append(s, x)
    BY <1>5, SequenceEmptyOrAppend
  <2>2. Len(t) = Len(s) + 1 /\ Len(s) \in Nat
    BY <2>1
  <2>3. s \notin B
    <3>1. SUFFICES ASSUME s \in B PROVE FALSE
      OBVIOUS
    <3>2. m <= Len(s)
      BY <1>2, <3>1
    <3> QED BY <1>3, <2>2, <3>2
  <2> QED BY <2>1, <2>3
<1> QED BY <1>4, <1>5

\* A function that goes through a sequence, one step for each of its members.
IsRun(f, z, step, s) ==
  f = [i \in 0 .. Len(s) |-> IF i = 0 THEN z ELSE step[<<f[i - 1], s[i]>>]]

LEMMA RunExists ==
  ASSUME NEW A, NEW S, NEW z \in A, NEW step \in [A \X S -> A], NEW s \in Seq(S)
  PROVE  \E f \in [0 .. Len(s) -> A] : IsRun(f, z, step, s)
<1> DEFINE B == {t \in Seq(S) : ~ \E f \in [0 .. Len(t) -> A] : IsRun(f, z, step, t)}
<1>1. SUFFICES ASSUME B # {} PROVE FALSE
  OBVIOUS
<1>2. <<>> \notin B
  <2>1. <<>> \in Seq(S) /\ Len(<<>>) = 0
    OBVIOUS
  <2>2. [i \in 0 .. 0 |-> z] \in [0 .. 0 -> A] /\ \A i \in 0 .. 0 : i = 0
    OBVIOUS
  <2>3. IsRun([i \in 0 .. 0 |-> z], z, step, <<>>)
    BY <2>1, <2>2 DEF IsRun
  <2> QED BY <2>1, <2>2, <2>3
<1>3. PICK t \in Seq(S), x \in S : Append(t, x) \in B /\ t \notin B
  <2>1. B \in SUBSET Seq(S)
    OBVIOUS
  <2> HIDE DEF B
  <2> QED BY <1>1, <1>2, <2>1, ShortestOf
<1>4. PICK f \in [0 .. Len(t) -> A] : IsRun(f, z, step, t)
  BY <1>3
<1> DEFINE n == Len(t)
           u == Append(t, x)
           g == [i \in 0 .. n + 1 |-> IF i = n + 1 THEN step[<<f[n], x>>] ELSE f[i]]
<1>5. n \in Nat /\ Len(u) = n + 1 /\ u[n + 1] = x /\ \A i \in 1 .. n : u[i] = t[i]
  OBVIOUS
<1>6. \A i \in 0 .. n : f[i] \in A /\ f[i] = IF i = 0 THEN z ELSE step[<<f[i - 1], t[i]>>]
  <2>1. f = [i \in 0 .. Len(t) |-> IF i = 0 THEN z ELSE step[<<f[i - 1], t[i]>>]]
    BY <1>4 DEF IsRun
  <2> QED BY <2>1
<1> HIDE DEF u, n
<1>7. step[<<f[n], x>>] \in A
  <2>1. n \in 0 .. n
    BY <1>5
  <2>2. <<f[n], x>> \in A \X S
    BY <1>6, <2>1
  <2> QED BY <2>2
<1>8. /\ \A i \in 0 .. n : g[i] = f[i]
      /\ g[n + 1] = step[<<f[n], x>>]
      /\ DOMAIN g = 0 .. n + 1
  BY <1>5
<1>9. g \in [0 .. n + 1 -> A]
  <2>1. \A i \in 0 .. n + 1 : (i \in 0 .. n \/ i = n + 1) /\ (i # n + 1 => i \in 0 .. n)
    BY <1>5
  <2>2. \A i \in 0 .. n + 1 : (IF i = n + 1 THEN step[<<f[n], x>>] ELSE f[i]) \in A
    BY <1>6, <1>7, <2>1
  <2> QED BY <2>2
<1>10. \A i \in 0 .. n + 1 : g[i] = IF i = 0 THEN z ELSE step[<<g[i - 1], u[i]>>]
  <2> HIDE DEF g
  <2> TAKE i \in 0 .. n + 1
  <2>1. CASE i = n + 1
    <3>1. i # 0 /\ i - 1 = n /\ n \in 0 .. n
      BY <1>5, <2>1
    <3> QED BY <1>5, <1>8, <2>1, <3>1
  <2>2. CASE i # n + 1 /\ i # 0
    <3>1. i \in 0 .. n /\ i - 1 \in 0 .. n /\ i \in 1 .. n
      BY <1>5, <2>2
    <3> QED BY <1>5, <1>6, <1>8, <2>2, <3>1
  <2>3. CASE i = 0
    <3>1. 0 \in 0 .. n
      BY <1>5
    <3> QED BY <1>6, <1>8, <2>3, <3>1
  <2> QED BY <2>1, <2>2, <2>3
<1>11. IsRun(g, z, step, u)
  <2> HIDE DEF g
  <2>1. g = [i \in 0 .. n + 1 |-> g[i]]
    BY <1>9
  <2>2. g = [i \in 0 .. n + 1 |-> IF i = 0 THEN z ELSE step[<<g[i - 1], u[i]>>]]
    BY <1>10, <2>1
  <2> QED BY <1>5, <2>2 DEF IsRun
<1> QED BY <1>3, <1>5, <1>9, <1>11 DEF u

\* What a run makes of a sequence does not depend on what follows.
LEMMA RunExtends ==
  ASSUME NEW S, NEW z, NEW step, NEW s \in Seq(S), NEW x \in S,
         NEW f, IsRun(f, z, step, s), NEW g, IsRun(g, z, step, Append(s, x))
  PROVE  g[Len(s) + 1] = step[<<f[Len(s)], x>>]
<1> DEFINE n == Len(s)
           t == Append(s, x)
<1>1. n \in Nat /\ Len(t) = n + 1 /\ t[n + 1] = x /\ \A i \in 1 .. n : t[i] = s[i]
  OBVIOUS
<1>2. \A i \in 0 .. n : f[i] = IF i = 0 THEN z ELSE step[<<f[i - 1], s[i]>>]
  <2>1. f = [i \in 0 .. n |-> IF i = 0 THEN z ELSE step[<<f[i - 1], s[i]>>]]
    BY DEF IsRun
  <2> HIDE DEF n
  <2> QED BY <2>1
<1>3. \A i \in 0 .. n + 1 : g[i] = IF i = 0 THEN z ELSE step[<<g[i - 1], t[i]>>]
  <2>1. g = [i \in 0 .. Len(t) |-> IF i = 0 THEN z ELSE step[<<g[i - 1], t[i]>>]]
    BY DEF IsRun
  <2> HIDE DEF n, t
  <2> QED BY <1>1, <2>1
<1> HIDE DEF n, t
<1> DEFINE N == {i \in 0 .. n : f[i] # g[i]}
<1>4. N = {}
  <2>1. SUFFICES ASSUME N # {} PROVE FALSE
    OBVIOUS
  <2>2. N \in SUBSET Nat
    BY <1>1
  <2>3. PICK m \in N : \A k \in N : m <= k
    <3> HIDE DEF N
    <3> QED BY <2>1, <2>2, LeastNat
  <2>4. m \in 0 .. n /\ m \in 0 .. n + 1 /\ f[m] # g[m]
    BY <1>1
  <2>5. m # 0
    <3>1. 0 \in 0 .. n /\ 0 \in 0 .. n + 1
      BY <1>1
    <3>2. f[0] = z /\ g[0] = z
      BY <1>2, <1>3, <3>1
    <3> QED BY <2>4, <3>2
  <2>6. m - 1 \in 0 .. n /\ m \in 1 .. n /\ ~(m <= m - 1)
    BY <1>1, <2>4, <2>5
  <2>7. f[m - 1] = g[m - 1]
    BY <2>3, <2>6
  <2> QED BY <1>1, <1>2, <1>3, <2>4, <2>5, <2>6, <2>7
<1>5. n \in 0 .. n /\ n + 1 \in 0 .. n + 1 /\ n + 1 # 0 /\ n + 1 - 1 = n
  BY <1>1
<1>6. g[n + 1] = step[<<g[n], x>>]
  BY <1>1, <1>3, <1>5
<1>7. f[n] = g[n]
  BY <1>4, <1>5
<1> QED BY <1>6, <1>7 DEF n

Joining(C) == [p \in Seq(C) \X Seq(C) |-> p[1] \o p[2]]

\* FlattenSeq joins one sequence after the other.
LEMMA FlattenIsRun ==
  ASSUME NEW C, NEW q \in Seq(Seq(C))
  PROVE  \E f \in [0 .. Len(q) -> Seq(C)] :
           IsRun(f, <<>>, Joining(C), q) /\ FlattenSeq(q) = f[Len(q)]
<1> DEFINE S == Seq(C)
           n == Len(q)
           step == Joining(C)
<1>1. /\ n \in Nat /\ q \in Seq(S) /\ \A i \in 1 .. n : q[i] \in S
      /\ <<>> \in S /\ step \in [S \X S -> S]
      /\ \A a, b \in S : a \o b \in S /\ step[<<a, b>>] = a \o b /\ <<>> \o a = a
  <2>1. n \in Nat /\ q \in Seq(S) /\ \A i \in 1 .. n : q[i] \in S
    <3> HIDE DEF S
    <3>1. q \in Seq(S)
      BY DEF S
    <3> QED BY <3>1
  <2>2. \A a, b \in S : a \o b \in S /\ <<>> \o a = a
    BY ConcatProperties, ConcatEmptySeq
  <2>3. step \in [S \X S -> S] /\ \A a, b \in S : step[<<a, b>>] = a \o b
    <3>1. \A p \in S \X S : p[1] \o p[2] \in S
      BY <2>2
    <3>2. step = [p \in S \X S |-> p[1] \o p[2]]
      BY DEF Joining
    <3> HIDE DEF S, step
    <3> QED BY <3>1, <3>2
  <2>4. <<>> \in S
    OBVIOUS
  <2> HIDE DEF S, n, step
  <2> QED BY <2>1, <2>2, <2>3, <2>4
<1> HIDE DEF S, n, step
<1>2. PICK f \in [0 .. n -> S] : IsRun(f, <<>>, step, q)
  BY <1>1, RunExists DEF n
<1>3. \A i \in 0 .. n : f[i] \in S /\ f[i] = IF i = 0 THEN <<>> ELSE step[<<f[i - 1], q[i]>>]
  <2>1. f = [i \in 0 .. n |-> IF i = 0 THEN <<>> ELSE step[<<f[i - 1], q[i]>>]]
    BY <1>2 DEF IsRun, n
  <2> QED BY <1>2, <2>1
<1>4. \A i \in 1 .. n : f[i] = f[i - 1] \o q[i] /\ f[i] = IF i = 1 THEN q[i] ELSE f[i - 1] \o q[i]
  <2> TAKE i \in 1 .. n
  <2>1. i \in 0 .. n /\ i - 1 \in 0 .. n /\ i # 0 /\ 0 \in 0 .. n /\ (i = 1 => i - 1 = 0)
    BY <1>1
  <2>2. f[i] = f[i - 1] \o q[i]
    BY <1>1, <1>3, <2>1
  <2>3. ASSUME i = 1 PROVE f[i] = q[i]
    BY <1>1, <1>3, <2>1, <2>2, <2>3
  <2> QED BY <2>2, <2>3
<1>5. CASE n = 0
  <2>1. FlattenSeq(q) = q /\ q = <<>>
    <3>1. q = <<>>
      BY <1>1, <1>5 DEF n
    <3> QED BY <1>5, <3>1 DEF FlattenSeq, n
  <2>2. f[n] = <<>>
    <3>1. 0 \in 0 .. n
      BY <1>1
    <3> QED BY <1>3, <1>5, <3>1
  <2> QED BY <1>2, <2>1, <2>2 DEF S, n, step
<1>6. CASE n # 0
  <2> DEFINE Flattens(h) == h = [i \in 1 .. n |-> IF i = 1 THEN q[i] ELSE h[i - 1] \o q[i]]
             h == CHOOSE g : Flattens(g)
  <2>1. FlattenSeq(q) = h[n]
    BY <1>6 DEF FlattenSeq, n
  <2>2. Flattens(h)
    <3> DEFINE g == [i \in 1 .. n |-> f[i]]
    <3>1. \A i \in 1 .. n : g[i] = IF i = 1 THEN q[i] ELSE g[i - 1] \o q[i]
      <4> TAKE i \in 1 .. n
      <4>1. i # 1 => i - 1 \in 1 .. n
        BY <1>1
      <4> QED BY <1>4, <4>1
    <3>2. g = [i \in 1 .. n |-> g[i]]
      OBVIOUS
    <3> HIDE DEF g
    <3>3. Flattens(g)
      BY <3>1, <3>2
    <3> HIDE DEF Flattens
    <3> QED BY <3>3
  <2> HIDE DEF h
  <2>3. \A i \in 1 .. n : h[i] = IF i = 1 THEN q[i] ELSE h[i - 1] \o q[i]
    BY <2>2
  <2> HIDE DEF Flattens
  <2> DEFINE N == {i \in 1 .. n : h[i] # f[i]}
  <2>4. N = {}
    <3>1. SUFFICES ASSUME N # {} PROVE FALSE
      OBVIOUS
    <3>2. N \in SUBSET Nat
      BY <1>1
    <3>3. PICK m \in N : \A k \in N : m <= k
      <4> HIDE DEF N
      <4> QED BY <3>1, <3>2, LeastNat
    <3>4. m \in 1 .. n /\ h[m] # f[m]
      OBVIOUS
    <3>5. m # 1
      BY <1>4, <2>3, <3>4
    <3>6. m - 1 \in 1 .. n /\ ~(m <= m - 1)
      BY <1>1, <3>4, <3>5
    <3>7. h[m - 1] = f[m - 1]
      BY <3>3, <3>6
    <3> QED BY <1>4, <2>3, <3>4, <3>5, <3>7
  <2>5. h[n] = f[n]
    <3>1. n \in 1 .. n
      BY <1>1, <1>6
    <3> QED BY <2>4, <3>1
  <2> QED BY <1>2, <2>1, <2>5 DEF S, n, step
<1> QED BY <1>5, <1>6

LEMMA FlattenAppend ==
  ASSUME NEW C, NEW q \in Seq(Seq(C)), NEW p \in Seq(C)
  PROVE  /\ FlattenSeq(q) \in Seq(C)
         /\ FlattenSeq(Append(q, p)) = FlattenSeq(q) \o p
<1> DEFINE S == Seq(C)
<1>1. PICK f : f \in [0 .. Len(q) -> S] /\ IsRun(f, <<>>, Joining(C), q) /\ FlattenSeq(q) = f[Len(q)]
  BY FlattenIsRun
<1>2. Append(q, p) \in Seq(S) /\ q \in Seq(S) /\ Len(Append(q, p)) = Len(q) + 1 /\ Len(q) \in Nat
  <2>1. q \in Seq(S) /\ p \in S
    OBVIOUS
  <2> HIDE DEF S
  <2> QED BY <2>1
<1>3. PICK g : 
        IsRun(g, <<>>, Joining(C), Append(q, p)) /\ FlattenSeq(Append(q, p)) = g[Len(q) + 1]
  BY <1>2, FlattenIsRun
<1>4. g[Len(q) + 1] = Joining(C)[<<f[Len(q)], p>>]
  <2> HIDE DEF S
  <2>1. p \in S
    BY DEF S
  <2>2. IsRun(f, <<>>, Joining(C), q) /\ IsRun(g, <<>>, Joining(C), Append(q, p))
    BY <1>1, <1>3
  <2>3. q \in Seq(S)
    BY <1>2
  <2> QED BY <2>1, <2>2, <2>3, RunExtends
<1>5. f[Len(q)] \in S
  <2> HIDE DEF S
  <2>1. Len(q) \in 0 .. Len(q)
    BY <1>2
  <2> QED BY <1>1, <2>1
<1>6. <<f[Len(q)], p>> \in Seq(C) \X Seq(C)
  BY <1>5
<1> HIDE DEF S
<1>7. Joining(C)[<<f[Len(q)], p>>] = f[Len(q)] \o p
  BY <1>6 DEF Joining
<1> QED BY <1>1, <1>3, <1>4, <1>5, <1>7 DEF S

\* What Each puts in the place of a character.
Piece(x, char, by) == IF x = char THEN by ELSE <<x>>

LEMMA EachEmpty ==
  ASSUME NEW char, NEW by
  PROVE  Each(<<>>, char, by) = <<>>
<1>1. [i \in DOMAIN <<>> |-> Piece(<<>>[i], char, by)] = <<>>
  OBVIOUS
<1>2. FlattenSeq(<<>>) = <<>>
  BY DEF FlattenSeq
<1> QED BY <1>1, <1>2 DEF Each, Piece

LEMMA EachAppend ==
  ASSUME NEW C, NEW s \in Seq(C), NEW char, NEW by \in Seq(C), NEW x \in C
  PROVE  /\ Each(s, char, by) \in Seq(C) /\ Piece(x, char, by) \in Seq(C)
         /\ Each(Append(s, x), char, by) = Each(s, char, by) \o Piece(x, char, by)
<1> DEFINE P(y) == Piece(y, char, by)
           q == [i \in DOMAIN s |-> P(s[i])]
           t == Append(s, x)
<1>1. DOMAIN s = 1 .. Len(s) /\ Len(s) \in Nat /\ \A i \in DOMAIN s : s[i] \in C
  OBVIOUS
<1>2. \A y \in C : P(y) \in Seq(C)
  BY DEF Piece
<1>3. q \in Seq(Seq(C)) /\ Len(q) = Len(s)
  <2> HIDE DEF P
  <2> DEFINE S == Seq(C)
             m == Len(s)
  <2>1. q = [i \in 1 .. m |-> P(s[i])]
    BY <1>1
  <2>2. \A i \in 1 .. m : P(s[i]) \in S
    BY <1>1, <1>2
  <2> HIDE DEF S, m
  <2>3. m \in Nat
    BY <1>1 DEF m
  <2>4. [i \in 1 .. m |-> P(s[i])] \in Seq(S)
    BY <2>2, <2>3, IsASeq
  <2>5. Len([i \in 1 .. m |-> P(s[i])]) = m
    BY <2>3
  <2> QED BY <2>1, <2>4, <2>5 DEF S, m
<1>4. [i \in DOMAIN t |-> P(t[i])] = Append(q, P(x))
  <2>1. DOMAIN t = 1 .. Len(s) + 1 /\ t[Len(s) + 1] = x /\ \A i \in 1 .. Len(s) : t[i] = s[i]
    OBVIOUS
  <2> HIDE DEF t, P
  <2>2. Append(q, P(x)) = [i \in 1 .. Len(s) + 1 |-> IF i = Len(s) + 1 THEN P(x) ELSE q[i]]
    BY <1>1, <1>3
  <2>3. \A i \in 1 .. Len(s) + 1 : P(t[i]) = IF i = Len(s) + 1 THEN P(x) ELSE q[i]
    BY <1>1, <2>1
  <2> QED BY <2>1, <2>2, <2>3
<1>5. Each(t, char, by) = FlattenSeq(Append(q, P(x))) /\ Each(s, char, by) = FlattenSeq(q)
  BY <1>4 DEF Each, Piece
<1>6. /\ FlattenSeq(q) \in Seq(C)
      /\ FlattenSeq(Append(q, P(x))) = FlattenSeq(q) \o P(x)
  <2> HIDE DEF q
  <2> QED BY <1>2, <1>3, FlattenAppend
<1> QED BY <1>2, <1>5, <1>6

Acc(C) == [out : Seq(C), open : BOOLEAN]

ScanStart == [out |-> <<>>, open |-> FALSE]

\* How far Pairs has come at the end of a text.
Scan(text, first, second, by) ==
  LET upTo[i \in 0 .. Len(text)] ==
        IF i = 0 THEN [out |-> <<>>, open |-> FALSE]
        ELSE Replaced(upTo[i - 1], text[i], first, second, by)
  IN  upTo[Len(text)]

LEMMA PairsIsScan ==
  ASSUME NEW text, NEW first, NEW second, NEW by
  PROVE  Pairs(text, first, second, by) =
           IF Scan(text, first, second, by).open
           THEN Append(Scan(text, first, second, by).out, first)
           ELSE Scan(text, first, second, by).out
BY DEF Pairs, Scan

LEMMA ReplacedType ==
  ASSUME NEW C, NEW acc \in Acc(C), NEW char \in C, NEW first \in C, NEW second, NEW by \in C
  PROVE  Replaced(acc, char, first, second, by) \in Acc(C)
<1>1. acc.out \in Seq(C) /\ acc.open \in BOOLEAN
  BY DEF Acc
<1>2. /\ Append(acc.out, by) \in Seq(C) /\ Append(acc.out, first) \in Seq(C)
      /\ Append(acc.out, char) \in Seq(C) /\ acc.out \o <<first, char>> \in Seq(C)
  <2>1. <<first, char>> \in Seq(C)
    OBVIOUS
  <2> QED BY <1>1, <2>1
<1> DEFINE S == Seq(C)
<1>3. CASE acc.open /\ char = second
  BY <1>2, <1>3 DEF Replaced, Acc
<1>4. CASE ~(acc.open /\ char = second) /\ char = first
  BY <1>1, <1>2, <1>4 DEF Replaced, Acc
<1>5. CASE ~(acc.open /\ char = second) /\ char # first
  BY <1>1, <1>2, <1>5 DEF Replaced, Acc
<1> QED BY <1>3, <1>4, <1>5

Scanning(C, first, second, by) ==
  [p \in Acc(C) \X C |-> Replaced(p[1], p[2], first, second, by)]

LEMMA ScanIsRun ==
  ASSUME NEW C, NEW s \in Seq(C), NEW first \in C, NEW second, NEW by \in C
  PROVE  \E f : /\ f \in [0 .. Len(s) -> Acc(C)]
                /\ IsRun(f, ScanStart, Scanning(C, first, second, by), s)
                /\ Scan(s, first, second, by) = f[Len(s)]
<1> DEFINE A == Acc(C)
           n == Len(s)
           Move(a, x) == Replaced(a, x, first, second, by)
           step == Scanning(C, first, second, by)
<1>1. n \in Nat /\ \A i \in 1 .. n : s[i] \in C
  OBVIOUS
<1>2. \A a \in A, x \in C : Move(a, x) \in A
  <2>1. \A a \in A, x \in C : Replaced(a, x, first, second, by) \in A
    BY ReplacedType
  <2> QED BY <2>1
<1>3. step \in [A \X C -> A] /\ \A a \in A, x \in C : step[<<a, x>>] = Move(a, x)
  <2> HIDE DEF Move
  <2>1. \A p \in A \X C : Move(p[1], p[2]) \in A
    BY <1>2
  <2>2. step = [p \in A \X C |-> Move(p[1], p[2])]
    BY DEF Scanning, Move
  <2> HIDE DEF step, A
  <2> QED BY <2>1, <2>2
<1>4. ScanStart \in A
  <2>1. <<>> \in Seq(C)
    OBVIOUS
  <2> QED BY <2>1 DEF ScanStart, Acc
<1> DEFINE Scans(h) == h = [i \in 0 .. n |-> IF i = 0 THEN ScanStart ELSE Move(h[i - 1], s[i])]
           end == CHOOSE h : Scans(h)
<1>5. Scan(s, first, second, by) = end[n]
  BY DEF Scan, ScanStart
<1> HIDE DEF A, Move, step, n, end
<1>6. PICK f : f \in [0 .. n -> A] /\ IsRun(f, ScanStart, step, s)
  BY <1>3, <1>4, RunExists DEF n
<1>7. \A i \in 0 .. n : f[i] \in A /\ f[i] = IF i = 0 THEN ScanStart ELSE step[<<f[i - 1], s[i]>>]
  <2>1. f = [i \in 0 .. n |-> IF i = 0 THEN ScanStart ELSE step[<<f[i - 1], s[i]>>]]
    BY <1>6 DEF IsRun, n
  <2> QED BY <1>6, <2>1
<1>8. \A i \in 0 .. n : i # 0 => i - 1 \in 0 .. n /\ i \in 1 .. n
  BY <1>1
<1>9. \A i \in 0 .. n : f[i] = IF i = 0 THEN ScanStart ELSE Move(f[i - 1], s[i])
  BY <1>1, <1>3, <1>7, <1>8
<1>10. Scans(end)
  <2>1. f = [i \in 0 .. n |-> f[i]]
    BY <1>6
  <2>2. Scans(f)
    BY <1>9, <2>1
  <2> HIDE DEF Scans
  <2> QED BY <2>2 DEF end
<1>11. \A i \in 0 .. n : end[i] = IF i = 0 THEN ScanStart ELSE Move(end[i - 1], s[i])
  BY <1>10
<1> HIDE DEF Scans
<1> DEFINE N == {i \in 0 .. n : end[i] # f[i]}
<1>12. N = {}
  <2>1. SUFFICES ASSUME N # {} PROVE FALSE
    OBVIOUS
  <2>2. N \in SUBSET Nat
    BY <1>1
  <2>3. PICK m \in N : \A k \in N : m <= k
    <3> HIDE DEF N
    <3> QED BY <2>1, <2>2, LeastNat
  <2>4. m \in 0 .. n /\ end[m] # f[m]
    OBVIOUS
  <2>5. m # 0
    BY <1>9, <1>11, <2>4
  <2>6. m - 1 \in 0 .. n /\ ~(m <= m - 1)
    BY <1>1, <2>4, <2>5
  <2>7. end[m - 1] = f[m - 1]
    BY <2>3, <2>6
  <2> QED BY <1>9, <1>11, <2>4, <2>5, <2>7
<1>13. end[n] = f[n]
  <2>1. n \in 0 .. n
    BY <1>1
  <2> QED BY <1>12, <2>1
<1> QED BY <1>5, <1>6, <1>13 DEF A, n, step, Move

LEMMA ScanAppend ==
  ASSUME NEW C, NEW s \in Seq(C), NEW x \in C, NEW first \in C, NEW second, NEW by \in C
  PROVE  /\ Scan(<<>>, first, second, by) = ScanStart
         /\ Scan(s, first, second, by) \in Acc(C)
         /\ Scan(Append(s, x), first, second, by) =
              Replaced(Scan(s, first, second, by), x, first, second, by)
<1> DEFINE A == Acc(C)
           Move(a, y) == Replaced(a, y, first, second, by)
           step == Scanning(C, first, second, by)
<1>1. PICK f : f \in [0 .. Len(s) -> A] /\ IsRun(f, ScanStart, step, s)
                 /\ Scan(s, first, second, by) = f[Len(s)]
  BY ScanIsRun
<1>2. Append(s, x) \in Seq(C) /\ Len(Append(s, x)) = Len(s) + 1 /\ Len(s) \in Nat
  OBVIOUS
<1>3. PICK g : IsRun(g, ScanStart, step, Append(s, x))
                 /\ Scan(Append(s, x), first, second, by) = g[Len(Append(s, x))]
  BY <1>2, ScanIsRun
<1>4. PICK e : IsRun(e, ScanStart, step, <<>>) /\ Scan(<<>>, first, second, by) = e[Len(<<>>)]
  <2>1. <<>> \in Seq(C)
    OBVIOUS
  <2> QED BY <2>1, ScanIsRun
<1>5. e[0] = ScanStart
  <2>1. e = [i \in 0 .. Len(<<>>) |-> IF i = 0 THEN ScanStart ELSE step[<<e[i - 1], <<>>[i]>>]]
    BY <1>4 DEF IsRun
  <2>2. 0 \in 0 .. Len(<<>>)
    OBVIOUS
  <2> HIDE DEF step
  <2> QED BY <2>1, <2>2
<1>6. f[Len(s)] \in A
  <2> HIDE DEF A
  <2>1. Len(s) \in 0 .. Len(s)
    BY <1>2
  <2> QED BY <1>1, <2>1
<1>7. step[<<f[Len(s)], x>>] = Move(f[Len(s)], x)
  <2> HIDE DEF Move
  <2>1. <<f[Len(s)], x>> \in A \X C
    BY <1>6
  <2>2. step = [p \in A \X C |-> Move(p[1], p[2])]
    BY DEF Scanning, Move
  <2> HIDE DEF step, A
  <2> QED BY <2>1, <2>2
<1> HIDE DEF step, A
<1>8. g[Len(s) + 1] = step[<<f[Len(s)], x>>]
  <2>1. IsRun(f, ScanStart, step, s) /\ IsRun(g, ScanStart, step, Append(s, x))
    BY <1>1, <1>3
  <2> QED BY <2>1, RunExtends
<1>9. Len(<<>>) = 0
  OBVIOUS
<1> QED BY <1>1, <1>2, <1>3, <1>4, <1>5, <1>6, <1>7, <1>8, <1>9 DEF A

\* Nowhere in the text is a first followed by a second.
Apart(text, first, second) ==
  \A i \in 1 .. Len(text) - 1 : ~(text[i] = first /\ text[i + 1] = second)

LEMMA TwoAppends ==
  ASSUME NEW C, NEW e \in Seq(C), NEW a \in C, NEW b \in C
  PROVE  /\ e \o <<a, b>> = Append(Append(e, a), b) /\ e \o <<a>> = Append(e, a)
         /\ <<a, b>> \in Seq(C) /\ <<a>> \in Seq(C)
         /\ Append(e, a) \in Seq(C) /\ Append(Append(e, a), b) \in Seq(C)
<1>1. e \o <<a>> = Append(e, a) /\ <<a, b>> \in Seq(C) /\ <<a>> \in Seq(C) /\ Append(e, a) \in Seq(C)
  BY AppendIsConcat
<1>2. <<a, b>> = <<a>> \o <<b>> /\ <<b>> \in Seq(C)
  <2>1. <<a, b>> = Append(<<a>>, b)
    OBVIOUS
  <2>2. <<a>> \in Seq(C) /\ <<b>> \in Seq(C)
    OBVIOUS
  <2> QED BY <2>1, <2>2, AppendIsConcat
<1>3. e \o <<a, b>> = (e \o <<a>>) \o <<b>>
  BY <1>1, <1>2, ConcatAssociative
<1>4. (e \o <<a>>) \o <<b>> = Append(Append(e, a), b) /\ Append(Append(e, a), b) \in Seq(C)
  <2>1. Append(e, a) \o <<b>> = Append(Append(e, a), b)
    BY <1>1, AppendIsConcat
  <2> QED BY <1>1, <2>1
<1> QED BY <1>1, <1>3, <1>4

\* A character that was doubled is made single again.
LEMMA DoublesUndone ==
  ASSUME NEW C, NEW a \in C, NEW y \in Seq(C)
  PROVE  Pairs(Each(y, a, <<a, a>>), a, a, a) = y
<1> DEFINE by == <<a, a>>
           E(t) == Each(t, a, by)
           Good(t) == Scan(E(t), a, a, a) = [out |-> t, open |-> FALSE]
           B == {t \in Seq(C) : ~Good(t)}
<1>1. by \in Seq(C) /\ <<>> \in Seq(C)
  OBVIOUS
<1> HIDE DEF by
<1>0. \A r \in Seq(C), x \in C :
        Scan(Append(r, x), a, a, a) = Replaced(Scan(r, a, a, a), x, a, a, a)
  BY ScanAppend
<1>2. B = {}
  <2>1. SUFFICES ASSUME B # {} PROVE FALSE
    OBVIOUS
  <2>2. Good(<<>>)
    <3>1. E(<<>>) = <<>>
      BY EachEmpty
    <3>2. Scan(<<>>, a, a, a) = ScanStart
      BY <1>1, ScanAppend
    <3> QED BY <3>1, <3>2 DEF ScanStart
  <2>3. PICK t \in Seq(C), x \in C : Append(t, x) \in B /\ t \notin B
    <3>1. B \in SUBSET Seq(C) /\ <<>> \notin B
      BY <2>2
    <3> HIDE DEF B
    <3> QED BY <2>1, <3>1, ShortestOf
  <2>4. Good(t) /\ ~Good(Append(t, x))
    BY <2>3
  <2> DEFINE e == E(t)
             open == [out |-> t, open |-> TRUE]
             shut == [out |-> t, open |-> FALSE]
  <2>5. e \in Seq(C) /\ E(Append(t, x)) = e \o Piece(x, a, by)
    BY <1>1, EachAppend
  <2>6. Scan(e, a, a, a) = shut
    BY <2>4
  <2> HIDE DEF Good, E, e, B, open, shut
  <2>7. CASE x = a
    <3>1. E(Append(t, x)) = Append(Append(e, a), a) /\ Append(e, a) \in Seq(C)
      BY <2>5, <2>7, TwoAppends DEF Piece, by
    <3>2. Scan(Append(e, a), a, a, a) = Replaced(shut, a, a, a, a)
      BY <2>5, <2>6, <1>0
    <3>3. Replaced(shut, a, a, a, a) = open
      BY DEF Replaced, open, shut
    <3>4. Scan(Append(Append(e, a), a), a, a, a) = Replaced(open, a, a, a, a)
      BY <3>1, <3>2, <3>3, <1>0
    <3>5. Replaced(open, a, a, a, a) = [out |-> Append(t, x), open |-> FALSE]
      BY <2>7 DEF Replaced, open
    <3>6. Good(Append(t, x))
      BY <3>1, <3>4, <3>5 DEF Good
    <3> QED BY <2>4, <3>6
  <2>8. CASE x # a
    <3>1. E(Append(t, x)) = Append(e, x)
      BY <2>5, <2>8, TwoAppends DEF Piece, by
    <3>2. Scan(Append(e, x), a, a, a) = Replaced(shut, x, a, a, a)
      BY <2>5, <2>6, <1>0
    <3>3. Replaced(shut, x, a, a, a) = [out |-> Append(t, x), open |-> FALSE]
      BY <2>8 DEF Replaced, shut
    <3>4. Good(Append(t, x))
      BY <3>1, <3>2, <3>3 DEF Good
    <3> QED BY <2>4, <3>4
  <2> QED BY <2>7, <2>8
<1>3. Scan(E(y), a, a, a) = [out |-> y, open |-> FALSE]
  BY <1>2
<1> HIDE DEF E
<1>4. Pairs(E(y), a, a, a) = y
  BY <1>3, PairsIsScan
<1> QED BY <1>4 DEF E, by

\* Two characters that stand for one are made one again, where they are not
\* found but where they were put.
LEMMA PairsUndone ==
  ASSUME NEW C, NEW a \in C, NEW b \in C, NEW c \in C, a # b, a # c, NEW y \in Seq(C),
         b = c \/ Apart(y, a, b)
  PROVE  Pairs(Each(y, c, <<a, b>>), a, b, c) = y
<1> DEFINE by == <<a, b>>
           E(t) == Each(t, c, by)
           Fine(t) == b = c \/ Apart(t, a, b)
           Shut(t) == Scan(E(t), a, b, c) = [out |-> t, open |-> FALSE] /\ (t = <<>> \/ t[Len(t)] # a)
           Open(t) == \E u \in Seq(C) : t = Append(u, a) /\ Scan(E(t), a, b, c) = [out |-> u, open |-> TRUE]
           B == {t \in Seq(C) : Fine(t) /\ ~Shut(t) /\ ~Open(t)}
<1>1. by \in Seq(C) /\ <<>> \in Seq(C)
  OBVIOUS
<1> HIDE DEF by
<1>0. \A r \in Seq(C), x \in C :
        Scan(Append(r, x), a, b, c) = Replaced(Scan(r, a, b, c), x, a, b, c)
  BY ScanAppend
<1>2. B = {}
  <2>1. SUFFICES ASSUME B # {} PROVE FALSE
    OBVIOUS
  <2>2. Shut(<<>>)
    <3>1. E(<<>>) = <<>>
      BY EachEmpty
    <3>2. Scan(<<>>, a, b, c) = ScanStart
      BY <1>1, ScanAppend
    <3> QED BY <3>1, <3>2 DEF ScanStart
  <2>3. PICK t \in Seq(C), x \in C : Append(t, x) \in B /\ t \notin B
    <3>1. B \in SUBSET Seq(C) /\ <<>> \notin B
      BY <2>2
    <3> HIDE DEF B
    <3> QED BY <2>1, <3>1, ShortestOf
  <2> DEFINE s == Append(t, x)
             n == Len(t)
             e == E(t)
  <2>4. Fine(s) /\ ~Shut(s) /\ ~Open(s) /\ (Fine(t) => Shut(t) \/ Open(t))
    BY <2>3
  <2>5. /\ n \in Nat /\ Len(s) = n + 1 /\ s[n + 1] = x /\ \A i \in 1 .. n : s[i] = t[i]
        /\ s \in Seq(C) /\ (n = 0 => t = <<>>) /\ (t # <<>> => n # 0)
    OBVIOUS
  <2> HIDE DEF s, n
  <2>6. Fine(t)
    <3>1. ASSUME Apart(s, a, b) PROVE Apart(t, a, b)
      <4> SUFFICES ASSUME NEW i \in 1 .. n - 1 PROVE ~(t[i] = a /\ t[i + 1] = b)
        BY DEF Apart, n
      <4>1. i \in 1 .. Len(s) - 1 /\ i \in 1 .. n /\ i + 1 \in 1 .. n
        BY <2>5
      <4> QED BY <2>5, <3>1, <4>1 DEF Apart
    <3> QED BY <2>4, <3>1
  <2>7. b = c \/ ~(t # <<>> /\ t[n] = a /\ x = b)
    <3> SUFFICES ASSUME Apart(s, a, b), t # <<>>, t[n] = a, x = b PROVE FALSE
      BY <2>4
    <3>1. n \in 1 .. Len(s) - 1 /\ n \in 1 .. n
      BY <2>5
    <3> QED BY <2>5, <3>1 DEF Apart
  <2>8. e \in Seq(C) /\ E(s) = e \o Piece(x, c, by)
    BY <1>1, EachAppend DEF s
  <2> HIDE DEF E, e, B
  <2>9. CASE Shut(t)
    <3> DEFINE shut == [out |-> t, open |-> FALSE]
               open == [out |-> t, open |-> TRUE]
    <3>1. Scan(e, a, b, c) = shut
      BY <2>9 DEF e
    <3> HIDE DEF shut, open
    <3>2. CASE x = c
      <4>1. E(s) = Append(Append(e, a), b) /\ Append(e, a) \in Seq(C)
        BY <2>8, <3>2, TwoAppends DEF Piece, by
      <4>2. Scan(Append(e, a), a, b, c) = Replaced(shut, a, a, b, c)
        BY <2>8, <3>1, <1>0
      <4>3. Replaced(shut, a, a, b, c) = open
        BY DEF Replaced, shut, open
      <4>4. Scan(Append(Append(e, a), b), a, b, c) = Replaced(open, b, a, b, c)
        BY <4>1, <4>2, <4>3, <1>0
      <4>5. Replaced(open, b, a, b, c) = [out |-> s, open |-> FALSE]
        BY <3>2 DEF Replaced, s, open
      <4>6. Shut(s)
        BY <2>5, <3>2, <4>1, <4>4, <4>5
      <4> QED BY <2>4, <4>6
    <3>3. CASE x # c
      <4>1. E(s) = Append(e, x)
        BY <2>8, <3>3, TwoAppends DEF Piece, by
      <4>2. Scan(Append(e, x), a, b, c) = Replaced(shut, x, a, b, c)
        BY <2>8, <3>1, <1>0
      <4>3. ASSUME x = a PROVE Open(s)
        <5>1. Replaced(shut, x, a, b, c) = open
          BY <4>3 DEF Replaced, shut, open
        <5>2. s = Append(t, a)
          BY <4>3 DEF s
        <5> QED BY <4>1, <4>2, <5>1, <5>2 DEF open
      <4>4. ASSUME x # a PROVE Shut(s)
        <5>1. Replaced(shut, x, a, b, c) = [out |-> s, open |-> FALSE]
          BY <4>4 DEF Replaced, s, shut
        <5> QED BY <2>5, <4>1, <4>2, <4>4, <5>1
      <4> QED BY <2>4, <4>3, <4>4
    <3> QED BY <3>2, <3>3
  <2>10. CASE Open(t)
    <3>1. PICK u \in Seq(C) : t = Append(u, a) /\ Scan(E(t), a, b, c) = [out |-> u, open |-> TRUE]
      BY <2>10
    <3> DEFINE open == [out |-> u, open |-> TRUE]
               held == [out |-> t, open |-> TRUE]
    <3>2. Scan(e, a, b, c) = open /\ t # <<>> /\ t[n] = a
      <4>1. Len(t) = Len(u) + 1 /\ Append(u, a)[Len(u) + 1] = a /\ t # <<>>
        BY <3>1
      <4> QED BY <3>1, <4>1 DEF e, n
    <3> HIDE DEF open, held
    <3>3. CASE x = c
      <4>1. E(s) = Append(Append(e, a), b) /\ Append(e, a) \in Seq(C)
        BY <2>8, <3>3, TwoAppends DEF Piece, by
      <4>2. Scan(Append(e, a), a, b, c) = Replaced(open, a, a, b, c)
        BY <2>8, <3>2, <1>0
      <4>3. Replaced(open, a, a, b, c) = held
        BY <3>1 DEF Replaced, open, held
      <4>4. Scan(Append(Append(e, a), b), a, b, c) = Replaced(held, b, a, b, c)
        BY <4>1, <4>2, <4>3, <1>0
      <4>5. Replaced(held, b, a, b, c) = [out |-> s, open |-> FALSE]
        BY <3>3 DEF Replaced, s, held
      <4>6. Shut(s)
        BY <2>5, <3>3, <4>1, <4>4, <4>5
      <4> QED BY <2>4, <4>6
    <3>4. CASE x # c
      <4>1. E(s) = Append(e, x) /\ x # b
        BY <2>7, <2>8, <3>2, <3>4, TwoAppends DEF Piece, by
      <4>2. Scan(Append(e, x), a, b, c) = Replaced(open, x, a, b, c)
        BY <2>8, <3>2, <1>0
      <4>3. ASSUME x = a PROVE Open(s)
        <5>1. Replaced(open, x, a, b, c) = held
          BY <3>1, <4>1, <4>3 DEF Replaced, open, held
        <5>2. s = Append(t, a)
          BY <4>3 DEF s
        <5> QED BY <4>1, <4>2, <5>1, <5>2 DEF held
      <4>4. ASSUME x # a PROVE Shut(s)
        <5>1. Replaced(open, x, a, b, c) = [out |-> u \o <<a, x>>, open |-> FALSE]
          BY <4>1, <4>4 DEF Replaced, open
        <5>2. u \o <<a, x>> = s
          BY <3>1, TwoAppends DEF s
        <5> QED BY <2>5, <4>1, <4>2, <4>4, <5>1, <5>2
      <4> QED BY <2>4, <4>3, <4>4
    <3> QED BY <3>3, <3>4
  <2> QED BY <2>4, <2>6, <2>9, <2>10
<1>3. Shut(y) \/ Open(y)
  <2> HIDE DEF Shut, Open
  <2> QED BY <1>2
<1> HIDE DEF E
<1>4. Pairs(E(y), a, b, c) = y
  BY <1>3, PairsIsScan
<1> QED BY <1>4 DEF E, by

Ends(text, char) == text # <<>> /\ text[Len(text)] = char

LEMMA ApartAppend ==
  ASSUME NEW C, NEW e \in Seq(C), NEW x \in C, NEW a, NEW b
  PROVE  /\ Apart(Append(e, x), a, b) <=> Apart(e, a, b) /\ ~(Ends(e, a) /\ x = b)
         /\ Ends(Append(e, x), a) <=> x = a
<1> DEFINE s == Append(e, x)
           n == Len(e)
<1>1. /\ n \in Nat /\ Len(s) = n + 1 /\ s[n + 1] = x /\ \A i \in 1 .. n : s[i] = e[i]
      /\ s # <<>> /\ (e = <<>> <=> n = 0)
  OBVIOUS
<1> HIDE DEF s
<1>2. Ends(s, a) <=> x = a
  BY <1>1 DEF Ends
<1> HIDE DEF n
<1>3. Apart(s, a, b) <=> \A i \in 1 .. n : ~(s[i] = a /\ s[i + 1] = b)
  <2>1. Len(s) - 1 = n
    BY <1>1
  <2> QED BY <2>1 DEF Apart
<1>4. Apart(e, a, b) <=> \A i \in 1 .. n - 1 : ~(s[i] = a /\ s[i + 1] = b)
  <2>1. \A i \in 1 .. n - 1 : i \in 1 .. n /\ i + 1 \in 1 .. n
    BY <1>1
  <2> QED BY <1>1, <2>1 DEF Apart, n
<1>5. Ends(e, a) /\ x = b <=> n # 0 /\ s[n] = a /\ s[n + 1] = b
  <2>1. n # 0 => n \in 1 .. n
    BY <1>1
  <2> QED BY <1>1, <2>1 DEF Ends, n
<1>6. \A i : i \in 1 .. n <=> i \in 1 .. n - 1 \/ (n # 0 /\ i = n)
  BY <1>1
<1>7. Apart(s, a, b) <=> Apart(e, a, b) /\ ~(Ends(e, a) /\ x = b)
  BY <1>3, <1>4, <1>5, <1>6
<1> QED BY <1>2, <1>7 DEF s

\* Putting two characters in the place of one makes no pair of others.
LEMMA EachKeepsApart ==
  ASSUME NEW C, NEW a \in C, NEW b \in C, NEW c \in C, NEW p \in C, NEW q \in C,
         NEW y \in Seq(C), Apart(y, a, b), p # b, q # b, q = a => c = a
  PROVE  Each(y, c, <<p, q>>) \in Seq(C) /\ Apart(Each(y, c, <<p, q>>), a, b)
<1> DEFINE by == <<p, q>>
           E(t) == Each(t, c, by)
           Good(t) == Apart(E(t), a, b) /\ (Ends(E(t), a) => Ends(t, a))
           B == {t \in Seq(C) : Apart(t, a, b) /\ ~Good(t)}
<1>1. by \in Seq(C) /\ <<>> \in Seq(C)
  OBVIOUS
<1> HIDE DEF by
<1>2. \A t \in Seq(C) : E(t) \in Seq(C)
  <2>1. c \in C
    OBVIOUS
  <2> QED BY <1>1, <2>1, EachAppend
<1>3. B = {}
  <2>1. SUFFICES ASSUME B # {} PROVE FALSE
    OBVIOUS
  <2>2. Good(<<>>)
    <3>1. E(<<>>) = <<>>
      BY EachEmpty
    <3>2. Len(<<>>) = 0
      OBVIOUS
    <3>3. Apart(<<>>, a, b)
      BY <3>2 DEF Apart
    <3> QED BY <3>1, <3>3
  <2>3. PICK t \in Seq(C), x \in C : Append(t, x) \in B /\ t \notin B
    <3>1. B \in SUBSET Seq(C) /\ <<>> \notin B
      BY <2>2
    <3> HIDE DEF B
    <3> QED BY <2>1, <3>1, ShortestOf
  <2> DEFINE s == Append(t, x)
             e == E(t)
  <2>4. Apart(s, a, b) /\ ~Good(s) /\ (Apart(t, a, b) => Good(t))
    BY <2>3
  <2>5. Apart(t, a, b) /\ ~(Ends(t, a) /\ x = b) /\ (Ends(s, a) <=> x = a)
    BY <2>4, ApartAppend
  <2>6. Apart(e, a, b) /\ (Ends(e, a) => Ends(t, a))
    BY <2>4, <2>5
  <2>7. e \in Seq(C) /\ E(s) = e \o Piece(x, c, by)
    BY <1>1, EachAppend
  <2> HIDE DEF s, E, e, B
  <2>8. CASE x = c
    <3> DEFINE r == Append(e, p)
    <3>1. E(s) = Append(r, q) /\ r \in Seq(C)
      BY <2>7, <2>8, TwoAppends DEF Piece, by
    <3>2. Apart(r, a, b)
      BY <2>6, <2>7, ApartAppend
    <3> HIDE DEF r
    <3>3. Apart(E(s), a, b) /\ (Ends(E(s), a) <=> q = a)
      BY <3>1, <3>2, ApartAppend
    <3> QED BY <2>4, <2>5, <2>8, <3>3
  <2>9. CASE x # c
    <3>1. E(s) = Append(e, x)
      BY <2>7, <2>9, TwoAppends DEF Piece, by
    <3>2. Apart(E(s), a, b) /\ (Ends(E(s), a) <=> x = a)
      BY <2>5, <2>6, <2>7, <3>1, ApartAppend
    <3> QED BY <2>4, <2>5, <3>2
  <2> QED BY <2>8, <2>9
<1>4. Apart(E(y), a, b)
  BY <1>3
<1> QED BY <1>2, <1>4 DEF by

\* The characters, with those that the quoting knows.
Char == STRING \cup {"$", "slash", "quote", "newline", "n"}

\* What was written is read back, where no backslash stands before an n.
LEMMA RoundTripSurvives ==
  ASSUME NEW text \in Seq(Char), Survives(text)
  PROVE  RoundTrip(text) = text
<1> DEFINE d == Each(text, "$", <<"$", "$">>)
           x == Each(d, "slash", <<"slash", "slash">>)
           y == Each(x, "quote", <<"slash", "quote">>)
           z == Each(y, "newline", <<"slash", "n">>)
<1>1. /\ "$" \in Char /\ "slash" \in Char /\ "quote" \in Char /\ "newline" \in Char /\ "n" \in Char
      /\ "slash" # "n" /\ "slash" # "quote" /\ "slash" # "newline" /\ "$" # "n" /\ "quote" # "n"
      /\ "$" # "slash" /\ "quote" # "slash"
  BY DEF Char
<1> USE <1>1
<1> HIDE DEF Char
<1>2. Pairs(d, "$", "$", "$") = text
  BY DoublesUndone
<1>3. CASE ~NeedsQuotes(text)
  BY <1>2, <1>3 DEF RoundTrip
<1>4. CASE NeedsQuotes(text)
  <2>1. Apart(text, "slash", "n")
    BY <1>4 DEF Survives, Apart
  <2>2. d \in Seq(Char) /\ Apart(d, "slash", "n")
    BY <2>1, EachKeepsApart
  <2> HIDE DEF d
  <2>3. x \in Seq(Char) /\ Apart(x, "slash", "n")
    BY <2>2, EachKeepsApart
  <2>4. Pairs(x, "slash", "slash", "slash") = d
    BY <2>2, DoublesUndone
  <2> HIDE DEF x
  <2>5. y \in Seq(Char) /\ Apart(y, "slash", "n")
    BY <2>3, EachKeepsApart
  <2>6. Pairs(y, "slash", "quote", "quote") = x
    BY <2>3, PairsUndone
  <2> HIDE DEF y
  <2>7. Pairs(z, "slash", "n", "newline") = y
    BY <2>5, PairsUndone
  <2> HIDE DEF z
  <2>8. Escaped(d) = z
    BY DEF Escaped, x, y, z
  <2>9. Unescaped(z) = d
    BY <2>4, <2>6, <2>7 DEF Unescaped
  <2> QED BY <1>2, <1>4, <2>8, <2>9 DEF RoundTrip, d
<1> QED BY <1>3, <1>4

\* What anybody submitted for a setting.
Submitted(key) ==
  {Strip(text) : text \in Texts[key]} \cup {Initial[i].text : i \in Places(Initial, key)}
    \cup (IF key \in PromptKey THEN {Default[key]} ELSE {})

TextAt(lines, key) == IF Places(lines, key) = {} THEN Absent ELSE lines[First(lines, key)].text

AllSubmitted(lines) == \A i \in DOMAIN lines : lines[i].text \in Submitted(lines[i].key)

Unedited(key, edits) == \A i \in DOMAIN edits : edits[i].key # key

\* Whatever overlaps, lines and edits are what somebody submitted.
NothingElse ==
  /\ AllSubmitted(file)
  /\ \A m \in Manager :
       /\ request[m].lines # Absent => AllSubmitted(request[m].lines)
       /\ \A i \in DOMAIN request[m].edits :
            LET edit == request[m].edits[i] IN edit.text \in Submitted(edit.key) \cup {Absent}
       /\ \A i, j \in DOMAIN request[m].edits :
            i # j => request[m].edits[i].key # request[m].edits[j].key
       /\ request[m].truncated => request[m].lines # Absent
  /\ \A key \in DOMAIN Texts : saved[key] \in Submitted(key) \cup {Absent}
  /\ \A i \in DOMAIN reading.seen : reading.seen[i].text \in Possible(reading.seen[i].key)

\* As long as the requests come one after the other: one at most is at work, and
\* what it has not yet edited is as it was saved.
OneAfterTheOther ==
  calm =>
    /\ \A m, other \in Manager : Busy(m) /\ Busy(other) => m = other
    /\ (\A m \in Manager : ~Busy(m)) => \A key \in DOMAIN Texts : TextAt(file, key) = saved[key]
    /\ \A m \in Manager : Busy(m) =>
         LET mine == request[m]
         IN  /\ \A i \in DOMAIN mine.edits : saved[mine.edits[i].key] = mine.edits[i].text
             /\ mine.lines = Absent =>
                  \A key \in DOMAIN Texts : Unedited(key, mine.edits) => TextAt(file, key) = saved[key]
             /\ mine.lines # Absent =>
                  \A key \in DOMAIN Texts :
                    Unedited(key, Tail(mine.edits)) => TextAt(mine.lines, key) = saved[key]
             /\ mine.truncated => file = <<>>

\* What the worker read while no request was at work.
ReadsWhatIsSaved ==
  alone =>
    /\ \A m \in Manager : ~Busy(m)
    /\ calm => \A i \in DOMAIN reading.seen :
                 LET key == reading.seen[i].key IN reading.seen[i].text = Resolved(key, Value(key))

SettingsInv == SettingsTypeOK /\ NothingElse /\ OneAfterTheOther /\ ReadsWhatIsSaved

LEMMA TextFacts ==
  /\ Absent \notin Written
  /\ \A key \in DOMAIN Texts : Submitted(key) \subseteq Written
  /\ Initial \in Seq(LineType)
  /\ PromptKey \subseteq DOMAIN Texts /\ \A key \in PromptKey : Default[key] \in Submitted(key)
  /\ \A key \in DOMAIN Texts : \A text \in Texts[key] : Strip(text) \in Submitted(key)
<1>1. /\ Absent \notin Written /\ Initial \in Seq(LineType) /\ PromptKey \subseteq DOMAIN Texts
  BY SettingsAssumption
<1>2. \A key \in DOMAIN Texts : Submitted(key) \subseteq Written
  BY <1>1 DEF Submitted, Written, Places
<1> QED BY <1>1, <1>2 DEF Submitted

\* A part of a text between two of its characters is a text.
LEMMA StripType ==
  ASSUME NEW C, NEW text \in Seq(C)
  PROVE  Strip(text) \in Seq(C)
<1> DEFINE solid == {i \in DOMAIN text : text[i] \notin Blank}
           a == CHOOSE i \in solid : \A j \in solid : i <= j
           b == CHOOSE i \in solid : \A j \in solid : j <= i
<1>1. /\ DOMAIN text = 1 .. Len(text) /\ Len(text) \in Nat /\ \A i \in DOMAIN text : text[i] \in C
      /\ IsFiniteSet(1 .. Len(text))
  BY FS_Interval
<1>2. solid \in SUBSET Nat /\ IsFiniteSet(solid) /\ solid \in SUBSET DOMAIN text
  BY <1>1, FS_Subset
<1>3. Strip(text) = IF solid = {} THEN <<>> ELSE SubSeq(text, a, b)
  BY DEF Strip
<1> HIDE DEF solid
<1>4. ASSUME solid # {} PROVE a \in solid /\ b \in solid
  <2>1. \E i \in solid : \A j \in solid : i <= j
    BY <1>2, <1>4, LeastNat
  <2>2. \E i \in solid : \A j \in solid : j <= i
    <3>1. \A i \in solid : i \in Int
      BY <1>2
    <3>2. \E i \in solid : \A j \in solid : i >= j
      BY <1>2, <1>4, <3>1, MaxIs
    <3> QED BY <3>1, <3>2
  <2> QED BY <2>1, <2>2
<1> HIDE DEF a, b
<1>5. ASSUME solid # {} PROVE SubSeq(text, a, b) \in Seq(C)
  <2>0. a \in DOMAIN text /\ b \in DOMAIN text
    BY <1>2, <1>4, <1>5
  <2>1. a \in 1 .. Len(text) /\ b \in 1 .. Len(text) /\ a \in Int /\ b \in Int
    BY <1>1, <2>0
  <2>2. \A i \in a .. b : text[i] \in C
    BY <1>1, <2>1
  <2> QED BY <2>1, <2>2, SubSeqProperties
<1> QED BY <1>3, <1>5

LEMMA WrittenAreTexts == Written \subseteq Seq(Char)
<1>1. \A t \in Seq(STRING) : t \in Seq(Char)
  <2>1. STRING \subseteq Char
    BY DEF Char
  <2> QED BY <2>1, SeqMonotonic
<1>2. ASSUME NEW key \in DOMAIN Texts, NEW text \in Texts[key] PROVE Strip(text) \in Seq(Char)
  <2>1. text \in Seq(STRING)
    BY SettingsAssumption
  <2> QED BY <1>1, <2>1, StripType
<1>3. /\ \A key \in PromptKey : Default[key] \in Seq(Char)
      /\ \A i \in DOMAIN Initial : Initial[i].text \in Seq(Char)
  BY <1>1, SettingsAssumption
<1> QED BY <1>2, <1>3 DEF Written

\* What comes back is what was written, where it can.
LEMMA StoredSurvives ==
  ASSUME NEW text \in Written, Survives(text)
  PROVE  Stored[text] = text
BY WrittenAreTexts, RoundTripSurvives DEF Stored

-----------------------------------------------------------------------------
\* The first line of a setting.
LEMMA TextAtIs ==
  ASSUME NEW lines \in Seq(LineType), NEW key
  PROVE  /\ (\A i \in DOMAIN lines : lines[i].key # key) => TextAt(lines, key) = Absent
         /\ \A i \in DOMAIN lines :
              lines[i].key = key /\ (\A j \in DOMAIN lines : j < i => lines[j].key # key) =>
                TextAt(lines, key) = lines[i].text
<1>1. DOMAIN lines \in SUBSET Nat /\ DOMAIN lines = 1 .. Len(lines)
  OBVIOUS
<1>2. ASSUME NEW i \in DOMAIN lines, lines[i].key = key,
             \A j \in DOMAIN lines : j < i => lines[j].key # key
      PROVE  TextAt(lines, key) = lines[i].text
  <2>1. i \in Places(lines, key) /\ \A j \in Places(lines, key) : i <= j
    BY <1>1, <1>2 DEF Places
  <2>2. First(lines, key) \in Places(lines, key) /\ \A j \in Places(lines, key) : First(lines, key) <= j
    BY <2>1 DEF First
  <2>3. First(lines, key) = i
    <3>1. First(lines, key) \in Nat /\ i \in Nat
      BY <1>1, <2>2 DEF Places
    <3> QED BY <2>1, <2>2, <3>1
  <2> QED BY <2>1, <2>3 DEF TextAt
<1> QED BY <1>2 DEF TextAt, Places

LEMMA FirstIs ==
  ASSUME NEW lines \in Seq(LineType), NEW key, Places(lines, key) # {}
  PROVE  /\ First(lines, key) \in DOMAIN lines /\ lines[First(lines, key)].key = key
         /\ \A j \in DOMAIN lines : j < First(lines, key) => lines[j].key # key
<1>1. DOMAIN lines \in SUBSET Nat /\ DOMAIN lines = 1 .. Len(lines)
  OBVIOUS
<1>2. Places(lines, key) \in SUBSET Nat
  BY <1>1 DEF Places
<1>3. \E m \in Places(lines, key) : \A k \in Places(lines, key) : m <= k
  BY <1>2, LeastNat
<1>4. First(lines, key) \in Places(lines, key) /\ \A j \in Places(lines, key) : First(lines, key) <= j
  BY <1>3 DEF First
<1>5. ASSUME NEW j \in DOMAIN lines, j < First(lines, key) PROVE lines[j].key # key
  <2>1. j \in Nat /\ First(lines, key) \in Nat /\ ~(First(lines, key) <= j)
    BY <1>1, <1>2, <1>4, <1>5
  <2> QED BY <1>4, <2>1 DEF Places
<1> QED BY <1>4, <1>5 DEF Places

\* What is at work for a setting is one of its lines.
LEMMA TextAtType ==
  ASSUME NEW lines \in Seq(LineType), AllSubmitted(lines), NEW key
  PROVE  TextAt(lines, key) \in Submitted(key) \cup {Absent}
<1>1. CASE Places(lines, key) = {}
  BY <1>1 DEF TextAt
<1>2. CASE Places(lines, key) # {}
  <2>1. First(lines, key) \in DOMAIN lines /\ lines[First(lines, key)].key = key
    BY <1>2, FirstIs
  <2> QED BY <1>2, <2>1 DEF TextAt, AllSubmitted
<1> QED BY <1>1, <1>2

LEMMA LineFacts ==
  ASSUME NEW lines \in Seq(LineType)
  PROVE  /\ Len(lines) \in Nat /\ DOMAIN lines = 1 .. Len(lines)
         /\ \A i \in DOMAIN lines : lines[i] \in LineType /\ lines[i].key \in DOMAIN Texts /\ lines[i].text \in Written
<1>1. Len(lines) \in Nat /\ DOMAIN lines = 1 .. Len(lines) /\ \A i \in DOMAIN lines : lines[i] \in LineType
  <2> HIDE DEF LineType
  <2> QED OBVIOUS
<1> QED BY <1>1 DEF LineType

\* Setting a value sets this one and no other.
LEMMA SetValueFacts ==
  ASSUME NEW lines \in Seq(LineType), AllSubmitted(lines),
         NEW key \in DOMAIN Texts, NEW text \in Submitted(key)
  PROVE  LET set == SetValue(lines, key, text)
         IN  /\ set \in Seq(LineType) /\ AllSubmitted(set)
             /\ TextAt(set, key) = text
             /\ \A k \in DOMAIN Texts : k # key => TextAt(set, k) = TextAt(lines, k)
<1> DEFINE set == SetValue(lines, key, text)
           n == Len(lines)
           line == EnvLine(key, text)
<1>1. /\ n \in Nat /\ DOMAIN lines = 1 .. n
      /\ \A i \in DOMAIN lines : lines[i] \in LineType
  BY LineFacts
<1>2. line \in LineType /\ line.key = key /\ line.text = text
  BY TextFacts DEF EnvLine, LineType
<1> HIDE DEF line
<1>3. CASE Places(lines, key) = {}
  <2>1. set = Append(lines, line)
    BY <1>3 DEF SetValue, line
  <2>2. /\ set \in Seq(LineType) /\ DOMAIN set = 1 .. n + 1 /\ set[n + 1] = line
        /\ \A i \in 1 .. n : set[i] = lines[i]
    BY <1>1, <1>2, <2>1
  <2> HIDE DEF set, n
  <2>3. \A i \in 1 .. n + 1 : i \in 1 .. n \/ i = n + 1
    BY <1>1
  <2>4. \A i \in 1 .. n : i \in 1 .. n + 1
    BY <1>1
  <2>5. AllSubmitted(set)
    BY <1>1, <1>2, <2>2, <2>3 DEF AllSubmitted
  <2>6. TextAt(set, key) = text
    <3>1. \A j \in DOMAIN set : j < n + 1 => set[j].key # key
      BY <1>1, <1>3, <2>2, <2>3 DEF Places
    <3>2. n + 1 \in DOMAIN set
      BY <1>1, <2>2
    <3> QED BY <1>2, <2>2, <3>1, <3>2, TextAtIs
  <2>7. ASSUME NEW k \in DOMAIN Texts, k # key PROVE TextAt(set, k) = TextAt(lines, k)
    <3>1. CASE Places(lines, k) = {}
      <4>1. \A i \in DOMAIN set : set[i].key # k
        BY <1>1, <1>2, <2>2, <2>3, <2>7, <3>1 DEF Places
      <4>2. TextAt(set, k) = Absent
        BY <2>2, <4>1, TextAtIs
      <4> QED BY <3>1, <4>2 DEF TextAt
    <3>2. CASE Places(lines, k) # {}
      <4> DEFINE i == First(lines, k)
      <4>1. i \in DOMAIN lines /\ lines[i].key = k /\ \A j \in DOMAIN lines : j < i => lines[j].key # k
        BY <3>2, FirstIs
      <4> HIDE DEF i
      <4>2. i \in DOMAIN set /\ set[i] = lines[i]
        BY <1>1, <2>2, <2>4, <4>1
      <4>3. \A j \in DOMAIN set : j < i => set[j].key # k
        BY <1>1, <1>2, <2>2, <2>3, <2>7, <4>1
      <4>4. TextAt(set, k) = set[i].text
        BY <2>2, <4>1, <4>2, <4>3, TextAtIs
      <4> QED BY <3>2, <4>2, <4>4 DEF TextAt, i
    <3> QED BY <3>1, <3>2
  <2> QED BY <2>2, <2>5, <2>6, <2>7 DEF set
<1>4. CASE Places(lines, key) # {}
  <2> DEFINE f == First(lines, key)
  <2>1. f \in DOMAIN lines /\ lines[f].key = key /\ \A j \in DOMAIN lines : j < f => lines[j].key # key
    BY <1>4, FirstIs
  <2>2. set = [lines EXCEPT ![f] = line]
    BY <1>4 DEF SetValue, line
  <2> HIDE DEF f
  <2>3. /\ set \in Seq(LineType) /\ DOMAIN set = DOMAIN lines /\ set[f] = line
        /\ \A i \in DOMAIN lines : i # f => set[i] = lines[i]
    BY <1>1, <1>2, <2>1, <2>2
  <2> HIDE DEF set, n
  <2>4. \A i \in DOMAIN lines : set[i].key = lines[i].key
    BY <1>2, <2>1, <2>3
  <2>5. AllSubmitted(set)
    BY <1>2, <2>3 DEF AllSubmitted
  <2>6. TextAt(set, key) = text
    <3>1. \A j \in DOMAIN set : j < f => set[j].key # key
      BY <2>1, <2>3, <2>4
    <3> QED BY <1>2, <2>1, <2>3, <3>1, TextAtIs
  <2>7. ASSUME NEW k \in DOMAIN Texts, k # key PROVE TextAt(set, k) = TextAt(lines, k)
    <3>1. CASE Places(lines, k) = {}
      <4>1. \A i \in DOMAIN set : set[i].key # k
        BY <2>3, <2>4, <3>1 DEF Places
      <4>2. TextAt(set, k) = Absent
        BY <2>3, <4>1, TextAtIs
      <4> QED BY <3>1, <4>2 DEF TextAt
    <3>2. CASE Places(lines, k) # {}
      <4> DEFINE i == First(lines, k)
      <4>1. i \in DOMAIN lines /\ lines[i].key = k /\ \A j \in DOMAIN lines : j < i => lines[j].key # k
        BY <3>2, FirstIs
      <4> HIDE DEF i
      <4>2. set[i] = lines[i]
        BY <2>1, <2>3, <2>7, <4>1
      <4>3. \A j \in DOMAIN set : j < i => set[j].key # k
        BY <2>3, <2>4, <4>1
      <4>4. TextAt(set, k) = set[i].text
        BY <2>3, <2>4, <4>1, <4>3, TextAtIs
      <4> QED BY <3>2, <4>2, <4>4 DEF TextAt, i
    <3> QED BY <3>1, <3>2
  <2> QED BY <2>3, <2>5, <2>6, <2>7 DEF set
<1> QED BY <1>3, <1>4

\* Deleting a value deletes every line of it and no other.
LEMMA DeleteValueFacts ==
  ASSUME NEW lines \in Seq(LineType), AllSubmitted(lines), NEW key \in DOMAIN Texts
  PROVE  LET left == DeleteValue(lines, key)
         IN  /\ left \in Seq(LineType) /\ AllSubmitted(left)
             /\ TextAt(left, key) = Absent
             /\ \A k \in DOMAIN Texts : k # key => TextAt(left, k) = TextAt(lines, k)
<1> DEFINE left == DeleteValue(lines, key)
           P == {i \in DOMAIN lines : lines[i].key # key}
<1>1. Len(lines) \in Nat /\ DOMAIN lines = 1 .. Len(lines)
  BY LineFacts
<1>2. left = Picked(lines, P) /\ P \in SUBSET DOMAIN lines
  BY DEF DeleteValue
<1> HIDE DEF left
<1>3. PICK n \in Nat, spot \in [1 .. Cardinality(P) -> P] :
        /\ n = Cardinality(P)
        /\ \A i, j \in 1 .. n : i < j => spot[i] < spot[j]
        /\ \A p \in P : \E i \in 1 .. n : spot[i] = p
        /\ left = [i \in 1 .. n |-> lines[spot[i]]]
        /\ left \in Seq(LineType) /\ Len(left) = n
  <2> HIDE DEF P
  <2> QED BY <1>2, PickedIs
<1>4. DOMAIN left = 1 .. n /\ \A i \in 1 .. n : spot[i] \in P /\ left[i] = lines[spot[i]]
  <2> HIDE DEF P
  <2> QED BY <1>3
<1>9. left \in Seq(LineType)
  BY <1>3
<1>5. \A i \in 1 .. n : spot[i] \in DOMAIN lines /\ lines[spot[i]].key # key
  BY <1>4
<1>6. AllSubmitted(left)
  BY <1>4, <1>5 DEF AllSubmitted
<1>7. TextAt(left, key) = Absent
  BY <1>3, <1>4, <1>5, TextAtIs
<1>8. ASSUME NEW k \in DOMAIN Texts, k # key PROVE TextAt(left, k) = TextAt(lines, k)
  <2>1. CASE Places(lines, k) = {}
    <3>1. \A i \in DOMAIN left : left[i].key # k
      BY <1>4, <1>5, <2>1 DEF Places
    <3>2. TextAt(left, k) = Absent
      BY <1>3, <3>1, TextAtIs
    <3> QED BY <2>1, <3>2 DEF TextAt
  <2>2. CASE Places(lines, k) # {}
    <3> DEFINE f == First(lines, k)
    <3>1. f \in DOMAIN lines /\ lines[f].key = k /\ \A j \in DOMAIN lines : j < f => lines[j].key # k
      BY <2>2, FirstIs
    <3> HIDE DEF f
    <3>2. f \in P
      BY <1>8, <3>1
    <3>3. PICK l \in 1 .. n : spot[l] = f
      <4> HIDE DEF P
      <4> QED BY <1>3, <3>2
    <3>4. \A j \in DOMAIN left : j < l => left[j].key # k
      <4> SUFFICES ASSUME NEW j \in 1 .. n, j < l PROVE lines[spot[j]].key # k
        BY <1>4
      <4>1. spot[j] < spot[l]
        BY <1>3
      <4> QED BY <1>5, <3>1, <3>3, <4>1
    <3>5. TextAt(left, k) = left[l].text
      <4>1. left[l].key = k /\ l \in DOMAIN left
        BY <1>4, <3>1, <3>3
      <4> QED BY <1>9, <3>4, <4>1, TextAtIs
    <3> QED BY <1>4, <2>2, <3>3, <3>5 DEF TextAt, f
  <2> QED BY <2>1, <2>2
<1> QED BY <1>3, <1>6, <1>7, <1>8 DEF left

LEMMA EditedFacts ==
  ASSUME NEW lines \in Seq(LineType), AllSubmitted(lines), NEW edit,
         edit.key \in DOMAIN Texts, edit.text \in Submitted(edit.key) \cup {Absent}
  PROVE  LET new == Edited(lines, edit)
         IN  /\ new \in Seq(LineType) /\ AllSubmitted(new)
             /\ TextAt(new, edit.key) = edit.text
             /\ \A k \in DOMAIN Texts : k # edit.key => TextAt(new, k) = TextAt(lines, k)
<1>1. CASE edit.text = Absent
  BY <1>1, DeleteValueFacts DEF Edited
<1>2. CASE edit.text # Absent
  BY <1>2, SetValueFacts DEF Edited
<1> QED BY <1>1, <1>2

EditType == [key : DOMAIN Texts, text : Written \cup {Absent}]

RequestType == [edits : Seq(EditType), lines : Seq(LineType) \cup {Absent}, truncated : BOOLEAN]

\* What a request asks for: of every setting one text that somebody submitted.
IsEdits(edits) ==
  /\ edits \in Seq(EditType)
  /\ \A i \in DOMAIN edits : edits[i].key \in DOMAIN Texts /\ edits[i].text \in Submitted(edits[i].key) \cup {Absent}
  /\ \A i, j \in DOMAIN edits : i # j => edits[i].key # edits[j].key

LEMMA RequestFacts ==
  ASSUME SettingsInv, NEW m \in Manager
  PROVE  /\ request[m] \in RequestType /\ IsEdits(request[m].edits)
         /\ request[m] = [edits |-> request[m].edits, lines |-> request[m].lines,
                          truncated |-> request[m].truncated]
         /\ request[m].lines # Absent => request[m].lines \in Seq(LineType) /\ AllSubmitted(request[m].lines)
         /\ request[m].truncated \in BOOLEAN /\ (request[m].truncated => request[m].lines # Absent)
<1>1. request[m] \in RequestType
  BY DEF SettingsInv, SettingsTypeOK, RequestType, EditType
<1>2. /\ request[m].edits \in Seq(EditType) /\ request[m].lines \in Seq(LineType) \cup {Absent}
      /\ request[m].truncated \in BOOLEAN
      /\ request[m] = [edits |-> request[m].edits, lines |-> request[m].lines,
                       truncated |-> request[m].truncated]
  BY <1>1 DEF RequestType
<1>3. \A i \in DOMAIN request[m].edits : request[m].edits[i].key \in DOMAIN Texts
  <2>1. \A i \in DOMAIN request[m].edits : request[m].edits[i] \in EditType
    <3> HIDE DEF EditType
    <3> QED BY <1>2
  <2> QED BY <2>1 DEF EditType
<1>4. IsEdits(request[m].edits)
  BY <1>2, <1>3 DEF SettingsInv, NothingElse, IsEdits
<1> QED BY <1>1, <1>2, <1>4 DEF SettingsInv, NothingElse

LEMMA TailFacts ==
  ASSUME NEW edits, IsEdits(edits), edits # <<>>
  PROVE  /\ IsEdits(Tail(edits)) /\ 1 \in DOMAIN edits /\ Head(edits) = edits[1]
         /\ Head(edits).key \in DOMAIN Texts
         /\ Head(edits).text \in Submitted(Head(edits).key) \cup {Absent}
         /\ \A i \in DOMAIN Tail(edits) : i + 1 \in DOMAIN edits /\ Tail(edits)[i] = edits[i + 1]
         /\ \A key : Unedited(key, Tail(edits)) => key = Head(edits).key \/ Unedited(key, edits)
         /\ Unedited(Head(edits).key, Tail(edits))
<1> DEFINE n == Len(edits)
           rest == Tail(edits)
<1>1. edits \in Seq(EditType)
  BY DEF IsEdits
<1>2. /\ n \in Nat /\ n # 0 /\ DOMAIN edits = 1 .. n /\ Head(edits) = edits[1]
      /\ rest \in Seq(EditType) /\ DOMAIN rest = 1 .. n - 1
      /\ \A i \in 1 .. n - 1 : rest[i] = edits[i + 1]
  <2> HIDE DEF EditType
  <2>1. n \in Nat /\ n # 0 /\ DOMAIN edits = 1 .. n
    BY <1>1
  <2>2. /\ Head(edits) = edits[1] /\ rest \in Seq(EditType) /\ Len(rest) = n - 1
        /\ \A i \in 1 .. Len(rest) : rest[i] = edits[i + 1]
    BY <1>1, HeadTailProperties
  <2>3. DOMAIN rest = 1 .. n - 1
    BY <2>1, <2>2
  <2> QED BY <2>1, <2>2, <2>3
<1> HIDE DEF n, rest
<1>3. \A i \in 1 .. n - 1 : i + 1 \in 1 .. n /\ i + 1 # 1
  BY <1>2
<1>4. 1 \in 1 .. n /\ \A i \in 1 .. n : i # 1 => i - 1 \in 1 .. n - 1 /\ (i - 1) + 1 = i
  BY <1>2
<1>5. IsEdits(rest)
  <2>1. \A i, j \in 1 .. n - 1 : i # j => i + 1 # j + 1
    BY <1>2
  <2>2. \A i \in 1 .. n : /\ edits[i].key \in DOMAIN Texts
                          /\ edits[i].text \in Submitted(edits[i].key) \cup {Absent}
                          /\ \A j \in 1 .. n : i # j => edits[i].key # edits[j].key
    BY <1>2 DEF IsEdits
  <2>3. \A i \in 1 .. n - 1 : /\ rest[i].key \in DOMAIN Texts
                              /\ rest[i].text \in Submitted(rest[i].key) \cup {Absent}
    BY <1>2, <1>3, <2>2
  <2>4. \A i, j \in 1 .. n - 1 : i # j => rest[i].key # rest[j].key
    BY <1>2, <1>3, <2>1, <2>2
  <2> QED BY <1>2, <2>3, <2>4 DEF IsEdits
<1>6. ASSUME NEW key, Unedited(key, rest) PROVE key = edits[1].key \/ Unedited(key, edits)
  <2> SUFFICES ASSUME NEW i \in 1 .. n, edits[i].key = key PROVE i = 1
    BY <1>2, <1>4 DEF Unedited
  <2> SUFFICES ASSUME i # 1 PROVE FALSE
    OBVIOUS
  <2>1. i - 1 \in 1 .. n - 1 /\ (i - 1) + 1 = i
    BY <1>4
  <2>2. rest[i - 1] = edits[i]
    BY <1>2, <2>1
  <2> QED BY <1>2, <1>6, <2>1, <2>2 DEF Unedited
<1>7. Unedited(edits[1].key, rest)
  <2> SUFFICES ASSUME NEW i \in 1 .. n - 1 PROVE rest[i].key # edits[1].key
    BY <1>2 DEF Unedited
  <2>1. rest[i] = edits[i + 1] /\ i + 1 \in 1 .. n /\ i + 1 # 1
    BY <1>2, <1>3
  <2> QED BY <1>2, <1>4, <2>1 DEF IsEdits
<1>8. edits[1].key \in DOMAIN Texts /\ edits[1].text \in Submitted(edits[1].key) \cup {Absent}
  BY <1>2, <1>4 DEF IsEdits
<1> QED BY <1>2, <1>3, <1>4, <1>5, <1>6, <1>7, <1>8 DEF rest

LEMMA ValueFacts ==
  ASSUME NEW key \in DOMAIN Texts
  PROVE  /\ Absent \in Possible(key)
         /\ \A text \in Submitted(key) : Stored[text] \in Possible(key) /\ text # Absent /\ text \in Written
         /\ \A value \in Possible(key) : Resolved(key, value) \in Possible(key)
         /\ \A lines \in Seq(LineType) : AllSubmitted(lines) =>
              /\ GetValue(lines, key) \in Possible(key)
              /\ GetValue(lines, key) =
                   IF TextAt(lines, key) = Absent THEN Absent ELSE Stored[TextAt(lines, key)]
<1>1. Absent \in Possible(key)
  BY DEF Possible
<1>2. \A text \in Submitted(key) : Stored[text] \in Possible(key) /\ text # Absent /\ text \in Written
  <2>1. \A text \in Submitted(key) : text # Absent /\ text \in Written
    BY TextFacts
  <2>2. \A text \in Submitted(key) : Stored[text] \in Possible(key)
    BY DEF Submitted, Possible
  <2> QED BY <2>1, <2>2
<1>3. \A value \in Possible(key) : Resolved(key, value) \in Possible(key)
  BY DEF Possible, Resolved
<1>4. ASSUME NEW lines \in Seq(LineType), AllSubmitted(lines)
      PROVE  /\ GetValue(lines, key) \in Possible(key)
             /\ GetValue(lines, key) =
                  IF TextAt(lines, key) = Absent THEN Absent ELSE Stored[TextAt(lines, key)]
  <2>1. CASE Places(lines, key) = {}
    BY <1>1, <2>1 DEF GetValue, TextAt
  <2>2. CASE Places(lines, key) # {}
    <3>1. First(lines, key) \in DOMAIN lines /\ lines[First(lines, key)].key = key
      BY <2>2, FirstIs
    <3>2. lines[First(lines, key)].text \in Submitted(key)
      BY <1>4, <3>1 DEF AllSubmitted
    <3> QED BY <1>2, <2>2, <3>2 DEF GetValue, TextAt
  <2> QED BY <2>1, <2>2
<1> QED BY <1>1, <1>2, <1>3, <1>4

LEMMA InitSettingsInv == InitSettings => SettingsInv
<1> SUFFICES ASSUME InitSettings PROVE SettingsInv
  OBVIOUS
<1> USE DEF InitSettings
<1>1. Initial \in Seq(LineType) /\ MaxSaves \in Nat
  BY SettingsAssumption
<1>2. AllSubmitted(Initial)
  BY DEF AllSubmitted, Submitted, Places
<1>3. saved = [key \in DOMAIN Texts |-> TextAt(Initial, key)]
  BY DEF TextAt
<1>4. \A key \in DOMAIN Texts : TextAt(Initial, key) \in Submitted(key) \cup {Absent}
  BY <1>1, <1>2, TextAtType
<1>5. saved \in [DOMAIN Texts -> Written \cup {Absent}]
  BY <1>3, <1>4, TextFacts
<1>6. \A m \in Manager : request[m] = Rest
  OBVIOUS
<1>7. <<>> \in Seq(EditType) /\ Rest \in RequestType
  BY DEF Rest, ToDo, RequestType
<1>8. request \in [Manager -> RequestType]
  BY <1>6, <1>7
<1>9. reading \in [left : Seq(DOMAIN Texts),
                   seen : Seq([key : DOMAIN Texts, text : UNION {Possible(key) : key \in DOMAIN Texts}])]
  OBVIOUS
<1>10. SettingsTypeOK
  <2>1. saves \in 0 .. MaxSaves /\ calm \in BOOLEAN /\ alone \in BOOLEAN /\ file \in Seq(LineType)
    BY <1>1
  <2> QED BY <1>5, <1>6, <1>8, <1>9, <2>1 DEF SettingsTypeOK, RequestType, EditType
<1>11. NothingElse
  BY <1>2, <1>3, <1>4, <1>6 DEF NothingElse, Rest, ToDo
<1>12. OneAfterTheOther
  BY <1>3, <1>6 DEF OneAfterTheOther, Busy, Rest, ToDo
<1>13. ReadsWhatIsSaved
  BY <1>6 DEF ReadsWhatIsSaved, Busy, Rest, ToDo
<1> QED BY <1>10, <1>11, <1>12, <1>13 DEF SettingsInv

LEMMA BeginRequestKeeps ==
  ASSUME SettingsInv, NEW m \in Manager, NEW edits, IsEdits(edits), BeginRequest(m, edits)
  PROVE  SettingsInv'
<1> DEFINE mine == [edits |-> edits, lines |-> Absent, truncated |-> FALSE]
<1>1. /\ ~Busy(m) /\ saves < MaxSaves /\ saves' = saves + 1 /\ alone' = FALSE
      /\ calm' = (calm /\ \A other \in Manager : ~Busy(other))
      /\ saved' = IF calm' THEN Asked(edits) ELSE saved
      /\ file' = file /\ reading' = reading
  BY DEF BeginRequest
<1>2. request' = [request EXCEPT ![m] = mine]
  BY DEF BeginRequest, ToDo
<1>3. request \in [Manager -> RequestType]
  BY DEF SettingsInv, SettingsTypeOK, RequestType, EditType
<1>4. mine \in RequestType
  BY DEF RequestType, IsEdits
<1>5. /\ request' \in [Manager -> RequestType] /\ request'[m] = mine
      /\ \A o \in Manager : o # m => request'[o] = request[o]
  BY <1>2, <1>3, <1>4
<1>6. \A key \in DOMAIN Texts : /\ saved[key] \in Submitted(key) \cup {Absent}
                                /\ saved'[key] \in Submitted(key) \cup {Absent}
  <2>1. \A key \in DOMAIN Texts : saved[key] \in Submitted(key) \cup {Absent}
    BY DEF SettingsInv, NothingElse
  <2>2. DOMAIN saved = DOMAIN Texts
    BY DEF SettingsInv, SettingsTypeOK
  <2>3. \A key \in DOMAIN Texts : Asked(edits)[key] \in Submitted(key) \cup {Absent}
    <3> TAKE key \in DOMAIN Texts
    <3>1. CASE \E i \in DOMAIN edits : edits[i].key = key
      <4> DEFINE i == CHOOSE i \in DOMAIN edits : edits[i].key = key
      <4>1. i \in DOMAIN edits /\ edits[i].key = key
        BY <3>1
      <4>2. Asked(edits)[key] = edits[i].text
        BY <2>2, <3>1 DEF Asked
      <4> HIDE DEF i
      <4> QED BY <4>1, <4>2 DEF IsEdits
    <3>2. CASE ~ \E i \in DOMAIN edits : edits[i].key = key
      BY <2>1, <2>2, <3>2 DEF Asked
    <3> QED BY <3>1, <3>2
  <2> QED BY <1>1, <2>1, <2>3
<1>7. saved' \in [DOMAIN Texts -> Written \cup {Absent}]
  <2>1. saved \in [DOMAIN Texts -> Written \cup {Absent}]
    BY DEF SettingsInv, SettingsTypeOK
  <2>2. saved' = [key \in DOMAIN Texts |-> saved'[key]]
    BY <1>1, <2>1 DEF Asked
  <2>3. \A key \in DOMAIN Texts : saved'[key] \in Written \cup {Absent}
    BY <1>6, TextFacts
  <2> QED BY <2>2, <2>3
<1>8. SettingsTypeOK'
  <2>1. saves' \in 0 .. MaxSaves
    BY <1>1, SettingsAssumption DEF SettingsInv, SettingsTypeOK
  <2>2. \A o \in Manager : request'[o].edits = <<>> => request'[o] = Rest
    <3> TAKE o \in Manager
    <3>1. CASE o = m
      BY <1>5, <3>1 DEF Rest, ToDo
    <3>2. CASE o # m
      BY <1>5, <3>2 DEF SettingsInv, SettingsTypeOK, Busy
    <3> QED BY <3>1, <3>2
  <2>3. calm' \in BOOLEAN /\ alone' \in BOOLEAN
    BY <1>1
  <2> QED BY <1>1, <1>5, <1>7, <2>1, <2>2, <2>3
      DEF SettingsInv, SettingsTypeOK, Busy, RequestType, EditType
<1>9. NothingElse'
  <2>1. /\ mine.lines = Absent /\ mine.edits = edits /\ ~mine.truncated
    OBVIOUS
  <2> HIDE DEF mine
  <2>2. ASSUME NEW o \in Manager
        PROVE  /\ request'[o].lines # Absent => AllSubmitted(request'[o].lines)
               /\ \A i \in DOMAIN request'[o].edits :
                    request'[o].edits[i].text \in Submitted(request'[o].edits[i].key) \cup {Absent}
               /\ \A i, j \in DOMAIN request'[o].edits :
                    i # j => request'[o].edits[i].key # request'[o].edits[j].key
               /\ request'[o].truncated => request'[o].lines # Absent
    <3>1. CASE o = m
      BY <1>5, <2>1, <3>1 DEF IsEdits
    <3>2. CASE o # m
      BY <1>5, <3>2 DEF SettingsInv, NothingElse
    <3> QED BY <3>1, <3>2
  <2> QED BY <1>1, <1>6, <2>2 DEF SettingsInv, NothingElse, AllSubmitted
<1>10. OneAfterTheOther'
  <2> SUFFICES ASSUME calm' PROVE OneAfterTheOther'
    BY DEF OneAfterTheOther
  <2>1. calm /\ (\A o \in Manager : ~Busy(o)) /\ saved' = Asked(edits)
    BY <1>1
  <2>2. \A key \in DOMAIN Texts : TextAt(file, key) = saved[key]
    BY <2>1 DEF SettingsInv, OneAfterTheOther
  <2>3. DOMAIN saved = DOMAIN Texts
    BY DEF SettingsInv, SettingsTypeOK
  <2>4. \A key \in DOMAIN Texts : Unedited(key, edits) => saved'[key] = TextAt(file, key)
    BY <2>1, <2>2, <2>3 DEF Asked, Unedited
  <2>5. \A i \in DOMAIN edits : saved'[edits[i].key] = edits[i].text
    <3> TAKE i \in DOMAIN edits
    <3> DEFINE key == edits[i].key
               j == CHOOSE j \in DOMAIN edits : edits[j].key = key
    <3>1. key \in DOMAIN Texts
      BY DEF IsEdits
    <3>2. Asked(edits)[key] = edits[j].text
      BY <2>3, <3>1 DEF Asked
    <3>3. j \in DOMAIN edits /\ edits[j].key = key
      OBVIOUS
    <3> HIDE DEF j
    <3>4. j = i
      BY <3>3 DEF IsEdits
    <3> QED BY <2>1, <3>2, <3>4
  <2>6. \A o \in Manager : o # m => request'[o].edits = <<>>
    BY <1>5, <2>1 DEF Busy
  <2>7. mine.lines = Absent /\ mine.edits = edits /\ mine.truncated = FALSE
    OBVIOUS
  <2> HIDE DEF mine
  <2>8. \A o, p \in Manager : request'[o].edits # <<>> /\ request'[p].edits # <<>> => o = p
    BY <2>6
  <2>9. ASSUME \A o \in Manager : request'[o].edits = <<>>
        PROVE  \A key \in DOMAIN Texts : TextAt(file, key) = saved'[key]
    <3>1. edits = <<>>
      BY <1>5, <2>7, <2>9
    <3>2. \A key : Unedited(key, edits)
      BY <3>1 DEF Unedited
    <3> QED BY <2>4, <3>2
  <2>10. ASSUME NEW o \in Manager, request'[o].edits # <<>>
         PROVE  /\ \A i \in DOMAIN request'[o].edits :
                     saved'[request'[o].edits[i].key] = request'[o].edits[i].text
                /\ \A key \in DOMAIN Texts : Unedited(key, request'[o].edits) => TextAt(file, key) = saved'[key]
                /\ request'[o].lines = Absent /\ ~request'[o].truncated
    <3>1. o = m
      BY <2>6, <2>10
    <3> QED BY <1>5, <2>4, <2>5, <2>7, <3>1
  <2>11. \A key : TextAt(file', key) = TextAt(file, key)
    BY <1>1
  <2>12. /\ \A o, p \in Manager : Busy(o)' /\ Busy(p)' => o = p
         /\ (\A o \in Manager : ~Busy(o)') => \A key \in DOMAIN Texts : TextAt(file, key)' = saved'[key]
    BY <1>1, <2>8, <2>9 DEF Busy
  <2>13. ASSUME NEW o \in Manager, Busy(o)'
         PROVE  /\ \A i \in DOMAIN request'[o].edits :
                     saved'[request'[o].edits[i].key] = request'[o].edits[i].text
                /\ \A key \in DOMAIN Texts : Unedited(key, request'[o].edits) => TextAt(file, key)' = saved'[key]
                /\ request'[o].lines = Absent /\ ~request'[o].truncated
    BY <1>1, <2>10, <2>13 DEF Busy
  <2> QED BY <2>12, <2>13 DEF OneAfterTheOther, Unedited
<1>11. ReadsWhatIsSaved'
  BY <1>1 DEF ReadsWhatIsSaved
<1> QED BY <1>8, <1>9, <1>10, <1>11 DEF SettingsInv

\* What the page asks for is what somebody submitted.
LEMMA OneEdit ==
  ASSUME NEW key \in DOMAIN Texts, NEW text \in Submitted(key) \cup {Absent}
  PROVE  IsEdits(<<Edit(key, text)>>)
<1> DEFINE edit == Edit(key, text)
           edits == <<edit>>
<1>1. edit \in EditType /\ edit.key = key /\ edit.text = text
  BY TextFacts DEF Edit, EditType
<1> HIDE DEF edit
<1>2. edits \in Seq(EditType) /\ DOMAIN edits = {1} /\ edits[1] = edit
  BY <1>1
<1> HIDE DEF edits
<1>3. IsEdits(edits)
  BY <1>1, <1>2 DEF IsEdits
<1> QED BY <1>3 DEF edits, edit

LEMMA ConnectionEdits ==
  ASSUME NEW edits, edits = [i \in DOMAIN Connection |-> edits[i]],
         \A i \in DOMAIN Connection :
           \E text \in Submitted(Connection[i]) \cup {Absent} : edits[i] = Edit(Connection[i], text)
  PROVE  IsEdits(edits)
<1> DEFINE n == Len(Connection)
<1>1. /\ n \in Nat /\ DOMAIN Connection = 1 .. n /\ \A i \in 1 .. n : Connection[i] \in DOMAIN Texts
      /\ \A i, j \in 1 .. n : i # j => Connection[i] # Connection[j]
  <2> DEFINE Keys == DOMAIN Texts
  <2>1. Connection \in Seq(Keys) /\ \A i, j \in DOMAIN Connection : i # j => Connection[i] # Connection[j]
    BY SettingsAssumption
  <2> HIDE DEF Keys
  <2>2. n \in Nat /\ DOMAIN Connection = 1 .. n /\ \A i \in 1 .. n : Connection[i] \in Keys
    BY <2>1
  <2> QED BY <2>1, <2>2 DEF Keys
<1> HIDE DEF n
<1>2. \A i \in 1 .. n : /\ edits[i] \in EditType
                        /\ edits[i].key = Connection[i]
                        /\ edits[i].text \in Submitted(edits[i].key) \cup {Absent}
  <2> TAKE i \in 1 .. n
  <2>1. PICK text \in Submitted(Connection[i]) \cup {Absent} : edits[i] = Edit(Connection[i], text)
    BY <1>1
  <2>2. text \in Written \cup {Absent}
    BY <1>1, TextFacts
  <2> QED BY <1>1, <2>1, <2>2 DEF Edit, EditType
<1>3. edits = [i \in 1 .. n |-> edits[i]]
  BY <1>1
<1>4. edits \in [1 .. n -> EditType] /\ DOMAIN edits = 1 .. n
  BY <1>2, <1>3
<1>5. edits \in Seq(EditType)
  BY <1>1, <1>4
<1> QED BY <1>1, <1>2, <1>4, <1>5 DEF IsEdits

LEMMA PageRequestKeeps ==
  ASSUME SettingsInv, NEW m \in Manager, PageRequest(m)
  PROVE  SettingsInv'
<1>1. ASSUME NEW key \in PromptKey, ResetPrompt(m, key) PROVE SettingsInv'
  <2>1. IsEdits(<<Edit(key, Absent)>>)
    BY TextFacts, OneEdit
  <2> QED BY <1>1, <2>1, BeginRequestKeeps DEF ResetPrompt
<1>2. ASSUME NEW key \in PromptKey, NEW text \in Texts[key], SavePrompt(m, key, text) PROVE SettingsInv'
  <2>1. IsEdits(<<Edit(key, IF Strip(text) = <<>> THEN Default[key] ELSE Strip(text))>>)
    BY TextFacts, OneEdit
  <2> QED BY <1>2, <2>1, BeginRequestKeeps DEF SavePrompt
<1>3. ASSUME NEW texts \in [{Connection[i] : i \in DOMAIN Connection} -> UNION {Texts[key] : key \in DOMAIN Texts}],
             \A key \in DOMAIN texts : texts[key] \in Texts[key], SaveConnection(m, texts)
      PROVE  SettingsInv'
  <2> DEFINE edits == [i \in DOMAIN Connection |-> Edit(Connection[i], Strip(texts[Connection[i]]))]
  <2>1. ASSUME NEW i \in DOMAIN Connection
        PROVE  Strip(texts[Connection[i]]) \in Submitted(Connection[i])
    <3>1. texts[Connection[i]] \in Texts[Connection[i]]
      BY <1>3
    <3> QED BY <3>1 DEF Submitted
  <2>2. /\ edits = [i \in DOMAIN Connection |-> edits[i]]
        /\ \A i \in DOMAIN Connection : edits[i] = Edit(Connection[i], Strip(texts[Connection[i]]))
    OBVIOUS
  <2>3. BeginRequest(m, edits)
    BY <1>3 DEF SaveConnection
  <2> HIDE DEF edits
  <2>4. IsEdits(edits)
    BY <2>1, <2>2, ConnectionEdits
  <2> QED BY <2>3, <2>4, BeginRequestKeeps
<1>4. ASSUME ResetConnection(m) PROVE SettingsInv'
  <2> DEFINE edits == [i \in DOMAIN Connection |-> Edit(Connection[i], Absent)]
  <2>1. /\ edits = [i \in DOMAIN Connection |-> edits[i]]
        /\ \A i \in DOMAIN Connection : edits[i] = Edit(Connection[i], Absent)
    OBVIOUS
  <2>2. BeginRequest(m, edits)
    BY <1>4 DEF ResetConnection
  <2> HIDE DEF edits
  <2>3. IsEdits(edits)
    BY <2>1, ConnectionEdits
  <2> QED BY <2>2, <2>3, BeginRequestKeeps
<1> QED BY <1>1, <1>2, <1>3, <1>4 DEF PageRequest

\* A step of one request that says what it has left, of what lines, and what it
\* does to the file.
LEMMA RequestStepKeeps ==
  ASSUME SettingsInv, NEW m \in Manager, Busy(m), NEW mine, mine \in RequestType, IsEdits(mine.edits),
         mine.edits = <<>> => mine = Rest,
         mine.lines # Absent => AllSubmitted(mine.lines), mine.truncated => mine.lines # Absent,
         file' \in Seq(LineType), AllSubmitted(file'),
         request' = [request EXCEPT ![m] = mine], UNCHANGED <<saves, reading, saved, calm, alone>>,
         calm =>
           /\ mine.edits = <<>> => \A key \in DOMAIN Texts : TextAt(file', key) = saved[key]
           /\ mine.edits # <<>> =>
                /\ \A i \in DOMAIN mine.edits : saved[mine.edits[i].key] = mine.edits[i].text
                /\ mine.lines = Absent =>
                     \A key \in DOMAIN Texts : Unedited(key, mine.edits) => TextAt(file', key) = saved[key]
                /\ mine.lines # Absent =>
                     \A key \in DOMAIN Texts : Unedited(key, Tail(mine.edits)) => TextAt(mine.lines, key) = saved[key]
                /\ mine.truncated => file' = <<>>
  PROVE  SettingsInv'
<1>1. /\ saves' = saves /\ reading' = reading /\ saved' = saved /\ calm' = calm /\ alone' = alone
  OBVIOUS
<1>2. request \in [Manager -> RequestType]
  BY DEF SettingsInv, SettingsTypeOK, RequestType, EditType
<1>3. /\ request' \in [Manager -> RequestType] /\ request'[m] = mine
      /\ \A o \in Manager : o # m => request'[o] = request[o]
  BY <1>2
<1>4. SettingsTypeOK'
  <2>1. \A o \in Manager : request'[o].edits = <<>> => request'[o] = Rest
    <3> TAKE o \in Manager
    <3>1. CASE o = m
      BY <1>3, <3>1
    <3>2. CASE o # m
      BY <1>3, <3>2 DEF SettingsInv, SettingsTypeOK, Busy
    <3> QED BY <3>1, <3>2
  <2> QED BY <1>1, <1>3, <2>1 DEF SettingsInv, SettingsTypeOK, Busy, RequestType, EditType
<1>5. NothingElse'
  <2>1. ASSUME NEW o \in Manager
        PROVE  /\ request'[o].lines # Absent => AllSubmitted(request'[o].lines)
               /\ \A i \in DOMAIN request'[o].edits :
                    request'[o].edits[i].text \in Submitted(request'[o].edits[i].key) \cup {Absent}
               /\ \A i, j \in DOMAIN request'[o].edits :
                    i # j => request'[o].edits[i].key # request'[o].edits[j].key
               /\ request'[o].truncated => request'[o].lines # Absent
    <3>1. CASE o = m
      BY <1>3, <3>1 DEF IsEdits
    <3>2. CASE o # m
      BY <1>3, <3>2 DEF SettingsInv, NothingElse
    <3> QED BY <3>1, <3>2
  <2>2. \A key \in DOMAIN Texts : saved'[key] \in Submitted(key) \cup {Absent}
    BY <1>1 DEF SettingsInv, NothingElse
  <2>3. \A i \in DOMAIN reading'.seen : reading'.seen[i].text \in Possible(reading'.seen[i].key)
    BY <1>1 DEF SettingsInv, NothingElse
  <2> QED BY <2>1, <2>2, <2>3 DEF NothingElse, AllSubmitted
<1>6. OneAfterTheOther'
  <2> SUFFICES ASSUME calm PROVE OneAfterTheOther'
    BY <1>1 DEF OneAfterTheOther
  <2>1. \A o \in Manager : o # m => request'[o].edits = <<>>
    BY <1>3 DEF SettingsInv, OneAfterTheOther, Busy
  <2>2. /\ \A o, p \in Manager : Busy(o)' /\ Busy(p)' => o = p
        /\ (\A o \in Manager : ~Busy(o)') => \A key \in DOMAIN Texts : TextAt(file, key)' = saved'[key]
    BY <1>1, <1>3, <2>1 DEF Busy
  <2>3. ASSUME NEW o \in Manager, Busy(o)'
        PROVE  /\ \A i \in DOMAIN request'[o].edits :
                    saved'[request'[o].edits[i].key] = request'[o].edits[i].text
               /\ request'[o].lines = Absent =>
                    \A key \in DOMAIN Texts : Unedited(key, request'[o].edits) => TextAt(file, key)' = saved'[key]
               /\ request'[o].lines # Absent =>
                    \A key \in DOMAIN Texts :
                      Unedited(key, Tail(request'[o].edits)) => TextAt(request'[o].lines, key) = saved'[key]
               /\ request'[o].truncated => file' = <<>>
    <3>1. o = m
      BY <2>1, <2>3 DEF Busy
    <3> QED BY <1>1, <1>3, <2>3, <3>1 DEF Busy
  <2> QED BY <2>2, <2>3 DEF OneAfterTheOther
<1>7. ReadsWhatIsSaved'
  <2>1. ~alone
    BY DEF SettingsInv, ReadsWhatIsSaved
  <2> QED BY <1>1, <2>1 DEF ReadsWhatIsSaved
<1> QED BY <1>4, <1>5, <1>6, <1>7 DEF SettingsInv

LEMMA DoneMine ==
  ASSUME SettingsInv, NEW m \in Manager, Busy(m), NEW lines \in Seq(LineType), AllSubmitted(lines),
         TextAt(lines, Head(request[m].edits).key) = Head(request[m].edits).text,
         calm => \A key \in DOMAIN Texts :
                   Unedited(key, Tail(request[m].edits)) /\ key # Head(request[m].edits).key
                     => TextAt(lines, key) = saved[key],
         file' = lines, request' = [request EXCEPT ![m] = ToDo(Tail(request[m].edits))],
         UNCHANGED <<saves, reading, saved, calm, alone>>
  PROVE  SettingsInv'
<1> DEFINE edits == request[m].edits
           rest == Tail(edits)
           mine == ToDo(rest)
<1>1. IsEdits(edits) /\ edits # <<>>
  BY RequestFacts DEF Busy
<1>2. /\ IsEdits(rest) /\ 1 \in DOMAIN edits /\ Head(edits) = edits[1]
      /\ \A i \in DOMAIN rest : i + 1 \in DOMAIN edits /\ rest[i] = edits[i + 1]
  <2> HIDE DEF edits
  <2> QED BY <1>1, TailFacts
<1>3. mine.edits = rest /\ mine.lines = Absent /\ mine.truncated = FALSE /\ mine \in RequestType
  BY <1>2 DEF ToDo, RequestType, IsEdits
<1>4. rest = <<>> => mine = Rest
  BY DEF Rest
<1>5. calm => \A i \in DOMAIN edits : saved[edits[i].key] = edits[i].text
  BY DEF SettingsInv, OneAfterTheOther
<1>6. calm => \A i \in DOMAIN rest : saved[rest[i].key] = rest[i].text
  <2> HIDE DEF edits, rest
  <2> QED BY <1>2, <1>5
<1>7. calm => \A key \in DOMAIN Texts : Unedited(key, rest) => TextAt(lines, key) = saved[key]
  <2>1. calm => saved[Head(edits).key] = Head(edits).text
    BY <1>2, <1>5
  <2> QED BY <2>1
<1>8. \A key : Unedited(key, <<>>)
  BY DEF Unedited
<1>9. request' = [request EXCEPT ![m] = mine]
  OBVIOUS
<1>10. calm /\ mine.edits = <<>> => \A key \in DOMAIN Texts : TextAt(file', key) = saved[key]
  BY <1>3, <1>7, <1>8
<1> HIDE DEF mine, rest, edits
<1> QED BY <1>2, <1>3, <1>4, <1>6, <1>7, <1>9, <1>10, RequestStepKeeps

LEMMA ReadLinesKeeps ==
  ASSUME SettingsInv, NEW m \in Manager, ReadLines(m)
  PROVE  SettingsInv'
<1> DEFINE edits == request[m].edits
           edit == Head(edits)
<1>1. /\ Busy(m) /\ request[m].lines = Absent /\ edits # <<>>
      /\ file' = file /\ UNCHANGED <<saves, reading, saved, calm, alone>>
  BY DEF ReadLines, Busy
<1>2. /\ IsEdits(edits) /\ request[m] \in RequestType
      /\ request[m] = [edits |-> edits, lines |-> request[m].lines, truncated |-> request[m].truncated]
      /\ ~request[m].truncated
  BY <1>1, RequestFacts
<1>3. /\ edit.key \in DOMAIN Texts /\ edit.text \in Submitted(edit.key) \cup {Absent}
      /\ \A key : Unedited(key, Tail(edits)) => key = edit.key \/ Unedited(key, edits)
  <2> HIDE DEF edits
  <2> QED BY <1>1, <1>2, TailFacts
<1>4. file \in Seq(LineType) /\ AllSubmitted(file)
  BY DEF SettingsInv, SettingsTypeOK, NothingElse
<1>5. calm => \A key \in DOMAIN Texts : Unedited(key, edits) => TextAt(file, key) = saved[key]
  BY <1>1 DEF SettingsInv, OneAfterTheOther
<1>6. calm => \A key \in DOMAIN Texts :
                Unedited(key, Tail(edits)) /\ key # edit.key => TextAt(file, key) = saved[key]
  BY <1>3, <1>5
<1>7. CASE edit.text = Absent /\ Places(file, edit.key) = {}
  <2>1. request' = [request EXCEPT ![m] = ToDo(Tail(edits))]
    BY <1>7 DEF ReadLines, Done
  <2>2. TextAt(file, edit.key) = edit.text
    BY <1>7 DEF TextAt
  <2> QED BY <1>1, <1>4, <1>6, <2>1, <2>2, DoneMine
<1>8. CASE ~(edit.text = Absent /\ Places(file, edit.key) = {})
  <2> DEFINE new == Edited(file, edit)
             mine == [request[m] EXCEPT !.lines = new]
  <2>1. /\ new \in Seq(LineType) /\ AllSubmitted(new) /\ TextAt(new, edit.key) = edit.text
        /\ \A k \in DOMAIN Texts : k # edit.key => TextAt(new, k) = TextAt(file, k)
    <3> HIDE DEF edit
    <3> QED BY <1>3, <1>4, EditedFacts
  <2>2. request' = [request EXCEPT ![m].lines = new]
    BY <1>8 DEF ReadLines
  <2>3. request \in [Manager -> RequestType]
    BY DEF SettingsInv, SettingsTypeOK, RequestType, EditType
  <2> HIDE DEF new
  <2>4. request' = [request EXCEPT ![m] = mine]
    BY <2>2, <2>3
  <2>5. new # Absent
    BY <2>1, SettingsAssumption
  <2>6. mine \in RequestType /\ mine.edits = edits /\ mine.lines = new /\ ~mine.truncated
    BY <1>2, <2>1 DEF RequestType
  <2>7. calm => \A key \in DOMAIN Texts : Unedited(key, Tail(edits)) => TextAt(new, key) = saved[key]
    <3>1. calm => saved[edit.key] = edit.text
      <4>1. 1 \in DOMAIN edits /\ Head(edits) = edits[1]
        <5> HIDE DEF edits
        <5> QED BY <1>1, <1>2, TailFacts
      <4> QED BY <1>1, <4>1 DEF SettingsInv, OneAfterTheOther
    <3> QED BY <1>6, <2>1, <3>1
  <2>8. calm => \A i \in DOMAIN edits : saved[edits[i].key] = edits[i].text
    BY <1>1 DEF SettingsInv, OneAfterTheOther
  <2> HIDE DEF mine, edits, edit
  <2> QED BY <1>1, <1>2, <1>4, <2>1, <2>4, <2>5, <2>6, <2>7, <2>8, RequestStepKeeps
<1> QED BY <1>7, <1>8

LEMMA TruncateKeeps ==
  ASSUME SettingsInv, NEW m \in Manager, Truncate(m)
  PROVE  SettingsInv'
<1> DEFINE mine == [request[m] EXCEPT !.truncated = TRUE]
           edits == request[m].edits
           lines == request[m].lines
<1>1. /\ Busy(m) /\ edits # <<>> /\ lines # Absent /\ file' = <<>>
      /\ UNCHANGED <<saves, reading, saved, calm, alone>>
  BY DEF Truncate, Busy
<1>2. /\ IsEdits(edits) /\ request[m] \in RequestType /\ AllSubmitted(lines)
  BY <1>1, RequestFacts
<1>3. request \in [Manager -> RequestType]
  BY DEF SettingsInv, SettingsTypeOK, RequestType, EditType
<1>4. request' = [request EXCEPT ![m] = mine]
  BY <1>3 DEF Truncate
<1>5. mine \in RequestType /\ mine.edits = edits /\ mine.lines = lines /\ mine.truncated = TRUE
  BY <1>2 DEF RequestType
<1>6. calm => /\ \A i \in DOMAIN edits : saved[edits[i].key] = edits[i].text
              /\ \A key \in DOMAIN Texts : Unedited(key, Tail(edits)) => TextAt(lines, key) = saved[key]
  BY <1>1 DEF SettingsInv, OneAfterTheOther
<1>7. file' \in Seq(LineType) /\ AllSubmitted(file')
  BY <1>1 DEF AllSubmitted
<1> HIDE DEF mine, edits, lines
<1> QED BY <1>1, <1>2, <1>4, <1>5, <1>6, <1>7, RequestStepKeeps

\* What remains of the file behind the lines a request writes over it.
LEMMA WriteOver ==
  ASSUME NEW lines \in Seq(LineType), AllSubmitted(lines), file \in Seq(LineType), AllSubmitted(file),
         NEW kept \in 0 .. Len(file)
  PROVE  LET new == lines \o SubSeq(file, Len(file) - kept + 1, Len(file))
         IN  new \in Seq(LineType) /\ AllSubmitted(new) /\ (file = <<>> => new = lines)
<1> DEFINE n == Len(file)
           rest == SubSeq(file, n - kept + 1, n)
           new == lines \o rest
<1>1. n \in Nat /\ DOMAIN file = 1 .. n /\ kept \in 0 .. n
  BY LineFacts
<1>2. /\ rest \in Seq(LineType) /\ DOMAIN rest = 1 .. kept
      /\ \A i \in 1 .. kept : n - kept + i \in DOMAIN file /\ rest[i] = file[n - kept + i]
  <2> HIDE DEF LineType, n
  <2>1. rest = [i \in 1 .. kept |-> file[n - kept + i]]
    BY <1>1
  <2>2. \A i \in 1 .. kept : n - kept + i \in DOMAIN file /\ file[n - kept + i] \in LineType
    BY <1>1
  <2> HIDE DEF rest
  <2>3. rest \in [1 .. kept -> LineType]
    BY <2>1, <2>2
  <2> QED BY <1>1, <2>1, <2>2, <2>3
<1> HIDE DEF rest
<1>3. /\ new \in Seq(LineType)
      /\ \A i \in DOMAIN new : \/ i \in DOMAIN lines /\ new[i] = lines[i]
                               \/ \E j \in DOMAIN rest : new[i] = rest[j]
  <2> HIDE DEF LineType, n
  <2>1. new \in Seq(LineType) /\ Len(new) = Len(lines) + Len(rest)
    BY <1>2
  <2>2. \A i \in DOMAIN new : \/ i \in DOMAIN lines /\ new[i] = lines[i]
                              \/ i - Len(lines) \in DOMAIN rest /\ new[i] = rest[i - Len(lines)]
    BY <1>2
  <2> QED BY <2>1, <2>2
<1> HIDE DEF new
<1>4. AllSubmitted(new)
  BY <1>2, <1>3 DEF AllSubmitted
<1>5. file = <<>> => new = lines
  <2> SUFFICES ASSUME file = <<>> PROVE new = lines
    OBVIOUS
  <2>1. kept = 0
    BY <1>1
  <2>2. rest = <<>>
    <3> HIDE DEF LineType
    <3> QED BY <1>2, <2>1
  <2> HIDE DEF LineType
  <2> QED BY <2>2 DEF new
<1> QED BY <1>3, <1>4, <1>5 DEF new, rest

LEMMA WriteLinesKeeps ==
  ASSUME SettingsInv, NEW m \in Manager, WriteLines(m)
  PROVE  SettingsInv'
<1> DEFINE edits == request[m].edits
           lines == request[m].lines
<1>1. request[m].truncated /\ UNCHANGED <<saves, reading, saved, calm, alone>>
  BY DEF WriteLines
<1>2. /\ IsEdits(edits) /\ lines # Absent /\ lines \in Seq(LineType) /\ AllSubmitted(lines)
  BY <1>1, RequestFacts
<1>3. Busy(m) /\ edits # <<>>
  <2>1. ~Busy(m) => request[m] = Rest
    BY DEF SettingsInv, SettingsTypeOK
  <2>2. Busy(m)
    BY <1>1, <2>1 DEF Rest, ToDo
  <2> QED BY <2>2 DEF Busy
<1>4. PICK kept \in 0 .. Len(file) : file' = lines \o SubSeq(file, Len(file) - kept + 1, Len(file))
  BY DEF WriteLines
<1>5. file \in Seq(LineType) /\ AllSubmitted(file)
  BY DEF SettingsInv, SettingsTypeOK, NothingElse
<1>6. file' \in Seq(LineType) /\ AllSubmitted(file') /\ (file = <<>> => file' = lines)
  <2> HIDE DEF lines
  <2> QED BY <1>2, <1>4, <1>5, WriteOver
<1>7. request' = [request EXCEPT ![m] = ToDo(Tail(edits))]
  BY DEF WriteLines, Done
<1>8. /\ 1 \in DOMAIN edits /\ Head(edits) = edits[1] /\ IsEdits(Tail(edits))
      /\ Head(edits).key \in DOMAIN Texts /\ Unedited(Head(edits).key, Tail(edits))
      /\ \A i \in DOMAIN Tail(edits) : i + 1 \in DOMAIN edits /\ Tail(edits)[i] = edits[i + 1]
  <2> HIDE DEF edits
  <2> QED BY <1>2, <1>3, TailFacts
<1>9. calm => /\ \A i \in DOMAIN edits : saved[edits[i].key] = edits[i].text
              /\ \A key \in DOMAIN Texts : Unedited(key, Tail(edits)) => TextAt(lines, key) = saved[key]
              /\ file = <<>>
  BY <1>1, <1>2, <1>3 DEF SettingsInv, OneAfterTheOther
<1> DEFINE rest == Tail(edits)
           mine == ToDo(rest)
<1>10. mine.edits = rest /\ mine.lines = Absent /\ mine.truncated = FALSE /\ mine \in RequestType
  BY <1>8 DEF ToDo, RequestType, IsEdits
<1>11. rest = <<>> => mine = Rest
  BY DEF Rest
<1>12. calm => \A i \in DOMAIN rest : saved[rest[i].key] = rest[i].text
  <2> HIDE DEF edits
  <2> QED BY <1>8, <1>9
<1>13. calm => \A key \in DOMAIN Texts : Unedited(key, rest) => TextAt(file', key) = saved[key]
  BY <1>6, <1>9
<1>14. \A key : Unedited(key, <<>>)
  BY DEF Unedited
<1>15. calm /\ mine.edits = <<>> => \A key \in DOMAIN Texts : TextAt(file', key) = saved[key]
  BY <1>10, <1>13, <1>14
<1>16. request' = [request EXCEPT ![m] = mine] /\ IsEdits(rest)
  BY <1>7, <1>8
<1> HIDE DEF mine, rest, edits, lines
<1> QED BY <1>1, <1>3, <1>6, <1>10, <1>11, <1>12, <1>13, <1>15, <1>16, RequestStepKeeps

LEMMA RestartKeeps ==
  ASSUME SettingsInv, Restart
  PROVE  SettingsInv'
<1>1. /\ \E m \in Manager : Busy(m)
      /\ request' = [m \in Manager |-> Rest] /\ calm' = FALSE
      /\ UNCHANGED <<file, saves, reading, saved, alone>>
  BY DEF Restart
<1>2. Rest \in RequestType /\ Rest.edits = <<>> /\ Rest.lines = Absent /\ Rest.truncated = FALSE
  BY DEF Rest, ToDo, RequestType
<1>3. request' \in [Manager -> RequestType] /\ \A m \in Manager : request'[m] = Rest
  BY <1>1, <1>2
<1>4. SettingsTypeOK'
  BY <1>1, <1>3 DEF SettingsInv, SettingsTypeOK, Busy, RequestType, EditType
<1>5. NothingElse'
  BY <1>1, <1>2, <1>3 DEF SettingsInv, NothingElse, AllSubmitted
<1>6. OneAfterTheOther'
  BY <1>1 DEF OneAfterTheOther
<1>7. ReadsWhatIsSaved'
  BY <1>1 DEF SettingsInv, ReadsWhatIsSaved
<1> QED BY <1>4, <1>5, <1>6, <1>7 DEF SettingsInv

-----------------------------------------------------------------------------
\* The worker.
LEMMA PromptsType == Prompts \o Connection \in Seq(DOMAIN Texts)
<1> DEFINE Keys == DOMAIN Texts
<1>1. Connection \in Seq(Keys) /\ PromptKey \subseteq Keys /\ IsFiniteSet(PromptKey)
  BY SettingsAssumption
<1> HIDE DEF Keys
<1>2. Prompts \in Seq(PromptKey)
  <2> DEFINE n == Cardinality(PromptKey)
  <2>1. n \in Nat /\ \E f \in [1 .. n -> PromptKey] : IsInjective(f)
    BY <1>1, FS_CardinalityType DEF ExistsBijection, Bijection, Injection
  <2>2. Prompts \in [1 .. n -> PromptKey]
    BY <2>1 DEF Prompts, SetToSeq
  <2> HIDE DEF n
  <2> QED BY <2>1, <2>2
<1>3. Prompts \in Seq(Keys)
  BY <1>1, <1>2
<1>4. Prompts \o Connection \in Seq(Keys)
  BY <1>1, <1>3
<1> QED BY <1>4 DEF Keys

LEMMA StartReadingKeeps ==
  ASSUME SettingsInv, StartReading
  PROVE  SettingsInv'
<1>1. /\ reading' = [left |-> Prompts \o Connection, seen |-> <<>>]
      /\ alone' = (\A m \in Manager : ~Busy(m))
      /\ file' = file /\ request' = request /\ saves' = saves /\ saved' = saved /\ calm' = calm
  BY DEF StartReading
<1>2. reading' \in [left : Seq(DOMAIN Texts),
                    seen : Seq([key : DOMAIN Texts, text : UNION {Possible(key) : key \in DOMAIN Texts}])]
  BY <1>1, PromptsType
<1>3. reading'.seen = <<>>
  BY <1>1
<1>4. SettingsTypeOK'
  BY <1>1, <1>2 DEF SettingsInv, SettingsTypeOK, Busy
<1>5. NothingElse'
  BY <1>1, <1>3 DEF SettingsInv, NothingElse, AllSubmitted
<1>6. OneAfterTheOther'
  BY <1>1 DEF SettingsInv, OneAfterTheOther, Busy
<1>7. ReadsWhatIsSaved'
  <2>1. alone' => \A m \in Manager : Busy(m)' = FALSE
    BY <1>1 DEF Busy
  <2>2. DOMAIN reading'.seen = {}
    BY <1>3
  <2> QED BY <2>1, <2>2 DEF ReadsWhatIsSaved
<1> QED BY <1>4, <1>5, <1>6, <1>7 DEF SettingsInv

LEMMA ReadSettingKeeps ==
  ASSUME SettingsInv, ReadSetting
  PROVE  SettingsInv'
<1> DEFINE key == Head(reading.left)
           value == Resolved(key, GetValue(file, key))
           Values == UNION {Possible(k) : k \in DOMAIN Texts}
           Seen == [key : DOMAIN Texts, text : Values]
           entry == Edit(key, value)
<1>1. /\ reading.left # <<>>
      /\ reading' = [left |-> Tail(reading.left), seen |-> Append(reading.seen, entry)]
      /\ UNCHANGED <<file, request, saves, saved, calm, alone>>
  BY DEF ReadSetting
<1>2. reading.left \in Seq(DOMAIN Texts) /\ reading.seen \in Seq(Seen)
  BY DEF SettingsInv, SettingsTypeOK
<1>3. key \in DOMAIN Texts /\ Tail(reading.left) \in Seq(DOMAIN Texts)
  <2> DEFINE Keys == DOMAIN Texts
  <2> HIDE DEF Keys
  <2>1. reading.left \in Seq(Keys) /\ reading.left # <<>>
    BY <1>1, <1>2 DEF Keys
  <2>2. Head(reading.left) \in Keys /\ Tail(reading.left) \in Seq(Keys)
    BY <2>1
  <2> QED BY <2>2 DEF Keys
<1>4. file \in Seq(LineType) /\ AllSubmitted(file)
  BY DEF SettingsInv, SettingsTypeOK, NothingElse
<1> HIDE DEF key
<1>5. value \in Possible(key)
  BY <1>3, <1>4, ValueFacts
<1>6. calm /\ alone => value = Resolved(key, Value(key))
  <2>1. calm /\ alone => TextAt(file, key) = saved[key]
    BY <1>3 DEF SettingsInv, OneAfterTheOther, ReadsWhatIsSaved
  <2>2. GetValue(file, key) = IF TextAt(file, key) = Absent THEN Absent ELSE Stored[TextAt(file, key)]
    BY <1>3, <1>4, ValueFacts
  <2> QED BY <2>1, <2>2 DEF Value
<1>7. entry.key = key /\ entry.text = value /\ entry \in Seen
  <2>1. value \in Values
    BY <1>3, <1>5
  <2> HIDE DEF value, Values
  <2> QED BY <1>3, <2>1 DEF Edit
<1> DEFINE seen == reading.seen
           after == Append(seen, entry)
<1>8. /\ after \in Seq(Seen)
      /\ \A i \in DOMAIN after : (i \in DOMAIN seen /\ after[i] = seen[i]) \/ after[i] = entry
  <2> HIDE DEF Seen, entry
  <2>1. after \in Seq(Seen) /\ Len(seen) \in Nat /\ DOMAIN after = 1 .. Len(seen) + 1
        /\ DOMAIN seen = 1 .. Len(seen)
    BY <1>2, <1>7
  <2>2. \A i \in DOMAIN after : IF i \in DOMAIN seen THEN after[i] = seen[i] ELSE after[i] = entry
    BY <1>2, <1>7, <2>1
  <2> QED BY <2>1, <2>2
<1> HIDE DEF after, entry, Seen, Values, value
<1>9. reading' = [left |-> Tail(reading.left), seen |-> after]
  BY <1>1 DEF after
<1>10. reading'.seen = after /\ reading' \in [left : Seq(DOMAIN Texts), seen : Seq(Seen)]
  BY <1>3, <1>8, <1>9
<1>11. SettingsTypeOK'
  BY <1>1, <1>10 DEF SettingsInv, SettingsTypeOK, Busy, Seen, Values
<1>12. NothingElse'
  <2>1. \A i \in DOMAIN after : after[i].text \in Possible(after[i].key)
    BY <1>5, <1>7, <1>8 DEF SettingsInv, NothingElse
  <2> QED BY <1>1, <1>10, <2>1 DEF SettingsInv, NothingElse, AllSubmitted
<1>13. OneAfterTheOther'
  BY <1>1 DEF SettingsInv, OneAfterTheOther, Busy
<1>14. ReadsWhatIsSaved'
  <2>1. alone /\ calm => \A i \in DOMAIN after : after[i].text = Resolved(after[i].key, Value(after[i].key))
    BY <1>6, <1>7, <1>8 DEF SettingsInv, ReadsWhatIsSaved
  <2>2. \A k : Value(k)' = Value(k)
    BY <1>1 DEF Value
  <2> QED BY <1>1, <1>10, <2>1, <2>2 DEF SettingsInv, ReadsWhatIsSaved, Busy
<1> QED BY <1>11, <1>12, <1>13, <1>14 DEF SettingsInv

LEMMA SettingsInvariant == SettingsSpec => []SettingsInv
<1>1. InitSettings => SettingsInv
  BY InitSettingsInv
<1>2. SettingsInv /\ [NextSettings]_settingsVars => SettingsInv'
  <2> SUFFICES ASSUME SettingsInv, [NextSettings]_settingsVars PROVE SettingsInv'
    OBVIOUS
  <2>1. ASSUME NEW m \in Manager, PageRequest(m) PROVE SettingsInv'
    BY <2>1, PageRequestKeeps
  <2>2. ASSUME NEW m \in Manager, ReadLines(m) PROVE SettingsInv'
    BY <2>2, ReadLinesKeeps
  <2>3. ASSUME NEW m \in Manager, Truncate(m) PROVE SettingsInv'
    BY <2>3, TruncateKeeps
  <2>4. ASSUME NEW m \in Manager, WriteLines(m) PROVE SettingsInv'
    BY <2>4, WriteLinesKeeps
  <2>5. CASE Restart
    BY <2>5, RestartKeeps
  <2>6. CASE StartReading
    BY <2>6, StartReadingKeeps
  <2>7. CASE ReadSetting
    BY <2>7, ReadSettingKeeps
  <2>8. CASE UNCHANGED settingsVars
    <3>1. /\ file' = file /\ request' = request /\ saves' = saves /\ reading' = reading
          /\ saved' = saved /\ calm' = calm /\ alone' = alone
      BY <2>8 DEF settingsVars
    <3>2. SettingsTypeOK'
      BY <3>1 DEF SettingsInv, SettingsTypeOK, Busy
    <3>3. NothingElse'
      BY <3>1 DEF SettingsInv, NothingElse, AllSubmitted
    <3>4. OneAfterTheOther'
      BY <3>1 DEF SettingsInv, OneAfterTheOther, Busy
    <3>5. ReadsWhatIsSaved'
      <4>1. \A key : Value(key)' = Value(key)
        BY <3>1 DEF Value
      <4> QED BY <3>1, <4>1 DEF SettingsInv, ReadsWhatIsSaved, Busy
    <3> QED BY <3>2, <3>3, <3>4, <3>5 DEF SettingsInv
  <2> QED BY <2>1, <2>2, <2>3, <2>4, <2>5, <2>6, <2>7, <2>8 DEF NextSettings
<1> QED BY <1>1, <1>2, PTL DEF SettingsSpec

LEMMA SettingsInvSavedIsUsed == SettingsInv => SavedIsUsed
<1> SUFFICES ASSUME SettingsInv PROVE SavedIsUsed
  OBVIOUS
<1>1. file \in Seq(LineType) /\ AllSubmitted(file)
  BY DEF SettingsInv, SettingsTypeOK, NothingElse
<1>2. ASSUME NEW key \in DOMAIN Texts
      PROVE  /\ GetValue(file, key) \in Possible(key)
             /\ saved[key] # Absent /\ Survives(saved[key]) => Value(key) = saved[key]
  <2>1. GetValue(file, key) \in Possible(key)
    BY <1>1, ValueFacts
  <2>2. ASSUME saved[key] # Absent, Survives(saved[key]) PROVE Value(key) = saved[key]
    <3>1. saved[key] \in Written
      BY <2>2, TextFacts DEF SettingsInv, NothingElse
    <3> QED BY <2>2, <3>1, StoredSurvives DEF Value
  <2> QED BY <2>1, <2>2
<1>3. \A i \in DOMAIN reading.seen : reading.seen[i].text \in Possible(reading.seen[i].key)
  BY DEF SettingsInv, NothingElse
<1>4. ASSUME calm, \A m \in Manager : ~Busy(m), NEW key \in DOMAIN Texts
      PROVE  GetValue(file, key) = Value(key)
  <2>1. TextAt(file, key) = saved[key]
    BY <1>4 DEF SettingsInv, OneAfterTheOther
  <2>2. GetValue(file, key) = IF TextAt(file, key) = Absent THEN Absent ELSE Stored[TextAt(file, key)]
    BY <1>1, <1>4, ValueFacts
  <2> QED BY <2>1, <2>2 DEF Value
<1>5. calm /\ alone => \A i \in DOMAIN reading.seen :
                          reading.seen[i].text = Resolved(reading.seen[i].key, Value(reading.seen[i].key))
  BY DEF SettingsInv, ReadsWhatIsSaved
<1> QED BY <1>2, <1>3, <1>4, <1>5 DEF SavedIsUsed

\* Whatever the requests, the worker and the restarts do, in whatever order.
THEOREM SettingsType == SettingsSpec => []SettingsTypeOK
<1>1. SettingsInv => SettingsTypeOK
  BY DEF SettingsInv
<1> QED BY <1>1, SettingsInvariant, PTL

\* What was saved for a setting is what the file says and what the worker uses,
\* where the quoting of its text survives and no two requests overlap.
THEOREM SavedSettingsAreUsed == SettingsSpec => []SavedIsUsed
BY SettingsInvariant, SettingsInvSavedIsUsed, PTL

-----------------------------------------------------------------------------
(* The screening of resumes.                                               *)

\* What is picked out of a list is what stands at those places.
LEMMA PickedFacts ==
  ASSUME NEW S, NEW s \in Seq(S), NEW P \in SUBSET DOMAIN s
  PROVE  /\ Picked(s, P) \in Seq(S)
         /\ \A i \in DOMAIN Picked(s, P) : \E p \in P : Picked(s, P)[i] = s[p]
         /\ \A p \in P : \E i \in DOMAIN Picked(s, P) : Picked(s, P)[i] = s[p]
<1> DEFINE new == Picked(s, P)
<1>1. PICK n \in Nat, spot \in [1 .. Cardinality(P) -> P] :
        /\ n = Cardinality(P)
        /\ \A p \in P : \E i \in 1 .. n : spot[i] = p
        /\ new = [i \in 1 .. n |-> s[spot[i]]]
        /\ new \in Seq(S) /\ Len(new) = n
  BY PickedIs
<1> HIDE DEF new
<1>2. DOMAIN new = 1 .. n /\ \A i \in 1 .. n : spot[i] \in P /\ new[i] = s[spot[i]]
  BY <1>1
<1>3. \A p \in P : \E i \in 1 .. n : new[i] = s[p]
  BY <1>1, <1>2
<1>4. \A i \in 1 .. n : \E p \in P : new[i] = s[p]
  BY <1>2
<1>5. new \in Seq(S)
  BY <1>1
<1> QED BY <1>2, <1>3, <1>4, <1>5 DEF new

\* Two lists out of which the same places are picked.
LEMMA PickedBoth ==
  ASSUME NEW S, NEW s \in Seq(S), NEW T, NEW t \in Seq(T), NEW P \in SUBSET DOMAIN s, P \subseteq DOMAIN t
  PROVE  /\ DOMAIN Picked(s, P) = DOMAIN Picked(t, P)
         /\ \A i \in DOMAIN Picked(s, P) :
              \E p \in P : Picked(s, P)[i] = s[p] /\ Picked(t, P)[i] = t[p]
<1> DEFINE at0 == Ascending(P)
<1>1. /\ Picked(s, P) = [i \in DOMAIN at0 |-> s[at0[i]]]
      /\ Picked(t, P) = [i \in DOMAIN at0 |-> t[at0[i]]]
  BY DEF Picked
<1>2. DOMAIN s = 1 .. Len(s) /\ Len(s) \in Nat /\ IsFiniteSet(1 .. Len(s))
  BY FS_Interval
<1>3. IsFiniteSet(P) /\ \A x \in P : x \in Int
  BY <1>2, FS_Subset
<1>4. at0 \in SetToSeqs(P)
  BY <1>3, AscendingExists DEF Ascending
<1>5. \A i \in DOMAIN at0 : at0[i] \in P
  BY <1>4 DEF SetToSeqs
<1> QED BY <1>1, <1>5

-----------------------------------------------------------------------------
\* The taxonomy: the name of a skill is its own name.
LEMMA NormalizeTwice ==
  ASSUME NEW x \in Term
  PROVE  /\ NormalizeKeyword(x) \in Term
         /\ NormalizeKeyword(NormalizeKeyword(x)) = NormalizeKeyword(x)
<1> DEFINE Known(term) == {skill \in DOMAIN SkillAliases : Lower[term] \in Spellings(skill)}
<1>1. \A term : NormalizeSkill(term) = IF Known(term) = {} THEN Unknown ELSE CHOOSE skill \in Known(term) : TRUE
  BY DEF NormalizeSkill
<1>2. CASE Known(x) = {}
  BY <1>1, <1>2 DEF NormalizeKeyword
<1>3. CASE Known(x) # {}
  <2> DEFINE skill == CHOOSE skill \in Known(x) : TRUE
  <2>1. skill \in DOMAIN SkillAliases
    BY <1>3
  <2>2. NormalizeSkill(x) = skill
    BY <1>1, <1>3
  <2> HIDE DEF skill
  <2>3. skill \in Term /\ Lower[skill] = skill /\ skill # Unknown
    BY <2>1, ScreeningAssumption
  <2>4. NormalizeKeyword(x) = skill
    BY <2>2, <2>3 DEF NormalizeKeyword
  <2>5. \A other \in DOMAIN SkillAliases : skill \in Spellings(other) => other = skill
    BY <2>1, ScreeningAssumption DEF Spellings
  <2>6. Known(skill) = {skill}
    BY <2>1, <2>3, <2>5 DEF Spellings
  <2>7. NormalizeSkill(skill) = skill
    BY <1>1, <2>6
  <2> QED BY <2>3, <2>4, <2>7 DEF NormalizeKeyword
<1> QED BY <1>2, <1>3

-----------------------------------------------------------------------------
\* The suggestions.
Tiers == {"critical", "important", "nice_to_have"}

LEMMA TierFacts ==
  /\ DOMAIN TierWeights = Tiers
  /\ \A tier \in Tiers : TierWeights[tier] \in Nat \ {0}
  /\ \A tier : NormalizeTier(tier) \in Tiers
  /\ TierWeights["critical"] = 5 /\ TierWeights["important"] = 3 /\ TierWeights["nice_to_have"] = 1
BY DEF TierWeights, Tiers, NormalizeTier

LEMMA NormalizedType ==
  ASSUME NEW said \in Proposals
  PROVE  /\ Normalized(said) \in Seq(Keyword) /\ DOMAIN Normalized(said) = DOMAIN said
         /\ \A i \in DOMAIN said : /\ said[i].keyword \in Term
                                   /\ Normalized(said)[i].keyword = NormalizeKeyword(said[i].keyword)
                                   /\ Normalized(said)[i].tier = NormalizeTier(said[i].tier)
<1> DEFINE n == Len(said)
           R == [keyword : Term, tier : STRING]
<1>1. n \in Nat /\ DOMAIN said = 1 .. n /\ \A i \in 1 .. n : said[i] \in R
  <2> HIDE DEF R
  <2>1. said \in Seq(R)
    BY ScreeningAssumption DEF R
  <2> QED BY <2>1
<1>2. \A i \in 1 .. n : said[i].keyword \in Term
  BY <1>1
<1>3. \A i \in 1 .. n : /\ NormalizeKeyword(said[i].keyword) \in Term
                        /\ NormalizeTier(said[i].tier) \in DOMAIN TierWeights
  BY <1>2, NormalizeTwice, TierFacts
<1>4. Normalized(said) = [i \in 1 .. n |-> Normalized(said)[i]]
  BY <1>1 DEF Normalized
<1>5. \A i \in 1 .. n : /\ Normalized(said)[i] \in Keyword
                        /\ Normalized(said)[i].keyword = NormalizeKeyword(said[i].keyword)
                        /\ Normalized(said)[i].tier = NormalizeTier(said[i].tier)
  BY <1>1, <1>3 DEF Normalized, Keyword
<1>6. Normalized(said) \in [1 .. n -> Keyword]
  BY <1>4, <1>5
<1>7. Normalized(said) \in Seq(Keyword)
  BY <1>1, <1>6
<1> HIDE DEF n
<1> QED BY <1>1, <1>2, <1>5, <1>6, <1>7

\* The keywords of one tier.
LEMMA OfTierIs ==
  ASSUME NEW keywords \in Seq(Keyword), NEW tier
  PROVE  /\ OfTier(keywords, tier) \in Seq(Keyword)
         /\ \A i \in DOMAIN OfTier(keywords, tier) :
              /\ OfTier(keywords, tier)[i].tier = tier
              /\ \E p \in DOMAIN keywords : OfTier(keywords, tier)[i] = keywords[p]
         /\ \A p \in DOMAIN keywords : keywords[p].tier = tier =>
              \E i \in DOMAIN OfTier(keywords, tier) : OfTier(keywords, tier)[i] = keywords[p]
<1> DEFINE P == {i \in DOMAIN keywords : keywords[i].tier = tier}
           new == OfTier(keywords, tier)
<1>1. new = Picked(keywords, P) /\ P \in SUBSET DOMAIN keywords
  BY DEF OfTier
<1>2. \A p \in P : p \in DOMAIN keywords /\ keywords[p].tier = tier
  OBVIOUS
<1>3. \A p \in DOMAIN keywords : keywords[p].tier = tier => p \in P
  OBVIOUS
<1> HIDE DEF P, new
<1>4. /\ new \in Seq(Keyword)
      /\ \A i \in DOMAIN new : \E p \in P : new[i] = keywords[p]
      /\ \A p \in P : \E i \in DOMAIN new : new[i] = keywords[p]
  BY <1>1, PickedFacts
<1> QED BY <1>2, <1>3, <1>4 DEF new

\* The keywords by tier: all of them, none before one of a higher tier.
LEMMA ByTierIs ==
  ASSUME NEW keywords \in Seq(Keyword)
  PROVE  LET sorted == ByTier(keywords)
         IN  /\ sorted \in Seq(Keyword)
             /\ \A i, j \in DOMAIN sorted : i <= j => TierWeights[sorted[i].tier] >= TierWeights[sorted[j].tier]
             /\ \A p \in DOMAIN keywords : \E i \in DOMAIN sorted : sorted[i] = keywords[p]
             /\ \A i \in DOMAIN sorted : \E p \in DOMAIN keywords : sorted[i] = keywords[p]
<1> DEFINE a == OfTier(keywords, "critical")
           b == OfTier(keywords, "important")
           c == OfTier(keywords, "nice_to_have")
           sorted == ByTier(keywords)
           x == Len(a)
           y == x + Len(b)
           z == y + Len(c)
<1>1. sorted = (a \o b) \o c
  BY DEF ByTier
<1>2. /\ a \in Seq(Keyword) /\ b \in Seq(Keyword) /\ c \in Seq(Keyword)
      /\ \A i \in DOMAIN a : a[i].tier = "critical"
      /\ \A i \in DOMAIN b : b[i].tier = "important"
      /\ \A i \in DOMAIN c : c[i].tier = "nice_to_have"
  BY OfTierIs
<1>0. /\ \A i \in DOMAIN a : \E p \in DOMAIN keywords : a[i] = keywords[p]
      /\ \A i \in DOMAIN b : \E p \in DOMAIN keywords : b[i] = keywords[p]
      /\ \A i \in DOMAIN c : \E p \in DOMAIN keywords : c[i] = keywords[p]
  BY OfTierIs
<1>3. \A p \in DOMAIN keywords : \/ \E i \in DOMAIN a : a[i] = keywords[p]
                                 \/ \E i \in DOMAIN b : b[i] = keywords[p]
                                 \/ \E i \in DOMAIN c : c[i] = keywords[p]
  <2>1. \A p \in DOMAIN keywords : keywords[p] \in Keyword
    <3> HIDE DEF a, b, c
    <3> QED OBVIOUS
  <2>2. \A p \in DOMAIN keywords : keywords[p].tier \in Tiers
    BY <2>1, TierFacts DEF Keyword
  <2>3. \A p \in DOMAIN keywords : keywords[p].tier \in {"critical", "important", "nice_to_have"}
    BY <2>2 DEF Tiers
  <2> TAKE p \in DOMAIN keywords
  <2>4. CASE keywords[p].tier = "critical"
    BY <2>4, OfTierIs
  <2>5. CASE keywords[p].tier = "important"
    BY <2>5, OfTierIs
  <2>6. CASE keywords[p].tier = "nice_to_have"
    BY <2>6, OfTierIs
  <2> QED BY <2>3, <2>4, <2>5, <2>6
<1> HIDE DEF a, b, c, sorted
<1>4. /\ x \in Nat /\ y \in Nat /\ z \in Nat /\ x <= y /\ y <= z
      /\ DOMAIN a = 1 .. x /\ DOMAIN b = 1 .. y - x /\ DOMAIN c = 1 .. z - y
  BY <1>2
<1>5. sorted \in Seq(Keyword) /\ DOMAIN sorted = 1 .. z
  BY <1>1, <1>2
<1>6. \A i \in 1 .. z : /\ i <= x => i \in DOMAIN a /\ sorted[i] = a[i]
                        /\ x < i /\ i <= y => i - x \in DOMAIN b /\ sorted[i] = b[i - x]
                        /\ y < i => i - y \in DOMAIN c /\ sorted[i] = c[i - y]
  BY <1>1, <1>2
<1> HIDE DEF x, y, z
<1>7. \A i \in 1 .. z : TierWeights[sorted[i].tier] = IF i <= x THEN 5 ELSE IF i <= y THEN 3 ELSE 1
  <2> TAKE i \in 1 .. z
  <2>1. CASE i <= x
    <3>1. sorted[i].tier = "critical"
      BY <1>2, <1>6, <2>1
    <3> QED BY <2>1, <3>1, TierFacts
  <2>2. CASE ~(i <= x) /\ i <= y
    <3>1. x < i
      BY <1>4, <2>2
    <3>2. sorted[i].tier = "important"
      BY <1>2, <1>6, <2>2, <3>1
    <3> QED BY <2>2, <3>2, TierFacts
  <2>3. CASE ~(i <= x) /\ ~(i <= y)
    <3>1. y < i
      BY <1>4, <2>3
    <3>2. sorted[i].tier = "nice_to_have"
      BY <1>2, <1>6, <3>1
    <3> QED BY <2>3, <3>2, TierFacts
  <2> QED BY <2>1, <2>2, <2>3
<1>8. \A i, j \in 1 .. z : i <= j => TierWeights[sorted[i].tier] >= TierWeights[sorted[j].tier]
  BY <1>4, <1>7
<1>9. /\ \A i \in 1 .. x : i \in 1 .. z /\ sorted[i] = a[i]
      /\ \A i \in 1 .. y - x : x + i \in 1 .. z /\ sorted[x + i] = b[i]
      /\ \A i \in 1 .. z - y : y + i \in 1 .. z /\ sorted[y + i] = c[i]
  <2>1. \A i \in 1 .. x : i \in 1 .. z /\ i <= x
    BY <1>4
  <2>2. \A i \in 1 .. y - x : x + i \in 1 .. z /\ x < x + i /\ x + i <= y /\ (x + i) - x = i
    BY <1>4
  <2>3. \A i \in 1 .. z - y : y + i \in 1 .. z /\ y < y + i /\ (y + i) - y = i
    BY <1>4
  <2>4. \A i \in 1 .. x : sorted[i] = a[i]
    BY <1>6, <2>1
  <2>5. \A i \in 1 .. y - x : sorted[x + i] = b[i]
    <3> TAKE i \in 1 .. y - x
    <3>1. sorted[x + i] = b[(x + i) - x]
      BY <1>6, <2>2
    <3> QED BY <2>2, <3>1
  <2>6. \A i \in 1 .. z - y : sorted[y + i] = c[i]
    <3> TAKE i \in 1 .. z - y
    <3>1. sorted[y + i] = c[(y + i) - y]
      BY <1>6, <2>3
    <3> QED BY <2>3, <3>1
  <2> QED BY <2>1, <2>2, <2>3, <2>4, <2>5, <2>6
<1>10. \A p \in DOMAIN keywords : \E i \in 1 .. z : sorted[i] = keywords[p]
  <2> TAKE p \in DOMAIN keywords
  <2>1. ASSUME NEW i \in 1 .. x, a[i] = keywords[p] PROVE \E k \in 1 .. z : sorted[k] = keywords[p]
    BY <1>9, <2>1
  <2>2. ASSUME NEW i \in 1 .. y - x, b[i] = keywords[p] PROVE \E k \in 1 .. z : sorted[k] = keywords[p]
    BY <1>9, <2>2
  <2>3. ASSUME NEW i \in 1 .. z - y, c[i] = keywords[p] PROVE \E k \in 1 .. z : sorted[k] = keywords[p]
    BY <1>9, <2>3
  <2> QED BY <1>3, <1>4, <2>1, <2>2, <2>3
<1>11. \A i \in 1 .. z : \E p \in DOMAIN keywords : sorted[i] = keywords[p]
  <2> TAKE i \in 1 .. z
  <2>1. CASE i <= x
    BY <1>0, <1>6, <2>1
  <2>2. CASE ~(i <= x) /\ i <= y
    <3>1. x < i
      BY <1>4, <2>2
    <3> QED BY <1>0, <1>6, <2>2, <3>1
  <2>3. CASE ~(i <= x) /\ ~(i <= y)
    <3>1. y < i
      BY <1>4, <2>3
    <3> QED BY <1>0, <1>6, <3>1
  <2> QED BY <2>1, <2>2, <2>3
<1> QED BY <1>5, <1>8, <1>10, <1>11 DEF sorted

\* Of the keywords of one spelling the first is kept, and no other.
LEMMA DedupeIs ==
  ASSUME NEW keywords \in Seq(Keyword)
  PROVE  LET new == Dedupe(keywords)
         IN  /\ new \in Seq(Keyword)
             /\ \A i, j \in DOMAIN new : i # j => Lower[new[i].keyword] # Lower[new[j].keyword]
             /\ \A i \in DOMAIN new : \E p \in DOMAIN keywords : new[i] = keywords[p]
             /\ \A p \in DOMAIN keywords : \E q \in DOMAIN keywords, i \in DOMAIN new :
                  q <= p /\ new[i] = keywords[q] /\ Lower[keywords[q].keyword] = Lower[keywords[p].keyword]
<1> DEFINE low(i) == Lower[keywords[i].keyword]
           P == {i \in DOMAIN keywords : \A j \in 1 .. i - 1 : low(j) # low(i)}
           new == Dedupe(keywords)
           N == Len(keywords)
<1>1. /\ new = Picked(keywords, P) /\ P \in SUBSET DOMAIN keywords
      /\ N \in Nat /\ DOMAIN keywords = 1 .. N
  BY DEF Dedupe
<1>2. \A i \in P : \A j \in 1 .. N : j < i => low(j) # low(i)
  BY <1>1
<1>3. \A i \in 1 .. N : (\A j \in 1 .. N : j < i => low(j) # low(i)) => i \in P
  BY <1>1
<1> HIDE DEF P, new, N
<1>4. PICK n \in Nat, spot \in [1 .. Cardinality(P) -> P] :
        /\ n = Cardinality(P)
        /\ \A i, j \in 1 .. n : i < j => spot[i] < spot[j]
        /\ \A p \in P : \E i \in 1 .. n : spot[i] = p
        /\ new = [i \in 1 .. n |-> keywords[spot[i]]]
        /\ new \in Seq(Keyword) /\ Len(new) = n
  BY <1>1, PickedIs
<1>5. DOMAIN new = 1 .. n /\ \A i \in 1 .. n : spot[i] \in P /\ new[i] = keywords[spot[i]]
  BY <1>4
<1>6. \A i, j \in 1 .. n : i < j => Lower[new[i].keyword] # Lower[new[j].keyword]
  <2> SUFFICES ASSUME NEW i \in 1 .. n, NEW j \in 1 .. n, i < j
               PROVE  low(spot[i]) # low(spot[j])
    BY <1>5
  <2>1. spot[i] < spot[j] /\ spot[i] \in 1 .. N /\ spot[j] \in P
    BY <1>1, <1>4, <1>5
  <2> QED BY <1>2, <2>1
<1>7. \A i, j \in DOMAIN new : i # j => Lower[new[i].keyword] # Lower[new[j].keyword]
  <2>1. \A i, j \in 1 .. n : i # j => i < j \/ j < i
    OBVIOUS
  <2> QED BY <1>5, <1>6, <2>1
<1>8. \A p \in DOMAIN keywords : \E q \in DOMAIN keywords, i \in DOMAIN new :
        q <= p /\ new[i] = keywords[q] /\ low(q) = low(p)
  <2> TAKE p \in DOMAIN keywords
  <2> DEFINE Q == {q \in 1 .. N : low(q) = low(p)}
  <2>1. Q \in SUBSET Nat /\ p \in Q
    BY <1>1
  <2>2. PICK q \in Q : \A k \in Q : q <= k
    BY <2>1, LeastNat
  <2>3. q \in 1 .. N /\ low(q) = low(p) /\ q <= p
    BY <2>1, <2>2
  <2>4. \A j \in 1 .. N : j < q => low(j) # low(q)
    <3> SUFFICES ASSUME NEW j \in 1 .. N, j < q, low(j) = low(q) PROVE FALSE
      OBVIOUS
    <3>1. j \in Q
      BY <2>3
    <3> QED BY <1>1, <2>2, <2>3, <3>1
  <2>5. q \in P
    BY <1>3, <2>3, <2>4
  <2>6. PICK i \in 1 .. n : spot[i] = q
    BY <1>4, <2>5
  <2> QED BY <1>1, <1>5, <2>3, <2>6
<1>9. \A i \in DOMAIN new : \E p \in DOMAIN keywords : new[i] = keywords[p]
  BY <1>1, <1>5
<1> QED BY <1>4, <1>7, <1>8, <1>9 DEF new

LEMMA SuggestType ==
  ASSUME NEW said \in Proposals
  PROVE  Suggest(said) \in Seq(Keyword)
<1> DEFINE s == Normalized(said)
           t == ByTier(s)
<1>1. s \in Seq(Keyword)
  BY NormalizedType
<1> HIDE DEF s
<1>2. t \in Seq(Keyword)
  BY <1>1, ByTierIs
<1> HIDE DEF t
<1>3. Dedupe(t) \in Seq(Keyword)
  BY <1>2, DedupeIs
<1> QED BY <1>3 DEF Suggest, s, t

LEMMA SuggestedHolds ==
  ASSUME NEW said \in Proposals
  PROVE  Suggested(said)
<1> DEFINE s == Normalized(said)
           t == ByTier(s)
           new == Dedupe(t)
           same(a, b) == Lower[NormalizeKeyword(a)] = Lower[NormalizeKeyword(b)]
<1>1. /\ s \in Seq(Keyword) /\ DOMAIN s = DOMAIN said
      /\ \A i \in DOMAIN said : /\ said[i].keyword \in Term
                                /\ s[i].keyword = NormalizeKeyword(said[i].keyword)
                                /\ s[i].tier = NormalizeTier(said[i].tier)
  BY NormalizedType
<1> HIDE DEF s
<1>2. /\ t \in Seq(Keyword)
      /\ \A i, j \in DOMAIN t : i <= j => TierWeights[t[i].tier] >= TierWeights[t[j].tier]
      /\ \A p \in DOMAIN s : \E i \in DOMAIN t : t[i] = s[p]
      /\ \A i \in DOMAIN t : \E p \in DOMAIN s : t[i] = s[p]
  BY <1>1, ByTierIs
<1> HIDE DEF t
<1>3. /\ new \in Seq(Keyword)
      /\ \A i, j \in DOMAIN new : i # j => Lower[new[i].keyword] # Lower[new[j].keyword]
      /\ \A i \in DOMAIN new : \E p \in DOMAIN t : new[i] = t[p]
      /\ \A p \in DOMAIN t : \E q \in DOMAIN t, i \in DOMAIN new :
           q <= p /\ new[i] = t[q] /\ Lower[t[q].keyword] = Lower[t[p].keyword]
  BY <1>2, DedupeIs
<1>4. Suggest(said) = new
  BY DEF Suggest, s, t
<1> HIDE DEF new
<1>5. \A i \in DOMAIN s : NormalizeKeyword(s[i].keyword) = s[i].keyword
  BY <1>1, NormalizeTwice
<1>6. \A i \in DOMAIN new : NormalizeKeyword(new[i].keyword) = new[i].keyword
  <2> TAKE i \in DOMAIN new
  <2>1. PICK p \in DOMAIN t : new[i] = t[p]
    BY <1>3
  <2>2. PICK q \in DOMAIN s : t[p] = s[q]
    BY <1>2
  <2>3. new[i] = s[q]
    BY <2>1, <2>2
  <2> QED BY <1>5, <2>3
<1>7. \A i, j \in DOMAIN new : i # j => ~same(new[i].keyword, new[j].keyword)
  <2> TAKE i, j \in DOMAIN new
  <2>1. i # j => Lower[new[i].keyword] # Lower[new[j].keyword]
    BY <1>3
  <2> QED BY <1>6, <2>1
<1>8. ASSUME NEW i \in DOMAIN said
      PROVE  \E j \in DOMAIN new :
               /\ same(said[i].keyword, new[j].keyword)
               /\ TierWeights[new[j].tier] >= TierWeights[NormalizeTier(said[i].tier)]
  <2>1. PICK p \in DOMAIN t : t[p] = s[i]
    BY <1>1, <1>2
  <2>2. PICK q \in DOMAIN t, j \in DOMAIN new :
          q <= p /\ new[j] = t[q] /\ Lower[t[q].keyword] = Lower[t[p].keyword]
    BY <1>3
  <2>3. TierWeights[new[j].tier] >= TierWeights[s[i].tier]
    BY <1>2, <2>1, <2>2
  <2>4. Lower[new[j].keyword] = Lower[s[i].keyword]
    BY <2>1, <2>2
  <2> QED BY <1>1, <1>6, <2>3, <2>4
<1> HIDE DEF same
<1>9. \A i \in DOMAIN said : \E j \in DOMAIN new :
        same(said[i].keyword, new[j].keyword) /\ TierWeights[new[j].tier] >= TierWeights[NormalizeTier(said[i].tier)]
  BY <1>8
<1> QED BY <1>4, <1>7, <1>9 DEF Suggested, same

\* Percentages.
LEMMA Division ==
  ASSUME NEW x \in Nat, NEW w \in Nat \ {0}
  PROVE  x \div w \in Nat /\ x % w \in 0 .. w - 1 /\ x = w * (x \div w) + (x % w)
<1>1. \A v \in Nat \ {0} : \E q, r \in Nat : x = q * v + r /\ q = x \div v /\ r = x % v /\ r < v
  OBVIOUS
<1>2. PICK q, r \in Nat : x = q * w + r /\ q = x \div w /\ r = x % w /\ r < w
  BY <1>1
<1>3. q * w = w * q
  OBVIOUS
<1>4. x = w * q + r
  BY <1>2, <1>3
<1>5. r \in 0 .. w - 1
  BY <1>2
<1> DEFINE down == x \div w
           rest == x % w
<1>6. q = down /\ r = rest
  BY <1>2
<1> HIDE DEF down, rest
<1>7. down \in Nat /\ rest \in 0 .. w - 1 /\ x = w * down + rest
  BY <1>4, <1>5, <1>6
<1> QED BY <1>7 DEF down, rest

LEMMA PercentFacts ==
  ASSUME NEW p \in Nat, NEW q \in Nat, NEW w \in Nat \ {0}, p <= q
  PROVE  /\ Percent(p, w) <= Percent(q, w) /\ Percent(p, w) \in Nat
         /\ Percent(w, w) = 100
<1> DEFINE a == (100 * p) \div w
           r == (100 * p) % w
           b == (100 * q) \div w
           s == (100 * q) % w
<1>1. 100 * p \in Nat /\ 100 * q \in Nat /\ 100 * p <= 100 * q
  OBVIOUS
<1>2. /\ a \in Nat /\ r \in 0 .. w - 1 /\ 100 * p = w * a + r
      /\ b \in Nat /\ s \in 0 .. w - 1 /\ 100 * q = w * b + s
  <2> DEFINE x == 100 * p
             y == 100 * q
  <2> HIDE DEF x, y
  <2>1. x \in Nat /\ y \in Nat
    BY <1>1 DEF x, y
  <2>2. /\ x \div w \in Nat /\ x % w \in 0 .. w - 1 /\ x = w * (x \div w) + (x % w)
        /\ y \div w \in Nat /\ y % w \in 0 .. w - 1 /\ y = w * (y \div w) + (y % w)
    BY <2>1, Division
  <2> QED BY <2>2 DEF x, y
<1>3. Percent(p, w) = IF 2 * r > w \/ (2 * r = w /\ a % 2 = 1) THEN a + 1 ELSE a
  BY DEF Percent
<1>4. Percent(q, w) = IF 2 * s > w \/ (2 * s = w /\ b % 2 = 1) THEN b + 1 ELSE b
  BY DEF Percent
<1> HIDE DEF a, b, r, s
<1>5. a <= b
  <2> SUFFICES ASSUME b + 1 <= a PROVE FALSE
    BY <1>2
  <2>1. PICK d \in Nat : a = b + 1 + d
    <3> DEFINE d == a - (b + 1)
    <3>1. d \in Nat /\ a = b + 1 + d
      BY <1>2
    <3> QED BY <3>1
  <2>2. w * a = w * b + w + w * d
    BY <1>2, <2>1
  <2>3. w * d \in Nat /\ w * b \in Nat
    BY <1>2
  <2> QED BY <1>1, <1>2, <2>2, <2>3
<1>6. a = b => r <= s
  BY <1>1, <1>2
<1>7. Percent(p, w) <= Percent(q, w) /\ Percent(p, w) \in Nat
  <2>1. CASE a = b
    <3>1. a % 2 = b % 2
      BY <2>1
    <3> QED BY <1>2, <1>3, <1>4, <1>6, <2>1, <3>1
  <2>2. CASE a # b
    BY <1>2, <1>3, <1>4, <1>5, <2>2
  <2> QED BY <2>1, <2>2
<1>8. Percent(w, w) = 100
  <2>1. (100 * w) \div w = 100 /\ (100 * w) % w = 0
    OBVIOUS
  <2> QED BY <2>1 DEF Percent
<1> QED BY <1>7, <1>8

-----------------------------------------------------------------------------
\* The score.
LEMMA WeightFacts ==
  ASSUME NEW keywords \in Seq(Keyword)
  PROVE  /\ IsFiniteSet(Distinct(keywords))
         /\ \A name \in Distinct(keywords) : Weight(keywords)[name] \in Nat \ {0}
<1>1. DOMAIN keywords = 1 .. Len(keywords) /\ Len(keywords) \in Nat /\ IsFiniteSet(1 .. Len(keywords))
  BY FS_Interval
<1>2. \A i \in DOMAIN keywords : keywords[i] \in Keyword
  OBVIOUS
<1>3. \A i \in DOMAIN keywords : keywords[i].tier \in Tiers
  BY <1>2, TierFacts DEF Keyword
<1>4. IsFiniteSet(Distinct(keywords))
  <2> DEFINE f == [i \in DOMAIN keywords |-> keywords[i].keyword]
  <2>1. Distinct(keywords) = {f[i] : i \in 1 .. Len(keywords)}
    BY <1>1 DEF Distinct
  <2> HIDE DEF f
  <2>2. IsFiniteSet({f[i] : i \in 1 .. Len(keywords)})
    BY <1>1, ImageFinite
  <2> QED BY <2>1, <2>2
<1>5. ASSUME NEW name \in Distinct(keywords) PROVE Weight(keywords)[name] \in Nat \ {0}
  <2> DEFINE S == {i \in DOMAIN keywords : keywords[i].keyword = name}
             i == Max(S)
  <2>1. S # {} /\ S \subseteq 1 .. Len(keywords)
    BY <1>1 DEF Distinct
  <2>2. IsFiniteSet(S) /\ \A x \in S : x \in Int
    BY <1>1, <2>1, FS_Subset
  <2>3. i \in S
    <3> HIDE DEF S
    <3> QED BY <2>1, <2>2, MaxIs
  <2>4. Weight(keywords)[name] = TierWeights[keywords[i].tier]
    BY DEF Weight
  <2> HIDE DEF i
  <2> QED BY <1>3, <2>3, <2>4, TierFacts
<1> QED BY <1>4, <1>5

LEMMA ScoreIs ==
  ASSUME NEW keywords \in Seq(Keyword), keywords # <<>>, NEW judged
  PROVE  KeywordScore(judged, keywords) =
           Percent(Total(Weight(keywords), Present(judged, keywords)),
                   Total(Weight(keywords), Distinct(keywords)))
BY DEF KeywordScore, Total

\* What a keyword more is worth, and what all of them are.
LEMMA ScoreFacts ==
  ASSUME NEW keywords \in Seq(Keyword), keywords # <<>>, NEW judged, NEW more,
         Present(judged, keywords) \subseteq Present(more, keywords)
  PROVE  /\ KeywordScore(judged, keywords) \in 0 .. 100
         /\ KeywordScore(judged, keywords) <= KeywordScore(more, keywords)
         /\ Present(judged, keywords) = Distinct(keywords) => KeywordScore(judged, keywords) = 100
<1> DEFINE f == Weight(keywords)
           D == Distinct(keywords)
           P == Present(judged, keywords)
           Q == Present(more, keywords)
<1>1. /\ KeywordScore(judged, keywords) = Percent(Total(f, P), Total(f, D))
      /\ KeywordScore(more, keywords) = Percent(Total(f, Q), Total(f, D))
  BY ScoreIs
<1>2. P \in SUBSET Q /\ P \in SUBSET D /\ Q \in SUBSET D
  BY DEF Present
<1>3. IsFiniteSet(D) /\ \A name \in D : f[name] \in Nat \ {0}
  BY WeightFacts
<1>4. D # {}
  <2>1. 1 \in DOMAIN keywords
    OBVIOUS
  <2> QED BY <2>1 DEF Distinct
<1> HIDE DEF f, D, P, Q
<1>5. IsFiniteSet(P) /\ IsFiniteSet(Q)
  BY <1>2, <1>3, FS_Subset
<1>6. /\ Total(f, P) <= Total(f, Q) /\ Total(f, P) <= Total(f, D) /\ Total(f, {}) <= Total(f, P)
      /\ Total(f, {}) <= Total(f, Q) /\ Total(f, {}) = 0
  <2>1. \A x \in D : f[x] \in Int /\ f[x] \in Nat /\ f[x] <= f[x]
    BY <1>3
  <2>2. \A x \in Q : f[x] \in Int /\ f[x] \in Nat /\ f[x] <= f[x]
    BY <1>2, <2>1
  <2>3. \A x \in P : f[x] \in Int /\ f[x] \in Nat /\ f[x] <= f[x]
    BY <1>2, <2>1
  <2>4. Total(f, P) <= Total(f, Q)
    BY <1>2, <1>5, <2>2, <2>3, TotalGrows
  <2>5. Total(f, P) <= Total(f, D)
    BY <1>2, <1>3, <2>1, <2>3, TotalGrows
  <2>6. Total(f, {}) <= Total(f, P) /\ Total(f, {}) <= Total(f, Q)
    BY <1>5, <2>2, <2>3, TotalGrows
  <2>7. Total(f, {}) = 0
    BY TotalEmpty
  <2> QED BY <2>4, <2>5, <2>6, <2>7
<1>7. Total(f, P) \in Int /\ Total(f, Q) \in Int /\ Total(f, D) \in Int
  <2>1. \A x \in D : f[x] \in Int
    BY <1>3
  <2>2. (\A x \in P : f[x] \in Int) /\ (\A x \in Q : f[x] \in Int)
    BY <1>2, <2>1
  <2> QED BY <1>3, <1>5, <2>1, <2>2, TotalRemove
<1>8. Total(f, D) > 0
  <2>1. PICK x \in D : TRUE
    BY <1>4
  <2> DEFINE R == D \ {x}
  <2>2. IsFiniteSet(R) /\ \A y \in R : f[y] \in Int /\ f[y] \in Nat /\ f[y] <= f[y]
    BY <1>3, FS_Subset
  <2>3. Total(f, D) = f[x] + Total(f, R) /\ Total(f, R) \in Int
    <3>1. \A y \in D : f[y] \in Int
      BY <1>3
    <3>2. Total(f, D) = f[x] + Total(f, R)
      BY <1>3, <3>1, TotalRemove
    <3>3. Total(f, R) \in Int
      BY <2>2, TotalRemove
    <3> QED BY <3>2, <3>3
  <2>4. Total(f, {}) <= Total(f, R)
    <3> HIDE DEF R
    <3>1. {} \in SUBSET R
      OBVIOUS
    <3> QED BY <2>2, <3>1, TotalGrows
  <2> QED BY <1>3, <1>6, <2>3, <2>4
<1> DEFINE p == Total(f, P)
           q == Total(f, Q)
           w == Total(f, D)
<1>9. p \in Nat /\ q \in Nat /\ w \in Nat \ {0} /\ p <= q /\ p <= w
  BY <1>6, <1>7, <1>8
<1> HIDE DEF p, q, w
<1>10. Percent(p, w) <= Percent(q, w) /\ Percent(p, w) \in Nat
  BY <1>9, PercentFacts
<1>11. Percent(p, w) <= Percent(w, w) /\ Percent(w, w) = 100
  BY <1>9, PercentFacts
<1>12. P = D => p = w
  BY DEF p, w
<1>13. KeywordScore(judged, keywords) = Percent(p, w) /\ KeywordScore(more, keywords) = Percent(q, w)
  BY <1>1 DEF p, q, w
<1>14. /\ KeywordScore(judged, keywords) \in 0 .. 100
       /\ KeywordScore(judged, keywords) <= KeywordScore(more, keywords)
  <2> DEFINE u == Percent(p, w)
             v == Percent(q, w)
  <2>1. u \in Nat /\ u <= v /\ u <= 100
    BY <1>10, <1>11
  <2> HIDE DEF u, v
  <2>2. u \in 0 .. 100
    BY <2>1
  <2> QED BY <1>13, <2>1, <2>2 DEF u, v
<1>15. P = D => KeywordScore(judged, keywords) = 100
  BY <1>11, <1>12, <1>13
<1> QED BY <1>14, <1>15 DEF P, D

-----------------------------------------------------------------------------
\* The career.
LEMMA MinIs ==
  ASSUME NEW S, IsFiniteSet(S), S # {}, \A x \in S : x \in Int
  PROVE  Min(S) \in S /\ \A y \in S : Min(S) <= y
<1> DEFINE f == [x \in Int |-> 0 - x]
           T == {f[x] : x \in S}
<1>0. \A x \in S : f[x] = 0 - x /\ f[x] \in Int
  OBVIOUS
<1>1. T # {} /\ \A x \in T : x \in Int
  <2> HIDE DEF f
  <2> QED BY <1>0
<1>2. IsFiniteSet(T)
  <2> HIDE DEF f
  <2> QED BY ImageFinite
<1>3. PICK x \in S : f[x] = Max(T)
  <2>1. Max(T) \in T
    <3> HIDE DEF T
    <3> QED BY <1>1, <1>2, MaxIs
  <2> QED BY <2>1
<1>4. \A y \in S : Max(T) >= f[y]
  <2>1. \A t \in T : Max(T) >= t
    <3> HIDE DEF T
    <3> QED BY <1>1, <1>2, MaxIs
  <2> QED BY <2>1
<1>5. \A y \in S : x <= y
  BY <1>3, <1>4
<1> QED BY <1>5 DEF Min

LEMMA CareerCovers ==
  ASSUME NEW jobs \in Seq(Employment)
  PROVE  /\ TotalYears(jobs) \in Int
         /\ \A i \in DOMAIN jobs :
              jobs[i].start # Unknown => TotalYears(jobs) >= EndYear(jobs[i]) - jobs[i].start
<1> DEFINE dated == {i \in DOMAIN jobs : jobs[i].start # Unknown}
           from == [i \in dated |-> jobs[i].start]
           to == [i \in dated |-> EndYear(jobs[i])]
           Ends0 == {to[i] : i \in dated}
           Starts0 == {from[i] : i \in dated}
<1>1. DOMAIN jobs = 1 .. Len(jobs) /\ Len(jobs) \in Nat /\ IsFiniteSet(1 .. Len(jobs))
  BY FS_Interval
<1>2. IsFiniteSet(dated)
  BY <1>1, FS_Subset
<1>3. \A i \in DOMAIN jobs : jobs[i] \in Employment
  OBVIOUS
<1>4. \A i \in dated : from[i] = jobs[i].start /\ from[i] \in Int /\ to[i] = EndYear(jobs[i]) /\ to[i] \in Int
  BY <1>3, ScreeningAssumption DEF Employment, EndYear
<1>5. /\ {EndYear(jobs[i]) : i \in dated} = Ends0
      /\ {jobs[i].start : i \in dated} = Starts0
  OBVIOUS
<1>6. TotalYears(jobs) = IF dated = {} THEN 0 ELSE Max({0, Max(Ends0) - Min(Starts0)})
  BY <1>5 DEF TotalYears
<1> HIDE DEF dated, from, to
<1>7. CASE dated = {}
  BY <1>6, <1>7 DEF dated
<1>8. CASE dated # {}
  <2>1. IsFiniteSet(Ends0) /\ IsFiniteSet(Starts0)
    BY <1>2, ImageFinite
  <2>2. /\ Ends0 # {} /\ Starts0 # {}
        /\ \A x \in Ends0 : x \in Int
        /\ \A x \in Starts0 : x \in Int
    BY <1>4, <1>8
  <2>3. /\ Max(Ends0) \in Int /\ \A i \in dated : to[i] <= Max(Ends0)
        /\ Min(Starts0) \in Int /\ \A i \in dated : Min(Starts0) <= from[i]
    <3>1. \A i \in dated : to[i] \in Ends0 /\ from[i] \in Starts0
      OBVIOUS
    <3> HIDE DEF Ends0, Starts0
    <3>2. Max(Ends0) \in Ends0 /\ \A y \in Ends0 : Max(Ends0) >= y
      BY <2>1, <2>2, MaxIs
    <3>3. Min(Starts0) \in Starts0 /\ \A y \in Starts0 : Min(Starts0) <= y
      BY <2>1, <2>2, MinIs
    <3> QED BY <1>4, <2>2, <3>1, <3>2, <3>3
  <2> HIDE DEF Ends0, Starts0
  <2> DEFINE span == Max(Ends0) - Min(Starts0)
  <2>4. span \in Int
    BY <2>3
  <2>5. Max({0, span}) = IF 0 >= span THEN 0 ELSE span
    <3> HIDE DEF span
    <3> QED BY <2>4, MinMaxOfTwo
  <2>6. \A i \in dated : span >= to[i] - from[i]
    BY <1>4, <2>3
  <2>7. TotalYears(jobs) = Max({0, span})
    BY <1>6, <1>8
  <2> HIDE DEF span
  <2>8. TotalYears(jobs) >= span /\ TotalYears(jobs) \in Int
    BY <2>4, <2>5, <2>7
  <2>9. \A i \in dated : TotalYears(jobs) >= to[i] - from[i]
    BY <1>4, <2>4, <2>6, <2>8
  <2> QED BY <1>4, <2>8, <2>9 DEF dated
<1> QED BY <1>7, <1>8

LEMMA PickedSet ==
  ASSUME NEW S, NEW s \in Seq(S), NEW P \in SUBSET DOMAIN s
  PROVE  ToSet(Picked(s, P)) = {s[p] : p \in P}
<1> DEFINE new == Picked(s, P)
<1>1. /\ \A i \in DOMAIN new : \E p \in P : new[i] = s[p]
      /\ \A p \in P : \E i \in DOMAIN new : new[i] = s[p]
  BY PickedFacts
<1> HIDE DEF new
<1>2. {new[i] : i \in DOMAIN new} = {s[p] : p \in P}
  BY <1>1
<1> QED BY <1>2 DEF ToSet, new

-----------------------------------------------------------------------------
\* What is left of a list of the model's.
LEMMA WellShapedType ==
  ASSUME NEW S, NEW s \in Seq(S \cup {Unknown})
  PROVE  WellShaped(s) \in Seq(S)
<1> DEFINE P == {i \in DOMAIN s : s[i] # Unknown}
           new == WellShaped(s)
<1>1. new = Picked(s, P) /\ P \in SUBSET DOMAIN s
  BY DEF WellShaped
<1>2. \A p \in P : s[p] \in S
  <2>1. \A p \in DOMAIN s : s[p] \in S \cup {Unknown}
    OBVIOUS
  <2> QED BY <2>1
<1> HIDE DEF P, new
<1>3. new \in Seq(S \cup {Unknown}) /\ \A i \in DOMAIN new : \E p \in P : new[i] = s[p]
  BY <1>1, PickedFacts
<1>4. \A i \in DOMAIN new : new[i] \in S
  BY <1>2, <1>3
<1>5. Len(new) \in Nat /\ DOMAIN new = 1 .. Len(new) /\ new = [i \in 1 .. Len(new) |-> new[i]]
  BY <1>3
<1>6. new \in [1 .. Len(new) -> S]
  BY <1>4, <1>5
<1> QED BY <1>5, <1>6 DEF new

\* Of two lists that have no value at the same places the same is left.
LEMMA WellShapedBoth ==
  ASSUME NEW S, NEW s \in Seq(S), NEW t \in Seq(S), DOMAIN s = DOMAIN t,
         \A i \in DOMAIN s : s[i] = Unknown <=> t[i] = Unknown
  PROVE  /\ DOMAIN WellShaped(s) = DOMAIN WellShaped(t)
         /\ \A i \in DOMAIN WellShaped(s) :
              \E p \in DOMAIN s : s[p] # Unknown /\ WellShaped(s)[i] = s[p] /\ WellShaped(t)[i] = t[p]
<1> DEFINE P == {i \in DOMAIN s : s[i] # Unknown}
<1>1. P = {i \in DOMAIN t : t[i] # Unknown}
  OBVIOUS
<1>2. P \in SUBSET DOMAIN s /\ P \subseteq DOMAIN t /\ \A p \in P : p \in DOMAIN s /\ s[p] # Unknown
  OBVIOUS
<1>3. WellShaped(s) = Picked(s, P) /\ WellShaped(t) = Picked(t, P)
  BY <1>1 DEF WellShaped
<1> HIDE DEF P
<1>4. /\ DOMAIN Picked(s, P) = DOMAIN Picked(t, P)
      /\ \A i \in DOMAIN Picked(s, P) :
           \E p \in P : Picked(s, P)[i] = s[p] /\ Picked(t, P)[i] = t[p]
  BY <1>2, PickedBoth
<1> QED BY <1>2, <1>3, <1>4

-----------------------------------------------------------------------------
\* Telling the model what the code knows changes nothing of its requirements.
LEMMA SameRequirements ==
  ASSUME NEW response \in Replies, NEW resume, NEW jobs \in Seq(Employment)
  PROVE  Checked(WellShaped(Truthful(response, resume, jobs).requirements), jobs)
           = Checked(WellShaped(response.requirements), jobs)
<1> DEFINE s == response.requirements
           t == Truthful(response, resume, jobs).requirements
           S == Requirement \cup {Unknown}
           years == TotalYears(jobs)
<1>1. s \in Seq(S)
  BY ScreeningAssumption
<1>2. t = [i \in DOMAIN s |->
        IF s[i] = Unknown \/ s[i].years = Unknown THEN s[i]
        ELSE [years |-> s[i].years, met |-> years >= s[i].years]]
  BY DEF Truthful
<1>3. years \in Int
  BY CareerCovers
<1> HIDE DEF s, t, years
<1>4. DOMAIN s = 1 .. Len(s) /\ Len(s) \in Nat /\ DOMAIN t = DOMAIN s
  BY <1>1, <1>2
<1>5. \A i \in DOMAIN s : s[i] \in Requirement \cup {Unknown}
  BY <1>1
<1>6. \A i \in DOMAIN s : s[i] # Unknown => s[i] \in Requirement /\ s[i].years \in Nat \cup {Unknown}
  BY <1>5 DEF Requirement
<1>7. \A i \in DOMAIN s : /\ t[i] = Unknown <=> s[i] = Unknown
                          /\ t[i] \in S
                          /\ s[i] # Unknown => t[i].years = s[i].years
                          /\ s[i] # Unknown /\ s[i].years = Unknown => t[i] = s[i]
  <2> TAKE i \in DOMAIN s
  <2>1. CASE s[i] = Unknown \/ s[i].years = Unknown
    BY <1>2, <1>4, <1>5, <2>1
  <2>2. CASE s[i] # Unknown /\ s[i].years # Unknown
    <3>1. t[i] = [years |-> s[i].years, met |-> years >= s[i].years]
      BY <1>2, <1>4, <2>2
    <3>2. s[i].years \in Nat /\ (years >= s[i].years) \in BOOLEAN
      BY <1>3, <1>6, <2>2
    <3>3. t[i] \in Requirement
      BY <3>1, <3>2 DEF Requirement
    <3>4. t[i] # Unknown
      BY <3>3, ScreeningAssumption
    <3> QED BY <2>2, <3>1, <3>3, <3>4
  <2> QED BY <2>1, <2>2
<1>8. t \in Seq(S)
  <2>1. t \in [1 .. Len(s) -> S]
    BY <1>2, <1>4, <1>7
  <2> QED BY <1>4, <2>1
<1> HIDE DEF S
<1> DEFINE a == WellShaped(s)
           b == WellShaped(t)
<1>9. /\ DOMAIN a = DOMAIN b
      /\ \A i \in DOMAIN a : \E p \in DOMAIN s : s[p] # Unknown /\ a[i] = s[p] /\ b[i] = t[p]
  BY <1>1, <1>4, <1>7, <1>8, WellShapedBoth
<1> HIDE DEF a, b
<1>10. \A i \in DOMAIN a : a[i].years = b[i].years /\ (a[i].years = Unknown => a[i] = b[i])
  BY <1>7, <1>9
<1>11. Checked(a, jobs) = Checked(b, jobs)
  BY <1>9, <1>10 DEF Checked
<1> QED BY <1>11 DEF a, b, s, t

\* Nor of its verdicts on the keywords.
LEMMA SameVerdicts ==
  ASSUME NEW response \in Replies, NEW resume, NEW jobs
  PROVE  Judged(WellShaped(Truthful(response, resume, jobs).judged), resume)
           = Judged(WellShaped(response.judged), resume)
<1> DEFINE s == response.judged
           t == Truthful(response, resume, jobs).judged
           S == Judgement \cup {Unknown}
<1>1. s \in Seq(S)
  BY ScreeningAssumption
<1>2. t = [i \in DOMAIN s |->
        IF s[i] = Unknown THEN Unknown
        ELSE [keyword |-> s[i].keyword, present |-> s[i].present \/ IsMentioned(s[i].keyword, resume)]]
  BY DEF Truthful
<1> HIDE DEF s, t
<1>4. DOMAIN s = 1 .. Len(s) /\ Len(s) \in Nat /\ DOMAIN t = DOMAIN s
  BY <1>1, <1>2
<1>5. \A i \in DOMAIN s : s[i] \in Judgement \cup {Unknown}
  BY <1>1
<1>6. \A i \in DOMAIN s : s[i] # Unknown => s[i].keyword \in Term /\ s[i].present \in BOOLEAN
  BY <1>5 DEF Judgement
<1>7. \A i \in DOMAIN s : /\ t[i] = Unknown <=> s[i] = Unknown
                          /\ t[i] \in S
                          /\ s[i] # Unknown =>
                               /\ t[i].keyword = s[i].keyword
                               /\ t[i].present = (s[i].present \/ IsMentioned(s[i].keyword, resume))
  <2> TAKE i \in DOMAIN s
  <2>1. CASE s[i] = Unknown
    BY <1>2, <1>4, <2>1
  <2>2. CASE s[i] # Unknown
    <3> DEFINE p == s[i].present \/ IsMentioned(s[i].keyword, resume)
    <3>1. t[i] = [keyword |-> s[i].keyword, present |-> p]
      BY <1>2, <1>4, <2>2
    <3>2. p \in BOOLEAN
      OBVIOUS
    <3> HIDE DEF p
    <3>3. t[i] \in Judgement
      BY <1>6, <2>2, <3>1, <3>2 DEF Judgement
    <3>4. t[i] # Unknown
      BY <3>3, ScreeningAssumption
    <3>5. t[i].keyword = s[i].keyword /\ t[i].present = p
      BY <3>1
    <3> QED BY <2>2, <3>3, <3>4, <3>5 DEF p
  <2> QED BY <2>1, <2>2
<1>8. t \in Seq(S)
  <2>1. t \in [1 .. Len(s) -> S]
    BY <1>2, <1>4, <1>7
  <2> QED BY <1>4, <2>1
<1> HIDE DEF S
<1> DEFINE a == WellShaped(s)
           b == WellShaped(t)
<1>9. /\ DOMAIN a = DOMAIN b
      /\ \A i \in DOMAIN a : \E p \in DOMAIN s : s[p] # Unknown /\ a[i] = s[p] /\ b[i] = t[p]
  BY <1>1, <1>4, <1>7, <1>8, WellShapedBoth
<1> HIDE DEF a, b
<1>10. \A i \in DOMAIN a : /\ a[i].keyword = b[i].keyword
                           /\ b[i].present = (a[i].present \/ IsMentioned(a[i].keyword, resume))
  BY <1>7, <1>9
<1>11. \A i \in DOMAIN a : (b[i].present \/ IsMentioned(b[i].keyword, resume))
                             = (a[i].present \/ IsMentioned(a[i].keyword, resume))
  BY <1>10
<1>12. Judged(a, resume) = Judged(b, resume)
  BY <1>9, <1>10, <1>11 DEF Judged
<1> QED BY <1>12 DEF a, b, s, t

\* Nor does it find or miss another keyword.
LEMMA SameKeywords ==
  ASSUME NEW response \in Replies, NEW resume, NEW jobs
  PROVE  LET truth == Truthful(response, resume, jobs)
         IN  /\ ToSet(Matched(truth, resume)) = ToSet(Matched(response, resume))
             /\ ToSet(Missing(truth, resume)) = ToSet(Missing(response, resume))
<1> DEFINE truth == Truthful(response, resume, jobs)
           found == response.matched
           missed == response.missing
           M == Moved(response, resume)
           rest == Picked(missed, DOMAIN missed \ M)
           shifted == Picked(missed, M)
           New == {i \in M : /\ \A j \in DOMAIN found : found[j] # missed[i]
                             /\ \A j \in M : j < i => missed[j] # missed[i]}
<1>1. found \in Seq(Term) /\ missed \in Seq(Term)
  BY ScreeningAssumption
<1>2. /\ truth.missing = rest /\ truth.matched = found \o shifted
      /\ Matched(response, resume) = found \o Picked(missed, New)
      /\ Missing(response, resume) = rest
  BY DEF Truthful, Matched, Missing
<1>3. /\ M \in SUBSET DOMAIN missed
      /\ \A i \in DOMAIN missed \ M : ~IsMentioned(missed[i], resume)
  BY DEF Moved
<1>4. Matched(truth, resume) =
        truth.matched \o Picked(truth.missing, {i \in Moved(truth, resume) :
          /\ \A j \in DOMAIN truth.matched : truth.matched[j] # truth.missing[i]
          /\ \A j \in Moved(truth, resume) : j < i => truth.missing[j] # truth.missing[i]})
  BY DEF Matched
<1>5. Missing(truth, resume) = Picked(truth.missing, DOMAIN truth.missing \ Moved(truth, resume))
  BY DEF Missing
<1>6. Moved(truth, resume) = {i \in DOMAIN truth.missing : IsMentioned(truth.missing[i], resume)}
  BY DEF Moved
<1>7. New \in SUBSET M
  OBVIOUS
<1>8. \A i \in M : (/\ \A j \in DOMAIN found : found[j] # missed[i]
                    /\ \A j \in M : j < i => missed[j] # missed[i]) => i \in New
  OBVIOUS
<1> HIDE DEF truth, found, missed, M, New
<1>9. /\ rest \in Seq(Term)
      /\ \A i \in DOMAIN rest : \E p \in DOMAIN missed \ M : rest[i] = missed[p]
  <2> DEFINE left == DOMAIN missed \ M
  <2>1. left \in SUBSET DOMAIN missed
    OBVIOUS
  <2> HIDE DEF left
  <2>2. /\ Picked(missed, left) \in Seq(Term)
        /\ \A i \in DOMAIN Picked(missed, left) : \E p \in left : Picked(missed, left)[i] = missed[p]
    BY <1>1, <2>1, PickedFacts
  <2> QED BY <2>2 DEF left
<1>10. shifted \in Seq(Term) /\ ToSet(shifted) = {missed[p] : p \in M}
  BY <1>1, <1>3, PickedFacts, PickedSet
<1>11. New \in SUBSET DOMAIN missed
  BY <1>3, <1>7
<1>12. Picked(missed, New) \in Seq(Term) /\ ToSet(Picked(missed, New)) = {missed[p] : p \in New}
  BY <1>1, <1>11, PickedFacts, PickedSet
<1> HIDE DEF rest, shifted
<1>13. Moved(truth, resume) = {}
  BY <1>2, <1>3, <1>6, <1>9
<1>14. Missing(truth, resume) = Picked(rest, DOMAIN rest) /\ Matched(truth, resume) = truth.matched \o Picked(rest, {})
  BY <1>2, <1>4, <1>5, <1>13
<1>15. ToSet(Picked(rest, DOMAIN rest)) = ToSet(rest)
  <2>1. ToSet(Picked(rest, DOMAIN rest)) = {rest[p] : p \in DOMAIN rest}
    BY <1>9, PickedSet
  <2> QED BY <2>1 DEF ToSet
<1>16. Picked(rest, {}) \in Seq(Term) /\ ToSet(Picked(rest, {})) = {}
  <2>1. {} \in SUBSET DOMAIN rest
    OBVIOUS
  <2>2. ToSet(Picked(rest, {})) = {rest[p] : p \in {}}
    BY <1>9, <2>1, PickedSet
  <2> QED BY <1>9, <2>1, <2>2, PickedFacts
<1>17. \A a, b \in Seq(Term) : ToSet(a \o b) = ToSet(a) \cup ToSet(b)
  <2> TAKE a, b \in Seq(Term)
  <2>1. /\ DOMAIN a = 1 .. Len(a) /\ DOMAIN b = 1 .. Len(b)
        /\ DOMAIN (a \o b) = 1 .. Len(a) + Len(b) /\ Len(a) \in Nat /\ Len(b) \in Nat
    OBVIOUS
  <2>2. \A i \in 1 .. Len(a) + Len(b) : (a \o b)[i] = IF i <= Len(a) THEN a[i] ELSE b[i - Len(a)]
    OBVIOUS
  <2> DEFINE ab == a \o b
             x == Len(a)
             y == Len(b)
  <2> HIDE DEF ab, x, y
  <2>3. \A i \in 1 .. x + y : ab[i] \in {a[k] : k \in 1 .. x} \cup {b[k] : k \in 1 .. y}
    <3> TAKE i \in 1 .. x + y
    <3>1. CASE i <= x
      BY <2>1, <2>2, <3>1 DEF ab, x, y
    <3>2. CASE ~(i <= x)
      <4>1. i - x \in 1 .. y
        BY <2>1, <3>2 DEF x, y
      <4>2. ab[i] = b[i - x]
        BY <2>2, <3>2 DEF ab, x, y
      <4> QED BY <4>1, <4>2
    <3> QED BY <3>1, <3>2
  <2>4. \A k \in 1 .. x : k \in 1 .. x + y /\ ab[k] = a[k]
    BY <2>1, <2>2 DEF ab, x, y
  <2>5. \A k \in 1 .. y : x + k \in 1 .. x + y /\ ab[x + k] = b[k]
    <3> TAKE k \in 1 .. y
    <3>1. x + k \in 1 .. x + y /\ ~(x + k <= x) /\ (x + k) - x = k
      BY <2>1 DEF x, y
    <3>2. ab[x + k] = b[(x + k) - x]
      BY <2>2, <3>1 DEF ab, x, y
    <3> QED BY <3>1, <3>2
  <2>6. {ab[i] : i \in 1 .. x + y} = {a[k] : k \in 1 .. x} \cup {b[k] : k \in 1 .. y}
    BY <2>3, <2>4, <2>5
  <2> QED BY <2>1, <2>6 DEF ToSet, ab, x, y
<1>18. {missed[p] : p \in M} \subseteq ToSet(found) \cup {missed[p] : p \in New}
  <2> SUFFICES ASSUME NEW p \in M PROVE missed[p] \in ToSet(found) \cup {missed[i] : i \in New}
    OBVIOUS
  <2>1. CASE \E j \in DOMAIN found : found[j] = missed[p]
    BY <2>1 DEF ToSet
  <2>2. CASE \A j \in DOMAIN found : found[j] # missed[p]
    <3> DEFINE Q == {q \in M : missed[q] = missed[p]}
    <3>1. DOMAIN missed = 1 .. Len(missed) /\ Len(missed) \in Nat
      BY <1>1
    <3>2. Q \in SUBSET Nat /\ p \in Q
      BY <1>3, <3>1
    <3>3. PICK q \in Q : \A k \in Q : q <= k
      BY <3>2, LeastNat
    <3>4. q \in M /\ missed[q] = missed[p] /\ q \in Nat
      BY <3>2, <3>3
    <3>5. \A j \in M : j < q => missed[j] # missed[q]
      <4> SUFFICES ASSUME NEW j \in M, j < q, missed[j] = missed[q] PROVE FALSE
        OBVIOUS
      <4>1. j \in Q
        BY <3>4
      <4>2. q <= j /\ j \in Nat
        BY <3>2, <3>3, <4>1
      <4> QED BY <3>4, <4>2
    <3>6. q \in New
      BY <1>8, <2>2, <3>4, <3>5
    <3> QED BY <3>4, <3>6
  <2> QED BY <2>1, <2>2
<1>19. /\ ToSet(truth.matched) = ToSet(found) \cup {missed[p] : p \in M}
       /\ ToSet(Matched(response, resume)) = ToSet(found) \cup {missed[p] : p \in New}
       /\ truth.matched \in Seq(Term)
  <2>1. truth.matched \in Seq(Term)
    BY <1>1, <1>2, <1>10
  <2> QED BY <1>1, <1>2, <1>10, <1>12, <1>17, <2>1
<1>20. {missed[p] : p \in New} \subseteq {missed[p] : p \in M}
  BY <1>7
<1>21. ToSet(Matched(truth, resume)) = ToSet(truth.matched)
  BY <1>14, <1>16, <1>17, <1>19
<1>22. ToSet(Matched(truth, resume)) = ToSet(Matched(response, resume))
  BY <1>18, <1>19, <1>20, <1>21
<1>23. ToSet(Missing(truth, resume)) = ToSet(Missing(response, resume))
  BY <1>2, <1>14, <1>15
<1> QED BY <1>22, <1>23 DEF truth

\* A list that is made from another one, member by member.
LEMMA JudgedType ==
  ASSUME NEW judged \in Seq(Judgement), NEW resume
  PROVE  Judged(judged, resume) \in Seq(Judgement)
<1> DEFINE n == Len(judged)
           new == Judged(judged, resume)
           P(i) == judged[i].present \/ IsMentioned(judged[i].keyword, resume)
<1>1. n \in Nat /\ DOMAIN judged = 1 .. n /\ \A i \in 1 .. n : judged[i] \in Judgement
  OBVIOUS
<1>2. \A i \in 1 .. n : judged[i].keyword \in Term /\ P(i) \in BOOLEAN
  BY <1>1 DEF Judgement
<1>3. new = [i \in 1 .. n |-> [keyword |-> judged[i].keyword, present |-> P(i)]]
  BY <1>1 DEF Judged
<1> HIDE DEF n, new, P
<1>4. \A i \in 1 .. n : [keyword |-> judged[i].keyword, present |-> P(i)] \in Judgement
  BY <1>2 DEF Judgement
<1>5. new \in [1 .. n -> Judgement]
  BY <1>3, <1>4
<1> QED BY <1>1, <1>5 DEF new

\* One keyword more that is found adds to those found.
LEMMA FoundGrows ==
  ASSUME NEW judged \in Seq(Judgement), NEW keywords, NEW name \in Term
  PROVE  Present(judged, keywords) \subseteq
           Present(Append(judged, [keyword |-> name, present |-> TRUE]), keywords)
<1> DEFINE one == [keyword |-> name, present |-> TRUE]
           more == Append(judged, one)
<1>1. one \in Judgement
  BY DEF Judgement
<1> HIDE DEF one
<1>2. \A i \in DOMAIN judged : i \in DOMAIN more /\ more[i] = judged[i]
  BY <1>1
<1> HIDE DEF more
<1>3. Present(judged, keywords) \subseteq Present(more, keywords)
  BY <1>2 DEF Present
<1> QED BY <1>3 DEF more, one

\* What a review says.
LEMMA ReviewIs ==
  ASSUME NEW resume, NEW jobs, NEW response, NEW keywords
  PROVE  LET review == Review(resume, jobs, response, keywords)
             checked == Checked(WellShaped(response.requirements), jobs)
             verdicts == Judged(WellShaped(response.judged), resume)
         IN  /\ review.recommendation =
                  (CASE ~RequirementsMet(checked) -> "DOES_NOT_MEET_REQUIREMENTS"
                     [] RequirementsMet(checked) /\ response.recommendation = Unknown -> "NEEDS_REVIEW"
                     [] RequirementsMet(checked) /\ response.recommendation # Unknown -> response.recommendation)
             /\ review.matched = Matched(response, resume)
             /\ review.missing = Missing(response, resume)
             /\ review.judged = verdicts
             /\ review.score = KeywordScore(verdicts, keywords)
BY DEF Review

\* A review is that of a reply without the mistakes the code can tell.
LEMMA ReviewOfTruth ==
  ASSUME NEW resume, NEW jobs \in Seq(Employment), NEW response \in Replies, NEW keywords
  PROVE  LET review == Review(resume, jobs, response, keywords)
             told == Review(resume, jobs, Truthful(response, resume, jobs), keywords)
         IN  /\ told.recommendation = review.recommendation /\ told.score = review.score
             /\ ToSet(told.matched) = ToSet(review.matched) /\ ToSet(told.missing) = ToSet(review.missing)
<1> DEFINE truth == Truthful(response, resume, jobs)
           review == Review(resume, jobs, response, keywords)
           told == Review(resume, jobs, truth, keywords)
           a == Checked(WellShaped(response.requirements), jobs)
           b == Checked(WellShaped(truth.requirements), jobs)
           c == Judged(WellShaped(response.judged), resume)
           d == Judged(WellShaped(truth.judged), resume)
<1>1. a = b
  BY SameRequirements
<1>2. c = d
  BY SameVerdicts
<1>3. truth.recommendation = response.recommendation
  BY DEF Truthful
<1>4. /\ ToSet(Matched(truth, resume)) = ToSet(Matched(response, resume))
      /\ ToSet(Missing(truth, resume)) = ToSet(Missing(response, resume))
  BY SameKeywords
<1> HIDE DEF truth
<1>5. /\ review.recommendation =
           (CASE ~RequirementsMet(a) -> "DOES_NOT_MEET_REQUIREMENTS"
              [] RequirementsMet(a) /\ response.recommendation = Unknown -> "NEEDS_REVIEW"
              [] RequirementsMet(a) /\ response.recommendation # Unknown -> response.recommendation)
      /\ review.matched = Matched(response, resume)
      /\ review.missing = Missing(response, resume)
      /\ review.score = KeywordScore(c, keywords)
  BY ReviewIs
<1>6. /\ told.recommendation =
           (CASE ~RequirementsMet(b) -> "DOES_NOT_MEET_REQUIREMENTS"
              [] RequirementsMet(b) /\ truth.recommendation = Unknown -> "NEEDS_REVIEW"
              [] RequirementsMet(b) /\ truth.recommendation # Unknown -> truth.recommendation)
      /\ told.matched = Matched(truth, resume)
      /\ told.missing = Missing(truth, resume)
      /\ told.score = KeywordScore(d, keywords)
  BY ReviewIs
<1> HIDE DEF review, told, a, b, c, d
<1>7. told.recommendation = review.recommendation
  BY <1>1, <1>3, <1>5, <1>6
<1>8. told.score = review.score
  BY <1>2, <1>5, <1>6
<1>9. ToSet(told.matched) = ToSet(review.matched) /\ ToSet(told.missing) = ToSet(review.missing)
  BY <1>4, <1>5, <1>6
<1> QED BY <1>7, <1>8, <1>9 DEF review, told, truth

-----------------------------------------------------------------------------
\* What is extracted, replied, and computed.
LEMMA ScreeningInit == InitScreening => ScreeningTypeOK
BY ScreeningAssumption DEF InitScreening, ScreeningTypeOK

LEMMA ScreeningSteps ==
  ScreeningTypeOK /\ [NextScreening]_screeningVars => ScreeningTypeOK'
<1> SUFFICES ASSUME ScreeningTypeOK, [NextScreening]_screeningVars PROVE ScreeningTypeOK'
  OBVIOUS
<1>1. ASSUME NEW said \in Proposals, SuggestKeywords(said) PROVE ScreeningTypeOK'
  BY <1>1 DEF SuggestKeywords, ScreeningTypeOK
<1>2. ASSUME NEW chosen \in (SUBSET DOMAIN Suggest(proposal)) \ {{}}, proposal # Unknown, CreateVacancy(chosen)
      PROVE  ScreeningTypeOK'
  <2> DEFINE s == Suggest(proposal)
             new == Picked(s, chosen)
  <2>1. proposal \in Proposals /\ evaluation = Unknown /\ evaluation' = evaluation /\ proposal' = proposal
        /\ vacancy' = new
    BY <1>2 DEF CreateVacancy, ScreeningTypeOK
  <2>2. s \in Seq(Keyword)
    BY <2>1, SuggestType
  <2>3. chosen \in SUBSET DOMAIN s /\ chosen # {}
    OBVIOUS
  <2> HIDE DEF s
  <2>4. new \in Seq(Keyword) /\ \A p \in chosen : \E i \in DOMAIN new : new[i] = s[p]
    BY <2>2, <2>3, PickedFacts
  <2> HIDE DEF new
  <2>5. new # <<>>
    <3>1. PICK i \in DOMAIN new : TRUE
      BY <2>3, <2>4
    <3> QED BY <3>1
  <2>6. new \in Seq(Keyword) \ {<<>>}
    BY <2>4, <2>5
  <2> QED BY <2>1, <2>6 DEF ScreeningTypeOK
<1>3. ASSUME NEW resume \in Resumes, NEW said \in Careers, StructureResume(resume, said)
      PROVE  ScreeningTypeOK'
  <2> DEFINE S == Employment \cup {Unknown}
  <2>1. said \in Seq(S)
    BY ScreeningAssumption
  <2>2. Facts(said) \in Seq(Employment)
    BY <2>1, WellShapedType DEF Facts
  <2> DEFINE new == [resume |-> resume, jobs |-> Facts(said), reply |-> Unknown, review |-> Unknown, failed |-> FALSE]
  <2>3. /\ evaluation' = new /\ vacancy' = vacancy /\ proposal' = proposal /\ vacancy # Unknown
    BY <1>3 DEF StructureResume
  <2>4. /\ DOMAIN new = {"resume", "jobs", "reply", "review", "failed"}
        /\ new.resume = resume /\ new.jobs = Facts(said) /\ new.reply = Unknown /\ new.review = Unknown /\ new.failed = FALSE
    OBVIOUS
  <2> HIDE DEF new
  <2> QED BY <2>2, <2>3, <2>4 DEF ScreeningTypeOK
<1>4. ASSUME NEW response \in Replies, ScoreResume(response) PROVE ScreeningTypeOK'
  <2> DEFINE r == Review(evaluation.resume, evaluation.jobs, response, vacancy)
             new == [evaluation EXCEPT !.reply = response, !.review = r]
  <2>1. /\ evaluation # Unknown /\ evaluation.reply = Unknown /\ ~evaluation.failed
        /\ evaluation' = new /\ vacancy' = vacancy /\ proposal' = proposal
    BY <1>4 DEF ScoreResume
  <2>2. /\ vacancy # Unknown
        /\ DOMAIN evaluation = {"resume", "jobs", "reply", "review", "failed"}
        /\ evaluation.resume \in Resumes /\ evaluation.jobs \in Seq(Employment) /\ evaluation.failed \in BOOLEAN
    BY <2>1 DEF ScreeningTypeOK
  <2>3. response # Unknown
    BY ScreeningAssumption
  <2> HIDE DEF r
  <2>4. /\ DOMAIN new = {"resume", "jobs", "reply", "review", "failed"}
        /\ new.resume = evaluation.resume /\ new.jobs = evaluation.jobs /\ new.reply = response
        /\ new.review = r /\ new.failed = evaluation.failed
    BY <2>2
  <2> HIDE DEF new
  <2>5. new.review = Review(new.resume, new.jobs, new.reply, vacancy)
    BY <2>4 DEF r
  <2> QED BY <2>1, <2>2, <2>3, <2>4, <2>5 DEF ScreeningTypeOK
<1>5. CASE ReEvaluate
  BY <1>5 DEF ReEvaluate, ScreeningTypeOK
<1>6. ASSUME NEW resume \in Resumes, FailEvaluation(resume) PROVE ScreeningTypeOK'
  <2> DEFINE new == [resume |-> resume, jobs |-> <<>>, reply |-> Unknown, review |-> Unknown, failed |-> TRUE]
  <2>1. evaluation' = new /\ vacancy' = vacancy /\ proposal' = proposal /\ vacancy # Unknown
    BY <1>6 DEF FailEvaluation
  <2>2. /\ DOMAIN new = {"resume", "jobs", "reply", "review", "failed"}
        /\ new.resume = resume /\ new.jobs = <<>> /\ new.reply = Unknown /\ new.review = Unknown /\ new.failed = TRUE
    OBVIOUS
  <2>3. <<>> \in Seq(Employment)
    OBVIOUS
  <2> HIDE DEF new
  <2> QED BY <2>1, <2>2, <2>3 DEF ScreeningTypeOK
<1>7. CASE UNCHANGED screeningVars
  BY <1>7 DEF screeningVars, ScreeningTypeOK
<1> QED BY <1>1, <1>2, <1>3, <1>4, <1>5, <1>6, <1>7 DEF NextScreening

\* Whatever is suggested, posted, extracted and replied, a review is what the code
\* makes of it, and a vacancy has at least one keyword.
THEOREM ScreeningType == ScreeningSpec => []ScreeningTypeOK
BY ScreeningInit, ScreeningSteps, PTL DEF ScreeningSpec

LEMMA ReviewHolds ==
  ASSUME NEW resume, NEW jobs \in Seq(Employment), NEW response \in Replies,
         NEW keywords \in Seq(Keyword) \ {<<>>}
  PROVE  LET review == Review(resume, jobs, response, keywords)
             told == Review(resume, jobs, Truthful(response, resume, jobs), keywords)
             found(keyword) == Append(review.judged, [keyword |-> keyword, present |-> TRUE])
         IN  /\ told.recommendation = review.recommendation /\ told.score = review.score
             /\ ToSet(told.matched) = ToSet(review.matched) /\ ToSet(told.missing) = ToSet(review.missing)
             /\ \A i \in DOMAIN keywords : KeywordScore(found(keywords[i].keyword), keywords) >= review.score
             /\ review.score \in 0 .. 100
             /\ (\A i \in DOMAIN keywords : \E j \in DOMAIN review.judged :
                   review.judged[j].keyword = keywords[i].keyword /\ review.judged[j].present)
                  => review.score = 100
             /\ \A i \in DOMAIN jobs :
                  jobs[i].start # Unknown => TotalYears(jobs) >= EndYear(jobs[i]) - jobs[i].start
<1> DEFINE review == Review(resume, jobs, response, keywords)
           told == Review(resume, jobs, Truthful(response, resume, jobs), keywords)
           verdicts == Judged(WellShaped(response.judged), resume)
           one(name) == [keyword |-> name, present |-> TRUE]
           found(name) == Append(review.judged, one(name))
<1>1. /\ told.recommendation = review.recommendation /\ told.score = review.score
      /\ ToSet(told.matched) = ToSet(review.matched) /\ ToSet(told.missing) = ToSet(review.missing)
  BY ReviewOfTruth
<1>2. review.judged = verdicts /\ review.score = KeywordScore(verdicts, keywords)
  BY ReviewIs
<1>3. verdicts \in Seq(Judgement)
  <2> DEFINE S == Judgement \cup {Unknown}
             s == response.judged
  <2>1. s \in Seq(S)
    BY ScreeningAssumption
  <2> HIDE DEF s
  <2>2. WellShaped(s) \in Seq(Judgement)
    BY <2>1, WellShapedType
  <2> QED BY <2>2, JudgedType DEF s
<1>4. keywords \in Seq(Keyword) /\ keywords # <<>>
  OBVIOUS
<1>5. \A i \in DOMAIN jobs :
        jobs[i].start # Unknown => TotalYears(jobs) >= EndYear(jobs[i]) - jobs[i].start
  BY CareerCovers
<1> HIDE DEF review, told, verdicts
<1>6. /\ review.score \in 0 .. 100
      /\ Present(verdicts, keywords) = Distinct(keywords) => review.score = 100
  BY <1>2, <1>4, ScoreFacts
<1>7. ASSUME NEW i \in DOMAIN keywords
      PROVE  KeywordScore(found(keywords[i].keyword), keywords) >= review.score
  <2> DEFINE name == keywords[i].keyword
             more == found(name)
  <2>1. name \in Term
    <3>1. keywords[i] \in Keyword
      BY <1>4
    <3> QED BY <3>1 DEF Keyword
  <2> HIDE DEF name
  <2>2. Present(verdicts, keywords) \subseteq Present(more, keywords)
    BY <1>2, <1>3, <2>1, FoundGrows
  <2> HIDE DEF more
  <2>3. /\ KeywordScore(verdicts, keywords) \in 0 .. 100
        /\ KeywordScore(verdicts, keywords) <= KeywordScore(more, keywords)
    BY <1>4, <2>2, ScoreFacts
  <2> QED BY <1>2, <2>3 DEF more, name
<1>8. ASSUME \A i \in DOMAIN keywords : \E j \in DOMAIN review.judged :
               review.judged[j].keyword = keywords[i].keyword /\ review.judged[j].present
      PROVE  review.score = 100
  <2>1. Present(verdicts, keywords) = Distinct(keywords)
    BY <1>2, <1>8 DEF Present, Distinct
  <2> QED BY <1>6, <2>1
<1> QED BY <1>1, <1>5, <1>6, <1>7, <1>8 DEF review, told

LEMMA ScreeningTypeScreens == ScreeningTypeOK => Screened
<1> SUFFICES ASSUME ScreeningTypeOK PROVE Screened
  OBVIOUS
<1>1. proposal # Unknown => Suggested(proposal)
  BY SuggestedHolds DEF ScreeningTypeOK
<1>2. CASE evaluation = Unknown \/ evaluation.review = Unknown
  BY <1>1, <1>2 DEF Screened
<1>3. CASE evaluation # Unknown /\ evaluation.review # Unknown
  <2>1. /\ evaluation.jobs \in Seq(Employment) /\ evaluation.reply \in Replies
        /\ vacancy \in Seq(Keyword) \ {<<>>}
        /\ evaluation.review = Review(evaluation.resume, evaluation.jobs, evaluation.reply, vacancy)
    BY <1>3 DEF ScreeningTypeOK
  <2> DEFINE resume == evaluation.resume
             jobs == evaluation.jobs
             response == evaluation.reply
             keywords == vacancy
             review == Review(resume, jobs, response, keywords)
             told == Review(resume, jobs, Truthful(response, resume, jobs), keywords)
             found(keyword) == Append(review.judged, [keyword |-> keyword, present |-> TRUE])
  <2>2. /\ told.recommendation = review.recommendation /\ told.score = review.score
        /\ ToSet(told.matched) = ToSet(review.matched) /\ ToSet(told.missing) = ToSet(review.missing)
        /\ \A i \in DOMAIN keywords : KeywordScore(found(keywords[i].keyword), keywords) >= review.score
        /\ review.score \in 0 .. 100
        /\ (\A i \in DOMAIN keywords : \E j \in DOMAIN review.judged :
              review.judged[j].keyword = keywords[i].keyword /\ review.judged[j].present)
             => review.score = 100
        /\ \A i \in DOMAIN jobs :
             jobs[i].start # Unknown => TotalYears(jobs) >= EndYear(jobs[i]) - jobs[i].start
    <3> HIDE DEF resume, jobs, response, keywords
    <3>1. jobs \in Seq(Employment) /\ response \in Replies /\ keywords \in Seq(Keyword) \ {<<>>}
      BY <2>1 DEF jobs, response, keywords
    <3> QED BY <3>1, ReviewHolds
  <2>3. review = evaluation.review
    BY <2>1
  <2> HIDE DEF review
  <2> QED BY <1>1, <2>2, <2>3 DEF Screened
<1> QED BY <1>2, <1>3

\* The skills are named once and as important as ever said; a review comes out as
\* it would of a reply without the mistakes that the code can tell, and its score
\* grows with what is found, up to 100.
THEOREM ScreeningIsTheCodes == ScreeningSpec => []Screened
BY ScreeningType, ScreeningTypeScreens, PTL
==============================================================================
