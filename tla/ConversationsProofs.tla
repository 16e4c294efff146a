-------------------------- MODULE ConversationsProofs --------------------------
(***************************************************************************)
(* Proofs about the stored chat, for any number of requests, users,        *)
(* conversations and turns: what the transcript of a conversation looks    *)
(* like, and that replies, audits and deletions are accounted for.         *)
(*                                                                         *)
(* The properties are not inductive: they speak of what is stored, and     *)
(* what will be stored is in the hands of the requests.  The invariant     *)
(* adds what each request knows of its conversation at each point.         *)
(***************************************************************************)
EXTENDS Conversations, FiniteLemmas

Points ==
  {"idle", "number", "ask", "recall", "think", "reply", "answer", "tell", "delete", "forget"}

Asking == {"number", "ask"}

Asked == {"recall", "think", "reply", "answer", "tell"}

\* What a request is about at each point.
PhaseType(r) ==
  /\ phase[r] = "idle" => tx[r] = NoTx
  /\ phase[r] # "idle" => tx[r].conversation \in Conversation /\ tx[r].user \in User
  /\ phase[r] \in Asking \cup Asked => tx[r].turn \in TurnNo
  /\ phase[r] \in {"ask", "answer"} => tx[r].number # 0

TypeInv ==
  /\ drawn \subseteq Conversation /\ dropped \subseteq drawn
  /\ owner \in [Conversation -> User \cup {Nobody}]
  /\ messages \in [Conversation -> SUBSET RowType]
  /\ \A c \in Conversation : IsFiniteSet(messages[c])
  /\ audits \subseteq [turn : TurnNo \cup {0}, conversation : Conversation \cup {Nobody},
                       action : Actions]
  /\ sessions \subseteq Conversation /\ contended \subseteq Conversation
  /\ phase \in [Request -> Points]
  /\ tx \in [Request -> TxType]
  /\ \A r \in Request : PhaseType(r)
  /\ turns \in 0 .. Len(Sizes)
  /\ told \subseteq [turn : TurnNo, conversation : Conversation]

\* An uncontended conversation is used by one request at most.
OneUser ==
  \A c \in Conversation \ contended : \A r, s \in Request :
    tx[r].conversation = c /\ tx[s].conversation = c => r = s

\* Anything that is known of a conversation.
Touched(c) ==
  \/ owner[c] # Nobody \/ messages[c] # {} \/ c \in dropped \/ c \in sessions
  \/ \E t \in told : t.conversation = c
  \/ \E a \in audits : a.conversation = c

\* An identifier is drawn before it is used, and a conversation that is to be
\* stored with its first question is known to nobody else.
DrawnInv ==
  /\ \A c \in Conversation : Touched(c) => c \in drawn
  /\ \A r \in Request : tx[r].conversation \in drawn \cup {Nobody}
  /\ \A r \in Request : tx[r].new =>
       /\ phase[r] \in Asking
       /\ \A c \in Conversation : tx[r].conversation = c => ~Touched(c)
       /\ \A s \in Request : tx[s].conversation = tx[r].conversation => s = r

\* Nothing is left of a conversation that is deleted.
GoneInv ==
  /\ \A c \in Conversation : owner[c] = Nobody => messages[c] = {}
  /\ \A c \in dropped : owner[c] = Nobody
  /\ \A r \in Request : phase[r] = "forget" => owner[tx[r].conversation] = Nobody
  /\ \A c \in dropped \ contended :
       c \notin sessions /\ \A r \in Request : tx[r].conversation # c

\* Between question and reply, the question is in the transcript, with a
\* smaller number than the reply will get.
QuestionInv ==
  \A r \in Request : phase[r] \in Asked /\ owner[tx[r].conversation] # Nobody =>
    \E q \in messages[tx[r].conversation] :
      /\ q.turn = tx[r].turn /\ q.role = "user"
      /\ phase[r] = "answer" => q.sequence_no < tx[r].number

\* A reply that is going to be told is in the transcript.
ReplyInv ==
  \A r \in Request : phase[r] = "tell" /\ owner[tx[r].conversation] # Nobody =>
    Replied(tx[r].turn, tx[r].conversation)

\* The numbers of a conversation have a largest one, and every reply a question.
NumberInv ==
  \A c \in Conversation :
    /\ Numbers(c) # {} => \E n \in Numbers(c) : \A m \in Numbers(c) : m <= n
    /\ \A m \in messages[c] : m.role = "assistant" =>
         \E q \in messages[c] : q.turn = m.turn /\ q.role = "user" /\ q.sequence_no < m.sequence_no

\* A request that has a conversation for itself is about to write its next row,
\* and its own question is the last one.
AloneInv ==
  \A c \in Conversation \ contended :
    /\ Numbers(c) = 1 .. Cardinality(messages[c])
    /\ \A m \in messages[c] : m.role = "assistant" =>
         \E q \in messages[c] :
           q.turn = m.turn /\ q.role = "user" /\ q.sequence_no + 1 = m.sequence_no
    /\ \A r \in Request : tx[r].conversation = c =>
         /\ phase[r] \in {"ask", "answer"} => tx[r].number = Cardinality(messages[c]) + 1
         /\ phase[r] \in Asked \ {"tell"} /\ owner[c] # Nobody =>
              \E q \in messages[c] :
                q.turn = tx[r].turn /\ q.role = "user" /\ q.sequence_no = Cardinality(messages[c])

ChatInv ==
  /\ TypeInv /\ OneUser /\ DrawnInv /\ GoneInv /\ QuestionInv /\ ReplyInv /\ NumberInv /\ AloneInv
  /\ Accounted

-----------------------------------------------------------------------------
(* Facts about the operators.                                              *)

\* What a doubtful answer is audited as.
LEMMA BadAnswersType == BadAnswers \subseteq Actions \cup {"none"}
BY DEF BadAnswers, BadAnswer, Actions

\* A history is made of stored rows.
LEMMA HistoriesType ==
  ASSUME NEW rows, NEW h \in Histories(rows) PROVE h \subseteq rows
BY DEF Histories, Recent

\* Messages are numbered from 1.
LEMMA NumbersType ==
  ASSUME TypeInv, NEW c \in Conversation PROVE Numbers(c) \subseteq Nat \ {0}
BY DEF TypeInv, Numbers, RowType

\* The next number is larger than all numbers of the conversation.
LEMMA NextSequenceLarger ==
  ASSUME TypeInv, NumberInv, NEW c \in Conversation
  PROVE  /\ NextSequence(c) \in Nat \ {0}
         /\ \A n \in Numbers(c) : n < NextSequence(c)
<1>1. CASE Numbers(c) = {}
  BY <1>1 DEF NextSequence
<1>2. CASE Numbers(c) # {}
  <2>1. \E n \in Numbers(c) : \A m \in Numbers(c) : n >= m
    BY <1>2, NumbersType DEF NumberInv
  <2>2. Max(Numbers(c)) \in Numbers(c) /\ \A m \in Numbers(c) : Max(Numbers(c)) >= m
    BY <2>1 DEF Max
  <2> QED BY <1>2, <2>2, NumbersType DEF NextSequence
<1> QED BY <1>1, <1>2

\* Of a conversation whose numbers have no gap it is one more than the rows.
LEMMA NextSequenceAlone ==
  ASSUME TypeInv, NumberInv, NEW c \in Conversation, Numbers(c) = 1 .. Cardinality(messages[c])
  PROVE  NextSequence(c) = Cardinality(messages[c]) + 1
<1> DEFINE n == Cardinality(messages[c])
<1>1. n \in Nat
  BY FS_CardinalityType DEF TypeInv
<1>2. CASE n = 0
  BY <1>2 DEF NextSequence
<1>3. CASE n # 0
  <2> HIDE DEF n
  <2>1. Numbers(c) = 1 .. n /\ n \in 1 .. n
    BY <1>1, <1>3 DEF n
  <2>2. NextSequence(c) = Max(1 .. n) + 1
    BY <2>1 DEF NextSequence
  <2>3. \A x \in 1 .. n : (\A y \in 1 .. n : x >= y) <=> x = n
    BY <1>1, <1>3
  <2>4. Max(1 .. n) = n
    BY <2>1, <2>3 DEF Max
  <2> QED BY <2>2, <2>4 DEF n
<1> QED BY <1>2, <1>3

\* A request at rest holds a transaction record like any other.
LEMMA NoTxType == NoTx \in TxType
BY ConversationAssumption DEF NoTx, TxType

-----------------------------------------------------------------------------
(* Type correctness.                                                       *)

\* A request that ends is at rest, and the others are as before.
LEMMA FinishType ==
  ASSUME TypeInv, NEW r \in Request, Finish(r)
  PROVE  /\ phase' \in [Request -> Points] /\ tx' \in [Request -> TxType]
         /\ phase'[r] = "idle" /\ tx'[r] = NoTx
         /\ \A s \in Request : s # r => phase'[s] = phase[s] /\ tx'[s] = tx[s]
         /\ \A s \in Request : PhaseType(s)'
<1>1. /\ phase' \in [Request -> Points] /\ tx' \in [Request -> TxType]
      /\ phase'[r] = "idle" /\ tx'[r] = NoTx
      /\ \A s \in Request : s # r => phase'[s] = phase[s] /\ tx'[s] = tx[s]
  BY NoTxType DEF Finish, Advance, TypeInv, Points
<1>2. \A s \in Request : PhaseType(s)'
  BY <1>1 DEF TypeInv, PhaseType, Asking, Asked
<1> QED BY <1>1, <1>2

\* A request that goes on: it keeps what it is about.
LEMMA AdvanceType ==
  ASSUME TypeInv, NEW r \in Request, NEW point \in Points, Advance(r, point),
         NEW t \in TxType, tx' = [tx EXCEPT ![r] = t]
  PROVE  /\ phase' \in [Request -> Points] /\ tx' \in [Request -> TxType]
         /\ phase'[r] = point /\ tx'[r] = t
         /\ \A s \in Request : s # r => phase'[s] = phase[s] /\ tx'[s] = tx[s]
         /\ PhaseType(r)' => \A s \in Request : PhaseType(s)'
<1>1. /\ phase' \in [Request -> Points] /\ tx' \in [Request -> TxType]
      /\ phase'[r] = point /\ tx'[r] = t
      /\ \A s \in Request : s # r => phase'[s] = phase[s] /\ tx'[s] = tx[s]
  BY DEF Advance, TypeInv
<1>2. PhaseType(r)' => \A s \in Request : PhaseType(s)'
  BY <1>1 DEF TypeInv, PhaseType
<1> QED BY <1>1, <1>2

\* A new turn gets the next number.
LEMMA NewTurnType ==
  ASSUME TypeInv, NEW r \in Request, NEW u \in User, NEW c \in Conversation, NEW new \in BOOLEAN,
         NewTurn(r, u, c, new), drawn' = drawn \/ drawn' = drawn \cup {c}
  PROVE  TypeInv'
<1> DEFINE t == [NoTx EXCEPT !.turn = turns + 1, !.user = u, !.conversation = c, !.new = new]
<1>1. turns + 1 \in TurnNo /\ turns' = turns + 1 /\ turns' \in 0 .. Len(Sizes)
  BY DEF NewTurn, TurnNo, TypeInv
<1>2. /\ t \in TxType /\ t.turn = turns + 1 /\ t.user = u /\ t.conversation = c
  BY <1>1 DEF NoTx, TxType
<1> HIDE DEF t
<1>3. tx' = [tx EXCEPT ![r] = t]
  BY DEF NewTurn, t
<1>4. "number" \in Points /\ Advance(r, "number")
  BY DEF NewTurn, Points
<1>5. PhaseType(r)'
  BY <1>1, <1>2, <1>3, <1>4, AdvanceType, ZenonT(60) DEF PhaseType, Asking, Asked
<1>6. /\ phase' \in [Request -> Points] /\ tx' \in [Request -> TxType]
      /\ \A s \in Request : PhaseType(s)'
  BY <1>2, <1>3, <1>4, <1>5, AdvanceType
<1>7. contended' \subseteq Conversation
  BY DEF NewTurn, Use, TypeInv
<1> QED BY <1>1, <1>6, <1>7 DEF NewTurn, TypeInv

\* Every statement of a request keeps the types.
LEMMA StepType ==
  ASSUME ChatInv, NEW r \in Request, Step(r)
  PROVE  TypeInv'
<1> USE DEF ChatInv
<1>1. CASE Post(r)
  BY <1>1, NewTurnType DEF Post, FirstMessage, NextMessage
<1>2. CASE ReadNumber(r)
  <2> DEFINE c == tx[r].conversation
             point == IF phase[r] = "number" THEN "ask" ELSE "answer"
             t == [tx[r] EXCEPT !.number = NextSequence(c)]
  <2>1. c \in Conversation /\ tx[r] \in TxType
    BY <1>2 DEF ReadNumber, TypeInv, PhaseType
  <2>2. NextSequence(c) \in Nat \ {0}
    BY <2>1, NextSequenceLarger
  <2>3. t \in TxType /\ t.conversation = c /\ t.user = tx[r].user /\ t.turn = tx[r].turn
        /\ t.number # 0
    BY <2>1, <2>2 DEF TxType
  <2>4. point \in {"ask", "answer"} /\ point \in Points
    BY DEF Points
  <2>5. tx' = [tx EXCEPT ![r] = t] /\ Advance(r, point)
    BY <1>2 DEF ReadNumber, TypeInv, TxType
  <2>6. phase[r] \in {"number", "reply"}
    BY <1>2 DEF ReadNumber
  <2> HIDE DEF t, point
  <2>7. PhaseType(r)'
    BY <2>1, <2>3, <2>4, <2>5, <2>6, AdvanceType, ZenonT(60) DEF PhaseType, TypeInv, Asking, Asked
  <2>8. /\ phase' \in [Request -> Points] /\ tx' \in [Request -> TxType]
        /\ \A s \in Request : PhaseType(s)'
    BY <2>3, <2>4, <2>5, <2>7, AdvanceType
  <2> QED BY <1>2, <2>8 DEF ReadNumber, TypeInv
<1>3. CASE StoreQuestion(r)
  <2>1. CASE Finish(r) /\ UNCHANGED <<owner, messages>>
    BY <1>3, <2>1, FinishType DEF StoreQuestion, TypeInv
  <2>2. CASE ~(Finish(r) /\ UNCHANGED <<owner, messages>>)
    <3> DEFINE c == tx[r].conversation
               t == [tx[r] EXCEPT !.new = FALSE]
    <3>1. /\ c \in Conversation /\ tx[r] \in TxType /\ tx[r].user \in User
          /\ tx[r].turn \in TurnNo /\ tx[r].number \in Nat \ {0}
      BY <1>3 DEF StoreQuestion, TypeInv, PhaseType, Asking, Asked, TxType
    <3>2. Row(r, "user") \in RowType
      BY <3>1 DEF Row, RowType, Sender
    <3>3. messages' \in [Conversation -> SUBSET RowType] /\ owner' \in [Conversation -> User \cup {Nobody}]
      BY <1>3, <2>2, <3>1, <3>2 DEF StoreQuestion, TypeInv
    <3>4. \A d \in Conversation : IsFiniteSet(messages'[d])
      <4>1. \A d \in Conversation :
              messages'[d] = IF d = c THEN messages[d] \cup {Row(r, "user")} ELSE messages[d]
        BY <1>3, <2>2, <3>1 DEF StoreQuestion, TypeInv
      <4>2. IsFiniteSet(messages[c] \cup {Row(r, "user")})
        BY <3>1, FS_AddElement DEF TypeInv
      <4> QED BY <4>1, <4>2 DEF TypeInv
    <3>5. t \in TxType /\ t.conversation = c /\ t.user = tx[r].user /\ t.turn = tx[r].turn
      BY <3>1 DEF TxType
    <3>6. tx' = [tx EXCEPT ![r] = t] /\ Advance(r, "recall") /\ "recall" \in Points
      BY <1>3, <2>2 DEF StoreQuestion, TypeInv, TxType, Points
    <3> HIDE DEF t
    <3>7. PhaseType(r)'
      BY <3>1, <3>5, <3>6, AdvanceType, ZenonT(60) DEF PhaseType, Asking, Asked
    <3>8. /\ phase' \in [Request -> Points] /\ tx' \in [Request -> TxType]
          /\ \A s \in Request : PhaseType(s)'
      BY <3>5, <3>6, <3>7, AdvanceType
    <3> QED BY <1>3, <3>3, <3>4, <3>8 DEF StoreQuestion, TypeInv
  <2> QED BY <2>1, <2>2
<1>4. CASE Recall(r)
  <2>1. PICK h : h \in (IF messages[tx[r].conversation] = {} THEN {{}} ELSE Histories(messages[tx[r].conversation]))
                 /\ tx' = [tx EXCEPT ![r].history = h]
    BY <1>4 DEF Recall
  <2> DEFINE t == [tx[r] EXCEPT !.history = h]
  <2>2. /\ tx[r].conversation \in Conversation /\ tx[r] \in TxType /\ tx[r].user \in User
        /\ tx[r].turn \in TurnNo
    BY <1>4 DEF Recall, TypeInv, PhaseType, Asking, Asked
  <2>3. h \in SUBSET RowType
    BY <2>1, <2>2, HistoriesType DEF TypeInv
  <2>4. t \in TxType /\ t.conversation = tx[r].conversation /\ t.user = tx[r].user /\ t.turn = tx[r].turn
    BY <2>2, <2>3 DEF TxType
  <2>5. tx' = [tx EXCEPT ![r] = t] /\ Advance(r, "think") /\ "think" \in Points
    BY <1>4, <2>1 DEF Recall, TypeInv, TxType, Points
  <2> HIDE DEF t
  <2>6. PhaseType(r)'
    BY <2>2, <2>4, <2>5, AdvanceType, ZenonT(60) DEF PhaseType, Asking, Asked
  <2>7. /\ phase' \in [Request -> Points] /\ tx' \in [Request -> TxType]
        /\ \A s \in Request : PhaseType(s)'
    BY <2>4, <2>5, <2>6, AdvanceType
  <2> QED BY <1>4, <2>7 DEF Recall, TypeInv
<1>5. CASE Think(r)
  <2>1. PICK v \in Actions \cup {"none"} :
          tx' = [tx EXCEPT ![r] = [tx[r] EXCEPT !.audit = v, !.history = {}]]
    <3>1. tx[r] \in TxType
      BY DEF TypeInv
    <3>2. CASE tx' = [tx EXCEPT ![r].history = {}]
      <4>1. tx[r].audit \in Actions \cup {"none"}
        BY <3>1 DEF TxType
      <4>2. [tx[r] EXCEPT !.history = {}] = [tx[r] EXCEPT !.audit = tx[r].audit, !.history = {}]
        BY <3>1 DEF TxType
      <4>3. tx' = [tx EXCEPT ![r] = [tx[r] EXCEPT !.audit = tx[r].audit, !.history = {}]]
        BY <3>2, <4>2
      <4> QED BY <4>1, <4>3
    <3>3. CASE \E v \in BadAnswers : tx' = [tx EXCEPT ![r].audit = v, ![r].history = {}]
      <4>1. PICK v \in BadAnswers : tx' = [tx EXCEPT ![r].audit = v, ![r].history = {}]
        BY <3>3
      <4>2. tx' = [tx EXCEPT ![r] = [tx[r] EXCEPT !.audit = v, !.history = {}]]
        BY <4>1, <3>1 DEF TypeInv, TxType
      <4> QED BY <4>1, <4>2, BadAnswersType
    <3> QED BY <1>5, <3>2, <3>3 DEF Think
  <2> DEFINE t == [tx[r] EXCEPT !.audit = v, !.history = {}]
  <2>2. /\ tx[r].conversation \in Conversation /\ tx[r] \in TxType /\ tx[r].user \in User
        /\ tx[r].turn \in TurnNo
    BY <1>5 DEF Think, TypeInv, PhaseType, Asking, Asked
  <2>3. t \in TxType /\ t.conversation = tx[r].conversation /\ t.user = tx[r].user /\ t.turn = tx[r].turn
    BY <2>1, <2>2 DEF TxType
  <2>4. tx' = [tx EXCEPT ![r] = t] /\ Advance(r, "reply") /\ "reply" \in Points
    BY <1>5, <2>1 DEF Think, Points
  <2> HIDE DEF t
  <2>5. PhaseType(r)'
    BY <2>2, <2>3, <2>4, AdvanceType, ZenonT(60) DEF PhaseType, Asking, Asked
  <2>6. /\ phase' \in [Request -> Points] /\ tx' \in [Request -> TxType]
        /\ \A s \in Request : PhaseType(s)'
    BY <2>3, <2>4, <2>5, AdvanceType
  <2>7. sessions' \subseteq Conversation
    BY <1>5, <2>2 DEF Think, TypeInv
  <2> QED BY <1>5, <2>6, <2>7 DEF Think, TypeInv
<1>6. CASE StoreReply(r)
  <2>1. CASE Finish(r) /\ UNCHANGED <<messages, audits>>
    BY <1>6, <2>1, FinishType DEF StoreReply, TypeInv
  <2>2. CASE ~(Finish(r) /\ UNCHANGED <<messages, audits>>)
    <3> DEFINE c == tx[r].conversation
    <3>1. /\ c \in Conversation /\ tx[r] \in TxType /\ tx[r].user \in User
          /\ tx[r].turn \in TurnNo /\ tx[r].number \in Nat \ {0} /\ tx[r].audit \in Actions \cup {"none"}
      BY <1>6 DEF StoreReply, TypeInv, PhaseType, Asking, Asked, TxType
    <3>2. Row(r, "assistant") \in RowType
      BY <3>1 DEF Row, RowType, Sender
    <3>3. messages' \in [Conversation -> SUBSET RowType]
      BY <1>6, <2>2, <3>1, <3>2 DEF StoreReply, TypeInv
    <3>4. \A d \in Conversation : IsFiniteSet(messages'[d])
      <4>1. \A d \in Conversation :
              messages'[d] = IF d = c THEN messages[d] \cup {Row(r, "assistant")} ELSE messages[d]
        BY <1>6, <2>2, <3>1 DEF StoreReply, TypeInv
      <4>2. IsFiniteSet(messages[c] \cup {Row(r, "assistant")})
        BY <3>1, FS_AddElement DEF TypeInv
      <4> QED BY <4>1, <4>2 DEF TypeInv
    <3>5. audits' \subseteq [turn : TurnNo \cup {0}, conversation : Conversation \cup {Nobody}, action : Actions]
      BY <1>6, <2>2, <3>1 DEF StoreReply, Audit, TypeInv
    <3>6. tx' = tx /\ Advance(r, "tell") /\ "tell" \in Points
      BY <1>6, <2>2 DEF StoreReply, Points
    <3>7. phase' \in [Request -> Points] /\ \A s \in Request : PhaseType(s)'
      BY <3>1, <3>6 DEF Advance, TypeInv, PhaseType, Asking, Asked
    <3> QED BY <1>6, <3>3, <3>4, <3>5, <3>6, <3>7 DEF StoreReply, TypeInv
  <2> QED BY <2>1, <2>2
<1>7. CASE Tell(r)
  <2>1. [turn |-> tx[r].turn, conversation |-> tx[r].conversation] \in [turn : TurnNo, conversation : Conversation]
    BY <1>7 DEF Tell, TypeInv, PhaseType, Asking, Asked
  <2> QED BY <1>7, <2>1, FinishType DEF Tell, TypeInv
<1>8. ASSUME NEW u \in User, NEW c \in Conversation, DeleteRequest(r, u, c)
      PROVE  TypeInv'
  <2> DEFINE t == [NoTx EXCEPT !.user = u, !.conversation = c]
  <2>1. t \in TxType /\ t.user = u /\ t.conversation = c
    BY NoTxType DEF NoTx, TxType
  <2>2. tx' = [tx EXCEPT ![r] = t] /\ Advance(r, "delete") /\ "delete" \in Points
    BY <1>8 DEF DeleteRequest, Points
  <2> HIDE DEF t
  <2>3. PhaseType(r)'
    <3>1. phase'[r] = "delete" /\ tx'[r] = t
      BY <2>1, <2>2, AdvanceType
    <3> QED BY <2>1, <3>1 DEF PhaseType, Asking, Asked
  <2>4. /\ phase' \in [Request -> Points] /\ tx' \in [Request -> TxType]
        /\ \A s \in Request : PhaseType(s)'
    BY <2>1, <2>2, <2>3, AdvanceType
  <2>5. contended' \subseteq Conversation
    BY <1>8 DEF DeleteRequest, Use, TypeInv
  <2> QED BY <1>8, <2>4, <2>5 DEF DeleteRequest, TypeInv
<1>9. CASE Delete(r)
  <2>1. phase' \in [Request -> Points] /\ \A s \in Request : PhaseType(s)'
    BY <1>9 DEF Delete, Advance, TypeInv, PhaseType, Points, Asking, Asked
  <2>2. \A d \in Conversation : IsFiniteSet(messages'[d])
    BY <1>9, FS_EmptySet DEF Delete, TypeInv
  <2> QED BY <1>9, <2>1, <2>2 DEF Delete, TypeInv
<1>10. CASE Forget(r)
  <2>1. tx[r].conversation \in drawn
    BY <1>10, ConversationAssumption DEF Forget, TypeInv, PhaseType, DrawnInv
  <2> QED BY <1>10, <2>1, FinishType DEF Forget, TypeInv
<1>11. CASE Abort(r)
  BY <1>11, FinishType DEF Abort, TypeInv
<1> QED BY <1>1, <1>2, <1>3, <1>4, <1>5, <1>6, <1>7, <1>8, <1>9, <1>10, <1>11 DEF Step
-----------------------------------------------------------------------------
(* Steps that only end a request, and steps that only move it on.           *)

\* What the invariant says of a request ends with it.
LEMMA FinishKeeps ==
  ASSUME ChatInv, NEW r \in Request, Finish(r), UNCHANGED <<owner, messages, contended>>
  PROVE  OneUser' /\ QuestionInv' /\ ReplyInv' /\ NumberInv' /\ AloneInv'
<1> USE DEF ChatInv
<1>1. /\ phase'[r] = "idle" /\ tx'[r].conversation = Nobody /\ tx'[r].new = FALSE
      /\ \A s \in Request : s # r => phase'[s] = phase[s] /\ tx'[s] = tx[s]
  BY FinishType DEF NoTx
<1>2. owner' = owner /\ messages' = messages /\ contended' = contended
      /\ \A c \in Conversation : Numbers(c)' = Numbers(c)
  BY DEF Numbers
<1>3. OneUser'
  BY <1>1, <1>2, ConversationAssumption DEF OneUser
<1>4. QuestionInv'
  BY <1>1, <1>2 DEF QuestionInv, Asked
<1>5. ReplyInv'
  BY <1>1, <1>2 DEF ReplyInv, Replied
<1>6. NumberInv'
  BY <1>2 DEF NumberInv
<1>7. AloneInv'
  BY <1>1, <1>2, ConversationAssumption DEF AloneInv
<1> QED BY <1>3, <1>4, <1>5, <1>6, <1>7

\* A request that goes on knows of its conversation what it knew before, and
\* the number it has read, if it has read one, is a good one.
LEMMA AdvanceKeeps ==
  ASSUME ChatInv, TypeInv', NEW r \in Request,
         \A s \in Request : s # r => phase'[s] = phase[s] /\ tx'[s] = tx[s],
         tx'[r].conversation = tx[r].conversation, tx'[r].turn = tx[r].turn, tx'[r].new = tx[r].new,
         phase[r] \in Asking => phase'[r] \in Asking,
         phase[r] \in Asking \cup (Asked \ {"tell"}),
         phase'[r] \in Asked => phase[r] \in Asked,
         phase'[r] \notin {"tell", "forget"},
         phase'[r] \in {"ask", "answer"} =>
           /\ \A n \in Numbers(tx[r].conversation) : n < tx'[r].number
           /\ tx[r].conversation \notin contended =>
                tx'[r].number = Cardinality(messages[tx[r].conversation]) + 1,
         UNCHANGED <<drawn, owner, messages, audits, told, dropped, contended>>,
         sessions' \subseteq sessions \cup {tx[r].conversation},
         phase[r] \in Asking => sessions' = sessions
  PROVE  ChatInv'
<1> USE DEF ChatInv
<1> DEFINE c == tx[r].conversation
<1>1. owner' = owner /\ messages' = messages /\ contended' = contended /\ drawn' = drawn
      /\ audits' = audits /\ told' = told /\ dropped' = dropped
      /\ \A d \in Conversation : Numbers(d)' = Numbers(d)
  BY DEF Numbers
<1>2. c \in Conversation /\ c \in drawn
  BY ConversationAssumption DEF TypeInv, PhaseType, Asking, Asked, DrawnInv
<1>3. OneUser'
  BY <1>1 DEF OneUser
<1>4. DrawnInv'
  BY <1>1, <1>2 DEF DrawnInv, Touched, Asking, Asked
<1>5. GoneInv'
  BY <1>1, <1>2 DEF GoneInv
<1>6. QuestionInv'
  BY <1>1, <1>2 DEF QuestionInv, Numbers
<1>7. ReplyInv'
  BY <1>1 DEF ReplyInv, Replied
<1>8. NumberInv'
  BY <1>1 DEF NumberInv
<1>9. AloneInv'
  BY <1>1, <1>2 DEF AloneInv, Asked, Asking
<1>10. Accounted'
  BY <1>1, <1>2 DEF Accounted, Replied, GoneInv
<1> QED BY <1>3, <1>4, <1>5, <1>6, <1>7, <1>8, <1>9, <1>10

-----------------------------------------------------------------------------
(* The steps that begin something: a turn or a deletion.                    *)

\* The conversation of a request that begins is contended unless nobody uses it.
LEMMA BeginKeeps ==
  ASSUME ChatInv, TypeInv', NEW r \in Request, NEW c \in Conversation, Use(r, c),
         \A s \in Request : s # r => phase'[s] = phase[s] /\ tx'[s] = tx[s],
         phase[r] = "idle", tx'[r].conversation = c, phase'[r] \in {"number", "delete"},
         tx'[r].new => c \notin drawn /\ phase'[r] = "number",
         ~tx'[r].new => owner[c] # Nobody, drawn' = drawn \cup {c},
         UNCHANGED <<owner, messages, audits, sessions, told, dropped>>
  PROVE  ChatInv'
<1> USE DEF ChatInv
<1>1. owner' = owner /\ messages' = messages /\ audits' = audits /\ sessions' = sessions
      /\ told' = told /\ dropped' = dropped
      /\ \A d \in Conversation : Numbers(d)' = Numbers(d)
  BY DEF Numbers
<1>2. /\ contended \subseteq contended'
      /\ c \notin contended' => \A s \in Request : s # r => tx[s].conversation # c
  BY DEF Use
<1>3. tx[r].conversation = Nobody /\ tx[r].new = FALSE
  BY DEF TypeInv, PhaseType, NoTx
<1>4. c \notin dropped
  <2>1. CASE tx'[r].new
    BY <2>1 DEF TypeInv
  <2>2. CASE ~tx'[r].new
    BY <2>2 DEF GoneInv
  <2> QED BY <2>1, <2>2
<1>5. OneUser'
  BY <1>2 DEF OneUser
<1>6. DrawnInv'
  <2>1. \A d \in Conversation : Touched(d)' = Touched(d)
    BY <1>1 DEF Touched
  <2>2. \A d \in Conversation : Touched(d)' => d \in drawn'
    BY <2>1 DEF DrawnInv
  <2>3. \A s \in Request : tx'[s].conversation \in drawn' \cup {Nobody}
    BY DEF DrawnInv
  <2>4. ASSUME NEW s \in Request, tx'[s].new
        PROVE  /\ phase'[s] \in Asking
               /\ \A d \in Conversation : tx'[s].conversation = d => ~Touched(d)'
               /\ \A q \in Request : tx'[q].conversation = tx'[s].conversation => q = s
    <3>1. CASE s = r
      <4>1. c \notin drawn /\ phase'[r] = "number"
        BY <2>4, <3>1
      <4>2. \A q \in Request : q # r => tx[q].conversation # c
        BY <4>1, ConversationAssumption DEF DrawnInv
      <4>3. ~Touched(c)'
        BY <4>1, <2>1 DEF DrawnInv
      <4> QED BY <3>1, <4>1, <4>2, <4>3 DEF Asking
    <3>2. CASE s # r
      <4>1. /\ phase[s] \in Asking
            /\ \A d \in Conversation : tx[s].conversation = d => ~Touched(d)
            /\ \A q \in Request : tx[q].conversation = tx[s].conversation => q = s
        BY <3>2, <2>4 DEF DrawnInv
      <4>2. tx[s].conversation \in Conversation /\ tx[s].conversation \in drawn
        BY <4>1, ConversationAssumption DEF TypeInv, PhaseType, Asking, DrawnInv
      <4>3. tx[s].conversation # c
        BY <4>1, <4>2, <2>4 DEF Touched
      <4> QED BY <4>1, <4>2, <4>3, <3>2, <2>1
    <3> QED BY <3>1, <3>2
  <2> QED BY <2>2, <2>3, <2>4 DEF DrawnInv
<1>7. GoneInv'
  BY <1>1, <1>2, <1>4 DEF GoneInv
<1>8. QuestionInv'
  BY <1>1 DEF QuestionInv, Asked
<1>9. ReplyInv'
  BY <1>1 DEF ReplyInv, Replied
<1>10. NumberInv'
  BY <1>1 DEF NumberInv
<1>11. AloneInv'
  BY <1>1, <1>2 DEF AloneInv, Asked
<1>12. Accounted'
  BY <1>1, <1>2, <1>4 DEF Accounted, Replied
<1> QED BY <1>5, <1>6, <1>7, <1>8, <1>9, <1>10, <1>11, <1>12

-----------------------------------------------------------------------------
(* The steps that store a row, the question or the reply.                   *)

\* A question or a reply is stored: by far the most that a statement changes.
LEMMA StoreKeeps ==
  ASSUME ChatInv, TypeInv', NEW r \in Request, NEW role \in Sender, Exists(r),
         \A s \in Request : s # r => phase'[s] = phase[s] /\ tx'[s] = tx[s],
         tx'[r].conversation = tx[r].conversation, tx'[r].turn = tx[r].turn, tx'[r].new = FALSE,
         \/ phase[r] = "ask" /\ role = "user" /\ phase'[r] = "recall" /\ audits' = audits
         \/ phase[r] = "answer" /\ role = "assistant" /\ phase'[r] = "tell"
            /\ audits' = audits \cup Audit(r),
         messages' = [messages EXCEPT ![tx[r].conversation] = @ \cup {Row(r, role)}],
         owner' = [owner EXCEPT ![tx[r].conversation] = owner'[tx[r].conversation]],
         owner'[tx[r].conversation] # Nobody,
         UNCHANGED <<drawn, sessions, told, dropped, contended>>
  PROVE  ChatInv'
<1> USE DEF ChatInv
<1>1. PICK c, m : c = tx[r].conversation /\ m = Row(r, role)
  OBVIOUS
<1>2. /\ c \in Conversation /\ c \in drawn
      /\ tx[r].conversation = c /\ tx'[r].conversation = c
  BY <1>1, ConversationAssumption DEF TypeInv, PhaseType, Asking, Asked, DrawnInv
<1>3. m.turn = tx[r].turn /\ m.role = role /\ m.sequence_no = tx[r].number
  BY <1>1 DEF Row
<1>4. tx[r].number \in Nat \ {0}
  BY DEF TypeInv, PhaseType, TxType
<1>5. /\ messages'[c] = messages[c] \cup {m}
      /\ \A d \in Conversation : d # c => messages'[d] = messages[d]
  BY <1>1, <1>2 DEF TypeInv
<1>6. /\ Numbers(c)' = Numbers(c) \cup {tx[r].number}
       /\ \A d \in Conversation : d # c => Numbers(d)' = Numbers(d)
  BY <1>3, <1>5 DEF Numbers
<1>7. drawn' = drawn /\ sessions' = sessions /\ told' = told /\ dropped' = dropped
      /\ contended' = contended
  OBVIOUS
<1>8. /\ owner'[c] # Nobody
      /\ \A d \in Conversation : d # c => owner'[d] = owner[d]
  BY <1>1, <1>2 DEF TypeInv
\* A conversation that appears only now was known to nobody.
<1>9. owner[c] = Nobody =>
        ~Touched(c) /\ \A s \in Request : tx[s].conversation = c => s = r
  BY <1>2 DEF Exists, DrawnInv
<1>10. c \notin dropped /\ \A s \in Request : phase[s] = "forget" => tx[s].conversation # c
  BY <1>9 DEF GoneInv, Touched
<1>11. OneUser'
  BY <1>7 DEF OneUser
<1>12. DrawnInv'
  <2>1. \A d \in Conversation : d # c => (Touched(d)' => Touched(d))
    BY <1>5, <1>7, <1>8 DEF Touched, Audit
  <2>2. ASSUME NEW s \in Request, tx'[s].new PROVE s # r /\ tx[s].conversation # c
    <3>1. s # r /\ tx[s].new
      BY <2>2
    <3> QED BY <3>1, <1>2 DEF DrawnInv
  <2>3. \A s \in Request : tx'[s].new => tx[s].conversation \in Conversation
    BY DEF DrawnInv, TypeInv, PhaseType, Asking
  <2> QED BY <1>2, <1>7, <2>1, <2>2, <2>3 DEF DrawnInv
<1>13. GoneInv'
  <2>1. \A d \in Conversation : owner'[d] = Nobody => messages'[d] = {}
    BY <1>5, <1>8 DEF GoneInv
  <2>2. \A d \in dropped' : owner'[d] = Nobody
    BY <1>7, <1>8, <1>10 DEF GoneInv, TypeInv
  <2>3. ASSUME NEW s \in Request, phase'[s] = "forget" PROVE owner'[tx'[s].conversation] = Nobody
    <3>1. s # r /\ phase[s] = "forget" /\ tx'[s] = tx[s]
      BY <2>3
    <3>2. tx[s].conversation \in Conversation /\ tx[s].conversation # c
      BY <3>1, <1>10 DEF TypeInv, PhaseType
    <3> QED BY <3>1, <3>2, <1>8 DEF GoneInv
  <2>4. \A d \in dropped' \ contended' :
          d \notin sessions' /\ \A s \in Request : tx'[s].conversation # d
    BY <1>7 DEF GoneInv
  <2> QED BY <2>1, <2>2, <2>3, <2>4 DEF GoneInv
<1>14. QuestionInv'
  <2> SUFFICES ASSUME NEW s \in Request, phase'[s] \in Asked, owner'[tx'[s].conversation] # Nobody
               PROVE  \E q \in messages'[tx'[s].conversation] :
                        /\ q.turn = tx'[s].turn /\ q.role = "user"
                        /\ phase'[s] = "answer" => q.sequence_no < tx'[s].number
    BY DEF QuestionInv
  <2>1. CASE s # r
    <3>1. /\ phase[s] \in Asked /\ tx'[s] = tx[s] /\ phase'[s] = phase[s]
          /\ tx[s].conversation \in Conversation
      BY <2>1 DEF TypeInv, PhaseType, Asked
    <3>2. owner[tx[s].conversation] # Nobody
      BY <2>1, <3>1, <1>8, <1>9
    <3>3. messages[tx[s].conversation] \subseteq messages'[tx[s].conversation]
      BY <3>1, <1>5
    <3> QED BY <3>1, <3>2, <3>3 DEF QuestionInv
  <2>2. CASE s = r /\ role = "user"
    <3>1. m.turn = tx'[s].turn
      BY <2>2, <1>3
    <3>2. m.role = "user"
      BY <2>2, <1>3
    <3>3. phase'[s] # "answer"
      BY <2>2
    <3>4. tx'[s].conversation = c
      BY <2>2, <1>2
    <3> QED BY <3>1, <3>2, <3>3, <3>4, <1>5
  <2>3. CASE s = r /\ role = "assistant"
    <3>1. phase[r] = "answer" /\ phase'[r] = "tell" /\ owner[c] # Nobody
      BY <2>3, <1>2 DEF DrawnInv, Exists, Asking
    <3> QED BY <2>3, <3>1, <1>2, <1>5 DEF QuestionInv, Asked
  <2> QED BY <2>1, <2>2, <2>3 DEF Sender
<1>15. ReplyInv'
  <2> SUFFICES ASSUME NEW s \in Request, phase'[s] = "tell", owner'[tx'[s].conversation] # Nobody
               PROVE  \E q \in messages'[tx'[s].conversation] : q.turn = tx'[s].turn /\ q.role = "assistant"
    BY DEF ReplyInv, Replied
  <2>1. CASE s # r
    <3>1. /\ phase[s] = "tell" /\ tx'[s] = tx[s] /\ tx[s].conversation \in Conversation
      BY <2>1 DEF TypeInv, PhaseType
    <3>2. owner[tx[s].conversation] # Nobody
      BY <2>1, <3>1, <1>8, <1>9
    <3> QED BY <3>1, <3>2, <1>5 DEF ReplyInv, Replied
  <2>2. CASE s = r
    BY <2>2, <1>2, <1>3, <1>5
  <2> QED BY <2>1, <2>2
\* The question of a reply that is stored now.
<1>16. role = "assistant" =>
         \E q \in messages[c] :
           /\ q.turn = m.turn /\ q.role = "user" /\ q.sequence_no < m.sequence_no
           /\ c \notin contended => q.sequence_no + 1 = m.sequence_no
  <2> SUFFICES ASSUME role = "assistant"
               PROVE  \E q \in messages[c] :
                        /\ q.turn = m.turn /\ q.role = "user" /\ q.sequence_no < m.sequence_no
                        /\ c \notin contended => q.sequence_no + 1 = m.sequence_no
    OBVIOUS
  <2>1. phase[r] = "answer" /\ owner[c] # Nobody
    BY <1>2 DEF DrawnInv, Exists, Asking
  <2>2. CASE c \in contended
    BY <2>1, <2>2, <1>2, <1>3 DEF QuestionInv, Asked
  <2>3. CASE c \notin contended
    <3>1. PICK q \in messages[c] :
            q.turn = tx[r].turn /\ q.role = "user" /\ q.sequence_no = Cardinality(messages[c])
      BY <2>1, <2>3, <1>2 DEF AloneInv, Asked
    <3>2. tx[r].number = Cardinality(messages[c]) + 1 /\ Cardinality(messages[c]) \in Nat
      BY <2>1, <2>3, <1>2, FS_CardinalityType DEF AloneInv, TypeInv
    <3> QED BY <3>1, <3>2, <1>3
  <2> QED BY <2>2, <2>3
<1>17. NumberInv'
  <2>1. ASSUME NEW d \in Conversation
        PROVE  Numbers(d)' # {} => \E n \in Numbers(d)' : \A k \in Numbers(d)' : k <= n
    <3>1. CASE d # c
      BY <3>1, <1>5, <1>6 DEF NumberInv
    <3>2. CASE d = c /\ Numbers(c) = {}
      BY <3>2, <1>4, <1>5, <1>6
    <3>3. CASE d = c /\ Numbers(c) # {}
      <4>1. PICK n \in Numbers(c) : \A k \in Numbers(c) : k <= n
        BY <3>3 DEF NumberInv
      <4>2. n \in Nat /\ Numbers(c) \subseteq Nat
        BY <1>2, <4>1, NumbersType
      <4> QED BY <3>3, <4>1, <4>2, <1>4, <1>5, <1>6
    <3> QED BY <3>1, <3>2, <3>3
  <2>2. ASSUME NEW d \in Conversation, NEW a \in messages'[d], a.role = "assistant"
        PROVE  \E q \in messages'[d] : q.turn = a.turn /\ q.role = "user" /\ q.sequence_no < a.sequence_no
    <3>1. CASE a \in messages[d]
      BY <2>2, <3>1, <1>5 DEF NumberInv
    <3>2. CASE a \notin messages[d]
      <4>1. d = c /\ a = m /\ role = "assistant"
        BY <2>2, <3>2, <1>3, <1>5
      <4> QED BY <4>1, <1>16, <1>5
    <3> QED BY <3>1, <3>2
  <2> QED BY <2>1, <2>2 DEF NumberInv
<1>18. AloneInv'
  <2> SUFFICES ASSUME NEW d \in Conversation \ contended
               PROVE  /\ Numbers(d)' = 1 .. Cardinality(messages'[d])
                      /\ \A a \in messages'[d] : a.role = "assistant" =>
                           \E q \in messages'[d] :
                             q.turn = a.turn /\ q.role = "user" /\ q.sequence_no + 1 = a.sequence_no
                      /\ \A s \in Request : tx'[s].conversation = d =>
                           /\ phase'[s] \in {"ask", "answer"} =>
                                tx'[s].number = Cardinality(messages'[d]) + 1
                           /\ phase'[s] \in Asked \ {"tell"} /\ owner'[d] # Nobody =>
                                \E q \in messages'[d] :
                                  /\ q.turn = tx'[s].turn /\ q.role = "user"
                                  /\ q.sequence_no = Cardinality(messages'[d])
    BY <1>7 DEF AloneInv
  <2>1. CASE d # c
    <3>1. messages'[d] = messages[d] /\ Numbers(d)' = Numbers(d) /\ owner'[d] = owner[d]
      BY <2>1, <1>5, <1>6, <1>8
    <3>2. \A s \in Request : tx'[s].conversation = d => tx'[s] = tx[s] /\ phase'[s] = phase[s]
      BY <2>1, <1>2
    <3> QED BY <3>1, <3>2 DEF AloneInv
  <2>2. CASE d = c
    <3> DEFINE k == Cardinality(messages[c])
    <3>1. k \in Nat /\ tx[r].number = k + 1 /\ Numbers(c) = 1 .. k /\ c \notin contended
      BY <2>2, <1>2, FS_CardinalityType DEF AloneInv, TypeInv
    <3>2. m \notin messages[c]
      <4>1. k + 1 \notin Numbers(c)
        BY <3>1
      <4> QED BY <4>1, <3>1, <1>3 DEF Numbers
    <3>3. Cardinality(messages'[c]) = k + 1
      <4>1. Cardinality(messages[c] \cup {m}) = k + 1
        BY <3>2, <1>2, FS_AddElement DEF TypeInv
      <4> QED BY <4>1, <1>2, <1>5
    <3>4. Numbers(c)' = 1 .. (k + 1)
      <4> HIDE DEF k
      <4>1. (1 .. k) \cup {k + 1} = 1 .. (k + 1)
        BY <3>1
      <4> QED BY <4>1, <3>1, <1>2, <1>5, <1>6
    <3>5. ASSUME NEW a \in messages'[c], a.role = "assistant"
          PROVE  \E q \in messages'[c] :
                   q.turn = a.turn /\ q.role = "user" /\ q.sequence_no + 1 = a.sequence_no
      <4>1. CASE a \in messages[c]
        BY <3>1, <3>5, <4>1, <1>2, <1>5 DEF AloneInv
      <4>2. CASE a \notin messages[c]
        <5>1. a = m /\ role = "assistant"
          BY <3>5, <4>2, <1>2, <1>3, <1>5
        <5> QED BY <5>1, <3>1, <1>16, <1>2, <1>5
      <4> QED BY <4>1, <4>2
    <3>6. ASSUME NEW s \in Request, tx'[s].conversation = c
          PROVE  /\ phase'[s] \notin {"ask", "answer"}
                 /\ phase'[s] \in Asked \ {"tell"} =>
                      \E q \in messages'[c] :
                        q.turn = tx'[s].turn /\ q.role = "user" /\ q.sequence_no = k + 1
      <4>1. s = r
        BY <3>1, <3>6, <1>2 DEF OneUser
      <4> QED BY <4>1, <3>1, <1>2, <1>3, <1>5
    <3> HIDE DEF k
    <3>7. Numbers(d)' = 1 .. Cardinality(messages'[d])
      BY <2>2, <3>3, <3>4
    <3>8. ASSUME NEW s \in Request, tx'[s].conversation = d
          PROVE  /\ phase'[s] \notin {"ask", "answer"}
                 /\ phase'[s] \in Asked \ {"tell"} =>
                      \E q \in messages'[d] :
                        /\ q.turn = tx'[s].turn /\ q.role = "user"
                        /\ q.sequence_no = Cardinality(messages'[d])
      BY <2>2, <3>3, <3>6, <3>8
    <3>9. \A a \in messages'[d] : a.role = "assistant" =>
            \E q \in messages'[d] :
              q.turn = a.turn /\ q.role = "user" /\ q.sequence_no + 1 = a.sequence_no
      BY <2>2, <3>5
    <3>10. \A s \in Request : tx'[s].conversation = d =>
             /\ phase'[s] \in {"ask", "answer"} => tx'[s].number = Cardinality(messages'[d]) + 1
             /\ phase'[s] \in Asked \ {"tell"} /\ owner'[d] # Nobody =>
                  \E q \in messages'[d] :
                    /\ q.turn = tx'[s].turn /\ q.role = "user"
                    /\ q.sequence_no = Cardinality(messages'[d])
      BY <3>8
    <3> QED BY <3>7, <3>9, <3>10
  <2> QED BY <2>1, <2>2
<1>19. Accounted'
  <2>1. ASSUME NEW n \in TurnNo \cup {0}, NEW d \in Conversation, Replied(n, d) PROVE Replied(n, d)'
    BY <2>1, <1>5 DEF Replied
  <2>2. ASSUME NEW t \in told', owner'[t.conversation] # Nobody PROVE Replied(t.turn, t.conversation)'
    <3>1. t \in told /\ t.turn \in TurnNo /\ t.conversation \in Conversation
      BY <1>7 DEF TypeInv
    <3>2. owner[t.conversation] # Nobody
      BY <2>2, <3>1, <1>8, <1>9 DEF Touched
    <3> QED BY <2>1, <3>1, <3>2 DEF Accounted
  <2>3. ASSUME NEW a \in audits', a.conversation # Nobody, owner'[a.conversation] # Nobody
        PROVE  Replied(a.turn, a.conversation)'
    <3>1. CASE a \in audits
      <4>1. a.turn \in TurnNo \cup {0} /\ a.conversation \in Conversation
        BY <2>3, <3>1 DEF TypeInv
      <4>2. owner[a.conversation] # Nobody
        BY <2>3, <3>1, <4>1, <1>8, <1>9 DEF Touched
      <4> QED BY <2>1, <2>3, <3>1, <4>1, <4>2 DEF Accounted
    <3>2. CASE a \notin audits
      <4>1. a \in Audit(r) /\ role = "assistant"
        BY <2>3, <3>2
      <4>2. a.turn = tx[r].turn /\ a.conversation = c
        BY <4>1, <1>2 DEF Audit
      <4> QED BY <4>1, <4>2, <1>2, <1>3, <1>5 DEF Replied
    <3> QED BY <3>1, <3>2
  <2>4. ASSUME NEW d \in dropped'
        PROVE  owner'[d] = Nobody /\ messages'[d] = {} /\ (d \notin contended' => d \notin sessions')
    BY <1>5, <1>7, <1>8, <1>10 DEF Accounted, TypeInv
  <2> QED BY <2>2, <2>3, <2>4 DEF Accounted
<1> QED BY <1>11, <1>12, <1>13, <1>14, <1>15, <1>17, <1>18, <1>19

-----------------------------------------------------------------------------
(* The invariant holds in every reachable state.                            *)

\* At first nothing is stored and nobody is at work.
LEMMA InitChat == InitConversations => ChatInv
<1> SUFFICES ASSUME InitConversations PROVE ChatInv
  OBVIOUS
<1> USE DEF InitConversations
<1>1. TypeInv
  <2>1. tx \in [Request -> TxType]
    BY NoTxType
  <2>2. messages \in [Conversation -> SUBSET RowType] /\ \A c \in Conversation : IsFiniteSet(messages[c])
    BY FS_EmptySet
  <2>3. turns \in 0 .. Len(Sizes)
    BY ConversationAssumption
  <2>4. \A r \in Request : PhaseType(r)
    BY DEF PhaseType, Asking, Asked
  <2> QED BY <2>1, <2>2, <2>3, <2>4 DEF TypeInv, Points
<1>2. \A r \in Request : tx[r].conversation = Nobody /\ tx[r].new = FALSE /\ phase[r] = "idle"
  BY DEF NoTx
<1>3. \A c \in Conversation : messages[c] = {} /\ Numbers(c) = {} /\ owner[c] = Nobody
  BY DEF Numbers
<1>4. OneUser /\ DrawnInv
  BY <1>2, <1>3, ConversationAssumption DEF OneUser, DrawnInv, Touched
<1>5. GoneInv /\ QuestionInv /\ ReplyInv
  BY <1>2, <1>3 DEF GoneInv, QuestionInv, ReplyInv, Asked
<1>6. NumberInv
  BY <1>3 DEF NumberInv
<1>7. AloneInv
  <2>1. \A c \in Conversation : Numbers(c) = 1 .. Cardinality(messages[c])
    <3>1. Cardinality({}) = 0
      BY FS_EmptySet
    <3>2. 1 .. 0 = {}
      OBVIOUS
    <3> QED BY <1>3, <3>1, <3>2
  <2> QED BY <1>2, <1>3, <2>1 DEF AloneInv, Asked
<1>8. Accounted
  BY DEF Accounted
<1> QED BY <1>1, <1>4, <1>5, <1>6, <1>7, <1>8 DEF ChatInv

\* A request that breaks off, is refused, or has its reply told.
LEMMA EndKeeps ==
  ASSUME ChatInv, TypeInv', NEW r \in Request, Finish(r),
         NEW t, t.turn = tx[r].turn, t.conversation = tx[r].conversation,
         told' = told \/ (phase[r] = "tell" /\ told' = told \cup {t}),
         UNCHANGED <<drawn, owner, messages, audits, sessions, dropped, contended>>
  PROVE  ChatInv'
<1> USE DEF ChatInv
<1>1. /\ phase'[r] = "idle" /\ tx'[r].conversation = Nobody /\ tx'[r].new = FALSE
      /\ \A s \in Request : s # r => phase'[s] = phase[s] /\ tx'[s] = tx[s]
  BY FinishType DEF NoTx
<1>2. /\ owner' = owner /\ messages' = messages /\ drawn' = drawn /\ audits' = audits
      /\ sessions' = sessions /\ dropped' = dropped /\ contended' = contended
  OBVIOUS
<1>3. DrawnInv'
  <2>1. \A d \in Conversation : Touched(d)' => Touched(d) \/ (phase[r] = "tell" /\ d = tx[r].conversation)
    <3>1. CASE told' = told
      BY <1>2, <3>1 DEF Touched
    <3>2. CASE told' = told \cup {t} /\ phase[r] = "tell"
      BY <1>2, <3>2 DEF Touched
    <3> QED BY <3>1, <3>2
  <2>2. \A d \in Conversation : Touched(d)' => d \in drawn'
    BY <1>2, <2>1, ConversationAssumption DEF DrawnInv
  <2>3. \A s \in Request : tx'[s].conversation \in drawn' \cup {Nobody}
    BY <1>1, <1>2 DEF DrawnInv
  <2>4. ASSUME NEW s \in Request, tx'[s].new
        PROVE  /\ phase'[s] \in Asking
               /\ \A d \in Conversation : tx'[s].conversation = d => ~Touched(d)'
               /\ \A q \in Request : tx'[q].conversation = tx'[s].conversation => q = s
    <3>1. s # r /\ tx[s].new /\ tx'[s] = tx[s] /\ phase'[s] = phase[s]
      BY <1>1, <2>4
    <3>2. tx[s].conversation \in Conversation /\ phase[s] \in Asking
      BY <3>1 DEF DrawnInv, TypeInv, PhaseType, Asking
    <3>3. \A q \in Request : tx[q].conversation = tx[s].conversation => q = s
      BY <3>1 DEF DrawnInv
    <3>4. \A d \in Conversation : tx'[s].conversation = d => ~Touched(d)'
      BY <3>1, <3>3, <2>1 DEF DrawnInv
    <3> QED BY <1>1, <3>1, <3>2, <3>3, <3>4, ConversationAssumption
  <2> QED BY <2>2, <2>3, <2>4 DEF DrawnInv
<1>4. GoneInv'
  <2>1. \A s \in Request : phase'[s] = "forget" => owner'[tx'[s].conversation] = Nobody
    BY <1>1, <1>2 DEF GoneInv
  <2>2. \A d \in dropped' \ contended' :
          d \notin sessions' /\ \A s \in Request : tx'[s].conversation # d
    <3>1. Nobody \notin dropped
      BY ConversationAssumption DEF TypeInv
    <3> QED BY <1>1, <1>2, <3>1 DEF GoneInv
  <2> QED BY <1>2, <2>1, <2>2 DEF GoneInv
<1>5. Accounted'
  <2>1. \A k \in told' : owner'[k.conversation] # Nobody => Replied(k.turn, k.conversation)'
    BY <1>2 DEF Accounted, Replied, ReplyInv
  <2> QED BY <1>2, <2>1 DEF Accounted, Replied
<1> QED BY FinishKeeps, <1>3, <1>4, <1>5

\* The session of a deleted conversation is forgotten.
LEMMA ForgetKeeps ==
  ASSUME ChatInv, TypeInv', NEW r \in Request, Forget(r)
  PROVE  ChatInv'
<1> USE DEF ChatInv
<1>1. PICK c \in Conversation : tx[r].conversation = c /\ c \in drawn /\ owner[c] = Nobody
  BY ConversationAssumption DEF Forget, TypeInv, PhaseType, DrawnInv, GoneInv
<1>2. /\ phase'[r] = "idle" /\ tx'[r].conversation = Nobody /\ tx'[r].new = FALSE
      /\ \A s \in Request : s # r => phase'[s] = phase[s] /\ tx'[s] = tx[s]
  BY FinishType DEF NoTx, Forget
<1>3. /\ owner' = owner /\ messages' = messages /\ drawn' = drawn /\ audits' = audits
      /\ told' = told /\ contended' = contended
      /\ sessions' = sessions \ {c} /\ dropped' = dropped \cup {c} /\ Finish(r)
  BY <1>1 DEF Forget
<1>4. DrawnInv'
  <2>1. \A d \in Conversation : Touched(d)' => Touched(d) \/ d = c
    BY <1>3 DEF Touched
  <2>2. ASSUME NEW s \in Request, tx'[s].new
        PROVE  /\ phase'[s] \in Asking
               /\ \A d \in Conversation : tx'[s].conversation = d => ~Touched(d)'
               /\ \A q \in Request : tx'[q].conversation = tx'[s].conversation => q = s
    <3>1. s # r /\ tx[s].new /\ tx'[s] = tx[s] /\ phase'[s] = phase[s]
      BY <1>2, <2>2
    <3>2. tx[s].conversation \in Conversation /\ phase[s] \in Asking
      BY <3>1 DEF DrawnInv, TypeInv, PhaseType, Asking
    <3>3. \A q \in Request : tx[q].conversation = tx[s].conversation => q = s
      BY <3>1 DEF DrawnInv
    <3>4. \A d \in Conversation : tx'[s].conversation = d => ~Touched(d)'
      BY <1>1, <3>1, <3>3, <2>1 DEF DrawnInv
    <3> QED BY <1>2, <3>1, <3>2, <3>3, <3>4, ConversationAssumption
  <2> QED BY <1>1, <1>2, <1>3, <2>1, <2>2 DEF DrawnInv
<1>5. GoneInv'
  <2>1. c \notin contended => \A s \in Request : s # r => tx[s].conversation # c
    BY <1>1 DEF OneUser
  <2> QED BY <1>1, <1>2, <1>3, <2>1, ConversationAssumption DEF GoneInv, TypeInv
<1>6. Accounted'
  BY <1>1, <1>3 DEF Accounted, Replied, GoneInv
<1> QED BY <1>3, FinishKeeps, <1>4, <1>5, <1>6

\* The rows of a conversation go, under the requests that still use it.
LEMMA DeleteKeeps ==
  ASSUME ChatInv, TypeInv', NEW r \in Request, Delete(r)
  PROVE  ChatInv'
<1> USE DEF ChatInv
<1>1. PICK c \in Conversation : tx[r].conversation = c /\ c \in drawn
  BY ConversationAssumption DEF Delete, TypeInv, PhaseType, DrawnInv
<1>2. /\ phase'[r] = "forget" /\ tx' = tx /\ tx[r].new = FALSE
      /\ \A s \in Request : s # r => phase'[s] = phase[s]
  BY DEF Delete, Advance, TypeInv, DrawnInv, Asking, TxType
<1>3. /\ owner'[c] = Nobody /\ messages'[c] = {} /\ Numbers(c)' = {}
      /\ \A d \in Conversation : d # c => owner'[d] = owner[d] /\ messages'[d] = messages[d]
      /\ \A d \in Conversation : d # c => Numbers(d)' = Numbers(d)
  BY <1>1 DEF Delete, TypeInv, Numbers
<1>4. /\ drawn' = drawn /\ audits' = audits /\ told' = told /\ contended' = contended
      /\ sessions' = sessions /\ dropped' = dropped
  BY DEF Delete
<1>5. OneUser'
  BY <1>2, <1>4 DEF OneUser
<1>6. DrawnInv'
  <2>1. \A d \in Conversation : Touched(d)' => Touched(d) \/ d = c
    BY <1>3, <1>4 DEF Touched
  <2>2. ASSUME NEW s \in Request, tx[s].new
        PROVE  /\ phase'[s] \in Asking
               /\ \A d \in Conversation : tx[s].conversation = d => ~Touched(d)'
               /\ \A q \in Request : tx[q].conversation = tx[s].conversation => q = s
    BY <1>1, <1>2, <2>1, <2>2 DEF DrawnInv
  <2> QED BY <1>1, <1>2, <1>4, <2>1, <2>2 DEF DrawnInv
<1>7. GoneInv'
  <2>1. \A d \in dropped : owner'[d] = Nobody
    BY <1>3 DEF GoneInv, TypeInv
  <2>2. \A s \in Request : phase'[s] = "forget" => owner'[tx[s].conversation] = Nobody
    BY <1>1, <1>2, <1>3 DEF GoneInv, TypeInv, PhaseType
  <2> QED BY <1>2, <1>3, <1>4, <2>1, <2>2 DEF GoneInv
<1>8. QuestionInv'
  <2> SUFFICES ASSUME NEW s \in Request, phase'[s] \in Asked, owner'[tx[s].conversation] # Nobody
               PROVE  \E q \in messages'[tx[s].conversation] :
                        /\ q.turn = tx[s].turn /\ q.role = "user"
                        /\ phase'[s] = "answer" => q.sequence_no < tx[s].number
    BY <1>2 DEF QuestionInv
  <2>1. s # r /\ phase[s] \in Asked /\ tx[s].conversation \in Conversation /\ phase'[s] = phase[s]
    BY <1>2 DEF Asked, TypeInv, PhaseType
  <2> QED BY <2>1, <1>3 DEF QuestionInv
<1>9. ReplyInv'
  <2> SUFFICES ASSUME NEW s \in Request, phase'[s] = "tell", owner'[tx[s].conversation] # Nobody
               PROVE  \E m \in messages'[tx[s].conversation] : m.turn = tx[s].turn /\ m.role = "assistant"
    BY <1>2 DEF ReplyInv, Replied
  <2>1. s # r /\ phase[s] = "tell" /\ tx[s].conversation \in Conversation
    BY <1>2 DEF TypeInv, PhaseType
  <2> QED BY <2>1, <1>3 DEF ReplyInv, Replied
<1>10. NumberInv'
  BY <1>3 DEF NumberInv
<1>11. AloneInv'
  <2> SUFFICES ASSUME NEW d \in Conversation \ contended
               PROVE  /\ Numbers(d)' = 1 .. Cardinality(messages'[d])
                      /\ \A a \in messages'[d] : a.role = "assistant" =>
                           \E q \in messages'[d] :
                             q.turn = a.turn /\ q.role = "user" /\ q.sequence_no + 1 = a.sequence_no
                      /\ \A s \in Request : tx'[s].conversation = d =>
                           /\ phase'[s] \in {"ask", "answer"} =>
                                tx'[s].number = Cardinality(messages'[d]) + 1
                           /\ phase'[s] \in Asked \ {"tell"} /\ owner'[d] # Nobody =>
                                \E q \in messages'[d] :
                                  /\ q.turn = tx'[s].turn /\ q.role = "user"
                                  /\ q.sequence_no = Cardinality(messages'[d])
    BY <1>4 DEF AloneInv
  <2>1. CASE d # c
    <3>1. messages'[d] = messages[d] /\ Numbers(d)' = Numbers(d) /\ owner'[d] = owner[d]
      BY <2>1, <1>3
    <3>2. \A s \in Request : tx[s].conversation = d => phase'[s] = phase[s]
      BY <2>1, <1>1, <1>2
    <3> QED BY <3>1, <3>2, <1>2 DEF AloneInv
  <2>2. CASE d = c
    <3>1. Numbers(d)' = 1 .. Cardinality(messages'[d]) /\ messages'[d] = {}
      BY <2>2, <1>3, FS_EmptySet
    <3>2. \A s \in Request : tx'[s].conversation = d => phase'[s] = "forget"
      BY <2>2, <1>1, <1>2 DEF OneUser
    <3> QED BY <3>1, <3>2 DEF Asked
  <2> QED BY <2>1, <2>2
<1>12. Accounted'
  <2>1. \A n, d : d \in Conversation /\ owner'[d] # Nobody /\ Replied(n, d) => Replied(n, d)'
    BY <1>3 DEF Replied
  <2>2. \A d \in Conversation : owner'[d] # Nobody => owner[d] # Nobody
    BY <1>3
  <2>3. \A t \in told : owner'[t.conversation] # Nobody => Replied(t.turn, t.conversation)'
    BY <2>1, <2>2 DEF Accounted, TypeInv
  <2>4. \A a \in audits : a.conversation # Nobody /\ owner'[a.conversation] # Nobody =>
          Replied(a.turn, a.conversation)'
    BY <2>1, <2>2 DEF Accounted, TypeInv
  <2>5. \A d \in dropped : owner'[d] = Nobody /\ messages'[d] = {} /\ (d \notin contended => d \notin sessions)
    BY <1>3 DEF Accounted, TypeInv
  <2> QED BY <1>4, <2>3, <2>4, <2>5 DEF Accounted
<1> QED BY <1>5, <1>6, <1>7, <1>8, <1>9, <1>10, <1>11, <1>12

\* Each step of a request keeps the invariant.
LEMMA StepKeeps ==
  ASSUME ChatInv, NEW r \in Request, Step(r)
  PROVE  ChatInv'
<1> USE DEF ChatInv
<1>1. TypeInv'
  BY StepType
<1>2. CASE Post(r)
  <2>1. PICK u \in User, c \in Conversation : FirstMessage(r, u, c) \/ NextMessage(r, u, c)
    BY <1>2 DEF Post
  <2>2. PICK new \in BOOLEAN : /\ NewTurn(r, u, c, new)
                               /\ new => c \notin drawn
                               /\ ~new => owner[c] # Nobody
                               /\ drawn' = drawn \cup {c}
    <3>1. CASE FirstMessage(r, u, c)
      BY <3>1 DEF FirstMessage
    <3>2. CASE NextMessage(r, u, c)
      <4>1. owner[c] # Nobody
        BY <3>2, ConversationAssumption DEF NextMessage
      <4>2. c \in drawn
        BY <4>1 DEF DrawnInv, Touched
      <4> QED BY <3>2, <4>1, <4>2 DEF NextMessage
    <3> QED BY <2>1, <3>1, <3>2
  <2>3. /\ phase[r] = "idle" /\ phase'[r] = "number"
        /\ tx'[r].conversation = c /\ tx'[r].new = new
        /\ \A s \in Request : s # r => phase'[s] = phase[s] /\ tx'[s] = tx[s]
    BY <2>2 DEF NewTurn, Advance, TypeInv, NoTx
  <2>4. Use(r, c) /\ UNCHANGED <<owner, messages, audits, sessions, told, dropped>>
    BY <2>2 DEF NewTurn
  <2> QED BY <1>1, <2>2, <2>3, <2>4, BeginKeeps
<1>3. CASE ReadNumber(r)
  <2>1. PICK c \in Conversation : c = tx[r].conversation
    BY <1>3 DEF ReadNumber, TypeInv, PhaseType
  <2>2. /\ \A s \in Request : s # r => phase'[s] = phase[s] /\ tx'[s] = tx[s]
        /\ tx'[r].conversation = tx[r].conversation /\ tx'[r].turn = tx[r].turn
        /\ tx'[r].new = tx[r].new /\ tx'[r].number = NextSequence(c)
    BY <1>3, <2>1 DEF ReadNumber, Advance, TypeInv, TxType
  <2>3. \/ phase[r] = "number" /\ phase'[r] = "ask"
        \/ phase[r] = "reply" /\ phase'[r] = "answer"
    BY <1>3 DEF ReadNumber, Advance, TypeInv
  <2>4. /\ phase[r] \in Asking => phase'[r] \in Asking
        /\ phase[r] \in Asking \cup (Asked \ {"tell"})
        /\ phase'[r] \in Asked => phase[r] \in Asked
        /\ phase'[r] \notin {"tell", "forget"}
    BY <2>3 DEF Asking, Asked
  <2>5. /\ \A n \in Numbers(tx[r].conversation) : n < tx'[r].number
        /\ tx[r].conversation \notin contended =>
             tx'[r].number = Cardinality(messages[tx[r].conversation]) + 1
    BY <2>1, <2>2, NextSequenceLarger, NextSequenceAlone DEF AloneInv
  <2>6. UNCHANGED <<drawn, owner, messages, audits, told, dropped, contended>> /\ sessions' = sessions
    BY <1>3 DEF ReadNumber
  <2> QED BY <1>1, <2>2, <2>4, <2>5, <2>6, AdvanceKeeps
<1>4. CASE StoreQuestion(r)
  <2>1. CASE Finish(r) /\ UNCHANGED <<owner, messages>>
    <3>1. told' = told /\ UNCHANGED <<drawn, owner, messages, audits, sessions, dropped, contended>>
      BY <1>4, <2>1 DEF StoreQuestion
    <3> QED BY <1>1, <2>1, <3>1, EndKeeps
  <2>2. CASE ~(Finish(r) /\ UNCHANGED <<owner, messages>>)
    <3>1. /\ phase[r] = "ask" /\ Exists(r) /\ Advance(r, "recall")
          /\ owner' = [owner EXCEPT ![tx[r].conversation] = tx[r].user]
          /\ messages' = [messages EXCEPT ![tx[r].conversation] = @ \cup {Row(r, "user")}]
          /\ tx' = [tx EXCEPT ![r].new = FALSE]
          /\ UNCHANGED <<drawn, audits, sessions, turns, told, dropped, contended>>
      BY <1>4, <2>2 DEF StoreQuestion
    <3>2. tx[r].conversation \in Conversation /\ tx[r].user \in User
      BY <3>1 DEF TypeInv, PhaseType
    <3>3. /\ owner' = [owner EXCEPT ![tx[r].conversation] = owner'[tx[r].conversation]]
          /\ owner'[tx[r].conversation] # Nobody
      BY <3>1, <3>2, ConversationAssumption DEF TypeInv
    <3>4. /\ phase'[r] = "recall" /\ tx'[r].conversation = tx[r].conversation
          /\ tx'[r].turn = tx[r].turn /\ tx'[r].new = FALSE
          /\ \A s \in Request : s # r => phase'[s] = phase[s] /\ tx'[s] = tx[s]
      BY <3>1 DEF Advance, TypeInv, TxType
    <3>5. "user" \in Sender /\ audits' = audits
      BY <3>1 DEF Sender
    <3> QED BY <1>1, <3>1, <3>3, <3>4, <3>5, StoreKeeps
  <2> QED BY <2>1, <2>2
<1>5. CASE Recall(r) \/ Think(r)
  <2>1. PICK c \in Conversation : c = tx[r].conversation
    BY <1>5 DEF Recall, Think, TypeInv, PhaseType
  <2>2. /\ \A s \in Request : s # r => phase'[s] = phase[s] /\ tx'[s] = tx[s]
        /\ tx'[r].conversation = tx[r].conversation /\ tx'[r].turn = tx[r].turn
        /\ tx'[r].new = tx[r].new
    <3>1. /\ \A s \in Request : s # r => phase'[s] = phase[s]
          /\ \/ \E h : tx' = [tx EXCEPT ![r].history = h]
             \/ \E v : tx' = [tx EXCEPT ![r].audit = v, ![r].history = {}]
      BY <1>5 DEF Recall, Think, Advance, TypeInv
    <3>2. CASE \E h : tx' = [tx EXCEPT ![r].history = h]
      BY <3>1, <3>2 DEF TypeInv, TxType
    <3>3. CASE \E v : tx' = [tx EXCEPT ![r].audit = v, ![r].history = {}]
      BY <3>1, <3>3 DEF TypeInv, TxType
    <3> QED BY <3>1, <3>2, <3>3
  <2>3. \/ phase[r] = "recall" /\ phase'[r] = "think"
        \/ phase[r] = "think" /\ phase'[r] = "reply"
    BY <1>5 DEF Recall, Think, Advance, TypeInv
  <2>4. /\ phase[r] \notin Asking /\ phase[r] \in Asked \ {"tell"}
        /\ phase'[r] \notin {"tell", "forget", "ask", "answer"}
    BY <2>3 DEF Asking, Asked
  <2>5. /\ UNCHANGED <<drawn, owner, messages, audits, told, dropped, contended>>
        /\ sessions' \subseteq sessions \cup {tx[r].conversation}
    BY <1>5 DEF Recall, Think
  <2> QED BY <1>1, <2>2, <2>4, <2>5, AdvanceKeeps
<1>6. CASE StoreReply(r)
  <2>1. CASE Finish(r) /\ UNCHANGED <<messages, audits>>
    <3>1. told' = told /\ UNCHANGED <<drawn, owner, messages, audits, sessions, dropped, contended>>
      BY <1>6, <2>1 DEF StoreReply
    <3> QED BY <1>1, <2>1, <3>1, EndKeeps
  <2>2. CASE ~(Finish(r) /\ UNCHANGED <<messages, audits>>)
    <3>1. /\ phase[r] = "answer" /\ Exists(r) /\ Advance(r, "tell") /\ tx' = tx
          /\ messages' = [messages EXCEPT ![tx[r].conversation] = @ \cup {Row(r, "assistant")}]
          /\ audits' = audits \cup Audit(r)
          /\ UNCHANGED <<drawn, owner, sessions, turns, told, dropped, contended>>
      BY <1>6, <2>2 DEF StoreReply
    <3>2. tx[r].conversation \in Conversation /\ tx[r].new = FALSE
      BY <3>1 DEF TypeInv, PhaseType, DrawnInv, Asking, TxType
    <3>3. /\ owner' = [owner EXCEPT ![tx[r].conversation] = owner'[tx[r].conversation]]
          /\ owner'[tx[r].conversation] # Nobody
      BY <3>1, <3>2 DEF TypeInv, Exists
    <3>4. /\ phase'[r] = "tell" /\ tx'[r].new = FALSE
          /\ \A s \in Request : s # r => phase'[s] = phase[s] /\ tx'[s] = tx[s]
      BY <3>1, <3>2 DEF Advance, TypeInv
    <3>5. "assistant" \in Sender
      BY DEF Sender
    <3> QED BY <1>1, <3>1, <3>3, <3>4, <3>5, StoreKeeps
  <2> QED BY <2>1, <2>2
<1>7. CASE Tell(r)
  <2>1. PICK t : t = [turn |-> tx[r].turn, conversation |-> tx[r].conversation]
    OBVIOUS
  <2>2. /\ Finish(r) /\ phase[r] = "tell" /\ told' = told \cup {t}
        /\ UNCHANGED <<drawn, owner, messages, audits, sessions, dropped, contended>>
    BY <1>7, <2>1 DEF Tell
  <2>3. t.turn = tx[r].turn /\ t.conversation = tx[r].conversation
    BY <2>1
  <2> QED BY <1>1, <2>2, <2>3, EndKeeps
<1>8. ASSUME NEW u \in User, NEW c \in Conversation, DeleteRequest(r, u, c)
      PROVE  ChatInv'
  <2>1. owner[c] # Nobody /\ drawn' = drawn \cup {c}
    BY <1>8, ConversationAssumption DEF DeleteRequest, DrawnInv, Touched
  <2>2. /\ phase[r] = "idle" /\ phase'[r] = "delete"
        /\ tx'[r].conversation = c /\ tx'[r].new = FALSE
        /\ \A s \in Request : s # r => phase'[s] = phase[s] /\ tx'[s] = tx[s]
    BY <1>8 DEF DeleteRequest, Advance, TypeInv, NoTx
  <2>3. Use(r, c) /\ UNCHANGED <<owner, messages, audits, sessions, told, dropped>>
    BY <1>8 DEF DeleteRequest
  <2> QED BY <1>1, <2>1, <2>2, <2>3, BeginKeeps
<1>9. CASE Delete(r)
  BY <1>1, <1>9, DeleteKeeps
<1>10. CASE Forget(r)
  BY <1>1, <1>10, ForgetKeeps
<1>11. CASE Abort(r)
  <2>1. /\ Finish(r) /\ told' = told
        /\ UNCHANGED <<drawn, owner, messages, audits, sessions, dropped, contended>>
    BY <1>11 DEF Abort
  <2> QED BY <1>1, <2>1, EndKeeps
<1> QED BY <1>2, <1>3, <1>4, <1>5, <1>6, <1>7, <1>8, <1>9, <1>10, <1>11 DEF Step

\* So do the steps that are no request's, and stuttering.
LEMMA OthersKeep ==
  ASSUME ChatInv,
         PublicTurn \/ (\E c \in Conversation : SessionExpires(c)) \/ UNCHANGED conversationVars
  PROVE  ChatInv'
<1> USE DEF ChatInv
<1>1. /\ drawn' = drawn /\ owner' = owner /\ messages' = messages /\ phase' = phase /\ tx' = tx
      /\ turns' = turns /\ told' = told /\ dropped' = dropped /\ contended' = contended
      /\ sessions' \subseteq sessions
  BY DEF PublicTurn, SessionExpires, conversationVars
<1>2. \A a \in audits' : a \in audits \/ a.conversation = Nobody
  BY DEF PublicTurn, SessionExpires, conversationVars
<1>3. audits' \subseteq [turn : TurnNo \cup {0}, conversation : Conversation \cup {Nobody}, action : Actions]
  BY BadAnswersType DEF PublicTurn, SessionExpires, conversationVars, TypeInv
<1>4. \A d \in Conversation : Numbers(d)' = Numbers(d)
  BY <1>1 DEF Numbers
<1>5. TypeInv'
  <2>1. \A s \in Request : PhaseType(s)'
    BY <1>1 DEF TypeInv, PhaseType
  <2> QED BY <1>1, <1>3, <2>1 DEF TypeInv
<1>6. OneUser'
  BY <1>1 DEF OneUser
<1>7. DrawnInv'
  <2>1. \A d \in Conversation : Touched(d)' => Touched(d)
    BY <1>1, <1>2, ConversationAssumption DEF Touched
  <2> QED BY <1>1, <2>1 DEF DrawnInv
<1>8. GoneInv'
  BY <1>1 DEF GoneInv
<1>9. QuestionInv' /\ ReplyInv'
  BY <1>1 DEF QuestionInv, ReplyInv, Replied
<1>10. NumberInv' /\ AloneInv'
  BY <1>1, <1>4 DEF NumberInv, AloneInv
<1>11. Accounted'
  BY <1>1, <1>2 DEF Accounted, Replied
<1> QED BY <1>5, <1>6, <1>7, <1>8, <1>9, <1>10, <1>11

\* What each request knows of its conversation holds throughout.
LEMMA ChatInvariant == ConversationSpec => []ChatInv
<1>1. ChatInv /\ [NextConversations]_conversationVars => ChatInv'
  BY StepKeeps, OthersKeep DEF NextConversations
<1> QED BY <1>1, InitChat, PTL DEF ConversationSpec

-----------------------------------------------------------------------------
\* Every variable keeps its type, and a request at rest holds nothing of its
\* last turn (api/routes/chat.py: each request has a session of its own).
THEOREM ChatTypesCorrect == ConversationSpec => []ConversationTypeOK
<1>1. ChatInv => ConversationTypeOK
  BY DEF ChatInv, TypeInv, ConversationTypeOK, PhaseType, Points, TxType
<1> QED BY <1>1, ChatInvariant, PTL

\* In every interleaving a reply has a larger number than its question
\* (append_message), and in a conversation that one request uses at a time
\* the numbers have no gap and a reply comes right after its question.
THEOREM TranscriptsInOrder == ConversationSpec => []Transcript
<1>1. ChatInv => Transcript
  BY DEF ChatInv, NumberInv, AloneInv, Transcript
<1> QED BY <1>1, ChatInvariant, PTL

\* A reply that was received or audited is in the transcript as long as there
\* is one, and a deleted conversation stays deleted (_persist_reply,
\* delete_conversation).
THEOREM RepliesAccounted == ConversationSpec => []Accounted
<1>1. ChatInv => Accounted
  BY DEF ChatInv
<1> QED BY <1>1, ChatInvariant, PTL

-----------------------------------------------------------------------------
(* The history an agent is shown.                                          *)

\* What a row costs.
Weighing == [m \in RowType |-> Sizes[m.turn][m.role]]

\* A row costs a natural number of tokens.
LEMMA WeighingNat == \A m \in RowType : Weighing[m] = Sizes[m.turn][m.role] /\ Weighing[m] \in Nat
<1> SUFFICES ASSUME NEW m \in RowType PROVE Weighing[m] = Sizes[m.turn][m.role] /\ Weighing[m] \in Nat
  OBVIOUS
<1>1. m.turn \in 1 .. Len(Sizes) /\ m.role \in {"user", "assistant"}
  BY DEF RowType, TurnNo, Sender
<1> DEFINE R == [user : Nat \ {0}, assistant : Nat \ {0}]
<1>2. Sizes[m.turn] \in R
  <2>1. Sizes \in Seq(R)
    BY ConversationAssumption
  <2> HIDE DEF R
  <2> QED BY <1>1, <2>1
<1>3. Sizes[m.turn][m.role] \in Nat
  BY <1>1, <1>2
<1> QED BY <1>3 DEF Weighing

\* The cost of some rows is a sum in the sense of the lemmas.
LEMMA CostIs ==
  ASSUME NEW S \in SUBSET RowType, IsFiniteSet(S)
  PROVE  Cost(S) = Total(Weighing, S)
<1> DEFINE Is(h) == h = [s \in SUBSET S |->
                           IF s = {} THEN 0
                           ELSE Sizes[AnyOf(s).turn][AnyOf(s).role] + h[s \ {AnyOf(s)}]]
<1>1. PICK g : Totals(g, Weighing, S)
  BY TotalsExist
<1>2. \A s \in SUBSET S : s # {} => Weighing[AnyOf(s)] = Sizes[AnyOf(s).turn][AnyOf(s).role]
  BY WeighingNat DEF AnyOf
<1>3. Is(g)
  BY <1>1, <1>2 DEF Totals
<1>4. Cost(S) = (CHOOSE h : Is(h))[S]
  BY DEF Cost, MapThenSumSet, MapThenFoldSet, AnyOf
<1>5. PICK h : h = (CHOOSE i : Is(i)) /\ Is(h)
  BY <1>3
<1>6. Totals(h, Weighing, S)
  <2> DEFINE e(s) == IF s = {} THEN 0 ELSE Weighing[AnyOf(s)] + h[s \ {AnyOf(s)}]
             d(s) == IF s = {} THEN 0
                     ELSE Sizes[AnyOf(s).turn][AnyOf(s).role] + h[s \ {AnyOf(s)}]
  <2>1. \A s \in SUBSET S : d(s) = e(s)
    BY <1>2
  <2>2. h = [s \in SUBSET S |-> d(s)]
    BY <1>5
  <2> HIDE DEF d
  <2>3. h = [s \in SUBSET S |-> e(s)]
    <3> HIDE DEF e
    <3> QED BY <2>1, <2>2
  <2> QED BY <2>3 DEF Totals
<1> QED BY <1>4, <1>5, <1>6, TotalIs

\* Adding a row to some rows adds what it costs.
LEMMA CostAdds ==
  ASSUME NEW S \in SUBSET RowType, IsFiniteSet(S)
  PROVE  /\ Cost(S) \in Nat
         /\ \A m \in RowType : /\ Cost({m}) = Sizes[m.turn][m.role]
                               /\ Cost({m}) \in Nat
                               /\ m \notin S => Cost(S \cup {m}) = Cost(S) + Cost({m})
<1>1. \A T \in SUBSET RowType : IsFiniteSet(T) =>
        /\ Cost(T) \in Int
        /\ \A x \in T : Cost(T) = Weighing[x] + Cost(T \ {x})
  <2> SUFFICES ASSUME NEW T \in SUBSET RowType, IsFiniteSet(T)
               PROVE  Cost(T) \in Int /\ \A x \in T : Cost(T) = Weighing[x] + Cost(T \ {x})
    OBVIOUS
  <2>1. \A x \in T : Weighing[x] \in Int
    BY WeighingNat
  <2>2. Total(Weighing, T) \in Int /\ \A x \in T : Total(Weighing, T) = Weighing[x] + Total(Weighing, T \ {x})
    BY <2>1, TotalRemove
  <2>3. \A x \in T : Cost(T \ {x}) = Total(Weighing, T \ {x})
    BY FS_Subset, CostIs
  <2> QED BY <2>2, <2>3, CostIs
<1>2. Cost({}) = 0
  BY FS_EmptySet, CostIs, TotalEmpty
<1>3. Cost(S) \in Nat
  <2>1. Total(Weighing, {}) <= Total(Weighing, S)
    BY WeighingNat, TotalGrows
  <2> QED BY <1>1, <2>1, CostIs, TotalEmpty
<1>4. ASSUME NEW m \in RowType
      PROVE  /\ Cost({m}) = Sizes[m.turn][m.role]
             /\ Cost({m}) \in Nat
             /\ m \notin S => Cost(S \cup {m}) = Cost(S) + Cost({m})
  <2>1. Weighing[m] = Sizes[m.turn][m.role] /\ Weighing[m] \in Nat
    BY WeighingNat
  <2>2. IsFiniteSet({m}) /\ IsFiniteSet(S \cup {m})
    BY FS_Singleton, FS_AddElement
  <2>3. {m} \ {m} = {} /\ (m \notin S => (S \cup {m}) \ {m} = S)
    OBVIOUS
  <2>4. Cost({m}) = Weighing[m] + Cost({})
    BY <1>1, <2>2, <2>3
  <2>5. Cost({m}) = Weighing[m]
    BY <1>2, <2>1, <2>4
  <2>6. ASSUME m \notin S PROVE Cost(S \cup {m}) = Weighing[m] + Cost(S)
    <3>1. S \cup {m} \in SUBSET RowType
      OBVIOUS
    <3>2. Cost(S \cup {m}) = Weighing[m] + Cost((S \cup {m}) \ {m})
      BY <1>1, <2>2, <3>1
    <3> QED BY <2>3, <2>6, <3>2
  <2> QED BY <1>3, <2>1, <2>5, <2>6
<1> QED BY <1>3, <1>4

\* The window of the newest rows is never larger than the budget unless it is
\* one row, and that is taken off.
LEMMA HistoryFits ==
  ASSUME NEW rows \in SUBSET RowType, IsFiniteSet(rows), NEW h \in Histories(rows)
  PROVE  Cost(h) <= Budget
<1>1. PICK w \in Recent(rows) : \E m \in w : h = w \ {m}
  BY DEF Histories
<1> PICK m \in w : h = w \ {m}
  BY <1>1
<1>2. w \in SUBSET rows /\ (Cardinality(w) = 1 \/ Cost(w) <= Budget)
  BY <1>1 DEF Recent
<1>3. IsFiniteSet(w) /\ IsFiniteSet(h) /\ m \in RowType /\ m \notin h /\ w = h \cup {m} /\ h \in SUBSET RowType
  BY <1>1, <1>2, FS_Subset
<1>4. CASE Cardinality(w) = 1
  <2>1. Cardinality(w) = Cardinality(h) + 1 /\ Cardinality(h) \in Nat
    BY <1>3, FS_AddElement, FS_CardinalityType
  <2>2. Cardinality(h) = 0
    BY <1>4, <2>1
  <2>3. h = {}
    BY <1>3, <2>2, FS_EmptySet
  <2>4. Cost({}) = 0
    BY FS_EmptySet, CostIs, TotalEmpty
  <2>5. Budget \in Nat
    BY ConversationAssumption
  <2>6. Cost(h) = 0
    BY <2>3, <2>4
  <2> QED BY <2>5, <2>6
<1>5. CASE Cost(w) <= Budget
  <2>1. Cost(w) = Cost(h) + Cost({m}) /\ Cost(h) \in Nat /\ Cost({m}) \in Nat
    BY <1>3, CostAdds
  <2> QED BY <1>5, <2>1, ConversationAssumption
<1> QED BY <1>2, <1>4, <1>5

\* Rows whose numbers are those from 1 to their count have a number each.
LEMMA NumbersDiffer ==
  ASSUME NEW rows \in SUBSET RowType, IsFiniteSet(rows),
         {m.sequence_no : m \in rows} = 1 .. Cardinality(rows)
  PROVE  \A m, n \in rows : m.sequence_no = n.sequence_no => m = n
<1> DEFINE K == Cardinality(rows)
           f == [m \in rows |-> m.sequence_no]
<1>1. K \in Nat
  BY FS_CardinalityType
<1>2. Cardinality(1 .. K) = K
  <2> HIDE DEF K
  <2> QED BY <1>1, FS_Interval
<1>3. f \in Surjection(rows, 1 .. K)
  BY DEF Surjection
<1>4. f \in Injection(rows, 1 .. K)
  <2> HIDE DEF f
  <2> QED BY <1>2, <1>3, FS_SurjSameCardinalityImpliesInj
<1> QED BY <1>4 DEF Injection, IsInjective

\* What is shown of the rows before a turn is the newest of them, and what is
\* hidden did not fit with the question.
NewestThatFit(shown, hidden, turn) ==
  /\ \A m \in shown : m.turn < turn
  /\ \A m \in shown, h \in hidden : h.sequence_no < m.sequence_no
  /\ hidden # {} =>
       LET newest == CHOOSE h \in hidden : \A o \in hidden : o.sequence_no <= h.sequence_no
       IN Cost(shown \cup {newest}) + Sizes[turn].user > Budget

\* What a turn that has its conversation for itself is shown.
LEMMA HistoryAlone ==
  ASSUME NEW rows \in SUBSET RowType, IsFiniteSet(rows),
         {m.sequence_no : m \in rows} = 1 .. Cardinality(rows),
         NEW q \in rows, q.role = "user", q.sequence_no = Cardinality(rows),
         \A m \in rows : m.turn < q.turn \/ m.sequence_no = q.sequence_no,
         NEW shown \in Histories(rows),
         NEW hidden, hidden = {m \in rows : m.turn < q.turn} \ shown
  PROVE  NewestThatFit(shown, hidden, q.turn)
<1>1. \A m, n \in rows : m.sequence_no = n.sequence_no => m = n
  BY NumbersDiffer
<1>2. \A m \in rows : m \in RowType /\ m.sequence_no \in Nat /\ m.turn \in Nat
  BY DEF RowType, TurnNo
<1>3. \A m \in rows : m.sequence_no <= q.sequence_no
  <2>1. Cardinality(rows) \in Nat
    BY FS_CardinalityType
  <2>2. \A m \in rows : m.sequence_no \in 1 .. Cardinality(rows)
    OBVIOUS
  <2> QED BY <2>1, <2>2
<1> PICK w \in Recent(rows) :
      shown \in {w \ {m} : m \in {n \in w : \A o \in w : n.sequence_no >= o.sequence_no}}
  BY DEF Histories
<1>4. PICK top \in w : shown = w \ {top} /\ \A o \in w : top.sequence_no >= o.sequence_no
  OBVIOUS
<1>5. /\ w \in SUBSET rows
      /\ \A m \in w, o \in rows \ w : m.sequence_no >= o.sequence_no
      /\ rows \ w = {} \/ \E o \in rows \ w :
           /\ \A p \in rows \ w : o.sequence_no >= p.sequence_no
           /\ Cost(w) + Cost({o}) > Budget
  BY <1>4 DEF Recent
<1>6. top = q
  <2>1. q \in w
    <3>1. SUFFICES ASSUME q \notin w PROVE FALSE
      OBVIOUS
    <3>2. top.sequence_no >= q.sequence_no /\ top \in rows
      BY <1>4, <1>5, <3>1
    <3>3. top.sequence_no = q.sequence_no
      BY <1>2, <1>3, <3>2
    <3> QED BY <1>1, <1>4, <3>1, <3>2, <3>3
  <2>2. top.sequence_no >= q.sequence_no /\ top \in rows
    BY <1>4, <1>5, <2>1
  <2>3. top.sequence_no = q.sequence_no
    BY <1>2, <1>3, <2>2
  <2> QED BY <1>1, <2>2, <2>3
<1>7. \A m \in rows : m.turn < q.turn <=> m # q
  BY <1>1, <1>2
<1>8. hidden = rows \ w /\ w = shown \cup {q} /\ q \notin shown
  BY <1>4, <1>5, <1>6, <1>7
<1>9. \A m \in shown : m.turn < q.turn
  BY <1>5, <1>7, <1>8
<1>10. ASSUME NEW m \in shown, NEW h \in hidden PROVE h.sequence_no < m.sequence_no
  <2>1. m \in w /\ h \in rows \ w /\ m \in rows /\ h \in rows /\ m # h
    BY <1>5, <1>8
  <2>2. m.sequence_no >= h.sequence_no /\ m.sequence_no # h.sequence_no
    BY <1>1, <1>5, <2>1
  <2> QED BY <1>2, <2>1, <2>2
<1>11. ASSUME hidden # {}
       PROVE  LET newest == CHOOSE h \in hidden : \A o \in hidden : o.sequence_no <= h.sequence_no
              IN Cost(shown \cup {newest}) + Sizes[q.turn].user > Budget
  <2>1. PICK o \in hidden : /\ \A p \in hidden : o.sequence_no >= p.sequence_no
                            /\ Cost(w) + Cost({o}) > Budget
    BY <1>5, <1>8, <1>11
  <2>2. PICK newest : /\ newest = CHOOSE h \in hidden : \A p \in hidden : p.sequence_no <= h.sequence_no
                      /\ newest \in hidden
                      /\ \A p \in hidden : p.sequence_no <= newest.sequence_no
    <3>1. \E h \in hidden : \A p \in hidden : p.sequence_no <= h.sequence_no
      BY <1>2, <1>8, <2>1
    <3> QED BY <3>1
  <2>3. newest = o
    <3>1. newest \in rows /\ o \in rows
      BY <1>8, <2>1, <2>2
    <3>2. newest.sequence_no = o.sequence_no
      BY <1>2, <2>1, <2>2, <3>1
    <3> QED BY <1>1, <3>1, <3>2
  <2>4. /\ shown \in SUBSET RowType /\ IsFiniteSet(shown) /\ o \in RowType /\ q \in RowType
        /\ o \notin shown
    <3>1. shown \subseteq rows
      BY <1>5, <1>8
    <3> QED BY <3>1, <1>2, <1>8, <2>1, FS_Subset
  <2>5. /\ Cost(shown) \in Nat /\ Cost({o}) \in Nat /\ Cost({q}) \in Nat
        /\ Cost(shown \cup {o}) = Cost(shown) + Cost({o})
        /\ Cost(shown \cup {q}) = Cost(shown) + Cost({q})
        /\ Cost({q}) = Sizes[q.turn][q.role]
    BY <1>8, <2>4, CostAdds
  <2>6. Sizes[q.turn][q.role] = Sizes[q.turn].user
    OBVIOUS
  <2>7. Cost(w) = Cost(shown) + Cost({q})
    BY <1>8, <2>5
  <2>8. Cost(shown \cup {o}) + Sizes[q.turn].user > Budget
    BY <2>1, <2>5, <2>6, <2>7, ConversationAssumption
  <2> QED BY <2>2, <2>3, <2>8
<1> QED BY <1>9, <1>10, <1>11 DEF NewestThatFit

-----------------------------------------------------------------------------
(* The turns of a conversation.                                            *)

\* Turns are numbered as they begin; in a conversation that a turn has for
\* itself all other rows are of earlier turns.
OwnTurn(r) ==
  LET c == tx[r].conversation
  IN  phase[r] \in Asking \cup (Asked \ {"tell"}) /\ c \notin contended =>
        \A m \in messages[c] :
          m.turn < tx[r].turn \/ (phase[r] \in Asked /\ m.sequence_no = Cardinality(messages[c]))

TurnsInv ==
  /\ \A c \in Conversation : \A m \in messages[c] : m.turn <= turns
  /\ \A r \in Request : tx[r].turn <= turns
  /\ \A r \in Request : OwnTurn(r)

\* What PriorTurnsOnly says of one turn.
PriorOf(r) ==
  phase[r] = "think" =>
    LET c == tx[r].conversation
        shown == tx[r].history
        hidden == {m \in messages[c] : m.turn < tx[r].turn} \ shown
    IN
    /\ Cost(shown) <= Budget
    /\ c \notin contended => NewestThatFit(shown, hidden, tx[r].turn)

HistoryInv == ChatInv /\ TurnsInv /\ \A r \in Request : PriorOf(r)

\* What a step of one request does to the conversations of the others.
LEMMA Elsewhere ==
  ASSUME ChatInv, NEW r \in Request, Step(r)
  PROVE  /\ \A s \in Request : s # r => phase'[s] = phase[s] /\ tx'[s] = tx[s]
         /\ contended \subseteq contended'
         /\ \A c \in Conversation : tx[r].conversation # c => messages'[c] = messages[c]
<1> USE DEF ChatInv
<1>1. CASE Post(r) \/ \E u \in User, c \in Conversation : DeleteRequest(r, u, c)
  BY <1>1 DEF Post, FirstMessage, NextMessage, NewTurn, DeleteRequest, Use, Advance, TypeInv
<1>2. CASE ReadNumber(r) \/ Recall(r) \/ Delete(r)
  BY <1>2 DEF ReadNumber, Recall, Delete, Advance, TypeInv
<1>3. CASE Think(r)
  BY <1>3 DEF Think, Advance, TypeInv
<1>4. CASE StoreQuestion(r) \/ StoreReply(r)
  BY <1>4 DEF StoreQuestion, StoreReply, Finish, Advance, TypeInv
<1>5. CASE Tell(r) \/ Forget(r) \/ Abort(r)
  BY <1>5 DEF Tell, Forget, Abort, Finish, Advance, TypeInv
<1> QED BY <1>1, <1>2, <1>3, <1>4, <1>5 DEF Step

\* A request that has its conversation for itself is not disturbed.
LEMMA Undisturbed ==
  ASSUME ChatInv, TurnsInv, \A q \in Request : PriorOf(q),
         NEW r \in Request, Step(r), NEW s \in Request, s # r
  PROVE  OwnTurn(s)' /\ PriorOf(s)'
<1> USE DEF ChatInv
<1>1. /\ phase'[s] = phase[s] /\ tx'[s] = tx[s] /\ contended \subseteq contended'
      /\ \A c \in Conversation : tx[r].conversation # c => messages'[c] = messages[c]
  BY Elsewhere
<1>2. phase[s] \in Asking \cup (Asked \ {"tell"}) => tx[s].conversation \in Conversation
  BY DEF TypeInv, PhaseType, Asking, Asked
<1>3. ASSUME tx[s].conversation \in Conversation, tx[s].conversation \notin contended'
      PROVE  messages'[tx[s].conversation] = messages[tx[s].conversation]
  BY <1>1, <1>3 DEF OneUser
<1>4. OwnTurn(s)'
  BY <1>1, <1>2, <1>3 DEF TurnsInv, OwnTurn
<1>5. PriorOf(s)'
  <2>1. CASE phase[s] # "think"
    BY <1>1, <2>1 DEF PriorOf
  <2>2. CASE phase[s] = "think" /\ tx[s].conversation \in contended'
    BY <1>1, <2>2 DEF PriorOf
  <2>3. CASE phase[s] = "think" /\ tx[s].conversation \notin contended'
    <3>1. PriorOf(s) /\ tx[s].conversation \notin contended
      BY <1>1, <2>3
    <3>2. messages'[tx[s].conversation] = messages[tx[s].conversation]
      BY <1>2, <1>3, <2>3 DEF Asked
    <3> QED BY <1>1, <2>3, <3>1, <3>2 DEF PriorOf
  <2> QED BY <2>1, <2>2, <2>3
<1> QED BY <1>4, <1>5

\* The turn that steps.
LEMMA TurnsStep ==
  ASSUME HistoryInv, ChatInv', NEW r \in Request, Step(r)
  PROVE  TurnsInv'
<1> USE DEF HistoryInv, ChatInv
<1>0. /\ turns \in Nat /\ \A c \in Conversation : \A m \in messages[c] : m.turn \in Nat
      /\ \A s \in Request : tx[s].turn \in Nat
  BY DEF TypeInv, RowType, TxType, TurnNo
<1>1. ASSUME turns \in Nat, turns' \in Nat, turns <= turns', tx'[r].turn \in Nat, tx'[r].turn <= turns', OwnTurn(r)',
             \A c \in Conversation : \A m \in messages'[c] : m \in messages[c] \/ m.turn <= turns'
      PROVE  TurnsInv'
  <2>1. \A s \in Request : OwnTurn(s)'
    BY <1>1, Undisturbed
  <2>2. \A s \in Request : tx'[s].turn <= turns'
    BY <1>0, <1>1, Elsewhere DEF TurnsInv
  <2>3. \A c \in Conversation : \A m \in messages'[c] : m.turn <= turns'
    BY <1>0, <1>1 DEF TurnsInv
  <2> QED BY <2>1, <2>2, <2>3 DEF TurnsInv
<1>2. ASSUME NEW u \in User, NEW c \in Conversation, NEW new \in BOOLEAN, NewTurn(r, u, c, new)
      PROVE  TurnsInv'
  <2>1. /\ turns' = turns + 1 /\ tx'[r].turn = turns + 1 /\ tx'[r].conversation = c
        /\ messages' = messages /\ phase'[r] = "number"
    BY <1>2 DEF NewTurn, Advance, TypeInv, NoTx
  <2>2. OwnTurn(r)'
    BY <1>0, <2>1 DEF OwnTurn, TurnsInv
  <2> QED BY <1>0, <1>1, <2>1, <2>2
<1>3. CASE ReadNumber(r) \/ Recall(r) \/ Think(r)
  <2>1. /\ turns' = turns /\ messages' = messages /\ contended' = contended
        /\ tx'[r].turn = tx[r].turn /\ tx'[r].conversation = tx[r].conversation
    <3>1. CASE ReadNumber(r) \/ Recall(r)
      BY <3>1 DEF ReadNumber, Recall, TypeInv, TxType
    <3>2. CASE Think(r)
      <4>1. tx \in [Request -> TxType] /\ UNCHANGED <<turns, messages, contended>>
        BY <3>2 DEF Think, TypeInv
      <4>2. CASE tx' = [tx EXCEPT ![r].history = {}]
        BY <4>1, <4>2 DEF TxType
      <4>3. ASSUME NEW v, tx' = [tx EXCEPT ![r].audit = v, ![r].history = {}]
            PROVE  tx'[r].turn = tx[r].turn /\ tx'[r].conversation = tx[r].conversation
        <5>1. tx' = [tx EXCEPT ![r] = [tx[r] EXCEPT !.audit = v, !.history = {}]]
          BY <4>1, <4>3
        <5>2. tx'[r] = [tx[r] EXCEPT !.audit = v, !.history = {}]
          BY <4>1, <5>1
        <5>3. tx[r] \in TxType
          BY <4>1
        <5> QED BY <5>2, <5>3 DEF TxType
      <4>4. (\E v : tx' = [tx EXCEPT ![r].audit = v, ![r].history = {}])
            \/ tx' = [tx EXCEPT ![r].history = {}]
        BY <3>2 DEF Think
      <4> QED BY <4>1, <4>2, <4>3, <4>4
    <3> QED BY <1>3, <3>1, <3>2
  <2>2. /\ phase[r] \in Asking \cup (Asked \ {"tell"})
        /\ phase[r] \in Asked <=> phase'[r] \in Asked
    BY <1>3 DEF ReadNumber, Recall, Think, Advance, TypeInv, Asking, Asked
  <2>3. OwnTurn(r)'
    BY <2>1, <2>2 DEF OwnTurn, TurnsInv
  <2> QED BY <1>0, <1>1, <2>1, <2>3 DEF TurnsInv
<1>4. CASE Tell(r) \/ Forget(r) \/ Abort(r)
  <2>1. turns' = turns /\ messages' = messages /\ tx'[r].turn = 0 /\ phase'[r] = "idle"
    BY <1>4 DEF Tell, Forget, Abort, Finish, Advance, TypeInv, NoTx
  <2> QED BY <1>0, <1>1, <2>1 DEF OwnTurn, Asking, Asked
<1>5. ASSUME NEW u \in User, NEW c \in Conversation, DeleteRequest(r, u, c)
      PROVE  TurnsInv'
  <2>1. turns' = turns /\ messages' = messages /\ tx'[r].turn = 0 /\ phase'[r] = "delete"
    BY <1>5 DEF DeleteRequest, Advance, TypeInv, NoTx
  <2> QED BY <1>0, <1>1, <2>1 DEF OwnTurn, Asking, Asked
<1>6. CASE Delete(r)
  <2>1. turns' = turns /\ tx' = tx /\ phase'[r] = "forget"
        /\ \A c \in Conversation : messages'[c] \subseteq messages[c]
    BY <1>6 DEF Delete, Advance, TypeInv
  <2> QED BY <1>0, <1>1, <2>1 DEF OwnTurn, Asking, Asked, TurnsInv
<1>7. ASSUME StoreQuestion(r) \/ StoreReply(r), Finish(r), messages' = messages
      PROVE  TurnsInv'
  <2>1. turns' = turns /\ tx'[r].turn = 0 /\ phase'[r] = "idle"
    BY <1>7 DEF StoreQuestion, StoreReply, Finish, Advance, TypeInv, NoTx
  <2> QED BY <1>0, <1>1, <1>7, <2>1 DEF OwnTurn, Asking, Asked
<1>8. ASSUME StoreReply(r), ~(Finish(r) /\ messages' = messages)
      PROVE  TurnsInv'
  <2>1. /\ turns' = turns /\ tx' = tx /\ phase'[r] = "tell"
        /\ messages' = [messages EXCEPT ![tx[r].conversation] = @ \cup {Row(r, "assistant")}]
    BY <1>8 DEF StoreReply, Advance, TypeInv
  <2>2. \A c \in Conversation : \A m \in messages'[c] : m \in messages[c] \/ m.turn = tx[r].turn
    BY <2>1 DEF TypeInv, Row
  <2>3. OwnTurn(r)'
    BY <2>1 DEF OwnTurn, Asking, Asked
  <2>4. \A c \in Conversation : \A m \in messages'[c] : m \in messages[c] \/ m.turn <= turns'
    BY <2>1, <2>2 DEF TurnsInv
  <2>5. tx'[r].turn \in Nat /\ tx'[r].turn <= turns'
    BY <1>0, <2>1 DEF TurnsInv
  <2> QED BY <1>0, <1>1, <2>1, <2>3, <2>4, <2>5
<1>9. ASSUME StoreQuestion(r), ~(Finish(r) /\ messages' = messages)
      PROVE  TurnsInv'
  <2>1. PICK c \in Conversation : c = tx[r].conversation
    BY <1>9 DEF StoreQuestion, TypeInv, PhaseType
  <2>2. /\ turns' = turns /\ contended' = contended /\ phase[r] = "ask" /\ phase'[r] = "recall"
        /\ messages' = [messages EXCEPT ![c] = @ \cup {Row(r, "user")}]
        /\ tx'[r].turn = tx[r].turn /\ tx'[r].conversation = c
    BY <1>9, <2>1 DEF StoreQuestion, Advance, TypeInv, TxType
  <2>3. /\ messages'[c] = messages[c] \cup {Row(r, "user")}
        /\ \A d \in Conversation : \A m \in messages'[d] : m \in messages[d] \/ m.turn = tx[r].turn
    BY <2>2 DEF TypeInv, Row
  <2>4. ASSUME c \notin contended
        PROVE  \A m \in messages'[c] : m.turn < tx[r].turn \/ m.sequence_no = Cardinality(messages'[c])
    <3>1. /\ \A m \in messages[c] : m.turn < tx[r].turn
          /\ tx[r].number = Cardinality(messages[c]) + 1
          /\ Numbers(c) = 1 .. Cardinality(messages[c])
      BY <2>1, <2>2, <2>4 DEF TurnsInv, OwnTurn, AloneInv, Asking, Asked
    <3>2. Numbers(c)' = 1 .. Cardinality(messages'[c])
      BY <2>2, <2>4 DEF AloneInv
    <3>3. Numbers(c)' = Numbers(c) \cup {tx[r].number}
      <4>1. Row(r, "user").sequence_no = tx[r].number
        BY DEF Row
      <4> QED BY <2>3, <4>1 DEF Numbers
    <3>4. Cardinality(messages[c]) \in Nat /\ Cardinality(messages'[c]) \in Nat
      BY FS_CardinalityType DEF TypeInv
    <3>5. \A k, n \in Nat : (1 .. k) \cup {k + 1} = 1 .. n => n = k + 1
      <4> SUFFICES ASSUME NEW k \in Nat, NEW n \in Nat, (1 .. k) \cup {k + 1} = 1 .. n
                   PROVE  n = k + 1
        OBVIOUS
      <4>1. k + 1 \in 1 .. n /\ (n # 0 => n \in (1 .. k) \cup {k + 1})
        OBVIOUS
      <4> QED BY <4>1
    <3>6. Cardinality(messages'[c]) = tx[r].number
      BY <3>1, <3>2, <3>3, <3>4, <3>5
    <3> QED BY <2>3, <3>1, <3>6 DEF Row
  <2>5. OwnTurn(r)'
    BY <2>2, <2>4 DEF OwnTurn, Asked
  <2> QED BY <1>0, <1>1, <2>2, <2>3, <2>5 DEF TurnsInv
<1> QED BY <1>2, <1>3, <1>4, <1>5, <1>6, <1>7, <1>8, <1>9
        DEF Step, Post, FirstMessage, NextMessage, StoreQuestion, StoreReply

\* A turn recalls.
LEMMA RecallPrior ==
  ASSUME HistoryInv, NEW r \in Request, Recall(r)
  PROVE  PriorOf(r)'
<1> USE DEF HistoryInv, ChatInv
<1>1. PICK c \in Conversation : c = tx[r].conversation
  BY DEF Recall, TypeInv, PhaseType
<1>2. PICK rows : rows = messages[c]
  OBVIOUS
<1>3. rows \in SUBSET RowType /\ IsFiniteSet(rows)
  BY <1>2 DEF TypeInv
<1>4. PICK h : h \in (IF rows = {} THEN {{}} ELSE Histories(rows)) /\ tx' = [tx EXCEPT ![r].history = h]
  BY <1>1, <1>2 DEF Recall
<1>5. /\ phase[r] = "recall" /\ messages' = messages /\ contended' = contended
      /\ tx'[r].history = h /\ tx'[r].conversation = c /\ tx'[r].turn = tx[r].turn
  BY <1>1, <1>4 DEF Recall, TypeInv, TxType
<1>6. Cost(h) <= Budget
  <2>1. CASE rows = {}
    <3>1. Cost({}) = 0
      BY FS_EmptySet, CostIs, TotalEmpty
    <3>2. Budget \in Nat
      BY ConversationAssumption
    <3> QED BY <1>4, <2>1, <3>1, <3>2
  <2>2. CASE rows # {}
    BY <1>3, <1>4, <2>2, HistoryFits
  <2> QED BY <2>1, <2>2
<1> DEFINE hidden == {m \in rows : m.turn < tx[r].turn} \ h
<1>7. ASSUME c \notin contended
      PROVE  NewestThatFit(h, hidden, tx[r].turn)
  <2>1. CASE rows = {}
    BY <1>4, <2>1 DEF NewestThatFit
  <2>2. CASE rows # {}
    <3>1. owner[c] # Nobody
      BY <1>2, <2>2 DEF GoneInv
    <3>2. PICK q \in rows : q.turn = tx[r].turn /\ q.role = "user" /\ q.sequence_no = Cardinality(rows)
      BY <1>1, <1>2, <1>5, <1>7, <3>1 DEF AloneInv, Asked
    <3>3. {m.sequence_no : m \in rows} = 1 .. Cardinality(rows)
      BY <1>2, <1>7 DEF AloneInv, Numbers
    <3>4. \A m \in rows : m.turn < q.turn \/ m.sequence_no = q.sequence_no
      BY <1>1, <1>2, <1>5, <1>7, <3>2 DEF TurnsInv, OwnTurn, Asked
    <3>5. h \in Histories(rows) /\ hidden = {m \in rows : m.turn < q.turn} \ h
      BY <1>4, <2>2, <3>2
    <3> HIDE DEF hidden
    <3>6. NewestThatFit(h, hidden, q.turn)
      BY <1>3, <3>2, <3>3, <3>4, <3>5, HistoryAlone
    <3> QED BY <3>2, <3>6
  <2> QED BY <2>1, <2>2
<1> QED BY <1>2, <1>5, <1>6, <1>7 DEF PriorOf

\* Only the turn that recalls gets a history; no step of another undoes it.
LEMMA HistoryStep == HistoryInv /\ [NextConversations]_conversationVars => HistoryInv'
<1> SUFFICES ASSUME HistoryInv, [NextConversations]_conversationVars PROVE HistoryInv'
  OBVIOUS
<1>1. ASSUME NEW r \in Request, Step(r) PROVE HistoryInv'
  <2>1. ChatInv'
    BY <1>1, StepKeeps DEF HistoryInv
  <2>2. TurnsInv'
    BY <1>1, <2>1, TurnsStep
  <2>3. \A s \in Request \ {r} : PriorOf(s)'
    BY <1>1, Undisturbed DEF HistoryInv
  <2>4. PriorOf(r)'
    <3>1. CASE Recall(r)
      BY <3>1, RecallPrior
    <3>2. CASE ~Recall(r)
      <4>1. phase'[r] # "think"
        BY <1>1, <3>2 DEF HistoryInv, ChatInv, TypeInv, Step, Post, FirstMessage, NextMessage, NewTurn,
             ReadNumber, StoreQuestion, Think, StoreReply, Tell, DeleteRequest, Delete, Forget, Abort,
             Finish, Advance
      <4> QED BY <4>1 DEF PriorOf
    <3> QED BY <3>1, <3>2
  <2> QED BY <2>1, <2>2, <2>3, <2>4 DEF HistoryInv
<1>2. ASSUME PublicTurn \/ (\E c \in Conversation : SessionExpires(c)) \/ UNCHANGED conversationVars
      PROVE  HistoryInv'
  <2>1. ChatInv'
    BY <1>2, OthersKeep DEF HistoryInv
  <2>2. UNCHANGED <<messages, phase, tx, turns, contended>>
    BY <1>2 DEF PublicTurn, SessionExpires, conversationVars
  <2>3. TurnsInv'
    BY <2>2 DEF HistoryInv, TurnsInv, OwnTurn
  <2>4. \A r \in Request : PriorOf(r)'
    BY <2>2 DEF HistoryInv, PriorOf
  <2> QED BY <2>1, <2>3, <2>4 DEF HistoryInv
<1> QED BY <1>1, <1>2 DEF NextConversations

\* Agents are shown the newest of the earlier messages that fit the budget,
\* and never the question itself, unless another request uses the
\* conversation; and never more than the budget (recent_messages_within_tokens,
\* whose newest row _prepare_turn takes for the question).
THEOREM HistoriesArePrior == ConversationSpec => []PriorTurnsOnly
<1>1. InitConversations => HistoryInv
  <2> SUFFICES ASSUME InitConversations PROVE HistoryInv
    OBVIOUS
  <2>1. \A r \in Request : phase[r] = "idle" /\ tx[r].turn = 0
    BY DEF InitConversations, NoTx
  <2>2. TurnsInv /\ \A r \in Request : PriorOf(r)
    BY <2>1 DEF InitConversations, TurnsInv, OwnTurn, PriorOf, Asking, Asked
  <2> QED BY <2>2, InitChat DEF HistoryInv
<1>2. HistoryInv => PriorTurnsOnly
  BY DEF HistoryInv, PriorOf, PriorTurnsOnly, NewestThatFit
<1> QED BY <1>1, <1>2, HistoryStep, PTL DEF ConversationSpec
=============================================================================
