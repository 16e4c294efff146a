----------------------------- MODULE Conversations -----------------------------
(***************************************************************************)
(* The stored chat (api/routes/chat.py, repositories/conversation.py): a   *)
(* turn stores the question, recalls the messages before it, lets the      *)
(* agents think, and stores the reply.  A user may send several messages   *)
(* to one conversation at once and may delete it meanwhile.                *)
(*                                                                         *)
(* What the agents answer is a choice (Outcomes); of the leave agent's     *)
(* session store only the conversations with a session are kept.           *)
(***************************************************************************)
EXTENDS Naturals, Sequences, FiniteSets, FiniteSetsExt

CONSTANTS
  Request,       (* concurrent request handlers, each with its own DB session *)
  User,
  Conversation,  (* the identifiers that conversations may get                *)
  Sizes,         (* the estimated tokens of the question and the reply of each turn *)
  Budget,        (* _HISTORY_TOKEN_BUDGET                                     *)
  Doubtful,      (* bound: the turns whose answer may be a bad one            *)
  Nobody

ASSUME ConversationAssumption ==
  /\ Sizes \in Seq([user : Nat \ {0}, assistant : Nat \ {0}])
  /\ Budget \in Nat
  /\ Nobody \notin Request \cup User \cup Conversation

VARIABLES
  drawn,     (* the identifiers in use or used before                        *)
  owner,     (* user of each conversation, Nobody before its creation and after its deletion *)
  messages,  (* the committed rows of each conversation                      *)
  audits,    (* audit records of bad answers                                 *)
  sessions,  (* the conversations with a session in the leave store          *)
  phase,     (* where each request stands                                    *)
  tx,        (* what it holds in memory                                      *)
  turns,     (* how many turns have begun; they are numbered in this order   *)
  told,      (* the turns whose reply the client has received, and of which conversation *)
  dropped,   (* the conversations whose deletion has been answered           *)
  contended  (* the conversations that two requests used at once             *)

conversationVars == <<drawn, owner, messages, audits, sessions, phase, tx, turns, told, dropped, contended>>
-----------------------------------------------------------------------------
\* Bound: no turn begins after those that Sizes describes.
TurnNo == 1 .. Len(Sizes)

Sender == {"user", "assistant"}

Actions == {"LOW_CONFIDENCE_ANSWER", "NO_INFO_ANSWER"}

\* sequence_no orders a conversation; the content is that of the turn.
RowType == [turn : TurnNo, role : Sender, sequence_no : Nat \ {0}]

\* What a turn or a deletion knows: its conversation, the number it read,
\* the history, and the audit its answer calls for.
TxType ==
  [turn : TurnNo \cup {0}, user : User \cup {Nobody}, conversation : Conversation \cup {Nobody},
   new : BOOLEAN, number : Nat, history : SUBSET RowType,
   audit : Actions \cup {"none"}]

NoTx ==
  [turn |-> 0, user |-> Nobody, conversation |-> Nobody, new |-> FALSE, number |-> 0,
   history |-> {}, audit |-> "none"]

\* What the knowledge agent may report of a turn, and no_result for the rest.
Outcomes ==
  [no_result : BOOLEAN, excused : BOOLEAN, low_confidence : BOOLEAN, cited : BOOLEAN,
   blocked : BOOLEAN, concedes : BOOLEAN]

\* excused: the knowledge base is empty, or the matches are restricted;
\* concedes: the reply says that the documents do not tell.
BadAnswer(o) ==
  CASE o.no_result \/ o.excused        -> "none"
    [] o.low_confidence \/ ~o.cited    -> "LOW_CONFIDENCE_ANSWER"
    [] o.blocked \/ o.concedes         -> "NO_INFO_ANSWER"
    [] OTHER                           -> "none"

BadAnswers == {BadAnswer(o) : o \in Outcomes}

Cost(rows) == MapThenSumSet(LAMBDA m : Sizes[m.turn][m.role], rows)

Numbers(c) == {m.sequence_no : m \in messages[c]}

\* A mutant: the first message of a conversation has number 1 and others repeat the last.
LastSequence(c) == IF Numbers(c) = {} THEN 1 ELSE Max(Numbers(c))

NextSequence(c) == IF Numbers(c) = {} THEN 1 ELSE Max(Numbers(c)) + 1

\* The newest rows that fit the budget, and at least one.  Rows of one number
\* come in any order.
Recent(rows) ==
  {w \in SUBSET rows \ {{}} :
     LET older == rows \ w IN
     /\ \A m \in w, o \in older : m.sequence_no >= o.sequence_no
     /\ Cardinality(w) = 1 \/ Cost(w) <= Budget
     /\ older = {} \/ \E o \in older :
          /\ \A p \in older : o.sequence_no >= p.sequence_no
          /\ Cost(w) + Cost({o}) > Budget}

\* A mutant: the newest message is not taken off.
WholeRecent(rows) == Recent(rows)

\* The newest message of the window is taken for the question and left out.
Histories(rows) ==
  UNION {{w \ {m} : m \in {n \in w : \A o \in w : n.sequence_no >= o.sequence_no}} :
           w \in Recent(rows)}

-----------------------------------------------------------------------------
Advance(r, point) == phase' = [phase EXCEPT ![r] = point]

\* A mutant: the request's objects outlive it.
FinishKeeping(r) == Advance(r, "idle") /\ UNCHANGED tx

Finish(r) ==
  /\ Advance(r, "idle")
  /\ tx' = [tx EXCEPT ![r] = NoTx]

\* The first request to use a conversation has it for itself.
Use(r, c) ==
  contended' = IF \E o \in Request : tx[o].conversation = c
               THEN contended \cup {c} ELSE contended

NewTurn(r, u, c, new) ==
  /\ phase[r] = "idle"
  /\ turns + 1 \in TurnNo
  /\ turns' = turns + 1
  /\ tx' = [tx EXCEPT ![r] = [NoTx EXCEPT !.turn = turns + 1, !.user = u, !.conversation = c,
                                          !.new = new]]
  /\ Advance(r, "number")
  /\ Use(r, c)
  /\ UNCHANGED <<owner, messages, audits, sessions, told, dropped>>

-----------------------------------------------------------------------------
(***************************************************************************)
(* _prepare_turn.  A message that is empty, or for a conversation of       *)
(* somebody else, is refused before anything is stored.                    *)
(***************************************************************************)
FirstMessage(r, u, c) ==
  /\ c \notin drawn
  /\ drawn' = drawn \cup {c}
  /\ NewTurn(r, u, c, TRUE)

NextMessage(r, u, c) ==
  /\ owner[c] = u
  /\ NewTurn(r, u, c, FALSE)
  /\ UNCHANGED drawn

\* append_message reads the number of the question or of the reply.
ReadNumber(r) ==
  /\ phase[r] \in {"number", "reply"}
  /\ tx' = [tx EXCEPT ![r].number = NextSequence(tx[r].conversation)]
  /\ Advance(r, IF phase[r] = "number" THEN "ask" ELSE "answer")
  /\ UNCHANGED <<drawn, owner, messages, audits, sessions, turns, told, dropped, contended>>

Row(r, role) == [turn |-> tx[r].turn, role |-> role, sequence_no |-> tx[r].number]

\* Whether the foreign key of a message finds the conversation.
Exists(r) == tx[r].new \/ owner[tx[r].conversation] # Nobody

\* The question is stored and committed, with the conversation if that is new.
StoreQuestion(r) ==
  /\ phase[r] = "ask"
  /\ \/ ~Exists(r) /\ Finish(r) /\ UNCHANGED <<owner, messages>>
     \/ /\ Exists(r)
        /\ owner' = [owner EXCEPT ![tx[r].conversation] = tx[r].user]
        /\ messages' = [messages EXCEPT ![tx[r].conversation] = @ \cup {Row(r, "user")}]
        /\ tx' = [tx EXCEPT ![r].new = FALSE]
        /\ Advance(r, "recall")
  /\ UNCHANGED <<drawn, audits, sessions, turns, told, dropped, contended>>

\* recent_messages_within_tokens; nothing is left of a deleted conversation.
Recall(r) ==
  /\ phase[r] = "recall"
  /\ LET rows == messages[tx[r].conversation] IN
       \E h \in IF rows = {} THEN {{}} ELSE Histories(rows) :
         tx' = [tx EXCEPT ![r].history = h]
  /\ Advance(r, "think")
  /\ UNCHANGED <<drawn, owner, messages, audits, sessions, turns, told, dropped, contended>>

-----------------------------------------------------------------------------
(***************************************************************************)
(* The graph, and _persist_reply.                                          *)
(***************************************************************************)
\* A mutant: the agents commit the audit record themselves.
ThinkAudits(r) ==
  /\ phase[r] = "think"
  /\ \E v \in BadAnswers \ {"none"} :
       audits' = audits \cup
         {[turn |-> tx[r].turn, conversation |-> tx[r].conversation, action |-> v]}
  /\ Advance(r, "reply")
  /\ UNCHANGED <<drawn, owner, messages, sessions, tx, turns, told, dropped, contended>>

\* A knowledge turn may call for an audit; a leave turn puts its session.
Think(r) ==
  /\ phase[r] = "think"
  /\ \/ \E v \in BadAnswers :
          /\ v # "none" => tx[r].turn \in Doubtful
          /\ tx' = [tx EXCEPT ![r].audit = v, ![r].history = {}]
          /\ UNCHANGED sessions
     \/ /\ sessions' = sessions \cup {tx[r].conversation}
        /\ tx' = [tx EXCEPT ![r].history = {}]
  /\ Advance(r, "reply")
  /\ UNCHANGED <<drawn, owner, messages, audits, turns, told, dropped, contended>>

Audit(r) ==
  IF tx[r].audit = "none" THEN {}
  ELSE {[turn |-> tx[r].turn, conversation |-> tx[r].conversation, action |-> tx[r].audit]}

\* The reply and the audit record are committed together.
StoreReply(r) ==
  /\ phase[r] = "answer"
  /\ \/ ~Exists(r) /\ Finish(r) /\ UNCHANGED <<messages, audits>>
     \/ /\ Exists(r)
        /\ messages' = [messages EXCEPT ![tx[r].conversation] = @ \cup {Row(r, "assistant")}]
        /\ audits' = audits \cup Audit(r)
        /\ UNCHANGED tx
        /\ Advance(r, "tell")
  /\ UNCHANGED <<drawn, owner, sessions, turns, told, dropped, contended>>

\* The response, or the last event of the stream.
Tell(r) ==
  /\ phase[r] = "tell"
  /\ told' = told \cup {[turn |-> tx[r].turn, conversation |-> tx[r].conversation]}
  /\ Finish(r)
  /\ UNCHANGED <<drawn, owner, messages, audits, sessions, turns, dropped, contended>>

\* Bound: anonymous turns, which share nothing with the stored ones, come
\* after them.
Over == turns = Len(Sizes) /\ \A r \in Request : phase[r] = "idle"

\* A turn of an anonymous chat stores nothing but the audit record.
PublicTurn ==
  /\ Over
  /\ \E v \in BadAnswers \ {"none"} :
       audits' = audits \cup {[turn |-> 0, conversation |-> Nobody, action |-> v]}
  /\ UNCHANGED <<drawn, owner, messages, sessions, phase, tx, turns, told, dropped, contended>>

-----------------------------------------------------------------------------
(***************************************************************************)
(* delete_conversation.                                                    *)
(***************************************************************************)
DeleteRequest(r, u, c) ==
  /\ phase[r] = "idle"
  /\ owner[c] = u
  /\ tx' = [tx EXCEPT ![r] = [NoTx EXCEPT !.user = u, !.conversation = c]]
  /\ Advance(r, "delete")
  /\ Use(r, c)
  /\ UNCHANGED <<drawn, owner, messages, audits, sessions, turns, told, dropped>>

\* The rows go, with what was inserted meanwhile: the foreign keys cascade.
Delete(r) ==
  /\ phase[r] = "delete"
  /\ owner' = [owner EXCEPT ![tx[r].conversation] = Nobody]
  /\ messages' = [messages EXCEPT ![tx[r].conversation] = {}]
  /\ Advance(r, "forget")
  /\ UNCHANGED <<drawn, audits, sessions, tx, turns, told, dropped, contended>>

\* A mutant: the store is not told.
ForgetNothing(r) ==
  /\ phase[r] = "forget"
  /\ dropped' = dropped \cup {tx[r].conversation}
  /\ Finish(r)
  /\ UNCHANGED <<drawn, owner, messages, audits, sessions, turns, told, contended>>

\* The leave store forgets its session, and the request is answered.
Forget(r) ==
  /\ phase[r] = "forget"
  /\ sessions' = sessions \ {tx[r].conversation}
  /\ dropped' = dropped \cup {tx[r].conversation}
  /\ Finish(r)
  /\ UNCHANGED <<drawn, owner, messages, audits, turns, told, contended>>

\* An exception, in the graph too, a disconnect or the end of the process.
Abort(r) ==
  /\ phase[r] # "idle"
  /\ Finish(r)
  /\ UNCHANGED <<drawn, owner, messages, audits, sessions, turns, told, dropped, contended>>

\* The store's time to live.
SessionExpires(c) ==
  /\ c \in sessions
  /\ sessions' = sessions \ {c}
  /\ UNCHANGED <<drawn, owner, messages, audits, phase, tx, turns, told, dropped, contended>>

InitConversations ==
  /\ drawn = {}
  /\ owner = [c \in Conversation |-> Nobody]
  /\ messages = [c \in Conversation |-> {}]
  /\ audits = {} /\ sessions = {} /\ told = {} /\ dropped = {} /\ contended = {}
  /\ phase = [r \in Request |-> "idle"]
  /\ tx = [r \in Request |-> NoTx]
  /\ turns = 0

Post(r) ==
  \E u \in User, c \in Conversation : FirstMessage(r, u, c) \/ NextMessage(r, u, c)

Step(r) ==
  \/ Post(r) \/ ReadNumber(r) \/ StoreQuestion(r) \/ Recall(r) \/ Think(r) \/ StoreReply(r) \/ Tell(r)
  \/ \E u \in User, c \in Conversation : DeleteRequest(r, u, c)
  \/ Delete(r) \/ Forget(r) \/ Abort(r)

NextConversations ==
  \/ \E r \in Request : Step(r)
  \/ PublicTurn
  \/ \E c \in Conversation : SessionExpires(c)

ConversationSpec == InitConversations /\ [][NextConversations]_conversationVars

-----------------------------------------------------------------------------
\* Type invariant.  A request at rest holds nothing of its last turn.
ConversationTypeOK ==
  /\ drawn \subseteq Conversation /\ dropped \subseteq drawn
  /\ owner \in [Conversation -> User \cup {Nobody}]
  /\ \A c \in Conversation : messages[c] \subseteq RowType
  /\ \A a \in audits :
       a.turn \in TurnNo \cup {0} /\ a.conversation \in Conversation \cup {Nobody} /\ a.action \in Actions
  /\ sessions \subseteq Conversation /\ contended \subseteq Conversation
  /\ phase \in [Request -> {"idle", "number", "ask", "recall", "think", "reply", "answer", "tell",
                            "delete", "forget"}]
  /\ \A r \in Request :
       /\ tx[r].turn \in TurnNo \cup {0} /\ tx[r].conversation \in Conversation \cup {Nobody}
       /\ tx[r].number \in Nat /\ tx[r].history \subseteq RowType
       /\ tx[r].audit \in Actions \cup {"none"}
       /\ phase[r] = "idle" => tx[r] = NoTx
  /\ turns \in 0 .. Len(Sizes)
  /\ \A t \in told : t.turn \in TurnNo /\ t.conversation \in Conversation

\* In every interleaving a reply has a larger number than its question.  While
\* a conversation is used by one request at a time its numbers are 1, 2, 3...,
\* and a reply comes right after its question, whatever turns broke off.
Transcript ==
  \A c \in Conversation :
    /\ \A m \in messages[c] : m.role = "assistant" =>
         \E q \in messages[c] :
           /\ q.turn = m.turn /\ q.role = "user"
           /\ IF c \in contended THEN q.sequence_no < m.sequence_no
              ELSE q.sequence_no + 1 = m.sequence_no
    /\ c \notin contended => Numbers(c) = 1 .. Cardinality(messages[c])

\* What the agents are shown never exceeds the budget, and unless another
\* request used the conversation it is the newest of the earlier messages
\* without a gap, without the question itself, and all that fit.
PriorTurnsOnly ==
  \A r \in Request : phase[r] = "think" =>
    LET c == tx[r].conversation
        shown == tx[r].history
        hidden == {m \in messages[c] : m.turn < tx[r].turn} \ shown
    IN
    /\ Cost(shown) <= Budget
    /\ c \notin contended =>
         /\ \A m \in shown : m.turn < tx[r].turn
         /\ \A m \in shown, h \in hidden : h.sequence_no < m.sequence_no
         /\ hidden # {} =>
              LET newest == CHOOSE h \in hidden : \A o \in hidden : o.sequence_no <= h.sequence_no
              IN Cost(shown \cup {newest}) + Sizes[tx[r].turn].user > Budget

Replied(turn, c) == \E m \in messages[c] : m.turn = turn /\ m.role = "assistant"

\* A reply that a client received, and one that was audited as a bad answer,
\* is in the transcript as long as there is one.  Nothing comes back of a
\* conversation whose deletion was answered, not even from a turn that was
\* under way; of the leave session that holds unless there was such a turn.
Accounted ==
  /\ \A t \in told : owner[t.conversation] # Nobody => Replied(t.turn, t.conversation)
  /\ \A a \in audits : a.conversation # Nobody /\ owner[a.conversation] # Nobody =>
       Replied(a.turn, a.conversation)
  /\ \A c \in dropped :
       /\ owner[c] = Nobody /\ messages[c] = {}
       /\ c \notin contended => c \notin sessions
=============================================================================
