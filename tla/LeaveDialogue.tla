----------------------------- MODULE LeaveDialogue -----------------------------
(***************************************************************************)
(* One conversation with the leave assistant, turn after turn: which       *)
(* handler takes a message (agents/leave_agent/agent.py), how a draft      *)
(* grows from what is said, and what is staged, shown and executed.        *)
(* ConfirmationGate has the same session under concurrent turns, without   *)
(* the contents.                                                           *)
(*                                                                         *)
(* A message is the set of the handlers' words in it, the leave type and   *)
(* the request number it mentions, the half of a day, and what it says     *)
(* about dates.  What the language model answers is any of its actions;    *)
(* the leave service may refuse whatever it is asked.                      *)
(***************************************************************************)
EXTENDS LeaveDates, FiniteSets

CONSTANTS
  Message,      (* [words, type, number, half, says] *)
  LeaveType,
  Submission,   (* what the model may put into a submission: [type, from, to, half] *)
  LastDay,      (* bound on the date of the conversation *)
  None

ASSUME DialogueAssumption ==
  /\ \A m \in Message :
       /\ m.type \in LeaveType \cup {None} /\ m.half \in {"NO", "MORNING", "AFTERNOON"}
       /\ m.says.form \in Forms /\ {m.says.first, m.says.last} \subseteq Phrases
       /\ m.says.days \in Nat
  /\ \A s \in Submission : {s.from, s.to} \subseteq Nat /\ s.half \in {"NO", "MORNING", "AFTERNOON"}
  /\ LastDay \in Nat /\ None \notin LeaveType

VARIABLES
  role,       (* of the user: EMPLOYEE or HR_ADMIN                       *)
  today,
  draft,      (* the request in progress, or None                        *)
  pending,    (* the staged write, or None                               *)
  shown,      (* the last summary that asked for a confirmation, None    *)
              (* once the user has said something else or time is up     *)
  expired,    (* whether the staged write is older than five minutes     *)
  executed    (* the write that the last turn executed, or None          *)

dialogue == <<role, today, draft, pending, shown, expired, executed>>
-----------------------------------------------------------------------------
Says(m, words) == m.words \cap words # {}

HalfDay == {"NO", "MORNING", "AFTERNOON"}

NewDraft == [type |-> None, from |-> NoDay, to |-> NoDay, half |-> "NO"]

IsComplete(d) ==
  d.type # None /\ d.from # NoDay /\ (d.half # "NO" \/ d.to # NoDay)

\* _draft_canonical
Submit(d) ==
  [tool |-> "submit", type |-> d.type, from |-> d.from, half |-> d.half,
   to |-> IF d.to = NoDay THEN d.from ELSE d.to]

Cancel(number) == [tool |-> "cancel", number |-> number]

Decide(number, approve) == [tool |-> "decide", number |-> number, approve |-> approve]

\* What the preflight checks by itself: the role, and the dates.
Preflight(write) ==
  CASE write.tool = "submit" ->
         /\ role = "EMPLOYEE" /\ write.type \in LeaveType /\ write.from <= write.to
         /\ write.half # "NO" => write.from = write.to
    [] write.tool = "cancel" -> role = "EMPLOYEE"
    [] write.tool = "decide" -> role = "HR_ADMIN"

\* The write is staged and its summary shown.
Stage(write) ==
  /\ Preflight(write)
  /\ pending' = write /\ shown' = write /\ expired' = FALSE

\* Whatever was staged is no longer meant.
Supersede == pending' = None /\ shown' = None /\ UNCHANGED expired

\* The reply is all there is to it.
Say == UNCHANGED <<draft, pending, shown, expired>>

-----------------------------------------------------------------------------
(***************************************************************************)
(* The handlers before the model, in their order.                          *)
(***************************************************************************)
\* _intercept_list_requests, _holidays_, _team_calendar_ and _types_question.
Listing(m) == Says(m, {"listing"})

Acts(m) == Says(m, {"cancel", "reject", "approve"})

Drops(m) == draft # None /\ Says(m, {"drop"})

\* _is_request_intent
Wants(m) == Says(m, {"want"}) /\ ~Says(m, {"balance"})

\* Answers of _intercept_draft_turn that touch nothing: a recap, the refusal
\* of an administrator's own leave, a balance.
Answers(m) ==
  \/ Says(m, {"history"})
  \/ role = "EMPLOYEE" /\ Says(m, {"balance"})
  \/ role = "HR_ADMIN" /\ (Says(m, {"employee"}) \/ (Wants(m) /\ ~Says(m, {"review"})))

Drop == draft' = None /\ Supersede

\* The draft with the half of the day that the message asks for.
Halved(d, m, from) ==
  IF m.half = "NO" THEN d
  ELSE IF from = NoDay THEN [d EXCEPT !.half = m.half]
  ELSE [d EXCEPT !.half = m.half, !.from = from, !.to = from]

\* A single date that does not precede the start of a draft is its end.
DatesGiven(d, m) ==
  LET from == Start(m.says, today)
      to   == End(m.says, today)
  IN
  IF draft = None \/ d.from = NoDay \/ to # NoDay THEN [from |-> from, to |-> to]
  ELSE IF from = NoDay THEN [from |-> NoDay, to |-> LaterEnd(m.says, d.from)]
  ELSE IF from >= d.from THEN [from |-> NoDay, to |-> from]
  ELSE [from |-> from, to |-> NoDay]

Halving(m) ==
  Halved(IF draft = None THEN NewDraft ELSE draft, m, Start(m.says, today))

Grown(m) ==
  LET d == Halving(m)
      given == DatesGiven(d, m)
  IN [type |-> IF d.type = None THEN m.type ELSE d.type,
      from |-> IF given.from = NoDay THEN d.from ELSE given.from,
      to   |-> IF given.to = NoDay THEN d.to ELSE given.to,
      half |-> d.half]

Opens(m) == draft # None \/ (Wants(m) /\ Start(m.says, today) # NoDay)

Progress(m) ==
  /\ Opens(m)
  /\ \/ DatesGiven(Halving(m), m) # [from |-> NoDay, to |-> NoDay]
     \/ Halving(m).type # Grown(m).type

\* A mutant: the staged write survives the new dates.
GrowDraftBesidePending(m) ==
  /\ draft' = Grown(m)
  /\ shown' = None
  /\ UNCHANGED <<pending, expired>>

\* _intercept_draft_turn: new dates or a type supersede the staged write, and
\* a complete draft is staged, or stays if it is refused.
GrowDraft(m) ==
  \/ draft' = Grown(m) /\ Supersede
  \/ IsComplete(Grown(m)) /\ draft' = None /\ Stage(Submit(Grown(m)))

\* _intercept_employee_cancel and _intercept_hr_reference_write: the wish to
\* cancel or decide supersedes draft and staged write; with a number the new
\* write is staged.
Pivots(m) ==
  /\ Says(m, {"leave"})
  /\ \/ role = "EMPLOYEE" /\ Says(m, {"cancel"})
     \/ role = "HR_ADMIN" /\ (Acts(m) \/ Says(m, {"review"}))

Meant(m) ==
  IF role = "EMPLOYEE" THEN Cancel(m.number) ELSE Decide(m.number, Says(m, {"approve"}))

\* An administrator who asks about a pending request by its number rejects it.
Names(m) == m.number # None /\ (role = "EMPLOYEE" \/ Says(m, {"approve", "reject", "review"}))

Pivot(m) ==
  /\ draft' = None
  /\ Supersede \/ (Names(m) /\ Stage(Meant(m)))

-----------------------------------------------------------------------------
(***************************************************************************)
(* The model's actions.  A message that was not enough to grow a draft may *)
(* have changed its half of the day.                                       *)
(***************************************************************************)
Held(m) == IF draft = None \/ Acts(m) THEN draft ELSE Halving(m)

Reply(m) == draft' = Held(m) /\ UNCHANGED <<pending, shown, expired>>

\* A balance or the leave types, with the question for the dates.
Read(m) ==
  /\ Held(m) = None
  /\ \E t \in LeaveType \cup {None} : draft' = [NewDraft EXCEPT !.type = t]
  /\ UNCHANGED <<pending, shown, expired>>

Writes ==
  LET numbers == {m.number : m \in Message} \ {None} IN
  {Submit(s) : s \in Submission} \cup
  {Cancel(n) : n \in numbers} \cup {Decide(n, approve) : n \in numbers, approve \in BOOLEAN}

Refused == UNCHANGED <<pending, shown, expired>>

\* _handle_stage: a complete draft takes the place of what the model submits.
\* A refusal leaves an earlier staged write as it is.
ModelStage(m, write) ==
  IF write.tool = "submit" /\ Held(m) # None /\ IsComplete(Held(m))
  THEN draft' = None /\ (Refused \/ Stage(Submit(Held(m))))
  ELSE draft' = Held(m) /\ (Refused \/ Stage(write))

\* A mutant: the arguments are not compared.
MatchesByTool(write) == pending # None /\ pending.tool = write.tool

Matches(write) == pending # None /\ pending = write

\* _handle_confirmed_write
Confirm(m, write) ==
  /\ pending' = None
  /\ executed' \in (IF Matches(write) /\ ~expired THEN {write, None} ELSE {None})
  /\ draft' = Held(m)
  /\ UNCHANGED <<shown, expired>>

Model(m) ==
  \/ Reply(m) /\ executed' = None
  \/ Read(m) /\ executed' = None
  \/ \E write \in Writes :
       \/ ModelStage(m, write) /\ executed' = None
       \/ Confirm(m, write)

-----------------------------------------------------------------------------
\* handle_turn
Turn(m) ==
  /\ \/ Listing(m) /\ Say /\ executed' = None
     \/ ~Listing(m) /\ Drops(m) /\ Drop /\ executed' = None
     \/ /\ ~Listing(m) /\ ~Drops(m) /\ ~Acts(m)
        /\ \/ Answers(m) /\ Say
           \/ ~Answers(m) /\ Progress(m) /\ GrowDraft(m)
        /\ executed' = None
     \/ /\ ~Listing(m) /\ ~Drops(m) /\ (Acts(m) \/ (~Answers(m) /\ ~Progress(m)))
        /\ IF Pivots(m) THEN Pivot(m) /\ executed' = None ELSE Model(m)
  /\ UNCHANGED <<role, today>>

\* Five minutes after the summary; a session restored later lacks the write.
Expire ==
  /\ pending # None /\ ~expired
  /\ expired' = TRUE /\ shown' = None
  /\ executed' = None
  /\ UNCHANGED <<role, today, draft, pending>>

Restore ==
  /\ pending' = IF expired THEN None ELSE pending
  /\ executed' = None
  /\ UNCHANGED <<role, today, draft, shown, expired>>

Midnight ==
  /\ today < LastDay
  /\ today' = today + 1
  /\ executed' = None
  /\ UNCHANGED <<role, draft, pending, shown, expired>>

InitDialogue ==
  /\ role \in {"EMPLOYEE", "HR_ADMIN"}
  /\ today = 0
  /\ draft = None /\ pending = None /\ shown = None /\ executed = None
  /\ expired = FALSE

NextDialogue == (\E m \in Message : Turn(m)) \/ Expire \/ Restore \/ Midnight

DialogueSpec == InitDialogue /\ [][NextDialogue]_dialogue

-----------------------------------------------------------------------------
\* Type invariant.  A draft that is complete may stay when it was refused.
DialogueTypeOK ==
  LET Write == {Cancel(m.number) : m \in Message}
               \cup {Decide(m.number, approve) : m \in Message, approve \in BOOLEAN}
               \cup [tool : {"submit"}, type : LeaveType, from : Nat, to : Nat, half : HalfDay]
               \cup {None}
  IN
  /\ role \in {"EMPLOYEE", "HR_ADMIN"} /\ today \in 0 .. LastDay
  /\ draft \in [type : LeaveType \cup {None}, from : Nat \cup {NoDay}, to : Nat \cup {NoDay},
                half : HalfDay] \cup {None}
  /\ {pending, shown, executed} \subseteq Write
  /\ expired \in BOOLEAN

\* Whatever is said and whatever the model answers, a write that is executed
\* is the one the last summary showed: for what the user's role may do, with a
\* possible span of days, and with no new dates, no dropped draft, no other
\* wish and no five minutes since.
ConfirmedAsShown ==
  executed # None => executed = shown /\ Preflight(executed)
=============================================================================
