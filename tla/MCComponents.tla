----------------------------- MODULE MCComponents -----------------------------
(***************************************************************************)
(* The parts of the system that share no state with another one, checked   *)
(* side by side: every behaviour is a behaviour of one part, whose others  *)
(* stay as they begin.                                                     *)
(***************************************************************************)
EXTENDS MCConversations, MCAnswering, MCChunking, MCLeaveDialogue, MCSettings, MCScreening,
        MCRecruitmentAssistant, Routing, CompanyHolidays

VARIABLE part

Init ==
  /\ part \in {"conversations", "answering", "chunking", "dialogue", "routing", "holidays",
              "settings", "screening", "assistant"}
  /\ InitConversations /\ InitAnswering /\ InitChunking /\ InitDialogue /\ InitRouting /\ InitHolidays
  /\ InitSettings /\ InitScreening /\ InitAssistant
  /\ part # "dialogue" => role = "EMPLOYEE"
  /\ part # "assistant" => opened = {} /\ applied = [v \in Vacancy |-> "NONE"]
  /\ part = "assistant" => Cardinality(opened) \in 1 .. 2 /\ applied \in [Vacancy -> {"NONE", "APPLIED"}]

Next ==
  \/ /\ part = "conversations" /\ NextConversations
     /\ UNCHANGED <<part, answeringVars, blocks, dialogue, question, holidays, settingsVars, screeningVars, assistantVars>>
  \/ /\ part = "answering" /\ NextAnswering
     /\ UNCHANGED <<part, conversationVars, blocks, dialogue, question, holidays, settingsVars, screeningVars, assistantVars>>
  \/ /\ part = "chunking" /\ ReadBlock
     /\ UNCHANGED <<part, conversationVars, answeringVars, dialogue, question, holidays, settingsVars, screeningVars, assistantVars>>
  \/ /\ part = "dialogue" /\ NextDialogue
     /\ UNCHANGED <<part, conversationVars, answeringVars, blocks, question, holidays, settingsVars, screeningVars, assistantVars>>
  \/ /\ part = "routing" /\ Send
     /\ UNCHANGED <<part, conversationVars, answeringVars, blocks, dialogue, holidays, settingsVars, screeningVars, assistantVars>>
  \/ /\ part = "holidays" /\ NextHolidays
     /\ UNCHANGED <<part, conversationVars, answeringVars, blocks, dialogue, question, settingsVars, screeningVars, assistantVars>>
  \/ /\ part = "settings" /\ NextSettings
     /\ UNCHANGED <<part, conversationVars, answeringVars, blocks, dialogue, question, holidays, screeningVars, assistantVars>>
  \/ /\ part = "screening" /\ NextScreening
     /\ UNCHANGED <<part, conversationVars, answeringVars, blocks, dialogue, question, holidays, settingsVars, assistantVars>>
  \/ /\ part = "assistant" /\ NextAssistant
     /\ UNCHANGED <<part, conversationVars, answeringVars, blocks, dialogue, question, holidays, settingsVars, screeningVars>>

Spec ==
  Init /\ [][Next]_<<part, conversationVars, answeringVars, blocks, dialogue, question, holidays, settingsVars, screeningVars, assistantVars>>
-----------------------------------------------------------------------------
\* Type invariant of the part that moves; the others are as they began.  A
\* request of the chat at rest holds nothing of its last turn, and there is no
\* reply while a question is being answered.
TypeOK ==
  CASE part = "conversations" -> ConversationTypeOK
    [] part = "answering"     -> AnsweringTypeOK
    [] part = "chunking"      -> blocks \in Seq(Block)
    [] part = "dialogue"      -> DialogueTypeOK
    [] part = "routing"       -> question \subseteq Word
    [] part = "holidays"      -> holidays \subseteq HolidayType
    [] part = "settings"      -> SettingsTypeOK
    [] part = "screening"     -> ScreeningTypeOK
    [] part = "assistant"     -> AssistantTypeOK
=============================================================================
