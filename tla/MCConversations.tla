---------------------------- MODULE MCConversations ----------------------------
(***************************************************************************)
(* An instance of the stored chat: one conversation, two requests at once. *)
(***************************************************************************)
EXTENDS Conversations, TLC

CONSTANTS r1, r2, u1, c1

Exchange(question, answer) == [user |-> question, assistant |-> answer]

\* At the third turn the first question no longer fits; a reply that exceeds
\* the budget by itself hides everything before it.
SomeSizes == <<Exchange(1, 2), Exchange(1, 5), Exchange(2, 1)>>
=============================================================================
