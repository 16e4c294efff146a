--------------------------- MODULE MCLeaveAndOutbox ---------------------------
(***************************************************************************)
(* The leave service and the workers that drain the outbox, checked side   *)
(* by side: what the jobs say is nothing to the workers, so the two share  *)
(* no state, and every behaviour is a behaviour of one of them, whose      *)
(* other one stays as it begins.                                           *)
(***************************************************************************)
EXTENDS MCLeaveRequests, MCOutboxWorker

VARIABLE part

InitEither == part \in {"leave", "outbox"} /\ Init /\ InitOutbox

EitherMoves ==
  \/ part = "leave" /\ Next /\ UNCHANGED <<part, outboxVars>>
  \/ part = "outbox" /\ NextOutbox /\ UNCHANGED <<part, vars>>

SideBySide ==
  /\ InitEither /\ [][EitherMoves]_<<part, vars, outboxVars>>
  /\ Fairness /\ WorkersRun
=============================================================================
