---------------------------- MODULE MCOutboxWorker ----------------------------
(***************************************************************************)
(* An instance of the outbox: a job of each kind.                          *)
(***************************************************************************)
EXTENDS OutboxWorker

OneOfEach == <<"mail", "evaluation", "no recipient">>
=============================================================================
