-------------------------- MODULE MCConfirmationGate --------------------------
(***************************************************************************)
(* Instances of the confirmation gate: one process, or two.                *)
(***************************************************************************)
EXTENDS ConfirmationGate, TLC

CONSTANTS t1, t2, w1, w2

InMemory(writes, deaths) ==
  [redis |-> FALSE, workerOf |-> (t1 :> w1 @@ t2 :> w1),
   maxStages |-> writes, maxCrashes |-> deaths]

TwoWorkers(writes, deaths) ==
  [redis |-> TRUE, workerOf |-> (t1 :> w1 @@ t2 :> w2),
   maxStages |-> writes, maxCrashes |-> deaths]

EveryDeployment == {InMemory(1, 1), TwoWorkers(1, 1)}

TwoWorkersOnly == {TwoWorkers(2, 0)}
=============================================================================
