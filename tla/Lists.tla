--------------------------------- MODULE Lists ---------------------------------
(***************************************************************************)
(* Lists that are made by going through another list once and leaving some *)
(* of its members out: the citations of an answer                          *)
(* (agents/knowledge_agent/agent.py:203), the lines of the .env file       *)
(* without a setting (repositories/env_settings.py:110).                   *)
(***************************************************************************)
EXTENDS Integers, FiniteSets, SequencesExt

Ascending(numbers) ==
  CHOOSE s \in SetToSeqs(numbers) : \A i, j \in DOMAIN s : i < j => s[i] < s[j]

\* What stands at these places of the list, in its order.
Picked(list, places) ==
  LET at == Ascending(places) IN [i \in DOMAIN at |-> list[at[i]]]
===============================================================================
