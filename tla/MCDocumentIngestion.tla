------------------------- MODULE MCDocumentIngestion -------------------------
(***************************************************************************)
(* Two versions of one document, and another document with the bytes of    *)
(* the first.  Everything at once is too much, so a behaviour has one of   *)
(* several loads: how many workers and administrators are at work at a     *)
(* time, and how many uploads there are.                                   *)
(***************************************************************************)
EXTENDS DocumentIngestion, TLC

CONSTANT Loads

VARIABLE load

Titles == <<"handbook", "handbook", "copy of the handbook">>

Contents == <<"2025", "2026", "2025">>

Load(workers, admins, uploads) == [workers |-> workers, admins |-> admins, uploads |-> uploads]

\* Many uploads, retried one at a time; retries of a worker's jobs that
\* overlap; and both workers with both retries.
EveryLoad == {Load(2, 1, 3), Load(1, 2, 2), Load(2, 2, 1)}

OneDocument == {Load(1, 2, 1)}

Within(processes, limit) == Cardinality({p \in processes : batch'[p] # {}}) <= limit

LoadedInit == Init /\ load \in Loads

LoadedNext ==
  /\ Next
  /\ Within(Worker, load.workers) /\ Within(Admin, load.admins)
  /\ \A i \in Version : i > load.uploads => upload'[i].at = "none"
  /\ UNCHANGED load

LoadedSpec == LoadedInit /\ [][LoadedNext]_<<vars, load>>

Alike == Permutations(Worker) \cup Permutations(Admin)
=============================================================================
