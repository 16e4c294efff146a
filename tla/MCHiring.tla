------------------------------- MODULE MCHiring -------------------------------
(***************************************************************************)
(* An instance of recruitment: one candidate, two vacancies.               *)
(***************************************************************************)
EXTENDS Hiring, TLC

CONSTANTS s1, s2, v1, v2, Ann

Edit(to, names, others) == [to |-> to, names |-> names, others |-> others]

\* Restating the employment, and ending it along with a change of name.
SomeEdits == {Edit("ACTIVE", FALSE, FALSE), Edit("INACTIVE", TRUE, FALSE)}

Alike == Permutations({s1, s2}) \cup Permutations({v1, v2})
=============================================================================
