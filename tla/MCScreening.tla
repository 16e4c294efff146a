----------------------------- MODULE MCScreening -----------------------------
(***************************************************************************)
(* An instance of the screening: a skill with three spellings, one with    *)
(* one, and a term of no known skill in two spellings.                     *)
(***************************************************************************)
EXTENDS Screening, TLC

SomeLower ==
  [t \in {"kubernetes", "k8s", "python", "six sigma"} |-> t]
    @@ ("K8s" :> "k8s") @@ ("Kubernetes" :> "kubernetes") @@ ("Six Sigma" :> "six sigma")

SomeSkills == ("kubernetes" :> {"k8s"}) @@ ("python" :> {})

Said(term, tier) == [keyword |-> term, tier |-> tier]

SomeProposals ==
  {<<Said("K8s", "nice_to_have"), Said("python", "important"), Said("Kubernetes", "critical")>>,
   <<Said("Six Sigma", "urgent"), Said("python", "critical"), Said("six sigma", "nice_to_have")>>,
   <<Said("six sigma", "nice_to_have"), Said("k8s", "important"), Said("Six Sigma", "critical")>>,
   <<>>}

Worked(from, to) == [start |-> from, end |-> to, current |-> FALSE]

SomeCareers ==
  {<<Unknown, Worked(Unknown, 9)>>, <<Worked(5, 7), Worked(3, 6)>>, <<Worked(8, Unknown), Worked(1, 2)>>,
   <<[start |-> 4, end |-> 2, current |-> TRUE]>>, <<Worked(9, 8)>>}

SomeResumes ==
  [readable : {TRUE}, mentions : {{}, {"k8s"}, {"python", "Six Sigma"}}]
    \cup {[readable |-> FALSE, mentions |-> {}]}

Needed(years, met) == [years |-> years, met |-> met]

Presence(term, present) == [keyword |-> term, present |-> present]

SomeReplies ==
  [recommendation : {"Good Match", Unknown},
   requirements : {<<>>, <<Needed(4, TRUE), Needed(Unknown, TRUE)>>,
                   <<Needed(4, FALSE), Unknown>>, <<Needed(Unknown, FALSE)>>},
   matched : {<<"kubernetes">>},
   missing : {<<"kubernetes", "K8s", "Six Sigma">>, <<"python">>},
   judged : {<<>>, <<Presence("kubernetes", FALSE), Presence("python", TRUE)>>,
             <<Presence("Six Sigma", TRUE), Unknown, Presence("python", FALSE)>>}]
=============================================================================
