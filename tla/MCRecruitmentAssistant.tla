------------------------ MODULE MCRecruitmentAssistant ------------------------
(***************************************************************************)
(* An instance of the recruitment assistant: of the vacancies one's title  *)
(* is part of another's, one has a word with punctuation, and one is found *)
(* inside other words.                                                     *)
(***************************************************************************)
EXTENDS RecruitmentAssistant, TLC

SomeTitles == <<<<"analyst">>, <<"data", "analyst">>, <<"c++", "developer">>, <<"it">>>>

SomeMarks == "c++" :> "c"

\* The words that are part of one another.
SomeStarts == {<<"analyst", "analysts">>, <<"c", "c++">>, <<"c", "cancel">>}

SomeEnds == {}

SomeParts == SomeStarts \cup {<<"it", "withdraw">>}

AsksFor(words, asks) == [words |-> words, asks |-> asks]

SomeRequests ==
  {AsksFor(<<"withdraw">>, {"withdraw"}),
   AsksFor(<<"withdraw", "analysts">>, {"withdraw"}),
   AsksFor(<<"withdraw", "data", "analyst">>, {"withdraw", "status"}),
   AsksFor(<<"cancel", "data", "analysts">>, {"withdraw"}),
   AsksFor(<<"withdraw", "c++", "developer">>, {"withdraw"}),
   AsksFor(<<"status">>, {"status"}),
   AsksFor(<<"shortlist", "analyst">>, {"decide", "status"}),
   AsksFor(<<"who", "applied", "developer">>, {"review"}),
   AsksFor(<<"apply", "analyst">>, {"apply"}),
   AsksFor(<<"jobs", "data", "analyst">>, {"vacancies"}),
   AsksFor(<<"please">>, {})}
=============================================================================
