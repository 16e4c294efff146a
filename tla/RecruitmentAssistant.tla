-------------------------- MODULE RecruitmentAssistant --------------------------
(***************************************************************************)
(* The recruitment assistant of the chat (agents/recruitment_agent): one   *)
(* turn of somebody who asks about vacancies and applications, or has an   *)
(* application withdrawn, which nobody confirms.  Each query of the turn   *)
(* sees what is committed at its time.                                     *)
(*                                                                         *)
(* Texts are sequences of words, of which some are part of others, because *)
(* the code searches characters: "it" is found in "withdraw".              *)
(***************************************************************************)
EXTENDS Naturals, FiniteSets, SequencesExt

CONSTANTS
  Titles,      (* of the vacancies, newest first                                *)
  WithoutMarks,(* words with punctuation, and what is left of them without it   *)
  PartOf,      (* pairs of a word and a longer one that contains it,            *)
  StartOf,     (* that begins with it,                                          *)
  EndOf,       (* that ends with it                                             *)
  Short,       (* words of at most two letters                                  *)
  Requests,    (* messages: their words, and what they ask for by their wording *)
  MaxChanges,  (* bound on what managers do during the turn                     *)
  NoOne        (* no vacancy, no title                                          *)

Vacancy == DOMAIN Titles

\* What a turn tells, shows and withdraws.
Endings ==
  [kind : {"refused", "review", "status", "form", "transfer", "vacancy", "list", "reply", "which",
           "withdrawn"},
   vacancies : SUBSET Vacancy, applications : SUBSET Vacancy, withdrawn : Vacancy \cup {NoOne}]

\* A word without its marks has none, and is no longer than before.  NoOne is
\* unlike anything else.
ASSUME AssistantAssumption ==
  /\ Titles \in Seq(Seq(STRING) \ {<<>>})
  /\ \A w \in DOMAIN WithoutMarks :
       WithoutMarks[w] \in STRING \ DOMAIN WithoutMarks /\ (w \in Short => WithoutMarks[w] \in Short)
  /\ StartOf \cup EndOf \subseteq PartOf
  /\ \A r \in Requests : r.words \in Seq(STRING)
  /\ MaxChanges \in Nat
  /\ NoOne \notin Vacancy /\ NoOne \notin {Titles[v] : v \in Vacancy} /\ NoOne \notin Endings

VARIABLES
  opened,    (* vacancies that are open                                  *)
  applied,   (* the status of the candidate's application to each        *)
  changes,   (* by managers                                              *)
  talk,      (* the turn: its step, who asks, the request, what was read *)
  outcome    (* of the turn                                              *)

assistantVars == <<opened, applied, changes, talk, outcome>>

-----------------------------------------------------------------------------
ApplicationStatus == {"NONE", "APPLIED", "SHORTLISTED", "REJECTED", "WITHDRAWN"}

NoTalk == [step |-> "idle", who |-> NoOne, request |-> NoOne, title |-> NoOne, listed |-> NoOne]

Told(kind, vacancies, applications) ==
  [kind |-> kind, vacancies |-> vacancies, applications |-> applications, withdrawn |-> NoOne]

\* Lower case without punctuation.
Bare(words) == [i \in DOMAIN words |-> IF words[i] \in DOMAIN WithoutMarks THEN WithoutMarks[words[i]] ELSE words[i]]

Inside(part, word) == part = word \/ <<part, word>> \in PartOf

\* The characters of some words, one blank between two, among those of others:
\* blanks fall on blanks, so only the first and the last word may be part of
\* a longer one.
Occurs(part, words) ==
  \E i \in 0 .. Len(words) - Len(part) :
    LET first == words[i + 1]
        last == words[i + Len(part)]
    IN  IF Len(part) = 1 THEN Inside(part[1], first)
        ELSE /\ part[1] = first \/ <<part[1], first>> \in EndOf
             /\ part[Len(part)] = last \/ <<part[Len(part)], last>> \in StartOf
             /\ \A k \in 2 .. Len(part) - 1 : part[k] = words[i + k]

\* All words of more than two letters.
TokensOccur(title, words) ==
  LET tokens == ToSet(title) \ Short IN
    tokens # {} /\ \A t \in tokens : \E w \in ToSet(words) : Inside(t, w)

\* The vacancies that a search of the message may come upon.
FoundIn(words) ==
  {v \in Vacancy : Occurs(Titles[v], Bare(words)) \/ TokensOccur(Titles[v], Bare(words))}

\* find_matched_vacancy: the title as it is, in a message without punctuation.
MatchedVacancy(words) ==
  LET exact == {v \in opened : Occurs(Titles[v], Bare(words))}
      partial == {v \in opened : TokensOccur(Titles[v], Bare(words))}
  IN  IF Cardinality(exact) = 1 THEN CHOOSE v \in exact : TRUE
      ELSE IF partial = {} THEN NoOne ELSE Min(partial)

Withdrawable(listed) == {v \in Vacancy : listed[v] \in {"APPLIED", "SHORTLISTED"}}

\* One title is part of the other.
Akin(s, t) == Occurs(Bare(s), Bare(t)) \/ Occurs(Bare(t), Bare(s))

Intended(title, listed) ==
  IF title = NoOne THEN Withdrawable(listed)
  ELSE {v \in Withdrawable(listed) : Akin(Titles[v], title)}

\* A mutant: of several applications the first.
ChoiceFirst(title, listed) ==
  IF Intended(title, listed) # {} THEN Min(Intended(title, listed)) ELSE NoOne

Choice(title, listed) ==
  IF Cardinality(Intended(title, listed)) = 1 THEN CHOOSE v \in Intended(title, listed) : TRUE ELSE NoOne

-----------------------------------------------------------------------------
\* What the wording of the message leads to, in the order of the code.
Path(who, asks) ==
  CASE who = "HR_ADMIN" /\ asks \cap {"decide", "review"} # {} -> "review"
    [] ~(who = "HR_ADMIN" /\ asks \cap {"decide", "review"} # {}) ->
         CASE "withdraw" \in asks -> IF who \in {"HR_ADMIN", "EMPLOYEE"} THEN "refuse" ELSE "withdraw"
           [] "withdraw" \notin asks /\ "status" \in asks -> "status"
           [] asks \cap {"withdraw", "status"} = {} -> IF "apply" \in asks THEN "apply" ELSE "ask"

AskAssistant(who, request) ==
  /\ talk.step = "idle" /\ outcome = NoOne
  /\ talk' = [NoTalk EXCEPT !.step = Path(who, request.asks), !.who = who, !.request = request]
  /\ UNCHANGED <<opened, applied, changes, outcome>>

EndTurn(result) ==
  /\ talk' = [talk EXCEPT !.step = "idle"]
  /\ outcome' = result
  /\ UNCHANGED <<opened, applied, changes>>

\* Candidates and visitors see what is open, employees and managers all.
Visible(who) == IF who \in {"CANDIDATE", "VISITOR"} THEN opened ELSE Vacancy

Own(who) == IF who = "CANDIDATE" THEN {v \in Vacancy : applied[v] # "NONE"} ELSE {}

RefuseOthers == talk.step = "refuse" /\ EndTurn(Told("refused", {}, {}))

\* All applications, or those to the vacancy the message names.
ReviewApplications ==
  /\ talk.step = "review"
  /\ LET all == {v \in Vacancy : applied[v] # "NONE"}
         matched == MatchedVacancy(talk.request.words)
     IN  EndTurn(Told("review", {},
                      IF "decide" \in talk.request.asks \/ matched = NoOne THEN all
                      ELSE all \cap {v \in Vacancy : Titles[v] = Titles[matched]}))

\* For anybody but a candidate the tool refuses.
TellStatus == talk.step = "status" /\ EndTurn(Told("status", {}, Own(talk.who)))

\* The form for one vacancy, or the list to choose from.
ApplyHelp ==
  /\ talk.step = "apply"
  /\ LET matched == MatchedVacancy(talk.request.words)
     IN  EndTurn(Told(IF talk.who \in {"CANDIDATE", "VISITOR"} THEN "form" ELSE "transfer",
                      IF matched # NoOne THEN {matched} ELSE Visible(talk.who), {}))

\* A vacancy that the message names, the list, or what the model makes of the
\* message; a model that fails leaves the help text, with the list.
Inform ==
  /\ talk.step = "ask"
  /\ LET matched == MatchedVacancy(talk.request.words)
     IN  \/ matched # NoOne /\ EndTurn(Told("vacancy", {matched}, {}))
         \/ matched = NoOne /\ EndTurn(Told("list", Visible(talk.who), {}))
         \/ /\ matched = NoOne /\ "vacancies" \notin talk.request.asks
            /\ \/ EndTurn(Told("reply", {}, {}))
               \/ \E v \in Visible(talk.who) : EndTurn(Told("vacancy", {v}, {}))
               \/ EndTurn(Told("status", {}, Own(talk.who)))

-----------------------------------------------------------------------------
\* The vacancy, by the message or by the title that the model names.
FindVacancy ==
  /\ talk.step = "withdraw"
  /\ LET matched == MatchedVacancy(talk.request.words)
     IN  talk' = [talk EXCEPT !.step = "find", !.title = IF matched = NoOne THEN NoOne ELSE Titles[matched]]
  /\ UNCHANGED <<opened, applied, changes, outcome>>

ModelWithdraws ==
  /\ talk.step = "ask" /\ talk.who = "CANDIDATE"
  /\ "vacancies" \notin talk.request.asks /\ MatchedVacancy(talk.request.words) = NoOne
  /\ \E title \in {Titles[v] : v \in Vacancy} \cup {NoOne} :
       talk' = [talk EXCEPT !.step = "find", !.title = title]
  /\ UNCHANGED <<opened, applied, changes, outcome>>

ListApplications ==
  /\ talk.step = "find" /\ talk.who = "CANDIDATE"
  /\ talk' = [talk EXCEPT !.step = "listed", !.listed = applied]
  /\ UNCHANGED <<opened, applied, changes, outcome>>

\* The service reads the row again, but the session keeps the status that was
\* listed; nothing locks the row.
WithdrawNamed ==
  /\ talk.step = "listed"
  /\ LET v == Choice(talk.title, talk.listed)
     IN  /\ v # NoOne
         /\ applied' = [applied EXCEPT ![v] = "WITHDRAWN"]
         /\ outcome' = [Told("withdrawn", {}, Own("CANDIDATE")) EXCEPT !.withdrawn = v]
  /\ talk' = [talk EXCEPT !.step = "idle"]
  /\ UNCHANGED <<opened, changes>>

\* The model names the application by its id; only the candidate's own are found.
ModelWithdrawsById ==
  /\ talk.step = "ask" /\ talk.who = "CANDIDATE"
  /\ "vacancies" \notin talk.request.asks /\ MatchedVacancy(talk.request.words) = NoOne
  /\ \E v \in Withdrawable(applied) :
       /\ applied' = [applied EXCEPT ![v] = "WITHDRAWN"]
       /\ outcome' = [Told("withdrawn", {}, Own("CANDIDATE")) EXCEPT !.withdrawn = v]
       /\ talk' = [talk EXCEPT !.step = "idle", !.title = Titles[v], !.listed = applied]
  /\ UNCHANGED <<opened, changes>>

\* None, or several; or the tool refuses a visitor.
AskWhich ==
  /\ \/ talk.step = "find" /\ talk.who # "CANDIDATE"
     \/ talk.step = "listed" /\ Choice(talk.title, talk.listed) = NoOne
  /\ EndTurn(Told("which", {}, Own(talk.who)))

-----------------------------------------------------------------------------
\* What managers do meanwhile (what they did before is in the initial states).
Managed == talk.step # "idle" /\ changes < MaxChanges /\ changes' = changes + 1 /\ UNCHANGED <<talk, outcome>>

ToggleVacancy(v) ==
  /\ Managed
  /\ opened' = IF v \in opened THEN opened \ {v} ELSE opened \cup {v}
  /\ UNCHANGED applied

DecideApplication(v) ==
  /\ Managed
  /\ applied[v] = "APPLIED"
  /\ \E decision \in {"SHORTLISTED", "REJECTED"} : applied' = [applied EXCEPT ![v] = decision]
  /\ UNCHANGED opened

InitAssistant ==
  /\ opened \in SUBSET Vacancy
  /\ applied \in [Vacancy -> ApplicationStatus \ {"WITHDRAWN"}]
  /\ changes = 0 /\ talk = NoTalk /\ outcome = NoOne

NextAssistant ==
  \/ \E who \in {"CANDIDATE", "VISITOR", "EMPLOYEE", "HR_ADMIN"}, request \in Requests : AskAssistant(who, request)
  \/ RefuseOthers \/ ReviewApplications \/ TellStatus \/ ApplyHelp \/ Inform
  \/ FindVacancy \/ ModelWithdraws \/ ModelWithdrawsById \/ ListApplications \/ WithdrawNamed \/ AskWhich
  \/ \E v \in Vacancy : ToggleVacancy(v) \/ DecideApplication(v)

AssistantSpec == InitAssistant /\ [][NextAssistant]_assistantVars

-----------------------------------------------------------------------------
AssistantTypeOK ==
  /\ opened \subseteq Vacancy /\ applied \in [Vacancy -> ApplicationStatus]
  /\ changes \in 0 .. MaxChanges
  /\ talk \in [step : {"idle", "review", "refuse", "withdraw", "status", "apply", "ask", "find", "listed"},
               who : {"CANDIDATE", "VISITOR", "EMPLOYEE", "HR_ADMIN", NoOne},
               request : Requests \cup {NoOne},
               title : {Titles[v] : v \in Vacancy} \cup {NoOne},
               listed : [Vacancy -> ApplicationStatus] \cup {NoOne}]
  /\ outcome \in Endings \cup {NoOne}

\* Vacancies that every title found in a message is part of, or has as a part.
CanMean(words) == {v \in Vacancy : \A u \in FoundIn(words) : Akin(Titles[u], Titles[v])}

\* A withdrawal cannot be taken back, and the candidate is not asked again.
\* So of somebody's own words it never withdraws another application than one
\* that they can mean, whether or not its vacancy is still open, as long as
\* that one could be withdrawn; of several such it takes none; and nobody else
\* has anything withdrawn or is shown the candidate's applications.  Excepted
\* is a message in which an unrelated title is found as well, if only inside
\* its words: the code may take that one.
WithdrawsWhatIsNamed ==
  outcome # NoOne =>
    /\ outcome.withdrawn # NoOne =>
         /\ talk.who = "CANDIDATE" /\ applied[outcome.withdrawn] = "WITHDRAWN"
         /\ \A v \in Withdrawable(talk.listed) \cap CanMean(talk.request.words) :
              "withdraw" \in talk.request.asks => outcome.withdrawn = v
         /\ talk.title = NoOne => Withdrawable(talk.listed) = {outcome.withdrawn}
    /\ outcome.applications # {} => talk.who \in {"CANDIDATE", "HR_ADMIN"}
    /\ \A v \in Vacancy :
         applied[v] = "WITHDRAWN" => outcome.withdrawn = v
=============================================================================
