------------------------------ MODULE Screening ------------------------------
(***************************************************************************)
(* The screening of a resume (evaluation/): the keywords a model suggests  *)
(* for a vacancy, the facts it extracts from a resume, and its review of   *)
(* the resume for the vacancy, with what the code checks and computes      *)
(* itself: years of experience, known skills, requirements and the score.  *)
(*                                                                         *)
(* A term is a spelling of a skill; Lower gives it in lower case.  A       *)
(* resume is the terms it mentions.  An entry of the model's JSON that has *)
(* another shape is Unknown, as is a date without a year.                  *)
(***************************************************************************)
EXTENDS Integers, FiniteSets, SequencesExt, Lists

CONSTANTS
  Lower,         (* the lower case of every term                           *)
  SkillAliases,  (* the known skills, each with its other spellings        *)
  Proposals,     (* what the model suggests for a vacancy                  *)
  Resumes,
  Careers,       (* the jobs the model finds in a resume                   *)
  Replies,       (* what the model says of a resume                        *)
  CurrentYear,
  Unknown        (* no value                                               *)

Term == DOMAIN Lower

Employment == [start : Nat \cup {Unknown}, end : Nat \cup {Unknown}, current : BOOLEAN]

Requirement == [years : Nat \cup {Unknown}, met : BOOLEAN]

Judgement == [keyword : Term, present : BOOLEAN]

\* A skill is spelled in lower case, and a spelling is one of one skill.
ASSUME ScreeningAssumption ==
  /\ CurrentYear \in Nat
  /\ \A skill \in DOMAIN SkillAliases :
       skill \in Term /\ Lower[skill] = skill /\ skill \notin SkillAliases[skill]
  /\ \A s, t \in DOMAIN SkillAliases :
       s # t => ({s} \cup SkillAliases[s]) \cap ({t} \cup SkillAliases[t]) = {}
  /\ Proposals \subseteq Seq([keyword : Term, tier : STRING])
  /\ Resumes \subseteq [readable : BOOLEAN, mentions : SUBSET Term]
  /\ Careers \subseteq Seq(Employment \cup {Unknown})
  /\ \A reply \in Replies :
       /\ reply.recommendation \in STRING \cup {Unknown}
       /\ reply.requirements \in Seq(Requirement \cup {Unknown})
       /\ reply.judged \in Seq(Judgement \cup {Unknown})
       /\ reply.matched \in Seq(Term) /\ reply.missing \in Seq(Term)
  /\ Unknown \notin Nat \cup Term \cup Employment \cup Requirement \cup Judgement \cup Proposals \cup Replies

VARIABLES
  proposal,     (* the model's suggestions for the vacancy    *)
  vacancy,      (* the scoring keywords the manager posts     *)
  evaluation    (* of a resume: its jobs, the reply, the review *)

screeningVars == <<proposal, vacancy, evaluation>>

-----------------------------------------------------------------------------
\* The taxonomy.
Spellings(skill) == {skill} \cup SkillAliases[skill]

NormalizeSkill(term) ==
  LET known == {skill \in DOMAIN SkillAliases : Lower[term] \in Spellings(skill)}
  IN  IF known = {} THEN Unknown ELSE CHOOSE skill \in known : TRUE

FindSkills(resume) ==
  {skill \in DOMAIN SkillAliases : \E term \in resume.mentions : Lower[term] \in Spellings(skill)}

IsMentioned(term, resume) ==
  NormalizeSkill(term) # Unknown /\ NormalizeSkill(term) \in FindSkills(resume)

-----------------------------------------------------------------------------
\* The suggestions (suggest_keywords).
TierWeights == [critical |-> 5, important |-> 3, nice_to_have |-> 1]

NormalizeTier(tier) == IF tier \in DOMAIN TierWeights THEN tier ELSE "important"

NormalizeKeyword(term) == IF NormalizeSkill(term) = Unknown THEN term ELSE NormalizeSkill(term)

Normalized(said) ==
  [i \in DOMAIN said |->
     [keyword |-> NormalizeKeyword(said[i].keyword), tier |-> NormalizeTier(said[i].tier)]]

OfTier(keywords, tier) == Picked(keywords, {i \in DOMAIN keywords : keywords[i].tier = tier})

ByTier(keywords) ==
  (OfTier(keywords, "critical") \o OfTier(keywords, "important")) \o OfTier(keywords, "nice_to_have")

\* The first of several that differ in case at most.
Dedupe(keywords) ==
  Picked(keywords, {i \in DOMAIN keywords :
                      \A j \in 1 .. i - 1 : Lower[keywords[j].keyword] # Lower[keywords[i].keyword]})

SuggestInOrderGiven(said) == Dedupe(Normalized(said))

Suggest(said) == Dedupe(ByTier(Normalized(said)))

-----------------------------------------------------------------------------
\* What is left of a list in the model's JSON.
WellShaped(said) == Picked(said, {i \in DOMAIN said : said[i] # Unknown})

\* The facts (resume_structuring).
Facts(said) == WellShaped(said)

\* The span of the whole career, in years.
EndYear(job) == IF job.current \/ job.end = Unknown THEN CurrentYear ELSE job.end

TotalYears(jobs) ==
  LET dated == {i \in DOMAIN jobs : jobs[i].start # Unknown}
  IN  IF dated = {} THEN 0
      ELSE Max({0, Max({EndYear(jobs[i]) : i \in dated}) - Min({jobs[i].start : i \in dated})})

-----------------------------------------------------------------------------
\* The review (_normalize_review).
\* A requirement that names a number of years is checked against the facts.
Checked(requirements, jobs) ==
  [i \in DOMAIN requirements |->
     IF requirements[i].years = Unknown THEN requirements[i]
     ELSE [years |-> requirements[i].years, met |-> TotalYears(jobs) >= requirements[i].years]]

RequirementsMet(requirements) == \A i \in DOMAIN requirements : requirements[i].met

\* The keywords the model found and missed, and what moves from the second to
\* the first.
Moved(reply, resume) ==
  {i \in DOMAIN reply.missing : IsMentioned(reply.missing[i], resume)}

Matched(reply, resume) ==
  reply.matched \o
    Picked(reply.missing, {i \in Moved(reply, resume) :
      /\ \A j \in DOMAIN reply.matched : reply.matched[j] # reply.missing[i]
      /\ \A j \in Moved(reply, resume) : j < i => reply.missing[j] # reply.missing[i]})

Missing(reply, resume) == Picked(reply.missing, DOMAIN reply.missing \ Moved(reply, resume))

JudgedAsSaid(judged, resume) == judged

Judged(judged, resume) ==
  [i \in DOMAIN judged |->
     [keyword |-> judged[i].keyword,
      present |-> judged[i].present \/ IsMentioned(judged[i].keyword, resume)]]

\* round(100 * part / whole), halves to the even number.
Percent(part, whole) ==
  LET down == (100 * part) \div whole
      rest == 2 * ((100 * part) % whole)
  IN  IF rest > whole \/ (rest = whole /\ down % 2 = 1) THEN down + 1 ELSE down

\* The keyword is a key: of two entries of one spelling the later tier counts.
Distinct(keywords) == {keywords[i].keyword : i \in DOMAIN keywords}

Weight(keywords) ==
  [name \in Distinct(keywords) |->
     TierWeights[keywords[Max({i \in DOMAIN keywords : keywords[i].keyword = name})].tier]]

Present(judged, keywords) ==
  {name \in Distinct(keywords) : \E i \in DOMAIN judged : judged[i].keyword = name /\ judged[i].present}

KeywordScore(judged, keywords) ==
  LET weight(names) == MapThenSumSet(LAMBDA name : Weight(keywords)[name], names)
  IN  IF keywords = <<>> THEN Unknown
      ELSE Percent(weight(Present(judged, keywords)), weight(Distinct(keywords)))

Review(resume, jobs, reply, keywords) ==
  LET requirements == Checked(WellShaped(reply.requirements), jobs)
      judged == Judged(WellShaped(reply.judged), resume)
  IN  [requirements   |-> requirements,
       recommendation |-> CASE ~RequirementsMet(requirements) -> "DOES_NOT_MEET_REQUIREMENTS"
                            [] RequirementsMet(requirements) /\ reply.recommendation = Unknown -> "NEEDS_REVIEW"
                            [] RequirementsMet(requirements) /\ reply.recommendation # Unknown -> reply.recommendation,
       matched        |-> Matched(reply, resume),
       missing        |-> Missing(reply, resume),
       judged         |-> judged,
       score          |-> KeywordScore(judged, keywords)]

-----------------------------------------------------------------------------
\* The model is asked for keywords; the manager drops some and posts the rest.
SuggestKeywords(said) ==
  /\ proposal = Unknown
  /\ proposal' = said
  /\ UNCHANGED <<vacancy, evaluation>>

CreateVacancy(chosen) ==
  /\ proposal # Unknown /\ vacancy = Unknown
  /\ vacancy' = Picked(Suggest(proposal), chosen)
  /\ UNCHANGED <<proposal, evaluation>>

\* The worker evaluates an application for the vacancy: it has the model
\* extract the facts, and then review the resume.
StructureResume(resume, said) ==
  /\ vacancy # Unknown /\ evaluation = Unknown
  /\ resume.readable
  /\ evaluation' = [resume |-> resume, jobs |-> Facts(said), reply |-> Unknown, review |-> Unknown, failed |-> FALSE]
  /\ UNCHANGED <<proposal, vacancy>>

ScoreResume(reply) ==
  /\ evaluation # Unknown /\ evaluation.reply = Unknown /\ ~evaluation.failed
  /\ evaluation' = [evaluation EXCEPT
       !.reply = reply, !.review = Review(evaluation.resume, evaluation.jobs, reply, vacancy)]
  /\ UNCHANGED <<proposal, vacancy>>

\* No text, or an error of the model's in either call.
FailEvaluation(resume) ==
  /\ vacancy # Unknown
  /\ \/ evaluation = Unknown
     \/ evaluation # Unknown /\ evaluation.resume = resume /\ evaluation.reply = Unknown /\ ~evaluation.failed
  /\ evaluation' = [resume |-> resume, jobs |-> <<>>, reply |-> Unknown, review |-> Unknown, failed |-> TRUE]
  /\ UNCHANGED <<proposal, vacancy>>

\* A manager has it evaluated once more; the latest evaluation counts.
ReEvaluate ==
  /\ evaluation # Unknown /\ (evaluation.failed \/ evaluation.reply # Unknown)
  /\ evaluation' = Unknown
  /\ UNCHANGED <<proposal, vacancy>>

InitScreening == proposal = Unknown /\ vacancy = Unknown /\ evaluation = Unknown

NextScreening ==
  \/ \E said \in Proposals : SuggestKeywords(said)
  \/ proposal # Unknown /\ \E chosen \in (SUBSET DOMAIN Suggest(proposal)) \ {{}} : CreateVacancy(chosen)
  \/ \E resume \in Resumes, said \in Careers : StructureResume(resume, said)
  \/ \E reply \in Replies : ScoreResume(reply)
  \/ ReEvaluate
  \/ \E resume \in Resumes : FailEvaluation(resume)

ScreeningSpec == InitScreening /\ [][NextScreening]_screeningVars

-----------------------------------------------------------------------------
Keyword == [keyword : Term, tier : DOMAIN TierWeights]

\* A review is of what was extracted and what the model replied.
ScreeningTypeOK ==
  /\ proposal \in Proposals \cup {Unknown}
  /\ vacancy # Unknown => vacancy \in Seq(Keyword) \ {<<>>}
  /\ evaluation # Unknown =>
       /\ vacancy # Unknown
       /\ DOMAIN evaluation = {"resume", "jobs", "reply", "review", "failed"}
       /\ evaluation.resume \in Resumes /\ evaluation.jobs \in Seq(Employment)
       /\ evaluation.reply \in Replies \cup {Unknown} /\ evaluation.failed \in BOOLEAN
       /\ evaluation.failed => evaluation.reply = Unknown
       /\ evaluation.review =
            IF evaluation.reply = Unknown THEN Unknown
            ELSE Review(evaluation.resume, evaluation.jobs, evaluation.reply, vacancy)

\* The model names every skill once, whatever it is called, and as important
\* as the model ever said it is.
Suggested(said) ==
  LET keywords == Suggest(said)
      same(a, b) == Lower[NormalizeKeyword(a)] = Lower[NormalizeKeyword(b)]
  IN  /\ \A i, j \in DOMAIN keywords : i # j => ~same(keywords[i].keyword, keywords[j].keyword)
      /\ \A i \in DOMAIN said : \E j \in DOMAIN keywords :
           /\ same(said[i].keyword, keywords[j].keyword)
           /\ TierWeights[keywords[j].tier] >= TierWeights[NormalizeTier(said[i].tier)]

\* The reply of a model that gets right everything the code can tell itself.
Truthful(reply, resume, jobs) ==
  [recommendation |-> reply.recommendation,
   requirements |-> [i \in DOMAIN reply.requirements |->
     LET requirement == reply.requirements[i]
     IN  IF requirement = Unknown \/ requirement.years = Unknown THEN requirement
         ELSE [years |-> requirement.years, met |-> TotalYears(jobs) >= requirement.years]],
   judged |-> [i \in DOMAIN reply.judged |->
     LET verdict == reply.judged[i]
     IN  IF verdict = Unknown THEN Unknown
         ELSE [keyword |-> verdict.keyword,
               present |-> verdict.present \/ IsMentioned(verdict.keyword, resume)]],
   matched |-> reply.matched \o Picked(reply.missing, Moved(reply, resume)),
   missing |-> Picked(reply.missing, DOMAIN reply.missing \ Moved(reply, resume))]

\* Where the code can tell, the model's mistakes change nothing: the outcome is
\* that of a reply without them.  One more keyword found never lowers the
\* score, all of them make it 100, and no job is longer than the career.
Screened ==
  /\ proposal # Unknown => Suggested(proposal)
  /\ evaluation # Unknown /\ evaluation.review # Unknown =>
       LET resume == evaluation.resume
           jobs == evaluation.jobs
           review == evaluation.review
           told == Review(resume, jobs, Truthful(evaluation.reply, resume, jobs), vacancy)
           found(keyword) == Append(review.judged, [keyword |-> keyword, present |-> TRUE])
       IN  /\ told.recommendation = review.recommendation /\ told.score = review.score
           /\ ToSet(told.matched) = ToSet(review.matched) /\ ToSet(told.missing) = ToSet(review.missing)
           /\ \A i \in DOMAIN vacancy : KeywordScore(found(vacancy[i].keyword), vacancy) >= review.score
           /\ review.score \in 0 .. 100
           /\ (\A i \in DOMAIN vacancy : \E j \in DOMAIN review.judged :
                 review.judged[j].keyword = vacancy[i].keyword /\ review.judged[j].present)
                => review.score = 100
           /\ \A i \in DOMAIN jobs :
                jobs[i].start # Unknown => TotalYears(jobs) >= EndYear(jobs[i]) - jobs[i].start
=============================================================================
