------------------------------- MODULE Hiring -------------------------------
(***************************************************************************)
(* Recruitment and the staff register (capabilities/recruitment.py and     *)
(* capabilities/people.py): candidates register, apply and withdraw, HR    *)
(* decides, hires, creates, updates and deactivates employees.  Each       *)
(* request is one database transaction; transactions interleave statement  *)
(* by statement under PostgreSQL's READ COMMITTED.  HR acts from outside:   *)
(* some administrator is always there, and does not edit their own record. *)
(*                                                                         *)
(* The outbox of an application holds its mails to the candidate in the    *)
(* order of created_at, which enqueue takes from the clock before its own  *)
(* flush.  An entry carries the session that wrote it until that commits.  *)
(***************************************************************************)
EXTENDS Naturals, SequencesExt

CONSTANTS
  Session,    (* concurrent request handlers, each with its own DB session *)
  Person,     (* the e-mail addresses people register or are created under *)
  Vacancy,
  Edits,      (* the updates of employees HR asks for                      *)
  None

ASSUME HiringAssumption ==
  /\ None \notin Session \cup Person \cup Vacancy
  /\ Edits \subseteq [to : {"ACTIVE", "INACTIVE", "none"}, names : BOOLEAN, others : BOOLEAN]

VARIABLES
  open,        (* the vacancies with status OPEN                             *)
  apps,        (* application rows, by candidate and vacancy                 *)
  mails,       (* of each application                                        *)
  role,        (* coarse_role of the login of each person, "none" without one *)
  login,       (* whether the status of that login is ACTIVE                 *)
  employment,  (* employment_status of each person, "none" if not employed   *)
  hires,       (* the applications whose hire was audited                    *)
  stage,       (* where each session's transaction stands                    *)
  tx,          (* what it holds in memory                                    *)
  held,        (* the rows it inserted or updated                            *)
  contended,   (* persons about whom two transactions were open at once      *)
  blind        (* persons whose login was last set by a transaction that did *)
               (* not change their employment                                *)

vars == <<open, apps, mails, role, login, employment, hires, stage, tx, held, contended, blind>>

people == <<role, login, employment, hires>>

history == <<contended, blind>>
-----------------------------------------------------------------------------
Application == Person \X Vacancy

OpenStatuses == {"APPLIED", "SHORTLISTED"}

Statuses == OpenStatuses \cup {"REJECTED", "WITHDRAWN"}

\* stamps: which of rejected_at and withdrawn_at are set.
RowType == [status : Statuses \cup {"none"}, stamps : SUBSET {"REJECTED", "WITHDRAWN"}]

NoRow == [status |-> "none", stamps |-> {}]

Roles == {"CANDIDATE", "EMPLOYEE"}

Employments == {"ACTIVE", "INACTIVE"}

\* The mail that announces a status.
MailOf(status) ==
  CASE status = "APPLIED"     -> "SEND_APPLICATION_RECEIVED"
    [] status = "SHORTLISTED" -> "SEND_INTERVIEW_INVITATION"
    [] status = "REJECTED"    -> "SEND_APPLICATION_REJECTED"
    [] status = "WITHDRAWN"   -> "SEND_APPLICATION_WITHDRAWN"

MailType == [kind : {MailOf(x) : x \in Statuses}, by : Session \cup {None}]

StatusOf(a) == apps[a].status

Status(active) == IF active THEN "ACTIVE" ELSE "INACTIVE"

(***************************************************************************)
(* A transaction: what it does, the person it is about (who), the vacancy  *)
(* of the application at hand; to is the status it writes.  A hire keeps   *)
(* the vacancy it hires for (job) and the ones whose applications it still *)
(* withdraws (rest).  An update keeps the statements ahead, and the        *)
(* employment and the login it read.                                       *)
(***************************************************************************)
Kinds == {"none", "apply", "register", "create", "decide", "withdraw", "hire", "update"}

TxType ==
  [kind : Kinds, who : Person \cup {None}, vacancy : Vacancy \cup {None},
   to : Statuses \cup Employments \cup {"none"}, job : Vacancy \cup {None}, rest : SUBSET Vacancy,
   steps : Seq({"person", "employee", "read", "user"}),
   was : Employments \cup {"none"}, seen : Employments \cup {"none"}]

NoTx ==
  [kind |-> "none", who |-> None, vacancy |-> None, to |-> "none", job |-> None, rest |-> {},
   steps |-> <<>>, was |-> "none", seen |-> "none"]

About(kind, who) == [NoTx EXCEPT !.kind = kind, !.who = who]

Begin(s, point, t) ==
  /\ stage[s] = "idle"
  /\ stage' = [stage EXCEPT ![s] = point]
  /\ tx' = [tx EXCEPT ![s] = t]
  /\ contended' = IF \E o \in Session : tx[o].who = t.who
                  THEN contended \cup {t.who} ELSE contended
  /\ UNCHANGED <<open, apps, mails, people, held, blind>>

\* A mutant: the session goes on with the objects of its last transaction.
KeepTx(s) ==
  /\ stage' = [stage EXCEPT ![s] = "idle"]
  /\ held' = [held EXCEPT ![s] = {}]
  /\ UNCHANGED tx

\* The transaction is over; its locks are released.
EndTx(s) ==
  /\ stage' = [stage EXCEPT ![s] = "idle"]
  /\ tx' = [tx EXCEPT ![s] = NoTx]
  /\ held' = [held EXCEPT ![s] = {}]

Goto(s, point) == stage' = [stage EXCEPT ![s] = point]

\* The statement at the head is done.
Proceed(s) == Goto(s, IF Len(tx[s].steps) = 1 THEN "commit" ELSE "update")

AppAt(s) == <<tx[s].who, tx[s].vacancy>>

MayApply(c) == role[c] = "CANDIDATE" /\ login[c]

-----------------------------------------------------------------------------
(***************************************************************************)
(* Locks.  A row is <<table, key>>; an inserted unique key counts as one.  *)
(***************************************************************************)

\* A mutant: the table of employees accepts two rows of one person.
TargetUnlessHire(s) ==
  CASE stage[s] = "insert" /\ tx[s].kind = "apply" -> <<"application", AppAt(s)>>
    [] stage[s] = "insert" /\ tx[s].kind # "apply" -> <<"person", tx[s].who>>
    [] stage[s] \in {"write", "other"}             -> <<"application", AppAt(s)>>
    [] stage[s] = "update"                         -> <<Head(tx[s].steps), tx[s].who>>
    [] OTHER                                       -> <<"none", s>>

\* The row that the next statement of s inserts or updates.
Target(s) ==
  CASE stage[s] = "insert" /\ tx[s].kind = "apply" -> <<"application", AppAt(s)>>
    [] stage[s] = "insert" /\ tx[s].kind # "apply" -> <<"person", tx[s].who>>
    [] stage[s] \in {"write", "other"}             -> <<"application", AppAt(s)>>
    [] stage[s] = "hire"                           -> <<"employee", tx[s].who>>
    [] stage[s] = "update"                         -> <<Head(tx[s].steps), tx[s].who>>
    [] OTHER                                       -> <<"none", None>>

WaitsFor(s, o) == s # o /\ Target(s) \in held[o]

Granted(s) == \A o \in Session : ~WaitsFor(s, o)

Lock(s) == held' = [held EXCEPT ![s] = @ \cup {Target(s)}]

\* Sessions that wait for each other in circles: each waits and is waited for.
Circle(S) ==
  S # {} /\ \A s \in S : (\E o \in S : WaitsFor(s, o)) /\ (\E o \in S : WaitsFor(o, s))

-----------------------------------------------------------------------------
(***************************************************************************)
(* The outbox of an application.                                           *)
(***************************************************************************)
Enqueue(s, a, status) ==
  mails' = [mails EXCEPT ![a] = Append(@, [kind |-> MailOf(status), by |-> s])]

\* What s enqueued is committed, or rolled back.
Committed(s) ==
  [a \in Application |->
     [i \in DOMAIN mails[a] |->
        IF mails[a][i].by = s THEN [mails[a][i] EXCEPT !.by = None] ELSE mails[a][i]]]

\* A transaction enqueues at most one mail about an application.
RolledBack(s) ==
  [a \in Application |-> RemoveFirstMatch(mails[a], LAMBDA m : m.by = s)]

-----------------------------------------------------------------------------
(***************************************************************************)
(* Vacancies: create_vacancy, archive_vacancy, reopen_vacancy.             *)
(***************************************************************************)
Advertise(v) ==
  /\ v \notin open
  /\ open' = open \cup {v}
  /\ UNCHANGED <<apps, mails, people, stage, tx, held, history>>

Archive(v) ==
  /\ v \in open
  /\ open' = open \ {v}
  /\ UNCHANGED <<apps, mails, people, stage, tx, held, history>>

-----------------------------------------------------------------------------
(***************************************************************************)
(* apply, apply_as_new_candidate, create_employee: the checks, and the     *)
(* INSERT whose unique key may be taken meanwhile.                         *)
(***************************************************************************)
Apply(s, c, v) ==
  /\ MayApply(c) /\ v \in open /\ StatusOf(<<c, v>>) = "none"
  /\ Begin(s, "insert", [About("apply", c) EXCEPT !.vacancy = v])

Register(s, c, v) ==
  /\ role[c] = "none" /\ v \in open
  /\ Begin(s, "insert", [About("register", c) EXCEPT !.vacancy = v])

CreateEmployee(s, p) ==
  /\ role[p] = "none"
  /\ Begin(s, "insert", About("create", p))

Taken(s) ==
  IF tx[s].kind = "apply" THEN StatusOf(AppAt(s)) # "none" ELSE role[tx[s].who] # "none"

Insert(s) ==
  /\ stage[s] = "insert" /\ Granted(s)
  /\ \/ Taken(s) /\ EndTx(s) /\ UNCHANGED mails
     \/ /\ ~Taken(s)
        /\ Lock(s) /\ Goto(s, "commit") /\ UNCHANGED tx
        /\ IF tx[s].kind = "create" THEN UNCHANGED mails ELSE Enqueue(s, AppAt(s), "APPLIED")
  /\ UNCHANGED <<open, apps, people, history>>

NewApplication(s) ==
  apps' = [apps EXCEPT ![AppAt(s)] = [status |-> "APPLIED", stamps |-> {}]]

NewLogin(p, r) ==
  /\ role' = [role EXCEPT ![p] = r]
  /\ login' = [login EXCEPT ![p] = TRUE]

CommitInsert(s) ==
  /\ \/ tx[s].kind = "apply" /\ NewApplication(s) /\ UNCHANGED people
     \/ /\ tx[s].kind = "register"
        /\ NewApplication(s) /\ NewLogin(tx[s].who, "CANDIDATE")
        /\ UNCHANGED <<employment, hires>>
     \/ /\ tx[s].kind = "create"
        /\ NewLogin(tx[s].who, "EMPLOYEE")
        /\ employment' = [employment EXCEPT ![tx[s].who] = "ACTIVE"]
        /\ UNCHANGED <<apps, hires>>
  /\ UNCHANGED blind

-----------------------------------------------------------------------------
(***************************************************************************)
(* withdraw_application and decide_application: the status is read and     *)
(* checked, then overwritten.                                              *)
(***************************************************************************)
Withdraw(s, a) ==
  /\ MayApply(a[1]) /\ StatusOf(a) \in OpenStatuses
  /\ Begin(s, "write", [About("withdraw", a[1]) EXCEPT !.vacancy = a[2], !.to = "WITHDRAWN"])

Decide(s, a, verdict) ==
  /\ StatusOf(a) = "APPLIED"
  /\ Begin(s, "write", [About("decide", a[1]) EXCEPT !.vacancy = a[2], !.to = verdict])

\* A mutant: the UPDATE is left to the commit, and takes no lock before.
WriteUnlocked(s) ==
  /\ stage[s] = "write"
  /\ Enqueue(s, AppAt(s), tx[s].to)
  /\ Goto(s, "commit")
  /\ UNCHANGED <<open, apps, people, tx, held, history>>

\* The flushed UPDATE, and then the mail.
Write(s) ==
  /\ stage[s] = "write" /\ Granted(s)
  /\ Lock(s)
  /\ Enqueue(s, AppAt(s), tx[s].to)
  /\ Goto(s, "commit")
  /\ UNCHANGED <<open, apps, people, tx, history>>

Set(row, status) ==
  [status |-> status, stamps |-> row.stamps \cup ({status} \cap {"REJECTED", "WITHDRAWN"})]

CommitWrite(s) ==
  /\ tx[s].kind \in {"withdraw", "decide"}
  /\ apps' = [apps EXCEPT ![AppAt(s)] = Set(@, tx[s].to)]
  /\ UNCHANGED <<people, blind>>

-----------------------------------------------------------------------------
(***************************************************************************)
(* hire_candidate.                                                         *)
(***************************************************************************)
\* A mutant: the application is read FOR UPDATE.
HireLocking(s, a) ==
  /\ StatusOf(a) = "SHORTLISTED"
  /\ employment[a[1]] = "none"
  /\ stage[s] = "idle" /\ \A o \in Session : <<"application", a>> \notin held[o]
  /\ stage' = [stage EXCEPT ![s] = "hire"]
  /\ tx' = [tx EXCEPT ![s] = [About("hire", a[1]) EXCEPT !.job = a[2]]]
  /\ held' = [held EXCEPT ![s] = {<<"application", a>>}]
  /\ UNCHANGED <<open, apps, mails, people, history>>

Hire(s, a) ==
  /\ StatusOf(a) = "SHORTLISTED"
  /\ employment[a[1]] = "none"
  /\ Begin(s, "hire", [About("hire", a[1]) EXCEPT !.job = a[2]])

\* A mutant: only undecided applications are withdrawn.
OthersUndecided(s) ==
  {v \in Vacancy \ {tx[s].job} : StatusOf(<<tx[s].who, v>>) = "APPLIED"}

\* The vacancies of the candidate's other open applications, as committed.
Others(s) ==
  {v \in Vacancy \ {tx[s].job} : StatusOf(<<tx[s].who, v>>) \in OpenStatuses}

\* The employee row, unique per person; then candidate and login are updated
\* and the other applications are listed.
InsertEmployee(s) ==
  /\ stage[s] = "hire" /\ Granted(s)
  /\ \/ employment[tx[s].who] # "none" /\ EndTx(s)
     \/ /\ employment[tx[s].who] = "none"
        /\ Lock(s)
        /\ tx' = [tx EXCEPT ![s].rest = Others(s)]
        /\ Goto(s, IF Others(s) = {} THEN "commit" ELSE "notify")
  /\ UNCHANGED <<open, apps, mails, people, history>>

\* The mail about an application is created before the UPDATE of the
\* application is flushed with it.
Notify(s) ==
  /\ stage[s] = "notify"
  /\ \E v \in tx[s].rest :
       /\ tx' = [tx EXCEPT ![s].vacancy = v]
       /\ Enqueue(s, <<tx[s].who, v>>, "WITHDRAWN")
  /\ Goto(s, "other")
  /\ UNCHANGED <<open, apps, people, held, history>>

WithdrawOther(s) ==
  /\ stage[s] = "other" /\ Granted(s)
  /\ Lock(s)
  /\ tx' = [tx EXCEPT ![s].rest = @ \ {tx[s].vacancy}]
  /\ Goto(s, IF tx[s].rest = {tx[s].vacancy} THEN "commit" ELSE "notify")
  /\ UNCHANGED <<open, apps, mails, people, history>>

CommitHire(s) ==
  LET c == tx[s].who IN
  /\ tx[s].kind = "hire"
  /\ apps' = [a \in Application |->
                IF <<"application", a>> \in held[s] /\ a # <<c, tx[s].job>>
                THEN Set(apps[a], "WITHDRAWN") ELSE apps[a]]
  /\ employment' = [employment EXCEPT ![c] = "ACTIVE"]
  /\ role' = [role EXCEPT ![c] = "EMPLOYEE"]
  /\ hires' = hires \cup {<<c, tx[s].job>>}
  /\ UNCHANGED <<login, blind>>

-----------------------------------------------------------------------------
(***************************************************************************)
(* update_employee and deactivate_employee.  Only changed columns are      *)
(* written; any SELECT flushes what has changed so far.                    *)
(***************************************************************************)
Optional(condition, step) == IF condition THEN <<step>> ELSE <<>>

\* A mutant: the login is read before the employment is flushed.
UpdateReadFirst(s, p, edit) ==
  /\ employment[p] # "none"
  /\ Begin(s, "update",
       [About("update", p) EXCEPT
          !.to = edit.to, !.was = employment[p],
          !.steps = Optional(edit.to # "none", "read")
                    \o <<"person", "employee">>
                    \o Optional(edit.to # "none", "user")])

\* An edit tells whether the request changes the name, whether it changes
\* other columns of the employee, and the employment status it asks for.
Update(s, p, edit) ==
  /\ employment[p] # "none"
  /\ Begin(s, "update",
       [About("update", p) EXCEPT
          !.to = edit.to, !.was = employment[p],
          !.steps = Optional(edit.names, "person")
                    \o Optional(edit.others \/ edit.to \notin {"none", employment[p]}, "employee")
                    \o Optional(edit.to # "none", "read")
                    \o <<"person", "employee">>
                    \o Optional(edit.to # "none", "user")])

Deactivate(s, p) ==
  /\ employment[p] = "ACTIVE"
  /\ Begin(s, "update",
       [About("update", p) EXCEPT
          !.to = "INACTIVE", !.was = "ACTIVE", !.steps = <<"employee", "read", "user">>])

\* _sync_login_status reads the login.
ReadLogin(s) ==
  /\ stage[s] = "update" /\ Head(tx[s].steps) = "read"
  /\ tx' = [tx EXCEPT ![s].steps = Tail(@),
                      ![s].seen = Status(login[tx[s].who])]
  /\ Proceed(s)
  /\ UNCHANGED <<open, apps, mails, people, held, history>>

\* An UPDATE.  The login is written if it is not what was read.
Flush(s) ==
  /\ stage[s] = "update" /\ Head(tx[s].steps) # "read"
  /\ tx' = [tx EXCEPT ![s].steps = Tail(@)]
  /\ Proceed(s)
  /\ IF Head(tx[s].steps) = "user" /\ tx[s].seen = tx[s].to
     THEN UNCHANGED held ELSE Granted(s) /\ Lock(s)
  /\ UNCHANGED <<open, apps, mails, people, history>>

WritesLogin(s) == <<"user", tx[s].who>> \in held[s]

WritesEmployment(s) == tx[s].to \notin {"none", tx[s].was}

CommitUpdate(s) ==
  LET p == tx[s].who IN
  /\ tx[s].kind = "update"
  /\ employment' = IF WritesEmployment(s) THEN [employment EXCEPT ![p] = tx[s].to] ELSE employment
  /\ login' = IF WritesLogin(s) THEN [login EXCEPT ![p] = (tx[s].to = "ACTIVE")] ELSE login
  /\ blind' = IF WritesEmployment(s) THEN blind \ {p}
              ELSE IF WritesLogin(s) THEN blind \cup {p}
              ELSE blind
  /\ UNCHANGED <<apps, role, hires>>

-----------------------------------------------------------------------------
Commit(s) ==
  /\ stage[s] = "commit"
  /\ CommitInsert(s) \/ CommitWrite(s) \/ CommitHire(s) \/ CommitUpdate(s)
  /\ mails' = Committed(s)
  /\ EndTx(s)
  /\ UNCHANGED <<open, contended>>

\* An error, a disconnect, or a victim PostgreSQL chose to break a circle.
Abort(s) ==
  /\ stage[s] # "idle"
  /\ mails' = RolledBack(s)
  /\ EndTx(s)
  /\ UNCHANGED <<open, apps, people, history>>

Init ==
  /\ open = {}
  /\ apps = [a \in Application |-> NoRow]
  /\ mails = [a \in Application |-> <<>>]
  /\ role = [p \in Person |-> "none"]
  /\ login = [p \in Person |-> FALSE]
  /\ employment = [p \in Person |-> "none"]
  /\ hires = {}
  /\ stage = [s \in Session |-> "idle"]
  /\ tx = [s \in Session |-> NoTx]
  /\ held = [s \in Session |-> {}]
  /\ contended = {} /\ blind = {}

\* The requests of candidates.  Resumes that are empty, too large or no
\* resume are refused before anything is stored in the database.
CandidateRequest(s) ==
  \E c \in Person, v \in Vacancy : Apply(s, c, v) \/ Register(s, c, v) \/ Withdraw(s, <<c, v>>)

\* The requests of administrators about applications and employees.
StaffRequest(s) ==
  \E p \in Person :
    \/ CreateEmployee(s, p) \/ Deactivate(s, p)
    \/ \E edit \in Edits : Update(s, p, edit)
    \/ \E v \in Vacancy :
         \/ Hire(s, <<p, v>>)
         \/ \E verdict \in {"SHORTLISTED", "REJECTED"} : Decide(s, <<p, v>>, verdict)

Statement(s) ==
  \/ Insert(s) \/ Write(s) \/ InsertEmployee(s) \/ Notify(s) \/ WithdrawOther(s)
  \/ ReadLogin(s) \/ Flush(s) \/ Commit(s)

Next ==
  \/ \E v \in Vacancy : Advertise(v) \/ Archive(v)
  \/ \E s \in Session : CandidateRequest(s) \/ StaffRequest(s) \/ Statement(s) \/ Abort(s)

Spec == Init /\ [][Next]_vars

-----------------------------------------------------------------------------
\* Type invariant.  An idle session holds no lock and nothing in memory.
TypeOK ==
  /\ open \subseteq Vacancy
  /\ apps \in [Application -> RowType]
  /\ mails \in [Application -> Seq(MailType)]
  /\ role \in [Person -> Roles \cup {"none"}]
  /\ login \in [Person -> BOOLEAN]
  /\ employment \in [Person -> Employments \cup {"none"}]
  /\ hires \subseteq Application
  /\ stage \in [Session -> {"idle", "insert", "write", "hire", "notify", "other", "update", "commit"}]
  /\ tx \in [Session -> TxType]
  /\ \A s \in Session : stage[s] = "idle" => tx[s] = NoTx /\ held[s] = {}
  /\ contended \subseteq Person /\ blind \subseteq Person

\* The committed entries about an application.
Told(a) == {i \in DOMAIN mails[a] : mails[a][i].by = None}

\* However decisions and withdrawals of an application race, the last mail in
\* the order of the outbox announces its status.  For the other applications
\* of a hired candidate the announcement was at least made.
Announced ==
  \A a \in Application : StatusOf(a) # "none" =>
    \E i \in Told(a) :
      /\ mails[a][i].kind = MailOf(StatusOf(a))
      /\ (\A v \in Vacancy : <<a[1], v>> \notin hires) => \A j \in Told(a) : j <= i

\* A candidate is hired at most once, and exactly the hired have changed from
\* candidate to employee.
HiredOnce ==
  /\ \A a, b \in hires : a[1] = b[1] => a = b
  /\ \A p \in Person :
       (\E v \in Vacancy : StatusOf(<<p, v>>) # "none") =>
         ((employment[p] # "none") <=> (\E v \in Vacancy : <<p, v>> \in hires))
         /\ (role[p] = "EMPLOYEE" <=> employment[p] # "none")

Decisions(a) ==
  {i \in DOMAIN mails[a] :
     mails[a][i].kind \in {"SEND_INTERVIEW_INVITATION", "SEND_APPLICATION_REJECTED"}}

\* Unless two transactions about the candidate overlapped: an application is
\* decided once, its timestamps tell its status, and the hired keep no open
\* application but the one they were hired from.
OneOutcome ==
  \A a \in Application : a[1] \notin contended =>
    /\ \A i, j \in Decisions(a) : i = j
    /\ apps[a].stamps = {StatusOf(a)} \cap {"REJECTED", "WITHDRAWN"}
    /\ \A v \in Vacancy : <<a[1], v>> \in hires =>
         IF a[2] = v THEN StatusOf(a) = "SHORTLISTED" ELSE StatusOf(a) \notin OpenStatuses

\* An employee can log in exactly while they are employed, unless a request
\* that restated their employment set the login.
LoginMatches ==
  \A p \in Person \ blind :
    employment[p] # "none" => (login[p] <=> employment[p] = "ACTIVE")

\* Only edits of employees ever wait for each other in a circle, because they
\* reach person and employee in either order: applications, decisions and
\* hires take their locks in one order, so PostgreSQL never breaks them.
OnlyEditsCollide ==
  \A S \in SUBSET Session : Circle(S) => \A s \in S : tx[s].kind = "update"
=============================================================================
