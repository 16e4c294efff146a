----------------------------- MODULE HiringProofs -----------------------------
(***************************************************************************)
(* Proofs about recruitment, for any number of sessions, persons and       *)
(* vacancies: nobody is hired twice, only edits of employees wait for each *)
(* other in a circle, and who is employed can log in while ACTIVE.         *)
(*                                                                         *)
(* All rest on which locks a transaction holds at which point: a hire      *)
(* holds its employee row before it reaches for an application, and two    *)
(* transactions never hold one row. The last also needs the order that the *)
(* statements of an update have.                                           *)
(***************************************************************************)
EXTENDS Hiring, SequenceTheorems, TLAPS

Points == {"idle", "insert", "write", "hire", "notify", "other", "update", "commit"}

Steps == {"person", "employee", "read", "user"}

Rows == ({"application"} \X Application) \cup ((Steps \ {"read"}) \X Person)

DataType ==
  /\ DOMAIN apps = Application /\ DOMAIN login = Person
  /\ role \in [Person -> Roles \cup {"none"}]
  /\ employment \in [Person -> Employments \cup {"none"}]
  /\ hires \subseteq Application

SessionType ==
  /\ stage \in [Session -> Points]
  /\ tx \in [Session -> TxType]
  /\ held \in [Session -> SUBSET Rows]

-----------------------------------------------------------------------------
(* What a session holds at each point.                                     *)

Kind(s, kinds) == tx[s].kind \in kinds

\* The rows that a session may hold: of its person, or applications of theirs.
OwnRows(s) ==
  /\ \A p \in Person, t \in Steps : <<t, p>> \in held[s] => p = tx[s].who
  /\ \A a \in Application : <<"application", a>> \in held[s] =>
       /\ a[1] = tx[s].who /\ Kind(s, {"apply", "decide", "withdraw", "hire"})

StageInv(s) ==
  /\ stage[s] = "idle" => Kind(s, {"none"}) /\ held[s] = {}
  /\ stage[s] # "idle" => tx[s].who \in Person /\ tx[s].kind # "none"
  /\ stage[s] = "insert" => Kind(s, {"apply", "register", "create"}) /\ held[s] = {}
  /\ stage[s] = "write" => Kind(s, {"decide", "withdraw"}) /\ held[s] = {}
  /\ stage[s] = "hire" => Kind(s, {"hire"}) /\ held[s] = {}
  /\ stage[s] \in {"notify", "other"} => Kind(s, {"hire"})
  /\ stage[s] = "other" => tx[s].vacancy \in Vacancy
  /\ stage[s] = "update" => Kind(s, {"update"}) /\ tx[s].steps # <<>>
  /\ Kind(s, {"update"}) => tx[s].to \in Employments \cup {"none"}
  /\ Kind(s, {"hire"}) /\ stage[s] # "hire" => <<"employee", tx[s].who>> \in held[s]
  /\ Kind(s, {"register", "create"}) /\ stage[s] = "commit" => <<"person", tx[s].who>> \in held[s]
  /\ Kind(s, {"apply", "decide", "withdraw", "register"}) => tx[s].vacancy \in Vacancy
  /\ Kind(s, {"hire"}) => tx[s].job \in Vacancy

\* Locks are exclusive.
Exclusive == \A s, o \in Session : s # o => held[s] \cap held[o] = {}

LockInv ==
  /\ DataType /\ SessionType /\ Exclusive
  /\ \A s \in Session : StageInv(s) /\ OwnRows(s)

-----------------------------------------------------------------------------
(* The locks.                                                              *)

\* A step of one session that locks at most one row, which nobody holds.
LEMMA SessionStep ==
  ASSUME LockInv, DataType', NEW s \in Session,
         NEW point \in Points, stage' = [stage EXCEPT ![s] = point],
         NEW t \in TxType, tx' = [tx EXCEPT ![s] = t],
         NEW h \in SUBSET Rows, held' = [held EXCEPT ![s] = h],
         NEW x, h \subseteq held[s] \cup {x}, \A o \in Session : o # s => x \notin held[o],
         StageInv(s)', OwnRows(s)'
  PROVE  LockInv'
<1>1. /\ SessionType'
      /\ stage'[s] = point /\ tx'[s] = t /\ held'[s] = h
      /\ \A o \in Session : o # s => stage'[o] = stage[o] /\ tx'[o] = tx[o] /\ held'[o] = held[o]
  BY DEF LockInv, SessionType
<1>2. \A o \in Session : StageInv(o)' /\ OwnRows(o)'
  BY <1>1 DEF LockInv, StageInv, OwnRows, Kind
<1>3. Exclusive'
  BY <1>1 DEF LockInv, Exclusive
<1> QED BY <1>1, <1>2, <1>3 DEF LockInv

\* A session at rest holds a transaction record like any other.
LEMMA NoTxTyped == NoTx \in TxType /\ NoTx.kind = "none"
<1>1. <<>> \in Seq(Steps)
  BY EmptySeq
<1> QED BY <1>1 DEF NoTx, TxType, Kinds, Steps

\* The record of a transaction about one person.
LEMMA AboutTyped ==
  ASSUME NEW kind \in Kinds, NEW who \in Person
  PROVE  About(kind, who) \in TxType /\ About(kind, who).kind = kind /\ About(kind, who).who = who
<1>1. <<>> \in Seq(Steps)
  BY EmptySeq
<1> QED BY <1>1 DEF About, NoTx, TxType, Kinds, Steps

\* A transaction that ends releases its locks.
LEMMA EndTxLocks ==
  ASSUME LockInv, DataType', NEW s \in Session, EndTx(s)
  PROVE  LockInv'
<1>1. /\ stage'[s] = "idle" /\ tx'[s] = NoTx /\ held'[s] = {}
  BY DEF EndTx, LockInv, SessionType
<1>2. StageInv(s)' /\ OwnRows(s)'
  BY <1>1, NoTxTyped DEF StageInv, OwnRows, Kind
<1>3. "idle" \in Points /\ {} \in SUBSET Rows /\ \A o \in Session : "x" \notin {}
  BY DEF Points
<1>4. \A o \in Session : o # s => <<>> \notin held[o]
  BY DEF LockInv, SessionType, Rows
<1> QED BY <1>2, <1>3, <1>4, NoTxTyped, SessionStep DEF EndTx

\* A request begins.
LEMMA BeginLocks ==
  ASSUME LockInv, NEW s \in Session, NEW point \in Points, NEW t \in TxType, Begin(s, point, t),
         t.who \in Person,
         \/ point = "insert" /\ t.kind \in {"apply", "register"} /\ t.vacancy \in Vacancy
         \/ point = "insert" /\ t.kind = "create"
         \/ point = "write" /\ t.kind \in {"decide", "withdraw"} /\ t.vacancy \in Vacancy
         \/ point = "hire" /\ t.kind = "hire" /\ t.job \in Vacancy
         \/ /\ point = "update" /\ t.kind = "update" /\ t.steps # <<>>
            /\ t.to \in Employments \cup {"none"}
  PROVE  LockInv'
<1>1. stage[s] = "idle" /\ held[s] = {}
  BY DEF Begin, LockInv, StageInv
<1>2. stage'[s] = point /\ tx'[s] = t /\ held' = held /\ held'[s] = {}
  BY <1>1 DEF Begin, LockInv, SessionType
<1>3. StageInv(s)' /\ OwnRows(s)'
  BY <1>2 DEF StageInv, OwnRows, Kind
<1>4. held' = [held EXCEPT ![s] = {}]
  BY <1>1, <1>2 DEF LockInv, SessionType
<1>5. \A o \in Session : o # s => <<>> \notin held[o]
  BY DEF LockInv, SessionType, Rows
<1>6. DataType'
  BY DEF Begin, LockInv, DataType, people
<1>7. stage' = [stage EXCEPT ![s] = point] /\ tx' = [tx EXCEPT ![s] = t] /\ {} \in SUBSET Rows
  BY DEF Begin
<1> QED BY <1>3, <1>4, <1>5, <1>6, <1>7, SessionStep

\* A statement that may be left out.
LEMMA OptionalTyped ==
  ASSUME NEW condition \in BOOLEAN, NEW step \in Steps
  PROVE  Optional(condition, step) \in Seq(Steps)
<1>1. <<step>> \in Seq(Steps)
  OBVIOUS
<1> QED BY <1>1, EmptySeq DEF Optional

\* Only Update and Deactivate make a list of statements.
LEMMA UpdateSteps ==
  ASSUME NEW names \in BOOLEAN, NEW others \in BOOLEAN, NEW to
  PROVE  LET steps == Optional(names, "person") \o Optional(others, "employee")
                      \o Optional(to # "none", "read") \o <<"person", "employee">>
                      \o Optional(to # "none", "user")
         IN steps \in Seq(Steps) /\ steps # <<>>
<1> DEFINE a == Optional(names, "person")
           b == Optional(others, "employee")
           c == Optional(to # "none", "read")
           d == <<"person", "employee">>
           e == Optional(to # "none", "user")
<1>1. a \in Seq(Steps) /\ b \in Seq(Steps) /\ c \in Seq(Steps) /\ e \in Seq(Steps)
  BY OptionalTyped DEF Steps
<1>2. d \in Seq(Steps) /\ d # <<>>
  BY DEF Steps
<1> HIDE DEF a, b, c, d, e
<1>3. (a \o b) \in Seq(Steps)
  BY <1>1, ConcatProperties
<1>4. ((a \o b) \o c) \in Seq(Steps)
  BY <1>1, <1>3, ConcatProperties
<1>5. (((a \o b) \o c) \o d) \in Seq(Steps) /\ (((a \o b) \o c) \o d) # <<>>
  BY <1>2, <1>4, ConcatProperties, ConcatEqualIffEmpty
<1>6. ((((a \o b) \o c) \o d) \o e) \in Seq(Steps) /\ ((((a \o b) \o c) \o d) \o e) # <<>>
  BY <1>1, <1>5, ConcatProperties, ConcatEqualIffEmpty
<1> QED BY <1>6 DEF a, b, c, d, e

\* A request begins with empty hands.
LEMMA RequestLocks ==
  ASSUME LockInv, NEW s \in Session, CandidateRequest(s) \/ StaffRequest(s)
  PROVE  LockInv'
<1>1. ASSUME NEW c \in Person, NEW v \in Vacancy, Apply(s, c, v) PROVE LockInv'
  <2> DEFINE t == [About("apply", c) EXCEPT !.vacancy = v]
  <2>1. t \in TxType /\ t.kind = "apply" /\ t.who = c /\ t.vacancy = v
    BY AboutTyped DEF Kinds, TxType
  <2>2. Begin(s, "insert", t) /\ "insert" \in Points
    BY <1>1 DEF Apply, Points
  <2> HIDE DEF t
  <2> QED BY <2>1, <2>2, BeginLocks
<1>2. ASSUME NEW c \in Person, NEW v \in Vacancy, Register(s, c, v) PROVE LockInv'
  <2> DEFINE t == [About("register", c) EXCEPT !.vacancy = v]
  <2>1. t \in TxType /\ t.kind = "register" /\ t.who = c /\ t.vacancy = v
    BY AboutTyped DEF Kinds, TxType
  <2>2. Begin(s, "insert", t) /\ "insert" \in Points
    BY <1>2 DEF Register, Points
  <2> HIDE DEF t
  <2> QED BY <2>1, <2>2, BeginLocks
<1>3. ASSUME NEW c \in Person, NEW v \in Vacancy, Withdraw(s, <<c, v>>) PROVE LockInv'
  <2> DEFINE t == [About("withdraw", c) EXCEPT !.vacancy = v, !.to = "WITHDRAWN"]
  <2>1. t \in TxType /\ t.kind = "withdraw" /\ t.who = c /\ t.vacancy = v
    <3>1. "WITHDRAWN" \in Statuses /\ "withdraw" \in Kinds
      BY DEF Statuses, Kinds
    <3> QED BY <3>1, EmptySeq DEF About, NoTx, TxType
  <2>2. Begin(s, "write", t) /\ "write" \in Points
    BY <1>3 DEF Withdraw, Points
  <2> HIDE DEF t
  <2> QED BY <2>1, <2>2, BeginLocks
<1>4. ASSUME NEW p \in Person, CreateEmployee(s, p) PROVE LockInv'
  <2>1. "create" \in Kinds /\ "insert" \in Points
    BY DEF Kinds, Points
  <2> QED BY <1>4, <2>1, AboutTyped, BeginLocks DEF CreateEmployee
<1>5. ASSUME NEW p \in Person, Deactivate(s, p) PROVE LockInv'
  <2> DEFINE q == <<"employee", "read", "user">>
             t == [About("update", p) EXCEPT !.to = "INACTIVE", !.was = "ACTIVE", !.steps = q]
  <2>1. q \in Seq(Steps) /\ q # <<>>
    BY DEF Steps
  <2> HIDE DEF q
  <2>2. t \in TxType /\ t.kind = "update" /\ t.who = p /\ t.steps = q /\ t.to \in Employments
    <3>1. "update" \in Kinds /\ {"ACTIVE", "INACTIVE"} \subseteq Employments
      BY DEF Kinds, Employments
    <3> QED BY <2>1, <3>1, EmptySeq DEF About, NoTx, TxType, Steps
  <2>3. Begin(s, "update", t) /\ "update" \in Points
    BY <1>5 DEF Deactivate, Points, q
  <2> HIDE DEF t
  <2> QED BY <2>1, <2>2, <2>3, BeginLocks
<1>6. ASSUME NEW p \in Person, NEW edit \in Edits, Update(s, p, edit) PROVE LockInv'
  <2>1. edit.to \in Employments \cup {"none"} /\ edit.names \in BOOLEAN /\ edit.others \in BOOLEAN
    BY HiringAssumption DEF Employments
  <2> DEFINE q == Optional(edit.names, "person")
                  \o Optional(edit.others \/ edit.to \notin {"none", employment[p]}, "employee")
                  \o Optional(edit.to # "none", "read") \o <<"person", "employee">>
                  \o Optional(edit.to # "none", "user")
             t == [About("update", p) EXCEPT !.to = edit.to, !.was = employment[p], !.steps = q]
  <2>2. q \in Seq(Steps) /\ q # <<>>
    <3>1. (edit.others \/ edit.to \notin {"none", employment[p]}) \in BOOLEAN
      BY <2>1
    <3> QED BY <2>1, <3>1, UpdateSteps
  <2>3. employment[p] \in Employments \cup {"none"}
    BY DEF LockInv, DataType
  <2>4. Begin(s, "update", t) /\ "update" \in Points
    BY <1>6 DEF Update, Points
  <2> HIDE DEF q
  <2>5. t \in TxType /\ t.kind = "update" /\ t.who = p /\ t.steps = q /\ t.to = edit.to
    <3>1. "update" \in Kinds
      BY DEF Kinds
    <3> QED BY <2>1, <2>2, <2>3, <3>1, EmptySeq DEF About, NoTx, TxType, Steps
  <2> HIDE DEF t
  <2> QED BY <2>1, <2>2, <2>4, <2>5, BeginLocks
<1>7. ASSUME NEW p \in Person, NEW v \in Vacancy, Hire(s, <<p, v>>) PROVE LockInv'
  <2> DEFINE t == [About("hire", p) EXCEPT !.job = v]
  <2>1. t \in TxType /\ t.kind = "hire" /\ t.who = p /\ t.job = v
    BY AboutTyped DEF Kinds, TxType
  <2>2. Begin(s, "hire", t) /\ "hire" \in Points
    BY <1>7 DEF Hire, Points
  <2> HIDE DEF t
  <2> QED BY <2>1, <2>2, BeginLocks
<1>8. ASSUME NEW p \in Person, NEW v \in Vacancy, NEW verdict \in {"SHORTLISTED", "REJECTED"},
             Decide(s, <<p, v>>, verdict)
      PROVE  LockInv'
  <2> DEFINE t == [About("decide", p) EXCEPT !.vacancy = v, !.to = verdict]
  <2>1. t \in TxType /\ t.kind = "decide" /\ t.who = p /\ t.vacancy = v
    <3>1. verdict \in Statuses /\ "decide" \in Kinds
      BY DEF Statuses, OpenStatuses, Kinds
    <3> QED BY <3>1, EmptySeq DEF About, NoTx, TxType
  <2>2. Begin(s, "write", t) /\ "write" \in Points
    BY <1>8 DEF Decide, Points
  <2> HIDE DEF t
  <2> QED BY <2>1, <2>2, BeginLocks
<1> QED BY <1>1, <1>2, <1>3, <1>4, <1>5, <1>6, <1>7, <1>8 DEF CandidateRequest, StaffRequest

\* The row that a statement reaches for.
LEMMA TargetRow ==
  ASSUME LockInv, NEW s \in Session,
         \/ stage[s] \in {"insert", "write", "hire", "other"}
         \/ stage[s] = "update" /\ Head(tx[s].steps) # "read"
  PROVE  \/ /\ Target(s) = <<"application", AppAt(s)>> /\ AppAt(s) \in Application
            /\ AppAt(s)[1] = tx[s].who /\ Kind(s, {"apply", "decide", "withdraw", "hire"})
         \/ \E t \in Steps \ {"read"} : Target(s) = <<t, tx[s].who>>
<1>1. StageInv(s) /\ tx[s].who \in Person /\ stage[s] # "idle"
  BY DEF LockInv, StageInv
<1>2. CASE stage[s] = "insert" /\ tx[s].kind = "apply"
  BY <1>1, <1>2 DEF Target, AppAt, StageInv, Kind, Application
<1>3. CASE stage[s] = "insert" /\ tx[s].kind # "apply"
  BY <1>1, <1>3 DEF Target, Steps
<1>4. CASE stage[s] = "write"
  BY <1>1, <1>4 DEF Target, AppAt, StageInv, Kind, Application
<1>5. CASE stage[s] = "other"
  BY <1>1, <1>5 DEF Target, AppAt, StageInv, Kind, Application
<1>6. CASE stage[s] = "hire"
  BY <1>1, <1>6 DEF Target, Steps
<1>7. CASE stage[s] = "update" /\ Head(tx[s].steps) # "read"
  <2>1. tx[s].steps \in Seq(Steps) /\ tx[s].steps # <<>>
    BY <1>1, <1>7 DEF LockInv, SessionType, TxType, Steps, StageInv
  <2>2. Head(tx[s].steps) \in Steps
    BY <2>1
  <2>3. Target(s) = <<Head(tx[s].steps), tx[s].who>>
    BY <1>7 DEF Target
  <2> QED BY <1>7, <2>2, <2>3
<1> QED BY <1>2, <1>3, <1>4, <1>5, <1>6, <1>7

\* A statement locks its row.
LEMMA LockStep ==
  ASSUME LockInv, DataType', NEW s \in Session,
         \/ stage[s] \in {"insert", "write", "hire", "other"}
         \/ stage[s] = "update" /\ Head(tx[s].steps) # "read",
         Granted(s), Lock(s),
         NEW point \in Points, stage' = [stage EXCEPT ![s] = point],
         NEW t \in TxType, tx' = [tx EXCEPT ![s] = t], t.who = tx[s].who, t.kind = tx[s].kind,
         StageInv(s)'
  PROVE  LockInv'
<1> DEFINE h == held[s] \cup {Target(s)}
<1>1. /\ tx'[s] = t /\ held' = [held EXCEPT ![s] = h] /\ held'[s] = h
      /\ held[s] \in SUBSET Rows
  BY DEF Lock, LockInv, SessionType
<1>2. tx[s].who \in Person /\ OwnRows(s)
  BY DEF LockInv, StageInv
<1>3. Target(s) \in Rows
  BY <1>2, TargetRow DEF Rows
<1>4. \A p \in Person, u \in Steps : Target(s) = <<u, p>> => p = tx[s].who
  BY TargetRow DEF Steps
<1>5. \A a \in Application : Target(s) = <<"application", a>> =>
        a[1] = tx[s].who /\ Kind(s, {"apply", "decide", "withdraw", "hire"})
  BY TargetRow DEF Steps
<1>6. OwnRows(s)'
  BY <1>1, <1>2, <1>4, <1>5 DEF OwnRows, Kind
<1>7. \A o \in Session : o # s => Target(s) \notin held[o]
  BY DEF Granted, WaitsFor
<1>8. h \in SUBSET Rows /\ h \subseteq held[s] \cup {Target(s)}
  BY <1>1, <1>3
<1> QED BY <1>1, <1>6, <1>7, <1>8, SessionStep

\* Statements that lock nothing.
LEMMA QuietStep ==
  ASSUME LockInv, DataType', NEW s \in Session, UNCHANGED held,
         NEW point \in Points, stage' = [stage EXCEPT ![s] = point],
         NEW t \in TxType, tx' = [tx EXCEPT ![s] = t], t.who = tx[s].who, t.kind = tx[s].kind,
         StageInv(s)'
  PROVE  LockInv'
<1>1. tx'[s] = t /\ held' = [held EXCEPT ![s] = held[s]] /\ held'[s] = held[s] /\ held[s] \in SUBSET Rows
  BY DEF LockInv, SessionType
<1>2. OwnRows(s)
  BY DEF LockInv
<1>3. OwnRows(s)'
  BY <1>1, <1>2 DEF OwnRows, Kind
<1>4. \A o \in Session : o # s => <<>> \notin held[o]
  BY DEF LockInv, SessionType, Rows
<1> QED BY <1>1, <1>3, <1>4, SessionStep

\* An insertion locks the row it inserts, with empty hands before.
LEMMA InsertLocks ==
  ASSUME LockInv, NEW s \in Session, Insert(s)
  PROVE  LockInv'
<1>1. DataType' /\ stage[s] = "insert" /\ Granted(s) /\ StageInv(s)
  BY DEF Insert, LockInv, DataType, people
<1>2. CASE EndTx(s)
  BY <1>1, <1>2, EndTxLocks
<1>3. CASE Lock(s) /\ Goto(s, "commit") /\ UNCHANGED tx
  <2>1. /\ stage' = [stage EXCEPT ![s] = "commit"] /\ tx' = [tx EXCEPT ![s] = tx[s]]
        /\ tx[s] \in TxType /\ "commit" \in Points
        /\ stage'[s] = "commit" /\ tx'[s] = tx[s] /\ held'[s] = held[s] \cup {Target(s)}
    BY <1>3 DEF Goto, Lock, LockInv, SessionType, Points
  <2>2. tx[s].kind # "apply" => Target(s) = <<"person", tx[s].who>>
    BY <1>1 DEF Target
  <2>3. StageInv(s)'
    BY <1>1, <2>1, <2>2 DEF StageInv, Kind
  <2> QED BY <1>1, <1>3, <2>1, <2>3, LockStep
<1> QED BY <1>2, <1>3 DEF Insert

\* The write of a status locks the application.
LEMMA WriteLocks ==
  ASSUME LockInv, NEW s \in Session, Write(s)
  PROVE  LockInv'
<1>1. DataType' /\ stage[s] = "write" /\ Granted(s) /\ Lock(s) /\ StageInv(s)
  BY DEF Write, LockInv, DataType, people
<1>2. /\ stage' = [stage EXCEPT ![s] = "commit"] /\ tx' = [tx EXCEPT ![s] = tx[s]]
      /\ tx[s] \in TxType /\ "commit" \in Points
      /\ stage'[s] = "commit" /\ tx'[s] = tx[s]
  BY DEF Write, Goto, LockInv, SessionType, Points
<1>3. StageInv(s)'
  BY <1>1, <1>2 DEF StageInv, Kind
<1> QED BY <1>1, <1>2, <1>3, LockStep

\* A hire locks the employee row it inserts.
LEMMA InsertEmployeeLocks ==
  ASSUME LockInv, NEW s \in Session, InsertEmployee(s)
  PROVE  LockInv'
<1>1. DataType' /\ stage[s] = "hire" /\ Granted(s) /\ StageInv(s)
  BY DEF InsertEmployee, LockInv, DataType, people
<1>2. CASE EndTx(s)
  BY <1>1, <1>2, EndTxLocks
<1>3. CASE /\ Lock(s)
           /\ tx' = [tx EXCEPT ![s].rest = Others(s)]
           /\ Goto(s, IF Others(s) = {} THEN "commit" ELSE "notify")
  <2> DEFINE t == [tx[s] EXCEPT !.rest = Others(s)]
             point == IF Others(s) = {} THEN "commit" ELSE "notify"
  <2>1. tx[s] \in TxType /\ Others(s) \in SUBSET Vacancy
    BY DEF LockInv, SessionType, Others
  <2>2. t \in TxType /\ t.who = tx[s].who /\ t.kind = tx[s].kind /\ t.job = tx[s].job
        /\ t.to = tx[s].to
    BY <2>1 DEF TxType
  <2>3. /\ tx' = [tx EXCEPT ![s] = t] /\ stage' = [stage EXCEPT ![s] = point]
        /\ point \in {"commit", "notify"} /\ point \in Points
    BY <1>3 DEF Goto, Points
  <2>4. tx'[s] = t /\ stage'[s] = point /\ held'[s] = held[s] \cup {<<"employee", tx[s].who>>}
    BY <1>1, <1>3, <2>3 DEF LockInv, SessionType, Lock, Target
  <2> HIDE DEF t, point
  <2>5. StageInv(s)'
    BY <1>1, <2>2, <2>3, <2>4 DEF StageInv, Kind
  <2> QED BY <1>1, <1>3, <2>2, <2>3, <2>5, LockStep
<1> QED BY <1>2, <1>3 DEF InsertEmployee

\* Mails need no row.
LEMMA NotifyLocks ==
  ASSUME LockInv, NEW s \in Session, Notify(s)
  PROVE  LockInv'
<1>1. DataType' /\ stage[s] = "notify" /\ StageInv(s) /\ UNCHANGED held /\ tx[s] \in TxType
  BY DEF Notify, LockInv, DataType, people, SessionType
<1>2. PICK v \in tx[s].rest : tx' = [tx EXCEPT ![s].vacancy = v]
  BY DEF Notify
<1> DEFINE t == [tx[s] EXCEPT !.vacancy = v]
<1>3. v \in Vacancy
  BY <1>1, <1>2 DEF TxType
<1>4. t \in TxType /\ t.who = tx[s].who /\ t.kind = tx[s].kind /\ t.job = tx[s].job
      /\ t.to = tx[s].to /\ t.vacancy = v
  BY <1>1, <1>3 DEF TxType
<1>5. /\ tx' = [tx EXCEPT ![s] = t] /\ stage' = [stage EXCEPT ![s] = "other"] /\ "other" \in Points
  BY <1>2 DEF Notify, Goto, Points
<1>6. tx'[s] = t /\ stage'[s] = "other" /\ held'[s] = held[s]
  BY <1>1, <1>5 DEF LockInv, SessionType
<1> HIDE DEF t
<1>7. StageInv(s)'
  BY <1>1, <1>3, <1>4, <1>6 DEF StageInv, Kind
<1> QED BY <1>1, <1>4, <1>5, <1>7, QuietStep

\* A hire then locks the other applications, one by one.
LEMMA WithdrawOtherLocks ==
  ASSUME LockInv, NEW s \in Session, WithdrawOther(s)
  PROVE  LockInv'
<1>1. DataType' /\ stage[s] = "other" /\ StageInv(s) /\ Granted(s) /\ Lock(s) /\ tx[s] \in TxType
  BY DEF WithdrawOther, LockInv, DataType, people, SessionType
<1> DEFINE t == [tx[s] EXCEPT !.rest = @ \ {tx[s].vacancy}]
           point == IF tx[s].rest = {tx[s].vacancy} THEN "commit" ELSE "notify"
<1>2. t \in TxType /\ t.who = tx[s].who /\ t.kind = tx[s].kind /\ t.job = tx[s].job
      /\ t.to = tx[s].to
  BY <1>1 DEF TxType
<1>3. /\ tx' = [tx EXCEPT ![s] = t] /\ stage' = [stage EXCEPT ![s] = point]
      /\ point \in {"commit", "notify"} /\ point \in Points
  BY DEF WithdrawOther, Goto, Points
<1>4. tx'[s] = t /\ stage'[s] = point /\ held[s] \subseteq held'[s]
  BY <1>1, <1>3 DEF LockInv, SessionType, Lock
<1> HIDE DEF t, point
<1>5. StageInv(s)'
  BY <1>1, <1>2, <1>3, <1>4 DEF StageInv, Kind
<1> QED BY <1>1, <1>2, <1>3, <1>5, LockStep

\* One statement of an update is done.
LEMMA TailTyped ==
  ASSUME NEW q \in Seq(Steps), q # <<>>
  PROVE  /\ Head(q) \in Steps /\ Tail(q) \in Seq(Steps)
         /\ Len(q) # 1 => Tail(q) # <<>>
<1>1. Head(q) \in Steps /\ Tail(q) \in Seq(Steps) /\ Len(Tail(q)) = Len(q) - 1 /\ Len(q) \in Nat
  BY HeadTailProperties
<1>2. Len(q) # 1 => Len(Tail(q)) # 0
  BY <1>1
<1>3. Len(<<>>) = 0
  OBVIOUS
<1>4. Tail(q) = <<>> => Len(Tail(q)) = 0
  BY <1>3, Zenon
<1> QED BY <1>1, <1>2, <1>4, Zenon

\* An update of a person goes on to its next statement.
LEMMA UpdateStage ==
  ASSUME LockInv, NEW s \in Session, stage[s] = "update", Proceed(s),
         NEW seen \in Employments \cup {"none"},
         NEW t, t = [tx[s] EXCEPT !.steps = Tail(@), !.seen = seen],
         tx' = [tx EXCEPT ![s] = t], held[s] \subseteq held'[s]
  PROVE  /\ t \in TxType /\ t.who = tx[s].who /\ t.kind = tx[s].kind
         /\ \E point \in Points : stage' = [stage EXCEPT ![s] = point]
         /\ StageInv(s)'
<1> DEFINE q == tx[s].steps
           point == IF Len(q) = 1 THEN "commit" ELSE "update"
<1>1. StageInv(s) /\ tx[s] \in TxType /\ q \in Seq(Steps) /\ q # <<>> /\ Kind(s, {"update"})
  <2>1. tx[s] \in TxType /\ StageInv(s)
    BY DEF LockInv, SessionType
  <2> QED BY <2>1 DEF TxType, Steps, StageInv
<1>2. Tail(q) \in Seq(Steps) /\ (Len(q) # 1 => Tail(q) # <<>>)
  BY <1>1, TailTyped
<1>3. t \in TxType /\ t.who = tx[s].who /\ t.kind = "update" /\ tx[s].kind = "update"
      /\ t.to = tx[s].to /\ t.steps = Tail(q)
  BY <1>1, <1>2 DEF TxType, Steps, Kind
<1>4. stage' = [stage EXCEPT ![s] = point] /\ point \in Points
  BY DEF Proceed, Goto, Points
<1>5. stage'[s] = point /\ tx'[s] = t
  BY <1>4 DEF LockInv, SessionType
<1>6. point \in {"commit", "update"} /\ (point = "update" => t.steps # <<>>)
  BY <1>2, <1>3
<1> HIDE DEF point
<1>7. StageInv(s)'
  BY <1>1, <1>3, <1>5, <1>6 DEF StageInv, Kind
<1> QED BY <1>3, <1>4, <1>7

\* Reading the login locks nothing.
LEMMA ReadLoginLocks ==
  ASSUME LockInv, NEW s \in Session, ReadLogin(s)
  PROVE  LockInv'
<1> DEFINE seen == Status(login[tx[s].who])
           t == [tx[s] EXCEPT !.steps = Tail(@), !.seen = seen]
<1>1. DataType' /\ stage[s] = "update" /\ UNCHANGED held /\ Proceed(s)
      /\ seen \in Employments \cup {"none"}
  BY DEF ReadLogin, LockInv, DataType, people, Status, Employments
<1>2. tx' = [tx EXCEPT ![s] = t]
  BY DEF ReadLogin
<1>3. held[s] \subseteq held'[s]
  BY <1>1
<1> HIDE DEF seen
<1>4. /\ t \in TxType /\ t.who = tx[s].who /\ t.kind = tx[s].kind
      /\ \E point \in Points : stage' = [stage EXCEPT ![s] = point]
      /\ StageInv(s)'
  BY <1>1, <1>2, <1>3, UpdateStage
<1> HIDE DEF t
<1> QED BY <1>1, <1>2, <1>4, QuietStep

\* A flush locks the row it writes, if it writes one.
LEMMA FlushLocks ==
  ASSUME LockInv, NEW s \in Session, Flush(s)
  PROVE  LockInv'
<1> DEFINE t == [tx[s] EXCEPT !.steps = Tail(@), !.seen = tx[s].seen]
<1>1. DataType' /\ stage[s] = "update" /\ Head(tx[s].steps) # "read" /\ Proceed(s) /\ tx[s] \in TxType
  BY DEF Flush, LockInv, DataType, people, SessionType
<1>2. tx[s].seen \in Employments \cup {"none"} /\ t = [tx[s] EXCEPT !.steps = Tail(@)]
  BY <1>1 DEF TxType
<1>3. tx' = [tx EXCEPT ![s] = t]
  BY <1>2 DEF Flush
<1>4. UNCHANGED held \/ (Granted(s) /\ Lock(s))
  BY DEF Flush
<1>5. held[s] \subseteq held'[s]
  BY <1>4 DEF Lock, LockInv, SessionType
<1>6. /\ t \in TxType /\ t.who = tx[s].who /\ t.kind = tx[s].kind
      /\ \E point \in Points : stage' = [stage EXCEPT ![s] = point]
      /\ StageInv(s)'
  BY <1>1, <1>2, <1>3, <1>5, UpdateStage
<1> HIDE DEF t
<1>7. CASE UNCHANGED held
  BY <1>1, <1>3, <1>6, <1>7, QuietStep
<1>8. CASE Granted(s) /\ Lock(s)
  BY <1>1, <1>3, <1>6, <1>8, LockStep
<1> QED BY <1>4, <1>7, <1>8

\* What a COMMIT writes has the right types.
LEMMA CommitData ==
  ASSUME LockInv, NEW s \in Session, Commit(s)
  PROVE  DataType'
<1>1. DataType /\ tx[s].who \in Person /\ StageInv(s)
  BY DEF Commit, LockInv, StageInv
<1>2. CASE CommitInsert(s)
  BY <1>1, <1>2 DEF CommitInsert, NewApplication, NewLogin, people, DataType, Roles, Employments
<1>3. CASE CommitWrite(s)
  BY <1>1, <1>3 DEF CommitWrite, people, DataType
<1>4. CASE CommitHire(s)
  <2>1. tx[s].job \in Vacancy
    BY <1>1, <1>4 DEF CommitHire, StageInv, Kind
  <2> QED BY <1>1, <1>4, <2>1 DEF CommitHire, DataType, Roles, Employments, Application
<1>5. CASE CommitUpdate(s)
  <2>1. tx[s].to \in Employments \cup {"none"}
    BY <1>1, <1>5 DEF CommitUpdate, StageInv, Kind
  <2> QED BY <1>1, <1>5, <2>1 DEF CommitUpdate, DataType
<1> QED BY <1>2, <1>3, <1>4, <1>5 DEF Commit

\* Every step, and stuttering.
LEMMA LocksKept == LockInv /\ [Next]_vars => LockInv'
<1> SUFFICES ASSUME LockInv, [Next]_vars PROVE LockInv'
  OBVIOUS
<1>1. ASSUME UNCHANGED vars \/ \E v \in Vacancy : Advertise(v) \/ Archive(v) PROVE LockInv'
  <2>1. UNCHANGED <<stage, tx, held>> /\ DataType'
    BY <1>1 DEF vars, people, Advertise, Archive, LockInv, DataType
  <2> QED BY <2>1 DEF LockInv, SessionType, StageInv, OwnRows, Kind, Exclusive
<1>2. ASSUME NEW s \in Session, CandidateRequest(s) \/ StaffRequest(s) PROVE LockInv'
  BY <1>2, RequestLocks
<1>3. ASSUME NEW s \in Session, Commit(s) PROVE LockInv'
  BY <1>3, CommitData, EndTxLocks DEF Commit
<1>4. ASSUME NEW s \in Session, Abort(s) PROVE LockInv'
  <2>1. DataType'
    BY <1>4 DEF Abort, people, LockInv, DataType
  <2> QED BY <1>4, <2>1, EndTxLocks DEF Abort
<1>5. ASSUME NEW s \in Session, Statement(s) PROVE LockInv'
  BY <1>3, <1>5, InsertLocks, WriteLocks, InsertEmployeeLocks, NotifyLocks, WithdrawOtherLocks,
     ReadLoginLocks, FlushLocks DEF Statement
<1> QED BY <1>1, <1>2, <1>4, <1>5 DEF Next

\* At first nobody holds a lock.
LEMMA LocksInitially == Init => LockInv
<1> SUFFICES ASSUME Init PROVE LockInv
  OBVIOUS
<1>1. DataType
  BY DEF Init, DataType
<1>2. SessionType
  BY NoTxTyped DEF Init, SessionType, Points
<1>3. ASSUME NEW s \in Session PROVE StageInv(s) /\ OwnRows(s)
  BY NoTxTyped DEF Init, StageInv, OwnRows, Kind
<1> QED BY <1>1, <1>2, <1>3 DEF LockInv, Exclusive, Init

\* Each transaction holds what its stage says throughout.
LEMMA LocksAlways == Spec => []LockInv
  BY LocksInitially, LocksKept, PTL DEF Spec

\* Applications, decisions, withdrawals and hires are never in a circle of
\* transactions that wait for each other.  An insertion, a decision and the
\* first statement of a hire reach for their row with empty hands, so nobody
\* waits for them; and a hire that reaches for an application would have to
\* wait for another hire of the same candidate, which cannot hold the same
\* employee row.
THEOREM OnlyEditsDeadlock == Spec => []OnlyEditsCollide
<1>1. LockInv => OnlyEditsCollide
  <2> SUFFICES ASSUME LockInv, NEW S \in SUBSET Session, Circle(S), NEW s \in S
               PROVE  tx[s].kind = "update"
    BY DEF OnlyEditsCollide
  <2>1. ASSUME NEW u \in S PROVE stage[u] \in {"other", "update"}
    <3>1. PICK o \in S : WaitsFor(u, o)
      BY DEF Circle
    <3>2. held[o] \subseteq Rows /\ Target(u) \in Rows
      BY <3>1 DEF LockInv, SessionType, WaitsFor
    <3>3. <<"none", None>> \notin Rows
      BY DEF Rows, Steps
    <3>4. stage[u] \in {"insert", "write", "other", "hire", "update"}
      BY <3>2, <3>3 DEF Target
    <3>5. PICK w \in S : WaitsFor(w, u)
      BY DEF Circle
    <3>6. held[u] # {}
      BY <3>5 DEF WaitsFor
    <3>7. StageInv(u)
      BY DEF LockInv
    <3> QED BY <3>4, <3>6, <3>7 DEF StageInv
  <2>2. ASSUME stage[s] = "other" PROVE FALSE
    <3>1. PICK o \in S : WaitsFor(s, o)
      BY DEF Circle
    <3>2. StageInv(s) /\ StageInv(o) /\ OwnRows(o) /\ s \in Session /\ o \in Session
      BY DEF LockInv
    <3>3. s # o /\ <<"application", AppAt(s)>> \in held[o]
      BY <2>2, <3>1 DEF WaitsFor, Target
    <3>4. AppAt(s) \in Application /\ AppAt(s)[1] = tx[s].who
      BY <2>2, <3>2 DEF AppAt, Application, StageInv
    <3>5. tx[o].who = tx[s].who /\ Kind(o, {"apply", "decide", "withdraw", "hire"})
      BY <3>2, <3>3, <3>4 DEF OwnRows
    <3>6. stage[o] = "other"
      BY <2>1, <3>2, <3>5 DEF StageInv, Kind
    <3>7. <<"employee", tx[s].who>> \in held[s] \cap held[o]
      BY <2>2, <3>2, <3>5, <3>6 DEF StageInv
    <3> QED BY <3>2, <3>3, <3>7 DEF LockInv, Exclusive
  <2>3. stage[s] = "update" /\ StageInv(s)
    BY <2>1, <2>2 DEF LockInv
  <2> QED BY <2>3 DEF StageInv, Kind
<1> QED BY <1>1, LocksAlways, PTL

-----------------------------------------------------------------------------
(* Who is employed.                                                        *)

Applied(p) == \E v \in Vacancy : StatusOf(<<p, v>>) # "none"

Hired(p) == \E v \in Vacancy : <<p, v>> \in hires

\* Someone with a login who, if employed, was hired.
Known(p) == role[p] # "none" /\ (employment[p] # "none" => Hired(p))

PersonOK(p) ==
  /\ role[p] = "EMPLOYEE" <=> employment[p] # "none"
  /\ Applied(p) => Known(p)
  /\ Hired(p) => employment[p] # "none"
  /\ \A v, w \in Vacancy : <<p, v>> \in hires /\ <<p, w>> \in hires => v = w

\* What a transaction may still rely on of what it read.
FactsOf(s) ==
  /\ Kind(s, {"apply", "decide", "withdraw", "hire"}) => Known(tx[s].who)
  /\ Kind(s, {"hire"}) /\ stage[s] # "hire" => employment[tx[s].who] = "none"
  /\ Kind(s, {"register", "create"}) /\ stage[s] = "commit" => role[tx[s].who] = "none"
  /\ Kind(s, {"update"}) => employment[tx[s].who] # "none"

PersonInv ==
  /\ \A p \in Person : PersonOK(p)
  /\ \A s \in Session : FactsOf(s)

\* Until somebody commits, nothing changes but one session.
LEMMA SamePeople ==
  ASSUME LockInv, PersonInv, UNCHANGED <<apps, role, employment, hires>>, NEW s \in Session,
         NEW point, stage' = [stage EXCEPT ![s] = point],
         NEW t, tx' = [tx EXCEPT ![s] = t], FactsOf(s)'
  PROVE  PersonInv'
<1>1. \A p \in Person : PersonOK(p)'
  BY DEF PersonInv, PersonOK, Applied, StatusOf, Hired, Known
<1>2. ASSUME NEW o \in Session, o # s PROVE FactsOf(o)'
  <2>1. FactsOf(o) /\ stage'[o] = stage[o] /\ tx'[o] = tx[o]
    BY <1>2 DEF PersonInv, LockInv, SessionType
  <2>2. PICK w : tx[o].who = w
    OBVIOUS
  <2>3. tx'[o].who = w
    BY <2>1, <2>2
  <2>4. Known(w)' <=> Known(w)
    BY DEF Known, Hired
  <2>5. Kind(o, {"apply", "decide", "withdraw", "hire"})' => Known(w)
    BY <2>1, <2>2 DEF FactsOf, Kind
  <2>6. /\ Kind(o, {"hire"})' /\ stage'[o] # "hire" => employment'[w] = "none"
        /\ Kind(o, {"register", "create"})' /\ stage'[o] = "commit" => role'[w] = "none"
        /\ Kind(o, {"update"})' => employment'[w] # "none"
    BY <2>1, <2>2 DEF FactsOf, Kind
  <2> QED BY <2>3, <2>4, <2>5, <2>6 DEF FactsOf
<1> QED BY <1>1, <1>2 DEF PersonInv

\* A session that ends, or goes on with the same kind of transaction.
LEMMA EndPeople ==
  ASSUME LockInv, PersonInv, UNCHANGED <<apps, role, employment, hires>>,
         NEW s \in Session, EndTx(s)
  PROVE  PersonInv'
<1>1. stage'[s] = "idle" /\ tx'[s] = NoTx
  BY DEF EndTx, LockInv, SessionType
<1>2. FactsOf(s)'
  BY <1>1, NoTxTyped DEF FactsOf, Kind
<1> QED BY <1>2, SamePeople DEF EndTx

\* A statement that changes no table, on the way to the next.
LEMMA GoOn ==
  ASSUME LockInv, PersonInv, UNCHANGED <<apps, role, employment, hires>>, NEW s \in Session,
         NEW point, stage' = [stage EXCEPT ![s] = point],
         NEW t, tx' = [tx EXCEPT ![s] = t], t.who = tx[s].who, t.kind = tx[s].kind,
         stage[s] \notin {"insert", "hire"}, point # "commit" \/ ~Kind(s, {"register", "create"})
  PROVE  PersonInv'
<1>1. FactsOf(s) /\ stage'[s] = point /\ tx'[s] = t
  BY DEF PersonInv, LockInv, SessionType
<1>2. FactsOf(s)'
  BY <1>1 DEF FactsOf, Kind, Known, Hired
<1> QED BY <1>2, SamePeople

\* A request finds the person in a state that the transaction relies on.
LEMMA BeginPeople ==
  ASSUME LockInv, PersonInv, NEW s \in Session, NEW point, NEW t, Begin(s, point, t),
         t.kind \in {"apply", "decide", "withdraw", "hire"} => Known(t.who),
         t.kind = "hire" => point = "hire",
         point # "commit",
         t.kind = "update" => employment[t.who] # "none"
  PROVE  PersonInv'
<1>1. stage'[s] = point /\ tx'[s] = t /\ UNCHANGED <<apps, role, employment, hires>>
      /\ stage' = [stage EXCEPT ![s] = point] /\ tx' = [tx EXCEPT ![s] = t]
  BY DEF Begin, people, LockInv, SessionType
<1>2. FactsOf(s)'
  BY <1>1 DEF FactsOf, Kind, Known, Hired
<1> QED BY <1>1, <1>2, SamePeople

\* What a transaction record is about.
LEMMA AboutKind ==
  ASSUME NEW kind, NEW who
  PROVE  About(kind, who).kind = kind /\ About(kind, who).who = who
  BY DEF About, NoTx

\* A request relies on no fact about a person yet.
LEMMA RequestPeople ==
  ASSUME LockInv, PersonInv, NEW s \in Session, CandidateRequest(s) \/ StaffRequest(s)
  PROVE  PersonInv'
<1>0. /\ \A p \in Person : role[p] = "CANDIDATE" => Known(p)
      /\ \A p \in Person, v \in Vacancy : StatusOf(<<p, v>>) # "none" => Known(p)
  BY DEF PersonInv, PersonOK, Known, Applied
<1>1. ASSUME NEW c \in Person, NEW v \in Vacancy, Apply(s, c, v) PROVE PersonInv'
  <2> DEFINE t == [About("apply", c) EXCEPT !.vacancy = v]
  <2>1. t.kind = "apply" /\ t.who = c /\ Known(c) /\ Begin(s, "insert", t)
    BY <1>0, <1>1 DEF About, NoTx, Apply, MayApply
  <2> HIDE DEF t
  <2> QED BY <2>1, BeginPeople
<1>2. ASSUME NEW c \in Person, NEW v \in Vacancy, Register(s, c, v) PROVE PersonInv'
  <2> DEFINE t == [About("register", c) EXCEPT !.vacancy = v]
  <2>1. t.kind = "register" /\ t.who = c /\ Begin(s, "insert", t)
    BY <1>2 DEF About, NoTx, Register
  <2> HIDE DEF t
  <2> QED BY <2>1, BeginPeople
<1>3. ASSUME NEW c \in Person, NEW v \in Vacancy, Withdraw(s, <<c, v>>) PROVE PersonInv'
  <2> DEFINE t == [About("withdraw", c) EXCEPT !.vacancy = v, !.to = "WITHDRAWN"]
  <2>1. t.kind = "withdraw" /\ t.who = c /\ Known(c) /\ Begin(s, "write", t)
    BY <1>0, <1>3 DEF About, NoTx, Withdraw, MayApply
  <2> HIDE DEF t
  <2> QED BY <2>1, BeginPeople
<1>4. ASSUME NEW p \in Person, CreateEmployee(s, p) PROVE PersonInv'
  BY <1>4, AboutKind, BeginPeople DEF CreateEmployee
<1>5. ASSUME NEW p \in Person, Deactivate(s, p) PROVE PersonInv'
  <2> DEFINE t == [About("update", p) EXCEPT
                     !.to = "INACTIVE", !.was = "ACTIVE", !.steps = <<"employee", "read", "user">>]
  <2>1. t.kind = "update" /\ t.who = p /\ employment[p] # "none" /\ Begin(s, "update", t)
    BY <1>5 DEF About, NoTx, Deactivate
  <2> HIDE DEF t
  <2> QED BY <2>1, BeginPeople
<1>6. ASSUME NEW p \in Person, NEW edit \in Edits, Update(s, p, edit) PROVE PersonInv'
  <2>1. PICK q : Begin(s, "update", [About("update", p) EXCEPT
                            !.to = edit.to, !.was = employment[p], !.steps = q])
    BY <1>6 DEF Update
  <2> DEFINE t == [About("update", p) EXCEPT !.to = edit.to, !.was = employment[p], !.steps = q]
  <2>2. t.kind = "update" /\ t.who = p /\ employment[p] # "none" /\ Begin(s, "update", t)
    BY <1>6, <2>1 DEF About, NoTx, Update
  <2> HIDE DEF t
  <2> QED BY <2>2, BeginPeople
<1>7. ASSUME NEW p \in Person, NEW v \in Vacancy, Hire(s, <<p, v>>) PROVE PersonInv'
  <2> DEFINE t == [About("hire", p) EXCEPT !.job = v]
  <2>1. t.kind = "hire" /\ t.who = p /\ Known(p) /\ Begin(s, "hire", t)
    BY <1>0, <1>7 DEF About, NoTx, Hire
  <2> HIDE DEF t
  <2> QED BY <2>1, BeginPeople
<1>8. ASSUME NEW p \in Person, NEW v \in Vacancy, NEW verdict, Decide(s, <<p, v>>, verdict)
      PROVE  PersonInv'
  <2> DEFINE t == [About("decide", p) EXCEPT !.vacancy = v, !.to = verdict]
  <2>1. t.kind = "decide" /\ t.who = p /\ Known(p) /\ Begin(s, "write", t)
    BY <1>0, <1>8 DEF About, NoTx, Decide
  <2> HIDE DEF t
  <2> QED BY <2>1, BeginPeople
<1> QED BY <1>1, <1>2, <1>3, <1>4, <1>5, <1>6, <1>7, <1>8 DEF CandidateRequest, StaffRequest

\* What statements find out about a person, under the locks they take.
LEMMA StatementPeople ==
  ASSUME LockInv, PersonInv, NEW s \in Session,
         \/ Insert(s) \/ Write(s) \/ InsertEmployee(s) \/ Notify(s) \/ WithdrawOther(s)
         \/ ReadLogin(s) \/ Flush(s)
  PROVE  PersonInv'
<1>0. /\ UNCHANGED <<apps, role, employment, hires>>
      /\ StageInv(s) /\ FactsOf(s)
      /\ tx = [tx EXCEPT ![s] = tx[s]]
  BY DEF Insert, Write, InsertEmployee, Notify, WithdrawOther, ReadLogin, Flush, people,
         LockInv, PersonInv, SessionType
<1>1. CASE Insert(s)
  <2>1. CASE EndTx(s)
    BY <1>0, <2>1, EndPeople
  <2>2. CASE ~Taken(s) /\ Goto(s, "commit") /\ UNCHANGED tx
    <3>1. tx' = [tx EXCEPT ![s] = tx[s]] /\ stage' = [stage EXCEPT ![s] = "commit"]
      BY <1>0, <2>2 DEF Goto
    <3>2. tx'[s] = tx[s] /\ stage'[s] = "commit"
      BY <3>1 DEF LockInv, SessionType
    <3>3. Kind(s, {"apply", "register", "create"})
      BY <1>0, <1>1 DEF Insert, StageInv
    <3>4. Kind(s, {"register", "create"}) => role[tx[s].who] = "none"
      BY <2>2 DEF Taken, Kind
    <3>5. FactsOf(s)'
      BY <1>0, <3>2, <3>3, <3>4 DEF FactsOf, Kind, Known, Hired
    <3> QED BY <1>0, <3>1, <3>5, SamePeople
  <2> QED BY <1>1, <2>1, <2>2 DEF Insert
<1>2. CASE Write(s)
  <2>1. /\ stage[s] = "write" /\ stage' = [stage EXCEPT ![s] = "commit"]
        /\ tx' = [tx EXCEPT ![s] = tx[s]] /\ ~Kind(s, {"register", "create"})
    BY <1>0, <1>2 DEF Write, Goto, StageInv, Kind
  <2> QED BY <1>0, <2>1, GoOn
<1>3. CASE InsertEmployee(s)
  <2>1. CASE EndTx(s)
    BY <1>0, <2>1, EndPeople
  <2>2. CASE /\ employment[tx[s].who] = "none"
             /\ tx' = [tx EXCEPT ![s].rest = Others(s)]
             /\ Goto(s, IF Others(s) = {} THEN "commit" ELSE "notify")
    <3> DEFINE t == [tx[s] EXCEPT !.rest = Others(s)]
               point == IF Others(s) = {} THEN "commit" ELSE "notify"
    <3>1. tx' = [tx EXCEPT ![s] = t] /\ stage' = [stage EXCEPT ![s] = point]
      BY <2>2 DEF Goto
    <3>2. t.who = tx[s].who /\ t.kind = tx[s].kind
      BY DEF LockInv, SessionType, TxType
    <3>3. Kind(s, {"hire"})
      BY <1>0, <1>3 DEF InsertEmployee, StageInv
    <3> HIDE DEF t, point
    <3>4. tx'[s] = t /\ stage'[s] = point
      BY <3>1 DEF LockInv, SessionType
    <3>5. FactsOf(s)'
      BY <1>0, <2>2, <3>2, <3>3, <3>4 DEF FactsOf, Kind, Known, Hired
    <3> QED BY <1>0, <3>1, <3>5, SamePeople
  <2> QED BY <1>3, <2>1, <2>2 DEF InsertEmployee
<1>4. CASE Notify(s)
  <2>1. PICK v : tx' = [tx EXCEPT ![s].vacancy = v]
    BY <1>4 DEF Notify
  <2> DEFINE t == [tx[s] EXCEPT !.vacancy = v]
  <2>2. tx' = [tx EXCEPT ![s] = t] /\ t.who = tx[s].who /\ t.kind = tx[s].kind
    BY <2>1 DEF LockInv, SessionType, TxType
  <2>3. stage[s] = "notify" /\ stage' = [stage EXCEPT ![s] = "other"]
    BY <1>4 DEF Notify, Goto
  <2>4. ~Kind(s, {"register", "create"})
    BY <1>0, <2>3 DEF StageInv, Kind
  <2> HIDE DEF t
  <2> QED BY <1>0, <2>2, <2>3, <2>4, GoOn
<1>5. CASE WithdrawOther(s)
  <2> DEFINE t == [tx[s] EXCEPT !.rest = @ \ {tx[s].vacancy}]
             point == IF tx[s].rest = {tx[s].vacancy} THEN "commit" ELSE "notify"
  <2>1. /\ tx' = [tx EXCEPT ![s] = t] /\ t.who = tx[s].who /\ t.kind = tx[s].kind
        /\ stage[s] = "other" /\ stage' = [stage EXCEPT ![s] = point]
    BY <1>5 DEF WithdrawOther, Goto, LockInv, SessionType, TxType
  <2>2. ~Kind(s, {"register", "create"})
    BY <1>0, <2>1 DEF StageInv, Kind
  <2> HIDE DEF t, point
  <2> QED BY <1>0, <2>1, <2>2, GoOn
<1>6. CASE ReadLogin(s) \/ Flush(s)
  <2> DEFINE point == IF Len(tx[s].steps) = 1 THEN "commit" ELSE "update"
  <2>1. PICK seen : tx' = [tx EXCEPT ![s].steps = Tail(@), ![s].seen = seen]
    <3>1. CASE ReadLogin(s)
      BY <3>1 DEF ReadLogin
    <3>2. CASE Flush(s)
      <4>1. tx' = [tx EXCEPT ![s].steps = Tail(@)]
        BY <3>2 DEF Flush
      <4>2. tx' = [tx EXCEPT ![s].steps = Tail(@), ![s].seen = tx[s].seen]
        BY <4>1 DEF LockInv, SessionType, TxType
      <4> QED BY <4>2
    <3> QED BY <1>6, <3>1, <3>2
  <2> DEFINE t == [tx[s] EXCEPT !.steps = Tail(@), !.seen = seen]
  <2>2. tx' = [tx EXCEPT ![s] = t] /\ t.who = tx[s].who /\ t.kind = tx[s].kind
    BY <2>1 DEF LockInv, SessionType, TxType
  <2>3. stage[s] = "update" /\ stage' = [stage EXCEPT ![s] = point]
    BY <1>6 DEF ReadLogin, Flush, Proceed, Goto
  <2>4. ~Kind(s, {"register", "create"})
    BY <1>0, <2>3 DEF StageInv, Kind
  <2> HIDE DEF t, point
  <2> QED BY <1>0, <2>2, <2>3, <2>4, GoOn
<1> QED BY <1>1, <1>2, <1>3, <1>4, <1>5, <1>6

\* What a commit of s must leave true for the other sessions.
LEMMA OthersKeepFacts ==
  ASSUME LockInv, PersonInv, NEW s \in Session, EndTx(s),
         \A p \in Person : PersonOK(p)',
         \A o \in Session \ {s}, w \in Person : tx[o].who = w =>
           /\ Kind(o, {"apply", "decide", "withdraw", "hire"}) => Known(w)'
           /\ Kind(o, {"hire"}) /\ stage[o] # "hire" => employment'[w] = "none"
           /\ Kind(o, {"register", "create"}) /\ stage[o] = "commit" => role'[w] = "none"
           /\ Kind(o, {"update"}) => employment'[w] # "none"
  PROVE  PersonInv'
<1>1. ASSUME NEW o \in Session PROVE FactsOf(o)'
  <2>1. CASE o = s
    <3>1. tx'[s] = NoTx
      BY DEF EndTx, LockInv, SessionType
    <3> QED BY <2>1, <3>1, NoTxTyped DEF FactsOf, Kind
  <2>2. CASE o # s /\ tx[o].kind = "none"
    <3>1. tx'[o] = tx[o]
      BY <2>2 DEF EndTx, LockInv, SessionType
    <3> QED BY <2>2, <3>1 DEF FactsOf, Kind
  <2>3. CASE o # s /\ tx[o].kind # "none"
    <3>1. tx'[o] = tx[o] /\ stage'[o] = stage[o]
      BY <2>3 DEF EndTx, LockInv, SessionType
    <3>2. tx[o].who \in Person
      BY <2>3 DEF LockInv, StageInv, Kind
    <3>3. PICK w \in Person : tx[o].who = w
      BY <3>2
    <3>4. tx'[o].who = w /\ tx'[o].kind = tx[o].kind
      BY <3>1, <3>3
    <3>5. /\ Kind(o, {"apply", "decide", "withdraw", "hire"}) => Known(w)'
          /\ Kind(o, {"hire"}) /\ stage[o] # "hire" => employment'[w] = "none"
          /\ Kind(o, {"register", "create"}) /\ stage[o] = "commit" => role'[w] = "none"
          /\ Kind(o, {"update"}) => employment'[w] # "none"
      BY <2>3, <3>3
    <3> QED BY <3>1, <3>4, <3>5 DEF FactsOf, Kind
  <2> QED BY <2>1, <2>2, <2>3
<1> QED BY <1>1 DEF PersonInv

\* One commit at a time creates the login of a person, or their employee row.
LEMMA OneCreator ==
  ASSUME LockInv, NEW s \in Session, NEW o \in Session, o # s, tx[o].who = tx[s].who
  PROVE  /\ ~(/\ Kind(s, {"register", "create"}) /\ stage[s] = "commit"
              /\ Kind(o, {"register", "create"}) /\ stage[o] = "commit")
         /\ ~(/\ Kind(s, {"hire"}) /\ stage[s] # "hire"
              /\ Kind(o, {"hire"}) /\ stage[o] # "hire")
  BY DEF LockInv, StageInv, Exclusive

\* Applying, deciding and withdrawing concern somebody known.
LEMMA StatusPeople ==
  ASSUME LockInv, PersonInv, NEW s \in Session, EndTx(s), UNCHANGED people,
         Kind(s, {"apply", "decide", "withdraw"}),
         NEW row, apps' = [apps EXCEPT ![AppAt(s)] = row]
  PROVE  PersonInv'
<1>1. FactsOf(s) /\ Known(tx[s].who) /\ \A p \in Person : PersonOK(p)
  BY DEF PersonInv, FactsOf, Kind
<1>2. PICK c : tx[s].who = c
  OBVIOUS
<1>3. role' = role /\ employment' = employment /\ hires' = hires /\ DOMAIN apps = Application
  BY DEF people, LockInv, DataType
<1>4. \A p : Known(p)' <=> Known(p)
  BY <1>3 DEF Known, Hired
<1>5. \A p \in Person : Applied(p)' => Applied(p) \/ p = c
  BY <1>2, <1>3 DEF Applied, StatusOf, AppAt, Application
<1>6. \A p \in Person : PersonOK(p)'
  BY <1>1, <1>2, <1>3, <1>4, <1>5 DEF PersonOK, Hired
<1>7. \A o \in Session : FactsOf(o)
  BY DEF PersonInv
<1> QED BY <1>3, <1>4, <1>6, <1>7, OthersKeepFacts DEF FactsOf

\* A COMMIT changes the facts about people whose rows it has locked.
LEMMA CommitPeople ==
  ASSUME LockInv, PersonInv, NEW s \in Session, Commit(s)
  PROVE  PersonInv'
<1>1. /\ stage[s] = "commit" /\ EndTx(s) /\ StageInv(s) /\ FactsOf(s) /\ OwnRows(s)
      /\ \A o \in Session : FactsOf(o)
      /\ \A p \in Person : PersonOK(p)
      /\ DOMAIN apps = Application
      /\ role \in [Person -> Roles \cup {"none"}]
      /\ employment \in [Person -> Employments \cup {"none"}]
  BY DEF Commit, LockInv, PersonInv, DataType
<1>2. PICK c \in Person : tx[s].who = c
  BY <1>1 DEF StageInv
<1>3. CASE tx[s].kind = "apply" /\ NewApplication(s) /\ UNCHANGED people
  BY <1>1, <1>3, StatusPeople DEF NewApplication, Kind
<1>4. CASE CommitWrite(s)
  BY <1>1, <1>4, StatusPeople DEF CommitWrite, Kind
<1>5. CASE /\ tx[s].kind = "register" /\ NewApplication(s)
           /\ NewLogin(tx[s].who, "CANDIDATE") /\ UNCHANGED <<employment, hires>>
  <2>1. role[c] = "none" /\ employment[c] = "none" /\ ~Hired(c)
    BY <1>1, <1>2, <1>5 DEF FactsOf, Kind, PersonOK
  <2>2. /\ employment' = employment /\ hires' = hires
        /\ role'[c] = "CANDIDATE" /\ \A p \in Person \ {c} : role'[p] = role[p]
    BY <1>1, <1>2, <1>5 DEF NewLogin
  <2>3. \A p \in Person : Applied(p)' => Applied(p) \/ p = c
    BY <1>1, <1>2, <1>5 DEF Applied, StatusOf, AppAt, Application, NewApplication
  <2>4. \A p \in Person : Hired(p)' <=> Hired(p)
    BY <2>2 DEF Hired
  <2>5. \A p \in Person : Known(p) => Known(p)'
    BY <2>2, <2>4 DEF Known
  <2>6. Known(c)'
    BY <2>1, <2>2 DEF Known
  <2>7. \A p \in Person : PersonOK(p)'
    BY <1>1, <2>1, <2>2, <2>3, <2>4, <2>5, <2>6 DEF PersonOK
  <2>8. \A o \in Session \ {s} : Kind(o, {"register", "create"}) /\ stage[o] = "commit" => tx[o].who # c
    BY <1>1, <1>2, <1>5, OneCreator DEF Kind
  <2> QED BY <1>1, <2>2, <2>5, <2>7, <2>8, OthersKeepFacts DEF FactsOf
<1>6. CASE /\ tx[s].kind = "create" /\ NewLogin(tx[s].who, "EMPLOYEE")
           /\ employment' = [employment EXCEPT ![tx[s].who] = "ACTIVE"]
           /\ UNCHANGED <<apps, hires>>
  <2>1. role[c] = "none" /\ employment[c] = "none" /\ ~Hired(c) /\ ~Known(c) /\ ~Applied(c)
    BY <1>1, <1>2, <1>6 DEF FactsOf, Kind, PersonOK, Known
  <2>2. /\ employment'[c] = "ACTIVE" /\ role'[c] = "EMPLOYEE" /\ hires' = hires /\ apps' = apps
        /\ \A p \in Person \ {c} : role'[p] = role[p] /\ employment'[p] = employment[p]
    BY <1>1, <1>2, <1>6 DEF NewLogin
  <2>3. \A p \in Person : (Applied(p)' <=> Applied(p)) /\ (Hired(p)' <=> Hired(p))
    BY <2>2 DEF Applied, StatusOf, Hired
  <2>4. \A p \in Person : Known(p) => p # c /\ Known(p)'
    BY <2>1, <2>2, <2>3 DEF Known
  <2>5. \A p \in Person : PersonOK(p)'
    <3>1. PersonOK(c)'
      BY <1>1, <2>1, <2>2, <2>3 DEF PersonOK
    <3>2. ASSUME NEW p \in Person, p # c PROVE PersonOK(p)'
      BY <1>1, <2>2, <2>3, <2>4, <3>2 DEF PersonOK
    <3> QED BY <3>1, <3>2
  <2>6. \A o \in Session \ {s} : Kind(o, {"register", "create"}) /\ stage[o] = "commit" => tx[o].who # c
    BY <1>1, <1>2, <1>6, OneCreator DEF Kind
  <2>7. \A o \in Session \ {s} : Kind(o, {"hire"}) /\ stage[o] # "hire" => tx[o].who # c
    BY <1>1, <2>1 DEF FactsOf, Kind
  <2> QED BY <1>1, <2>2, <2>4, <2>5, <2>6, <2>7, OthersKeepFacts DEF FactsOf
<1>7. CASE CommitHire(s)
  <2>1. Kind(s, {"hire"}) /\ Known(c) /\ employment[c] = "none" /\ ~Hired(c) /\ tx[s].job \in Vacancy
    BY <1>1, <1>2, <1>7 DEF CommitHire, FactsOf, Kind, PersonOK, StageInv
  <2>2. PICK j \in Vacancy : tx[s].job = j
    BY <2>1
  <2>3. /\ employment'[c] = "ACTIVE" /\ role'[c] = "EMPLOYEE" /\ hires' = hires \cup {<<c, j>>}
        /\ \A p \in Person \ {c} : role'[p] = role[p] /\ employment'[p] = employment[p]
    BY <1>1, <1>2, <1>7, <2>2 DEF CommitHire
  <2>4. \A p \in Person, v \in Vacancy : p # c => StatusOf(<<p, v>>)' = StatusOf(<<p, v>>)
    <3>1. \A a \in Application : a[1] # c => <<"application", a>> \notin held[s]
      BY <1>1, <1>2 DEF OwnRows
    <3>2. \A a \in Application : a[1] # c => apps'[a] = apps[a]
      BY <1>7, <3>1 DEF CommitHire
    <3> QED BY <3>2 DEF StatusOf, Application
  <2>5. \A p \in Person : p # c => (Applied(p)' <=> Applied(p)) /\ (Hired(p)' <=> Hired(p))
    BY <2>3, <2>4 DEF Applied, Hired
  <2>6. Hired(c)' /\ \A v \in Vacancy : <<c, v>> \in hires' => v = j
    BY <2>1, <2>3 DEF Hired
  <2>7. \A p \in Person : Known(p) => Known(p)'
    BY <2>3, <2>5, <2>6 DEF Known
  <2>8. \A p \in Person : PersonOK(p)'
    <3>1. PersonOK(c)'
      BY <2>1, <2>3, <2>6, <2>7 DEF PersonOK
    <3>2. ASSUME NEW p \in Person, p # c PROVE PersonOK(p)'
      BY <1>1, <2>3, <2>5, <2>7, <3>2 DEF PersonOK
    <3> QED BY <3>1, <3>2
  <2>9. \A o \in Session \ {s} : Kind(o, {"hire"}) /\ stage[o] # "hire" => tx[o].who # c
    BY <1>1, <1>2, <2>1, OneCreator
  <2>10. \A o \in Session \ {s} : Kind(o, {"register", "create"}) /\ stage[o] = "commit" => tx[o].who # c
    BY <1>1, <2>1 DEF FactsOf, Known
  <2> QED BY <1>1, <2>3, <2>7, <2>8, <2>9, <2>10, OthersKeepFacts DEF FactsOf
<1>8. CASE CommitUpdate(s)
  <2>1. employment[c] # "none" /\ apps' = apps /\ role' = role /\ hires' = hires
    BY <1>1, <1>2, <1>8 DEF CommitUpdate, FactsOf, Kind
  <2>2. \A p \in Person : employment'[p] = "none" <=> employment[p] = "none"
    BY <1>1, <1>2, <1>8, <2>1 DEF CommitUpdate, WritesEmployment
  <2>3. \A p \in Person : (Applied(p)' <=> Applied(p)) /\ (Hired(p)' <=> Hired(p))
    BY <2>1 DEF Applied, StatusOf, Hired
  <2>4. \A p \in Person : Known(p)' <=> Known(p)
    BY <2>1, <2>2, <2>3 DEF Known
  <2>5. \A p \in Person : PersonOK(p)'
    BY <1>1, <2>1, <2>2, <2>3, <2>4 DEF PersonOK
  <2> QED BY <1>1, <2>1, <2>2, <2>4, <2>5, OthersKeepFacts DEF FactsOf
<1> QED BY <1>3, <1>4, <1>5, <1>6, <1>7, <1>8 DEF Commit, CommitInsert

\* Every step, and stuttering.
LEMMA PersonKept == LockInv /\ PersonInv /\ [Next]_vars => PersonInv'
<1> SUFFICES ASSUME LockInv, PersonInv, [Next]_vars PROVE PersonInv'
  OBVIOUS
<1>1. ASSUME UNCHANGED vars \/ \E v \in Vacancy : Advertise(v) \/ Archive(v) PROVE PersonInv'
  <2>1. UNCHANGED <<apps, role, employment, hires, stage, tx>>
    BY <1>1 DEF vars, people, Advertise, Archive
  <2>2. \A p \in Person : PersonOK(p)'
    BY <2>1 DEF PersonInv, PersonOK, Applied, StatusOf, Hired, Known
  <2>3. ASSUME NEW o \in Session PROVE FactsOf(o)'
    BY <2>1 DEF PersonInv, FactsOf, Kind, Known, Hired
  <2> QED BY <2>2, <2>3 DEF PersonInv
<1>2. ASSUME NEW s \in Session, CandidateRequest(s) \/ StaffRequest(s) PROVE PersonInv'
  BY <1>2, RequestPeople
<1>3. ASSUME NEW s \in Session, Statement(s) PROVE PersonInv'
  BY <1>3, StatementPeople, CommitPeople DEF Statement
<1>4. ASSUME NEW s \in Session, Abort(s) PROVE PersonInv'
  BY <1>4, EndPeople DEF Abort, people
<1> QED BY <1>1, <1>2, <1>3, <1>4 DEF Next

\* At first nobody is hired.
LEMMA PersonInitially == Init => PersonInv
<1> SUFFICES ASSUME Init PROVE PersonInv
  OBVIOUS
<1>1. ASSUME NEW p \in Person PROVE PersonOK(p)
  <2>1. role[p] = "none" /\ employment[p] = "none" /\ ~Hired(p)
    BY DEF Init, Hired
  <2>2. ~Applied(p)
    BY DEF Init, Applied, StatusOf, Application, NoRow
  <2> QED BY <2>1, <2>2 DEF PersonOK, Hired
<1>2. ASSUME NEW s \in Session PROVE FactsOf(s)
  BY NoTxTyped DEF Init, FactsOf, Kind
<1> QED BY <1>1, <1>2 DEF PersonInv

\* However hires, registrations, creations and edits race, a candidate is
\* hired at most once, and exactly the hired candidates become employees: the
\* unique key of the employee row, which a hire holds until it commits, makes
\* the second of two hires give up.
THEOREM HiredAtMostOnce == Spec => []HiredOnce
<1>1. LockInv /\ PersonInv => HiredOnce
  <2> SUFFICES ASSUME LockInv, PersonInv PROVE HiredOnce
    OBVIOUS
  <2>1. ASSUME NEW a \in hires, NEW b \in hires, a[1] = b[1] PROVE a = b
    <3>1. a \in Application /\ b \in Application
      BY DEF LockInv, DataType
    <3>2. PersonOK(a[1]) /\ a = <<a[1], a[2]>> /\ b = <<a[1], b[2]>>
          /\ a[2] \in Vacancy /\ b[2] \in Vacancy
      BY <2>1, <3>1 DEF PersonInv, Application
    <3> QED BY <3>2 DEF PersonOK
  <2>2. ASSUME NEW p \in Person, Applied(p)
        PROVE  ((employment[p] # "none") <=> Hired(p)) /\ (role[p] = "EMPLOYEE" <=> employment[p] # "none")
    BY <2>2 DEF PersonInv, PersonOK, Known
  <2> QED BY <2>1, <2>2 DEF HiredOnce, Applied, Hired
<1> QED BY <1>1, LocksAlways, LocksInitially, LocksKept, PersonInitially, PersonKept, PTL DEF Spec

-----------------------------------------------------------------------------
(* Who can log in.                                                         *)

Holds(s, table) == <<table, tx[s].who>> \in held[s]

\* The statements an update has ahead.  A change of employment is flushed
\* before the login is read, the employee row is locked before the login, and
\* the login comes last.
Ahead(table, steps, i) == \E j \in 1 .. i - 1 : steps[j] = table

InOrder(steps, writes, locked) ==
  \A i \in 1 .. Len(steps) :
    /\ steps[i] = "read" =>
         /\ writes => locked \/ Ahead("employee", steps, i)
         /\ \E j \in i + 1 .. Len(steps) : steps[j] = "user"
    /\ steps[i] = "user" => locked \/ Ahead("employee", steps, i)

HasUser(steps) == \E i \in 1 .. Len(steps) : steps[i] = "user"

\* A transaction that writes the employment knows the login that it read.
UpdateInv(s) ==
  /\ Holds(s, "user") => Holds(s, "employee")
  /\ Kind(s, {"update"}) =>
       /\ stage[s] = "commit" => Len(tx[s].steps) = 0
       /\ InOrder(tx[s].steps, WritesEmployment(s), Holds(s, "employee"))
       /\ tx[s].to # "none" =>
            Holds(s, "user") \/ tx[s].seen = tx[s].to \/ HasUser(tx[s].steps)
       /\ WritesEmployment(s) /\ tx[s].seen # "none" =>
            Holds(s, "employee") /\ tx[s].seen = Status(login[tx[s].who])

LoginOK(p) ==
  /\ employment[p] = "none" /\ role[p] # "none" => login[p]
  /\ employment[p] # "none" /\ p \notin blind => (login[p] <=> employment[p] = "ACTIVE")

LoginInv ==
  /\ login \in [Person -> BOOLEAN]
  /\ \A p \in Person : LoginOK(p)
  /\ \A s \in Session : UpdateInv(s)

\* Until somebody commits, nothing changes but one session.
LEMMA SameLogins ==
  ASSUME LockInv, LoginInv, UNCHANGED <<role, login, employment, blind>>, NEW s \in Session,
         NEW point, stage' = [stage EXCEPT ![s] = point],
         NEW t, tx' = [tx EXCEPT ![s] = t],
         NEW h, held' = [held EXCEPT ![s] = h], UpdateInv(s)'
  PROVE  LoginInv'
<1>1. \A p \in Person : LoginOK(p)'
  BY DEF LoginInv, LoginOK
<1>2. ASSUME NEW o \in Session, o # s PROVE UpdateInv(o)'
  <2>1. UpdateInv(o) /\ stage'[o] = stage[o] /\ tx'[o] = tx[o] /\ held'[o] = held[o]
    BY <1>2 DEF LoginInv, LockInv, SessionType
  <2>2. /\ \A table : Holds(o, table)' <=> Holds(o, table)
        /\ WritesEmployment(o)' <=> WritesEmployment(o)
    BY <2>1 DEF Holds, WritesEmployment
  <2>3. Status(login[tx[o].who])' = Status(login[tx[o].who])
    BY <2>1
  <2> QED BY <2>1, <2>2, <2>3 DEF UpdateInv, Kind, InOrder
<1> QED BY <1>1, <1>2 DEF LoginInv

\* A transaction that ends relies on nothing.
LEMMA EndLogins ==
  ASSUME LockInv, LoginInv, UNCHANGED <<role, login, employment, blind>>,
         NEW s \in Session, EndTx(s)
  PROVE  LoginInv'
<1>1. tx'[s] = NoTx /\ held'[s] = {}
  BY DEF EndTx, LockInv, SessionType
<1>2. UpdateInv(s)'
  BY <1>1, NoTxTyped DEF UpdateInv, Holds, Kind
<1> QED BY <1>2, SameLogins DEF EndTx

-----------------------------------------------------------------------------
(* Requests.                                                               *)

\* An update begins with its statements in order.
LEMMA BeginLogins ==
  ASSUME LockInv, LoginInv, NEW s \in Session, NEW point, NEW t, Begin(s, point, t),
         t.kind # "update"
           \/ /\ point = "update" /\ t.seen = "none"
              /\ InOrder(t.steps, t.to \notin {"none", t.was}, FALSE)
              /\ t.to # "none" => HasUser(t.steps)
  PROVE  LoginInv'
<1>1. /\ stage'[s] = point /\ tx'[s] = t /\ held'[s] = {}
      /\ stage' = [stage EXCEPT ![s] = point] /\ tx' = [tx EXCEPT ![s] = t]
      /\ held' = [held EXCEPT ![s] = {}]
      /\ UNCHANGED <<role, login, employment, blind>>
  BY DEF Begin, people, LockInv, SessionType, StageInv
<1>2. ~Holds(s, "user")' /\ ~Holds(s, "employee")'
  BY <1>1 DEF Holds
<1>3. UpdateInv(s)'
  BY <1>1, <1>2 DEF UpdateInv, Kind, WritesEmployment, InOrder
<1> QED BY <1>1, <1>3, SameLogins

\* Where the elements of two sequences are in their concatenation.
LEMMA TwoParts ==
  ASSUME NEW a \in Seq(Steps), NEW b \in Seq(Steps), NEW q, q = a \o b
  PROVE  /\ q \in Seq(Steps) /\ Len(q) = Len(a) + Len(b)
         /\ \A i \in 1 .. Len(q) : q[i] = IF i <= Len(a) THEN a[i] ELSE b[i - Len(a)]
  BY ConcatProperties

\* One statement, or none.
AtMostOne(q, step) == q \in Seq(Steps) /\ Len(q) <= 1 /\ \A i \in 1 .. Len(q) : q[i] = step

\* A statement that may be left out occurs at most once.
LEMMA OptionalStep ==
  ASSUME NEW q, NEW step \in Steps, q = <<step>> \/ q = <<>>
  PROVE  AtMostOne(q, step) /\ (Len(q) = 1 <=> q = <<step>>)
<1>1. CASE q = <<step>>
  BY <1>1 DEF AtMostOne
<1>2. CASE q = <<>>
  BY <1>2, EmptySeq DEF AtMostOne
<1> QED BY <1>1, <1>2

\* Its sequence has length 0 or 1.
LEMMA AtMostOneLength ==
  ASSUME NEW q, NEW step, AtMostOne(q, step)
  PROVE  Len(q) \in 0 .. 1
<1>1. PICK n : n = Len(q)
  OBVIOUS
<1>2. n \in Nat /\ n <= 1
  BY <1>1 DEF AtMostOne
<1>3. n \in 0 .. 1
  BY <1>2
<1> QED BY <1>1, <1>3

\* Where the statements of an update are.
LEMMA Arranged ==
  ASSUME NEW steps, NEW la \in 0 .. 1, NEW lb \in 0 .. 1, NEW lc \in 0 .. 1,
         Len(steps) = la + lb + lc + 2 + lc,
         \A i \in 1 .. Len(steps) :
           /\ i <= la => steps[i] = "person"
           /\ i > la /\ i <= la + lb => steps[i] = "employee"
           /\ i > la + lb /\ i <= la + lb + lc => steps[i] = "read"
           /\ i = la + lb + lc + 1 => steps[i] = "person"
           /\ i = la + lb + lc + 2 => steps[i] = "employee"
           /\ i > la + lb + lc + 2 => steps[i] = "user"
  PROVE  InOrder(steps, lb = 1, FALSE) /\ (lc = 1 => HasUser(steps))
<1>1. lc = 1 => Len(steps) \in 1 .. Len(steps) /\ steps[Len(steps)] = "user"
  OBVIOUS
<1>2. ASSUME NEW i \in 1 .. Len(steps), steps[i] = "read"
      PROVE  /\ lc = 1 /\ Len(steps) \in i + 1 .. Len(steps)
             /\ lb = 1 => la + lb \in 1 .. i - 1 /\ steps[la + lb] = "employee"
  BY <1>2
<1>3. ASSUME NEW i \in 1 .. Len(steps), steps[i] = "user"
      PROVE  la + lb + lc + 2 \in 1 .. i - 1 /\ steps[la + lb + lc + 2] = "employee"
  BY <1>3
<1> QED BY <1>1, <1>2, <1>3 DEF InOrder, Ahead, HasUser

\* The five parts of an update come in order.
LEMMA InFiveParts ==
  ASSUME NEW a, NEW b, NEW c, NEW d, NEW e,
         AtMostOne(a, "person"), AtMostOne(b, "employee"), AtMostOne(c, "read"), AtMostOne(e, "user"),
         d \in Seq(Steps), Len(d) = 2, d[1] = "person", d[2] = "employee", Len(c) = Len(e)
  PROVE  /\ InOrder(a \o b \o c \o d \o e, Len(b) = 1, FALSE)
         /\ Len(e) = 1 => HasUser(a \o b \o c \o d \o e)
<1>1. PICK x : x = a \o b
  OBVIOUS
<1>2. PICK y : y = x \o c
  OBVIOUS
<1>3. PICK z : z = y \o d
  OBVIOUS
<1>4. PICK q : q = z \o e
  OBVIOUS
<1>5. PICK la \in 0 .. 1 : la = Len(a)
  BY AtMostOneLength
<1>6. PICK lb \in 0 .. 1 : lb = Len(b)
  BY AtMostOneLength
<1>7. PICK lc \in 0 .. 1 : lc = Len(c)
  BY AtMostOneLength
<1>8. /\ x \in Seq(Steps) /\ Len(x) = la + lb
      /\ \A i \in 1 .. Len(x) :
           /\ i <= la => x[i] = "person"
           /\ i > la => x[i] = "employee"
  <2>1. /\ x \in Seq(Steps) /\ Len(x) = Len(a) + Len(b)
        /\ \A i \in 1 .. Len(x) : x[i] = IF i <= Len(a) THEN a[i] ELSE b[i - Len(a)]
    BY <1>1, TwoParts DEF AtMostOne
  <2> QED BY <1>5, <1>6, <2>1 DEF AtMostOne
<1>9. /\ y \in Seq(Steps) /\ Len(y) = la + lb + lc
      /\ \A i \in 1 .. Len(y) :
           /\ i <= la => y[i] = "person"
           /\ i > la /\ i <= la + lb => y[i] = "employee"
           /\ i > la + lb => y[i] = "read"
  <2>1. /\ y \in Seq(Steps) /\ Len(y) = Len(x) + Len(c)
        /\ \A i \in 1 .. Len(y) : y[i] = IF i <= Len(x) THEN x[i] ELSE c[i - Len(x)]
    BY <1>2, <1>8, TwoParts DEF AtMostOne
  <2> QED BY <1>7, <1>8, <2>1 DEF AtMostOne
<1>10. /\ z \in Seq(Steps) /\ Len(z) = la + lb + lc + 2
       /\ \A i \in 1 .. Len(z) :
            /\ i <= la => z[i] = "person"
            /\ i > la /\ i <= la + lb => z[i] = "employee"
            /\ i > la + lb /\ i <= la + lb + lc => z[i] = "read"
            /\ i = la + lb + lc + 1 => z[i] = "person"
            /\ i = la + lb + lc + 2 => z[i] = "employee"
  <2>1. /\ z \in Seq(Steps) /\ Len(z) = Len(y) + Len(d)
        /\ \A i \in 1 .. Len(z) : z[i] = IF i <= Len(y) THEN y[i] ELSE d[i - Len(y)]
    <3>1. y \in Seq(Steps)
      BY <1>9
    <3> QED BY <1>3, <3>1, TwoParts, ZenonT(60)
  <2> QED BY <1>9, <2>1
<1>11. /\ Len(q) = la + lb + lc + 2 + lc
       /\ \A i \in 1 .. Len(q) :
            /\ i <= la => q[i] = "person"
            /\ i > la /\ i <= la + lb => q[i] = "employee"
            /\ i > la + lb /\ i <= la + lb + lc => q[i] = "read"
            /\ i = la + lb + lc + 1 => q[i] = "person"
            /\ i = la + lb + lc + 2 => q[i] = "employee"
            /\ i > la + lb + lc + 2 => q[i] = "user"
  <2>1. /\ Len(q) = Len(z) + Len(e)
        /\ \A i \in 1 .. Len(q) : q[i] = IF i <= Len(z) THEN z[i] ELSE e[i - Len(z)]
    BY <1>4, <1>10, TwoParts, SMTT(30) DEF AtMostOne
  <2> QED BY <1>7, <1>10, <2>1 DEF AtMostOne
<1>12. InOrder(q, lb = 1, FALSE) /\ (lc = 1 => HasUser(q))
  BY <1>11, Arranged, ZenonT(60)
<1> QED BY <1>1, <1>2, <1>3, <1>4, <1>6, <1>7, <1>12

\* The statements of an update.
UpdateStatements(names, others, to) ==
  Optional(names, "person") \o Optional(others, "employee") \o Optional(to # "none", "read")
    \o <<"person", "employee">> \o Optional(to # "none", "user")

\* So do the statements of every update, whatever it changes.
LEMMA UpdateOrder ==
  ASSUME NEW names, NEW others, NEW to
  PROVE  /\ InOrder(UpdateStatements(names, others, to), others, FALSE)
         /\ to # "none" => HasUser(UpdateStatements(names, others, to))
<1>0. PICK steps : steps = UpdateStatements(names, others, to)
  OBVIOUS
<1>1. PICK a : a = IF names THEN <<"person">> ELSE <<>>
  OBVIOUS
<1>2. PICK b : b = IF others THEN <<"employee">> ELSE <<>>
  OBVIOUS
<1>3. PICK c : c = IF to # "none" THEN <<"read">> ELSE <<>>
  OBVIOUS
<1>4. PICK d : d = <<"person", "employee">>
  OBVIOUS
<1>5. PICK e : e = IF to # "none" THEN <<"user">> ELSE <<>>
  OBVIOUS
<1>6. steps = a \o b \o c \o d \o e
  BY <1>0, <1>1, <1>2, <1>3, <1>4, <1>5 DEF Optional, UpdateStatements
<1>7. {"person", "employee", "read", "user"} = Steps
  BY DEF Steps
<1>8. AtMostOne(a, "person")
  BY <1>1, <1>7, OptionalStep
<1>9. AtMostOne(b, "employee") /\ (others => Len(b) = 1)
  BY <1>2, <1>7, OptionalStep
<1>10. AtMostOne(c, "read") /\ AtMostOne(e, "user")
       /\ (to # "none" => Len(c) = 1 /\ Len(e) = 1) /\ (to = "none" => Len(c) = 0 /\ Len(e) = 0)
  BY <1>3, <1>5, <1>7, OptionalStep, EmptySeq
<1>11. d \in Seq(Steps) /\ Len(d) = 2 /\ d[1] = "person" /\ d[2] = "employee"
  BY <1>4 DEF Steps
<1>12. Len(c) = Len(e)
  BY <1>10
<1>13. InOrder(steps, Len(b) = 1, FALSE) /\ (Len(e) = 1 => HasUser(steps))
  BY <1>6, <1>8, <1>9, <1>10, <1>11, <1>12, InFiveParts
<1>14. InOrder(steps, others, FALSE) /\ (to # "none" => HasUser(steps))
  BY <1>9, <1>10, <1>13 DEF InOrder
<1> QED BY <1>0, <1>14

\* A request plans its statements in order.
LEMMA RequestLogins ==
  ASSUME LockInv, LoginInv, NEW s \in Session, CandidateRequest(s) \/ StaffRequest(s)
  PROVE  LoginInv'
<1>1. ASSUME NEW c \in Person, NEW v \in Vacancy, Apply(s, c, v) PROVE LoginInv'
  <2> DEFINE t == [About("apply", c) EXCEPT !.vacancy = v]
  <2>1. t.kind # "update" /\ Begin(s, "insert", t)
    BY <1>1 DEF About, NoTx, Apply
  <2> HIDE DEF t
  <2> QED BY <2>1, BeginLogins
<1>2. ASSUME NEW c \in Person, NEW v \in Vacancy, Register(s, c, v) PROVE LoginInv'
  <2> DEFINE t == [About("register", c) EXCEPT !.vacancy = v]
  <2>1. t.kind # "update" /\ Begin(s, "insert", t)
    BY <1>2 DEF About, NoTx, Register
  <2> HIDE DEF t
  <2> QED BY <2>1, BeginLogins
<1>3. ASSUME NEW c \in Person, NEW v \in Vacancy, Withdraw(s, <<c, v>>) PROVE LoginInv'
  <2> DEFINE t == [About("withdraw", c) EXCEPT !.vacancy = v, !.to = "WITHDRAWN"]
  <2>1. t.kind # "update" /\ Begin(s, "write", t)
    BY <1>3 DEF About, NoTx, Withdraw
  <2> HIDE DEF t
  <2> QED BY <2>1, BeginLogins
<1>4. ASSUME NEW p \in Person, CreateEmployee(s, p) PROVE LoginInv'
  <2> DEFINE t == About("create", p)
  <2>1. t.kind # "update" /\ Begin(s, "insert", t)
    BY <1>4 DEF About, NoTx, CreateEmployee
  <2> HIDE DEF t
  <2> QED BY <2>1, BeginLogins
<1>5. ASSUME NEW p \in Person, NEW v \in Vacancy, Hire(s, <<p, v>>) PROVE LoginInv'
  <2> DEFINE t == [About("hire", p) EXCEPT !.job = v]
  <2>1. t.kind # "update" /\ Begin(s, "hire", t)
    BY <1>5 DEF About, NoTx, Hire
  <2> HIDE DEF t
  <2> QED BY <2>1, BeginLogins
<1>6. ASSUME NEW p \in Person, NEW v \in Vacancy, NEW verdict, Decide(s, <<p, v>>, verdict)
      PROVE  LoginInv'
  <2> DEFINE t == [About("decide", p) EXCEPT !.vacancy = v, !.to = verdict]
  <2>1. t.kind # "update" /\ Begin(s, "write", t)
    BY <1>6 DEF About, NoTx, Decide
  <2> HIDE DEF t
  <2> QED BY <2>1, BeginLogins
<1>7. ASSUME NEW p \in Person, Deactivate(s, p) PROVE LoginInv'
  <2>1. PICK q : q = <<"employee", "read", "user">>
    OBVIOUS
  <2> DEFINE t == [About("update", p) EXCEPT !.to = "INACTIVE", !.was = "ACTIVE", !.steps = q]
  <2>2. t.seen = "none" /\ t.steps = q /\ t.to = "INACTIVE" /\ t.was = "ACTIVE" /\ Begin(s, "update", t)
    BY <1>7, <2>1 DEF About, NoTx, Deactivate
  <2>3. Len(q) = 3 /\ q[1] = "employee" /\ q[2] = "read" /\ q[3] = "user"
    BY <2>1
  <2>4. InOrder(q, TRUE, FALSE) /\ HasUser(q)
    BY <2>3 DEF InOrder, Ahead, HasUser
  <2>5. InOrder(t.steps, t.to \notin {"none", t.was}, FALSE) /\ HasUser(t.steps)
    BY <2>2, <2>4 DEF InOrder
  <2> HIDE DEF t
  <2> QED BY <2>2, <2>5, BeginLogins
<1>8. ASSUME NEW p \in Person, NEW edit \in Edits, Update(s, p, edit) PROVE LoginInv'
  <2>1. PICK q : q = Optional(edit.names, "person")
                       \o Optional(edit.others \/ edit.to \notin {"none", employment[p]}, "employee")
                       \o Optional(edit.to # "none", "read")
                       \o <<"person", "employee">>
                       \o Optional(edit.to # "none", "user")
    OBVIOUS
  <2> DEFINE t == [About("update", p) EXCEPT !.to = edit.to, !.was = employment[p], !.steps = q]
  <2>2. t.seen = "none" /\ t.steps = q /\ t.to = edit.to /\ t.was = employment[p] /\ Begin(s, "update", t)
    BY <1>8, <2>1 DEF About, NoTx, Update
  <2>3. InOrder(q, edit.to \notin {"none", employment[p]}, FALSE) /\ (edit.to # "none" => HasUser(q))
    <3> DEFINE others == edit.others \/ edit.to \notin {"none", employment[p]}
    <3>1. q = UpdateStatements(edit.names, others, edit.to)
      BY <2>1 DEF UpdateStatements
    <3>2. InOrder(q, others, FALSE) /\ (edit.to # "none" => HasUser(q))
      BY <3>1, UpdateOrder, Zenon
    <3> QED BY <3>2 DEF InOrder
  <2>4. InOrder(t.steps, t.to \notin {"none", t.was}, FALSE) /\ (t.to # "none" => HasUser(t.steps))
    BY <2>2, <2>3
  <2> HIDE DEF t
  <2> QED BY <2>2, <2>4, BeginLogins
<1> QED BY <1>1, <1>2, <1>3, <1>4, <1>5, <1>6, <1>7, <1>8 DEF CandidateRequest, StaffRequest

-----------------------------------------------------------------------------
(* Statements.                                                             *)

\* Only updates of employees lock a login.
LEMMA GoOnLogins ==
  ASSUME LockInv, LoginInv, UNCHANGED <<role, login, employment, blind>>, NEW s \in Session,
         NEW point, stage' = [stage EXCEPT ![s] = point],
         NEW t, tx' = [tx EXCEPT ![s] = t], t.who = tx[s].who, t.kind # "update",
         NEW h, held' = [held EXCEPT ![s] = h], held[s] \subseteq h,
         <<"user", tx[s].who>> \in h => <<"user", tx[s].who>> \in held[s]
  PROVE  LoginInv'
<1>1. tx'[s] = t /\ held'[s] = h
  BY DEF LockInv, SessionType
<1>2. Holds(s, "user") => Holds(s, "employee")
  BY DEF LoginInv, UpdateInv
<1>3. Holds(s, "user")' => Holds(s, "employee")'
  BY <1>1, <1>2 DEF Holds
<1>4. UpdateInv(s)'
  BY <1>1, <1>3 DEF UpdateInv, Kind
<1> QED BY <1>4, SameLogins

\* Statements of other transactions leave logins alone.
LEMMA StatementLogins ==
  ASSUME LockInv, LoginInv, NEW s \in Session,
         Insert(s) \/ Write(s) \/ InsertEmployee(s) \/ Notify(s) \/ WithdrawOther(s)
  PROVE  LoginInv'
<1>0. /\ UNCHANGED <<role, login, employment, blind>>
      /\ StageInv(s)
      /\ tx = [tx EXCEPT ![s] = tx[s]] /\ held = [held EXCEPT ![s] = held[s]]
  BY DEF Insert, Write, InsertEmployee, Notify, WithdrawOther, people, history, LockInv, SessionType
<1> DEFINE h == held[s] \cup {Target(s)}
<1>1. CASE Insert(s)
  <2>1. CASE EndTx(s)
    BY <1>0, <2>1, EndLogins
  <2>2. CASE Lock(s) /\ Goto(s, "commit") /\ UNCHANGED tx
    <3>1. tx[s].kind # "update"
      BY <1>0, <1>1 DEF Insert, StageInv, Kind
    <3>2. <<"user", tx[s].who>> # Target(s)
      BY <1>1 DEF Insert, Target
    <3>3. held' = [held EXCEPT ![s] = h] /\ stage' = [stage EXCEPT ![s] = "commit"]
          /\ tx' = [tx EXCEPT ![s] = tx[s]]
      BY <1>0, <2>2 DEF Lock, Goto
    <3>4. held[s] \subseteq h /\ (<<"user", tx[s].who>> \in h => <<"user", tx[s].who>> \in held[s])
      BY <3>2
    <3> HIDE DEF h
    <3> QED BY <1>0, <3>1, <3>3, <3>4, GoOnLogins
  <2> QED BY <1>1, <2>1, <2>2 DEF Insert
<1>2. CASE Write(s)
  <2>1. tx[s].kind # "update"
    BY <1>0, <1>2 DEF Write, StageInv, Kind
  <2>2. <<"user", tx[s].who>> # Target(s)
    BY <1>2 DEF Write, Target
  <2>3. held' = [held EXCEPT ![s] = h] /\ stage' = [stage EXCEPT ![s] = "commit"]
        /\ tx' = [tx EXCEPT ![s] = tx[s]]
    BY <1>0, <1>2 DEF Write, Lock, Goto
  <2>4. held[s] \subseteq h /\ (<<"user", tx[s].who>> \in h => <<"user", tx[s].who>> \in held[s])
    BY <2>2
  <2> HIDE DEF h
  <2> QED BY <1>0, <2>1, <2>3, <2>4, GoOnLogins
<1>3. CASE InsertEmployee(s)
  <2>1. CASE EndTx(s)
    BY <1>0, <2>1, EndLogins
  <2>2. CASE /\ Lock(s) /\ tx' = [tx EXCEPT ![s].rest = Others(s)]
             /\ Goto(s, IF Others(s) = {} THEN "commit" ELSE "notify")
    <3> DEFINE t == [tx[s] EXCEPT !.rest = Others(s)]
               point == IF Others(s) = {} THEN "commit" ELSE "notify"
    <3>1. tx[s].kind # "update"
      BY <1>0, <1>3 DEF InsertEmployee, StageInv, Kind
    <3>2. t.who = tx[s].who /\ t.kind = tx[s].kind
      BY DEF LockInv, SessionType, TxType
    <3>3. <<"user", tx[s].who>> # Target(s)
      BY <1>3 DEF InsertEmployee, Target
    <3>4. held' = [held EXCEPT ![s] = h] /\ stage' = [stage EXCEPT ![s] = point]
          /\ tx' = [tx EXCEPT ![s] = t]
      BY <2>2 DEF Lock, Goto
    <3>5. held[s] \subseteq h /\ (<<"user", tx[s].who>> \in h => <<"user", tx[s].who>> \in held[s])
      BY <3>3
    <3> HIDE DEF h, t, point
    <3> QED BY <1>0, <3>1, <3>2, <3>4, <3>5, GoOnLogins
  <2> QED BY <1>3, <2>1, <2>2 DEF InsertEmployee
<1>4. CASE Notify(s)
  <2>1. PICK v : tx' = [tx EXCEPT ![s].vacancy = v]
    BY <1>4 DEF Notify
  <2> DEFINE t == [tx[s] EXCEPT !.vacancy = v]
  <2>2. tx' = [tx EXCEPT ![s] = t] /\ t.who = tx[s].who /\ t.kind = tx[s].kind
    BY <2>1 DEF LockInv, SessionType, TxType
  <2>3. stage' = [stage EXCEPT ![s] = "other"] /\ held' = [held EXCEPT ![s] = held[s]]
    BY <1>0, <1>4 DEF Notify, Goto
  <2>4. tx[s].kind # "update"
    BY <1>0, <1>4 DEF Notify, StageInv, Kind
  <2> HIDE DEF t
  <2> QED BY <1>0, <2>2, <2>3, <2>4, GoOnLogins
<1>5. CASE WithdrawOther(s)
  <2> DEFINE t == [tx[s] EXCEPT !.rest = @ \ {tx[s].vacancy}]
             point == IF tx[s].rest = {tx[s].vacancy} THEN "commit" ELSE "notify"
  <2>1. /\ tx' = [tx EXCEPT ![s] = t] /\ t.who = tx[s].who /\ t.kind = tx[s].kind
        /\ stage' = [stage EXCEPT ![s] = point] /\ held' = [held EXCEPT ![s] = h]
    BY <1>5 DEF WithdrawOther, Lock, Goto, LockInv, SessionType, TxType
  <2>2. tx[s].kind # "update" /\ <<"user", tx[s].who>> # Target(s)
    BY <1>0, <1>5 DEF WithdrawOther, StageInv, Kind, Target
  <2>3. held[s] \subseteq h /\ (<<"user", tx[s].who>> \in h => <<"user", tx[s].who>> \in held[s])
    BY <2>2
  <2> HIDE DEF h, t, point
  <2> QED BY <1>0, <2>1, <2>2, <2>3, GoOnLogins
<1> QED BY <1>1, <1>2, <1>3, <1>4, <1>5

\* The statements of an update, after the first of them is done.
LEMMA RestInOrder ==
  ASSUME NEW steps \in Seq(Steps), steps # <<>>, NEW writes, NEW locked, NEW after,
         InOrder(steps, writes, locked), locked => after, Head(steps) = "employee" => after
  PROVE  /\ InOrder(Tail(steps), writes, after)
         /\ HasUser(steps) => Head(steps) = "user" \/ HasUser(Tail(steps))
         /\ Head(steps) = "read" => HasUser(Tail(steps)) /\ (writes => locked)
         /\ Head(steps) = "user" => locked
<1>1. PICK n : n = Len(Tail(steps))
  OBVIOUS
<1>2. PICK q : q = Tail(steps)
  OBVIOUS
<1>3. /\ n \in Nat /\ Len(steps) = n + 1 /\ Head(steps) = steps[1] /\ Len(q) = n
      /\ \A i \in 1 .. n : q[i] = steps[i + 1]
  BY <1>1, <1>2
<1>4. ASSUME NEW i \in 1 .. n, Ahead("employee", steps, i + 1), ~after
      PROVE  Ahead("employee", q, i)
  <2>1. PICK j \in 1 .. i : steps[j] = "employee"
    BY <1>4 DEF Ahead
  <2>2. j # 1
    BY <1>3, <1>4, <2>1
  <2>3. j - 1 \in 1 .. i - 1 /\ q[j - 1] = steps[j]
    BY <1>3, <2>1, <2>2
  <2> QED BY <2>1, <2>3 DEF Ahead
<1>5. ASSUME NEW i \in 1 .. n, NEW j \in i + 2 .. n + 1, steps[j] = "user"
      PROVE  \E k \in i + 1 .. n : q[k] = "user"
  <2>1. j - 1 \in i + 1 .. n /\ q[j - 1] = steps[j]
    BY <1>3
  <2> QED BY <1>5, <2>1
<1>6. ASSUME NEW i \in 1 .. n
      PROVE  /\ q[i] = "read" =>
                  /\ writes => after \/ Ahead("employee", q, i)
                  /\ \E j \in i + 1 .. n : q[j] = "user"
             /\ q[i] = "user" => after \/ Ahead("employee", q, i)
  <2>1. i + 1 \in 1 .. Len(steps) /\ q[i] = steps[i + 1]
    BY <1>3
  <2>2. /\ q[i] = "read" =>
             /\ writes => locked \/ Ahead("employee", steps, i + 1)
             /\ \E j \in (i + 1) + 1 .. Len(steps) : steps[j] = "user"
        /\ q[i] = "user" => locked \/ Ahead("employee", steps, i + 1)
    BY <2>1 DEF InOrder
  <2>3. q[i] = "read" => \E j \in i + 2 .. n + 1 : steps[j] = "user"
    BY <1>3, <2>2
  <2> QED BY <1>4, <1>5, <2>2, <2>3
<1>7. InOrder(q, writes, after)
  BY <1>3, <1>6 DEF InOrder
<1>8. ASSUME NEW j \in 2 .. n + 1, steps[j] = "user" PROVE HasUser(q)
  <2>1. j - 1 \in 1 .. n /\ q[j - 1] = steps[j]
    BY <1>3
  <2> QED BY <1>3, <1>8, <2>1 DEF HasUser
<1>9. HasUser(steps) => Head(steps) = "user" \/ HasUser(q)
  <2>1. ASSUME NEW j \in 1 .. n + 1, steps[j] = "user" PROVE Head(steps) = "user" \/ HasUser(q)
    <3>1. j = 1 \/ j \in 2 .. n + 1
      BY <1>3
    <3> QED BY <1>3, <1>8, <2>1, <3>1
  <2> QED BY <1>3, <2>1 DEF HasUser
<1>10. ~Ahead("employee", steps, 1)
  BY DEF Ahead
<1>11. /\ Head(steps) = "read" =>
            (writes => locked) /\ \E j \in 1 + 1 .. Len(steps) : steps[j] = "user"
       /\ Head(steps) = "user" => locked
  <2>1. 1 \in 1 .. Len(steps)
    BY <1>3
  <2> QED BY <1>3, <1>10, <2>1 DEF InOrder
<1>12. Head(steps) = "read" => HasUser(q)
  BY <1>3, <1>8, <1>11
<1> QED BY <1>2, <1>7, <1>9, <1>11, <1>12

\* A statement of an update.
LEMMA UpdateStatement ==
  ASSUME LockInv, PersonInv, LoginInv, NEW s \in Session, ReadLogin(s) \/ Flush(s)
  PROVE  LoginInv'
<1> DEFINE steps == tx[s].steps
           writes == WritesEmployment(s)
           point == IF Len(steps) = 1 THEN "commit" ELSE "update"
<1>1. /\ UNCHANGED <<role, login, employment, blind>>
      /\ stage[s] = "update" /\ stage' = [stage EXCEPT ![s] = point]
  BY DEF ReadLogin, Flush, people, history, Proceed, Goto
<1>2. /\ Kind(s, {"update"}) /\ steps # <<>> /\ steps \in Seq(Steps) /\ tx[s] \in TxType
      /\ tx[s].who \in Person /\ tx[s].to \in Employments \cup {"none"}
      /\ held[s] \in SUBSET Rows
  BY <1>1 DEF LockInv, StageInv, SessionType, TxType, Steps
<1>3. UpdateInv(s) /\ InOrder(steps, writes, Holds(s, "employee"))
  BY <1>2 DEF LoginInv, UpdateInv
<1>4. stage'[s] = point /\ (point = "commit" => Len(Tail(steps)) = 0)
  <2>1. Len(steps) = 1 => Len(Tail(steps)) = 0
    BY <1>2
  <2> QED BY <1>1, <2>1 DEF LockInv, SessionType
<1>5. CASE ReadLogin(s)
  <2> DEFINE t == [tx[s] EXCEPT !.steps = Tail(@), !.seen = Status(login[tx[s].who])]
  <2>1. /\ tx' = [tx EXCEPT ![s] = t] /\ held' = [held EXCEPT ![s] = held[s]]
        /\ Head(steps) = "read"
    BY <1>5 DEF ReadLogin, LockInv, SessionType
  <2>2. /\ t.kind = tx[s].kind /\ t.who = tx[s].who /\ t.to = tx[s].to /\ t.was = tx[s].was
        /\ t.steps = Tail(steps) /\ t.seen = Status(login[tx[s].who])
    BY <1>2 DEF TxType
  <2>3. InOrder(Tail(steps), writes, Holds(s, "employee")) /\ HasUser(Tail(steps))
        /\ (writes => Holds(s, "employee"))
    <3>1. steps \in Seq(Steps) /\ steps # <<>> /\ InOrder(steps, writes, Holds(s, "employee"))
      BY <1>2, <1>3
    <3> HIDE DEF steps, writes
    <3> QED BY <2>1, <3>1, RestInOrder, SMTT(30)
  <2> HIDE DEF t
  <2>4. tx'[s] = t /\ held'[s] = held[s] /\ login' = login
    BY <1>1, <2>1 DEF LockInv, SessionType
  <2>5. /\ Holds(s, "user")' <=> Holds(s, "user")
        /\ Holds(s, "employee")' <=> Holds(s, "employee")
        /\ WritesEmployment(s)' <=> writes
    BY <2>2, <2>4 DEF Holds, WritesEmployment
  <2>6. UpdateInv(s)'
    <3>1. InOrder(tx'[s].steps, WritesEmployment(s)', Holds(s, "employee")')
      BY <2>2, <2>3, <2>4, <2>5, ZenonT(60) DEF InOrder
    <3>2. HasUser(tx'[s].steps)
      BY <2>2, <2>3, <2>4
    <3>3. /\ Holds(s, "user")' => Holds(s, "employee")'
          /\ stage'[s] = "commit" => Len(tx'[s].steps) = 0
          /\ WritesEmployment(s)' => Holds(s, "employee")'
          /\ tx'[s].seen = Status(login'[tx'[s].who])
      BY <1>3, <1>4, <2>2, <2>3, <2>4, <2>5 DEF UpdateInv
    <3> QED BY <3>1, <3>2, <3>3 DEF UpdateInv
  <2> HIDE DEF point
  <2> QED BY <1>1, <2>1, <2>6, SameLogins
<1>6. CASE Flush(s)
  <2> DEFINE t == [tx[s] EXCEPT !.steps = Tail(@)]
             row == <<Head(steps), tx[s].who>>
  <2>1. tx' = [tx EXCEPT ![s] = t] /\ Head(steps) # "read"
    BY <1>6 DEF Flush
  <2>2. /\ t.kind = tx[s].kind /\ t.who = tx[s].who /\ t.to = tx[s].to /\ t.was = tx[s].was
        /\ t.steps = Tail(steps) /\ t.seen = tx[s].seen
    BY <1>2 DEF TxType
  <2>3. PICK h : held' = [held EXCEPT ![s] = h]
                 /\ (h = held[s] \cup {row} \/ (h = held[s] /\ Head(steps) = "user" /\ tx[s].seen = tx[s].to))
    <3>1. Target(s) = row
      BY <1>1 DEF Target
    <3>2. CASE Head(steps) = "user" /\ tx[s].seen = tx[s].to
      BY <1>6, <3>2 DEF Flush, LockInv, SessionType
    <3>3. CASE ~(Head(steps) = "user" /\ tx[s].seen = tx[s].to)
      BY <1>6, <3>1, <3>3 DEF Flush, Lock
    <3> QED BY <3>2, <3>3
  <2> HIDE DEF t
  <2>4. tx'[s] = t /\ held'[s] = h /\ login' = login
    BY <1>1, <2>1, <2>3 DEF LockInv, SessionType
  <2>5. /\ Holds(s, "employee") => Holds(s, "employee")'
        /\ Head(steps) = "employee" => Holds(s, "employee")'
        /\ Holds(s, "user")' => Holds(s, "user") \/ Head(steps) = "user"
        /\ Holds(s, "user") => Holds(s, "user")'
        /\ Head(steps) = "user" => Holds(s, "user")' \/ tx[s].seen = tx[s].to
        /\ WritesEmployment(s)' <=> writes
    BY <2>2, <2>3, <2>4 DEF Holds, WritesEmployment
  <2>6. /\ InOrder(Tail(steps), writes, Holds(s, "employee")')
        /\ HasUser(steps) => Head(steps) = "user" \/ HasUser(Tail(steps))
        /\ Head(steps) = "user" => Holds(s, "employee")
    BY <1>2, <1>3, <2>5, RestInOrder
  <2>7. UpdateInv(s)'
    <3>1. InOrder(tx'[s].steps, WritesEmployment(s)', Holds(s, "employee")')
      BY <2>2, <2>4, <2>5, <2>6 DEF InOrder
    <3>2. /\ Holds(s, "user")' => Holds(s, "employee")'
          /\ stage'[s] = "commit" => Len(tx'[s].steps) = 0
      BY <1>3, <1>4, <2>2, <2>4, <2>5, <2>6 DEF UpdateInv
    <3>3. tx'[s].to # "none" => Holds(s, "user")' \/ tx'[s].seen = tx'[s].to \/ HasUser(tx'[s].steps)
      BY <1>2, <1>3, <2>2, <2>4, <2>5, <2>6 DEF UpdateInv
    <3>4. WritesEmployment(s)' /\ tx'[s].seen # "none" =>
            Holds(s, "employee")' /\ tx'[s].seen = Status(login'[tx'[s].who])
      BY <1>2, <1>3, <2>2, <2>4, <2>5 DEF UpdateInv
    <3> QED BY <3>1, <3>2, <3>3, <3>4 DEF UpdateInv
  <2> HIDE DEF point
  <2> QED BY <1>1, <2>1, <2>3, <2>7, SameLogins
<1> QED BY <1>5, <1>6

-----------------------------------------------------------------------------
(* Commits.                                                                *)

\* What a commit of s must leave true: an update that has locked the employee
\* still knows the login.
LEMMA OthersKnowLogins ==
  ASSUME LockInv, LoginInv, NEW s \in Session, EndTx(s),
         login' \in [Person -> BOOLEAN],
         \A p \in Person : LoginOK(p)',
         \A o \in Session \ {s}, p \in Person :
           tx[o].who = p /\ Kind(o, {"update"}) /\ Holds(o, "employee") => login'[p] = login[p]
  PROVE  LoginInv'
<1>1. UpdateInv(s)'
  <2>1. tx'[s] = NoTx /\ held'[s] = {}
    BY DEF EndTx, LockInv, SessionType
  <2> QED BY <2>1, NoTxTyped DEF UpdateInv, Holds, Kind
<1>2. ASSUME NEW o \in Session, o # s PROVE UpdateInv(o)'
  <2>1. UpdateInv(o) /\ stage'[o] = stage[o] /\ tx'[o] = tx[o] /\ held'[o] = held[o]
    BY <1>2 DEF EndTx, LoginInv, LockInv, SessionType
  <2>2. /\ \A table : Holds(o, table)' <=> Holds(o, table)
        /\ WritesEmployment(o)' <=> WritesEmployment(o)
    BY <2>1 DEF Holds, WritesEmployment
  <2>3. Kind(o, {"update"}) /\ Holds(o, "employee") => login'[tx[o].who] = login[tx[o].who]
    <3>1. Kind(o, {"update"}) => tx[o].who \in Person
      BY DEF LockInv, StageInv, Kind
    <3> QED BY <1>2, <3>1
  <2>4. Kind(o, {"update"})' <=> Kind(o, {"update"})
    BY <2>1 DEF Kind
  <2>5. Kind(o, {"update"}) => InOrder(tx'[o].steps, WritesEmployment(o)', Holds(o, "employee")')
    BY <2>1, <2>2 DEF UpdateInv, InOrder
  <2>6. /\ Holds(o, "user")' => Holds(o, "employee")'
        /\ Kind(o, {"update"}) /\ stage'[o] = "commit" => Len(tx'[o].steps) = 0
        /\ Kind(o, {"update"}) /\ tx'[o].to # "none" =>
             Holds(o, "user")' \/ tx'[o].seen = tx'[o].to \/ HasUser(tx'[o].steps)
    BY <2>1, <2>2 DEF UpdateInv
  <2>7. Kind(o, {"update"}) /\ WritesEmployment(o)' /\ tx'[o].seen # "none" =>
          Holds(o, "employee")' /\ tx'[o].seen = Status(login'[tx'[o].who])
    BY <2>1, <2>2, <2>3 DEF UpdateInv
  <2> QED BY <2>4, <2>5, <2>6, <2>7 DEF UpdateInv
<1> QED BY <1>1, <1>2 DEF LoginInv

\* An update that changes the employment leaves the login in accordance with it.
LEMMA UpdateSyncs ==
  ASSUME LockInv, LoginInv, NEW s \in Session, stage[s] = "commit", CommitUpdate(s), WritesEmployment(s),
         NEW p \in Person, tx[s].who = p
  PROVE  login'[p] <=> tx[s].to = "ACTIVE"
<1>1. /\ Kind(s, {"update"}) /\ UpdateInv(s) /\ tx[s].to \in Employments /\ login \in [Person -> BOOLEAN]
  BY DEF CommitUpdate, Kind, LoginInv, LockInv, StageInv, WritesEmployment
<1>2. CASE WritesLogin(s)
  <2>1. login' = [login EXCEPT ![p] = (tx[s].to = "ACTIVE")]
    BY <1>2 DEF CommitUpdate
  <2> QED BY <1>1, <2>1
<1>3. CASE ~WritesLogin(s)
  <2>1. ~Holds(s, "user") /\ login' = login
    BY <1>3 DEF WritesLogin, Holds, CommitUpdate
  <2>2. ~HasUser(tx[s].steps)
    BY <1>1 DEF UpdateInv, HasUser
  <2>3. tx[s].seen = tx[s].to /\ tx[s].to # "none"
    BY <1>1, <2>1, <2>2 DEF UpdateInv, Employments
  <2>4. tx[s].to = Status(login[p])
    BY <1>1, <2>3 DEF UpdateInv
  <2> QED BY <1>1, <2>1, <2>4 DEF Status
<1> QED BY <1>2, <1>3

\* A COMMIT writes the login and the employment whose rows it has locked.
LEMMA CommitLogins ==
  ASSUME LockInv, PersonInv, LoginInv, NEW s \in Session, Commit(s)
  PROVE  LoginInv'
<1>1. /\ stage[s] = "commit" /\ EndTx(s) /\ StageInv(s) /\ FactsOf(s) /\ UpdateInv(s)
      /\ \A o \in Session : FactsOf(o) /\ UpdateInv(o)
      /\ \A p \in Person : PersonOK(p) /\ LoginOK(p)
      /\ role \in [Person -> Roles \cup {"none"}]
      /\ employment \in [Person -> Employments \cup {"none"}]
      /\ login \in [Person -> BOOLEAN]
  BY DEF Commit, LockInv, PersonInv, LoginInv, DataType
<1>2. PICK c \in Person : tx[s].who = c
  BY <1>1 DEF StageInv
<1>3. CASE UNCHANGED <<role, login, employment, blind>>
  BY <1>1, <1>3, EndLogins
<1>4. CASE /\ tx[s].kind \in {"register", "create"} /\ UNCHANGED blind
           /\ \E r : NewLogin(tx[s].who, r)
           /\ \/ UNCHANGED employment
              \/ employment' = [employment EXCEPT ![tx[s].who] = "ACTIVE"]
  <2>1. role[c] = "none" /\ employment[c] = "none"
    BY <1>1, <1>2, <1>4 DEF FactsOf, Kind, PersonOK
  <2>2. /\ login' = [login EXCEPT ![c] = TRUE] /\ employment'[c] \in {"none", "ACTIVE"}
        /\ \A p \in Person \ {c} : role'[p] = role[p] /\ employment'[p] = employment[p]
    BY <1>1, <1>2, <1>4, <2>1 DEF NewLogin
  <2>3. login' \in [Person -> BOOLEAN]
    BY <1>1, <2>2
  <2>4. \A p \in Person : LoginOK(p)'
    BY <1>1, <1>4, <2>2 DEF LoginOK
  <2>5. \A o \in Session \ {s} : Kind(o, {"update"}) => tx[o].who # c
    BY <1>1, <2>1 DEF FactsOf
  <2> QED BY <1>1, <2>2, <2>3, <2>4, <2>5, OthersKnowLogins
<1>5. CASE CommitHire(s)
  <2>1. Known(c) /\ employment[c] = "none"
    BY <1>1, <1>2, <1>5 DEF CommitHire, FactsOf, Kind
  <2>2. /\ login[c] /\ login' = login /\ blind' = blind /\ employment'[c] = "ACTIVE"
        /\ \A p \in Person \ {c} : role'[p] = role[p] /\ employment'[p] = employment[p]
    BY <1>1, <1>2, <1>5, <2>1 DEF CommitHire, LoginOK, Known
  <2>3. \A p \in Person : LoginOK(p)'
    BY <1>1, <2>2 DEF LoginOK
  <2> QED BY <1>1, <2>2, <2>3, OthersKnowLogins
<1>6. CASE CommitUpdate(s)
  <2>1. employment[c] # "none" /\ role' = role /\ Kind(s, {"update"}) /\ tx[s].to \in Employments \cup {"none"}
    BY <1>1, <1>2, <1>6 DEF CommitUpdate, people, FactsOf, Kind, StageInv
  <2>2. /\ login' \in [Person -> BOOLEAN]
        /\ \A p \in Person \ {c} : login'[p] = login[p] /\ employment'[p] = employment[p]
                                   /\ (p \in blind' <=> p \in blind)
    BY <1>1, <1>2, <1>6 DEF CommitUpdate
  <2>3. LoginOK(c)'
    <3>1. CASE WritesEmployment(s)
      <4>1. employment'[c] = tx[s].to /\ tx[s].to # "none"
        BY <1>1, <1>2, <1>6, <3>1 DEF CommitUpdate, WritesEmployment
      <4> QED BY <1>1, <1>2, <1>6, <3>1, <4>1, UpdateSyncs DEF LoginOK
    <3>2. CASE ~WritesEmployment(s) /\ WritesLogin(s)
      <4>1. employment' = employment /\ c \in blind'
        BY <1>2, <1>6, <3>2 DEF CommitUpdate
      <4> QED BY <2>1, <4>1 DEF LoginOK
    <3>3. CASE ~WritesEmployment(s) /\ ~WritesLogin(s)
      <4>1. employment' = employment /\ login' = login /\ blind' = blind
        BY <1>6, <3>3 DEF CommitUpdate
      <4> QED BY <1>1, <2>1, <4>1 DEF LoginOK
    <3> QED BY <3>1, <3>2, <3>3
  <2>4. \A p \in Person : LoginOK(p)'
    BY <1>1, <2>1, <2>2, <2>3 DEF LoginOK
  <2>5. ASSUME NEW o \in Session \ {s}, tx[o].who = c, Holds(o, "employee") PROVE login' = login
    <3>1. ~Holds(s, "employee")
      BY <1>2, <2>5 DEF Holds, LockInv, Exclusive
    <3>2. ~WritesLogin(s)
      BY <1>1, <3>1 DEF UpdateInv, Holds, WritesLogin
    <3> QED BY <1>6, <3>2 DEF CommitUpdate
  <2> QED BY <1>1, <2>2, <2>4, <2>5, OthersKnowLogins
<1> QED BY <1>3, <1>4, <1>5, <1>6 DEF Commit, CommitInsert, CommitWrite, people

\* Every step, and stuttering.
LEMMA LoginKept == LockInv /\ PersonInv /\ LoginInv /\ [Next]_vars => LoginInv'
<1> SUFFICES ASSUME LockInv, PersonInv, LoginInv, [Next]_vars PROVE LoginInv'
  OBVIOUS
<1>1. ASSUME UNCHANGED vars \/ \E v \in Vacancy : Advertise(v) \/ Archive(v) PROVE LoginInv'
  <2>1. UNCHANGED <<role, login, employment, blind, stage, tx, held>>
    BY <1>1 DEF vars, people, history, Advertise, Archive
  <2>2. \A p \in Person : LoginOK(p)'
    BY <2>1 DEF LoginInv, LoginOK
  <2>3. ASSUME NEW o \in Session PROVE UpdateInv(o)'
    BY <2>1 DEF LoginInv, UpdateInv, Kind, Holds, WritesEmployment, InOrder
  <2> QED BY <2>1, <2>2, <2>3 DEF LoginInv
<1>2. ASSUME NEW s \in Session, CandidateRequest(s) \/ StaffRequest(s) PROVE LoginInv'
  BY <1>2, RequestLogins
<1>3. ASSUME NEW s \in Session, Statement(s) PROVE LoginInv'
  BY <1>3, StatementLogins, UpdateStatement, CommitLogins DEF Statement
<1>4. ASSUME NEW s \in Session, Abort(s) PROVE LoginInv'
  BY <1>4, EndLogins DEF Abort, people, history
<1> QED BY <1>1, <1>2, <1>3, <1>4 DEF Next

\* At first nobody is employed, and nobody may log in.
LEMMA LoginInitially == Init => LoginInv
<1> SUFFICES ASSUME Init PROVE LoginInv
  OBVIOUS
<1>1. login \in [Person -> BOOLEAN] /\ \A p \in Person : role[p] = "none" /\ employment[p] = "none"
  BY DEF Init
<1>2. ASSUME NEW s \in Session PROVE UpdateInv(s)
  <2>1. tx[s] = NoTx /\ held[s] = {}
    BY DEF Init
  <2> QED BY <2>1, NoTxTyped DEF UpdateInv, Holds, Kind
<1> QED BY <1>1, <1>2 DEF LoginInv, LoginOK

\* However hires, edits and deactivations race, whoever is employed can log in
\* exactly while they are ACTIVE: an update that changes the employment flushes
\* it before it reads the login, so the employee row it holds keeps every other
\* update from the login until it commits.  (Not for persons whose login was
\* last set by a request that restated their employment.)
THEOREM LoginsMatchEmployment == Spec => []LoginMatches
<1>1. LoginInv => LoginMatches
  BY DEF LoginInv, LoginOK, LoginMatches
<1> QED BY <1>1, LocksAlways, PersonInitially, PersonKept, LoginInitially, LoginKept, PTL DEF Spec
=============================================================================
