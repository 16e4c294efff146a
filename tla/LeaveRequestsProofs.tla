------------------------- MODULE LeaveRequestsProofs -------------------------
(***************************************************************************)
(* Proofs about the leave service.  For any number of sessions: types,     *)
(* numbers of requests, balances and what they hold, decisions and their   *)
(* records.  For any number of sessions that run one transaction at a      *)
(* time: the ledger, the calendar of every employee, the limits of leave,  *)
(* and with them the atomic leave book.                                    *)
(***************************************************************************)
EXTENDS LeaveRequests, FiniteLemmas

-----------------------------------------------------------------------------
(* Facts about the operators the service is built from.                    *)

\* A span of the calendar costs a natural number of units.
LEMMA UnitsNat == ASSUME NEW a \in Asks PROVE UnitsOf(a) \in Nat
<1>1. a.span \in SpanType
  BY TermsAssumption DEF AskType
<1>2. IsFiniteSet(DaysOf(a.span))
  BY <1>1, FS_Interval DEF DaysOf, SpanType
<1>3. IsFiniteSet(WorkingDays(Holidays, a.span))
  <2>1. WorkingDays(Holidays, a.span) \subseteq DaysOf(a.span)
    BY DEF WorkingDays
  <2>2. QED BY <2>1, <1>2, FS_Subset
<1>4. Cardinality(WorkingDays(Holidays, a.span)) \in Nat
  BY <1>3, FS_CardinalityType
<1>5. QED BY <1>4 DEF UnitsOf, WorkingUnits

\* A request is charged to a year, and draws on a balance of the table.
LEMMA AskTerms ==
  ASSUME NEW a \in Asks
  PROVE  YearOfAsk(a) \in Nat /\ KeyOf(a) \in BalanceKey /\ a.emp \in Employee
                              /\ a.type \in LeaveType
<1>1. a.span.from \in Nat /\ a.emp \in Employee /\ a.type \in LeaveType
  BY TermsAssumption DEF AskType, SpanType
<1>2. YearOfAsk(a) \in Nat
  BY <1>1, YearLengthAssumption DEF YearOfAsk, YearOf
<1>3. KeyOf(a) \in BalanceKey
  BY DEF BalanceKey
<1>4. QED BY <1>1, <1>2, <1>3

\* Counting the numbers of a year of a finite table.
LEMMA CountNat ==
  ASSUME NEW numbers, IsFiniteSet(numbers), NEW y
  PROVE  IsFiniteSet(OfYear(numbers, y)) /\ CountForYear(numbers, y) \in Nat
<1>1. OfYear(numbers, y) \subseteq numbers
  BY DEF OfYear
<1>2. IsFiniteSet(OfYear(numbers, y))
  BY <1>1, FS_Subset
<1>3. QED BY <1>2, FS_CardinalityType DEF CountForYear

\* Adding a number of a year counts one more in that year and changes no other.
LEMMA CountGrows ==
  ASSUME NEW numbers, IsFiniteSet(numbers), NEW y, NEW z, NEW k,
         <<z, k>> \notin numbers
  PROVE  /\ OfYear(numbers \cup {<<z, k>>}, y)
              = OfYear(numbers, y) \cup (IF z = y THEN {<<z, k>>} ELSE {})
         /\ CountForYear(numbers \cup {<<z, k>>}, y)
              = CountForYear(numbers, y) + (IF z = y THEN 1 ELSE 0)
<1>1. OfYear(numbers \cup {<<z, k>>}, y)
        = OfYear(numbers, y) \cup (IF z = y THEN {<<z, k>>} ELSE {})
  BY DEF OfYear
<1>2. CASE z = y
  <2>1. <<z, k>> \notin OfYear(numbers, y)
    BY DEF OfYear
  <2>2. Cardinality(OfYear(numbers, y) \cup {<<z, k>>}) = Cardinality(OfYear(numbers, y)) + 1
    BY <2>1, CountNat, FS_AddElement
  <2>3. QED BY <1>1, <1>2, <2>2 DEF CountForYear
<1>3. CASE z # y
  <2>1. OfYear(numbers, y) \cup {} = OfYear(numbers, y)
    OBVIOUS
  <2>2. CountForYear(numbers, y) + 0 = CountForYear(numbers, y)
    BY CountNat
  <2>3. QED BY <1>1, <1>3, <2>1, <2>2 DEF CountForYear
<1>4. QED BY <1>2, <1>3

-----------------------------------------------------------------------------
(* Type correctness.                                                       *)

\* A table with one row put in it.
LEMMA PutFacts ==
  ASSUME NEW f, NEW n, NEW v
  PROVE  /\ DOMAIN Put(f, n, v) = DOMAIN f \cup {n}
         /\ Put(f, n, v)[n] = v
         /\ \A m \in DOMAIN f : m # n => Put(f, n, v)[m] = f[m]
BY DEF Put

\* TypeOK is inductive together with the finiteness of the request table,
\* which makes the count behind a request number a natural number.
TypeInv == TypeOK /\ IsFiniteSet(DOMAIN requests)

\* The initial tables are empty and every session is idle.
LEMMA TypeInit == Init => TypeInv
<1> SUFFICES ASSUME Init PROVE TypeInv
  OBVIOUS
<1>1. DOMAIN requests = {} /\ DOMAIN balances = {} /\ DOMAIN outbox = {} /\ DOMAIN trail = {}
  BY DEF Init
<1>2. IsFiniteSet(DOMAIN requests)
  BY <1>1, FS_EmptySet
<1>3. requests \in [DOMAIN requests -> RowType] /\ balances \in [DOMAIN balances -> Nat]
  BY DEF Init
<1>4. outbox \in [DOMAIN requests -> Seq(Mails)] /\ trail \in [DOMAIN requests -> Seq(Statuses)]
  BY DEF Init
<1>5. DOMAIN pc = Session /\ DOMAIN tx = Session /\ \A s \in Session : TxOK(s)
  BY DEF Init, TxOK, SubmitPoints, RulePoints
<1>6. QED BY <1>1, <1>2, <1>3, <1>4, <1>5 DEF TypeInv, TypeOK

\* A step of one session that leaves the tables alone is type correct when
\* it leaves that session type correct.
LEMMA TypeLocal ==
  ASSUME TypeInv, NEW s \in Session, UNCHANGED stored,
         DOMAIN pc' = Session, DOMAIN tx' = Session,
         \A o \in Session \ {s} : pc'[o] = pc[o] /\ tx'[o] = tx[o],
         TxOK(s)'
  PROVE  TypeInv'
<1>1. ASSUME NEW o \in Session PROVE TxOK(o)'
  BY DEF TypeInv, TypeOK, TxOK, stored
<1>2. QED BY <1>1 DEF TypeInv, TypeOK, stored

\* The initial state of a submission, its number and its abandonment are of
\* the types the transaction record declares.
LEMMA TypeSubmit ==
  ASSUME TypeInv, NEW s \in Session,
         \/ \E a \in Asks : SubmitCheck(s, a)
         \/ SubmitBalance(s) \/ SubmitCreate(s) \/ SubmitCount(s) \/ SubmitInsert(s)
         \/ Abort(s)
  PROVE  TypeInv'
<1> USE DEF TypeInv, TypeOK
<1>0. UNCHANGED stored
  BY DEF SubmitCheck, SubmitBalance, SubmitCreate, SubmitCount, SubmitInsert, Abort
<1>e. ASSUME EndTx(s) PROVE TypeInv'
  <2>1. TxOK(s)'
    BY <1>e DEF EndTx, TxOK, SubmitPoints, RulePoints
  <2>2. QED BY <1>0, <1>e, <2>1, TypeLocal DEF EndTx
<1>g. ASSUME NEW p \in SubmitPoints, pc[s] \in SubmitPoints, Goto(s, p) PROVE TypeInv'
  <2>1. TxOK(s)'
    BY <1>g DEF Goto, TxOK, SubmitPoints, RulePoints
  <2>2. QED BY <1>0, <1>g, <2>1, TypeLocal DEF Goto
<1>1. ASSUME NEW a \in Asks, SubmitCheck(s, a) PROVE TypeInv'
  <2>1. [ask |-> a, fresh |-> FALSE, number |-> <<YearOfAsk(a), 0>>] \in SubmitTx
    BY AskTerms DEF SubmitTx, NumberType
  <2>2. TxOK(s)'
    BY <1>1, <2>1 DEF SubmitCheck, TxOK, SubmitPoints, RulePoints
  <2>3. QED BY <1>0, <1>1, <2>2, TypeLocal DEF SubmitCheck
<1>2. CASE SubmitBalance(s)
  BY <1>2, <1>e, <1>g DEF SubmitBalance, SubmitPoints
<1>3. CASE SubmitCreate(s)
  <2>1. CASE EndTx(s)
    BY <2>1, <1>e
  <2>2. CASE pc' = [pc EXCEPT ![s] = "count"] /\ tx' = [tx EXCEPT ![s].fresh = TRUE]
    <3>1. tx[s] \in SubmitTx
      BY <1>3 DEF SubmitCreate, TxOK, SubmitPoints
    <3>2. tx'[s] \in SubmitTx /\ pc'[s] = "count"
      BY <2>2, <3>1 DEF SubmitTx
    <3>3. TxOK(s)'
      BY <3>2 DEF TxOK, SubmitPoints, RulePoints
    <3>4. QED BY <1>0, <2>2, <3>3, TypeLocal
  <2>3. QED BY <1>3, <2>1, <2>2 DEF SubmitCreate
<1>4. CASE SubmitCount(s)
  <2>1. tx[s] \in SubmitTx
    BY <1>4 DEF SubmitCount, TxOK, SubmitPoints
  <2>2. tx[s].ask \in Asks
    BY <2>1 DEF SubmitTx
  <2>3. NextNumber(DOMAIN requests, YearOfAsk(tx[s].ask)) \in NumberType
    BY <2>2, AskTerms, CountNat DEF NextNumber, NumberType
  <2>4. tx'[s] \in SubmitTx /\ pc'[s] = "insert"
    BY <1>4, <2>1, <2>3 DEF SubmitCount, SubmitTx
  <2>5. TxOK(s)'
    BY <2>4 DEF TxOK, SubmitPoints, RulePoints
  <2>6. QED BY <1>0, <1>4, <2>5, TypeLocal DEF SubmitCount
<1>5. CASE SubmitInsert(s)
  BY <1>5, <1>e, <1>g DEF SubmitInsert, SubmitPoints
<1>6. CASE Abort(s)
  BY <1>6, <1>e DEF Abort
<1>7. QED BY <1>1, <1>2, <1>3, <1>4, <1>5, <1>6

\* What a submission and a decision enqueue are lists of mails.
LEMMA MailsOfSteps ==
  /\ \A e : ReceivedMails(e) \in Seq(Mails)
  /\ \A v : DecisionMails(v) \in Seq(Mails)
<1>1. <<>> \in Seq(Mails)
  OBVIOUS
<1>2. \A m \in Mails : <<m>> \in Seq(Mails)
  OBVIOUS
<1>3. \A m, n \in Mails : <<m, n>> \in Seq(Mails)
  OBVIOUS
<1>4. /\ "SEND_LEAVE_REQUEST_RECEIVED" \in Mails /\ "SEND_NEW_LEAVE_REQUEST_ALERT" \in Mails
      /\ "SEND_LEAVE_APPROVAL_EMAIL" \in Mails /\ "SEND_LEAVE_REJECTED" \in Mails
  BY DEF Mails
<1>5. ASSUME NEW e PROVE ReceivedMails(e) \in Seq(Mails)
  BY <1>2, <1>3, <1>4 DEF ReceivedMails
<1>6. ASSUME NEW v PROVE DecisionMails(v) \in Seq(Mails)
  BY <1>1, <1>2, <1>4 DEF DecisionMails
<1>7. QED BY <1>5, <1>6

\* Committing a submission adds a well-typed row to each table.
LEMMA TypeCommit == ASSUME TypeInv, NEW s \in Session, SubmitCommit(s) PROVE TypeInv'
<1> USE DEF TypeInv, TypeOK
<1> DEFINE a == tx[s].ask
           n == tx[s].number
<1>1. tx[s] \in SubmitTx /\ a \in Asks /\ n \in NumberType
  BY DEF SubmitCommit, TxOK, SubmitPoints, SubmitTx
<1>2. DOMAIN requests' = DOMAIN requests \cup {n}
  BY DEF SubmitCommit, Put
<1>3. IsFiniteSet(DOMAIN requests')
  <2>1. IsFiniteSet(DOMAIN requests \cup {n})
    BY FS_AddElement
  <2>2. QED BY <1>2, <2>1
<1>4. [ask |-> a, days |-> UnitsOf(a), status |-> "PENDING", version |-> 1] \in RowType
  BY <1>1, UnitsNat DEF RowType, Statuses
<1>5. requests' \in [DOMAIN requests' -> RowType]
  BY <1>4 DEF SubmitCommit, Put
<1>6. DOMAIN balances' \subseteq BalanceKey /\ balances' \in [DOMAIN balances' -> Nat]
  BY <1>1, AskTerms DEF SubmitCommit, NewBalances, Put
<1>7. outbox' \in [DOMAIN requests' -> Seq(Mails)]
  <2>1. ReceivedMails(a.emp) \in Seq(Mails)
    BY MailsOfSteps
  <2>2. QED BY <2>1 DEF SubmitCommit, Put
<1>8. trail' \in [DOMAIN requests' -> Seq(Statuses)]
  <2>1. <<"PENDING">> \in Seq(Statuses)
    BY DEF Statuses
  <2>2. QED BY <2>1 DEF SubmitCommit, Put
<1>9. ASSUME NEW o \in Session PROVE TxOK(o)'
  BY <1>2 DEF SubmitCommit, EndTx, TxOK, SubmitPoints, RulePoints
<1>10. DOMAIN requests' \subseteq NumberType /\ DOMAIN pc' = Session /\ DOMAIN tx' = Session
  BY <1>1, <1>2 DEF SubmitCommit, EndTx
<1>11. QED BY <1>3, <1>5, <1>6, <1>7, <1>8, <1>9, <1>10

\* Committing a decision rewrites rows of the tables within their types.
LEMMA TypeRuled == ASSUME TypeInv, NEW s \in Session, RuleCommit(s) PROVE TypeInv'
<1> USE DEF TypeInv, TypeOK
<1> DEFINE n == tx[s].number
           v == tx[s].verdict
<1>1. tx[s] \in RuleTx /\ n \in DOMAIN requests /\ v \in Verdicts
  BY DEF RuleCommit, TxOK, RulePoints, SubmitPoints, RuleTx
<1>2. requests[n] \in RowType /\ requests[n].days \in Nat
  BY <1>1 DEF RowType
<1>3. DOMAIN requests' = DOMAIN requests
  BY DEF RuleCommit
<1>4. requests' \in [DOMAIN requests -> RowType]
  <2>1. tx[s].version + 1 \in Nat /\ v \in Statuses
    BY <1>1 DEF RuleTx, Statuses
  <2>2. [requests[n] EXCEPT !.status = v, !.version = tx[s].version + 1] \in RowType
    BY <1>2, <2>1 DEF RowType
  <2>3. \A m \in DOMAIN requests :
          requests'[m] = IF m = n
                         THEN [requests[n] EXCEPT !.status = v, !.version = tx[s].version + 1]
                         ELSE requests[m]
    BY <1>1 DEF RuleCommit
  <2>4. QED BY <2>2, <2>3 DEF RuleCommit
<1>5. DOMAIN balances' = DOMAIN balances /\ balances' \in [DOMAIN balances -> Nat]
  <2>1. tx[s].seen + requests[n].days \in Nat
    BY <1>1, <1>2 DEF RuleTx
  <2>2. QED BY <2>1 DEF RuleCommit, BookedBalances
<1>6. outbox' \in [DOMAIN requests -> Seq(Mails)]
  <2>1. DecisionMails(v) \in Seq(Mails)
    BY MailsOfSteps
  <2>2. outbox[n] \o DecisionMails(v) \in Seq(Mails)
    BY <1>1, <2>1
  <2>3. QED BY <2>2 DEF RuleCommit
<1>7. trail' \in [DOMAIN requests -> Seq(Statuses)]
  <2>1. Append(trail[n], v) \in Seq(Statuses)
    BY <1>1 DEF Statuses
  <2>2. QED BY <2>1 DEF RuleCommit
<1>8. ASSUME NEW o \in Session PROVE TxOK(o)'
  BY <1>3 DEF RuleCommit, EndTx, TxOK, SubmitPoints, RulePoints
<1>9. DOMAIN pc' = Session /\ DOMAIN tx' = Session
  BY DEF RuleCommit, EndTx
<1>10. QED BY <1>3, <1>4, <1>5, <1>6, <1>7, <1>8, <1>9

\* Reading a request and taking its locks keep the transaction well typed.
LEMMA TypeRule ==
  ASSUME TypeInv, NEW s \in Session,
         \/ \E n \in DOMAIN requests, v \in Verdicts : ReadPending(s, n, v)
         \/ RuleUpdate(s) \/ ApproveTally(s) \/ ApproveBook(s)
  PROVE  TypeInv'
<1> USE DEF TypeInv, TypeOK
<1>0. UNCHANGED stored
  BY DEF ReadPending, RuleUpdate, ApproveTally, ApproveBook
<1>1. ASSUME NEW n \in DOMAIN requests, NEW v \in Verdicts, ReadPending(s, n, v) PROVE TypeInv'
  <2>1. [number |-> n, verdict |-> v, version |-> requests[n].version, seen |-> 0] \in RuleTx
    BY DEF RuleTx, RowType
  <2>2. TxOK(s)'
    BY <1>0, <1>1, <2>1 DEF ReadPending, TxOK, SubmitPoints, RulePoints, stored
  <2>3. QED BY <1>0, <1>1, <2>2, TypeLocal DEF ReadPending
<1>g. ASSUME NEW p \in RulePoints, pc[s] \in RulePoints, Goto(s, p) PROVE TypeInv'
  <2>1. TxOK(s)'
    BY <1>0, <1>g DEF Goto, TxOK, SubmitPoints, RulePoints, stored
  <2>2. QED BY <1>0, <1>g, <2>1, TypeLocal DEF Goto
<1>2. CASE RuleUpdate(s)
  BY <1>2, <1>g DEF RuleUpdate, RulePoints
<1>3. CASE ApproveBook(s)
  BY <1>3, <1>g DEF ApproveBook, RulePoints
<1>4. CASE ApproveTally(s)
  <2>1. tx[s] \in RuleTx /\ tx[s].number \in DOMAIN requests
    BY <1>4 DEF ApproveTally, TxOK, SubmitPoints, RulePoints
  <2>2. balances[KeyOfRequest(tx[s].number)] \in Nat
    BY <1>4 DEF ApproveTally
  <2>3. tx'[s] \in RuleTx /\ tx'[s].number = tx[s].number /\ pc'[s] = "book"
    BY <1>4, <2>1, <2>2 DEF ApproveTally, RuleTx
  <2>4. TxOK(s)'
    BY <1>0, <2>1, <2>3 DEF TxOK, SubmitPoints, RulePoints, stored
  <2>5. QED BY <1>0, <1>4, <2>4, TypeLocal DEF ApproveTally
<1>5. QED BY <1>1, <1>2, <1>3, <1>4

\* What a step of the service can be, the two readings of a request merged.
LEMMA NextCases ==
  ASSUME Next
  PROVE  \E s \in Session :
           \/ \E a \in Asks : SubmitCheck(s, a)
           \/ \E n \in DOMAIN requests, v \in Verdicts : ReadPending(s, n, v)
           \/ SubmitBalance(s) \/ SubmitCreate(s) \/ SubmitCount(s) \/ SubmitInsert(s)
           \/ SubmitCommit(s)
           \/ RuleUpdate(s) \/ ApproveTally(s) \/ ApproveBook(s) \/ RuleCommit(s)
           \/ Abort(s)
BY DEF Next, Running, Locking, DecideRead, CancelRead, Verdicts

\* TypeInv is inductive.
LEMMA TypeStep == TypeInv /\ [Next]_vars => TypeInv'
<1>1. CASE UNCHANGED vars
  BY <1>1 DEF TypeInv, TypeOK, TxOK, vars
<1>2. ASSUME TypeInv, Next PROVE TypeInv'
  BY <1>2, NextCases, TypeSubmit, TypeCommit, TypeRuled, TypeRule
<1>3. QED BY <1>1, <1>2

\* The inductive form of type correctness.
LEMMA TypeInvariant == Spec => []TypeInv
BY TypeInit, TypeStep, PTL DEF Spec

\* Every transaction works on well-typed tables and on requests that exist,
\* however many sessions interleave.
THEOREM TypeCorrect == Spec => []TypeOK
<1>1. TypeInv => TypeOK
  BY DEF TypeInv
<1>2. QED BY <1>1, TypeInvariant, PTL

-----------------------------------------------------------------------------
(* Request numbers.                                                        *)

\* The numbers of a year are 1 .. n; said of every year, used or not.
Contiguous ==
  \A y \in Nat :
    OfYear(DOMAIN requests, y) = {y} \X (1 .. CountForYear(DOMAIN requests, y))

\* A number a session computed lies at most one beyond those of its year: the
\* count it was computed from can only have been overtaken.
PendingNumber(s) ==
  pc[s] \in {"insert", "inserted"} =>
    \E k \in 1 .. (CountForYear(DOMAIN requests, YearOfAsk(tx[s].ask)) + 1) :
      tx[s].number = <<YearOfAsk(tx[s].ask), k>>

\* A number that is inserted and not yet committed is this session's alone.
ReservedNumber(s) ==
  pc[s] = "inserted" =>
    /\ tx[s].number \notin DOMAIN requests
    /\ \A o \in Session \ {s} : pc[o] = "inserted" => tx[o].number # tx[s].number

NumberInv ==
  /\ Contiguous
  /\ \A s \in Session : PendingNumber(s) /\ ReservedNumber(s)

\* No requests, no numbers, no sessions at work.
LEMMA NumberInit == Init => NumberInv
<1> SUFFICES ASSUME Init PROVE NumberInv
  OBVIOUS
<1>1. DOMAIN requests = {}
  BY DEF Init
<1>2. ASSUME NEW y \in Nat
      PROVE  OfYear(DOMAIN requests, y) = {y} \X (1 .. CountForYear(DOMAIN requests, y))
  <2>1. OfYear(DOMAIN requests, y) = {}
    BY <1>1 DEF OfYear
  <2>2. CountForYear(DOMAIN requests, y) = 0
    BY <2>1, FS_EmptySet DEF CountForYear
  <2>3. 1 .. 0 = {}
    OBVIOUS
  <2>4. QED BY <2>1, <2>2, <2>3
<1>3. QED BY <1>2 DEF Init, NumberInv, Contiguous, PendingNumber, ReservedNumber

\* A step that commits no request and leaves the other sessions alone keeps
\* the numbers sound when it keeps those of its own session sound.
LEMMA NumberLocal ==
  ASSUME NumberInv, NEW s \in Session, DOMAIN requests' = DOMAIN requests,
         \A o \in Session \ {s} : pc'[o] = pc[o] /\ tx'[o] = tx[o],
         PendingNumber(s)', ReservedNumber(s)'
  PROVE  NumberInv'
<1>1. Contiguous'
  BY DEF NumberInv, Contiguous
<1>2. ASSUME NEW o \in Session \ {s} PROVE PendingNumber(o)'
  BY DEF NumberInv, PendingNumber
<1>3. ASSUME NEW o \in Session \ {s} PROVE ReservedNumber(o)'
  BY DEF NumberInv, ReservedNumber
<1>4. QED BY <1>1, <1>2, <1>3 DEF NumberInv

\* Counting: the number computed is the next one of its year.
LEMMA NumberOfCount ==
  ASSUME TypeInv, NumberInv, NEW s \in Session, SubmitCount(s) PROVE NumberInv'
<1> DEFINE a == tx[s].ask
           y == YearOfAsk(a)
<1>1. pc[s] = "count" /\ tx[s] \in SubmitTx
  BY DEF SubmitCount, TypeInv, TypeOK, TxOK, SubmitPoints
<1>2. a \in Asks /\ y \in Nat
  BY <1>1, AskTerms DEF SubmitTx
<1>3. CountForYear(DOMAIN requests, y) \in Nat
  BY CountNat DEF TypeInv
<1>4. /\ pc'[s] = "insert" /\ tx'[s].ask = a
      /\ tx'[s].number = <<y, CountForYear(DOMAIN requests, y) + 1>>
  BY <1>1 DEF SubmitCount, TypeInv, TypeOK, NextNumber, SubmitTx
<1>5. requests' = requests
  BY DEF SubmitCount, stored
<1>6. PendingNumber(s)' /\ ReservedNumber(s)'
  BY <1>3, <1>4, <1>5 DEF PendingNumber, ReservedNumber
<1>7. QED BY <1>5, <1>6, NumberLocal DEF SubmitCount

\* Inserting: the unique constraint lets the number through only when nobody
\* else holds or committed it.
LEMMA NumberOfInsert ==
  ASSUME TypeInv, NumberInv, NEW s \in Session, SubmitInsert(s) PROVE NumberInv'
<1>1. requests' = requests /\ pc[s] = "insert"
  BY DEF SubmitInsert, stored
<1>2. CASE EndTx(s)
  <2>1. pc'[s] = "idle"
    BY <1>2 DEF EndTx, TypeInv, TypeOK
  <2>2. PendingNumber(s)' /\ ReservedNumber(s)'
    BY <2>1 DEF PendingNumber, ReservedNumber
  <2>3. QED BY <1>1, <1>2, <2>2, NumberLocal DEF EndTx
<1>3. CASE tx[s].number \notin DOMAIN requests /\ Goto(s, "inserted")
  <2>1. pc'[s] = "inserted" /\ tx' = tx
    BY <1>3 DEF Goto, TypeInv, TypeOK
  <2>2. PendingNumber(s)'
    BY <1>1, <2>1 DEF NumberInv, PendingNumber
  <2>3. \A o \in Session \ {s} : pc[o] = "inserted" => tx[o].number # tx[s].number
    BY <1>1 DEF SubmitInsert, Granted, WaitsFor, HoldsNumber
  <2>4. \A o \in Session \ {s} : pc'[o] = pc[o]
    BY <1>3 DEF Goto, TypeInv, TypeOK
  <2>5. ReservedNumber(s)'
    BY <1>1, <1>3, <2>1, <2>3, <2>4 DEF ReservedNumber
  <2>6. Contiguous' /\ \A o \in Session \ {s} : PendingNumber(o)'
    BY <1>1, <2>1, <2>4 DEF NumberInv, Contiguous, PendingNumber
  <2>7. ASSUME NEW o \in Session \ {s} PROVE ReservedNumber(o)'
    BY <1>1, <2>1, <2>3, <2>4 DEF NumberInv, ReservedNumber
  <2>8. QED BY <2>2, <2>5, <2>6, <2>7 DEF NumberInv
<1>4. QED BY <1>2, <1>3 DEF SubmitInsert

\* Committing: a number at most one beyond a gap-free year that is not taken
\* is exactly the next one.
LEMMA NumberOfCommit ==
  ASSUME TypeInv, NumberInv, NEW s \in Session, SubmitCommit(s) PROVE NumberInv'
<1> DEFINE a == tx[s].ask
           y == YearOfAsk(a)
           count(z) == CountForYear(DOMAIN requests, z)
<1>1. pc[s] = "inserted" /\ tx[s] \in SubmitTx
  BY DEF SubmitCommit, TypeInv, TypeOK, TxOK, SubmitPoints
<1>2. a \in Asks /\ y \in Nat
  BY <1>1, AskTerms DEF SubmitTx
<1>3. \A z : count(z) \in Nat
  BY CountNat DEF TypeInv
<1>4. PICK k \in 1 .. (count(y) + 1) : tx[s].number = <<y, k>>
  BY <1>1 DEF NumberInv, PendingNumber
<1>5. <<y, k>> \notin DOMAIN requests
  BY <1>1, <1>4 DEF NumberInv, ReservedNumber
<1>6. OfYear(DOMAIN requests, y) = {y} \X (1 .. count(y))
  BY <1>2 DEF NumberInv, Contiguous
<1>7. k = count(y) + 1
  <2>1. <<y, k>> \notin {y} \X (1 .. count(y))
    BY <1>5, <1>6 DEF OfYear
  <2>2. k \notin 1 .. count(y)
    BY <2>1
  <2>3. QED BY <1>3, <1>4, <2>2
<1>8. DOMAIN requests' = DOMAIN requests \cup {<<y, k>>}
  BY <1>4 DEF SubmitCommit, Put
<1>9. \A z : /\ OfYear(DOMAIN requests', z)
                  = OfYear(DOMAIN requests, z) \cup (IF y = z THEN {<<y, k>>} ELSE {})
             /\ CountForYear(DOMAIN requests', z) = count(z) + (IF y = z THEN 1 ELSE 0)
  BY <1>5, <1>8, CountGrows DEF TypeInv
<1>10. ASSUME NEW z \in Nat
       PROVE  OfYear(DOMAIN requests', z) = {z} \X (1 .. CountForYear(DOMAIN requests', z))
  <2>1. CASE z # y
    <3>1. OfYear(DOMAIN requests', z) = OfYear(DOMAIN requests, z)
      BY <1>9, <2>1
    <3>2. CountForYear(DOMAIN requests', z) = count(z)
      BY <1>3, <1>9, <2>1
    <3>3. QED BY <3>1, <3>2 DEF NumberInv, Contiguous
  <2>2. CASE z = y
    <3>1. OfYear(DOMAIN requests', y) = ({y} \X (1 .. count(y))) \cup {<<y, count(y) + 1>>}
      BY <1>6, <1>7, <1>9
    <3>2. CountForYear(DOMAIN requests', y) = count(y) + 1
      BY <1>9
    <3>3. 1 .. (count(y) + 1) = (1 .. count(y)) \cup {count(y) + 1}
      BY <1>3
    <3>4. ({y} \X (1 .. count(y))) \cup {<<y, count(y) + 1>>}
            = {y} \X ((1 .. count(y)) \cup {count(y) + 1})
      OBVIOUS
    <3>5. QED BY <2>2, <3>1, <3>2, <3>3, <3>4
  <2>3. QED BY <2>1, <2>2
<1>11. pc'[s] = "idle" /\ \A o \in Session \ {s} : pc'[o] = pc[o] /\ tx'[o] = tx[o]
  BY DEF SubmitCommit, EndTx, TypeInv, TypeOK
<1>12. ASSUME NEW o \in Session PROVE PendingNumber(o)'
  <2>1. CASE o = s
    BY <1>11, <2>1 DEF PendingNumber
  <2>2. CASE o # s
    <3>1. \A z : CountForYear(DOMAIN requests', z) \in {count(z), count(z) + 1}
      BY <1>3, <1>9
    <3>2. \A z : 1 .. (count(z) + 1) \subseteq 1 .. (CountForYear(DOMAIN requests', z) + 1)
      BY <1>3, <3>1
    <3>3. PendingNumber(o)
      BY DEF NumberInv
    <3>4. QED BY <1>11, <2>2, <3>2, <3>3 DEF PendingNumber
  <2>3. QED BY <2>1, <2>2
<1>13. ASSUME NEW o \in Session PROVE ReservedNumber(o)'
  <2>1. CASE o = s
    BY <1>11, <2>1 DEF ReservedNumber
  <2>2. CASE o # s
    <3>1. pc[o] = "inserted" => tx[o].number # tx[s].number
      BY <1>1, <2>2 DEF NumberInv, ReservedNumber
    <3>2. QED BY <1>4, <1>8, <1>11, <2>2, <3>1 DEF NumberInv, ReservedNumber
  <2>3. QED BY <2>1, <2>2
<1>14. QED BY <1>10, <1>12, <1>13 DEF NumberInv, Contiguous

\* Every other step commits no request and gives its session no number.
LEMMA NumberOfOther ==
  ASSUME TypeInv, NumberInv, NEW s \in Session,
         \/ \E a \in Asks : SubmitCheck(s, a)
         \/ \E n \in DOMAIN requests, v \in Verdicts : ReadPending(s, n, v)
         \/ SubmitBalance(s) \/ SubmitCreate(s)
         \/ RuleUpdate(s) \/ ApproveTally(s) \/ ApproveBook(s) \/ RuleCommit(s)
         \/ Abort(s)
  PROVE  NumberInv'
<1>1. DOMAIN requests' = DOMAIN requests
  BY DEF stored, SubmitCheck, ReadPending, SubmitBalance, SubmitCreate, RuleUpdate,
         ApproveTally, ApproveBook, RuleCommit, Abort
<1>2. pc'[s] \notin {"insert", "inserted"}
  BY DEF TypeInv, TypeOK, SubmitCheck, ReadPending, SubmitBalance, SubmitCreate, RuleUpdate,
         ApproveTally, ApproveBook, RuleCommit, Abort, EndTx, Goto
<1>3. \A o \in Session \ {s} : pc'[o] = pc[o] /\ tx'[o] = tx[o]
  BY DEF TypeInv, TypeOK, SubmitCheck, ReadPending, SubmitBalance, SubmitCreate, RuleUpdate,
         ApproveTally, ApproveBook, RuleCommit, Abort, EndTx, Goto
<1>4. PendingNumber(s)' /\ ReservedNumber(s)'
  BY <1>2 DEF PendingNumber, ReservedNumber
<1>5. QED BY <1>1, <1>3, <1>4, NumberLocal

\* NumberInv is inductive relative to the types.
LEMMA NumberStep == TypeInv /\ NumberInv /\ [Next]_vars => NumberInv'
<1>1. CASE UNCHANGED vars
  BY <1>1 DEF NumberInv, Contiguous, PendingNumber, ReservedNumber, vars
<1>2. ASSUME TypeInv, NumberInv, Next PROVE NumberInv'
  BY <1>2, NextCases, NumberOfCount, NumberOfInsert, NumberOfCommit, NumberOfOther
<1>3. QED BY <1>1, <1>2

\* The inductive form of gap-free numbering.
LEMMA NumberInvariant == Spec => []NumberInv
BY NumberInit, NumberStep, TypeInvariant, PTL DEF Spec

\* However submissions race, the requests of a year are numbered 1 .. n.
THEOREM NumbersAreContiguous == Spec => []NumbersContiguous
<1>1. TypeInv /\ NumberInv => NumbersContiguous
  <2>1. TypeInv => \A n \in DOMAIN requests : n[1] \in Nat
    BY DEF TypeInv, TypeOK, NumberType
  <2>2. QED BY <2>1 DEF NumberInv, Contiguous, NumbersContiguous
<1>2. QED BY <1>1, TypeInvariant, NumberInvariant, PTL

-----------------------------------------------------------------------------
(* Balances.                                                               *)

\* A submission past its balance check either found the row committed or
\* carries it in its own transaction.
HasBalance(s) ==
  pc[s] \in {"count", "insert", "inserted"} /\ ~tx[s].fresh => KeyOf(tx[s].ask) \in DOMAIN balances

BalanceInv == EveryRequestHasBalance /\ \A s \in Session : HasBalance(s)

\* No step loses a balance row.
LEMMA BalancesStay ==
  ASSUME TypeInv, [Next]_vars
  PROVE  DOMAIN balances \subseteq DOMAIN balances'
<1>1. CASE UNCHANGED vars
  BY <1>1 DEF vars
<1>2. ASSUME Next PROVE DOMAIN balances \subseteq DOMAIN balances'
  <2>1. PICK s \in Session :
           \/ UNCHANGED balances
           \/ SubmitCommit(s) \/ RuleCommit(s)
    BY <1>2, NextCases DEF stored, SubmitCheck, ReadPending, SubmitBalance, SubmitCreate,
         SubmitCount, SubmitInsert, RuleUpdate, ApproveTally, ApproveBook, Abort
  <2>2. CASE SubmitCommit(s)
    BY <2>2 DEF SubmitCommit, NewBalances, Put
  <2>3. CASE RuleCommit(s)
    BY <2>3 DEF RuleCommit, BookedBalances
  <2>4. QED BY <2>1, <2>2, <2>3
<1>3. QED BY <1>1, <1>2

\* A submission keeps its claim on a balance row while it runs.
LEMMA BalanceOfSession ==
  ASSUME TypeInv, BalanceInv, Next, NEW o \in Session PROVE HasBalance(o)'
<1>1. DOMAIN balances \subseteq DOMAIN balances'
  BY BalancesStay
<1>2. HasBalance(o)
  BY DEF BalanceInv
<1>3. CASE pc'[o] = pc[o] /\ tx'[o] = tx[o]
  BY <1>1, <1>2, <1>3 DEF HasBalance
<1>4. CASE pc'[o] \notin {"count", "insert", "inserted"}
  BY <1>4 DEF HasBalance
<1>5. PICK s \in Session :
        \/ \E a \in Asks : SubmitCheck(s, a)
        \/ \E n \in DOMAIN requests, v \in Verdicts : ReadPending(s, n, v)
        \/ SubmitBalance(s) \/ SubmitCreate(s) \/ SubmitCount(s) \/ SubmitInsert(s)
        \/ SubmitCommit(s)
        \/ RuleUpdate(s) \/ ApproveTally(s) \/ ApproveBook(s) \/ RuleCommit(s)
        \/ Abort(s)
  BY NextCases
<1>6. o # s => pc'[o] = pc[o] /\ tx'[o] = tx[o]
  BY <1>5 DEF TypeInv, TypeOK, SubmitCheck, ReadPending, SubmitBalance, SubmitCreate,
       SubmitCount, SubmitInsert, SubmitCommit, RuleUpdate, ApproveTally, ApproveBook,
       RuleCommit, Abort, EndTx, Goto
<1>7. CASE SubmitBalance(s)
  <2>1. tx[s] \in SubmitTx
    BY <1>7 DEF SubmitBalance, TypeInv, TypeOK, TxOK, SubmitPoints
  <2>2. pc'[s] # "count" \/ (KeyOf(tx[s].ask) \in DOMAIN balances /\ tx' = tx)
    BY <1>7 DEF SubmitBalance, Goto, EndTx, TypeInv, TypeOK
  <2>3. pc'[s] \notin {"insert", "inserted"}
    BY <1>7 DEF SubmitBalance, Goto, EndTx, TypeInv, TypeOK
  <2>4. QED BY <1>1, <1>3, <1>6, <2>2, <2>3 DEF HasBalance
<1>8. CASE SubmitCreate(s)
  <2>1. tx[s] \in SubmitTx
    BY <1>8 DEF SubmitCreate, TypeInv, TypeOK, TxOK, SubmitPoints
  <2>2. pc'[s] = "idle" \/ tx'[s].fresh
    BY <1>8, <2>1 DEF SubmitCreate, EndTx, TypeInv, TypeOK, SubmitTx
  <2>3. QED BY <1>3, <1>6, <2>2 DEF HasBalance
<1>9. CASE SubmitCount(s)
  <2>1. tx[s] \in SubmitTx /\ pc[s] = "count"
    BY <1>9 DEF SubmitCount, TypeInv, TypeOK, TxOK, SubmitPoints
  <2>2. tx'[s].ask = tx[s].ask /\ tx'[s].fresh = tx[s].fresh
    BY <1>9, <2>1 DEF SubmitCount, TypeInv, TypeOK, SubmitTx
  <2>3. QED BY <1>1, <1>2, <1>3, <1>6, <2>1, <2>2 DEF HasBalance
<1>10. CASE SubmitInsert(s)
  <2>1. pc[s] = "insert" /\ (pc'[s] = "idle" \/ tx' = tx)
    BY <1>10 DEF SubmitInsert, Goto, EndTx, TypeInv, TypeOK
  <2>2. QED BY <1>1, <1>2, <1>3, <1>6, <2>1 DEF HasBalance
<1>11. CASE \/ \E a \in Asks : SubmitCheck(s, a)
            \/ \E n \in DOMAIN requests, v \in Verdicts : ReadPending(s, n, v)
            \/ SubmitCommit(s)
            \/ RuleUpdate(s) \/ ApproveTally(s) \/ ApproveBook(s) \/ RuleCommit(s)
            \/ Abort(s)
  <2>1. pc'[s] \notin {"count", "insert", "inserted"}
    BY <1>11 DEF TypeInv, TypeOK, SubmitCheck, ReadPending, SubmitCommit, RuleUpdate,
         ApproveTally, ApproveBook, RuleCommit, Abort, EndTx, Goto
  <2>2. QED BY <1>3, <1>4, <1>6, <2>1
<1>12. QED BY <1>5, <1>7, <1>8, <1>9, <1>10, <1>11

\* The rows a step leaves in the request table ask what they asked before,
\* except the one row a commit adds.
LEMMA AsksStay ==
  ASSUME TypeInv, NumberInv, [Next]_vars
  PROVE  \A n \in DOMAIN requests :
           /\ n \in DOMAIN requests'
           /\ requests'[n].ask = requests[n].ask
           /\ requests'[n].status = "PENDING" => requests[n].status = "PENDING"
<1>1. CASE UNCHANGED requests
  BY <1>1
<1>2. ASSUME NEW s \in Session, SubmitCommit(s)
      PROVE  \A n \in DOMAIN requests : n \in DOMAIN requests' /\ requests'[n] = requests[n]
  <2>1. tx[s].number \notin DOMAIN requests
    BY <1>2 DEF SubmitCommit, NumberInv, ReservedNumber
  <2>2. QED BY <1>2, <2>1 DEF SubmitCommit, Put
<1>3. ASSUME NEW s \in Session, RuleCommit(s), NEW n \in DOMAIN requests
      PROVE  /\ n \in DOMAIN requests'
             /\ requests'[n].ask = requests[n].ask
             /\ requests'[n].status = "PENDING" => requests[n].status = "PENDING"
  <2>1. tx[s] \in RuleTx /\ requests[n] \in RowType
    BY <1>3 DEF RuleCommit, TypeInv, TypeOK, TxOK, RulePoints, SubmitPoints
  <2>2. tx[s].verdict # "PENDING"
    BY <2>1 DEF RuleTx, Verdicts
  <2>3. requests'[n] = IF n = tx[s].number
                       THEN [requests[n] EXCEPT !.status = tx[s].verdict,
                                                !.version = tx[s].version + 1]
                       ELSE requests[n]
    BY <1>3 DEF RuleCommit
  <2>4. DOMAIN requests' = DOMAIN requests
    BY <1>3 DEF RuleCommit
  <2>5. QED BY <2>1, <2>2, <2>3, <2>4 DEF RowType
<1>4. CASE Next
  <2>1. PICK s \in Session : UNCHANGED requests \/ SubmitCommit(s) \/ RuleCommit(s)
    BY <1>4, NextCases DEF stored, SubmitCheck, ReadPending, SubmitBalance, SubmitCreate,
         SubmitCount, SubmitInsert, RuleUpdate, ApproveTally, ApproveBook, Abort
  <2>2. QED BY <1>1, <1>2, <1>3, <2>1
<1>5. QED BY <1>1, <1>4 DEF vars

\* BalanceInv is inductive relative to the types and the numbers.
LEMMA BalanceStep == TypeInv /\ NumberInv /\ BalanceInv /\ [Next]_vars => BalanceInv'
<1> SUFFICES ASSUME TypeInv, NumberInv, BalanceInv, [Next]_vars PROVE BalanceInv'
  OBVIOUS
<1>1. CASE UNCHANGED vars
  BY <1>1 DEF BalanceInv, EveryRequestHasBalance, HasBalance, KeyOfRequest, vars
<1>2. CASE Next
  <2>1. DOMAIN balances \subseteq DOMAIN balances'
    BY BalancesStay
  <2>2. \A n \in DOMAIN requests : KeyOfRequest(n)' = KeyOfRequest(n)
    BY AsksStay DEF KeyOfRequest
  <2>3. \A n \in DOMAIN requests : KeyOfRequest(n)' \in DOMAIN balances'
    BY <2>1, <2>2 DEF BalanceInv, EveryRequestHasBalance
  <2>4. PICK s \in Session : DOMAIN requests' = DOMAIN requests \/ SubmitCommit(s)
    BY <1>2, NextCases DEF stored, SubmitCheck, ReadPending, SubmitBalance, SubmitCreate,
         SubmitCount, SubmitInsert, RuleUpdate, ApproveTally, ApproveBook, RuleCommit, Abort
  <2>5. CASE SubmitCommit(s)
    <3>1. DOMAIN requests' = DOMAIN requests \cup {tx[s].number}
      BY <2>5 DEF SubmitCommit, Put
    <3>2. KeyOf(requests'[tx[s].number].ask) = KeyOf(tx[s].ask)
      BY <2>5 DEF SubmitCommit, Put
    <3>3. KeyOf(tx[s].ask) \in DOMAIN balances'
      BY <2>5 DEF SubmitCommit, NewBalances, Put, BalanceInv, HasBalance
    <3>4. \A n \in DOMAIN requests' : KeyOfRequest(n)' \in DOMAIN balances'
      BY <2>3, <3>1, <3>2, <3>3 DEF KeyOfRequest
    <3>5. QED BY <1>2, <3>4, BalanceOfSession DEF BalanceInv, EveryRequestHasBalance
  <2>6. CASE DOMAIN requests' = DOMAIN requests
    BY <1>2, <2>3, <2>6, BalanceOfSession DEF BalanceInv, EveryRequestHasBalance
  <2>7. QED BY <2>4, <2>5, <2>6
<1>3. QED BY <1>1, <1>2

\* An approval always finds the balance row its request was checked against.
THEOREM RequestsHaveBalances == Spec => []EveryRequestHasBalance
<1>1. Init => BalanceInv
  BY DEF Init, BalanceInv, EveryRequestHasBalance, HasBalance
<1>2. BalanceInv => EveryRequestHasBalance
  BY DEF BalanceInv
<1>3. QED BY <1>1, <1>2, BalanceStep, TypeInvariant, NumberInvariant, PTL DEF Spec

-----------------------------------------------------------------------------
(* What a step may never do, and what the records say.                     *)

\* No step makes a request vanish, changes what was asked or reopens it: a
\* submission never commits over a number that is taken.
THEOREM RequestsNeverReopen == Spec => NeverReopened
<1>1. TypeInv /\ NumberInv /\ [Next]_vars =>
        [\A n \in DOMAIN requests :
           /\ n \in DOMAIN requests'
           /\ requests'[n].ask = requests[n].ask
           /\ requests'[n].status = "PENDING" => requests[n].status = "PENDING"]_vars
  BY AsksStay
<1>2. QED BY <1>1, TypeInvariant, NumberInvariant, PTL DEF Spec, NeverReopened

\* The locks are taken in the order request, balance, number, so of any group
\* of sessions one waits for nobody in the group.
THEOREM SessionsNeverWaitInACircle == Spec => []NoWaitCycle
<1>1. NoWaitCycle
  <2> SUFFICES ASSUME NEW S \in (SUBSET Session) \ {{}}
               PROVE  \E s \in S : \A o \in S : ~WaitsFor(s, o)
    BY DEF NoWaitCycle
  <2>1. \/ \E s \in S : pc[s] \notin {"update", "book", "create", "insert"}
        \/ /\ \A s \in S : pc[s] \in {"update", "book", "create", "insert"}
           /\ \E s \in S : pc[s] \in {"book", "insert"}
        \/ S # {} /\ \A s \in S : pc[s] \in {"update", "create"}
    <3>1. S # {}
      OBVIOUS
    <3>2. CASE \E s \in S : pc[s] \notin {"update", "book", "create", "insert"}
      BY <3>2
    <3>3. CASE \A s \in S : pc[s] \in {"update", "book", "create", "insert"}
      BY <3>1, <3>3
    <3>4. QED BY <3>2, <3>3
  <2> USE DEF WaitsFor, HoldsRequest, HoldsBalance, HoldsNewBalance, HoldsNumber
  <2>2. CASE \E s \in S : pc[s] \notin {"update", "book", "create", "insert"}
    BY <2>2
  <2>3. CASE /\ \A s \in S : pc[s] \in {"update", "book", "create", "insert"}
             /\ \E s \in S : pc[s] \in {"book", "insert"}
    BY <2>3
  <2>4. CASE S # {} /\ \A s \in S : pc[s] \in {"update", "create"}
    BY <2>4
  <2>5. QED BY <2>1, <2>2, <2>3, <2>4
<1>2. QED BY <1>1, PTL

\* The versions a decision read and the rows carry are at least 1.
VersionInv ==
  /\ \A n \in DOMAIN requests : requests[n].version >= 1
  /\ \A s \in Session : pc[s] \in RulePoints => tx[s].version >= 1

\* A committed request was announced and audited.
RecordInv == RecordsAgree /\ VersionInv

\* A step that commits nothing keeps the records when what its own session
\* read of the version is a version.
LEMMA RecordsLocal ==
  ASSUME RecordInv, NEW s \in Session, UNCHANGED stored,
         \A o \in Session \ {s} : pc'[o] = pc[o] /\ tx'[o] = tx[o],
         pc'[s] \in RulePoints => tx'[s].version >= 1
  PROVE  RecordInv'
<1>1. RecordsAgree'
  BY DEF RecordInv, RecordsAgree, stored
<1>2. VersionInv'
  BY DEF RecordInv, VersionInv, stored
<1>3. QED BY <1>1, <1>2 DEF RecordInv

\* A new request is pending, at version 1, and audited as such.
LEMMA RecordsOfCommit ==
  ASSUME TypeInv, RecordInv, NEW s \in Session, SubmitCommit(s) PROVE RecordInv'
<1> DEFINE n == tx[s].number
           row == [ask |-> tx[s].ask, days |-> UnitsOf(tx[s].ask), status |-> "PENDING",
                   version |-> 1]
<1>1. /\ DOMAIN requests' = DOMAIN requests \cup {n}
      /\ requests'[n] = row /\ trail'[n] = <<"PENDING">>
      /\ \A m \in DOMAIN requests : m # n =>
           requests'[m] = requests[m] /\ trail'[m] = trail[m] /\ outbox'[m] = outbox[m]
  BY DEF SubmitCommit, Put, TypeInv, TypeOK
<1>2. RecordsAgree'
  <2>1. <<"PENDING">>[Len(<<"PENDING">>)] = "PENDING"
    OBVIOUS
  <2>2. QED BY <1>1, <2>1 DEF RecordInv, RecordsAgree, DecisionMail
<1>3. VersionInv'
  <2>1. pc'[s] = "idle" /\ \A o \in Session \ {s} : pc'[o] = pc[o] /\ tx'[o] = tx[o]
    BY DEF SubmitCommit, EndTx, TypeInv, TypeOK
  <2>2. QED BY <1>1, <2>1 DEF RecordInv, VersionInv, RulePoints
<1>4. QED BY <1>2, <1>3 DEF RecordInv

\* A decision writes the status it audits and announces, whatever other
\* decisions of the request were committed since it was read.
LEMMA RecordsOfRuling ==
  ASSUME TypeInv, RecordInv, NEW s \in Session, RuleCommit(s) PROVE RecordInv'
<1> DEFINE n == tx[s].number
           v == tx[s].verdict
<1>1. /\ tx[s] \in RuleTx /\ v \in Verdicts /\ n \in DOMAIN requests /\ requests[n] \in RowType
      /\ tx[s].version \in Nat /\ tx[s].version >= 1
  BY DEF RuleCommit, TypeInv, TypeOK, TxOK, RulePoints, SubmitPoints, RuleTx, RecordInv, VersionInv
<1>2. trail[n] \in Seq(Statuses) /\ outbox[n] \in Seq(Mails)
  BY <1>1 DEF TypeInv, TypeOK
<1>3. /\ DOMAIN requests' = DOMAIN requests
      /\ requests'[n].status = v /\ requests'[n].version = tx[s].version + 1
      /\ trail'[n] = Append(trail[n], v) /\ outbox'[n] = outbox[n] \o DecisionMails(v)
      /\ \A m \in DOMAIN requests : m # n =>
           requests'[m] = requests[m] /\ trail'[m] = trail[m] /\ outbox'[m] = outbox[m]
  BY <1>1 DEF RuleCommit, TypeInv, TypeOK, RowType
<1>4. trail'[n][Len(trail'[n])] = v
  <2>1. v \in Statuses
    BY <1>1 DEF Statuses
  <2>2. QED BY <1>2, <1>3, <2>1, SMTT(30)
<1>5. v \in {"APPROVED", "REJECTED"} => outbox'[n][Len(outbox'[n])] = DecisionMail(v)
  <2>1. v \in {"APPROVED", "REJECTED"} => DecisionMails(v) = <<DecisionMail(v)>>
    BY DEF DecisionMails, DecisionMail
  <2>3. \A sq \in Seq(Mails), m \in Mails : (sq \o <<m>>)[Len(sq \o <<m>>)] = m
    OBVIOUS
  <2>4. v \in {"APPROVED", "REJECTED"} => DecisionMail(v) \in Mails
    BY DEF DecisionMail, Mails
  <2>5. ASSUME v \in {"APPROVED", "REJECTED"}
        PROVE  outbox'[n] = outbox[n] \o <<DecisionMail(v)>> /\ DecisionMail(v) \in Mails
    BY <1>3, <2>1, <2>4, <2>5
  <2>6. QED BY <1>2, <2>3, <2>5
<1>6. RecordsAgree'
  <2>1. v # "PENDING" /\ tx[s].version + 1 # 1
    BY <1>1 DEF Verdicts
  <2>2. ASSUME NEW m \in DOMAIN requests, m # n
        PROVE  /\ trail'[m][Len(trail'[m])] = requests'[m].status
               /\ requests'[m].status \in {"APPROVED", "REJECTED"} =>
                    outbox'[m][Len(outbox'[m])] = DecisionMail(requests'[m].status)
               /\ (requests'[m].version = 1) <=> (requests'[m].status = "PENDING")
    <3>1. requests'[m] = requests[m] /\ trail'[m] = trail[m] /\ outbox'[m] = outbox[m]
      BY <1>3, <2>2
    <3>2. QED BY <3>1 DEF RecordInv, RecordsAgree
  <2>3. (requests'[n].version = 1) <=> (requests'[n].status = "PENDING")
    BY <1>3, <2>1
  <2>4. QED BY <1>3, <1>4, <1>5, <2>2, <2>3 DEF RecordsAgree
<1>7. VersionInv'
  <2>1. pc'[s] = "idle" /\ \A o \in Session \ {s} : pc'[o] = pc[o] /\ tx'[o] = tx[o]
    BY DEF RuleCommit, EndTx, TypeInv, TypeOK
  <2>2. tx[s].version + 1 >= 1
    BY <1>1
  <2>3. QED BY <1>3, <2>1, <2>2 DEF RecordInv, VersionInv, RulePoints
<1>8. QED BY <1>6, <1>7 DEF RecordInv

\* RecordInv is inductive relative to the types.
LEMMA RecordStep == TypeInv /\ RecordInv /\ [Next]_vars => RecordInv'
<1>1. CASE UNCHANGED vars
  BY <1>1 DEF RecordInv, RecordsAgree, VersionInv, vars
<1>2. ASSUME TypeInv, RecordInv, NEW s \in Session,
             \/ \E a \in Asks : SubmitCheck(s, a)
             \/ \E n \in DOMAIN requests, v \in Verdicts : ReadPending(s, n, v)
             \/ SubmitBalance(s) \/ SubmitCreate(s) \/ SubmitCount(s) \/ SubmitInsert(s)
             \/ RuleUpdate(s) \/ ApproveTally(s) \/ ApproveBook(s) \/ Abort(s)
      PROVE  RecordInv'
  <2>1. UNCHANGED stored
    BY <1>2 DEF SubmitCheck, ReadPending, SubmitBalance, SubmitCreate, SubmitCount,
         SubmitInsert, RuleUpdate, ApproveTally, ApproveBook, Abort
  <2>2. \A o \in Session \ {s} : pc'[o] = pc[o] /\ tx'[o] = tx[o]
    BY <1>2 DEF TypeInv, TypeOK, SubmitCheck, ReadPending, SubmitBalance, SubmitCreate,
         SubmitCount, SubmitInsert, RuleUpdate, ApproveTally, ApproveBook, Abort, EndTx, Goto
  <2>3. CASE pc'[s] \notin RulePoints
    BY <1>2, <2>1, <2>2, <2>3, RecordsLocal
  <2>4. CASE \E n \in DOMAIN requests, v \in Verdicts : ReadPending(s, n, v)
    <3>1. tx'[s].version >= 1
      BY <1>2, <2>4 DEF ReadPending, RecordInv, VersionInv, TypeInv, TypeOK
    <3>2. QED BY <1>2, <2>1, <2>2, <3>1, RecordsLocal
  <2>5. CASE RuleUpdate(s) \/ ApproveTally(s) \/ ApproveBook(s)
    <3>1. pc[s] \in RulePoints /\ tx[s] \in RuleTx
      BY <1>2, <2>5 DEF RuleUpdate, ApproveTally, ApproveBook, RulePoints, SubmitPoints,
           TypeInv, TypeOK, TxOK
    <3>2. tx'[s].version = tx[s].version
      BY <1>2, <2>5, <3>1 DEF RuleUpdate, ApproveTally, ApproveBook, Goto, TypeInv, TypeOK, RuleTx
    <3>3. tx'[s].version >= 1
      BY <1>2, <3>1, <3>2 DEF RecordInv, VersionInv
    <3>4. QED BY <1>2, <2>1, <2>2, <3>3, RecordsLocal
  <2>6. \/ pc'[s] \notin RulePoints
        \/ \E n \in DOMAIN requests, v \in Verdicts : ReadPending(s, n, v)
        \/ RuleUpdate(s) \/ ApproveTally(s) \/ ApproveBook(s)
    BY <1>2 DEF TypeInv, TypeOK, SubmitCheck, SubmitBalance, SubmitCreate, SubmitCount,
         SubmitInsert, Abort, EndTx, Goto, RulePoints
  <2>7. QED BY <2>3, <2>4, <2>5, <2>6
<1>3. ASSUME TypeInv, RecordInv, Next PROVE RecordInv'
  BY <1>2, <1>3, NextCases, RecordsOfCommit, RecordsOfRuling
<1>4. QED BY <1>1, <1>3

\* However decisions race, status, audit trail, last mail and version of a
\* request tell one story.
THEOREM RecordsAlwaysAgree == Spec => []RecordsAgree
<1>1. Init => RecordInv
  BY DEF Init, RecordInv, RecordsAgree, VersionInv, RulePoints
<1>2. RecordInv => RecordsAgree
  BY DEF RecordInv
<1>3. QED BY <1>1, <1>2, RecordStep, TypeInvariant, PTL DEF Spec

-----------------------------------------------------------------------------
(* What approvals grant.                                                   *)

Drawing(k) == {n \in DOMAIN requests : KeyOfRequest(n) = k}

Granting == [n \in DOMAIN requests |-> requests[n].days * Approvals(n)]

\* The units that the audited approvals of a balance grant.
Backing(k) == Total(Granting, Drawing(k))

\* A sum written out in a property is one of these.
LEMMA BackingIs ==
  ASSUME IsFiniteSet(DOMAIN requests), NEW k
  PROVE  MapThenSumSet(LAMBDA n : requests[n].days * Approvals(n),
                       {n \in DOMAIN requests : KeyOfRequest(n) = k}) = Backing(k)
<1> DEFINE S == Drawing(k)
           Is(h) == h = [s \in SUBSET S |->
                           IF s = {} THEN 0
                           ELSE requests[AnyOf(s)].days * Approvals(AnyOf(s)) + h[s \ {AnyOf(s)}]]
<1>1. IsFiniteSet(S)
  BY FS_Subset DEF Drawing
<1>2. PICK g : Totals(g, Granting, S)
  BY <1>1, TotalsExist
<1>3. \A s \in SUBSET S : s # {} => Granting[AnyOf(s)] = requests[AnyOf(s)].days * Approvals(AnyOf(s))
  BY DEF Drawing, Granting, AnyOf
<1>4. Is(g)
  BY <1>2, <1>3 DEF Totals
<1>5. MapThenSumSet(LAMBDA n : requests[n].days * Approvals(n), S) = (CHOOSE h : Is(h))[S]
  BY DEF MapThenSumSet, MapThenFoldSet, AnyOf
<1>6. PICK h : h = (CHOOSE i : Is(i)) /\ Is(h)
  BY <1>4
<1>7. Totals(h, Granting, S)
  <2> DEFINE e(s) == IF s = {} THEN 0 ELSE Granting[AnyOf(s)] + h[s \ {AnyOf(s)}]
             d(s) == IF s = {} THEN 0
                     ELSE requests[AnyOf(s)].days * Approvals(AnyOf(s)) + h[s \ {AnyOf(s)}]
  <2>1. \A s \in SUBSET S : d(s) = e(s)
    <3> HIDE DEF S
    <3> QED BY <1>3
  <2>2. h = [s \in SUBSET S |-> d(s)]
    BY <1>6
  <2> HIDE DEF d, S
  <2>3. h = [s \in SUBSET S |-> e(s)]
    <3> HIDE DEF e
    <3> QED BY <2>1, <2>2
  <2> QED BY <2>3 DEF Totals
<1> QED BY <1>1, <1>5, <1>6, <1>7, TotalIs DEF Backing, Drawing

\* The approvals an audit trail records.
ApprovedIn(t) == Cardinality({i \in DOMAIN t : t[i] = "APPROVED"})

\* Every further record adds one approval or none.
LEMMA ApprovedInAppend ==
  ASSUME NEW t \in Seq(Statuses)
  PROVE  /\ ApprovedIn(t) \in Nat
         /\ \A v \in Statuses :
              ApprovedIn(Append(t, v)) = ApprovedIn(t) + (IF v = "APPROVED" THEN 1 ELSE 0)
<1> DEFINE A == {i \in DOMAIN t : t[i] = "APPROVED"}
<1>1. Len(t) \in Nat /\ DOMAIN t = 1 .. Len(t)
  OBVIOUS
<1>2. IsFiniteSet(A)
  <2>1. IsFiniteSet(DOMAIN t)
    BY <1>1, FS_Interval
  <2> QED BY <2>1, FS_Subset
<1>3. ApprovedIn(t) \in Nat
  BY <1>2, FS_CardinalityType DEF ApprovedIn
<1>4. ASSUME NEW v \in Statuses
      PROVE  ApprovedIn(Append(t, v)) = ApprovedIn(t) + (IF v = "APPROVED" THEN 1 ELSE 0)
  <2> DEFINE last == Len(t) + 1
             B == {i \in DOMAIN Append(t, v) : Append(t, v)[i] = "APPROVED"}
  <2>1. DOMAIN Append(t, v) = 1 .. last
    BY <1>1
  <2>2. \A i \in 1 .. last : Append(t, v)[i] = IF i = last THEN v ELSE t[i]
    BY <1>1
  <2>3. 1 .. last = (1 .. Len(t)) \cup {last} /\ last \notin 1 .. Len(t)
    BY <1>1
  <2>4. B = A \cup (IF v = "APPROVED" THEN {last} ELSE {}) /\ last \notin A
    BY <1>1, <2>1, <2>2, <2>3
  <2>5. Cardinality(A \cup {last}) = Cardinality(A) + 1
    BY <1>2, <2>4, FS_AddElement
  <2>6. Cardinality(A) \in Nat /\ A \cup {} = A
    BY <1>2, FS_CardinalityType
  <2>7. ApprovedIn(Append(t, v)) = Cardinality(B) /\ ApprovedIn(t) = Cardinality(A)
    BY DEF ApprovedIn
  <2> HIDE DEF A, B, last
  <2>8. CASE v = "APPROVED"
    BY <2>4, <2>5, <2>7, <2>8
  <2>9. CASE v # "APPROVED"
    BY <2>4, <2>6, <2>7, <2>9
  <2> QED BY <2>8, <2>9
<1> QED BY <1>3, <1>4

\* What a request of the table is worth to its balance.
LEMMA GrantingIs ==
  ASSUME TypeInv, NEW n \in DOMAIN requests
  PROVE  /\ Granting[n] = requests[n].days * ApprovedIn(trail[n])
         /\ requests[n].days \in Nat /\ ApprovedIn(trail[n]) \in Nat /\ Granting[n] \in Nat
<1>1. requests[n].days \in Nat /\ ApprovedIn(trail[n]) \in Nat
  BY ApprovedInAppend DEF TypeInv, TypeOK, RowType
<1>2. Granting[n] = requests[n].days * ApprovedIn(trail[n])
  BY DEF Granting, Approvals, ApprovedIn
<1> QED BY <1>1, <1>2

\* What approvals grant is a natural number.
LEMMA BackingNat ==
  ASSUME TypeInv, NEW k
  PROVE  IsFiniteSet(Drawing(k)) /\ Backing(k) \in Nat
<1>1. IsFiniteSet(Drawing(k))
  BY FS_Subset DEF TypeInv, Drawing
<1>2. \A n \in Drawing(k) : Granting[n] \in Nat
  BY GrantingIs DEF Drawing
<1>3. Backing(k) \in Int
  BY <1>1, <1>2, TotalRemove DEF Backing
<1>4. Total(Granting, {}) <= Total(Granting, Drawing(k))
  BY <1>1, <1>2, TotalGrows
<1> QED BY <1>1, <1>3, <1>4, TotalEmpty DEF Backing

\* What a step does to the requests that draw on a balance.
LEMMA BackingStep ==
  ASSUME TypeInv, TypeInv', NumberInv, NEW s \in Session, NEW k
  PROVE  /\ Backing(k)' \in Nat
         /\ SubmitCommit(s) => Backing(k) <= Backing(k)'
         /\ RuleCommit(s) =>
              Backing(k)' = Backing(k)
                + (IF tx[s].verdict = "APPROVED" /\ k = KeyOfRequest(tx[s].number)
                   THEN requests[tx[s].number].days ELSE 0)
<1>1. Backing(k) \in Nat /\ IsFiniteSet(Drawing(k))
  BY BackingNat
<1>2. IsFiniteSet(Drawing(k)')
  BY FS_Subset DEF TypeInv, Drawing
<1>3. \A n \in DOMAIN requests' :
         /\ Granting'[n] = requests'[n].days * ApprovedIn(trail'[n])
         /\ Granting'[n] \in Nat
  <2>1. \A n \in DOMAIN requests' : requests'[n].days \in Nat /\ ApprovedIn(trail'[n]) \in Nat
    BY ApprovedInAppend DEF TypeInv, TypeOK, RowType
  <2>2. \A n \in DOMAIN requests' : Granting'[n] = requests'[n].days * ApprovedIn(trail'[n])
    BY DEF Granting, Approvals, ApprovedIn
  <2> QED BY <2>1, <2>2
<1>4. ASSUME SubmitCommit(s) PROVE Backing(k) <= Backing(k)'
  <2>1. tx[s].number \notin DOMAIN requests
    BY <1>4 DEF SubmitCommit, NumberInv, ReservedNumber
  <2>2. \A n \in DOMAIN requests :
          n \in DOMAIN requests' /\ requests'[n] = requests[n] /\ trail'[n] = trail[n]
    BY <1>4, <2>1 DEF SubmitCommit, Put, TypeInv, TypeOK
  <2>3. Drawing(k) \in SUBSET Drawing(k)'
    BY <2>2 DEF Drawing, KeyOfRequest
  <2>4. \A n \in Drawing(k) : Granting[n] \in Int /\ Granting[n] <= Granting'[n]
    BY <1>3, <2>2, GrantingIs DEF Drawing
  <2>5. \A n \in Drawing(k)' : Granting'[n] \in Nat
    BY <1>3 DEF Drawing
  <2>6. Total(Granting, Drawing(k)) <= Total(Granting', Drawing(k)')
    BY <1>2, <2>3, <2>4, <2>5, TotalGrows
  <2> QED BY <2>6 DEF Backing
<1>5. ASSUME RuleCommit(s)
      PROVE  Backing(k)' = Backing(k)
                + (IF tx[s].verdict = "APPROVED" /\ k = KeyOfRequest(tx[s].number)
                   THEN requests[tx[s].number].days ELSE 0)
  <2> DEFINE m == tx[s].number
             v == tx[s].verdict
  <2>1. m \in DOMAIN requests /\ v \in Statuses
    BY <1>5 DEF RuleCommit, TypeInv, TypeOK, TxOK, RulePoints, SubmitPoints, RuleTx, Statuses
  <2>2. /\ DOMAIN requests' = DOMAIN requests
        /\ \A n \in DOMAIN requests :
              requests'[n].ask = requests[n].ask /\ requests'[n].days = requests[n].days
        /\ trail'[m] = Append(trail[m], v)
        /\ \A n \in DOMAIN requests : n # m => trail'[n] = trail[n]
    BY <1>5, <2>1 DEF RuleCommit, TypeInv, TypeOK, RowType
  <2>3. Drawing(k)' = Drawing(k)
    BY <2>2 DEF Drawing, KeyOfRequest
  <2>4. \A n \in DOMAIN requests : n # m => Granting'[n] = Granting[n]
    BY <1>3, <2>2, GrantingIs
  <2>5. Granting'[m] = Granting[m] + (IF v = "APPROVED" THEN requests[m].days ELSE 0)
    <3>1. trail[m] \in Seq(Statuses)
      BY <2>1 DEF TypeInv, TypeOK
    <3>2. ApprovedIn(trail'[m]) = ApprovedIn(trail[m]) + (IF v = "APPROVED" THEN 1 ELSE 0)
      BY <2>1, <2>2, <3>1, ApprovedInAppend
    <3>3. /\ Granting[m] = requests[m].days * ApprovedIn(trail[m])
          /\ requests[m].days \in Nat /\ ApprovedIn(trail[m]) \in Nat
      BY <2>1, GrantingIs
    <3>4. Granting'[m] = requests[m].days * ApprovedIn(trail'[m])
      BY <1>3, <2>1, <2>2
    <3>5. \A a, b \in Nat : a * (b + 1) = a * b + a /\ a * (b + 0) = a * b + 0
      OBVIOUS
    <3> HIDE DEF m, v
    <3> QED BY <3>2, <3>3, <3>4, <3>5
  <2>6. \A n \in Drawing(k) : Granting[n] \in Int /\ Granting'[n] \in Int
    BY <1>3, <2>2, GrantingIs DEF Drawing
  <2>7. Backing(k)' = Total(Granting', Drawing(k))
    BY <2>3 DEF Backing
  <2>8. m \in Drawing(k) <=> k = KeyOfRequest(m)
    BY <2>1 DEF Drawing
  <2>9. \A n \in Drawing(k) : n \in DOMAIN requests
    BY DEF Drawing
  <2> HIDE DEF m, v
  <2>10. CASE m \in Drawing(k)
    <3>1. Total(Granting', Drawing(k)) = Total(Granting, Drawing(k)) + (Granting'[m] - Granting[m])
      BY <1>1, <2>4, <2>6, <2>9, <2>10, TotalAt
    <3>2. Granting[m] \in Int /\ requests[m].days \in Nat
      BY <2>1, GrantingIs
    <3>3. Total(Granting, Drawing(k)) = Backing(k)
      BY DEF Backing
    <3>4. Backing(k)' = Backing(k) + (IF v = "APPROVED" THEN requests[m].days ELSE 0)
      BY <1>1, <2>5, <2>7, <3>1, <3>2, <3>3
    <3> QED BY <2>8, <2>10, <3>4 DEF m, v
  <2>11. CASE m \notin Drawing(k)
    <3>1. \A n \in Drawing(k) : Granting'[n] = Granting[n]
      BY <2>4, <2>9, <2>11
    <3>2. Total(Granting', Drawing(k)) = Total(Granting, Drawing(k))
      BY <1>1, <2>6, <3>1, TotalCompare
    <3> QED BY <1>1, <2>7, <2>8, <2>11, <3>2 DEF Backing, m, v
  <2> QED BY <2>10, <2>11
<1>6. Backing(k)' \in Nat
  <2>1. \A n \in Drawing(k)' : Granting'[n] \in Nat
    BY <1>3 DEF Drawing
  <2>2. Total(Granting', Drawing(k)') \in Int
    BY <1>2, <2>1, TotalRemove
  <2>3. Total(Granting', {}) <= Total(Granting', Drawing(k)')
    BY <1>2, <2>1, TotalGrows
  <2> QED BY <2>2, <2>3, TotalEmpty DEF Backing
<1> QED BY <1>4, <1>5, <1>6

\* What a decision read of a balance before it books is granted by approvals
\* already; bookings that overwrite each other lose units and add none.
SeenBacked(s) ==
  pc[s] = "book" \/ (pc[s] = "written" /\ tx[s].verdict = "APPROVED") =>
    tx[s].seen <= Backing(KeyOfRequest(tx[s].number))

BackedInv ==
  /\ \A k \in DOMAIN balances : balances[k] <= Backing(k)
  /\ \A s \in Session : SeenBacked(s)

\* A step that leaves the tables and the other sessions alone.
LEMMA BackedLocal ==
  ASSUME BackedInv, NEW s \in Session, UNCHANGED stored,
         \A o \in Session \ {s} : pc'[o] = pc[o] /\ tx'[o] = tx[o],
         SeenBacked(s)'
  PROVE  BackedInv'
<1>1. \A k : Backing(k)' = Backing(k)
  BY DEF stored, Backing, Granting, Approvals, Drawing, KeyOfRequest
<1>2. \A n : KeyOfRequest(n)' = KeyOfRequest(n)
  BY DEF stored, KeyOfRequest
<1>3. \A k \in DOMAIN balances' : balances'[k] <= Backing(k)'
  BY <1>1 DEF BackedInv, stored
<1>4. ASSUME NEW o \in Session PROVE SeenBacked(o)'
  BY <1>1, <1>2 DEF BackedInv, SeenBacked
<1> QED BY <1>3, <1>4 DEF BackedInv

\* A session that reads, waits or gives up.
LEMMA BackedOfOther ==
  ASSUME TypeInv, BackedInv, NEW s \in Session,
         \/ \E a \in Asks : SubmitCheck(s, a)
         \/ \E n \in DOMAIN requests, v \in Verdicts : ReadPending(s, n, v)
         \/ SubmitBalance(s) \/ SubmitCreate(s) \/ SubmitCount(s) \/ SubmitInsert(s)
         \/ RuleUpdate(s) \/ ApproveTally(s) \/ ApproveBook(s) \/ Abort(s)
  PROVE  BackedInv'
<1>1. UNCHANGED stored
  BY DEF SubmitCheck, ReadPending, SubmitBalance, SubmitCreate, SubmitCount, SubmitInsert,
         RuleUpdate, ApproveTally, ApproveBook, Abort
<1>2. \A o \in Session \ {s} : pc'[o] = pc[o] /\ tx'[o] = tx[o]
  BY DEF TypeInv, TypeOK, SubmitCheck, ReadPending, SubmitBalance, SubmitCreate, SubmitCount,
         SubmitInsert, RuleUpdate, ApproveTally, ApproveBook, Abort, EndTx, Goto
<1>3. \A k : Backing(k)' = Backing(k)
  BY <1>1 DEF stored, Backing, Granting, Approvals, Drawing, KeyOfRequest
<1>4. \A n : KeyOfRequest(n)' = KeyOfRequest(n)
  BY <1>1 DEF stored, KeyOfRequest
<1>5. CASE ApproveTally(s)
  <2> DEFINE k == KeyOfRequest(tx[s].number)
  <2>1. tx[s] \in RuleTx
    BY <1>5 DEF ApproveTally, TypeInv, TypeOK, TxOK, SubmitPoints, RulePoints
  <2>2. k \in DOMAIN balances /\ tx'[s].seen = balances[k] /\ tx'[s].number = tx[s].number
    BY <1>5, <2>1 DEF ApproveTally, TypeInv, TypeOK, RuleTx
  <2>3. balances[k] <= Backing(k)
    BY <2>2 DEF BackedInv
  <2>4. SeenBacked(s)'
    BY <1>3, <1>4, <2>2, <2>3 DEF SeenBacked
  <2> QED BY <1>1, <1>2, <2>4, BackedLocal
<1>6. CASE ApproveBook(s)
  <2>1. pc[s] = "book" /\ tx' = tx
    BY <1>6 DEF ApproveBook, Goto
  <2>2. SeenBacked(s)'
    BY <1>3, <1>4, <2>1 DEF BackedInv, SeenBacked
  <2> QED BY <1>1, <1>2, <2>2, BackedLocal
<1>7. CASE RuleUpdate(s)
  <2>1. pc'[s] = "tally" \/ (pc'[s] = "written" /\ tx'[s].verdict # "APPROVED")
    BY <1>7 DEF RuleUpdate, Goto, TypeInv, TypeOK
  <2>2. SeenBacked(s)'
    BY <2>1 DEF SeenBacked
  <2> QED BY <1>1, <1>2, <2>2, BackedLocal
<1>8. CASE \/ \E a \in Asks : SubmitCheck(s, a)
           \/ \E n \in DOMAIN requests, v \in Verdicts : ReadPending(s, n, v)
           \/ SubmitBalance(s) \/ SubmitCreate(s) \/ SubmitCount(s) \/ SubmitInsert(s)
           \/ Abort(s)
  <2>1. pc'[s] \notin {"book", "written"}
    BY <1>8 DEF TypeInv, TypeOK, SubmitCheck, ReadPending, SubmitBalance, SubmitCreate,
         SubmitCount, SubmitInsert, Abort, EndTx, Goto
  <2>2. SeenBacked(s)'
    BY <2>1 DEF SeenBacked
  <2> QED BY <1>1, <1>2, <2>2, BackedLocal
<1> QED BY <1>5, <1>6, <1>7, <1>8

\* A step that commits: what a decision books is what it read, which approvals
\* grant, and the days of its own approval, which it grants by the same step.
LEMMA BackedOfCommit ==
  ASSUME TypeInv, TypeInv', NumberInv, BackedInv, NEW s \in Session,
         SubmitCommit(s) \/ RuleCommit(s)
  PROVE  BackedInv'
<1> DEFINE n == tx[s].number
           key == KeyOfRequest(n)
           booked == RuleCommit(s) /\ tx[s].verdict = "APPROVED"
<1>1. \A k : Backing(k) \in Nat
  BY BackingNat
<1>2. \A k : SubmitCommit(s) => Backing(k) <= Backing(k)'
  BY BackingStep
<1>3. \A k : RuleCommit(s) =>
         Backing(k)' = Backing(k) + (IF booked /\ k = key THEN requests[n].days ELSE 0)
  BY BackingStep
<1>4. \A m \in DOMAIN requests : m \in DOMAIN requests' /\ KeyOfRequest(m)' = KeyOfRequest(m)
  <2>1. CASE SubmitCommit(s)
    <3>1. tx[s].number \notin DOMAIN requests
      BY <2>1 DEF SubmitCommit, NumberInv, ReservedNumber
    <3> QED BY <2>1, <3>1 DEF SubmitCommit, Put, KeyOfRequest
  <2>2. CASE RuleCommit(s)
    BY <2>2 DEF RuleCommit, KeyOfRequest, TypeInv, TypeOK, RowType
  <2> QED BY <2>1, <2>2
<1>5. RuleCommit(s) =>
        /\ n \in DOMAIN requests /\ requests[n].days \in Nat /\ tx[s].seen \in Nat
        /\ key \in BalanceKey
        /\ tx[s].verdict = "APPROVED" => tx[s].seen <= Backing(key)
  <2>1. RuleCommit(s) => n \in DOMAIN requests /\ tx[s] \in RuleTx /\ requests[n] \in RowType
    BY DEF RuleCommit, TypeInv, TypeOK, TxOK, RulePoints, SubmitPoints
  <2>2. RuleCommit(s) /\ tx[s].verdict = "APPROVED" => tx[s].seen <= Backing(key)
    BY DEF RuleCommit, BackedInv, SeenBacked
  <2> QED BY <2>1, <2>2 DEF RuleTx, RowType, BalanceKey, KeyOfRequest
<1>6. \A k : /\ Backing(k)' \in Nat
             /\ Backing(k) <= Backing(k)'
             /\ booked /\ k = key => Backing(k)' = Backing(k) + requests[n].days
  <2> HIDE DEF n, key
  <2>1. CASE SubmitCommit(s)
    <3>1. ~RuleCommit(s)
      BY <2>1 DEF SubmitCommit, RuleCommit
    <3>2. \A k : Backing(k)' \in Nat
      BY BackingStep
    <3> QED BY <1>2, <2>1, <3>1, <3>2
  <2>2. CASE RuleCommit(s)
    BY <1>1, <1>3, <1>5, <2>2
  <2> QED BY <2>1, <2>2
<1>7. ASSUME NEW k \in DOMAIN balances' PROVE balances'[k] <= Backing(k)'
  <2>1. CASE booked /\ k = key
    <3>1. balances'[k] = tx[s].seen + requests[n].days
      BY <1>7, <2>1 DEF RuleCommit, BookedBalances
    <3> HIDE DEF n, key
    <3> QED BY <1>1, <1>5, <1>6, <2>1, <3>1
  <2>2. CASE ~(booked /\ k = key)
    <3>1. balances'[k] = 0 \/ (k \in DOMAIN balances /\ balances'[k] = balances[k])
      <4>1. CASE SubmitCommit(s)
        BY <1>7, <4>1 DEF SubmitCommit, NewBalances, Put
      <4>2. CASE RuleCommit(s)
        BY <1>7, <2>2, <4>2 DEF RuleCommit, BookedBalances
      <4> QED BY <4>1, <4>2
    <3>2. k \in DOMAIN balances => balances[k] <= Backing(k) /\ balances[k] \in Nat
      BY DEF BackedInv, TypeInv, TypeOK
    <3> HIDE DEF n, key, booked
    <3> QED BY <1>1, <1>6, <3>1, <3>2
  <2> QED BY <2>1, <2>2
<1>8. pc'[s] = "idle" /\ \A o \in Session \ {s} : pc'[o] = pc[o] /\ tx'[o] = tx[o]
  BY DEF SubmitCommit, RuleCommit, EndTx, TypeInv, TypeOK
<1>9. ASSUME NEW o \in Session PROVE SeenBacked(o)'
  <2>1. CASE o = s
    BY <1>8, <2>1 DEF SeenBacked
  <2>2. CASE o # s /\ pc[o] \in RulePoints
    <3>1. tx[o] \in RuleTx /\ tx[o].number \in DOMAIN requests /\ tx[o].seen \in Nat
      BY <2>2 DEF TypeInv, TypeOK, TxOK, RuleTx
    <3>2. SeenBacked(o)
      BY DEF BackedInv
    <3> QED BY <1>1, <1>4, <1>6, <1>8, <2>2, <3>1, <3>2 DEF SeenBacked
  <2>3. CASE o # s /\ pc[o] \notin RulePoints
    BY <1>8, <2>3 DEF SeenBacked, RulePoints
  <2> QED BY <2>1, <2>2, <2>3
<1> QED BY <1>7, <1>9 DEF BackedInv

\* BackedInv is inductive relative to the types and the numbers.
LEMMA BackedStep ==
  TypeInv /\ TypeInv' /\ NumberInv /\ BackedInv /\ [Next]_vars => BackedInv'
<1>1. CASE UNCHANGED vars
  BY <1>1 DEF vars, BackedInv, SeenBacked, Backing, Granting, Approvals, Drawing, KeyOfRequest
<1>2. ASSUME TypeInv, TypeInv', NumberInv, BackedInv, Next PROVE BackedInv'
  BY <1>2, NextCases, BackedOfOther, BackedOfCommit
<1> QED BY <1>1, <1>2

\* However bookings race and overwrite each other, the used days of a balance
\* never hold a unit that no audited approval granted.
THEOREM UsedIsBacked == Spec => []UsedBackedByApprovals
<1>1. Init => BackedInv
  BY DEF Init, BackedInv, SeenBacked
<1>2. TypeInv /\ BackedInv => UsedBackedByApprovals
  <2> SUFFICES ASSUME TypeInv, BackedInv PROVE UsedBackedByApprovals
    OBVIOUS
  <2>1. \A k : MapThenSumSet(LAMBDA n : requests[n].days * Approvals(n),
                             {n \in DOMAIN requests : KeyOfRequest(n) = k}) = Backing(k)
    BY BackingIs DEF TypeInv
  <2> QED BY <2>1 DEF BackedInv, UsedBackedByApprovals
<1> QED BY <1>1, <1>2, BackedStep, TypeInvariant, NumberInvariant, PTL DEF Spec

-----------------------------------------------------------------------------
(* One transaction at a time.                                              *)

\* At most one session has a transaction open.
OneOpen == \A s, o \in Session : pc[s] # "idle" /\ pc[o] # "idle" => s = o

\* What a submission checked holds until it commits.
Checked(s) ==
  LET a == tx[s].ask
      k == KeyOf(tx[s].ask)
  IN  /\ pc[s] \in SubmitPoints =>
           /\ Admissible(LiveAsks(a.emp), a)
           /\ Cardinality(DOMAIN requests) < MaxRequests
           /\ tx[s].fresh => k \notin DOMAIN balances
           /\ pc[s] \in {"balance", "create"} => ~tx[s].fresh
      /\ pc[s] = "create" => k \notin DOMAIN balances
      /\ pc[s] \in {"count", "insert", "inserted"} =>
           Covers(IF tx[s].fresh THEN 0 ELSE balances[k], a)
      /\ pc[s] \in {"insert", "inserted"} =>
           tx[s].number = NextNumber(DOMAIN requests, YearOfAsk(a))

\* What a decision read holds until it commits.
StillPending(s) ==
  LET n == tx[s].number
  IN  /\ pc[s] \in RulePoints => requests[n].status = "PENDING"
      /\ pc[s] \in {"tally", "book"} => tx[s].verdict = "APPROVED"
      /\ pc[s] = "book" \/ (pc[s] = "written" /\ tx[s].verdict = "APPROVED") =>
           KeyOfRequest(n) \in DOMAIN balances /\ tx[s].seen = balances[KeyOfRequest(n)]

\* Every request of the table passed the checks of its dates.
RowsInv ==
  \A n \in DOMAIN requests :
    LET a == requests[n].ask
    IN  requests[n].days = UnitsOf(a) /\ Requestable(Holidays, a.span, Today)

SerialInv == RowsInv /\ \A s \in Session : Checked(s) /\ StillPending(s)

\* An idle session holds nothing to be kept.
LEMMA IdleSerial ==
  ASSUME NEW s \in Session PROVE pc[s] = "idle" => Checked(s) /\ StillPending(s)
BY DEF Checked, StillPending, SubmitPoints, RulePoints

\* A step that leaves the tables and the other sessions alone.
LEMMA SerialLocal ==
  ASSUME SerialInv, NEW s \in Session, UNCHANGED stored,
         \A o \in Session \ {s} : pc'[o] = pc[o] /\ tx'[o] = tx[o],
         Checked(s)', StillPending(s)'
  PROVE  SerialInv'
<1>1. RowsInv'
  BY DEF SerialInv, RowsInv, stored
<1>2. ASSUME NEW o \in Session \ {s} PROVE Checked(o)' /\ StillPending(o)'
  <2>1. Checked(o) /\ StillPending(o)
    BY DEF SerialInv
  <2>2. /\ requests' = requests /\ balances' = balances
        /\ pc'[o] = pc[o] /\ tx'[o] = tx[o]
    BY DEF stored
  <2>3. Checked(o)'
    BY <2>1, <2>2 DEF Checked, LiveAsks
  <2>4. StillPending(o)'
    BY <2>1, <2>2 DEF StillPending, KeyOfRequest
  <2> QED BY <2>3, <2>4
<1> QED BY <1>1, <1>2 DEF SerialInv

\* The steps of a submission before its commit.
LEMMA SerialOfSubmit ==
  ASSUME TypeInv, SerialInv, OneOpen', NEW s \in Session,
         \/ \E a \in Asks : SubmitCheck(s, a)
         \/ SubmitBalance(s) \/ SubmitCreate(s) \/ SubmitCount(s) \/ SubmitInsert(s)
         \/ Abort(s)
  PROVE  SerialInv'
<1> USE DEF TypeInv, TypeOK
<1>1. requests' = requests /\ balances' = balances /\ UNCHANGED stored
  BY DEF SubmitCheck, SubmitBalance, SubmitCreate, SubmitCount, SubmitInsert, Abort, stored
<1>2. \A o \in Session \ {s} : pc'[o] = pc[o] /\ tx'[o] = tx[o]
  BY DEF SubmitCheck, SubmitBalance, SubmitCreate, SubmitCount, SubmitInsert, Abort, EndTx, Goto
<1>3. \A e : LiveAsks(e)' = LiveAsks(e)
  BY <1>1 DEF LiveAsks
<1>4. ASSUME EndTx(s) PROVE SerialInv'
  <2>1. pc'[s] = "idle"
    BY <1>4 DEF EndTx
  <2>2. Checked(s)' /\ StillPending(s)'
    BY <2>1 DEF Checked, StillPending, SubmitPoints, RulePoints
  <2> QED BY <1>1, <1>2, <2>2, SerialLocal
<1>5. ASSUME pc[s] \in SubmitPoints PROVE tx[s] \in SubmitTx /\ Checked(s)
  BY <1>5 DEF TxOK, SubmitPoints, RulePoints, SerialInv
<1>6. ASSUME pc'[s] \in SubmitPoints, Checked(s)' PROVE SerialInv'
  <2>1. StillPending(s)'
    BY <1>6 DEF StillPending, SubmitPoints, RulePoints
  <2> QED BY <1>1, <1>2, <1>6, <2>1, SerialLocal
<1>7. ASSUME NEW a \in Asks, SubmitCheck(s, a) PROVE SerialInv'
  <2>1. pc'[s] = "balance" /\ tx'[s].ask = a /\ tx'[s].fresh = FALSE
    BY <1>7 DEF SubmitCheck
  <2>2. \A o \in Session : pc[o] = "idle"
    BY <1>2, <1>7, <2>1 DEF SubmitCheck, OneOpen
  <2>3. Submitting = {}
    BY <2>2 DEF Submitting, SubmitPoints
  <2>4. Cardinality(DOMAIN requests) < MaxRequests
    <3>1. Cardinality(Submitting) = 0
      BY <2>3, FS_EmptySet
    <3>2. Cardinality(DOMAIN requests) \in Nat
      BY FS_CardinalityType
    <3> QED BY <1>7, <3>1, <3>2 DEF SubmitCheck
  <2>5. Checked(s)'
    BY <1>1, <1>3, <1>7, <2>1, <2>4 DEF SubmitCheck, Checked, SubmitPoints
  <2> QED BY <1>6, <2>1, <2>5 DEF SubmitPoints
<1>8. CASE SubmitBalance(s) /\ ~EndTx(s)
  <2>1. pc[s] = "balance" /\ tx' = tx
    BY <1>8 DEF SubmitBalance, Goto
  <2>2. \/ pc'[s] = "create" /\ KeyOf(tx[s].ask) \notin DOMAIN balances
        \/ /\ pc'[s] = "count" /\ KeyOf(tx[s].ask) \in DOMAIN balances
           /\ Covers(balances[KeyOf(tx[s].ask)], tx[s].ask)
    BY <1>8 DEF SubmitBalance, Goto
  <2>3. Checked(s) /\ ~tx[s].fresh
    BY <1>5, <2>1 DEF Checked, SubmitPoints
  <2>4. Checked(s)'
    BY <1>1, <1>3, <2>1, <2>2, <2>3 DEF Checked, SubmitPoints
  <2> QED BY <1>6, <2>2, <2>4 DEF SubmitPoints
<1>9. CASE SubmitCreate(s) /\ ~EndTx(s)
  <2>1. /\ pc[s] = "create" /\ pc'[s] = "count" /\ Covers(0, tx[s].ask)
        /\ KeyOf(tx[s].ask) \notin DOMAIN balances
        /\ tx' = [tx EXCEPT ![s].fresh = TRUE]
    BY <1>9 DEF SubmitCreate
  <2>2. tx[s] \in SubmitTx /\ Checked(s)
    BY <1>5, <2>1 DEF SubmitPoints
  <2>3. tx'[s].ask = tx[s].ask /\ tx'[s].fresh = TRUE
    BY <2>1, <2>2 DEF SubmitTx
  <2>4. Checked(s)'
    BY <1>1, <1>3, <2>1, <2>2, <2>3 DEF Checked, SubmitPoints
  <2> QED BY <1>6, <2>1, <2>4 DEF SubmitPoints
<1>10. CASE SubmitCount(s)
  <2>1. pc[s] = "count" /\ pc'[s] = "insert"
    BY <1>10 DEF SubmitCount
  <2>2. tx[s] \in SubmitTx /\ Checked(s)
    BY <1>5, <2>1 DEF SubmitPoints
  <2>3. /\ tx'[s].ask = tx[s].ask /\ tx'[s].fresh = tx[s].fresh
        /\ tx'[s].number = NextNumber(DOMAIN requests, YearOfAsk(tx[s].ask))
    BY <1>10, <2>2 DEF SubmitCount, SubmitTx
  <2>4. Checked(s)'
    BY <1>1, <1>3, <2>1, <2>2, <2>3 DEF Checked, SubmitPoints
  <2> QED BY <1>6, <2>1, <2>4 DEF SubmitPoints
<1>11. CASE SubmitInsert(s) /\ ~EndTx(s)
  <2>1. pc[s] = "insert" /\ pc'[s] = "inserted" /\ tx' = tx
    BY <1>11 DEF SubmitInsert, Goto
  <2>2. Checked(s)
    BY <1>5, <2>1 DEF SubmitPoints
  <2>3. Checked(s)'
    BY <1>1, <1>3, <2>1, <2>2 DEF Checked, SubmitPoints
  <2> QED BY <1>6, <2>1, <2>3 DEF SubmitPoints
<1> QED BY <1>4, <1>7, <1>8, <1>9, <1>10, <1>11 DEF Abort

\* The steps of a decision before its commit.
LEMMA SerialOfRule ==
  ASSUME TypeInv, SerialInv, NEW s \in Session,
         \/ \E n \in DOMAIN requests, v \in Verdicts : ReadPending(s, n, v)
         \/ RuleUpdate(s) \/ ApproveTally(s) \/ ApproveBook(s)
  PROVE  SerialInv'
<1> USE DEF TypeInv, TypeOK
<1>1. requests' = requests /\ balances' = balances /\ UNCHANGED stored
  BY DEF ReadPending, RuleUpdate, ApproveTally, ApproveBook, stored
<1>2. \A o \in Session \ {s} : pc'[o] = pc[o] /\ tx'[o] = tx[o]
  BY DEF ReadPending, RuleUpdate, ApproveTally, ApproveBook, Goto
<1>3. \A n : KeyOfRequest(n)' = KeyOfRequest(n)
  BY <1>1 DEF KeyOfRequest
<1>4. ASSUME pc'[s] \in RulePoints, StillPending(s)' PROVE SerialInv'
  <2>1. Checked(s)'
    BY <1>4 DEF Checked, SubmitPoints, RulePoints
  <2> QED BY <1>1, <1>2, <1>4, <2>1, SerialLocal
<1>5. ASSUME pc[s] \in RulePoints PROVE tx[s] \in RuleTx /\ StillPending(s)
  BY <1>5 DEF TxOK, RulePoints, SubmitPoints, SerialInv
<1>6. ASSUME NEW n \in DOMAIN requests, NEW v \in Verdicts, ReadPending(s, n, v)
      PROVE  SerialInv'
  <2>1. pc'[s] = "update" /\ tx'[s].number = n /\ requests[n].status = "PENDING"
    BY <1>6 DEF ReadPending
  <2>2. StillPending(s)'
    BY <1>1, <2>1 DEF StillPending
  <2> QED BY <1>4, <2>1, <2>2 DEF RulePoints
<1>7. CASE RuleUpdate(s)
  <2>1. pc[s] = "update" /\ tx' = tx
    BY <1>7 DEF RuleUpdate, Goto
  <2>2. pc'[s] = IF tx[s].verdict = "APPROVED" THEN "tally" ELSE "written"
    BY <1>7 DEF RuleUpdate, Goto
  <2>3. StillPending(s)'
    BY <1>1, <1>5, <2>1, <2>2 DEF StillPending, RulePoints
  <2> QED BY <1>4, <2>2, <2>3 DEF RulePoints
<1>8. CASE ApproveTally(s)
  <2>1. pc[s] = "tally" /\ pc'[s] = "book" /\ tx[s] \in RuleTx /\ StillPending(s)
    BY <1>5, <1>8 DEF ApproveTally, RulePoints
  <2>2. /\ tx'[s].number = tx[s].number /\ tx'[s].verdict = tx[s].verdict
        /\ KeyOfRequest(tx[s].number) \in DOMAIN balances
        /\ tx'[s].seen = balances[KeyOfRequest(tx[s].number)]
    BY <1>8, <2>1 DEF ApproveTally, RuleTx
  <2>3. StillPending(s)'
    BY <1>1, <1>3, <2>1, <2>2 DEF StillPending, RulePoints
  <2> QED BY <1>4, <2>1, <2>3 DEF RulePoints
<1>9. CASE ApproveBook(s)
  <2>1. pc[s] = "book" /\ pc'[s] = "written" /\ tx' = tx /\ StillPending(s)
    BY <1>5, <1>9 DEF ApproveBook, Goto, RulePoints
  <2>2. StillPending(s)'
    BY <1>1, <1>3, <2>1 DEF StillPending, RulePoints
  <2> QED BY <1>4, <2>1, <2>2 DEF RulePoints
<1> QED BY <1>6, <1>7, <1>8, <1>9

\* A commit finds every other session idle.
LEMMA SerialOfCommit ==
  ASSUME TypeInv, SerialInv, OneOpen, NEW s \in Session, SubmitCommit(s) \/ RuleCommit(s)
  PROVE  SerialInv'
<1>1. \A o \in Session : pc'[o] = "idle"
  BY DEF SubmitCommit, RuleCommit, EndTx, OneOpen, TypeInv, TypeOK
<1>2. \A o \in Session : Checked(o)' /\ StillPending(o)'
  BY <1>1 DEF Checked, StillPending, SubmitPoints, RulePoints
<1>3. RowsInv'
  <2>1. CASE SubmitCommit(s)
    <3>1. tx[s] \in SubmitTx /\ Checked(s)
      BY <2>1 DEF SubmitCommit, TypeInv, TypeOK, TxOK, SubmitPoints, RulePoints, SerialInv
    <3>2. Requestable(Holidays, tx[s].ask.span, Today)
      BY <2>1, <3>1 DEF SubmitCommit, Checked, SubmitPoints, Admissible
    <3>3. \A n \in DOMAIN requests' :
            IF n = tx[s].number
            THEN requests'[n].ask = tx[s].ask /\ requests'[n].days = UnitsOf(tx[s].ask)
            ELSE n \in DOMAIN requests /\ requests'[n] = requests[n]
      BY <2>1 DEF SubmitCommit, Put
    <3> QED BY <3>2, <3>3 DEF SerialInv, RowsInv
  <2>2. CASE RuleCommit(s)
    <3>1. /\ DOMAIN requests' = DOMAIN requests
          /\ \A n \in DOMAIN requests :
               requests'[n].ask = requests[n].ask /\ requests'[n].days = requests[n].days
      BY <2>2 DEF RuleCommit, TypeInv, TypeOK, RowType
    <3> QED BY <3>1 DEF SerialInv, RowsInv
  <2> QED BY <2>1, <2>2
<1> QED BY <1>2, <1>3 DEF SerialInv

\* SerialInv is inductive as long as transactions do not overlap.
LEMMA SerialStep ==
  TypeInv /\ OneOpen /\ OneOpen' /\ SerialInv /\ [Next]_vars => SerialInv'
<1>1. CASE UNCHANGED vars
  <2>1. requests' = requests /\ balances' = balances /\ pc' = pc /\ tx' = tx
    BY <1>1 DEF vars
  <2>2. \A e : LiveAsks(e)' = LiveAsks(e)
    BY <2>1 DEF LiveAsks
  <2>3. \A n : KeyOfRequest(n)' = KeyOfRequest(n)
    BY <2>1 DEF KeyOfRequest
  <2>4. \A s \in Session : Checked(s) => Checked(s)'
    BY <2>1, <2>2 DEF Checked
  <2>5. \A s \in Session : StillPending(s) => StillPending(s)'
    BY <2>1, <2>3 DEF StillPending
  <2>6. RowsInv => RowsInv'
    BY <2>1 DEF RowsInv
  <2> QED BY <2>4, <2>5, <2>6 DEF SerialInv
<1>2. ASSUME TypeInv, OneOpen, OneOpen', SerialInv, Next PROVE SerialInv'
  BY <1>2, NextCases, SerialOfSubmit, SerialOfRule, SerialOfCommit
<1> QED BY <1>1, <1>2

\* The checks of a transaction hold until it commits when no other interferes.
LEMMA SerialInvariant == Spec /\ []OneOpen => []SerialInv
<1>1. Init => SerialInv
  BY IdleSerial DEF Init, SerialInv, RowsInv
<1> QED BY <1>1, SerialStep, TypeInvariant, PTL DEF Spec

-----------------------------------------------------------------------------
(* The ledger.                                                             *)

Approved(k) == {n \in DOMAIN requests : KeyOfRequest(n) = k /\ requests[n].status = "APPROVED"}

Cost == [n \in DOMAIN requests |-> requests[n].days]

\* The units of the approved requests of a balance.
Booked(k) == Total(Cost, Approved(k))

\* The sum the ledger property writes out is this one.
LEMMA BookedIs ==
  ASSUME IsFiniteSet(DOMAIN requests), NEW k
  PROVE  MapThenSumSet(LAMBDA n : requests[n].days,
                       {n \in DOMAIN requests :
                          KeyOfRequest(n) = k /\ requests[n].status = "APPROVED"}) = Booked(k)
<1> DEFINE S == Approved(k)
           Is(h) == h = [s \in SUBSET S |->
                           IF s = {} THEN 0 ELSE requests[AnyOf(s)].days + h[s \ {AnyOf(s)}]]
<1>1. IsFiniteSet(S)
  BY FS_Subset DEF Approved
<1>2. PICK g : Totals(g, Cost, S)
  BY <1>1, TotalsExist
<1>3. \A s \in SUBSET S : s # {} => Cost[AnyOf(s)] = requests[AnyOf(s)].days
  BY DEF Approved, Cost, AnyOf
<1>4. Is(g)
  BY <1>2, <1>3 DEF Totals
<1>5. MapThenSumSet(LAMBDA n : requests[n].days, S) = (CHOOSE h : Is(h))[S]
  BY DEF MapThenSumSet, MapThenFoldSet, AnyOf
<1>6. PICK h : h = (CHOOSE i : Is(i)) /\ Is(h)
  BY <1>4
<1>7. Totals(h, Cost, S)
  <2> DEFINE e(s) == IF s = {} THEN 0 ELSE Cost[AnyOf(s)] + h[s \ {AnyOf(s)}]
             d(s) == IF s = {} THEN 0 ELSE requests[AnyOf(s)].days + h[s \ {AnyOf(s)}]
  <2>1. \A s \in SUBSET S : d(s) = e(s)
    <3> HIDE DEF S
    <3> QED BY <1>3
  <2>2. h = [s \in SUBSET S |-> d(s)]
    BY <1>6
  <2> HIDE DEF d, S
  <2>3. h = [s \in SUBSET S |-> e(s)]
    <3> HIDE DEF e
    <3> QED BY <2>1, <2>2
  <2> QED BY <2>3 DEF Totals
<1> QED BY <1>1, <1>5, <1>6, <1>7, TotalIs DEF Booked, Approved

LedgerInv == \A k \in DOMAIN balances : balances[k] = Booked(k)

\* What a commit does to the approved requests of a balance.
LEMMA BookedStep ==
  ASSUME TypeInv, TypeInv', NumberInv, SerialInv, NEW s \in Session, NEW k
  PROVE  /\ SubmitCommit(s) => Booked(k)' = Booked(k)
         /\ RuleCommit(s) =>
              Booked(k)' = Booked(k)
                + (IF tx[s].verdict = "APPROVED" /\ k = KeyOfRequest(tx[s].number)
                   THEN requests[tx[s].number].days ELSE 0)
<1>1. IsFiniteSet(Approved(k)) /\ IsFiniteSet(Approved(k)')
  BY FS_Subset DEF TypeInv, Approved
<1>2. \A n \in DOMAIN requests : Cost[n] = requests[n].days /\ Cost[n] \in Nat
  BY DEF Cost, TypeInv, TypeOK, RowType
<1>3. \A n \in DOMAIN requests' : Cost'[n] = requests'[n].days /\ Cost'[n] \in Nat
  BY DEF Cost, TypeInv, TypeOK, RowType
<1>4. \A n \in Approved(k) : n \in DOMAIN requests
  BY DEF Approved
<1>5. \A n \in Approved(k)' : n \in DOMAIN requests'
  BY DEF Approved
<1>6. ASSUME Approved(k)' = Approved(k),
             \A n \in Approved(k) : n \in DOMAIN requests' /\ requests'[n].days = requests[n].days
      PROVE  Booked(k)' = Booked(k)
  <2>1. \A n \in Approved(k) : Cost[n] \in Int /\ Cost'[n] \in Int /\ Cost'[n] = Cost[n]
    BY <1>2, <1>3, <1>4, <1>6
  <2>2. Total(Cost', Approved(k)) = Total(Cost, Approved(k))
    BY <1>1, <2>1, TotalCompare
  <2> QED BY <1>6, <2>2 DEF Booked
<1>7. Booked(k) \in Int
  BY <1>1, <1>2, <1>4, TotalRemove DEF Booked
<1>8. ASSUME SubmitCommit(s) PROVE Booked(k)' = Booked(k)
  <2>1. tx[s].number \notin DOMAIN requests
    BY <1>8 DEF SubmitCommit, NumberInv, ReservedNumber
  <2>2. /\ DOMAIN requests' = DOMAIN requests \cup {tx[s].number}
        /\ requests'[tx[s].number].status = "PENDING"
        /\ \A n \in DOMAIN requests : requests'[n] = requests[n]
    BY <1>8, <2>1 DEF SubmitCommit, Put
  <2>3. Approved(k)' = Approved(k)
    BY <2>2 DEF Approved, KeyOfRequest
  <2> QED BY <1>4, <1>6, <2>2, <2>3
<1>9. ASSUME RuleCommit(s)
      PROVE  Booked(k)' = Booked(k)
                + (IF tx[s].verdict = "APPROVED" /\ k = KeyOfRequest(tx[s].number)
                   THEN requests[tx[s].number].days ELSE 0)
  <2> DEFINE m == tx[s].number
             v == tx[s].verdict
  <2>1. /\ m \in DOMAIN requests /\ v \in Verdicts /\ requests[m].status = "PENDING"
    BY <1>9 DEF RuleCommit, TypeInv, TypeOK, TxOK, RulePoints, SubmitPoints, RuleTx, SerialInv,
         StillPending
  <2>2. /\ DOMAIN requests' = DOMAIN requests
        /\ \A n \in DOMAIN requests :
              requests'[n].ask = requests[n].ask /\ requests'[n].days = requests[n].days
        /\ requests'[m].status = v
        /\ \A n \in DOMAIN requests : n # m => requests'[n].status = requests[n].status
    BY <1>9, <2>1 DEF RuleCommit, TypeInv, TypeOK, RowType
  <2> HIDE DEF m, v
  <2>3. Approved(k)' = Approved(k) \cup (IF v = "APPROVED" /\ k = KeyOfRequest(m) THEN {m} ELSE {})
    BY <2>1, <2>2 DEF Approved, KeyOfRequest
  <2>4. CASE v = "APPROVED" /\ k = KeyOfRequest(m)
    <3>1. m \notin Approved(k) /\ m \in Approved(k)' /\ Approved(k)' \ {m} = Approved(k)
      BY <2>1, <2>3, <2>4 DEF Approved
    <3>2. \A n \in Approved(k)' : Cost'[n] \in Int
      BY <1>3, <1>5
    <3>3. Total(Cost', Approved(k)') = Cost'[m] + Total(Cost', Approved(k))
      BY <1>1, <3>1, <3>2, TotalRemove
    <3>4. \A n \in Approved(k) : Cost[n] \in Int /\ Cost'[n] \in Int /\ Cost'[n] = Cost[n]
      BY <1>2, <1>3, <1>4, <2>2
    <3>5. Total(Cost', Approved(k)) = Total(Cost, Approved(k))
      BY <1>1, <3>4, TotalCompare
    <3>6. Cost'[m] = requests[m].days /\ requests[m].days \in Nat
      BY <1>2, <1>3, <2>1, <2>2
    <3>7. Booked(k)' = requests[m].days + Booked(k)
      BY <3>3, <3>5, <3>6 DEF Booked
    <3> QED BY <1>7, <2>4, <3>6, <3>7 DEF m, v
  <2>5. CASE ~(v = "APPROVED" /\ k = KeyOfRequest(m))
    <3>1. Approved(k)' = Approved(k)
      BY <2>3, <2>5
    <3>2. Booked(k)' = Booked(k)
      BY <1>4, <1>6, <2>2, <3>1
    <3> QED BY <1>7, <2>5, <3>2 DEF m, v
  <2> QED BY <2>4, <2>5
<1> QED BY <1>8, <1>9

\* The ledger stays exact: a new balance has no requests yet, and a booking
\* adds to what it read, which nobody changed.
LEMMA LedgerStep ==
  TypeInv /\ TypeInv' /\ NumberInv /\ BalanceInv /\ SerialInv /\ LedgerInv /\ [Next]_vars
    => LedgerInv'
<1> SUFFICES ASSUME TypeInv, TypeInv', NumberInv, BalanceInv, SerialInv, LedgerInv, [Next]_vars
             PROVE  LedgerInv'
  OBVIOUS
<1>1. CASE requests' = requests /\ balances' = balances
  BY <1>1 DEF LedgerInv, Booked, Cost, Approved, KeyOfRequest
<1>2. ASSUME NEW s \in Session, SubmitCommit(s), NEW k \in DOMAIN balances'
      PROVE  balances'[k] = Booked(k)'
  <2>1. Booked(k)' = Booked(k)
    BY <1>2, BookedStep
  <2>2. pc[s] = "inserted" /\ Checked(s)
    BY <1>2 DEF SubmitCommit, SerialInv
  <2>3. CASE k \in DOMAIN balances
    <3>1. balances'[k] = balances[k]
      BY <1>2, <2>2, <2>3 DEF SubmitCommit, NewBalances, Put, Checked, SubmitPoints
    <3> QED BY <2>1, <2>3, <3>1 DEF LedgerInv
  <2>4. CASE k \notin DOMAIN balances
    <3>1. balances'[k] = 0
      BY <1>2, <2>4 DEF SubmitCommit, NewBalances, Put
    <3>2. Approved(k) = {}
      BY <2>4 DEF Approved, BalanceInv, EveryRequestHasBalance
    <3> QED BY <2>1, <3>1, <3>2, TotalEmpty DEF Booked
  <2> QED BY <2>3, <2>4
<1>3. ASSUME NEW s \in Session, RuleCommit(s), NEW k \in DOMAIN balances'
      PROVE  balances'[k] = Booked(k)'
  <2> DEFINE m == tx[s].number
             v == tx[s].verdict
  <2>1. StillPending(s) /\ pc[s] = "written" /\ tx[s] \in RuleTx
    BY <1>3 DEF RuleCommit, SerialInv, TypeInv, TypeOK, TxOK, RulePoints, SubmitPoints
  <2>2. k \in DOMAIN balances /\ balances[k] = Booked(k) /\ balances[k] \in Nat
    BY <1>3 DEF RuleCommit, BookedBalances, LedgerInv, TypeInv, TypeOK
  <2>3. CASE v = "APPROVED" /\ k = KeyOfRequest(m)
    <3>1. tx[s].seen = balances[k]
      BY <2>1, <2>3 DEF StillPending
    <3>2. balances'[k] = tx[s].seen + requests[m].days
      BY <1>3, <2>2, <2>3 DEF RuleCommit, BookedBalances
    <3>3. Booked(k)' = Booked(k) + requests[m].days
      BY <1>3, <2>3, BookedStep
    <3> QED BY <2>2, <3>1, <3>2, <3>3
  <2>4. CASE ~(v = "APPROVED" /\ k = KeyOfRequest(m))
    <3>1. balances'[k] = balances[k]
      BY <1>3, <2>2, <2>4 DEF RuleCommit, BookedBalances
    <3>2. Booked(k)' = Booked(k) + 0
      BY <1>3, <2>4, BookedStep
    <3> QED BY <2>2, <3>1, <3>2
  <2> QED BY <2>3, <2>4
<1>4. CASE UNCHANGED vars
  BY <1>1, <1>4 DEF vars
<1>5. CASE Next
  <2>1. PICK s \in Session :
           \/ requests' = requests /\ balances' = balances
           \/ SubmitCommit(s) \/ RuleCommit(s)
    BY <1>5, NextCases DEF stored, SubmitCheck, ReadPending, SubmitBalance, SubmitCreate,
         SubmitCount, SubmitInsert, RuleUpdate, ApproveTally, ApproveBook, Abort
  <2> QED BY <1>1, <1>2, <1>3, <2>1 DEF LedgerInv
<1> QED BY <1>4, <1>5

\* The inductive form of the balance of every request.
LEMMA BalanceInvariant == Spec => []BalanceInv
<1>1. Init => BalanceInv
  BY DEF Init, BalanceInv, EveryRequestHasBalance, HasBalance
<1> QED BY <1>1, BalanceStep, TypeInvariant, NumberInvariant, PTL DEF Spec

\* When transactions do not overlap, the used days of every balance are
\* exactly the days of its approved requests.
THEOREM LedgerIsExact == Spec /\ []OneOpen => []LedgerExact
<1>1. Init => LedgerInv
  BY DEF Init, LedgerInv
<1>2. TypeInv /\ LedgerInv => LedgerExact
  <2> SUFFICES ASSUME TypeInv, LedgerInv PROVE LedgerExact
    OBVIOUS
  <2>1. \A k : MapThenSumSet(LAMBDA n : requests[n].days,
                             {n \in DOMAIN requests :
                                KeyOfRequest(n) = k /\ requests[n].status = "APPROVED"}) = Booked(k)
    BY BookedIs DEF TypeInv
  <2> QED BY <2>1 DEF LedgerInv, LedgerExact
<1> QED BY <1>1, <1>2, LedgerStep, TypeInvariant, NumberInvariant, BalanceInvariant,
           SerialInvariant, PTL DEF Spec

-----------------------------------------------------------------------------
(* The calendar of an employee.                                            *)

\* Spans that do not clash share no half day.
LEMMA ApartWhenNoClash ==
  ASSUME NEW a \in SpanType, NEW b \in SpanType, ~Clash(a, b)
  PROVE  HalfDays(a) \cap HalfDays(b) = {}
<1>1. a.from \in Nat /\ a.to \in Nat /\ b.from \in Nat /\ b.to \in Nat
  BY DEF SpanType
<1>2. CASE ~(a.from <= b.to /\ b.from <= a.to)
  <2>1. DaysOf(a) \cap DaysOf(b) = {}
    BY <1>1, <1>2 DEF DaysOf
  <2> QED BY <2>1 DEF HalfDays
<1>3. CASE IsHalfDay(a) /\ IsHalfDay(b) /\ a.half # b.half
  BY <1>3 DEF HalfDays
<1> QED BY <1>2, <1>3 DEF Clash

\* A decision of a pending request leaves live requests and adds none.
LEMMA LiveAfterRuling ==
  ASSUME TypeInv, SerialInv, NEW s \in Session, RuleCommit(s)
  PROVE  /\ Live' \subseteq Live
         /\ \A n \in DOMAIN requests : requests'[n].ask = requests[n].ask
<1>1. /\ tx[s].number \in DOMAIN requests /\ requests[tx[s].number].status = "PENDING"
      /\ tx[s] \in RuleTx
  BY DEF RuleCommit, TypeInv, TypeOK, TxOK, RulePoints, SubmitPoints, SerialInv, StillPending
<1>2. /\ DOMAIN requests' = DOMAIN requests
      /\ \A n \in DOMAIN requests :
           /\ requests'[n].ask = requests[n].ask
           /\ n # tx[s].number => requests'[n].status = requests[n].status
  BY DEF RuleCommit, TypeInv, TypeOK, RowType
<1> QED BY <1>1, <1>2 DEF Live

\* A submission adds one live request, which passed the checks against the
\* live leave of its employee.
LEMMA LiveAfterSubmission ==
  ASSUME TypeInv, NumberInv, SerialInv, NEW s \in Session, SubmitCommit(s)
  PROVE  /\ tx[s] \in SubmitTx /\ tx[s].ask \in Asks
         /\ tx[s].number \notin DOMAIN requests
         /\ Live' = Live \cup {tx[s].number}
         /\ requests'[tx[s].number].ask = tx[s].ask
         /\ \A n \in Live : requests'[n] = requests[n]
         /\ Admissible(LiveAsks(tx[s].ask.emp), tx[s].ask)
         /\ \A n \in Live :
              requests[n].ask.emp = tx[s].ask.emp => requests[n].ask \in LiveAsks(tx[s].ask.emp)
<1>1. pc[s] = "inserted" /\ tx[s] \in SubmitTx /\ Checked(s)
  BY DEF SubmitCommit, TypeInv, TypeOK, TxOK, RulePoints, SubmitPoints, SerialInv
<1>2. tx[s].number \notin DOMAIN requests
  BY <1>1 DEF NumberInv, ReservedNumber
<1>3. /\ DOMAIN requests' = DOMAIN requests \cup {tx[s].number}
      /\ requests'[tx[s].number].ask = tx[s].ask
      /\ requests'[tx[s].number].status = "PENDING"
      /\ \A n \in DOMAIN requests : requests'[n] = requests[n]
  BY <1>2 DEF SubmitCommit, Put
<1>4. Live' = Live \cup {tx[s].number}
  BY <1>3 DEF Live
<1>5. Admissible(LiveAsks(tx[s].ask.emp), tx[s].ask)
  BY <1>1 DEF Checked, SubmitPoints
<1>6. \A n \in Live :
        requests[n].ask.emp = tx[s].ask.emp => requests[n].ask \in LiveAsks(tx[s].ask.emp)
  BY DEF Live, LiveAsks
<1> QED BY <1>1, <1>2, <1>3, <1>4, <1>5, <1>6 DEF SubmitTx, Live

\* The calendar stays free of double bookings.
LEMMA CalendarStep ==
  TypeInv /\ NumberInv /\ SerialInv /\ NoDoubleBooking /\ [Next]_vars => NoDoubleBooking'
<1> SUFFICES ASSUME TypeInv, NumberInv, SerialInv, NoDoubleBooking, [Next]_vars
             PROVE  NoDoubleBooking'
  OBVIOUS
<1>1. CASE requests' = requests
  BY <1>1 DEF NoDoubleBooking, Live
<1>2. ASSUME NEW s \in Session, SubmitCommit(s) PROVE NoDoubleBooking'
  <2> DEFINE new == tx[s].number
             a == tx[s].ask
  <2>1. /\ a \in Asks /\ new \notin Live /\ Live' = Live \cup {new} /\ requests'[new].ask = a
        /\ \A n \in Live : requests'[n] = requests[n]
        /\ \A b \in LiveAsks(a.emp) : ~Clash(b.span, a.span)
        /\ \A n \in Live : requests[n].ask.emp = a.emp => requests[n].ask \in LiveAsks(a.emp)
    BY <1>2, LiveAfterSubmission DEF Admissible, ConflictFree, Live
  <2>2. \A b \in Asks : b.span \in SpanType
    BY TermsAssumption DEF AskType
  <2>3. \A n \in Live : requests[n].ask \in Asks
    BY DEF Live, TypeInv, TypeOK, RowType
  <2> HIDE DEF new, a
  <2>4. ASSUME NEW n \in Live, requests[n].ask.emp = a.emp
        PROVE  HalfDays(requests[n].ask.span) \cap HalfDays(a.span) = {}
    BY <2>1, <2>2, <2>3, <2>4, ApartWhenNoClash
  <2>5. ASSUME NEW m \in Live', NEW n \in Live', m # n, requests'[m].ask.emp = requests'[n].ask.emp
        PROVE  HalfDays(requests'[m].ask.span) \cap HalfDays(requests'[n].ask.span) = {}
    <3>1. CASE m \in Live /\ n \in Live
      BY <2>1, <2>5, <3>1 DEF NoDoubleBooking
    <3>2. CASE m \in Live /\ n = new
      BY <2>1, <2>4, <2>5, <3>2
    <3>3. CASE m = new /\ n \in Live
      <4>1. HalfDays(requests[n].ask.span) \cap HalfDays(a.span) = {}
        BY <2>1, <2>4, <2>5, <3>3
      <4> QED BY <2>1, <3>3, <4>1
    <3> QED BY <2>1, <2>5, <3>1, <3>2, <3>3
  <2> QED BY <2>5 DEF NoDoubleBooking
<1>3. ASSUME NEW s \in Session, RuleCommit(s) PROVE NoDoubleBooking'
  <2>1. Live' \subseteq Live /\ \A n \in Live : requests'[n].ask = requests[n].ask
    BY <1>3, LiveAfterRuling DEF Live
  <2> QED BY <2>1 DEF NoDoubleBooking
<1>4. CASE Next
  <2>1. PICK s \in Session : requests' = requests \/ SubmitCommit(s) \/ RuleCommit(s)
    BY <1>4, NextCases DEF stored, SubmitCheck, ReadPending, SubmitBalance, SubmitCreate,
         SubmitCount, SubmitInsert, RuleUpdate, ApproveTally, ApproveBook, Abort
  <2> QED BY <1>1, <1>2, <1>3, <2>1
<1> QED BY <1>1, <1>4 DEF vars

\* When transactions do not overlap, no employee is away twice in one half
\* day, whatever the leave types.
THEOREM NobodyIsDoubleBooked == Spec /\ []OneOpen => []NoDoubleBooking
<1>1. Init => NoDoubleBooking
  BY DEF Init, NoDoubleBooking, Live
<1> QED BY <1>1, CalendarStep, TypeInvariant, NumberInvariant, SerialInvariant, PTL DEF Spec

-----------------------------------------------------------------------------
(* The atomic leave book.                                                  *)

\* The book speaks of the same calendar, checks and balances.
LEMMA BookDates ==
  /\ Book!BalanceKey = BalanceKey
  /\ \A S : Book!Cardinality(S) = Cardinality(S)
  /\ \A a : /\ Book!KeyOf(a) = KeyOf(a) /\ Book!YearOfAsk(a) = YearOfAsk(a)
            /\ Book!UnitsOf(a) = UnitsOf(a)
            /\ Book!Requestable(Holidays, a.span, Today)
                 <=> Requestable(Holidays, a.span, Today)
  /\ \A u, a : Book!Covers(u, a) <=> Covers(u, a)
  /\ \A N, y : Book!NextNumber(N, y) = NextNumber(N, y)
<1>c. \A S : Book!Cardinality(S) = Cardinality(S)
  BY DEF Book!Cardinality, Cardinality
<1>1. \A a : Book!KeyOf(a) = KeyOf(a) /\ Book!YearOfAsk(a) = YearOfAsk(a)
  BY DEF Book!KeyOf, KeyOf, Book!YearOfAsk, YearOfAsk, Book!YearOf, YearOf
<1>2. Book!BalanceKey = BalanceKey
  BY <1>1 DEF Book!BalanceKey, BalanceKey
<1>3. \A rows, t : Book!HolidayDates(rows, t) = HolidayDates(rows, t)
  BY DEF Book!HolidayDates, HolidayDates, Book!ListAll, ListAll, Book!YearsOf, YearsOf,
         Book!YearOf, YearOf, Book!Anniversary, Anniversary
<1>4. \A rows, t : Book!WorkingDays(rows, t) = WorkingDays(rows, t)
  BY <1>3 DEF Book!WorkingDays, WorkingDays, Book!DaysOf, DaysOf, Book!IsWeekend, IsWeekend
<1>5. \A rows, t : Book!WorkingUnits(rows, t) = WorkingUnits(rows, t)
  BY <1>4, <1>c DEF Book!WorkingUnits, WorkingUnits, Book!IsHalfDay, IsHalfDay
<1>6. \A a : Book!UnitsOf(a) = UnitsOf(a)
  BY <1>5 DEF Book!UnitsOf, UnitsOf
<1>7. \A a : Book!Requestable(Holidays, a.span, Today) <=> Requestable(Holidays, a.span, Today)
  BY <1>4, <1>5 DEF Book!Requestable, Requestable, Book!HalfDayAllowed, HalfDayAllowed,
                    Book!IsHalfDay, IsHalfDay
<1>8. \A u, a : Book!Covers(u, a) <=> Covers(u, a)
  BY <1>6 DEF Book!Covers, Covers
<1>9. \A N, y : Book!NextNumber(N, y) = NextNumber(N, y)
  BY <1>c DEF Book!NextNumber, NextNumber, Book!CountForYear, CountForYear, Book!OfYear, OfYear
<1> QED BY <1>c, <1>1, <1>2, <1>6, <1>7, <1>8, <1>9

\* The book and the service judge an ask by the same rules.
LEMMA BookChecks ==
  \A live, a : Book!Admissible(live, a) <=> Admissible(live, a)
<1>1. Book!Coalesce = Coalesce
  BY DEF Book!Coalesce, Coalesce, Book!Touches, Touches, Book!Hull, Hull, Book!RunSets, RunSets,
         Book!RunType, RunType, Book!IsFiniteSet, IsFiniteSet,
         Book!Max, Max, Book!Min, Min
<1>2. \A S : Book!Max(S) = Max(S)
  BY DEF Book!Max, Max
<1>3. \A r : Book!RunLength(r) = RunLength(r)
  BY DEF Book!RunLength, RunLength
<1>4. \A t : Book!Dates(t) = Dates(t)
  BY DEF Book!Dates, Dates
<1>5. \A olds, t : Book!ConsecutiveRunDays(olds, t) = ConsecutiveRunDays(olds, t)
  BY <1>1, <1>2, <1>3, <1>4 DEF Book!ConsecutiveRunDays, ConsecutiveRunDays
<1>6. \A t, u : Book!Clash(t, u) <=> Clash(t, u)
  BY DEF Book!Clash, Clash, Book!IsHalfDay, IsHalfDay
<1>7. \A live, a : Book!ConflictFree(live, a) <=> ConflictFree(live, a)
  BY <1>5, <1>6, BookDates DEF Book!ConflictFree, ConflictFree
<1> QED BY <1>7, BookDates DEF Book!Admissible, Admissible

\* Nothing is written in the book before the first transaction commits.
LEMMA BookInit == Init => Book!Init
<1> SUFFICES ASSUME Init PROVE Book!Init
  OBVIOUS
<1>1. DOMAIN requests = {} /\ DOMAIN balances = {}
  BY DEF Init
<1> QED BY <1>1, BookDates DEF Book!Init

\* The pages of the book that the tables stand for.
Page == [n \in DOMAIN requests |-> [ask |-> requests[n].ask, status |-> requests[n].status]]

Units == [k \in BalanceKey |-> IF k \in DOMAIN balances THEN balances[k] ELSE 0]

\* The commit of a submission enters the request in the book.
LEMMA BookSubmission ==
  ASSUME TypeInv, NumberInv, BalanceInv, SerialInv, NEW s \in Session, SubmitCommit(s)
  PROVE  Book!Submit(tx[s].ask)
<1> DEFINE a == tx[s].ask
           n == tx[s].number
           k == KeyOf(tx[s].ask)
<1>1. /\ tx[s] \in SubmitTx /\ a \in Asks /\ n \notin DOMAIN requests
      /\ Admissible(LiveAsks(a.emp), a)
  BY LiveAfterSubmission
<1>2. /\ n = NextNumber(DOMAIN requests, YearOfAsk(a))
      /\ Cardinality(DOMAIN requests) < MaxRequests
      /\ tx[s].fresh => k \notin DOMAIN balances
      /\ ~tx[s].fresh => k \in DOMAIN balances
      /\ Covers(IF tx[s].fresh THEN 0 ELSE balances[k], a)
  BY DEF SubmitCommit, SerialInv, Checked, SubmitPoints, BalanceInv, HasBalance
<1>3. k \in BalanceKey
  BY <1>1, AskTerms
<1>4. Covers(Units[k], a)
  <2>1. Units[k] = IF tx[s].fresh THEN 0 ELSE balances[k]
    BY <1>2, <1>3 DEF Units
  <2> QED BY <1>2, <2>1
<1>5. Book!LiveAsks(a.emp) = LiveAsks(a.emp)
  BY DEF Book!LiveAsks, LiveAsks
<1>6. DOMAIN Page = DOMAIN requests
  BY DEF Page
<1>7. Page' = [m \in DOMAIN Page \cup {n} |->
                 IF m = n THEN [ask |-> a, status |-> "PENDING"] ELSE Page[m]]
  <2>1. /\ DOMAIN requests' = DOMAIN requests \cup {n}
        /\ requests'[n].ask = a /\ requests'[n].status = "PENDING"
        /\ \A m \in DOMAIN requests : requests'[m] = requests[m]
    BY <1>1 DEF SubmitCommit, Put
  <2>2. Page' = [m \in DOMAIN requests' |->
                   [ask |-> requests'[m].ask, status |-> requests'[m].status]]
    BY DEF Page
  <2>3. \A m \in DOMAIN requests' :
          [ask |-> requests'[m].ask, status |-> requests'[m].status]
            = IF m = n THEN [ask |-> a, status |-> "PENDING"] ELSE Page[m]
    BY <2>1 DEF Page
  <2> HIDE DEF a, n
  <2> QED BY <1>6, <2>1, <2>2, <2>3
<1>8. Units' = Units
  BY <1>2 DEF Units, SubmitCommit, NewBalances, Put
<1>9. /\ n = Book!NextNumber(DOMAIN Page, Book!YearOfAsk(a))
      /\ Book!Cardinality(DOMAIN Page) < MaxRequests
      /\ Book!Admissible(Book!LiveAsks(a.emp), a)
      /\ Book!Covers(Units[Book!KeyOf(a)], a)
      /\ n \notin DOMAIN Page
  BY <1>1, <1>2, <1>4, <1>5, <1>6, BookDates, BookChecks
<1> HIDE DEF a, n, k
<1> QED BY <1>7, <1>8, <1>9 DEF Book!Submit, Page, Units, a

\* The commit of a decision concludes a pending request, and books its units
\* when it is approved.
LEMMA BookConclusion ==
  ASSUME TypeInv, BalanceInv, SerialInv, NEW s \in Session, RuleCommit(s)
  PROVE  Book!Conclude(tx[s].number, tx[s].verdict)
<1> DEFINE n == tx[s].number
           v == tx[s].verdict
           k == KeyOfRequest(n)
<1>1. /\ n \in DOMAIN requests /\ v \in Verdicts /\ requests[n].status = "PENDING"
      /\ v = "APPROVED" => k \in DOMAIN balances /\ tx[s].seen = balances[k]
      /\ balances \in [DOMAIN balances -> Nat] /\ DOMAIN balances \subseteq BalanceKey
  BY DEF RuleCommit, TypeInv, TypeOK, TxOK, RulePoints, SubmitPoints, RuleTx, SerialInv,
       StillPending
<1>2. requests[n].days = UnitsOf(requests[n].ask)
  BY <1>1 DEF SerialInv, RowsInv
<1>3. Page[n] = [ask |-> requests[n].ask, status |-> "PENDING"] /\ DOMAIN Page = DOMAIN requests
  BY <1>1 DEF Page
<1>4. Page' = [Page EXCEPT ![n].status = v]
  <2>1. /\ DOMAIN requests' = DOMAIN requests
        /\ \A m \in DOMAIN requests : requests'[m].ask = requests[m].ask
        /\ requests'[n].status = v
        /\ \A m \in DOMAIN requests : m # n => requests'[m].status = requests[m].status
    BY <1>1 DEF RuleCommit, TypeInv, TypeOK, RowType
  <2>2. Page' = [m \in DOMAIN requests |->
                   [ask |-> requests'[m].ask, status |-> requests'[m].status]]
    BY <2>1 DEF Page
  <2>3. \A m \in DOMAIN requests :
          [ask |-> requests'[m].ask, status |-> requests'[m].status]
            = IF m = n THEN [Page[n] EXCEPT !.status = v] ELSE Page[m]
    BY <1>3, <2>1 DEF Page
  <2> HIDE DEF n, v
  <2> QED BY <1>1, <1>3, <2>2, <2>3
<1>5. Units' = IF v = "APPROVED"
               THEN [Units EXCEPT ![k] = @ + UnitsOf(requests[n].ask)]
               ELSE Units
  <2>1. CASE v = "APPROVED"
    <3>1. balances' = [balances EXCEPT ![k] = balances[k] + UnitsOf(requests[n].ask)]
      BY <1>1, <1>2, <2>1 DEF RuleCommit, BookedBalances
    <3> HIDE DEF n, v, k
    <3>2. k \in BalanceKey /\ Units[k] = balances[k]
      BY <1>1, <2>1 DEF Units
    <3>3. Units' = [j \in BalanceKey |->
                      IF j = k THEN balances[k] + UnitsOf(requests[n].ask) ELSE Units[j]]
      BY <1>1, <2>1, <3>1 DEF Units
    <3> QED BY <2>1, <3>2, <3>3 DEF Units
  <2>2. CASE v # "APPROVED"
    BY <2>2 DEF RuleCommit, BookedBalances, Units
  <2> QED BY <2>1, <2>2
<1>6. k = Book!KeyOf(Page[n].ask) /\ UnitsOf(requests[n].ask) = Book!UnitsOf(Page[n].ask)
  BY <1>3, BookDates DEF KeyOfRequest
<1> HIDE DEF n, v, k
<1>7. Units' = IF v = "APPROVED"
               THEN [Units EXCEPT ![Book!KeyOf(Page[n].ask)] = @ + Book!UnitsOf(Page[n].ask)]
               ELSE Units
  BY <1>3, <1>5, <1>6
<1>8. Page[n].status = "PENDING"
  BY <1>3
<1>9. Book!Conclude(n, v)
  BY <1>4, <1>7, <1>8 DEF Book!Conclude, Page, Units
<1> QED BY <1>9 DEF n, v

\* Every step of the service is a step of the book or leaves it alone.
LEMMA BookStep ==
  TypeInv /\ NumberInv /\ BalanceInv /\ SerialInv /\ [Next]_vars => [Book!Next]_(Book!bookVars)
<1> SUFFICES ASSUME TypeInv, NumberInv, BalanceInv, SerialInv, [Next]_vars
             PROVE  [Book!Next]_(Book!bookVars)
  OBVIOUS
<1>1. CASE requests' = requests /\ balances' = balances
  BY <1>1 DEF Book!bookVars
<1>2. ASSUME NEW s \in Session, SubmitCommit(s) PROVE Book!Next
  <2>1. tx[s].ask \in Asks
    BY <1>2, LiveAfterSubmission
  <2> QED BY <1>2, <2>1, BookSubmission DEF Book!Next, Book!Submit
<1>3. ASSUME NEW s \in Session, RuleCommit(s) PROVE Book!Next
  <2>1. tx[s].number \in DOMAIN requests /\ tx[s].verdict \in Verdicts
    BY <1>3 DEF RuleCommit, TypeInv, TypeOK, TxOK, RulePoints, SubmitPoints, RuleTx
  <2>2. Book!Conclude(tx[s].number, tx[s].verdict)
    BY <1>3, BookConclusion
  <2> QED BY <2>1, <2>2 DEF Book!Next, Book!Conclude, Book!Verdicts, Verdicts
<1>4. CASE Next
  <2>1. PICK s \in Session :
           \/ requests' = requests /\ balances' = balances
           \/ SubmitCommit(s) \/ RuleCommit(s)
    BY <1>4, NextCases DEF stored, SubmitCheck, ReadPending, SubmitBalance, SubmitCreate,
         SubmitCount, SubmitInsert, RuleUpdate, ApproveTally, ApproveBook, Abort
  <2> QED BY <1>1, <1>2, <1>3, <2>1
<1> QED BY <1>1, <1>4 DEF vars

\* When transactions do not overlap, the service is the atomic leave book:
\* statement by statement, every commit is one operation of the book and
\* everything else is invisible in it.
THEOREM ServiceImplementsBook == Spec /\ []OneOpen => ImplementsBook
<1>1. TypeInv /\ NumberInv /\ BalanceInv /\ SerialInv /\ [Next]_vars
        => [Book!Next]_(Book!bookVars)
  BY BookStep
<1> QED BY <1>1, BookInit, TypeInvariant, NumberInvariant, BalanceInvariant, SerialInvariant,
           PTL DEF Spec, ImplementsBook, Book!Spec

-----------------------------------------------------------------------------
(* Runs of leave.  The merge loop is a recursive function on finite sets   *)
(* of runs, and each turn of it makes the set smaller.                     *)

Touching(runs) == \E a, b \in runs : a # b /\ Touches(a, b)

\* One turn of the merge loop.
Merged(runs) ==
  LET pair == CHOOSE p \in runs \X runs : p[1] # p[2] /\ Touches(p[1], p[2])
  IN  (runs \ {pair[1], pair[2]}) \cup {Hull(pair[1], pair[2])}

\* The hull of two runs is a run that contains both.
LEMMA HullContains ==
  ASSUME NEW a \in RunType, NEW b \in RunType
  PROVE  /\ Hull(a, b) \in RunType
         /\ Hull(a, b).from <= a.from /\ a.to <= Hull(a, b).to
         /\ Hull(a, b).from <= b.from /\ b.to <= Hull(a, b).to
<1>1. a.from \in Int /\ a.to \in Int /\ b.from \in Int /\ b.to \in Int
  BY DEF RunType
<1>2. /\ Min({a.from, b.from}) = (IF a.from <= b.from THEN a.from ELSE b.from)
      /\ Max({a.to, b.to}) = (IF a.to >= b.to THEN a.to ELSE b.to)
  BY <1>1, MinMaxOfTwo
<1>3. /\ Hull(a, b).from = (IF a.from <= b.from THEN a.from ELSE b.from)
      /\ Hull(a, b).to = (IF a.to >= b.to THEN a.to ELSE b.to)
      /\ Hull(a, b) = [from |-> Hull(a, b).from, to |-> Hull(a, b).to]
  BY <1>2 DEF Hull
<1> QED BY <1>1, <1>3 DEF RunType

\* A turn takes two runs out and puts their hull in.
LEMMA MergedIs ==
  ASSUME NEW runs \in RunSets, Touching(runs)
  PROVE  \E a, b \in runs : /\ a # b
                            /\ Merged(runs) = (runs \ {a, b}) \cup {Hull(a, b)}
                            /\ Merged(runs) \in RunSets
                            /\ Cardinality(Merged(runs)) \in Nat
                            /\ Cardinality(Merged(runs)) < Cardinality(runs)
<1> DEFINE pair == CHOOSE p \in runs \X runs : p[1] # p[2] /\ Touches(p[1], p[2])
           a == pair[1]
           b == pair[2]
<1>1. \E p \in runs \X runs : p[1] # p[2] /\ Touches(p[1], p[2])
  <2>1. PICK x, y \in runs : x # y /\ Touches(x, y)
    BY DEF Touching
  <2>2. <<x, y>> \in runs \X runs /\ <<x, y>>[1] = x /\ <<x, y>>[2] = y
    OBVIOUS
  <2> QED BY <2>1, <2>2
<1>2. pair \in runs \X runs /\ a # b
  BY <1>1
<1>3. a \in runs /\ b \in runs /\ Merged(runs) = (runs \ {a, b}) \cup {Hull(a, b)}
  BY <1>2 DEF Merged
<1> HIDE DEF pair, a, b
<1>4. runs \subseteq RunType /\ IsFiniteSet(runs) /\ Hull(a, b) \in RunType
  BY <1>3, HullContains DEF RunSets
<1>5. IsFiniteSet(runs \ {a}) /\ Cardinality(runs \ {a}) = Cardinality(runs) - 1
  BY <1>3, <1>4, FS_RemoveElement
<1>6. /\ IsFiniteSet((runs \ {a}) \ {b})
      /\ Cardinality((runs \ {a}) \ {b}) = Cardinality(runs) - 1 - 1
  BY <1>2, <1>3, <1>5, FS_RemoveElement
<1>7. (runs \ {a}) \ {b} = runs \ {a, b}
  OBVIOUS
<1>8. /\ IsFiniteSet(Merged(runs))
      /\ Cardinality(Merged(runs)) \in {Cardinality(runs) - 2, Cardinality(runs) - 1}
  <2>1. Cardinality(runs) \in Nat
    BY <1>4, FS_CardinalityType
  <2> DEFINE R == runs \ {a, b}
  <2>2. IsFiniteSet(R) /\ Cardinality(R) = Cardinality(runs) - 2
    BY <1>6, <1>7, <2>1
  <2> HIDE DEF R
  <2>3. /\ IsFiniteSet(R \cup {Hull(a, b)})
        /\ Cardinality(R \cup {Hull(a, b)}) \in {Cardinality(R), Cardinality(R) + 1}
    BY <2>2, FS_AddElement
  <2> QED BY <1>3, <2>1, <2>2, <2>3 DEF R
<1>9. Merged(runs) \in RunSets
  BY <1>3, <1>4, <1>8 DEF RunSets
<1> QED BY <1>2, <1>3, <1>4, <1>8, <1>9, FS_CardinalityType

\* A function that merges sets of at most n runs.
UpTo(n) == {runs \in RunSets : Cardinality(runs) <= n}

Merges(f, n) ==
  f = [runs \in UpTo(n) |-> IF Touching(runs) THEN f[Merged(runs)] ELSE runs]

\* Two such functions agree on what both merge.
LEMMA MergesUnique ==
  ASSUME NEW n \in Nat, NEW m \in Nat, NEW f, NEW g, Merges(f, n), Merges(g, m),
         NEW runs \in UpTo(n) \cap UpTo(m)
  PROVE  f[runs] = g[runs]
<1> DEFINE Differ == {r \in UpTo(n) \cap UpTo(m) : f[r] # g[r]}
           N == {Cardinality(r) : r \in Differ}
<1>1. SUFFICES ASSUME Differ # {} PROVE FALSE
  OBVIOUS
<1>2. N \in SUBSET Nat /\ N # {}
  BY <1>1, FS_CardinalityType DEF UpTo, RunSets
<1>3. PICK c \in N : \A k \in N : c <= k
  <2> HIDE DEF N
  <2> QED BY <1>2, LeastNat
<1>4. PICK r \in Differ : Cardinality(r) = c
  OBVIOUS
<1>5. r \in UpTo(n) /\ r \in UpTo(m) /\ f[r] # g[r] /\ r \in RunSets /\ c \in Nat
  BY <1>2, <1>4 DEF UpTo
<1>6. Touching(r)
  BY <1>5 DEF Merges
<1>7. /\ Merged(r) \in RunSets /\ Cardinality(Merged(r)) \in Nat
      /\ Cardinality(Merged(r)) < Cardinality(r)
  BY <1>5, <1>6, MergedIs
<1>8. Merged(r) \in UpTo(n) /\ Merged(r) \in UpTo(m)
  BY <1>4, <1>5, <1>7 DEF UpTo
<1>9. Merged(r) \notin Differ
  BY <1>3, <1>4, <1>5, <1>7
<1>10. f[Merged(r)] = g[Merged(r)]
  BY <1>8, <1>9
<1> QED BY <1>5, <1>6, <1>10 DEF Merges

\* For every n there is such a function.
LEMMA MergesExist == ASSUME NEW n \in Nat PROVE \E f : Merges(f, n)
<1> DEFINE N == {k \in Nat : ~\E f : Merges(f, k)}
<1>1. SUFFICES ASSUME N # {} PROVE FALSE
  OBVIOUS
<1>2. PICK c \in N : \A k \in N : c <= k
  <2>1. N \in SUBSET Nat
    OBVIOUS
  <2> HIDE DEF N
  <2> QED BY <1>1, <2>1, LeastNat
<1>3. c \in Nat /\ ~\E f : Merges(f, c)
  OBVIOUS
<1>4. \E g : \A r \in UpTo(c - 1) : g[r] = IF Touching(r) THEN g[Merged(r)] ELSE r
  <2>1. CASE c = 0
    <3>1. UpTo(c - 1) = {}
      BY <2>1, FS_CardinalityType DEF UpTo, RunSets
    <3> QED BY <3>1
  <2>2. CASE c # 0
    <3>1. c - 1 \in Nat /\ c - 1 \notin N
      BY <1>2, <1>3, <2>2
    <3>2. PICK g : Merges(g, c - 1)
      BY <3>1
    <3> QED BY <3>2 DEF Merges
  <2> QED BY <2>1, <2>2
<1>5. PICK g : \A r \in UpTo(c - 1) : g[r] = IF Touching(r) THEN g[Merged(r)] ELSE r
  BY <1>4
<1> DEFINE f == [r \in UpTo(c) |-> IF Touching(r) THEN g[Merged(r)] ELSE r]
<1>6. ASSUME NEW r \in UpTo(c), Touching(r)
      PROVE  Merged(r) \in UpTo(c) /\ f[Merged(r)] = g[Merged(r)]
  <2>1. /\ Merged(r) \in RunSets /\ Cardinality(Merged(r)) \in Nat
        /\ Cardinality(Merged(r)) < Cardinality(r) /\ Cardinality(r) <= c /\ Cardinality(r) \in Nat
    BY <1>6, MergedIs, FS_CardinalityType DEF UpTo, RunSets
  <2>2. Merged(r) \in UpTo(c) /\ Merged(r) \in UpTo(c - 1)
    BY <1>3, <2>1 DEF UpTo
  <2> QED BY <1>5, <2>2
<1>7. \A r \in UpTo(c) : f[r] = IF Touching(r) THEN g[Merged(r)] ELSE r
  OBVIOUS
<1>8. f = [r \in UpTo(c) |-> f[r]]
  OBVIOUS
<1> HIDE DEF f
<1>9. \A r \in UpTo(c) : f[r] = IF Touching(r) THEN f[Merged(r)] ELSE r
  BY <1>6, <1>7
<1>10. Merges(f, c)
  BY <1>8, <1>9 DEF Merges
<1> QED BY <1>3, <1>10

\* The recursive definition of the merge loop defines it.
LEMMA CoalesceIs ==
  \A runs \in RunSets : Coalesce[runs] = IF Touching(runs) THEN Coalesce[Merged(runs)] ELSE runs
<1> DEFINE Of(n) == CHOOSE f : Merges(f, n)
           C == [runs \in RunSets |-> Of(Cardinality(runs))[runs]]
           Fits(f) == f = [runs \in RunSets |-> IF Touching(runs) THEN f[Merged(runs)] ELSE runs]
<1>1. \A n \in Nat : Merges(Of(n), n)
  BY MergesExist
<1> HIDE DEF Of
<1>2. ASSUME NEW runs \in RunSets PROVE Cardinality(runs) \in Nat /\ runs \in UpTo(Cardinality(runs))
  <2>1. Cardinality(runs) \in Nat
    BY FS_CardinalityType DEF RunSets
  <2> QED BY <2>1 DEF UpTo
<1>3. ASSUME NEW runs \in RunSets
      PROVE  C[runs] = IF Touching(runs) THEN C[Merged(runs)] ELSE runs
  <2> DEFINE n == Cardinality(runs)
             m == Cardinality(Merged(runs))
  <2>1. C[runs] = Of(n)[runs] /\ n \in Nat /\ runs \in UpTo(n)
    BY <1>2
  <2>2. C[runs] = IF Touching(runs) THEN Of(n)[Merged(runs)] ELSE runs
    BY <1>1, <2>1 DEF Merges
  <2>3. ASSUME Touching(runs) PROVE Of(n)[Merged(runs)] = C[Merged(runs)]
    <3>1. Merged(runs) \in RunSets /\ m \in Nat /\ m < n
      BY <2>3, MergedIs
    <3>2. Merged(runs) \in UpTo(n) \cap UpTo(m)
      BY <2>1, <3>1 DEF UpTo
    <3>3. C[Merged(runs)] = Of(m)[Merged(runs)]
      BY <3>1
    <3> HIDE DEF n, m
    <3> QED BY <1>1, <2>1, <3>1, <3>2, <3>3, MergesUnique
  <2> QED BY <2>2, <2>3
<1>4. C = [runs \in RunSets |-> C[runs]]
  OBVIOUS
<1>5. Fits(C)
  <2> HIDE DEF C
  <2> QED BY <1>3, <1>4
<1>6. Coalesce = CHOOSE f : Fits(f)
  BY DEF Coalesce, Touching, Merged
<1>7. Fits(Coalesce)
  <2> HIDE DEF Fits
  <2> QED BY <1>5, <1>6
<1> QED BY <1>7

\* What the merge loop ends with: no two runs touch, and every run it began
\* with is inside one of them.
LEMMA CoalesceCovers ==
  ASSUME NEW runs \in RunSets
  PROVE  /\ Coalesce[runs] \in RunSets
         /\ ~Touching(Coalesce[runs])
         /\ \A a \in runs : \E q \in Coalesce[runs] : q.from <= a.from /\ a.to <= q.to
<1> DEFINE Good(r) == /\ Coalesce[r] \in RunSets
                      /\ ~Touching(Coalesce[r])
                      /\ \A a \in r : \E q \in Coalesce[r] : q.from <= a.from /\ a.to <= q.to
           Bad == {r \in RunSets : ~Good(r)}
           N == {Cardinality(r) : r \in Bad}
<1>1. SUFFICES ASSUME Bad # {} PROVE FALSE
  OBVIOUS
<1>2. N \in SUBSET Nat /\ N # {}
  <2> HIDE DEF Good
  <2> QED BY <1>1, FS_CardinalityType DEF RunSets
<1>3. PICK c \in N : \A k \in N : c <= k
  <2> HIDE DEF N
  <2> QED BY <1>2, LeastNat
<1>4. PICK r \in Bad : Cardinality(r) = c
  <2> HIDE DEF Bad
  <2> QED OBVIOUS
<1>5. r \in RunSets /\ ~Good(r) /\ c \in Nat
  <2> HIDE DEF Good
  <2> QED BY <1>2, <1>4
<1>6. \A a \in r : a.from \in Int /\ a.to \in Int
  BY <1>5 DEF RunSets, RunType
<1>7. Touching(r)
  BY <1>5, <1>6, CoalesceIs
<1>8. PICK a, b \in r :
        /\ Merged(r) = (r \ {a, b}) \cup {Hull(a, b)} /\ Merged(r) \in RunSets
        /\ Cardinality(Merged(r)) \in Nat /\ Cardinality(Merged(r)) < Cardinality(r)
  <2> HIDE DEF Good, Bad, N
  <2> QED BY <1>5, <1>7, MergedIs
<1>9. Good(Merged(r))
  <2> HIDE DEF Good
  <2>1. Cardinality(Merged(r)) \notin N
    <3> HIDE DEF N
    <3> QED BY <1>3, <1>4, <1>5, <1>8
  <2> QED BY <1>8, <2>1
<1>10. Coalesce[r] = Coalesce[Merged(r)]
  BY <1>5, <1>7, CoalesceIs
<1>11. ASSUME NEW x \in r PROVE \E q \in Coalesce[r] : q.from <= x.from /\ x.to <= q.to
  <2>1. \E y \in Merged(r) : y \in RunType /\ y.from <= x.from /\ x.to <= y.to
    <3>1. CASE x \in Merged(r)
      <4>1. x \in RunType
        BY <1>5 DEF RunSets
      <4> QED BY <1>6, <3>1, <4>1
    <3>2. CASE x \in {a, b}
      <4>1. a \in RunType /\ b \in RunType
        BY <1>5 DEF RunSets
      <4>2. Hull(a, b) \in Merged(r)
        BY <1>8
      <4> QED BY <3>2, <4>1, <4>2, HullContains
    <3> QED BY <1>8, <3>1, <3>2
  <2>2. PICK y \in Merged(r) : y \in RunType /\ y.from <= x.from /\ x.to <= y.to
    BY <2>1
  <2>3. PICK q \in Coalesce[r] : q.from <= y.from /\ y.to <= q.to
    BY <1>9, <1>10, <2>2
  <2>4. q \in RunType
    BY <1>9, <1>10, <2>3 DEF RunSets
  <2>5. q.from \in Int /\ q.to \in Int /\ y.from \in Int /\ y.to \in Int
    BY <2>2, <2>4 DEF RunType
  <2> QED BY <1>6, <2>2, <2>3, <2>5
<1> QED BY <1>5, <1>9, <1>10, <1>11

\* A run that a request joins is measured with the leave it touches.
LEMMA RunAtLeast ==
  ASSUME NEW olds, IsFiniteSet(olds), NEW new \in SpanType, \A t \in olds : t \in SpanType,
         NEW old \in olds, Touches(old, new)
  PROVE  /\ RunLength(Hull(old, new)) <= ConsecutiveRunDays(olds, new)
         /\ RunLength(Hull(old, new)) \in Int /\ ConsecutiveRunDays(olds, new) \in Int
<1> DEFINE near == {t \in olds : ~(t.to + 1 < new.from \/ t.from - 1 > new.to)}
           runs == {Dates(t) : t \in near \cup {new}}
           ends == {RunLength(r) : r \in Coalesce[runs]}
<1>1. \A t \in SpanType : /\ t.from \in Int /\ t.to \in Int
                          /\ Dates(t) \in RunType /\ Dates(t).from = t.from /\ Dates(t).to = t.to
  BY DEF SpanType, RunType, Dates
<1>2. old \in near
  <2>1. old.from \in Int /\ old.to \in Int /\ new.from \in Int /\ new.to \in Int
    BY <1>1
  <2> QED BY <2>1 DEF Touches
<1>3. runs \in RunSets
  <2> DEFINE S == near \cup {new}
             f == [t \in S |-> Dates(t)]
  <2>1. IsFiniteSet(S)
    <3>1. IsFiniteSet(near)
      BY FS_Subset
    <3> QED BY <3>1, FS_AddElement
  <2>2. \A t \in S : f[t] = Dates(t) /\ Dates(t) \in RunType
    BY <1>1
  <2>3. IsFiniteSet({f[t] : t \in S})
    <3> HIDE DEF f, S
    <3> QED BY <2>1, ImageFinite
  <2>4. runs = {f[t] : t \in S}
    BY <2>2
  <2>5. runs \subseteq RunType
    BY <2>2
  <2> QED BY <2>3, <2>4, <2>5 DEF RunSets
<1>4. Dates(old) \in runs /\ Dates(new) \in runs
  BY <1>2
<1>5. ConsecutiveRunDays(olds, new) = Max(ends)
  BY DEF ConsecutiveRunDays
<1> HIDE DEF near, runs
<1>6. PICK p \in Coalesce[runs] : p.from <= old.from /\ old.to <= p.to
  BY <1>1, <1>3, <1>4, CoalesceCovers
<1>7. PICK q \in Coalesce[runs] : q.from <= new.from /\ new.to <= q.to
  BY <1>1, <1>3, <1>4, CoalesceCovers
<1>8. Coalesce[runs] \subseteq RunType /\ IsFiniteSet(Coalesce[runs]) /\ ~Touching(Coalesce[runs])
  BY <1>3, CoalesceCovers DEF RunSets
<1>9. \A r \in Coalesce[runs] : r.from \in Int /\ r.to \in Int /\ RunLength(r) \in Int
  BY <1>8 DEF RunType, RunLength
<1>10. old.from \in Int /\ old.to \in Int /\ new.from \in Int /\ new.to \in Int
  BY <1>1
<1>11. p = q
  <2>1. Touches(p, q)
    BY <1>6, <1>7, <1>9, <1>10 DEF Touches
  <2> QED BY <1>8, <2>1 DEF Touching
<1>12. RunLength(Hull(old, new)) <= RunLength(p)
  <2>1. /\ Min({old.from, new.from}) = (IF old.from <= new.from THEN old.from ELSE new.from)
        /\ Max({old.to, new.to}) = (IF old.to >= new.to THEN old.to ELSE new.to)
    BY <1>10, MinMaxOfTwo
  <2>2. /\ Hull(old, new).from = (IF old.from <= new.from THEN old.from ELSE new.from)
        /\ Hull(old, new).to = (IF old.to >= new.to THEN old.to ELSE new.to)
    BY <2>1 DEF Hull
  <2>3. /\ p.from <= Hull(old, new).from /\ Hull(old, new).to <= p.to
        /\ Hull(old, new).from \in Int /\ Hull(old, new).to \in Int
    BY <1>6, <1>7, <1>10, <1>11, <2>2
  <2> QED BY <1>9, <2>3 DEF RunLength
<1>13. Max(ends) \in ends /\ RunLength(p) <= Max(ends)
  <2> DEFINE f == [r \in Coalesce[runs] |-> RunLength(r)]
  <2>1. ends = {f[r] : r \in Coalesce[runs]}
    OBVIOUS
  <2>2. IsFiniteSet({f[r] : r \in Coalesce[runs]})
    <3> HIDE DEF f
    <3> QED BY <1>8, ImageFinite
  <2>3. IsFiniteSet(ends)
    BY <2>1, <2>2
  <2>4. (\A x \in ends : x \in Int) /\ RunLength(p) \in ends
    BY <1>9
  <2> HIDE DEF ends
  <2>5. Max(ends) \in ends /\ \A y \in ends : Max(ends) >= y
    BY <2>3, <2>4, MaxIs
  <2>6. Max(ends) >= RunLength(p) /\ Max(ends) \in Int /\ RunLength(p) \in Int
    BY <2>4, <2>5
  <2> QED BY <2>5, <2>6
<1>14. RunLength(Hull(old, new)) \in Int /\ Max(ends) \in Int
  <2>1. RunLength(Hull(old, new)) \in Int
    <3>1. /\ Min({old.from, new.from}) \in Int /\ Max({old.to, new.to}) \in Int
      BY <1>10, MinMaxOfTwo
    <3> QED BY <3>1 DEF Hull, RunLength
  <2> QED BY <1>9, <1>13, <2>1
<1> HIDE DEF ends
<1> QED BY <1>5, <1>9, <1>12, <1>13, <1>14

\* The hull of two spans does not depend on their order.
LEMMA HullSymmetric == \A a, b : Hull(a, b) = Hull(b, a) /\ (Touches(a, b) => Touches(b, a))
<1>1. ASSUME NEW a, NEW b PROVE Hull(a, b) = Hull(b, a)
  <2>1. {a.from, b.from} = {b.from, a.from} /\ {a.to, b.to} = {b.to, a.to}
    OBVIOUS
  <2> QED BY <2>1 DEF Hull
<1> QED BY <1>1 DEF Touches

\* The live leave of one type stays within the limit pair by pair.
LEMMA NeighbourStep ==
  TypeInv /\ NumberInv /\ SerialInv /\ NeighbourRunLimited /\ [Next]_vars => NeighbourRunLimited'
<1> SUFFICES ASSUME TypeInv, NumberInv, SerialInv, NeighbourRunLimited, [Next]_vars
             PROVE  NeighbourRunLimited'
  OBVIOUS
<1>1. CASE requests' = requests
  BY <1>1 DEF NeighbourRunLimited, Live, SameLeave
<1>2. ASSUME NEW s \in Session, SubmitCommit(s) PROVE NeighbourRunLimited'
  <2> DEFINE new == tx[s].number
             a == tx[s].ask
             live == LiveAsks(tx[s].ask.emp)
             same == {b.span : b \in {c \in live : c.type = a.type}}
  <2>1. /\ a \in Asks /\ new \notin Live /\ Live' = Live \cup {new} /\ requests'[new].ask = a
        /\ \A n \in Live : requests'[n] = requests[n]
        /\ MaxRun[a.type] # 0 => ConsecutiveRunDays(same, a.span) <= MaxRun[a.type]
        /\ \A n \in Live : requests[n].ask.emp = a.emp => requests[n].ask \in live
    BY <1>2, LiveAfterSubmission DEF Admissible, ConflictFree, Live
  <2>2. \A b \in Asks : b.span \in SpanType /\ b.type \in LeaveType
    BY TermsAssumption DEF AskType
  <2>3. live \subseteq Asks /\ \A n \in Live : requests[n].ask \in Asks
    BY DEF LiveAsks, Live, TypeInv, TypeOK, RowType
  <2>4. IsFiniteSet(same)
    <3> DEFINE D == {m \in DOMAIN requests :
                       /\ requests[m].ask.emp = a.emp
                       /\ requests[m].status \in {"PENDING", "APPROVED"}
                       /\ requests[m].ask.type = a.type}
               f == [m \in D |-> requests[m].ask.span]
    <3>1. IsFiniteSet(D)
      BY FS_Subset DEF TypeInv
    <3>2. IsFiniteSet({f[m] : m \in D})
      <4> HIDE DEF f, D
      <4> QED BY <3>1, ImageFinite
    <3>3. same = {f[m] : m \in D}
      BY DEF LiveAsks
    <3> QED BY <3>2, <3>3
  <2>5. \A t \in same : t \in SpanType
    BY <2>2, <2>3
  <2>6. \A n \in Live : requests[n].ask.emp = a.emp /\ requests[n].ask.type = a.type
                          => requests[n].ask.span \in same
    BY <2>1
  <2> HIDE DEF new, a, live, same
  <2>7. ASSUME NEW n \in Live, requests[n].ask.emp = a.emp, requests[n].ask.type = a.type,
               Touches(requests[n].ask.span, a.span), MaxRun[a.type] # 0
        PROVE  RunLength(Hull(requests[n].ask.span, a.span)) <= MaxRun[a.type]
    <3> DEFINE old == requests[n].ask.span
    <3>1. old \in same /\ old \in SpanType /\ a.span \in SpanType
      BY <2>1, <2>2, <2>3, <2>6, <2>7
    <3>2. /\ RunLength(Hull(old, a.span)) <= ConsecutiveRunDays(same, a.span)
          /\ RunLength(Hull(old, a.span)) \in Int /\ ConsecutiveRunDays(same, a.span) \in Int
      BY <2>4, <2>5, <2>7, <3>1, RunAtLeast
    <3>3. MaxRun[a.type] \in Nat
      BY <2>1, <2>2, TermsAssumption
    <3> QED BY <2>1, <2>7, <3>2, <3>3
  <2>8. ASSUME NEW m \in Live', NEW n \in Live', m # n,
               requests'[m].ask.emp = requests'[n].ask.emp,
               requests'[m].ask.type = requests'[n].ask.type,
               Touches(requests'[m].ask.span, requests'[n].ask.span),
               MaxRun[requests'[m].ask.type] # 0
        PROVE  RunLength(Hull(requests'[m].ask.span, requests'[n].ask.span))
                 <= MaxRun[requests'[m].ask.type]
    <3>1. CASE m \in Live /\ n \in Live
      BY <2>1, <2>8, <3>1 DEF NeighbourRunLimited, SameLeave
    <3>2. CASE m \in Live /\ n = new
      BY <2>1, <2>7, <2>8, <3>2
    <3>3. CASE m = new /\ n \in Live
      <4>1. Touches(requests[n].ask.span, a.span)
        BY <2>1, <2>8, <3>3, HullSymmetric
      <4>2. RunLength(Hull(requests[n].ask.span, a.span)) <= MaxRun[a.type]
        BY <2>1, <2>7, <2>8, <3>3, <4>1
      <4>3. Hull(requests[n].ask.span, a.span) = Hull(a.span, requests[n].ask.span)
        BY HullSymmetric
      <4> QED BY <2>1, <2>8, <3>3, <4>2, <4>3
    <3> QED BY <2>1, <2>8, <3>1, <3>2, <3>3
  <2> QED BY <2>8 DEF NeighbourRunLimited, SameLeave
<1>3. ASSUME NEW s \in Session, RuleCommit(s) PROVE NeighbourRunLimited'
  <2>1. Live' \subseteq Live /\ \A n \in Live : requests'[n].ask = requests[n].ask
    BY <1>3, LiveAfterRuling DEF Live
  <2> QED BY <2>1 DEF NeighbourRunLimited, SameLeave
<1>4. CASE Next
  <2>1. PICK s \in Session : requests' = requests \/ SubmitCommit(s) \/ RuleCommit(s)
    BY <1>4, NextCases DEF stored, SubmitCheck, ReadPending, SubmitBalance, SubmitCreate,
         SubmitCount, SubmitInsert, RuleUpdate, ApproveTally, ApproveBook, Abort
  <2> QED BY <1>1, <1>2, <1>3, <2>1
<1> QED BY <1>1, <1>4 DEF vars

\* When transactions do not overlap, two touching requests of one type
\* together respect the type's limit: the merge loop of the check sees them as
\* one run.
THEOREM NeighboursWithinLimit == Spec /\ []OneOpen => []NeighbourRunLimited
<1>1. Init => NeighbourRunLimited
  BY DEF Init, NeighbourRunLimited, Live
<1> QED BY <1>1, NeighbourStep, TypeInvariant, NumberInvariant, SerialInvariant, PTL DEF Spec

-----------------------------------------------------------------------------
(* One session is a case of transactions that do not overlap.              *)

\* With a single session no hypothesis about overlapping is left.
THEOREM OneSessionSuffices ==
  ASSUME \A s, o \in Session : s = o
  PROVE  Spec => [](LedgerExact /\ NoDoubleBooking /\ NeighbourRunLimited) /\ ImplementsBook
<1>1. OneOpen
  BY DEF OneOpen
<1> QED BY <1>1, LedgerIsExact, NobodyIsDoubleBooked, NeighboursWithinLimit,
           ServiceImplementsBook, PTL

=============================================================================
