---------------------------- MODULE LeaveRequests ----------------------------
(***************************************************************************)
(* The leave service (capabilities/leave.py) as it runs: each HTTP request *)
(* or chat tool call is one database transaction, and the transactions of  *)
(* several sessions interleave statement by statement under PostgreSQL's   *)
(* READ COMMITTED.  A SELECT sees what is committed when it runs; an       *)
(* UPDATE waits for the row lock of another open transaction and then      *)
(* overwrites; an INSERT waits for an open transaction that inserted the   *)
(* same unique key and fails when that key is committed.  What a           *)
(* transaction wrote becomes visible in its commit step and is dropped     *)
(* when it is rolled back.                                                 *)
(***************************************************************************)
EXTENDS LeaveTerms, Sequences

CONSTANTS
  Session,        (* concurrent request handlers, each with its own DB session *)
  HasApprover,    (* employees whose approver's address resolves               *)
  MaxRequests     (* bound on committed requests and open submissions together *)

ASSUME SessionAssumption ==
  /\ HasApprover \subseteq Employee
  /\ MaxRequests \in Nat

VARIABLES
  requests,   (* committed leave_request rows, by request_number              *)
  balances,   (* committed leave_balance rows, by key: used_days in units     *)
  outbox,     (* outbox jobs enqueued for a request, by number, in order      *)
  trail,      (* audit records of a request, by number: its statuses in order *)
  pc,         (* where each session's transaction stands                      *)
  tx          (* what each session's transaction holds in memory              *)

vars == <<requests, balances, outbox, trail, pc, tx>>

stored == <<requests, balances, outbox, trail>>

-----------------------------------------------------------------------------
Verdicts == {"APPROVED", "REJECTED", "CANCELLED"}

Statuses == {"PENDING"} \cup Verdicts

Mails == {"SEND_LEAVE_REQUEST_RECEIVED", "SEND_NEW_LEAVE_REQUEST_ALERT",
          "SEND_LEAVE_APPROVAL_EMAIL", "SEND_LEAVE_REJECTED"}

RowType == [ask : Asks, days : Nat, status : Statuses, version : Nat]

(***************************************************************************)
(* Program points.  A submission goes balance -> [create ->] count ->      *)
(* insert -> inserted; a decision goes update -> [tally -> book ->]        *)
(* written, where the bracketed steps are the booking of an approval.      *)
(***************************************************************************)
SubmitPoints == {"balance", "create", "count", "insert", "inserted"}

RulePoints == {"update", "tally", "book", "written"}

\* fresh: this transaction inserted the balance row.
SubmitTx == [ask : Asks, fresh : BOOLEAN, number : NumberType]

\* version and seen are what the transaction read of the request's version
\* and of the balance's used_days.
RuleTx == [number : NumberType, verdict : Verdicts, version : Nat, seen : Nat]

NoTx == [number |-> <<0, 0>>]

Submitting == {s \in Session : pc[s] \in SubmitPoints}

LiveAsks(e) ==
  {requests[n].ask : n \in {m \in DOMAIN requests :
      requests[m].ask.emp = e /\ requests[m].status \in {"PENDING", "APPROVED"}}}

KeyOfRequest(n) == KeyOf(requests[n].ask)

\* A mutant: leaving a transaction keeps its in-memory objects.
KeepTx(s) == pc' = [pc EXCEPT ![s] = "idle"] /\ tx' = tx

\* The session is closed; what the transaction wrote and did not commit is gone.
EndTx(s) == pc' = [pc EXCEPT ![s] = "idle"] /\ tx' = [tx EXCEPT ![s] = NoTx]

Goto(s, point) == pc' = [pc EXCEPT ![s] = point] /\ UNCHANGED tx

-----------------------------------------------------------------------------
(***************************************************************************)
(* Locks held by open transactions.                                        *)
(***************************************************************************)

\* A mutant: reading a request for a decision already takes its row lock in
\* shared mode, to be upgraded by the UPDATE.
HoldsRequestFromRead(o, n) == pc[o] \in RulePoints /\ tx[o].number = n

HoldsRequest(o, n) == pc[o] \in {"tally", "book", "written"} /\ tx[o].number = n

HoldsBalance(o, k) ==
  /\ pc[o] = "written"
  /\ tx[o].verdict = "APPROVED"
  /\ KeyOfRequest(tx[o].number) = k

HoldsNewBalance(o, k) ==
  /\ pc[o] \in {"count", "insert", "inserted"}
  /\ tx[o].fresh
  /\ KeyOf(tx[o].ask) = k

HoldsNumber(o, n) == pc[o] = "inserted" /\ tx[o].number = n

\* s is at a statement that waits for the open transaction of o.
WaitsFor(s, o) ==
  /\ s # o
  /\ \/ pc[s] = "update" /\ HoldsRequest(o, tx[s].number)
     \/ pc[s] = "book" /\ HoldsBalance(o, KeyOfRequest(tx[s].number))
     \/ pc[s] = "create" /\ HoldsNewBalance(o, KeyOf(tx[s].ask))
     \/ pc[s] = "insert" /\ HoldsNumber(o, tx[s].number)

Granted(s) == \A o \in Session : ~WaitsFor(s, o)

-----------------------------------------------------------------------------
(***************************************************************************)
(* request_leave.  A check that fails raises before anything is written;   *)
(* it leaves no trace, so only the passing case is a step.                 *)
(***************************************************************************)
SubmitCheck(s, a) ==
  /\ pc[s] = "idle"
  /\ Cardinality(DOMAIN requests) + Cardinality(Submitting) < MaxRequests
  /\ Admissible(LiveAsks(a.emp), a)
  /\ pc' = [pc EXCEPT ![s] = "balance"]
  /\ tx' = [tx EXCEPT ![s] =
              [ask |-> a, fresh |-> FALSE, number |-> <<YearOfAsk(a), 0>>]]
  /\ UNCHANGED stored

\* _get_or_create_balance finds the row, and the balance check follows.
SubmitBalance(s) ==
  /\ pc[s] = "balance"
  /\ LET k == KeyOf(tx[s].ask) IN
       \/ k \notin DOMAIN balances /\ Goto(s, "create")
       \/ k \in DOMAIN balances /\ Covers(balances[k], tx[s].ask) /\ Goto(s, "count")
       \/ k \in DOMAIN balances /\ ~Covers(balances[k], tx[s].ask) /\ EndTx(s)
  /\ UNCHANGED stored

\* _get_or_create_balance inserts the row with the type's default days; the
\* unique constraint refuses it when another session committed it meanwhile.
SubmitCreate(s) ==
  /\ pc[s] = "create"
  /\ Granted(s)
  /\ \/ /\ KeyOf(tx[s].ask) \notin DOMAIN balances
        /\ Covers(0, tx[s].ask)
        /\ pc' = [pc EXCEPT ![s] = "count"]
        /\ tx' = [tx EXCEPT ![s].fresh = TRUE]
     \/ KeyOf(tx[s].ask) \in DOMAIN balances /\ EndTx(s)
     \/ /\ KeyOf(tx[s].ask) \notin DOMAIN balances
        /\ ~Covers(0, tx[s].ask)
        /\ EndTx(s)
  /\ UNCHANGED stored

SubmitCount(s) ==
  /\ pc[s] = "count"
  /\ pc' = [pc EXCEPT ![s] = "insert"]
  /\ tx' = [tx EXCEPT ![s].number = NextNumber(DOMAIN requests, YearOfAsk(tx[s].ask))]
  /\ UNCHANGED stored

\* A mutant: an insert of a number that is already taken is not refused.
SubmitInsertUnchecked(s) ==
  /\ pc[s] = "insert"
  /\ Granted(s)
  /\ Goto(s, "inserted")
  /\ UNCHANGED stored

\* A mutant: a number that is already taken is waited for, for ever.
SubmitInsertNoError(s) ==
  /\ pc[s] = "insert"
  /\ Granted(s)
  /\ tx[s].number \notin DOMAIN requests
  /\ Goto(s, "inserted")
  /\ UNCHANGED stored

SubmitInsert(s) ==
  /\ pc[s] = "insert"
  /\ Granted(s)
  /\ \/ tx[s].number \notin DOMAIN requests /\ Goto(s, "inserted")
     \/ tx[s].number \in DOMAIN requests /\ EndTx(s)
  /\ UNCHANGED stored

ReceivedMails(e) ==
  IF e \in HasApprover
  THEN <<"SEND_LEAVE_REQUEST_RECEIVED", "SEND_NEW_LEAVE_REQUEST_ALERT">>
  ELSE <<"SEND_LEAVE_REQUEST_RECEIVED">>

\* f with the value v at n, whether or not n was in its domain.
Put(f, n, v) == [m \in DOMAIN f \cup {n} |-> IF m = n THEN v ELSE f[m]]

\* A mutant: the new balance row is not part of what is committed.
NewBalanceLost(s) == balances

\* The balance rows once s commits its submission.
NewBalances(s) ==
  IF tx[s].fresh THEN Put(balances, KeyOf(tx[s].ask), 0) ELSE balances

\* Outbox jobs, audit record and commit.
SubmitCommit(s) ==
  /\ pc[s] = "inserted"
  /\ LET a == tx[s].ask
         n == tx[s].number
     IN  /\ requests' = Put(requests, n,
              [ask |-> a, days |-> UnitsOf(a), status |-> "PENDING", version |-> 1])
         /\ balances' = NewBalances(s)
         /\ outbox' = Put(outbox, n, ReceivedMails(a.emp))
         /\ trail' = Put(trail, n, <<"PENDING">>)
  /\ EndTx(s)

-----------------------------------------------------------------------------
(***************************************************************************)
(* decide_request and cancel_request, by id or by reference.               *)
(***************************************************************************)

\* A mutant: the status read is not checked.
ReadUnchecked(s, n, verdict) ==
  /\ pc[s] = "idle"
  /\ pc' = [pc EXCEPT ![s] = "update"]
  /\ tx' = [tx EXCEPT ![s] = [number |-> n, verdict |-> verdict,
                              version |-> requests[n].version, seen |-> 0]]
  /\ UNCHANGED stored

\* The SELECT of the request and the check that it is still PENDING.
ReadPending(s, n, verdict) ==
  /\ pc[s] = "idle"
  /\ requests[n].status = "PENDING"
  /\ pc' = [pc EXCEPT ![s] = "update"]
  /\ tx' = [tx EXCEPT ![s] = [number |-> n, verdict |-> verdict,
                              version |-> requests[n].version, seen |-> 0]]
  /\ UNCHANGED stored

DecideRead(s, n) == \E v \in {"APPROVED", "REJECTED"} : ReadPending(s, n, v)

CancelRead(s, n) == ReadPending(s, n, "CANCELLED")

\* The flushed UPDATE of the request row takes its lock.
RuleUpdate(s) ==
  /\ pc[s] = "update"
  /\ Granted(s)
  /\ Goto(s, IF tx[s].verdict = "APPROVED" THEN "tally" ELSE "written")
  /\ UNCHANGED stored

\* _get_or_create_balance of an approval.  It finds a row: the submission
\* committed one (EveryRequestHasBalance).
ApproveTally(s) ==
  /\ pc[s] = "tally"
  /\ KeyOfRequest(tx[s].number) \in DOMAIN balances
  /\ pc' = [pc EXCEPT ![s] = "book"]
  /\ tx' = [tx EXCEPT ![s].seen = balances[KeyOfRequest(tx[s].number)]]
  /\ UNCHANGED stored

\* The flushed UPDATE of used_days takes the lock of the balance row.
ApproveBook(s) ==
  /\ pc[s] = "book"
  /\ Granted(s)
  /\ Goto(s, "written")
  /\ UNCHANGED stored

\* A mutant: the two decision mails are swapped.
DecisionMailsSwapped(verdict) ==
  CASE verdict = "APPROVED" -> <<"SEND_LEAVE_REJECTED">>
    [] verdict = "REJECTED" -> <<"SEND_LEAVE_APPROVAL_EMAIL">>
    [] OTHER                -> <<>>

DecisionMails(verdict) ==
  CASE verdict = "APPROVED" -> <<"SEND_LEAVE_APPROVAL_EMAIL">>
    [] verdict = "REJECTED" -> <<"SEND_LEAVE_REJECTED">>
    [] OTHER                -> <<>>

\* A mutant: a rejection books the days as well.
BookedBalancesAlways(s) ==
  [balances EXCEPT ![KeyOfRequest(tx[s].number)] =
     tx[s].seen + requests[tx[s].number].days]

\* used_days is written as the value read plus the days, not as an increment.
BookedBalances(s) ==
  IF tx[s].verdict = "APPROVED"
  THEN [balances EXCEPT ![KeyOfRequest(tx[s].number)] =
          tx[s].seen + requests[tx[s].number].days]
  ELSE balances

RuleCommit(s) ==
  /\ pc[s] = "written"
  /\ LET n == tx[s].number
         v == tx[s].verdict
     IN  /\ requests' = [requests EXCEPT ![n].status = v, ![n].version = tx[s].version + 1]
         /\ balances' = BookedBalances(s)
         /\ outbox' = [outbox EXCEPT ![n] = @ \o DecisionMails(v)]
         /\ trail' = [trail EXCEPT ![n] = Append(@, v)]
  /\ EndTx(s)

\* A disconnect, a database error or a crash of the process before commit.
Abort(s) == pc[s] # "idle" /\ EndTx(s) /\ UNCHANGED stored

-----------------------------------------------------------------------------
Init ==
  /\ requests = [n \in {} |-> 0]
  /\ balances = [k \in {} |-> 0]
  /\ outbox = [n \in {} |-> <<>>]
  /\ trail = [n \in {} |-> <<>>]
  /\ pc = [s \in Session |-> "idle"]
  /\ tx = [s \in Session |-> NoTx]

Locking(s) == SubmitCreate(s) \/ SubmitInsert(s) \/ RuleUpdate(s) \/ ApproveBook(s)

Running(s) ==
  \/ SubmitBalance(s) \/ SubmitCount(s) \/ SubmitCommit(s)
  \/ ApproveTally(s) \/ RuleCommit(s)

Next ==
  \E s \in Session :
    \/ \E a \in Asks : SubmitCheck(s, a)
    \/ \E n \in DOMAIN requests : DecideRead(s, n) \/ CancelRead(s, n)
    \/ Running(s)
    \/ Locking(s)
    \/ Abort(s)

Spec == Init /\ [][Next]_vars

(***************************************************************************)
(* A handler that can run its next statement eventually does.  PostgreSQL  *)
(* grants a row lock in the order of the waiters, so a statement that is   *)
(* again and again free to take its lock gets it (strong fairness).        *)
(* Nobody has to submit or decide.                                         *)
(***************************************************************************)
Fairness == \A s \in Session : WF_vars(Running(s)) /\ SF_vars(Locking(s))

FairSpec == Spec /\ Fairness
-----------------------------------------------------------------------------
(***************************************************************************)
(* Properties of every interleaving.                                       *)
(***************************************************************************)
TxOK(s) ==
  /\ pc[s] \in {"idle"} \cup SubmitPoints \cup RulePoints
  /\ pc[s] = "idle" => tx[s] = NoTx
  /\ pc[s] \in SubmitPoints => tx[s] \in SubmitTx
  /\ pc[s] \in RulePoints => tx[s] \in RuleTx /\ tx[s].number \in DOMAIN requests

\* Type invariant.  An idle session keeps nothing of its last transaction, and
\* a ruling transaction is about a committed request.
TypeOK ==
  /\ DOMAIN requests \subseteq NumberType
  /\ requests \in [DOMAIN requests -> RowType]
  /\ DOMAIN balances \subseteq BalanceKey
  /\ balances \in [DOMAIN balances -> Nat]
  /\ outbox \in [DOMAIN requests -> Seq(Mails)]
  /\ trail \in [DOMAIN requests -> Seq(Statuses)]
  /\ DOMAIN pc = Session /\ DOMAIN tx = Session
  /\ \A s \in Session : TxOK(s)

\* Request numbers of a year are 1 .. n: concurrent submissions that counted
\* the same rows neither share a number nor leave a gap (leave.py:463-465).
NumbersContiguous ==
  \A y \in {n[1] : n \in DOMAIN requests} :
    OfYear(DOMAIN requests, y) = {y} \X (1 .. CountForYear(DOMAIN requests, y))

\* Sessions never wait on each other in a circle: every transaction takes its
\* locks in the order request, balance, number.
NoWaitCycle ==
  \A S \in (SUBSET Session) \ {{}} : \E s \in S : \A o \in S : ~WaitsFor(s, o)

\* A decision always finds the balance row its request was checked against,
\* so an approval never creates one with an unbooked default.
EveryRequestHasBalance ==
  \A n \in DOMAIN requests : KeyOfRequest(n) \in DOMAIN balances

DecisionMail(status) ==
  IF status = "APPROVED" THEN "SEND_LEAVE_APPROVAL_EMAIL" ELSE "SEND_LEAVE_REJECTED"

\* However decisions raced, what is recorded agrees: the row's status is the
\* last one audited, the last mail to the employee announces it when it is a
\* decision, and version 1 is exactly an undecided request.
RecordsAgree ==
  \A n \in DOMAIN requests :
    LET status == requests[n].status IN
    /\ trail[n][Len(trail[n])] = status
    /\ status \in {"APPROVED", "REJECTED"} =>
         outbox[n][Len(outbox[n])] = DecisionMail(status)
    /\ (requests[n].version = 1) <=> (status = "PENDING")

Approvals(n) == Cardinality({i \in DOMAIN trail[n] : trail[n][i] = "APPROVED"})

\* used_days never holds a unit that no audited approval granted, even when
\* concurrent bookings overwrite each other (leave.py:727).
UsedBackedByApprovals ==
  \A k \in DOMAIN balances :
    balances[k] <= MapThenSumSet(LAMBDA n : requests[n].days * Approvals(n),
                                 {n \in DOMAIN requests : KeyOfRequest(n) = k})

\* No step makes a request vanish, changes what was asked or reopens it.
NeverReopened ==
  [][\A n \in DOMAIN requests :
       /\ n \in DOMAIN requests'
       /\ requests'[n].ask = requests[n].ask
       /\ requests'[n].status = "PENDING" => requests[n].status = "PENDING"]_vars

\* Every transaction that starts ends: no session hangs on a lock or on a
\* request number that was taken.
TransactionsEnd == \A s \in Session : pc[s] # "idle" ~> pc[s] = "idle"

-----------------------------------------------------------------------------
(***************************************************************************)
(* Properties of a service that runs one transaction at a time.            *)
(***************************************************************************)

\* A request is decided or cancelled at most once and announced at most once
\* (leave.py:24-27).
DecidedOnce ==
  \A n \in DOMAIN requests :
    /\ Len(trail[n]) <= 2
    /\ Cardinality({i \in DOMAIN outbox[n] : outbox[n][i] \in
           {"SEND_LEAVE_APPROVAL_EMAIL", "SEND_LEAVE_REJECTED"}}) <= 1

HalfDays(s) ==
  {<<d, h>> : d \in DaysOf(s), h \in IF IsHalfDay(s) THEN {s.half} ELSE {"MORNING", "AFTERNOON"}}

Live == {n \in DOMAIN requests : requests[n].status \in {"PENDING", "APPROVED"}}

\* No employee is away twice in one half day, whatever the leave types.
NoDoubleBooking ==
  \A m, n \in Live :
    m # n /\ requests[m].ask.emp = requests[n].ask.emp =>
      HalfDays(requests[m].ask.span) \cap HalfDays(requests[n].ask.span) = {}

\* The used days of a balance are the days of its approved requests.
LedgerExact ==
  \A k \in DOMAIN balances :
    balances[k] = MapThenSumSet(LAMBDA n : requests[n].days,
                    {n \in DOMAIN requests :
                       KeyOfRequest(n) = k /\ requests[n].status = "APPROVED"})

SameLeave(m, n) ==
  /\ requests[m].ask.emp = requests[n].ask.emp
  /\ requests[m].ask.type = requests[n].ask.type

\* Two touching requests of one type together respect the type's limit.
NeighbourRunLimited ==
  \A m, n \in Live :
    LET a == requests[m].ask.span
        b == requests[n].ask.span
    IN  SameLeave(m, n) /\ Touches(a, b) /\ MaxRun[requests[m].ask.type] # 0 =>
          \/ m = n
          \/ RunLength(Hull(a, b)) <= MaxRun[requests[m].ask.type]

\* The whole unbroken run of leave that a request is part of respects the
\* limit ("Total days of the contiguous leave run this new request joins",
\* leave.py:853).
RunLimitHonoured ==
  \A n \in Live :
    LET limit == MaxRun[requests[n].ask.type]
        away  == UNION {DaysOf(requests[m].ask.span) : m \in {o \in Live : SameLeave(o, n)}}
    IN  limit # 0 =>
          \A first \in away : ~(first .. first + limit \subseteq away)

Book == INSTANCE LeaveBook WITH
  book <- [n \in DOMAIN requests |->
             [ask |-> requests[n].ask, status |-> requests[n].status]],
  used <- [k \in BalanceKey |-> IF k \in DOMAIN balances THEN balances[k] ELSE 0]

\* One transaction at a time, the service implements the atomic leave book.
ImplementsBook == Book!Spec
=============================================================================
