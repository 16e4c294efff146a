------------------------------- MODULE LeaveBook -------------------------------
(***************************************************************************)
(* What the leave service promises: a book of numbered requests, each      *)
(* decided or cancelled at most once (domain/leave.py), and a ledger of    *)
(* used units in which an approval is entered exactly once.  Every         *)
(* operation is one atomic step.                                           *)
(***************************************************************************)
EXTENDS LeaveTerms

CONSTANT MaxRequests    (* bound on the number of requests in the book *)

VARIABLES
  book,   (* number -> the request: what was asked and its status *)
  used    (* balance -> units booked by approvals                 *)

bookVars == <<book, used>>

Verdicts == {"APPROVED", "REJECTED", "CANCELLED"}

LiveAsks(e) ==
  {book[n].ask : n \in {m \in DOMAIN book :
                         book[m].ask.emp = e /\ book[m].status \in {"PENDING", "APPROVED"}}}

Init ==
  /\ book = [n \in {} |-> 0]
  /\ used = [k \in BalanceKey |-> 0]

Submit(a) ==
  LET n == NextNumber(DOMAIN book, YearOfAsk(a))
  IN  /\ Cardinality(DOMAIN book) < MaxRequests
      /\ Admissible(LiveAsks(a.emp), a)
      /\ Covers(used[KeyOf(a)], a)
      /\ n \notin DOMAIN book
      /\ book' = [m \in DOMAIN book \cup {n} |->
                    IF m = n THEN [ask |-> a, status |-> "PENDING"] ELSE book[m]]
      /\ UNCHANGED used

Conclude(n, verdict) ==
  /\ book[n].status = "PENDING"
  /\ book' = [book EXCEPT ![n].status = verdict]
  /\ used' = IF verdict = "APPROVED"
             THEN [used EXCEPT ![KeyOf(book[n].ask)] = @ + UnitsOf(book[n].ask)]
             ELSE used

Next ==
  \/ \E a \in Asks : Submit(a)
  \/ \E n \in DOMAIN book, v \in Verdicts : Conclude(n, v)

Spec == Init /\ [][Next]_bookVars
=============================================================================
