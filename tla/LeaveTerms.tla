------------------------------ MODULE LeaveTerms ------------------------------
(***************************************************************************)
(* What the leave modules share: the things an employee may ask for, the   *)
(* balance a request draws on, and the checks request_leave makes of a     *)
(* request against the employee's live leave.                              *)
(***************************************************************************)
EXTENDS LeaveCalendar

CONSTANTS
  Employee,
  LeaveType,
  Asks,           (* the submissions that may be attempted                *)
  DefaultUnits,   (* leave_type.default_days, in half-day units           *)
  MaxRun,         (* leave_type.max_consecutive_days; 0 when it is NULL   *)
  Holidays,       (* the rows of company_holiday                          *)
  Today

AskType == [emp : Employee, type : LeaveType, span : SpanType]

ASSUME TermsAssumption ==
  /\ Asks \subseteq AskType
  /\ DefaultUnits \in [LeaveType -> Nat]
  /\ MaxRun \in [LeaveType -> Nat]
  /\ Holidays \subseteq HolidayType
  /\ Today \in Nat

YearOfAsk(a) == YearOf(a.span.from)

\* A balance row is unique per employee, leave type and year; a request is
\* charged to the year it starts in.
KeyOf(a) == <<a.emp, a.type, YearOfAsk(a)>>

BalanceKey == {KeyOf(a) : a \in Asks}

UnitsOf(a) == WorkingUnits(Holidays, a.span)

\* A mutant: only leave of the requested type is compared.
ConflictFreeWithinType(live, a) ==
  LET limit == MaxRun[a.type]
      same  == {b.span : b \in {c \in live : c.type = a.type}}
  IN  /\ \A s \in same : ~Clash(s, a.span)
      /\ limit # 0 => UnitsOf(a) <= 2 * limit /\ ConsecutiveRunDays(same, a.span) <= limit

\* check_request_conflicts, for the asks of the employee's live requests.
ConflictFree(live, a) ==
  LET limit == MaxRun[a.type]
      same  == {b.span : b \in {c \in live : c.type = a.type}}
  IN  /\ \A b \in live : ~Clash(b.span, a.span)
      /\ limit # 0 => UnitsOf(a) <= 2 * limit /\ ConsecutiveRunDays(same, a.span) <= limit

Admissible(live, a) ==
  /\ Requestable(Holidays, a.span, Today)
  /\ ConflictFree(live, a)

Covers(used, a) == UnitsOf(a) <= DefaultUnits[a.type] - used

-----------------------------------------------------------------------------
(***************************************************************************)
(* Request numbers LR-<year>-<k> are pairs <<year, k>>.                    *)
(***************************************************************************)
NumberType == Nat \X Nat

OfYear(numbers, y) == {n \in numbers : n[1] = y}

\* A mutant: the count runs over the rows of every year.
CountOfAllYears(numbers, y) == Cardinality(numbers)

\* count_for_year
CountForYear(numbers, y) == Cardinality(OfYear(numbers, y))

NextNumber(numbers, y) == <<y, CountForYear(numbers, y) + 1>>
=============================================================================
