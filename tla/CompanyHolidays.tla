--------------------------- MODULE CompanyHolidays ---------------------------
(***************************************************************************)
(* The company holiday table and the charge it implies for leave           *)
(* (capabilities/leave.py, the holiday operations and                      *)
(* calculate_working_days).  HR adds and removes holidays; a date holds at *)
(* most one, recurring or not.                                             *)
(***************************************************************************)
EXTENDS LeaveCalendar

CONSTANTS
  HolidayDay,   (* the dates HR may declare a holiday *)
  Window        (* the dates leave is priced over     *)

ASSUME WindowAssumption == HolidayDay \subseteq Nat /\ Window \subseteq Nat

VARIABLE holidays   (* the rows of company_holiday *)

CreateHoliday(date, yearly) ==
  /\ \A h \in holidays : h.date # date
  /\ holidays' = holidays \cup {[date |-> date, yearly |-> yearly]}

DeleteHoliday(h) == holidays' = holidays \ {h}

InitHolidays == holidays = {}

NextHolidays ==
  \/ \E d \in HolidayDay, yearly \in BOOLEAN : CreateHoliday(d, yearly)
  \/ \E h \in holidays : DeleteHoliday(h)

HolidaySpec == InitHolidays /\ [][NextHolidays]_holidays

-----------------------------------------------------------------------------
Whole(from, to) == [from |-> from, to |-> to, half |-> "NO"]

Charge(from, to) == WorkingUnits(holidays, Whole(from, to))

\* A day the office is closed, said of the table alone: a weekend, a holiday
\* on that date, or a recurring holiday on that day of any year.
Closed(d) ==
  \/ IsWeekend(d)
  \/ \E h \in holidays :
       h.date = d \/ (h.yearly /\ h.date % YearLength = d % YearLength)

\* What a span costs does not depend on the years it touches or on the years
\* the holidays were declared in: every open day costs two units.
ChargeIsOpenDays ==
  \A from, to \in Window :
    from <= to => Charge(from, to) = 2 * Cardinality({d \in from .. to : ~Closed(d)})
=============================================================================
