---------------------------- MODULE LeaveCalendar ----------------------------
(***************************************************************************)
(* The date arithmetic of capabilities/leave.py: how many working units a  *)
(* span of leave costs, which spans collide, and how long the run of leave *)
(* is that a new span joins.                                               *)
(*                                                                         *)
(* A date is a day number: day 0 is the Monday that opens year 0 and every *)
(* year has YearLength days.  Leave is counted in half-day units, so the   *)
(* Decimal("0.5") of the code is 1 unit and a full day is 2.               *)
(***************************************************************************)
EXTENDS Integers, FiniteSetsExt

CONSTANT YearLength     (* days in a year of the model calendar *)

ASSUME YearLengthAssumption == YearLength \in Nat \ {0}

-----------------------------------------------------------------------------
(***************************************************************************)
(* Spans.  half is "NO" for a full-day request and otherwise the           *)
(* half_day_period the request carries.                                    *)
(***************************************************************************)
Halves == {"NO", "MORNING", "AFTERNOON"}

SpanType == [from : Nat, to : Nat, half : Halves]

IsHalfDay(s) == s.half # "NO"

YearOf(day) == day \div YearLength

IsWeekend(day) == day % 7 >= 5

DaysOf(s) == s.from .. s.to

-----------------------------------------------------------------------------
(***************************************************************************)
(* Holidays.  A row is a date and whether it recurs every year.  The code  *)
(* loads the rows of every year the span touches (all recurring rows among *)
(* them) and projects the recurring ones onto each of those years.         *)
(***************************************************************************)
HolidayType == [date : Nat, yearly : BOOLEAN]

YearsOf(s) == YearOf(s.from) .. YearOf(s.to)

ListAll(rows, year) == {h \in rows : h.yearly \/ YearOf(h.date) = year}

\* The date a recurring holiday falls on in a year.
Anniversary(h, year) == year * YearLength + (h.date % YearLength)

\* A mutant: recurring holidays are projected onto the first year only.
HolidayDatesFirstYearOnly(rows, s) ==
  LET loaded == UNION {ListAll(rows, y) : y \in YearsOf(s)}
  IN  {h.date : h \in {g \in loaded : ~g.yearly}}
        \cup {Anniversary(h, YearOf(s.from)) : h \in {g \in loaded : g.yearly}}

HolidayDates(rows, s) ==
  LET loaded == UNION {ListAll(rows, y) : y \in YearsOf(s)}
  IN  {h.date : h \in {g \in loaded : ~g.yearly}}
        \cup {Anniversary(h, y) : h \in {g \in loaded : g.yearly}, y \in YearsOf(s)}

WorkingDays(rows, s) == {d \in DaysOf(s) : ~IsWeekend(d)} \ HolidayDates(rows, s)

\* The half-day checks that raise before a half unit is returned.
HalfDayAllowed(rows, s) == s.from = s.to /\ WorkingDays(rows, s) # {}

WorkingUnits(rows, s) ==
  IF IsHalfDay(s) THEN 1 ELSE 2 * Cardinality(WorkingDays(rows, s))

\* What request_leave accepts of the dates alone.
Requestable(rows, s, today) ==
  /\ s.from <= s.to
  /\ today <= s.from
  /\ IsHalfDay(s) => HalfDayAllowed(rows, s)
  /\ WorkingUnits(rows, s) > 0

-----------------------------------------------------------------------------
(***************************************************************************)
(* Collisions and runs.                                                    *)
(***************************************************************************)

\* _overlapping_request: two half days of one date collide only in the same
\* half; every other pair of intersecting spans collides.
Clash(old, new) ==
  /\ old.from <= new.to /\ new.from <= old.to
  /\ ~ /\ IsHalfDay(old) /\ IsHalfDay(new)
       /\ old.from = new.from
       /\ old.half # new.half

Touches(a, b) == a.from <= b.to + 1 /\ b.from <= a.to + 1

Hull(a, b) == [from |-> Min({a.from, b.from}), to |-> Max({a.to, b.to})]

RunType == [from : Int, to : Int]

\* The code merges a list, so a set of runs is finite.
RunSets == {runs \in SUBSET RunType : IsFiniteSet(runs)}

\* The merge loop: while two runs touch, replace them by their hull.
Coalesce[runs \in RunSets] ==
  IF \E a, b \in runs : a # b /\ Touches(a, b)
  THEN LET pair == CHOOSE p \in runs \X runs : p[1] # p[2] /\ Touches(p[1], p[2])
       IN  Coalesce[(runs \ {pair[1], pair[2]}) \cup {Hull(pair[1], pair[2])}]
  ELSE runs

Dates(s) == [from |-> s.from, to |-> s.to]

RunLength(r) == r.to - r.from + 1

\* A mutant: the new span is measured without the leave it joins.
ConsecutiveRunDaysAlone(olds, new) == RunLength(Dates(new))

\* _consecutive_run_days: only spans that touch the new span itself are
\* kept before the merge.
ConsecutiveRunDays(olds, new) ==
  LET near == {s \in olds : ~(s.to + 1 < new.from \/ s.from - 1 > new.to)}
  IN  Max({RunLength(r) : r \in Coalesce[{Dates(s) : s \in near \cup {new}}]})
=============================================================================
