--------------------------- MODULE MCLeaveRequests ---------------------------
(***************************************************************************)
(* Instances of the leave service.  A year of the model has 14 days, so    *)
(* day 0 and day 14 are the Mondays that open years 0 and 1.               *)
(***************************************************************************)
EXTENDS LeaveRequests, TLC

CONSTANTS Ann, Bob, Annual, Sick

Span(from, to) == [from |-> from, to |-> to, half |-> "NO"]

Half(day, half) == [from |-> day, to |-> day, half |-> half]

Ask(e, t, span) == [emp |-> e, type |-> t, span |-> span]

People == {Ann, Bob}

\* Racing sessions: two spans of one balance, one of another employee, one
\* of the next year.
RaceAsks ==
  {Ask(Ann, Annual, Span(0, 1)), Ask(Ann, Annual, Span(2, 2)),
   Ask(Bob, Annual, Span(0, 0)), Ask(Ann, Annual, Span(14, 14))}

RaceTypes == {Annual}

RaceUnits == (Annual :> 4)

RaceRun == (Annual :> 0)

\* One session: a week of adjacent spans, half days, two leave types, and
\* spans that cross a weekend and the turn of the year.
SerialAsks ==
  {Ask(Ann, Annual, Span(0, 1)), Ask(Ann, Annual, Span(2, 3)),
   Ask(Ann, Annual, Span(4, 4)), Ask(Ann, Annual, Span(4, 7)), Ask(Ann, Annual, Span(11, 14)),
   Ask(Ann, Sick, Half(3, "MORNING")), Ask(Ann, Sick, Half(3, "AFTERNOON")),
   Ask(Ann, Sick, Span(1, 2)), Ask(Bob, Annual, Half(3, "MORNING"))}

SerialTypes == {Annual, Sick}

SerialUnits == (Annual :> 8 @@ Sick :> 3)

SerialRun == (Annual :> 4 @@ Sick :> 2)

SerialHolidays == {[date |-> 7, yearly |-> FALSE]}
=============================================================================
