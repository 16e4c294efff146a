------------------------------ MODULE LeaveDates ------------------------------
(***************************************************************************)
(* How the leave assistant turns what an employee says about dates into    *)
(* dates (agents/leave_agent/dates.py).  Days are numbered; day 0 is a     *)
(* Monday.                                                                 *)
(*                                                                         *)
(* A phrase names a day: a calendar date, an offset from today, or a       *)
(* weekday.  What a message says about dates is a form with up to two      *)
(* phrases and a number of days; a message without dates has the form      *)
(* "nothing".                                                              *)
(***************************************************************************)
EXTENDS Integers

NoDay == -1

Phrases ==
  [kind : {"date", "offset", "weekday", "next weekday"}, number : Nat] \cup
  [kind : {"none"}, number : {0}]

NoPhrase == [kind |-> "none", number |-> 0]

\* "range" is from ... to; "length" and "same" name no day of their own.
Forms == {"nothing", "day", "single", "range", "for", "to", "length", "same"}

\* _weekday_delta; the next weekday is the one of next week.
Ahead(weekday, base) == base + ((weekday - base) % 7)

NextWeek(weekday, base) ==
  IF base % 7 <= weekday THEN Ahead(weekday, base) + 7 ELSE Ahead(weekday, base)

\* resolve_start_date
ResolveStart(p, today) ==
  CASE p.kind = "none"         -> NoDay
    [] p.kind = "date"         -> p.number
    [] p.kind = "offset"       -> today + p.number
    [] p.kind = "weekday"      -> Ahead(p.number, today)
    [] p.kind = "next weekday" -> NextWeek(p.number, today)

NotBefore(start, day) == IF day >= start THEN day ELSE NoDay

\* resolve_end_date of a phrase: weekdays count from the start.
ResolveEnd(p, start, today) ==
  CASE p.kind = "none"         -> NoDay
    [] p.kind = "date"         -> NotBefore(start, p.number)
    [] p.kind = "offset"       -> NotBefore(start, today + p.number)
    [] p.kind = "weekday"      -> Ahead(p.number, start)
    [] p.kind = "next weekday" -> NextWeek(p.number, start)

\* extract_dates: the start and the end that a message gives.
Start(saying, today) ==
  IF saying.form \in {"nothing", "length", "same"} THEN NoDay ELSE ResolveStart(saying.first, today)

End(saying, today) ==
  LET start == Start(saying, today) IN
  IF start = NoDay THEN NoDay
  ELSE CASE saying.form = "day"             -> NoDay
         [] saying.form = "single"          -> start
         [] saying.form = "for"             -> start + saying.days - 1
         [] saying.form \in {"range", "to"} -> ResolveEnd(saying.last, start, today)

\* resolve_end_date of a message that names no day, for a start known before.
LaterEnd(saying, start) ==
  CASE saying.form = "same"                    -> start
    [] saying.form = "length"                  -> start + (IF saying.days = 0 THEN 0 ELSE saying.days - 1)
    [] saying.form \notin {"same", "length"}   -> NoDay
=============================================================================
