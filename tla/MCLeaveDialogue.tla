---------------------------- MODULE MCLeaveDialogue ----------------------------
(***************************************************************************)
(* An instance of the dialogue: what a user may say about one request for  *)
(* leave, its dates in every form, and about one request in the books.     *)
(***************************************************************************)
EXTENDS LeaveDialogue

On(kind, number) == [kind |-> kind, number |-> number]

Speech(form, first, last, days) == [form |-> form, first |-> first, last |-> last, days |-> days]

Silence == Speech("nothing", NoPhrase, NoPhrase, 0)

Saying(words, type, number, half, says) ==
  [words |-> words, type |-> type, number |-> number, half |-> half, says |-> says]

Plain(words) == Saying(words, None, None, "NO", Silence)

About(words, number) == Saying(words \cup {"leave"}, None, number, "NO", Silence)

Wish(type, half, says) == Saying({"want", "leave"}, type, None, half, says)

Rejoinder(half, says) == Saying({}, None, None, half, says)

Tomorrow == On("offset", 1)

Friday == On("weekday", 4)

SomeMessages ==
  {Plain({}), Plain({"drop"}), Plain({"listing"}), Plain({"balance", "leave"}),
   Plain({"history"}), Plain({"employee", "balance"}), Plain({"want", "leave"}),
   About({"cancel"}, None), About({"cancel"}, 1), About({"reject"}, 1), About({"approve"}, 1),
   About({"review"}, 1),
   Wish("sick", "NO", Speech("day", Tomorrow, NoPhrase, 0)),
   Wish(None, "MORNING", Speech("range", On("next weekday", 0), Friday, 0)),
   Saying({"want", "review", "leave"}, None, None, "NO", Speech("for", Tomorrow, NoPhrase, 2)),
   Saying({}, "annual", None, "NO", Speech("single", On("offset", 0), NoPhrase, 0)),
   Saying({}, "sick", None, "NO", Silence),
   Rejoinder("MORNING", Silence),
   Rejoinder("NO", Speech("day", On("date", 3), NoPhrase, 0)),
   Rejoinder("NO", Speech("to", Friday, Friday, 0)),
   Rejoinder("NO", Speech("length", NoPhrase, NoPhrase, 3)),
   Rejoinder("NO", Speech("same", NoPhrase, NoPhrase, 0))}

SomeSubmissions ==
  {[type |-> "annual", from |-> 4, to |-> 2, half |-> "NO"],
   [type |-> "sick", from |-> 1, to |-> 2, half |-> "NO"],
   [type |-> "annual", from |-> 4, to |-> 5, half |-> "MORNING"],
   [type |-> "annual", from |-> 4, to |-> 4, half |-> "MORNING"]}
=============================================================================
