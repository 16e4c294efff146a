------------------------------- MODULE Settings -------------------------------
(***************************************************************************)
(* The settings page and its readers (capabilities/settings.py,            *)
(* repositories/env_settings.py): managers edit prompts and the connection *)
(* of the model in the .env file, which every request reads whole, changes *)
(* in memory, truncates and writes again, with nothing that keeps two      *)
(* requests apart; the evaluation worker reads one setting after another.  *)
(*                                                                         *)
(* A text is a sequence of characters, as far as its quoting in the file   *)
(* tells them apart.  The carriage return, which the file would take for   *)
(* the end of a line, is left out.                                         *)
(***************************************************************************)
EXTENDS Integers, FiniteSets, SequencesExt, Lists

CONSTANTS
  Manager,      (* the requests of the settings page that can be at work at once *)
  PromptKey,    (* the settings that are prompts                                 *)
  Connection,   (* the settings of a connection, in the order they are written   *)
  Texts,        (* for each setting, what managers submit for it                 *)
  Default,      (* for each prompt, what the code falls back to                  *)
  Initial,      (* the lines of the file at first                                *)
  MaxSaves,     (* bound on the requests                                         *)
  Absent        (* no value                                                      *)

VARIABLES
  file,      (* the lines of .env                                              *)
  request,   (* what each request has left to do, and the lines it will write  *)
  saves,     (* requests so far                                                *)
  reading,   (* the worker's evaluation: settings left to read, what it read   *)
  saved,     (* history: what the requests asked for, one after the other      *)
  calm,      (* history: no two requests overlapped, and none was cut off      *)
  alone      (* history: no request since the worker began to read             *)

settingsVars == <<file, request, saves, reading, saved, calm, alone>>

-----------------------------------------------------------------------------
\* The characters of a text.
Blank == {" ", "newline"}

Strip(text) ==
  LET solid == {i \in DOMAIN text : text[i] \notin Blank}
  IN  IF solid = {} THEN <<>>
      ELSE SubSeq(text, CHOOSE i \in solid : \A j \in solid : i <= j,
                        CHOOSE i \in solid : \A j \in solid : j <= i)

Each(text, char, by) == FlattenSeq([i \in DOMAIN text |-> IF text[i] = char THEN by ELSE <<text[i]>>])

\* str.replace of two characters by one, from left to right: what is written,
\* and whether the first of the two is held back.
Replaced(acc, char, first, second, by) ==
  CASE acc.open /\ char = second -> [out |-> Append(acc.out, by), open |-> FALSE]
    [] ~(acc.open /\ char = second) /\ char = first ->
         [out |-> IF acc.open THEN Append(acc.out, first) ELSE acc.out, open |-> TRUE]
    [] ~(acc.open /\ char = second) /\ char # first ->
         [out |-> IF acc.open THEN acc.out \o <<first, char>> ELSE Append(acc.out, char),
          open |-> FALSE]

Pairs(text, first, second, by) ==
  LET upTo[i \in 0 .. Len(text)] ==
        IF i = 0 THEN [out |-> <<>>, open |-> FALSE]
        ELSE Replaced(upTo[i - 1], text[i], first, second, by)
      end == upTo[Len(text)]
  IN  IF end.open THEN Append(end.out, first) ELSE end.out

NeedsQuotes(text) ==
  text = <<>> \/ text # Strip(text) \/ \E i \in DOMAIN text : text[i] \in {"newline", "quote"}

Escaped(text) ==
  Each(Each(Each(text, "slash", <<"slash", "slash">>), "quote", <<"slash", "quote">>),
       "newline", <<"slash", "n">>)

Unescaped(text) ==
  Pairs(Pairs(Pairs(text, "slash", "n", "newline"), "slash", "quote", "quote"),
        "slash", "slash", "slash")

\* What is read back of a text that was written (_quote, _unquote).
RoundTrip(text) ==
  LET dollars == Each(text, "$", <<"$", "$">>)
  IN  Pairs(IF NeedsQuotes(text) THEN Unescaped(Escaped(dollars)) ELSE dollars, "$", "$", "$")

Written ==
  {Strip(text) : text \in UNION {Texts[key] : key \in DOMAIN Texts}}
    \cup {Default[key] : key \in PromptKey} \cup {Initial[i].text : i \in DOMAIN Initial}

EnvLine(key, text) == [key |-> key, text |-> text]

LineType == [key : DOMAIN Texts, text : Written]

ASSUME SettingsAssumption ==
  /\ \A key \in DOMAIN Texts : Texts[key] \subseteq Seq(STRING)
  /\ PromptKey \subseteq DOMAIN Texts /\ IsFiniteSet(PromptKey)
  /\ \A key \in PromptKey : Default[key] \in Seq(STRING)
  /\ Connection \in Seq(DOMAIN Texts)
  /\ \A i, j \in DOMAIN Connection : i # j => Connection[i] # Connection[j]
  /\ Initial \in Seq(LineType) /\ \A i \in DOMAIN Initial : Initial[i].text \in Seq(STRING)
  /\ Absent \notin Written /\ Absent \notin Seq(LineType)
  /\ MaxSaves \in Nat

Stored == [text \in Written |-> RoundTrip(text)]

-----------------------------------------------------------------------------
\* The file.  The first line of a setting counts.
Places(lines, key) == {i \in DOMAIN lines : lines[i].key = key}

First(lines, key) == CHOOSE i \in Places(lines, key) : \A j \in Places(lines, key) : i <= j

GetValue(lines, key) ==
  IF Places(lines, key) = {} THEN Absent ELSE Stored[lines[First(lines, key)].text]

SetAlwaysAppends(lines, key, text) == Append(lines, EnvLine(key, text))

SetValue(lines, key, text) ==
  IF Places(lines, key) = {} THEN Append(lines, EnvLine(key, text))
  ELSE [lines EXCEPT ![First(lines, key)] = EnvLine(key, text)]

DeleteValue(lines, key) == Picked(lines, {i \in DOMAIN lines : lines[i].key # key})

Edited(lines, edit) ==
  IF edit.text = Absent THEN DeleteValue(lines, edit.key) ELSE SetValue(lines, edit.key, edit.text)

-----------------------------------------------------------------------------
\* A request.
ToDo(edits) == [edits |-> edits, lines |-> Absent, truncated |-> FALSE]

Rest == ToDo(<<>>)

Busy(m) == request[m].edits # <<>>

Edit(key, text) == [key |-> key, text |-> text]

\* What the requests ask for does not depend on the file.
Asked(edits) ==
  [key \in DOMAIN saved |->
     IF \E i \in DOMAIN edits : edits[i].key = key
     THEN edits[CHOOSE i \in DOMAIN edits : edits[i].key = key].text ELSE saved[key]]

BeginRequest(m, edits) ==
  /\ ~Busy(m) /\ saves < MaxSaves
  /\ request' = [request EXCEPT ![m] = ToDo(edits)]
  /\ saves' = saves + 1
  /\ calm' = (calm /\ \A other \in Manager : ~Busy(other))
  /\ saved' = IF calm' THEN Asked(edits) ELSE saved
  /\ alone' = FALSE
  /\ UNCHANGED <<file, reading>>

\* An emptied prompt is the default, and is stored as such.
SavePrompt(m, key, text) ==
  BeginRequest(m, <<Edit(key, IF Strip(text) = <<>> THEN Default[key] ELSE Strip(text))>>)

ResetPrompt(m, key) == BeginRequest(m, <<Edit(key, Absent)>>)

SaveConnection(m, texts) ==
  BeginRequest(m, [i \in DOMAIN Connection |-> Edit(Connection[i], Strip(texts[Connection[i]]))])

ResetConnection(m) == BeginRequest(m, [i \in DOMAIN Connection |-> Edit(Connection[i], Absent)])

Done(m) == request' = [request EXCEPT ![m] = ToDo(Tail(request[m].edits))]

\* _read_lines; a setting that has no line is not deleted again.
ReadLines(m) ==
  /\ Busy(m) /\ request[m].lines = Absent
  /\ LET edit == Head(request[m].edits)
     IN  IF edit.text = Absent /\ Places(file, edit.key) = {} THEN Done(m)
         ELSE request' = [request EXCEPT ![m].lines = Edited(file, edit)]
  /\ UNCHANGED <<file, saves, reading, saved, calm, alone>>

\* open(path, "w")
Truncate(m) ==
  /\ Busy(m) /\ request[m].lines # Absent /\ ~request[m].truncated
  /\ file' = <<>>
  /\ request' = [request EXCEPT ![m].truncated = TRUE]
  /\ UNCHANGED <<saves, reading, saved, calm, alone>>

\* The lines replace as much of what another request wrote meanwhile as they
\* are long; what remains of a line that is cut is no setting.
WriteLines(m) ==
  /\ request[m].truncated
  /\ \E kept \in 0 .. Len(file) :
       /\ request[m].lines # <<>> /\ file # <<>> => kept < Len(file)
       /\ request[m].lines = <<>> => kept = Len(file)
       /\ file' = request[m].lines \o SubSeq(file, Len(file) - kept + 1, Len(file))
  /\ Done(m)
  /\ UNCHANGED <<saves, reading, saved, calm, alone>>

\* The API process dies and is started again.
Restart ==
  /\ \E m \in Manager : Busy(m)
  /\ request' = [m \in Manager |-> Rest]
  /\ calm' = FALSE
  /\ UNCHANGED <<file, saves, reading, saved, alone>>

-----------------------------------------------------------------------------
\* The worker (jobs/worker.py): the prompts, then the connection.
Prompts == SetToSeq(PromptKey)

StartReading ==
  /\ reading.left = <<>>
  /\ reading' = [left |-> Prompts \o Connection, seen |-> <<>>]
  /\ alone' = (\A m \in Manager : ~Busy(m))
  /\ UNCHANGED <<file, request, saves, saved, calm>>

\* An absent or empty prompt falls back to the code's; an empty setting of the
\* connection is one, an absent one leaves the process its own.
Resolved(key, value) ==
  IF key \in PromptKey /\ value \in {Absent, <<>>} THEN Default[key] ELSE value

ReadSetting ==
  /\ reading.left # <<>>
  /\ LET key == Head(reading.left)
     IN  reading' = [left |-> Tail(reading.left),
                     seen |-> Append(reading.seen, Edit(key, Resolved(key, GetValue(file, key))))]
  /\ UNCHANGED <<file, request, saves, saved, calm, alone>>

-----------------------------------------------------------------------------
InitSettings ==
  /\ file = Initial
  /\ request = [m \in Manager |-> Rest]
  /\ saves = 0
  /\ reading = [left |-> <<>>, seen |-> <<>>]
  /\ saved = [key \in DOMAIN Texts |->
                IF Places(Initial, key) = {} THEN Absent ELSE Initial[First(Initial, key)].text]
  /\ calm = TRUE /\ alone = TRUE

PageRequest(m) ==
  \/ \E key \in PromptKey : ResetPrompt(m, key) \/ \E text \in Texts[key] : SavePrompt(m, key, text)
  \/ \E texts \in [{Connection[i] : i \in DOMAIN Connection} -> UNION {Texts[key] : key \in DOMAIN Texts}] :
       /\ \A key \in DOMAIN texts : texts[key] \in Texts[key]
       /\ SaveConnection(m, texts)
  \/ ResetConnection(m)

NextSettings ==
  \/ \E m \in Manager : PageRequest(m)
  \/ \E m \in Manager : ReadLines(m) \/ Truncate(m) \/ WriteLines(m)
  \/ Restart
  \/ StartReading \/ ReadSetting

SettingsSpec == InitSettings /\ [][NextSettings]_settingsVars

-----------------------------------------------------------------------------
\* A text that comes back as it was written: no backslash before an n where it
\* has to be quoted.
Survives(text) ==
  NeedsQuotes(text) => \A i \in 1 .. Len(text) - 1 : ~(text[i] = "slash" /\ text[i + 1] = "n")

\* What a setting can be: nothing, or what somebody submitted for it.
Possible(key) ==
  {Absent} \cup {Stored[Strip(text)] : text \in Texts[key]}
    \cup {Stored[Initial[i].text] : i \in Places(Initial, key)}
    \cup (IF key \in PromptKey THEN {Default[key], Stored[Default[key]]} ELSE {})

SettingsTypeOK ==
  /\ file \in Seq(LineType)
  /\ request \in [Manager -> [edits : Seq([key : DOMAIN Texts, text : Written \cup {Absent}]),
                              lines : Seq(LineType) \cup {Absent}, truncated : BOOLEAN]]
  /\ \A m \in Manager : ~Busy(m) => request[m] = Rest
  /\ saves \in 0 .. MaxSaves
  /\ reading \in [left : Seq(DOMAIN Texts),
                  seen : Seq([key : DOMAIN Texts, text : UNION {Possible(key) : key \in DOMAIN Texts}])]
  /\ saved \in [DOMAIN Texts -> Written \cup {Absent}]
  /\ calm \in BOOLEAN /\ alone \in BOOLEAN

Value(key) == IF saved[key] = Absent THEN Absent ELSE Stored[saved[key]]

\* Whatever requests, restarts and readings overlap, a setting is never
\* anything that nobody submitted for it.  As long as requests come one after
\* the other the file holds what they asked for, with every line they did not
\* name untouched, and an evaluation that no request overlaps works with the
\* prompts and the connection that were saved last, written as they were typed.
SavedIsUsed ==
  /\ \A key \in DOMAIN Texts :
       /\ GetValue(file, key) \in Possible(key)
       /\ saved[key] # Absent /\ Survives(saved[key]) => Value(key) = saved[key]
  /\ \A i \in DOMAIN reading.seen : reading.seen[i].text \in Possible(reading.seen[i].key)
  /\ calm /\ (\A m \in Manager : ~Busy(m)) =>
       /\ \A key \in DOMAIN Texts : GetValue(file, key) = Value(key)
       /\ alone /\ reading.left = <<>> =>
            \A i \in DOMAIN reading.seen :
              LET key == reading.seen[i].key
              IN  reading.seen[i].text = Resolved(key, Value(key))
=============================================================================
