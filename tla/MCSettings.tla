------------------------------ MODULE MCSettings ------------------------------
(***************************************************************************)
(* An instance of the settings: one prompt, a connection of two settings,  *)
(* and a line the page never touches.  The texts need every kind of        *)
(* quoting; one of them does not survive it.                               *)
(***************************************************************************)
EXTENDS Settings, TLC

CONSTANTS m1, m2

SomeTexts ==
  ("prompt" :> {<<" ">>, <<"quote", "$", "$", "newline", "slash", "quote">>})
    @@ ("base" :> {<<"slash", "n", "quote">>}) @@ ("key" :> {<<>>, <<"$", "slash", "n", " ">>})
    @@ ("secret" :> {})

SomeConnection == <<"base", "key">>

SomeDefault == "prompt" :> <<"$", "newline", "x">>

SomeLines == <<EnvLine("base", <<"x">>), EnvLine("secret", <<"s">>)>>
===============================================================================
