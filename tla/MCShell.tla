------------------------------ MODULE MCShell -------------------------------
(***************************************************************************)
(* A letter, Enter, Backspace and Tab, and an extended key that has no      *)
(* character; a buffer of 3 characters, which a fourth letter or one after  *)
(* a tab overruns.                                                          *)
(***************************************************************************)
EXTENDS Shell, TLC

MCKeys == {<<30>>, <<28>>, <<14>>, <<15>>, <<Extension, 72>>}
Plain == 14 :> Rubout @@ 15 :> "\t" @@ 28 :> "\n"
MCkbdus == Plain @@ 30 :> "a"
MCkbdus_s == Plain @@ 30 :> "A"
MCkbdus_sc == Plain @@ 30 :> "a"
MCCommands == <<<<"b">>, <<"a", "a", "b">>>>
=============================================================================
