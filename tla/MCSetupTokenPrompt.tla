------------------------- MODULE MCSetupTokenPrompt -------------------------
(***************************************************************************)
(* SetupTokenPrompt for TLC: all prompts of up to four events.  Esc and    *)
(* Ctrl-C only end the loop as a signal or an error does and are left out. *)
(***************************************************************************)
EXTENDS SetupTokenPrompt

MCKeys == {"a", "quote", "blank", "foreign", "enter", "backspace",
           "ctrl_d", "other"}

(* Two wrapped lines, a gap, and one byte too many.                        *)
MCPastes ==
  {<<"a", "newline", "a">>, <<"a", "blank", "a">>, <<"a", "a", "a", "newline">>}
==============================================================================
