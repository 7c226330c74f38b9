----------------------------- MODULE MCConsole ------------------------------
(* An instance of Console: a modifier with both its keys, one with its      *)
(* prefixed key, a letter that has a control character, and Enter; a        *)
(* buffer of two characters.                                                *)
EXTENDS Console

MCKeys == {"lshift", "rshift", "rctrl", "h", "enter"}
=============================================================================
