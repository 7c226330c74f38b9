---------------------------- MODULE MCShellLine -----------------------------
(* An instance of ShellLine: all lines of five characters that matter. *)
EXTENDS ShellLine

MCTyped == {"x", " ", "\"", "$"}
MCEnv == [n \in {<<"x">>} |-> <<"x", " ", "x", "$">>]
=============================================================================
