----------------------------- MODULE ShellLine ------------------------------
(***************************************************************************)
(* The shell's line (shell_run of shell.c): typed and edited character by   *)
(* character, then split into arguments in one pass that knows quotes and   *)
(* replaces "$name".  What a command does is in Shell.                      *)
(***************************************************************************)
EXTENDS Naturals, Sequences, FiniteSets, SequencesExt, Places

CONSTANTS
  Typed,           \* printable characters that are typed
  SHELL_BUFSZ, SHELL_MAX_ARGS, SHELL_MAX_ARG_LEN,   \* 256, 8, 64
  Env              \* the environment: from names to values

ASSUME ShellLineAssumption ==
  /\ Typed \subseteq STRING
  /\ SHELL_BUFSZ \in Nat \ {0} /\ SHELL_MAX_ARGS \in Nat \ {0}
  /\ SHELL_MAX_ARG_LEN \in Nat \ {0, 1}
  /\ \A n \in DOMAIN Env : n \in Seq(Typed) \ {<<>>} /\ Env[n] \in Seq(Typed)

VARIABLES
  mode,        \* "read", "split", "exec"
  buffer,      \* the line; its length is buf_idx
  i,           \* the split's position, from 1; Len(buffer) + 1 is the NUL
  in_quotes,
  arg,         \* the argument that is being collected, arg_idx characters
  args         \* the finished ones, argc of them

linevars == <<mode, buffer, i, in_quotes, arg, args>>
-----------------------------------------------------------------------------
Quote == "\""
Limit(w) == IF Len(w) < SHELL_MAX_ARG_LEN THEN w
            ELSE SubSeq(w, 1, SHELL_MAX_ARG_LEN - 1)

\* An argument that is "$" and the name of a variable becomes its value.
Expanded(w) == IF w # <<>> /\ Head(w) = "$" /\ Tail(w) \in DOMAIN Env
               THEN Limit(Env[Tail(w)]) ELSE w

LineInit == /\ mode = "read" /\ buffer = <<>> /\ i = 1 /\ in_quotes = FALSE
            /\ arg = <<>> /\ args = <<>>
-----------------------------------------------------------------------------
Reading == mode = "read" /\ Len(buffer) < SHELL_BUFSZ - 1
StartSplit == mode' = "split" /\ i' = 1 /\ in_quotes' = FALSE /\ arg' = <<>> /\ args' = <<>>

Type ==
  /\ Reading
  /\ \E ch \in Typed : buffer' = Append(buffer, ch)
  /\ UNCHANGED <<mode, i, in_quotes, arg, args>>

Backspace ==
  /\ Reading /\ buffer # <<>>
  /\ buffer' = Front(buffer)
  /\ UNCHANGED <<mode, i, in_quotes, arg, args>>

\* Enter, or the buffer is full.
EndLine ==
  /\ mode = "read"
  /\ StartSplit /\ UNCHANGED buffer
-----------------------------------------------------------------------------
Splitting == mode = "split" /\ i <= Len(buffer) + 1 /\ Len(args) < SHELL_MAX_ARGS
AtEnd == i = Len(buffer) + 1
Sees(ch) == ~ AtEnd /\ buffer[i] = ch
Ends == AtEnd \/ Sees(" ")
Next1 == i' = i + 1 /\ UNCHANGED <<mode, buffer>>

ToggleQuotes ==
  /\ Splitting /\ Sees(Quote)
  /\ in_quotes' = ~ in_quotes
  /\ Next1 /\ UNCHANGED <<arg, args>>

\* Mutant: a space inside quotes ends the argument.
MutSeparator ==
  /\ Splitting /\ Ends
  /\ IF arg # <<>> \/ AtEnd
     THEN args' = Append(args, Expanded(arg)) /\ arg' = <<>>
     ELSE UNCHANGED <<arg, args>>
  /\ Next1 /\ UNCHANGED in_quotes

\* A space or the NUL outside quotes ends the argument, unless it is an empty
\* one in the middle of the line; at the end of the line an empty one counts.
Separator ==
  /\ Splitting /\ Ends /\ ~ in_quotes
  /\ IF arg # <<>> \/ AtEnd
     THEN args' = Append(args, Expanded(arg)) /\ arg' = <<>>
     ELSE UNCHANGED <<arg, args>>
  /\ Next1 /\ UNCHANGED in_quotes

\* Any other character, and the NUL inside quotes, joins the argument if
\* there is room; the NUL is the last character that is looked at.
Collect ==
  /\ Splitting /\ ~ Sees(Quote) /\ (Ends => in_quotes)
  /\ arg' = IF AtEnd \/ Len(arg) >= SHELL_MAX_ARG_LEN - 1 THEN arg ELSE Append(arg, buffer[i])
  /\ Next1 /\ UNCHANGED <<in_quotes, args>>

\* Mutant: the split waits for the closing quote.
MutSplitDone ==
  /\ mode = "split" /\ ~ Splitting
  /\ mode' = IF in_quotes THEN "split" ELSE "exec"
  /\ UNCHANGED <<buffer, i, in_quotes, arg, args>>

\* argv[argc] = NULL and, with an argument, shell_exec.
SplitDone ==
  /\ mode = "split" /\ ~ Splitting
  /\ mode' = "exec" /\ UNCHANGED <<buffer, i, in_quotes, arg, args>>

\* The prompt comes back with an empty line.
Prompt ==
  /\ mode = "exec" /\ mode' = "read" /\ buffer' = <<>> /\ args' = <<>>
  /\ UNCHANGED <<i, in_quotes, arg>>

Split == ToggleQuotes \/ Separator \/ Collect \/ SplitDone
LineNext == Type \/ Backspace \/ EndLine \/ Split \/ Prompt

LineSpec == LineInit /\ [][LineNext]_linevars
FairLineSpec == LineSpec /\ WF_linevars(Split)
-----------------------------------------------------------------------------
LineTypeOK ==
  /\ mode \in {"read", "split", "exec"} /\ buffer \in Seq(Typed)
  /\ i \in 1..(Len(buffer) + 2) \cup {1} \/ mode = "read"
  /\ in_quotes \in BOOLEAN /\ arg \in Seq(Typed) /\ args \in Seq(Seq(Typed))
  /\ Len(args) <= SHELL_MAX_ARGS

\* The words of the line: what lies before each cut, back to the cut before
\* it, without the quotes.  The spaces that have an even number of quotes to
\* their left are cuts, and so is the end of the line.  Nothing between two
\* cuts is no word, except at the end; nor is a last piece with an open quote.
Open(k) == Cardinality({j \in DOMAIN buffer : j < k /\ buffer[j] = Quote}) % 2 = 1
Line == 1 .. Len(buffer) + 1
Cuts == {k \in Line : k \in DOMAIN buffer => buffer[k] = " " /\ ~ Open(k)}
Piece(k) == At(buffer, {j \in 1 .. k - 1 : buffer[j] # Quote /\ \A l \in j .. k - 1 : l \notin Cuts})
WordEnds == {k \in Cuts : IF k = Len(buffer) + 1 THEN ~ Open(k) ELSE Piece(k) # <<>>}
Words == At([k \in Line |-> Expanded(Limit(Piece(k)))], WordEnds)

\* shell.c:423-449: what a command gets as arguments are the words of the
\* line, the first SHELL_MAX_ARGS of them; the line, the arguments and their
\* terminators are within their buffers all the while.
ArgumentsAreWords ==
  /\ LineTypeOK
  /\ Len(buffer) < SHELL_BUFSZ /\ Len(arg) < SHELL_MAX_ARG_LEN
  /\ \A k \in DOMAIN args : Len(args[k]) < SHELL_MAX_ARG_LEN
  /\ mode = "exec" =>
       args = SubSeq(Words, 1, IF Len(Words) < SHELL_MAX_ARGS THEN Len(Words)
                               ELSE SHELL_MAX_ARGS)

\* shell.c:450, "Null-terminate argv array": argv has a place for the NULL.
NullHasAPlace == mode = "exec" => Len(args) < SHELL_MAX_ARGS

\* A line that was ended is executed; the split comes to an end on every line.
LineIsExecuted == mode = "split" ~> mode = "exec"
=============================================================================
