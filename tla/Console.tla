------------------------------ MODULE Console -------------------------------
(***************************************************************************)
(* The readers of the keyboard: the shell's editing of a command line      *)
(* (shell_run) and the standard input of the program that the command runs *)
(* (sys_read).  Keys are pressed at any time and wait in the keyboard until *)
(* one of the two polls.                                                   *)
(***************************************************************************)
EXTENDS Keyboard, FiniteSets, SequencesExt

CONSTANTS
  SHELL_BUFSZ,  \* the shell's buffer, with the terminator
  Counts,       \* bytes a program asks of its standard input
  KBUF,         \* the kernel's buffer for them (4096)
  MaxTyped      \* characters typed while one reader reads

ASSUME ConsoleAssumption ==
  /\ SHELL_BUFSZ \in Nat \ {0, 1} /\ Counts \subseteq Nat \ {0}
  /\ KBUF \in Nat \ {0} /\ MaxTyped \in Nat

VARIABLES
  reader,       \* "shell" or "program" while one polls; "run" and "done" after
  line,         \* buffer[0..buf_idx-1], or kbuf
  want,         \* count of sys_read
  meant         \* history: what was typed for this reader, as it was meant

keys == <<held, pending, key_state, char, pressed, both>>
console == <<reader, line, want, meant>>
-----------------------------------------------------------------------------
\* Mutant: a backspace that has nothing to erase is put into the buffer.
MutEdit(l, c) ==
  IF c \in {"BS", "DEL"} /\ l # <<>> THEN Front(l)
  ELSE IF c \in Printable \cup {"BS", "DEL"} THEN Append(l, c) ELSE l

Edit(l, c) ==
  IF c \in {"BS", "DEL"} THEN IF l = <<>> THEN l ELSE Front(l)
  ELSE IF c \in Printable THEN Append(l, c) ELSE l

\* The character that the byte about to be polled is meant to be.
Means ==
  LET b == Head(pending)
  IN IF b.key \in DOMAIN scancode_set1 /\ ~ b.up THEN Decoded(b.key, pressed[2]) ELSE "NUL"

Poll ==
  /\ keyboard_read_char /\ Len(meant) < MaxTyped
  /\ meant' = IF Means = "NUL" THEN meant ELSE Append(meant, Means)

\* shell_run: the prompt is printed and the buffer is empty.
NewLine == line' = <<>> /\ meant' = <<>>

ConsoleInit == Init /\ reader = "shell" /\ line = <<>> /\ want = 0 /\ meant = <<>>

\* One round of the loop that reads a command line, until a line is complete
\* or the buffer is full.
ShellRead ==
  /\ reader = "shell" /\ Poll
  /\ line' = IF char' = "NUL" THEN line ELSE Edit(line, char')
  /\ reader' = IF char' \in {"LF", "CR"} \/ Len(line') = SHELL_BUFSZ - 1 THEN "run" ELSE "shell"
  /\ UNCHANGED want

\* The command is done.
CommandEnds ==
  /\ reader \in {"run", "done"} /\ reader' = "shell" /\ NewLine
  /\ UNCHANGED <<keys, want>>

\* The command is a program that reads its standard input.
sys_read(n) ==
  /\ reader \in {"run", "done"} /\ reader' = "program" /\ want' = n /\ NewLine
  /\ UNCHANGED keys

\* As many as asked for, but no more than the kernel's buffer takes.
to_read == IF want > KBUF THEN KBUF ELSE want

ProgramRead ==
  /\ reader = "program" /\ Poll
  /\ line' = CASE char' = "NUL" -> line
               [] char' = "CR" -> Append(line, "LF")
               [] OTHER -> Append(line, char')
  /\ reader' = IF char' \in {"LF", "CR"} \/ Len(line') = to_read THEN "done" ELSE "program"
  /\ UNCHANGED want

ConsoleNext ==
  \/ \E k \in Keys : (Press(k) \/ Release(k)) /\ UNCHANGED console
  \/ ShellRead \/ CommandEnds \/ ProgramRead
  \/ \E n \in Counts : sys_read(n)

ConsoleSpec == ConsoleInit /\ [][ConsoleNext]_<<keys, console>>
-----------------------------------------------------------------------------
\* What remains of typed characters: each printable one that is not erased
\* later, when at least as many erasures as characters follow it.
Erased(t, i) ==
  \E j \in i + 1 .. Len(t) :
    Cardinality({k \in i + 1 .. j : t[k] = "BS"})
      > Cardinality({k \in i + 1 .. j : t[k] \in Printable})
Remaining(t) ==
  LET kept == {i \in DOMAIN t : t[i] \in Printable /\ ~ Erased(t, i)}
  IN [n \in 1 .. Cardinality(kept) |->
        t[CHOOSE i \in kept : Cardinality({k \in kept : k < i}) = n - 1]]

\* shell.c:401-421 and syscall.c:260-274: however late the keys are polled, and
\* whoever polled before, the line the shell executes has the characters that
\* were meant and not erased, and a program is given all of them, no more than
\* its buffer and the kernel's take.
TypedLine ==
  both = {} =>
    IF reader \in {"shell", "run"}
    THEN line = Remaining(meant) /\ Len(line) < SHELL_BUFSZ
    ELSE /\ line = [k \in DOMAIN meant |-> IF meant[k] = "CR" THEN "LF" ELSE meant[k]]
         /\ Len(line) <= want /\ Len(line) <= KBUF /\ \A k \in 1 .. Len(line) - 1 : line[k] # "LF"
=============================================================================
