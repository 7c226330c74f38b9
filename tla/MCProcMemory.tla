---------------------------- MODULE MCProcMemory ----------------------------
(***************************************************************************)
(* Tables of two entries, two units to a page: pages 0..7 are the lower    *)
(* half, pages 6 and 7 the stack.  The frames are just enough for a        *)
(* program and its complete fork.                                          *)
(***************************************************************************)
EXTENDS ProcMemory

Seg(v, m, f, w, x) ==
  [load |-> TRUE, vaddr |-> v, memsz |-> m, filesz |-> f, w |-> w, x |-> x]
Note == [load |-> FALSE, vaddr |-> 0, memsz |-> 4, filesz |-> 4, w |-> FALSE,
         x |-> FALSE]
Prog(segs) == [phdrs_fit |-> TRUE, segs |-> segs]

\* Code with a writable segment and bss; a file with a note and an empty
\* segment.
Linked ==
  Prog(<<Seg(4, 2, 2, FALSE, TRUE), Note, Seg(6, 2, 1, TRUE, TRUE)>>)

\* The file ends inside its program headers.
Truncated == [phdrs_fit |-> FALSE, segs |-> <<>>]

\* Two segments share a page, and one is empty.
Overlapping ==
  Prog(<<Seg(4, 3, 3, FALSE, TRUE), Seg(6, 0, 0, TRUE, TRUE),
         Seg(7, 1, 1, FALSE, TRUE)>>)

\* A segment that starts inside a page of the stack, and data that is not
\* executable.
Odd == Prog(<<Seg(13, 2, 2, FALSE, TRUE), Seg(6, 2, 1, FALSE, FALSE)>>)

MCPrograms == {Linked, Truncated, Overlapping, Odd}
NoExec == {Odd}
=============================================================================
