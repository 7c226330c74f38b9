----------------------------- MODULE MCSyscalls -----------------------------
(***************************************************************************)
(* Two files, two descriptors and sixteen addresses: 2..8 are mapped, 12..  *)
(* are the kernel's.  Pointers and sizes reach every border and wrap.       *)
(***************************************************************************)
EXTENDS Syscalls

MCChar == {".", "/", "T", "a", "b", "c", "d", "e"}
Item(n, d) == [kind |-> "entry", name |-> n, data |-> d]

MCArchive ==
  << Item(<<".", "/", "a">>, <<1, 2, 3>>), Item(<<"b">>, <<4>>),
     [kind |-> "trailer", name |-> <<"T">>, data |-> <<>>] >>

MCNames == { <<"a">>, <<".", "/", "b">>, <<"c">>, <<"/">> }
=============================================================================
