------------------------------- MODULE MCPMM --------------------------------
(***************************************************************************)
(* A machine with two address units per frame.  Its memory map has a usable *)
(* entry below 1 MiB, one that is aligned at neither end, one that overlaps *)
(* the kernel, a reserved entry, and one that crosses the bitmap's limit.   *)
(***************************************************************************)
EXTENDS PMM

MCMemMap ==
  << [base |-> 0,  length |-> 4, usable |-> TRUE],
     [base |-> 5,  length |-> 6, usable |-> TRUE],
     [base |-> 11, length |-> 3, usable |-> FALSE],
     [base |-> 14, length |-> 6, usable |-> TRUE],
     [base |-> 20, length |-> 6, usable |-> TRUE] >>
=============================================================================
