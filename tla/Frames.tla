------------------------------- MODULE Frames -------------------------------
(***************************************************************************)
(* The arithmetic of the physical frame allocator of vmm.c: which frames   *)
(* its bitmap manages, in which order pmm_alloc_frame probes them, and     *)
(* which one a complete scan returns.  A frame is named by its number,     *)
(* that is, its physical address divided by PAGE_SIZE; the address NULL is *)
(* frame 0, which is never handed out because it lies below 1 MiB.         *)
(*                                                                         *)
(* n   is max_bits, the number of frames below pmm_highest_address;        *)
(* low is the number of frames below 0x100000;                             *)
(* used is the set of bits of pmm_bitmap that are 1;                       *)
(* last is pmm_last_alloc_index.                                           *)
(***************************************************************************)
EXTENDS Naturals

NULL == 0

\* current_index of iteration i of the scan.
Probe(n, last, i) == (last + i) % n

\* The frames an allocation may return when the bits of used are set.
Available(n, low, used) == {f \in 0..(n - 1) : f >= low /\ f \notin used}

\* The frame a complete scan returns: the available frame probed first,
\* or NULL when no frame is available.
NextFit(n, low, used, last) ==
  IF Available(n, low, used) = {} THEN NULL
  ELSE LET i == CHOOSE i \in 0..(n - 1) :
                  /\ Probe(n, last, i) \in Available(n, low, used)
                  /\ \A j \in 0..(i - 1) :
                       Probe(n, last, j) \notin Available(n, low, used)
       IN Probe(n, last, i)
=============================================================================
