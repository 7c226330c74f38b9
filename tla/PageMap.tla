------------------------------ MODULE PageMap -------------------------------
(***************************************************************************)
(* What the virtual memory manager promises: each address space is a       *)
(* partial function from pages to frames, a page can be mapped to a frame  *)
(* that no space maps yet, and nothing else changes a mapping.  How the    *)
(* function is laid out in tables, and when tables are added, is not       *)
(* visible here; ProcMemory.tla is shown to implement this.                *)
(***************************************************************************)
CONSTANTS Frame, Page, Flag, Kernel

VARIABLES
  maps,     \* for each address space created, an entry for each page
  cr3       \* the address space in use

vars == <<maps, cr3>>

Unmapped == [frame |-> 0, flags |-> {}]
Mapped(s, v) == "P" \in maps[s][v].flags

Init ==
  /\ maps = [s \in {} |-> [v \in Page |-> Unmapped]]
  /\ cr3 = Kernel

Create(s) ==
  /\ s \in Frame \ (DOMAIN maps \cup {Kernel})
  /\ maps' = [x \in DOMAIN maps \cup {s} |->
                IF x = s THEN [v \in Page |-> Unmapped] ELSE maps[x]]
  /\ UNCHANGED cr3

\* Page v of space s is mapped, by the entry e, to a frame that is neither an
\* address space nor mapped anywhere; an earlier mapping of v is replaced.
Map(s, v, e) ==
  /\ e.frame \in Frame \ (DOMAIN maps \cup {Kernel})
  /\ e.flags \subseteq Flag /\ "P" \in e.flags /\ e # maps[s][v]
  /\ \A x \in DOMAIN maps, w \in Page :
       Mapped(x, w) => maps[x][w].frame # e.frame
  /\ maps' = [maps EXCEPT ![s][v] = e]
  /\ UNCHANGED cr3

Switch(s) ==
  /\ cr3' = s
  /\ UNCHANGED maps

Next ==
  \/ \E s \in DOMAIN maps' \ DOMAIN maps : Create(s)
  \/ \E s \in DOMAIN maps : maps'[s] # maps[s] /\ \E v \in Page : Map(s, v, maps'[s][v])
  \/ \E s \in DOMAIN maps \cup {Kernel} : Switch(s)

Spec == Init /\ [][Next]_vars
=============================================================================
