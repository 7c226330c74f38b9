----------------------------- MODULE FileStore ------------------------------
(***************************************************************************)
(* What the file registry of fs.c promises about contents: a list of files *)
(* that only grows, each a sequence of bytes, where a write to one file    *)
(* changes that file, between its offsets and in the gap it leaves, and    *)
(* nothing else.                                                           *)
(***************************************************************************)
EXTENDS Naturals, Sequences

CONSTANTS Byte, Writes   \* Writes: pairs of an offset and the bytes stored

VARIABLE store

\* Overlay(c, off, buf): c with buf at offset off; a gap reads as zeros.
Overlay(c, off, buf) ==
  LET end == off + Len(buf)
      size == IF end > Len(c) THEN end ELSE Len(c)
  IN [k \in 1..size |->
        IF k > off /\ k <= end THEN buf[k - off]
        ELSE IF k <= Len(c) THEN c[k] ELSE 0]

Init == store = <<>>

Add(c) == store' = Append(store, c)

Write(i, w) == store' = [store EXCEPT ![i] = Overlay(@, w[1], w[2])]

\* A file that appears holds a sequence of bytes; which one is the caller's
\* business.
Next ==
  \/ /\ Len(store') = Len(store) + 1
     /\ store'[Len(store')] \in Seq(Byte)
     /\ Add(store'[Len(store')])
  \/ \E i \in DOMAIN store, w \in Writes : Write(i, w)

Spec == Init /\ [][Next]_store
=============================================================================
