--------------------------- MODULE FrameAllocator ---------------------------
(***************************************************************************)
(* What the physical memory manager promises its callers: a pool of frames *)
(* from which each request takes one that nobody holds, a request is       *)
(* refused only when the pool is empty, and a returned frame goes back to  *)
(* the pool.  PMM.tla is shown to implement this specification.            *)
(***************************************************************************)
EXTENDS Frames

CONSTANT Pool      \* the frames the machine can hand out once booted

VARIABLES
  free,            \* frames nobody holds
  held,            \* frames handed out and not given back
  answer           \* the answer to the last request: a frame, or NULL

vars == <<free, held, answer>>

Init == free = {} /\ held = {} /\ answer = NULL

\* The manager is (re)initialised; callers must not hold a frame.
Boot ==
  /\ held = {}
  /\ free' = Pool
  /\ UNCHANGED <<held, answer>>

Alloc(f) ==
  /\ f \in free
  /\ free' = free \ {f}
  /\ held' = held \cup {f}
  /\ answer' = f

Refuse ==
  /\ free = {}
  /\ answer' = NULL
  /\ UNCHANGED <<free, held>>

Free(f) ==
  /\ f \in held
  /\ free' = free \cup {f}
  /\ held' = held \ {f}
  /\ UNCHANGED answer

Next ==
  \/ Boot
  \/ Refuse
  \/ \E f \in Pool : Alloc(f) \/ Free(f)

Spec == Init /\ [][Next]_vars
=============================================================================
