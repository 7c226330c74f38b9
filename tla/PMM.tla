-------------------------------- MODULE PMM ---------------------------------
(***************************************************************************)
(* The physical memory manager of vmm.c: a bitmap with one bit per frame,  *)
(* filled in by pmm_init from the boot loader's memory map, searched by    *)
(* pmm_alloc_frame with a circular scan, and cleared by pmm_free_frame.    *)
(*                                                                         *)
(* Addresses are counted in units of which PAGE_SIZE make a frame, so that *)
(* memory map entries need not be aligned.  The callers (exec_elf,         *)
(* sys_fork, vmm_create_address_space, vmm_map_page) are represented by    *)
(* the set of frames they hold.                                            *)
(***************************************************************************)
EXTENDS Frames, Integers, Sequences, FiniteSets, FiniteSetsExt

CONSTANTS
  PAGE_SIZE,         \* units per frame
  MaxFrames,         \* PMM_MAX_PHYS_ADDR / PAGE_SIZE
  LowFrames,         \* 0x100000 / PAGE_SIZE
  MemMap,            \* sequence of [base, length, usable]
  KernelBase,        \* physical_base of the kernel
  KernelSpan,        \* _kernel_end - virtual_base, as computed
  MaxKernelSize,     \* 512 MiB, above which KernelSpan is distrusted
  PlaceholderSize,   \* 16 MiB, used instead
  BitmapAddr,        \* (uint64_t)pmm_bitmap, a kernel virtual address
  BitmapSize

ASSUME SizesAssumption ==
  /\ PAGE_SIZE \in Nat \ {0}
  /\ MaxFrames \in Nat
  /\ LowFrames \in Nat \ {0}
  /\ {KernelBase, KernelSpan, MaxKernelSize, PlaceholderSize, BitmapAddr,
      BitmapSize} \subseteq Nat

ASSUME MemMapAssumption ==
  /\ DOMAIN MemMap = 1..Len(MemMap)
  /\ Len(MemMap) \in Nat
  /\ \A k \in DOMAIN MemMap :
        MemMap[k].base \in Nat /\ MemMap[k].length \in Nat

VARIABLES
  used,      \* the bits of pmm_bitmap that are 1
  highest,   \* pmm_highest_address / PAGE_SIZE
  last,      \* pmm_last_alloc_index
  pc,        \* "off", "boot" (between the two pmm_init), "idle" or "scan"
  i,         \* the scan's loop counter
  ret,       \* what the last pmm_alloc_frame returned
  held       \* frames handed out to callers and not freed

vars == <<used, highest, last, pc, i, ret, held>>
-----------------------------------------------------------------------------
Bits == 0..(MaxFrames - 1)

AlignUp(a) == (a + PAGE_SIZE - 1) \div PAGE_SIZE
AlignDown(a) == a \div PAGE_SIZE

\* The full frames of a usable entry that the bitmap can represent.
EntryFrames(e) ==
  {f \in Bits : AlignUp(e.base) <= f /\ f < AlignDown(e.base + e.length)}

UsableFrames ==
  {f \in Bits : \E k \in DOMAIN MemMap :
                  MemMap[k].usable /\ f \in EntryFrames(MemMap[k])}

kernel_size ==
  IF KernelSpan = 0 \/ KernelSpan > MaxKernelSize
  THEN PlaceholderSize ELSE KernelSpan

\* Mutant: a kernel size that is not a multiple of the page size is cut.
MutKernelFrames ==
  {f \in Bits : AlignDown(KernelBase) <= f
                /\ f < AlignDown(KernelBase + kernel_size)}

KernelFrames ==
  {f \in Bits : AlignDown(KernelBase) <= f
                /\ f < AlignUp(KernelBase + kernel_size)}

BitmapFrames ==
  {f \in Bits : AlignDown(BitmapAddr) <= f
                /\ f < AlignUp(BitmapAddr + BitmapSize)}

\* The frames that may be handed out on this machine.
Pool == {f \in UsableFrames \ (KernelFrames \cup BitmapFrames) : f >= LowFrames}
-----------------------------------------------------------------------------
Init ==
  /\ used = {}          \* pmm_bitmap is in .bss
  /\ highest = 0
  /\ last = 0
  /\ pc = "off"
  /\ i = 0
  /\ ret = NULL
  /\ held = {}

\* kmain() and then kernel() call pmm_init; nothing is allocated in between.
\* pmm_highest_address is never reset, only raised.
pmm_init ==
  /\ pc \in {"off", "boot"}
  /\ pc' = IF pc = "off" THEN "boot" ELSE "idle"
  /\ used' = (Bits \ UsableFrames) \cup KernelFrames \cup BitmapFrames
  /\ highest' = Max({highest} \cup {f + 1 : f \in UsableFrames})
  /\ last' = 0
  /\ UNCHANGED <<i, ret, held>>

AllocCall ==
  /\ pc = "idle"
  /\ pc' = "scan"
  /\ i' = 0
  /\ UNCHANGED <<used, highest, last, ret, held>>

current_index == Probe(highest, last, i)

\* Mutant: a frame in use is probed for ever.
MutScanStuck ==
  /\ pc = "scan" /\ i < highest
  /\ current_index < LowFrames \/ current_index \in used
  /\ i' = IF current_index < LowFrames THEN i + 1 ELSE i
  /\ UNCHANGED <<used, highest, last, pc, ret, held>>

\* Low memory and frames in use are passed over.
ScanSkip ==
  /\ pc = "scan" /\ i < highest
  /\ current_index < LowFrames \/ current_index \in used
  /\ i' = i + 1
  /\ UNCHANGED <<used, highest, last, pc, ret, held>>

\* Mutant: the bit of the frame handed out is not set.
MutScanTake ==
  /\ pc = "scan" /\ i < highest
  /\ current_index >= LowFrames /\ current_index \notin used
  /\ last' = current_index + 1
  /\ ret' = current_index
  /\ held' = held \cup {current_index}
  /\ pc' = "idle"
  /\ UNCHANGED <<used, highest, i>>

ScanTake ==
  /\ pc = "scan" /\ i < highest
  /\ current_index >= LowFrames /\ current_index \notin used
  /\ used' = used \cup {current_index}
  /\ last' = current_index + 1
  /\ ret' = current_index
  /\ held' = held \cup {current_index}
  /\ pc' = "idle"
  /\ UNCHANGED <<highest, i>>

ScanFail ==
  /\ pc = "scan" /\ i >= highest
  /\ ret' = NULL
  /\ pc' = "idle"
  /\ UNCHANGED <<used, highest, last, i, held>>

\* Mutant: the top frame is taken to be outside the managed range.
MutFree(addr) ==
  /\ pc = "idle"
  /\ IF addr % PAGE_SIZE /= 0 \/ AlignDown(addr) + 1 >= highest
     THEN UNCHANGED used
     ELSE /\ AlignDown(addr) \in held \/ AlignDown(addr) \notin used
          /\ used' = used \ {AlignDown(addr)}
  /\ held' = {f \in held : f * PAGE_SIZE /= addr}
  /\ UNCHANGED <<highest, last, pc, i, ret>>

\* Callers free a frame they hold, or call with an address that the early
\* returns reject, or free again a frame that is already free (which only
\* warns).  No caller frees a frame in use that it does not hold.
pmm_free_frame(addr) ==
  /\ pc = "idle"
  /\ IF addr % PAGE_SIZE /= 0 \/ AlignDown(addr) >= highest
     THEN UNCHANGED used
     ELSE /\ AlignDown(addr) \in held \/ AlignDown(addr) \notin used
          /\ used' = used \ {AlignDown(addr)}
  /\ held' = {f \in held : f * PAGE_SIZE /= addr}
  /\ UNCHANGED <<highest, last, pc, i, ret>>

pmm_alloc_frame == AllocCall \/ ScanSkip \/ ScanTake \/ ScanFail

Next ==
  \/ pmm_init
  \/ pmm_alloc_frame
  \/ \E addr \in 0..(MaxFrames * PAGE_SIZE) : pmm_free_frame(addr)

\* The processor keeps executing a scan that was started.
Spec == Init /\ [][Next]_vars /\ WF_vars(ScanSkip \/ ScanTake \/ ScanFail)
-----------------------------------------------------------------------------
TypeOK ==
  /\ used \subseteq Bits
  /\ highest \in 0..MaxFrames
  /\ last \in 0..highest
  /\ pc \in {"off", "boot", "idle", "scan"}
  /\ i \in 0..highest
  /\ ret \in 0..MaxFrames
  /\ held \subseteq Bits

\* The bytes of frame f belong to memory the boot loader calls usable and
\* not to the kernel image, stated on bytes and not on the rounded frame
\* numbers that pmm_init computes.
SafeFrame(f) ==
  \A a \in (f * PAGE_SIZE)..(f * PAGE_SIZE + PAGE_SIZE - 1) :
    /\ \E k \in DOMAIN MemMap :
         /\ MemMap[k].usable
         /\ MemMap[k].base <= a /\ a < MemMap[k].base + MemMap[k].length
    /\ ~ (KernelBase <= a /\ a < KernelBase + kernel_size)

\* A caller never holds a frame any byte of which is the kernel's, is not
\* usable memory, or lies below 1 MiB, whatever the alignment of the memory
\* map: the rounding of pmm_init (vmm.c:100-101, 146-147) errs on the safe
\* side and the scan of pmm_alloc_frame skips the rest.
HeldIsSafe == \A f \in held : SafeFrame(f) /\ f >= LowFrames

\* While a caller holds a frame its bit is set, so no scan of
\* pmm_alloc_frame can hand it out a second time, also after any sequence
\* of frees, repeated frees and wrap-arounds of the scan.
HeldStaysMarked == held \subseteq used

\* No frame is lost by the allocator: every frame of the pool is either
\* held by a caller or can still be found by a scan.
NoFrameLost ==
  pc \in {"idle", "scan"} =>
    Available(highest, LowFrames, used) = Pool \ held

\* pmm_alloc_frame returns NULL only when no frame above 1 MiB is free: the
\* scan that starts at pmm_last_alloc_index wraps around and probes every
\* frame below pmm_highest_address.
RefusedOnlyWhenFull ==
  [][pc = "scan" /\ pc' = "idle" /\ ret' = NULL =>
       Available(highest, LowFrames, used) = {}]_vars

\* The loop computes the reference definition NextFit: the first available
\* frame at or after pmm_last_alloc_index, in circular order.
ScanIsNextFit ==
  [][pc = "scan" /\ pc' = "idle" =>
       ret' = NextFit(highest, LowFrames, used, last)]_vars

\* The manager is a frame allocator: every step of the bitmap code is a
\* step of the abstract pool, or leaves it unchanged.
Allocator == INSTANCE FrameAllocator
  WITH free <- Available(highest, LowFrames, used), answer <- ret
ImplementsAllocator == Allocator!Spec

\* Every call of pmm_alloc_frame returns.
ScanTerminates == pc = "scan" ~> pc = "idle"
=============================================================================
