----------------------------- MODULE ProcMemory -----------------------------
(***************************************************************************)
(* The life of user memory: the page tables of vmm.c, exec_elf (exec.c)    *)
(* building an address space and entering it, sys_fork (syscall.c) copying *)
(* it, and isr_handler (idt.c) abandoning it.  One processor runs it all;  *)
(* pc says which kernel function is running and where, and an action is    *)
(* one iteration or one call of that function.                             *)
(*                                                                         *)
(* A frame is seen as a page table (tbl) or as bytes (data); the code uses *)
(* each frame in one of the two ways.  Frames are allocated by NextFit,    *)
(* which PMM.tla shows pmm_alloc_frame to compute.  An address is counted  *)
(* in units of which PAGE_SIZE make a page; a virtual page is named by its *)
(* number.  The tree has the four levels of the hardware, with NIdx        *)
(* entries to a table.                                                     *)
(***************************************************************************)
EXTENDS Frames, Integers, Sequences, FiniteSets, FiniteSetsExt

CONSTANTS
  NFrames, LowFrames, \* as in Frames
  Reserved,           \* frames pmm_init leaves marked and nobody frees
  KernelPml4,         \* g_kernel_pml4, stored by vmm_init
  NIdx,               \* entries per table (512)
  KernelHalf,         \* first PML4 index of the kernel's half (256)
  KernelEntries,      \* the PML4 entries the boot loader's tables have
  PAGE_SIZE,
  StackBottom,        \* page of USER_STACK_BOTTOM_VADDR
  StackTop,           \* page of USER_STACK_TOP_VADDR
  Programs            \* ELF files that pass exec_elf's header checks

ASSUME FramesAssumption ==
  /\ NFrames \in Nat \ {0} /\ LowFrames \in Nat \ {0}
  /\ Reserved \subseteq 0..(NFrames - 1)
  /\ KernelPml4 \in Reserved

ASSUME TablesAssumption ==
  /\ NIdx \in Nat \ {0} /\ KernelHalf \in 0..NIdx
  /\ KernelEntries \subseteq KernelHalf..(NIdx - 1)
  /\ PAGE_SIZE \in Nat \ {0}
  /\ StackBottom \in Nat /\ StackTop \in Nat /\ StackBottom <= StackTop

Segment == [load : BOOLEAN, vaddr : Nat, memsz : Nat, filesz : Nat,
            w : BOOLEAN, x : BOOLEAN]

ASSUME ProgramsAssumption ==
  \A p \in Programs : p.phdrs_fit \in BOOLEAN /\ p.segs \in Seq(Segment)

VARIABLES
  used, last,    \* the frame allocator
  tbl,           \* frames seen as tables of entries
  data,          \* frames seen as bytes
  cr3,
  pc,
  prog, seg, off,    \* exec_elf: the file, its segment i, the loop's offset
  space,             \* exec_elf's user_pml4_phys, sys_fork's child_pml4
  va,                \* the page being mapped or copied
  frame, flags,      \* phys_frame and the flags it is mapped with
  node, lvl,         \* vmm_map_page: current table and its level
  next_pid,
  level              \* for each frame, the level of the table it became, or 0

alloc == <<used, last>>
exec == <<prog, seg, off>>
map == <<space, va, frame, flags, node, lvl>>
vars == <<alloc, tbl, data, cr3, pc, exec, map, next_pid, level>>
-----------------------------------------------------------------------------
Frame == 0..(NFrames - 1)
Idx == 0..(NIdx - 1)
Flag == {"P", "W", "U", "NX"}
Entry == [frame : Frame, flags : SUBSET Flag]
NoEntry == [frame |-> 0, flags |-> {}]
Present(e) == "P" \in e.flags

\* Physical addresses are frame numbers; bit 63 of one is worth NXBit.
NXBit == NFrames

Zero == <<0, 0>>                 \* a byte that memset wrote
Stale == <<0, 1>>                \* a byte left from an earlier use
FileByte(s, k) == <<s, k>>       \* byte k of the file part of segment s
UserByte == <<0, 2>>             \* a byte stored by the program

\* Pages covered by one entry of a table of level l.
Span(l) == CASE l = 1 -> 1
             [] l = 2 -> NIdx
             [] l = 3 -> NIdx * NIdx
             [] OTHER -> NIdx * NIdx * NIdx

\* pml4_index, pdpt_index, pd_index and pt_index of page v.
Index(v, l) == (v \div Span(l)) % NIdx

UserEnd == StackTop + 1          \* user_end of sys_fork, in pages

\* exec_elf does not check where a segment goes; the programs of this
\* repository, and the stack, are in the lower half.
LowHalf(v) == v \div Span(4) < KernelHalf

ASSUME LowHalfAssumption ==
  /\ \A v \in 0..StackTop : LowHalf(v)
  /\ \A p \in Programs : \A k \in 1..Len(p.segs) :
       p.segs[k].load => \A o \in 0..(p.segs[k].memsz - 1) :
         LowHalf((p.segs[k].vaddr + o) \div PAGE_SIZE)

\* The entry for page v that a walk from the PML4 s finds in tables t.
PteOf(t, s, v) ==
  LET e4 == t[s][Index(v, 4)]
      e3 == t[e4.frame][Index(v, 3)]
      e2 == t[e3.frame][Index(v, 2)]
      e1 == t[e2.frame][Index(v, 1)]
  IN IF Present(e4) /\ Present(e3) /\ Present(e2) /\ Present(e1)
     THEN e1 ELSE NoEntry

\* PAGE_MASK keeps bit 63, so the answer for a no-execute page carries it.
vmm_get_physical_address(s, v) ==
  LET e == PteOf(tbl, s, v)
  IN IF Present(e) THEN e.frame + (IF "NX" \in e.flags THEN NXBit ELSE 0)
     ELSE 0
-----------------------------------------------------------------------------
\* What an entry of the boot loader's tables, or of memory nobody cleared,
\* may look like; its target is never followed.
GarbageEntry == [frame |-> KernelPml4, flags |-> {"P", "W", "U"}]

KernelTable ==
  [k \in Idx |-> IF k \in KernelEntries THEN GarbageEntry ELSE NoEntry]

\* The kernel's PML4 maps the kernel in its upper half.  All other frames hold what the
\* firmware and the boot loader left there.
Init ==
  /\ used = Reserved /\ last = 0
  /\ tbl = [f \in Frame |->
              IF f = KernelPml4
              THEN KernelTable
              ELSE [k \in Idx |-> GarbageEntry]]
  /\ data = [f \in Frame |-> [b \in 0..(PAGE_SIZE - 1) |-> Stale]]
  /\ cr3 = KernelPml4
  /\ pc = "shell"
  /\ prog \in Programs /\ seg = 1 /\ off = 0
  /\ space = KernelPml4 /\ va = 0 /\ frame = NULL /\ flags = {}
  /\ node = KernelPml4 /\ lvl = 4
  /\ next_pid = 1
  /\ level = [f \in Frame |-> 0]

Fit == NextFit(NFrames, LowFrames, used, last)

\* pmm_alloc_frame returns a frame, which becomes f; or it returns NULL.
Allocate(f) == f = Fit /\ f # NULL /\ used' = used \cup {f} /\ last' = f + 1
OutOfMemory == Fit = NULL

\* vmm_create_address_space with the frame f: zeroed, then the present
\* entries of the kernel's half copied.
NewPml4 ==
  [k \in Idx |-> IF k >= KernelHalf /\ Present(tbl[KernelPml4][k])
                 THEN tbl[KernelPml4][k] ELSE NoEntry]

Create(f) ==
  /\ Allocate(f)
  /\ tbl' = [tbl EXCEPT ![f] = NewPml4]
  /\ level' = [level EXCEPT ![f] = 4]
  /\ space' = f
-----------------------------------------------------------------------------
\* exec_elf, up to the loop over the segments.  A file whose program headers
\* do not fit is given up after its address space was created.
ExecStart(p) ==
  /\ pc = "shell"
  /\ \E f \in Frame : Create(f)
  /\ pc' = IF p.phdrs_fit THEN "segment" ELSE "shell"
  /\ prog' = p /\ seg' = 1 /\ off' = 0
  /\ UNCHANGED <<data, cr3, va, frame, flags, node, lvl, next_pid>>

Segs == prog.segs

\* Not PT_LOAD, empty, or done: go to the next program header.
SegmentNext ==
  /\ pc = "segment" /\ seg <= Len(Segs)
  /\ ~ Segs[seg].load \/ off >= Segs[seg].memsz
  /\ seg' = seg + 1 /\ off' = 0
  /\ UNCHANGED <<alloc, tbl, data, cr3, pc, prog, map, next_pid, level>>

\* One iteration of the page loop, up to the call of vmm_map_page.
SegmentPage ==
  /\ pc = "segment" /\ seg <= Len(Segs)
  /\ Segs[seg].load /\ off < Segs[seg].memsz
  /\ Allocate(frame')
  /\ va' = (Segs[seg].vaddr + off) \div PAGE_SIZE
  /\ flags' = {"P", "U"} \cup (IF Segs[seg].w THEN {"W"} ELSE {})
                         \cup (IF Segs[seg].x THEN {} ELSE {"NX"})
  /\ node' = space /\ lvl' = 4
  /\ pc' = "map_segment"
  /\ UNCHANGED <<tbl, data, cr3, exec, space, next_pid, level>>

\* Mutant: the whole of p_memsz is taken to be in the file.
MutPageBytes ==
  [b \in 0..(PAGE_SIZE - 1) |->
     LET k == va * PAGE_SIZE + b - Segs[seg].vaddr
     IN IF k >= 0 /\ k < Segs[seg].memsz THEN FileByte(seg, k) ELSE Zero]

\* Bytes of the page va of the current segment, after memset and memcpy.
PageBytes ==
  [b \in 0..(PAGE_SIZE - 1) |->
     LET k == va * PAGE_SIZE + b - Segs[seg].vaddr
     IN IF k >= 0 /\ k < Min({Segs[seg].memsz, Segs[seg].filesz})
        THEN FileByte(seg, k) ELSE Zero]

\* The rest of the iteration, after vmm_map_page returned true.
SegmentFill ==
  /\ pc = "fill"
  /\ data' = [data EXCEPT ![frame] = PageBytes]
  /\ off' = off + PAGE_SIZE
  /\ pc' = "segment"
  /\ UNCHANGED <<alloc, tbl, cr3, prog, seg, map, next_pid, level>>

SegmentsDone ==
  /\ pc = "segment" /\ seg > Len(Segs)
  /\ va' = StackBottom
  /\ pc' = "stack"
  /\ UNCHANGED <<alloc, tbl, data, cr3, exec, space, frame, flags, node, lvl,
                 next_pid, level>>

\* One iteration of the stack loop; stack pages are not cleared.
StackPage ==
  /\ pc = "stack" /\ va <= StackTop
  /\ Allocate(frame')
  /\ flags' = {"P", "U", "W"}
  /\ node' = space /\ lvl' = 4
  /\ pc' = "map_stack"
  /\ UNCHANGED <<tbl, data, cr3, exec, space, va, next_pid, level>>

\* Switch CR3 and jmp_usermode, which does not return.
EnterUser ==
  /\ pc = "stack" /\ va > StackTop
  /\ cr3' = space
  /\ pc' = "user"
  /\ UNCHANGED <<alloc, tbl, data, exec, map, next_pid, level>>

\* pmm_alloc_frame failed in exec_elf: it returns to the shell at once.
ExecOutOfMemory ==
  /\ \/ pc = "segment" /\ seg <= Len(Segs)
        /\ Segs[seg].load /\ off < Segs[seg].memsz
     \/ pc = "stack" /\ va <= StackTop
  /\ OutOfMemory
  /\ pc' = "shell"
  /\ UNCHANGED <<alloc, tbl, data, cr3, exec, map, next_pid, level>>
-----------------------------------------------------------------------------
\* vmm_map_page, one level of the walk at a time.
Mapping == pc \in {"map_segment", "map_stack", "map_fork"}
Slot == Index(va, lvl)

MapDescend ==
  /\ Mapping /\ lvl > 1
  /\ Present(tbl[node][Slot])
  /\ node' = tbl[node][Slot].frame /\ lvl' = lvl - 1
  /\ UNCHANGED <<alloc, tbl, data, cr3, pc, exec, space, va, frame, flags,
                 next_pid, level>>

\* Mutant: a new table is linked without being zeroed.
MutMapNewTable ==
  /\ Mapping /\ lvl > 1
  /\ ~ Present(tbl[node][Slot])
  /\ Allocate(node')
  /\ tbl' = [tbl EXCEPT ![node][Slot] = [frame |-> node', flags |-> {"P", "W", "U"}]]
  /\ level' = [level EXCEPT ![node'] = lvl - 1]
  /\ lvl' = lvl - 1
  /\ UNCHANGED <<data, cr3, pc, exec, space, va, frame, flags, next_pid>>

\* A missing table is allocated, zeroed and then linked.
MapNewTable ==
  /\ Mapping /\ lvl > 1
  /\ ~ Present(tbl[node][Slot])
  /\ Allocate(node')
  /\ tbl' = [tbl EXCEPT ![node'] = [k \in Idx |-> NoEntry],
                        ![node][Slot] = [frame |-> node', flags |-> {"P", "W", "U"}]]
  /\ level' = [level EXCEPT ![node'] = lvl - 1]
  /\ lvl' = lvl - 1
  /\ UNCHANGED <<data, cr3, pc, exec, space, va, frame, flags, next_pid>>

\* Mutant: the caller keeps the page that could not be mapped.
MutMapKeep ==
  /\ Mapping /\ lvl > 1
  /\ ~ Present(tbl[node][Slot])
  /\ OutOfMemory
  /\ pc' = IF pc = "map_fork" THEN "user" ELSE "shell"
  /\ UNCHANGED <<alloc, tbl, data, cr3, exec, map, next_pid, level>>

\* Mutant: vmm_map_page frees the table it stopped at.
MutMapFreeTable ==
  /\ Mapping /\ lvl > 1
  /\ ~ Present(tbl[node][Slot])
  /\ OutOfMemory
  /\ used' = used \ {frame, node}
  /\ pc' = IF pc = "map_fork" THEN "user" ELSE "shell"
  /\ UNCHANGED <<last, tbl, data, cr3, exec, map, next_pid, level>>

\* vmm_map_page returns false; its caller frees the page it wanted to map
\* and gives up, leaving everything else as it is.
MapOutOfMemory ==
  /\ Mapping /\ lvl > 1
  /\ ~ Present(tbl[node][Slot])
  /\ OutOfMemory
  /\ used' = used \ {frame}
  /\ pc' = IF pc = "map_fork" THEN "user" ELSE "shell"
  /\ UNCHANGED <<last, tbl, data, cr3, exec, map, next_pid, level>>

\* The PTE is written, over an earlier one if there is one, and
\* vmm_map_page returns true.
MapPte ==
  /\ Mapping /\ lvl = 1
  /\ tbl' = [tbl EXCEPT ![node][Slot] = [frame |-> frame, flags |-> flags]]
  /\ pc' = CASE pc = "map_segment" -> "fill"
             [] pc = "map_stack" -> "stack"
             [] OTHER -> "fork"
  /\ va' = IF pc = "map_segment" THEN va ELSE va + 1
  /\ UNCHANGED <<alloc, data, cr3, exec, space, frame, flags, node, lvl,
                 next_pid, level>>
-----------------------------------------------------------------------------
\* The program stores to a page it may write.
UserWrite(v) ==
  LET e == PteOf(tbl, cr3, v) IN
  /\ pc = "user"
  /\ {"P", "W", "U"} \subseteq e.flags
  /\ data' = [data EXCEPT ![e.frame] = [b \in 0..(PAGE_SIZE - 1) |-> UserByte]]
  /\ UNCHANGED <<alloc, tbl, cr3, pc, exec, map, next_pid, level>>

\* The program faults, or ends: sys_exit returns to it, and the library's
\* exit() then executes hlt, which faults.  isr_handler restores the
\* kernel's CR3 and runs the shell; the process is abandoned as it is.
UserFault ==
  /\ pc = "user"
  /\ cr3' = KernelPml4
  /\ pc' = "shell"
  /\ UNCHANGED <<alloc, tbl, data, exec, map, next_pid, level>>

\* sys_fork, up to the copy loop.  It reads six words below the program's
\* stack pointer, which may lead anywhere: where nothing is mapped the kernel
\* faults.
ForkStart ==
  /\ pc = "user"
  /\ \E f \in Frame : Create(f)
  /\ va' = 0
  /\ pc' \in {"fork", "halted"}
  /\ UNCHANGED <<data, cr3, exec, frame, flags, node, lvl, next_pid>>

parent_phys == vmm_get_physical_address(cr3, va)

\* Mutant: continue skips the loop's increment.
MutForkSkip ==
  /\ pc = "fork" /\ va < UserEnd
  /\ parent_phys = 0
  /\ UNCHANGED vars

ForkSkip ==
  /\ pc = "fork" /\ va < UserEnd
  /\ parent_phys = 0
  /\ va' = va + 1
  /\ UNCHANGED <<alloc, tbl, data, cr3, pc, exec, space, frame, flags, node,
                 lvl, next_pid, level>>

\* Mutant: the child maps the parent's frame instead of a copy.
MutForkShare ==
  /\ pc = "fork" /\ va < UserEnd
  /\ parent_phys \in Frame \ {0}
  /\ frame' = parent_phys
  /\ flags' = {"P", "U"} \cup (IF va \in StackBottom..StackTop THEN {"W"} ELSE {})
  /\ node' = space /\ lvl' = 4
  /\ pc' = "map_fork"
  /\ UNCHANGED <<alloc, tbl, data, cr3, exec, space, va, next_pid, level>>

\* Mutant: memcpy with its arguments swapped.
MutForkSwap ==
  /\ pc = "fork" /\ va < UserEnd
  /\ parent_phys \in Frame \ {0}
  /\ Allocate(frame')
  /\ data' = [data EXCEPT ![parent_phys] = data[frame']]
  /\ flags' = {"P", "U"} \cup (IF va \in StackBottom..StackTop THEN {"W"} ELSE {})
  /\ node' = space /\ lvl' = 4
  /\ pc' = "map_fork"
  /\ UNCHANGED <<tbl, cr3, exec, space, va, next_pid, level>>

\* Mutant: the page is mapped but not copied.
MutForkNoCopy ==
  /\ pc = "fork" /\ va < UserEnd
  /\ parent_phys \in Frame \ {0}
  /\ Allocate(frame')
  /\ flags' = {"P", "U"} \cup (IF va \in StackBottom..StackTop THEN {"W"} ELSE {})
  /\ node' = space /\ lvl' = 4
  /\ pc' = "map_fork"
  /\ UNCHANGED <<tbl, data, cr3, exec, space, va, next_pid, level>>

\* One iteration of the copy loop, up to the call of vmm_map_page.
ForkPage ==
  /\ pc = "fork" /\ va < UserEnd
  /\ parent_phys \in Frame \ {0}
  /\ Allocate(frame')
  /\ data' = [data EXCEPT ![frame'] = data[parent_phys]]
  /\ flags' = {"P", "U"} \cup (IF va \in StackBottom..StackTop THEN {"W"} ELSE {})
  /\ node' = space /\ lvl' = 4
  /\ pc' = "map_fork"
  /\ UNCHANGED <<tbl, cr3, exec, space, va, next_pid, level>>

\* phys_to_virt of an address with bit 63 set is not canonical: the memcpy
\* faults in kernel mode and isr_handler halts the machine.
ForkFault ==
  /\ pc = "fork" /\ va < UserEnd
  /\ parent_phys >= NXBit
  /\ Allocate(frame')
  /\ pc' = "halted"
  /\ UNCHANGED <<tbl, data, cr3, exec, space, va, flags, node, lvl, next_pid,
                 level>>

ForkOutOfMemory ==
  /\ pc = "fork" /\ va < UserEnd
  /\ parent_phys # 0
  /\ OutOfMemory
  /\ pc' = "user"
  /\ UNCHANGED <<alloc, tbl, data, cr3, exec, map, next_pid, level>>

ForkDone ==
  /\ pc = "fork" /\ va >= UserEnd
  /\ next_pid' = next_pid + 1
  /\ pc' = "user"
  /\ UNCHANGED <<alloc, tbl, data, cr3, exec, map, level>>
-----------------------------------------------------------------------------
\* What runs in the kernel until it returns to the shell or the program.
KernelStep ==
  \/ SegmentNext \/ SegmentPage \/ SegmentFill \/ SegmentsDone
  \/ StackPage \/ EnterUser \/ ExecOutOfMemory
  \/ MapDescend \/ MapNewTable \/ MapOutOfMemory \/ MapPte
  \/ ForkSkip \/ ForkPage \/ ForkFault \/ ForkOutOfMemory \/ ForkDone

\* vmm_create_address_space returns NULL: exec_elf returns to the shell, or
\* sys_fork returns -1, having changed nothing.
CreateOutOfMemory ==
  /\ pc \in {"shell", "user"}
  /\ OutOfMemory
  /\ UNCHANGED vars

Next ==
  \/ CreateOutOfMemory
  \/ \E p \in Programs : ExecStart(p)
  \/ KernelStep
  \/ \E v \in 0..StackTop : UserWrite(v)
  \/ UserFault
  \/ ForkStart

\* The processor keeps executing kernel code.
Spec == Init /\ [][Next]_vars /\ WF_vars(KernelStep)
-----------------------------------------------------------------------------
TypeOK ==
  /\ used \subseteq Frame /\ last \in 0..NFrames
  /\ tbl \in [Frame -> [Idx -> Entry]]
  /\ DOMAIN data = Frame
  /\ cr3 \in Frame
  /\ pc \in {"shell", "segment", "map_segment", "fill", "stack", "map_stack",
             "user", "fork", "map_fork", "halted"}
  /\ prog \in Programs /\ seg \in Nat \ {0} /\ off \in Nat
  /\ space \in Frame /\ va \in Nat /\ frame \in Frame /\ flags \subseteq Flag
  /\ node \in Frame /\ lvl \in 1..4
  /\ next_pid \in Nat
  /\ level \in [Frame -> 0..4]

\* The address spaces that were created.
Spaces == {f \in Frame : level[f] = 4}

Tables == {f \in Frame : level[f] > 0}

\* Entry k of the table t is present; the kernel's half of a PML4 is left out.
Link(t, k) ==
  /\ t \in Frame /\ k \in Idx /\ level[t] > 0
  /\ level[t] = 4 => k < KernelHalf
  /\ Present(tbl[t][k])
Target(t, k) == tbl[t][k].frame

\* The frame exec_elf or sys_fork took for a page that is not mapped yet.
InFlight == IF Mapping THEN {frame} ELSE {}

\* No frame is reached twice: two entries of the page tables of all address
\* spaces never lead to the same frame, and none leads to a frame that is
\* free, reserved for the kernel, or a table of the wrong level.  This is
\* what keeps processes and the kernel apart, through every interleaving of
\* exec, fork, failure half way through vmm_map_page and re-mapping.
FramesExclusive ==
  /\ \A t \in Tables, j \in Idx : Link(t, j) =>
       \A u \in Tables, k \in Idx :
         Target(t, j) = Target(u, k) /\ Link(u, k) => t = u /\ j = k
  /\ \A t \in Tables, k \in Idx :
       Link(t, k) => /\ Target(t, k) \in used \ Reserved
                     /\ level[Target(t, k)] = level[t] - 1
  /\ Tables \subseteq used \ Reserved

\* The shell, and exec_elf while it builds a space, run on the kernel's own
\* tables; a program and its system calls run on tables that were created
\* for it; and the kernel's half is mapped in whatever CR3 holds.
Cr3Matches ==
  /\ IF pc \in {"user", "fork", "map_fork", "halted"}
     THEN cr3 \in Spaces ELSE cr3 = KernelPml4
  /\ pc \in {"segment", "map_segment", "fill", "stack", "map_stack"} =>
       space \in Spaces
  /\ pc \in {"fork", "map_fork"} => space \in Spaces \ {cr3}
  /\ \A k \in Idx : k >= KernelHalf => tbl[cr3][k] = tbl[KernelPml4][k]

\* Segments that start at a page, and share none with each other or with the
\* stack.
PagesOf(sg) == {(sg.vaddr + o) \div PAGE_SIZE : o \in 0..(sg.memsz - 1)}
Regular(p) ==
  \A s \in 1..Len(p.segs) : p.segs[s].load =>
    /\ p.segs[s].vaddr % PAGE_SIZE = 0
    /\ PagesOf(p.segs[s]) \cap (StackBottom..StackTop) = {}
    /\ \A t \in 1..(s - 1) :
         p.segs[t].load => PagesOf(p.segs[s]) \cap PagesOf(p.segs[t]) = {}

\* What a clean-up that walks the trees would find, and the page in flight.
Reached == Spaces \cup InFlight
             \cup {Target(l[1], l[2]) : l \in {l \in Tables \X Idx : Link(l[1], l[2])}}

\* No step loses a frame that is in use: it stays in some page table tree, or
\* is the page about to be mapped, unless a program's segments share a page
\* with each other or with the stack.
NothingUnreachable ==
  [][\/ (used' \ Reserved) \ (used \ Reached) \subseteq Reached'
     \/ pc' = "halted"
     \/ pc \in {"map_segment", "map_stack"} /\ ~ Regular(prog)]_vars

\* The pages of segment s as exec_elf should have laid them out.
SegmentLoaded(s) ==
  \A k \in 0..(Segs[s].memsz - 1) :
    LET a == Segs[s].vaddr + k
        e == PteOf(tbl, space, a \div PAGE_SIZE)
    IN /\ Present(e) /\ "U" \in e.flags
       /\ ("W" \in e.flags) = Segs[s].w
       /\ data[e.frame][a % PAGE_SIZE]
            = IF k < Segs[s].filesz THEN FileByte(s, k) ELSE Zero

\* When exec_elf has loaded the segments every byte of each loadable segment
\* is mapped with the segment's permissions and holds the file's byte, or
\* zero beyond p_filesz: nothing the later segments and the stack did
\* disturbed it.  (Not for segments that share a page or start inside one.)
ImageLoaded ==
  pc = "stack" /\ Regular(prog) =>
    \A s \in 1..Len(Segs) : Segs[s].load => SegmentLoaded(s)

\* The child's space so far: each page below va is mapped where the
\* parent's is, to a frame of its own with the same bytes.  The flags are
\* made up (syscall.c:539-546), but never let the child write to a page that
\* the parent may only read.
ForkCopies ==
  pc \in {"fork", "map_fork"} =>
    \A v \in 0..(va - 1) :
      LET p == PteOf(tbl, cr3, v)
          c == PteOf(tbl, space, v)
      IN /\ Present(p) <=> Present(c)
         /\ Present(p) => /\ c.frame # p.frame /\ data[c.frame] = data[p.frame]
                         /\ {"U", "W"} \cap c.flags \subseteq p.flags

\* A frame is given back only by the failing vmm_map_page that was to map
\* it, and no page table refers to it then.
FreeOnlyUnmapped ==
  [][\A f \in used \ used' :
       /\ InFlight = {f} /\ level[f] = 0
       /\ \A t \in Tables, k \in Idx : Link(t, k) => Target(t, k) # f]_vars

\* What another address space sees through its tables, for every page, is
\* not changed by a program's stores, by sys_fork or by exec_elf.
View(d, t, s) ==
  [v \in 0..StackTop |->
     LET e == PteOf(t, s, v) IN IF Present(e) THEN d[e.frame] ELSE <<>>]
Isolation ==
  [][\A s \in Spaces :
       s # (IF pc = "user" THEN cr3 ELSE space) =>
         View(data', tbl', s) = View(data, tbl, s)]_vars

\* exec_elf and sys_fork come to an end: the kernel returns to the shell or
\* the program, or has halted.
KernelReturns ==
  pc \notin {"shell", "user", "halted"} ~> pc \in {"shell", "user", "halted"}

\* The tables implement partial functions from pages to frames: adding a
\* table or failing half way changes no mapping, vmm_map_page changes the
\* one it was asked for, and a frame is never mapped twice.
PageMaps == INSTANCE PageMap
  WITH Page <- 0..StackTop, Kernel <- KernelPml4,
       maps <- [s \in Spaces |-> [v \in 0..StackTop |-> PteOf(tbl, s, v)]]
ImplementsPageMap == PageMaps!Spec
-----------------------------------------------------------------------------
\* Statements of the code's comments that the code does not keep.

\* exec.c:259-260: after the program has ended its stack pages are freed.
StackReleased ==
  [][pc = "user" /\ pc' = "shell" =>
       \A v \in StackBottom..StackTop : PteOf(tbl, cr3, v).frame \notin used']_vars

\* syscall.c:539-540: a page is mapped in the child with the same flags.
ForkKeepsFlags ==
  pc \in {"fork", "map_fork"} =>
    \A v \in 0..(va - 1) : PteOf(tbl, cr3, v).flags = PteOf(tbl, space, v).flags

\* vmm.h: vmm_get_physical_address gives the physical address that a page
\* is mapped to, which sys_fork hands to phys_to_virt and memcpy.
PhysIsFrame ==
  \A s \in Spaces, v \in 0..StackTop :
    vmm_get_physical_address(s, v) = PteOf(tbl, s, v).frame
=============================================================================
