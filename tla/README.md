# A verification project for ppoOS

ppoOS is a small x86-64 kernel started by Limine: a frame allocator, four-level page tables, an
ELF loader, system calls, a file registry filled from a cpio archive, an ext2 reader, a shell on a
polled keyboard. It runs on one processor, takes no device interrupts (only #GP and #PF have gates,
`idt.c:140-141`) and polls its input, so the kernel's own code is sequential. What makes it hard is
long sequences of legal calls, failure half way through an operation, the order in which processes
take and abandon resources, and arithmetic at borders.

Paths below are relative to `src/kernel/src/src/` unless they start with `src/`.

## 1. The system

| part | state | operations | what makes it correct |
|---|---|---|---|
| physical memory manager (`vmm.c:20-254`) | bitmap, highest address, last index | `pmm_init`, `pmm_alloc_frame`, `pmm_free_frame` | a frame handed out is usable, nobody else's, and found again once freed; failure means none is left |
| virtual memory manager (`vmm.c:256-472`) | page tables in frames, `g_kernel_pml4`, CR3 | create, map, look up, switch (unmap is not reached) | each space is a function from pages to frames; spaces share no frame |
| loader (`exec.c`) | the space being built | `exec_elf` | the image holds the file's bytes and zeros, with its permissions |
| fork (`syscall.c:454-603`) | `next_pid`, child's space | `sys_fork` | the child's pages equal the parent's, in frames of their own |
| exceptions (`idt.c`) | CR3, nested shell | `isr_handler` | a user fault gives the machine back to the shell, on the kernel's tables |
| system calls (`syscall.c`) | `fd_table`, stack buffers | open, read, write, close, readdir, exit | reads are in order; only the program's buffer is touched |
| archive (`initramfs.c`) | list of 16 entries | `initramfs_init`, `_list` | entries are found with their names and bytes |
| file registry (`fs.c`) | files, directories, current directory, 64 KiB pool | init, open, read, list, create, write, chmod, cd | files are separate; a name finds its file |
| ext2 driver (`ext2.c`) | superblock copy, current directory, one static file | mount, open, read, list, cd | the same, for a read-only image |
| shell (`shell.c`) | line, arguments, environment | edit, split, expand, built-ins, run | arguments are what was typed; buffers hold them |
| keyboard, mouse (`keyboard.c`, `mouse.c`) | modifier flags, packet | poll | each byte is decoded by the right reader |
| window demo (`gui.c`) | windows | click, draw | the window hit is the one shown |
| entry (`usermode_entry.asm`, `syscall_entry.asm`, `isr_stubs.asm`, `gdt.c`, the library's stub) | registers, kernel stacks, three saved words | start a program, call, return, fault | arguments arrive in their places; a program gets its registers back; the handler sees those of the fault |
| texts (`lib/string.c`, used in `shell.c`, `fs.c`, `ext2.c`) | buffers, `strtok`'s place | copy, append, move, split | nothing is stored behind a buffer; every field is visited once |
| start (`src/kernel/src/main.c`, `kernel.c`) | - | order of initialisation | each part is up before it is used |
| output (`serial.c`, `elf.c`, flanterm) | - | printing | not modelled |

How they interact. `kmain` calls `pmm_init`, then `kernel` calls it again, stores CR3 as
`g_kernel_pml4`, lists and imports the archive and calls `shell_run`. The shell calls the registry,
and `exec_elf`, which takes frames from the allocator, builds an address space, writes CR3 and jumps
to the program. The program comes back to the kernel by `syscall` (`sys_*`) or by a fault.
`sys_exit` does **not** end a program: `syscall()` returns 0 to it, the user library then executes
`hlt`, which faults, and `isr_handler` loads `g_kernel_pml4` and calls `shell_run` again. The
abandoned program's frames, tables and descriptors stay as they were. A fault in the kernel halts
the machine.

## 2. Modules

| module | models | kind |
|---|---|---|
| `Frames` | the arithmetic of the frame scan: what is available, which frame a scan returns | operators |
| `FrameAllocator` | what the frame allocator promises | abstract specification |
| `PMM` | `pmm_init`, `pmm_alloc_frame` one probe at a time, `pmm_free_frame` | state machine |
| `PageMap` | what the page tables promise: partial functions from pages to frames | abstract specification |
| `ProcMemory` | page tables, `exec_elf`, `sys_fork`, `isr_handler`, one call or loop iteration per action | state machine, composes the allocator with its users |
| `FileStore` | what the registry promises about contents | abstract specification |
| `RamFS` | `initramfs_init`, `fs_init`, `fs.h` on archive files | state machine |
| `Syscalls` | `sys_open/read/write/close/readdir/exit`, over `RamFS` | state machine, composes the registry with programs |
| `Ext2` | `ext2.c` and the branches of `fs.c` and `syscall.c` that reach it | state machine and pure operators |
| `ShellLine` | `shell_run`: typing, editing and splitting a line | state machine |
| `Shell` | `shell_exec`: variables, `su`, redirection, PATH search, restart after a fault | state machine |
| `Keyboard` | `keyboard.c`, with a keyboard that sends bytes | state machine |
| `Console` | the line editor of `shell_run` and the keyboard branch of `sys_read`, over `Keyboard` | state machine, composes the keyboard with its two readers |
| `Entry` | `jmp_usermode`, `_syscall`, `syscall_asm_entry`, the exception stubs, the selectors, masks and stacks | state machine |
| `Text` | the functions of `string.c`, in the PATH search, `cd` and name stripping that use them | operators and a state machine of the three uses |
| `Mouse` | `mouse.c` and the loop of `gui.c`, with the controller, mouse and keyboard | state machine, composes driver, demo and hardware |
| `Places` | the part of a sequence at a set of places, for the references of `ShellLine` and `Text` | operators |
| `MC*` | instances for TLC | |
| `PMMProofs`, `ProcMemoryProofs`, `ConsoleProofs`, `MouseProofs`, `EntryProofs`, `ShellProofs`, `FilesProofs`, `Ext2Proofs` | of `PMM`, `ProcMemory`, `Keyboard` and `Console`, `Mouse`, `Entry`, `Shell`, `ShellLine` and `Text`, `RamFS` and `Syscalls`, `Ext2` | theorems and proofs |

**PMM.** `used` is the set of one bits, `highest` and `last` the two static variables, `pc` and `i`
the position in the scan, `held` what callers hold. Addresses are counted in units so that memory
map entries need not be aligned; the frames to mark are computed as `pmm_init` rounds them. The
bitmap's own address is a virtual one, as in the code (`vmm.c:169`), and so marks nothing on most
machines; the bitmap lies in the kernel image, which is marked. A call of `pmm_free_frame` with a
frame in use that the caller does not hold is not enumerated: no caller makes one.

**ProcMemory.** A frame is a table (`tbl`) or bytes (`data`). `level` is a history variable: at
which level a frame was made a table. Allocation is one step here, `NextFit`, which PMM is shown to
compute. `pc` says which function runs: `segment`/`map_segment`/`fill` and `stack`/`map_stack` in
`exec_elf`, `fork`/`map_fork` in `sys_fork`, `user`, `shell`, `halted`. The local variables of the
functions are `prog, seg, off, space, va, frame, flags`, those of `vmm_map_page` are `node, lvl`.
Bytes are tagged with where they come from (`FileByte(s, k)`, `Zero`, `Stale`, `UserByte`), so a
wrong copy shows. `LowHalfAssumption`: the pages of every byte of a segment, and of the stack, are in
the lower half of the address space. `exec_elf` does not check it; the linker script of the programs
has it. Between any two system calls or stores the program may fault: that is also how it exits. A
program is `Regular` when its segments start at pages and share none with each other or with the
stack: mapping a page twice replaces its frame, which is then lost.

**RamFS.** The pool of `fs_alloc` is one array and a buffer an offset into it, so a store behind a
buffer lands where it does in memory. Names are short sequences of
characters (`Char`), because the code cuts them and strips "./". `Files` is the registry as
`FileStore` sees it: for every file its bytes, none for a directory. `fs_create_file` and `fs_write` have no caller in the repository, they are
enumerated as `fs.h` offers them.

**Syscalls.** Addresses are numbers below `AddrLimit`; `Mapped` and `Writable` are what the
program's tables map (below the kernel's half, without address 0). A copy is the set of addresses
it touches, and it faults in the kernel, which halts, if one of them is not mapped. `got` is a
history variable: what was read through a descriptor since it was opened. Every program has the
same map here; how tables are built is the matter of ProcMemory.

**Ext2.** An image is a function from inode numbers to inodes and two from block numbers to bytes
and to directory entries; how inodes lie in block groups and entries in bytes is left out. A path, a
name and the two texts of the current directory are sequences of characters, because the code cuts
them at the end of a buffer of `FS_MAX_PATH` = 128 bytes wherever it joins, walks or stores one
(`Cut`). `Read` is one character of the walk: it grows the name, or looks it up when a slash comes.
When the directory's text fills the buffer without a slash at its end, the join stores behind the buffer
(`fs.c:171-175`): `Cd` is the step in which that hits nothing, `CdOverrun` the one in which the kernel
faults. `file` is the one static struct that `ext2_open` fills, for `sys_open`, for `fs_chmod` and for
the start of a program; a descriptor points to it, and keeps as a history the inode it was opened for.
The start of a program halts the machine: `exec_elf` reads the header at `file->data`, a number of blocks,
unless the file is smaller than a header (`Load`). So no program runs while an image is mounted, and
`Open` and `Close` model that branch of `sys_open` all the same. `ext2_read`
is modelled and checked as the function it is. In the running system `fs_read` does not reach it,
because the file it is given says that it belongs to the archive (section 5).

**ShellLine.** `buffer`, `i`, `in_quotes`, `arg` and `args` are the local variables of `shell_run`;
`mode` says whether the line is read, split or executed. One action per branch of the loop that splits the
line; `Sees(ch)` is its test of `buffer[i]`, and `AtEnd` the NUL behind the line. `Words` is the reference: the pieces
before the `Cuts`, the spaces outside quotes and the end of the line. **Shell** takes the words of a line and is one action per built-in; a search for a
program takes one action per directory. `Stored` is what `strncpy` leaves of a name. Programs do not
return: `Restart` is `isr_handler` calling `shell_run`, with the static variables as they were.

**Keyboard.** `pressed` is a history: for the byte polled last and for every pending one, the flags
that were right once it was sent. The tables
are cut to keys of every kind, prefixed ones included (the prefix looks like a release and is
ignored). **Console.** A reader polls; `meant` is a history: what each polled byte was meant to be by
whoever pressed the key, decoded with `pressed`. `both` holds the modifiers whose two keys were down
together, for which the code's flag is wrong (section 5). `Remaining` is the reference: the printable
characters that no later erasure takes. The key that fills the buffer, or the count, ends the line as
Enter does. **Mouse.** The controller has one output buffer that it fills from its replies, the mouse
or the keyboard, in any order; whoever reads the data port takes it. Movements are decoded as the
code does, `int8_t` bytes, scale and clamping; the places of the three boxes are computed as
`gui_draw_window_ex` does, the rest of the drawing is left out. A box is drawn with a side of `Drawn`
pixels (12) and clicked on `Box` columns (15) of the whole title bar (20 rows): what is drawn works, and
so do a few pixels around it.

**Entry.** A register, a word of a stack and a saved word hold a value that says where it comes from
(`Prog(r, g)`, `UserStack(n)`, `Flags(f)`, `Code(l)`, ...), so a wrong move shows; moves are sequences of
pairs, each source read as it is when its move comes, pushes and pops are sequences of registers, each
in the order of the assembly. `stk` is the
kernel's stack from its top, `area` says whose: the boot loader's, the one of system calls, or the one of
the task state segment, whose base the processor reads from the descriptor that `gdt_init` builds. `at`
is a history: the processor as it was at the call or the fault. A C function keeps the registers of the
calling convention and may change all others. A fault may come before any instruction of the program,
inside the library's stub, in the handler or in the shell; one without a gate resets the machine.

**Text.** A buffer is a function of its bytes and of `Behind` bytes that lie behind it, `Untouched`
until something is stored there. The functions are operators on buffers with the code's order of
stores; differences of sizes wrap around, as `size_t` does. One action per round of the search and of
the walk, because `strtok` ends fields in the text it walks and keeps its place. `given` and `visited` are
histories: the texts that the operation was given, and the names that were opened or looked up. `Fields` is
the reference: what lies behind each separator up to the next, the empty ones left out. `memmove` is a
recursive function of the bytes moved so far.

## 3. Runs

| run | shows | states |
|---|---|---|
| `pmm` | `HeldIsSafe`, `NoFrameLost`: frames handed out are usable and not the kernel's, none is lost; `ScanTerminates`; `ImplementsAllocator`: refinement of `FrameAllocator`, so no frame is handed out twice | 995 |
| `procmem` | `FramesExclusive`; `NothingUnreachable`: no step, but loading a program that is not `Regular`, leaves a frame that nothing refers to; `ImageLoaded`, byte for byte with its permissions; `ForkCopies`, with no right the parent lacks; `FreeOnlyUnmapped`; `Isolation`: only the running space changes; `KernelReturns`; `ImplementsPageMap`: refinement of `PageMap` | 33758 |
| `phys_address` | *violated*: bit 63 in an address (`vmm.h:66-67`); in `procmem` the fork of such a program halts the machine (`ForkFault`) | |
| `entry` | `ArgumentsArrive` through both shuffles, with interrupts off and the stack aligned; `CallPreserves`: the program finds its registers, stack, flags and place, and `sys_fork` reads the right three; `FaultSeen`: `struct registers` holds what the registers held, and programs' faults are told from the kernel's; `OneShell`: shells do not pile up | 148988 |
| `ramfs` | `BuffersDisjoint` (and types, and the current directory exists); `Imported`; `FindsOwnName`, with and without "./"; `ImplementsFileStore`: refinement of `FileStore` | 11484 |
| `syscalls` | `ReadsInOrder`; `WithinRequest`: stores stay in the program's buffer, below the kernel's half, with the line buffer of `sys_read`; `KernelSurvives`: no call halts the machine for a buffer the program has | 18558 |
| `ext2` | `CdLeadsThere`, as long as the joined text fits; `InDirectory`: the current directory is one, and the registry's and the driver's agree but at the root; `ListedIsFound`: ls and lookup agree and no entry is lost; `ReadsTheFile` for every offset and length | 8290 |
| `text` | `InBuffers`: nothing is stored behind a buffer, and each has its terminator; `VisitsFields`: each directory of PATH and each component of a path is looked up once, in order, and a stripped name is the name | 23628 |
| `shell_line` | `ArgumentsAreWords` of the line, within the buffers; `LineIsExecuted` | 153732 |
| `shell` | `CommandTakesEffect` for export, unset and su, with one slot for a name; `FirstOfPath`; `RestartKeepsTheRest`; `SearchEnds` | 80917 |
| `console` | `FlagsOfTheirTime`: late bytes are decoded with the modifiers of their time; `TypedLine`: whoever reads, a line has the characters that were meant and not erased, and no more than fit | 3993330 |
| `mouse` | `PacketAligned`: command byte and packets are right while the keyboard is silent, and shifted by exactly the bytes it has sent afterwards; `BoxesWork` on every pixel that is drawn and on no other column; `OneChangePerPress` | 1209398 |

Bounds and why they are enough.

- `pmm`: 11 frames, two of them low, two units to a frame. The memory map has a usable entry below
  1 MiB, one aligned at neither end, one under the kernel, a reserved one and one across the limit
  of the bitmap; the kernel's size is not a multiple of a page. All orders of allocation and free
  are explored, so the scan starts everywhere and wraps.
- `procmem`: tables of two entries keep all four levels with 16 pages, 8 in the lower half, two of
  them stack. 23 frames are just enough for a program and its complete fork: memory runs out at every
  allocation of the code in some behaviour. The programs have one or two segments, with bss, a note, an
  empty one, a shared page, one that starts inside a page of the stack, one that is not executable; one file is
  truncated.
- `entry`: three exceptions, with and without an error code and without a gate. A program changes half
  of its registers at a time, so a register that is lost or exchanged is seen; its stack pointer has a few
  places, for calls in a row. Nothing a program did before its last call or fault is kept by the
  kernel, but its direction flag and the saved words, so longer histories add no cases; `OneShell` is
  about any number of programs, and the model's state does not grow with them.
- `ramfs`: names of three characters where the code has 31, 4 files and 2 directories where it has 32
  and 8, a pool of 20 bytes that the writes exhaust. The archive has more directories than fit, and a
  file for which the pool has no room: import stops there, before a file that would have fitted.
  `OddWrites` leaves out the write that ends exactly at a capacity, which is wrong (section 5); with it
  `ImplementsFileStore` would fail for that reason alone.
- `syscalls`: two descriptors, three and one byte in the two files, buffers of two bytes, and
  pointers and sizes around every border of the sixteen addresses, in the kernel's half as well, up to
  the last address, from which a range wraps around.
- `ext2`: blocks of two bytes and three direct blocks make files end inside a block, at a border and
  beyond the direct blocks; reads have every offset up to 7 and length up to 8. The root has three
  blocks, a bad inode number, a deleted entry, and more files than `FS_MAX_FILES`; the other directory
  has fewer. A buffer for paths has 8 bytes where the code has 128 (`FS_MAX_PATH`), so two or three `cd`
  bring the text of the current directory to its cut, after a name, after a slash and inside a name, and
  to the overrun; a header has 6 bytes (`ElfHeader`). Inodes have different numbers of blocks, there are no devices and no holes.
- `text`: buffers of 5 and 6 bytes, values of PATH and paths that end before, at and after every border,
  with separators at the front, doubled and at the end; sequences of `cd` grow the current directory to
  its limit. `SizeMod` is where sizes wrap around: any
  difference that wraps is larger than all buffers, here as in the code.
- `shell_line`: lines of five characters, two arguments of three, one variable whose value is longer
  than an argument: every limit is met by some line, also all at once.
- `shell`: a table of few slots, two users, values of PATH that find the program in different places or
  nowhere, and names of which one is cut to another that can be exported as well.
- `console`: both shift keys, a prefixed control key, a letter with a control character and Enter; up to
  three unpolled bytes (`MaxPending`) and four characters for one reader (`MaxTyped`), a buffer of two
  characters for each reader (`KBUF` is the program's, 4096 in the code) and counts of one and three: a
  count is below and above the buffer, and a line can be erased to nothing and then filled to its end.
- `mouse`: a screen of 18 by 6 with boxes of three columns of which two are drawn, where the code has
  15 and 12 (`WinX`, `Box`, `Drawn` and `TitleH` scale the constants of `gui.c`), so that a few reports
  reach every box. Three bytes of the keyboard give every shift of the packets, and the return into step. A
  window half as wide as the screen has exactly its three boxes. `Desk` bounds how far a dragged cursor leaves
  the screen: `mouse_poll` clamps only on the left and above.

`CHECK_DEADLOCK FALSE` is given where the machine may halt or be reset, or the shell may be left for
good (`procmem`, `entry`, `syscalls`, `shell`, `ext2`, `phys_address`), and in `console`, where `MaxTyped` ends a
line that nobody completes.

Fairness. `WF` of the scan's steps in PMM and of `KernelStep` in ProcMemory: one processor executes
kernel code without preemption, so a function that was entered goes on. For the same reason `WF` of
`Split` in ShellLine and of `Search` in Shell. Programs, devices and the user are under no fairness.
The other modules state no liveness: `sys_read` from the keyboard waits for keys as long as nobody
types.

## 4. Proofs

TLAPS proves, for every value of the constants allowed by the named assumptions:

- **PMMProofs**: the probes of a full circle reach every frame; type correctness; `HeldStaysMarked`;
  `NoFrameLost`; `HeldIsSafe`, by rounding arithmetic on each kind of memory map entry; `ScanIsNextFit` and `RefusedOnlyWhenFull`, from the
  invariant that while the scan is at probe `i` no earlier probe was available; and that PMM
  implements `FrameAllocator` step by step.
- **ProcMemoryProofs**: every safety property of the run. `IInv` is the conjunction of the type
  invariant, `FramesExclusive` and five parts that make it inductive: `Flight` (the page about to be
  mapped is in use, not a table and in no table), `Walking` (`node` is a table of level `lvl` of the
  space being built), `Counters` (the space's place in the loops), `KernelShared` (every created space
  has the kernel's half of the boot tables) and `Running` (which CR3 belongs to which `pc`).
  `FramesExclusive` alone is not inductive: mapping a page keeps it only because the frame came from
  the allocator, is still unmapped, and the walk is in the right tree. Three layers stand on it: `Path`
  (the walk of `vmm_map_page` has followed the entries of its address, so the entry it writes is that
  page's, in no other space and at no other page), for `Isolation` and `ImplementsPageMap`; `Copying`
  (the pages from the next one on are still unmapped in the child, and the page about to be mapped has
  the parent's bytes and no right the parent lacks) with `UserPages` and `StackMapped`, what is mapped
  at all when a program runs, for `ForkCopies`; `Image`
  (which bytes the loops of `exec_elf` have stored, and which pages they have mapped), for
  `ImageLoaded` and `NothingUnreachable`. Of the allocator it needs only what `NextFit` returns: an
  available frame, or NULL exactly when there is none.
- **ConsoleProofs**: `FlagsInv` of the keyboard: the pending bytes form a chain, each changing at most
  its own key's flag, from the flags the driver has to those of the keys held now. So the driver,
  which only reads the first byte, decodes it with the flags of its time however late it is. The two
  readers touch nothing of the driver (`ReadersShareTheKeyboard`), so this carries over to them. For
  `TypedLine`, a line is a stack: `LineInv` says that of N kept characters the n-th is at a place
  behind which exactly N - n more characters than erasures follow, so that the next erasure takes the
  last one; by counting, `Remaining` has exactly these places.
- **MouseProofs**: `AlignInv` (for every place of `mouse_init` and of the loops, what is in the
  controller's queues and on its way; while the keyboard is silent the three bytes of a report are the
  next three bytes of the driver's packet). Once a key was pressed, two facts are left: `InPlace` (a byte
  of a report is as far from the report's end as there are bytes behind it) and `Balance` (the bytes on
  their way and those of the open packet are, modulo three, those the keyboard has sent and the answer that
  `mouse_init` still waits for); together they say how far packets are shifted. `ActedInv` (a press that
  was acted on is still held), and
  `BoxesWork` as a fact about the geometry, for windows that hold their three boxes (`3 * Box <= WinW`).
- **EntryProofs**: `EntryInv`: types; `Calling` and `Faulted`, for every place of the two entries which
  word is in which register and in which place of the kernel's stack; and `OnStack`, that the
  kernel's stacks hold the frame of one shell at most. The moves, pushes and pops of the assembly are
  proved as functions first.
- **ShellProofs**: `ShellInv`: two variables have one name only when it was cut (`Distinct`), what the
  last command did to the table, and where the search stands, with the directories before it refused.
  Two more invariants, over what `At` of `Places` yields when a set of places grows (`AtGrows`, `AtPrefix`):
  - `LineInv`, for `ArgumentsAreWords`. When the split comes to place i, `in_quotes` is whether an odd number
    of quotes lies before it, `arg` is the piece that ends there, cut to its room, and `args` are the words
    that end before it (`Splits`). The property speaks of the end of the split only and is not
    inductive. `PieceNext`, `OpenNext` and `EndedNext` say what one character does to each part.
  - `TextInv`, for `InBuffers` and `VisitsFields`. The library functions are proved first, for every buffer:
    `Holds` (a text and its terminator lie at a place) is kept by `CopyCutIs`, `StrncatIs` and `AppendIs`,
    and `MemmoveIs` counts the bytes moved. `Rest` says that from a place on the buffer still has what the
    text has: what `strtok` and the walk need of a text whose front they have cut (`TokIs`,
    `ComponentIs`). `SearchState` and `WalkState` add that `visited` are the fields that begin before the
    current one. `FullIs` is the case that `InBuffers` leaves out: what is stored behind `abs_path` there is
    cut off again when the walk copies it, so that `VisitsFields` needs no exception.
- **FilesProofs**: `FsInv` of the registry: the tables within their limits, `Packed` (buffers lie in
  the pool in the order of the files, none beyond what was handed out), `Placed` (directories have
  their paths) and `Found` (which archive entries have been imported, where). `NamesInv` adds what a
  stored name is, for `FindsOwnName`, under the hypothesis that every name of the archive is a
  directory's or plain: not empty, short enough to be stored uncut, and without a second "./" at its
  front. The refinement of
  `FileStore`: a write stores into one buffer, and the buffers of the others are separate from it.
  `FilesAreSeparate` assumes in every step `Fits`, no write in place ends exactly at its capacity: that
  one is wrong (section 5), and no other hypothesis is needed. `SysInv` adds to `FsInv` what a system
  call has touched (`CallInv`: inside the request and below the kernel's half, and the machine halted
  only for a buffer that the program does not have) and what a descriptor has read (`FdInv`), for the
  three properties of the run `syscalls`.
- **Ext2Proofs**: the loops of the driver are recursive functions of the round, and `UpTo` (a set that
  has 0, and with each number below n the next, has all up to n) carries a fact from round to round.
  A walk of two texts one behind the other is the walk of the second from where the first ends, with the
  name it has begun (`WalkAppend`), and a slash more changes nothing (`WalkDir`), so `cd` leads from the
  current directory as long as the joined text is not cut (`CdLeads`); `AlwaysInDirectory` needs no such
  condition, because what is checked is what is stored. After k rounds of
  `ext2_read_inode_data` the buffer has the file's bytes from the offset to the end of the k-th block or
  of what is wanted (`ReadData`), by rounding arithmetic on blocks of any size; `FileInv` says whose
  fields the static struct has. `EntriesHave` and `ListIs` say the same of the two loops over a directory.
  The hypotheses leave out the images of section 5: `PlainImage` (the root is a directory; no devices
  and sockets), for `AlwaysInDirectory` and `ListedIsFoundHolds`; `NoHoles` and `BlocksTell` (no two
  inodes have as many blocks, unless there is nothing to read), for `ReadsTheFileHolds`; `UniqueNames`
  (the names of a directory differ), for `ListedIsFoundHolds`. The image of the run satisfies all four.

`HeldStaysMarked`, `ScanIsNextFit`, `RefusedOnlyWhenFull`, `Cr3Matches`, the `TypeOK` of PMM and of
ProcMemory, and `ReadersShareTheKeyboard` are proved and in no run; TLC agrees when the invariants are
added to the configurations.

The assumptions are the `ASSUME`s of the modules: sizes are natural numbers, the kernel's PML4 is
reserved, its entries are in the upper half, programs and stack in the lower half, constants are of
their types. Text's say besides that its buffers have two bytes or more and are smaller than `SizeMod`,
that texts have no NUL in them, and that `cd` gets no empty path (`fs.c:144`). Two say more:
`ImageAssumption` of Entry (section 5, last line) and, in Shell, that a name cut once is cut to what it
stays. The hypotheses of `OwnNamesAreFound`, `FilesAreSeparate`,
`BoxesAreWhereDrawn` and the theorems of Ext2 are those named above; the instances of the runs satisfy them.

Only model-checked is liveness, which the prover does not treat: `ScanTerminates`, `KernelReturns`,
`SearchEnds` and `LineIsExecuted`.

## 5. Where the code does not do what it says

One disagreement is a run, `phys_address`. The others were met while modelling. Where a
property is named, the module states what the repository says, and TLC finds a counterexample when it
is added to the configuration named; the passing runs leave exactly these cases out.

| the repository says | the code does | seen with |
|---|---|---|
| "we'll just free the user stack pages" (`exec.c:259-260`), "exec_elf handled cleanup" (`shell.c:370-371`) | `jmp_usermode` (`exec.c:251`) does not return; nothing is freed when a program ends | `StackReleased`, `MCProcMemory.cfg` |
| "For simplicity, we'll use the same flags" (`syscall.c:539-540`) | only stack pages stay writable in the child | `ForkKeepsFlags`, `MCProcMemory.cfg` |
| "Align virtual address down to page boundary for mapping loop" (`exec.c:124`) | the loop (`exec.c:131`) counts from the unaligned address; the last page may be missing | `ImageLoaded` without `Regular`, `MCProcMemory.cfg` |
| "Allocated capacity for data" (`fs.h:24`) | the terminator of `fs_write` (`fs.c:370`) may lie behind it, in the next file | `OneFileChanges`, `Writes <- FullWrites`, `Names <- NewNames`, 5 files |
| "Open a file by name" (`fs.h:58`) | a "./" name is cut before it is stripped when stored, after it when looked up (`fs.c:66`, `fs.c:214`) | `FindsOwnName`, `Archive <- LongArchive` |
| unsafe "if the user provides a non-null-terminated string or invalid pointer" (`syscall.c:331`) | 255 bytes are read whatever the path's length (`syscall.c:333`): a valid path near the end of mapped memory halts the machine | `ValidPathReturns`, `MCSyscalls.cfg` |
| "assuming the filesystem manages its lifetime" (`syscall.c:371-372`) | `ext2_open` has one static file for all opens (`ext2.c:303`) | `FileOutlivesOpen`, `Fds = {3, 4}` |
| "so both the driver and fs state stay in sync" (`fs.c:156-157`) | `cd /` returns before the driver is told (`fs.c:150`) | the exception in `InDirectory` |
| "Which filesystem this file belongs to" (`fs.h:27`) | `ext2_open` never sets it (`ext2.c:304`), so `fs_read` (`fs.c:256`) does not call `ext2_read` | `FileOf` |
| "Construct path relative to current directory" (`fs.c:165`) | with `fs.current_dir` filled to its last byte the slash has no place, but is counted (`fs.c:171-172`): the room left wraps around, and the path is stored behind `abs_path` | `InBuffers` without `Full`, `MCText.cfg` |
| "Construct path relative to current directory" (`fs.c:165`) | the text is cut at 127 bytes without a sign (`fs.c:175`), and "." and ".." stay in it: after 63 times `cd .`, `cd d` succeeds and stays where it was | `CdReallyLeads`, `MCExt2.cfg` |
| "Use file data and size from fs_file struct" (`exec.c:56`) | for a file of an ext2 image `data` is its number of blocks (`ext2.c:321`): the header is read there and the kernel faults | `Load`, `MCExt2.cfg` |
| "Find the inode for the file" (`ext2.c:336`) | the first inode with as many blocks is taken | `ReadsTheFile`, two inodes with equal `blocks` |
| "Make sure current inode is a directory" (`ext2.c:168`) | one bit is tested, which devices and sockets have as well | `InDirectory`, an inode of mode 060660 |
| "Iterate through directory entries" (`ext2.c:191`) | a deleted entry ends the block (`ext2.c:197`) | the exception in `ListedIsFound` |
| "Null-terminate argv array" (`shell.c:450`) | eight arguments leave no place for the NULL in an array of `SHELL_MAX_ARGS` | `NullHasAPlace`, `MCShellLine.cfg` |
| "export - Set env variable" (`shell.c:257`) | a name of 32 characters or more is cut when stored and not when looked up (`shell.c:81`) | the exception in `CommandTakesEffect` |
| "Check if modifier keys are pressed" (`keyboard.h:7`) | releasing one of two shift keys clears the shared flag (`keyboard.c:64`) | the exception in `FlagsOfTheirTime` |
| "get command byte" (`mouse.c:50`) | a key's byte may be taken for it (`mouse.c:52`) and is written back | the first part of `PacketAligned` without `keys = KeyBytes` |
| "Simple demo loop using the mouse driver" (`gui.c:160`) | `mouse_poll` takes a key's byte for the mouse's (`mouse.c:73`), as that of the release of Enter which started the demo: movements are decoded as buttons until two more bytes came | the second part of `PacketAligned` says by how much |
| boxes drawn as "min", "max", "close" (`gui.c:130-132`) | those of a maximised window are looked for at its old place (`gui.c:139`) | the exception in `BoxesWork` |
| "callee-saved registers from the stack" (`syscall.c:480`) | `syscall_stack_top` is declared as a pointer, so the word at that label, `user_rsp_storage`, is used: the six words below the program's stack pointer are read, and in another order than that of the pushes; nothing uses them yet, but with no memory below the stack pointer the kernel faults (`ForkStart` of ProcMemory) | `ForkSavesRegisters`, `MCEntry.cfg` |
| "Zero out general purpose registers" (`usermode_entry.asm:80`) | the debug output behind it leaves values in rax and rdx | `StartsClean`, `MCEntry.cfg` |
| "Clear DF (Direction Flag) for string operations" (`syscall.c:680`) | the exception stubs do not, so a program's fault runs C code, and then the shell, with its flag | `RunsForward`, `MCEntry.cfg` |
| "If the fault is from user mode, try to recover by returning to the shell" (`idt.c:36`) | only exceptions 13 and 14 have gates (`idt.c:140-141`); any other resets the machine | `FaultsRecover`, `MCEntry.cfg` |
| "kernel_stack_top" (`kernel_stack.S:4`) as `tss.rsp0` (`gdt.c:69`) | no words are reserved below the label: the stack of faults, and the shell run on it, grows down over whatever the linker put there | `StackHasRoom`, `MCEntry.cfg` |
| the TSS descriptor has `tss_base` in its fields (`gdt.c:75-87`) | bits 24-27 are dropped (`gdt.c:83`), harmless while they are zero: the kernel is at 0xffffffff80000000 and smaller than 16 MiB | `ImageAssumption` dropped |

## 6. Not modelled

- `vmm_unmap_page` and the end of `exec_elf`: never reached; `usermode_return.c` and the inline code of
  `gdt_flush.c` neither.
- `uitoa`, `ultoa_hex` and `strcat` (`lib/string.c`), `initramfs_find`, the functions of `elf.c`, `getFile` and
  `checkStringEndsWith` (`src/kernel/src/main.c`): no callers.
- ELF header checks: programs that fail them change nothing.
- TLB, caches, A/D bits, huge pages: the code makes none and flushes by writing CR3.
- A fault inside `isr_handler`, and one between the last instructions of the entry: the kernel's tables map
  all they touch.
- ext2: how inodes lie in block groups, indirect blocks (the code has none, `ext2.c:118`), names longer
  than the buffer that `ext2_list` copies them to, holes.
- Drawing, the mouse's `dx` and `dy`: nobody reads them.
- The keyboard: it sends what the driver's table knows, without the shift codes that some keyboards put
  around a prefixed key, and its own buffer never overruns.
- What the bytes stored behind `abs_path` hit (`CdOverrun`): nothing in use, or a fault.
- Printing (`serial.c`, `BasicRenderer.c`) and the terminal (`flanterm*`, vendored, a third of the
  kernel's lines): output only, no other part reads their state.
- The demo programs one by one: any program is modelled.
- No liveness of input: nothing obliges a user to type or a program to call.

## 7. Plan

1. (done) PMM, ProcMemory, RamFS, Syscalls, with the abstract specifications; proofs of PMM and of
   exclusivity. Ext2, ShellLine, Shell, Keyboard and Mouse.
2. (done) Entry; Console, the keyboard with the shell's editor and `sys_read`; Text, the string library in
   its uses; one run of ProcMemory for regular and odd programs, with the refinement of `PageMap`.
3. Compositions: Shell with the registry behind `fs_open`; descriptors of Syscalls on an ext2 image.
4. The block group arithmetic of `ext2_read_inode`, as operators against a reference definition.
5. (done) Proofs of every safety property and refinement of the runs `pmm`, `procmem`, `entry`, `ramfs`,
   `syscalls`, `shell`, `console`, `mouse` and `ext2`.
6. (done) Proofs of ShellLine and Text: `ArgumentsAreWords`, `InBuffers`, `VisitsFields`. Every safety property
   and refinement of the passing runs has its theorem.
