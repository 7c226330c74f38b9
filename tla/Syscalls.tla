------------------------------ MODULE Syscalls ------------------------------
(***************************************************************************)
(* The system calls of syscall.c other than fork: descriptors, the copies  *)
(* between user and kernel memory, and the programs that use them one      *)
(* after another.  The table of descriptors is one for the whole kernel.   *)
(*                                                                         *)
(* A copy is seen by the addresses it touches.  isr_handler stops the      *)
(* machine when the kernel itself touches a page it must not.              *)
(***************************************************************************)
EXTENDS RamFS

CONSTANTS
  MAX_FDS,
  AddrLimit,          \* 2^64
  KERNEL_VMA_BASE,
  Mapped,             \* user addresses that the program's tables map
  Writable,           \* those of them that are mapped writable
  MaxIO,              \* sizeof(kbuf), 4096
  PathCopy,           \* sizeof(kpath) - 1, 255
  DirentSize,         \* sizeof(struct dirent)
  Pointers, Counts,   \* arguments a program passes
  Keys                \* what keyboard_read_char returns; 0 is no character

NL == 10
CR == 13

ASSUME SyscallsAssumption ==
  /\ MAX_FDS \in Nat /\ AddrLimit \in Nat /\ KERNEL_VMA_BASE \in 1..AddrLimit
  /\ Mapped \subseteq 1..(KERNEL_VMA_BASE - 1) /\ Writable \subseteq Mapped
  /\ MaxIO \in Nat \ {0} /\ PathCopy \in Nat \ {0} /\ DirentSize \in Nat \ {0}
  /\ Pointers \subseteq 0..(AddrLimit - 1) /\ Counts \subseteq 0..(AddrLimit - 1)
  /\ Keys \subseteq Nat

VARIABLES
  pc,         \* "boot", "shell", "user", "stdin" (in sys_read), "halted"
  fd_table,
  kbuf,       \* sys_read from the keyboard: characters so far
  req,        \* the call in progress or made last: its buffer and size
  touched,    \* user addresses that call has read or written
  ret,        \* what it returned
  got         \* for each descriptor, the bytes read through it since open

calls == <<req, touched, ret>>
vars == <<fsvars, pc, fd_table, kbuf, calls, got>>
-----------------------------------------------------------------------------
Fds == 3..(MAX_FDS - 1)
Free == [file |-> 0, position |-> 0, used |-> FALSE]

Init ==
  /\ FsInit
  /\ pc = "boot"
  /\ fd_table = [d \in Fds |-> Free]
  /\ kbuf = <<>>
  /\ req = [op |-> "none", ptr |-> 0, count |-> 0] /\ touched = {} /\ ret = 0
  /\ got = [d \in Fds |-> <<>>]

\* kernel(): the file system comes up, then the shell runs.
BootStep ==
  /\ pc = "boot" /\ Boot
  /\ pc' = IF stage' = "up" THEN "shell" ELSE "boot"
  /\ UNCHANGED <<fd_table, kbuf, calls, got>>

\* Mutant: the end of the range is not checked.
Mutvalidate_user_memory(vaddr, size) ==
  vaddr # 0 /\ size # 0 /\ vaddr < KERNEL_VMA_BASE

validate_user_memory(vaddr, size) ==
  /\ vaddr # 0 /\ size # 0
  /\ vaddr + size - 1 < AddrLimit
  /\ vaddr < KERNEL_VMA_BASE /\ vaddr + size - 1 < KERNEL_VMA_BASE

Range(vaddr, size) == {(vaddr + k) % AddrLimit : k \in 0..(size - 1)}

\* copy_from_user (within = Mapped) and copy_to_user (within = Writable;
\* CR0.WP is set): the memcpy works, or the kernel faults.
Copies(vaddr, size, within) ==
  /\ validate_user_memory(vaddr, size)
  /\ Range(vaddr, size) \subseteq within
  /\ touched' = Range(vaddr, size)
CopyFaults(vaddr, size, within) ==
  /\ validate_user_memory(vaddr, size)
  /\ ~ Range(vaddr, size) \subseteq within
  /\ touched' = Range(vaddr, size)
  /\ pc' = "halted"

\* The call returns r to the program.
Returns(r) == pc' = "user" /\ ret' = r
\* ... having touched nothing.
Gives(r) == Returns(r) /\ touched' = {}
Called(op, ptr, len) ==
  pc = "user" /\ req' = [op |-> op, ptr |-> ptr, count |-> len]

Smaller(a, b) == IF a < b THEN a ELSE b
-----------------------------------------------------------------------------
\* The descriptor sys_open takes, or -1.
NewFd ==
  LET free == {d \in Fds : ~ fd_table[d].used}
  IN IF free = {} THEN -1 ELSE CHOOSE d \in free : \A e \in free : d <= e

Opened(i) ==
  [fd_table EXCEPT ![NewFd] = [file |-> i, position |-> 0, used |-> TRUE]]

\* sys_open with the name n at ptr, or with a pointer to no name.
sys_open(ptr, n) ==
  /\ Called("open", ptr, Len(n) + 1)
  /\ IF NewFd = -1 \/ ~ validate_user_memory(ptr, PathCopy)
     THEN Gives(-1) /\ UNCHANGED <<fd_table, got>>
     ELSE \/ /\ Copies(ptr, PathCopy, Mapped)
             /\ IF Len(n) >= PathCopy \/ fs_open(n) = 0
                THEN Returns(-1) /\ UNCHANGED <<fd_table, got>>
                ELSE /\ fd_table' = Opened(fs_open(n))
                     /\ got' = [got EXCEPT ![NewFd] = <<>>]
                     /\ Returns(NewFd)
          \/ CopyFaults(ptr, PathCopy, Mapped) /\ UNCHANGED <<ret, fd_table, got>>
  /\ UNCHANGED <<fsvars, kbuf>>

InUse(fd) == fd \in Fds /\ fd_table[fd].used

\* Mutant: the position moves before the copy is known to have worked.
MutReadFile(fd, ptr, len) ==
  LET bytes == fs_read(files[fd_table[fd].file], fd_table[fd].position,
                       Smaller(len, MaxIO))
  IN /\ Called("read", ptr, len) /\ len # 0 /\ InUse(fd)
     /\ fd_table' = [fd_table EXCEPT ![fd].position = @ + Len(bytes)]
     /\ IF bytes = <<>> THEN Gives(0) /\ UNCHANGED got
        ELSE \/ /\ ~ validate_user_memory(ptr, Len(bytes))
                /\ Gives(-1) /\ UNCHANGED got
             \/ /\ Copies(ptr, Len(bytes), Writable)
                /\ got' = [got EXCEPT ![fd] = @ \o bytes]
                /\ Returns(Len(bytes))
             \/ CopyFaults(ptr, Len(bytes), Writable) /\ UNCHANGED <<ret, got>>
     /\ UNCHANGED <<fsvars, kbuf>>

\* sys_read from an open file.
ReadFile(fd, ptr, len) ==
  LET bytes == fs_read(files[fd_table[fd].file], fd_table[fd].position,
                       Smaller(len, MaxIO))
  IN /\ Called("read", ptr, len) /\ len # 0 /\ InUse(fd)
     /\ IF bytes = <<>> THEN Gives(0) /\ UNCHANGED <<fd_table, got>>
        ELSE \/ /\ ~ validate_user_memory(ptr, Len(bytes))
                /\ Gives(-1) /\ UNCHANGED <<fd_table, got>>
             \/ /\ Copies(ptr, Len(bytes), Writable)
                /\ fd_table' = [fd_table EXCEPT ![fd].position = @ + Len(bytes)]
                /\ got' = [got EXCEPT ![fd] = @ \o bytes]
                /\ Returns(Len(bytes))
             \/ CopyFaults(ptr, Len(bytes), Writable) /\ UNCHANGED <<ret, fd_table, got>>
     /\ UNCHANGED <<fsvars, kbuf>>

\* sys_read from the keyboard begins.
ReadStdin(ptr, len) ==
  /\ Called("read", ptr, len) /\ len # 0
  /\ pc' = "stdin" /\ kbuf' = <<>> /\ touched' = {}
  /\ UNCHANGED <<fsvars, fd_table, ret, got>>

LineEnds(line) ==
  Len(line) >= Smaller(req.count, MaxIO) \/ line[Len(line)] = NL

\* A key: nothing to store, one more character, or the last one, after which
\* the characters are copied out.
ReadKey(c) ==
  LET line == Append(kbuf, IF c = CR THEN NL ELSE c) IN
  /\ pc = "stdin"
  /\ IF c = 0 THEN UNCHANGED <<pc, kbuf, touched, ret>>
     ELSE IF ~ LineEnds(line) THEN kbuf' = line /\ UNCHANGED <<pc, touched, ret>>
     ELSE /\ kbuf' = <<>>
          /\ \/ ~ validate_user_memory(req.ptr, Len(line)) /\ Gives(-1)
             \/ Copies(req.ptr, Len(line), Writable) /\ Returns(Len(line))
             \/ CopyFaults(req.ptr, Len(line), Writable) /\ UNCHANGED ret
  /\ UNCHANGED <<fsvars, fd_table, req, got>>

\* sys_write to the terminal.
WriteTerminal(ptr, len) ==
  LET n == Smaller(len, MaxIO) IN
  /\ Called("write", ptr, len) /\ len # 0
  /\ \/ ~ validate_user_memory(ptr, n) /\ Gives(-1)
     \/ Copies(ptr, n, Mapped) /\ Returns(n)
     \/ CopyFaults(ptr, n, Mapped) /\ UNCHANGED ret
  /\ UNCHANGED <<fsvars, fd_table, kbuf, got>>

\* A descriptor that cannot be read or written: one not in use, the wrong
\* standard one, or an open file for sys_write; and counts of zero.
Refused(ptr, len) ==
  /\ Called("refused", ptr, len)
  /\ Gives(IF len = 0 THEN 0 ELSE -1)
  /\ UNCHANGED <<fsvars, fd_table, kbuf, got>>

\* sys_exit prints, and syscall() turns its marker into 0 for the caller: the
\* program is not ended by it, only by what it does next.
sys_exit ==
  /\ Called("exit", 0, 0) /\ Gives(0)
  /\ UNCHANGED <<fsvars, fd_table, kbuf, got>>

\* A number that is not in syscall_table.
BadNumber ==
  /\ Called("bad", 0, 0) /\ Gives(-1)
  /\ UNCHANGED <<fsvars, fd_table, kbuf, got>>

sys_close(fd) ==
  /\ Called("close", 0, 0)
  /\ IF InUse(fd)
     THEN /\ fd_table' = [fd_table EXCEPT ![fd] = Free]
          /\ got' = [got EXCEPT ![fd] = <<>>]
          /\ Gives(0)
     ELSE Gives(-1) /\ UNCHANGED <<fd_table, got>>
  /\ UNCHANGED <<fsvars, kbuf>>

\* Mutant: the size of the program's buffer is not looked at.
Mutsys_readdir(index, ptr, size) ==
  /\ Called("readdir", ptr, size)
  /\ \/ ~ validate_user_memory(ptr, DirentSize) /\ Gives(-1)
     \/ validate_user_memory(ptr, DirentSize) /\ index >= Len(files) /\ Gives(0)
     \/ /\ index < Len(files)
        /\ \/ Copies(ptr, DirentSize, Writable) /\ Returns(1)
           \/ CopyFaults(ptr, DirentSize, Writable) /\ UNCHANGED ret
  /\ UNCHANGED <<fsvars, fd_table, kbuf, got>>

\* One dirent of fs_list, which in this file system lists every file.
sys_readdir(index, ptr, size) ==
  /\ Called("readdir", ptr, size)
  /\ \/ /\ size < DirentSize \/ ~ validate_user_memory(ptr, DirentSize)
        /\ Gives(-1)
     \/ /\ size >= DirentSize /\ validate_user_memory(ptr, DirentSize)
        /\ index >= Len(files)
        /\ Gives(0)
     \/ /\ size >= DirentSize /\ index < Len(files)
        /\ \/ Copies(ptr, DirentSize, Writable) /\ Returns(1)
           \/ CopyFaults(ptr, DirentSize, Writable) /\ UNCHANGED ret
  /\ UNCHANGED <<fsvars, fd_table, kbuf, got>>

\* The shell starts a program; a program ends (see ProcMemory).  Descriptors
\* that it leaves open stay open.
ProgramStarts ==
  /\ pc = "shell" /\ pc' = "user"
  /\ UNCHANGED <<fsvars, fd_table, kbuf, calls, got>>
ProgramEnds ==
  /\ pc = "user" /\ pc' = "shell"
  /\ UNCHANGED <<fsvars, fd_table, kbuf, calls, got>>

\* The shell's chmod and cd.
ShellCommand ==
  /\ pc = "shell"
  /\ \E n \in Names : fs_change_dir(n) \/ \E m \in Modes : fs_chmod(n, m)
  /\ UNCHANGED <<pc, fd_table, kbuf, calls, got>>

Next ==
  \/ BootStep \/ ProgramStarts \/ ProgramEnds \/ ShellCommand
  \/ sys_exit \/ BadNumber
  \/ \E ptr \in Pointers, n \in Names : sys_open(ptr, n)
  \/ \E ptr \in Pointers, c \in Counts :
       \/ \E fd \in Fds : ReadFile(fd, ptr, c)
       \/ ReadStdin(ptr, c)
       \/ WriteTerminal(ptr, c)
       \/ Refused(ptr, c)
       \/ \E i \in 0..FS_MAX_FILES : sys_readdir(i, ptr, c)
  \/ \E fd \in 0..MAX_FDS : sys_close(fd)
  \/ \E c \in Keys : ReadKey(c)

Spec == Init /\ [][Next]_vars
-----------------------------------------------------------------------------
Ops == {"none", "open", "read", "write", "refused", "exit", "bad", "close", "readdir"}

TypeOK ==
  /\ FsTypeOK
  /\ pc \in {"boot", "shell", "user", "stdin", "halted"}
  /\ fd_table \in [Fds -> [file : Nat, position : Nat, used : BOOLEAN]]
  /\ kbuf \in Seq(Nat)
  /\ req \in [op : Ops, ptr : Pointers \cup {0}, count : Nat]
  /\ touched \subseteq 0..(AddrLimit - 1) /\ ret \in Int
  /\ got \in [Fds -> Seq(Byte)]

\* Reading through a descriptor gives the file's bytes in order, each once,
\* from the first, whatever was read, refused or opened through the others
\* in between and whoever used the descriptor before.  A descriptor in use
\* refers to a file of the registry, any other to nothing, also after a copy
\* that failed (syscall.c:299-303, 355-368).
ReadsInOrder ==
  /\ TypeOK
  /\ \A d \in Fds :
       LET f == fd_table[d] IN
       IF f.used
       THEN /\ f.file \in DOMAIN files /\ f.position <= files[f.file].size
            /\ got[d] = SubSeq(Contents(f.file), 1, f.position)
       ELSE f = Free

\* No call, whatever its arguments, makes the kernel copy to or from its own
\* addresses, not by a range that reaches into them or wraps around, nor outside
\* the buffer that the program gave, whatever the size of the file, of the line
\* typed or of a dirent.  Each character taken from the keyboard has a place in
\* that buffer and in the one on the kernel's stack.
WithinRequest ==
  /\ touched \cap (KERNEL_VMA_BASE..(AddrLimit - 1)) = {}
  /\ touched \subseteq Range(req.ptr, IF req.op = "open" THEN PathCopy ELSE req.count)
  /\ pc = "stdin" => Len(kbuf) < MaxIO /\ Len(kbuf) < req.count

\* syscall.c:85-139: a call halts the machine only for a buffer that the
\* program does not have, though pages are never looked up: every other one
\* comes back.  A path is the exception, for which as much is copied as the
\* longest one has.
KernelSurvives ==
  pc = "halted" =>
    IF req.op = "open" THEN ~ Range(req.ptr, PathCopy) \subseteq Mapped
    ELSE ~ Range(req.ptr, req.count) \subseteq IF req.op = "write" THEN Mapped ELSE Writable

\* syscall.c:330-331: sys_open is unsafe only for a string without a
\* terminator or an invalid pointer.  A call with a mapped, terminated
\* string comes back.
ValidPathReturns ==
  pc = "halted" /\ req.op = "open" => ~ Range(req.ptr, req.count) \subseteq Mapped
=============================================================================
