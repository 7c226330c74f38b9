------------------------------- MODULE Entry --------------------------------
(***************************************************************************)
(* How a program and the kernel pass control: jmp_usermode, the library's  *)
(* _syscall with syscall_asm_entry, and the stubs of the exceptions with   *)
(* isr_handler.  A register, a word of a stack and a saved word hold a     *)
(* value that says where it comes from, so a wrong move shows.  The        *)
(* kernel's stack is its words from the top down; nothing ever returns to  *)
(* what the program was started from, so one stack is kept at a time.      *)
(***************************************************************************)
EXTENDS Integers, Sequences, FiniteSets, SequencesExt

CONSTANTS
  Vectors,      \* exceptions that code may raise
  TssBase       \* the bytes of the address of tss, from the lowest

ASSUME EntryAssumption ==
  /\ Vectors \subseteq 0..31
  /\ TssBase \in [0..7 -> 0..255]

\* The kernel's image ends below 16 MiB: gdt_init loses those four bits.
ASSUME ImageAssumption == TssBase[3] % 16 = 0

VARIABLES
  pc,           \* what runs
  reg,          \* the registers
  rip, cs, rflags,
  area, stk,    \* the kernel's stack: whose it is, and its words
  saved,        \* user_rsp_storage, user_rip_storage and user_rflags_storage
  at            \* history: the processor when the program called or faulted

cpu == <<reg, rip, cs, rflags>>
vars == <<pc, cpu, area, stk, saved, at>>
-----------------------------------------------------------------------------
GPR == {"rax", "rbx", "rcx", "rdx", "rsi", "rdi", "rbp", "r8", "r9", "r10",
        "r11", "r12", "r13", "r14", "r15"}
CalleeSaved == {"rbx", "rbp", "r12", "r13", "r14", "r15"}

\* Values: what the program put into a register, a place of its stack, a
\* word below that place, flags, a selector or number, an address of code,
\* a frame of a C function, and anything else.
Prog(r, g) == <<"prog", r, g>>
UserStack(n) == <<"ustack", "", n>>
Below(p, n) == <<"below", p[2], p[3] - n>>
Flags(f) == <<"flags", "", f>>
Number(n) == <<"number", "", n>>
Code(l) == <<"code", l, 0>>
Frame(l) == <<"frame", l, 0>>
Other(l) == <<"other", l, 0>>

\* After a move from its second register to its first, and after six.
Move(r, m) == [r EXCEPT ![m[1]] = r[m[2]]]
Moved(r, m) == Move(Move(Move(Move(Move(Move(r, m[1]), m[2]), m[3]), m[4]), m[5]), m[6])
Pushes(r, order) == [k \in DOMAIN order |-> r[order[k]]]

\* Mutant: the order of the moves in the entry is the one of the C arguments.
MutEntryMoves ==
  << <<"rdi", "rax">>, <<"rsi", "rdi">>, <<"rdx", "rsi">>, <<"rcx", "rdx">>,
     <<"r8", "r10">>, <<"r9", "r8">> >>

\* syscall_stub.s:34-39 and syscall_entry.asm:69-74.
StubMoves ==
  << <<"rax", "rdi">>, <<"rdi", "rsi">>, <<"rsi", "rdx">>, <<"rdx", "rcx">>,
     <<"r10", "r8">>, <<"r8", "r9">> >>
EntryMoves ==
  << <<"r9", "r8">>, <<"r8", "r10">>, <<"rcx", "rdx">>, <<"rdx", "rsi">>,
     <<"rsi", "rdi">>, <<"rdi", "rax">> >>

\* The order of the arguments of a C function.
ArgRegs == <<"rdi", "rsi", "rdx", "rcx", "r8", "r9">>

EntryPushes == <<"rbp", "rbx", "r12", "r13", "r14", "r15">>
EntryPops == <<"r15", "r14", "r13", "r12", "rbx", "rbp">>

\* Mutant: rbp is pushed after rdi.
MutIsrPushes ==
  <<"rax", "rbx", "rcx", "rdx", "rdi", "rbp", "rsi", "r8", "r9", "r10", "r11",
    "r12", "r13", "r14", "r15">>

IsrPushes ==
  <<"rax", "rbx", "rcx", "rdx", "rbp", "rdi", "rsi", "r8", "r9", "r10", "r11",
    "r12", "r13", "r14", "r15">>

\* struct registers, from the lowest address.
Registers ==
  <<"r15", "r14", "r13", "r12", "r11", "r10", "r9", "r8", "rsi", "rdi", "rbp",
    "rdx", "rcx", "rbx", "rax", "int_no", "err_code", "rip", "cs", "rflags",
    "rsp", "ss">>
-----------------------------------------------------------------------------
KERNEL_CODE_SELECTOR == 8
USER_CODE_SELECTOR == 27
USER_DATA_SELECTOR == 35

\* MSR_FMASK: 0x700.
FMASK == {"IF", "DF", "TF"}

\* idt_init: the exceptions that have a gate.
Gates == {13, 14}

\* gdt_init: the bytes 2, 3, 4 and 7 to 11 of the descriptor of the TSS, and
\* the base the processor reads from them.
TssDescriptor ==
  [k \in {2, 3, 4, 7, 8, 9, 10, 11} |->
     CASE k < 7 -> TssBase[k - 2]
       [] k = 7 -> (TssBase[3] \div 16) * 16
       [] OTHER -> TssBase[k - 4]]
BaseOf(d) == [b \in 0..7 |-> IF b < 3 THEN d[b + 2] ELSE d[b + 4]]

\* Mutant: a fault goes on with the kernel's last stack.
MutStackAt(base) == stk
\* The stack the processor takes from the task state segment: tss.rsp0 is
\* kernel_stack_top.
StackAt(base) == IF base = TssBase THEN <<>> ELSE <<Other("rsp0")>>
-----------------------------------------------------------------------------
InUser == pc \in {"user", "stub", "syscall", "back"}

None == [reg |-> <<>>, rip |-> Code(""), cs |-> 0, rflags |-> {}]

\* kernel() has called shell_run, on the boot loader's stack.
Init ==
  /\ pc = "shell" /\ area = "boot" /\ stk = <<Frame("shell_run")>>
  /\ reg = [r \in GPR \cup {"rsp"} |-> Other("kernel")]
  /\ rip = Code("shell_run") /\ cs = KERNEL_CODE_SELECTOR /\ rflags = {"IF"}
  /\ saved = [rsp |-> Number(0), rip |-> Number(0), rflags |-> Number(0)]
  /\ at = None

\* iretq with the frame that w ends in: SS, RSP, RFLAGS, CS, RIP.
Iretq(r, w) ==
  LET n == Len(w) IN
  /\ reg' = [r EXCEPT !["rsp"] = w[n - 3]]
  /\ rflags' = w[n - 2][3] /\ cs' = w[n - 1][3] /\ rip' = w[n]

UserFrame(rsp, flags, ip) ==
  <<Number(USER_DATA_SELECTOR), rsp, flags, Number(USER_CODE_SELECTOR), ip>>

\* The shell's exec_elf calls jmp_usermode.  The registers are cleared, but
\* the debug output that follows uses rax and rdx.
jmp_usermode ==
  /\ pc = "shell"
  /\ LET calls == <<Frame("exec_elf"), Frame("jmp_usermode")>>
         cleared == [r \in GPR \cup {"rsp"} |->
                       IF r \in {"rax", "rdx"} THEN Other("debug") ELSE Number(0)]
     IN /\ Iretq(cleared, UserFrame(UserStack(0), Flags({"IF"}), Code("_start")))
        /\ stk' = stk \o calls
  /\ pc' = "user"
  /\ UNCHANGED <<area, saved, at>>

\* The program computes: some registers get new values, the stack pointer is
\* anywhere on the program's stack, the direction flag may be set.
Compute ==
  /\ pc = "user"
  /\ \E g \in {1, 2}, S \in {CalleeSaved, GPR \ CalleeSaved}, f \in SUBSET {"DF"} :
       /\ reg' = [r \in GPR \cup {"rsp"} |->
                    IF r = "rsp" THEN UserStack(g) ELSE IF r \in S THEN Prog(r, g) ELSE reg[r]]
       /\ rflags' = {"IF"} \cup f
  /\ UNCHANGED <<pc, rip, cs, area, stk, saved, at>>
-----------------------------------------------------------------------------
\* A call of the library's _syscall, whose arguments are in ArgRegs.
CallStub ==
  /\ pc = "user" /\ pc' = "stub"
  /\ reg' = [reg EXCEPT !["rsp"] = UserStack(@[3] + 1)]
  /\ rip' = Code("_syscall")
  /\ at' = [reg |-> reg', rip |-> Code("ret"), cs |-> cs, rflags |-> rflags]
  /\ UNCHANGED <<cs, rflags, area, stk, saved>>

Stub ==
  /\ pc = "stub" /\ pc' = "syscall"
  /\ reg' = Moved(reg, StubMoves)
  /\ UNCHANGED <<rip, cs, rflags, area, stk, saved, at>>

\* The instruction SYSCALL, and syscall_asm_entry up to the call of syscall().
syscall_asm_entry ==
  /\ pc = "syscall" /\ pc' = "handler"
  /\ saved' = [rsp |-> reg["rsp"], rip |-> Code("ret"), rflags |-> Flags(rflags)]
  /\ LET r == [reg EXCEPT !["rcx"] = Code("ret"), !["r11"] = Flags(rflags)]
     IN /\ stk' = Append(Pushes(r, EntryPushes), Frame("syscall"))
        /\ reg' = Moved([r EXCEPT !["rsp"] = Other("syscall_stack")], EntryMoves)
  /\ area' = "syscall"
  /\ rip' = Code("syscall") /\ cs' = KERNEL_CODE_SELECTOR /\ rflags' = rflags \ FMASK
  /\ UNCHANGED at

\* The fork_context that sys_fork fills.  syscall_stack_top is declared as a
\* pointer, so what is read is the word at that label, user_rsp_storage, and the
\* words below the program's stack pointer are taken for the saved registers.
ForkContext ==
  [r \in CalleeSaved \cup {"rsp", "rip", "rflags"} |->
     IF r \in DOMAIN saved THEN saved[r]
     ELSE Below(saved["rsp"], CHOOSE k \in 1..6 : EntryPops[k] = r)]

\* syscall() returns: the other registers are the compiler's to use.
syscall ==
  /\ pc = "handler" /\ pc' = "leave"
  /\ reg' = [r \in GPR \cup {"rsp"} |->
               CASE r \in CalleeSaved \cup {"rsp"} -> reg[r]
                 [] r = "rax" -> Other("result")
                 [] OTHER -> Other("junk")]
  /\ stk' = Front(stk)
  /\ UNCHANGED <<rip, cs, rflags, area, saved, at>>

\* Mutant: the registers are popped in the order they were pushed.
MutLeave ==
  /\ pc = "leave" /\ pc' = "back"
  /\ LET n == Len(stk)
         r == [x \in DOMAIN reg |-> IF x \in ToSet(EntryPops)
                 THEN stk[n + 1 - CHOOSE k \in 1..6 : EntryPushes[k] = x] ELSE reg[x]]
     IN Iretq(r, UserFrame(saved["rsp"], saved["rflags"], saved["rip"]))
  /\ stk' = <<>>
  /\ UNCHANGED <<area, saved, at>>

\* The rest of syscall_asm_entry: the registers are popped, and iretq returns
\* to the ret of _syscall.
Leave ==
  /\ pc = "leave" /\ pc' = "back"
  /\ LET n == Len(stk)
         r == [x \in DOMAIN reg |-> IF x \in ToSet(EntryPops)
                 THEN stk[n + 1 - CHOOSE k \in 1..6 : EntryPops[k] = x] ELSE reg[x]]
     IN /\ Iretq(r, UserFrame(saved["rsp"], saved["rflags"], saved["rip"]))
        /\ stk' = SubSeq(stk, 1, n - 6)
  /\ UNCHANGED <<area, saved, at>>

Return ==
  /\ pc = "back" /\ pc' = "user" /\ at' = None
  /\ reg' = [reg EXCEPT !["rsp"] = UserStack(@[3] - 1)]
  /\ UNCHANGED <<rip, cs, rflags, area, stk, saved>>
-----------------------------------------------------------------------------
\* An instruction of the program, or of the kernel in a system call or the
\* shell, raises an exception that has a gate.  The processor takes the stack
\* of the TSS if it came from the program, aligns it and pushes its frame; the
\* stub pushes the number and the registers and calls isr_handler.
Fault(v) ==
  /\ InUser \/ pc \in {"handler", "shell"}
  /\ v \in Gates
  /\ LET err == IF v = 14 /\ InUser THEN Number(4) ELSE Number(0)
         from == IF InUser THEN StackAt(BaseOf(TssDescriptor)) ELSE stk
         top == IF Len(from) % 2 = 0 THEN from ELSE Append(from, Other("pad"))
         ss == IF InUser THEN Number(USER_DATA_SELECTOR) ELSE Other("ss")
     IN stk' = top \o <<ss, reg["rsp"], Flags(rflags), Number(cs), rip, err, Number(v)>>
                 \o Pushes(reg, IsrPushes) \o <<Frame("isr_handler")>>
  /\ area' = IF InUser THEN "fault" ELSE area
  /\ at' = [reg |-> reg, rip |-> rip, cs |-> cs, rflags |-> rflags]
  /\ reg' = [reg EXCEPT !["rdi"] = Other("regs")]
  /\ rip' = Code("isr_handler") /\ cs' = KERNEL_CODE_SELECTOR /\ rflags' = rflags \ {"IF", "TF"}
  /\ pc' = "isr"
  /\ UNCHANGED saved

\* No gate, so no handler: the processor shuts down.
Reset(v) ==
  /\ InUser \/ pc \in {"handler", "shell"}
  /\ v \notin Gates
  /\ pc' = "reset" /\ UNCHANGED <<cpu, area, stk, saved, at>>

\* regs->f: the struct begins below the return address of the call.
Field(f) == LET k == CHOOSE k \in DOMAIN Registers : Registers[k] = f
            IN stk[Len(stk) - k]

\* Whose fault it was: the page fault's error code, or the selector.
UserFault ==
  IF Field("int_no") = Number(14) THEN Field("err_code") = Number(4)
  ELSE Field("cs") = Number(USER_CODE_SELECTOR)

\* isr_handler: the program is abandoned and a shell is run where the handler
\* is; a fault of the kernel halts the machine.
isr_handler ==
  /\ pc = "isr"
  /\ IF UserFault
     THEN /\ pc' = "shell" /\ stk' = Append(stk, Frame("shell_run"))
          /\ rflags' = rflags \cup {"IF"} /\ rip' = Code("shell_run")
          /\ reg' = [r \in GPR \cup {"rsp"} |-> Other("kernel")]
     ELSE /\ pc' = "halted" /\ UNCHANGED <<stk, rflags, rip, reg>>
  /\ at' = None /\ UNCHANGED <<cs, area, saved>>

Next ==
  \/ jmp_usermode \/ Compute
  \/ CallStub \/ Stub \/ syscall_asm_entry \/ syscall \/ Leave \/ Return
  \/ \E v \in Vectors : Fault(v) \/ Reset(v)
  \/ isr_handler

Spec == Init /\ [][Next]_vars
-----------------------------------------------------------------------------
TypeOK ==
  /\ pc \in {"shell", "user", "stub", "syscall", "handler", "leave", "back", "isr",
            "halted", "reset"}
  /\ DOMAIN reg = GPR \cup {"rsp"} /\ rflags \subseteq {"IF", "DF", "TF"}
  /\ pc # "reset" => cs = IF InUser THEN USER_CODE_SELECTOR ELSE KERNEL_CODE_SELECTOR
  /\ area \in {"boot", "syscall", "fault"}

\* syscall_entry.asm:60-66 and syscall_stub.s:32-40: through both shuffles the
\* number and the five arguments of _syscall become those of syscall(), none
\* overwritten by another; syscall() runs with interrupts off and the direction
\* flag clear (syscall.c:679-683), and C is called with the stack aligned
\* (syscall_entry.asm:76-80), from the exceptions as well.
ArgumentsArrive ==
  /\ pc = "handler" =>
       /\ \A k \in DOMAIN ArgRegs : reg[ArgRegs[k]] = at.reg[ArgRegs[k]]
       /\ rflags \cap {"IF", "DF", "TF"} = {}
  /\ pc \in {"handler", "isr"} => Len(stk) % 2 = 1

\* syscall_entry.asm:41-109: the program finds the registers that a C function
\* preserves, its stack, its flags and its place as they were, and the result;
\* sys_fork is given the same stack, flags and place (syscall.c:475-478).
CallPreserves ==
  /\ pc = "handler" => /\ ForkContext["rsp"] = at.reg["rsp"]
                       /\ ForkContext["rip"] = at.rip
                       /\ ForkContext["rflags"] = Flags(at.rflags)
  /\ pc = "back" => /\ \A r \in CalleeSaved \cup {"rsp"} : reg[r] = at.reg[r]
                    /\ rip = at.rip /\ cs = at.cs /\ rflags = at.rflags
                    /\ reg["rax"] = Other("result")

\* idt.h:22-29, "Matches the order of pushes in the common stub": what
\* isr_handler reads of the struct is what the registers held, and so it takes
\* the faults of programs, and no others, for such (idt.c:36-43).
FaultSeen ==
  pc = "isr" =>
    /\ \A r \in GPR \cup {"rsp"} : Field(r) = at.reg[r]
    /\ Field("rip") = at.rip /\ Field("rflags") = Flags(at.rflags)
    /\ UserFault <=> at.cs = USER_CODE_SELECTOR

\* idt.c:77: a shell that a fault started does not have an earlier one below
\* it on its stack, however many programs have failed.
OneShell ==
  /\ TypeOK
  /\ LET shells == {k \in DOMAIN stk : stk[k] = Frame("shell_run")}
     IN Cardinality(shells) <= 1 /\ (pc = "shell" => shells # {})
-----------------------------------------------------------------------------
\* Statements of the repository that the code does not keep.

\* syscall.c:480-489: the child's context has the registers the entry pushed.
ForkSavesRegisters ==
  pc = "handler" => \A r \in CalleeSaved : ForkContext[r] = at.reg[r]

\* usermode_entry.asm:80: a program starts with cleared registers.
StartsClean ==
  [][pc = "shell" /\ pc' = "user" => \A r \in GPR : reg'[r] = Number(0)]_vars

\* syscall.c:679-683: the kernel's C code runs with the direction flag clear.
RunsForward == pc \in {"handler", "isr", "shell"} => "DF" \notin rflags

\* idt.c:36: a program's fault returns to the shell, whatever it is.
FaultsRecover == [][pc' = "reset" => ~ InUser]_vars

\* syscall_entry.asm:23 and kernel_stack.S: words reserved for each stack; the
\* boot loader's has 64 KiB.
StackHasRoom ==
  Len(stk) <= CASE area = "syscall" -> 1024 [] area = "fault" -> 0 [] OTHER -> 8192
=============================================================================
