----------------------------- MODULE EntryProofs -----------------------------
(***************************************************************************)
(* The passages between programs and the kernel, for every exception and   *)
(* every address of the task state segment.                                *)
(***************************************************************************)
EXTENDS Entry, TLAPS, FiniteSetTheorems, SequenceTheorems

R == GPR \cup {"rsp"}
FlagSet == {"IF", "DF", "TF"}

\* The words of registers and stacks; those of registers are no C frames.
Labels == R \cup {"", "_start", "_syscall", "ret", "syscall", "isr_handler", "shell_run",
                  "exec_elf", "jmp_usermode", "kernel", "debug", "syscall_stack", "result",
                  "junk", "rsp0", "pad", "ss", "regs"}
Kinds == {"prog", "ustack", "flags", "number", "code", "frame", "other"}
Word == Kinds \X Labels \X (Int \cup SUBSET FlagSet)
Plain == {w \in Word : w[1] # "frame"}
UserWords == {UserStack(n) : n \in Int}
Regs == [R -> Plain]
-----------------------------------------------------------------------------
LEMMA WordKinds ==
  /\ \A r \in R, g \in Int : Prog(r, g) \in Plain
  /\ \A n \in Int : UserStack(n) \in Plain /\ Number(n) \in Plain
  /\ \A f \in SUBSET FlagSet : Flags(f) \in Plain
  /\ \A l \in Labels : Code(l) \in Plain /\ Other(l) \in Plain /\ Frame(l) \in Word
<1> DEFINE Third == Int \cup SUBSET FlagSet
<1>1. \A k \in Kinds, s \in Labels, t \in Third : <<k, s, t>> \in Word
  BY DEF Word
<1>2. \A k \in Kinds \ {"frame"}, s \in Labels, t \in Third : <<k, s, t>> \in Plain
  BY <1>1 DEF Plain
<1>3. Int \subseteq Third /\ SUBSET FlagSet \subseteq Third /\ 0 \in Third
  OBVIOUS
<1>4. /\ "prog" \in Kinds \ {"frame"} /\ "ustack" \in Kinds \ {"frame"}
      /\ "flags" \in Kinds \ {"frame"} /\ "number" \in Kinds \ {"frame"}
      /\ "code" \in Kinds \ {"frame"} /\ "other" \in Kinds \ {"frame"} /\ "frame" \in Kinds
  BY DEF Kinds
<1>5. "" \in Labels
  BY DEF Labels
<1>. HIDE DEF Third, Plain, Kinds
<1>6. \A r \in R, g \in Int : Prog(r, g) \in Plain
  BY <1>2, <1>3, <1>4 DEF Prog, Labels
<1>7. \A n \in Int : UserStack(n) \in Plain /\ Number(n) \in Plain
  BY <1>2, <1>3, <1>4, <1>5 DEF UserStack, Number
<1>8. \A f \in SUBSET FlagSet : Flags(f) \in Plain
  BY <1>2, <1>3, <1>4, <1>5 DEF Flags
<1>9. \A l \in Labels : Code(l) \in Plain /\ Other(l) \in Plain
  BY <1>2, <1>3, <1>4 DEF Code, Other
<1>10. \A l \in Labels : Frame(l) \in Word
  BY <1>1, <1>3, <1>4 DEF Frame
<1>. QED  BY <1>6, <1>7, <1>8, <1>9, <1>10

\* The words the kernel puts into registers and on its stacks.
LEMMA KernelWords ==
  /\ \A l \in {"", "shell_run", "_start", "_syscall", "ret", "syscall", "isr_handler"} :
        Code(l) \in Plain
  /\ \A l \in {"kernel", "debug", "syscall_stack", "result", "junk", "pad", "ss", "regs"} :
        Other(l) \in Plain
  /\ \A l \in {"shell_run", "exec_elf", "jmp_usermode", "syscall", "isr_handler"} :
        Frame(l) \in Word
  /\ Number(0) \in Plain /\ UserStack(0) \in UserWords
<1>1. /\ {"", "shell_run", "_start", "_syscall", "ret", "syscall", "isr_handler"} \subseteq Labels
      /\ {"kernel", "debug", "syscall_stack", "result", "junk", "pad", "ss", "regs"} \subseteq Labels
      /\ {"shell_run", "exec_elf", "jmp_usermode", "syscall", "isr_handler"} \subseteq Labels
  BY DEF Labels
<1>2. 0 \in Int
  OBVIOUS
<1>3. UserStack(0) \in UserWords
  BY <1>2 DEF UserWords
<1>4. Number(0) \in Plain
  BY <1>2, WordKinds
<1>. QED  BY <1>1, <1>3, <1>4, WordKinds

LEMMA PlainIsWord == Plain \subseteq Word
BY DEF Plain

LEMMA UserWordsPlain ==
  /\ UserWords \subseteq Plain
  /\ \A w \in UserWords : UserStack(w[3] + 1) \in UserWords /\ UserStack(w[3] - 1) \in UserWords
<1>1. UserWords \subseteq Plain
  BY WordKinds DEF UserWords
<1>2. \A n \in Int : UserStack(n)[3] = n
  BY DEF UserStack
<1>. QED  BY <1>1, <1>2 DEF UserWords

LEMMA WordFields ==
  /\ \A f : Flags(f)[3] = f
  /\ \A n : Number(n)[3] = n
BY DEF Flags, Number

LEMMA NotAFrame == \A w \in Plain : \A l : w # Frame(l)
BY DEF Plain, Frame

LEMMA RegNames ==
  /\ \A g \in GPR : g \in R /\ g # "rsp"
  /\ "rsp" \in R /\ CalleeSaved \subseteq GPR
  /\ R \subseteq Labels
<1>1. CalleeSaved \subseteq GPR
  BY DEF GPR, CalleeSaved
<1>2. \A g \in GPR : g # "rsp"
  BY DEF GPR
<1>. QED  BY <1>1, <1>2 DEF R, Labels

\* The descriptor of the TSS gives the processor the address it has.
LEMMA TssAddress == BaseOf(TssDescriptor) = TssBase
<1> DEFINE d == TssDescriptor
<1>1. TssBase \in [0..7 -> 0..255] /\ TssBase[3] % 16 = 0
  BY EntryAssumption, ImageAssumption
<1>2. (TssBase[3] \div 16) * 16 = TssBase[3]
  <2>1. TssBase[3] \in 0..255
    BY <1>1
  <2>2. \A n \in 0..255 : n % 16 = 0 => (n \div 16) * 16 = n
    OBVIOUS
  <2>. QED  BY <2>1, <2>2, <1>1
<1>3. /\ d[2] = TssBase[0] /\ d[3] = TssBase[1] /\ d[4] = TssBase[2] /\ d[7] = TssBase[3]
      /\ d[8] = TssBase[4] /\ d[9] = TssBase[5] /\ d[10] = TssBase[6] /\ d[11] = TssBase[7]
  BY <1>2 DEF TssDescriptor
<1>4. \A b \in 0..7 : BaseOf(d)[b] = TssBase[b]
  <2>. HIDE DEF d
  <2>1. \A b \in 0..7 : BaseOf(d)[b] = IF b < 3 THEN d[b + 2] ELSE d[b + 4]
    BY DEF BaseOf
  <2>2. \A b \in 0..7 : b \in {0, 1, 2, 3, 4, 5, 6, 7}
    OBVIOUS
  <2>. QED  BY <2>1, <2>2, <1>3
<1>5. BaseOf(d) = [b \in 0..7 |-> BaseOf(d)[b]]
  BY DEF BaseOf
<1>. QED  BY <1>1, <1>4, <1>5

LEMMA FaultStack == StackAt(BaseOf(TssDescriptor)) = <<>>
BY TssAddress DEF StackAt
-----------------------------------------------------------------------------
LEMMA MoveOne ==
  ASSUME NEW r \in Regs, NEW a \in R, NEW b \in R
  PROVE  /\ Move(r, <<a, b>>) \in Regs /\ Move(r, <<a, b>>)[a] = r[b]
         /\ \A x \in R \ {a} : Move(r, <<a, b>>)[x] = r[x]
BY DEF Move, Regs

\* The moves of the library's stub, and those of the entry, which come after the
\* processor has put the return address and the flags into rcx and r11.
LEMMA StubMoved ==
  ASSUME NEW r \in Regs
  PROVE  /\ Moved(r, StubMoves) \in Regs
         /\ \A x \in CalleeSaved \cup {"rsp"} : Moved(r, StubMoves)[x] = r[x]
         /\ Moved(r, StubMoves)["rax"] = r["rdi"] /\ Moved(r, StubMoves)["rdi"] = r["rsi"]
         /\ Moved(r, StubMoves)["rsi"] = r["rdx"] /\ Moved(r, StubMoves)["rdx"] = r["rcx"]
         /\ Moved(r, StubMoves)["r10"] = r["r8"] /\ Moved(r, StubMoves)["r8"] = r["r9"]
<1> DEFINE r1 == Move(r, <<"rax", "rdi">>)
           r2 == Move(r1, <<"rdi", "rsi">>)
           r3 == Move(r2, <<"rsi", "rdx">>)
           r4 == Move(r3, <<"rdx", "rcx">>)
           r5 == Move(r4, <<"r10", "r8">>)
           r6 == Move(r5, <<"r8", "r9">>)
<1>1. Moved(r, StubMoves) = r6
  BY DEF Moved, StubMoves
<1>2. {"rax", "rdi", "rsi", "rdx", "rcx", "r8", "r9", "r10", "r11"} \subseteq R
  BY DEF R, GPR
<1>3. \A x \in CalleeSaved \cup {"rsp"} :
        x \in R \ {"rax", "rdi", "rsi", "rdx", "rcx", "r8", "r9", "r10", "r11"}
  BY DEF CalleeSaved, R, GPR
<1>. HIDE DEF r1, r2, r3, r4, r5, r6
<1>11. /\ r1 \in Regs /\ r1["rax"] = r["rdi"]
       /\ \A x \in R \ {"rax"} : r1[x] = r[x]
  BY <1>2, MoveOne DEF r1
<1>12. /\ r2 \in Regs /\ r2["rdi"] = r1["rsi"]
       /\ \A x \in R \ {"rdi"} : r2[x] = r1[x]
  BY <1>2, <1>11, MoveOne DEF r2
<1>13. /\ r3 \in Regs /\ r3["rsi"] = r2["rdx"]
       /\ \A x \in R \ {"rsi"} : r3[x] = r2[x]
  BY <1>2, <1>12, MoveOne DEF r3
<1>14. /\ r4 \in Regs /\ r4["rdx"] = r3["rcx"]
       /\ \A x \in R \ {"rdx"} : r4[x] = r3[x]
  BY <1>2, <1>13, MoveOne DEF r4
<1>15. /\ r5 \in Regs /\ r5["r10"] = r4["r8"]
       /\ \A x \in R \ {"r10"} : r5[x] = r4[x]
  BY <1>2, <1>14, MoveOne DEF r5
<1>16. /\ r6 \in Regs /\ r6["r8"] = r5["r9"]
       /\ \A x \in R \ {"r8"} : r6[x] = r5[x]
  BY <1>2, <1>15, MoveOne DEF r6
<1>. QED  BY <1>1, <1>2, <1>3, <1>11, <1>12, <1>13, <1>14, <1>15, <1>16

LEMMA EntryMoved ==
  ASSUME NEW r \in Regs
  PROVE  /\ Moved(r, EntryMoves) \in Regs
         /\ Moved(r, EntryMoves)["r9"] = r["r8"] /\ Moved(r, EntryMoves)["r8"] = r["r10"]
         /\ Moved(r, EntryMoves)["rcx"] = r["rdx"] /\ Moved(r, EntryMoves)["rdx"] = r["rsi"]
         /\ Moved(r, EntryMoves)["rsi"] = r["rdi"] /\ Moved(r, EntryMoves)["rdi"] = r["rax"]
<1> DEFINE r1 == Move(r, <<"r9", "r8">>)
           r2 == Move(r1, <<"r8", "r10">>)
           r3 == Move(r2, <<"rcx", "rdx">>)
           r4 == Move(r3, <<"rdx", "rsi">>)
           r5 == Move(r4, <<"rsi", "rdi">>)
           r6 == Move(r5, <<"rdi", "rax">>)
<1>1. Moved(r, EntryMoves) = r6
  BY DEF Moved, EntryMoves
<1>2. {"rax", "rdi", "rsi", "rdx", "rcx", "r8", "r9", "r10", "r11"} \subseteq R
  BY DEF R, GPR
<1>. HIDE DEF r1, r2, r3, r4, r5, r6
<1>11. /\ r1 \in Regs /\ r1["r9"] = r["r8"]
       /\ \A x \in R \ {"r9"} : r1[x] = r[x]
  BY <1>2, MoveOne DEF r1
<1>12. /\ r2 \in Regs /\ r2["r8"] = r1["r10"]
       /\ \A x \in R \ {"r8"} : r2[x] = r1[x]
  BY <1>2, <1>11, MoveOne DEF r2
<1>13. /\ r3 \in Regs /\ r3["rcx"] = r2["rdx"]
       /\ \A x \in R \ {"rcx"} : r3[x] = r2[x]
  BY <1>2, <1>12, MoveOne DEF r3
<1>14. /\ r4 \in Regs /\ r4["rdx"] = r3["rsi"]
       /\ \A x \in R \ {"rdx"} : r4[x] = r3[x]
  BY <1>2, <1>13, MoveOne DEF r4
<1>15. /\ r5 \in Regs /\ r5["rsi"] = r4["rdi"]
       /\ \A x \in R \ {"rsi"} : r5[x] = r4[x]
  BY <1>2, <1>14, MoveOne DEF r5
<1>16. /\ r6 \in Regs /\ r6["rdi"] = r5["rax"]
       /\ \A x \in R \ {"rdi"} : r6[x] = r5[x]
  BY <1>2, <1>15, MoveOne DEF r6
<1>. QED  BY <1>1, <1>2, <1>11, <1>12, <1>13, <1>14, <1>15, <1>16
-----------------------------------------------------------------------------
\* The places of a register in a sequence of pushes, pops or fields.
LEMMA PopPlaces ==
  ASSUME NEW x \in CalleeSaved
  PROVE  LET k == CHOOSE k \in 1..6 : EntryPops[k] = x
         IN  k \in 1..6 /\ EntryPushes[7 - k] = x
<1>1. \E k \in 1..6 : EntryPops[k] = x
  <2>1. /\ EntryPops[1] = "r15" /\ EntryPops[2] = "r14" /\ EntryPops[3] = "r13"
        /\ EntryPops[4] = "r12" /\ EntryPops[5] = "rbx" /\ EntryPops[6] = "rbp"
    BY DEF EntryPops
  <2>. QED  BY <2>1 DEF CalleeSaved
<1>2. \A k \in 1..6 : EntryPushes[7 - k] = EntryPops[k]
  <2>1. \A k \in 1..6 : k \in {1, 2, 3, 4, 5, 6}
    OBVIOUS
  <2>. QED  BY <2>1 DEF EntryPushes, EntryPops
<1>. QED  BY <1>1, <1>2

LEMMA PopNames == ToSet(EntryPops) = CalleeSaved
<1>1. ToSet(EntryPops) = {EntryPops[k] : k \in 1..6}
  BY DEF ToSet, EntryPops
<1>2. {EntryPops[k] : k \in 1..6} = {EntryPops[1], EntryPops[2], EntryPops[3], EntryPops[4],
                                    EntryPops[5], EntryPops[6]}
  <2>1. \A k \in 1..6 : k \in {1, 2, 3, 4, 5, 6}
    OBVIOUS
  <2>. QED  BY <2>1
<1>. QED  BY <1>1, <1>2 DEF EntryPops, CalleeSaved

\* The fields of the struct have different names.
LEMMA FieldPlaces ==
  ASSUME NEW k \in 1..22
  PROVE  (CHOOSE j \in DOMAIN Registers : Registers[j] = Registers[k]) = k
<1>1. DOMAIN Registers = 1..22
  BY DEF Registers
<1>2. \A j \in 1..22 : Registers[j] = Registers[k] => j = k
  BY DEF Registers
<1>. QED  BY <1>1, <1>2
-----------------------------------------------------------------------------
Pcs == {"shell", "user", "stub", "syscall", "handler", "leave", "back", "isr", "halted", "reset"}

Types ==
  /\ pc \in Pcs
  /\ reg \in Regs /\ rip \in Plain /\ rflags \in SUBSET FlagSet
  /\ pc # "reset" => cs = IF InUser THEN USER_CODE_SELECTOR ELSE KERNEL_CODE_SELECTOR
  /\ area \in {"boot", "syscall", "fault"} /\ stk \in Seq(Word)
  /\ saved \in [rsp : Plain, rip : Plain, rflags : Plain]
  /\ InUser => reg["rsp"] \in UserWords

\* The processor at the call of _syscall, once it is known.
Caller ==
  /\ at = [reg |-> at.reg, rip |-> Code("ret"), cs |-> USER_CODE_SELECTOR, rflags |-> at.rflags]
  /\ at.reg \in Regs /\ at.rflags \in SUBSET FlagSet /\ at.reg["rsp"] \in UserWords

\* From SYSCALL to the return, the entry's stack and the three saved words have
\* what the program had.
Kept ==
  /\ saved = [rsp |-> at.reg["rsp"], rip |-> Code("ret"), rflags |-> Flags(at.rflags)]
  /\ Len(stk) = (IF pc = "handler" THEN 7 ELSE 6)
  /\ \A k \in 1..6 : stk[k] = at.reg[EntryPushes[k]]

Calling ==
  /\ pc \in {"stub", "syscall", "handler", "leave", "back"} => Caller
  /\ pc \in {"stub", "syscall"} => rflags = at.rflags
  /\ pc = "stub" => reg = at.reg
  /\ pc = "syscall" => reg = Moved(at.reg, StubMoves)
  /\ pc \in {"handler", "leave"} => Kept
  /\ pc = "handler" =>
       /\ \A k \in 1..6 : reg[ArgRegs[k]] = at.reg[ArgRegs[k]]
       /\ rflags \cap FlagSet = {}
  /\ pc = "leave" => reg["rax"] = Other("result")
  /\ pc = "back" => /\ \A r \in CalleeSaved \cup {"rsp"} : reg[r] = at.reg[r]
                    /\ rip = at.rip /\ cs = at.cs /\ rflags = at.rflags
                    /\ reg["rax"] = Other("result")

\* What the stack has while isr_handler runs, from its top: the frame of the
\* call, the registers, and the processor's frame.
Faulted ==
  pc = "isr" =>
    /\ at = [reg |-> at.reg, rip |-> at.rip, cs |-> at.cs, rflags |-> at.rflags]
    /\ at.reg \in Regs /\ at.cs \in {USER_CODE_SELECTOR, KERNEL_CODE_SELECTOR}
    /\ Len(stk) >= 23 /\ Len(stk) % 2 = 1
    /\ \A k \in 1..15 : stk[Len(stk) - 16 + k] = at.reg[IsrPushes[k]]
    /\ \E v \in Gates :
         /\ stk[Len(stk) - 16] = Number(v)
         /\ stk[Len(stk) - 17] =
              Number(IF v = 14 /\ at.cs = USER_CODE_SELECTOR THEN 4 ELSE 0)
    /\ stk[Len(stk) - 18] = at.rip /\ stk[Len(stk) - 19] = Number(at.cs)
    /\ stk[Len(stk) - 20] = Flags(at.rflags) /\ stk[Len(stk) - 21] = at.reg["rsp"]

\* The frames of shell_run on the stack.
Shells == {k \in DOMAIN stk : stk[k] = Frame("shell_run")}
OnStack ==
  /\ \A j, k \in Shells : j = k
  /\ pc = "shell" => Shells # {}
  /\ pc = "isr" /\ at.cs = USER_CODE_SELECTOR => Shells = {}

EntryInv == Types /\ Calling /\ Faulted /\ OnStack
-----------------------------------------------------------------------------
LEMMA EntryInit == Init => EntryInv
<1> SUFFICES ASSUME Init PROVE EntryInv
  OBVIOUS
<1>1. /\ Frame("shell_run") \in Word /\ Code("shell_run") \in Plain /\ Other("kernel") \in Plain
      /\ Number(0) \in Plain
  BY KernelWords
<1>2. Types
  <2>1. stk \in Seq(Word)
    BY <1>1 DEF Init
  <2>2. reg \in Regs
    BY <1>1 DEF Init, Regs, R
  <2>3. saved \in [rsp : Plain, rip : Plain, rflags : Plain]
    BY <1>1 DEF Init
  <2>4. rflags \in SUBSET FlagSet
    BY DEF Init, FlagSet
  <2>. QED  BY <1>1, <2>1, <2>2, <2>3, <2>4 DEF Init, Types, Pcs, InUser
<1>3. OnStack
  <2>1. DOMAIN stk = {1} /\ stk[1] = Frame("shell_run")
    BY DEF Init
  <2>. QED  BY <2>1 DEF Init, OnStack, Shells
<1>. QED  BY <1>2, <1>3 DEF Init, EntryInv, Calling, Faulted

LEMMA FunctionIsSequence ==
  ASSUME NEW T, NEW n \in Nat, NEW s \in [1..n -> T]
  PROVE  s \in Seq(T) /\ Len(s) = n /\ DOMAIN s = 1..n
OBVIOUS

\* iretq with the frame for a program.
LEMMA IretqToUser ==
  ASSUME NEW r \in Regs, NEW rsp, NEW f, NEW ip, Iretq(r, UserFrame(rsp, Flags(f), ip))
  PROVE  /\ reg' = [r EXCEPT !["rsp"] = rsp] /\ rflags' = f
         /\ cs' = USER_CODE_SELECTOR /\ rip' = ip
<1> DEFINE w == UserFrame(rsp, Flags(f), ip)
<1>1. Len(w) = 5 /\ w[2] = rsp /\ w[3] = Flags(f) /\ w[4] = Number(USER_CODE_SELECTOR) /\ w[5] = ip
  BY DEF UserFrame
<1>2. /\ reg' = [r EXCEPT !["rsp"] = w[Len(w) - 3]]
      /\ rflags' = w[Len(w) - 2][3] /\ cs' = w[Len(w) - 1][3] /\ rip' = w[Len(w)]
  BY DEF Iretq
<1>. HIDE DEF w
<1>3. Len(w) - 3 = 2 /\ Len(w) - 2 = 3 /\ Len(w) - 1 = 4
  BY <1>1
<1>. QED  BY <1>1, <1>2, <1>3, WordFields

\* Words that are no shells hide none.
LEMMA ShellsAppend ==
  ASSUME NEW s \in Seq(Word), NEW t \in Seq(Word),
         \A k \in 1..Len(t) : t[k] # Frame("shell_run")
  PROVE  {k \in DOMAIN (s \o t) : (s \o t)[k] = Frame("shell_run")}
           = {k \in DOMAIN s : s[k] = Frame("shell_run")}
<1>1. DOMAIN (s \o t) = 1..(Len(s) + Len(t)) /\ DOMAIN s = 1..Len(s) /\ Len(s) \in Nat /\ Len(t) \in Nat
  OBVIOUS
<1>2. \A k \in 1..(Len(s) + Len(t)) :
        (s \o t)[k] = IF k <= Len(s) THEN s[k] ELSE t[k - Len(s)]
  OBVIOUS
<1>3. \A k \in 1..(Len(s) + Len(t)) : k > Len(s) => (s \o t)[k] # Frame("shell_run")
  <2> SUFFICES ASSUME NEW k \in 1..(Len(s) + Len(t)), k > Len(s)
               PROVE  t[k - Len(s)] # Frame("shell_run")
    BY <1>2
  <2>1. k - Len(s) \in 1..Len(t)
    BY <1>1
  <2>. QED  BY <2>1
<1>4. \A k : k \in DOMAIN (s \o t) /\ (s \o t)[k] = Frame("shell_run")
               <=> k \in DOMAIN s /\ s[k] = Frame("shell_run")
  BY <1>1, <1>2, <1>3
<1>. QED  BY <1>4

LEMMA StartStep == ASSUME EntryInv, jmp_usermode PROVE EntryInv'
<1> DEFINE calls == <<Frame("exec_elf"), Frame("jmp_usermode")>>
           cleared == [r \in GPR \cup {"rsp"} |->
                         IF r \in {"rax", "rdx"} THEN Other("debug") ELSE Number(0)]
<1>0. Types /\ OnStack
  BY DEF EntryInv
<1>1. /\ pc = "shell" /\ pc' = "user" /\ stk' = stk \o calls /\ UNCHANGED <<area, saved, at>>
      /\ Iretq(cleared, UserFrame(UserStack(0), Flags({"IF"}), Code("_start")))
  BY DEF jmp_usermode
<1>2. /\ Other("debug") \in Plain /\ Number(0) \in Plain /\ Code("_start") \in Plain
      /\ Frame("exec_elf") \in Word /\ Frame("jmp_usermode") \in Word /\ UserStack(0) \in UserWords
  BY KernelWords
<1>3. cleared \in Regs
  BY <1>2 DEF Regs, R
<1>. HIDE DEF cleared
<1>4. /\ reg' = [cleared EXCEPT !["rsp"] = UserStack(0)] /\ rflags' = {"IF"}
      /\ cs' = USER_CODE_SELECTOR /\ rip' = Code("_start")
  BY <1>1, <1>3, IretqToUser
<1>5. reg' \in Regs /\ reg'["rsp"] \in UserWords
  BY <1>2, <1>3, <1>4, RegNames, UserWordsPlain DEF Regs
<1>6. calls \in Seq(Word) /\ \A k \in 1..Len(calls) : calls[k] # Frame("shell_run")
  BY <1>2 DEF Frame
<1>. HIDE DEF calls
<1>7. stk' \in Seq(Word) /\ Shells' = Shells
  BY <1>0, <1>1, <1>6, ShellsAppend DEF Types, Shells
<1>8. Types'
  BY <1>0, <1>1, <1>2, <1>4, <1>5, <1>7 DEF Types, Pcs, InUser, FlagSet
<1>9. OnStack'
  BY <1>0, <1>1, <1>7 DEF OnStack
<1>. QED  BY <1>1, <1>8, <1>9 DEF EntryInv, Calling, Faulted

LEMMA ComputeStep == ASSUME EntryInv, Compute PROVE EntryInv'
<1>0. Types /\ OnStack
  BY DEF EntryInv
<1>1. PICK g \in {1, 2}, S \in {CalleeSaved, GPR \ CalleeSaved}, f \in SUBSET {"DF"} :
        /\ reg' = [r \in GPR \cup {"rsp"} |->
                     IF r = "rsp" THEN UserStack(g) ELSE IF r \in S THEN Prog(r, g) ELSE reg[r]]
        /\ rflags' = {"IF"} \cup f
  BY DEF Compute
<1>2. pc = "user" /\ UNCHANGED <<pc, rip, cs, area, stk, saved, at>>
  BY DEF Compute
<1>3. reg' \in Regs /\ reg'["rsp"] \in UserWords
  <2>1. UserStack(g) \in UserWords /\ UserStack(g) \in Plain
    BY UserWordsPlain DEF UserWords
  <2>2. \A r \in R : reg[r] \in Plain /\ Prog(r, g) \in Plain
    BY <1>0, WordKinds DEF Types, Regs
  <2>. QED  BY <1>1, <2>1, <2>2 DEF Regs, R
<1>4. Types'
  BY <1>0, <1>1, <1>2, <1>3 DEF Types, InUser, FlagSet
<1>5. OnStack'
  BY <1>0, <1>2 DEF OnStack, Shells
<1>. QED  BY <1>2, <1>4, <1>5 DEF EntryInv, Calling, Faulted

LEMMA CallStep == ASSUME EntryInv, CallStub \/ Stub PROVE EntryInv'
<1>0. Types /\ OnStack /\ Calling
  BY DEF EntryInv
<1>1. CASE CallStub
  <2>1. /\ pc = "user" /\ pc' = "stub" /\ rip' = Code("_syscall")
        /\ reg' = [reg EXCEPT !["rsp"] = UserStack(reg["rsp"][3] + 1)]
        /\ at' = [reg |-> reg', rip |-> Code("ret"), cs |-> cs, rflags |-> rflags]
        /\ UNCHANGED <<cs, rflags, area, stk, saved>>
    BY <1>1 DEF CallStub
  <2>2. reg["rsp"] \in UserWords /\ cs = USER_CODE_SELECTOR
    BY <1>0, <2>1 DEF Types, InUser
  <2>3. reg' \in Regs /\ reg'["rsp"] \in UserWords
    BY <1>0, <2>1, <2>2, UserWordsPlain, RegNames DEF Types, Regs
  <2>4. Types'
    BY <1>0, <2>1, <2>2, <2>3, KernelWords DEF Types, InUser, Pcs
  <2>5. Calling'
    <3>1. /\ at'.reg = reg' /\ at'.rflags = rflags
          /\ at' = [reg |-> at'.reg, rip |-> Code("ret"), cs |-> USER_CODE_SELECTOR,
                     rflags |-> at'.rflags]
      BY <2>1, <2>2
    <3>2. Caller'
      BY <3>1, <2>3, <1>0 DEF Caller, Types
    <3>. QED  BY <2>1, <3>1, <3>2 DEF Calling
  <2>6. OnStack'
    BY <1>0, <2>1 DEF OnStack, Shells
  <2>. QED  BY <2>1, <2>4, <2>5, <2>6 DEF EntryInv, Faulted
<1>2. CASE Stub
  <2>1. /\ pc = "stub" /\ pc' = "syscall" /\ reg' = Moved(reg, StubMoves)
        /\ UNCHANGED <<rip, cs, rflags, area, stk, saved, at>>
    BY <1>2 DEF Stub
  <2>2. reg' \in Regs /\ reg'["rsp"] = reg["rsp"]
    BY <1>0, <2>1, StubMoved DEF Types
  <2>3. Types'
    BY <1>0, <2>1, <2>2 DEF Types, InUser, Pcs
  <2>4. Calling'
    BY <1>0, <2>1 DEF Calling, Caller
  <2>5. OnStack'
    BY <1>0, <2>1 DEF OnStack, Shells
  <2>. QED  BY <2>1, <2>3, <2>4, <2>5 DEF EntryInv, Faulted
<1>. QED  BY <1>1, <1>2

\* The instruction SYSCALL destroys rcx and r11 only; the six registers are
\* pushed before the moves, the arguments arrive after them.
LEMMA EnterStep == ASSUME EntryInv, syscall_asm_entry PROVE EntryInv'
<1> DEFINE r == [reg EXCEPT !["rcx"] = Code("ret"), !["r11"] = Flags(rflags)]
           q == [r EXCEPT !["rsp"] = Other("syscall_stack")]
<1>0. Types /\ OnStack /\ Calling
  BY DEF EntryInv
<1>1. /\ pc = "syscall" /\ pc' = "handler"
      /\ saved' = [rsp |-> reg["rsp"], rip |-> Code("ret"), rflags |-> Flags(rflags)]
      /\ stk' = Append(Pushes(r, EntryPushes), Frame("syscall"))
      /\ reg' = Moved(q, EntryMoves)
      /\ area' = "syscall" /\ rip' = Code("syscall") /\ cs' = KERNEL_CODE_SELECTOR
      /\ rflags' = rflags \ FMASK /\ at' = at
  BY DEF syscall_asm_entry
<1>2. /\ Caller /\ rflags = at.rflags /\ reg = Moved(at.reg, StubMoves)
  BY <1>0, <1>1 DEF Calling
<1>3. reg \in Regs /\ at.reg \in Regs /\ rflags \in SUBSET FlagSet
  BY <1>0, <1>2 DEF Types, Caller
<1>4. {"rax", "rdi", "rsi", "rdx", "rcx", "r8", "r9", "r10", "r11"} \subseteq R /\ "rsp" \in R
  BY DEF R, GPR
<1>5. /\ Code("ret") \in Plain /\ Code("syscall") \in Plain /\ Flags(rflags) \in Plain
      /\ Other("syscall_stack") \in Plain /\ Frame("syscall") \in Word
  BY <1>3, KernelWords, WordKinds
<1>6. r \in Regs /\ q \in Regs /\ \A x \in R \ {"rcx", "r11", "rsp"} : q[x] = reg[x]
  BY <1>3, <1>4, <1>5 DEF Regs
<1>7. \A x \in CalleeSaved : x \in R /\ r[x] = reg[x]
  <2>1. \A x \in CalleeSaved : x \in R /\ x \notin {"rcx", "r11"}
    BY DEF CalleeSaved, R, GPR
  <2>. QED  BY <1>3, <2>1 DEF Regs
<1>8. q["rcx"] = Code("ret")
  BY <1>3, <1>4 DEF Regs
<1>. HIDE DEF r, q
<1>9. \A k \in 1..6 : EntryPushes[k] \in CalleeSaved
  BY DEF EntryPushes, CalleeSaved
<1>10. DOMAIN EntryPushes = 1..6
  BY DEF EntryPushes
<1> DEFINE p == Pushes(r, EntryPushes)
<1>11. p \in [1..6 -> Word] /\ \A k \in 1..6 : p[k] = at.reg[EntryPushes[k]]
  <2>1. \A k \in 1..6 : r[EntryPushes[k]] \in Word
    BY <1>6, <1>7, <1>9, PlainIsWord DEF Regs
  <2>2. p = [k \in 1..6 |-> r[EntryPushes[k]]]
    BY <1>10 DEF Pushes
  <2>3. \A k \in 1..6 : r[EntryPushes[k]] = at.reg[EntryPushes[k]]
    BY <1>2, <1>3, <1>7, <1>9, StubMoved
  <2>. QED  BY <2>1, <2>2, <2>3
<1>. HIDE DEF p
<1>12. /\ stk' \in Seq(Word) /\ Len(stk') = 7 /\ stk'[7] = Frame("syscall")
       /\ \A k \in 1..6 : stk'[k] = at.reg[EntryPushes[k]]
  <2>1. p \in Seq(Word) /\ Len(p) = 6
    <3>1. 6 \in Nat /\ p \in [1..6 -> Word]
      BY <1>11
    <3>. QED  BY <3>1, FunctionIsSequence, Zenon
  <2>2. stk' = Append(p, Frame("syscall"))
    BY <1>1 DEF p
  <2>3. /\ stk' \in Seq(Word) /\ Len(stk') = 6 + 1 /\ stk'[6 + 1] = Frame("syscall")
        /\ \A k \in 1..6 : stk'[k] = p[k]
    <3> DEFINE a == Append(p, Frame("syscall"))
    <3>1. /\ a \in Seq(Word) /\ Len(a) = Len(p) + 1 /\ a[Len(p) + 1] = Frame("syscall")
          /\ \A k \in 1..Len(p) : a[k] = p[k]
      <4>1. Frame("syscall") \in Word /\ p \in Seq(Word)
        BY <1>5, <2>1
      <4>2. \A s \in Seq(Word), e \in Word :
              /\ Append(s, e) \in Seq(Word) /\ Len(Append(s, e)) = Len(s) + 1
              /\ Append(s, e)[Len(s) + 1] = e
              /\ \A k \in 1..Len(s) : Append(s, e)[k] = s[k]
        OBVIOUS
      <4>3. /\ a \in Seq(Word) /\ Len(a) = Len(p) + 1 /\ a[Len(p) + 1] = Frame("syscall")
        BY <4>1, <4>2
      <4>4. \A k \in 1..Len(p) : a[k] = p[k]
        BY <4>1, <4>2
      <4>. QED  BY <4>3, <4>4
    <3>. QED  BY <2>1, <2>2, <3>1
  <2>. QED  BY <1>11, <2>3
<1>13. Types'
  <2>1. saved' \in [rsp : Plain, rip : Plain, rflags : Plain]
    BY <1>1, <1>3, <1>4, <1>5 DEF Regs
  <2>2. reg' \in Regs
    BY <1>1, <1>6, EntryMoved
  <2>. QED  BY <1>1, <1>3, <1>5, <1>12, <2>1, <2>2 DEF Types, InUser, Pcs
<1>14. Calling'
  <2>1. Caller'
    BY <1>1, <1>2 DEF Caller
  <2>2. reg["rsp"] = at.reg["rsp"]
    BY <1>2, <1>3, StubMoved
  <2>3. Kept'
    BY <1>1, <1>2, <1>12, <2>2 DEF Kept
  <2>4. \A x \in {"rax", "rdi", "rsi", "rdx", "r8", "r10"} : q[x] = reg[x]
    BY <1>4, <1>6
  <2>5. /\ reg'["rdi"] = q["rax"] /\ reg'["rsi"] = q["rdi"] /\ reg'["rdx"] = q["rsi"]
        /\ reg'["rcx"] = q["rdx"] /\ reg'["r8"] = q["r10"] /\ reg'["r9"] = q["r8"]
    BY <1>1, <1>6, EntryMoved
  <2>6. /\ reg["rax"] = at.reg["rdi"] /\ reg["rdi"] = at.reg["rsi"] /\ reg["rsi"] = at.reg["rdx"]
        /\ reg["rdx"] = at.reg["rcx"] /\ reg["r10"] = at.reg["r8"] /\ reg["r8"] = at.reg["r9"]
    BY <1>2, <1>3, StubMoved
  <2>7. \A x \in {"rdi", "rsi", "rdx", "rcx", "r8", "r9"} : reg'[x] = at.reg[x]
    BY <2>4, <2>5, <2>6
  <2>8. \A k \in 1..6 : ArgRegs[k] \in {"rdi", "rsi", "rdx", "rcx", "r8", "r9"}
    BY DEF ArgRegs
  <2>9. rflags' \cap FlagSet = {}
    BY <1>1, <1>3 DEF FMASK, FlagSet
  <2>. QED  BY <1>1, <2>1, <2>3, <2>7, <2>8, <2>9 DEF Calling
<1>15. OnStack'
  <2>1. \A k \in 1..7 : stk'[k] # Frame("shell_run")
    <3>1. \A k \in 1..6 : at.reg[EntryPushes[k]] \in Plain
      BY <1>3, <1>7, <1>9 DEF Regs
    <3>2. \A k \in 1..6 : stk'[k] # Frame("shell_run")
      BY <1>12, <3>1, NotAFrame
    <3>3. Frame("syscall") # Frame("shell_run")
      BY DEF Frame
    <3>4. \A k \in 1..7 : k \in 1..6 \/ k = 7
      OBVIOUS
    <3>. QED  BY <1>12, <3>2, <3>3, <3>4
  <2>2. DOMAIN stk' = 1..7
    BY <1>12
  <2>3. Shells' = {}
    BY <2>1, <2>2 DEF Shells
  <2>. QED  BY <1>1, <2>3 DEF OnStack
<1>. QED  BY <1>1, <1>13, <1>14, <1>15 DEF EntryInv, Faulted

LEMMA HandlerStep == ASSUME EntryInv, syscall PROVE EntryInv'
<1>0. Types /\ OnStack /\ Calling
  BY DEF EntryInv
<1>1. /\ pc = "handler" /\ pc' = "leave" /\ stk' = Front(stk)
      /\ reg' = [r \in GPR \cup {"rsp"} |->
                   CASE r \in CalleeSaved \cup {"rsp"} -> reg[r]
                     [] r = "rax" -> Other("result")
                     [] OTHER -> Other("junk")]
      /\ UNCHANGED <<rip, cs, rflags, area, saved, at>>
  BY DEF syscall
<1>2. reg' \in Regs /\ reg'["rax"] = Other("result")
  <2>1. Other("result") \in Plain /\ Other("junk") \in Plain
    BY KernelWords
  <2>2. \A r \in R : reg[r] \in Plain
    BY <1>0 DEF Types, Regs
  <2>3. "rax" \in R /\ "rax" \notin CalleeSaved \cup {"rsp"}
    BY DEF R, GPR, CalleeSaved
  <2>4. \A r \in R : reg'[r] \in Plain
    BY <1>1, <2>1, <2>2 DEF R
  <2>5. reg'["rax"] = Other("result")
    BY <1>1, <2>3 DEF R
  <2>. QED  BY <1>1, <2>4, <2>5 DEF Regs, R
<1>3. /\ Kept /\ Caller /\ stk \in Seq(Word) /\ Len(stk) = 7
  BY <1>0, <1>1 DEF Calling, Types, Kept
<1>4. /\ stk' \in Seq(Word) /\ Len(stk') = 6 /\ \A k \in 1..6 : stk'[k] = stk[k]
  <2>1. stk' = SubSeq(stk, 1, 6)
    BY <1>1, <1>3 DEF Front
  <2>2. ASSUME NEW T, NEW q \in Seq(T), Len(q) = 7
        PROVE  /\ SubSeq(q, 1, 6) \in Seq(T) /\ Len(SubSeq(q, 1, 6)) = 6
               /\ \A k \in 1..6 : SubSeq(q, 1, 6)[k] = q[k]
    <3>1. \A i \in 1..Len(q) : q[i] \in T
      BY <2>2, ElementOfSeq
    <3>2. \A i \in 1..6 : i \in 1..Len(q)
      BY <2>2
    <3>3. \A i \in 1..6 : q[i] \in T
      BY <3>1, <3>2
    <3>. QED  BY <3>3, SubSeqProperties
  <2>. QED  BY <1>3, <2>1, <2>2
<1>5. Types'
  BY <1>0, <1>1, <1>2, <1>4 DEF Types, InUser, Pcs
<1>6. Calling'
  BY <1>1, <1>2, <1>3, <1>4 DEF Calling, Kept, Caller
<1>7. OnStack'
  <2>1. \A k \in 1..6 : at.reg[EntryPushes[k]] \in Plain
    BY <1>3, RegNames DEF Caller, EntryPushes, CalleeSaved, Regs, R, GPR
  <2>2. Shells' = {}
    BY <1>3, <1>4, <2>1, NotAFrame DEF Shells, Kept
  <2>. QED  BY <1>1, <2>2 DEF OnStack
<1>. QED  BY <1>1, <1>5, <1>6, <1>7 DEF EntryInv, Faulted

\* What the entry pushed comes back to the registers it came from.
LEMMA LeaveStep == ASSUME EntryInv, Leave PROVE EntryInv'
<1> DEFINE n == Len(stk)
           r == [x \in DOMAIN reg |-> IF x \in ToSet(EntryPops)
                   THEN stk[n + 1 - CHOOSE k \in 1..6 : EntryPops[k] = x] ELSE reg[x]]
<1>0. Types /\ OnStack /\ Calling
  BY DEF EntryInv
<1>1. /\ pc = "leave" /\ pc' = "back" /\ UNCHANGED <<area, saved, at>>
      /\ Iretq(r, UserFrame(saved["rsp"], saved["rflags"], saved["rip"]))
      /\ stk' = SubSeq(stk, 1, n - 6)
  BY DEF Leave
<1>2. /\ Kept /\ Caller /\ n = 6 /\ reg \in Regs /\ reg["rax"] = Other("result")
      /\ stk \in Seq(Word)
  BY <1>0, <1>1 DEF Calling, Types, Kept
<1>3. \A x \in CalleeSaved : r[x] = at.reg[x]
  <2> SUFFICES ASSUME NEW x \in CalleeSaved PROVE r[x] = at.reg[x]
    OBVIOUS
  <2> DEFINE k == CHOOSE k \in 1..6 : EntryPops[k] = x
  <2>1. k \in 1..6 /\ EntryPushes[7 - k] = x
    BY PopPlaces
  <2>2. r[x] = stk[n + 1 - k]
    <3>1. x \in DOMAIN reg /\ x \in ToSet(EntryPops)
      BY <1>2, PopNames, RegNames DEF Regs
    <3>. QED  BY <3>1
  <2>. HIDE DEF k, r
  <2>3. n + 1 - k = 7 - k /\ 7 - k \in 1..6
    BY <1>2, <2>1
  <2>. QED  BY <1>2, <2>1, <2>2, <2>3 DEF Kept
<1>4. r["rax"] = Other("result") /\ r \in Regs
  <2>1. "rax" \in R /\ "rax" \notin CalleeSaved
    BY DEF R, GPR, CalleeSaved
  <2>2. \A x \in CalleeSaved : x \in R /\ at.reg[x] \in Plain
    BY <1>2, RegNames DEF Caller, Regs
  <2>3. r["rax"] = reg["rax"]
    BY <1>2, <2>1, PopNames DEF Regs
  <2>4. \A x \in R : r[x] \in Plain
    <3>1. \A x \in R \ CalleeSaved : r[x] = reg[x]
      BY <1>2, PopNames DEF Regs
    <3>2. \A x \in R : reg[x] \in Plain
      BY <1>2 DEF Regs
    <3>. HIDE DEF r
    <3>. QED  BY <1>3, <2>2, <3>1, <3>2
  <2>. QED  BY <1>2, <2>3, <2>4 DEF Regs
<1>. HIDE DEF r
<1>5. /\ saved["rsp"] = at.reg["rsp"] /\ saved["rflags"] = Flags(at.rflags)
      /\ saved["rip"] = Code("ret")
  BY <1>2 DEF Kept
<1>6. /\ reg' = [r EXCEPT !["rsp"] = at.reg["rsp"]] /\ rflags' = at.rflags
      /\ cs' = USER_CODE_SELECTOR /\ rip' = Code("ret")
  BY <1>1, <1>4, <1>5, IretqToUser
<1>7. at.reg["rsp"] \in UserWords /\ at.rflags \in SUBSET FlagSet /\ at.reg["rsp"] \in Plain
  BY <1>2, UserWordsPlain DEF Caller
<1>8. /\ reg' \in Regs /\ reg'["rsp"] = at.reg["rsp"]
      /\ \A x \in R \ {"rsp"} : reg'[x] = r[x]
  BY <1>4, <1>6, <1>7, RegNames DEF Regs
<1>9. stk' = <<>> /\ stk' \in Seq(Word)
  BY <1>1, <1>2
<1>10. Types'
  BY <1>0, <1>1, <1>6, <1>7, <1>8, <1>9, KernelWords DEF Types, InUser, Pcs
<1>11. Calling'
  <2>1. Caller'
    BY <1>1, <1>2 DEF Caller
  <2>2. \A x \in CalleeSaved \cup {"rsp"} : reg'[x] = at.reg[x]
    BY <1>3, <1>8, RegNames
  <2>3. reg'["rax"] = Other("result")
    <3>1. "rax" \in R \ {"rsp"}
      BY DEF R, GPR
    <3>. QED  BY <1>4, <1>8, <3>1
  <2>4. at.rip = Code("ret") /\ at.cs = USER_CODE_SELECTOR
    BY <1>2 DEF Caller
  <2>. QED  BY <1>1, <1>6, <2>1, <2>2, <2>3, <2>4 DEF Calling
<1>12. OnStack'
  BY <1>1, <1>9 DEF OnStack, Shells
<1>. QED  BY <1>1, <1>10, <1>11, <1>12 DEF EntryInv, Faulted

LEMMA ReturnStep == ASSUME EntryInv, Return PROVE EntryInv'
<1>0. Types /\ OnStack
  BY DEF EntryInv
<1>1. /\ pc = "back" /\ pc' = "user" /\ reg' = [reg EXCEPT !["rsp"] = UserStack(reg["rsp"][3] - 1)]
      /\ UNCHANGED <<rip, cs, rflags, area, stk, saved>>
  BY DEF Return
<1>2. reg' \in Regs /\ reg'["rsp"] \in UserWords
  <2>1. reg["rsp"] \in UserWords
    BY <1>0, <1>1 DEF Types, InUser
  <2>. QED  BY <1>0, <1>1, <2>1, UserWordsPlain, RegNames DEF Types, Regs
<1>3. Types'
  BY <1>0, <1>1, <1>2 DEF Types, InUser, Pcs
<1>4. OnStack'
  BY <1>0, <1>1 DEF OnStack, Shells
<1>. QED  BY <1>1, <1>3, <1>4 DEF EntryInv, Faulted, Calling
-----------------------------------------------------------------------------
ShellsOf(s) == {k \in DOMAIN s : s[k] = Frame("shell_run")}

LEMMA ConcatWords ==
  \A s, t \in Seq(Word) :
    /\ s \o t \in Seq(Word) /\ Len(s \o t) = Len(s) + Len(t)
    /\ Len(s) \in Nat /\ Len(t) \in Nat
    /\ \A k \in 1..Len(s) : (s \o t)[k] = s[k]
    /\ \A k \in 1..Len(t) : (s \o t)[Len(s) + k] = t[k]
<1> SUFFICES ASSUME NEW s \in Seq(Word), NEW t \in Seq(Word)
             PROVE  /\ s \o t \in Seq(Word) /\ Len(s \o t) = Len(s) + Len(t)
                    /\ Len(s) \in Nat /\ Len(t) \in Nat
                    /\ \A k \in 1..Len(s) : (s \o t)[k] = s[k]
                    /\ \A k \in 1..Len(t) : (s \o t)[Len(s) + k] = t[k]
  OBVIOUS
<1>1. Len(s) \in Nat /\ Len(t) \in Nat
  OBVIOUS
<1>2. /\ s \o t \in Seq(Word) /\ Len(s \o t) = Len(s) + Len(t)
      /\ \A k \in 1..(Len(s) + Len(t)) :
            (s \o t)[k] = IF k <= Len(s) THEN s[k] ELSE t[k - Len(s)]
  OBVIOUS
<1>3. \A k \in 1..Len(s) : (s \o t)[k] = s[k]
  BY <1>1, <1>2
<1>4. ASSUME NEW k \in 1..Len(t) PROVE (s \o t)[Len(s) + k] = t[k]
  <2>1. Len(s) + k \in 1..(Len(s) + Len(t)) /\ ~ (Len(s) + k <= Len(s)) /\ Len(s) + k - Len(s) = k
    BY <1>1
  <2>. QED  BY <2>1, <1>2
<1>. QED  BY <1>1, <1>2, <1>3, <1>4

\* The processor's words, the registers and the frame of the call, on whatever
\* was on the stack.
OnTop(top, w, p, e) == top \o w \o p \o <<e>>

OfAFault(top, w, p, e) ==
  /\ top \in Seq(Word) /\ w \in Seq(Word) /\ p \in Seq(Word) /\ e \in Word
  /\ Len(w) = 7 /\ Len(p) = 15 /\ e # Frame("shell_run")
  /\ \A k \in 1..7 : w[k] \in Plain
  /\ \A k \in 1..15 : p[k] \in Plain

FramesOf(s, top, w, p) ==
  /\ s \in Seq(Word) /\ Len(s) = Len(top) + 23 /\ Len(top) \in Nat
  /\ \A k \in 1..7 : s[Len(top) + k] = w[k]
  /\ \A k \in 1..15 : s[Len(top) + 7 + k] = p[k]
  /\ ShellsOf(s) = ShellsOf(top)

LEMMA FrameOnStack ==
  \A top, w, p, e : OfAFault(top, w, p, e) => FramesOf(OnTop(top, w, p, e), top, w, p)
<1> SUFFICES ASSUME NEW top, NEW w, NEW p, NEW e, OfAFault(top, w, p, e)
             PROVE  FramesOf(OnTop(top, w, p, e), top, w, p)
  OBVIOUS
<1>a. /\ top \in Seq(Word) /\ w \in Seq(Word) /\ p \in Seq(Word) /\ e \in Word
      /\ Len(w) = 7 /\ Len(p) = 15 /\ e # Frame("shell_run")
  BY DEF OfAFault
<1>b. (\A k \in 1..7 : w[k] \in Plain) /\ (\A k \in 1..15 : p[k] \in Plain)
  BY DEF OfAFault
<1> DEFINE s == OnTop(top, w, p, e)
<1> DEFINE t1 == top \o w
           t2 == t1 \o p
           t3 == <<e>>
<1>0. s = t2 \o t3
  BY DEF OnTop
<1>. HIDE DEF s
<1>1. /\ t1 \in Seq(Word) /\ Len(t1) = Len(top) + Len(w) /\ Len(top) \in Nat
      /\ \A k \in 1..Len(w) : t1[Len(top) + k] = w[k]
  BY <1>a, ConcatWords, Zenon
<1>2. ShellsOf(t1) = ShellsOf(top)
  <2>1. \A k \in 1..Len(w) : w[k] # Frame("shell_run")
    BY <1>a, <1>b, NotAFrame
  <2>. QED  BY <1>a, <2>1, ShellsAppend, Zenon DEF ShellsOf
<1>. HIDE DEF t1
<1>3. /\ t2 \in Seq(Word) /\ Len(t2) = Len(t1) + Len(p)
      /\ \A k \in 1..Len(t1) : t2[k] = t1[k]
      /\ \A k \in 1..Len(p) : t2[Len(t1) + k] = p[k]
  BY <1>a, <1>1, ConcatWords, ZenonT(40)
<1>4. ShellsOf(t2) = ShellsOf(t1)
  <2>1. \A k \in 1..Len(p) : p[k] # Frame("shell_run")
    BY <1>a, <1>b, NotAFrame
  <2>. QED  BY <1>a, <1>1, <2>1, ShellsAppend, Zenon DEF ShellsOf
<1>. HIDE DEF t2
<1>5. t3 \in Seq(Word) /\ Len(t3) = 1 /\ t3[1] = e
  BY <1>a
<1>. HIDE DEF t3
<1>7. /\ s \in Seq(Word) /\ Len(s) = Len(t2) + Len(t3) /\ \A k \in 1..Len(t2) : s[k] = t2[k]
  <2>1. /\ t2 \o t3 \in Seq(Word) /\ Len(t2 \o t3) = Len(t2) + Len(t3)
        /\ \A k \in 1..Len(t2) : (t2 \o t3)[k] = t2[k]
    BY <1>3, <1>5, ConcatWords, Zenon
  <2>. QED  BY <1>0, <2>1, Zenon
<1>8. ShellsOf(s) = ShellsOf(t2)
  <2>1. \A k \in 1..Len(t3) : t3[k] # Frame("shell_run")
    BY <1>a, <1>5
  <2>2. ShellsOf(t2 \o t3) = ShellsOf(t2)
    BY <2>1, <1>3, <1>5, ShellsAppend, Zenon DEF ShellsOf
  <2>. QED  BY <1>0, <2>2, Zenon
<1>9. Len(t1) = Len(top) + 7 /\ Len(t2) = Len(top) + 22 /\ Len(s) = Len(top) + 23
  BY <1>a, <1>1, <1>3, <1>5, <1>7
<1>10. ASSUME NEW k \in 1..7 PROVE s[Len(top) + k] = w[k]
  <2>1. Len(top) + k \in 1..Len(t2) /\ Len(top) + k \in 1..Len(t1) /\ k \in 1..Len(w)
    <3>1. /\ Len(t1) = Len(top) + 7 /\ Len(t2) = Len(top) + 22 /\ Len(top) \in Nat
          /\ Len(w) = 7
      BY <1>a, <1>1, <1>9
    <3>2. \A n \in Nat, j \in 1..7 : n + j \in 1..(n + 22) /\ n + j \in 1..(n + 7)
      OBVIOUS
    <3>. QED  BY <3>1, <3>2, Zenon
  <2>. QED  BY <2>1, <1>1, <1>3, <1>7, Zenon
<1>11. ASSUME NEW k \in 1..15 PROVE s[Len(top) + 7 + k] = p[k]
  <2>1. /\ Len(top) + 7 + k \in 1..Len(t2) /\ Len(top) + 7 + k = Len(t1) + k /\ k \in 1..Len(p)
    <3>1. /\ Len(t1) = Len(top) + 7 /\ Len(t2) = Len(top) + 22 /\ Len(top) \in Nat
          /\ Len(p) = 15
      BY <1>a, <1>1, <1>9
    <3>2. \A n \in Nat, j \in 1..15 : n + 7 + j \in 1..(n + 22)
      OBVIOUS
    <3>. QED  BY <3>1, <3>2, Zenon
  <2>. QED  BY <2>1, <1>3, <1>7, Zenon
<1>12. ShellsOf(s) = ShellsOf(top) /\ s \in Seq(Word) /\ Len(s) = Len(top) + 23 /\ Len(top) \in Nat
  BY <1>1, <1>2, <1>4, <1>7, <1>8, <1>9
<1>. QED  BY <1>10, <1>11, <1>12, Zenon DEF s, FramesOf

LEMMA FaultStep == ASSUME EntryInv, NEW v \in Vectors, Fault(v) PROVE EntryInv'
<1> DEFINE err == IF v = 14 /\ InUser THEN Number(4) ELSE Number(0)
           from == IF InUser THEN StackAt(BaseOf(TssDescriptor)) ELSE stk
           top == IF Len(from) % 2 = 0 THEN from ELSE Append(from, Other("pad"))
           ss == IF InUser THEN Number(USER_DATA_SELECTOR) ELSE Other("ss")
           w == <<ss, reg["rsp"], Flags(rflags), Number(cs), rip, err, Number(v)>>
           p == Pushes(reg, IsrPushes)
           e == Frame("isr_handler")
<1>0. Types /\ OnStack
  BY DEF EntryInv
<1>1. /\ InUser \/ pc \in {"handler", "shell"}
      /\ v \in Gates /\ stk' = top \o w \o p \o <<e>>
      /\ area' = IF InUser THEN "fault" ELSE area
      /\ at' = [reg |-> reg, rip |-> rip, cs |-> cs, rflags |-> rflags]
      /\ reg' = [reg EXCEPT !["rdi"] = Other("regs")]
      /\ rip' = Code("isr_handler") /\ cs' = KERNEL_CODE_SELECTOR
      /\ rflags' = rflags \ {"IF", "TF"} /\ pc' = "isr" /\ saved' = saved
  BY DEF Fault
<1>2. cs = (IF InUser THEN USER_CODE_SELECTOR ELSE KERNEL_CODE_SELECTOR) /\ v \in Int /\ cs \in Int
  BY <1>0, <1>1 DEF Types, InUser, Gates, USER_CODE_SELECTOR, KERNEL_CODE_SELECTOR
<1>4. from \in Seq(Word) /\ (InUser => ShellsOf(from) = {}) /\ (~ InUser => from = stk)
  <2>1. CASE InUser
    <3>1. from = <<>>
      BY <2>1, FaultStack
    <3>. QED  BY <2>1, <3>1 DEF ShellsOf
  <2>2. CASE ~ InUser
    BY <2>2, <1>0 DEF Types
  <2>. QED  BY <2>1, <2>2
<1>. HIDE DEF from
<1>5. top \in Seq(Word) /\ Len(top) % 2 = 0 /\ ShellsOf(top) = ShellsOf(from)
  <2>1. CASE Len(from) % 2 = 0
    BY <1>4, <2>1
  <2>2. CASE Len(from) % 2 # 0
    <3>1. Other("pad") \in Plain /\ Other("pad") \in Word
      BY KernelWords, PlainIsWord
    <3> DEFINE t == <<Other("pad")>>
    <3>2. t \in Seq(Word) /\ \A k \in 1..Len(t) : t[k] # Frame("shell_run")
      BY <3>1, NotAFrame
    <3>3. top = from \o t /\ Len(top) = Len(from) + 1 /\ top \in Seq(Word) /\ Len(from) \in Nat
      BY <1>4, <2>2, <3>1
    <3>. HIDE DEF t, top
    <3>4. ShellsOf(top) = ShellsOf(from)
      BY <1>4, <3>2, <3>3, ShellsAppend DEF ShellsOf
    <3>5. \A n \in Nat : n % 2 # 0 => (n + 1) % 2 = 0
      OBVIOUS
    <3>. QED  BY <2>2, <3>3, <3>4, <3>5
  <2>. QED  BY <2>1, <2>2
<1>. HIDE DEF top
<1>6. /\ \A x \in R : reg[x] \in Plain /\ reg[x] \in Word
      /\ "rsp" \in R /\ "rdi" \in R
  BY <1>0, PlainIsWord DEF Types, Regs, R, GPR
<1>7. /\ ss \in Plain /\ reg["rsp"] \in Plain /\ Flags(rflags) \in Plain /\ Number(cs) \in Plain
      /\ rip \in Plain /\ err \in Plain /\ Number(v) \in Plain
  <2>1. Number(USER_DATA_SELECTOR) \in Plain /\ Number(4) \in Plain /\ Number(0) \in Plain
    BY WordKinds DEF USER_DATA_SELECTOR
  <2>2. Other("ss") \in Plain
    BY KernelWords
  <2>. QED  BY <1>0, <1>2, <1>6, <2>1, <2>2, WordKinds DEF Types
<1>8. /\ Len(w) = 7 /\ w[1] = ss /\ w[2] = reg["rsp"] /\ w[3] = Flags(rflags)
      /\ w[4] = Number(cs) /\ w[5] = rip /\ w[6] = err /\ w[7] = Number(v)
  OBVIOUS
<1>9. w \in Seq(Word)
  <2>1. /\ ss \in Word /\ reg["rsp"] \in Word /\ Flags(rflags) \in Word /\ Number(cs) \in Word
        /\ rip \in Word /\ err \in Word /\ Number(v) \in Word
    BY <1>7, PlainIsWord
  <2>. HIDE DEF ss, err
  <2>. QED  BY <2>1
<1>. HIDE DEF w
<1>10. \A k \in 1..7 : w[k] \in Plain
  <2>1. \A k \in 1..7 : k \in {1, 2, 3, 4, 5, 6, 7}
    OBVIOUS
  <2>. QED  BY <1>7, <1>8, <2>1
<1>11. DOMAIN IsrPushes = 1..15 /\ \A k \in 1..15 : IsrPushes[k] \in R
  BY DEF IsrPushes, R, GPR
<1>12. /\ p \in Seq(Word) /\ Len(p) = 15 /\ \A k \in 1..15 : p[k] = reg[IsrPushes[k]] /\ p[k] \in Plain
  <2>1. p = [k \in 1..15 |-> reg[IsrPushes[k]]]
    BY <1>11 DEF Pushes
  <2>2. p \in [1..15 -> Word] /\ 15 \in Nat
    BY <1>6, <1>11, <2>1
  <2>3. p \in Seq(Word) /\ Len(p) = 15
    BY <2>2, FunctionIsSequence, Zenon
  <2>. HIDE DEF p
  <2>4. \A k \in 1..15 : p[k] = reg[IsrPushes[k]] /\ p[k] \in Plain
    BY <1>6, <1>11, <2>1
  <2>. QED  BY <2>3, <2>4
<1>. HIDE DEF p
<1>13. e \in Word /\ e # Frame("shell_run")
  BY KernelWords DEF Frame
<1>. HIDE DEF e
<1>14. /\ stk' \in Seq(Word) /\ Len(stk') = Len(top) + 23 /\ Len(top) \in Nat
       /\ \A k \in 1..7 : stk'[Len(top) + k] = w[k]
       /\ \A k \in 1..15 : stk'[Len(top) + 7 + k] = p[k]
       /\ ShellsOf(stk') = ShellsOf(top)
  <2>1. Len(w) = 7 /\ Len(p) = 15 /\ \A k \in 1..15 : p[k] \in Plain
    BY <1>8, <1>12
  <2>2. stk' = OnTop(top, w, p, e)
    BY <1>1 DEF OnTop
  <2>3. \A k \in 1..7 : w[k] \in Plain
    BY <1>10
  <2>4. top \in Seq(Word) /\ p \in Seq(Word) /\ w \in Seq(Word) /\ e \in Word
    BY <1>5, <1>9, <1>12, <1>13
  <2>5. FramesOf(stk', top, w, p)
    <3>1. OfAFault(top, w, p, e)
      BY <2>1, <2>3, <2>4, <1>13, Zenon DEF OfAFault
    <3>. QED  BY <3>1, <2>2, FrameOnStack, Zenon
  <2>. QED  BY <2>5, Zenon DEF FramesOf
<1>15. Types'
  <2>1. reg' \in Regs
    <3>1. Other("regs") \in Plain
      BY KernelWords
    <3>. QED  BY <1>0, <1>1, <1>6, <3>1 DEF Types, Regs
  <2>. QED  BY <1>0, <1>1, <1>14, <2>1, KernelWords DEF Types, InUser, Pcs
<1>16. Faulted'
  <2>1. /\ at'.reg = reg /\ at'.rip = rip /\ at'.cs = cs /\ at'.rflags = rflags
    BY <1>1
  <2>2. Len(top) \in Nat /\ Len(stk') \in Nat
    BY <1>14
  <2>3. Len(stk') >= 23 /\ Len(stk') % 2 = 1
    <3>1. \A n \in Nat : n % 2 = 0 => n + 23 >= 23 /\ (n + 23) % 2 = 1
      OBVIOUS
    <3>. QED  BY <1>5, <1>14, <2>2, <3>1
  <2>4. ASSUME NEW k \in 1..15 PROVE stk'[Len(stk') - 16 + k] = at'.reg[IsrPushes[k]]
    <3>1. Len(stk') - 16 + k = Len(top) + 7 + k
      BY <1>14, <2>2
    <3>. QED  BY <3>1, <1>12, <1>14, <2>1
  <2>5. /\ Len(stk') - 16 = Len(top) + 7 /\ Len(stk') - 17 = Len(top) + 6
        /\ Len(stk') - 18 = Len(top) + 5 /\ Len(stk') - 19 = Len(top) + 4
        /\ Len(stk') - 20 = Len(top) + 3 /\ Len(stk') - 21 = Len(top) + 2
    BY <1>14, <2>2
  <2>6. /\ stk'[Len(stk') - 16] = Number(v) /\ stk'[Len(stk') - 17] = err
        /\ stk'[Len(stk') - 18] = rip /\ stk'[Len(stk') - 19] = Number(cs)
        /\ stk'[Len(stk') - 20] = Flags(rflags) /\ stk'[Len(stk') - 21] = reg["rsp"]
    <3>1. /\ stk'[Len(top) + 7] = w[7] /\ stk'[Len(top) + 6] = w[6]
          /\ stk'[Len(top) + 5] = w[5] /\ stk'[Len(top) + 4] = w[4]
          /\ stk'[Len(top) + 3] = w[3] /\ stk'[Len(top) + 2] = w[2]
      <4>1. 2 \in 1..7 /\ 3 \in 1..7 /\ 4 \in 1..7 /\ 5 \in 1..7 /\ 6 \in 1..7 /\ 7 \in 1..7
        OBVIOUS
      <4>. QED  BY <4>1, <1>14, Zenon
    <3>. QED  BY <3>1, <1>8, <2>5, Zenon
  <2>7. err = Number(IF v = 14 /\ at'.cs = USER_CODE_SELECTOR THEN 4 ELSE 0)
    BY <1>2, <2>1 DEF USER_CODE_SELECTOR, KERNEL_CODE_SELECTOR
  <2>8. at'.cs \in {USER_CODE_SELECTOR, KERNEL_CODE_SELECTOR} /\ at'.reg \in Regs
    BY <1>0, <1>2, <2>1 DEF Types
  <2>9. at' = [reg |-> at'.reg, rip |-> at'.rip, cs |-> at'.cs, rflags |-> at'.rflags]
    BY <1>1
  <2>. QED  BY <1>1, <2>1, <2>3, <2>4, <2>6, <2>7, <2>8, <2>9 DEF Faulted
<1>17. OnStack'
  <2>1. Shells' = ShellsOf(from) /\ Shells = ShellsOf(stk)
    BY <1>5, <1>14 DEF Shells, ShellsOf
  <2>2. at'.cs = USER_CODE_SELECTOR => InUser
    BY <1>1, <1>2 DEF USER_CODE_SELECTOR, KERNEL_CODE_SELECTOR
  <2>. QED  BY <1>0, <1>1, <1>4, <2>1, <2>2 DEF OnStack
<1>. QED  BY <1>1, <1>15, <1>16, <1>17 DEF EntryInv, Calling

LEMMA ResetStep == ASSUME EntryInv, NEW v \in Vectors, Reset(v) PROVE EntryInv'
<1>1. /\ InUser \/ pc \in {"handler", "shell"}
      /\ pc' = "reset" /\ UNCHANGED <<reg, rip, cs, rflags, area, stk, saved, at>>
  BY DEF Reset, cpu
<1>2. Types'
  BY <1>1 DEF EntryInv, Types, InUser, Pcs
<1>3. OnStack'
  BY <1>1 DEF EntryInv, OnStack, Shells
<1>. QED  BY <1>1, <1>2, <1>3 DEF EntryInv, Calling, Faulted

\* Where the struct has a field, counted from the handler's return address.
LEMMA FieldAt == \A k \in 1..22 : Field(Registers[k]) = stk[Len(stk) - k]
BY FieldPlaces, Zenon DEF Field

LEMMA FieldsSeen ==
  ASSUME Types, Faulted, pc = "isr"
  PROVE  /\ \A r \in R : Field(r) = at.reg[r]
         /\ Field("rip") = at.rip /\ Field("rflags") = Flags(at.rflags)
         /\ UserFault <=> at.cs = USER_CODE_SELECTOR
<1>1. /\ at.reg \in Regs /\ at.cs \in {USER_CODE_SELECTOR, KERNEL_CODE_SELECTOR}
      /\ Len(stk) >= 23
      /\ \A k \in 1..15 : stk[Len(stk) - 16 + k] = at.reg[IsrPushes[k]]
      /\ stk[Len(stk) - 18] = at.rip /\ stk[Len(stk) - 19] = Number(at.cs)
      /\ stk[Len(stk) - 20] = Flags(at.rflags) /\ stk[Len(stk) - 21] = at.reg["rsp"]
  BY DEF Faulted
<1>2. PICK v \in Gates :
        /\ stk[Len(stk) - 16] = Number(v)
        /\ stk[Len(stk) - 17] = Number(IF v = 14 /\ at.cs = USER_CODE_SELECTOR THEN 4 ELSE 0)
  BY DEF Faulted
<1>3. Len(stk) \in Nat
  BY DEF Types
<1>4. /\ Registers[16] = "int_no" /\ Registers[17] = "err_code" /\ Registers[18] = "rip"
      /\ Registers[19] = "cs" /\ Registers[20] = "rflags" /\ Registers[21] = "rsp"
  BY DEF Registers
<1>5. /\ Field("int_no") = stk[Len(stk) - 16] /\ Field("err_code") = stk[Len(stk) - 17]
      /\ Field("rip") = stk[Len(stk) - 18] /\ Field("cs") = stk[Len(stk) - 19]
      /\ Field("rflags") = stk[Len(stk) - 20] /\ Field("rsp") = stk[Len(stk) - 21]
  <2>1. 16 \in 1..22 /\ 17 \in 1..22 /\ 18 \in 1..22 /\ 19 \in 1..22 /\ 20 \in 1..22 /\ 21 \in 1..22
    OBVIOUS
  <2>. QED  BY <1>4, <2>1, FieldAt, Zenon
<1>6. \A r \in GPR : Field(r) = at.reg[r]
  <2> SUFFICES ASSUME NEW r \in GPR PROVE Field(r) = at.reg[r]
    OBVIOUS
  <2>1. \E k \in 1..15 : IsrPushes[k] = r
    <3>1. /\ IsrPushes[1] = "rax" /\ IsrPushes[2] = "rbx" /\ IsrPushes[3] = "rcx"
          /\ IsrPushes[4] = "rdx" /\ IsrPushes[5] = "rbp" /\ IsrPushes[6] = "rdi"
          /\ IsrPushes[7] = "rsi" /\ IsrPushes[8] = "r8" /\ IsrPushes[9] = "r9"
          /\ IsrPushes[10] = "r10" /\ IsrPushes[11] = "r11" /\ IsrPushes[12] = "r12"
          /\ IsrPushes[13] = "r13" /\ IsrPushes[14] = "r14" /\ IsrPushes[15] = "r15"
      BY DEF IsrPushes
    <3>. QED  BY <3>1 DEF GPR
  <2>2. PICK k \in 1..15 : IsrPushes[k] = r
    BY <2>1
  <2>3. \A j \in 1..15 : Registers[16 - j] = IsrPushes[j]
    <3>1. \A j \in 1..15 : j \in {1, 2, 3, 4, 5, 6, 7, 8, 9, 10, 11, 12, 13, 14, 15}
      OBVIOUS
    <3>. QED  BY <3>1 DEF Registers, IsrPushes
  <2>4. 16 - k \in 1..22 /\ Len(stk) - (16 - k) = Len(stk) - 16 + k
    BY <1>3
  <2>. QED  BY <1>1, <2>2, <2>3, <2>4, FieldAt
<1>7. Field("rsp") = at.reg["rsp"]
  BY <1>1, <1>5
<1>8. UserFault <=> at.cs = USER_CODE_SELECTOR
  <2>1. \A m, n : Number(m) = Number(n) => m = n
    BY DEF Number
  <2>2. v \in {13, 14} /\ at.cs \in {27, 8}
    BY <1>1 DEF Gates, USER_CODE_SELECTOR, KERNEL_CODE_SELECTOR
  <2>3. CASE v = 14
    <3>1. UserFault <=> Field("err_code") = Number(4)
      BY <1>2, <1>5, <2>3 DEF UserFault
    <3>2. CASE at.cs = USER_CODE_SELECTOR
      BY <3>1, <3>2, <1>2, <1>5, <2>3
    <3>3. CASE at.cs # USER_CODE_SELECTOR
      <4>1. Field("err_code") = Number(0)
        BY <3>3, <1>2, <1>5
      <4>2. Number(0) # Number(4)
        BY <2>1
      <4>. QED  BY <3>1, <3>3, <4>1, <4>2
    <3>. QED  BY <3>2, <3>3
  <2>4. CASE v = 13
    <3>1. Number(13) # Number(14)
      BY <2>1
    <3>2. UserFault <=> Field("cs") = Number(USER_CODE_SELECTOR)
      BY <1>2, <1>5, <2>4, <3>1 DEF UserFault
    <3>. QED  BY <3>2, <1>1, <1>5, <2>1, ZenonT(40)
  <2>. QED  BY <2>2, <2>3, <2>4
<1>. QED  BY <1>1, <1>5, <1>6, <1>7, <1>8 DEF R

LEMMA IsrStep == ASSUME EntryInv, isr_handler PROVE EntryInv'
<1>0. Types /\ OnStack /\ Faulted
  BY DEF EntryInv
<1>1. pc = "isr" /\ at' = None /\ UNCHANGED <<cs, area, saved>>
  BY DEF isr_handler
<1>2. UserFault <=> at.cs = USER_CODE_SELECTOR
  BY <1>0, <1>1, FieldsSeen
<1>3. cs = KERNEL_CODE_SELECTOR
  BY <1>0, <1>1 DEF Types, InUser
<1>4. CASE UserFault
  <2>1. /\ pc' = "shell" /\ stk' = Append(stk, Frame("shell_run"))
        /\ rflags' = rflags \cup {"IF"} /\ rip' = Code("shell_run")
        /\ reg' = [r \in GPR \cup {"rsp"} |-> Other("kernel")]
    BY <1>4 DEF isr_handler
  <2>2. Frame("shell_run") \in Word /\ Code("shell_run") \in Plain /\ Other("kernel") \in Plain
    BY KernelWords
  <2>3. reg' \in Regs
    BY <2>1, <2>2 DEF Regs, R
  <2>4. stk \in Seq(Word) /\ \A k \in 1..Len(stk) : stk[k] # Frame("shell_run")
    BY <1>0, <1>1, <1>2, <1>4 DEF Types, OnStack, Shells
  <2>5. /\ stk' \in Seq(Word) /\ DOMAIN stk' = 1..Len(stk) + 1 /\ Len(stk) \in Nat
        /\ \A k \in 1..Len(stk) : stk'[k] = stk[k]
        /\ stk'[Len(stk) + 1] = Frame("shell_run")
    <3>1. \A s \in Seq(Word), e \in Word :
            /\ Append(s, e) \in Seq(Word) /\ DOMAIN Append(s, e) = 1..Len(s) + 1 /\ Len(s) \in Nat
            /\ \A k \in 1..Len(s) : Append(s, e)[k] = s[k]
            /\ Append(s, e)[Len(s) + 1] = e
      OBVIOUS
    <3>. QED  BY <2>1, <2>2, <2>4, <3>1, Zenon
  <2>6. Shells' = {Len(stk) + 1}
    <3>1. \A k : k \in 1..Len(stk) + 1 <=> k \in 1..Len(stk) \/ k = Len(stk) + 1
      BY <2>5
    <3>2. \A k : k \in Shells' <=> k \in DOMAIN stk' /\ stk'[k] = Frame("shell_run")
      BY DEF Shells
    <3>. QED  BY <2>4, <2>5, <3>1, <3>2
  <2>7. Types'
    BY <1>0, <1>1, <1>3, <2>1, <2>2, <2>3, <2>5 DEF Types, Pcs, InUser, FlagSet
  <2>8. OnStack'
    BY <2>1, <2>6 DEF OnStack
  <2>. QED  BY <2>1, <2>7, <2>8 DEF EntryInv, Calling, Faulted
<1>5. CASE ~ UserFault
  <2>1. pc' = "halted" /\ UNCHANGED <<stk, rflags, rip, reg>>
    BY <1>5 DEF isr_handler
  <2>2. Types'
    BY <1>0, <1>1, <1>3, <2>1 DEF Types, Pcs, InUser
  <2>3. OnStack'
    BY <1>0, <2>1 DEF OnStack, Shells
  <2>. QED  BY <2>1, <2>2, <2>3 DEF EntryInv, Calling, Faulted
<1>. QED  BY <1>4, <1>5
-----------------------------------------------------------------------------
LEMMA EntryStep == EntryInv /\ [Next]_vars => EntryInv'
<1> SUFFICES ASSUME EntryInv, [Next]_vars PROVE EntryInv'
  OBVIOUS
<1>1. CASE jmp_usermode
  BY <1>1, StartStep
<1>2. CASE Compute
  BY <1>2, ComputeStep
<1>3. CASE CallStub \/ Stub
  BY <1>3, CallStep
<1>4. CASE syscall_asm_entry
  BY <1>4, EnterStep
<1>5. CASE syscall
  BY <1>5, HandlerStep
<1>6. CASE Leave
  BY <1>6, LeaveStep
<1>7. CASE Return
  BY <1>7, ReturnStep
<1>8. CASE \E v \in Vectors : Fault(v) \/ Reset(v)
  BY <1>8, FaultStep, ResetStep
<1>9. CASE isr_handler
  BY <1>9, IsrStep
<1>10. CASE UNCHANGED vars
  <2>1. UNCHANGED <<pc, reg, rip, cs, rflags, area, stk, saved, at>>
    BY <1>10 DEF vars, cpu
  <2>2. Types'
    BY <2>1 DEF EntryInv, Types, InUser
  <2>3. Calling'
    BY <2>1 DEF EntryInv, Calling, Caller, Kept
  <2>4. Faulted'
    BY <2>1 DEF EntryInv, Faulted
  <2>5. OnStack'
    BY <2>1 DEF EntryInv, OnStack, Shells
  <2>. QED  BY <2>2, <2>3, <2>4, <2>5 DEF EntryInv
<1>. QED
  BY <1>1, <1>2, <1>3, <1>4, <1>5, <1>6, <1>7, <1>8, <1>9, <1>10 DEF Next

LEMMA EntryInvHolds == Spec => []EntryInv
BY EntryInit, EntryStep, PTL DEF Spec

\* Through the library's shuffle and the entry's, the number and the arguments
\* of _syscall reach syscall(), which runs with interrupts and the direction
\* flag off and an aligned stack, whatever the program computed.
THEOREM Arguments == Spec => []ArgumentsArrive
<1>1. EntryInv => ArgumentsArrive
  <2> SUFFICES ASSUME EntryInv PROVE ArgumentsArrive
    OBVIOUS
  <2>1. DOMAIN ArgRegs = 1..6
    BY DEF ArgRegs
  <2>2. pc = "handler" => /\ \A k \in 1..6 : reg[ArgRegs[k]] = at.reg[ArgRegs[k]]
                          /\ rflags \cap FlagSet = {}
                          /\ Len(stk) = 7
    BY DEF EntryInv, Calling, Kept
  <2>3. pc = "isr" => Len(stk) % 2 = 1
    BY DEF EntryInv, Faulted
  <2>4. pc \in {"handler", "isr"} => Len(stk) % 2 = 1
    <3>1. 7 % 2 = 1
      OBVIOUS
    <3>. QED  BY <2>2, <2>3, <3>1
  <2>5. pc = "handler" => /\ \A k \in DOMAIN ArgRegs : reg[ArgRegs[k]] = at.reg[ArgRegs[k]]
                          /\ rflags \cap {"IF", "DF", "TF"} = {}
    BY <2>1, <2>2 DEF FlagSet
  <2>. QED  BY <2>4, <2>5, Zenon DEF ArgumentsArrive
<1>. QED  BY <1>1, EntryInvHolds, PTL

\* After a system call the program has its preserved registers, stack, flags
\* and place, and the result; sys_fork is given the same.
THEOREM CallsPreserve == Spec => []CallPreserves
<1>1. EntryInv => CallPreserves
  <2> SUFFICES ASSUME EntryInv PROVE CallPreserves
    OBVIOUS
  <2>1. ASSUME pc = "handler"
        PROVE  /\ ForkContext["rsp"] = at.reg["rsp"] /\ ForkContext["rip"] = at.rip
               /\ ForkContext["rflags"] = Flags(at.rflags)
    <3>1. /\ saved = [rsp |-> at.reg["rsp"], rip |-> Code("ret"), rflags |-> Flags(at.rflags)]
          /\ at = [reg |-> at.reg, rip |-> Code("ret"), cs |-> USER_CODE_SELECTOR,
                   rflags |-> at.rflags]
      BY <2>1 DEF EntryInv, Calling, Kept, Caller
    <3>2. /\ DOMAIN saved = {"rsp", "rip", "rflags"} /\ at.rip = Code("ret")
          /\ saved["rsp"] = at.reg["rsp"] /\ saved["rip"] = Code("ret")
          /\ saved["rflags"] = Flags(at.rflags)
      BY <3>1
    <3>3. \A r \in {"rsp", "rip", "rflags"} : ForkContext[r] = saved[r]
      BY <3>2 DEF ForkContext
    <3>. QED  BY <3>2, <3>3
  <2>2. pc = "back" => /\ \A r \in CalleeSaved \cup {"rsp"} : reg[r] = at.reg[r]
                       /\ rip = at.rip /\ cs = at.cs /\ rflags = at.rflags
                       /\ reg["rax"] = Other("result")
    BY DEF EntryInv, Calling
  <2>. QED  BY <2>1, <2>2 DEF CallPreserves
<1>. QED  BY <1>1, EntryInvHolds, PTL

\* What isr_handler reads of the struct is what the processor and the stub put
\* there, so a fault is taken for a program's exactly if it is one.
THEOREM FaultsAreSeen == Spec => []FaultSeen
<1>1. EntryInv => FaultSeen
  BY FieldsSeen DEF EntryInv, FaultSeen, R
<1>. QED  BY <1>1, EntryInvHolds, PTL

\* However many programs have failed, the stack has one shell at most, and has
\* one while a shell runs.
THEOREM OneShellHolds == Spec => []OneShell
<1>1. EntryInv => OneShell
  <2> SUFFICES ASSUME EntryInv PROVE OneShell
    OBVIOUS
  <2>1. TypeOK
    <3>1. DOMAIN reg = GPR \cup {"rsp"}
      BY DEF EntryInv, Types, Regs, R
    <3>2. rflags \subseteq {"IF", "DF", "TF"}
      BY DEF EntryInv, Types, FlagSet
    <3>. QED  BY <3>1, <3>2 DEF EntryInv, Types, TypeOK, Pcs
  <2>2. (\A j, k \in Shells : j = k) /\ (pc = "shell" => Shells # {})
    BY DEF EntryInv, OnStack
  <2>3. Cardinality(Shells) <= 1
    <3>1. CASE Shells = {}
      BY <3>1, FS_EmptySet
    <3>2. CASE Shells # {}
      <4>1. PICK k : Shells = {k}
        BY <2>2, <3>2
      <4>2. Cardinality({k}) = 1
        BY FS_Singleton
      <4>. QED  BY <4>1, <4>2
    <3>. QED  BY <3>1, <3>2
  <2>. QED  BY <2>1, <2>2, <2>3 DEF OneShell, Shells
<1>. QED  BY <1>1, EntryInvHolds, PTL
=============================================================================
