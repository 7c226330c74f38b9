-------------------------- MODULE ProcMemoryProofs --------------------------
(***************************************************************************)
(* Proofs that the page tables built by exec_elf and sys_fork never share  *)
(* a frame, that CR3 always holds tables fit for what is running, and that *)
(* a frame is freed only while nothing refers to it, for every set of      *)
(* programs, amount of memory and size of table.                           *)
(***************************************************************************)
EXTENDS ProcMemory, TLAPS, WellFoundedInduction

(***************************************************************************)
(* The circular scan, for every bitmap and every start of it.              *)
(***************************************************************************)

\* Every frame below max_bits is probed by one of the max_bits iterations.
LEMMA ProbeCovers ==
  ASSUME NEW n \in Nat, NEW l \in 0..n, NEW f \in 0..(n - 1)
  PROVE  \E j \in 0..(n - 1) : Probe(n, l, j) = f
<1>0. n \in Nat \ {0}
  OBVIOUS
<1>1. CASE l <= f
  <2>1. f - l \in 0..(n - 1) /\ l + (f - l) = f
    BY <1>1
  <2>2. f % n = f
    BY <1>0
  <2>. QED  BY <2>1, <2>2 DEF Probe
<1>2. CASE l > f
  <2>1. f + n - l \in 0..(n - 1) /\ l + (f + n - l) = f + n
    BY <1>2
  <2>2. (f + n) % n = f
    BY <1>0
  <2>. QED  BY <2>1, <2>2 DEF Probe
<1>. QED  BY <1>1, <1>2

\* A non-empty set of naturals has a least element.
LEMMA LeastNat ==
  ASSUME NEW S \in SUBSET Nat, S # {}
  PROVE  \E m \in S : \A x \in S : m <= x
<1>1. PICK m \in S : \A x \in S : ~ (<<x, m>> \in OpToRel(<, Nat))
  BY WFMin, NatLessThanWellFounded
<1>2. \A x \in S : ~ (x < m)
  BY <1>1 DEF OpToRel
<1>. QED  BY <1>2

\* NextFit is NULL only when no frame is available, and otherwise is an
\* available frame.
LEMMA NextFitAvailable ==
  ASSUME NEW n \in Nat \ {0}, NEW low \in Nat \ {0}, NEW marked,
         NEW from \in 0..n
  PROVE  LET f == NextFit(n, low, marked, from)
         IN  /\ f = NULL <=> Available(n, low, marked) = {}
             /\ f # NULL => f \in Available(n, low, marked)
<1>. DEFINE A == Available(n, low, marked)
            P(k) == /\ Probe(n, from, k) \in A
                    /\ \A j \in 0..(k - 1) : Probe(n, from, j) \notin A
            S == {k \in 0..(n - 1) : Probe(n, from, k) \in A}
<1>1. A \subseteq 0..(n - 1) /\ NULL \notin A
  BY DEF Available, NULL
<1>2. CASE A = {}
  BY <1>2 DEF NextFit
<1>3. CASE A # {}
  <2>. HIDE DEF A
  <2>1. PICK f \in A : TRUE
    BY <1>3
  <2>2. PICK j \in 0..(n - 1) : Probe(n, from, j) = f
    BY <1>1, <2>1, ProbeCovers
  <2>3. S \in SUBSET Nat /\ S # {}
    BY <2>1, <2>2
  <2>4. PICK m \in S : \A x \in S : m <= x
    <3>. HIDE DEF S
    <3>. QED  BY <2>3, LeastNat
  <2>5. m \in 0..(n - 1) /\ P(m)
    <3>1. \A k \in 0..(m - 1) : k \in 0..(n - 1) /\ ~ (m <= k)
      BY <2>4
    <3>. QED  BY <2>4, <3>1
  <2>. DEFINE k == CHOOSE k \in 0..(n - 1) : P(k)
  <2>6. k \in 0..(n - 1) /\ P(k)
    BY <2>5
  <2>7. NextFit(n, low, marked, from) = Probe(n, from, k)
    BY <1>3 DEF NextFit, A
  <2>8. Probe(n, from, k) \in A
    <3>. HIDE DEF k
    <3>. QED  BY <2>6
  <2>. QED  BY <1>1, <1>3, <2>7, <2>8 DEF A
<1>. QED  BY <1>2, <1>3

USE FramesAssumption, TablesAssumption

(***************************************************************************)
(* The inductive invariant.                                                *)
(***************************************************************************)

\* The frame about to be mapped is nobody else's.
Flight ==
  Mapping => /\ frame \in used \ Reserved
             /\ level[frame] = 0
             /\ \A t \in Tables, k \in Idx : Link(t, k) => Target(t, k) # frame
             /\ "P" \in flags

\* vmm_map_page stands at a table of the level it is looking for, and the
\* page it maps is in the lower half.
Walking == Mapping => level[node] = lvl /\ LowHalf(va)

Counters ==
  /\ pc = "map_stack" => va <= StackTop
  /\ pc = "map_fork" => va < UserEnd

\* The kernel's table never changes, and each space has its upper half.
KernelShared ==
  /\ Reserved \subseteq used
  /\ tbl[KernelPml4] = KernelTable
  /\ \A s \in Spaces : \A k \in Idx : k >= KernelHalf => tbl[s][k] = KernelTable[k]

Running ==
  /\ IF pc \in {"user", "fork", "map_fork", "halted"}
     THEN cr3 \in Spaces ELSE cr3 = KernelPml4
  /\ pc \in {"segment", "map_segment", "fill", "stack", "map_stack"} =>
       space \in Spaces
  /\ pc \in {"fork", "map_fork"} => space \in Spaces \ {cr3}

IInv ==
  /\ TypeOK /\ FramesExclusive /\ Flight /\ Walking /\ Counters
  /\ KernelShared /\ Running

(***************************************************************************)
(* Facts about the operators.                                              *)
(***************************************************************************)
\* Quotient and remainder are unique.
LEMMA DivUnique ==
  ASSUME NEW v \in Nat, NEW a \in Nat \ {0}, NEW q \in Nat, NEW r \in Nat,
         v = a * q + r, r < a
  PROVE  v \div a = q /\ v % a = r
<1>1. v = a * (v \div a) + (v % a) /\ v \div a \in Nat /\ v % a \in 0..(a - 1)
  OBVIOUS
<1>. DEFINE p == v \div a
            s == v % a
<1>2. a * p + s = a * q + r /\ p \in Nat /\ s \in Nat /\ s < a
  BY <1>1
<1>. HIDE DEF p, s
<1>3. p = q
  <2>1. CASE p < q
    <3>1. a * q >= a * (p + 1)
      BY <1>2, <2>1
    <3>2. a * (p + 1) = a * p + a
      BY <1>2
    <3>. QED  BY <3>1, <3>2, <1>2
  <2>2. CASE p > q
    <3>1. a * p >= a * (q + 1)
      BY <1>2, <2>2
    <3>2. a * (q + 1) = a * q + a
      BY <1>2
    <3>. QED  BY <3>1, <3>2, <1>2
  <2>. QED  BY <1>2, <2>1, <2>2
<1>4. s = r
  BY <1>2, <1>3
<1>. QED  BY <1>3, <1>4 DEF p, s

\* Dividing twice is dividing by the product.
LEMMA DivDiv ==
  ASSUME NEW v \in Nat, NEW a \in Nat \ {0}, NEW b \in Nat \ {0}
  PROVE  v \div (a * b) = (v \div a) \div b
<1>. DEFINE q == v \div a
            r == v % a
            p == q \div b
            s == q % b
<1>1. v = a * q + r /\ q \in Nat /\ r \in 0..(a - 1)
  OBVIOUS
<1>. HIDE DEF q
<1>2. q = b * p + s /\ p \in Nat /\ s \in 0..(b - 1)
  BY <1>1
<1>. HIDE DEF r, p, s
<1>3. a * s \in Nat /\ a * s <= a * (b - 1)
  BY <1>2
<1>4. a * (b - 1) = a * b - a /\ a * b \in Nat \ {0}
  <2>1. a * b # 0
    OBVIOUS
  <2>. QED  BY <2>1
<1>5. a * s + r < a * b /\ a * s + r \in Nat
  BY <1>1, <1>3, <1>4
<1>6. v = (a * b) * p + (a * s + r)
  <2>1. a * (b * p + s) = (a * b) * p + a * s
    BY <1>2
  <2>. QED  BY <1>1, <1>2, <2>1
<1>7. v \div (a * b) = p
  <2>. DEFINE c == a * b
              t == a * s + r
  <2>1. c \in Nat \ {0} /\ t \in Nat /\ t < c /\ v = c * p + t
    BY <1>4, <1>5, <1>6
  <2>. HIDE DEF c, t
  <2>2. v \div c = p
    BY <2>1, <1>2, DivUnique
  <2>. QED  BY <2>2 DEF c
<1>. QED  BY <1>7 DEF p, q

LEMMA SpanType ==
  ASSUME NEW l \in 1..4
  PROVE  Span(l) \in Nat \ {0}
<1>1. \A a, b \in Nat \ {0} : a * b \in Nat \ {0}
  OBVIOUS
<1>2. NIdx \in Nat \ {0}
  OBVIOUS
<1>3. NIdx * NIdx \in Nat \ {0}
  BY <1>1, <1>2
<1>4. NIdx * NIdx * NIdx \in Nat \ {0}
  BY <1>1, <1>2, <1>3
<1>. QED  BY <1>2, <1>3, <1>4 DEF Span

LEMMA IndexType ==
  ASSUME NEW v \in Nat, NEW l \in 1..4
  PROVE  Index(v, l) \in Idx
<1>. DEFINE q == v \div Span(l)
<1>1. q \in Nat
  BY SpanType
<1>2. q % NIdx \in 0..(NIdx - 1)
  <2>. HIDE DEF q
  <2>. QED  BY <1>1
<1>. QED  BY <1>2 DEF Index, Idx

\* The PML4 entry of a page of the lower half is one of the lower half.
LEMMA LowIndex ==
  ASSUME NEW v \in Nat, LowHalf(v)
  PROVE  /\ Index(v, 4) = v \div Span(4) /\ Index(v, 4) < KernelHalf
         /\ v \div Span(4) \in Nat
<1>. DEFINE q == v \div Span(4)
<1>1. Span(4) \in Nat \ {0}
  BY SpanType
<1>2. q \in Nat /\ q < KernelHalf
  BY <1>1 DEF LowHalf
<1>. HIDE DEF q
<1>3. q % NIdx = q
  BY <1>2
<1>. QED  BY <1>2, <1>3 DEF Index, q

LEMMA EntryTypes ==
  /\ NoEntry \in Entry /\ ~ Present(NoEntry)
  /\ GarbageEntry \in Entry
  /\ KernelTable \in [Idx -> Entry]
  /\ KernelPml4 \in Frame
<1>1. NoEntry \in Entry /\ ~ Present(NoEntry)
  BY DEF NoEntry, Entry, Present, Frame, Flag
<1>2. KernelPml4 \in Frame
  BY DEF Frame
<1>3. GarbageEntry \in Entry
  BY <1>2 DEF GarbageEntry, Entry, Flag
<1>. QED  BY <1>1, <1>2, <1>3 DEF KernelTable

\* A frame that pmm_alloc_frame returns was free, so it is no table, no
\* target and not the page being mapped.
LEMMA Fresh ==
  ASSUME TypeOK, FramesExclusive, Reserved \subseteq used,
         NEW f, Allocate(f)
  PROVE  /\ f \in Frame /\ f # 0 /\ f \notin used
         /\ used' = used \cup {f} /\ last' = f + 1 /\ last' \in 0..NFrames
         /\ level[f] = 0
         /\ f # KernelPml4
         /\ f \notin Tables
         /\ \A t \in Tables, k \in Idx : Link(t, k) => Target(t, k) # f
<1>1. f \in Available(NFrames, LowFrames, used) /\ f # NULL
  BY NextFitAvailable DEF Allocate, Fit, TypeOK
<1>2. f \in Frame /\ f \notin used /\ f # 0 /\ f + 1 \in 0..NFrames
  BY <1>1 DEF Available, Frame, NULL
<1>3. f \notin Tables
  BY <1>2 DEF FramesExclusive
<1>4. level[f] = 0
  BY <1>2, <1>3 DEF Tables, TypeOK
<1>5. \A t \in Tables, k \in Idx : Link(t, k) => Target(t, k) # f
  BY <1>2 DEF FramesExclusive
<1>. QED  BY <1>2, <1>3, <1>4, <1>5 DEF Allocate

\* Steps that change no table and free no frame keep the facts about them.
LEMMA TablesKept ==
  ASSUME FramesExclusive, KernelShared, UNCHANGED <<tbl, level>>,
         used \subseteq used'
  PROVE  /\ FramesExclusive' /\ KernelShared'
         /\ Spaces' = Spaces /\ Tables' = Tables
         /\ \A t, k : Link(t, k)' = Link(t, k)
         /\ \A t, k : Target(t, k)' = Target(t, k)
<1>1. Spaces' = Spaces /\ Tables' = Tables
  BY DEF Spaces, Tables
<1>2. \A t, k : Link(t, k)' = Link(t, k) /\ Target(t, k)' = Target(t, k)
  BY <1>1 DEF Link, Target
<1>3. FramesExclusive'
  <2>1. Tables \subseteq used' \ Reserved
    BY DEF FramesExclusive
  <2>2. \A t \in Tables, k \in Idx : Link(t, k) => Target(t, k) \in used' \ Reserved
    BY DEF FramesExclusive
  <2>. QED  BY <2>1, <2>2, <1>1, <1>2 DEF FramesExclusive
<1>4. KernelShared'
  BY <1>1 DEF KernelShared
<1>. QED  BY <1>1, <1>2, <1>3, <1>4

LEMMA InitIInv == Init => IInv
<1>. SUFFICES ASSUME Init PROVE IInv
  OBVIOUS
<1>1. TypeOK
  <2>1. tbl \in [Frame -> [Idx -> Entry]]
    BY EntryTypes DEF Init
  <2>2. 0 \in Frame
    BY DEF Frame
  <2>. QED  BY <2>1, <2>2, EntryTypes DEF Init, TypeOK, NULL, Frame
<1>2. Tables = {} /\ Spaces = {}
  BY DEF Init, Tables, Spaces
<1>3. FramesExclusive /\ KernelShared
  BY <1>2, EntryTypes DEF Init, FramesExclusive, KernelShared
<1>4. ~ Mapping
  BY DEF Init, Mapping
<1>. QED  BY <1>1, <1>3, <1>4 DEF Init, IInv, Flight, Walking, Counters, Running

(***************************************************************************)
(* Steps that change tables.                                               *)
(***************************************************************************)

\* vmm_create_address_space adds a PML4 without links.
LEMMA CreateStep ==
  ASSUME IInv, NEW f \in Frame, Create(f)
  PROVE  /\ f \notin Spaces /\ f # KernelPml4 /\ space' = f
         /\ used' = used \cup {f} /\ last' \in 0..NFrames
         /\ tbl' \in [Frame -> [Idx -> Entry]] /\ level' \in [Frame -> 0..4]
         /\ Spaces' = Spaces \cup {f}
         /\ FramesExclusive' /\ KernelShared'
<1>. USE DEF IInv
<1>1. /\ f # 0 /\ f \notin used
      /\ used' = used \cup {f} /\ last' \in 0..NFrames
      /\ level[f] = 0 /\ f # KernelPml4 /\ f \notin Tables
  BY Fresh DEF Create, KernelShared
<1>2. /\ tbl' = [tbl EXCEPT ![f] = NewPml4]
      /\ level' = [level EXCEPT ![f] = 4]
      /\ space' = f
  BY DEF Create
<1>3. NewPml4 \in [Idx -> Entry]
  BY EntryTypes DEF NewPml4, TypeOK
<1>4. tbl' \in [Frame -> [Idx -> Entry]] /\ level' \in [Frame -> 0..4]
  BY <1>2, <1>3 DEF TypeOK
<1>5. \A k \in Idx : k < KernelHalf => ~ Present(NewPml4[k])
  BY EntryTypes DEF NewPml4, Idx
<1>6. \A k \in Idx : k >= KernelHalf => NewPml4[k] = KernelTable[k]
  <2>1. tbl[KernelPml4] = KernelTable
    BY DEF KernelShared
  <2>2. \A k \in Idx : Present(KernelTable[k]) \/ KernelTable[k] = NoEntry
    BY DEF KernelTable, GarbageEntry, Present
  <2>. QED  BY <2>1, <2>2 DEF NewPml4
<1>7. /\ Tables' = Tables \cup {f} /\ Spaces' = Spaces \cup {f}
      /\ f \notin Spaces
      /\ \A t \in Tables : t \in Frame /\ tbl'[t] = tbl[t] /\ level'[t] = level[t]
  BY <1>1, <1>2 DEF Tables, Spaces, TypeOK
<1>8. \A k : ~ Link(f, k)'
  <2>1. tbl'[f] = NewPml4 /\ level'[f] = 4
    BY <1>2 DEF TypeOK
  <2>. QED  BY <2>1, <1>5 DEF Link
<1>9. \A t \in Tables, k \in Idx :
         Link(t, k)' = Link(t, k) /\ Target(t, k)' = Target(t, k)
  BY <1>7 DEF Link, Target
<1>10. FramesExclusive'
  <2>1. \A t, u \in Tables', j, k \in Idx :
          Link(t, j)' /\ Link(u, k)' /\ Target(t, j)' = Target(u, k)'
            => t = u /\ j = k
    BY <1>7, <1>8, <1>9 DEF FramesExclusive
  <2>2. \A t \in Tables', k \in Idx :
          Link(t, k)' => /\ Target(t, k)' \in used' \ Reserved
                         /\ level'[Target(t, k)'] = level'[t] - 1
    <3>. SUFFICES ASSUME NEW t \in Tables, NEW k \in Idx, Link(t, k)
                  PROVE  /\ Target(t, k) \in used' \ Reserved
                         /\ level'[Target(t, k)] = level'[t] - 1
      BY <1>7, <1>8, <1>9
    <3>1. /\ Target(t, k) \in used \ Reserved /\ Target(t, k) \in Frame
          /\ level[Target(t, k)] = level[t] - 1
      BY DEF FramesExclusive, TypeOK
    <3>2. level'[Target(t, k)] = level[Target(t, k)]
      BY <3>1, <1>1, <1>2 DEF TypeOK
    <3>. QED  BY <3>1, <3>2, <1>1, <1>7
  <2>3. Tables' \subseteq used' \ Reserved
    BY <1>1, <1>7 DEF FramesExclusive, KernelShared
  <2>. QED  BY <2>1, <2>2, <2>3 DEF FramesExclusive
<1>11. KernelShared'
  <2>1. Reserved \subseteq used' /\ tbl'[KernelPml4] = KernelTable
    BY <1>1, <1>2, EntryTypes DEF KernelShared, TypeOK
  <2>2. \A s \in Spaces' : \A k \in Idx :
          k >= KernelHalf => tbl'[s][k] = KernelTable[k]
    BY <1>1, <1>2, <1>6, <1>7 DEF KernelShared, TypeOK, Spaces
  <2>. QED  BY <2>1, <2>2 DEF KernelShared
<1>. QED  BY <1>1, <1>2, <1>4, <1>7, <1>10, <1>11

\* Where vmm_map_page stands, and the entry it looks at.
LEMMA WalkFacts ==
  ASSUME IInv, Mapping
  PROVE  /\ node \in Tables /\ node \in Frame /\ Slot \in Idx
         /\ level[node] = lvl /\ lvl \in 1..4
         /\ node # KernelPml4 /\ node \in used
         /\ lvl = 4 => Slot < KernelHalf
         /\ Present(tbl[node][Slot]) = Link(node, Slot)
<1>. USE DEF IInv
<1>1. node \in Frame /\ level[node] = lvl /\ lvl \in 1..4
  BY DEF TypeOK, Walking
<1>2. Slot \in Idx
  BY <1>1, IndexType DEF Slot, TypeOK
<1>3. node \in Tables
  BY <1>1 DEF Tables
<1>4. node \in used \ Reserved
  BY <1>3 DEF FramesExclusive
<1>5. lvl = 4 => Slot < KernelHalf
  BY LowIndex DEF Walking, Slot, TypeOK
<1>6. Present(tbl[node][Slot]) \in BOOLEAN
  BY DEF Present
<1>. QED  BY <1>1, <1>2, <1>3, <1>4, <1>5, <1>6 DEF Link, Tables

\* Writing the entry that vmm_map_page stands at, with a target that no link
\* has, keeps the tables exclusive.  (g is a new table, or the page itself.)
LEMMA SetEntry ==
  ASSUME IInv, Mapping,
         NEW n, NEW q, n = node, q = Slot,
         NEW g \in Frame, NEW fl \in SUBSET Flag, "P" \in fl,
         tbl' \in [Frame -> [Idx -> Entry]], level' \in [Frame -> 0..4],
         tbl'[n] = [tbl[n] EXCEPT ![q] = [frame |-> g, flags |-> fl]],
         \A t \in Frame \ {g, n} : tbl'[t] = tbl[t],
         \A t \in Frame \ {g} : level'[t] = level[t],
         g \notin Tables,
         \A t \in Tables, k \in Idx : Link(t, k) => Target(t, k) # g,
         used \subseteq used', g \in used', g \notin Reserved,
         level'[g] = lvl - 1,
         \A k \in Idx : level'[g] > 0 => ~ Present(tbl'[g][k])
  PROVE  /\ FramesExclusive' /\ KernelShared' /\ Spaces' = Spaces
         /\ \A t, k : Link(t, k)' => \/ t = n /\ k = q
                                     \/ Link(t, k) /\ Target(t, k)' = Target(t, k)
         /\ Target(n, q)' = g
<1>. USE DEF IInv
<1>1. /\ n \in Tables /\ n \in Frame /\ q \in Idx
      /\ level[n] = lvl /\ lvl \in 1..4
      /\ n # KernelPml4
      /\ lvl = 4 => q < KernelHalf
  BY WalkFacts
<1>2. g # n /\ level'[n] = lvl
  BY <1>1
<1>3. tbl'[n][q] = [frame |-> g, flags |-> fl]
  BY <1>1 DEF TypeOK
<1>4. Target(n, q)' = g
  <2>1. tbl'[n][q].frame = g
    BY <1>3
  <2>. QED  BY <2>1 DEF Target
<1>5. \A t \in Tables' : t = g \/ t \in Tables
  BY DEF Tables
<1>6. \A t, k : Link(t, k)' => \/ t = n /\ k = q
                               \/ /\ Link(t, k) /\ Target(t, k)' = Target(t, k)
                                  /\ level'[t] = level[t] /\ t \in Tables
  <2>. SUFFICES ASSUME NEW t, NEW k, Link(t, k)', ~ (t = n /\ k = q)
                PROVE  /\ Link(t, k) /\ Target(t, k)' = Target(t, k)
                       /\ level'[t] = level[t] /\ t \in Tables
    OBVIOUS
  <2>1. t \in Frame /\ k \in Idx /\ level'[t] > 0 /\ Present(tbl'[t][k])
    BY DEF Link, Tables
  <2>2. t # g
    BY <2>1
  <2>3. t \in Tables /\ level'[t] = level[t]
    BY <2>1, <2>2 DEF Tables
  <2>4. tbl'[t][k] = tbl[t][k]
    <3>1. CASE t = n
      BY <3>1, <2>1, <1>1 DEF TypeOK
    <3>2. CASE t # n
      BY <3>2, <2>1, <2>2
    <3>. QED  BY <3>1, <3>2
  <2>. QED  BY <2>3, <2>4 DEF Link, Target
<1>7. \A t \in Tables, k \in Idx : Link(t, k) => Target(t, k) \in Frame
  BY DEF TypeOK, FramesExclusive
<1>8. FramesExclusive'
  <2>1. ASSUME NEW t \in Tables', NEW u \in Tables', NEW j \in Idx,
               NEW k \in Idx, Link(t, j)', Link(u, k)',
               Target(t, j)' = Target(u, k)'
        PROVE  t = u /\ j = k
    <3>1. CASE t = n /\ j = q
      <4>1. CASE u = n /\ k = q
        BY <3>1, <4>1
      <4>2. CASE ~ (u = n /\ k = q)
        <5>1. Link(u, k) /\ Target(u, k)' = Target(u, k) /\ u \in Tables
          BY <2>1, <4>2, <1>6
        <5>2. Target(u, k) = g
          BY <5>1, <3>1, <2>1, <1>4
        <5>. QED  BY <5>1, <5>2
      <4>. QED  BY <4>1, <4>2
    <3>2. CASE ~ (t = n /\ j = q)
      <4>1. Link(t, j) /\ Target(t, j)' = Target(t, j) /\ t \in Tables
        BY <2>1, <3>2, <1>6
      <4>2. CASE u = n /\ k = q
        <5>1. Target(t, j) = g
          BY <4>1, <4>2, <2>1, <1>4
        <5>. QED  BY <4>1, <5>1
      <4>3. CASE ~ (u = n /\ k = q)
        <5>1. Link(u, k) /\ Target(u, k)' = Target(u, k) /\ u \in Tables
          BY <2>1, <4>3, <1>6
        <5>2. Target(t, j) = Target(u, k)
          BY <2>1, <4>1, <5>1
        <5>. QED  BY <4>1, <5>1, <5>2 DEF FramesExclusive
      <4>. QED  BY <4>2, <4>3
    <3>. QED  BY <3>1, <3>2
  <2>2. ASSUME NEW t \in Tables', NEW k \in Idx, Link(t, k)'
        PROVE  /\ Target(t, k)' \in used' \ Reserved
               /\ level'[Target(t, k)'] = level'[t] - 1
    <3>1. CASE t = n /\ k = q
      BY <3>1, <1>2, <1>4
    <3>2. CASE ~ (t = n /\ k = q)
      <4>1. /\ Link(t, k) /\ Target(t, k)' = Target(t, k)
            /\ level'[t] = level[t] /\ t \in Tables
        BY <2>2, <3>2, <1>6
      <4>2. /\ Target(t, k) \in used \ Reserved
            /\ level[Target(t, k)] = level[t] - 1
            /\ Target(t, k) \in Frame /\ Target(t, k) # g
        BY <4>1, <1>7 DEF FramesExclusive
      <4>. QED  BY <4>1, <4>2
    <3>. QED  BY <3>1, <3>2
  <2>3. Tables' \subseteq used' \ Reserved
    BY <1>5 DEF FramesExclusive
  <2>. QED  BY <2>1, <2>2, <2>3 DEF FramesExclusive
<1>9. Spaces' = Spaces
  <2>1. level[g] = 0
    BY SMTT(30) DEF Tables, TypeOK
  <2>. QED  BY <2>1, <1>1 DEF Spaces
<1>10. KernelShared'
  <2>1. g # KernelPml4 /\ KernelPml4 \in Frame
    BY EntryTypes
  <2>2. Reserved \subseteq used' /\ tbl'[KernelPml4] = KernelTable
    BY <2>1, <1>1 DEF KernelShared
  <2>3. ASSUME NEW s \in Spaces, NEW k \in Idx, k >= KernelHalf
        PROVE  tbl'[s][k] = tbl[s][k]
    <3>1. s \in Frame /\ s # g /\ level[s] = 4
      BY DEF Spaces, Tables
    <3>2. CASE s = n
      <4>1. k # q
        BY <2>3, <3>1, <3>2, <1>1 DEF Idx
      <4>. QED  BY <3>2, <4>1, <1>1 DEF TypeOK
    <3>3. CASE s # n
      BY <3>1, <3>3
    <3>. QED  BY <3>2, <3>3
  <2>. QED  BY <2>2, <2>3, <1>9 DEF KernelShared
<1>. QED  BY <1>4, <1>6, <1>8, <1>9, <1>10

\* A new table is linked at an entry that was empty, and is empty itself.
LEMMA NewTableStep == IInv /\ MapNewTable => IInv'
<1>. SUFFICES ASSUME IInv, MapNewTable,
                     NEW g, g = node', NEW n, n = node, NEW q, q = Slot,
                     NEW w, w = {"P", "W", "U"}
              PROVE  IInv'
  OBVIOUS
<1>. USE DEF IInv
<1>1. /\ Mapping /\ lvl > 1
      /\ Allocate(g)
      /\ tbl' = [tbl EXCEPT ![g] = [k \in Idx |-> NoEntry],
                            ![n][q] = [frame |-> g, flags |-> w]]
      /\ level' = [level EXCEPT ![g] = lvl - 1]
      /\ lvl' = lvl - 1
      /\ UNCHANGED <<data, cr3, pc, prog, seg, off, space, va, frame, flags,
                     next_pid>>
  BY DEF MapNewTable, exec
<1>2. /\ g \in Frame /\ g \notin used
      /\ used' = used \cup {g} /\ last' \in 0..NFrames
      /\ g \notin Tables
      /\ \A t \in Tables, k \in Idx : Link(t, k) => Target(t, k) # g
  BY <1>1, Fresh DEF KernelShared
<1>3. /\ n \in Tables /\ n \in Frame /\ q \in Idx
      /\ lvl \in 1..4 /\ n \in used
  BY <1>1, WalkFacts
<1>4. g # n
  BY <1>2, <1>3
<1>. DEFINE E == [frame |-> g, flags |-> w]
<1>5. E \in Entry
  BY <1>2 DEF Entry, Flag
<1>6. /\ tbl' \in [Frame -> [Idx -> Entry]]
      /\ tbl'[g] = [k \in Idx |-> NoEntry]
      /\ tbl'[n] = [tbl[n] EXCEPT ![q] = E]
      /\ \A t \in Frame \ {g, n} : tbl'[t] = tbl[t]
  <2>1. [k \in Idx |-> NoEntry] \in [Idx -> Entry]
    BY EntryTypes
  <2>2. tbl' = [tbl EXCEPT ![g] = [k \in Idx |-> NoEntry], ![n][q] = E]
    BY <1>1
  <2>. HIDE DEF E
  <2>. QED  BY <1>2, <1>3, <1>4, <1>5, <2>1, <2>2 DEF TypeOK
<1>7. /\ level' \in [Frame -> 0..4] /\ level'[g] = lvl - 1
      /\ \A t \in Frame \ {g} : level'[t] = level[t]
  BY <1>1, <1>2, <1>3 DEF TypeOK
<1>8. TypeOK'
  <2>1. used' \subseteq Frame /\ node' \in Frame /\ lvl' \in 1..4
    BY <1>1, <1>2, <1>3 DEF TypeOK
  <2>. QED  BY <2>1, <1>1, <1>2, <1>6, <1>7 DEF TypeOK
<1>9. g \notin Reserved
  BY <1>2 DEF KernelShared
<1>10. \A k \in Idx : ~ Present(tbl'[g][k])
  BY <1>6, EntryTypes
<1>11. w \in SUBSET Flag /\ "P" \in w
  BY DEF Flag
<1>12. /\ FramesExclusive' /\ KernelShared' /\ Spaces' = Spaces
       /\ \A t, k : Link(t, k)' => \/ t = n /\ k = q
                                   \/ Link(t, k) /\ Target(t, k)' = Target(t, k)
       /\ Target(n, q)' = g
  <2>1. Mapping
    BY <1>1
  <2>2. used \subseteq used' /\ g \in used'
    BY <1>2
  <2>3. \A k \in Idx : level'[g] > 0 => ~ Present(tbl'[g][k])
    BY <1>10
  <2>4. tbl'[n] = [tbl[n] EXCEPT ![q] = [frame |-> g, flags |-> w]]
    BY <1>6
  <2>. HIDE DEF IInv, E
  <2>5. ASSUME NEW fl \in SUBSET Flag, "P" \in fl,
               tbl'[n] = [tbl[n] EXCEPT ![q] = [frame |-> g, flags |-> fl]]
        PROVE  /\ FramesExclusive' /\ KernelShared' /\ Spaces' = Spaces
               /\ \A t, k : Link(t, k)' =>
                    \/ t = n /\ k = q
                    \/ Link(t, k) /\ Target(t, k)' = Target(t, k)
               /\ Target(n, q)' = g
    BY <1>2, <1>3, <1>6, <1>7, <1>9, <2>1, <2>2, <2>3, <2>5, SetEntry
  <2>. QED  BY <2>5, <1>11, <2>4
<1>13. Mapping' = Mapping
  BY <1>1 DEF Mapping
<1>14. Flight'
  <2>1. frame \in Frame /\ frame \in used \ Reserved /\ level[frame] = 0
        /\ "P" \in flags
    BY <1>1 DEF Flight, TypeOK
  <2>2. level'[frame] = 0
    BY <2>1, <1>2, <1>7
  <2>3. \A t, k : Link(t, k)' => Target(t, k)' # frame
    <3>. SUFFICES ASSUME NEW t, NEW k, Link(t, k)'
                  PROVE  Target(t, k)' # frame
      OBVIOUS
    <3>1. CASE t = n /\ k = q
      BY <3>1, <1>2, <1>12, <2>1
    <3>2. CASE Link(t, k) /\ Target(t, k)' = Target(t, k)
      BY <3>2, <1>1 DEF Flight, Link, Tables
    <3>. QED  BY <3>1, <3>2, <1>12
  <2>. QED  BY <2>1, <2>2, <2>3, <1>1, <1>2 DEF Flight
<1>15. Walking'
  BY <1>1, <1>7 DEF Walking, LowHalf, Mapping
<1>16. Counters' /\ Running'
  BY <1>1, <1>12 DEF Counters, Running
<1>. QED  BY <1>8, <1>12, <1>14, <1>15, <1>16

\* The PTE gets the page that was taken for it.
LEMMA PteStep == IInv /\ MapPte => IInv'
<1>. SUFFICES ASSUME IInv, MapPte,
                     NEW g, g = frame, NEW n, n = node, NEW q, q = Slot
              PROVE  IInv'
  OBVIOUS
<1>. USE DEF IInv
<1>1. /\ Mapping /\ lvl = 1
      /\ tbl' = [tbl EXCEPT ![n][q] = [frame |-> g, flags |-> flags]]
      /\ pc' = CASE pc = "map_segment" -> "fill"
                 [] pc = "map_stack" -> "stack"
                 [] OTHER -> "fork"
      /\ va' = IF pc = "map_segment" THEN va ELSE va + 1
      /\ UNCHANGED <<used, last, data, cr3, prog, seg, off, space, frame, flags,
                     node, lvl, next_pid, level>>
  BY DEF MapPte, exec, alloc
<1>2. /\ g \in Frame /\ g \in used \ Reserved /\ level[g] = 0
      /\ flags \in SUBSET Flag /\ "P" \in flags
      /\ \A t \in Tables, k \in Idx : Link(t, k) => Target(t, k) # g
  BY <1>1 DEF Flight, TypeOK
<1>3. n \in Tables /\ n \in Frame /\ q \in Idx
  BY <1>1, WalkFacts
<1>4. g \notin Tables
  BY <1>2 DEF Tables
<1>. DEFINE E == [frame |-> g, flags |-> flags]
<1>5. E \in Entry
  BY <1>2 DEF Entry
<1>6. /\ tbl' \in [Frame -> [Idx -> Entry]]
      /\ tbl'[n] = [tbl[n] EXCEPT ![q] = E]
      /\ \A t \in Frame \ {g, n} : tbl'[t] = tbl[t]
  <2>1. tbl' = [tbl EXCEPT ![n][q] = E]
    BY <1>1
  <2>. HIDE DEF E
  <2>. QED  BY <1>3, <1>5, <2>1 DEF TypeOK
<1>7. /\ level' \in [Frame -> 0..4] /\ level'[g] = lvl - 1 /\ ~ (level'[g] > 0)
      /\ \A t \in Frame \ {g} : level'[t] = level[t]
  BY <1>1, <1>2 DEF TypeOK
<1>8. pc' \in {"fill", "stack", "fork"} /\ va' \in Nat
  BY <1>1 DEF Mapping, TypeOK
<1>9. TypeOK'
  BY <1>1, <1>6, <1>8 DEF TypeOK
<1>10. FramesExclusive' /\ KernelShared' /\ Spaces' = Spaces
  <2>1. Mapping /\ used \subseteq used' /\ g \in used' /\ g \notin Reserved
    BY <1>1, <1>2
  <2>2. \A k \in Idx : level'[g] > 0 => ~ Present(tbl'[g][k])
    BY <1>7
  <2>. HIDE DEF IInv
  <2>. QED  BY <1>2, <1>4, <1>6, <1>7, <2>1, <2>2, SetEntry
<1>11. Running'
  BY <1>1, <1>10 DEF Running, Mapping
<1>. QED  BY <1>8, <1>9, <1>10, <1>11 DEF Flight, Walking, Counters, Mapping

\* The failing vmm_map_page gives back a page that nothing refers to.
LEMMA MapOutOfMemoryStep == IInv /\ MapOutOfMemory => IInv'
<1>. SUFFICES ASSUME IInv, MapOutOfMemory PROVE IInv'
  OBVIOUS
<1>. USE DEF IInv
<1>1. /\ Mapping
      /\ used' = used \ {frame}
      /\ pc' = IF pc = "map_fork" THEN "user" ELSE "shell"
      /\ UNCHANGED <<last, tbl, data, cr3, prog, seg, off, space, va, frame,
                     flags, node, lvl, next_pid, level>>
  BY DEF MapOutOfMemory, exec, map
<1>2. TypeOK'
  BY <1>1 DEF TypeOK
<1>3. /\ frame \notin Reserved /\ frame \notin Tables
      /\ \A t \in Tables, k \in Idx : Link(t, k) => Target(t, k) # frame
  BY <1>1 DEF Flight, Tables
<1>4. /\ Tables' = Tables /\ Spaces' = Spaces
  BY <1>1 DEF Tables, Spaces
<1>5. \A t, k : Link(t, k)' = Link(t, k) /\ Target(t, k)' = Target(t, k)
  BY <1>1, <1>4 DEF Link, Target
<1>6. FramesExclusive'
  <2>1. Tables \subseteq used' \ Reserved
    BY <1>1, <1>3 DEF FramesExclusive
  <2>2. \A t \in Tables, k \in Idx : Link(t, k) => Target(t, k) \in used' \ Reserved
    BY <1>1, <1>3 DEF FramesExclusive
  <2>. QED  BY <2>1, <2>2, <1>1, <1>4, <1>5 DEF FramesExclusive
<1>7. KernelShared'
  BY <1>1, <1>3, <1>4 DEF KernelShared
<1>8. pc' \in {"user", "shell"}
  BY <1>1
<1>9. Running'
  BY <1>1, <1>4 DEF Running, Mapping
<1>. QED  BY <1>2, <1>6, <1>7, <1>8, <1>9 DEF Flight, Walking, Counters, Mapping

\* The walk goes down to the table that the entry leads to.
LEMMA MapDescendStep == IInv /\ MapDescend => IInv'
<1>. SUFFICES ASSUME IInv, MapDescend PROVE IInv'
  OBVIOUS
<1>. USE DEF IInv
<1>1. /\ Mapping /\ lvl > 1
      /\ Present(tbl[node][Slot])
      /\ node' = tbl[node][Slot].frame /\ lvl' = lvl - 1
      /\ UNCHANGED <<used, last, tbl, data, cr3, pc, prog, seg, off, space, va,
                     frame, flags, next_pid, level>>
  BY DEF MapDescend, exec, alloc
<1>2. /\ node \in Tables /\ Slot \in Idx /\ lvl \in 1..4
      /\ level[node] = lvl /\ Link(node, Slot) /\ node' = Target(node, Slot)
  BY <1>1, WalkFacts DEF Target
<1>3. node' \in used /\ node' \in Frame /\ level[node'] = lvl - 1
  BY <1>2 DEF FramesExclusive, TypeOK
<1>4. lvl' \in 1..4
  BY <1>1, <1>2
<1>5. TypeOK'
  BY <1>1, <1>3, <1>4 DEF TypeOK
<1>6. /\ FramesExclusive' /\ KernelShared' /\ Spaces' = Spaces /\ Tables' = Tables
      /\ \A t, k : Link(t, k)' = Link(t, k) /\ Target(t, k)' = Target(t, k)
  BY <1>1, TablesKept
<1>7. Mapping' = Mapping
  BY <1>1 DEF Mapping
<1>8. Flight'
  BY <1>1, <1>6, <1>7 DEF Flight
<1>9. Walking'
  BY <1>1, <1>3 DEF Walking, LowHalf
<1>10. Counters' /\ Running'
  BY <1>1, <1>6 DEF Counters, Running
<1>. QED  BY <1>5, <1>6, <1>8, <1>9, <1>10

(***************************************************************************)
(* Steps that leave the tables alone.                                      *)
(***************************************************************************)

\* exec_elf and sys_fork begin with a new, empty address space.
LEMMA StartStep ==
  ASSUME IInv, NEW p \in Programs, ExecStart(p) \/ ForkStart
  PROVE  IInv'
<1>. USE DEF IInv
<1>1. PICK f \in Frame : Create(f)
  BY DEF ExecStart, ForkStart
<1>2. /\ f \notin Spaces /\ f # KernelPml4 /\ space' = f
      /\ used' = used \cup {f} /\ last' \in 0..NFrames
      /\ tbl' \in [Frame -> [Idx -> Entry]] /\ level' \in [Frame -> 0..4]
      /\ Spaces' = Spaces \cup {f}
      /\ FramesExclusive' /\ KernelShared'
  BY <1>1, CreateStep
<1>3. CASE ExecStart(p)
  <2>1. /\ pc = "shell" /\ pc' \in {"segment", "shell"}
        /\ prog' = p /\ seg' = 1 /\ off' = 0
        /\ UNCHANGED <<data, cr3, va, frame, flags, node, lvl, next_pid>>
    BY <1>3 DEF ExecStart
  <2>2. TypeOK'
    BY <1>2, <2>1 DEF TypeOK
  <2>3. Running'
    BY <1>2, <2>1 DEF Running
  <2>. QED  BY <1>2, <2>1, <2>2, <2>3 DEF Flight, Walking, Counters, Mapping
<1>4. CASE ForkStart
  <2>1. /\ pc = "user" /\ pc' \in {"fork", "halted"} /\ va' = 0
        /\ UNCHANGED <<data, cr3, prog, seg, off, frame, flags, node, lvl, next_pid>>
    BY <1>4 DEF ForkStart, exec
  <2>2. TypeOK'
    BY <1>2, <2>1 DEF TypeOK
  <2>3. Running'
    BY <1>2, <2>1 DEF Running
  <2>. QED  BY <1>2, <2>1, <2>2, <2>3 DEF Flight, Walking, Counters, Mapping
<1>. QED  BY <1>3, <1>4

\* A page is taken and vmm_map_page is called for it.
LEMMA PageStep ==
  ASSUME IInv, SegmentPage \/ StackPage \/ ForkPage
  PROVE  IInv'
<1>. USE DEF IInv
<1>1. /\ Allocate(frame')
      /\ "P" \in flags' /\ flags' \subseteq Flag
      /\ node' = space /\ lvl' = 4
      /\ UNCHANGED <<tbl, cr3, prog, seg, off, space, next_pid, level>>
  BY DEF SegmentPage, StackPage, ForkPage, exec, Flag
<1>2. /\ frame' \in Frame /\ frame' \notin used
      /\ used' = used \cup {frame'} /\ last' \in 0..NFrames
      /\ level[frame'] = 0
      /\ \A t \in Tables, k \in Idx : Link(t, k) => Target(t, k) # frame'
  BY <1>1, Fresh DEF KernelShared
<1>3. /\ FramesExclusive' /\ KernelShared' /\ Spaces' = Spaces /\ Tables' = Tables
      /\ \A t, k : Link(t, k)' = Link(t, k) /\ Target(t, k)' = Target(t, k)
  BY <1>1, <1>2, TablesKept
<1>4. /\ va' \in Nat /\ LowHalf(va')
      /\ pc' \in {"map_segment", "map_stack", "map_fork"}
      /\ Counters' /\ Running'
      /\ space \in Spaces
  <2>1. CASE SegmentPage
    <3>1. /\ pc = "segment" /\ pc' = "map_segment" /\ seg <= Len(Segs)
          /\ Segs[seg].load /\ off < Segs[seg].memsz
          /\ va' = (Segs[seg].vaddr + off) \div PAGE_SIZE
      BY <2>1 DEF SegmentPage
    <3>2. prog \in Programs /\ seg \in Nat \ {0} /\ off \in Nat
      BY DEF TypeOK
    <3>3. Segs \in Seq(Segment)
      BY <3>2, ProgramsAssumption DEF Segs
    <3>4. seg \in 1..Len(Segs) /\ Segs[seg] \in Segment
      BY <3>1, <3>2, <3>3
    <3>5. Segs[seg].vaddr \in Nat /\ Segs[seg].memsz \in Nat
      BY <3>4 DEF Segment
    <3>6. off \in 0..(Segs[seg].memsz - 1)
      BY <3>1, <3>2, <3>5
    <3>7. LowHalf(va')
      BY <3>1, <3>2, <3>4, <3>6, LowHalfAssumption DEF Segs
    <3>8. va' \in Nat
      <4>1. \A a \in Nat, b \in Nat \ {0} : a \div b \in Nat
        OBVIOUS
      <4>2. Segs[seg].vaddr + off \in Nat
        BY <3>2, <3>5
      <4>. QED  BY <3>1, <4>1, <4>2
    <3>9. Counters' /\ Running' /\ space \in Spaces
      BY <1>1, <1>3, <3>1 DEF Counters, Running
    <3>. QED  BY <3>1, <3>7, <3>8, <3>9
  <2>2. CASE StackPage
    <3>1. pc = "stack" /\ pc' = "map_stack" /\ va <= StackTop /\ va' = va
      BY <2>2 DEF StackPage
    <3>2. va \in 0..StackTop
      BY <3>1 DEF TypeOK
    <3>. QED  BY <3>1, <3>2, <1>1, <1>3, LowHalfAssumption DEF Counters, Running
  <2>3. CASE ForkPage
    <3>1. pc = "fork" /\ pc' = "map_fork" /\ va < UserEnd /\ va' = va
      BY <2>3 DEF ForkPage
    <3>2. va \in 0..StackTop
      BY <3>1 DEF TypeOK, UserEnd
    <3>. QED  BY <3>1, <3>2, <1>1, <1>3, LowHalfAssumption
              DEF Counters, Running, UserEnd
  <2>. QED  BY <2>1, <2>2, <2>3
<1>5. DOMAIN data' = Frame
  BY DEF SegmentPage, StackPage, ForkPage, TypeOK
<1>6. TypeOK'
  BY <1>1, <1>2, <1>4, <1>5 DEF TypeOK
<1>7. Flight'
  BY <1>1, <1>2, <1>3 DEF Flight, KernelShared
<1>8. Walking'
  <2>1. level[space] = 4
    BY <1>4 DEF Spaces
  <2>. QED  BY <1>1, <1>4, <2>1 DEF Walking, LowHalf
<1>. QED  BY <1>3, <1>4, <1>6, <1>7, <1>8

\* The other steps take no frame and touch no table.
LEMMA QuietStep ==
  ASSUME IInv,
         NEW v,
         \/ SegmentNext \/ SegmentFill \/ SegmentsDone \/ EnterUser
         \/ ExecOutOfMemory \/ UserWrite(v) \/ UserFault \/ ForkSkip
         \/ ForkOutOfMemory \/ ForkDone \/ CreateOutOfMemory
  PROVE  IInv'
<1>. USE DEF IInv
<1>1. UNCHANGED <<used, last, tbl, prog, space, frame, flags, node, lvl, level>>
  BY DEF SegmentNext, SegmentFill, SegmentsDone, EnterUser, ExecOutOfMemory,
         UserWrite, UserFault, ForkSkip, ForkOutOfMemory, ForkDone,
         CreateOutOfMemory, vars, alloc, exec, map
<1>2. /\ FramesExclusive' /\ KernelShared' /\ Spaces' = Spaces
  BY <1>1, TablesKept
<1>3. /\ pc' \in {"shell", "segment", "stack", "user", "fork"}
      /\ Running'
  <2>1. KernelPml4 \notin Spaces
    BY DEF FramesExclusive, Spaces, Tables
  <2>2. CASE SegmentNext
    BY <1>1, <1>2, <2>2 DEF SegmentNext, Running
  <2>3. CASE SegmentFill
    BY <1>1, <1>2, <2>3 DEF SegmentFill, Running
  <2>4. CASE SegmentsDone
    BY <1>1, <1>2, <2>4 DEF SegmentsDone, Running
  <2>5. CASE EnterUser
    BY <1>1, <1>2, <2>5 DEF EnterUser, Running
  <2>6. CASE ExecOutOfMemory
    BY <1>1, <1>2, <2>6 DEF ExecOutOfMemory, Running
  <2>7. CASE UserWrite(v)
    BY <1>1, <1>2, <2>7 DEF UserWrite, Running
  <2>8. CASE UserFault
    BY <1>1, <1>2, <2>8 DEF UserFault, Running
  <2>9. CASE ForkSkip
    BY <1>1, <1>2, <2>9 DEF ForkSkip, Running
  <2>10. CASE ForkOutOfMemory
    BY <1>1, <1>2, <2>10 DEF ForkOutOfMemory, Running
  <2>11. CASE ForkDone
    BY <1>1, <1>2, <2>11 DEF ForkDone, Running
  <2>12. CASE CreateOutOfMemory
    BY <1>1, <1>2, <2>12 DEF CreateOutOfMemory, Running, vars
  <2>. QED  BY <2>2, <2>3, <2>4, <2>5, <2>6, <2>7, <2>8, <2>9, <2>10, <2>11, <2>12
<1>4. /\ va' \in {va, va + 1, StackBottom} /\ seg' \in {seg, seg + 1}
      /\ off' \in {0, off, off + PAGE_SIZE} /\ next_pid' \in {next_pid, next_pid + 1}
      /\ cr3' \in {cr3, KernelPml4, space}
  BY DEF SegmentNext, SegmentFill, SegmentsDone, EnterUser, ExecOutOfMemory,
         UserWrite, UserFault, ForkSkip, ForkOutOfMemory, ForkDone,
         CreateOutOfMemory, vars, alloc, exec, map
<1>5. DOMAIN data' = Frame
  BY DEF TypeOK, SegmentNext, SegmentFill, SegmentsDone, EnterUser,
         ExecOutOfMemory, UserWrite, UserFault, ForkSkip, ForkOutOfMemory,
         ForkDone, CreateOutOfMemory, vars
<1>6. TypeOK'
  <2>1. /\ va' \in Nat /\ seg' \in Nat \ {0} /\ off' \in Nat
        /\ next_pid' \in Nat /\ cr3' \in Frame
    BY <1>4, EntryTypes DEF TypeOK
  <2>. QED  BY <1>1, <1>3, <1>5, <2>1 DEF TypeOK
<1>. QED  BY <1>2, <1>3, <1>6 DEF Flight, Walking, Counters, Mapping

\* The frame taken before the kernel faults is never mapped.
LEMMA ForkFaultStep == IInv /\ ForkFault => IInv'
<1>. SUFFICES ASSUME IInv, ForkFault PROVE IInv'
  OBVIOUS
<1>. USE DEF IInv
<1>1. /\ Allocate(frame')
      /\ pc = "fork" /\ pc' = "halted"
      /\ UNCHANGED <<tbl, data, cr3, prog, seg, off, space, va, flags, node, lvl,
                     next_pid, level>>
  BY DEF ForkFault, exec
<1>2. frame' \in Frame /\ used' = used \cup {frame'} /\ last' \in 0..NFrames
  BY <1>1, Fresh DEF KernelShared
<1>3. FramesExclusive' /\ KernelShared' /\ Spaces' = Spaces
  BY <1>1, <1>2, TablesKept
<1>4. TypeOK'
  BY <1>1, <1>2 DEF TypeOK
<1>5. Running'
  BY <1>1, <1>3 DEF Running
<1>. QED  BY <1>1, <1>3, <1>4, <1>5 DEF Flight, Walking, Counters, Mapping

(***************************************************************************)
(* The inductive invariant is one.                                         *)
(***************************************************************************)
LEMMA IInvStep == IInv /\ [Next]_vars => IInv'
<1>1. IInv /\ UNCHANGED vars => IInv'
  <2>. SUFFICES ASSUME IInv, UNCHANGED vars PROVE IInv'
    OBVIOUS
  <2>1. UNCHANGED <<used, last, tbl, data, cr3, pc, prog, seg, off, space, va,
                    frame, flags, node, lvl, next_pid, level>>
    BY DEF vars, alloc, exec, map
  <2>2. /\ FramesExclusive' /\ KernelShared' /\ Spaces' = Spaces /\ Tables' = Tables
        /\ \A t, k : Link(t, k)' = Link(t, k) /\ Target(t, k)' = Target(t, k)
    BY <2>1, TablesKept DEF IInv
  <2>3. TypeOK'
    BY <2>1 DEF IInv, TypeOK
  <2>4. Flight'
    BY <2>1, <2>2 DEF IInv, Flight, Mapping
  <2>5. Walking' /\ Counters' /\ Running'
    BY <2>1, <2>2 DEF IInv, Walking, Counters, Running, Mapping, LowHalf
  <2>. QED  BY <2>2, <2>3, <2>4, <2>5 DEF IInv
<1>2. IInv /\ Next => IInv'
  <2>. SUFFICES ASSUME IInv, Next PROVE IInv'
    OBVIOUS
  <2>1. ASSUME NEW p \in Programs, ExecStart(p) PROVE IInv'
    BY <2>1, StartStep
  <2>2. CASE ForkStart
    <3>1. prog \in Programs
      BY DEF IInv, TypeOK
    <3>. QED  BY <2>2, <3>1, StartStep
  <2>3. CASE SegmentPage \/ StackPage \/ ForkPage
    BY <2>3, PageStep
  <2>4. CASE MapDescend \/ MapNewTable \/ MapOutOfMemory \/ MapPte
    BY <2>4, MapDescendStep, NewTableStep, MapOutOfMemoryStep, PteStep
  <2>5. CASE ForkFault
    BY <2>5, ForkFaultStep
  <2>6. ASSUME NEW v, UserWrite(v) PROVE IInv'
    BY <2>6, QuietStep
  <2>7. CASE \/ SegmentNext \/ SegmentFill \/ SegmentsDone \/ EnterUser
             \/ ExecOutOfMemory \/ UserFault \/ ForkSkip
             \/ ForkOutOfMemory \/ ForkDone \/ CreateOutOfMemory
    BY <2>7, QuietStep
  <2>. QED  BY <2>1, <2>2, <2>3, <2>4, <2>5, <2>6, <2>7 DEF Next, KernelStep
<1>. QED  BY <1>1, <1>2

LEMMA Invariance == Spec => []IInv
BY InitIInv, IInvStep, PTL DEF Spec

(***************************************************************************)
(* What the tables map: walks from a PML4 to a page.                       *)
(***************************************************************************)
T3(t, s, v) == t[s][Index(v, 4)].frame
T2(t, s, v) == t[T3(t, s, v)][Index(v, 3)].frame
T1(t, s, v) == t[T2(t, s, v)][Index(v, 2)].frame
TableAt(t, s, v, l) ==
  CASE l = 4 -> s [] l = 3 -> T3(t, s, v) [] l = 2 -> T2(t, s, v) [] OTHER -> T1(t, s, v)
EntryAt(t, s, v, l) == t[TableAt(t, s, v, l)][Index(v, l)]
Down(t, s, v, l) == \A m \in 1..4 : m > l => Present(EntryAt(t, s, v, m))

\* What a walk of vmm_get_physical_address finds, level by level.
LEMMA PteByLevels ==
  ASSUME NEW t, NEW s, NEW v
  PROVE  /\ Down(t, s, v, 0) => PteOf(t, s, v) = EntryAt(t, s, v, 1)
         /\ ~ Down(t, s, v, 0) => PteOf(t, s, v) = NoEntry
         /\ Present(PteOf(t, s, v)) <=> Down(t, s, v, 0)
<1>1. Down(t, s, v, 0) <=>
        /\ Present(t[s][Index(v, 4)]) /\ Present(t[T3(t, s, v)][Index(v, 3)])
        /\ Present(t[T2(t, s, v)][Index(v, 2)]) /\ Present(t[T1(t, s, v)][Index(v, 1)])
  <2>1. Down(t, s, v, 0) <=> \A m \in {1, 2, 3, 4} : Present(EntryAt(t, s, v, m))
    BY DEF Down
  <2>. QED  BY <2>1 DEF EntryAt, TableAt
<1>2. EntryAt(t, s, v, 1) = t[T1(t, s, v)][Index(v, 1)]
  BY DEF EntryAt, TableAt
<1>. QED  BY <1>1, <1>2, EntryTypes DEF PteOf, T1, T2, T3

\* The next table of a walk.
LEMMA NextTable ==
  ASSUME NEW t, NEW s, NEW v, NEW l \in 2..4
  PROVE  TableAt(t, s, v, l - 1) = EntryAt(t, s, v, l).frame
<1>1. l = 4 \/ l = 3 \/ l = 2
  OBVIOUS
<1>2. CASE l = 4
  BY <1>2 DEF TableAt, EntryAt, T3
<1>3. CASE l = 3
  BY <1>3 DEF TableAt, EntryAt, T2
<1>4. CASE l = 2
  BY <1>4 DEF TableAt, EntryAt, T1
<1>. QED  BY <1>1, <1>2, <1>3, <1>4

\* A walk through present entries of a created space goes from table to table.
LEMMA WalkTables ==
  ASSUME TypeOK, FramesExclusive, NEW s \in Spaces, NEW v \in Nat, LowHalf(v),
         NEW l \in 1..4, Down(tbl, s, v, l)
  PROVE  /\ TableAt(tbl, s, v, l) \in Tables /\ level[TableAt(tbl, s, v, l)] = l
         /\ Index(v, l) \in Idx
         /\ Present(EntryAt(tbl, s, v, l)) =>
              Link(TableAt(tbl, s, v, l), Index(v, l))
<1>. DEFINE P(m) == /\ TableAt(tbl, s, v, m) \in Tables /\ level[TableAt(tbl, s, v, m)] = m
                    /\ Index(v, m) \in Idx
                    /\ Present(EntryAt(tbl, s, v, m)) =>
                         Link(TableAt(tbl, s, v, m), Index(v, m))
<1>1. P(4)
  <2>1. TableAt(tbl, s, v, 4) = s /\ s \in Frame /\ level[s] = 4
    BY DEF TableAt, Spaces
  <2>. QED  BY <2>1, IndexType, LowIndex DEF Tables, Link, EntryAt
<1>2. ASSUME NEW m \in 2..4, P(m), Present(EntryAt(tbl, s, v, m)) PROVE P(m - 1)
  <2>1. TableAt(tbl, s, v, m - 1) = Target(TableAt(tbl, s, v, m), Index(v, m))
    BY NextTable DEF Target, EntryAt
  <2>2. /\ TableAt(tbl, s, v, m - 1) \in Frame
        /\ level[TableAt(tbl, s, v, m - 1)] = m - 1
    BY <1>2, <2>1 DEF FramesExclusive, TypeOK
  <2>3. Index(v, m - 1) \in Idx
    BY IndexType
  <2>. QED  BY <2>2, <2>3 DEF Tables, Link, EntryAt
<1>. HIDE DEF P
<1>3. CASE l = 4
  BY <1>1, <1>3 DEF P
<1>4. CASE l = 3
  <2>1. P(3)
    BY <1>1, <1>2, <1>4 DEF Down
  <2>. QED  BY <2>1, <1>4 DEF P
<1>5. CASE l = 2
  <2>1. P(3)
    BY <1>1, <1>2, <1>5 DEF Down
  <2>2. P(2)
    BY <2>1, <1>2, <1>5 DEF Down
  <2>. QED  BY <2>2, <1>5 DEF P
<1>6. CASE l = 1
  <2>1. P(3)
    BY <1>1, <1>2, <1>6 DEF Down
  <2>2. P(2)
    BY <2>1, <1>2, <1>6 DEF Down
  <2>3. P(1)
    BY <2>2, <1>2, <1>6 DEF Down
  <2>. QED  BY <2>3, <1>6 DEF P
<1>. QED  BY <1>3, <1>4, <1>5, <1>6

\* Two walks that come to the same table have come the same way.
LEMMA SameTable ==
  ASSUME TypeOK, FramesExclusive, NEW s \in Spaces, NEW u \in Spaces,
         NEW v \in Nat, NEW w \in Nat, LowHalf(v), LowHalf(w),
         NEW l \in 1..4, Down(tbl, s, v, l), Down(tbl, u, w, l),
         TableAt(tbl, s, v, l) = TableAt(tbl, u, w, l)
  PROVE  s = u /\ \A m \in 1..4 : m > l => Index(v, m) = Index(w, m)
<1>. DEFINE Eq(m) == TableAt(tbl, s, v, m) = TableAt(tbl, u, w, m)
<1>1. ASSUME NEW m \in 2..4, m > l, Eq(m - 1) PROVE Eq(m) /\ Index(v, m) = Index(w, m)
  <2>1. /\ Down(tbl, s, v, m) /\ Present(EntryAt(tbl, s, v, m))
        /\ Down(tbl, u, w, m) /\ Present(EntryAt(tbl, u, w, m))
    BY <1>1 DEF Down
  <2>2. /\ TableAt(tbl, s, v, m) \in Tables /\ Link(TableAt(tbl, s, v, m), Index(v, m))
        /\ TableAt(tbl, u, w, m) \in Tables /\ Link(TableAt(tbl, u, w, m), Index(w, m))
        /\ Index(v, m) \in Idx /\ Index(w, m) \in Idx
    BY <2>1, WalkTables
  <2>3. Target(TableAt(tbl, s, v, m), Index(v, m)) = Target(TableAt(tbl, u, w, m), Index(w, m))
    BY <1>1, NextTable DEF Target, EntryAt
  <2>. QED  BY <2>2, <2>3 DEF FramesExclusive
<1>. HIDE DEF Eq
<1>2. Eq(l)
  BY DEF Eq
<1>3. l < 2 => Eq(2) /\ Index(v, 2) = Index(w, 2)
  BY <1>1, <1>2
<1>4. l < 3 => Eq(3) /\ Index(v, 3) = Index(w, 3)
  BY <1>1, <1>2, <1>3
<1>5. l < 4 => Eq(4) /\ Index(v, 4) = Index(w, 4)
  BY <1>1, <1>2, <1>4
<1>6. Eq(4)
  BY <1>2, <1>5
<1>7. s = u
  BY <1>6 DEF Eq, TableAt
<1>8. \A m \in 1..4 : m > l => m \in {2, 3, 4}
  OBVIOUS
<1>. QED  BY <1>3, <1>4, <1>5, <1>7, <1>8

\* Two pages of created spaces are never mapped to one frame.
LEMMA SameTarget ==
  ASSUME TypeOK, FramesExclusive, NEW s \in Spaces, NEW u \in Spaces,
         NEW v \in Nat, NEW w \in Nat, LowHalf(v), LowHalf(w),
         Present(PteOf(tbl, s, v)), Present(PteOf(tbl, u, w)),
         PteOf(tbl, s, v).frame = PteOf(tbl, u, w).frame
  PROVE  s = u /\ \A m \in 1..4 : Index(v, m) = Index(w, m)
<1>1. /\ Down(tbl, s, v, 1) /\ Present(EntryAt(tbl, s, v, 1))
      /\ Down(tbl, u, w, 1) /\ Present(EntryAt(tbl, u, w, 1))
      /\ EntryAt(tbl, s, v, 1).frame = EntryAt(tbl, u, w, 1).frame
  BY PteByLevels DEF Down
<1>2. /\ TableAt(tbl, s, v, 1) \in Tables /\ Link(TableAt(tbl, s, v, 1), Index(v, 1))
      /\ TableAt(tbl, u, w, 1) \in Tables /\ Link(TableAt(tbl, u, w, 1), Index(w, 1))
      /\ Index(v, 1) \in Idx /\ Index(w, 1) \in Idx
  BY <1>1, WalkTables
<1>3. Target(TableAt(tbl, s, v, 1), Index(v, 1)) = Target(TableAt(tbl, u, w, 1), Index(w, 1))
  BY <1>1 DEF Target, EntryAt
<1>4. TableAt(tbl, s, v, 1) = TableAt(tbl, u, w, 1) /\ Index(v, 1) = Index(w, 1)
  BY <1>2, <1>3 DEF FramesExclusive
<1>5. s = u /\ \A m \in 1..4 : m > 1 => Index(v, m) = Index(w, m)
  BY <1>1, <1>4, SameTable
<1>. QED  BY <1>4, <1>5

\* A walk whose entries are the same in other tables goes the same way there.
LEMMA WalkSame ==
  ASSUME NEW t, NEW u, NEW s, NEW v, NEW l \in 0..4,
         \A m \in 1..4 : m > l => u[TableAt(t, s, v, m)][Index(v, m)] = EntryAt(t, s, v, m)
  PROVE  /\ \A m \in 1..4 : m > l => EntryAt(u, s, v, m) = EntryAt(t, s, v, m)
         /\ \A m \in 1..4 : m >= l => TableAt(u, s, v, m) = TableAt(t, s, v, m)
<1>. DEFINE Same(m) == TableAt(u, s, v, m) = TableAt(t, s, v, m)
<1>1. Same(4)
  BY DEF TableAt
<1>2. \A m \in 1..4 : m > l /\ Same(m) => EntryAt(u, s, v, m) = EntryAt(t, s, v, m)
  BY DEF EntryAt
<1>3. \A m \in 2..4 : EntryAt(u, s, v, m) = EntryAt(t, s, v, m) => Same(m - 1)
  BY NextTable
<1>. HIDE DEF Same
<1>4. l < 4 => Same(3)
  BY <1>1, <1>2, <1>3
<1>5. l < 3 => Same(2)
  BY <1>4, <1>2, <1>3
<1>6. l < 2 => Same(1)
  BY <1>5, <1>2, <1>3
<1>7. \A m \in 1..4 : m >= l => Same(m)
  BY <1>1, <1>4, <1>5, <1>6
<1>. QED  BY <1>2, <1>7 DEF Same

\* It finds what it found, also when it stops on the way.
LEMMA PteSame ==
  ASSUME NEW t, NEW u, NEW s, NEW v,
         \A m \in 1..4 : Down(t, s, v, m) =>
            u[TableAt(t, s, v, m)][Index(v, m)] = EntryAt(t, s, v, m)
  PROVE  PteOf(u, s, v) = PteOf(t, s, v)
<1>. DEFINE Here(m) == Present(EntryAt(t, s, v, m))
<1>1. CASE Down(t, s, v, 0)
  <2>1. \A m \in 1..4 : Down(t, s, v, m)
    BY <1>1 DEF Down
  <2>2. \A m \in 1..4 : EntryAt(u, s, v, m) = EntryAt(t, s, v, m)
    BY <2>1, WalkSame
  <2>. QED  BY <1>1, <2>2, PteByLevels DEF Down
<1>2. CASE ~ Down(t, s, v, 0)
  <2>1. PICK l \in 1..4 : ~ Here(l) /\ Down(t, s, v, l)
    <3>1. CASE ~ Here(4)
      BY <3>1 DEF Down
    <3>2. CASE Here(4) /\ ~ Here(3)
      BY <3>2 DEF Down
    <3>3. CASE Here(4) /\ Here(3) /\ ~ Here(2)
      BY <3>3 DEF Down
    <3>4. CASE Here(4) /\ Here(3) /\ Here(2)
      BY <3>4, <1>2 DEF Down
    <3>. QED  BY <3>1, <3>2, <3>3, <3>4
  <2>2. \A m \in 1..4 : m >= l => Down(t, s, v, m)
    BY <2>1 DEF Down
  <2>3. EntryAt(u, s, v, l) = EntryAt(t, s, v, l)
    BY <2>2, WalkSame
  <2>. QED  BY <1>2, <2>1, <2>3, PteByLevels DEF Down
<1>. QED  BY <1>1, <1>2

\* A frame that a page is mapped to is in use and no table.
LEMMA PteTarget ==
  ASSUME TypeOK, FramesExclusive, NEW s \in Spaces, NEW v \in Nat, LowHalf(v),
         Present(PteOf(tbl, s, v))
  PROVE  \E t \in Tables, k \in Idx :
            /\ Link(t, k) /\ Target(t, k) = PteOf(tbl, s, v).frame
            /\ Target(t, k) \in used \ Reserved
            /\ level[Target(t, k)] = 0
            /\ PteOf(tbl, s, v) \in Entry
<1>. DEFINE t == TableAt(tbl, s, v, 1)
            k == Index(v, 1)
<1>1. Down(tbl, s, v, 1) /\ Present(EntryAt(tbl, s, v, 1))
  BY PteByLevels DEF Down
<1>2. t \in Tables /\ k \in Idx /\ level[t] = 1 /\ Link(t, k)
  BY <1>1, WalkTables
<1>3. Target(t, k) = PteOf(tbl, s, v).frame /\ PteOf(tbl, s, v) = tbl[t][k]
  BY <1>1, PteByLevels DEF Target, EntryAt, Down
<1>4. /\ Target(t, k) \in used \ Reserved /\ level[Target(t, k)] = 0
      /\ tbl[t][k] \in Entry
  BY <1>2 DEF FramesExclusive, TypeOK, Tables
<1>. HIDE DEF t, k
<1>. QED  BY <1>2, <1>3, <1>4

\* A new address space maps nothing, and the others are as they were.
LEMMA CreateView ==
  ASSUME IInv, NEW f \in Frame, Create(f), NEW v \in Nat, LowHalf(v)
  PROVE  /\ \A s \in Spaces : PteOf(tbl', s, v) = PteOf(tbl, s, v)
         /\ PteOf(tbl', f, v) = NoEntry
<1>1. f \notin Tables
  BY Fresh DEF Create, IInv, KernelShared
<1>2. tbl' = [tbl EXCEPT ![f] = NewPml4]
  BY DEF Create
<1>3. ASSUME NEW s \in Spaces PROVE PteOf(tbl', s, v) = PteOf(tbl, s, v)
  <2>1. ASSUME NEW m \in 1..4, Down(tbl, s, v, m)
        PROVE  tbl'[TableAt(tbl, s, v, m)][Index(v, m)] = EntryAt(tbl, s, v, m)
    <3>1. TableAt(tbl, s, v, m) \in Tables
      BY <2>1, WalkTables DEF IInv
    <3>. QED  BY <3>1, <1>1, <1>2 DEF EntryAt, Tables, IInv, TypeOK
  <2>. QED  BY <2>1, PteSame
<1>4. PteOf(tbl', f, v) = NoEntry
  <2>1. EntryAt(tbl', f, v, 4) = NewPml4[Index(v, 4)]
    BY <1>2 DEF EntryAt, TableAt, IInv, TypeOK
  <2>2. Index(v, 4) \in Idx /\ Index(v, 4) < KernelHalf
    BY IndexType, LowIndex
  <2>3. ~ Present(EntryAt(tbl', f, v, 4))
    BY <2>1, <2>2, EntryTypes DEF NewPml4, Idx
  <2>. QED  BY <2>3, PteByLevels DEF Down
<1>. QED  BY <1>3, <1>4

\* Where the walk of another page, or of another space, meets the entry that
\* vmm_map_page stands at.
LEMMA MeetsSlot ==
  ASSUME IInv, Mapping, NEW s \in Spaces, NEW v \in Nat, LowHalf(v),
         NEW m \in 1..4, Down(tbl, s, v, m), TableAt(tbl, s, v, m) = node
  PROVE  m = lvl
BY WalkTables, WalkFacts DEF IInv

LEMMA PteSameNext ==
  ASSUME NEW s, NEW v,
         \A m \in 1..4 : Down(tbl, s, v, m) =>
            tbl'[TableAt(tbl, s, v, m)][Index(v, m)] = EntryAt(tbl, s, v, m)
  PROVE  PteOf(tbl', s, v) = PteOf(tbl, s, v)
BY PteSame

\* A new table changes no mapping.
LEMMA NewTableView ==
  ASSUME IInv, MapNewTable, NEW s \in Spaces, NEW v \in Nat, LowHalf(v)
  PROVE  PteOf(tbl', s, v) = PteOf(tbl, s, v)
<1>. SUFFICES ASSUME NEW g, g = node', NEW n, n = node, NEW q, q = Slot,
                     NEW e, e = [frame |-> g, flags |-> {"P", "W", "U"}],
                     NEW z, z = [k \in Idx |-> NoEntry]
              PROVE  PteOf(tbl', s, v) = PteOf(tbl, s, v)
  OBVIOUS
<1>1. /\ Mapping /\ lvl > 1 /\ Allocate(g)
      /\ ~ Present(tbl[n][q])
      /\ tbl' = [tbl EXCEPT ![g] = z, ![n][q] = e]
  BY DEF MapNewTable
<1>2. g \in Frame /\ g \notin Tables
  BY <1>1, Fresh DEF IInv, KernelShared
<1>3. /\ n \in Tables /\ n \in Frame /\ q \in Idx /\ lvl \in 2..4
  BY <1>1, WalkFacts
<1>4. g # n
  BY <1>2, <1>3
<1>5. /\ tbl'[g] = z /\ tbl'[n] = [tbl[n] EXCEPT ![q] = e]
      /\ \A t \in Frame \ {g, n} : tbl'[t] = tbl[t]
  BY <1>1, <1>2, <1>3, <1>4 DEF IInv, TypeOK
<1>. DEFINE T(m) == TableAt(tbl, s, v, m)
            Hit(m) == T(m) = n /\ Index(v, m) = q
<1>6. ASSUME NEW m \in 1..4, Down(tbl, s, v, m), ~ Hit(m)
      PROVE  tbl'[T(m)][Index(v, m)] = EntryAt(tbl, s, v, m)
  <2>1. T(m) \in Tables /\ Index(v, m) \in Idx
    BY <1>6, WalkTables DEF IInv
  <2>2. CASE T(m) = n
    BY <2>1, <2>2, <1>3, <1>5, <1>6 DEF EntryAt, IInv, TypeOK
  <2>3. CASE T(m) # n
    BY <2>1, <2>3, <1>2, <1>5 DEF EntryAt, Tables
  <2>. QED  BY <2>2, <2>3
<1>7. ASSUME NEW m \in 1..4, Down(tbl, s, v, m), T(m) = n PROVE m = lvl
  BY <1>1, <1>7, MeetsSlot
<1>8. CASE \E m \in 1..4 : Down(tbl, s, v, m) /\ Hit(m)
  <2>1. PICK m \in 1..4 : Down(tbl, s, v, m) /\ Hit(m)
    BY <1>8
  <2>2. m = lvl
    BY <2>1, <1>7
  <2>3. PteOf(tbl, s, v) = NoEntry
    <3>1. ~ Present(EntryAt(tbl, s, v, m))
      BY <2>1, <1>1 DEF EntryAt
    <3>. QED  BY <3>1, PteByLevels DEF Down
  <2>4. ASSUME NEW k \in 1..4, k > m
        PROVE  tbl'[TableAt(tbl, s, v, k)][Index(v, k)] = EntryAt(tbl, s, v, k)
    <3>1. Down(tbl, s, v, k)
      BY <2>1, <2>4 DEF Down
    <3>2. T(k) # n
      BY <3>1, <2>2, <2>4, <1>7
    <3>. QED  BY <3>1, <3>2, <1>6
  <2>5. TableAt(tbl', s, v, m) = n
    <3>1. TableAt(tbl', s, v, m) = TableAt(tbl, s, v, m)
      BY <2>4, WalkSame
    <3>. QED  BY <3>1, <2>1
  <2>6. EntryAt(tbl', s, v, m) = e
    <3>1. tbl'[n][q] = e
      BY <1>3, <1>5 DEF IInv, TypeOK
    <3>. QED  BY <2>1, <2>5, <3>1 DEF EntryAt
  <2>7. TableAt(tbl', s, v, m - 1) = g
    <3>1. m \in 2..4
      BY <2>2, <1>3
    <3>. QED  BY <2>6, <3>1, NextTable
  <2>8. m - 1 \in 1..4
    BY <2>2, <1>3
  <2>9. ~ Present(EntryAt(tbl', s, v, m - 1))
    <3>1. Index(v, m - 1) \in Idx
      BY <2>8, IndexType
    <3>. QED  BY <2>7, <3>1, <1>5, EntryTypes DEF EntryAt
  <2>10. PteOf(tbl', s, v) = NoEntry
    BY <2>8, <2>9, PteByLevels DEF Down
  <2>. QED  BY <2>3, <2>10
<1>9. CASE ~ \E m \in 1..4 : Down(tbl, s, v, m) /\ Hit(m)
  <2>1. ASSUME NEW m \in 1..4, Down(tbl, s, v, m)
        PROVE  tbl'[TableAt(tbl, s, v, m)][Index(v, m)] = EntryAt(tbl, s, v, m)
    <3>1. ~ Hit(m)
      BY <2>1, <1>9
    <3>. QED  BY <2>1, <3>1, <1>6
  <2>. QED  BY <2>1, PteSameNext
<1>. QED  BY <1>8, <1>9

\* vmm_map_page has come to node from the PML4 it was given.
Path ==
  /\ Mapping => /\ Down(tbl, space, va, lvl)
                /\ TableAt(tbl, space, va, lvl) = node
  /\ pc = "fill" => /\ LowHalf(va) /\ "P" \in flags
                    /\ PteOf(tbl, space, va) = [frame |-> frame, flags |-> flags]

\* The PTE written is that of the page that vmm_map_page was asked for.
LEMMA PteView ==
  ASSUME IInv, Path, MapPte, NEW s \in Spaces, NEW v \in Nat, LowHalf(v)
  PROVE  PteOf(tbl', s, v) =
           IF s = space /\ \A m \in 1..4 : Index(v, m) = Index(va, m)
           THEN [frame |-> frame, flags |-> flags]
           ELSE PteOf(tbl, s, v)
<1>. SUFFICES ASSUME NEW n, n = node, NEW q, q = Slot,
                     NEW e, e = [frame |-> frame, flags |-> flags]
              PROVE  PteOf(tbl', s, v) =
                       IF s = space /\ \A m \in 1..4 : Index(v, m) = Index(va, m)
                       THEN e ELSE PteOf(tbl, s, v)
  OBVIOUS
<1>1. Mapping /\ lvl = 1 /\ tbl' = [tbl EXCEPT ![n][q] = e]
  BY DEF MapPte
<1>2. n \in Tables /\ n \in Frame /\ q \in Idx
  BY <1>1, WalkFacts
<1>3. /\ tbl'[n] = [tbl[n] EXCEPT ![q] = e]
      /\ \A t \in Frame \ {n} : tbl'[t] = tbl[t]
  BY <1>1, <1>2 DEF IInv, TypeOK
<1>4. /\ space \in Spaces /\ va \in Nat /\ LowHalf(va) /\ "P" \in flags
      /\ q = Index(va, 1)
      /\ Down(tbl, space, va, 1) /\ TableAt(tbl, space, va, 1) = n
  BY <1>1 DEF Path, IInv, Running, Walking, Flight, TypeOK, Mapping, Slot
<1>. DEFINE T(m) == TableAt(tbl, s, v, m)
            Hit(m) == T(m) = n /\ Index(v, m) = q
            Same == s = space /\ \A m \in 1..4 : Index(v, m) = Index(va, m)
<1>5. ASSUME NEW m \in 1..4, Down(tbl, s, v, m), ~ Hit(m)
      PROVE  tbl'[T(m)][Index(v, m)] = EntryAt(tbl, s, v, m)
  <2>1. T(m) \in Tables /\ Index(v, m) \in Idx
    BY <1>5, WalkTables DEF IInv
  <2>2. CASE T(m) = n
    BY <2>1, <2>2, <1>2, <1>3, <1>5 DEF EntryAt, IInv, TypeOK
  <2>3. CASE T(m) # n
    BY <2>1, <2>3, <1>3 DEF EntryAt, Tables
  <2>. QED  BY <2>2, <2>3
<1>6. ASSUME NEW m \in 1..4, Down(tbl, s, v, m), T(m) = n PROVE m = 1
  BY <1>1, <1>6, MeetsSlot
<1>7. CASE Same
  <2>1. \A m \in 1..4 : EntryAt(tbl, s, v, m) = EntryAt(tbl, space, va, m)
    <3>1. /\ Index(v, 4) = Index(va, 4) /\ Index(v, 3) = Index(va, 3)
          /\ Index(v, 2) = Index(va, 2) /\ Index(v, 1) = Index(va, 1)
      BY <1>7
    <3>. QED  BY <3>1, <1>7 DEF EntryAt, TableAt, T1, T2, T3
  <2>2. T(1) = n /\ Down(tbl, s, v, 1)
    <3>1. T(1) = TableAt(tbl, space, va, 1)
      <4>1. Index(v, 4) = Index(va, 4) /\ Index(v, 3) = Index(va, 3) /\ Index(v, 2) = Index(va, 2)
        BY <1>7
      <4>. QED  BY <4>1, <1>7 DEF TableAt, T1, T2, T3
    <3>. QED  BY <3>1, <2>1, <1>4 DEF Down
  <2>3. ASSUME NEW m \in 1..4, m > 1
        PROVE  tbl'[TableAt(tbl, s, v, m)][Index(v, m)] = EntryAt(tbl, s, v, m)
    <3>1. Down(tbl, s, v, m)
      BY <2>2, <2>3 DEF Down
    <3>. QED  BY <3>1, <2>3, <1>5, <1>6
  <2>4. /\ \A m \in 1..4 : m > 1 => EntryAt(tbl', s, v, m) = EntryAt(tbl, s, v, m)
        /\ TableAt(tbl', s, v, 1) = n
    BY <2>2, <2>3, WalkSame
  <2>5. EntryAt(tbl', s, v, 1) = e
    BY <2>4, <1>2, <1>3, <1>4, <1>7 DEF EntryAt, IInv, TypeOK
  <2>6. Down(tbl', s, v, 0)
    <3>1. Present(e)
      BY <1>4 DEF Present
    <3>. QED  BY <2>2, <2>4, <2>5, <3>1 DEF Down
  <2>. QED  BY <2>5, <2>6, <1>7, PteByLevels
<1>8. CASE ~ Same
  <2>1. ASSUME NEW m \in 1..4, Down(tbl, s, v, m) PROVE ~ Hit(m)
    <3>. SUFFICES ASSUME Hit(m) PROVE FALSE
      OBVIOUS
    <3>1. m = 1
      BY <2>1, <1>6
    <3>2. s = space /\ \A k \in 1..4 : k > 1 => Index(v, k) = Index(va, k)
      BY <2>1, <3>1, <1>4, SameTable DEF IInv
    <3>3. \A k \in 1..4 : k > 1 \/ k = 1
      OBVIOUS
    <3>. QED  BY <3>1, <3>2, <3>3, <1>4, <1>8
  <2>. HIDE DEF Hit
  <2>2. \A m \in 1..4 : Down(tbl, s, v, m) =>
          tbl'[TableAt(tbl, s, v, m)][Index(v, m)] = EntryAt(tbl, s, v, m)
    BY <2>1, <1>5
  <2>. QED  BY <2>2, <1>8, PteSame
<1>. QED  BY <1>7, <1>8

\* The pages of a program have indices of their own.
LEMMA PagesDistinct ==
  ASSUME NEW v \in Nat, NEW w \in Nat, LowHalf(v), LowHalf(w),
         \A m \in 1..4 : Index(v, m) = Index(w, m)
  PROVE  v = w
<1>. DEFINE N == NIdx
            q(x) == x \div N
            i(x) == x % N
<1>1. N \in Nat \ {0} /\ N * N \in Nat \ {0} /\ (N * N) * N \in Nat \ {0}
  <2>1. \A a, b \in Nat \ {0} : a * b \in Nat \ {0}
    OBVIOUS
  <2>2. N \in Nat \ {0}
    OBVIOUS
  <2>. HIDE DEF N
  <2>3. N * N \in Nat \ {0}
    BY <2>1, <2>2
  <2>. QED  BY <2>1, <2>2, <2>3
<1>2. \A x \in Nat : x = N * q(x) + i(x) /\ q(x) \in Nat
  <2>. HIDE DEF N
  <2>. QED  BY <1>1
<1>3. ASSUME NEW x \in Nat, LowHalf(x)
      PROVE  /\ Index(x, 1) = i(x) /\ Index(x, 2) = i(q(x))
             /\ Index(x, 3) = i(q(q(x))) /\ Index(x, 4) = q(q(q(x)))
  <2>1. x \in Nat
    OBVIOUS
  <2>2. Index(x, 1) = i(x)
    BY <2>1 DEF Index, Span
  <2>3. Index(x, 2) = i(q(x))
    BY DEF Index, Span
  <2>4. x \div (N * N) = q(q(x))
    <3>. HIDE DEF N
    <3>. QED  BY <1>1, <2>1, DivDiv, ZenonT(40)
  <2>5. Index(x, 3) = i(q(q(x)))
    BY <2>4 DEF Index, Span
  <2>6. x \div ((N * N) * N) = q(q(q(x)))
    <3>. HIDE DEF N
    <3>1. x \div ((N * N) * N) = (x \div (N * N)) \div N
      BY <1>1, <2>1, DivDiv, ZenonT(40)
    <3>. QED  BY <2>4, <3>1
  <2>7. Index(x, 4) = q(q(q(x)))
    <3>1. x \div Span(4) = q(q(q(x)))
      BY <2>6 DEF Span
    <3>. QED  BY <1>3, <3>1, LowIndex
  <2>. QED  BY <2>2, <2>3, <2>5, <2>7
<1>5. /\ i(v) = i(w) /\ i(q(v)) = i(q(w)) /\ i(q(q(v))) = i(q(q(w)))
      /\ q(q(q(v))) = q(q(q(w)))
  <2>1. /\ Index(v, 1) = Index(w, 1) /\ Index(v, 2) = Index(w, 2)
        /\ Index(v, 3) = Index(w, 3) /\ Index(v, 4) = Index(w, 4)
    OBVIOUS
  <2>. HIDE DEF q, i
  <2>. QED  BY <1>3, <2>1
<1>. HIDE DEF q, i, N
<1>6. q(q(v)) = q(q(w))
  BY <1>2, <1>5
<1>7. q(v) = q(w)
  BY <1>2, <1>5, <1>6
<1>. QED  BY <1>2, <1>5, <1>7

LEMMA NewTablePath == IInv /\ Path /\ MapNewTable => Path'
<1>. SUFFICES ASSUME IInv, Path, MapNewTable,
                     NEW g, g = node', NEW n, n = node, NEW q, q = Slot,
                     NEW e, e = [frame |-> g, flags |-> {"P", "W", "U"}],
                     NEW z, z = [k \in Idx |-> NoEntry]
              PROVE  Path'
  OBVIOUS
<1>1. /\ Mapping /\ lvl > 1 /\ Allocate(g) /\ lvl' = lvl - 1
      /\ tbl' = [tbl EXCEPT ![g] = z, ![n][q] = e]
      /\ UNCHANGED <<pc, space, va>>
  BY DEF MapNewTable
<1>2. g \in Frame /\ g \notin Tables
  BY <1>1, Fresh DEF IInv, KernelShared
<1>3. /\ n \in Tables /\ n \in Frame /\ q \in Idx /\ lvl \in 2..4
  BY <1>1, WalkFacts
<1>4. g # n
  BY <1>2, <1>3
<1>5. /\ tbl'[n] = [tbl[n] EXCEPT ![q] = e]
      /\ \A t \in Frame \ {g, n} : tbl'[t] = tbl[t]
  BY <1>1, <1>2, <1>3, <1>4 DEF IInv, TypeOK
<1>6. /\ space \in Spaces /\ va \in Nat /\ LowHalf(va)
      /\ Down(tbl, space, va, lvl) /\ TableAt(tbl, space, va, lvl) = n
  BY <1>1 DEF Path, IInv, Running, Walking, TypeOK, Mapping
<1>7. ASSUME NEW m \in 1..4, m > lvl
      PROVE  tbl'[TableAt(tbl, space, va, m)][Index(va, m)] = EntryAt(tbl, space, va, m)
  <2>1. Down(tbl, space, va, m)
    BY <1>6, <1>7, <1>3 DEF Down
  <2>2. TableAt(tbl, space, va, m) # n
    BY <2>1, <1>1, <1>3, <1>6, <1>7, MeetsSlot
  <2>3. TableAt(tbl, space, va, m) \in Tables
    BY <2>1, <1>6, WalkTables DEF IInv
  <2>. QED  BY <2>2, <2>3, <1>2, <1>5 DEF EntryAt, Tables
<1>8. /\ \A m \in 1..4 : m > lvl => EntryAt(tbl', space, va, m) = EntryAt(tbl, space, va, m)
      /\ TableAt(tbl', space, va, lvl) = n
  BY <1>3, <1>6, <1>7, WalkSame
<1>9. EntryAt(tbl', space, va, lvl) = e
  <2>1. tbl'[n][q] = e
    BY <1>3, <1>5 DEF IInv, TypeOK
  <2>. QED  BY <1>8, <2>1 DEF EntryAt, Slot
<1>10. TableAt(tbl', space, va, lvl - 1) = g
  BY <1>3, <1>9, NextTable
<1>11. Down(tbl', space, va, lvl - 1)
  <2>1. Present(e)
    BY DEF Present
  <2>2. \A m \in 1..4 : m > lvl - 1 => m > lvl \/ m = lvl
    BY <1>3
  <2>3. \A m \in 1..4 : m > lvl => Present(EntryAt(tbl, space, va, m))
    BY <1>6 DEF Down
  <2>. QED  BY <2>1, <2>2, <2>3, <1>8, <1>9 DEF Down
<1>12. pc' = pc /\ space' = space /\ va' = va /\ pc # "fill"
  BY <1>1 DEF Mapping
<1>. QED  BY <1>1, <1>10, <1>11, <1>12 DEF Path, Mapping

LEMMA PathStep == IInv /\ IInv' /\ Path /\ Next => Path'
<1>. SUFFICES ASSUME IInv, IInv', Path, Next PROVE Path'
  OBVIOUS
<1>1. CASE MapNewTable
  BY <1>1, NewTablePath
<1>2. CASE MapDescend
  <2>1. /\ Mapping /\ lvl > 1 /\ Present(tbl[node][Slot])
        /\ node' = tbl[node][Slot].frame /\ lvl' = lvl - 1
        /\ UNCHANGED <<tbl, pc, space, va>>
    BY <1>2 DEF MapDescend
  <2>2. /\ Down(tbl, space, va, lvl) /\ TableAt(tbl, space, va, lvl) = node
        /\ lvl \in 2..4
    BY <2>1, WalkFacts DEF Path
  <2>3. EntryAt(tbl, space, va, lvl) = tbl[node][Slot]
    BY <2>2 DEF EntryAt, Slot
  <2>4. TableAt(tbl, space, va, lvl - 1) = node'
    BY <2>1, <2>2, <2>3, NextTable
  <2>5. Down(tbl, space, va, lvl - 1)
    <3>1. \A m \in 1..4 : m > lvl - 1 => m > lvl \/ m = lvl
      BY <2>2
    <3>. QED  BY <3>1, <2>1, <2>2, <2>3 DEF Down
  <2>. QED  BY <2>1, <2>4, <2>5 DEF Path, Mapping
<1>3. CASE MapPte
  <2>1. /\ Mapping /\ pc' \in {"fill", "stack", "fork"}
        /\ pc' = "fill" => va' = va
        /\ UNCHANGED <<space, frame, flags>>
    BY <1>3 DEF MapPte, Mapping
  <2>2. space \in Spaces /\ va \in Nat /\ LowHalf(va) /\ "P" \in flags
    BY <2>1 DEF IInv, Running, Walking, Flight, TypeOK, Mapping
  <2>3. PteOf(tbl', space, va) = [frame |-> frame, flags |-> flags]
    BY <1>3, <2>2, PteView
  <2>. QED  BY <2>1, <2>2, <2>3 DEF Path, Mapping, LowHalf
<1>4. CASE SegmentPage \/ StackPage \/ ForkPage
  <2>1. /\ lvl' = 4 /\ node' = space /\ space' = space /\ pc' # "fill"
    BY <1>4 DEF SegmentPage, StackPage, ForkPage
  <2>. QED  BY <2>1 DEF Path, Down, TableAt
<1>5. CASE pc' \notin {"map_segment", "map_stack", "map_fork", "fill"}
  BY <1>5 DEF Path, Mapping
<1>6. ASSUME ~ (MapNewTable \/ MapDescend \/ MapPte \/ SegmentPage \/ StackPage \/ ForkPage)
      PROVE  pc' \notin {"map_segment", "map_stack", "map_fork", "fill"}
  <2>1. \/ CreateOutOfMemory \/ (\E p \in Programs : ExecStart(p)) \/ ForkStart
        \/ SegmentNext \/ SegmentFill \/ SegmentsDone \/ EnterUser
        \/ ExecOutOfMemory \/ (\E v \in 0..StackTop : UserWrite(v)) \/ UserFault \/ ForkSkip
        \/ ForkOutOfMemory \/ ForkDone \/ ForkFault \/ MapOutOfMemory
    BY <1>6 DEF Next, KernelStep
  <2>. QED  BY <2>1 DEF CreateOutOfMemory, ExecStart, ForkStart, SegmentNext,
         SegmentFill, SegmentsDone, EnterUser, ExecOutOfMemory, UserWrite,
         UserFault, ForkSkip, ForkOutOfMemory, ForkDone, ForkFault,
         MapOutOfMemory, vars
<1>. QED  BY <1>1, <1>2, <1>3, <1>4, <1>5, <1>6

LEMMA PathInvariance == Spec => [](IInv /\ Path)
<1>1. Init => Path
  BY DEF Init, Path, Mapping
<1>2. IInv /\ Path /\ [Next]_vars => (IInv /\ Path)'
  <2>1. IInv /\ Path /\ UNCHANGED vars => Path'
    <3>. SUFFICES ASSUME Path, UNCHANGED vars PROVE Path'
      OBVIOUS
    <3>1. UNCHANGED <<tbl, pc, space, va, frame, flags, node, lvl>>
      BY DEF vars, map
    <3>. QED  BY <3>1 DEF Path, Mapping, LowHalf
  <2>. QED  BY <2>1, IInvStep, PathStep
<1>. QED  BY <1>1, <1>2, InitIInv, PTL DEF Spec

\* Only vmm_create_address_space and the writing of a PTE change what is
\* mapped.
LEMMA ViewStep ==
  ASSUME IInv, [Next]_vars
  PROVE  \/ MapPte
         \/ \E f \in Frame : Create(f) /\ UNCHANGED <<cr3, data>>
         \/ /\ Spaces' = Spaces
            /\ \A s \in Spaces, v \in Nat : LowHalf(v) =>
                  PteOf(tbl', s, v) = PteOf(tbl, s, v)
<1>1. CASE MapNewTable
  <2>1. \A s \in Spaces, v \in Nat : LowHalf(v) => PteOf(tbl', s, v) = PteOf(tbl, s, v)
    BY <1>1, NewTableView
  <2>2. Spaces' = Spaces
    <3>1. /\ Mapping /\ lvl > 1 /\ Allocate(node')
          /\ level' = [level EXCEPT ![node'] = lvl - 1]
      BY <1>1 DEF MapNewTable
    <3>2. node' \in Frame /\ level[node'] = 0
      BY <3>1, Fresh DEF IInv, KernelShared
    <3>. QED  BY <3>1, <3>2 DEF IInv, TypeOK, Spaces
  <2>. QED  BY <2>1, <2>2
<1>2. CASE (\E p \in Programs : ExecStart(p)) \/ ForkStart
  BY <1>2 DEF ExecStart, ForkStart
<1>3. CASE UNCHANGED <<tbl, level>>
  BY <1>3 DEF Spaces
<1>4. ASSUME ~ (MapNewTable \/ (\E p \in Programs : ExecStart(p)) \/ ForkStart \/ MapPte)
      PROVE  UNCHANGED <<tbl, level>>
  <2>1. \/ CreateOutOfMemory \/ SegmentPage \/ StackPage \/ ForkPage
        \/ SegmentNext \/ SegmentFill \/ SegmentsDone \/ EnterUser \/ MapDescend
        \/ ExecOutOfMemory \/ (\E v \in 0..StackTop : UserWrite(v)) \/ UserFault \/ ForkSkip
        \/ ForkOutOfMemory \/ ForkDone \/ ForkFault \/ MapOutOfMemory
        \/ UNCHANGED vars
    BY <1>4 DEF Next, KernelStep
  <2>. QED  BY <2>1 DEF CreateOutOfMemory, SegmentNext, SegmentPage, StackPage, ForkPage,
         SegmentFill, SegmentsDone, EnterUser, ExecOutOfMemory, UserWrite, MapDescend,
         UserFault, ForkSkip, ForkOutOfMemory, ForkDone, ForkFault,
         MapOutOfMemory, vars
<1>. QED  BY <1>1, <1>2, <1>3, <1>4

\* vmm_map_page maps the page it was asked for, and no other.
LEMMA PteAt ==
  ASSUME IInv, Path, MapPte, NEW s \in Spaces, NEW v \in Nat, LowHalf(v)
  PROVE  PteOf(tbl', s, v) = IF s = space /\ v = va
                             THEN [frame |-> frame, flags |-> flags]
                             ELSE PteOf(tbl, s, v)
<1>1. va \in Nat /\ LowHalf(va)
  BY DEF MapPte, IInv, TypeOK, Walking
<1>2. (\A m \in 1..4 : Index(v, m) = Index(va, m)) <=> v = va
  BY <1>1, PagesDistinct
<1>. QED  BY <1>2, PteView

(***************************************************************************)
(* The tables implement partial functions.                                 *)
(***************************************************************************)
Maps == [s \in Spaces |-> [v \in 0..StackTop |-> PteOf(tbl, s, v)]]

LEMMA MapsUpdate ==
  ASSUME NEW S, NEW P, NEW M, M = [s \in S |-> [v \in P |-> M[s][v]]],
         NEW M2, M2 = [s \in S |-> [v \in P |-> M2[s][v]]],
         NEW x \in S, NEW w \in P, NEW e,
         \A s \in S, v \in P : M2[s][v] = IF s = x /\ v = w THEN e ELSE M[s][v]
  PROVE  M2 = [M EXCEPT ![x][w] = e]
<1>. DEFINE U == [M EXCEPT ![x][w] = e]
<1>1. U = [s \in S |-> IF s = x THEN [M[x] EXCEPT ![w] = e] ELSE M[s]]
  OBVIOUS
<1>2. [M[x] EXCEPT ![w] = e] = [v \in P |-> IF v = w THEN e ELSE M[x][v]]
  OBVIOUS
<1>3. ASSUME NEW s \in S PROVE M2[s] = U[s]
  <2>1. M2[s] = [v \in P |-> M2[s][v]]
    OBVIOUS
  <2>2. CASE s = x
    BY <2>1, <2>2, <1>1, <1>2
  <2>3. CASE s # x
    <3>1. M[s] = [v \in P |-> M[s][v]]
      OBVIOUS
    <3>2. \A v \in P : M2[s][v] = M[s][v]
      BY <2>3
    <3>3. M2[s] = [v \in P |-> M[s][v]]
      BY <2>1, <3>2
    <3>. QED  BY <2>3, <3>1, <3>3, <1>1
  <2>. QED  BY <2>2, <2>3
<1>. HIDE DEF U
<1>4. U = [s \in S |-> U[s]]
  BY <1>1
<1>5. M2 = [s \in S |-> M2[s]]
  OBVIOUS
<1>6. M2 = U
  BY <1>3, <1>4, <1>5
<1>. QED  BY <1>6 DEF U

LEMMA RefineMapInit == Init => PageMaps!Init
<1>. SUFFICES ASSUME Init PROVE PageMaps!Init
  OBVIOUS
<1>1. Spaces = {}
  BY DEF Init, Spaces
<1>2. Maps = [s \in {} |-> [v \in 0..StackTop |-> PageMaps!Unmapped]]
  BY <1>1 DEF Maps
<1>. QED  BY <1>2 DEF PageMaps!Init, Init, Maps

LEMMA RefineMapStep ==
  IInv /\ IInv' /\ Path /\ [Next]_vars => [PageMaps!Next]_(PageMaps!vars)
<1>. SUFFICES ASSUME IInv, IInv', Path, [Next]_vars
              PROVE  PageMaps!Next \/ UNCHANGED <<Maps, cr3>>
  BY DEF PageMaps!vars, Maps
<1>. DEFINE P == 0..StackTop
<1>1. \A v \in P : v \in Nat /\ LowHalf(v)
  BY LowHalfAssumption
<1>2. DOMAIN Maps = Spaces /\ \A s \in Spaces, v \in P : Maps[s][v] = PteOf(tbl, s, v)
  BY DEF Maps
<1>3. DOMAIN Maps' = Spaces' /\ \A s \in Spaces', v \in P : Maps'[s][v] = PteOf(tbl', s, v)
  BY DEF Maps
<1>4. ASSUME NEW f \in Frame, Create(f), UNCHANGED cr3
      PROVE  PageMaps!Next
  <2>1. Spaces' = Spaces \cup {f} /\ f \notin Spaces /\ f # KernelPml4
    BY <1>4, CreateStep
  <2>2. \A v \in P : /\ \A s \in Spaces : PteOf(tbl', s, v) = PteOf(tbl, s, v)
                     /\ PteOf(tbl', f, v) = NoEntry
    BY <1>1, <1>4, CreateView
  <2>3. Maps' = [x \in Spaces \cup {f} |->
                   IF x = f THEN [v \in P |-> NoEntry] ELSE Maps[x]]
    <3>1. Maps' = [x \in Spaces \cup {f} |-> [v \in P |-> PteOf(tbl', x, v)]]
      BY <2>1 DEF Maps
    <3>2. ASSUME NEW x \in Spaces \cup {f}
          PROVE  [v \in P |-> PteOf(tbl', x, v)]
                   = IF x = f THEN [v \in P |-> NoEntry] ELSE Maps[x]
      <4>1. CASE x = f
        BY <2>2, <4>1
      <4>2. CASE x # f
        BY <2>2, <4>2 DEF Maps
      <4>. QED  BY <4>1, <4>2
    <3>. QED  BY <3>1, <3>2
  <2>4. PageMaps!Create(f)
    BY <1>2, <1>4, <2>1, <2>3
       DEF PageMaps!Create, PageMaps!Unmapped, NoEntry, Maps
  <2>5. f \in DOMAIN Maps' \ DOMAIN Maps
    BY <1>2, <1>3, <2>1
  <2>. QED  BY <2>4, <2>5 DEF PageMaps!Next, Maps
<1>5. CASE MapPte
  <2>. DEFINE e == [frame |-> frame, flags |-> flags]
  <2>1. /\ Mapping /\ UNCHANGED <<cr3, level>>
        /\ space \in Spaces
    BY <1>5 DEF MapPte, IInv, Running, Mapping
  <2>2. Spaces' = Spaces
    BY <2>1 DEF Spaces
  <2>3. /\ frame \in Frame /\ frame \notin Spaces /\ frame # KernelPml4
        /\ flags \subseteq Flag /\ "P" \in flags
        /\ \A t \in Tables, k \in Idx : Link(t, k) => Target(t, k) # frame
    BY <2>1 DEF IInv, Flight, TypeOK, Spaces
  <2>4. \A s \in Spaces, v \in P : Present(PteOf(tbl, s, v)) => PteOf(tbl, s, v).frame # frame
    BY <1>1, <2>3, PteTarget DEF IInv
  <2>5. \A s \in Spaces, v \in P :
          PteOf(tbl', s, v) =
            IF s = space /\ \A m \in 1..4 : Index(v, m) = Index(va, m)
            THEN e ELSE PteOf(tbl, s, v)
    BY <1>1, <1>5, PteView
  <2>. HIDE DEF e
  <2>6. CASE \E w \in P : \A m \in 1..4 : Index(w, m) = Index(va, m)
    <3>1. PICK w \in P : \A m \in 1..4 : Index(w, m) = Index(va, m)
      BY <2>6
    <3>2. \A v \in P : (\A m \in 1..4 : Index(v, m) = Index(va, m)) <=> v = w
      BY <1>1, <3>1, PagesDistinct
    <3>3. \A s \in Spaces, v \in P :
            Maps'[s][v] = IF s = space /\ v = w THEN e ELSE Maps[s][v]
      BY <1>2, <1>3, <2>2, <2>5, <3>2
    <3>4. Maps' = [Maps EXCEPT ![space][w] = e]
      <4>1. Maps = [s \in Spaces |-> [v \in P |-> Maps[s][v]]]
        BY DEF Maps
      <4>2. Maps' = [s \in Spaces |-> [v \in P |-> Maps'[s][v]]]
        BY <2>2 DEF Maps
      <4>. HIDE DEF P
      <4>. QED  BY <4>1, <4>2, <3>3, <2>1, MapsUpdate
    <3>5. Maps'[space][w] = e /\ e # Maps[space][w]
      <4>1. Present(e) /\ e.frame = frame
        BY <2>3 DEF e, Present
      <4>2. e # PteOf(tbl, space, w)
        BY <4>1, <2>1, <2>4
      <4>. QED  BY <4>2, <3>3, <2>1, <1>2
    <3>6. PageMaps!Map(space, w, e)
      <4>1. \A x \in Spaces, v \in P : PageMaps!Mapped(x, v) => PteOf(tbl, x, v).frame # frame
        BY <1>2, <2>4 DEF PageMaps!Mapped, Present, Maps
      <4>2. e.frame = frame /\ e.flags = flags
        BY DEF e
      <4>. QED  BY <1>2, <2>1, <2>3, <3>4, <3>5, <4>1, <4>2 DEF PageMaps!Map, Maps
    <3>7. Maps'[space] # Maps[space]
      BY <3>5
    <3>. QED  BY <1>2, <2>1, <3>5, <3>6, <3>7 DEF PageMaps!Next, Maps
  <2>7. CASE ~ \E w \in P : \A m \in 1..4 : Index(w, m) = Index(va, m)
    <3>1. \A s \in Spaces, v \in P : PteOf(tbl', s, v) = PteOf(tbl, s, v)
      BY <2>5, <2>7
    <3>2. Maps' = Maps
      BY <2>2, <3>1 DEF Maps
    <3>. QED  BY <2>1, <3>2
  <2>. QED  BY <2>6, <2>7
<1>6. CASE /\ Spaces' = Spaces
           /\ \A s \in Spaces, v \in Nat : LowHalf(v) =>
                PteOf(tbl', s, v) = PteOf(tbl, s, v)
  <2>1. Maps' = Maps
    BY <1>1, <1>6 DEF Maps
  <2>2. cr3' = cr3 \/ cr3' \in Spaces \cup {KernelPml4}
    BY <1>6 DEF IInv, Running
  <2>3. cr3' \in DOMAIN Maps \cup {KernelPml4} => PageMaps!Next
    BY <2>1 DEF PageMaps!Next, PageMaps!Switch, Maps
  <2>. QED  BY <2>1, <2>2, <2>3, <1>2
<1>. QED  BY <1>4, <1>5, <1>6, ViewStep

(***************************************************************************)
(* sys_fork.                                                               *)
(***************************************************************************)
Pages == 0..StackTop

\* Every page that is mapped is mapped for the user, to a frame that is not 0.
UserPages ==
  /\ 0 \notin used \ Reserved
  /\ Mapping => "U" \in flags
  /\ \A s \in Spaces, v \in Pages :
       Present(PteOf(tbl, s, v)) => "U" \in PteOf(tbl, s, v).flags

\* A program that runs may write to its stack.
StackMapped ==
  /\ pc = "map_stack" => "W" \in flags
  /\ pc \in {"stack", "map_stack"} =>
       \A v \in StackBottom..StackTop : v < va => "W" \in PteOf(tbl, space, v).flags
  /\ pc \in {"user", "fork", "map_fork"} =>
       \A v \in StackBottom..StackTop : "W" \in PteOf(tbl, cr3, v).flags

\* What sys_fork has still to do, and what it is about to map.
Copying ==
  /\ pc \in {"fork", "map_fork"} =>
       /\ va <= UserEnd
       /\ \A v \in Pages : va <= v => ~ Present(PteOf(tbl, space, v))
  /\ pc = "map_fork" =>
       LET p == PteOf(tbl, cr3, va)
       IN /\ Present(p) /\ data[frame] = data[p.frame]
          /\ {"U", "W"} \cap flags \subseteq p.flags

ForkInv == IInv /\ Path /\ UserPages /\ StackMapped /\ Copying /\ ForkCopies

LEMMA PagesLow == \A v \in Pages : v \in Nat /\ LowHalf(v)
BY LowHalfAssumption DEF Pages

LEMMA FreshNotZero ==
  ASSUME IInv, UserPages, NEW f, Allocate(f)
  PROVE  f # 0 /\ 0 \notin used' \ Reserved
BY Fresh DEF UserPages, IInv, KernelShared

LEMMA UserPagesStep ==
  ASSUME IInv, IInv', Path, UserPages, [Next]_vars PROVE UserPages'
<1>1. 0 \notin used' \ Reserved
  <2>1. used' \subseteq used \/ \E f : Allocate(f)
    BY DEF Next, KernelStep, CreateOutOfMemory, ExecStart, ForkStart, SegmentNext,
         SegmentPage, StackPage, SegmentsDone, EnterUser, ExecOutOfMemory, SegmentFill,
         MapDescend, MapNewTable, MapPte, UserFault, ForkSkip, ForkOutOfMemory,
         ForkDone, ForkFault, MapOutOfMemory, UserWrite, ForkPage, Create, vars, alloc
  <2>. QED  BY <2>1, FreshNotZero DEF UserPages
<1>2. Mapping' => "U" \in flags'
  <2>1. CASE SegmentPage \/ StackPage \/ ForkPage
    BY <2>1 DEF SegmentPage, StackPage, ForkPage
  <2>2. CASE Mapping /\ flags' = flags
    BY <2>2 DEF UserPages
  <2>3. ASSUME ~ (SegmentPage \/ StackPage \/ ForkPage), ~ (Mapping /\ flags' = flags)
        PROVE  pc' \notin {"map_segment", "map_stack", "map_fork"}
    <3>1. ~ Mapping => pc' \notin {"map_segment", "map_stack", "map_fork"}
      BY <2>3 DEF Next, KernelStep, CreateOutOfMemory, ExecStart, ForkStart, SegmentNext,
         SegmentsDone, EnterUser, ExecOutOfMemory, SegmentFill,
         MapDescend, MapNewTable, MapPte, UserFault, ForkSkip, ForkOutOfMemory,
         ForkDone, ForkFault, MapOutOfMemory, UserWrite, Mapping, vars
    <3>2. Mapping => flags' = flags
      BY <2>3 DEF Next, KernelStep, CreateOutOfMemory, ExecStart, ForkStart, SegmentNext,
         SegmentsDone, EnterUser, ExecOutOfMemory, SegmentFill,
         MapDescend, MapNewTable, MapPte, UserFault, ForkSkip, ForkOutOfMemory,
         ForkDone, ForkFault, MapOutOfMemory, UserWrite, Mapping, vars, map
    <3>. QED  BY <2>3, <3>1, <3>2
  <2>. QED  BY <2>1, <2>2, <2>3 DEF Mapping
<1>3. ASSUME NEW s \in Spaces', NEW v \in Pages, Present(PteOf(tbl', s, v))
      PROVE  "U" \in PteOf(tbl', s, v).flags
  <2>1. v \in Nat /\ LowHalf(v)
    BY PagesLow
  <2>2. CASE MapPte
    <3>1. Mapping /\ s \in Spaces /\ "U" \in flags
      BY <2>2 DEF MapPte, Spaces, UserPages
    <3>2. \/ PteOf(tbl', s, v) = PteOf(tbl, s, v)
          \/ PteOf(tbl', s, v) = [frame |-> frame, flags |-> flags]
      BY <2>2, <3>1, PagesLow, PteAt
    <3>. QED  BY <3>1, <3>2, <1>3 DEF UserPages
  <2>3. ASSUME NEW f \in Frame, Create(f) PROVE "U" \in PteOf(tbl', s, v).flags
    <3>1. s \in Spaces \/ s = f
      BY <2>3, CreateStep
    <3>2. s # f
      BY <1>3, <2>1, <2>3, CreateView, EntryTypes
    <3>3. PteOf(tbl', s, v) = PteOf(tbl, s, v)
      BY <2>1, <2>3, <3>1, <3>2, CreateView
    <3>. QED  BY <1>3, <3>1, <3>2, <3>3 DEF UserPages
  <2>4. CASE /\ Spaces' = Spaces
             /\ PteOf(tbl', s, v) = PteOf(tbl, s, v)
    BY <2>4, <1>3 DEF UserPages
  <2>. QED  BY <2>1, <2>2, <2>3, <2>4, ViewStep
<1>. QED  BY <1>1, <1>2, <1>3 DEF UserPages

LEMMA StackMappedStep ==
  ASSUME IInv, IInv', Path, StackMapped, [Next]_vars PROVE StackMapped'
<1>. DEFINE Stack == StackBottom..StackTop
            W(e) == "W" \in e.flags
<1>1. Stack \subseteq Pages
  BY DEF Pages
<1>. HIDE DEF Stack, W
<1>2. CASE MapPte
  <2>1. /\ pc' = CASE pc = "map_segment" -> "fill" [] pc = "map_stack" -> "stack" [] OTHER -> "fork"
        /\ va' = IF pc = "map_segment" THEN va ELSE va + 1
        /\ UNCHANGED <<cr3, space, flags>> /\ va \in Nat
        /\ pc \in {"map_segment", "map_stack", "map_fork"}
    BY <1>2 DEF MapPte, Mapping, exec, IInv, TypeOK
  <2>2. CASE pc = "map_segment"
    BY <2>1, <2>2 DEF StackMapped
  <2>3. CASE pc = "map_stack"
    <3>1. space \in Spaces /\ va \in Nat
      BY <2>3 DEF IInv, Running, TypeOK
    <3>2. ASSUME NEW v \in StackBottom..StackTop, v < va + 1
          PROVE  "W" \in PteOf(tbl', space, v).flags
      <4>0. v \in Pages
        BY <1>1 DEF Stack
      <4>1. \/ PteOf(tbl', space, v) = PteOf(tbl, space, v)
            \/ PteOf(tbl', space, v) = [frame |-> frame, flags |-> flags]
        BY <1>2, <3>1, <4>0, PagesLow, PteAt
      <4>2. v = va => PteOf(tbl', space, v) = [frame |-> frame, flags |-> flags]
        BY <1>2, <3>1, <4>0, PagesLow, PteAt
      <4>3. "W" \in flags /\ (v < va => "W" \in PteOf(tbl, space, v).flags)
        BY <2>3 DEF StackMapped
      <4>4. v < va \/ v = va
        BY <3>1, <3>2
      <4>. QED  BY <4>1, <4>2, <4>3, <4>4
    <3>. QED  BY <2>1, <2>3, <3>2 DEF StackMapped
  <2>4. CASE pc = "map_fork"
    <3>1. cr3 \in Spaces /\ cr3 # space
      BY <2>4 DEF IInv, Running
    <3>2. \A v \in StackBottom..StackTop : PteOf(tbl', cr3, v) = PteOf(tbl, cr3, v)
      BY <1>1, <1>2, <3>1, PagesLow, PteAt DEF Stack
    <3>. QED  BY <2>1, <2>4, <3>2 DEF StackMapped
  <2>. QED  BY <2>1, <2>2, <2>3, <2>4
<1>3. ASSUME ~ MapPte
      PROVE  \A s \in Spaces, v \in StackBottom..StackTop : PteOf(tbl', s, v) = PteOf(tbl, s, v)
  <2>. TAKE s \in Spaces, v \in StackBottom..StackTop
  <2>1. v \in Nat /\ LowHalf(v)
    BY <1>1, PagesLow DEF Stack
  <2>. QED  BY <1>3, <2>1, ViewStep, CreateView
<1>4. CASE StackPage
  <2>1. /\ pc = "stack" /\ pc' = "map_stack" /\ "W" \in flags'
        /\ UNCHANGED <<space, va>> /\ space \in Spaces /\ ~ MapPte
    BY <1>4 DEF StackPage, MapPte, Mapping, IInv, Running
  <2>. QED  BY <2>1, <1>3 DEF StackMapped
<1>5. CASE SegmentsDone
  BY <1>5 DEF SegmentsDone, StackMapped
<1>6. CASE EnterUser
  <2>1. /\ pc = "stack" /\ pc' = "user" /\ cr3' = space /\ va > StackTop
        /\ space \in Spaces /\ ~ MapPte /\ va \in Nat
    BY <1>6 DEF EnterUser, MapPte, Mapping, IInv, Running, TypeOK
  <2>2. \A v \in StackBottom..StackTop : v < va
    BY <2>1
  <2>. QED  BY <2>1, <2>2, <1>3 DEF StackMapped
<1>7. CASE /\ ~ MapPte /\ pc' = pc /\ UNCHANGED <<space, va, cr3, flags>>
  BY <1>7, <1>3 DEF StackMapped, IInv, Running
<1>8. CASE /\ ~ MapPte
           /\ pc \in {"user", "fork", "map_fork"} /\ pc' \in {"user", "fork", "map_fork"}
           /\ cr3' = cr3
  BY <1>8, <1>3 DEF StackMapped, IInv, Running
<1>9. CASE pc' \in {"shell", "segment", "map_segment", "fill", "halted"}
  BY <1>9 DEF StackMapped
<1>10. ASSUME ~ MapPte, ~ StackPage, ~ SegmentsDone, ~ EnterUser
       PROVE  \/ pc' = pc /\ UNCHANGED <<space, va, cr3, flags>>
              \/ /\ pc \in {"user", "fork", "map_fork"} /\ pc' \in {"user", "fork", "map_fork"}
                 /\ cr3' = cr3
              \/ pc' \in {"shell", "segment", "map_segment", "fill", "halted"}
  BY <1>10 DEF Next, KernelStep, CreateOutOfMemory, ExecStart, ForkStart, SegmentNext,
         SegmentPage, ExecOutOfMemory, SegmentFill,
         MapDescend, MapNewTable, UserFault, ForkSkip, ForkOutOfMemory,
         ForkDone, ForkFault, MapOutOfMemory, UserWrite, ForkPage, vars, map, Mapping
<1>. QED  BY <1>2, <1>4, <1>5, <1>6, <1>7, <1>8, <1>9, <1>10

\* Page v of the parent has been copied.
Copied(v) ==
  LET p == PteOf(tbl, cr3, v)
      c == PteOf(tbl, space, v)
  IN /\ Present(p) <=> Present(c)
     /\ Present(p) => /\ c.frame # p.frame /\ data[c.frame] = data[p.frame]
                     /\ {"U", "W"} \cap c.flags \subseteq p.flags

\* The frame of a page that is mapped.
LEMMA MappedFrame ==
  ASSUME IInv, UserPages, NEW s \in Spaces, NEW v \in Pages,
         Present(PteOf(tbl, s, v))
  PROVE  /\ PteOf(tbl, s, v).frame \in Frame \ {0}
         /\ PteOf(tbl, s, v).frame \in used
         /\ Mapping => PteOf(tbl, s, v).frame # frame
<1>1. v \in Nat /\ LowHalf(v)
  BY PagesLow
<1>2. PICK t \in Tables, k \in Idx :
        /\ Link(t, k) /\ Target(t, k) = PteOf(tbl, s, v).frame
        /\ Target(t, k) \in used \ Reserved
  BY <1>1, PteTarget DEF IInv
<1>. QED  BY <1>2 DEF IInv, TypeOK, UserPages, Flight

LEMMA CopyStep ==
  ASSUME IInv, IInv', Path, UserPages, StackMapped, Copying, ForkCopies,
         [Next]_vars
  PROVE  Copying' /\ ForkCopies'
<1>1. CASE ForkStart
  <2>1. PICK f \in Frame : Create(f)
    BY <1>1 DEF ForkStart
  <2>2. /\ pc' \in {"fork", "halted"} /\ va' = 0 /\ space' = f
    BY <1>1, <2>1 DEF ForkStart, Create
  <2>3. \A v \in Pages : ~ Present(PteOf(tbl', f, v))
    BY <2>1, PagesLow, CreateView, EntryTypes
  <2>. QED  BY <2>2, <2>3 DEF Copying, ForkCopies, UserEnd
<1>2. CASE ForkSkip
  <2>1. /\ pc = "fork" /\ va < UserEnd /\ parent_phys = 0 /\ va' = va + 1
        /\ UNCHANGED <<tbl, data, cr3, pc, space>>
        /\ va \in Pages /\ cr3 \in Spaces
    BY <1>2 DEF ForkSkip, IInv, TypeOK, Running, UserEnd, Pages
  <2>2. ~ Present(PteOf(tbl, cr3, va))
    <3>. SUFFICES ASSUME Present(PteOf(tbl, cr3, va)) PROVE FALSE
      OBVIOUS
    <3>1. PteOf(tbl, cr3, va).frame \in Frame \ {0}
      BY <2>1, MappedFrame
    <3>. QED  BY <2>1, <3>1 DEF parent_phys, vmm_get_physical_address, Frame, NXBit
  <2>3. ~ Present(PteOf(tbl, space, va))
    BY <2>1 DEF Copying, Pages
  <2>4. Copying'
    <3>1. /\ \A v \in Pages : va + 1 <= v => va <= v
          /\ va + 1 <= UserEnd
      BY <2>1 DEF Pages, UserEnd
    <3>. QED  BY <2>1, <3>1 DEF Copying, UserEnd
  <2>5. ForkCopies'
    <3>. SUFFICES ASSUME NEW v \in 0..(va' - 1) PROVE Copied(v)'
      BY DEF ForkCopies, Copied
    <3>1. v = va \/ v \in 0..(va - 1)
      BY <2>1 DEF Pages
    <3>2. Copied(v)
      BY <2>1, <2>2, <2>3, <3>1 DEF ForkCopies, Copied
    <3>. QED  BY <2>1, <3>2 DEF Copied
  <2>. QED  BY <2>4, <2>5
<1>3. CASE ForkPage
  <2>. DEFINE p == PteOf(tbl, cr3, va)
  <2>1. /\ pc = "fork" /\ pc' = "map_fork" /\ va < UserEnd
        /\ parent_phys \in Frame \ {0}
        /\ Allocate(frame')
        /\ data' = [data EXCEPT ![frame'] = data[parent_phys]]
        /\ flags' = {"P", "U"} \cup (IF va \in StackBottom..StackTop THEN {"W"} ELSE {})
        /\ UNCHANGED <<tbl, cr3, space, va>>
        /\ va \in Pages /\ cr3 \in Spaces /\ space \in Spaces
    BY <1>3 DEF ForkPage, IInv, TypeOK, Running, UserEnd, Pages, exec
  <2>2. frame' \in Frame /\ frame' \notin used
    BY <2>1, Fresh DEF IInv, KernelShared
  <2>3. Present(p) /\ parent_phys = p.frame
    <3>1. Present(p)
      BY <2>1 DEF parent_phys, vmm_get_physical_address
    <3>2. p.frame \in Frame
      BY <2>1, <3>1, MappedFrame
    <3>. QED  BY <2>1, <3>1, <3>2 DEF parent_phys, vmm_get_physical_address, Frame, NXBit
  <2>4. \A f \in Frame : f # frame' => data'[f] = data[f]
    BY <2>1 DEF IInv, TypeOK
  <2>5. data'[frame'] = data[p.frame]
    BY <2>1, <2>2, <2>3 DEF IInv, TypeOK
  <2>6. \A s \in Spaces, v \in Pages : Present(PteOf(tbl, s, v)) =>
           data'[PteOf(tbl, s, v).frame] = data[PteOf(tbl, s, v).frame]
    BY <2>2, <2>4, MappedFrame
  <2>7. {"U", "W"} \cap flags' \subseteq p.flags
    <3>1. "U" \in p.flags
      BY <2>1, <2>3 DEF UserPages
    <3>2. va \in StackBottom..StackTop => "W" \in p.flags
      BY <2>1 DEF StackMapped
    <3>. QED  BY <2>1, <3>1, <3>2
  <2>8. Copying'
    BY <2>1, <2>3, <2>5, <2>6, <2>7 DEF Copying
  <2>9. ForkCopies'
    <3>1. \A v \in 0..(va - 1) : v \in Pages
      BY <2>1 DEF Pages
    <3>. QED  BY <2>1, <2>6, <3>1 DEF ForkCopies
  <2>. QED  BY <2>8, <2>9
<1>4. CASE MapPte /\ pc = "map_fork"
  <2>. DEFINE p == PteOf(tbl, cr3, va)
  <2>1. /\ pc' = "fork" /\ va' = va + 1
        /\ UNCHANGED <<data, cr3, space, frame, flags>>
        /\ va \in Pages /\ cr3 \in Spaces /\ space \in Spaces /\ space # cr3
        /\ Mapping /\ "P" \in flags
    BY <1>4 DEF MapPte, IInv, TypeOK, Running, Counters, Flight, UserEnd, Pages, exec, Mapping
  <2>2. \A v \in Pages : PteOf(tbl', cr3, v) = PteOf(tbl, cr3, v)
    BY <1>4, <2>1, PagesLow, PteAt
  <2>3. \A v \in Pages : v # va => PteOf(tbl', space, v) = PteOf(tbl, space, v)
    BY <1>4, <2>1, PagesLow, PteAt
  <2>4. PteOf(tbl', space, va) = [frame |-> frame, flags |-> flags]
    BY <1>4, <2>1, PagesLow, PteAt
  <2>5. /\ Present(p) /\ data[frame] = data[p.frame] /\ p.frame # frame
        /\ {"U", "W"} \cap flags \subseteq p.flags
    BY <1>4, <2>1, MappedFrame DEF Copying
  <2>6. Copying'
    <3>1. \A v \in Pages : va + 1 <= v => va <= v /\ v # va
      BY <2>1 DEF Pages
    <3>2. va + 1 <= UserEnd
      BY <2>1 DEF Pages, UserEnd
    <3>. QED  BY <1>4, <2>1, <2>3, <3>1, <3>2 DEF Copying
  <2>7. ForkCopies'
    <3>. SUFFICES ASSUME NEW v \in 0..(va' - 1) PROVE Copied(v)'
      BY DEF ForkCopies, Copied
    <3>1. CASE v = va
      <4>. DEFINE e == [frame |-> frame, flags |-> flags]
      <4>1. Present(e) /\ e.frame = frame /\ e.flags = flags
        BY <2>1 DEF Present
      <4>2. PteOf(tbl', cr3', v) = p /\ PteOf(tbl', space', v) = e
        BY <3>1, <2>1, <2>2, <2>4
      <4>. HIDE DEF e, p
      <4>. QED  BY <4>1, <4>2, <2>1, <2>5 DEF Copied
    <3>2. CASE v # va
      <4>1. v \in 0..(va - 1) /\ v \in Pages
        BY <3>2, <2>1 DEF Pages
      <4>2. Copied(v)
        BY <1>4, <4>1 DEF ForkCopies, Copied
      <4>. QED  BY <3>2, <4>1, <4>2, <2>1, <2>2, <2>3 DEF Copied
    <3>. QED  BY <3>1, <3>2
  <2>. QED  BY <2>6, <2>7
<1>5. CASE ~ MapPte /\ UNCHANGED <<pc, va, cr3, space, data, frame, flags>>
  <2>1. pc \in {"fork", "map_fork"} => cr3 \in Spaces /\ space \in Spaces /\ va \in Nat
    BY DEF IInv, Running, TypeOK
  <2>2. \A s \in Spaces, v \in Pages : PteOf(tbl', s, v) = PteOf(tbl, s, v)
    BY <1>5, PagesLow, ViewStep, CreateView
  <2>3. pc = "map_fork" => va \in Pages
    BY DEF IInv, Counters, TypeOK, UserEnd, Pages
  <2>4. Copying'
    BY <1>5, <2>1, <2>2, <2>3 DEF Copying
  <2>5. ForkCopies'
    <3>1. CASE pc \in {"fork", "map_fork"}
      <4>. SUFFICES ASSUME NEW v \in 0..(va' - 1) PROVE Copied(v)'
        BY DEF ForkCopies, Copied
      <4>1. v \in 0..(va - 1) /\ v \in Pages
        BY <1>5, <2>1, <3>1 DEF Copying, Pages, UserEnd
      <4>2. Copied(v)
        BY <3>1, <4>1 DEF ForkCopies, Copied
      <4>. QED  BY <1>5, <2>1, <2>2, <3>1, <4>1, <4>2 DEF Copied
    <3>2. CASE pc \notin {"fork", "map_fork"}
      BY <1>5, <3>2 DEF ForkCopies
    <3>. QED  BY <3>1, <3>2
  <2>. QED  BY <2>4, <2>5
<1>6. CASE pc' \notin {"fork", "map_fork"}
  BY <1>6 DEF Copying, ForkCopies
<1>7. ASSUME ~ ForkStart, ~ ForkSkip, ~ ForkPage, ~ (MapPte /\ pc = "map_fork"),
             pc' \in {"fork", "map_fork"}
      PROVE  ~ MapPte /\ UNCHANGED <<pc, va, cr3, space, data, frame, flags>>
  <2>1. ~ MapPte
    BY <1>7 DEF MapPte, Mapping
  <2>. QED
    BY <1>7, <2>1 DEF Next, KernelStep, CreateOutOfMemory, ExecStart, SegmentNext, StackPage,
         SegmentPage, ExecOutOfMemory, SegmentFill, SegmentsDone, EnterUser,
         MapDescend, MapNewTable, UserFault, ForkOutOfMemory,
         ForkDone, ForkFault, MapOutOfMemory, UserWrite, vars, map, Mapping
<1>. QED  BY <1>1, <1>2, <1>3, <1>4, <1>5, <1>6, <1>7
LEMMA ForkInvariance == Spec => []ForkInv
<1>1. Init => UserPages /\ StackMapped /\ Copying /\ ForkCopies
  <2>. SUFFICES ASSUME Init PROVE UserPages /\ StackMapped /\ Copying /\ ForkCopies
    OBVIOUS
  <2>1. Spaces = {} /\ used = Reserved /\ pc = "shell"
    BY DEF Init, Spaces
  <2>. QED  BY <2>1 DEF UserPages, StackMapped, Copying, ForkCopies, Mapping
<1>2. ForkInv /\ (IInv /\ Path)' /\ [Next]_vars => ForkInv'
  BY UserPagesStep, StackMappedStep, CopyStep DEF ForkInv
<1>3. Init /\ IInv /\ Path => ForkInv
  BY <1>1 DEF ForkInv
<1>. QED  BY <1>2, <1>3, PathInvariance, PTL DEF Spec

(***************************************************************************)
(* exec_elf.                                                               *)
(***************************************************************************)
Loading == pc \in {"segment", "map_segment", "fill"}
Setup == pc \in {"stack", "map_stack"}

\* The page and the place in it of byte k of segment s, and whether exec_elf
\* has come past it.
PageOf(s, k) == (Segs[s].vaddr + k) \div PAGE_SIZE
Offset(s, k) == (Segs[s].vaddr + k) % PAGE_SIZE
Byte(s, k) ==
  /\ s \in 1..Len(Segs) /\ Segs[s].load /\ k \in 0..(Segs[s].memsz - 1)
Done(s, k) == Byte(s, k) /\ (s < seg \/ (s = seg /\ k < off))

ByteLoaded(s, k) ==
  LET e == PteOf(tbl, space, PageOf(s, k))
  IN /\ Present(e) /\ "U" \in e.flags
     /\ ("W" \in e.flags) = Segs[s].w
     /\ data[e.frame][Offset(s, k)]
          = IF k < Segs[s].filesz THEN FileByte(s, k) ELSE Zero

\* Where exec_elf stands.
AtPage ==
  /\ off % PAGE_SIZE = 0
  /\ Setup => seg > Len(Segs) /\ va >= StackBottom
  /\ pc \in {"map_segment", "fill"} =>
       /\ seg <= Len(Segs) /\ Segs[seg].load /\ off < Segs[seg].memsz
       /\ va = PageOf(seg, off)
       /\ "U" \in flags /\ ("W" \in flags) = Segs[seg].w

\* What has been loaded is there, and nothing else is mapped.
Image ==
  Loading \/ Setup =>
    /\ AtPage
    /\ Regular(prog) => \A s, k : Done(s, k) => ByteLoaded(s, k)
    /\ \A v \in Nat : LowHalf(v) /\ Present(PteOf(tbl, space, v)) =>
         \/ \E s, k : Done(s, k) /\ v = PageOf(s, k)
         \/ pc = "fill" /\ v = va
         \/ Setup /\ v \in StackBottom..(va - 1)

(***************************************************************************)
(* Bytes and pages of a program.                                           *)
(***************************************************************************)
LEMMA SegFacts ==
  ASSUME TypeOK, NEW s \in 1..Len(Segs)
  PROVE  /\ Segs \in Seq(Segment) /\ Segs[s] \in Segment
         /\ Segs[s].vaddr \in Nat /\ Segs[s].memsz \in Nat /\ Segs[s].filesz \in Nat
         /\ Segs[s].w \in BOOLEAN /\ Segs[s].x \in BOOLEAN
<1>1. Segs \in Seq(Segment)
  BY ProgramsAssumption DEF Segs, TypeOK
<1>2. Segs[s] \in Segment
  BY <1>1
<1>. QED  BY <1>1, <1>2 DEF Segment

LEMMA ByteFacts ==
  ASSUME TypeOK, NEW s, NEW k, Byte(s, k)
  PROVE  /\ s \in Nat \ {0} /\ k \in Nat
         /\ PageOf(s, k) \in Nat /\ LowHalf(PageOf(s, k))
         /\ Offset(s, k) \in 0..(PAGE_SIZE - 1)
         /\ Segs[s].vaddr + k = PAGE_SIZE * PageOf(s, k) + Offset(s, k)
         /\ PageOf(s, k) \in PagesOf(Segs[s])
<1>1. s \in 1..Len(Segs) /\ Segs[s].load /\ k \in 0..(Segs[s].memsz - 1)
  BY DEF Byte
<1>2. Segs[s].vaddr \in Nat /\ Segs[s].memsz \in Nat
  BY <1>1, SegFacts
<1>3. LowHalf(PageOf(s, k))
  BY <1>1, LowHalfAssumption DEF PageOf, Segs, TypeOK
<1>. DEFINE a == Segs[s].vaddr + k
<1>4. a \in Nat
  BY <1>1, <1>2
<1>5. a \div PAGE_SIZE \in Nat /\ a % PAGE_SIZE \in 0..(PAGE_SIZE - 1)
      /\ a = PAGE_SIZE * (a \div PAGE_SIZE) + (a % PAGE_SIZE)
  <2>. HIDE DEF a
  <2>. QED  BY <1>4
<1>6. PageOf(s, k) \in PagesOf(Segs[s])
  BY <1>1 DEF PageOf, PagesOf
<1>7. s \in Nat \ {0} /\ k \in Nat
  BY <1>1, <1>2
<1>. QED  BY <1>3, <1>5, <1>6, <1>7 DEF PageOf, Offset

\* The byte at which a page of a segment begins.
LEMMA PageStart ==
  ASSUME TypeOK, Regular(prog), NEW s, NEW o, Byte(s, o), o % PAGE_SIZE = 0
  PROVE  /\ Segs[s].vaddr + o = PAGE_SIZE * PageOf(s, o)
         /\ \A k \in 0..(o - 1) : PageOf(s, k) # PageOf(s, o)
         /\ \A k \in o..(o + PAGE_SIZE - 1) :
              /\ (Segs[s].vaddr + k) \div PAGE_SIZE = PageOf(s, o)
              /\ (Segs[s].vaddr + k) % PAGE_SIZE = k - o
<1>1. s \in 1..Len(Segs) /\ Segs[s].load /\ o \in Nat
  BY DEF Byte
<1>2. Segs[s].vaddr \in Nat /\ Segs[s].vaddr % PAGE_SIZE = 0
  BY <1>1, SegFacts DEF Regular, Segs
<1>. DEFINE V == Segs[s].vaddr
            P == PAGE_SIZE
            p == V \div P
            q == o \div P
<1>3. V \in Nat /\ V % P = 0 /\ o \in Nat /\ o % P = 0 /\ P \in Nat \ {0}
  BY <1>1, <1>2
<1>4. V = P * p /\ o = P * q /\ p \in Nat /\ q \in Nat
  <2>. HIDE DEF V, P
  <2>. QED  BY <1>3
<1>5. \A r \in 0..(P - 1) : (V + o + r) \div P = p + q /\ (V + o + r) % P = r
  <2>. HIDE DEF V, P, p, q
  <2>. TAKE r \in 0..(P - 1)
  <2>1. P * (p + q) = P * p + P * q
    BY <1>3, <1>4
  <2>2. V + o + r = P * (p + q) + r /\ V + o + r \in Nat /\ p + q \in Nat
    BY <1>3, <1>4, <2>1
  <2>3. r \in Nat /\ r < P
    BY <1>3
  <2>. DEFINE x == V + o + r
              y == p + q
  <2>4. x = P * y + r /\ x \in Nat /\ y \in Nat
    BY <2>2
  <2>. HIDE DEF x, y
  <2>5. x \div P = y /\ x % P = r
    BY <1>3, <2>3, <2>4, DivUnique
  <2>. QED  BY <2>5 DEF x, y
<1>6. PageOf(s, o) = p + q
  <2>1. V + o + 0 = V + o
    BY <1>3
  <2>2. (V + o) \div P = p + q
    BY <1>3, <1>5, <2>1
  <2>. QED  BY <2>2 DEF PageOf
<1>7. Segs[s].vaddr + o = PAGE_SIZE * PageOf(s, o)
  <2>. HIDE DEF p, q
  <2>1. P * (p + q) = P * p + P * q
    BY <1>3, <1>4
  <2>. QED  BY <1>4, <1>6, <2>1
<1>8. ASSUME NEW k \in 0..(o - 1) PROVE PageOf(s, k) # PageOf(s, o)
  <2>. DEFINE a == V + k
              d == a \div P
              r == a % P
  <2>1. a \in Nat /\ a < V + o
    BY <1>3, <1>8
  <2>. HIDE DEF a
  <2>2. d \in Nat /\ r \in Nat /\ a = P * d + r
    BY <1>3, <2>1
  <2>. HIDE DEF d, r
  <2>3. d # p + q
    BY <2>1, <2>2, <1>6, <1>7
  <2>. QED  BY <2>3, <1>6 DEF PageOf, a, d
<1>9. ASSUME NEW k \in o..(o + PAGE_SIZE - 1)
      PROVE  /\ (Segs[s].vaddr + k) \div PAGE_SIZE = PageOf(s, o)
             /\ (Segs[s].vaddr + k) % PAGE_SIZE = k - o
  <2>1. k - o \in 0..(P - 1) /\ V + o + (k - o) = V + k
    BY <1>3, <1>9
  <2>. QED  BY <2>1, <1>5, <1>6
<1>. QED  BY <1>7, <1>8, <1>9

\* The page being loaded holds no byte that was loaded before.
LEMMA NewPage ==
  ASSUME TypeOK, AtPage, Regular(prog), pc \in {"map_segment", "fill"},
         NEW s, NEW k, Done(s, k)
  PROVE  PageOf(s, k) # va
<1>1. Byte(seg, off) /\ off % PAGE_SIZE = 0 /\ va = PageOf(seg, off)
  BY SegFacts DEF AtPage, Byte, TypeOK
<1>2. Byte(s, k) /\ (s < seg \/ (s = seg /\ k < off))
  BY DEF Done
<1>3. CASE s = seg
  <2>1. k \in 0..(off - 1)
    BY <1>2, <1>3, ByteFacts DEF TypeOK
  <2>. QED  BY <1>1, <1>3, <2>1, PageStart
<1>4. CASE s < seg
  <2>1. PageOf(s, k) \in PagesOf(Segs[s]) /\ va \in PagesOf(Segs[seg])
    BY <1>1, <1>2, ByteFacts
  <2>2. s \in 1..(seg - 1) /\ seg \in 1..Len(Segs) /\ Segs[s].load /\ Segs[seg].load
    BY <1>1, <1>2, <1>4 DEF Byte, TypeOK
  <2>3. PagesOf(Segs[seg]) \cap PagesOf(Segs[s]) = {}
    BY <2>2 DEF Regular, Segs
  <2>. QED  BY <2>1, <2>3
<1>. QED  BY <1>2, <1>3, <1>4

\* A byte stays as it was loaded while its page and its frame do.
LEMMA ByteKept ==
  ASSUME TypeOK, UNCHANGED <<prog, space>>, NEW s, NEW k,
         PteOf(tbl', space, PageOf(s, k)) = PteOf(tbl, space, PageOf(s, k)),
         ByteLoaded(s, k),
         data'[PteOf(tbl, space, PageOf(s, k)).frame]
           = data[PteOf(tbl, space, PageOf(s, k)).frame]
  PROVE  ByteLoaded(s, k)'
BY DEF ByteLoaded, PageOf, Offset, Segs

LEMMA AtPageStep ==
  ASSUME IInv, Image, Next, (Loading \/ Setup)'
  PROVE  AtPage'
<1>0. /\ off \in Nat /\ 0 % PAGE_SIZE = 0
      /\ off % PAGE_SIZE = 0 => (off + PAGE_SIZE) % PAGE_SIZE = 0
  <2>1. off \in Nat /\ 0 % PAGE_SIZE = 0
    BY DEF IInv, TypeOK
  <2>2. ASSUME off % PAGE_SIZE = 0 PROVE (off + PAGE_SIZE) % PAGE_SIZE = 0
    <3>. DEFINE q == off \div PAGE_SIZE
    <3>1. off = PAGE_SIZE * q /\ q \in Nat
      BY <2>1, <2>2
    <3>. HIDE DEF q
    <3>2. PAGE_SIZE * (q + 1) = PAGE_SIZE * q + PAGE_SIZE
      BY <3>1
    <3>. DEFINE x == off + PAGE_SIZE
    <3>3. x = PAGE_SIZE * (q + 1) + 0 /\ x \in Nat /\ q + 1 \in Nat
      BY <2>1, <3>1, <3>2
    <3>. HIDE DEF x
    <3>4. x % PAGE_SIZE = 0
      BY <3>3, DivUnique
    <3>. QED  BY <3>4 DEF x
  <2>. QED  BY <2>1, <2>2
<1>1. ASSUME NEW p \in Programs, ExecStart(p) PROVE AtPage'
  BY <1>0, <1>1 DEF ExecStart, AtPage, Setup
<1>2. CASE SegmentNext
  BY <1>0, <1>2 DEF SegmentNext, AtPage, Setup
<1>3. CASE SegmentPage
  <2>1. /\ pc = "segment" /\ pc' = "map_segment" /\ seg <= Len(Segs)
        /\ Segs[seg].load /\ off < Segs[seg].memsz
        /\ va' = PageOf(seg, off)
        /\ flags' = {"P", "U"} \cup (IF Segs[seg].w THEN {"W"} ELSE {})
                         \cup (IF Segs[seg].x THEN {} ELSE {"NX"})
        /\ UNCHANGED <<prog, seg, off>>
    BY <1>3 DEF SegmentPage, PageOf, exec
  <2>2. seg \in 1..Len(Segs)
    BY <2>1, SegFacts DEF IInv, TypeOK
  <2>3. Segs[seg].w \in BOOLEAN
    BY <2>2, SegFacts DEF IInv
  <2>4. ("W" \in flags') = Segs[seg].w /\ "U" \in flags'
    BY <2>1, <2>3
  <2>5. off % PAGE_SIZE = 0
    BY <2>1 DEF Image, AtPage, Loading
  <2>. QED  BY <2>1, <2>4, <2>5 DEF AtPage, Setup, PageOf, Segs
<1>4. CASE SegmentFill
  BY <1>0, <1>4 DEF SegmentFill, Image, AtPage, Loading, Setup
<1>5. CASE SegmentsDone
  BY <1>0, <1>5 DEF SegmentsDone, exec, Image, AtPage, Loading, Setup, Segs
<1>6. CASE StackPage
  BY <1>6 DEF StackPage, exec, Image, AtPage, Loading, Setup, Segs
<1>7. CASE MapPte
  <2>1. /\ Mapping
        /\ pc' = CASE pc = "map_segment" -> "fill" [] pc = "map_stack" -> "stack" [] OTHER -> "fork"
        /\ va' = IF pc = "map_segment" THEN va ELSE va + 1
        /\ UNCHANGED <<prog, seg, off, flags>> /\ va \in Nat
    BY <1>7 DEF MapPte, exec, IInv, TypeOK
  <2>2. CASE pc = "map_segment"
    BY <2>1, <2>2 DEF Image, AtPage, Loading, Setup, Segs, PageOf
  <2>3. CASE pc = "map_stack"
    BY <2>1, <2>3 DEF Image, AtPage, Loading, Setup, Segs, PageOf
  <2>. QED  BY <2>1, <2>2, <2>3 DEF Mapping, Loading, Setup
<1>8. CASE UNCHANGED <<pc, prog, seg, off, va, flags>>
  BY <1>8 DEF Image, AtPage, Loading, Setup, Segs, PageOf
<1>9. ASSUME ~ (\E p \in Programs : ExecStart(p)), ~ SegmentNext, ~ SegmentPage, ~ SegmentFill,
             ~ SegmentsDone, ~ StackPage, ~ MapPte
      PROVE  UNCHANGED <<pc, prog, seg, off, va, flags>>
  BY <1>9 DEF Loading, Setup, Next, KernelStep, CreateOutOfMemory, EnterUser, ExecOutOfMemory,
       MapDescend, MapNewTable, UserFault, ForkStart, ForkSkip, ForkPage, ForkOutOfMemory,
       ForkDone, ForkFault, MapOutOfMemory, UserWrite, vars, map, exec, Mapping
<1>. QED  BY <1>1, <1>2, <1>3, <1>4, <1>5, <1>6, <1>7, <1>8, <1>9

ImageBytes == Regular(prog) => \A s, k : Done(s, k) => ByteLoaded(s, k)
ImagePages ==
  \A v \in Nat : LowHalf(v) /\ Present(PteOf(tbl, space, v)) =>
         \/ \E s, k : Done(s, k) /\ v = PageOf(s, k)
         \/ pc = "fill" /\ v = va
         \/ Setup /\ v \in StackBottom..(va - 1)

\* Steps that map nothing and store nothing.
LEMMA ImageQuiet ==
  ASSUME IInv, Path, Image, Loading \/ Setup,
         ~ MapPte, ~ (\E p \in Programs : ExecStart(p)), ~ ForkStart, ~ SegmentFill,
         Next, (Loading \/ Setup)'
  PROVE  ImageBytes' /\ ImagePages'
<1>1. /\ UNCHANGED <<prog, space, data>> /\ space \in Spaces
      /\ \A v \in Nat : LowHalf(v) => PteOf(tbl', space, v) = PteOf(tbl, space, v)
  <2>1. UNCHANGED <<prog, space, data>>
    BY DEF Loading, Setup, Next, KernelStep, CreateOutOfMemory, EnterUser, ExecOutOfMemory,
       MapDescend, MapNewTable, UserFault, ForkStart, ForkSkip, ForkPage, ForkOutOfMemory,
       ForkDone, ForkFault, MapOutOfMemory, UserWrite, vars, map, exec, Mapping,
       SegmentNext, SegmentPage, SegmentsDone, StackPage
  <2>2. space \in Spaces
    BY DEF Loading, Setup, IInv, Running
  <2>3. ~ \E f \in Frame : Create(f) /\ UNCHANGED <<cr3, data>>
    <3>. SUFFICES ASSUME NEW f \in Frame, Create(f) PROVE FALSE
      OBVIOUS
    <3>1. f # space /\ space' = f
      BY <2>2, CreateStep
    <3>. QED  BY <2>1, <3>1
  <2>. QED  BY <2>1, <2>2, <2>3, ViewStep
<1>2. \A s, k : Done(s, k)' <=> Done(s, k)
  <2>1. CASE SegmentNext
    <3>1. /\ seg' = seg + 1 /\ off' = 0 /\ prog' = prog /\ seg \in Nat \ {0} /\ off \in Nat
          /\ seg <= Len(Segs) /\ (~ Segs[seg].load \/ off >= Segs[seg].memsz)
      BY <2>1 DEF SegmentNext, IInv, TypeOK
    <3>2. seg \in 1..Len(Segs)
      BY <3>1, SegFacts DEF IInv, TypeOK
    <3>3. Segs[seg].memsz \in Nat
      BY <3>2, SegFacts DEF IInv
    <3>. TAKE s, k
    <3>4. Byte(s, k)' <=> Byte(s, k)
      BY <3>1 DEF Byte, Segs
    <3>5. ASSUME Byte(s, k)
          PROVE  (s < seg + 1 \/ (s = seg + 1 /\ k < 0)) <=> (s < seg \/ (s = seg /\ k < off))
      <4>1. s \in Nat \ {0} /\ k \in 0..(Segs[s].memsz - 1) /\ Segs[s].load
        BY <3>5, ByteFacts DEF Byte, IInv
      <4>2. s = seg => k < off
        BY <4>1, <3>1, <3>3
      <4>. QED  BY <4>1, <4>2, <3>1
    <3>. QED  BY <3>1, <3>4, <3>5 DEF Done
  <2>2. CASE UNCHANGED <<seg, off>>
    BY <1>1, <2>2 DEF Done, Byte, Segs
  <2>3. ~ SegmentNext => UNCHANGED <<seg, off>>
    BY DEF Loading, Setup, Next, KernelStep, CreateOutOfMemory, EnterUser, ExecOutOfMemory,
       MapDescend, MapNewTable, UserFault, ForkStart, ForkSkip, ForkPage, ForkOutOfMemory,
       ForkDone, ForkFault, MapOutOfMemory, UserWrite, vars, map, exec, Mapping,
       SegmentPage, SegmentsDone, StackPage
  <2>. QED  BY <2>1, <2>2, <2>3
<1>3. ImageBytes'
  <2>. SUFFICES ASSUME Regular(prog), NEW s, NEW k, Done(s, k)
                PROVE  ByteLoaded(s, k)'
    BY <1>1, <1>2 DEF ImageBytes
  <2>1. ByteLoaded(s, k)
    BY DEF Image
  <2>2. PageOf(s, k) \in Nat /\ LowHalf(PageOf(s, k))
    BY ByteFacts DEF Done, IInv
  <2>3. PteOf(tbl', space, PageOf(s, k)) = PteOf(tbl, space, PageOf(s, k))
    BY <1>1, <2>2
  <2>. QED  BY <1>1, <2>1, <2>3, ByteKept DEF IInv
<1>4. /\ pc # "fill"
      /\ Setup => Setup' /\ (pc = "map_stack" \/ va' = va)
      /\ va' = va \/ ~ Setup
  BY DEF Loading, Setup, Next, KernelStep, CreateOutOfMemory, EnterUser, ExecOutOfMemory,
       MapDescend, MapNewTable, UserFault, ForkStart, ForkSkip, ForkPage, ForkOutOfMemory,
       ForkDone, ForkFault, MapOutOfMemory, UserWrite, vars, map, exec, Mapping,
       SegmentPage, SegmentsDone, StackPage, SegmentNext
<1>5. ImagePages'
  <2>. SUFFICES ASSUME NEW v \in Nat, LowHalf(v), Present(PteOf(tbl, space, v))
                PROVE  \/ \E s, k : Done(s, k) /\ v = PageOf(s, k)
                       \/ Setup' /\ v \in StackBottom..(va' - 1)
    BY <1>1, <1>2 DEF ImagePages, PageOf, Segs
  <2>1. \/ \E s, k : Done(s, k) /\ v = PageOf(s, k)
        \/ pc = "fill" /\ v = va
        \/ Setup /\ v \in StackBottom..(va - 1)
    BY DEF Image
  <2>. QED  BY <2>1, <1>4
<1>. QED  BY <1>3, <1>5

LEMMA MinPair ==
  ASSUME NEW a \in Nat, NEW b \in Nat
  PROVE  \A k \in Nat : k < Min({a, b}) <=> (k < a /\ k < b)
<1>. DEFINE m == IF a <= b THEN a ELSE b
<1>1. m \in {a, b} /\ \A y \in {a, b} : m <= y
  OBVIOUS
<1>2. \A x \in {a, b} : (\A y \in {a, b} : x <= y) => x = m
  OBVIOUS
<1>3. Min({a, b}) = m
  <2>. HIDE DEF m
  <2>. QED  BY <1>1, <1>2 DEF Min
<1>. QED  BY <1>3

LEMMA ImageStart ==
  ASSUME IInv, NEW p \in Programs, ExecStart(p)
  PROVE  ImageBytes' /\ ImagePages'
<1>1. PICK f \in Frame : Create(f)
  BY DEF ExecStart
<1>2. space' = f /\ seg' = 1 /\ off' = 0
  BY <1>1 DEF ExecStart, Create
<1>3. \A s, k : ~ Done(s, k)'
  <2>. SUFFICES ASSUME NEW s, NEW k, Done(s, k)' PROVE FALSE
    OBVIOUS
  <2>1. s \in 1..Len(Segs') /\ k \in 0..(Segs'[s].memsz - 1) /\ (s < 1 \/ (s = 1 /\ k < 0))
    BY <1>2 DEF Done, Byte
  <2>. QED  BY <2>1
<1>4. \A v \in Nat : LowHalf(v) => PteOf(tbl', f, v) = NoEntry
  BY <1>1, CreateView
<1>. QED  BY <1>2, <1>3, <1>4, EntryTypes DEF ImageBytes, ImagePages

LEMMA ImagePte ==
  ASSUME IInv, Path, Image, MapPte, (Loading \/ Setup)'
  PROVE  ImageBytes' /\ ImagePages'
<1>. DEFINE e == [frame |-> frame, flags |-> flags]
<1>1. /\ pc \in {"map_segment", "map_stack"}
      /\ pc' = IF pc = "map_segment" THEN "fill" ELSE "stack"
      /\ va' = IF pc = "map_segment" THEN va ELSE va + 1
      /\ UNCHANGED <<data, prog, seg, off, space>> /\ va \in Nat
      /\ space \in Spaces /\ AtPage
  BY DEF MapPte, Mapping, exec, Loading, Setup, IInv, TypeOK, Running, Image
<1>2. \A v \in Nat : LowHalf(v) =>
         PteOf(tbl', space, v) = IF v = va THEN e ELSE PteOf(tbl, space, v)
  BY <1>1, PteAt
<1>. HIDE DEF e
<1>3. \A s, k : Done(s, k)' <=> Done(s, k)
  BY <1>1 DEF Done, Byte, Segs
<1>4. pc = "map_stack" => va \in StackBottom..StackTop
  BY <1>1 DEF AtPage, Setup, IInv, Counters
<1>5. ImageBytes'
  <2>. SUFFICES ASSUME Regular(prog), NEW s, NEW k, Done(s, k)
                PROVE  ByteLoaded(s, k)'
    BY <1>1, <1>3 DEF ImageBytes
  <2>1. ByteLoaded(s, k)
    BY <1>1 DEF Image, Loading, Setup
  <2>2. PageOf(s, k) \in Nat /\ LowHalf(PageOf(s, k)) /\ PageOf(s, k) \in PagesOf(Segs[s])
    BY ByteFacts DEF Done, IInv
  <2>3. PageOf(s, k) # va
    <3>1. CASE pc = "map_segment"
      BY <1>1, <3>1, NewPage DEF IInv
    <3>2. CASE pc = "map_stack"
      <4>1. PagesOf(Segs[s]) \cap (StackBottom..StackTop) = {}
        BY DEF Done, Byte, Regular, Segs
      <4>. QED  BY <3>2, <4>1, <2>2, <1>4
    <3>. QED  BY <1>1, <3>1, <3>2
  <2>. QED  BY <1>1, <1>2, <2>1, <2>2, <2>3, ByteKept DEF IInv
<1>6. ImagePages'
  <2>. SUFFICES ASSUME NEW v \in Nat, LowHalf(v), Present(PteOf(tbl', space, v))
                PROVE  \/ \E s, k : Done(s, k) /\ v = PageOf(s, k)
                       \/ pc' = "fill" /\ v = va'
                       \/ Setup' /\ v \in StackBottom..(va' - 1)
    BY <1>1, <1>3 DEF ImagePages, PageOf, Segs
  <2>1. CASE v = va
    BY <2>1, <1>1, <1>4 DEF Setup
  <2>2. CASE v # va
    <3>1. Present(PteOf(tbl, space, v))
      BY <1>2, <2>2
    <3>2. \/ \E s, k : Done(s, k) /\ v = PageOf(s, k)
          \/ Setup /\ v \in StackBottom..(va - 1)
      BY <1>1, <3>1 DEF Image, Loading, Setup
    <3>. QED  BY <3>2, <1>1 DEF Setup
  <2>. QED  BY <2>1, <2>2
<1>. QED  BY <1>5, <1>6

LEMMA ImageFill ==
  ASSUME IInv, Path, Image, SegmentFill
  PROVE  ImageBytes' /\ ImagePages'
<1>1. /\ pc = "fill" /\ pc' = "segment"
      /\ data' = [data EXCEPT ![frame] = PageBytes]
      /\ off' = off + PAGE_SIZE
      /\ UNCHANGED <<tbl, prog, seg, space, va>>
      /\ space \in Spaces /\ off \in Nat /\ va \in Nat /\ AtPage
      /\ Loading /\ ~ Setup
  BY DEF SegmentFill, map, IInv, TypeOK, Running, Loading, Setup, Image
<1>2. /\ LowHalf(va) /\ "P" \in flags
      /\ PteOf(tbl, space, va) = [frame |-> frame, flags |-> flags]
  BY <1>1 DEF Path
<1>3. /\ Byte(seg, off) /\ off % PAGE_SIZE = 0 /\ va = PageOf(seg, off)
      /\ "U" \in flags /\ ("W" \in flags) = Segs[seg].w
      /\ seg \in Nat \ {0}
  BY <1>1, SegFacts DEF AtPage, Byte, IInv, TypeOK
<1>4. \A s, k : Done(s, k) => Done(s, k)'
  BY <1>1, ByteFacts DEF Done, Byte, Segs, IInv, TypeOK
<1>5. \A s, k : Done(s, k)' =>
          Done(s, k) \/ (s = seg /\ Byte(s, k) /\ k \in off..(off + PAGE_SIZE - 1))
  <2>. SUFFICES ASSUME NEW s, NEW k, Done(s, k)', ~ Done(s, k)
                PROVE  s = seg /\ Byte(s, k) /\ k \in off..(off + PAGE_SIZE - 1)
    OBVIOUS
  <2>1. Byte(s, k) /\ (s < seg \/ (s = seg /\ k < off + PAGE_SIZE))
    BY <1>1 DEF Done, Byte, Segs
  <2>2. s = seg /\ k < off + PAGE_SIZE /\ ~ (k < off) /\ k \in Int
    BY <2>1 DEF Done, Byte
  <2>. QED  BY <1>1, <2>1, <2>2
<1>6. ASSUME Regular(prog), NEW s, NEW k, Done(s, k) PROVE ByteLoaded(s, k)'
  <2>. DEFINE v == PageOf(s, k)
              f == PteOf(tbl, space, v).frame
  <2>1. ByteLoaded(s, k)
    BY <1>1, <1>6 DEF Image
  <2>2. v \in Nat /\ LowHalf(v)
    BY <1>6, ByteFacts DEF Done, IInv
  <2>3. v # va
    BY <1>1, <1>6, NewPage DEF IInv
  <2>4. Present(PteOf(tbl, space, v)) /\ Present(PteOf(tbl, space, va))
    BY <2>1, <1>2 DEF ByteLoaded, Present
  <2>5. f # frame
    <3>. SUFFICES ASSUME PteOf(tbl, space, v).frame = PteOf(tbl, space, va).frame PROVE FALSE
      BY <1>2
    <3>1. \A m \in 1..4 : Index(v, m) = Index(va, m)
      BY <1>1, <1>2, <2>2, <2>4, SameTarget DEF IInv
    <3>. HIDE DEF v
    <3>. QED  BY <1>1, <1>2, <2>2, <2>3, <3>1, PagesDistinct
  <2>6. f \in Frame
    BY <1>1, <2>2, <2>4, PteTarget DEF IInv, TypeOK
  <2>7. data'[f] = data[f]
    <3>. HIDE DEF f
    <3>. QED  BY <1>1, <2>5, <2>6 DEF IInv, TypeOK
  <2>. QED  BY <1>1, <2>1, <2>7, ByteKept DEF IInv
<1>7. ASSUME Regular(prog), NEW k \in off..(off + PAGE_SIZE - 1), Byte(seg, k)
      PROVE  ByteLoaded(seg, k)'
  <2>. DEFINE V == Segs[seg].vaddr
              b == k - off
              e == [frame |-> frame, flags |-> flags]
  <2>1. PageOf(seg, k) = va /\ Offset(seg, k) = b /\ V + off = PAGE_SIZE * va
    BY <1>3, <1>7, PageStart DEF PageOf, Offset, IInv
  <2>2. V \in Nat /\ Segs[seg].memsz \in Nat /\ Segs[seg].filesz \in Nat
    BY <1>3, SegFacts DEF Byte, IInv
  <2>3. va * PAGE_SIZE + b - V = k /\ b \in 0..(PAGE_SIZE - 1) /\ k \in Nat
    <3>1. va * PAGE_SIZE = PAGE_SIZE * va
      BY <1>1
    <3>. HIDE DEF V
    <3>. QED  BY <1>1, <2>1, <2>2, <3>1
  <2>4. PageBytes[b] = IF k < Segs[seg].filesz THEN FileByte(seg, k) ELSE Zero
    <3>1. PageBytes[b] = IF k >= 0 /\ k < Min({Segs[seg].memsz, Segs[seg].filesz})
                         THEN FileByte(seg, k) ELSE Zero
      BY <2>3 DEF PageBytes
    <3>2. k < Min({Segs[seg].memsz, Segs[seg].filesz}) <=> k < Segs[seg].filesz
      <4>1. k < Segs[seg].memsz
        BY <1>7, <2>2 DEF Byte
      <4>2. k < Min({Segs[seg].memsz, Segs[seg].filesz})
              <=> (k < Segs[seg].memsz /\ k < Segs[seg].filesz)
        BY <2>2, <2>3, MinPair
      <4>. QED  BY <4>1, <4>2
    <3>. QED  BY <2>3, <3>1, <3>2
  <2>5. data'[frame] = PageBytes
    BY <1>1 DEF IInv, TypeOK
  <2>6. Present(e) /\ e.frame = frame /\ e.flags = flags
    BY <1>2 DEF Present
  <2>7. PteOf(tbl', space', PageOf(seg, k)') = e /\ Offset(seg, k)' = b /\ Segs' = Segs
        /\ seg' = seg
    BY <1>1, <1>2, <2>1 DEF PageOf, Offset, Segs
  <2>. HIDE DEF e, b
  <2>. QED  BY <1>3, <2>4, <2>5, <2>6, <2>7 DEF ByteLoaded
<1>8. ImageBytes'
  BY <1>1, <1>5, <1>6, <1>7 DEF ImageBytes
<1>9. ImagePages'
  <2>. SUFFICES ASSUME NEW v \in Nat, LowHalf(v), Present(PteOf(tbl, space, v))
                PROVE  \E s, k : Done(s, k)' /\ v = PageOf(s, k)
    BY <1>1 DEF ImagePages, PageOf, Segs
  <2>1. (\E s, k : Done(s, k) /\ v = PageOf(s, k)) \/ v = va
    BY <1>1 DEF Image
  <2>2. ASSUME NEW g, g = seg, NEW o, o = off PROVE Done(g, o)'
    <3>1. o < off + PAGE_SIZE
      BY <1>1, <2>2
    <3>. QED  BY <1>1, <1>3, <2>2, <3>1 DEF Done, Byte, Segs
  <2>3. CASE v = va
    <3>1. PICK g, o : g = seg /\ o = off
      OBVIOUS
    <3>2. v = PageOf(g, o) /\ Done(g, o)'
      BY <1>3, <2>2, <2>3, <3>1
    <3>. QED  BY <3>2
  <2>4. CASE \E s, k : Done(s, k) /\ v = PageOf(s, k)
    BY <2>4, <1>4
  <2>. QED  BY <2>1, <2>3, <2>4
<1>. QED  BY <1>8, <1>9

LEMMA ImageStep ==
  ASSUME IInv, Path, Image, Next
  PROVE  Image'
<1>. SUFFICES ASSUME (Loading \/ Setup)' PROVE Image'
  BY DEF Image
<1>1. AtPage'
  BY AtPageStep
<1>2. ImageBytes' /\ ImagePages'
  <2>1. CASE \E p \in Programs : ExecStart(p)
    BY <2>1, ImageStart
  <2>2. CASE MapPte
    BY <2>2, ImagePte
  <2>3. CASE SegmentFill
    BY <2>3, ImageFill
  <2>4. ASSUME ~ (\E p \in Programs : ExecStart(p)), ~ MapPte, ~ SegmentFill
        PROVE  ImageBytes' /\ ImagePages'
    <3>1. (Loading \/ Setup) /\ ~ ForkStart
      BY <2>4 DEF Loading, Setup, Next, KernelStep, CreateOutOfMemory, EnterUser, ExecOutOfMemory,
       MapDescend, MapNewTable, UserFault, ForkStart, ForkSkip, ForkPage, ForkOutOfMemory,
       ForkDone, ForkFault, MapOutOfMemory, UserWrite, vars, map, exec, Mapping,
       SegmentPage, SegmentsDone, StackPage, SegmentNext
    <3>. QED  BY <2>4, <3>1, ImageQuiet
  <2>. QED  BY <2>1, <2>2, <2>3, <2>4
<1>. QED  BY <1>1, <1>2 DEF Image, ImageBytes, ImagePages

LEMMA ImageInvariance == Spec => [](IInv /\ Path /\ Image)
<1>1. Init => Image
  BY DEF Init, Image, Loading, Setup
<1>2. Image /\ UNCHANGED vars => Image'
  <2>. SUFFICES ASSUME Image, UNCHANGED vars PROVE Image'
    OBVIOUS
  <2>1. UNCHANGED <<tbl, data, pc, prog, seg, off, space, va, frame, flags>>
    BY DEF vars, map, exec
  <2>2. AtPage => AtPage'
    BY <2>1 DEF AtPage, Setup, PageOf, Segs
  <2>3. \A s, k : (Done(s, k)' <=> Done(s, k)) /\ (ByteLoaded(s, k)' <=> ByteLoaded(s, k))
                  /\ PageOf(s, k)' = PageOf(s, k)
    BY <2>1 DEF Done, Byte, ByteLoaded, PageOf, Offset, Segs
  <2>4. (Loading' <=> Loading) /\ (Setup' <=> Setup)
    BY <2>1 DEF Loading, Setup
  <2>. QED  BY <2>1, <2>2, <2>3, <2>4 DEF Image
<1>3. IInv /\ Path /\ Image /\ [Next]_vars => Image'
  BY <1>2, ImageStep
<1>. QED  BY <1>1, <1>3, PathInvariance, PTL DEF Spec

(***************************************************************************)
(* No frame is lost.                                                       *)
(***************************************************************************)
LEMMA ReachedBy ==
  ASSUME NEW f
  PROVE  f \in Reached <=> \/ f \in Spaces \/ (Mapping /\ f = frame)
                           \/ \E t \in Tables, k \in Idx : Link(t, k) /\ Target(t, k) = f
<1>1. (\E t \in Tables, k \in Idx : Link(t, k) /\ Target(t, k) = f) =>
        f \in {Target(l[1], l[2]) : l \in {l \in Tables \X Idx : Link(l[1], l[2])}}
  <2>. SUFFICES ASSUME NEW t \in Tables, NEW k \in Idx, Link(t, k), Target(t, k) = f
                PROVE  \E l \in Tables \X Idx : Link(l[1], l[2]) /\ Target(l[1], l[2]) = f
    OBVIOUS
  <2>1. <<t, k>> \in Tables \X Idx /\ <<t, k>>[1] = t /\ <<t, k>>[2] = k
    OBVIOUS
  <2>. QED  BY <2>1
<1>. QED  BY <1>1 DEF Reached, InFlight

\* The PTE that is written was empty, unless a program's segments overlap.
LEMMA EmptySlot ==
  ASSUME IInv, Path, Image, Copying, MapPte, pc = "map_fork" \/ Regular(prog)
  PROVE  ~ Present(tbl[node][Slot])
<1>1. /\ Mapping /\ lvl = 1 /\ va \in Nat /\ LowHalf(va)
      /\ Down(tbl, space, va, 1) /\ TableAt(tbl, space, va, 1) = node
  BY DEF MapPte, IInv, TypeOK, Walking, Path
<1>2. ~ Present(PteOf(tbl, space, va))
  <2>1. CASE pc = "map_fork"
    BY <1>1, <2>1 DEF Copying, IInv, Counters, UserEnd, Pages
  <2>2. CASE pc \in {"map_segment", "map_stack"} /\ Regular(prog)
    <3>. SUFFICES ASSUME Present(PteOf(tbl, space, va)) PROVE FALSE
      OBVIOUS
    <3>1. AtPage /\ \/ \E s, k : Done(s, k) /\ va = PageOf(s, k)
                    \/ va \in StackBottom..(va - 1)
      BY <1>1, <2>2 DEF Image, Loading, Setup
    <3>2. PICK s, k : Done(s, k) /\ va = PageOf(s, k)
      BY <3>1, <1>1
    <3>3. CASE pc = "map_segment"
      BY <2>2, <3>1, <3>2, <3>3, NewPage DEF IInv
    <3>4. CASE pc = "map_stack"
      <4>1. va \in StackBottom..StackTop
        BY <1>1, <3>1, <3>4 DEF AtPage, Setup, IInv, Counters
      <4>2. va \in PagesOf(Segs[s])
        BY <3>2, ByteFacts DEF Done, IInv
      <4>3. PagesOf(Segs[s]) \cap (StackBottom..StackTop) = {}
        BY <2>2, <3>2 DEF Done, Byte, Regular, Segs
      <4>. QED  BY <4>1, <4>2, <4>3
    <3>. QED  BY <2>2, <3>3, <3>4
  <2>. QED  BY <1>1, <2>1, <2>2 DEF Mapping
<1>3. EntryAt(tbl, space, va, 1) = tbl[node][Slot]
  BY <1>1 DEF EntryAt, Slot
<1>4. Present(EntryAt(tbl, space, va, 1)) => Down(tbl, space, va, 0)
  BY <1>1 DEF Down
<1>. QED  BY <1>2, <1>3, <1>4, PteByLevels

\* A link to a table or a page stays, and what is new is linked.
LEMMA LinksStay ==
  ASSUME IInv, IInv', Next, MapPte => ~ Present(tbl[node][Slot])
  PROVE  /\ Spaces \subseteq Spaces'
         /\ \A t \in Tables, k \in Idx : Link(t, k) =>
              t \in Tables' /\ Link(t, k)' /\ Target(t, k)' = Target(t, k)
<1>1. CASE UNCHANGED <<tbl, level>>
  BY <1>1 DEF Spaces, Tables, Link, Target
<1>2. ASSUME NEW f \in Frame, Create(f)
      PROVE  /\ Spaces \subseteq Spaces'
             /\ \A t \in Tables, k \in Idx : Link(t, k) =>
                  t \in Tables' /\ Link(t, k)' /\ Target(t, k)' = Target(t, k)
  <2>1. f \notin Tables
    BY <1>2, Fresh DEF Create, IInv, KernelShared
  <2>2. \A t \in Tables : t \in Frame /\ tbl'[t] = tbl[t] /\ level'[t] = level[t]
    BY <1>2, <2>1 DEF Create, Tables, IInv, TypeOK
  <2>. QED  BY <1>2, <2>2, CreateStep DEF Tables, Link, Target
<1>3. ASSUME NEW n, n = node, NEW q, q = Slot, NEW e, NEW g \in Frame, g \notin Tables,
             Mapping, ~ Present(tbl[n][q]),
             tbl'[n] = [tbl[n] EXCEPT ![q] = e],
             \A t \in Frame \ {g, n} : tbl'[t] = tbl[t],
             \A t \in Frame \ {g} : level'[t] = level[t]
      PROVE  /\ Spaces \subseteq Spaces'
             /\ \A t \in Tables, k \in Idx : Link(t, k) =>
                  t \in Tables' /\ Link(t, k)' /\ Target(t, k)' = Target(t, k)
  <2>1. n \in Tables /\ n \in Frame /\ q \in Idx
    BY <1>3, WalkFacts
  <2>2. \A t \in Tables : t \in Frame /\ t # g /\ level'[t] = level[t]
    BY <1>3 DEF Tables
  <2>3. Spaces \subseteq Tables /\ Tables \subseteq Tables'
    BY <2>2 DEF Spaces, Tables
  <2>4. ASSUME NEW t \in Tables, NEW k \in Idx, Link(t, k)
        PROVE  tbl'[t][k] = tbl[t][k]
    <3>1. CASE t = n
      <4>1. k # q
        BY <1>3, <2>4, <3>1 DEF Link
      <4>. QED  BY <1>3, <2>1, <3>1, <4>1 DEF IInv, TypeOK
    <3>2. CASE t # n
      BY <1>3, <2>2, <3>2
    <3>. QED  BY <3>1, <3>2
  <2>. QED  BY <2>2, <2>3, <2>4 DEF Spaces, Link, Target
<1>4. CASE MapPte
  <2>. SUFFICES ASSUME NEW n, n = node, NEW q, q = Slot
                PROVE  /\ Spaces \subseteq Spaces'
                       /\ \A t \in Tables, k \in Idx : Link(t, k) =>
                            t \in Tables' /\ Link(t, k)' /\ Target(t, k)' = Target(t, k)
    OBVIOUS
  <2>. DEFINE e == [frame |-> frame, flags |-> flags]
  <2>1. /\ Mapping /\ tbl' = [tbl EXCEPT ![n][q] = e] /\ level' = level
    BY <1>4 DEF MapPte
  <2>2. frame \in Frame /\ frame \notin Tables
    BY <2>1 DEF IInv, Flight, TypeOK, Tables
  <2>3. n \in Frame /\ q \in Idx
    BY <2>1, WalkFacts
  <2>. HIDE DEF e
  <2>4. /\ tbl'[n] = [tbl[n] EXCEPT ![q] = e]
        /\ \A t \in Frame \ {frame, n} : tbl'[t] = tbl[t]
    BY <2>1, <2>3 DEF IInv, TypeOK
  <2>. QED  BY <1>3, <1>4, <2>1, <2>2, <2>4
<1>5. CASE MapNewTable
  <2>. SUFFICES ASSUME NEW n, n = node, NEW q, q = Slot, NEW g, g = node',
                       NEW e, e = [frame |-> g, flags |-> {"P", "W", "U"}],
                       NEW z, z = [k \in Idx |-> NoEntry]
                PROVE  /\ Spaces \subseteq Spaces'
                       /\ \A t \in Tables, k \in Idx : Link(t, k) =>
                            t \in Tables' /\ Link(t, k)' /\ Target(t, k)' = Target(t, k)
    OBVIOUS
  <2>1. /\ Mapping /\ lvl > 1 /\ Allocate(g)
        /\ ~ Present(tbl[n][q])
        /\ tbl' = [tbl EXCEPT ![g] = z, ![n][q] = e]
        /\ level' = [level EXCEPT ![g] = lvl - 1]
    BY <1>5 DEF MapNewTable
  <2>2. g \in Frame /\ g \notin Tables
    BY <2>1, Fresh DEF IInv, KernelShared
  <2>3. n \in Tables /\ n \in Frame /\ q \in Idx
    BY <2>1, WalkFacts
  <2>4. /\ tbl'[n] = [tbl[n] EXCEPT ![q] = e]
        /\ \A t \in Frame \ {g, n} : tbl'[t] = tbl[t]
        /\ \A t \in Frame \ {g} : level'[t] = level[t]
    BY <2>1, <2>2, <2>3 DEF IInv, TypeOK
  <2>5. ASSUME NEW x, tbl'[n] = [tbl[n] EXCEPT ![q] = x]
        PROVE  /\ Spaces \subseteq Spaces'
               /\ \A t \in Tables, k \in Idx : Link(t, k) =>
                    t \in Tables' /\ Link(t, k)' /\ Target(t, k)' = Target(t, k)
    <3>1. Mapping /\ ~ Present(tbl[n][q])
      BY <2>1
    <3>. QED  BY <1>3, <2>2, <2>4, <2>5, <3>1
  <2>. QED  BY <2>4, <2>5
<1>6. ASSUME ~ (\E f \in Frame : Create(f)), ~ MapPte, ~ MapNewTable
      PROVE  UNCHANGED <<tbl, level>>
  BY <1>6 DEF Next, KernelStep, CreateOutOfMemory, ExecStart, ForkStart, EnterUser, ExecOutOfMemory,
       MapDescend, UserFault, ForkSkip, ForkPage, ForkOutOfMemory,
       ForkDone, ForkFault, MapOutOfMemory, UserWrite, vars,
       SegmentPage, SegmentsDone, StackPage, SegmentNext, SegmentFill
<1>. QED  BY <1>1, <1>2, <1>4, <1>5, <1>6

\* The entry that vmm_map_page wrote is a link to what it wrote.
LEMMA NewLink ==
  ASSUME IInv, IInv', MapPte \/ MapNewTable
  PROVE  /\ \E t \in Tables', k \in Idx :
              Link(t, k)' /\ Target(t, k)' = IF lvl = 1 THEN frame ELSE node'
<1>. SUFFICES ASSUME NEW n, n = node, NEW q, q = Slot,
                     NEW f, f = IF lvl = 1 THEN frame ELSE node'
              PROVE  n \in Tables' /\ Link(n, q)' /\ Target(n, q)' = f /\ q \in Idx
  OBVIOUS
<1>1. Mapping
  BY DEF MapPte, MapNewTable
<1>2. /\ n \in Tables /\ n \in Frame /\ q \in Idx /\ level[n] = lvl
      /\ lvl = 4 => q < KernelHalf
  BY <1>1, WalkFacts
<1>3. \E fl \in SUBSET Flag : /\ "P" \in fl /\ level'[n] = level[n]
                              /\ tbl'[n][q] = [frame |-> f, flags |-> fl]
  <2>1. CASE MapPte
    <3>1. /\ tbl' = [tbl EXCEPT ![n][q] = [frame |-> f, flags |-> flags]]
          /\ level' = level
      BY <2>1 DEF MapPte
    <3>2. flags \in SUBSET Flag /\ "P" \in flags
      BY <1>1 DEF IInv, TypeOK, Flight
    <3>3. tbl'[n][q] = [frame |-> f, flags |-> flags]
      BY <3>1, <1>2 DEF IInv, TypeOK
    <3>. QED  BY <3>1, <3>2, <3>3
  <2>2. CASE MapNewTable
    <3>. DEFINE w == {"P", "W", "U"}
                e == [frame |-> f, flags |-> w]
    <3>0. lvl > 1 /\ f = node'
      BY <2>2 DEF MapNewTable, IInv, TypeOK
    <3>1. /\ Allocate(f)
          /\ tbl' = [tbl EXCEPT ![f] = [k \in Idx |-> NoEntry], ![n][q] = e]
          /\ level' = [level EXCEPT ![f] = lvl - 1]
      BY <2>2, <3>0 DEF MapNewTable
    <3>2. f \in Frame /\ f # n
      BY <3>1, <1>2, Fresh DEF IInv, KernelShared
    <3>3. tbl'[n][q] = e
      <4>. HIDE DEF e
      <4>. QED  BY <3>1, <3>2, <1>2 DEF IInv, TypeOK
    <3>4. level'[n] = level[n]
      BY <3>1, <3>2, <1>2 DEF IInv, TypeOK
    <3>5. w \in SUBSET Flag /\ "P" \in w
      BY DEF Flag
    <3>. QED  BY <3>3, <3>4, <3>5
  <2>. QED  BY <2>1, <2>2
<1>4. PICK fl \in SUBSET Flag : /\ "P" \in fl /\ level'[n] = level[n]
                                /\ tbl'[n][q] = [frame |-> f, flags |-> fl]
  BY <1>3
<1>5. tbl'[n][q].frame = f /\ Present(tbl'[n][q])
  BY <1>4 DEF Present
<1>. QED  BY <1>2, <1>4, <1>5 DEF Tables, Link, Target

LEMMA ReachedNext ==
  ASSUME NEW f
  PROVE  f \in Reached' <=> \/ f \in Spaces' \/ (Mapping' /\ f = frame')
                            \/ \E t \in Tables', k \in Idx : Link(t, k)' /\ Target(t, k)' = f
<1>1. (f \in Reached)' <=> (\/ f \in Spaces \/ (Mapping /\ f = frame)
                           \/ \E t \in Tables, k \in Idx : Link(t, k) /\ Target(t, k) = f)'
  BY ReachedBy, PTL
<1>. QED  BY <1>1

\* A frame that is taken is reached at once, and what was in flight still is,
\* or is linked, or was given back.
LEMMA TakenIsReached ==
  ASSUME IInv, IInv', Next, pc' # "halted", NEW f \in used' \ used
  PROVE  f \in Reached'
<1>1. CASE (\E p \in Programs : ExecStart(p)) \/ ForkStart
  <2>1. PICK g \in Frame : Create(g)
    BY <1>1 DEF ExecStart, ForkStart
  <2>2. used' = used \cup {g} /\ Spaces' = Spaces \cup {g}
    BY <2>1, CreateStep
  <2>. QED  BY <2>2 DEF Reached
<1>2. CASE SegmentPage \/ StackPage \/ ForkPage
  <2>1. Allocate(frame') /\ pc' \in {"map_segment", "map_stack", "map_fork"}
    BY <1>2 DEF SegmentPage, StackPage, ForkPage
  <2>2. used' = used \cup {frame'}
    BY <2>1 DEF Allocate
  <2>. QED  BY <2>1, <2>2 DEF Reached, InFlight, Mapping
<1>3. CASE MapNewTable
  <2>1. Allocate(node') /\ lvl > 1
    BY <1>3 DEF MapNewTable
  <2>2. used' = used \cup {node'} /\ lvl # 1
    BY <2>1 DEF Allocate, IInv, TypeOK
  <2>3. \E t \in Tables', k \in Idx : Link(t, k)' /\ Target(t, k)' = node'
    BY <1>3, <2>2, NewLink
  <2>. QED  BY <2>2, <2>3, ReachedNext
<1>4. ASSUME ~ (\E p \in Programs : ExecStart(p)), ~ ForkStart,
             ~ (SegmentPage \/ StackPage \/ ForkPage), ~ MapNewTable
      PROVE  used' \subseteq used
  BY <1>4 DEF Next, KernelStep, CreateOutOfMemory, EnterUser, ExecOutOfMemory,
       MapDescend, UserFault, ForkSkip, ForkOutOfMemory, MapPte,
       ForkDone, ForkFault, MapOutOfMemory, UserWrite, vars, alloc,
       SegmentsDone, SegmentNext, SegmentFill
<1>. QED  BY <1>1, <1>2, <1>3, <1>4

(***************************************************************************)
(* The theorems.                                                           *)
(***************************************************************************)
\* The variables keep their types; in particular every page-table entry
\* names a frame and vmm_map_page never descends below a page table.
THEOREM TypeCorrect == Spec => []TypeOK
<1>1. IInv => TypeOK
  BY DEF IInv
<1>. QED  BY <1>1, Invariance, PTL

\* No two page-table entries lead to the same frame, and none to a free or
\* reserved one, whatever exec_elf, sys_fork and their failures did.
THEOREM Exclusive == Spec => []FramesExclusive
<1>1. IInv => FramesExclusive
  BY DEF IInv
<1>. QED  BY <1>1, Invariance, PTL

\* CR3 holds the tables of what is running, and the kernel's half of them is
\* the kernel's own.
THEOREM Cr3Correct == Spec => []Cr3Matches
<1>1. IInv => Cr3Matches
  <2>. SUFFICES ASSUME IInv PROVE Cr3Matches
    OBVIOUS
  <2>1. cr3 \in Spaces \/ cr3 = KernelPml4
    BY DEF IInv, Running
  <2>2. \A k \in Idx : k >= KernelHalf => tbl[cr3][k] = tbl[KernelPml4][k]
    BY <2>1 DEF IInv, KernelShared
  <2>. QED  BY <2>2 DEF IInv, Running, Cr3Matches
<1>. QED  BY <1>1, Invariance, PTL

\* pmm_free_frame is only ever given the page of a failing vmm_map_page, which
\* is no table and which no entry names.
THEOREM FreeIsSafe == Spec => FreeOnlyUnmapped
<1>. DEFINE Safe == \A f \in used \ used' :
              /\ InFlight = {f} /\ level[f] = 0
              /\ \A t \in Tables, k \in Idx : Link(t, k) => Target(t, k) # f
<1>1. IInv /\ [Next]_vars => [Safe]_vars
  <2>. SUFFICES ASSUME IInv, Next, NEW f \in used \ used'
                PROVE  /\ InFlight = {f} /\ level[f] = 0
                       /\ \A t \in Tables, k \in Idx : Link(t, k) => Target(t, k) # f
    OBVIOUS
  <2>1. MapOutOfMemory
    BY DEF Next, KernelStep, ExecStart, ForkStart, Create, Allocate, SegmentNext,
           SegmentPage, SegmentFill, SegmentsDone, StackPage, EnterUser,
           ExecOutOfMemory, MapDescend, MapNewTable, MapPte, UserWrite, UserFault,
           ForkSkip, ForkPage, ForkFault, ForkOutOfMemory, ForkDone,
           CreateOutOfMemory, vars, alloc
  <2>2. Mapping /\ f = frame
    BY <2>1 DEF MapOutOfMemory
  <2>. QED  BY <2>2 DEF IInv, Flight, InFlight
<1>. QED  BY <1>1, Invariance, PTL DEF Spec, FreeOnlyUnmapped

\* What another address space maps, and the bytes it sees there, are not
\* changed by a program's stores, by sys_fork or by exec_elf.
THEOREM IsolationHolds == Spec => Isolation
<1>. DEFINE Own == IF pc = "user" THEN cr3 ELSE space
            Others == \A s \in Spaces : s # Own => View(data', tbl', s) = View(data, tbl, s)
<1>1. IInv /\ Path /\ [Next]_vars => [Others]_vars
  <2>. SUFFICES ASSUME IInv, Path, [Next]_vars, NEW s \in Spaces, s # Own,
                       NEW v \in 0..StackTop
                PROVE  /\ PteOf(tbl', s, v) = PteOf(tbl, s, v)
                       /\ Present(PteOf(tbl, s, v)) =>
                            data'[PteOf(tbl, s, v).frame] = data[PteOf(tbl, s, v).frame]
    BY DEF View
  <2>1. v \in Nat /\ LowHalf(v)
    BY LowHalfAssumption
  <2>2. PteOf(tbl', s, v) = PteOf(tbl, s, v)
    <3>1. CASE MapPte
      <4>1. s # space
        BY <3>1 DEF MapPte, Mapping
      <4>. QED  BY <2>1, <3>1, <4>1, PteView
    <3>2. ASSUME NEW f \in Frame, Create(f) PROVE PteOf(tbl', s, v) = PteOf(tbl, s, v)
      BY <2>1, <3>2, CreateView
    <3>. QED  BY <2>1, <3>1, <3>2, ViewStep
  <2>3. ASSUME Present(PteOf(tbl, s, v))
        PROVE  data'[PteOf(tbl, s, v).frame] = data[PteOf(tbl, s, v).frame]
    <3>. DEFINE f == PteOf(tbl, s, v).frame
    <3>1. f \in used /\ f \in Frame
      BY <2>1, <2>3, PteTarget DEF IInv, TypeOK
    <3>2. ASSUME NEW x, f # x, NEW b, data' = [data EXCEPT ![x] = b]
          PROVE  data'[f] = data[f]
      BY <3>1, <3>2 DEF IInv, TypeOK
    <3>3. CASE ForkPage
      <4>1. Allocate(frame') /\ data' = [data EXCEPT ![frame'] = data[parent_phys]]
        BY <3>3 DEF ForkPage
      <4>2. frame' \notin used
        BY <4>1, Fresh DEF IInv, KernelShared
      <4>. QED  BY <3>1, <3>2, <4>1, <4>2
    <3>4. CASE SegmentFill
      <4>1. /\ pc = "fill" /\ data' = [data EXCEPT ![frame] = PageBytes]
            /\ s # space
        BY <3>4 DEF SegmentFill
      <4>2. /\ space \in Spaces /\ va \in Nat /\ LowHalf(va)
            /\ PteOf(tbl, space, va).frame = frame /\ Present(PteOf(tbl, space, va))
        BY <4>1 DEF IInv, Running, TypeOK, Path, Present
      <4>3. f # frame
        BY <2>1, <2>3, <4>1, <4>2, SameTarget DEF IInv
      <4>. QED  BY <3>2, <4>1, <4>3
    <3>5. ASSUME NEW w \in 0..StackTop, UserWrite(w) PROVE data'[f] = data[f]
      <4>. DEFINE b == [i \in 0..(PAGE_SIZE - 1) |-> UserByte]
                  x == PteOf(tbl, cr3, w).frame
      <4>1. /\ pc = "user" /\ s # cr3 /\ Present(PteOf(tbl, cr3, w))
            /\ data' = [data EXCEPT ![x] = b]
        BY <3>5 DEF UserWrite, Present
      <4>2. cr3 \in Spaces /\ w \in Nat /\ LowHalf(w)
        BY <4>1, LowHalfAssumption DEF IInv, Running
      <4>3. f # x
        BY <2>1, <2>3, <4>1, <4>2, SameTarget DEF IInv
      <4>. HIDE DEF f, x, b
      <4>. QED  BY <3>2, <4>1, <4>3
    <3>6. CASE data' = data
      BY <3>6
    <3>7. ASSUME ~ (ForkPage \/ SegmentFill \/ \E w \in 0..StackTop : UserWrite(w))
          PROVE  data' = data
      BY <3>7 DEF Next, KernelStep, CreateOutOfMemory, ExecStart, ForkStart, SegmentNext,
         SegmentPage, StackPage, SegmentsDone, EnterUser, ExecOutOfMemory,
         MapDescend, MapNewTable, MapPte, UserFault, ForkSkip, ForkOutOfMemory,
         ForkDone, ForkFault, MapOutOfMemory, vars
    <3>. QED  BY <3>3, <3>4, <3>5, <3>6, <3>7
  <2>. QED  BY <2>2, <2>3
<1>. QED  BY <1>1, PathInvariance, PTL DEF Spec, Isolation

\* vmm.c, as exec_elf, sys_fork and isr_handler use it, implements partial
\* functions from pages to frames.
THEOREM PageTablesImplementPageMap == Spec => ImplementsPageMap
<1>1. IInv /\ Path /\ (IInv /\ Path)' /\ [Next]_vars => [PageMaps!Next]_(PageMaps!vars)
  BY RefineMapStep
<1>. QED  BY <1>1, RefineMapInit, PathInvariance, PTL
          DEF Spec, ImplementsPageMap, PageMaps!Spec

\* Whatever the memory and the program: during sys_fork the child has, below
\* va, the parent's pages with the parent's bytes in frames of its own, and
\* may write to none that the parent may only read.
THEOREM ForkCopiesHolds == Spec => []ForkCopies
<1>1. ForkInv => ForkCopies
  BY DEF ForkInv
<1>. QED  BY <1>1, ForkInvariance, PTL

\* When exec_elf has loaded the segments, and while it maps the stack, every
\* byte of every loadable segment is where the file says and as it says.
THEOREM ImageLoadedHolds == Spec => []ImageLoaded
<1>1. IInv /\ Image => ImageLoaded
  <2>. SUFFICES ASSUME IInv, Image, pc = "stack", Regular(prog),
                       NEW s \in 1..Len(Segs), Segs[s].load,
                       NEW k \in 0..(Segs[s].memsz - 1)
                PROVE  ByteLoaded(s, k)
    BY DEF ImageLoaded, SegmentLoaded, ByteLoaded, PageOf, Offset
  <2>1. seg > Len(Segs)
    BY DEF Image, AtPage, Setup
  <2>2. Len(Segs) \in Nat /\ seg \in Nat
    BY SegFacts DEF IInv, TypeOK
  <2>3. Done(s, k)
    BY <2>1, <2>2 DEF Done, Byte
  <2>. QED  BY <2>3 DEF Image, Setup
<1>. QED  BY <1>1, ImageInvariance, PTL

\* For every program whose segments share no page, and every moment at which
\* memory runs out: a frame in use that is reached stays reached or is freed,
\* and one that is taken is reached.
THEOREM NothingIsLost == Spec => NothingUnreachable
<1>. DEFINE Inv == IInv /\ Path /\ Image /\ Copying
            Kept == \/ (used' \ Reserved) \ (used \ Reached) \subseteq Reached'
                    \/ pc' = "halted"
                    \/ pc \in {"map_segment", "map_stack"} /\ ~ Regular(prog)
<1>1. Inv /\ IInv' /\ [Next]_vars => [Kept]_vars
  <2>. SUFFICES ASSUME Inv, IInv', Next, pc' # "halted",
                       ~ (pc \in {"map_segment", "map_stack"} /\ ~ Regular(prog)),
                       NEW f \in used' \ Reserved, f \notin used \/ f \in Reached
                PROVE  f \in Reached'
    OBVIOUS
  <2>1. CASE f \notin used
    BY <2>1, TakenIsReached
  <2>2. MapPte => ~ Present(tbl[node][Slot])
    <3>1. MapPte => pc = "map_fork" \/ Regular(prog)
      BY DEF MapPte, Mapping
    <3>. QED  BY <3>1, EmptySlot
  <2>3. /\ Spaces \subseteq Spaces'
        /\ \A t \in Tables, k \in Idx : Link(t, k) =>
             t \in Tables' /\ Link(t, k)' /\ Target(t, k)' = Target(t, k)
    BY <2>2, LinksStay
  <2>4. CASE f \in Spaces
    BY <2>3, <2>4, ReachedNext
  <2>5. CASE \E t \in Tables, k \in Idx : Link(t, k) /\ Target(t, k) = f
    BY <2>3, <2>5, ReachedNext
  <2>6. CASE Mapping /\ f = frame
    <3>1. CASE MapPte
      <4>1. \E t \in Tables', k \in Idx : Link(t, k)' /\ Target(t, k)' = frame
        BY <3>1, NewLink DEF MapPte
      <4>. QED  BY <2>6, <4>1, ReachedNext
    <3>2. CASE MapOutOfMemory
      BY <2>6, <3>2 DEF MapOutOfMemory
    <3>3. CASE UNCHANGED <<pc, frame>>
      BY <2>6, <3>3, ReachedNext DEF Mapping
    <3>4. ASSUME ~ MapPte, ~ MapOutOfMemory PROVE UNCHANGED <<pc, frame>>
      BY <2>6, <3>4 DEF Mapping, Next, KernelStep, CreateOutOfMemory, EnterUser, ExecOutOfMemory,
       MapDescend, MapNewTable, UserFault, ForkSkip, ForkOutOfMemory, SegmentPage, StackPage, ForkPage,
       ForkDone, ForkFault, UserWrite, vars, map, SegmentsDone, SegmentNext, SegmentFill,
       ExecStart, ForkStart
    <3>. QED  BY <3>1, <3>2, <3>3, <3>4
  <2>. QED  BY <2>1, <2>4, <2>5, <2>6, ReachedBy
<1>2. Spec => []Inv
  BY ImageInvariance, ForkInvariance, PTL DEF ForkInv
<1>. QED  BY <1>1, <1>2, PTL DEF Spec, NothingUnreachable
=============================================================================
