----------------------------- MODULE PMMProofs ------------------------------
(***************************************************************************)
(* Proofs that the bitmap allocator of vmm.c is type correct, never hands  *)
(* out an unsafe or an already held frame, refuses a request only when no  *)
(* frame is left, and implements FrameAllocator, for every memory map.     *)
(***************************************************************************)
EXTENDS PMM, TLAPS, WellFoundedInduction

(***************************************************************************)
(* The circular scan, for every bitmap and every start of it.              *)
(***************************************************************************)

\* A probe is always a frame below max_bits.
LEMMA ProbeInRange ==
  ASSUME NEW n \in Nat \ {0}, NEW l \in Nat, NEW j \in Nat
  PROVE  Probe(n, l, j) \in 0..(n - 1)
BY DEF Probe

\* Every frame below max_bits is probed by one of the max_bits iterations.
LEMMA ProbeCovers ==
  ASSUME NEW n \in Nat, NEW l \in 0..n, NEW f \in 0..(n - 1)
  PROVE  \E j \in 0..(n - 1) : Probe(n, l, j) = f
<1>0. n \in Nat \ {0}
  OBVIOUS
<1>1. CASE l <= f
  <2>1. f - l \in 0..(n - 1) /\ l + (f - l) = f
    BY <1>1
  <2>2. f % n = f
    BY <1>0
  <2>. QED  BY <2>1, <2>2 DEF Probe
<1>2. CASE l > f
  <2>1. f + n - l \in 0..(n - 1) /\ l + (f + n - l) = f + n
    BY <1>2
  <2>2. (f + n) % n = f
    BY <1>0
  <2>. QED  BY <2>1, <2>2 DEF Probe
<1>. QED  BY <1>1, <1>2

\* A non-empty set of naturals has a least element.
LEMMA LeastNat ==
  ASSUME NEW S \in SUBSET Nat, S # {}
  PROVE  \E m \in S : \A x \in S : m <= x
<1>1. PICK m \in S : \A x \in S : ~ (<<x, m>> \in OpToRel(<, Nat))
  BY WFMin, NatLessThanWellFounded
<1>2. \A x \in S : ~ (x < m)
  BY <1>1 DEF OpToRel
<1>. QED  BY <1>2

(***************************************************************************)
(* Rounding of addresses to frames.                                        *)
(***************************************************************************)

\* Multiples of the page size are aligned and divide exactly.
LEMMA Multiple ==
  ASSUME NEW p \in Nat \ {0}, NEW g \in Nat
  PROVE  (g * p) % p = 0 /\ (g * p) \div p = g
<1>. DEFINE q == g * p
            d == q \div p
            r == q % p
<1>1. q \in Nat
  OBVIOUS
<1>2. d \in Int /\ r \in 0..(p - 1) /\ q = p * d + r
  <2>. HIDE DEF q
  <2>. QED  BY <1>1
<1>3. p * (g - d) = r
  <2>. HIDE DEF d, r
  <2>. QED  BY <1>2
<1>4. g - d = 0
  <2>1. g - d \in Int /\ 0 <= p * (g - d) /\ p * (g - d) < p
    BY <1>2, <1>3
  <2>. DEFINE e == g - d
  <2>. HIDE DEF e
  <2>2. e >= 1 => p * e >= p
    BY <2>1 DEF e
  <2>3. e <= -1 => p * e <= -p
    BY <2>1 DEF e
  <2>. QED  BY <2>1, <2>2, <2>3 DEF e
<1>5. d = g /\ r = 0
  <2>. HIDE DEF d, r
  <2>. QED  BY <1>2, <1>3, <1>4
<1>. QED  BY <1>5

\* The rounding of pmm_init, as inequalities between addresses.
LEMMA DivBounds ==
  ASSUME NEW p \in Nat \ {0}, NEW x \in Nat, NEW f \in Nat
  PROVE  /\ f < x \div p => f * p + p <= x
         /\ f >= x \div p => x < f * p + p
<1>. DEFINE d == x \div p
            r == x % p
<1>1. d \in Nat /\ r \in 0..(p - 1) /\ x = p * d + r
  OBVIOUS
<1>. HIDE DEF d, r
<1>2. f < d => p * (f + 1) <= p * d
  BY <1>1
<1>3. f >= d => p * d <= p * f
  BY <1>1
<1>4. p * (f + 1) = f * p + p /\ p * f = f * p
  OBVIOUS
<1>5. p * d \in Nat /\ f * p \in Nat
  BY <1>1
<1>6. (f < d => f * p + p <= x) /\ (f >= d => x < f * p + p)
  BY <1>1, <1>2, <1>3, <1>4, <1>5
<1>. QED  BY <1>6 DEF d

(***************************************************************************)
(* Minima and maxima of sets of frame numbers.                             *)
(***************************************************************************)

\* Max of a bounded non-empty set of naturals is its greatest element.
LEMMA MaxIsGreatest ==
  ASSUME NEW S \in SUBSET Nat, S # {}, NEW b \in Nat, \A x \in S : x <= b
  PROVE  /\ Max(S) \in S
         /\ \A x \in S : x <= Max(S)
<1>. DEFINE U == {h \in Nat : \A x \in S : x <= h}
<1>1. U \in SUBSET Nat /\ U # {}
  OBVIOUS
<1>. HIDE DEF U
<1>2. PICK m \in U : \A h \in U : m <= h
  BY <1>1, LeastNat
<1>3. m \in S
  <2>1. SUFFICES ASSUME m \notin S PROVE FALSE
    OBVIOUS
  <2>2. m \in Nat /\ \A x \in S : x < m
    BY <1>2, <2>1 DEF U
  <2>3. m > 0
    <3>1. PICK x \in S : TRUE
      OBVIOUS
    <3>2. x \in Nat /\ x < m /\ m \in Nat
      BY <2>2, <3>1
    <3>. QED  BY <3>2
  <2>4. m - 1 \in U
    BY <2>2, <2>3 DEF U
  <2>. QED  BY <1>2, <2>2, <2>4
<1>4. \E x \in S : \A y \in S : x >= y
  BY <1>2, <1>3 DEF U
<1>. QED  BY <1>4 DEF Max

(***************************************************************************)
(* The inductive invariant.  TypeOK bounds the counters; Tables says what  *)
(* the bitmap and pmm_highest_address are once pmm_init has run; Scanned   *)
(* says that the probes made so far found nothing.                         *)
(***************************************************************************)
Booted ==
  /\ pc = "off" => highest = 0 /\ used = {}
  /\ pc \in {"off", "boot"} => held = {}
  /\ pc # "off" => /\ \A f \in UsableFrames : f < highest
                   /\ Available(highest, LowFrames, used) = Pool \ held

Marked == held \subseteq Pool /\ held \subseteq used

Scanned ==
  pc = "scan" => \A j \in 0..(i - 1) :
    Probe(highest, last, j) \notin Available(highest, LowFrames, used)

IInv == TypeOK /\ Booted /\ Marked /\ Scanned

USE SizesAssumption

\* pmm_init leaves pmm_highest_address just above the last usable frame.
LEMMA HighestFrame ==
  ASSUME highest \in 0..MaxFrames
  PROVE  LET h == Max({highest} \cup {f + 1 : f \in UsableFrames})
         IN  /\ h \in 0..MaxFrames
             /\ highest <= h
             /\ \A f \in UsableFrames : f < h
<1>. DEFINE S == {highest} \cup {f + 1 : f \in UsableFrames}
<1>1. UsableFrames \subseteq 0..(MaxFrames - 1)
  BY DEF UsableFrames, Bits
<1>2. S \in SUBSET Nat /\ S # {} /\ \A x \in S : x <= MaxFrames
  BY <1>1
<1>3. Max(S) \in S /\ \A x \in S : x <= Max(S)
  <2>. HIDE DEF S
  <2>. QED  BY <1>2, MaxIsGreatest
<1>4. \A f \in UsableFrames : f + 1 <= Max(S)
  BY <1>3
<1>5. Max(S) \in 0..MaxFrames /\ highest <= Max(S)
  BY <1>2, <1>3
<1>6. \A f \in UsableFrames : f < Max(S)
  <2>. HIDE DEF S
  <2>. QED  BY <1>1, <1>4, <1>5
<1>. QED  BY <1>5, <1>6

\* The frames below pmm_highest_address have a bit in the bitmap.
LEMMA BelowHighest ==
  ASSUME NEW h \in 0..MaxFrames, NEW f \in 0..(h - 1)
  PROVE  f \in Bits
BY DEF Bits

LEMMA InitIInv == Init => IInv
BY DEF Init, IInv, TypeOK, Booted, Marked, Scanned, NULL, Bits

\* pmm_init makes exactly the frames of Pool available.
LEMMA InitStep == IInv /\ pmm_init => IInv'
<1>. SUFFICES ASSUME IInv, pmm_init PROVE IInv'
  OBVIOUS
<1>. USE DEF IInv
<1>1. /\ highest' \in 0..MaxFrames
      /\ highest <= highest'
      /\ \A f \in UsableFrames : f < highest'
  BY HighestFrame DEF pmm_init, TypeOK
<1>2. TypeOK'
  BY <1>1 DEF pmm_init, TypeOK, Bits, KernelFrames, BitmapFrames
<1>3. held' = {} /\ pc' \in {"boot", "idle"}
  BY DEF pmm_init, Booted
<1>4. Available(highest', LowFrames, used') = Pool
  <2>1. \A f \in UsableFrames : f \in Nat
    BY DEF UsableFrames, Bits
  <2>2. used' = (Bits \ UsableFrames) \cup KernelFrames \cup BitmapFrames
    BY DEF pmm_init
  <2>3. 0..(highest' - 1) \subseteq Bits
    BY <1>1, BelowHighest
  <2>4. UsableFrames \subseteq 0..(highest' - 1)
    BY <2>1, <1>1
  <2>5. \A f : f \in 0..(highest' - 1) /\ f \notin used' <=>
               f \in UsableFrames \ (KernelFrames \cup BitmapFrames)
    BY <2>2, <2>3, <2>4, Zenon
  <2>. QED  BY <2>5 DEF Available, Pool
<1>. QED  BY <1>1, <1>2, <1>3, <1>4 DEF Booted, Marked, Scanned

LEMMA CallStep == IInv /\ AllocCall => IInv'
BY DEF IInv, AllocCall, TypeOK, Booted, Marked, Scanned, Available, Pool

\* What ScanSkip passes over is not available.
LEMMA SkipStep == IInv /\ ScanSkip => IInv'
<1>. SUFFICES ASSUME IInv, ScanSkip PROVE IInv'
  OBVIOUS
<1>. USE DEF IInv
<1>1. TypeOK' /\ Booted' /\ Marked'
  BY DEF ScanSkip, TypeOK, Booted, Marked, Available, Pool
<1>2. \A j \in 0..i :
        Probe(highest, last, j) \notin Available(highest, LowFrames, used)
  <2>1. current_index \notin Available(highest, LowFrames, used)
    BY ProbeInRange DEF ScanSkip, current_index, Available, TypeOK
  <2>2. \A j \in 0..i : j = i \/ j \in 0..(i - 1)
    BY DEF TypeOK
  <2>. QED  BY <2>1, <2>2 DEF Scanned, ScanSkip, current_index
<1>3. /\ i' - 1 = i
      /\ UNCHANGED <<highest, last, used>>
  BY DEF ScanSkip, TypeOK
<1>. QED  BY <1>1, <1>2, <1>3 DEF Scanned, Available

\* The frame taken was available, hence in Pool and held by nobody.
LEMMA TakeIsAvailable ==
  ASSUME IInv, ScanTake
  PROVE  /\ current_index \in Available(highest, LowFrames, used)
         /\ current_index \in Pool \ held
         /\ current_index \in 0..(highest - 1)
<1>1. current_index \in 0..(highest - 1)
  <2>1. highest \in Nat \ {0} /\ last \in Nat /\ i \in Nat
    BY DEF ScanTake, IInv, TypeOK
  <2>. QED  BY <2>1, ProbeInRange DEF current_index
<1>2. current_index \in Available(highest, LowFrames, used)
  BY <1>1 DEF ScanTake, Available
<1>3. pc = "scan"
  BY DEF ScanTake
<1>. QED  BY <1>1, <1>2, <1>3 DEF IInv, Booted

LEMMA TakeStep == IInv /\ ScanTake => IInv'
<1>. SUFFICES ASSUME IInv, ScanTake PROVE IInv'
  OBVIOUS
<1>. DEFINE f == current_index
<1>1. f \in Pool \ held /\ f \in 0..(highest - 1)
  BY TakeIsAvailable
<1>2. /\ used' = used \cup {f} /\ held' = held \cup {f}
      /\ last' = f + 1 /\ ret' = f /\ pc' = "idle" /\ pc = "scan"
      /\ highest' = highest /\ i' = i
  BY DEF ScanTake
<1>. HIDE DEF f
<1>3. f \in Bits
  BY <1>1, BelowHighest DEF IInv, TypeOK
<1>4. TypeOK'
  <2>1. f \in 0..(MaxFrames - 1) /\ f + 1 \in 0..highest
    BY <1>1, <1>3 DEF Bits, IInv, TypeOK
  <2>2. f \in 0..MaxFrames
    BY <2>1
  <2>. QED  BY <1>2, <1>3, <2>1, <2>2 DEF IInv, TypeOK
<1>5. Available(highest, LowFrames, used')
        = Available(highest, LowFrames, used) \ {f}
  BY <1>2 DEF Available
<1>6. Booted' /\ Marked'
  BY <1>1, <1>2, <1>5 DEF IInv, Booted, Marked, Pool
<1>. QED  BY <1>2, <1>4, <1>6 DEF IInv, Scanned

\* When the scan gives up, the max_bits probes have covered every frame.
LEMMA FailMeansFull ==
  ASSUME IInv, ScanFail
  PROVE  Available(highest, LowFrames, used) = {}
<1>1. i = highest /\ highest \in Nat /\ last \in 0..highest /\ pc = "scan"
  BY DEF IInv, TypeOK, ScanFail
<1>2. \A f \in 0..(highest - 1) : \E j \in 0..(i - 1) :
         Probe(highest, last, j) = f
  BY <1>1, ProbeCovers
<1>3. \A f \in 0..(highest - 1) : f \notin Available(highest, LowFrames, used)
  BY <1>1, <1>2 DEF IInv, Scanned
<1>. QED  BY <1>3 DEF Available

LEMMA FailStep == IInv /\ ScanFail => IInv'
BY DEF IInv, ScanFail, TypeOK, Booted, Marked, Scanned, Available, Pool, NULL

\* Freeing a held frame moves it from held to the available ones; every
\* other call of pmm_free_frame changes nothing.
LEMMA FreeEffect ==
  ASSUME IInv, NEW addr \in Nat, pmm_free_frame(addr)
  PROVE  \/ UNCHANGED <<used, held>>
         \/ \E f \in held : /\ used' = used \ {f}
                            /\ held' = held \ {f}
<1>. DEFINE f == AlignDown(addr)
<1>1. CASE addr % PAGE_SIZE # 0 \/ f >= highest
  <2>1. used' = used
    BY <1>1 DEF pmm_free_frame
  <2>2. \A g \in held : g * PAGE_SIZE # addr
    <3>. SUFFICES ASSUME NEW g \in held, g * PAGE_SIZE = addr PROVE FALSE
      OBVIOUS
    <3>1. g \in 0..(highest - 1) /\ g \in Nat
      <4>1. pc = "idle"
        BY DEF pmm_free_frame
      <4>2. g \in UsableFrames
        BY DEF IInv, Marked, Pool
      <4>. QED  BY <4>1, <4>2 DEF IInv, Booted, TypeOK, Bits
    <3>2. (g * PAGE_SIZE) % PAGE_SIZE = 0 /\ (g * PAGE_SIZE) \div PAGE_SIZE = g
      BY <3>1, Multiple
    <3>. QED  BY <1>1, <3>1, <3>2 DEF AlignDown, IInv, TypeOK
  <2>. QED  BY <2>1, <2>2 DEF pmm_free_frame
<1>2. CASE ~ (addr % PAGE_SIZE # 0 \/ f >= highest)
  <2>1. f * PAGE_SIZE = addr /\ f \in Nat
    BY <1>2 DEF AlignDown
  <2>2. used' = used \ {f} /\ (f \in held \/ f \notin used)
    BY <1>2 DEF pmm_free_frame
  <2>3. \A g \in held : g * PAGE_SIZE = addr <=> g = f
    <3>1. \A g \in Nat : g * PAGE_SIZE = f * PAGE_SIZE <=> g = f
      BY <2>1
    <3>2. held \subseteq Nat
      BY DEF IInv, TypeOK, Bits
    <3>. HIDE DEF f
    <3>. QED  BY <2>1, <3>1, <3>2
  <2>4. held' = held \ {f}
    <3>. HIDE DEF f
    <3>. QED  BY <2>3 DEF pmm_free_frame
  <2>5. f \notin used => f \notin held
    BY DEF IInv, Marked
  <2>. HIDE DEF f
  <2>. QED  BY <2>2, <2>4, <2>5
<1>. QED  BY <1>1, <1>2

LEMMA FreeStep ==
  ASSUME IInv, NEW addr \in Nat, pmm_free_frame(addr)
  PROVE  IInv'
<1>1. UNCHANGED <<highest, last, pc, i, ret>> /\ pc = "idle"
  BY DEF pmm_free_frame
<1>2. CASE UNCHANGED <<used, held>>
  BY <1>1, <1>2 DEF IInv, TypeOK, Booted, Marked, Scanned, Available
<1>3. CASE \E f \in held : used' = used \ {f} /\ held' = held \ {f}
  <2>1. PICK f \in held : used' = used \ {f} /\ held' = held \ {f}
    BY <1>3
  <2>2. f \in Pool /\ f >= LowFrames /\ f \in 0..(highest - 1)
    BY <1>1 DEF IInv, Marked, Booted, Pool, TypeOK, UsableFrames, Bits
  <2>3. Available(highest, LowFrames, used')
          = Available(highest, LowFrames, used) \cup {f}
    BY <2>1, <2>2 DEF Available
  <2>4. TypeOK' /\ Marked'
    BY <1>1, <2>1 DEF IInv, TypeOK, Marked
  <2>5. Booted'
    BY <1>1, <2>1, <2>2, <2>3 DEF IInv, Booted
  <2>. QED  BY <1>1, <2>4, <2>5 DEF IInv, Scanned
<1>. QED  BY <1>2, <1>3, FreeEffect

\* Every step of the manager preserves the invariant.
LEMMA NextIInv == IInv /\ [Next]_vars => IInv'
<1>. SUFFICES ASSUME IInv, [Next]_vars PROVE IInv'
  OBVIOUS
<1>1. CASE pmm_init
  BY <1>1, InitStep
<1>2. CASE pmm_alloc_frame
  BY <1>2, CallStep, SkipStep, TakeStep, FailStep DEF pmm_alloc_frame
<1>3. CASE \E addr \in 0..(MaxFrames * PAGE_SIZE) : pmm_free_frame(addr)
  BY <1>3, FreeStep
<1>4. CASE UNCHANGED vars
  BY <1>4 DEF vars, IInv, TypeOK, Booted, Marked, Scanned, Available
<1>. QED  BY <1>1, <1>2, <1>3, <1>4 DEF Next

LEMMA Invariance == Spec => []IInv
BY InitIInv, NextIInv, PTL DEF Spec

\* The manager's counters and sets keep their types: in particular
\* pmm_last_alloc_index never exceeds the number of frames.
THEOREM TypeCorrect == Spec => []TypeOK
BY Invariance, PTL DEF IInv

\* No caller holds a frame whose bit is clear (HeldStaysMarked).
THEOREM HeldMarked == Spec => []HeldStaysMarked
<1>1. IInv => HeldStaysMarked
  BY DEF IInv, Marked, HeldStaysMarked
<1>. QED  BY <1>1, Invariance, PTL

\* Once pmm_init has run every frame of the pool is held or can be found.
THEOREM NothingLost == Spec => []NoFrameLost
<1>1. IInv => NoFrameLost
  BY DEF IInv, Booted, NoFrameLost
<1>. QED  BY <1>1, Invariance, PTL

\* A frame of the pool is usable memory in all its bytes and holds none of
\* the kernel's, although pmm_init reasons about rounded frame numbers.
LEMMA PoolIsSafe ==
  ASSUME NEW f \in Pool
  PROVE  SafeFrame(f) /\ f >= LowFrames
<1>1. f \in Nat /\ f \in Bits /\ f \notin KernelFrames /\ f >= LowFrames
  BY DEF Pool, UsableFrames, Bits
<1>2. PICK k \in DOMAIN MemMap : MemMap[k].usable /\ f \in EntryFrames(MemMap[k])
  BY DEF Pool, UsableFrames
<1>. DEFINE b == MemMap[k].base
            e == MemMap[k].base + MemMap[k].length
<1>3. b \in Nat /\ e \in Nat
  BY MemMapAssumption
<1>4. f >= AlignUp(b) /\ f < AlignDown(e)
  BY <1>2 DEF EntryFrames
<1>. HIDE DEF b, e
<1>5. b <= f * PAGE_SIZE /\ f * PAGE_SIZE + PAGE_SIZE <= e
  <2>1. b + PAGE_SIZE - 1 \in Nat
    BY <1>3
  <2>2. b + PAGE_SIZE - 1 < f * PAGE_SIZE + PAGE_SIZE
    BY <1>1, <1>4, <2>1, DivBounds DEF AlignUp
  <2>3. f * PAGE_SIZE + PAGE_SIZE <= e
    BY <1>1, <1>3, <1>4, DivBounds DEF AlignDown
  <2>4. f * PAGE_SIZE \in Nat
    BY <1>1
  <2>. QED  BY <1>3, <2>2, <2>3, <2>4
<1>. DEFINE s == KernelBase
            t == KernelBase + kernel_size
<1>6. s \in Nat /\ t \in Nat
  BY DEF kernel_size
<1>7. f < AlignDown(s) \/ f >= AlignUp(t)
  <2>1. AlignDown(s) \in Nat /\ AlignUp(t) \in Nat
    BY <1>6 DEF AlignDown, AlignUp
  <2>2. ~ (AlignDown(s) <= f /\ f < AlignUp(t))
    BY <1>1 DEF KernelFrames
  <2>. HIDE DEF s, t
  <2>. QED  BY <1>1, <2>1, <2>2
<1>. HIDE DEF s, t
<1>8. f * PAGE_SIZE + PAGE_SIZE <= s \/ t <= f * PAGE_SIZE
  <2>1. CASE f < AlignDown(s)
    BY <2>1, <1>1, <1>6, DivBounds DEF AlignDown
  <2>2. CASE f >= AlignUp(t)
    <3>1. t + PAGE_SIZE - 1 \in Nat
      BY <1>6
    <3>2. t + PAGE_SIZE - 1 < f * PAGE_SIZE + PAGE_SIZE
      BY <1>1, <2>2, <3>1, DivBounds DEF AlignUp
    <3>3. f * PAGE_SIZE \in Nat
      BY <1>1
    <3>. QED  BY <1>6, <3>2, <3>3
  <2>. QED  BY <1>7, <2>1, <2>2
<1>9. ASSUME NEW a \in (f * PAGE_SIZE)..(f * PAGE_SIZE + PAGE_SIZE - 1)
      PROVE  b <= a /\ a < e /\ ~ (s <= a /\ a < t)
  <2>1. f * PAGE_SIZE \in Nat
    BY <1>1
  <2>. DEFINE q == f * PAGE_SIZE
  <2>. HIDE DEF q
  <2>2. q \in Nat /\ a \in q..(q + PAGE_SIZE - 1)
        /\ b <= q /\ q + PAGE_SIZE <= e /\ (q + PAGE_SIZE <= s \/ t <= q)
    BY <1>5, <1>8, <2>1 DEF q
  <2>. QED  BY <1>3, <1>6, <2>2
<1>. QED  BY <1>1, <1>2, <1>9 DEF SafeFrame, b, e, s, t

\* No caller ever holds a frame that touches the kernel, unusable memory or
\* the first MiB, for every memory map and kernel placement.
THEOREM HeldSafe == Spec => []HeldIsSafe
<1>1. IInv => HeldIsSafe
  BY PoolIsSafe DEF IInv, Marked, HeldIsSafe
<1>. QED  BY <1>1, Invariance, PTL

\* The only steps that end a scan are ScanTake and ScanFail.
LEMMA ScanEnds ==
  ASSUME IInv, [Next]_vars, pc = "scan", pc' = "idle"
  PROVE  ScanTake \/ ScanFail
BY DEF Next, vars, pmm_init, pmm_alloc_frame, AllocCall, ScanSkip,
       pmm_free_frame

\* A scan that ends has found the first available frame in circular order,
\* or there is none: the loop of pmm_alloc_frame computes NextFit.
LEMMA EndIsNextFit ==
  ASSUME IInv, [Next]_vars, pc = "scan", pc' = "idle"
  PROVE  ret' = NextFit(highest, LowFrames, used, last)
<1>. DEFINE A == Available(highest, LowFrames, used)
            P(k) == /\ Probe(highest, last, k) \in A
                    /\ \A j \in 0..(k - 1) : Probe(highest, last, j) \notin A
<1>1. CASE ScanFail
  BY <1>1, FailMeansFull DEF ScanFail, NextFit
<1>2. CASE ScanTake
  <2>1. A # {}
    BY <1>2, TakeIsAvailable
  <2>2. i \in 0..(highest - 1) /\ P(i)
    <3>1. i \in 0..(highest - 1)
      BY <1>2 DEF ScanTake, IInv, TypeOK
    <3>2. Probe(highest, last, i) \in A
      BY <1>2, TakeIsAvailable DEF current_index
    <3>3. \A j \in 0..(i - 1) : Probe(highest, last, j) \notin A
      BY DEF IInv, Scanned
    <3>. QED  BY <3>1, <3>2, <3>3
  <2>. HIDE DEF A
  <2>. DEFINE k == CHOOSE k \in 0..(highest - 1) : P(k)
  <2>3. k \in 0..(highest - 1) /\ P(k)
    BY <2>2
  <2>4. k = i
    <3>. HIDE DEF k
    <3>1. k \in Nat /\ i \in Nat
      BY <2>2, <2>3
    <3>2. ~ (k < i)
      BY <3>1, <2>2, <2>3
    <3>3. ~ (i < k)
      BY <3>1, <2>2, <2>3
    <3>. QED  BY <3>1, <3>2, <3>3
  <2>5. NextFit(highest, LowFrames, used, last) = Probe(highest, last, k)
    BY <2>1 DEF NextFit, A
  <2>6. ret' = Probe(highest, last, i)
    BY <1>2 DEF ScanTake, current_index
  <2>. QED  BY <2>4, <2>5, <2>6
<1>. QED  BY <1>1, <1>2, ScanEnds

\* pmm_alloc_frame returns the next available frame in circular order.
THEOREM ScanComputesNextFit == Spec => ScanIsNextFit
<1>1. IInv /\ [Next]_vars =>
        [pc = "scan" /\ pc' = "idle" =>
           ret' = NextFit(highest, LowFrames, used, last)]_vars
  BY EndIsNextFit
<1>. QED  BY <1>1, Invariance, PTL DEF Spec, ScanIsNextFit

\* pmm_alloc_frame returns NULL only when nothing is available.
THEOREM RefusalIsJustified == Spec => RefusedOnlyWhenFull
<1>1. ASSUME IInv, [Next]_vars, pc = "scan", pc' = "idle", ret' = NULL
      PROVE  Available(highest, LowFrames, used) = {}
  <2>1. CASE ScanFail
    BY <2>1, <1>1, FailMeansFull
  <2>2. CASE ScanTake
    <3>1. current_index = 0
      BY <2>2, <1>1 DEF ScanTake, NULL
    <3>. QED  BY <2>2, <3>1 DEF ScanTake
  <2>. QED  BY <1>1, <2>1, <2>2, ScanEnds
<1>2. IInv /\ [Next]_vars =>
        [pc = "scan" /\ pc' = "idle" /\ ret' = NULL =>
           Available(highest, LowFrames, used) = {}]_vars
  BY <1>1
<1>. QED  BY <1>2, Invariance, PTL DEF Spec, RefusedOnlyWhenFull

(***************************************************************************)
(* Refinement of the abstract allocator.                                   *)
(***************************************************************************)
LEMMA RefineInit == Init => Allocator!Init
BY DEF Init, Allocator!Init, Available, NULL, Allocator!NULL

LEMMA RefineStep == IInv /\ [Next]_vars => [Allocator!Next]_Allocator!vars
<1>. SUFFICES ASSUME IInv, [Next]_vars
              PROVE  Allocator!Next \/ UNCHANGED Allocator!vars
  OBVIOUS
<1>. DEFINE A == Available(highest, LowFrames, used)
<1>1. CASE pmm_init
  <2>1. held = {} /\ held' = {} /\ ret' = ret
    BY <1>1 DEF pmm_init, IInv, Booted
  <2>2. A' = Pool
    <3>1. IInv' /\ pc' # "off"
      BY <1>1, InitStep DEF pmm_init
    <3>. QED  BY <3>1, <2>1 DEF IInv, Booted
  <2>. QED  BY <2>1, <2>2 DEF Allocator!Next, Allocator!Boot
<1>2. CASE AllocCall \/ ScanSkip
  BY <1>2 DEF AllocCall, ScanSkip, Allocator!vars, Available
<1>3. CASE ScanTake
  <2>1. current_index \in A /\ current_index \in Pool
    BY <1>3, TakeIsAvailable
  <2>2. /\ A' = A \ {current_index}
        /\ held' = held \cup {current_index}
        /\ ret' = current_index
    BY <1>3 DEF ScanTake, Available
  <2>3. Allocator!Alloc(current_index)
    BY <2>1, <2>2 DEF Allocator!Alloc
  <2>. QED  BY <2>1, <2>3 DEF Allocator!Next
<1>4. CASE ScanFail
  BY <1>4, FailMeansFull
     DEF ScanFail, Allocator!Next, Allocator!Refuse, Available, NULL,
         Allocator!NULL
<1>5. CASE \E addr \in 0..(MaxFrames * PAGE_SIZE) : pmm_free_frame(addr)
  <2>1. PICK addr \in 0..(MaxFrames * PAGE_SIZE) : pmm_free_frame(addr)
    BY <1>5
  <2>2. UNCHANGED <<highest, ret>> /\ pc = "idle" /\ addr \in Nat
    BY <2>1 DEF pmm_free_frame
  <2>3. CASE UNCHANGED <<used, held>>
    BY <2>2, <2>3 DEF Allocator!vars, Available
  <2>4. CASE \E f \in held : used' = used \ {f} /\ held' = held \ {f}
    <3>1. PICK f \in held : used' = used \ {f} /\ held' = held \ {f}
      BY <2>4
    <3>2. f \in Pool /\ f >= LowFrames /\ f \in 0..(highest - 1)
      BY <2>2 DEF IInv, Marked, Booted, Pool, TypeOK, UsableFrames, Bits
    <3>3. A' = A \cup {f}
      BY <2>2, <3>1, <3>2 DEF Available
    <3>4. Allocator!Free(f)
      BY <2>2, <3>1, <3>3 DEF Allocator!Free
    <3>. QED  BY <3>2, <3>4 DEF Allocator!Next
  <2>. QED  BY <2>1, <2>2, <2>3, <2>4, FreeEffect
<1>6. CASE UNCHANGED vars
  BY <1>6 DEF vars, Allocator!vars, Available
<1>. QED  BY <1>1, <1>2, <1>3, <1>4, <1>5, <1>6 DEF Next, pmm_alloc_frame

\* The bitmap allocator implements the abstract frame allocator.
THEOREM PMMImplementsAllocator == Spec => ImplementsAllocator
BY RefineInit, RefineStep, Invariance, PTL
   DEF Spec, ImplementsAllocator, Allocator!Spec
=============================================================================
