---------------------------- MODULE RewriteProofs ----------------------------
(* Proofs about the rewriting of path arguments, for any width of an       *)
(* address, any strings and their sizes and any layout of the program's    *)
(* memory that LayoutAssumption allows: nothing the program may still use  *)
(* is written over.                                                        *)
EXTENDS Rewrite, WellFoundedInduction, TLAPS

-----------------------------------------------------------------------------
(* Unsigned arithmetic. *)
LEMMA Least ==
    ASSUME NEW T \in SUBSET Nat, T # {}
    PROVE  \E x \in T : \A y \in T : x <= y
<1> DEFINE R == {ss \in Nat \X Nat : ss[1] < ss[2]}
<1>1. IsWellFoundedOn(R, Nat)
  BY NatLessThanWellFounded DEF OpToRel
<1> HIDE DEF R
<1>2. PICK x \in T : \A y \in T : ~ (<<y, x>> \in R)
  BY <1>1, WFMin
<1>3. \A y \in T : ~ (y < x)
  BY <1>2 DEF R
<1> QED
  BY <1>3

LEMMA Remainder ==
    ASSUME NEW c \in Nat \ {0}, NEW x \in Int
    PROVE  /\ x % c \in 0 .. c - 1
           /\ x \in 0 .. c - 1 => x % c = x
           /\ x \in 0 - c .. -1 => x % c = x + c
           /\ x \in c .. 2 * c - 1 => x % c = x - c
           /\ x \in Nat => x % c <= x
<1> DEFINE p == x \div c
           r == x % c
<1>1. p \in Int /\ r \in 0 .. c - 1 /\ x = c * p + r
  OBVIOUS
<1> HIDE DEF p, r
<1>2. \A k \in Int : p > k => c * p >= c * k + c
  <2> SUFFICES ASSUME NEW k \in Int, p > k PROVE c * p >= c * k + c
    OBVIOUS
  <2>1. c * (p - k) >= c
    BY <1>1
  <2> QED
    BY <1>1, <2>1
<1>3. \A k \in Int : p < k => c * p + c <= c * k
  <2> SUFFICES ASSUME NEW k \in Int, p < k PROVE c * p + c <= c * k
    OBVIOUS
  <2>1. c * (k - p) >= c
    BY <1>1
  <2> QED
    BY <1>1, <2>1
<1>4. x \in 0 .. c - 1 => r = x
  <2>1. x \in 0 .. c - 1 => ~(p > 0) /\ ~(p < 0)
    BY <1>1, <1>2, <1>3
  <2>2. p = 0 => c * p = 0
    BY <1>1
  <2> QED
    BY <1>1, <2>1, <2>2
<1>5. x \in 0 - c .. -1 => r = x + c
  <2>1. x \in 0 - c .. -1 => ~(p > -1) /\ ~(p < -1)
    BY <1>1, <1>2, <1>3
  <2>2. p = -1 => c * p = -c
    BY <1>1
  <2> QED
    BY <1>1, <2>1, <2>2
<1>6. x \in c .. 2 * c - 1 => r = x - c
  <2>1. x \in c .. 2 * c - 1 => ~(p > 1) /\ ~(p < 1)
    BY <1>1, <1>2, <1>3
  <2>2. p = 1 => c * p = c
    BY <1>1
  <2> QED
    BY <1>1, <2>1, <2>2
<1>7. x \in Nat => r <= x
  <2>1. x \in Nat => ~(p < 0)
    BY <1>1, <1>3
  <2>2. p >= 0 => c * p >= 0
    BY <1>1
  <2> QED
    BY <1>1, <2>1, <2>2
<1> QED
  BY <1>1, <1>4, <1>5, <1>6, <1>7 DEF r

LEMMA MinusIs ==
    ASSUME NEW a \in Addr, NEW n \in 0 .. Space - 1
    PROVE  /\ Minus(a, n) \in Addr
           /\ a >= n => Minus(a, n) = a - n
           /\ a < n => Minus(a, n) = a - n + Space
<1>1. a - n \in Int /\ Space \in Nat \ {0}
  BY WidthAssumption DEF Addr
<1>2. PICK x \in Int : x = a - n
  BY <1>1
<1>3. x % Space \in 0 .. Space - 1 /\ (x \in 0 .. Space - 1 => x % Space = x)
      /\ (x \in 0 - Space .. -1 => x % Space = x + Space)
  BY <1>1, Remainder
<1>4. Minus(a, n) = x % Space
  BY <1>2 DEF Minus
<1>5. (a >= n => x \in 0 .. Space - 1) /\ (a < n => x \in 0 - Space .. -1)
  BY <1>1, <1>2 DEF Addr
<1> QED
  BY <1>2, <1>3, <1>4, <1>5 DEF Addr

LEMMA AlignedIs ==
    ASSUME NEW a \in Addr
    PROVE  Aligned(a) \in Addr /\ Aligned(a) <= a /\ a < Aligned(a) + ALIGN
<1>1. a \in Nat /\ a \in Int /\ ALIGN \in Nat \ {0}
  BY AlignAssumption, WidthAssumption DEF Addr
<1>2. a % ALIGN \in 0 .. ALIGN - 1 /\ a % ALIGN <= a
  BY <1>1, Remainder
<1>3. PICK r \in 0 .. ALIGN - 1 : r = a % ALIGN /\ r <= a
  BY <1>2
<1>4. Aligned(a) = a - r
  BY <1>3 DEF Aligned
<1> QED
  BY <1>1, <1>3, <1>4, WidthAssumption DEF Addr

-----------------------------------------------------------------------------
(* The scratch area.  Room found for len cells lies below top, not much    *)
(* further than it has to.                                                 *)
LEMMA ScratchIs ==
    ASSUME NEW top \in Addr, NEW len \in 1 .. PATH_LEN, PATH_LEN + ALIGN < Space
    PROVE  /\ emuroot_scratch(top, len) \in Addr
           /\ emuroot_scratch(top, len) # 0 =>
                /\ emuroot_scratch(top, len) + len <= top
                /\ emuroot_scratch(top, len) + PATH_LEN + ALIGN > top
           /\ top >= len + ALIGN => emuroot_scratch(top, len) # 0
<1>0. PATH_LEN \in Nat /\ ALIGN \in Nat \ {0} /\ Space \in Nat \ {0}
  BY SizesAssumption, AlignAssumption, WidthAssumption
<1>1. PICK m \in Addr : /\ m = Minus(top, len)
                        /\ top >= len => m = top - len
                        /\ top < len => m = top - len + Space
  <2>1. len \in 0 .. Space - 1
    BY <1>0
  <2> QED
    BY <2>1, MinusIs
<1>2. PICK b \in Addr : b = Aligned(m) /\ b <= m /\ m < b + ALIGN
  BY AlignedIs
<1>3. emuroot_scratch(top, len) = IF b > top THEN 0 ELSE b
  BY <1>1, <1>2 DEF emuroot_scratch
<1>4. top \in 0 .. Space - 1 /\ m \in 0 .. Space - 1 /\ b \in 0 .. Space - 1
  BY DEF Addr
<1>5. top < len => b > top
  BY <1>0, <1>1, <1>2, <1>4
<1>6. ~(b > top) => b + len <= top /\ b + PATH_LEN + ALIGN > top
  BY <1>0, <1>1, <1>2, <1>4, <1>5
<1>7. top >= len + ALIGN => b > 0 /\ b <= top
  BY <1>0, <1>1, <1>2, <1>4
<1>8. 0 \in Addr
  BY <1>0 DEF Addr
<1> QED
  BY <1>0, <1>3, <1>4, <1>6, <1>7, <1>8

LEMMA Greatest ==
    ASSUME NEW T \in SUBSET Nat, T # {}, NEW n \in Nat, \A x \in T : x <= n
    PROVE  \E x \in T : \A y \in T : x >= y
<1> DEFINE U == {d \in Nat : \E x \in T : x + d = n}
<1>1. U # {}
  <2>1. PICK x \in T : TRUE
    OBVIOUS
  <2>2. n - x \in Nat /\ x + (n - x) = n
    BY <2>1
  <2> QED
    BY <2>2
<1>2. PICK d \in U : \A e \in U : d <= e
  BY <1>1, Least
<1>3. PICK x \in T : x + d = n
  BY <1>2
<1>4. \A y \in T : n - y \in U
  <2>1. \A y \in T : n - y \in Nat /\ y + (n - y) = n
    OBVIOUS
  <2> QED
    BY <2>1
<1>5. \A y \in T : x >= y
  <2>1. \A y \in T : d <= n - y
    BY <1>2, <1>4
  <2> QED
    BY <1>2, <1>3, <2>1
<1> QED
  BY <1>5

LEMMA ReachedIs ==
    ASSUME NEW a, NEW len \in Nat
    PROVE  /\ Reached(a, len) \in 0 .. len
           /\ \A j \in 0 .. Reached(a, len) - 1 : Plus(a, j) \in Mapped
           /\ (\A j \in 0 .. len - 1 : Plus(a, j) \in Mapped) => Reached(a, len) = len
<1> DEFINE T == {k \in 0 .. len : \A j \in 0 .. k - 1 : Plus(a, j) \in Mapped}
<1>1. T \in SUBSET Nat /\ 0 \in T /\ \A k \in T : k <= len
  OBVIOUS
<1>2. (\A j \in 0 .. len - 1 : Plus(a, j) \in Mapped) => len \in T
  OBVIOUS
<1>3. \A k \in T : k \in 0 .. len /\ \A j \in 0 .. k - 1 : Plus(a, j) \in Mapped
  OBVIOUS
<1>4. Reached(a, len) = Max(T)
  BY DEF Reached
<1> HIDE DEF T
<1>5. \E x \in T : \A y \in T : x >= y
  BY <1>1, Greatest
<1>6. PICK x \in T : x = Max(T) /\ \A y \in T : x >= y
  BY <1>5 DEF Max
<1>7. x \in 0 .. len /\ \A j \in 0 .. x - 1 : Plus(a, j) \in Mapped
  BY <1>3
<1>8. len \in T => x = len
  BY <1>6, <1>7
<1> QED
  BY <1>2, <1>4, <1>6, <1>7, <1>8

LEMMA MappedIs == Mapped \subseteq Addr /\ 0 \notin Mapped /\ 0 \in Addr
<1> QED
  BY WidthAssumption DEF Addr

(* What guest_write may change: cells of the range it was given. *)
Memories == [Mapped -> Cell]
LEMMA WrittenIs ==
    ASSUME NEW m \in Memories, NEW a \in Addr, NEW s \in Strings, NEW len \in Nat
    PROVE  /\ Written(m, a, s, len) \in Memories
           /\ \A b \in Mapped : ~(Minus(b, a) < len) => Written(m, a, s, len)[b] = m[b]
           /\ \A b \in Mapped : Written(m, a, s, len)[b] =
                IF Minus(b, a) < Reached(a, len) THEN <<s, Minus(b, a)>> ELSE m[b]
           /\ a \notin Mapped => \A b \in Mapped : Written(m, a, s, len)[b] = m[b]
<1>1. PICK n \in 0 .. len : n = Reached(a, len)
  BY ReachedIs
<1>2. \A b \in Mapped : Minus(b, a) \in Nat
  <2> SUFFICES ASSUME NEW b \in Mapped PROVE Minus(b, a) \in Nat
    OBVIOUS
  <2>1. b \in Addr /\ a \in 0 .. Space - 1
    BY MappedIs DEF Addr
  <2>2. Minus(b, a) \in Addr
    BY <2>1, MinusIs
  <2> QED
    BY <2>2 DEF Addr
<1>3. DOMAIN m = Mapped /\ \A b \in Mapped : m[b] \in Cell
  BY DEF Memories
<1>4. Written(m, a, s, len) =
        [b \in Mapped |-> IF Minus(b, a) < n THEN <<s, Minus(b, a)>> ELSE m[b]]
  BY <1>1, <1>3 DEF Written
<1>5. \A b \in Mapped : <<s, Minus(b, a)>> \in Cell
  BY <1>2 DEF Cell
<1>6. Written(m, a, s, len) \in Memories
  BY <1>3, <1>4, <1>5 DEF Memories
<1>7. \A b \in Mapped : ~(Minus(b, a) < len) => ~(Minus(b, a) < n)
  BY <1>1, <1>2
<1>8. a \notin Mapped => n = 0
  <2>1. Plus(a, 0) = a
    <3>1. a \in Int /\ a \in 0 .. Space - 1 /\ a + 0 = a /\ Space \in Nat \ {0}
      BY WidthAssumption DEF Addr
    <3>2. a % Space = a
      BY <3>1, Remainder
    <3> QED
      BY <3>1, <3>2 DEF Plus
  <2>2. \A j \in 0 .. n - 1 : Plus(a, j) \in Mapped
    BY <1>1, ReachedIs
  <2>3. n # 0 => 0 \in 0 .. n - 1
    BY <1>1
  <2> QED
    BY <2>1, <2>2, <2>3
<1>9. a \notin Mapped => \A b \in Mapped : ~(Minus(b, a) < n)
  BY <1>2, <1>8
<1>10. \A b \in Mapped : Written(m, a, s, len)[b] =
                IF Minus(b, a) < n THEN <<s, Minus(b, a)>> ELSE m[b]
  BY <1>4
<1> QED
  BY <1>1, <1>6, <1>7, <1>9, <1>10

(* A range that does not wrap is an interval. *)
LEMMA RangeIs ==
    ASSUME NEW a \in Addr, NEW len \in Nat, a + len < Space, NEW b \in Addr, Minus(b, a) < len
    PROVE  a <= b /\ b < a + len
<1>1. a \in 0 .. Space - 1 /\ b \in 0 .. Space - 1 /\ Space \in Nat
  BY WidthAssumption DEF Addr
<1>2. (b >= a => Minus(b, a) = b - a) /\ (b < a => Minus(b, a) = b - a + Space)
  BY <1>1, MinusIs
<1> QED
  BY <1>1, <1>2

LEMMA TransferIs ==
    ASSUME NEW m \in Methods, NEW al, NEW a, NEW len
    PROVE  transfer(m, al, a, len).method \in Methods
<1> DEFINE answers(k) == Attempt(k, al, a, len).n >= 0 \/ ~denied(Attempt(k, al, a, len).errno)
                         \/ k = PEEK_POKE
           K == {k \in Methods : k >= m /\ answers(k)}
<1>1. K \in SUBSET Nat /\ PEEK_POKE \in K /\ K \subseteq Methods
  BY DEF Methods, PROCESS_VM, PROC_MEM, PEEK_POKE
<1>2. transfer(m, al, a, len) = Attempt(Min(K), al, a, len)
  BY DEF transfer
<1> HIDE DEF K
<1>3. \E x \in K : \A y \in K : x <= y
  BY <1>1, Least
<1>4. Min(K) \in Methods
  BY <1>1, <1>3 DEF Min
<1>5. \A k : Attempt(k, al, a, len).method = k
  BY DEF Attempt
<1> QED
  BY <1>2, <1>4, <1>5

LEMMA TextIs ==
    ASSUME NEW m \in Memories, NEW a
    PROVE  Text(m, a) \in Strings
<1>1. \A b \in Mapped : m[b][1] \in Strings
  BY DEF Memories, Cell
<1> QED
  BY <1>1, StringsAssumption DEF Text

-----------------------------------------------------------------------------
(* Where the scratch area is, d cells deep at most: under the margin below *)
(* the stack pointer or, where that wraps, among the kernel's addresses.   *)
Below(sp, top, d) ==
    \/ sp >= SCRATCH_MARGIN /\ top + SCRATCH_MARGIN <= sp /\ top + d >= sp
    \/ sp < SCRATCH_MARGIN /\ top + d >= Space

(* What the program may still use is the same in two memories. *)
Kept(sp, m, n) == \A a \in Mapped : (a \in Heap \/ a + RedZone >= sp) => m[a] = n[a]

Slot == PATH_LEN + ALIGN
Margin == SCRATCH_MARGIN + ALIGN

LEMMA Depths ==
    /\ Slot \in Nat /\ Margin \in Nat /\ Reach \in Nat /\ Margin + Slot \in Nat
    /\ Margin + Slot + Slot = Reach /\ Slot < Space /\ Margin + Slot <= Reach
    /\ SCRATCH_MARGIN < Space /\ PATH_LEN + ALIGN < Space /\ Reach < Space
<1> QED
  BY SizesAssumption, AlignAssumption, WidthAssumption, LayoutAssumption DEF Slot, Margin, Reach

LEMMA TopBelow ==
    ASSUME NEW sp \in Addr
    PROVE  ScratchTop(sp) \in Addr /\ Below(sp, ScratchTop(sp), Margin)
<1>1. SCRATCH_MARGIN \in 0 .. Space - 1 /\ ALIGN \in Nat /\ Space \in Nat
  BY Depths, AlignAssumption, WidthAssumption
<1>2. PICK m \in Addr : /\ m = Minus(sp, SCRATCH_MARGIN)
                        /\ sp >= SCRATCH_MARGIN => m = sp - SCRATCH_MARGIN
                        /\ sp < SCRATCH_MARGIN => m = sp - SCRATCH_MARGIN + Space
  BY <1>1, MinusIs
<1>3. PICK b \in Addr : b = Aligned(m) /\ b <= m /\ m < b + ALIGN
  BY AlignedIs
<1>4. ScratchTop(sp) = b
  BY <1>2, <1>3 DEF ScratchTop
<1>5. Below(sp, b, Margin)
  <2>1. sp \in 0 .. Space - 1 /\ m \in 0 .. Space - 1 /\ b \in 0 .. Space - 1
    BY DEF Addr
  <2>2. CASE sp >= SCRATCH_MARGIN
    BY <1>1, <1>2, <1>3, <2>1, <2>2 DEF Below, Margin
  <2>3. CASE sp < SCRATCH_MARGIN
    BY <1>1, <1>2, <1>3, <2>1, <2>3 DEF Below, Margin
  <2> QED
    BY <1>1, <2>1, <2>2, <2>3
<1> QED
  BY <1>4, <1>5

LEMMA ScratchBelow ==
    ASSUME NEW sp \in SPs, NEW top \in Addr, NEW d \in Nat, d + Slot <= Reach,
           Below(sp, top, d), NEW len \in 1 .. PATH_LEN, emuroot_scratch(top, len) # 0,
           NEW m \in Memories, NEW s \in Strings
    PROVE  /\ Below(sp, emuroot_scratch(top, len), d + Slot)
           /\ Kept(sp, Written(m, emuroot_scratch(top, len), s, len), m)
<1>1. PICK a \in Addr : /\ a = emuroot_scratch(top, len)
                        /\ a + len <= top /\ a + PATH_LEN + ALIGN > top
  BY ScratchIs, Depths
<1>2. /\ a \in 0 .. Space - 1 /\ top \in 0 .. Space - 1 /\ Space \in Nat /\ ALIGN \in Nat
      /\ PATH_LEN \in Nat /\ SCRATCH_MARGIN \in Nat /\ RedZone \in 0 .. SCRATCH_MARGIN
      /\ Slot \in Nat /\ Reach \in Nat /\ Slot = PATH_LEN + ALIGN
  BY WidthAssumption, AlignAssumption, SizesAssumption, ProgramAssumption, Depths DEF Addr, Slot
<1>3. sp \in 0 .. Space - 1
  BY ProgramAssumption DEF Addr
<1>4. Below(sp, a, d + Slot)
  <2>1. CASE sp >= SCRATCH_MARGIN /\ top + SCRATCH_MARGIN <= sp /\ top + d >= sp
    BY <1>1, <1>2, <1>3, <2>1 DEF Below
  <2>2. CASE sp < SCRATCH_MARGIN /\ top + d >= Space
    BY <1>1, <1>2, <1>3, <2>2 DEF Below
  <2> QED
    BY <2>1, <2>2 DEF Below
<1>5. Kept(sp, Written(m, a, s, len), m)
  <2> SUFFICES ASSUME NEW b \in Mapped, b \in Heap \/ b + RedZone >= sp
               PROVE  Written(m, a, s, len)[b] = m[b]
    BY DEF Kept
  <2>1. b \in Addr /\ b \in 0 .. Space - 1 /\ b + Reach < Space
    BY MappedIs, LayoutAssumption DEF Addr
  <2>2. ~(Minus(b, a) < len)
    <3> SUFFICES ASSUME Minus(b, a) < len PROVE FALSE
      OBVIOUS
    <3>1. a <= b /\ b < a + len
      BY <1>1, <1>2, <2>1, RangeIs
    <3>2. CASE sp >= SCRATCH_MARGIN /\ top + SCRATCH_MARGIN <= sp /\ top + d >= sp
      <4>1. b + RedZone < sp
        BY <1>1, <1>2, <1>3, <2>1, <3>1, <3>2
      <4>2. b \in Heap
        BY <1>2, <1>3, <2>1, <4>1
      <4>3. b + Reach < sp
        BY <1>2, <1>3, <2>1, <4>1, <4>2, LayoutAssumption
      <4> QED
        BY <1>1, <1>2, <1>3, <2>1, <3>1, <3>2, <4>3
    <3>3. CASE sp < SCRATCH_MARGIN /\ top + d >= Space
      BY <1>1, <1>2, <2>1, <3>1, <3>3
    <3> QED
      BY <3>2, <3>3 DEF Below
  <2>3. len \in Nat
    BY <1>2
  <2> QED
    BY <2>2, <2>3, WrittenIs
<1> QED
  BY <1>1, <1>4, <1>5

-----------------------------------------------------------------------------
(* The handler of an entry stop, on the copy it works with.                *)
FileModes == [Files -> SUBSET Bits]
RegsModes == {"UNDECIDED", "REGSET", "GETREGS"}
Handler == [regs : Addr \X Addr, real : Addr \X Addr, top : Addr, mem : Memories,
            method : Methods, mode : FileModes, regs_mode : RegsModes]

Fine(t, sp, m, d) == t \in Handler /\ Kept(sp, t.mem, m) /\ Below(sp, t.top, d)

LEMMA PairIs ==
    ASSUME NEW r \in Addr \X Addr, NEW i \in 1 .. 2, NEW v \in Addr
    PROVE  r[i] \in Addr /\ [r EXCEPT ![i] = v] \in Addr \X Addr
<1>1. CASE i = 1
  BY <1>1
<1>2. CASE i = 2
  BY <1>2
<1> QED
  BY <1>1, <1>2

LEMMA RegIs ==
    ASSUME NEW t \in Handler, NEW i \in 1 .. 2, NEW v \in Addr
    PROVE  /\ [t EXCEPT !.regs[i] = v] \in Handler
           /\ [t EXCEPT !.regs[i] = v].mem = t.mem /\ [t EXCEPT !.regs[i] = v].top = t.top
<1>1. PICK r \in Addr \X Addr : r = [t.regs EXCEPT ![i] = v]
  BY PairIs DEF Handler
<1>2. [t EXCEPT !.regs[i] = v] = [t EXCEPT !.regs = r]
  BY <1>1
<1> QED
  BY <1>2 DEF Handler

LEMMA SetIs ==
    ASSUME NEW t \in Handler
    PROVE  regs_set(t) \in Handler /\ regs_set(t).mem = t.mem /\ regs_set(t).top = t.top
<1> QED
  BY DEF regs_set, Handler

LEMMA FailIs ==
    ASSUME NEW t \in Handler, NEW i \in 1 .. 2
    PROVE  /\ fail_closed(t, i) \in Handler
           /\ fail_closed(t, i).mem = t.mem /\ fail_closed(t, i).top = t.top
<1>1. PICK u \in Handler : u = [t EXCEPT !.regs[i] = 0] /\ u.mem = t.mem /\ u.top = t.top
  BY RegIs, MappedIs
<1>2. fail_closed(t, i) = regs_set(u)
  BY <1>1 DEF fail_closed
<1> QED
  BY <1>1, <1>2, SetIs

LEMMA ReplacedFine ==
    ASSUME NEW t, NEW sp \in SPs, NEW m, NEW d \in Nat, d + Slot <= Reach, Fine(t, sp, m, d),
           NEW i \in 1 .. 2, NEW s \in Strings, NEW len \in 1 .. PATH_LEN
    PROVE  Fine(Replaced(t, i, s, len), sp, m, d + Slot)
<1>1. t \in Handler /\ Kept(sp, t.mem, m) /\ Below(sp, t.top, d)
  BY DEF Fine
<1>2. t.top \in Addr /\ t.mem \in Memories /\ t.method \in Methods
  BY <1>1 DEF Handler
<1>3. PICK a \in Addr : a = emuroot_scratch(t.top, len)
  BY <1>2, ScratchIs, Depths
<1>4. PICK sent : sent = transfer(t.method, allowed, a, len)
  OBVIOUS
<1>5. sent.method \in Methods
  BY <1>2, <1>4, TransferIs
<1>6. PICK w : w = Written(t.mem, a, s, len)
  OBVIOUS
<1>7. len \in Nat
  BY SizesAssumption
<1>8. w \in Memories
  BY <1>2, <1>6, <1>7, WrittenIs
<1>9. PICK u : u = [t EXCEPT !.top = a, !.method = sent.method, !.mem = w]
  OBVIOUS
<1>10. u \in Handler /\ u.mem = w /\ u.top = a
  BY <1>1, <1>5, <1>8, <1>9 DEF Handler
<1>11. Replaced(t, i, s, len) =
          CASE a = 0 -> fail_closed(t, i)
            [] a # 0 /\ sent.n = len -> regs_set([u EXCEPT !.regs[i] = a])
            [] a # 0 /\ sent.n # len -> fail_closed(u, i)
  BY <1>3, <1>4, <1>6, <1>9 DEF Replaced
<1>12. CASE a = 0
  <2>1. Replaced(t, i, s, len) = fail_closed(t, i)
    BY <1>11, <1>12
  <2>2. Below(sp, t.top, d + Slot)
    <3>1. t.top \in 0 .. Space - 1 /\ Slot \in Nat /\ Space \in Nat /\ sp \in 0 .. Space - 1
      BY <1>2, Depths, WidthAssumption, ProgramAssumption DEF Addr
    <3>2. PICK top \in 0 .. Space - 1 : top = t.top
      BY <3>1
    <3>3. Below(sp, top, d)
      BY <1>1, <3>2
    <3>4. Below(sp, top, d + Slot)
      BY <3>1, <3>3 DEF Below
    <3> QED
      BY <3>2, <3>4
  <2>3. fail_closed(t, i) \in Handler /\ fail_closed(t, i).mem = t.mem /\ fail_closed(t, i).top = t.top
    BY <1>1, FailIs
  <2> QED
    BY <1>1, <2>1, <2>2, <2>3 DEF Fine
<1>13. CASE a # 0
  <2>1. Below(sp, a, d + Slot) /\ Kept(sp, w, t.mem)
    BY <1>1, <1>2, <1>3, <1>6, <1>13, ScratchBelow
  <2>2. Kept(sp, w, m)
    BY <1>1, <2>1 DEF Kept
  <2>3. PICK v \in Handler : v = [u EXCEPT !.regs[i] = a] /\ v.mem = w /\ v.top = a
    BY <1>10, RegIs
  <2>4. regs_set(v) \in Handler /\ regs_set(v).mem = w /\ regs_set(v).top = a
    BY <2>3, SetIs
  <2>5. fail_closed(u, i) \in Handler /\ fail_closed(u, i).mem = w /\ fail_closed(u, i).top = a
    BY <1>10, FailIs
  <2>6. Replaced(t, i, s, len) = IF sent.n = len THEN regs_set(v) ELSE fail_closed(u, i)
    BY <1>11, <1>13, <2>3
  <2> QED
    BY <2>1, <2>2, <2>4, <2>5, <2>6 DEF Fine
<1> QED
  BY <1>12, <1>13

LEMMA GrantIs ==
    ASSUME NEW mo \in FileModes, NEW th, NEW op, NEW i, NEW h
    PROVE  emuroot_grant_access(mo, th, op, i, h) \in FileModes
<1>1. \A p \in Files, b \in SUBSET Bits : grant_owner(mo, th, p, b) \in FileModes
  BY DEF grant_owner, FileModes
<1>2. {"w", "x"} \in SUBSET Bits /\ {"r", "w"} \in SUBSET Bits /\ {"r"} \in SUBSET Bits
      /\ {"x"} \in SUBSET Bits
  BY DEF Bits
<1>3. PICK need : need = dac_for(op, i)
  OBVIOUS
<1>4. need \in {"NONE", "PARENT_W", "RW", "READ"}
  BY <1>3 DEF dac_for
<1>5. CASE need = "NONE" \/ h \notin Files
  BY <1>3, <1>5 DEF emuroot_grant_access, ensure_dac
<1>6. CASE need = "PARENT_W" /\ h \in Files
  <2>1. Parent[h] \in Files
    BY <1>6, FilesAssumption
  <2>2. grant_owner(mo, th, Parent[h], {"w", "x"}) \in FileModes
    BY <1>1, <1>2, <2>1
  <2>3. emuroot_grant_access(mo, th, op, i, h) = grant_owner(mo, th, Parent[h], {"w", "x"})
    BY <1>3, <1>6 DEF emuroot_grant_access, ensure_dac
  <2> QED
    BY <2>2, <2>3
<1>7. CASE need \in {"READ", "RW"} /\ h \in Files
  <2>1. PICK b : b = (IF need = "RW" THEN {"r", "w"} ELSE {"r"})
                     \cup (IF h \in Folders THEN {"x"} ELSE {})
    OBVIOUS
  <2>2. b \in SUBSET Bits
    BY <1>2, <2>1
  <2>3. emuroot_grant_access(mo, th, op, i, h) = grant_owner(mo, th, h, b)
    BY <1>3, <1>7, <2>1 DEF emuroot_grant_access, ensure_dac
  <2> QED
    BY <1>1, <1>7, <2>2, <2>3
<1> QED
  BY <1>4, <1>5, <1>6, <1>7

LEMMA DeeperFine ==
    ASSUME NEW t, NEW sp \in SPs, NEW m, NEW d \in Nat, Fine(t, sp, m, d)
    PROVE  Fine(t, sp, m, d + Slot)
<1>1. t \in Handler /\ Kept(sp, t.mem, m) /\ Below(sp, t.top, d)
  BY DEF Fine
<1>2. PICK top \in Addr : top = t.top
  BY <1>1 DEF Handler
<1>3. top \in 0 .. Space - 1 /\ Slot \in Nat /\ Space \in Nat /\ sp \in 0 .. Space - 1
  BY Depths, WidthAssumption, ProgramAssumption DEF Addr
<1>4. Below(sp, top, d)
  BY <1>1, <1>2
<1>5. Below(sp, top, d + Slot)
  BY <1>3, <1>4 DEF Below
<1> QED
  BY <1>1, <1>2, <1>5 DEF Fine

LEMMA SizeIs ==
    ASSUME NEW s \in Strings
    PROVE  Size[s] \in 1 .. PATH_LEN /\ Translate[s] \in Strings
<1> QED
  BY StringsAssumption, SizesAssumption, ProgramAssumption

LEMMA ArgFine ==
    ASSUME NEW t, NEW sp \in SPs, NEW m, NEW d \in Nat, d + Slot <= Reach, Fine(t, sp, m, d),
           NEW i \in 1 .. 2
    PROVE  Fine(rewrite_path_arg(t, i), sp, m, d + Slot)
<1>1. t \in Handler /\ Kept(sp, t.mem, m) /\ Below(sp, t.top, d)
  BY DEF Fine
<1>2. t.mem \in Memories /\ t.method \in Methods /\ t.mode \in FileModes
  BY <1>1 DEF Handler
<1>3. PICK read : read = transfer(t.method, allowed, t.regs[i], 1)
  OBVIOUS
<1>4. read.method \in Methods
  BY <1>2, <1>3, TransferIs
<1>5. PICK seen : seen = [t EXCEPT !.method = read.method]
  OBVIOUS
<1>6. seen \in Handler /\ seen.mem = t.mem /\ seen.top = t.top /\ seen.mode = t.mode
  BY <1>1, <1>4, <1>5 DEF Handler
<1>7. Fine(seen, sp, m, d)
  BY <1>1, <1>6 DEF Fine
<1>8. PICK given \in Strings : given = Text(t.mem, t.regs[i])
  BY <1>2, TextIs
<1>9. PICK host \in Strings : host = Translate[given] /\ Size[host] \in 1 .. PATH_LEN
  BY SizeIs
<1>10. PICK g : g = emuroot_grant_access(seen.mode, there, call.op, i, host)
  OBVIOUS
<1>11. g \in FileModes
  BY <1>2, <1>6, <1>10, GrantIs
<1>12. PICK granted : granted = IF fake_root THEN [seen EXCEPT !.mode = g] ELSE seen
  OBVIOUS
<1>13. granted \in Handler /\ granted.mem = t.mem /\ granted.top = t.top
  BY <1>6, <1>11, <1>12 DEF Handler
<1>14. Fine(granted, sp, m, d)
  BY <1>1, <1>13 DEF Fine
<1>15. Fine(Replaced(granted, i, host, Size[host]), sp, m, d + Slot)
  <2>1. PICK len \in 1 .. PATH_LEN : len = Size[host]
    BY <1>9
  <2>2. Fine(Replaced(granted, i, host, len), sp, m, d + Slot)
    BY <1>14, ReplacedFine
  <2> QED
    BY <2>1, <2>2
<1>16. Fine(fail_closed(seen, i), sp, m, d)
  <2>1. fail_closed(seen, i) \in Handler /\ fail_closed(seen, i).mem = seen.mem
        /\ fail_closed(seen, i).top = seen.top
    BY <1>6, FailIs
  <2> QED
    BY <1>7, <2>1 DEF Fine
<1>17. rewrite_path_arg(t, i) =
         CASE t.regs[i] = 0 -> t
           [] t.regs[i] # 0 /\ read.n < 0 ->
                  IF read.errno = "EFAULT" THEN seen ELSE fail_closed(seen, i)
           [] t.regs[i] # 0 /\ read.n >= 0 /\ LeftAlone(given) -> seen
           [] OTHER -> IF host = given THEN granted
                       ELSE Replaced(granted, i, host, Size[host])
  <2>1. (IF fake_root
         THEN [seen EXCEPT !.mode = emuroot_grant_access(@, there, call.op, i, host)]
         ELSE seen) = granted
    BY <1>6, <1>10, <1>12 DEF Handler
  <2> QED
    BY <1>3, <1>5, <1>8, <1>9, <2>1 DEF rewrite_path_arg
<1>18. \/ rewrite_path_arg(t, i) = t \/ rewrite_path_arg(t, i) = seen
       \/ rewrite_path_arg(t, i) = fail_closed(seen, i) \/ rewrite_path_arg(t, i) = granted
       \/ rewrite_path_arg(t, i) = Replaced(granted, i, host, Size[host])
  BY <1>17
<1>19. Fine(t, sp, m, d + Slot) /\ Fine(seen, sp, m, d + Slot) /\ Fine(granted, sp, m, d + Slot)
       /\ Fine(fail_closed(seen, i), sp, m, d + Slot)
  BY <1>7, <1>14, <1>16, DeeperFine
<1> QED
  BY <1>15, <1>18, <1>19

LEMMA SocketFine ==
    ASSUME NEW t, NEW sp \in SPs, NEW m, NEW d \in Nat, d + Slot <= Reach, Fine(t, sp, m, d)
    PROVE  Fine(rewrite_sockaddr(t), sp, m, d + Slot)
<1>1. t \in Handler /\ Kept(sp, t.mem, m) /\ Below(sp, t.top, d)
  BY DEF Fine
<1>2. t.mem \in Memories /\ t.method \in Methods
  BY <1>1 DEF Handler
<1>3. PICK given \in Strings : given = Text(t.mem, t.regs[1])
  BY <1>2, TextIs
<1>4. PICK host \in Strings : host = Translate[given]
  BY SizeIs
<1>5. PICK read : read = transfer(t.method, allowed, t.regs[1], Size[given])
  OBVIOUS
<1>6. read.method \in Methods
  BY <1>2, <1>5, TransferIs
<1>7. PICK seen : seen = [t EXCEPT !.method = read.method]
  OBVIOUS
<1>8. seen \in Handler /\ seen.mem = t.mem /\ seen.top = t.top
  BY <1>1, <1>6, <1>7 DEF Handler
<1>9. Fine(seen, sp, m, d)
  BY <1>1, <1>8 DEF Fine
<1>10. Fine(Replaced(seen, 1, host, SUN_SIZE), sp, m, d + Slot)
  BY <1>9, SizesAssumption, ReplacedFine
<1>11. \/ rewrite_sockaddr(t) = t \/ rewrite_sockaddr(t) = seen
       \/ rewrite_sockaddr(t) = Replaced(seen, 1, host, SUN_SIZE)
  <2>1. rewrite_sockaddr(t) =
         CASE t.regs[1] = 0 -> t
           [] t.regs[1] # 0 /\ read.n # Size[given] -> seen
           [] t.regs[1] # 0 /\ read.n = Size[given] ->
                 IF \/ given \in Relative \cup {Empty, Garbage}
                    \/ host = given \/ Size[host] > SUN_PATH
                 THEN seen ELSE Replaced(seen, 1, host, SUN_SIZE)
    BY <1>3, <1>4, <1>5, <1>7 DEF rewrite_sockaddr
  <2> QED
    BY <2>1
<1>12. Fine(t, sp, m, d + Slot) /\ Fine(seen, sp, m, d + Slot)
  BY <1>9, DeeperFine
<1> QED
  BY <1>10, <1>11, <1>12

LEMMA EntryFine ==
    ASSUME NEW t, NEW sp \in SPs, NEW m, Fine(t, sp, m, Margin)
    PROVE  Fine(emuroot_on_entry(t), sp, m, Reach)
<1>1. Margin \in Nat /\ Slot \in Nat /\ Reach \in Nat /\ Margin + Slot \in Nat
      /\ Margin + Slot + Slot = Reach /\ Margin + Slot <= Reach /\ (Margin + Slot) + Slot <= Reach
  BY Depths
<1>2. PICK d \in Nat : d = Margin + Slot /\ d + Slot = Reach /\ d + Slot <= Reach
  BY <1>1
<1>3. \A i \in 1 .. 2 : Fine(rewrite_path_arg(t, i), sp, m, d)
  BY <1>1, <1>2, ArgFine
<1>4. Fine(rewrite_sockaddr(t), sp, m, d)
  BY <1>1, <1>2, SocketFine
<1>5. Fine(t, sp, m, d)
  BY <1>1, <1>2, DeeperFine
<1>6. PICK u : u = rewrite_path_arg(t, 1)
  OBVIOUS
<1>7. Fine(u, sp, m, d)
  BY <1>3, <1>6
<1>8. Fine(rewrite_path_arg(u, 2), sp, m, Reach)
  BY <1>2, <1>7, ArgFine
<1>9. Fine(u, sp, m, Reach) /\ Fine(rewrite_sockaddr(t), sp, m, Reach) /\ Fine(t, sp, m, Reach)
  BY <1>2, <1>4, <1>5, <1>7, DeeperFine
<1>10. \/ emuroot_on_entry(t) = rewrite_sockaddr(t) \/ emuroot_on_entry(t) = t
       \/ emuroot_on_entry(t) = rewrite_path_arg(u, 2) \/ emuroot_on_entry(t) = u
  BY <1>6 DEF emuroot_on_entry
<1> QED
  BY <1>8, <1>9, <1>10

-----------------------------------------------------------------------------
(* The inductive invariants.  Between calls the program's memory is as it  *)
(* made it; in a call, getcwd's buffer is where the program put it as long *)
(* as the register is the argument's.                                      *)
ArgumentKept == call.op = "getcwd" =>
    /\ at \in {"entry", "kernel"} => regs = call.ptr
    /\ at \in {"exit", "answered"} => regs = call.ptr \/ regs[1] = Size[Cwd_host]
InCall ==
    /\ at = "user" => call = NoCall /\ mem = Home
    /\ at # "user" => call \in Requests
    /\ at = "interrupted" => call.op # "getcwd"
    /\ ArgumentKept
TInv == TypeOK /\ InCall

LEMMA RequestIs ==
    ASSUME NEW c \in Requests
    PROVE  c.op \in Ops /\ c.ptr \in Addr \X Addr /\ c.sp \in SPs /\ c.sp \in Addr
<1>1. c.op \in Ops /\ c.ptr \in (Pointers \cup Buffers) \X Pointers /\ c.sp \in SPs
  BY DEF Requests
<1>2. Pointers \cup Buffers \subseteq Addr /\ Pointers \subseteq Addr /\ SPs \subseteq Addr
  BY ProgramAssumption
<1> QED
  BY <1>1, <1>2

LEMMA InitTInv == Init => TInv
<1> SUFFICES ASSUME Init PROVE TInv
  OBVIOUS
<1>1. <<0, 0>> \in Addr \X Addr /\ 0 \in Addr
  BY MappedIs
<1>2. Home \in [Mapped -> Cell]
  BY ProgramAssumption
<1>3. mode \in [Files -> SUBSET Bits]
  BY DEF Init, Bits
<1>4. method \in Methods /\ allowed \subseteq {PROCESS_VM, PROC_MEM}
  BY DEF Init, Methods
<1>5. there \subseteq Files /\ calls \in 0 .. MaxCalls
  BY ProgramAssumption DEF Init
<1>6. TypeOK
  BY <1>1, <1>2, <1>3, <1>4, <1>5 DEF Init, TypeOK
<1>7. InCall
  BY DEF Init, InCall, ArgumentKept, NoCall
<1> QED
  BY <1>6, <1>7 DEF TInv

(* The entry stop writes below the stack only. *)
LEMMA EntryIs ==
    ASSUME TInv, Entry
    PROVE  /\ regs' \in Addr \X Addr /\ mem' \in Memories /\ scratch_top' \in Addr
           /\ method' \in Methods /\ mode' \in FileModes /\ regs_mode' \in RegsModes
           /\ Kept(call.sp, mem', mem)
           /\ call.op = "getcwd" => regs' = regs
<1>1. /\ regs \in Addr \X Addr /\ mem \in Memories /\ method \in Methods /\ mode \in FileModes
      /\ call \in Requests /\ at = "entry"
  BY DEF TInv, TypeOK, InCall, Memories, FileModes, Entry
<1>2. PICK sp \in SPs : sp = call.sp /\ sp \in Addr
  BY <1>1, RequestIs
<1>3. PICK top \in Addr : top = ScratchTop(sp) /\ Below(sp, top, Margin)
  BY <1>2, TopBelow
<1>4. PICK rm \in RegsModes : rm = regs_get(regs_mode)
  BY DEF regs_get, RegsModes
<1>5. PICK t0 : t0 = [regs |-> regs, real |-> regs, top |-> top, mem |-> mem,
                      method |-> method, mode |-> mode, regs_mode |-> rm]
  OBVIOUS
<1>6. t0 \in Handler /\ t0.mem = mem /\ t0.top = top /\ t0.real = regs
  BY <1>1, <1>5 DEF Handler
<1>7. PICK m \in Memories : m = mem
  BY <1>1
<1>8. Fine(t0, sp, m, Margin)
  BY <1>3, <1>6, <1>7 DEF Fine, Kept
<1>9. PICK t : t = emuroot_on_entry(t0)
  OBVIOUS
<1>10. Fine(t, sp, m, Reach)
  BY <1>8, <1>9, EntryFine
<1>11. t \in Handler /\ Kept(sp, t.mem, m)
  BY <1>10 DEF Fine
<1>12. /\ regs' = t.real /\ mem' = t.mem /\ scratch_top' = t.top
       /\ method' = t.method /\ mode' = t.mode /\ regs_mode' = t.regs_mode
  BY <1>2, <1>3, <1>4, <1>5, <1>9 DEF Entry
<1>13. /\ t.real \in Addr \X Addr /\ t.mem \in Memories /\ t.top \in Addr
       /\ t.method \in Methods /\ t.mode \in FileModes /\ t.regs_mode \in RegsModes
  BY <1>11 DEF Handler
<1>14. call.op = "getcwd" => t = t0
  BY <1>9 DEF emuroot_on_entry
<1> QED
  BY <1>2, <1>6, <1>7, <1>11, <1>12, <1>13, <1>14

LEMMA EntryTInv == TInv /\ Entry => TInv'
<1> SUFFICES ASSUME TInv, Entry PROVE TInv'
  OBVIOUS
<1>1. /\ regs' \in Addr \X Addr /\ mem' \in Memories /\ scratch_top' \in Addr
      /\ method' \in Methods /\ mode' \in FileModes /\ regs_mode' \in RegsModes
      /\ call.op = "getcwd" => regs' = regs
  BY EntryIs
<1>2. at = "entry" /\ at' = "kernel" /\ call' = call /\ there' = there /\ calls' = calls
      /\ allowed' = allowed /\ before' = before
  BY DEF Entry, kernel
<1>3. TypeOK'
  BY <1>1, <1>2 DEF TInv, TypeOK, Memories, FileModes, RegsModes
<1>4. InCall'
  BY <1>1, <1>2 DEF TInv, InCall, ArgumentKept
<1> QED
  BY <1>3, <1>4 DEF TInv

(* What the kernel does with files. *)
LEMMA NamedIs ==
    ASSUME NEW i \in Paths(call.op)
    PROVE  FileOf(Resolved[i]) \in Named
<1> QED
  BY DEF Named

LEMMA SucceedsIs ==
    ASSUME TInv, Succeeds
    PROVE  mode' \in FileModes /\ there' \subseteq Files
<1>1. /\ mode \in FileModes /\ there \subseteq Files /\ Modes \subseteq SUBSET Bits
      /\ Named \subseteq Files /\ call.op # "getcwd"
  BY ProgramAssumption DEF TInv, TypeOK, FileModes, Succeeds
<1>2. 1 \in Paths(call.op) /\ (call.op = "rename" => 2 \in Paths(call.op))
  BY <1>1 DEF Paths
<1>3. PICK f \in Files : f = FileOf(Resolved[1])
  BY <1>1, <1>2, NamedIs
<1>4. PICK g : g = FileOf(Resolved[2])
  OBVIOUS
<1>5. call.op = "rename" => g \in Files
  BY <1>1, <1>2, <1>4, NamedIs
<1>6. PICK new \in BOOLEAN : new = (call.op = "open_creat" /\ f \notin there)
  OBVIOUS
<1>7. \/ mode' = mode /\ there' = there
      \/ /\ there' = CASE new -> there \cup {f}
                       [] call.op = "unlink" -> there \ {f}
                       [] call.op = "rename" -> (there \ {f}) \cup {g}
                       [] OTHER -> there
         /\ CASE new -> mode' = [mode EXCEPT ![f] = {"r", "w"}]
              [] call.op = "chmod" -> \E b \in Modes : mode' = [mode EXCEPT ![f] = b]
              [] call.op = "rename" -> mode' = [mode EXCEPT ![g] = mode[f]]
              [] OTHER -> mode' = mode
  BY <1>3, <1>4, <1>6 DEF Succeeds, files
<1>8. new => call.op = "open_creat"
  BY <1>6
<1>9. {"r", "w"} \in SUBSET Bits
  BY DEF Bits
<1>10. CASE mode' = mode /\ there' = there
  BY <1>1, <1>10
<1>11. CASE ~(mode' = mode /\ there' = there)
  <2>1. CASE new
    BY <1>1, <1>3, <1>7, <1>8, <1>9, <1>11, <2>1 DEF FileModes
  <2>2. CASE ~new /\ call.op = "chmod"
    <3>1. PICK b \in Modes : mode' = [mode EXCEPT ![f] = b]
      BY <1>7, <1>11, <2>2
    <3>2. there' = there
      BY <1>7, <1>11, <2>2
    <3> QED
      BY <1>1, <1>3, <3>1, <3>2 DEF FileModes
  <2>3. CASE ~new /\ call.op = "rename"
    BY <1>1, <1>3, <1>5, <1>7, <1>11, <2>3 DEF FileModes
  <2>4. CASE ~new /\ call.op \notin {"chmod", "rename"}
    BY <1>1, <1>7, <1>11, <2>4
  <2> QED
    BY <1>6, <2>1, <2>2, <2>3, <2>4
<1> QED
  BY <1>10, <1>11

LEMMA RestartIs ==
    ASSUME NEW m \in Memories, NEW low
    PROVE  [a \in Mapped |-> IF Minus(a, low) < FrameSize THEN <<Garbage, 0>> ELSE m[a]] \in Memories
<1>1. <<Garbage, 0>> \in Cell
  BY StringsAssumption DEF Cell
<1> QED
  BY <1>1 DEF Memories

LEMMA NextTInv == TInv /\ [Next]_vars => TInv'
<1> SUFFICES ASSUME TInv, [Next]_vars PROVE TInv'
  OBVIOUS
<1>0. /\ regs \in Addr \X Addr /\ scratch_top \in Addr /\ mem \in Memories
      /\ method \in Methods /\ allowed \subseteq {PROCESS_VM, PROC_MEM}
      /\ regs_mode \in RegsModes /\ mode \in FileModes /\ there \subseteq Files
      /\ calls \in 0 .. MaxCalls /\ call \in Requests \cup {NoCall} /\ before \in FileModes
      /\ regs[1] \in Addr /\ regs[2] \in Addr
  BY DEF TInv, TypeOK, Memories, FileModes, RegsModes
<1>1. CASE UNCHANGED vars
  BY <1>1 DEF vars, TInv, TypeOK, InCall, ArgumentKept
<1>2. ASSUME NEW c \in Requests, Call(c) PROVE TInv'
  <2>1. c.ptr \in Addr \X Addr
    BY RequestIs
  <2>2. calls' \in 0 .. MaxCalls
    BY <1>0, <1>2, ProgramAssumption DEF Call
  <2>3. TypeOK'
    BY <1>0, <1>2, <2>1, <2>2 DEF Call, kernel, files, TypeOK, Memories, FileModes, RegsModes
  <2>4. InCall'
    BY <1>2 DEF Call, InCall, ArgumentKept
  <2> QED
    BY <2>3, <2>4 DEF TInv
<1>3. CASE Entry
  BY <1>3, EntryTInv
<1>4. ASSUME NEW r, Returns(r), Stays, mode' \in FileModes, there' \subseteq Files PROVE TInv'
  <2>1. TypeOK'
    BY <1>0, <1>4 DEF Returns, Stays, kernel, TypeOK, Memories, FileModes, RegsModes
  <2>2. InCall'
    BY <1>4 DEF Returns, Stays, TInv, InCall, ArgumentKept
  <2> QED
    BY <2>1, <2>2 DEF TInv
<1>5. CASE Faults
  <2>1. Returns("EFAULT") /\ Stays /\ mode' = mode /\ there' = there
    BY <1>5 DEF Faults, files
  <2> QED
    BY <1>0, <1>4, <2>1
<1>6. CASE NotAFile
  <2>1. PICK r : Returns(r)
    BY <1>6 DEF NotAFile
  <2>2. Stays /\ mode' = mode /\ there' = there
    BY <1>6 DEF NotAFile, files
  <2> QED
    BY <1>0, <1>4, <2>1, <2>2
<1>7. CASE Refused
  <2>1. Returns("EACCES") /\ Stays /\ mode' = mode /\ there' = there
    BY <1>7 DEF Refused, files
  <2> QED
    BY <1>0, <1>4, <2>1
<1>8. CASE Succeeds
  <2>1. PICK r : Returns(r)
    <3>1. at = "kernel" /\ at' = "exit" /\ ret' \in {"ENOENT", "EISDIR", "ok"}
      BY <1>8 DEF Succeeds, Returns
    <3> QED
      BY <3>1 DEF Returns
  <2>2. Stays
    BY <1>8 DEF Succeeds
  <2> QED
    BY <1>4, <1>8, <2>1, <2>2, SucceedsIs
<1>9. CASE Getcwd
  <2>1. /\ at = "kernel" /\ at' = "exit" /\ call' = call /\ scratch_top' = scratch_top
        /\ method' = method /\ regs_mode' = regs_mode /\ allowed' = allowed /\ calls' = calls
        /\ mode' = mode /\ there' = there /\ before' = before /\ call.op = "getcwd"
    BY <1>9 DEF Getcwd, Returns, kernel, files
  <2>2. Cwd_host \in Strings /\ Size[Cwd_host] \in Nat /\ Size[Cwd_host] \in Addr
    <3>1. Cwd_host \in Strings
      BY ProgramAssumption
    <3>2. Size[Cwd_host] \in 1 .. PATH_LEN
      BY <3>1, SizeIs
    <3> QED
      BY <3>1, <3>2, Depths, SizesAssumption, AlignAssumption, WidthAssumption DEF Addr
  <2>3. \/ regs' = regs /\ mem' = mem
        \/ /\ mem' = Written(mem, regs[1], Cwd_host, Size[Cwd_host])
           /\ regs' = regs \/ regs' = <<Size[Cwd_host], regs[2]>>
    BY <1>9 DEF Getcwd
  <2>4. Written(mem, regs[1], Cwd_host, Size[Cwd_host]) \in Memories
    <3>1. PICK m \in Memories, a \in Addr, n \in Nat : m = mem /\ a = regs[1] /\ n = Size[Cwd_host]
      BY <1>0, <2>2
    <3>2. Written(m, a, Cwd_host, n) \in Memories
      BY <2>2, WrittenIs
    <3> QED
      BY <3>1, <3>2
  <2>5. <<Size[Cwd_host], regs[2]>> \in Addr \X Addr /\ <<Size[Cwd_host], regs[2]>>[1] = Size[Cwd_host]
    BY <1>0, <2>2
  <2>6. regs' \in Addr \X Addr /\ mem' \in Memories
    BY <1>0, <2>3, <2>4, <2>5
  <2>7. TypeOK'
    BY <1>0, <2>1, <2>6 DEF TypeOK, Memories, FileModes, RegsModes
  <2>8. regs = call.ptr
    BY <2>1 DEF TInv, InCall, ArgumentKept
  <2>9. InCall'
    BY <2>1, <2>3, <2>5, <2>8 DEF TInv, InCall, ArgumentKept
  <2> QED
    BY <2>7, <2>9 DEF TInv
<1>10. CASE OnExit
  <2>1. /\ at = "exit" /\ at' = "answered" /\ call' = call /\ scratch_top' = scratch_top
        /\ regs' = regs /\ regs_mode' = regs_mode /\ allowed' = allowed /\ calls' = calls
        /\ mode' = mode /\ there' = there /\ before' = before
    BY <1>10 DEF OnExit, kernel, files
  <2>2. PICK r, x : /\ r = transfer(method, allowed, regs[1], 1)
                    /\ x = transfer(r.method, allowed, regs[1], Size[Cwd])
                    /\ \/ method' = r.method /\ mem' = mem
                       \/ method' = x.method /\ mem' = Written(mem, regs[1], Cwd, Size[Cwd])
    BY <1>10 DEF OnExit
  <2>3. r.method \in Methods /\ x.method \in Methods
    BY <1>0, <2>2, TransferIs
  <2>4. Written(mem, regs[1], Cwd, Size[Cwd]) \in Memories
    <3>1. Cwd \in Strings
      BY ProgramAssumption
    <3>2. PICK m \in Memories, a \in Addr, n \in Nat : m = mem /\ a = regs[1] /\ n = Size[Cwd]
      BY <1>0, <3>1, StringsAssumption
    <3>3. Written(m, a, Cwd, n) \in Memories
      BY <3>1, WrittenIs
    <3> QED
      BY <3>2, <3>3
  <2>5. mem' \in Memories /\ method' \in Methods
    BY <1>0, <2>2, <2>3, <2>4
  <2>6. TypeOK'
    BY <1>0, <2>1, <2>5 DEF TypeOK, Memories, FileModes, RegsModes
  <2>7. InCall'
    BY <2>1 DEF TInv, InCall, ArgumentKept
  <2> QED
    BY <2>6, <2>7 DEF TInv
<1>11. CASE Interrupted
  <2>1. TypeOK'
    BY <1>0, <1>11 DEF Interrupted, kernel, files, TypeOK, Memories, FileModes, RegsModes
  <2>2. InCall'
    BY <1>11 DEF Interrupted, TInv, InCall, ArgumentKept
  <2> QED
    BY <2>1, <2>2 DEF TInv
<1>12. CASE Restart
  <2>1. mem' \in Memories
    BY <1>0, <1>12, RestartIs DEF Restart
  <2>2. TypeOK'
    BY <1>0, <1>12, <2>1 DEF Restart, kernel, files, TypeOK, Memories, FileModes, RegsModes
  <2>3. InCall'
    BY <1>12 DEF Restart, TInv, InCall, ArgumentKept
  <2> QED
    BY <2>2, <2>3 DEF TInv
<1>13. CASE Exit
  <2>1. <<0, 0>> \in Addr \X Addr /\ 0 \in Addr /\ Home \in Memories
    BY MappedIs, ProgramAssumption DEF Memories
  <2>2. TypeOK'
    BY <1>0, <1>13, <2>1 DEF Exit, kernel, files, TypeOK, Memories, FileModes, RegsModes
  <2>3. InCall'
    BY <1>13 DEF Exit, InCall, ArgumentKept, NoCall
  <2> QED
    BY <2>2, <2>3 DEF TInv
<1>14. CASE DomainChange
  <2>1. PICK a \in SUBSET allowed : allowed' = a
    BY <1>14 DEF DomainChange
  <2>2. TypeOK'
    BY <1>0, <1>14, <2>1 DEF DomainChange, files, TypeOK, Memories, FileModes, RegsModes
  <2>3. InCall'
    BY <1>14 DEF DomainChange, TInv, InCall, ArgumentKept
  <2> QED
    BY <2>2, <2>3 DEF TInv
<1> QED
  BY <1>1, <1>2, <1>3, <1>5, <1>6, <1>7, <1>8, <1>9, <1>10, <1>11, <1>12, <1>13, <1>14 DEF Next

LEMMA AlwaysTInv == Spec => []TInv
<1> QED
  BY InitTInv, NextTInv, PTL DEF Spec

(* Whatever the program asks for and in whatever way memory and registers  *)
(* are reached, rewrite.c, guest.c and dac.c keep to addresses an unsigned *)
(* long can hold, cells that hold a string's parts, known methods and the  *)
(* owner's permission bits.                                                *)
THEOREM TypeCorrect == Spec => []TypeOK
<1> QED
  BY AlwaysTInv, PTL DEF TInv

-----------------------------------------------------------------------------
(* The program's data. *)
Answer(c, a) == c.op = "getcwd" /\ Minus(a, c.ptr[1]) < Size[Cwd_host]
Unspoilt(c, m) == \A a \in Mapped : (a \in Heap \/ a + RedZone >= c.sp) => m[a] = Home[a] \/ Answer(c, a)

LEMMA IntactIs == GuestDataIntact <=> (at # "user" => Unspoilt(call, mem))
<1> QED
  BY DEF GuestDataIntact, Unspoilt, Answer

(* A signal handler's frame lies between the red zone and the data. *)
LEMMA FrameApart ==
    ASSUME NEW sp \in SPs, NEW a \in Mapped, a \in Heap \/ a + RedZone >= sp
    PROVE  ~(Minus(a, Minus(sp, RedZone + FrameSize)) < FrameSize)
<1>1. /\ RedZone \in Nat /\ FrameSize \in Nat /\ Space \in Nat \ {0} /\ sp \in 0 .. Space - 1
      /\ a \in 0 .. Space - 1 /\ sp \in Addr /\ a \in Addr
      /\ RedZone + FrameSize \in 0 .. Space - 1 /\ a + RedZone + FrameSize < Space
  BY ProgramAssumption, AlignAssumption, WidthAssumption, LayoutAssumption, MappedIs DEF Addr
<1>2. a + RedZone < sp => a + RedZone + FrameSize < sp
  BY <1>1, LayoutAssumption
<1>3. PICK low \in Addr :
        /\ low = Minus(sp, RedZone + FrameSize)
        /\ sp >= RedZone + FrameSize => low = sp - (RedZone + FrameSize)
        /\ sp < RedZone + FrameSize => low = sp - (RedZone + FrameSize) + Space
  BY <1>1, MinusIs
<1>4. low \in 0 .. Space - 1
  BY DEF Addr
<1>5. (a >= low => Minus(a, low) = a - low) /\ (a < low => Minus(a, low) = a - low + Space)
  BY <1>1, <1>4, MinusIs
<1>6. CASE sp >= RedZone + FrameSize
  BY <1>1, <1>2, <1>3, <1>4, <1>5, <1>6
<1>7. CASE sp < RedZone + FrameSize
  BY <1>1, <1>2, <1>3, <1>4, <1>5, <1>7
<1> QED
  BY <1>1, <1>6, <1>7

LEMMA NextIntact ==
    ASSUME Size[Cwd] <= Size[Cwd_host]
    PROVE  TInv /\ GuestDataIntact /\ [Next]_vars => GuestDataIntact'
<1> SUFFICES ASSUME TInv, GuestDataIntact, [Next]_vars PROVE GuestDataIntact'
  OBVIOUS
<1>0. /\ regs \in Addr \X Addr /\ mem \in Memories /\ regs[1] \in Addr
      /\ (at # "user" => call \in Requests /\ Unspoilt(call, mem))
      /\ (at = "user" => mem = Home)
      /\ Cwd \in Strings /\ Cwd_host \in Strings
      /\ Size[Cwd] \in Nat /\ Size[Cwd_host] \in Nat
  BY IntactIs, ProgramAssumption, StringsAssumption DEF TInv, TypeOK, InCall, Memories
<1>1. at # "user" /\ call' = call /\ mem' = mem => GuestDataIntact'
  BY <1>0 DEF GuestDataIntact, Unspoilt, Answer
<1>2. at' = "user" => GuestDataIntact'
  BY DEF GuestDataIntact
<1>3. ASSUME call' = call, NEW m, mem' = m, Unspoilt(call, m) PROVE GuestDataIntact'
  BY <1>3 DEF GuestDataIntact, Unspoilt, Answer
<1>4. CASE UNCHANGED vars
  BY <1>1, <1>2, <1>4 DEF vars
<1>5. ASSUME NEW c \in Requests, Call(c) PROVE GuestDataIntact'
  <2>1. mem' = Home /\ call' = c
    BY <1>0, <1>5 DEF Call
  <2> QED
    BY <2>1 DEF GuestDataIntact
<1>6. CASE Entry
  <2>1. Kept(call.sp, mem', mem) /\ call' = call /\ at # "user"
    BY <1>6, EntryIs DEF Entry
  <2>2. PICK m : m = mem'
    OBVIOUS
  <2>3. Unspoilt(call, m)
    BY <1>0, <2>1, <2>2 DEF Kept, Unspoilt
  <2> QED
    BY <1>3, <2>1, <2>2, <2>3
<1>7. CASE Faults \/ NotAFile \/ Refused \/ Succeeds
  <2>1. call' = call /\ mem' = mem /\ at = "kernel"
    BY <1>7 DEF Faults, NotAFile, Refused, Succeeds, Stays, Returns
  <2> QED
    BY <1>1, <2>1
<1>8. CASE Getcwd
  <2>1. at = "kernel" /\ call' = call /\ call.op = "getcwd" /\ regs = call.ptr
    BY <1>8 DEF Getcwd, Returns, TInv, InCall, ArgumentKept
  <2>2. mem' = mem \/ mem' = Written(mem, regs[1], Cwd_host, Size[Cwd_host])
    BY <1>8 DEF Getcwd
  <2>3. PICK m \in Memories, a \in Addr, n \in Nat :
            m = mem /\ a = regs[1] /\ n = Size[Cwd_host]
    BY <1>0
  <2>4. \A b \in Mapped : ~(Minus(b, a) < n) => Written(m, a, Cwd_host, n)[b] = m[b]
    <3>1. PICK s \in Strings : s = Cwd_host
      BY <1>0
    <3>2. \A b \in Mapped : ~(Minus(b, a) < n) => Written(m, a, s, n)[b] = m[b]
      BY WrittenIs
    <3> QED
      BY <3>1, <3>2
  <2>5. \A b \in Mapped : Minus(b, a) < n => Answer(call, b)
    BY <2>1, <2>3 DEF Answer
  <2>6. Unspoilt(call, Written(m, a, Cwd_host, n))
    BY <1>0, <2>1, <2>3, <2>4, <2>5 DEF Unspoilt
  <2> QED
    BY <1>1, <1>3, <2>1, <2>2, <2>3, <2>6
<1>9. CASE OnExit
  <2>1. at = "exit" /\ call' = call /\ call.op = "getcwd"
        /\ (regs = call.ptr \/ regs[1] = Size[Cwd_host])
    BY <1>9 DEF OnExit, TInv, InCall, ArgumentKept
  <2>2. mem' = mem \/ mem' = Written(mem, regs[1], Cwd, Size[Cwd])
    BY <1>9 DEF OnExit
  <2>3. PICK m \in Memories, a \in Addr, n \in Nat, h \in Nat :
            m = mem /\ a = regs[1] /\ n = Size[Cwd] /\ h = Size[Cwd_host] /\ n <= h
    BY <1>0
  <2>4. /\ \A b \in Mapped : ~(Minus(b, a) < n) => Written(m, a, Cwd, n)[b] = m[b]
        /\ a \notin Mapped => \A b \in Mapped : Written(m, a, Cwd, n)[b] = m[b]
    BY <1>0, WrittenIs, SMTT(30)
  <2>5. Unspoilt(call, Written(m, a, Cwd, n))
    <3>1. CASE regs = call.ptr
      <4>1. \A b \in Mapped : Minus(b, a) < n => Minus(b, a) < h
        <5> SUFFICES ASSUME NEW b \in Mapped, Minus(b, a) < n PROVE Minus(b, a) < h
          OBVIOUS
        <5>1. b \in Addr /\ a \in 0 .. Space - 1
          BY MappedIs DEF Addr
        <5>2. Minus(b, a) \in Addr
          BY <5>1, MinusIs
        <5> QED
          BY <2>3, <5>2 DEF Addr
      <4>2. \A b \in Mapped : Minus(b, a) < n => Answer(call, b)
        BY <2>1, <2>3, <3>1, <4>1 DEF Answer
      <4> QED
        BY <1>0, <2>1, <2>3, <2>4, <4>2 DEF Unspoilt
    <3>2. CASE regs[1] = Size[Cwd_host]
      <4>1. a \notin Mapped
        BY <2>3, <3>2, LayoutAssumption
      <4> QED
        BY <1>0, <2>1, <2>3, <2>4, <4>1 DEF Unspoilt
    <3> QED
      BY <2>1, <3>1, <3>2
  <2> QED
    BY <1>1, <1>3, <2>1, <2>2, <2>3, <2>5
<1>10. CASE Interrupted
  BY <1>1, <1>10 DEF Interrupted
<1>11. CASE Restart
  <2>1. at = "interrupted" /\ call' = call
    BY <1>11 DEF Restart
  <2>2. PICK sp \in SPs : sp = call.sp
    BY <1>0, <2>1, RequestIs
  <2>3. PICK low : low = Minus(sp, RedZone + FrameSize)
    OBVIOUS
  <2>4. PICK m : m = [a \in Mapped |-> IF Minus(a, low) < FrameSize THEN <<Garbage, 0>> ELSE mem[a]]
    OBVIOUS
  <2>5. mem' = mem \/ mem' = m
    BY <1>11, <2>2, <2>3, <2>4 DEF Restart
  <2>6. \A a \in Mapped : (a \in Heap \/ a + RedZone >= sp) => ~(Minus(a, low) < FrameSize)
    BY <2>3, FrameApart
  <2>7. Unspoilt(call, m)
    BY <1>0, <2>1, <2>2, <2>4, <2>6 DEF Unspoilt
  <2> QED
    BY <1>1, <1>3, <2>1, <2>5, <2>7
<1>12. CASE Exit
  BY <1>2, <1>12 DEF Exit
<1>13. CASE DomainChange
  BY <1>2, <1>13 DEF DomainChange
<1> QED
  BY <1>4, <1>5, <1>6, <1>7, <1>8, <1>9, <1>10, <1>11, <1>12, <1>13 DEF Next

(* Neither the rewritten arguments of a call (the first time or when it    *)
(* starts again), nor what a failed rewrite leaves half written, nor the   *)
(* answer put in place of getcwd's touches the program's data or its stack *)
(* with the red zone (rewrite.c:28), on every architecture.  The guest's   *)
(* name of the working directory must not be longer than the host's:       *)
(* fake.c:119 writes it without a look at the length of the buffer.        *)
THEOREM DataIntact ==
    ASSUME Size[Cwd] <= Size[Cwd_host]
    PROVE  Spec => []GuestDataIntact
<1>1. Init => GuestDataIntact
  BY DEF Init, GuestDataIntact
<1>2. TInv /\ GuestDataIntact /\ [Next]_vars => GuestDataIntact'
  BY NextIntact
<1> QED
  BY <1>1, <1>2, AlwaysTInv, PTL DEF Spec

-----------------------------------------------------------------------------
(* Redirection.  What transfer reports: the cells reached, in one of the   *)
(* ways, or that none was.                                                 *)
LEMMA TransferReaches ==
    ASSUME NEW m \in Methods, NEW al, NEW a, NEW len \in Nat
    PROVE  transfer(m, al, a, len).n = IF Reached(a, len) = 0 THEN -1 ELSE Reached(a, len)
<1> DEFINE answers(k) == Attempt(k, al, a, len).n >= 0 \/ ~denied(Attempt(k, al, a, len).errno)
                         \/ k = PEEK_POKE
           K == {k \in Methods : k >= m /\ answers(k)}
<1>0. PICK r \in 0 .. len : r = Reached(a, len)
  BY ReachedIs
<1>1. K \in SUBSET Nat /\ PEEK_POKE \in K
  BY DEF Methods, PROCESS_VM, PROC_MEM, PEEK_POKE
<1>2. transfer(m, al, a, len) = Attempt(Min(K), al, a, len)
  BY DEF transfer
<1>3. \A k \in K : Attempt(k, al, a, len).n = IF r = 0 THEN -1 ELSE r
  <2> SUFFICES ASSUME NEW k \in K PROVE Attempt(k, al, a, len).n = IF r = 0 THEN -1 ELSE r
    OBVIOUS
  <2>1. answers(k)
    OBVIOUS
  <2>2. CASE k # PEEK_POKE /\ k \notin al
    <3>1. Attempt(k, al, a, len).n = -1 /\ Attempt(k, al, a, len).errno \in {"EPERM", "EACCES"}
      BY <2>2 DEF Attempt
    <3>2. denied(Attempt(k, al, a, len).errno)
      BY <3>1 DEF denied
    <3> QED
      BY <2>1, <2>2, <3>1, <3>2
  <2>3. CASE ~(k # PEEK_POKE /\ k \notin al)
    BY <1>0, <2>3 DEF Attempt
  <2> QED
    BY <2>2, <2>3
<1> HIDE DEF K
<1>4. \E x \in K : \A y \in K : x <= y
  BY <1>1, Least
<1>5. Min(K) \in K
  BY <1>4 DEF Min
<1> QED
  BY <1>0, <1>2, <1>3, <1>5

LEMMA PlusIs ==
    ASSUME NEW a \in Addr, NEW j \in Nat, a + j < Space
    PROVE  Plus(a, j) = a + j
<1>1. a + j \in 0 .. Space - 1 /\ a + j \in Int /\ Space \in Nat \ {0}
  BY WidthAssumption DEF Addr
<1> QED
  BY <1>1, Remainder DEF Plus

LEMMA OneReached ==
    ASSUME NEW a \in Addr
    PROVE  Reached(a, 1) = IF a \in Mapped THEN 1 ELSE 0
<1>1. Plus(a, 0) = a
  <2>1. a + 0 = a /\ a < Space
    BY WidthAssumption DEF Addr
  <2> QED
    BY <2>1, PlusIs
<1>2. PICK r \in 0 .. 1 : r = Reached(a, 1) /\ (\A j \in 0 .. r - 1 : Plus(a, j) \in Mapped)
                          /\ ((\A j \in 0 .. 1 - 1 : Plus(a, j) \in Mapped) => r = 1)
  BY ReachedIs
<1>3. a \in Mapped => r = 1
  BY <1>1, <1>2
<1>4. a \notin Mapped => r = 0
  BY <1>1, <1>2
<1> QED
  BY <1>2, <1>3, <1>4

(* A string that has been written in full stands there. *)
Stands(m, a, s) ==
    a \in Mapped /\ \A j \in 0 .. Size[s] - 1 : a + j \in Mapped /\ m[a + j] = <<s, j>>

LEMMA StandsText ==
    ASSUME NEW m \in Memories, NEW a \in Addr, NEW s \in Strings, Stands(m, a, s),
           a + Size[s] < Space
    PROVE  Text(m, a) = s
<1>1. Size[s] \in Nat \ {0} /\ a \in Nat /\ Space \in Nat
  BY StringsAssumption, WidthAssumption DEF Addr
<1>2. a \in Mapped /\ m[a] = <<s, 0>>
  BY <1>1 DEF Stands
<1>3. m[a][1] = s
  BY <1>2
<1>4. Holds(m, a, s)
  <2> SUFFICES ASSUME NEW j \in 0 .. Size[s] - 1
               PROVE  Plus(a, j) \in Mapped /\ m[Plus(a, j)] = <<s, j>>
    BY DEF Holds
  <2>1. j \in Nat /\ a + j < Space
    BY <1>1
  <2>2. Plus(a, j) = a + j
    BY <2>1, PlusIs
  <2> QED
    BY <2>2 DEF Stands
<1> QED
  BY <1>2, <1>3, <1>4 DEF Text

LEMMA WrittenStands ==
    ASSUME NEW m \in Memories, NEW a \in Addr, NEW s \in Strings, NEW len \in Nat,
           Size[s] <= len, a + len < Space, Reached(a, len) = len
    PROVE  Stands(Written(m, a, s, len), a, s)
<1>1. Size[s] \in Nat \ {0} /\ a \in 0 .. Space - 1 /\ Space \in Nat
  BY StringsAssumption, WidthAssumption DEF Addr
<1>2. \A j \in 0 .. len - 1 : Plus(a, j) \in Mapped
  BY ReachedIs
<1>3. \A j \in 0 .. len - 1 : a + j \in Mapped /\ Minus(a + j, a) = j
  <2> SUFFICES ASSUME NEW j \in 0 .. len - 1 PROVE a + j \in Mapped /\ Minus(a + j, a) = j
    OBVIOUS
  <2>1. j \in Nat /\ a + j < Space
    BY <1>1
  <2>2. a + j \in Mapped
    BY <1>2, <2>1, PlusIs
  <2>3. PICK b \in Addr : b = a + j /\ b >= a
    BY <1>1, <2>2, MappedIs
  <2>4. Minus(b, a) = b - a
    BY <1>1, <2>3, MinusIs
  <2> QED
    BY <1>1, <2>2, <2>3, <2>4
<1>4. \A b \in Mapped : Minus(b, a) < len => Written(m, a, s, len)[b] = <<s, Minus(b, a)>>
  <2>1. \A b \in Mapped : Written(m, a, s, len)[b] =
            IF Minus(b, a) < Reached(a, len) THEN <<s, Minus(b, a)>> ELSE m[b]
    BY WrittenIs
  <2> QED
    BY <2>1
<1>5. \A j \in 0 .. Size[s] - 1 : j \in 0 .. len - 1 /\ j < len
  BY <1>1
<1>6. a \in Mapped
  <2>1. a + 0 \in Mapped
    BY <1>1, <1>3, <1>5
  <2> QED
    BY <1>1, <2>1
<1> QED
  BY <1>3, <1>4, <1>5, <1>6 DEF Stands

(* The names among the program's data read the same as long as these are kept. *)
LEMMA PointerText ==
    ASSUME NEW p \in Pointers, NEW m \in Memories, NEW sp, Kept(sp, m, Home)
    PROVE  Text(m, p) = Text(Home, p)
<1>1. CASE p \notin Mapped
  BY <1>1 DEF Text
<1>2. CASE p \in Mapped
  <2>1. Home \in Memories
    BY ProgramAssumption DEF Memories
  <2>2. PICK s \in Strings : s = Home[p][1] /\ Size[s] \in Nat \ {0}
    BY <1>2, <2>1, StringsAssumption DEF Memories, Cell
  <2>3. \A j \in 0 .. Size[s] - 1 : Plus(p, j) \in Heap \/ Plus(p, j) \notin Mapped
    BY <1>2, <2>2, PointersAssumption
  <2>4. \A b \in Heap : b \in Mapped /\ m[b] = Home[b]
    BY ProgramAssumption DEF Kept
  <2>5. Plus(p, 0) = p
    <3>1. p \in Addr /\ p + 0 = p /\ p < Space
      BY <1>2, MappedIs, WidthAssumption DEF Addr
    <3> QED
      BY <3>1, PlusIs
  <2>6. m[p] = Home[p]
    BY <1>2, <2>2, <2>3, <2>4, <2>5
  <2>7. Holds(m, p, s) <=> Holds(Home, p, s)
    BY <2>3, <2>4 DEF Holds
  <2> QED
    BY <2>2, <2>6, <2>7 DEF Text
<1> QED
  BY <1>1, <1>2

(* The handler about to look at argument i, and what it has made of it:    *)
(* left as it was, because that is what is meant or because the pointer is *)
(* bad; made to fail; or replaced by a copy that stands at the new top.    *)
Ready(t, i, sp, d) ==
    /\ Fine(t, sp, Home, d) /\ t.regs = t.real /\ t.real[i] = call.ptr[i]
    /\ t.regs_mode = "REGSET" => regset

Settled(u, i) ==
    \/ u.real[i] = call.ptr[i] /\ (call.ptr[i] \in Mapped => Meant(i) = Text(Home, call.ptr[i]))
    \/ u.real[i] \notin Mapped /\ (call.ptr[i] \notin Mapped \/ ~Roomy)
    \/ /\ call.ptr[i] \in Mapped /\ u.real[i] = u.top /\ Meant(i) \in Strings
       /\ Stands(u.mem, u.top, Meant(i)) /\ u.top + Size[Meant(i)] < Space

Outcome(t, u, i) ==
    /\ u.regs = u.real /\ u.regs_mode = t.regs_mode
    /\ \A j \in 1 .. 2 : j # i => u.real[j] = t.real[j]
    /\ \A b \in Mapped : b >= t.top => u.mem[b] = t.mem[b]
    /\ Settled(u, i)

LEMMA SetsBoth ==
    ASSUME NEW t \in Handler, t.regs_mode = "REGSET" => regset
    PROVE  /\ regs_set(t).regs = t.regs /\ regs_set(t).real = t.regs
           /\ regs_set(t).regs_mode = t.regs_mode
           /\ regs_set(t).mem = t.mem /\ regs_set(t).top = t.top /\ regs_set(t).mode = t.mode
<1>1. regs_set(t) = [t EXCEPT !.real = t.regs]
  BY DEF regs_set
<1> QED
  BY <1>1 DEF Handler

LEMMA PutsReg ==
    ASSUME NEW t \in Handler, NEW i \in 1 .. 2, NEW v \in Addr, t.regs_mode = "REGSET" => regset
    PROVE  LET u == regs_set([t EXCEPT !.regs[i] = v])
           IN  /\ u.regs = u.real /\ u.regs_mode = t.regs_mode /\ u.mem = t.mem /\ u.top = t.top
               /\ u.mode = t.mode
               /\ u.real[i] = v /\ \A j \in 1 .. 2 : j # i => u.real[j] = t.regs[j]
<1>1. PICK w \in Handler : /\ w = [t EXCEPT !.regs[i] = v] /\ w.mem = t.mem /\ w.top = t.top
  BY RegIs
<1>2. w.regs = [t.regs EXCEPT ![i] = v] /\ w.regs_mode = t.regs_mode /\ w.mode = t.mode
  BY <1>1 DEF Handler
<1>3. t.regs \in Addr \X Addr
  BY DEF Handler
<1>4. w.regs[i] = v /\ \A j \in 1 .. 2 : j # i => w.regs[j] = t.regs[j]
  <2>1. CASE i = 1
    BY <1>2, <1>3, <2>1
  <2>2. CASE i = 2
    BY <1>2, <1>3, <2>2
  <2> QED
    BY <2>1, <2>2
<1>5. /\ regs_set(w).regs = w.regs /\ regs_set(w).real = w.regs
      /\ regs_set(w).regs_mode = w.regs_mode
      /\ regs_set(w).mem = w.mem /\ regs_set(w).top = w.top /\ regs_set(w).mode = w.mode
  BY <1>2, SetsBoth
<1> QED
  BY <1>1, <1>2, <1>4, <1>5

(* A failed rewrite, when there was reason to fail. *)
LEMMA FailOutcome ==
    ASSUME NEW t \in Handler, NEW i \in 1 .. 2, t.regs = t.real, t.regs_mode = "REGSET" => regset,
           call.ptr[i] \notin Mapped \/ ~Roomy
    PROVE  Outcome(t, fail_closed(t, i), i)
<1>1. 0 \in Addr /\ 0 \notin Mapped
  BY MappedIs
<1>2. PICK u : u = fail_closed(t, i)
  OBVIOUS
<1>3. /\ u.regs = u.real /\ u.regs_mode = t.regs_mode /\ u.mem = t.mem /\ u.top = t.top
      /\ u.real[i] = 0 /\ \A j \in 1 .. 2 : j # i => u.real[j] = t.regs[j]
  BY <1>1, <1>2, PutsReg DEF fail_closed
<1>4. Settled(u, i)
  BY <1>1, <1>3 DEF Settled
<1> QED
  BY <1>2, <1>3, <1>4 DEF Outcome

(* With a roomy stack there is room, and it can be written. *)
LEMMA RoomyRoom ==
    ASSUME Roomy, call.sp \in SPs, NEW top \in Addr, NEW d \in Nat, d + Slot <= Reach,
           Below(call.sp, top, d), NEW len \in 1 .. PATH_LEN
    PROVE  /\ emuroot_scratch(top, len) # 0
           /\ Reached(emuroot_scratch(top, len), len) = len
<1>1. PICK sp \in SPs : sp = call.sp
  OBVIOUS
<1>2. /\ sp \in 0 .. Space - 1 /\ top \in 0 .. Space - 1 /\ Space \in Nat /\ ALIGN \in Nat
      /\ PATH_LEN \in Nat /\ SCRATCH_MARGIN \in Nat /\ Slot = PATH_LEN + ALIGN /\ Reach \in Nat
      /\ Slot \in Nat
  BY ProgramAssumption, WidthAssumption, AlignAssumption, SizesAssumption, Depths DEF Addr, Slot
<1>3. sp >= Reach /\ sp - Reach .. sp \subseteq Mapped
  BY <1>1 DEF Roomy
<1>4. SCRATCH_MARGIN <= Reach
  BY <1>2, Depths DEF Margin
<1>5. top + SCRATCH_MARGIN <= sp /\ top + d >= sp
  BY <1>1, <1>2, <1>3, <1>4 DEF Below
<1>6. top >= len + ALIGN
  BY <1>2, <1>3, <1>5
<1>7. PICK a \in Addr : /\ a = emuroot_scratch(top, len) /\ a # 0
                        /\ a + len <= top /\ a + PATH_LEN + ALIGN > top
  BY <1>6, ScratchIs, Depths
<1>8. \A j \in 0 .. len - 1 : Plus(a, j) \in Mapped
  <2> SUFFICES ASSUME NEW j \in 0 .. len - 1 PROVE Plus(a, j) \in Mapped
    OBVIOUS
  <2>1. j \in Nat /\ a \in 0 .. Space - 1
    BY DEF Addr
  <2>2. a + j < Space /\ a + j \in sp - Reach .. sp
    BY <1>2, <1>5, <1>7, <2>1
  <2> QED
    BY <1>3, <2>1, <2>2, PlusIs
<1>9. len \in Nat
  BY <1>2
<1> QED
  BY <1>7, <1>8, <1>9, ReachedIs

LEMMA ReplacedOutcome ==
    ASSUME NEW t, NEW i \in 1 .. 2, call.sp \in SPs, NEW d \in Nat, d + Slot <= Reach,
           Ready(t, i, call.sp, d), NEW s \in Strings, NEW len \in 1 .. PATH_LEN, Size[s] <= len,
           call.ptr[i] \in Mapped, Meant(i) = s
    PROVE  Outcome(t, Replaced(t, i, s, len), i)
<1>1. /\ t \in Handler /\ Below(call.sp, t.top, d) /\ t.regs = t.real
      /\ (t.regs_mode = "REGSET" => regset)
  BY DEF Ready, Fine
<1>2. PICK top \in Addr, m \in Memories : top = t.top /\ m = t.mem /\ t.method \in Methods
  BY <1>1 DEF Handler
<1>3. PICK a \in Addr : a = emuroot_scratch(top, len)
  BY ScratchIs, Depths
<1>4. PICK sent : sent = transfer(t.method, allowed, a, len)
  OBVIOUS
<1>5. len \in Nat /\ sent.method \in Methods
  BY <1>2, <1>4, TransferIs, SizesAssumption
<1>6. PICK w \in Memories : w = Written(m, a, s, len)
  BY <1>5, WrittenIs
<1>7. PICK u : u = [t EXCEPT !.top = a, !.method = sent.method, !.mem = w]
  OBVIOUS
<1>8. /\ u \in Handler /\ u.mem = w /\ u.top = a /\ u.regs = t.regs /\ u.real = t.real
      /\ u.regs_mode = t.regs_mode
  BY <1>1, <1>5, <1>7 DEF Handler
<1>9. Replaced(t, i, s, len) =
          CASE a = 0 -> fail_closed(t, i)
            [] a # 0 /\ sent.n = len -> regs_set([u EXCEPT !.regs[i] = a])
            [] a # 0 /\ sent.n # len -> fail_closed(u, i)
  BY <1>2, <1>3, <1>4, <1>6, <1>7 DEF Replaced
<1>10. CASE a = 0
  <2>1. ~Roomy
    BY <1>1, <1>2, <1>3, <1>10, RoomyRoom
  <2>2. Replaced(t, i, s, len) = fail_closed(t, i)
    BY <1>9, <1>10
  <2> QED
    BY <1>1, <2>1, <2>2, FailOutcome
<1>11. CASE a # 0
  <2>1. a + len <= top /\ a + len < Space
    <3>1. a + len <= top
      BY <1>3, <1>11, ScratchIs, Depths
    <3> QED
      BY <1>5, <3>1, WidthAssumption DEF Addr
  <2>2. \A b \in Mapped : b >= top => w[b] = m[b]
    <3> SUFFICES ASSUME NEW b \in Mapped, b >= top PROVE w[b] = m[b]
      OBVIOUS
    <3>1. b \in Addr
      BY MappedIs
    <3>2. ~(Minus(b, a) < len)
      <4> SUFFICES ASSUME Minus(b, a) < len PROVE FALSE
        OBVIOUS
      <4>1. b < a + len
        BY <1>5, <2>1, <3>1, RangeIs
      <4> QED
        BY <1>5, <2>1, <3>1, <4>1, WidthAssumption DEF Addr
    <3> QED
      BY <1>5, <1>6, <3>2, WrittenIs
  <2>3. CASE sent.n = len
    <3>1. Replaced(t, i, s, len) = regs_set([u EXCEPT !.regs[i] = a])
      BY <1>9, <1>11, <2>3
    <3>2. PICK v : v = regs_set([u EXCEPT !.regs[i] = a])
      OBVIOUS
    <3>3. /\ v.regs = v.real /\ v.regs_mode = u.regs_mode /\ v.mem = w /\ v.top = a
          /\ v.real[i] = a /\ \A j \in 1 .. 2 : j # i => v.real[j] = u.regs[j]
      BY <1>1, <1>8, <3>2, PutsReg
    <3>4. Reached(a, len) = len
      <4>1. sent.n = IF Reached(a, len) = 0 THEN -1 ELSE Reached(a, len)
        BY <1>2, <1>4, <1>5, TransferReaches
      <4> QED
        BY <1>5, <2>3, <4>1
    <3>5. Stands(w, a, s)
      BY <1>5, <1>6, <2>1, <3>4, WrittenStands
    <3>6. a + Size[s] < Space
      BY <1>5, <2>1, StringsAssumption, WidthAssumption DEF Addr
    <3>7. Settled(v, i)
      BY <3>3, <3>5, <3>6 DEF Settled
    <3>8. Outcome(t, v, i)
      BY <1>1, <1>2, <1>8, <2>2, <3>3, <3>7 DEF Outcome
    <3> QED
      BY <3>1, <3>2, <3>8
  <2>4. CASE sent.n # len
    <3>1. Replaced(t, i, s, len) = fail_closed(u, i)
      BY <1>9, <1>11, <2>4
    <3>2. Reached(a, len) # len
      <4>1. sent.n = IF Reached(a, len) = 0 THEN -1 ELSE Reached(a, len)
        BY <1>2, <1>4, <1>5, TransferReaches
      <4>2. len # 0
        OBVIOUS
      <4> QED
        BY <1>5, <2>4, <4>1, <4>2
    <3>3. ~Roomy
      BY <1>1, <1>2, <1>3, <3>2, RoomyRoom
    <3>4. PICK v : v = fail_closed(u, i)
      OBVIOUS
    <3>5. Outcome(u, v, i) /\ v.mem = w
      BY <1>1, <1>8, <3>3, <3>4, FailOutcome, FailIs
    <3>6. Outcome(t, v, i)
      BY <1>1, <1>2, <1>8, <2>2, <3>5 DEF Outcome
    <3> QED
      BY <3>1, <3>4, <3>6
  <2> QED
    BY <2>3, <2>4
<1> QED
  BY <1>10, <1>11

(* Nothing has been done to argument i, rightly. *)
LEMMA SameOutcome ==
    ASSUME NEW t, NEW u, NEW i \in 1 .. 2, t.regs = t.real, t.real[i] = call.ptr[i],
           u.regs = t.regs, u.real = t.real, u.regs_mode = t.regs_mode, u.mem = t.mem,
           call.ptr[i] \in Mapped => Meant(i) = Text(Home, call.ptr[i])
    PROVE  Outcome(t, u, i)
<1>1. Settled(u, i)
  BY DEF Settled
<1> QED
  BY <1>1 DEF Outcome

LEMMA ArgOutcome ==
    ASSUME NEW t, NEW i \in 1 .. 2, call.sp \in SPs, NEW d \in Nat, d + Slot <= Reach,
           Ready(t, i, call.sp, d), call.ptr[i] \in Pointers, call.op # "connect"
    PROVE  Outcome(t, rewrite_path_arg(t, i), i)
<1>1. /\ t \in Handler /\ Below(call.sp, t.top, d) /\ t.regs = t.real /\ Kept(call.sp, t.mem, Home)
      /\ t.real[i] = call.ptr[i] /\ (t.regs_mode = "REGSET" => regset)
  BY DEF Ready, Fine
<1>2. t.mem \in Memories /\ t.method \in Methods /\ t.mode \in FileModes
  BY <1>1 DEF Handler
<1>3. PICK p \in Pointers : p = call.ptr[i] /\ p = t.regs[i] /\ p \in Addr
  BY <1>1, ProgramAssumption
<1>4. PICK read : read = transfer(t.method, allowed, p, 1)
  OBVIOUS
<1>5. read.method \in Methods /\ read.n = IF p \in Mapped THEN 1 ELSE -1
  <2>1. read.n = IF Reached(p, 1) = 0 THEN -1 ELSE Reached(p, 1)
    BY <1>2, <1>4, TransferReaches
  <2>2. Reached(p, 1) = IF p \in Mapped THEN 1 ELSE 0
    BY <1>3, OneReached
  <2> QED
    BY <1>2, <1>4, <2>1, <2>2, TransferIs
<1>6. PICK seen : seen = [t EXCEPT !.method = read.method]
  OBVIOUS
<1>7. /\ seen \in Handler /\ seen.mem = t.mem /\ seen.top = t.top /\ seen.mode = t.mode
      /\ seen.regs = t.regs /\ seen.real = t.real /\ seen.regs_mode = t.regs_mode
  BY <1>1, <1>5, <1>6 DEF Handler
<1>8. PICK given \in Strings : given = Text(Home, p)
  <2>1. Home \in Memories
    BY ProgramAssumption DEF Memories
  <2> QED
    BY <2>1, TextIs
<1>9. given = Text(t.mem, p)
  <2>1. PICK sp \in SPs, m \in Memories : sp = call.sp /\ m = t.mem
    BY <1>2
  <2>2. Text(m, p) = Text(Home, p)
    BY <1>1, <2>1, PointerText
  <2> QED
    BY <1>8, <2>1, <2>2
<1>10. PICK host \in Strings : host = Translate[given] /\ Size[host] \in 1 .. PATH_LEN
  BY SizeIs
<1>11. PICK g : g = emuroot_grant_access(seen.mode, there, call.op, i, host)
  OBVIOUS
<1>12. g \in FileModes
  BY <1>2, <1>7, <1>11, GrantIs
<1>13. PICK granted : granted = IF fake_root THEN [seen EXCEPT !.mode = g] ELSE seen
  OBVIOUS
<1>14. /\ granted \in Handler /\ granted.mem = t.mem /\ granted.top = t.top
       /\ granted.regs = t.regs /\ granted.real = t.real /\ granted.regs_mode = t.regs_mode
  BY <1>7, <1>12, <1>13 DEF Handler
<1>15. rewrite_path_arg(t, i) =
         CASE p = 0 -> t
           [] p # 0 /\ read.n < 0 ->
                  IF read.errno = "EFAULT" THEN seen ELSE fail_closed(seen, i)
           [] p # 0 /\ read.n >= 0 /\ LeftAlone(given) -> seen
           [] OTHER -> IF host = given THEN granted
                       ELSE Replaced(granted, i, host, Size[host])
  <2>1. (IF fake_root
         THEN [seen EXCEPT !.mode = emuroot_grant_access(@, there, call.op, i, host)]
         ELSE seen) = granted
    BY <1>7, <1>11, <1>13 DEF Handler
  <2> QED
    BY <1>3, <1>4, <1>6, <1>9, <1>10, <2>1 DEF rewrite_path_arg
<1>16. Meant(i) = IF LeftAlone(given) THEN given ELSE host
  BY <1>3, <1>8, <1>10 DEF Meant
<1>17. 0 \notin Mapped
  BY MappedIs
<1>18. CASE p = 0
  <2>1. rewrite_path_arg(t, i) = t
    BY <1>15, <1>18
  <2> QED
    BY <1>1, <1>3, <1>17, <1>18, <2>1, SameOutcome
<1>19. CASE p # 0 /\ p \notin Mapped
  <2>1. rewrite_path_arg(t, i) = seen \/ rewrite_path_arg(t, i) = fail_closed(seen, i)
    BY <1>5, <1>15, <1>19
  <2>2. Outcome(t, seen, i)
    BY <1>1, <1>3, <1>7, <1>19, SameOutcome
  <2>3. Outcome(seen, fail_closed(seen, i), i)
    BY <1>1, <1>3, <1>7, <1>19, FailOutcome
  <2>4. Outcome(t, fail_closed(seen, i), i)
    BY <1>7, <2>3 DEF Outcome
  <2> QED
    BY <2>1, <2>2, <2>4
<1>20. CASE p # 0 /\ p \in Mapped /\ LeftAlone(given)
  <2>1. rewrite_path_arg(t, i) = seen
    BY <1>5, <1>15, <1>20
  <2>2. Meant(i) = Text(Home, call.ptr[i])
    BY <1>3, <1>8, <1>16, <1>20
  <2> QED
    BY <1>1, <1>7, <2>1, <2>2, SameOutcome
<1>21. CASE p # 0 /\ p \in Mapped /\ ~LeftAlone(given) /\ host = given
  <2>1. rewrite_path_arg(t, i) = granted
    BY <1>5, <1>15, <1>21
  <2>2. Meant(i) = Text(Home, call.ptr[i])
    BY <1>3, <1>8, <1>16, <1>21
  <2> QED
    BY <1>1, <1>14, <2>1, <2>2, SameOutcome
<1>22. CASE p # 0 /\ p \in Mapped /\ ~LeftAlone(given) /\ host # given
  <2>1. rewrite_path_arg(t, i) = Replaced(granted, i, host, Size[host])
    BY <1>5, <1>15, <1>22
  <2>2. Meant(i) = host
    BY <1>16, <1>22
  <2>3. Ready(granted, i, call.sp, d)
    BY <1>1, <1>14 DEF Ready, Fine
  <2>4. PICK len \in 1 .. PATH_LEN : len = Size[host] /\ Size[host] <= len
    BY <1>10, SizesAssumption
  <2>5. Outcome(granted, Replaced(granted, i, host, len), i)
    BY <1>3, <1>22, <2>2, <2>3, <2>4, ReplacedOutcome
  <2>6. Outcome(t, Replaced(granted, i, host, len), i)
    BY <1>14, <2>5 DEF Outcome
  <2> QED
    BY <2>1, <2>4, <2>6
<1> QED
  BY <1>18, <1>19, <1>20, <1>21, <1>22

(* The path of a socket.  What cannot be read in full is no name.          *)
LEMMA SocketOutcome ==
    ASSUME NEW t, call.sp \in SPs, NEW d \in Nat, d + Slot <= Reach,
           Ready(t, 1, call.sp, d), call.ptr[1] \in Pointers, call.op = "connect"
    PROVE  Outcome(t, rewrite_sockaddr(t), 1)
<1>0. PICK k \in 1 .. 2 : k = 1
  OBVIOUS
<1>1. /\ t \in Handler /\ Below(call.sp, t.top, d) /\ t.regs = t.real /\ Kept(call.sp, t.mem, Home)
      /\ t.real[1] = call.ptr[1] /\ (t.regs_mode = "REGSET" => regset)
  BY DEF Ready, Fine
<1>2. t.mem \in Memories /\ t.method \in Methods
  BY <1>1 DEF Handler
<1>3. PICK p \in Pointers : p = call.ptr[1] /\ p = t.regs[1] /\ p \in Addr
  BY <1>1, ProgramAssumption
<1>4. PICK given \in Strings : given = Text(Home, p)
  <2>1. Home \in Memories
    BY ProgramAssumption DEF Memories
  <2> QED
    BY <2>1, TextIs
<1>5. given = Text(t.mem, p)
  <2>1. PICK sp \in SPs, m \in Memories : sp = call.sp /\ m = t.mem
    BY <1>2
  <2>2. Text(m, p) = Text(Home, p)
    BY <1>1, <2>1, PointerText
  <2> QED
    BY <1>4, <2>1, <2>2
<1>6. PICK host \in Strings : host = Translate[given] /\ Size[host] \in Nat
  BY SizeIs, SizesAssumption
<1>7. PICK len \in Nat \ {0} : len = Size[given]
  BY StringsAssumption
<1>8. PICK read : read = transfer(t.method, allowed, p, len)
  OBVIOUS
<1>9. read.method \in Methods /\ read.n = IF Reached(p, len) = 0 THEN -1 ELSE Reached(p, len)
  BY <1>2, <1>8, TransferIs, TransferReaches
<1>10. PICK seen : seen = [t EXCEPT !.method = read.method]
  OBVIOUS
<1>11. /\ seen \in Handler /\ seen.mem = t.mem /\ seen.top = t.top
       /\ seen.regs = t.regs /\ seen.real = t.real /\ seen.regs_mode = t.regs_mode
  BY <1>1, <1>9, <1>10 DEF Handler
<1>12. rewrite_sockaddr(t) =
         CASE p = 0 -> t
           [] p # 0 /\ read.n # len -> seen
           [] p # 0 /\ read.n = len ->
                 IF \/ given \in Relative \cup {Empty, Garbage}
                    \/ host = given \/ Size[host] > SUN_PATH
                 THEN seen ELSE Replaced(seen, 1, host, SUN_SIZE)
  BY <1>3, <1>5, <1>6, <1>7, <1>8, <1>10 DEF rewrite_sockaddr
<1>13. Meant(1) = IF LeftAlone(given) \/ given \in Relative \cup {Garbage} \/ Size[host] > SUN_PATH
                  THEN given ELSE host
  BY <1>3, <1>4, <1>6 DEF Meant
<1>14. LeftAlone(given) => given \in Relative \cup {Empty, Garbage}
  BY DEF LeftAlone
<1>15. given = Empty => LeftAlone(given)
  BY DEF LeftAlone
<1>16. p \in Mapped /\ read.n # len => given = Garbage
  <2> SUFFICES ASSUME p \in Mapped, read.n # len, given # Garbage PROVE FALSE
    OBVIOUS
  <2>1. Holds(Home, p, given)
    BY <1>4 DEF Text
  <2>2. \A j \in 0 .. len - 1 : Plus(p, j) \in Mapped
    BY <1>7, <2>1 DEF Holds
  <2>3. Reached(p, len) = len
    BY <2>2, ReachedIs
  <2> QED
    BY <1>9, <2>3
<1>17. 0 \notin Mapped
  BY MappedIs
<1>18. CASE p = 0
  <2>1. rewrite_sockaddr(t) = t
    BY <1>12, <1>18
  <2> QED
    BY <1>0, <1>1, <1>3, <1>17, <1>18, <2>1, SameOutcome
<1>19. CASE p # 0 /\ (read.n # len \/ given \in Relative \cup {Empty, Garbage}
                      \/ host = given \/ Size[host] > SUN_PATH)
  <2>1. rewrite_sockaddr(t) = seen
    BY <1>12, <1>19
  <2>2. p \in Mapped => Meant(1) = given
    BY <1>13, <1>15, <1>16, <1>19
  <2>3. call.ptr[1] \in Mapped => Meant(1) = Text(Home, call.ptr[1])
    BY <1>3, <1>4, <2>2
  <2> QED
    BY <1>1, <1>11, <2>1, <2>3, SameOutcome
<1>20. CASE p # 0 /\ read.n = len /\ given \notin Relative \cup {Empty, Garbage}
            /\ host # given /\ ~(Size[host] > SUN_PATH)
  <2>1. rewrite_sockaddr(t) = Replaced(seen, 1, host, SUN_SIZE)
    BY <1>12, <1>20
  <2>2. Meant(1) = host
    BY <1>13, <1>14, <1>20
  <2>3. Ready(seen, 1, call.sp, d)
    BY <1>1, <1>11 DEF Ready, Fine
  <2>4. PICK n \in 1 .. PATH_LEN : n = SUN_SIZE /\ Size[host] <= n
    BY <1>6, <1>20, SizesAssumption
  <2>5. p \in Mapped
    BY <1>4, <1>20 DEF Text
  <2>6. Outcome(seen, Replaced(seen, 1, host, n), 1)
    <3>1. Ready(seen, k, call.sp, d) /\ call.ptr[k] \in Mapped /\ Meant(k) = host /\ Size[host] <= n
      BY <1>0, <1>3, <2>2, <2>3, <2>4, <2>5
    <3>2. Outcome(seen, Replaced(seen, k, host, n), k)
      BY <3>1, ReplacedOutcome
    <3> QED
      BY <1>0, <3>2
  <2>7. Outcome(t, Replaced(seen, 1, host, n), 1)
    BY <1>11, <2>6 DEF Outcome
  <2> QED
    BY <2>1, <2>4, <2>7
<1> QED
  BY <1>18, <1>19, <1>20

(* What the kernel finds: the meaning of the argument, or nothing and      *)
(* rightly so.  It is still there when what is above the top then is.      *)
Found(r, m, i) ==
    \/ call.ptr[i] \in Mapped /\ r[i] \in Mapped /\ Text(m, r[i]) = Meant(i)
    \/ r[i] \notin Mapped /\ (call.ptr[i] \notin Mapped \/ ~Roomy)

LEMMA SettledFound ==
    ASSUME NEW t \in Handler, NEW u \in Handler, NEW i \in 1 .. 2, Settled(t, i),
           NEW sp \in SPs, Kept(sp, u.mem, Home), call.ptr[i] \in Pointers,
           u.real[i] = t.real[i], \A b \in Mapped : b >= t.top => u.mem[b] = t.mem[b]
    PROVE  Found(u.real, u.mem, i)
<1>1. PICK m \in Memories : m = u.mem
  BY DEF Handler
<1>2. PICK p \in Pointers : p = call.ptr[i]
  OBVIOUS
<1>3. CASE u.real[i] = p /\ (p \in Mapped => Meant(i) = Text(Home, p))
  <2>1. Text(m, p) = Text(Home, p)
    BY <1>1, PointerText
  <2> QED
    BY <1>1, <1>2, <1>3, <2>1 DEF Found
<1>4. CASE u.real[i] \notin Mapped /\ (call.ptr[i] \notin Mapped \/ ~Roomy)
  BY <1>4 DEF Found
<1>5. CASE /\ call.ptr[i] \in Mapped /\ u.real[i] = t.top /\ Meant(i) \in Strings
           /\ Stands(t.mem, t.top, Meant(i)) /\ t.top + Size[Meant(i)] < Space
  <2>1. PICK s \in Strings, a \in Addr : s = Meant(i) /\ a = t.top
    BY <1>5 DEF Handler
  <2>2. Stands(m, a, s)
    <3>1. Size[s] \in Nat /\ a \in Nat
      BY StringsAssumption DEF Addr
    <3>2. a \in Mapped /\ \A j \in 0 .. Size[s] - 1 : a + j \in Mapped /\ t.mem[a + j] = <<s, j>>
      BY <1>5, <2>1 DEF Stands
    <3>3. \A j \in 0 .. Size[s] - 1 : a + j >= a
      BY <3>1
    <3>4. \A j \in 0 .. Size[s] - 1 : m[a + j] = <<s, j>>
      BY <1>1, <2>1, <3>2, <3>3
    <3> QED
      BY <3>2, <3>4 DEF Stands
  <2>3. Text(m, a) = s /\ a \in Mapped
    BY <1>5, <2>1, <2>2, StandsText DEF Stands
  <2> QED
    BY <1>1, <1>5, <2>1, <2>3 DEF Found
<1> QED
  BY <1>2, <1>3, <1>4, <1>5 DEF Settled

LEMMA PointersAre ==
    ASSUME NEW c \in Requests
    PROVE  /\ c.op # "getcwd" => c.ptr[1] \in Pointers
           /\ c.ptr[2] \in Pointers
<1>1. c.ptr \in (Pointers \cup Buffers) \X Pointers /\ (c.op = "getcwd" <=> c.ptr[1] \in Buffers)
  BY DEF Requests
<1> QED
  BY <1>1

LEMMA EntryFound ==
    ASSUME TInv, Entry, mem = Home, regs = call.ptr
    PROVE  \A i \in Paths(call.op) : Found(regs', mem', i)
<1>1. /\ regs \in Addr \X Addr /\ mem \in Memories /\ method \in Methods /\ mode \in FileModes
      /\ call \in Requests /\ at = "entry"
  BY DEF TInv, TypeOK, InCall, Memories, FileModes, Entry
<1>2. PICK sp \in SPs : sp = call.sp /\ sp \in Addr
  BY <1>1, RequestIs
<1>3. PICK top \in Addr : top = ScratchTop(sp) /\ Below(sp, top, Margin)
  BY <1>2, TopBelow
<1>4. PICK rm \in RegsModes : rm = regs_get(regs_mode) /\ (rm = "REGSET" => regset)
  BY DEF regs_get, RegsModes
<1>5. PICK t0 : t0 = [regs |-> regs, real |-> regs, top |-> top, mem |-> mem,
                      method |-> method, mode |-> mode, regs_mode |-> rm]
  OBVIOUS
<1>6. /\ t0 \in Handler /\ t0.mem = Home /\ t0.top = top /\ t0.real = call.ptr /\ t0.regs = t0.real
      /\ t0.regs_mode = rm
  BY <1>1, <1>5 DEF Handler
<1>7. Fine(t0, sp, Home, Margin)
  BY <1>3, <1>6 DEF Fine, Kept
<1>8. \A i \in 1 .. 2 : Ready(t0, i, call.sp, Margin)
  BY <1>2, <1>4, <1>6, <1>7 DEF Ready
<1>9. PICK t : t = emuroot_on_entry(t0)
  OBVIOUS
<1>10. regs' = t.real /\ mem' = t.mem
  BY <1>2, <1>3, <1>4, <1>5, <1>9 DEF Entry
<1>11. t \in Handler /\ Kept(sp, t.mem, Home)
  BY <1>7, <1>9, EntryFine DEF Fine
<1>12. /\ Margin \in Nat /\ Slot \in Nat /\ Margin + Slot \in Nat /\ Margin + Slot <= Reach
       /\ (Margin + Slot) + Slot <= Reach
  BY Depths
<1>13. SUFFICES \A i \in Paths(call.op) : Found(t.real, t.mem, i)
  BY <1>10
<1>14. PICK one \in 1 .. 2, two \in 1 .. 2 : one = 1 /\ two = 2
  OBVIOUS
<1>15. ASSUME Settled(t, one), call.ptr[one] \in Pointers PROVE Found(t.real, t.mem, 1)
  BY <1>11, <1>14, <1>15, SettledFound
<1>16. CASE call.op = "connect"
  <2>1. t = rewrite_sockaddr(t0) /\ Paths(call.op) = {1} /\ call.ptr[1] \in Pointers
    BY <1>1, <1>9, <1>16, PointersAre DEF emuroot_on_entry, Paths
  <2>2. Outcome(t0, t, 1)
    BY <1>2, <1>8, <1>12, <1>14, <1>16, <2>1, SocketOutcome
  <2> QED
    BY <1>14, <1>15, <2>1, <2>2 DEF Outcome
<1>17. CASE call.op = "getcwd"
  BY <1>17 DEF Paths
<1>18. CASE call.op \notin {"connect", "getcwd", "rename"}
  <2>1. t = rewrite_path_arg(t0, one) /\ Paths(call.op) = {1} /\ call.ptr[one] \in Pointers
    BY <1>1, <1>9, <1>14, <1>18, PointersAre DEF emuroot_on_entry, Paths
  <2>2. Outcome(t0, t, one)
    BY <1>2, <1>8, <1>12, <1>18, <2>1, ArgOutcome
  <2> QED
    BY <1>15, <2>1, <2>2 DEF Outcome
<1>19. CASE call.op = "rename"
  <2>1. PICK u : u = rewrite_path_arg(t0, one)
    OBVIOUS
  <2>2. /\ t = rewrite_path_arg(u, two) /\ Paths(call.op) = 1 .. 2
        /\ call.ptr[one] \in Pointers /\ call.ptr[two] \in Pointers
    BY <1>1, <1>9, <1>14, <1>19, <2>1, PointersAre DEF emuroot_on_entry, Paths
  <2>3. Outcome(t0, u, one)
    BY <1>2, <1>8, <1>12, <1>19, <2>1, <2>2, ArgOutcome
  <2>4. PICK d \in Nat : d = Margin + Slot /\ d + Slot <= Reach
    BY <1>12
  <2>5. Fine(u, sp, Home, d)
    BY <1>7, <1>12, <2>1, <2>4, ArgFine
  <2>6. Ready(u, two, call.sp, d)
    BY <1>2, <1>4, <1>6, <1>14, <2>3, <2>5 DEF Ready, Outcome
  <2>7. Outcome(u, t, two)
    BY <1>2, <1>19, <2>2, <2>4, <2>6, ArgOutcome
  <2>8. Found(t.real, t.mem, one)
    <3>1. u \in Handler
      BY <2>5 DEF Fine
    <3>2. t.real[one] = u.real[one] /\ \A b \in Mapped : b >= u.top => t.mem[b] = u.mem[b]
      BY <1>14, <2>7 DEF Outcome
    <3>3. Settled(u, one)
      BY <2>3 DEF Outcome
    <3> QED
      BY <1>11, <2>2, <3>1, <3>2, <3>3, SettledFound
  <2>9. Found(t.real, t.mem, two)
    <3>1. Settled(t, two)
      BY <2>7 DEF Outcome
    <3> QED
      BY <1>11, <2>2, <3>1, SettledFound
  <2> QED
    BY <1>14, <2>2, <2>8, <2>9
<1> QED
  BY <1>16, <1>17, <1>18, <1>19

(* A call that has not been interrupted comes to its entry stop with the   *)
(* memory and the registers the program made it with.                      *)
Fresh ==
    /\ at = "user" => first = Never
    /\ at = "entry" /\ first = Never => mem = Home /\ regs = call.ptr
    /\ at = "interrupted" => first # Never
RInv == Fresh /\ Redirected

LEMMA NextRInv == TInv /\ RInv /\ [Next]_vars => RInv'
<1> SUFFICES ASSUME TInv, RInv, [Next]_vars PROVE RInv'
  OBVIOUS
<1>1. Fresh /\ Redirected
  BY DEF RInv
<1>2. (at' # "kernel" \/ first' # Never) => Redirected'
  BY DEF Redirected
<1>3. CASE UNCHANGED vars
  <2>1. Redirected'
    BY <1>1, <1>3 DEF vars, Redirected, Resolved, Meant, Roomy, LeftAlone
  <2> QED
    BY <1>1, <1>3, <2>1 DEF vars, RInv, Fresh
<1>4. ASSUME NEW c \in Requests, Call(c) PROVE RInv'
  <2>1. at = "user" /\ at' = "entry" /\ mem' = mem /\ regs' = c.ptr /\ call' = c
    BY <1>4 DEF Call
  <2>2. mem = Home
    BY <2>1 DEF TInv, InCall
  <2> QED
    BY <1>2, <2>1, <2>2 DEF RInv, Fresh
<1>5. CASE Entry
  <2>1. at = "entry" /\ at' = "kernel" /\ first' = first /\ call' = call
    BY <1>5 DEF Entry
  <2>2. CASE first # Never
    BY <1>2, <2>1, <2>2 DEF RInv, Fresh
  <2>3. CASE first = Never
    <3>1. mem = Home /\ regs = call.ptr
      BY <1>1, <2>1, <2>3 DEF Fresh
    <3>2. PICK r, m : r = regs' /\ m = mem'
      OBVIOUS
    <3>3. \A i \in Paths(call.op) : Found(r, m, i)
      BY <1>5, <3>1, <3>2, EntryFound
    <3>4. Redirected'
      BY <2>1, <3>2, <3>3 DEF Redirected, Resolved, Found, Meant, Roomy, LeftAlone
    <3> QED
      BY <2>1, <3>4 DEF RInv, Fresh
  <2> QED
    BY <2>2, <2>3
<1>6. CASE Faults \/ NotAFile \/ Refused \/ Succeeds \/ Getcwd
  <2>1. at' = "exit"
    BY <1>6 DEF Faults, NotAFile, Refused, Succeeds, Getcwd, Returns
  <2> QED
    BY <1>2, <2>1 DEF RInv, Fresh
<1>7. CASE OnExit
  BY <1>2, <1>7 DEF OnExit, RInv, Fresh
<1>8. CASE Interrupted
  <2>1. at' = "interrupted" /\ first' = Resolved /\ call.op \in {"open_r", "connect"}
    BY <1>8 DEF Interrupted
  <2>2. DOMAIN Resolved = {1}
    BY <2>1 DEF Resolved, Paths
  <2>3. DOMAIN Never = {}
    BY DEF Never
  <2>4. first' # Never
    BY <2>1, <2>2, <2>3
  <2> QED
    BY <1>2, <2>1, <2>4 DEF RInv, Fresh
<1>9. CASE Restart
  <2>1. at = "interrupted" /\ at' = "entry" /\ first' = first
    BY <1>9 DEF Restart
  <2> QED
    BY <1>1, <1>2, <2>1 DEF RInv, Fresh
<1>10. CASE Exit
  BY <1>2, <1>10 DEF Exit, RInv, Fresh
<1>11. CASE DomainChange
  <2>1. at = "user" /\ at' = at /\ first' = first
    BY <1>11 DEF DomainChange
  <2> QED
    BY <1>1, <1>2, <2>1 DEF RInv, Fresh
<1> QED
  BY <1>3, <1>4, <1>5, <1>6, <1>7, <1>8, <1>9, <1>10, <1>11 DEF Next

(* A path argument reaches the kernel translated or not at all             *)
(* (rewrite.c:37), in whatever way guest.c reaches the memory, wherever    *)
(* the stack pointer is, with one argument or two: the second copy goes    *)
(* below the first and leaves it as it is.  A call fails only for a bad    *)
(* pointer or a stack without room.                                        *)
THEOREM PathsRedirected == Spec => []Redirected
<1>1. Init => RInv
  BY DEF Init, RInv, Fresh, Redirected
<1>2. TInv /\ RInv /\ [Next]_vars => RInv'
  BY NextRInv
<1>3. RInv => Redirected
  BY DEF RInv
<1> QED
  BY <1>1, <1>2, <1>3, AlwaysTInv, PTL DEF Spec

-----------------------------------------------------------------------------
(* Permissions.  A grant takes no bit away, and gives what dac_for asks    *)
(* for of what is there, is the user's and can be reached.                 *)
More(m, n) == \A f \in Files : m[f] \subseteq n[f]

LEMMA OwnerGrant ==
    ASSUME NEW mo \in FileModes, NEW th, NEW p \in Files, NEW b
    PROVE  /\ More(mo, grant_owner(mo, th, p, b))
           /\ Stat(mo, th, p) /\ p \in Mine => b \subseteq grant_owner(mo, th, p, b)[p]
<1>1. CASE Stat(mo, th, p) /\ p \in Mine
  <2>1. grant_owner(mo, th, p, b) = [mo EXCEPT ![p] = mo[p] \cup b]
    BY <1>1 DEF grant_owner
  <2> QED
    BY <2>1 DEF FileModes, More
<1>2. CASE ~(Stat(mo, th, p) /\ p \in Mine)
  <2>1. grant_owner(mo, th, p, b) = mo
    BY <1>2 DEF grant_owner
  <2> QED
    BY <1>2, <2>1 DEF More
<1> QED
  BY <1>1, <1>2

LEMMA GrantMore ==
    ASSUME NEW mo \in FileModes, NEW th, NEW op, NEW i, NEW h
    PROVE  More(mo, emuroot_grant_access(mo, th, op, i, h))
<1>1. CASE h \notin Files \/ dac_for(op, i) = "NONE"
  BY <1>1 DEF emuroot_grant_access, ensure_dac, More
<1>2. CASE h \in Files /\ dac_for(op, i) # "NONE"
  <2>1. Parent[h] \in Files
    BY <1>2, FilesAssumption
  <2>2. \E p \in Files : \E b : emuroot_grant_access(mo, th, op, i, h) = grant_owner(mo, th, p, b)
    BY <1>2, <2>1 DEF emuroot_grant_access, ensure_dac
  <2> QED
    BY <2>2, OwnerGrant
<1> QED
  BY <1>1, <1>2

(* The directory whose entries change. *)
LEMMA ParentGrant ==
    ASSUME NEW mo \in FileModes, NEW th, NEW op, NEW i, NEW h \in Files,
           dac_for(op, i) = "PARENT_W", Parent[h] \in Mine, Folders \subseteq th,
           Searchable(mo, Parent[h])
    PROVE  {"w", "x"} \subseteq emuroot_grant_access(mo, th, op, i, h)[Parent[h]]
<1>1. PICK p \in Files : p = Parent[h] /\ p \in th /\ p \in Mine
  BY FilesAssumption
<1>2. Stat(mo, th, p)
  BY <1>1 DEF Stat
<1>3. emuroot_grant_access(mo, th, op, i, h) = grant_owner(mo, th, p, {"w", "x"})
  BY <1>1 DEF emuroot_grant_access, ensure_dac
<1> QED
  BY <1>1, <1>2, <1>3, OwnerGrant

(* The file itself. *)
LEMMA FileGrant ==
    ASSUME NEW mo \in FileModes, NEW th, NEW op, NEW i, NEW h \in Files,
           dac_for(op, i) \in {"READ", "RW"}, h \in Mine, h \in th,
           Searchable(mo, h)
    PROVE  /\ "r" \in emuroot_grant_access(mo, th, op, i, h)[h]
           /\ dac_for(op, i) = "RW" => "w" \in emuroot_grant_access(mo, th, op, i, h)[h]
<1>1. PICK need : need = dac_for(op, i)
  OBVIOUS
<1>2. PICK b : b = (IF need = "RW" THEN {"r", "w"} ELSE {"r"})
                   \cup (IF h \in Folders THEN {"x"} ELSE {})
  OBVIOUS
<1>3. PICK g : g = emuroot_grant_access(mo, th, op, i, h)
  OBVIOUS
<1>4. g = grant_owner(mo, th, h, b)
  BY <1>1, <1>2, <1>3 DEF emuroot_grant_access, ensure_dac
<1>5. b \subseteq g[h]
  BY <1>4, OwnerGrant DEF Stat
<1> QED
  BY <1>1, <1>2, <1>3, <1>5

(* Why a call may still be refused, apart from names left to the kernel:   *)
(* be has the bits as they were when it was made.                          *)
Amiss(be, th, op, f, i) ==
    \/ f \notin Mine
    \/ /\ dac_for(op, i) = "PARENT_W"
       /\ Parent[f] \notin Mine \/ ~Searchable(be, Parent[f])
    \/ dac_for(op, i) # "PARENT_W" /\ ~Searchable(be, f)
    \/ op = "open_creat" /\ f \in th
    \/ op = "openat2_w"

LEMMA SearchableMore ==
    ASSUME NEW m \in FileModes, NEW n \in FileModes, More(m, n), NEW f \in Files,
           Searchable(m, f)
    PROVE  Searchable(n, f)
<1>1. Above[f] \subseteq Files
  BY FilesAssumption
<1> QED
  BY <1>1 DEF More, Searchable

LEMMA GrantSuffices ==
    ASSUME NEW be \in FileModes, NEW mo \in FileModes, More(be, mo),
           NEW th, NEW op \in Ops \ {"getcwd"}, NEW i \in Paths(op),
           NEW f \in Files, Folders \subseteq th, NEW last \in FileModes,
           More(emuroot_grant_access(mo, th, op, i, f), last),
           op # "rename" => last = emuroot_grant_access(mo, th, op, i, f),
           ~Amiss(be, th, op, f, i)
    PROVE  Permits(last, th, op, f)
<1>1. PICK g \in FileModes : g = emuroot_grant_access(mo, th, op, i, f)
  BY GrantIs
<1>2. /\ f \in Mine /\ op # "openat2_w" /\ (op = "open_creat" => f \notin th)
      /\ (dac_for(op, i) = "PARENT_W" => Parent[f] \in Mine /\ Searchable(be, Parent[f]))
      /\ (dac_for(op, i) # "PARENT_W" => Searchable(be, f))
  BY DEF Amiss
<1>3. PICK d \in Files : d = Parent[f]
  BY FilesAssumption
<1>4. More(mo, last) /\ More(be, last)
  BY <1>1, GrantMore DEF More
<1>5. CASE op \in {"open_creat", "unlink", "rename"}
  <2>1. dac_for(op, i) = "PARENT_W"
    BY <1>5 DEF dac_for, Paths
  <2>2. Searchable(mo, d) /\ Searchable(last, d)
    BY <1>2, <1>3, <1>4, <2>1, SearchableMore
  <2>3. {"w", "x"} \subseteq g[d]
    BY <1>1, <1>2, <1>3, <2>1, <2>2, ParentGrant
  <2>4. {"w", "x"} \subseteq last[d]
    BY <1>1, <1>3, <2>3 DEF More
  <2>5. Searchable(last, f)
    <3>1. Above[f] \subseteq {d} \cup Above[d]
      BY <1>3, FilesAssumption
    <3> QED
      BY <2>2, <2>4, <3>1 DEF Searchable
  <2>6. f \in th => Has(last, f, Needs(op))
    BY <1>2, <1>5 DEF Has, Needs
  <2> QED
    BY <1>2, <1>3, <1>5, <2>1, <2>4, <2>5, <2>6 DEF Permits, Has
<1>6. CASE op \in {"open_r", "openat2", "open_w"}
  <2>1. dac_for(op, i) \in {"READ", "RW"} /\ (op = "open_w" => dac_for(op, i) = "RW")
    BY <1>6 DEF dac_for, Paths
  <2>2. Searchable(mo, f) /\ Searchable(last, f)
    BY <1>2, <1>4, <2>1, SearchableMore
  <2>3. last = g
    BY <1>1, <1>6
  <2>4. f \in th => "r" \in last[f] /\ (op = "open_w" => "w" \in last[f])
    BY <1>1, <1>2, <2>1, <2>2, <2>3, FileGrant
  <2>5. f \in th => Has(last, f, Needs(op))
    BY <1>2, <1>6, <2>4 DEF Has, Needs
  <2> QED
    BY <1>6, <2>2, <2>5 DEF Permits
<1>7. CASE op \in {"chmod", "connect"}
  <2>1. dac_for(op, i) = "NONE"
    BY <1>7 DEF dac_for
  <2>2. Searchable(last, f)
    BY <1>2, <1>4, <2>1, SearchableMore
  <2> QED
    BY <1>2, <1>7, <2>2 DEF Permits, Has, Needs
<1> QED
  BY <1>2, <1>5, <1>6, <1>7 DEF Ops

(* What the handler has made of argument i of any call, one that starts    *)
(* again too: the kernel finds the name as it was, if that is left to it,  *)
(* or its translation, and then the grant has been for that one.           *)
Translated(s) == IF LeftAlone(s) THEN s ELSE Translate[s]
Grant(mo, i, h) == IF fake_root THEN emuroot_grant_access(mo, there, call.op, i, h) ELSE mo
Names(t, u, i) ==
    /\ u.real[i] \in Mapped => Text(u.mem, u.real[i]) = Translated(Text(t.mem, t.real[i]))
    /\ u.real[i] \in Mapped /\ ~LeftAlone(Text(t.mem, t.real[i])) =>
           u.mode = Grant(t.mode, i, Translate[Text(t.mem, t.real[i])])
    /\ More(t.mode, u.mode) /\ u.regs = u.real /\ u.regs_mode = t.regs_mode

LEMMA ReplacedNames ==
    ASSUME NEW t \in Handler, NEW i \in 1 .. 2, NEW s \in Strings, NEW len \in 1 .. PATH_LEN,
           Size[s] <= len, t.regs_mode = "REGSET" => regset
    PROVE  LET u == Replaced(t, i, s, len)
           IN  /\ u.mode = t.mode /\ u.regs = u.real /\ u.regs_mode = t.regs_mode
               /\ u.real[i] \in Mapped => Text(u.mem, u.real[i]) = s
<1>1. PICK top \in Addr, m \in Memories : top = t.top /\ m = t.mem /\ t.method \in Methods
  BY DEF Handler
<1>2. PICK a \in Addr : a = emuroot_scratch(top, len) /\ (a # 0 => a + len <= top)
  BY ScratchIs, Depths
<1>3. PICK sent : sent = transfer(t.method, allowed, a, len)
  OBVIOUS
<1>4. /\ len \in Nat /\ sent.method \in Methods
      /\ sent.n = IF Reached(a, len) = 0 THEN -1 ELSE Reached(a, len)
  BY <1>1, <1>3, TransferIs, TransferReaches, SizesAssumption
<1>5. PICK w \in Memories : w = Written(m, a, s, len)
  BY <1>4, WrittenIs
<1>6. PICK u : u = [t EXCEPT !.top = a, !.method = sent.method, !.mem = w]
  OBVIOUS
<1>7. u \in Handler /\ u.mem = w /\ u.regs_mode = t.regs_mode /\ u.mode = t.mode
  BY <1>4, <1>6 DEF Handler
<1>8. Replaced(t, i, s, len) =
          CASE a = 0 -> fail_closed(t, i)
            [] a # 0 /\ sent.n = len -> regs_set([u EXCEPT !.regs[i] = a])
            [] a # 0 /\ sent.n # len -> fail_closed(u, i)
  BY <1>1, <1>2, <1>3, <1>5, <1>6 DEF Replaced
<1>9. 0 \in Addr /\ 0 \notin Mapped
  BY MappedIs
<1>10. CASE a = 0
  <2>1. PICK v : v = fail_closed(t, i)
    OBVIOUS
  <2>2. v.mode = t.mode /\ v.regs = v.real /\ v.regs_mode = t.regs_mode /\ v.real[i] = 0
    BY <1>9, <2>1, PutsReg DEF fail_closed
  <2> QED
    BY <1>8, <1>9, <1>10, <2>1, <2>2
<1>11. CASE a # 0 /\ sent.n # len
  <2>1. PICK v : v = fail_closed(u, i)
    OBVIOUS
  <2>2. v.mode = u.mode /\ v.regs = v.real /\ v.regs_mode = u.regs_mode /\ v.real[i] = 0
    BY <1>7, <1>9, <2>1, PutsReg DEF fail_closed
  <2> QED
    BY <1>7, <1>8, <1>9, <1>11, <2>1, <2>2
<1>12. CASE a # 0 /\ sent.n = len
  <2>1. PICK v : v = regs_set([u EXCEPT !.regs[i] = a])
    OBVIOUS
  <2>2. v.mode = u.mode /\ v.regs = v.real /\ v.regs_mode = u.regs_mode /\ v.real[i] = a /\ v.mem = w
    BY <1>7, <2>1, PutsReg
  <2>3. Reached(a, len) = len
    BY <1>4, <1>12
  <2>4. a + len < Space /\ a + Size[s] < Space
    <3>1. top < Space /\ top \in Nat /\ a \in Nat /\ Space \in Nat /\ Size[s] \in Nat
      BY WidthAssumption, StringsAssumption DEF Addr
    <3> QED
      BY <1>2, <1>4, <1>12, <3>1
  <2>5. Stands(w, a, s)
    BY <1>4, <1>5, <2>3, <2>4, WrittenStands
  <2>6. Text(w, a) = s
    BY <2>4, <2>5, StandsText
  <2> QED
    BY <1>7, <1>8, <1>12, <2>1, <2>2, <2>6
<1> QED
  BY <1>10, <1>11, <1>12

LEMMA ArgNames ==
    ASSUME NEW t \in Handler, NEW i \in 1 .. 2, t.regs = t.real, t.regs_mode = "REGSET" => regset
    PROVE  Names(t, rewrite_path_arg(t, i), i)
<1>1. t.mem \in Memories /\ t.method \in Methods /\ t.mode \in FileModes
  BY DEF Handler
<1>2. PICK p \in Addr : p = t.regs[i] /\ p = t.real[i]
  BY DEF Handler
<1>3. PICK read : read = transfer(t.method, allowed, p, 1)
  OBVIOUS
<1>4. read.method \in Methods /\ read.n = IF p \in Mapped THEN 1 ELSE -1
  <2>1. read.n = IF Reached(p, 1) = 0 THEN -1 ELSE Reached(p, 1)
    BY <1>1, <1>3, TransferReaches
  <2>2. Reached(p, 1) = IF p \in Mapped THEN 1 ELSE 0
    BY OneReached
  <2> QED
    BY <1>1, <1>3, <2>1, <2>2, TransferIs
<1>5. PICK seen : seen = [t EXCEPT !.method = read.method]
  OBVIOUS
<1>6. /\ seen \in Handler /\ seen.mem = t.mem /\ seen.mode = t.mode
      /\ seen.regs = t.regs /\ seen.real = t.real /\ seen.regs_mode = t.regs_mode
  BY <1>4, <1>5 DEF Handler
<1>7. PICK given \in Strings : given = Text(t.mem, p)
  BY <1>1, TextIs
<1>8. PICK host \in Strings : host = Translate[given] /\ Size[host] \in 1 .. PATH_LEN
  BY SizeIs
<1>9. PICK g : g = emuroot_grant_access(seen.mode, there, call.op, i, host)
  OBVIOUS
<1>10. g \in FileModes /\ More(t.mode, g)
  BY <1>1, <1>6, <1>9, GrantIs, GrantMore
<1>11. PICK granted : granted = IF fake_root THEN [seen EXCEPT !.mode = g] ELSE seen
  OBVIOUS
<1>12. /\ granted \in Handler /\ granted.mem = t.mem
       /\ granted.regs = t.regs /\ granted.real = t.real /\ granted.regs_mode = t.regs_mode
       /\ granted.mode = Grant(t.mode, i, host) /\ More(t.mode, granted.mode)
  <2>1. CASE fake_root
    BY <1>6, <1>9, <1>10, <1>11, <2>1 DEF Handler, Grant
  <2>2. CASE ~fake_root
    BY <1>6, <1>11, <2>2 DEF Grant, More
  <2> QED
    BY <2>1, <2>2
<1>13. rewrite_path_arg(t, i) =
         CASE p = 0 -> t
           [] p # 0 /\ read.n < 0 ->
                  IF read.errno = "EFAULT" THEN seen ELSE fail_closed(seen, i)
           [] p # 0 /\ read.n >= 0 /\ LeftAlone(given) -> seen
           [] OTHER -> IF host = given THEN granted
                       ELSE Replaced(granted, i, host, Size[host])
  <2>1. (IF fake_root
         THEN [seen EXCEPT !.mode = emuroot_grant_access(@, there, call.op, i, host)]
         ELSE seen) = granted
    BY <1>6, <1>9, <1>11 DEF Handler
  <2> QED
    BY <1>2, <1>3, <1>5, <1>7, <1>8, <2>1 DEF rewrite_path_arg
<1>14. 0 \notin Mapped /\ 0 \in Addr
  BY MappedIs
<1>15. CASE p = 0
  <2>1. rewrite_path_arg(t, i) = t
    BY <1>13, <1>15
  <2> QED
    BY <1>2, <1>14, <1>15, <2>1 DEF Names, More
<1>16. CASE p # 0 /\ p \notin Mapped
  <2>1. rewrite_path_arg(t, i) = seen \/ rewrite_path_arg(t, i) = fail_closed(seen, i)
    BY <1>4, <1>13, <1>16
  <2>2. PICK v : v = fail_closed(seen, i)
    OBVIOUS
  <2>3. v.mode = seen.mode /\ v.regs = v.real /\ v.regs_mode = seen.regs_mode /\ v.real[i] = 0
    BY <1>6, <1>14, <2>2, PutsReg DEF fail_closed
  <2>4. Names(t, v, i)
    BY <1>6, <1>14, <2>3 DEF Names, More
  <2>5. Names(t, seen, i)
    BY <1>2, <1>6, <1>16 DEF Names, More
  <2> QED
    BY <2>1, <2>2, <2>4, <2>5
<1>17. CASE p # 0 /\ p \in Mapped /\ LeftAlone(given)
  <2>1. rewrite_path_arg(t, i) = seen
    BY <1>4, <1>13, <1>17
  <2> QED
    BY <1>2, <1>6, <1>7, <1>17, <2>1 DEF Names, More, Translated
<1>18. CASE p # 0 /\ p \in Mapped /\ ~LeftAlone(given) /\ host = given
  <2>1. rewrite_path_arg(t, i) = granted
    BY <1>4, <1>13, <1>18
  <2> QED
    BY <1>2, <1>7, <1>8, <1>12, <1>18, <2>1 DEF Names, Translated
<1>19. CASE p # 0 /\ p \in Mapped /\ ~LeftAlone(given) /\ host # given
  <2>1. rewrite_path_arg(t, i) = Replaced(granted, i, host, Size[host])
    BY <1>4, <1>13, <1>19
  <2>2. PICK len \in 1 .. PATH_LEN : len = Size[host] /\ Size[host] <= len
    BY <1>8, SizesAssumption
  <2>3. PICK v : v = Replaced(granted, i, host, len)
    OBVIOUS
  <2>4. v.mode = granted.mode /\ v.regs = v.real /\ v.regs_mode = granted.regs_mode
        /\ (v.real[i] \in Mapped => Text(v.mem, v.real[i]) = host)
    BY <1>12, <2>2, <2>3, ReplacedNames
  <2>5. Names(t, v, i)
    BY <1>2, <1>7, <1>8, <1>12, <1>19, <2>4 DEF Names, Translated
  <2> QED
    BY <2>1, <2>2, <2>3, <2>5
<1> QED
  BY <1>15, <1>16, <1>17, <1>18, <1>19

(* The kernel's finding nothing to refuse in argument i, or a reason. *)
FileAt(r, m, i) == FileOf(IF r[i] \in Mapped THEN Text(m, r[i]) ELSE Fault)
GrantedAt(r, m, mo, i) ==
    \/ FileAt(r, m, i) \notin Files
    \/ Permits(mo, there, call.op, FileAt(r, m, i))
    \/ Amiss(before, there, call.op, FileAt(r, m, i), i)
    \/ LeftAlone(Text(Home, call.ptr[i]))

LEMMA NameGranted ==
    ASSUME fake_root, call.op \in Ops \ {"getcwd"}, NEW i \in Paths(call.op),
           NEW s \in Strings, NEW mo \in FileModes, NEW last \in FileModes, NEW r, NEW m,
           Folders \subseteq there, before \in FileModes, More(before, mo),
           r[i] \in Mapped => Text(m, r[i]) = Translated(s),
           LeftAlone(s) => LeftAlone(Text(Home, call.ptr[i])) \/ FileOf(s) \notin Files,
           r[i] \in Mapped /\ ~LeftAlone(s) => More(Grant(mo, i, Translate[s]), last),
           r[i] \in Mapped /\ ~LeftAlone(s) /\ call.op # "rename" => last = Grant(mo, i, Translate[s])
    PROVE  GrantedAt(r, m, last, i)
<1>1. /\ Translate[s] \in Strings /\ Translate[s] \notin Relative /\ Relative \subseteq Strings
      /\ Files \subseteq Strings /\ Fault \notin Strings
  BY ProgramAssumption, NamesAssumption
<1>2. CASE r[i] \notin Mapped
  <2>1. FileAt(r, m, i) = Fault
    BY <1>1, <1>2 DEF FileAt, FileOf
  <2> QED
    BY <1>1, <2>1 DEF GrantedAt
<1>3. CASE r[i] \in Mapped /\ LeftAlone(s)
  <2>1. FileAt(r, m, i) = FileOf(s)
    BY <1>3 DEF FileAt, Translated
  <2> QED
    BY <1>3, <2>1 DEF GrantedAt
<1>4. CASE r[i] \in Mapped /\ ~LeftAlone(s)
  <2>1. PICK f : f = FileAt(r, m, i)
    OBVIOUS
  <2>2. f = Translate[s]
    BY <1>1, <1>4, <2>1 DEF FileAt, Translated, FileOf
  <2>3. PICK op : op = call.op
    OBVIOUS
  <2>4. /\ More(emuroot_grant_access(mo, there, op, i, f), last)
        /\ op # "rename" => last = emuroot_grant_access(mo, there, op, i, f)
    BY <1>4, <2>2, <2>3 DEF Grant
  <2>5. PICK be \in FileModes : be = before /\ More(be, mo)
    OBVIOUS
  <2>6. f \in Files /\ ~Amiss(be, there, op, f, i) => Permits(last, there, op, f)
    BY <2>3, <2>4, <2>5, GrantSuffices
  <2> QED
    BY <2>1, <2>3, <2>5, <2>6 DEF GrantedAt
<1> QED
  BY <1>2, <1>3, <1>4

(* connect needs no bits of the file. *)
LEMMA ConnectGranted ==
    ASSUME call.op = "connect", NEW r, NEW m, NEW mo \in FileModes, NEW i,
           before \in FileModes, More(before, mo)
    PROVE  GrantedAt(r, m, mo, i)
<1>1. PICK f : f = FileAt(r, m, i)
  OBVIOUS
<1>2. dac_for("connect", i) = "NONE"
  BY DEF dac_for
<1>3. PICK be \in FileModes : be = before /\ More(be, mo)
  OBVIOUS
<1>4. f \in Files /\ Searchable(be, f) => Searchable(mo, f)
  BY <1>3, SearchableMore
<1>5. f \in Files /\ ~Amiss(be, there, "connect", f, i) => Permits(mo, there, "connect", f)
  BY <1>2, <1>4 DEF Amiss, Permits, Has, Needs
<1> QED
  BY <1>1, <1>3, <1>5 DEF GrantedAt

(* The fake root's files between calls; and how far a refusal goes.  Until *)
(* the kernel has done with a call it has lost no bit.                     *)
Underway == {"entry", "kernel", "interrupted"}
Open ==
    /\ Folders \subseteq there
    /\ first # Never => call.op \in {"open_r", "connect"}
    /\ ret = "EACCES" => at = "exit"
    /\ at \in Underway => More(before, mode)
Granted == at = "kernel" /\ fake_root => \A i \in Paths(call.op) : GrantedAt(regs, mem, mode, i)
GInv == Open /\ Granted /\ RootNotRefused

(* The entry stop takes no bit away. *)
LEMMA EntryMore ==
    ASSUME TInv, Entry
    PROVE  More(mode, mode')
<1>1. /\ regs \in Addr \X Addr /\ mem \in Memories /\ method \in Methods /\ mode \in FileModes
      /\ call \in Requests /\ at = "entry"
  BY DEF TInv, TypeOK, InCall, Memories, FileModes, Entry
<1>2. PICK sp \in SPs : sp = call.sp /\ sp \in Addr
  BY <1>1, RequestIs
<1>3. PICK top \in Addr : top = ScratchTop(sp) /\ Below(sp, top, Margin)
  BY <1>2, TopBelow
<1>4. PICK rm \in RegsModes : rm = regs_get(regs_mode) /\ (rm = "REGSET" => regset)
  BY DEF regs_get, RegsModes
<1>5. PICK t0 : t0 = [regs |-> regs, real |-> regs, top |-> top, mem |-> mem,
                      method |-> method, mode |-> mode, regs_mode |-> rm]
  OBVIOUS
<1>6. /\ t0 \in Handler /\ t0.mem = mem /\ t0.top = top /\ t0.real = regs /\ t0.regs = t0.real
      /\ t0.regs_mode = rm /\ t0.mode = mode /\ t0.method = method
  BY <1>1, <1>5 DEF Handler
<1>7. PICK t : t = emuroot_on_entry(t0)
  OBVIOUS
<1>8. mode' = t.mode
  BY <1>2, <1>3, <1>4, <1>5, <1>7 DEF Entry
<1>9. SUFFICES More(t0.mode, t.mode)
  BY <1>6, <1>8
<1>10. PICK one \in 1 .. 2, two \in 1 .. 2 : one = 1 /\ two = 2
  OBVIOUS
<1>11. PICK u : u = rewrite_path_arg(t0, one)
  OBVIOUS
<1>12. More(t0.mode, u.mode)
  BY <1>4, <1>6, <1>11, ArgNames DEF Names
<1>13. CASE call.op = "connect"
  <2>1. PICK given \in Strings : given = Text(mem, regs[1])
    BY <1>1, TextIs
  <2>2. PICK host \in Strings : host = Translate[given]
    BY SizeIs
  <2>3. PICK read : read = transfer(method, allowed, regs[1], Size[given])
    OBVIOUS
  <2>4. PICK seen : seen = [t0 EXCEPT !.method = read.method]
    OBVIOUS
  <2>5. seen \in Handler /\ seen.mode = t0.mode /\ seen.regs_mode = t0.regs_mode
    BY <1>1, <1>6, <2>3, <2>4, TransferIs DEF Handler
  <2>6. t = CASE regs[1] = 0 -> t0
              [] regs[1] # 0 /\ read.n # Size[given] -> seen
              [] regs[1] # 0 /\ read.n = Size[given] ->
                    IF \/ given \in Relative \cup {Empty, Garbage}
                       \/ host = given \/ Size[host] > SUN_PATH
                    THEN seen ELSE Replaced(seen, 1, host, SUN_SIZE)
    BY <1>6, <1>7, <1>13, <2>1, <2>2, <2>3, <2>4 DEF emuroot_on_entry, rewrite_sockaddr
  <2>7. Size[host] <= SUN_PATH => Replaced(seen, 1, host, SUN_SIZE).mode = seen.mode
    <3>1. PICK len \in 1 .. PATH_LEN : len = SUN_SIZE
      BY SizesAssumption
    <3>2. Size[host] <= SUN_PATH => Size[host] <= len
      BY <3>1, SizesAssumption, StringsAssumption
    <3>3. Size[host] <= len => Replaced(seen, one, host, len).mode = seen.mode
      BY <1>4, <1>6, <2>5, ReplacedNames
    <3> QED
      BY <1>10, <3>1, <3>2, <3>3
  <2>8. Size[host] \in Int /\ SUN_PATH \in Int
    BY SizesAssumption, StringsAssumption
  <2>9. t.mode = t0.mode
    BY <2>5, <2>6, <2>7, <2>8
  <2> QED
    BY <2>9 DEF More
<1>14. CASE call.op = "getcwd"
  BY <1>7, <1>14 DEF emuroot_on_entry, More
<1>15. CASE call.op \notin {"connect", "getcwd", "rename"}
  BY <1>7, <1>10, <1>11, <1>12, <1>15 DEF emuroot_on_entry
<1>16. CASE call.op = "rename"
  <2>1. t = rewrite_path_arg(u, two)
    BY <1>7, <1>10, <1>11, <1>16 DEF emuroot_on_entry
  <2>2. u \in Handler
    <3>1. PICK m : m = mem
      OBVIOUS
    <3>2. Fine(t0, sp, m, Margin)
      BY <1>3, <1>6, <3>1 DEF Fine, Kept
    <3>3. Margin \in Nat /\ Margin + Slot <= Reach
      BY Depths
    <3> QED
      BY <1>11, <3>2, <3>3, ArgFine DEF Fine
  <2>3. More(u.mode, t.mode)
    <3>1. u.regs = u.real /\ (u.regs_mode = "REGSET" => regset)
      BY <1>4, <1>6, <1>11, ArgNames DEF Names
    <3> QED
      BY <2>1, <2>2, <3>1, ArgNames DEF Names
  <2> QED
    BY <1>12, <2>3 DEF More
<1> QED
  BY <1>13, <1>14, <1>15, <1>16

LEMMA EntryGranted ==
    ASSUME TInv, Fresh, Open, Entry, fake_root
    PROVE  \A i \in Paths(call.op) : GrantedAt(regs', mem', mode', i)
<1>1. /\ regs \in Addr \X Addr /\ mem \in Memories /\ method \in Methods /\ mode \in FileModes
      /\ call \in Requests /\ at = "entry"
  BY DEF TInv, TypeOK, InCall, Memories, FileModes, Entry
<1>2. PICK sp \in SPs : sp = call.sp /\ sp \in Addr
  BY <1>1, RequestIs
<1>3. PICK top \in Addr : top = ScratchTop(sp) /\ Below(sp, top, Margin)
  BY <1>2, TopBelow
<1>4. PICK rm \in RegsModes : rm = regs_get(regs_mode) /\ (rm = "REGSET" => regset)
  BY DEF regs_get, RegsModes
<1>5. PICK t0 : t0 = [regs |-> regs, real |-> regs, top |-> top, mem |-> mem,
                      method |-> method, mode |-> mode, regs_mode |-> rm]
  OBVIOUS
<1>6. /\ t0 \in Handler /\ t0.mem = mem /\ t0.top = top /\ t0.real = regs /\ t0.regs = t0.real
      /\ t0.regs_mode = rm /\ t0.mode = mode
  BY <1>1, <1>5 DEF Handler
<1>7. PICK t : t = emuroot_on_entry(t0)
  OBVIOUS
<1>8. regs' = t.real /\ mem' = t.mem /\ mode' = t.mode
  BY <1>2, <1>3, <1>4, <1>5, <1>7 DEF Entry
<1>9. SUFFICES \A i \in Paths(call.op) : GrantedAt(t.real, t.mem, t.mode, i)
  BY <1>8
<1>10. /\ before \in FileModes /\ Folders \subseteq there /\ More(before, mode)
       /\ (first # Never => call.op \in {"open_r", "connect"})
       /\ (first = Never => mem = Home /\ regs = call.ptr)
  BY <1>1 DEF Open, Underway, Fresh, TInv, TypeOK, FileModes
<1>11. PICK one \in 1 .. 2, two \in 1 .. 2 : one = 1 /\ two = 2
  OBVIOUS
<1>12. PICK u \in Handler : u = rewrite_path_arg(t0, one) /\ Fine(u, sp, mem, Margin + Slot)
  <2>1. /\ Margin \in Nat /\ Margin + Slot <= Reach
    BY Depths
  <2>2. PICK m : m = mem
    OBVIOUS
  <2>3. Fine(t0, sp, m, Margin)
    BY <1>3, <1>6, <2>2 DEF Fine, Kept
  <2>4. Fine(rewrite_path_arg(t0, one), sp, m, Margin + Slot)
    BY <2>1, <2>3, ArgFine
  <2> QED
    BY <2>2, <2>4 DEF Fine
<1>13. Names(t0, u, one)
  BY <1>4, <1>6, <1>12, ArgNames
<1>14. PICK s \in Strings : s = Text(mem, regs[1])
  BY <1>1, TextIs
<1>15. LeftAlone(s) => LeftAlone(Text(Home, call.ptr[1])) \/ FileOf(s) \notin Files
  <2>1. CASE first = Never
    BY <1>10, <1>14, <2>1
  <2>2. CASE first # Never /\ s = Empty
    BY <2>2, NamesAssumption DEF FileOf
  <2>3. CASE first # Never /\ s # Empty /\ call.op # "connect"
    <3>1. LeftAlone(s) => s \in Relative /\ call.outside
      BY <1>10, <2>3 DEF LeftAlone
    <3>2. s \in Relative /\ call.outside => FileOf(s) = s /\ s \notin Files
      BY NamesAssumption DEF FileOf
    <3> QED
      BY <3>1, <3>2
  <2>4. CASE first # Never /\ s # Empty /\ call.op = "connect"
    <3>1. LeftAlone(s) => s \in Relative /\ call.outside
      BY <2>4 DEF LeftAlone
    <3>2. s \in Relative /\ call.outside => FileOf(s) = s /\ s \notin Files
      BY NamesAssumption DEF FileOf
    <3> QED
      BY <3>1, <3>2
  <2> QED
    BY <2>1, <2>2, <2>3, <2>4
<1>16. /\ u.real[1] \in Mapped => Text(u.mem, u.real[1]) = Translated(s)
       /\ u.real[1] \in Mapped /\ ~LeftAlone(s) => u.mode = Grant(mode, 1, Translate[s])
       /\ More(mode, u.mode) /\ u.mode \in FileModes
  BY <1>6, <1>11, <1>13, <1>14 DEF Names, Handler
<1>17. CASE call.op = "connect"
  <2>1. More(mode, t.mode)
    BY <1>8, EntryMore
  <2>2. PICK last \in FileModes : last = t.mode
    BY <1>8, EntryIs
  <2>3. More(before, last)
    BY <1>10, <2>1, <2>2 DEF More
  <2>4. \A i : GrantedAt(t.real, t.mem, last, i)
    BY <1>10, <1>17, <2>3, ConnectGranted
  <2> QED
    BY <2>2, <2>4
<1>18. CASE call.op = "getcwd"
  BY <1>18 DEF Paths
<1>19. CASE call.op \notin {"connect", "getcwd", "rename"}
  <2>1. t = u /\ Paths(call.op) = {1} /\ call.op \in Ops \ {"getcwd"}
    BY <1>1, <1>7, <1>11, <1>12, <1>19, RequestIs DEF emuroot_on_entry, Paths
  <2>2. PICK mo \in FileModes, last \in FileModes, k \in Paths(call.op) :
            mo = mode /\ last = u.mode /\ k = 1
    <3>1. PICK mo \in FileModes, last \in FileModes : mo = mode /\ last = u.mode
      BY <1>1, <1>16, <2>1
    <3>2. PICK k \in Paths(call.op) : k = 1
      BY <2>1
    <3> QED
      BY <3>1, <3>2
  <2>3. u.real[k] \in Mapped => Text(u.mem, u.real[k]) = Translated(s)
    BY <1>16, <2>2
  <2>4. LeftAlone(s) => LeftAlone(Text(Home, call.ptr[k])) \/ FileOf(s) \notin Files
    BY <1>15, <2>2
  <2>5. u.real[k] \in Mapped /\ ~LeftAlone(s) =>
            More(Grant(mo, k, Translate[s]), last) /\ last = Grant(mo, k, Translate[s])
    BY <1>16, <2>2 DEF More
  <2>6. GrantedAt(u.real, u.mem, last, k)
    BY <1>10, <2>1, <2>2, <2>3, <2>4, <2>5, NameGranted
  <2> QED
    BY <2>1, <2>2, <2>6
<1>20. CASE call.op = "rename"
  <2>1. first = Never /\ mem = Home /\ regs = call.ptr
    BY <1>10, <1>20
  <2>2. /\ t = rewrite_path_arg(u, two) /\ Paths(call.op) = 1 .. 2 /\ call.op \in Ops \ {"getcwd"}
        /\ call.ptr[2] \in Pointers
    BY <1>1, <1>7, <1>11, <1>12, <1>20, PointersAre DEF emuroot_on_entry, Paths, Ops
  <2>3. \A i \in 1 .. 2 : Found(t.real, t.mem, i)
    BY <1>8, <2>1, <2>2, EntryFound
  <2>4. u.regs = u.real /\ u.regs_mode = rm /\ u.real[2] = call.ptr[2]
    <3>1. Fine(t0, sp, Home, Margin)
      BY <1>3, <1>6, <2>1 DEF Fine, Kept
    <3>2. Ready(t0, one, call.sp, Margin)
      BY <1>2, <1>4, <1>6, <2>1, <3>1 DEF Ready
    <3>3. Outcome(t0, u, one)
      <4>1. call.ptr[one] \in Pointers
        BY <1>1, <1>11, <1>20, PointersAre
      <4> QED
        BY <1>2, <1>12, <1>20, <3>2, <4>1, Depths, ArgOutcome
    <3> QED
      BY <1>6, <1>11, <2>1, <3>3 DEF Outcome
  <2>5. Names(u, t, two)
    BY <1>4, <2>2, <2>4, ArgNames
  <2>6. t.mode \in FileModes /\ More(u.mode, t.mode)
    <3>1. PICK d \in Nat : d = Margin + Slot /\ d + Slot <= Reach
      BY Depths
    <3>2. Fine(rewrite_path_arg(u, two), sp, Home, d + Slot)
      BY <1>12, <2>1, <3>1, ArgFine
    <3> QED
      BY <2>2, <2>5, <3>2 DEF Fine, Handler, Names
  <2>7. GrantedAt(t.real, t.mem, t.mode, 1)
    <3>1. PICK mo \in FileModes, last \in FileModes, k \in Paths(call.op) :
              mo = mode /\ last = t.mode /\ k = 1
      <4>1. PICK mo \in FileModes, last \in FileModes : mo = mode /\ last = t.mode
        BY <1>1, <2>2, <2>6
      <4>2. PICK k \in Paths(call.op) : k = 1
        BY <2>2
      <4> QED
        BY <4>1, <4>2
    <3>2. t.real[k] = u.real[1]
      <4>1. PICK d \in Nat : d = Margin + Slot /\ d + Slot <= Reach
        BY Depths
      <4>2. Ready(u, two, call.sp, d)
        BY <1>2, <1>4, <1>11, <1>12, <2>1, <2>4, <4>1 DEF Ready
      <4>3. call.ptr[two] \in Pointers /\ call.op # "connect"
        BY <1>11, <1>20, <2>2
      <4>4. Outcome(u, t, two)
        BY <1>2, <2>2, <4>1, <4>2, <4>3, ArgOutcome
      <4> QED
        BY <1>11, <3>1, <4>4 DEF Outcome
    <3>3. Meant(1) = Translated(s)
      BY <1>14, <1>20, <2>1 DEF Meant, Translated
    <3>4. t.real[k] \in Mapped => Text(t.mem, t.real[k]) = Translated(s)
      BY <2>3, <3>1, <3>3 DEF Found
    <3>5. LeftAlone(s) => LeftAlone(Text(Home, call.ptr[k])) \/ FileOf(s) \notin Files
      BY <1>15, <3>1
    <3>6. t.real[k] \in Mapped /\ ~LeftAlone(s) => More(Grant(mo, k, Translate[s]), last)
      BY <1>16, <2>6, <3>1, <3>2
    <3>7. GrantedAt(t.real, t.mem, last, k)
      BY <1>10, <1>20, <2>2, <3>1, <3>4, <3>5, <3>6, NameGranted
    <3> QED
      BY <3>1, <3>7
  <2>8. GrantedAt(t.real, t.mem, t.mode, 2)
    <3>1. PICK mo \in FileModes, last \in FileModes, k \in Paths(call.op) :
              mo = u.mode /\ last = t.mode /\ k = 2
      <4>1. PICK mo \in FileModes, last \in FileModes : mo = u.mode /\ last = t.mode
        BY <1>16, <2>2, <2>6
      <4>2. PICK k \in Paths(call.op) : k = 2
        BY <2>2
      <4> QED
        BY <4>1, <4>2
    <3>2. PICK v \in Strings : v = Text(u.mem, u.real[2]) /\ v = Text(Home, call.ptr[2])
      <4>1. PICK p \in Pointers, n \in Memories : p = call.ptr[2] /\ n = u.mem
        BY <2>2 DEF Handler
      <4>2. Text(n, p) = Text(Home, p)
        BY <1>12, <2>1, <4>1, PointerText DEF Fine
      <4>3. Text(n, p) \in Strings
        BY TextIs
      <4> QED
        BY <2>4, <4>1, <4>2, <4>3
    <3>3. t.real[k] \in Mapped => Text(t.mem, t.real[k]) = Translated(v)
      BY <1>11, <2>5, <3>1, <3>2 DEF Names
    <3>4. t.real[k] \in Mapped /\ ~LeftAlone(v) => last = Grant(mo, k, Translate[v])
      BY <1>11, <2>5, <3>1, <3>2 DEF Names
    <3>5. t.real[k] \in Mapped /\ ~LeftAlone(v) => More(Grant(mo, k, Translate[v]), last)
      BY <3>4 DEF More
    <3>6. LeftAlone(v) => LeftAlone(Text(Home, call.ptr[k])) \/ FileOf(v) \notin Files
      BY <3>1, <3>2
    <3>7. More(before, mo)
      BY <1>10, <1>16, <3>1 DEF More
    <3>8. GrantedAt(t.real, t.mem, last, k)
      BY <1>10, <2>2, <3>1, <3>3, <3>4, <3>5, <3>6, <3>7, NameGranted
    <3> QED
      BY <3>1, <3>8
  <2> QED
    BY <2>2, <2>7, <2>8
<1> QED
  BY <1>17, <1>18, <1>19, <1>20

(* No call removes a directory: they are not unlinked, nor renamed. *)
LEMMA SucceedsOpen ==
    ASSUME Open, Succeeds
    PROVE  Folders \subseteq there'
<1>1. Folders \subseteq there
  BY DEF Open
<1>2. PICK f, g : f = FileOf(Resolved[1]) /\ g = FileOf(Resolved[2])
  OBVIOUS
<1>3. CASE there' = there
  BY <1>1, <1>3
<1>4. CASE there' # there
  <2>1. PICK new \in BOOLEAN : new = (call.op = "open_creat" /\ f \notin there)
    OBVIOUS
  <2>2. /\ f \notin Folders \/ call.op \in {"open_r", "openat2", "chmod"}
        /\ there' = CASE new -> there \cup {f}
                      [] call.op = "unlink" -> there \ {f}
                      [] call.op = "rename" -> (there \ {f}) \cup {g}
                      [] OTHER -> there
    BY <1>2, <1>4, <2>1 DEF Succeeds, files
  <2> QED
    BY <1>1, <1>4, <2>1, <2>2
<1> QED
  BY <1>3, <1>4

(* A refusal has its reason. *)
Reason == \E i \in Paths(call.op) :
    /\ ~Permits(mode, there, call.op, FileOf(Resolved[i]))
    /\ Excused(FileOf(Resolved[i]), i)

LEMMA RefusedReason ==
    ASSUME Granted, Refused, fake_root
    PROVE  Reason
<1>1. at = "kernel" /\ Named \subseteq Files
  BY DEF Refused, Returns
<1>2. PICK i \in Paths(call.op) : ~Permits(mode, there, call.op, FileOf(Resolved[i]))
  BY DEF Refused, Named
<1>3. PICK f \in Files : f = FileOf(Resolved[i])
  BY <1>1, NamedIs
<1>4. f = FileAt(regs, mem, i)
  BY <1>3 DEF FileAt, Resolved
<1>5. GrantedAt(regs, mem, mode, i)
  BY <1>1 DEF Granted
<1>6. Amiss(before, there, call.op, f, i) \/ LeftAlone(Text(Home, call.ptr[i]))
  BY <1>2, <1>3, <1>4, <1>5 DEF GrantedAt
<1>7. Excused(f, i)
  BY <1>6 DEF Amiss, Excused
<1> QED
  BY <1>2, <1>3, <1>7 DEF Reason

LEMMA NextGInv == TInv /\ RInv /\ GInv /\ [Next]_vars => GInv'
<1> SUFFICES ASSUME TInv, RInv, GInv, [Next]_vars PROVE GInv'
  OBVIOUS
<1>1. /\ Open /\ Granted /\ Fresh /\ Redirected /\ (fake_root /\ ret = "EACCES" => Reason)
      /\ fake_root \in BOOLEAN
  BY ProgramAssumption DEF GInv, RInv, RootNotRefused, Reason
<1>2. at' # "kernel" => Granted'
  BY DEF Granted
<1>3. ret' # "EACCES" => RootNotRefused'
  BY DEF RootNotRefused
<1>4. ret' = ret /\ at # "exit" => RootNotRefused'
  BY <1>1, <1>3 DEF Open
<1>5. Reason /\ call' = call /\ regs' = regs /\ mem' = mem /\ mode' = mode /\ there' = there
      /\ before' = before => RootNotRefused'
  BY DEF Reason, RootNotRefused, Resolved, FileOf, Excused, LeftAlone
<1>6. CASE UNCHANGED vars
  <2>1. Open'
    BY <1>1, <1>6 DEF vars, Open
  <2>2. Granted'
    BY <1>1, <1>6 DEF vars, Granted, GrantedAt, FileAt, FileOf, LeftAlone
  <2>3. RootNotRefused'
    <3>1. CASE fake_root /\ ret = "EACCES"
      BY <1>1, <1>5, <1>6, <3>1 DEF vars
    <3>2. CASE ~(fake_root /\ ret = "EACCES")
      BY <1>6, <3>2 DEF vars, RootNotRefused
    <3> QED
      BY <3>1, <3>2
  <2> QED
    BY <2>1, <2>2, <2>3 DEF GInv
<1>7. ASSUME NEW c \in Requests, Call(c) PROVE GInv'
  <2>1. at = "user" /\ at' = "entry" /\ ret' = ret /\ first' = first /\ mode' = mode /\ there' = there
    BY <1>7 DEF Call, files
  <2>2. before' = mode
    BY <1>7 DEF Call
  <2>3. More(before', mode')
    BY <2>1, <2>2 DEF More
  <2>4. Open'
    BY <1>1, <2>1, <2>3 DEF Open, Fresh
  <2> QED
    BY <1>2, <1>4, <2>1, <2>4 DEF GInv
<1>8. CASE Entry
  <2>1. /\ at = "entry" /\ at' = "kernel" /\ ret' = ret /\ first' = first /\ there' = there
        /\ call' = call /\ before' = before
    BY <1>8 DEF Entry
  <2>2. More(mode, mode')
    BY <1>8, EntryMore
  <2>3. More(before, mode)
    BY <1>1, <2>1 DEF Open, Underway
  <2>4. More(before', mode')
    BY <2>1, <2>2, <2>3 DEF More
  <2>5. Open'
    BY <1>1, <2>1, <2>4 DEF Open
  <2>6. PICK r, m, mo : r = regs' /\ m = mem' /\ mo = mode'
    OBVIOUS
  <2>7. fake_root => \A i \in Paths(call.op) : GrantedAt(r, m, mo, i)
    BY <1>1, <1>8, <2>6, EntryGranted
  <2>8. Granted'
    BY <2>1, <2>6, <2>7 DEF Granted, GrantedAt, FileAt, FileOf, LeftAlone
  <2> QED
    BY <1>4, <2>1, <2>5, <2>8 DEF GInv
<1>9. CASE Faults \/ NotAFile \/ Getcwd
  <2>1. /\ at' = "exit" /\ ret' # "EACCES" /\ mode' = mode /\ there' = there /\ first' = first
        /\ call' = call
    BY <1>9 DEF Faults, NotAFile, Getcwd, Returns, Stays, files
  <2>2. Open'
    BY <1>1, <2>1 DEF Open, Underway, More
  <2> QED
    BY <1>2, <1>3, <2>1, <2>2 DEF GInv
<1>10. CASE Refused
  <2>1. /\ at' = "exit" /\ mode' = mode /\ there' = there /\ first' = first
        /\ call' = call /\ regs' = regs /\ mem' = mem /\ before' = before
    BY <1>10 DEF Refused, Returns, Stays, files
  <2>2. Open'
    BY <1>1, <2>1 DEF Open, Underway, More
  <2>3. CASE fake_root
    <3>1. Reason
      BY <1>1, <1>10, <2>3, RefusedReason
    <3> QED
      BY <1>2, <1>5, <2>1, <2>2, <3>1 DEF GInv
  <2>4. CASE ~fake_root
    <3>1. RootNotRefused'
      BY <2>4 DEF RootNotRefused
    <3> QED
      BY <1>2, <2>1, <2>2, <3>1 DEF GInv
  <2> QED
    BY <2>3, <2>4
<1>11. CASE Succeeds
  <2>1. at' = "exit" /\ first' = first /\ call' = call /\ ret' # "EACCES"
    BY <1>11 DEF Succeeds, Returns, Stays
  <2>2. Folders \subseteq there'
    BY <1>1, <1>11, SucceedsOpen
  <2>3. Open'
    BY <1>1, <2>1, <2>2 DEF Open, Underway
  <2> QED
    BY <1>2, <1>3, <2>1, <2>3 DEF GInv
<1>12. CASE OnExit
  <2>1. /\ at' = "answered" /\ ret' # "EACCES" /\ mode' = mode /\ there' = there /\ first' = first
        /\ call' = call
    BY <1>12 DEF OnExit, files
  <2>2. Open'
    BY <1>1, <2>1 DEF Open, Underway, More
  <2> QED
    BY <1>2, <1>3, <2>1, <2>2 DEF GInv
<1>13. CASE Interrupted
  <2>1. /\ at = "kernel" /\ at' = "interrupted" /\ ret' = ret /\ mode' = mode /\ there' = there
        /\ call' = call /\ call.op \in {"open_r", "connect"} /\ before' = before
    BY <1>13 DEF Interrupted, files
  <2>2. Open'
    BY <1>1, <2>1 DEF Open, Underway, More
  <2> QED
    BY <1>2, <1>4, <2>1, <2>2 DEF GInv
<1>14. CASE Restart
  <2>1. /\ at = "interrupted" /\ at' = "entry" /\ ret' = ret /\ mode' = mode /\ there' = there
        /\ call' = call /\ first' = first /\ before' = before
    BY <1>14 DEF Restart, files
  <2>2. Open'
    BY <1>1, <2>1 DEF Open, Underway, More
  <2> QED
    BY <1>2, <1>4, <2>1, <2>2 DEF GInv
<1>15. CASE Exit
  <2>1. /\ at' = "user" /\ ret' = "none" /\ mode' = mode /\ there' = there /\ first' = Never
    BY <1>15 DEF Exit, files
  <2>2. Open'
    BY <1>1, <2>1 DEF Open, Underway, More
  <2> QED
    BY <1>2, <1>3, <2>1, <2>2 DEF GInv
<1>16. CASE DomainChange
  <2>1. /\ at = "user" /\ at' = at /\ ret' = ret /\ mode' = mode /\ there' = there
        /\ call' = call /\ first' = first
    BY <1>16 DEF DomainChange, files
  <2>2. Open'
    BY <1>1, <2>1 DEF Open, Underway, More
  <2> QED
    BY <1>2, <1>4, <2>1, <2>2 DEF GInv
<1> QED
  BY <1>6, <1>7, <1>8, <1>9, <1>10, <1>11, <1>12, <1>13, <1>14, <1>15, <1>16 DEF Next

(* The fake root is refused nothing of the user's that dac.c provides for  *)
(* (dac.c:12), after any sequence of calls and at any depth: chmod may     *)
(* have left the bits as it likes, and the grant of a rename's second      *)
(* argument keeps that of the first.  Excused says what dac.c does not     *)
(* provide for, a directory further up that cannot be searched first.      *)
THEOREM RootServed == Spec => []RootNotRefused
<1>1. Init => RInv /\ GInv
  <2> SUFFICES ASSUME Init PROVE RInv /\ GInv
    OBVIOUS
  <2>1. RInv
    BY DEF Init, RInv, Fresh, Redirected
  <2>2. Folders \subseteq there
    BY FilesAssumption, ProgramAssumption DEF Init
  <2>3. at = "user" /\ first = Never /\ ret = "none"
    BY DEF Init
  <2>4. GInv
    BY <2>2, <2>3 DEF GInv, Open, Underway, Granted, RootNotRefused
  <2> QED
    BY <2>1, <2>4
<1>2. TInv /\ RInv /\ [Next]_vars => RInv'
  BY NextRInv
<1>3. TInv /\ RInv /\ GInv /\ [Next]_vars => GInv'
  BY NextGInv
<1>4. GInv => RootNotRefused
  BY DEF GInv
<1> QED
  BY <1>1, <1>2, <1>3, <1>4, AlwaysTInv, PTL DEF Spec
=============================================================================
