------------------------- MODULE OwnerTableProofs -------------------------
(* Proofs about the ownership database, for any files, any hash function   *)
(* and any size of the first table: open addressing loses nothing, its     *)
(* loop ends, and the table with its file implements the map of OwnerMap.  *)
EXTENDS OwnerTable, FiniteSetTheorems, WellFoundedInduction, TLAPS

-----------------------------------------------------------------------------
(* Arithmetic: a set of naturals has a least member; a probe sequence      *)
(* comes to every slot.                                                    *)
LEMMA Least ==
    ASSUME NEW T \in SUBSET Nat, T # {}
    PROVE  \E x \in T : \A y \in T : x <= y
<1> DEFINE R == {ss \in Nat \X Nat : ss[1] < ss[2]}
<1>1. IsWellFoundedOn(R, Nat)
  BY NatLessThanWellFounded DEF OpToRel
<1> HIDE DEF R
<1>2. PICK x \in T : \A y \in T : ~ (<<y, x>> \in R)
  BY <1>1, WFMin
<1>3. \A y \in T : ~ (y < x)
  BY <1>2 DEF R
<1> QED
  BY <1>3

LEMMA RemainderIs ==
    ASSUME NEW c \in Nat \ {0}, NEW q \in Int, NEW n \in 0..(c - 1)
    PROVE  (c * q + n) % c = n
<1> DEFINE x == c * q + n
           p == x \div c
           r == x % c
<1>1. x \in Int /\ p \in Int /\ r \in 0..(c - 1) /\ x = c * p + r
  OBVIOUS
<1> HIDE DEF p, r
<1>2. ~(p > q)
  <2>1. p > q => c * (p - q) >= c
    BY <1>1
  <2> QED
    BY <1>1, <2>1
<1>3. ~(p < q)
  <2>1. p < q => c * (q - p) >= c
    BY <1>1
  <2> QED
    BY <1>1, <2>1
<1>4. p = q
  BY <1>1, <1>2, <1>3
<1> QED
  BY <1>1, <1>4 DEF r

LEMMA ProbeReaches ==
    ASSUME NEW c \in Nat \ {0}, NEW f \in Files, NEW n \in 0..(c - 1)
    PROVE  \E d \in 0..(c - 1) : Probe(f, d, c) = n
<1> DEFINE h == Hash[f]
<1>1. h \in Nat
  BY HashAssumption
<1> HIDE DEF h
<1>2. PICK q \in Int, k \in 0..(c - 1) : h = c * q + k
  <2>1. h \div c \in Int /\ h % c \in 0..(c - 1) /\ h = c * (h \div c) + (h % c)
    BY <1>1
  <2> QED
    BY <2>1
<1>3. \E d \in 0..(c - 1) : (h + d) % c = n
  <2>1. CASE k <= n
    <3>1. h + (n - k) = c * q + n /\ n - k \in 0..(c - 1)
      BY <1>1, <1>2, <2>1
    <3>2. (c * q + n) % c = n
      BY RemainderIs
    <3> QED
      BY <3>1, <3>2
  <2>2. CASE k > n
    <3>1. h + (n + c - k) = c * (q + 1) + n /\ n + c - k \in 0..(c - 1)
      BY <1>1, <1>2, <2>2
    <3>2. (c * (q + 1) + n) % c = n
      BY RemainderIs
    <3> QED
      BY <3>1, <3>2
  <2> QED
    BY <2>1, <2>2
<1> QED
  BY <1>3 DEF Probe, h

LEMMA ProbeTyped ==
    ASSUME NEW c \in Nat \ {0}, NEW f \in Files, NEW d \in Nat
    PROVE  Probe(f, d, c) \in 0..(c - 1)
<1>1. Hash[f] + d \in Nat
  BY HashAssumption
<1> QED
  BY <1>1 DEF Probe

-----------------------------------------------------------------------------
(* find_slot, on a table with an unused slot.                              *)
Table(s, c) == c \in Nat /\ s \in [0..(c - 1) -> Entry \cup {Free}]
Room(s, c) == \E n \in 0..(c - 1) : s[n] = Free
Found(s, c) == \A n \in Used(s) : find_slot(s, c, s[n].file) = n
Entries(s) == {s[n] : n \in Used(s)}

First(s, c, f, d) ==
    /\ d \in 0..(c - 1) /\ Stops(s, c, f, d)
    /\ \A e \in 0..(d - 1) : ~Stops(s, c, f, e)

LEMMA CellFacts ==
    /\ Free \notin Entry /\ Free.file = NoFile /\ Free.owner = NoOwner
    /\ \A e \in Entry : e.file \in Files /\ e.owner \in Owners /\ e.file # NoFile
    /\ \A e \in Entry \cup {Free} : e.file = NoFile <=> e = Free
<1>1. Free.file = NoFile /\ Free.owner = NoOwner
  BY DEF Free
<1>2. \A e \in Entry : e.file \in Files /\ e.owner \in Owners /\ e.file # NoFile
  BY FreeAssumption DEF Entry
<1> QED
  BY <1>1, <1>2

LEMMA UsedFacts ==
    ASSUME NEW s, NEW c, Table(s, c)
    PROVE  /\ Used(s) = {n \in 0..(c - 1) : s[n] # Free}
           /\ \A n \in Used(s) : s[n] \in Entry
BY DEF Table, Used

LEMMA FirstUnique ==
    ASSUME NEW s, NEW c \in Nat, NEW f, NEW d, First(s, c, f, d)
    PROVE  find_slot(s, c, f) = Probe(f, d, c)
<1> DEFINE P(x) == Stops(s, c, f, x) /\ \A e \in 0..(x - 1) : ~Stops(s, c, f, e)
           D == CHOOSE x \in 0..(c - 1) : P(x)
<1>1. d \in 0..(c - 1) /\ P(d)
  BY DEF First
<1>2. D \in 0..(c - 1) /\ P(D)
  BY <1>1
<1>3. D = d
  <2>1. ~(D < d)
    BY <1>1, <1>2
  <2>2. ~(d < D)
    BY <1>1, <1>2
  <2> QED
    BY <1>1, <1>2, <2>1, <2>2
<1> QED
  BY <1>3 DEF find_slot

LEMMA FirstExists ==
    ASSUME NEW s, NEW c, Table(s, c), Room(s, c), NEW f \in Files
    PROVE  /\ c \in Nat \ {0} /\ find_slot(s, c, f) \in 0..(c - 1)
           /\ \E d : First(s, c, f, d) /\ find_slot(s, c, f) = Probe(f, d, c)
<1> DEFINE T == {d \in 0..(c - 1) : Stops(s, c, f, d)}
<1>1. c \in Nat \ {0}
  BY DEF Table, Room
<1>2. T # {}
  <2>1. PICK n \in 0..(c - 1) : s[n] = Free
    BY DEF Room
  <2>2. PICK d \in 0..(c - 1) : Probe(f, d, c) = n
    BY <1>1, ProbeReaches
  <2> QED
    BY <2>1, <2>2, CellFacts DEF Stops
<1>3. PICK d \in T : \A y \in T : d <= y
  <2>1. T \in SUBSET Nat
    BY <1>1
  <2> QED
    BY <1>2, <2>1, Least
<1>4. First(s, c, f, d)
  BY <1>1, <1>3 DEF First
<1>5. find_slot(s, c, f) = Probe(f, d, c) /\ Probe(f, d, c) \in 0..(c - 1)
  BY <1>1, <1>4, FirstUnique, ProbeTyped
<1> QED
  BY <1>1, <1>4, <1>5

(* The slot that is found is unused or holds the file; an entry's own      *)
(* slot is the only one with its file.                                     *)
LEMMA FoundSlot ==
    ASSUME NEW s, NEW c, Table(s, c), Room(s, c), NEW f \in Files
    PROVE  LET n == find_slot(s, c, f)
           IN  n \in 0..(c - 1) /\ s[n] \in Entry \cup {Free} /\ s[n].file \in {f, NoFile}
BY FirstExists DEF First, Stops, Table

LEMMA OneSlotPerFile ==
    ASSUME NEW s, NEW c, Found(s, c), NEW m \in Used(s), NEW n \in Used(s),
           s[m].file = s[n].file
    PROVE  m = n
<1>1. find_slot(s, c, s[m].file) = m /\ find_slot(s, c, s[n].file) = n
  BY DEF Found
<1> QED
  BY <1>1

(* A lookup answers the owner in the file's entry, and none if there is    *)
(* no entry.                                                               *)
LEMMA LookupIs ==
    ASSUME NEW s, NEW c, Table(s, c), c > 0 => Room(s, c), Found(s, c), NEW f \in Files
    PROVE  /\ \A e \in Entries(s) : e.file = f => emuroot_owner_lookup(s, c, f) = e.owner
           /\ (\A e \in Entries(s) : e.file # f) => emuroot_owner_lookup(s, c, f) = NoOwner
<1>1. CASE c = 0
  <2>1. Used(s) = {}
    BY <1>1, UsedFacts
  <2> QED
    BY <1>1, <2>1 DEF emuroot_owner_lookup, Entries
<1>2. CASE c # 0
  <2>1. Room(s, c) /\ emuroot_owner_lookup(s, c, f) = s[find_slot(s, c, f)].owner
    BY <1>2 DEF Table, emuroot_owner_lookup
  <2>2. ASSUME NEW n \in Used(s), s[n].file = f
        PROVE  emuroot_owner_lookup(s, c, f) = s[n].owner
    BY <2>1, <2>2 DEF Found
  <2>3. ASSUME \A e \in Entries(s) : e.file # f
        PROVE  emuroot_owner_lookup(s, c, f) = NoOwner
    <3> DEFINE n == find_slot(s, c, f)
    <3>1. n \in 0..(c - 1) /\ s[n] \in Entry \cup {Free} /\ s[n].file \in {f, NoFile}
      BY <2>1, FoundSlot
    <3>2. n \notin Used(s)
      BY <2>3, <3>1, CellFacts, UsedFacts DEF Entries
    <3>3. s[n] = Free
      BY <3>1, <3>2, UsedFacts
    <3> QED
      BY <2>1, <3>3, CellFacts
  <2> QED
    BY <2>2, <2>3 DEF Entries
<1> QED
  BY <1>1, <1>2

(* Storing an entry where find_slot says: every other entry is still       *)
(* found, for no probe sequence runs over an unused slot.                  *)
SlotOf(s, c, e) == find_slot(s, c, e.file)
Stored(s, c, e) == [s EXCEPT ![SlotOf(s, c, e)] = e]
StoreIsRight(s, c, e, k, t) ==
    /\ Table(t, c) /\ Found(t, c) /\ Used(t) = Used(s) \cup {k}
    /\ s[k] = Free => Entries(t) = Entries(s) \cup {e} /\ k \notin Used(s)
    /\ s[k] # Free => /\ Entries(t) = {x \in Entries(s) : x.file # e.file} \cup {e}
                      /\ Used(t) = Used(s)

LEMMA StoreKeepsFound ==
    ASSUME NEW s, NEW c, Table(s, c), Room(s, c), Found(s, c), NEW e \in Entry
    PROVE  StoreIsRight(s, c, e, SlotOf(s, c, e), Stored(s, c, e))
<1> DEFINE f == e.file
           k == SlotOf(s, c, e)
           t == Stored(s, c, e)
<1>0. k = find_slot(s, c, f) /\ t = [s EXCEPT ![k] = e]
  BY DEF SlotOf, Stored
<1> HIDE DEF k, t
<1>1. f \in Files
  BY CellFacts
<1>2. PICK d : First(s, c, f, d) /\ k = Probe(f, d, c)
  BY <1>0, <1>1, FirstExists
<1>3. c \in Nat \ {0} /\ k \in 0..(c - 1) /\ s[k] \in Entry \cup {Free} /\ s[k].file \in {f, NoFile}
  BY <1>0, <1>1, FirstExists, FoundSlot
<1>4. e.file = f
  OBVIOUS
<1> HIDE DEF f
<1>5. Table(t, c) /\ \A n \in 0..(c - 1) : t[n] = IF n = k THEN e ELSE s[n]
  BY <1>0, <1>3 DEF Table
<1>6. Used(t) = Used(s) \cup {k}
  <2>1. /\ Used(s) = {n \in 0..(c - 1) : s[n] # Free}
        /\ Used(t) = {n \in 0..(c - 1) : t[n] # Free}
    BY <1>5, UsedFacts
  <2>2. e # Free
    BY CellFacts
  <2>3. \A n \in 0..(c - 1) : t[n] # Free <=> s[n] # Free \/ n = k
    BY <1>5, <2>2
  <2> HIDE DEF Table
  <2>4. \A n : n \in Used(t) <=> n \in Used(s) \cup {k}
    BY <1>3, <2>1, <2>3
  <2> QED
    BY <2>4
<1>7. ASSUME NEW n \in Used(t) PROVE find_slot(t, c, t[n].file) = n
  <2>1. n \in 0..(c - 1)
    BY <1>5, UsedFacts
  <2>2. CASE n = k
    <3>1. First(t, c, f, d)
      <4>1. d \in 0..(c - 1) /\ Stops(s, c, f, d) /\ \A x \in 0..(d - 1) : ~Stops(s, c, f, x)
        BY <1>2 DEF First
      <4>2. Stops(t, c, f, d)
        BY <1>2, <1>3, <1>4, <1>5 DEF Stops
      <4>3. ASSUME NEW x \in 0..(d - 1) PROVE ~Stops(t, c, f, x)
        <5>1. Probe(f, x, c) # k /\ Probe(f, x, c) \in 0..(c - 1)
          BY <1>1, <1>2, <1>3, <4>1, ProbeTyped DEF Stops
        <5> QED
          BY <1>5, <4>1, <5>1 DEF Stops
      <4> QED
        BY <4>1, <4>2, <4>3 DEF First
    <3>2. find_slot(t, c, f) = k
      BY <1>2, <1>3, <3>1, FirstUnique
    <3> QED
      BY <1>3, <1>4, <1>5, <2>2, <3>2
  <2>3. CASE n # k
    <3> DEFINE g == s[n].file
    <3>1. n \in Used(s) /\ t[n] = s[n] /\ s[n] \in Entry /\ g \in Files
      BY <1>5, <1>6, <2>1, <2>3, UsedFacts, CellFacts
    <3>2. find_slot(s, c, g) = n
      BY <3>1 DEF Found
    <3>3. PICK y : First(s, c, g, y) /\ n = Probe(g, y, c)
      BY <3>1, <3>2, FirstExists
    <3> HIDE DEF g
    <3>4. y \in 0..(c - 1) /\ Stops(s, c, g, y) /\ \A x \in 0..(y - 1) : ~Stops(s, c, g, x)
      BY <3>3 DEF First
    <3>5. Stops(t, c, g, y)
      BY <3>1, <3>3, <3>4 DEF Stops
    <3>6. ASSUME NEW x \in 0..(y - 1) PROVE ~Stops(t, c, g, x)
      <4>1. ~Stops(s, c, g, x) /\ Probe(g, x, c) \in 0..(c - 1)
        BY <1>3, <3>1, <3>4, ProbeTyped
      <4>2. CASE Probe(g, x, c) = k
        <5>1. s[k].file # NoFile /\ s[k].file # g
          BY <4>1, <4>2 DEF Stops
        <5>2. f # g /\ t[k].file = f /\ f # NoFile
          BY <1>1, <1>3, <1>4, <1>5, <5>1, FreeAssumption
        <5> QED
          BY <4>2, <5>2 DEF Stops
      <4>3. CASE Probe(g, x, c) # k
        BY <1>5, <4>1, <4>3 DEF Stops
      <4> QED
        BY <4>2, <4>3
    <3>7. First(t, c, g, y)
      BY <3>4, <3>5, <3>6 DEF First
    <3>8. find_slot(t, c, g) = n
      BY <1>3, <3>3, <3>7, FirstUnique
    <3> QED
      BY <3>1, <3>8 DEF g
  <2> QED
    BY <2>2, <2>3
<1>8. ASSUME s[k] = Free PROVE Entries(t) = Entries(s) \cup {e} /\ k \notin Used(s)
  <2>1. k \notin Used(s)
    BY <1>8 DEF Used
  <2>2. \A n \in Used(s) : t[n] = s[n]
    BY <1>5, <2>1, UsedFacts
  <2>3. t[k] = e
    BY <1>3, <1>5
  <2>4. \A x : x \in Entries(t) <=> x \in Entries(s) \cup {e}
    BY <1>6, <2>2, <2>3 DEF Entries
  <2> QED
    BY <2>1, <2>4
<1>9. ASSUME s[k] # Free
      PROVE  Entries(t) = {x \in Entries(s) : x.file # f} \cup {e} /\ Used(t) = Used(s)
  <2>1. k \in Used(s) /\ s[k].file = f
    BY <1>3, <1>9, UsedFacts, CellFacts
  <2>2. \A n \in Used(s) \ {k} : t[n] = s[n] /\ s[n].file # f
    BY <1>5, <2>1, OneSlotPerFile, UsedFacts
  <2>3. t[k] = e
    BY <1>3, <1>5
  <2>4. Used(t) = Used(s)
    BY <1>6, <2>1
  <2>5. \A x : x \in Entries(t) <=> x \in {z \in Entries(s) : z.file # f} \cup {e}
    BY <2>1, <2>2, <2>3, <2>4 DEF Entries
  <2> QED
    BY <2>4, <2>5
<1> QED
  BY <1>5, <1>6, <1>7, <1>8, <1>9 DEF Found, StoreIsRight, f, k, t

-----------------------------------------------------------------------------
(* The inductive invariant.  While a larger table is being filled it holds *)
(* the entries of the old one up to i; both are tables in which everything *)
(* is found, and there is room for one more than count.                    *)
Moved == {n \in Used(old) : n < i}
Rehashing ==
    /\ i <= OldCap /\ Found(old, OldCap) /\ count * 2 <= OldCap
    /\ Entries(slots) = {old[n] : n \in Moved}
    /\ Cardinality(Used(slots)) = Cardinality(Moved)
Sized ==
    /\ pc # "rehash" => count * 2 <= cap
    /\ pc \in {"rehash", "put"} => (count + 1) * 2 <= cap
Called == pc \in {"set", "rehash", "put"} => arg \in Entry
IInv ==
    /\ TypeOK /\ Called /\ Sized
    /\ Found(slots, cap) /\ CountExact
    /\ pc = "rehash" => Rehashing

LEMMA UsedFinite ==
    ASSUME NEW s, NEW c, Table(s, c)
    PROVE  /\ IsFiniteSet(Used(s)) /\ Cardinality(Used(s)) \in Nat
           /\ Cardinality(Used(s)) < c => Room(s, c)
<1>1. c \in Nat /\ Used(s) \subseteq 0..(c - 1)
  <2>1. Used(s) = {n \in 0..(c - 1) : s[n] # Free}
    BY UsedFacts
  <2> QED
    BY <2>1 DEF Table
<1>2. IsFiniteSet(0..(c - 1)) /\ Cardinality(0..(c - 1)) = c
  BY <1>1, FS_Interval
<1>3. IsFiniteSet(Used(s)) /\ Cardinality(Used(s)) \in Nat
  BY <1>1, <1>2, FS_Subset, FS_CardinalityType
<1>4. ~Room(s, c) => Used(s) = 0..(c - 1)
  BY UsedFacts DEF Room
<1> QED
  BY <1>1, <1>2, <1>3, <1>4

LEMMA NewTableFacts ==
    ASSUME NEW c \in Nat
    PROVE  /\ Table(NewTable(c), c) /\ Found(NewTable(c), c)
           /\ Used(NewTable(c)) = {} /\ Entries(NewTable(c)) = {}
           /\ Cardinality(Used(NewTable(c))) = 0
           /\ Cardinality(DOMAIN NewTable(c)) = c
<1>1. Table(NewTable(c), c) /\ DOMAIN NewTable(c) = 0..(c - 1)
  BY DEF Table, NewTable
<1>2. Used(NewTable(c)) = {}
  BY DEF Used, NewTable
<1>3. Cardinality(0..(c - 1)) = c
  BY FS_Interval
<1> QED
  BY <1>1, <1>2, <1>3, FS_EmptySet DEF Found, Entries

LEMMA TableFacts ==
    ASSUME IInv
    PROVE  /\ Table(slots, cap) /\ Table(old, OldCap)
           /\ cap > 0 => Room(slots, cap)
           /\ pc = "put" => Room(slots, cap)
           /\ pc = "rehash" => Room(slots, cap) /\ (OldCap > 0 => Room(old, OldCap))
<1>1. Table(slots, cap) /\ Table(old, OldCap) /\ cap \in Nat /\ count \in Nat /\ OldCap \in Nat
  BY DEF IInv, TypeOK, Table
<1>2. CASE pc # "rehash"
  <2>1. count * 2 <= cap /\ count = Cardinality(Used(slots)) /\ (pc = "put" => cap > 0)
    BY <1>1, <1>2 DEF IInv, Sized, CountExact
  <2> QED
    BY <1>1, <1>2, <2>1, UsedFinite
<1>3. CASE pc = "rehash"
  <2>1. /\ count = Cardinality(Used(old)) /\ (count + 1) * 2 <= cap /\ count * 2 <= OldCap
        /\ Cardinality(Used(slots)) = Cardinality(Moved)
    BY <1>3 DEF IInv, Sized, CountExact, Rehashing
  <2>2. Cardinality(Moved) <= Cardinality(Used(old))
    BY <1>1, UsedFinite, FS_Subset DEF Moved
  <2>3. Cardinality(Used(slots)) < cap /\ (OldCap > 0 => Cardinality(Used(old)) < OldCap)
    BY <1>1, <2>1, <2>2, UsedFinite
  <2> QED
    BY <1>1, <1>3, <2>3, UsedFinite
<1> QED
  BY <1>2, <1>3

LEMMA InitIInv == Init => IInv
<1> SUFFICES ASSUME Init PROVE IInv
  OBVIOUS
<1>1. /\ Table(slots, cap) /\ Found(slots, cap) /\ Cardinality(Used(slots)) = 0
      /\ OldCap = 0 /\ Table(old, OldCap)
  BY NewTableFacts DEF Init, OldCap
<1>2. TypeOK
  <2>1. file \in Seq(Entry) /\ saved \in Seq(Entry)
    BY DEF Init
  <2>2. /\ slots \in [0..(cap - 1) -> Entry \cup {Free}]
        /\ OldCap \in Nat /\ old \in [0..(OldCap - 1) -> Entry \cup {Free}]
    BY <1>1 DEF Table
  <2>3. db \in BOOLEAN /\ whole \in BOOLEAN /\ intact \in BOOLEAN
    BY DEF Init
  <2> QED
    BY <2>1, <2>2, <2>3 DEF Init, TypeOK
<1> QED
  BY <1>1, <1>2 DEF Init, IInv, Called, Sized, CountExact

(* The steps that leave the table alone, the ends of a run, ...            *)
LEMMA NoRunKeeps ==
    ASSUME IInv, NoRun("off"), file' \in Seq(Entry), saved' \in Seq(Entry), intact' \in BOOLEAN
    PROVE  IInv'
<1>1. /\ Table(slots, cap)' /\ Found(slots, cap)' /\ Cardinality(Used(slots))' = 0
      /\ OldCap' = 0 /\ Table(old, OldCap)'
  BY NewTableFacts DEF NoRun, OldCap
<1>2. TypeOK'
  <2>1. /\ slots' \in [0..(cap' - 1) -> Entry \cup {Free}]
        /\ OldCap' \in Nat /\ old' \in [0..(OldCap' - 1) -> Entry \cup {Free}]
    BY <1>1 DEF Table
  <2>2. db' \in BOOLEAN /\ whole' \in BOOLEAN
    BY DEF NoRun
  <2>3. /\ pc' = "off" /\ caller' = "idle" /\ arg' = Free
        /\ i' \in Nat /\ line' \in Nat \ {0} /\ cap' \in Nat /\ count' \in Nat
    BY DEF NoRun
  <2> QED
    BY <2>1, <2>2, <2>3 DEF TypeOK
<1> QED
  BY <1>1, <1>2 DEF NoRun, IInv, Called, Sized, CountExact

LEMMA SameTableKeeps ==
    ASSUME IInv, UNCHANGED <<slots, cap, count, old>>, pc # "rehash", pc' # "rehash",
           TypeOK', Called', pc' = "put" => pc = "set" /\ ~Crowded
    PROVE  IInv'
<1>1. Found(slots, cap)'
  BY DEF IInv, Found, Used, find_slot, Stops, Probe
<1>2. CountExact'
  BY DEF IInv, CountExact
<1>3. Sized'
  <2>1. cap \in Nat /\ count \in Nat /\ cap' = cap /\ count' = count /\ count * 2 <= cap
    BY DEF IInv, TypeOK, Sized
  <2> QED
    BY <2>1 DEF Sized, Crowded
<1> QED
  BY <1>1, <1>2, <1>3 DEF IInv

LEMMA LoadKeeps ==
    ASSUME IInv, Boot \/ LoadLine \/ LoadEnd \/ NoGrowth \/ \E f \in Files, o \in Owners : Set(f, o)
    PROVE  IInv'
<1> USE DEF tableVars, fileVars
<1>1. CASE Boot
  <2>1. TypeOK' /\ Called'
    BY <1>1 DEF Boot, IInv, TypeOK, Called, OldCap
  <2> QED
    BY <1>1, <2>1, SameTableKeeps DEF Boot
<1>2. CASE LoadLine
  <2>1. file[line] \in Entry
    BY <1>2 DEF LoadLine, IInv, TypeOK
  <2>2. TypeOK' /\ Called'
    BY <1>2, <2>1 DEF LoadLine, IInv, TypeOK, Called, OldCap
  <2> QED
    BY <1>2, <2>2, SameTableKeeps DEF LoadLine
<1>3. CASE LoadEnd
  <2>1. TypeOK' /\ Called'
    BY <1>3 DEF LoadEnd, IInv, TypeOK, Called, OldCap
  <2> QED
    BY <1>3, <2>1, SameTableKeeps DEF LoadEnd
<1>4. CASE NoGrowth
  <2>1. TypeOK' /\ Called'
    BY <1>4 DEF NoGrowth, IInv, TypeOK, Called, OldCap
  <2> QED
    BY <1>4, <2>1, SameTableKeeps DEF NoGrowth
<1>5. ASSUME NEW f \in Files, NEW o \in Owners, Set(f, o) PROVE IInv'
  <2>1. [file |-> f, owner |-> o] \in Entry
    BY DEF Entry
  <2>2. TypeOK' /\ Called'
    BY <1>5, <2>1 DEF Set, IInv, TypeOK, Called, OldCap
  <2> QED
    BY <1>5, <2>2, SameTableKeeps DEF Set
<1> QED
  BY <1>1, <1>2, <1>3, <1>4, <1>5

LEMMA SaveKeeps ==
    ASSUME IInv, Save \/ NoSave \/ SaveStep \/ SaveEnd \/ SaveTorn \/ Killed \/ GrowFails
    PROVE  IInv'
<1> USE DEF tableVars, fileVars
<1>0. file \in Seq(Entry) /\ saved \in Seq(Entry) /\ intact \in BOOLEAN
  BY DEF IInv, TypeOK
<1>1. CASE Save
  <2>1. TypeOK' /\ Called'
    BY <1>1 DEF Save, IInv, TypeOK, Called, OldCap
  <2> QED
    BY <1>1, <2>1, SameTableKeeps DEF Save
<1>2. CASE NoSave \/ Killed \/ SaveEnd
  <2>1. NoRun("off") /\ file' \in Seq(Entry) /\ saved' \in Seq(Entry) /\ intact' \in BOOLEAN
    BY <1>0, <1>2 DEF NoSave, Killed, SaveEnd
  <2> QED
    BY <2>1, NoRunKeeps
<1>3. CASE SaveStep
  <2>1. slots[i] # Free => slots[i] \in Entry
    BY <1>3 DEF SaveStep, IInv, TypeOK
  <2>2. file' \in Seq(Entry)
    BY <1>0, <1>3, <2>1 DEF SaveStep
  <2>3. TypeOK' /\ Called'
    BY <1>3, <2>2 DEF SaveStep, IInv, TypeOK, Called, OldCap
  <2> QED
    BY <1>3, <2>3, SameTableKeeps DEF SaveStep
<1>4. CASE SaveTorn
  <2>1. PICK n \in 0..Len(file) :
          \/ file' = Cut(n)
          \/ /\ n < Len(file)
             /\ \E o \in Owners : file' = Append(Cut(n), [file[n + 1] EXCEPT !.owner = o])
    BY <1>4 DEF SaveTorn
  <2>2. Cut(n) \in Seq(Entry)
    BY <1>0 DEF Cut
  <2>3. ASSUME n < Len(file), NEW o \in Owners
        PROVE  [file[n + 1] EXCEPT !.owner = o] \in Entry
    <3>1. file[n + 1] \in Entry
      BY <1>0, <2>3
    <3> QED
      BY <3>1 DEF Entry
  <2>4. file' \in Seq(Entry)
    <3>1. CASE file' = Cut(n)
      BY <2>2, <3>1
    <3>2. ASSUME NEW o \in Owners, n < Len(file),
                 file' = Append(Cut(n), [file[n + 1] EXCEPT !.owner = o])
          PROVE  file' \in Seq(Entry)
      <4>1. [file[n + 1] EXCEPT !.owner = o] \in Entry
        BY <2>3, <3>2
      <4> QED
        BY <2>2, <3>2, <4>1
    <3> QED
      BY <2>1, <3>1, <3>2
  <2> QED
    BY <1>4, <2>4, NoRunKeeps DEF SaveTorn
<1>5. CASE GrowFails
  <2>1. pc' \in {"load", "idle"}
    BY <1>5 DEF GrowFails, Return, IInv, TypeOK
  <2>2. TypeOK' /\ Called'
    BY <1>5, <2>1 DEF GrowFails, Return, IInv, TypeOK, Called, OldCap
  <2> QED
    BY <1>5, <2>1, <2>2, SameTableKeeps DEF GrowFails
<1> QED
  BY <1>1, <1>2, <1>3, <1>4, <1>5

(* ... the growth ...                                                      *)
LEMMA GrowKeeps ==
    ASSUME IInv, Grow
    PROVE  IInv'
<1> USE DEF fileVars
<1>1. /\ pc = "set" /\ cap \in Nat /\ count \in Nat /\ count * 2 <= cap /\ Table(slots, cap)
      /\ Found(slots, cap) /\ count = Cardinality(Used(slots))
  BY TableFacts DEF Grow, IInv, TypeOK, Sized, CountExact
<1>2. GrownCap \in Nat /\ (count + 1) * 2 <= GrownCap
  BY <1>1, FirstCapAssumption DEF GrownCap
<1>3. /\ pc' = "rehash" /\ i' = 0 /\ old' = slots /\ slots' = NewTable(GrownCap)
      /\ cap' = GrownCap /\ count' = count
  BY DEF Grow
<1>4. OldCap' = cap
  <2>1. DOMAIN slots = 0..(cap - 1) /\ Cardinality(0..(cap - 1)) = cap
    BY <1>1, FS_Interval DEF Table
  <2> QED
    BY <1>3, <2>1 DEF OldCap
<1>5. /\ Table(slots, cap)' /\ Found(slots, cap)' /\ Entries(slots)' = {}
      /\ Cardinality(Used(slots))' = 0
  BY <1>2, <1>3, NewTableFacts
<1>6. TypeOK'
  <2>1. /\ slots' \in [0..(cap' - 1) -> Entry \cup {Free}]
        /\ OldCap' \in Nat /\ old' \in [0..(OldCap' - 1) -> Entry \cup {Free}]
    BY <1>1, <1>3, <1>4, <1>5 DEF Table
  <2>2. db' \in BOOLEAN /\ whole' \in BOOLEAN /\ intact' \in BOOLEAN
    BY DEF Grow, IInv, TypeOK
  <2>3. arg' \in Entry \cup {Free} /\ file' \in Seq(Entry) /\ saved' \in Seq(Entry)
    BY DEF Grow, IInv, TypeOK
  <2>4. caller' \in {"load", "idle"} /\ line' \in Nat \ {0} /\ count' \in Nat /\ i' \in Nat
    BY <1>3 DEF Grow, IInv, TypeOK
  <2> QED
    BY <1>2, <1>3, <2>1, <2>2, <2>3, <2>4 DEF TypeOK
<1>7. Found(old, OldCap)'
  BY <1>1, <1>3, <1>4
<1>8. Moved' = {}
  <2>1. Used(slots) \subseteq Nat
    BY <1>1, UsedFacts
  <2> QED
    BY <1>3, <2>1 DEF Moved
<1>9. Rehashing'
  BY <1>1, <1>3, <1>4, <1>5, <1>7, <1>8, FS_EmptySet DEF Rehashing
<1>10. CountExact' /\ Sized' /\ Called'
  BY <1>1, <1>2, <1>3 DEF CountExact, Sized, Called, Grow, IInv
<1> QED
  BY <1>5, <1>6, <1>9, <1>10 DEF IInv

(* ... step by step: the file of the next old entry is not in the new      *)
(* table yet, so it goes to an unused slot.                                *)
LEMMA RehashStepKeeps ==
    ASSUME IInv, RehashStep
    PROVE  IInv'
<1> USE DEF fileVars
<1>1. /\ Rehashing /\ i \in Nat /\ i < OldCap /\ OldCap \in Nat /\ Table(old, OldCap)
      /\ Table(slots, cap) /\ Room(slots, cap) /\ Found(slots, cap) /\ old[i] \in Entry \cup {Free}
  <2>1. pc = "rehash" /\ i < OldCap
    BY DEF RehashStep
  <2> QED
    BY <2>1, TableFacts DEF IInv, TypeOK
<1>2. /\ pc' = pc /\ i' = i + 1 /\ old' = old /\ cap' = cap /\ count' = count /\ arg' = arg
      /\ OldCap' = OldCap /\ pc = "rehash"
  BY DEF RehashStep, OldCap
<1>3. /\ Table(slots, cap)' /\ Found(slots, cap)'
      /\ Entries(slots)' = {old[n] : n \in Moved'}
      /\ Cardinality(Used(slots))' = Cardinality(Moved')
  <2>1. CASE old[i] = Free
    <3>1. slots' = slots
      BY <2>1 DEF RehashStep
    <3>2. Moved' = Moved
      <4>1. \A n \in Used(old) : n \in Nat /\ n # i
        BY <1>1, <2>1, UsedFacts
      <4>2. \A n \in Used(old) : n < i + 1 <=> n < i
        BY <1>1, <4>1
      <4> QED
        BY <1>2, <4>2 DEF Moved
    <3> QED
      BY <1>1, <1>2, <3>1, <3>2 DEF Rehashing
  <2>2. CASE old[i] # Free
    <3> DEFINE e == old[i]
               k == find_slot(slots, cap, e.file)
    <3>1. e \in Entry /\ i \in Used(old)
      BY <1>1, <2>2, UsedFacts
    <3>2. slots' = [slots EXCEPT ![k] = e]
      BY <2>2 DEF RehashStep
    <3>3. Moved' = Moved \cup {i} /\ i \notin Moved
      <4>1. \A n \in Used(old) : n \in Nat
        BY <1>1, UsedFacts
      <4>2. \A n \in Used(old) : n < i + 1 <=> (n < i \/ n = i)
        BY <1>1, <4>1
      <4>3. ~(i < i)
        BY <1>1
      <4>4. \A n : n \in Moved' <=> n \in Moved \cup {i}
        BY <1>2, <3>1, <4>2 DEF Moved
      <4> QED
        BY <4>3, <4>4 DEF Moved
    <3>4. slots[k] = Free
      <4>1. k \in 0..(cap - 1) /\ slots[k] \in Entry \cup {Free} /\ slots[k].file \in {e.file, NoFile}
        BY <1>1, <3>1, FoundSlot, CellFacts
      <4>2. ASSUME slots[k] # Free PROVE FALSE
        <5>1. slots[k] \in Entries(slots) /\ slots[k].file = e.file
          BY <1>1, <4>1, <4>2, UsedFacts, CellFacts DEF Entries
        <5>2. PICK n \in Moved : slots[k] = old[n]
          BY <1>1, <5>1 DEF Rehashing
        <5>3. n = i
          BY <1>1, <3>1, <5>1, <5>2, OneSlotPerFile DEF Moved, Rehashing
        <5> QED
          BY <3>3, <5>3
      <4> QED
        BY <4>2
    <3>0. k = find_slot(slots, cap, e.file)
      OBVIOUS
    <3> HIDE DEF k, e
    <3>5. /\ Table(slots', cap) /\ Found(slots', cap) /\ Used(slots') = Used(slots) \cup {k}
          /\ Entries(slots') = Entries(slots) \cup {e} /\ k \notin Used(slots)
      <4>1. Table(slots, cap) /\ Room(slots, cap) /\ Found(slots, cap)
        BY <1>1
      <4>2. e \in Entry
        BY <3>1
      <4>3. StoreIsRight(slots, cap, e, SlotOf(slots, cap, e), Stored(slots, cap, e))
        BY <4>1, <4>2, StoreKeepsFound
      <4>4. SlotOf(slots, cap, e) = k /\ Stored(slots, cap, e) = slots'
        BY <3>0, <3>2 DEF SlotOf, Stored
      <4>5. StoreIsRight(slots, cap, e, k, slots')
        BY <4>3, <4>4
      <4> QED
        BY <3>4, <4>5 DEF StoreIsRight
    <3>6. Entries(slots') = {old[n] : n \in Moved'}
      BY <1>1, <3>3, <3>5 DEF Rehashing, e
    <3>7. Cardinality(Used(slots')) = Cardinality(Used(slots)) + 1
      BY <1>1, <3>5, UsedFinite, FS_AddElement
    <3>8. IsFiniteSet(Moved)
      BY <1>1, UsedFinite, FS_Subset DEF Moved
    <3>9. Cardinality(Moved') = Cardinality(Moved) + 1
      BY <3>3, <3>8, FS_AddElement
    <3> QED
      BY <1>1, <1>2, <3>5, <3>6, <3>7, <3>9 DEF Rehashing
  <2> QED
    BY <2>1, <2>2
<1>4. TypeOK'
  <2>1. slots' \in [0..(cap' - 1) -> Entry \cup {Free}]
    BY <1>3 DEF Table
  <2> QED
    BY <1>1, <1>2, <2>1 DEF RehashStep, IInv, TypeOK
<1>5. Rehashing'
  <2>1. {old'[n] : n \in Moved'} = {old[n] : n \in Moved'}
    BY <1>2
  <2>2. Found(old, OldCap)'
    BY <1>1, <1>2 DEF Rehashing
  <2> QED
    BY <1>1, <1>2, <1>3, <2>1, <2>2 DEF Rehashing
<1>6. CountExact' /\ Sized' /\ Called'
  BY <1>2 DEF CountExact, Sized, Called, IInv
<1> QED
  BY <1>3, <1>4, <1>5, <1>6 DEF IInv

LEMMA RehashEndKeeps ==
    ASSUME IInv, RehashEnd
    PROVE  IInv' /\ Entries(slots) = Entries(old)
<1> USE DEF fileVars
<1>1. /\ pc = "rehash" /\ Rehashing /\ i = OldCap /\ OldCap \in Nat /\ Table(old, OldCap)
      /\ pc' = "put" /\ i' = 0 /\ old' = NewTable(0) /\ slots' = slots /\ cap' = cap
      /\ count' = count /\ arg' = arg /\ cap \in Nat /\ count \in Nat
  BY TableFacts DEF RehashEnd, IInv, TypeOK
<1>2. Moved = Used(old)
  <2>1. \A n \in Used(old) : n < i
    BY <1>1, UsedFacts
  <2> QED
    BY <2>1 DEF Moved
<1>3. Entries(slots) = Entries(old)
  BY <1>1, <1>2 DEF Rehashing, Entries
<1>4. OldCap' = 0 /\ Table(old, OldCap)'
  BY <1>1, NewTableFacts DEF OldCap
<1>5. TypeOK'
  <2>1. OldCap' \in Nat /\ old' \in [0..(OldCap' - 1) -> Entry \cup {Free}]
    BY <1>4 DEF Table
  <2>2. db' \in BOOLEAN /\ whole' \in BOOLEAN /\ intact' \in BOOLEAN
    BY DEF RehashEnd, IInv, TypeOK
  <2>3. arg' \in Entry \cup {Free} /\ file' \in Seq(Entry) /\ saved' \in Seq(Entry)
    BY DEF RehashEnd, IInv, TypeOK
  <2>4. /\ caller' \in {"load", "idle"} /\ line' \in Nat \ {0} /\ count' \in Nat /\ i' \in Nat
        /\ slots' \in [0..(cap' - 1) -> Entry \cup {Free}]
    BY <1>1 DEF RehashEnd, IInv, TypeOK
  <2> QED
    BY <1>1, <2>1, <2>2, <2>3, <2>4 DEF TypeOK
<1>6. CountExact'
  <2>1. count = Cardinality(Used(slots))
    BY <1>1, <1>2 DEF IInv, CountExact, Rehashing
  <2> QED
    BY <1>1, <2>1 DEF CountExact
<1>7. Found(slots, cap)'
  BY <1>1 DEF IInv
<1>8. Sized' /\ Called'
  BY <1>1 DEF Sized, Called, IInv
<1> QED
  BY <1>1, <1>3, <1>5, <1>6, <1>7, <1>8 DEF IInv

(* ... and the entry itself.                                               *)
LEMMA PutKeeps ==
    ASSUME IInv, Put
    PROVE  /\ IInv' /\ arg \in Entry /\ pc' = caller /\ cap' = cap
           /\ Entries(slots') = {x \in Entries(slots) : x.file # arg.file} \cup {arg}
<1> USE DEF fileVars
<1> DEFINE k == find_slot(slots, cap, arg.file)
<1>1. /\ pc = "put" /\ arg \in Entry /\ Table(slots, cap) /\ Room(slots, cap) /\ Found(slots, cap)
      /\ cap \in Nat /\ count \in Nat /\ (count + 1) * 2 <= cap /\ count = Cardinality(Used(slots))
      /\ caller \in {"load", "idle"}
  BY TableFacts DEF Put, IInv, TypeOK, Called, Sized, CountExact
<1>2. /\ slots' = [slots EXCEPT ![k] = arg] /\ pc' = caller /\ cap' = cap /\ old' = old
      /\ count' = IF slots[k] = Free THEN count + 1 ELSE count
      /\ arg' = Free /\ k = find_slot(slots, cap, arg.file)
  BY DEF Put, Return
<1> HIDE DEF k
<1>3. /\ Table(slots', cap) /\ Found(slots', cap) /\ Used(slots') = Used(slots) \cup {k}
      /\ slots[k] = Free => Entries(slots') = Entries(slots) \cup {arg} /\ k \notin Used(slots)
      /\ slots[k] # Free =>
            /\ Entries(slots') = {x \in Entries(slots) : x.file # arg.file} \cup {arg}
            /\ Used(slots') = Used(slots)
  <2>1. Table(slots, cap) /\ Room(slots, cap) /\ Found(slots, cap) /\ arg \in Entry
    BY <1>1
  <2>2. k = find_slot(slots, cap, arg.file) /\ slots' = [slots EXCEPT ![k] = arg]
    BY <1>2
  <2>3. SlotOf(slots, cap, arg) = k /\ Stored(slots, cap, arg) = slots'
    BY <2>2 DEF SlotOf, Stored
  <2>4. StoreIsRight(slots, cap, arg, k, slots')
    BY <2>1, <2>3, StoreKeepsFound
  <2> QED
    BY <2>4 DEF StoreIsRight
<1>4. Entries(slots') = {x \in Entries(slots) : x.file # arg.file} \cup {arg}
  <2>1. ASSUME slots[k] = Free, NEW x \in Entries(slots) PROVE x.file # arg.file
    <3>1. PICK n \in Used(slots) : x = slots[n]
      BY DEF Entries
    <3>2. x.file = arg.file => n = k
      BY <1>1, <1>2, <3>1 DEF Found
    <3> QED
      BY <1>3, <2>1, <3>2
  <2> QED
    BY <1>3, <2>1
<1>5. count' = Cardinality(Used(slots'))
  <2>1. CASE slots[k] = Free
    <3>1. IsFiniteSet(Used(slots))
      BY <1>1, UsedFinite
    <3>2. Used(slots') = Used(slots) \cup {k} /\ k \notin Used(slots) /\ count' = count + 1
      BY <1>2, <1>3, <2>1
    <3> QED
      BY <1>1, <3>1, <3>2, FS_AddElement
  <2>2. CASE slots[k] # Free
    BY <1>1, <1>2, <1>3, <2>2
  <2> QED
    BY <2>1, <2>2
<1>6. OldCap' = OldCap
  BY <1>2 DEF OldCap
<1>7. TypeOK'
  <2>1. slots' \in [0..(cap' - 1) -> Entry \cup {Free}] /\ count' \in Nat
    BY <1>1, <1>2, <1>3 DEF Table
  <2> QED
    BY <1>1, <1>2, <1>6, <2>1 DEF Put, IInv, TypeOK
<1>8. Sized' /\ Called' /\ CountExact'
  BY <1>1, <1>2, <1>5 DEF Sized, Called, CountExact
<1> QED
  BY <1>1, <1>2, <1>3, <1>4, <1>7, <1>8 DEF IInv

LEMMA NextIInv == IInv /\ [Next]_vars => IInv'
<1> SUFFICES ASSUME IInv, [Next]_vars PROVE IInv'
  OBVIOUS
<1>1. CASE UNCHANGED vars
  BY <1>1 DEF vars, runVars, tableVars, fileVars, IInv, TypeOK, Called, Sized, CountExact,
              Rehashing, Moved, OldCap
<1>2. CASE Next
  BY <1>2, LoadKeeps, SaveKeeps, GrowKeeps, RehashStepKeeps, RehashEndKeeps, PutKeeps DEF Next
<1> QED
  BY <1>1, <1>2

LEMMA AlwaysIInv == Spec => []IInv
BY InitIInv, NextIInv, PTL DEF Spec

(* The variables keep their types, and the table has exactly cap slots,    *)
(* through growth, failed growth (ownership.c puts the old size back) and  *)
(* any death of the tracer.                                                *)
THEOREM TypeCorrect == Spec => []TypeOK
<1>1. IInv => TypeOK
  BY DEF IInv
<1> QED
  BY <1>1, AlwaysIInv, PTL

(* find_slot's endless loop (ownership.c) always comes to an end: every    *)
(* table that is ever searched has an unused slot.                         *)
THEOREM FindEnds == Spec => []FindTerminates
<1>1. IInv => FindTerminates
  <2> SUFFICES ASSUME IInv PROVE FindTerminates
    OBVIOUS
  <2>1. /\ cap > 0 => \E n \in 0..(cap - 1) : slots[n] = Free
        /\ DOMAIN slots = 0..(cap - 1)
    BY TableFacts DEF Room, Table
  <2>2. pc = "put" => cap > 0
    BY DEF IInv, Sized, TypeOK
  <2> QED
    BY <2>1, <2>2 DEF FindTerminates
<1> QED
  BY <1>1, AlwaysIInv, PTL

(* No entry is lost to open addressing: a search for an entry's file ends  *)
(* at that entry, for every hash function, also in a half-filled larger    *)
(* table (rehash in emuroot_owner_set).                                    *)
THEOREM NothingIsLost == Spec => []EveryEntryFound
<1>1. IInv => EveryEntryFound
  BY DEF IInv, Found, EveryEntryFound
<1> QED
  BY <1>1, AlwaysIInv, PTL

(* count, which decides when the table grows, is the number of entries.    *)
THEOREM CountIsRight == Spec => []CountExact
<1>1. IInv => CountExact
  BY DEF IInv
<1> QED
  BY <1>1, AlwaysIInv, PTL

-----------------------------------------------------------------------------
(* The refinement.  Content is what the table in force holds; MInv says    *)
(* how far loading and saving have come: the lines of the file name each   *)
(* file once, those before Done are in the table (all of them, as long as  *)
(* memory lasts), and those written are the entries in the slots up to i.  *)
Current == IF pc = "rehash" THEN old ELSE slots
Content == Entries(Current)
Lines(k) == {file[n] : n \in 1..k}
Distinct(lines) == \A m, n \in 1..Len(lines) : lines[m].file = lines[n].file => m = n
Done == IF pc = "load" THEN line - 1 ELSE line - 2

Fresh == pc = "off" => line = 1 /\ Content = {}
LoadOK == Loading =>
    /\ Done \in 0..Len(file)
    /\ pc # "load" => line - 1 \in 1..Len(file) /\ arg = file[line - 1]
    /\ Content \subseteq Lines(Done) /\ (whole => Lines(Done) \subseteq Content)
SaveOK == pc = "save" =>
    /\ i <= cap /\ Files # {}
    /\ Lines(Len(file)) = {slots[n] : n \in {m \in Used(slots) : m < i}}
FileOK == Distinct(file) /\ (pc # "save" => file = saved) /\ (db => Files # {})
MInv == IInv /\ Fresh /\ LoadOK /\ SaveOK /\ FileOK

LEMMA LinesGrow ==
    ASSUME NEW k \in Nat
    PROVE  Lines(0) = {} /\ Lines(k + 1) = Lines(k) \cup {file[k + 1]} /\ Lines(k) \subseteq Lines(k + 1)
BY DEF Lines

LEMMA AppendFacts ==
    ASSUME NEW lines \in Seq(Entry), NEW e \in Entry
    PROVE  /\ Append(lines, e) \in Seq(Entry) /\ Len(Append(lines, e)) = Len(lines) + 1
           /\ \A n \in 1..Len(lines) : Append(lines, e)[n] = lines[n]
           /\ Append(lines, e)[Len(lines) + 1] = e
OBVIOUS

LEMMA CutFacts ==
    ASSUME IInv, NEW n \in 0..Len(file)
    PROVE  /\ Cut(n) \in Seq(Entry) /\ Len(Cut(n)) = n
           /\ \A m \in 1..n : Cut(n)[m] = file[m]
<1>1. file \in Seq(Entry)
  BY DEF IInv, TypeOK
<1> QED
  BY <1>1 DEF Cut

(* Lines that name each file once still do with one more file.             *)
LEMMA DistinctAppend ==
    ASSUME NEW lines \in Seq(Entry), NEW e \in Entry, Distinct(lines),
           \A n \in 1..Len(lines) : lines[n].file # e.file
    PROVE  Distinct(Append(lines, e))
<1> DEFINE l == Append(lines, e)
<1>1. /\ Len(l) = Len(lines) + 1 /\ Len(lines) \in Nat
      /\ \A n \in 1..Len(lines) : l[n] = lines[n]
      /\ l[Len(lines) + 1] = e
  BY AppendFacts
<1> HIDE DEF l
<1>2. ASSUME NEW m \in 1..Len(l), NEW n \in 1..Len(l), l[m].file = l[n].file PROVE m = n
  <2>1. CASE m \in 1..Len(lines) /\ n \in 1..Len(lines)
    BY <1>1, <1>2, <2>1 DEF Distinct
  <2>2. CASE m \in 1..Len(lines) /\ n = Len(lines) + 1
    BY <1>1, <1>2, <2>2
  <2>3. CASE m = Len(lines) + 1 /\ n \in 1..Len(lines)
    BY <1>1, <1>2, <2>3
  <2> QED
    BY <1>1, <2>1, <2>2, <2>3
<1> QED
  BY <1>2 DEF Distinct, l

LEMMA InitMInv == Init => MInv
<1> SUFFICES ASSUME Init PROVE MInv
  OBVIOUS
<1>1. Content = {}
  BY NewTableFacts DEF Init, Content, Current
<1>2. Distinct(file)
  BY DEF Init, Distinct
<1> QED
  BY <1>1, <1>2, InitIInv DEF Init, MInv, Fresh, LoadOK, Loading, SaveOK, FileOK

(* The steps of a load and of emuroot_owner_set. *)
LEMMA LoadStepsMInv ==
    ASSUME MInv, IInv', Boot \/ LoadLine \/ LoadEnd \/ \E f \in Files, o \in Owners : Set(f, o)
    PROVE  MInv'
<1> USE DEF tableVars, fileVars
<1>0. /\ slots' = slots /\ old' = old /\ file' = file /\ saved' = saved /\ db' = db
      /\ pc # "rehash" /\ pc' # "rehash" /\ pc # "save" /\ pc' # "save" /\ pc' # "off"
      /\ line \in Nat \ {0} /\ Len(file) \in Nat
  BY SMTT(30) DEF Boot, LoadLine, LoadEnd, Set, MInv, IInv, TypeOK
<1>1. Content' = Content /\ \A k : Lines(k)' = Lines(k)
  BY <1>0 DEF Content, Current, Lines
<1>2. Fresh' /\ SaveOK' /\ FileOK'
  BY <1>0 DEF Fresh, SaveOK, FileOK, MInv
<1>3. LoadOK'
  <2>1. CASE Boot
    <3>1. Content' = {} /\ line' = 1 /\ (Loading' => pc' = "load")
      BY <1>1, <2>1 DEF Boot, MInv, Fresh, Loading
    <3>2. Done' = 0 \/ ~Loading'
      BY <3>1 DEF Done
    <3>3. Lines(0)' = {}
      BY DEF Lines
    <3> QED
      BY <1>0, <3>1, <3>2, <3>3 DEF LoadOK
  <2>2. CASE LoadLine
    <3>1. /\ pc = "load" /\ pc' = "set" /\ line' = line + 1 /\ arg' = file[line]
          /\ line <= Len(file) /\ Loading /\ whole' = whole
      BY <2>2 DEF LoadLine, Loading
    <3>2. Done' = Done /\ Done = line - 1
      BY <1>0, <3>1 DEF Done
    <3>3. Lines(Done)' = Lines(Done)
      BY <1>0, <3>2 DEF Lines
    <3> QED
      BY <1>0, <1>1, <3>1, <3>2, <3>3 DEF LoadOK, MInv
  <2>3. CASE LoadEnd
    BY <2>3 DEF LoadEnd, LoadOK, Loading
  <2>4. CASE \E f \in Files, o \in Owners : Set(f, o)
    BY <2>4 DEF Set, LoadOK, Loading
  <2> QED
    BY <2>1, <2>2, <2>3, <2>4
<1> QED
  BY <1>2, <1>3 DEF MInv

LEMMA GrowthMInv ==
    ASSUME MInv, IInv', NoGrowth \/ Grow \/ GrowFails \/ RehashStep \/ RehashEnd
    PROVE  MInv' /\ Content' = Content
<1> USE DEF tableVars, fileVars
<1>0. /\ file' = file /\ saved' = saved /\ line' = line /\ caller' = caller
      /\ pc \in {"set", "rehash"} /\ pc' \in {"rehash", "put", "load", "idle"}
      /\ line \in Nat \ {0} /\ Len(file) \in Nat /\ arg \in Entry /\ arg.file \in Files
  <2>1. /\ file' = file /\ saved' = saved /\ line' = line /\ caller' = caller
        /\ pc \in {"set", "rehash"}
    BY DEF NoGrowth, Grow, GrowFails, RehashStep, RehashEnd
  <2>2. /\ line \in Nat \ {0} /\ Len(file) \in Nat /\ caller \in {"load", "idle"}
        /\ arg \in Entry
    BY <2>1 DEF MInv, IInv, TypeOK, Called
  <2>3. pc' \in {"rehash", "put", "load", "idle"}
    BY <2>2 DEF NoGrowth, Grow, GrowFails, RehashStep, RehashEnd, Return
  <2> QED
    BY <2>1, <2>2, <2>3, CellFacts
<1>1. Content' = Content
  <2>1. CASE NoGrowth \/ GrowFails
    BY <1>0, <2>1 DEF NoGrowth, GrowFails, Return, Content, Current, MInv, IInv, TypeOK
  <2>2. CASE Grow
    BY <1>0, <2>2 DEF Grow, Content, Current
  <2>3. CASE RehashStep
    BY <1>0, <2>3 DEF RehashStep, Content, Current
  <2>4. CASE RehashEnd
    <3>1. Entries(slots) = Entries(old)
      BY <2>4, RehashEndKeeps DEF MInv
    <3> QED
      BY <2>4, <3>1 DEF RehashEnd, Content, Current
  <2> QED
    BY <2>1, <2>2, <2>3, <2>4
<1>2. Fresh' /\ SaveOK' /\ FileOK'
  BY <1>0 DEF Fresh, SaveOK, FileOK, MInv
<1>3. LoadOK'
  <2> SUFFICES ASSUME Loading' PROVE LoadOK'
    BY DEF LoadOK
  <2>1. Loading /\ caller = "load"
    BY <1>0 DEF Loading, NoGrowth, Grow, GrowFails, RehashStep, RehashEnd, Return
  <2>2. /\ Done = line - 2 /\ Done \in 0..Len(file) /\ line - 1 \in 1..Len(file)
        /\ arg = file[line - 1] /\ Content \subseteq Lines(Done)
        /\ (whole => Lines(Done) \subseteq Content)
    BY <1>0, <2>1 DEF Done, LoadOK, MInv
  <2>3. \A k : Lines(k)' = Lines(k)
    BY <1>0 DEF Lines
  <2>4. CASE GrowFails
    <3>1. pc' = "load" /\ ~whole'
      BY <2>1, <2>4 DEF GrowFails, Return
    <3>2. Done' = Done + 1 /\ Done' = line - 1
      BY <1>0, <2>2, <3>1 DEF Done
    <3>3. Lines(Done) \subseteq Lines(Done + 1)
      BY <2>2, LinesGrow
    <3>4. Lines(Done)' = Lines(Done + 1)
      BY <1>0, <3>2 DEF Lines
    <3> QED
      BY <1>0, <1>1, <2>2, <3>1, <3>2, <3>3, <3>4 DEF LoadOK
  <2>5. CASE ~GrowFails
    <3>1. pc' # "load" /\ whole' = whole /\ arg' = arg
      BY <2>5 DEF NoGrowth, Grow, RehashStep, RehashEnd
    <3>2. Done' = Done
      BY <1>0, <2>2, <3>1 DEF Done
    <3>3. Lines(Done)' = Lines(Done)
      BY <1>0, <3>2 DEF Lines
    <3> QED
      BY <1>0, <1>1, <2>2, <3>1, <3>2, <3>3 DEF LoadOK
  <2> QED
    BY <2>4, <2>5
<1> QED
  BY <1>1, <1>2, <1>3 DEF MInv

LEMMA PutMInv ==
    ASSUME MInv, IInv', Put
    PROVE  /\ MInv' /\ arg \in Entry
           /\ Content' = {x \in Content : x.file # arg.file} \cup {arg}
<1> USE DEF tableVars, fileVars
<1>0. /\ file' = file /\ saved' = saved /\ line' = line /\ caller' = caller
      /\ pc = "put" /\ pc' = caller /\ caller \in {"load", "idle"} /\ db' = db
      /\ line \in Nat \ {0} /\ Len(file) \in Nat /\ arg \in Entry /\ whole' = whole
  BY DEF Put, Return, MInv, IInv, TypeOK, Called
<1>1. Content' = {x \in Content : x.file # arg.file} \cup {arg}
  <2>1. Entries(slots') = {x \in Entries(slots) : x.file # arg.file} \cup {arg}
    BY PutKeeps DEF MInv
  <2> QED
    BY <1>0, <2>1 DEF Content, Current
<1>2. Fresh' /\ SaveOK' /\ FileOK'
  BY <1>0 DEF Fresh, SaveOK, FileOK, MInv
<1>3. LoadOK'
  <2> SUFFICES ASSUME Loading' PROVE LoadOK'
    BY DEF LoadOK
  <2>1. Loading /\ pc' = "load"
    BY <1>0 DEF Loading
  <2>2. /\ Done = line - 2 /\ Done \in 0..Len(file) /\ line - 1 \in 1..Len(file)
        /\ arg = file[line - 1] /\ Content \subseteq Lines(Done)
        /\ (whole => Lines(Done) \subseteq Content)
    BY <1>0, <2>1 DEF Done, LoadOK, MInv
  <2>3. Done' = Done + 1 /\ Done' = line - 1
    BY <1>0, <2>1, <2>2 DEF Done
  <2>4. ASSUME NEW x \in Lines(Done) PROVE x.file # arg.file
    <3>1. PICK n \in 1..Done : x = file[n]
      BY DEF Lines
    <3>2. n \in 1..Len(file) /\ n # line - 1
      BY <1>0, <2>2
    <3> QED
      BY <2>2, <3>1, <3>2 DEF MInv, FileOK, Distinct
  <2>5. Content' = Content \cup {arg}
    BY <1>1, <2>2, <2>4
  <2>6. Lines(Done)' = Lines(Done + 1) /\ Lines(Done + 1) = Lines(Done) \cup {file[Done + 1]}
    <3>1. Lines(Done)' = Lines(Done + 1)
      BY <1>0, <2>3 DEF Lines
    <3> QED
      BY <2>2, <3>1, LinesGrow
  <2>7. file[Done + 1] = arg
    BY <1>0, <2>2
  <2> QED
    BY <1>0, <2>1, <2>2, <2>3, <2>5, <2>6, <2>7 DEF LoadOK
<1> QED
  BY <1>0, <1>1, <1>2, <1>3 DEF MInv

(* The end of a run, with a file in which each file is named once.         *)
LEMMA NoRunMInv ==
    ASSUME MInv, IInv', NoRun("off"), saved' = file', Distinct(file')
    PROVE  MInv'
<1>1. Content' = {} /\ pc' = "off" /\ line' = 1 /\ ~db'
  BY NewTableFacts DEF NoRun, Content, Current
<1> QED
  BY <1>1 DEF MInv, Fresh, LoadOK, Loading, SaveOK, FileOK

LEMMA SaveMInv ==
    ASSUME MInv, IInv', Save \/ SaveStep
    PROVE  MInv' /\ Content' = Content
<1> USE DEF tableVars, fileVars
<1>0. /\ slots' = slots /\ cap' = cap /\ db' = db /\ pc' = "save" /\ pc # "rehash"
      /\ Content' = Content /\ file \in Seq(Entry) /\ Table(slots, cap) /\ Found(slots, cap)
      /\ cap \in Nat /\ i \in Nat
  BY TableFacts DEF Save, SaveStep, Content, Current, MInv, IInv, TypeOK
<1>1. CASE Save
  <2>1. file' = <<>> /\ i' = 0
    BY <1>1 DEF Save
  <2>2. Lines(Len(file))' = {} /\ Distinct(file)'
    BY <2>1 DEF Lines, Distinct
  <2>3. {m \in Used(slots) : m < 0} = {}
    BY <1>0, UsedFacts
  <2>4. Files # {}
    BY <1>1 DEF Save, MInv, FileOK
  <2> QED
    BY <1>0, <2>1, <2>2, <2>3, <2>4 DEF MInv, Fresh, LoadOK, Loading, SaveOK, FileOK
<1>2. CASE SaveStep
  <2>1. /\ pc = "save" /\ i < cap /\ i' = i + 1
        /\ file' = IF slots[i] = Free THEN file ELSE Append(file, slots[i])
        /\ Lines(Len(file)) = {slots[n] : n \in {m \in Used(slots) : m < i}}
        /\ Distinct(file) /\ (db => Files # {})
    BY <1>2 DEF SaveStep, MInv, SaveOK, FileOK
  <2>2. \A n \in Used(slots) : n \in Nat
    BY <1>0, UsedFacts
  <2>3. CASE slots[i] = Free
    <3>1. {m \in Used(slots) : m < i + 1} = {m \in Used(slots) : m < i}
      <4>1. i \notin Used(slots)
        BY <2>3 DEF Used
      <4> QED
        BY <1>0, <2>2, <4>1
    <3>2. file' = file /\ Lines(Len(file))' = Lines(Len(file))
      BY <2>1, <2>3 DEF Lines
    <3> QED
      BY <1>0, <2>1, <3>1, <3>2 DEF MInv, Fresh, LoadOK, Loading, SaveOK, FileOK
  <2>4. CASE slots[i] # Free
    <3>1. i \in Used(slots) /\ slots[i] \in Entry
      BY <1>0, <2>1, <2>4, UsedFacts
    <3>2. \A n : n \in {m \in Used(slots) : m < i + 1} <=> n \in {m \in Used(slots) : m < i} \cup {i}
      <4>1. \A n \in Used(slots) : n < i + 1 <=> (n < i \/ n = i)
        BY <1>0, <2>2
      <4> QED
        BY <3>1, <4>1
    <3>3. ASSUME NEW n \in 1..Len(file) PROVE file[n].file # slots[i].file
      <4>1. file[n] \in Lines(Len(file))
        BY DEF Lines
      <4>2. PICK m \in Used(slots) : m < i /\ file[n] = slots[m]
        BY <2>1, <4>1
      <4>3. m # i
        BY <1>0, <2>2, <4>2
      <4> QED
        BY <1>0, <3>1, <4>2, <4>3, OneSlotPerFile
    <3>4. /\ file' = Append(file, slots[i]) /\ Len(file') = Len(file) + 1 /\ Len(file) \in Nat
          /\ \A n \in 1..Len(file) : file'[n] = file[n]
          /\ file'[Len(file) + 1] = slots[i]
      BY <1>0, <2>1, <2>4, <3>1, AppendFacts
    <3>5. Distinct(file)'
      BY <1>0, <2>1, <3>1, <3>3, <3>4, DistinctAppend
    <3>6. \A x : x \in Lines(Len(file))' <=> x \in Lines(Len(file)) \cup {slots[i]}
      BY <3>4 DEF Lines
    <3>7. Lines(Len(file))' = {slots[n] : n \in {m \in Used(slots) : m < i + 1}}
      BY <2>1, <3>2, <3>6
    <3> QED
      BY <1>0, <2>1, <3>5, <3>7 DEF MInv, Fresh, LoadOK, Loading, SaveOK, FileOK
  <2> QED
    BY <2>3, <2>4
<1> QED
  BY <1>0, <1>1, <1>2

(* A torn file: a prefix of the lines, one more perhaps with another owner. *)
LEMMA TornFacts ==
    ASSUME MInv, SaveTorn
    PROVE  \E f \in Files :
             /\ file' \in Seq(Entry) /\ Distinct(file')
             /\ \A m \in 1..Len(file') : file'[m].file = f \/ file'[m] \in Lines(Len(file))
<1>0. file \in Seq(Entry) /\ Len(file) \in Nat /\ Distinct(file) /\ IInv
  BY DEF MInv, IInv, TypeOK, FileOK
<1>1. PICK n \in 0..Len(file) :
        \/ file' = Cut(n)
        \/ /\ n < Len(file)
           /\ \E o \in Owners : file' = Append(Cut(n), [file[n + 1] EXCEPT !.owner = o])
  BY DEF SaveTorn
<1>2. /\ Cut(n) \in Seq(Entry) /\ Len(Cut(n)) = n
      /\ \A m \in 1..n : Cut(n)[m] = file[m]
  BY <1>0, CutFacts
<1>3. Distinct(Cut(n)) /\ \A m \in 1..n : Cut(n)[m] \in Lines(Len(file))
  BY <1>0, <1>2 DEF Distinct, Lines
<1>4. CASE file' = Cut(n)
  <2>1. PICK f \in Files : TRUE
    BY DEF MInv, SaveOK, SaveTorn
  <2> QED
    BY <1>2, <1>3, <1>4, <2>1
<1>5. ASSUME NEW o \in Owners, n < Len(file),
             file' = Append(Cut(n), [file[n + 1] EXCEPT !.owner = o])
      PROVE  \E f \in Files :
               /\ file' \in Seq(Entry) /\ Distinct(file')
               /\ \A m \in 1..Len(file') : file'[m].file = f \/ file'[m] \in Lines(Len(file))
  <2> DEFINE e == [file[n + 1] EXCEPT !.owner = o]
  <2>1. n + 1 \in 1..Len(file) /\ file[n + 1] \in Entry
    BY <1>0, <1>5
  <2>2. e \in Entry /\ e.file = file[n + 1].file /\ e.file \in Files
    BY <2>1 DEF Entry
  <2>3. file' = Append(Cut(n), e)
    BY <1>5
  <2> HIDE DEF e
  <2>4. /\ file' \in Seq(Entry) /\ Len(file') = n + 1
        /\ \A m \in 1..n : file'[m] = Cut(n)[m]
        /\ file'[n + 1] = e
    BY <1>2, <2>2, <2>3, AppendFacts
  <2>5. \A m \in 1..n : Cut(n)[m].file # e.file
    BY <1>0, <1>2, <2>1, <2>2 DEF Distinct
  <2>6. Distinct(file')
    BY <1>2, <1>3, <2>2, <2>3, <2>5, DistinctAppend
  <2>7. \A m \in 1..Len(file') : file'[m].file = e.file \/ file'[m] \in Lines(Len(file))
    BY <1>3, <2>4
  <2> QED
    BY <2>2, <2>4, <2>6, <2>7
<1> QED
  BY <1>1, <1>4, <1>5

LEMMA NextMInv == MInv /\ [Next]_vars => MInv'
<1> SUFFICES ASSUME MInv, [Next]_vars PROVE MInv'
  OBVIOUS
<1>1. IInv'
  BY NextIInv DEF MInv
<1>2. CASE UNCHANGED vars
  <2>1. UNCHANGED <<pc, caller, i, arg, line, db, slots, cap, count, old, whole, file, saved, intact>>
    BY <1>2 DEF vars, runVars, tableVars, fileVars
  <2>2. Content' = Content /\ Done' = Done /\ (\A k : Lines(k)' = Lines(k)) /\ Loading' = Loading
    BY <2>1 DEF Content, Current, Done, Lines, Loading
  <2>3. Lines(Done)' = Lines(Done) /\ Lines(Len(file))' = Lines(Len(file))
    BY <2>1, <2>2 DEF Lines
  <2>4. Fresh' /\ SaveOK' /\ FileOK'
    BY <2>1, <2>2, <2>3 DEF MInv, Fresh, SaveOK, FileOK
  <2>5. LoadOK'
    BY <2>1, <2>2, <2>3 DEF MInv, LoadOK
  <2> QED
    BY <1>1, <2>4, <2>5 DEF MInv
<1>3. CASE Boot \/ LoadLine \/ LoadEnd \/ \E f \in Files, o \in Owners : Set(f, o)
  BY <1>1, <1>3, LoadStepsMInv
<1>4. CASE NoGrowth \/ Grow \/ GrowFails \/ RehashStep \/ RehashEnd
  BY <1>1, <1>4, GrowthMInv
<1>5. CASE Put
  BY <1>1, <1>5, PutMInv
<1>6. CASE Save \/ SaveStep
  BY <1>1, <1>6, SaveMInv
<1>7. CASE NoSave \/ Killed \/ SaveEnd
  <2>1. NoRun("off") /\ saved' = file' /\ Distinct(file')
    BY <1>7 DEF NoSave, Killed, SaveEnd, MInv, FileOK, fileVars
  <2> QED
    BY <1>1, <2>1, NoRunMInv
<1>8. CASE SaveTorn
  <2>1. NoRun("off") /\ saved' = file'
    BY <1>8 DEF SaveTorn
  <2>2. Distinct(file')
    BY <1>8, TornFacts
  <2> QED
    BY <1>1, <2>1, <2>2, NoRunMInv
<1> QED
  BY <1>2, <1>3, <1>4, <1>5, <1>6, <1>7, <1>8 DEF Next

-----------------------------------------------------------------------------
(* What the table and the file mean, by their entries. *)
Means(m, E) == \A f \in Files :
    /\ \A e \in E : e.file = f => m[f] = e.owner
    /\ (\A e \in E : e.file # f) => m[f] = NoOwner

LEMMA SameMeaning ==
    ASSUME NEW m, NEW n, NEW E, m = [f \in Files |-> m[f]], n = [f \in Files |-> n[f]],
           Means(m, E), Means(n, E)
    PROVE  m = n
<1>1. ASSUME NEW f \in Files PROVE m[f] = n[f]
  BY DEF Means
<1> QED
  BY <1>1

TableIsMap ==
    /\ Up => Means(TableMap, Content)
    /\ ~Up => TableMap = [f \in Files |-> NoOwner]
    /\ TableMap = [f \in Files |-> TableMap[f]]
    /\ Content \in SUBSET Entry

LEMMA TableMeans == IInv => TableIsMap
<1> SUFFICES ASSUME IInv PROVE TableIsMap
  OBVIOUS
<1>1. TableMap = [f \in Files |-> TableMap[f]] /\ (~Up => TableMap = [f \in Files |-> NoOwner])
  BY DEF TableMap
<1>2. ASSUME Up, NEW f \in Files
      PROVE  /\ \A e \in Content : e.file = f => TableMap[f] = e.owner
             /\ (\A e \in Content : e.file # f) => TableMap[f] = NoOwner
  <2>1. CASE pc = "rehash"
    <3>1. Table(old, OldCap) /\ (OldCap > 0 => Room(old, OldCap)) /\ Found(old, OldCap)
      BY <2>1, TableFacts DEF IInv, Rehashing
    <3>2. TableMap[f] = emuroot_owner_lookup(old, OldCap, f) /\ Content = Entries(old)
      BY <1>2, <2>1 DEF TableMap, Content, Current
    <3> QED
      BY <3>1, <3>2, LookupIs
  <2>2. CASE pc # "rehash"
    <3>1. Table(slots, cap) /\ (cap > 0 => Room(slots, cap)) /\ Found(slots, cap)
      BY TableFacts DEF IInv
    <3>2. TableMap[f] = emuroot_owner_lookup(slots, cap, f) /\ Content = Entries(slots)
      BY <1>2, <2>2 DEF TableMap, Content, Current
    <3> QED
      BY <3>1, <3>2, LookupIs
  <2> QED
    BY <2>1, <2>2
<1>3. Content \in SUBSET Entry
  <2>1. Table(slots, cap) /\ Table(old, OldCap)
    BY TableFacts
  <2> QED
    BY <2>1, UsedFacts DEF Content, Current, Entries
<1> QED
  BY <1>1, <1>2, <1>3 DEF Means, TableIsMap

LEMMA TableMeansNext == IInv' => TableIsMap'
BY TableMeans, PTL

LEMMA FileMeans ==
    ASSUME NEW lines \in Seq(Entry), Distinct(lines)
    PROVE  /\ Means(FileMap(lines), {lines[n] : n \in 1..Len(lines)})
           /\ FileMap(lines) = [f \in Files |-> FileMap(lines)[f]]
<1>1. FileMap(lines) = [f \in Files |-> FileMap(lines)[f]]
  BY DEF FileMap
<1>2. ASSUME NEW f \in Files
      PROVE  /\ \A n \in 1..Len(lines) : lines[n].file = f => FileMap(lines)[f] = lines[n].owner
             /\ (\A n \in 1..Len(lines) : lines[n].file # f) => FileMap(lines)[f] = NoOwner
  <2> DEFINE at == {n \in DOMAIN lines : lines[n].file = f}
  <2>1. FileMap(lines)[f] = IF at = {} THEN NoOwner ELSE lines[Max(at)].owner
    BY DEF FileMap
  <2>2. DOMAIN lines = 1..Len(lines) /\ Len(lines) \in Nat
    OBVIOUS
  <2>3. ASSUME NEW n \in 1..Len(lines), lines[n].file = f PROVE Max(at) = n /\ at # {}
    <3>1. at = {n}
      BY <2>2, <2>3 DEF Distinct
    <3> QED
      BY <3>1 DEF Max
  <2> QED
    BY <2>1, <2>2, <2>3
<1> QED
  BY <1>1, <1>2 DEF Means

LEMMA MapTyped ==
    ASSUME NEW m, NEW E \in SUBSET Entry, m = [f \in Files |-> m[f]], Means(m, E)
    PROVE  m \in Map!Maps
<1>1. ASSUME NEW f \in Files PROVE m[f] \in Owners \cup {NoOwner}
  BY CellFacts DEF Means
<1> QED
  BY <1>1 DEF Map!Maps

(* Steps that the map does not see: the table in force keeps its entries,  *)
(* or no run has begun.                                                    *)
LEMMA UpStutters ==
    ASSUME IInv, IInv', Up, Up', Content' = Content
    PROVE  TableMap' = TableMap
<1>1. /\ Means(TableMap, Content) /\ TableMap = [f \in Files |-> TableMap[f]]
      /\ Means(TableMap', Content) /\ TableMap' = [f \in Files |-> TableMap'[f]]
  BY TableMeans, TableMeansNext DEF TableIsMap
<1> QED
  BY <1>1, SameMeaning

LEMMA DownStutters ==
    ASSUME IInv, IInv', ~Up, ~Up', UNCHANGED fileVars
    PROVE  UNCHANGED Map!mapVars
<1>1. TableMap' = TableMap
  BY TableMeans, TableMeansNext DEF TableIsMap
<1>2. Up' = Up
  BY DEF Up
<1>3. (Up => whole)' = (Up => whole)
  OBVIOUS
<1> QED
  BY <1>1, <1>2, <1>3 DEF Map!mapVars, fileVars

LEMMA UpIs ==
    /\ pc = "off" => ~Up
    /\ pc \in {"idle", "save"} => Up
    /\ pc = "load" => ~Up
    /\ pc \in {"set", "rehash", "put"} => (Up <=> caller # "load")
BY DEF Up, Loading

LEMMA UpIsNext ==
    /\ pc' = "off" => ~Up'
    /\ pc' \in {"idle", "save"} => Up'
    /\ pc' = "load" => ~Up'
    /\ pc' \in {"set", "rehash", "put"} => (Up' <=> caller' # "load")
BY DEF Up, Loading

LEMMA WithinMeans ==
    ASSUME NEW m, NEW n, NEW E, NEW F, Means(m, E), Means(n, F), E \subseteq F, NEW f \in Files
    PROVE  m[f] \in {n[f], NoOwner}
BY DEF Means

LEMMA FileIs ==
    ASSUME MInv
    PROVE  /\ Means(FileMap(file), Lines(Len(file)))
           /\ FileMap(file) = [f \in Files |-> FileMap(file)[f]]
<1>1. file \in Seq(Entry) /\ Distinct(file)
  BY DEF MInv, IInv, TypeOK, FileOK
<1> QED
  BY <1>1, FileMeans DEF Lines

LEMMA RefInit == Init => Map!MapInit
<1> SUFFICES ASSUME Init PROVE Map!MapInit
  OBVIOUS
<1>1. ~Up /\ TableMap = [f \in Files |-> NoOwner]
  BY InitIInv, TableMeans, UpIs DEF Init, TableIsMap
<1>2. FileMap(saved) = [f \in Files |-> NoOwner]
  BY DEF Init, FileMap
<1>3. Up = FALSE
  BY <1>1 DEF Up
<1> QED
  BY <1>1, <1>2, <1>3 DEF Init, Map!MapInit, Map!Empty

(* A run begins when the file has been read, or could not be.              *)
LEMMA RefBegin ==
    ASSUME MInv, MInv', LoadEnd \/ (Boot /\ pc' = "idle")
    PROVE  Map!Begin
<1> USE DEF tableVars, fileVars
<1>1. /\ ~Up /\ Up' /\ saved' = saved /\ intact' = intact /\ file = saved
      /\ slots' = slots /\ pc # "rehash" /\ pc' # "rehash"
  BY UpIs, UpIsNext DEF LoadEnd, Boot, MInv, FileOK
<1>2. Content' = Content
  BY <1>1 DEF Content, Current
<1>3. /\ Means(FileMap(saved), Lines(Len(file))) /\ FileMap(saved) = [f \in Files |-> FileMap(saved)[f]]
  BY <1>1, FileIs
<1>4. /\ Means(TableMap', Content) /\ TableMap' = [f \in Files |-> TableMap'[f]]
      /\ Content \in SUBSET Entry
  BY <1>1, <1>2, TableMeans, TableMeansNext DEF TableIsMap, MInv
<1>5. Content \subseteq Lines(Len(file)) /\ (whole' => Lines(Len(file)) = Content)
  <2>1. CASE LoadEnd
    <3>1. pc = "load" /\ line > Len(file) /\ whole' = whole /\ Loading
      BY <2>1 DEF LoadEnd, Loading
    <3>2. whole \in BOOLEAN /\ line \in Nat /\ Len(file) \in Nat
      BY DEF MInv, IInv, TypeOK
    <3>3. Done \in 0..Len(file) /\ Content \subseteq Lines(Done) /\ (whole => Lines(Done) \subseteq Content)
      BY <3>1 DEF MInv, LoadOK
    <3>4. Done = Len(file)
      BY <3>1, <3>2, <3>3 DEF Done
    <3>5. Content \subseteq Lines(Len(file)) /\ (whole => Lines(Len(file)) = Content)
      BY <3>3, <3>4
    <3> QED
      BY <3>1, <3>2, <3>5
  <2>2. CASE Boot /\ pc' = "idle"
    <3>1. whole' = FALSE
      BY <2>2 DEF Boot
    <3>2. Content = {}
      BY <2>2 DEF Boot, MInv, Fresh
    <3> QED
      BY <3>1, <3>2
  <2> QED
    BY <2>1, <2>2
<1>6. TableMap' \in Map!Maps
  BY <1>4, MapTyped
<1>7. \A f \in Files : TableMap'[f] \in {FileMap(saved)[f], NoOwner}
  BY <1>3, <1>4, <1>5, WithinMeans
<1>8. (Up => whole)' => TableMap' = FileMap(saved)
  <2> SUFFICES ASSUME (Up => whole)' PROVE TableMap' = FileMap(saved)
    OBVIOUS
  <2>1. Lines(Len(file)) = Content
    BY <1>1, <1>5
  <2> QED
    BY <1>3, <1>4, <2>1, SameMeaning
<1>9. FileMap(saved)' = FileMap(saved)
  BY <1>1
<1>10. Up' = TRUE /\ (Up => whole)' \in BOOLEAN
  BY <1>1 DEF Up
<1> QED
  BY <1>1, <1>6, <1>7, <1>8, <1>9, <1>10 DEF Map!Begin, Map!Within

(* An owner is remembered when its slot is written.                        *)
LEMMA RefRemember ==
    ASSUME MInv, MInv', Put, Up
    PROVE  \E f \in Files, o \in Owners : Map!Remember(f, o)
<1> USE DEF tableVars, fileVars
<1>1. /\ arg \in Entry /\ Content' = {x \in Content : x.file # arg.file} \cup {arg}
      /\ arg.file \in Files /\ arg.owner \in Owners
  BY PutMInv, CellFacts DEF MInv
<1>2. /\ Up' /\ saved' = saved /\ intact' = intact /\ whole' = whole
  <2>1. pc = "put" /\ pc' = caller /\ caller \in {"load", "idle"}
    BY DEF Put, Return, MInv, IInv, TypeOK
  <2>2. pc' = "idle"
    BY <2>1, UpIs
  <2> QED
    BY <2>2, UpIsNext DEF Put
<1>3. /\ Means(TableMap, Content) /\ TableMap = [f \in Files |-> TableMap[f]]
      /\ Means(TableMap', Content') /\ TableMap' = [f \in Files |-> TableMap'[f]]
  BY <1>2, TableMeans, TableMeansNext DEF TableIsMap, MInv
<1> DEFINE m == [TableMap EXCEPT ![arg.file] = arg.owner]
<1>4. m = [f \in Files |-> m[f]] /\ \A f \in Files : m[f] = IF f = arg.file THEN arg.owner ELSE TableMap[f]
  BY <1>3
<1> HIDE DEF m
<1>5. Means(m, Content')
  <2> SUFFICES ASSUME NEW f \in Files
               PROVE  /\ \A e \in Content' : e.file = f => m[f] = e.owner
                      /\ (\A e \in Content' : e.file # f) => m[f] = NoOwner
    BY DEF Means
  <2>1. CASE f = arg.file
    BY <1>1, <1>4, <2>1
  <2>2. CASE f # arg.file
    <3>1. m[f] = TableMap[f]
      BY <1>4, <2>2
    <3>2. \A e : e.file = f => (e \in Content' <=> e \in Content)
      BY <1>1, <2>2
    <3> QED
      BY <1>3, <3>1, <3>2 DEF Means
  <2> QED
    BY <2>1, <2>2
<1>6. TableMap' = m
  BY <1>3, <1>4, <1>5, SameMeaning
<1>7. Up' = Up /\ (Up => whole)' = (Up => whole)
  <2>1. Up' = Up
    BY <1>2 DEF Up
  <2> QED
    BY <1>2, <2>1
<1>8. FileMap(saved)' = FileMap(saved)
  BY <1>2
<1>9. Map!Remember(arg.file, arg.owner)
  BY <1>2, <1>6, <1>7, <1>8 DEF Map!Remember, m
<1> QED
  BY <1>1, <1>9

(* The end of a run.                                                       *)
LEMMA RefOver ==
    ASSUME MInv, MInv', NoRun("off"), Up
    PROVE  Map!Over
<1>1. ~Up'
  BY UpIsNext DEF NoRun
<1>2. TableMap' = [f \in Files |-> NoOwner]
  BY <1>1, TableMeansNext DEF TableIsMap, MInv
<1>3. Up' = FALSE /\ (Up => whole)' = TRUE
  BY <1>1 DEF Up
<1> QED
  BY <1>2, <1>3 DEF Map!Over, Map!Empty

LEMMA RefEnd ==
    ASSUME MInv, MInv', SaveEnd
    PROVE  Map!End
<1>1. /\ pc = "save" /\ i = cap /\ saved' = file /\ intact' = TRUE /\ NoRun("off") /\ Up
      /\ Content = Entries(slots)
  BY UpIs DEF SaveEnd, Content, Current
<1>2. {m \in Used(slots) : m < i} = Used(slots)
  <2>1. Table(slots, cap)
    BY TableFacts DEF MInv
  <2>2. \A m \in Used(slots) : m < i
    <3>1. cap \in Nat /\ \A m \in Used(slots) : m \in 0..(cap - 1)
      <4>1. Used(slots) = {n \in 0..(cap - 1) : slots[n] # Free}
        BY <2>1, UsedFacts
      <4> QED
        BY <2>1, <4>1 DEF Table
    <3> QED
      BY <1>1, <3>1
  <2> QED
    BY <2>2
<1>3. Lines(Len(file)) = Content
  BY <1>1, <1>2 DEF MInv, SaveOK, Entries
<1>4. FileMap(file) = TableMap
  <2>1. Means(TableMap, Content) /\ TableMap = [f \in Files |-> TableMap[f]]
    BY <1>1, TableMeans DEF TableIsMap, MInv
  <2> QED
    BY <1>3, <2>1, FileIs, SameMeaning
<1>5. FileMap(saved)' = TableMap
  BY <1>1, <1>4
<1>6. Map!Over
  BY <1>1, RefOver
<1> QED
  BY <1>1, <1>5, <1>6 DEF Map!End

LEMMA RefTorn ==
    ASSUME MInv, MInv', SaveTorn
    PROVE  Map!EndTorn
<1>1. /\ pc = "save" /\ saved' = file' /\ intact' = FALSE /\ NoRun("off") /\ Up
      /\ Content = Entries(slots)
  BY UpIs DEF SaveTorn, Content, Current
<1>2. PICK f \in Files :
        /\ file' \in Seq(Entry) /\ Distinct(file')
        /\ \A m \in 1..Len(file') : file'[m].file = f \/ file'[m] \in Lines(Len(file))
  BY TornFacts
<1> DEFINE E == {file'[m] : m \in 1..Len(file')}
<1>3. Means(FileMap(file'), E) /\ FileMap(file') = [g \in Files |-> FileMap(file')[g]]
  BY <1>2, FileMeans
<1>4. E \in SUBSET Entry
  BY <1>2
<1>5. Lines(Len(file)) \subseteq Content
  BY <1>1 DEF MInv, SaveOK, Entries
<1>6. \A e \in E : e.file = f \/ e \in Content
  BY <1>2, <1>5
<1> HIDE DEF E
<1>7. FileMap(file') \in Map!Maps
  BY <1>3, <1>4, MapTyped
<1>8. Means(TableMap, Content)
  BY <1>1, TableMeans DEF TableIsMap, MInv
<1>9. ASSUME NEW g \in Files \ {f} PROVE FileMap(file')[g] \in {TableMap[g], NoOwner}
  BY <1>3, <1>6, <1>8 DEF Means
<1>10. FileMap(saved)' = FileMap(file')
  BY <1>1
<1>11. Map!Over
  BY <1>1, RefOver
<1> QED
  BY <1>1, <1>7, <1>9, <1>10, <1>11 DEF Map!EndTorn

LEMMA RefNext ==
    ASSUME MInv, MInv', [Next]_vars
    PROVE  [Map!MapNext]_(Map!mapVars)
<1> USE DEF tableVars, fileVars
<1>0. IInv /\ IInv' /\ caller \in {"load", "idle"}
  BY DEF MInv, IInv, TypeOK
(* a step that changes neither the entries, the file nor the mode *)
<1>1. ASSUME Content' = Content, UNCHANGED <<saved, intact, whole>>, Up' = Up
      PROVE  UNCHANGED Map!mapVars
  <2>1. TableMap' = TableMap
    <3>1. CASE Up
      BY <1>0, <1>1, <3>1, UpStutters
    <3>2. CASE ~Up
      BY <1>0, <1>1, <3>2, TableMeans, TableMeansNext DEF TableIsMap
    <3> QED
      BY <3>1, <3>2
  <2>2. FileMap(saved)' = FileMap(saved) /\ (Up => whole)' = (Up => whole)
    BY <1>1
  <2> QED
    BY <1>1, <2>1, <2>2 DEF Map!mapVars
<1>2. CASE UNCHANGED vars
  <2>1. Content' = Content /\ UNCHANGED <<saved, intact, whole>> /\ Up' = Up
    BY <1>2 DEF vars, runVars, Content, Current, Up, Loading
  <2> QED
    BY <1>1, <2>1
<1>3. CASE LoadEnd \/ (Boot /\ pc' = "idle")
  BY <1>3, RefBegin DEF Map!MapNext
<1>4. CASE (Boot /\ pc' # "idle") \/ LoadLine
  <2>1. ~Up /\ ~Up' /\ UNCHANGED fileVars
    BY <1>4, UpIs, UpIsNext DEF Boot, LoadLine
  <2> QED
    BY <1>0, <2>1, DownStutters
<1>5. CASE \E f \in Files, o \in Owners : Set(f, o)
  <2>1. Content' = Content /\ UNCHANGED <<saved, intact, whole>>
    BY <1>5 DEF Set, Content, Current
  <2>2. Up /\ Up'
    BY <1>5, UpIs, UpIsNext DEF Set
  <2>3. Up' = Up
    BY <2>2 DEF Up
  <2> QED
    BY <1>1, <2>1, <2>3
<1>6. CASE NoGrowth \/ Grow \/ RehashStep \/ RehashEnd
  <2>1. Content' = Content
    BY <1>0, <1>6, GrowthMInv
  <2>2. UNCHANGED <<saved, intact, whole>>
    BY <1>6 DEF NoGrowth, Grow, RehashStep, RehashEnd
  <2>3. /\ pc \in {"set", "rehash"} /\ pc' \in {"rehash", "put"} /\ caller' = caller
    BY <1>6 DEF NoGrowth, Grow, RehashStep, RehashEnd
  <2>4. Up' <=> Up
    BY <2>3, UpIs, UpIsNext
  <2>5. Up' = Up
    BY <2>4 DEF Up
  <2> QED
    BY <1>1, <2>1, <2>2, <2>5
<1>7. CASE GrowFails
  <2>1. Content' = Content
    BY <1>0, <1>7, GrowthMInv
  <2>2. saved' = saved /\ intact' = intact /\ file' = file /\ whole' = FALSE
        /\ pc = "set" /\ pc' = caller
    BY <1>7 DEF GrowFails, Return
  <2>3. CASE Up
    <3>1. pc' = "idle"
      BY <1>0, <2>2, <2>3, UpIs
    <3>2. Up'
      BY <3>1, UpIsNext
    <3>3. TableMap' = TableMap
      BY <1>0, <2>1, <2>3, <3>2, UpStutters
    <3>4. Up' = Up /\ (Up => whole)' = FALSE
      BY <2>2, <2>3, <3>2 DEF Up
    <3>5. Map!Forget
      BY <2>2, <2>3, <3>3, <3>4 DEF Map!Forget
    <3> QED
      BY <3>5 DEF Map!MapNext
  <2>4. CASE ~Up
    <3>1. pc' = "load"
      BY <2>2, <2>4, UpIs
    <3>2. ~Up'
      BY <3>1, UpIsNext
    <3> QED
      BY <1>0, <2>2, <2>4, <3>2, DownStutters
  <2> QED
    BY <2>3, <2>4
<1>8. CASE Put
  <2>1. CASE Up
    BY <1>8, <2>1, RefRemember DEF Map!MapNext
  <2>2. CASE ~Up
    <3>1. pc = "put" /\ pc' = caller /\ UNCHANGED fileVars
      BY <1>8 DEF Put, Return
    <3>2. pc' = "load"
      BY <2>2, <3>1, UpIs
    <3>3. ~Up'
      BY <3>2, UpIsNext
    <3> QED
      BY <1>0, <2>2, <3>1, <3>3, DownStutters
  <2> QED
    BY <2>1, <2>2
<1>9. CASE Save \/ SaveStep
  <2>1. Content' = Content
    BY <1>0, <1>9, SaveMInv
  <2>2. UNCHANGED <<saved, intact, whole>> /\ pc \in {"idle", "save"} /\ pc' = "save"
    BY <1>9 DEF Save, SaveStep
  <2>3. Up /\ Up'
    BY <2>2, UpIs, UpIsNext
  <2>4. Up' = Up
    BY <2>3 DEF Up
  <2> QED
    BY <1>1, <2>1, <2>2, <2>4
<1>10. CASE NoSave \/ Killed
  <2>1. NoRun("off") /\ saved' = saved /\ intact' = intact /\ file' = file
    BY <1>10 DEF NoSave, Killed
  <2>2. CASE Up
    <3>1. Map!EndUnsaved
      BY <2>1, <2>2, RefOver DEF Map!EndUnsaved
    <3> QED
      BY <3>1 DEF Map!MapNext
  <2>3. CASE ~Up
    <3>1. ~Up'
      BY <2>1, UpIsNext DEF NoRun
    <3> QED
      BY <1>0, <2>1, <2>3, <3>1, DownStutters
  <2> QED
    BY <2>2, <2>3
<1>11. CASE SaveEnd
  BY <1>11, RefEnd DEF Map!MapNext
<1>12. CASE SaveTorn
  BY <1>12, RefTorn DEF Map!MapNext
<1> QED
  BY <1>2, <1>3, <1>4, <1>5, <1>6, <1>7, <1>8, <1>9, <1>10, <1>11, <1>12 DEF Next

(* The hash table of ownership.c, with its growth, the failures of its     *)
(* memory, its file and the death of the tracer at any step, implements    *)
(* the map of OwnerMap: every lookup answers what was last recorded, and a *)
(* run starts with what the run before it saved.                           *)
THEOREM ImplementsMap == Spec => IsAMap
<1>1. Init => Map!MapInit
  BY RefInit
<1>2. MInv /\ MInv' /\ [Next]_vars => [Map!MapNext]_(Map!mapVars)
  BY RefNext
<1>3. Spec => []MInv
  BY InitMInv, NextMInv, PTL DEF Spec
<1> QED
  BY <1>1, <1>2, <1>3, PTL DEF Spec, IsAMap, Map!MapSpec
=============================================================================
