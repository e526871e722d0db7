--------------------------- MODULE NamespaceProofs ---------------------------
(* Proofs about paths and the namespace calls, for any directories,        *)
(* symlinks, bindings and limits: every path emuroot makes is one, the     *)
(* list of bindings keeps its limit, every walk ends; a walk leads where   *)
(* that of a kernel with a real root and real mounts does, the last        *)
(* component is left alone where the call says so, and the two mappings    *)
(* between guest and host paths are inverse.                               *)
EXTENDS Namespace, SequenceTheorems, WellFoundedInduction, TLAPS

Text == Seq(STRING)
Full == Text \ {Empty}
BindingType == [host : Full, guest : Full, mount : Text]

-----------------------------------------------------------------------------
(* Arithmetic: a set of naturals has a least member, a bounded one a       *)
(* greatest.                                                               *)
LEMMA Least ==
    ASSUME NEW T \in SUBSET Nat, T # {}
    PROVE  \E x \in T : \A y \in T : x <= y
<1> DEFINE R == {ss \in Nat \X Nat : ss[1] < ss[2]}
<1>1. IsWellFoundedOn(R, Nat)
  BY NatLessThanWellFounded DEF OpToRel
<1> HIDE DEF R
<1>2. PICK x \in T : \A y \in T : ~ (<<y, x>> \in R)
  BY <1>1, WFMin
<1>3. \A y \in T : ~ (y < x)
  BY <1>2 DEF R
<1> QED
  BY <1>3

LEMMA Greatest ==
    ASSUME NEW T \in SUBSET Nat, T # {}, NEW n \in Nat, \A x \in T : x <= n
    PROVE  \E x \in T : \A y \in T : y <= x
<1> DEFINE U == {d \in Nat : \E x \in T : x + d = n}
<1>1. U # {}
  <2>1. PICK x \in T : TRUE
    OBVIOUS
  <2>2. n - x \in Nat /\ x + (n - x) = n
    BY <2>1
  <2> QED
    BY <2>2
<1>2. PICK d \in U : \A e \in U : d <= e
  BY <1>1, Least
<1>3. PICK x \in T : x + d = n
  BY <1>2
<1>4. \A y \in T : n - y \in U
  <2>1. \A y \in T : n - y \in Nat /\ y + (n - y) = n
    OBVIOUS
  <2> QED
    BY <2>1
<1>5. \A y \in T : y <= x
  <2>1. \A y \in T : d <= n - y
    BY <1>2, <1>4
  <2> QED
    BY <1>2, <1>3, <2>1
<1> QED
  BY <1>5

-----------------------------------------------------------------------------
(* Paths. *)
LEMMA PathOps ==
    ASSUME NEW s \in Text
    PROVE  /\ Len(s) \in Nat /\ OrSlash(s) \in Full /\ Unslashed(s) \in Text
           /\ Length(s) \in Nat /\ Length(s) <= Len(s)
           /\ pop_component(s) \in Full
           /\ \A c \in STRING : push_component(s, c) \in Full
<1>1. Len(s) \in Nat /\ Slash \in Full /\ Empty \in Text /\ Len(Empty) = 0
  <2>1. Empty \in Text /\ Len(Empty) = 0
    BY DEF Empty, Text
  <2>2. Slash \in Full
    BY HostAssumption DEF Full, Text
  <2>3. Len(s) \in Nat
    BY LenProperties DEF Text
  <2> QED
    BY <2>1, <2>2, <2>3 DEF Full, Text
<1>2. OrSlash(s) \in Full /\ Unslashed(s) \in Text
  BY <1>1 DEF OrSlash, Unslashed, Full
<1>3. Length(s) \in Nat /\ Length(s) <= Len(s)
  BY <1>1 DEF Length, Unslashed
<1>4. pop_component(s) \in Full
  <2>1. \A i \in 1 .. Len(s) - 1 : s[i] \in STRING
    BY <1>1 DEF Text
  <2>2. Front(s) \in Text
    BY <1>1, <2>1, SubSeqProperties DEF Front, Text
  <2> QED
    BY <1>1, <2>2 DEF pop_component, OrSlash, Full
<1>5. \A c \in STRING : push_component(s, c) \in Full
  <2> SUFFICES ASSUME NEW c \in STRING PROVE push_component(s, c) \in Full
    OBVIOUS
  <2>1. PICK u \in Text : u = Unslashed(s)
    BY <1>2
  <2>2. Append(u, c) \in Seq(STRING) /\ Len(Append(u, c)) = Len(u) + 1 /\ Len(u) \in Nat
    BY AppendProperties, LenProperties DEF Text
  <2>3. Append(u, c) # Empty
    <3>1. PICK w : w = Append(u, c)
      OBVIOUS
    <3>2. Len(w) # 0
      BY <2>2, <3>1
    <3> QED
      BY <1>1, <3>1, <3>2
  <2> QED
    BY <2>1, <2>2, <2>3 DEF push_component, Full, Text
<1> QED
  BY <1>1, <1>2, <1>3, <1>4, <1>5

LEMMA DropTyped ==
    ASSUME NEW s \in Text, NEW n \in Nat
    PROVE  /\ Drop(s, n) \in Text
           /\ n <= Len(s) => Len(Drop(s, n)) = Len(s) - n
<1>1. Len(s) \in Nat /\ \A i \in n + 1 .. Len(s) : s[i] \in STRING
  BY DEF Text
<1>2. SubSeq(s, n + 1, Len(s)) \in Seq(STRING)
      /\ Len(SubSeq(s, n + 1, Len(s))) = IF n + 1 <= Len(s) THEN Len(s) - (n + 1) + 1 ELSE 0
  BY <1>1, SubSeqProperties
<1> QED
  BY <1>1, <1>2 DEF Drop, Text

LEMMA JoinTyped ==
    ASSUME NEW s \in Text, NEW u \in Text
    PROVE  /\ s \o u \in Text
           /\ (s \in Full \/ u \in Full) => s \o u \in Full
<1>1. s \o u \in Text /\ Len(s \o u) = Len(s) + Len(u) /\ Len(s) \in Nat /\ Len(u) \in Nat
  BY ConcatProperties, LenProperties DEF Text
<1>2. (s \in Full \/ u \in Full) => Len(s \o u) > 0
  BY <1>1, EmptySeq DEF Full, Text, Empty
<1>3. (s \o u = Empty) => Len(s \o u) = 0
  BY DEF Empty
<1> QED
  BY <1>1, <1>2, <1>3 DEF Full

(* A scan for the longest candidate finds one of them. *)
LEMMA ScanFinds ==
    ASSUME NEW I \in SUBSET Nat, I # {}, NEW path \in [I -> Text],
           NEW n \in Nat, \A i \in I : Length(path[i]) <= n,
           NEW m \in Nat, \A i \in I : i <= m
    PROVE  LatestLongest(path) \in I /\ FirstLongest(path) \in I
<1>1. \A i \in I : Length(path[i]) \in Nat
  BY PathOps
<1> DEFINE L == {Length(path[i]) : i \in I}
<1>2. PICK x \in L : \A y \in L : y <= x
  <2>1. L \subseteq Nat /\ L # {} /\ \A y \in L : y <= n
    BY <1>1
  <2> HIDE DEF L
  <2> QED
    BY <2>1, Greatest
<1>3. PICK i \in I : Length(path[i]) = x
  BY <1>2
<1>4. i \in Longest(path) /\ Longest(path) \subseteq I
  BY <1>2, <1>3 DEF Longest
<1>5. Longest(path) \in SUBSET Nat /\ Longest(path) # {} /\ \A j \in Longest(path) : j <= m
  BY <1>4
<1>6. /\ \E j \in Longest(path) : \A k \in Longest(path) : k <= j
      /\ \E j \in Longest(path) : \A k \in Longest(path) : j <= k
  BY <1>5, Greatest, Least
<1>7. LatestLongest(path) \in Longest(path) /\ FirstLongest(path) \in Longest(path)
  BY <1>6 DEF LatestLongest, FirstLongest
<1> QED
  BY <1>4, <1>7

LEMMA NamesTyped ==
    /\ Slash \in Full /\ Empty \in Text /\ Len(Empty) = 0
    /\ << "proc" >> \in Full /\ << "tracer" >> \in Full
<1>1. Slash \in Full
  BY HostAssumption DEF Full, Text
<1>2. Empty \in Text /\ Len(Empty) = 0
  BY DEF Empty, Text
<1>3. << "proc" >> \in Full
  <2>1. << "proc" >> \in Seq(STRING)
    BY StringAssumption
  <2>2. << "proc" >> # Empty
    BY DEF Empty
  <2> QED
    BY <2>1, <2>2 DEF Full, Text
<1>4. << "tracer" >> \in Full
  <2>1. << "tracer" >> \in Seq(STRING)
    BY StringAssumption
  <2>2. << "tracer" >> # Empty
    BY DEF Empty
  <2> QED
    BY <2>1, <2>2 DEF Full, Text
<1> QED
  BY <1>1, <1>2, <1>3, <1>4

LEMMA PrefixShorter ==
    ASSUME NEW s \in Text, NEW u \in Text, has_prefix(u, s)
    PROVE  Len(s) <= Len(u)
<1> QED
  BY LenProperties DEF has_prefix, IsPrefix, Text

(* What a scan of the bindings makes of a path: the part of it past the    *)
(* first n components, below s.                                            *)
Below(s, u, n) == OrSlash(Unslashed(s) \o Drop(u, n))
ByBinding(b, g, w) == \E i \in Bound(b, g) : w = Below(b[i].host, g, Length(b[i].guest))
ByMount(b, u, w) == \E i \in Mounted(b, u) : w = Below(b[i].host, u, Len(b[i].mount))

LEMMA MapIs ==
    ASSUME NEW b \in Seq(BindingType), NEW r \in Text, NEW g \in Full
    PROVE  \/ Bound(b, g) # {} /\ ByBinding(b, g, map_to_host(b, r, g))
           \/ /\ Bound(b, g) = {} /\ Mounted(b, r \o g) # {}
              /\ ByMount(b, r \o g, map_to_host(b, r, g))
           \/ Bound(b, g) = {} /\ Mounted(b, r \o g) = {} /\ map_to_host(b, r, g) = r \o g
<1>1. PICK n \in Nat : n = Len(b) /\ DOMAIN b = 1 .. n /\ \A i \in 1 .. n : b[i] \in BindingType
  BY LenProperties, ElementOfSeq
<1>2. \A i \in 1 .. n : b[i].host \in Full /\ b[i].guest \in Full /\ b[i].mount \in Text
  BY <1>1 DEF BindingType
<1>3. g \in Text /\ Len(g) \in Nat
  BY LenProperties DEF Full, Text
<1>4. PICK out \in Full : out = r \o g
  BY <1>3, JoinTyped
<1>5. out \in Text /\ Len(out) \in Nat
  BY LenProperties DEF Full, Text
<1> DEFINE bd == Bound(b, g)
           bpath == [i \in bd |-> b[i].guest]
           best == LatestLongest(bpath)
           md == Mounted(b, out)
           mpath == [i \in md |-> b[i].mount]
           over == LatestLongest(mpath)
<1>6. bd # {} => best \in bd
  <2>1. bd \subseteq 1 .. n
    BY <1>1 DEF Bound
  <2>2. bpath \in [bd -> Text]
    BY <1>2, <2>1 DEF Full
  <2>3. \A i \in bd : Length(bpath[i]) <= Len(g)
    <3> SUFFICES ASSUME NEW i \in bd PROVE Length(b[i].guest) <= Len(g)
      OBVIOUS
    <3>1. b[i].guest \in Text
      BY <1>2, <2>1 DEF Full
    <3>2. CASE b[i].guest = Slash
      BY <1>3, <3>2 DEF Length, Unslashed, Empty
    <3>3. CASE has_prefix(g, b[i].guest)
      BY <1>3, <3>1, <3>3, PathOps, PrefixShorter
    <3> QED
      BY <3>2, <3>3 DEF Bound
  <2>4. bd \in SUBSET Nat /\ \A i \in bd : i <= n
    BY <2>1
  <2> HIDE DEF bd, bpath
  <2> QED
    BY <1>3, <2>2, <2>3, <2>4, ScanFinds
<1>7. md # {} => over \in md
  <2>1. md \subseteq 1 .. n
    BY <1>1 DEF Mounted
  <2>2. mpath \in [md -> Text]
    BY <1>2, <2>1
  <2>3. \A i \in md : Length(mpath[i]) <= Len(out)
    <3> SUFFICES ASSUME NEW i \in md PROVE Length(b[i].mount) <= Len(out)
      OBVIOUS
    <3>1. b[i].mount \in Text
      BY <1>2, <2>1
    <3>2. has_prefix(out, b[i].mount)
      BY DEF Mounted
    <3> QED
      BY <1>5, <3>1, <3>2, PathOps, PrefixShorter
  <2>4. md \in SUBSET Nat /\ \A i \in md : i <= n
    BY <2>1
  <2> HIDE DEF md, mpath
  <2> QED
    BY <1>5, <2>2, <2>3, <2>4, ScanFinds
<1>8. map_to_host(b, r, g) =
         IF bd # {} THEN OrSlash(Unslashed(b[best].host) \o Drop(g, Length(b[best].guest)))
         ELSE IF md # {} THEN OrSlash(Unslashed(b[over].host) \o Drop(out, Len(b[over].mount)))
         ELSE out
  BY <1>4 DEF map_to_host
<1>9. CASE bd # {}
  BY <1>6, <1>8, <1>9 DEF ByBinding, Below
<1>10. CASE bd = {} /\ md # {}
  BY <1>4, <1>7, <1>8, <1>10 DEF ByMount, Below
<1>11. CASE bd = {} /\ md = {}
  BY <1>4, <1>8, <1>11
<1> QED
  BY <1>9, <1>10, <1>11

LEMMA BelowTyped ==
    ASSUME NEW s \in Full, NEW u \in Text, NEW n \in Nat
    PROVE  Below(s, u, n) \in Full
<1>1. Unslashed(s) \in Text /\ Drop(u, n) \in Text
  BY PathOps, DropTyped DEF Full
<1>2. Unslashed(s) \o Drop(u, n) \in Text
  BY <1>1, JoinTyped
<1> QED
  BY <1>2, PathOps DEF Below

LEMMA BindingIs ==
    ASSUME NEW b \in Seq(BindingType), NEW i \in DOMAIN b
    PROVE  /\ b[i].host \in Full /\ b[i].guest \in Full /\ b[i].mount \in Text
           /\ b[i].host \in Text /\ b[i].guest \in Text /\ i \in Nat
<1>1. b[i] \in BindingType /\ i \in Nat
  BY LenProperties, ElementOfSeq
<1> QED
  BY <1>1 DEF BindingType, Full

(* What a binding or the root makes of a path is a path. *)
LEMMA MapTyped ==
    ASSUME NEW b \in Seq(BindingType), NEW r \in Text, NEW g \in Full
    PROVE  map_to_host(b, r, g) \in Full
<1>1. g \in Text
  BY DEF Full
<1>2. PICK w, out : w = map_to_host(b, r, g) /\ out = r \o g
  OBVIOUS
<1>3. out \in Full /\ out \in Text
  BY <1>1, <1>2, JoinTyped DEF Full
<1>4. CASE ByBinding(b, g, w)
  <2>1. PICK i \in DOMAIN b : w = Below(b[i].host, g, Length(b[i].guest))
    BY <1>4 DEF ByBinding, Bound
  <2>2. b[i].host \in Full /\ Length(b[i].guest) \in Nat
    BY BindingIs, PathOps
  <2> QED
    BY <1>1, <1>2, <2>1, <2>2, BelowTyped
<1>5. CASE ByMount(b, out, w)
  <2>1. PICK i \in DOMAIN b : w = Below(b[i].host, out, Len(b[i].mount))
    BY <1>5 DEF ByMount, Mounted
  <2>2. b[i].host \in Full /\ Len(b[i].mount) \in Nat
    BY BindingIs, PathOps
  <2> QED
    BY <1>2, <1>3, <2>1, <2>2, BelowTyped
<1> QED
  BY <1>2, <1>3, <1>4, <1>5, MapIs

ByHost(b, h, w) == \E i \in Hosting(b, h) : w = Below(b[i].guest, h, Len(b[i].host))

LEMMA BackIs ==
    ASSUME NEW b \in Seq(BindingType), NEW r \in Text, NEW h \in Full
    PROVE  \/ Hosting(b, h) # {} /\ ByHost(b, h, emuroot_host_to_guest(b, r, h))
           \/ /\ Hosting(b, h) = {} /\ r # Empty /\ has_prefix(h, r)
              /\ emuroot_host_to_guest(b, r, h) = OrSlash(Drop(h, Len(r)))
           \/ /\ Hosting(b, h) = {} /\ ~(r # Empty /\ has_prefix(h, r))
              /\ emuroot_host_to_guest(b, r, h) = Empty
<1>1. PICK n \in Nat : n = Len(b) /\ DOMAIN b = 1 .. n /\ \A i \in 1 .. n : b[i] \in BindingType
  BY LenProperties, ElementOfSeq
<1>2. \A i \in 1 .. n : b[i].host \in Full /\ b[i].guest \in Full
  BY <1>1 DEF BindingType
<1>3. h \in Text /\ Len(h) \in Nat /\ Len(r) \in Nat
  BY LenProperties DEF Full, Text
<1> DEFINE hd == Hosting(b, h)
           path == [i \in hd |-> b[i].host]
           best == FirstLongest(path)
<1>4. hd # {} => best \in hd
  <2>1. hd \subseteq 1 .. n
    BY <1>1 DEF Hosting
  <2>2. path \in [hd -> Text]
    BY <1>2, <2>1 DEF Full
  <2>3. \A i \in hd : Length(path[i]) <= Len(h)
    <3> SUFFICES ASSUME NEW i \in hd PROVE Length(b[i].host) <= Len(h)
      OBVIOUS
    <3>1. b[i].host \in Text
      BY <1>2, <2>1 DEF Full
    <3>2. has_prefix(h, b[i].host)
      BY DEF Hosting
    <3> QED
      BY <1>3, <3>1, <3>2, PathOps, PrefixShorter
  <2>4. hd \in SUBSET Nat /\ \A i \in hd : i <= n
    BY <2>1
  <2> HIDE DEF hd, path
  <2> QED
    BY <1>3, <2>2, <2>3, <2>4, ScanFinds
<1>5. emuroot_host_to_guest(b, r, h) =
        IF hd # {} THEN OrSlash(Unslashed(b[best].guest) \o Drop(h, Len(b[best].host)))
        ELSE IF r # Empty /\ has_prefix(h, r) THEN OrSlash(Drop(h, Len(r))) ELSE Empty
  BY DEF emuroot_host_to_guest
<1>6. CASE hd # {}
  BY <1>4, <1>5, <1>6 DEF ByHost, Below
<1>7. CASE hd = {}
  BY <1>5, <1>7
<1> QED
  BY <1>6, <1>7

LEMMA BackTyped ==
    ASSUME NEW b \in Seq(BindingType), NEW r \in Text, NEW h \in Full
    PROVE  emuroot_host_to_guest(b, r, h) \in Text
<1>1. h \in Text /\ Len(r) \in Nat /\ Empty \in Text
  BY PathOps, NamesTyped DEF Full
<1>2. PICK w : w = emuroot_host_to_guest(b, r, h)
  OBVIOUS
<1>3. CASE ByHost(b, h, w)
  <2>1. PICK i \in DOMAIN b : w = Below(b[i].guest, h, Len(b[i].host))
    BY <1>3 DEF ByHost, Hosting
  <2>2. b[i].guest \in Full /\ Len(b[i].host) \in Nat
    BY BindingIs, PathOps
  <2>3. w \in Full
    BY <1>1, <2>1, <2>2, BelowTyped
  <2> QED
    BY <1>2, <2>3 DEF Full
<1>4. OrSlash(Drop(h, Len(r))) \in Text
  BY <1>1, DropTyped, PathOps DEF Full
<1> QED
  BY <1>1, <1>2, <1>3, <1>4, BackIs

LEMMA Named ==
    \E e \in STRING : e = "" /\ \A s : AllSlashes(s) <=> \A i \in DOMAIN s : s[i] = e
<1>1. PICK e : e = "" /\ Slash = << e >>
  BY Zenon DEF Slash
<1>2. << e >> \in Seq(STRING)
  BY <1>1, NamesTyped DEF Full, Text
<1>3. e \in STRING
  BY <1>2
<1>4. \A s : AllSlashes(s) <=> \A i \in DOMAIN s : s[i] = e
  BY <1>1, Zenon DEF AllSlashes
<1> QED
  BY <1>1, <1>3, <1>4, Zenon

(* s past its first k components, which are its leading slashes *)
Leading(s, k) == \A i \in 1 .. k : s[i] = ""
Skips(s, k) ==
    /\ k \in 0 .. Len(s) /\ SkipSlashes(s) = Drop(s, k) /\ Leading(s, k)
    /\ k = Len(s) \/ s[k + 1] # ""

LEMMA SkipIs ==
    ASSUME NEW s \in Text
    PROVE  \E k : Skips(s, k)
<1>0. PICK e : e = "" /\ \A u : AllSlashes(u) <=> \A i \in DOMAIN u : u[i] = e
  BY Named, Zenon
<1>1. PICK len \in Nat : len = Len(s) /\ \A i \in 1 .. len : s[i] \in STRING
  BY LenProperties, ElementOfSeq DEF Text
<1>2. \A u : AllSlashes(u) <=> \A i \in DOMAIN u : u[i] = e
  BY <1>0, Zenon
<1> DEFINE Q(m) == AllSlashes(SubSeq(s, 1, m)) /\ (m = len \/ s[m + 1] # e)
<1>3. \E m \in 0 .. len : Q(m)
  <2> DEFINE T == {n \in 0 .. len : n = len \/ s[n + 1] # e}
  <2>1. PICK n \in T : \A m \in T : n <= m
    <3>1. T \in SUBSET Nat /\ len \in T
      OBVIOUS
    <3> HIDE DEF T
    <3> QED
      BY <3>1, Least
  <2>2. n \in 0 .. len /\ (n = len \/ s[n + 1] # e)
    BY <2>1
  <2>3. \A i \in 1 .. n : s[i] = e
    <3> SUFFICES ASSUME NEW i \in 1 .. n, s[i] # e PROVE FALSE
      OBVIOUS
    <3>1. i - 1 \in 0 .. len /\ (i - 1) + 1 = i /\ ~(n <= i - 1)
      BY <2>2
    <3>2. i - 1 \in T
      BY <3>1
    <3> QED
      BY <2>1, <3>1, <3>2
  <2>4. AllSlashes(SubSeq(s, 1, n))
    <3>1. PICK u : u = SubSeq(s, 1, n)
      OBVIOUS
    <3>2. DOMAIN u = 1 .. n /\ \A i \in 1 .. n : u[i] = s[i]
      BY <1>1, <2>2, <3>1 DEF Text
    <3> QED
      BY <1>2, <2>3, <3>1, <3>2
  <2> QED
    BY <2>2, <2>4
<1> HIDE DEF Q
<1> DEFINE k == CHOOSE m \in 0 .. len : Q(m)
<1>4. k \in 0 .. len /\ Q(k)
  BY <1>3
<1>5. SkipSlashes(s) = Drop(s, k)
  BY <1>0, <1>1, Zenon DEF SkipSlashes, Q
<1> HIDE DEF k
<1>6. \A i \in 1 .. k : s[i] = e
  <2>1. PICK u : u = SubSeq(s, 1, k)
    OBVIOUS
  <2>2. DOMAIN u = 1 .. k /\ \A i \in 1 .. k : u[i] = s[i]
    BY <1>1, <1>4, <2>1 DEF Text
  <2>3. AllSlashes(u)
    BY <1>4, <2>1 DEF Q
  <2> QED
    BY <1>2, <2>2, <2>3
<1>7. k = len \/ s[k + 1] # e
  BY <1>4 DEF Q
<1>8. k \in 0 .. Len(s) /\ (k = Len(s) \/ s[k + 1] # e)
  BY <1>1, <1>4, <1>7
<1> QED
  BY <1>0, <1>5, <1>6, <1>8, Zenon DEF Skips, Leading

LEMMA SkipTyped ==
    ASSUME NEW s \in Text
    PROVE  SkipSlashes(s) \in Text /\ Len(SkipSlashes(s)) <= Len(s)
<1>1. PICK k : Skips(s, k)
  BY SkipIs
<1>2. k \in 0 .. Len(s) /\ SkipSlashes(s) = Drop(s, k)
  BY <1>1, Zenon DEF Skips
<1>3. k \in Nat /\ k <= Len(s) /\ Len(s) \in Nat
  BY <1>2, PathOps
<1> QED
  BY <1>2, <1>3, DropTyped

LEMMA RestTyped ==
    ASSUME NEW s \in Text, s # Empty
    PROVE  Head(s) \in STRING /\ Tail(s) \in Text /\ Len(Tail(s)) = Len(s) - 1
<1> QED
  BY HeadTailProperties DEF Text, Empty

-----------------------------------------------------------------------------
(* The inductive invariant.  While a call is served there is a walk, of a  *)
(* path that is one and with its hops within the limit while it goes on;   *)
(* the target of a mount is known when its source is walked.               *)
CallOps == {"use", "chdir", "chroot", "mount", "mount proc", "umount", "mount from"}
Stops == {"no", "asis", "end", "long", "last", "proc", "loop"}
CallType == [op : CallOps, p : Procs, source : Sources \cup {NoSource}, guest : Text, host : Text]
WalkType == [given : Full, follow : BOOLEAN, cur : Full, rest : Text, trail : BOOLEAN,
             hops : 0 .. MAX_SYMLINK_HOPS + 1, stop : Stops]

BindsOK == binds \in Seq(BindingType) /\ Len(binds) <= MAX_BINDINGS
PlacesOK ==
    /\ root \in [Procs -> Dirs \cup {Empty}] /\ pending \in [Procs -> Dirs \cup {Empty}]
    /\ cwd \in [Procs -> Dirs]
Busy ==
    /\ call \in CallType /\ walk \in WalkType
    /\ walk.stop = "no" => walk.hops <= MAX_SYMLINK_HOPS
    /\ call.op = "mount" => call.source \in Sources
    /\ call.op = "mount from" => call.guest \in Full /\ call.host \in Full
AtRest == call = Idle /\ walk = NoWalk
IInv == BindsOK /\ PlacesOK /\ (AtRest \/ Busy)

LEMMA BusyIs ==
    Busy => /\ call # Idle /\ walk # NoWalk /\ call.p \in Procs
            /\ walk.cur \in Full /\ walk.hops <= MAX_SYMLINK_HOPS + 1
<1> SUFFICES ASSUME Busy
             PROVE  /\ call # Idle /\ walk # NoWalk /\ call.p \in Procs
                    /\ walk.cur \in Full /\ walk.hops <= MAX_SYMLINK_HOPS + 1
  OBVIOUS
<1>1. call \in CallType /\ walk \in WalkType
  BY DEF Busy
<1>2. call.op \in CallOps /\ call.p \in Procs
  BY <1>1 DEF CallType
<1>3. walk.stop \in Stops /\ walk.cur \in Full /\ walk.hops \in 0 .. MAX_SYMLINK_HOPS + 1
  BY <1>1 DEF WalkType
<1>4. call # Idle
  <2>1. call.op # "idle"
    BY <1>2 DEF CallOps
  <2> QED
    BY <2>1 DEF Idle
<1>5. walk # NoWalk
  <2>1. walk.stop # "none"
    BY <1>3 DEF Stops
  <2> QED
    BY <2>1 DEF NoWalk
<1>6. walk.hops <= MAX_SYMLINK_HOPS + 1
  BY <1>3, BoundsAssumption
<1> QED
  BY <1>2, <1>3, <1>4, <1>5, <1>6

LEMMA DirsTyped ==
    /\ Dirs \subseteq Full /\ Dirs \cup {Empty} \subseteq Text
    /\ Slash \in Dirs /\ GivenRoot \in Dirs /\ TracerCwd \in Dirs
<1> QED
  BY NamesTyped, HostAssumption DEF Full, Text

LEMMA RealTyped ==
    ASSUME NEW b, NEW s
    PROVE  realpath(b, s) \in Dirs \cup {Empty}
<1> QED
  BY DEF realpath

(* A call's path argument, made absolute. *)
Argument(g) == g.abs \in BOOLEAN /\ g.to \in Full

LEMMA AbsoluteTyped ==
    ASSUME BindsOK, PlacesOK, NEW p \in Procs, NEW g, Argument(g),
           ~Outside(p, g)
    PROVE  absolute_guest_path(p, g) \in Full
<1>1. PICK b \in Text : b = emuroot_host_to_guest(binds, root[p], cwd[p])
  <2>1. PICK r \in Text : r = root[p]
    BY DirsTyped DEF PlacesOK
  <2>2. PICK h \in Full : h = cwd[p]
    BY DirsTyped DEF PlacesOK
  <2>3. emuroot_host_to_guest(binds, r, h) \in Text
    BY BackTyped DEF BindsOK
  <2> QED
    BY <2>1, <2>2, <2>3
<1>2. Unslashed(b) \o g.to \in Full
  BY PathOps, JoinTyped DEF Full, Argument
<1>3. absolute_guest_path(p, g) = IF g.abs THEN g.to ELSE IF b = Empty THEN Empty
                                  ELSE Unslashed(b) \o g.to
  BY <1>1 DEF absolute_guest_path
<1>4. g.to \in Full /\ g.abs \in BOOLEAN
  BY DEF Argument
<1> QED
  BY <1>2, <1>3, <1>4 DEF Outside

LEMMA TranslateTyped ==
    ASSUME NEW p \in Procs, NEW g \in Full, NEW f \in BOOLEAN
    PROVE  /\ Translate(p, g, f) \in WalkType
           /\ Translate(p, g, f).hops = 0
<1>1. EndsInSlash(g) \in BOOLEAN
  BY Zenon DEF EndsInSlash
<1>2. 0 \in 0 .. MAX_SYMLINK_HOPS + 1
  BY BoundsAssumption
<1>3. Walk(g, f) \in WalkType /\ Walk(g, f).hops = 0
  BY <1>1, <1>2, NamesTyped DEF Walk, WalkType, Stops, Full
<1>4. /\ [Walk(g, f) EXCEPT !.cur = g, !.rest = Empty, !.stop = "asis"] \in WalkType
      /\ [Walk(g, f) EXCEPT !.cur = g, !.rest = Empty, !.stop = "asis"].hops = 0
  <2>1. PICK w \in WalkType : w = Walk(g, f) /\ w.hops = 0
    BY <1>3
  <2>2. /\ [w EXCEPT !.cur = g, !.rest = Empty, !.stop = "asis"] \in WalkType
        /\ [w EXCEPT !.cur = g, !.rest = Empty, !.stop = "asis"].hops = 0
    BY <2>1, NamesTyped DEF WalkType, Stops
  <2> QED
    BY <2>1, <2>2
<1> QED
  BY <1>3, <1>4 DEF Translate

LEMMA MapHereTyped ==
    ASSUME BindsOK, PlacesOK, Busy, NEW g \in Full
    PROVE  map_to_host(binds, root[call.p], g) \in Full
<1>1. PICK r \in Text : r = root[call.p]
  BY DirsTyped DEF PlacesOK, Busy, CallType
<1>2. map_to_host(binds, r, g) \in Full
  BY MapTyped DEF BindsOK
<1> QED
  BY <1>1, <1>2

LEMMA ResultTyped ==
    ASSUME BindsOK, PlacesOK, Busy
    PROVE  Result \in Full
<1>1. walk.cur \in Full /\ walk.given \in Full /\ walk.rest \in Text
  BY DEF Busy, WalkType
<1>2. PICK h \in Full : h = map_to_host(binds, root[call.p], walk.cur)
  BY <1>1, MapHereTyped
<1>3. PICK o \in Text : o = IF EndsInSlash(h) THEN Front(h) ELSE h
  <2>1. h \in Text /\ Len(h) \in Nat
    BY LenProperties DEF Full, Text
  <2>2. \A i \in 1 .. Len(h) - 1 : h[i] \in STRING
    BY <2>1 DEF Text
  <2>3. Front(h) \in Text
    BY <2>1, <2>2, SubSeqProperties DEF Front, Text
  <2> QED
    BY <2>1, <2>3
<1>4. OrSlash(SkipSlashes(walk.rest)) \in Full
  BY <1>1, SkipTyped, PathOps
<1>5. o \o OrSlash(SkipSlashes(walk.rest)) \in Full
  BY <1>4, JoinTyped DEF Full
<1>6. PICK m \in Full : m = IF walk.rest = Empty THEN h
                            ELSE o \o OrSlash(SkipSlashes(walk.rest))
  BY <1>5
<1>7. PICK e \in STRING : e = ""
  BY Named, Zenon
<1>8. Append(m, e) \in Full
  <2>1. Append(m, e) \in Seq(STRING) /\ Len(Append(m, e)) = Len(m) + 1 /\ Len(m) \in Nat
    BY AppendProperties, LenProperties DEF Full, Text
  <2>2. PICK w : w = Append(m, e)
    OBVIOUS
  <2>3. Len(w) # 0
    BY <2>1, <2>2
  <2> QED
    BY <2>1, <2>2, <2>3, NamesTyped DEF Full, Text
<1>9. Result = IF walk.stop = "asis" THEN walk.given
               ELSE IF walk.trail /\ ~EndsInSlash(m) THEN Append(m, e) ELSE m
  BY <1>2, <1>3, <1>6, <1>7, Zenon DEF Result
<1> QED
  BY <1>1, <1>8, <1>9

(* One turn of the loop: less is left, and the names made are paths. *)
LEMMA TurnTyped ==
    ASSUME BindsOK, PlacesOK, Busy, Rest # Empty
    PROVE  /\ Comp \in STRING /\ Ahead \in Text /\ Len(Ahead) < Len(walk.rest)
           /\ Len(walk.rest) \in Nat /\ Len(Ahead) \in Nat
           /\ Here \in Full /\ Host \in Full /\ pop_component(walk.cur) \in Full
           /\ pop_component(Here) \in Full
<1>1. walk.cur \in Full /\ walk.rest \in Text
  BY DEF Busy, WalkType
<1>2. PICK r \in Text : r = walk.rest
  BY <1>1
<1>3. PICK s \in Text : s = Rest /\ Len(s) <= Len(r) /\ s # Empty
  BY <1>2, SkipTyped DEF Rest
<1>4. Head(s) \in STRING /\ Tail(s) \in Text /\ Len(Tail(s)) = Len(s) - 1
  BY <1>3, RestTyped
<1>5. Len(s) \in Nat /\ Len(r) \in Nat /\ Len(Tail(s)) \in Nat
  BY <1>4, LenProperties DEF Text
<1>6. Len(Tail(s)) < Len(r)
  BY <1>3, <1>4, <1>5
<1>7. Comp = Head(s) /\ Ahead = Tail(s)
  BY <1>3 DEF Comp, Ahead
<1>8. Here \in Full
  BY <1>1, <1>4, <1>7, PathOps DEF Here, Full
<1>9. Host \in Full
  BY <1>8, MapHereTyped DEF Host
<1>10. pop_component(walk.cur) \in Full /\ pop_component(Here) \in Full
  BY <1>1, <1>8, PathOps DEF Full
<1> QED
  BY <1>2, <1>4, <1>5, <1>6, <1>7, <1>8, <1>9, <1>10

(* What a turn makes of a walk. *)
Goes(w, v) ==
    /\ v \in WalkType /\ (v.stop = "no" => v.hops <= MAX_SYMLINK_HOPS)
    /\ v.stop = "no" =>
        \/ v.hops > w.hops /\ v.hops <= MAX_SYMLINK_HOPS
        \/ v.hops = w.hops /\ Len(v.rest) < Len(w.rest)

LEMMA Turns ==
    ASSUME BindsOK, PlacesOK, Busy, WalkStep
    PROVE  Goes(walk, walk')
<1>1. walk \in WalkType /\ walk.cur \in Full /\ walk.rest \in Text
      /\ (walk.stop = "no" => walk.hops <= MAX_SYMLINK_HOPS)
      /\ walk.hops \in 0 .. MAX_SYMLINK_HOPS + 1
  BY DEF Busy, WalkType
<1>2. walk.stop = "no"
  BY DEF WalkStep, WalkEnd, WalkDot, WalkDotDot, WalkTooLong, WalkLast, WalkProc, WalkPlain,
         WalkLoop, WalkLink, AtLink, Checked, AtName, Walking
<1>3. walk.hops <= MAX_SYMLINK_HOPS
  BY <1>1, <1>2
<1>4. CASE WalkEnd
  <2>1. walk' = [walk EXCEPT !.rest = Empty, !.stop = "end"]
    BY <1>4 DEF WalkEnd
  <2>2. walk' \in WalkType /\ walk'.stop = "end"
    BY <1>1, <2>1, NamesTyped DEF WalkType, Stops
  <2> QED
    BY <2>2 DEF Goes
<1>5. CASE Rest # Empty
  <2>1. PICK a \in Text : a = Ahead /\ Len(a) < Len(walk.rest)
    BY <1>5, TurnTyped
  <2>2. PICK here \in Full : here = Here
    BY <1>5, TurnTyped
  <2>3. PICK up \in Full : up = pop_component(walk.cur)
    BY <1>5, TurnTyped
  <2>4. CASE WalkDot
    <3>1. walk' = [walk EXCEPT !.rest = a]
      BY <2>1, <2>4 DEF WalkDot
    <3>2. walk' \in WalkType /\ walk'.hops = walk.hops /\ walk'.rest = a
      BY <1>1, <3>1 DEF WalkType
    <3> QED
      BY <1>3, <2>1, <3>2 DEF Goes
  <2>5. CASE WalkDotDot
    <3>1. walk' = [walk EXCEPT !.rest = a, !.cur = up]
      BY <1>1, <2>1, <2>3, <2>5 DEF WalkDotDot, WalkType
    <3>2. walk' \in WalkType /\ walk'.hops = walk.hops /\ walk'.rest = a
      BY <1>1, <3>1 DEF WalkType
    <3> QED
      BY <1>3, <2>1, <3>2 DEF Goes
  <2>6. CASE WalkTooLong
    <3>1. walk' = [walk EXCEPT !.rest = a, !.stop = "long"]
      BY <2>1, <2>6 DEF WalkTooLong
    <3>2. walk' \in WalkType /\ walk'.stop = "long"
      BY <1>1, <3>1 DEF WalkType, Stops
    <3> QED
      BY <3>2 DEF Goes
  <2>7. CASE WalkLast
    <3>1. walk' = [walk EXCEPT !.rest = a, !.cur = here, !.stop = "last"]
      BY <2>1, <2>2, <2>7 DEF WalkLast
    <3>2. walk' \in WalkType /\ walk'.stop = "last"
      BY <1>1, <3>1 DEF WalkType, Stops
    <3> QED
      BY <3>2 DEF Goes
  <2>8. CASE WalkProc
    <3>1. walk' = [walk EXCEPT !.rest = a, !.cur = here, !.stop = "proc"]
      BY <2>1, <2>2, <2>8 DEF WalkProc
    <3>2. walk' \in WalkType /\ walk'.stop = "proc"
      BY <1>1, <3>1 DEF WalkType, Stops
    <3> QED
      BY <3>2 DEF Goes
  <2>9. CASE WalkPlain
    <3>1. walk' = [walk EXCEPT !.rest = a, !.cur = here]
      BY <2>1, <2>2, <2>9 DEF WalkPlain
    <3>2. walk' \in WalkType /\ walk'.hops = walk.hops /\ walk'.rest = a
      BY <1>1, <3>1 DEF WalkType
    <3> QED
      BY <1>3, <2>1, <3>2 DEF Goes
  <2>10. CASE WalkLoop
    <3>1. walk' = [walk EXCEPT !.rest = a, !.cur = here, !.hops = walk.hops + 1, !.stop = "loop"]
      BY <1>1, <2>1, <2>2, <2>10 DEF WalkLoop, WalkType
    <3>2. walk.hops + 1 \in 0 .. MAX_SYMLINK_HOPS + 1
      BY <1>1, <1>3, BoundsAssumption
    <3>3. walk' \in WalkType /\ walk'.stop = "loop"
      BY <1>1, <3>1, <3>2 DEF WalkType, Stops
    <3> QED
      BY <3>3 DEF Goes
  <2>11. CASE WalkLink
    <3>1. PICK t : t = readlink("tracer", Path(Host))
      OBVIOUS
    <3>2. t.abs \in BOOLEAN /\ t.to \in Text
      <4>1. IsLink(Path(Host))
        BY <2>11 DEF WalkLink, AtLink
      <4>2. CASE Path(Host) = Self
        BY <3>1, <4>2, NamesTyped DEF readlink, Full
      <4>3. CASE Path(Host) \in DOMAIN Link /\ Path(Host) # Self
        BY <3>1, <4>3, HostAssumption DEF readlink, Text
      <4> QED
        BY <4>1, <4>2, <4>3 DEF IsLink
    <3>3. PICK tail \in Text : tail = t.to \o a
      BY <3>2, JoinTyped
    <3>4. PICK at \in Full : at = IF t.abs THEN Slash ELSE pop_component(Here)
      BY <1>5, <3>2, NamesTyped, TurnTyped
    <3>5. /\ walk' = [walk EXCEPT !.cur = at, !.rest = tail,
                                  !.trail = EndsInSlash(tail), !.hops = walk.hops + 1]
          /\ walk.hops + 1 <= MAX_SYMLINK_HOPS
      BY <1>1, <2>1, <2>11, <3>1, <3>3, <3>4 DEF WalkLink, WalkType
    <3>6. walk.hops + 1 \in 0 .. MAX_SYMLINK_HOPS + 1
      BY <1>1, <1>3, BoundsAssumption
    <3>7. PICK b \in BOOLEAN : b = EndsInSlash(tail)
      BY Zenon DEF EndsInSlash
    <3>8. walk' \in WalkType /\ walk'.hops = walk.hops + 1
      BY <1>1, <3>5, <3>6, <3>7 DEF WalkType
    <3> QED
      BY <1>1, <3>5, <3>8 DEF Goes
  <2> QED
    BY <1>5, <2>4, <2>5, <2>6, <2>7, <2>8, <2>9, <2>10, <2>11 DEF WalkStep, WalkEnd
<1> QED
  BY <1>4, <1>5 DEF WalkStep, WalkDot, WalkDotDot, WalkTooLong, WalkLast, WalkProc, WalkPlain,
                    WalkLoop, WalkLink, AtLink, Checked, AtName

-----------------------------------------------------------------------------
(* The list of bindings. *)
LEMMA StartTyped == StartRoot \in Dirs \cup {Empty}
<1>1. realpath(Slash, GivenRoot) \in Dirs \cup {Empty}
  BY RealTyped
<1> QED
  BY <1>1 DEF StartRoot, Unslashed

LEMMA StartBindsTyped ==
    ASSUME NEW given \in Startup
    PROVE  StartBinds(given) \in Seq(BindingType) /\ Len(StartBinds(given)) <= MAX_BINDINGS
<1>1. PICK n \in Nat : /\ n = Len(given) /\ DOMAIN given = 1 .. n /\ n <= MAX_BINDINGS
                       /\ \A i \in 1 .. n : given[i] \in [host : Full, guest : Full]
  <2>1. given \in Seq([host : Full, guest : Full]) /\ Len(given) <= MAX_BINDINGS
    BY CallersAssumption DEF Full, Text
  <2> HIDE DEF Full
  <2> QED
    BY <2>1, LenProperties, ElementOfSeq
<1> DEFINE B(i) == Binding(IF realpath(Slash, given[i].host) = Empty THEN given[i].host
                           ELSE realpath(Slash, given[i].host),
                           given[i].guest, StartRoot \o Unslashed(given[i].guest))
<1>2. \A i \in 1 .. n : B(i) \in BindingType
  <2> SUFFICES ASSUME NEW i \in 1 .. n PROVE B(i) \in BindingType
    OBVIOUS
  <2>1. given[i].host \in Full /\ given[i].guest \in Full
    BY <1>1
  <2>2. realpath(Slash, given[i].host) \in Dirs \cup {Empty}
    BY RealTyped
  <2>3. (IF realpath(Slash, given[i].host) = Empty THEN given[i].host
         ELSE realpath(Slash, given[i].host)) \in Full
    BY <2>1, <2>2, DirsTyped
  <2>4. Unslashed(given[i].guest) \in Text /\ StartRoot \in Text
    BY <2>1, PathOps, StartTyped, DirsTyped DEF Full
  <2>5. StartRoot \o Unslashed(given[i].guest) \in Text
    BY <2>4, JoinTyped
  <2> QED
    BY <2>1, <2>3, <2>5 DEF BindingType, Binding
<1>3. StartBinds(given) = [i \in 1 .. n |-> B(i)]
  BY <1>1 DEF StartBinds
<1> HIDE DEF B
<1>4. [i \in 1 .. n |-> B(i)] \in Seq(BindingType) /\ Len([i \in 1 .. n |-> B(i)]) = n
  BY <1>2
<1> QED
  BY <1>1, <1>3, <1>4

LEMMA BindTyped ==
    ASSUME BindsOK, NEW h \in Full, NEW g \in Full, NEW m \in Text, emuroot_bind(h, g, m)
    PROVE  BindsOK'
<1>1. Binding(h, g, m) \in BindingType
  BY DEF Binding, BindingType
<1>2. PICK b \in Seq(BindingType) : b = binds /\ Len(b) \in Nat /\ Len(b) <= MAX_BINDINGS
  BY LenProperties DEF BindsOK
<1>3. PICK c \in BindingType : c = Binding(h, g, m)
  BY <1>1
<1>4. Append(b, c) \in Seq(BindingType) /\ Len(Append(b, c)) = Len(b) + 1
  BY AppendProperties
<1>5. binds' = IF Len(b) >= MAX_BINDINGS THEN b ELSE Append(b, c)
  BY <1>2, <1>3 DEF emuroot_bind
<1>6. binds' \in Seq(BindingType) /\ Len(binds') <= MAX_BINDINGS
  BY <1>2, <1>4, <1>5, BoundsAssumption
<1> QED
  BY <1>6 DEF BindsOK

LEMMA RemoveTyped ==
    ASSUME NEW T, NEW b \in Seq(T), NEW k \in 1 .. Len(b)
    PROVE  RemoveAt(b, k) \in Seq(T) /\ Len(RemoveAt(b, k)) <= Len(b)
<1>1. PICK n \in Nat : n = Len(b) /\ \A i \in 1 .. n : b[i] \in T
  BY LenProperties, ElementOfSeq
<1>2. PICK u : u = SubSeq(b, 1, k - 1)
  OBVIOUS
<1>3. PICK v : v = SubSeq(b, k + 1, n)
  OBVIOUS
<1>4. u \in Seq(T) /\ Len(u) = k - 1
  <2>1. \A i \in 1 .. k - 1 : b[i] \in T
    BY <1>1
  <2>2. /\ SubSeq(b, 1, k - 1) \in Seq(T)
        /\ Len(SubSeq(b, 1, k - 1)) = IF 1 <= k - 1 THEN (k - 1) - 1 + 1 ELSE 0
    BY <1>1, <2>1, SubSeqProperties
  <2> QED
    BY <1>1, <1>2, <2>2
<1>5. v \in Seq(T) /\ Len(v) = n - k
  <2>1. \A i \in k + 1 .. n : b[i] \in T
    BY <1>1
  <2>2. /\ SubSeq(b, k + 1, n) \in Seq(T)
        /\ Len(SubSeq(b, k + 1, n)) = IF k + 1 <= n THEN n - (k + 1) + 1 ELSE 0
    BY <1>1, <2>1, SubSeqProperties
  <2> QED
    BY <1>1, <1>3, <2>2
<1>6. u \o v \in Seq(T) /\ Len(u \o v) = Len(u) + Len(v)
  BY <1>4, <1>5, ConcatProperties
<1>7. RemoveAt(b, k) = u \o v
  BY <1>1, <1>2, <1>3 DEF RemoveAt
<1> QED
  BY <1>1, <1>4, <1>5, <1>6, <1>7

LEMMA UnbindTyped ==
    ASSUME BindsOK, NEW g, emuroot_unbind(g)
    PROVE  BindsOK'
<1>1. PICK b \in Seq(BindingType) : b = binds /\ Len(b) \in Nat /\ Len(b) <= MAX_BINDINGS
                                    /\ DOMAIN b = 1 .. Len(b)
  BY LenProperties DEF BindsOK
<1> DEFINE S == {i \in DOMAIN b : b[i].guest = g}
           latest == CHOOSE i \in S : \A j \in S : j <= i
<1>2. S # {} => latest \in 1 .. Len(b)
  <2> HAVE S # {}
  <2>1. S \in SUBSET Nat /\ \A j \in S : j <= Len(b)
    BY <1>1
  <2>2. S \subseteq 1 .. Len(b)
    BY <1>1
  <2> HIDE DEF S
  <2>3. \E i \in S : \A j \in S : j <= i
    BY <1>1, <2>1, Greatest
  <2>4. latest \in S
    BY <2>3
  <2> QED
    BY <2>2, <2>4
<1>3. binds' = IF S = {} THEN b ELSE RemoveAt(b, latest)
  BY <1>1 DEF emuroot_unbind
<1> HIDE DEF S, latest
<1>4. S # {} => RemoveAt(b, latest) \in Seq(BindingType) /\ Len(RemoveAt(b, latest)) <= Len(b)
  BY <1>2, RemoveTyped
<1>5. PICK c : c = binds'
  OBVIOUS
<1>6. c \in Seq(BindingType) /\ Len(c) <= Len(b)
  <2>1. CASE S = {}
    BY <1>1, <1>3, <1>5, <2>1
  <2>2. CASE S # {}
    BY <1>3, <1>4, <1>5, <2>2
  <2> QED
    BY <2>1, <2>2
<1>7. Len(c) \in Nat /\ Len(c) <= MAX_BINDINGS
  BY <1>1, <1>6, LenProperties, BoundsAssumption
<1> QED
  BY <1>5, <1>6, <1>7 DEF BindsOK

LEMMA AttachTyped ==
    ASSUME BindsOK, NEW at, NEW s \in Full, NEW g \in Full, NEW m \in Text, Attach(at, s, g, m)
    PROVE  BindsOK'
<1>1. PICK h \in Full : h = IF realpath(at, s) = Empty THEN s ELSE realpath(at, s)
  BY RealTyped, DirsTyped
<1>2. emuroot_bind(h, g, m)
  BY <1>1 DEF Attach
<1> QED
  BY <1>2, BindTyped

-----------------------------------------------------------------------------
(* The actions. *)
LEMMA GivenTyped ==
    /\ \A g \in Given.use \cup Given.chdir \cup Given.chroot \cup Given.mount \cup Sources :
         Argument(g)
    /\ Follows("use") \subseteq BOOLEAN /\ Follows("chdir") \subseteq BOOLEAN
<1>1. \A g \in Given.use \cup Given.chdir \cup Given.chroot \cup Given.mount \cup Sources :
         Argument(g)
  BY CallersAssumption DEF Argument, Full, Text
<1>2. \A m : emuroot_follow_last(m) \subseteq BOOLEAN
  BY DEF emuroot_follow_last
<1>3. Follows("use") \subseteq BOOLEAN /\ Follows("chdir") \subseteq BOOLEAN
  BY <1>2 DEF Follows
<1> QED
  BY <1>1, <1>3

LEMMA SomeHops == 0 <= MAX_SYMLINK_HOPS
<1> QED
  BY BoundsAssumption

LEMMA EnterBusy ==
    ASSUME BindsOK, PlacesOK, NEW p \in Procs, NEW op \in CallOps \ {"mount from"}, NEW g,
           NEW src \in Sources \cup {NoSource}, NEW f \in BOOLEAN,
           op = "mount" => src \in Sources,
           Argument(g), Enter(p, op, g, src, f)
    PROVE  IInv'
<1>1. PICK s \in Full : s = absolute_guest_path(p, g)
  <2>1. ~Outside(p, g)
    BY DEF Enter, Start
  <2>2. absolute_guest_path(p, g) \in Full
    BY <2>1, AbsoluteTyped
  <2> QED
    BY <2>2
<1>2. PICK w : w = Translate(p, s, f)
  OBVIOUS
<1>3. w \in WalkType /\ w.hops = 0
  BY <1>2, TranslateTyped
<1>4. walk' = w
  BY <1>1, <1>2 DEF Enter, Start
<1>5. PICK c : c = [op |-> op, p |-> p, source |-> src, guest |-> Empty, host |-> Empty]
  OBVIOUS
<1>6. c \in CallType /\ c.op = op /\ c.source = src
  BY <1>5, NamesTyped DEF CallType
<1>7. call' = c
  BY <1>5 DEF Enter
<1>8. Busy'
  <2>1. call' \in CallType /\ walk' \in WalkType
    BY <1>3, <1>4, <1>6, <1>7
  <2>2. walk'.hops <= MAX_SYMLINK_HOPS
    <3>1. walk'.hops = 0
      BY <1>3, <1>4
    <3> QED
      BY <3>1, SomeHops, Zenon
  <2>3. call'.op # "mount from" /\ (call'.op = "mount" => call'.source \in Sources)
    BY <1>6, <1>7
  <2> QED
    BY <2>1, <2>2, <2>3 DEF Busy, WalkType, CallType
<1>9. BindsOK' /\ PlacesOK'
  BY DEF Enter, BindsOK, PlacesOK
<1> QED
  BY <1>8, <1>9 DEF IInv

LEMMA CallsBusy ==
    ASSUME BindsOK, PlacesOK, NEW p \in Procs,
           UsePath(p) \/ Chdir(p) \/ Chroot(p) \/ Mount(p) \/ MountProc(p) \/ Umount(p)
    PROVE  IInv'
<1>1. CASE UsePath(p)
  <2>1. PICK g \in Given.use, f \in BOOLEAN : Enter(p, "use", g, NoSource, f)
    BY <1>1, GivenTyped DEF UsePath
  <2> QED
    BY <2>1, GivenTyped, EnterBusy DEF CallOps
<1>2. CASE Chdir(p)
  <2>1. PICK g \in Given.chdir, f \in BOOLEAN : Enter(p, "chdir", g, NoSource, f)
    BY <1>2, GivenTyped DEF Chdir
  <2> QED
    BY <2>1, GivenTyped, EnterBusy DEF CallOps
<1>3. CASE Chroot(p)
  <2>1. PICK g \in Given.chroot : Enter(p, "chroot", g, NoSource, TRUE)
    BY <1>3 DEF Chroot
  <2> QED
    BY <2>1, GivenTyped, EnterBusy DEF CallOps
<1>4. CASE Mount(p)
  <2>1. PICK g \in Given.mount, src \in Sources : Enter(p, "mount", g, src, TRUE)
    BY <1>4 DEF Mount
  <2> QED
    BY <2>1, GivenTyped, EnterBusy DEF CallOps
<1>5. CASE MountProc(p)
  <2>1. PICK g \in Given.mount : Enter(p, "mount proc", g, NoSource, TRUE)
    BY <1>5 DEF MountProc
  <2> QED
    BY <2>1, GivenTyped, EnterBusy DEF CallOps
<1>6. CASE Umount(p)
  <2>1. PICK g \in Given.mount : Enter(p, "umount", g, NoSource, TRUE)
    BY <1>6 DEF Umount
  <2> QED
    BY <2>1, GivenTyped, EnterBusy DEF CallOps
<1> QED
  BY <1>1, <1>2, <1>3, <1>4, <1>5, <1>6

LEMMA ChrootTyped ==
    ASSUME PlacesOK, NEW p \in Procs, NEW b, NEW s, emulate_chroot(p, realpath(b, s))
    PROVE  pending' \in [Procs -> Dirs \cup {Empty}]
<1>1. PICK c \in Dirs \cup {Empty} : c = realpath(b, s)
  BY RealTyped
<1>2. pending' = IF c = Empty THEN pending ELSE [pending EXCEPT ![p] = c]
  BY <1>1 DEF emulate_chroot
<1> QED
  BY <1>2 DEF PlacesOK

LEMMA InitIInv == Init => IInv
<1> SUFFICES ASSUME Init PROVE IInv
  OBVIOUS
<1>1. BindsOK
  BY StartBindsTyped DEF Init, BindsOK
<1>2. PlacesOK
  BY StartTyped, DirsTyped DEF Init, PlacesOK
<1> QED
  BY <1>1, <1>2 DEF Init, IInv, AtRest

LEMMA NextIInv == IInv /\ [Next]_vars => IInv'
<1> SUFFICES ASSUME IInv, [Next]_vars PROVE IInv'
  OBVIOUS
<1>0. BindsOK /\ PlacesOK /\ (AtRest \/ Busy)
  BY DEF IInv
<1>1. CASE UNCHANGED vars
  BY <1>0, <1>1 DEF vars, IInv, BindsOK, PlacesOK, AtRest, Busy
<1>2. CASE WalkStep
  <2>1. Busy
    BY <1>0, <1>2 DEF AtRest, NoWalk, WalkStep, WalkEnd, WalkDot, WalkDotDot, WalkTooLong, WalkLast,
          WalkProc, WalkPlain, WalkLoop, WalkLink, AtLink, Checked, AtName, Walking
  <2>2. Goes(walk, walk')
    BY <1>0, <1>2, <2>1, Turns
  <2>3. BindsOK' /\ PlacesOK' /\ call' = call
    BY <1>0, <1>2 DEF WalkStep, BindsOK, PlacesOK
  <2>4. Busy'
    BY <2>1, <2>2, <2>3 DEF Busy, Goes
  <2> QED
    BY <2>3, <2>4 DEF IInv
<1>3. ASSUME NEW op, op # "idle", Stopped(op)
      PROVE  Busy /\ call.p \in Procs /\ walk.cur \in Full /\ Result \in Full /\ Result \in Text
  <2>1. Busy
    BY <1>0, <1>3 DEF AtRest, Idle, Stopped
  <2>2. Result \in Full
    BY <1>0, <2>1, ResultTyped
  <2> QED
    BY <2>1, <2>2 DEF Busy, CallType, WalkType, Full
<1>4. Leave => AtRest'
  BY DEF Leave, AtRest, Idle, NoWalk
<1>5. CASE Used
  BY <1>0, <1>4, <1>5 DEF Used, IInv, BindsOK, PlacesOK
<1>6. CASE Moved
  <2>1. call.p \in Procs
    BY <1>3, <1>6 DEF Moved
  <2>2. PICK k : cwd' = IF k \in Dirs THEN [cwd EXCEPT ![call.p] = k] ELSE cwd
    BY <1>6 DEF Moved
  <2>3. PlacesOK'
    BY <1>0, <1>6, <2>1, <2>2 DEF Moved, PlacesOK
  <2> QED
    BY <1>0, <1>4, <1>6, <2>3 DEF Moved, IInv, BindsOK
<1>7. CASE Rooted
  <2>1. PICK p \in Procs : p = call.p
    BY <1>3, <1>7 DEF Rooted
  <2>2. PICK s : s = Result
    OBVIOUS
  <2>3. pending' \in [Procs -> Dirs \cup {Empty}]
    BY <1>0, <1>7, <2>1, <2>2, ChrootTyped DEF Rooted
  <2> QED
    BY <1>0, <1>4, <1>7, <2>3 DEF Rooted, IInv, BindsOK, PlacesOK
<1>8. CASE Targeted
  <2>1. /\ Busy /\ call.p \in Procs /\ walk.cur \in Full /\ Result \in Full
        /\ call.op = "mount"
    BY <1>3, <1>8 DEF Targeted, Stopped
  <2>2. call \in CallType /\ call.source \in Sources
    BY <2>1 DEF Busy
  <2>3. PICK src \in Sources : src = call.source
    BY <2>2
  <2>4. PICK p \in Procs : p = call.p
    BY <2>1
  <2>5. Start(p, src, TRUE)
    BY <1>8, <2>3, <2>4 DEF Targeted
  <2>6. PICK s \in Full : s = absolute_guest_path(p, src)
    BY <1>0, <2>5, GivenTyped, AbsoluteTyped DEF Start
  <2>7. PICK w : w = Translate(p, s, TRUE)
    OBVIOUS
  <2>8. w \in WalkType /\ w.hops = 0 /\ walk' = w
    BY <2>5, <2>6, <2>7, TranslateTyped DEF Start
  <2>9. PICK g \in Full : g = walk.cur
    BY <2>1
  <2>10. PICK h \in Full : h = Result
    BY <2>1
  <2>11. call' = [call EXCEPT !.op = "mount from", !.guest = g, !.host = h]
    BY <1>8, <2>9, <2>10 DEF Targeted
  <2>12. call' \in CallType /\ call'.op = "mount from" /\ call'.guest = g /\ call'.host = h
    BY <2>2, <2>11 DEF CallType, CallOps, Full
  <2>13. Busy'
    <3>1. walk' \in WalkType /\ walk'.hops <= MAX_SYMLINK_HOPS
      BY <2>8, BoundsAssumption
    <3>2. call'.op # "mount" /\ call'.guest \in Full /\ call'.host \in Full
      BY <2>12
    <3> QED
      BY <2>12, <3>1, <3>2 DEF Busy, WalkType, CallType
  <2> QED
    BY <1>0, <1>8, <2>13 DEF Targeted, IInv, BindsOK, PlacesOK
<1>9. CASE TargetedOutside
  <2>1. Busy /\ walk.cur \in Full /\ Result \in Text /\ call.op = "mount"
    BY <1>3, <1>9 DEF TargetedOutside, Stopped
  <2>2. call.source.to \in Full
    BY <2>1, GivenTyped DEF Busy, Argument
  <2>3. BindsOK'
    <3>1. PICK s \in Full : s = call.source.to
      BY <2>2
    <3>2. PICK g \in Full : g = walk.cur
      BY <2>1
    <3>3. PICK m \in Text : m = Result
      BY <2>1
    <3>4. Attach(TracerCwd, s, g, m)
      BY <1>9, <3>1, <3>2, <3>3 DEF TargetedOutside
    <3> QED
      BY <1>0, <3>4, AttachTyped
  <2> QED
    BY <1>0, <1>4, <1>9, <2>3 DEF TargetedOutside, IInv, PlacesOK
<1>10. CASE Attached
  <2>1. Busy /\ Result \in Full /\ call.op = "mount from"
    BY <1>3, <1>10 DEF Attached, Stopped
  <2>2. call.guest \in Full /\ call.host \in Text
    BY <2>1 DEF Busy, Full
  <2>3. BindsOK'
    <3>1. PICK s \in Full : s = Result
      BY <2>1
    <3>2. PICK g \in Full : g = call.guest
      BY <2>2
    <3>3. PICK m \in Text : m = call.host
      BY <2>2
    <3>4. Attach(Slash, s, g, m)
      BY <1>10, <3>1, <3>2, <3>3 DEF Attached
    <3> QED
      BY <1>0, <3>4, AttachTyped
  <2> QED
    BY <1>0, <1>4, <1>10, <2>3 DEF Attached, IInv, PlacesOK
<1>11. CASE AttachedProc
  <2>1. walk.cur \in Full /\ Result \in Text
    BY <1>3, <1>11 DEF AttachedProc
  <2>2. BindsOK'
    <3>1. PICK s \in Full : s = << "proc" >>
      BY NamesTyped
    <3>2. PICK g \in Full : g = walk.cur
      BY <2>1
    <3>3. PICK m \in Text : m = Result
      BY <2>1
    <3>4. Attach(Slash, s, g, m)
      BY <1>11, <3>1, <3>2, <3>3 DEF AttachedProc
    <3> QED
      BY <1>0, <3>4, AttachTyped
  <2> QED
    BY <1>0, <1>4, <1>11, <2>2 DEF AttachedProc, IInv, PlacesOK
<1>12. CASE Detached
  <2>1. PICK g : g = walk.cur
    OBVIOUS
  <2>2. emuroot_unbind(g)
    BY <1>12, <2>1 DEF Detached
  <2>3. BindsOK'
    BY <1>0, <2>2, UnbindTyped
  <2> QED
    BY <1>0, <1>4, <1>12, <2>3 DEF Detached, IInv, PlacesOK
<1>13. ASSUME NEW p \in Procs,
              \/ UsePath(p) \/ Chdir(p) \/ Chroot(p) \/ Mount(p) \/ MountProc(p) \/ Umount(p)
              \/ ChdirOutside(p) \/ ChrootOutside(p) \/ CommitChroot(p)
       PROVE  IInv'
  <2>1. CASE UsePath(p) \/ Chdir(p) \/ Chroot(p) \/ Mount(p) \/ MountProc(p) \/ Umount(p)
    BY <1>0, <2>1, CallsBusy
  <2>2. CASE ChdirOutside(p)
    <3>1. PICK k \in Dirs : cwd' = [cwd EXCEPT ![p] = k]
      BY <2>2 DEF ChdirOutside
    <3> QED
      BY <1>0, <2>2, <3>1 DEF ChdirOutside, IInv, BindsOK, PlacesOK, AtRest, Busy
  <2>3. CASE ChrootOutside(p)
    <3>1. PICK g \in Given.chroot : emulate_chroot(p, realpath(TracerCwd, g.to))
      BY <2>3 DEF ChrootOutside
    <3>2. pending' \in [Procs -> Dirs \cup {Empty}]
      BY <1>0, <3>1, ChrootTyped
    <3> QED
      BY <1>0, <2>3, <3>2 DEF ChrootOutside, IInv, BindsOK, PlacesOK, AtRest, Busy
  <2>4. CASE CommitChroot(p)
    BY <1>0, <2>4 DEF CommitChroot, IInv, BindsOK, PlacesOK, AtRest, Busy
  <2> QED
    BY <1>13, <2>1, <2>2, <2>3, <2>4
<1> QED
  BY <1>1, <1>2, <1>5, <1>6, <1>7, <1>8, <1>9, <1>10, <1>11, <1>12, <1>13 DEF Next

LEMMA AlwaysIInv == Spec => []IInv
<1> QED
  BY InitIInv, NextIInv, PTL DEF Spec

(* The loop of emuroot_translate_path_ex ends whatever the symlinks are,   *)
(* loops of them included: each turn either follows one of the at most     *)
(* MAX_SYMLINK_HOPS symlinks or leaves less of the path to walk.           *)
THEOREM WalksEnd == Spec => WalkAdvances
<1> DEFINE Advance == Walking /\ walk'.stop = "no" /\ call' = call =>
              \/ walk'.hops > walk.hops /\ walk'.hops <= MAX_SYMLINK_HOPS
              \/ walk'.hops = walk.hops /\ Len(walk'.rest) < Len(walk.rest)
<1>1. IInv /\ [Next]_vars => [Advance]_vars
  <2> SUFFICES ASSUME IInv, Next, Walking, walk'.stop = "no", call' = call
               PROVE  \/ walk'.hops > walk.hops /\ walk'.hops <= MAX_SYMLINK_HOPS
                      \/ walk'.hops = walk.hops /\ Len(walk'.rest) < Len(walk.rest)
    OBVIOUS
  <2>1. BindsOK /\ PlacesOK /\ Busy
    BY DEF IInv, AtRest, NoWalk, Walking
  <2>2. call # Idle
    BY <2>1, BusyIs
  <2>3. WalkStep
    BY <2>2 DEF Next, Used, Moved, Rooted, Targeted, TargetedOutside, Attached, AttachedProc,
          Detached, Stopped, UsePath, Chdir, Chroot, Mount, MountProc, Umount, Enter, Free,
          ChdirOutside, ChrootOutside, CommitChroot
  <2> QED
    BY <2>1, <2>3, Turns DEF Goes
<1> HIDE DEF Advance
<1>2. Spec => [][Advance]_vars
  BY <1>1, AlwaysIInv, PTL DEF Spec
<1> QED
  BY <1>2, PTL DEF WalkAdvances, Advance

-----------------------------------------------------------------------------
(* Prefixes and joins. *)
Bare(s) == \A i \in 1 .. Len(s) : s[i] # ""
Joins(g, a, b) ==
    /\ Len(g) = Len(a) + Len(b)
    /\ \A i \in 1 .. Len(a) : g[i] = a[i]
    /\ \A i \in 1 .. Len(b) : g[Len(a) + i] = b[i]

LEMMA Joined ==
    ASSUME NEW a \in Text, NEW b \in Text
    PROVE  a \o b \in Text /\ Joins(a \o b, a, b) /\ Len(a) \in Nat /\ Len(b) \in Nat
BY ConcatProperties, LenProperties DEF Joins, Text

LEMMA JoinsOne ==
    ASSUME NEW a \in Text, NEW b \in Text, NEW g \in Text, Joins(g, a, b)
    PROVE  g = a \o b
<1>1. PICK w, m, n : w = a \o b /\ m = Len(a) /\ n = Len(b)
  OBVIOUS
<1>2. w \in Text /\ Joins(w, a, b) /\ m \in Nat /\ n \in Nat
  BY <1>1, Joined
<1>3. Len(w) = m + n /\ Len(g) = m + n
  BY <1>1, <1>2 DEF Joins
<1>4. ASSUME NEW i \in 1 .. m + n PROVE g[i] = w[i]
  <2>1. CASE i <= m
    <3>1. i \in 1 .. m
      BY <1>2, <2>1
    <3> QED
      BY <1>1, <1>2, <3>1 DEF Joins
  <2>2. CASE i > m
    <3>1. PICK j : j = i - m
      OBVIOUS
    <3>2. j \in 1 .. n /\ i = m + j
      BY <1>2, <2>2, <3>1
    <3> QED
      BY <1>1, <1>2, <3>2 DEF Joins
  <2> QED
    BY <1>2, <2>1, <2>2
<1> QED
  BY <1>1, <1>2, <1>3, <1>4, SeqEqual DEF Text

LEMMA DropIs ==
    ASSUME NEW s \in Text, NEW n \in Nat, n <= Len(s)
    PROVE  /\ Drop(s, n) \in Text /\ Len(Drop(s, n)) = Len(s) - n
           /\ \A i \in 1 .. Len(s) - n : Drop(s, n)[i] = s[n + i]
<1>1. PICK m, z, k : m = n + 1 /\ z = Len(s) /\ k = SubSeq(s, m, z)
  OBVIOUS
<1>2. z \in Nat /\ m \in Int /\ z \in Int /\ \A i \in m .. z : s[i] \in STRING
  BY <1>1, LenProperties, ElementOfSeq DEF Text
<1>3. k \in Seq(STRING) /\ Len(k) = (IF m <= z THEN z - m + 1 ELSE 0)
      /\ \A i \in 1 .. z - m + 1 : k[i] = s[m + i - 1]
  BY <1>1, <1>2, SubSeqProperties
<1>4. Len(k) = z - n /\ \A i \in 1 .. z - n : k[i] = s[n + i]
  BY <1>1, <1>2, <1>3
<1> QED
  BY <1>1, <1>3, <1>4 DEF Drop, Text

LEMMA PrefixSplit ==
    ASSUME NEW s \in Text, NEW q \in Text, has_prefix(s, q)
    PROVE  Drop(s, Len(q)) \in Text /\ s = q \o Drop(s, Len(q))
<1>1. PICK n, m, t : n = Len(q) /\ m = Len(s) /\ t = Drop(s, n)
  OBVIOUS
<1>2. n \in Nat /\ m \in Nat /\ DOMAIN q = 1 .. n /\ DOMAIN s = 1 .. m
  BY <1>1, LenProperties DEF Text
<1>3. n <= m /\ \A i \in 1 .. n : q[i] = s[i]
  BY <1>2 DEF has_prefix, IsPrefix
<1>4. t \in Text /\ Len(t) = m - n /\ \A i \in 1 .. m - n : t[i] = s[n + i]
  BY <1>1, <1>2, <1>3, DropIs
<1>5. Joins(s, q, t)
  BY <1>1, <1>2, <1>3, <1>4 DEF Joins
<1> QED
  BY <1>1, <1>4, <1>5, JoinsOne

LEMMA JoinSplit ==
    ASSUME NEW q \in Text, NEW t \in Text
    PROVE  has_prefix(q \o t, q) /\ Drop(q \o t, Len(q)) = t
<1>1. PICK s, n, m : s = q \o t /\ n = Len(q) /\ m = Len(t)
  OBVIOUS
<1>2. s \in Text /\ Joins(s, q, t) /\ n \in Nat /\ m \in Nat
  BY <1>1, Joined
<1>3. Len(s) = n + m /\ \A i \in 1 .. n : s[i] = q[i]
  BY <1>1, <1>2 DEF Joins
<1>4. DOMAIN q = 1 .. n /\ DOMAIN s = 1 .. n + m
  BY <1>1, <1>2, <1>3, LenProperties DEF Text
<1>5. has_prefix(s, q)
  BY <1>2, <1>3, <1>4 DEF has_prefix, IsPrefix
<1>6. PICK d : d = Drop(s, n)
  OBVIOUS
<1>7. d \in Text /\ Len(d) = m /\ \A i \in 1 .. m : d[i] = s[n + i]
  <2>1. n <= Len(s) /\ Len(s) - n = m
    BY <1>2, <1>3
  <2>2. d \in Text /\ Len(d) = Len(s) - n /\ \A i \in 1 .. Len(s) - n : d[i] = s[n + i]
    BY <1>2, <1>6, <2>1, DropIs
  <2> QED
    BY <2>1, <2>2
<1>8. \A i \in 1 .. m : d[i] = t[i]
  BY <1>1, <1>2, <1>7 DEF Joins
<1>9. d = t
  BY <1>1, <1>7, <1>8, SeqEqual DEF Text
<1> QED
  BY <1>1, <1>5, <1>6, <1>9

LEMMA Comparable ==
    ASSUME NEW s \in Text, NEW q \in Text, NEW u \in Text, has_prefix(s, q), has_prefix(s, u)
    PROVE  has_prefix(q, u) \/ has_prefix(u, q)
<1>1. PICK k, m, n : k = Len(s) /\ m = Len(q) /\ n = Len(u)
  OBVIOUS
<1>2. /\ k \in Nat /\ m \in Nat /\ n \in Nat
      /\ DOMAIN s = 1 .. k /\ DOMAIN q = 1 .. m /\ DOMAIN u = 1 .. n
  BY <1>1, LenProperties DEF Text
<1>3. (\A i \in 1 .. m : q[i] = s[i]) /\ (\A i \in 1 .. n : u[i] = s[i])
  BY <1>2 DEF has_prefix, IsPrefix
<1>4. CASE m <= n
  <2>1. has_prefix(u, q)
    BY <1>2, <1>3, <1>4 DEF has_prefix, IsPrefix
  <2> QED
    BY <2>1
<1>5. CASE n <= m
  <2>1. has_prefix(q, u)
    BY <1>2, <1>3, <1>5 DEF has_prefix, IsPrefix
  <2> QED
    BY <2>1
<1> QED
  BY <1>2, <1>4, <1>5

LEMMA BareJoin ==
    ASSUME NEW a \in Text, NEW b \in Text
    PROVE  Bare(a \o b) <=> Bare(a) /\ Bare(b)
<1>1. PICK s, m, n, e : s = a \o b /\ m = Len(a) /\ n = Len(b) /\ e = ""
  OBVIOUS
<1>2. s \in Text /\ Joins(s, a, b) /\ m \in Nat /\ n \in Nat
  BY <1>1, Joined
<1>3. /\ Len(s) = m + n /\ \A i \in 1 .. m : s[i] = a[i]
      /\ \A i \in 1 .. n : s[m + i] = b[i]
  BY <1>1, <1>2 DEF Joins
<1>4. ASSUME Bare(a), Bare(b), NEW i \in 1 .. m + n PROVE s[i] # e
  <2>1. CASE i <= m
    <3>1. i \in 1 .. m
      BY <1>2, <2>1
    <3> QED
      BY <1>1, <1>3, <1>4, <3>1 DEF Bare
  <2>2. CASE i > m
    <3>1. PICK j : j = i - m
      OBVIOUS
    <3>2. j \in 1 .. n /\ i = m + j
      BY <1>2, <2>2, <3>1
    <3> QED
      BY <1>1, <1>3, <1>4, <3>2 DEF Bare
  <2> QED
    BY <1>2, <2>1, <2>2
<1>5. ASSUME \A i \in 1 .. m + n : s[i] # e
      PROVE  (\A i \in 1 .. m : a[i] # e) /\ (\A i \in 1 .. n : b[i] # e)
  <2>1. \A i \in 1 .. m : i \in 1 .. m + n
    BY <1>2
  <2>2. \A i \in 1 .. n : m + i \in 1 .. m + n
    BY <1>2
  <2> QED
    BY <1>3, <1>5, <2>1, <2>2
<1> QED
  BY <1>1, <1>3, <1>4, <1>5 DEF Bare

LEMMA EmptyFacts ==
    /\ Empty \in Text /\ Len(Empty) = 0 /\ Slash \in Text /\ Len(Slash) = 1 /\ Slash # Empty
    /\ Bare(Empty) /\ ~Bare(Slash) /\ Slash[1] = ""
    /\ \A s \in Text : s = Empty <=> Len(s) = 0
<1>1. PICK e : e = "" /\ Slash = << e >>
  BY Zenon DEF Slash
<1>2. Empty \in Text /\ Len(Empty) = 0 /\ Slash \in Text /\ Len(Slash) = 1 /\ Slash # Empty
  <2>1. Empty \in Text /\ Len(Empty) = 0 /\ Slash \in Text /\ Slash # Empty
    BY NamesTyped DEF Full
  <2> QED
    BY <1>1, <2>1
<1>3. Bare(Empty)
  <2>1. 1 .. Len(Empty) = {}
    <3>1. PICK n : n = Len(Empty)
      OBVIOUS
    <3>2. 1 .. n = {}
      BY <1>2, <3>1
    <3> QED
      BY <3>1, <3>2
  <2> QED
    BY <2>1 DEF Bare
<1>4. ~Bare(Slash)
  <2>1. 1 \in 1 .. Len(Slash)
    BY <1>2
  <2>2. << e >>[1] = e
    OBVIOUS
  <2>3. Slash[1] = e
    BY <1>1, <2>2, Zenon
  <2> QED
    BY <1>1, <2>1, <2>3, Zenon DEF Bare
<1>5. \A s \in Text : s = Empty <=> Len(s) = 0
  BY <1>2, EmptySeq DEF Text, Empty
<1>6. Slash[1] = ""
  <2>1. << e >>[1] = e
    OBVIOUS
  <2> QED
    BY <1>1, <2>1, Zenon
<1> QED
  BY <1>2, <1>3, <1>4, <1>5, <1>6

LEMMA EmptyJoins ==
    ASSUME NEW s \in Text
    PROVE  /\ Empty \o s = s /\ s \o Empty = s /\ Drop(s, 0) = s
           /\ \A t \in Text : s \o t = Empty <=> (s = Empty /\ t = Empty)
<1>1. Empty \o s = s /\ s \o Empty = s
  BY ConcatEmptySeq DEF Text, Empty
<1>2. Drop(s, 0) = s
  <2>1. Empty \in Text /\ Len(Empty) = 0
    BY EmptyFacts
  <2>2. PICK e : e = Empty
    OBVIOUS
  <2>3. Drop(e \o s, Len(e)) = s
    BY <2>1, <2>2, JoinSplit
  <2> QED
    BY <1>1, <2>1, <2>2, <2>3
<1>3. ASSUME NEW t \in Text PROVE s \o t = Empty <=> (s = Empty /\ t = Empty)
  <2>1. PICK g : g = s \o t
    OBVIOUS
  <2>2. g \in Text /\ Joins(g, s, t) /\ Len(s) \in Nat /\ Len(t) \in Nat
    BY <1>3, <2>1, Joined
  <2>3. Len(g) = Len(s) + Len(t)
    BY <2>2 DEF Joins
  <2>4. Len(g) = 0 <=> (Len(s) = 0 /\ Len(t) = 0)
    BY <2>2, <2>3
  <2> QED
    BY <1>3, <2>1, <2>2, <2>4, EmptyFacts
<1> QED
  BY <1>1, <1>2, <1>3

LEMMA CleanIs ==
    ASSUME NEW s \in Text
    PROVE  /\ Clean(s) <=> (s # Empty /\ Bare(s))
           /\ Clean(s) => Unslashed(s) = s /\ Length(s) = Len(s) /\ Length(s) > 0 /\ OrSlash(s) = s
<1>1. PICK n, e : n = Len(s) /\ e = ""
  OBVIOUS
<1>2. n \in Nat /\ DOMAIN s = 1 .. n
  BY <1>1, LenProperties DEF Text
<1>3. Clean(s) <=> (s # Empty /\ \A i \in 1 .. n : s[i] # e)
  BY <1>1, <1>2 DEF Clean, Range
<1>4. Clean(s) <=> (s # Empty /\ Bare(s))
  BY <1>1, <1>3 DEF Bare
<1>5. ASSUME Clean(s) PROVE Unslashed(s) = s /\ Length(s) = Len(s) /\ Length(s) > 0 /\ OrSlash(s) = s
  <2>1. s # Slash /\ s # Empty
    BY <1>4, <1>5, EmptyFacts
  <2>2. n # 0
    BY <1>1, <2>1, EmptyFacts
  <2>3. n > 0
    BY <1>2, <2>2
  <2> QED
    BY <1>1, <2>1, <2>3 DEF Length, Unslashed, OrSlash
<1> QED
  BY <1>4, <1>5

(* The names in a path string: the recursion has one solution. *)
Names(s, w) ==
    /\ w \in [0 .. Len(s) -> Text] /\ w[0] = Empty
    /\ \A n \in 1 .. Len(s) : w[n] = IF s[n] = "" THEN w[n - 1] ELSE Append(w[n - 1], s[n])
LEMMA PathBy ==
    ASSUME NEW s \in Text, NEW w, Names(s, w)
    PROVE  Path(s) = OrSlash(w[Len(s)])
<1>1. PICK L, e : L = Len(s) /\ e = ""
  OBVIOUS
<1>2. L \in Nat
  BY <1>1, LenProperties DEF Text
<1>3. /\ w \in [0 .. L -> Text] /\ w[0] = Empty
      /\ \A n \in 1 .. L : w[n] = IF s[n] = e THEN w[n - 1] ELSE Append(w[n - 1], s[n])
  BY <1>1 DEF Names
<1> DEFINE Is(f) == f = [n \in 0 .. L |-> IF n = 0 THEN Empty ELSE IF s[n] = e THEN f[n - 1]
                                          ELSE Append(f[n - 1], s[n])]
           g == CHOOSE f : Is(f)
<1>4. Path(s) = OrSlash(g[L])
  BY <1>1 DEF Path
<1>5. Is(w)
  <2>1. \A n \in 0 .. L : w[n] = IF n = 0 THEN Empty ELSE IF s[n] = e THEN w[n - 1]
                                ELSE Append(w[n - 1], s[n])
    <3> SUFFICES ASSUME NEW n \in 0 .. L, n # 0
                 PROVE  w[n] = IF s[n] = e THEN w[n - 1] ELSE Append(w[n - 1], s[n])
      BY <1>3
    <3>1. n \in 1 .. L
      BY <1>2
    <3> QED
      BY <1>3, <3>1
  <2> QED
    BY <1>3, <2>1
<1> HIDE DEF Is
<1>6. Is(g)
  BY <1>5
<1> HIDE DEF g
<1>7. \A n \in 0 .. L : g[n] = IF n = 0 THEN Empty ELSE IF s[n] = e THEN g[n - 1]
                              ELSE Append(g[n - 1], s[n])
  BY <1>6 DEF Is
<1>8. \A n \in 0 .. L : g[n] = w[n]
  <2> DEFINE T == {n \in 0 .. L : g[n] # w[n]}
  <2> SUFFICES ASSUME T # {} PROVE FALSE
    OBVIOUS
  <2>1. T \in SUBSET Nat
    BY <1>2
  <2>2. PICK x \in T : \A y \in T : x <= y
    <3> HIDE DEF T
    <3> QED
      BY <2>1, Least
  <2>3. x \in 0 .. L /\ g[x] # w[x]
    BY <2>2
  <2>4. x # 0
    BY <1>2, <1>3, <1>7, <2>3
  <2>5. x \in 1 .. L /\ x - 1 \in 0 .. L /\ ~(x <= x - 1)
    BY <1>2, <2>3, <2>4
  <2>6. g[x - 1] = w[x - 1]
    BY <2>2, <2>5
  <2>7. w[x] = IF s[x] = e THEN w[x - 1] ELSE Append(w[x - 1], s[x])
    BY <1>3, <2>5
  <2>8. g[x] = IF s[x] = e THEN g[x - 1] ELSE Append(g[x - 1], s[x])
    BY <1>7, <2>3, <2>4
  <2> QED
    BY <2>3, <2>6, <2>7, <2>8
<1>9. g[L] = w[L]
  BY <1>2, <1>8
<1> QED
  BY <1>1, <1>4, <1>9

LEMMA InitialNext ==
    ASSUME NEW s \in Text, NEW n \in 1 .. Len(s)
    PROVE  SubSeq(s, 1, n) = Append(SubSeq(s, 1, n - 1), s[n])
<1>1. PICK L, m : L = Len(s) /\ m = n - 1
  OBVIOUS
<1>2. L \in Nat /\ n \in Nat /\ m \in Nat /\ m < n /\ n <= L /\ n = m + 1 /\ \A i \in 1 .. n : s[i] \in STRING
  BY <1>1, LenProperties, ElementOfSeq DEF Text
<1>3. PICK a, b, c : a = SubSeq(s, 1, n) /\ b = SubSeq(s, 1, m) /\ c = Append(b, s[n])
  OBVIOUS
<1>4. a \in Seq(STRING) /\ Len(a) = n /\ \A i \in 1 .. n : a[i] = s[i]
  BY <1>2, <1>3
<1>5. b \in Seq(STRING) /\ Len(b) = m /\ \A i \in 1 .. m : b[i] = s[i]
  BY <1>2, <1>3
<1>6. c \in Seq(STRING) /\ Len(c) = m + 1 /\ (\A i \in 1 .. m : c[i] = b[i]) /\ c[m + 1] = s[n]
  BY <1>2, <1>3, <1>5, AppendProperties
<1>7. \A i \in 1 .. n : a[i] = c[i]
  BY <1>2, <1>4, <1>5, <1>6
<1>8. a = c
  BY <1>2, <1>4, <1>6, <1>7, SeqEqual
<1> QED
  BY <1>1, <1>3, <1>8

LEMMA InitialIs ==
    ASSUME NEW s \in Text
    PROVE  /\ \A n \in 0 .. Len(s) : SubSeq(s, 1, n) \in Text
           /\ SubSeq(s, 1, 0) = Empty /\ SubSeq(s, 1, Len(s)) = s
<1>1. PICK L : L = Len(s)
  OBVIOUS
<1>2. L \in Nat /\ \A i \in 1 .. L : s[i] \in STRING
  BY <1>1, LenProperties, ElementOfSeq DEF Text
<1>3. ASSUME NEW n \in 0 .. L
      PROVE  SubSeq(s, 1, n) \in Text /\ Len(SubSeq(s, 1, n)) = n
             /\ \A i \in 1 .. n : SubSeq(s, 1, n)[i] = s[i]
  BY <1>2, <1>3 DEF Text
<1>4. SubSeq(s, 1, 0) = Empty
  <2>1. PICK a : a = SubSeq(s, 1, 0)
    OBVIOUS
  <2>2. a \in Text /\ Len(a) = 0
    BY <1>2, <1>3, <2>1
  <2> QED
    BY <2>1, <2>2, EmptyFacts
<1>5. SubSeq(s, 1, L) = s
  <2>1. PICK a : a = SubSeq(s, 1, L)
    OBVIOUS
  <2>2. a \in Text /\ Len(a) = L /\ \A i \in 1 .. L : a[i] = s[i]
    BY <1>2, <1>3, <2>1
  <2>3. a = s
    BY <1>1, <2>2, SeqEqual DEF Text
  <2> QED
    BY <2>1, <2>3
<1> QED
  BY <1>1, <1>3, <1>4, <1>5

(* A path without empty components, or with one at its end. *)
LEMMA PathOf ==
    ASSUME NEW s \in Text, Bare(s)
    PROVE  Path(s) = OrSlash(s) /\ Path(s \o Slash) = OrSlash(s)
<1>1. PICK L, e : L = Len(s) /\ e = ""
  OBVIOUS
<1>2. L \in Nat /\ \A i \in 1 .. L : s[i] # e
  BY <1>1, LenProperties DEF Bare, Text
<1> DEFINE w == [n \in 0 .. L |-> SubSeq(s, 1, n)]
<1>3. /\ w \in [0 .. L -> Text] /\ w[0] = Empty /\ w[L] = s
      /\ \A n \in 1 .. L : w[n] = Append(w[n - 1], s[n])
  <2>1. w \in [0 .. L -> Text]
    BY <1>1, InitialIs
  <2>2. w[0] = Empty /\ w[L] = s
    <3>1. 0 \in 0 .. L /\ L \in 0 .. L
      BY <1>2
    <3>2. SubSeq(s, 1, 0) = Empty /\ SubSeq(s, 1, L) = s
      BY <1>1, InitialIs
    <3>3. w[0] = SubSeq(s, 1, 0) /\ w[L] = SubSeq(s, 1, L)
      BY <3>1
    <3> HIDE DEF w
    <3> QED
      BY <3>2, <3>3
  <2>3. ASSUME NEW n \in 1 .. L PROVE w[n] = Append(w[n - 1], s[n])
    <3>1. n \in 0 .. L /\ n - 1 \in 0 .. L
      BY <1>2
    <3>2. w[n] = SubSeq(s, 1, n) /\ w[n - 1] = SubSeq(s, 1, n - 1)
      BY <3>1
    <3> QED
      BY <1>1, <3>2, InitialNext
  <2> QED
    BY <2>1, <2>2, <2>3
<1> HIDE DEF w
<1>4. Path(s) = OrSlash(s)
  <2>1. Names(s, w)
    BY <1>1, <1>2, <1>3 DEF Names
  <2> QED
    BY <1>1, <1>3, <2>1, PathBy
<1>5. PICK t : t = s \o Slash
  OBVIOUS
<1>6. t \in Text /\ Len(t) = L + 1 /\ t[L + 1] = e /\ \A i \in 1 .. L : t[i] = s[i]
  <2>1. t \in Text /\ Joins(t, s, Slash)
    BY <1>5, EmptyFacts, Joined
  <2>2. Len(Slash) = 1 /\ Slash[1] = e
    BY <1>1, EmptyFacts
  <2>3. PICK z : z = Slash
    OBVIOUS
  <2>4. /\ Len(t) = L + 1 /\ \A i \in 1 .. L : t[i] = s[i]
        /\ \A i \in 1 .. 1 : t[L + i] = z[i]
    BY <1>1, <2>1, <2>2, <2>3 DEF Joins
  <2>5. t[L + 1] = z[1]
    BY <2>4
  <2> QED
    BY <2>1, <2>2, <2>3, <2>4, <2>5
<1> DEFINE v == [n \in 0 .. L + 1 |-> IF n <= L THEN w[n] ELSE s]
<1>7. Names(t, v) /\ v[L + 1] = s
  <2>1. v \in [0 .. L + 1 -> Text] /\ v[L + 1] = s /\ v[0] = Empty
    BY <1>2, <1>3
  <2>2. ASSUME NEW n \in 1 .. L + 1
        PROVE  v[n] = IF t[n] = e THEN v[n - 1] ELSE Append(v[n - 1], t[n])
    <3>1. CASE n = L + 1
      <4>1. v[n] = s /\ v[n - 1] = w[L]
        BY <1>2, <3>1
      <4> QED
        BY <1>3, <1>6, <3>1, <4>1
    <3>2. CASE n # L + 1
      <4>1. n \in 1 .. L /\ n \in 0 .. L + 1 /\ n - 1 \in 0 .. L + 1 /\ n <= L /\ n - 1 <= L
        BY <1>2, <3>2
      <4>2. v[n] = w[n] /\ v[n - 1] = w[n - 1]
        BY <4>1
      <4> QED
        BY <1>2, <1>3, <1>6, <4>1, <4>2
    <3> QED
      BY <3>1, <3>2
  <2> HIDE DEF v
  <2> QED
    BY <1>1, <1>6, <2>1, <2>2 DEF Names
<1> HIDE DEF v
<1>8. Path(t) = OrSlash(s)
  BY <1>6, <1>7, PathBy
<1> QED
  BY <1>4, <1>5, <1>8

-----------------------------------------------------------------------------
(* The two mappings.  A path with, perhaps, a slash at its end: *)
Slashed(x, s) == x = s \/ x = s \o Slash

LEMMA CanonicalIs ==
    ASSUME NEW g \in Text, Canonical(g)
    PROVE  /\ Unslashed(g) \in Text /\ Bare(Unslashed(g)) /\ Slashed(g, Unslashed(g))
           /\ OrSlash(Unslashed(g)) = g /\ g # Empty
<1>1. CASE g = Slash
  <2>1. Unslashed(g) = Empty
    BY <1>1 DEF Unslashed
  <2>2. Empty \o Slash = Slash
    BY EmptyFacts, EmptyJoins
  <2> QED
    BY <1>1, <2>1, <2>2, EmptyFacts DEF Slashed, OrSlash
<1>2. CASE Clean(g)
  BY <1>2, CleanIs DEF Slashed
<1> QED
  BY <1>1, <1>2 DEF Canonical

LEMMA JoinSlash ==
    ASSUME NEW a \in Text, NEW b \in Text
    PROVE  (a \o b) \o Slash = a \o (b \o Slash)
<1>1. PICK z \in Text : z = Slash
  BY EmptyFacts
<1>2. (a \o b) \o z = a \o (b \o z)
  BY ConcatAssociative DEF Text
<1> QED
  BY <1>1, <1>2

LEMMA SlashedTyped ==
    ASSUME NEW s \in Text, NEW x, Slashed(x, s)
    PROVE  x \in Text
BY EmptyFacts, Joined DEF Slashed

LEMMA SlashedPath ==
    ASSUME NEW c \in Text, Clean(c), NEW t \in Text, Bare(t), NEW x, Slashed(x, t)
    PROVE  Path(OrSlash(c \o x)) = c \o t /\ c \o t \in Full
<1>1. PICK w : w = c \o t
  OBVIOUS
<1>2. w \in Text /\ Bare(w) /\ w # Empty
  BY <1>1, Joined, BareJoin, EmptyJoins, CleanIs
<1>3. CASE x = t
  <2>1. OrSlash(w) = w
    BY <1>2 DEF OrSlash
  <2>2. Path(w) = OrSlash(w)
    BY <1>2, PathOf
  <2> QED
    BY <1>1, <1>2, <1>3, <2>1, <2>2 DEF Full
<1>4. CASE x = t \o Slash
  <2>1. c \o (t \o Slash) = w \o Slash
    BY <1>1, JoinSlash
  <2>2. w \o Slash # Empty
    BY <1>2, EmptyFacts, EmptyJoins
  <2>3. OrSlash(c \o x) = w \o Slash
    BY <1>4, <2>1, <2>2 DEF OrSlash
  <2>4. Path(w \o Slash) = w
    BY <1>2, PathOf DEF OrSlash
  <2> QED
    BY <1>1, <1>2, <2>3, <2>4 DEF Full
<1> QED
  BY <1>3, <1>4 DEF Slashed

LEMMA SlashedRest ==
    ASSUME NEW x \in Text, Bare(x), NEW u, Slashed(u, x), NEW q \in Text, has_prefix(u, q)
    PROVE  \E t \in Text : Bare(t) /\ Slashed(Drop(u, Len(q)), t)
<1>1. u \in Text
  BY SlashedTyped
<1>2. PICK d : d = Drop(u, Len(q))
  OBVIOUS
<1>3. d \in Text /\ u = q \o d
  BY <1>1, <1>2, PrefixSplit
<1>4. CASE u = x
  <2>1. Bare(d)
    BY <1>3, <1>4, BareJoin
  <2> QED
    BY <1>2, <1>3, <2>1 DEF Slashed
<1>5. CASE u = x \o Slash
  <2>1. has_prefix(u, x) /\ Drop(u, Len(x)) = Slash
    BY <1>5, EmptyFacts, JoinSplit
  <2>2. CASE has_prefix(x, q)
    <3>1. PICK t \in Text : x = q \o t
      BY <2>2, PrefixSplit
    <3>2. Bare(t) /\ t \o Slash \in Text
      BY <3>1, BareJoin, EmptyFacts, Joined
    <3>3. u = q \o (t \o Slash)
      BY <1>5, <3>1, JoinSlash
    <3>4. d = t \o Slash
      BY <1>2, <3>2, <3>3, JoinSplit
    <3> QED
      BY <1>2, <3>2, <3>4 DEF Slashed
  <2>3. CASE has_prefix(q, x)
    <3>1. PICK y \in Text : q = x \o y
      BY <2>3, PrefixSplit
    <3>2. PICK z : z = y \o d
      OBVIOUS
    <3>3. z \in Text /\ Joins(z, y, d) /\ Len(y) \in Nat /\ Len(d) \in Nat
      BY <1>3, <3>2, Joined
    <3>4. u = x \o z
      BY <1>3, <3>1, <3>2, ConcatAssociative, SMTT(30) DEF Text
    <3>5. z = Slash
      BY <2>1, <3>3, <3>4, JoinSplit
    <3>6. Len(y) + Len(d) = 1
      BY <3>3, <3>5, EmptyFacts DEF Joins
    <3>7. CASE Len(d) = 0
      <4>1. d = Empty
        BY <1>3, <3>7, EmptyFacts
      <4> QED
        BY <1>2, <4>1, EmptyFacts DEF Slashed
    <3>8. CASE Len(y) = 0
      <4>1. y = Empty
        BY <3>8, EmptyFacts
      <4>2. d = Empty \o Slash
        BY <1>3, <3>2, <3>5, <4>1, EmptyFacts, EmptyJoins
      <4> QED
        BY <1>2, <4>2, EmptyFacts DEF Slashed
    <3>9. Len(d) = 0 \/ Len(y) = 0
      BY <3>3, <3>6
    <3> QED
      BY <3>7, <3>8, <3>9
  <2> QED
    BY <1>1, <2>1, <2>2, <2>3, Comparable
<1> QED
  BY <1>4, <1>5 DEF Slashed

(* The hosts lie apart from each other and from the root, the guests from  *)
(* each other.                                                             *)
Hosts(b, r) ==
    /\ \A i \in DOMAIN b : Clean(b[i].host) /\ (r = Empty \/ Apart(b[i].host, r))
    /\ \A i, j \in DOMAIN b : i # j => Apart(b[i].host, b[j].host)
Guests(b) ==
    \A i, j \in DOMAIN b : i # j => b[i].guest # Slash /\ Apart(b[i].guest, b[j].guest)

(* A directory below a binding's host is told by that binding's name. *)
LEMMA HostedBy ==
    ASSUME NEW b \in Seq(BindingType), NEW r \in Text, Hosts(b, r),
           NEW i \in DOMAIN b, NEW t \in Text
    PROVE  emuroot_host_to_guest(b, r, b[i].host \o t) = OrSlash(Unslashed(b[i].guest) \o t)
<1>1. PICK c, h, w : c = b[i].host /\ h = c \o t /\ w = emuroot_host_to_guest(b, r, h)
  OBVIOUS
<1>2. c \in Text /\ Clean(c) /\ c # Empty
  BY <1>1, BindingIs, CleanIs DEF Hosts
<1>3. h \in Full /\ h \in Text /\ has_prefix(h, c) /\ Drop(h, Len(c)) = t
  BY <1>1, <1>2, Joined, JoinSplit, EmptyJoins DEF Full
<1>4. i \in Hosting(b, h)
  BY <1>1, <1>2, <1>3, CleanIs DEF Hosting
<1>5. ASSUME NEW j \in Hosting(b, h) PROVE j = i
  <2>1. j \in DOMAIN b /\ has_prefix(h, b[j].host) /\ b[j].host \in Text
    BY <1>5, BindingIs DEF Hosting
  <2>2. ~Apart(c, b[j].host)
    BY <1>2, <1>3, <2>1, Comparable DEF Apart
  <2> QED
    BY <1>1, <2>1, <2>2 DEF Hosts
<1>6. w = Below(b[i].guest, h, Len(c))
  BY <1>1, <1>3, <1>4, <1>5, BackIs DEF ByHost
<1> QED
  BY <1>1, <1>3, <1>6 DEF Below

(* A directory below the root is told by its path below it. *)
LEMMA RootedAt ==
    ASSUME NEW b \in Seq(BindingType), NEW r \in Text, Hosts(b, r), r # Empty, NEW t \in Text
    PROVE  emuroot_host_to_guest(b, r, r \o t) = OrSlash(t)
<1>1. PICK h, w : h = r \o t /\ w = emuroot_host_to_guest(b, r, h)
  OBVIOUS
<1>2. h \in Full /\ h \in Text /\ has_prefix(h, r) /\ Drop(h, Len(r)) = t
  BY <1>1, Joined, JoinSplit, EmptyJoins DEF Full
<1>3. ASSUME NEW j \in Hosting(b, h) PROVE FALSE
  <2>1. j \in DOMAIN b /\ has_prefix(h, b[j].host) /\ b[j].host \in Text
    BY <1>3, BindingIs DEF Hosting
  <2>2. ~Apart(b[j].host, r)
    BY <1>2, <2>1, Comparable DEF Apart
  <2> QED
    BY <2>1, <2>2 DEF Hosts
<1>4. Hosting(b, h) = {}
  BY <1>3
<1> QED
  BY <1>1, <1>2, <1>4, BackIs

(* What a binding's name and a path below it name, when no other overlaps. *)
LEMMA NamedBy ==
    ASSUME NEW b \in Seq(BindingType), NEW r \in Text, Guests(b),
           NEW i \in DOMAIN b, Clean(b[i].host), NEW t \in Text, Bare(t)
    PROVE  Path(map_to_host(b, r, OrSlash(Unslashed(b[i].guest) \o t))) = b[i].host \o t
<1>1. PICK c, q, g, w : /\ c = b[i].host /\ q = b[i].guest /\ g = OrSlash(Unslashed(q) \o t)
                        /\ w = map_to_host(b, r, g)
  OBVIOUS
<1>2. c \in Text /\ Clean(c) /\ Unslashed(c) = c /\ q \in Text /\ q # Empty
  BY <1>1, BindingIs, CleanIs DEF Full
<1>3. CASE q = Slash
  <2>1. g = OrSlash(t)
    BY <1>1, <1>3, EmptyJoins DEF Unslashed
  <2>2. Slashed(g, t)
    <3>1. Empty \o Slash = Slash
      BY EmptyFacts, EmptyJoins
    <3> QED
      BY <2>1, <3>1 DEF Slashed, OrSlash
  <2>3. Length(q) = 0 /\ g \in Full /\ g \in Text /\ Drop(g, 0) = g
    BY <1>3, <2>1, PathOps, EmptyFacts, EmptyJoins DEF Length, Unslashed, Full
  <2> QED
    <3>1. i \in Bound(b, g)
      BY <1>1, <1>3 DEF Bound
    <3>2. \A j \in Bound(b, g) : j = i
      BY <1>1, <1>3 DEF Bound, Guests
    <3>3. w = Below(b[i].host, g, Length(b[i].guest))
      BY <1>1, <2>3, <3>1, <3>2, MapIs DEF ByBinding
    <3>4. w = OrSlash(c \o g)
      BY <1>1, <1>2, <2>3, <3>3 DEF Below
    <3>5. Path(OrSlash(c \o g)) = c \o t
      BY <1>2, <2>2, SlashedPath
    <3> QED
      BY <1>1, <3>4, <3>5
<1>4. CASE q # Slash
  <2>1. Unslashed(q) = q /\ Length(q) = Len(q)
    BY <1>4 DEF Length, Unslashed
  <2>2. q \o t \in Text /\ q \o t # Empty
    BY <1>2, Joined, EmptyJoins
  <2>3. g = q \o t
    BY <1>1, <2>1, <2>2 DEF OrSlash
  <2>4. g \in Full /\ g \in Text /\ has_prefix(g, q) /\ Drop(g, Len(q)) = t
    BY <1>2, <2>2, <2>3, JoinSplit DEF Full
  <2>5. i \in Bound(b, g)
    BY <1>1, <2>4 DEF Bound
  <2>6. ASSUME NEW j \in Bound(b, g) PROVE j = i
    <3> SUFFICES ASSUME j # i PROVE FALSE
      OBVIOUS
    <3>1. j \in DOMAIN b /\ b[j].guest # Slash /\ Apart(q, b[j].guest) /\ b[j].guest \in Text
      BY <1>1, <2>6, BindingIs DEF Bound, Guests
    <3>2. has_prefix(g, b[j].guest)
      BY <2>6, <3>1 DEF Bound
    <3> QED
      BY <1>2, <2>4, <3>1, <3>2, Comparable DEF Apart
  <2>7. w = Below(b[i].host, g, Length(b[i].guest))
    BY <1>1, <2>4, <2>5, <2>6, MapIs DEF ByBinding
  <2>8. w = OrSlash(c \o t)
    BY <1>1, <1>2, <2>1, <2>4, <2>7 DEF Below
  <2>9. Slashed(t, t)
    BY DEF Slashed
  <2>10. Path(OrSlash(c \o t)) = c \o t
    BY <1>2, <2>9, SlashedPath
  <2> QED
    BY <1>1, <2>8, <2>10
<1> QED
  BY <1>3, <1>4

(* Through a binding: the guest path itself comes back. *)
LEMMA BackThroughBinding ==
    ASSUME NEW b \in Seq(BindingType), NEW r \in Text, Hosts(b, r),
           NEW g \in Text, Canonical(g), Bound(b, g) # {}
    PROVE  emuroot_host_to_guest(b, r, Path(map_to_host(b, r, g))) = g
<1>1. PICK u, w : u = Unslashed(g) /\ w = map_to_host(b, r, g)
  OBVIOUS
<1>2. u \in Text /\ Bare(u) /\ Slashed(g, u) /\ OrSlash(u) = g /\ g \in Full
  BY <1>1, CanonicalIs DEF Full
<1>3. PICK i \in Bound(b, g) : w = Below(b[i].host, g, Length(b[i].guest))
  BY <1>1, <1>2, MapIs DEF ByBinding
<1>4. PICK c, q : c = b[i].host /\ q = b[i].guest
  OBVIOUS
<1>5. /\ i \in DOMAIN b /\ c \in Text /\ Clean(c) /\ Unslashed(c) = c /\ q \in Text /\ q # Empty
      /\ q = Slash \/ has_prefix(g, q)
  BY <1>3, <1>4, BindingIs, CleanIs DEF Full, Bound, Hosts
<1>6. \E t \in Text : Bare(t) /\ Slashed(Drop(g, Length(q)), t) /\ OrSlash(Unslashed(q) \o t) = g
  <2>1. CASE q = Slash
    <3>1. Length(q) = 0 /\ Unslashed(q) = Empty /\ Drop(g, 0) = g /\ Empty \o u = u
      BY <1>2, <2>1, EmptyFacts, EmptyJoins DEF Length, Unslashed
    <3> QED
      BY <1>2, <3>1
  <2>2. CASE q # Slash
    <3>1. Length(q) = Len(q) /\ Unslashed(q) = q /\ has_prefix(g, q)
      BY <1>5, <2>2 DEF Length, Unslashed
    <3>2. Clean(g)
      <4> SUFFICES ASSUME g = Slash PROVE FALSE
        BY DEF Canonical
      <4>1. PICK d \in Text : Slash = q \o d
        BY <1>5, <3>1, PrefixSplit
      <4>2. Len(Slash) = Len(q) + Len(d) /\ Len(q) \in Nat /\ Len(d) \in Nat
        BY <1>5, <4>1, Joined DEF Joins
      <4>3. Len(Slash) = 1 /\ Len(q) # 0
        BY <1>5, EmptyFacts
      <4>4. Len(d) = 0
        <5>1. PICK n, m : n = Len(q) /\ m = Len(d)
          OBVIOUS
        <5>2. n \in Nat /\ m \in Nat /\ n + m = 1 /\ n # 0
          BY <4>2, <4>3, <5>1
        <5>3. m = 0
          BY <5>2
        <5> QED
          BY <5>1, <5>3
      <4>5. d = Empty
        BY <4>4, EmptyFacts
      <4> QED
        BY <1>5, <2>2, <4>1, <4>5, EmptyJoins
    <3>3. PICK t : t = Drop(g, Len(q))
      OBVIOUS
    <3>4. t \in Text /\ g = q \o t
      BY <1>5, <3>1, <3>3, PrefixSplit
    <3>5. Bare(t)
      BY <1>5, <3>2, <3>4, CleanIs, BareJoin
    <3>6. OrSlash(q \o t) = g
      BY <3>2, <3>4, CleanIs
    <3> QED
      BY <3>1, <3>3, <3>4, <3>5, <3>6 DEF Slashed
  <2> QED
    BY <2>1, <2>2
<1>7. PICK t \in Text : /\ Bare(t) /\ Slashed(Drop(g, Length(q)), t)
                        /\ OrSlash(Unslashed(q) \o t) = g
  BY <1>6
<1>8. w = OrSlash(c \o Drop(g, Length(q)))
  BY <1>3, <1>4, <1>5 DEF Below
<1>9. Path(OrSlash(c \o Drop(g, Length(q)))) = c \o t
  BY <1>5, <1>7, SlashedPath
<1>10. emuroot_host_to_guest(b, r, b[i].host \o t) = OrSlash(Unslashed(b[i].guest) \o t)
  BY <1>5, HostedBy
<1> QED
  BY <1>1, <1>4, <1>7, <1>8, <1>9, <1>10

(* Through the root alone: so does it. *)
LEMMA BackThroughRoot ==
    ASSUME NEW b \in Seq(BindingType), NEW r \in Text, Hosts(b, r), Clean(r),
           NEW g \in Text, Canonical(g), Bound(b, g) = {}, Mounted(b, r \o g) = {}
    PROVE  emuroot_host_to_guest(b, r, Path(map_to_host(b, r, g))) = g
<1>1. PICK u : u = Unslashed(g)
  OBVIOUS
<1>2. u \in Text /\ Bare(u) /\ Slashed(g, u) /\ OrSlash(u) = g /\ g \in Full
  BY <1>1, CanonicalIs DEF Full
<1>3. map_to_host(b, r, g) = r \o g
  BY <1>2, MapIs
<1>4. r # Empty
  BY CleanIs
<1>5. OrSlash(r \o g) = r \o g
  BY <1>4, EmptyJoins DEF OrSlash
<1>6. Path(OrSlash(r \o g)) = r \o u
  BY <1>2, SlashedPath
<1>7. emuroot_host_to_guest(b, r, r \o u) = OrSlash(u)
  BY <1>2, <1>4, RootedAt
<1> QED
  BY <1>2, <1>3, <1>5, <1>6, <1>7

MapsBack(b, r, g) ==
    LET h == Path(map_to_host(b, r, g))
        back == emuroot_host_to_guest(b, r, h)
    IN  back # Empty => Path(map_to_host(b, r, back)) = h

(* A host path below a binding's host comes back by a name for it. *)
LEMMA HostedInverse ==
    ASSUME NEW b \in Seq(BindingType), NEW r \in Text, Hosts(b, r), Guests(b),
           NEW i \in DOMAIN b, NEW t \in Text, Bare(t), NEW g,
           Path(map_to_host(b, r, g)) = b[i].host \o t
    PROVE  MapsBack(b, r, g)
<1>1. PICK h : h = b[i].host \o t
  OBVIOUS
<1>2. Clean(b[i].host)
  BY DEF Hosts
<1>3. PICK back : back = OrSlash(Unslashed(b[i].guest) \o t)
  OBVIOUS
<1>4. emuroot_host_to_guest(b, r, h) = back
  BY <1>1, <1>3, HostedBy
<1>5. Path(map_to_host(b, r, back)) = h
  BY <1>1, <1>2, <1>3, NamedBy
<1> QED
  BY <1>1, <1>4, <1>5 DEF MapsBack

LEMMA MountInverse ==
    ASSUME NEW b \in Seq(BindingType), NEW r \in Text, Hosts(b, r), Guests(b), Bare(r),
           NEW g \in Text, Canonical(g), Bound(b, g) = {}, Mounted(b, r \o g) # {}
    PROVE  MapsBack(b, r, g)
<1>1. PICK u, w, out : u = Unslashed(g) /\ w = map_to_host(b, r, g) /\ out = r \o g
  OBVIOUS
<1>2. u \in Text /\ Bare(u) /\ Slashed(g, u) /\ g \in Full
  BY <1>1, CanonicalIs DEF Full
<1>3. PICK x : x = r \o u
  OBVIOUS
<1>4. x \in Text /\ Bare(x)
  BY <1>2, <1>3, Joined, BareJoin
<1>5. Slashed(out, x)
  <2>1. CASE g = u
    BY <1>1, <1>3, <2>1 DEF Slashed
  <2>2. CASE g = u \o Slash
    BY <1>1, <1>2, <1>3, <2>2, JoinSlash DEF Slashed
  <2> QED
    BY <1>2, <2>1, <2>2 DEF Slashed
<1>6. PICK i \in Mounted(b, out) : w = Below(b[i].host, out, Len(b[i].mount))
  BY <1>1, <1>2, MapIs DEF ByMount
<1>7. PICK c, m : c = b[i].host /\ m = b[i].mount
  OBVIOUS
<1>8. /\ i \in DOMAIN b /\ c \in Text /\ Clean(c) /\ Unslashed(c) = c /\ m \in Text
      /\ has_prefix(out, m)
  BY <1>6, <1>7, BindingIs, CleanIs DEF Mounted, Hosts
<1>9. PICK t \in Text : Bare(t) /\ Slashed(Drop(out, Len(m)), t)
  BY <1>4, <1>5, <1>8, SlashedRest
<1>10. Path(OrSlash(c \o Drop(out, Len(m)))) = c \o t
  BY <1>8, <1>9, SlashedPath
<1>11. w = OrSlash(c \o Drop(out, Len(m)))
  BY <1>6, <1>7, <1>8 DEF Below
<1>12. Path(map_to_host(b, r, g)) = b[i].host \o t
  BY <1>1, <1>7, <1>10, <1>11
<1> QED
  BY <1>8, <1>9, <1>12, HostedInverse

LEMMA BareInverse ==
    ASSUME NEW b \in Seq(BindingType), NEW r \in Text, Hosts(b, r), Guests(b), r = Empty,
           NEW g \in Text, Canonical(g), Bound(b, g) = {}, Mounted(b, r \o g) = {}
    PROVE  MapsBack(b, r, g)
<1>1. PICK u : u = Unslashed(g)
  OBVIOUS
<1>2. u \in Text /\ Bare(u) /\ Slashed(g, u) /\ OrSlash(u) = g /\ g \in Full
  BY <1>1, CanonicalIs DEF Full
<1>3. map_to_host(b, r, g) = g
  <2>1. map_to_host(b, r, g) = r \o g
    BY <1>2, MapIs
  <2>2. Empty \o g = g
    BY EmptyJoins
  <2> QED
    BY <2>1, <2>2
<1>4. Path(g) = g
  BY <1>2, PathOf DEF Slashed
<1>5. CASE Hosting(b, g) = {}
  <2>1. emuroot_host_to_guest(b, r, g) = Empty
    BY <1>2, <1>5, BackIs
  <2> QED
    BY <1>3, <1>4, <2>1 DEF MapsBack
<1>6. CASE Hosting(b, g) # {}
  <2>1. PICK i \in DOMAIN b : has_prefix(g, b[i].host)
    BY <1>6 DEF Hosting
  <2>2. PICK c : c = b[i].host
    OBVIOUS
  <2>3. c \in Text /\ Clean(c) /\ Bare(c) /\ c # Empty
    BY <2>1, <2>2, BindingIs, CleanIs DEF Hosts
  <2>4. PICK t \in Text : g = c \o t
    BY <2>1, <2>2, <2>3, PrefixSplit
  <2>5. g # Slash
    <3> SUFFICES ASSUME g = Slash PROVE FALSE
      OBVIOUS
    <3>1. Joins(g, c, t) /\ Len(c) \in Nat
      BY <2>3, <2>4, Joined
    <3>2. Len(c) # 0
      BY <2>3, EmptyFacts
    <3>3. 1 \in 1 .. Len(c)
      BY <3>1, <3>2
    <3>4. g[1] = c[1]
      BY <3>1, <3>3 DEF Joins
    <3> QED
      BY <2>3, <3>3, <3>4, EmptyFacts, Zenon DEF Bare
  <2>6. Bare(t)
    BY <2>3, <2>4, <2>5, CleanIs, BareJoin DEF Canonical
  <2>7. Path(map_to_host(b, r, g)) = b[i].host \o t
    BY <1>3, <1>4, <2>2, <2>4
  <2> QED
    BY <2>6, <2>7, HostedInverse
<1> QED
  BY <1>5, <1>6

(* In every namespace that mount and umount can build over the bindings a  *)
(* run starts with, for any directories, symlinks and paths to ask about:  *)
(* what emuroot_host_to_guest tells of the place a path leads to leads     *)
(* back to it (path.c).  Through a binding, or below the root past every   *)
(* mount point, it is the path itself.                                     *)
THEOREM MappingsInverse == Spec => []RoundTrip
<1>1. IInv => RoundTrip
  <2> SUFFICES ASSUME IInv, call = Idle, HostsApart, NEW p \in Procs, NEW g \in Probes,
                      root[p] = StartRoot, Direct(p, g) \/ GuestsApart
               PROVE  InverseAt(p, g)
    BY DEF RoundTrip
  <2>1. PICK b, r : b = binds /\ r = root[p]
    OBVIOUS
  <2>2. b \in Seq(BindingType)
    BY <2>1 DEF IInv, BindsOK
  <2>3. r \in Text /\ (r = Empty \/ Clean(r)) /\ Bare(r)
    <3>1. r \in Dirs \cup {Empty} /\ r # Slash
      <4>1. StartRoot # Slash
        BY EmptyFacts DEF StartRoot, Unslashed
      <4> QED
        BY <2>1, <4>1, StartTyped
    <3> QED
      BY <3>1, DirsTyped, HostAssumption, EmptyFacts, CleanIs DEF Real, Canonical, Full
  <2>4. Hosts(b, r)
    BY <2>1 DEF HostsApart, Hosts
  <2>5. g \in Text /\ Canonical(g)
    BY ProbesAssumption DEF Text
  <2>6. MapsBack(b, r, g)
    <3>1. CASE Bound(b, g) # {}
      <4>1. PICK h : h = Path(map_to_host(b, r, g))
        OBVIOUS
      <4>2. emuroot_host_to_guest(b, r, h) = g
        BY <2>2, <2>3, <2>4, <2>5, <3>1, <4>1, BackThroughBinding
      <4> QED
        BY <4>1, <4>2 DEF MapsBack
    <3>2. CASE Bound(b, g) = {} /\ r # Empty /\ Mounted(b, r \o g) = {}
      <4>1. PICK h : h = Path(map_to_host(b, r, g))
        OBVIOUS
      <4>2. emuroot_host_to_guest(b, r, h) = g
        BY <2>2, <2>3, <2>4, <2>5, <3>2, <4>1, BackThroughRoot
      <4> QED
        BY <4>1, <4>2 DEF MapsBack
    <3>3. CASE Bound(b, g) = {} /\ Mounted(b, r \o g) # {}
      <4>1. Guests(b)
        BY <2>1, <3>3 DEF Direct, GuestsApart, Guests
      <4> QED
        BY <2>2, <2>3, <2>4, <2>5, <3>3, <4>1, MountInverse
    <3>4. CASE Bound(b, g) = {} /\ r = Empty /\ Mounted(b, r \o g) = {}
      <4>1. Guests(b)
        BY <2>1, <3>4 DEF Direct, GuestsApart, Guests
      <4> QED
        BY <2>2, <2>3, <2>4, <2>5, <3>4, <4>1, BareInverse
    <3> QED
      BY <3>1, <3>2, <3>3, <3>4
  <2> QED
    BY <2>1, <2>6 DEF InverseAt, MapsBack
<1> QED
  BY <1>1, AlwaysIInv, PTL

-----------------------------------------------------------------------------
(* Pathname resolution is a recursion that ends: each turn leaves less to  *)
(* walk, or fewer symlinks to follow.                                      *)
Points == [left : Nat, at : Text, todo : Text]
Fewer(y, x) == y.left < x.left \/ (y.left = x.left /\ Len(y.todo) < Len(x.todo))
Turning(T) ==
    /\ T \in [Points -> Points]
    /\ \A x \in Points : x.todo # Empty => Fewer(T[x], x)
Steps(T, x, w, k) ==
    /\ k \in Nat /\ w \in [0 .. k -> Points] /\ w[0] = x /\ w[k].todo = Empty
    /\ \A i \in 0 .. k - 1 : w[i].todo # Empty /\ w[i + 1] = T[w[i]]
Stepped(T, x) == \E k, w : Steps(T, x, w, k)

LEMMA StepsStart ==
    ASSUME NEW T, NEW x \in Points, x.todo = Empty
    PROVE  Steps(T, x, [i \in 0 .. 0 |-> x], 0)
BY DEF Steps

LEMMA StepsMore ==
    ASSUME NEW T, Turning(T), NEW x \in Points, x.todo # Empty, NEW w, NEW k, Steps(T, T[x], w, k)
    PROVE  \E v : Steps(T, x, v, k + 1) /\ v[k + 1] = w[k]
<1> DEFINE v == [i \in 0 .. k + 1 |-> IF i = 0 THEN x ELSE w[i - 1]]
<1>1. /\ k \in Nat /\ w \in [0 .. k -> Points] /\ w[0] = T[x] /\ w[k].todo = Empty
      /\ \A i \in 0 .. k - 1 : w[i].todo # Empty /\ w[i + 1] = T[w[i]]
  BY DEF Steps
<1>2. v \in [0 .. k + 1 -> Points] /\ v[0] = x
  BY <1>1
<1>3. v[k + 1] = w[k]
  <2>1. k + 1 \in 0 .. k + 1 /\ k + 1 # 0 /\ (k + 1) - 1 = k
    BY <1>1
  <2> QED
    BY <2>1
<1>4. ASSUME NEW i \in 0 .. (k + 1) - 1 PROVE v[i].todo # Empty /\ v[i + 1] = T[v[i]]
  <2>1. i + 1 \in 0 .. k + 1 /\ i + 1 # 0 /\ (i + 1) - 1 = i /\ i \in 0 .. k + 1
    BY <1>1
  <2>2. v[i + 1] = w[i]
    BY <2>1
  <2>3. CASE i = 0
    BY <1>1, <1>2, <2>2, <2>3
  <2>4. CASE i # 0
    <3>1. PICK j \in 0 .. k - 1 : i = j + 1 /\ j = i - 1
      BY <1>1, <2>4
    <3>2. v[i] = w[j]
      BY <2>1, <2>4, <3>1
    <3>3. w[j].todo # Empty /\ w[j + 1] = T[w[j]]
      BY <1>1, <3>1
    <3> HIDE DEF v
    <3> QED
      BY <2>2, <3>1, <3>2, <3>3
  <2> QED
    BY <2>3, <2>4
<1> HIDE DEF v
<1>5. k + 1 \in Nat
  BY <1>1
<1>6. Steps(T, x, v, k + 1)
  BY <1>1, <1>2, <1>3, <1>4, <1>5 DEF Steps
<1> QED
  BY <1>3, <1>6

LEMMA StepsThere ==
    ASSUME NEW T, Turning(T), NEW x \in Points
    PROVE  Stepped(T, x)
<1> DEFINE bad == {y \in Points : ~Stepped(T, y)}
<1> SUFFICES ASSUME bad # {} PROVE FALSE
  OBVIOUS
<1> DEFINE N == {y.left : y \in bad}
<1>1. PICK n \in N : \A i \in N : n <= i
  <2>1. N \in SUBSET Nat /\ N # {}
    BY DEF Points
  <2> HIDE DEF N
  <2> QED
    BY <2>1, Least
<1> DEFINE M == {Len(y.todo) : y \in {z \in bad : z.left = n}}
<1>2. PICK m \in M : \A i \in M : m <= i
  <2>1. \A y \in Points : y.todo \in Text
    BY DEF Points
  <2>2. \A y \in Points : Len(y.todo) \in Nat
    BY <2>1, PathOps
  <2>3. M \in SUBSET Nat /\ M # {}
    BY <1>1, <2>2
  <2> HIDE DEF M
  <2> QED
    BY <2>3, Least
<1>3. PICK y \in bad : y.left = n /\ Len(y.todo) = m
  BY <1>2
<1>4. y.todo # Empty
  BY <1>3, StepsStart DEF Stepped
<1>5. T[y] \in Points /\ Fewer(T[y], y)
  <2>1. y \in Points
    BY <1>3
  <2> HIDE DEF bad, M, N
  <2> QED
    BY <1>4, <2>1 DEF Turning
<1>6. PICK z, l, q : z = T[y] /\ l = z.left /\ q = Len(z.todo)
  OBVIOUS
<1>7. z \in Points /\ l \in Nat /\ q \in Nat /\ n \in Nat /\ m \in Nat
  <2>1. z \in Points /\ z.todo \in Text /\ l \in Nat /\ y.todo \in Text /\ n \in Nat
    BY <1>3, <1>5, <1>6 DEF Points
  <2> QED
    BY <1>3, <1>6, <2>1, PathOps
<1>8. z \notin bad
  <2> SUFFICES ASSUME z \in bad PROVE FALSE
    OBVIOUS
  <2>1. l \in N
    BY <1>6
  <2>2. n <= l
    BY <1>1, <2>1
  <2>3. l = n /\ q < m
    <3>1. l < n \/ (l = n /\ q < m)
      BY <1>3, <1>5, <1>6 DEF Fewer
    <3> QED
      BY <1>7, <2>2, <3>1
  <2>4. q \in M
    BY <1>6, <2>3
  <2> QED
    BY <1>2, <1>7, <2>3, <2>4
<1>9. Stepped(T, z)
  BY <1>7, <1>8
<1>10. PICK k, w : Steps(T, T[y], w, k)
  BY <1>6, <1>9 DEF Stepped
<1>11. PICK v : Steps(T, y, v, k + 1)
  BY <1>3, <1>4, <1>10, StepsMore
<1> QED
  BY <1>3, <1>11 DEF Stepped

LEMMA StepsAgree ==
    ASSUME NEW T, NEW x, NEW w, NEW k, Steps(T, x, w, k), NEW v, NEW j, Steps(T, x, v, j)
    PROVE  j <= k /\ v[j] = w[j]
<1>1. /\ k \in Nat /\ w[0] = x /\ w[k].todo = Empty
      /\ \A i \in 0 .. k - 1 : w[i].todo # Empty /\ w[i + 1] = T[w[i]]
  BY DEF Steps
<1>2. /\ j \in Nat /\ v[0] = x /\ v[j].todo = Empty
      /\ \A i \in 0 .. j - 1 : v[i].todo # Empty /\ v[i + 1] = T[v[i]]
  BY DEF Steps
<1>3. \A i \in Nat : i <= k /\ i <= j => v[i] = w[i]
  <2> DEFINE bad == {i \in Nat : i <= k /\ i <= j /\ v[i] # w[i]}
  <2> SUFFICES ASSUME bad # {} PROVE FALSE
    OBVIOUS
  <2>1. PICK i \in bad : \A y \in bad : i <= y
    <3>1. bad \in SUBSET Nat
      OBVIOUS
    <3> HIDE DEF bad
    <3> QED
      BY <3>1, Least
  <2>2. i \in Nat /\ i <= k /\ i <= j /\ v[i] # w[i]
    BY <2>1
  <2>3. i # 0
    BY <1>1, <1>2, <2>2
  <2>4. PICK l \in Nat : i = l + 1 /\ l \in 0 .. k - 1 /\ l \in 0 .. j - 1
    <3>1. i - 1 \in Nat /\ i = (i - 1) + 1 /\ i - 1 \in 0 .. k - 1 /\ i - 1 \in 0 .. j - 1
      BY <1>1, <1>2, <2>2, <2>3
    <3> QED
      BY <3>1
  <2>5. v[l] = w[l]
    <3>1. l <= k /\ l <= j /\ ~(i <= l)
      BY <1>1, <1>2, <2>4
    <3> QED
      BY <2>1, <2>4, <3>1
  <2>6. v[l + 1] = T[v[l]] /\ w[l + 1] = T[w[l]]
    BY <1>1, <1>2, <2>4
  <2> QED
    BY <2>2, <2>4, <2>5, <2>6
<1>4. j <= k
  <2> SUFFICES ASSUME j > k PROVE FALSE
    BY <1>1, <1>2
  <2>1. k <= k /\ k <= j /\ k \in 0 .. j - 1
    BY <1>1, <1>2
  <2>2. v[k] = w[k]
    BY <1>1, <1>3, <2>1
  <2> QED
    BY <1>1, <1>2, <2>1, <2>2
<1>5. j <= j
  BY <1>2
<1> QED
  BY <1>2, <1>3, <1>4, <1>5

LEMMA StepsOne ==
    ASSUME NEW T, NEW x, NEW w, NEW k, Steps(T, x, w, k), NEW v, NEW j, Steps(T, x, v, j)
    PROVE  v[j] = w[k]
<1>1. j <= k /\ v[j] = w[j] /\ k <= j
  BY StepsAgree
<1>2. j \in Nat /\ k \in Nat
  BY DEF Steps
<1>3. j = k
  BY <1>1, <1>2
<1> QED
  BY <1>1, <1>3

Ended(f, T) ==
    f \in [Points -> Text] /\ \A x \in Points : f[x] = IF x.todo = Empty THEN x.at ELSE f[T[x]]

LEMMA Recursion ==
    ASSUME NEW T, Turning(T)
    PROVE  \E f : Ended(f, T)
<1> DEFINE Of(x, y) == \E k, w : Steps(T, x, w, k) /\ y = w[k].at
           f == [x \in Points |-> CHOOSE y : Of(x, y)]
<1>1. ASSUME NEW x \in Points PROVE \E y : Of(x, y)
  BY StepsThere DEF Stepped
<1>2. ASSUME NEW x \in Points PROVE Of(x, f[x])
  <2>1. f[x] = CHOOSE y : Of(x, y)
    OBVIOUS
  <2> HIDE DEF Of, f
  <2> QED
    BY <1>1, <2>1
<1>3. ASSUME NEW x \in Points, NEW y, NEW z, Of(x, y), Of(x, z) PROVE y = z
  BY <1>3, StepsOne
<1>4. ASSUME NEW x \in Points, NEW y, Of(x, y) PROVE y = f[x] /\ y \in Text
  <2>1. y = f[x]
    <3> HIDE DEF f, Of
    <3> QED
      BY <1>2, <1>3, <1>4
  <2>2. PICK k, w : Steps(T, x, w, k) /\ y = w[k].at
    BY <1>4
  <2>3. k \in 0 .. k /\ w \in [0 .. k -> Points]
    BY <2>2 DEF Steps
  <2>4. w[k] \in Points
    BY <2>3
  <2> QED
    BY <2>1, <2>2, <2>4 DEF Points
<1>5. f \in [Points -> Text]
  <2>1. \A x \in Points : f[x] \in Text
    <3> HIDE DEF f, Of
    <3> QED
      BY <1>2, <1>4
  <2> QED
    BY <2>1
<1>6. ASSUME NEW x \in Points, x.todo = Empty PROVE f[x] = x.at
  <2>1. PICK w : w = [i \in 0 .. 0 |-> x]
    OBVIOUS
  <2>2. Steps(T, x, w, 0) /\ w[0].at = x.at
    <3>1. Steps(T, x, w, 0)
      BY <1>6, <2>1, StepsStart
    <3> QED
      BY <3>1 DEF Steps
  <2>3. Of(x, x.at)
    BY <2>2
  <2> HIDE DEF f, Of
  <2> QED
    BY <1>4, <2>3
<1>7. ASSUME NEW x \in Points, x.todo # Empty PROVE f[x] = f[T[x]]
  <2>1. T[x] \in Points
    BY DEF Turning
  <2>2. Of(T[x], f[T[x]])
    BY <1>2, <2>1
  <2>3. PICK k, w : Steps(T, T[x], w, k) /\ f[T[x]] = w[k].at
    BY <2>2
  <2>4. PICK v : Steps(T, x, v, k + 1) /\ v[k + 1] = w[k]
    BY <1>7, <2>3, StepsMore
  <2>5. Of(x, f[T[x]])
    <3> HIDE DEF f
    <3> QED
      BY <2>3, <2>4
  <2> HIDE DEF f, Of
  <2> QED
    BY <1>4, <2>5
<1> HIDE DEF f
<1> QED
  BY <1>5, <1>6, <1>7 DEF Ended

LEMMA OneName ==
    ASSUME NEW S, NEW c \in S
    PROVE  << c >> \in Seq(S)
OBVIOUS

Who == {"guest", "tracer"}
LEMMA LinkTyped ==
    ASSUME NEW who \in Who, NEW h, IsLink(h)
    PROVE  readlink(who, h).abs \in BOOLEAN /\ readlink(who, h).to \in Text
<1>1. CASE h = Self
  <2>1. readlink(who, h) = [abs |-> FALSE, to |-> << who >>]
    BY <1>1 DEF readlink
  <2>2. who \in STRING
    BY StringAssumption DEF Who
  <2>3. << who >> \in Text
    BY <2>2, OneName DEF Text
  <2> QED
    BY <2>1, <2>3
<1>2. CASE h # Self
  BY <1>2, HostAssumption DEF readlink, IsLink, Text
<1> QED
  BY <1>1, <1>2

LEMMA HeadTail ==
    ASSUME NEW s \in Text, s # Empty
    PROVE  /\ Head(s) \in STRING /\ Tail(s) \in Text /\ Len(Tail(s)) = Len(s) - 1
           /\ Len(s) \in Nat /\ Len(s) > 0 /\ Head(s) = s[1]
           /\ \A i \in 1 .. Len(s) - 1 : Tail(s)[i] = s[i + 1]
<1>1. Len(s) \in Nat /\ Len(s) # 0
  BY PathOps, EmptyFacts
<1>2. s # << >>
  BY DEF Empty
<1>3. s \in Seq(STRING)
  BY DEF Text
<1> QED
  BY <1>1, <1>2, <1>3, HeadTailProperties DEF Text

LEMMA TurnToLess ==
    ASSUME NEW who \in Who, NEW file, NEW x \in Points, x.todo # Empty
    PROVE  /\ TurnTo(who, x, file) \in Points
           /\ Fewer(TurnTo(who, x, file), x)
<1>1. x.left \in Nat /\ x.at \in Text /\ x.todo \in Text
  BY DEF Points
<1>2. PICK name, tail, m : name = Head(x.todo) /\ tail = Tail(x.todo) /\ m = Len(x.todo)
  OBVIOUS
<1>3. name \in STRING /\ tail \in Text /\ m \in Nat /\ Len(tail) < m /\ 0 < m
  BY <1>1, <1>2, HeadTail
<1>4. PICK there, up : there = push_component(x.at, name) /\ up = pop_component(x.at)
  OBVIOUS
<1>5. there \in Text /\ up \in Text
  BY <1>1, <1>3, <1>4, PathOps DEF Full
<1>7. PICK link : link = readlink(who, file)
  OBVIOUS
<1>8. PICK y : y = TurnTo(who, x, file)
  OBVIOUS
<1>9. y = IF name \in {"", "."} THEN [left |-> x.left, at |-> x.at, todo |-> tail]
          ELSE IF name = ".." THEN [left |-> x.left, at |-> up, todo |-> tail]
          ELSE IF ~IsLink(file) THEN [left |-> x.left, at |-> there, todo |-> tail]
          ELSE IF x.left = 0 THEN [left |-> 0, at |-> Empty, todo |-> Empty]
          ELSE [left |-> x.left - 1, at |-> IF link.abs THEN Slash ELSE x.at,
                todo |-> link.to \o tail]
  BY <1>2, <1>4, <1>7, <1>8 DEF TurnTo, There
<1>10. ASSUME NEW a \in Text, NEW s \in Text, Len(s) < m, y = [left |-> x.left, at |-> a, todo |-> s]
       PROVE  y \in Points /\ Fewer(y, x)
  <2>1. y \in Points /\ y.left = x.left /\ Len(y.todo) < m
    BY <1>10 DEF Points
  <2> QED
    BY <1>2, <2>1 DEF Fewer
<1>11. CASE y = [left |-> x.left, at |-> x.at, todo |-> tail] \/ y = [left |-> x.left, at |-> up, todo |-> tail]
            \/ y = [left |-> x.left, at |-> there, todo |-> tail]
  BY <1>1, <1>2, <1>3, <1>5, <1>8, <1>10, <1>11
<1>12. CASE x.left = 0 /\ y = [left |-> 0, at |-> Empty, todo |-> Empty]
  BY <1>2, <1>3, <1>8, <1>10, <1>12, EmptyFacts
<1>13. CASE /\ IsLink(file) /\ x.left # 0
            /\ y = [left |-> x.left - 1, at |-> IF link.abs THEN Slash ELSE x.at,
                    todo |-> link.to \o tail]
  <2>1. link.to \in Text
    BY <1>7, <1>13, LinkTyped
  <2>2. link.to \o tail \in Text /\ Slash \in Text
    BY <1>3, <2>1, Joined, EmptyFacts
  <2>3. x.left - 1 \in Nat /\ x.left - 1 < x.left
    BY <1>1, <1>13
  <2>4. y \in Points /\ y.left = x.left - 1
    BY <1>1, <1>13, <2>2, <2>3 DEF Points
  <2> QED
    BY <1>8, <2>3, <2>4 DEF Fewer
<1> QED
  BY <1>9, <1>11, <1>12, <1>13

LEMMA TurnLess ==
    ASSUME NEW who \in Who, NEW b, NEW r, NEW x \in Points, x.todo # Empty
    PROVE  /\ Turn(who, b, r, x) \in Points
           /\ Fewer(Turn(who, b, r, x), x)
BY TurnToLess DEF Turn

(* A resolution is its first turn, then the resolution from there. *)
LEMMA ResolveIs ==
    ASSUME NEW who \in Who, NEW b, NEW r, NEW from \in Points
    PROVE  /\ from.todo = Empty => Resolve(who, b, r, from) = from.at
           /\ from.todo # Empty =>
                 Resolve(who, b, r, from) = Resolve(who, b, r, Turn(who, b, r, from))
<1> DEFINE T == [x \in Points |-> IF x.todo = Empty THEN x ELSE Turn(who, b, r, x)]
           Is(f) == f = [x \in Points |-> IF x.todo = Empty THEN x.at ELSE f[Turn(who, b, r, x)]]
           R == CHOOSE f : Is(f)
<1>1. Turning(T)
  <2>1. \A x \in Points : x.todo # Empty => T[x] = Turn(who, b, r, x)
    OBVIOUS
  <2>2. T \in [Points -> Points]
    BY TurnLess
  <2> HIDE DEF T
  <2> QED
    BY <2>1, <2>2, TurnLess DEF Turning
<1>2. PICK g : Ended(g, T)
  <2> HIDE DEF T
  <2> QED
    BY <1>1, Recursion
<1>3. Is(g)
  <2>1. \A x \in Points : x.todo # Empty => T[x] = Turn(who, b, r, x)
    OBVIOUS
  <2> HIDE DEF T
  <2>2. \A x \in Points : g[x] = IF x.todo = Empty THEN x.at ELSE g[Turn(who, b, r, x)]
    BY <1>2, <2>1 DEF Ended
  <2> QED
    BY <1>2, <2>2 DEF Ended
<1> HIDE DEF Is, T
<1>4. Is(R)
  BY <1>3
<1>5. \A x : Resolve(who, b, r, x) = R[x]
  BY DEF Resolve, Is, R, Points, Text
<1> HIDE DEF R
<1>6. \A x \in Points : R[x] = IF x.todo = Empty THEN x.at ELSE R[Turn(who, b, r, x)]
  BY <1>4 DEF Is
<1> QED
  BY <1>5, <1>6

(* The turns, one by one. *)
Res(who, b, r, l, a, s) == Resolve(who, b, r, [left |-> l, at |-> a, todo |-> s])

LEMMA ResEnd ==
    ASSUME NEW who \in Who, NEW b, NEW r, NEW l \in Nat, NEW a \in Text
    PROVE  Res(who, b, r, l, a, Empty) = a
<1>1. PICK x : x = [left |-> l, at |-> a, todo |-> Empty]
  OBVIOUS
<1>2. x \in Points /\ x.todo = Empty /\ x.at = a
  BY <1>1, EmptyFacts DEF Points
<1> QED
  BY <1>1, <1>2, ResolveIs DEF Res

Still(n) == n \in {"", "."}
Up(n) == n = ".."
Proper(n) == n \notin {"", ".", ".."}
Turned(who, b, r, l, a, s) ==
    LET n == Head(s)
        t == Tail(s)
        f == Path(map_to_host(b, r, push_component(a, n)))
        link == readlink(who, f)
    IN  /\ Still(n) => Res(who, b, r, l, a, s) = Res(who, b, r, l, a, t)
        /\ Up(n) => Res(who, b, r, l, a, s) = Res(who, b, r, l, pop_component(a), t)
        /\ Proper(n) /\ ~IsLink(f) =>
              Res(who, b, r, l, a, s) = Res(who, b, r, l, push_component(a, n), t)
        /\ Proper(n) /\ IsLink(f) /\ l # 0 =>
              Res(who, b, r, l, a, s)
                = Res(who, b, r, l - 1, IF link.abs THEN Slash ELSE a, link.to \o t)

LEMMA ResTurn ==
    ASSUME NEW who \in Who, NEW b, NEW r, NEW l \in Nat, NEW a \in Text, NEW s \in Text, s # Empty
    PROVE  Turned(who, b, r, l, a, s)
<1>1. PICK x, n, t : x = [left |-> l, at |-> a, todo |-> s] /\ n = Head(s) /\ t = Tail(s)
  OBVIOUS
<1>2. x \in Points /\ x.todo = s /\ x.at = a /\ x.left = l
  BY <1>1 DEF Points
<1>3. PICK y, f : y = Turn(who, b, r, x) /\ f = Path(map_to_host(b, r, push_component(a, n)))
  OBVIOUS
<1>4. Res(who, b, r, l, a, s) = Resolve(who, b, r, y)
  BY <1>1, <1>2, <1>3, ResolveIs DEF Res
<1>5. PICK up, there, link : /\ up = pop_component(a) /\ there = push_component(a, n)
                             /\ link = readlink(who, f)
  OBVIOUS
<1>6. y = IF n \in {"", "."} THEN [left |-> l, at |-> a, todo |-> t]
          ELSE IF n = ".." THEN [left |-> l, at |-> up, todo |-> t]
          ELSE IF ~IsLink(f) THEN [left |-> l, at |-> there, todo |-> t]
          ELSE IF l = 0 THEN [left |-> 0, at |-> Empty, todo |-> Empty]
          ELSE [left |-> l - 1, at |-> IF link.abs THEN Slash ELSE a, todo |-> link.to \o t]
  BY <1>1, <1>2, <1>3, <1>5 DEF Turn, TurnTo, There
<1>7. /\ Still(n) => y = [left |-> l, at |-> a, todo |-> t]
      /\ Up(n) => y = [left |-> l, at |-> up, todo |-> t]
      /\ Proper(n) /\ ~IsLink(f) => y = [left |-> l, at |-> there, todo |-> t]
      /\ Proper(n) /\ IsLink(f) /\ l # 0 =>
            y = [left |-> l - 1, at |-> IF link.abs THEN Slash ELSE a, todo |-> link.to \o t]
  BY <1>6 DEF Still, Up, Proper
<1> QED
  BY <1>1, <1>3, <1>4, <1>5, <1>7 DEF Res, Turned

LEMMA ResDot ==
    ASSUME NEW who \in Who, NEW b, NEW r, NEW l \in Nat, NEW a \in Text,
           NEW s \in Text, s # Empty, Still(Head(s))
    PROVE  Res(who, b, r, l, a, s) = Res(who, b, r, l, a, Tail(s))
BY ResTurn DEF Turned

LEMMA ResDotDot ==
    ASSUME NEW who \in Who, NEW b, NEW r, NEW l \in Nat, NEW a \in Text,
           NEW s \in Text, s # Empty, Up(Head(s))
    PROVE  Res(who, b, r, l, a, s) = Res(who, b, r, l, pop_component(a), Tail(s))
BY ResTurn DEF Turned

LEMMA ResName ==
    ASSUME NEW who \in Who, NEW b, NEW r, NEW l \in Nat, NEW a \in Text,
           NEW s \in Text, s # Empty, Proper(Head(s)),
           ~IsLink(Path(map_to_host(b, r, push_component(a, Head(s)))))
    PROVE  Res(who, b, r, l, a, s) = Res(who, b, r, l, push_component(a, Head(s)), Tail(s))
<1>1. PICK f : f = Path(map_to_host(b, r, push_component(a, Head(s))))
  OBVIOUS
<1>2. ~IsLink(f)
  BY <1>1
<1>3. Turned(who, b, r, l, a, s)
  BY ResTurn
<1> QED
  BY <1>1, <1>2, <1>3 DEF Turned

LEMMA ResLink ==
    ASSUME NEW who \in Who, NEW b, NEW r, NEW l \in Nat, l # 0, NEW a \in Text,
           NEW s \in Text, s # Empty, Proper(Head(s)),
           NEW f, f = Path(map_to_host(b, r, push_component(a, Head(s)))), IsLink(f)
    PROVE  Res(who, b, r, l, a, s)
             = Res(who, b, r, l - 1, IF readlink(who, f).abs THEN Slash ELSE a,
                   readlink(who, f).to \o Tail(s))
BY ResTurn DEF Turned

LEMMA DropNext ==
    ASSUME NEW s \in Text, NEW k \in Nat, k < Len(s)
    PROVE  /\ Drop(s, k) \in Text /\ Drop(s, k) # Empty
           /\ Head(Drop(s, k)) = s[k + 1] /\ Tail(Drop(s, k)) = Drop(s, k + 1)
<1>1. PICK L, d, c, t : L = Len(s) /\ d = Drop(s, k) /\ c = Drop(s, k + 1) /\ t = Tail(d)
  OBVIOUS
<1>2. L \in Nat /\ k + 1 \in Nat /\ k + 1 <= L /\ k <= L
  BY <1>1, PathOps
<1>3. d \in Text /\ Len(d) = L - k /\ \A i \in 1 .. L - k : d[i] = s[k + i]
  BY <1>1, <1>2, DropIs
<1>4. c \in Text /\ Len(c) = L - (k + 1) /\ \A i \in 1 .. L - (k + 1) : c[i] = s[(k + 1) + i]
  BY <1>1, <1>2, DropIs
<1>5. d # Empty
  <2>1. Len(d) # 0
    BY <1>1, <1>2, <1>3
  <2> QED
    BY <1>3, <2>1, EmptyFacts
<1>6. /\ t \in Text /\ Len(t) = Len(d) - 1 /\ Head(d) = d[1]
      /\ \A i \in 1 .. Len(d) - 1 : t[i] = d[i + 1]
  BY <1>1, <1>3, <1>5, HeadTail
<1>7. d[1] = s[k + 1]
  BY <1>2, <1>3
<1>8. Len(t) = Len(c)
  BY <1>2, <1>3, <1>4, <1>6
<1>9. ASSUME NEW i \in 1 .. Len(t) PROVE t[i] = c[i]
  <2>1. Len(t) = L - (k + 1) /\ i \in 1 .. L - (k + 1) /\ i \in Int
    BY <1>2, <1>3, <1>6
  <2>2. i \in 1 .. Len(d) - 1 /\ i + 1 \in 1 .. L - k /\ k + (i + 1) = (k + 1) + i
    BY <1>2, <1>3, <2>1
  <2>3. t[i] = d[i + 1] /\ d[i + 1] = s[k + (i + 1)] /\ c[i] = s[(k + 1) + i]
    BY <1>3, <1>4, <1>6, <2>1, <2>2
  <2> QED
    BY <2>2, <2>3
<1>10. t = c
  BY <1>4, <1>6, <1>8, <1>9, SeqEqual DEF Text
<1> QED
  BY <1>1, <1>3, <1>5, <1>6, <1>7, <1>10

LEMMA ResSkips ==
    ASSUME NEW who \in Who, NEW b, NEW r, NEW l \in Nat, NEW a \in Text,
           NEW s \in Text, NEW k \in 0 .. Len(s), Leading(s, k)
    PROVE  Res(who, b, r, l, a, s) = Res(who, b, r, l, a, Drop(s, k))
<1>1. PICK L : L = Len(s)
  OBVIOUS
<1>2. L \in Nat /\ k \in Nat /\ k <= L
  BY <1>1, PathOps
<1> DEFINE Same(i) == Res(who, b, r, l, a, s) = Res(who, b, r, l, a, Drop(s, i))
           bad == {i \in 0 .. k : ~Same(i)}
<1> HIDE DEF Same
<1> SUFFICES ASSUME bad # {} PROVE FALSE
  BY <1>2 DEF Same
<1>3. PICK i \in bad : \A j \in bad : i <= j
  <2>1. bad \in SUBSET Nat
    BY <1>2
  <2> HIDE DEF bad
  <2> QED
    BY <2>1, Least
<1>4. i \in 0 .. k /\ ~Same(i)
  BY <1>3
<1>5. i # 0
  <2>1. Same(0)
    BY EmptyJoins DEF Same
  <2> QED
    BY <1>4, <2>1
<1>6. PICK j \in Nat : i = j + 1 /\ j < L /\ j \in 0 .. k /\ ~(i <= j) /\ j + 1 \in 1 .. k
  <2>1. i - 1 \in Nat /\ i = (i - 1) + 1 /\ i - 1 < L /\ i - 1 \in 0 .. k /\ ~(i <= i - 1)
        /\ (i - 1) + 1 \in 1 .. k
    BY <1>2, <1>4, <1>5
  <2> QED
    BY <2>1
<1>7. Same(j)
  BY <1>3, <1>6
<1>8. PICK d : d = Drop(s, j)
  OBVIOUS
<1>9. d \in Text /\ d # Empty /\ Head(d) = s[j + 1] /\ Tail(d) = Drop(s, j + 1)
  BY <1>1, <1>6, <1>8, DropNext
<1>10. s[j + 1] = ""
  BY <1>6, Zenon DEF Leading
<1>11. Still(Head(d))
  BY <1>9, <1>10, Zenon DEF Still
<1>12. Res(who, b, r, l, a, d) = Res(who, b, r, l, a, Tail(d))
  BY <1>9, <1>11, ResDot
<1>13. Same(j + 1)
  BY <1>7, <1>8, <1>9, <1>12 DEF Same
<1> QED
  BY <1>4, <1>6, <1>13

LEMMA ResSkip ==
    ASSUME NEW who \in Who, NEW b, NEW r, NEW l \in Nat, NEW a \in Text, NEW s \in Text
    PROVE  Res(who, b, r, l, a, s) = Res(who, b, r, l, a, SkipSlashes(s))
<1>1. PICK k : Skips(s, k)
  BY SkipIs
<1>2. k \in 0 .. Len(s) /\ SkipSlashes(s) = Drop(s, k) /\ Leading(s, k)
  BY <1>1, Zenon DEF Skips
<1> QED
  BY <1>2, ResSkips

-----------------------------------------------------------------------------
(* A path the kernel walks to its end: no dots, no symlinks on the way. *)
Straight(x) == \A n \in 1 .. Len(x) : Proper(x[n]) /\ ~IsLink(SubSeq(x, 1, n))

LEMMA ProperBare ==
    ASSUME NEW x \in Text, \A n \in 1 .. Len(x) : Proper(x[n])
    PROVE  Bare(x)
<1>1. \A n : Proper(n) => n # ""
  BY Zenon DEF Proper
<1> QED
  BY <1>1, Zenon DEF Bare

LEMMA InitialJoin ==
    ASSUME NEW a \in Text, NEW d \in Text
    PROVE  /\ \A n \in 1 .. Len(a) : SubSeq(a \o d, 1, n) = SubSeq(a, 1, n)
           /\ \A j \in 0 .. Len(d) : SubSeq(a \o d, 1, Len(a) + j) = a \o SubSeq(d, 1, j)
<1>1. PICK A, D, x : A = Len(a) /\ D = Len(d) /\ x = a \o d
  OBVIOUS
<1>2. A \in Nat /\ D \in Nat /\ x \in Text /\ Joins(x, a, d)
  BY <1>1, Joined
<1>3. Len(x) = A + D /\ (\A i \in 1 .. A : x[i] = a[i]) /\ \A i \in 1 .. D : x[A + i] = d[i]
  BY <1>1, <1>2 DEF Joins
<1>4. ASSUME NEW s \in Text, NEW n \in 0 .. Len(s)
      PROVE  SubSeq(s, 1, n) \in Text /\ Len(SubSeq(s, 1, n)) = n
             /\ \A i \in 1 .. n : SubSeq(s, 1, n)[i] = s[i]
  <2>1. Len(s) \in Nat /\ \A i \in 1 .. Len(s) : s[i] \in STRING
    BY LenProperties, ElementOfSeq DEF Text
  <2> QED
    BY <1>4, <2>1 DEF Text
<1>5. ASSUME NEW n \in 1 .. A PROVE SubSeq(x, 1, n) = SubSeq(a, 1, n)
  <2>1. PICK u, v : u = SubSeq(x, 1, n) /\ v = SubSeq(a, 1, n)
    OBVIOUS
  <2>2. n \in 0 .. Len(x) /\ n \in 0 .. Len(a)
    BY <1>1, <1>2, <1>3
  <2>3. u \in Text /\ Len(u) = n /\ \A i \in 1 .. n : u[i] = x[i]
    BY <1>2, <1>4, <2>1, <2>2
  <2>4. v \in Text /\ Len(v) = n /\ \A i \in 1 .. n : v[i] = a[i]
    BY <1>4, <2>1, <2>2
  <2>5. \A i \in 1 .. n : i \in 1 .. A
    BY <1>2
  <2>6. \A i \in 1 .. n : u[i] = v[i]
    BY <1>3, <2>3, <2>4, <2>5
  <2>7. u = v
    BY <2>3, <2>4, <2>6, SeqEqual DEF Text
  <2> QED
    BY <2>1, <2>7
<1>6. ASSUME NEW j \in 0 .. D PROVE SubSeq(x, 1, A + j) = a \o SubSeq(d, 1, j)
  <2>1. PICK u, e, n : u = SubSeq(x, 1, n) /\ e = SubSeq(d, 1, j) /\ n = A + j
    OBVIOUS
  <2>2. n \in 0 .. Len(x) /\ j \in 0 .. Len(d) /\ j \in Nat
    BY <1>1, <1>2, <1>3, <2>1
  <2>3. u \in Text /\ Len(u) = n /\ \A i \in 1 .. n : u[i] = x[i]
    BY <1>2, <1>4, <2>1, <2>2
  <2>4. e \in Text /\ Len(e) = j /\ \A i \in 1 .. j : e[i] = d[i]
    BY <1>4, <2>1, <2>2
  <2>5. \A i \in 1 .. A : i \in 1 .. n
    BY <1>2, <2>1, <2>2
  <2>6. \A i \in 1 .. j : A + i \in 1 .. n /\ i \in 1 .. D
    BY <1>2, <2>1, <2>2
  <2>7. Joins(u, a, e)
    BY <1>1, <1>3, <2>1, <2>3, <2>4, <2>5, <2>6 DEF Joins
  <2>8. u = a \o e
    BY <2>3, <2>4, <2>7, JoinsOne
  <2> QED
    BY <2>1, <2>8
<1> QED
  BY <1>1, <1>5, <1>6

LEMMA InitialBare ==
    ASSUME NEW x \in Text, Bare(x), NEW n \in 0 .. Len(x)
    PROVE  Bare(SubSeq(x, 1, n))
<1>1. PICK u, m : u = SubSeq(x, 1, n) /\ m = Len(x)
  OBVIOUS
<1>2. m \in Nat /\ \A i \in 1 .. m : x[i] \in STRING
  BY <1>1, LenProperties, ElementOfSeq DEF Text
<1>3. Len(u) = n /\ \A i \in 1 .. n : u[i] = x[i] /\ i \in 1 .. m
  BY <1>1, <1>2 DEF Text
<1> QED
  BY <1>1, <1>3, Zenon DEF Bare

LEMMA HostMap ==
    ASSUME NEW g \in Full
    PROVE  map_to_host(<< >>, Empty, g) = g
<1>1. PICK b, w : b = << >> /\ w = map_to_host(b, Empty, g)
  OBVIOUS
<1>2. b \in Seq(BindingType) /\ DOMAIN b = {}
  BY <1>1
<1>3. Bound(b, g) = {} /\ Mounted(b, Empty \o g) = {}
  BY <1>2 DEF Bound, Mounted
<1>4. Empty \o g = g /\ Empty \in Text
  BY EmptyFacts, EmptyJoins DEF Full
<1>5. w = Empty \o g
  BY <1>1, <1>2, <1>3, <1>4, MapIs
<1> QED
  BY <1>1, <1>4, <1>5

LEMMA KernelWalks ==
    ASSUME NEW who \in Who, NEW l \in Nat, NEW x \in Text, Straight(x),
           NEW z \in Text, Leading(z, Len(z))
    PROVE  Res(who, << >>, Empty, l, Slash, x \o z) = OrSlash(x)
<1>1. PICK b, w, L : b = << >> /\ w = x \o z /\ L = Len(x)
  OBVIOUS
<1>2. w \in Text /\ Joins(w, x, z) /\ L \in Nat /\ Len(z) \in Nat
  BY <1>1, Joined
<1>3. Len(w) = L + Len(z) /\ \A i \in 1 .. L : w[i] = x[i]
  BY <1>1, <1>2 DEF Joins
<1>4. Bare(x)
  BY ProperBare DEF Straight
<1> DEFINE Same(k) == Res(who, b, Empty, l, Slash, w)
                        = Res(who, b, Empty, l, OrSlash(SubSeq(x, 1, k)), Drop(w, k))
<1>5. Same(0)
  BY <1>2, InitialIs, EmptyJoins DEF OrSlash
<1> HIDE DEF Same
<1>6. ASSUME NEW k \in 0 .. L, k < L, Same(k) PROVE Same(k + 1)
  <2>1. k \in Nat /\ k < Len(w) /\ k + 1 \in 1 .. L /\ k \in 0 .. L /\ k + 1 \in 0 .. L /\ (k + 1) - 1 = k
    BY <1>2, <1>3, <1>6
  <2>2. PICK u, v, d, n : /\ u = SubSeq(x, 1, k) /\ v = SubSeq(x, 1, k + 1) /\ d = Drop(w, k)
                          /\ n = x[k + 1]
    OBVIOUS
  <2>3. u \in Text /\ v \in Text /\ v = Append(u, n)
    <3>1. u \in Text /\ v \in Text
      BY <1>1, <2>1, <2>2, InitialIs
    <3>2. PICK j : j = k + 1
      OBVIOUS
    <3>3. SubSeq(x, 1, j) = Append(SubSeq(x, 1, j - 1), x[j]) /\ j - 1 = k
      BY <1>1, <2>1, <3>2, InitialNext
    <3> QED
      BY <2>2, <3>1, <3>2, <3>3
  <2>4. d \in Text /\ d # Empty /\ Head(d) = n /\ Tail(d) = Drop(w, k + 1)
    BY <1>2, <1>3, <2>1, <2>2, DropNext
  <2>5. Bare(u) /\ Bare(v)
    BY <1>1, <1>4, <2>1, <2>2, InitialBare
  <2>6. Unslashed(OrSlash(u)) = u
    BY <2>5, EmptyFacts DEF Unslashed, OrSlash
  <2>7. push_component(OrSlash(u), n) = v
    BY <2>3, <2>6 DEF push_component
  <2>8. v # Empty /\ v \in Full
    <3>1. Len(v) = Len(u) + 1 /\ Len(u) \in Nat
      <4>1. n \in STRING
        BY <1>1, <2>1, <2>2, ElementOfSeq DEF Text
      <4> QED
        BY <2>3, <4>1, AppendProperties, LenProperties DEF Text
    <3>2. Len(v) # 0
      BY <3>1
    <3> QED
      BY <2>3, <3>2, EmptyFacts DEF Full
  <2>9. Path(map_to_host(b, Empty, v)) = v
    <3>1. map_to_host(b, Empty, v) = v
      BY <1>1, <2>8, HostMap
    <3>2. Path(v) = v
      BY <2>3, <2>5, <2>8, PathOf DEF OrSlash
    <3> QED
      BY <3>1, <3>2
  <2>10. Proper(n) /\ ~IsLink(v)
    BY <1>1, <2>1, <2>2 DEF Straight
  <2>11. PICK a : a = OrSlash(u)
    OBVIOUS
  <2>12. a \in Text
    BY <2>3, <2>11, PathOps DEF Full
  <2>13. Res(who, b, Empty, l, a, d) = Res(who, b, Empty, l, push_component(a, Head(d)), Tail(d))
    BY <2>4, <2>7, <2>9, <2>10, <2>11, <2>12, ResName
  <2>14. v = OrSlash(v)
    BY <2>8 DEF OrSlash
  <2> QED
    BY <1>6, <2>2, <2>4, <2>7, <2>11, <2>13, <2>14 DEF Same
<1>7. Same(L)
  <2> DEFINE bad == {k \in 0 .. L : ~Same(k)}
  <2> SUFFICES ASSUME bad # {} PROVE FALSE
    BY <1>2
  <2>1. PICK i \in bad : \A j \in bad : i <= j
    <3>1. bad \in SUBSET Nat
      BY <1>2
    <3> HIDE DEF bad
    <3> QED
      BY <3>1, Least
  <2>2. i \in 0 .. L /\ ~Same(i)
    BY <2>1
  <2>3. i # 0
    BY <1>5, <2>2
  <2>4. PICK j \in 0 .. L : i = j + 1 /\ j < L /\ ~(i <= j)
    <3>1. i - 1 \in 0 .. L /\ i = (i - 1) + 1 /\ i - 1 < L /\ ~(i <= i - 1)
      BY <1>2, <2>2, <2>3
    <3> QED
      BY <3>1
  <2>5. Same(j)
    BY <2>1, <2>4
  <2> QED
    BY <1>6, <2>2, <2>4, <2>5
<1>8. Drop(w, L) = z /\ SubSeq(x, 1, L) = x
  BY <1>1, JoinSplit, InitialIs
<1>9. PICK a : a = OrSlash(x)
  OBVIOUS
<1>10. a \in Text
  BY <1>9, PathOps DEF Full
<1>11. PICK m : m = Len(z)
  OBVIOUS
<1>12. m \in 0 .. Len(z) /\ Leading(z, m)
  BY <1>2, <1>11
<1>13. Drop(z, m) = Empty
  <2>1. Drop(z, m) \in Text /\ Len(Drop(z, m)) = Len(z) - m
    BY <1>2, <1>11, DropIs
  <2>2. Len(Drop(z, m)) = 0
    BY <1>2, <1>11, <2>1
  <2> QED
    BY <2>1, <2>2, EmptyFacts
<1>14. Res(who, b, Empty, l, a, z) = Res(who, b, Empty, l, a, Drop(z, m))
  BY <1>10, <1>12, ResSkips
<1>15. Res(who, b, Empty, l, a, Empty) = a
  BY <1>10, ResEnd
<1> QED
  BY <1>1, <1>7, <1>8, <1>9, <1>13, <1>14, <1>15 DEF Same

(* The scan's choice, and that a scan of fewer candidates with it among    *)
(* them chooses it too.                                                    *)
Best(path, i) ==
    /\ i \in DOMAIN path
    /\ \A j \in DOMAIN path :
          /\ Length(path[j]) <= Length(path[i])
          /\ Length(path[j]) = Length(path[i]) => j <= i

LEMMA BestOne ==
    ASSUME NEW I \in SUBSET Nat, NEW path \in [I -> Text], NEW i, Best(path, i)
    PROVE  LatestLongest(path) = i
<1>1. i \in I /\ \A j \in I : Length(path[j]) \in Nat
  BY PathOps DEF Best
<1>2. i \in Longest(path) /\ Longest(path) \subseteq I
  BY DEF Best, Longest
<1>3. ASSUME NEW j \in Longest(path) PROVE j <= i
  <2>1. j \in I /\ Length(path[i]) <= Length(path[j])
    BY <1>1, <1>3 DEF Longest
  <2>2. Length(path[j]) <= Length(path[i])
    BY <2>1 DEF Best
  <2>3. Length(path[j]) = Length(path[i])
    BY <1>1, <2>1, <2>2
  <2> QED
    BY <2>1, <2>3 DEF Best
<1>4. PICK k : k = LatestLongest(path)
  OBVIOUS
<1>5. k \in Longest(path) /\ \A j \in Longest(path) : j <= k
  BY <1>2, <1>3, <1>4 DEF LatestLongest
<1>6. k <= i /\ i <= k /\ k \in Nat /\ i \in Nat
  BY <1>1, <1>2, <1>3, <1>5
<1> QED
  BY <1>4, <1>6

LEMMA BestThere ==
    ASSUME NEW I \in SUBSET Nat, I # {}, NEW path \in [I -> Text],
           NEW n \in Nat, \A i \in I : Length(path[i]) <= n,
           NEW m \in Nat, \A i \in I : i <= m
    PROVE  \E i : Best(path, i)
<1>1. \A i \in I : Length(path[i]) \in Nat
  BY PathOps
<1> DEFINE L == {Length(path[i]) : i \in I}
<1>2. PICK x \in L : \A y \in L : y <= x
  <2>1. L \subseteq Nat /\ L # {} /\ \A y \in L : y <= n
    BY <1>1
  <2> HIDE DEF L
  <2> QED
    BY <2>1, Greatest
<1> DEFINE J == {i \in I : Length(path[i]) = x}
<1>3. PICK i \in J : \A j \in J : j <= i
  <2>1. J \in SUBSET Nat /\ J # {} /\ \A j \in J : j <= m
    BY <1>2
  <2> HIDE DEF J
  <2> QED
    BY <2>1, Greatest
<1>4. Best(path, i)
  BY <1>2, <1>3 DEF Best
<1> QED
  BY <1>4

LEMMA BestFewer ==
    ASSUME NEW f, NEW h, DOMAIN h \subseteq DOMAIN f, \A j \in DOMAIN h : h[j] = f[j],
           NEW i \in DOMAIN h, Best(f, i)
    PROVE  Best(h, i)
BY DEF Best

Guesting(b, g) == [i \in Bound(b, g) |-> b[i].guest]
Mounting(b, u) == [i \in Mounted(b, u) |-> b[i].mount]

LEMMA GuestingIs ==
    ASSUME NEW b \in Seq(BindingType), NEW g \in Text
    PROVE  /\ Bound(b, g) \in SUBSET Nat /\ Guesting(b, g) \in [Bound(b, g) -> Text]
           /\ Bound(b, g) # {} => \E i : Best(Guesting(b, g), i)
<1>1. PICK n \in Nat : n = Len(b) /\ DOMAIN b = 1 .. n
  BY LenProperties
<1>2. PICK I, path : I = Bound(b, g) /\ path = Guesting(b, g)
  OBVIOUS
<1>3. I \in SUBSET Nat /\ \A i \in I : i <= n /\ i \in DOMAIN b
  BY <1>1, <1>2 DEF Bound
<1>4. path = [i \in I |-> b[i].guest]
  BY <1>2 DEF Guesting
<1>5. path \in [I -> Text]
  BY <1>3, <1>4, BindingIs
<1>6. Len(g) \in Nat
  BY PathOps
<1>7. ASSUME NEW i \in I PROVE Length(path[i]) <= Len(g)
  <2>1. PICK q : q = path[i]
    OBVIOUS
  <2>2. q \in Text /\ (q = Slash \/ has_prefix(g, q))
    BY <1>2, <1>4, <1>5, <1>7, <2>1 DEF Bound
  <2>3. CASE q = Slash
    <3>1. Length(q) = 0
      BY <2>3, EmptyFacts DEF Length, Unslashed
    <3> QED
      BY <1>6, <2>1, <3>1
  <2>4. CASE has_prefix(g, q)
    <3>1. Len(q) <= Len(g) /\ Length(q) <= Len(q) /\ Length(q) \in Nat /\ Len(q) \in Nat
      BY <2>2, <2>4, PathOps, PrefixShorter
    <3> QED
      BY <1>6, <2>1, <3>1
  <2> QED
    BY <2>2, <2>3, <2>4
<1>8. I # {} => \E i : Best(path, i)
  BY <1>3, <1>5, <1>6, <1>7, BestThere
<1> QED
  BY <1>2, <1>3, <1>5, <1>8

LEMMA MountingIs ==
    ASSUME NEW b \in Seq(BindingType), NEW u \in Text
    PROVE  /\ Mounted(b, u) \in SUBSET Nat /\ Mounting(b, u) \in [Mounted(b, u) -> Text]
           /\ Mounted(b, u) # {} => \E i : Best(Mounting(b, u), i)
<1>1. PICK n \in Nat : n = Len(b) /\ DOMAIN b = 1 .. n
  BY LenProperties
<1>2. PICK I, path : I = Mounted(b, u) /\ path = Mounting(b, u)
  OBVIOUS
<1>3. I \in SUBSET Nat /\ \A i \in I : i <= n /\ i \in DOMAIN b
  BY <1>1, <1>2 DEF Mounted
<1>4. path = [i \in I |-> b[i].mount]
  BY <1>2 DEF Mounting
<1>5. path \in [I -> Text]
  BY <1>3, <1>4, BindingIs
<1>6. Len(u) \in Nat
  BY PathOps
<1>7. ASSUME NEW i \in I PROVE Length(path[i]) <= Len(u)
  <2>1. PICK q : q = path[i]
    OBVIOUS
  <2>2. q \in Text /\ has_prefix(u, q)
    BY <1>2, <1>4, <1>5, <1>7, <2>1 DEF Mounted
  <2>3. Len(q) <= Len(u) /\ Length(q) <= Len(q) /\ Length(q) \in Nat /\ Len(q) \in Nat
    BY <2>2, PathOps, PrefixShorter
  <2> QED
    BY <1>6, <2>1, <2>3
<1>8. I # {} => \E i : Best(path, i)
  BY <1>3, <1>5, <1>6, <1>7, BestThere
<1> QED
  BY <1>2, <1>3, <1>5, <1>8

LEMMA MapByBinding ==
    ASSUME NEW b \in Seq(BindingType), NEW r \in Text, NEW g \in Text, NEW i, Best(Guesting(b, g), i)
    PROVE  map_to_host(b, r, g) = Below(b[i].host, g, Length(b[i].guest)) /\ i \in Bound(b, g)
<1>1. i \in Bound(b, g)
  BY DEF Best, Guesting
<1>2. LatestLongest(Guesting(b, g)) = i
  BY GuestingIs, BestOne
<1>3. LatestLongest([j \in Bound(b, g) |-> b[j].guest]) = i
  BY <1>2 DEF Guesting
<1> QED
  BY <1>1, <1>3 DEF map_to_host, Below

Tops(r, g, u) == u = r \o g

LEMMA MapByMount ==
    ASSUME NEW b \in Seq(BindingType), NEW r \in Text, NEW g \in Text, Bound(b, g) = {},
           NEW u \in Text, Tops(r, g, u), NEW i, Best(Mounting(b, u), i)
    PROVE  map_to_host(b, r, g) = Below(b[i].host, u, Len(b[i].mount)) /\ i \in Mounted(b, u)
<1>1. i \in Mounted(b, u)
  BY DEF Best, Mounting
<1>2. LatestLongest(Mounting(b, u)) = i
  BY MountingIs, BestOne
<1>3. LatestLongest([j \in Mounted(b, u) |-> b[j].mount]) = i
  BY <1>2 DEF Mounting
<1>4. map_to_host(b, r, g) = Below(b[i].host, u, Len(b[i].mount))
  BY <1>1, <1>3 DEF map_to_host, Below, Tops
<1> QED
  BY <1>1, <1>4

LEMMA PrefixLonger ==
    ASSUME NEW q \in Text, NEW s \in Text, NEW t \in Text, has_prefix(s, q)
    PROVE  has_prefix(s \o t, q)
<1>1. PICK d \in Text : s = q \o d
  BY PrefixSplit
<1>2. PICK e : e = d \o t
  OBVIOUS
<1>3. e \in Text
  BY <1>2, Joined
<1>4. s \o t = q \o e
  BY <1>1, <1>2, ConcatAssociative DEF Text
<1> QED
  BY <1>3, <1>4, JoinSplit

LEMMA FewerBound ==
    ASSUME NEW b \in Seq(BindingType), NEW g \in Text, NEW t \in Text
    PROVE  Bound(b, g) \subseteq Bound(b, g \o t) /\ Mounted(b, g) \subseteq Mounted(b, g \o t)
<1>1. PICK h : h = g \o t
  OBVIOUS
<1>2. ASSUME NEW q \in Text, has_prefix(g, q) PROVE has_prefix(h, q)
  BY <1>1, <1>2, PrefixLonger
<1>3. \A i \in DOMAIN b : b[i].guest \in Text /\ b[i].mount \in Text
  BY BindingIs
<1>4. Bound(b, g) \subseteq Bound(b, h)
  BY <1>2, <1>3 DEF Bound
<1>5. Mounted(b, g) \subseteq Mounted(b, h)
  BY <1>2, <1>3 DEF Mounted
<1> QED
  BY <1>1, <1>4, <1>5

-----------------------------------------------------------------------------
(* Where the bindings lead is where realpath would: then a guest path with *)
(* no symlink on its way has none on its host path either.  Of a root,     *)
(* "/" is told from no root, and nothing is mounted above it.              *)
Ordinary(b, r) ==
    /\ r = Empty \/ (Real(r) /\ r # Slash)
    /\ \A i \in DOMAIN b :
          /\ Real(b[i].host)
          /\ Length(b[i].mount) > 0 /\ has_prefix(r, b[i].mount) => b[i].mount = r

(* the guest path the walk has got to: no symlink up to there *)
NoLinks(b, r, c) ==
    \A n \in 1 .. Len(c) : Proper(c[n]) /\ ~IsLink(Path(map_to_host(b, r, SubSeq(c, 1, n))))
Seen(b, r, c) == c = Slash \/ (c \in Full /\ NoLinks(b, r, c))

LEMMA RealIs ==
    ASSUME NEW s \in Text, Real(s)
    PROVE  /\ Unslashed(s) \in Text /\ Straight(Unslashed(s)) /\ Slashed(s, Unslashed(s))
           /\ OrSlash(Unslashed(s)) = s
<1>1. PICK u : u = Unslashed(s)
  OBVIOUS
<1>2. u \in Text /\ Slashed(s, u) /\ OrSlash(u) = s
  BY <1>1, CanonicalIs DEF Real
<1>3. Straight(u)
  <2>1. CASE s = Slash
    <3>1. u = Empty
      BY <1>1, <2>1 DEF Unslashed
    <3>2. PICK n : n = Len(Empty)
      OBVIOUS
    <3>3. n = 0
      BY <3>2, EmptyFacts
    <3>4. 1 .. n = {}
      BY <3>3
    <3> QED
      BY <3>1, <3>2, <3>4, Zenon DEF Straight
  <2>2. CASE Clean(s)
    <3>1. u = s /\ Bare(s)
      BY <1>1, <2>2, CleanIs
    <3>2. \A n \in 1 .. Len(s) : s[n] # "" /\ s[n] \notin {".", ".."}
      <4>1. DOMAIN s = 1 .. Len(s)
        BY LenProperties DEF Text
      <4>2. \A n \in 1 .. Len(s) : s[n] \in Range(s)
        BY <4>1, Zenon DEF Range
      <4>3. {".", ".."} \cap Range(s) = {}
        BY DEF Real
      <4> QED
        BY <3>1, <4>2, <4>3, Zenon DEF Bare
    <3>3. \A n \in 1 .. Len(s) : Proper(s[n])
      BY <3>2, Zenon DEF Proper
    <3>4. \A n \in 1 .. Len(s) : ~IsLink(SubSeq(s, 1, n))
      BY DEF Real
    <3> QED
      BY <3>1, <3>3, <3>4, Zenon DEF Straight
  <2> QED
    BY <2>1, <2>2 DEF Real, Canonical
<1> QED
  BY <1>1, <1>2, <1>3

LEMMA StraightJoin ==
    ASSUME NEW b, NEW r, NEW a \in Text, Straight(a), NEW q \in Text, NEW d \in Text,
           NoLinks(b, r, q \o d),
           \A j \in 1 .. Len(d) :
               map_to_host(b, r, q \o SubSeq(d, 1, j)) = a \o SubSeq(d, 1, j)
    PROVE  Straight(a \o d)
<1>1. PICK x, c, A, D, Q : x = a \o d /\ c = q \o d /\ A = Len(a) /\ D = Len(d) /\ Q = Len(q)
  OBVIOUS
<1>2. x \in Text /\ Joins(x, a, d) /\ c \in Text /\ Joins(c, q, d) /\ A \in Nat /\ D \in Nat /\ Q \in Nat
  BY <1>1, Joined
<1>3. Len(x) = A + D /\ (\A i \in 1 .. A : x[i] = a[i]) /\ \A i \in 1 .. D : x[A + i] = d[i]
  BY <1>1, <1>2 DEF Joins
<1>4. Len(c) = Q + D /\ \A i \in 1 .. D : c[Q + i] = d[i]
  BY <1>1, <1>2 DEF Joins
<1>5. Bare(a)
  BY ProperBare DEF Straight
<1>6. ASSUME NEW n \in 1 .. A PROVE Proper(x[n]) /\ ~IsLink(SubSeq(x, 1, n))
  <2>1. SubSeq(x, 1, n) = SubSeq(a, 1, n) /\ x[n] = a[n]
    BY <1>1, <1>3, <1>6, InitialJoin
  <2>2. Proper(a[n]) /\ ~IsLink(SubSeq(a, 1, n))
    BY <1>1, <1>6 DEF Straight
  <2> QED
    BY <2>1, <2>2
<1>7. ASSUME NEW j \in 1 .. D PROVE Proper(d[j])
  <2>1. Q + j \in 1 .. Len(c)
    BY <1>2, <1>4
  <2>2. Proper(c[Q + j])
    BY <1>1, <2>1 DEF NoLinks
  <2> QED
    BY <1>4, <1>7, <2>2
<1>8. Bare(d)
  BY <1>1, <1>7, ProperBare
<1>9. ASSUME NEW j \in 1 .. D PROVE Proper(x[A + j]) /\ ~IsLink(SubSeq(x, 1, A + j))
  <2>1. PICK e, g : e = SubSeq(d, 1, j) /\ g = q \o e
    OBVIOUS
  <2>2. j \in 0 .. Len(d) /\ Q + j \in 1 .. Len(c)
    BY <1>1, <1>2, <1>4
  <2>3. e \in Text /\ Bare(e)
    BY <1>8, <2>1, <2>2, InitialIs, InitialBare
  <2>4. e # Empty
    <3>1. Len(e) = j
      <4>1. \A i \in 1 .. D : d[i] \in STRING
        BY <1>1, <1>2, ElementOfSeq DEF Text
      <4> QED
        BY <1>1, <1>2, <2>1, <4>1 DEF Text
    <3>2. Len(e) # 0
      BY <1>2, <3>1
    <3> QED
      BY <3>2, EmptyFacts
  <2>5. SubSeq(c, 1, Q + j) = g
    BY <1>1, <2>1, <2>2, InitialJoin
  <2>6. SubSeq(x, 1, A + j) = a \o e
    BY <1>1, <2>1, <2>2, InitialJoin
  <2>7. map_to_host(b, r, g) = a \o e
    BY <1>1, <1>9, <2>1
  <2>8. Path(a \o e) = a \o e
    <3>1. PICK y : y = a \o e
      OBVIOUS
    <3>2. y \in Text /\ Bare(y) /\ y # Empty
      BY <1>5, <2>3, <2>4, <3>1, Joined, BareJoin, EmptyJoins
    <3> QED
      BY <3>1, <3>2, PathOf DEF OrSlash
  <2>9. ~IsLink(Path(map_to_host(b, r, SubSeq(c, 1, Q + j))))
    BY <1>1, <2>2 DEF NoLinks
  <2>10. ~IsLink(SubSeq(x, 1, A + j))
    BY <2>5, <2>6, <2>7, <2>8, <2>9
  <2> QED
    BY <1>3, <1>7, <1>9, <2>10
<1>10. ASSUME NEW n \in 1 .. Len(x) PROVE Proper(x[n]) /\ ~IsLink(SubSeq(x, 1, n))
  <2>1. CASE n \in 1 .. A
    BY <1>6, <2>1
  <2>2. CASE n \notin 1 .. A
    <3>1. PICK j : j = n - A
      OBVIOUS
    <3>2. j \in 1 .. D /\ n = A + j
      BY <1>2, <1>3, <1>10, <2>2, <3>1
    <3> QED
      BY <1>9, <3>2
  <2> QED
    BY <2>1, <2>2
<1> QED
  BY <1>1, <1>10 DEF Straight

LEMMA OrSlashed ==
    ASSUME NEW x \in Text
    PROVE  Slashed(OrSlash(x), x)
<1>1. Empty \o Slash = Slash
  BY EmptyFacts, EmptyJoins
<1> QED
  BY <1>1 DEF Slashed, OrSlash

LEMMA PrefixOfSlash ==
    ASSUME NEW q \in Full, has_prefix(Slash, q)
    PROVE  q = Slash
<1>1. q \in Text /\ q # Empty
  BY DEF Full
<1>2. PICK d \in Text : Slash = q \o d
  BY <1>1, PrefixSplit, EmptyFacts
<1>3. Len(Slash) = Len(q) + Len(d) /\ Len(q) \in Nat /\ Len(d) \in Nat
  BY <1>1, <1>2, Joined DEF Joins
<1>4. Len(Slash) = 1 /\ Len(q) # 0
  BY <1>1, EmptyFacts
<1>5. PICK n, m : n = Len(q) /\ m = Len(d)
  OBVIOUS
<1>6. n \in Nat /\ m \in Nat /\ n + m = 1 /\ n # 0
  BY <1>3, <1>4, <1>5
<1>7. m = 0
  BY <1>6
<1>8. d = Empty
  BY <1>5, <1>7, EmptyFacts
<1> QED
  BY <1>1, <1>2, <1>8, EmptyJoins

LEMMA JoinThree ==
    ASSUME NEW x \in Text, NEW y \in Text, NEW z \in Text,
           NEW k, Tops(x, y, k), NEW d, Tops(y, z, d)
    PROVE  k \in Text /\ d \in Text /\ \A w : Tops(x, d, w) <=> Tops(k, z, w)
<1>1. (x \o y) \o z = x \o (y \o z)
  BY ConcatAssociative DEF Text
<1>2. x \o y \in Text /\ y \o z \in Text
  BY Joined
<1> QED
  BY <1>1, <1>2, Zenon DEF Tops

(* What lies below q, as far as d, the bindings or the root lead below a.  *)
Leads(b, r, q, a, d) ==
    \A t, e \in Text : d = t \o e =>
        /\ Slashed(map_to_host(b, r, q \o t), a \o t)
        /\ t # Empty => map_to_host(b, r, q \o t) = a \o t

LEMMA LeadsBy ==
    ASSUME NEW b, NEW r, NEW q \in Text, NEW a \in Text, NEW d \in Text,
           \A t, e \in Text : d = t \o e => map_to_host(b, r, q \o t) = OrSlash(a \o t)
    PROVE  Leads(b, r, q, a, d)
<1> SUFFICES ASSUME NEW t \in Text, NEW e \in Text, d = t \o e
             PROVE  /\ Slashed(map_to_host(b, r, q \o t), a \o t)
                    /\ t # Empty => map_to_host(b, r, q \o t) = a \o t
  BY DEF Leads
<1>1. PICK x, y : x = map_to_host(b, r, q \o t) /\ y = a \o t
  OBVIOUS
<1>2. y \in Text /\ x = OrSlash(y)
  BY <1>1, Joined
<1>3. Slashed(x, y)
  BY <1>2, OrSlashed
<1>4. t # Empty => y # Empty
  BY <1>1, EmptyJoins
<1>5. t # Empty => x = y
  BY <1>2, <1>4 DEF OrSlash
<1> QED
  BY <1>1, <1>3, <1>5

LEMMA LeadsStraight ==
    ASSUME NEW b, NEW r, NEW q \in Text, NEW a \in Text, Straight(a), NEW d \in Text,
           Leads(b, r, q, a, d), NoLinks(b, r, q \o d)
    PROVE  Straight(a \o d) /\ Slashed(map_to_host(b, r, q \o d), a \o d)
<1>1. ASSUME NEW j \in 1 .. Len(d)
      PROVE  map_to_host(b, r, q \o SubSeq(d, 1, j)) = a \o SubSeq(d, 1, j)
  <2>1. PICK t, n : t = SubSeq(d, 1, j) /\ n = Len(d)
    OBVIOUS
  <2>2. n \in Nat /\ \A i \in 1 .. n : d[i] \in STRING
    BY <2>1, LenProperties, ElementOfSeq DEF Text
  <2>3. t \in Text /\ Len(t) = j /\ (\A i \in 1 .. j : t[i] = d[i]) /\ j \in 1 .. n
    BY <1>1, <2>1, <2>2 DEF Text
  <2>4. has_prefix(d, t)
    <3>1. DOMAIN t = 1 .. j
      BY <2>3, LenProperties DEF Text
    <3>2. Len(t) <= Len(d)
      BY <2>1, <2>2, <2>3
    <3> QED
      BY <2>1, <2>2, <2>3, <3>1, <3>2 DEF has_prefix, IsPrefix
  <2>5. PICK e \in Text : d = t \o e
    BY <2>3, <2>4, PrefixSplit
  <2>6. t # Empty
    <3>1. Len(t) # 0
      BY <2>2, <2>3
    <3> QED
      BY <2>3, <3>1, EmptyFacts
  <2>7. map_to_host(b, r, q \o t) = a \o t
    BY <2>3, <2>5, <2>6 DEF Leads
  <2> QED
    BY <2>1, <2>7
<1>2. Straight(a \o d)
  BY <1>1, StraightJoin
<1>3. d = d \o Empty /\ Empty \in Text
  BY EmptyFacts, EmptyJoins
<1>4. Slashed(map_to_host(b, r, q \o d), a \o d)
  BY <1>3 DEF Leads
<1> QED
  BY <1>2, <1>4

LEMMA BindingLeads ==
    ASSUME NEW b \in Seq(BindingType), NEW r \in Text, NEW c \in Text,
           NEW i, Best(Guesting(b, c), i)
    PROVE  \E d \in Text : /\ c = Unslashed(b[i].guest) \o d
                           /\ Leads(b, r, Unslashed(b[i].guest), Unslashed(b[i].host), d)
<1>1. i \in Bound(b, c) /\ i \in DOMAIN b
  BY MapByBinding DEF Bound
<1>2. PICK q, a, g : q = Unslashed(b[i].guest) /\ a = Unslashed(b[i].host) /\ g = b[i].guest
  OBVIOUS
<1>3. q \in Text /\ a \in Text /\ g \in Full /\ Length(g) = Len(q)
  BY <1>1, <1>2, BindingIs, PathOps DEF Full, Length
<1>4. has_prefix(c, q)
  <2>1. CASE g = Slash
    <3>1. q = Empty
      BY <1>2, <2>1 DEF Unslashed
    <3>2. Empty \o c = c /\ Empty \in Text
      BY EmptyFacts, EmptyJoins
    <3>3. has_prefix(Empty \o c, Empty)
      BY <3>2, JoinSplit
    <3> QED
      BY <3>1, <3>2, <3>3
  <2>2. CASE g # Slash
    BY <1>1, <1>2, <2>2 DEF Bound, Unslashed
  <2> QED
    BY <2>1, <2>2
<1>5. PICK d \in Text : c = q \o d
  BY <1>3, <1>4, PrefixSplit
<1>6. ASSUME NEW t \in Text, NEW e \in Text, d = t \o e
      PROVE  map_to_host(b, r, q \o t) = OrSlash(a \o t)
  <2>1. PICK k : k = q \o t
    OBVIOUS
  <2>2. k \in Text /\ c = k \o e
    <3>1. Tops(q, t, k) /\ Tops(t, e, d) /\ Tops(q, d, c)
      BY <1>5, <1>6, <2>1, Zenon DEF Tops
    <3>2. k \in Text /\ Tops(k, e, c)
      BY <1>3, <1>6, <3>1, JoinThree
    <3> QED
      BY <3>2 DEF Tops
  <2>3. Bound(b, k) \subseteq Bound(b, c)
    BY <2>2, FewerBound
  <2>4. i \in Bound(b, k)
    <3>1. has_prefix(k, q) /\ Drop(k, Len(q)) = t
      BY <1>3, <2>1, JoinSplit
    <3>2. g = Slash \/ g = q
      BY <1>2 DEF Unslashed
    <3> QED
      BY <1>1, <1>2, <3>1, <3>2 DEF Bound
  <2>5. PICK f, h : f = Guesting(b, c) /\ h = Guesting(b, k)
    OBVIOUS
  <2>6. DOMAIN f = Bound(b, c) /\ DOMAIN h = Bound(b, k)
    BY <2>5 DEF Guesting
  <2>7. \A j \in DOMAIN h : h[j] = f[j]
    BY <2>3, <2>5, <2>6 DEF Guesting
  <2>8. Best(Guesting(b, k), i)
    BY <2>3, <2>4, <2>5, <2>6, <2>7, BestFewer
  <2>9. map_to_host(b, r, k) = Below(b[i].host, k, Length(g))
    BY <1>2, <2>2, <2>8, MapByBinding
  <2>10. Drop(k, Len(q)) = t
    BY <1>3, <2>1, JoinSplit
  <2> QED
    BY <1>2, <1>3, <2>1, <2>9, <2>10 DEF Below
<1>7. Leads(b, r, q, a, d)
  BY <1>3, <1>6, LeadsBy
<1> QED
  BY <1>2, <1>5, <1>7

LEMMA MountLeads ==
    ASSUME NEW b \in Seq(BindingType), NEW r \in Text, NEW c \in Text, Bound(b, c) = {},
           NEW i, Best(Mounting(b, r \o c), i), has_prefix(b[i].mount, r)
    PROVE  \E q, d \in Text : c = q \o d /\ Leads(b, r, q, Unslashed(b[i].host), d)
<1>1. PICK u, a, m : u = r \o c /\ a = Unslashed(b[i].host) /\ m = b[i].mount
  OBVIOUS
<1>2. u \in Text
  BY <1>1, Joined
<1>3. i \in Mounted(b, u) /\ i \in DOMAIN b
  BY <1>1, <1>2 DEF Best, Mounting, Mounted
<1>4. a \in Text /\ m \in Text /\ has_prefix(u, m)
  BY <1>1, <1>3, BindingIs, PathOps DEF Full, Mounted
<1>5. PICK q \in Text : m = r \o q
  BY <1>1, <1>4, PrefixSplit
<1>6. PICK d \in Text : u = m \o d
  BY <1>2, <1>4, PrefixSplit
<1>7. c = q \o d
  <2>1. q \o d \in Text /\ u = r \o (q \o d)
    <3>1. PICK k : k = q \o d
      OBVIOUS
    <3>2. Tops(r, q, m) /\ Tops(q, d, k) /\ Tops(m, d, u)
      BY <1>5, <1>6, <3>1, Zenon DEF Tops
    <3>3. k \in Text /\ Tops(r, k, u)
      BY <1>5, <1>6, <3>2, JoinThree
    <3> QED
      BY <3>1, <3>3 DEF Tops
  <2>2. Drop(u, Len(r)) = c /\ Drop(u, Len(r)) = q \o d
    BY <1>1, <2>1, JoinSplit
  <2> QED
    BY <2>2
<1>8. ASSUME NEW t \in Text, NEW e \in Text, d = t \o e
      PROVE  map_to_host(b, r, q \o t) = OrSlash(a \o t)
  <2>1. PICK k, v : k = q \o t /\ v = r \o k
    OBVIOUS
  <2>2. k \in Text /\ c = k \o e
    <3>1. Tops(q, t, k) /\ Tops(t, e, d) /\ Tops(q, d, c)
      BY <1>7, <1>8, <2>1, Zenon DEF Tops
    <3>2. k \in Text /\ Tops(k, e, c)
      BY <1>5, <1>8, <3>1, JoinThree
    <3> QED
      BY <3>2 DEF Tops
  <2>3. v \in Text /\ u = v \o e
    <3>1. Tops(r, k, v) /\ Tops(k, e, c) /\ Tops(r, c, u)
      BY <1>1, <2>1, <2>2, Zenon DEF Tops
    <3>2. v \in Text /\ Tops(v, e, u)
      BY <1>8, <2>2, <3>1, JoinThree
    <3> QED
      BY <3>2 DEF Tops
  <2>0. v = m \o t
    <3>1. Tops(r, q, m) /\ Tops(q, t, k) /\ Tops(r, k, v)
      BY <1>5, <2>1, Zenon DEF Tops
    <3>2. Tops(m, t, v)
      BY <1>5, <1>8, <3>1, JoinThree
    <3> QED
      BY <3>2 DEF Tops
  <2>4. Bound(b, k) = {} /\ Mounted(b, v) \subseteq Mounted(b, u)
    BY <2>2, <2>3, FewerBound
  <2>5. i \in Mounted(b, v)
    <3>1. has_prefix(v, m)
      BY <1>4, <2>0, JoinSplit
    <3> QED
      BY <1>1, <1>3, <3>1 DEF Mounted
  <2>6. PICK f, h : f = Mounting(b, u) /\ h = Mounting(b, v)
    OBVIOUS
  <2>7. DOMAIN f = Mounted(b, u) /\ DOMAIN h = Mounted(b, v)
    BY <2>6 DEF Mounting
  <2>8. \A j \in DOMAIN h : h[j] = f[j]
    BY <2>4, <2>6, <2>7 DEF Mounting
  <2>9. Best(Mounting(b, v), i)
    BY <1>1, <2>4, <2>5, <2>6, <2>7, <2>8, BestFewer
  <2>10. map_to_host(b, r, k) = Below(b[i].host, v, Len(m))
    <3>1. v \in Text /\ k \in Text /\ Tops(r, k, v) /\ Bound(b, k) = {} /\ Best(Mounting(b, v), i)
      BY <2>1, <2>2, <2>3, <2>4, <2>9 DEF Tops
    <3>2. map_to_host(b, r, k) = Below(b[i].host, v, Len(b[i].mount))
      BY <3>1, MapByMount
    <3> QED
      BY <1>1, <3>2
  <2>11. Drop(v, Len(m)) = t
    BY <1>4, <2>0, JoinSplit
  <2> QED
    BY <1>1, <2>1, <2>10, <2>11 DEF Below
<1>9. Leads(b, r, q, a, d)
  BY <1>4, <1>8, LeadsBy
<1> QED
  BY <1>1, <1>7, <1>9

LEMMA RootLeads ==
    ASSUME NEW b \in Seq(BindingType), NEW r \in Text, NEW c \in Text,
           Bound(b, c) = {}, Mounted(b, r \o c) = {}
    PROVE  Leads(b, r, Empty, r, c)
<1> SUFFICES ASSUME NEW t \in Text, NEW e \in Text, c = t \o e
             PROVE  map_to_host(b, r, Empty \o t) = r \o t
  BY DEF Leads, Slashed
<1>1. PICK v, u : v = r \o t /\ u = r \o c
  OBVIOUS
<1>2. v \in Text /\ u = v \o e
  <2>1. Tops(r, t, v) /\ Tops(t, e, c) /\ Tops(r, c, u)
    BY <1>1, Zenon DEF Tops
  <2>2. v \in Text /\ Tops(v, e, u)
    BY <2>1, JoinThree
  <2> QED
    BY <2>2 DEF Tops
<1>3. Bound(b, t) = {} /\ Mounted(b, v) = {}
  <2>1. Bound(b, t) \subseteq Bound(b, c) /\ Mounted(b, v) \subseteq Mounted(b, u)
    BY <1>2, FewerBound
  <2> QED
    BY <1>1, <2>1
<1>4. map_to_host(b, r, t) = r \o t
  BY <1>1, <1>3 DEF map_to_host
<1>5. Empty \o t = t
  BY EmptyJoins
<1> QED
  BY <1>4, <1>5

LEMMA StraightEmpty == Straight(Empty)
<1>1. PICK n : n = Len(Empty)
  OBVIOUS
<1>2. n = 0
  BY <1>1, EmptyFacts
<1>3. 1 .. n = {}
  BY <1>2
<1> QED
  BY <1>1, <1>3, Zenon DEF Straight

(* Every guest path is led somewhere, from a place with no symlink on the  *)
(* way to it.                                                              *)
LEMMA MapLeads ==
    ASSUME NEW b \in Seq(BindingType), NEW r \in Text, Ordinary(b, r), NEW c \in Text
    PROVE  \E q, a, d \in Text : Straight(a) /\ Tops(q, d, c) /\ Leads(b, r, q, a, d)
<1>1. \A i \in DOMAIN b : Unslashed(b[i].host) \in Text /\ Straight(Unslashed(b[i].host))
  <2>1. \A i \in DOMAIN b : b[i].host \in Text /\ Real(b[i].host)
    BY BindingIs DEF Full, Ordinary
  <2> QED
    BY <2>1, RealIs
<1>2. Straight(r)
  <2>1. CASE r = Empty
    BY <2>1, StraightEmpty
  <2>2. CASE r # Empty
    <3>1. Real(r) /\ r # Slash
      BY <2>2 DEF Ordinary
    <3>2. Unslashed(r) = r
      BY <3>1 DEF Unslashed
    <3> QED
      BY <3>1, <3>2, RealIs
  <2> QED
    BY <2>1, <2>2
<1>3. CASE Bound(b, c) # {}
  <2>1. PICK i : Best(Guesting(b, c), i)
    BY <1>3, GuestingIs
  <2>2. i \in DOMAIN b
    BY <2>1 DEF Best, Guesting, Bound
  <2>3. PICK q, a : q = Unslashed(b[i].guest) /\ a = Unslashed(b[i].host)
    OBVIOUS
  <2>4. q \in Text /\ a \in Text /\ Straight(a)
    BY <1>1, <2>2, <2>3, BindingIs, PathOps DEF Full
  <2>5. PICK d \in Text : c = q \o d /\ Leads(b, r, q, a, d)
    BY <2>1, <2>3, BindingLeads
  <2> QED
    BY <2>4, <2>5 DEF Tops
<1>4. CASE Bound(b, c) = {} /\ Mounted(b, r \o c) # {}
  <2>1. PICK u : u = r \o c
    OBVIOUS
  <2>2. u \in Text
    BY <2>1, Joined
  <2>3. PICK i : Best(Mounting(b, u), i)
    BY <1>4, <2>1, <2>2, MountingIs
  <2>4. i \in DOMAIN b /\ i \in Mounted(b, u)
    BY <2>3 DEF Best, Mounting, Mounted
  <2>5. PICK m : m = b[i].mount
    OBVIOUS
  <2>6. m \in Text /\ has_prefix(u, m) /\ Length(m) > 0 /\ has_prefix(u, r)
    BY <2>1, <2>4, <2>5, BindingIs, JoinSplit DEF Mounted
  <2>7. has_prefix(m, r)
    <3>1. CASE has_prefix(r, m)
      <4>1. m = r
        BY <2>4, <2>5, <2>6, <3>1 DEF Ordinary
      <4> QED
        BY <3>1, <4>1
    <3> QED
      BY <2>2, <2>6, <3>1, Comparable
  <2>8. PICK q, d \in Text : c = q \o d /\ Leads(b, r, q, Unslashed(b[i].host), d)
    BY <1>4, <2>1, <2>3, <2>5, <2>7, MountLeads
  <2> QED
    BY <1>1, <2>4, <2>8 DEF Tops
<1>5. CASE Bound(b, c) = {} /\ Mounted(b, r \o c) = {}
  <2>1. Leads(b, r, Empty, r, c)
    BY <1>5, RootLeads
  <2>2. Tops(Empty, c, c) /\ Empty \in Text
    BY EmptyFacts, EmptyJoins DEF Tops
  <2> QED
    BY <1>2, <2>1, <2>2
<1> QED
  BY <1>3, <1>4, <1>5

LEMMA LeadsTo ==
    ASSUME NEW b, NEW r, NEW q \in Text, NEW a \in Text, NEW d \in Text, NEW c, Tops(q, d, c),
           Leads(b, r, q, a, d), NEW x, Tops(a, d, x)
    PROVE  /\ Slashed(map_to_host(b, r, c), x)
           /\ d # Empty => map_to_host(b, r, c) = x
<1>1. d = d \o Empty /\ Empty \in Text
  BY EmptyFacts, EmptyJoins
<1> QED
  BY <1>1 DEF Leads, Tops

(* A guest path with no symlink on its way leads to a host path with none. *)
LEMMA MapStraight ==
    ASSUME NEW b \in Seq(BindingType), NEW r \in Text, Ordinary(b, r), NEW c \in Full, Seen(b, r, c)
    PROVE  \E x \in Text : Straight(x) /\ Slashed(map_to_host(b, r, c), x)
<1>1. c \in Text /\ c # Empty
  BY DEF Full
<1>2. PICK q, a, d \in Text : Straight(a) /\ Tops(q, d, c) /\ Leads(b, r, q, a, d)
  BY <1>1, MapLeads
<1>3. PICK w, x : w = map_to_host(b, r, c) /\ x = a \o d
  OBVIOUS
<1>4. x \in Text /\ c = q \o d
  BY <1>2, <1>3, Joined DEF Tops
<1>5. Slashed(w, x) /\ (d # Empty => w = x)
  <2>1. Tops(a, d, x)
    BY <1>3 DEF Tops
  <2>2. Slashed(map_to_host(b, r, c), x) /\ (d # Empty => map_to_host(b, r, c) = x)
    BY <1>2, <2>1, LeadsTo
  <2> QED
    BY <1>3, <2>2
<1>6. CASE c = Slash
  <2>1. CASE d = Empty
    <3>1. x = a
      BY <1>2, <1>3, <2>1, EmptyJoins
    <3> QED
      BY <1>2, <1>3, <1>5, <3>1
  <2>2. CASE d # Empty
    <3>1. d = Slash
      <4>1. CASE q = Empty
        <5>1. Empty \o d = d
          BY <1>2, EmptyJoins
        <5> QED
          BY <1>4, <1>6, <4>1, <5>1
      <4>2. CASE q # Empty
        <5>1. has_prefix(q \o d, q)
          BY <1>2, JoinSplit
        <5>2. q \in Full /\ has_prefix(Slash, q)
          BY <1>2, <1>4, <1>6, <4>2, <5>1 DEF Full
        <5>3. q = Slash
          BY <5>2, PrefixOfSlash
        <5>4. Joins(c, q, d) /\ Len(d) \in Nat
          BY <1>2, <1>4, Joined
        <5>5. Len(c) = Len(q) + Len(d)
          BY <5>4 DEF Joins
        <5>6. PICK n : n = Len(d)
          OBVIOUS
        <5>7. 1 = 1 + n /\ n \in Nat
          BY <1>6, <5>3, <5>4, <5>5, <5>6, EmptyFacts
        <5>8. n = 0
          BY <5>7
        <5> QED
          BY <1>2, <2>2, <5>6, <5>8, EmptyFacts
      <4> QED
        BY <4>1, <4>2
    <3>2. w = a \o Slash
      BY <1>3, <1>5, <2>2, <3>1
    <3> QED
      BY <1>2, <1>3, <3>2 DEF Slashed
  <2> QED
    BY <2>1, <2>2
<1>7. CASE NoLinks(b, r, c)
  <2>1. NoLinks(b, r, q \o d)
    BY <1>4, <1>7
  <2>2. Straight(a \o d)
    BY <1>2, <2>1, LeadsStraight
  <2> QED
    BY <1>3, <1>4, <1>5, <2>2
<1> QED
  BY <1>6, <1>7 DEF Seen

(* What the guest sees as /proc/self the host has as /proc/self, and in    *)
(* just these words.                                                       *)
LEMMA MapSelf ==
    ASSUME NEW b \in Seq(BindingType), NEW r \in Text, Ordinary(b, r), NEW c \in Text, Bare(c),
           Path(map_to_host(b, r, c)) = Self
    PROVE  UnderProc(map_to_host(b, r, c))
<1>1. PICK q, a, d \in Text : Straight(a) /\ Tops(q, d, c) /\ Leads(b, r, q, a, d)
  BY MapLeads
<1>2. PICK w, x : w = map_to_host(b, r, c) /\ x = a \o d
  OBVIOUS
<1>3. x \in Text /\ Joins(c, q, d) /\ c = q \o d
  BY <1>1, <1>2, Joined DEF Tops
<1>4. Slashed(w, x)
  <2>1. Tops(a, d, x)
    BY <1>2 DEF Tops
  <2> QED
    BY <1>1, <1>2, <2>1, LeadsTo
<1>5. Bare(a)
  BY <1>1, ProperBare DEF Straight
<1>6. Bare(d)
  BY <1>1, <1>3, BareJoin
<1>7. Bare(x)
  BY <1>1, <1>2, <1>5, <1>6, BareJoin
<1>8. Path(w) = OrSlash(x)
  BY <1>3, <1>4, <1>7, PathOf DEF Slashed
<1>9. OrSlash(x) = Self
  BY <1>2, <1>8
<1>10. PICK e : e = "proc"
  OBVIOUS
<1>11. PICK f : f = "self"
  OBVIOUS
<1>12. Self = << e, f >>
  BY <1>10, <1>11 DEF Self
<1>13. Len(<< e, f >>) = 2 /\ << e, f >>[1] = e
  OBVIOUS
<1>14. Len(Self) = 2 /\ Self[1] = e
  BY <1>12, <1>13
<1>15. x = Self
  <2>1. Self # Slash
    <3>1. Len(Slash) = 1
      BY EmptyFacts
    <3>2. 2 # 1
      OBVIOUS
    <3> QED
      BY <1>14, <3>1, <3>2, Zenon
  <2> QED
    BY <1>9, <2>1 DEF OrSlash
<1>16. Len(w) > 1 /\ w[1] = e
  <2>1. CASE w = x
    <3>1. Len(w) = 2 /\ w[1] = e
      BY <1>14, <1>15, <2>1, Zenon
    <3> QED
      BY <3>1
  <2>2. CASE w = x \o Slash
    <3>1. Joins(w, x, Slash)
      BY <1>3, <2>2, EmptyFacts, Joined
    <3>2. Len(w) = Len(x) + Len(Slash) /\ \A i \in 1 .. Len(x) : w[i] = x[i]
      BY <3>1 DEF Joins
    <3>3. Len(x) = 2 /\ Len(Slash) = 1 /\ x[1] = e
      BY <1>14, <1>15, EmptyFacts
    <3> QED
      BY <3>2, <3>3
  <2> QED
    BY <1>4, <2>1, <2>2 DEF Slashed
<1> QED
  BY <1>2, <1>10, <1>16 DEF UnderProc

LEMMA Pushed ==
    ASSUME NEW u \in Text, NEW n \in STRING
    PROVE  /\ Append(u, n) \in Text /\ Len(Append(u, n)) = Len(u) + 1 /\ Append(u, n)[Len(u) + 1] = n
           /\ \A i \in 1 .. Len(u) : Append(u, n)[i] = u[i]
           /\ \A i \in 0 .. Len(u) : SubSeq(Append(u, n), 1, i) = SubSeq(u, 1, i)
           /\ SubSeq(Append(u, n), 1, Len(u) + 1) = Append(u, n) /\ Front(Append(u, n)) = u
<1>1. PICK w, L : w = Append(u, n) /\ L = Len(u)
  OBVIOUS
<1>2. L \in Nat /\ \A i \in 1 .. L : u[i] \in STRING
  BY <1>1, LenProperties, ElementOfSeq DEF Text
<1>3. w \in Text /\ Len(w) = L + 1 /\ w[L + 1] = n /\ \A i \in 1 .. L : w[i] = u[i]
  BY <1>1, AppendProperties, ZenonT(30) DEF Text
<1>4. ASSUME NEW i \in 0 .. L PROVE SubSeq(w, 1, i) = SubSeq(u, 1, i)
  <2>1. PICK x, y : x = SubSeq(w, 1, i) /\ y = SubSeq(u, 1, i)
    OBVIOUS
  <2>2. \A j \in 1 .. L + 1 : w[j] \in STRING
    BY <1>2, <1>3, ElementOfSeq DEF Text
  <2>3. x \in Seq(STRING) /\ Len(x) = i /\ \A j \in 1 .. i : x[j] = w[j]
    BY <1>2, <1>3, <1>4, <2>1, <2>2 DEF Text
  <2>4. y \in Seq(STRING) /\ Len(y) = i /\ \A j \in 1 .. i : y[j] = u[j] /\ j \in 1 .. L
    BY <1>1, <1>2, <1>4, <2>1 DEF Text
  <2>5. \A j \in 1 .. i : x[j] = y[j]
    BY <1>3, <2>3, <2>4
  <2>6. x = y
    BY <2>3, <2>4, <2>5, SeqEqual
  <2> QED
    BY <2>1, <2>6
<1>5. SubSeq(w, 1, L + 1) = w
  BY <1>3, InitialIs
<1>6. Front(w) = u
  <2>1. Len(w) - 1 = L /\ L \in 0 .. L
    BY <1>2, <1>3
  <2>2. SubSeq(w, 1, L) = SubSeq(u, 1, L)
    BY <1>4, <2>1
  <2>3. SubSeq(u, 1, L) = u
    BY <1>1, InitialIs
  <2> QED
    BY <2>1, <2>2, <2>3 DEF Front
<1> QED
  BY <1>1, <1>3, <1>4, <1>5, <1>6

(* The walk goes back, or one name on. *)
LEMMA BackFromHere ==
    ASSUME NEW c \in Full, NEW n \in STRING
    PROVE  pop_component(push_component(c, n)) = c
<1>1. c \in Text /\ c # Empty /\ Unslashed(c) \in Text
  BY PathOps DEF Full
<1>2. Front(Append(Unslashed(c), n)) = Unslashed(c)
  BY <1>1, Pushed
<1>3. OrSlash(Unslashed(c)) = c
  BY <1>1, EmptyFacts DEF OrSlash, Unslashed
<1> QED
  BY <1>2, <1>3 DEF pop_component, push_component

LEMMA SeenUnslashed ==
    ASSUME NEW b, NEW r, NEW c \in Full, Seen(b, r, c)
    PROVE  Unslashed(c) \in Text /\ NoLinks(b, r, Unslashed(c))
<1>1. c \in Text
  BY DEF Full
<1>2. CASE c = Slash
  <2>1. Unslashed(c) = Empty
    BY <1>2 DEF Unslashed
  <2>2. PICK n : n = Len(Empty)
    OBVIOUS
  <2>3. n = 0
    BY <2>2, EmptyFacts
  <2>4. 1 .. n = {}
    BY <2>3
  <2>5. NoLinks(b, r, Empty)
    BY <2>2, <2>4, Zenon DEF NoLinks
  <2> QED
    BY <2>1, <2>5, EmptyFacts
<1>3. CASE c # Slash
  BY <1>1, <1>3 DEF Unslashed, Seen
<1> QED
  BY <1>2, <1>3

LEMMA SeenBare ==
    ASSUME NEW b, NEW r, NEW c \in Text, NoLinks(b, r, c)
    PROVE  Bare(c)
BY ProperBare DEF NoLinks

LEMMA HereBare ==
    ASSUME NEW b, NEW r, NEW c \in Full, Seen(b, r, c), NEW n \in STRING, Proper(n)
    PROVE  push_component(c, n) \in Text /\ Bare(push_component(c, n))
<1>1. PICK u, L, here : u = Unslashed(c) /\ L = Len(u) /\ here = push_component(c, n)
  OBVIOUS
<1>2. u \in Text /\ Bare(u) /\ L \in Nat
  BY <1>1, SeenUnslashed, SeenBare, PathOps
<1>3. here = Append(u, n)
  BY <1>1 DEF push_component
<1>4. here \in Text /\ Len(here) = L + 1 /\ here[L + 1] = n /\ \A i \in 1 .. L : here[i] = u[i]
  <2>1. PICK w : w = Append(u, n)
    OBVIOUS
  <2>2. w \in Text /\ Len(w) = L + 1 /\ w[L + 1] = n /\ \A i \in 1 .. L : w[i] = u[i]
    <3>1. u \in Text /\ L = Len(u)
      BY <1>1, <1>2
    <3> QED
      BY <2>1, <3>1, Pushed
  <2> QED
    BY <1>3, <2>1, <2>2
<1>5. PICK e : e = ""
  OBVIOUS
<1>6. n # e /\ \A i \in 1 .. L : u[i] # e
  BY <1>1, <1>2, <1>5, Zenon DEF Bare, Proper
<1>7. \A i \in 1 .. L + 1 : i = L + 1 \/ i \in 1 .. L
  BY <1>2
<1>8. \A i \in 1 .. Len(here) : here[i] # e
  BY <1>4, <1>6, <1>7
<1> QED
  BY <1>1, <1>4, <1>5, <1>8, Zenon DEF Bare

LEMMA SeenOn ==
    ASSUME NEW b, NEW r, NEW c \in Full, Seen(b, r, c), NEW n \in STRING, Proper(n),
           ~IsLink(Path(map_to_host(b, r, push_component(c, n))))
    PROVE  Seen(b, r, push_component(c, n))
<1>1. PICK u, w, L : u = Unslashed(c) /\ w = Append(u, n) /\ L = Len(u)
  OBVIOUS
<1>2. u \in Text /\ NoLinks(b, r, u) /\ L \in Nat
  BY <1>1, SeenUnslashed, PathOps
<1>3. /\ w \in Text /\ Len(w) = L + 1 /\ w[L + 1] = n
      /\ \A i \in 1 .. L : w[i] = u[i]
      /\ \A i \in 0 .. L : SubSeq(w, 1, i) = SubSeq(u, 1, i)
      /\ SubSeq(w, 1, L + 1) = w
  BY <1>1, <1>2, Pushed
<1>4. push_component(c, n) = w /\ w \in Full
  BY <1>1, PathOps DEF push_component, Full
<1>5. ASSUME NEW i \in 1 .. L + 1
      PROVE  Proper(w[i]) /\ ~IsLink(Path(map_to_host(b, r, SubSeq(w, 1, i))))
  <2>1. CASE i = L + 1
    BY <1>3, <1>4, <2>1
  <2>2. CASE i # L + 1
    <3>1. i \in 1 .. L /\ i \in 0 .. L
      BY <1>2, <1>5, <2>2
    <3>2. SubSeq(w, 1, i) = SubSeq(u, 1, i) /\ w[i] = u[i]
      BY <1>3, <3>1
    <3>3. Proper(u[i]) /\ ~IsLink(Path(map_to_host(b, r, SubSeq(u, 1, i))))
      BY <1>1, <1>2, <3>1 DEF NoLinks
    <3> QED
      BY <3>2, <3>3
  <2> QED
    BY <2>1, <2>2
<1>6. NoLinks(b, r, w)
  BY <1>3, <1>5 DEF NoLinks
<1> QED
  BY <1>4, <1>6 DEF Seen

LEMMA SeenUp ==
    ASSUME NEW b, NEW r, NEW c \in Full, Seen(b, r, c)
    PROVE  Seen(b, r, pop_component(c))
<1>1. c \in Text /\ c # Empty
  BY DEF Full
<1>2. PICK L, f : L = Len(c) /\ f = Front(c)
  OBVIOUS
<1>3. L \in Nat /\ L # 0 /\ L - 1 \in 0 .. L /\ L - 1 \in Nat
  <2>1. L \in Nat /\ L # 0
    BY <1>1, <1>2, PathOps, EmptyFacts
  <2> QED
    BY <2>1
<1>4. f = SubSeq(c, 1, L - 1)
  BY <1>2 DEF Front
<1>5. \A i \in 1 .. L : c[i] \in STRING
  BY <1>1, <1>2, ElementOfSeq DEF Text
<1>6. f \in Text /\ Len(f) = L - 1 /\ \A i \in 1 .. L - 1 : f[i] = c[i]
  BY <1>1, <1>2, <1>3, <1>4, <1>5 DEF Text
<1>7. CASE f = Empty
  BY <1>2, <1>7 DEF pop_component, OrSlash, Seen
<1>8. CASE f # Empty
  <2>1. c # Slash
    <3>1. Len(f) # 0
      BY <1>6, <1>8, EmptyFacts
    <3>2. L # 1
      BY <1>3, <1>6, <3>1
    <3> QED
      BY <1>2, <3>2, EmptyFacts
  <2>2. NoLinks(b, r, c)
    BY <2>1 DEF Seen
  <2>3. PICK K : K = L - 1
    OBVIOUS
  <2>4. ASSUME NEW i \in 1 .. K
        PROVE  Proper(f[i]) /\ ~IsLink(Path(map_to_host(b, r, SubSeq(f, 1, i))))
    <3>1. i \in 1 .. L /\ i \in 1 .. L - 1
      BY <1>3, <2>3, <2>4
    <3>2. SubSeq(f, 1, i) = SubSeq(c, 1, i)
      <4>1. PICK d \in Text : c = f \o d
        <5>1. has_prefix(c, f)
          BY <1>2, <1>3, <1>6, LenProperties DEF has_prefix, IsPrefix, Text
        <5> QED
          BY <1>1, <1>6, <5>1, PrefixSplit
      <4>2. i \in 1 .. Len(f)
        BY <1>6, <3>1
      <4>3. SubSeq(f \o d, 1, i) = SubSeq(f, 1, i)
        BY <1>6, <4>1, <4>2, InitialJoin
      <4> QED
        BY <4>1, <4>3
    <3>3. Proper(c[i]) /\ ~IsLink(Path(map_to_host(b, r, SubSeq(c, 1, i))))
      BY <1>2, <2>2, <3>1 DEF NoLinks
    <3> QED
      BY <1>6, <3>1, <3>2, <3>3
  <2>5. NoLinks(b, r, f)
    BY <1>6, <2>3, <2>4 DEF NoLinks
  <2> QED
    BY <1>2, <1>6, <1>8, <2>5 DEF pop_component, OrSlash, Seen, Full
<1> QED
  BY <1>7, <1>8

-----------------------------------------------------------------------------
(* The tracking invariant: what is left to walk, from where the walk has   *)
(* got to, resolves to what the whole path does, with the symlinks left    *)
(* that have not been followed yet; and no symlink lies behind.            *)
Tracks(b, r, w) ==
    w.stop \in {"no", "end"} /\ Ordinary(b, r) =>
        /\ Seen(b, r, w.cur)
        /\ Res("guest", b, r, MAX_SYMLINK_HOPS, Slash, w.given)
             = Res("guest", b, r, MAX_SYMLINK_HOPS - w.hops, w.cur, w.rest)
        /\ w.hops <= MAX_SYMLINK_HOPS /\ (w.stop = "end" => w.rest = Empty)

TInv == call # Idle => Tracks(binds, root[call.p], walk)

LEMMA Names3 == \A n \in STRING : (n # "" => Still(n) \/ Up(n) \/ Proper(n)) /\ (Up(n) <=> n = "..")
                                  /\ (n = "." => Still(n))
BY Zenon DEF Still, Up, Proper

LEMMA CompNamed ==
    ASSUME NEW s \in Text, SkipSlashes(s) # Empty
    PROVE  Head(SkipSlashes(s)) # ""
<1>1. PICK k : Skips(s, k)
  BY SkipIs
<1>2. PICK L, d : L = Len(s) /\ d = SkipSlashes(s)
  OBVIOUS
<1>3. k \in 0 .. L /\ d = Drop(s, k)
  BY <1>1, <1>2, Zenon DEF Skips
<1>4. L \in Nat /\ k \in Nat /\ k <= L
  BY <1>2, <1>3, PathOps
<1>5. k # L
  <2> SUFFICES ASSUME k = L PROVE FALSE
    OBVIOUS
  <2>1. Len(d) = L - k /\ d \in Text
    BY <1>2, <1>3, <1>4, DropIs
  <2>2. Len(d) = 0
    BY <1>4, <2>1
  <2> QED
    BY <1>2, <2>1, <2>2, EmptyFacts
<1>6. Head(d) = s[k + 1]
  <2>1. k < Len(s)
    BY <1>2, <1>4, <1>5
  <2> QED
    BY <1>3, <1>4, <2>1, DropNext
<1>7. k = L \/ s[k + 1] # ""
  BY <1>1, <1>2, Zenon DEF Skips
<1> QED
  BY <1>2, <1>5, <1>6, <1>7, Zenon

LEMMA TracksFrom ==
    ASSUME NEW b, NEW r, NEW g \in Full, NEW f, NEW p \in Procs
    PROVE  Tracks(b, r, Translate(p, g, f))
<1>1. PICK t : t = EndsInSlash(g)
  OBVIOUS
<1>2. PICK w : w = Walk(g, f)
  OBVIOUS
<1>3. w = [given |-> g, follow |-> f, cur |-> Slash, rest |-> g, trail |-> t, hops |-> 0, stop |-> "no"]
  BY <1>1, <1>2, Zenon DEF Walk
<1>4. PICK N : N = MAX_SYMLINK_HOPS
  OBVIOUS
<1>5. N - 0 = N
  BY <1>4, BoundsAssumption
<1>6. w.cur = Slash /\ w.given = g /\ w.rest = g /\ w.hops = 0 /\ w.stop = "no"
  BY <1>3
<1>7. Tracks(b, r, w)
  BY <1>4, <1>5, <1>6, SomeHops DEF Tracks, Seen
<1>8. [w EXCEPT !.cur = g, !.rest = Empty, !.stop = "asis"].stop = "asis"
  BY <1>3
<1>9. Tracks(b, r, [w EXCEPT !.cur = g, !.rest = Empty, !.stop = "asis"])
  BY <1>8 DEF Tracks
<1> QED
  BY <1>2, <1>7, <1>9 DEF Translate

(* One turn of the loop, on the walk as a record. *)
LEMMA TrackTurn ==
    ASSUME NEW b, NEW r, NEW w, NEW v, Ordinary(b, r) => Seen(b, r, v.cur),
           v.given = w.given, w.stop = "no", v.stop \in {"no", "end"},
           v.stop = "end" => v.rest = Empty, v.hops <= MAX_SYMLINK_HOPS, Tracks(b, r, w),
           Res("guest", b, r, MAX_SYMLINK_HOPS - w.hops, w.cur, w.rest)
             = Res("guest", b, r, MAX_SYMLINK_HOPS - v.hops, v.cur, v.rest)
    PROVE  Tracks(b, r, v)
BY DEF Tracks

LEMMA TrackStop ==
    ASSUME NEW b, NEW r, NEW v, v.stop \notin {"no", "end"}
    PROVE  Tracks(b, r, v)
BY DEF Tracks

LEMMA TurnTracks ==
    ASSUME BindsOK, PlacesOK, Busy, WalkStep, Tracks(binds, root[call.p], walk)
    PROVE  Tracks(binds, root[call.p], walk')
<1>1. /\ walk \in WalkType /\ walk.cur \in Full /\ walk.cur \in Text /\ walk.rest \in Text
      /\ walk.given \in Full /\ walk.hops \in Nat
  <2>1. walk \in WalkType
    BY DEF Busy
  <2>2. walk.hops \in 0 .. MAX_SYMLINK_HOPS + 1
    BY <2>1 DEF WalkType
  <2>3. walk.hops \in Nat
    BY <2>2, BoundsAssumption
  <2> QED
    BY <2>1, <2>3 DEF WalkType, Full
<1>2. walk.stop = "no"
  BY DEF WalkStep, WalkEnd, WalkDot, WalkDotDot, WalkTooLong, WalkLast, WalkProc, WalkPlain,
         WalkLoop, WalkLink, AtLink, Checked, AtName, Walking
<1>3. PICK b, r : b = binds /\ r = root[call.p]
  OBVIOUS
<1>4. b \in Seq(BindingType) /\ r \in Text
  BY <1>3, DirsTyped DEF BindsOK, PlacesOK, Busy, CallType
<1>5. PICK l : l = MAX_SYMLINK_HOPS - walk.hops
  OBVIOUS
<1>6. l \in Nat /\ walk.hops <= MAX_SYMLINK_HOPS
  <2>1. walk.hops <= MAX_SYMLINK_HOPS
    BY <1>2 DEF Busy
  <2> QED
    BY <1>1, <1>5, <2>1, BoundsAssumption
<1>7. PICK c, rest : c = walk.cur /\ rest = Rest
  OBVIOUS
<1>8. c \in Full /\ c \in Text /\ rest \in Text
  BY <1>1, <1>7, SkipTyped DEF Rest
<1>9. "guest" \in Who
  BY DEF Who
<1>10. Res("guest", b, r, l, c, walk.rest) = Res("guest", b, r, l, c, rest)
  BY <1>1, <1>6, <1>7, <1>8, <1>9, ResSkip DEF Rest
<1>11. Tracks(b, r, walk)
  BY <1>3
<1>12. Ordinary(b, r) => Seen(b, r, c)
  BY <1>2, <1>7, <1>11 DEF Tracks
<1>13. ASSUME NEW v, v.given = walk.given, v.stop \in {"no", "end"}, v.stop = "end" => v.rest = Empty,
              v.hops <= MAX_SYMLINK_HOPS, Ordinary(b, r) => Seen(b, r, v.cur),
              Res("guest", b, r, l, c, rest) = Res("guest", b, r, MAX_SYMLINK_HOPS - v.hops, v.cur, v.rest)
       PROVE  Tracks(b, r, v)
  <2>1. Res("guest", b, r, MAX_SYMLINK_HOPS - walk.hops, walk.cur, walk.rest)
          = Res("guest", b, r, MAX_SYMLINK_HOPS - v.hops, v.cur, v.rest)
    BY <1>5, <1>7, <1>10, <1>13
  <2> QED
    BY <1>2, <1>11, <1>13, <2>1, TrackTurn
<1>14. CASE WalkEnd
  <2>1. walk' = [walk EXCEPT !.rest = Empty, !.stop = "end"] /\ rest = Empty
    BY <1>7, <1>14 DEF WalkEnd
  <2>2. /\ walk'.rest = Empty /\ walk'.stop = "end" /\ walk'.cur = c /\ walk'.hops = walk.hops
        /\ walk'.given = walk.given
    BY <1>1, <1>7, <2>1 DEF WalkType
  <2>3. Tracks(b, r, walk')
    BY <1>5, <1>6, <1>12, <1>13, <2>1, <2>2
  <2> QED
    BY <1>3, <2>3
<1>15. CASE Rest # Empty
  <2>1. PICK n, t : n = Comp /\ t = Ahead
    OBVIOUS
  <2>2. n \in STRING /\ t \in Text /\ n = Head(rest) /\ t = Tail(rest) /\ rest # Empty
    BY <1>7, <1>15, <2>1, TurnTyped DEF Comp, Ahead
  <2>3. n # ""
    BY <1>1, <1>7, <1>15, <2>2, CompNamed DEF Rest
  <2>4. CASE WalkDot
    <3>1. walk' = [walk EXCEPT !.rest = t] /\ n = "."
      BY <2>1, <2>4 DEF WalkDot
    <3>2. /\ walk'.rest = t /\ walk'.stop = "no" /\ walk'.cur = c /\ walk'.hops = walk.hops
          /\ walk'.given = walk.given
      BY <1>1, <1>2, <1>7, <3>1 DEF WalkType
    <3>3. Still(Head(rest))
      BY <2>2, <3>1, Names3
    <3>4. Res("guest", b, r, l, c, rest) = Res("guest", b, r, l, c, t)
      BY <1>6, <1>8, <1>9, <2>2, <3>3, ResDot
    <3>5. Tracks(b, r, walk')
      BY <1>5, <1>6, <1>12, <1>13, <3>2, <3>4
    <3> QED
      BY <1>3, <3>5
  <2>5. CASE WalkDotDot
    <3>1. PICK up : up = pop_component(c)
      OBVIOUS
    <3>2. walk' = [walk EXCEPT !.rest = t, !.cur = up] /\ n = ".."
      BY <1>1, <1>7, <2>1, <2>5, <3>1 DEF WalkDotDot, WalkType
    <3>3. /\ walk'.rest = t /\ walk'.stop = "no" /\ walk'.cur = up /\ walk'.hops = walk.hops
          /\ walk'.given = walk.given
      BY <1>1, <1>2, <3>2 DEF WalkType
    <3>4. Up(Head(rest))
      BY <2>2, <3>2, Names3
    <3>5. Res("guest", b, r, l, c, rest) = Res("guest", b, r, l, up, t)
      BY <1>6, <1>8, <1>9, <2>2, <3>1, <3>4, ResDotDot
    <3>6. Ordinary(b, r) => Seen(b, r, up)
      BY <1>8, <1>12, <3>1, SeenUp
    <3>7. Tracks(b, r, walk')
      BY <1>5, <1>6, <1>13, <3>3, <3>5, <3>6
    <3> QED
      BY <1>3, <3>7
  <2>6. CASE WalkTooLong \/ WalkLast \/ WalkProc \/ WalkLoop
    <3>1. walk'.stop \in {"long", "last", "proc", "loop"}
      BY <1>1, <2>6 DEF WalkTooLong, WalkLast, WalkProc, WalkLoop, WalkType
    <3>2. walk'.stop \notin {"no", "end"}
      BY <3>1
    <3> QED
      BY <3>2, TrackStop
  <2>7. PICK here, f : here = push_component(c, n) /\ f = Path(map_to_host(b, r, here))
    OBVIOUS
  <2>8. Here = here /\ Path(Host) = f /\ Host = map_to_host(b, r, here)
    BY <1>3, <1>7, <2>1, <2>7 DEF Here, Host
  <2>9. AtName => Proper(n)
    BY <2>1, <2>3, Zenon DEF AtName, Proper
  <2>10. CASE WalkPlain
    <3>1. walk' = [walk EXCEPT !.rest = t, !.cur = here] /\ ~IsLink(f) /\ Proper(n)
      BY <2>1, <2>8, <2>9, <2>10 DEF WalkPlain, Checked
    <3>2. /\ walk'.rest = t /\ walk'.stop = "no" /\ walk'.cur = here /\ walk'.hops = walk.hops
          /\ walk'.given = walk.given
      BY <1>1, <1>2, <3>1 DEF WalkType
    <3>3. Res("guest", b, r, l, c, rest) = Res("guest", b, r, l, here, t)
      BY <1>6, <1>8, <1>9, <2>2, <2>7, <3>1, ResName
    <3>4. Ordinary(b, r) => Seen(b, r, here)
      BY <1>8, <1>12, <2>2, <2>7, <3>1, SeenOn
    <3>5. Tracks(b, r, walk')
      BY <1>5, <1>6, <1>13, <3>2, <3>3, <3>4
    <3> QED
      BY <1>3, <3>5
  <2>11. CASE WalkLink
    <3>1. IsLink(f) /\ Proper(n) /\ ~UnderProc(map_to_host(b, r, here)) /\ walk.hops + 1 <= MAX_SYMLINK_HOPS
      BY <2>8, <2>9, <2>11 DEF WalkLink, AtLink, Checked
    <3>2. PICK to, tail, end, h : /\ to = readlink("tracer", f) /\ tail = to.to \o t
                                  /\ end = EndsInSlash(tail) /\ h = walk.hops + 1
      OBVIOUS
    <3>3. pop_component(here) = c
      BY <1>8, <2>2, <2>7, BackFromHere
    <3>4. PICK at : at = IF to.abs THEN Slash ELSE c
      OBVIOUS
    <3>5. walk' = [walk EXCEPT !.cur = at, !.rest = tail, !.trail = end, !.hops = h]
      BY <1>1, <2>1, <2>8, <2>11, <3>2, <3>3, <3>4 DEF WalkLink, WalkType
    <3>6. /\ walk'.rest = tail /\ walk'.stop = "no" /\ walk'.cur = at /\ walk'.hops = h
          /\ walk'.given = walk.given
      BY <1>1, <1>2, <3>5 DEF WalkType
    <3>7. CASE ~Ordinary(b, r)
      BY <1>3, <3>7 DEF Tracks
    <3>8. CASE Ordinary(b, r)
      <4>1. here \in Text /\ Bare(here)
        BY <1>8, <1>12, <2>2, <2>7, <3>1, <3>8, HereBare
      <4>2. f # Self
        BY <1>4, <2>7, <3>1, <3>8, <4>1, MapSelf
      <4>3. to = readlink("guest", f)
        BY <3>2, <4>2 DEF readlink
      <4>4. l # 0 /\ l - 1 = MAX_SYMLINK_HOPS - h
        BY <1>1, <1>5, <1>6, <3>1, <3>2, BoundsAssumption, SMTT(30)
      <4>5. Res("guest", b, r, l, c, rest) = Res("guest", b, r, l - 1, at, tail)
        BY <1>6, <1>8, <1>9, <2>2, <2>7, <3>1, <3>2, <3>4, <4>3, <4>4, ResLink
      <4>6. Seen(b, r, at)
        BY <1>12, <3>4, <3>8 DEF Seen
      <4>7. Tracks(b, r, walk')
        BY <1>13, <3>1, <3>2, <3>6, <4>4, <4>5, <4>6
      <4> QED
        BY <1>3, <4>7
    <3> QED
      BY <3>7, <3>8
  <2> QED
    BY <1>15, <2>4, <2>5, <2>6, <2>10, <2>11 DEF WalkStep, WalkEnd
<1> QED
  BY <1>14, <1>15 DEF WalkStep, WalkDot, WalkDotDot, WalkTooLong, WalkLast, WalkProc, WalkPlain,
                    WalkLoop, WalkLink, AtLink, Checked, AtName

LEMMA InitTInv == Init => TInv
BY DEF Init, TInv

LEMMA NextTInv == IInv /\ TInv /\ [Next]_vars => TInv'
<1> SUFFICES ASSUME IInv, TInv, [Next]_vars PROVE TInv'
  OBVIOUS
<1>1. BindsOK /\ PlacesOK /\ (AtRest \/ Busy)
  BY DEF IInv
<1>2. CASE UNCHANGED vars
  BY <1>2 DEF vars, TInv
<1>3. CASE WalkStep
  <2>1. Busy
    BY <1>1, <1>3 DEF AtRest, NoWalk, WalkStep, WalkEnd, WalkDot, WalkDotDot, WalkTooLong, WalkLast,
          WalkProc, WalkPlain, WalkLoop, WalkLink, AtLink, Checked, AtName, Walking
  <2>2. Tracks(binds, root[call.p], walk)
    BY <2>1, BusyIs DEF TInv
  <2>3. Tracks(binds, root[call.p], walk')
    BY <1>1, <1>3, <2>1, <2>2, TurnTracks
  <2> QED
    BY <1>3, <2>3 DEF WalkStep, TInv
<1>4. CASE Used \/ Moved \/ Rooted \/ TargetedOutside \/ Attached \/ AttachedProc \/ Detached
  <2>1. call' = Idle
    BY <1>4 DEF Used, Moved, Rooted, TargetedOutside, Attached, AttachedProc, Detached, Leave
  <2> QED
    BY <2>1 DEF TInv, Idle
<1>5. ASSUME NEW p \in Procs, NEW g, Argument(g), NEW f, Start(p, g, f), NEW b, NEW r
      PROVE  Tracks(b, r, walk')
  <2>1. PICK s \in Full : s = absolute_guest_path(p, g)
    BY <1>1, <1>5, AbsoluteTyped DEF Start
  <2>2. walk' = Translate(p, s, f)
    BY <1>5, <2>1 DEF Start
  <2> QED
    BY <2>2, TracksFrom
<1>6. CASE Targeted
  <2>1. Busy /\ call.op = "mount"
    BY <1>1, <1>6 DEF AtRest, Idle, Targeted, Stopped
  <2>2. call.source \in Sources /\ call.p \in Procs
    BY <2>1 DEF Busy, CallType
  <2>3. Argument(call.source)
    BY <2>2, GivenTyped
  <2>4. Start(call.p, call.source, TRUE)
    BY <1>6 DEF Targeted
  <2>5. \A b, r : Tracks(b, r, walk')
    BY <1>5, <2>2, <2>3, <2>4
  <2> QED
    BY <2>5 DEF TInv
<1>7. ASSUME NEW p \in Procs,
             UsePath(p) \/ Chdir(p) \/ Chroot(p) \/ Mount(p) \/ MountProc(p) \/ Umount(p)
      PROVE  TInv'
  <2>1. \E g, f : Argument(g) /\ Start(p, g, f)
    BY <1>7, GivenTyped DEF UsePath, Chdir, Chroot, Mount, MountProc, Umount, Enter
  <2>2. \A b, r : Tracks(b, r, walk')
    BY <1>5, <1>7, <2>1
  <2> QED
    BY <2>2 DEF TInv
<1>8. ASSUME NEW p \in Procs, ChdirOutside(p) \/ ChrootOutside(p) \/ CommitChroot(p)
      PROVE  TInv'
  <2>1. call = Idle /\ call' = call
    BY <1>8 DEF ChdirOutside, ChrootOutside, CommitChroot, Free
  <2> QED
    BY <2>1 DEF TInv, Idle
<1> QED
  BY <1>2, <1>3, <1>4, <1>6, <1>7, <1>8 DEF Next

(* The walk has got to the end of the path: the string it makes leads the  *)
(* kernel there.                                                           *)
LEMMA EndSlash ==
    ASSUME NEW x \in Text
    PROVE  EndsInSlash(x \o Slash) /\ Append(x, "") = x \o Slash
<1>1. PICK e : e = ""
  OBVIOUS
<1>2. Slash = << e >>
  BY <1>1 DEF Slash
<1>3. e \in STRING
  BY <1>1, Named, Zenon
<1>4. PICK w, L : w = x \o Slash /\ L = Len(x)
  OBVIOUS
<1>5. w \in Text /\ Joins(w, x, Slash) /\ L \in Nat
  BY <1>4, EmptyFacts, Joined
<1>6. Len(Slash) = 1 /\ Slash[1] = e
  BY <1>1, EmptyFacts, Zenon
<1>7. Len(w) = L + 1 /\ w[L + 1] = e /\ \A i \in 1 .. L : w[i] = x[i]
  <2>1. Len(w) = L + Len(Slash) /\ \A i \in 1 .. Len(Slash) : w[L + i] = Slash[i]
    BY <1>4, <1>5 DEF Joins
  <2>2. 1 \in 1 .. Len(Slash)
    BY <1>6
  <2> QED
    BY <1>4, <1>5, <1>6, <2>1, <2>2 DEF Joins
<1>8. w # Empty
  <2>1. Len(w) # 0
    BY <1>5, <1>7
  <2> QED
    BY <1>5, <2>1, EmptyFacts
<1>9. EndsInSlash(w)
  <2>1. Last(w) = e
    BY <1>7 DEF Last
  <2> QED
    BY <1>1, <1>8, <2>1, Zenon DEF EndsInSlash
<1>10. Append(x, e) = w
  <2>1. PICK a : a = Append(x, e)
    OBVIOUS
  <2>2. a \in Text /\ Len(a) = L + 1 /\ a[L + 1] = e /\ \A i \in 1 .. L : a[i] = x[i]
    BY <1>3, <1>4, <2>1, Pushed
  <2>3. \A i \in 1 .. L + 1 : a[i] = w[i]
    <3>1. \A i \in 1 .. L + 1 : i = L + 1 \/ i \in 1 .. L
      BY <1>5
    <3> QED
      BY <1>7, <2>2, <3>1
  <2>4. a = w
    BY <1>5, <1>7, <2>2, <2>3, SeqEqual DEF Text
  <2> QED
    BY <2>1, <2>4
<1> QED
  BY <1>1, <1>4, <1>9, <1>10, Zenon

LEMMA EndReached ==
    ASSUME BindsOK, PlacesOK, Busy, walk.stop = "end", walk.rest = Empty,
           Ordinary(binds, root[call.p]), Seen(binds, root[call.p], walk.cur)
    PROVE  Reached = Path(map_to_host(binds, root[call.p], walk.cur))
<1>1. PICK b, r, c, h : b = binds /\ r = root[call.p] /\ c = walk.cur /\ h = map_to_host(b, r, c)
  OBVIOUS
<1>2. b \in Seq(BindingType) /\ r \in Text /\ c \in Full
  BY <1>1, DirsTyped DEF BindsOK, PlacesOK, Busy, CallType, WalkType
<1>3. PICK x \in Text : Straight(x) /\ Slashed(h, x)
  <2>1. Ordinary(b, r) /\ Seen(b, r, c)
    BY <1>1
  <2> QED
    BY <1>1, <1>2, <2>1, MapStraight
<1>4. Bare(x)
  BY <1>3, ProperBare DEF Straight
<1>5. Path(h) = OrSlash(x)
  BY <1>3, <1>4, PathOf DEF Slashed
<1>6. Result = h \/ (Result = Append(h, "") /\ ~EndsInSlash(h))
  <2>1. walk.stop # "asis"
    OBVIOUS
  <2> QED
    BY <1>1, <2>1, Zenon DEF Result
<1>7. Result = x \/ Result = x \o Slash
  <2>1. EndsInSlash(x \o Slash) /\ Append(x, "") = x \o Slash
    BY <1>3, EndSlash
  <2> QED
    BY <1>3, <1>6, <2>1, Zenon DEF Slashed
<1>8. PICK z \in Text : Result = x \o z /\ Leading(z, Len(z))
  <2>1. Leading(Empty, Len(Empty)) /\ Leading(Slash, Len(Slash))
    <3>1. PICK n, m : n = Len(Empty) /\ m = Len(Slash)
      OBVIOUS
    <3>2. n = 0 /\ m = 1
      BY <3>1, EmptyFacts
    <3>3. 1 .. n = {} /\ 1 .. m = {1}
      BY <3>2
    <3>4. Slash[1] = ""
      BY EmptyFacts, Zenon
    <3> QED
      BY <3>1, <3>3, <3>4, Zenon DEF Leading
  <2>2. x \o Empty = x /\ Empty \in Text /\ Slash \in Text
    BY <1>3, EmptyFacts, EmptyJoins
  <2> QED
    BY <1>7, <2>1, <2>2, Zenon
<1>9. "guest" \in Who /\ MAX_SYMLINK_HOPS \in Nat
  BY BoundsAssumption DEF Who
<1>10. Res("guest", << >>, Empty, MAX_SYMLINK_HOPS, Slash, x \o z) = OrSlash(x)
  BY <1>3, <1>8, <1>9, KernelWalks
<1>11. Reached = Res("guest", << >>, Empty, MAX_SYMLINK_HOPS, Slash, Result)
  BY DEF Reached, Kernel, From, Res
<1> QED
  BY <1>1, <1>5, <1>8, <1>10, <1>11, Zenon

LEMMA FrontIs ==
    ASSUME NEW s \in Text, s # Empty
    PROVE  /\ Front(s) \in Text /\ Len(Front(s)) = Len(s) - 1 /\ Len(s) \in Nat /\ Len(s) - 1 \in Nat
           /\ \A i \in 1 .. Len(s) - 1 : Front(s)[i] = s[i]
           /\ Last(s) = s[Len(s)] /\ Last(s) \in STRING
<1>1. PICK L, f : L = Len(s) /\ f = Front(s)
  OBVIOUS
<1>2. L \in Nat /\ L # 0
  BY <1>1, PathOps, EmptyFacts
<1>3. L - 1 \in Nat /\ L \in 1 .. L
  BY <1>2
<1>4. \A i \in 1 .. L : s[i] \in STRING
  BY <1>1, ElementOfSeq DEF Text
<1>5. f = SubSeq(s, 1, L - 1)
  BY <1>1 DEF Front
<1>6. f \in Text /\ Len(f) = L - 1 /\ \A i \in 1 .. L - 1 : f[i] = s[i]
  BY <1>1, <1>2, <1>3, <1>4, <1>5 DEF Text
<1>7. Last(s) = s[L] /\ s[L] \in STRING
  BY <1>1, <1>3, <1>4 DEF Last
<1> QED
  BY <1>1, <1>2, <1>3, <1>6, <1>7

-----------------------------------------------------------------------------
(* The guest's kernel: what it keeps is paths.                             *)
MountType == [root : Text, place : Text, on : Text, host : Text]
BaseType == [sure : BOOLEAN, place : Text, file : Text]
TargetType == [sure : BOOLEAN, place : Text, on : Text]
WInv == world \in [mounts : Seq(MountType), base : [Procs -> BaseType], target : TargetType]

LEMMA WorldIs ==
    ASSUME WInv, NEW p \in Procs
    PROVE  /\ world.base[p].place \in Text /\ world.base[p].file \in Text
           /\ world.mounts \in Seq(MountType) /\ Len(world.mounts) \in Nat
           /\ DOMAIN world.mounts = 1 .. Len(world.mounts)
           /\ \A i \in DOMAIN world.mounts :
                 /\ world.mounts[i].root \in Text /\ world.mounts[i].place \in Text
                 /\ world.mounts[i].on \in Text /\ world.mounts[i].host \in Text
<1>1. world.base[p] \in BaseType /\ world.mounts \in Seq(MountType)
  BY DEF WInv
<1>2. PICK m \in Seq(MountType) : m = world.mounts
  BY <1>1
<1>3. Len(m) \in Nat /\ DOMAIN m = 1 .. Len(m) /\ \A i \in DOMAIN m : m[i] \in MountType
  BY LenProperties, ElementOfSeq
<1> QED
  BY <1>1, <1>2, <1>3 DEF BaseType, MountType

LEMMA LatestIs ==
    ASSUME NEW S \in SUBSET Nat, S # {}, NEW n \in Nat, \A i \in S : i <= n
    PROVE  Latest(S) \in S /\ \A j \in S : j <= Latest(S)
<1>1. \E i \in S : \A j \in S : j <= i
  BY Greatest
<1> QED
  BY <1>1 DEF Latest

LEMMA TopIs ==
    ASSUME WInv, NEW p \in Procs, NEW u, Over(p, u) # {}
    PROVE  /\ Latest(Over(p, u)) \in Over(p, u) /\ \A j \in Over(p, u) : j <= Latest(Over(p, u))
           /\ Over(p, u) \subseteq DOMAIN world.mounts /\ Over(p, u) \in SUBSET Nat
<1>1. PICK S, n : S = Over(p, u) /\ n = Len(world.mounts)
  OBVIOUS
<1>2. n \in Nat /\ DOMAIN world.mounts = 1 .. n
  BY <1>1, WorldIs
<1>3. S \subseteq 1 .. n
  BY <1>1, <1>2 DEF Over
<1>4. S \in SUBSET Nat /\ \A i \in S : i <= n
  <2>1. n \in Nat
    BY <1>2
  <2> QED
    BY <1>3, <2>1
<1> QED
  BY <1>1, <1>2, <1>3, <1>4, LatestIs

LEMMA SeeTyped ==
    ASSUME WInv, NEW p \in Procs, NEW g \in Text
    PROVE  See(p, g) \in Text
<1>1. PICK u \in Text : u = Unslashed(g)
  BY PathOps
<1>2. PICK B, f \in Text : B = world.base[p].place /\ f = world.base[p].file
  BY WorldIs
<1>3. B \in Text /\ B \o u \in Text /\ Unslashed(f) \in Text
  BY <1>2, WorldIs, JoinTyped, PathOps
<1>4. OrSlash(Unslashed(f) \o u) \in Text
  BY <1>3, JoinTyped, PathOps DEF Full
<1>5. ASSUME Over(p, u) # {}
      PROVE  LET m == world.mounts[Latest(Over(p, u))]
             IN  OrSlash(Unslashed(m.host) \o Drop(B \o u, Len(m.place))) \in Text
  <2>1. PICK l \in DOMAIN world.mounts : l = Latest(Over(p, u))
    BY <1>5, TopIs
  <2>2. PICK h, q : h = world.mounts[l].host /\ q = world.mounts[l].place
    OBVIOUS
  <2>3. h \in Text /\ q \in Text
    BY <2>2, WorldIs
  <2>4. Unslashed(h) \in Text /\ Len(q) \in Nat
    BY <2>3, PathOps
  <2>5. Drop(B \o u, Len(q)) \in Text
    BY <1>3, <2>4, DropTyped
  <2>6. OrSlash(Unslashed(h) \o Drop(B \o u, Len(q))) \in Text
    BY <2>4, <2>5, JoinTyped, PathOps DEF Full
  <2> QED
    BY <2>1, <2>2, <2>6
<1> QED
  BY <1>1, <1>2, <1>4, <1>5, EmptyFacts DEF See

(* Its resolution ends as the other does.                                  *)
LEMMA FindTurnLess ==
    ASSUME NEW p, NEW x \in Points, x.todo # Empty
    PROVE  FindTurn(p, x) \in Points /\ Fewer(FindTurn(p, x), x)
<1>1. PICK file : file = See(p, There(x))
  OBVIOUS
<1>2. CASE file = Empty
  <2>1. PICK y : y = [left |-> x.left, at |-> Empty, todo |-> Empty]
    OBVIOUS
  <2>2. y \in Points /\ y.left = x.left /\ y.todo = Empty
    BY <2>1, EmptyFacts DEF Points
  <2>3. Len(x.todo) \in Nat /\ Len(x.todo) > 0 /\ Len(Empty) = 0
    BY HeadTail, EmptyFacts DEF Points
  <2>4. FindTurn(p, x) = y
    BY <1>1, <1>2, <2>1 DEF FindTurn
  <2> QED
    BY <2>2, <2>3, <2>4 DEF Fewer
<1>3. CASE file # Empty
  BY <1>1, <1>3, TurnToLess DEF FindTurn, Who
<1> QED
  BY <1>2, <1>3

LEMMA PointsInduction ==
    ASSUME NEW G, \A x \in Points : (\A y \in Points : Fewer(y, x) => y \in G) => x \in G
    PROVE  Points \subseteq G
<1> DEFINE bad == {y \in Points : y \notin G}
<1> SUFFICES ASSUME bad # {} PROVE FALSE
  OBVIOUS
<1> DEFINE N == {y.left : y \in bad}
<1>1. PICK n \in N : \A i \in N : n <= i
  <2>1. N \in SUBSET Nat /\ N # {}
    BY DEF Points
  <2> HIDE DEF N
  <2> QED
    BY <2>1, Least
<1> DEFINE M == {Len(y.todo) : y \in {z \in bad : z.left = n}}
<1>2. PICK m \in M : \A i \in M : m <= i
  <2>1. \A y \in Points : y.todo \in Text
    BY DEF Points
  <2>2. \A y \in Points : Len(y.todo) \in Nat
    BY <2>1, PathOps
  <2>3. PICK y \in bad : y.left = n
    BY <1>1
  <2>4. M \in SUBSET Nat
    BY <2>2
  <2>5. Len(y.todo) \in M
    BY <2>3
  <2> HIDE DEF M
  <2> QED
    BY <2>4, <2>5, Least
<1>3. PICK x \in bad : x.left = n /\ Len(x.todo) = m
  BY <1>2
<1>4. ASSUME NEW y \in Points, Fewer(y, x), y \in bad PROVE FALSE
  <2>1. y.left \in N /\ n <= y.left
    BY <1>1, <1>4
  <2>2. y.left \in Nat /\ y.todo \in Text /\ x.left \in Nat /\ x.todo \in Text
    BY <1>3, <1>4 DEF Points
  <2>3. Len(y.todo) \in Nat /\ Len(x.todo) \in Nat
    BY <2>2, PathOps
  <2>4. y.left = n /\ Len(y.todo) < m
    BY <1>3, <1>4, <2>1, <2>2, <2>3 DEF Fewer
  <2>5. Len(y.todo) \in M
    BY <1>4, <2>4
  <2> QED
    BY <1>2, <1>3, <2>3, <2>4, <2>5
<1> QED
  BY <1>3, <1>4

LEMMA FindIs ==
    ASSUME NEW p, NEW from \in Points
    PROVE  /\ FindFrom(p, from) \in Text
           /\ from.todo = Empty => FindFrom(p, from) = from.at
           /\ from.todo # Empty => FindFrom(p, from) = FindFrom(p, FindTurn(p, from))
<1> DEFINE T == [x \in Points |-> IF x.todo = Empty THEN x ELSE FindTurn(p, x)]
           Is(f) == f = [x \in Points |-> IF x.todo = Empty THEN x.at ELSE f[FindTurn(p, x)]]
           R == CHOOSE f : Is(f)
<1>1. Turning(T)
  <2>1. \A x \in Points : x.todo # Empty => T[x] = FindTurn(p, x)
    OBVIOUS
  <2>2. T \in [Points -> Points]
    BY FindTurnLess
  <2> HIDE DEF T
  <2> QED
    BY <2>1, <2>2, FindTurnLess DEF Turning
<1>2. PICK g : Ended(g, T)
  <2> HIDE DEF T
  <2> QED
    BY <1>1, Recursion
<1>3. Is(g)
  <2>1. \A x \in Points : x.todo # Empty => T[x] = FindTurn(p, x)
    OBVIOUS
  <2> HIDE DEF T
  <2>2. \A x \in Points : g[x] = IF x.todo = Empty THEN x.at ELSE g[FindTurn(p, x)]
    BY <1>2, <2>1 DEF Ended
  <2> QED
    BY <1>2, <2>2 DEF Ended
<1> HIDE DEF Is, T
<1>4. Is(R)
  BY <1>3
<1>5. \A x : FindFrom(p, x) = R[x]
  BY DEF FindFrom, Is, R, Points, Text
<1> HIDE DEF R
<1>6. \A x \in Points : R[x] = IF x.todo = Empty THEN x.at ELSE R[FindTurn(p, x)]
  BY <1>4 DEF Is
<1> DEFINE G == {x \in Points : R[x] \in Text}
<1>7. ASSUME NEW x \in Points, \A y \in Points : Fewer(y, x) => y \in G PROVE x \in G
  <2>1. CASE x.todo = Empty
    BY <1>6, <2>1 DEF Points
  <2>2. CASE x.todo # Empty
    <3>1. FindTurn(p, x) \in G
      BY <1>7, <2>2, FindTurnLess
    <3> QED
      BY <1>6, <2>2, <3>1
  <2> QED
    BY <2>1, <2>2
<1>8. Points \subseteq G
  <2> HIDE DEF G
  <2> QED
    BY <1>7, PointsInduction
<1> QED
  BY <1>5, <1>6, <1>8

LEMMA FindTyped ==
    ASSUME WInv, NEW p \in Procs, NEW s \in Text
    PROVE  Find(p, s) \in Text /\ Place(p, s) \in Text /\ Intended(p, s) \in Text
<1>1. PICK x : x = From(Slash, s)
  OBVIOUS
<1>2. x \in Points
  BY <1>1, BoundsAssumption, EmptyFacts DEF From, Points
<1>3. PICK g \in Text : g = Find(p, s)
  BY <1>1, <1>2, FindIs DEF Find
<1>4. See(p, g) \in Text
  BY SeeTyped
<1>5. PICK B \in Text : B = world.base[p].place
  BY WorldIs
<1>6. B \o Unslashed(g) \in Text
  BY PathOps, JoinTyped
<1> QED
  BY <1>3, <1>4, <1>5, <1>6, EmptyFacts DEF Place, Intended

LEMMA NoneTyped == NoBase \in BaseType /\ NoTarget \in TargetType
BY EmptyFacts DEF NoBase, NoTarget, BaseType, TargetType

LEMMA UnsureTyped ==
    ASSUME NEW base \in [Procs -> BaseType], NEW S
    PROVE  Unsure(base, S) \in [Procs -> BaseType]
BY NoneTyped DEF Unsure

LEMMA ForgottenTyped ==
    ASSUME Forgotten
    PROVE  WInv'
<1>1. << >> \in Seq(MountType)
  OBVIOUS
<1>2. [q \in Procs |-> NoBase] \in [Procs -> BaseType]
  BY NoneTyped
<1> QED
  BY <1>1, <1>2, NoneTyped DEF Forgotten, WInv

LEMMA RerootedTyped ==
    ASSUME WInv, NEW p \in Procs, NEW s \in Text, Rerooted(p, s)
    PROVE  WInv'
<1>1. PICK q, f \in Text : q = Place(p, s) /\ f = Intended(p, s)
  BY FindTyped
<1>2. q \in Text
  BY <1>1, FindTyped
<1>3. PICK to : to = IF Known(p, s) THEN [sure |-> TRUE, place |-> q, file |-> f] ELSE NoBase
  OBVIOUS
<1>4. to \in BaseType
  BY <1>1, <1>2, <1>3, NoneTyped DEF BaseType
<1>5. world' = [world EXCEPT !.base[p] = to]
  BY <1>1, <1>3 DEF Rerooted
<1> QED
  BY <1>4, <1>5 DEF WInv

LEMMA MountedTyped ==
    ASSUME WInv, NEW m \in MountType, MountedAt(m)
    PROVE  WInv'
<1>1. PICK mounts, base : mounts = Append(world.mounts, m) /\ base = Unsure(world.base, Within(m.place))
  OBVIOUS
<1>2. mounts \in Seq(MountType)
  BY <1>1, AppendProperties DEF WInv
<1>3. base \in [Procs -> BaseType]
  BY <1>1, UnsureTyped DEF WInv
<1>4. world' = [world EXCEPT !.mounts = mounts, !.base = base, !.target = NoTarget]
  BY <1>1 DEF MountedAt, WInv
<1> QED
  BY <1>2, <1>3, <1>4, NoneTyped DEF WInv

LEMMA MountsTyped ==
    ASSUME WInv, NEW p \in Procs, call.p = p, NEW target \in TargetType, NEW through,
           NEW host \in Text, Mounts(target, through, host)
    PROVE  WInv'
<1>1. CASE Forgotten
  BY <1>1, ForgottenTyped
<1>2. CASE world' = [world EXCEPT !.target = NoTarget]
  BY <1>2, NoneTyped DEF WInv
<1>3. PICK m : m = [root |-> world.base[call.p].place, place |-> target.place,
                    on |-> target.on, host |-> host]
  OBVIOUS
<1>4. m \in MountType
  BY <1>3, WorldIs DEF MountType, TargetType
<1>5. CASE MountedAt(m)
  BY <1>4, <1>5, MountedTyped
<1> QED
  BY <1>1, <1>2, <1>3, <1>5 DEF Mounts

LEMMA UnmountedTyped ==
    ASSUME WInv, NEW p, NEW s, UnmountedAt(p, s)
    PROVE  WInv'
<1>1. CASE Forgotten
  BY <1>1, ForgottenTyped
<1>2. CASE ~Forgotten
  <2>1. PICK M \in Seq(MountType) : M = world.mounts /\ Len(M) \in Nat /\ DOMAIN M = 1 .. Len(M)
    BY LenProperties DEF WInv
  <2>2. PICK at : at = {i \in DOMAIN M : M[i].place = Place(p, s)}
    OBVIOUS
  <2>3. PICK mounts : mounts = IF at = {} THEN M ELSE RemoveAt(M, Latest(at))
    OBVIOUS
  <2>4. PICK base : base = Unsure(world.base, IF at = {} THEN {} ELSE Within(Place(p, s)))
    OBVIOUS
  <2>5. mounts \in Seq(MountType)
    <3>1. CASE at = {}
      BY <2>3, <3>1
    <3>2. CASE at # {}
      <4>1. at \subseteq 1 .. Len(M)
        BY <2>1, <2>2
      <4>2. at \in SUBSET Nat /\ \A i \in at : i <= Len(M)
        BY <2>1, <4>1
      <4>3. Latest(at) \in 1 .. Len(M)
        BY <2>1, <3>2, <4>1, <4>2, LatestIs
      <4> QED
        BY <2>3, <3>2, <4>3, RemoveTyped
    <3> QED
      BY <3>1, <3>2
  <2>6. base \in [Procs -> BaseType]
    BY <2>4, UnsureTyped DEF WInv
  <2>7. world' = [world EXCEPT !.mounts = mounts, !.base = base]
    BY <1>2, <2>1, <2>2, <2>3, <2>4 DEF UnmountedAt, WInv
  <2> QED
    BY <2>5, <2>6, <2>7 DEF WInv
<1> QED
  BY <1>1, <1>2

LEMMA InitWInv == Init => WInv
<1> SUFFICES ASSUME Init PROVE WInv
  OBVIOUS
<1>1. PICK given \in Startup : binds = StartBinds(given)
  BY DEF Init
<1>2. PICK b \in Seq(BindingType) : b = binds
  BY <1>1, StartBindsTyped
<1>3. Len(b) \in Nat /\ DOMAIN b = 1 .. Len(b)
  BY LenProperties
<1>4. PICK M : M = [i \in DOMAIN b |-> [root |-> Empty, place |-> Unslashed(b[i].guest),
                                        on |-> b[i].mount, host |-> b[i].host]]
  OBVIOUS
<1>5. \A i \in 1 .. Len(b) : M[i] \in MountType
  <2> SUFFICES ASSUME NEW i \in 1 .. Len(b) PROVE M[i] \in MountType
    OBVIOUS
  <2>1. PICK h, g, m : h = b[i].host /\ g = b[i].guest /\ m = b[i].mount
    OBVIOUS
  <2>2. h \in Text /\ g \in Text /\ m \in Text
    BY <1>3, <2>1, BindingIs
  <2>3. M[i] = [root |-> Empty, place |-> Unslashed(g), on |-> m, host |-> h]
    BY <1>3, <1>4, <2>1
  <2>4. Unslashed(g) \in Text /\ Empty \in Text
    BY <2>2, PathOps, EmptyFacts
  <2> QED
    BY <2>2, <2>3, <2>4 DEF MountType
<1>6. M \in Seq(MountType)
  <2>1. M = [i \in 1 .. Len(b) |-> M[i]]
    BY <1>3, <1>4
  <2> QED
    BY <1>3, <1>5, <2>1
<1>7. PICK base : base = [p \in Procs |-> [sure |-> StartSure, place |-> Empty, file |-> StartRoot]]
  OBVIOUS
<1>8. base \in [Procs -> BaseType]
  <2>1. StartSure \in BOOLEAN
    BY DEF StartSure
  <2>2. StartRoot \in Text
    BY StartTyped, DirsTyped
  <2> QED
    BY <1>7, <2>1, <2>2, EmptyFacts DEF BaseType
<1>9. world = [mounts |-> M, base |-> base, target |-> NoTarget]
  BY <1>2, <1>4, <1>7 DEF Init
<1> QED
  BY <1>6, <1>8, <1>9, NoneTyped DEF WInv

LEMMA TargetTyped ==
    ASSUME WInv, Busy
    PROVE  Target \in TargetType /\ Intended(call.p, walk.given) \in Text
<1>1. PICK p \in Procs : p = call.p
  BY DEF Busy, CallType
<1>2. PICK s \in Text : s = walk.given
  BY DEF Busy, WalkType, Full
<1>3. Place(p, s) \in Text /\ Intended(p, s) \in Text
  BY FindTyped
<1> QED
  BY <1>1, <1>2, <1>3, NoneTyped DEF Target, TargetType

LEMMA NextWInv == IInv /\ WInv /\ [Next]_vars => WInv'
<1> SUFFICES ASSUME IInv, WInv, [Next]_vars PROVE WInv'
  OBVIOUS
<1>1. CASE world' = world
  BY <1>1 DEF WInv
<1>2. ASSUME NEW op, op # "idle", Stopped(op)
      PROVE  Busy /\ call.p \in Procs /\ walk.given \in Text
  <2>1. Busy
    BY <1>2 DEF IInv, AtRest, Idle, Stopped
  <2> QED
    BY <2>1 DEF Busy, CallType, WalkType, Full
<1>3. CASE Rooted
  <2>1. call.p \in Procs /\ walk.given \in Text
    BY <1>2, <1>3 DEF Rooted
  <2> QED
    BY <1>3, <2>1, RerootedTyped DEF Rooted
<1>4. CASE Targeted
  <2>1. Busy
    BY <1>2, <1>4 DEF Targeted
  <2>2. PICK t \in TargetType : t = Target
    BY <2>1, TargetTyped
  <2>3. world' = [world EXCEPT !.target = t]
    BY <1>4, <2>2 DEF Targeted
  <2> QED
    BY <2>3 DEF WInv
<1>5. CASE TargetedOutside
  BY <1>5, ForgottenTyped DEF TargetedOutside
<1>6. CASE Attached
  <2>1. Busy /\ call.p \in Procs
    BY <1>2, <1>6 DEF Attached
  <2>2. PICK host \in Text : host = Intended(call.p, walk.given)
    BY <2>1, TargetTyped
  <2>3. world.target \in TargetType
    BY DEF WInv
  <2>4. Mounts(world.target, Through, host)
    BY <1>6, <2>2 DEF Attached
  <2> QED
    BY <2>1, <2>3, <2>4, MountsTyped
<1>7. CASE AttachedProc
  <2>1. Busy /\ call.p \in Procs
    BY <1>2, <1>7 DEF AttachedProc
  <2>2. << "proc" >> \in Text
    BY NamesTyped DEF Full
  <2>3. Target \in TargetType
    BY <2>1, TargetTyped
  <2>4. Mounts(Target, TRUE, << "proc" >>)
    BY <1>7 DEF AttachedProc
  <2> QED
    BY <2>1, <2>2, <2>3, <2>4, MountsTyped
<1>8. CASE Detached
  BY <1>8, UnmountedTyped, ForgottenTyped DEF Detached
<1>9. ASSUME NEW p, ChrootOutside(p)
      PROVE  WInv'
  <2>1. PICK base : base = Unsure(world.base, {p})
    OBVIOUS
  <2>2. base \in [Procs -> BaseType]
    BY <2>1, UnsureTyped DEF WInv
  <2>3. world' = [world EXCEPT !.base = base]
    BY <1>9, <2>1 DEF ChrootOutside
  <2> QED
    BY <2>2, <2>3 DEF WInv
<1>10. WalkStep \/ Used \/ Moved => world' = world
  BY DEF WalkStep, Used, Moved
<1>11. ASSUME NEW p,
              \/ UsePath(p) \/ Chdir(p) \/ Chroot(p) \/ Mount(p) \/ MountProc(p) \/ Umount(p)
              \/ ChdirOutside(p) \/ CommitChroot(p)
       PROVE  world' = world
  BY <1>11 DEF UsePath, Chdir, Chroot, Mount, MountProc, Umount, Enter, ChdirOutside, CommitChroot
<1>12. UNCHANGED vars => world' = world
  BY DEF vars
<1> QED
  BY <1>1, <1>3, <1>4, <1>5, <1>6, <1>7, <1>8, <1>9, <1>10, <1>11, <1>12 DEF Next

LEMMA AlwaysWInv == Spec => []WInv
<1> QED
  BY InitWInv, NextWInv, AlwaysIInv, PTL DEF Spec

(* In every namespace that chroot, mount and umount can build, for any     *)
(* files, links, arguments and limits: the bindings keep their limit and   *)
(* are paths, as are the roots and working directories, and a walk has a   *)
(* place to be at and has not followed too many symlinks (path.c, mounts.c *)
(* and the list of emuroot.c).                                             *)
THEOREM TypeCorrect == Spec => []TypeOK
<1>1. IInv /\ WInv => TypeOK
  <2> SUFFICES ASSUME IInv, WInv PROVE TypeOK
    OBVIOUS
  <2>1. PICK b \in Seq(BindingType) : b = binds /\ Len(b) <= MAX_BINDINGS
    BY DEF IInv, BindsOK
  <2>2. \A i \in DOMAIN b : b[i] \in BindingType
    BY LenProperties, ElementOfSeq
  <2>3. \A i \in DOMAIN binds :
            /\ binds[i] \in [host : Seq(STRING), guest : Seq(STRING), mount : Seq(STRING)]
            /\ binds[i].host # Empty /\ binds[i].guest # Empty
    BY <2>1, <2>2 DEF BindingType, Full, Text
  <2>4. PlacesOK /\ Len(binds) <= MAX_BINDINGS
    BY <2>1 DEF IInv
  <2>5. world \in WorldType
    BY DEF WInv, WorldType, MountType, BaseType, TargetType, Text
  <2>6. CASE AtRest
    BY <2>3, <2>4, <2>6, <2>5 DEF TypeOK, AtRest, PlacesOK
  <2>7. CASE Busy
    <3>1. call # Idle /\ walk # NoWalk /\ call.p \in Procs
      BY <2>7, BusyIs
    <3>2. walk.cur \in Seq(STRING) /\ walk.cur # Empty /\ walk.hops <= MAX_SYMLINK_HOPS + 1
      BY <2>7, BusyIs DEF Full, Text
    <3> QED
      BY <2>3, <2>4, <2>5, <3>1, <3>2 DEF TypeOK, PlacesOK
  <2> QED
    BY <2>6, <2>7 DEF IInv
<1> QED
  BY <1>1, AlwaysIInv, AlwaysWInv, PTL

-----------------------------------------------------------------------------
(* What that kernel shows at a place is what the bindings and the root     *)
(* make of the guest path, where the list of bindings is its list of       *)
(* mounts and none of the known exceptions applies.                        *)
Agreed(p) ==
    WInv /\ BindsOK /\ PlacesOK /\ Ordinary(binds, root[p]) /\ Recorded(p)

(* mount i, under p's root, is at the path t from there, and t is above u *)
At(p, i, t, u) ==
    /\ t \in Text /\ t # Empty /\ has_prefix(u, t)
    /\ world.mounts[i].place = world.base[p].place \o t
    /\ Inner(p, world.mounts[i].place) = t

LEMMA PrefixJoin ==
    ASSUME NEW s \in Text, NEW t \in Text, NEW u \in Text
    PROVE  has_prefix(s \o u, s \o t) <=> has_prefix(u, t)
<1>1. ASSUME has_prefix(u, t) PROVE has_prefix(s \o u, s \o t)
  <2>1. PICK d \in Text : u = t \o d
    BY <1>1, PrefixSplit
  <2>2. (s \o t) \o d = s \o (t \o d)
    BY ConcatAssociative DEF Text
  <2>3. s \o t \in Text
    BY Joined
  <2>4. has_prefix((s \o t) \o d, s \o t)
    BY <2>3, JoinSplit
  <2> QED
    BY <2>1, <2>2, <2>4
<1>2. ASSUME has_prefix(s \o u, s \o t) PROVE has_prefix(u, t)
  <2>1. s \o t \in Text /\ s \o u \in Text
    BY Joined
  <2>2. PICK d \in Text : s \o u = (s \o t) \o d
    BY <1>2, <2>1, PrefixSplit
  <2>3. PICK e \in Text : e = t \o d
    BY Joined
  <2>4. s \o u = s \o e
    BY <2>2, <2>3, ConcatAssociative DEF Text
  <2>5. u = e
    <3>1. Drop(s \o u, Len(s)) = u /\ Drop(s \o e, Len(s)) = e
      BY <2>3, JoinSplit
    <3> QED
      BY <2>4, <3>1
  <2> QED
    BY <2>3, <2>5, JoinSplit
<1> QED
  BY <1>1, <1>2

LEMMA PrefixBare ==
    ASSUME NEW s \in Text, NEW x, Slashed(x, s), NEW q \in Text, Bare(q)
    PROVE  has_prefix(x, q) <=> has_prefix(s, q)
<1>1. x \in Text
  BY SlashedTyped
<1>2. ASSUME has_prefix(s, q) PROVE has_prefix(x, q)
  BY <1>2, PrefixLonger, EmptyFacts DEF Slashed
<1>3. ASSUME has_prefix(x, q), x = s \o Slash PROVE has_prefix(s, q)
  <2>1. has_prefix(x, s) /\ Drop(x, Len(s)) = Slash
    BY <1>3, EmptyFacts, JoinSplit
  <2>2. CASE has_prefix(q, s)
    <3>1. PICK y \in Text : q = s \o y
      BY <2>2, PrefixSplit
    <3>2. PICK d \in Text : x = q \o d
      BY <1>1, <1>3, PrefixSplit
    <3>3. PICK z \in Text : z = y \o d
      BY Joined
    <3>4. x = s \o z
      BY <3>1, <3>2, <3>3, ConcatAssociative DEF Text
    <3>5. z = Slash
      BY <2>1, <3>4, JoinSplit
    <3>6. Bare(y)
      BY <3>1, BareJoin
    <3>7. has_prefix(z, y)
      BY <3>3, JoinSplit
    <3>8. y = Empty
      <4>1. y # Empty => y = Slash
        BY <3>5, <3>7, PrefixOfSlash DEF Full
      <4> QED
        BY <3>6, <4>1, EmptyFacts
    <3>9. q = s
      BY <3>1, <3>8, EmptyJoins
    <3>10. has_prefix(s \o Empty, s) /\ s \o Empty = s
      BY EmptyFacts, EmptyJoins, JoinSplit
    <3> QED
      BY <3>9, <3>10
  <2> QED
    BY <1>1, <1>3, <2>1, <2>2, Comparable
<1> QED
  BY <1>2, <1>3 DEF Slashed

LEMMA StrictJoin ==
    ASSUME NEW s \in Text, NEW q \in Text
    PROVE  IsStrictPrefix(s, q) <=> \E t \in Text : t # Empty /\ q = s \o t
<1>1. ASSUME IsStrictPrefix(s, q) PROVE \E t \in Text : t # Empty /\ q = s \o t
  <2>1. has_prefix(q, s) /\ s # q
    BY <1>1 DEF IsStrictPrefix, has_prefix
  <2>2. PICK t \in Text : q = s \o t
    BY <2>1, PrefixSplit
  <2> QED
    BY <2>1, <2>2, EmptyJoins
<1>2. ASSUME NEW t \in Text, t # Empty, q = s \o t PROVE IsStrictPrefix(s, q)
  <2>1. has_prefix(q, s) /\ Drop(q, Len(s)) = t
    BY <1>2, JoinSplit
  <2>2. Drop(s, Len(s)) = Empty
    <3>1. s = s \o Empty
      BY EmptyJoins
    <3> QED
      BY <3>1, EmptyFacts, JoinSplit
  <2> QED
    BY <1>2, <2>1, <2>2 DEF IsStrictPrefix, has_prefix
<1> QED
  BY <1>1, <1>2

LEMMA OverIs ==
    ASSUME WInv, NEW p \in Procs, NEW u \in Text, NEW i \in DOMAIN world.mounts
    PROVE  i \in Over(p, u) <=> \E t : At(p, i, t, u)
<1>1. PICK B, q \in Text : B = world.base[p].place /\ q = world.mounts[i].place
  BY WorldIs
<1>2. B \in Text
  BY <1>1, WorldIs
<1>3. i \in Over(p, u) <=> IsStrictPrefix(B, q) /\ has_prefix(B \o u, q)
  BY <1>1 DEF Over, has_prefix
<1>4. \A t : At(p, i, t, u) <=> t \in Text /\ t # Empty /\ has_prefix(u, t) /\ q = B \o t /\ Drop(q, Len(B)) = t
  BY <1>1 DEF At, Inner
<1>5. ASSUME NEW t \in Text, t # Empty, q = B \o t
      PROVE  (has_prefix(B \o u, q) <=> has_prefix(u, t)) /\ Drop(q, Len(B)) = t
  BY <1>2, <1>5, PrefixJoin, JoinSplit
<1> QED
  BY <1>2, <1>3, <1>4, <1>5, StrictJoin

LEMMA UnslashedOne ==
    ASSUME NEW q \in Full, NEW g \in Text, Canonical(g)
    PROVE  (q = Slash \/ has_prefix(g, q)) <=> has_prefix(Unslashed(g), Unslashed(q))
<1>1. q \in Text /\ q # Empty
  BY DEF Full
<1>2. Unslashed(g) \in Text
  BY PathOps
<1>3. CASE q = Slash
  <2>1. Unslashed(q) = Empty
    BY <1>3 DEF Unslashed
  <2>2. has_prefix(Unslashed(g), Empty)
    BY <1>2, EmptyFacts, EmptyJoins, JoinSplit
  <2> QED
    BY <1>3, <2>1, <2>2
<1>4. CASE q # Slash /\ g = Slash
  <2>1. Unslashed(g) = Empty /\ Unslashed(q) = q
    BY <1>4 DEF Unslashed
  <2>2. ~has_prefix(g, q)
    BY <1>4, PrefixOfSlash
  <2>3. ~has_prefix(Empty, q)
    <3> SUFFICES ASSUME has_prefix(Empty, q) PROVE FALSE
      OBVIOUS
    <3>1. Len(q) <= Len(Empty)
      BY <1>1, EmptyFacts, PrefixShorter
    <3>2. Len(q) \in Nat /\ Len(q) # 0 /\ Len(Empty) = 0
      BY <1>1, PathOps, EmptyFacts
    <3> QED
      BY <3>1, <3>2
  <2> QED
    BY <1>4, <2>1, <2>2, <2>3
<1>5. CASE q # Slash /\ g # Slash
  BY <1>5 DEF Unslashed
<1> QED
  BY <1>3, <1>4, <1>5

LEMMA AgreedIs ==
    ASSUME NEW p \in Procs, Agreed(p)
    PROVE  /\ binds \in Seq(BindingType) /\ DOMAIN binds = DOMAIN world.mounts
           /\ root[p] \in Text /\ root[p] = world.base[p].file
           /\ Bare(root[p]) /\ Unslashed(root[p]) = root[p]
           /\ \A i \in DOMAIN binds :
                 /\ binds[i].host \in Full /\ binds[i].guest \in Full /\ binds[i].mount \in Text
                 /\ Bare(Unslashed(binds[i].host)) /\ binds[i].host = world.mounts[i].host
                 /\ binds[i].mount = world.mounts[i].on /\ Canonical(binds[i].mount)
                 /\ Unslashed(binds[i].guest) = Drop(world.mounts[i].place, Len(world.mounts[i].root))
                 /\ has_prefix(world.mounts[i].place, world.mounts[i].root)
<1>1. binds \in Seq(BindingType) /\ root[p] \in Text
  BY DirsTyped DEF Agreed, BindsOK, PlacesOK
<1>2. Bare(root[p]) /\ Unslashed(root[p]) = root[p]
  <2>1. CASE root[p] = Empty
    BY <2>1, EmptyFacts DEF Unslashed
  <2>2. CASE root[p] # Empty
    <3>1. Canonical(root[p]) /\ root[p] # Slash
      BY <2>2 DEF Agreed, Ordinary, Real
    <3> QED
      BY <1>1, <3>1, CleanIs DEF Canonical
  <2> QED
    BY <2>1, <2>2
<1>3. ASSUME NEW i \in DOMAIN binds
      PROVE  /\ binds[i].host \in Full /\ binds[i].guest \in Full /\ binds[i].mount \in Text
             /\ Bare(Unslashed(binds[i].host))
  <2>1. PICK h : h = binds[i].host
    OBVIOUS
  <2>2. h \in Text /\ Canonical(h)
    BY <1>1, <2>1, BindingIs DEF Agreed, Ordinary, Real
  <2>3. Bare(Unslashed(h))
    BY <2>2, CanonicalIs
  <2> QED
    BY <1>1, <2>1, <2>3, BindingIs
<1>4. Recorded(p)
  BY DEF Agreed
<1> QED
  BY <1>1, <1>2, <1>3, <1>4 DEF Recorded, has_prefix

(* The bindings a guest path falls under are its own mounts over it.       *)
LEMMA BoundIs ==
    ASSUME NEW p \in Procs, Agreed(p), NEW g \in Text, Canonical(g),
           ~Renamed(p, Unslashed(g)), NEW i \in DOMAIN binds
    PROVE  /\ i \in Bound(binds, g) <=> i \in Over(p, Unslashed(g)) /\ Own(p, i)
           /\ i \in Bound(binds, g) => At(p, i, Unslashed(binds[i].guest), Unslashed(g))
<1>1. PICK u \in Text : u = Unslashed(g)
  BY PathOps
<1>2. PICK B, q, o \in Text : B = world.base[p].place /\ q = world.mounts[i].place /\ o = world.mounts[i].root
  <2>1. i \in DOMAIN world.mounts
    BY AgreedIs
  <2>2. world.base[p].place \in Text /\ world.mounts[i].place \in Text /\ world.mounts[i].root \in Text
    BY <2>1, WorldIs DEF Agreed
  <2> QED
    BY <2>2
<1>3. PICK n : n = Unslashed(binds[i].guest)
  OBVIOUS
<1>4. n = Drop(q, Len(o)) /\ has_prefix(q, o) /\ binds[i].guest \in Full /\ i \in DOMAIN world.mounts
  BY <1>2, <1>3, AgreedIs
<1>5. n \in Text /\ q = o \o n /\ B \in Text /\ q \in Text /\ o \in Text
  BY <1>2, <1>4, PrefixSplit
<1>6. i \in Bound(binds, g) <=> has_prefix(u, n)
  BY <1>1, <1>3, <1>4, UnslashedOne DEF Bound
<1>7. Own(p, i) <=> o = B /\ q # o
  BY <1>2 DEF Own
<1>8. has_prefix(u, n) => Own(p, i)
  BY <1>1, <1>2, <1>4 DEF Renamed, has_prefix
<1>9. i \in Over(p, u) <=> \E t : At(p, i, t, u)
  BY <1>1, <1>4, OverIs DEF Agreed
<1>10. \A t : At(p, i, t, u) <=> t \in Text /\ t # Empty /\ has_prefix(u, t) /\ q = B \o t /\ Drop(q, Len(B)) = t
  BY <1>2 DEF At, Inner
<1>11. ASSUME Own(p, i) PROVE n # Empty /\ q = B \o n /\ Drop(q, Len(B)) = n
  <2>1. o = B /\ q # B
    BY <1>7, <1>11
  <2> QED
    BY <1>4, <1>5, <2>1, EmptyJoins
<1>12. ASSUME has_prefix(u, n) PROVE At(p, i, n, u)
  BY <1>5, <1>8, <1>10, <1>11, <1>12
<1>13. ASSUME Own(p, i), NEW t, At(p, i, t, u) PROVE has_prefix(u, n)
  BY <1>10, <1>11, <1>13
<1> QED
  BY <1>1, <1>3, <1>6, <1>8, <1>9, <1>12, <1>13

(* The mount points its host path falls under are the host paths, from the *)
(* root, of mounts over it.                                                *)
LEMMA MountedIs ==
    ASSUME NEW p \in Procs, Agreed(p), NEW g \in Text, Canonical(g),
           ~Elsewhere(p, Unslashed(g)), NEW i \in DOMAIN binds
    PROVE  /\ i \in Mounted(binds, root[p] \o g) =>
                 \E t : At(p, i, t, Unslashed(g)) /\ binds[i].mount = root[p] \o t
           /\ \A t : At(p, i, t, Unslashed(g)) /\ binds[i].mount = root[p] \o t =>
                 /\ i \in Mounted(binds, root[p] \o g)
                 /\ Length(binds[i].mount) = Len(root[p]) + Len(t)
<1>1. PICK u, r, on : u = Unslashed(g) /\ r = root[p] /\ on = binds[i].mount
  OBVIOUS
<1>2. /\ u \in Text /\ Bare(u) /\ Slashed(g, u) /\ r \in Text /\ Bare(r)
      /\ on \in Text /\ Canonical(on) /\ i \in DOMAIN world.mounts
      /\ r = world.base[p].file /\ on = world.mounts[i].on
  BY <1>1, AgreedIs, CanonicalIs
<1>3. r \o u \in Text /\ r \o g \in Text /\ Slashed(r \o g, r \o u)
  <2>1. r \o (u \o Slash) = (r \o u) \o Slash
    BY <1>2, JoinSlash
  <2> QED
    BY <1>2, <2>1, Joined DEF Slashed
<1>4. i \in Mounted(binds, r \o g) <=> Length(on) > 0 /\ has_prefix(r \o g, on)
  BY <1>1 DEF Mounted
<1>5. Length(on) > 0 <=> Clean(on)
  <2>1. CASE on = Slash
    <3>1. Length(on) = 0 /\ ~Clean(on)
      BY <1>2, <2>1, CleanIs, EmptyFacts DEF Length, Unslashed
    <3> QED
      BY <3>1
  <2>2. CASE Clean(on)
    BY <1>2, <2>2, CleanIs
  <2> QED
    BY <1>2, <2>1, <2>2 DEF Canonical
<1>6. Clean(on) => Bare(on) /\ (has_prefix(r \o g, on) <=> has_prefix(r \o u, on))
  BY <1>2, <1>3, CleanIs, PrefixBare
<1>7. ASSUME i \in Mounted(binds, r \o g)
      PROVE  \E t : At(p, i, t, u) /\ on = r \o t
  <2>1. IsPrefix(on, r \o u)
    BY <1>4, <1>5, <1>6, <1>7 DEF has_prefix
  <2>2. i \in Over(p, u) /\ on = r \o Inner(p, world.mounts[i].place)
    BY <1>1, <1>2, <2>1 DEF Elsewhere
  <2>3. PICK t : At(p, i, t, u)
    BY <1>2, <2>2, OverIs DEF Agreed
  <2> QED
    BY <2>2, <2>3 DEF At
<1>8. ASSUME NEW t, At(p, i, t, u), on = r \o t
      PROVE  i \in Mounted(binds, r \o g) /\ Length(on) = Len(r) + Len(t)
  <2>1. t \in Text /\ t # Empty /\ has_prefix(u, t)
    BY <1>8 DEF At
  <2>2. Bare(t)
    <3>1. PICK d \in Text : u = t \o d
      BY <1>2, <2>1, PrefixSplit
    <3> QED
      BY <1>2, <2>1, <3>1, BareJoin
  <2>3. Clean(on)
    <3>1. Bare(on) /\ on # Empty
      BY <1>2, <1>8, <2>1, <2>2, BareJoin, EmptyJoins
    <3> QED
      BY <1>2, <3>1, CleanIs
  <2>4. has_prefix(r \o u, on)
    BY <1>2, <1>8, <2>1, PrefixJoin
  <2>5. Length(on) = Len(on)
    BY <1>2, <2>3, CleanIs
  <2>6. Len(on) = Len(r) + Len(t)
    BY <1>2, <1>8, <2>1, Joined DEF Joins
  <2> QED
    BY <1>4, <1>5, <1>6, <2>3, <2>4, <2>5, <2>6
<1> QED
  BY <1>1, <1>7, <1>8

(* The latest mount over a path is the innermost one.                      *)
LEMMA TopInmost ==
    ASSUME NEW p \in Procs, WInv, NEW u \in Text, ~Uncovered(p, u),
           NEW l, l = Latest(Over(p, u)), NEW t, At(p, l, t, u),
           NEW i \in Over(p, u), NEW s, At(p, i, s, u)
    PROVE  Len(s) <= Len(t) /\ i <= l /\ Len(s) \in Nat /\ Len(t) \in Nat
<1>1. PICK B \in Text : B = world.base[p].place
  BY WorldIs
<1>2. PICK k, m, n : k = Len(B) /\ m = Len(s) /\ n = Len(t)
  OBVIOUS
<1>3. s \in Text /\ t \in Text /\ world.mounts[i].place = B \o s /\ world.mounts[l].place = B \o t
  BY <1>1 DEF At
<1>4. /\ Len(world.mounts[i].place) = k + m /\ Len(world.mounts[l].place) = k + n
      /\ k \in Nat /\ m \in Nat /\ n \in Nat
  BY <1>1, <1>2, <1>3, Joined DEF Joins
<1>5. l \in Over(p, u) /\ i <= l /\ i \in Nat /\ l \in Nat
  BY TopIs
<1>6. i < l => ~(Len(world.mounts[l].place) < Len(world.mounts[i].place))
  BY <1>5 DEF Uncovered
<1>7. i = l => world.mounts[i].place = world.mounts[l].place
  OBVIOUS
<1>8. ~(k + n < k + m)
  <2>1. i < l \/ i = l
    BY <1>5
  <2> QED
    BY <1>4, <1>6, <1>7, <2>1
<1> QED
  BY <1>2, <1>4, <1>5, <1>8

LEMMA SeeAtTop ==
    ASSUME NEW p \in Procs, WInv, NEW g \in Text, Vouched(p, Unslashed(g)),
           Over(p, Unslashed(g)) # {}, NEW l, l = Latest(Over(p, Unslashed(g))),
           NEW t, At(p, l, t, Unslashed(g))
    PROVE  See(p, g) = OrSlash(Unslashed(world.mounts[l].host) \o Drop(Unslashed(g), Len(t)))
<1>1. PICK u \in Text : u = Unslashed(g)
  BY PathOps
<1>2. PICK B \in Text : B = world.base[p].place
  BY WorldIs
<1>3. PICK q : q = world.mounts[l].place
  OBVIOUS
<1>4. t \in Text /\ has_prefix(u, t) /\ q = B \o t
  BY <1>1, <1>2, <1>3 DEF At
<1>5. PICK d \in Text : u = t \o d /\ Drop(u, Len(t)) = d
  BY <1>4, PrefixSplit
<1>6. q \in Text /\ B \o u = q \o d
  <2>1. (B \o t) \o d = B \o (t \o d)
    BY <1>4, <1>5, ConcatAssociative DEF Text
  <2> QED
    BY <1>4, <1>5, <2>1, Joined
<1>7. Drop(B \o u, Len(q)) = d
  BY <1>5, <1>6, JoinSplit
<1>8. See(p, g) = OrSlash(Unslashed(world.mounts[l].host) \o Drop(B \o u, Len(q)))
  BY <1>1, <1>2, <1>3 DEF See
<1> QED
  BY <1>1, <1>5, <1>7, <1>8

LEMMA SeeIsMap ==
    ASSUME NEW p \in Procs, Agreed(p), NEW g \in Text, Canonical(g), See(p, g) # Empty
    PROVE  See(p, g) = Path(map_to_host(binds, root[p], g))
<1>1. PICK u, r, b, S : u = Unslashed(g) /\ r = root[p] /\ b = binds /\ S = Over(p, u)
  OBVIOUS
<1>2. Vouched(p, u)
  BY <1>1 DEF See
<1>3. ~Renamed(p, u) /\ ~Elsewhere(p, u) /\ ~Uncovered(p, u) /\ ~Covered(p, u)
  BY <1>2 DEF Vouched
<1>4. /\ u \in Text /\ Bare(u) /\ Slashed(g, u) /\ r \in Text /\ Bare(r)
      /\ b \in Seq(BindingType) /\ DOMAIN b = DOMAIN world.mounts
      /\ r = world.base[p].file /\ Unslashed(r) = r
  BY <1>1, AgreedIs, CanonicalIs
<1>5. WInv
  BY DEF Agreed
<1>6. ASSUME NEW i \in Bound(b, g)
      PROVE  i \in S /\ Own(p, i) /\ i \in DOMAIN b /\ At(p, i, Unslashed(b[i].guest), u)
  <2>1. i \in DOMAIN b
    BY DEF Bound
  <2> QED
    BY <1>1, <1>3, <1>6, <2>1, BoundIs
<1>7. ASSUME NEW i \in Mounted(b, r \o g)
      PROVE  i \in S /\ i \in DOMAIN b
             /\ \E t : At(p, i, t, u) /\ b[i].mount = r \o t /\ Length(b[i].mount) = Len(r) + Len(t)
  <2>1. i \in DOMAIN b
    BY DEF Mounted
  <2>2. PICK t : At(p, i, t, u) /\ b[i].mount = r \o t
    BY <1>1, <1>3, <1>7, <2>1, MountedIs
  <2>3. Length(b[i].mount) = Len(r) + Len(t)
    BY <1>1, <1>3, <2>1, <2>2, MountedIs
  <2>4. i \in S
    BY <1>1, <1>4, <1>5, <2>1, <2>2, OverIs
  <2> QED
    BY <2>1, <2>2, <2>3, <2>4
<1>8. ASSUME NEW a \in Text, Bare(a), NEW d \in Text, Bare(d)
      PROVE  Path(OrSlash(a \o d)) = OrSlash(a \o d)
  <2>1. PICK x \in Text : x = a \o d /\ Bare(x)
    BY <1>8, Joined, BareJoin
  <2>2. OrSlash(x) = x \/ OrSlash(x) = x \o Slash
    BY <2>1, OrSlashed DEF Slashed
  <2> QED
    BY <2>1, <2>2, PathOf
<1>9. CASE S = {}
  <2>1. Bound(b, g) = {} /\ Mounted(b, r \o g) = {}
    BY <1>6, <1>7, <1>9
  <2>2. map_to_host(b, r, g) = r \o g
    BY <2>1 DEF map_to_host
  <2>3. Slashed(r \o g, r \o u)
    BY <1>4, JoinSlash DEF Slashed
  <2>4. r \o u \in Text /\ Bare(r \o u)
    BY <1>4, Joined, BareJoin
  <2>5. Path(r \o g) = OrSlash(r \o u)
    BY <2>3, <2>4, PathOf DEF Slashed
  <2>6. See(p, g) = OrSlash(r \o u)
    BY <1>1, <1>2, <1>4, <1>9 DEF See
  <2> QED
    BY <1>1, <2>2, <2>5, <2>6
<1>10. CASE S # {}
  <2>1. PICK l : l = Latest(S)
    OBVIOUS
  <2>2. l \in S /\ l \in DOMAIN b /\ l \in Nat
    BY <1>1, <1>4, <1>5, <1>10, <2>1, TopIs
  <2>3. PICK t : At(p, l, t, u)
    BY <1>1, <1>4, <1>5, <2>2, OverIs
  <2>4. t \in Text /\ t # Empty /\ has_prefix(u, t) /\ Len(t) \in Nat
    BY <2>3, PathOps DEF At
  <2>5. PICK d \in Text : u = t \o d /\ Drop(u, Len(t)) = d
    BY <1>4, <2>4, PrefixSplit
  <2>6. Bare(d) /\ Bare(t)
    BY <1>4, <2>4, <2>5, BareJoin
  <2>7. g = u
    <3>1. u # Empty
      BY <2>4, <2>5, EmptyJoins
    <3> QED
      BY <1>1, <3>1 DEF Unslashed
  <2>8. PICK a : a = Unslashed(b[l].host)
    OBVIOUS
  <2>9. a \in Text /\ Bare(a) /\ b[l].host = world.mounts[l].host /\ b[l].guest \in Full
    <3>1. b[l].host \in Full /\ Bare(Unslashed(b[l].host)) /\ b[l].host = world.mounts[l].host
          /\ b[l].guest \in Full
      BY <1>1, <2>2, AgreedIs
    <3> QED
      BY <2>8, <3>1, PathOps DEF Full
  <2>10. See(p, g) = OrSlash(a \o d)
    <3>1. See(p, g) = OrSlash(Unslashed(world.mounts[l].host) \o Drop(Unslashed(g), Len(t)))
      BY <1>1, <1>2, <1>5, <1>10, <2>1, <2>3, SeeAtTop
    <3>2. Unslashed(world.mounts[l].host) = a /\ Drop(Unslashed(g), Len(t)) = d
      BY <1>1, <2>5, <2>8, <2>9
    <3> QED
      BY <3>1, <3>2
  <2>11. ASSUME NEW i \in S, NEW s, At(p, i, s, u)
         PROVE  Len(s) <= Len(t) /\ i <= l /\ Len(s) \in Nat
    BY <1>1, <1>3, <1>4, <1>5, <2>1, <2>3, <2>11, TopInmost
  <2>12. CASE Own(p, l)
    <3>1. l \in Bound(b, g) /\ At(p, l, Unslashed(b[l].guest), u)
      BY <1>1, <1>3, <2>2, <2>12, BoundIs
    <3>2. Unslashed(b[l].guest) = t
      BY <2>3, <3>1 DEF At
    <3>3. ASSUME NEW i \in Bound(b, g) PROVE Length(b[i].guest) <= Len(t) /\ i <= l
      <4>1. i \in S /\ At(p, i, Unslashed(b[i].guest), u)
        BY <1>6, <3>3
      <4> QED
        BY <2>11, <4>1 DEF Length
    <3>4. Length(b[l].guest) = Len(t)
      BY <3>2 DEF Length
    <3>5. Best(Guesting(b, g), l)
      BY <3>1, <3>3, <3>4 DEF Best, Guesting
    <3>6. map_to_host(b, r, g) = Below(b[l].host, g, Len(t))
      BY <1>4, <3>4, <3>5, MapByBinding
    <3>7. map_to_host(b, r, g) = OrSlash(a \o d)
      BY <2>5, <2>7, <2>8, <3>6 DEF Below
    <3> QED
      BY <1>1, <1>8, <2>6, <2>9, <2>10, <3>7
  <2>13. CASE ~Own(p, l)
    <3>1. (\A i \in S : ~Own(p, i)) /\ world.mounts[l].on = world.base[p].file \o Inner(p, world.mounts[l].place)
      BY <1>1, <1>3, <1>10, <2>1, <2>13 DEF Covered
    <3>2. Bound(b, g) = {}
      BY <1>6, <3>1
    <3>3. b[l].mount = r \o t
      <4>1. b[l].mount = world.mounts[l].on
        BY <1>1, <2>2, AgreedIs
      <4> QED
        BY <1>4, <2>3, <3>1, <4>1 DEF At
    <3>4. l \in Mounted(b, r \o g) /\ Length(b[l].mount) = Len(r) + Len(t)
      BY <1>1, <1>3, <2>2, <2>3, <3>3, MountedIs
    <3>5. Len(r) \in Nat
      BY <1>4, PathOps
    <3>6. ASSUME NEW i \in Mounted(b, r \o g)
          PROVE  Length(b[i].mount) <= Length(b[l].mount) /\ i <= l
      <4>1. PICK s : At(p, i, s, u) /\ Length(b[i].mount) = Len(r) + Len(s) /\ i \in S
        BY <1>7, <3>6
      <4>2. Len(s) <= Len(t) /\ i <= l /\ Len(s) \in Nat
        BY <2>11, <4>1
      <4> QED
        BY <2>4, <3>4, <3>5, <4>1, <4>2
    <3>7. Best(Mounting(b, r \o g), l)
      BY <3>4, <3>6 DEF Best, Mounting
    <3>8. PICK w \in Text : w = r \o g /\ Tops(r, g, w)
      BY <1>4, <2>7, Joined DEF Tops
    <3>9. map_to_host(b, r, g) = Below(b[l].host, w, Len(b[l].mount))
      BY <1>4, <3>2, <3>7, <3>8, MapByMount
    <3>10. Drop(w, Len(b[l].mount)) = d
      <4>1. (r \o t) \o d = r \o (t \o d)
        <5>1. r \in Seq(STRING) /\ t \in Seq(STRING) /\ d \in Seq(STRING)
          BY <1>4, <2>4, <2>5 DEF Text
        <5> QED
          BY <5>1, ConcatAssociative
      <4>2. w = (r \o t) \o d /\ r \o t \in Text
        BY <1>4, <2>4, <2>5, <2>7, <3>8, <4>1, Joined
      <4>3. Drop((r \o t) \o d, Len(r \o t)) = d
        BY <2>5, <4>2, JoinSplit
      <4> QED
        BY <3>3, <4>2, <4>3
    <3>11. map_to_host(b, r, g) = OrSlash(a \o d)
      BY <2>8, <3>9, <3>10 DEF Below
    <3> QED
      BY <1>1, <1>8, <2>6, <2>9, <2>10, <3>11
  <2> QED
    BY <2>12, <2>13
<1> QED
  BY <1>9, <1>10

(* A resolution from a proper path is always at one.                       *)
LEMMA PushCanonical ==
    ASSUME NEW a \in Text, Canonical(a), NEW n \in STRING, ~Still(n)
    PROVE  push_component(a, n) \in Text /\ Canonical(push_component(a, n))
<1>1. PICK u, w, L : u = Unslashed(a) /\ w = Append(u, n) /\ L = Len(u)
  OBVIOUS
<1>2. u \in Text /\ Bare(u) /\ L \in Nat
  BY <1>1, CanonicalIs, PathOps
<1>3. w \in Text /\ Len(w) = L + 1 /\ w[L + 1] = n /\ \A i \in 1 .. L : w[i] = u[i]
  BY <1>1, <1>2, Pushed
<1>4. PICK e : e = ""
  OBVIOUS
<1>5. n # e /\ \A i \in 1 .. L : u[i] # e
  BY <1>1, <1>2, <1>4, Zenon DEF Bare, Still
<1>6. L \in Nat /\ \A i \in 1 .. L + 1 : i = L + 1 \/ i \in 1 .. L
  <2>1. L \in Nat
    BY <1>2
  <2> QED
    BY <2>1
<1>7. \A i \in 1 .. Len(w) : w[i] # e
  BY <1>3, <1>5, <1>6
<1>8. Bare(w)
  BY <1>4, <1>7, Zenon DEF Bare
<1>9. w # Empty
  <2>1. Len(w) # 0
    <3>1. Len(w) = L + 1
      BY <1>3
    <3> QED
      BY <1>6, <3>1
  <2> QED
    BY <1>3, <2>1, EmptyFacts
<1> QED
  BY <1>1, <1>3, <1>8, <1>9, CleanIs DEF push_component, Canonical

LEMMA PopCanonical ==
    ASSUME NEW a \in Text, Canonical(a)
    PROVE  pop_component(a) \in Text /\ Canonical(pop_component(a))
<1>1. PICK f, L : f = Front(a) /\ L = Len(a)
  OBVIOUS
<1>2. f \in Text /\ L \in Nat /\ Len(f) = L - 1 /\ \A i \in 1 .. L - 1 : f[i] = a[i]
  BY <1>1, CanonicalIs, FrontIs
<1>3. CASE a = Slash
  <2>1. f = Empty
    <3>1. L = 1
      BY <1>1, <1>3, EmptyFacts
    <3>2. Len(f) = L - 1 /\ f \in Text
      BY <1>2
    <3>3. Len(f) = 0
      BY <3>1, <3>2
    <3> QED
      BY <3>2, <3>3, EmptyFacts
  <2> QED
    BY <1>1, <2>1, EmptyFacts DEF pop_component, OrSlash, Canonical
<1>4. CASE Clean(a)
  <2>1. PICK e : e = ""
    OBVIOUS
  <2>2. \A i \in 1 .. L : a[i] # e
    BY <1>1, <1>4, <2>1, CleanIs, Zenon DEF Bare
  <2>3. \A i \in 1 .. L - 1 : i \in 1 .. L
    BY <1>2
  <2>4. \A i \in 1 .. Len(f) : f[i] # e
    BY <1>2, <2>2, <2>3
  <2>5. Bare(f)
    BY <2>1, <2>4, Zenon DEF Bare
  <2>6. f # Empty => Clean(f)
    BY <1>2, <2>5, CleanIs
  <2> QED
    BY <1>1, <1>2, <2>6, EmptyFacts DEF pop_component, OrSlash, Canonical
<1> QED
  BY <1>3, <1>4 DEF Canonical

LEMMA TurnToCanonical ==
    ASSUME NEW who, NEW x \in Points, x.todo # Empty, Canonical(x.at), NEW file, NEW y, y = TurnTo(who, x, file)
    PROVE  Canonical(y.at) \/ (y.at = Empty /\ y.todo = Empty)
<1>1. PICK a, n : a = x.at /\ n = Head(x.todo)
  OBVIOUS
<1>2. a \in Text /\ x.todo \in Text /\ n \in STRING
  BY <1>1, HeadTail DEF Points
<1>3. Canonical(pop_component(a)) /\ Canonical(Slash) /\ Canonical(a)
  BY <1>1, <1>2, PopCanonical DEF Canonical
<1>4. PICK t, link : t = Tail(x.todo) /\ link = readlink(who, file)
  OBVIOUS
<1>5. y = IF n \in {"", "."} THEN [left |-> x.left, at |-> a, todo |-> t]
          ELSE IF n = ".." THEN [left |-> x.left, at |-> pop_component(a), todo |-> t]
          ELSE IF ~IsLink(file) THEN [left |-> x.left, at |-> push_component(a, n), todo |-> t]
          ELSE IF x.left = 0 THEN [left |-> 0, at |-> Empty, todo |-> Empty]
          ELSE [left |-> x.left - 1, at |-> IF link.abs THEN Slash ELSE a, todo |-> link.to \o t]
  BY <1>1, <1>4 DEF TurnTo, There
<1>6. \/ y = [left |-> x.left, at |-> a, todo |-> t]
      \/ y = [left |-> x.left, at |-> pop_component(a), todo |-> t]
      \/ ~Still(n) /\ y = [left |-> x.left, at |-> push_component(a, n), todo |-> t]
      \/ y = [left |-> 0, at |-> Empty, todo |-> Empty]
      \/ y = [left |-> x.left - 1, at |-> IF link.abs THEN Slash ELSE a, todo |-> link.to \o t]
  BY <1>5 DEF Still
<1>7. ~Still(n) => Canonical(push_component(a, n))
  BY <1>1, <1>2, PushCanonical
<1> QED
  BY <1>1, <1>3, <1>6, <1>7

(* Its resolution finds what resolving by the bindings and the root does.  *)
LEMMA SameFinding ==
    ASSUME NEW p \in Procs, Agreed(p), NEW from \in Points, Canonical(from.at), FindFrom(p, from) # Empty
    PROVE  FindFrom(p, from) = Resolve("guest", binds, root[p], from)
<1> DEFINE G == {x \in Points : Canonical(x.at) /\ FindFrom(p, x) # Empty =>
                                    FindFrom(p, x) = Resolve("guest", binds, root[p], x)}
<1>0. "guest" \in Who
  BY DEF Who
<1>1. ASSUME NEW x \in Points, \A y \in Points : Fewer(y, x) => y \in G PROVE x \in G
  <2> SUFFICES ASSUME Canonical(x.at), FindFrom(p, x) # Empty
               PROVE  FindFrom(p, x) = Resolve("guest", binds, root[p], x)
    OBVIOUS
  <2>1. CASE x.todo = Empty
    BY <1>0, <2>1, FindIs, ResolveIs
  <2>2. CASE x.todo # Empty
    <3>1. PICK y : y = FindTurn(p, x)
      OBVIOUS
    <3>2. y \in Points /\ y \in G /\ FindFrom(p, x) = FindFrom(p, y)
      BY <1>1, <2>2, <3>1, FindTurnLess, FindIs
    <3>3. PICK g, file : g = There(x) /\ file = See(p, g)
      OBVIOUS
    <3>4. ~(y.at = Empty /\ y.todo = Empty)
      BY <3>2, FindIs
    <3>5. file # Empty /\ y = TurnTo("guest", x, file)
      BY <3>1, <3>3, <3>4 DEF FindTurn
    <3>6. Canonical(y.at)
      BY <2>2, <3>4, <3>5, TurnToCanonical
    <3>7. PICK n : n = Head(x.todo)
      OBVIOUS
    <3>8. n \in STRING /\ x.at \in Text
      BY <2>2, <3>7, HeadTail DEF Points
    <3>9. PICK there : there = Path(map_to_host(binds, root[p], g))
      OBVIOUS
    <3>10. y = Turn("guest", binds, root[p], x)
      <4>1. CASE n \in {"", "."}
        <5>1. TurnTo("guest", x, file) = TurnTo("guest", x, there)
          BY <3>7, <4>1 DEF TurnTo
        <5> QED
          BY <3>3, <3>5, <3>9, <5>1 DEF Turn
      <4>2. CASE n \notin {"", "."}
        <5>1. g \in Text /\ Canonical(g)
          BY <3>3, <3>7, <3>8, <4>2, PushCanonical DEF There, Still
        <5>2. file = there
          BY <3>3, <3>5, <3>9, <5>1, SeeIsMap
        <5> QED
          BY <3>3, <3>5, <3>9, <5>2 DEF Turn
      <4> QED
        BY <4>1, <4>2
    <3>11. FindFrom(p, y) = Resolve("guest", binds, root[p], y)
      BY <3>2, <3>6
    <3>12. Resolve("guest", binds, root[p], x) = Resolve("guest", binds, root[p], y)
      BY <1>0, <2>2, <3>10, ResolveIs
    <3> QED
      BY <3>2, <3>11, <3>12
  <2> QED
    BY <2>1, <2>2
<1> HIDE DEF G
<1>2. from \in G
  BY <1>1, PointsInduction
<1> QED
  BY <1>2 DEF G

LEMMA FindIsRes ==
    ASSUME NEW p \in Procs, Agreed(p), NEW s \in Text, Find(p, s) # Empty
    PROVE  /\ Find(p, s) = Res("guest", binds, root[p], MAX_SYMLINK_HOPS, Slash, s)
           /\ Find(p, s) \in Text
<1>1. PICK x : x = From(Slash, s)
  OBVIOUS
<1>2. x \in Points /\ Canonical(x.at)
  BY <1>1, BoundsAssumption, EmptyFacts DEF From, Points, Canonical
<1>3. FindFrom(p, x) = Resolve("guest", binds, root[p], x)
  BY <1>1, <1>2, SameFinding DEF Find
<1> QED
  BY <1>1, <1>2, <1>3, FindIs DEF Find, From, Res

(* A process that is in a call has no chroot left to commit.               *)
PInv == call # Idle => pending[call.p] = Empty

LEMMA InitPInv == Init => PInv
BY DEF Init, PInv

LEMMA NextPInv == IInv /\ PInv /\ [Next]_vars => PInv'
<1> SUFFICES ASSUME IInv, PInv, [Next]_vars PROVE PInv'
  OBVIOUS
<1>1. CASE call' = Idle
  BY <1>1 DEF PInv
<1>2. CASE call # Idle /\ call'.p = call.p /\ pending' = pending
  BY <1>2 DEF PInv
<1>3. WalkStep => call' = call /\ pending' = pending
  BY DEF WalkStep
<1>4. Targeted => call # Idle /\ call'.p = call.p /\ pending' = pending
  <2> SUFFICES ASSUME Targeted PROVE call # Idle /\ call'.p = call.p /\ pending' = pending
    OBVIOUS
  <2>1. Busy
    BY DEF IInv, AtRest, Idle, Targeted, Stopped
  <2>2. call \in CallType
    BY <2>1 DEF Busy
  <2>3. call'.p = call.p
    BY <2>2 DEF Targeted, CallType
  <2> QED
    BY <2>1, <2>3, BusyIs DEF Targeted
<1>5. ASSUME NEW p \in Procs,
             UsePath(p) \/ Chdir(p) \/ Chroot(p) \/ Mount(p) \/ MountProc(p) \/ Umount(p)
      PROVE  PInv'
  <2>1. PICK op, g, src, f : Enter(p, op, g, src, f)
    BY <1>5 DEF UsePath, Chdir, Chroot, Mount, MountProc, Umount
  <2>2. call'.p = p /\ pending' = pending /\ pending[p] = Empty
    BY <2>1 DEF Enter, Free
  <2> QED
    BY <2>2 DEF PInv
<1>6. Used \/ Moved \/ Rooted \/ TargetedOutside \/ Attached \/ AttachedProc \/ Detached => call' = Idle
  BY DEF Used, Moved, Rooted, TargetedOutside, Attached, AttachedProc, Detached, Leave
<1>7. ASSUME NEW p \in Procs, ChdirOutside(p) \/ ChrootOutside(p) \/ CommitChroot(p) PROVE call' = Idle
  BY <1>7 DEF ChdirOutside, ChrootOutside, CommitChroot, Free
<1>8. UNCHANGED vars => call' = call /\ pending' = pending
  BY DEF vars
<1>9. CASE call' = call /\ pending' = pending
  BY <1>9 DEF PInv
<1> QED
  BY <1>1, <1>2, <1>3, <1>4, <1>5, <1>6, <1>7, <1>8, <1>9 DEF Next

LEMMA AlwaysPInv == Spec => []PInv
<1> QED
  BY InitPInv, NextPInv, AlwaysIInv, PTL DEF Spec

(* It finds something only where it is sure of the process's root.         *)
LEMMA SeeSure ==
    ASSUME NEW p, NEW g, See(p, g) # Empty
    PROVE  world.base[p].sure
BY DEF See, Vouched

LEMMA FindSure ==
    ASSUME NEW p, NEW s \in Text, s # Empty, Find(p, s) # Empty
    PROVE  world.base[p].sure
<1>1. PICK x, y : x = From(Slash, s) /\ y = FindTurn(p, x)
  OBVIOUS
<1>2. x \in Points /\ x.todo # Empty
  BY <1>1, BoundsAssumption, EmptyFacts DEF From, Points
<1>3. y \in Points /\ FindFrom(p, y) # Empty
  BY <1>1, <1>2, FindTurnLess, FindIs DEF Find
<1>4. ~(y.at = Empty /\ y.todo = Empty)
  BY <1>3, FindIs
<1>5. See(p, There(x)) # Empty
  BY <1>1, <1>4 DEF FindTurn
<1> QED
  BY <1>5, SeeSure

LEMMA CallAgreed ==
    ASSUME IInv, WInv, PInv, Busy, Ordinary(binds, root[call.p]), TableIsMounts, world.base[call.p].sure
    PROVE  Agreed(call.p)
<1>1. call.p \in Procs /\ pending[call.p] = Empty
  BY BusyIs DEF PInv
<1> QED
  BY <1>1 DEF Agreed, IInv, TableIsMounts

(* In every namespace that chroot, mount and umount can build out of real  *)
(* paths, whatever the files, the symlinks, the path, the limits: when the *)
(* loop of emuroot_translate_path_ex has walked a path to its end, and not *)
(* stopped below /proc, the host's kernel, which knows nothing of the      *)
(* root, is led to the file that a kernel with that root and those mounts, *)
(* the latest on top, would find, absolute symlinks, ".." and bindings     *)
(* made under other roots included: for every path that kernel vouches     *)
(* for (not the four exceptions it names), as long as the list of bindings *)
(* is its list of mounts.                                                  *)
THEOREM WalksLikeChroot ==
    Spec => [](/\ call # Idle => Ordinary(binds, root[call.p])
               /\ TableIsMounts /\ walk.stop # "proc"
               => ReachesIntended)
<1>1. IInv /\ WInv /\ PInv /\ TInv =>
          (/\ call # Idle => Ordinary(binds, root[call.p])
           /\ TableIsMounts /\ walk.stop # "proc"
           => ReachesIntended)
  <2> SUFFICES ASSUME IInv, WInv, PInv, TInv, call # Idle => Ordinary(binds, root[call.p]),
                      TableIsMounts, walk.stop = "end", Intended(call.p, walk.given) # Empty
               PROVE  Reached = Intended(call.p, walk.given)
    BY DEF ReachesIntended
  <2>1. BindsOK /\ PlacesOK /\ Busy
    BY DEF IInv, AtRest, NoWalk
  <2>2. call # Idle /\ call.p \in Procs
    BY <2>1, BusyIs
  <2>3. PICK b, r, c : b = binds /\ r = root[call.p] /\ c = walk.cur
    OBVIOUS
  <2>4. Ordinary(b, r) /\ Tracks(b, r, walk)
    BY <2>2, <2>3 DEF TInv
  <2>5. /\ Seen(b, r, c) /\ walk.rest = Empty /\ walk.hops <= MAX_SYMLINK_HOPS
        /\ Res("guest", b, r, MAX_SYMLINK_HOPS, Slash, walk.given)
             = Res("guest", b, r, MAX_SYMLINK_HOPS - walk.hops, c, Empty)
    BY <2>3, <2>4 DEF Tracks
  <2>6. Reached = Path(map_to_host(b, r, c))
    BY <2>1, <2>3, <2>4, <2>5, EndReached
  <2>7. c \in Text /\ c \in Full /\ walk.given \in Text /\ walk.hops \in Nat
    <3>1. c \in Full /\ walk.hops \in 0 .. MAX_SYMLINK_HOPS + 1 /\ walk.given \in Full
      BY <2>1, <2>3 DEF Busy, WalkType
    <3> QED
      BY <3>1, BoundsAssumption DEF Full
  <2>8. Res("guest", b, r, MAX_SYMLINK_HOPS, Slash, walk.given) = c
    <3>1. PICK l : l = MAX_SYMLINK_HOPS - walk.hops
      OBVIOUS
    <3>2. l \in Nat /\ "guest" \in Who
      BY <2>5, <2>7, <3>1, BoundsAssumption DEF Who
    <3>3. Res("guest", b, r, l, c, Empty) = c
      BY <2>7, <3>2, ResEnd
    <3> QED
      BY <2>5, <3>1, <3>3
  <2>9. PICK g : g = Find(call.p, walk.given)
    OBVIOUS
  <2>10. g # Empty /\ Intended(call.p, walk.given) = See(call.p, g) /\ See(call.p, g) # Empty
    BY <2>9 DEF Intended
  <2>11. Agreed(call.p)
    BY <2>1, <2>3, <2>4, <2>10, SeeSure, CallAgreed
  <2>12. g = c
    BY <2>2, <2>3, <2>7, <2>8, <2>9, <2>10, <2>11, FindIsRes
  <2>13. Canonical(c)
    <3>1. CASE c = Slash
      BY <3>1 DEF Canonical
    <3>2. CASE NoLinks(b, r, c)
      BY <2>7, <3>2, SeenBare, CleanIs DEF Canonical, Full
    <3> QED
      BY <2>5, <3>1, <3>2 DEF Seen
  <2>14. See(call.p, c) = Path(map_to_host(binds, root[call.p], c))
    BY <2>2, <2>7, <2>10, <2>11, <2>12, <2>13, SeeIsMap
  <2> QED
    BY <2>3, <2>6, <2>10, <2>12, <2>14
<1>2. Spec => []TInv
  BY InitTInv, NextTInv, AlwaysIInv, PTL DEF Spec
<1> QED
  BY <1>1, <1>2, AlwaysIInv, AlwaysWInv, AlwaysPInv, PTL

-----------------------------------------------------------------------------
(* A path without its last component. *)
LEMMA JoinLast ==
    ASSUME NEW x \in Text, NEW y \in Text, y # Empty, NEW w, Tops(x, y, w)
    PROVE  w \in Text /\ w # Empty /\ Last(w) = Last(y) /\ Tops(x, Front(y), Front(w))
<1>1. PICK m, n, f, g : m = Len(x) /\ n = Len(y) /\ f = Front(y) /\ g = Front(w)
  OBVIOUS
<1>2. w \in Text /\ Joins(w, x, y) /\ m \in Nat
  BY <1>1, Joined DEF Tops
<1>3. /\ f \in Text /\ Len(f) = n - 1 /\ n \in Nat /\ n - 1 \in Nat
      /\ (\A i \in 1 .. n - 1 : f[i] = y[i]) /\ Last(y) = y[n]
  BY <1>1, FrontIs
<1>4. Len(w) = m + n /\ (\A i \in 1 .. m : w[i] = x[i]) /\ \A i \in 1 .. n : w[m + i] = y[i]
  BY <1>1, <1>2 DEF Joins
<1>5. w # Empty
  <2>1. Len(w) # 0
    BY <1>2, <1>3, <1>4
  <2> QED
    BY <1>2, <2>1, EmptyFacts
<1>6. /\ g \in Text /\ Len(g) = (m + n) - 1 /\ (\A i \in 1 .. (m + n) - 1 : g[i] = w[i])
      /\ Last(w) = w[m + n]
  <2>1. /\ g \in Text /\ Len(g) = Len(w) - 1 /\ (\A i \in 1 .. Len(w) - 1 : g[i] = w[i])
        /\ Last(w) = w[Len(w)]
    BY <1>1, <1>2, <1>5, FrontIs
  <2> QED
    BY <1>4, <2>1
<1>7. Last(w) = Last(y)
  <2>1. n \in 1 .. n
    BY <1>3
  <2> QED
    BY <1>3, <1>4, <1>6, <2>1
<1>8. Joins(g, x, f)
  <2>1. Len(g) = m + (n - 1)
    BY <1>2, <1>3, <1>6
  <2>2. ASSUME NEW i \in 1 .. m PROVE g[i] = x[i]
    <3>1. i \in 1 .. (m + n) - 1
      BY <1>2, <1>3, <2>2
    <3> QED
      BY <1>4, <1>6, <2>2, <3>1
  <2>3. ASSUME NEW i \in 1 .. n - 1 PROVE g[m + i] = f[i]
    <3>1. m + i \in 1 .. (m + n) - 1 /\ i \in 1 .. n
      BY <1>2, <1>3, <2>3
    <3> QED
      BY <1>3, <1>4, <1>6, <2>3, <3>1
  <2> QED
    BY <1>1, <1>3, <1>6, <2>1, <2>2, <2>3 DEF Joins
<1>9. g = x \o f
  BY <1>3, <1>6, <1>8, JoinsOne
<1> QED
  BY <1>1, <1>2, <1>5, <1>7, <1>9 DEF Tops

LEMMA HeadJoin ==
    ASSUME NEW s \in Text, s # Empty
    PROVE  Tops(<< Head(s) >>, Tail(s), s) /\ << Head(s) >> \in Text
<1>1. PICK n, t, h, L : n = Head(s) /\ t = Tail(s) /\ h = << n >> /\ L = Len(s)
  OBVIOUS
<1>2. /\ n \in STRING /\ t \in Text /\ Len(t) = L - 1 /\ L \in Nat /\ L > 0 /\ n = s[1]
      /\ \A i \in 1 .. L - 1 : t[i] = s[i + 1]
  BY <1>1, HeadTail
<1>3. h \in Text /\ Len(h) = 1 /\ h[1] = n
  BY <1>1, <1>2 DEF Text
<1>4. Joins(s, h, t)
  <2>1. Len(s) = 1 + (L - 1)
    BY <1>1, <1>2
  <2>2. \A i \in 1 .. 1 : s[i] = h[i]
    BY <1>2, <1>3
  <2>3. \A i \in 1 .. L - 1 : s[1 + i] = t[i]
    BY <1>2
  <2> QED
    BY <1>2, <1>3, <2>1, <2>2, <2>3 DEF Joins
<1>5. s = h \o t
  BY <1>2, <1>3, <1>4, JoinsOne
<1> QED
  BY <1>1, <1>3, <1>5 DEF Tops

LEMMA HeadOfJoin ==
    ASSUME NEW n \in STRING, NEW t \in Text, NEW s, Tops(<< n >>, t, s)
    PROVE  s \in Text /\ s # Empty /\ Head(s) = n /\ Tail(s) = t
<1>1. PICK h : h = << n >>
  OBVIOUS
<1>2. h \in Text /\ Len(h) = 1 /\ h[1] = n
  <2>1. << n >> \in Seq(STRING)
    BY OneName
  <2>2. Len(<< n >>) = 1 /\ << n >>[1] = n
    OBVIOUS
  <2> QED
    BY <1>1, <2>1, <2>2, Zenon DEF Text
<1>3. s \in Text /\ Joins(s, h, t) /\ Len(t) \in Nat
  BY <1>1, <1>2, Joined DEF Tops
<1>4. Len(s) = 1 + Len(t) /\ (\A i \in 1 .. 1 : s[i] = h[i]) /\ \A i \in 1 .. Len(t) : s[1 + i] = t[i]
  BY <1>2, <1>3 DEF Joins
<1>5. s # Empty
  <2>1. Len(s) # 0
    BY <1>3, <1>4
  <2> QED
    BY <1>3, <2>1, EmptyFacts
<1>6. PICK v : v = Tail(s)
  OBVIOUS
<1>7. v \in Text /\ Len(v) = Len(s) - 1 /\ Head(s) = s[1] /\ \A i \in 1 .. Len(s) - 1 : v[i] = s[i + 1]
  BY <1>3, <1>5, <1>6, HeadTail
<1>8. Len(v) = Len(t) /\ \A i \in 1 .. Len(t) : v[i] = t[i]
  BY <1>3, <1>4, <1>7
<1>9. v = t
  BY <1>7, <1>8, SeqEqual DEF Text
<1>10. Head(s) = n
  <2>1. 1 \in 1 .. 1
    OBVIOUS
  <2> QED
    BY <1>2, <1>4, <1>7, <2>1, Zenon
<1> QED
  BY <1>3, <1>5, <1>6, <1>9, <1>10

(* one component off the front of what is left *)
LEMMA FrontTail ==
    ASSUME NEW s \in Text, s # Empty, Tail(s) # Empty
    PROVE  /\ Front(s) \in Text /\ Front(s) # Empty /\ Head(Front(s)) = Head(s)
           /\ Tail(Front(s)) = Front(Tail(s)) /\ Last(Tail(s)) = Last(s)
<1>1. PICK n, t : n = Head(s) /\ t = Tail(s)
  OBVIOUS
<1>2. PICK h : h = << n >>
  OBVIOUS
<1>3. Tops(h, t, s) /\ h \in Text /\ n \in STRING /\ t \in Text /\ t # Empty
  BY <1>1, <1>2, HeadJoin, HeadTail
<1>4. Last(s) = Last(t) /\ Tops(h, Front(t), Front(s))
  BY <1>3, JoinLast
<1>5. PICK f : f = Front(t)
  OBVIOUS
<1>6. f \in Text
  BY <1>3, <1>5, FrontIs
<1>7. Tops(<< n >>, f, Front(s))
  BY <1>2, <1>4, <1>5
<1>8. Front(s) \in Text /\ Front(s) # Empty /\ Head(Front(s)) = n /\ Tail(Front(s)) = f
  BY <1>3, <1>6, <1>7, HeadOfJoin
<1> QED
  BY <1>1, <1>4, <1>5, <1>8

LEMMA FrontOne ==
    ASSUME NEW s \in Text, s # Empty, Tail(s) = Empty
    PROVE  Front(s) = Empty /\ Last(s) = Head(s)
<1>1. PICK L : L = Len(s)
  OBVIOUS
<1>2. Len(Tail(s)) = L - 1 /\ Len(Tail(s)) = 0 /\ L \in Nat /\ Head(s) = s[1]
  BY <1>1, HeadTail, EmptyFacts
<1>3. L = 1
  <2>1. PICK m : m = Len(Tail(s))
    OBVIOUS
  <2>2. m = L - 1 /\ m = 0 /\ L \in Nat
    BY <1>2, <2>1
  <2> QED
    BY <2>2
<1>4. Front(s) \in Text /\ Len(Front(s)) = L - 1 /\ Last(s) = s[L]
  BY <1>1, FrontIs
<1>5. Len(Front(s)) = 0
  BY <1>3, <1>4
<1> QED
  BY <1>2, <1>3, <1>4, <1>5, EmptyFacts

LEMMA FrontSkip ==
    ASSUME NEW who \in Who, NEW b, NEW r, NEW l \in Nat, NEW a \in Text, NEW s \in Text,
           SkipSlashes(s) # Empty
    PROVE  /\ s # Empty /\ Last(SkipSlashes(s)) = Last(s)
           /\ Res(who, b, r, l, a, Front(s)) = Res(who, b, r, l, a, Front(SkipSlashes(s)))
<1>1. PICK k : Skips(s, k)
  BY SkipIs
<1>2. PICK d, L : d = SkipSlashes(s) /\ L = Len(s)
  OBVIOUS
<1>3. k \in 0 .. L /\ d = Drop(s, k) /\ Leading(s, k)
  BY <1>1, <1>2, Zenon DEF Skips
<1>4. L \in Nat /\ k \in Nat /\ k <= L /\ d \in Text /\ d # Empty
  <2>1. L \in Nat /\ d \in Text /\ d # Empty
    BY <1>2, PathOps, SkipTyped
  <2> QED
    BY <1>3, <2>1
<1>5. PICK z : z = SubSeq(s, 1, k)
  OBVIOUS
<1>6. \A i \in 1 .. L : s[i] \in STRING
  BY <1>2, ElementOfSeq DEF Text
<1>7. z \in Text /\ Len(z) = k /\ \A i \in 1 .. k : z[i] = s[i]
  BY <1>2, <1>4, <1>5, <1>6 DEF Text
<1>8. has_prefix(s, z)
  <2>1. DOMAIN z = 1 .. k
    BY <1>7, LenProperties DEF Text
  <2> QED
    BY <1>2, <1>4, <1>7, <2>1 DEF has_prefix, IsPrefix
<1>9. s = z \o d
  BY <1>3, <1>7, <1>8, PrefixSplit
<1>10. PICK f, g : f = Front(s) /\ g = Front(d)
  OBVIOUS
<1>11. Tops(z, d, s)
  BY <1>9 DEF Tops
<1>12. s # Empty /\ Last(s) = Last(d) /\ Tops(z, g, f)
  BY <1>4, <1>7, <1>10, <1>11, JoinLast
<1>13. f \in Text /\ g \in Text
  BY <1>4, <1>10, <1>12, FrontIs
<1>14. f = z \o g
  BY <1>12 DEF Tops
<1>15. Joins(f, z, g)
  BY <1>7, <1>13, <1>14, Joined
<1>16. Len(f) = k + Len(g) /\ (\A i \in 1 .. k : f[i] = z[i]) /\ Len(g) \in Nat
  BY <1>7, <1>13, <1>15, PathOps DEF Joins
<1>17. Leading(f, k)
  <2>1. \A i \in 1 .. k : f[i] = s[i]
    BY <1>7, <1>16
  <2> QED
    BY <1>3, <2>1, Zenon DEF Leading
<1>18. k \in 0 .. Len(f)
  BY <1>4, <1>16
<1>19. Drop(f, k) = g
  BY <1>7, <1>13, <1>14, JoinSplit
<1>20. Res(who, b, r, l, a, f) = Res(who, b, r, l, a, Drop(f, k))
  BY <1>13, <1>17, <1>18, ResSkips
<1> QED
  BY <1>2, <1>10, <1>12, <1>19, <1>20

LEMMA LeadsLess ==
    ASSUME NEW b, NEW r, NEW q \in Text, NEW a \in Text, NEW d, NEW x \in Text, NEW y \in Text,
           Tops(x, y, d), Leads(b, r, q, a, d)
    PROVE  Leads(b, r, q, a, x)
<1> SUFFICES ASSUME NEW t \in Text, NEW e \in Text, Tops(t, e, x)
             PROVE  /\ Slashed(map_to_host(b, r, q \o t), a \o t)
                    /\ t # Empty => map_to_host(b, r, q \o t) = a \o t
  BY DEF Leads, Tops
<1>1. PICK v : v = e \o y
  OBVIOUS
<1>2. v \in Text /\ Tops(e, y, v)
  BY <1>1, Joined DEF Tops
<1>3. Tops(t, v, d)
  BY <1>2, JoinThree
<1>4. d = t \o v
  BY <1>3 DEF Tops
<1> QED
  BY <1>2, <1>4 DEF Leads

LEMMA StraightFront ==
    ASSUME NEW x \in Text, Straight(x), x # Empty
    PROVE  Straight(Front(x))
<1>1. PICK f, L : f = Front(x) /\ L = Len(x)
  OBVIOUS
<1>2. /\ f \in Text /\ Len(f) = L - 1 /\ L \in Nat /\ L - 1 \in Nat
      /\ \A i \in 1 .. L - 1 : f[i] = x[i]
  BY <1>1, FrontIs
<1>3. PICK d \in Text : x = f \o d
  <2>1. has_prefix(x, f)
    BY <1>1, <1>2, LenProperties DEF has_prefix, IsPrefix, Text
  <2> QED
    BY <1>2, <2>1, PrefixSplit
<1>4. ASSUME NEW i \in 1 .. Len(f) PROVE Proper(f[i]) /\ ~IsLink(SubSeq(f, 1, i))
  <2>1. i \in 1 .. L /\ i \in 1 .. L - 1
    BY <1>2, <1>4
  <2>2. SubSeq(f \o d, 1, i) = SubSeq(f, 1, i)
    BY <1>2, <1>3, <1>4, InitialJoin
  <2>3. Proper(x[i]) /\ ~IsLink(SubSeq(x, 1, i))
    BY <1>1, <2>1 DEF Straight
  <2> QED
    BY <1>2, <1>3, <2>1, <2>2, <2>3
<1> QED
  BY <1>1, <1>4 DEF Straight

(* The directory that holds a name the walk has got to, on the host. *)
LEMMA LastHost ==
    ASSUME NEW b \in Seq(BindingType), NEW r \in Text, Ordinary(b, r), NEW c \in Full, Seen(b, r, c),
           NEW n \in STRING
    PROVE  /\ Front(map_to_host(b, r, push_component(c, n))) \in Text
           /\ Straight(Front(map_to_host(b, r, push_component(c, n))))
<1>1. PICK u, here, h : /\ u = Unslashed(c) /\ here = push_component(c, n)
                        /\ h = map_to_host(b, r, here)
  OBVIOUS
<1>2. u \in Text /\ NoLinks(b, r, u)
  BY <1>1, SeenUnslashed
<1>3. here = Append(u, n) /\ here \in Text /\ Front(here) = u
  BY <1>1, <1>2, Pushed DEF push_component
<1>4. here \in Full
  BY <1>1, PathOps DEF Full
<1>5. h \in Text /\ h # Empty
  BY <1>1, <1>4, MapTyped DEF Full
<1>6. PICK q, a, d \in Text : Straight(a) /\ Tops(q, d, here) /\ Leads(b, r, q, a, d)
  BY <1>3, MapLeads
<1>7. PICK x : x = a \o d
  OBVIOUS
<1>8. Tops(a, d, x) /\ x \in Text
  BY <1>6, <1>7, Joined DEF Tops
<1>9. Slashed(h, x) /\ (d # Empty => h = x)
  <2>1. Slashed(map_to_host(b, r, here), x) /\ (d # Empty => map_to_host(b, r, here) = x)
    BY <1>6, <1>8, LeadsTo
  <2> QED
    BY <1>1, <2>1
<1>10. CASE d = Empty
  <2>1. x = a
    BY <1>6, <1>7, <1>10, EmptyJoins
  <2>2. CASE h = x
    BY <1>1, <1>5, <1>6, <2>1, <2>2, FrontIs, StraightFront
  <2>3. CASE h = x \o Slash
    <3>1. Tops(x, Slash, h) /\ Slash \in Text /\ Slash # Empty
      BY <2>3, EmptyFacts DEF Tops
    <3>2. Tops(x, Front(Slash), Front(h))
      BY <1>8, <3>1, JoinLast
    <3>3. Front(Slash) = Empty
      <4>1. Front(Slash) \in Text /\ Len(Front(Slash)) = Len(Slash) - 1
        BY <3>1, FrontIs
      <4>2. Len(Front(Slash)) = 0
        <5>1. PICK m, k : m = Len(Front(Slash)) /\ k = Len(Slash)
          OBVIOUS
        <5>2. m = k - 1 /\ k = 1
          BY <4>1, <5>1, EmptyFacts
        <5>3. m = 0
          BY <5>2
        <5> QED
          BY <5>1, <5>3
      <4> QED
        BY <4>1, <4>2, EmptyFacts
    <3>4. Front(h) = x
      BY <1>8, <3>2, <3>3, EmptyJoins DEF Tops
    <3> QED
      BY <1>1, <1>6, <1>8, <2>1, <3>4
  <2> QED
    BY <1>9, <2>2, <2>3 DEF Slashed
<1>11. CASE d # Empty
  <2>1. PICK f : f = Front(d)
    OBVIOUS
  <2>2. f \in Text
    BY <1>6, <1>11, <2>1, FrontIs
  <2>3. Tops(q, f, u)
    BY <1>3, <1>6, <1>11, <2>1, JoinLast
  <2>4. Tops(a, f, Front(h))
    BY <1>6, <1>8, <1>9, <1>11, <2>1, JoinLast
  <2>5. PICK y \in Text : Tops(f, y, d)
    <3>1. /\ f \in Text /\ Len(f) = Len(d) - 1 /\ Len(d) \in Nat /\ Len(d) - 1 \in Nat
          /\ \A i \in 1 .. Len(d) - 1 : f[i] = d[i]
      BY <1>6, <1>11, <2>1, FrontIs
    <3>2. has_prefix(d, f)
      BY <3>1, LenProperties DEF has_prefix, IsPrefix, Text
    <3> QED
      BY <1>6, <2>2, <3>2, PrefixSplit DEF Tops
  <2>6. Leads(b, r, q, a, f)
    BY <1>6, <2>2, <2>5, LeadsLess
  <2>7. u = q \o f /\ Front(h) = a \o f
    BY <2>3, <2>4 DEF Tops
  <2>8. NoLinks(b, r, q \o f)
    BY <1>2, <2>7
  <2>9. Straight(a \o f) /\ a \o f \in Text
    BY <1>6, <2>2, <2>6, <2>8, LeadsStraight, Joined
  <2> QED
    BY <1>1, <2>7, <2>9
<1> QED
  BY <1>10, <1>11

(* The same tracking of the path but for its last component, and where it  *)
(* stops: for the calls that leave the last symlink alone.                 *)
LTracks(b, r, w) ==
    /\ w.stop = "no" /\ ~w.follow /\ w.rest # Empty /\ Ordinary(b, r) =>
          /\ Last(w.rest) = Last(w.given) /\ (w.trail <=> EndsInSlash(w.rest))
          /\ Res("guest", b, r, MAX_SYMLINK_HOPS, Slash, Front(w.given))
               = Res("guest", b, r, MAX_SYMLINK_HOPS - w.hops, w.cur, Front(w.rest))
    /\ w.stop = "last" /\ Ordinary(b, r) =>
          \E c \in Full :
              /\ Seen(b, r, c) /\ w.cur = push_component(c, Last(w.given))
              /\ Res("guest", b, r, MAX_SYMLINK_HOPS, Slash, Front(w.given)) = c
              /\ w.rest = Empty /\ ~w.trail

LInv == call # Idle => LTracks(binds, root[call.p], walk)

LEMMA LTracksFrom ==
    ASSUME NEW b, NEW r, NEW g \in Full, NEW f, NEW p \in Procs
    PROVE  LTracks(b, r, Translate(p, g, f))
<1>1. PICK t : t = EndsInSlash(g)
  OBVIOUS
<1>2. PICK w : w = Walk(g, f)
  OBVIOUS
<1>3. w = [given |-> g, follow |-> f, cur |-> Slash, rest |-> g, trail |-> t, hops |-> 0, stop |-> "no"]
  BY <1>1, <1>2, Zenon DEF Walk
<1>4. PICK N : N = MAX_SYMLINK_HOPS
  OBVIOUS
<1>5. N - 0 = N
  BY <1>4, BoundsAssumption
<1>6. w.cur = Slash /\ w.given = g /\ w.rest = g /\ w.hops = 0 /\ w.stop = "no" /\ w.trail = t
  BY <1>3
<1>7. Res("guest", b, r, N, Slash, Front(w.given)) = Res("guest", b, r, N - w.hops, w.cur, Front(w.rest))
  BY <1>5, <1>6
<1>8. w.stop # "last"
  BY <1>6
<1>9. LTracks(b, r, w)
  BY <1>1, <1>4, <1>6, <1>7, <1>8, Zenon DEF LTracks
<1>10. [w EXCEPT !.cur = g, !.rest = Empty, !.stop = "asis"].stop = "asis"
  BY <1>3
<1>11. LTracks(b, r, [w EXCEPT !.cur = g, !.rest = Empty, !.stop = "asis"])
  BY <1>10 DEF LTracks
<1> QED
  BY <1>2, <1>9, <1>11 DEF Translate

LEMMA LTrackTurn ==
    ASSUME NEW b, NEW r, NEW w, NEW v, v.given = w.given, v.follow = w.follow, w.stop = "no",
           v.stop = "no", LTracks(b, r, w), w.rest # Empty,
           v.rest # Empty /\ ~w.follow /\ Ordinary(b, r) =>
               /\ Last(v.rest) = Last(w.rest)
               /\ (w.trail <=> EndsInSlash(w.rest)) => (v.trail <=> EndsInSlash(v.rest))
               /\ Res("guest", b, r, MAX_SYMLINK_HOPS - w.hops, w.cur, Front(w.rest))
                    = Res("guest", b, r, MAX_SYMLINK_HOPS - v.hops, v.cur, Front(v.rest))
    PROVE  LTracks(b, r, v)
<1> SUFFICES ASSUME ~v.follow, v.rest # Empty, Ordinary(b, r)
             PROVE  /\ Last(v.rest) = Last(v.given) /\ (v.trail <=> EndsInSlash(v.rest))
                    /\ Res("guest", b, r, MAX_SYMLINK_HOPS, Slash, Front(v.given))
                         = Res("guest", b, r, MAX_SYMLINK_HOPS - v.hops, v.cur, Front(v.rest))
  BY DEF LTracks
<1>1. ~w.follow
  OBVIOUS
<1>2. /\ Last(w.rest) = Last(w.given) /\ (w.trail <=> EndsInSlash(w.rest))
      /\ Res("guest", b, r, MAX_SYMLINK_HOPS, Slash, Front(w.given))
           = Res("guest", b, r, MAX_SYMLINK_HOPS - w.hops, w.cur, Front(w.rest))
  BY <1>1 DEF LTracks
<1> QED
  BY <1>1, <1>2

LEMMA LTrackStop ==
    ASSUME NEW b, NEW r, NEW v, v.stop \notin {"no", "last"}
    PROVE  LTracks(b, r, v)
BY DEF LTracks

LEMMA SameEnd ==
    ASSUME NEW s \in Text, s # Empty, NEW t \in Text, t # Empty, Last(t) = Last(s)
    PROVE  EndsInSlash(t) <=> EndsInSlash(s)
BY Zenon DEF EndsInSlash

LEMMA LTurnTracks ==
    ASSUME BindsOK, PlacesOK, Busy, WalkStep, Tracks(binds, root[call.p], walk),
           LTracks(binds, root[call.p], walk)
    PROVE  LTracks(binds, root[call.p], walk')
<1>1. /\ walk \in WalkType /\ walk.cur \in Full /\ walk.cur \in Text /\ walk.rest \in Text
      /\ walk.given \in Full /\ walk.hops \in Nat /\ walk.follow \in BOOLEAN
  <2>1. walk \in WalkType
    BY DEF Busy
  <2>2. walk.hops \in 0 .. MAX_SYMLINK_HOPS + 1
    BY <2>1 DEF WalkType
  <2>3. walk.hops \in Nat
    BY <2>2, BoundsAssumption
  <2> QED
    BY <2>1, <2>3 DEF WalkType, Full
<1>2. walk.stop = "no"
  BY DEF WalkStep, WalkEnd, WalkDot, WalkDotDot, WalkTooLong, WalkLast, WalkProc, WalkPlain,
         WalkLoop, WalkLink, AtLink, Checked, AtName, Walking
<1>3. PICK b, r : b = binds /\ r = root[call.p]
  OBVIOUS
<1>4. b \in Seq(BindingType) /\ r \in Text
  BY <1>3, DirsTyped DEF BindsOK, PlacesOK, Busy, CallType
<1>5. PICK l : l = MAX_SYMLINK_HOPS - walk.hops
  OBVIOUS
<1>6. l \in Nat /\ walk.hops <= MAX_SYMLINK_HOPS
  <2>1. walk.hops <= MAX_SYMLINK_HOPS
    BY <1>2 DEF Busy
  <2> QED
    BY <1>1, <1>5, <2>1, BoundsAssumption
<1>7. PICK c, rest : c = walk.cur /\ rest = Rest
  OBVIOUS
<1>8. c \in Full /\ c \in Text /\ rest \in Text
  BY <1>1, <1>7, SkipTyped DEF Rest
<1>9. "guest" \in Who
  BY DEF Who
<1>10. LTracks(b, r, walk)
  BY <1>3
<1>11. Ordinary(b, r) => Seen(b, r, c)
  BY <1>2, <1>3, <1>7 DEF Tracks
<1>12. CASE WalkEnd
  <2>1. walk'.stop = "end"
    BY <1>1, <1>12 DEF WalkEnd, WalkType
  <2> QED
    BY <2>1, LTrackStop
<1>13. CASE Rest # Empty
  <2>1. PICK n, t : n = Comp /\ t = Ahead
    OBVIOUS
  <2>2. n \in STRING /\ t \in Text /\ n = Head(rest) /\ t = Tail(rest) /\ rest # Empty
    BY <1>7, <1>13, <2>1, TurnTyped DEF Comp, Ahead
  <2>3. n # ""
    BY <1>1, <1>7, <1>13, <2>2, CompNamed DEF Rest
  <2>4. /\ walk.rest # Empty /\ Last(rest) = Last(walk.rest)
        /\ Res("guest", b, r, l, c, Front(walk.rest)) = Res("guest", b, r, l, c, Front(rest))
    BY <1>1, <1>6, <1>7, <1>8, <1>9, <1>13, FrontSkip DEF Rest
  <2>5. PICK d : d = Front(rest)
    OBVIOUS
  <2>6. t # Empty => d \in Text /\ d # Empty /\ Head(d) = n /\ Tail(d) = Front(t) /\ Last(t) = Last(rest)
    BY <1>8, <2>2, <2>5, FrontTail
  <2>7. t # Empty => (EndsInSlash(t) <=> EndsInSlash(walk.rest))
    <3> SUFFICES ASSUME t # Empty PROVE EndsInSlash(t) <=> EndsInSlash(walk.rest)
      OBVIOUS
    <3>1. Last(t) = Last(walk.rest)
      BY <2>4, <2>6
    <3> QED
      BY <1>1, <2>2, <2>4, <3>1, SameEnd
  <2>8. ASSUME NEW v, v.given = walk.given, v.follow = walk.follow, v.stop = "no", v.rest = t,
               v.trail = walk.trail, v.hops = walk.hops,
               t # Empty /\ ~walk.follow /\ Ordinary(b, r) =>
                   Res("guest", b, r, l, c, d) = Res("guest", b, r, l, v.cur, Front(t))
        PROVE  LTracks(b, r, v)
    <3>1. ASSUME v.rest # Empty, ~walk.follow, Ordinary(b, r)
          PROVE  /\ Last(v.rest) = Last(walk.rest)
                 /\ (walk.trail <=> EndsInSlash(walk.rest)) => (v.trail <=> EndsInSlash(v.rest))
                 /\ Res("guest", b, r, MAX_SYMLINK_HOPS - walk.hops, walk.cur, Front(walk.rest))
                      = Res("guest", b, r, MAX_SYMLINK_HOPS - v.hops, v.cur, Front(v.rest))
      <4>1. t # Empty
        BY <2>8, <3>1
      <4>2. Last(t) = Last(walk.rest) /\ (EndsInSlash(t) <=> EndsInSlash(walk.rest))
        BY <2>4, <2>6, <2>7, <4>1
      <4>3. Res("guest", b, r, l, c, Front(walk.rest)) = Res("guest", b, r, l, v.cur, Front(t))
        BY <2>4, <2>5, <2>8, <3>1, <4>1
      <4> QED
        BY <1>5, <1>7, <2>8, <4>2, <4>3
    <3> QED
      BY <1>2, <1>10, <2>4, <2>8, <3>1, LTrackTurn
  <2>9. CASE WalkDot
    <3>1. walk' = [walk EXCEPT !.rest = t] /\ n = "."
      BY <2>1, <2>9 DEF WalkDot
    <3>2. /\ walk'.rest = t /\ walk'.stop = "no" /\ walk'.cur = c /\ walk'.hops = walk.hops
          /\ walk'.given = walk.given /\ walk'.follow = walk.follow /\ walk'.trail = walk.trail
      BY <1>1, <1>2, <1>7, <3>1 DEF WalkType
    <3>3. Still(n)
      BY <2>2, <3>1, Names3
    <3>4. t # Empty => Res("guest", b, r, l, c, d) = Res("guest", b, r, l, c, Front(t))
      <4> SUFFICES ASSUME t # Empty
                   PROVE  Res("guest", b, r, l, c, d) = Res("guest", b, r, l, c, Front(t))
        OBVIOUS
      <4>1. d \in Text /\ d # Empty /\ Head(d) = n /\ Tail(d) = Front(t)
        BY <2>6
      <4> QED
        <5>1. Still(Head(d))
          BY <3>3, <4>1
        <5>2. Res("guest", b, r, l, c, d) = Res("guest", b, r, l, c, Tail(d))
          BY <1>6, <1>8, <1>9, <4>1, <5>1, ResDot
        <5> QED
          BY <4>1, <5>2
    <3>5. LTracks(b, r, walk')
      BY <2>8, <3>2, <3>4
    <3> QED
      BY <1>3, <3>5
  <2>10. CASE WalkDotDot
    <3>1. PICK up : up = pop_component(c)
      OBVIOUS
    <3>2. walk' = [walk EXCEPT !.rest = t, !.cur = up] /\ n = ".."
      BY <1>1, <1>7, <2>1, <2>10, <3>1 DEF WalkDotDot, WalkType
    <3>3. /\ walk'.rest = t /\ walk'.stop = "no" /\ walk'.cur = up /\ walk'.hops = walk.hops
          /\ walk'.given = walk.given /\ walk'.follow = walk.follow /\ walk'.trail = walk.trail
      BY <1>1, <1>2, <3>2 DEF WalkType
    <3>4. Up(n)
      BY <2>2, <3>2, Names3
    <3>5. t # Empty => Res("guest", b, r, l, c, d) = Res("guest", b, r, l, up, Front(t))
      <4> SUFFICES ASSUME t # Empty
                   PROVE  Res("guest", b, r, l, c, d) = Res("guest", b, r, l, up, Front(t))
        OBVIOUS
      <4>1. d \in Text /\ d # Empty /\ Head(d) = n /\ Tail(d) = Front(t)
        BY <2>6
      <4> QED
        <5>1. Up(Head(d))
          BY <3>4, <4>1
        <5>2. Res("guest", b, r, l, c, d) = Res("guest", b, r, l, pop_component(c), Tail(d))
          BY <1>6, <1>8, <1>9, <4>1, <5>1, ResDotDot
        <5> QED
          BY <3>1, <4>1, <5>2
    <3>6. LTracks(b, r, walk')
      BY <2>8, <3>3, <3>5
    <3> QED
      BY <1>3, <3>6
  <2>11. CASE WalkTooLong \/ WalkProc \/ WalkLoop
    <3>1. walk'.stop \in {"long", "proc", "loop"}
      BY <1>1, <2>11 DEF WalkTooLong, WalkProc, WalkLoop, WalkType
    <3>2. walk'.stop \notin {"no", "last"}
      BY <3>1
    <3> QED
      BY <3>2, LTrackStop
  <2>12. PICK here, f : here = push_component(c, n) /\ f = Path(map_to_host(b, r, here))
    OBVIOUS
  <2>13. Here = here /\ Path(Host) = f /\ Host = map_to_host(b, r, here)
    BY <1>3, <1>7, <2>1, <2>12 DEF Here, Host
  <2>14. AtName => Proper(n)
    BY <2>1, <2>3, Zenon DEF AtName, Proper
  <2>15. CASE WalkLast
    <3>1. walk' = [walk EXCEPT !.rest = t, !.cur = here, !.stop = "last"] /\ IsLast /\ ~walk.follow
      BY <2>1, <2>13, <2>15 DEF WalkLast
    <3>2. /\ walk'.rest = t /\ walk'.stop = "last" /\ walk'.cur = here
          /\ walk'.given = walk.given /\ walk'.trail = walk.trail
      BY <1>1, <3>1 DEF WalkType
    <3>3. ASSUME Ordinary(b, r)
          PROVE  /\ Seen(b, r, c) /\ walk'.cur = push_component(c, Last(walk'.given))
                 /\ Res("guest", b, r, MAX_SYMLINK_HOPS, Slash, Front(walk'.given)) = c
                 /\ walk'.rest = Empty /\ ~walk'.trail
      <4>1. /\ Last(walk.rest) = Last(walk.given) /\ (walk.trail <=> EndsInSlash(walk.rest))
            /\ Res("guest", b, r, MAX_SYMLINK_HOPS, Slash, Front(walk.given))
                 = Res("guest", b, r, MAX_SYMLINK_HOPS - walk.hops, walk.cur, Front(walk.rest))
        BY <1>2, <1>10, <2>4, <3>1, <3>3 DEF LTracks
      <4>2. t = Empty
        <5> SUFFICES ASSUME t # Empty PROVE FALSE
          OBVIOUS
        <5>1. AllSlashes(t) /\ ~walk.trail
          BY <2>1, <3>1, Zenon DEF IsLast
        <5>2. Last(t) = ""
          <6>1. PICK L : L = Len(t)
            OBVIOUS
          <6>2. L \in Nat /\ L # 0
            BY <2>2, <6>1, PathOps, EmptyFacts
          <6>3. L \in DOMAIN t
            <7>1. DOMAIN t = 1 .. L
              BY <2>2, <6>1, LenProperties DEF Text
            <7> QED
              BY <6>2, <7>1
          <6>4. Last(t) = t[L]
            BY <6>1 DEF Last
          <6> QED
            BY <5>1, <6>3, <6>4, Zenon DEF AllSlashes
        <5>3. EndsInSlash(t)
          BY <5>2, Zenon DEF EndsInSlash
        <5> QED
          BY <2>7, <4>1, <5>1, <5>3
      <4>3. d = Empty /\ Last(rest) = n
        BY <1>8, <2>2, <2>5, <4>2, FrontOne
      <4>4. Last(walk.given) = n /\ Last(walk.rest) = n
        BY <2>4, <4>1, <4>3
      <4>5. ~EndsInSlash(walk.rest)
        BY <2>3, <4>4, Zenon DEF EndsInSlash
      <4>6. Res("guest", b, r, MAX_SYMLINK_HOPS, Slash, Front(walk.given)) = Res("guest", b, r, l, c, Empty)
        BY <1>5, <1>7, <2>4, <2>5, <4>1, <4>3
      <4>7. Res("guest", b, r, l, c, Empty) = c
        BY <1>6, <1>8, <1>9, ResEnd
      <4> QED
        BY <1>11, <2>12, <3>2, <3>3, <4>1, <4>2, <4>4, <4>5, <4>6, <4>7
    <3>4. LTracks(b, r, walk')
      <4>1. walk'.stop # "no"
        BY <3>2
      <4> QED
        BY <1>8, <3>3, <4>1 DEF LTracks
    <3> QED
      BY <1>3, <3>4
  <2>16. CASE WalkPlain
    <3>1. walk' = [walk EXCEPT !.rest = t, !.cur = here] /\ ~IsLink(f) /\ Proper(n)
      BY <2>1, <2>13, <2>14, <2>16 DEF WalkPlain, Checked
    <3>2. /\ walk'.rest = t /\ walk'.stop = "no" /\ walk'.cur = here /\ walk'.hops = walk.hops
          /\ walk'.given = walk.given /\ walk'.follow = walk.follow /\ walk'.trail = walk.trail
      BY <1>1, <1>2, <3>1 DEF WalkType
    <3>3. t # Empty => Res("guest", b, r, l, c, d) = Res("guest", b, r, l, here, Front(t))
      <4> SUFFICES ASSUME t # Empty
                   PROVE  Res("guest", b, r, l, c, d) = Res("guest", b, r, l, here, Front(t))
        OBVIOUS
      <4>1. d \in Text /\ d # Empty /\ Head(d) = n /\ Tail(d) = Front(t)
        BY <2>6
      <4> QED
        <5>1. Proper(Head(d)) /\ ~IsLink(Path(map_to_host(b, r, push_component(c, Head(d)))))
          BY <2>12, <3>1, <4>1
        <5>2. Res("guest", b, r, l, c, d) = Res("guest", b, r, l, push_component(c, Head(d)), Tail(d))
          BY <1>6, <1>8, <1>9, <4>1, <5>1, ResName
        <5> QED
          BY <2>12, <4>1, <5>2
    <3>4. LTracks(b, r, walk')
      BY <2>8, <3>2, <3>3
    <3> QED
      BY <1>3, <3>4
  <2>17. CASE WalkLink
    <3>1. /\ IsLink(f) /\ Proper(n) /\ ~UnderProc(map_to_host(b, r, here))
          /\ walk.hops + 1 <= MAX_SYMLINK_HOPS /\ (~walk.follow => ~IsLast)
      BY <2>13, <2>14, <2>17 DEF WalkLink, AtLink, Checked
    <3>2. PICK to, tail, end, h : /\ to = readlink("tracer", f) /\ tail = to.to \o t
                                  /\ end = EndsInSlash(tail) /\ h = walk.hops + 1
      OBVIOUS
    <3>3. pop_component(here) = c
      BY <1>8, <2>2, <2>12, BackFromHere
    <3>4. PICK at : at = IF to.abs THEN Slash ELSE c
      OBVIOUS
    <3>5. walk' = [walk EXCEPT !.cur = at, !.rest = tail, !.trail = end, !.hops = h]
      BY <1>1, <2>1, <2>13, <2>17, <3>2, <3>3, <3>4 DEF WalkLink, WalkType
    <3>6. /\ walk'.rest = tail /\ walk'.stop = "no" /\ walk'.cur = at /\ walk'.hops = h
          /\ walk'.given = walk.given /\ walk'.follow = walk.follow /\ walk'.trail = end
      BY <1>1, <1>2, <3>5 DEF WalkType
    <3>7. ASSUME ~walk.follow, Ordinary(b, r)
          PROVE  /\ Last(tail) = Last(walk.rest) /\ (end <=> EndsInSlash(tail))
                 /\ Res("guest", b, r, l, c, Front(walk.rest)) = Res("guest", b, r, l - 1, at, Front(tail))
                 /\ l - 1 = MAX_SYMLINK_HOPS - h
      <4>1. t # Empty
        BY <2>1, <3>1, <3>7, Zenon DEF IsLast
      <4>2. f # Self
        <5>1. here \in Text /\ Bare(here)
          BY <1>8, <1>11, <2>2, <2>12, <3>1, <3>7, HereBare
        <5> QED
          BY <1>4, <2>12, <3>1, <3>7, <5>1, MapSelf
      <4>3. to = readlink("guest", f)
        BY <3>2, <4>2 DEF readlink
      <4>4. PICK x : x = to.to
        OBVIOUS
      <4>5. x \in Text /\ Tops(x, t, tail)
        BY <1>9, <3>1, <3>2, <4>3, <4>4, LinkTyped DEF Tops
      <4>6. Last(tail) = Last(t) /\ Tops(x, Front(t), Front(tail))
        BY <2>2, <4>1, <4>5, JoinLast
      <4>7. l # 0 /\ l - 1 = MAX_SYMLINK_HOPS - h
        BY <1>1, <1>5, <1>6, <3>1, <3>2, BoundsAssumption
      <4>8. d \in Text /\ d # Empty /\ Head(d) = n /\ Tail(d) = Front(t) /\ Last(t) = Last(rest)
        BY <2>6, <4>1
      <4>9. Res("guest", b, r, l, c, d)
              = Res("guest", b, r, l - 1, IF readlink("guest", f).abs THEN Slash ELSE c,
                    readlink("guest", f).to \o Tail(d))
        BY <1>6, <1>8, <1>9, <2>12, <3>1, <4>7, <4>8, ResLink
      <4>10. readlink("guest", f).to \o Tail(d) = Front(tail)
        BY <4>3, <4>4, <4>6, <4>8 DEF Tops
      <4>11. Res("guest", b, r, l, c, d) = Res("guest", b, r, l - 1, at, Front(tail))
        BY <3>4, <4>3, <4>9, <4>10
      <4> QED
        BY <2>4, <2>5, <3>2, <4>6, <4>7, <4>8, <4>11
    <3>8. ASSUME walk'.rest # Empty, ~walk.follow, Ordinary(b, r)
          PROVE  /\ Last(walk'.rest) = Last(walk.rest)
                 /\ (walk.trail <=> EndsInSlash(walk.rest)) => (walk'.trail <=> EndsInSlash(walk'.rest))
                 /\ Res("guest", b, r, MAX_SYMLINK_HOPS - walk.hops, walk.cur, Front(walk.rest))
                      = Res("guest", b, r, MAX_SYMLINK_HOPS - walk'.hops, walk'.cur, Front(walk'.rest))
      BY <1>5, <1>7, <3>6, <3>7, <3>8
    <3>9. LTracks(b, r, walk')
      BY <1>2, <1>10, <2>4, <3>6, <3>8, LTrackTurn
    <3> QED
      BY <1>3, <3>9
  <2> QED
    BY <1>13, <2>9, <2>10, <2>11, <2>15, <2>16, <2>17 DEF WalkStep, WalkEnd
<1> QED
  BY <1>12, <1>13 DEF WalkStep, WalkDot, WalkDotDot, WalkTooLong, WalkLast, WalkProc, WalkPlain,
                    WalkLoop, WalkLink, AtLink, Checked, AtName

LEMMA InitLInv == Init => LInv
BY DEF Init, LInv

LEMMA NextLInv == IInv /\ TInv /\ LInv /\ [Next]_vars => LInv'
<1> SUFFICES ASSUME IInv, TInv, LInv, [Next]_vars PROVE LInv'
  OBVIOUS
<1>1. BindsOK /\ PlacesOK /\ (AtRest \/ Busy)
  BY DEF IInv
<1>2. CASE UNCHANGED vars
  BY <1>2 DEF vars, LInv
<1>3. CASE WalkStep
  <2>1. Busy
    BY <1>1, <1>3 DEF AtRest, NoWalk, WalkStep, WalkEnd, WalkDot, WalkDotDot, WalkTooLong, WalkLast,
          WalkProc, WalkPlain, WalkLoop, WalkLink, AtLink, Checked, AtName, Walking
  <2>2. Tracks(binds, root[call.p], walk) /\ LTracks(binds, root[call.p], walk)
    BY <2>1, BusyIs DEF TInv, LInv
  <2>3. LTracks(binds, root[call.p], walk')
    BY <1>1, <1>3, <2>1, <2>2, LTurnTracks
  <2> QED
    BY <1>3, <2>3 DEF WalkStep, LInv
<1>4. CASE Used \/ Moved \/ Rooted \/ TargetedOutside \/ Attached \/ AttachedProc \/ Detached
  <2>1. call' = Idle
    BY <1>4 DEF Used, Moved, Rooted, TargetedOutside, Attached, AttachedProc, Detached, Leave
  <2> QED
    BY <2>1 DEF LInv, Idle
<1>5. ASSUME NEW p \in Procs, NEW g, Argument(g), NEW f, Start(p, g, f), NEW b, NEW r
      PROVE  LTracks(b, r, walk')
  <2>1. PICK s \in Full : s = absolute_guest_path(p, g)
    BY <1>1, <1>5, AbsoluteTyped DEF Start
  <2>2. walk' = Translate(p, s, f)
    BY <1>5, <2>1 DEF Start
  <2> QED
    BY <2>2, LTracksFrom
<1>6. CASE Targeted
  <2>1. Busy /\ call.op = "mount"
    BY <1>1, <1>6 DEF AtRest, Idle, Targeted, Stopped
  <2>2. call.source \in Sources /\ call.p \in Procs
    BY <2>1 DEF Busy, CallType
  <2>3. Argument(call.source)
    BY <2>2, GivenTyped
  <2>4. Start(call.p, call.source, TRUE)
    BY <1>6 DEF Targeted
  <2>5. \A b, r : LTracks(b, r, walk')
    BY <1>5, <2>2, <2>3, <2>4
  <2> QED
    BY <2>5 DEF LInv
<1>7. ASSUME NEW p \in Procs,
             UsePath(p) \/ Chdir(p) \/ Chroot(p) \/ Mount(p) \/ MountProc(p) \/ Umount(p)
      PROVE  LInv'
  <2>1. \E g, f : Argument(g) /\ Start(p, g, f)
    BY <1>7, GivenTyped DEF UsePath, Chdir, Chroot, Mount, MountProc, Umount, Enter
  <2>2. \A b, r : LTracks(b, r, walk')
    BY <1>5, <1>7, <2>1
  <2> QED
    BY <2>2 DEF LInv
<1>8. ASSUME NEW p \in Procs, ChdirOutside(p) \/ ChrootOutside(p) \/ CommitChroot(p)
      PROVE  LInv'
  <2>1. call = Idle /\ call' = call
    BY <1>8 DEF ChdirOutside, ChrootOutside, CommitChroot, Free
  <2> QED
    BY <2>1 DEF LInv, Idle
<1> QED
  BY <1>2, <1>3, <1>4, <1>6, <1>7, <1>8 DEF Next

(* The last component of a path given to lstat, unlink or rename is left   *)
(* to the kernel, symlink or not, and every other one is resolved as       *)
(* inside the root: what the kernel gets names the last component in a     *)
(* directory with no symlink on the way to it, the one a kernel with that  *)
(* root and those mounts would find (the flag follow_last of               *)
(* emuroot_translate_path_ex), in the same namespaces.                     *)
THEOREM LastIsKernels ==
    Spec => []((call # Idle => Ordinary(binds, root[call.p])) /\ TableIsMounts => LastLeftAlone)
<1>1. IInv /\ WInv /\ PInv /\ LInv =>
          ((call # Idle => Ordinary(binds, root[call.p])) /\ TableIsMounts => LastLeftAlone)
  <2> SUFFICES ASSUME IInv, WInv, PInv, LInv, call # Idle => Ordinary(binds, root[call.p]),
                      TableIsMounts, walk.stop = "last"
               PROVE  /\ Find(call.p, Front(walk.given)) # Empty =>
                           walk.cur = push_component(Find(call.p, Front(walk.given)), Last(walk.given))
                      /\ Kernel("guest", Slash, Front(Result)) = Path(Front(Result))
    BY DEF LastLeftAlone
  <2>1. BindsOK /\ PlacesOK /\ Busy
    BY DEF IInv, AtRest, NoWalk
  <2>2. call # Idle /\ call.p \in Procs
    BY <2>1, BusyIs
  <2>3. PICK b, r : b = binds /\ r = root[call.p]
    OBVIOUS
  <2>4. b \in Seq(BindingType) /\ r \in Text /\ walk.given \in Full
    BY <2>1, <2>3, DirsTyped DEF BindsOK, PlacesOK, Busy, CallType, WalkType
  <2>5. Ordinary(b, r) /\ LTracks(b, r, walk)
    BY <2>2, <2>3 DEF LInv
  <2>6. PICK c \in Full :
            /\ Seen(b, r, c) /\ walk.cur = push_component(c, Last(walk.given))
            /\ Res("guest", b, r, MAX_SYMLINK_HOPS, Slash, Front(walk.given)) = c
            /\ walk.rest = Empty /\ ~walk.trail
    BY <2>5 DEF LTracks
  <2>7. ASSUME Find(call.p, Front(walk.given)) # Empty
        PROVE  Find(call.p, Front(walk.given)) = c
    <3>1. PICK f : f = Front(walk.given)
      OBVIOUS
    <3>2. f \in Text
      BY <2>4, <3>1, FrontIs DEF Full
    <3>3. CASE f = Empty
      <4>1. PICK x : x = From(Slash, f)
        OBVIOUS
      <4>2. x \in Points /\ x.todo = Empty /\ x.at = Slash
        BY <3>2, <3>3, <4>1, BoundsAssumption, EmptyFacts DEF From, Points
      <4>3. Find(call.p, f) = Slash
        BY <4>1, <4>2, FindIs DEF Find
      <4>4. "guest" \in Who /\ MAX_SYMLINK_HOPS \in Nat
        BY BoundsAssumption DEF Who
      <4>5. Res("guest", b, r, MAX_SYMLINK_HOPS, Slash, Empty) = Slash
        BY <4>4, EmptyFacts, ResEnd
      <4> QED
        BY <2>6, <3>1, <3>3, <4>3, <4>5
    <3>4. CASE f # Empty
      <4>1. world.base[call.p].sure
        BY <2>7, <3>1, <3>2, <3>4, FindSure
      <4>2. Agreed(call.p)
        BY <2>1, <2>3, <2>5, <4>1, CallAgreed
      <4> QED
        BY <2>2, <2>3, <2>6, <2>7, <3>1, <3>2, <4>2, FindIsRes
    <3> QED
      BY <3>3, <3>4
  <2>8. PICK n : n = Last(walk.given)
    OBVIOUS
  <2>9. n \in STRING
    BY <2>4, <2>8, FrontIs DEF Full
  <2>10. Result = map_to_host(b, r, push_component(c, n))
    <3>1. walk.stop # "asis"
      OBVIOUS
    <3> QED
      BY <2>3, <2>6, <2>8, <3>1, Zenon DEF Result
  <2>11. PICK x : x = Front(Result)
    OBVIOUS
  <2>12. x \in Text /\ Straight(x)
    BY <2>4, <2>5, <2>6, <2>9, <2>10, <2>11, LastHost
  <2>13. Path(x) = OrSlash(x)
    BY <2>12, ProperBare, PathOf DEF Straight
  <2>14. Kernel("guest", Slash, x) = OrSlash(x)
    <3>1. Leading(Empty, Len(Empty)) /\ Empty \in Text /\ x \o Empty = x
      <4>1. PICK m : m = Len(Empty)
        OBVIOUS
      <4>2. m = 0
        BY <4>1, EmptyFacts
      <4>3. 1 .. m = {}
        BY <4>2
      <4>4. Leading(Empty, Len(Empty))
        BY <4>1, <4>3, Zenon DEF Leading
      <4> QED
        BY <2>12, <4>4, EmptyFacts, EmptyJoins
    <3>2. "guest" \in Who /\ MAX_SYMLINK_HOPS \in Nat
      BY BoundsAssumption DEF Who
    <3>3. Res("guest", << >>, Empty, MAX_SYMLINK_HOPS, Slash, x \o Empty) = OrSlash(x)
      BY <2>12, <3>1, <3>2, KernelWalks
    <3> QED
      BY <3>1, <3>3 DEF Kernel, From, Res
  <2> QED
    BY <2>6, <2>7, <2>11, <2>13, <2>14
<1>2. Spec => []TInv
  BY InitTInv, NextTInv, AlwaysIInv, PTL DEF Spec
<1>3. Spec => []LInv
  BY <1>2, InitLInv, NextLInv, AlwaysIInv, PTL DEF Spec
<1> QED
  BY <1>1, <1>3, AlwaysIInv, AlwaysWInv, AlwaysPInv, PTL
=============================================================================
