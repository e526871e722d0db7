----------------------------- MODULE ExecProofs -----------------------------
(* Proofs about the rewriting of execve, for any files, names, arguments   *)
(* and limits: what exec.c keeps in its fixed and its allocated arrays     *)
(* stays inside them, what runs is what would run under a real chroot, and *)
(* /proc/self/exe shows it.                                                *)
EXTENDS Exec, FiniteSetTheorems, SequenceTheorems, WellFoundedInduction, TLAPS

Arg == [str : DOMAIN Bytes, own : BOOLEAN]

(* There were at most MAX_EXEC_ARGS arguments at first. *)
Most(depth) == MAX_EXEC_ARGS + 2 * depth

(* Each #! line adds two arguments at most, the loader three; the first    *)
(* argument is there to be replaced for as long as the loop runs.          *)
ExOK ==
    /\ ex \in [path : Names, host : Places, depth : 0 .. MAX_SHEBANG_DEPTH, rewritten : BOOLEAN,
               args : Seq(Arg)]
    /\ at = "loop" => Len(ex.args) >= 1 /\ Len(ex.args) <= Most(ex.depth)
    /\ at = "laid out" => Len(ex.args) <= Most(MAX_SHEBANG_DEPTH) + 1

CacheOK ==
    /\ IsFiniteSet(DOMAIN cache) /\ Cardinality(DOMAIN cache) <= MAX_CACHE
    /\ \A p \in DOMAIN cache : p \in Places /\ cache[p] \in BOOLEAN

IInv ==
    /\ at \in {"user", "loop", "laid out", "kernel", "exit"}
    /\ fs \in [Places -> DOMAIN Kind]
    /\ exe \in Names \cup {""} /\ pending_exe \in Names \cup {""}
    /\ CacheOK
    /\ at \in {"loop", "laid out"} => ExOK

-----------------------------------------------------------------------------
LEMMA LimitsTyped ==
    /\ MAX_EXEC_ARGS \in Nat /\ MAX_SHEBANG_DEPTH \in Nat /\ MAX_CACHE \in Nat
    /\ MAX_EXEC_ARGS >= 1 /\ 2 * MAX_SHEBANG_DEPTH + 1 <= 16
    /\ KERNEL_DEPTH \in Nat /\ MAX_SHEBANG_DEPTH <= KERNEL_DEPTH
BY ExecAssumption, ArgsAssumption, DepthAssumption

LEMMA RoomGrows ==
    ASSUME NEW d \in 0 .. MAX_SHEBANG_DEPTH, NEW n \in Nat, n <= Most(d)
    PROVE  /\ n <= Most(MAX_SHEBANG_DEPTH) + 1
           /\ d < MAX_SHEBANG_DEPTH => \A k \in 2 .. 3 : k + n - 1 <= Most(d + 1)
           /\ d < MAX_SHEBANG_DEPTH => \A k \in 2 .. 4 : k + n - 1 <= Most(MAX_SHEBANG_DEPTH) + 1
BY LimitsTyped DEF Most

LEMMA PlacesTyped ==
    ASSUME NEW n \in Names
    PROVE  Place(n) \in Places /\ host_path_of(n) \in Places /\ guest_absolute(n) \in Names
<1>1. Absolute[n] \in Names
  BY ExecAssumption
<1> QED
  BY <1>1 DEF Place, host_path_of, guest_absolute, Places

(* The first argument is replaced by what leads. *)
LEMMA HeadReplaced ==
    ASSUME NEW args \in Seq(Arg), Len(args) >= 1, NEW lead \in Seq(DOMAIN Bytes)
    PROVE  /\ replace_head(args, lead) \in Seq(Arg)
           /\ Len(replace_head(args, lead)) = Len(lead) + Len(args) - 1
<1> DEFINE own == [i \in 1 .. Len(lead) |-> Own(lead[i])]
<1>1. Len(lead) \in Nat /\ \A i \in 1 .. Len(lead) : lead[i] \in DOMAIN Bytes
  BY ElementOfSeq
<1>2. \A i \in 1 .. Len(lead) : Own(lead[i]) \in Arg
  BY <1>1 DEF Own, Arg
<1>3. own \in [1 .. Len(lead) -> Arg]
  BY <1>2
<1> HIDE DEF own
<1>4. own \in Seq(Arg) /\ Len(own) = Len(lead)
  BY <1>1, <1>3
<1>5. Tail(args) \in Seq(Arg) /\ Len(Tail(args)) = Len(args) - 1
  <2>1. args # <<>>
    OBVIOUS
  <2> QED
    BY <2>1, HeadTailProperties
<1>6. replace_head(args, lead) = own \o Tail(args)
  BY DEF replace_head, own
<1>7. /\ replace_head(args, lead) \in Seq(Arg)
      /\ Len(replace_head(args, lead)) = Len(own) + Len(Tail(args))
  <2>1. PICK s, u : s = own /\ u = Tail(args)
    OBVIOUS
  <2>2. s \in Seq(Arg) /\ u \in Seq(Arg)
    BY <1>4, <1>5, <2>1
  <2>3. s \o u \in Seq(Arg) /\ Len(s \o u) = Len(s) + Len(u)
    BY <2>2, ConcatProperties
  <2> QED
    BY <1>6, <2>1, <2>3
<1>8. Len(args) \in Nat
  BY LenProperties
<1> QED
  BY <1>1, <1>4, <1>5, <1>7, <1>8

LEMMA CacheGrows ==
    ASSUME CacheOK, NEW p \in Places, cache' = Cached(p)
    PROVE  CacheOK'
<1>1. CASE p \notin DOMAIN cache /\ Cardinality(DOMAIN cache) < MAX_CACHE
  <2>1. cache' = [q \in DOMAIN cache \cup {p} |-> IF q = p THEN loader_has_argv0(p) ELSE cache[q]]
    BY <1>1 DEF Cached
  <2>2. loader_has_argv0(p) \in BOOLEAN
    BY <1>1 DEF loader_has_argv0
  <2>3. DOMAIN cache' = DOMAIN cache \cup {p}
    BY <2>1
  <2>4. IsFiniteSet(DOMAIN cache') /\ Cardinality(DOMAIN cache') <= MAX_CACHE
    <3>1. IsFiniteSet(DOMAIN cache) /\ Cardinality(DOMAIN cache) \in Nat
      BY FS_CardinalityType DEF CacheOK
    <3>2. IsFiniteSet(DOMAIN cache') /\ Cardinality(DOMAIN cache') = Cardinality(DOMAIN cache) + 1
      BY <1>1, <2>3, <3>1, FS_AddElement
    <3> QED
      BY <1>1, <3>1, <3>2, LimitsTyped
  <2>5. \A q \in DOMAIN cache' : q \in Places /\ cache'[q] \in BOOLEAN
    BY <2>1, <2>2, <2>3 DEF CacheOK
  <2> QED
    BY <2>4, <2>5 DEF CacheOK
<1>2. CASE ~(p \notin DOMAIN cache /\ Cardinality(DOMAIN cache) < MAX_CACHE)
  <2>1. cache' = cache
    BY <1>2 DEF Cached
  <2> QED
    BY <2>1 DEF CacheOK
<1> QED
  BY <1>1, <1>2

-----------------------------------------------------------------------------
LEMMA InitIInv == Init => IInv
<1> SUFFICES ASSUME Init PROVE IInv
  OBVIOUS
<1>1. DOMAIN cache = {}
  <2>1. cache = <<>> /\ <<>> \in Seq({}) /\ Len(<<>>) = 0
    BY EmptySeq DEF Init
  <2>2. DOMAIN cache = 1 .. 0
    BY <2>1, LenProperties
  <2> QED
    BY <2>2
<1>2. CacheOK
  BY <1>1, FS_EmptySet, LimitsTyped DEF CacheOK
<1> QED
  BY <1>2, ExecAssumption DEF Init, IInv

LEMMA CallStep ==
    ASSUME IInv, NEW n \in Names, NEW argv \in Argvs, NEW cut \in BOOLEAN, Call(n, argv, cut)
    PROVE  IInv'
<1>1. /\ argv \in Seq(DOMAIN Bytes) /\ Len(argv) \in Nat
      /\ \A i \in 1 .. Len(argv) : argv[i] \in DOMAIN Bytes
  BY StringsAssumption, ElementOfSeq, LenProperties
<1> DEFINE k == Min({Len(argv), MAX_EXEC_ARGS})
           args == [i \in 1 .. k |-> [str |-> argv[i], own |-> FALSE]]
<1>2. k \in {Len(argv), MAX_EXEC_ARGS} /\ k <= Len(argv) /\ k <= MAX_EXEC_ARGS
  <2>1. \E x \in {Len(argv), MAX_EXEC_ARGS} : \A y \in {Len(argv), MAX_EXEC_ARGS} : x =< y
    BY <1>1, LimitsTyped
  <2> QED
    BY <2>1 DEF Min
<1>3. k \in Nat /\ (argv # <<>> => k >= 1)
  BY <1>1, <1>2, LimitsTyped
<1> HIDE DEF k
<1>4. args \in [1 .. k -> Arg]
  <2>1. \A i \in 1 .. k : argv[i] \in DOMAIN Bytes
    BY <1>1, <1>2, <1>3
  <2> QED
    BY <2>1 DEF Arg
<1>5. /\ at' \in {"laid out", "loop"} /\ (at' = "loop" => argv # <<>>)
      /\ ex' = [path |-> n, host |-> Place(n), depth |-> 0, rewritten |-> FALSE, args |-> args]
      /\ pending_exe' = "" /\ UNCHANGED <<fs, cache, exe>>
  BY DEF Call, k
<1> HIDE DEF args
<1>6. args \in Seq(Arg) /\ Len(args) = k
  BY <1>3, <1>4
<1>7. /\ ex'.path = n /\ ex'.host = Place(n) /\ ex'.depth = 0 /\ ex'.args = args
  BY <1>5
<1>8. k <= Most(0) /\ k <= Most(MAX_SHEBANG_DEPTH) + 1
  BY <1>2, <1>3, LimitsTyped DEF Most
<1>9. ex' \in [path : Names, host : Places, depth : 0 .. MAX_SHEBANG_DEPTH, rewritten : BOOLEAN,
              args : Seq(Arg)]
  <2>1. Place(n) \in Places /\ 0 \in 0 .. MAX_SHEBANG_DEPTH
    BY LimitsTyped, PlacesTyped
  <2> QED
    BY <1>5, <1>6, <2>1
<1>10. ExOK'
  BY <1>3, <1>5, <1>6, <1>7, <1>8, <1>9 DEF ExOK
<1> QED
  BY <1>5, <1>10 DEF IInv, CacheOK

LEMMA ScriptStep ==
    ASSUME IInv, TurnScript
    PROVE  IInv'
<1>1. at = "loop" /\ at' = "loop" /\ ExOK /\ ex.depth < MAX_SHEBANG_DEPTH
  BY DEF TurnScript, Turning, IInv
<1>2. Host \in Places /\ fs[Host] \in DOMAIN Kind
  BY <1>1, PlacesTyped DEF ExOK, Host, IInv
<1> DEFINE k == Kind[fs[Host]]
           lead == <<k.interp>> \o sb_arg(k) \o <<ex.path>>
<1>3. k.type = "script"
  BY DEF TurnScript, FileAt
<1>4. k.interp \in Names /\ k.arg \in DOMAIN Bytes \cup {NoArg}
  BY <1>2, <1>3, ExecAssumption
<1>5. /\ ex' = [path |-> k.interp, host |-> Host, depth |-> ex.depth + 1, rewritten |-> TRUE,
                args |-> replace_head(ex.args, lead)]
      /\ UNCHANGED <<fs, cache, exe, pending_exe>>
  BY DEF TurnScript, FileAt
<1> HIDE DEF k
<1>6. lead \in Seq(DOMAIN Bytes) /\ Len(lead) \in 2 .. 3
  <2>1. ex.path \in DOMAIN Bytes /\ k.interp \in DOMAIN Bytes
    BY <1>1, <1>4, StringsAssumption DEF ExOK
  <2>2. CASE k.arg = NoArg
    BY <2>1, <2>2 DEF sb_arg
  <2>3. CASE k.arg # NoArg
    BY <1>4, <2>1, <2>3 DEF sb_arg
  <2> QED
    BY <2>2, <2>3
<1> HIDE DEF lead
<1>7. /\ ex'.path = k.interp /\ ex'.host = Host /\ ex'.depth = ex.depth + 1
      /\ ex'.args = replace_head(ex.args, lead)
  BY <1>5
<1>8. /\ ex.args \in Seq(Arg) /\ Len(ex.args) \in Nat /\ Len(ex.args) >= 1
      /\ Len(ex.args) <= Most(ex.depth) /\ ex.depth \in 0 .. MAX_SHEBANG_DEPTH
  BY <1>1, LenProperties DEF ExOK
<1>9. PICK args, n, d, m : args = ex.args /\ n = Len(args) /\ d = ex.depth /\ m = Len(lead)
  OBVIOUS
<1>10. /\ replace_head(args, lead) \in Seq(Arg)
       /\ Len(replace_head(args, lead)) = m + n - 1
  BY <1>6, <1>8, <1>9, HeadReplaced
<1>11. m + n - 1 >= 1 /\ m + n - 1 <= Most(d + 1)
  <2>1. m \in 2 .. 3 /\ n \in Nat /\ n >= 1 /\ n <= Most(d) /\ d \in 0 .. MAX_SHEBANG_DEPTH
        /\ d < MAX_SHEBANG_DEPTH
    BY <1>1, <1>6, <1>8, <1>9
  <2>2. m + n - 1 <= Most(d + 1)
    BY <2>1, RoomGrows
  <2> QED
    BY <2>1, <2>2
<1>12. Len(ex'.args) >= 1 /\ Len(ex'.args) <= Most(ex'.depth)
  BY <1>7, <1>9, <1>10, <1>11
<1>13. ex' \in [path : Names, host : Places, depth : 0 .. MAX_SHEBANG_DEPTH, rewritten : BOOLEAN,
               args : Seq(Arg)]
  <2>1. ex.depth + 1 \in 0 .. MAX_SHEBANG_DEPTH
    BY <1>1, <1>8, LimitsTyped
  <2> QED
    BY <1>2, <1>4, <1>5, <1>9, <1>10, <2>1
<1>14. ExOK'
  BY <1>1, <1>12, <1>13 DEF ExOK
<1> QED
  BY <1>1, <1>5, <1>14 DEF IInv, CacheOK

LEMMA LoaderStep ==
    ASSUME IInv, TurnLoader
    PROVE  IInv'
<1>1. at = "loop" /\ at' = "laid out" /\ ExOK /\ ex.depth < MAX_SHEBANG_DEPTH
  BY DEF TurnLoader, Turning, IInv
<1>2. Host \in Places /\ fs[Host] \in DOMAIN Kind
  BY <1>1, PlacesTyped DEF ExOK, Host, IInv
<1> DEFINE interp == elf_interp(FileAt(Host))
           argv0 == IF loader_has_argv0(Place(interp)) THEN <<"--argv0", ex.args[1].str>> ELSE <<>>
           lead == <<interp>> \o argv0 \o <<ex.path>>
<1>3. interp \in Names
  <2>1. interp # ""
    BY DEF TurnLoader
  <2> QED
    BY <1>2, <2>1, ExecAssumption DEF elf_interp, FileAt
<1>4. /\ ex' = [path |-> interp, host |-> Place(interp), depth |-> ex.depth, rewritten |-> TRUE,
                args |-> replace_head(ex.args, lead)]
      /\ cache' = Cached(Place(interp)) /\ pending_exe' = guest_absolute(ex.path)
      /\ UNCHANGED <<fs, exe>>
  BY DEF TurnLoader
<1> HIDE DEF interp
<1>5. /\ ex.args \in Seq(Arg) /\ Len(ex.args) \in Nat /\ Len(ex.args) >= 1
      /\ Len(ex.args) <= Most(ex.depth) /\ ex.depth \in 0 .. MAX_SHEBANG_DEPTH
  BY <1>1, LenProperties DEF ExOK
<1>6. lead \in Seq(DOMAIN Bytes) /\ Len(lead) \in 2 .. 4
  <2>1. /\ ex.path \in DOMAIN Bytes /\ interp \in DOMAIN Bytes /\ "--argv0" \in DOMAIN Bytes
    BY <1>1, <1>3, StringsAssumption DEF ExOK
  <2>2. ex.args[1].str \in DOMAIN Bytes
    <3>1. ex.args[1] \in Arg
      BY <1>5, ElementOfSeq
    <3> QED
      BY <3>1 DEF Arg
  <2>3. CASE loader_has_argv0(Place(interp))
    BY <2>1, <2>2, <2>3
  <2>4. CASE ~loader_has_argv0(Place(interp))
    BY <2>1, <2>4
  <2> QED
    BY <2>3, <2>4
<1> HIDE DEF lead
<1>7. /\ ex'.path = interp /\ ex'.host = Place(interp) /\ ex'.depth = ex.depth
      /\ ex'.args = replace_head(ex.args, lead)
  BY <1>4
<1>8. PICK args, n, d, m : args = ex.args /\ n = Len(args) /\ d = ex.depth /\ m = Len(lead)
  OBVIOUS
<1>9. /\ replace_head(args, lead) \in Seq(Arg)
      /\ Len(replace_head(args, lead)) = m + n - 1
  BY <1>5, <1>6, <1>8, HeadReplaced
<1>10. Len(ex'.args) <= Most(MAX_SHEBANG_DEPTH) + 1
  <2>1. m + n - 1 <= Most(MAX_SHEBANG_DEPTH) + 1
    BY <1>1, <1>5, <1>6, <1>8, RoomGrows
  <2> QED
    BY <1>7, <1>8, <1>9, <2>1
<1>11. Place(interp) \in Places /\ guest_absolute(ex.path) \in Names
  BY <1>1, <1>3, PlacesTyped DEF ExOK
<1>12. ExOK'
  <2>1. ex' \in [path : Names, host : Places, depth : 0 .. MAX_SHEBANG_DEPTH, rewritten : BOOLEAN,
                args : Seq(Arg)]
    BY <1>3, <1>4, <1>5, <1>8, <1>9, <1>11
  <2> QED
    BY <1>1, <1>10, <2>1 DEF ExOK
<1>13. CacheOK'
  BY <1>4, <1>11, CacheGrows DEF IInv
<1> QED
  BY <1>1, <1>4, <1>11, <1>12, <1>13 DEF IInv

LEMMA StillRoom ==
    ASSUME ExOK, at = "loop"
    PROVE  Len(ex.args) <= Most(MAX_SHEBANG_DEPTH) + 1
<1>1. /\ Len(ex.args) \in Nat /\ ex.depth \in 0 .. MAX_SHEBANG_DEPTH
      /\ Len(ex.args) <= Most(ex.depth)
  BY LenProperties DEF ExOK
<1> QED
  BY <1>1, RoomGrows

LEMMA NextIInv == IInv /\ [Next]_vars => IInv'
<1> SUFFICES ASSUME IInv, [Next]_vars PROVE IInv'
  OBVIOUS
<1>1. CASE UNCHANGED vars
  BY <1>1 DEF vars, IInv, CacheOK, ExOK
<1>2. ASSUME NEW n \in Names, NEW argv \in Argvs, NEW cut \in BOOLEAN, Call(n, argv, cut)
      PROVE  IInv'
  BY <1>2, CallStep
<1>3. CASE TurnStops
  <2>1. at = "loop" /\ at' = "laid out" /\ ExOK /\ Host \in Places /\ ex' = [ex EXCEPT !.host = Host]
        /\ UNCHANGED <<fs, cache, exe, pending_exe>>
    BY <1>3, PlacesTyped DEF TurnStops, Turning, IInv, ExOK, Host
  <2>2. /\ ex' \in [path : Names, host : Places, depth : 0 .. MAX_SHEBANG_DEPTH,
                    rewritten : BOOLEAN, args : Seq(Arg)]
        /\ ex'.args = ex.args
    BY <2>1 DEF ExOK
  <2>3. ExOK'
    BY <2>1, <2>2, StillRoom DEF ExOK
  <2> QED
    BY <2>1, <2>3 DEF IInv, CacheOK
<1>4. CASE TurnScript
  BY <1>4, ScriptStep
<1>5. CASE TurnLoader
  BY <1>5, LoaderStep
<1>6. CASE LoopEnds
  <2>1. at = "loop" /\ at' = "laid out" /\ ExOK /\ UNCHANGED <<fs, ex, cache, exe, pending_exe>>
    BY <1>6 DEF LoopEnds, IInv
  <2>2. ExOK'
    BY <2>1, StillRoom DEF ExOK
  <2> QED
    BY <2>1, <2>2 DEF IInv, CacheOK
<1>7. CASE LayOut \/ Kernel \/ Exit
  BY <1>7 DEF LayOut, Kernel, Exit, IInv, CacheOK
<1>8. CASE Upgrade
  <2>1. at = "user" /\ at' = at /\ UNCHANGED <<cache, exe, pending_exe>>
        /\ \E u \in Upgrades : fs' = [fs EXCEPT ![u[1]] = u[2]]
    BY <1>8 DEF Upgrade
  <2>2. fs' \in [Places -> DOMAIN Kind]
    BY <2>1, ExecAssumption DEF IInv
  <2> QED
    BY <2>1, <2>2 DEF IInv, CacheOK
<1> QED
  BY <1>1, <1>2, <1>3, <1>4, <1>5, <1>6, <1>7, <1>8 DEF Next

LEMMA AlwaysIInv == Spec => []IInv
BY InitIInv, NextIInv, PTL DEF Spec

-----------------------------------------------------------------------------
(* args, calloc'ed with 16 entries to spare (exec.c:195), holds what a     *)
(* chain of #! lines and the loader put in front of the guest's arguments; *)
(* the loop takes at most MAX_SHEBANG_DEPTH turns; loader_has_argv0's      *)
(* cache never has an entry too many.                                      *)
THEOREM TypeCorrect == Spec => []TypeOK
<1>1. IInv => TypeOK
  <2> SUFFICES ASSUME IInv PROVE TypeOK
    OBVIOUS
  <2>1. ASSUME at \in {"loop", "laid out"}
        PROVE  Len(ex.args) \in 0 .. MAX_EXEC_ARGS + 16 /\ ex.path \in Names /\ ex.host \in Places
    <3>1. ExOK /\ Len(ex.args) \in Nat
      BY <2>1, LenProperties DEF IInv, ExOK
    <3>2. Len(ex.args) <= Most(MAX_SHEBANG_DEPTH) + 1
      BY <2>1, <3>1, StillRoom DEF ExOK
    <3>3. Most(MAX_SHEBANG_DEPTH) + 1 <= MAX_EXEC_ARGS + 16 /\ Most(MAX_SHEBANG_DEPTH) \in Nat
      BY LimitsTyped DEF Most
    <3>4. PICK n : n = Len(ex.args)
      OBVIOUS
    <3>5. n \in 0 .. MAX_EXEC_ARGS + 16
      BY <3>1, <3>2, <3>3, <3>4, LimitsTyped
    <3> QED
      BY <3>1, <3>4, <3>5 DEF ExOK
  <2>2. at = "loop" => ex.depth \in 0 .. MAX_SHEBANG_DEPTH
    BY DEF IInv, ExOK
  <2> QED
    BY <2>1, <2>2 DEF IInv, CacheOK, TypeOK
<1> QED
  BY <1>1, AlwaysIInv, PTL

(* The block exec.c allocates for path, strings and pointers holds them,   *)
(* whatever their number and lengths: the allowance covers the alignment.  *)
THEOREM BlockHolds == Spec => []BlobFits
<1>1. ASSUME IInv, at = "laid out" PROVE used <= total
  <2> DEFINE cells == {OwnBytes(i) : i \in DOMAIN ex.args}
  <2>1. ex.args \in Seq(Arg) /\ Len(ex.args) \in Nat /\ DOMAIN ex.args = 1 .. Len(ex.args)
    BY <1>1, LenProperties DEF IInv, ExOK
  <2>2. ASSUME NEW i \in DOMAIN ex.args PROVE IsFiniteSet(OwnBytes(i))
    <3>1. ex.args[i] \in Arg
      BY <2>1, <2>2, ElementOfSeq
    <3>2. Bytes[ex.args[i].str] \in Nat
      BY <3>1, StringsAssumption DEF Arg
    <3>3. PICK b : b = Bytes[ex.args[i].str]
      OBVIOUS
    <3>4. IsFiniteSet(0 .. b) /\ IsFiniteSet({i})
      <4>1. b \in Int /\ 0 \in Int
        BY <3>2, <3>3
      <4>2. IsFiniteSet(0 .. b)
        BY <4>1, FS_Interval
      <4> QED
        BY <4>2, FS_Singleton
    <3>5. IsFiniteSet({i} \X (0 .. b)) /\ IsFiniteSet({})
      BY <3>4, FS_Product, FS_EmptySet
    <3> QED
      BY <3>3, <3>5 DEF OwnBytes
  <2>3. IsFiniteSet(cells)
    <3> DEFINE f == [i \in 1 .. Len(ex.args) |-> OwnBytes(i)]
    <3>1. f \in Surjection(1 .. Len(ex.args), cells)
      BY <2>1 DEF Surjection
    <3>2. IsFiniteSet(1 .. Len(ex.args))
      BY <2>1, FS_Interval
    <3> HIDE DEF f
    <3> QED
      BY <3>1, <3>2, FS_Surjection
  <2>4. \A T \in cells : IsFiniteSet(T)
    BY <2>2
  <2>5. Cardinality(UNION cells) \in Nat
    <3> HIDE DEF cells
    <3>1. IsFiniteSet(UNION cells)
      BY <2>3, <2>4, FS_UNION
    <3> QED
      BY <3>1, FS_CardinalityType
  <2>6. Bytes[ex.host[2]] \in Nat
    BY <1>1, StringsAssumption DEF IInv, ExOK, Places
  <2>7. StringsSize \in Nat
    BY <2>5, <2>6 DEF StringsSize
  <2>8. PICK n, k : n = StringsSize /\ k = (Len(ex.args) + 1) * WORD
    OBVIOUS
  <2>9. k \in Nat
    BY <2>1, <2>8 DEF WORD
  <2>10. ((n + 15) \div 16) * 16 <= n + 32
    BY <2>7, <2>8
  <2>11. ((n + 15) \div 16) * 16 + k <= n + k + 32
    BY <2>7, <2>8, <2>9, <2>10
  <2> QED
    BY <2>8, <2>11 DEF used, off, total
<1>2. IInv => BlobFits
  BY <1>1 DEF BlobFits
<1> QED
  BY <1>2, AlwaysIInv, PTL

-----------------------------------------------------------------------------
(* Induction: a set of naturals has a least member, and a function can be  *)
(* iterated.                                                               *)
LEMMA Least ==
    ASSUME NEW T \in SUBSET Nat, T # {}
    PROVE  \E x \in T : \A y \in T : x <= y
<1> DEFINE R == {ss \in Nat \X Nat : ss[1] < ss[2]}
<1>1. IsWellFoundedOn(R, Nat)
  BY NatLessThanWellFounded DEF OpToRel
<1> HIDE DEF R
<1>2. PICK x \in T : \A y \in T : ~ (<<y, x>> \in R)
  BY <1>1, WFMin
<1>3. \A y \in T : ~ (y < x)
  BY <1>2 DEF R
<1> QED
  BY <1>3

(* What holds of 0 and passes on to the next number holds of all: for the  *)
(* set of the numbers it holds of.                                         *)
LEMMA Induct ==
    ASSUME NEW T \in SUBSET Nat, 0 \in T, \A n \in T : n + 1 \in T
    PROVE  T = Nat
<1> SUFFICES ASSUME T # Nat PROVE FALSE
  OBVIOUS
<1>1. Nat \ T # {} /\ Nat \ T \in SUBSET Nat
  OBVIOUS
<1>2. PICK x \in Nat \ T : \A y \in Nat \ T : x <= y
  BY <1>1, Least
<1>3. x \in Nat /\ x # 0 /\ x - 1 \in Nat /\ ~(x <= x - 1) /\ (x - 1) + 1 = x
  BY <1>2
<1>4. x - 1 \in T
  BY <1>2, <1>3
<1> QED
  BY <1>2, <1>3, <1>4

IterateOf(f, S, T, x) ==
    f \in [Nat -> S] /\ f[0] = x /\ \A n \in Nat : f[n + 1] = T[f[n]]

LEMMA Iterates ==
    ASSUME NEW S, NEW T \in [S -> S], NEW x \in S
    PROVE  \E f : IterateOf(f, S, T, x)
<1> DEFINE A(n) == {g \in [0 .. n -> S] : g[0] = x /\ \A i \in 0 .. n - 1 : g[i + 1] = T[g[i]]}
           G(n) == CHOOSE g : g \in A(n)
           f == [n \in Nat |-> G(n)[n]]
<1>1. \A n \in Nat : A(n) # {}
  <2> DEFINE W == {n \in Nat : A(n) # {}}
  <2>1. 0 \in W
    <3>1. [i \in 0 .. 0 |-> x] \in A(0)
      OBVIOUS
    <3> QED
      BY <3>1
  <2>2. ASSUME NEW n \in W PROVE n + 1 \in W
    <3>1. n \in Nat /\ n + 1 \in Nat
      OBVIOUS
    <3>2. PICK g : g \in A(n)
      OBVIOUS
    <3> DEFINE h == [i \in 0 .. n + 1 |-> IF i = n + 1 THEN T[g[n]] ELSE g[i]]
    <3>3. h \in [0 .. n + 1 -> S] /\ h[0] = x
      BY <3>1, <3>2
    <3>4. ASSUME NEW i \in 0 .. (n + 1) - 1 PROVE h[i + 1] = T[h[i]]
      <4>1. i \in 0 .. n /\ i # n + 1 /\ i \in 0 .. n + 1 /\ i + 1 \in 0 .. n + 1
        BY <3>1
      <4>2. h[i] = g[i]
        BY <3>1, <4>1
      <4>3. CASE i = n
        BY <3>1, <4>1, <4>2, <4>3
      <4>4. CASE i # n
        <5>1. i \in 0 .. n - 1 /\ i + 1 # n + 1
          BY <3>1, <4>1, <4>4
        <5>2. h[i + 1] = g[i + 1]
          BY <3>1, <4>1, <5>1
        <5> QED
          BY <3>2, <4>2, <5>1, <5>2
      <4> QED
        BY <4>3, <4>4
    <3> HIDE DEF h
    <3>5. h \in A(n + 1)
      BY <3>3, <3>4
    <3> QED
      BY <3>1, <3>5
  <2> HIDE DEF A
  <2>3. W \in SUBSET Nat
    OBVIOUS
  <2> HIDE DEF W
  <2>4. W = Nat
    BY <2>1, <2>2, <2>3, Induct
  <2> QED
    BY <2>4 DEF W
<1>2. ASSUME NEW m \in Nat, NEW n \in Nat, m <= n, NEW g \in A(m), NEW h \in A(n)
      PROVE  g[m] = h[m]
  <2> DEFINE W == {i \in Nat : i <= m => g[i] = h[i]}
  <2>1. 0 \in W
    OBVIOUS
  <2>2. ASSUME NEW i \in W PROVE i + 1 \in W
    <3>1. i \in Nat /\ i + 1 \in Nat
      OBVIOUS
    <3> SUFFICES ASSUME i + 1 <= m PROVE g[i + 1] = h[i + 1]
      BY <3>1
    <3>2. i <= m /\ i \in 0 .. m - 1 /\ i \in 0 .. n - 1
      BY <1>2, <3>1
    <3>3. g[i] = h[i]
      BY <3>2
    <3> QED
      BY <3>2, <3>3
  <2>3. W \in SUBSET Nat
    OBVIOUS
  <2> HIDE DEF W, A
  <2>4. W = Nat
    BY <2>1, <2>2, <2>3, Induct
  <2> QED
    BY <2>4 DEF W
<1>3. \A n \in Nat : G(n) \in A(n)
  <2> HIDE DEF A
  <2> QED
    BY <1>1
<1> HIDE DEF G
<1>4. \A n \in Nat : f[n] = G(n)[n] /\ f[n] \in S
  BY <1>3
<1>5. f[0] = x
  BY <1>3, <1>4
<1>6. ASSUME NEW n \in Nat PROVE f[n + 1] = T[f[n]]
  <2>1. n + 1 \in Nat /\ n \in 0 .. (n + 1) - 1 /\ n <= n + 1
    OBVIOUS
  <2>2. G(n + 1)[n + 1] = T[G(n + 1)[n]]
    BY <1>3, <2>1
  <2>3. G(n)[n] = G(n + 1)[n]
    BY <1>2, <1>3, <2>1
  <2> QED
    BY <1>4, <2>1, <2>2, <2>3
<1>7. f \in [Nat -> S]
  BY <1>4
<1> HIDE DEF f
<1> QED
  BY <1>5, <1>6, <1>7 DEF IterateOf

-----------------------------------------------------------------------------
(* The kernel's turns. *)
Str == DOMAIN Bytes \cup {""}
KState == [place : Places, name : Names, ret : {"running", "ENOENT", "EACCES", "ENOEXEC", "ok"},
           loader : DOMAIN Kind, scripts : Nat, seen : SUBSET DOMAIN Kind, argv : Seq(Str) \ {<<>>}]

LEMMA NameFacts ==
    ASSUME NEW n \in Names
    PROVE  /\ Absolute[n] \in Names /\ Absolute[n] # "" /\ n # ""
           /\ Place(n) \in Places /\ OnHost(n) \in Places /\ Place(n)[2] = Absolute[n]
<1>1. Absolute[n] \in Names
  BY ExecAssumption
<1>2. "" \notin Names
  BY StringsAssumption
<1> QED
  BY <1>1, <1>2 DEF Place, OnHost, Places

LEMMA KindFacts ==
    ASSUME NEW f \in DOMAIN Kind
    PROVE  /\ Kind[f].type \in {"script", "dynamic", "static", "loader", "text", "none"}
           /\ Kind[f].type = "none" <=> f = NoFile
           /\ Kind[f].argv0 => Kind[f].type = "loader"
           /\ Kind[f].argv0 \in BOOLEAN /\ Kind[f].readable \in BOOLEAN /\ Kind[f].exec \in BOOLEAN
           /\ Kind[f].type \in {"script", "dynamic"} => Kind[f].interp \in Names \ Relative
           /\ Kind[f].type = "script" =>
                Kind[f].arg = NoArg \/ (Kind[f].arg \in DOMAIN Bytes /\ Kind[f].raw \in DOMAIN Bytes)
BY ExecAssumption

(* What one turn does, by what it finds. *)
TurnEffect(side, s, f) ==
    /\ f = NoFile =>
         KernelTurn(side, s) = [s EXCEPT !.ret = "ENOENT", !.seen = @ \cup {f}]
    /\ f # NoFile /\ ~Kind[f].exec =>
         KernelTurn(side, s) = [s EXCEPT !.ret = "EACCES", !.seen = @ \cup {f}]
    /\ Kind[f].exec /\ Kind[f].type = "text" =>
         KernelTurn(side, s) = [s EXCEPT !.ret = "ENOEXEC", !.seen = @ \cup {f}]
    /\ Kind[f].exec /\ Kind[f].type = "script" =>
         KernelTurn(side, s) =
             [s EXCEPT !.place = Where(side, Kind[f].interp), !.name = Kind[f].interp,
                       !.argv = <<Kind[f].interp>>
                                \o (IF Kind[f].arg = NoArg THEN <<>> ELSE <<Kind[f].raw>>)
                                \o <<s.name>> \o Tail(@),
                       !.scripts = @ + 1, !.seen = @ \cup {f}]
    /\ Kind[f].exec /\ Kind[f].type = "dynamic" =>
         KernelTurn(side, s) =
             IF fs[Where(side, Kind[f].interp)] = NoFile
             THEN [s EXCEPT !.ret = "ENOENT", !.seen = @ \cup {f}]
             ELSE IF ~Kind[fs[Where(side, Kind[f].interp)]].exec
             THEN [s EXCEPT !.ret = "EACCES", !.seen = @ \cup {f}]
             ELSE [s EXCEPT !.ret = "ok", !.seen = @ \cup {f},
                            !.loader = fs[Where(side, Kind[f].interp)]]
    /\ Kind[f].exec /\ Kind[f].type \in {"static", "loader"} =>
         KernelTurn(side, s) = [s EXCEPT !.ret = "ok", !.seen = @ \cup {f}]

LEMMA TurnIs ==
    ASSUME fs \in [Places -> DOMAIN Kind], NEW side \in {"root", "host"}, NEW s \in KState,
           s.ret = "running", NEW f, f = fs[s.place]
    PROVE  f \in DOMAIN Kind /\ TurnEffect(side, s, f)
<1>1. f \in DOMAIN Kind
  BY DEF KState
<1>2. /\ Kind[f].type \in {"script", "dynamic", "static", "loader", "text", "none"}
      /\ Kind[f].type = "none" <=> f = NoFile
  BY <1>1, KindFacts
<1>3. CASE f = NoFile
  BY <1>1, <1>2, <1>3 DEF KernelTurn, FileAt, TurnEffect
<1>4. CASE f # NoFile /\ ~Kind[f].exec
  BY <1>1, <1>2, <1>4 DEF KernelTurn, FileAt, TurnEffect
<1>5. CASE f # NoFile /\ Kind[f].exec /\ Kind[f].type = "text"
  BY <1>1, <1>2, <1>5 DEF KernelTurn, FileAt, TurnEffect
<1>6. CASE f # NoFile /\ Kind[f].exec /\ Kind[f].type = "script"
  BY <1>1, <1>2, <1>6 DEF KernelTurn, FileAt, TurnEffect
<1>7. CASE f # NoFile /\ Kind[f].exec /\ Kind[f].type = "dynamic"
  BY <1>1, <1>2, <1>7 DEF KernelTurn, FileAt, TurnEffect, KState
<1>8. CASE f # NoFile /\ Kind[f].exec /\ Kind[f].type \in {"static", "loader"}
  BY <1>1, <1>2, <1>8 DEF KernelTurn, FileAt, TurnEffect
<1> QED
  BY <1>1, <1>2, <1>3, <1>4, <1>5, <1>6, <1>7, <1>8 DEF TurnEffect

LEMMA TurnTyped ==
    ASSUME fs \in [Places -> DOMAIN Kind], NEW side \in {"root", "host"}, NEW s \in KState
    PROVE  /\ KernelTurn(side, s) \in KState
           /\ s.ret # "running" => KernelTurn(side, s) = s
           /\ s.seen \subseteq KernelTurn(side, s).seen
           /\ s.scripts <= KernelTurn(side, s).scripts
<1>1. CASE s.ret # "running"
  <2>1. KernelTurn(side, s) = s
    BY <1>1 DEF KernelTurn
  <2> QED
    BY <1>1, <2>1 DEF KState
<1>2. CASE s.ret = "running"
  <2>1. PICK f : f = fs[s.place]
    OBVIOUS
  <2>2. /\ f \in DOMAIN Kind /\ TurnEffect(side, s, f)
        /\ Kind[f].type \in {"script", "dynamic", "static", "loader", "text", "none"}
        /\ (Kind[f].type = "none" <=> f = NoFile) /\ Kind[f].exec \in BOOLEAN
    <3>1. f \in DOMAIN Kind /\ TurnEffect(side, s, f)
      BY <1>2, <2>1, TurnIs
    <3> QED
      BY <3>1, KindFacts
  <2>3. /\ s.seen \cup {f} \in SUBSET DOMAIN Kind /\ s.seen \subseteq s.seen \cup {f}
        /\ s.scripts \in Nat /\ s.scripts <= s.scripts
    BY <2>2 DEF KState
  <2>4. CASE f = NoFile
    <3>1. KernelTurn(side, s) = [s EXCEPT !.ret = "ENOENT", !.seen = @ \cup {f}]
      BY <2>2, <2>4 DEF TurnEffect
    <3> QED
      BY <1>2, <2>3, <3>1 DEF KState
  <2>10. CASE f # NoFile /\ ~Kind[f].exec
    <3>1. KernelTurn(side, s) = [s EXCEPT !.ret = "EACCES", !.seen = @ \cup {f}]
      BY <2>2, <2>10 DEF TurnEffect
    <3> QED
      BY <1>2, <2>3, <3>1 DEF KState
  <2>5. CASE Kind[f].exec /\ Kind[f].type = "text"
    <3>1. KernelTurn(side, s) = [s EXCEPT !.ret = "ENOEXEC", !.seen = @ \cup {f}]
      BY <2>2, <2>5 DEF TurnEffect
    <3> QED
      BY <1>2, <2>3, <3>1 DEF KState
  <2>6. CASE Kind[f].exec /\ Kind[f].type \in {"static", "loader"}
    <3>1. KernelTurn(side, s) = [s EXCEPT !.ret = "ok", !.seen = @ \cup {f}]
      BY <2>2, <2>6 DEF TurnEffect
    <3> QED
      BY <1>2, <2>3, <3>1 DEF KState
  <2>7. ASSUME Kind[f].type \in {"script", "dynamic"}
        PROVE  Kind[f].interp \in Names /\ Where(side, Kind[f].interp) \in Places
    <3>1. Kind[f].interp \in Names
      BY <2>2, <2>7, KindFacts
    <3> QED
      BY <3>1, NameFacts DEF Where
  <2>8. CASE Kind[f].exec /\ Kind[f].type = "dynamic"
    <3>1. PICK l : l = fs[Where(side, Kind[f].interp)]
      OBVIOUS
    <3>2. KernelTurn(side, s) =
            IF l = NoFile THEN [s EXCEPT !.ret = "ENOENT", !.seen = @ \cup {f}]
            ELSE IF ~Kind[l].exec THEN [s EXCEPT !.ret = "EACCES", !.seen = @ \cup {f}]
            ELSE [s EXCEPT !.ret = "ok", !.seen = @ \cup {f}, !.loader = l]
      BY <2>2, <2>8, <3>1 DEF TurnEffect
    <3>3. l \in DOMAIN Kind
      BY <2>7, <2>8, <3>1
    <3> QED
      BY <1>2, <2>3, <3>2, <3>3, ZenonT(30) DEF KState
  <2>9. CASE Kind[f].exec /\ Kind[f].type = "script"
    <3> DEFINE arg == IF Kind[f].arg = NoArg THEN <<>> ELSE <<Kind[f].raw>>
               argv == <<Kind[f].interp>> \o arg \o <<s.name>> \o Tail(s.argv)
    <3>1. KernelTurn(side, s) =
            [s EXCEPT !.place = Where(side, Kind[f].interp), !.name = Kind[f].interp,
                      !.argv = argv, !.scripts = @ + 1, !.seen = @ \cup {f}]
      BY <2>2, <2>9 DEF TurnEffect
    <3>2. argv \in Seq(Str) \ {<<>>}
      <4>1. Tail(s.argv) \in Seq(Str)
        <5>1. PICK a : a = s.argv
          OBVIOUS
        <5>2. a \in Seq(Str) /\ a # <<>>
          BY <5>1 DEF KState
        <5> QED
          BY <5>1, <5>2, HeadTailProperties
      <4>2. Kind[f].interp \in Str /\ s.name \in Str
        BY <2>7, <2>9, StringsAssumption DEF Str, KState
      <4>3. arg \in Seq(Str)
        <5>1. PICK r : r = Kind[f].raw
          OBVIOUS
        <5>2. Kind[f].arg # NoArg => r \in Str
          BY <2>2, <2>9, <5>1, KindFacts DEF Str
        <5> QED
          BY <5>1, <5>2
      <4> HIDE DEF arg
      <4> QED
        BY <4>1, <4>2, <4>3
    <3>3. PICK a, w, i, q, k :
            a = argv /\ w = Where(side, Kind[f].interp) /\ i = Kind[f].interp
            /\ q = s.seen \cup {f} /\ k = KernelTurn(side, s)
      OBVIOUS
    <3> HIDE DEF argv
    <3>4. k = [s EXCEPT !.place = w, !.name = i, !.argv = a, !.scripts = s.scripts + 1, !.seen = q]
      BY <3>1, <3>3
    <3>5. a \in Seq(Str) \ {<<>>} /\ w \in Places /\ i \in Names /\ q \in SUBSET DOMAIN Kind
          /\ s.scripts + 1 \in Nat /\ s.scripts <= s.scripts + 1 /\ s.seen \subseteq q
      BY <2>3, <2>7, <2>9, <3>2, <3>3
    <3>6. k \in KState
      BY <3>4, <3>5 DEF KState
    <3>7. k.scripts = s.scripts + 1 /\ k.seen = q
      BY <3>4 DEF KState
    <3> QED
      BY <1>2, <3>3, <3>5, <3>6, <3>7
  <2> QED
    BY <2>2, <2>4, <2>5, <2>6, <2>8, <2>9, <2>10
<1> QED
  BY <1>1, <1>2

(* The recursive function is one: each turn follows from the one before. *)
LEMMA TurnsAre ==
    ASSUME fs \in [Places -> DOMAIN Kind], NEW side \in {"root", "host"}, NEW s \in KState
    PROVE  /\ KernelTurns(side, s) \in [Nat -> KState]
           /\ KernelTurns(side, s)[0] = s
           /\ \A n \in Nat : KernelTurns(side, s)[n + 1] = KernelTurn(side, KernelTurns(side, s)[n])
<1> DEFINE T == [k \in KState |-> KernelTurn(side, k)]
           Is(g) == g = [n \in Nat |-> IF n = 0 THEN s ELSE KernelTurn(side, g[n - 1])]
           t == KernelTurns(side, s)
<1>1. T \in [KState -> KState]
  BY TurnTyped
<1>2. PICK f \in [Nat -> KState] : f[0] = s /\ \A n \in Nat : f[n + 1] = T[f[n]]
  <2> HIDE DEF T
  <2>1. PICK S, U : S = KState /\ U = T
    OBVIOUS
  <2>2. U \in [S -> S] /\ s \in S
    BY <1>1, <2>1
  <2>3. \E f : IterateOf(f, S, U, s)
    BY <2>2, Iterates
  <2> QED
    BY <2>1, <2>3 DEF IterateOf
<1>3. Is(f)
  <2>1. ASSUME NEW n \in Nat PROVE f[n] = IF n = 0 THEN s ELSE KernelTurn(side, f[n - 1])
    <3>1. CASE n = 0
      BY <1>2, <3>1
    <3>2. CASE n # 0
      <4>1. n - 1 \in Nat /\ (n - 1) + 1 = n
        BY <3>2
      <4>2. f[(n - 1) + 1] = T[f[n - 1]] /\ f[n - 1] \in KState
        BY <1>2, <4>1
      <4> QED
        BY <3>2, <4>1, <4>2
    <3> QED
      BY <3>1, <3>2
  <2> QED
    BY <2>1
<1>4. t = CHOOSE g : Is(g)
  BY DEF KernelTurns
<1> HIDE DEF Is, T
<1>5. Is(t)
  BY <1>3, <1>4
<1> HIDE DEF t
<1>6. t[0] = s /\ \A n \in Nat : t[n + 1] = KernelTurn(side, t[n])
  <2>1. \A n \in Nat : t[n] = IF n = 0 THEN s ELSE KernelTurn(side, t[n - 1])
    BY <1>5 DEF Is
  <2>2. ASSUME NEW n \in Nat PROVE t[n + 1] = KernelTurn(side, t[n])
    <3>1. n + 1 \in Nat /\ n + 1 # 0 /\ (n + 1) - 1 = n
      OBVIOUS
    <3> QED
      BY <2>1, <3>1
  <2> QED
    BY <2>1, <2>2
<1>7. \A n \in Nat : t[n] \in KState
  <2> DEFINE W == {n \in Nat : t[n] \in KState}
  <2>1. 0 \in W
    BY <1>6
  <2>2. ASSUME NEW n \in W PROVE n + 1 \in W
    <3>1. t[n] \in KState /\ n \in Nat /\ n + 1 \in Nat
      OBVIOUS
    <3>2. KernelTurn(side, t[n]) \in KState
      BY <3>1, TurnTyped
    <3> QED
      BY <1>6, <3>1, <3>2
  <2>3. W \in SUBSET Nat
    OBVIOUS
  <2> HIDE DEF W
  <2>4. W = Nat
    BY <2>1, <2>2, <2>3, Induct
  <2> QED
    BY <2>4 DEF W
<1>8. t \in [Nat -> KState]
  <2>1. t = [n \in Nat |-> IF n = 0 THEN s ELSE KernelTurn(side, t[n - 1])]
    BY <1>5 DEF Is
  <2>2. PICK e : e = [n \in Nat |-> IF n = 0 THEN s ELSE KernelTurn(side, t[n - 1])]
    OBVIOUS
  <2>3. DOMAIN t = Nat /\ t = [n \in Nat |-> t[n]]
    BY <2>1, <2>2
  <2> QED
    BY <1>7, <2>3
<1> QED
  BY <1>6, <1>8 DEF t

(* Later turns keep what was seen; once it has stopped it stays as it is.  *)
LEMMA TurnsGo ==
    ASSUME fs \in [Places -> DOMAIN Kind], NEW side \in {"root", "host"}, NEW s \in KState,
           NEW m \in Nat, NEW n \in Nat, m <= n,
           NEW t, t = KernelTurns(side, s)
    PROVE  /\ t[m].seen \subseteq t[n].seen /\ t[m].scripts <= t[n].scripts
           /\ t[m].ret # "running" => t[n] = t[m]
<1>1. t \in [Nat -> KState] /\ \A i \in Nat : t[i + 1] = KernelTurn(side, t[i])
  BY TurnsAre, ZenonT(30)
<1> DEFINE W == {d \in Nat : /\ t[m].seen \subseteq t[m + d].seen /\ t[m].scripts <= t[m + d].scripts
                             /\ t[m].ret # "running" => t[m + d] = t[m]}
<1>2. 0 \in W
  <2>1. t[m].scripts \in Nat /\ m + 0 = m
    BY <1>1 DEF KState
  <2> QED
    BY <2>1
<1>3. ASSUME NEW d \in W PROVE d + 1 \in W
  <2>1. d \in Nat /\ m + d \in Nat /\ (m + d) + 1 = m + (d + 1) /\ d + 1 \in Nat
    OBVIOUS
  <2>2. t[m + d] \in KState /\ t[m] \in KState /\ t[m + (d + 1)] = KernelTurn(side, t[m + d])
    <3>1. t[(m + d) + 1] = KernelTurn(side, t[m + d])
      BY <1>1, <2>1
    <3> QED
      BY <1>1, <2>1, <3>1
  <2>3. PICK a, b, c : a = t[m] /\ b = t[m + d] /\ c = t[m + (d + 1)]
    OBVIOUS
  <2>4. /\ c \in KState /\ (b.ret # "running" => c = b)
        /\ b.seen \subseteq c.seen /\ b.scripts <= c.scripts
    BY <2>2, <2>3, TurnTyped
  <2>5. /\ a.seen \subseteq b.seen /\ a.scripts <= b.scripts /\ (a.ret # "running" => b = a)
    BY <2>3
  <2>6. a.scripts \in Nat /\ b.scripts \in Nat /\ c.scripts \in Nat
    BY <2>2, <2>3, <2>4 DEF KState
  <2>7. a.seen \subseteq c.seen /\ a.scripts <= c.scripts /\ (a.ret # "running" => c = a)
    BY <2>4, <2>5, <2>6
  <2> QED
    BY <2>1, <2>3, <2>7
<1>4. W \in SUBSET Nat
  OBVIOUS
<1>5. n - m \in Nat /\ m + (n - m) = n
  OBVIOUS
<1> HIDE DEF W
<1>6. W = Nat
  BY <1>2, <1>3, <1>4, Induct
<1>7. n - m \in W
  BY <1>5, <1>6
<1> QED
  BY <1>5, <1>7 DEF W

-----------------------------------------------------------------------------
(* The reference: the turns a kernel takes under a real chroot.            *)
Turns == KernelTurns("root", KernelStart(Place(asked.path), asked.path, asked.argv))

AskedOK == asked \in [path : Names, argv : Argvs, cut : BOOLEAN, oom : BOOLEAN]

LEMMA StartTyped ==
    ASSUME NEW place \in Places, NEW name \in Names, NEW argv \in Seq(DOMAIN Bytes)
    PROVE  /\ KernelStart(place, name, argv) \in KState
           /\ KernelStart(place, name, argv).ret = "running"
           /\ KernelStart(place, name, argv).place = place
           /\ KernelStart(place, name, argv).name = name
           /\ KernelStart(place, name, argv).scripts = 0
           /\ KernelStart(place, name, argv).seen = {}
           /\ KernelStart(place, name, argv).loader = NoFile
           /\ argv # <<>> => KernelStart(place, name, argv).argv = argv
<1>1. PICK a : a = IF argv = <<>> THEN <<"">> ELSE argv
  OBVIOUS
<1>2. a \in Seq(Str) \ {<<>>}
  <2>1. argv \in Seq(Str)
    <3>1. \A i \in 1 .. Len(argv) : argv[i] \in Str
      BY ElementOfSeq DEF Str
    <3> QED
      BY <3>1
  <2>2. <<"">> \in Seq(Str) \ {<<>>}
    BY DEF Str
  <2> QED
    BY <1>1, <2>1, <2>2
<1>3. NoFile \in DOMAIN Kind
  BY ExecAssumption
<1>4. KernelStart(place, name, argv) =
        [place |-> place, name |-> name, ret |-> "running", loader |-> NoFile, scripts |-> 0,
         seen |-> {}, argv |-> a]
  BY <1>1 DEF KernelStart
<1>5. KernelStart(place, name, argv) \in KState
  BY <1>2, <1>3, <1>4 DEF KState
<1>6. PICK s : s = KernelStart(place, name, argv)
  OBVIOUS
<1>7. s.ret = "running" /\ s.place = place /\ s.name = name /\ s.scripts = 0 /\ s.seen = {}
      /\ s.loader = NoFile /\ s.argv = a
  BY <1>4, <1>6
<1> QED
  BY <1>1, <1>5, <1>6, <1>7

LEMMA AskedStart ==
    ASSUME AskedOK
    PROVE  /\ asked.path \in Names /\ asked.argv \in Seq(DOMAIN Bytes) /\ Len(asked.argv) \in Nat
           /\ KernelStart(Place(asked.path), asked.path, asked.argv) \in KState
<1>1. asked.path \in Names /\ asked.argv \in Seq(DOMAIN Bytes)
  BY StringsAssumption DEF AskedOK
<1> QED
  BY <1>1, NameFacts, StartTyped, LenProperties

(* What the whole run keeps of a turn. *)
LEMMA NativeKeeps ==
    ASSUME fs \in [Places -> DOMAIN Kind], AskedOK, NEW n \in Nat, n <= KERNEL_DEPTH + 1
    PROVE  /\ Turns[n] \in KState
           /\ Turns[n].seen \subseteq Native.seen /\ Turns[n].scripts <= Native.scripts
           /\ Native.scripts \in Nat
           /\ Turns[n].ret # "running" => Native = Turns[n]
<1>1. PICK s, m, t : /\ s = KernelStart(Place(asked.path), asked.path, asked.argv)
                     /\ m = KERNEL_DEPTH + 1 /\ t = KernelTurns("root", s)
  OBVIOUS
<1>2. s \in KState /\ m \in Nat /\ n <= m
  <2>1. s \in KState
    BY <1>1, AskedStart
  <2> QED
    BY <1>1, <2>1, LimitsTyped
<1>3. t \in [Nat -> KState]
  BY <1>1, <1>2, TurnsAre
<1>4. t[n].seen \subseteq t[m].seen /\ t[n].scripts <= t[m].scripts
      /\ (t[n].ret # "running" => t[m] = t[n])
  BY <1>1, <1>2, TurnsGo
<1>5. t = Turns
  BY <1>1 DEF Turns
<1>6. Native = IF t[m].ret = "running" THEN [t[m] EXCEPT !.ret = "ELOOP"] ELSE t[m]
  BY <1>1 DEF Native, KernelExec
<1>7. t[m] \in KState
  BY <1>2, <1>3
<1>8. Native.seen = t[m].seen /\ Native.scripts = t[m].scripts /\ Native.scripts \in Nat
  <2>1. PICK z : z = t[m]
    OBVIOUS
  <2>2. z \in KState /\ Native = IF z.ret = "running" THEN [z EXCEPT !.ret = "ELOOP"] ELSE z
    BY <1>6, <1>7, <2>1
  <2>3. Native.seen = z.seen /\ Native.scripts = z.scripts /\ z.scripts \in Nat
    BY <2>2 DEF KState
  <2> QED
    BY <2>1, <2>3
<1> QED
  BY <1>3, <1>4, <1>5, <1>6, <1>8

LEMMA TurnsNext ==
    ASSUME fs \in [Places -> DOMAIN Kind], AskedOK, NEW n \in Nat
    PROVE  Turns[n + 1] = KernelTurn("root", Turns[n])
<1>1. PICK s : s = KernelStart(Place(asked.path), asked.path, asked.argv)
  OBVIOUS
<1>2. s \in KState
  BY <1>1, AskedStart
<1> QED
  BY <1>1, <1>2, TurnsAre DEF Turns

LEMMA TurnsFirst ==
    ASSUME fs \in [Places -> DOMAIN Kind], AskedOK
    PROVE  Turns[0] = KernelStart(Place(asked.path), asked.path, asked.argv)
<1>1. PICK s : s = KernelStart(Place(asked.path), asked.path, asked.argv)
  OBVIOUS
<1>2. s \in KState
  BY <1>1, AskedStart
<1> QED
  BY <1>1, <1>2, TurnsAre DEF Turns

(* The host's kernel ends as its first turn does, if that one ends it.     *)
LEMMA HostEnds ==
    ASSUME fs \in [Places -> DOMAIN Kind], NEW place \in Places, NEW name \in Names,
           NEW argv \in Seq(DOMAIN Bytes),
           NEW k, k = KernelTurn("host", KernelStart(place, name, argv)), k.ret # "running"
    PROVE  KernelExec("host", place, name, argv) = k
<1>1. PICK s, m, t : s = KernelStart(place, name, argv) /\ m = KERNEL_DEPTH + 1
                     /\ t = KernelTurns("host", s)
  OBVIOUS
<1>2. s \in KState /\ m \in Nat /\ 1 <= m /\ 0 \in Nat /\ 1 \in Nat /\ 0 + 1 = 1
  <2>1. s \in KState
    BY <1>1, StartTyped
  <2> QED
    BY <1>1, <2>1, LimitsTyped
<1>3. t[0] = s /\ t[0 + 1] = KernelTurn("host", t[0])
  BY <1>1, <1>2, TurnsAre, ZenonT(30)
<1>4. t[1] = k
  BY <1>1, <1>2, <1>3
<1>5. t[m] = k
  BY <1>1, <1>2, <1>4, TurnsGo
<1> QED
  BY <1>1, <1>5 DEF KernelExec

LEMMA SameReference ==
    ASSUME fs' = fs, asked' = asked
    PROVE  Turns' = Turns /\ Native' = Native /\ Provided' = Provided
<1>1. Turns' = Turns /\ Native' = Native
  BY DEF Turns, Native, KernelExec, KernelStart, KernelTurns, KernelTurn, FileAt, Where, Place, OnHost
<1> QED
  BY <1>1 DEF Provided, FileAt, Place

-----------------------------------------------------------------------------
(* The texts of the arguments. *)
LEMMA TextsTyped ==
    ASSUME NEW args \in Seq(Arg)
    PROVE  /\ Texts(args) \in Seq(DOMAIN Bytes) /\ Len(Texts(args)) = Len(args)
           /\ Len(args) \in Nat
           /\ \A i \in 1 .. Len(args) : args[i] \in Arg /\ Texts(args)[i] = args[i].str
<1>1. Len(args) \in Nat /\ \A i \in 1 .. Len(args) : args[i] \in Arg
  BY ElementOfSeq, LenProperties
<1>2. \A i \in 1 .. Len(args) : args[i].str \in DOMAIN Bytes
  BY <1>1 DEF Arg
<1>3. Texts(args) = [i \in 1 .. Len(args) |-> args[i].str]
  BY DEF Texts
<1>4. PICK t : t = Texts(args)
  OBVIOUS
<1>5. t \in [1 .. Len(args) -> DOMAIN Bytes] /\ \A i \in 1 .. Len(args) : t[i] = args[i].str
  BY <1>2, <1>3, <1>4
<1>6. t \in Seq(DOMAIN Bytes) /\ Len(t) = Len(args)
  BY <1>1, <1>5
<1> QED
  BY <1>1, <1>4, <1>5, <1>6

LEMMA JoinIs ==
    ASSUME NEW S, NEW a \in Seq(S), NEW b \in Seq(S), NEW m, NEW n, m = Len(a), n = Len(b)
    PROVE  /\ a \o b \in Seq(S) /\ Len(a \o b) = m + n
           /\ \A i \in 1 .. m + n : (a \o b)[i] = IF i <= m THEN a[i] ELSE b[i - m]
BY ConcatProperties

LEMMA TextsReplaced ==
    ASSUME NEW args \in Seq(Arg), Len(args) >= 1, NEW lead \in Seq(DOMAIN Bytes)
    PROVE  Texts(replace_head(args, lead)) = lead \o Tail(Texts(args))
<1> DEFINE own == [i \in 1 .. Len(lead) |-> Own(lead[i])]
<1>1. PICK r, w, u, t : r = replace_head(args, lead) /\ w = own /\ u = Tail(args) /\ t = Texts(args)
  OBVIOUS
<1>2. PICK m, n : m = Len(lead) /\ n = Len(args)
  OBVIOUS
<1>3. m \in Nat /\ n \in Nat /\ n >= 1 /\ args # <<>>
  BY <1>2, LenProperties
<1>4. t \in Seq(DOMAIN Bytes) /\ Len(t) = n /\ t # <<>> /\ \A i \in 1 .. n : t[i] = args[i].str
  <2>1. t \in Seq(DOMAIN Bytes) /\ Len(t) = n /\ \A i \in 1 .. n : t[i] = args[i].str
    BY <1>1, <1>2, TextsTyped
  <2> QED
    BY <1>3, <2>1
<1>5. w \in Seq(Arg) /\ Len(w) = m /\ \A i \in 1 .. m : w[i].str = lead[i]
  <2>1. \A i \in 1 .. m : lead[i] \in DOMAIN Bytes
    BY <1>2, ElementOfSeq
  <2>2. \A i \in 1 .. m : Own(lead[i]) \in Arg /\ Own(lead[i]).str = lead[i]
    BY <2>1 DEF Own, Arg
  <2>3. w \in [1 .. m -> Arg] /\ \A i \in 1 .. m : w[i] = Own(lead[i])
    BY <1>1, <1>2, <2>2
  <2> QED
    BY <1>3, <2>2, <2>3
<1>6. u \in Seq(Arg) /\ Len(u) = n - 1 /\ \A i \in 1 .. n - 1 : u[i] = args[i + 1]
  BY <1>1, <1>2, <1>3, HeadTailProperties
<1>7. Tail(t) \in Seq(DOMAIN Bytes) /\ Len(Tail(t)) = n - 1 /\ \A i \in 1 .. n - 1 : Tail(t)[i] = t[i + 1]
  BY <1>3, <1>4, HeadTailProperties
<1>8. r = w \o u
  BY <1>1 DEF replace_head
<1>9. r \in Seq(Arg) /\ Len(r) = m + n - 1
      /\ \A i \in 1 .. m + n - 1 : r[i] = IF i <= m THEN w[i] ELSE u[i - m]
  <2>1. PICK z : z = w \o u
    OBVIOUS
  <2>2. z \in Seq(Arg) /\ Len(z) = m + (n - 1)
        /\ \A i \in 1 .. m + (n - 1) : z[i] = IF i <= m THEN w[i] ELSE u[i - m]
    BY <1>5, <1>6, <2>1, JoinIs
  <2> QED
    BY <1>3, <1>8, <2>1, <2>2
<1>10. PICK a, b : a = Texts(r) /\ b = lead \o Tail(t)
  OBVIOUS
<1>11. a \in Seq(DOMAIN Bytes) /\ Len(a) = m + n - 1 /\ \A i \in 1 .. m + n - 1 : a[i] = r[i].str
  BY <1>9, <1>10, TextsTyped
<1>12. b \in Seq(DOMAIN Bytes) /\ Len(b) = m + n - 1
       /\ \A i \in 1 .. m + n - 1 : b[i] = IF i <= m THEN lead[i] ELSE Tail(t)[i - m]
  <2>1. PICK v, D, q : v = Tail(t) /\ D = DOMAIN Bytes /\ q = n - 1
    OBVIOUS
  <2>2. v \in Seq(D) /\ q = Len(v) /\ lead \in Seq(D) /\ m = Len(lead) /\ b = lead \o v
    BY <1>2, <1>7, <1>10, <2>1
  <2>3. b \in Seq(D) /\ Len(b) = m + q
        /\ \A i \in 1 .. m + q : b[i] = IF i <= m THEN lead[i] ELSE v[i - m]
    BY <2>2, JoinIs
  <2> QED
    BY <1>3, <2>1, <2>3
<1>13. ASSUME NEW i \in 1 .. m + n - 1 PROVE a[i] = b[i]
  <2>1. CASE i <= m
    <3>1. i \in 1 .. m
      BY <1>3, <2>1
    <3> QED
      BY <1>5, <1>9, <1>11, <1>12, <2>1, <3>1
  <2>2. CASE ~(i <= m)
    <3>1. i - m \in 1 .. n - 1 /\ (i - m) + 1 \in 1 .. n
      BY <1>3, <2>2
    <3>2. a[i] = args[(i - m) + 1].str
      BY <1>6, <1>9, <1>11, <2>2, <3>1
    <3>3. b[i] = t[(i - m) + 1]
      BY <1>7, <1>12, <2>2, <3>1
    <3> QED
      BY <1>4, <3>1, <3>2, <3>3
  <2> QED
    BY <2>1, <2>2
<1>14. a = b
  BY <1>11, <1>12, <1>13, SeqEqual
<1> QED
  BY <1>1, <1>10, <1>14

-----------------------------------------------------------------------------
(* As long as the loop runs, exec.c is where the reference is after as     *)
(* many turns.                                                             *)
InStep ==
    LET k == Turns[ex.depth]
    IN  /\ k.ret = "running" /\ k.scripts = ex.depth /\ k.loader = NoFile
        /\ k.place = Host /\ k.place = Place(ex.path) /\ k.name = ex.path
        /\ k.argv = Texts(ex.args)
LoopOK ==
    at = "loop" => /\ pending_exe = "" /\ (~ex.rewritten => ex.depth = 0)
                   /\ Provided => InStep

(* What the kernel is then given leads to what the reference ends with: in *)
(* one turn, or through the loader, to which exec.c has passed the rest.   *)
Direct(place, argv) ==
    /\ pending_exe = ""
    /\ \A n \in Names :
        LET k == KernelTurn("host", KernelStart(place, n, argv))
        IN  /\ k.ret # "running" /\ k.ret = Native.ret /\ k.place = Native.place
            /\ k.argv = Native.argv /\ k.loader = Native.loader
LoaderArgv(interp, l) ==
    <<interp>> \o (IF Kind[l].argv0 THEN <<"--argv0", Head(Native.argv)>> ELSE <<>>)
    \o <<Native.name>> \o Tail(Native.argv)
ViaLoader(place, argv) ==
    LET k == Kind[fs[Native.place]]
        l == fs[place]
    IN  /\ k.type = "dynamic" /\ place = Place(k.interp)
        /\ Native.name \in Names /\ Native.place = Place(Native.name)
        /\ Native.argv \in Seq(DOMAIN Bytes) \ {<<>>}
        /\ pending_exe = Absolute[Native.name]
        /\ argv = LoaderArgv(k.interp, l)
        /\ \/ l = NoFile /\ Native.ret = "ENOENT"
           \/ l # NoFile /\ ~Kind[l].exec /\ Native.ret = "EACCES"
           \/ /\ l # NoFile /\ Kind[l].exec /\ Native.ret = "ok" /\ Native.loader = l
              /\ Kind[l].type = "loader"
Ready(place, argv) ==
    /\ place \in Places /\ argv \in Seq(DOMAIN Bytes)
    /\ Direct(place, argv) \/ ViaLoader(place, argv)

LaidOK ==
    (at = "laid out" /\ Covered) =>
        /\ Ready(ex.host, Texts(ex.args))
        /\ ~ex.rewritten => ex.host = Place(asked.path) /\ Texts(ex.args) = asked.argv
RegsOK ==
    (at = "kernel" /\ regs # Fault /\ Covered) =>
        Ready(regs.place, regs.argv) /\ regs.name \in Names /\ ~regs.cut

(* What /proc/self/exe will show once the call's exit has been handled.    *)
Shows ==
    IF at = "exit" /\ ret = "ok"
    THEN IF pending_exe # "" THEN pending_exe ELSE image.place[2]
    ELSE map_proc_link
ShownOK == native.known => Shows = native.exe

SInv ==
    /\ IInv /\ (at # "user" => AskedOK)
    /\ LoopOK /\ LaidOK /\ RegsOK /\ RunsAsInRoot /\ ShownOK

-----------------------------------------------------------------------------
(* One turn of exec.c's loop beside one turn of the reference. *)
AtTurn(k, f) ==
    /\ k = Turns[ex.depth] /\ f = fs[Host] /\ k \in KState /\ f \in DOMAIN Kind
    /\ k.ret = "running" /\ k.scripts = ex.depth /\ k.loader = NoFile
    /\ k.place = Host /\ Host = Place(ex.path) /\ k.name = ex.path /\ k.argv = Texts(ex.args)
    /\ TurnEffect("root", k, f) /\ Turns[ex.depth + 1] = KernelTurn("root", k)
    /\ f \in Native.seen
    /\ KernelTurn("root", k).ret # "running" => Native = KernelTurn("root", k)

LEMMA TurnSees ==
    ASSUME NEW side \in {"root", "host"}, NEW k \in KState, NEW f \in DOMAIN Kind,
           TurnEffect(side, k, f)
    PROVE  f \in KernelTurn(side, k).seen
<1>1. Kind[f].type \in {"script", "dynamic", "static", "loader", "text", "none"}
      /\ (Kind[f].type = "none" <=> f = NoFile) /\ Kind[f].exec \in BOOLEAN
  BY KindFacts
<1>2. PICK r, q : r = KernelTurn(side, k) /\ q = k.seen \cup {f}
  OBVIOUS
<1>3. ASSUME NEW e, r = [k EXCEPT !.ret = e, !.seen = q] PROVE f \in r.seen
  BY <1>2, <1>3 DEF KState
<1>4. CASE f = NoFile
  <2>1. r = [k EXCEPT !.ret = "ENOENT", !.seen = q]
    BY <1>2, <1>4 DEF TurnEffect
  <2> QED
    BY <1>2, <1>3, <2>1
<1>9. CASE f # NoFile /\ ~Kind[f].exec
  <2>1. r = [k EXCEPT !.ret = "EACCES", !.seen = q]
    BY <1>2, <1>9 DEF TurnEffect
  <2> QED
    BY <1>2, <1>3, <2>1
<1>5. CASE Kind[f].exec /\ Kind[f].type = "text"
  <2>1. r = [k EXCEPT !.ret = "ENOEXEC", !.seen = q]
    BY <1>2, <1>5 DEF TurnEffect
  <2> QED
    BY <1>2, <1>3, <2>1
<1>6. CASE Kind[f].exec /\ Kind[f].type \in {"static", "loader"}
  <2>1. r = [k EXCEPT !.ret = "ok", !.seen = q]
    BY <1>2, <1>6 DEF TurnEffect
  <2> QED
    BY <1>2, <1>3, <2>1
<1>7. CASE Kind[f].exec /\ Kind[f].type = "dynamic"
  <2>1. PICK l : l = fs[Where(side, Kind[f].interp)]
    OBVIOUS
  <2>2. \/ r = [k EXCEPT !.ret = "ENOENT", !.seen = q]
        \/ r = [k EXCEPT !.ret = "EACCES", !.seen = q]
        \/ r = [k EXCEPT !.ret = "ok", !.seen = q, !.loader = l]
    BY <1>2, <1>7, <2>1 DEF TurnEffect
  <2>3. CASE r = [k EXCEPT !.ret = "ok", !.seen = q, !.loader = l]
    BY <1>2, <2>3 DEF KState
  <2> QED
    BY <1>2, <1>3, <2>2, <2>3
<1>8. CASE Kind[f].exec /\ Kind[f].type = "script"
  <2>1. PICK w, i, a, n : /\ w = Where(side, Kind[f].interp) /\ i = Kind[f].interp /\ n = k.scripts + 1
                          /\ a = <<i>> \o (IF Kind[f].arg = NoArg THEN <<>> ELSE <<Kind[f].raw>>)
                                 \o <<k.name>> \o Tail(k.argv)
    OBVIOUS
  <2>2. r = [k EXCEPT !.place = w, !.name = i, !.argv = a, !.scripts = n, !.seen = q]
    BY <1>2, <1>8, <2>1 DEF TurnEffect
  <2> QED
    BY <1>2, <2>2 DEF KState
<1> QED
  BY <1>1, <1>4, <1>5, <1>6, <1>7, <1>8, <1>9

LEMMA Turn ==
    ASSUME IInv, AskedOK, LoopOK, Turning, Provided
    PROVE  \E k, f : AtTurn(k, f)
<1>1. InStep /\ ExOK /\ fs \in [Places -> DOMAIN Kind]
  BY DEF Turning, LoopOK, IInv
<1>2. PICK k, f, d : k = Turns[ex.depth] /\ f = fs[Host] /\ d = ex.depth
  OBVIOUS
<1>3. d \in Nat /\ d + 1 \in Nat /\ d <= KERNEL_DEPTH + 1 /\ d + 1 <= KERNEL_DEPTH + 1
  BY <1>1, <1>2, LimitsTyped DEF ExOK, Turning
<1>4. k \in KState
  BY <1>1, <1>2, <1>3, NativeKeeps
<1>5. k.ret = "running" /\ k.place = Host
  BY <1>1, <1>2 DEF InStep
<1>6. f \in DOMAIN Kind /\ TurnEffect("root", k, f)
  BY <1>1, <1>2, <1>4, <1>5, TurnIs
<1>7. Turns[d + 1] = KernelTurn("root", k)
  BY <1>1, <1>2, <1>3, TurnsNext
<1>8. f \in KernelTurn("root", k).seen
  BY <1>4, <1>6, TurnSees
<1>9. f \in Native.seen /\ (KernelTurn("root", k).ret # "running" => Native = KernelTurn("root", k))
  <2>1. Turns[d + 1].seen \subseteq Native.seen
        /\ (Turns[d + 1].ret # "running" => Native = Turns[d + 1])
    BY <1>1, <1>3, NativeKeeps
  <2> QED
    BY <1>7, <1>8, <2>1
<1> QED
  BY <1>1, <1>2, <1>4, <1>6, <1>7, <1>9 DEF AtTurn, InStep

LEMMA TurnArgs ==
    ASSUME IInv, Turning
    PROVE  /\ ex.args \in Seq(Arg) /\ Len(ex.args) >= 1 /\ Texts(ex.args) \in Seq(DOMAIN Bytes)
           /\ Texts(ex.args) # <<>> /\ ex.path \in Names /\ Host \in Places
           /\ Head(Texts(ex.args)) = ex.args[1].str
<1>1. ex.args \in Seq(Arg) /\ Len(ex.args) >= 1 /\ ex.path \in Names
  BY DEF Turning, IInv, ExOK
<1>2. PICK t, a : t = Texts(ex.args) /\ a = ex.args
  OBVIOUS
<1>3. t \in Seq(DOMAIN Bytes) /\ Len(t) = Len(a) /\ Len(a) \in Nat
      /\ \A i \in 1 .. Len(a) : t[i] = a[i].str
  BY <1>1, <1>2, TextsTyped
<1>4. t # <<>> /\ Head(t) = a[1].str
  <2>1. Len(t) >= 1 /\ 1 \in 1 .. Len(a)
    BY <1>1, <1>2, <1>3
  <2>2. t # <<>> /\ Head(t) = t[1]
    BY <1>3, <2>1
  <2> QED
    BY <1>3, <2>1, <2>2
<1>5. Host \in Places
  BY <1>1, PlacesTyped DEF Host
<1> QED
  BY <1>1, <1>2, <1>3, <1>4, <1>5

(* A break: the kernel ends here as the reference does. *)
LEMMA StopsDirect ==
    ASSUME IInv, AskedOK, LoopOK, TurnStops, Provided
    PROVE  Direct(Host, Texts(ex.args))
<1>1. Turning /\ (Opens(Host) =>
         /\ FileAt(Host).type # "script"
         /\ elf_interp(FileAt(Host)) # "" => SameAtBoth(elf_interp(FileAt(Host))))
  BY DEF TurnStops
<1>2. PICK k, f : AtTurn(k, f)
  BY <1>1, Turn
<1>3. pending_exe = ""
  BY <1>1 DEF LoopOK, Turning
<1>4. fs \in [Places -> DOMAIN Kind]
  BY DEF IInv
<1>5. PICK h, t, r : h = Host /\ t = Texts(ex.args) /\ r = KernelTurn("root", k)
  OBVIOUS
<1>6. /\ t \in Seq(DOMAIN Bytes) /\ t # <<>> /\ h \in Places
  BY <1>1, <1>5, TurnArgs
<1>7. /\ k \in KState /\ f \in DOMAIN Kind /\ f = fs[h] /\ k.ret = "running" /\ k.loader = NoFile
      /\ k.place = h /\ k.argv = t /\ TurnEffect("root", k, f) /\ f \in Native.seen
      /\ (r.ret # "running" => Native = r)
  BY <1>2, <1>5 DEF AtTurn
<1>8. /\ Kind[f].readable \/ Kind[f].type = "static"
  BY <1>7 DEF Provided
<1>9. /\ Kind[f].type \in {"script", "dynamic", "static", "loader", "text", "none"}
      /\ (Kind[f].type = "none" <=> f = NoFile) /\ Kind[f].exec \in BOOLEAN
  BY <1>7, KindFacts
<1>10. f # NoFile /\ Kind[f].readable => Opens(Host) /\ FileAt(Host) = Kind[f]
  BY <1>5, <1>7 DEF Opens, FileAt
<1>11. Kind[f].type # "script"
  BY <1>1, <1>8, <1>9, <1>10
<1>12. ASSUME Kind[f].type = "dynamic"
       PROVE  LET i == Kind[f].interp
              IN  fs[Where("host", i)] = fs[Where("root", i)] /\ fs[Where("root", i)] # NoFile
  <2>1. f # NoFile /\ Kind[f].readable
    BY <1>8, <1>9, <1>12
  <2>2. elf_interp(FileAt(Host)) = Kind[f].interp /\ Kind[f].interp # ""
    <3>1. Kind[f].interp \in Names
      BY <1>7, <1>12, KindFacts
    <3> QED
      BY <1>10, <1>12, <2>1, <3>1, NameFacts DEF elf_interp
  <2>3. SameAtBoth(Kind[f].interp)
    BY <1>1, <1>10, <2>1, <2>2
  <2> QED
    BY <2>3 DEF SameAtBoth, Where
<1>13. ASSUME NEW n \in Names
       PROVE  LET q == KernelTurn("host", KernelStart(h, n, t))
              IN  /\ q.ret # "running" /\ q.ret = Native.ret /\ q.place = Native.place
                  /\ q.argv = Native.argv /\ q.loader = Native.loader
  <2>1. PICK s, q : s = KernelStart(h, n, t) /\ q = KernelTurn("host", s)
    OBVIOUS
  <2>2. s \in KState /\ s.ret = "running" /\ s.place = h /\ s.argv = t /\ s.loader = NoFile
    BY <1>6, <2>1, StartTyped
  <2>3. TurnEffect("host", s, f)
    BY <1>4, <1>7, <2>2, TurnIs
  <2>4. /\ q.ret # "running" /\ q.ret = r.ret /\ q.place = r.place
        /\ q.argv = r.argv /\ q.loader = r.loader
    <3>1. CASE f = NoFile
      <4>1. r = [k EXCEPT !.ret = "ENOENT", !.seen = @ \cup {f}]
            /\ q = [s EXCEPT !.ret = "ENOENT", !.seen = @ \cup {f}]
        BY <1>5, <1>7, <2>1, <2>3, <3>1 DEF TurnEffect
      <4> QED
        BY <1>7, <2>2, <4>1 DEF KState
    <3>5. CASE f # NoFile /\ ~Kind[f].exec
      <4>1. r = [k EXCEPT !.ret = "EACCES", !.seen = @ \cup {f}]
            /\ q = [s EXCEPT !.ret = "EACCES", !.seen = @ \cup {f}]
        BY <1>5, <1>7, <2>1, <2>3, <3>5 DEF TurnEffect
      <4> QED
        BY <1>7, <2>2, <4>1 DEF KState
    <3>2. CASE Kind[f].exec /\ Kind[f].type = "text"
      <4>1. r = [k EXCEPT !.ret = "ENOEXEC", !.seen = @ \cup {f}]
            /\ q = [s EXCEPT !.ret = "ENOEXEC", !.seen = @ \cup {f}]
        BY <1>5, <1>7, <2>1, <2>3, <3>2 DEF TurnEffect
      <4> QED
        BY <1>7, <2>2, <4>1 DEF KState
    <3>3. CASE Kind[f].exec /\ Kind[f].type \in {"static", "loader"}
      <4>1. r = [k EXCEPT !.ret = "ok", !.seen = @ \cup {f}]
            /\ q = [s EXCEPT !.ret = "ok", !.seen = @ \cup {f}]
        BY <1>5, <1>7, <2>1, <2>3, <3>3 DEF TurnEffect
      <4> QED
        BY <1>7, <2>2, <4>1 DEF KState
    <3>4. CASE Kind[f].exec /\ Kind[f].type = "dynamic"
      <4>1. PICK l : l = fs[Where("root", Kind[f].interp)]
        OBVIOUS
      <4>2. l # NoFile /\ l = fs[Where("host", Kind[f].interp)]
        BY <1>12, <3>4, <4>1
      <4>3. \/ /\ r = [k EXCEPT !.ret = "ok", !.seen = @ \cup {f}, !.loader = l]
               /\ q = [s EXCEPT !.ret = "ok", !.seen = @ \cup {f}, !.loader = l]
            \/ /\ r = [k EXCEPT !.ret = "EACCES", !.seen = @ \cup {f}]
               /\ q = [s EXCEPT !.ret = "EACCES", !.seen = @ \cup {f}]
        BY <1>5, <1>7, <2>1, <2>3, <3>4, <4>1, <4>2 DEF TurnEffect
      <4>4. CASE /\ r = [k EXCEPT !.ret = "ok", !.seen = @ \cup {f}, !.loader = l]
                 /\ q = [s EXCEPT !.ret = "ok", !.seen = @ \cup {f}, !.loader = l]
        BY <1>7, <2>2, <4>4 DEF KState
      <4>5. CASE /\ r = [k EXCEPT !.ret = "EACCES", !.seen = @ \cup {f}]
                 /\ q = [s EXCEPT !.ret = "EACCES", !.seen = @ \cup {f}]
        BY <1>7, <2>2, <4>5 DEF KState
      <4> QED
        BY <4>3, <4>4, <4>5
    <3> QED
      BY <1>9, <1>11, <3>1, <3>2, <3>3, <3>4, <3>5
  <2>5. Native = r
    BY <1>7, <2>4
  <2> QED
    BY <2>1, <2>4, <2>5
<1> QED
  BY <1>3, <1>5, <1>13 DEF Direct

(* A #! line: both take it the same way. *)
LEMMA ScriptInStep ==
    ASSUME IInv, AskedOK, LoopOK, TurnScript, Provided
    PROVE  InStep'
<1>1. Turning /\ Opens(Host) /\ FileAt(Host).type = "script"
      /\ fs' = fs /\ asked' = asked
  BY DEF TurnScript
<1>2. PICK k, f : AtTurn(k, f)
  BY <1>1, Turn
<1>3. PICK d, t, r, i : d = ex.depth /\ t = Texts(ex.args) /\ r = KernelTurn("root", k)
                        /\ i = Kind[f].interp
  OBVIOUS
<1>4. /\ k \in KState /\ f \in DOMAIN Kind /\ Kind[f].type = "script" /\ f \in Native.seen
      /\ k.ret = "running" /\ k.scripts = d /\ k.loader = NoFile /\ k.name = ex.path /\ k.argv = t
      /\ TurnEffect("root", k, f) /\ Turns[d + 1] = r /\ FileAt(Host) = Kind[f]
  BY <1>1, <1>2, <1>3 DEF AtTurn, FileAt
<1>5. Kind[f].raw = Kind[f].arg /\ Kind[f].exec
  BY <1>4 DEF Provided
<1>6. i \in Names \ Relative /\ (Kind[f].arg = NoArg \/ Kind[f].arg \in DOMAIN Bytes)
  BY <1>3, <1>4, KindFacts
<1> DEFINE lead == <<i>> \o sb_arg(Kind[f]) \o <<ex.path>>
           arg == IF Kind[f].arg = NoArg THEN <<>> ELSE <<Kind[f].raw>>
<1>7. ex.path \in Names /\ ex.path \in DOMAIN Bytes /\ i \in DOMAIN Bytes
  BY <1>1, <1>6, TurnArgs, StringsAssumption
<1>8. sb_arg(Kind[f]) = arg /\ arg \in Seq(DOMAIN Bytes)
  <2>1. CASE Kind[f].arg = NoArg
    BY <2>1 DEF sb_arg
  <2>2. CASE Kind[f].arg # NoArg
    BY <1>5, <1>6, <2>2 DEF sb_arg
  <2> QED
    BY <2>1, <2>2
<1> HIDE DEF arg
<1>9. lead \in Seq(DOMAIN Bytes)
  BY <1>7, <1>8
<1>10. ex' = [path |-> i, host |-> Host, depth |-> d + 1, rewritten |-> TRUE,
              args |-> replace_head(ex.args, lead)]
  BY <1>3, <1>4 DEF TurnScript
<1>11. PICK a : a = lead \o Tail(t)
  OBVIOUS
<1>12. r = [k EXCEPT !.place = Place(i), !.name = i, !.argv = a, !.scripts = d + 1,
                     !.seen = @ \cup {f}]
  <2>1. r = [k EXCEPT !.place = Where("root", i), !.name = i,
                      !.argv = <<i>> \o arg \o <<ex.path>> \o Tail(t), !.scripts = d + 1,
                      !.seen = @ \cup {f}]
    BY <1>3, <1>4, <1>5 DEF TurnEffect, arg
  <2>2. <<i>> \o arg \o <<ex.path>> \o Tail(t) = a
    BY <1>8, <1>11
  <2> QED
    BY <2>1, <2>2 DEF Where
<1>13. Texts(replace_head(ex.args, lead)) = a
  <2>1. ex.args \in Seq(Arg) /\ Len(ex.args) >= 1
    BY <1>1, TurnArgs
  <2>2. PICK u : u = ex.args
    OBVIOUS
  <2> HIDE DEF lead
  <2> QED
    BY <1>3, <1>9, <1>11, <2>1, <2>2, TextsReplaced
<1>14. ex'.depth = d + 1 /\ ex'.path = i /\ ex'.args = replace_head(ex.args, lead)
  <2> HIDE DEF lead
  <2> QED
    BY <1>10
<1>15. Texts(ex.args)' = a
  <2>1. Texts(ex.args)' = Texts(replace_head(ex.args, lead))
    <3> HIDE DEF lead
    <3> QED
      BY <1>14 DEF Texts
  <2> QED
    BY <1>13, <2>1
<1>16. Host' = Place(i) /\ Place(ex.path)' = Place(i)
  <2>1. i \notin Relative
    BY <1>6
  <2> QED
    BY <1>14, <2>1 DEF Host, host_path_of, Place
<1>17. Turns' = Turns
  BY <1>1, SameReference
<1>18. Turns'[ex'.depth] = r
  BY <1>4, <1>14, <1>17
<1>19. r.ret = "running" /\ r.scripts = d + 1 /\ r.loader = NoFile /\ r.place = Place(i)
       /\ r.name = i /\ r.argv = a
  BY <1>4, <1>12 DEF KState
<1> QED
  BY <1>14, <1>15, <1>16, <1>18, <1>19 DEF InStep

(* The loader in front: it is told what the reference would run. *)
LEMMA LoaderReady ==
    ASSUME IInv, AskedOK, LoopOK, TurnLoader, Provided, CacheCurrent'
    PROVE  ViaLoader(ex.host, Texts(ex.args))'
<1>1. Turning /\ Opens(Host) /\ elf_interp(FileAt(Host)) # "" /\ fs' = fs /\ asked' = asked
  BY DEF TurnLoader
<1>2. PICK k, f : AtTurn(k, f)
  BY <1>1, Turn
<1>3. PICK t, r, i, l : t = Texts(ex.args) /\ r = KernelTurn("root", k) /\ i = Kind[f].interp
                        /\ l = fs[Place(i)]
  OBVIOUS
<1>4. /\ k \in KState /\ f \in DOMAIN Kind /\ Kind[f].type = "dynamic" /\ f \in Native.seen
      /\ k.ret = "running" /\ k.loader = NoFile /\ k.name = ex.path /\ k.argv = t
      /\ k.place = Place(ex.path) /\ f = fs[k.place]
      /\ TurnEffect("root", k, f) /\ (r.ret # "running" => Native = r)
      /\ elf_interp(FileAt(Host)) = i
  BY <1>1, <1>2, <1>3 DEF AtTurn, FileAt, elf_interp
<1>5. i \in Names /\ Place(i) \in Places /\ l \in DOMAIN Kind /\ Kind[l].argv0 \in BOOLEAN
  <2>1. i \in Names
    BY <1>3, <1>4, KindFacts
  <2>2. l \in DOMAIN Kind
    BY <1>3, <2>1, NameFacts DEF IInv
  <2> QED
    BY <2>1, <2>2, NameFacts, KindFacts
<1>6. t \in Seq(DOMAIN Bytes) /\ t # <<>> /\ ex.path \in Names /\ Head(t) = ex.args[1].str
      /\ ex.args \in Seq(Arg) /\ Len(ex.args) >= 1
  BY <1>1, <1>3, TurnArgs
<1>7. Head(t) \in DOMAIN Bytes
  BY <1>6
(* the reference *)
<1>8. r = IF l = NoFile THEN [k EXCEPT !.ret = "ENOENT", !.seen = @ \cup {f}]
          ELSE IF ~Kind[l].exec THEN [k EXCEPT !.ret = "EACCES", !.seen = @ \cup {f}]
          ELSE [k EXCEPT !.ret = "ok", !.seen = @ \cup {f}, !.loader = l]
  <2>1. Kind[f].exec
    BY <1>4 DEF Provided
  <2> QED
    BY <1>3, <1>4, <2>1 DEF TurnEffect, Where
<1>9. /\ r.name = ex.path /\ r.place = Place(ex.path) /\ r.argv = t
      /\ \/ l = NoFile /\ r.ret = "ENOENT"
         \/ l # NoFile /\ ~Kind[l].exec /\ r.ret = "EACCES"
         \/ l # NoFile /\ Kind[l].exec /\ r.ret = "ok" /\ r.loader = l
  BY <1>4, <1>8 DEF KState
<1>10. Native = r /\ Native' = Native
  BY <1>1, <1>4, <1>9, SameReference
<1>11. l # NoFile => Kind[l].type = "loader" /\ Kind[l].readable
  BY <1>3, <1>4 DEF Provided, FileAt
(* what the loader is told *)
<1>12. loader_has_argv0(Place(i)) = Kind[l].argv0
  <2>1. Place(i) \in DOMAIN cache' => cache'[Place(i)] = Kind[l].argv0
    <3>1. f \in Native'.seen
      BY <1>4, <1>10
    <3>2. Place(i)' = Place(i) /\ FileAt(Place(i))' = Kind[l]
      BY <1>1, <1>3 DEF Place, FileAt
    <3> QED
      BY <1>3, <1>4, <3>1, <3>2 DEF CacheCurrent, Place, FileAt
  <2>2. cache' = Cached(Place(i))
    BY <1>4 DEF TurnLoader
  <2>3. CASE Place(i) \in DOMAIN cache
    <3>1. cache' = cache
      BY <2>2, <2>3 DEF Cached
    <3> QED
      BY <2>1, <2>3, <3>1 DEF loader_has_argv0
  <2>4. CASE Place(i) \notin DOMAIN cache
    <3>1. loader_has_argv0(Place(i)) = (l # NoFile /\ Kind[l].readable /\ Kind[l].argv0)
      BY <1>3, <2>4 DEF loader_has_argv0, Opens, FileAt
    <3>2. CASE l # NoFile
      BY <1>5, <1>11, <3>1, <3>2
    <3>3. CASE l = NoFile
      <4>1. Kind[l].argv0 = FALSE
        BY <1>5, <3>3, KindFacts
      <4>2. loader_has_argv0(Place(i)) = FALSE
        BY <3>1, <3>3
      <4> QED
        BY <4>1, <4>2
    <3> QED
      BY <3>2, <3>3
  <2> QED
    BY <2>3, <2>4
<1> DEFINE more == IF Kind[l].argv0 THEN <<"--argv0", Head(t)>> ELSE <<>>
           lead == <<i>> \o more \o <<ex.path>>
<1>13. more \in Seq(DOMAIN Bytes)
  <2>1. "--argv0" \in DOMAIN Bytes
    BY StringsAssumption
  <2>2. PICK h, D : h = Head(t) /\ D = DOMAIN Bytes
    OBVIOUS
  <2>3. <<"--argv0", h>> \in Seq(D) /\ <<>> \in Seq(D)
    BY <1>7, <2>1, <2>2
  <2>4. CASE Kind[l].argv0
    BY <2>2, <2>3, <2>4
  <2>5. CASE ~Kind[l].argv0
    BY <2>2, <2>3, <2>5
  <2> QED
    BY <2>4, <2>5
<1>14. ex' = [path |-> i, host |-> Place(i), depth |-> ex.depth, rewritten |-> TRUE,
              args |-> replace_head(ex.args, lead)]
       /\ pending_exe' = Absolute[ex.path]
  BY <1>4, <1>6, <1>12 DEF TurnLoader, guest_absolute
<1> HIDE DEF more
<1>15. lead \in Seq(DOMAIN Bytes)
  <2>1. i \in DOMAIN Bytes /\ ex.path \in DOMAIN Bytes
    BY <1>5, <1>6, StringsAssumption
  <2> QED
    BY <1>13, <2>1
<1>16. ex'.host = Place(i) /\ ex'.args = replace_head(ex.args, lead)
  <2> HIDE DEF lead
  <2> QED
    BY <1>14
<1>17. Texts(ex.args)' = lead \o Tail(t)
  <2> HIDE DEF lead
  <2>1. PICK u : u = ex.args
    OBVIOUS
  <2>2. Texts(replace_head(u, lead)) = lead \o Tail(Texts(u))
    BY <1>6, <1>15, <2>1, TextsReplaced
  <2>3. Texts(ex.args)' = Texts(replace_head(u, lead))
    BY <1>16, <2>1 DEF Texts
  <2> QED
    BY <1>3, <2>1, <2>2, <2>3
<1>18. LoaderArgv(i, l)' = lead \o Tail(t)
  <2>1. Native'.argv = t /\ Native'.name = ex.path
    BY <1>9, <1>10
  <2>2. LoaderArgv(i, l)' = <<i>> \o more \o <<ex.path>> \o Tail(t)
    BY <2>1 DEF LoaderArgv, more
  <2> QED
    BY <2>2
<1>19. /\ Native'.name = ex.path /\ Native'.place = Place(ex.path) /\ Native'.argv = t
       /\ fs'[Native'.place] = f /\ fs'[ex'.host] = l
       /\ \/ l = NoFile /\ Native'.ret = "ENOENT"
          \/ l # NoFile /\ ~Kind[l].exec /\ Native'.ret = "EACCES"
          \/ /\ l # NoFile /\ Kind[l].exec /\ Native'.ret = "ok" /\ Native'.loader = l
             /\ Kind[l].type = "loader"
  BY <1>1, <1>3, <1>4, <1>9, <1>10, <1>11, <1>16
<1>20. PICK N, w, a : N = Native' /\ w = ex'.host /\ a = Texts(ex.args)'
  OBVIOUS
<1>21. Place(N.name)' = Place(N.name) /\ Place(i)' = Place(i)
  BY DEF Place
<1> HIDE DEF lead
<1> QED
  BY <1>3, <1>4, <1>6, <1>14, <1>16, <1>17, <1>18, <1>19, <1>20, <1>21 DEF ViaLoader

(* What was ready stays so while the files and the call are the same. *)
LEMMA SameReady ==
    ASSUME fs' = fs, asked' = asked, pending_exe' = pending_exe, NEW place, NEW argv
    PROVE  Ready(place, argv)' = Ready(place, argv)
<1>1. Native' = Native
  BY SameReference
<1>2. \A n : KernelTurn("host", KernelStart(place, n, argv))' = KernelTurn("host", KernelStart(place, n, argv))
  BY DEF KernelTurn, KernelStart, FileAt, Where, Place, OnHost
<1>3. Direct(place, argv)' = Direct(place, argv)
  BY <1>1, <1>2 DEF Direct
<1>4. ViaLoader(place, argv)' = ViaLoader(place, argv)
  BY <1>1 DEF ViaLoader, LoaderArgv, Place
<1> QED
  BY <1>3, <1>4 DEF Ready

LEMMA ReadyThen ==
    ASSUME fs' = fs, asked' = asked, pending_exe' = pending_exe, NEW place, NEW argv,
           Ready(place, argv)
    PROVE  /\ (ex'.host = place /\ Texts(ex.args)' = argv) => Ready(ex.host, Texts(ex.args))'
           /\ (regs'.place = place /\ regs'.argv = argv) => Ready(regs.place, regs.argv)'
<1>1. Ready(place, argv)'
  BY SameReady
<1>2. ASSUME ex'.host = place, Texts(ex.args)' = argv PROVE Ready(ex.host, Texts(ex.args))'
  <2>1. Direct(place, argv)' => Direct(ex.host, Texts(ex.args))'
    <3>1. \A n : KernelTurn("host", KernelStart(ex.host, n, Texts(ex.args)))'
                 = KernelTurn("host", KernelStart(place, n, argv))'
      BY <1>2 DEF KernelTurn, FileAt, Where, Place, OnHost
    <3> QED
      BY <1>2, <3>1 DEF Direct
  <2>2. ViaLoader(place, argv)' => ViaLoader(ex.host, Texts(ex.args))'
    BY <1>2 DEF ViaLoader, LoaderArgv, Place
  <2> QED
    BY <1>1, <1>2, <2>1, <2>2 DEF Ready
<1>3. ASSUME regs'.place = place, regs'.argv = argv PROVE Ready(regs.place, regs.argv)'
  <2>1. Direct(place, argv)' => Direct(regs.place, regs.argv)'
    <3>1. \A n : KernelTurn("host", KernelStart(regs.place, n, regs.argv))'
                 = KernelTurn("host", KernelStart(place, n, argv))'
      BY <1>3 DEF KernelTurn, FileAt, Where, Place, OnHost
    <3> QED
      BY <1>3, <3>1 DEF Direct
  <2>2. ViaLoader(place, argv)' => ViaLoader(regs.place, regs.argv)'
    BY <1>3 DEF ViaLoader, LoaderArgv, Place
  <2> QED
    BY <1>1, <1>3, <2>1, <2>2 DEF Ready
<1> QED
  BY <1>2, <1>3

-----------------------------------------------------------------------------
(* Each action keeps SInv. *)
LEMMA StillShown ==
    ASSUME ShownOK, UNCHANGED <<image, exe, native>>, at # "exit", at' # "exit"
    PROVE  ShownOK'
BY DEF ShownOK, Shows, map_proc_link

LEMMA SomeArgv ==
    ASSUME NEW S, NEW a \in Seq(S)
    PROVE  a = <<>> <=> ~(Len(a) >= 1)
BY EmptySeq, LenProperties

LEMMA FirstTurn ==
    (fs \in [Places -> DOMAIN Kind] /\ AskedOK) =>
        Turns[0] = KernelStart(Place(asked.path), asked.path, asked.argv)
BY TurnsFirst

LEMMA FirstTurnNext ==
    ((fs \in [Places -> DOMAIN Kind] /\ AskedOK) =>
        Turns[0] = KernelStart(Place(asked.path), asked.path, asked.argv))'
BY FirstTurn, PTL

(* The call starts where the reference does. *)
LEMMA CallInStep ==
    ASSUME IInv, NEW path \in Names, NEW argv \in Argvs, NEW cut \in BOOLEAN,
           Call(path, argv, cut), Provided'
    PROVE  InStep'
<1>1. argv \in Seq(DOMAIN Bytes) /\ Len(argv) \in Nat
  BY StringsAssumption, LenProperties
<1>2. /\ \E oom \in BOOLEAN : asked' = [path |-> path, argv |-> argv, cut |-> cut, oom |-> oom]
      /\ fs' = fs /\ fs \in [Places -> DOMAIN Kind]
  BY DEF Call, IInv
<1>3. asked'.path = path /\ asked'.argv = argv
  BY <1>2
<1>4. /\ Len(argv) >= 1 /\ Len(argv) <= MAX_EXEC_ARGS
      /\ ~(path \in Relative /\ Absolute[path] \in Bound)
  BY <1>1, <1>3, LimitsTyped DEF Provided
<1>5. PICK s : s = KernelStart(Place(path), path, argv)
  OBVIOUS
<1>6. /\ s \in KState /\ s.ret = "running" /\ s.scripts = 0 /\ s.loader = NoFile
      /\ s.place = Place(path) /\ s.name = path /\ s.argv = argv
  <2>1. Place(path) \in Places /\ argv # <<>>
    BY <1>1, <1>4, NameFacts, SomeArgv
  <2> QED
    BY <1>1, <1>5, <2>1, StartTyped
<1>7. KernelStart(Place(asked.path), asked.path, asked.argv)' = s
  BY <1>3, <1>5 DEF Place
<1>8. Turns'[0] = s
  <2>1. AskedOK' /\ fs' \in [Places -> DOMAIN Kind]
    BY <1>2 DEF AskedOK
  <2> QED
    BY <1>7, <2>1, FirstTurnNext
<1> DEFINE n == Min({Len(argv), MAX_EXEC_ARGS})
           args == [i \in 1 .. n |-> [str |-> argv[i], own |-> FALSE]]
<1>9. n = Len(argv)
  <2>1. PICK m : m = Len(argv)
    OBVIOUS
  <2>2. \E x \in {m, MAX_EXEC_ARGS} : \A y \in {m, MAX_EXEC_ARGS} : x =< y
    BY <1>1, <2>1, LimitsTyped
  <2>3. Min({m, MAX_EXEC_ARGS}) = m
    BY <1>1, <1>4, <2>1, <2>2, LimitsTyped DEF Min
  <2> QED
    BY <2>1, <2>3
<1>10. ex'.path = path /\ ex'.depth = 0 /\ ex'.args = args
  <2>1. ex' = [path |-> path, host |-> Place(path), depth |-> 0, rewritten |-> FALSE, args |-> args]
    BY DEF Call
  <2> HIDE DEF args
  <2> QED
    BY <2>1
<1>11. Texts(ex.args)' = argv
  <2>1. PICK m : m = Len(argv)
    OBVIOUS
  <2>2. Len(args) = m /\ \A i \in 1 .. m : args[i].str = argv[i]
    <3> HIDE DEF n
    <3>1. n = m /\ m \in Nat
      BY <1>1, <1>9, <2>1
    <3> QED
      BY <3>1
  <2> HIDE DEF args
  <2>3. Texts(args) = [i \in 1 .. Len(argv) |-> argv[i]]
    BY <2>1, <2>2 DEF Texts
  <2>4. argv = [i \in 1 .. Len(argv) |-> argv[i]]
    BY <1>1
  <2> QED
    BY <1>10, <2>3, <2>4
<1>12. Host' = Place(path) /\ Place(ex.path)' = Place(path)
  BY <1>4, <1>10 DEF Host, host_path_of, Place
<1> HIDE DEF args, n
<1> QED
  BY <1>6, <1>8, <1>10, <1>11, <1>12 DEF InStep

LEMMA CallSInv ==
    ASSUME SInv, NEW path \in Names, NEW argv \in Argvs, NEW cut \in BOOLEAN,
           Call(path, argv, cut)
    PROVE  SInv'
<1>1. IInv /\ ShownOK /\ at = "user"
  BY DEF SInv, Call
<1>2. IInv'
  BY <1>1, CallStep
<1>0. PICK oom \in BOOLEAN :
        /\ asked' = [path |-> path, argv |-> argv, cut |-> cut, oom |-> oom]
        /\ at' = IF argv = <<>> \/ oom THEN "laid out" ELSE "loop"
  BY DEF Call
<1>3. AskedOK'
  BY <1>0 DEF AskedOK
<1>4. /\ at' = IF argv = <<>> \/ asked'.oom THEN "laid out" ELSE "loop"
      /\ pending_exe' = "" /\ ~ex'.rewritten /\ ex'.depth = 0 /\ asked'.argv = argv
      /\ UNCHANGED <<image, exe, native>>
  BY <1>0 DEF Call
<1>5. LoopOK'
  BY <1>1, <1>4, CallInStep DEF LoopOK
<1>6. LaidOK'
  <2>1. argv \in Seq(DOMAIN Bytes)
    BY StringsAssumption
  <2>2. Provided' => Len(argv) >= 1
    <3>1. asked'.argv = argv /\ Len(argv) \in Nat
      BY <1>4, <2>1, LenProperties
    <3> QED
      BY <3>1, LimitsTyped DEF Provided
  <2>3. at' = "laid out" => ~Provided'
    <3>1. Provided' => ~asked'.oom
      BY DEF Provided
    <3> QED
      BY <1>4, <2>1, <2>2, <3>1, SomeArgv
  <2> QED
    BY <2>3 DEF LaidOK, Covered
<1>7. ShownOK'
  BY <1>1, <1>4, StillShown
<1> QED
  BY <1>2, <1>3, <1>4, <1>5, <1>6, <1>7 DEF SInv, RegsOK, RunsAsInRoot

LEMMA StopsSInv ==
    ASSUME SInv, TurnStops
    PROVE  SInv'
<1>1. IInv /\ ShownOK /\ LoopOK /\ AskedOK /\ at = "loop" /\ Turning
  BY DEF SInv, TurnStops, Turning
<1>2. /\ at' = "laid out" /\ fs' = fs /\ asked' = asked /\ pending_exe' = pending_exe
      /\ UNCHANGED <<image, exe, native>> /\ ex' = [ex EXCEPT !.host = Host]
  BY DEF TurnStops
<1>3. IInv'
  BY <1>1, NextIInv DEF Next
<1>4. ex'.host = Host /\ ex'.args = ex.args /\ ex'.rewritten = ex.rewritten
  BY <1>1, <1>2 DEF IInv, ExOK
<1>5. Texts(ex.args)' = Texts(ex.args)
  BY <1>4 DEF Texts
<1>6. ASSUME Provided PROVE Ready(ex.host, Texts(ex.args))'
  <2>1. PICK h, t : h = Host /\ t = Texts(ex.args)
    OBVIOUS
  <2>2. Direct(h, t) /\ h \in Places /\ t \in Seq(DOMAIN Bytes)
    BY <1>1, <1>6, <2>1, StopsDirect, TurnArgs
  <2>3. Ready(h, t)
    BY <2>2 DEF Ready
  <2> QED
    BY <1>2, <1>4, <1>5, <2>1, <2>3, ReadyThen
<1>7. ASSUME Provided, ~ex.rewritten
      PROVE  Host = Place(asked.path) /\ Texts(ex.args) = asked.argv
  <2>1. InStep /\ ex.depth = 0 /\ fs \in [Places -> DOMAIN Kind]
    BY <1>1, <1>7 DEF LoopOK, IInv
  <2>2. PICK p, n, a : p = Place(asked.path) /\ n = asked.path /\ a = asked.argv
    OBVIOUS
  <2>3. a # <<>> /\ a \in Seq(DOMAIN Bytes) /\ n \in Names /\ p \in Places
    <3>1. n \in Names /\ a \in Seq(DOMAIN Bytes)
      BY <1>1, <2>2, AskedStart
    <3>2. Len(a) >= 1
      BY <1>7, <2>2, LimitsTyped DEF Provided
    <3> QED
      BY <2>2, <3>1, <3>2, NameFacts, SomeArgv
  <2>4. Turns[0] = KernelStart(p, n, a)
    BY <1>1, <2>1, <2>2, TurnsFirst
  <2>5. Turns[0].place = p /\ Turns[0].argv = a
    BY <2>3, <2>4, StartTyped
  <2> QED
    BY <2>1, <2>2, <2>5 DEF InStep
<1>8. LaidOK'
  <2>1. Covered' => Provided
    BY <1>2, SameReference DEF Covered
  <2>2. Place(asked.path)' = Place(asked.path)
    BY <1>2 DEF Place
  <2> QED
    BY <1>2, <1>4, <1>5, <1>6, <1>7, <2>1, <2>2 DEF LaidOK
<1>9. ShownOK'
  BY <1>1, <1>2, StillShown
<1>10. AskedOK'
  BY <1>1, <1>2 DEF AskedOK
<1> QED
  BY <1>2, <1>3, <1>8, <1>9, <1>10 DEF SInv, LoopOK, RegsOK, RunsAsInRoot

LEMMA ScriptSInv ==
    ASSUME SInv, TurnScript
    PROVE  SInv'
<1>1. IInv /\ ShownOK /\ LoopOK /\ AskedOK /\ at = "loop" /\ at' = at /\ pending_exe = ""
  BY DEF SInv, TurnScript, Turning, LoopOK
<1>2. /\ fs' = fs /\ asked' = asked /\ pending_exe' = pending_exe /\ ex'.rewritten
      /\ UNCHANGED <<image, exe, native>>
  BY DEF TurnScript
<1>3. IInv'
  BY <1>1, ScriptStep
<1>4. LoopOK'
  <2>1. Provided' => InStep'
    BY <1>1, <1>2, SameReference, ScriptInStep
  <2> QED
    BY <1>1, <1>2, <2>1 DEF LoopOK
<1>5. ShownOK'
  BY <1>1, <1>2, StillShown
<1>6. AskedOK'
  BY <1>1, <1>2 DEF AskedOK
<1> QED
  BY <1>1, <1>3, <1>4, <1>5, <1>6 DEF SInv, LaidOK, RegsOK, RunsAsInRoot

LEMMA LoaderSInv ==
    ASSUME SInv, TurnLoader
    PROVE  SInv'
<1>1. IInv /\ ShownOK /\ LoopOK /\ AskedOK /\ at = "loop" /\ at' = "laid out"
  BY DEF SInv, TurnLoader, Turning
<1>2. /\ fs' = fs /\ asked' = asked /\ ex'.rewritten /\ UNCHANGED <<image, exe, native>>
  BY DEF TurnLoader
<1>3. IInv'
  BY <1>1, LoaderStep
<1>4. ex'.host \in Places /\ Texts(ex.args)' \in Seq(DOMAIN Bytes)
  <2>1. ex'.host \in Places /\ ex'.args \in Seq(Arg)
    BY <1>1, <1>3 DEF IInv, ExOK
  <2>2. PICK a : a = ex'.args
    OBVIOUS
  <2>3. Texts(a) \in Seq(DOMAIN Bytes)
    BY <2>1, <2>2, TextsTyped
  <2> QED
    BY <2>1, <2>2, <2>3
<1>5. LaidOK'
  <2>1. ASSUME Covered' PROVE Ready(ex.host, Texts(ex.args))'
    <3>1. Provided /\ CacheCurrent'
      BY <1>2, <2>1, SameReference DEF Covered
    <3>2. ViaLoader(ex.host, Texts(ex.args))'
      BY <1>1, <3>1, LoaderReady
    <3> QED
      BY <1>4, <3>2 DEF Ready
  <2> QED
    BY <1>2, <2>1 DEF LaidOK
<1>6. ShownOK'
  BY <1>1, <1>2, StillShown
<1>7. AskedOK'
  BY <1>1, <1>2 DEF AskedOK
<1> QED
  BY <1>1, <1>3, <1>5, <1>6, <1>7 DEF SInv, LoopOK, RegsOK, RunsAsInRoot

(* A chain of #! lines the loop does not come to the end of is not provided for. *)
LEMMA EndsSInv ==
    ASSUME SInv, LoopEnds
    PROVE  SInv'
<1>1. IInv /\ ShownOK /\ LoopOK /\ AskedOK /\ at = "loop" /\ at' = "laid out"
      /\ ex.depth = MAX_SHEBANG_DEPTH
  BY DEF SInv, LoopEnds
<1>2. fs' = fs /\ asked' = asked /\ UNCHANGED <<image, exe, native>>
  BY DEF LoopEnds
<1>3. IInv'
  BY <1>1, NextIInv DEF Next
<1>4. ~Provided
  <2> SUFFICES ASSUME Provided PROVE FALSE
    OBVIOUS
  <2>1. Turns[MAX_SHEBANG_DEPTH].scripts = MAX_SHEBANG_DEPTH
    BY <1>1 DEF LoopOK, InStep
  <2>2. MAX_SHEBANG_DEPTH \in Nat /\ MAX_SHEBANG_DEPTH <= KERNEL_DEPTH + 1
        /\ fs \in [Places -> DOMAIN Kind]
    <3>1. fs \in [Places -> DOMAIN Kind]
      BY <1>1 DEF IInv
    <3> QED
      BY <3>1, LimitsTyped
  <2>3. Turns[MAX_SHEBANG_DEPTH].scripts <= Native.scripts /\ Native.scripts \in Nat
    BY <1>1, <2>2, NativeKeeps
  <2>4. Native.scripts < MAX_SHEBANG_DEPTH
    BY DEF Provided
  <2> QED
    BY <2>1, <2>2, <2>3, <2>4
<1>5. ~Covered'
  BY <1>2, <1>4, SameReference DEF Covered
<1>6. ShownOK'
  BY <1>1, <1>2, StillShown
<1>7. AskedOK'
  BY <1>1, <1>2 DEF AskedOK
<1> QED
  BY <1>1, <1>3, <1>5, <1>6, <1>7 DEF SInv, LoopOK, LaidOK, RegsOK, RunsAsInRoot

LEMMA LayOutSInv ==
    ASSUME SInv, LayOut
    PROVE  SInv'
<1>1. IInv /\ ShownOK /\ LaidOK /\ AskedOK /\ at = "laid out" /\ at' = "kernel"
  BY DEF SInv, LayOut
<1>2. /\ fs' = fs /\ asked' = asked /\ pending_exe' = pending_exe /\ cache' = cache
      /\ UNCHANGED <<image, exe, native>>
  BY DEF LayOut
<1>3. IInv'
  BY <1>1, NextIInv DEF Next
<1>4. ASSUME regs' # Fault, Covered'
      PROVE  Ready(regs.place, regs.argv)' /\ regs'.name \in Names /\ ~regs'.cut
  <2>1. Covered
    <3>1. Native' = Native /\ Provided' = Provided
      BY <1>2, SameReference
    <3> QED
      BY <1>2, <1>4, <3>1 DEF Covered, CacheCurrent, Place, FileAt
  <2>2. PICK h, t : h = ex.host /\ t = Texts(ex.args)
    OBVIOUS
  <2>3. Ready(h, t) /\ (~ex.rewritten => h = Place(asked.path) /\ t = asked.argv)
    BY <1>1, <2>1, <2>2 DEF LaidOK
  <2>4. regs'.place = h /\ regs'.argv = t /\ regs'.name \in Names /\ ~regs'.cut
    <3>1. CASE ex.rewritten
      <4>1. regs' = [place |-> h, name |-> h[2], argv |-> t, cut |-> FALSE]
        BY <1>4, <2>2, <3>1 DEF LayOut
      <4>2. h[2] \in Names
        BY <2>3 DEF Ready, Places
      <4> QED
        BY <4>1, <4>2
    <3>2. CASE ~ex.rewritten
      <4>1. regs' = [place |-> Place(asked.path), name |-> asked.path, argv |-> asked.argv,
                     cut |-> asked.cut]
        BY <3>2 DEF LayOut
      <4>2. asked.path \in Names /\ ~asked.cut
        BY <1>1, <2>1, AskedStart DEF Covered, Provided
      <4> QED
        BY <2>3, <3>2, <4>1, <4>2
    <3> QED
      BY <3>1, <3>2
  <2>5. Ready(regs.place, regs.argv)'
    BY <1>2, <2>3, <2>4, ReadyThen
  <2> QED
    BY <2>4, <2>5
<1>5. RegsOK'
  BY <1>4 DEF RegsOK
<1>6. ShownOK'
  BY <1>1, <1>2, StillShown
<1>7. AskedOK'
  BY <1>1, <1>2 DEF AskedOK
<1> QED
  BY <1>1, <1>3, <1>5, <1>6, <1>7 DEF SInv, LoopOK, LaidOK, RunsAsInRoot

Joins(g, a, b) ==
    /\ Len(g) = Len(a) + Len(b)
    /\ \A i \in 1 .. Len(a) : g[i] = a[i]
    /\ \A i \in 1 .. Len(b) : g[Len(a) + i] = b[i]
LEMMA Joined ==
    ASSUME NEW S, NEW a \in Seq(S), NEW b \in Seq(S)
    PROVE  a \o b \in Seq(S) /\ Joins(a \o b, a, b)
BY ConcatProperties DEF Joins

LEMMA FourOf ==
    ASSUME NEW D, NEW i \in D, NEW x \in D, NEW h \in D, NEW n \in D,
           NEW w, w = <<i>> \o <<x, h>> \o <<n>>
    PROVE  w \in Seq(D) /\ Len(w) = 4 /\ w[2] = x /\ w[3] = h /\ w[4] = n
OBVIOUS

LEMMA FourthOn ==
    ASSUME NEW D, NEW w \in Seq(D), Len(w) = 4, NEW t \in Seq(D),
           NEW g \in Seq(D), Joins(g, w, t), NEW r \in Seq(D), Len(r) = 1 + Len(t), r[1] = w[4], \A i \in 1 .. Len(t) : r[1 + i] = t[i]
    PROVE  Len(g) >= 4 /\ g[2] = w[2] /\ g[3] = w[3] /\ SubSeq(g, 4, Len(g)) = r
<1>1. PICK m : m = Len(t)
  OBVIOUS
<1>2. m \in Nat
  BY <1>1, LenProperties
<1>3. /\ Len(g) = 4 + m /\ g[2] = w[2] /\ g[3] = w[3] /\ g[4] = w[4]
      /\ \A i \in 1 .. m : g[4 + i] = t[i]
  BY <1>1, <1>2 DEF Joins
<1>4. PICK z, a : z = Len(g) /\ a = SubSeq(g, 4, z)
  OBVIOUS
<1>5. z \in Int /\ 4 \in Int /\ \A i \in 4 .. z : g[i] \in D
  BY <1>2, <1>3, <1>4, ElementOfSeq
<1>6. a \in Seq(D) /\ Len(a) = z - 4 + 1 /\ \A i \in 1 .. z - 4 + 1 : a[i] = g[4 + i - 1]
  BY <1>2, <1>3, <1>4, <1>5, SubSeqProperties
<1>7. Len(a) = 1 + m /\ a[1] = g[4] /\ \A i \in 1 .. m : a[1 + i] = t[i]
  BY <1>2, <1>3, <1>4, <1>6
<1>8. \A j \in 1 .. 1 + m : a[j] = r[j]
  <2> SUFFICES ASSUME NEW j \in 1 .. 1 + m PROVE a[j] = r[j]
    OBVIOUS
  <2>1. CASE j = 1
    BY <1>3, <1>7, <2>1
  <2>2. CASE j # 1
    <3>1. PICK k : k = j - 1
      OBVIOUS
    <3>2. k \in 1 .. m /\ j = 1 + k
      BY <1>2, <2>2, <3>1
    <3> QED
      BY <1>1, <1>7, <3>2
  <2> QED
    BY <2>1, <2>2
<1>9. a = r
  BY <1>1, <1>6, <1>7, <1>8, SeqEqual
<1> QED
  BY <1>2, <1>3, <1>4, <1>9

(* What the loader makes of the arguments exec.c gives it. *)
LoaderGiven(s, l, i, n, a) ==
    /\ n \in Names /\ i \in Names /\ a \in Seq(DOMAIN Bytes) /\ a # <<>> /\ l \in DOMAIN Kind
    /\ l = fs[s.place] /\ Kind[l].type = "loader" /\ FileAt(Place(n)).type = "dynamic"
    /\ s.argv = <<i>> \o (IF Kind[l].argv0 THEN <<"--argv0", Head(a)>> ELSE <<>>)
                \o <<n>> \o Tail(a)
LEMMA LoaderRuns ==
    ASSUME fs \in [Places -> DOMAIN Kind], NEW s, NEW l, NEW i, NEW n, NEW a,
           LoaderGiven(s, l, i, n, a)
    PROVE  /\ Running(s).program = fs[Place(n)] /\ Running(s).loader = l
           /\ Kind[l].argv0 => Running(s).argv = a
           /\ Tail(Running(s).argv) = Tail(a)
<1> USE DEF LoaderGiven
<1>1. Running(s) = Loaded(s) /\ FileAt(s.place) = Kind[l]
  BY DEF Running, FileAt
<1>2. PICK t, h, g, D : t = Tail(a) /\ h = Head(a) /\ g = s.argv /\ D = DOMAIN Bytes
  OBVIOUS
<1>3. t \in Seq(D) /\ h \in D /\ a = <<h>> \o t /\ n \in D /\ i \in D /\ "--argv0" \in D
  <2>1. n \in D /\ i \in D /\ "--argv0" \in D
    BY <1>2, StringsAssumption
  <2>2. t \in Seq(D) /\ h \in D /\ a = <<h>> \o t
    BY <1>2, HeadTailProperties
  <2> QED
    BY <2>1, <2>2
<1>4. PICK r : r = <<n>> \o t
  OBVIOUS
<1>5. r \in Seq(D) /\ r # <<>> /\ r[1] = n /\ Tail(r) = t
  BY <1>3, <1>4
<1>6. CASE Kind[l].argv0
  <2>1. PICK x, w : x = "--argv0" /\ w = <<i>> \o <<x, h>> \o <<n>>
    OBVIOUS
  <2>2. g = w \o t /\ x \in D
    BY <1>2, <1>3, <1>6, <2>1
  <2>3. w \in Seq(D) /\ Len(w) = 4 /\ w[2] = x /\ w[3] = h /\ w[4] = n
    BY <1>3, <2>1, <2>2, FourOf
  <2>4. Len(r) = 1 + Len(t) /\ \A j \in 1 .. Len(t) : r[1 + j] = t[j]
    BY <1>3, <1>4
  <2>5. Len(g) >= 4 /\ g[2] = "--argv0" /\ g[3] = h /\ SubSeq(g, 4, Len(g)) = r
    <3>1. Len(g) >= 4 /\ g[2] = w[2] /\ g[3] = w[3] /\ SubSeq(g, 4, Len(g)) = r
      <4>1. g \in Seq(D) /\ Joins(g, w, t)
        BY <1>3, <2>2, <2>3, Joined
      <4>2. t \in Seq(D) /\ r \in Seq(D) /\ w \in Seq(D) /\ Len(w) = 4 /\ r[1] = w[4]
        BY <1>3, <1>5, <2>3
      <4> QED
        BY <2>4, <4>1, <4>2, FourthOn, ZenonT(30)
    <3> QED
      BY <2>1, <2>3, <3>1
  <2>6. Loaded(s) = [program |-> fs[Place(n)], loader |-> l, argv |-> <<h>> \o t]
    BY <1>1, <1>2, <1>5, <1>6, <2>5 DEF Loaded
  <2>7. Loaded(s).program = fs[Place(n)] /\ Loaded(s).loader = l /\ Loaded(s).argv = a
    BY <1>3, <2>6
  <2> QED
    BY <1>1, <1>6, <2>7
<1>7. CASE ~Kind[l].argv0
  <2>1. g = <<i>> \o r
    BY <1>2, <1>3, <1>4, <1>7
  <2>2. Tail(g) = r
    BY <1>3, <1>5, <2>1
  <2>3. Loaded(s) = [program |-> fs[Place(n)], loader |-> l, argv |-> <<n>> \o t]
    BY <1>1, <1>2, <1>5, <1>7, <2>2 DEF Loaded
  <2>4. Loaded(s).program = fs[Place(n)] /\ Loaded(s).loader = l /\ Loaded(s).argv = r
    BY <1>4, <2>3
  <2> QED
    BY <1>1, <1>2, <1>5, <1>7, <2>4
<1> QED
  BY <1>6, <1>7

(* The kernel ends as the reference does, with what the reference runs. *)
AsNative(s) ==
    IF Native.ret # "ok" THEN s.ret = Native.ret
    ELSE LET want == Running(Native) got == Running(s)
         IN  /\ s.ret = "ok" /\ got.program = want.program /\ got.loader = want.loader
             /\ \/ got.argv = want.argv
                \/ want.loader # NoFile /\ ~Kind[want.loader].argv0 /\ SameBut0(got.argv, want.argv)
             /\ (IF pending_exe # "" THEN pending_exe ELSE s.place[2]) = Native.place[2]

LEMMA ReadyRuns ==
    ASSUME fs \in [Places -> DOMAIN Kind], NEW place, NEW argv, Ready(place, argv), NEW name \in Names
    PROVE  AsNative(KernelExec("host", place, name, argv))
<1>1. place \in Places /\ argv \in Seq(DOMAIN Bytes)
  BY DEF Ready
<1>2. PICK k, s : k = KernelTurn("host", KernelStart(place, name, argv))
                  /\ s = KernelExec("host", place, name, argv)
  OBVIOUS
<1>3. CASE Direct(place, argv)
  <2>1. /\ k.ret # "running" /\ k.ret = Native.ret /\ k.place = Native.place
        /\ k.argv = Native.argv /\ k.loader = Native.loader /\ pending_exe = ""
    BY <1>2, <1>3 DEF Direct
  <2>2. s = k
    BY <1>1, <1>2, <2>1, HostEnds
  <2>3. Running(k) = Running(Native)
    BY <2>1 DEF Running, Loaded
  <2> QED
    BY <1>2, <2>1, <2>2, <2>3 DEF AsNative
<1>4. CASE ViaLoader(place, argv)
  <2>1. PICK l, n, a, f : l = fs[place] /\ n = Native.name /\ a = Native.argv /\ f = fs[Native.place]
    OBVIOUS
  <2>2. /\ Kind[f].type = "dynamic" /\ place = Place(Kind[f].interp) /\ n \in Names
        /\ Native.place = Place(n) /\ a \in Seq(DOMAIN Bytes) /\ a # <<>>
        /\ pending_exe = Absolute[n] /\ argv = LoaderArgv(Kind[f].interp, l)
        /\ \/ l = NoFile /\ Native.ret = "ENOENT"
           \/ l # NoFile /\ ~Kind[l].exec /\ Native.ret = "EACCES"
           \/ /\ l # NoFile /\ Kind[l].exec /\ Native.ret = "ok" /\ Native.loader = l
              /\ Kind[l].type = "loader"
    BY <1>4, <2>1 DEF ViaLoader
  <2>3. PICK b : b = KernelStart(place, name, argv)
    OBVIOUS
  <2>4. b \in KState /\ b.ret = "running" /\ b.place = place
    BY <1>1, <2>3, StartTyped
  <2>5. l \in DOMAIN Kind /\ TurnEffect("host", b, l)
    BY <2>1, <2>4, TurnIs
  <2>6. CASE l = NoFile
    <3>1. k = [b EXCEPT !.ret = "ENOENT", !.seen = @ \cup {l}]
      BY <1>2, <2>3, <2>5, <2>6 DEF TurnEffect
    <3>2. k.ret = "ENOENT"
      BY <2>4, <3>1 DEF KState
    <3>3. s = k
      BY <1>1, <1>2, <3>2, HostEnds
    <3>4. Native.ret = "ENOENT"
      <4>1. Kind[l].type # "loader"
        BY <2>5, <2>6, KindFacts
      <4> QED
        BY <2>2, <2>6
    <3> QED
      BY <1>2, <3>2, <3>3, <3>4 DEF AsNative
  <2>8. CASE l # NoFile /\ ~Kind[l].exec
    <3>1. k = [b EXCEPT !.ret = "EACCES", !.seen = @ \cup {l}]
      BY <1>2, <2>3, <2>5, <2>8 DEF TurnEffect
    <3>2. k.ret = "EACCES"
      BY <2>4, <3>1 DEF KState
    <3>3. s = k
      BY <1>1, <1>2, <3>2, HostEnds
    <3>4. Native.ret = "EACCES"
      BY <2>2, <2>8
    <3> QED
      BY <1>2, <3>2, <3>3, <3>4 DEF AsNative
  <2>7. CASE l # NoFile /\ Kind[l].exec
    <3>1. Native.ret = "ok" /\ Native.loader = l /\ Kind[l].type = "loader"
      BY <2>2, <2>7
    <3>2. k = [b EXCEPT !.ret = "ok", !.seen = @ \cup {l}]
      BY <1>2, <2>3, <2>5, <2>7, <3>1 DEF TurnEffect
    <3>3. argv # <<>>
      <4>1. PICK i, m, t : i = Kind[f].interp /\ t = Tail(a)
                           /\ m = IF Kind[l].argv0 THEN <<"--argv0", Head(a)>> ELSE <<>>
        OBVIOUS
      <4>2. argv = <<i>> \o m \o <<n>> \o t
        BY <2>1, <2>2, <4>1 DEF LoaderArgv
      <4>3. i \in DOMAIN Bytes /\ n \in DOMAIN Bytes /\ t \in Seq(DOMAIN Bytes) /\ m \in Seq(DOMAIN Bytes)
        <5>1. i \in DOMAIN Bytes /\ n \in DOMAIN Bytes
          <6>1. f \in DOMAIN Kind
            BY <2>1, <2>2, NameFacts
          <6>2. i \in Names
            BY <2>2, <4>1, <6>1, KindFacts
          <6> QED
            BY <2>2, <6>2, StringsAssumption
        <5>2. PICK h, D : h = Head(a) /\ D = DOMAIN Bytes
          OBVIOUS
        <5>3. h \in D /\ t \in Seq(D) /\ "--argv0" \in D
          BY <2>2, <4>1, <5>2, HeadTailProperties, StringsAssumption
        <5>4. <<"--argv0", h>> \in Seq(D) /\ <<>> \in Seq(D)
          BY <5>3
        <5>5. m \in Seq(D)
          BY <4>1, <5>2, <5>4
        <5> QED
          BY <5>1, <5>2, <5>3, <5>5
      <4> QED
        BY <4>2, <4>3
    <3>4. b.argv = argv
      BY <1>1, <2>3, <3>3, StartTyped
    <3>5. k.ret = "ok" /\ k.place = place /\ k.argv = argv
      BY <2>4, <3>2, <3>4 DEF KState
    <3>6. s = k
      BY <1>1, <1>2, <3>5, HostEnds
    <3>7. Running(Native) = [program |-> f, loader |-> l, argv |-> a]
      BY <2>1, <2>2, <3>1 DEF Running, FileAt
    <3>8. PICK i : i = Kind[f].interp
      OBVIOUS
    <3>9. i \in Names
      <4>1. f \in DOMAIN Kind
        BY <2>1, <2>2, NameFacts
      <4> QED
        BY <2>2, <3>8, <4>1, KindFacts
    <3>10. k.argv = <<i>> \o (IF Kind[l].argv0 THEN <<"--argv0", Head(a)>> ELSE <<>>)
                    \o <<n>> \o Tail(a)
      BY <2>1, <2>2, <3>5, <3>8 DEF LoaderArgv
    <3>11. FileAt(Place(n)).type = "dynamic" /\ fs[Place(n)] = f /\ l = fs[k.place]
      BY <2>1, <2>2, <3>5 DEF FileAt
    <3>12. /\ Running(k).program = f /\ Running(k).loader = l
           /\ Kind[l].argv0 => Running(k).argv = a
           /\ Tail(Running(k).argv) = Tail(a)
      <4>1. LoaderGiven(k, l, i, n, a)
        BY <2>2, <2>5, <3>1, <3>9, <3>10, <3>11 DEF LoaderGiven
      <4>2. /\ Running(k).program = fs[Place(n)] /\ Running(k).loader = l
            /\ Kind[l].argv0 => Running(k).argv = a
            /\ Tail(Running(k).argv) = Tail(a)
        BY <4>1, LoaderRuns
      <4> QED
        BY <3>11, <4>2
    <3>13. Native.place[2] = Absolute[n] /\ Absolute[n] # ""
      BY <2>2, NameFacts
    <3>14. Kind[l].argv0 \in BOOLEAN
      BY <2>5, KindFacts
    <3>15. Running(Native).program = f /\ Running(Native).loader = l /\ Running(Native).argv = a
      BY <3>7
    <3>16. l # NoFile
      BY <2>7
    <3>17. pending_exe = Native.place[2] /\ pending_exe # ""
      BY <2>2, <3>13
    <3>18. PICK want, got : want = Running(Native) /\ got = Running(k)
      OBVIOUS
    <3>19. /\ got.program = want.program /\ got.loader = want.loader
           /\ \/ got.argv = want.argv
              \/ want.loader # NoFile /\ ~Kind[want.loader].argv0 /\ SameBut0(got.argv, want.argv)
      BY <3>12, <3>14, <3>15, <3>16, <3>18 DEF SameBut0
    <3> QED
      BY <1>2, <3>1, <3>5, <3>6, <3>17, <3>18, <3>19 DEF AsNative
  <2> QED
    BY <2>6, <2>7, <2>8
<1> QED
  BY <1>3, <1>4 DEF Ready

LEMMA KernelSInv ==
    ASSUME SInv, Kernel
    PROVE  SInv'
<1>1. IInv /\ ShownOK /\ RegsOK /\ AskedOK /\ at = "kernel" /\ at' = "exit"
  BY DEF SInv, Kernel
<1>2. /\ fs' = fs /\ asked' = asked /\ pending_exe' = pending_exe /\ cache' = cache
      /\ regs' = regs /\ exe' = exe
  BY DEF Kernel
<1>3. IInv'
  BY <1>1, NextIInv DEF Next
<1>4. Native' = Native /\ Covered' = Covered /\ Running(Native)' = Running(Native)
  <2>1. Native' = Native /\ Provided' = Provided
    BY <1>2, SameReference
  <2>2. CacheCurrent' = CacheCurrent
    BY <1>2, <2>1 DEF CacheCurrent, Place, FileAt
  <2> QED
    BY <1>2, <2>1, <2>2 DEF Covered, Running, Loaded, FileAt, Place
<1>5. PICK s : s = KernelExec("host", regs.place, regs.name, regs.argv)
  OBVIOUS
<1>6. ASSUME regs # Fault, Covered PROVE AsNative(s)
  <2>1. PICK p, n, a : p = regs.place /\ n = regs.name /\ a = regs.argv
    OBVIOUS
  <2>2. Ready(p, a) /\ n \in Names /\ fs \in [Places -> DOMAIN Kind]
    BY <1>1, <1>6, <2>1 DEF RegsOK, IInv
  <2> QED
    BY <1>5, <2>1, <2>2, ReadyRuns
<1>7. ~regs.cut =>
        /\ ret' = s.ret
        /\ s.ret # "ok" => UNCHANGED <<image, native>>
        /\ s.ret = "ok" =>
             /\ image' = [place |-> s.place, runs |-> Running(s)]
             /\ native' = IF Covered /\ Native.ret = "ok"
                          THEN [exe |-> Native.place[2], known |-> TRUE]
                          ELSE [exe |-> "", known |-> FALSE]
  BY <1>5 DEF Kernel
<1>8. ASSUME ~regs.cut, s.ret = "ok"
       PROVE  /\ image'.place = s.place /\ image'.runs = Running(s)
              /\ (Covered /\ Native.ret = "ok") => native'.exe = Native.place[2]
              /\ ~(Covered /\ Native.ret = "ok") => ~native'.known
  <2>1. PICK p, r, q : p = s.place /\ r = Running(s) /\ q = Native.place[2]
    OBVIOUS
  <2>2. image' = [place |-> p, runs |-> r]
    BY <1>7, <1>8, <2>1
  <2>3. native' = IF Covered /\ Native.ret = "ok" THEN [exe |-> q, known |-> TRUE]
                  ELSE [exe |-> "", known |-> FALSE]
    BY <1>7, <1>8, <2>1
  <2> QED
    BY <2>1, <2>2, <2>3
<1>9. RunsAsInRoot'
  <2> SUFFICES ASSUME regs # Fault, Covered
               PROVE  (IF Native.ret # "ok" THEN ret = Native.ret
                       ELSE LET want == Running(Native) got == image.runs
                            IN  /\ ret = "ok" /\ got.program = want.program
                                /\ got.loader = want.loader
                                /\ \/ got.argv = want.argv
                                   \/ want.loader # NoFile /\ ~Kind[want.loader].argv0
                                      /\ SameBut0(got.argv, want.argv))'
    BY <1>2, <1>4 DEF RunsAsInRoot, Fault
  <2>0. ~regs.cut
    BY <1>1 DEF RegsOK
  <2>1. AsNative(s) /\ ret' = s.ret
    BY <1>6, <1>7, <2>0
  <2>2. CASE Native.ret # "ok"
    BY <1>4, <2>1, <2>2 DEF AsNative
  <2>3. CASE Native.ret = "ok"
    <3>1. s.ret = "ok"
      BY <2>1, <2>3 DEF AsNative
    <3>2. image'.runs = Running(s)
      BY <1>8, <2>0, <3>1
    <3> QED
      BY <1>4, <2>1, <2>3, <3>1, <3>2 DEF AsNative, SameBut0
  <2> QED
    BY <2>2, <2>3
<1>10. ShownOK'
  <2>1. CASE regs.cut
    <3>1. ret' = "EFAULT" /\ UNCHANGED <<image, native>>
      BY <2>1 DEF Kernel
    <3> QED
      BY <1>1, <1>2, <3>1 DEF ShownOK, Shows, map_proc_link
  <2>2. CASE ~regs.cut /\ s.ret # "ok"
    <3>1. ret' # "ok" /\ UNCHANGED <<image, native>>
      BY <1>7, <2>2
    <3> QED
      BY <1>1, <1>2, <3>1 DEF ShownOK, Shows, map_proc_link
  <2>3. CASE ~regs.cut /\ s.ret = "ok"
    <3>1. ret' = "ok" /\ image'.place = s.place
      BY <1>7, <1>8, <2>3
    <3>2. CASE Covered /\ Native.ret = "ok"
      <4>1. native'.exe = Native.place[2]
        BY <1>8, <2>3, <3>2
      <4>2. (IF pending_exe # "" THEN pending_exe ELSE s.place[2]) = Native.place[2]
        <5>1. regs # Fault
          <6>1. Fault.cut
            BY DEF Fault
          <6> QED
            BY <2>3, <6>1
        <5> QED
          BY <1>6, <2>3, <3>2, <5>1 DEF AsNative
      <4> QED
        BY <1>1, <1>2, <3>1, <4>1, <4>2 DEF ShownOK, Shows
    <3>3. CASE ~(Covered /\ Native.ret = "ok")
      <4>1. ~native'.known
        BY <1>8, <2>3, <3>3
      <4> QED
        BY <4>1 DEF ShownOK
    <3> QED
      BY <3>2, <3>3
  <2> QED
    BY <2>1, <2>2, <2>3
<1>11. AskedOK'
  BY <1>1, <1>2 DEF AskedOK
<1> QED
  BY <1>1, <1>3, <1>9, <1>10, <1>11 DEF SInv, LoopOK, LaidOK, RegsOK

LEMMA ExitSInv ==
    ASSUME SInv, Exit
    PROVE  SInv'
<1>1. IInv /\ ShownOK /\ at = "exit" /\ at' = "user"
  BY DEF SInv, Exit
<1>2. IInv'
  BY <1>1, NextIInv DEF Next
<1>3. ShownOK'
  BY <1>1 DEF Exit, ShownOK, Shows, map_proc_link
<1> QED
  BY <1>1, <1>2, <1>3 DEF SInv, LoopOK, LaidOK, RegsOK, RunsAsInRoot

LEMMA UpgradeSInv ==
    ASSUME SInv, Upgrade
    PROVE  SInv'
<1>1. IInv /\ ShownOK /\ at = "user" /\ at' = "user" /\ UNCHANGED <<image, exe, native>>
  BY DEF SInv, Upgrade
<1>2. IInv'
  BY <1>1, NextIInv DEF Next
<1>3. ShownOK'
  BY <1>1, StillShown
<1> QED
  BY <1>1, <1>2, <1>3 DEF SInv, LoopOK, LaidOK, RegsOK, RunsAsInRoot

LEMMA StutterSInv ==
    ASSUME SInv, UNCHANGED vars
    PROVE  SInv'
<1>1. /\ fs' = fs /\ asked' = asked /\ pending_exe' = pending_exe /\ cache' = cache /\ ex' = ex
      /\ regs' = regs /\ at' = at /\ ret' = ret /\ image' = image /\ exe' = exe /\ native' = native
  BY DEF vars
<1>2. Native' = Native /\ Provided' = Provided /\ Turns' = Turns
  BY <1>1, SameReference
<1>3. Covered' = Covered /\ Running(Native)' = Running(Native)
  <2>1. CacheCurrent' = CacheCurrent
    BY <1>1, <1>2 DEF CacheCurrent, Place, FileAt
  <2> QED
    BY <1>1, <1>2, <2>1 DEF Covered, Running, Loaded, FileAt, Place
<1>4. IInv' /\ (at' # "user" => AskedOK')
  <2>1. IInv'
    BY NextIInv DEF SInv
  <2> QED
    BY <1>1, <2>1 DEF SInv, AskedOK
<1>5. LoopOK'
  BY <1>1, <1>2 DEF SInv, LoopOK, InStep, Host, host_path_of, Place, Texts
<1>6. LaidOK' /\ RegsOK'
  <2>1. PICK h, t, p, a : h = ex.host /\ t = Texts(ex.args) /\ p = regs.place /\ a = regs.argv
    OBVIOUS
  <2>2. ex'.host = h /\ Texts(ex.args)' = t /\ regs'.place = p /\ regs'.argv = a
        /\ Place(asked.path)' = Place(asked.path)
    BY <1>1, <2>1 DEF Texts, Place
  <2>3. /\ (Ready(h, t) => Ready(ex.host, Texts(ex.args))')
        /\ (Ready(p, a) => Ready(regs.place, regs.argv)')
    BY <1>1, <2>2, ReadyThen
  <2>4. LaidOK'
    BY <1>1, <1>3, <2>1, <2>2, <2>3 DEF SInv, LaidOK
  <2>5. RegsOK'
    BY <1>1, <1>3, <2>1, <2>2, <2>3 DEF SInv, RegsOK, Fault
  <2> QED
    BY <2>4, <2>5
<1>7. RunsAsInRoot'
  BY <1>1, <1>2, <1>3 DEF SInv, RunsAsInRoot, Fault, SameBut0
<1>8. ShownOK'
  BY <1>1 DEF SInv, ShownOK, Shows, map_proc_link
<1> QED
  BY <1>4, <1>5, <1>6, <1>7, <1>8 DEF SInv

LEMMA InitSInv == Init => SInv
<1> SUFFICES ASSUME Init PROVE SInv
  OBVIOUS
<1>1. at = "user" /\ ~native.known
  BY DEF Init
<1> QED
  BY <1>1, InitIInv DEF SInv, LoopOK, LaidOK, RegsOK, RunsAsInRoot, ShownOK

LEMMA NextSInv == SInv /\ [Next]_vars => SInv'
<1> SUFFICES ASSUME SInv, [Next]_vars PROVE SInv'
  OBVIOUS
<1>1. CASE UNCHANGED vars
  BY <1>1, StutterSInv
<1>2. ASSUME NEW n \in Names, NEW argv \in Argvs, NEW cut \in BOOLEAN, Call(n, argv, cut)
      PROVE  SInv'
  BY <1>2, CallSInv
<1> QED
  BY <1>1, <1>2, StopsSInv, ScriptSInv, LoaderSInv, EndsSInv, LayOutSInv, KernelSInv, ExitSInv,
     UpgradeSInv DEF Next

LEMMA AlwaysSInv == Spec => []SInv
BY InitSInv, NextSInv, PTL DEF Spec

-----------------------------------------------------------------------------
(* Whatever the files are and however execve is called, exec.c's loop      *)
(* (exec.c:204), the loader it puts in front and the kernel together run   *)
(* what one execve under a real chroot runs, or fail with its error, for   *)
(* every call exec.c provides for.                                         *)
THEOREM RunsLikeChroot == Spec => []RunsAsInRoot
<1>1. SInv => RunsAsInRoot
  BY DEF SInv
<1> QED
  BY <1>1, AlwaysSInv, PTL

(* After any sequence of calls /proc/self/exe shows the program that the   *)
(* last one that succeeded runs, and not its loader (fake.c:64).           *)
THEOREM ExeIsProgram == Spec => []ExeShown
<1>1. SInv => ExeShown
  BY DEF SInv, ShownOK, Shows, ExeShown
<1> QED
  BY <1>1, AlwaysSInv, PTL
=============================================================================
