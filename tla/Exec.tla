-------------------------------- MODULE Exec --------------------------------
(***************************************************************************)
(* execve under an emulated root (exec.c): the tracer looks at the file,   *)
(* expands #! lines and puts the root's own loader in front of a dynamic   *)
(* program, because the kernel would look for both on the host.  A real    *)
(* chroot is the reference.  What /proc/self/exe shows is fake.c's.        *)
(*                                                                         *)
(* A place is <<side, name>>: a name below the root's directory, or the    *)
(* same name on the host.  A relative name is relative to a directory      *)
(* inside the root.  Symlinks are Namespace's.                             *)
(***************************************************************************)
EXTENDS Integers, Sequences, FiniteSetsExt, SequencesExt

CONSTANTS
    Names,              \* guest names of files
    Relative,           \* those that are relative
    Absolute,           \* the absolute name of each
    Bound,              \* absolute names bound to the same name on the host
    Kind,               \* what each file is
    FirstFiles,         \* the file at each place at first
    Upgrades,           \* <<place, file>>: how loaders may be replaced
    Argvs,              \* what a program may pass
    Bytes,              \* the length of every string
    MAX_EXEC_ARGS, MAX_SHEBANG_DEPTH, MAX_CACHE, KERNEL_DEPTH

Places == {"root", "host"} \X Names
NoFile == "none"
NoArg == "none"

ASSUME ExecAssumption ==
    /\ Relative \subseteq Names /\ Absolute \in [Names -> Names \ Relative]
    /\ Bound \subseteq Names \ Relative
    /\ \A f \in DOMAIN Kind :
         /\ Kind[f].interp \in (Names \ Relative) \cup {""}
         /\ {Kind[f].argv0, Kind[f].readable, Kind[f].exec} \subseteq BOOLEAN
         /\ Kind[f].type \in {"script", "dynamic", "static", "loader", "text", "none"}
         /\ Kind[f].type = "none" <=> f = NoFile
         /\ Kind[f].argv0 => Kind[f].type = "loader"
         /\ Kind[f].type \in {"script", "dynamic"} => Kind[f].interp # ""
         /\ Kind[f].type = "script" =>
              Kind[f].arg = NoArg \/ {Kind[f].arg, Kind[f].raw} \subseteq DOMAIN Bytes
    /\ FirstFiles \in [Places -> DOMAIN Kind] /\ NoFile \in DOMAIN Kind
    /\ \A u \in Upgrades : u[1] \in Places /\ u[2] \in DOMAIN Kind
    /\ {MAX_EXEC_ARGS, MAX_SHEBANG_DEPTH, MAX_CACHE, KERNEL_DEPTH} \subseteq Nat
ASSUME StringsAssumption ==
    /\ Names \cup {"--argv0"} \subseteq DOMAIN Bytes /\ "" \notin Names /\ Argvs \subseteq Seq(DOMAIN Bytes)
    /\ \A s \in DOMAIN Bytes : Bytes[s] \in Nat
(* 8192 and 5 in exec.c, whose args has 16 entries to spare for the #! lines *)
ASSUME ArgsAssumption == MAX_EXEC_ARGS >= 1 /\ 2 * MAX_SHEBANG_DEPTH + 1 <= 16
(* a kernel follows as many #! lines as exec.c does *)
ASSUME DepthAssumption == MAX_SHEBANG_DEPTH <= KERNEL_DEPTH

VARIABLES
    at,             \* "user", "loop" (exec.c's), "laid out", "kernel", "exit"
    fs,             \* the file at each place
    asked,          \* path and argv of the call, and what befalls it: argv is
                    \* cut by memory that cannot be read, or exec.c runs out of it (oom)
    ex,             \* locals of emuroot_rewrite_exec
    cache,          \* loader_has_argv0's
    regs,           \* what the kernel gets
    ret,
    image,          \* the program that runs
    exe, pending_exe,
    native          \* what would run under a real chroot, if the call is covered

vars == <<at, fs, asked, ex, cache, regs, ret, image, exe, pending_exe, native>>

-----------------------------------------------------------------------------
(* Names and places. *)
Place(n) == IF Absolute[n] \in Bound THEN <<"host", Absolute[n]>> ELSE <<"root", Absolute[n]>>

(* host_path_of: an absolute name is translated, a relative one appended   *)
(* to the real working directory as it is                                  *)
host_path_of(n) == IF n \in Relative THEN <<"root", Absolute[n]>> ELSE Place(n)
guest_absolute(n) == Absolute[n]

FileAt(p) == Kind[fs[p]]
Opens(p) == fs[p] # NoFile /\ FileAt(p).readable

(* PT_INTERP, "" for a file without one *)
elf_interp(k) == IF k.type = "dynamic" THEN k.interp ELSE ""

(* parse_shebang drops a trailing CR from the argument, the kernel         *)
(* (KernelTurn) does not                                                   *)
sb_arg(k) == IF k.arg = NoArg THEN <<>> ELSE <<k.arg>>

Own(s) == [str |-> s, own |-> TRUE]
Texts(args) == [i \in 1 .. Len(args) |-> args[i].str]

(* the first entry is replaced *)
replace_head(args, lead) == [i \in 1 .. Len(lead) |-> Own(lead[i])] \o Tail(args)

(* every answer is kept while there is room, that of a missing file too    *)
loader_has_argv0(p) ==
    IF p \in DOMAIN cache THEN cache[p] ELSE Opens(p) /\ FileAt(p).argv0
\* variant: one entry too many
Cached_OffByOne(p) ==
    IF p \notin DOMAIN cache /\ Cardinality(DOMAIN cache) <= MAX_CACHE
    THEN [q \in DOMAIN cache \cup {p} |-> IF q = p THEN loader_has_argv0(p) ELSE cache[q]]
    ELSE cache
Cached(p) ==
    IF p \notin DOMAIN cache /\ Cardinality(DOMAIN cache) < MAX_CACHE
    THEN [q \in DOMAIN cache \cup {p} |-> IF q = p THEN loader_has_argv0(p) ELSE cache[q]]
    ELSE cache

-----------------------------------------------------------------------------
(* The kernel's execve, external.  It follows #! lines and finds a         *)
(* program's loader on one side: below the root, as under a real chroot,   *)
(* or on the host.  place is what /proc/self/exe shows, seen the files looked at. *)
OnHost(n) == <<IF n \in Relative THEN "root" ELSE "host", Absolute[n]>>
Where(side, n) == IF side = "root" THEN Place(n) ELSE OnHost(n)

KernelTurn(side, s) ==
    LET k == FileAt(s.place)
        stop(r) == [s EXCEPT !.ret = r, !.seen = @ \cup {fs[s.place]}]
    IN  IF s.ret # "running" THEN s
        ELSE IF fs[s.place] # NoFile /\ ~k.exec THEN stop("EACCES")
        ELSE CASE k.type = "none" -> stop("ENOENT")
               [] k.type = "text" -> stop("ENOEXEC")
               [] k.type = "script" ->
                      [s EXCEPT !.place = Where(side, k.interp), !.name = k.interp,
                                !.argv = <<k.interp>> \o (IF k.arg = NoArg THEN <<>> ELSE <<k.raw>>)
                                         \o <<s.name>> \o Tail(@),
                                !.scripts = @ + 1, !.seen = @ \cup {fs[s.place]}]
               [] k.type = "dynamic" ->
                      IF fs[Where(side, k.interp)] = NoFile THEN stop("ENOENT")
                      ELSE IF ~FileAt(Where(side, k.interp)).exec THEN stop("EACCES")
                      ELSE [stop("ok") EXCEPT !.loader = fs[Where(side, k.interp)]]
               [] k.type \in {"static", "loader"} -> stop("ok")

KernelStart(place, name, argv) ==
    [place |-> place, name |-> name, ret |-> "running", loader |-> NoFile, scripts |-> 0, seen |-> {},
     argv |-> IF argv = <<>> THEN <<"">> ELSE argv]
KernelTurns(side, start) ==
    LET turn[n \in Nat] == IF n = 0 THEN start ELSE KernelTurn(side, turn[n - 1]) IN turn
KernelExec(side, place, name, argv) ==
    LET s == KernelTurns(side, KernelStart(place, name, argv))[KERNEL_DEPTH + 1]
    IN  IF s.ret = "running" THEN [s EXCEPT !.ret = "ELOOP"] ELSE s

(* A loader run as a program (external) loads the program named in its     *)
(* argv, which it opens through the guest's own calls.                     *)
Loaded(s) ==
    LET given == s.argv
        has == Len(given) >= 4 /\ given[2] = "--argv0" /\ FileAt(s.place).argv0
        rest == IF has THEN SubSeq(given, 4, Len(given)) ELSE Tail(given)
        fails == \/ rest[1] \notin Names
                 \/ FileAt(Place(rest[1])).type # "dynamic"
    IN  IF rest = <<>> THEN [program |-> fs[s.place], loader |-> NoFile, argv |-> given]
        ELSE IF fails THEN [program |-> NoFile, loader |-> fs[s.place], argv |-> <<>>]
        ELSE [program |-> fs[Place(rest[1])], loader |-> fs[s.place],
              argv |-> <<IF has THEN given[3] ELSE rest[1]>> \o Tail(rest)]
Running(s) ==
    IF FileAt(s.place).type = "loader" THEN Loaded(s)
    ELSE [program |-> fs[s.place], loader |-> s.loader, argv |-> s.argv]

Native == KernelExec("root", Place(asked.path), asked.path, asked.argv)

-----------------------------------------------------------------------------
(* What exec.c does not provide for: no argv, one that is too long, or one *)
(* that cannot be read to its end; no memory for its own copy of it        *)
(* (exec.c:196, the program then runs on the host's loader); #! lines up   *)
(* to the limit; a file it may not read although the kernel may execute    *)
(* it; a script or a dynamic program that may not be executed, which it    *)
(* runs all the same (exec.c:207 opens it and asks for no more); a         *)
(* relative name that leads into a binding; a trailing CR; a PT_INTERP     *)
(* that names no loader, or one it may not read.                           *)
Provided ==
    /\ Len(asked.argv) \in 1 .. MAX_EXEC_ARGS /\ ~asked.cut /\ ~asked.oom
    /\ Native.scripts < MAX_SHEBANG_DEPTH
    /\ ~(asked.path \in Relative /\ Absolute[asked.path] \in Bound)
    /\ \A f \in Native.seen :
         /\ Kind[f].readable \/ Kind[f].type = "static"
         /\ Kind[f].type \in {"script", "dynamic"} => Kind[f].exec
         /\ Kind[f].type = "script" => Kind[f].raw = Kind[f].arg
         /\ Kind[f].type = "dynamic" =>
              LET p == Place(Kind[f].interp)
              IN  fs[p] # NoFile => FileAt(p).type = "loader" /\ FileAt(p).readable

(* Nor for a loader that was replaced after it was looked at. *)
CacheCurrent ==
    \A f \in Native.seen : Kind[f].type = "dynamic" =>
        LET p == Place(Kind[f].interp) IN p \in DOMAIN cache => cache[p] = FileAt(p).argv0
Covered == Provided /\ CacheCurrent

(* A program calls execve.  on_entry forgets what an earlier one noted.    *)
(* An argv that is cut ends there, as if the rest were not.                *)
Call(path, argv, cut) ==
    /\ at = "user"
    /\ \E oom \in BOOLEAN :
         /\ asked' = [path |-> path, argv |-> argv, cut |-> cut, oom |-> oom]
         /\ at' = IF argv = <<>> \/ oom THEN "laid out" ELSE "loop"
    /\ ex' = [path |-> path, host |-> Place(path), depth |-> 0, rewritten |-> FALSE,
              args |-> [i \in 1 .. Min({Len(argv), MAX_EXEC_ARGS}) |-> [str |-> argv[i], own |-> FALSE]]]
    /\ pending_exe' = ""
    /\ UNCHANGED <<fs, cache, regs, ret, image, exe, native>>

(* One turn of the loop. *)
Host == host_path_of(ex.path)
Turning == at = "loop" /\ ex.depth < MAX_SHEBANG_DEPTH
SameAtBoth(interp) ==
    fs[OnHost(interp)] # NoFile /\ fs[OnHost(interp)] = fs[Place(interp)]

(* a break: it cannot be read, has no loader, or the kernel finds its loader *)
TurnStops ==
    /\ Turning
    /\ Opens(Host) =>
         /\ FileAt(Host).type # "script"
         /\ elf_interp(FileAt(Host)) # "" => SameAtBoth(elf_interp(FileAt(Host)))
    /\ ex' = [ex EXCEPT !.host = Host] /\ at' = "laid out"
    /\ UNCHANGED <<fs, asked, cache, regs, ret, image, exe, pending_exe, native>>

\* variant: the script's own name is not passed on
TurnScript_NoScript ==
    /\ Turning /\ Opens(Host) /\ FileAt(Host).type = "script"
    /\ ex' = [path |-> FileAt(Host).interp, host |-> Host, depth |-> ex.depth + 1,
              rewritten |-> TRUE,
              args |-> replace_head(ex.args, <<FileAt(Host).interp>> \o sb_arg(FileAt(Host)))]
    /\ UNCHANGED <<at, fs, asked, cache, regs, ret, image, exe, pending_exe, native>>

(* argv := interp [arg] script argv[1..] *)
TurnScript ==
    /\ Turning /\ Opens(Host) /\ FileAt(Host).type = "script"
    /\ ex' = [path |-> FileAt(Host).interp, host |-> Host, depth |-> ex.depth + 1,
              rewritten |-> TRUE,
              args |-> replace_head(ex.args,
                           <<FileAt(Host).interp>> \o sb_arg(FileAt(Host)) \o <<ex.path>>)]
    /\ UNCHANGED <<at, fs, asked, cache, regs, ret, image, exe, pending_exe, native>>

(* argv := loader [--argv0 argv0] program argv[1..] *)
TurnLoader ==
    /\ Turning /\ Opens(Host) /\ elf_interp(FileAt(Host)) # ""
    /\ LET interp == elf_interp(FileAt(Host))
           lead == IF loader_has_argv0(Place(interp)) THEN <<"--argv0", ex.args[1].str>> ELSE <<>>
       IN  /\ ~SameAtBoth(interp)
           /\ cache' = Cached(Place(interp))
           /\ ex' = [path |-> interp, host |-> Place(interp), depth |-> ex.depth,
                     rewritten |-> TRUE,
                     args |-> replace_head(ex.args, <<interp>> \o lead \o <<ex.path>>)]
    /\ pending_exe' = guest_absolute(ex.path)
    /\ at' = "laid out"
    /\ UNCHANGED <<fs, asked, regs, ret, image, exe, native>>

(* after the last turn, host is still the last script's *)
LoopEnds ==
    /\ at = "loop" /\ ex.depth = MAX_SHEBANG_DEPTH /\ at' = "laid out"
    /\ UNCHANGED <<fs, asked, ex, cache, regs, ret, image, exe, pending_exe, native>>

-----------------------------------------------------------------------------
(* [path][strings][pointers] as one block: what is allocated and what is   *)
(* filled in.  A string takes up its bytes and the NUL.                    *)
WORD == 8
OwnBytes(i) == IF ex.args[i].own THEN {i} \X (0 .. Bytes[ex.args[i].str]) ELSE {}
StringsSize == Bytes[ex.host[2]] + 1
    + Cardinality(UNION {OwnBytes(i) : i \in DOMAIN ex.args})
\* variant: no allowance for the alignment
total_Tight == StringsSize + (Len(ex.args) + 1) * WORD
total == StringsSize + (Len(ex.args) + 1) * WORD + 32
off == ((StringsSize + 15) \div 16) * 16
used == off + (Len(ex.args) + 1) * WORD

(* The block is written and the registers repointed, or there is no room   *)
(* and the path becomes 0; a call that was not rewritten has its path      *)
(* translated like any other, and its argv goes to the kernel as it is.    *)
Fault == [place |-> <<"none", "">>, name |-> "", argv |-> <<>>, cut |-> TRUE]
LayOut ==
    /\ at = "laid out" /\ at' = "kernel"
    /\ IF ex.rewritten
       THEN regs' \in {[place |-> ex.host, name |-> ex.host[2], argv |-> Texts(ex.args),
                         cut |-> FALSE], Fault}
       ELSE regs' = [place |-> Place(asked.path), name |-> asked.path, argv |-> asked.argv,
                     cut |-> asked.cut]
    /\ UNCHANGED <<fs, asked, ex, cache, ret, image, exe, pending_exe, native>>

(* The kernel executes it on the host, unless it cannot read what it was   *)
(* given.  native is kept for the properties.                              *)
Kernel ==
    /\ at = "kernel" /\ at' = "exit"
    /\ IF regs.cut THEN ret' = "EFAULT" /\ UNCHANGED <<image, native>>
       ELSE LET s == KernelExec("host", regs.place, regs.name, regs.argv)
            IN  /\ ret' = s.ret
                /\ IF s.ret # "ok" THEN UNCHANGED <<image, native>>
                   ELSE /\ image' = [place |-> s.place, runs |-> Running(s)]
                        /\ native' = IF Covered /\ Native.ret = "ok"
                                     THEN [exe |-> Native.place[2], known |-> TRUE]
                                     ELSE [exe |-> "", known |-> FALSE]
    /\ UNCHANGED <<fs, asked, ex, cache, regs, exe, pending_exe>>

(* fake.c: the new image is running now *)
\* variant: whatever the result
Exit_Always ==
    /\ at = "exit" /\ at' = "user" /\ exe' = pending_exe
    /\ ex' = <<>> /\ regs' = <<>> /\ asked' = <<>> /\ ret' = "none"
    /\ UNCHANGED <<fs, cache, image, pending_exe, native>>

Exit ==
    /\ at = "exit" /\ at' = "user"
    /\ exe' = IF ret = "ok" THEN pending_exe ELSE exe
    /\ ex' = <<>> /\ regs' = <<>> /\ asked' = <<>> /\ ret' = "none"
    /\ UNCHANGED <<fs, cache, image, pending_exe, native>>

(* readlink of /proc/self/exe *)
map_proc_link == IF exe # "" THEN exe ELSE image.place[2]

(* A package is upgraded, by this or another process. *)
Upgrade ==
    /\ at = "user"
    /\ \E u \in Upgrades : fs[u[1]] # u[2] /\ fs' = [fs EXCEPT ![u[1]] = u[2]]
    /\ UNCHANGED <<at, asked, ex, cache, regs, ret, image, exe, pending_exe, native>>

Init ==
    /\ at = "user" /\ fs = FirstFiles /\ asked = <<>> /\ ex = <<>> /\ cache = <<>>
    /\ regs = <<>> /\ ret = "none" /\ exe = "" /\ pending_exe = ""
    /\ image = [place |-> <<"host", "">>, runs |-> [program |-> NoFile, loader |-> NoFile, argv |-> <<>>]]
    /\ native = [exe |-> "", known |-> FALSE]

Next ==
    \/ \E n \in Names, argv \in Argvs, cut \in BOOLEAN : Call(n, argv, cut)
    \/ TurnStops \/ TurnScript \/ TurnLoader \/ LoopEnds
    \/ LayOut \/ Kernel \/ Exit \/ Upgrade

Spec == Init /\ [][Next]_vars

-----------------------------------------------------------------------------
(* Types: the loop's turns, argv and the loaders' cache stay within their  *)
(* bounds (args has room for MAX_EXEC_ARGS + 16 entries).                  *)
TypeOK ==
    /\ at \in {"user", "loop", "laid out", "kernel", "exit"}
    /\ fs \in [Places -> DOMAIN Kind]
    /\ Cardinality(DOMAIN cache) <= MAX_CACHE
    /\ \A p \in DOMAIN cache : p \in Places /\ cache[p] \in BOOLEAN
    /\ exe \in Names \cup {""} /\ pending_exe \in Names \cup {""}
    /\ at = "loop" => ex.depth \in 0 .. MAX_SHEBANG_DEPTH
    /\ at \in {"loop", "laid out"} => /\ Len(ex.args) \in 0 .. MAX_EXEC_ARGS + 16
                                      /\ ex.path \in Names /\ ex.host \in Places

(* What runs after an execve is what would run under a real chroot: the    *)
(* same program, on the root's own loader, with the same argv, through any *)
(* #! lines ("a glibc binary would run on the host's ld.so", exec.c:5); or *)
(* both calls fail.  argv[0] is the program's name when the loader cannot  *)
(* be told another; a call for which there is no room fails.               *)
SameBut0(a, b) == Tail(a) = Tail(b)
RunsAsInRoot == (at = "exit" /\ regs # Fault /\ Covered) =>
    IF Native.ret # "ok" THEN ret = Native.ret
    ELSE LET want == Running(Native) got == image.runs
         IN  /\ ret = "ok" /\ got.program = want.program /\ got.loader = want.loader
             /\ \/ got.argv = want.argv
                \/ want.loader # NoFile /\ ~Kind[want.loader].argv0 /\ SameBut0(got.argv, want.argv)

(* /proc/self/exe shows the program and not the loader emuroot ran it      *)
(* through (fake.c:64), after any sequence of calls that succeed or fail   *)
(* at any point.                                                           *)
ExeShown == (at = "user" /\ native.known) =>
    map_proc_link = native.exe

(* The pointers, aligned after the strings, end inside the block allocated *)
(* for them (exec.c:244).                                                  *)
BlobFits == (at = "laid out" /\ ex.rewritten) => used <= total
=============================================================================
