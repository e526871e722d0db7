------------------------------ MODULE Rewrite ------------------------------
(***************************************************************************)
(* A call's path arguments between its two stops (rewrite.c): read from    *)
(* the tracee's memory, translated, written back below its stack, the      *)
(* registers repointed at the copy.  The kernel then resolves what it      *)
(* finds in the registers and in memory, and may have to start the call    *)
(* again when a signal interrupts it.                                      *)
(*                                                                         *)
(* The translation itself is Namespace's and is a function here; the       *)
(* notes of an entry are Ownership's.  There is a root or a binding.       *)
(***************************************************************************)
EXTENDS Memory, Dac

CONSTANTS
    Translate,          \* the host's name of each guest name
    Relative, Empty,    \* relative names, the empty one
    SUN_PATH, SUN_SIZE, \* sizeof sun_path and of sockaddr_un
    PATH_LEN,           \* of the tracer's buffers for a path
    Home,               \* the program's memory when it makes a call
    Heap,               \* the part of it away from the stack
    Pointers, SPs,      \* what its registers may hold
    Buffers,            \* where it wants an answer
    Cwd, Cwd_host,      \* its working directory, and that on the host
    Arch,               \* EMU_ARCH_NAME
    Modes,              \* the bits chmod may set
    Absent,             \* the files that are not there at first
    RedZone,            \* what a program uses below its stack pointer
    FrameSize,          \* of a signal handler
    fake_root,          \* the tracee's fake effective uid is 0
    MaxCalls            \* bound: calls of a behaviour

(* arch.h: only the x86 architectures have a register of its own for the   *)
(* result; on the others it is the first argument's.                       *)
Archs == {"x86_64", "x86", "aarch64", "arm", "riscv64", "loongarch64", "ppc64le", "s390x"}
Arg1IsRet == Arch \notin {"x86_64", "x86"}

ASSUME ProgramAssumption ==
    /\ Translate \in [Strings -> Strings] /\ Relative \subseteq Strings /\ Files \subseteq Strings
    /\ Absent \subseteq Files \ Folders
    /\ Home \in [Mapped -> Cell] /\ Heap \subseteq Mapped
    /\ Arch \in Archs /\ Translate[Cwd] = Cwd_host /\ Buffers \subseteq Addr
    /\ Pointers \cap Buffers = {}
    /\ Pointers \subseteq Addr /\ SPs \subseteq Addr
    /\ fake_root \in BOOLEAN /\ MaxCalls \in Nat
    /\ RedZone \in 0 .. SCRATCH_MARGIN /\ FrameSize \in Nat
    /\ {Cwd, Cwd_host, Empty} \subseteq Strings /\ Modes \subseteq SUBSET Bits
ASSUME SizesAssumption ==
    /\ PATH_LEN \in Nat /\ \A s \in Strings : Size[s] <= PATH_LEN
    /\ SUN_PATH \in 0 .. SUN_SIZE /\ SUN_SIZE \in 1 .. PATH_LEN

(* How far below the stack pointer two rewritten arguments may reach.      *)
Reach == SCRATCH_MARGIN + ALIGN + 2 * (PATH_LEN + ALIGN)

(* The highest addresses are the kernel's, the first page is nobody's, and *)
(* the program's data lie below all that is put under its stack pointer,   *)
(* or above it.                                                            *)
ASSUME LayoutAssumption ==
    /\ Reach < Space /\ RedZone + FrameSize < Space
    /\ \A a \in Mapped : a + Reach < Space /\ a + RedZone + FrameSize < Space
    /\ Size[Cwd_host] \notin Mapped
    /\ \A a \in Heap, sp \in SPs :
        a + RedZone >= sp \/ (a + Reach < sp /\ a + RedZone + FrameSize < sp)

(* The names it passes are among its data.                                 *)
ASSUME PointersAssumption ==
    \A p \in Pointers \cap Mapped : \A j \in 0 .. Size[Home[p][1]] - 1 :
        Plus(p, j) \in Heap \/ Plus(p, j) \notin Mapped

Fault == "fault"    \* what the kernel finds at a bad address

(* Host names are absolute. *)
ASSUME NamesAssumption ==
    /\ Fault \notin Strings /\ Empty \notin Relative \cup Files /\ Relative \cap Files = {}
    /\ \A s \in Strings : Translate[s] \notin Relative

VARIABLES
    at,             \* where the call is
    call,           \* what the program asked for
    regs,           \* the tracee's argument registers
    mem,            \* its memory
    scratch_top,
    method,         \* guest.c's
    allowed,        \* the methods the kernel lets the tracer use
    regs_mode,      \* regs.c's mode
    regset,         \* the kernel knows PTRACE_GETREGSET
    mode, there,    \* the permission bits of the files, and which exist
    before,         \* history: the bits when the call was made
    ret,            \* the call's result
    first,          \* what the kernel resolved before it was interrupted
    calls           \* how many there have been

vars == <<at, call, regs, mem, scratch_top, method, allowed, regs_mode, regset,
          mode, there, before, ret, first, calls>>
kernel == <<allowed, regset>>
files == <<mode, there>>

Ops == {"open_r", "open_w", "open_creat", "openat2", "openat2_w", "unlink", "rename",
        "chmod", "connect", "getcwd"}
Paths(op) == CASE op = "rename" -> 1 .. 2 [] op = "getcwd" -> {} [] OTHER -> {1}
Never == <<>>

-----------------------------------------------------------------------------
(* regs.c.  The first read finds out whether the kernel has register sets; *)
(* a write goes by what it found.                                          *)
regs_get(m) ==
    IF m \in {"UNDECIDED", "REGSET"} /\ regset THEN "REGSET" ELSE "GETREGS"

(* t has the handler's copy of the registers in regs, the tracee's in real *)
regs_set(t) ==
    IF t.regs_mode = "REGSET" /\ ~regset THEN t ELSE [t EXCEPT !.real = t.regs]

\* variant: the register is left as it is
fail_closed_Open(t, i) == regs_set(t)
fail_closed(t, i) == regs_set([t EXCEPT !.regs[i] = 0])

-----------------------------------------------------------------------------
(* Room for len cells, s written to it, and the register repointed.        *)
Replaced(t, i, s, len) ==
    LET addr == emuroot_scratch(t.top, len)
        sent == transfer(t.method, allowed, addr, len)
        written == [t EXCEPT !.top = addr, !.method = sent.method,
                             !.mem = Written(t.mem, addr, s, len)]
    IN  CASE addr = 0 -> fail_closed(t, i)
          [] addr # 0 /\ sent.n = len -> regs_set([written EXCEPT !.regs[i] = addr])
          [] addr # 0 /\ sent.n # len -> fail_closed(written, i)

(* strict_openat2, absolute_guest_path: names the kernel is to resolve.    *)
(* The directory is outside the root, or is not known (readlink fails).    *)
LeftAlone(s) ==
    \/ s = Empty
    \/ /\ s \in Relative
       /\ call.outside \/ (call.op \in {"openat2", "openat2_w"} /\ call.strict)

rewrite_path_arg(t, i) ==
    LET read == transfer(t.method, allowed, t.regs[i], 1)
        seen == [t EXCEPT !.method = read.method]
        given == Text(t.mem, t.regs[i])
        host == Translate[given]
        granted == IF fake_root
                   THEN [seen EXCEPT !.mode = emuroot_grant_access(@, there, call.op, i, host)]
                   ELSE seen
    IN  CASE t.regs[i] = 0 -> t
          [] t.regs[i] # 0 /\ read.n < 0 ->
                 IF read.errno = "EFAULT" THEN seen ELSE fail_closed(seen, i)
          [] t.regs[i] # 0 /\ read.n >= 0 /\ LeftAlone(given) -> seen
          [] OTHER -> IF host = given THEN granted
                      ELSE Replaced(granted, i, host, Size[host])

(* The path of a unix socket; the length goes with the text.  What is no   *)
(* absolute path, or would not fit, goes on as it is.                      *)
rewrite_sockaddr(t) ==
    LET given == Text(t.mem, t.regs[1])
        host == Translate[given]
        read == transfer(t.method, allowed, t.regs[1], Size[given])
        seen == [t EXCEPT !.method = read.method]
    IN  CASE t.regs[1] = 0 -> t
          [] t.regs[1] # 0 /\ read.n # Size[given] -> seen
          [] t.regs[1] # 0 /\ read.n = Size[given] ->
                 IF \/ given \in Relative \cup {Empty, Garbage}
                    \/ host = given \/ Size[host] > SUN_PATH
                 THEN seen ELSE Replaced(seen, 1, host, SUN_SIZE)

emuroot_on_entry(t) ==
    CASE call.op = "connect" -> rewrite_sockaddr(t)
      [] call.op = "getcwd" -> t
      [] call.op = "rename" -> rewrite_path_arg(rewrite_path_arg(t, 1), 2)
      [] OTHER -> rewrite_path_arg(t, 1)

-----------------------------------------------------------------------------
(* The program makes a call: names in its memory, or bad pointers.         *)
NoCall == [op |-> "none", ptr |-> <<0, 0>>, sp |-> 0, strict |-> FALSE, outside |-> FALSE]
Requests == {c \in [op : Ops, ptr : (Pointers \cup Buffers) \X Pointers, sp : SPs,
                    strict : BOOLEAN, outside : BOOLEAN] :
    /\ c.op # "rename" => c.ptr[2] = 0
    /\ c.op = "getcwd" <=> c.ptr[1] \in Buffers
    /\ c.strict => c.op \in {"openat2", "openat2_w"}
    /\ c.outside => \E i \in 1 .. 2 : Text(Home, c.ptr[i]) \in Relative}

Call(c) ==
    /\ at = "user" /\ calls < MaxCalls
    /\ at' = "entry" /\ call' = c /\ regs' = c.ptr /\ calls' = calls + 1 /\ before' = mode
    /\ UNCHANGED <<mem, scratch_top, method, regs_mode, ret, first, kernel, files>>

(* The call's entry stop. *)
Entry ==
    /\ at = "entry"
    /\ LET t == emuroot_on_entry(
                    [regs |-> regs, real |-> regs, top |-> ScratchTop(call.sp), mem |-> mem,
                     method |-> method, mode |-> mode, regs_mode |-> regs_get(regs_mode)])
       IN  /\ regs' = t.real /\ mem' = t.mem /\ scratch_top' = t.top
           /\ method' = t.method /\ mode' = t.mode /\ regs_mode' = t.regs_mode
    /\ at' = "kernel"
    /\ UNCHANGED <<call, there, before, ret, first, calls, kernel>>

-----------------------------------------------------------------------------
(* The kernel: what it finds in the registers, and the file that names.    *)
Resolved == [i \in Paths(call.op) |->
    IF regs[i] \in Mapped THEN Text(mem, regs[i]) ELSE Fault]
FileOf(s) == IF s \in Relative /\ ~call.outside THEN Translate[s] ELSE s
Named == {FileOf(Resolved[i]) : i \in Paths(call.op)}

Returns(r) == at = "kernel" /\ at' = "exit" /\ ret' = r
Stays == UNCHANGED <<call, regs, mem, scratch_top, method, regs_mode, before, first, calls, kernel>>

Faults == Returns("EFAULT") /\ Fault \in Named /\ Stays /\ UNCHANGED files

NotAFile == /\ at = "kernel" /\ Fault \notin Named /\ ~(Named \subseteq Files)
            /\ \E r \in {"ENOENT", "ok"} : Returns(r) /\ (r = "ok" => call.op = "connect")
            /\ Stays /\ UNCHANGED files

Refused ==
    /\ Returns("EACCES") /\ Named \subseteq Files
    /\ \E f \in Named : ~Permits(mode, there, call.op, f)
    /\ Stays /\ UNCHANGED files

(* directories are opened for reading and their bits changed, nothing else *)
Succeeds ==
    /\ at = "kernel" /\ call.op # "getcwd" /\ Named \subseteq Files
    /\ \A f \in Named : Permits(mode, there, call.op, f)
    /\ LET f == FileOf(Resolved[1])
           new == call.op = "open_creat" /\ f \notin there
           fits == f \notin Folders \/ call.op \in {"open_r", "openat2", "chmod"}
       IN  IF ~new /\ f \notin there THEN Returns("ENOENT") /\ UNCHANGED files
           ELSE IF ~fits \/ (call.op = "rename" /\ FileOf(Resolved[2]) \in Folders)
           THEN Returns("EISDIR") /\ UNCHANGED files
           ELSE /\ Returns("ok")
                /\ there' = CASE new -> there \cup {f}
                              [] call.op = "unlink" -> there \ {f}
                              [] call.op = "rename" -> (there \ {f}) \cup {FileOf(Resolved[2])}
                              [] OTHER -> there
                /\ CASE new -> mode' = [mode EXCEPT ![f] = {"r", "w"}]
                     [] call.op = "chmod" -> \E b \in Modes : mode' = [mode EXCEPT ![f] = b]
                     [] call.op = "rename" -> mode' = [mode EXCEPT ![FileOf(Resolved[2])] = mode[f]]
                     [] OTHER -> mode' = mode
    /\ Stays

(* A call that waits (the open of a FIFO, connect) is interrupted by a     *)
(* signal; its exit stop shows ERESTARTSYS, which nothing acts on.  It     *)
(* then starts again with the registers it has: at once if no handler      *)
(* runs, else after one that uses the stack below the red zone.            *)
Interrupted ==
    /\ at = "kernel" /\ call.op \in {"open_r", "connect"} /\ Fault \notin Named /\ first = Never
    /\ at' = "interrupted" /\ first' = Resolved
    /\ UNCHANGED <<call, regs, mem, scratch_top, method, regs_mode, before, ret, calls, kernel, files>>

Restart ==
    /\ at = "interrupted" /\ at' = "entry"
    /\ \/ mem' = mem
       \/ LET low == Minus(call.sp, RedZone + FrameSize)
          IN  mem' = [a \in Mapped |-> IF Minus(a, low) < FrameSize THEN <<Garbage, 0>> ELSE mem[a]]
    /\ UNCHANGED <<call, regs, scratch_top, method, regs_mode, before, ret, first, calls, kernel, files>>

(* getcwd: the kernel answers with the host's name; where the result and   *)
(* the first argument share a register, the length takes its place.        *)
Getcwd ==
    /\ call.op = "getcwd"
    /\ LET len == Size[Cwd_host]
       IN  IF Reached(regs[1], len) < len THEN Returns("EFAULT") /\ UNCHANGED <<regs, mem>>
           ELSE /\ Returns("ok") /\ mem' = Written(mem, regs[1], Cwd_host, len)
                /\ regs' = IF Arg1IsRet THEN <<len, regs[2]>> ELSE regs
    /\ UNCHANGED <<call, scratch_top, method, regs_mode, before, first, calls, kernel, files>>

(* The exit stop: A_GETCWD puts the guest's name in its place, at the      *)
(* address it finds in the register now; A_UNAME does the same with its    *)
(* answer.                                                                 *)
OnExit ==
    /\ at = "exit" /\ call.op = "getcwd" /\ ret = "ok" /\ at' = "answered"
    /\ LET read == transfer(method, allowed, regs[1], 1)
           sent == transfer(read.method, allowed, regs[1], Size[Cwd])
       IN  IF read.n < 0 \/ Text(mem, regs[1]) # Cwd_host
           THEN method' = read.method /\ mem' = mem
           ELSE method' = sent.method /\ mem' = Written(mem, regs[1], Cwd, Size[Cwd])
    /\ UNCHANGED <<call, regs, scratch_top, regs_mode, before, ret, first, calls, kernel, files>>

(* It changes nothing of other calls: the registers stay as they are.  The *)
(* program goes on and makes its memory ready for another call.            *)
Exit ==
    /\ at = IF call.op = "getcwd" /\ ret = "ok" THEN "answered" ELSE "exit"
    /\ at' = "user" /\ call' = NoCall /\ regs' = <<0, 0>> /\ mem' = Home
    /\ scratch_top' = 0 /\ ret' = "none" /\ first' = Never
    /\ UNCHANGED <<method, regs_mode, before, calls, kernel, files>>

(* The program moves to a domain with fewer rights (SELinux at execve). *)
DomainChange ==
    /\ at = "user"
    /\ \E a \in SUBSET allowed : a # allowed /\ allowed' = a
    /\ UNCHANGED <<at, call, regs, mem, scratch_top, method, regs_mode, regset, files,
                   before, ret, first, calls>>

Init ==
    /\ at = "user" /\ call = NoCall /\ regs = <<0, 0>> /\ mem = Home /\ scratch_top = 0
    /\ method = PROCESS_VM /\ allowed = {PROCESS_VM, PROC_MEM}
    /\ regs_mode = "UNDECIDED" /\ regset \in BOOLEAN
    /\ mode = [f \in Files |-> IF f \in Folders THEN Bits ELSE {"r", "w"}]
    /\ there = Files \ Absent /\ before = mode
    /\ ret = "none" /\ first = Never /\ calls = 0

Next ==
    \/ \E c \in Requests : Call(c)
    \/ Entry
    \/ Faults \/ NotAFile \/ Refused \/ Succeeds \/ Getcwd \/ OnExit \/ Interrupted \/ Restart
    \/ Exit \/ DomainChange

Spec == Init /\ [][Next]_vars

-----------------------------------------------------------------------------
(* Types: every address fits an unsigned long (rewrite.c:32 wraps), the    *)
(* method of guest.c and the mode of regs.c are among the known ones.      *)
TypeOK ==
    /\ at \in {"user", "entry", "kernel", "interrupted", "exit", "answered"}
    /\ call \in Requests \cup {NoCall}
    /\ regs \in Addr \X Addr /\ scratch_top \in Addr /\ mem \in [Mapped -> Cell]
    /\ method \in Methods /\ allowed \subseteq {PROCESS_VM, PROC_MEM}
    /\ regs_mode \in {"UNDECIDED", "REGSET", "GETREGS"}
    /\ mode \in [Files -> SUBSET Bits] /\ there \subseteq Files
    /\ before \in [Files -> SUBSET Bits] /\ calls \in 0 .. MaxCalls

(* What the program's i-th argument means to the kernel inside the root.   *)
Meant(i) == LET s == Text(Home, call.ptr[i])
            IN  IF \/ LeftAlone(s)
                   \/ call.op = "connect" /\ (s \in Relative \cup {Garbage} \/ Size[Translate[s]] > SUN_PATH)
                THEN s ELSE Translate[s]
(* The stack reaches far enough down for all that may be put there.        *)
Roomy == call.sp >= Reach /\ call.sp - Reach .. call.sp \subseteq Mapped

(* Whatever way memory and registers are reached, and wherever the stack   *)
(* is, the kernel resolves the translation of what the program named or    *)
(* the call fails with EFAULT; and it fails only for a bad pointer or for  *)
(* want of stack (rewrite.c:37 "must not let the call through              *)
(* unredirected").  A socket's path that is too long is not covered        *)
(* (rewrite.c:214), nor is a call that starts again (see RestartSame).     *)
(* The argument is made 0, which is EFAULT for all of Ops; utimensat and   *)
(* sendto, which take a 0 for no path at all, are not among them.          *)
Redirected == (at = "kernel" /\ first = Never) =>
    \A i \in Paths(call.op) :
        \/ call.ptr[i] \in Mapped /\ Resolved[i] = Meant(i)
        \/ Resolved[i] = Fault /\ (call.ptr[i] \notin Mapped \/ ~Roomy)

(* Nothing the program may still use is written over: neither its data nor *)
(* its stack, the red zone below the stack pointer included                *)
(* (rewrite.c:28 "keeps clear of the red zone").  Not covered is a getcwd  *)
(* whose guest's name is longer than the host's, in Cwd: it is written     *)
(* past the end of what the kernel has put there (fake.c:119).             *)
GuestDataIntact == at # "user" =>
    \A a \in Mapped : (a \in Heap \/ a + RedZone >= call.sp) =>
        \/ mem[a] = Home[a]
        \/ call.op = "getcwd" /\ Minus(a, call.ptr[1]) < Size[Cwd_host]

(* The fake root is not refused what belongs to the user (dac.c:12 "get    *)
(* the owner bits root would have used"), wherever earlier calls have left *)
(* the permission bits.  Left out, because dac.c does not provide for it   *)
(* (and unlike README.md:31, "`0000` files are usable" by root): a         *)
(* directory that, when the call is made, cannot be searched on the way to *)
(* a file that is only opened, or on the way to the directory in which     *)
(* one is created, deleted or renamed, since only that directory itself    *)
(* is granted (dac.c:107, dac.c:120); O_CREAT of a file that is there,     *)
(* openat2 for writing, and names left to the kernel.                      *)
Excused(f, i) ==
    \/ f \notin Mine
    \/ /\ dac_for(call.op, i) = "PARENT_W"
       /\ Parent[f] \notin Mine \/ ~Searchable(before, Parent[f])
    \/ dac_for(call.op, i) # "PARENT_W" /\ ~Searchable(before, f)
    \/ call.op = "open_creat" /\ f \in there
    \/ call.op = "openat2_w"
    \/ LeftAlone(Text(Home, call.ptr[i]))
RootNotRefused == (fake_root /\ ret = "EACCES") =>
    \E i \in Paths(call.op) :
        LET f == FileOf(Resolved[i]) IN ~Permits(mode, there, call.op, f) /\ Excused(f, i)

(* A call that starts again names the files it named before: "Each path    *)
(* argument is read from the guest, translated by path.c" (rewrite.c:3).   *)
RestartSame == (at = "kernel" /\ first # Never) => Resolved = first

(* "getcwd ... show guest paths" (README.md:27): the answer is the guest's  *)
(* name, on every architecture.                                            *)
CwdShown == at = "answered" => Text(mem, call.ptr[1]) = Cwd
=============================================================================
