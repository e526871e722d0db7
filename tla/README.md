# emuroot in TLA+

emuroot runs a program (the *guest*) under a fake root file system and a fake
root identity without any privilege: it traces the guest with ptrace, rewrites
the path arguments of its system calls at their entry and their results at
their exit, and keeps the identity, the file owners, the chroot and the mounts
it pretends in its own memory. This directory models its core, model-checks it
with TLC and proves its safety properties, for every value of the constants, with TLAPS.

All paths below are relative to the repository's root (`src/ptrace.c` is
`src/src/ptrace.c` in `PROJECT.json`).

## 1. Inventory

| component | state it keeps | operations | correct when |
|---|---|---|---|
| tracer loop (`src/ptrace.c`, `tracee.h`) | table of tracees (`fresh`, `in_syscall`, `awaiting_exit`, identity, root), `stop_signal` | wait loop, stop handler, fork event, cleanup | entry and exit are never confused, no stop is lost, a child is its parent's copy, a run ends and leaves nothing running |
| kernel side of ptrace (external) | process states, stops, reports | syscall and seccomp stops, fork events, exec of threads, signals, kills | - (environment) |
| seccomp filter (`src/seccomp.c`) | installed or not | which calls stop | both modes show the tracer every call it needs |
| fake credentials (`src/creds.c`, `identity.c`, `fake.c`) | ids and groups of a tracee | set*id, setgroups | drops are complete and irreversible, the real credentials stay |
| ownership database (`src/ownership.c`) | open-addressing hash table, file | set, get, grow, load, save | it is a map, across growth, failed growth, restart and kill |
| ownership of files (`src/identity.c`, `fake.c`) | notes of a call between entry and exit | chown, creation, stat | stat shows what chown and creation promised |
| paths (`src/path.c`) | none (root and bindings are passed in) | translation, symlink walk, inverse mapping | the kernel reaches the file a real chroot would have reached; getcwd inverts it |
| chroot, mount, umount (`src/mounts.c`, `emuroot.c`) | bindings, root of each tracee | emulated calls | as for paths, in every namespace the calls can build |
| path arguments, scratch memory (`src/rewrite.c`) | notes, scratch area | entry of calls with paths, sockaddrs | the kernel resolves the translated path or the call fails |
| results at exit (`src/fake.c`) | none | patches results | as for the components above |
| execve (`src/exec.c`) | path of the last executable | #! and loader expansion | the guest's program runs with the argv it would have had |
| permission bits (`src/dac.c`) | none (the bits on the host's disk) | adds the owner's bits a call needs | the fake root is not refused what belongs to the user |
| guest memory, registers (`src/guest.c`, `regs.c`, `arch.h`) | the method in use | read, write | a transfer that fails is noticed; nothing the guest uses is overwritten |
| supervisor (`src/spawn.c`) | one process per guest | spawn, wait, terminate | the guest dies with the app, its status arrives, pipes are private |
| Android library (`Emuroot.java`, `EmurootProcess.java`, `emuroot_jni.c`) | `closed`, `exitValue`, the spawner thread | start, close, waitFor, destroy | no other child of the app is touched |
| public API (`src/emuroot.c`) | context | bind, unbind, set_root, run | - |
| env-only engine (`src/envonly.c`) | none | runs the guest untraced | its status arrives |
| `syscalls.c`, `probe.c`, `main.c`, tests, build | tables, none | - | - |

How they interact: an app calls `emuroot_spawn` (through Java and JNI on
Android), which forks a supervisor; the supervisor runs one of the two engines;
the ptrace engine forks the first tracee, installs the filter in it and enters
the wait loop. Each stop the loop collects is handed to `rewrite.c` (entry) or
`fake.c` (exit), which use `path.c`, `mounts.c`, `identity.c`, `creds.c`,
`exec.c` on the tracee's table entry and on the run's context: the bindings and
the ownership database are shared by all tracees of a run.

What is hard: everything happens *between* the two stops of a call, while other
tracees run; the kernel reports a new child and its parent's fork event in
either order; a tracee can be killed in the middle of any handler; whether a
stop is an entry or an exit is a matter of counting; the set*id rules make
long sequences matter; a walk rewrites its own input; the embedding app has
several threads and may die at any moment. `PROJECT.json` lists these hazards
line by line.

## 2. Modules

| module | models | state and actions |
|---|---|---|
| `Guest` | the kernel side of ptrace, external | `proc[p]`: where a process is, what it has to report, the identity (`view`) it believes in. Calls, forks, clones, threads' execve, signals, kills |
| `Tracer` (extends `Guest`) | `emuroot_run_ptrace` | `tab`, `tr` (tracee_t), `stop_signal`, `pc`. One action for each branch of the loop and of `handle_stop` |
| `Creds` | `creds.c`, the identity cases of `identity.c` and `fake.c` | `creds` (fake) and `real` (the kernel's); one action per call: its entry (neutralised or not), the kernel's run of it, its exit |
| `OwnerMap` | abstract: a persistent map of owners | `map`, `disk`, `up` |
| `OwnerTable` | `ownership.c` | slots, capacity, count, the rehash in progress, the file line by line; refines `OwnerMap` |
| `Ownership` | chown, creation, stat | `note` is the part of tracee_t kept between entry and exit; entry, kernel and exit are separate actions of each process; `promised` is what a real root's system would have made of the calls, `spoilt` the files a named anomaly befell |
| `Paths` | paths as component sequences; `has_prefix`, joining, normalising, the inverse mapping | operators |
| `Namespace` | `path.c`, `mounts.c`, `absolute_guest_path`, `bind` | `binds`, `root`, `pending`, `cwd`; `walk` is the local state of `emuroot_translate_path`, one `WalkStep` per turn of its loop; `world` is a history variable: the roots and mounts a kernel would keep |
| `Memory` | `guest.c`, the scratch area of `rewrite.c` | unsigned addresses, strings in cells, the three methods of `transfer`; operators |
| `Dac` | `dac.c` | the bits a call needs, what is granted, what the kernel asks for; operators |
| `Rewrite` (extends `Memory`, `Dac`) | `rewrite.c`, `regs.c`, `arch.h`, getcwd in `fake.c` | `regs`, `mem`, `scratch_top`, `method`, `regs_mode`, `mode`: a call's entry, the kernel's use of what it finds, a restart, the exit |
| `Exec` | `exec.c`, /proc/self/exe in `fake.c` | `ex` is the local state of `emuroot_rewrite_exec`, one action per way through a turn of its loop; `cache`, `exe`, `pending_exe`; `Native` is the kernel's execve under a real chroot |
| `Host` | `spawn.c`, the Java classes and the JNI glue | app, spawner queue, supervisors, guests, pipe ends, pids that may be used again |
| `CredsProofs`, `TracerProofs`, `OwnerTableProofs`, `OwnershipProofs`, `HostProofs`, `ExecProofs`, `NamespaceProofs`, `RewriteProofs` | - | theorems about the module each is named after (section 4) |
| `MC*` | - | instances for TLC |

The database in `Ownership` is a function: `OwnerTable` shows that the hash table is
one. In `Rewrite` the translation of a path is a function: `Namespace` has its inside,
and `Exec` uses names that are resolved already. In `Tracer` an identity is an opaque
*view*: `Creds` and `Namespace` have its inside. In `Host` an engine is its start, its
exit and its reaction to signals: `Tracer` has its inside.

Definitions that end in `_Something` and carry the comment *variant* are not
part of a specification: each is a plausible mistake in the definition that follows
it, kept to show that a property notices it (`mutants` in `PROJECT.json`).

Abstractions that matter:

- `Guest` does not use a pid again within a run; `Host` does, because there the
  code holds pids without holding the process.
- A call that changes nothing the tracer keeps is the "set" call with the
  caller's own view.
- In `Namespace` the files do not change while a path is walked; a walk and the
  call it belongs to finish before another process starts one. That is what
  the tracer does (it handles one stop at a time), but it leaves out a guest
  process that replaces a symlink between the walk and the kernel's use of it.
- A component is an atom and a path a sequence of at most `PATH_LEN` of them:
  `EMUROOT_PATH_MAX` in components instead of bytes.
- In `Memory` a string is an atom that takes up a few cells, and reads back as itself
  only when all its cells are there in order; what is left of an overwritten one is
  `Garbage`. Addresses are `WIDTH` bits wide and wrap.
- `Rewrite` has one process, a fake root run by an ordinary user. The program prepares its
  memory (`Home`) before each call. Where things lie is said by two assumptions.
  `LayoutAssumption`: the highest addresses are the kernel's, the first page is nobody's, and
  the program's data (`Heap`) do not lie within reach below the stack pointer, as for every
  stack the kernel or a C library sets up. `PointersAssumption`: the names it passes are among
  its data. Host names are absolute and at most `PATH_LEN` cells long (`NamesAssumption`, `SizesAssumption`). The variables
  `EMUROOT_GUEST_MEM` and `EMUROOT_REGS`, which force a method in tests, are left out.
- `Exec` has places (a name below the root, or the same name on the host)
  instead of paths; files are replaced between calls, not during one.
- Logging, verbose output and `trace_all` are left out.

## 3. Runs

Passing runs:

| run | instance | states | shows |
|---|---|---|---|
| `tracer` | 2 pids, 2 views, threads, filter on and off, room for 2 table entries | 624 173 | `EntryExitPaired`, `CopyIsFaithful`, `FreshExact`, `NoForgottenStop`, `SurvivorsNeverRan`, and under fairness `RootEndsRun` |
| `creds` | uids 0..2, gids 0..1, at most 1 group, emuroot run as root | 106 575 | `FsuidHeld`, `DropIsComplete`, `RealIdsNeverChange`, `DropIrreversible`, `UnprivilegedGainsNothing`, `RefusedChangesNothing` |
| `owner_table` | 3 files, 2 owners, colliding hashes, first capacity 2 | 521 476 | `FindTerminates`, `EveryEntryFound`, `CountExact`, refinement `IsAMap` |
| `ownership` | 2 processes, one with a dropped identity, 2 paths, 2 inodes, 5 calls | 3 302 599 | `ReportedIsPromised` |
| `namespace` | a root with symlinks (absolute, relative, to itself), a bound directory with its own symlink, /proc; started with no binding, with one, and with two that overlap, in both orders | 1 369 366 | `TableIsMounts`, `ReachesIntended`, `LastLeftAlone`, `RoundTrip`, `WalkAdvances` |
| `host` | 2 guests, 2 app threads, both engines, an app that ignores SIGTERM or not | 1 793 534 | `ExitValueIsGuests`, `OthersNotReaped`, `PipesPrivate`, `EofWhenGone` |
| `rewrite` | 64 addresses, four stack pointers, ten kinds of calls, 3 calls, files three directories deep, x86_64 | 869 166 | `Redirected`, `GuestDataIntact`, `RootNotRefused` |
| `exec` | 25 names, 4 argument lists, loaders with and without --argv0 that are upgraded, files without the x bit | 2 068 852 | `RunsAsInRoot`, `ExeShown`, `BlobFits` |

Why the bounds are enough to be interesting:

- `tracer`: two pids are a parent and a child, or a leader and a thread, which is
  what every race in `ptrace.c` is between; two table entries and the phantom
  entry of pid 0 make the table overflow. The proofs remove the bound for all
  six invariants.
- `creds`: three user ids are root, the target and a third; every rule
  compares an argument with at most three held ids.
- `owner_table`: a first capacity of 2 (the code's is larger) makes the table
  grow at the first entry and once more at the second or third, with collisions and
  wrap-around in both sizes.
- `ownership`: two inodes for two paths give deletion, renaming over a file, creation and reuse of a
  number during another process's call. Five calls are two chowns that overlap, a third one that
  records the owner rightly again, and two calls around them. The reference gives a chown its effect when it
  returns, to the ids it asks for, and only where a system with a real root permits it to that identity; every
  overlap counts. `ReportedIsPromised` leaves out a file from an anomaly (`ChownAnomaly`, `CreateAnomaly`, a number
  used again together with its record) to the next call that records it rightly.
- `namespace`: the paths go through a symlink to a symlink, a
  symlink inside a bound directory that points back outside it, a loop, a "..",
  a trailing slash, an empty and an unresolvable rest, and are used in every
  namespace that up to two bindings, chroot and chdir give. `MAX_SYMLINK_HOPS` is
  3, enough for the longest chain that is not a loop.
  The reference is a kernel with a real root and real mounts. It resolves a path as path_resolution(7) has it
  (`Find`): name by name, a symlink's target put before what is left, an absolute one from the
  process's own root. What is at a place (`See`) is what the latest mount at or above it shows there; that kernel
  knows in which root, at which place and in which order each mount was made, and has no use for
  `map_to_host` nor for the list of bindings. Its roots and mounts are kept in `world`, step by step with the calls
  (`Rerooted`, `MountedAt`, `UnmountedAt`). The kernel underneath emuroot (`Kernel`) has neither root nor mounts.
  Where emuroot is known to differ from the reference, the reference does not vouch for the path: `Renamed`,
  `Elsewhere`, `Uncovered` and `Covered`, each with its line of `path.c` (they are in the list of
  disagreements below), and whatever follows a call whose path the tracer gave up on (`Forgotten`).
  `TableIsMounts` says that the list of bindings is the reference's list of mounts all the time, and
  `ReachesIntended` that on this list the walk finds what the reference finds: of walks that come to their end and
  of those that stop below /proc, where the kernel goes on alone. The overlapping bindings of the start have the longer
  name before and after the shorter one. `RoundTrip` asks
  for bindings whose hosts lie apart and are not "/". A directory the guest reaches through a mount
  point, or in a run without a root, may be told by some binding's name, which another binding with a
  longer guest name may shadow: for those it asks that guest names lie apart as well.
- `host`: two guests are needed for one to inherit the other's pipes, two
  threads for one to wait while the other waits or destroys.
- `rewrite`: from the first stack pointer there is room for every path, from the second
  for one of two; below the third the room wraps, below the fourth the margin does. Three calls
  are a chmod of a directory, one of another directory or of a file, and the call that needs both; a file lies two
  directories below the top one, so that the one further up can lose its x as well; each
  method of `guest.c` is refused from the start or from some call on.
- `exec`: with `MAX_EXEC_ARGS` 2 the longest argument list is cut, with
  `MAX_SHEBANG_DEPTH` 3 the longest chain of scripts reaches the limit (`KERNEL_DEPTH` is the
  kernel's own limit), and with `MAX_CACHE` 1 the second loader finds the cache full. The lengths in
  `Bytes` put the pointers on both sides of an alignment boundary.

`tracer`, `host`, `rewrite` and `ownership` allow deadlock: a run that is over, a guest that sleeps for
ever, or the last of `MaxCalls` calls, is a legal end.

Violation runs (each checks one sentence of the repository against its code;
`findings` in `PROJECT.json` quotes the lines):

| run | property | what happens |
|---|---|---|
| `stop_honoured` | `StopHonoured` | a stop signal handled between the last test and `waitpid` is not acted on until a tracee stops |
| `child_is_copy` | `ChildIsCopy` | a child's first stop collected before the fork event: it runs with the initial identity |
| `restart` | `RestartSame` | an interrupted open or connect starts again with the rewritten register: the host's path is translated once more |
| `getcwd` | `CwdShown` | on aarch64 (and every architecture whose first argument and result share a register) the exit handler takes the length for the buffer's address, and the host's path stays; with x86_64 the property holds |

`CopyIsFaithful` (for `ChildIsCopy`) and `Redirected` (for `RestartSame`) are what remains true
around these: they name, through a history variable, exactly the executions
the finding is about, and hold in all others. In the same way `ReportedIsPromised`, `RealIdsNeverChange`,
`ReachesIntended`, `RunsAsInRoot` and `RootNotRefused` leave out what is in the list below, each by a definition
that is written for it.

### Fairness

Only `RootEndsRun` and `StopHonoured` need any, and they are checked under
`FairSpec`: weak fairness of the tracer's own steps (it is a process that is
scheduled) and strong fairness of `WaitReturns(p)` (wait goes through the
tracees in order and one that reported has to be resumed and run before it
reports again, so none is passed over for ever). Nothing is assumed of the
guest, which may sleep in a call for ever, and of signals.

### Disagreements seen but not kept as runs

Read off the code while modelling. Where a property could meet one of them, its
definition or the comment on it says that it is left out.

Identity, ownership, tracing, embedding:

- Two overlapping chowns of one file, one of the user and one of the group: the
  later exit undoes the other, since the id left alone is read at the entry
  (`identity.c:54`, `fake.c:198`).
- A chown is recorded for the file that was at its path at the entry (`identity.c:42`), although the path may be another file's
  when the kernel runs it; a creation for the file that is at its path at the exit (`fake.c:104`), although
  that may be another's by then, or was there before the call ran.
- Records of files that are deleted stay in the database, and a new file with the number of a
  deleted one has its owner, unless another identity creates it.
- setgroups is not neutralised at its entry: when emuroot runs as root the real groups
  change (`identity.c:27`; `creds.c:4` and the README say the real credentials never do).
- A parent killed in its fork event: `PTRACE_GETEVENTMSG` fails and pid 0 gets an
  entry in the table, which the last loop goes through with kill (`ptrace.c:145`, `ptrace.c:276`).
- The app dies before the supervisor's `prctl(PR_SET_PDEATHSIG)`: the guest runs on
  (`spawn.c:73`; `emuroot.h:95`).
- `fake.c:202`: chown's EPERM becomes success for a dropped user too, and the owner is recorded.
- chroot changes the root of the calling thread only (`fake.c:129`; a clone copies it, `ptrace.c:40`): the
  kernel's is one for all threads of a process, and for processes that share it by CLONE_FS.
- Whether a creation is new is asked before the bits are granted: below a directory
  without x a file that is there looks new (`identity.c:104`, `rewrite.c:182`).
- `Emuroot.start` tests `closed`, leaves the lock and uses the context later;
  `EmurootProcess.destroy` signals without the lock.
- With the env-only engine a SIGTERM ends the supervisor and not the guest.

Programs:

- A chain of scripts as long as `MAX_SHEBANG_DEPTH` is left to the kernel, which finds the last
  interpreter on the host (`exec.c:207`; the README: "not the host's"). So is a dynamic
  program that can be executed but not read, and a call without an argv.
- argv is cut at `MAX_EXEC_ARGS` when the call is rewritten, and where it cannot be read any further (`exec.c:200`),
  which the kernel refuses with EFAULT.
- No memory for argv (`exec.c:196`): the call goes on with its path translated and nothing expanded, on the host's
  interpreter or loader.
- A script or a dynamic program without the x bit is run all the same (`exec.c:209`), by way of its interpreter or
  loader; under a chroot it is refused with EACCES.
- A relative name that leads into a binding, or through an absolute symlink, is looked up
  without translation (`host_path_of`).
- A CR at the end of a #! argument is dropped; the kernel keeps it.
- The answer to "does this loader know --argv0" is never asked again (`exec.c:129`).
- /proc/PID/exe shows the reader's own program for every PID that runs through a
  loader, and a path that symlinks have not been taken out of.
- execveat is handled by `rewrite.c:296` but is not among the traced calls.

Memory and permission bits:

- A socket path that becomes too long goes on unredirected (`rewrite.c:214`).
- The argument registers keep the scratch addresses after the call; on x86 the
  kernel's ABI preserves them.
- getcwd's answer is replaced by the guest's name without a look at the length of the buffer
  (`fake.c:119`): where that name is the longer one, it is written past the end. See `DataIntact` below.
- Only the directory whose entry changes is granted (`dac.c:120`), and only if it can be reached (`dac.c:107`): with a
  directory further up that has lost its x, creating, deleting and renaming are refused (the README: "`0000` files are
  usable"). A rename grants the directory of its first argument before that of its second; if the
  first is below the second, it is refused once and permitted the next time.
- A path that cannot be rewritten becomes 0 (`rewrite.c:43`), which `utimensat` takes for the directory itself and
  `sendto` for no address at all, where `rewrite.c:37` expects EFAULT. Neither call is in the model.
- Below a small stack inside the heap (a goroutine's) a long path overwrites what is
  there: `tracee.h:44` counts on unused memory.
- `guest_read_str` hands back a string that is too long as if it ended at the buffer's end, and one that runs into
  unmapped memory as if it ended there (`guest.c:128`). In the model the latter is `Garbage`.
- uname has the same wrong address as getcwd (`fake.c:149`).
- O_CREAT of an existing file without bits, opening files below a directory without x, and openat2
  for writing are refused (`dac.c:111`; the README: "`0000` files are usable").

Paths:

- `path.c:113` "ELOOP: let the kernel report it": after the last hop the kernel gets a
  path it may be able to follow, on the host's side.
- `path.c:101`: a component that does not fit is dropped and the rest appended,
  where `path.c:126` fails.
- Below a bound /proc the walk stops: bindings further below are not applied
  (`path.c:108`; `emuroot.h:54` on precedence).
- Nested or overlapping hosts of bindings, and chroot, make the inverse mapping
  ambiguous (`path.c:145`); `RoundTrip` is about hosts that are apart.
- A binding made under a chroot is matched by its guest name in every process
  (`path.c:33`).
- A mount point is a host path: it is found by every other way to that directory (`path.c:47`), through another
  binding of the same host or from a root below it.
- A mount does not hide an earlier one below it (`path.c:34`, `path.c:47`: the longest name wins, not the latest).
- From a chroot a mount on top of another mount is not seen: its mount point is spelled with the other's host, and
  `path.c:47` looks once.
- A mount's target with a trailing slash keeps it, and the binding is not found by that name after a chroot (`emuroot.c:43`,
  `mounts.c:78`).
- umount goes by the guest name (`emuroot.c:49`): under another root than the mount's it takes away nothing, or
  another one of that name, and reports success; so does a mount beyond `MAX_BINDINGS` (`emuroot.c:41`).
- A mount at a target or of a source that does not exist is made all the same (`mounts.c:76`).
- chroot("/") in a run without a root sets the root to "/" (`mounts.c:50`; `ptrace.c:166`
  clears such a root at the start). "/proc/self" then becomes "//proc/self", which `path.c:108` does not
  recognise: the tracer follows it to its own pid, where `path.c:106` has "let the kernel
  resolve them for the guest rather than for us". And every directory but "/" counts as outside (`path.c:145`).
- A path the guest gives relative to a directory outside the root is resolved
  from the tracer's own working directory (`rewrite.c:139`).
- `internal.h` says relative paths are never rewritten; `absolute_guest_path` does.

## 4. Proofs

For every value of the constants that meets the modules' named assumptions:

`CredsProofs` (any sets of ids, any limit on groups)

- `TypeCorrect`, `FsuidAlwaysHeld`, `RealIdsKept`: invariants `TypeOK`,
  `FsuidHeld`, `RealIdsNeverChange`;
- `NothingGained`, `DropNotReversible`: action properties
  `UnprivilegedGainsNothing`, `DropIrreversible`.

Inductive invariant: `IInv == CredsInv /\ RealInv /\ ret \in Int`, where `CredsInv` has the
types and `FsuidHeld`, and `RealInv` pins the kernel's ids: a call that reaches the
kernel neutralised can only be shown harmless when the ids it finds there
are still the first ones. The argument: `RulesTyped`, `RulesRearrange` and `RulesFollow` say
what the four rules of `creds.c` do to an id array; `StepIsOneCall` reduces each of the
ten actions to one application of a rule; the theorems follow from that.

`TracerProofs` (any set of pids, views, any size of the table, both modes, with or
without threads)

- `TypeCorrect`, `StopsPaired`, `FreshIsExact`, `NoStopForgotten`,
  `SurvivorsHaveNotRun`: `TypeOK`, `EntryExitPaired`, `FreshExact`,
  `NoForgottenStop`, `SurvivorsNeverRan`.

Inductive invariant: `IInv == TypeOK /\ LoopOK /\ \A p : ProcOK(p) /\ FlagsOK(p)`.
`EntryExitPaired` speaks of the moment a stop is handled; to get there one has to
know the flags all the way from the resume that led to it, hence `FlagsOK`, which says for
each place a tracee can be at, running or stopped, what `in_syscall` or
`awaiting_exit` must be and with which request it was last resumed. `ProcOK` ties table,
report and process state together (everything that has run has an entry that is not
`fresh`; an uncollected stop has a report), and `LoopOK` ties the loop's own
position to them. The proof has one lemma per action of `Guest` and per branch
of the tracer; `ResumeStep` is the lemma all handlers share.

`CredsProofs` also has `RefusalIsHarmless` (`RefusedChangesNothing`, from what each rule does when it
answers an error) and `DropsAreComplete` (`DropIsComplete`), and `TracerProofs` has `CopiesFaithful`
(`CopyIsFaithful`), with an invariant of its own on top of `IInv`:
`CInv == StartOK /\ \A p : NotesOK(p) /\ CopyOK(p) /\ ... /\ \A p, c : ChildOK(p, c)`. A child's
identity is its parent's at the moment of the fork, and the parent can neither run nor change it until
its event is handled; `ChildOK` carries that over the interval, for every pair. The first
attempt failed, and TLC found the reason with three processes: a thread's execve takes
over the parent's pid between the fork and its event, and the entry that is copied is the
taken-over one. The history variable now says "lost" in this case too.

`OwnerTableProofs` (any finite set of files, any owners, any hash function, any first capacity above 1)

- `TypeCorrect`, `FindEnds`, `NothingIsLost`, `CountIsRight`: `TypeOK`, `FindTerminates`,
  `EveryEntryFound`, `CountExact`;
- `ImplementsMap`: the refinement `IsAMap`, step by step under the mapping of `OwnerTable`.

Inductive invariant: `IInv` says of the table in use that it is at most half full and that the search for
each entry's file ends at that entry (`Found`); `Rehashing` says the same of the old table while it is copied, and that
the larger one holds exactly the entries of the slots already moved. What a probe returns is proved by induction over its length, through the lemma `Least` (every
nonempty set of numbers has a smallest element). For the refinement, `MInv` adds the file: the
table holds the lines loaded so far, or the file the slots saved so far.

`OwnershipProofs` (any processes, identities, paths, inodes, any number of calls)

- `TypeCorrect`, `ReportedPromised`: `TypeOK`, `ReportedIsPromised`.

Inductive invariant: `InSync` says of every file that is there what the property says of it; `Noted` ties what
the tracer noted at a call's entry to what the history saw then (the file at the path, its owner as stat
showed it, whether the path was free), which is what decides at the exit whether the record will be right; and no file
is at two paths (`OneLink`). A record is judged at the exit that makes it, against the owner the calls that have returned by
then have promised, so that nothing has to be assumed of the calls in between. `PathsAssumption`: there is a path.

`HostProofs` (any guests, threads, statuses)

- `TypeCorrect`, `ExitValue`, `WaitsOnlyForSupervisor`, `GuestPipesPrivate`, `OutputEnds`: `TypeOK`,
  `ExitValueIsGuests`, `OthersNotReaped`, `PipesPrivate`, `EofWhenGone`.

Inductive invariant: `QueueOK` and `SupOK` follow a start through the spawner's queue and the
supervisor through its life (which pipe ends it holds at which place), `PidOK` says when a pid is given out,
`ThrOK` that one thread at a time waits for a guest, on a pid that is still the supervisor's, and `ValueOK` that
the stored value is the encoding of the supervisor's status, and is or is about to be stored once the pid is free. Assumptions: a status is a code of
0..255 or a signal of 1..127, and "no value" is none of these (`StatusesAssumption`, `NoneAssumption`).

`ExecProofs` (any files, argument lists and limits)

- `TypeCorrect`, `BlockHolds`: `TypeOK`, `BlobFits`;
- `RunsLikeChroot`, `ExeIsProgram`: `RunsAsInRoot`, `ExeShown`.

Inductive invariant for the first two: `ExOK` bounds the argument list, turn by turn, by the arguments copied and two
for each turn taken; the sixteen entries to spare of `exec.c:195` suffice because `2 * MAX_SHEBANG_DEPTH + 1 <= 16`
(`ArgsAssumption`; the code has 5). The strings' sizes add up as the cardinality of a set
of bytes, so that sums of any length can be reasoned about.

`RunsAsInRoot` compares what runs at the end with a whole execve of a kernel under a real chroot, turn after turn. Its invariant
`SInv` keeps the two in step: `LoopOK` says that after n turns of `exec.c`'s loop the path, the argument list
and the place are those of the reference after n turns; `LaidOK` and `RegsOK` that what is then handed to
the real kernel makes it end where the reference does, in one turn (`Direct`) or by way of the loader (`ViaLoader`);
`ShownOK` carries what /proc/self/exe will show from the entry, where it is prepared, over the kernel's
success or failure to the exit. The reference asks for execute permission at each turn, of the file and of the loader, where `exec.c` asks
for none. `Covered` leaves out the calls `exec.c` does not provide for (section 3, "Programs"): scripts and dynamic programs
without that permission among them, but neither static programs nor loaders without it.
`DepthAssumption`: the kernel follows at least as many #! lines as `exec.c`, as Linux does.

`NamespaceProofs` (any files and symlinks, arguments and limits)

- `TypeCorrect`: `TypeOK`; `WalksEnd`: the action property `WalkAdvances`;
- `MappingsInverse`: `RoundTrip`;
- `WalksLikeChroot`, `LastIsKernels`: `ReachesIntended` (but for walks that stop below /proc) and `LastLeftAlone`,
  in every state in which the caller's namespace is `Ordinary` and the list of bindings is the reference's list of
  mounts (`TableIsMounts`).

Inductive invariant: `BindsOK`, `PlacesOK`, and either no walk (`AtRest`) or one whose parts fit together
(`Busy`). `WalksEnd` has the measure: fewer hops left, or as many and less of the path.

`ReachesIntended` needs more. First, its reference knows nothing of the bindings, so it has to be shown that both name the
same files. `SeeIsMap` does that for a single name: with the list of bindings as `TableIsMounts` has it, the bindings that match a guest path by
name are the mounts of the process's own root at or above it (`BoundIs`, or it is `Renamed`), those that match by their mount point are
mounts above it made under other roots (`MountedIs`, or `Elsewhere`); the longest of them is the latest (or a place is
`Uncovered`), and it is the one that `map_to_host` takes (or `Covered`). `SameFinding` carries it over a whole path: as
long as the reference vouches for every name on the way, its resolution and resolution by `map_to_host` (`Resolve`) take the same
turns.

Second, the loop of `path.c` and `Resolve` do not run side by side: `Resolve` is a function of the whole path. `TInv` says of a walk at any turn that resolving *what is
left of it from where it is*, with the hops that are left, gives what resolving the whole path from "/" gives,
and that nothing behind it is a symlink (`Seen`). Each turn of the loop is one `Turn` of `Resolve`, so the first part is
kept; at the end nothing is left and the walk is where `Resolve` is. The second part is what the
kernel needs: `MapStraight` shows that the host path of such a place has no symlink in it either, whichever
binding, mount point or root it falls under (`MapLeads`), and `KernelWalks` that the kernel goes along such
a path unchanged. `LInv` is the same for the path without its last component. That `Resolve` is defined for every path at all (symlinks may loop)
comes from its measure, hops and then length.

`Ordinary(b, r)`: the root is none or a real path other than "/"; the hosts of the bindings are real paths; no
mount point lies strictly above the root. It leaves out a chroot to "/" (where the property is false, see
section 3, "Paths"), a binding of a source that does not exist, whose string is kept as it is, and a root below the directory that a
mount point covers. The `namespace` run checks both properties without it, and `TableIsMounts`, which is model-checked only,
in the same states.

Induction over paths, of which the library's theorems can make no use here, is done by a smallest counterexample (`Least`: every
nonempty set of numbers has a smallest element) and over finite sequences of turns.

Assumptions: arguments and symlinks are paths (`CallersAssumption`); directories are named by the paths
realpath gives, and the root and "/" are directories (`HostAssumption`); the guest paths `RoundTrip` asks about are
canonical (`ProbesAssumption`), as the walk's results are. `StringAssumption` is a fact of TLA+ itself that the
provers cannot see.

`RewriteProofs` (any width of an address, any memory, stack pointers, strings, files; every architecture)

- `TypeCorrect`, `PathsRedirected`, `RootServed`: `TypeOK`, `Redirected`, `RootNotRefused`;
- `DataIntact`: `GuestDataIntact`, if the guest's name of the working directory is not longer than
  the host's. The proof needs that hypothesis because `fake.c:119` does not look at the buffer's length.

The lemmas on unsigned arithmetic come first (`MinusIs`, `AlignedIs`, `ScratchIs`): where the room is,
or that it has wrapped. `Fine` follows the handler's state through the rewriting of one or two arguments: it lies
between the margin and `Reach` below the stack pointer or among the kernel's addresses, so it is away from all that
the program may use (`LayoutAssumption`). `TInv` adds that getcwd's buffer is where the register
says until the result takes its place. For `Redirected`, `Outcome` says what became of one argument (as it was and rightly so,
made to fail for a reason, or replaced by a copy that stands at the new top), `SettledFound` that the copy
outlives the second argument's, and `Fresh` that a call which has not been interrupted starts with the program's own
memory. For `RootNotRefused`, `Names` ties the file the kernel will find to the file the
grant was for, in calls that start again too; `Open` says that directories stay there and that a call loses no bit between its
entry and the kernel (`More`). `Amiss` lists what `dac.c` leaves refused, by the bits there were when the call was made:
the grant for a rename's first argument can only help the second.

The inductive invariants were checked with TLC on the instances of section 3 as well.
Two definitions were corrected because a proof did not go through: the history variable of `CopyIsFaithful` (above), and
`ensure_dac`, whose cases overlapped. `RootNotRefused` speaks of the bits before the
call, because the tracer looks before it has granted anything. `RoundTrip` was true in the instance and
false in general, for directories reached past the bindings when guest names overlap: it now says which it is about.

Model-checked only:

- `RootEndsRun`, `StopHonoured`: liveness, beyond this prover;
- `TableIsMounts`: a theorem would need the resolution of a mount's target and source in every namespace the calls can
  build, the ones that are not `Ordinary` included;
- `ReachesIntended` for walks that stop below /proc: there the tracer's walk and the kernel's own part ways on purpose, so whether they meet again depends on the
  links that are there. In the instance it is /proc/self, which is relative; an absolute one (/proc/self/cwd, say)
  leads the kernel to the host's directory itself, and there is no general statement to prove.

## 5. Not modelled

The BPF program and the version probes of `seccomp.c`; uname and the /proc links other than
/proc/self/exe in `fake.c` (uname goes as getcwd does, the links are the inverse mapping of
`Namespace`); `probe.c` and `main.c`, which keep no state; the layouts of stat buffers,
registers, socket addresses and ELF headers and the tables of call numbers, which are
data; tests, build scripts and tools.

## 6. Plan

The order was: the wait loop first, since everything else is called from it; then
the two pieces of faked state with rules of their own (credentials, ownership);
then paths and the embedding; then a call's arguments and execve. Still to do:

1. `Namespace`: a passing run without a root; two processes, one of them chrooted.
2. A composition of `Tracer` with `Creds` in place of the opaque view.
3. The files changing during a walk (`path.c:111`), with what remains true then.
