----------------------------- MODULE Namespace -----------------------------
(***************************************************************************)
(* What "/" and the names below it mean to each process: path arguments    *)
(* walked through symlinks (path.c, rewrite.c), and the calls that change  *)
(* their meaning, chdir, chroot, mount and umount (mounts.c, emuroot.c),   *)
(* emulated for a fake root.                                               *)
(*                                                                         *)
(* The tracer serves one stop at a time, so one walk is in progress at     *)
(* most.  It takes one step per component, as the loop of                  *)
(* emuroot_translate_path_ex does.  The files do not change meanwhile.     *)
(***************************************************************************)
EXTENDS Paths

CONSTANTS
    Procs,
    Privileged,         \* those whose emulated effective uid is 0
    Dirs,               \* the host's directories, by canonical path
    Link,               \* its symlinks, by canonical path: [abs, to]
    GivenRoot, Startup, \* the root and the binding lists a run may start with
    TracerCwd,          \* the tracer's working directory
    Given,              \* for each call, its path arguments: [abs, to]
    Sources,            \* what mount --bind takes its source from
    Probes,             \* guest paths the properties look at
    MAX_SYMLINK_HOPS, MAX_BINDINGS,
    PATH_LEN            \* in components

(* /proc/self names whoever reads it *)
Self == <<"proc", "self">>
IsLink(h) == h = Self \/ h \in DOMAIN Link
readlink(who, h) == IF h = Self THEN [abs |-> FALSE, to |-> <<who>>] ELSE Link[h]

(* a path as realpath gives it: no symlink on the way, no dots *)
Real(s) ==
    /\ Canonical(s) /\ {".", ".."} \cap Range(s) = {}
    /\ \A n \in 1 .. Len(s) : ~IsLink(SubSeq(s, 1, n))

ASSUME BoundsAssumption ==
    MAX_SYMLINK_HOPS \in Nat /\ MAX_BINDINGS \in Nat \ {0} /\ PATH_LEN \in Nat \ {0}
ASSUME HostAssumption ==
    /\ {Slash, GivenRoot, TracerCwd} \subseteq Dirs
    /\ Dirs \subseteq Seq(STRING) \ {Empty} /\ \A d \in Dirs : Real(d)
    /\ \A h \in DOMAIN Link : Link[h].abs \in BOOLEAN /\ Link[h].to \in Seq(STRING)
ASSUME CallersAssumption ==
    /\ \A g \in Given.use \cup Given.chdir \cup Given.chroot \cup Given.mount \cup Sources :
         g.abs \in BOOLEAN /\ g.to \in Seq(STRING) \ {Empty}
    /\ \A given \in Startup :
         /\ given \in Seq([host : Seq(STRING) \ {Empty}, guest : Seq(STRING) \ {Empty}])
         /\ Len(given) <= MAX_BINDINGS
ASSUME ProbesAssumption == Probes \subseteq Seq(STRING) /\ \A g \in Probes : Canonical(g)
ASSUME StringAssumption == {"proc", "self", "tracer", "guest"} \subseteq STRING   \* for the provers
ASSUME PrivilegedAssumption == Privileged \subseteq Procs

VARIABLES
    binds,      \* ctx->bindings
    root,       \* each process's root (tracee_t), a host path
    pending,    \* its pending_root, committed at the chroot's exit
    cwd,        \* the kernel's idea of its working directory, a host path
    call,       \* the call being entered
    walk,       \* the path argument being translated
    world       \* history: what a kernel with a real root and real mounts would keep

vars == <<binds, root, pending, cwd, call, walk, world>>

----------------------------------------------------------------------------
(* the path itself, of a string that has no dots: doubled slashes gone *)
Path(s) ==
    LET names[n \in 0 .. Len(s)] ==
            IF n = 0 THEN Empty ELSE IF s[n] = "" THEN names[n - 1] ELSE Append(names[n - 1], s[n])
    IN  OrSlash(names[Len(s)])

(* Pathname resolution: from x.at, x.todo is still to walk, and x.left     *)
(* more symlinks may be followed.  One turn, when the next name leads to   *)
(* file.  Empty is ELOOP.                                                  *)
There(x) == push_component(x.at, Head(x.todo))
TurnTo(who, x, file) ==
    LET name == Head(x.todo)
        there == There(x)
        link == readlink(who, file)
        go(at) == [left |-> x.left, at |-> at, todo |-> Tail(x.todo)]
    IN  IF name \in {"", "."} THEN go(x.at)
        ELSE IF name = ".." THEN go(pop_component(x.at))
        ELSE IF ~IsLink(file) THEN go(there)
        ELSE IF x.left = 0 THEN [left |-> 0, at |-> Empty, todo |-> Empty]
        ELSE [left |-> x.left - 1, at |-> IF link.abs THEN Slash ELSE x.at,
              todo |-> link.to \o Tail(x.todo)]

(* Where the names mean what these bindings and this root make of them.    *)
Turn(who, b, r, x) == TurnTo(who, x, Path(map_to_host(b, r, There(x))))

Resolve(who, b, r, from) ==
    LET R[x \in [left : Nat, at : Seq(STRING), todo : Seq(STRING)]] ==
            IF x.todo = Empty THEN x.at ELSE R[Turn(who, b, r, x)]
    IN  R[from]

From(base, s) == [left |-> MAX_SYMLINK_HOPS, at |-> base, todo |-> s]

(* the real kernel's has neither *)
Kernel(who, base, s) == Resolve(who, <<>>, Empty, From(base, s))

realpath(base, s) ==
    LET k == Kernel("tracer", base, s) IN IF k \in Dirs THEN k ELSE Empty

----------------------------------------------------------------------------
(* The kernel the guest is to take emuroot for.  It keeps its mounts, each *)
(* [root, place, on, host]: made under the root at the place root, at a    *)
(* place, over a directory, of the files of another; and where each        *)
(* process's root is, base[p] = [sure, place, file].  A place is a path    *)
(* from the first root.  What is at a place is what the latest mount at or *)
(* above it shows there.                                                   *)
Inner(p, place) == Drop(place, Len(world.base[p].place))
Own(p, i) ==
    LET m == world.mounts[i] IN m.root = world.base[p].place /\ m.place # m.root
Over(p, u) ==
    LET b == world.base[p].place
    IN  {i \in DOMAIN world.mounts : IsStrictPrefix(b, world.mounts[i].place)
                                     /\ IsPrefix(world.mounts[i].place, b \o u)}
Latest(S) == CHOOSE i \in S : \A j \in S : j <= i

(* Where emuroot is known not to keep up with that kernel, by guest path.  *)
(*  - Renamed: a binding made under another root answers to its name there *)
(*    (path.c:33 compares names in every process).                         *)
(*  - Elsewhere: its mount point is a host path, found again by any other  *)
(*    way to that directory (path.c:47).                                   *)
(*  - Uncovered: a mount does not hide an earlier one below it (path.c:34, *)
(*    the longest name wins).                                              *)
(*  - Covered: a mount made under another root, on top of another mount:   *)
(*    its mount point is spelled with the other's host (path.c:47 looks    *)
(*    once), or a binding of one's own comes first.                        *)
Renamed(p, u) ==
    \E i \in DOMAIN world.mounts :
        ~Own(p, i) /\ LET m == world.mounts[i] IN IsPrefix(Drop(m.place, Len(m.root)), u)
Elsewhere(p, u) ==
    \E i \in DOMAIN world.mounts :
        LET m == world.mounts[i]
        IN  /\ IsPrefix(m.on, world.base[p].file \o u)
            /\ ~(i \in Over(p, u) /\ m.on = world.base[p].file \o Inner(p, m.place))
Uncovered(p, u) ==
    \E i, j \in Over(p, u) : i < j /\ Len(world.mounts[j].place) < Len(world.mounts[i].place)
Covered(p, u) ==
    LET top == Latest(Over(p, u))
        m == world.mounts[top]
    IN  /\ Over(p, u) # {} /\ ~Own(p, top)
        /\ (\E i \in Over(p, u) : Own(p, i)) \/ m.on # world.base[p].file \o Inner(p, m.place)
Vouched(p, u) ==
    world.base[p].sure /\ ~(Renamed(p, u) \/ Elsewhere(p, u) \/ Uncovered(p, u) \/ Covered(p, u))

(* the file p's name leads to; Empty where it is not vouched for *)
See(p, g) ==
    LET u == Unslashed(g)
        b == world.base[p]
        m == world.mounts[Latest(Over(p, u))]
    IN  IF ~Vouched(p, u) THEN Empty
        ELSE IF Over(p, u) = {} THEN OrSlash(Unslashed(b.file) \o u)
        ELSE OrSlash(Unslashed(m.host) \o Drop(b.place \o u, Len(m.place)))

(* that kernel's resolution of an absolute path, as a path from p's root *)
FindTurn(p, x) ==
    LET file == See(p, There(x))
    IN  IF file = Empty THEN [left |-> x.left, at |-> Empty, todo |-> Empty]
        ELSE TurnTo("guest", x, file)
FindFrom(p, from) ==
    LET R[x \in [left : Nat, at : Seq(STRING), todo : Seq(STRING)]] ==
            IF x.todo = Empty THEN x.at ELSE R[FindTurn(p, x)]
    IN  R[from]
Find(p, s) == FindFrom(p, From(Slash, s))
Intended(p, s) == LET g == Find(p, s) IN IF g = Empty THEN Empty ELSE See(p, g)

(* What its calls do.  It has no idea of a path that leads nowhere, or of  *)
(* one that emuroot gave up on: then nothing is vouched for any more.      *)
Place(p, s) == world.base[p].place \o Unslashed(Find(p, s))
Known(p, s) == Intended(p, s) \in Dirs
WorldType ==
    [mounts : Seq([root : Seq(STRING), place : Seq(STRING), on : Seq(STRING), host : Seq(STRING)]),
     base : [Procs -> [sure : BOOLEAN, place : Seq(STRING), file : Seq(STRING)]],
     target : [sure : BOOLEAN, place : Seq(STRING), on : Seq(STRING)]]
NoBase == [sure |-> FALSE, place |-> Empty, file |-> Empty]
NoTarget == [sure |-> FALSE, place |-> Empty, on |-> Empty]
Unsure(base, S) == [q \in Procs |-> IF q \in S THEN NoBase ELSE base[q]]
Forgotten == world' = [mounts |-> <<>>, base |-> [q \in Procs |-> NoBase], target |-> NoTarget]

(* who has its root at or below a place is in what was there before *)
Within(place) == {q \in Procs : IsPrefix(place, world.base[q].place)}

Rerooted(p, s) ==
    world' = [world EXCEPT !.base[p] =
                IF Known(p, s) THEN [sure |-> TRUE, place |-> Place(p, s), file |-> Intended(p, s)]
                ELSE NoBase]
MountedAt(m) ==
    world' = [world EXCEPT !.mounts = Append(@, m), !.base = Unsure(@, Within(m.place)),
                           !.target = NoTarget]
UnmountedAt(p, s) ==
    LET at == {i \in DOMAIN world.mounts : world.mounts[i].place = Place(p, s)}
    IN  IF ~Known(p, s) \/ \E i \in at : ~Own(p, i) THEN Forgotten
        ELSE world' = [world EXCEPT !.mounts = IF at = {} THEN @ ELSE RemoveAt(@, Latest(at)),
                                    !.base = Unsure(@, IF at = {} THEN {} ELSE Within(Place(p, s)))]

----------------------------------------------------------------------------
Idle == [op |-> "idle"]
NoWalk == [stop |-> "none"]

Walk(guest, follow) ==
    [given |-> guest, follow |-> follow, cur |-> Slash, rest |-> guest,
     trail |-> EndsInSlash(guest), hops |-> 0, stop |-> "no"]

(* emuroot_translate_path_ex hands back what it was given when there is    *)
(* nothing to translate with.                                              *)
Translate(p, guest, follow) ==
    IF root[p] = Empty /\ binds = <<>>
    THEN [Walk(guest, follow) EXCEPT !.cur = guest, !.rest = Empty, !.stop = "asis"]
    ELSE Walk(guest, follow)

(* absolute_guest_path: Empty when the working directory lies outside *)
absolute_guest_path(p, given) ==
    LET base == emuroot_host_to_guest(binds, root[p], cwd[p])
    IN  IF given.abs THEN given.to
        ELSE IF base = Empty THEN Empty
        ELSE Unslashed(base) \o given.to

AllSlashes(s) == \A i \in DOMAIN s : s[i] = ""
SkipSlashes(s) ==
    Drop(s, CHOOSE n \in 0..Len(s) :
                AllSlashes(SubSeq(s, 1, n)) /\ (n = Len(s) \/ s[n + 1] # ""))

(* the host path of the walk: where it got to, and what it did not walk *)
Result ==
    LET host == map_to_host(binds, root[call.p], walk.cur)
        open == IF EndsInSlash(host) THEN Front(host) ELSE host
        more == IF walk.rest = Empty THEN host
                ELSE open \o OrSlash(SkipSlashes(walk.rest))
    IN  IF walk.stop = "asis" THEN walk.given
        ELSE IF walk.trail /\ ~EndsInSlash(more) THEN Append(more, "") ELSE more

----------------------------------------------------------------------------
(* One turn of the walk's loop, by how it ends.                            *)
Rest == SkipSlashes(walk.rest)
Comp == Head(Rest)
Ahead == Tail(Rest)
IsLast == Ahead = Empty \/ (AllSlashes(Ahead) /\ ~walk.trail)
Here == push_component(walk.cur, Comp)
Host == map_to_host(binds, root[call.p], Here)
UnderProc(host) == Len(host) > 1 /\ host[1] = "proc"
Fits == Length(walk.cur) + 1 <= PATH_LEN

Walking == walk.stop = "no"
AtName == Walking /\ Rest # Empty /\ Comp \notin {".", ".."}
Checked == AtName /\ Fits /\ (walk.follow \/ ~IsLast)

WalkEnd ==
    /\ Walking /\ Rest = Empty
    /\ walk' = [walk EXCEPT !.rest = Empty, !.stop = "end"]

WalkDot ==
    /\ Walking /\ Rest # Empty /\ Comp = "."
    /\ walk' = [walk EXCEPT !.rest = Ahead]

WalkDotDot ==
    /\ Walking /\ Rest # Empty /\ Comp = ".."
    /\ walk' = [walk EXCEPT !.rest = Ahead, !.cur = pop_component(@)]

WalkTooLong ==
    /\ AtName /\ ~Fits
    /\ walk' = [walk EXCEPT !.rest = Ahead, !.stop = "long"]

(* variant: without the test for the last component *)
WalkLast_AnyName ==
    /\ AtName /\ Fits /\ ~walk.follow
    /\ walk' = [walk EXCEPT !.rest = Ahead, !.cur = Here, !.stop = "last"]

WalkLast ==
    /\ AtName /\ Fits /\ IsLast /\ ~walk.follow
    /\ walk' = [walk EXCEPT !.rest = Ahead, !.cur = Here, !.stop = "last"]

WalkProc ==
    /\ Checked /\ UnderProc(Host)
    /\ walk' = [walk EXCEPT !.rest = Ahead, !.cur = Here, !.stop = "proc"]

WalkPlain ==
    /\ Checked /\ ~UnderProc(Host) /\ ~IsLink(Path(Host))
    /\ walk' = [walk EXCEPT !.rest = Ahead, !.cur = Here]

AtLink == Checked /\ ~UnderProc(Host) /\ IsLink(Path(Host))

WalkLoop ==
    /\ AtLink /\ walk.hops + 1 > MAX_SYMLINK_HOPS
    /\ walk' = [walk EXCEPT !.rest = Ahead, !.cur = Here, !.hops = @ + 1, !.stop = "loop"]

(* variants: an absolute target taken from where the link is; hops not counted *)
WalkLink_NeverAbsolute ==
    /\ AtLink /\ walk.hops + 1 <= MAX_SYMLINK_HOPS
    /\ LET tail == readlink("tracer", Path(Host)).to \o Ahead
       IN  walk' = [walk EXCEPT !.cur = pop_component(Here), !.rest = tail,
                                !.trail = EndsInSlash(tail), !.hops = @ + 1]
WalkLink_NotCounted ==
    /\ AtLink
    /\ LET target == readlink("tracer", Path(Host))
           tail == target.to \o Ahead
       IN  walk' = [walk EXCEPT !.cur = IF target.abs THEN Slash ELSE pop_component(Here),
                                !.rest = tail, !.trail = EndsInSlash(tail)]

WalkLink ==
    /\ AtLink /\ walk.hops + 1 <= MAX_SYMLINK_HOPS
    /\ LET target == readlink("tracer", Path(Host))
           tail == target.to \o Ahead
       IN  walk' = [walk EXCEPT !.cur = IF target.abs THEN Slash ELSE pop_component(Here),
                                !.rest = tail, !.trail = EndsInSlash(tail),
                                !.hops = @ + 1]

WalkStep ==
    /\ \/ WalkEnd \/ WalkDot \/ WalkDotDot \/ WalkTooLong \/ WalkLast
       \/ WalkProc \/ WalkPlain \/ WalkLoop \/ WalkLink
    /\ UNCHANGED <<binds, root, pending, cwd, call, world>>

----------------------------------------------------------------------------
(* The calls.  A name argument comes first: where it names something       *)
(* outside the emulated namespace there is nothing to walk.                *)
Free(p) == call = Idle /\ pending[p] = Empty
Outside(p, given) == absolute_guest_path(p, given) = Empty
Start(p, given, follow) ==
    /\ ~Outside(p, given)
    /\ walk' = Translate(p, absolute_guest_path(p, given), follow)

Enter(p, op, given, source, follow) ==
    /\ Free(p)
    /\ Start(p, given, follow)
    /\ call' = [op |-> op, p |-> p, source |-> source, guest |-> Empty, host |-> Empty]
    /\ UNCHANGED <<binds, root, pending, cwd, world>>

NoSource == [abs |-> TRUE, to |-> Empty]

(* The table of path arguments, by what it says of a symlink in the last   *)
(* component: the modes of the calls that only use a path, and of chdir.   *)
path_syscalls ==
    [use |-> {"M_FOLLOW", "M_NOFOLLOW", "M_OPEN", "M_OPENAT2", "M_AT", "M_LINKAT"},
     chdir |-> {"M_FOLLOW"}]

(* the other modes leave it to the call's flags *)
emuroot_follow_last(mode) ==
    CASE mode = "M_FOLLOW" -> {TRUE} [] mode = "M_NOFOLLOW" -> {FALSE} [] OTHER -> BOOLEAN
Follows(op) == UNION {emuroot_follow_last(mode) : mode \in path_syscalls[op]}

UsePath(p) ==
    \E given \in Given.use, follow \in Follows("use") : Enter(p, "use", given, NoSource, follow)
Chdir(p) ==
    \E given \in Given.chdir, follow \in Follows("chdir") :
        Enter(p, "chdir", given, NoSource, follow)
(* emuroot_emulate_mounts: only a root may do these *)
Chroot(p) ==
    p \in Privileged /\ \E given \in Given.chroot : Enter(p, "chroot", given, NoSource, TRUE)
Mount(p) ==
    /\ p \in Privileged
    /\ \E given \in Given.mount, source \in Sources : Enter(p, "mount", given, source, TRUE)
MountProc(p) ==
    p \in Privileged /\ \E given \in Given.mount : Enter(p, "mount proc", given, NoSource, TRUE)
Umount(p) ==
    p \in Privileged /\ \E given \in Given.mount : Enter(p, "umount", given, NoSource, TRUE)

(* emuroot_host_path_arg hands an outside path on as it is, and stat and   *)
(* realpath then start from the tracer's own working directory.            *)
emulate_chroot(p, canon) ==
    pending' = IF canon = Empty THEN pending ELSE [pending EXCEPT ![p] = canon]

(* variant: one binding too many *)
emuroot_bind_OffByOne(host, guest, mount) ==
    binds' = IF Len(binds) > MAX_BINDINGS THEN binds
             ELSE Append(binds, Binding(host, guest, mount))

emuroot_bind(host, guest, mount) ==
    binds' = IF Len(binds) >= MAX_BINDINGS THEN binds
             ELSE Append(binds, Binding(host, guest, mount))

(* variant: the earliest binding of the name *)
emuroot_unbind_Earliest(guest) ==
    LET S == {i \in DOMAIN binds : binds[i].guest = guest}
        earliest == CHOOSE i \in S : \A j \in S : i <= j
    IN  binds' = IF S = {} THEN binds ELSE RemoveAt(binds, earliest)

emuroot_unbind(guest) ==
    LET S == {i \in DOMAIN binds : binds[i].guest = guest}
        latest == CHOOSE i \in S : \A j \in S : j <= i
    IN  binds' = IF S = {} THEN binds ELSE RemoveAt(binds, latest)

(* without a name inside, the kernel resolves it alone, from the real      *)
(* working directory; a mount or an umount is not emulated (and refused)   *)
ChdirOutside(p) ==
    /\ Free(p)
    /\ \E given \in Given.chdir :
        LET k == Kernel("guest", cwd[p], given.to)
        IN  Outside(p, given) /\ k \in Dirs /\ cwd' = [cwd EXCEPT ![p] = k]
    /\ UNCHANGED <<binds, root, pending, call, walk, world>>

ChrootOutside(p) ==
    /\ p \in Privileged /\ Free(p)
    /\ \E given \in Given.chroot :
        Outside(p, given) /\ emulate_chroot(p, realpath(TracerCwd, given.to))
    /\ world' = [world EXCEPT !.base = Unsure(@, {p})]
    /\ UNCHANGED <<binds, root, cwd, call, walk>>

----------------------------------------------------------------------------
(* The walk has stopped: the rest of the handler, and for chdir the kernel *)
Stopped(op) == ~Walking /\ call.op = op
Leave == call' = Idle /\ walk' = NoWalk
Through == walk.stop \in {"end", "asis"}

Used ==
    /\ Stopped("use") /\ Leave
    /\ UNCHANGED <<binds, root, pending, cwd, world>>

Moved ==
    /\ Stopped("chdir") /\ Leave
    /\ LET k == Kernel("guest", Slash, Result)
       IN  cwd' = IF k \in Dirs THEN [cwd EXCEPT ![call.p] = k] ELSE cwd
    /\ UNCHANGED <<binds, root, pending, world>>

Rooted ==
    /\ Stopped("chroot") /\ Leave
    /\ emulate_chroot(call.p, realpath(Slash, Result))
    /\ Rerooted(call.p, walk.given)
    /\ UNCHANGED <<binds, root, cwd>>

(* fake.c, at the exit of the chroot *)
CommitChroot(p) ==
    /\ call = Idle /\ pending[p] # Empty
    /\ root' = [root EXCEPT ![p] = pending[p]]
    /\ pending' = [pending EXCEPT ![p] = Empty]
    /\ UNCHANGED <<binds, cwd, call, walk, world>>

(* the kernel's: what is mounted on.  Emuroot is known not to keep it when *)
(* it did not walk the path, or when the path ends in a slash: the mount   *)
(* point keeps that slash, and nothing is found below it.                  *)
Target ==
    IF walk.stop = "end" /\ ~walk.trail /\ Known(call.p, walk.given)
    THEN [sure |-> TRUE, place |-> Place(call.p, walk.given), on |-> Intended(call.p, walk.given)]
    ELSE NoTarget
(* beyond MAX_BINDINGS emuroot mounts nothing *)
Mounts(target, through, host) ==
    IF ~target.sure \/ ~through \/ host \notin Dirs THEN Forgotten
    ELSE IF Len(binds) >= MAX_BINDINGS THEN world' = [world EXCEPT !.target = NoTarget]
    ELSE MountedAt([root |-> world.base[call.p].place, place |-> target.place,
                            on |-> target.on, host |-> host])

(* emulate_mount: the target is known; now the source *)
Targeted ==
    /\ Stopped("mount")
    /\ call' = [call EXCEPT !.op = "mount from", !.guest = walk.cur, !.host = Result]
    /\ Start(call.p, call.source, TRUE)
    /\ world' = [world EXCEPT !.target = Target]
    /\ UNCHANGED <<binds, root, pending, cwd>>

(* realpath(host), or the string itself when there is no such file *)
Attach(base, source, guest, target) ==
    LET canon == realpath(base, source)
    IN  emuroot_bind(IF canon = Empty THEN source ELSE canon, guest, target)

TargetedOutside ==
    /\ Stopped("mount") /\ Outside(call.p, call.source) /\ Leave
    /\ Attach(TracerCwd, call.source.to, walk.cur, Result)
    /\ Forgotten
    /\ UNCHANGED <<root, pending, cwd>>

Attached ==
    /\ Stopped("mount from") /\ Leave
    /\ Attach(Slash, Result, call.guest, call.host)
    /\ Mounts(world.target, Through, Intended(call.p, walk.given))
    /\ UNCHANGED <<root, pending, cwd>>

AttachedProc ==
    /\ Stopped("mount proc") /\ Leave
    /\ Attach(Slash, <<"proc">>, walk.cur, Result)
    /\ Mounts(Target, TRUE, <<"proc">>)
    /\ UNCHANGED <<root, pending, cwd>>

Detached ==
    /\ Stopped("umount") /\ Leave
    /\ emuroot_unbind(walk.cur)
    /\ IF Through THEN UnmountedAt(call.p, walk.given) ELSE Forgotten
    /\ UNCHANGED <<root, pending, cwd>>

----------------------------------------------------------------------------
(* emuroot_run_ptrace: canonical paths, and where each binding is attached *)
StartRoot == Unslashed(realpath(Slash, GivenRoot))
StartBinds(given) ==
    [i \in DOMAIN given |->
        LET canon == realpath(Slash, given[i].host)
        IN  Binding(IF canon = Empty THEN given[i].host ELSE canon, given[i].guest,
                    StartRoot \o Unslashed(given[i].guest))]

(* as a kernel could have them: directories, mounted below the root *)
StartSure ==
    \A i \in DOMAIN binds : Clean(binds[i].guest) /\ binds[i].host \in Dirs

Init ==
    /\ \E given \in Startup : binds = StartBinds(given)
    /\ root = [p \in Procs |-> StartRoot]
    /\ pending = [p \in Procs |-> Empty]
    /\ cwd = [p \in Procs |-> IF StartRoot = Empty THEN TracerCwd ELSE StartRoot]
    /\ call = Idle
    /\ walk = NoWalk
    /\ world = [mounts |-> [i \in DOMAIN binds |->
                              [root |-> Empty, place |-> Unslashed(binds[i].guest),
                               on |-> binds[i].mount, host |-> binds[i].host]],
                base |-> [p \in Procs |-> [sure |-> StartSure, place |-> Empty, file |-> StartRoot]],
                target |-> NoTarget]

Next ==
    \/ WalkStep
    \/ Used \/ Moved \/ Rooted \/ Targeted \/ TargetedOutside
    \/ Attached \/ AttachedProc \/ Detached
    \/ \E p \in Procs :
        \/ UsePath(p) \/ Chdir(p) \/ Chroot(p) \/ Mount(p) \/ MountProc(p) \/ Umount(p)
        \/ ChdirOutside(p) \/ ChrootOutside(p) \/ CommitChroot(p)

Spec == Init /\ [][Next]_vars

----------------------------------------------------------------------------
(* The list of bindings is the kernel's list of mounts, each under the name *)
(* it was given in the root of its maker, whatever chroot, mount and umount *)
(* were called and in what order.                                           *)
Recorded(p) ==
    /\ root[p] = world.base[p].file /\ DOMAIN binds = DOMAIN world.mounts
    /\ \A i \in DOMAIN binds :
        LET m == world.mounts[i]
        IN  /\ IsPrefix(m.root, m.place)
            /\ Unslashed(binds[i].guest) = Drop(m.place, Len(m.root))
            /\ binds[i].host = m.host /\ binds[i].mount = m.on /\ Canonical(m.on)
TableIsMounts ==
    \A p \in Procs : world.base[p].sure /\ pending[p] = Empty => Recorded(p)

(* Each piece of state has its shape, the list of bindings its limit, and  *)
(* a walk never pops more than there is.                                   *)
TypeOK ==
    /\ Len(binds) <= MAX_BINDINGS
    /\ \A i \in DOMAIN binds :
        /\ binds[i] \in [host : Seq(STRING), guest : Seq(STRING), mount : Seq(STRING)]
        /\ binds[i].host # Empty /\ binds[i].guest # Empty
    /\ root \in [Procs -> Dirs \cup {Empty}]
    /\ pending \in [Procs -> Dirs \cup {Empty}]
    /\ cwd \in [Procs -> Dirs]
    /\ call # Idle => call.p \in Procs
    /\ (walk = NoWalk) <=> (call = Idle)
    /\ call # Idle =>
        /\ walk.cur \in Seq(STRING) /\ walk.cur # Empty
        /\ walk.hops <= MAX_SYMLINK_HOPS + 1
    /\ world \in WorldType

Reached == Kernel("guest", Slash, Result)

(* The rewritten path leads the host's kernel, which knows nothing of the  *)
(* root, to the file the guest's kernel would have found: absolute         *)
(* symlinks, "..", symlinks to symlinks and overlapping bindings included, *)
(* in every namespace that chroot, mount and umount can build, for every   *)
(* path on which that is vouched for (the four exceptions above, and all   *)
(* that follows a call whose path emuroot gave up on).  So does one that   *)
(* leads below /proc, where the walk stops and the rest is the kernel's,   *)
(* /proc/self the caller's: for a rest without "..", with nothing bound    *)
(* below.                                                                  *)
NothingBelow(p) ==
    LET at == Path(root[p] \o walk.cur)
    IN  \A i \in DOMAIN binds : ~IsStrictPrefix(walk.cur, binds[i].guest)
                               /\ ~IsStrictPrefix(at, binds[i].mount)
ReachesIntended ==
    (\/ walk.stop = "end"
     \/ walk.stop = "proc" /\ ".." \notin Range(walk.rest) /\ NothingBelow(call.p))
    /\ Intended(call.p, walk.given) # Empty
        => Reached = Intended(call.p, walk.given)

(* lstat, unlink, rename: every symlink but the last is resolved, the last *)
(* is left to the kernel.                                                  *)
LastLeftAlone ==
    walk.stop = "last" =>
        /\ Find(call.p, Front(walk.given)) # Empty =>
             walk.cur = push_component(Find(call.p, Front(walk.given)), Last(walk.given))
        /\ Kernel("guest", Slash, Front(Result)) = Path(Front(Result))

(* The two mappings are inverse, as getcwd and relative paths need: what   *)
(* the guest is told of a directory it can reach names that directory, for *)
(* processes under the root they started with, when the hosts of the       *)
(* bindings lie apart from each other and from that root.  A directory it  *)
(* reaches past its bindings, through a mount point or without a root, may *)
(* be told by a binding's name: that names it when no two bindings overlap. *)
Apart(s, t) == ~has_prefix(s, t) /\ ~has_prefix(t, s)
HostsApart ==
    /\ \A i \in DOMAIN binds :
         Clean(binds[i].host) /\ (StartRoot = Empty \/ Apart(binds[i].host, StartRoot))
    /\ \A i, j \in DOMAIN binds : i # j => Apart(binds[i].host, binds[j].host)
GuestsApart ==
    \A i, j \in DOMAIN binds :
        i # j => binds[i].guest # Slash /\ Apart(binds[i].guest, binds[j].guest)
Direct(p, g) ==
    Bound(binds, g) # {} \/ (root[p] # Empty /\ Mounted(binds, root[p] \o g) = {})
InverseAt(p, g) ==
    LET h == Path(map_to_host(binds, root[p], g))
        back == emuroot_host_to_guest(binds, root[p], h)
    IN  back # Empty => Path(map_to_host(binds, root[p], back)) = h
RoundTrip ==
    call = Idle /\ HostsApart =>
        \A p \in Procs, g \in Probes :
            root[p] = StartRoot /\ (Direct(p, g) \/ GuestsApart) => InverseAt(p, g)

(* A walk ends, symlink loops included: every turn of its loop follows one *)
(* more symlink, of which there are at most MAX_SYMLINK_HOPS, or leaves    *)
(* less to walk.                                                           *)
WalkAdvances ==
    [][Walking /\ walk'.stop = "no" /\ call' = call =>
        \/ walk'.hops > walk.hops /\ walk'.hops <= MAX_SYMLINK_HOPS
        \/ walk'.hops = walk.hops /\ Len(walk'.rest) < Len(walk.rest)]_vars
=============================================================================
