------------------------------- MODULE Guest -------------------------------
(***************************************************************************)
(* The traced processes and threads as the kernel presents them to the     *)
(* tracer.  Nothing here is emuroot's own code: it is what ptrace.c relies *)
(* on, the ptrace(2) stops its options ask for and the order the kernel    *)
(* reports them in.                                                        *)
(*                                                                         *)
(* proc[p] is one process (or thread) slot:                                *)
(*   state   "none", "running", "stopped" (a ptrace stop), "zombie"        *)
(*           or "reaped" (a pid is not used again);                        *)
(*   at      where it is: not yet out of fork ("born"), in user code,      *)
(*           between a call's entry and its effect ("entry"), between the  *)
(*           creation of a child and the fork event ("forked"), in the     *)
(*           fork event ("event"), or at a call's exit ("exit");           *)
(*   call    the call it is making (kept up to its exit): "set" changes    *)
(*           the view to arg (set*id, chroot, execve in a process without  *)
(*           threads) and, with arg its own view, stands for every call    *)
(*           that changes nothing; "fork" and "clone" start a process and  *)
(*           a thread; "exec" is execve where there are threads;           *)
(*   report  the status wait has not collected yet;                        *)
(*   resume  the request it was last resumed with;                         *)
(*   leader  its thread group;  child  its last child (what                *)
(*           PTRACE_GETEVENTMSG gives);                                    *)
(*   view    the identity and root directory it believes in: the answer    *)
(*           unix gives to "who am I, where is /", which a child copies    *)
(*           and a set*id, chroot or execve call changes;                  *)
(*   taken   a thread other than the leader has taken this pid over.       *)
(***************************************************************************)
EXTENDS Naturals, FiniteSets

CONSTANTS
    Pids,           \* process and thread ids
    RootPid,        \* the guest's first process
    NoPid,          \* 0, no process
    Views,          \* identities a process can have
    InitView,       \* the one the run starts with
    SeccompModes,   \* whether the seccomp filter went in: the cases to cover
    Threads         \* whether the guest starts threads

ASSUME PidsAssumption == RootPid \in Pids /\ NoPid \notin Pids
ASSUME ViewsAssumption == InitView \in Views
ASSUME ModesAssumption == SeccompModes \subseteq BOOLEAN /\ Threads \in BOOLEAN

VARIABLES proc, seccomp_mode
kernelVars == <<proc, seccomp_mode>>

States == {"none", "running", "stopped", "zombie", "reaped"}
Places == {"born", "user", "entry", "forked", "event", "exit"}
Calls == {"set", "fork"} \cup (IF Threads THEN {"exec", "clone"} ELSE {})
ViewCalls == {"set", "exec"}
SignalStops == {"SIGSTOP", "SIGUSR"}       \* SIGUSR: any signal but SIGSTOP
Reports == {"nothing", "syscall", "seccomp", "forked", "exited"} \cup SignalStops

Proc == [state : States, at : Places, call : Calls, arg : Views, report : Reports,
         resume : {"CONT", "SYSCALL"}, leader : Pids, child : Pids \cup {NoPid},
         view : Views, taken : BOOLEAN]

Live(p) == proc[p].state \in {"running", "stopped"}
Group(p) == {q \in Pids : proc[q].state # "none" /\ proc[q].leader = proc[p].leader}

NewProc(lead, v) ==
    [state |-> "stopped", at |-> "born", call |-> "set", arg |-> v, report |-> "SIGSTOP",
     resume |-> "CONT", leader |-> lead, child |-> NoPid, view |-> v,
     taken |-> FALSE]

Gone(pr, how, status) ==
    [NewProc(pr.leader, InitView) EXCEPT !.state = how, !.report = status]

(* The first process has stopped itself (raise(SIGSTOP)) and been waited for. *)
GuestInit ==
    /\ seccomp_mode \in SeccompModes
    /\ proc = [p \in Pids |->
         IF p = RootPid
         THEN [NewProc(p, InitView) EXCEPT !.at = "user", !.report = "nothing"]
         ELSE Gone(NewProc(p, InitView), "none", "nothing")]

Stop(pr, place, status) == [pr EXCEPT !.state = "stopped", !.at = place, !.report = status]
Die(pr) == IF pr.state \in {"running", "stopped"} THEN Gone(pr, "zombie", "exited") ELSE pr

(* Back from the kernel: the exit is reported only if it was asked for. *)
Return(pr) == IF pr.resume = "SYSCALL" THEN Stop(pr, "exit", "syscall")
                                       ELSE [pr EXCEPT !.at = "user"]

Running(p, place) == proc[p].state = "running" /\ proc[p].at = place

-----------------------------------------------------------------------------
(* User code makes a call.  Without the filter every entry stops; with it  *)
(* only the calls emuroot handles do.                                      *)
Enter(p) == \E c \in Calls, v \in Views :
    LET in == [proc[p] EXCEPT !.at = "entry", !.call = c, !.arg = v]
    IN  /\ Running(p, "user")
        /\ c \in ViewCalls \/ v = proc[p].view
        /\ proc' = [proc EXCEPT ![p] =
             IF seccomp_mode /\ c \notin ViewCalls THEN in
             ELSE Stop(in, "entry", IF seccomp_mode THEN "seccomp" ELSE "syscall")]

(* A call other than fork and exec runs.  It changes the caller's view,    *)
(* as the tracer keeps it: one root and one identity for each thread.  (A  *)
(* kernel's chroot is one for all threads of a process.)                   *)
Execute(p) ==
    /\ Running(p, "entry") /\ proc[p].call = "set"
    /\ proc' = [proc EXCEPT ![p] = Return([@ EXCEPT !.view = proc[p].arg])]

(* A successful execve ends the group's other threads.  A thread that is   *)
(* not the leader goes on under the leader's pid: its own pid vanishes     *)
(* without a report.                                                       *)
Exec(p) ==
    LET l == proc[p].leader
        new == [proc[p] EXCEPT !.view = proc[p].arg, !.taken = (p # l) \/ proc[p].taken]
    IN  /\ Running(p, "entry") /\ proc[p].call = "exec"
        /\ proc' = [q \in Pids |->
             IF q = l THEN Return(new)
             ELSE IF q = p THEN Gone(proc[q], "reaped", "nothing")
             ELSE IF q \in Group(p) THEN Die(proc[q])
             ELSE proc[q]]

(* fork (or clone of a thread): the child exists, stopped, before its      *)
(* parent gets to report the event, and either may be collected first.     *)
Fork(p) == \E c \in Pids :
    /\ Running(p, "entry") /\ proc[p].call \in {"fork", "clone"}
    /\ proc[c].state = "none"
    /\ proc' = [proc EXCEPT
         ![p] = [@ EXCEPT !.at = "forked", !.child = c],
         ![c] = NewProc(IF proc[p].call = "clone" THEN proc[p].leader ELSE c, proc[p].view)]

ForkFails(p) ==
    /\ Running(p, "entry") /\ proc[p].call \in {"fork", "clone"}
    /\ proc' = [proc EXCEPT ![p] = Return(@)]

ForkEvent(p) ==
    /\ Running(p, "forked")
    /\ proc' = [proc EXCEPT ![p] = Stop(@, "event", "forked")]

ForkReturn(p) ==
    /\ Running(p, "event")
    /\ proc' = [proc EXCEPT ![p] = Return(@)]

(* A signal stops its target on the way to user code. *)
Signal(p) == \E s \in SignalStops :
    /\ Running(p, "user")
    /\ proc' = [proc EXCEPT ![p] = Stop(@, "user", s)]

(* The end of a process with all its threads: exit_group, or SIGKILL from  *)
(* anyone at any moment, a stop included.                                  *)
Kill(p) ==
    /\ Live(p)
    /\ proc' = [q \in Pids |-> IF q \in Group(p) THEN Die(proc[q]) ELSE proc[q]]

(* The exit of one thread that is not the leader. *)
ThreadExit(p) ==
    /\ Running(p, "user") /\ proc[p].leader # p
    /\ proc' = [proc EXCEPT ![p] = Die(@)]

GuestStep(p) ==
    /\ \/ Enter(p) \/ Execute(p) \/ Exec(p) \/ Fork(p) \/ ForkFails(p) \/ ForkEvent(p)
       \/ ForkReturn(p) \/ Signal(p) \/ Kill(p) \/ ThreadExit(p)
    /\ UNCHANGED seccomp_mode

-----------------------------------------------------------------------------
(* What the tracer can ask of the kernel. *)

(* A dead leader is reported after the last of its threads has been. *)
Reportable(p) ==
    /\ proc[p].report # "nothing"
    /\ (proc[p].report = "exited" /\ proc[p].leader = p) =>
          \A q \in Group(p) \ {p} : proc[q].state = "reaped"

(* waitpid collects p's status *)
Collected(p) ==
    IF proc[p].report = "exited" THEN Gone(proc[p], "reaped", "nothing")
                                 ELSE [proc[p] EXCEPT !.report = "nothing"]

(* PTRACE_CONT or PTRACE_SYSCALL; it fails if p is not stopped.  From its  *)
(* initial stop or a call's exit, p goes back to user code.                *)
Resumed(p, how) ==
    IF proc[p].state = "stopped"
    THEN [proc EXCEPT ![p] = IF @.at \in {"born", "exit"}
            THEN [@ EXCEPT !.state = "running", !.report = "nothing", !.resume = how,
                           !.at = "user", !.call = "set", !.arg = InitView]
            ELSE [@ EXCEPT !.state = "running", !.report = "nothing", !.resume = how]]
    ELSE proc
=============================================================================
