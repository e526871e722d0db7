------------------------------- MODULE Tracer -------------------------------
(***************************************************************************)
(* The tracer (ptrace.c): the table of tracees, the wait loop and the stop *)
(* handler.  The loop is sequential; what makes it hard is that the guest  *)
(* runs beside it (Guest), so a status it collected may be out of date by  *)
(* the time it acts on it, and that stops arrive in the kernel's order.    *)
(*                                                                         *)
(* Program points (pc) of emuroot_run_ptrace:                              *)
(*   "armed"    the signal handlers are installed, stop_signal not cleared *)
(*   "top"      about to call waitpid                                      *)
(*   "wait"     blocked in waitpid                                         *)
(*   "got"      waitpid has returned cur                                   *)
(*   "cleanup"  out of the loop                                            *)
(*   "done"     returned rc                                                *)
(***************************************************************************)
EXTENDS Guest

CONSTANTS
    TableCap,       \* tracees there is memory for
    NoView          \* no view: an empty pending_root

ASSUME TableCapAssumption == TableCap \in Nat \ {0}
ASSUME NoViewAssumption == NoView \notin Views

VARIABLES
    pc, cur,        \* where the tracer is; the (pid, status) waitpid returned
    tab,            \* the pids that have a table entry
    tr,             \* their entries
    stop_signal,    \* a stop signal has been handled
    rc,             \* why the loop ended
    origin          \* history: how faithful each entry's identity is (below)

tracerVars == <<pc, cur, tab, tr, stop_signal, rc, origin>>
vars == <<kernelVars, tracerVars>>

AnyPid == Pids \cup {NoPid}
Tracee == [view : Views, fresh : BOOLEAN, in_syscall : BOOLEAN, awaiting_exit : BOOLEAN,
           pending : Views \cup {NoView}]

(* The entry tracee_add makes.  view stands for creds, exe and root, the   *)
(* fields tracee_inherit copies; pending for sysno, args, pending_exe and  *)
(* pending_root: the view the call noted at entry asks for, if any.        *)
\* variant: the initial SIGSTOP is not expected
tracee_add_NotFresh(v) == [view |-> v, fresh |-> FALSE, in_syscall |-> FALSE,
                           awaiting_exit |-> FALSE, pending |-> NoView]

tracee_add(v) == [view |-> v, fresh |-> TRUE, in_syscall |-> FALSE,
                  awaiting_exit |-> FALSE, pending |-> NoView]

\* variant: nothing is copied
tracee_inherit_Nothing(child, parent) == child

tracee_inherit(child, parent) == [child EXCEPT !.view = parent.view]

(* tracee_add fails when there is no memory for another entry *)
Room == Cardinality(tab) < TableCap

(* History of an entry: "copy" - it was added, or corrected, at the fork   *)
(* event from an entry that was itself a copy, of a process no thread has  *)
(* taken over; "early" - added at the child's own first stop, the event    *)
(* still to come; "lost" - it is past what the event could correct.        *)
Origins == {"copy", "early", "lost"}

Nothing == [pid |-> NoPid, status |-> "nothing"]

-----------------------------------------------------------------------------
Init ==
    /\ GuestInit
    /\ pc = "armed" /\ cur = Nothing
    /\ tab = {} /\ tr = [p \in AnyPid |-> tracee_add(InitView)]
    /\ stop_signal = FALSE /\ rc = "none"
    /\ origin = [p \in AnyPid |-> "copy"]

\* variant: a tracee always runs freely under the filter
How_NoExit(t) == IF seccomp_mode THEN "CONT" ELSE "SYSCALL"

(* the request that resumes a tracee: free under the filter, except        *)
(* between a handled call's entry and its exit                             *)
How(t) == IF seccomp_mode /\ ~t.awaiting_exit THEN "CONT" ELSE "SYSCALL"

(* stop_signal = 0, the first table entry, the first resume *)
Start ==
    /\ pc = "armed" /\ pc' = "top"
    /\ stop_signal' = FALSE
    /\ tab' = {RootPid}
    /\ tr' = [tr EXCEPT ![RootPid] = [tracee_add(InitView) EXCEPT !.fresh = FALSE]]
    /\ proc' = Resumed(RootPid, How(tr'[RootPid]))
    /\ UNCHANGED <<seccomp_mode, cur, rc, origin>>

-----------------------------------------------------------------------------
(* waitpid(-1, &status, __WALL) *)
Block ==
    /\ pc = "top" /\ pc' = "wait"
    /\ UNCHANGED <<kernelVars, cur, tab, tr, stop_signal, rc, origin>>

WaitReturns(p) ==
    /\ pc = "wait" /\ pc' = "got"
    /\ Reportable(p)
    /\ cur' = [pid |-> p, status |-> proc[p].report]
    /\ proc' = [proc EXCEPT ![p] = Collected(p)]
    /\ UNCHANGED <<seccomp_mode, tab, tr, stop_signal, rc, origin>>

(* EINTR, from a signal that is not one of the three *)
WaitInterrupted ==
    /\ pc = "wait" /\ pc' = "got" /\ cur' = Nothing
    /\ UNCHANGED <<kernelVars, tab, tr, stop_signal, rc, origin>>

WaitAgain ==
    /\ pc = "got" /\ ~stop_signal /\ cur = Nothing
    /\ pc' = "top"
    /\ UNCHANGED <<kernelVars, cur, tab, tr, stop_signal, rc, origin>>

(* SIGTERM, SIGINT or SIGHUP reaches the tracer.  Only a blocked waitpid   *)
(* is interrupted by it.                                                   *)
StopSignal ==
    /\ pc \in {"armed", "top", "wait", "got"} /\ ~stop_signal
    /\ stop_signal' = TRUE
    /\ pc' = IF pc = "wait" THEN "got" ELSE pc
    /\ cur' = IF pc = "wait" THEN Nothing ELSE cur
    /\ UNCHANGED <<kernelVars, tab, tr, rc, origin>>

CheckStop ==
    /\ pc = "got" /\ stop_signal
    /\ pc' = "cleanup" /\ rc' = "signal" /\ cur' = Nothing
    /\ UNCHANGED <<kernelVars, tab, tr, stop_signal, origin>>

-----------------------------------------------------------------------------
(* A collected status, with p's table entry: found, or added without a     *)
(* parent ("child seen before its parent's fork event").                   *)
Got(p, what) == pc = "got" /\ ~stop_signal /\ cur = [pid |-> p, status |-> what]
Known(p) == p \in tab \/ Room
Entry(p) == IF p \in tab THEN tr[p] ELSE tracee_add(InitView)
EntryOrigin(p) == IF p \in tab THEN origin[p] ELSE "early"

(* No entry and no memory for one: the loop goes on, the tracee stays as it is. *)
OutOfMemory ==
    /\ pc = "got" /\ ~stop_signal /\ cur.pid \in Pids /\ ~Known(cur.pid)
    /\ pc' = "top" /\ cur' = Nothing
    /\ UNCHANGED <<kernelVars, tab, tr, stop_signal, rc, origin>>

(* The guest is over when its first process is. *)
\* variant: the loop goes on until every tracee has gone
RootDies_WaitsForAll ==
    /\ Got(RootPid, "exited")
    /\ pc' = (IF tab = {RootPid} THEN "cleanup" ELSE "top") /\ rc' = "status" /\ cur' = Nothing
    /\ UNCHANGED <<kernelVars, tab, tr, stop_signal, origin>>

RootDies ==
    /\ Got(RootPid, "exited")
    /\ pc' = "cleanup" /\ rc' = "status" /\ cur' = Nothing
    /\ UNCHANGED <<kernelVars, tab, tr, stop_signal, origin>>

TraceeDies(p) ==
    /\ Got(p, "exited") /\ Known(p) /\ p # RootPid
    /\ pc' = "top" /\ cur' = Nothing
    /\ tab' = tab \ {p}
    /\ tr' = [tr EXCEPT ![p] = tracee_add(InitView)]
    /\ origin' = [origin EXCEPT ![p] = "copy"]
    /\ UNCHANGED <<kernelVars, stop_signal, rc>>

(* Put p's entry back and resume p, as the entry asks. *)
\* variant: a swallowed SIGSTOP goes back to waitpid at once
Put_SkipsResume(p, t, o) ==
    /\ tab' = tab \cup {p}
    /\ tr' = [tr EXCEPT ![p] = t]
    /\ origin' = [origin EXCEPT ![p] = o]
    /\ proc' = IF cur.status = "SIGSTOP" THEN proc ELSE Resumed(p, How(t))
    /\ pc' = "top" /\ cur' = Nothing
    /\ UNCHANGED <<seccomp_mode, stop_signal, rc>>

Put(p, t, o) ==
    /\ tab' = tab \cup {p}
    /\ tr' = [tr EXCEPT ![p] = t]
    /\ origin' = [origin EXCEPT ![p] = o]
    /\ proc' = Resumed(p, How(t))
    /\ pc' = "top" /\ cur' = Nothing
    /\ UNCHANGED <<seccomp_mode, stop_signal, rc>>

(* The registers can be read while p is still stopped.  emuroot_on_entry   *)
(* notes the call, emuroot_on_exit commits the change it noted.            *)
on_entry(p, t) ==
    IF proc[p].state = "stopped"
    THEN [t EXCEPT !.pending = IF proc[p].call \in ViewCalls THEN proc[p].arg ELSE NoView]
    ELSE t
Commits(p, t) == proc[p].state = "stopped" /\ t.pending # NoView

\* variant: commits whether or not something was noted
on_exit_Unguarded(p, t) == IF proc[p].state = "stopped" THEN [t EXCEPT !.view = t.pending] ELSE t

on_exit(p, t) == IF Commits(p, t) THEN [t EXCEPT !.view = t.pending] ELSE t

AfterCommit(p, t) == IF Commits(p, t) /\ EntryOrigin(p) = "early" THEN "lost" ELSE EntryOrigin(p)

SyscallStopPlain(p) ==
    /\ Got(p, "syscall") /\ Known(p) /\ ~seccomp_mode
    /\ LET t == Entry(p)
           done == IF t.in_syscall THEN on_exit(p, t) ELSE on_entry(p, t)
       IN  Put(p, [done EXCEPT !.in_syscall = ~t.in_syscall],
               IF t.in_syscall THEN AfterCommit(p, t) ELSE EntryOrigin(p))

SyscallStopSeccomp(p) ==
    /\ Got(p, "syscall") /\ Known(p) /\ seccomp_mode
    /\ LET t == Entry(p)
       IN  IF t.awaiting_exit
           THEN Put(p, [on_exit(p, t) EXCEPT !.awaiting_exit = FALSE], AfterCommit(p, t))
           ELSE Put(p, t, EntryOrigin(p))

SeccompStop(p) ==
    /\ Got(p, "seccomp") /\ Known(p)
    /\ Put(p, [on_entry(p, Entry(p)) EXCEPT !.awaiting_exit = TRUE], EntryOrigin(p))

(* The fork event.  PTRACE_GETEVENTMSG leaves child = 0 if p was killed    *)
(* meanwhile.  The child may have an entry already (it was seen first), or *)
(* get one now, if there is memory.                                        *)
EventChild(p) == IF proc[p].state = "stopped" THEN proc[p].child ELSE NoPid
ForkEventStop(p) ==
    LET t == Entry(p)
        c == EventChild(p)
        before == tab \cup {p}
        inherited ==
            IF EntryOrigin(p) # "copy" \/ proc[p].taken \/ (c \in tab /\ origin[c] = "lost")
            THEN "lost" ELSE "copy"
    IN  /\ Got(p, "forked") /\ Known(p)
        /\ IF c \in before \/ Cardinality(before) < TableCap
           THEN /\ tab' = before \cup {c}
                /\ tr' = [tr EXCEPT ![p] = t,
                     ![c] = tracee_inherit(IF c \in before THEN tr[c] ELSE tracee_add(InitView), t)]
                /\ origin' = [origin EXCEPT ![p] = EntryOrigin(p), ![c] = inherited]
           ELSE /\ tab' = before
                /\ tr' = [tr EXCEPT ![p] = t]
                /\ origin' = [origin EXCEPT ![p] = EntryOrigin(p)]
        /\ proc' = Resumed(p, How(t))
        /\ pc' = "top" /\ cur' = Nothing
        /\ UNCHANGED <<seccomp_mode, stop_signal, rc>>

(* A new child's initial stop, and any other signal: swallowed or delivered *)
(* on resume, which makes no difference to the state kept here.            *)
SignalStop(p) ==
    /\ \E s \in SignalStops : Got(p, s)
    /\ Known(p)
    /\ Put(p, [Entry(p) EXCEPT !.fresh = Entry(p).fresh /\ cur.status # "SIGSTOP"], EntryOrigin(p))

\* variant: only the first process is killed
Cleanup_RootOnly ==
    /\ pc = "cleanup" /\ pc' = "done"
    /\ tab' = {}
    /\ proc' = [p \in Pids |-> IF p \in Group(RootPid) THEN Die(proc[p]) ELSE proc[p]]
    /\ UNCHANGED <<seccomp_mode, cur, tr, stop_signal, rc, origin>>

(* "never leave a guest behind": kill(2) on every entry.  The loop runs    *)
(* beside the guest, but what a guest does before its own SIGKILL it could *)
(* have done before the loop.                                              *)
Cleanup ==
    /\ pc = "cleanup" /\ pc' = "done"
    /\ tab' = {}
    /\ proc' = [p \in Pids |-> IF \E q \in tab \cap Pids : p \in Group(q)
                               THEN Die(proc[p]) ELSE proc[p]]
    /\ UNCHANGED <<seccomp_mode, cur, tr, stop_signal, rc, origin>>

HandleStatus(p) ==
    \/ TraceeDies(p) \/ SyscallStopPlain(p) \/ SyscallStopSeccomp(p)
    \/ SeccompStop(p) \/ ForkEventStop(p) \/ SignalStop(p)

TracerStep ==
    \/ Start \/ Block \/ CheckStop \/ WaitAgain \/ OutOfMemory \/ RootDies \/ Cleanup
    \/ \E p \in Pids : HandleStatus(p)

GuestRuns(p) == pc # "done" /\ GuestStep(p) /\ UNCHANGED tracerVars

Next ==
    \/ TracerStep \/ WaitInterrupted \/ StopSignal
    \/ \E p \in Pids : WaitReturns(p) \/ GuestRuns(p)

Spec == Init /\ [][Next]_vars

(* The tracer keeps going; nothing is assumed of the guest, which may sleep *)
(* in a call for ever.  wait starves nobody: it looks through the tracer's  *)
(* children and tracees in order, and those ahead of p have to be resumed   *)
(* and run to their next stop before they can report again.                 *)
FairSpec == Spec /\ WF_vars(TracerStep) /\ \A p \in Pids : SF_vars(WaitReturns(p))

-----------------------------------------------------------------------------
(* The values of every variable; pid 0 may get a table entry, when a       *)
(* parent is killed in its fork event.                                     *)
TypeOK ==
    /\ seccomp_mode \in BOOLEAN
    /\ proc \in [Pids -> Proc]
    /\ pc \in {"armed", "top", "wait", "got", "cleanup", "done"}
    /\ cur \in [pid : AnyPid, status : Reports]
    /\ tab \subseteq AnyPid
    /\ tr \in [AnyPid -> Tracee]
    /\ stop_signal \in BOOLEAN
    /\ rc \in {"none", "status", "signal"}
    /\ origin \in [AnyPid -> Origins]

(* "hands each syscall stop to rewrite.c (entry) or fake.c (exit)": the    *)
(* in_syscall toggle and the awaiting_exit flag tell an entry from an exit *)
(* whenever the handler acts on a stop, and no call gets back to user code *)
(* with its exit unhandled - except in a process taken over by a thread's  *)
(* execve.                                                                 *)
AsExit(p) == IF seccomp_mode THEN Entry(p).awaiting_exit ELSE Entry(p).in_syscall
PairedAt(p) ==
    /\ (cur = [pid |-> p, status |-> "syscall"] /\ proc[p].state = "stopped") =>
          /\ AsExit(p) <=> proc[p].at = "exit"
          /\ seccomp_mode => AsExit(p)
    /\ (cur = [pid |-> p, status |-> "seccomp"] /\ proc[p].state = "stopped") =>
          ~AsExit(p) /\ proc[p].at = "entry"
    /\ (proc[p].state = "running" /\ proc[p].at = "user") => ~AsExit(p)
EntryExitPaired == \A p \in Pids : ~proc[p].taken => PairedAt(p)

(* A forked child starts as a copy of its parent, and stays what its own   *)
(* calls make of it: whenever a tracee is in user code or enters a call,   *)
(* the identity its table entry gives is its own, if the fork event was    *)
(* handled in time.                                                        *)
Trusts(p) ==
    proc[p].state = "running" /\ proc[p].at \in {"user", "entry"} => tr[p].view = proc[p].view
CopyIsFaithful == \A p \in Pids : origin[p] = "copy" /\ ~proc[p].taken => Trusts(p)

(* tracee_inherit: "A forked child starts as a copy of its parent." -      *)
(* whichever of the two stops the kernel reports first.                    *)
ChildIsCopy == \A p \in Pids : Trusts(p)

(* The SIGSTOP that is swallowed is the initial one and no other: fresh is *)
(* set exactly for a child that has not reported it, in both orders of the *)
(* child's stop and the parent's event.                                    *)
FreshExact == \A p \in Pids :
    (cur = [pid |-> p, status |-> "SIGSTOP"] /\ proc[p].state = "stopped") =>
        (Entry(p).fresh <=> proc[p].at = "born")

(* No tracee is left in a stop nobody will end: when the loop goes back to *)
(* waitpid, each stop of a known tracee is still to be collected.  (An     *)
(* initial stop is forgotten when there was no memory for the entry.)      *)
NoForgottenStop == pc \in {"top", "wait"} =>
    \A p \in tab \cap Pids :
        proc[p].state = "stopped" /\ proc[p].at # "born" => proc[p].report # "nothing"

(* Whatever the final loop misses has never run: a process that survives   *)
(* emuroot_run_ptrace is a new child still in its initial stop.            *)
SurvivorsNeverRan == pc = "done" =>
    \A p \in Pids : Live(p) => proc[p].state = "stopped" /\ proc[p].at = "born"

(* The run ends once its first process has.                                *)
RootEndsRun == (proc[RootPid].state = "zombie") ~> (pc = "done")

(* emuroot_terminate: "Asks the supervisor to stop: the guest and          *)
(* everything it started are killed."                                      *)
StopHonoured == stop_signal ~> (pc = "done")
=============================================================================
