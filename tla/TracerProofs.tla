---------------------------- MODULE TracerProofs ----------------------------
(* Proofs about the tracer's stop handling, for any number of processes,    *)
(* views and table entries, with or without the filter and with or without  *)
(* threads.                                                                 *)
EXTENDS Tracer, TLAPS

(* The status of p the tracer has still to act on. *)
Status(p) == IF cur.pid = p THEN cur.status ELSE proc[p].report

(* p's present call stops at its entry, and then again at its exit. *)
Stops(p) == ~seccomp_mode \/ proc[p].call \in ViewCalls
Free == IF seccomp_mode THEN "CONT" ELSE "SYSCALL"
EntryStop == IF seccomp_mode THEN "seccomp" ELSE "syscall"

-----------------------------------------------------------------------------
(* The inductive invariant.  First the tracer's own variables. *)
LoopOK ==
    /\ cur.pid \in Pids => pc = "got" /\ cur.status # "nothing"
    /\ cur.pid = NoPid => cur.status = "nothing"
    /\ cur.status = "exited" => proc[cur.pid].state = "reaped"
    /\ proc[RootPid].state # "none"
    /\ pc = "armed" =>
         /\ tab = {}
         /\ \A p \in Pids \ {RootPid} : proc[p].state = "none"
         /\ proc[RootPid].state # "running"
         /\ proc[RootPid].at = "user" \/ proc[RootPid].state # "stopped"

(* What holds of every process: a child exists before anyone can name it,   *)
(* a live thread has a live leader that has been running, and a process     *)
(* that has left its initial stop has an entry that is not fresh.           *)
LeaderOK(p, l) == (Live(p) /\ proc[p].leader = l) =>
    Live(l) /\ proc[l].leader = l /\ (l # p => proc[l].at # "born")

ProcOK(p) ==
    /\ proc[p].state = "none" => p \notin tab /\ cur.pid # p /\ proc[p].report = "nothing"
    /\ proc[p].child \in Pids => proc[proc[p].child].state # "none"
    /\ \A l \in Pids : LeaderOK(p, l)
    /\ Live(p) => proc[p].report # "exited"
    /\ proc[p].state = "running" => proc[p].at # "born" /\ proc[p].report = "nothing"
    /\ (Live(p) /\ proc[p].at # "born" /\ pc # "armed") => p \in tab /\ ~tr[p].fresh /\ pc # "done"
    /\ (Live(p) /\ proc[p].at = "born") => Entry(p).fresh /\ Status(p) \in {"SIGSTOP", "nothing"}
    /\ (cur.pid = p /\ Live(p) /\ proc[p].at = "born") => proc[p].report = "nothing"
    /\ (proc[p].state = "stopped" /\ proc[p].at # "born" /\ pc \notin {"armed", "cleanup", "done"})
         => Status(p) # "nothing"

(* The heart: the flags against where the process is in its call. *)
RunningOK(p) ==
    /\ cur.pid # p
    /\ proc[p].at \in {"user", "entry", "forked", "event"}
    /\ proc[p].at = "user" => ~AsExit(p) /\ proc[p].resume = Free
    /\ proc[p].at # "user" => (AsExit(p) <=> Stops(p)) /\ (proc[p].resume = "SYSCALL" <=> Stops(p))
    /\ proc[p].at \in {"forked", "event"} => proc[p].call \notin ViewCalls

StoppedOK(p) ==
    /\ proc[p].at # "forked"
    /\ cur.pid = p => proc[p].report = "nothing"
    /\ proc[p].at \in {"born", "user", "entry"} => ~AsExit(p)
    /\ proc[p].at = "user" => pc = "armed" \/ Status(p) \in SignalStops
    /\ proc[p].at = "entry" => Stops(p) /\ Status(p) = EntryStop
    /\ proc[p].at = "event" =>
         proc[p].call \notin ViewCalls /\ (AsExit(p) <=> Stops(p)) /\ Status(p) = "forked"
    /\ proc[p].at = "exit" => AsExit(p) /\ Status(p) = "syscall"

FlagsOK(p) == ~proc[p].taken =>
    /\ (proc[p].state = "running" /\ pc # "done") => RunningOK(p)
    /\ (proc[p].state = "stopped" /\ pc \notin {"cleanup", "done"}) => StoppedOK(p)

IInv == TypeOK /\ LoopOK /\ \A p \in Pids : ProcOK(p) /\ FlagsOK(p)

-----------------------------------------------------------------------------
LEMMA CallsTyped == Calls \subseteq {"set", "fork", "exec", "clone"} /\ "set" \in Calls
BY DEF Calls

LEMMA InitIInv == Init => IInv
<1> SUFFICES ASSUME Init PROVE IInv
  OBVIOUS
<1> USE PidsAssumption, ViewsAssumption, ModesAssumption, NoViewAssumption, CallsTyped
    DEF Init, GuestInit, NewProc, Gone, Nothing
<1>1. TypeOK
  BY DEF TypeOK, Proc, States, Places, Reports, SignalStops, AnyPid, Tracee, tracee_add, Origins
<1>2. LoopOK
  BY DEF LoopOK
<1>3. ASSUME NEW p \in Pids PROVE ProcOK(p) /\ FlagsOK(p)
  <2>1. ProcOK(p)
    BY DEF ProcOK, LeaderOK, Live, Entry, tracee_add, Status
  <2>2. FlagsOK(p)
    BY DEF FlagsOK, RunningOK, StoppedOK, AsExit, Entry, tracee_add
  <2> QED
    BY <2>1, <2>2
<1> QED
  BY <1>1, <1>2, <1>3 DEF IInv

-----------------------------------------------------------------------------
(* A step of one running process that stays alive disturbs nobody else. *)
LEMMA OneProcStep ==
    ASSUME IInv, pc # "done", NEW p \in Pids, NEW new \in Proc,
           proc[p].state = "running", new.state \in {"running", "stopped"},
           proc' = [proc EXCEPT ![p] = new], UNCHANGED <<seccomp_mode, tracerVars>>,
           new.leader = proc[p].leader, new.taken = proc[p].taken, new.at # "born",
           new.child = proc[p].child,
           new.state = "running" => new.report = "nothing", new.report # "exited",
           new.state = "stopped" => new.report # "nothing",
           FlagsOK(p)'
    PROVE  IInv'
<1> USE PidsAssumption DEF tracerVars
<1>1. TypeOK /\ LoopOK /\ ProcOK(p) /\ FlagsOK(p) /\ ProcOK(RootPid)
  BY DEF IInv
<1>2. proc'[p] = new /\ \A q \in Pids \ {p} : proc'[q] = proc[q]
  BY <1>1 DEF TypeOK
<1>3. \A q \in Pids : Live(q) <=> Live(q)'
  BY <1>2 DEF Live
<1>4. TypeOK'
  BY <1>1 DEF TypeOK
<1>5. pc # "armed"
  BY <1>1 DEF LoopOK
<1>6. LoopOK'
  BY <1>1, <1>2, <1>5 DEF LoopOK, TypeOK, AnyPid
<1>7. \A q \in Pids : (proc'[q].state = "none") <=> (proc[q].state = "none")
  BY <1>2
<1>8. ASSUME NEW q \in Pids PROVE ProcOK(q)' /\ FlagsOK(q)'
  <2>1. ProcOK(q) /\ FlagsOK(q) /\ proc[q] \in Proc /\ Entry(q)' = Entry(q) /\ AsExit(q)' = AsExit(q)
    BY <1>1 DEF IInv, TypeOK, Entry, AsExit
  <2>2. (proc[q].state = "none" => q \notin tab /\ cur.pid # q /\ proc[q].report = "nothing")'
    BY <1>2, <1>7, <2>1 DEF ProcOK
  <2>3. proc'[q].child \in Pids => proc'[proc'[q].child].state # "none"
    BY <1>1, <1>2, <1>7, <2>1 DEF ProcOK, LoopOK, Proc
  <2>4. ASSUME NEW l \in Pids PROVE LeaderOK(q, l)'
    BY <1>2, <1>3, <2>1 DEF ProcOK, LeaderOK
  <2>5. q # p => Status(q)' = Status(q)
    BY <1>2 DEF Status
  <2>6. ProcOK(q)'
    <3>1. CASE q = p
      <4>1. new.state = "stopped" => Status(p)' # "nothing"
        BY <1>1, <1>2, <1>6 DEF Status, LoopOK
      <4> QED
        BY <1>1, <1>2, <1>3, <2>1, <2>2, <2>3, <2>4, <3>1, <4>1 DEF ProcOK
    <3>2. CASE q # p
      BY <1>2, <1>3, <2>1, <2>2, <2>3, <2>4, <2>5, <3>2 DEF ProcOK
    <3> QED
      BY <3>1, <3>2
  <2>7. CASE q # p
    <3>1. FlagsOK(q)'
      BY <1>2, <2>1, <2>5, <2>7 DEF FlagsOK, RunningOK, StoppedOK, Stops, Free, EntryStop
    <3> QED
      BY <2>6, <3>1
  <2> QED
    BY <2>6, <2>7
<1> QED
  BY <1>4, <1>6, <1>8 DEF IInv

(* The guest's steps that change one process, as OneProcStep wants them.   *)
LEMMA EnterStep ==
    ASSUME IInv, pc # "done", NEW p \in Pids, Enter(p), UNCHANGED <<seccomp_mode, tracerVars>>
    PROVE  IInv'
<1>1. PICK c \in Calls, v \in Views :
        proc' = [proc EXCEPT ![p] =
          IF seccomp_mode /\ c \notin ViewCalls
          THEN [proc[p] EXCEPT !.at = "entry", !.call = c, !.arg = v]
          ELSE Stop([proc[p] EXCEPT !.at = "entry", !.call = c, !.arg = v], "entry",
                    IF seccomp_mode THEN "seccomp" ELSE "syscall")]
  BY DEF Enter
<1>2. Running(p, "user")
  BY DEF Enter
<1> DEFINE new == IF seccomp_mode /\ c \notin ViewCalls
          THEN [proc[p] EXCEPT !.at = "entry", !.call = c, !.arg = v]
          ELSE Stop([proc[p] EXCEPT !.at = "entry", !.call = c, !.arg = v], "entry",
                    IF seccomp_mode THEN "seccomp" ELSE "syscall")
<1>3. proc[p] \in Proc /\ FlagsOK(p) /\ ProcOK(p) /\ proc \in [Pids -> Proc]
  BY DEF IInv, TypeOK
<1>4. new \in Proc
  BY <1>3 DEF Proc, States, Places, Reports, Stop
<1>5. /\ new.at = "entry" /\ new.call = c /\ new.resume = proc[p].resume
      /\ new.leader = proc[p].leader /\ new.taken = proc[p].taken /\ new.child = proc[p].child
      /\ (seccomp_mode /\ c \notin ViewCalls) => new.state = "running" /\ new.report = "nothing"
      /\ ~(seccomp_mode /\ c \notin ViewCalls) => new.state = "stopped" /\ new.report = EntryStop
  BY <1>2, <1>3 DEF Proc, Stop, Running, ProcOK, EntryStop
<1>6. proc'[p] = new
  BY <1>1, <1>3
<1> HIDE DEF new
<1>7. FlagsOK(p)'
  BY <1>2, <1>3, <1>5, <1>6 DEF FlagsOK, RunningOK, StoppedOK, tracerVars, Running, Status, Stops,
     Free, EntryStop, AsExit, Entry
<1>8. proc' = [proc EXCEPT ![p] = new]
  BY <1>1 DEF new
<1> QED
  BY <1>2, <1>4, <1>5, <1>7, <1>8, OneProcStep DEF Running, EntryStop

(* The way back from a call: what Return makes of a running process.       *)
LEMMA ReturnStep ==
    ASSUME IInv, pc # "done", NEW p \in Pids, NEW v \in Views,
           proc[p].state = "running", proc[p].at \in {"entry", "event"},
           proc' = [proc EXCEPT ![p] = Return([proc[p] EXCEPT !.view = v])],
           UNCHANGED <<seccomp_mode, tracerVars>>
    PROVE  IInv'
<1> DEFINE new == Return([proc[p] EXCEPT !.view = v])
<1>1. proc[p] \in Proc /\ FlagsOK(p) /\ ProcOK(p) /\ proc \in [Pids -> Proc]
  BY DEF IInv, TypeOK
<1>2. new \in Proc
  BY <1>1, PidsAssumption DEF Proc, States, Places, Reports, Stop, Return
<1>3. /\ new.leader = proc[p].leader /\ new.taken = proc[p].taken /\ new.child = proc[p].child
      /\ new.resume = proc[p].resume /\ new.call = proc[p].call
      /\ proc[p].resume = "SYSCALL" =>
           new.state = "stopped" /\ new.at = "exit" /\ new.report = "syscall"
      /\ proc[p].resume # "SYSCALL" =>
           new.state = "running" /\ new.at = "user" /\ new.report = "nothing"
  BY <1>1 DEF Proc, Stop, Return, ProcOK
<1>4. proc'[p] = new
  BY <1>1
<1> HIDE DEF new
<1>5. proc[p].resume \in {"CONT", "SYSCALL"}
  BY <1>1 DEF Proc
<1>6. FlagsOK(p)'
  BY <1>1, <1>3, <1>4, <1>5 DEF FlagsOK, RunningOK, StoppedOK, tracerVars, Status, Stops, Free,
     AsExit, Entry
<1>7. proc' = [proc EXCEPT ![p] = new]
  BY DEF new
<1> QED
  BY <1>2, <1>3, <1>5, <1>6, <1>7, OneProcStep

LEMMA ExecuteStep ==
    ASSUME IInv, pc # "done", NEW p \in Pids, UNCHANGED <<seccomp_mode, tracerVars>>,
           Execute(p) \/ ForkFails(p) \/ ForkReturn(p)
    PROVE  IInv'
<1>1. proc[p] \in Proc /\ proc \in [Pids -> Proc]
  BY DEF IInv, TypeOK
<1>2. CASE Execute(p)
  <2>1. proc' = [proc EXCEPT ![p] =
                   Return([proc[p] EXCEPT !.view = proc[p].arg])]
    BY <1>1, <1>2 DEF Execute, Proc
  <2> QED
    BY <1>1, <1>2, <2>1, ReturnStep DEF Execute, Running, Proc
<1>3. CASE ForkFails(p)
  <2>1. proc' = [proc EXCEPT ![p] =
                   Return([proc[p] EXCEPT !.view = proc[p].view])]
    BY <1>1, <1>3 DEF ForkFails, Proc
  <2> QED
    BY <1>1, <1>3, <2>1, ReturnStep DEF ForkFails, Running, Proc
<1>4. CASE ForkReturn(p)
  <2>1. proc' = [proc EXCEPT ![p] =
                   Return([proc[p] EXCEPT !.view = proc[p].view])]
    BY <1>1, <1>4 DEF ForkReturn, Proc
  <2> QED
    BY <1>1, <1>4, <2>1, ReturnStep DEF ForkReturn, Running, Proc
<1> QED
  BY <1>2, <1>3, <1>4

LEMMA StopStep ==
    ASSUME IInv, pc # "done", NEW p \in Pids, UNCHANGED <<seccomp_mode, tracerVars>>,
           ForkEvent(p) \/ Signal(p)
    PROVE  IInv'
<1>1. proc[p] \in Proc /\ FlagsOK(p) /\ ProcOK(p) /\ proc \in [Pids -> Proc]
  BY DEF IInv, TypeOK
<1>2. PICK place \in {"event", "user"}, s \in {"forked"} \cup SignalStops :
        /\ proc' = [proc EXCEPT ![p] = Stop(proc[p], place, s)]
        /\ proc[p].state = "running"
        /\ \/ proc[p].at = "forked" /\ place = "event" /\ s = "forked"
           \/ proc[p].at = "user" /\ place = "user" /\ s \in SignalStops
  BY DEF ForkEvent, Signal, Running
<1> DEFINE new == Stop(proc[p], place, s)
<1>3. new \in Proc
  BY <1>1, <1>2 DEF Stop, Proc, States, Places, Reports
<1>4. /\ new.leader = proc[p].leader /\ new.taken = proc[p].taken /\ new.child = proc[p].child
      /\ new.call = proc[p].call /\ new.state = "stopped" /\ new.at = place /\ new.report = s
  BY <1>1 DEF Stop, Proc
<1>5. proc'[p] = new
  BY <1>1, <1>2
<1> HIDE DEF new
<1>6. FlagsOK(p)'
  BY <1>1, <1>2, <1>4, <1>5 DEF FlagsOK, RunningOK, StoppedOK, tracerVars, Status, Stops, Free,
     AsExit, Entry
<1>7. proc' = [proc EXCEPT ![p] = new]
  BY <1>2 DEF new
<1> QED
  BY <1>2, <1>3, <1>4, <1>6, <1>7, OneProcStep DEF SignalStops

(* Deaths: of a thread, or of a set of processes with all their threads.   *)
LEMMA DeathStep ==
    ASSUME IInv, pc # "done", NEW D \in SUBSET Pids,
           \A q \in Pids : Live(q) /\ proc[q].leader \in D => q \in D,
           proc' = [q \in Pids |-> IF q \in D THEN Die(proc[q]) ELSE proc[q]],
           UNCHANGED <<seccomp_mode, tracerVars>>
    PROVE  IInv'
<1> USE PidsAssumption DEF tracerVars
<1>1. TypeOK /\ LoopOK /\ ProcOK(RootPid)
  BY DEF IInv
<1>2. ASSUME NEW q \in Pids
      PROVE  /\ proc'[q] \in Proc
             /\ (q \in D /\ Live(q)) => proc'[q].state = "zombie" /\ proc'[q].child = NoPid
             /\ ~(q \in D /\ Live(q)) => proc'[q] = proc[q]
  <2>1. proc[q] \in Proc /\ "set" \in Calls /\ InitView \in Views
    BY <1>1, CallsTyped, ViewsAssumption DEF TypeOK
  <2> QED
    BY <2>1 DEF Die, Gone, NewProc, Live, Proc, States, Places, Reports, SignalStops
<1>3. ASSUME NEW q \in Pids
      PROVE  /\ Live(q)' => Live(q) /\ q \notin D /\ proc'[q] = proc[q]
             /\ (Live(q) /\ q \notin D) => Live(q)'
             /\ (proc'[q].state = "none") <=> (proc[q].state = "none")
             /\ proc[q].state = "reaped" => proc'[q].state = "reaped"
             /\ proc'[q].state = "none" => proc'[q] = proc[q]
             /\ Entry(q)' = Entry(q) /\ AsExit(q)' = AsExit(q)
  BY <1>2 DEF Live, Entry, AsExit
<1>4. TypeOK'
  BY <1>1, <1>2 DEF TypeOK
<1>5. LoopOK'
  BY <1>1, <1>2, <1>3 DEF LoopOK, TypeOK, AnyPid, Live
<1>6. ASSUME NEW q \in Pids PROVE ProcOK(q)' /\ FlagsOK(q)'
  <2>1. ProcOK(q) /\ FlagsOK(q) /\ proc[q] \in Proc
    BY <1>1 DEF IInv, TypeOK
  <2>2. proc'[q].child \in Pids => proc'[proc'[q].child].state # "none"
    BY <1>1, <1>2, <1>3, <2>1 DEF ProcOK, LoopOK, Proc
  <2>3. ASSUME NEW l \in Pids PROVE LeaderOK(q, l)'
    BY <1>2, <1>3, <2>1 DEF ProcOK, LeaderOK
  <2>4. Live(q)' => Status(q)' = Status(q)
    BY <1>3 DEF Status
  <2>5. ProcOK(q)'
    <3>1. CASE Live(q)'
      BY <1>3, <2>1, <2>2, <2>3, <2>4, <3>1 DEF ProcOK
    <3>2. CASE ~Live(q)'
      <4>1. proc'[q].state \notin {"running", "stopped"}
        BY <3>2 DEF Live
      <4> QED
        BY <1>3, <2>1, <2>2, <2>3, <3>2, <4>1 DEF ProcOK
    <3> QED
      BY <3>1, <3>2
  <2>6. FlagsOK(q)'
    <3>1. CASE Live(q)'
      BY <1>3, <2>1, <2>4, <3>1 DEF FlagsOK, RunningOK, StoppedOK, Stops, Free, EntryStop
    <3>2. CASE ~Live(q)'
      BY <3>2 DEF FlagsOK, Live
    <3> QED
      BY <3>1, <3>2
  <2> QED
    BY <2>5, <2>6
<1> QED
  BY <1>4, <1>5, <1>6 DEF IInv

LEMMA GroupClosed ==
    ASSUME IInv, NEW p \in Pids, NEW q \in Pids, Live(q), proc[q].leader \in Group(p)
    PROVE  q \in Group(p)
<1>1. proc[q].leader \in Pids /\ ProcOK(q)
  BY DEF IInv, Group
<1>2. proc[proc[q].leader].leader = proc[q].leader
  BY <1>1 DEF ProcOK, LeaderOK
<1> QED
  BY <1>2 DEF Group, Live

LEMMA KillStep ==
    ASSUME IInv, pc # "done", NEW p \in Pids, UNCHANGED <<seccomp_mode, tracerVars>>,
           Kill(p) \/ ThreadExit(p)
    PROVE  IInv'
<1>1. CASE Kill(p)
  <2>1. Group(p) \in SUBSET Pids
    BY DEF Group
  <2>2. \A q \in Pids : Live(q) /\ proc[q].leader \in Group(p) => q \in Group(p)
    BY GroupClosed
  <2>3. proc' = [q \in Pids |-> IF q \in Group(p) THEN Die(proc[q]) ELSE proc[q]]
    BY <1>1 DEF Kill
  <2> HIDE DEF Group
  <2> QED
    BY <2>1, <2>2, <2>3, DeathStep
<1>2. CASE ThreadExit(p)
  <2>1. \A q \in Pids : Live(q) /\ proc[q].leader \in {p} => q \in {p}
    BY <1>2 DEF ThreadExit, IInv, ProcOK, LeaderOK
  <2>2. proc' = [q \in Pids |-> IF q \in {p} THEN Die(proc[q]) ELSE proc[q]]
    BY <1>2 DEF ThreadExit, IInv, TypeOK
  <2> QED
    BY <2>1, <2>2, DeathStep
<1> QED
  BY <1>1, <1>2

(* fork: the parent is between the creation and the event, the child in    *)
(* its initial stop.                                                       *)
LEMMA ForkStep ==
    ASSUME IInv, pc # "done", NEW p \in Pids, Fork(p), UNCHANGED <<seccomp_mode, tracerVars>>
    PROVE  IInv'
<1> USE PidsAssumption DEF tracerVars
<1>1. PICK c \in Pids :
        /\ proc[c].state = "none"
        /\ proc' = [proc EXCEPT
             ![p] = [proc[p] EXCEPT !.at = "forked", !.child = c],
             ![c] = NewProc(IF proc[p].call = "clone" THEN proc[p].leader ELSE c, proc[p].view)]
  BY DEF Fork
<1>2. proc[p].state = "running" /\ proc[p].at = "entry" /\ proc[p].call \in {"fork", "clone"}
  BY DEF Fork, Running
<1>3. TypeOK /\ LoopOK /\ ProcOK(p) /\ FlagsOK(p) /\ ProcOK(c) /\ proc[p] \in Proc
  BY DEF IInv, TypeOK
<1>4. c # p /\ pc # "armed"
  BY <1>1, <1>2, <1>3 DEF LoopOK
<1>5. c \notin tab /\ cur.pid # c
  BY <1>1, <1>3 DEF ProcOK
<1> DEFINE lead == IF proc[p].call = "clone" THEN proc[p].leader ELSE c
<1>6. /\ proc'[c] = NewProc(lead, proc[p].view)
      /\ proc'[p] = [proc[p] EXCEPT !.at = "forked", !.child = c]
      /\ \A q \in Pids : q \notin {p, c} => proc'[q] = proc[q]
  BY <1>1, <1>3, <1>4 DEF TypeOK
<1>7. /\ proc'[p] \in Proc /\ proc'[p].at = "forked" /\ proc'[p].child = c
      /\ proc'[p].state = "running" /\ proc'[p].report = proc[p].report
      /\ proc'[p].call = proc[p].call /\ proc'[p].resume = proc[p].resume
      /\ proc'[p].leader = proc[p].leader /\ proc'[p].taken = proc[p].taken
  BY <1>2, <1>3, <1>6 DEF Proc, Places
<1>8. /\ proc'[c] \in Proc /\ proc'[c].at = "born" /\ proc'[c].state = "stopped"
      /\ proc'[c].report = "SIGSTOP" /\ proc'[c].child = NoPid /\ proc'[c].leader = lead
  BY <1>3, <1>6, CallsTyped DEF NewProc, Proc, States, Places, Reports, SignalStops
<1> HIDE DEF lead
<1>9. TypeOK'
  BY <1>1, <1>3, <1>6, <1>7, <1>8 DEF TypeOK
<1>10. LoopOK'
  <2>1. RootPid # c
    BY <1>1, <1>3 DEF LoopOK
  <2>2. proc'[RootPid].state # "none"
    BY <1>3, <1>6, <1>7, <2>1 DEF LoopOK
  <2>3. cur.status = "exited" => cur.pid \in Pids /\ proc[cur.pid].state = "reaped"
    BY <1>3 DEF LoopOK, TypeOK, AnyPid
  <2>4. cur.status = "exited" => proc'[cur.pid] = proc[cur.pid]
    BY <1>1, <1>2, <1>6, <2>3
  <2> QED
    BY <1>3, <1>4, <2>2, <2>3, <2>4 DEF LoopOK
<1>11. ASSUME NEW q \in Pids
       PROVE  /\ q # c => (Live(q) <=> Live(q)') /\ proc'[q].leader = proc[q].leader
              /\ q # c => (proc'[q].state = "none" <=> proc[q].state = "none")
              /\ Live(q) => q # c
              /\ Entry(q)' = Entry(q) /\ AsExit(q)' = AsExit(q)
              /\ q # c => Status(q)' = Status(q)
  <2>1. Entry(q)' = Entry(q) /\ AsExit(q)' = AsExit(q)
    BY DEF Entry, AsExit
  <2>2. Live(q) => q # c
    BY <1>1 DEF Live
  <2>3. CASE q = p
    BY <1>2, <1>4, <1>7, <2>1, <2>2, <2>3 DEF Live, Status
  <2>4. CASE q \notin {p, c}
    BY <1>6, <2>1, <2>2, <2>4 DEF Live, Status
  <2> QED
    BY <2>1, <2>2, <2>3, <2>4
<1>12. ASSUME NEW q \in Pids, NEW l \in Pids PROVE LeaderOK(q, l)'
  <2>1. CASE q # c
    <3>1. LeaderOK(q, l)
      BY DEF IInv, ProcOK
    <3> QED
      BY <1>6, <1>7, <1>11, <2>1, <3>1 DEF LeaderOK
  <2>2. CASE q = c /\ proc[p].call = "clone"
    <3>1. LeaderOK(p, l)
      BY DEF IInv, ProcOK
    <3>2. lead = proc[p].leader /\ Live(p)
      BY <1>2, <2>2 DEF lead, Live
    <3>3. SUFFICES ASSUME l = lead
                   PROVE  Live(l)' /\ proc'[l].leader = l /\ (l # c => proc'[l].at # "born")
      BY <1>8, <2>2 DEF LeaderOK
    <3>4. Live(l) /\ proc[l].leader = l /\ (l # p => proc[l].at # "born") /\ l # c
      BY <1>11, <3>1, <3>2, <3>3 DEF LeaderOK
    <3>5. proc'[l].at # "born"
      BY <1>6, <1>7, <3>4
    <3> QED
      BY <1>11, <3>4, <3>5
  <2>3. CASE q = c /\ proc[p].call # "clone"
    BY <1>8, <2>3 DEF LeaderOK, Live, lead
  <2> QED
    BY <2>1, <2>2, <2>3
<1>13. ASSUME NEW q \in Pids PROVE ProcOK(q)' /\ FlagsOK(q)'
  <2>1. ProcOK(q) /\ FlagsOK(q) /\ proc[q] \in Proc
    BY <1>3 DEF IInv, TypeOK
  <2>2. proc'[q].child \in Pids => proc'[proc'[q].child].state # "none"
    <3>1. proc'[q].child \in Pids \cup {NoPid} /\ (q = c => proc'[q].child = NoPid)
      BY <1>7, <1>8, <1>9 DEF TypeOK, Proc
    <3>2. \A r \in Pids : proc[r].state # "none" \/ r = c => proc'[r].state # "none"
      BY <1>8, <1>11
    <3>3. q \notin {p, c} => proc'[q].child = proc[q].child
      BY <1>6
    <3> QED
      BY <1>3, <1>7, <2>1, <3>1, <3>2, <3>3 DEF ProcOK, LoopOK
  <2>3. CASE q = c
    <3>1. Entry(c).fresh /\ ~AsExit(c) /\ Status(c)' = "SIGSTOP" /\ Live(c)'
      BY <1>5, <1>8 DEF Entry, tracee_add, AsExit, Status, Live
    <3>2. ProcOK(c)'
      BY <1>5, <1>8, <1>11, <1>12, <2>2, <2>3, <3>1 DEF ProcOK
    <3>3. FlagsOK(c)'
      BY <1>5, <1>8, <1>11, <3>1 DEF FlagsOK, StoppedOK
    <3> QED
      BY <2>3, <3>2, <3>3
  <2>4. CASE q = p
    <3>1. ProcOK(p)'
      BY <1>2, <1>3, <1>4, <1>7, <1>11, <1>12, <2>2, <2>4 DEF ProcOK, Live
    <3>2. FlagsOK(p)'
      BY <1>2, <1>3, <1>4, <1>7, <1>11 DEF FlagsOK, RunningOK, Stops, ViewCalls
    <3> QED
      BY <2>4, <3>1, <3>2
  <2>5. CASE q # p /\ q # c
    <3>1. proc'[q] = proc[q]
      BY <1>6, <2>5
    <3>2. ProcOK(q)'
      BY <1>11, <1>12, <2>1, <2>2, <2>5, <3>1 DEF ProcOK
    <3>3. FlagsOK(q)'
      BY <1>11, <2>1, <2>5, <3>1 DEF FlagsOK, RunningOK, StoppedOK, Stops, Free, EntryStop
    <3> QED
      BY <3>2, <3>3
  <2> QED
    BY <2>3, <2>4, <2>5
<1> QED
  BY <1>9, <1>10, <1>13 DEF IInv

(* execve: the leader's pid goes on as the process that made the call, the *)
(* other threads are gone.                                                 *)
LEMMA ExecStep ==
    ASSUME IInv, pc # "done", NEW p \in Pids, Exec(p), UNCHANGED <<seccomp_mode, tracerVars>>
    PROVE  IInv'
<1> USE PidsAssumption DEF tracerVars
<1> DEFINE l == proc[p].leader
           new == [proc[p] EXCEPT !.view = proc[p].arg, !.taken = (p # l) \/ proc[p].taken]
<1>1. proc[p].state = "running" /\ proc[p].at = "entry" /\ proc[p].call = "exec"
  BY DEF Exec, Running
<1>2. proc' = [q \in Pids |-> IF q = l THEN Return(new)
                              ELSE IF q = p THEN Gone(proc[q], "reaped", "nothing")
                              ELSE IF q \in Group(p) THEN Die(proc[q])
                              ELSE proc[q]]
  BY DEF Exec
<1>3. TypeOK /\ LoopOK /\ ProcOK(p) /\ FlagsOK(p) /\ proc[p] \in Proc /\ l \in Pids
  BY DEF IInv, TypeOK, Proc
<1>4. /\ ProcOK(l) /\ Live(l) /\ proc[l].leader = l /\ proc[l].at # "born" /\ pc # "armed"
      /\ l \in tab /\ ~tr[l].fresh
  <2>1. Live(p) /\ ProcOK(l) /\ LeaderOK(p, l)
    BY <1>1, <1>3 DEF Live, IInv, ProcOK
  <2>2. Live(l) /\ proc[l].leader = l /\ proc[l].at # "born"
    BY <1>1, <2>1 DEF LeaderOK
  <2>3. pc # "armed"
    BY <1>1, <1>3 DEF LoopOK
  <2> QED
    BY <2>1, <2>2, <2>3 DEF ProcOK
<1>5. /\ proc'[l] \in Proc /\ proc'[l].leader = l /\ proc'[l].child = proc[p].child
      /\ proc'[l].state \in {"running", "stopped"} /\ proc'[l].at \in {"user", "exit"}
      /\ proc'[l].report \in {"nothing", "syscall"}
      /\ proc'[l].state = "running" => proc'[l].report = "nothing"
      /\ proc'[l].state = "stopped" => proc'[l].report = "syscall"
      /\ proc'[l].taken = ((p # l) \/ proc[p].taken)
      /\ proc[p].resume = "SYSCALL" =>
           proc'[l].state = "stopped" /\ proc'[l].at = "exit" /\ proc'[l].report = "syscall"
  <2>1. proc'[l] = Return(new)
    BY <1>2, <1>3
  <2>2. proc[p].report = "nothing"
    BY <1>1, <1>3 DEF ProcOK
  <2> QED
    BY <1>1, <1>3, <2>1, <2>2, ZenonT(30) DEF Return, Stop, Proc, States, Places, Reports
<1>6. ASSUME NEW q \in Pids, q # l
      PROVE  /\ proc'[q] \in Proc
             /\ Live(q)' => proc'[q] = proc[q] /\ q # p /\ q \notin Group(p)
             /\ proc'[q] = proc[q] \/ (Live(q) /\ proc'[q].state \in {"zombie", "reaped"}
                                               /\ proc'[q].child = NoPid)
             /\ (q # p /\ q \notin Group(p)) => proc'[q] = proc[q]
  <2>1. proc[q] \in Proc /\ "set" \in Calls /\ InitView \in Views
    BY <1>3, CallsTyped, ViewsAssumption DEF TypeOK
  <2>2. Live(p) /\ (q # p /\ q \notin Group(p) => proc'[q] = proc[q])
    BY <1>1, <1>2, <1>6 DEF Live
  <2>3. /\ q = p => proc'[q] = Gone(proc[q], "reaped", "nothing")
        /\ (q # p /\ q \in Group(p)) => proc'[q] = Die(proc[q])
    BY <1>2, <1>6
  <2>4. /\ Die(proc[q]) \in Proc
        /\ Live(q) => Die(proc[q]).state = "zombie" /\ Die(proc[q]).child = NoPid
        /\ ~Live(q) => Die(proc[q]) = proc[q]
    BY <2>1, ZenonT(30) DEF Die, Gone, NewProc, Live, Proc, States, Places, Reports, SignalStops
  <2>5. /\ Gone(proc[q], "reaped", "nothing") \in Proc
        /\ Gone(proc[q], "reaped", "nothing").state = "reaped"
        /\ Gone(proc[q], "reaped", "nothing").child = NoPid
    BY <2>1 DEF Gone, NewProc, Proc, States, Places, Reports, SignalStops
  <2>6. CASE q = p
    BY <2>2, <2>3, <2>5, <2>6 DEF Live
  <2>7. CASE q # p /\ q \in Group(p)
    <3>1. proc'[q] = Die(proc[q])
      BY <2>3, <2>7
    <3>2. ~Live(q)'
      BY <2>4, <3>1 DEF Live
    <3> QED
      BY <2>4, <2>7, <3>1, <3>2
  <2>8. CASE q # p /\ q \notin Group(p)
    BY <2>1, <2>2, <2>8
  <2> QED
    BY <2>6, <2>7, <2>8
<1> HIDE DEF l, new
<1>7. TypeOK'
  <2>1. proc' \in [Pids -> Proc]
    BY <1>2, <1>3, <1>5, <1>6
  <2> QED
    BY <1>3, <2>1 DEF TypeOK
<1>8. ASSUME NEW q \in Pids
      PROVE  /\ (proc'[q].state = "none") <=> (proc[q].state = "none")
             /\ proc[q].state = "reaped" => proc'[q].state = "reaped"
             /\ Entry(q)' = Entry(q) /\ AsExit(q)' = AsExit(q)
  BY <1>4, <1>5, <1>6 DEF Live, Entry, AsExit
<1>9. LoopOK'
  BY <1>3, <1>4, <1>8 DEF LoopOK, TypeOK, AnyPid
<1>10. ASSUME NEW q \in Pids, NEW m \in Pids PROVE LeaderOK(q, m)'
  <2>1. CASE q = l
    BY <1>5, <2>1 DEF LeaderOK, Live
  <2>2. CASE q # l
    <3>1. SUFFICES ASSUME Live(q)', proc'[q].leader = m
                   PROVE  Live(m)' /\ proc'[m].leader = m /\ (m # q => proc'[m].at # "born")
      BY DEF LeaderOK
    <3>2. proc'[q] = proc[q] /\ q # p /\ q \notin Group(p) /\ LeaderOK(q, m)
      BY <1>6, <2>2, <3>1 DEF IInv, ProcOK
    <3>3. Live(q) /\ Live(m) /\ proc[m].leader = m /\ (m # q => proc[m].at # "born")
      BY <3>1, <3>2 DEF LeaderOK, Live
    <3>4. m # l
      BY <3>1, <3>2, <3>3 DEF Group, Live, l
    <3>5. m # p /\ m \notin Group(p)
      BY <3>3, <3>4 DEF Group, l
    <3>6. proc'[m] = proc[m]
      BY <1>6, <3>4, <3>5
    <3> QED
      BY <3>3, <3>6 DEF Live
  <2> QED
    BY <2>1, <2>2
<1>11. ASSUME NEW q \in Pids PROVE ProcOK(q)'
  <2>1. ProcOK(q) /\ proc[q] \in Proc
    BY <1>3 DEF IInv, TypeOK
  <2>2. proc'[q].child \in Pids => proc'[proc'[q].child].state # "none"
    <3>1. proc'[q].child \in {proc[q].child, proc[p].child, NoPid}
      BY <1>5, <1>6
    <3>2. proc'[q].child \in Pids => proc[proc'[q].child].state # "none"
      BY <1>3, <2>1, <3>1 DEF ProcOK, LoopOK, Proc
    <3> QED
      BY <1>8, <3>2
  <2>3. CASE q = l
    <3>1. proc'[q].state = "stopped" => Status(q)' # "nothing"
      BY <1>3, <1>5, <2>3 DEF Status, LoopOK
    <3> QED
      BY <1>4, <1>5, <1>8, <1>10, <2>2, <2>3, <3>1 DEF ProcOK, Live
  <2>4. CASE q # l /\ Live(q)'
    <3>1. proc'[q] = proc[q] /\ Live(q) /\ Status(q)' = Status(q)
      BY <1>6, <2>4 DEF Live, Status
    <3> QED
      BY <1>8, <1>10, <2>1, <2>2, <2>4, <3>1 DEF ProcOK
  <2>5. CASE q # l /\ ~Live(q)'
    <3>1. proc'[q].state \notin {"running", "stopped"} /\ (proc'[q].state = "none" => proc'[q] = proc[q])
      BY <1>6, <2>5 DEF Live
    <3> QED
      BY <1>8, <1>10, <2>1, <2>2, <2>5, <3>1 DEF ProcOK
  <2> QED
    BY <2>3, <2>4, <2>5
<1>12. ASSUME NEW q \in Pids PROVE FlagsOK(q)'
  <2>1. FlagsOK(q)
    BY DEF IInv
  <2>2. CASE q = l /\ proc'[l].taken
    BY <2>2 DEF FlagsOK
  <2>3. CASE q = l /\ ~proc'[l].taken
    <3>1. p = l /\ ~proc[p].taken
      BY <1>3, <1>5, <2>3 DEF Proc
    <3>2. RunningOK(p)
      BY <1>1, <1>3, <3>1 DEF FlagsOK
    <3>3. Stops(p) /\ AsExit(p) /\ proc[p].resume = "SYSCALL" /\ cur.pid # p
      BY <1>1, <3>2 DEF RunningOK, Stops, ViewCalls
    <3> QED
      BY <1>5, <1>8, <2>3, <3>1, <3>3 DEF FlagsOK, StoppedOK, Status
  <2>4. CASE q # l /\ Live(q)'
    <3>1. proc'[q] = proc[q] /\ Live(q) /\ Status(q)' = Status(q)
      BY <1>6, <2>4 DEF Live, Status
    <3> QED
      BY <1>8, <2>1, <2>4, <3>1 DEF FlagsOK, RunningOK, StoppedOK, Stops, Free, EntryStop
  <2>5. CASE q # l /\ ~Live(q)'
    BY <2>5 DEF FlagsOK, Live
  <2> QED
    BY <2>2, <2>3, <2>4, <2>5
<1> QED
  BY <1>7, <1>9, <1>11, <1>12 DEF IInv

LEMMA GuestPreserves ==
    ASSUME IInv, NEW p \in Pids, GuestRuns(p)
    PROVE  IInv'
BY EnterStep, ExecuteStep, StopStep, KillStep, ForkStep, ExecStep DEF GuestRuns, GuestStep

-----------------------------------------------------------------------------
(* The tracer's steps that touch neither the guest nor the table: a status *)
(* is dropped only on the way out, or where there is no entry for it.      *)
LEMMA LoopStep ==
    ASSUME IInv, UNCHANGED <<proc, seccomp_mode, tab, tr, origin>>, pc \notin {"cleanup", "done"},
           pc' \in {"armed", "top", "wait", "got", "cleanup"}, pc' = "armed" <=> pc = "armed",
           cur' = cur \/ cur' = Nothing, cur'.pid \in Pids => pc' = "got",
           pc' # "cleanup" => cur' = cur \/ cur.pid \notin tab,
           stop_signal' \in BOOLEAN, rc' \in {"none", "status", "signal"}
    PROVE  IInv'
<1> USE PidsAssumption DEF Nothing
<1>1. TypeOK /\ LoopOK
  BY DEF IInv
<1>2. TypeOK'
  BY <1>1 DEF TypeOK, AnyPid, Reports
<1>3. LoopOK'
  BY <1>1, <1>2 DEF LoopOK, TypeOK, AnyPid
<1>4. ASSUME NEW q \in Pids PROVE ProcOK(q)' /\ FlagsOK(q)'
  <2>1. /\ ProcOK(q) /\ FlagsOK(q) /\ Entry(q)' = Entry(q) /\ AsExit(q)' = AsExit(q)
        /\ Live(q)' = Live(q)
    BY DEF IInv, Entry, AsExit, Live
  <2>2. \A l \in Pids : LeaderOK(q, l)'
    BY <2>1 DEF ProcOK, LeaderOK, Live
  <2>3. Status(q)' = Status(q) \/ (cur.pid = q /\ Status(q)' = proc[q].report /\ cur' = Nothing)
    BY DEF Status
  <2>4. (pc' # "cleanup" /\ proc[q].state = "stopped" /\ proc[q].at # "born" /\ pc # "armed")
          => Status(q)' = Status(q)
    <3>1. (pc # "armed" /\ proc[q].state = "stopped" /\ proc[q].at # "born") => q \in tab
      BY <2>1 DEF ProcOK, Live
    <3> QED
      BY <3>1 DEF Status
  <2>5. ProcOK(q)'
    BY <2>1, <2>2, <2>3, <2>4 DEF ProcOK
  <2>6. FlagsOK(q)'
    <3>1. SUFFICES ASSUME ~proc[q].taken
                   PROVE  /\ proc[q].state = "running" => RunningOK(q)'
                          /\ (proc[q].state = "stopped" /\ pc' # "cleanup") => StoppedOK(q)'
      BY DEF FlagsOK
    <3>2. proc[q].state = "running" => RunningOK(q)'
      BY <2>1, <3>1 DEF FlagsOK, RunningOK, Stops, Free
    <3>3. ASSUME proc[q].state = "stopped", pc' # "cleanup" PROVE StoppedOK(q)'
      <4>1. StoppedOK(q)
        BY <2>1, <3>1, <3>3 DEF FlagsOK
      <4>2. CASE cur' = cur
        BY <2>1, <4>1, <4>2 DEF StoppedOK, Stops, EntryStop, Status
      <4>3. CASE cur' = Nothing /\ cur.pid # q
        BY <2>1, <4>1, <4>3 DEF StoppedOK, Stops, EntryStop, Status
      <4>4. CASE cur' = Nothing /\ cur.pid = q /\ cur # cur'
        <5>1. q \notin tab /\ pc = "got" /\ Live(q)
          BY <1>1, <3>3, <4>4 DEF LoopOK, Live
        <5>2. proc[q].at = "born"
          BY <2>1, <5>1 DEF ProcOK
        <5> QED
          BY <2>1, <4>1, <4>4, <5>2 DEF StoppedOK
      <4> QED
        BY <4>2, <4>3, <4>4
    <3> QED
      BY <3>2, <3>3
  <2> QED
    BY <2>5, <2>6
<1> QED
  BY <1>2, <1>3, <1>4 DEF IInv

LEMMA LoopSteps ==
    ASSUME IInv,
           Block \/ WaitInterrupted \/ WaitAgain \/ StopSignal \/ CheckStop \/ OutOfMemory \/ RootDies
    PROVE  IInv'
<1>1. TypeOK /\ LoopOK /\ PidsAssumption
  BY PidsAssumption DEF IInv
<1>2. cur \in [pid : AnyPid, status : Reports] /\ stop_signal \in BOOLEAN
      /\ rc \in {"none", "status", "signal"}
      /\ pc \in {"armed", "top", "wait", "got", "cleanup", "done"}
  BY <1>1 DEF TypeOK
<1>3. pc # "got" => cur = Nothing
  BY <1>1, <1>2 DEF LoopOK, AnyPid, Nothing
<1> USE DEF kernelVars
<1>4. CASE Block
  BY <1>1, <1>2, <1>3, <1>4, LoopStep DEF Block, Nothing, PidsAssumption
<1>5. CASE WaitInterrupted
  BY <1>1, <1>2, <1>3, <1>5, LoopStep DEF WaitInterrupted
<1>6. CASE WaitAgain
  BY <1>1, <1>2, <1>6, LoopStep DEF WaitAgain, Nothing, PidsAssumption
<1>7. CASE StopSignal
  <2>1. cur'.pid \in Pids => pc' = "got"
    BY <1>1, <1>2, <1>3, <1>7 DEF StopSignal, Nothing, PidsAssumption
  <2>2. cur' = cur \/ cur' = Nothing
    BY <1>7 DEF StopSignal
  <2>3. pc' # "cleanup" => cur' = cur \/ cur.pid \notin tab
    BY <1>3, <1>7 DEF StopSignal
  <2> QED
    BY <1>2, <1>7, <2>1, <2>2, <2>3, LoopStep DEF StopSignal
<1>8. CASE CheckStop
  BY <1>1, <1>2, <1>8, LoopStep DEF CheckStop, Nothing, PidsAssumption
<1>9. CASE OutOfMemory
  BY <1>1, <1>2, <1>9, LoopStep DEF OutOfMemory, Known, Nothing, PidsAssumption
<1>10. CASE RootDies
  BY <1>1, <1>2, <1>10, LoopStep DEF RootDies, Got, Nothing, PidsAssumption
<1> QED
  BY <1>4, <1>5, <1>6, <1>7, <1>8, <1>9, <1>10

LEMMA WaitStep ==
    ASSUME IInv, NEW p \in Pids, WaitReturns(p)
    PROVE  IInv'
<1> USE PidsAssumption
<1>1. /\ pc = "wait" /\ pc' = "got" /\ cur' = [pid |-> p, status |-> proc[p].report]
      /\ proc' = [proc EXCEPT ![p] = Collected(p)] /\ proc[p].report # "nothing"
      /\ UNCHANGED <<seccomp_mode, tab, tr, stop_signal, rc, origin>>
  BY DEF WaitReturns, Reportable
<1>2. TypeOK /\ LoopOK /\ ProcOK(p) /\ FlagsOK(p) /\ proc[p] \in Proc /\ cur.pid = NoPid
  BY <1>1 DEF IInv, TypeOK, LoopOK, AnyPid
<1>3. proc[p].state \notin {"none", "running"}
  BY <1>1, <1>2 DEF ProcOK
<1>4. proc'[p] = Collected(p) /\ \A q \in Pids \ {p} : proc'[q] = proc[q]
  BY <1>1, <1>2 DEF TypeOK
<1>5. CASE proc[p].report = "exited"
  <2>1. ~Live(p)
    BY <1>2, <1>5 DEF ProcOK
  <2>2. proc'[p] \in Proc /\ proc'[p].state = "reaped" /\ proc'[p].child = NoPid
    <3>1. "set" \in Calls /\ InitView \in Views /\ proc'[p] = Gone(proc[p], "reaped", "nothing")
      BY <1>4, <1>5, CallsTyped, ViewsAssumption DEF Collected
    <3> QED
      BY <1>2, <3>1, ZenonT(30) DEF Gone, NewProc, Proc, States, Places, Reports, SignalStops
  <2>3. \A q \in Pids : Live(q)' = Live(q) /\ (proc'[q].state = "none" <=> proc[q].state = "none")
    BY <1>3, <1>4, <2>1, <2>2 DEF Live
  <2>4. TypeOK'
    BY <1>1, <1>2, <2>2 DEF TypeOK, AnyPid, Proc
  <2>5. LoopOK'
    BY <1>1, <1>2, <1>4, <1>5, <2>2, <2>3 DEF LoopOK
  <2>6. ASSUME NEW q \in Pids PROVE ProcOK(q)' /\ FlagsOK(q)'
    <3>1. /\ ProcOK(q) /\ FlagsOK(q) /\ Entry(q)' = Entry(q) /\ AsExit(q)' = AsExit(q)
          /\ proc[q] \in Proc
      BY <1>1, <1>2 DEF IInv, Entry, AsExit, TypeOK
    <3>2. proc'[q].child \in Pids => proc'[proc'[q].child].state # "none"
      BY <1>2, <1>4, <2>2, <2>3, <3>1 DEF ProcOK, LoopOK, Proc
    <3>3. ASSUME NEW l \in Pids PROVE LeaderOK(q, l)'
      BY <1>4, <2>1, <2>3, <3>1 DEF ProcOK, LeaderOK
    <3>4. CASE q = p
      BY <2>1, <2>2, <2>3, <3>2, <3>3, <3>4 DEF ProcOK, FlagsOK
    <3>5. CASE q # p
      <4>1. Status(q)' = Status(q) /\ proc'[q] = proc[q]
        BY <1>1, <1>2, <1>4, <3>5 DEF Status
      <4>2. ProcOK(q)'
        BY <1>1, <2>3, <3>1, <3>2, <3>3, <3>5, <4>1 DEF ProcOK
      <4>3. FlagsOK(q)'
        BY <1>1, <1>2, <3>1, <3>5, <4>1 DEF FlagsOK, RunningOK, StoppedOK, Stops, Free, EntryStop
      <4> QED
        BY <4>2, <4>3
    <3> QED
      BY <3>4, <3>5
  <2> QED
    BY <2>4, <2>5, <2>6 DEF IInv
<1>6. CASE proc[p].report # "exited"
  <2>1. proc'[p] = [proc[p] EXCEPT !.report = "nothing"]
    BY <1>4, <1>6 DEF Collected
  <2>2. /\ proc'[p] \in Proc /\ proc'[p].report = "nothing"
        /\ proc'[p].state = proc[p].state /\ proc'[p].at = proc[p].at /\ proc'[p].call = proc[p].call
        /\ proc'[p].child = proc[p].child /\ proc'[p].leader = proc[p].leader
        /\ proc'[p].taken = proc[p].taken
    BY <1>2, <2>1 DEF Proc, Reports
  <2>3. \A q \in Pids : Live(q)' = Live(q) /\ proc'[q].state = proc[q].state
    BY <1>4, <2>2 DEF Live
  <2>4. TypeOK'
    BY <1>1, <1>2, <2>2 DEF TypeOK, AnyPid, Proc
  <2>5. LoopOK'
    BY <1>1, <1>2, <1>6, <2>3 DEF LoopOK
  <2>6. ASSUME NEW q \in Pids PROVE ProcOK(q)' /\ FlagsOK(q)'
    <3>1. /\ ProcOK(q) /\ FlagsOK(q) /\ Entry(q)' = Entry(q) /\ AsExit(q)' = AsExit(q)
          /\ proc[q] \in Proc
      BY <1>1, <1>2 DEF IInv, Entry, AsExit, TypeOK
    <3>2. proc'[q].child \in Pids => proc'[proc'[q].child].state # "none"
      BY <1>4, <2>2, <2>3, <3>1 DEF ProcOK, Proc
    <3>3. ASSUME NEW l \in Pids PROVE LeaderOK(q, l)'
      BY <1>4, <2>2, <2>3, <3>1 DEF ProcOK, LeaderOK
    <3>4. Status(q)' = Status(q)
      BY <1>1, <1>2, <1>4 DEF Status
    <3>5. CASE q = p
      <4>1. ProcOK(p)'
        BY <1>1, <1>2, <1>3, <2>2, <2>3, <3>1, <3>2, <3>3, <3>4, <3>5 DEF ProcOK
      <4>2. FlagsOK(p)'
        BY <1>1, <1>2, <1>3, <2>2, <3>1, <3>4, <3>5 DEF FlagsOK, StoppedOK, Stops, EntryStop
      <4> QED
        BY <3>5, <4>1, <4>2
    <3>6. CASE q # p
      <4>1. proc'[q] = proc[q]
        BY <1>4, <3>6
      <4>2. ProcOK(q)'
        BY <1>1, <2>3, <3>1, <3>2, <3>3, <3>4, <3>6, <4>1 DEF ProcOK
      <4>3. FlagsOK(q)'
        BY <1>1, <1>2, <3>1, <3>4, <3>6, <4>1
           DEF FlagsOK, RunningOK, StoppedOK, Stops, Free, EntryStop
      <4> QED
        BY <4>2, <4>3
    <3> QED
      BY <3>5, <3>6
  <2> QED
    BY <2>4, <2>5, <2>6 DEF IInv
<1> QED
  BY <1>5, <1>6

LEMMA DiesStep ==
    ASSUME IInv, NEW p \in Pids, TraceeDies(p)
    PROVE  IInv'
<1> USE PidsAssumption
<1>1. /\ pc = "got" /\ cur = [pid |-> p, status |-> "exited"] /\ pc' = "top" /\ cur' = Nothing
      /\ tab' = tab \ {p} /\ tr' = [tr EXCEPT ![p] = tracee_add(InitView)]
      /\ origin' = [origin EXCEPT ![p] = "copy"]
      /\ UNCHANGED <<proc, seccomp_mode, stop_signal, rc>> /\ p # RootPid
  BY DEF TraceeDies, Got, kernelVars
<1>2. TypeOK /\ LoopOK
  BY DEF IInv
<1>3. proc[p].state = "reaped"
  BY <1>1, <1>2 DEF LoopOK
<1>4. TypeOK'
  BY <1>1, <1>2, ViewsAssumption DEF TypeOK, AnyPid, Tracee, tracee_add, Nothing, Reports, Origins
<1>5. LoopOK'
  BY <1>1, <1>2 DEF LoopOK, Nothing
<1>6. ASSUME NEW q \in Pids PROVE ProcOK(q)' /\ FlagsOK(q)'
  <2>1. ProcOK(q) /\ FlagsOK(q) /\ Live(q)' = Live(q) /\ \A l \in Pids : LeaderOK(q, l)'
    BY <1>1 DEF IInv, Live, ProcOK, LeaderOK
  <2>2. CASE q = p
    BY <1>1, <1>3, <2>1, <2>2 DEF ProcOK, FlagsOK, Live
  <2>3. CASE q # p
    <3>1. /\ Entry(q)' = Entry(q) /\ AsExit(q)' = AsExit(q) /\ Status(q)' = Status(q)
          /\ cur'.pid # q /\ cur.pid # q /\ (q \in tab' <=> q \in tab) /\ tr'[q] = tr[q]
      BY <1>1, <1>2, <2>3 DEF Entry, AsExit, Status, Nothing, TypeOK, AnyPid
    <3>2. ProcOK(q)'
      BY <1>1, <2>1, <3>1 DEF ProcOK
    <3>3. FlagsOK(q)'
      BY <1>1, <2>1, <3>1 DEF FlagsOK, RunningOK, StoppedOK, Stops, Free, EntryStop
    <3> QED
      BY <3>2, <3>3
  <2> QED
    BY <2>2, <2>3
<1> QED
  BY <1>4, <1>5, <1>6 DEF IInv

(* The final loop: whoever has run has an entry, and is killed.            *)
LEMMA CleanupStep ==
    ASSUME IInv, Cleanup
    PROVE  IInv'
<1> USE PidsAssumption
<1> DEFINE D == {p \in Pids : \E q \in tab \cap Pids : p \in Group(q)}
<1>1. /\ pc = "cleanup" /\ pc' = "done" /\ tab' = {}
      /\ UNCHANGED <<seccomp_mode, cur, tr, stop_signal, rc, origin>>
      /\ proc' = [p \in Pids |-> IF p \in D THEN Die(proc[p]) ELSE proc[p]]
  BY DEF Cleanup
<1>2. TypeOK /\ LoopOK /\ cur.pid = NoPid
  BY <1>1 DEF IInv, TypeOK, LoopOK, AnyPid
<1>3. \A q \in Pids : Live(q) /\ proc[q].leader \in D => q \in D
  BY GroupClosed
<1>4. ASSUME NEW q \in Pids PROVE Live(q) /\ proc[q].at # "born" => q \in D
  <2>1. ProcOK(q)
    BY DEF IInv
  <2> QED
    BY <1>1, <2>1 DEF ProcOK, Group, Live
<1> HIDE DEF D
<1>5. ASSUME NEW q \in Pids
      PROVE  /\ proc'[q] \in Proc
             /\ (q \in D /\ Live(q)) => proc'[q].state = "zombie" /\ proc'[q].child = NoPid
             /\ ~(q \in D /\ Live(q)) => proc'[q] = proc[q]
  <2>1. proc[q] \in Proc /\ "set" \in Calls /\ InitView \in Views
    BY <1>2, CallsTyped, ViewsAssumption DEF TypeOK
  <2> QED
    BY <1>1, <2>1 DEF Die, Gone, NewProc, Live, Proc, States, Places, Reports, SignalStops
<1>6. ASSUME NEW q \in Pids
      PROVE  /\ Live(q)' => Live(q) /\ q \notin D /\ proc'[q] = proc[q]
             /\ (Live(q) /\ q \notin D) => Live(q)'
             /\ (proc'[q].state = "none") <=> (proc[q].state = "none")
             /\ proc'[q].state = "none" => proc'[q] = proc[q]
  BY <1>5 DEF Live
<1>7. TypeOK'
  BY <1>1, <1>2, <1>5 DEF TypeOK
<1>8. LoopOK'
  BY <1>1, <1>2, <1>6 DEF LoopOK
<1>9. ASSUME NEW q \in Pids PROVE ProcOK(q)'
  <2>1. ProcOK(q) /\ proc[q] \in Proc
    BY <1>2 DEF IInv, TypeOK
  <2>2. proc'[q].child \in Pids => proc'[proc'[q].child].state # "none"
    BY <1>2, <1>5, <1>6, <2>1 DEF ProcOK, LoopOK, Proc
  <2>3. ASSUME NEW l \in Pids PROVE LeaderOK(q, l)'
    BY <1>3, <1>5, <1>6, <2>1 DEF ProcOK, LeaderOK
  <2>4. Entry(q)'.fresh
    BY <1>1 DEF Entry, tracee_add
  <2>5. CASE Live(q)'
    <3>1. Status(q)' = Status(q) /\ proc[q].at = "born" /\ proc'[q] = proc[q]
      BY <1>1, <1>4, <1>6, <2>5 DEF Status
    <3> QED
      BY <1>1, <1>6, <2>1, <2>2, <2>3, <2>4, <2>5, <3>1 DEF ProcOK
  <2>6. CASE ~Live(q)'
    <3>1. proc'[q].state # "running"
      BY <2>6 DEF Live
    <3> QED
      BY <1>1, <1>6, <2>1, <2>2, <2>3, <2>6, <3>1 DEF ProcOK
  <2> QED
    BY <2>5, <2>6
<1>10. ASSUME NEW q \in Pids PROVE FlagsOK(q)'
  BY <1>1 DEF FlagsOK
<1> QED
  BY <1>7, <1>8, <1>9, <1>10 DEF IInv

-----------------------------------------------------------------------------
(* Handling a stop.  t is the entry the handler leaves to p; it must fit    *)
(* where p goes on from.                                                    *)
ExitFlag(t) == IF seccomp_mode THEN t.awaiting_exit ELSE t.in_syscall
SameFlags(t, u) ==
    /\ t.fresh = u.fresh
    /\ t.in_syscall = u.in_syscall
    /\ t.awaiting_exit = u.awaiting_exit
Fits(p, t) ==
    /\ Live(p) => ~t.fresh
    /\ (proc[p].state = "stopped" /\ ~proc[p].taken) =>
         /\ proc[p].at \in {"born", "user", "exit"} => ~ExitFlag(t)
         /\ proc[p].at = "entry" => ExitFlag(t)
         /\ proc[p].at = "event" => (ExitFlag(t) <=> Stops(p))

LEMMA ResumedFacts ==
    ASSUME NEW p \in Pids, NEW how \in {"CONT", "SYSCALL"}, proc \in [Pids -> Proc],
           proc' = Resumed(p, how)
    PROVE  /\ proc' \in [Pids -> Proc]
           /\ \A q \in Pids \ {p} : proc'[q] = proc[q]
           /\ proc[p].state # "stopped" => proc' = proc
           /\ proc'[p].leader = proc[p].leader /\ proc'[p].taken = proc[p].taken
           /\ proc'[p].child = proc[p].child
           /\ proc[p].state = "stopped" =>
                /\ proc'[p].state = "running" /\ proc'[p].report = "nothing" /\ proc'[p].resume = how
                /\ proc[p].at \in {"born", "exit"} => proc'[p].at = "user"
                /\ proc[p].at \notin {"born", "exit"} =>
                     proc'[p].at = proc[p].at /\ proc'[p].call = proc[p].call
<1>1. proc[p] \in Proc /\ "set" \in Calls /\ InitView \in Views
  BY CallsTyped, ViewsAssumption
<1>2. CASE proc[p].state # "stopped"
  BY <1>2 DEF Resumed
<1>3. CASE proc[p].state = "stopped" /\ proc[p].at \in {"born", "exit"}
  <2> DEFINE new == [proc[p] EXCEPT !.state = "running", !.report = "nothing", !.resume = how,
                                    !.at = "user", !.call = "set", !.arg = InitView]
  <2>1. proc' = [proc EXCEPT ![p] = new]
    BY <1>3 DEF Resumed
  <2>2. /\ new \in Proc /\ new.leader = proc[p].leader /\ new.taken = proc[p].taken
        /\ new.child = proc[p].child /\ new.state = "running" /\ new.report = "nothing"
        /\ new.resume = how /\ new.at = "user"
    BY <1>1 DEF Proc, States, Places, Reports
  <2> HIDE DEF new
  <2> QED
    BY <1>3, <2>1, <2>2
<1>4. CASE proc[p].state = "stopped" /\ proc[p].at \notin {"born", "exit"}
  <2> DEFINE new == [proc[p] EXCEPT !.state = "running", !.report = "nothing", !.resume = how]
  <2>1. proc' = [proc EXCEPT ![p] = new]
    BY <1>4 DEF Resumed
  <2>2. /\ new \in Proc /\ new.leader = proc[p].leader /\ new.taken = proc[p].taken
        /\ new.child = proc[p].child /\ new.state = "running" /\ new.report = "nothing"
        /\ new.resume = how /\ new.at = proc[p].at /\ new.call = proc[p].call
    BY <1>1 DEF Proc, States, Reports
  <2> HIDE DEF new
  <2> QED
    BY <1>4, <2>1, <2>2
<1> QED
  BY <1>2, <1>3, <1>4

LEMMA ResumeStep ==
    ASSUME IInv, NEW p \in Pids, NEW t \in Tracee, pc = "got", cur.pid = p,
           Fits(p, t),
           pc' = "top", cur' = Nothing, proc' = Resumed(p, How(t)),
           UNCHANGED <<seccomp_mode, stop_signal, rc>>,
           tab \cup {p} \subseteq tab', tab' \subseteq AnyPid,
           tr' \in [AnyPid -> Tracee], origin' \in [AnyPid -> Origins],
           \A q \in Pids : q \in tab' => proc[q].state # "none",
           \A q \in Pids \ {p} : SameFlags(Entry(q)', Entry(q)),
           SameFlags(tr'[p], t)
    PROVE  IInv'
<1> USE PidsAssumption
<1>1. TypeOK /\ LoopOK /\ proc \in [Pids -> Proc] /\ How(t) \in {"CONT", "SYSCALL"}
  BY DEF IInv, TypeOK, How
<1>2. /\ proc' \in [Pids -> Proc]
      /\ \A q \in Pids \ {p} : proc'[q] = proc[q]
      /\ proc[p].state # "stopped" => proc' = proc
      /\ proc'[p].leader = proc[p].leader /\ proc'[p].taken = proc[p].taken
      /\ proc'[p].child = proc[p].child
      /\ proc[p].state = "stopped" =>
           /\ proc'[p].state = "running" /\ proc'[p].report = "nothing" /\ proc'[p].resume = How(t)
           /\ proc[p].at \in {"born", "exit"} => proc'[p].at = "user"
           /\ proc[p].at \notin {"born", "exit"} =>
                proc'[p].at = proc[p].at /\ proc'[p].call = proc[p].call
  BY <1>1, ResumedFacts
<1>3. TypeOK'
  BY <1>1, <1>2 DEF TypeOK, Nothing, AnyPid, Reports
<1>4. /\ \A q \in Pids : /\ Live(q)' = Live(q)
                         /\ proc'[q].state = "none" <=> proc[q].state = "none"
                         /\ proc[q].at # "born" => proc'[q].at # "born"
                         /\ proc'[q].leader = proc[q].leader
      /\ cur'.pid = NoPid /\ cur'.status = "nothing"
  BY <1>2 DEF Live, Nothing
<1>5. LoopOK'
  BY <1>1, <1>4 DEF LoopOK
<1>6. ASSUME NEW q \in Pids
      PROVE  (proc'[q].child \in Pids => proc'[proc'[q].child].state # "none") /\ \A l \in Pids : LeaderOK(q, l)'
  <2>1. ProcOK(q) /\ proc[q].child \in Pids \cup {NoPid}
    BY <1>1 DEF IInv, Proc
  <2>2. proc'[q].child = proc[q].child
    BY <1>2
  <2> QED
    BY <1>4, <2>1, <2>2 DEF ProcOK, LeaderOK
<1>7. ASSUME NEW q \in Pids, q # p PROVE ProcOK(q)' /\ FlagsOK(q)'
  <2>1. /\ ProcOK(q) /\ FlagsOK(q) /\ proc'[q] = proc[q] /\ Status(q)' = Status(q) /\ cur'.pid # q
        /\ cur.pid # q
    BY <1>2, <1>4, <1>7 DEF IInv, Status
  <2>2. AsExit(q)' = AsExit(q) /\ Entry(q)'.fresh = Entry(q).fresh
    BY <1>7 DEF AsExit, SameFlags
  <2>3. q \in tab => q \in tab' /\ tr'[q].fresh = tr[q].fresh
    BY <2>2 DEF Entry
  <2>4. ProcOK(q)'
    BY <1>4, <1>6, <2>1, <2>2, <2>3 DEF ProcOK
  <2>5. FlagsOK(q)'
    BY <2>1, <2>2 DEF FlagsOK, RunningOK, StoppedOK, Stops, Free, EntryStop
  <2> QED
    BY <2>4, <2>5
<1>8. ProcOK(p) /\ FlagsOK(p) /\ p \in tab' /\ ~(proc[p].state = "none")
  BY DEF IInv
<1>9. Live(p) => ~tr'[p].fresh
  BY DEF Fits, SameFlags
<1>10. ProcOK(p)'
  <2>1. CASE proc[p].state = "stopped"
    <3>1. proc'[p].at # "born"
      BY <1>2, <2>1
    <3> QED
      BY <1>2, <1>4, <1>6, <1>8, <1>9, <2>1, <3>1 DEF ProcOK, Live
  <2>2. CASE proc[p].state # "stopped"
    BY <1>2, <1>4, <1>6, <1>8, <1>9, <2>2 DEF ProcOK, Live
  <2> QED
    BY <2>1, <2>2
<1>11. FlagsOK(p)'
  <2>1. AsExit(p)' = ExitFlag(t)
    BY <1>8 DEF AsExit, Entry, ExitFlag, SameFlags
  <2>2. CASE proc[p].state = "stopped" /\ ~proc[p].taken
    <3>1. StoppedOK(p)
      BY <1>8, <2>2 DEF FlagsOK
    <3>2. proc[p].at \in {"born", "user", "entry", "event", "exit"} /\ proc[p].call \in Calls
      BY <1>1, <3>1 DEF StoppedOK, Proc, Places
    <3>3. CASE proc[p].at \in {"born", "user", "exit"}
      <4>1. ~ExitFlag(t) /\ proc'[p].at = "user" /\ proc'[p].resume = How(t)
        BY <1>2, <2>2, <3>3 DEF Fits
      <4>2. How(t) = Free
        BY <4>1 DEF How, Free, ExitFlag
      <4>3. RunningOK(p)'
        BY <1>4, <2>1, <4>1, <4>2 DEF RunningOK, Free
      <4> QED
        BY <1>2, <2>2, <4>3 DEF FlagsOK
    <3>4. CASE proc[p].at = "entry"
      <4>1. ExitFlag(t) /\ proc'[p].at = "entry" /\ proc'[p].resume = How(t) /\ Stops(p)'
        BY <1>2, <2>2, <3>1, <3>4 DEF Fits, StoppedOK, Stops
      <4>2. How(t) = "SYSCALL"
        BY <4>1 DEF How, ExitFlag
      <4>3. RunningOK(p)'
        BY <1>4, <2>1, <4>1, <4>2 DEF RunningOK
      <4> QED
        BY <1>2, <2>2, <4>3 DEF FlagsOK
    <3>5. CASE proc[p].at = "event"
      <4>1. /\ (ExitFlag(t) <=> Stops(p)) /\ proc'[p].at = "event" /\ proc'[p].resume = How(t)
            /\ Stops(p)' = Stops(p) /\ proc[p].call \notin ViewCalls /\ proc'[p].call = proc[p].call
        BY <1>2, <2>2, <3>1, <3>5 DEF Fits, StoppedOK, Stops
      <4>2. How(t) = "SYSCALL" <=> Stops(p)
        BY <4>1 DEF How, ExitFlag, Stops
      <4>3. RunningOK(p)'
        BY <1>4, <2>1, <4>1, <4>2 DEF RunningOK
      <4> QED
        BY <1>2, <2>2, <4>3 DEF FlagsOK
    <3> QED
      BY <3>2, <3>3, <3>4, <3>5
  <2>3. CASE proc[p].taken
    BY <1>2, <2>3 DEF FlagsOK
  <2>4. CASE proc[p].state # "stopped" /\ ~proc[p].taken
    <3>1. proc[p].state # "running"
      BY <1>8, <2>4 DEF FlagsOK, RunningOK
    <3> QED
      BY <1>2, <2>4, <3>1 DEF FlagsOK
  <2> QED
    BY <2>2, <2>3, <2>4
<1> QED
  BY <1>3, <1>5, <1>7, <1>10, <1>11 DEF IInv

LEMMA PutStep ==
    ASSUME IInv, NEW p \in Pids, NEW t \in Tracee, NEW o \in Origins, pc = "got", cur.pid = p,
           Fits(p, t), Put(p, t, o)
    PROVE  IInv'
<1>1. TypeOK /\ \A q \in Pids : ProcOK(q)
  BY DEF IInv
<1>2. /\ pc' = "top" /\ cur' = Nothing /\ proc' = Resumed(p, How(t))
      /\ UNCHANGED <<seccomp_mode, stop_signal, rc>>
      /\ tab' = tab \cup {p} /\ tr' = [tr EXCEPT ![p] = t] /\ origin' = [origin EXCEPT ![p] = o]
  BY DEF Put
<1>3. /\ tab' \subseteq AnyPid /\ tr' \in [AnyPid -> Tracee] /\ origin' \in [AnyPid -> Origins]
      /\ tr'[p] = t
  BY <1>1, <1>2 DEF TypeOK, AnyPid
<1>4. \A q \in Pids : q \in tab' => proc[q].state # "none"
  BY <1>1, <1>2 DEF ProcOK
<1>5. \A q \in Pids \ {p} : SameFlags(Entry(q)', Entry(q))
  BY <1>1, <1>2 DEF Entry, SameFlags, TypeOK, AnyPid
<1>6. SameFlags(tr'[p], t)
  BY <1>3 DEF SameFlags
<1> QED
  BY <1>2, <1>3, <1>4, <1>5, <1>6, ResumeStep

(* What the handlers get: the entry of a process that reports s.           *)
LEMMA EntryFacts ==
    ASSUME IInv, NEW p \in Pids, NEW s, Got(p, s)
    PROVE  /\ Entry(p) \in Tracee /\ EntryOrigin(p) \in Origins /\ pc = "got" /\ cur.pid = p
           /\ (Live(p) /\ s # "SIGSTOP") => p \in tab /\ ~Entry(p).fresh /\ proc[p].at # "born"
           /\ (proc[p].state = "stopped" /\ ~proc[p].taken) => StoppedOK(p) /\ Status(p) = s
           /\ (Live(p) /\ proc[p].at # "born") => ~Entry(p).fresh
<1>1. /\ TypeOK /\ LoopOK /\ ProcOK(p) /\ FlagsOK(p) /\ pc = "got" /\ cur.pid = p /\ cur.status = s
      /\ s # "nothing"
  BY DEF IInv, Got, LoopOK
<1>2. Entry(p) \in Tracee /\ EntryOrigin(p) \in Origins
  BY <1>1, ViewsAssumption
     DEF Entry, EntryOrigin, tracee_add, Tracee, TypeOK, AnyPid, Origins
<1>3. Status(p) = s
  BY <1>1 DEF Status
<1>4. (Live(p) /\ proc[p].at # "born") => p \in tab /\ ~Entry(p).fresh
  BY <1>1 DEF ProcOK, Entry
<1>5. (Live(p) /\ s # "SIGSTOP") => proc[p].at # "born"
  BY <1>1, <1>3 DEF ProcOK
<1> QED
  BY <1>1, <1>2, <1>3, <1>4, <1>5 DEF FlagsOK

LEMMA HandlerFacts ==
    ASSUME NEW p \in Pids, NEW t \in Tracee, proc \in [Pids -> Proc]
    PROVE  /\ on_entry(p, t) \in Tracee /\ SameFlags(on_entry(p, t), t)
           /\ on_exit(p, t) \in Tracee /\ SameFlags(on_exit(p, t), t)
<1>1. proc[p].arg \in Views
  BY DEF Proc
<1>2. on_entry(p, t) \in Tracee /\ SameFlags(on_entry(p, t), t)
  BY <1>1 DEF on_entry, Tracee, SameFlags
<1>3. on_exit(p, t) \in Tracee /\ SameFlags(on_exit(p, t), t)
  BY DEF on_exit, Commits, Tracee, SameFlags
<1> QED
  BY <1>2, <1>3

LEMMA PlainStep ==
    ASSUME IInv, NEW p \in Pids, SyscallStopPlain(p)
    PROVE  IInv'
<1> DEFINE t == Entry(p)
           done == IF t.in_syscall THEN on_exit(p, t) ELSE on_entry(p, t)
           t1 == [done EXCEPT !.in_syscall = ~t.in_syscall]
           o == IF t.in_syscall THEN AfterCommit(p, t) ELSE EntryOrigin(p)
<1>1. Got(p, "syscall") /\ ~seccomp_mode /\ Put(p, t1, o)
  BY DEF SyscallStopPlain
<1>2. /\ t \in Tracee /\ EntryOrigin(p) \in Origins /\ pc = "got" /\ cur.pid = p
      /\ Live(p) => ~t.fresh /\ proc[p].at # "born"
      /\ (proc[p].state = "stopped" /\ ~proc[p].taken) => StoppedOK(p) /\ Status(p) = "syscall"
  BY <1>1, EntryFacts
<1>3. done \in Tracee /\ SameFlags(done, t)
  BY <1>2, HandlerFacts DEF IInv, TypeOK
<1>4. t1 \in Tracee /\ t1.fresh = t.fresh /\ t1.in_syscall = ~t.in_syscall
  BY <1>2, <1>3 DEF Tracee, SameFlags
<1>5. o \in Origins
  BY <1>2 DEF AfterCommit, Origins
<1>6. (proc[p].state = "stopped" /\ ~proc[p].taken) =>
        \/ proc[p].at = "entry" /\ ~t.in_syscall
        \/ proc[p].at = "exit" /\ t.in_syscall
  <2>1. proc[p].at \in Places
    BY DEF IInv, TypeOK, Proc
  <2> QED
    BY <1>1, <1>2, <2>1 DEF StoppedOK, Places, AsExit, EntryStop, SignalStops, Live
<1> HIDE DEF t1, o, t, done
<1>7. Fits(p, t1)
  BY <1>1, <1>2, <1>4, <1>6 DEF Fits, ExitFlag
<1> QED
  BY <1>1, <1>2, <1>4, <1>5, <1>7, PutStep

LEMMA SeccompExitStep ==
    ASSUME IInv, NEW p \in Pids, SyscallStopSeccomp(p)
    PROVE  IInv'
<1> DEFINE t == Entry(p)
<1>1. Got(p, "syscall") /\ seccomp_mode
  BY DEF SyscallStopSeccomp
<1>2. /\ t \in Tracee /\ EntryOrigin(p) \in Origins /\ pc = "got" /\ cur.pid = p
      /\ Live(p) => ~t.fresh /\ proc[p].at # "born"
      /\ (proc[p].state = "stopped" /\ ~proc[p].taken) => StoppedOK(p) /\ Status(p) = "syscall"
  BY <1>1, EntryFacts
<1>3. (proc[p].state = "stopped" /\ ~proc[p].taken) => proc[p].at = "exit" /\ t.awaiting_exit
  <2>1. proc[p].at \in Places
    BY DEF IInv, TypeOK, Proc
  <2> QED
    BY <1>1, <1>2, <2>1 DEF StoppedOK, Places, AsExit, EntryStop, SignalStops, Live
<1>4. CASE t.awaiting_exit
  <2> DEFINE t1 == [on_exit(p, t) EXCEPT !.awaiting_exit = FALSE]
             o == AfterCommit(p, t)
  <2>1. Put(p, t1, o)
    BY <1>1, <1>4 DEF SyscallStopSeccomp
  <2>2. on_exit(p, t) \in Tracee /\ SameFlags(on_exit(p, t), t)
    BY <1>2, HandlerFacts DEF IInv, TypeOK
  <2>3. t1 \in Tracee /\ t1.fresh = t.fresh /\ t1.awaiting_exit = FALSE
    BY <2>2 DEF Tracee, SameFlags
  <2>4. o \in Origins
    BY <1>2 DEF AfterCommit, Origins
  <2> HIDE DEF t1, o, t
  <2>5. Fits(p, t1)
    BY <1>1, <1>2, <1>3, <2>3 DEF Fits, ExitFlag
  <2> QED
    BY <1>2, <2>1, <2>3, <2>4, <2>5, PutStep
<1>5. CASE ~t.awaiting_exit
  <2>1. Put(p, t, EntryOrigin(p))
    BY <1>1, <1>5 DEF SyscallStopSeccomp
  <2> HIDE DEF t
  <2>2. Fits(p, t)
    BY <1>2, <1>3, <1>5 DEF Fits
  <2> QED
    BY <1>2, <2>1, <2>2, PutStep
<1> QED
  BY <1>4, <1>5

LEMMA SeccompEntryStep ==
    ASSUME IInv, NEW p \in Pids, SeccompStop(p)
    PROVE  IInv'
<1> DEFINE t == Entry(p)
           t1 == [on_entry(p, t) EXCEPT !.awaiting_exit = TRUE]
<1>1. Got(p, "seccomp") /\ Put(p, t1, EntryOrigin(p))
  BY DEF SeccompStop
<1>2. /\ t \in Tracee /\ EntryOrigin(p) \in Origins /\ pc = "got" /\ cur.pid = p
      /\ Live(p) => ~t.fresh /\ proc[p].at # "born"
      /\ (proc[p].state = "stopped" /\ ~proc[p].taken) => StoppedOK(p) /\ Status(p) = "seccomp"
  BY <1>1, EntryFacts
<1>3. on_entry(p, t) \in Tracee /\ SameFlags(on_entry(p, t), t)
  BY <1>2, HandlerFacts DEF IInv, TypeOK
<1>4. t1 \in Tracee /\ t1.fresh = t.fresh /\ t1.awaiting_exit = TRUE
  BY <1>3 DEF Tracee, SameFlags
<1>5. (proc[p].state = "stopped" /\ ~proc[p].taken) => proc[p].at = "entry" /\ seccomp_mode
  <2>1. proc[p].at \in Places
    BY DEF IInv, TypeOK, Proc
  <2> QED
    BY <1>2, <2>1 DEF StoppedOK, Places, EntryStop, SignalStops, Live
<1> HIDE DEF t1, t
<1>6. Fits(p, t1)
  BY <1>2, <1>4, <1>5 DEF Fits, ExitFlag
<1> QED
  BY <1>1, <1>2, <1>4, <1>6, PutStep

LEMMA SignalStep ==
    ASSUME IInv, NEW p \in Pids, SignalStop(p)
    PROVE  IInv'
<1> DEFINE t == Entry(p)
           t1 == [t EXCEPT !.fresh = t.fresh /\ cur.status # "SIGSTOP"]
<1>1. PICK s \in SignalStops : Got(p, s)
  BY DEF SignalStop
<1>2. Put(p, t1, EntryOrigin(p)) /\ cur.status = s
  BY <1>1 DEF SignalStop, Got
<1>3. /\ t \in Tracee /\ EntryOrigin(p) \in Origins /\ pc = "got" /\ cur.pid = p
      /\ (Live(p) /\ s # "SIGSTOP") => ~t.fresh
      /\ (proc[p].state = "stopped" /\ ~proc[p].taken) => StoppedOK(p) /\ Status(p) = s
  BY <1>1, EntryFacts
<1>4. /\ t1 \in Tracee /\ t1.fresh = (t.fresh /\ cur.status # "SIGSTOP")
      /\ t1.in_syscall = t.in_syscall /\ t1.awaiting_exit = t.awaiting_exit
  BY <1>3 DEF Tracee
<1>5. (proc[p].state = "stopped" /\ ~proc[p].taken) =>
        proc[p].at \in {"born", "user"} /\ ~ExitFlag(t)
  <2>1. proc[p].at \in Places
    BY DEF IInv, TypeOK, Proc
  <2> QED
    BY <1>3, <2>1 DEF StoppedOK, Places, EntryStop, SignalStops, AsExit, ExitFlag
<1> HIDE DEF t1, t
<1>6. Fits(p, t1)
  BY <1>2, <1>3, <1>4, <1>5 DEF Fits, ExitFlag
<1> QED
  BY <1>2, <1>3, <1>4, <1>6, PutStep

LEMMA ForkEventStep ==
    ASSUME IInv, NEW p \in Pids, ForkEventStop(p)
    PROVE  IInv'
<1> USE PidsAssumption
<1> DEFINE t == Entry(p)
           c == EventChild(p)
           before == tab \cup {p}
           child == tracee_inherit(IF c \in before THEN tr[c] ELSE tracee_add(InitView), t)
           inherited ==
             IF EntryOrigin(p) # "copy" \/ proc[p].taken \/ (c \in tab /\ origin[c] = "lost")
             THEN "lost" ELSE "copy"
<1>1. Got(p, "forked") /\ pc' = "top" /\ cur' = Nothing /\ proc' = Resumed(p, How(t))
      /\ UNCHANGED <<seccomp_mode, stop_signal, rc>>
  BY DEF ForkEventStop
<1>2. \/ /\ tab' = before \cup {c}
         /\ tr' = [tr EXCEPT ![p] = t, ![c] = child]
         /\ origin' = [origin EXCEPT ![p] = EntryOrigin(p), ![c] = inherited]
      \/ /\ tab' = before /\ tr' = [tr EXCEPT ![p] = t]
         /\ origin' = [origin EXCEPT ![p] = EntryOrigin(p)]
  BY DEF ForkEventStop
<1>3. /\ t \in Tracee /\ EntryOrigin(p) \in Origins /\ pc = "got" /\ cur.pid = p
      /\ Live(p) => p \in tab /\ ~t.fresh /\ proc[p].at # "born"
      /\ (proc[p].state = "stopped" /\ ~proc[p].taken) => StoppedOK(p) /\ Status(p) = "forked"
  BY <1>1, EntryFacts
<1>4. /\ TypeOK /\ (\A q \in Pids : ProcOK(q)) /\ c \in AnyPid
      /\ c \in Pids => proc[p].state = "stopped" /\ proc[c].state # "none"
  BY DEF IInv, EventChild, TypeOK, Proc, AnyPid, ProcOK
<1>5. c = p => p \in tab /\ t = tr[p]
  BY <1>3, <1>4 DEF Live, Entry
<1>6. child \in Tracee /\ (c = p => SameFlags(child, t)) /\ inherited \in Origins
  <2>1. c \in before => tr[c] \in Tracee
    BY <1>4 DEF TypeOK
  <2>2. tracee_add(InitView) \in Tracee
    BY ViewsAssumption DEF tracee_add, Tracee
  <2>3. inherited \in Origins
    BY DEF Origins
  <2>4. child \in Tracee
    BY <1>3, <2>1, <2>2 DEF tracee_inherit, Tracee
  <2>5. c = p => SameFlags(child, t)
    BY <1>3, <1>5 DEF tracee_inherit, Tracee, SameFlags
  <2> QED
    BY <2>3, <2>4, <2>5
<1>7. (c \in Pids /\ c # p) => SameFlags(child, Entry(c))
  <2>1. c \in Pids => tr[c] \in Tracee
    BY <1>4 DEF TypeOK
  <2> QED
    BY <2>1 DEF tracee_inherit, tracee_add, Tracee, SameFlags, Entry
<1> HIDE DEF t, c, child, inherited
<1>8. /\ tab' \subseteq AnyPid /\ before \subseteq tab' /\ tab' \subseteq before \cup {c}
      /\ tr' \in [AnyPid -> Tracee] /\ origin' \in [AnyPid -> Origins]
  BY <1>2, <1>3, <1>4, <1>6 DEF TypeOK, AnyPid
<1>9. \A q \in Pids : q \in tab' => proc[q].state # "none"
  <2>1. proc[p].state # "none"
    BY <1>3, <1>4 DEF ProcOK
  <2> QED
    BY <1>4, <1>8, <2>1 DEF ProcOK
<1>10. ASSUME NEW q \in Pids \ {p} PROVE SameFlags(Entry(q)', Entry(q))
  <2>1. CASE q = c /\ c \in tab'
    <3>1. tr'[c] = child \/ (c \in tab /\ tr'[c] = tr[c])
      BY <1>2, <1>4, <2>1 DEF TypeOK
    <3> QED
      BY <1>7, <2>1, <3>1 DEF Entry, SameFlags
  <2>2. CASE q # c \/ c \notin tab'
    <3>1. (q \in tab' <=> q \in tab) /\ (q \in tab => tr'[q] = tr[q])
      BY <1>2, <1>4, <1>8, <2>2 DEF TypeOK, AnyPid
    <3> QED
      BY <3>1 DEF Entry, SameFlags
  <2> QED
    BY <2>1, <2>2
<1>11. SameFlags(tr'[p], t)
  <2>1. CASE c = p
    <3>1. tr'[p] \in {child, t}
      BY <1>2, <1>4, <2>1 DEF TypeOK, AnyPid
    <3> QED
      BY <1>6, <2>1, <3>1 DEF SameFlags
  <2>2. CASE c # p
    <3>1. tr'[p] = t
      BY <1>2, <1>4, <2>2 DEF TypeOK, AnyPid
    <3> QED
      BY <3>1 DEF SameFlags
  <2> QED
    BY <2>1, <2>2
<1>12. Fits(p, t)
  <2>1. proc[p].at \in Places
    BY <1>4 DEF TypeOK, Proc
  <2>2. (proc[p].state = "stopped" /\ ~proc[p].taken) =>
          proc[p].at = "event" /\ (ExitFlag(t) <=> Stops(p))
    BY <1>3, <2>1 DEF StoppedOK, Places, EntryStop, SignalStops, Live, AsExit, ExitFlag, t
  <2> QED
    BY <1>3, <2>2 DEF Fits
<1> QED
  BY <1>1, <1>3, <1>8, <1>9, <1>10, <1>11, <1>12, ResumeStep

LEMMA StartStep ==
    ASSUME IInv, Start
    PROVE  IInv'
<1> USE PidsAssumption
<1> DEFINE t == [tracee_add(InitView) EXCEPT !.fresh = FALSE]
<1>1. /\ pc = "armed" /\ pc' = "top" /\ stop_signal' = FALSE /\ tab' = {RootPid}
      /\ tr' = [tr EXCEPT ![RootPid] = t] /\ proc' = Resumed(RootPid, How(tr'[RootPid]))
      /\ UNCHANGED <<seccomp_mode, cur, rc, origin>>
  BY DEF Start
<1>2. TypeOK /\ LoopOK /\ ProcOK(RootPid)
  BY DEF IInv
<1>3. t \in Tracee /\ ~t.fresh /\ ~t.in_syscall /\ ~t.awaiting_exit
  BY ViewsAssumption DEF tracee_add, Tracee
<1> HIDE DEF t
<1>4. /\ tr'[RootPid] = t /\ How(t) = Free /\ Free \in {"CONT", "SYSCALL"}
      /\ tr' \in [AnyPid -> Tracee]
  BY <1>1, <1>2, <1>3 DEF TypeOK, AnyPid, How, Free
<1>5. /\ \A q \in Pids \ {RootPid} : proc[q].state = "none"
      /\ proc[RootPid].state \notin {"none", "running"}
      /\ proc[RootPid].at = "user" \/ proc[RootPid].state # "stopped"
      /\ cur.pid = NoPid /\ cur.status = "nothing"
  BY <1>1, <1>2 DEF LoopOK, TypeOK, AnyPid
<1>6. proc' = Resumed(RootPid, Free) /\ proc \in [Pids -> Proc]
  BY <1>1, <1>2, <1>4 DEF TypeOK
<1>7. /\ proc' \in [Pids -> Proc]
      /\ \A q \in Pids \ {RootPid} : proc'[q] = proc[q]
      /\ proc[RootPid].state # "stopped" => proc' = proc
      /\ proc'[RootPid].leader = proc[RootPid].leader
      /\ proc'[RootPid].child = proc[RootPid].child
      /\ proc[RootPid].state = "stopped" =>
           /\ proc'[RootPid].state = "running" /\ proc'[RootPid].report = "nothing"
           /\ proc'[RootPid].resume = Free /\ proc'[RootPid].at = "user"
  BY <1>4, <1>5, <1>6, ResumedFacts
<1>8. TypeOK'
  BY <1>1, <1>2, <1>4, <1>7 DEF TypeOK, AnyPid
<1>9. \A q \in Pids : Live(q)' = Live(q) /\ (proc'[q].state = "none" <=> proc[q].state = "none")
  BY <1>5, <1>7 DEF Live
<1>10. LoopOK'
  BY <1>1, <1>5, <1>9 DEF LoopOK
<1>11. ASSUME NEW q \in Pids, q # RootPid PROVE ProcOK(q)' /\ FlagsOK(q)'
  <2>1. ProcOK(q) /\ proc'[q] = proc[q] /\ proc[q].state = "none"
    BY <1>5, <1>7, <1>11, <1>6 DEF IInv, Proc
  <2>2. ProcOK(q)'
    BY <1>1, <1>5, <1>9, <1>11, <2>1 DEF ProcOK, LeaderOK, Live
  <2>3. FlagsOK(q)'
    BY <2>1 DEF FlagsOK
  <2> QED
    BY <2>2, <2>3
<1>12. ProcOK(RootPid)'
  <2>1. proc[RootPid].child \in Pids \cup {NoPid}
    BY <1>6 DEF Proc
  <2>2. ASSUME NEW l \in Pids PROVE LeaderOK(RootPid, l)'
    BY <1>2, <1>5, <1>7, <1>9 DEF ProcOK, LeaderOK, Live
  <2>3. CASE proc[RootPid].state = "stopped"
    BY <1>1, <1>2, <1>3, <1>4, <1>5, <1>7, <1>9, <2>1, <2>2, <2>3 DEF ProcOK, Live
  <2>4. CASE proc[RootPid].state # "stopped"
    BY <1>1, <1>2, <1>5, <1>7, <1>9, <2>1, <2>2, <2>4 DEF ProcOK, Live
  <2> QED
    BY <2>3, <2>4
<1>13. FlagsOK(RootPid)'
  <2>1. ~AsExit(RootPid)'
    BY <1>1, <1>3, <1>4 DEF AsExit, Entry
  <2>2. CASE proc[RootPid].state = "stopped"
    BY <1>1, <1>5, <1>7, <2>1, <2>2 DEF FlagsOK, RunningOK, Free
  <2>3. CASE proc[RootPid].state # "stopped"
    BY <1>5, <1>7, <2>3 DEF FlagsOK
  <2> QED
    BY <2>2, <2>3
<1> QED
  BY <1>8, <1>10, <1>11, <1>12, <1>13 DEF IInv

-----------------------------------------------------------------------------
LEMMA NextIInv == IInv /\ [Next]_vars => IInv'
<1> SUFFICES ASSUME IInv, [Next]_vars PROVE IInv'
  OBVIOUS
<1>1. CASE UNCHANGED vars
  BY <1>1 DEF vars, kernelVars, tracerVars, IInv, TypeOK, LoopOK, ProcOK, LeaderOK, FlagsOK,
     RunningOK, StoppedOK, Live, Entry, AsExit, Status, Stops, Free, EntryStop
<1>2. CASE TracerStep
  <2>1. CASE Start
    BY <2>1, StartStep
  <2>2. CASE Block \/ CheckStop \/ WaitAgain \/ OutOfMemory \/ RootDies
    BY <2>2, LoopSteps
  <2>3. CASE Cleanup
    BY <2>3, CleanupStep
  <2>4. ASSUME NEW p \in Pids, HandleStatus(p) PROVE IInv'
    BY <2>4, DiesStep, PlainStep, SeccompExitStep, SeccompEntryStep, ForkEventStep, SignalStep
       DEF HandleStatus
  <2> QED
    BY <1>2, <2>1, <2>2, <2>3, <2>4 DEF TracerStep
<1>3. CASE WaitInterrupted \/ StopSignal
  BY <1>3, LoopSteps
<1>4. ASSUME NEW p \in Pids, WaitReturns(p) \/ GuestRuns(p) PROVE IInv'
  BY <1>4, WaitStep, GuestPreserves
<1> QED
  BY <1>1, <1>2, <1>3, <1>4 DEF Next

LEMMA AlwaysIInv == Spec => []IInv
BY InitIInv, NextIInv, PTL DEF Spec

-----------------------------------------------------------------------------
(* Every reachable state has the shape the model declares: in particular   *)
(* what on_exit commits is always a view that some entry noted, never an   *)
(* empty one.                                                              *)
THEOREM TypeCorrect == Spec => []TypeOK
<1>1. IInv => TypeOK
  BY DEF IInv
<1> QED
  BY <1>1, AlwaysIInv, PTL

(* The tracer never takes an exit for an entry or an entry for an exit,    *)
(* with the filter and without, and no handled call gets back to user code *)
(* unhandled, in every process not taken over by a thread's execve.        *)
THEOREM StopsPaired == Spec => []EntryExitPaired
<1>1. IInv => EntryExitPaired
  <2> SUFFICES ASSUME IInv, NEW p \in Pids, ~proc[p].taken PROVE PairedAt(p)
    BY DEF EntryExitPaired
  <2>1. TypeOK /\ LoopOK /\ ProcOK(p) /\ FlagsOK(p) /\ proc[p].at \in Places
    BY DEF IInv, TypeOK, Proc
  <2>2. ASSUME NEW s \in {"syscall", "seccomp"}, cur = [pid |-> p, status |-> s],
               proc[p].state = "stopped"
        PROVE  /\ s = "syscall" => (AsExit(p) <=> proc[p].at = "exit") /\ (seccomp_mode => AsExit(p))
               /\ s = "seccomp" => ~AsExit(p) /\ proc[p].at = "entry"
    <3>1. pc = "got" /\ Status(p) = s /\ Live(p)
      BY <2>1, <2>2 DEF LoopOK, Status, Live
    <3>2. StoppedOK(p) /\ proc[p].at # "born"
      BY <2>1, <2>2, <3>1 DEF FlagsOK, ProcOK
    <3> QED
      BY <2>1, <2>2, <3>1, <3>2 DEF StoppedOK, Places, EntryStop, SignalStops
  <2>3. (proc[p].state = "running" /\ proc[p].at = "user") => ~AsExit(p)
    <3>1. proc[p].state = "running" => pc # "done"
      BY <2>1 DEF ProcOK, Live, LoopOK
    <3> QED
      BY <2>1, <3>1 DEF FlagsOK, RunningOK
  <2> QED
    BY <2>2, <2>3 DEF PairedAt
<1> QED
  BY <1>1, AlwaysIInv, PTL

(* The SIGSTOP the tracer swallows is the new child's own, whichever of    *)
(* the child's stop and the parent's event came first.                     *)
THEOREM FreshIsExact == Spec => []FreshExact
<1>1. IInv => FreshExact
  <2> SUFFICES ASSUME IInv, NEW p \in Pids, cur = [pid |-> p, status |-> "SIGSTOP"],
                      proc[p].state = "stopped"
               PROVE  Entry(p).fresh <=> proc[p].at = "born"
    BY DEF FreshExact
  <2>1. LoopOK /\ ProcOK(p) /\ Live(p) /\ pc = "got"
    BY DEF IInv, LoopOK, Live
  <2> QED
    BY <2>1 DEF ProcOK, Entry
<1> QED
  BY <1>1, AlwaysIInv, PTL

(* A guest process that outlives emuroot_run_ptrace has never run: the     *)
(* final loop over the table reaches all the others.                       *)
THEOREM SurvivorsHaveNotRun == Spec => []SurvivorsNeverRan
<1>1. IInv => SurvivorsNeverRan
  <2> SUFFICES ASSUME IInv, pc = "done", NEW p \in Pids, Live(p)
               PROVE  proc[p].state = "stopped" /\ proc[p].at = "born"
    BY DEF SurvivorsNeverRan
  <2>1. ProcOK(p)
    BY DEF IInv
  <2> QED
    BY <2>1 DEF ProcOK, Live
<1> QED
  BY <1>1, AlwaysIInv, PTL

(* No tracee the loop knows is left in a stop nobody will end.             *)
THEOREM NoStopForgotten == Spec => []NoForgottenStop
<1>1. IInv => NoForgottenStop
  <2> SUFFICES ASSUME IInv, pc \in {"top", "wait"}, NEW p \in tab \cap Pids,
                      proc[p].state = "stopped", proc[p].at # "born"
               PROVE  proc[p].report # "nothing"
    BY DEF NoForgottenStop
  <2>1. ProcOK(p) /\ cur.pid # p
    BY DEF IInv, LoopOK
  <2> QED
    BY <2>1 DEF ProcOK, Status
<1> QED
  BY <1>1, AlwaysIInv, PTL

-----------------------------------------------------------------------------
(* Identities.  What a handled call asked for stays noted until its exit,   *)
(* where it is what the process has become.                                 *)
Asked(p) == IF proc[p].call \in ViewCalls THEN proc[p].arg ELSE NoView
UnderWay(p) ==
    \/ proc[p].at \in {"forked", "event"}
    \/ proc[p].state = "running" /\ proc[p].at = "entry"
Ours(p) == Live(p) /\ ~proc[p].taken
NotesOK(p) == Ours(p) =>
    /\ (Stops(p) /\ UnderWay(p)) => tr[p].pending = Asked(p)
    /\ proc[p].at = "exit" =>
          tr[p].pending = Asked(p) /\ (proc[p].call \in ViewCalls => proc[p].view = proc[p].arg)

(* The entry of a copy gives the process's own view, but for the change     *)
(* that its exit stop is about to commit.                                   *)
Faithful(p, v) == ~(proc[p].at = "exit" /\ proc[p].call \in ViewCalls) => proc[p].view = v
CopyOK(p) == (Ours(p) /\ p \in tab /\ origin[p] = "copy") => Faithful(p, tr[p].view)

(* A child whose fork event is still to come has its parent's view, until   *)
(* it commits a change of its own.  It has one parent.                      *)
Awaiting(p) == Ours(p) /\
    (proc[p].at = "forked" \/ (proc[p].state = "stopped" /\ proc[p].at = "event"))
ChildOK(p, c) == (Awaiting(p) /\ proc[p].child = c) =>
    /\ c # p
    /\ c \in tab => origin[c] # "copy"
    /\ (Ours(c) /\ ~(c \in tab /\ origin[c] = "lost")) => Faithful(c, proc[p].view)
    /\ \A q \in Pids \ {p} : Awaiting(q) => proc[q].child # c

StartOK == pc = "armed" /\ Live(RootPid) =>
    proc[RootPid].view = InitView /\ origin[RootPid] = "copy" /\ proc[RootPid].at = "user"

CInv ==
    /\ StartOK
    /\ \A p \in Pids : NotesOK(p) /\ CopyOK(p) /\ (Awaiting(p) => proc[p].child \in Pids)
    /\ \A p, c \in Pids : ChildOK(p, c)

(* What a step must leave of a process for the invariant to hold after it.  *)
CopyEntry(q) == q \in tab /\ origin[q] = "copy"
Lost(q) == q \in tab /\ origin[q] = "lost"
Keeps(q) ==
    /\ NotesOK(q)' /\ CopyOK(q)'
    /\ Awaiting(q)' => Awaiting(q) /\ proc'[q].child = proc[q].child /\ proc'[q].view = proc[q].view
    /\ CopyEntry(q)' => \/ CopyEntry(q)
                        \/ \A r \in Pids : Awaiting(r)' => proc'[r].child # q
    /\ (Ours(q)' /\ ~Lost(q)' /\ ~CopyEntry(q)') =>
         /\ Ours(q) /\ ~Lost(q)
         /\ \A v \in Views : Faithful(q, v) => Faithful(q, v)'

LEMMA AllKeep ==
    ASSUME TypeOK, CInv, StartOK', \A q \in Pids : Keeps(q)
    PROVE  CInv'
<1>1. ASSUME NEW p \in Pids
      PROVE  NotesOK(p)' /\ CopyOK(p)' /\ (Awaiting(p)' => proc'[p].child \in Pids)
  <2>1. Keeps(p) /\ (Awaiting(p) => proc[p].child \in Pids)
    BY DEF CInv
  <2> QED
    BY <2>1 DEF Keeps
<1>2. ASSUME NEW p \in Pids, NEW c \in Pids PROVE ChildOK(p, c)'
  <2> SUFFICES ASSUME Awaiting(p)', proc'[p].child = c
               PROVE  /\ c # p /\ (c \in tab' => origin'[c] # "copy")
                      /\ (Ours(c)' /\ ~Lost(c)') => Faithful(c, proc[p].view)'
                      /\ \A q \in Pids \ {p} : Awaiting(q)' => proc'[q].child # c
    BY DEF ChildOK, Lost
  <2>1. PICK v \in Views : v = proc[p].view
    BY DEF TypeOK, Proc
  <2>2. Awaiting(p) /\ proc[p].child = c /\ proc'[p].view = v
    BY <2>1 DEF Keeps
  <2>3. /\ c # p /\ (c \in tab => origin[c] # "copy")
        /\ (Ours(c) /\ ~Lost(c)) => Faithful(c, v)
        /\ \A q \in Pids \ {p} : Awaiting(q) => proc[q].child # c
    BY <2>1, <2>2 DEF CInv, ChildOK, Lost
  <2>4. c \in tab' => origin'[c] # "copy"
    BY <2>3 DEF Keeps, CopyEntry
  <2>5. (Ours(c)' /\ ~Lost(c)') => Faithful(c, v)'
    <3>1. ~CopyEntry(c)'
      BY <2>4 DEF CopyEntry
    <3> QED
      BY <2>3, <3>1 DEF Keeps
  <2>6. \A q \in Pids \ {p} : Awaiting(q)' => proc'[q].child # c
    BY <2>3 DEF Keeps
  <2>7. Faithful(c, v)' => Faithful(c, proc[p].view)'
    BY <2>2 DEF Faithful
  <2> QED
    BY <2>3, <2>4, <2>5, <2>6, <2>7
<1> QED
  BY <1>1, <1>2 DEF CInv

LEMMA SameKeeps ==
    ASSUME CInv, NEW q \in Pids, proc'[q] = proc[q], tr'[q] = tr[q], origin'[q] = origin[q],
           q \in tab' <=> q \in tab, seccomp_mode' = seccomp_mode
    PROVE  Keeps(q)
<1>1. NotesOK(q) /\ CopyOK(q)
  BY DEF CInv
<1>2. (Ours(q)' <=> Ours(q)) /\ (Awaiting(q)' <=> Awaiting(q)) /\ (Stops(q)' <=> Stops(q))
  BY DEF Ours, Live, Awaiting, Stops
<1>3. \A v : Faithful(q, v)' <=> Faithful(q, v)
  BY DEF Faithful
<1>4. NotesOK(q)'
  BY <1>1, <1>2 DEF NotesOK, UnderWay, Asked
<1>5. CopyOK(q)'
  BY <1>1, <1>2 DEF CopyOK, Faithful
<1> QED
  BY <1>2, <1>3, <1>4, <1>5 DEF Keeps, CopyEntry, Lost

LEMMA DeadKeeps ==
    ASSUME NEW q \in Pids, ~Ours(q)', CopyEntry(q)' => CopyEntry(q)
    PROVE  Keeps(q)
BY DEF Keeps, NotesOK, CopyOK, Awaiting

(* The guest's steps change no entry. *)
LEMMA MovedKeeps ==
    ASSUME TypeOK, CInv, NEW p \in Pids, UNCHANGED <<seccomp_mode, tracerVars>>,
           Ours(p)' => /\ Ours(p) /\ NotesOK(p)'
                       /\ \A v \in Views : Faithful(p, v) => Faithful(p, v)',
           Awaiting(p)' => /\ Awaiting(p) /\ proc'[p].child = proc[p].child
                           /\ proc'[p].view = proc[p].view
    PROVE  Keeps(p)
<1>1. CopyOK(p) /\ tab' = tab /\ origin' = origin /\ tr' = tr
  BY DEF CInv, tracerVars
<1>2. CASE ~Ours(p)'
  BY <1>1, <1>2, DeadKeeps DEF CopyEntry
<1>3. CASE Ours(p)'
  <2>1. CopyOK(p)'
    <3> SUFFICES ASSUME p \in tab, origin[p] = "copy" PROVE CopyOK(p)'
      BY <1>1 DEF CopyOK
    <3>1. PICK v : v = tr[p].view
      OBVIOUS
    <3>2. v \in Views /\ Faithful(p, v)
      BY <1>1, <1>3, <3>1 DEF CopyOK, TypeOK, Tracee, AnyPid
    <3>3. Faithful(p, v)' /\ tr'[p].view = v
      BY <1>1, <1>3, <3>1, <3>2
    <3> QED
      BY <3>3 DEF CopyOK, Faithful
  <2> QED
    BY <1>1, <1>3, <2>1 DEF Keeps, CopyEntry, Lost
<1> QED
  BY <1>2, <1>3

LEMMA OneMovedKeeps ==
    ASSUME TypeOK, LoopOK, CInv, NEW p \in Pids, NEW new, proc' = [proc EXCEPT ![p] = new],
           UNCHANGED <<seccomp_mode, tracerVars>>, proc[p].state = "running", Keeps(p)
    PROVE  CInv'
<1>1. \A q \in Pids \ {p} : proc'[q] = proc[q]
  BY DEF TypeOK
<1>2. \A q \in Pids \ {p} : Keeps(q)
  BY <1>1, SameKeeps DEF tracerVars
<1>3. StartOK'
  BY DEF StartOK, LoopOK, tracerVars
<1> QED
  BY <1>2, <1>3, AllKeep

LEMMA EnterCopies ==
    ASSUME IInv, CInv, NEW p \in Pids, Enter(p), UNCHANGED <<seccomp_mode, tracerVars>>
    PROVE  CInv'
<1>1. TypeOK /\ LoopOK /\ proc[p] \in Proc
  BY DEF IInv, TypeOK
<1>2. PICK c \in Calls, v \in Views :
        LET in == [proc[p] EXCEPT !.at = "entry", !.call = c, !.arg = v]
        IN  /\ Running(p, "user")
            /\ proc' = [proc EXCEPT ![p] =
                 IF seccomp_mode /\ c \notin ViewCalls THEN in
                 ELSE Stop(in, "entry", IF seccomp_mode THEN "seccomp" ELSE "syscall")]
  BY DEF Enter
<1> DEFINE in == [proc[p] EXCEPT !.at = "entry", !.call = c, !.arg = v]
           new == IF seccomp_mode /\ c \notin ViewCalls THEN in
                  ELSE Stop(in, "entry", IF seccomp_mode THEN "seccomp" ELSE "syscall")
<1>3. /\ proc[p].state = "running" /\ proc[p].at = "user" /\ proc' = [proc EXCEPT ![p] = new]
  BY <1>2 DEF Running
<1>4. /\ new.at = "entry" /\ new.view = proc[p].view /\ new.taken = proc[p].taken
      /\ new.state = "running" => seccomp_mode /\ c \notin ViewCalls /\ new.call = c
  BY <1>1, <1>3 DEF Stop, Proc
<1>5. proc'[p] = new
  BY <1>1, <1>3 DEF TypeOK
<1> HIDE DEF new
<1>6. (Ours(p)' => Ours(p)) /\ ~Awaiting(p)'
  BY <1>3, <1>4, <1>5 DEF Ours, Live, Awaiting
<1>7. NotesOK(p)'
  BY <1>4, <1>5 DEF NotesOK, UnderWay, Stops
<1>8. \A w : Faithful(p, w) => Faithful(p, w)'
  BY <1>3, <1>4, <1>5 DEF Faithful
<1>9. Keeps(p)
  BY <1>1, <1>6, <1>7, <1>8, MovedKeeps
<1> QED
  BY <1>1, <1>3, <1>9, OneMovedKeeps

(* p comes back from its call, as the process new. *)
LEMMA BackKeeps ==
    ASSUME IInv, CInv, pc # "done", NEW p \in Pids, UNCHANGED <<seccomp_mode, tracerVars>>,
           proc[p].state = "running", proc[p].at \in {"entry", "event"}, NEW v \in Views,
           v = proc[p].view \/ (proc[p].call \in ViewCalls /\ v = proc[p].arg),
           proc[p].call \in ViewCalls => v = proc[p].arg,
           proc'[p] = Return([proc[p] EXCEPT !.view = v])
    PROVE  Keeps(p)
<1> DEFINE new == Return([proc[p] EXCEPT !.view = v])
<1>1. TypeOK /\ proc[p] \in Proc /\ FlagsOK(p) /\ NotesOK(p)
  BY DEF IInv, TypeOK, CInv
<1>2. /\ new.view = v /\ new.taken = proc[p].taken
      /\ new.call = proc[p].call /\ new.arg = proc[p].arg
      /\ proc[p].resume = "SYSCALL" => new.state = "stopped" /\ new.at = "exit"
      /\ proc[p].resume # "SYSCALL" => new.state = "running" /\ new.at = "user"
  BY <1>1 DEF Return, Stop, Proc
<1>3. proc'[p] = new
  OBVIOUS
<1> HIDE DEF new
<1>4. (Ours(p)' => Ours(p)) /\ ~Awaiting(p)'
  BY <1>2, <1>3 DEF Ours, Live, Awaiting
<1>5. ASSUME Ours(p)
      PROVE  NotesOK(p)' /\ \A w \in Views : Faithful(p, w) => Faithful(p, w)'
  <2>1. RunningOK(p)
    BY <1>1, <1>5 DEF FlagsOK, Ours
  <2>2. proc[p].resume = "SYSCALL" <=> Stops(p)
    BY <2>1 DEF RunningOK
  <2>3. Stops(p) => tr[p].pending = Asked(p)
    BY <1>1, <1>5 DEF NotesOK, UnderWay
  <2>4. Asked(p)' = Asked(p) /\ tr' = tr
    BY <1>2, <1>3 DEF Asked, tracerVars
  <2>5. NotesOK(p)'
    <3>1. proc'[p].at = "exit" => tr'[p].pending = Asked(p)'
      BY <1>2, <1>3, <2>2, <2>3, <2>4
    <3>2. (proc[p].call \in ViewCalls => proc[p].view = proc[p].arg)'
      BY <1>2, <1>3
    <3>3. ~UnderWay(p)'
      BY <1>2, <1>3 DEF UnderWay
    <3> QED
      BY <3>1, <3>2, <3>3 DEF NotesOK
  <2>6. proc[p].call \in ViewCalls => proc'[p].at = "exit"
    BY <1>2, <1>3, <2>2 DEF Stops
  <2>7. \A w : Faithful(p, w) => Faithful(p, w)'
    BY <1>2, <1>3, <2>6 DEF Faithful
  <2> QED
    BY <2>5, <2>7
<1> QED
  BY <1>1, <1>4, <1>5, MovedKeeps

LEMMA ReturnCopies ==
    ASSUME IInv, CInv, pc # "done", NEW p \in Pids, UNCHANGED <<seccomp_mode, tracerVars>>,
           Execute(p) \/ ForkFails(p) \/ ForkReturn(p)
    PROVE  CInv'
<1>1. TypeOK /\ LoopOK /\ proc[p] \in Proc /\ FlagsOK(p) /\ proc \in [Pids -> Proc]
  BY DEF IInv, TypeOK
<1>2. CASE Execute(p)
  <2>1. /\ proc[p].state = "running" /\ proc[p].at = "entry" /\ proc[p].call \in ViewCalls
        /\ proc' = [proc EXCEPT ![p] = Return([proc[p] EXCEPT !.view = proc[p].arg])]
    BY <1>2 DEF Execute, Running, ViewCalls
  <2>2. proc'[p] = Return([proc[p] EXCEPT !.view = proc[p].arg]) /\ proc[p].arg \in Views
    BY <1>1, <2>1 DEF Proc
  <2>3. Keeps(p)
    BY <2>1, <2>2, BackKeeps
  <2> QED
    BY <1>1, <2>1, <2>3, OneMovedKeeps
<1>3. CASE ForkFails(p) \/ ForkReturn(p)
  <2>1. /\ proc[p].state = "running" /\ proc[p].at \in {"entry", "event"}
        /\ proc' = [proc EXCEPT ![p] = Return(proc[p])]
    BY <1>3 DEF ForkFails, ForkReturn, Running
  <2>2. proc[p] = [proc[p] EXCEPT !.view = proc[p].view] /\ proc[p].view \in Views
    BY <1>1 DEF Proc
  <2>3. proc'[p] = Return([proc[p] EXCEPT !.view = proc[p].view])
    BY <1>1, <2>1, <2>2
  <2>4. CASE proc[p].call \notin ViewCalls
    <3>1. Keeps(p)
      BY <2>1, <2>2, <2>3, <2>4, BackKeeps
    <3> QED
      BY <1>1, <2>1, <3>1, OneMovedKeeps
  <2>5. CASE proc[p].call \in ViewCalls
    <3>1. proc[p].taken
      BY <1>1, <1>3, <2>1, <2>5 DEF FlagsOK, RunningOK, ForkFails, ForkReturn, Running, ViewCalls
    <3>2. proc'[p].taken
      BY <1>1, <2>1, <3>1 DEF Return, Stop, Proc
    <3>3. Keeps(p)
      BY <3>2, DeadKeeps DEF Ours, CopyEntry, tracerVars
    <3> QED
      BY <1>1, <2>1, <3>3, OneMovedKeeps
  <2> QED
    BY <2>4, <2>5
<1> QED
  BY <1>2, <1>3

LEMMA StopCopies ==
    ASSUME IInv, CInv, NEW p \in Pids, UNCHANGED <<seccomp_mode, tracerVars>>,
           ForkEvent(p) \/ Signal(p)
    PROVE  CInv'
<1>1. TypeOK /\ LoopOK /\ proc[p] \in Proc /\ NotesOK(p) /\ proc \in [Pids -> Proc]
  BY DEF IInv, TypeOK, CInv
<1>2. PICK place \in {"event", "user"}, s \in {"forked"} \cup SignalStops :
        /\ proc' = [proc EXCEPT ![p] = Stop(proc[p], place, s)]
        /\ proc[p].state = "running"
        /\ \/ proc[p].at = "forked" /\ place = "event"
           \/ proc[p].at = "user" /\ place = "user"
  BY DEF ForkEvent, Signal, Running
<1> DEFINE new == Stop(proc[p], place, s)
<1>3. /\ new.taken = proc[p].taken /\ new.child = proc[p].child /\ new.view = proc[p].view
      /\ new.call = proc[p].call /\ new.arg = proc[p].arg /\ new.state = "stopped" /\ new.at = place
  BY <1>1 DEF Stop, Proc
<1>4. proc'[p] = new
  BY <1>1, <1>2
<1> HIDE DEF new
<1>5. /\ Ours(p)' => Ours(p)
      /\ Awaiting(p)' => Awaiting(p) /\ proc'[p].child = proc[p].child /\ proc'[p].view = proc[p].view
  BY <1>2, <1>3, <1>4 DEF Ours, Live, Awaiting
<1>6. NotesOK(p)'
  BY <1>1, <1>2, <1>3, <1>4 DEF NotesOK, UnderWay, Stops, Asked, Ours, Live, tracerVars
<1>7. \A w : Faithful(p, w) => Faithful(p, w)'
  BY <1>2, <1>3, <1>4 DEF Faithful
<1>8. Keeps(p)
  BY <1>1, <1>5, <1>6, <1>7, MovedKeeps
<1> QED
  BY <1>1, <1>2, <1>8, OneMovedKeeps

LEMMA DieFacts ==
    ASSUME NEW pr \in Proc
    PROVE  Die(pr) = pr \/ Die(pr).state = "zombie"
BY DEF Die, Gone, NewProc, Proc

LEMMA DeathCopies ==
    ASSUME IInv, CInv, NEW p \in Pids, UNCHANGED <<seccomp_mode, tracerVars>>,
           Kill(p) \/ ThreadExit(p)
    PROVE  CInv'
<1>1. TypeOK /\ proc \in [Pids -> Proc]
  BY DEF IInv, TypeOK
<1>2. \A q \in Pids : proc'[q] = proc[q] \/ proc'[q] = Die(proc[q])
  BY <1>1 DEF Kill, ThreadExit
<1>3. \A q \in Pids : proc'[q] = proc[q] \/ proc'[q].state = "zombie"
  BY <1>1, <1>2, DieFacts
<1>4. ASSUME NEW q \in Pids PROVE Keeps(q)
  <2>1. CASE proc'[q] = proc[q]
    BY <2>1, SameKeeps DEF tracerVars
  <2>2. CASE proc'[q].state = "zombie"
    BY <2>2, DeadKeeps DEF Ours, Live, CopyEntry, tracerVars
  <2> QED
    BY <1>3, <2>1, <2>2
<1>5. StartOK'
  <2>1. StartOK /\ (proc'[RootPid] = proc[RootPid] \/ proc'[RootPid].state = "zombie")
    BY <1>3, PidsAssumption DEF CInv
  <2> QED
    BY <2>1 DEF StartOK, Live, tracerVars
<1> QED
  BY <1>1, <1>4, <1>5, AllKeep

LEMMA ExecCopies ==
    ASSUME IInv, CInv, pc # "done", NEW p \in Pids, Exec(p), UNCHANGED <<seccomp_mode, tracerVars>>
    PROVE  CInv'
<1>0. PICK l : l = proc[p].leader
  OBVIOUS
<1> DEFINE new == [proc[p] EXCEPT !.view = proc[p].arg, !.taken = (p # l) \/ proc[p].taken]
<1>1. /\ TypeOK /\ LoopOK /\ proc[p] \in Proc /\ l \in Pids /\ proc[p].state = "running"
      /\ proc[p].at = "entry" /\ proc[p].call = "exec" /\ proc \in [Pids -> Proc]
  BY <1>0 DEF IInv, TypeOK, Proc, Exec, Running
<1>2. proc' = [q \in Pids |-> IF q = l THEN Return(new)
                              ELSE IF q = p THEN Gone(proc[q], "reaped", "nothing")
                              ELSE IF q \in Group(p) THEN Die(proc[q])
                              ELSE proc[q]]
  BY <1>0 DEF Exec
<1>3. ASSUME NEW q \in Pids, q # l PROVE Keeps(q)
  <2>1. /\ q = p => proc'[q] = Gone(proc[q], "reaped", "nothing")
        /\ q # p => proc'[q] = Die(proc[q]) \/ proc'[q] = proc[q]
    BY <1>2, <1>3
  <2>2. Gone(proc[q], "reaped", "nothing").state = "reaped"
    BY DEF Gone, NewProc
  <2>3. proc'[q] = proc[q] \/ proc'[q].state \in {"zombie", "reaped"}
    BY <1>1, <2>1, <2>2, DieFacts
  <2>4. CASE proc'[q] = proc[q]
    BY <2>4, SameKeeps DEF tracerVars
  <2>5. CASE proc'[q].state \in {"zombie", "reaped"}
    BY <2>5, DeadKeeps DEF Ours, Live, CopyEntry, tracerVars
  <2> QED
    BY <2>3, <2>4, <2>5
<1>4. Keeps(l)
  <2>1. proc'[l] = Return(new)
    BY <1>1, <1>2
  <2>2. CASE p # l \/ proc[p].taken
    <3>1. proc'[l].taken
      BY <1>1, <2>1, <2>2 DEF Return, Stop, Proc
    <3> QED
      BY <1>1, <3>1, DeadKeeps DEF Ours, CopyEntry, tracerVars
  <2>3. CASE p = l /\ ~proc[p].taken
    <3>1. new = [proc[p] EXCEPT !.view = proc[p].arg] /\ proc[p].arg \in Views
      BY <1>1, <2>3 DEF Proc
    <3>2. proc'[p] = Return([proc[p] EXCEPT !.view = proc[p].arg]) /\ proc[p].call \in ViewCalls
      BY <1>1, <2>1, <2>3, <3>1 DEF ViewCalls
    <3> HIDE DEF new
    <3>3. Keeps(p)
      BY <1>1, <3>1, <3>2, BackKeeps
    <3> QED
      BY <2>3, <3>3
  <2> QED
    BY <2>2, <2>3
<1>5. StartOK'
  BY <1>1 DEF StartOK, LoopOK, tracerVars
<1> QED
  BY <1>1, <1>3, <1>4, <1>5, AllKeep

(* fork: a new child has its parent's view, and no entry yet. *)
LEMMA ForkCopies ==
    ASSUME IInv, CInv, NEW p \in Pids, Fork(p), UNCHANGED <<seccomp_mode, tracerVars>>
    PROVE  CInv'
<1>1. PICK c \in Pids :
        /\ proc[c].state = "none"
        /\ proc' = [proc EXCEPT
             ![p] = [proc[p] EXCEPT !.at = "forked", !.child = c],
             ![c] = NewProc(IF proc[p].call = "clone" THEN proc[p].leader ELSE c, proc[p].view)]
  BY DEF Fork
<1>2. /\ proc[p].state = "running" /\ proc[p].at = "entry" /\ proc[p].call \in {"fork", "clone"}
      /\ TypeOK /\ LoopOK /\ proc[p] \in Proc /\ proc \in [Pids -> Proc]
  BY DEF Fork, Running, IInv, TypeOK
<1>3. c # p /\ c \notin tab
  BY <1>1, <1>2 DEF IInv, ProcOK
<1>4. /\ proc'[p] = [proc[p] EXCEPT !.at = "forked", !.child = c]
      /\ proc'[c] = NewProc(IF proc[p].call = "clone" THEN proc[p].leader ELSE c, proc[p].view)
      /\ \A q \in Pids \ {p, c} : proc'[q] = proc[q]
  BY <1>1, <1>2, <1>3
<1>5. /\ proc'[p].at = "forked" /\ proc'[p].child = c /\ proc'[p].state = "running"
      /\ proc'[p].call = proc[p].call /\ proc'[p].arg = proc[p].arg
      /\ proc'[p].view = proc[p].view /\ proc'[p].taken = proc[p].taken
  BY <1>2, <1>4 DEF Proc
<1>6. proc'[c].at = "born" /\ proc'[c].view = proc[p].view
  BY <1>4 DEF NewProc
<1>7. tab' = tab /\ origin' = origin /\ tr' = tr /\ pc' = pc
  BY DEF tracerVars
<1>8. \A q \in Pids \ {p, c} : Keeps(q)
  BY <1>4, SameKeeps DEF tracerVars
<1>9. NotesOK(p) /\ CopyOK(p)
  BY DEF CInv
<1>10. NotesOK(p)' /\ CopyOK(p)'
  <2>1. (Ours(p)' <=> Ours(p)) /\ (Stops(p)' <=> Stops(p)) /\ Asked(p)' = Asked(p) /\ UnderWay(p)
    BY <1>2, <1>5 DEF Ours, Live, Stops, Asked, UnderWay
  <2>2. NotesOK(p)'
    BY <1>5, <1>7, <1>9, <2>1 DEF NotesOK
  <2>3. CopyOK(p)'
    BY <1>2, <1>5, <1>7, <1>9, <2>1 DEF CopyOK, Faithful
  <2> QED
    BY <2>2, <2>3
<1>11. NotesOK(c)' /\ CopyOK(c)' /\ ~Awaiting(c)'
  BY <1>3, <1>6, <1>7 DEF NotesOK, UnderWay, CopyOK, Awaiting
<1>12. ASSUME NEW q \in Pids \ {p, c}, Awaiting(q)'
       PROVE  /\ Awaiting(q) /\ proc'[q].child = proc[q].child /\ proc[q].child \in Pids
              /\ proc[q].child # c
  <2>1. Awaiting(q) /\ proc'[q].child = proc[q].child
    BY <1>8, <1>12 DEF Keeps
  <2>2. proc[q].child \in Pids
    BY <2>1 DEF CInv
  <2>3. proc[proc[q].child].state # "none"
    BY <2>2 DEF IInv, ProcOK
  <2> QED
    BY <1>1, <2>1, <2>2, <2>3
<1>13. ASSUME NEW r \in Pids
       PROVE  NotesOK(r)' /\ CopyOK(r)' /\ (Awaiting(r)' => proc'[r].child \in Pids)
  <2>1. CASE r = p
    BY <1>5, <1>10, <2>1
  <2>2. CASE r = c
    BY <1>11, <2>2
  <2>3. CASE r \notin {p, c}
    BY <1>8, <1>12, <2>3 DEF Keeps
  <2> QED
    BY <2>1, <2>2, <2>3
<1>14. ASSUME NEW r \in Pids, NEW d \in Pids PROVE ChildOK(r, d)'
  <2> SUFFICES ASSUME Awaiting(r)', proc'[r].child = d PROVE ChildOK(r, d)'
    BY DEF ChildOK
  <2>1. CASE r = p
    <3>1. d = c
      BY <1>5, <2>1
    <3>2. \A q \in Pids \ {p} : Awaiting(q)' => proc'[q].child # c
      BY <1>11, <1>12
    <3>3. Faithful(c, proc[p].view)'
      BY <1>5, <1>6 DEF Faithful
    <3> QED
      BY <1>3, <1>7, <2>1, <3>1, <3>2, <3>3 DEF ChildOK
  <2>2. CASE r # p
    <3>1. r # c /\ d # c /\ Awaiting(r) /\ proc[r].child = d
      BY <1>11, <1>12, <2>2
    <3>2. ChildOK(r, d) /\ proc'[r].view = proc[r].view
      BY <1>4, <2>2, <3>1 DEF CInv
    <3>3. \A q \in Pids \ {r} : Awaiting(q)' => proc'[q].child # d
      BY <1>5, <1>11, <1>12, <3>1, <3>2 DEF ChildOK
    <3>4. ASSUME Ours(d)', ~Lost(d)' PROVE Faithful(d, proc[r].view)'
      <4>1. Ours(d) /\ ~Lost(d)
        BY <1>2, <1>4, <1>5, <1>7, <3>1, <3>4 DEF Ours, Live, Lost
      <4>2. Faithful(d, proc[r].view)
        BY <3>1, <3>2, <4>1 DEF ChildOK, Lost
      <4>3. proc'[d].view = proc[d].view /\ (proc[d].at = "exit" <=> proc'[d].at = "exit")
            /\ proc'[d].call = proc[d].call
        BY <1>2, <1>4, <1>5, <3>1, ZenonT(30)
      <4> QED
        BY <3>2, <4>2, <4>3 DEF Faithful
    <3> QED
      BY <1>7, <3>1, <3>2, <3>3, <3>4 DEF ChildOK, Lost
  <2> QED
    BY <2>1, <2>2
<1>15. StartOK'
  BY <1>2, <1>7 DEF StartOK, LoopOK
<1> QED
  BY <1>13, <1>14, <1>15 DEF CInv

LEMMA GuestCopies ==
    ASSUME IInv, CInv, NEW p \in Pids, GuestRuns(p)
    PROVE  CInv'
BY EnterCopies, ReturnCopies, StopCopies, DeathCopies, ExecCopies, ForkCopies
   DEF GuestRuns, GuestStep

-----------------------------------------------------------------------------
(* The loop's own steps, and waitpid. *)
LEMMA QuietCopies ==
    ASSUME TypeOK, CInv, UNCHANGED <<kernelVars, tab, tr, origin>>, pc' = "armed" => pc = "armed"
    PROVE  CInv'
<1>1. \A q \in Pids : Keeps(q)
  BY SameKeeps DEF kernelVars
<1>2. StartOK'
  BY DEF CInv, StartOK, Live, kernelVars
<1> QED
  BY <1>1, <1>2, AllKeep

LEMMA WaitCopies ==
    ASSUME IInv, CInv, NEW p \in Pids, WaitReturns(p)
    PROVE  CInv'
<1>1. /\ TypeOK /\ proc[p] \in Proc /\ NotesOK(p) /\ CopyOK(p) /\ pc' # "armed"
      /\ proc' = [proc EXCEPT ![p] = Collected(p)] /\ tab' = tab /\ tr' = tr /\ origin' = origin
      /\ seccomp_mode' = seccomp_mode /\ proc \in [Pids -> Proc]
  BY DEF IInv, TypeOK, CInv, WaitReturns
<1>2. proc'[p] = Collected(p) /\ \A q \in Pids \ {p} : proc'[q] = proc[q]
  BY <1>1
<1>3. \A q \in Pids \ {p} : Keeps(q)
  BY <1>1, <1>2, SameKeeps
<1>4. CASE proc[p].report = "exited"
  <2>1. proc'[p].state = "reaped"
    BY <1>2, <1>4 DEF Collected, Gone, NewProc
  <2> QED
    BY <1>1, <1>3, <2>1, DeadKeeps, AllKeep DEF Ours, Live, CopyEntry, StartOK
<1>5. CASE proc[p].report # "exited"
  <2>1. proc'[p] = [proc[p] EXCEPT !.report = "nothing"]
    BY <1>2, <1>5 DEF Collected
  <2>2. /\ proc'[p].state = proc[p].state /\ proc'[p].at = proc[p].at /\ proc'[p].call = proc[p].call
        /\ proc'[p].arg = proc[p].arg /\ proc'[p].child = proc[p].child
        /\ proc'[p].view = proc[p].view /\ proc'[p].taken = proc[p].taken
    BY <1>1, <2>1 DEF Proc
  <2>3. /\ (Ours(p)' <=> Ours(p)) /\ (Awaiting(p)' <=> Awaiting(p)) /\ (Stops(p)' <=> Stops(p))
        /\ (UnderWay(p)' <=> UnderWay(p)) /\ Asked(p)' = Asked(p)
        /\ \A v : Faithful(p, v)' <=> Faithful(p, v)
    BY <1>1, <2>2 DEF Ours, Live, Awaiting, Stops, UnderWay, Asked, Faithful
  <2>4. NotesOK(p)'
    BY <1>1, <2>2, <2>3 DEF NotesOK
  <2>5. CopyOK(p)'
    BY <1>1, <2>2, <2>3 DEF CopyOK, Faithful
  <2>6. Keeps(p)
    BY <1>1, <2>2, <2>3, <2>4, <2>5 DEF Keeps, CopyEntry, Lost
  <2> QED
    BY <1>1, <1>3, <2>6, AllKeep DEF StartOK
<1> QED
  BY <1>4, <1>5

LEMMA DiesCopies ==
    ASSUME IInv, CInv, NEW p \in Pids, TraceeDies(p)
    PROVE  CInv'
<1>1. /\ TypeOK /\ LoopOK /\ cur.pid = p /\ cur.status = "exited" /\ pc' = "top"
      /\ proc' = proc /\ seccomp_mode' = seccomp_mode /\ tab' = tab \ {p}
      /\ tr' = [tr EXCEPT ![p] = tracee_add(InitView)]
      /\ origin' = [origin EXCEPT ![p] = "copy"]
  BY DEF IInv, TraceeDies, Got, kernelVars
<1>2. \A q \in Pids \ {p} : tr'[q] = tr[q] /\ origin'[q] = origin[q]
  BY <1>1 DEF TypeOK
<1>3. \A q \in Pids \ {p} : Keeps(q)
  BY <1>1, <1>2, SameKeeps
<1>4. Keeps(p)
  BY <1>1, DeadKeeps DEF LoopOK, Ours, Live, CopyEntry
<1> QED
  BY <1>1, <1>3, <1>4, AllKeep DEF StartOK

LEMMA CleanupCopies ==
    ASSUME IInv, CInv, Cleanup
    PROVE  CInv'
<1>1. /\ TypeOK /\ pc' = "done" /\ tab' = {} /\ tr' = tr /\ origin' = origin
      /\ seccomp_mode' = seccomp_mode /\ proc \in [Pids -> Proc]
      /\ \A q \in Pids : proc'[q] = proc[q] \/ proc'[q] = Die(proc[q])
  BY DEF IInv, TypeOK, Cleanup
<1>2. ASSUME NEW q \in Pids PROVE Keeps(q)
  <2>1. ProcOK(q) /\ pc = "cleanup"
    BY DEF IInv, Cleanup
  <2>2. proc'[q] = proc[q] \/ proc'[q].state = "zombie"
    BY <1>1, DieFacts
  <2>3. CASE q \notin tab
    <3>1. CASE proc'[q] = proc[q]
      BY <1>1, <2>3, <3>1, SameKeeps
    <3>2. CASE proc'[q].state = "zombie"
      BY <1>1, <3>2, DeadKeeps DEF Ours, Live, CopyEntry
    <3> QED
      BY <2>2, <3>1, <3>2
  <2>4. CASE q \in tab
    <3>1. q \in Group(q) \/ proc[q].state = "none"
      BY DEF Group
    <3>2. proc'[q] = Die(proc[q])
      BY <2>1, <2>4, <3>1 DEF Cleanup, ProcOK
    <3>3. ~Live(q)'
      BY <3>2 DEF Die, Gone, NewProc, Live
    <3> QED
      BY <1>1, <3>3, DeadKeeps DEF Ours, CopyEntry
  <2> QED
    BY <2>3, <2>4
<1> QED
  BY <1>1, <1>2, AllKeep DEF StartOK

LEMMA StartCopies ==
    ASSUME IInv, CInv, Start
    PROVE  CInv'
<1>1. /\ TypeOK /\ LoopOK /\ StartOK /\ ProcOK(RootPid) /\ pc = "armed" /\ pc' = "top"
      /\ tab' = {RootPid} /\ seccomp_mode' = seccomp_mode /\ origin' = origin
      /\ tr' = [tr EXCEPT ![RootPid] = [tracee_add(InitView) EXCEPT !.fresh = FALSE]]
      /\ proc' = Resumed(RootPid, How(tr'[RootPid])) /\ tab = {} /\ RootPid \in Pids
  BY PidsAssumption DEF IInv, CInv, Start, LoopOK
<1>2. How(tr'[RootPid]) \in {"CONT", "SYSCALL"}
  BY DEF How
<1>3. /\ \A q \in Pids \ {RootPid} : proc'[q] = proc[q] /\ tr'[q] = tr[q]
      /\ tr'[RootPid].view = InitView
  <2>1. \A q \in Pids \ {RootPid} : proc'[q] = proc[q]
    BY <1>1, <1>2, ResumedFacts DEF TypeOK
  <2> QED
    BY <1>1, <2>1 DEF TypeOK, AnyPid, tracee_add
<1>4. \A q \in Pids \ {RootPid} : Keeps(q)
  BY <1>1, <1>3, SameKeeps
<1>5. \A q \in Pids \ {RootPid} : ~Awaiting(q)'
  BY <1>1, <1>3 DEF LoopOK, Awaiting, Ours, Live
<1>6. Keeps(RootPid)
  <2>1. CASE proc[RootPid].state # "stopped"
    <3>1. proc' = proc
      BY <1>1, <2>1 DEF Resumed
    <3>2. ~Live(RootPid)
      BY <1>1, <2>1 DEF LoopOK, Live
    <3>3. ~Ours(RootPid)'
      BY <3>1, <3>2 DEF Ours, Live
    <3>4. \A r \in Pids : ~Awaiting(r)'
      BY <1>5, <3>3 DEF Awaiting
    <3> QED
      BY <1>1, <3>3, <3>4 DEF Keeps, NotesOK, CopyOK
  <2>2. CASE proc[RootPid].state = "stopped"
    <3>1. proc[RootPid].view = InitView /\ proc[RootPid].at = "user"
      BY <1>1, <2>2 DEF StartOK, Live
    <3>2. /\ proc' = [proc EXCEPT ![RootPid] = [proc[RootPid] EXCEPT !.state = "running",
                        !.report = "nothing", !.resume = How(tr'[RootPid])]]
      BY <1>1, <2>2, <3>1 DEF Resumed
    <3>3. /\ proc'[RootPid].view = InitView /\ proc'[RootPid].at = "user"
          /\ proc'[RootPid].taken = proc[RootPid].taken
      <4>1. proc[RootPid] \in Proc /\ proc \in [Pids -> Proc]
        BY <1>1 DEF TypeOK
      <4>2. proc'[RootPid] = [proc[RootPid] EXCEPT !.state = "running", !.report = "nothing",
                                                  !.resume = How(tr'[RootPid])]
        BY <1>1, <3>2, <4>1
      <4> QED
        BY <3>1, <4>1, <4>2 DEF Proc
    <3>4. \A r \in Pids : ~Awaiting(r)'
      BY <1>5, <3>3 DEF Awaiting
    <3>5. NotesOK(RootPid)' /\ CopyOK(RootPid)'
      BY <1>3, <3>3 DEF NotesOK, UnderWay, CopyOK, Faithful
    <3>6. /\ Ours(RootPid)' => Ours(RootPid)
          /\ ~Lost(RootPid)
          /\ \A v \in Views : Faithful(RootPid, v) => Faithful(RootPid, v)'
      BY <1>1, <2>2, <3>1, <3>3 DEF Ours, Live, Lost, Faithful
    <3> QED
      BY <1>1, <3>4, <3>5, <3>6 DEF Keeps
  <2> QED
    BY <2>1, <2>2
<1> QED
  BY <1>1, <1>4, <1>6, AllKeep DEF StartOK

-----------------------------------------------------------------------------
(* Handling a stop: the entry t and its history o suit where p goes on from. *)
Suits(p, t, o) ==
    /\ o = "copy" => CopyEntry(p)
    /\ (proc[p].state = "stopped" /\ ~proc[p].taken) =>
         /\ (Stops(p) /\ proc[p].at \in {"entry", "event"}) => t.pending = Asked(p)
         /\ o = "copy" => t.view = proc[p].view
         /\ o = "early" => ~Lost(p) /\ ~(proc[p].at = "exit" /\ proc[p].call \in ViewCalls)

LEMMA ResumedViews ==
    ASSUME NEW p \in Pids, NEW how, proc \in [Pids -> Proc], proc' = Resumed(p, how),
           proc[p].state = "stopped"
    PROVE  /\ proc'[p].view = proc[p].view
           /\ proc[p].at \notin {"born", "exit"} => proc'[p].arg = proc[p].arg
<1>1. proc[p] \in Proc
  OBVIOUS
<1>2. CASE proc[p].at \in {"born", "exit"}
  <2>1. proc'[p] = [proc[p] EXCEPT !.state = "running", !.report = "nothing", !.resume = how,
                                   !.at = "user", !.call = "set", !.arg = InitView]
    BY <1>2 DEF Resumed
  <2> QED
    BY <1>1, <1>2, <2>1 DEF Proc
<1>3. CASE proc[p].at \notin {"born", "exit"}
  <2>1. proc'[p] = [proc[p] EXCEPT !.state = "running", !.report = "nothing", !.resume = how]
    BY <1>3 DEF Resumed
  <2> QED
    BY <1>1, <2>1 DEF Proc
<1> QED
  BY <1>2, <1>3

LEMMA HandledKeeps ==
    ASSUME IInv, CInv, NEW p \in Pids, NEW t \in Tracee, NEW o \in Origins, pc = "got",
           cur.pid = p, Suits(p, t, o), p \in tab', tr'[p] = t, origin'[p] = o,
           proc' = Resumed(p, How(t)), seccomp_mode' = seccomp_mode
    PROVE  Keeps(p) /\ ~Awaiting(p)'
<1>1. /\ TypeOK /\ proc \in [Pids -> Proc] /\ How(t) \in {"CONT", "SYSCALL"}
      /\ FlagsOK(p) /\ NotesOK(p)
  BY DEF IInv, TypeOK, CInv, How
<1>2. CopyEntry(p)' => CopyEntry(p)
  BY DEF Suits, CopyEntry
<1>3. CASE proc[p].taken \/ proc[p].state # "stopped"
  <2>1. ~Ours(p)
    BY <1>1, <1>3 DEF FlagsOK, RunningOK, Ours, Live
  <2>2. CASE proc[p].taken
    <3>1. proc'[p].taken
      BY <1>1, <2>2, ResumedFacts
    <3> QED
      BY <1>2, <3>1, DeadKeeps DEF Ours, Awaiting
  <2>3. CASE proc[p].state # "stopped"
    <3>1. proc' = proc
      BY <2>3 DEF Resumed
    <3>2. ~Ours(p)'
      BY <2>1, <3>1 DEF Ours, Live
    <3> QED
      BY <1>2, <3>2, DeadKeeps DEF Awaiting
  <2> QED
    BY <1>3, <2>2, <2>3
<1>4. CASE ~proc[p].taken /\ proc[p].state = "stopped"
  <2>1. StoppedOK(p) /\ proc[p].at \in Places
    BY <1>1, <1>4 DEF FlagsOK, Proc
  <2>2. proc[p].at \in {"born", "user", "entry", "event", "exit"}
    BY <2>1 DEF StoppedOK, Places
  <2>3. /\ proc'[p].state = "running" /\ proc'[p].view = proc[p].view
        /\ proc[p].at \in {"born", "exit"} => proc'[p].at = "user"
        /\ proc[p].at \notin {"born", "exit"} =>
             /\ proc'[p].at = proc[p].at /\ proc'[p].call = proc[p].call
             /\ proc'[p].arg = proc[p].arg
    BY <1>1, <1>4, ResumedFacts, ResumedViews
  <2>4. ~Awaiting(p)' /\ Ours(p)
    BY <1>4, <2>2, <2>3 DEF Awaiting, Ours, Live
  <2>5. NotesOK(p)'
    <3>1. CASE proc'[p].at = "user"
      BY <3>1 DEF NotesOK, UnderWay
    <3>2. CASE proc'[p].at # "user"
      <4>1. /\ proc'[p].at \in {"entry", "event"} /\ Stops(p)' = Stops(p) /\ Asked(p)' = Asked(p)
            /\ proc'[p].at = proc[p].at
        BY <2>2, <2>3, <3>2 DEF Stops, Asked
      <4>2. Stops(p) => t.pending = Asked(p)
        BY <1>4, <4>1 DEF Suits
      <4> QED
        BY <4>1, <4>2 DEF NotesOK
    <3> QED
      BY <3>1, <3>2
  <2>6. CopyOK(p)'
    BY <1>4, <2>3 DEF Suits, CopyOK, Faithful
  <2>7. ASSUME ~Lost(p)', ~CopyEntry(p)'
        PROVE  ~Lost(p) /\ \A v \in Views : Faithful(p, v) => Faithful(p, v)'
    <3>1. o = "early"
      BY <2>7 DEF Lost, CopyEntry, Origins
    <3>2. ~Lost(p) /\ ~(proc[p].at = "exit" /\ proc[p].call \in ViewCalls)
      BY <1>4, <3>1 DEF Suits
    <3> QED
      BY <2>3, <3>2 DEF Faithful
  <2> QED
    BY <1>2, <2>4, <2>5, <2>6, <2>7 DEF Keeps
<1> QED
  BY <1>3, <1>4

LEMMA PutCopies ==
    ASSUME IInv, CInv, NEW p \in Pids, NEW t \in Tracee, NEW o \in Origins, pc = "got",
           cur.pid = p, Suits(p, t, o), Put(p, t, o)
    PROVE  CInv'
<1>1. /\ TypeOK /\ pc' = "top" /\ proc' = Resumed(p, How(t)) /\ seccomp_mode' = seccomp_mode
      /\ tab' = tab \cup {p} /\ tr' = [tr EXCEPT ![p] = t] /\ origin' = [origin EXCEPT ![p] = o]
      /\ proc \in [Pids -> Proc] /\ How(t) \in {"CONT", "SYSCALL"}
  BY DEF IInv, TypeOK, Put, How
<1>2. tr'[p] = t /\ origin'[p] = o /\ p \in tab'
  BY <1>1 DEF TypeOK, AnyPid
<1>3. Keeps(p)
  BY <1>1, <1>2, HandledKeeps
<1>4. \A q \in Pids \ {p} : proc'[q] = proc[q]
  BY <1>1, ResumedFacts
<1>5. \A q \in Pids \ {p} : tr'[q] = tr[q] /\ origin'[q] = origin[q] /\ (q \in tab' <=> q \in tab)
  BY <1>1 DEF TypeOK, AnyPid
<1>6. \A q \in Pids \ {p} : Keeps(q)
  BY <1>1, <1>4, <1>5, SameKeeps
<1> QED
  BY <1>1, <1>3, <1>6, AllKeep DEF StartOK

(* What a stop finds: the entry of a copy at a stop other than the exit of  *)
(* a change, and the change at its exit.                                    *)
LEMMA OldSuits ==
    ASSUME IInv, CInv, NEW p \in Pids, NEW t \in Tracee, t.view = Entry(p).view,
           (proc[p].state = "stopped" /\ ~proc[p].taken) =>
              /\ proc[p].at # "exit"
              /\ (Stops(p) /\ proc[p].at \in {"entry", "event"}) => t.pending = Asked(p)
    PROVE  Suits(p, t, EntryOrigin(p))
<1>1. CopyOK(p)
  BY DEF CInv
<1>2. (EntryOrigin(p) = "copy" => CopyEntry(p)) /\ (EntryOrigin(p) = "early" => ~Lost(p))
  BY DEF EntryOrigin, CopyEntry, Lost
<1>3. (CopyEntry(p) /\ Ours(p) /\ proc[p].at # "exit") => t.view = proc[p].view
  BY <1>1 DEF CopyOK, CopyEntry, Faithful, Entry
<1> QED
  BY <1>2, <1>3 DEF Suits, Ours, Live

LEMMA EntrySuits ==
    ASSUME IInv, CInv, NEW p \in Pids, Entry(p) \in Tracee, NEW u \in Tracee,
           u.view = on_entry(p, Entry(p)).view, u.pending = on_entry(p, Entry(p)).pending,
           (proc[p].state = "stopped" /\ ~proc[p].taken) => proc[p].at = "entry"
    PROVE  Suits(p, u, EntryOrigin(p))
<1>1. u.view = Entry(p).view
  BY DEF on_entry, Tracee
<1>2. proc[p].state = "stopped" => u.pending = Asked(p)
  BY DEF on_entry, Tracee, Asked
<1> QED
  BY <1>1, <1>2, OldSuits

LEMMA ExitSuits ==
    ASSUME IInv, CInv, NEW p \in Pids, Got(p, "syscall"), NEW u \in Tracee,
           u.view = on_exit(p, Entry(p)).view,
           (proc[p].state = "stopped" /\ ~proc[p].taken) => proc[p].at = "exit"
    PROVE  Suits(p, u, AfterCommit(p, Entry(p)))
<1>1. CopyOK(p) /\ NotesOK(p) /\ Entry(p) \in Tracee /\ proc[p] \in Proc
  BY EntryFacts DEF CInv, IInv, TypeOK
<1>2. AfterCommit(p, Entry(p)) = "copy" => CopyEntry(p)
  BY DEF AfterCommit, EntryOrigin, CopyEntry
<1>3. ASSUME proc[p].state = "stopped", ~proc[p].taken
      PROVE  /\ AfterCommit(p, Entry(p)) = "copy" => u.view = proc[p].view
             /\ AfterCommit(p, Entry(p)) = "early" => ~Lost(p) /\ proc[p].call \notin ViewCalls
  <2>1. Ours(p) /\ proc[p].at = "exit" /\ p \in tab
    <3>1. Live(p)
      BY <1>3 DEF Live
    <3> QED
      BY <1>3, <3>1, EntryFacts DEF Ours
  <2>2. Entry(p) = tr[p] /\ tr[p].pending = Asked(p) /\ EntryOrigin(p) = origin[p]
    BY <1>1, <2>1 DEF NotesOK, Entry, EntryOrigin
  <2>3. CASE proc[p].call \in ViewCalls
    <3>1. tr[p].pending = proc[p].arg /\ proc[p].view = proc[p].arg /\ proc[p].arg # NoView
      BY <1>1, <2>1, <2>2, <2>3, NoViewAssumption DEF NotesOK, Asked, Proc
    <3>2. Commits(p, Entry(p))
      BY <1>3, <2>2, <3>1 DEF Commits
    <3>3. u.view = proc[p].view
      BY <1>1, <2>2, <3>1, <3>2 DEF on_exit, Tracee
    <3> QED
      BY <3>2, <3>3 DEF AfterCommit
  <2>4. CASE proc[p].call \notin ViewCalls
    <3>1. ~Commits(p, Entry(p))
      BY <2>2, <2>4 DEF Asked, Commits
    <3>2. u.view = tr[p].view /\ AfterCommit(p, Entry(p)) = origin[p]
      BY <2>2, <3>1 DEF on_exit, AfterCommit
    <3> QED
      BY <1>1, <2>1, <2>4, <3>2 DEF CopyOK, Faithful, Lost
  <2> QED
    BY <2>3, <2>4
<1> QED
  BY <1>2, <1>3 DEF Suits

LEMMA PlainCopies ==
    ASSUME IInv, CInv, NEW p \in Pids, SyscallStopPlain(p)
    PROVE  CInv'
<1> DEFINE t == Entry(p)
           done == IF t.in_syscall THEN on_exit(p, t) ELSE on_entry(p, t)
           t1 == [done EXCEPT !.in_syscall = ~t.in_syscall]
           o == IF t.in_syscall THEN AfterCommit(p, t) ELSE EntryOrigin(p)
<1>1. Got(p, "syscall") /\ ~seccomp_mode /\ Put(p, t1, o)
  BY DEF SyscallStopPlain
<1>2. /\ t \in Tracee /\ EntryOrigin(p) \in Origins /\ pc = "got" /\ cur.pid = p
      /\ Live(p) => ~t.fresh /\ proc[p].at # "born"
      /\ (proc[p].state = "stopped" /\ ~proc[p].taken) => StoppedOK(p) /\ Status(p) = "syscall"
  BY <1>1, EntryFacts
<1>3. done \in Tracee
  BY <1>2, HandlerFacts DEF IInv, TypeOK
<1>4. t1 \in Tracee /\ t1.view = done.view /\ t1.pending = done.pending
  BY <1>2, <1>3 DEF Tracee
<1>5. o \in Origins
  BY <1>2 DEF AfterCommit, Origins
<1>6. (proc[p].state = "stopped" /\ ~proc[p].taken) =>
        \/ proc[p].at = "entry" /\ ~t.in_syscall
        \/ proc[p].at = "exit" /\ t.in_syscall
  <2>1. proc[p].at \in Places
    BY DEF IInv, TypeOK, Proc
  <2> QED
    BY <1>1, <1>2, <2>1 DEF StoppedOK, Places, AsExit, EntryStop, SignalStops, Live
<1>7. Suits(p, t1, o)
  <2>1. CASE t.in_syscall
    <3>1. t1.view = on_exit(p, t).view /\ o = AfterCommit(p, t)
      BY <1>4, <2>1
    <3> HIDE DEF t1, o, done
    <3> QED
      BY <1>1, <1>4, <1>6, <2>1, <3>1, ExitSuits
  <2>2. CASE ~t.in_syscall
    <3>1. done = on_entry(p, t) /\ o = EntryOrigin(p)
      BY <2>2
    <3> HIDE DEF t1, o, done
    <3> QED
      BY <1>2, <1>4, <1>6, <2>2, <3>1, EntrySuits
  <2> QED
    BY <2>1, <2>2
<1> HIDE DEF t1, o, t, done
<1> QED
  BY <1>1, <1>2, <1>4, <1>5, <1>7, PutCopies

LEMMA SeccompExitCopies ==
    ASSUME IInv, CInv, NEW p \in Pids, SyscallStopSeccomp(p)
    PROVE  CInv'
<1> DEFINE t == Entry(p)
<1>1. Got(p, "syscall") /\ seccomp_mode
  BY DEF SyscallStopSeccomp
<1>2. /\ t \in Tracee /\ EntryOrigin(p) \in Origins /\ pc = "got" /\ cur.pid = p
      /\ Live(p) => ~t.fresh /\ proc[p].at # "born"
      /\ (proc[p].state = "stopped" /\ ~proc[p].taken) => StoppedOK(p) /\ Status(p) = "syscall"
  BY <1>1, EntryFacts
<1>3. (proc[p].state = "stopped" /\ ~proc[p].taken) => proc[p].at = "exit" /\ t.awaiting_exit
  <2>1. proc[p].at \in Places
    BY DEF IInv, TypeOK, Proc
  <2> QED
    BY <1>1, <1>2, <2>1 DEF StoppedOK, Places, AsExit, EntryStop, SignalStops, Live
<1>4. CASE t.awaiting_exit
  <2> DEFINE t1 == [on_exit(p, t) EXCEPT !.awaiting_exit = FALSE]
             o == AfterCommit(p, t)
  <2>1. Put(p, t1, o)
    BY <1>1, <1>4 DEF SyscallStopSeccomp
  <2>2. on_exit(p, t) \in Tracee
    BY <1>2, HandlerFacts DEF IInv, TypeOK
  <2>3. t1 \in Tracee /\ t1.view = on_exit(p, t).view
    BY <2>2 DEF Tracee
  <2>4. o \in Origins
    BY <1>2 DEF AfterCommit, Origins
  <2> HIDE DEF t1
  <2>5. Suits(p, t1, o)
    BY <1>1, <1>3, <2>3, ExitSuits
  <2> HIDE DEF o, t
  <2> QED
    BY <1>2, <2>1, <2>3, <2>4, <2>5, PutCopies
<1>5. CASE ~t.awaiting_exit
  <2>1. Put(p, t, EntryOrigin(p)) /\ (EntryOrigin(p) = "copy" => CopyEntry(p))
    BY <1>1, <1>5 DEF SyscallStopSeccomp, EntryOrigin, CopyEntry
  <2>2. Suits(p, t, EntryOrigin(p))
    BY <1>3, <1>5, <2>1 DEF Suits
  <2> HIDE DEF t
  <2> QED
    BY <1>2, <2>1, <2>2, PutCopies
<1> QED
  BY <1>4, <1>5

LEMMA SeccompEntryCopies ==
    ASSUME IInv, CInv, NEW p \in Pids, SeccompStop(p)
    PROVE  CInv'
<1> DEFINE t == Entry(p)
           t1 == [on_entry(p, t) EXCEPT !.awaiting_exit = TRUE]
<1>1. Got(p, "seccomp") /\ Put(p, t1, EntryOrigin(p))
  BY DEF SeccompStop
<1>2. /\ t \in Tracee /\ EntryOrigin(p) \in Origins /\ pc = "got" /\ cur.pid = p
      /\ Live(p) => ~t.fresh /\ proc[p].at # "born"
      /\ (proc[p].state = "stopped" /\ ~proc[p].taken) => StoppedOK(p) /\ Status(p) = "seccomp"
  BY <1>1, EntryFacts
<1>3. on_entry(p, t) \in Tracee
  BY <1>2, HandlerFacts DEF IInv, TypeOK
<1>4. t1 \in Tracee /\ t1.view = on_entry(p, t).view /\ t1.pending = on_entry(p, t).pending
  BY <1>3 DEF Tracee
<1>5. (proc[p].state = "stopped" /\ ~proc[p].taken) => proc[p].at = "entry"
  <2>1. proc[p].at \in Places
    BY DEF IInv, TypeOK, Proc
  <2> QED
    BY <1>2, <2>1 DEF StoppedOK, Places, EntryStop, SignalStops, Live
<1> HIDE DEF t1
<1>6. Suits(p, t1, EntryOrigin(p))
  BY <1>2, <1>4, <1>5, EntrySuits
<1> HIDE DEF t
<1> QED
  BY <1>1, <1>2, <1>4, <1>6, PutCopies

LEMMA SignalCopies ==
    ASSUME IInv, CInv, NEW p \in Pids, SignalStop(p)
    PROVE  CInv'
<1> DEFINE t == Entry(p)
           t1 == [t EXCEPT !.fresh = t.fresh /\ cur.status # "SIGSTOP"]
<1>1. PICK s \in SignalStops : Got(p, s)
  BY DEF SignalStop
<1>2. Put(p, t1, EntryOrigin(p))
  BY <1>1 DEF SignalStop
<1>3. /\ t \in Tracee /\ EntryOrigin(p) \in Origins /\ pc = "got" /\ cur.pid = p
      /\ (proc[p].state = "stopped" /\ ~proc[p].taken) => StoppedOK(p) /\ Status(p) = s
  BY <1>1, EntryFacts
<1>4. t1 \in Tracee /\ t1.view = t.view
  BY <1>3 DEF Tracee
<1>5. (proc[p].state = "stopped" /\ ~proc[p].taken) => proc[p].at \in {"born", "user"}
  <2>1. proc[p].at \in Places
    BY DEF IInv, TypeOK, Proc
  <2> QED
    BY <1>3, <2>1 DEF StoppedOK, Places, EntryStop, SignalStops
<1> HIDE DEF t1
<1>6. Suits(p, t1, EntryOrigin(p))
  BY <1>4, <1>5, OldSuits
<1> HIDE DEF t
<1> QED
  BY <1>2, <1>3, <1>4, <1>6, PutCopies

(* The fork event makes the child a copy: it had its parent's view, and no  *)
(* other parent is waiting to tell of it.                                   *)
LEMMA ForkEventCopies ==
    ASSUME IInv, CInv, NEW p \in Pids, ForkEventStop(p)
    PROVE  CInv'
<1> USE PidsAssumption
<1> DEFINE t == Entry(p)
           before == tab \cup {p}
<1>1. PICK c : c = EventChild(p)
  OBVIOUS
<1> DEFINE child == tracee_inherit(IF c \in before THEN tr[c] ELSE tracee_add(InitView), t)
           inherited ==
             IF EntryOrigin(p) # "copy" \/ proc[p].taken \/ (c \in tab /\ origin[c] = "lost")
             THEN "lost" ELSE "copy"
           Told == /\ tab' = before \cup {c}
                   /\ tr' = [tr EXCEPT ![p] = t, ![c] = child]
                   /\ origin' = [origin EXCEPT ![p] = EntryOrigin(p), ![c] = inherited]
           Untold == /\ c \notin before /\ tab' = before /\ tr' = [tr EXCEPT ![p] = t]
                     /\ origin' = [origin EXCEPT ![p] = EntryOrigin(p)]
<1>2. /\ Got(p, "forked") /\ pc' = "top" /\ proc' = Resumed(p, How(t))
      /\ seccomp_mode' = seccomp_mode /\ (Told \/ Untold)
  BY <1>1 DEF ForkEventStop
<1>3. /\ t \in Tracee /\ EntryOrigin(p) \in Origins /\ pc = "got" /\ cur.pid = p
      /\ Live(p) => p \in tab /\ proc[p].at # "born"
      /\ (proc[p].state = "stopped" /\ ~proc[p].taken) => StoppedOK(p) /\ Status(p) = "forked"
  BY <1>2, EntryFacts
<1>4. /\ TypeOK /\ proc \in [Pids -> Proc] /\ How(t) \in {"CONT", "SYSCALL"} /\ c \in AnyPid
      /\ tr \in [AnyPid -> Tracee] /\ origin \in [AnyPid -> Origins] /\ p \in AnyPid
      /\ c \in Pids => proc[p].state = "stopped" /\ c = proc[p].child
  BY <1>1 DEF IInv, TypeOK, How, EventChild, Proc, AnyPid
<1>5. (proc[p].state = "stopped" /\ ~proc[p].taken) => proc[p].at = "event"
  <2>1. proc[p].at \in Places
    BY <1>4 DEF Proc
  <2> QED
    BY <1>3, <2>1 DEF StoppedOK, Places, EntryStop, SignalStops, Live
<1>6. (proc[p].state = "stopped" /\ ~proc[p].taken) => Awaiting(p) /\ c \in Pids /\ c # p
  <2> SUFFICES ASSUME proc[p].state = "stopped", ~proc[p].taken
               PROVE  Awaiting(p) /\ c \in Pids /\ c # p
    OBVIOUS
  <2>1. Awaiting(p) /\ c = proc[p].child
    BY <1>1, <1>5 DEF Awaiting, Ours, Live, EventChild
  <2>2. c \in Pids
    BY <2>1 DEF CInv
  <2>3. ChildOK(p, c)
    BY <2>2 DEF CInv
  <2> QED
    BY <2>1, <2>2, <2>3 DEF ChildOK
<1>7. \A q \in Pids \ {p} : proc'[q] = proc[q]
  BY <1>2, <1>4, ResumedFacts
<1>8. ~Awaiting(p)' /\ Keeps(p)
  <2>1. CASE c # p
    <3>1. p \in tab' /\ tr'[p] = t /\ origin'[p] = EntryOrigin(p)
      BY <1>2, <1>4, <2>1
    <3>2. Suits(p, t, EntryOrigin(p))
      <4>1. NotesOK(p)
        BY DEF CInv
      <4>2. (proc[p].state = "stopped" /\ ~proc[p].taken /\ Stops(p)) => t.pending = Asked(p)
        BY <1>3, <1>5, <4>1 DEF NotesOK, UnderWay, Ours, Live, Entry
      <4> QED
        BY <1>3, <1>5, <4>2, OldSuits
    <3> HIDE DEF t, child, inherited, before
    <3> QED
      BY <1>2, <1>3, <3>1, <3>2, HandledKeeps
  <2>2. CASE c = p
    <3>1. proc[p].taken /\ proc[p].state = "stopped"
      BY <1>4, <1>6, <2>2
    <3>2. proc'[p].taken /\ ~Untold
      BY <1>2, <1>4, <2>2, <3>1, ResumedFacts
    <3>3. origin'[p] = "lost"
      BY <1>2, <1>4, <2>2, <3>1, <3>2
    <3> QED
      BY <3>2, <3>3, DeadKeeps DEF Ours, Awaiting, CopyEntry
  <2> QED
    BY <2>1, <2>2
<1>9. ASSUME NEW q \in Pids, q # p, q # c \/ Untold PROVE Keeps(q)
  <2>1. tr'[q] = tr[q] /\ origin'[q] = origin[q] /\ (q \in tab' <=> q \in tab)
    BY <1>2, <1>4, <1>9 DEF AnyPid
  <2> QED
    BY <1>2, <1>7, <1>9, <2>1, SameKeeps
<1>10. ASSUME c \in Pids, c # p, Told PROVE Keeps(c)
  <2>1. /\ proc'[c] = proc[c] /\ c \in tab' /\ tr'[c] = child /\ origin'[c] = inherited
    BY <1>4, <1>7, <1>10
  <2>2. /\ (Ours(c)' <=> Ours(c)) /\ (Awaiting(c)' <=> Awaiting(c)) /\ (Stops(c)' <=> Stops(c))
        /\ (UnderWay(c)' <=> UnderWay(c)) /\ Asked(c)' = Asked(c)
    BY <1>2, <2>1 DEF Ours, Live, Awaiting, Stops, UnderWay, Asked
  <2>3. tr[c] \in Tracee /\ child.view = t.view /\ (c \in tab => child.pending = tr[c].pending)
    BY <1>4, <1>10, ViewsAssumption DEF tracee_inherit, tracee_add, Tracee
  <2>4. NotesOK(c)'
    <3>1. NotesOK(c) /\ ProcOK(c)
      BY <1>10 DEF CInv, IInv
    <3>2. CASE c \in tab
      BY <2>1, <2>2, <2>3, <3>1, <3>2 DEF NotesOK
    <3>3. CASE c \notin tab
      <4>1. Live(c) => proc'[c].at = "born"
        BY <1>3, <2>1, <3>1, <3>3 DEF ProcOK
      <4> QED
        BY <2>2, <4>1 DEF NotesOK, UnderWay, Ours
    <3> QED
      BY <3>2, <3>3
  <2>5. CASE inherited = "lost"
    BY <2>1, <2>2, <2>4, <2>5 DEF Keeps, CopyOK, CopyEntry, Lost
  <2>6. CASE inherited # "lost"
    <3>1. /\ EntryOrigin(p) = "copy" /\ ~proc[p].taken /\ ~(c \in tab /\ origin[c] = "lost")
          /\ origin'[c] = "copy" /\ proc[p].state = "stopped"
      BY <1>4, <1>10, <2>1, <2>6
    <3>2. Awaiting(p) /\ c = proc[p].child /\ proc[p].at = "event"
      BY <1>4, <1>5, <1>6, <1>10, <3>1
    <3>3. CopyOK(p) /\ ChildOK(p, c)
      BY <1>10 DEF CInv
    <3>4. Ours(p) /\ p \in tab /\ origin[p] = "copy" /\ t = tr[p]
      BY <3>1, <3>2 DEF EntryOrigin, Awaiting, Entry
    <3>5. PICK v : v = proc[p].view
      OBVIOUS
    <3>6. t.view = v
      BY <3>2, <3>3, <3>4, <3>5 DEF CopyOK, Faithful
    <3>7. Ours(c) => Faithful(c, v)
      BY <3>1, <3>2, <3>3, <3>5 DEF ChildOK
    <3>8. \A r \in Pids : Awaiting(r)' => proc'[r].child # c
      <4>1. ASSUME NEW r \in Pids, Awaiting(r)' PROVE proc'[r].child # c
        <5>1. r # p /\ proc'[r] = proc[r]
          BY <1>7, <1>8, <4>1
        <5>2. Awaiting(r)
          BY <4>1, <5>1 DEF Awaiting, Ours, Live
        <5> QED
          BY <3>2, <3>3, <5>1, <5>2 DEF ChildOK
      <4> QED
        BY <4>1
    <3>9. CopyOK(c)'
      BY <2>1, <2>2, <2>3, <3>6, <3>7 DEF CopyOK, Faithful
    <3>10. CopyEntry(c)'
      BY <2>1, <3>1 DEF CopyEntry
    <3> QED
      BY <2>1, <2>2, <2>4, <3>8, <3>9, <3>10 DEF Keeps
  <2> QED
    BY <2>5, <2>6
<1>11. \A q \in Pids : Keeps(q)
  <2> HIDE DEF Told, Untold
  <2> QED
    BY <1>2, <1>8, <1>9, <1>10
<1> QED
  BY <1>2, <1>4, <1>11, AllKeep DEF StartOK

-----------------------------------------------------------------------------
LEMMA InitCInv == Init => CInv
<1> SUFFICES ASSUME Init PROVE CInv
  OBVIOUS
<1> USE PidsAssumption
<1>1. /\ tab = {} /\ origin = [p \in AnyPid |-> "copy"]
      /\ proc = [p \in Pids |->
           IF p = RootPid
           THEN [NewProc(p, InitView) EXCEPT !.at = "user", !.report = "nothing"]
           ELSE Gone(NewProc(p, InitView), "none", "nothing")]
  BY DEF Init, GuestInit
<1>2. \A p \in Pids \ {RootPid} : proc[p].state = "none"
  BY <1>1 DEF Gone, NewProc
<1>3. proc[RootPid].at = "user" /\ proc[RootPid].view = InitView
  BY <1>1 DEF NewProc
<1>4. StartOK
  BY <1>1, <1>3 DEF StartOK, AnyPid
<1>5. ASSUME NEW p \in Pids PROVE NotesOK(p) /\ CopyOK(p) /\ ~Awaiting(p)
  <2>1. CASE p = RootPid
    BY <1>1, <1>3, <2>1 DEF NotesOK, UnderWay, CopyOK, Awaiting
  <2>2. CASE p # RootPid
    <3>1. ~Ours(p)
      BY <1>2, <2>2 DEF Ours, Live
    <3> QED
      BY <3>1 DEF NotesOK, CopyOK, Awaiting
  <2> QED
    BY <2>1, <2>2
<1> QED
  BY <1>4, <1>5 DEF CInv, ChildOK

LEMMA NextCInv == IInv /\ CInv /\ [Next]_vars => CInv'
<1> SUFFICES ASSUME IInv, CInv, [Next]_vars PROVE CInv'
  OBVIOUS
<1>0. TypeOK
  BY DEF IInv
<1>1. CASE UNCHANGED vars
  BY <1>0, <1>1, QuietCopies DEF vars, kernelVars, tracerVars
<1>2. CASE TracerStep
  <2>1. CASE Start
    BY <2>1, StartCopies
  <2>2. CASE Block \/ CheckStop \/ WaitAgain \/ OutOfMemory \/ RootDies
    <3>1. UNCHANGED <<kernelVars, tab, tr, origin>> /\ pc' # "armed"
      BY <2>2 DEF Block, CheckStop, WaitAgain, OutOfMemory, RootDies, kernelVars
    <3> QED
      BY <1>0, <3>1, QuietCopies
  <2>3. CASE Cleanup
    BY <2>3, CleanupCopies
  <2>4. ASSUME NEW p \in Pids, HandleStatus(p) PROVE CInv'
    BY <2>4, DiesCopies, PlainCopies, SeccompExitCopies, SeccompEntryCopies, ForkEventCopies,
       SignalCopies
       DEF HandleStatus
  <2> QED
    BY <1>2, <2>1, <2>2, <2>3, <2>4 DEF TracerStep
<1>3. CASE WaitInterrupted \/ StopSignal
  <2>1. UNCHANGED <<kernelVars, tab, tr, origin>> /\ (pc' = "armed" => pc = "armed")
    BY <1>3 DEF WaitInterrupted, StopSignal, kernelVars
  <2> QED
    BY <1>0, <2>1, QuietCopies
<1>4. ASSUME NEW p \in Pids, WaitReturns(p) \/ GuestRuns(p) PROVE CInv'
  BY <1>4, WaitCopies, GuestCopies
<1> QED
  BY <1>1, <1>2, <1>3, <1>4 DEF Next

LEMMA AlwaysCInv == Spec => []CInv
BY InitCInv, NextCInv, AlwaysIInv, PTL DEF Spec

(* The identity the tracer answers with is the process's own: a child       *)
(* started from a copied entry and told of in time stays faithful through   *)
(* every call of its own, of its parent and of its children.                *)
THEOREM CopiesFaithful == Spec => []CopyIsFaithful
<1>1. IInv /\ CInv => CopyIsFaithful
  <2> SUFFICES ASSUME IInv, CInv, NEW p \in Pids, origin[p] = "copy", ~proc[p].taken,
                      proc[p].state = "running", proc[p].at \in {"user", "entry"}
               PROVE  tr[p].view = proc[p].view
    BY DEF CopyIsFaithful, Trusts
  <2>1. LoopOK /\ ProcOK(p) /\ CopyOK(p) /\ Ours(p)
    BY DEF IInv, CInv, Ours, Live
  <2>2. pc # "armed"
    BY <2>1 DEF LoopOK
  <2>3. p \in tab
    BY <2>1, <2>2 DEF ProcOK, Ours
  <2> QED
    BY <2>1, <2>3 DEF CopyOK, Faithful
<1> QED
  BY <1>1, AlwaysIInv, AlwaysCInv, PTL
=============================================================================
