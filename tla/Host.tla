-------------------------------- MODULE Host --------------------------------
(***************************************************************************)
(* emuroot inside an app: the Java classes (Emuroot, EmurootProcess), the  *)
(* JNI glue and emuroot_spawn, emuroot_wait, emuroot_terminate (spawn.c).  *)
(* The app's threads, the one thread that starts guests, the supervisor    *)
(* processes and the guests under them all run beside each other, and the  *)
(* app may die at any moment.                                              *)
(*                                                                         *)
(* What a supervisor runs is one of two engines: "ptrace" (Tracer has its  *)
(* inside) or "envonly", the fallback that does not trace.                 *)
(***************************************************************************)
EXTENDS Integers, Sequences, FiniteSets

CONSTANTS
    Runs,           \* the guests the app starts
    Threads,        \* app threads that use them
    Engines,        \* the engines to cover
    HostIgnores,    \* whether the app ignores or blocks SIGTERM: the cases to cover
    Statuses,       \* how a guest ends: [signal, n]
    None            \* null

ASSUME EnginesAssumption == Engines \subseteq {"ptrace", "envonly"}
ASSUME IgnoresAssumption == HostIgnores \subseteq BOOLEAN
(* a wait status has eight bits for an exit code and seven for a signal *)
ASSUME StatusesAssumption ==
    Statuses \subseteq [signal : {FALSE}, n : 0..255] \cup [signal : {TRUE}, n : 1..127]
ASSUME NoneAssumption ==
    None \notin -1..255 /\ None \notin [signal : BOOLEAN, n : 0..255]

VARIABLES
    app,            \* the app process is alive
    ignores,        \* it ignores or blocks SIGTERM
    closed,         \* Emuroot.closed, and with it the context freed
    queue,          \* SPAWNER's tasks
    task,           \* where each start is, in the thread that runs nativeStart
    caller,         \* and in the thread that called start
    fds,            \* the pipe ends open in the app
    sup,            \* each supervisor: [at, tied, held, status]
    guest,          \* and its guest
    pid,            \* whom the supervisor's pid names
    exitValue,      \* EmurootProcess.exitValue
    thr,            \* what each thread does in an EmurootProcess
    ended,          \* history: how a guest ended by itself
    others          \* history: what happened to the app's other children

startVars == <<closed, queue, task, caller>>
useVars == <<exitValue, thr, others>>
vars == <<app, ignores, startVars, fds, sup, guest, pid, useVars, ended>>

SIGKILL == 9
SIGTERM == 15
Exited(n) == [signal |-> FALSE, n |-> n]
Signalled(n) == [signal |-> TRUE, n |-> n]

(* 128+N if it died of signal N: emuroot_run_ptrace, emuroot_run_envonly   *)
(* and, of the supervisor, emuroot_wait                                    *)
Code(st) == IF st.signal THEN 128 + st.n ELSE st.n

\* variant: one bit too few
exit_SevenBits(rc) == Exited(IF rc < 0 THEN 127 ELSE rc % 128)

(* _exit(rc < 0 ? 127 : rc & 0xff) *)
exit(rc) == Exited(IF rc < 0 THEN 127 ELSE rc % 256)

(* the app's three ends of a run's pipes, and the guest's three *)
AppEnds(r) == <<r, "app">>
GuestEnds(r) == <<r, "guest">>
Ends == Runs \X {"app", "guest"}

NoSup == [at |-> "none", tied |-> FALSE, held |-> {}, status |-> None]
Idle == [op |-> "idle", r |-> None, closes |-> FALSE, got |-> None]

Init ==
    /\ app = TRUE /\ ignores \in HostIgnores /\ closed = FALSE
    /\ queue = <<>> /\ fds = {}
    /\ task = [r \in Runs |-> "none"] /\ caller = [r \in Runs |-> "none"]
    /\ sup = [r \in Runs |-> NoSup]
    /\ guest = [r \in Runs |-> "none"] /\ pid = [r \in Runs |-> "none"]
    /\ exitValue = [r \in Runs |-> None]
    /\ thr = [t \in Threads |-> Idle]
    /\ ended = [r \in Runs |-> None] /\ others = {}

-----------------------------------------------------------------------------
(* Emuroot.start: the test of closed, then a task for SPAWNER.             *)
Start(r) ==
    /\ app /\ task[r] = "none" /\ ~closed
    /\ task' = [task EXCEPT ![r] = "queued"] /\ caller' = [caller EXCEPT ![r] = "waiting"]
    /\ queue' = Append(queue, r)
    /\ UNCHANGED <<app, ignores, closed, fds, sup, guest, pid, useVars, ended>>

(* Emuroot.close *)
Close ==
    /\ app /\ ~closed /\ closed' = TRUE
    /\ UNCHANGED <<app, ignores, queue, task, caller, fds, sup, guest, pid, useVars, ended>>

\* variant: as many threads as there are tasks
Spawning_AnyThread(r, at) == app /\ task[r] = at

(* nativeStart, on SPAWNER's single thread *)
Spawning(r, at) == app /\ queue # <<>> /\ Head(queue) = r /\ task[r] = at
TaskDone(r, how) ==
    task' = [task EXCEPT ![r] = how] /\ queue' = Tail(queue)

OpenPipes(r) ==
    /\ Spawning(r, "queued")
    /\ \/ task' = [task EXCEPT ![r] = "piped"] /\ fds' = fds \cup {AppEnds(r), GuestEnds(r)}
          /\ queue' = queue
       \/ TaskDone(r, "failed") /\ fds' = fds
    /\ UNCHANGED <<app, ignores, closed, caller, sup, guest, pid, useVars, ended>>

(* emuroot_spawn: the supervisor is a copy of the app, descriptors         *)
(* included.  (A context that Emuroot.close has freed in the meantime is   *)
(* copied as it is; emuroot_run may then do anything it may do at all.)    *)
Fork(r) ==
    /\ Spawning(r, "piped")
    /\ task' = [task EXCEPT ![r] = "forked"]
    /\ sup' = [sup EXCEPT ![r] = [NoSup EXCEPT !.at = "forked", !.held = fds]]
    /\ pid' = [pid EXCEPT ![r] = "supervisor"]
    /\ UNCHANGED <<app, ignores, closed, queue, caller, fds, guest, useVars, ended>>

ForkFails(r) ==
    /\ Spawning(r, "piped") /\ TaskDone(r, "failed")
    /\ fds' = fds \ {AppEnds(r), GuestEnds(r)}
    /\ UNCHANGED <<app, ignores, closed, caller, sup, guest, pid, useVars, ended>>

(* The result goes back to start - unless there is no memory for it: then  *)
(* start fails, with the guest running and the app's ends open.            *)
Started(r) ==
    /\ Spawning(r, "forked")
    /\ TaskDone(r, "started") \/ TaskDone(r, "failed")
    /\ fds' = fds \ {GuestEnds(r)}
    /\ UNCHANGED <<app, ignores, closed, caller, sup, guest, pid, useVars, ended>>

Returns(r) ==
    /\ app /\ caller[r] = "waiting" /\ task[r] \in {"started", "failed"}
    /\ caller' = [caller EXCEPT ![r] = IF task[r] = "started" THEN "has process" ELSE "threw"]
    /\ UNCHANGED <<app, ignores, closed, queue, task, fds, sup, guest, pid, useVars, ended>>

(* InterruptedException: the task goes on without its caller *)
Interrupted(r) ==
    /\ app /\ caller[r] = "waiting"
    /\ caller' = [caller EXCEPT ![r] = "threw"]
    /\ UNCHANGED <<app, ignores, closed, queue, task, fds, sup, guest, pid, useVars, ended>>

-----------------------------------------------------------------------------
(* The supervisor.  Its death leaves a zombie with its status, and takes a *)
(* traced guest with it (PTRACE_O_EXITKILL, or PR_SET_PDEATHSIG).          *)
Dead(s, st) == [s EXCEPT !.at = "dead", !.held = {}, !.status = st]
Takes(r) == IF sup[r].at = "ptrace" THEN "dead" ELSE guest[r]
SupDies(r, st) ==
    /\ sup' = [sup EXCEPT ![r] = Dead(@, st)]
    /\ guest' = [guest EXCEPT ![r] = Takes(r)]

SupStep(r, from, to) ==
    /\ sup[r].at = from
    /\ sup' = [sup EXCEPT ![r] = to]
    /\ UNCHANGED <<app, ignores, startVars, fds, guest, pid, useVars, ended>>

(* prctl(PR_SET_PDEATHSIG, SIGKILL): it takes effect if the app dies later *)
DieWithParent(r) == SupStep(r, "forked", [sup[r] EXCEPT !.at = "tied", !.tied = app])

reset_signals(r) == SupStep(r, "tied", [sup[r] EXCEPT !.at = "reset"])

(* dup2 of the guest's ends onto 0, 1, 2 *)
TakeFds(r) ==
    \/ SupStep(r, "reset", [sup[r] EXCEPT !.at = "wired"])
    \/ SupStep(r, "reset", Dead(sup[r], exit(-1)))

\* variant: the descriptors of the host stay open
close_inherited_fds_None(r) == SupStep(r, "wired", [sup[r] EXCEPT !.at = "ready"])

close_inherited_fds(r) ==
    SupStep(r, "wired", [sup[r] EXCEPT !.at = "ready", !.held = {GuestEnds(r)}])

(* emuroot_run: probe, then one of the engines starts the guest, or fails  *)
emuroot_run(r) ==
    /\ sup[r].at = "ready"
    /\ \/ \E e \in Engines :
            /\ sup' = [sup EXCEPT ![r].at = e]
            /\ guest' = [guest EXCEPT ![r] = "alive"]
       \/ SupDies(r, exit(-1))
    /\ UNCHANGED <<app, ignores, startVars, fds, pid, useVars, ended>>

(* The guest's first process ends; so does the engine, and the supervisor. *)
GuestExits(r) == \E st \in Statuses :
    /\ guest[r] = "alive" /\ sup[r].at \in {"ptrace", "envonly"}
    /\ guest' = [guest EXCEPT ![r] = "dead"]
    /\ sup' = [sup EXCEPT ![r] = Dead(@, exit(Code(st)))]
    /\ ended' = [ended EXCEPT ![r] = st]
    /\ UNCHANGED <<app, ignores, startVars, fds, pid, useVars>>

(* an untraced guest nobody waits for *)
OrphanExits(r) ==
    /\ guest[r] = "alive" /\ sup[r].at = "dead"
    /\ guest' = [guest EXCEPT ![r] = "dead"]
    /\ UNCHANGED <<app, ignores, startVars, fds, sup, pid, useVars, ended>>

(* SIGKILL from outside (low memory) *)
SupKilled(r) ==
    /\ sup[r].at \notin {"none", "dead"}
    /\ SupDies(r, Signalled(SIGKILL))
    /\ UNCHANGED <<app, ignores, startVars, fds, pid, useVars, ended>>

(* The app dies: its threads are gone, and every supervisor tied to it.    *)
AppDies ==
    /\ app /\ app' = FALSE
    /\ LET killed == {r \in Runs : sup[r].tied /\ sup[r].at # "dead"}
       IN  /\ sup' = [r \in Runs |-> IF r \in killed
                                     THEN Dead(sup[r], Signalled(SIGKILL)) ELSE sup[r]]
           /\ guest' = [r \in Runs |-> IF r \in killed THEN Takes(r) ELSE guest[r]]
    /\ fds' = {} /\ thr' = [t \in Threads |-> Idle]
    /\ UNCHANGED <<ignores, startVars, pid, exitValue, others, ended>>

-----------------------------------------------------------------------------
(* EmurootProcess.waitFor, synchronized: one thread at a time is past the  *)
(* test of exitValue.                                                      *)
Has(r) == app /\ caller[r] = "has process"
InMonitor(r) == \E t \in Threads : thr[t].r = r /\ thr[t].op \in {"wait", "waited"}

\* variant: not synchronized
WaitFor_Unlocked(t, r) ==
    /\ Has(r) /\ thr[t] = Idle /\ exitValue[r] = None
    /\ thr' = [thr EXCEPT ![t] = [Idle EXCEPT !.op = "wait", !.r = r]]
    /\ UNCHANGED <<app, ignores, startVars, fds, sup, guest, pid, exitValue, others, ended>>

WaitFor(t, r) ==
    /\ Has(r) /\ thr[t] = Idle /\ ~InMonitor(r) /\ exitValue[r] = None
    /\ thr' = [thr EXCEPT ![t] = [Idle EXCEPT !.op = "wait", !.r = r]]
    /\ UNCHANGED <<app, ignores, startVars, fds, sup, guest, pid, exitValue, others, ended>>

\* variant: the status word as it is
emuroot_wait_Raw(t) ==
    LET r == thr[t].r
    IN  /\ thr[t].op = "wait"
        /\ pid[r] = "supervisor" => sup[r].at = "dead"
        /\ thr' = [thr EXCEPT ![t].op = "waited",
                     ![t].got = IF pid[r] = "supervisor" THEN 256 * sup[r].status.n ELSE -1]
        /\ pid' = [pid EXCEPT ![r] = IF @ = "supervisor" THEN "nobody" ELSE @]
        /\ others' = IF pid[r] = "other" THEN others \cup {"reaped"} ELSE others
        /\ UNCHANGED <<app, ignores, startVars, fds, sup, guest, exitValue, ended>>

(* emuroot_wait: waitpid(supervisor), whoever has that pid *)
emuroot_wait(t) ==
    LET r == thr[t].r
    IN  /\ thr[t].op = "wait"
        /\ pid[r] = "supervisor" => sup[r].at = "dead"
        /\ thr' = [thr EXCEPT ![t].op = "waited",
                     ![t].got = IF pid[r] = "supervisor" THEN Code(sup[r].status) ELSE -1]
        /\ pid' = [pid EXCEPT ![r] = IF @ = "supervisor" THEN "nobody" ELSE @]
        /\ others' = IF pid[r] = "other" THEN others \cup {"reaped"} ELSE others
        /\ UNCHANGED <<app, ignores, startVars, fds, sup, guest, exitValue, ended>>

WaitReturns(t) ==
    /\ thr[t].op = "waited"
    /\ exitValue' = [exitValue EXCEPT ![thr[t].r] = thr[t].got]
    /\ thr' = [thr EXCEPT ![t] = Idle]
    /\ UNCHANGED <<app, ignores, startVars, fds, sup, guest, pid, others, ended>>

(* destroy, not synchronized: the test of exitValue, then the signal.      *)
(* EmurootProcess.close goes on to close the app's ends.                   *)
Destroy(t, r) == \E closes \in BOOLEAN :
    /\ Has(r) /\ thr[t] = Idle /\ exitValue[r] = None
    /\ thr' = [thr EXCEPT ![t] = [Idle EXCEPT !.op = "kill", !.r = r, !.closes = closes]]
    /\ UNCHANGED <<app, ignores, startVars, fds, sup, guest, pid, exitValue, others, ended>>

CloseEnded(r) ==
    /\ Has(r) /\ exitValue[r] # None
    /\ fds' = fds \ {AppEnds(r)}
    /\ UNCHANGED <<app, ignores, startVars, sup, guest, pid, useVars, ended>>

(* SIGTERM at a supervisor: with the app's own disposition until it is     *)
(* reset, then the default; the ptrace engine kills its guest and returns  *)
(* 128 + SIGTERM, or misses the signal (Tracer's StopHonoured).            *)
Terminated(r) ==
    CASE sup[r].at \in {"forked", "tied"} /\ ignores -> UNCHANGED <<sup, guest>>
      [] sup[r].at = "dead" -> UNCHANGED <<sup, guest>>
      [] sup[r].at = "ptrace" -> \/ UNCHANGED <<sup, guest>>
                                 \/ SupDies(r, exit(128 + SIGTERM))
      [] OTHER -> SupDies(r, Signalled(SIGTERM))

emuroot_terminate(t) ==
    LET r == thr[t].r
    IN  /\ thr[t].op = "kill"
        /\ IF pid[r] = "supervisor" THEN Terminated(r) ELSE UNCHANGED <<sup, guest>>
        /\ others' = IF pid[r] = "other" THEN others \cup {"signalled"} ELSE others
        /\ thr' = [thr EXCEPT ![t] = Idle]
        /\ fds' = IF thr[t].closes THEN fds \ {AppEnds(r)} ELSE fds
        /\ UNCHANGED <<app, ignores, startVars, pid, exitValue, ended>>

(* The kernel gives a collected supervisor's pid to another child of the app. *)
PidReused(r) ==
    /\ app /\ pid[r] = "nobody"
    /\ pid' = [pid EXCEPT ![r] = "other"]
    /\ UNCHANGED <<app, ignores, startVars, fds, sup, guest, useVars, ended>>

-----------------------------------------------------------------------------
Next ==
    \/ Close \/ AppDies
    \/ \E r \in Runs :
        \/ Start(r) \/ OpenPipes(r) \/ Fork(r) \/ ForkFails(r) \/ Started(r)
        \/ Returns(r) \/ Interrupted(r)
        \/ DieWithParent(r) \/ reset_signals(r) \/ TakeFds(r) \/ close_inherited_fds(r)
        \/ emuroot_run(r) \/ GuestExits(r) \/ OrphanExits(r) \/ SupKilled(r)
        \/ CloseEnded(r) \/ PidReused(r)
        \/ \E t \in Threads : WaitFor(t, r) \/ Destroy(t, r)
    \/ \E t \in Threads : emuroot_wait(t) \/ WaitReturns(t) \/ emuroot_terminate(t)

Spec == Init /\ [][Next]_vars

-----------------------------------------------------------------------------
(* The values of the variables. *)
TypeOK ==
    /\ app \in BOOLEAN /\ ignores \in BOOLEAN /\ closed \in BOOLEAN
    /\ queue \in Seq(Runs) /\ fds \subseteq Ends
    /\ task \in [Runs -> {"none", "queued", "piped", "forked", "started", "failed"}]
    /\ caller \in [Runs -> {"none", "waiting", "has process", "threw"}]
    /\ \A r \in Runs :
        /\ sup[r].at \in {"none", "forked", "tied", "reset", "wired", "ready",
                          "ptrace", "envonly", "dead"}
        /\ sup[r].tied \in BOOLEAN /\ sup[r].held \subseteq Ends
        /\ sup[r].at = "dead" <=> sup[r].status # None
        /\ exitValue[r] = None \/ exitValue[r] \in -1..255
    /\ guest \in [Runs -> {"none", "alive", "dead"}]
    /\ pid \in [Runs -> {"none", "supervisor", "nobody", "other"}]
    /\ others \subseteq {"signalled", "reaped"}

(* "It forks a supervisor that runs the guest and exits with the guest's   *)
(* status": what waitFor answers is how the guest ended, whenever the      *)
(* guest ended by itself, through every conversion on the way.             *)
ExitValueIsGuests == \A r \in Runs :
    ended[r] # None /\ exitValue[r] # None => exitValue[r] = Code(ended[r])

(* waitpid is called once for each supervisor, however many threads wait:  *)
(* the status of no other child of the app is swallowed.                   *)
OthersNotReaped == "reaped" \notin others

(* The guest has its own three descriptors and no others: not the app's    *)
(* ends of its own pipes (it would never see the end of its input), nor    *)
(* any end of another guest's.                                             *)
PipesPrivate == \A r \in Runs :
    sup[r].at \in {"ptrace", "envonly"} => sup[r].held = {GuestEnds(r)}

(* A reader of the guest's output sees its end: once a start is over, the  *)
(* app and the other supervisors never have the guest's ends open, not     *)
(* even for a moment, although each supervisor is a copy of the app.       *)
EofWhenGone == \A r \in Runs : task[r] \in {"started", "failed"} =>
    /\ GuestEnds(r) \notin fds
    /\ \A q \in Runs \ {r} : GuestEnds(r) \notin sup[q].held
=============================================================================
