---------------------------- MODULE HostProofs ----------------------------
(* Proofs about the embedding, for any number of guests and threads and    *)
(* for both engines.                                                       *)
EXTENDS Host, TLAPS

(* The types, those of the records included. *)
SupAt == {"none", "forked", "tied", "reset", "wired", "ready", "ptrace", "envonly", "dead"}
SupStatus == [signal : {FALSE}, n : 0..255] \cup [signal : {TRUE}, n : {SIGKILL, SIGTERM}]
Value == (-1..255) \cup {None}
Sup == [at : SupAt, tied : BOOLEAN, held : SUBSET Ends, status : SupStatus \cup {None}]
Thr == [op : {"idle", "wait", "waited", "kill"}, r : Runs \cup {None},
        closes : BOOLEAN, got : Value]

StartTypes ==
    /\ app \in BOOLEAN /\ ignores \in BOOLEAN /\ closed \in BOOLEAN
    /\ queue \in Seq(Runs) /\ fds \in SUBSET Ends
    /\ task \in [Runs -> {"none", "queued", "piped", "forked", "started", "failed"}]
    /\ caller \in [Runs -> {"none", "waiting", "has process", "threw"}]
SupTypes ==
    /\ sup \in [Runs -> Sup]
    /\ guest \in [Runs -> {"none", "alive", "dead"}]
    /\ ended \in [Runs -> Statuses \cup {None}]
UseTypes ==
    /\ pid \in [Runs -> {"none", "supervisor", "nobody", "other"}]
    /\ exitValue \in [Runs -> Value]
    /\ thr \in [Threads -> Thr]
    /\ others \in SUBSET {"signalled", "reaped"}
Types == StartTypes /\ SupTypes /\ UseTypes

(* The single thread of SPAWNER: a guest's ends are open in the app only   *)
(* while its start is at the head of the queue.                            *)
QueueOK(r) ==
    /\ task[r] \in {"piped", "forked"} => queue # <<>> /\ Head(queue) = r
    /\ GuestEnds(r) \in fds => task[r] \in {"piped", "forked"}

(* A supervisor: there is one from the fork on; it has no end of another   *)
(* run's guest, and its status is the guest's if the guest ended by itself. *)
SupOK(r) ==
    /\ sup[r].at = "dead" <=> sup[r].status # None
    /\ sup[r].at = "none" => ~sup[r].tied
    /\ sup[r].at \in {"ready", "ptrace", "envonly"} => sup[r].held = {GuestEnds(r)}
    /\ \A q \in Runs \ {r} : GuestEnds(q) \notin sup[r].held
    /\ ended[r] # None => sup[r].at = "dead" /\ sup[r].status = exit(Code(ended[r]))
PidOK(r) ==
    /\ pid[r] = "none" <=> sup[r].at = "none"
    /\ task[r] \in {"none", "queued", "piped"} => pid[r] = "none"
    /\ task[r] \in {"forked", "started"} => pid[r] # "none"
    /\ caller[r] = "has process" => task[r] = "started"

(* waitFor: one thread at a time is in the monitor; until it has stored    *)
(* the value, the pid is the supervisor's or has just been collected.      *)
Waits(t, r) == thr[t].op \in {"wait", "waited"} /\ thr[t].r = r
ValueOK(r) ==
    /\ exitValue[r] # None => sup[r].at = "dead" /\ exitValue[r] = Code(sup[r].status)
    /\ (app /\ pid[r] \in {"nobody", "other"}) =>
          exitValue[r] # None \/ \E t \in Threads : thr[t].op = "waited" /\ thr[t].r = r
ThrOK(t) ==
    /\ thr[t].op # "idle" => app /\ thr[t].r \in Runs /\ caller[thr[t].r] = "has process"
    /\ thr[t].op = "wait" => pid[thr[t].r] = "supervisor" /\ exitValue[thr[t].r] = None
    /\ thr[t].op = "waited" => /\ exitValue[thr[t].r] = None
                               /\ sup[thr[t].r].at = "dead"
                               /\ thr[t].got = Code(sup[thr[t].r].status)
    /\ \A u \in Threads \ {t}, r \in Runs : ~(Waits(t, r) /\ Waits(u, r))

IInv ==
    /\ Types /\ OthersNotReaped
    /\ \A r \in Runs : QueueOK(r) /\ SupOK(r) /\ PidOK(r) /\ ValueOK(r)
    /\ \A t \in Threads : ThrOK(t)

LEMMA InitIInv == Init => IInv
<1> SUFFICES ASSUME Init PROVE IInv
  OBVIOUS
<1>1. Types
  <2>1. StartTypes
    <3>1. ignores \in BOOLEAN
      BY IgnoresAssumption DEF Init
    <3>2. app \in BOOLEAN /\ closed \in BOOLEAN /\ fds \in SUBSET Ends
      BY DEF Init
    <3>3. queue \in Seq(Runs)
      BY DEF Init
    <3>4. /\ task \in [Runs -> {"none", "queued", "piped", "forked", "started", "failed"}]
          /\ caller \in [Runs -> {"none", "waiting", "has process", "threw"}]
      BY DEF Init
    <3> QED
      BY <3>1, <3>2, <3>3, <3>4 DEF StartTypes
  <2>2. NoSup \in Sup /\ Idle \in Thr
    BY DEF NoSup, Sup, SupAt, Idle, Thr, Value
  <2> QED
    BY <2>1, <2>2 DEF Init, Types, SupTypes, UseTypes, Value
<1>2. \A r \in Runs : QueueOK(r) /\ SupOK(r) /\ PidOK(r) /\ ValueOK(r)
  BY DEF Init, QueueOK, SupOK, PidOK, ValueOK, NoSup
<1>3. \A t \in Threads : ThrOK(t)
  BY DEF Init, ThrOK, Waits, Idle
<1> QED
  BY <1>1, <1>2, <1>3 DEF Init, IInv, OthersNotReaped

-----------------------------------------------------------------------------
(* Steps of a start change the queue, the task, its caller and the app's   *)
(* descriptors; what has to be shown is that they keep to the single       *)
(* thread's order.                                                         *)
StartStep(r) ==
    /\ UNCHANGED <<app, ignores, sup, guest, pid, useVars, ended>>
    /\ \E b \in {"none", "queued", "piped", "forked", "started", "failed"} :
         /\ task' = [task EXCEPT ![r] = b]
         /\ b \in {"none", "queued", "piped"} => pid[r] = "none"
         /\ b \in {"forked", "started"} => pid[r] # "none"
    /\ \A q \in Runs : \/ caller'[q] # "has process"
                       \/ caller'[q] = "has process" /\ task'[q] = "started"

LEMMA StartStepKeeps ==
    ASSUME IInv, NEW r \in Runs, StartStep(r), StartTypes', \A q \in Runs : QueueOK(q)',
           \A q \in Runs : caller[q] = "has process" => caller'[q] = "has process"
    PROVE  IInv'
<1>1. Types' /\ OthersNotReaped'
  BY DEF IInv, Types, SupTypes, UseTypes, OthersNotReaped, StartStep, useVars
<1>2. \A q \in Runs : SupOK(q)' /\ ValueOK(q)'
  <2> TAKE q \in Runs
  <2>1. SupOK(q) /\ ValueOK(q) /\ UNCHANGED <<app, sup, pid, ended, exitValue, thr>>
    BY DEF IInv, StartStep, useVars
  <2>2. SupOK(q)'
    BY <2>1 DEF SupOK
  <2>3. ValueOK(q)'
    BY <2>1 DEF ValueOK
  <2> QED
    BY <2>2, <2>3
<1>3. \A q \in Runs : PidOK(q)'
  BY ZenonT(30) DEF IInv, Types, StartTypes, PidOK, StartStep
<1>4. \A t \in Threads : ThrOK(t)'
  BY ZenonT(30) DEF IInv, ThrOK, Waits, StartStep, useVars
<1> QED
  BY <1>1, <1>2, <1>3, <1>4 DEF IInv

LEMMA AppendTyped ==
    ASSUME NEW r \in Runs, queue \in Seq(Runs)
    PROVE  Append(queue, r) \in Seq(Runs)
OBVIOUS

LEMMA EndsTyped ==
    ASSUME NEW r \in Runs
    PROVE  AppEnds(r) \in Ends /\ GuestEnds(r) \in Ends
BY DEF AppEnds, GuestEnds, Ends

(* The types and the queue's order, after a start is queued ...            *)
LEMMA StartKeeps ==
    ASSUME IInv, NEW r \in Runs, Start(r)
    PROVE  IInv'
<1> USE DEF Start, IInv, Types
<1>1. StartTypes'
  <2>1. app' = app /\ ignores' = ignores /\ closed' = closed /\ fds' = fds
    OBVIOUS
  <2>2. queue' \in Seq(Runs)
    BY AppendTyped DEF StartTypes
  <2>3. /\ task' \in [Runs -> {"none", "queued", "piped", "forked", "started", "failed"}]
        /\ caller' \in [Runs -> {"none", "waiting", "has process", "threw"}]
    BY DEF StartTypes
  <2> QED
    BY <2>1, <2>2, <2>3 DEF StartTypes
<1>2. \A q \in Runs : QueueOK(q)'
  <2> TAKE q \in Runs
  <2>1. QueueOK(q) /\ task'[q] \in {task[q], "queued"} /\ queue \in Seq(Runs) /\ fds' = fds
        /\ (task'[q] # task[q] => task[q] = "none")
    BY DEF StartTypes
  <2>2. queue # <<>> => queue' # <<>> /\ Head(queue') = Head(queue)
    BY <2>1
  <2> QED
    BY <2>1, <2>2 DEF QueueOK
<1>3. StartStep(r)
  <2>1. pid[r] = "none"
    BY DEF PidOK
  <2>2. \A q \in Runs : caller'[q] # "has process" \/ task'[q] = "started"
    BY DEF PidOK, StartTypes
  <2> QED
    BY <2>1, <2>2 DEF StartStep, useVars
<1>4. \A q \in Runs : caller[q] = "has process" => caller'[q] = "has process"
  BY DEF StartTypes, PidOK
<1> QED
  BY <1>1, <1>2, <1>3, <1>4, StartStepKeeps

(* ... and after the step of a task that is at the head of the queue.      *)
LEMMA HeadIsAlone ==
    ASSUME IInv, NEW r \in Runs, queue # <<>>, Head(queue) = r, NEW q \in Runs \ {r}
    PROVE  task[q] \notin {"piped", "forked"} /\ GuestEnds(q) \notin fds
BY DEF IInv, QueueOK

LEMMA TailTyped ==
    ASSUME queue \in Seq(Runs), queue # <<>>
    PROVE  Tail(queue) \in Seq(Runs)
OBVIOUS

LEMMA OpenPipesKeeps ==
    ASSUME IInv, NEW r \in Runs, OpenPipes(r)
    PROVE  IInv'
<1> USE DEF OpenPipes, Spawning, TaskDone, IInv, Types
<1>1. StartTypes'
  <2>1. fds' \in SUBSET Ends
    BY EndsTyped, ZenonT(30) DEF StartTypes
  <2>2. queue' \in Seq(Runs)
    BY TailTyped DEF StartTypes
  <2>3. task' \in [Runs -> {"none", "queued", "piped", "forked", "started", "failed"}]
    BY DEF StartTypes
  <2> QED
    BY <2>1, <2>2, <2>3 DEF StartTypes
<1>2. \A q \in Runs : QueueOK(q)'
  <2> TAKE q \in Runs
  <2>1. CASE q = r
    BY <2>1 DEF QueueOK, StartTypes
  <2>2. CASE q # r
    <3>1. task'[q] = task[q] /\ (GuestEnds(q) \in fds' => GuestEnds(q) \in fds)
      BY <2>2 DEF StartTypes, AppEnds, GuestEnds
    <3> QED
      BY <2>2, <3>1, HeadIsAlone DEF QueueOK
  <2> QED
    BY <2>1, <2>2
<1>3. StartStep(r)
  <2>1. pid[r] = "none"
    BY DEF PidOK
  <2>2. \A q \in Runs : caller'[q] # "has process" \/ task'[q] = "started"
    BY DEF PidOK, StartTypes
  <2> QED
    BY <2>1, <2>2 DEF StartStep, useVars
<1> QED
  BY <1>1, <1>2, <1>3, StartStepKeeps

LEMMA ForkFailsKeeps ==
    ASSUME IInv, NEW r \in Runs, ForkFails(r)
    PROVE  IInv'
<1> USE DEF ForkFails, Spawning, TaskDone, IInv, Types
<1>1. StartTypes'
  BY TailTyped DEF StartTypes
<1>2. \A q \in Runs : QueueOK(q)'
  BY HeadIsAlone DEF QueueOK, StartTypes, AppEnds, GuestEnds
<1>3. StartStep(r)
  <2>1. \A q \in Runs : caller'[q] # "has process" \/ task'[q] = "started"
    BY DEF PidOK, StartTypes
  <2> QED
    BY <2>1 DEF StartStep, useVars
<1> QED
  BY <1>1, <1>2, <1>3, StartStepKeeps

LEMMA StartedKeeps ==
    ASSUME IInv, NEW r \in Runs, Started(r)
    PROVE  IInv'
<1> USE DEF Started, Spawning, TaskDone, IInv, Types
<1>1. StartTypes'
  BY TailTyped DEF StartTypes
<1>2. \A q \in Runs : QueueOK(q)'
  BY HeadIsAlone DEF QueueOK, StartTypes, AppEnds, GuestEnds
<1>3. StartStep(r)
  <2>1. pid[r] # "none"
    BY DEF PidOK
  <2>2. \A q \in Runs : caller'[q] # "has process" \/ task'[q] = "started"
    BY DEF PidOK, StartTypes
  <2> QED
    BY <2>1, <2>2 DEF StartStep, useVars
<1> QED
  BY <1>1, <1>2, <1>3, StartStepKeeps

(* What start answers its caller, or not. *)
LEMMA AnswerKeeps ==
    ASSUME IInv, NEW r \in Runs, Returns(r) \/ Interrupted(r)
    PROVE  IInv'
<1> USE DEF Returns, Interrupted, IInv, Types
<1>1. StartTypes'
  BY DEF StartTypes
<1>2. \A q \in Runs : QueueOK(q)'
  BY DEF QueueOK
<1>3. StartStep(r)
  <2>1. task' = [task EXCEPT ![r] = task[r]]
    BY DEF StartTypes
  <2>2. \A q \in Runs : caller'[q] # "has process" \/ task'[q] = "started"
    BY DEF PidOK, StartTypes
  <2>3. /\ task[r] \in {"none", "queued", "piped"} => pid[r] = "none"
        /\ task[r] \in {"forked", "started"} => pid[r] # "none"
        /\ task[r] \in {"none", "queued", "piped", "forked", "started", "failed"}
    BY DEF PidOK, StartTypes
  <2> QED
    BY <2>1, <2>2, <2>3 DEF StartStep, useVars
<1>4. \A q \in Runs : caller[q] = "has process" => caller'[q] = "has process"
  BY DEF StartTypes
<1> QED
  BY <1>1, <1>2, <1>3, <1>4, StartStepKeeps

LEMMA CloseKeeps ==
    ASSUME IInv, Close
    PROVE  IInv'
<1> USE DEF Close, useVars
<1>1. Types' /\ OthersNotReaped'
  BY DEF IInv, Types, StartTypes, SupTypes, UseTypes, OthersNotReaped
<1>2. \A r \in Runs : QueueOK(r)' /\ SupOK(r)' /\ PidOK(r)' /\ ValueOK(r)'
  <2> TAKE r \in Runs
  <2>1. QueueOK(r)' /\ SupOK(r)' /\ PidOK(r)'
    BY DEF IInv, QueueOK, SupOK, PidOK
  <2>2. ValueOK(r)'
    BY DEF IInv, ValueOK
  <2> QED
    BY <2>1, <2>2
<1>3. \A t \in Threads : ThrOK(t)'
  BY DEF IInv, ThrOK, Waits
<1> QED
  BY <1>1, <1>2, <1>3 DEF IInv

-----------------------------------------------------------------------------
(* Steps of supervisors: whatever they do, one that is dead stays as it    *)
(* is, and one that is there stays there.                                  *)
SupRuns ==
    /\ SupTypes' /\ \A r \in Runs : SupOK(r)'
    /\ \A r \in Runs : /\ sup[r].at = "dead" => sup'[r] = sup[r]
                       /\ sup[r].at = "none" <=> sup'[r].at = "none"

LEMMA SupRunsKeeps ==
    ASSUME IInv, SupRuns, UNCHANGED <<app, ignores, startVars, fds, pid, useVars>>
    PROVE  IInv'
<1> USE DEF startVars, useVars
<1>1. Types' /\ OthersNotReaped'
  BY DEF IInv, Types, StartTypes, UseTypes, SupRuns, OthersNotReaped
<1>2. \A r \in Runs : QueueOK(r)' /\ PidOK(r)'
  BY DEF IInv, QueueOK, PidOK, SupRuns
<1>3. \A r \in Runs : ValueOK(r)'
  BY DEF IInv, ValueOK, SupRuns
<1>4. \A t \in Threads : ThrOK(t)'
  <2> TAKE t \in Threads
  <2>1. ThrOK(t)
    BY DEF IInv
  <2>2. app' = app /\ caller' = caller /\ pid' = pid /\ exitValue' = exitValue /\ thr' = thr
    OBVIOUS
  <2>3. thr[t].op = "waited" => sup'[thr[t].r] = sup[thr[t].r]
    BY <2>1 DEF ThrOK, SupRuns
  <2>4. thr[t].op = "waited" =>
            sup'[thr[t].r].at = "dead" /\ thr[t].got = Code(sup'[thr[t].r].status)
    BY <2>1, <2>3 DEF ThrOK
  <2> HIDE DEF startVars, useVars
  <2>5. app \in BOOLEAN
    BY DEF IInv, Types, StartTypes
  <2>6. app' <=> app
    BY <2>2, <2>5
  <2>7. thr[t].op # "idle" => app
    BY <2>1 DEF ThrOK
  <2>8. thr[t].op # "idle" => app'
    BY <2>7, <2>6
  <2> QED
    BY <2>1, <2>2, <2>4, <2>8 DEF ThrOK, Waits
<1> QED
  BY <1>1, <1>2, <1>3, <1>4 DEF IInv, SupRuns

(* One supervisor that is alive goes on to s. *)
GoesOn(r, s) ==
    /\ s \in Sup /\ s.at # "none" /\ (s.at = "dead" <=> s.status # None)
    /\ s.at \in {"ready", "ptrace", "envonly"} => s.held = {GuestEnds(r)}
    /\ s.held \subseteq sup[r].held \cup {GuestEnds(r)}

LEMMA OneSupGoesOn ==
    ASSUME IInv, NEW r \in Runs, NEW s, GoesOn(r, s), sup[r].at \notin {"none", "dead"},
           sup' = [sup EXCEPT ![r] = s],
           guest' \in [Runs -> {"none", "alive", "dead"}],
           \/ ended' = ended
           \/ \E st \in Statuses : /\ ended' = [ended EXCEPT ![r] = st]
                                   /\ s.at = "dead" /\ s.status = exit(Code(st))
    PROVE  SupRuns
<1>1. SupTypes
  BY DEF IInv, Types
<1>2. SupTypes'
  BY <1>1 DEF SupTypes, GoesOn
<1>3. \A q \in Runs : sup'[q] = IF q = r THEN s ELSE sup[q]
  BY <1>1 DEF SupTypes
<1>4. ASSUME NEW q \in Runs PROVE SupOK(q)'
  <2>1. SupOK(q) /\ SupOK(r)
    BY DEF IInv
  <2>2. CASE q # r
    <3>1. sup'[q] = sup[q] /\ ended'[q] = ended[q]
      BY <1>1, <1>3, <2>2 DEF SupTypes
    <3> QED
      BY <2>1, <3>1 DEF SupOK
  <2>3. CASE q = r
    <3>1. sup'[r] = s
      BY <1>3
    <3>2. ended[r] = None
      BY <2>1 DEF SupOK
    <3>3. ended'[r] # None => s.at = "dead" /\ s.status = exit(Code(ended'[r]))
      BY <1>1, <3>2 DEF SupTypes
    <3>4. \A p \in Runs \ {r} : GuestEnds(p) \notin s.held
      BY <2>1 DEF GoesOn, SupOK, GuestEnds
    <3> QED
      BY <2>3, <3>1, <3>3, <3>4 DEF SupOK, GoesOn
  <2> QED
    BY <2>2, <2>3
<1> QED
  BY <1>2, <1>3, <1>4 DEF SupRuns, GoesOn

LEMMA SupFacts ==
    ASSUME IInv, NEW r \in Runs
    PROVE  /\ sup[r] \in Sup /\ SupOK(r)
           /\ guest \in [Runs -> {"none", "alive", "dead"}]
           /\ Takes(r) \in {"none", "alive", "dead"}
BY DEF IInv, Types, SupTypes, Takes

LEMMA StatusTypes ==
    /\ exit(-1) \in SupStatus
    /\ \A st \in Statuses : exit(Code(st)) \in SupStatus
    /\ Signalled(SIGKILL) \in SupStatus /\ Signalled(SIGTERM) \in SupStatus
    /\ exit(128 + SIGTERM) \in SupStatus
    /\ None \notin SupStatus
<1>1. \A rc \in Int : exit(rc) \in SupStatus
  BY DEF exit, Exited, SupStatus
<1>2. \A st \in Statuses : Code(st) \in Int
  <2> TAKE st \in Statuses
  <2>1. st.n \in Int
    <3>1. st \in [signal : {FALSE}, n : 0..255] \/ st \in [signal : {TRUE}, n : 1..127]
      BY StatusesAssumption
    <3>2. CASE st \in [signal : {FALSE}, n : 0..255]
      BY <3>2
    <3>3. CASE st \in [signal : {TRUE}, n : 1..127]
      BY <3>3
    <3> QED
      BY <3>1, <3>2, <3>3
  <2> QED
    BY <2>1 DEF Code
<1>3. SupStatus \subseteq [signal : BOOLEAN, n : 0..255]
  <2>1. {SIGKILL, SIGTERM} \subseteq 0..255
    BY DEF SIGKILL, SIGTERM
  <2>2. /\ [signal : {FALSE}, n : 0..255] \subseteq [signal : BOOLEAN, n : 0..255]
        /\ [signal : {TRUE}, n : {SIGKILL, SIGTERM}] \subseteq [signal : BOOLEAN, n : 0..255]
    BY <2>1
  <2> QED
    BY <2>2 DEF SupStatus
<1>4. Signalled(SIGKILL) \in SupStatus /\ Signalled(SIGTERM) \in SupStatus
  BY DEF SupStatus, Signalled
<1> QED
  BY <1>1, <1>2, <1>3, <1>4, NoneAssumption DEF SIGTERM

LEMMA DeathGoesOn ==
    ASSUME IInv, NEW r \in Runs, NEW st \in SupStatus
    PROVE  GoesOn(r, Dead(sup[r], st))
BY SupFacts, StatusTypes DEF GoesOn, Dead, Sup, SupAt

LEMMA SupStepsKeep ==
    ASSUME IInv, NEW r \in Runs,
           DieWithParent(r) \/ reset_signals(r) \/ TakeFds(r) \/ close_inherited_fds(r)
    PROVE  IInv'
<1>1. PICK s : /\ GoesOn(r, s) /\ sup[r].at \notin {"none", "dead"}
               /\ sup' = [sup EXCEPT ![r] = s]
               /\ UNCHANGED <<app, ignores, startVars, fds, guest, pid, useVars, ended>>
  <2>1. sup[r] \in Sup /\ SupOK(r) /\ app \in BOOLEAN
    BY SupFacts DEF IInv, Types, StartTypes
  <2>2. CASE DieWithParent(r)
    BY <2>1, <2>2 DEF DieWithParent, SupStep, GoesOn, Sup, SupAt, SupOK
  <2>3. CASE reset_signals(r)
    BY <2>1, <2>3 DEF reset_signals, SupStep, GoesOn, Sup, SupAt, SupOK
  <2>4. CASE TakeFds(r)
    <3>1. GoesOn(r, Dead(sup[r], exit(-1)))
      BY DeathGoesOn, StatusTypes
    <3>2. sup[r].at = "reset" => GoesOn(r, [sup[r] EXCEPT !.at = "wired"])
      BY <2>1 DEF GoesOn, Sup, SupAt, SupOK
    <3> QED
      BY <2>4, <3>1, <3>2 DEF TakeFds, SupStep
  <2>5. CASE close_inherited_fds(r)
    BY <2>1, <2>5, EndsTyped DEF close_inherited_fds, SupStep, GoesOn, Sup, SupAt, SupOK
  <2> QED
    BY <2>2, <2>3, <2>4, <2>5
<1>2. SupRuns
  BY <1>1, OneSupGoesOn, SupFacts
<1> QED
  BY <1>1, <1>2, SupRunsKeeps

LEMMA RunKeeps ==
    ASSUME IInv, NEW r \in Runs, emuroot_run(r)
    PROVE  IInv'
<1>1. SupRuns
  <2>1. /\ sup[r] \in Sup /\ SupOK(r) /\ sup[r].at = "ready" /\ ended' = ended
        /\ sup \in [Runs -> Sup]
    BY SupFacts DEF emuroot_run, IInv, Types, SupTypes
  <2>2. CASE \E e \in Engines : /\ sup' = [sup EXCEPT ![r].at = e]
                                /\ guest' = [guest EXCEPT ![r] = "alive"]
    <3>1. PICK e \in Engines : /\ sup' = [sup EXCEPT ![r].at = e]
                               /\ guest' = [guest EXCEPT ![r] = "alive"]
      BY <2>2
    <3>2. e \in {"ptrace", "envonly"}
      BY EnginesAssumption
    <3>3. GoesOn(r, [sup[r] EXCEPT !.at = e])
      BY <2>1, <3>2 DEF GoesOn, Sup, SupAt, SupOK
    <3>4. sup' = [sup EXCEPT ![r] = [sup[r] EXCEPT !.at = e]]
      BY <2>1, <3>1
    <3>5. guest' \in [Runs -> {"none", "alive", "dead"}]
      BY <3>1, SupFacts
    <3> QED
      BY <2>1, <3>3, <3>4, <3>5, OneSupGoesOn
  <2>3. CASE SupDies(r, exit(-1))
    <3>1. GoesOn(r, Dead(sup[r], exit(-1)))
      BY DeathGoesOn, StatusTypes
    <3>2. guest' \in [Runs -> {"none", "alive", "dead"}]
      BY <2>3, SupFacts DEF SupDies
    <3> QED
      BY <2>1, <2>3, <3>1, <3>2, OneSupGoesOn DEF SupDies
  <2> QED
    BY <2>2, <2>3 DEF emuroot_run
<1> QED
  BY <1>1, SupRunsKeeps DEF emuroot_run

(* A guest ends, or its supervisor is killed. *)
LEMMA EndsKeep ==
    ASSUME IInv, NEW r \in Runs, GuestExits(r) \/ OrphanExits(r) \/ SupKilled(r)
    PROVE  IInv'
<1>1. CASE GuestExits(r)
  <2>1. PICK st \in Statuses :
          /\ sup[r].at \in {"ptrace", "envonly"}
          /\ guest' = [guest EXCEPT ![r] = "dead"]
          /\ sup' = [sup EXCEPT ![r] = Dead(sup[r], exit(Code(st)))]
          /\ ended' = [ended EXCEPT ![r] = st]
    BY <1>1 DEF GuestExits
  <2>2. GoesOn(r, Dead(sup[r], exit(Code(st))))
    BY DeathGoesOn, StatusTypes
  <2>3. Dead(sup[r], exit(Code(st))).at = "dead"
        /\ Dead(sup[r], exit(Code(st))).status = exit(Code(st))
    BY SupFacts DEF Dead, Sup
  <2>4. guest' \in [Runs -> {"none", "alive", "dead"}]
    BY <2>1, SupFacts
  <2>5. SupRuns
    BY <2>1, <2>2, <2>3, <2>4, OneSupGoesOn
  <2> QED
    BY <1>1, <2>5, SupRunsKeeps DEF GuestExits
<1>2. CASE OrphanExits(r)
  <2>1. guest' \in [Runs -> {"none", "alive", "dead"}] /\ sup' = sup /\ ended' = ended
    BY <1>2, SupFacts DEF OrphanExits
  <2>2. SupRuns
    BY <2>1 DEF SupRuns, IInv, Types, SupTypes, SupOK
  <2> QED
    BY <1>2, <2>2, SupRunsKeeps DEF OrphanExits
<1>3. CASE SupKilled(r)
  <2>1. GoesOn(r, Dead(sup[r], Signalled(SIGKILL)))
    BY DeathGoesOn, StatusTypes
  <2>2. guest' \in [Runs -> {"none", "alive", "dead"}]
    BY <1>3, SupFacts DEF SupDies, SupKilled
  <2>3. SupRuns
    BY <1>3, <2>1, <2>2, OneSupGoesOn DEF SupDies, SupKilled
  <2> QED
    BY <1>3, <2>3, SupRunsKeeps DEF SupKilled
<1> QED
  BY <1>1, <1>2, <1>3

(* The fork: the supervisor has what the app has, and the only guest's end *)
(* among that is its own.                                                  *)
LEMMA ForkKeeps ==
    ASSUME IInv, NEW r \in Runs, Fork(r)
    PROVE  IInv'
<1> DEFINE s == [NoSup EXCEPT !.at = "forked", !.held = fds]
<1>1. /\ StartTypes /\ SupTypes /\ UseTypes
      /\ task[r] = "piped" /\ pid[r] = "none" /\ sup[r].at = "none" /\ queue # <<>> /\ Head(queue) = r
      /\ ended[r] = None
    BY DEF IInv, Types, Fork, Spawning, PidOK, SupOK
<1>2. /\ sup' = [sup EXCEPT ![r] = s] /\ pid' = [pid EXCEPT ![r] = "supervisor"]
      /\ task' = [task EXCEPT ![r] = "forked"]
      /\ app' = app /\ ignores' = ignores /\ closed' = closed /\ queue' = queue
      /\ caller' = caller /\ fds' = fds /\ guest' = guest /\ exitValue' = exitValue
      /\ thr' = thr /\ others' = others /\ ended' = ended
  BY DEF Fork, useVars
<1>3. s \in Sup /\ s.at = "forked" /\ s.held = fds /\ s.status = None
  BY <1>1 DEF NoSup, Sup, SupAt, StartTypes
<1> HIDE DEF s
<1>4. Types'
  BY <1>1, <1>2, <1>3 DEF Types, StartTypes, SupTypes, UseTypes
<1>5. \A q \in Runs : /\ sup'[q] = IF q = r THEN s ELSE sup[q]
                      /\ pid'[q] = IF q = r THEN "supervisor" ELSE pid[q]
                      /\ task'[q] = IF q = r THEN "forked" ELSE task[q]
  BY <1>1, <1>2 DEF StartTypes, SupTypes, UseTypes
<1>6. caller[r] # "has process" /\ exitValue[r] = None
  BY <1>1, NoneAssumption DEF IInv, PidOK, ValueOK
<1>7. \A q \in Runs : QueueOK(q)'
  BY <1>1, <1>2, <1>5 DEF IInv, QueueOK
<1>8. \A q \in Runs : SupOK(q)'
  <2> TAKE q \in Runs
  <2>1. SupOK(q) /\ ended'[q] = ended[q]
    BY <1>2 DEF IInv
  <2>2. CASE q # r
    BY <1>5, <2>1, <2>2 DEF SupOK
  <2>3. CASE q = r
    <3>1. \A p \in Runs \ {r} : GuestEnds(p) \notin s.held
      BY <1>1, <1>3, HeadIsAlone
    <3> QED
      BY <1>1, <1>3, <1>5, <2>1, <2>3, <3>1 DEF SupOK
  <2> QED
    BY <2>2, <2>3
<1>9. \A q \in Runs : PidOK(q)'
  <2> TAKE q \in Runs
  <2>1. PidOK(q) /\ caller'[q] = caller[q]
    BY <1>2 DEF IInv
  <2>2. CASE q # r
    BY <1>5, <2>1, <2>2 DEF PidOK
  <2>3. CASE q = r
    BY <1>3, <1>5, <1>6, <2>1, <2>3 DEF PidOK
  <2> QED
    BY <2>2, <2>3
<1>10. \A q \in Runs : ValueOK(q)'
  <2> TAKE q \in Runs
  <2>1. ValueOK(q) /\ app \in BOOLEAN
    BY <1>1 DEF IInv, StartTypes
  <2>2. CASE q # r
    <3>1. /\ sup'[q] = sup[q] /\ pid'[q] = pid[q] /\ app' = app
          /\ exitValue' = exitValue /\ thr' = thr
      BY <1>2, <1>5, <2>2
    <3> QED
      BY <2>1, <3>1 DEF ValueOK
  <2>3. CASE q = r
    <3>1. exitValue'[q] = None /\ pid'[q] = "supervisor"
      BY <1>2, <1>5, <1>6, <2>3
    <3> QED
      BY <3>1 DEF ValueOK
  <2> QED
    BY <2>2, <2>3
<1>11. \A t \in Threads : ThrOK(t)'
  <2> TAKE t \in Threads
  <2>1. ThrOK(t) /\ app \in BOOLEAN
    BY <1>1 DEF IInv, StartTypes
  <2>2. thr[t].op # "idle" => thr[t].r \in Runs \ {r}
    BY <1>6, <2>1 DEF ThrOK
  <2>3. thr[t].op # "idle" => sup'[thr[t].r] = sup[thr[t].r] /\ pid'[thr[t].r] = pid[thr[t].r]
    BY <1>5, <2>2
  <2>4. thr[t].op # "idle" => app'
    BY <1>2, <2>1 DEF ThrOK
  <2> QED
    BY <1>2, <2>1, <2>2, <2>3, <2>4 DEF ThrOK, Waits
<1> QED
  BY <1>2, <1>4, <1>7, <1>8, <1>9, <1>10, <1>11 DEF IInv, OthersNotReaped

(* The app's death takes the supervisors tied to it; none of those that    *)
(* are not there yet, or not any more, is tied.                            *)
LEMMA AppDiesKeeps ==
    ASSUME IInv, AppDies
    PROVE  IInv'
<1> DEFINE killed == {r \in Runs : sup[r].tied /\ sup[r].at # "dead"}
<1>1. /\ StartTypes /\ SupTypes /\ UseTypes
      /\ app' = FALSE /\ fds' = {} /\ thr' = [t \in Threads |-> Idle]
      /\ ignores' = ignores /\ closed' = closed /\ queue' = queue /\ task' = task
      /\ caller' = caller /\ pid' = pid /\ exitValue' = exitValue /\ others' = others
      /\ ended' = ended
      /\ sup' = [r \in Runs |-> IF r \in killed
                                THEN Dead(sup[r], Signalled(SIGKILL)) ELSE sup[r]]
      /\ guest' = [r \in Runs |-> IF r \in killed THEN Takes(r) ELSE guest[r]]
  BY DEF IInv, Types, AppDies, startVars
<1>2. ASSUME NEW r \in Runs
      PROVE  /\ sup'[r] \in Sup /\ guest'[r] \in {"none", "alive", "dead"} /\ SupOK(r)'
             /\ sup[r].at = "dead" => sup'[r] = sup[r]
             /\ sup[r].at = "none" <=> sup'[r].at = "none"
  <2>1. sup[r] \in Sup /\ SupOK(r) /\ Takes(r) \in {"none", "alive", "dead"}
        /\ guest[r] \in {"none", "alive", "dead"}
    BY SupFacts
  <2>2. CASE r \in killed
    <3>1. sup'[r] = Dead(sup[r], Signalled(SIGKILL)) /\ guest'[r] = Takes(r)
      BY <1>1, <2>2
    <3>2. Signalled(SIGKILL) \in SupStatus /\ Signalled(SIGKILL) # None
      BY StatusTypes
    <3>3. /\ sup'[r] \in Sup /\ sup'[r].at = "dead" /\ sup'[r].held = {}
          /\ sup'[r].status # None
      BY <2>1, <3>1, <3>2 DEF Dead, Sup, SupAt
    <3>4. sup[r].at \notin {"dead", "none"} /\ ended'[r] = None
      BY <1>1, <2>1, <2>2 DEF SupOK
    <3> QED
      BY <2>1, <3>1, <3>3, <3>4 DEF SupOK
  <2>3. CASE r \notin killed
    <3>1. sup'[r] = sup[r] /\ guest'[r] = guest[r] /\ ended'[r] = ended[r]
      BY <1>1, <2>3
    <3> QED
      BY <2>1, <3>1 DEF SupOK
  <2> QED
    BY <2>2, <2>3
<1> HIDE DEF killed
<1>3. Types' /\ OthersNotReaped'
  <2>1. StartTypes'
    BY <1>1 DEF StartTypes
  <2>2. SupTypes'
    BY <1>1, <1>2 DEF SupTypes
  <2>3. UseTypes'
    BY <1>1 DEF UseTypes, Idle, Thr, Value
  <2> QED
    BY <1>1, <2>1, <2>2, <2>3 DEF IInv, Types, OthersNotReaped
<1>4. \A r \in Runs : QueueOK(r)' /\ PidOK(r)'
  <2> TAKE r \in Runs
  <2>1. QueueOK(r) /\ PidOK(r)
    BY DEF IInv
  <2> QED
    BY <1>1, <1>2, <2>1 DEF QueueOK, PidOK
<1>5. \A r \in Runs : ValueOK(r)'
  <2> TAKE r \in Runs
  <2>1. exitValue[r] # None => sup[r].at = "dead" /\ exitValue[r] = Code(sup[r].status)
    BY DEF IInv, ValueOK
  <2>2. exitValue'[r] # None => sup'[r].at = "dead" /\ exitValue'[r] = Code(sup'[r].status)
    BY <1>1, <1>2, <2>1
  <2>3. ~app'
    BY <1>1
  <2> QED
    BY <2>2, <2>3 DEF ValueOK
<1>6. \A t \in Threads : ThrOK(t)'
  BY <1>1 DEF ThrOK, Waits, Idle
<1> QED
  BY <1>2, <1>3, <1>4, <1>5, <1>6 DEF IInv

-----------------------------------------------------------------------------
(* Steps of the app's threads.  ThreadStep is what they have in common:    *)
(* thread t goes on to w; the other threads, the starts and the            *)
(* supervisors do not notice.                                              *)
ThreadStep(t, w) ==
    /\ thr' = [thr EXCEPT ![t] = w] /\ w \in Thr
    /\ UNCHANGED <<app, ignores, startVars, sup, guest, ended>>

LEMMA ThreadStepFacts ==
    ASSUME IInv, NEW t \in Threads, NEW w, ThreadStep(t, w)
    PROVE  /\ app \in BOOLEAN /\ (app' <=> app) /\ SupTypes' /\ sup' = sup /\ caller' = caller
           /\ task' = task
           /\ \A u \in Threads : thr'[u] = IF u = t THEN w ELSE thr[u]
           /\ thr' \in [Threads -> Thr]
           /\ \A r \in Runs : SupOK(r)'
<1>1. app \in BOOLEAN /\ SupTypes /\ UseTypes
  BY DEF IInv, Types, StartTypes
<1>2. app' = app /\ sup' = sup /\ guest' = guest /\ ended' = ended /\ caller' = caller /\ task' = task
  BY DEF ThreadStep, startVars
<1>3. \A r \in Runs : SupOK(r)'
  BY <1>2 DEF IInv, SupOK
<1> QED
  BY <1>1, <1>2, <1>3 DEF SupTypes, UseTypes, ThreadStep

LEMMA WaitForKeeps ==
    ASSUME IInv, NEW t \in Threads, NEW r \in Runs, WaitFor(t, r)
    PROVE  IInv'
<1> DEFINE w == [Idle EXCEPT !.op = "wait", !.r = r]
<1>1. w \in Thr /\ w.op = "wait" /\ w.r = r
  BY DEF Idle, Thr, Value
<1>2. ThreadStep(t, w) /\ fds' = fds /\ pid' = pid /\ exitValue' = exitValue /\ others' = others
  BY <1>1 DEF WaitFor, ThreadStep, startVars
<1>3. app /\ caller[r] = "has process" /\ thr[t] = Idle /\ ~InMonitor(r) /\ exitValue[r] = None
  BY DEF WaitFor, Has
<1> HIDE DEF w
<1>4. pid[r] = "supervisor"
  <2>1. pid[r] \in {"supervisor", "nobody", "other"}
    BY <1>3 DEF IInv, Types, UseTypes, PidOK
  <2>2. ~\E u \in Threads : thr[u].op = "waited" /\ thr[u].r = r
    BY <1>3 DEF InMonitor
  <2>3. ValueOK(r)
    BY DEF IInv
  <2> QED
    BY <1>3, <2>1, <2>2, <2>3 DEF ValueOK
<1>5. Types' /\ OthersNotReaped'
  <2>1. StartTypes' /\ OthersNotReaped'
    BY <1>2 DEF IInv, Types, StartTypes, OthersNotReaped, ThreadStep, startVars
  <2>2. UseTypes'
    BY <1>2, ThreadStepFacts DEF IInv, Types, UseTypes
  <2> QED
    BY <1>2, <2>1, <2>2, ThreadStepFacts DEF Types
<1>6. \A q \in Runs : QueueOK(q)' /\ PidOK(q)'
  BY <1>2 DEF IInv, QueueOK, PidOK, ThreadStep, startVars
<1>7. \A q \in Runs : ValueOK(q)'
  <2> TAKE q \in Runs
  <2>1. ValueOK(q)
    BY DEF IInv
  <2>2. \A u \in Threads : thr[u].op = "waited" => thr'[u] = thr[u]
    <3>1. thr[t].op = "idle"
      <4>1. Idle.op = "idle"
        BY DEF Idle
      <4> QED
        BY <1>3, <4>1
    <3>2. \A u \in Threads : thr'[u] = IF u = t THEN w ELSE thr[u]
      BY <1>2, ThreadStepFacts
    <3> QED
      BY <3>1, <3>2
  <2> QED
    BY <1>2, <2>1, <2>2, ThreadStepFacts DEF ValueOK
<1>8. \A u \in Threads : ThrOK(u)'
  <2> TAKE u \in Threads
  <2>1. ThrOK(u)
    BY DEF IInv
  <2>2. \A v \in Threads : thr'[v] = IF v = t THEN w ELSE thr[v]
    BY <1>2, ThreadStepFacts
  <2>3. \A v \in Threads : ~Waits(v, r)
    BY <1>3 DEF InMonitor, Waits
  <2>4. \A v \in Threads \ {u}, q \in Runs : ~(Waits(u, q)' /\ Waits(v, q)')
    <3> TAKE v \in Threads \ {u}, q \in Runs
    <3>1. CASE q = r
      <4>1. Waits(u, q)' => u = t
        BY <2>2, <2>3, <3>1 DEF Waits
      <4>2. Waits(v, q)' => v = t
        BY <2>2, <2>3, <3>1 DEF Waits
      <4> QED
        BY <4>1, <4>2
    <3>2. CASE q # r
      <4>1. Waits(u, q)' => Waits(u, q)
        BY <1>1, <2>2, <3>2 DEF Waits
      <4>2. Waits(v, q)' => Waits(v, q)
        BY <1>1, <2>2, <3>2 DEF Waits
      <4> QED
        BY <2>1, <4>1, <4>2 DEF ThrOK
    <3> QED
      BY <3>1, <3>2
  <2>5. CASE u = t
    <3>1. thr'[u] = w /\ app'
      BY <1>2, <1>3, <2>2, <2>5, ThreadStepFacts
    <3> QED
      BY <1>1, <1>2, <1>3, <1>4, <2>4, <3>1, ThreadStepFacts DEF ThrOK
  <2>6. CASE u # t
    <3>1. thr'[u] = thr[u]
      BY <2>2, <2>6
    <3>2. thr[u].op # "idle" => app'
      BY <1>2, <2>1, ThreadStepFacts DEF ThrOK
    <3> QED
      BY <1>2, <2>1, <2>4, <3>1, <3>2, ThreadStepFacts DEF ThrOK
  <2> QED
    BY <2>5, <2>6
<1> QED
  BY <1>2, <1>5, <1>6, <1>7, <1>8, ThreadStepFacts DEF IInv

(* destroy and the signal that follows; neither touches what waitFor has.  *)
LEMMA DestroyKeeps ==
    ASSUME IInv, NEW t \in Threads, NEW r \in Runs, Destroy(t, r)
    PROVE  IInv'
<1>1. PICK c \in BOOLEAN :
        thr' = [thr EXCEPT ![t] = [Idle EXCEPT !.op = "kill", !.r = r, !.closes = c]]
  BY DEF Destroy
<1> DEFINE w == [Idle EXCEPT !.op = "kill", !.r = r, !.closes = c]
<1>2. w \in Thr /\ w.op = "kill" /\ w.r = r
  BY DEF Idle, Thr, Value
<1>3. ThreadStep(t, w) /\ fds' = fds /\ pid' = pid /\ exitValue' = exitValue /\ others' = others
  BY <1>1, <1>2 DEF Destroy, ThreadStep, startVars
<1>4. app /\ caller[r] = "has process" /\ thr[t] = Idle
  BY DEF Destroy, Has
<1> HIDE DEF w
<1>5. Types' /\ OthersNotReaped'
  <2>1. StartTypes' /\ OthersNotReaped'
    BY <1>3 DEF IInv, Types, StartTypes, OthersNotReaped, ThreadStep, startVars
  <2>2. UseTypes'
    BY <1>3, ThreadStepFacts DEF IInv, Types, UseTypes
  <2> QED
    BY <1>3, <2>1, <2>2, ThreadStepFacts DEF Types
<1>6. \A q \in Runs : QueueOK(q)' /\ PidOK(q)'
  BY <1>3 DEF IInv, QueueOK, PidOK, ThreadStep, startVars
<1>7. \A q \in Runs : ValueOK(q)'
  <2> TAKE q \in Runs
  <2>1. ValueOK(q)
    BY DEF IInv
  <2>2. \A u \in Threads : thr[u].op = "waited" => thr'[u] = thr[u]
    <3>1. thr[t].op = "idle"
      <4>1. Idle.op = "idle"
        BY DEF Idle
      <4> QED
        BY <1>4, <4>1
    <3>2. \A u \in Threads : thr'[u] = IF u = t THEN w ELSE thr[u]
      BY <1>3, ThreadStepFacts
    <3> QED
      BY <3>1, <3>2
  <2> QED
    BY <1>3, <2>1, <2>2, ThreadStepFacts DEF ValueOK
<1>8. \A u \in Threads : ThrOK(u)'
  <2> TAKE u \in Threads
  <2>1. ThrOK(u)
    BY DEF IInv
  <2>2. \A v \in Threads : thr'[v] = IF v = t THEN w ELSE thr[v]
    BY <1>3, ThreadStepFacts
  <2>3. \A v \in Threads, q \in Runs : Waits(v, q)' => Waits(v, q)
    BY <1>2, <2>2 DEF Waits
  <2>4. CASE u = t
    <3>1. thr'[u] = w /\ app'
      BY <1>3, <1>4, <2>2, <2>4, ThreadStepFacts
    <3> QED
      BY <1>2, <1>3, <1>4, <2>1, <2>3, <3>1, ThreadStepFacts DEF ThrOK
  <2>5. CASE u # t
    <3>1. thr'[u] = thr[u]
      BY <2>2, <2>5
    <3>2. thr[u].op # "idle" => app'
      BY <1>3, <2>1, ThreadStepFacts DEF ThrOK
    <3> QED
      BY <1>3, <2>1, <2>3, <3>1, <3>2, ThreadStepFacts DEF ThrOK
  <2> QED
    BY <2>4, <2>5
<1> QED
  BY <1>3, <1>5, <1>6, <1>7, <1>8, ThreadStepFacts DEF IInv

(* CodeTyped: what waitpid's status becomes is a value of the int. *)
LEMMA CodeTyped ==
    ASSUME NEW st \in SupStatus
    PROVE  Code(st) \in 0..255
<1>1. CASE st \in [signal : {FALSE}, n : 0..255]
  BY <1>1 DEF Code
<1>2. CASE st \in [signal : {TRUE}, n : {SIGKILL, SIGTERM}]
  BY <1>2 DEF Code, SIGKILL, SIGTERM
<1> QED
  BY <1>1, <1>2 DEF SupStatus

(* waitpid: the pid is still the supervisor's, since only this thread is   *)
(* in the monitor.                                                         *)
LEMMA WaitKeeps ==
    ASSUME IInv, NEW t \in Threads, emuroot_wait(t)
    PROVE  IInv'
<1> DEFINE r == thr[t].r
           w == [thr[t] EXCEPT !.op = "waited", !.got = Code(sup[r].status)]
<1>1. /\ thr[t] \in Thr /\ r \in Runs /\ thr[t].op = "wait" /\ pid[r] = "supervisor"
      /\ exitValue[r] = None /\ app /\ caller[r] = "has process" /\ thr \in [Threads -> Thr]
      /\ pid \in [Runs -> {"none", "supervisor", "nobody", "other"}]
  BY DEF emuroot_wait, IInv, Types, UseTypes, ThrOK
<1>2. sup[r].at = "dead" /\ Code(sup[r].status) \in Value
  <2>1. sup[r].at = "dead"
    BY <1>1 DEF emuroot_wait
  <2>2. sup[r].status \in SupStatus
    BY <1>1, <2>1, SupFacts DEF SupOK, Sup
  <2> QED
    BY <2>1, <2>2, CodeTyped DEF Value
<1>3. thr' = [thr EXCEPT ![t] = w]
  BY <1>1 DEF emuroot_wait, Thr
<1>4. w \in Thr /\ w.op = "waited" /\ w.r = r /\ w.got = Code(sup[r].status)
  BY <1>1, <1>2 DEF Thr
<1> HIDE DEF w
<1>5. /\ ThreadStep(t, w) /\ fds' = fds /\ pid' = [pid EXCEPT ![r] = "nobody"]
      /\ exitValue' = exitValue /\ others' = others
  BY <1>1, <1>3, <1>4 DEF emuroot_wait, ThreadStep, startVars
<1> HIDE DEF r
<1>6. /\ \A q \in Runs : pid'[q] = IF q = r THEN "nobody" ELSE pid[q]
      /\ \A u \in Threads : thr'[u] = IF u = t THEN w ELSE thr[u]
  BY <1>1, <1>5, ThreadStepFacts
<1>7. Types' /\ OthersNotReaped'
  <2>1. StartTypes' /\ OthersNotReaped'
    BY <1>5 DEF IInv, Types, StartTypes, OthersNotReaped, ThreadStep, startVars
  <2>2. UseTypes'
    BY <1>1, <1>5, ThreadStepFacts DEF IInv, Types, UseTypes
  <2> QED
    BY <1>5, <2>1, <2>2, ThreadStepFacts DEF Types
<1>8. \A q \in Runs : QueueOK(q)'
  BY <1>5 DEF IInv, QueueOK, ThreadStep, startVars
<1>9. \A q \in Runs : PidOK(q)'
  <2> TAKE q \in Runs
  <2>1. PidOK(q) /\ PidOK(r) /\ caller' = caller /\ task' = task /\ sup' = sup
    BY <1>1, <1>5, ThreadStepFacts DEF IInv
  <2> QED
    BY <1>1, <1>6, <2>1 DEF PidOK
<1>10. \A q \in Runs : ValueOK(q)'
  <2> TAKE q \in Runs
  <2>1. ValueOK(q) /\ sup' = sup /\ exitValue' = exitValue /\ (app' <=> app)
    BY <1>5, ThreadStepFacts DEF IInv
  <2>2. CASE q = r
    <3>1. \E u \in Threads : thr'[u].op = "waited" /\ thr'[u].r = q
      BY <1>4, <1>6, <2>2
    <3> QED
      BY <2>1, <3>1 DEF ValueOK
  <2>3. CASE q # r
    <3>1. \A u \in Threads : thr[u].op = "waited" => thr'[u] = thr[u]
      BY <1>1, <1>6
    <3>2. pid'[q] = pid[q]
      BY <1>6, <2>3
    <3> QED
      BY <2>1, <3>1, <3>2 DEF ValueOK
  <2> QED
    BY <2>2, <2>3
<1>11. \A u \in Threads : ThrOK(u)'
  <2> TAKE u \in Threads
  <2>1. ThrOK(u) /\ ThrOK(t) /\ sup' = sup /\ exitValue' = exitValue /\ caller' = caller
    BY <1>5, ThreadStepFacts DEF IInv
  <2>2. \A v \in Threads, q \in Runs : Waits(v, q)' => Waits(v, q)
    BY <1>1, <1>4, <1>6 DEF Waits, r
  <2>3. app'
    BY <1>1, <1>5, ThreadStepFacts
  <2>4. CASE u = t
    <3>1. thr'[u] = w
      BY <1>6, <2>4
    <3> QED
      BY <1>1, <1>2, <1>4, <2>1, <2>2, <2>3, <2>4, <3>1 DEF ThrOK
  <2>5. CASE u # t
    <3>1. thr'[u] = thr[u]
      BY <1>6, <2>5
    <3>2. Waits(t, r)
      BY <1>1 DEF Waits, r
    <3>3. thr[u].op = "wait" => thr[u].r \in Runs /\ thr[u].r # r
      BY <1>1, <2>1, <2>5, <3>2 DEF ThrOK, Waits
    <3>4. thr[u].op = "wait" => pid'[thr[u].r] = pid[thr[u].r]
      BY <1>6, <3>3
    <3> QED
      BY <2>1, <2>2, <2>3, <3>1, <3>4 DEF ThrOK
  <2> QED
    BY <2>4, <2>5
<1> QED
  BY <1>5, <1>7, <1>8, <1>9, <1>10, <1>11, ThreadStepFacts DEF IInv

(* waitFor stores the value: no other thread is past the test of it.       *)
LEMMA WaitReturnsKeeps ==
    ASSUME IInv, NEW t \in Threads, WaitReturns(t)
    PROVE  IInv'
<1> DEFINE r == thr[t].r
           g == thr[t].got
<1>1. /\ r \in Runs /\ thr[t].op = "waited" /\ sup[r].at = "dead" /\ g = Code(sup[r].status)
      /\ exitValue \in [Runs -> Value] /\ thr[t] \in Thr /\ app
  BY DEF WaitReturns, IInv, Types, UseTypes, ThrOK
<1>2. Idle \in Thr /\ Idle.op = "idle"
  BY DEF Idle, Thr, Value
<1>3. /\ ThreadStep(t, Idle) /\ fds' = fds /\ pid' = pid
      /\ exitValue' = [exitValue EXCEPT ![r] = g] /\ others' = others
  BY <1>2 DEF WaitReturns, ThreadStep, startVars
<1>4. g \in Value
  BY <1>1 DEF Thr
<1>5. Waits(t, r)
  BY <1>1 DEF Waits
<1> HIDE DEF r, g
<1>6. /\ \A q \in Runs : exitValue'[q] = IF q = r THEN g ELSE exitValue[q]
      /\ \A u \in Threads : thr'[u] = IF u = t THEN Idle ELSE thr[u]
  BY <1>1, <1>3, ThreadStepFacts
<1>7. Types' /\ OthersNotReaped'
  <2>1. StartTypes' /\ OthersNotReaped'
    BY <1>3 DEF IInv, Types, StartTypes, OthersNotReaped, ThreadStep, startVars
  <2>2. UseTypes'
    BY <1>1, <1>3, <1>4, ThreadStepFacts DEF IInv, Types, UseTypes
  <2> QED
    BY <1>3, <2>1, <2>2, ThreadStepFacts DEF Types
<1>8. \A q \in Runs : QueueOK(q)' /\ PidOK(q)'
  BY <1>3 DEF IInv, QueueOK, PidOK, ThreadStep, startVars
<1>9. \A q \in Runs : ValueOK(q)'
  <2> TAKE q \in Runs
  <2>1. ValueOK(q) /\ sup' = sup /\ pid' = pid /\ (app' <=> app)
    BY <1>3, ThreadStepFacts DEF IInv
  <2>2. CASE q = r
    <3>1. g # None
      <4>1. sup[r].status \in SupStatus
        BY <1>1, SupFacts DEF SupOK, Sup
      <4> QED
        BY <1>1, <4>1, CodeTyped, NoneAssumption
    <3> QED
      BY <1>1, <1>6, <2>1, <2>2, <3>1 DEF ValueOK
  <2>3. CASE q # r
    <3>1. exitValue'[q] = exitValue[q]
      BY <1>6, <2>3
    <3>2. \A u \in Threads : thr[u].op = "waited" /\ thr[u].r = q => thr'[u] = thr[u]
      BY <1>6, <2>3 DEF r
    <3> QED
      BY <2>1, <3>1, <3>2 DEF ValueOK
  <2> QED
    BY <2>2, <2>3
<1>10. \A u \in Threads : ThrOK(u)'
  <2> TAKE u \in Threads
  <2>1. ThrOK(u) /\ ThrOK(t) /\ sup' = sup /\ pid' = pid /\ caller' = caller
    BY <1>3, ThreadStepFacts DEF IInv
  <2>2. \A v \in Threads, q \in Runs : Waits(v, q)' => Waits(v, q)
    BY <1>2, <1>6 DEF Waits
  <2>3. app'
    BY <1>1, <1>3, ThreadStepFacts
  <2>4. CASE u = t
    BY <1>2, <1>6, <2>1, <2>2, <2>4 DEF ThrOK
  <2>5. CASE u # t
    <3>1. thr'[u] = thr[u]
      BY <1>6, <2>5
    <3>2. thr[u].op \in {"wait", "waited"} => thr[u].r \in Runs /\ thr[u].r # r
      BY <1>1, <1>5, <2>1, <2>5 DEF ThrOK, Waits
    <3>3. thr[u].op \in {"wait", "waited"} => exitValue'[thr[u].r] = exitValue[thr[u].r]
      BY <1>6, <3>2
    <3> QED
      BY <2>1, <2>2, <2>3, <3>1, <3>3 DEF ThrOK
  <2> QED
    BY <2>4, <2>5
<1> QED
  BY <1>3, <1>7, <1>8, <1>9, <1>10, ThreadStepFacts DEF IInv

(* The signal that destroy sends, to whoever has the pid.                  *)
LEMMA TerminateKeeps ==
    ASSUME IInv, NEW t \in Threads, emuroot_terminate(t)
    PROVE  IInv'
<1> DEFINE r == thr[t].r
<1>1. /\ r \in Runs /\ thr[t].op = "kill" /\ app \in BOOLEAN /\ thr \in [Threads -> Thr]
      /\ fds \in SUBSET Ends /\ PidOK(r)
  BY DEF emuroot_terminate, IInv, Types, UseTypes, StartTypes, ThrOK
<1>2. /\ thr' = [thr EXCEPT ![t] = Idle] /\ fds' \subseteq fds
      /\ app' = app /\ ignores' = ignores /\ closed' = closed /\ queue' = queue
      /\ task' = task /\ caller' = caller /\ pid' = pid /\ exitValue' = exitValue
      /\ ended' = ended /\ others' \subseteq others \cup {"signalled"}
  BY DEF emuroot_terminate, startVars
<1>3. Idle \in Thr /\ Idle.op = "idle"
  BY DEF Idle, Thr, Value
<1> HIDE DEF r
<1>4. SupRuns
  <2>1. CASE UNCHANGED <<sup, guest>>
    BY <1>2, <2>1 DEF SupRuns, IInv, Types, SupTypes, SupOK
  <2>2. ASSUME NEW st \in SupStatus, SupDies(r, st), sup[r].at \notin {"none", "dead"}
        PROVE  SupRuns
    <3>1. GoesOn(r, Dead(sup[r], st))
      BY <1>1, DeathGoesOn
    <3>2. guest' \in [Runs -> {"none", "alive", "dead"}]
      BY <1>1, <2>2, SupFacts DEF SupDies
    <3> QED
      BY <1>1, <1>2, <2>2, <3>1, <3>2, OneSupGoesOn DEF SupDies
  <2>3. CASE pid[r] = "supervisor"
    <3>1. Terminated(r) /\ sup[r].at # "none"
      BY <1>1, <2>3 DEF emuroot_terminate, PidOK, r
    <3>2. \/ UNCHANGED <<sup, guest>>
          \/ sup[r].at # "dead" /\ SupDies(r, exit(128 + SIGTERM))
          \/ sup[r].at # "dead" /\ SupDies(r, Signalled(SIGTERM))
      BY <3>1 DEF Terminated
    <3> QED
      BY <2>1, <2>2, <3>1, <3>2, StatusTypes
  <2>4. CASE pid[r] # "supervisor"
    BY <2>1, <2>4 DEF emuroot_terminate, r
  <2> QED
    BY <2>3, <2>4
<1>5. \A u \in Threads : thr'[u] = IF u = t THEN Idle ELSE thr[u]
  BY <1>1, <1>2
<1>6. Types' /\ OthersNotReaped'
  <2>1. StartTypes'
    BY <1>2 DEF IInv, Types, StartTypes
  <2>2. UseTypes' /\ OthersNotReaped'
    <3>1. thr' \in [Threads -> Thr]
      BY <1>1, <1>2, <1>3
    <3> QED
      BY <1>2, <3>1 DEF IInv, Types, UseTypes, OthersNotReaped
  <2> QED
    BY <1>4, <2>1, <2>2 DEF Types, SupRuns
<1>7. \A q \in Runs : QueueOK(q)' /\ PidOK(q)'
  <2> TAKE q \in Runs
  <2>1. QueueOK(q) /\ PidOK(q)
    BY DEF IInv
  <2>2. QueueOK(q)'
    BY <1>2, <2>1 DEF QueueOK
  <2>3. PidOK(q)'
    BY <1>2, <1>4, <2>1 DEF PidOK, SupRuns
  <2> QED
    BY <2>2, <2>3
<1>8. \A q \in Runs : ValueOK(q)'
  <2> TAKE q \in Runs
  <2>1. ValueOK(q) /\ pid' = pid /\ exitValue' = exitValue /\ app' = app /\ app \in BOOLEAN
        /\ (sup[q].at = "dead" => sup'[q] = sup[q])
    BY <1>1, <1>2, <1>4 DEF IInv, SupRuns
  <2>2. \A u \in Threads : thr[u].op = "waited" => thr'[u] = thr[u]
    BY <1>1, <1>5
  <2> QED
    BY <2>1, <2>2 DEF ValueOK
<1>9. \A u \in Threads : ThrOK(u)'
  <2> TAKE u \in Threads
  <2>1. ThrOK(u)
    BY DEF IInv
  <2>2. \A v \in Threads, q \in Runs : Waits(v, q)' => Waits(v, q)
    BY <1>3, <1>5 DEF Waits
  <2>3. CASE u = t
    BY <1>3, <1>5, <2>1, <2>2, <2>3 DEF ThrOK
  <2>4. CASE u # t
    <3>1. thr'[u] = thr[u]
      BY <1>5, <2>4
    <3>2. thr[u].op # "idle" => app
      BY <2>1 DEF ThrOK
    <3>3. thr[u].op # "idle" => app'
      BY <1>1, <1>2, <3>2
    <3>4. thr[u].op = "waited" => thr[u].r \in Runs /\ sup'[thr[u].r] = sup[thr[u].r]
      BY <1>4, <2>1 DEF ThrOK, SupRuns
    <3> QED
      BY <1>2, <2>1, <2>2, <3>1, <3>3, <3>4 DEF ThrOK
  <2> QED
    BY <2>3, <2>4
<1> QED
  BY <1>4, <1>6, <1>7, <1>8, <1>9 DEF IInv, SupRuns

(* The app's ends are closed, or a collected pid is used again.            *)
LEMMA CloseEndedKeeps ==
    ASSUME IInv, NEW r \in Runs, CloseEnded(r)
    PROVE  IInv'
<1>1. /\ fds' \subseteq fds /\ app' = app /\ ignores' = ignores /\ closed' = closed
      /\ queue' = queue /\ task' = task /\ caller' = caller /\ sup' = sup /\ guest' = guest
      /\ pid' = pid /\ exitValue' = exitValue /\ thr' = thr /\ others' = others
      /\ ended' = ended
  BY DEF CloseEnded, startVars, useVars
<1>2. Types' /\ OthersNotReaped'
  BY <1>1 DEF IInv, Types, StartTypes, SupTypes, UseTypes, OthersNotReaped
<1>3. \A q \in Runs : QueueOK(q)' /\ SupOK(q)' /\ PidOK(q)' /\ ValueOK(q)'
  <2> TAKE q \in Runs
  <2>1. QueueOK(q)' /\ SupOK(q)' /\ PidOK(q)'
    BY <1>1 DEF IInv, QueueOK, SupOK, PidOK
  <2>2. ValueOK(q)'
    BY <1>1 DEF IInv, ValueOK
  <2> QED
    BY <2>1, <2>2
<1>4. \A t \in Threads : ThrOK(t)'
  BY <1>1 DEF IInv, ThrOK, Waits
<1> QED
  BY <1>2, <1>3, <1>4 DEF IInv

LEMMA PidReusedKeeps ==
    ASSUME IInv, NEW r \in Runs, PidReused(r)
    PROVE  IInv'
<1>1. /\ pid[r] = "nobody" /\ pid' = [pid EXCEPT ![r] = "other"]
      /\ app' = app /\ ignores' = ignores /\ closed' = closed /\ fds' = fds
      /\ queue' = queue /\ task' = task /\ caller' = caller /\ sup' = sup /\ guest' = guest
      /\ exitValue' = exitValue /\ thr' = thr /\ others' = others /\ ended' = ended
  BY DEF PidReused, startVars, useVars
<1>2. Types' /\ OthersNotReaped'
  BY <1>1 DEF IInv, Types, StartTypes, SupTypes, UseTypes, OthersNotReaped
<1>3. \A q \in Runs : pid'[q] = IF q = r THEN "other" ELSE pid[q]
  BY <1>1 DEF IInv, Types, UseTypes
<1>4. \A q \in Runs : QueueOK(q)' /\ SupOK(q)' /\ PidOK(q)' /\ ValueOK(q)'
  <2> TAKE q \in Runs
  <2>1. QueueOK(q)' /\ SupOK(q)'
    BY <1>1 DEF IInv, QueueOK, SupOK
  <2>2. PidOK(q)'
    <3>1. PidOK(q) /\ task' = task /\ caller' = caller /\ sup' = sup
      BY <1>1 DEF IInv
    <3>2. pid'[q] = "none" <=> pid[q] = "none"
      BY <1>1, <1>3
    <3> QED
      BY <3>1, <3>2 DEF PidOK
  <2>3. ValueOK(q)'
    <3>1. ValueOK(q) /\ app \in BOOLEAN
      BY DEF IInv, Types, StartTypes
    <3>2. pid'[q] \in {"nobody", "other"} => pid[q] \in {"nobody", "other"}
      BY <1>1, <1>3
    <3> QED
      BY <1>1, <3>1, <3>2 DEF ValueOK
  <2> QED
    BY <2>1, <2>2, <2>3
<1>5. \A t \in Threads : ThrOK(t)'
  <2> TAKE t \in Threads
  <2>1. ThrOK(t) /\ app \in BOOLEAN
    BY DEF IInv, Types, StartTypes
  <2>2. thr[t].op = "wait" => thr[t].r \in Runs /\ thr[t].r # r
    BY <1>1, <2>1 DEF ThrOK
  <2>3. thr[t].op = "wait" => pid'[thr[t].r] = pid[thr[t].r]
    BY <1>3, <2>2
  <2>4. thr[t].op # "idle" => app'
    BY <1>1, <2>1 DEF ThrOK
  <2> QED
    BY <1>1, <2>1, <2>3, <2>4 DEF ThrOK, Waits
<1> QED
  BY <1>2, <1>4, <1>5 DEF IInv

-----------------------------------------------------------------------------
LEMMA NextIInv == IInv /\ [Next]_vars => IInv'
<1> SUFFICES ASSUME IInv, [Next]_vars PROVE IInv'
  OBVIOUS
<1>1. CASE UNCHANGED vars
  <2>1. /\ app' = app /\ ignores' = ignores /\ closed' = closed /\ fds' = fds
        /\ queue' = queue /\ task' = task /\ caller' = caller /\ sup' = sup /\ guest' = guest
        /\ pid' = pid /\ exitValue' = exitValue /\ thr' = thr /\ others' = others
        /\ ended' = ended
    BY <1>1 DEF vars, startVars, useVars
  <2>2. Types' /\ OthersNotReaped'
    BY <2>1 DEF IInv, Types, StartTypes, SupTypes, UseTypes, OthersNotReaped
  <2>3. \A r \in Runs : QueueOK(r)' /\ SupOK(r)' /\ PidOK(r)'
    BY <2>1 DEF IInv, QueueOK, SupOK, PidOK
  <2>4. \A r \in Runs : ValueOK(r)'
    BY <2>1 DEF IInv, ValueOK
  <2>5. \A t \in Threads : ThrOK(t)'
    BY <2>1 DEF IInv, ThrOK, Waits
  <2> QED
    BY <2>2, <2>3, <2>4, <2>5 DEF IInv
<1>2. CASE Close \/ AppDies
  BY <1>2, CloseKeeps, AppDiesKeeps
<1>3. ASSUME NEW r \in Runs,
             \/ Start(r) \/ OpenPipes(r) \/ Fork(r) \/ ForkFails(r) \/ Started(r)
             \/ Returns(r) \/ Interrupted(r)
      PROVE  IInv'
  BY <1>3, StartKeeps, OpenPipesKeeps, ForkKeeps, ForkFailsKeeps, StartedKeeps, AnswerKeeps
<1>4. ASSUME NEW r \in Runs,
             \/ DieWithParent(r) \/ reset_signals(r) \/ TakeFds(r) \/ close_inherited_fds(r)
             \/ emuroot_run(r) \/ GuestExits(r) \/ OrphanExits(r) \/ SupKilled(r)
             \/ CloseEnded(r) \/ PidReused(r)
      PROVE  IInv'
  BY <1>4, SupStepsKeep, RunKeeps, EndsKeep, CloseEndedKeeps, PidReusedKeeps
<1>5. ASSUME NEW r \in Runs, NEW t \in Threads, WaitFor(t, r) \/ Destroy(t, r)
      PROVE  IInv'
  BY <1>5, WaitForKeeps, DestroyKeeps
<1>6. ASSUME NEW t \in Threads, emuroot_wait(t) \/ WaitReturns(t) \/ emuroot_terminate(t)
      PROVE  IInv'
  BY <1>6, WaitKeeps, WaitReturnsKeeps, TerminateKeeps
<1> QED
  BY <1>1, <1>2, <1>3, <1>4, <1>5, <1>6 DEF Next

LEMMA AlwaysIInv == Spec => []IInv
BY InitIInv, NextIInv, PTL DEF Spec

(* The variables keep their types, whatever the threads, the supervisors   *)
(* and the guests of the app do; a supervisor has a status exactly when it *)
(* is a zombie or collected.                                               *)
THEOREM TypeCorrect == Spec => []TypeOK
<1>1. IInv => TypeOK
  <2> SUFFICES ASSUME IInv PROVE TypeOK
    OBVIOUS
  <2>1. ASSUME NEW r \in Runs
        PROVE  /\ sup[r].at \in SupAt /\ sup[r].tied \in BOOLEAN /\ sup[r].held \subseteq Ends
               /\ sup[r].at = "dead" <=> sup[r].status # None
               /\ exitValue[r] = None \/ exitValue[r] \in -1..255
    BY SupFacts DEF Sup, SupOK, IInv, Types, UseTypes, Value
  <2> QED
    BY <2>1 DEF IInv, Types, StartTypes, SupTypes, UseTypes, TypeOK, SupAt
<1> QED
  BY <1>1, AlwaysIInv, PTL

(* The value that waitFor (EmurootProcess.java) answers is the guest's own *)
(* end, whenever the guest ended by itself: it survives the engine's       *)
(* 128 + N, the eight bits of _exit in the supervisor (spawn.c), waitpid   *)
(* and emuroot_wait, with any number of threads that wait or destroy.      *)
THEOREM ExitValue == Spec => []ExitValueIsGuests
<1>1. ASSUME IInv, NEW r \in Runs, ended[r] # None, exitValue[r] # None
      PROVE  exitValue[r] = Code(ended[r])
  <2>1. ended[r] \in Statuses
    BY <1>1 DEF IInv, Types, SupTypes
  <2>2. exitValue[r] = Code(exit(Code(ended[r])))
    BY <1>1 DEF IInv, SupOK, ValueOK
  <2>3. \A c \in 0..255 : Code(exit(c)) = c
    BY DEF Code, exit, Exited
  <2>4. Code(ended[r]) \in 0..255
    <3>1. CASE ended[r] \in [signal : {FALSE}, n : 0..255]
      BY <3>1 DEF Code
    <3>2. CASE ended[r] \in [signal : {TRUE}, n : 1..127]
      <4>1. ended[r].signal = TRUE /\ ended[r].n \in 1..127
        BY <3>2
      <4> QED
        BY <4>1 DEF Code
    <3> QED
      BY <2>1, <3>1, <3>2, StatusesAssumption, ZenonT(30)
  <2> QED
    BY <2>2, <2>3, <2>4
<1>2. IInv => ExitValueIsGuests
  BY <1>1 DEF ExitValueIsGuests
<1> QED
  BY <1>2, AlwaysIInv, PTL

(* emuroot_wait (spawn.c) never collects another child of the app, even    *)
(* though the kernel may give a collected supervisor's pid away: the       *)
(* monitor of waitFor lets one thread through, once.                       *)
THEOREM WaitsOnlyForSupervisor == Spec => []OthersNotReaped
<1>1. IInv => OthersNotReaped
  BY DEF IInv
<1> QED
  BY <1>1, AlwaysIInv, PTL

(* A guest runs with its own three descriptors and nothing else of the     *)
(* app's (close_inherited_fds, spawn.c), whatever was open when the        *)
(* supervisor was forked.                                                  *)
THEOREM GuestPipesPrivate == Spec => []PipesPrivate
<1>1. IInv => PipesPrivate
  BY DEF IInv, SupOK, PipesPrivate
<1> QED
  BY <1>1, AlwaysIInv, PTL

(* Once a start is over nobody but the guest's own supervisor holds the    *)
(* guest's ends, so that a reader of its output sees the end of it: the    *)
(* single thread of SPAWNER (Emuroot.java) never forks while another       *)
(* guest's ends are open.                                                  *)
THEOREM OutputEnds == Spec => []EofWhenGone
<1>1. IInv => EofWhenGone
  BY DEF IInv, QueueOK, SupOK, EofWhenGone
<1> QED
  BY <1>1, AlwaysIInv, PTL
=============================================================================
