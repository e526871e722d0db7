----------------------------- MODULE Ownership -----------------------------
(***************************************************************************)
(* Fake file ownership across the two stops of a call: at its entry the    *)
(* tracer notes what a chown asks for and who owns the file, or which file *)
(* a call may create (identity.c); the kernel then runs the call; at its   *)
(* exit the tracer records the new owner (fake.c).  Other tracees' stops   *)
(* and calls come in between.                                              *)
(*                                                                         *)
(* The database is a map (OwnerTable shows that it is, as long as memory   *)
(* lasts).  emuroot itself is an ordinary user, so a chown changes nothing *)
(* on disk.  promised, saw and spoilt are history.  promised is what the   *)
(* same calls make on a system with a real root, where each takes effect   *)
(* at one moment: a creation when the kernel makes the file, a chown when  *)
(* it returns.  spoilt are the files whose record one of the anomalies     *)
(* named below has made wrong and no call has put right since.             *)
(***************************************************************************)
EXTENDS Integers, FiniteSets

CONSTANTS
    Procs,
    Dropped,        \* those that run under the identity Guest instead of Fake
    Paths, Inodes, NoInode,
    Fake, Guest,    \* the identity files are reported as; another one
    Me, Other,      \* real owners: the user emuroot runs as, and not that user
    Initial,        \* real owners the first file may have
    NOID,           \* (uint32_t)-1: leave unchanged
    Requests,       \* what a chown may ask for
    Calls,          \* the calls to cover
    MaxCalls        \* bound: how many are made

ASSUME MaxCallsAssumption == MaxCalls \in Nat
ASSUME ProcsAssumption == Dropped \subseteq Procs
ASSUME PathsAssumption == Paths # {}
ASSUME InodesAssumption == NoInode \notin Inodes
ASSUME InitialAssumption == Initial \subseteq [uid : {Me, Other}, gid : {Me, Other}]
ASSUME IdsAssumption == NOID \notin {Fake, Guest, Other} /\ Me # Other /\ Fake # Guest

VARIABLES
    dir,            \* the file at each path
    real,           \* each file's owner on disk
    db,             \* the ownership database
    count,          \* how many calls have been made
    at, call,       \* where each process is, and in which call
    ret,            \* the kernel's answer to it
    note,           \* what the tracer noted at its entry (tracee_t)
    promised,       \* history: the owner a real root's system would have given
    saw,            \* history: what each call found when it was entered and run
    spoilt          \* history: files with a wrong record

vars == <<dir, real, db, count, at, call, ret, note, promised, saw, spoilt>>

Ids == {Fake, Guest, Other}
Owner == [uid : Ids, gid : Ids]
NoOwner == [uid |-> NOID, gid |-> NOID]
ASSUME RequestsAssumption ==
    Requests \subseteq [uid : {Fake, Guest, NOID}, gid : {Fake, Guest, NOID}] \ {NoOwner}
Both(id) == [uid |-> id, gid |-> id]
RealOwner == [uid : {Me, Other}, gid : {Me, Other}]

(* the emulated credentials: effective and file-system ids *)
Identity(p) == IF p \in Dropped THEN Guest ELSE Fake

Counted == count < MaxCalls /\ count' = count + 1

Recorded(i) == db[i] # NoOwner

(* stat's answer: the recorded owner, or each id, the user's own as Fake *)
fake_owner(i) ==
    IF Recorded(i) THEN db[i]
    ELSE [uid |-> IF real[i].uid = Me THEN Fake ELSE real[i].uid,
          gid |-> IF real[i].gid = Me THEN Fake ELSE real[i].gid]

(* chown_cur_uid, chown_cur_gid: the ids mapped first, then the lookup *)
\* variant: without the lookup
chown_cur_NoLookup(i) == [uid |-> IF real[i].uid = Me THEN Fake ELSE real[i].uid,
                          gid |-> IF real[i].gid = Me THEN Fake ELSE real[i].gid]

chown_cur(i) ==
    LET mapped == [uid |-> IF real[i].uid = Me THEN Fake ELSE real[i].uid,
                   gid |-> IF real[i].gid = Me THEN Fake ELSE real[i].gid]
    IN  IF Recorded(i) THEN db[i] ELSE mapped

(* chown_uid, chown_gid over chown_cur_uid, chown_cur_gid *)
Chowned(req, cur) == [uid |-> IF req.uid # NOID THEN req.uid ELSE cur.uid,
                      gid |-> IF req.gid # NOID THEN req.gid ELSE cur.gid]

NoNote == [chown_valid |-> FALSE, ino |-> NoInode, cur |-> NoOwner, created |-> FALSE]
NoCall == [op |-> "none", path |-> CHOOSE x \in Paths : TRUE, req |-> NoOwner]
NoSaw == [file |-> NoInode, owner |-> NoOwner, ran |-> NoInode, made |-> FALSE]

(* The user's files are root's in the guest, other users' are theirs. *)
AsRoot(id) == IF id = Me THEN Fake ELSE id

Init ==
    /\ \E i \in Inodes, o \in Initial :
         /\ dir = [x \in Paths |-> IF x = NoCall.path THEN i ELSE NoInode]
         /\ real = [j \in Inodes |-> IF j = i THEN o ELSE Both(Me)]
    /\ db = [i \in Inodes |-> NoOwner]
    /\ count = 0
    /\ at = [p \in Procs |-> "user"] /\ call = [p \in Procs |-> NoCall]
    /\ ret = [p \in Procs |-> "none"]
    /\ note = [p \in Procs |-> NoNote]
    /\ promised = [i \in Inodes |-> [uid |-> AsRoot(real[i].uid), gid |-> AsRoot(real[i].gid)]]
    /\ saw = [p \in Procs |-> NoSaw]
    /\ spoilt = {}

(* Another identity's file is shown as Fake's until its creation returns. *)
BeingCreated(i) == \E p \in Dropped : at[p] = "ran" /\ saw[p].made /\ saw[p].ran = i

-----------------------------------------------------------------------------
(* stat of the path fails where there is no file *)
note_chown(i) ==
    IF i = NoInode THEN NoNote
    ELSE [NoNote EXCEPT !.chown_valid = TRUE, !.ino = i, !.cur = chown_cur(i)]

\* variant: the path may have been there before
note_creation_Any(p, x) == [NoNote EXCEPT !.created = Identity(p) # Fake]

note_creation(p, x) == [NoNote EXCEPT !.created = Identity(p) # Fake /\ dir[x] = NoInode]

(* emuroot_on_entry: the notes of the last call are cleared first.  The    *)
(* history: the file at the path, and its owner where stat shows it.       *)
Enter(p, op, x, req) ==
    LET i == dir[x]
    IN  /\ at[p] = "user" /\ op \in Calls /\ Counted
        /\ at' = [at EXCEPT ![p] = "entered"]
        /\ call' = [call EXCEPT ![p] = [op |-> op, path |-> x, req |-> req]]
        /\ note' = [note EXCEPT ![p] = IF op = "chown" THEN note_chown(i) ELSE note_creation(p, x)]
        /\ saw' = [saw EXCEPT ![p] =
              [NoSaw EXCEPT !.file = i,
                            !.owner = IF i = NoInode \/ i \in spoilt \/ BeingCreated(i)
                                      THEN NoOwner ELSE promised[i]]]
        /\ UNCHANGED <<ret, dir, real, db, promised, spoilt>>

-----------------------------------------------------------------------------
(* The kernel runs the call.  An ordinary user's chown is refused (EPERM,  *)
(* or EINVAL, which is handled alike), or accepted when it asks for        *)
(* nothing new, or fails for another reason.                               *)
RunChown(p) == \E answer \in {"ok", "EPERM", "error"} :
    LET i == dir[call[p].path]
    IN  /\ at[p] = "entered" /\ call[p].op = "chown"
        /\ i = NoInode => answer = "error"
        /\ at' = [at EXCEPT ![p] = "ran"]
        /\ ret' = [ret EXCEPT ![p] = answer]
        /\ saw' = [saw EXCEPT ![p].ran = i]
        /\ UNCHANGED <<dir, real, db, count, call, note, promised, spoilt>>

(* open with O_CREAT, mkdir and the like: a file that is there is opened   *)
(* or refused; one is made, or cannot be.  A new one may get the number of *)
(* one that was deleted, and with it the record that number has.           *)
RunCreate(p) ==
    LET x == call[p].path
    IN  /\ at[p] = "entered" /\ call[p].op = "create"
        /\ at' = [at EXCEPT ![p] = "ran"]
        /\ \/ /\ ret' = [ret EXCEPT ![p] = "error"]
              /\ UNCHANGED <<dir, real, promised, saw, spoilt>>
           \/ /\ dir[x] # NoInode
              /\ ret' = [ret EXCEPT ![p] = "ok"]
              /\ saw' = [saw EXCEPT ![p].ran = dir[x]]
              /\ UNCHANGED <<dir, real, promised, spoilt>>
           \/ /\ dir[x] = NoInode
              /\ ret' = [ret EXCEPT ![p] = "ok"]
              /\ \E i \in Inodes \ {dir[y] : y \in Paths} :
                   /\ dir' = [dir EXCEPT ![x] = i]
                   /\ real' = [real EXCEPT ![i] = Both(Me)]
                   /\ promised' = [promised EXCEPT ![i] = Both(Identity(p))]
                   /\ saw' = [saw EXCEPT ![p].ran = i, ![p].made = TRUE]
                   /\ spoilt' = IF Recorded(i) THEN spoilt \cup {i} ELSE spoilt \ {i}
        /\ UNCHANGED <<db, count, call, note>>

(* The history of a file's end: the calls that ran on it have run on       *)
(* nothing that is left.                                                   *)
Deleted(i) ==
    /\ promised' = [j \in Inodes |-> IF j = i THEN Both(Fake) ELSE promised[j]]
    /\ saw' = [q \in Procs |-> IF saw[q].ran = i THEN [saw[q] EXCEPT !.ran = NoInode] ELSE saw[q]]
    /\ spoilt' = spoilt \ {i}

(* unlink, and rename, which deletes the file it replaces: nothing of them *)
(* concerns the database                                                   *)
Unlink(p, x) ==
    /\ at[p] = "user" /\ "unlink" \in Calls /\ Counted /\ dir[x] # NoInode
    /\ dir' = [dir EXCEPT ![x] = NoInode]
    /\ Deleted(dir[x])
    /\ UNCHANGED <<real, db, at, call, ret, note>>

Rename(p, x, y) ==
    /\ at[p] = "user" /\ "rename" \in Calls /\ Counted /\ dir[x] # NoInode /\ x # y
    /\ dir' = [dir EXCEPT ![x] = NoInode, ![y] = dir[x]]
    /\ Deleted(dir[y])
    /\ UNCHANGED <<real, db, at, call, ret, note>>

-----------------------------------------------------------------------------
Done(p) ==
    /\ ret' = [ret EXCEPT ![p] = "none"]
    /\ at' = [at EXCEPT ![p] = "user"] /\ call' = [call EXCEPT ![p] = NoCall]
    /\ note' = [note EXCEPT ![p] = NoNote] /\ saw' = [saw EXCEPT ![p] = NoSaw]

(* A real root may chown any file; another identity its own, and to what   *)
(* the file has already.                                                   *)
Permitted(p) == LET req == call[p].req  i == saw[p].ran IN
    p \in Dropped => /\ promised[i].uid = Guest
                     /\ req.uid \in {NOID, Guest} /\ req.gid \in {NOID, Guest, promised[i].gid}

(* The anomalies of a chown that the kernel answers.  It is recorded for   *)
(* the file that was at the path at its entry, not for the one the kernel  *)
(* found there; another identity's is recorded and reported as done,       *)
(* though it is refused by a system with a real root; and an id it leaves  *)
(* unchanged is put back to what it was at the entry (or to what was       *)
(* wrongly shown then), whoever has changed it since.                      *)
OtherFile(p) == saw[p].ran = NoInode \/ saw[p].file # saw[p].ran
LostUpdate(p) == LET now == promised[saw[p].ran] IN
    \/ call[p].req.uid = NOID /\ saw[p].owner.uid # now.uid
    \/ call[p].req.gid = NOID /\ saw[p].owner.gid # now.gid
ChownAnomaly(p) == OtherFile(p) \/ ~Permitted(p) \/ LostUpdate(p)

(* emuroot_on_exit.  A chown the kernel refused is reported as done,       *)
(* whoever asked.                                                          *)
Records(p) == note[p].chown_valid /\ ret[p] \in {"ok", "EPERM"}

\* variant: -1 is recorded as it is
ExitChown_Raw(p) ==
    LET i == saw[p].ran  answered == ret[p] \in {"ok", "EPERM"}
    IN  /\ at[p] = "ran" /\ call[p].op = "chown"
        /\ db' = IF Records(p) THEN [db EXCEPT ![note[p].ino] = call[p].req] ELSE db
        /\ promised' = IF answered /\ i # NoInode /\ Permitted(p)
                       THEN [promised EXCEPT ![i] = Chowned(call[p].req, @)] ELSE promised
        /\ spoilt' = IF ~answered THEN spoilt
                     ELSE IF ChownAnomaly(p) THEN spoilt \cup ({saw[p].file, i} \ {NoInode})
                     ELSE spoilt \ {i}
        /\ Done(p)
        /\ UNCHANGED <<dir, real, count>>

ExitChown(p) ==
    LET i == saw[p].ran  answered == ret[p] \in {"ok", "EPERM"}
    IN  /\ at[p] = "ran" /\ call[p].op = "chown"
        /\ db' = IF Records(p)
                 THEN [db EXCEPT ![note[p].ino] = Chowned(call[p].req, note[p].cur)] ELSE db
        /\ promised' = IF answered /\ i # NoInode /\ Permitted(p)
                       THEN [promised EXCEPT ![i] = Chowned(call[p].req, @)] ELSE promised
        /\ spoilt' = IF ~answered THEN spoilt
                     ELSE IF ChownAnomaly(p) THEN spoilt \cup ({saw[p].file, i} \ {NoInode})
                     ELSE spoilt \ {i}
        /\ Done(p)
        /\ UNCHANGED <<dir, real, count>>

(* The anomalies of a creation: another file than the one it made is at    *)
(* the path by its exit, or was when it was entered; the file is another   *)
(* owner's by then; or the path, free at its entry, was taken when it ran, *)
(* and the file it opened passes for its own.                              *)
Absent(p) == saw[p].file = NoInode
CreateAnomaly(p, i) ==
    \/ saw[p].made /\ (~Absent(p) \/ i # saw[p].ran
                       \/ i = NoInode \/ promised[i] # Both(Identity(p)))
    \/ Absent(p) /\ ~saw[p].made

(* lstat of the noted path *)
ExitCreate(p) ==
    LET i == dir[call[p].path]
        records == note[p].created /\ ret[p] = "ok" /\ i # NoInode
    IN  /\ at[p] = "ran" /\ call[p].op = "create"
        /\ db' = IF records THEN [db EXCEPT ![i] = Both(Identity(p))] ELSE db
        /\ spoilt' = IF ret[p] # "ok" \/ p \notin Dropped THEN spoilt
                     ELSE IF CreateAnomaly(p, i) THEN spoilt \cup ({i, saw[p].ran} \ {NoInode})
                     ELSE IF saw[p].made THEN spoilt \ {i} ELSE spoilt
        /\ Done(p)
        /\ UNCHANGED <<dir, real, count, promised>>

Next == \E p \in Procs :
    \/ \E x \in Paths, req \in Requests : Enter(p, "chown", x, req)
    \/ \E x \in Paths : Enter(p, "create", x, NoOwner) \/ Unlink(p, x)
    \/ \E x, y \in Paths : Rename(p, x, y)
    \/ RunChown(p) \/ RunCreate(p) \/ ExitChown(p) \/ ExitCreate(p)

Spec == Init /\ [][Next]_vars

-----------------------------------------------------------------------------
(* The values of the variables: an owner is a pair of ids, never -1. *)
TypeOK ==
    /\ dir \in [Paths -> Inodes \cup {NoInode}]
    /\ real \in [Inodes -> RealOwner]
    /\ db \in [Inodes -> Owner \cup {NoOwner}]
    /\ count \in 0..MaxCalls
    /\ at \in [Procs -> {"user", "entered", "ran"}]
    /\ call \in [Procs -> [op : {"none", "chown", "create"}, path : Paths,
                           req : Requests \cup {NoOwner}]]
    /\ ret \in [Procs -> {"none", "ok", "EPERM", "error"}]
    /\ note \in [Procs -> [chown_valid : BOOLEAN, ino : Inodes \cup {NoInode},
                           cur : Owner \cup {NoOwner}, created : BOOLEAN]]
    /\ promised \in [Inodes -> Owner]
    /\ saw \in [Procs -> [file : Inodes \cup {NoInode}, owner : Owner \cup {NoOwner},
                          ran : Inodes \cup {NoInode}, made : BOOLEAN]]
    /\ spoilt \subseteq Inodes

(* stat agrees with what the calls did, however they overlapped: a file    *)
(* shows the owner that its creation and its chowns give it on a system    *)
(* with a real root.  Left out are the file another identity is creating,  *)
(* until that call returns, and the files in spoilt: those an anomaly of   *)
(* ExitChown or ExitCreate befell, and those that were made with a number  *)
(* that has a record (which only the creation by another identity          *)
(* replaces), each until a call has recorded the right owner again.        *)
ReportedIsPromised == \A x \in Paths :
    LET i == dir[x]
    IN  i # NoInode /\ i \notin spoilt /\ ~BeingCreated(i) => fake_owner(i) = promised[i]
=============================================================================
