-------------------------- MODULE OwnershipProofs --------------------------
(* Proofs about fake ownership, for any processes, paths and inodes.       *)
EXTENDS Ownership, TLAPS

(* What the tracer noted at a call's entry, against the history of the     *)
(* call: it noted the file that was there, with the owner it had if stat   *)
(* showed that owner; and a file is being created only by a creation that  *)
(* succeeded.                                                              *)
Noted(p) ==
    /\ note[p].chown_valid =>
          /\ note[p].ino \in Inodes /\ note[p].cur \in Owner /\ note[p].ino = saw[p].file
    /\ at[p] # "user" => call[p].op \in {"chown", "create"}
    /\ at[p] # "user" /\ call[p].op = "chown" =>
          /\ saw[p].file # NoInode => note[p].chown_valid
          /\ saw[p].owner # NoOwner => note[p].cur = saw[p].owner
          /\ ~saw[p].made
    /\ at[p] # "user" /\ call[p].op = "create" =>
          note[p].created = (Identity(p) # Fake /\ saw[p].file = NoInode)
    /\ saw[p].made => at[p] = "ran" /\ ret[p] = "ok"

OneLink == \A x, y \in Paths : dir[x] = dir[y] /\ dir[x] # NoInode => x = y
InSync(i) == i \notin spoilt /\ ~BeingCreated(i) => fake_owner(i) = promised[i]

IInv ==
    /\ TypeOK /\ OneLink
    /\ \A p \in Procs : Noted(p)
    /\ \A x \in Paths : dir[x] # NoInode => InSync(dir[x])

-----------------------------------------------------------------------------
(* Types.                                                                  *)
CallType == [op : {"none", "chown", "create"}, path : Paths, req : Requests \cup {NoOwner}]
NoteType == [chown_valid : BOOLEAN, ino : Inodes \cup {NoInode},
             cur : Owner \cup {NoOwner}, created : BOOLEAN]
SawType == [file : Inodes \cup {NoInode}, owner : Owner \cup {NoOwner},
            ran : Inodes \cup {NoInode}, made : BOOLEAN]
Answers == {"none", "ok", "EPERM", "error"}

LEMMA TypeFacts ==
    ASSUME TypeOK
    PROVE  /\ dir \in [Paths -> Inodes \cup {NoInode}]
           /\ real \in [Inodes -> RealOwner]
           /\ db \in [Inodes -> Owner \cup {NoOwner}]
           /\ count \in 0..MaxCalls
           /\ at \in [Procs -> {"user", "entered", "ran"}]
           /\ call \in [Procs -> CallType] /\ ret \in [Procs -> Answers]
           /\ note \in [Procs -> NoteType] /\ promised \in [Inodes -> Owner]
           /\ saw \in [Procs -> SawType] /\ spoilt \subseteq Inodes
BY DEF TypeOK, CallType, NoteType, SawType, Answers

LEMMA OwnerFacts ==
    /\ NoOwner \notin Owner
    /\ Both(Guest) \in Owner /\ Both(Fake) \in Owner /\ Both(Me) \in RealOwner
    /\ \A p \in Procs : Both(Identity(p)) \in Owner
    /\ \A req \in Requests \cup {NoOwner}, cur \in Owner : Chowned(req, cur) \in Owner
<1>1. NoOwner \notin Owner
  BY IdsAssumption DEF NoOwner, Owner, Ids
<1>2. Both(Guest) \in Owner /\ Both(Fake) \in Owner /\ Both(Me) \in RealOwner
  BY DEF Both, Owner, Ids, RealOwner
<1>3. ASSUME NEW req \in Requests \cup {NoOwner}, NEW cur \in Owner
      PROVE  Chowned(req, cur) \in Owner
  <2>1. req.uid \in {Fake, Guest, NOID} /\ req.gid \in {Fake, Guest, NOID}
    BY RequestsAssumption DEF NoOwner
  <2>2. cur.uid \in Ids /\ cur.gid \in Ids
    BY DEF Owner
  <2> QED
    BY <2>1, <2>2 DEF Chowned, Owner, Ids
<1> QED
  BY <1>1, <1>2, <1>3 DEF Identity

LEMMA NoThings ==
    /\ NoNote \in NoteType /\ NoNote.chown_valid = FALSE /\ NoNote.created = FALSE
    /\ NoCall \in CallType /\ NoCall.op = "none" /\ NoCall.path \in Paths
    /\ NoSaw \in SawType /\ NoSaw.made = FALSE
<1>1. (CHOOSE x \in Paths : TRUE) \in Paths
  BY PathsAssumption
<1> QED
  BY <1>1 DEF NoNote, NoteType, NoCall, CallType, NoSaw, SawType

LEMMA Mapped ==
    ASSUME NEW o \in RealOwner
    PROVE  [uid |-> IF o.uid = Me THEN Fake ELSE o.uid,
            gid |-> IF o.gid = Me THEN Fake ELSE o.gid] \in Owner
BY DEF RealOwner, Owner, Ids

(* identity.c and fake.c agree on the owner of a file that nobody changes. *)
LEMMA CurIsShown ==
    ASSUME TypeOK, NEW i \in Inodes
    PROVE  chown_cur(i) = fake_owner(i) /\ fake_owner(i) \in Owner
<1>1. real[i] \in RealOwner /\ db[i] \in Owner \cup {NoOwner}
  BY TypeFacts
<1> QED
  BY <1>1, Mapped DEF chown_cur, fake_owner, Recorded

LEMMA InitIInv == Init => IInv
<1> SUFFICES ASSUME Init PROVE IInv
  OBVIOUS
<1>1. PICK i \in Inodes, o \in Initial :
        /\ dir = [x \in Paths |-> IF x = NoCall.path THEN i ELSE NoInode]
        /\ real = [j \in Inodes |-> IF j = i THEN o ELSE Both(Me)]
  BY DEF Init
<1>2. real \in [Inodes -> RealOwner]
  BY <1>1, InitialAssumption, OwnerFacts DEF RealOwner
<1>3. ASSUME NEW j \in Inodes
      PROVE  promised[j] \in Owner /\ fake_owner(j) = promised[j]
  <2>1. promised[j] = [uid |-> AsRoot(real[j].uid), gid |-> AsRoot(real[j].gid)]
    BY DEF Init
  <2>2. real[j] \in RealOwner /\ db[j] = NoOwner
    BY <1>2 DEF Init
  <2> QED
    BY <2>1, <2>2, Mapped DEF AsRoot, fake_owner, Recorded
<1>4. TypeOK
  <2>1. dir \in [Paths -> Inodes \cup {NoInode}] /\ db \in [Inodes -> Owner \cup {NoOwner}]
    BY <1>1 DEF Init
  <2>2. /\ at \in [Procs -> {"user", "entered", "ran"}]
        /\ call \in [Procs -> CallType] /\ ret \in [Procs -> Answers]
        /\ note \in [Procs -> NoteType] /\ saw \in [Procs -> SawType]
    BY NoThings DEF Init, Answers
  <2>3. promised \in [Inodes -> Owner]
    BY <1>3 DEF Init
  <2>4. spoilt \subseteq Inodes /\ count \in 0..MaxCalls
    BY MaxCallsAssumption DEF Init
  <2> QED
    BY <1>2, <2>1, <2>2, <2>3, <2>4 DEF TypeOK, CallType, NoteType, SawType, Answers
<1>5. OneLink
  BY <1>1 DEF OneLink
<1>6. ASSUME NEW p \in Procs PROVE Noted(p)
  BY NoThings DEF Init, Noted
<1>7. ASSUME NEW x \in Paths, dir[x] # NoInode PROVE InSync(dir[x])
  BY <1>1, <1>3, <1>7 DEF InSync
<1> QED
  BY <1>4, <1>5, <1>6, <1>7 DEF IInv

-----------------------------------------------------------------------------
(* What a step of p leaves alone.                                          *)
Others(p) == \A q \in Procs \ {p} :
    /\ at'[q] = at[q] /\ call'[q] = call[q] /\ ret'[q] = ret[q] /\ note'[q] = note[q]
    /\ saw'[q] = saw[q]
Creating(p, i) == p \in Dropped /\ at[p] = "ran" /\ saw[p].made /\ saw[p].ran = i

LEMMA OthersKeep ==
    ASSUME IInv, NEW p \in Procs, Others(p)
    PROVE  \A q \in Procs \ {p} : Noted(q)'
BY DEF IInv, Others, Noted

(* A file whose owners a step leaves alone stays in sync, if p, where it   *)
(* was creating the file, still is.                                        *)
LEMMA SyncKept ==
    ASSUME NEW p \in Procs, Others(p), NEW i, InSync(i),
           db'[i] = db[i], real'[i] = real[i], promised'[i] = promised[i],
           i \in spoilt => i \in spoilt',
           Creating(p, i) => Creating(p, i)' \/ i \in spoilt'
    PROVE  InSync(i)'
<1>1. fake_owner(i)' = fake_owner(i)
  BY DEF fake_owner, Recorded
<1>2. BeingCreated(i) => BeingCreated(i)' \/ i \in spoilt'
  <2> SUFFICES ASSUME NEW q \in Dropped, Creating(q, i), i \notin spoilt'
               PROVE  Creating(q, i)'
    BY DEF BeingCreated, Creating
  <2> QED
    BY ProcsAssumption DEF Others, Creating
<1> QED
  BY <1>1, <1>2 DEF InSync

LEMMA FilesInSync ==
    ASSUME TypeOK', \A j \in Inodes : \A y \in Paths : dir'[y] = j => InSync(j)'
    PROVE  (\A y \in Paths : dir[y] # NoInode => InSync(dir[y]))'
<1> SUFFICES ASSUME NEW y \in Paths, dir'[y] # NoInode PROVE InSync(dir[y])'
  OBVIOUS
<1>1. PICK j \in Inodes : j = dir'[y]
  BY DEF TypeOK
<1>2. InSync(j)'
  BY <1>1
<1> QED
  BY <1>1, <1>2 DEF InSync, fake_owner, Recorded, BeingCreated

(* The entry of a call. *)
LEMMA EnterKeeps ==
    ASSUME IInv, NEW p \in Procs, NEW op, NEW x \in Paths, NEW req,
           \/ op = "chown" /\ req \in Requests
           \/ op = "create" /\ req = NoOwner,
           Enter(p, op, x, req)
    PROVE  IInv'
<1> DEFINE i == dir[x]
           c == [op |-> op, path |-> x, req |-> req]
           n == IF op = "chown" THEN note_chown(i) ELSE note_creation(p, x)
           s == [NoSaw EXCEPT !.file = i,
                              !.owner = IF i = NoInode \/ i \in spoilt \/ BeingCreated(i)
                                        THEN NoOwner ELSE promised[i]]
<1>1. /\ TypeOK /\ at[p] = "user" /\ count' \in 0..MaxCalls
      /\ at' = [at EXCEPT ![p] = "entered"] /\ call' = [call EXCEPT ![p] = c]
      /\ note' = [note EXCEPT ![p] = n] /\ saw' = [saw EXCEPT ![p] = s]
      /\ ret' = ret /\ dir' = dir /\ real' = real /\ db' = db /\ promised' = promised
      /\ spoilt' = spoilt
  BY MaxCallsAssumption DEF Enter, IInv, Counted, TypeOK
<1>2. i \in Inodes \cup {NoInode} /\ c \in CallType /\ c.op = op
  BY <1>1, TypeFacts DEF CallType
<1>3. /\ s \in SawType /\ s.file = i /\ s.made = FALSE
      /\ s.owner # NoOwner => i \in Inodes /\ InSync(i) /\ s.owner = fake_owner(i)
  <2>1. s.file = i /\ s.made = FALSE /\ s.ran = NoInode
        /\ s.owner = IF i = NoInode \/ i \in spoilt \/ BeingCreated(i) THEN NoOwner ELSE promised[i]
    BY DEF NoSaw
  <2>2. i # NoInode => promised[i] \in Owner
    BY <1>1, <1>2, TypeFacts
  <2>3. s \in SawType
    BY <1>2, <2>1, <2>2, NoThings DEF SawType, NoSaw
  <2>4. i # NoInode => InSync(i)
    BY DEF IInv
  <2> QED
    BY <1>2, <2>1, <2>3, <2>4 DEF InSync
<1>4. ASSUME op = "chown"
      PROVE  /\ n \in NoteType /\ n.created = FALSE
             /\ n.chown_valid => i \in Inodes /\ n.ino = i /\ n.cur = fake_owner(i) /\ n.cur \in Owner
             /\ i # NoInode => n.chown_valid
  <2>1. CASE i = NoInode
    BY <1>4, <2>1, NoThings DEF note_chown
  <2>2. CASE i # NoInode
    <3>1. chown_cur(i) = fake_owner(i) /\ fake_owner(i) \in Owner
      BY <1>1, <1>2, <2>2, CurIsShown
    <3>2. n = [NoNote EXCEPT !.chown_valid = TRUE, !.ino = i, !.cur = chown_cur(i)]
      BY <1>4, <2>2 DEF note_chown
    <3> QED
      BY <1>2, <2>2, <3>1, <3>2 DEF NoNote, NoteType
  <2> QED
    BY <2>1, <2>2
<1>5. ASSUME op = "create"
      PROVE  /\ n \in NoteType /\ n.chown_valid = FALSE
             /\ n.created = (Identity(p) # Fake /\ i = NoInode)
  BY <1>5 DEF note_creation, NoNote, NoteType
<1>6. n \in NoteType
  BY <1>4, <1>5
<1>7. TypeOK'
  <2>1. /\ at' \in [Procs -> {"user", "entered", "ran"}] /\ call' \in [Procs -> CallType]
        /\ note' \in [Procs -> NoteType] /\ saw' \in [Procs -> SawType]
    BY <1>1, <1>2, <1>3, <1>6, TypeFacts
  <2> QED
    BY <1>1, <2>1, TypeFacts DEF TypeOK, CallType, NoteType, SawType, Answers
<1>8. OneLink'
  BY <1>1 DEF IInv, OneLink
<1>9. Others(p) /\ at'[p] = "entered" /\ call'[p] = c /\ note'[p] = n /\ saw'[p] = s
  BY <1>1, TypeFacts DEF Others
<1>10. Noted(p)'
  <2>1. CASE op = "chown"
    BY <1>2, <1>3, <1>4, <1>9, <2>1 DEF Noted
  <2>2. CASE op = "create"
    BY <1>2, <1>3, <1>5, <1>9, <2>2 DEF Noted, Identity
  <2> QED
    BY <2>1, <2>2
<1>11. (\A y \in Paths : dir[y] # NoInode => InSync(dir[y]))'
  <2>1. ASSUME NEW j \in Inodes, NEW y \in Paths, dir'[y] = j PROVE InSync(j)'
    <3>1. InSync(j) /\ ~Creating(p, j)
      BY <1>1, <2>1, InodesAssumption DEF IInv, Creating
    <3> QED
      BY <1>1, <1>9, <3>1, SyncKept
  <2> QED
    BY <1>7, <2>1, FilesInSync
<1>12. \A q \in Procs : Noted(q)'
  BY <1>9, <1>10, OthersKeep
<1> QED
  BY <1>7, <1>8, <1>11, <1>12 DEF IInv

-----------------------------------------------------------------------------
(* The kernel's steps. *)
LEMMA RunChownKeeps ==
    ASSUME IInv, NEW p \in Procs, RunChown(p)
    PROVE  IInv'
<1> DEFINE i == dir[call[p].path]
<1>1. PICK answer \in {"ok", "EPERM", "error"} :
        /\ TypeOK /\ at[p] = "entered" /\ call[p].op = "chown"
        /\ at' = [at EXCEPT ![p] = "ran"] /\ ret' = [ret EXCEPT ![p] = answer]
        /\ saw' = [saw EXCEPT ![p].ran = i]
        /\ dir' = dir /\ real' = real /\ db' = db /\ count' = count /\ call' = call
        /\ note' = note /\ promised' = promised /\ spoilt' = spoilt
  BY DEF RunChown, IInv
<1>2. i \in Inodes \cup {NoInode} /\ saw[p] \in SawType
  BY <1>1, TypeFacts DEF CallType
<1>3. /\ saw'[p] = [saw[p] EXCEPT !.ran = i] /\ saw'[p] \in SawType
      /\ saw'[p].file = saw[p].file /\ saw'[p].owner = saw[p].owner /\ saw'[p].made = saw[p].made
  BY <1>1, <1>2, TypeFacts DEF SawType
<1>4. TypeOK'
  <2>1. /\ at' \in [Procs -> {"user", "entered", "ran"}]
        /\ ret' \in [Procs -> Answers] /\ saw' \in [Procs -> SawType]
    BY <1>1, <1>3, TypeFacts DEF Answers
  <2> QED
    BY <1>1, <2>1, TypeFacts DEF TypeOK, CallType, NoteType, SawType, Answers
<1>5. Others(p) /\ at'[p] = "ran" /\ call'[p] = call[p] /\ note'[p] = note[p]
  BY <1>1, TypeFacts DEF Others
<1>6. Noted(p)'
  BY <1>1, <1>3, <1>5 DEF IInv, Noted
<1>7. (\A y \in Paths : dir[y] # NoInode => InSync(dir[y]))'
  <2>1. ASSUME NEW j \in Inodes, NEW y \in Paths, dir'[y] = j PROVE InSync(j)'
    <3>1. InSync(j) /\ ~Creating(p, j)
      BY <1>1, <2>1, InodesAssumption DEF IInv, Creating
    <3> QED
      BY <1>1, <1>5, <3>1, SyncKept
  <2> QED
    BY <1>4, <2>1, FilesInSync
<1>8. \A q \in Procs : Noted(q)'
  BY <1>5, <1>6, OthersKeep
<1>9. OneLink'
  BY <1>1 DEF IInv, OneLink
<1> QED
  BY <1>4, <1>7, <1>8, <1>9 DEF IInv

(* A creation that fails, or opens a file that is there. *)
LEMMA RunOpenKeeps ==
    ASSUME IInv, NEW p \in Procs, NEW answer \in {"ok", "error"}, NEW f \in Inodes \cup {NoInode},
           at[p] = "entered", call[p].op = "create",
           at' = [at EXCEPT ![p] = "ran"], ret' = [ret EXCEPT ![p] = answer],
           saw' = [saw EXCEPT ![p].ran = f],
           UNCHANGED <<dir, real, promised, spoilt, db, count, call, note>>
    PROVE  IInv'
<1>1. TypeOK /\ saw[p] \in SawType
  BY TypeFacts DEF IInv
<1>2. /\ saw'[p] = [saw[p] EXCEPT !.ran = f] /\ saw'[p] \in SawType
      /\ saw'[p].file = saw[p].file /\ saw'[p].owner = saw[p].owner /\ saw'[p].made = saw[p].made
  BY <1>1, TypeFacts DEF SawType
<1>3. TypeOK'
  <2>1. /\ at' \in [Procs -> {"user", "entered", "ran"}]
        /\ ret' \in [Procs -> Answers] /\ saw' \in [Procs -> SawType]
    BY <1>1, <1>2, TypeFacts DEF Answers
  <2> QED
    BY <1>1, <2>1, TypeFacts DEF TypeOK, CallType, NoteType, SawType, Answers
<1>4. Others(p) /\ at'[p] = "ran" /\ call'[p] = call[p] /\ note'[p] = note[p]
  BY <1>1, TypeFacts DEF Others
<1>5. Noted(p)'
  BY <1>2, <1>4 DEF IInv, Noted, Identity
<1>6. (\A y \in Paths : dir[y] # NoInode => InSync(dir[y]))'
  <2>1. ASSUME NEW j \in Inodes, NEW y \in Paths, dir'[y] = j PROVE InSync(j)'
    <3>1. InSync(j) /\ ~Creating(p, j)
      BY <2>1, InodesAssumption DEF IInv, Creating
    <3> QED
      BY <1>4, <3>1, SyncKept
  <2> QED
    BY <1>3, <2>1, FilesInSync
<1>7. \A q \in Procs : Noted(q)'
  BY <1>4, <1>5, OthersKeep
<1>8. OneLink'
  BY DEF IInv, OneLink
<1> QED
  BY <1>3, <1>6, <1>7, <1>8 DEF IInv

(* A creation that makes a file, perhaps with a number that has a record. *)
LEMMA RunNewKeeps ==
    ASSUME IInv, NEW p \in Procs, at[p] = "entered", call[p].op = "create",
           NEW i \in Inodes \ {dir[y] : y \in Paths}, dir[call[p].path] = NoInode,
           at' = [at EXCEPT ![p] = "ran"], ret' = [ret EXCEPT ![p] = "ok"],
           dir' = [dir EXCEPT ![call[p].path] = i],
           real' = [real EXCEPT ![i] = Both(Me)],
           promised' = [promised EXCEPT ![i] = Both(Identity(p))],
           saw' = [saw EXCEPT ![p].ran = i, ![p].made = TRUE],
           spoilt' = IF Recorded(i) THEN spoilt \cup {i} ELSE spoilt \ {i},
           UNCHANGED <<db, count, call, note>>
    PROVE  IInv'
<1>1. TypeOK /\ saw[p] \in SawType /\ call[p].path \in Paths
  BY TypeFacts DEF IInv, CallType
<1>2. /\ saw'[p] \in SawType /\ saw'[p].file = saw[p].file /\ saw'[p].owner = saw[p].owner
      /\ saw'[p].made = TRUE /\ saw'[p].ran = i
  BY <1>1, TypeFacts DEF SawType
<1>3. TypeOK'
  <2>1. /\ at' \in [Procs -> {"user", "entered", "ran"}]
        /\ ret' \in [Procs -> Answers] /\ saw' \in [Procs -> SawType]
    BY <1>1, <1>2, TypeFacts DEF Answers
  <2>2. /\ dir' \in [Paths -> Inodes \cup {NoInode}] /\ real' \in [Inodes -> RealOwner]
        /\ promised' \in [Inodes -> Owner] /\ spoilt' \subseteq Inodes
    BY <1>1, TypeFacts, OwnerFacts
  <2> QED
    BY <1>1, <2>1, <2>2, TypeFacts DEF TypeOK, CallType, NoteType, SawType, Answers
<1>4. Others(p) /\ at'[p] = "ran" /\ ret'[p] = "ok" /\ call'[p] = call[p] /\ note'[p] = note[p]
  BY <1>1, TypeFacts DEF Others
<1>5. Noted(p)'
  BY <1>2, <1>4 DEF IInv, Noted, Identity
<1>6. (\A y \in Paths : dir[y] # NoInode => InSync(dir[y]))'
  <2>1. ASSUME NEW j \in Inodes, NEW y \in Paths, dir'[y] = j PROVE InSync(j)'
    <3>1. CASE j = i
      <4>1. CASE p \in Dropped
        <5>1. Creating(p, i)'
          BY <1>2, <1>4, <4>1 DEF Creating
        <5> QED
          BY <3>1, <4>1, <5>1 DEF InSync, BeingCreated, Creating
      <4>2. CASE p \notin Dropped /\ ~Recorded(i)
        <5>1. promised'[i] = Both(Fake) /\ real'[i] = Both(Me) /\ db'[i] = NoOwner
          BY <1>1, <4>2, TypeFacts DEF Identity, Recorded
        <5>2. fake_owner(i)' = Both(Fake)
          BY <5>1 DEF fake_owner, Recorded, Both
        <5> QED
          BY <3>1, <5>1, <5>2 DEF InSync
      <4>3. CASE Recorded(i)
        BY <3>1, <4>3 DEF InSync
      <4> QED
        BY <4>1, <4>2, <4>3
    <3>2. CASE j # i
      <4>1. dir[y] = j /\ real'[j] = real[j] /\ promised'[j] = promised[j]
        BY <1>1, <2>1, <3>2, TypeFacts
      <4>2. InSync(j) /\ ~Creating(p, j)
        BY <4>1, InodesAssumption DEF IInv, Creating
      <4> QED
        BY <1>4, <3>2, <4>1, <4>2, SyncKept
    <3> QED
      BY <3>1, <3>2
  <2> QED
    BY <1>3, <2>1, FilesInSync
<1>7. \A q \in Procs : Noted(q)'
  BY <1>4, <1>5, OthersKeep
<1>8. OneLink'
  <2> SUFFICES ASSUME NEW y \in Paths, NEW z \in Paths, dir'[y] = dir'[z], dir'[y] # NoInode
               PROVE  y = z
    BY DEF OneLink
  <2> QED
    BY <1>1, TypeFacts DEF IInv, OneLink
<1> QED
  BY <1>3, <1>6, <1>7, <1>8 DEF IInv

LEMMA RunCreateKeeps ==
    ASSUME IInv, NEW p \in Procs, RunCreate(p)
    PROVE  IInv'
<1>1. TypeOK /\ saw \in [Procs -> SawType] /\ dir[call[p].path] \in Inodes \cup {NoInode}
  BY TypeFacts DEF IInv, CallType
<1>2. /\ at[p] = "entered" /\ call[p].op = "create" /\ at' = [at EXCEPT ![p] = "ran"]
      /\ UNCHANGED <<db, count, call, note>>
  BY DEF RunCreate
<1>3. CASE /\ ret' = [ret EXCEPT ![p] = "error"]
           /\ UNCHANGED <<dir, real, promised, saw, spoilt>>
  <2>1. saw[p].ran \in Inodes \cup {NoInode} /\ saw' = [saw EXCEPT ![p].ran = saw[p].ran]
    BY <1>1, <1>3 DEF SawType
  <2> QED
    BY <1>2, <1>3, <2>1, RunOpenKeeps
<1>4. CASE /\ dir[call[p].path] # NoInode
           /\ ret' = [ret EXCEPT ![p] = "ok"]
           /\ saw' = [saw EXCEPT ![p].ran = dir[call[p].path]]
           /\ UNCHANGED <<dir, real, promised, spoilt>>
  BY <1>1, <1>2, <1>4, RunOpenKeeps
<1>5. CASE /\ dir[call[p].path] = NoInode
           /\ ret' = [ret EXCEPT ![p] = "ok"]
           /\ \E i \in Inodes \ {dir[y] : y \in Paths} :
                /\ dir' = [dir EXCEPT ![call[p].path] = i]
                /\ real' = [real EXCEPT ![i] = Both(Me)]
                /\ promised' = [promised EXCEPT ![i] = Both(Identity(p))]
                /\ saw' = [saw EXCEPT ![p].ran = i, ![p].made = TRUE]
                /\ spoilt' = IF Recorded(i) THEN spoilt \cup {i} ELSE spoilt \ {i}
  BY <1>2, <1>5, RunNewKeeps
<1> QED
  BY <1>3, <1>4, <1>5 DEF RunCreate

-----------------------------------------------------------------------------
(* unlink and rename: one file i, or none, is deleted; every other is at   *)
(* some path as before.                                                    *)
LEMMA DeleteKeeps ==
    ASSUME IInv, NEW i \in Inodes \cup {NoInode}, Deleted(i), count' \in 0..MaxCalls,
           dir' \in [Paths -> Inodes \cup {NoInode}], OneLink',
           \A y \in Paths : dir'[y] # NoInode => dir'[y] # i /\ \E z \in Paths : dir[z] = dir'[y],
           UNCHANGED <<real, db, at, call, ret, note>>
    PROVE  IInv'
<1>1. TypeOK /\ saw \in [Procs -> SawType]
  BY TypeFacts DEF IInv
<1>2. ASSUME NEW q \in Procs
      PROVE  /\ saw'[q] \in SawType
             /\ saw'[q].file = saw[q].file /\ saw'[q].owner = saw[q].owner /\ saw'[q].made = saw[q].made
             /\ saw[q].ran # i => saw'[q].ran = saw[q].ran
  BY <1>1 DEF Deleted, SawType
<1>3. TypeOK'
  <2>1. promised' \in [Inodes -> Owner] /\ spoilt' \subseteq Inodes
    BY <1>1, TypeFacts, OwnerFacts DEF Deleted
  <2>2. saw' \in [Procs -> SawType]
    BY <1>2 DEF Deleted
  <2> QED
    BY <1>1, <2>1, <2>2, TypeFacts DEF TypeOK, CallType, NoteType, SawType, Answers
<1>4. \A q \in Procs : Noted(q)'
  BY <1>2 DEF IInv, Noted, Identity
<1>5. (\A y \in Paths : dir[y] # NoInode => InSync(dir[y]))'
  <2>1. ASSUME NEW j \in Inodes, NEW y \in Paths, dir'[y] = j PROVE InSync(j)'
    <3>1. PICK z \in Paths : dir[z] = j
      BY <2>1, InodesAssumption
    <3>2. InSync(j) /\ j # i
      BY <2>1, <3>1, InodesAssumption DEF IInv
    <3>3. promised'[j] = promised[j] /\ (j \in spoilt => j \in spoilt')
      BY <3>2 DEF Deleted
    <3>4. fake_owner(j)' = fake_owner(j)
      BY DEF fake_owner, Recorded
    <3>5. BeingCreated(j) => BeingCreated(j)'
      BY <1>2, <3>2, ProcsAssumption DEF BeingCreated
    <3> QED
      BY <3>2, <3>3, <3>4, <3>5 DEF InSync
  <2> QED
    BY <1>3, <2>1, FilesInSync
<1> QED
  BY <1>3, <1>4, <1>5 DEF IInv

LEMMA CountTyped == ASSUME TypeOK, Counted PROVE count' \in 0..MaxCalls
BY MaxCallsAssumption DEF TypeOK, Counted

LEMMA UnlinkKeeps ==
    ASSUME IInv, NEW p \in Procs, NEW x \in Paths, Unlink(p, x)
    PROVE  IInv'
<1>1. /\ TypeOK /\ OneLink /\ dir[x] \in Inodes \cup {NoInode} /\ count' \in 0..MaxCalls
      /\ dir \in [Paths -> Inodes \cup {NoInode}] /\ dir[x] # NoInode
      /\ dir' = [dir EXCEPT ![x] = NoInode] /\ Deleted(dir[x])
      /\ UNCHANGED <<real, db, at, call, ret, note>>
  BY TypeFacts, CountTyped DEF IInv, Unlink
<1>2. dir' \in [Paths -> Inodes \cup {NoInode}] /\ OneLink'
  BY <1>1 DEF OneLink
<1>3. \A y \in Paths : dir'[y] # NoInode => dir'[y] # dir[x] /\ \E z \in Paths : dir[z] = dir'[y]
  BY <1>1 DEF OneLink
<1> QED
  BY <1>1, <1>2, <1>3, DeleteKeeps

LEMMA RenameKeeps ==
    ASSUME IInv, NEW p \in Procs, NEW x \in Paths, NEW y \in Paths, Rename(p, x, y)
    PROVE  IInv'
<1>1. /\ TypeOK /\ OneLink /\ dir[y] \in Inodes \cup {NoInode} /\ count' \in 0..MaxCalls
      /\ dir \in [Paths -> Inodes \cup {NoInode}] /\ dir[x] # NoInode /\ x # y
      /\ dir' = [dir EXCEPT ![x] = NoInode, ![y] = dir[x]] /\ Deleted(dir[y])
      /\ UNCHANGED <<real, db, at, call, ret, note>>
  BY TypeFacts, CountTyped DEF IInv, Rename
<1>2. \A z \in Paths : dir'[z] = IF z = y THEN dir[x] ELSE IF z = x THEN NoInode ELSE dir[z]
  BY <1>1
<1>3. dir' \in [Paths -> Inodes \cup {NoInode}] /\ OneLink'
  BY <1>1, <1>2 DEF OneLink
<1>4. \A v \in Paths : dir'[v] # NoInode => dir'[v] # dir[y] /\ \E z \in Paths : dir[z] = dir'[v]
  BY <1>1, <1>2 DEF OneLink
<1> QED
  BY <1>1, <1>3, <1>4, DeleteKeeps

-----------------------------------------------------------------------------
(* The exits. *)
LEMMA DoneFacts ==
    ASSUME TypeOK, NEW p \in Procs, Done(p)
    PROVE  /\ Others(p) /\ Noted(p)' /\ at'[p] = "user"
           /\ at' \in [Procs -> {"user", "entered", "ran"}] /\ call' \in [Procs -> CallType]
           /\ ret' \in [Procs -> Answers] /\ note' \in [Procs -> NoteType] /\ saw' \in [Procs -> SawType]
<1>1. /\ at' \in [Procs -> {"user", "entered", "ran"}] /\ call' \in [Procs -> CallType]
      /\ ret' \in [Procs -> Answers] /\ note' \in [Procs -> NoteType] /\ saw' \in [Procs -> SawType]
      /\ Others(p) /\ at'[p] = "user" /\ note'[p] = NoNote /\ saw'[p] = NoSaw
  BY TypeFacts, NoThings DEF Done, Others, Answers
<1> QED
  BY <1>1, NoThings DEF Noted

(* An exit that keeps every file's owners in step, or marks the file. *)
LEMMA ExitKeeps ==
    ASSUME IInv, NEW p \in Procs, Done(p), UNCHANGED <<dir, real, count>>,
           db' \in [Inodes -> Owner \cup {NoOwner}], promised' \in [Inodes -> Owner],
           spoilt' \subseteq Inodes,
           \A j \in Inodes : \A y \in Paths : dir[y] = j => InSync(j)'
    PROVE  IInv'
<1>1. TypeOK
  BY DEF IInv
<1>2. TypeOK'
  BY <1>1, DoneFacts, TypeFacts DEF TypeOK, CallType, NoteType, SawType, Answers
<1>3. \A q \in Procs : Noted(q)'
  BY <1>1, DoneFacts, OthersKeep
<1>4. (\A y \in Paths : dir[y] # NoInode => InSync(dir[y]))'
  BY <1>2, FilesInSync
<1>5. OneLink'
  BY DEF IInv, OneLink
<1> QED
  BY <1>2, <1>3, <1>4, <1>5 DEF IInv

(* A chown without an anomaly records exactly what it makes of the file. *)
LEMMA CleanChown ==
    ASSUME IInv, NEW p \in Procs, at[p] = "ran", call[p].op = "chown", ~ChownAnomaly(p)
    PROVE  LET i == saw[p].ran
           IN  /\ i \in Inodes /\ note[p].chown_valid /\ note[p].ino = i /\ Permitted(p)
               /\ Chowned(call[p].req, note[p].cur) = Chowned(call[p].req, promised[i])
<1> DEFINE i == saw[p].ran
<1>1. /\ TypeOK /\ Noted(p) /\ saw[p] \in SawType
  BY TypeFacts DEF IInv
<1>2. /\ i \in Inodes /\ saw[p].file = i /\ Permitted(p) /\ ~LostUpdate(p)
  BY <1>1 DEF ChownAnomaly, OtherFile, SawType
<1>3. note[p].chown_valid /\ note[p].ino = i
  BY <1>1, <1>2, InodesAssumption DEF Noted
<1>4. promised[i].uid # NOID /\ promised[i].gid # NOID
  BY <1>1, <1>2, TypeFacts, IdsAssumption DEF Owner, Ids
<1>5. call[p].req.uid = NOID => note[p].cur.uid = promised[i].uid
  <2> SUFFICES ASSUME call[p].req.uid = NOID PROVE note[p].cur.uid = promised[i].uid
    OBVIOUS
  <2>1. saw[p].owner.uid = promised[i].uid
    BY <1>2 DEF LostUpdate
  <2> QED
    BY <1>1, <1>4, <2>1 DEF Noted, NoOwner
<1>6. call[p].req.gid = NOID => note[p].cur.gid = promised[i].gid
  <2> SUFFICES ASSUME call[p].req.gid = NOID PROVE note[p].cur.gid = promised[i].gid
    OBVIOUS
  <2>1. saw[p].owner.gid = promised[i].gid
    BY <1>2 DEF LostUpdate
  <2> QED
    BY <1>1, <1>4, <2>1 DEF Noted, NoOwner
<1> QED
  BY <1>2, <1>3, <1>5, <1>6 DEF Chowned

LEMMA ExitChownKeeps ==
    ASSUME IInv, NEW p \in Procs, ExitChown(p)
    PROVE  IInv'
<1> DEFINE i == saw[p].ran
           answered == ret[p] \in {"ok", "EPERM"}
           new == Chowned(call[p].req, note[p].cur)
<1>1. /\ TypeOK /\ Noted(p) /\ at[p] = "ran" /\ call[p].op = "chown"
      /\ saw[p] \in SawType /\ call[p].req \in Requests \cup {NoOwner}
      /\ db \in [Inodes -> Owner \cup {NoOwner}] /\ promised \in [Inodes -> Owner]
      /\ spoilt \subseteq Inodes
  BY TypeFacts DEF IInv, ExitChown, CallType
<1>2. /\ db' = IF Records(p) THEN [db EXCEPT ![note[p].ino] = new] ELSE db
      /\ promised' = IF answered /\ i # NoInode /\ Permitted(p)
                     THEN [promised EXCEPT ![i] = Chowned(call[p].req, @)] ELSE promised
      /\ spoilt' = IF ~answered THEN spoilt
                   ELSE IF ChownAnomaly(p) THEN spoilt \cup ({saw[p].file, i} \ {NoInode})
                   ELSE spoilt \ {i}
      /\ Done(p) /\ UNCHANGED <<dir, real, count>>
  BY DEF ExitChown
<1>3. note[p].chown_valid => /\ note[p].ino \in Inodes /\ note[p].ino = saw[p].file
                             /\ new \in Owner
  BY <1>1, OwnerFacts DEF Noted
<1>4. i \in Inodes \cup {NoInode} /\ saw[p].file \in Inodes \cup {NoInode}
  BY <1>1 DEF SawType
<1>5. db' \in [Inodes -> Owner \cup {NoOwner}]
  BY <1>1, <1>2, <1>3 DEF Records
<1>6. promised' \in [Inodes -> Owner] /\ spoilt' \subseteq Inodes
  BY <1>1, <1>2, <1>4, OwnerFacts
<1>7. ASSUME NEW j \in Inodes, NEW y \in Paths, dir[y] = j PROVE InSync(j)'
  <2>1. InSync(j) /\ ~Creating(p, j) /\ Others(p) /\ real'[j] = real[j]
    BY <1>1, <1>2, <1>7, InodesAssumption, DoneFacts DEF IInv, Creating, Noted
  <2>2. CASE ~answered
    BY <1>2, <2>1, <2>2, SyncKept DEF Records
  <2>3. CASE answered /\ ChownAnomaly(p) /\ j \in {saw[p].file, i}
    BY <1>2, <2>3, InodesAssumption DEF InSync
  <2>4. CASE answered /\ ChownAnomaly(p) /\ j \notin {saw[p].file, i}
    <3>1. db'[j] = db[j] /\ promised'[j] = promised[j]
      BY <1>1, <1>2, <1>3, <1>4, <2>4 DEF Records
    <3>2. j \in spoilt => j \in spoilt'
      BY <1>2, <2>4
    <3> QED
      BY <2>1, <3>1, <3>2, SyncKept
  <2>5. CASE answered /\ ~ChownAnomaly(p)
    <3>1. /\ i \in Inodes /\ note[p].chown_valid /\ note[p].ino = i /\ Permitted(p)
          /\ new = Chowned(call[p].req, promised[i])
      BY <1>1, <2>5, CleanChown
    <3>2. /\ db' = [db EXCEPT ![i] = new] /\ promised' = [promised EXCEPT ![i] = new]
          /\ spoilt' = spoilt \ {i}
      BY <1>1, <1>2, <2>5, <3>1, InodesAssumption DEF Records
    <3>3. CASE j = i
      <4>1. db'[j] = new /\ promised'[j] = new /\ new # NoOwner
        BY <1>1, <1>3, <3>1, <3>2, <3>3, OwnerFacts
      <4> QED
        BY <4>1 DEF InSync, fake_owner, Recorded
    <3>4. CASE j # i
      <4>1. db'[j] = db[j] /\ promised'[j] = promised[j] /\ (j \in spoilt => j \in spoilt')
        BY <1>1, <3>2, <3>4
      <4> QED
        BY <2>1, <4>1, SyncKept
    <3> QED
      BY <3>3, <3>4
  <2> QED
    BY <2>2, <2>3, <2>4, <2>5
<1> QED
  BY <1>2, <1>5, <1>6, <1>7, ExitKeeps

LEMMA ExitCreateKeeps ==
    ASSUME IInv, NEW p \in Procs, ExitCreate(p)
    PROVE  IInv'
<1> DEFINE i == dir[call[p].path]
           records == note[p].created /\ ret[p] = "ok" /\ i # NoInode
<1>1. /\ TypeOK /\ Noted(p) /\ at[p] = "ran" /\ call[p].op = "create"
      /\ saw[p] \in SawType /\ i \in Inodes \cup {NoInode}
      /\ db \in [Inodes -> Owner \cup {NoOwner}] /\ promised \in [Inodes -> Owner]
      /\ spoilt \subseteq Inodes
  BY TypeFacts DEF IInv, ExitCreate, CallType
<1>2. /\ db' = IF records THEN [db EXCEPT ![i] = Both(Identity(p))] ELSE db
      /\ spoilt' = IF ret[p] # "ok" \/ p \notin Dropped THEN spoilt
                   ELSE IF CreateAnomaly(p, i) THEN spoilt \cup ({i, saw[p].ran} \ {NoInode})
                   ELSE IF saw[p].made THEN spoilt \ {i} ELSE spoilt
      /\ Done(p) /\ UNCHANGED <<dir, real, count>> /\ promised' = promised
  BY DEF ExitCreate
<1>3. note[p].created = (p \in Dropped /\ saw[p].file = NoInode)
  BY <1>1, IdsAssumption DEF Noted, Identity
<1>4. /\ db' \in [Inodes -> Owner \cup {NoOwner}] /\ promised' \in [Inodes -> Owner]
      /\ spoilt' \subseteq Inodes
  BY <1>1, <1>2, OwnerFacts DEF SawType
<1>5. ASSUME NEW j \in Inodes, NEW y \in Paths, dir[y] = j PROVE InSync(j)'
  <2>1. InSync(j) /\ Others(p) /\ real'[j] = real[j]
    BY <1>1, <1>2, <1>5, InodesAssumption, DoneFacts DEF IInv
  <2>2. CASE ret[p] # "ok" \/ p \notin Dropped
    <3>1. ~Creating(p, j) /\ db' = db /\ spoilt' = spoilt
      BY <1>1, <1>2, <1>3, <2>2 DEF Creating, Noted
    <3> QED
      BY <1>2, <2>1, <3>1, SyncKept
  <2>3. CASE ret[p] = "ok" /\ p \in Dropped /\ CreateAnomaly(p, i)
    <3>1. spoilt' = spoilt \cup ({i, saw[p].ran} \ {NoInode})
      BY <1>2, <2>3
    <3>2. CASE j \in {i, saw[p].ran}
      BY <3>1, <3>2, InodesAssumption DEF InSync
    <3>3. CASE j \notin {i, saw[p].ran}
      <4>1. db'[j] = db[j] /\ ~Creating(p, j)
        BY <1>1, <1>2, <3>3 DEF Creating
      <4> QED
        BY <1>2, <2>1, <3>1, <4>1, SyncKept
    <3> QED
      BY <3>2, <3>3
  <2>4. CASE ret[p] = "ok" /\ p \in Dropped /\ ~CreateAnomaly(p, i) /\ ~saw[p].made
    <3>1. db' = db /\ spoilt' = spoilt /\ ~Creating(p, j)
      BY <1>2, <1>3, <2>4 DEF CreateAnomaly, Absent, Creating
    <3> QED
      BY <1>2, <2>1, <3>1, SyncKept
  <2>5. CASE ret[p] = "ok" /\ p \in Dropped /\ ~CreateAnomaly(p, i) /\ saw[p].made
    <3>1. /\ saw[p].file = NoInode /\ i = saw[p].ran /\ i # NoInode
          /\ promised[i] = Both(Identity(p))
      BY <2>5 DEF CreateAnomaly, Absent
    <3>2. db' = [db EXCEPT ![i] = Both(Identity(p))] /\ spoilt' = spoilt \ {i}
      BY <1>2, <1>3, <2>5, <3>1
    <3>3. CASE j = i
      <4>1. db'[j] = Both(Identity(p)) /\ Both(Identity(p)) # NoOwner
        BY <1>1, <3>2, <3>3, OwnerFacts
      <4> QED
        BY <1>2, <3>1, <3>3, <4>1 DEF InSync, fake_owner, Recorded
    <3>4. CASE j # i
      <4>1. db'[j] = db[j] /\ (j \in spoilt => j \in spoilt') /\ ~Creating(p, j)
        BY <1>1, <3>1, <3>2, <3>4 DEF Creating
      <4> QED
        BY <1>2, <2>1, <4>1, SyncKept
    <3> QED
      BY <3>3, <3>4
  <2> QED
    BY <1>1, <2>2, <2>3, <2>4, <2>5
<1> QED
  BY <1>2, <1>4, <1>5, ExitKeeps

LEMMA NextIInv == IInv /\ [Next]_vars => IInv'
<1> SUFFICES ASSUME IInv, [Next]_vars PROVE IInv'
  OBVIOUS
<1>1. ASSUME NEW p \in Procs, NEW x \in Paths, NEW req \in Requests, Enter(p, "chown", x, req)
      PROVE  IInv'
  BY <1>1, EnterKeeps
<1>2. ASSUME NEW p \in Procs, NEW x \in Paths, Enter(p, "create", x, NoOwner)
      PROVE  IInv'
  BY <1>2, EnterKeeps
<1>3. ASSUME NEW p \in Procs, NEW x \in Paths, Unlink(p, x) PROVE IInv'
  BY <1>3, UnlinkKeeps
<1>4. ASSUME NEW p \in Procs, NEW x \in Paths, NEW y \in Paths, Rename(p, x, y) PROVE IInv'
  BY <1>4, RenameKeeps
<1>5. ASSUME NEW p \in Procs, RunChown(p) PROVE IInv'
  BY <1>5, RunChownKeeps
<1>6. ASSUME NEW p \in Procs, RunCreate(p) PROVE IInv'
  BY <1>6, RunCreateKeeps
<1>7. ASSUME NEW p \in Procs, ExitChown(p) PROVE IInv'
  BY <1>7, ExitChownKeeps
<1>8. ASSUME NEW p \in Procs, ExitCreate(p) PROVE IInv'
  BY <1>8, ExitCreateKeeps
<1>9. ASSUME UNCHANGED vars PROVE IInv'
  BY <1>9 DEF IInv, TypeOK, OneLink, Noted, InSync, BeingCreated, fake_owner, Recorded, vars
<1> QED
  BY <1>1, <1>2, <1>3, <1>4, <1>5, <1>6, <1>7, <1>8, <1>9 DEF Next

LEMMA AlwaysIInv == Spec => []IInv
BY InitIInv, NextIInv, PTL DEF Spec

-----------------------------------------------------------------------------
(* Every owner emuroot notes or records is a pair of ids: a -1 of chown    *)
(* never reaches the database.                                             *)
THEOREM TypeCorrect == Spec => []TypeOK
<1>1. IInv => TypeOK
  BY DEF IInv
<1> QED
  BY <1>1, AlwaysIInv, PTL

(* stat shows what the guest's chowns and creations make of a file on a    *)
(* system with a real root, however the calls overlap, except for the      *)
(* files that one of the named anomalies befell: for any number of         *)
(* processes, files and paths.                                             *)
THEOREM ReportedPromised == Spec => []ReportedIsPromised
<1>1. IInv => ReportedIsPromised
  BY DEF IInv, InSync, ReportedIsPromised
<1> QED
  BY <1>1, AlwaysIInv, PTL
=============================================================================
