----------------------------- MODULE OwnerTable -----------------------------
(***************************************************************************)
(* The fake-ownership database (ownership.c): an open-addressing hash      *)
(* table that doubles before it is half full, loaded from a file when a    *)
(* run starts and saved to it when the run ends.                           *)
(*                                                                         *)
(* The loops of the code are steps here, so that memory can run out and    *)
(* the tracer be killed between any two.  pc:                              *)
(*   "off"     no run                     "load"    in emuroot_owners_load *)
(*   "idle"    the run is in progress     "save"    in emuroot_owners_save *)
(*   "set", "rehash", "put"               in emuroot_owner_set, called     *)
(*                                        from caller ("load" or "idle")   *)
(***************************************************************************)
EXTENDS Naturals, Sequences, FiniteSets, FiniteSetsExt

CONSTANTS
    Files,          \* the (device, inode) pairs
    Owners,         \* the (uid, gid) pairs
    NoFile, NoOwner,\* what an unused slot holds
    Hash,           \* hash_of
    FirstCap        \* the first table's size: 1024, a power of two

ASSUME FreeAssumption == NoFile \notin Files /\ NoOwner \notin Owners
ASSUME HashAssumption == Hash \in [Files -> Nat]
ASSUME FirstCapAssumption == FirstCap \in Nat /\ FirstCap > 1
ASSUME FilesAssumption == IsFiniteSet(Files)

VARIABLES
    pc, caller,
    db,             \* ctx->owners is not NULL
    slots, cap, count,
    old, i,         \* the table being replaced; the loop index
    arg,            \* emuroot_owner_set's arguments
    file, line,     \* the saved lines; the next one to read
    saved,          \* history: the file as the last run to end left it
    whole,          \* history: in this run memory has sufficed and the file been read
    intact          \* history: the file was written to its end

runVars == <<pc, caller, i, arg, line>>
tableVars == <<db, slots, cap, count, old, whole>>
fileVars == <<file, saved, intact>>
vars == <<runVars, tableVars, fileVars>>

Entry == [file : Files, owner : Owners]
Free == [file |-> NoFile, owner |-> NoOwner]
NewTable(c) == [s \in 0..(c - 1) |-> Free]

(* find_slot: the first slot of the probe sequence that is unused or holds *)
(* f.  Where there is none the code's loop does not end.                   *)
Probe(f, d, c) == (Hash[f] + d) % c
Stops(s, c, f, d) == s[Probe(f, d, c)].file \in {f, NoFile}
find_slot(s, c, f) ==
    Probe(f, CHOOSE d \in 0..(c - 1) : Stops(s, c, f, d) /\ \A e \in 0..(d - 1) : ~Stops(s, c, f, e), c)

emuroot_owner_lookup(s, c, f) == IF c = 0 THEN NoOwner ELSE s[find_slot(s, c, f)].owner

(* The value of the variables with no run. *)
NoRun(next) ==
    /\ pc' = next /\ caller' = "idle" /\ i' = 0 /\ line' = 1 /\ arg' = Free
    /\ db' = FALSE /\ slots' = NewTable(0) /\ cap' = 0 /\ count' = 0 /\ old' = NewTable(0)
    /\ whole' = TRUE

Init ==
    /\ pc = "off" /\ caller = "idle" /\ i = 0 /\ line = 1 /\ arg = Free
    /\ db = FALSE /\ slots = NewTable(0) /\ cap = 0 /\ count = 0 /\ old = NewTable(0)
    /\ file = <<>> /\ saved = <<>> /\ whole = TRUE /\ intact = TRUE

-----------------------------------------------------------------------------
(* emuroot_owners_load; fopen may fail *)
Boot ==
    /\ pc = "off" /\ pc' \in {"load", "idle"}
    /\ whole' = (pc' = "load")
    /\ UNCHANGED <<caller, i, arg, line, db, slots, cap, count, old, fileVars>>

LoadLine ==
    /\ pc = "load" /\ line <= Len(file)
    /\ pc' = "set" /\ caller' = "load" /\ arg' = file[line] /\ line' = line + 1
    /\ UNCHANGED <<i, tableVars, fileVars>>

LoadEnd ==
    /\ pc = "load" /\ line > Len(file)
    /\ pc' = "idle"
    /\ UNCHANGED <<caller, i, arg, line, tableVars, fileVars>>

-----------------------------------------------------------------------------
(* emuroot_owner_set: fake.c records an owner *)
Set(f, o) ==
    /\ pc = "idle"
    /\ pc' = "set" /\ caller' = "idle" /\ arg' = [file |-> f, owner |-> o]
    /\ UNCHANGED <<i, line, tableVars, fileVars>>

\* variant: the table may fill up
Crowded_Full == count + 1 > cap

Crowded == (count + 1) * 2 > cap
GrownCap == IF cap = 0 THEN FirstCap ELSE cap * 2

Return == pc' = caller /\ arg' = Free

(* There is room: the table is left as it is. *)
NoGrowth ==
    /\ pc = "set" /\ ~Crowded
    /\ pc' = "put"
    /\ UNCHANGED <<caller, i, arg, line, tableVars, fileVars>>

Grow ==
    /\ pc = "set" /\ Crowded
    /\ db' = TRUE
    /\ old' = slots /\ slots' = NewTable(GrownCap) /\ cap' = GrownCap
    /\ pc' = "rehash" /\ i' = 0
    /\ UNCHANGED <<caller, arg, line, count, whole, fileVars>>

(* No memory for the database itself, or for the larger table: the owner is *)
(* not recorded, and what there was stays.                                  *)
\* variant: the old size is not put back
GrowFails_KeepsCap ==
    /\ pc = "set" /\ Crowded
    /\ db' \in {db, TRUE} /\ cap' = GrownCap /\ whole' = FALSE
    /\ Return
    /\ UNCHANGED <<caller, i, line, slots, count, old, fileVars>>

GrowFails ==
    /\ pc = "set" /\ Crowded
    /\ db' \in {db, TRUE} /\ whole' = FALSE
    /\ Return
    /\ UNCHANGED <<caller, i, line, slots, cap, count, old, fileVars>>

OldCap == Cardinality(DOMAIN old)

\* variant: entries keep their index
RehashStep_SameIndex ==
    /\ pc = "rehash" /\ i < OldCap
    /\ slots' = [slots EXCEPT ![i] = old[i]]
    /\ i' = i + 1
    /\ UNCHANGED <<pc, caller, arg, line, db, cap, count, old, whole, fileVars>>

RehashStep ==
    /\ pc = "rehash" /\ i < OldCap
    /\ slots' = IF old[i] = Free THEN slots
                ELSE [slots EXCEPT ![find_slot(slots, cap, old[i].file)] = old[i]]
    /\ i' = i + 1
    /\ UNCHANGED <<pc, caller, arg, line, db, cap, count, old, whole, fileVars>>

RehashEnd ==
    /\ pc = "rehash" /\ i = OldCap
    /\ pc' = "put" /\ i' = 0 /\ old' = NewTable(0)
    /\ UNCHANGED <<caller, arg, line, db, slots, cap, count, whole, fileVars>>

\* variant: an entry that was there is counted again
Put_CountsTwice ==
    LET s == find_slot(slots, cap, arg.file)
    IN  /\ pc = "put"
        /\ count' = IF count < cap THEN count + 1 ELSE count
        /\ slots' = [slots EXCEPT ![s] = arg]
        /\ Return
        /\ UNCHANGED <<caller, i, line, db, cap, old, whole, fileVars>>

Put ==
    LET s == find_slot(slots, cap, arg.file)
    IN  /\ pc = "put"
        /\ count' = IF slots[s] = Free THEN count + 1 ELSE count
        /\ slots' = [slots EXCEPT ![s] = arg]
        /\ Return
        /\ UNCHANGED <<caller, i, line, db, cap, old, whole, fileVars>>

-----------------------------------------------------------------------------
(* The end of the run: emuroot_owners_save, emuroot_owners_free *)
Save ==
    /\ pc = "idle" /\ db
    /\ pc' = "save" /\ i' = 0 /\ file' = <<>>
    /\ UNCHANGED <<caller, arg, line, tableVars, saved, intact>>

(* No database, or fopen fails: the file stays. *)
NoSave ==
    /\ pc = "idle"
    /\ NoRun("off")
    /\ UNCHANGED fileVars

SaveStep ==
    /\ pc = "save" /\ i < cap
    /\ file' = IF slots[i] = Free THEN file ELSE Append(file, slots[i])
    /\ i' = i + 1
    /\ UNCHANGED <<pc, caller, arg, line, tableVars, saved, intact>>

\* variant: the last slot is left out
SaveEnd_Early ==
    /\ pc = "save" /\ i + 1 >= cap
    /\ NoRun("off")
    /\ saved' = file /\ intact' = TRUE /\ UNCHANGED file

SaveEnd ==
    /\ pc = "save" /\ i = cap
    /\ NoRun("off")
    /\ saved' = file /\ intact' = TRUE /\ UNCHANGED file

(* The lines are buffered.  Of those not on disk when the tracer is killed, *)
(* or when the disk is full (errors are not looked at), one may be there    *)
(* in part: its last number, then, can read as another.                     *)
Cut(n) == SubSeq(file, 1, n)
SaveTorn ==
    /\ pc = "save"
    /\ NoRun("off")
    /\ \E n \in 0..Len(file) :
         \/ file' = Cut(n)
         \/ /\ n < Len(file)
            /\ \E o \in Owners : file' = Append(Cut(n), [file[n + 1] EXCEPT !.owner = o])
    /\ saved' = file' /\ intact' = FALSE

(* SIGKILL before the save *)
Killed ==
    /\ pc \notin {"off", "save"}
    /\ NoRun("off")
    /\ UNCHANGED fileVars

Next ==
    \/ Boot \/ LoadLine \/ LoadEnd
    \/ \E f \in Files, o \in Owners : Set(f, o)
    \/ NoGrowth \/ Grow \/ GrowFails \/ RehashStep \/ RehashEnd \/ Put
    \/ Save \/ NoSave \/ SaveStep \/ SaveEnd \/ SaveTorn \/ Killed

Spec == Init /\ [][Next]_vars

-----------------------------------------------------------------------------
Used(s) == {n \in DOMAIN s : s[n] # Free}

(* The values of the variables; the table has cap slots. *)
TypeOK ==
    /\ pc \in {"off", "load", "idle", "set", "rehash", "put", "save"}
    /\ caller \in {"load", "idle"}
    /\ db \in BOOLEAN /\ cap \in Nat /\ count \in Nat /\ i \in Nat /\ line \in Nat \ {0}
    /\ slots \in [0..(cap - 1) -> Entry \cup {Free}]
    /\ OldCap \in Nat /\ old \in [0..(OldCap - 1) -> Entry \cup {Free}]
    /\ arg \in Entry \cup {Free}
    /\ file \in Seq(Entry) /\ saved \in Seq(Entry) /\ whole \in BOOLEAN /\ intact \in BOOLEAN

(* find_slot's loop ends, whatever it is asked for: "keep the load factor  *)
(* under 1/2" leaves an unused slot in every table that is searched, the   *)
(* one being filled by a rehash included.                                  *)
FindTerminates ==
    /\ cap > 0 => \E n \in DOMAIN slots : slots[n] = Free
    /\ pc = "put" => cap > 0

(* Open addressing never loses an entry: each one is the first its own     *)
(* probe sequence meets, also while a larger table is being filled.        *)
EveryEntryFound == \A n \in Used(slots) : find_slot(slots, cap, slots[n].file) = n

(* count is the number of entries, so that the next growth comes in time.  *)
CountExact == count = Cardinality(Used(IF pc = "rehash" THEN old ELSE slots))

(* What the table and the file mean. *)
Loading == pc = "load" \/ (pc \in {"set", "rehash", "put"} /\ caller = "load")
Up == pc # "off" /\ ~Loading
TableMap == [f \in Files |-> IF ~Up THEN NoOwner
                             ELSE IF pc = "rehash" THEN emuroot_owner_lookup(old, OldCap, f)
                             ELSE emuroot_owner_lookup(slots, cap, f)]
FileMap(lines) == [f \in Files |->
    LET at == {n \in DOMAIN lines : lines[n].file = f}
    IN  IF at = {} THEN NoOwner ELSE lines[Max(at)].owner]

(* "The new owner is remembered here ... The table can be saved to a file  *)
(* and reloaded in a later run": the hash table, with its growth, its      *)
(* failures and its file, is a map from files to owners.                   *)
Map == INSTANCE OwnerMap WITH map <- TableMap, disk <- FileMap(saved), up <- Up,
                             whole <- (Up => whole)
IsAMap == Map!MapSpec
=============================================================================
