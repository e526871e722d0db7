------------------------------- MODULE Creds -------------------------------
(***************************************************************************)
(* The fake credentials of one tracee (creds.c) and the real credentials   *)
(* of the same process.  A set*id call is seen twice: at its entry         *)
(* identity.c turns the registers into a no-op, so that the kernel runs a  *)
(* harmless call, and at its exit fake.c applies the arguments saved at    *)
(* entry to the fake credentials and overwrites the result.  Nothing else  *)
(* reads or writes a tracee's credentials between the two stops, so one    *)
(* action here is one whole call.                                          *)
(*                                                                         *)
(* The uid and the gid half of creds.c are the same code over two arrays;  *)
(* here they are the same operators over the fields u and g.               *)
(***************************************************************************)
EXTENDS Integers, Sequences, FiniteSets

CONSTANTS
    Uids,       \* the user ids a guest may name (0 is root)
    Gids,       \* the group ids
    NOID,       \* (uint32_t)-1, "leave unchanged"
    FakeUid,    \* the identity the run starts with (emuroot_set_fake_ids)
    FakeGid,
    RealUid,    \* the identity emuroot itself runs as
    RealGid,
    MaxGroups   \* CREDS_MAX_GROUPS

ASSUME IdsAssumption ==
    /\ Uids \subseteq Nat /\ {0, FakeUid, RealUid} \subseteq Uids
    /\ Gids \subseteq Nat /\ {FakeGid, RealGid} \subseteq Gids
    /\ NOID \in Int /\ NOID \notin Uids \cup Gids
ASSUME GroupsAssumption == MaxGroups \in Nat \ {0}

VARIABLES
    creds,      \* tracee_t.creds
    real,       \* what the kernel holds for the process
    ret         \* the result the guest sees

vars == <<creds, real, ret>>

EPERM  == -1
EFAULT == -14
EINVAL == -22

UidArg == Uids \cup {NOID}
GidArg == Gids \cup {NOID}
IdArray(ids) == [r : ids, e : ids, s : ids, fs : ids]
GroupLists(max) == UNION {[1..n -> Gids] : n \in 0..max}
CredsT(max) == [u : IdArray(Uids), g : IdArray(Gids), groups : GroupLists(max)]

Same(id) == [r |-> id, e |-> id, s |-> id, fs |-> id]
creds_init(uid, gid) == [u |-> Same(uid), g |-> Same(gid), groups |-> <<gid>>]

Held(a) == {a.r, a.e, a.s}
privileged(c) == c.u.e = 0

-----------------------------------------------------------------------------
(* The rules, over one id array.  A rule answers the new array and 0, or   *)
(* the old array and -EPERM.                                               *)

Pick(old, new) == IF new = NOID THEN old ELSE new

\* variant: the file-system id keeps its old value
apply_KeepsFs(a, r, e, s) ==
    [r |-> Pick(a.r, r), e |-> Pick(a.e, e), s |-> Pick(a.s, s), fs |-> a.fs]

apply(a, r, e, s) ==
    [r |-> Pick(a.r, r), e |-> Pick(a.e, e), s |-> Pick(a.s, s), fs |-> Pick(a.e, e)]

Allow(a)  == [ids |-> a, ret |-> 0]
Refuse(a) == [ids |-> a, ret |-> EPERM]

set(a, priv, x) ==
    IF priv \/ x \in {a.r, a.s}
    THEN Allow(IF priv THEN apply(a, x, x, x) ELSE apply(a, NOID, x, NOID))
    ELSE Refuse(a)

\* variant: the ids are stored before the permission check
setres_ChecksLate(a, priv, r, e, s) ==
    IF priv \/ {r, e, s} \subseteq Held(a) \cup {NOID}
    THEN Allow(apply(a, r, e, s))
    ELSE Refuse(apply(a, r, e, s))

setres(a, priv, r, e, s) ==
    IF priv \/ {r, e, s} \subseteq Held(a) \cup {NOID}
    THEN Allow(apply(a, r, e, s))
    ELSE Refuse(a)

\* variant: the saved id is never updated
setre_NoSave(a, priv, r, e) ==
    IF priv \/ (r \in {a.r, a.e, NOID} /\ e \in Held(a) \cup {NOID})
    THEN Allow(apply(a, r, e, NOID))
    ELSE Refuse(a)

\* variant: only the effective id is checked
setre_RealUnchecked(a, priv, r, e) ==
    LET save == r # NOID \/ (e # NOID /\ e # a.r)
    IN  IF priv \/ e \in Held(a) \cup {NOID}
        THEN Allow(apply(a, r, e, IF save THEN Pick(a.e, e) ELSE NOID))
        ELSE Refuse(a)

setre(a, priv, r, e) ==
    LET save == r # NOID \/ (e # NOID /\ e # a.r)
    IN  IF priv \/ (r \in {a.r, a.e, NOID} /\ e \in Held(a) \cup {NOID})
        THEN Allow(apply(a, r, e, IF save THEN Pick(a.e, e) ELSE NOID))
        ELSE Refuse(a)

\* variant: any id is accepted
setfs_Unchecked(a, priv, x) ==
    [ids |-> IF x # NOID THEN [a EXCEPT !.fs = x] ELSE a, ret |-> a.fs]

(* setfsuid and setfsgid answer the previous id whether or not they change it *)
setfs(a, priv, x) ==
    [ids |-> IF x # NOID /\ (priv \/ x \in Held(a) \cup {a.fs})
             THEN [a EXCEPT !.fs = x] ELSE a,
     ret |-> a.fs]

OnUid(c, o) == [creds |-> [c EXCEPT !.u = o.ids], ret |-> o.ret]
OnGid(c, o) == [creds |-> [c EXCEPT !.g = o.ids], ret |-> o.ret]

creds_setuid(c, x)          == OnUid(c, set(c.u, privileged(c), x))
creds_setgid(c, x)          == OnGid(c, set(c.g, privileged(c), x))
creds_setresuid(c, r, e, s) == OnUid(c, setres(c.u, privileged(c), r, e, s))
creds_setresgid(c, r, e, s) == OnGid(c, setres(c.g, privileged(c), r, e, s))
creds_setreuid(c, r, e)     == OnUid(c, setre(c.u, privileged(c), r, e))
creds_setregid(c, r, e)     == OnGid(c, setre(c.g, privileged(c), r, e))
creds_setfsuid(c, x)        == OnUid(c, setfs(c.u, privileged(c), x))
creds_setfsgid(c, x)        == OnGid(c, setfs(c.g, privileged(c), x))

setgroups(c, list, n, max) ==
    IF privileged(c) /\ n \in 0..max
    THEN [creds |-> [c EXCEPT !.groups = list], ret |-> 0]
    ELSE [creds |-> c, ret |-> IF privileged(c) THEN EINVAL ELSE EPERM]

\* variant: the bound is off by one
creds_setgroups_OffByOne(c, list, n) == setgroups(c, list, n, MaxGroups + 1)

creds_setgroups(c, list, n) == setgroups(c, list, n, MaxGroups)

(* The kernel's own limit is far above CREDS_MAX_GROUPS; one more stands for it. *)
kernel_setgroups(c, list, n) == setgroups(c, list, n, MaxGroups + 1)

-----------------------------------------------------------------------------
Init ==
    /\ creds = creds_init(FakeUid, FakeGid)
    /\ real = creds_init(RealUid, RealGid)
    /\ ret = 0

(* The exit handler's common tail: store the new credentials, overwrite the result. *)
Emulate(o) == creds' = o.creds /\ ret' = o.ret

(* The kernel runs the call with the registers the entry handler left. *)
Kernel(o) == real' = o.creds

\* variant: the guest's argument reaches the kernel
SetUid_NotNeutralized == \E x \in UidArg :
    /\ Kernel(creds_setuid(real, x))
    /\ Emulate(creds_setuid(creds, x))

SetUid == \E x \in UidArg :
    /\ Kernel(creds_setuid(real, RealUid))
    /\ Emulate(creds_setuid(creds, x))

SetGid == \E x \in GidArg :
    /\ Kernel(creds_setgid(real, RealGid))
    /\ Emulate(creds_setgid(creds, x))

SetReUid == \E r, e \in UidArg :
    /\ Kernel(creds_setreuid(real, NOID, NOID))
    /\ Emulate(creds_setreuid(creds, r, e))

SetReGid == \E r, e \in GidArg :
    /\ Kernel(creds_setregid(real, NOID, NOID))
    /\ Emulate(creds_setregid(creds, r, e))

SetResUid == \E r, e, s \in UidArg :
    /\ Kernel(creds_setresuid(real, NOID, NOID, NOID))
    /\ Emulate(creds_setresuid(creds, r, e, s))

SetResGid == \E r, e, s \in GidArg :
    /\ Kernel(creds_setresgid(real, NOID, NOID, NOID))
    /\ Emulate(creds_setresgid(creds, r, e, s))

SetFsUid == \E x \in UidArg :
    /\ Kernel(creds_setfsuid(real, NOID))
    /\ Emulate(creds_setfsuid(creds, x))

SetFsGid == \E x \in GidArg :
    /\ Kernel(creds_setfsgid(real, NOID))
    /\ Emulate(creds_setfsgid(creds, x))

(* neutralize_id_change has no case for setgroups: the kernel runs the     *)
(* guest's own call, which succeeds when emuroot runs as root.  n is the   *)
(* guest's count argument, list what the pointer argument names; a list    *)
(* that cannot be read is EFAULT on both sides, whoever asks.              *)
SetGroups == \E n \in -1..(MaxGroups + 1), list \in GroupLists(MaxGroups + 1) :
    /\ Len(list) = n \/ (n = -1 /\ list = <<>>)
    /\ Kernel(kernel_setgroups(real, list, n))
    /\ Emulate(creds_setgroups(creds, list, n))

SetGroupsUnreadable ==
    /\ ret' = EFAULT
    /\ UNCHANGED <<creds, real>>

Next ==
    \/ SetUid \/ SetGid \/ SetReUid \/ SetReGid \/ SetResUid \/ SetResGid
    \/ SetFsUid \/ SetFsGid \/ SetGroups \/ SetGroupsUnreadable

Spec == Init /\ [][Next]_vars

-----------------------------------------------------------------------------
(* Every id is one of the ids in use and the group list fits its array.    *)
TypeOK ==
    /\ creds \in CredsT(MaxGroups)
    /\ real \in CredsT(MaxGroups + 1)
    /\ ret \in Int

(* The file-system uid is never left behind by a drop: a tracee whose      *)
(* effective uid is not root looks up files as one of the uids it holds,   *)
(* however setfsuid and the other calls were mixed (apply_uid's last line).*)
FsuidHeld == ~privileged(creds) => creds.u.fs \in Held(creds.u)

(* A drop is complete: setuid(u), setreuid(u, u) and setresuid(u, u, u) by *)
(* the fake root leave no way back, from whatever mix of ids it was in.    *)
NoRoot(c) == 0 \notin Held(c.u) \cup {c.u.fs}
DropIsComplete == privileged(creds) =>
    \A u \in Uids \ {0} :
        /\ NoRoot(creds_setuid(creds, u).creds)
        /\ NoRoot(creds_setreuid(creds, u, u).creds)
        /\ NoRoot(creds_setresuid(creds, u, u, u).creds)

(* A drop is irreversible ("must not be reversible", "regained root" in    *)
(* tests/distros.py): once no uid of the three is root, no call ever makes *)
(* any uid, the file-system uid included, root again, and the group list   *)
(* is frozen.                                                              *)
DropIrreversible ==
    [][0 \notin Held(creds.u) => NoRoot(creds') /\ creds'.groups = creds.groups]_vars

(* An unprivileged call only rearranges: it never gives the tracee a user  *)
(* or group id it did not hold before.                                     *)
UnprivilegedGainsNothing ==
    [][~privileged(creds) =>
        /\ Held(creds'.u) \cup {creds'.u.fs} \subseteq Held(creds.u)
        /\ Held(creds'.g) \subseteq Held(creds.g)
        /\ creds'.g.fs \in Held(creds.g) \cup {creds.g.fs}]_vars

(* A call that reports an error has changed nothing.                       *)
RefusedChangesNothing == [][ret' < 0 => creds' = creds]_vars

(* The real user and group ids never change, even when emuroot runs as     *)
(* root and the kernel would obey the guest's call.                        *)
RealIdsNeverChange == real.u = Same(RealUid) /\ real.g = Same(RealGid)
=============================================================================
