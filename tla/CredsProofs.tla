---------------------------- MODULE CredsProofs ----------------------------
(* Proofs about the fake credentials, for any set of ids and any CREDS_MAX_GROUPS. *)
EXTENDS Creds, TLAPS

-----------------------------------------------------------------------------
(* What the four rules of creds.c do to one id array, whoever asks: they   *)
(* stay within the ids in use.                                             *)
LEMMA RulesTyped ==
    ASSUME NEW ids, NOID \notin ids, NEW a \in IdArray(ids), NEW priv \in BOOLEAN,
           NEW r \in ids \cup {NOID}, NEW e \in ids \cup {NOID}, NEW s \in ids \cup {NOID}
    PROVE  /\ apply(a, r, e, s) \in IdArray(ids)
           /\ set(a, priv, r).ids \in IdArray(ids)
           /\ setres(a, priv, r, e, s).ids \in IdArray(ids)
           /\ setre(a, priv, r, e).ids \in IdArray(ids)
           /\ setfs(a, priv, r).ids \in IdArray(ids)
BY DEF IdArray, apply, Pick, set, setres, setre, setfs, Allow, Refuse, Held

(* ... an unprivileged caller only rearranges the ids it holds ...         *)
Rearranges(b, a) == Held(b) \subseteq Held(a) /\ b.fs \in Held(a) \cup {a.fs}
LEMMA RulesRearrange ==
    ASSUME NEW ids, NOID \notin ids, NEW a \in IdArray(ids),
           NEW r \in ids \cup {NOID}, NEW e \in ids \cup {NOID}, NEW s \in ids \cup {NOID}
    PROVE  /\ Rearranges(set(a, FALSE, r).ids, a)
           /\ Rearranges(setres(a, FALSE, r, e, s).ids, a)
           /\ Rearranges(setre(a, FALSE, r, e).ids, a)
           /\ Rearranges(setfs(a, FALSE, r).ids, a)
BY DEF IdArray, apply, Pick, set, setres, setre, setfs, Allow, Refuse, Held, Rearranges

(* ... and the file-system id follows the effective one, except in setfs.  *)
LEMMA RulesFollow ==
    ASSUME NEW ids, NOID \notin ids, NEW a \in IdArray(ids), NEW priv \in BOOLEAN,
           NEW r \in ids \cup {NOID}, NEW e \in ids \cup {NOID}, NEW s \in ids \cup {NOID},
           NEW b \in {set(a, priv, r).ids, setres(a, priv, r, e, s).ids, setre(a, priv, r, e).ids}
    PROVE  b.fs = b.e \/ b = a
BY DEF IdArray, apply, Pick, set, setres, setre, Allow, Refuse, Held

-----------------------------------------------------------------------------
(* One call, seen by its effect on the fake uids, gids and groups.  Every  *)
(* step of the specification is such a call.                               *)
UidCall == \E r, e, s \in UidArg : creds'.u \in
    {set(creds.u, privileged(creds), r).ids, setres(creds.u, privileged(creds), r, e, s).ids,
     setre(creds.u, privileged(creds), r, e).ids}
FsUidCall == \E x \in UidArg : creds'.u = setfs(creds.u, privileged(creds), x).ids
GidCall == \E r, e, s \in GidArg : creds'.g \in
    {set(creds.g, privileged(creds), r).ids, setres(creds.g, privileged(creds), r, e, s).ids,
     setre(creds.g, privileged(creds), r, e).ids, setfs(creds.g, privileged(creds), r).ids}
GroupCall == privileged(creds) /\ creds'.groups \in GroupLists(MaxGroups)

Fields(u, g, groups) == [u |-> u, g |-> g, groups |-> groups]
OneCall ==
    \/ UidCall /\ creds' = Fields(creds'.u, creds.g, creds.groups)
    \/ FsUidCall /\ creds' = Fields(creds'.u, creds.g, creds.groups)
    \/ GidCall /\ creds' = Fields(creds.u, creds'.g, creds.groups)
    \/ GroupCall /\ creds' = Fields(creds.u, creds.g, creds'.groups)
    \/ creds' = creds

LEMMA StepIsOneCall ==
    ASSUME creds \in CredsT(MaxGroups), [Next]_vars
    PROVE  OneCall
<1> USE IdsAssumption, GroupsAssumption DEF Emulate, OneCall, Fields, UidArg, GidArg
<1>1. NOID \in UidArg /\ NOID \in GidArg
  BY DEF UidArg, GidArg
<1>2. creds = Fields(creds.u, creds.g, creds.groups)
  BY DEF CredsT
<1>3. CASE SetUid
  BY <1>1, <1>2, <1>3 DEF SetUid, UidCall, creds_setuid, OnUid, CredsT
<1>4. CASE SetGid
  BY <1>1, <1>2, <1>4 DEF SetGid, GidCall, creds_setgid, OnGid, CredsT
<1>5. CASE SetReUid
  BY <1>1, <1>2, <1>5 DEF SetReUid, UidCall, creds_setreuid, OnUid, CredsT
<1>6. CASE SetReGid
  BY <1>1, <1>2, <1>6 DEF SetReGid, GidCall, creds_setregid, OnGid, CredsT
<1>7. CASE SetResUid
  <2>1. PICK r \in UidArg, e \in UidArg, s \in UidArg : Emulate(creds_setresuid(creds, r, e, s))
    BY <1>7 DEF SetResUid
  <2>2. creds'.u = setres(creds.u, privileged(creds), r, e, s).ids
    BY <2>1 DEF creds_setresuid, OnUid, CredsT
  <2>3. UidCall
    BY <2>2 DEF UidCall
  <2> QED
    BY <1>2, <2>1, <2>3 DEF creds_setresuid, OnUid, CredsT
<1>8. CASE SetResGid
  BY <1>1, <1>2, <1>8, SMTT(30) DEF SetResGid, GidCall, creds_setresgid, OnGid, CredsT
<1>9. CASE SetFsUid
  BY <1>1, <1>2, <1>9 DEF SetFsUid, FsUidCall, creds_setfsuid, OnUid, CredsT
<1>10. CASE SetFsGid
  BY <1>1, <1>2, <1>10 DEF SetFsGid, GidCall, creds_setfsgid, OnGid, CredsT
<1>11. CASE SetGroups
  <2>1. PICK n \in -1..(MaxGroups + 1), list \in GroupLists(MaxGroups + 1) :
            /\ Len(list) = n \/ (n = -1 /\ list = <<>>)
            /\ Emulate(creds_setgroups(creds, list, n))
    BY <1>11 DEF SetGroups
  <2>2. CASE privileged(creds) /\ n \in 0..MaxGroups
    <3>1. list \in GroupLists(MaxGroups)
      <4>1. PICK m \in 0..(MaxGroups + 1) : list \in [1..m -> Gids]
        BY <2>1 DEF GroupLists
      <4>2. m = n
        BY <2>1, <2>2, <4>1
      <4> QED
        BY <2>2, <4>1, <4>2 DEF GroupLists
    <3> QED
      BY <1>2, <2>1, <2>2, <3>1 DEF GroupCall, creds_setgroups, setgroups, CredsT
  <2>3. CASE ~(privileged(creds) /\ n \in 0..MaxGroups)
    BY <2>1, <2>3 DEF creds_setgroups, setgroups
  <2> QED
    BY <2>2, <2>3
<1>12. CASE SetGroupsUnreadable
  BY <1>12 DEF SetGroupsUnreadable
<1>13. CASE UNCHANGED vars
  BY <1>13 DEF vars
<1> QED
  BY <1>3, <1>4, <1>5, <1>6, <1>7, <1>8, <1>9, <1>10, <1>11, <1>12, <1>13 DEF Next

(* What one call leaves: the type, and the file-system uid's invariant.    *)
CredsInv == creds \in CredsT(MaxGroups) /\ FsuidHeld

LEMMA OneCallKeepsCreds ==
    ASSUME CredsInv, OneCall
    PROVE  CredsInv'
<1> USE IdsAssumption DEF UidArg, GidArg
<1>1. creds.u \in IdArray(Uids) /\ creds.g \in IdArray(Gids) /\ privileged(creds) \in BOOLEAN
  BY DEF CredsInv, CredsT, privileged
<1>2. CASE UidCall /\ creds' = Fields(creds'.u, creds.g, creds.groups)
  <2>1. PICK r \in UidArg, e \in UidArg, s \in UidArg : creds'.u \in
          {set(creds.u, privileged(creds), r).ids, setres(creds.u, privileged(creds), r, e, s).ids,
           setre(creds.u, privileged(creds), r, e).ids}
    BY <1>2 DEF UidCall
  <2>2. creds'.u \in IdArray(Uids)
    BY <1>1, <2>1, RulesTyped
  <2>3. creds'.u.fs = creds'.u.e \/ creds'.u = creds.u
    BY <1>1, <2>1, RulesFollow
  <2> QED
    BY <1>2, <2>2, <2>3 DEF CredsInv, CredsT, Fields, FsuidHeld, Held, privileged, IdArray
<1>3. CASE FsUidCall /\ creds' = Fields(creds'.u, creds.g, creds.groups)
  <2>1. PICK x \in UidArg : creds'.u = setfs(creds.u, privileged(creds), x).ids
    BY <1>3 DEF FsUidCall
  <2>2. creds'.u \in IdArray(Uids)
    BY <1>1, <2>1, RulesTyped
  <2>3. /\ Held(creds'.u) = Held(creds.u)
        /\ privileged(creds') = privileged(creds)
        /\ ~privileged(creds) => creds'.u.fs \in Held(creds.u) \cup {creds.u.fs}
    BY <1>1, <1>3, <2>1 DEF setfs, Held, IdArray, privileged
  <2> QED
    BY <1>3, <2>2, <2>3 DEF CredsInv, CredsT, Fields, FsuidHeld
<1>4. CASE GidCall /\ creds' = Fields(creds.u, creds'.g, creds.groups)
  <2>1. creds'.g \in IdArray(Gids)
    BY <1>1, <1>4, RulesTyped DEF GidCall
  <2> QED
    BY <1>4, <2>1 DEF CredsInv, CredsT, Fields, FsuidHeld, privileged
<1>5. CASE GroupCall /\ creds' = Fields(creds.u, creds.g, creds'.groups)
  BY <1>5 DEF GroupCall, CredsInv, CredsT, Fields, FsuidHeld, privileged
<1>6. CASE creds' = creds
  BY <1>6 DEF CredsInv, FsuidHeld, privileged
<1> QED
  BY <1>2, <1>3, <1>4, <1>5, <1>6 DEF OneCall

(* The kernel's side: the calls identity.c leaves it do not touch the ids. *)
RealInv == RealIdsNeverChange /\ real \in CredsT(MaxGroups + 1)

LEMMA StepKeepsReal ==
    ASSUME RealInv, [Next]_vars
    PROVE  RealInv'
<1> USE IdsAssumption, GroupsAssumption DEF Kernel, Same, RealInv, RealIdsNeverChange, CredsT
<1>1. real = Fields(Same(RealUid), Same(RealGid), real.groups)
  BY DEF Fields
<1>2. CASE SetUid
  BY <1>2 DEF SetUid, creds_setuid, OnUid, set, apply, Pick, Allow, Refuse
<1>3. CASE SetGid
  BY <1>3 DEF SetGid, creds_setgid, OnGid, set, apply, Pick, Allow, Refuse
<1>4. CASE SetReUid
  BY <1>4 DEF SetReUid, creds_setreuid, OnUid, setre, apply, Pick, Allow, Refuse, Held
<1>5. CASE SetReGid
  BY <1>5 DEF SetReGid, creds_setregid, OnGid, setre, apply, Pick, Allow, Refuse, Held
<1>6. CASE SetResUid
  BY <1>6 DEF SetResUid, creds_setresuid, OnUid, setres, apply, Pick, Allow, Refuse, Held
<1>7. CASE SetResGid
  BY <1>7 DEF SetResGid, creds_setresgid, OnGid, setres, apply, Pick, Allow, Refuse, Held
<1>8. CASE SetFsUid
  BY <1>8 DEF SetFsUid, creds_setfsuid, OnUid, setfs
<1>9. CASE SetFsGid
  BY <1>9 DEF SetFsGid, creds_setfsgid, OnGid, setfs
<1>10. CASE SetGroups
  BY <1>10 DEF SetGroups, kernel_setgroups, setgroups
<1>11. CASE SetGroupsUnreadable
  BY <1>11 DEF SetGroupsUnreadable
<1>12. CASE UNCHANGED vars
  BY <1>12 DEF vars
<1> QED
  BY <1>2, <1>3, <1>4, <1>5, <1>6, <1>7, <1>8, <1>9, <1>10, <1>11, <1>12 DEF Next

(* The result is a number: 0, an error, or the id setfsuid answers.        *)
LEMMA StepResult ==
    ASSUME creds \in CredsT(MaxGroups), ret \in Int, [Next]_vars
    PROVE  ret' \in Int
<1> USE IdsAssumption DEF Emulate, OnUid, OnGid, Allow, Refuse, EPERM, EINVAL, EFAULT
<1>1. CASE SetUid \/ SetGid
  BY <1>1 DEF SetUid, SetGid, creds_setuid, creds_setgid, set
<1>2. CASE SetReUid \/ SetReGid
  BY <1>2 DEF SetReUid, SetReGid, creds_setreuid, creds_setregid, setre
<1>3. CASE SetResUid \/ SetResGid
  BY <1>3 DEF SetResUid, SetResGid, creds_setresuid, creds_setresgid, setres
<1>4. CASE SetFsUid \/ SetFsGid
  BY <1>4 DEF SetFsUid, SetFsGid, creds_setfsuid, creds_setfsgid, setfs, CredsT, IdArray
<1>5. CASE SetGroups \/ SetGroupsUnreadable
  BY <1>5 DEF SetGroups, SetGroupsUnreadable, creds_setgroups, setgroups
<1>6. CASE UNCHANGED vars
  BY <1>6 DEF vars
<1> QED
  BY <1>1, <1>2, <1>3, <1>4, <1>5, <1>6 DEF Next

-----------------------------------------------------------------------------
(* The inductive invariant of the specification. *)
IInv == CredsInv /\ RealInv /\ ret \in Int

LEMMA InitIInv == Init => IInv
<1> SUFFICES ASSUME Init PROVE IInv
  OBVIOUS
<1>1. \A g \in Gids, m \in {MaxGroups, MaxGroups + 1} : <<g>> \in GroupLists(m)
  BY GroupsAssumption DEF GroupLists
<1>2. Same(FakeUid) \in IdArray(Uids) /\ Same(RealUid) \in IdArray(Uids)
  BY IdsAssumption DEF Same, IdArray
<1>3. Same(FakeGid) \in IdArray(Gids) /\ Same(RealGid) \in IdArray(Gids)
  BY IdsAssumption DEF Same, IdArray
<1>4. creds \in CredsT(MaxGroups) /\ real \in CredsT(MaxGroups + 1)
  BY <1>1, <1>2, <1>3, IdsAssumption DEF Init, CredsT, creds_init
<1>5. FsuidHeld /\ RealIdsNeverChange
  BY DEF Init, FsuidHeld, RealIdsNeverChange, Held, Same, creds_init
<1> QED
  BY <1>4, <1>5 DEF Init, IInv, CredsInv, RealInv

LEMMA NextIInv == IInv /\ [Next]_vars => IInv'
BY StepIsOneCall, OneCallKeepsCreds, StepKeepsReal, StepResult DEF IInv, CredsInv

LEMMA AlwaysIInv == Spec => []IInv
BY InitIInv, NextIInv, PTL DEF Spec

(* The fields of the fake credentials (creds.c) stay ids and the group     *)
(* list stays within CREDS_MAX_GROUPS.                                     *)
THEOREM TypeCorrect == Spec => []TypeOK
BY AlwaysIInv, PTL DEF IInv, CredsInv, RealInv, TypeOK

(* apply_uid resets fsuid: an unprivileged tracee's file-system uid is     *)
(* always one of the uids it holds.                                        *)
THEOREM FsuidAlwaysHeld == Spec => []FsuidHeld
BY AlwaysIInv, PTL DEF IInv, CredsInv

(* identity.c's neutralized calls never change the real user and group ids, *)
(* whoever emuroot runs as.                                                *)
THEOREM RealIdsKept == Spec => []RealIdsNeverChange
BY AlwaysIInv, PTL DEF IInv, RealInv

(* No set*id call gives an unprivileged tracee an id it did not hold.      *)
THEOREM NothingGained == Spec => UnprivilegedGainsNothing
<1>1. ASSUME IInv, [Next]_vars, ~privileged(creds)
      PROVE  /\ Held(creds'.u) \cup {creds'.u.fs} \subseteq Held(creds.u)
             /\ Held(creds'.g) \subseteq Held(creds.g)
             /\ creds'.g.fs \in Held(creds.g) \cup {creds.g.fs}
  <2> USE IdsAssumption DEF UidArg, GidArg
  <2>1. /\ creds.u \in IdArray(Uids) /\ creds.g \in IdArray(Gids)
        /\ creds.u.fs \in Held(creds.u)
        /\ privileged(creds) = FALSE
    BY <1>1 DEF IInv, CredsInv, CredsT, FsuidHeld, privileged
  <2>2. OneCall
    BY <1>1, StepIsOneCall DEF IInv, CredsInv
  <2>3. CASE (UidCall \/ FsUidCall) /\ creds' = Fields(creds'.u, creds.g, creds.groups)
    <3>1. PICK r \in UidArg, e \in UidArg, s \in UidArg : creds'.u \in
            {set(creds.u, FALSE, r).ids, setres(creds.u, FALSE, r, e, s).ids,
             setre(creds.u, FALSE, r, e).ids, setfs(creds.u, FALSE, r).ids}
      BY <2>1, <2>3 DEF UidCall, FsUidCall
    <3>2. Rearranges(creds'.u, creds.u)
      BY <2>1, <3>1, RulesRearrange
    <3> QED
      BY <2>1, <2>3, <3>2 DEF Fields, Rearranges
  <2>4. CASE GidCall /\ creds' = Fields(creds.u, creds'.g, creds.groups)
    <3>1. PICK r \in GidArg, e \in GidArg, s \in GidArg : creds'.g \in
            {set(creds.g, FALSE, r).ids, setres(creds.g, FALSE, r, e, s).ids,
             setre(creds.g, FALSE, r, e).ids, setfs(creds.g, FALSE, r).ids}
      BY <2>1, <2>4 DEF GidCall
    <3>2. Rearranges(creds'.g, creds.g)
      BY <2>1, <3>1, RulesRearrange
    <3> QED
      BY <2>1, <2>4, <3>2 DEF Fields, Rearranges
  <2>5. CASE creds' = creds
    BY <2>1, <2>5
  <2> QED
    BY <1>1, <2>2, <2>3, <2>4, <2>5 DEF OneCall, GroupCall
<1> QED
  BY <1>1, AlwaysIInv, PTL DEF Spec, UnprivilegedGainsNothing

(* A drop cannot be undone: a tracee none of whose three uids is root      *)
(* never gets a root uid again, nor another group list.                    *)
THEOREM DropNotReversible == Spec => DropIrreversible
<1>1. ASSUME IInv, [Next]_vars, 0 \notin Held(creds.u),
             [~privileged(creds) =>
                /\ Held(creds'.u) \cup {creds'.u.fs} \subseteq Held(creds.u)
                /\ Held(creds'.g) \subseteq Held(creds.g)
                /\ creds'.g.fs \in Held(creds.g) \cup {creds.g.fs}]_vars
      PROVE  NoRoot(creds') /\ creds'.groups = creds.groups
  <2>1. ~privileged(creds) /\ NoRoot(creds)
    BY <1>1 DEF privileged, Held, IInv, CredsInv, FsuidHeld, NoRoot
  <2>2. OneCall
    BY <1>1, StepIsOneCall DEF IInv, CredsInv
  <2>3. creds'.groups = creds.groups
    BY <2>1, <2>2 DEF OneCall, GroupCall, Fields
  <2> QED
    BY <1>1, <2>1, <2>3 DEF NoRoot, vars
<1> QED
  BY <1>1, AlwaysIInv, NothingGained, PTL DEF Spec, DropIrreversible, UnprivilegedGainsNothing

(* What the rules answer: an error goes with the old ids, and only setfs   *)
(* answers an id.                                                          *)
LEMMA RulesAnswer ==
    ASSUME NEW ids \in SUBSET Nat, NEW a \in IdArray(ids), NEW priv \in BOOLEAN,
           NEW r, NEW e, NEW s
    PROVE  /\ set(a, priv, r).ret < 0 => set(a, priv, r).ids = a
           /\ setres(a, priv, r, e, s).ret < 0 => setres(a, priv, r, e, s).ids = a
           /\ setre(a, priv, r, e).ret < 0 => setre(a, priv, r, e).ids = a
           /\ ~(setfs(a, priv, r).ret < 0)
BY DEF IdArray, set, setres, setre, setfs, Allow, Refuse, EPERM

(* A call that reports an error, to whoever made it and with whatever      *)
(* arguments, has left every id and the group list as they were.           *)
THEOREM RefusalIsHarmless == Spec => RefusedChangesNothing
<1>1. ASSUME IInv, [Next]_vars, ret' < 0
      PROVE  creds' = creds \/ UNCHANGED vars
  <2> USE IdsAssumption DEF Emulate
  <2>1. /\ creds.u \in IdArray(Uids) /\ creds.g \in IdArray(Gids)
        /\ Uids \in SUBSET Nat /\ Gids \in SUBSET Nat
        /\ privileged(creds) \in BOOLEAN
    BY <1>1 DEF IInv, CredsInv, CredsT, privileged
  <2>2. [creds EXCEPT !.u = creds.u] = creds /\ [creds EXCEPT !.g = creds.g] = creds
    BY <1>1 DEF IInv, CredsInv, CredsT
  <2>3. CASE SetUid
    <3>1. PICK x \in UidArg : Emulate(creds_setuid(creds, x))
      BY <2>3 DEF SetUid
    <3>2. creds' = [creds EXCEPT !.u = set(creds.u, privileged(creds), x).ids]
          /\ ret' = set(creds.u, privileged(creds), x).ret
      BY <3>1 DEF creds_setuid, OnUid
    <3> QED
      BY <1>1, <2>1, <2>2, <3>2, RulesAnswer
  <2>4. CASE SetReUid
    <3>1. PICK r \in UidArg, e \in UidArg : Emulate(creds_setreuid(creds, r, e))
      BY <2>4 DEF SetReUid
    <3>2. creds' = [creds EXCEPT !.u = setre(creds.u, privileged(creds), r, e).ids]
          /\ ret' = setre(creds.u, privileged(creds), r, e).ret
      BY <3>1 DEF creds_setreuid, OnUid
    <3> QED
      BY <1>1, <2>1, <2>2, <3>2, RulesAnswer
  <2>5. CASE SetResUid
    <3>1. PICK r \in UidArg, e \in UidArg, s \in UidArg : Emulate(creds_setresuid(creds, r, e, s))
      BY <2>5 DEF SetResUid
    <3>2. creds' = [creds EXCEPT !.u = setres(creds.u, privileged(creds), r, e, s).ids]
          /\ ret' = setres(creds.u, privileged(creds), r, e, s).ret
      BY <3>1 DEF creds_setresuid, OnUid
    <3> QED
      BY <1>1, <2>1, <2>2, <3>2, RulesAnswer
  <2>6. CASE SetFsUid
    <3>1. PICK x \in UidArg : Emulate(creds_setfsuid(creds, x))
      BY <2>6 DEF SetFsUid
    <3>2. creds' = [creds EXCEPT !.u = setfs(creds.u, privileged(creds), x).ids]
          /\ ret' = setfs(creds.u, privileged(creds), x).ret
      BY <3>1 DEF creds_setfsuid, OnUid
    <3> QED
      BY <1>1, <2>1, <2>2, <3>2, RulesAnswer
  <2>7. CASE SetGid
    <3>1. PICK x \in GidArg : Emulate(creds_setgid(creds, x))
      BY <2>7 DEF SetGid
    <3>2. creds' = [creds EXCEPT !.g = set(creds.g, privileged(creds), x).ids]
          /\ ret' = set(creds.g, privileged(creds), x).ret
      BY <3>1 DEF creds_setgid, OnGid
    <3> QED
      BY <1>1, <2>1, <2>2, <3>2, RulesAnswer
  <2>8. CASE SetReGid
    <3>1. PICK r \in GidArg, e \in GidArg : Emulate(creds_setregid(creds, r, e))
      BY <2>8 DEF SetReGid
    <3>2. creds' = [creds EXCEPT !.g = setre(creds.g, privileged(creds), r, e).ids]
          /\ ret' = setre(creds.g, privileged(creds), r, e).ret
      BY <3>1 DEF creds_setregid, OnGid
    <3> QED
      BY <1>1, <2>1, <2>2, <3>2, RulesAnswer
  <2>9. CASE SetResGid
    <3>1. PICK r \in GidArg, e \in GidArg, s \in GidArg : Emulate(creds_setresgid(creds, r, e, s))
      BY <2>9 DEF SetResGid
    <3>2. creds' = [creds EXCEPT !.g = setres(creds.g, privileged(creds), r, e, s).ids]
          /\ ret' = setres(creds.g, privileged(creds), r, e, s).ret
      BY <3>1 DEF creds_setresgid, OnGid
    <3> QED
      BY <1>1, <2>1, <2>2, <3>2, RulesAnswer
  <2>10. CASE SetFsGid
    <3>1. PICK x \in GidArg : Emulate(creds_setfsgid(creds, x))
      BY <2>10 DEF SetFsGid
    <3>2. creds' = [creds EXCEPT !.g = setfs(creds.g, privileged(creds), x).ids]
          /\ ret' = setfs(creds.g, privileged(creds), x).ret
      BY <3>1 DEF creds_setfsgid, OnGid
    <3> QED
      BY <1>1, <2>1, <2>2, <3>2, RulesAnswer
  <2>11. CASE SetGroups
    BY <1>1, <2>11 DEF SetGroups, creds_setgroups, setgroups
  <2>12. CASE SetGroupsUnreadable
    BY <2>12 DEF SetGroupsUnreadable
  <2> QED
    BY <1>1, <2>3, <2>4, <2>5, <2>6, <2>7, <2>8, <2>9, <2>10, <2>11, <2>12 DEF Next
<1> QED
  BY <1>1, AlwaysIInv, PTL DEF Spec, RefusedChangesNothing

(* A drop by the fake root with setuid, setreuid or setresuid is complete: *)
(* apply_uid and the rule for the saved id leave root in no field, from    *)
(* whatever mix of ids the earlier calls had built.                        *)
THEOREM DropsAreComplete == Spec => []DropIsComplete
<1>1. ASSUME IInv, privileged(creds), NEW u \in Uids \ {0}
      PROVE  /\ NoRoot(creds_setuid(creds, u).creds)
             /\ NoRoot(creds_setreuid(creds, u, u).creds)
             /\ NoRoot(creds_setresuid(creds, u, u, u).creds)
  <2>1. u # NOID /\ u # 0 /\ creds.u \in IdArray(Uids)
    BY <1>1, IdsAssumption DEF IInv, CredsInv, CredsT
  <2>2. \A ids : [creds EXCEPT !.u = ids].u = ids
    BY <1>1 DEF IInv, CredsInv, CredsT
  <2>3. privileged(creds) = TRUE
    BY <1>1 DEF privileged
  <2>4. /\ set(creds.u, TRUE, u).ids = Same(u)
        /\ setre(creds.u, TRUE, u, u).ids = Same(u)
        /\ setres(creds.u, TRUE, u, u, u).ids = Same(u)
    BY <2>1 DEF set, setre, setres, Allow, apply, Pick, Same
  <2>5. \A c : c.u = Same(u) => NoRoot(c)
    BY <2>1 DEF NoRoot, Held, Same
  <2> QED
    BY <2>2, <2>3, <2>4, <2>5 DEF creds_setuid, creds_setreuid, creds_setresuid, OnUid
<1>2. IInv => DropIsComplete
  BY <1>1 DEF DropIsComplete
<1> QED
  BY <1>2, AlwaysIInv, PTL
=============================================================================
