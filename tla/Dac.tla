-------------------------------- MODULE Dac --------------------------------
(***************************************************************************)
(* Permission bits for the fake root (dac.c).  The user emuroot runs as is *)
(* an ordinary one (for root nothing is needed); what it owns gets the     *)
(* owner's bits that a call of the fake root will need.                    *)
(***************************************************************************)
EXTENDS FiniteSets

CONSTANTS
    Files,      \* host paths of files and directories
    Parent,     \* the directory of each
    Above,      \* all the directories on the way to each
    Folders,    \* those that are directories
    Mine        \* those that belong to the user

ASSUME FilesAssumption ==
    /\ Folders \subseteq Files /\ Mine \subseteq Files
    /\ Parent \in [Files -> Folders] /\ Above \in [Files -> SUBSET Folders]
    /\ \A f \in Files :
        \/ Parent[f] = f /\ Above[f] = {}      \* "/"
        \/ f \notin Above[f] /\ Above[f] = {Parent[f]} \cup Above[Parent[f]]

Bits == {"r", "w", "x"}

(* The calls, by what they do.  openat2's flags are not looked at; what    *)
(* does not open, create, remove or rename needs nothing.  mkdir, mknod,   *)
(* symlink and rmdir are like unlink, truncate like open_w.                *)
\* variant: a rename needs its first directory only
dac_for_Once(op, which) ==
    CASE which = 1 /\ op \in {"open_creat", "unlink", "rename"} -> "PARENT_W"
      [] which = 1 /\ op = "open_w" -> "RW"
      [] which = 1 /\ op \in {"open_r", "openat2", "openat2_w"} -> "READ"
      [] OTHER -> "NONE"

dac_for(op, which) ==
    CASE which = 1 /\ op \in {"open_creat", "unlink"} -> "PARENT_W"
      [] op = "rename" -> "PARENT_W"
      [] which = 1 /\ op = "open_w" -> "RW"
      [] which = 1 /\ op \in {"open_r", "openat2", "openat2_w"} -> "READ"
      [] OTHER -> "NONE"

(* every directory on the way to a file can be searched *)
Searchable(mode, host) == \A d \in Above[host] : "x" \in mode[d]

(* stat(2) by the tracer, which the bits hold for like for anybody *)
Stat(mode, there, host) == host \in there /\ Searchable(mode, host)

grant_owner(mode, there, path, bits) ==
    IF Stat(mode, there, path) /\ path \in Mine
    THEN [mode EXCEPT ![path] = @ \cup bits] ELSE mode

ensure_dac(mode, there, host, need) ==
    IF need = "NONE" \/ host \notin Files THEN mode
    ELSE IF need = "PARENT_W" THEN grant_owner(mode, there, Parent[host], {"w", "x"})
    ELSE grant_owner(mode, there, host,
             (IF need = "RW" THEN {"r", "w"} ELSE {"r"})
             \cup (IF host \in Folders THEN {"x"} ELSE {}))

emuroot_grant_access(mode, there, op, which, host) ==
    ensure_dac(mode, there, host, dac_for(op, which))

-----------------------------------------------------------------------------
(* What the kernel asks of the owner's bits: none of a file that belongs   *)
(* to somebody else.  A call needs bits of a file, and bits of a directory *)
(* whose entries it changes.                                               *)
Needs(op) == CASE op \in {"open_r", "openat2"} -> {"r"}
               [] op \in {"open_w", "open_creat", "openat2_w"} -> {"r", "w"}
               [] OTHER -> {}
Has(mode, f, bits) == f \in Mine /\ bits \subseteq mode[f]

Permits(mode, there, op, f) ==
    /\ Searchable(mode, f)
    /\ f \in there => Has(mode, f, Needs(op))
    /\ (op \in {"unlink", "rename"} \/ (op = "open_creat" /\ f \notin there))
         => Has(mode, Parent[f], {"w", "x"})
    /\ (op = "chmod" /\ f \in there) => f \in Mine
=============================================================================
