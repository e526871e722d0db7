------------------------------- MODULE Paths -------------------------------
(***************************************************************************)
(* Guest path <-> host path, without the symlinks (path.c): a guest path   *)
(* goes through the bindings, then the root, then the mount points; a host *)
(* path the kernel reports goes back.                                      *)
(*                                                                         *)
(* A path string is the sequence of what stands after each of its slashes: *)
(* "/a/b" is <<"a", "b">>, "/a/" is <<"a", "">>, "/" is <<"">> and the     *)
(* empty string is <<>>.  Joining two strings is then joining sequences,   *)
(* doubled and trailing slashes included.                                  *)
(***************************************************************************)
EXTENDS Integers, Sequences, SequencesExt

Empty == <<>>
Slash == <<"">>

has_prefix(s, prefix) == IsPrefix(prefix, s)
Drop(s, n) == SubSeq(s, n + 1, Len(s))
OrSlash(s) == IF s = Empty THEN Slash ELSE s
Unslashed(s) == IF s = Slash THEN Empty ELSE s
EndsInSlash(s) == s # Empty /\ Last(s) = ""
push_component(s, comp) == Append(Unslashed(s), comp)
pop_component(s) == OrSlash(Front(s))

(* what the kernel reports, dots aside: no doubled or trailing slash *)
Clean(s) == s # Empty /\ "" \notin Range(s)
Canonical(s) == s = Slash \/ Clean(s)

(* strlen, for prefixes of one string: "/" is shorter than "/a" *)
Length(s) == Len(Unslashed(s))

(* binding_t *)
Binding(host, guest, mount) == [host |-> host, guest |-> guest, mount |-> mount]

(* a scan that keeps the longest candidate: the latest on ties, or the first *)
Longest(path) == {i \in DOMAIN path : \A j \in DOMAIN path : Length(path[j]) <= Length(path[i])}
LatestLongest(path) == CHOOSE i \in Longest(path) : \A j \in Longest(path) : j <= i
FirstLongest(path) == CHOOSE i \in Longest(path) : \A j \in Longest(path) : i <= j

(* map_to_host, its two parts: the binding a guest path falls under, and   *)
(* the mount point that what the root makes of it falls under.             *)
Bound(binds, guest) ==
    {i \in DOMAIN binds : binds[i].guest = Slash \/ has_prefix(guest, binds[i].guest)}
Mounted(binds, out) ==
    {i \in DOMAIN binds : Length(binds[i].mount) > 0 /\ has_prefix(out, binds[i].mount)}

map_to_host(binds, root, guest) ==
    LET bound == Bound(binds, guest)
        best == LatestLongest([i \in bound |-> binds[i].guest])
        out == root \o guest
        mounted == Mounted(binds, out)
        over == LatestLongest([i \in mounted |-> binds[i].mount])
    IN  IF bound # {}
        THEN OrSlash(Unslashed(binds[best].host)
                     \o Drop(guest, Length(binds[best].guest)))
        ELSE IF mounted # {}
        THEN OrSlash(Unslashed(binds[over].host) \o Drop(out, Len(binds[over].mount)))
        ELSE out

(* emuroot_host_to_guest: Empty when host lies outside the root and the bindings *)
Hosting(binds, host) ==
    {i \in DOMAIN binds : Length(binds[i].host) > 0 /\ has_prefix(host, binds[i].host)}

(* variant: a binding's directory reported as if it were the root *)
emuroot_host_to_guest_NoPrefix(binds, root, host) ==
    LET hosting == Hosting(binds, host)
        best == FirstLongest([i \in hosting |-> binds[i].host])
    IN  IF hosting # {}
        THEN OrSlash(Drop(host, Len(binds[best].host)))
        ELSE IF root # Empty /\ has_prefix(host, root)
        THEN OrSlash(Drop(host, Len(root)))
        ELSE Empty

emuroot_host_to_guest(binds, root, host) ==
    LET hosting == Hosting(binds, host)
        best == FirstLongest([i \in hosting |-> binds[i].host])
    IN  IF hosting # {}
        THEN OrSlash(Unslashed(binds[best].guest) \o Drop(host, Len(binds[best].host)))
        ELSE IF root # Empty /\ has_prefix(host, root)
        THEN OrSlash(Drop(host, Len(root)))
        ELSE Empty
=============================================================================
