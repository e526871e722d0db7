----------------------------- MODULE MCRewrite -----------------------------
(* An instance of Rewrite: 64 addresses, of which 4..9 are data, 20..45  *)
(* the stack, and the rest unmapped or the kernel's.  From the first of    *)
(* the stack pointers there is room for every path, from the second for    *)
(* one; below the others the room or the margin wraps.                     *)
EXTENDS Rewrite

GuestNames == {"f", "g", "d", "s", "e", "t"}
HostNames == {"Hf", "Hg", "Hd", "Hs", "HG", "HH"}
MCStrings == GuestNames \cup HostNames \cup {"G", "top"}
MCSize == [s \in MCStrings |-> CASE s \in GuestNames \cup {"G"} -> 1
                                 [] s = "Hs" -> 3
                                 [] OTHER -> 2]
(* t is bound to itself and not the user's; a host name read again names   *)
(* something below the root's copy of it                                   *)
MCTranslate == [s \in MCStrings |->
    CASE s = "f" -> "Hf" [] s = "g" -> "Hg" [] s = "d" -> "Hd" [] s = "s" -> "Hs"
      [] s = "G" -> "HG" [] s \in {"e", "t", "HH"} -> s
      [] OTHER -> "HH"]

(* the file Hf is in the directory Hd, Hg in Hd's subdirectory Hs *)
MCFiles == {"Hd", "Hf", "Hs", "Hg", "t", "top"}
MCParent == [f \in MCFiles |-> CASE f \in {"Hf", "Hs"} -> "Hd" [] f = "Hg" -> "Hs" [] OTHER -> "top"]
MCAbove == [f \in MCFiles |-> CASE f \in {"Hf", "Hs"} -> {"top", "Hd"} [] f = "Hg" -> {"top", "Hd", "Hs"}
                                 [] f = "top" -> {} [] OTHER -> {"top"}]

MCHeap == 4 .. 9
MCMapped == MCHeap \cup 20 .. 45
MCHome == [a \in MCMapped |->
    CASE a = 4 -> <<"f", 0>> [] a = 5 -> <<"g", 0>> [] a = 6 -> <<"d", 0>>
      [] a = 7 -> <<"s", 0>> [] a = 8 -> <<"t", 0>> [] a = 9 -> <<"e", 0>>
      [] OTHER -> <<"G", 0>>]
MCPointers == {0, 12} \cup MCHeap
MCBuffers == {13, 40}
MCSPs == {45, 27, 5, 2}
MCModes == {{}}
=============================================================================
