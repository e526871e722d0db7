------------------------------ MODULE OwnerMap ------------------------------
(***************************************************************************)
(* What the fake-ownership database promises (the head of ownership.c): it *)
(* remembers one owner per file, and what a run has saved the next run     *)
(* starts with.  When memory runs out an owner may not be remembered; when *)
(* the tracer is killed while it writes the file, the file holds part of   *)
(* what was known, its last line perhaps cut short.                        *)
(***************************************************************************)
CONSTANTS Files, Owners, NoOwner

VARIABLES
    map,        \* the owner remembered for each file
    disk,       \* the owners in the saved file
    up,         \* a run is in progress
    whole,      \* nothing was forgotten in this run
    intact      \* the file was written to its end

mapVars == <<map, disk, up, whole, intact>>

Maps == [Files -> Owners \cup {NoOwner}]
Empty == [f \in Files |-> NoOwner]
Within(m, n) == \A f \in Files : m[f] \in {n[f], NoOwner}

MapInit == map = Empty /\ disk = Empty /\ up = FALSE /\ whole = TRUE /\ intact = TRUE

(* A run starts from what the file says, or, if memory is short, from less *)
(* of it.                                                                  *)
Begin ==
    /\ ~up /\ up' = TRUE
    /\ map' \in Maps /\ Within(map', disk)
    /\ whole' \in BOOLEAN /\ (whole' => map' = disk)
    /\ UNCHANGED <<disk, intact>>

Remember(f, o) ==
    /\ up
    /\ map' = [map EXCEPT ![f] = o]
    /\ UNCHANGED <<disk, up, whole, intact>>

Forget ==
    /\ up /\ whole' = FALSE
    /\ UNCHANGED <<map, disk, up, intact>>

Over == up /\ up' = FALSE /\ map' = Empty /\ whole' = TRUE

End == Over /\ disk' = map /\ intact' = TRUE

(* The end of a run that never had an owner to remember, or cannot open    *)
(* the file, and of one that is killed before it saves.                    *)
EndUnsaved == Over /\ UNCHANGED <<disk, intact>>

EndTorn ==
    /\ Over /\ intact' = FALSE
    /\ \E f \in Files : /\ disk' \in Maps
                        /\ \A g \in Files \ {f} : disk'[g] \in {map[g], NoOwner}

MapNext ==
    \/ Begin \/ Forget \/ End \/ EndUnsaved \/ EndTorn
    \/ \E f \in Files, o \in Owners : Remember(f, o)

MapSpec == MapInit /\ [][MapNext]_mapVars
=============================================================================
