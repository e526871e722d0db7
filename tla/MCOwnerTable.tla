---------------------------- MODULE MCOwnerTable ----------------------------
EXTENDS OwnerTable, TLC
(* The first two files start at the last slot of every table and wrap      *)
(* round, into the third one's way.                                        *)
MCHash == 1 :> 7 @@ 2 :> 15 @@ 3 :> 0
=============================================================================
