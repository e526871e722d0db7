------------------------------ MODULE MCCreds ------------------------------
(* Model values for Creds: two unprivileged users are enough to tell every *)
(* pair of fields of an id array apart from root and from each other.      *)
EXTENDS Creds
MCNOID == -1
=============================================================================
