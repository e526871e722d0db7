------------------------------- MODULE MCExec -------------------------------
(* An instance of Exec.  Scripts s1, s2, s3 lead to each other and to the  *)
(* shell; sc ends its line in CR.  The root's ld understands --argv0, lm   *)
(* (musl) does not; no is missing; the host has a shell, an ld and an lm   *)
(* of its own.  bx and lb are bound: the host's.  hl uses lb.  Nobody may  *)
(* execute nx (static), nd (dynamic) and nl, a loader that dn uses; sn     *)
(* leads to nx.                                                            *)
EXTENDS Exec

File(type, interp, raw, arg, argv0, readable) ==
    [type |-> type, interp |-> interp, raw |-> raw, arg |-> arg, argv0 |-> argv0,
     readable |-> readable, exec |-> TRUE]
NoX(file) == [file EXCEPT !.exec = FALSE]
Script(interp, arg) == File("script", interp, arg, arg, FALSE, TRUE)
Dynamic(interp) == File("dynamic", interp, NoArg, NoArg, FALSE, TRUE)
Loader(argv0) == File("loader", "", NoArg, NoArg, argv0, TRUE)

MCNames == {"sh", "s1", "s2", "s3", "sc", "st", "ld", "mu", "lm", "bad", "no", "bx", "lb",
            "hl", "un", "us", "tx", "nx", "nd", "nl", "dn", "sn", "./sh", "./bx", "./s1"}
MCAbsolute == [n \in MCNames |->
    CASE n = "./sh" -> "sh" [] n = "./bx" -> "bx" [] n = "./s1" -> "s1" [] OTHER -> n]

MCKind ==
    [f \in {"none", "sh", "s1", "s2", "s3", "sc", "st", "ld", "old ld", "mu", "lm", "bad", "bx",
            "lb", "hl", "un", "us", "tx", "nx", "nd", "nl", "dn", "sn", "host sh", "host ld", "host lm"} |->
        CASE f = "none" -> File("none", "", NoArg, NoArg, FALSE, TRUE)
          [] f \in {"sh", "bx", "host sh"} -> Dynamic("ld")
          [] f = "s1" -> Script("sh", "-x")
          [] f = "s2" -> Script("s1", NoArg)
          [] f = "s3" -> Script("s2", NoArg)
          [] f = "sc" -> File("script", "sh", "-x\r", "-x", FALSE, TRUE)
          [] f = "st" -> File("static", "", NoArg, NoArg, FALSE, TRUE)
          [] f = "us" -> File("static", "", NoArg, NoArg, FALSE, FALSE)
          [] f = "un" -> File("dynamic", "ld", NoArg, NoArg, FALSE, FALSE)
          [] f \in {"ld", "host ld", "lb"} -> Loader(TRUE)
          [] f \in {"lm", "host lm", "old ld"} -> Loader(FALSE)
          [] f = "mu" -> Dynamic("lm")
          [] f = "bad" -> Dynamic("no")
          [] f = "hl" -> Dynamic("lb")
          [] f = "nx" -> NoX(File("static", "", NoArg, NoArg, FALSE, TRUE))
          [] f = "nd" -> NoX(Dynamic("ld"))
          [] f = "nl" -> NoX(Loader(TRUE))
          [] f = "dn" -> Dynamic("nl")
          [] f = "sn" -> Script("nx", NoArg)
          [] f = "tx" -> File("text", "", NoArg, NoArg, FALSE, TRUE)]

MCBound == {"bx", "lb"}
MCFiles == [p \in Places |->
    IF p[1] = "host"
    THEN CASE p[2] = "sh" -> "host sh" [] p[2] = "ld" -> "host ld" [] p[2] = "lm" -> "host lm"
           [] p[2] \in MCBound -> p[2] [] OTHER -> "none"
    ELSE IF p[2] \in MCBound \cup {"no", "./sh", "./bx", "./s1"} THEN "none" ELSE p[2]]
MCUpgrades == {<<<<"root", "ld">>, "old ld">>, <<<<"root", "ld">>, "ld">>}

MCArgvs == {<<>>, <<"a">>, <<"a", "sh">>, <<"a", "b", "c">>}
MCBytes == [s \in MCNames \cup {"a", "b", "c", "-x", "-x\r", "--argv0"} |->
    CASE s = "--argv0" -> 7 [] s \in {"ld", "lm", "lb"} -> 13 [] s \in {"a", "b", "c"} -> 1
      [] OTHER -> 5]
=============================================================================
