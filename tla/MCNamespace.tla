---------------------------- MODULE MCNamespace ----------------------------
EXTENDS Namespace
Abs(s) == [abs |-> TRUE, to |-> s]
Rel(s) == [abs |-> FALSE, to |-> s]

(* the root /R holds a, a/b, d and the symlinks l -> /a, a/m -> ../l/b,    *)
(* o -> o; outside it are /H, whose k -> /l/b, and /proc                   *)
MCDirs == {Slash, <<"R">>, <<"R", "a">>, <<"R", "a", "b">>, <<"R", "a", "d">>, <<"R", "d">>,
           <<"H">>, <<"H", "b">>, <<"proc">>, <<"proc", "guest">>, <<"proc", "tracer">>}
MCLink == (<<"R", "l">> :> Abs(<<"a">>)) @@ (<<"R", "a", "m">> :> Rel(<<"..", "l", "b">>))
          @@ (<<"R", "o">> :> Rel(<<"o">>)) @@ (<<"H", "k">> :> Abs(<<"l", "b">>))
MCRoot == <<"R">>
MCStartup == {<<>>, <<[host |-> <<"H">>, guest |-> <<"a", "b">>]>>,
              <<[host |-> <<"H">>, guest |-> <<"a">>], [host |-> <<"R", "d">>, guest |-> <<"a", "b">>]>>,
              <<[host |-> <<"R", "d">>, guest |-> <<"a", "b">>], [host |-> <<"H">>, guest |-> <<"a">>]>>}
MCTracerCwd == <<"H">>
MCGiven ==
    [use |-> {Abs(<<"a", "m", "k">>), Abs(<<"l", "m", "..", "">>), Abs(<<"o">>), Abs(<<"d", "self", "b">>),
              Abs(<<"b", "k">>), Abs(<<"a", "b", ".", "b", "b", "b">>), Rel(<<"..", "l">>)},
     chdir |-> {Abs(<<"l">>), Rel(<<"..">>)},
     chroot |-> {Abs(<<"a">>), Rel(<<"b">>)},
     mount |-> {Abs(<<"d">>), Abs(<<"a", "b">>)}]
MCSources == {Abs(<<"l">>), Rel(<<"b">>)}
MCProbes == {Slash, <<"a">>, <<"b">>, <<"d">>, <<"a", "b">>, <<"d", "b">>}
=============================================================================
