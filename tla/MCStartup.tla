----------------------------- MODULE MCStartup -----------------------------
(* Instances of Startup for TLC.                                            *)
EXTENDS Startup

CONSTANTS s1, s2, b
MCProcesses == {s1, s2, b}
MCShipped == [r \in {OldRelease, NewRelease} |-> IF r = OldRelease THEN 3 ELSE 5]
MCStartsAs ==
    (s1 :> {<<OldRelease, "run">>, <<OldRelease, "run --migrate">>})
      @@ (s2 :> {<<NewRelease, "run">>, <<NewRelease, "run --migrate">>})
      @@ (b :> {<<NewRelease, "migrate">>, <<NewRelease, "bootstrap">>})
=============================================================================
