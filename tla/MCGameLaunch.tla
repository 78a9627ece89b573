---------------------------- MODULE MCGameLaunch ----------------------------
(* Instance of GameLaunch: a release with the default profile alone, one   *)
(* with another that PicoArch has too; two levels of volume and brightness.*)
EXTENDS GameLaunch, TLC

MCFloor == [volume |-> 0, brightness |-> 1]
MCTop == [volume |-> 1, brightness |-> 2]
MCReleases == {{"p"}, {"p", "q"}}
MCSymmetry == Permutations(Games)
MCCompanion == [q |-> "pico q"]
=============================================================================
