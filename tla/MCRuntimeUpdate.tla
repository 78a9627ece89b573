-------------------------- MODULE MCRuntimeUpdate --------------------------
(* Four paths and three releases.  The tool changes in v2, the plugin is    *)
(* in v1 and v3 only, so deltas install, replace, delete and add paths;      *)
(* VERSION sorts before checksums.sha256 as in the code.                     *)
EXTENDS RuntimeUpdateInv

Tool == 1
Plugin == 2
VERSION == 3
checksums == 4

MCFiles == {Tool, Plugin, VERSION, checksums}
MCMetadataLast == {VERSION, checksums}
MCCritical == {Tool, VERSION}
MCContents == Versions \cup {"t1", "t2", "p1"}
MCRelease ==
    [v \in Versions |->
        [f \in MCFiles |->
            CASE f = Tool   -> IF v = "v1" THEN "t1" ELSE "t2"
              [] f = Plugin -> IF v = "v2" THEN Absent ELSE "p1"
              [] OTHER      -> v]]
=============================================================================
