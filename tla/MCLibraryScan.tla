--------------------------- MODULE MCLibraryScan ---------------------------
(* A system with two names for its directory and one for a directory that  *)
(* it shares with another system, as gbc has, and one that lists             *)
(* directories, as scummvm does.                                             *)
EXTENDS LibraryScan, TLC

CONSTANTS gbc, scummvm

Alias(n, sh) == [name |-> n, shared |-> sh]
MCSystemList == <<
    [id |-> gbc, enabled |-> TRUE,
     aliases |-> <<Alias("GBC", FALSE), Alias("GB", TRUE), Alias("gbc", FALSE)>>,
     exts |-> {"gbc", "zip"}, scanDirs |-> FALSE],
    [id |-> scummvm, enabled |-> TRUE, aliases |-> <<Alias("SCUMMVM", FALSE), Alias("scummvm", FALSE)>>,
     exts |-> {"svm"}, scanDirs |-> TRUE]>>
MCDirOf == [a \in {"GBC", "GB", "gbc", "SCUMMVM", "scummvm"} |->
              CASE a = "GB" -> "d1" [] a \in {"GBC", "gbc"} -> "d2" [] OTHER -> "d3"]

F(d, s, n, e, h) == [dir |-> d, sub |-> s, name |-> n, ext |-> e, hidden |-> h]
MCFiles == {F("d1", "x", "a", "zip", FALSE), F("d1", NoSub, "b", "gbc", FALSE),
            F("d2", NoSub, "a", "zip", FALSE),
            F("d3", "x", "c", "svm", FALSE), F("d3", NoSub, "_c", "svm", TRUE)}
MCFirstFiles == MCFiles \ {F("d1", "x", "a", "zip", FALSE)}
Symmetry == Permutations(Scanners)
=============================================================================
