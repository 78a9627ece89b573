------------------------- MODULE RuntimeUpdateInv -------------------------
(***************************************************************************)
(* The inductive invariant behind the safety properties of RuntimeUpdate.  *)
(* Its parts say what journal, backup and tree have to do with each other  *)
(* at every step; the properties only speak of the frontend's starts.      *)
(***************************************************************************)
EXTENDS RuntimeUpdate

Target(f) == Goal(base, txn)[f]

\* a tree holds every file that the version it reports ships
Released(t) ==
    /\ t[VersionFile] \in Versions
    /\ \A f \in Shipped(t[VersionFile]) \ exposed : t[f] = Release[t[VersionFile]][f]

\* the stages a recorded path goes through: in place, moved aside, replaced
Shape(f) ==
    \/ live[f] = base[f] /\ backup[f] = Absent
    \/ live[f] \in {Absent, Target(f)} /\ backup[f] = base[f]

Untouched(f) == live[f] = base[f] /\ backup[f] = Absent

TxnOK ==
    /\ status = "none" => /\ txn = NoPackage /\ logged = {} /\ live = base /\ ~pending
    /\ status # "none" =>
          /\ txn \in Packages /\ logged \subseteq Ops(txn)
          /\ txn.version # base[VersionFile]
          /\ txn.source \in {AnyVersion, base[VersionFile]}

RecordsOK ==
    /\ \A f \in logged : f \in existed <=> base[f] # Absent
    /\ pending \/ status \in {"pending_health", "healthy"} => logged = Ops(txn)

CopiesOK ==
    /\ \A f \in Files : backup[f] \in {Absent, base[f]}
    /\ \A f \in Files \ logged : Untouched(f)
    /\ status # "none" => \A f \in Files : live[f] \in {Absent, base[f], Target(f)}

ArmedOK ==
    /\ RollbackArmed \/ pc = "flag" => \A f \in logged \ exposed : Shape(f)
    /\ RollbackArmed =>
          \A f \in logged \ exposed :
             Endangered(f) => \/ pc = "aside" /\ f \in todo
                              \/ pc \in {"remove", "restore"} /\ f \notin todo
                              \/ pc = "unpend"

RollbackOK ==
    /\ pc \in {"remove", "restore"} =>
          /\ RollbackArmed /\ todo \subseteq logged
          /\ \A f \in logged \ (todo \cup exposed) : Untouched(f)
          /\ VersionFile \in logged \ todo => live[VersionFile] # txn.version
    /\ pc = "restore" =>
          \A f \in todo : Last(f) /\ f \in txn.installs => live[f] = Absent
    /\ pc = "unpend" => status = "rolled_back"
    /\ status = "rolled_back" => \A f \in Files \ exposed : Untouched(f)

ApplyOK ==
    /\ pc \in {"log", "aside", "place"} =>
          /\ status = "applying" /\ ~pending
          /\ logged \cup todo = Ops(txn)
          /\ \A f \in logged \ todo : live[f] = Target(f) /\ backup[f] = base[f]
          /\ \A f \in logged \ todo, g \in todo : f < g
    /\ pc = "log" => logged \cap todo = {}
    /\ pc \in {"aside", "place"} =>
          /\ logged \cap todo # {}
          /\ \A f \in logged \cap todo : First(f)
    /\ pc = "aside" => \A f \in logged \cap todo : Untouched(f)
    /\ pc = "place" => \A f \in logged \cap todo : live[f] = Absent /\ backup[f] = base[f]
    /\ pc = "flag" => status = "pending_health" /\ ~pending
    /\ pc = "consume" => status = "pending_health" /\ pending

TreeOK ==
    /\ \/ pc \in {"flag", "consume"}
       \/ pc \in {"launch", "session"} /\ pending
       \/ ~pending /\ status \in {"pending_health", "healthy"}
       => \A f \in Files \ exposed : live[f] = Target(f)
    /\ pc = "flag" => \A f \in logged \ exposed : backup[f] = base[f]
    /\ pc \in {"launch", "session"} =>
          \/ \A f \in Files \ exposed : live[f] = base[f]
          \/ \A f \in Files \ exposed : live[f] = Target(f)
    /\ VersionFile \notin exposed => Released(base)

ControlOK ==
    /\ pc \in {"request", "clear", "open"} => ~RollbackArmed
    /\ pc \in {"clear", "open"} => request # NoPackage /\ Compatible(request)
    /\ pc = "open" => \A f \in Files : backup[f] = Absent
    /\ frontend # "down" \/ confirm # "over" \/ lock = "ui" => pc = "session"
    /\ confirm \in {"journal", "unpend"} => pending
    /\ confirm = "unpend" => status = "healthy"

IInv ==
    /\ TypeOK /\ TxnOK /\ RecordsOK /\ CopiesOK /\ ArmedOK /\ RollbackOK
    /\ ApplyOK /\ TreeOK /\ ControlOK /\ VersionCommitsLast
=============================================================================
