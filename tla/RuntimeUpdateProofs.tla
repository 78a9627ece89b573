----------------------- MODULE RuntimeUpdateProofs -----------------------
(***************************************************************************)
(* The safety properties of RuntimeUpdate for every set of files and       *)
(* releases: IInv is inductive, and it implies them.                       *)
(***************************************************************************)
EXTENDS RuntimeUpdateInv, TLAPS

USE FilesAssumption, ReleaseAssumption, PackageAssumption

\* What the builder's packages guarantee: they install what the new release
\* ships, and a delta names every path on which the two releases differ.
LEMMA PackageFacts ==
    ASSUME NEW p \in Packages
    PROVE  /\ p.version \in Versions
           /\ p.installs \subseteq Files /\ p.deletes \subseteq Files
           /\ p.installs \cap p.deletes = {}
           /\ \A f \in p.installs : Release[p.version][f] # Absent
           /\ p.source # AnyVersion =>
                 /\ p.source \in Versions
                 /\ p.deletes \cap Shipped(p.version) = {}
                 /\ \A f \in Shipped(p.version) \ p.installs :
                       Release[p.source][f] = Release[p.version][f]
           /\ p.source = AnyVersion => p.installs = Shipped(p.version)
           /\ p.source # p.version => VersionFile \in p.installs
  <1>1. CASE \E v, w \in Versions : p = DeltaPackage(v, w)
    BY <1>1 DEF DeltaPackage, Shipped, Tree
  <1>2. CASE \E v \in Versions : p = FullPackage(v)
    BY <1>2 DEF FullPackage, Shipped, Tree
  <1>3. QED
    BY <1>1, <1>2 DEF Packages

------------------------------------------------------------------

-----------------------------------------------------------------------------
(* Abbreviations are expanded everywhere; Goal, Ops and Compatible are not. *)
USE DEF Target, Shape, Untouched, Released, RollbackArmed, Endangered,
        First, Last, InstalledVersion, Present, disk, journal, session, history

\* What Goal does at one path, for the journaled package.
LEMMA TargetFacts ==
    ASSUME TypeOK, TxnOK, status # "none"
    PROVE  /\ \A f \in Files :
                 /\ Goal(base, txn)[f] \in Contents \cup {Absent}
                 /\ f \notin Ops(txn) => Goal(base, txn)[f] = base[f]
                 /\ f \in txn.installs =>
                       /\ Goal(base, txn)[f] = Release[txn.version][f]
                       /\ Goal(base, txn)[f] # Absent
                 /\ f \in Ops(txn) /\ f \notin txn.installs =>
                       Goal(base, txn)[f] = Absent
           /\ VersionFile \in txn.installs
           /\ Goal(base, txn)[VersionFile] = txn.version
           /\ txn.version \in Contents /\ txn.version # Absent
  <1>1. /\ txn \in Packages /\ txn.source # txn.version
    BY PackageFacts DEF TypeOK, TxnOK
  <1>2. /\ txn.version \in Versions /\ VersionFile \in txn.installs
        /\ txn.installs \subseteq Files
        /\ \A f \in txn.installs : Release[txn.version][f] # Absent
    BY <1>1, PackageFacts
  <1>3. \A f \in Files : Release[txn.version][f] \in Contents \cup {Absent}
    BY <1>2 DEF Tree
  <1>4. QED
    BY <1>2, <1>3 DEF Goal, Ops, TypeOK, Tree


\* The packages the builder makes of two releases turn one into the other.
LEMMA ReleasedGoal ==
    ASSUME IInv, status # "none", VersionFile \notin exposed, Released(base)
    PROVE  Released(Goal(base, txn))
  <1>1. /\ txn \in Packages
        /\ txn.source \in {AnyVersion, base[VersionFile]}
        /\ base[VersionFile] \in Versions /\ base[VersionFile] # AnyVersion
    BY DEF IInv, TxnOK
  <1>2. /\ txn.version \in Versions
        /\ txn.source # AnyVersion =>
              /\ txn.deletes \cap Shipped(txn.version) = {}
              /\ \A f \in Shipped(txn.version) \ txn.installs :
                    Release[txn.source][f] = Release[txn.version][f]
        /\ txn.source = AnyVersion => txn.installs = Shipped(txn.version)
    BY <1>1, PackageFacts
  <1>3. Goal(base, txn)[VersionFile] = txn.version
    BY TargetFacts DEF IInv
  <1>4. ASSUME NEW f \in Shipped(txn.version) \ exposed
        PROVE  Goal(base, txn)[f] = Release[txn.version][f]
    <2>1. CASE f \in txn.installs
      BY <2>1, TargetFacts DEF IInv, Shipped
    <2>2. CASE f \notin txn.installs
      <3>1. txn.source = base[VersionFile] /\ f \notin txn.deletes
        BY <2>2, <1>1, <1>2
      <3>2. Release[base[VersionFile]][f] = Release[txn.version][f]
        BY <3>1, <2>2, <1>1, <1>2
      <3>3. f \in Shipped(base[VersionFile]) \ exposed
        BY <3>2 DEF Shipped
      <3>4. QED
        BY <3>1, <3>2, <3>3, <2>2, TargetFacts DEF Ops, IInv, Shipped
    <2>3. QED
      BY <2>1, <2>2
  <1>5. QED
    BY <1>2, <1>3, <1>4

-----------------------------------------------------------------------------
(* The steps that move files. *)

\* Removing an installed file: VERSION goes first, so it never outlives the
\* new files.
LEMMA RollbackRemoveTree ==
    ASSUME IInv, NEW f \in Files, RollbackRemove(f)
    PROVE  /\ TypeOK' /\ RollbackOK' /\ VersionCommitsLast'
  <1> USE DEF RollbackRemove
  <1>1. TypeOK'
    BY DEF IInv, TypeOK, Tree, BootSteps
  <1>2. status # "none"
    BY DEF IInv, TxnOK, RollbackOK
  <1>3. VersionFile \in txn.installs /\ txn.version # Absent
    BY <1>2, TargetFacts DEF IInv
  <1>4. RollbackOK'
    <2>1. (VersionFile \in logged \ todo => live[VersionFile] # txn.version)'
      BY <1>3 DEF IInv, RollbackOK, TypeOK, Tree
    <2>2. (status = "rolled_back" => \A g \in Files \ exposed : Untouched(g))'
      BY DEF IInv, RollbackOK, TypeOK, Tree, TxnOK, RecordsOK, ArmedOK
    <2>3. (\A g \in logged \ (todo \cup exposed) : Untouched(g))'
      BY DEF IInv, RollbackOK, TypeOK, Tree
    <2>4. (\A g \in todo : Last(g) /\ g \in txn.installs => live[g] = Absent)'
      BY DEF IInv, RollbackOK, TypeOK, Tree
    <2>5. QED
      BY <2>1, <2>2, <2>3, <2>4 DEF IInv, RollbackOK
  <1>5. VersionCommitsLast'
    <2>1. CASE live[VersionFile] = txn.version /\ f # VersionFile
      <3>1. VersionFile \in todo
        BY <2>1, <1>2 DEF IInv, RollbackOK, CopiesOK, TxnOK
      <3>2. f \in MetadataLast
        BY <3>1 DEF IInv, TypeOK
      <3>3. QED
        BY <3>2, <2>1, <1>2 DEF IInv, VersionCommitsLast, TxnOK, TypeOK, Tree
    <2>2. CASE live[VersionFile] # txn.version \/ f = VersionFile
      BY <2>2, <1>3 DEF VersionCommitsLast, IInv, TypeOK, Tree
    <2>3. QED
      BY <2>1, <2>2
  <1>6. QED
    BY <1>1, <1>4, <1>5

\* Putting a file back: its journal record and its copy agree with base.
LEMMA RollbackRestoreTree ==
    ASSUME IInv, NEW f \in Files, RollbackRestore(f)
    PROVE  /\ TypeOK' /\ CopiesOK' /\ ArmedOK' /\ RollbackOK' /\ VersionCommitsLast'
  <1> USE DEF RollbackRestore
  <1>1. TypeOK'
    BY DEF IInv, TypeOK, Tree, BootSteps
  <1>2. status # "none" /\ f \in logged /\ f \in todo /\ RollbackArmed
    BY DEF IInv, TxnOK, RollbackOK
  <1>3. /\ VersionFile \in txn.installs /\ txn.version # Absent
        /\ f \in txn.installs => Goal(base, txn)[f] # Absent
        /\ f \notin txn.installs => Goal(base, txn)[f] = Absent
    BY <1>2, TargetFacts DEF IInv, TxnOK
  <1>4. /\ live' = [live EXCEPT ![f] = live'[f]]
        /\ backup' = [backup EXCEPT ![f] = Absent]
        /\ live'[f] \in {live[f], backup[f]}
        /\ live'[f] # live[f] => live'[f] = base[f] /\ backup[f] # Absent
    BY DEF IInv, TypeOK, Tree, CopiesOK, RecordsOK
  <1>5. f \notin exposed => live'[f] = base[f]
    BY <1>2, <1>3 DEF IInv, TypeOK, Tree, CopiesOK, RecordsOK, ArmedOK, RollbackOK
  <1>6. CopiesOK'
    BY <1>2, <1>4 DEF IInv, TypeOK, Tree, CopiesOK
  <1>7. ArmedOK'
    BY <1>1, <1>2, <1>4, <1>5 DEF IInv, TypeOK, Tree, ArmedOK
  <1>8. RollbackOK'
    <2>1. (VersionFile \in logged \ todo => live[VersionFile] # txn.version)'
      BY <1>2, <1>3, <1>4 DEF IInv, RollbackOK, TypeOK, Tree, TxnOK
    <2>2. (status = "rolled_back" => \A g \in Files \ exposed : Untouched(g))'
      BY <1>2, <1>4, <1>5 DEF IInv, RollbackOK, TypeOK, Tree
    <2>3. (\A g \in logged \ (todo \cup exposed) : Untouched(g))'
      BY <1>4, <1>5 DEF IInv, RollbackOK, TypeOK, Tree
    <2>4. QED
      BY <2>1, <2>2, <2>3 DEF IInv, RollbackOK
  <1>9. VersionCommitsLast'
    <2>1. CASE live[VersionFile] = txn.version /\ f # VersionFile
      <3>1. VersionFile \in todo
        BY <2>1, <1>2 DEF IInv, RollbackOK, CopiesOK, TxnOK
      <3>2. f \in MetadataLast
        BY <3>1 DEF IInv, TypeOK
      <3>3. QED
        BY <3>2, <2>1, <1>2, <1>4 DEF IInv, VersionCommitsLast, TxnOK, TypeOK, Tree
    <2>2. CASE live[VersionFile] # txn.version \/ f = VersionFile
      BY <2>2, <1>2, <1>3, <1>4 DEF VersionCommitsLast, IInv, TypeOK, Tree,
         RollbackOK, TxnOK
    <2>3. QED
      BY <2>1, <2>2
  <1>10. QED
    BY <1>1, <1>6, <1>7, <1>8, <1>9

\* A failed rollback leaves every unexposed path as it was before.
LEMMA RollbackFailsTree ==
    ASSUME IInv, RollbackFails
    PROVE  TreeOK'
  <1>1. status # "none"
    BY DEF IInv, RollbackFails, TxnOK, RollbackOK
  <1>2. \A f \in (Files \ exposed)' : live[f] = base[f]
    BY DEF IInv, RollbackFails, CopiesOK
  <1>3. pending \/ status \in {"pending_health", "healthy"} =>
           \A f \in (Files \ exposed)' : Goal(base, txn)[f] = base[f]
    BY <1>1, TargetFacts DEF IInv, RollbackFails, RecordsOK
  <1>4. QED
    BY <1>1, <1>2, <1>3 DEF IInv, RollbackFails, TreeOK

\* A new transaction starts on a released tree: the tree the last one left.
LEMMA OpenJournalTree ==
    ASSUME IInv, OpenJournal
    PROVE  /\ TypeOK' /\ TreeOK'
  <1> USE DEF OpenJournal
  <1>1. TypeOK'
    BY PackageFacts DEF IInv, TypeOK, Tree, BootSteps, Statuses, Ops, ControlOK
  <1>2. VersionFile \notin exposed => Released(live)
    <2>1. status = "none" => live = base
      BY DEF IInv, TxnOK
    <2>2. status # "none" => \/ \A f \in Files \ exposed : live[f] = base[f]
                            \/ \A f \in Files \ exposed : live[f] = Goal(base,
                               txn)[f]
      BY DEF IInv, TreeOK, RollbackOK, ControlOK, TypeOK, Statuses
    <2>3. ASSUME VersionFile \notin exposed, Released(base), status # "none"
          PROVE  Released(Goal(base, txn))
      BY <2>3, ReleasedGoal
    <2>4. ASSUME NEW t, VersionFile \notin exposed, Released(t),
                 \A f \in Files \ exposed : live[f] = t[f]
          PROVE  Released(live)
      BY <2>4 DEF Shipped
    <2>5. QED
      BY <2>1, <2>2, <2>3, <2>4 DEF IInv, TreeOK
  <1>3. TreeOK'
    BY <1>2 DEF TreeOK, IInv, ControlOK
  <1>4. QED
    BY <1>1, <1>3

\* Moving a file aside: the copy is complete before the path is empty.
LEMMA MoveAsideTree ==
    ASSUME IInv, NEW f \in Files, MoveAside(f)
    PROVE  /\ TypeOK' /\ CopiesOK' /\ ArmedOK' /\ ApplyOK' /\ VersionCommitsLast'
  <1> USE DEF MoveAside
  <1>1. TypeOK'
    BY DEF IInv, TypeOK, Tree, BootSteps
  <1>2. /\ logged \cap todo = {f} /\ status = "applying" /\ ~pending
        /\ live[f] = base[f] /\ backup[f] = Absent
    BY DEF IInv, ApplyOK, TypeOK
  <1>3. /\ live' = [live EXCEPT ![f] = Absent]
        /\ backup' = [backup EXCEPT ![f] = base[f]]
    BY <1>2 DEF IInv, TypeOK, Tree, RecordsOK
  <1>4. /\ VersionFile \in txn.installs /\ txn.version # Absent
    BY <1>2, TargetFacts DEF IInv
  <1>5. CopiesOK'
    BY <1>2, <1>3 DEF IInv, TypeOK, Tree, CopiesOK
  <1>6. ArmedOK'
    BY <1>2, <1>3 DEF IInv, TypeOK, Tree, ArmedOK
  <1>7. ApplyOK'
    BY <1>2, <1>3 DEF IInv, TypeOK, Tree, ApplyOK
  <1>8. VersionCommitsLast'
    <2>1. CASE live[VersionFile] = txn.version /\ f # VersionFile
      <3>1. VersionFile \in logged \ todo
        BY <2>1, <1>2 DEF IInv, CopiesOK, TxnOK
      <3>2. f \in MetadataLast
        <4>1. VersionFile < f
          BY <3>1 DEF IInv, ApplyOK
        <4>2. f \notin MetadataLast => f < VersionFile
          OBVIOUS
        <4>3. QED
          BY <4>1, <4>2
      <3>3. QED
        BY <3>2, <2>1, <1>2, <1>3 DEF IInv, VersionCommitsLast, TxnOK, TypeOK, Tree
    <2>2. CASE live[VersionFile] # txn.version \/ f = VersionFile
      BY <2>2, <1>3, <1>4 DEF VersionCommitsLast, IInv, TypeOK, Tree
    <2>3. QED
      BY <2>1, <2>2
  <1>9. QED
    BY <1>1, <1>5, <1>6, <1>7, <1>8

\* Placing a file: VERSION is placed after every file that it stands for.
LEMMA PlaceTree ==
    ASSUME IInv, NEW f \in Files, Place(f)
    PROVE  /\ TypeOK' /\ CopiesOK' /\ ArmedOK' /\ ApplyOK' /\ VersionCommitsLast'
  <1> USE DEF Place
  <1>1. /\ logged \cap todo = {f} /\ status = "applying" /\ ~pending
        /\ live[f] = Absent /\ backup[f] = base[f] /\ f \in Ops(txn)
        /\ logged \cup todo = Ops(txn)
    BY DEF IInv, ApplyOK, TypeOK
  <1>2. /\ VersionFile \in txn.installs
        /\ Goal(base, txn)[VersionFile] = txn.version /\ txn.version # Absent
        /\ \A g \in Files : Goal(base, txn)[g] \in Contents \cup {Absent}
        /\ \A g \in Files \ Ops(txn) : Goal(base, txn)[g] = base[g]
        /\ f \in txn.installs => Goal(base, txn)[f] = Release[txn.version][f]
        /\ f \notin txn.installs => Goal(base, txn)[f] = Absent
    BY <1>1, TargetFacts DEF IInv
  <1>3. live' = [live EXCEPT ![f] = Goal(base, txn)[f]]
    BY <1>1, <1>2 DEF IInv, TypeOK, Tree
  <1>4. TypeOK'
    BY <1>2, <1>3 DEF IInv, TypeOK, Tree, BootSteps
  <1>5. CopiesOK'
    BY <1>1, <1>3 DEF IInv, TypeOK, Tree, CopiesOK
  <1>6. ArmedOK'
    BY <1>1, <1>3 DEF IInv, TypeOK, Tree, ArmedOK, RecordsOK
  <1>7. ApplyOK'
    BY <1>1, <1>3 DEF IInv, TypeOK, Tree, ApplyOK
  <1>8. VersionCommitsLast'
    <2>1. CASE f = VersionFile
      <3>1. \A g \in Files \ MetadataLast : g \notin todo
        BY <2>1 DEF IInv, TypeOK
      <3>2. \A g \in Files \ MetadataLast : live[g] = Goal(base, txn)[g]
        BY <3>1, <1>1, <1>2 DEF IInv, ApplyOK, CopiesOK
      <3>3. QED
        BY <2>1, <3>2, <1>3 DEF VersionCommitsLast, IInv, TypeOK, Tree
    <2>2. CASE f # VersionFile
      BY <2>2, <1>3 DEF VersionCommitsLast, IInv, TypeOK, Tree
    <2>3. QED
      BY <2>1, <2>2
  <1>9. QED
    BY <1>4, <1>5, <1>6, <1>7, <1>8

\* When the loop of apply_runtime is done, the tree is the new release.
LEMMA SealedTree ==
    ASSUME IInv, pc = "log", todo = {}
    PROVE  \A f \in Files : live[f] = Goal(base, txn)[f]
  <1>1. status # "none" /\ logged = Ops(txn)
    BY DEF IInv, ApplyOK
  <1>2. \A f \in Files \ logged : live[f] = Goal(base, txn)[f]
    BY <1>1, TargetFacts DEF IInv, CopiesOK
  <1>3. QED
    BY <1>2 DEF IInv, ApplyOK, TypeOK

-----------------------------------------------------------------------------
(* Every step keeps IInv. *)

\* Steps that leave the disk and the history alone.
LEMMA Frame ==
    ASSUME IInv, UNCHANGED <<live, backup, status, txn, logged, existed, pending,
                            base, exposed>>
    PROVE  (TxnOK /\ RecordsOK /\ CopiesOK /\ VersionCommitsLast)'
  <1>1. TxnOK' /\ RecordsOK'
    BY DEF IInv, TxnOK, RecordsOK
  <1>2. CopiesOK' /\ VersionCommitsLast'
    BY DEF IInv, CopiesOK, VersionCommitsLast
  <1>3. QED
    BY <1>1, <1>2

\* The session's steps that only move control: the frontend, the lock, the poll.
LEMMA SessionSteps ==
    ASSUME IInv,
           \/ FrontendReady \/ ConfirmStart \/ ConfirmBusy \/ ConfirmTimeout
           \/ ConfirmFails \/ RequestStart \/ RequestNone
    PROVE  IInv'
  <1>1. UNCHANGED <<live, backup, status, txn, logged, existed, pending, request,
                    base, exposed, pc, todo>>
    BY DEF FrontendReady, ConfirmStart, ConfirmBusy, ConfirmTimeout, ConfirmFails,
       RequestStart, RequestNone
  <1>2. (TxnOK /\ RecordsOK /\ CopiesOK /\ VersionCommitsLast)'
    BY <1>1, Frame
  <1>3. (ArmedOK /\ RollbackOK)'
    BY <1>1 DEF IInv, ArmedOK, RollbackOK
  <1>4. (ApplyOK /\ TreeOK)'
    BY <1>1 DEF IInv, ApplyOK, TreeOK
  <1>5. CASE FrontendReady
    BY <1>5, <1>1, <1>2, <1>3, <1>4 DEF FrontendReady, IInv, TypeOK, ControlOK,
       Compatible
  <1>6. CASE ConfirmStart
    BY <1>6, <1>1, <1>2, <1>3, <1>4 DEF ConfirmStart, IInv, TypeOK, ControlOK,
       Compatible
  <1>7. CASE ConfirmBusy
    BY <1>7, <1>1, <1>2, <1>3, <1>4 DEF ConfirmBusy, IInv, TypeOK, ControlOK,
       Compatible
  <1>8. CASE ConfirmTimeout
    BY <1>8, <1>1, <1>2, <1>3, <1>4 DEF ConfirmTimeout, IInv, TypeOK, ControlOK,
       Compatible
  <1>9. CASE ConfirmFails
    BY <1>9, <1>1, <1>2, <1>3, <1>4 DEF ConfirmFails, IInv, TypeOK, ControlOK,
       Compatible
  <1>10. CASE RequestStart
    BY <1>10, <1>1, <1>2, <1>3, <1>4 DEF RequestStart, IInv, TypeOK, ControlOK,
       Compatible
  <1>11. CASE RequestNone
    BY <1>11, <1>1, <1>2, <1>3, <1>4 DEF RequestNone, IInv, TypeOK, ControlOK,
       Compatible
  <1>12. QED
    BY <1>5, <1>6, <1>7, <1>8, <1>9, <1>10, <1>11

\* Power may go anywhere: what the next rollback would delete is exposed.
LEMMA PowerOffKeeps ==
    ASSUME IInv, PowerOff
    PROVE  IInv'
  <1> USE DEF PowerOff
  <1>1. (TypeOK /\ TxnOK /\ RecordsOK /\ CopiesOK)'
    BY DEF IInv, TypeOK, TxnOK, RecordsOK, CopiesOK
  <1>2. (ArmedOK /\ RollbackOK /\ ApplyOK /\ TreeOK)'
    BY DEF IInv, ArmedOK, RollbackOK, ApplyOK, TreeOK
  <1>3. (ControlOK /\ VersionCommitsLast)'
    BY DEF IInv, ControlOK, VersionCommitsLast
  <1>4. QED
    BY <1>1, <1>2, <1>3 DEF IInv

\* Power-on starts with the recovery of the last boot.
LEMMA PowerOnKeeps ==
    ASSUME IInv, PowerOn
    PROVE  IInv'
  <1> USE DEF PowerOn
  <1>1. (TxnOK /\ RecordsOK /\ CopiesOK /\ VersionCommitsLast)'
    BY Frame
  <1>2. TypeOK'
    BY DEF IInv, TypeOK, BootSteps
  <1>3. (ArmedOK /\ RollbackOK /\ ApplyOK /\ TreeOK)'
    BY DEF IInv, ArmedOK, RollbackOK, ApplyOK, TreeOK
  <1>4. ControlOK'
    BY DEF IInv, ControlOK
  <1>5. QED
    BY <1>1, <1>2, <1>3, <1>4 DEF IInv

\* Recovery starts a rollback exactly when the journal or the flag asks for one.
LEMMA RecoverPriorRuntimeKeeps ==
    ASSUME IInv, RecoverPriorRuntime
    PROVE  IInv'
  <1> USE DEF RecoverPriorRuntime
  <1>1. (TxnOK /\ RecordsOK /\ CopiesOK /\ VersionCommitsLast)'
    BY Frame
  <1>2. TypeOK'
    <2>1. /\ pc' \in BootSteps
          /\ todo' \subseteq Files /\ resume' \in {"request", "launch"}
      BY DEF IInv, TypeOK, BootSteps
    <2>2. QED
      BY <2>1 DEF IInv, TypeOK
  <1>3. (ArmedOK /\ RollbackOK /\ ApplyOK /\ TreeOK)'
    BY DEF IInv, ArmedOK, RollbackOK, ApplyOK, TreeOK
  <1>4. ControlOK'
    BY DEF IInv, ControlOK
  <1>5. QED
    BY <1>1, <1>2, <1>3, <1>4 DEF IInv

\* rollback_runtime removes the installed file of the last record left.
LEMMA RollbackRemoveKeeps ==
    ASSUME IInv, NEW f \in Files, RollbackRemove(f)
    PROVE  IInv'
  <1> USE DEF RollbackRemove
  <1>1. (TypeOK /\ RollbackOK /\ VersionCommitsLast)'
    BY RollbackRemoveTree
  <1>2. TxnOK'
    BY DEF IInv, TxnOK, RollbackOK
  <1>3. CopiesOK'
    BY DEF IInv, CopiesOK, RollbackOK
  <1>4. ArmedOK'
    BY DEF IInv, ArmedOK, RecordsOK
  <1>5. TreeOK'
    BY DEF IInv, TreeOK, RollbackOK
  <1>6. (RecordsOK /\ ApplyOK /\ ControlOK)'
    BY DEF IInv, RecordsOK, ApplyOK, ControlOK
  <1>7. QED
    BY <1>1, <1>2, <1>3, <1>4, <1>5, <1>6 DEF IInv

\* rollback_runtime puts the copy back.
LEMMA RollbackRestoreKeeps ==
    ASSUME IInv, NEW f \in Files, RollbackRestore(f)
    PROVE  IInv'
  <1> USE DEF RollbackRestore
  <1>1. (TypeOK /\ CopiesOK /\ ArmedOK /\ RollbackOK /\ VersionCommitsLast)'
    BY RollbackRestoreTree
  <1>2. TxnOK'
    BY DEF IInv, TxnOK, RollbackOK
  <1>3. TreeOK'
    BY DEF IInv, TreeOK, RollbackOK
  <1>4. (RecordsOK /\ ApplyOK /\ ControlOK)'
    BY DEF IInv, RecordsOK, ApplyOK, ControlOK
  <1>5. QED
    BY <1>1, <1>2, <1>3, <1>4 DEF IInv

\* The journal says rolled_back once every record is handled.
LEMMA RollbackJournalKeeps ==
    ASSUME IInv, RollbackJournal
    PROVE  IInv'
  <1> USE DEF RollbackJournal
  <1>1. TypeOK'
    BY DEF IInv, TypeOK, BootSteps, Statuses
  <1>2. TxnOK'
    BY DEF IInv, TxnOK, RollbackOK
  <1>3. CopiesOK'
    BY DEF IInv, CopiesOK, TxnOK
  <1>4. RollbackOK'
    BY DEF IInv, RollbackOK, CopiesOK
  <1>5. (RecordsOK /\ ArmedOK /\ ApplyOK /\ TreeOK)'
    BY DEF IInv, RecordsOK, ArmedOK, ApplyOK, TreeOK
  <1>6. (ControlOK /\ VersionCommitsLast)'
    BY DEF IInv, ControlOK, VersionCommitsLast
  <1>7. QED
    BY <1>1, <1>2, <1>3, <1>4, <1>5, <1>6 DEF IInv

\* The flag goes after the verdict.
LEMMA RollbackUnpendKeeps ==
    ASSUME IInv, RollbackUnpend
    PROVE  IInv'
  <1> USE DEF RollbackUnpend
  <1>1. TypeOK'
    <2>1. pending' \in BOOLEAN
      OBVIOUS
    <2>2. pc' \in BootSteps \cup {"off", "session"}
      BY DEF IInv, TypeOK, BootSteps
    <2>3. QED
      BY <2>1, <2>2 DEF IInv, TypeOK
  <1>2. ArmedOK'
    BY DEF IInv, ArmedOK, RollbackOK, TypeOK
  <1>3. RollbackOK'
    BY DEF IInv, RollbackOK, TypeOK
  <1>4. ApplyOK'
    BY DEF IInv, ApplyOK, TypeOK
  <1>5. TreeOK'
    BY DEF IInv, TreeOK, RollbackOK, TypeOK
  <1>6. ControlOK'
    BY DEF IInv, ControlOK, RollbackOK, TypeOK
  <1>7. (TxnOK /\ RecordsOK /\ CopiesOK /\ VersionCommitsLast)'
    BY DEF IInv, TxnOK, RecordsOK, CopiesOK, VersionCommitsLast
  <1>8. QED
    BY <1>1, <1>2, <1>3, <1>4, <1>5, <1>6, <1>7 DEF IInv

\* A rollback that stops half-way exposes every recorded path.
LEMMA RollbackFailsKeeps ==
    ASSUME IInv, RollbackFails
    PROVE  IInv'
  <1> USE DEF RollbackFails
  <1>1. (TreeOK)'
    BY RollbackFailsTree
  <1>2. TypeOK'
    BY DEF IInv, TypeOK, BootSteps
  <1>3. (TxnOK /\ RecordsOK /\ CopiesOK /\ ArmedOK)'
    BY DEF IInv, TxnOK, RecordsOK, CopiesOK, ArmedOK
  <1>4. (RollbackOK /\ ApplyOK /\ ControlOK /\ VersionCommitsLast)'
    BY DEF IInv, RollbackOK, ApplyOK, ControlOK, VersionCommitsLast
  <1>5. QED
    BY <1>1, <1>2, <1>3, <1>4 DEF IInv

\* Nothing is requested.
LEMMA NoRequestKeeps ==
    ASSUME IInv, NoRequest
    PROVE  IInv'
  <1> USE DEF NoRequest
  <1>1. (TxnOK /\ RecordsOK /\ CopiesOK /\ VersionCommitsLast)'
    BY Frame
  <1>2. TypeOK'
    BY DEF IInv, TypeOK, BootSteps
  <1>3. TreeOK'
    BY DEF IInv, TreeOK, RollbackOK, ControlOK, TxnOK, TypeOK, Statuses
  <1>4. (ArmedOK /\ RollbackOK /\ ApplyOK /\ ControlOK)'
    BY DEF IInv, ArmedOK, RollbackOK, ApplyOK, ControlOK
  <1>5. QED
    BY <1>1, <1>2, <1>3, <1>4 DEF IInv

\* A request that no longer fits leaves the tree alone.
LEMMA RejectRequestKeeps ==
    ASSUME IInv, RejectRequest
    PROVE  IInv'
  <1> USE DEF RejectRequest
  <1>1. (TxnOK /\ RecordsOK /\ CopiesOK /\ VersionCommitsLast)'
    BY Frame
  <1>2. TypeOK'
    BY DEF IInv, TypeOK, BootSteps
  <1>3. TreeOK'
    BY DEF IInv, TreeOK, RollbackOK, ControlOK, TxnOK, TypeOK, Statuses
  <1>4. (ArmedOK /\ RollbackOK /\ ApplyOK /\ ControlOK)'
    BY DEF IInv, ArmedOK, RollbackOK, ApplyOK, ControlOK
  <1>5. QED
    BY <1>1, <1>2, <1>3, <1>4 DEF IInv

\* A request is accepted for the release that is installed now.
LEMMA AcceptRequestKeeps ==
    ASSUME IInv, AcceptRequest
    PROVE  IInv'
  <1> USE DEF AcceptRequest
  <1>1. (TxnOK /\ RecordsOK /\ CopiesOK /\ VersionCommitsLast)'
    BY Frame
  <1>2. TypeOK'
    BY DEF IInv, TypeOK, BootSteps
  <1>3. ControlOK'
    BY DEF IInv, ControlOK, Compatible
  <1>4. (ArmedOK /\ RollbackOK /\ ApplyOK /\ TreeOK)'
    BY DEF IInv, ArmedOK, RollbackOK, ApplyOK, TreeOK
  <1>5. QED
    BY <1>1, <1>2, <1>3, <1>4 DEF IInv

\* The previous backup goes when no rollback needs it.
LEMMA ClearBackupKeeps ==
    ASSUME IInv, ClearBackup
    PROVE  IInv'
  <1> USE DEF ClearBackup
  <1>1. TypeOK'
    BY DEF IInv, TypeOK, Tree, BootSteps
  <1>2. ArmedOK'
    BY DEF IInv, ArmedOK, ControlOK
  <1>3. ControlOK'
    BY DEF IInv, ControlOK, Compatible
  <1>4. (TxnOK /\ RecordsOK /\ CopiesOK /\ RollbackOK)'
    BY DEF IInv, TxnOK, RecordsOK, CopiesOK, RollbackOK
  <1>5. (ApplyOK /\ TreeOK /\ VersionCommitsLast)'
    BY DEF IInv, ApplyOK, TreeOK, VersionCommitsLast
  <1>6. QED
    BY <1>1, <1>2, <1>3, <1>4, <1>5 DEF IInv

\* The new journal starts empty, over a released tree.
LEMMA OpenJournalKeeps ==
    ASSUME IInv, OpenJournal
    PROVE  IInv'
  <1> USE DEF OpenJournal
  <1>1. (TypeOK /\ TreeOK)'
    BY OpenJournalTree
  <1>2. TxnOK'
    BY DEF IInv, TxnOK, ControlOK, Compatible, TypeOK
  <1>3. RecordsOK'
    BY DEF IInv, RecordsOK, ControlOK
  <1>4. CopiesOK'
    BY DEF IInv, CopiesOK, ControlOK
  <1>5. ApplyOK'
    BY DEF IInv, ApplyOK, ControlOK
  <1>6. (ArmedOK /\ RollbackOK /\ ControlOK /\ VersionCommitsLast)'
    BY DEF IInv, ArmedOK, RollbackOK, ControlOK, VersionCommitsLast
  <1>7. QED
    BY <1>1, <1>2, <1>3, <1>4, <1>5, <1>6 DEF IInv

\* The record is written before the file is touched.
LEMMA LogOperationKeeps ==
    ASSUME IInv, NEW f \in Files, LogOperation(f)
    PROVE  IInv'
  <1> USE DEF LogOperation
  <1>1. TypeOK'
    BY DEF IInv, TypeOK, BootSteps
  <1>2. TxnOK'
    BY DEF IInv, TxnOK, ApplyOK
  <1>3. RecordsOK'
    BY DEF IInv, RecordsOK, ApplyOK, CopiesOK, TypeOK
  <1>4. ArmedOK'
    <2>1. status = "applying" /\ f \in todo /\ Untouched(f) /\ UNCHANGED <<live,
       backup>>
      BY DEF IInv, ApplyOK, CopiesOK
    <2>2. \A g \in logged \ exposed : Shape(g) /\ ~Endangered(g)
      BY <2>1 DEF IInv, ArmedOK
    <2>3. \A g \in logged \ exposed : Shape(g)' /\ (g # f => ~Endangered(g)')
      BY <2>1, <2>2
    <2>4. QED
      BY <2>1, <2>3 DEF ArmedOK
  <1>5. ApplyOK'
    BY DEF IInv, ApplyOK, CopiesOK
  <1>6. (CopiesOK /\ RollbackOK /\ TreeOK /\ ControlOK)'
    BY DEF IInv, CopiesOK, RollbackOK, TreeOK, ControlOK
  <1>7. VersionCommitsLast'
    BY DEF IInv, VersionCommitsLast
  <1>8. QED
    BY <1>1, <1>2, <1>3, <1>4, <1>5, <1>6, <1>7 DEF IInv

\* The original moves to the backup.
LEMMA MoveAsideKeeps ==
    ASSUME IInv, NEW f \in Files, MoveAside(f)
    PROVE  IInv'
  <1> USE DEF MoveAside
  <1>1. (TypeOK /\ CopiesOK /\ ArmedOK /\ ApplyOK /\ VersionCommitsLast)'
    BY MoveAsideTree
  <1>2. TxnOK'
    BY DEF IInv, TxnOK, ApplyOK
  <1>3. RollbackOK'
    BY DEF IInv, RollbackOK, ApplyOK
  <1>4. TreeOK'
    BY DEF IInv, TreeOK, ApplyOK
  <1>5. (RecordsOK /\ ControlOK)'
    BY DEF IInv, RecordsOK, ControlOK
  <1>6. QED
    BY <1>1, <1>2, <1>3, <1>4, <1>5 DEF IInv

\* The new file takes its place.
LEMMA PlaceKeeps ==
    ASSUME IInv, NEW f \in Files, Place(f)
    PROVE  IInv'
  <1> USE DEF Place
  <1>1. (TypeOK /\ CopiesOK /\ ArmedOK /\ ApplyOK /\ VersionCommitsLast)'
    BY PlaceTree
  <1>2. TxnOK'
    BY DEF IInv, TxnOK, ApplyOK
  <1>3. RollbackOK'
    BY DEF IInv, RollbackOK, ApplyOK
  <1>4. TreeOK'
    BY DEF IInv, TreeOK, ApplyOK
  <1>5. (RecordsOK /\ ControlOK)'
    BY DEF IInv, RecordsOK, ControlOK
  <1>6. QED
    BY <1>1, <1>2, <1>3, <1>4, <1>5 DEF IInv

\* An error in the loop turns to the rollback.
LEMMA ApplyFailsKeeps ==
    ASSUME IInv, ApplyFails
    PROVE  IInv'
  <1> USE DEF ApplyFails
  <1>1. TypeOK'
    <2>1. exposed' \subseteq Files /\ todo' \subseteq Files
      BY DEF IInv, TypeOK
    <2>2. QED
      BY <2>1 DEF IInv, TypeOK, BootSteps
  <1>2. RollbackOK'
    BY DEF IInv, RollbackOK, ApplyOK
  <1>3. (TxnOK /\ RecordsOK /\ CopiesOK /\ ArmedOK)'
    BY DEF IInv, TxnOK, RecordsOK, CopiesOK, ArmedOK
  <1>4. (ApplyOK /\ TreeOK /\ ControlOK /\ VersionCommitsLast)'
    BY DEF IInv, ApplyOK, TreeOK, ControlOK, VersionCommitsLast
  <1>5. QED
    BY <1>1, <1>2, <1>3, <1>4 DEF IInv

\* The journal says pending_health when every file is in place.
LEMMA SealJournalKeeps ==
    ASSUME IInv, SealJournal
    PROVE  IInv'
  <1> USE DEF SealJournal
  <1>1. TypeOK'
    BY DEF IInv, TypeOK, BootSteps, Statuses
  <1>2. TxnOK'
    BY DEF IInv, TxnOK, ApplyOK
  <1>3. RecordsOK'
    BY DEF IInv, RecordsOK, ApplyOK
  <1>4. CopiesOK'
    BY DEF IInv, CopiesOK, TxnOK
  <1>5. ArmedOK'
    BY DEF IInv, ArmedOK, ApplyOK
  <1>6. TreeOK'
    BY SealedTree DEF IInv, TreeOK, ApplyOK
  <1>7. (RollbackOK /\ ApplyOK /\ ControlOK /\ VersionCommitsLast)'
    BY DEF IInv, RollbackOK, ApplyOK, ControlOK, VersionCommitsLast
  <1>8. QED
    BY <1>1, <1>2, <1>3, <1>4, <1>5, <1>6, <1>7 DEF IInv

\* The flag arms the rollback for the next boot.
LEMMA FlagPendingKeeps ==
    ASSUME IInv, FlagPending
    PROVE  IInv'
  <1> USE DEF FlagPending
  <1>1. TypeOK'
    BY DEF IInv, TypeOK, BootSteps
  <1>2. TxnOK'
    BY DEF IInv, TxnOK, ApplyOK
  <1>3. RecordsOK'
    BY DEF IInv, RecordsOK, ApplyOK
  <1>4. ArmedOK'
    BY DEF IInv, ArmedOK, TreeOK, RecordsOK
  <1>5. (CopiesOK /\ RollbackOK /\ ApplyOK /\ TreeOK)'
    BY DEF IInv, CopiesOK, RollbackOK, ApplyOK, TreeOK
  <1>6. (ControlOK /\ VersionCommitsLast)'
    BY DEF IInv, ControlOK, VersionCommitsLast
  <1>7. QED
    BY <1>1, <1>2, <1>3, <1>4, <1>5, <1>6 DEF IInv

\* The request goes last.
LEMMA ConsumeRequestKeeps ==
    ASSUME IInv, ConsumeRequest
    PROVE  IInv'
  <1> USE DEF ConsumeRequest
  <1>1. TypeOK'
    BY DEF IInv, TypeOK, BootSteps
  <1>2. (TxnOK /\ RecordsOK /\ CopiesOK /\ ArmedOK)'
    BY DEF IInv, TxnOK, RecordsOK, CopiesOK, ArmedOK
  <1>3. (RollbackOK /\ ApplyOK /\ TreeOK /\ ControlOK)'
    BY DEF IInv, RollbackOK, ApplyOK, TreeOK, ControlOK
  <1>4. VersionCommitsLast'
    BY DEF IInv, VersionCommitsLast
  <1>5. QED
    BY <1>1, <1>2, <1>3, <1>4 DEF IInv

\* Errors outside the loop leave the journal as it is.
LEMMA FinishFailsKeeps ==
    ASSUME IInv, FinishFails
    PROVE  IInv'
  <1> USE DEF FinishFails
  <1>1. (TxnOK /\ RecordsOK /\ CopiesOK /\ VersionCommitsLast)'
    BY Frame
  <1>2. TypeOK'
    BY DEF IInv, TypeOK, BootSteps
  <1>3. TreeOK'
    BY SealedTree DEF IInv, TreeOK, RollbackOK, ControlOK, TxnOK, TypeOK, Statuses
  <1>4. (ArmedOK /\ RollbackOK /\ ApplyOK /\ ControlOK)'
    BY DEF IInv, ArmedOK, RollbackOK, ApplyOK, ControlOK
  <1>5. QED
    BY <1>1, <1>2, <1>3, <1>4 DEF IInv

\* The frontend starts.
LEMMA LaunchFrontendKeeps ==
    ASSUME IInv, LaunchFrontend
    PROVE  IInv'
  <1> USE DEF LaunchFrontend
  <1>1. (TxnOK /\ RecordsOK /\ CopiesOK /\ VersionCommitsLast)'
    BY Frame
  <1>2. (TypeOK /\ ArmedOK /\ RollbackOK /\ ApplyOK)'
    BY DEF IInv, TypeOK, ArmedOK, RollbackOK, ApplyOK
  <1>3. (TreeOK /\ ControlOK)'
    BY DEF IInv, TreeOK, ControlOK
  <1>4. QED
    BY <1>1, <1>2, <1>3 DEF IInv

\* mark-healthy writes healthy.
LEMMA ConfirmJournalKeeps ==
    ASSUME IInv, ConfirmJournal
    PROVE  IInv'
  <1> USE DEF ConfirmJournal
  <1>1. TypeOK'
    BY DEF IInv, TypeOK, Statuses
  <1>2. TxnOK'
    BY DEF IInv, TxnOK, ControlOK
  <1>3. RecordsOK'
    BY DEF IInv, RecordsOK, ControlOK
  <1>4. CopiesOK'
    BY DEF IInv, CopiesOK, TxnOK
  <1>5. RollbackOK'
    BY DEF IInv, RollbackOK, ControlOK
  <1>6. ApplyOK'
    BY DEF IInv, ApplyOK, ControlOK
  <1>7. TreeOK'
    BY DEF IInv, TreeOK, ControlOK
  <1>8. (ArmedOK /\ ControlOK /\ VersionCommitsLast)'
    BY DEF IInv, ArmedOK, ControlOK, VersionCommitsLast
  <1>9. QED
    BY <1>1, <1>2, <1>3, <1>4, <1>5, <1>6, <1>7, <1>8 DEF IInv

\* mark-healthy removes the flag.
LEMMA ConfirmUnpendKeeps ==
    ASSUME IInv, ConfirmUnpend
    PROVE  IInv'
  <1> USE DEF ConfirmUnpend
  <1>1. TypeOK'
    <2>1. pending' \in BOOLEAN
      OBVIOUS
    <2>2. QED
      BY <2>1 DEF IInv, TypeOK
  <1>2. RollbackOK'
    BY DEF IInv, RollbackOK, ControlOK
  <1>3. ApplyOK'
    BY DEF IInv, ApplyOK, ControlOK
  <1>4. TreeOK'
    BY DEF IInv, TreeOK, ControlOK
  <1>5. (TxnOK /\ RecordsOK /\ CopiesOK /\ ArmedOK)'
    BY DEF IInv, TxnOK, RecordsOK, CopiesOK, ArmedOK
  <1>6. (ControlOK /\ VersionCommitsLast)'
    BY DEF IInv, ControlOK, VersionCommitsLast
  <1>7. QED
    BY <1>1, <1>2, <1>3, <1>4, <1>5, <1>6 DEF IInv

\* The user\'s request does not touch the tree.
LEMMA RequestLatestKeeps ==
    ASSUME IInv, NEW p \in Packages, RequestLatest(p)
    PROVE  IInv'
  <1> USE DEF RequestLatest
  <1>1. (TypeOK /\ TxnOK /\ RecordsOK /\ CopiesOK)'
    BY DEF IInv, TypeOK, TxnOK, RecordsOK, CopiesOK
  <1>2. (ArmedOK /\ RollbackOK /\ ApplyOK /\ TreeOK)'
    BY DEF IInv, ArmedOK, RollbackOK, ApplyOK, TreeOK
  <1>3. (ControlOK /\ VersionCommitsLast)'
    BY DEF IInv, ControlOK, VersionCommitsLast
  <1>4. QED
    BY <1>1, <1>2, <1>3 DEF IInv

-----------------------------------------------------------------------------
\* The device is first powered on with an intact release.
LEMMA InitInv ==
    ASSUME Init
    PROVE  IInv
  <1>1. PICK v \in Versions : live = Release[v]
    BY DEF Init
  <1>2. live \in Tree /\ base = live
    BY <1>1 DEF Init
  <1>3. Released(base)
    BY <1>1, <1>2 DEF Shipped
  <1>4. TypeOK
    BY <1>2 DEF Init, TypeOK, Tree, BootSteps, Statuses
  <1>5. TxnOK /\ RecordsOK /\ CopiesOK /\ VersionCommitsLast
    BY <1>2 DEF Init, TxnOK, RecordsOK, CopiesOK, VersionCommitsLast
  <1>6. ArmedOK /\ RollbackOK /\ ApplyOK /\ ControlOK
    BY <1>2 DEF Init, ArmedOK, RollbackOK, ApplyOK, ControlOK
  <1>7. TreeOK
    BY <1>2, <1>3 DEF Init, TreeOK
  <1>8. QED
    BY <1>4, <1>5, <1>6, <1>7 DEF IInv

\* Each disjunct of Next keeps IInv.
LEMMA NextInv ==
    ASSUME IInv, [Next]_vars
    PROVE  IInv'
  <1>1. CASE PowerOff \/ PowerOn
    BY <1>1, PowerOffKeeps, PowerOnKeeps
  <1>2. CASE Rollback
    BY <1>2, RollbackRemoveKeeps, RollbackRestoreKeeps, RollbackJournalKeeps,
       RollbackUnpendKeeps, RollbackFailsKeeps DEF Rollback
  <1>3. CASE ApplyRuntime
    BY <1>3, ClearBackupKeeps, OpenJournalKeeps, LogOperationKeeps, MoveAsideKeeps,
       PlaceKeeps, ApplyFailsKeeps, SealJournalKeeps, FlagPendingKeeps,
       ConsumeRequestKeeps, FinishFailsKeeps DEF ApplyRuntime
  <1>4. CASE RecoverPriorRuntime \/ NoRequest \/ RejectRequest \/ AcceptRequest
    BY <1>4, RecoverPriorRuntimeKeeps, NoRequestKeeps, RejectRequestKeeps,
       AcceptRequestKeeps
  <1>5. CASE LaunchFrontend \/ FrontendReady
    BY <1>5, LaunchFrontendKeeps, SessionSteps
  <1>6. CASE MarkHealthy
    BY <1>6, ConfirmJournalKeeps, ConfirmUnpendKeeps, SessionSteps DEF MarkHealthy
  <1>7. CASE Request
    BY <1>7, RequestLatestKeeps, SessionSteps DEF Request
  <1>8. CASE UNCHANGED vars
    <2>1. TypeOK'
      BY <1>8 DEF vars, IInv, TypeOK
    <2>2. (TxnOK /\ RecordsOK /\ CopiesOK /\ VersionCommitsLast)'
      BY <1>8, Frame DEF vars
    <2>3. (ArmedOK /\ RollbackOK)'
      BY <1>8 DEF vars, IInv, ArmedOK, RollbackOK
    <2>4. ApplyOK'
      BY <1>8 DEF vars, IInv, ApplyOK
    <2>5. (TreeOK /\ ControlOK)'
      BY <1>8 DEF vars, IInv, TreeOK, ControlOK, Compatible
    <2>6. QED
      BY <2>1, <2>2, <2>3, <2>4, <2>5 DEF IInv
  <1>9. QED
    BY <1>1, <1>2, <1>3, <1>4, <1>5, <1>6, <1>7, <1>8 DEF Next, ApplyPending

\* Journal, backup and tree keep to IInv in every state the updater, the power
\* and the user can bring about.
THEOREM Invariance == Spec => []IInv
  <1>1. Init => IInv
    BY InitInv
  <1>2. IInv /\ [Next]_vars => IInv'
    BY NextInv
  <1>3. QED
    BY <1>1, <1>2, PTL DEF Spec

\* The variables keep their types (TypeOK).
THEOREM TypeCorrect == Spec => []TypeOK
  <1>1. IInv => TypeOK
    BY DEF IInv
  <1>2. QED
    BY <1>1, Invariance, PTL

\* The frontend always starts on a complete release: the one its VERSION names.
THEOREM ReleasedTreeHolds == Spec => []ReleasedTree
  <1>1. ASSUME IInv, pc = "session", VersionFile \notin exposed
        PROVE  Released(live)
    <2>1. Released(base)
      BY <1>1 DEF IInv, TreeOK
    <2>2. CASE \A f \in Files \ exposed : live[f] = base[f]
      BY <2>1, <2>2, <1>1 DEF Shipped
    <2>3. CASE \A f \in Files \ exposed : live[f] = Goal(base, txn)[f]
      <3>1. CASE status = "none"
        BY <2>1, <3>1, <1>1 DEF IInv, TxnOK
      <3>2. CASE status # "none"
        <4>1. Released(Goal(base, txn))
          BY <2>1, <3>2, <1>1, ReleasedGoal
        <4>2. QED
          BY <4>1, <2>3, <1>1 DEF Shipped
      <3>3. QED
        BY <3>1, <3>2
    <2>4. QED
      BY <2>2, <2>3, <1>1 DEF IInv, TreeOK
  <1>2. IInv => ReleasedTree
    BY <1>1 DEF ReleasedTree
  <1>3. QED
    BY <1>2, Invariance, PTL

\* The frontend starts on the old generation or on the new one, never on a mix.
THEOREM WholeGenerationHolds == Spec => []WholeGeneration
  <1>1. IInv => WholeGeneration
    BY DEF IInv, TreeOK, WholeGeneration
  <1>2. QED
    BY <1>1, Invariance, PTL

\* While a rollback is due, journal and backup still hold the old tree.
THEOREM RollbackRestoresHolds == Spec => []RollbackRestores
  <1>1. ASSUME IInv, RollbackArmed, pc \notin {"aside", "remove", "restore",
     "unpend"},
               NEW f \in Files \ exposed
        PROVE  Recovered(f) = base[f]
    <2>1. CASE f \notin logged
      BY <1>1, <2>1 DEF IInv, CopiesOK, Recovered
    <2>2. CASE f \in logged
      <3>1. Shape(f) /\ ~Endangered(f)
        BY <1>1, <2>2 DEF IInv, ArmedOK
      <3>2. /\ f \in existed <=> base[f] # Absent
            /\ f \notin txn.installs => Target(f) = Absent
        BY <1>1, <2>2, TargetFacts DEF IInv, RecordsOK, TxnOK
      <3>3. QED
        BY <2>2, <3>1, <3>2 DEF Recovered
    <2>3. QED
      BY <2>1, <2>2
  <1>2. IInv => RollbackRestores
    BY <1>1 DEF RollbackRestores
  <1>3. QED
    BY <1>2, Invariance, PTL

\* What the journal says of the transaction is true of the tree.
THEOREM VerdictHolds == Spec => []VerdictMatchesTree
  <1>1. IInv => VerdictMatchesTree
    BY DEF IInv, TreeOK, RollbackOK, VerdictMatchesTree
  <1>2. QED
    BY <1>1, Invariance, PTL

\* VERSION is the last file to become new and the first to become old again.
THEOREM VersionCommitsLastHolds == Spec => []VersionCommitsLast
  <1>1. IInv => VersionCommitsLast
    BY DEF IInv
  <1>2. QED
    BY <1>1, Invariance, PTL
=============================================================================
