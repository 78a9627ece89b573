--------------------------- MODULE RuntimeUpdate ---------------------------
(***************************************************************************)
(* The runtime half of scripts/plumos-system-update.py: a file by file     *)
(* transaction over /mnt/plumos, journaled in runtime-transaction.json,    *)
(* that the next boot rolls back unless the frontend proved it can draw.   *)
(* The program runs in three places: `apply-pending` alone, before the     *)
(* frontend (the init script of scripts/build-step1-rootfs.sh);            *)
(* `mark-healthy` from a background loop of init, and `request-latest`     *)
(* from the frontend, both during the session, under one lock file.        *)
(*                                                                         *)
(* Every durable write is a step of its own, so the power may fail between *)
(* any two of them.  atomic_bytes syncs the file and its directory, and    *)
(* the renames and unlinks between two such writes reach ext4's journal in *)
(* program order, so losing a tail of them is a power failure a few steps  *)
(* earlier.                                                                *)
(***************************************************************************)
EXTENDS Naturals

CONSTANTS
    Files,        \* managed paths, numbered in the order of runtime_sort_key
    MetadataLast, \* METADATA_LAST: the paths that sort after all the others
    VersionFile,  \* "VERSION"
    Checksums,    \* "checksums.sha256"
    Critical,     \* the paths whose checksum the bootstrap verifies
    Versions,     \* release versions
    Contents,     \* file contents; VERSION and the checksums stand for the release
    Absent,       \* no file at that path
    Release,      \* Release[v][f]: what release v ships at f
    AnyVersion,   \* source_version "*"
    NoPackage     \* no request.json

Tree == [Files -> Contents \cup {Absent}]

ASSUME FilesAssumption ==
    /\ Files \subseteq Nat
    /\ MetadataLast \subseteq Files
    /\ VersionFile \in MetadataLast /\ Checksums \in MetadataLast
    /\ \A f \in Files \ MetadataLast, m \in MetadataLast : f < m
    /\ Critical \subseteq Files

ASSUME ReleaseAssumption ==
    /\ Versions \subseteq Contents
    /\ Absent \notin Contents
    /\ AnyVersion \notin Contents
    /\ Release \in [Versions -> Tree]
    /\ \A v \in Versions : Release[v][VersionFile] = v /\ Release[v][Checksums] = v

(***************************************************************************)
(* What the package builder makes of two releases: the files that differ   *)
(* from the base and the base's files that are gone; without a base        *)
(* directory, every file and no deletion.                                  *)
(***************************************************************************)
Shipped(v) == {f \in Files : Release[v][f] # Absent}

DeltaPackage(old, new) ==
    [source   |-> old,
     version  |-> new,
     installs |-> {f \in Shipped(new) : Release[old][f] # Release[new][f]},
     deletes  |-> Shipped(old) \ Shipped(new)]

FullPackage(new) ==
    [source |-> AnyVersion, version |-> new,
     installs |-> Shipped(new), deletes |-> {}]

Packages ==
    {DeltaPackage(v, w) : v, w \in Versions} \cup {FullPackage(v) : v \in Versions}

ASSUME PackageAssumption == NoPackage \notin Packages

VARIABLES
    (* durable *)
    live,     \* the flat tree under /mnt/plumos
    backup,   \* backups/update-previous/files
    status,   \* journal: status
    txn,      \* journal: the package of the transaction
    logged,   \* journal: paths with an operation record
    existed,  \* journal: those whose record says the path existed
    pending,  \* runtime-pending.json is there
    request,  \* request.json
    (* the running system *)
    pc,       \* where init and the apply-pending it runs are
    todo,     \* paths the loop of apply_runtime or of rollback_runtime has left
    resume,   \* where rollback_runtime returns to
    frontend, \* down, starting, ready (the draw proof exists), failed
    confirm,  \* confirm_plumos_update_after_frontend and its mark-healthy
    lock,     \* holder of /run/plumos-system-update.lock
    (* history *)
    base,     \* the tree the journaled transaction started from
    trial,    \* the transaction was applied since power-on
    exposed   \* paths whose original a second rollback may have deleted, and all
              \* paths of a rollback that failed before its end

journal == <<status, txn, logged, existed>>
disk == <<live, backup, status, txn, logged, existed, pending, request>>
session == <<frontend, confirm, lock>>
history == <<base, trial, exposed>>
vars == <<live, backup, status, txn, logged, existed, pending, request,
          pc, todo, resume, frontend, confirm, lock, base, trial, exposed>>

Statuses == {"none", "applying", "pending_health", "healthy", "rolled_back"}
BootSteps ==
    {"recover", "remove", "restore", "unpend", "request",
     "clear", "open", "log", "aside", "place", "seal", "flag", "consume",
     "launch"}

TypeOK ==
    /\ live \in Tree /\ backup \in Tree /\ base \in Tree
    /\ status \in Statuses
    /\ txn \in Packages \cup {NoPackage}
    /\ logged \subseteq Files /\ existed \subseteq logged
    /\ exposed \subseteq Files /\ todo \subseteq Files
    /\ pending \in BOOLEAN /\ trial \in BOOLEAN
    /\ request \in Packages \cup {NoPackage}
    /\ pc \in BootSteps \cup {"off", "session"}
    /\ resume \in {"request", "launch"}
    /\ frontend \in {"down", "starting", "ready", "failed"}
    /\ confirm \in {"polling", "journal", "unpend", "over"}
    /\ lock \in {"free", "boot", "confirm", "ui"}

-----------------------------------------------------------------------------
Present(f) == live[f] # Absent

\* read_text(PLUMOS_ROOT / "VERSION", "unknown")
InstalledVersion == live[VersionFile]

\* current_compatibility: source_version and "version is already installed"
Compatible(p) ==
    /\ p.source \in {AnyVersion, InstalledVersion}
    /\ p.version # InstalledVersion

\* validate_app_layer: the metadata is there and every critical file has the
\* checksum that checksums.sha256 lists
AppLayerValid ==
    /\ \A m \in MetadataLast : Present(m)
    /\ live[Checksums] \in Versions
    /\ \A f \in Critical : Present(f) /\ live[f] = Release[live[Checksums]][f]

Ops(p) == p.installs \cup p.deletes

Goal(t, p) ==
    [f \in Files |-> IF f \in p.installs THEN Release[p.version][f]
                     ELSE IF f \in p.deletes THEN Absent ELSE t[f]]

\* what rollback_runtime leaves at f when it runs to its end
Recovered(f) ==
    IF f \notin logged THEN live[f]
    ELSE IF f \in existed /\ backup[f] # Absent THEN backup[f]
    ELSE IF f \in txn.installs THEN Absent ELSE live[f]

\* rollback_runtime would delete the only copy of the original of f: it is in
\* place, it is not in the backup, and its record asks for a removal
Endangered(f) ==
    /\ f \in existed /\ f \in txn.installs
    /\ live[f] # Absent /\ backup[f] = Absent

\* the path a loop has reached: apply_runtime goes up, rollback_runtime down
First(f) == f \in todo /\ \A g \in todo : f <= g
MutantLast(f) == f \in todo /\ \A g \in todo : f <= g
Last(f) == f \in todo /\ \A g \in todo : g <= f

\* mutant: only the flag arms the rollback
MutantArmedByFlag == pending

\* recover_prior_runtime will call rollback_runtime
RollbackArmed == pending \/ status = "applying"
-----------------------------------------------------------------------------
Init ==
    /\ \E v \in Versions : live = Release[v]
    /\ backup = [f \in Files |-> Absent]
    /\ status = "none" /\ txn = NoPackage
    /\ logged = {} /\ existed = {}
    /\ pending = FALSE /\ request = NoPackage
    /\ pc = "off" /\ todo = {} /\ resume = "request"
    /\ frontend = "down" /\ confirm = "over" /\ lock = "free"
    /\ base = live /\ trial = FALSE /\ exposed = {}

(***************************************************************************)
(* Power.  A reboot the frontend asks for is a power failure here too: it  *)
(* may fall anywhere in mark-healthy.  A failure while a rollback is due   *)
(* exposes the paths that the next rollback deletes for good.              *)
(***************************************************************************)
PowerOff ==
    /\ pc # "off"
    /\ pc' = "off" /\ todo' = {}
    /\ frontend' = "down" /\ confirm' = "over" /\ lock' = "free"
    /\ exposed' = IF RollbackArmed
                  THEN exposed \cup {f \in logged : Endangered(f)} ELSE exposed
    /\ UNCHANGED <<disk, resume, base, trial>>

PowerOn ==
    /\ pc = "off"
    /\ pc' = "recover" /\ lock' = "boot" /\ trial' = FALSE
    /\ UNCHANGED <<disk, todo, resume, frontend, confirm, base, exposed>>

(***************************************************************************)
(* apply-pending: recover_prior_runtime and rollback_runtime               *)
(***************************************************************************)
RecoverPriorRuntime ==
    /\ pc = "recover"
    /\ IF RollbackArmed
       THEN pc' = "remove" /\ todo' = logged /\ resume' = "request"
       ELSE pc' = "request" /\ UNCHANGED <<todo, resume>>
    /\ UNCHANGED <<disk, session, history>>

RollbackRemove(f) ==
    /\ pc = "remove" /\ Last(f)
    /\ live' = [live EXCEPT ![f] = IF f \in txn.installs THEN Absent ELSE @]
    /\ pc' = "restore"
    /\ UNCHANGED <<backup, journal, pending, request, todo, resume, session, history>>

\* mutant: only replaced files come back, deleted ones do not
MutantRestoreReplaced(f) ==
    /\ pc = "restore" /\ Last(f)
    /\ IF f \in existed /\ backup[f] # Absent /\ f \in txn.installs
       THEN /\ live' = [live EXCEPT ![f] = backup[f]]
            /\ backup' = [backup EXCEPT ![f] = Absent]
       ELSE UNCHANGED <<live, backup>>
    /\ todo' = todo \ {f} /\ pc' = "remove"
    /\ UNCHANGED <<journal, pending, request, resume, session, history>>

RollbackRestore(f) ==
    /\ pc = "restore" /\ Last(f)
    /\ IF f \in existed /\ backup[f] # Absent
       THEN /\ live' = [live EXCEPT ![f] = backup[f]]
            /\ backup' = [backup EXCEPT ![f] = Absent]
       ELSE UNCHANGED <<live, backup>>
    /\ todo' = todo \ {f} /\ pc' = "remove"
    /\ UNCHANGED <<journal, pending, request, resume, session, history>>

RollbackJournal ==
    /\ pc = "remove" /\ todo = {}
    /\ status' = "rolled_back" /\ pc' = "unpend"
    /\ UNCHANGED <<live, backup, txn, logged, existed, pending, request,
                   todo, resume, session, history>>

\* mutant: the flag stays and recovery starts over
MutantUnpendRetries ==
    /\ pc = "unpend"
    /\ pc' = "recover"
    /\ UNCHANGED <<disk, todo, resume, session, history>>

RollbackUnpend ==
    /\ pc = "unpend"
    /\ pending' = FALSE /\ pc' = resume
    /\ UNCHANGED <<live, backup, journal, request, todo, resume, session, history>>

\* an OSError inside rollback_runtime: the program exits 1 and init starts the
\* frontend on what is restored so far, whose readiness may confirm it as healthy
RollbackFails ==
    /\ pc \in {"remove", "restore", "unpend"}
    /\ pc' = "launch" /\ todo' = {}
    /\ exposed' = exposed \cup logged
    /\ UNCHANGED <<disk, resume, session, base, trial>>

(***************************************************************************)
(* apply-pending: the request and apply_runtime                            *)
(***************************************************************************)
NoRequest ==
    /\ pc = "request" /\ request = NoPackage
    /\ pc' = "launch"
    /\ UNCHANGED <<disk, todo, resume, session, history>>

\* the package is gone, changed or incompatible, or the space check or the
\* extraction fails: the request stays
RejectRequest ==
    /\ pc = "request" /\ request # NoPackage
    /\ pc' = "launch"
    /\ UNCHANGED <<disk, todo, resume, session, history>>

\* mutant: compatibility is checked when the request is made, not again here
MutantAcceptUnchecked ==
    /\ pc = "request" /\ request # NoPackage
    /\ pc' = "clear"
    /\ UNCHANGED <<disk, todo, resume, session, history>>

AcceptRequest ==
    /\ pc = "request" /\ request # NoPackage /\ Compatible(request)
    /\ pc' = "clear"
    /\ UNCHANGED <<disk, todo, resume, session, history>>

ClearBackup ==
    /\ pc = "clear"
    /\ backup' = [f \in Files |-> Absent]
    /\ pc' = "open"
    /\ UNCHANGED <<live, journal, pending, request, todo, resume, session, history>>

OpenJournal ==
    /\ pc = "open"
    /\ status' = "applying" /\ txn' = request
    /\ logged' = {} /\ existed' = {}
    /\ todo' = Ops(request) /\ pc' = "log"
    /\ base' = live /\ trial' = TRUE
    /\ UNCHANGED <<live, backup, pending, request, resume, session, exposed>>

\* journal_write of the operation record
LogOperation(f) ==
    /\ pc = "log" /\ First(f)
    /\ logged' = logged \cup {f}
    /\ existed' = IF Present(f) THEN existed \cup {f} ELSE existed
    /\ pc' = "aside"
    /\ UNCHANGED <<live, backup, status, txn, pending, request, todo, resume,
                   session, history>>

\* mutant: the replaced file is unlinked, not kept
MutantMoveNowhere(f) ==
    /\ pc = "aside" /\ First(f)
    /\ live' = [live EXCEPT ![f] = Absent]
    /\ pc' = "place"
    /\ UNCHANGED <<backup, journal, pending, request, todo, resume, session, history>>

\* os.replace(target, backup); the backed_up mark is never read
MoveAside(f) ==
    /\ pc = "aside" /\ First(f)
    /\ IF f \in existed
       THEN /\ backup' = [backup EXCEPT ![f] = live[f]]
            /\ live' = [live EXCEPT ![f] = Absent]
       ELSE UNCHANGED <<live, backup>>
    /\ pc' = "place"
    /\ UNCHANGED <<journal, pending, request, todo, resume, session, history>>

\* os.replace(staged, target); the installed mark adds nothing to
\* install_requested
Place(f) ==
    /\ pc = "place" /\ First(f)
    /\ live' = IF f \in txn.installs
               THEN [live EXCEPT ![f] = Release[txn.version][f]] ELSE live
    /\ todo' = todo \ {f} /\ pc' = "log"
    /\ UNCHANGED <<backup, journal, pending, request, resume, session, history>>

\* an exception in the loop: rollback_runtime in the same process
ApplyFails ==
    /\ pc \in {"log", "aside", "place"}
    /\ pc' = "remove" /\ todo' = logged /\ resume' = "launch"
    /\ exposed' = exposed \cup {f \in logged : Endangered(f)}
    /\ UNCHANGED <<disk, session, base, trial>>

SealJournal ==
    /\ pc = "log" /\ todo = {}
    /\ status' = "pending_health" /\ pc' = "flag"
    /\ UNCHANGED <<live, backup, txn, logged, existed, pending, request, todo,
                   resume, session, history>>

FlagPending ==
    /\ pc = "flag"
    /\ pending' = TRUE /\ pc' = "consume"
    /\ UNCHANGED <<live, backup, journal, request, todo, resume, session, history>>

ConsumeRequest ==
    /\ pc = "consume"
    /\ request' = NoPackage /\ pc' = "launch"
    /\ UNCHANGED <<live, backup, journal, pending, todo, resume, session, history>>

\* one of the writes outside the try block fails: exit 1, no rollback
FinishFails ==
    /\ pc \in {"clear", "open", "flag", "consume"} \/ (pc = "log" /\ todo = {})
    /\ pc' = "launch"
    /\ UNCHANGED <<disk, todo, resume, session, history>>

(***************************************************************************)
(* The session: the bootstrap starts the frontend, and init polls for its  *)
(* draw proof.                                                             *)
(***************************************************************************)
LaunchFrontend ==
    /\ pc = "launch"
    /\ pc' = "session" /\ lock' = "free" /\ confirm' = "polling"
    /\ frontend' = IF AppLayerValid THEN "starting" ELSE "failed"
    /\ UNCHANGED <<disk, todo, resume, history>>

FrontendReady ==
    /\ frontend = "starting"
    /\ frontend' = "ready"
    /\ UNCHANGED <<disk, pc, todo, resume, confirm, lock, history>>

\* mark-healthy takes the lock and reads runtime-pending.json
ConfirmStart ==
    /\ confirm = "polling" /\ frontend = "ready" /\ lock = "free"
    /\ IF pending THEN confirm' = "journal" /\ lock' = "confirm"
                  ELSE confirm' = "over" /\ UNCHANGED lock
    /\ UNCHANGED <<disk, pc, todo, resume, frontend, history>>

\* "another update operation is already running": mark-healthy is not retried
ConfirmBusy ==
    /\ confirm = "polling" /\ frontend = "ready" /\ lock # "free"
    /\ confirm' = "over"
    /\ UNCHANGED <<disk, pc, todo, resume, frontend, lock, history>>

\* 60 polls without the draw proof
ConfirmTimeout ==
    /\ confirm = "polling" /\ frontend # "ready"
    /\ confirm' = "over"
    /\ UNCHANGED <<disk, pc, todo, resume, frontend, lock, history>>

ConfirmJournal ==
    /\ confirm = "journal"
    /\ status' = "healthy" /\ confirm' = "unpend"
    /\ UNCHANGED <<live, backup, txn, logged, existed, pending, request, pc, todo,
                   resume, frontend, lock, history>>

ConfirmUnpend ==
    /\ confirm = "unpend"
    /\ pending' = FALSE /\ confirm' = "over" /\ lock' = "free"
    /\ UNCHANGED <<live, backup, journal, request, pc, todo, resume, frontend, history>>

ConfirmFails ==
    /\ confirm \in {"journal", "unpend"}
    /\ confirm' = "over" /\ lock' = "free"
    /\ UNCHANGED <<disk, pc, todo, resume, frontend, history>>

\* request-latest: the lock is held while the inbox is scanned and verified
RequestStart ==
    /\ frontend = "ready" /\ lock = "free"
    /\ lock' = "ui"
    /\ UNCHANGED <<disk, pc, todo, resume, frontend, confirm, history>>

RequestLatest(p) ==
    /\ lock = "ui" /\ Compatible(p)
    /\ request' = p /\ lock' = "free"
    /\ UNCHANGED <<live, backup, journal, pending, pc, todo, resume, frontend,
                   confirm, history>>

RequestNone ==
    /\ lock = "ui"
    /\ lock' = "free"
    /\ UNCHANGED <<disk, pc, todo, resume, frontend, confirm, history>>

-----------------------------------------------------------------------------
Rollback ==
    \/ \E f \in Files : RollbackRemove(f) \/ RollbackRestore(f)
    \/ RollbackJournal \/ RollbackUnpend \/ RollbackFails

ApplyRuntime ==
    \/ ClearBackup \/ OpenJournal
    \/ \E f \in Files : LogOperation(f) \/ MoveAside(f) \/ Place(f)
    \/ ApplyFails \/ SealJournal \/ FlagPending \/ ConsumeRequest \/ FinishFails

ApplyPending ==
    \/ RecoverPriorRuntime \/ Rollback
    \/ NoRequest \/ RejectRequest \/ AcceptRequest \/ ApplyRuntime

MarkHealthy ==
    \/ ConfirmStart \/ ConfirmBusy \/ ConfirmTimeout
    \/ ConfirmJournal \/ ConfirmUnpend \/ ConfirmFails

Request == RequestStart \/ (\E p \in Packages : RequestLatest(p)) \/ RequestNone

Next ==
    \/ PowerOff \/ PowerOn
    \/ ApplyPending \/ LaunchFrontend \/ FrontendReady
    \/ MarkHealthy \/ Request

Spec == Init /\ [][Next]_vars

\* init runs apply-pending and the bootstrap to their end; the user, the power
\* and the frontend's first frame are not fair
FairSpec == Spec /\ WF_vars(ApplyPending) /\ WF_vars(LaunchFrontend)
-----------------------------------------------------------------------------
(* Properties.  A path is exposed when a power failure or an I/O error hit  *)
(* one of the windows in which the journal's record makes rollback_runtime  *)
(* delete an original that has no backup.  A rollback that fails before its *)
(* end exposes all its paths: the frontend starts on the half restored      *)
(* tree.  Every other path is promised.                                     *)

\* The frontend runs the release it reports: every file that the installed
\* VERSION ships is there with that release's content, whatever updates,
\* rollbacks, failures and power cuts came before (apply_runtime,
\* rollback_runtime, recover_prior_runtime).
ReleasedTree ==
    pc = "session" /\ VersionFile \notin exposed =>
        /\ InstalledVersion \in Versions
        /\ \A f \in Shipped(InstalledVersion) \ exposed :
               live[f] = Release[InstalledVersion][f]

\* Updates are atomic for the frontend: it starts on the tree before the last
\* transaction or on the tree after it, never on a mixture of the two.
WholeGeneration ==
    pc = "session" =>
        \/ \A f \in Files \ exposed : live[f] = base[f]
        \/ \A f \in Files \ exposed : live[f] = Goal(base, txn)[f]

\* As long as the next boot would roll the transaction back, journal and backup
\* together still hold the tree it started from; the record of the file being
\* moved aside and a running rollback are the exceptions.
RollbackRestores ==
    RollbackArmed /\ pc \notin {"aside", "remove", "restore", "unpend"} =>
        \A f \in Files \ exposed : Recovered(f) = base[f]

\* The journal's verdict is true of the tree: rolled_back means the old tree is
\* back, healthy without a pending flag means the new one is complete.
VerdictMatchesTree ==
    /\ status = "rolled_back" => \A f \in Files \ exposed : live[f] = base[f]
    /\ status = "healthy" /\ ~pending /\ pc = "session" =>
          \A f \in Files \ exposed : live[f] = Goal(base, txn)[f]

\* METADATA_LAST: at no instant, in the apply or in the reversed rollback, does
\* VERSION name the new release while another file is not yet the new one.
VersionCommitsLast ==
    /\ txn # NoPackage /\ InstalledVersion = txn.version
    /\ base[VersionFile] # txn.version
    => \A f \in Files \ MetadataLast : live[f] = Goal(base, txn)[f]

\* Whatever fails in apply-pending, init reaches the frontend (the update error
\* paths of apply_pending_plumos_update), unless the power goes.
BootCompletes == pc = "recover" ~> pc \in {"session", "off"}

=============================================================================
