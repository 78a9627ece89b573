---------------------------- MODULE SystemUpdate ----------------------------
(***************************************************************************)
(* The System half of the updater: two SquashFS slots on PLUMBOOT, written *)
(* by apply_system (scripts/plumos-system-update.py), selected and         *)
(* verified by the initramfs (scripts/v90s-four-partition-init), promoted  *)
(* by mark-healthy.  Digests stand for the version they are the digest of. *)
(* The two clean-shutdown markers are one flag.                            *)
(***************************************************************************)
EXTENDS Naturals

CONSTANTS
    Slots,        \* the two slots, "a" and "b"
    Factory,      \* the slot of an assembled image: System/active-slot
    Versions,     \* system versions
    Absent,       \* no such file
    Torn,         \* an image that matches no digest
    None,         \* no pending slot, no request, no slot running
    AnyVersion    \* source_version "*"

ASSUME SlotsAssumption ==
    /\ Factory \in Slots
    /\ \E s \in Slots : s # Factory /\ Slots = {Factory, s}
    /\ None \notin Slots

ASSUME ValuesAssumption ==
    /\ Absent \notin Versions /\ Torn \notin Versions /\ None \notin Versions
    /\ AnyVersion \notin Versions /\ Absent \notin {Torn, None}

Packages == [source : Versions \cup {AnyVersion}, version : Versions]

ASSUME PackagesAssumption == None \notin Packages

VARIABLES
    (* PLUMBOOT and PLUMOS_SYS *)
    image,     \* system-<slot>.squashfs
    digest,    \* system-<slot>.sha256
    verified,  \* provision/system-<slot>.verified.sha256
    active,    \* update-state/system-active
    pending,   \* update-state/system-pending
    attempted, \* update-state/system-pending-attempted
    request,   \* update-state/request.json
    clean,     \* provision/clean-shutdown and .plumos-clean-shutdown
    (* the running system *)
    pc,        \* where initramfs, init and apply-pending are
    fast,      \* FAST_BOOT
    slot,      \* SYSTEM_SLOT, the system root of the session
    frontend,  \* down, starting, ready
    confirm,   \* confirm_plumos_update_after_frontend and its mark-healthy
    lock,      \* holder of /run/plumos-system-update.lock
    (* history *)
    tried,     \* a trial boot of the pending slot was begun
    late,      \* apply_system failed after it had put the pending slot on record
    overrun    \* apply_system has replaced the image that runs: "no"; "trial", and its
               \* slot is still on trial; "active", and its slot has been promoted

slots == <<image, digest, verified>>
state == <<active, pending, attempted, request, clean>>
boot == <<pc, fast, slot>>
session == <<frontend, confirm, lock>>
history == <<tried, late, overrun>>
vars == <<image, digest, verified, active, pending, attempted, request, clean,
          pc, fast, slot, frontend, confirm, lock, tried, late, overrun>>

BootSteps ==
    {"inspect", "select", "drop", "forget", "markers", "verify", "recovery",
     "apply", "copy", "digest", "publish", "pend", "unmark", "consume",
     "reboot", "launch"}

TypeOK ==
    /\ image \in [Slots -> Versions \cup {Absent, Torn}]
    /\ digest \in [Slots -> Versions \cup {Absent}]
    /\ verified \in [Slots -> Versions \cup {Absent}]
    /\ active \in Slots /\ pending \in Slots \cup {None}
    /\ attempted \in BOOLEAN /\ clean \in BOOLEAN
    /\ fast \in BOOLEAN
    /\ tried \in BOOLEAN /\ late \in BOOLEAN /\ overrun \in {"no", "trial", "active"}
    /\ request \in Packages \cup {None}
    /\ pc \in BootSteps \cup {"off", "session"}
    /\ slot \in Slots \cup {None}
    /\ frontend \in {"down", "starting", "ready"}
    /\ confirm \in {"polling", "promote", "unpend", "unmark", "over"}
    /\ lock \in {"free", "boot", "confirm", "ui"}

-----------------------------------------------------------------------------
Inactive == CHOOSE s \in Slots : s # active

\* the system root is mounted from the slot
Running ==
    pc \in {"apply", "copy", "digest", "publish", "pend", "unmark", "consume",
            "reboot", "launch", "session"}

\* current_compatibility; SYSTEM_VERSION_FILE lies in the running image
Compatible(p) ==
    /\ p.source \in {AnyVersion, image[slot]}
    /\ p.version # image[slot]

Complete(s) == image[s] # Absent /\ digest[s] # Absent
Intact(s) == image[s] = digest[s]

-----------------------------------------------------------------------------
Init ==
    /\ \E v \in Versions : image = [s \in Slots |-> v]
    /\ digest = image
    /\ verified = [s \in Slots |-> Absent]
    /\ active = Factory /\ pending = None /\ attempted = FALSE
    /\ request = None /\ clean = FALSE
    /\ pc = "off" /\ fast = FALSE /\ slot = None
    /\ frontend = "down" /\ confirm = "over" /\ lock = "free"
    /\ tried = FALSE /\ late = FALSE /\ overrun = "no"

\* what ends with the power
Off ==
    /\ pc' = "off" /\ fast' = FALSE /\ slot' = None
    /\ frontend' = "down" /\ confirm' = "over" /\ lock' = "free"

\* before os.sync the FAT may keep the new file, a part of it, or none: the old
\* image beside the new digest counts as torn, old beside old as a cut before
PowerOff ==
    /\ pc # "off" /\ Off
    /\ IF pc \in {"digest", "publish"}
       THEN \E i \in {image[Inactive], Absent, Torn}, d \in {digest[Inactive], Absent} :
               /\ image' = [image EXCEPT ![Inactive] = i]
               /\ digest' = [digest EXCEPT ![Inactive] = d]
       ELSE UNCHANGED <<image, digest>>
    /\ UNCHANGED <<verified, state, history>>

\* the card loses or damages the staged image
DamageCandidate ==
    /\ pc = "off" /\ pending \notin {None, active}
    /\ \E i \in {Absent, Torn} : image' = [image EXCEPT ![pending] = i]
    /\ UNCHANGED <<digest, verified, state, boot, session, history>>

PowerOn ==
    /\ pc = "off"
    /\ pc' = "inspect"
    /\ UNCHANGED <<slots, state, fast, slot, session, history>>

(***************************************************************************)
(* initramfs                                                               *)
(***************************************************************************)
\* mutant: a pending slot does not rule the fast boot out
MutantInspect ==
    /\ pc = "inspect"
    /\ fast' = (/\ clean
                /\ digest[active] # Absent /\ verified[active] = digest[active])
    /\ pc' = "select"
    /\ UNCHANGED <<slots, state, slot, session, history>>

InspectFastBoot ==
    /\ pc = "inspect"
    /\ fast' = (/\ clean /\ pending = None /\ ~attempted
                /\ digest[active] # Absent /\ verified[active] = digest[active])
    /\ pc' = "select"
    /\ UNCHANGED <<slots, state, slot, session, history>>

SelectActive ==
    /\ pc = "select" /\ pending = None
    /\ slot' = active /\ pc' = "markers"
    /\ UNCHANGED <<slots, state, fast, session, history>>

SelectTrial ==
    /\ pc = "select" /\ pending # None /\ ~attempted
    /\ slot' = pending /\ attempted' = TRUE /\ tried' = TRUE
    /\ pc' = "markers"
    /\ UNCHANGED <<slots, active, pending, request, clean, fast, session, late, overrun>>

\* mutant: the rejected slot stays on record
MutantSelectRollback ==
    /\ pc = "select" /\ pending # None /\ attempted
    /\ slot' = active /\ pc' = "markers"
    /\ UNCHANGED <<slots, state, fast, session, history>>

SelectRollback ==
    /\ pc = "select" /\ pending # None /\ attempted
    /\ slot' = active /\ pc' = "drop"
    /\ UNCHANGED <<slots, state, fast, session, history>>

\* rm -f system-pending system-pending-attempted, in that order
DropPending ==
    /\ pc = "drop"
    /\ pending' = None /\ pc' = "forget"
    /\ overrun' = IF overrun = "trial" THEN "no" ELSE overrun
    /\ UNCHANGED <<slots, active, attempted, request, clean, fast, slot, session, tried, late>>

\* mutant: the system goes on with the slot it has just rejected
MutantForget ==
    /\ pc = "forget"
    /\ attempted' = FALSE /\ pc' = "markers"
    /\ UNCHANGED <<slots, active, pending, request, clean, fast, slot, session, history>>

ForgetAttempt ==
    /\ pc = "forget"
    /\ attempted' = FALSE /\ slot' = active /\ pc' = "markers"
    /\ UNCHANGED <<slots, active, pending, request, clean, fast, session, history>>

RemoveCleanMarkers ==
    /\ pc = "markers"
    /\ clean' = FALSE /\ pc' = "verify"
    /\ UNCHANGED <<slots, active, pending, attempted, request, fast, slot, session, history>>

VerifyPasses ==
    /\ pc = "verify" /\ Complete(slot) /\ (fast \/ Intact(slot))
    /\ verified' = IF fast THEN verified ELSE [verified EXCEPT ![slot] = digest[slot]]
    /\ pc' = "apply" /\ lock' = "boot"
    /\ UNCHANGED <<image, digest, state, fast, slot, frontend, confirm, history>>

VerifyFails ==
    /\ pc = "verify" /\ ~(Complete(slot) /\ (fast \/ Intact(slot)))
    /\ pc' = IF pending # None /\ slot # active THEN "drop" ELSE "recovery"
    /\ UNCHANGED <<slots, state, fast, slot, session, history>>

(***************************************************************************)
(* apply-pending, run by init, and apply_system                            *)
(***************************************************************************)
\* no request, or one whose package is gone, changed or incompatible
NothingToApply ==
    /\ pc = "apply"
    /\ pc' = "launch"
    /\ UNCHANGED <<slots, state, fast, slot, session, history>>

AcceptRequest ==
    /\ pc = "apply" /\ request # None /\ Compatible(request)
    /\ pc' = "copy"
    /\ UNCHANGED <<slots, state, fast, slot, session, history>>

\* the temporary image has been read back before it is renamed
ReplaceImage ==
    /\ pc = "copy"
    /\ image' = [image EXCEPT ![Inactive] = request.version]
    /\ pc' = "digest" /\ overrun' = IF overrun = "no" /\ slot = Inactive THEN "trial" ELSE overrun
    /\ UNCHANGED <<digest, verified, state, fast, slot, session, tried, late>>

WriteDigest ==
    /\ pc = "digest"
    /\ digest' = [digest EXCEPT ![Inactive] = request.version]
    /\ pc' = "publish"
    /\ UNCHANGED <<image, verified, state, fast, slot, session, history>>

\* manifest and signature, os.sync, PLUMBOOT back to read-only
Publish ==
    /\ pc = "publish"
    /\ pc' = "pend"
    /\ UNCHANGED <<slots, state, fast, slot, session, history>>

SetPending ==
    /\ pc = "pend"
    /\ pending' = Inactive /\ pc' = "unmark"
    /\ tried' = FALSE /\ late' = FALSE
    /\ UNCHANGED <<slots, active, attempted, request, clean, fast, slot, session, overrun>>

ClearAttempted ==
    /\ pc = "unmark"
    /\ attempted' = FALSE /\ pc' = "consume"
    /\ UNCHANGED <<slots, active, pending, request, clean, fast, slot, session, history>>

ConsumeRequest ==
    /\ pc = "consume"
    /\ request' = None /\ pc' = "reboot"
    /\ UNCHANGED <<slots, active, pending, attempted, clean, fast, slot, session, history>>

\* an exception: exit 1, and init starts the frontend ("current generation
\* retained"), also when the pending slot is on record already
StageFails ==
    /\ pc \in {"copy", "digest", "publish", "pend", "unmark", "consume", "reboot"}
    /\ late' = (late \/ pc \in {"unmark", "consume", "reboot"})
    /\ pc' = "launch"
    /\ UNCHANGED <<slots, state, fast, slot, session, tried, overrun>>

\* plumos-power-action: exit code 20 of apply-pending, or the user.  The markers
\* need a verified active slot and both unmounts.
PowerAction ==
    /\ pc \in {"reboot", "session"} /\ Off
    /\ clean' \in {FALSE, verified[active] # Absent}
    /\ UNCHANGED <<slots, active, pending, attempted, request, history>>

(***************************************************************************)
(* The session                                                             *)
(***************************************************************************)
LaunchFrontend ==
    /\ pc = "launch"
    /\ pc' = "session" /\ frontend' = "starting"
    /\ confirm' = "polling" /\ lock' = "free"
    /\ UNCHANGED <<slots, state, fast, slot, history>>

FrontendReady ==
    /\ frontend = "starting"
    /\ frontend' = "ready"
    /\ UNCHANGED <<slots, state, boot, confirm, lock, history>>

ConfirmStart ==
    /\ confirm = "polling" /\ frontend = "ready" /\ lock = "free"
    /\ IF pending # None THEN confirm' = "promote" /\ lock' = "confirm"
                         ELSE confirm' = "over" /\ UNCHANGED lock
    /\ UNCHANGED <<slots, state, boot, frontend, history>>

\* "another update operation is already running"
ConfirmBusy ==
    /\ confirm = "polling" /\ frontend = "ready" /\ lock # "free"
    /\ confirm' = "over"
    /\ UNCHANGED <<slots, state, boot, frontend, lock, history>>

ConfirmTimeout ==
    /\ confirm = "polling" /\ frontend # "ready"
    /\ confirm' = "over"
    /\ UNCHANGED <<slots, state, boot, frontend, lock, history>>

ConfirmPromote ==
    /\ confirm = "promote"
    /\ active' = pending /\ confirm' = "unpend"
    /\ overrun' = IF overrun = "trial" THEN "active" ELSE overrun
    /\ UNCHANGED <<slots, pending, attempted, request, clean, boot, frontend, lock, tried, late>>

ConfirmUnpend ==
    /\ confirm = "unpend"
    /\ pending' = None /\ confirm' = "unmark"
    /\ UNCHANGED <<slots, active, attempted, request, clean, boot, frontend, lock, history>>

ConfirmUnmark ==
    /\ confirm = "unmark"
    /\ attempted' = FALSE /\ confirm' = "over" /\ lock' = "free"
    /\ UNCHANGED <<slots, active, pending, request, clean, boot, frontend, history>>

ConfirmFails ==
    /\ confirm \in {"promote", "unpend", "unmark"}
    /\ confirm' = "over" /\ lock' = "free"
    /\ UNCHANGED <<slots, state, boot, frontend, history>>

RequestStart ==
    /\ frontend = "ready" /\ lock = "free"
    /\ lock' = "ui"
    /\ UNCHANGED <<slots, state, boot, frontend, confirm, history>>

RequestLatest(p) ==
    /\ lock = "ui" /\ Compatible(p)
    /\ request' = p /\ lock' = "free"
    /\ UNCHANGED <<slots, active, pending, attempted, clean, boot, frontend, confirm, history>>

RequestNone ==
    /\ lock = "ui"
    /\ lock' = "free"
    /\ UNCHANGED <<slots, state, boot, frontend, confirm, history>>

-----------------------------------------------------------------------------
Initramfs ==
    \/ InspectFastBoot \/ SelectActive \/ SelectTrial \/ SelectRollback
    \/ DropPending \/ ForgetAttempt \/ RemoveCleanMarkers
    \/ VerifyPasses \/ VerifyFails

ApplySystem ==
    \/ NothingToApply \/ AcceptRequest \/ ReplaceImage \/ WriteDigest \/ Publish
    \/ SetPending \/ ClearAttempted \/ ConsumeRequest \/ StageFails

MarkHealthy ==
    \/ ConfirmStart \/ ConfirmBusy \/ ConfirmTimeout
    \/ ConfirmPromote \/ ConfirmUnpend \/ ConfirmUnmark \/ ConfirmFails

Request == RequestStart \/ (\E p \in Packages : RequestLatest(p)) \/ RequestNone

Next ==
    \/ PowerOff \/ DamageCandidate \/ PowerOn \/ PowerAction
    \/ Initramfs \/ ApplySystem \/ LaunchFrontend \/ FrontendReady
    \/ MarkHealthy \/ Request

Spec == Init /\ [][Next]_vars

-----------------------------------------------------------------------------
(* Properties                                                               *)

\* The updater never makes the device unbootable: with power cuts and failing
\* writes anywhere and a staged image that goes bad, the initramfs finds an intact
\* slot.  The one exception: a trial system that replaced its own image is promoted.
NeverRecovery == pc = "recovery" => overrun = "active"

\* Only intact images run: the fast boot, which checks no digest, only happens
\* on an image that an earlier boot verified and nothing replaced since.
RunsIntact ==
    Running /\ overrun = "no" => image[slot] \in Versions /\ image[slot] = digest[slot]

\* The contract of TrialBoot: one trial, promotion by a ready trial only, but for
\* what a staging that failed late brings about.
Candidate == IF pending \in {None, active} THEN None ELSE digest[pending]

Contract == INSTANCE TrialBoot WITH
    active <- digest[active],
    candidate <- Candidate,
    trial <- IF Candidate = None THEN "none"
             ELSE IF ~tried THEN "due"
             ELSE IF slot = pending THEN "begun" ELSE "spent",
    running <- IF Running THEN digest[slot] ELSE None,
    fault <- IF overrun # "no" THEN "overrun"
             ELSE IF Candidate # None /\ late THEN "late" ELSE "none"

ImplementsTrialBoot == Contract!Spec

=============================================================================
