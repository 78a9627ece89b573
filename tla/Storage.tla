------------------------------ MODULE Storage -------------------------------
(***************************************************************************)
(* The persistent partitions p3 (PLUMOS_SYS, ext4) and p4 (PLUMOS, FAT32)  *)
(* from the first boot to each shutdown: provisioning and fast boot in the *)
(* initramfs (scripts/v90s-four-partition-init), the clean shutdown of the *)
(* power action (scripts/plumos-power-action-rootfs.sh).  A mark is a file *)
(* whose existence is read at boot.  Until a sync the card may hold the    *)
(* old or the new state of each mark.  Slots are SystemUpdate's subject:   *)
(* here they may refuse any fast boot.                                     *)
(***************************************************************************)
EXTENDS Naturals

CONSTANT Faults  \* what may go wrong: power cuts, failing checks, I/O errors,
                 \* processes that survive the shutdown, an export to the PC

FaultKinds == {"power", "check", "io", "busy", "export"}

ASSUME FaultsAssumption == Faults \subseteq FaultKinds

\* provision/complete, system-<slot>.verified.sha256, clean-shutdown on p3;
\* the seeded directories and the dot files on p4
Marks(p) ==
    IF p = "p3" THEN {"complete", "verified", "clean3"}
                ELSE {"seeding", "dirs", "ready", "clean4"}

Partitions == {"p3", "p4"}
CleanMarks == {"clean3", "clean4"}
FastMarks == {"complete", "verified", "ready"} \cup CleanMarks

VARIABLES
    (* the card *)
    part3,     \* size of the p3 partition: seed, target
    ext4,      \* size of its file system: seed, target
    p4,        \* none, raw (created, no file system), vfat, foreign
    card,      \* marks on the card
    (* the kernel *)
    seen,      \* marks as the mounted file systems show them
    mounted,   \* partitions mounted read-write
    open,      \* partitions that running programs use
    (* the scripts *)
    pc,        \* where the initramfs or the power action is
    prov,      \* PROVISIONING
    resize,    \* P3_RESIZE_REQUIRED
    fast,      \* FAST_BOOT
    recorded,  \* CLEAN_MARKERS_RECORDED
    failed,    \* partitions whose p3_clean or p4_clean is 0
    (* history *)
    unclean,   \* partitions mounted read-write and neither unmounted nor checked since
    ended,     \* how the last session ended
    why        \* why the initramfs went to recovery

disk == <<part3, ext4, p4>>
boot == <<prov, resize, fast>>
power == <<recorded, failed>>
vars == <<part3, ext4, p4, card, seen, mounted, open, pc, prov, resize, fast,
          recorded, failed, unclean, ended, why>>

BootSteps ==
    {"inspect", "ext4", "resize", "userdata", "format", "fat", "mount",
     "seed", "tree", "commit", "persist", "consume", "flush", "verify", "handoff"}
StopSteps == {"stop", "record", "sync", "umount4", "umount3", "log", "unlog", "final"}

TypeOK ==
    /\ part3 \in {"seed", "target"} /\ ext4 \in {"seed", "target"}
    /\ p4 \in {"none", "raw", "vfat", "foreign"}
    /\ card \subseteq Marks("p3") \cup Marks("p4")
    /\ seen \subseteq Marks("p3") \cup Marks("p4")
    /\ mounted \subseteq Partitions /\ open \subseteq mounted
    /\ failed \subseteq Partitions /\ unclean \subseteq Partitions
    /\ pc \in BootSteps \cup StopSteps \cup {"off", "running", "recovery"}
    /\ prov \in BOOLEAN /\ resize \in BOOLEAN /\ fast \in BOOLEAN
    /\ recorded \in BOOLEAN
    /\ ended \in {"new", "running", "quiesced", "unmounted", "failed"}
    /\ why \in {"none", "layout", "check", "io"}
    /\ (ext4 = "target" => part3 = "target") /\ (mounted = {} => card = seen)

-----------------------------------------------------------------------------
\* a card as it is flashed, or one that a PC has given a fourth partition
Init ==
    /\ part3 = "seed" /\ ext4 = "seed" /\ p4 \in {"none", "foreign"}
    /\ card = {} /\ seen = {} /\ mounted = {} /\ open = {}
    /\ pc = "off" /\ prov = FALSE /\ resize = FALSE /\ fast = FALSE
    /\ recorded = FALSE /\ failed = {}
    /\ unclean = {} /\ ended = "new" /\ why = "none"

Goto(s) == pc' = s
Recover(w) == pc' = "recovery" /\ why' = w

\* write marks without a sync
Write(marks) == seen' = marks /\ UNCHANGED card
Sync == card' = seen /\ UNCHANGED seen

\* how the session ends if power goes now; a boot only spoils a clean end
EndedNow ==
    CASE pc \in BootSteps \cup {"recovery"} ->
            IF ended = "unmounted" /\ mounted # {} THEN "quiesced" ELSE ended
      [] pc \in {"running", "stop", "record"} -> "running"
      [] pc \in StopSteps \ {"stop", "record"} ->
            IF recorded /\ failed = {} THEN "quiesced" ELSE "failed"

\* Power is cut: of every unsynced change the card has the old or the new state.
PowerCut ==
    /\ "power" \in Faults /\ pc # "off"
    /\ \E d \in SUBSET (card \cup seen) :
          card \cap seen \subseteq d /\ card' = d /\ seen' = d
    /\ mounted' = {} /\ open' = {}
    /\ unclean' = IF pc = "resize" THEN unclean \cup {"p3"} ELSE unclean
    /\ ended' = EndedNow
    /\ Goto("off")
    /\ UNCHANGED <<disk, boot, power, why>>

PowerOn ==
    /\ pc = "off" /\ Goto("inspect")
    /\ prov' = FALSE /\ resize' = FALSE /\ fast' = FALSE
    /\ recorded' = FALSE /\ failed' = {} /\ why' = "none"
    /\ UNCHANGED <<disk, card, seen, mounted, open, unclean, ended>>

(***************************************************************************)
(* initramfs                                                               *)
(***************************************************************************)
AcceptFast ==
    /\ pc = "inspect" /\ part3 = "target" /\ p4 = "vfat"
    /\ FastMarks \subseteq card
    /\ fast' = TRUE /\ Goto("userdata")
    /\ UNCHANGED <<disk, card, seen, mounted, open, prov, resize, power,
                   unclean, ended, why>>

\* a mark is missing, or the slots refuse, or there is no p4 to inspect
RejectFast ==
    /\ pc = "inspect" /\ part3 = "target" /\ p4 \in {"vfat", "none"}
    /\ Goto("ext4")
    /\ UNCHANGED <<disk, card, seen, mounted, open, boot, power,
                   unclean, ended, why>>

\* p4 is not a FAT file system called PLUMOS
InspectFails ==
    /\ pc = "inspect" /\ part3 = "target" /\ p4 \in {"raw", "foreign"}
    /\ Recover("layout")
    /\ UNCHANGED <<disk, card, seen, mounted, open, boot, power, unclean, ended>>

\* mutant: p3 grows over whatever follows it
MutantGrow ==
    /\ pc = "inspect" /\ part3 = "seed"
    /\ part3' = "target" /\ prov' = TRUE /\ resize' = TRUE /\ Goto("ext4")
    /\ UNCHANGED <<ext4, p4, card, seen, mounted, open, fast, power,
                   unclean, ended, why>>

GrowPartition ==
    /\ pc = "inspect" /\ part3 = "seed" /\ p4 = "none"
    /\ part3' = "target" /\ prov' = TRUE /\ resize' = TRUE /\ Goto("ext4")
    /\ UNCHANGED <<ext4, p4, card, seen, mounted, open, fast, power,
                   unclean, ended, why>>

GrowFails ==
    /\ pc = "inspect" /\ part3 = "seed"
    /\ \/ p4 # "none" /\ Recover("layout")
       \/ p4 = "none" /\ "io" \in Faults /\ Recover("io")
    /\ UNCHANGED <<disk, card, seen, mounted, open, boot, power, unclean, ended>>

\* e2fsck -pf; without provision/complete the resize is repeated
CheckExt4 ==
    /\ pc = "ext4"
    /\ unclean' = unclean \ {"p3"}
    /\ IF resize \/ "complete" \notin card
       THEN prov' = TRUE /\ resize' = TRUE /\ Goto("resize")
       ELSE UNCHANGED <<prov, resize>> /\ Goto("userdata")
    /\ UNCHANGED <<disk, card, seen, mounted, open, fast, power, ended, why>>

CheckFails ==
    /\ "check" \in Faults
    /\ \/ pc = "ext4" /\ "p3" \in unclean
       \/ pc = "fat" /\ ~fast /\ "p4" \in unclean
    /\ Recover("check")
    /\ UNCHANGED <<disk, card, seen, mounted, open, boot, power, unclean, ended>>

ResizeExt4 ==
    /\ pc = "resize"
    /\ ext4' = "target" /\ Goto("userdata")
    /\ UNCHANGED <<part3, p4, card, seen, mounted, open, boot, power,
                   unclean, ended, why>>

\* an existing p4 has been inspected
CreateUserdata ==
    /\ pc = "userdata"
    /\ \/ p4 = "none" /\ p4' = "raw" /\ prov' = TRUE /\ Goto("format")
       \/ p4 = "vfat" /\ Goto("fat") /\ UNCHANGED <<p4, prov>>
    /\ UNCHANGED <<part3, ext4, card, seen, mounted, open, resize, fast, power,
                   unclean, ended, why>>

FormatUserdata ==
    /\ pc = "format"
    /\ p4' = "vfat" /\ Goto("fat")
    /\ UNCHANGED <<part3, ext4, card, seen, mounted, open, boot, power,
                   unclean, ended, why>>

\* resize2fs, parted mkpart or mkfs.fat fails
StepFails ==
    /\ "io" \in Faults
    /\ \/ pc \in {"resize", "format"}
       \/ pc = "userdata" /\ p4 = "none"
    /\ Recover("io")
    /\ UNCHANGED <<disk, card, seen, mounted, open, boot, power, unclean, ended>>

\* fsck.fat -a, left out by a fast boot
CheckFat ==
    /\ pc = "fat"
    /\ unclean' = IF fast THEN unclean ELSE unclean \ {"p4"}
    /\ Goto("mount")
    /\ UNCHANGED <<disk, card, seen, mounted, open, boot, power, ended, why>>

MountRuntime ==
    /\ pc = "mount"
    /\ mounted' = Partitions /\ unclean' = Partitions
    /\ LET again == prov \/ ~({"complete", "ready"} \subseteq seen) \/ "seeding" \in seen
       IN  prov' = again /\ Goto(IF again THEN "seed" ELSE "consume")
    /\ UNCHANGED <<disk, card, seen, open, resize, fast, power, ended, why>>

SeedBegin ==
    /\ pc = "seed" /\ Write(seen \cup {"seeding"}) /\ Goto("tree")
    /\ UNCHANGED <<disk, mounted, open, boot, power, unclean, ended, why>>

\* mutant: the tree is not synced before it is declared ready
MutantSeedTree ==
    /\ pc = "tree" /\ Write(seen \cup {"dirs"}) /\ Goto("commit")
    /\ UNCHANGED <<disk, mounted, open, boot, power, unclean, ended, why>>

\* mkdir, sync
SeedTree ==
    /\ pc = "tree"
    /\ seen' = seen \cup {"dirs"} /\ card' = seen' /\ Goto("commit")
    /\ UNCHANGED <<disk, mounted, open, boot, power, unclean, ended, why>>

SeedCommit ==
    /\ pc = "commit"
    /\ Write((seen \ {"seeding"}) \cup {"ready"}) /\ Goto("persist")
    /\ UNCHANGED <<disk, mounted, open, boot, power, unclean, ended, why>>

\* persist_progress userdata-seeded
SeedPersist ==
    /\ pc = "persist" /\ Sync /\ Goto("consume")
    /\ UNCHANGED <<disk, mounted, open, boot, power, unclean, ended, why>>

\* mutant: the markers stay
MutantConsume ==
    /\ pc = "consume" /\ Write(seen) /\ Goto("flush")
    /\ UNCHANGED <<disk, mounted, open, boot, power, unclean, ended, why>>

ConsumeMarks ==
    /\ pc = "consume" /\ Write(seen \ CleanMarks) /\ Goto("flush")
    /\ UNCHANGED <<disk, mounted, open, boot, power, unclean, ended, why>>

FlushMarks ==
    /\ pc = "flush" /\ Sync /\ Goto("verify")
    /\ UNCHANGED <<disk, mounted, open, boot, power, unclean, ended, why>>

VerifySystem ==
    /\ pc = "verify"
    /\ seen' = IF fast THEN seen ELSE seen \cup {"verified"}
    /\ card' = seen' /\ Goto("handoff")
    /\ UNCHANGED <<disk, mounted, open, boot, power, unclean, ended, why>>

\* provision/complete, sync, switch_root
Handoff ==
    /\ pc = "handoff"
    /\ seen' = IF prov THEN seen \cup {"complete"} ELSE seen
    /\ card' = seen' /\ open' = mounted /\ Goto("running")
    /\ UNCHANGED <<disk, mounted, boot, power, unclean, ended, why>>

(***************************************************************************)
(* the running system and its power action                                 *)
(***************************************************************************)
\* USB Disk Mode unmounts p4 and lets the PC write to it
ExportUserdata ==
    /\ pc = "running" /\ "export" \in Faults /\ "p4" \in mounted
    /\ mounted' = {"p3"} /\ open' = {"p3"} /\ unclean' = Partitions
    /\ UNCHANGED <<disk, card, seen, pc, boot, power, ended, why>>

ReturnUserdata ==
    /\ pc = "running" /\ "p4" \notin mounted
    /\ mounted' = Partitions /\ open' = Partitions
    /\ UNCHANGED <<disk, card, seen, pc, boot, power, unclean, ended, why>>

Exported == pc \in StopSteps /\ "p4" \notin mounted /\ "p4" \in unclean

PowerAction ==
    /\ pc = "running" /\ Goto("stop")
    /\ UNCHANGED <<disk, card, seen, mounted, open, boot, power, unclean, ended, why>>

\* programs that use p after they were told to stop, or were started meanwhile
Users(m) == IF "busy" \in Faults THEN SUBSET m ELSE {{}}

\* stop_app_layer_writers, stop_persistent_storage_users
StopUsers ==
    /\ pc = "stop" /\ open' \in Users(mounted) /\ Goto("record")
    /\ UNCHANGED <<disk, card, seen, mounted, boot, power, unclean, ended, why>>

\* record_clean_shutdown; a marker that cannot be written takes the other along
RecordClean ==
    /\ pc = "record" /\ Goto("sync")
    /\ \/ /\ {"verified", "complete", "ready"} \subseteq seen /\ ~Exported
          /\ Write(seen \cup CleanMarks) /\ recorded' = TRUE
       \/ /\ ~({"verified", "complete", "ready"} \subseteq seen /\ ~Exported) \/ "io" \in Faults
          /\ UNCHANGED <<card, seen, recorded>>
    /\ UNCHANGED <<disk, mounted, open, boot, failed, unclean, ended, why>>

SyncMarks ==
    /\ pc = "sync" /\ Sync /\ Goto("umount4")
    /\ UNCHANGED <<disk, mounted, open, boot, power, unclean, ended, why>>

CleanMark(p) == IF p = "p3" THEN "clean3" ELSE "clean4"

\* mutant: the result of the second attempt is ignored
MutantUnmount(p) ==
    \/ p \notin mounted /\ UNCHANGED <<card, seen, mounted, open, failed, unclean>>
    \/ /\ p \in mounted
       /\ \E o \in Users(mounted) :
             IF p \in o
             THEN /\ open' = o
                  /\ UNCHANGED <<card, seen, mounted, unclean, failed>>
             ELSE /\ mounted' = mounted \ {p} /\ open' = o
                  /\ unclean' = unclean \ {p}
                  /\ card' = (card \ Marks(p)) \cup (seen \cap Marks(p))
                  /\ UNCHANGED <<seen, failed>>

\* unmount_if_mounted and retry_persistent_unmount; if both fail the marker goes
Unmount(p) ==
    \/ p \notin mounted /\ UNCHANGED <<card, seen, mounted, open, failed, unclean>>
    \/ /\ p \in mounted
       /\ \E o \in Users(mounted) :
             IF p \in o
             THEN /\ failed' = failed \cup {p} /\ open' = o
                  /\ seen' = seen \ {CleanMark(p)} /\ card' = seen'
                  /\ UNCHANGED <<mounted, unclean>>
             ELSE /\ mounted' = mounted \ {p} /\ open' = o
                  /\ unclean' = unclean \ {p}
                  /\ card' = (card \ Marks(p)) \cup (seen \cap Marks(p))
                  /\ UNCHANGED <<seen, failed>>

UnmountUser ==
    /\ pc = "umount4" /\ Unmount("p4") /\ Goto("umount3")
    /\ UNCHANGED <<disk, boot, recorded, ended, why>>

UnmountSystem ==
    /\ pc = "umount3" /\ Unmount("p3")
    /\ Goto(IF recorded /\ failed' = {} THEN "final" ELSE "log")
    /\ UNCHANGED <<disk, boot, recorded, ended, why>>

\* persist_final_log_to_user_storage mounts p4 again, where it was unmounted
LogFinal ==
    /\ pc = "log"
    /\ \/ Goto("final") /\ UNCHANGED <<mounted, unclean>>
       \/ /\ "p4" \notin mounted /\ ~Exported
          /\ mounted' = mounted \cup {"p4"} /\ unclean' = unclean \cup {"p4"}
          /\ Goto("unlog")
    /\ UNCHANGED <<disk, card, seen, open, boot, power, ended, why>>

LogUnmount ==
    /\ pc = "unlog" /\ Goto("final")
    /\ mounted' = mounted \ {"p4"} /\ unclean' = unclean \ {"p4"}
    /\ UNCHANGED <<disk, card, seen, open, boot, power, ended, why>>

\* prepare_sysrq_final_action and the reboot or power off
FinalAction ==
    /\ pc = "final" /\ Goto("off")
    /\ Sync /\ mounted' = {} /\ open' = {}
    /\ ended' = IF recorded /\ failed = {} THEN "unmounted" ELSE "failed"
    /\ UNCHANGED <<disk, boot, power, unclean, why>>

-----------------------------------------------------------------------------
BootStep ==
    \/ AcceptFast \/ RejectFast \/ InspectFails \/ GrowPartition \/ GrowFails
    \/ CheckExt4 \/ ResizeExt4 \/ CreateUserdata \/ FormatUserdata \/ StepFails
    \/ CheckFat \/ CheckFails \/ MountRuntime \/ SeedBegin \/ SeedTree
    \/ SeedCommit \/ SeedPersist \/ ConsumeMarks \/ FlushMarks \/ VerifySystem
    \/ Handoff

StopStep ==
    \/ StopUsers \/ RecordClean \/ SyncMarks \/ UnmountUser \/ UnmountSystem
    \/ LogFinal \/ LogUnmount \/ FinalAction

\* the user turns a device in recovery off
SwitchOff ==
    /\ pc = "recovery" /\ Goto("off")
    /\ UNCHANGED <<disk, card, seen, mounted, open, boot, power, unclean, ended, why>>

Next ==
    \/ PowerOn \/ PowerCut \/ SwitchOff \/ BootStep
    \/ ExportUserdata \/ ReturnUserdata \/ PowerAction \/ StopStep

Spec == Init /\ [][Next]_vars

-----------------------------------------------------------------------------
(***************************************************************************)
(* provision/complete on the card, which lets later boots leave the resize *)
(* and the seeding out, is true of the card: whatever power cuts happened  *)
(* during the first boots, p3 has its final size, p4 its file system and   *)
(* its tree; and .plumos-ready is never on a card that lacks part of the   *)
(* tree it vouches for.                                                    *)
(***************************************************************************)
MarksTrue ==
    /\ "complete" \in card =>
          /\ part3 = "target" /\ ext4 = "target" /\ p4 = "vfat"
          /\ {"verified", "dirs", "ready"} \subseteq card
    /\ "ready" \in card => "dirs" \in card

\* A boot leaves the file system checks out only if the last session ended in a
\* power action that had stopped the programs: never after a power cut in the
\* running system, a failed unmount or an export that the shutdown found open.
CrashedSessionChecked ==
    fast /\ pc \in BootSteps => ended \in {"unmounted", "quiesced"}

\* After an undisturbed power action, the partitions whose check the fast boot
\* leaves out were both unmounted, however often the boot itself is repeated.
FastBootClean ==
    fast /\ pc \in {"userdata", "fat", "mount"} /\ ended = "unmounted" => unclean = {}

\* Provisioning never formats or overlaps a fourth partition that has a file
\* system, the user's or an earlier boot's.
UserdataKept ==
    [][(p4 \in {"vfat", "foreign"}) => p4' = p4 /\ part3' = part3]_vars
=============================================================================
