----------------------------- MODULE UsbDiskMode -----------------------------
(***************************************************************************)
(* USB Disk Mode: the shell processes of plumos-usb-disk-mode, which hand  *)
(* the FAT partition p4 to a PC and take it back, run the command mailbox, *)
(* and pause the file services and ADB meanwhile.  A process is one        *)
(* session; no lock orders the sessions.  ftp, sftp and samba are one      *)
(* service, the content bindings one binding.                              *)
(***************************************************************************)
EXTENDS Naturals

CONSTANTS
    Sessions,    \* helper processes
    Verbs,       \* the commands that are given
    Batches,     \* batches that the PC may put in the mailbox
    None,        \* empty mailbox, unbound controller
    Interrupts   \* what may interrupt: INT, TERM or HUP; power cuts; a full p3

ASSUME ConstantsAssumption ==
    /\ Verbs \subseteq {"enter", "leave", "mount", "unmount", "commands"}
    /\ None \notin Batches /\ None \notin {"disk", "adb"}
    /\ Interrupts \subseteq {"signal", "power", "full"}

VARIABLES
    (* the helper processes *)
    at,          \* next step of each session
    shell,       \* its shell variables
    (* p4 *)
    mounted,     \* p4 is mounted at MOUNT_DIR
    bound,       \* roms, bios, Images and themes are bound to p4
    dirty,       \* the PC owned p4 since its last check
    mailbox,     \* batch armed in commands/
    stored,      \* the mailbox that a power cut leaves
    (* the USB controller *)
    cable,       \* a powered PC is attached
    udc,         \* gadget bound to the controller: "disk", "adb" or None
    settling,    \* a plumos-adb-uevent helper sleeps before its recover
    (* services *)
    enabled,     \* services.conf, on p3
    serving,     \* the services run
    backup,      \* services.conf.before-usb
    adb,         \* adbd runs
    marks,       \* restore-network-services, restore-adb
    (* history *)
    wanted,      \* what the user enabled: services, ADB
    disturbed,   \* this device meets the Interrupts; it never changes
    given,       \* batches that the PC armed
    runs,        \* executions of each batch
    withheld     \* p4 was left unmounted on purpose

p4 == <<mounted, bound, dirty, mailbox, stored>>
usb == <<cable, udc, settling>>
services == <<enabled, serving, backup, adb, marks>>
history == <<wanted, disturbed, given, runs, withheld>>
vars == <<at, shell, mounted, bound, dirty, mailbox, stored, cable, udc, settling,
          enabled, serving, backup, adb, marks, wanted, disturbed, given, runs, withheld>>

Marks == {"services", "adb"}

Steps ==
    {"resolve", "backup", "stop", "reconf", "mark", "stopadb", "unbind",
     "umount", "released", "setup", "active", "wait", "teardown", "check",
     "fsck", "mount", "ready", "bind", "process", "mailbox", "copy", "remove",
     "sync", "exec", "restore", "readb"}

(* What a fresh process starts with: EXPORT_DEVICE unset, all flags 0.     *)
Fresh == [verb |-> None, dev |-> FALSE, active |-> FALSE, released |-> FALSE,
          marks |-> {}, seen |-> FALSE, batch |-> None,
          ok |-> "idle", ko |-> "idle", trap |-> FALSE]

Shells == [verb : Verbs \cup {None}, dev : BOOLEAN, active : BOOLEAN,
           released : BOOLEAN, marks : SUBSET Marks, seen : BOOLEAN,
           batch : Batches \cup {None}, ok : Steps \cup {"idle"},
           ko : Steps \cup {"idle"}, trap : BOOLEAN]

TypeOK ==
    /\ at \in [Sessions -> Steps \cup {"idle"}]
    /\ shell \in [Sessions -> Shells]
    /\ mounted \in BOOLEAN /\ bound \in BOOLEAN /\ dirty \in BOOLEAN
    /\ mailbox \in Batches \cup {None} /\ stored \in Batches \cup {None}
    /\ cable \in BOOLEAN /\ udc \in {"disk", "adb", None} /\ settling \in BOOLEAN
    /\ enabled \in BOOLEAN /\ serving \in BOOLEAN /\ backup \in BOOLEAN
    /\ adb \in BOOLEAN /\ marks \subseteq Marks
    /\ wanted \subseteq Marks /\ disturbed \in BOOLEAN /\ withheld \in BOOLEAN
    /\ given \subseteq Batches /\ runs \in [Batches -> Nat]

Idle(s) == at[s] = "idle"

Meets(interrupt) == disturbed /\ interrupt \in Interrupts

AllIdle == \A s \in Sessions : Idle(s)

(* A booted device: init mounted and bound p4, start-enabled started what  *)
(* services.conf enables.                                                  *)
Init ==
    /\ at = [s \in Sessions |-> "idle"] /\ shell = [s \in Sessions |-> Fresh]
    /\ mounted = TRUE /\ bound = TRUE /\ dirty = FALSE
    /\ mailbox = None /\ stored = None
    /\ wanted \in SUBSET Marks /\ disturbed \in BOOLEAN
    /\ enabled = ("services" \in wanted) /\ serving = enabled
    /\ adb = ("adb" \in wanted) /\ udc = (IF adb THEN "adb" ELSE None)
    /\ cable = FALSE /\ settling = FALSE /\ backup = FALSE /\ marks = {}
    /\ given = {} /\ runs = [b \in Batches |-> 0] /\ withheld = FALSE

Go(s, step) == at' = [at EXCEPT ![s] = step]

Move(s, from, step) == at[s] = from /\ Go(s, step)

Keep(s, step) == Go(s, step) /\ UNCHANGED shell

(* Leave the process: nothing of its variables survives.                   *)
Exit(s) == Go(s, "idle") /\ shell' = [shell EXCEPT ![s] = Fresh]

To(s, step) == IF step = "idle" THEN Exit(s) ELSE Keep(s, step)

(* Call mount_userdata and continue at ok or ko.                           *)
CallMount(s, sh, ok, ko) ==
    /\ Go(s, "check")
    /\ shell' = [shell EXCEPT ![s] = [sh EXCEPT !.ok = ok, !.ko = ko]]

-----------------------------------------------------------------------------
(* Commands *)

Start(s) ==
    /\ Idle(s)
    /\ \E v \in Verbs :
         LET sh == [Fresh EXCEPT !.verb = v] IN
         CASE v = "mount" -> CallMount(s, sh, "idle", "idle")
           [] OTHER ->
                /\ shell' = [shell EXCEPT ![s] = sh]
                /\ Go(s, CASE v = "leave" -> "teardown"
                           [] v = "commands" -> "process"
                           [] OTHER -> "resolve")
    /\ UNCHANGED <<p4, usb, services, history>>

(* resolve_export_device at the head of enter_mode and unmount_userdata:   *)
(* the card may fail to identify itself.                                   *)
Resolve(s) ==
    /\ at[s] = "resolve"
    /\ \/ Exit(s)
       \/ /\ shell' = [shell EXCEPT ![s].dev = TRUE]
          /\ Go(s, IF shell[s].verb = "enter" THEN "backup" ELSE "unbind")
    /\ UNCHANGED <<p4, usb, services, history>>

(* pause_network_services *)
Backup(s) ==
    /\ at[s] = "backup"
    /\ \/ Keep(s, "stop") /\ backup' = enabled
       \/ Exit(s) /\ UNCHANGED backup
    /\ UNCHANGED <<p4, usb, enabled, serving, adb, marks, history>>

StopServices(s) ==
    /\ Move(s, "stop", "reconf")
    /\ enabled' = FALSE /\ serving' = FALSE
    /\ UNCHANGED <<shell, p4, usb, backup, adb, marks, history>>

RestoreConf(s) ==
    /\ Move(s, "reconf", "mark")
    /\ enabled' = backup
    /\ UNCHANGED <<shell, p4, usb, serving, backup, adb, marks, history>>

(* cp to p3 fails: enter_mode returns.                                     *)
RestoreConfFails(s) ==
    /\ at[s] = "reconf" /\ Meets("full")
    /\ Exit(s)
    /\ UNCHANGED <<p4, usb, services, history>>

MarkServices(s) ==
    /\ Move(s, "mark", "stopadb")
    /\ marks' = marks \cup {"services"}
    /\ shell' = [shell EXCEPT ![s].marks = @ \cup {"services"}]
    /\ UNCHANGED <<p4, usb, enabled, serving, backup, adb, history>>

(* stop_adb_for_transfer: the marker is written before adbd is stopped.    *)
StopAdb(s) ==
    /\ Move(s, "stopadb", "unbind")
    /\ IF adb
       THEN /\ marks' = marks \cup {"adb"}
            /\ shell' = [shell EXCEPT ![s].marks = @ \cup {"adb"}]
            /\ adb' = FALSE /\ udc' = IF udc = "adb" THEN None ELSE udc
       ELSE UNCHANGED <<marks, shell, adb, udc>>
    /\ UNCHANGED <<p4, cable, settling, enabled, serving, backup, history>>

(* Mutant: a failed unmount ends enter_mode at once.                       *)
MutantAfterBusy(s) == "idle"

(* unmount_userdata; when a binding or p4 is busy it mounts again and      *)
(* fails.                                                                  *)
AfterBusy(s) == IF shell[s].verb = "enter" THEN "restore" ELSE "idle"

Unbind(s) ==
    /\ at[s] = "unbind"
    /\ \/ Keep(s, "umount") /\ bound' = FALSE
       \/ bound /\ CallMount(s, shell[s], AfterBusy(s), AfterBusy(s)) /\ UNCHANGED bound
    /\ UNCHANGED <<mounted, dirty, mailbox, stored, usb, services, history>>

Umount(s) ==
    /\ at[s] = "umount"
    /\ \/ Keep(s, "released") /\ mounted' = FALSE /\ stored' = mailbox
       \/ /\ mounted
          /\ CallMount(s, shell[s], AfterBusy(s), AfterBusy(s))
          /\ UNCHANGED <<mounted, stored>>
    /\ UNCHANGED <<bound, dirty, mailbox, usb, services, history>>

Released(s) ==
    /\ at[s] = "released"
    /\ IF shell[s].verb = "enter"
       THEN /\ Go(s, "setup")
            /\ shell' = [shell EXCEPT ![s].released = TRUE]
            /\ UNCHANGED withheld
       ELSE Exit(s) /\ withheld' = TRUE
    /\ UNCHANGED <<p4, usb, services, wanted, disturbed, given, runs>>

(* setup_gadget: it rebuilds its own gadget; the controller takes one      *)
(* gadget, so the last write fails while ADB is bound.                     *)
Setup(s) ==
    /\ at[s] = "setup"
    /\ \/ udc # "adb" /\ Keep(s, "active") /\ udc' = "disk"
       \/ /\ CallMount(s, shell[s], "restore", "restore")
          /\ udc' = IF udc = "disk" THEN None ELSE udc
    /\ UNCHANGED <<p4, cable, settling, services, history>>

Active(s) ==
    /\ Move(s, "active", "wait")
    /\ shell' = [shell EXCEPT ![s].active = TRUE]
    /\ UNCHANGED <<p4, usb, services, history>>

(* wait_for_disconnect: udc_state is "not attached" without a cable or     *)
(* without a bound gadget.                                                 *)
Attached == cable /\ udc # None

SeePc(s) ==
    /\ at[s] = "wait" /\ Attached /\ ~shell[s].seen
    /\ shell' = [shell EXCEPT ![s].seen = TRUE]
    /\ UNCHANGED <<at, p4, usb, services, history>>

SeeDisconnect(s) ==
    /\ Move(s, "wait", "teardown") /\ ~Attached /\ shell[s].seen
    /\ shell' = [shell EXCEPT ![s].ok = "process", ![s].ko = "restore"]
    /\ UNCHANGED <<p4, usb, services, history>>

(* Mutant: the deadline counts only once a PC was seen.                    *)
MutantConnectTimeout(s) ==
    /\ Move(s, "wait", "teardown") /\ shell[s].seen
    /\ shell' = [shell EXCEPT ![s].ok = "restore", ![s].ko = "restore"]
    /\ UNCHANGED <<p4, usb, services, history>>

ConnectTimeout(s) ==
    /\ Move(s, "wait", "teardown") /\ ~shell[s].seen
    /\ shell' = [shell EXCEPT ![s].ok = "restore", ![s].ko = "restore"]
    /\ UNCHANGED <<p4, usb, services, history>>

(* teardown_gadget, then mount_userdata                                    *)
Teardown(s) ==
    /\ at[s] = "teardown"
    /\ udc' = IF udc = "disk" THEN None ELSE udc
    /\ LET sh == [shell[s] EXCEPT !.active = FALSE] IN
         IF sh.verb = "leave" THEN CallMount(s, sh, "process", "idle")
                              ELSE CallMount(s, sh, sh.ok, sh.ko)
    /\ UNCHANGED <<p4, cable, settling, services, history>>

-----------------------------------------------------------------------------
(* mount_userdata *)

MountFails(s, left) ==
    /\ To(s, shell[s].ko)
    /\ withheld' = (withheld \/ ~left)

CheckRefused(s) ==
    /\ at[s] = "check" /\ (udc = "disk" \/ ~shell[s].dev)
    /\ MountFails(s, mounted)
    /\ UNCHANGED <<p4, usb, services, wanted, disturbed, given, runs>>

(* Mutant: a bound gadget does not refuse the mount.                       *)
MutantCheck(s) ==
    /\ Move(s, "check", IF mounted THEN "ready" ELSE "fsck")
    /\ shell' = [shell EXCEPT ![s].dev = TRUE]
    /\ UNCHANGED <<p4, usb, services, history>>

Check(s) ==
    /\ Move(s, "check", IF mounted THEN "ready" ELSE "fsck") /\ udc # "disk"
    /\ shell' = [shell EXCEPT ![s].dev = TRUE]
    /\ UNCHANGED <<p4, usb, services, history>>

Fsck(s) ==
    /\ Move(s, "fsck", "mount")
    /\ dirty' = FALSE
    /\ UNCHANGED <<shell, mounted, bound, mailbox, stored, usb, services, history>>

Mount(s) ==
    /\ Move(s, "mount", "ready")
    /\ mounted' = TRUE /\ withheld' = FALSE
    /\ UNCHANGED <<shell, bound, dirty, mailbox, stored, usb, services, wanted, disturbed, given, runs>>

(* fsck.fat exits above 1 or runs into its timeout, or mount fails.        *)
MountRefused(s) ==
    /\ at[s] \in {"fsck", "mount"}
    /\ MountFails(s, mounted)
    /\ UNCHANGED <<p4, usb, services, wanted, disturbed, given, runs>>

Ready(s) ==
    /\ Move(s, "ready", "bind")
    /\ shell' = [shell EXCEPT ![s].released = FALSE]
    /\ UNCHANGED <<p4, usb, services, history>>

(* .plumos-ready is gone: p4 is unmounted again, unless it is busy.        *)
NotReady(s) ==
    /\ at[s] = "ready"
    /\ mounted' \in {FALSE, mounted}
    /\ stored' = IF mounted' THEN stored ELSE mailbox
    /\ MountFails(s, mounted')
    /\ UNCHANGED <<bound, dirty, mailbox, usb, services, wanted, disturbed, given, runs>>

(* The bootstrap binds p4 and validates the app layer.                     *)
Bind(s) ==
    /\ at[s] = "bind"
    /\ \/ bound' = TRUE /\ To(s, shell[s].ok)
       \/ bound' \in BOOLEAN /\ To(s, shell[s].ko)
    /\ UNCHANGED <<mounted, dirty, mailbox, stored, usb, services, history>>

MountUserdata(s) ==
    \/ CheckRefused(s) \/ Check(s) \/ Fsck(s) \/ Mount(s)
    \/ MountRefused(s) \/ Ready(s) \/ NotReady(s) \/ Bind(s)

-----------------------------------------------------------------------------
(* process_commands *)

AfterCommands(s) == IF shell[s].verb = "commands" THEN "idle" ELSE "restore"

Process(s) ==
    /\ at[s] = "process"
    /\ IF udc = "disk" THEN To(s, AfterCommands(s))
                       ELSE CallMount(s, shell[s], "mailbox", AfterCommands(s))
    /\ UNCHANGED <<p4, usb, services, history>>

Mailbox(s) ==
    /\ at[s] = "mailbox"
    /\ To(s, IF mailbox = None THEN AfterCommands(s) ELSE "copy")
    /\ UNCHANGED <<p4, usb, services, history>>

(* The copies of run.sh: cp fails when it is gone.                         *)
Copy(s) ==
    /\ at[s] = "copy"
    /\ \/ /\ mailbox # None /\ Go(s, "remove")
          /\ shell' = [shell EXCEPT ![s].batch = mailbox]
       \/ To(s, AfterCommands(s))
    /\ UNCHANGED <<p4, usb, services, history>>

Remove(s) ==
    /\ Move(s, "remove", "sync")
    /\ mailbox' = None
    /\ UNCHANGED <<shell, mounted, bound, dirty, stored, usb, services, history>>

(* Mutant: the batch starts before its removal is on the card.             *)
MutantSync(s) ==
    /\ Move(s, "sync", "exec")
    /\ UNCHANGED <<shell, p4, usb, services, history>>

Sync(s) ==
    /\ Move(s, "sync", "exec")
    /\ stored' = mailbox
    /\ UNCHANGED <<shell, mounted, bound, dirty, mailbox, usb, services, history>>

Exec(s) ==
    /\ at[s] = "exec"
    /\ runs' = [runs EXCEPT ![shell[s].batch] = @ + 1]
    /\ To(s, AfterCommands(s))
    /\ UNCHANGED <<p4, usb, services, wanted, disturbed, given, withheld>>

ProcessCommands(s) ==
    \/ Process(s) \/ Mailbox(s) \/ Copy(s) \/ Remove(s) \/ Sync(s) \/ Exec(s)

-----------------------------------------------------------------------------
(* restore_network_services and restore_adb *)

RestoreServices(s) ==
    /\ Move(s, "restore", "readb")
    /\ IF "services" \in shell[s].marks \cup marks
       THEN /\ marks' = marks \ {"services"}
            /\ shell' = [shell EXCEPT ![s].marks = @ \ {"services"}]
            /\ serving' = (serving \/ enabled)
       ELSE UNCHANGED <<marks, shell, serving>>
    /\ UNCHANGED <<p4, usb, enabled, backup, adb, history>>

(* plumos-adbd start: refused while another gadget is bound.               *)
AdbStarts == adb' = (udc # "disk") /\ udc' = IF udc = "disk" THEN udc ELSE "adb"

RestoreAdb(s) ==
    /\ at[s] = "readb" /\ Exit(s)
    /\ IF "adb" \in shell[s].marks \cup marks
       THEN marks' = marks \ {"adb"} /\ AdbStarts
       ELSE UNCHANGED <<marks, adb, udc>>
    /\ UNCHANGED <<p4, cable, settling, enabled, serving, backup, history>>

(* cleanup_on_signal: the shell takes a signal between two commands.       *)
Signal(s) ==
    /\ Meets("signal") /\ ~Idle(s) /\ ~shell[s].trap
    /\ udc' = IF shell[s].active /\ udc = "disk" THEN None ELSE udc
    /\ LET sh == [shell[s] EXCEPT !.trap = TRUE] IN
         IF sh.released
         THEN CallMount(s, sh, "restore", "restore")
         ELSE Go(s, "restore") /\ shell' = [shell EXCEPT ![s] = sh]
    /\ UNCHANGED <<p4, cable, settling, services, history>>

-----------------------------------------------------------------------------
(* The PC, ADB and power *)

Cable ==
    /\ cable' = ~cable
    /\ settling' = (settling \/ (cable /\ adb))
    /\ \/ UNCHANGED udc
       \/ cable /\ udc = "adb" /\ udc' = None
    /\ UNCHANGED <<at, shell, p4, services, history>>

(* The PC writes to p4; a batch is armed at most once.                     *)
PcWrites ==
    /\ cable /\ udc = "disk"
    /\ dirty' = TRUE
    /\ \/ UNCHANGED <<mailbox, given>>
       \/ \E b \in Batches \ given : mailbox' = b /\ given' = given \cup {b}
    /\ stored' = mailbox'
    /\ UNCHANGED <<at, shell, mounted, bound, usb, services, wanted, disturbed, runs, withheld>>

(* plumos-adb-uevent after its sleep: recover_mode                         *)
AdbRecover ==
    /\ settling /\ settling' = FALSE
    /\ IF "adb" \in wanted THEN AdbStarts ELSE UNCHANGED <<adb, udc>>
    /\ UNCHANGED <<at, shell, p4, cable, enabled, serving, backup, marks, history>>

(* Power is cut and the device boots: /run is empty, the initramfs checks  *)
(* and mounts p4, the services start as services.conf says.                *)
PowerCycle ==
    /\ Meets("power")
    /\ at' = [s \in Sessions |-> "idle"] /\ shell' = [s \in Sessions |-> Fresh]
    /\ mounted' = TRUE /\ bound' = TRUE /\ dirty' = FALSE /\ withheld' = FALSE
    /\ mailbox' \in {mailbox, stored} /\ stored' = mailbox'
    /\ adb' = ("adb" \in wanted) /\ udc' = IF adb' THEN "adb" ELSE None
    /\ serving' = enabled /\ backup' = FALSE /\ marks' = {} /\ settling' = FALSE
    /\ UNCHANGED <<cable, enabled, wanted, disturbed, given, runs>>

-----------------------------------------------------------------------------
Enter(s) ==
    \/ Backup(s) \/ StopServices(s) \/ RestoreConf(s) \/ RestoreConfFails(s)
    \/ MarkServices(s)
    \/ StopAdb(s) \/ Setup(s) \/ Active(s)
    \/ SeePc(s) \/ SeeDisconnect(s) \/ ConnectTimeout(s)

UnmountUserdata(s) == Unbind(s) \/ Umount(s) \/ Released(s)

Step(s) ==
    \/ Resolve(s) \/ Enter(s) \/ UnmountUserdata(s) \/ Teardown(s)
    \/ MountUserdata(s) \/ ProcessCommands(s) \/ RestoreServices(s) \/ RestoreAdb(s)

Next ==
    \/ \E s \in Sessions : Start(s) \/ Step(s) \/ Signal(s)
    \/ Cable \/ PcWrites \/ AdbRecover \/ PowerCycle

Spec == Init /\ [][Next]_vars

(* A process that started keeps running.                                   *)
FairSpec == Spec /\ \A s \in Sessions : WF_vars(Step(s))

-----------------------------------------------------------------------------
(* Properties *)

(* p4 is never mounted on the V90S while the gadget exports it to a PC,    *)
(* and after a PC owned it a FAT check passes before it is mounted again.  *)
OneOwner == mounted => udc # "disk" /\ ~dirty

(* An armed batch of the mailbox runs at most once, whatever is            *)
(* interrupted.                                                            *)
RunsOnce == \A b \in Batches : runs[b] <= 1

(* When no helper runs and none was interrupted, p4 is mounted unless the  *)
(* user unmounted it or the card was refused, and nothing is left to       *)
(* restore: the file services and ADB run if the user enabled them, and    *)
(* the services stay enabled.                                              *)
DeviceReturns ==
    ~disturbed /\ AllIdle =>
        /\ mounted \/ withheld
        /\ marks = {}
        /\ serving = ("services" \in wanted) /\ enabled = serving
        /\ adb = ("adb" \in wanted)

(* Unless the cable keeps coming and going, every helper ends: an export   *)
(* that no PC takes times out, an export that the PC leaves is taken back. *)
ExportEnds == <>[](~cable) => \A s \in Sessions : []<>Idle(s)
=============================================================================
