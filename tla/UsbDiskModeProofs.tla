--------------------------- MODULE UsbDiskModeProofs ---------------------------
(***************************************************************************)
(* Proofs about UsbDiskMode with one helper process, for any batches and   *)
(* commands and any of the Interrupts.  Inv is what the process may rely   *)
(* on at each step, whatever is interrupted; Undisturbed what it still     *)
(* owes the user while nothing is.                                         *)
(***************************************************************************)
EXTENDS UsbDiskMode, TLAPS

\* where mount_userdata is called from
Ends == {"idle", "restore", "process", "mailbox"}
Exits(s) == shell[s].ok \in Ends /\ shell[s].ko \in Ends

\* p4 is out of the V90S's hands when the gadget takes it, and checked and
\* back before it is mounted.
Owner(s) ==
    /\ OneOwner
    /\ at[s] \in {"released", "setup"} => ~mounted
    /\ at[s] \in {"fsck", "mount"} => udc # "disk"
    /\ at[s] = "mount" => ~dirty

InFlight(s, b) == at[s] \in {"remove", "sync", "exec"} /\ shell[s].batch = b

\* A batch is in the mailbox, on the card or with the process, and has run
\* only when it is in none of these places.
Once(s) ==
    /\ mailbox \in given \cup {None} /\ stored \in given \cup {None}
    /\ at[s] \in {"remove", "sync", "exec"} => shell[s].batch \in given
    /\ at[s] \in {"sync", "exec"} => shell[s].batch # mailbox
    /\ at[s] = "exec" => shell[s].batch # stored
    /\ \A b \in Batches :
          /\ runs[b] \in {0, 1}
          /\ runs[b] = 1 => b \in given /\ mailbox # b /\ stored # b /\ ~InFlight(s, b)

\* the steps of enter_mode that follow stop_adb_for_transfer
After ==
    {"unbind", "umount", "released", "setup", "active", "wait", "teardown", "check",
     "fsck", "mount", "ready", "bind", "process", "mailbox", "copy", "remove", "sync",
     "exec", "restore", "readb"}

Entering(s) == shell[s].verb = "enter" /\ at[s] \in After

\* p4 is mounted, withheld, or on its way back
Returning(s) ==
    mounted \/ withheld \/
    at[s] \in {"released", "setup", "active", "wait", "teardown", "check", "fsck", "mount"}

\* enter_mode leaves mount_userdata for the commands or the restore, and only
\* it sets up the gadget.
Path(s) ==
    /\ at[s] \in {"backup", "stop", "reconf", "mark", "stopadb", "setup", "active", "wait"} =>
          shell[s].verb = "enter"
    /\ shell[s].verb = "enter" /\ at[s] \in {"check", "fsck", "mount", "ready", "bind", "teardown"} =>
          {shell[s].ok, shell[s].ko} \subseteq {"restore", "process", "mailbox"}
    /\ udc = "disk" => shell[s].verb = "enter" /\ at[s] \in {"active", "wait", "teardown"}

\* What enter_mode stopped is marked until it has been started again.
Owed(s) ==
    /\ shell[s].marks \subseteq marks
    /\ "services" \in marks =>
          shell[s].verb = "enter" /\ at[s] \in ({"stopadb"} \cup After) \ {"readb"}
    /\ "adb" \in marks => Entering(s) /\ "adb" \in wanted
    /\ enabled = ("services" \in wanted /\ at[s] # "reconf")
    /\ at[s] \in {"stop", "reconf"} => backup = ("services" \in wanted)
    /\ serving = ("services" \in wanted /\ at[s] \notin {"reconf", "mark"} /\
                  "services" \notin marks)
    /\ adb => "adb" \in wanted
    /\ "adb" \in wanted => adb \/ "adb" \in marks
    /\ "adb" \in wanted /\ Entering(s) => "adb" \in marks

Undisturbed(s) == ~disturbed => Returning(s) /\ Path(s) /\ Owed(s)

Inv(s) == TypeOK /\ Exits(s) /\ Owner(s) /\ Once(s) /\ Undisturbed(s)

-----------------------------------------------------------------------------
(* What the steps of a process do to its place and its variables            *)

Places == Steps \cup {"idle"}

LEMMA FreshShell ==
    /\ Fresh \in Shells /\ Fresh.verb = None /\ Fresh.marks = {} /\ Fresh.batch = None
    /\ Fresh.ok = "idle" /\ Fresh.ko = "idle"
  BY ConstantsAssumption DEF Fresh, Shells, Marks

LEMMA ShellUpdate ==
    ASSUME NEW sh \in Shells
    PROVE  /\ [sh EXCEPT !.dev = TRUE] \in Shells
           /\ [sh EXCEPT !.active = TRUE] \in Shells
           /\ [sh EXCEPT !.active = FALSE] \in Shells
           /\ [sh EXCEPT !.released = TRUE] \in Shells
           /\ [sh EXCEPT !.released = FALSE] \in Shells
           /\ [sh EXCEPT !.seen = TRUE] \in Shells
           /\ [sh EXCEPT !.trap = TRUE] \in Shells
           /\ [sh EXCEPT !.ok = "process", !.ko = "restore"] \in Shells
           /\ [sh EXCEPT !.ok = "restore", !.ko = "restore"] \in Shells
<1>1. [sh EXCEPT !.dev = TRUE] \in Shells
  BY DEF Shells
<1>2. [sh EXCEPT !.active = TRUE] \in Shells
  BY DEF Shells
<1>3. [sh EXCEPT !.active = FALSE] \in Shells
  BY DEF Shells
<1>4. [sh EXCEPT !.released = TRUE] \in Shells
  BY DEF Shells
<1>5. [sh EXCEPT !.released = FALSE] \in Shells
  BY DEF Shells
<1>6. [sh EXCEPT !.seen = TRUE] \in Shells
  BY DEF Shells
<1>7. [sh EXCEPT !.trap = TRUE] \in Shells
  BY DEF Shells
<1>8. [sh EXCEPT !.ok = "process", !.ko = "restore"] \in Shells
  BY DEF Shells, Steps
<1>9. [sh EXCEPT !.ok = "restore", !.ko = "restore"] \in Shells
  BY DEF Shells, Steps
<1> QED
  BY <1>1, <1>2, <1>3, <1>4, <1>5, <1>6, <1>7, <1>8, <1>9

LEMMA GoStep ==
    TypeOK => \A s \in Sessions : \A step \in Places :
        Go(s, step) => at' \in [Sessions -> Places] /\ at'[s] = step
  BY DEF TypeOK, Go, Places

LEMMA ExitStep ==
    TypeOK => \A s \in Sessions :
        Exit(s) => /\ at' \in [Sessions -> Places] /\ at'[s] = "idle"
                   /\ shell' \in [Sessions -> Shells] /\ shell'[s] = Fresh
  BY FreshShell DEF TypeOK, Exit, Go, Places

LEMMA ToStep ==
    TypeOK => \A s \in Sessions : \A step \in Places :
        To(s, step) => /\ at' \in [Sessions -> Places] /\ at'[s] = step
                       /\ shell' \in [Sessions -> Shells]
                       /\ shell'[s] = IF step = "idle" THEN Fresh ELSE shell[s]
  BY GoStep, ExitStep DEF To, Keep, TypeOK

LEMMA CallStep ==
    TypeOK => \A s \in Sessions : \A sh \in Shells : \A ok, ko \in Places :
        CallMount(s, sh, ok, ko) =>
            /\ at' \in [Sessions -> Places] /\ at'[s] = "check"
            /\ shell' \in [Sessions -> Shells]
            /\ shell'[s].verb = sh.verb /\ shell'[s].marks = sh.marks
            /\ shell'[s].batch = sh.batch /\ shell'[s].ok = ok /\ shell'[s].ko = ko
<1> SUFFICES ASSUME TypeOK, NEW s \in Sessions, NEW sh \in Shells, NEW ok \in Places,
                    NEW ko \in Places, CallMount(s, sh, ok, ko)
             PROVE  /\ at' \in [Sessions -> Places] /\ at'[s] = "check"
                    /\ shell' \in [Sessions -> Shells]
                    /\ shell'[s].verb = sh.verb /\ shell'[s].marks = sh.marks
                    /\ shell'[s].batch = sh.batch /\ shell'[s].ok = ok /\ shell'[s].ko = ko
  OBVIOUS
<1>1. [sh EXCEPT !.ok = ok, !.ko = ko] \in Shells
  BY DEF Shells, Places
<1>2. shell'[s] = [sh EXCEPT !.ok = ok, !.ko = ko]
  BY DEF CallMount, TypeOK
<1> QED
  BY <1>1, <1>2, GoStep DEF CallMount, TypeOK, Places, Steps, Shells

LEMMA StartInv ==
    ASSUME NEW s \in Sessions, Sessions = {s}, Inv(s), Start(s)
    PROVE  Inv(s)'
<1>e. \E v \in Verbs :
          /\ shell'[s].verb = v /\ shell'[s].marks = {} /\ shell' \in [Sessions -> Shells]
          /\ shell'[s].ok = "idle" /\ shell'[s].ko = "idle"
          /\ at' \in [Sessions -> Places]
          /\ at'[s] \in {"check", "teardown", "process", "resolve"}
          /\ v = "enter" => at'[s] = "resolve"
  <2>1. PICK v \in Verbs :
          LET sh == [Fresh EXCEPT !.verb = v]
          IN CASE v = "mount" -> CallMount(s, sh, "idle", "idle")
               [] OTHER ->
                    /\ shell' = [shell EXCEPT ![s] = sh]
                    /\ Go(s, CASE v = "leave" -> "teardown"
                               [] v = "commands" -> "process"
                               [] OTHER -> "resolve")
    BY DEF Start
  <2> DEFINE sh == [Fresh EXCEPT !.verb = v]
  <2>2. sh \in Shells /\ sh.verb = v /\ sh.marks = {} /\ sh.ok = "idle" /\ sh.ko = "idle"
    BY DEF Fresh, Shells
  <2> HIDE DEF sh
  <2>3. CASE v = "mount"
    <3>1. CallMount(s, sh, "idle", "idle")
      BY <2>1, <2>3 DEF sh
    <3> QED
      BY <2>2, <2>3, <3>1, CallStep DEF Inv, Places
  <2>4. CASE v # "mount"
    <3> DEFINE step == CASE v = "leave" -> "teardown"
                         [] v = "commands" -> "process"
                         [] OTHER -> "resolve"
    <3>1. shell' = [shell EXCEPT ![s] = sh] /\ Go(s, step)
      BY <2>1, <2>4 DEF sh
    <3>2. step \in {"teardown", "process", "resolve"} /\ (v = "enter" => step = "resolve")
      OBVIOUS
    <3>3. step \in Places
      BY <3>2 DEF Places, Steps
    <3> HIDE DEF step
    <3>4. at' \in [Sessions -> Places] /\ at'[s] = step
      BY <3>1, <3>3, GoStep DEF Inv
    <3> QED
      BY <2>2, <3>1, <3>2, <3>4 DEF Inv, TypeOK
  <2> QED
    BY <2>3, <2>4
<1>u. at[s] = "idle" /\ UNCHANGED <<p4, usb, services, history>>
  BY DEF Start, Idle
<1>1. TypeOK'
  BY <1>e, <1>u DEF Inv, TypeOK, Places, p4, usb, services, history
<1>2. Exits(s)'
  BY <1>e, <1>u, ConstantsAssumption
  DEF Inv, TypeOK, Places, Exits, Ends, p4, usb, services, history
<1>3. Owner(s)'
  BY <1>e, <1>u, ConstantsAssumption
  DEF Inv, TypeOK, Places, Owner, OneOwner, Exits, Ends, p4, usb, services, history
<1>4. Once(s)'
  BY <1>e, <1>u, ConstantsAssumption
  DEF Inv, TypeOK, Places, Owner, OneOwner, Once, Exits, Ends, InFlight, Shells, p4,
      usb, services, history
<1>5. Undisturbed(s)'
  BY <1>e, <1>u, ConstantsAssumption
  DEF Inv, TypeOK, Places, Exits, Ends, Undisturbed, Returning, Path, Owed, Entering,
      After, Shells, Marks, p4, usb, services, history
<1> QED
  BY <1>1, <1>2, <1>3, <1>4, <1>5 DEF Inv

LEMMA ResolveInv ==
    ASSUME NEW s \in Sessions, Sessions = {s}, Inv(s), Resolve(s)
    PROVE  Inv(s)'
<1>1. TypeOK'
  <2>1. at' \in [Sessions -> Places]
    BY ConstantsAssumption, FreshShell, GoStep, ExitStep
    DEF Resolve, p4, usb, services, history, Inv, TypeOK, Places, Steps, Shells, Marks
  <2>2. shell' \in [Sessions -> Shells]
    <3>0. shell[s] \in Shells
      BY DEF Inv, TypeOK
    <3>1. [shell[s] EXCEPT !.dev = TRUE] \in Shells
      BY <3>0, ShellUpdate
    <3> QED
      BY <3>1, ExitStep DEF Resolve, Inv, TypeOK
  <2>3. runs' \in [Batches -> Nat]
    BY DEF Resolve, Inv, TypeOK, history
  <2> QED
    BY <2>1, <2>2, <2>3, ConstantsAssumption
    DEF Resolve, p4, usb, services, history, Inv, TypeOK, Marks, Places
<1>2. Exits(s)'
  <2>1. shell[s] \in Shells /\ shell \in [Sessions -> Shells]
    BY DEF Inv, TypeOK
  <2>2. shell'[s] \in {Fresh, [shell[s] EXCEPT !.dev = TRUE]}
    BY <2>1 DEF Resolve, Exit
  <2>3. shell'[s].ok \in {"idle", shell[s].ok} /\ shell'[s].ko \in {"idle", shell[s].ko}
    BY <2>1, <2>2, FreshShell DEF Shells
  <2> QED
    BY <2>3 DEF Inv, Exits, Ends
<1>3. Owner(s)'
  BY ConstantsAssumption
  DEF Resolve, Go, Exit, p4, usb, services, history, Fresh, Inv, TypeOK, Owner,
      OneOwner, Exits, Ends
<1>4. Once(s)'
  BY ConstantsAssumption
  DEF Resolve, Go, Exit, p4, usb, services, history, Fresh, Inv, TypeOK, Owner,
      OneOwner, Once, Exits, Ends, InFlight, Shells
<1>5. Undisturbed(s)'
  BY ConstantsAssumption
  DEF Resolve, Go, Exit, p4, usb, services, history, Fresh, Inv, TypeOK, Exits, Ends,
      Undisturbed, Returning, Path, Owed, Entering, After, Shells, Marks
<1> QED
  BY <1>1, <1>2, <1>3, <1>4, <1>5 DEF Inv

LEMMA BackupInv ==
    ASSUME NEW s \in Sessions, Sessions = {s}, Inv(s), Backup(s)
    PROVE  Inv(s)'
<1>1. TypeOK'
  <2>1. at' \in [Sessions -> Places]
    BY ConstantsAssumption, FreshShell, GoStep, ExitStep
    DEF Backup, Keep, p4, usb, history, Inv, TypeOK, Places, Steps, Shells, Marks
  <2>2. shell' \in [Sessions -> Shells]
    BY ConstantsAssumption, FreshShell, GoStep, ExitStep
    DEF Backup, Keep, p4, usb, history, Inv, TypeOK, Places, Steps, Shells, Marks
  <2>3. runs' \in [Batches -> Nat]
    BY DEF Backup, Inv, TypeOK, history
  <2> QED
    BY <2>1, <2>2, <2>3, ConstantsAssumption
    DEF Backup, Keep, p4, usb, history, Inv, TypeOK, Marks, Places
<1>2. Exits(s)'
  BY ConstantsAssumption
  DEF Backup, Keep, Exit, p4, usb, history, Go, Fresh, Inv, TypeOK, Exits, Ends
<1>3. Owner(s)'
  BY ConstantsAssumption
  DEF Backup, Keep, Exit, p4, usb, history, Go, Fresh, Inv, TypeOK, Owner, OneOwner,
      Exits, Ends
<1>4. Once(s)'
  BY ConstantsAssumption
  DEF Backup, Keep, Exit, p4, usb, history, Go, Fresh, Inv, TypeOK, Owner, OneOwner,
      Once, Exits, Ends, InFlight, Shells
<1>5. Undisturbed(s)'
  BY ConstantsAssumption
  DEF Backup, Keep, Exit, p4, usb, history, Go, Fresh, Inv, TypeOK, Exits, Ends,
      Undisturbed, Returning, Path, Owed, Entering, After, Shells, Marks
<1> QED
  BY <1>1, <1>2, <1>3, <1>4, <1>5 DEF Inv

LEMMA StopServicesInv ==
    ASSUME NEW s \in Sessions, Sessions = {s}, Inv(s), StopServices(s)
    PROVE  Inv(s)'
<1>1. TypeOK'
  <2>1. at' \in [Sessions -> Places]
    BY ConstantsAssumption, GoStep
    DEF StopServices, Move, p4, usb, history, Inv, TypeOK, Places, Steps, Shells,
        Marks
  <2>2. shell' \in [Sessions -> Shells]
    BY ConstantsAssumption, GoStep
    DEF StopServices, Move, p4, usb, history, Inv, TypeOK, Places, Steps, Shells,
        Marks
  <2>3. runs' \in [Batches -> Nat]
    BY DEF StopServices, Inv, TypeOK, history
  <2>4. {mounted', bound', dirty'} \subseteq BOOLEAN
        /\ {mailbox', stored'} \subseteq Batches \cup {None}
    BY DEF StopServices, Move, p4, usb, history, Inv, TypeOK, Marks
  <2>5. {cable', settling'} \subseteq BOOLEAN /\ udc' \in {"disk", "adb", None}
    BY DEF StopServices, Move, p4, usb, history, Inv, TypeOK, Marks
  <2>6. {enabled', serving', backup', adb'} \subseteq BOOLEAN /\ marks' \subseteq Marks
    BY DEF StopServices, Move, p4, usb, history, Inv, TypeOK, Marks
  <2>7. wanted' \subseteq Marks /\ {disturbed', withheld'} \subseteq BOOLEAN
        /\ given' \subseteq Batches
    BY DEF StopServices, Move, p4, usb, history, Inv, TypeOK, Marks
  <2> QED
    BY <2>1, <2>2, <2>3, <2>4, <2>5, <2>6, <2>7 DEF TypeOK, Places
<1>2. Exits(s)'
  BY ConstantsAssumption
  DEF StopServices, Move, p4, usb, history, Go, Inv, TypeOK, Exits, Ends
<1>3. Owner(s)'
  BY ConstantsAssumption
  DEF StopServices, Move, p4, usb, history, Go, Inv, TypeOK, Owner, OneOwner, Exits,
      Ends
<1>4. Once(s)'
  BY ConstantsAssumption
  DEF StopServices, Move, p4, usb, history, Go, Inv, TypeOK, Owner, OneOwner, Once,
      Exits, Ends, InFlight, Shells
<1>5. Undisturbed(s)'
  BY ConstantsAssumption
  DEF StopServices, Move, p4, usb, history, Go, Inv, TypeOK, Exits, Ends, Undisturbed,
      Returning, Path, Owed, Entering, After, Shells, Marks
<1> QED
  BY <1>1, <1>2, <1>3, <1>4, <1>5 DEF Inv

LEMMA RestoreConfInv ==
    ASSUME NEW s \in Sessions, Sessions = {s}, Inv(s), RestoreConf(s)
    PROVE  Inv(s)'
<1>1. TypeOK'
  <2>1. at' \in [Sessions -> Places]
    BY ConstantsAssumption, GoStep
    DEF RestoreConf, Move, p4, usb, history, Inv, TypeOK, Places, Steps, Shells, Marks
  <2>2. shell' \in [Sessions -> Shells]
    BY ConstantsAssumption, GoStep
    DEF RestoreConf, Move, p4, usb, history, Inv, TypeOK, Places, Steps, Shells, Marks
  <2>3. runs' \in [Batches -> Nat]
    BY DEF RestoreConf, Inv, TypeOK, history
  <2> QED
    BY <2>1, <2>2, <2>3, ConstantsAssumption
    DEF RestoreConf, Move, p4, usb, history, Inv, TypeOK, Marks, Places
<1>2. Exits(s)'
  BY ConstantsAssumption
  DEF RestoreConf, Move, p4, usb, history, Go, Inv, TypeOK, Exits, Ends
<1>3. Owner(s)'
  BY ConstantsAssumption
  DEF RestoreConf, Move, p4, usb, history, Go, Inv, TypeOK, Owner, OneOwner, Exits,
      Ends
<1>4. Once(s)'
  BY ConstantsAssumption
  DEF RestoreConf, Move, p4, usb, history, Go, Inv, TypeOK, Owner, OneOwner, Once,
      Exits, Ends, InFlight, Shells
<1>5. Undisturbed(s)'
  BY ConstantsAssumption
  DEF RestoreConf, Move, p4, usb, history, Go, Inv, TypeOK, Exits, Ends, Undisturbed,
      Returning, Path, Owed, Entering, After, Shells, Marks
<1> QED
  BY <1>1, <1>2, <1>3, <1>4, <1>5 DEF Inv

LEMMA RestoreConfFailsInv ==
    ASSUME NEW s \in Sessions, Sessions = {s}, Inv(s), RestoreConfFails(s)
    PROVE  Inv(s)'
<1>1. TypeOK'
  <2>1. at' \in [Sessions -> Places]
    BY ConstantsAssumption, FreshShell, ExitStep
    DEF RestoreConfFails, Meets, p4, usb, services, history, Inv, TypeOK, Places,
        Steps, Shells, Marks
  <2>2. shell' \in [Sessions -> Shells]
    BY ConstantsAssumption, FreshShell, ExitStep
    DEF RestoreConfFails, Meets, p4, usb, services, history, Inv, TypeOK, Places,
        Steps, Shells, Marks
  <2>3. runs' \in [Batches -> Nat]
    BY DEF RestoreConfFails, Inv, TypeOK, history
  <2> QED
    BY <2>1, <2>2, <2>3, ConstantsAssumption
    DEF RestoreConfFails, Meets, p4, usb, services, history, Inv, TypeOK, Marks,
        Places
<1>2. Exits(s)'
  BY ConstantsAssumption
  DEF RestoreConfFails, Exit, Meets, p4, usb, services, history, Go, Fresh, Inv,
      TypeOK, Exits, Ends
<1>3. Owner(s)'
  BY ConstantsAssumption
  DEF RestoreConfFails, Exit, Meets, p4, usb, services, history, Go, Fresh, Inv,
      TypeOK, Owner, OneOwner, Exits, Ends
<1>4. Once(s)'
  BY ConstantsAssumption
  DEF RestoreConfFails, Exit, Meets, p4, usb, services, history, Go, Fresh, Inv,
      TypeOK, Owner, OneOwner, Once, Exits, Ends, InFlight, Shells
<1>5. Undisturbed(s)'
  BY ConstantsAssumption
  DEF RestoreConfFails, Exit, Meets, p4, usb, services, history, Go, Fresh, Inv,
      TypeOK, Exits, Ends, Undisturbed, Returning, Path, Owed, Entering, After,
      Shells, Marks
<1> QED
  BY <1>1, <1>2, <1>3, <1>4, <1>5 DEF Inv

LEMMA MarkServicesInv ==
    ASSUME NEW s \in Sessions, Sessions = {s}, Inv(s), MarkServices(s)
    PROVE  Inv(s)'
<1>1. TypeOK'
  <2>1. at' \in [Sessions -> Places]
    BY ConstantsAssumption, GoStep
    DEF MarkServices, Move, p4, usb, services, history, Inv, TypeOK, Places, Steps,
        Shells, Marks
  <2>2. shell' \in [Sessions -> Shells]
    BY ConstantsAssumption, GoStep
    DEF MarkServices, Move, p4, usb, services, history, Inv, TypeOK, Places, Steps,
        Shells, Marks
  <2>3. runs' \in [Batches -> Nat]
    BY DEF MarkServices, Inv, TypeOK, history
  <2> QED
    BY <2>1, <2>2, <2>3, ConstantsAssumption
    DEF MarkServices, Move, p4, usb, services, history, Inv, TypeOK, Marks, Places
<1>2. Exits(s)'
  BY ConstantsAssumption
  DEF MarkServices, Move, p4, usb, services, history, Go, Inv, TypeOK, Exits, Ends
<1>3. Owner(s)'
  BY ConstantsAssumption
  DEF MarkServices, Move, p4, usb, services, history, Go, Inv, TypeOK, Owner,
      OneOwner, Exits, Ends
<1>4. Once(s)'
  BY ConstantsAssumption
  DEF MarkServices, Move, p4, usb, services, history, Go, Inv, TypeOK, Owner,
      OneOwner, Once, Exits, Ends, InFlight, Shells
<1>5. Undisturbed(s)'
  BY ConstantsAssumption
  DEF MarkServices, Move, p4, usb, services, history, Go, Inv, TypeOK, Exits, Ends,
      Undisturbed, Returning, Path, Owed, Entering, After, Shells, Marks
<1> QED
  BY <1>1, <1>2, <1>3, <1>4, <1>5 DEF Inv

LEMMA StopAdbInv ==
    ASSUME NEW s \in Sessions, Sessions = {s}, Inv(s), StopAdb(s)
    PROVE  Inv(s)'
<1>1. TypeOK'
  <2>1. at' \in [Sessions -> Places]
    BY ConstantsAssumption, GoStep
    DEF StopAdb, Move, p4, history, Inv, TypeOK, Places, Steps, Shells, Marks
  <2>2. shell' \in [Sessions -> Shells]
    BY ConstantsAssumption, GoStep
    DEF StopAdb, Move, p4, history, Inv, TypeOK, Places, Steps, Shells, Marks
  <2>3. runs' \in [Batches -> Nat]
    BY DEF StopAdb, Inv, TypeOK, history
  <2>4. {mounted', bound', dirty'} \subseteq BOOLEAN
        /\ {mailbox', stored'} \subseteq Batches \cup {None}
    BY DEF StopAdb, Move, p4, history, Inv, TypeOK, Marks
  <2>5. {cable', settling'} \subseteq BOOLEAN /\ udc' \in {"disk", "adb", None}
    BY DEF StopAdb, Move, p4, history, Inv, TypeOK, Marks
  <2>6. {enabled', serving', backup', adb'} \subseteq BOOLEAN /\ marks' \subseteq Marks
    BY DEF StopAdb, Move, p4, history, Inv, TypeOK, Marks
  <2>7. wanted' \subseteq Marks /\ {disturbed', withheld'} \subseteq BOOLEAN
        /\ given' \subseteq Batches
    BY DEF StopAdb, Move, p4, history, Inv, TypeOK, Marks
  <2> QED
    BY <2>1, <2>2, <2>3, <2>4, <2>5, <2>6, <2>7 DEF TypeOK, Places
<1>2. Exits(s)'
  <2>1. shell[s] \in Shells /\ shell \in [Sessions -> Shells]
    BY DEF Inv, TypeOK
  <2>2. shell'[s] \in {shell[s], [shell[s] EXCEPT !.marks = @ \cup {"adb"}]}
    BY <2>1 DEF StopAdb
  <2>3. shell'[s].ok \in {"idle", shell[s].ok} /\ shell'[s].ko \in {"idle", shell[s].ko}
    BY <2>1, <2>2, FreshShell DEF Shells
  <2> QED
    BY <2>3 DEF Inv, Exits, Ends
<1>3. Owner(s)'
  BY ConstantsAssumption
  DEF StopAdb, Move, p4, history, Go, Inv, TypeOK, Owner, OneOwner, Exits, Ends
<1>4. Once(s)'
  BY ConstantsAssumption
  DEF StopAdb, Move, p4, history, Go, Inv, TypeOK, Owner, OneOwner, Once, Exits, Ends,
      InFlight, Shells
<1>5. Undisturbed(s)'
  BY ConstantsAssumption
  DEF StopAdb, Move, p4, history, Go, Inv, TypeOK, Exits, Ends, Undisturbed,
      Returning, Path, Owed, Entering, After, Shells, Marks
<1> QED
  BY <1>1, <1>2, <1>3, <1>4, <1>5 DEF Inv

LEMMA UnbindInv ==
    ASSUME NEW s \in Sessions, Sessions = {s}, Inv(s), Unbind(s)
    PROVE  Inv(s)'
<1>0. shell[s] \in Shells /\ AfterBusy(s) \in Places /\ AfterBusy(s) \in {"restore", "idle"}
  BY DEF Inv, TypeOK, AfterBusy, Places, Steps
<1>e. /\ at[s] = "unbind" /\ shell' \in [Sessions -> Shells] /\ at' \in [Sessions -> Places]
      /\ shell'[s].verb = shell[s].verb /\ shell'[s].marks = shell[s].marks
      /\ bound' \in BOOLEAN
      /\ \/ at'[s] = "umount" /\ shell' = shell
         \/ at'[s] = "check" /\ shell'[s].ok = AfterBusy(s) /\ shell'[s].ko = AfterBusy(s)
  <2>1. CASE bound /\ CallMount(s, shell[s], AfterBusy(s), AfterBusy(s)) /\ UNCHANGED bound
    BY <1>0, <2>1, CallStep DEF Unbind, Inv, TypeOK
  <2>2. CASE Keep(s, "umount") /\ bound' = FALSE
    BY <2>2, GoStep DEF Unbind, Keep, Inv, TypeOK, Places, Steps
  <2> QED
    BY <2>1, <2>2 DEF Unbind
<1>u. UNCHANGED <<mounted, dirty, mailbox, stored, usb, services, history>>
  BY DEF Unbind
<1>1. TypeOK'
  BY <1>e, <1>u DEF Inv, TypeOK, Places, usb, services, history
<1>2. Exits(s)'
  BY <1>e, <1>u, ConstantsAssumption
  DEF Inv, TypeOK, Places, Exits, Ends, usb, services, history, AfterBusy
<1>3. Owner(s)'
  BY <1>e, <1>u, ConstantsAssumption
  DEF Inv, TypeOK, Places, Owner, OneOwner, Exits, Ends, usb, services, history,
      AfterBusy
<1>4. Once(s)'
  BY <1>e, <1>u, ConstantsAssumption
  DEF Inv, TypeOK, Places, Owner, OneOwner, Once, Exits, Ends, InFlight, Shells, usb,
      services, history, AfterBusy
<1>5. Undisturbed(s)'
  BY <1>e, <1>u, ConstantsAssumption
  DEF Inv, TypeOK, Places, Exits, Ends, Undisturbed, Returning, Path, Owed, Entering,
      After, Shells, Marks, usb, services, history, AfterBusy
<1> QED
  BY <1>1, <1>2, <1>3, <1>4, <1>5 DEF Inv

LEMMA UmountInv ==
    ASSUME NEW s \in Sessions, Sessions = {s}, Inv(s), Umount(s)
    PROVE  Inv(s)'
<1>0. shell[s] \in Shells /\ AfterBusy(s) \in Places /\ AfterBusy(s) \in {"restore", "idle"}
  BY DEF Inv, TypeOK, AfterBusy, Places, Steps
<1>e. /\ at[s] = "umount" /\ shell' \in [Sessions -> Shells] /\ at' \in [Sessions -> Places]
      /\ shell'[s].verb = shell[s].verb /\ shell'[s].marks = shell[s].marks
      /\ mounted' \in BOOLEAN /\ stored' \in {stored, mailbox}
      /\ \/ at'[s] = "released" /\ ~mounted' /\ shell' = shell
         \/ /\ at'[s] = "check" /\ shell'[s].ok = AfterBusy(s) /\ shell'[s].ko = AfterBusy(s)
            /\ mounted' = mounted
  <2>0. at[s] = "umount"
    BY DEF Umount
  <2>1. CASE CallMount(s, shell[s], AfterBusy(s), AfterBusy(s)) /\ UNCHANGED <<mounted, stored>>
    BY <1>0, <2>0, <2>1, CallStep DEF Inv, TypeOK
  <2>2. CASE Keep(s, "released") /\ mounted' = FALSE /\ stored' = mailbox
    BY <2>0, <2>2, GoStep DEF Keep, Inv, TypeOK, Places, Steps
  <2> QED
    BY <2>1, <2>2 DEF Umount
<1>u. UNCHANGED <<bound, dirty, mailbox, usb, services, history>>
  BY DEF Umount
<1>1. TypeOK'
  BY <1>e, <1>u DEF Inv, TypeOK, Places, usb, services, history
<1>2. Exits(s)'
  BY <1>e, <1>u, ConstantsAssumption
  DEF Inv, TypeOK, Places, Exits, Ends, usb, services, history, AfterBusy
<1>3. Owner(s)'
  BY <1>e, <1>u, ConstantsAssumption
  DEF Inv, TypeOK, Places, Owner, OneOwner, Exits, Ends, usb, services, history,
      AfterBusy
<1>4. Once(s)'
  BY <1>e, <1>u, ConstantsAssumption
  DEF Inv, TypeOK, Places, Owner, OneOwner, Once, Exits, Ends, InFlight, Shells, usb,
      services, history, AfterBusy
<1>5. Undisturbed(s)'
  BY <1>e, <1>u, ConstantsAssumption
  DEF Inv, TypeOK, Places, Exits, Ends, Undisturbed, Returning, Path, Owed, Entering,
      After, Shells, Marks, usb, services, history, AfterBusy
<1> QED
  BY <1>1, <1>2, <1>3, <1>4, <1>5 DEF Inv

LEMMA ReleasedInv ==
    ASSUME NEW s \in Sessions, Sessions = {s}, Inv(s), Released(s)
    PROVE  Inv(s)'
<1>1. TypeOK'
  <2>1. at' \in [Sessions -> Places]
    BY ConstantsAssumption, FreshShell, GoStep, ExitStep
    DEF Released, p4, usb, services, Inv, TypeOK, Places, Steps, Shells, Marks
  <2>2. shell' \in [Sessions -> Shells]
    <3>0. shell[s] \in Shells
      BY DEF Inv, TypeOK
    <3>1. [shell[s] EXCEPT !.released = TRUE] \in Shells
      BY <3>0, ShellUpdate
    <3> QED
      BY <3>1, ExitStep DEF Released, Inv, TypeOK
  <2>3. runs' \in [Batches -> Nat]
    BY DEF Released, Inv, TypeOK, history
  <2>4. {mounted', bound', dirty'} \subseteq BOOLEAN
        /\ {mailbox', stored'} \subseteq Batches \cup {None}
    BY DEF Released, p4, usb, services, Inv, TypeOK, Marks
  <2>5. {cable', settling'} \subseteq BOOLEAN /\ udc' \in {"disk", "adb", None}
    BY DEF Released, p4, usb, services, Inv, TypeOK, Marks
  <2>6. {enabled', serving', backup', adb'} \subseteq BOOLEAN /\ marks' \subseteq Marks
    BY DEF Released, p4, usb, services, Inv, TypeOK, Marks
  <2>7. wanted' \subseteq Marks /\ {disturbed', withheld'} \subseteq BOOLEAN
        /\ given' \subseteq Batches
    BY DEF Released, p4, usb, services, Inv, TypeOK, Marks
  <2> QED
    BY <2>1, <2>2, <2>3, <2>4, <2>5, <2>6, <2>7 DEF TypeOK, Places
<1>2. Exits(s)'
  <2>1. shell[s] \in Shells /\ shell \in [Sessions -> Shells]
    BY DEF Inv, TypeOK
  <2>2. shell'[s] \in {Fresh, [shell[s] EXCEPT !.released = TRUE]}
    BY <2>1 DEF Released, Exit
  <2>3. shell'[s].ok \in {"idle", shell[s].ok} /\ shell'[s].ko \in {"idle", shell[s].ko}
    BY <2>1, <2>2, FreshShell DEF Shells
  <2> QED
    BY <2>3 DEF Inv, Exits, Ends
<1>3. Owner(s)'
  BY ConstantsAssumption
  DEF Released, Go, Exit, p4, usb, services, Fresh, Inv, TypeOK, Owner, OneOwner,
      Exits, Ends
<1>4. Once(s)'
  BY ConstantsAssumption
  DEF Released, Go, Exit, p4, usb, services, Fresh, Inv, TypeOK, Owner, OneOwner,
      Once, Exits, Ends, InFlight, Shells
<1>5. Undisturbed(s)'
  BY ConstantsAssumption
  DEF Released, Go, Exit, p4, usb, services, Fresh, Inv, TypeOK, Exits, Ends,
      Undisturbed, Returning, Path, Owed, Entering, After, Shells, Marks
<1> QED
  BY <1>1, <1>2, <1>3, <1>4, <1>5 DEF Inv

LEMMA SetupInv ==
    ASSUME NEW s \in Sessions, Sessions = {s}, Inv(s), Setup(s)
    PROVE  Inv(s)'
<1>0. shell[s] \in Shells /\ "restore" \in Places /\ "active" \in Places
  BY DEF Inv, TypeOK, Places, Steps
<1>e. /\ at[s] = "setup" /\ shell' \in [Sessions -> Shells] /\ at' \in [Sessions -> Places]
      /\ shell'[s].verb = shell[s].verb /\ shell'[s].marks = shell[s].marks
      /\ \/ at'[s] = "active" /\ udc' = "disk" /\ shell' = shell
         \/ /\ at'[s] = "check" /\ shell'[s].ok = "restore" /\ shell'[s].ko = "restore"
            /\ udc' = IF udc = "disk" THEN None ELSE udc
  BY <1>0, CallStep, GoStep DEF Setup, Keep, Inv, TypeOK
<1>u. UNCHANGED <<p4, cable, settling, services, history>>
  BY DEF Setup
<1>1. TypeOK'
  BY <1>e, <1>u DEF Inv, TypeOK, Places, p4, services, history
<1>2. Exits(s)'
  BY <1>e, <1>u, ConstantsAssumption
  DEF Inv, TypeOK, Places, Exits, Ends, p4, services, history
<1>3. Owner(s)'
  BY <1>e, <1>u, ConstantsAssumption
  DEF Inv, TypeOK, Places, Owner, OneOwner, Exits, Ends, p4, services, history
<1>4. Once(s)'
  BY <1>e, <1>u, ConstantsAssumption
  DEF Inv, TypeOK, Places, Owner, OneOwner, Once, Exits, Ends, InFlight, Shells, p4,
      services, history
<1>5. Undisturbed(s)'
  BY <1>e, <1>u, ConstantsAssumption
  DEF Inv, TypeOK, Places, Exits, Ends, Undisturbed, Returning, Path, Owed, Entering,
      After, Shells, Marks, p4, services, history
<1> QED
  BY <1>1, <1>2, <1>3, <1>4, <1>5 DEF Inv

LEMMA ActiveInv ==
    ASSUME NEW s \in Sessions, Sessions = {s}, Inv(s), Active(s)
    PROVE  Inv(s)'
<1>1. TypeOK'
  <2>1. at' \in [Sessions -> Places]
    BY ConstantsAssumption, GoStep
    DEF Active, Move, p4, usb, services, history, Inv, TypeOK, Places, Steps, Shells,
        Marks
  <2>2. shell' \in [Sessions -> Shells]
    <3>0. shell[s] \in Shells
      BY DEF Inv, TypeOK
    <3>1. [shell[s] EXCEPT !.active = TRUE] \in Shells
      BY <3>0, ShellUpdate
    <3> QED
      BY <3>1 DEF Active, Inv, TypeOK
  <2>3. runs' \in [Batches -> Nat]
    BY DEF Active, Inv, TypeOK, history
  <2> QED
    BY <2>1, <2>2, <2>3, ConstantsAssumption
    DEF Active, Move, p4, usb, services, history, Inv, TypeOK, Marks, Places
<1>2. Exits(s)'
  BY ConstantsAssumption
  DEF Active, Move, p4, usb, services, history, Go, Inv, TypeOK, Exits, Ends
<1>3. Owner(s)'
  BY ConstantsAssumption
  DEF Active, Move, p4, usb, services, history, Go, Inv, TypeOK, Owner, OneOwner,
      Exits, Ends
<1>4. Once(s)'
  BY ConstantsAssumption
  DEF Active, Move, p4, usb, services, history, Go, Inv, TypeOK, Owner, OneOwner,
      Once, Exits, Ends, InFlight, Shells
<1>5. Undisturbed(s)'
  BY ConstantsAssumption
  DEF Active, Move, p4, usb, services, history, Go, Inv, TypeOK, Exits, Ends,
      Undisturbed, Returning, Path, Owed, Entering, After, Shells, Marks
<1> QED
  BY <1>1, <1>2, <1>3, <1>4, <1>5 DEF Inv

LEMMA SeePcInv ==
    ASSUME NEW s \in Sessions, Sessions = {s}, Inv(s), SeePc(s)
    PROVE  Inv(s)'
<1>1. TypeOK'
  <2>1. at' \in [Sessions -> Places]
    BY ConstantsAssumption
    DEF SeePc, Attached, p4, usb, services, history, Inv, TypeOK, Places, Steps,
        Shells, Marks
  <2>2. shell' \in [Sessions -> Shells]
    <3>0. shell[s] \in Shells
      BY DEF Inv, TypeOK
    <3>1. [shell[s] EXCEPT !.seen = TRUE] \in Shells
      BY <3>0, ShellUpdate
    <3> QED
      BY <3>1 DEF SeePc, Inv, TypeOK
  <2>3. runs' \in [Batches -> Nat]
    BY DEF SeePc, Inv, TypeOK, history
  <2> QED
    BY <2>1, <2>2, <2>3, ConstantsAssumption
    DEF SeePc, Attached, p4, usb, services, history, Inv, TypeOK, Marks, Places
<1>2. Exits(s)'
  BY ConstantsAssumption
  DEF SeePc, Attached, p4, usb, services, history, Inv, TypeOK, Exits, Ends
<1>3. Owner(s)'
  BY ConstantsAssumption
  DEF SeePc, Attached, p4, usb, services, history, Inv, TypeOK, Owner, OneOwner,
      Exits, Ends
<1>4. Once(s)'
  BY ConstantsAssumption
  DEF SeePc, Attached, p4, usb, services, history, Inv, TypeOK, Owner, OneOwner, Once,
      Exits, Ends, InFlight, Shells
<1>5. Undisturbed(s)'
  BY ConstantsAssumption
  DEF SeePc, Attached, p4, usb, services, history, Inv, TypeOK, Exits, Ends,
      Undisturbed, Returning, Path, Owed, Entering, After, Shells, Marks
<1> QED
  BY <1>1, <1>2, <1>3, <1>4, <1>5 DEF Inv

LEMMA SeeDisconnectInv ==
    ASSUME NEW s \in Sessions, Sessions = {s}, Inv(s), SeeDisconnect(s)
    PROVE  Inv(s)'
<1>1. TypeOK'
  <2>1. at' \in [Sessions -> Places]
    BY ConstantsAssumption, GoStep
    DEF SeeDisconnect, Move, Attached, p4, usb, services, history, Inv, TypeOK,
        Places, Steps, Shells, Marks
  <2>2. shell' \in [Sessions -> Shells]
    <3>0. shell[s] \in Shells
      BY DEF Inv, TypeOK
    <3>1. [shell[s] EXCEPT !.ok = "process", !.ko = "restore"] \in Shells
      BY <3>0, ShellUpdate
    <3> QED
      BY <3>1 DEF SeeDisconnect, Inv, TypeOK
  <2>3. runs' \in [Batches -> Nat]
    BY DEF SeeDisconnect, Inv, TypeOK, history
  <2> QED
    BY <2>1, <2>2, <2>3, ConstantsAssumption
    DEF SeeDisconnect, Move, Attached, p4, usb, services, history, Inv, TypeOK, Marks,
        Places
<1>2. Exits(s)'
  BY ConstantsAssumption
  DEF SeeDisconnect, Move, Attached, p4, usb, services, history, Go, Inv, TypeOK,
      Exits, Ends
<1>3. Owner(s)'
  BY ConstantsAssumption
  DEF SeeDisconnect, Move, Attached, p4, usb, services, history, Go, Inv, TypeOK,
      Owner, OneOwner, Exits, Ends
<1>4. Once(s)'
  BY ConstantsAssumption
  DEF SeeDisconnect, Move, Attached, p4, usb, services, history, Go, Inv, TypeOK,
      Owner, OneOwner, Once, Exits, Ends, InFlight, Shells
<1>5. Undisturbed(s)'
  BY ConstantsAssumption
  DEF SeeDisconnect, Move, Attached, p4, usb, services, history, Go, Inv, TypeOK,
      Exits, Ends, Undisturbed, Returning, Path, Owed, Entering, After, Shells, Marks
<1> QED
  BY <1>1, <1>2, <1>3, <1>4, <1>5 DEF Inv

LEMMA ConnectTimeoutInv ==
    ASSUME NEW s \in Sessions, Sessions = {s}, Inv(s), ConnectTimeout(s)
    PROVE  Inv(s)'
<1>1. TypeOK'
  <2>1. at' \in [Sessions -> Places]
    BY ConstantsAssumption, GoStep
    DEF ConnectTimeout, Move, p4, usb, services, history, Inv, TypeOK, Places, Steps,
        Shells, Marks
  <2>2. shell' \in [Sessions -> Shells]
    <3>0. shell[s] \in Shells
      BY DEF Inv, TypeOK
    <3>1. [shell[s] EXCEPT !.ok = "restore", !.ko = "restore"] \in Shells
      BY <3>0, ShellUpdate
    <3> QED
      BY <3>1 DEF ConnectTimeout, Inv, TypeOK
  <2>3. runs' \in [Batches -> Nat]
    BY DEF ConnectTimeout, Inv, TypeOK, history
  <2> QED
    BY <2>1, <2>2, <2>3, ConstantsAssumption
    DEF ConnectTimeout, Move, p4, usb, services, history, Inv, TypeOK, Marks, Places
<1>2. Exits(s)'
  BY ConstantsAssumption
  DEF ConnectTimeout, Move, p4, usb, services, history, Go, Inv, TypeOK, Exits, Ends
<1>3. Owner(s)'
  BY ConstantsAssumption
  DEF ConnectTimeout, Move, p4, usb, services, history, Go, Inv, TypeOK, Owner,
      OneOwner, Exits, Ends
<1>4. Once(s)'
  BY ConstantsAssumption
  DEF ConnectTimeout, Move, p4, usb, services, history, Go, Inv, TypeOK, Owner,
      OneOwner, Once, Exits, Ends, InFlight, Shells
<1>5. Undisturbed(s)'
  BY ConstantsAssumption
  DEF ConnectTimeout, Move, p4, usb, services, history, Go, Inv, TypeOK, Exits, Ends,
      Undisturbed, Returning, Path, Owed, Entering, After, Shells, Marks
<1> QED
  BY <1>1, <1>2, <1>3, <1>4, <1>5 DEF Inv

LEMMA TeardownInv ==
    ASSUME NEW s \in Sessions, Sessions = {s}, Inv(s), Teardown(s)
    PROVE  Inv(s)'
<1> DEFINE sh == [shell[s] EXCEPT !.active = FALSE]
<1>0. /\ shell[s] \in Shells /\ sh \in Shells
      /\ {"process", "idle", sh.ok, sh.ko} \subseteq Places
      /\ sh.verb = shell[s].verb /\ sh.marks = shell[s].marks
      /\ sh.ok = shell[s].ok /\ sh.ko = shell[s].ko
  <2>1. shell[s] \in Shells
    BY DEF Inv, TypeOK
  <2>2. sh \in Shells
    BY <2>1, ShellUpdate
  <2>3. sh.verb = shell[s].verb /\ sh.marks = shell[s].marks
        /\ sh.ok = shell[s].ok /\ sh.ko = shell[s].ko
    BY <2>1 DEF Shells
  <2> QED
    BY <2>1, <2>2, <2>3 DEF Shells, Places, Steps
<1>c. IF sh.verb = "leave" THEN CallMount(s, sh, "process", "idle")
                           ELSE CallMount(s, sh, sh.ok, sh.ko)
  BY DEF Teardown
<1> HIDE DEF sh
<1>e. /\ at[s] = "teardown" /\ shell' \in [Sessions -> Shells] /\ at' \in [Sessions -> Places]
      /\ shell'[s].verb = shell[s].verb /\ shell'[s].marks = shell[s].marks
      /\ at'[s] = "check" /\ udc' = IF udc = "disk" THEN None ELSE udc
      /\ IF shell[s].verb = "leave"
         THEN shell'[s].ok = "process" /\ shell'[s].ko = "idle"
         ELSE shell'[s].ok = shell[s].ok /\ shell'[s].ko = shell[s].ko
  <2>1. CASE sh.verb = "leave"
    BY <1>0, <1>c, <2>1, CallStep DEF Teardown, Inv
  <2>2. CASE sh.verb # "leave"
    <3>1. CallMount(s, sh, sh.ok, sh.ko)
      BY <1>c, <2>2
    <3> QED
      BY <1>0, <2>2, <3>1, CallStep DEF Teardown, Inv
  <2> QED
    BY <2>1, <2>2
<1>u. UNCHANGED <<p4, cable, settling, services, history>>
  BY DEF Teardown
<1>1. TypeOK'
  BY <1>e, <1>u DEF Inv, TypeOK, Places, p4, services, history
<1>2. Exits(s)'
  BY <1>e, <1>u, ConstantsAssumption
  DEF Inv, TypeOK, Places, Exits, Ends, p4, services, history
<1>3. Owner(s)'
  BY <1>e, <1>u, ConstantsAssumption
  DEF Inv, TypeOK, Places, Owner, OneOwner, Exits, Ends, p4, services, history
<1>4. Once(s)'
  BY <1>e, <1>u, ConstantsAssumption
  DEF Inv, TypeOK, Places, Owner, OneOwner, Once, Exits, Ends, InFlight, Shells, p4,
      services, history
<1>5. Undisturbed(s)'
  BY <1>e, <1>u, ConstantsAssumption
  DEF Inv, TypeOK, Places, Exits, Ends, Undisturbed, Returning, Path, Owed, Entering,
      After, Shells, Marks, p4, services, history
<1> QED
  BY <1>1, <1>2, <1>3, <1>4, <1>5 DEF Inv

LEMMA CheckRefusedInv ==
    ASSUME NEW s \in Sessions, Sessions = {s}, Inv(s), CheckRefused(s)
    PROVE  Inv(s)'
<1>0. shell[s].ko \in Places
  BY DEF Inv, TypeOK, Shells, Places
<1>e. /\ at[s] = "check" /\ shell' \in [Sessions -> Shells] /\ at' \in [Sessions -> Places]
      /\ at'[s] = shell[s].ko /\ withheld' = (withheld \/ ~mounted)
      /\ shell'[s] = IF shell[s].ko = "idle" THEN Fresh ELSE shell[s]
  BY <1>0, ToStep DEF CheckRefused, MountFails, Inv
<1>u. UNCHANGED <<p4, usb, services, wanted, disturbed, given, runs>>
  BY DEF CheckRefused
<1>1. TypeOK'
  BY <1>e, <1>u DEF Inv, TypeOK, Places, p4, usb, services
<1>2. Exits(s)'
  BY <1>e, <1>u, ConstantsAssumption, FreshShell
  DEF Inv, TypeOK, Places, Exits, Ends, p4, usb, services, Steps
<1>3. Owner(s)'
  BY <1>e, <1>u, ConstantsAssumption, FreshShell
  DEF Inv, TypeOK, Places, Owner, OneOwner, Exits, Ends, p4, usb, services, Steps
<1>4. Once(s)'
  BY <1>e, <1>u, ConstantsAssumption, FreshShell
  DEF Inv, TypeOK, Places, Owner, OneOwner, Once, Exits, Ends, InFlight, Shells, p4,
      usb, services, Steps
<1>5. Undisturbed(s)'
  BY <1>e, <1>u, ConstantsAssumption, FreshShell
  DEF Inv, TypeOK, Places, Exits, Ends, Undisturbed, Returning, Path, Owed, Entering,
      After, Shells, Marks, p4, usb, services, Steps
<1> QED
  BY <1>1, <1>2, <1>3, <1>4, <1>5 DEF Inv

LEMMA CheckInv ==
    ASSUME NEW s \in Sessions, Sessions = {s}, Inv(s), Check(s)
    PROVE  Inv(s)'
<1>1. TypeOK'
  <2>1. at' \in [Sessions -> Places]
    BY ConstantsAssumption, GoStep
    DEF Check, Move, p4, usb, services, history, Inv, TypeOK, Places, Steps, Shells,
        Marks
  <2>2. shell' \in [Sessions -> Shells]
    <3>0. shell[s] \in Shells
      BY DEF Inv, TypeOK
    <3>1. [shell[s] EXCEPT !.dev = TRUE] \in Shells
      BY <3>0, ShellUpdate
    <3> QED
      BY <3>1 DEF Check, Inv, TypeOK
  <2>3. runs' \in [Batches -> Nat]
    BY DEF Check, Inv, TypeOK, history
  <2> QED
    BY <2>1, <2>2, <2>3, ConstantsAssumption
    DEF Check, Move, p4, usb, services, history, Inv, TypeOK, Marks, Places
<1>2. Exits(s)'
  BY ConstantsAssumption
  DEF Check, Move, p4, usb, services, history, Go, Inv, TypeOK, Exits, Ends
<1>3. Owner(s)'
  BY ConstantsAssumption
  DEF Check, Move, p4, usb, services, history, Go, Inv, TypeOK, Owner, OneOwner,
      Exits, Ends
<1>4. Once(s)'
  BY ConstantsAssumption
  DEF Check, Move, p4, usb, services, history, Go, Inv, TypeOK, Owner, OneOwner, Once,
      Exits, Ends, InFlight, Shells
<1>5. Undisturbed(s)'
  BY ConstantsAssumption
  DEF Check, Move, p4, usb, services, history, Go, Inv, TypeOK, Exits, Ends,
      Undisturbed, Returning, Path, Owed, Entering, After, Shells, Marks
<1> QED
  BY <1>1, <1>2, <1>3, <1>4, <1>5 DEF Inv

LEMMA FsckInv ==
    ASSUME NEW s \in Sessions, Sessions = {s}, Inv(s), Fsck(s)
    PROVE  Inv(s)'
<1>1. TypeOK'
  <2>1. at' \in [Sessions -> Places]
    BY ConstantsAssumption, GoStep
    DEF Fsck, Move, usb, services, history, Inv, TypeOK, Places, Steps, Shells, Marks
  <2>2. shell' \in [Sessions -> Shells]
    BY ConstantsAssumption, GoStep
    DEF Fsck, Move, usb, services, history, Inv, TypeOK, Places, Steps, Shells, Marks
  <2>3. runs' \in [Batches -> Nat]
    BY DEF Fsck, Inv, TypeOK, history
  <2>4. {mounted', bound', dirty'} \subseteq BOOLEAN
        /\ {mailbox', stored'} \subseteq Batches \cup {None}
    BY DEF Fsck, Move, usb, services, history, Inv, TypeOK, Marks
  <2>5. {cable', settling'} \subseteq BOOLEAN /\ udc' \in {"disk", "adb", None}
    BY DEF Fsck, Move, usb, services, history, Inv, TypeOK, Marks
  <2>6. {enabled', serving', backup', adb'} \subseteq BOOLEAN /\ marks' \subseteq Marks
    BY DEF Fsck, Move, usb, services, history, Inv, TypeOK, Marks
  <2>7. wanted' \subseteq Marks /\ {disturbed', withheld'} \subseteq BOOLEAN
        /\ given' \subseteq Batches
    BY DEF Fsck, Move, usb, services, history, Inv, TypeOK, Marks
  <2> QED
    BY <2>1, <2>2, <2>3, <2>4, <2>5, <2>6, <2>7 DEF TypeOK, Places
<1>2. Exits(s)'
  BY ConstantsAssumption
  DEF Fsck, Move, usb, services, history, Go, Inv, TypeOK, Exits, Ends
<1>3. Owner(s)'
  BY ConstantsAssumption
  DEF Fsck, Move, usb, services, history, Go, Inv, TypeOK, Owner, OneOwner, Exits,
      Ends
<1>4. Once(s)'
  BY ConstantsAssumption
  DEF Fsck, Move, usb, services, history, Go, Inv, TypeOK, Owner, OneOwner, Once,
      Exits, Ends, InFlight, Shells
<1>5. Undisturbed(s)'
  BY ConstantsAssumption
  DEF Fsck, Move, usb, services, history, Go, Inv, TypeOK, Exits, Ends, Undisturbed,
      Returning, Path, Owed, Entering, After, Shells, Marks
<1> QED
  BY <1>1, <1>2, <1>3, <1>4, <1>5 DEF Inv

LEMMA MountInv ==
    ASSUME NEW s \in Sessions, Sessions = {s}, Inv(s), Mount(s)
    PROVE  Inv(s)'
<1>1. TypeOK'
  <2>1. at' \in [Sessions -> Places]
    BY ConstantsAssumption, GoStep
    DEF Mount, Move, usb, services, Inv, TypeOK, Places, Steps, Shells, Marks
  <2>2. shell' \in [Sessions -> Shells]
    BY ConstantsAssumption, GoStep
    DEF Mount, Move, usb, services, Inv, TypeOK, Places, Steps, Shells, Marks
  <2>3. runs' \in [Batches -> Nat]
    BY DEF Mount, Inv, TypeOK, history
  <2>4. {mounted', bound', dirty'} \subseteq BOOLEAN
        /\ {mailbox', stored'} \subseteq Batches \cup {None}
    BY DEF Mount, Move, usb, services, Inv, TypeOK, Marks
  <2>5. {cable', settling'} \subseteq BOOLEAN /\ udc' \in {"disk", "adb", None}
    BY DEF Mount, Move, usb, services, Inv, TypeOK, Marks
  <2>6. {enabled', serving', backup', adb'} \subseteq BOOLEAN /\ marks' \subseteq Marks
    BY DEF Mount, Move, usb, services, Inv, TypeOK, Marks
  <2>7. wanted' \subseteq Marks /\ {disturbed', withheld'} \subseteq BOOLEAN
        /\ given' \subseteq Batches
    BY DEF Mount, Move, usb, services, Inv, TypeOK, Marks
  <2> QED
    BY <2>1, <2>2, <2>3, <2>4, <2>5, <2>6, <2>7 DEF TypeOK, Places
<1>2. Exits(s)'
  BY ConstantsAssumption DEF Mount, Move, usb, services, Go, Inv, TypeOK, Exits, Ends
<1>3. Owner(s)'
  BY ConstantsAssumption
  DEF Mount, Move, usb, services, Go, Inv, TypeOK, Owner, OneOwner, Exits, Ends
<1>4. Once(s)'
  BY ConstantsAssumption
  DEF Mount, Move, usb, services, Go, Inv, TypeOK, Owner, OneOwner, Once, Exits, Ends,
      InFlight, Shells
<1>5. Undisturbed(s)'
  BY ConstantsAssumption
  DEF Mount, Move, usb, services, Go, Inv, TypeOK, Exits, Ends, Undisturbed,
      Returning, Path, Owed, Entering, After, Shells, Marks
<1> QED
  BY <1>1, <1>2, <1>3, <1>4, <1>5 DEF Inv

LEMMA MountRefusedInv ==
    ASSUME NEW s \in Sessions, Sessions = {s}, Inv(s), MountRefused(s)
    PROVE  Inv(s)'
<1>0. shell[s].ko \in Places
  BY DEF Inv, TypeOK, Shells, Places
<1>e. /\ at[s] \in {"fsck", "mount"} /\ shell' \in [Sessions -> Shells]
      /\ at' \in [Sessions -> Places]
      /\ at'[s] = shell[s].ko /\ withheld' = (withheld \/ ~mounted)
      /\ shell'[s] = IF shell[s].ko = "idle" THEN Fresh ELSE shell[s]
  BY <1>0, ToStep DEF MountRefused, MountFails, Inv
<1>u. UNCHANGED <<p4, usb, services, wanted, disturbed, given, runs>>
  BY DEF MountRefused
<1>1. TypeOK'
  BY <1>e, <1>u DEF Inv, TypeOK, Places, p4, usb, services
<1>2. Exits(s)'
  BY <1>e, <1>u, ConstantsAssumption, FreshShell
  DEF Inv, TypeOK, Places, Exits, Ends, p4, usb, services, Steps
<1>3. Owner(s)'
  BY <1>e, <1>u, ConstantsAssumption, FreshShell
  DEF Inv, TypeOK, Places, Owner, OneOwner, Exits, Ends, p4, usb, services, Steps
<1>4. Once(s)'
  BY <1>e, <1>u, ConstantsAssumption, FreshShell
  DEF Inv, TypeOK, Places, Owner, OneOwner, Once, Exits, Ends, InFlight, Shells, p4,
      usb, services, Steps
<1>5. Undisturbed(s)'
  BY <1>e, <1>u, ConstantsAssumption, FreshShell
  DEF Inv, TypeOK, Places, Exits, Ends, Undisturbed, Returning, Path, Owed, Entering,
      After, Shells, Marks, p4, usb, services, Steps
<1> QED
  BY <1>1, <1>2, <1>3, <1>4, <1>5 DEF Inv

LEMMA ReadyInv ==
    ASSUME NEW s \in Sessions, Sessions = {s}, Inv(s), Ready(s)
    PROVE  Inv(s)'
<1>1. TypeOK'
  <2>1. at' \in [Sessions -> Places]
    BY ConstantsAssumption, GoStep
    DEF Ready, Move, p4, usb, services, history, Inv, TypeOK, Places, Steps, Shells,
        Marks
  <2>2. shell' \in [Sessions -> Shells]
    <3>0. shell[s] \in Shells
      BY DEF Inv, TypeOK
    <3>1. [shell[s] EXCEPT !.released = FALSE] \in Shells
      BY <3>0, ShellUpdate
    <3> QED
      BY <3>1 DEF Ready, Inv, TypeOK
  <2>3. runs' \in [Batches -> Nat]
    BY DEF Ready, Inv, TypeOK, history
  <2> QED
    BY <2>1, <2>2, <2>3, ConstantsAssumption
    DEF Ready, Move, p4, usb, services, history, Inv, TypeOK, Marks, Places
<1>2. Exits(s)'
  BY ConstantsAssumption
  DEF Ready, Move, p4, usb, services, history, Go, Inv, TypeOK, Exits, Ends
<1>3. Owner(s)'
  BY ConstantsAssumption
  DEF Ready, Move, p4, usb, services, history, Go, Inv, TypeOK, Owner, OneOwner,
      Exits, Ends
<1>4. Once(s)'
  BY ConstantsAssumption
  DEF Ready, Move, p4, usb, services, history, Go, Inv, TypeOK, Owner, OneOwner, Once,
      Exits, Ends, InFlight, Shells
<1>5. Undisturbed(s)'
  BY ConstantsAssumption
  DEF Ready, Move, p4, usb, services, history, Go, Inv, TypeOK, Exits, Ends,
      Undisturbed, Returning, Path, Owed, Entering, After, Shells, Marks
<1> QED
  BY <1>1, <1>2, <1>3, <1>4, <1>5 DEF Inv

LEMMA NotReadyInv ==
    ASSUME NEW s \in Sessions, Sessions = {s}, Inv(s), NotReady(s)
    PROVE  Inv(s)'
<1>0. shell[s].ko \in Places
  BY DEF Inv, TypeOK, Shells, Places
<1>e. /\ at[s] = "ready" /\ shell' \in [Sessions -> Shells] /\ at' \in [Sessions -> Places]
      /\ at'[s] = shell[s].ko /\ withheld' = (withheld \/ ~mounted')
      /\ shell'[s] = IF shell[s].ko = "idle" THEN Fresh ELSE shell[s]
      /\ mounted' \in BOOLEAN /\ (mounted' => mounted) /\ stored' \in {stored, mailbox}
  <2>1. /\ at[s] = "ready" /\ shell' \in [Sessions -> Shells] /\ at' \in [Sessions -> Places]
        /\ at'[s] = shell[s].ko /\ withheld' = (withheld \/ ~mounted')
        /\ shell'[s] = IF shell[s].ko = "idle" THEN Fresh ELSE shell[s]
    BY <1>0, ToStep DEF NotReady, MountFails, Inv
  <2>2. stored' \in {stored, mailbox}
    BY DEF NotReady
  <2>3. mounted' \in BOOLEAN /\ (mounted' => mounted)
    <3>1. CASE mounted' = FALSE
      BY <3>1
    <3>2. CASE mounted' = mounted
      BY <3>2 DEF Inv, TypeOK
    <3> QED
      BY <3>1, <3>2 DEF NotReady
  <2> QED
    BY <2>1, <2>2, <2>3
<1>u. UNCHANGED <<bound, dirty, mailbox, usb, services, wanted, disturbed, given, runs>>
  BY DEF NotReady
<1>1. TypeOK'
  BY <1>e, <1>u DEF Inv, TypeOK, Places, usb, services
<1>2. Exits(s)'
  BY <1>e, <1>u, ConstantsAssumption, FreshShell
  DEF Inv, TypeOK, Places, Exits, Ends, usb, services, Steps
<1>3. Owner(s)'
  BY <1>e, <1>u, ConstantsAssumption, FreshShell
  DEF Inv, TypeOK, Places, Owner, OneOwner, Exits, Ends, usb, services, Steps
<1>4. Once(s)'
  BY <1>e, <1>u, ConstantsAssumption, FreshShell
  DEF Inv, TypeOK, Places, Owner, OneOwner, Once, Exits, Ends, InFlight, Shells, usb,
      services, Steps
<1>5. Undisturbed(s)'
  BY <1>e, <1>u, ConstantsAssumption, FreshShell
  DEF Inv, TypeOK, Places, Exits, Ends, Undisturbed, Returning, Path, Owed, Entering,
      After, Shells, Marks, usb, services, Steps
<1> QED
  BY <1>1, <1>2, <1>3, <1>4, <1>5 DEF Inv

LEMMA BindInv ==
    ASSUME NEW s \in Sessions, Sessions = {s}, Inv(s), Bind(s)
    PROVE  Inv(s)'
<1>0. shell[s].ko \in Places /\ shell[s].ok \in Places
  BY DEF Inv, TypeOK, Shells, Places
<1>e. /\ at[s] = "bind" /\ shell' \in [Sessions -> Shells] /\ at' \in [Sessions -> Places]
      /\ at'[s] \in {shell[s].ok, shell[s].ko} /\ bound' \in BOOLEAN
      /\ shell'[s] = IF at'[s] = "idle" THEN Fresh ELSE shell[s]
  BY <1>0, ToStep DEF Bind, Inv
<1>u. UNCHANGED <<mounted, dirty, mailbox, stored, usb, services, history>>
  BY DEF Bind
<1>1. TypeOK'
  BY <1>e, <1>u DEF Inv, TypeOK, Places, usb, services, history
<1>2. Exits(s)'
  BY <1>e, <1>u, ConstantsAssumption, FreshShell
  DEF Inv, TypeOK, Places, Exits, Ends, usb, services, history, Steps
<1>3. Owner(s)'
  BY <1>e, <1>u, ConstantsAssumption, FreshShell
  DEF Inv, TypeOK, Places, Owner, OneOwner, Exits, Ends, usb, services, history, Steps
<1>4. Once(s)'
  BY <1>e, <1>u, ConstantsAssumption, FreshShell
  DEF Inv, TypeOK, Places, Owner, OneOwner, Once, Exits, Ends, InFlight, Shells, usb,
      services, history, Steps
<1>5. Undisturbed(s)'
  BY <1>e, <1>u, ConstantsAssumption, FreshShell
  DEF Inv, TypeOK, Places, Exits, Ends, Undisturbed, Returning, Path, Owed, Entering,
      After, Shells, Marks, usb, services, history, Steps
<1> QED
  BY <1>1, <1>2, <1>3, <1>4, <1>5 DEF Inv

LEMMA ProcessInv ==
    ASSUME NEW s \in Sessions, Sessions = {s}, Inv(s), Process(s)
    PROVE  Inv(s)'
<1>0. shell[s] \in Shells /\ AfterCommands(s) \in Places /\ "mailbox" \in Places
  BY DEF Inv, TypeOK, AfterCommands, Places, Steps
<1>e. /\ at[s] = "process" /\ shell' \in [Sessions -> Shells] /\ at' \in [Sessions -> Places]
      /\ \/ /\ at'[s] = AfterCommands(s)
            /\ shell'[s] = IF AfterCommands(s) = "idle" THEN Fresh ELSE shell[s]
         \/ /\ at'[s] = "check" /\ shell'[s].ok = "mailbox" /\ shell'[s].ko = AfterCommands(s)
            /\ shell'[s].verb = shell[s].verb /\ shell'[s].marks = shell[s].marks
  BY <1>0, CallStep, ToStep DEF Process, Inv
<1>u. UNCHANGED <<p4, usb, services, history>>
  BY DEF Process
<1>1. TypeOK'
  BY <1>e, <1>u DEF Inv, TypeOK, Places, p4, usb, services, history
<1>2. Exits(s)'
  BY <1>e, <1>u, ConstantsAssumption, FreshShell
  DEF Inv, TypeOK, Places, Exits, Ends, p4, usb, services, history, AfterCommands
<1>3. Owner(s)'
  BY <1>e, <1>u, ConstantsAssumption, FreshShell
  DEF Inv, TypeOK, Places, Owner, OneOwner, Exits, Ends, p4, usb, services, history,
      AfterCommands
<1>4. Once(s)'
  BY <1>e, <1>u, ConstantsAssumption, FreshShell
  DEF Inv, TypeOK, Places, Owner, OneOwner, Once, Exits, Ends, InFlight, Shells, p4,
      usb, services, history, AfterCommands
<1>5. Undisturbed(s)'
  BY <1>e, <1>u, ConstantsAssumption, FreshShell
  DEF Inv, TypeOK, Places, Exits, Ends, Undisturbed, Returning, Path, Owed, Entering,
      After, Shells, Marks, p4, usb, services, history, AfterCommands
<1> QED
  BY <1>1, <1>2, <1>3, <1>4, <1>5 DEF Inv

LEMMA MailboxInv ==
    ASSUME NEW s \in Sessions, Sessions = {s}, Inv(s), Mailbox(s)
    PROVE  Inv(s)'
<1>1. TypeOK'
  <2>1. at' \in [Sessions -> Places]
    BY ConstantsAssumption, FreshShell, ToStep
    DEF Mailbox, AfterCommands, p4, usb, services, history, Inv, TypeOK, Places,
        Steps, Shells, Marks
  <2>2. shell' \in [Sessions -> Shells]
    BY ConstantsAssumption, FreshShell, ToStep
    DEF Mailbox, AfterCommands, p4, usb, services, history, Inv, TypeOK, Places,
        Steps, Shells, Marks
  <2>3. runs' \in [Batches -> Nat]
    BY DEF Mailbox, Inv, TypeOK, history
  <2> QED
    BY <2>1, <2>2, <2>3, ConstantsAssumption
    DEF Mailbox, AfterCommands, p4, usb, services, history, Inv, TypeOK, Marks, Places
<1>2. Exits(s)'
  BY ConstantsAssumption
  DEF Mailbox, To, AfterCommands, p4, usb, services, history, Keep, Exit, Go, Fresh,
      Inv, TypeOK, Exits, Ends
<1>3. Owner(s)'
  BY ConstantsAssumption
  DEF Mailbox, To, AfterCommands, p4, usb, services, history, Keep, Exit, Go, Fresh,
      Inv, TypeOK, Owner, OneOwner, Exits, Ends
<1>4. Once(s)'
  BY ConstantsAssumption
  DEF Mailbox, To, AfterCommands, p4, usb, services, history, Keep, Exit, Go, Fresh,
      Inv, TypeOK, Owner, OneOwner, Once, Exits, Ends, InFlight, Shells
<1>5. Undisturbed(s)'
  BY ConstantsAssumption
  DEF Mailbox, To, AfterCommands, p4, usb, services, history, Keep, Exit, Go, Fresh,
      Inv, TypeOK, Exits, Ends, Undisturbed, Returning, Path, Owed, Entering, After,
      Shells, Marks
<1> QED
  BY <1>1, <1>2, <1>3, <1>4, <1>5 DEF Inv

LEMMA CopyInv ==
    ASSUME NEW s \in Sessions, Sessions = {s}, Inv(s), Copy(s)
    PROVE  Inv(s)'
<1>1. TypeOK'
  <2>1. at' \in [Sessions -> Places]
    BY ConstantsAssumption, FreshShell, GoStep, ToStep
    DEF Copy, AfterCommands, p4, usb, services, history, Inv, TypeOK, Places, Steps,
        Shells, Marks
  <2>2. shell' \in [Sessions -> Shells]
    BY ConstantsAssumption, FreshShell, GoStep, ToStep
    DEF Copy, AfterCommands, p4, usb, services, history, Inv, TypeOK, Places, Steps,
        Shells, Marks
  <2>3. runs' \in [Batches -> Nat]
    BY DEF Copy, Inv, TypeOK, history
  <2> QED
    BY <2>1, <2>2, <2>3, ConstantsAssumption
    DEF Copy, AfterCommands, p4, usb, services, history, Inv, TypeOK, Marks, Places
<1>2. Exits(s)'
  <2>1. shell[s] \in Shells /\ shell \in [Sessions -> Shells]
    BY DEF Inv, TypeOK
  <2>2. shell'[s] \in {Fresh, shell[s], [shell[s] EXCEPT !.batch = mailbox]}
    BY <2>1 DEF Copy, To, Exit, Keep
  <2>3. shell'[s].ok \in {"idle", shell[s].ok} /\ shell'[s].ko \in {"idle", shell[s].ko}
    BY <2>1, <2>2, FreshShell DEF Shells
  <2> QED
    BY <2>3 DEF Inv, Exits, Ends
<1>3. Owner(s)'
  BY ConstantsAssumption
  DEF Copy, Go, To, AfterCommands, p4, usb, services, history, Keep, Exit, Fresh, Inv,
      TypeOK, Owner, OneOwner, Exits, Ends
<1>4. Once(s)'
  BY ConstantsAssumption
  DEF Copy, Go, To, AfterCommands, p4, usb, services, history, Keep, Exit, Fresh, Inv,
      TypeOK, Owner, OneOwner, Once, Exits, Ends, InFlight, Shells
<1>5. Undisturbed(s)'
  BY ConstantsAssumption
  DEF Copy, Go, To, AfterCommands, p4, usb, services, history, Keep, Exit, Fresh, Inv,
      TypeOK, Exits, Ends, Undisturbed, Returning, Path, Owed, Entering, After,
      Shells, Marks
<1> QED
  BY <1>1, <1>2, <1>3, <1>4, <1>5 DEF Inv

LEMMA RemoveInv ==
    ASSUME NEW s \in Sessions, Sessions = {s}, Inv(s), Remove(s)
    PROVE  Inv(s)'
<1>1. TypeOK'
  <2>1. at' \in [Sessions -> Places]
    BY ConstantsAssumption, GoStep
    DEF Remove, Move, usb, services, history, Inv, TypeOK, Places, Steps, Shells,
        Marks
  <2>2. shell' \in [Sessions -> Shells]
    BY ConstantsAssumption, GoStep
    DEF Remove, Move, usb, services, history, Inv, TypeOK, Places, Steps, Shells,
        Marks
  <2>3. runs' \in [Batches -> Nat]
    BY DEF Remove, Inv, TypeOK, history
  <2> QED
    BY <2>1, <2>2, <2>3, ConstantsAssumption
    DEF Remove, Move, usb, services, history, Inv, TypeOK, Marks, Places
<1>2. Exits(s)'
  BY ConstantsAssumption
  DEF Remove, Move, usb, services, history, Go, Inv, TypeOK, Exits, Ends
<1>3. Owner(s)'
  BY ConstantsAssumption
  DEF Remove, Move, usb, services, history, Go, Inv, TypeOK, Owner, OneOwner, Exits,
      Ends
<1>4. Once(s)'
  BY ConstantsAssumption
  DEF Remove, Move, usb, services, history, Go, Inv, TypeOK, Owner, OneOwner, Once,
      Exits, Ends, InFlight, Shells
<1>5. Undisturbed(s)'
  BY ConstantsAssumption
  DEF Remove, Move, usb, services, history, Go, Inv, TypeOK, Exits, Ends, Undisturbed,
      Returning, Path, Owed, Entering, After, Shells, Marks
<1> QED
  BY <1>1, <1>2, <1>3, <1>4, <1>5 DEF Inv

LEMMA SyncInv ==
    ASSUME NEW s \in Sessions, Sessions = {s}, Inv(s), Sync(s)
    PROVE  Inv(s)'
<1>1. TypeOK'
  <2>1. at' \in [Sessions -> Places]
    BY ConstantsAssumption, GoStep
    DEF Sync, Move, usb, services, history, Inv, TypeOK, Places, Steps, Shells, Marks
  <2>2. shell' \in [Sessions -> Shells]
    BY ConstantsAssumption, GoStep
    DEF Sync, Move, usb, services, history, Inv, TypeOK, Places, Steps, Shells, Marks
  <2>3. runs' \in [Batches -> Nat]
    BY DEF Sync, Inv, TypeOK, history
  <2> QED
    BY <2>1, <2>2, <2>3, ConstantsAssumption
    DEF Sync, Move, usb, services, history, Inv, TypeOK, Marks, Places
<1>2. Exits(s)'
  BY ConstantsAssumption
  DEF Sync, Move, usb, services, history, Go, Inv, TypeOK, Exits, Ends
<1>3. Owner(s)'
  BY ConstantsAssumption
  DEF Sync, Move, usb, services, history, Go, Inv, TypeOK, Owner, OneOwner, Exits,
      Ends
<1>4. Once(s)'
  BY ConstantsAssumption
  DEF Sync, Move, usb, services, history, Go, Inv, TypeOK, Owner, OneOwner, Once,
      Exits, Ends, InFlight, Shells
<1>5. Undisturbed(s)'
  BY ConstantsAssumption
  DEF Sync, Move, usb, services, history, Go, Inv, TypeOK, Exits, Ends, Undisturbed,
      Returning, Path, Owed, Entering, After, Shells, Marks
<1> QED
  BY <1>1, <1>2, <1>3, <1>4, <1>5 DEF Inv

LEMMA ExecInv ==
    ASSUME NEW s \in Sessions, Sessions = {s}, Inv(s), Exec(s)
    PROVE  Inv(s)'
<1>1. TypeOK'
  <2>1. at' \in [Sessions -> Places]
    BY ConstantsAssumption, FreshShell, ToStep
    DEF Exec, AfterCommands, p4, usb, services, Inv, TypeOK, Places, Steps, Shells,
        Marks
  <2>2. shell' \in [Sessions -> Shells]
    BY ConstantsAssumption, FreshShell, ToStep
    DEF Exec, AfterCommands, p4, usb, services, Inv, TypeOK, Places, Steps, Shells,
        Marks
  <2>3. runs' \in [Batches -> Nat]
    <3>1. shell[s].batch \in Batches
      BY ConstantsAssumption DEF Exec, Inv, Once, TypeOK
    <3> QED
      BY <3>1 DEF Exec, Inv, TypeOK
  <2> QED
    BY <2>1, <2>2, <2>3, ConstantsAssumption
    DEF Exec, AfterCommands, p4, usb, services, Inv, TypeOK, Marks, Places
<1>2. Exits(s)'
  BY ConstantsAssumption
  DEF Exec, To, AfterCommands, p4, usb, services, Keep, Exit, Go, Fresh, Inv, TypeOK,
      Exits, Ends
<1>3. Owner(s)'
  BY ConstantsAssumption
  DEF Exec, To, AfterCommands, p4, usb, services, Keep, Exit, Go, Fresh, Inv, TypeOK,
      Owner, OneOwner, Exits, Ends
<1>4. Once(s)'
  BY ConstantsAssumption
  DEF Exec, To, AfterCommands, p4, usb, services, Keep, Exit, Go, Fresh, Inv, TypeOK,
      Owner, OneOwner, Once, Exits, Ends, InFlight, Shells
<1>5. Undisturbed(s)'
  BY ConstantsAssumption
  DEF Exec, To, AfterCommands, p4, usb, services, Keep, Exit, Go, Fresh, Inv, TypeOK,
      Exits, Ends, Undisturbed, Returning, Path, Owed, Entering, After, Shells, Marks
<1> QED
  BY <1>1, <1>2, <1>3, <1>4, <1>5 DEF Inv

LEMMA RestoreServicesInv ==
    ASSUME NEW s \in Sessions, Sessions = {s}, Inv(s), RestoreServices(s)
    PROVE  Inv(s)'
<1>1. TypeOK'
  <2>1. at' \in [Sessions -> Places]
    BY ConstantsAssumption, GoStep
    DEF RestoreServices, Move, p4, usb, services, history, Inv, TypeOK, Places, Steps,
        Shells, Marks
  <2>2. shell' \in [Sessions -> Shells]
    BY ConstantsAssumption, GoStep
    DEF RestoreServices, Move, p4, usb, services, history, Inv, TypeOK, Places, Steps,
        Shells, Marks
  <2>3. runs' \in [Batches -> Nat]
    BY DEF RestoreServices, Inv, TypeOK, history
  <2> QED
    BY <2>1, <2>2, <2>3, ConstantsAssumption
    DEF RestoreServices, Move, p4, usb, services, history, Inv, TypeOK, Marks, Places
<1>2. Exits(s)'
  <2>1. shell[s] \in Shells /\ shell \in [Sessions -> Shells]
    BY DEF Inv, TypeOK
  <2>2. shell'[s] \in {shell[s], [shell[s] EXCEPT !.marks = @ \ {"services"}]}
    BY <2>1 DEF RestoreServices
  <2>3. shell'[s].ok \in {"idle", shell[s].ok} /\ shell'[s].ko \in {"idle", shell[s].ko}
    BY <2>1, <2>2, FreshShell DEF Shells
  <2> QED
    BY <2>3 DEF Inv, Exits, Ends
<1>3. Owner(s)'
  BY ConstantsAssumption
  DEF RestoreServices, Move, p4, usb, services, history, Go, Inv, TypeOK, Owner,
      OneOwner, Exits, Ends
<1>4. Once(s)'
  BY ConstantsAssumption
  DEF RestoreServices, Move, p4, usb, services, history, Go, Inv, TypeOK, Owner,
      OneOwner, Once, Exits, Ends, InFlight, Shells
<1>5. Undisturbed(s)'
  BY ConstantsAssumption
  DEF RestoreServices, Move, p4, usb, services, history, Go, Inv, TypeOK, Exits, Ends,
      Undisturbed, Returning, Path, Owed, Entering, After, Shells, Marks
<1> QED
  BY <1>1, <1>2, <1>3, <1>4, <1>5 DEF Inv

LEMMA RestoreAdbInv ==
    ASSUME NEW s \in Sessions, Sessions = {s}, Inv(s), RestoreAdb(s)
    PROVE  Inv(s)'
<1>1. TypeOK'
  <2>1. at' \in [Sessions -> Places]
    BY ConstantsAssumption, FreshShell, ExitStep
    DEF RestoreAdb, AdbStarts, p4, history, Inv, TypeOK, Places, Steps, Shells, Marks
  <2>2. shell' \in [Sessions -> Shells]
    BY ConstantsAssumption, FreshShell, ExitStep
    DEF RestoreAdb, AdbStarts, p4, history, Inv, TypeOK, Places, Steps, Shells, Marks
  <2>3. runs' \in [Batches -> Nat]
    BY DEF RestoreAdb, Inv, TypeOK, history
  <2>4. {mounted', bound', dirty'} \subseteq BOOLEAN
        /\ {mailbox', stored'} \subseteq Batches \cup {None}
    BY DEF RestoreAdb, AdbStarts, p4, history, Inv, TypeOK, Marks
  <2>5. {cable', settling'} \subseteq BOOLEAN /\ udc' \in {"disk", "adb", None}
    BY DEF RestoreAdb, AdbStarts, p4, history, Inv, TypeOK, Marks
  <2>6. {enabled', serving', backup', adb'} \subseteq BOOLEAN /\ marks' \subseteq Marks
    BY DEF RestoreAdb, AdbStarts, p4, history, Inv, TypeOK, Marks
  <2>7. wanted' \subseteq Marks /\ {disturbed', withheld'} \subseteq BOOLEAN
        /\ given' \subseteq Batches
    BY DEF RestoreAdb, AdbStarts, p4, history, Inv, TypeOK, Marks
  <2> QED
    BY <2>1, <2>2, <2>3, <2>4, <2>5, <2>6, <2>7 DEF TypeOK, Places
<1>2. Exits(s)'
  BY ConstantsAssumption
  DEF RestoreAdb, Exit, AdbStarts, p4, history, Go, Fresh, Inv, TypeOK, Exits, Ends
<1>3. Owner(s)'
  BY ConstantsAssumption
  DEF RestoreAdb, Exit, AdbStarts, p4, history, Go, Fresh, Inv, TypeOK, Owner,
      OneOwner, Exits, Ends
<1>4. Once(s)'
  BY ConstantsAssumption
  DEF RestoreAdb, Exit, AdbStarts, p4, history, Go, Fresh, Inv, TypeOK, Owner,
      OneOwner, Once, Exits, Ends, InFlight, Shells
<1>5. Undisturbed(s)'
  BY ConstantsAssumption
  DEF RestoreAdb, Exit, AdbStarts, p4, history, Go, Fresh, Inv, TypeOK, Exits, Ends,
      Undisturbed, Returning, Path, Owed, Entering, After, Shells, Marks
<1> QED
  BY <1>1, <1>2, <1>3, <1>4, <1>5 DEF Inv

LEMMA SignalInv ==
    ASSUME NEW s \in Sessions, Sessions = {s}, Inv(s), Signal(s)
    PROVE  Inv(s)'
<1>1. TypeOK'
  <2>0. shell[s] \in Shells /\ [shell[s] EXCEPT !.trap = TRUE] \in Shells
    BY ShellUpdate DEF Inv, TypeOK
  <2>1. at' \in [Sessions -> Places]
    <3>1. [shell[s] EXCEPT !.trap = TRUE] \in Shells /\ "restore" \in Places
      BY ShellUpdate DEF Inv, TypeOK, Places, Steps
    <3> QED
      BY <3>1, GoStep, CallStep DEF Signal, Inv
  <2>2. shell' \in [Sessions -> Shells]
    BY <2>0, CallStep DEF Signal, Inv, TypeOK, Places, Steps
  <2>3. runs' \in [Batches -> Nat]
    BY DEF Signal, Inv, TypeOK, history
  <2> QED
    BY <2>1, <2>2, <2>3, ConstantsAssumption
    DEF Signal, Idle, Meets, p4, services, history, Inv, TypeOK, Marks, Places
<1>2. Exits(s)'
  <2>1. shell[s] \in Shells /\ shell \in [Sessions -> Shells]
    BY DEF Inv, TypeOK
  <2>2. [shell[s] EXCEPT !.trap = TRUE] \in Shells
    BY <2>1, ShellUpdate
  <2> DEFINE sh == [shell[s] EXCEPT !.trap = TRUE]
  <2>4. /\ shell[s].released => CallMount(s, sh, "restore", "restore")
        /\ ~shell[s].released => shell' = [shell EXCEPT ![s] = sh]
    BY <2>1 DEF Signal, Shells
  <2>5. sh \in Shells /\ "restore" \in Places /\ sh.ok = shell[s].ok /\ sh.ko = shell[s].ko
    BY <2>1, <2>2 DEF Shells, Places, Steps
  <2> HIDE DEF sh
  <2>3. \/ shell'[s] = sh
        \/ shell'[s].ok = "restore" /\ shell'[s].ko = "restore"
    <3>1. CASE shell[s].released
      BY <2>4, <2>5, <3>1, CallStep DEF Inv
    <3>2. CASE ~shell[s].released
      BY <2>1, <2>4, <3>2
    <3> QED
      BY <3>1, <3>2
  <2> QED
    BY <2>3, <2>5 DEF Inv, Exits, Ends
<1>3. Owner(s)'
  BY ConstantsAssumption
  DEF Signal, Go, CallMount, Idle, Meets, p4, services, history, Inv, TypeOK, Owner,
      OneOwner, Exits, Ends
<1>4. Once(s)'
  BY ConstantsAssumption
  DEF Signal, Go, CallMount, Idle, Meets, p4, services, history, Inv, TypeOK, Owner,
      OneOwner, Once, Exits, Ends, InFlight, Shells
<1>5. Undisturbed(s)'
  BY ConstantsAssumption
  DEF Signal, Go, CallMount, Idle, Meets, p4, services, history, Inv, TypeOK, Exits,
      Ends, Undisturbed, Returning, Path, Owed, Entering, After, Shells, Marks
<1> QED
  BY <1>1, <1>2, <1>3, <1>4, <1>5 DEF Inv

LEMMA CableInv ==
    ASSUME NEW s \in Sessions, Sessions = {s}, Inv(s), Cable
    PROVE  Inv(s)'
<1>1. TypeOK'
  <2>1. at' \in [Sessions -> Places]
    BY ConstantsAssumption
    DEF Cable, p4, services, history, Inv, TypeOK, Places, Steps, Shells, Marks
  <2>2. shell' \in [Sessions -> Shells]
    BY ConstantsAssumption
    DEF Cable, p4, services, history, Inv, TypeOK, Places, Steps, Shells, Marks
  <2>3. runs' \in [Batches -> Nat]
    BY DEF Cable, Inv, TypeOK, history
  <2> QED
    BY <2>1, <2>2, <2>3, ConstantsAssumption
    DEF Cable, p4, services, history, Inv, TypeOK, Marks, Places
<1>2. Exits(s)'
  BY ConstantsAssumption DEF Cable, p4, services, history, Inv, TypeOK, Exits, Ends
<1>3. Owner(s)'
  BY ConstantsAssumption
  DEF Cable, p4, services, history, Inv, TypeOK, Owner, OneOwner, Exits, Ends
<1>4. Once(s)'
  BY ConstantsAssumption
  DEF Cable, p4, services, history, Inv, TypeOK, Owner, OneOwner, Once, Exits, Ends,
      InFlight, Shells
<1>5. Undisturbed(s)'
  BY ConstantsAssumption
  DEF Cable, p4, services, history, Inv, TypeOK, Exits, Ends, Undisturbed, Returning,
      Path, Owed, Entering, After, Shells, Marks
<1> QED
  BY <1>1, <1>2, <1>3, <1>4, <1>5 DEF Inv

LEMMA PcWritesInv ==
    ASSUME NEW s \in Sessions, Sessions = {s}, Inv(s), PcWrites
    PROVE  Inv(s)'
<1>1. TypeOK'
  <2>1. at' \in [Sessions -> Places]
    BY ConstantsAssumption
    DEF PcWrites, usb, services, Inv, TypeOK, Places, Steps, Shells, Marks
  <2>2. shell' \in [Sessions -> Shells]
    BY ConstantsAssumption
    DEF PcWrites, usb, services, Inv, TypeOK, Places, Steps, Shells, Marks
  <2>3. runs' \in [Batches -> Nat]
    BY DEF PcWrites, Inv, TypeOK, history
  <2> QED
    BY <2>1, <2>2, <2>3, ConstantsAssumption
    DEF PcWrites, usb, services, Inv, TypeOK, Marks, Places
<1>2. Exits(s)'
  BY ConstantsAssumption DEF PcWrites, usb, services, Inv, TypeOK, Exits, Ends
<1>3. Owner(s)'
  BY ConstantsAssumption
  DEF PcWrites, usb, services, Inv, TypeOK, Owner, OneOwner, Exits, Ends
<1>4. Once(s)'
  BY ConstantsAssumption
  DEF PcWrites, usb, services, Inv, TypeOK, Owner, OneOwner, Once, Exits, Ends,
      InFlight, Shells
<1>5. Undisturbed(s)'
  BY ConstantsAssumption
  DEF PcWrites, usb, services, Inv, TypeOK, Exits, Ends, Undisturbed, Returning, Path,
      Owed, Entering, After, Shells, Marks
<1> QED
  BY <1>1, <1>2, <1>3, <1>4, <1>5 DEF Inv

LEMMA AdbRecoverInv ==
    ASSUME NEW s \in Sessions, Sessions = {s}, Inv(s), AdbRecover
    PROVE  Inv(s)'
<1>1. TypeOK'
  <2>1. at' \in [Sessions -> Places]
    BY ConstantsAssumption
    DEF AdbRecover, AdbStarts, p4, history, Inv, TypeOK, Places, Steps, Shells, Marks
  <2>2. shell' \in [Sessions -> Shells]
    BY ConstantsAssumption
    DEF AdbRecover, AdbStarts, p4, history, Inv, TypeOK, Places, Steps, Shells, Marks
  <2>3. runs' \in [Batches -> Nat]
    BY DEF AdbRecover, Inv, TypeOK, history
  <2>4. {mounted', bound', dirty'} \subseteq BOOLEAN
        /\ {mailbox', stored'} \subseteq Batches \cup {None}
    BY DEF AdbRecover, AdbStarts, p4, history, Inv, TypeOK, Marks
  <2>5. {cable', settling'} \subseteq BOOLEAN /\ udc' \in {"disk", "adb", None}
    BY DEF AdbRecover, AdbStarts, p4, history, Inv, TypeOK, Marks
  <2>6. {enabled', serving', backup', adb'} \subseteq BOOLEAN /\ marks' \subseteq Marks
    BY DEF AdbRecover, AdbStarts, p4, history, Inv, TypeOK, Marks
  <2>7. wanted' \subseteq Marks /\ {disturbed', withheld'} \subseteq BOOLEAN
        /\ given' \subseteq Batches
    BY DEF AdbRecover, AdbStarts, p4, history, Inv, TypeOK, Marks
  <2> QED
    BY <2>1, <2>2, <2>3, <2>4, <2>5, <2>6, <2>7 DEF TypeOK, Places
<1>2. Exits(s)'
  BY ConstantsAssumption
  DEF AdbRecover, AdbStarts, p4, history, Inv, TypeOK, Exits, Ends
<1>3. Owner(s)'
  BY ConstantsAssumption
  DEF AdbRecover, AdbStarts, p4, history, Inv, TypeOK, Owner, OneOwner, Exits, Ends
<1>4. Once(s)'
  BY ConstantsAssumption
  DEF AdbRecover, AdbStarts, p4, history, Inv, TypeOK, Owner, OneOwner, Once, Exits,
      Ends, InFlight, Shells
<1>5. Undisturbed(s)'
  BY ConstantsAssumption
  DEF AdbRecover, AdbStarts, p4, history, Inv, TypeOK, Exits, Ends, Undisturbed,
      Returning, Path, Owed, Entering, After, Shells, Marks
<1> QED
  BY <1>1, <1>2, <1>3, <1>4, <1>5 DEF Inv

LEMMA PowerCycleInv ==
    ASSUME NEW s \in Sessions, Sessions = {s}, Inv(s), PowerCycle
    PROVE  Inv(s)'
<1>1. TypeOK'
  <2>1. at' \in [Sessions -> Places]
    BY ConstantsAssumption, FreshShell
    DEF PowerCycle, Meets, Inv, TypeOK, Places, Steps, Shells, Marks
  <2>2. shell' \in [Sessions -> Shells]
    BY ConstantsAssumption, FreshShell
    DEF PowerCycle, Meets, Inv, TypeOK, Places, Steps, Shells, Marks
  <2>3. runs' \in [Batches -> Nat]
    BY DEF PowerCycle, Inv, TypeOK, history
  <2>8. adb' \in BOOLEAN /\ serving' \in BOOLEAN /\ enabled' \in BOOLEAN
    BY DEF PowerCycle, Inv, TypeOK
  <2>4. {mounted', bound', dirty'} \subseteq BOOLEAN
        /\ {mailbox', stored'} \subseteq Batches \cup {None}
    BY DEF PowerCycle, Inv, TypeOK, Marks
  <2>5. {cable', settling'} \subseteq BOOLEAN /\ udc' \in {"disk", "adb", None}
    BY DEF PowerCycle, Inv, TypeOK, Marks
  <2>6. {enabled', serving', backup', adb'} \subseteq BOOLEAN /\ marks' \subseteq Marks
    BY <2>8 DEF PowerCycle, Inv, TypeOK, Marks
  <2>7. wanted' \subseteq Marks /\ {disturbed', withheld'} \subseteq BOOLEAN
        /\ given' \subseteq Batches
    BY DEF PowerCycle, Inv, TypeOK, Marks
  <2> QED
    BY <2>1, <2>2, <2>3, <2>4, <2>5, <2>6, <2>7 DEF TypeOK, Places
<1>2. Exits(s)'
  BY ConstantsAssumption DEF PowerCycle, Meets, Fresh, Inv, TypeOK, Exits, Ends
<1>3. Owner(s)'
  BY ConstantsAssumption
  DEF PowerCycle, Meets, Fresh, Inv, TypeOK, Owner, OneOwner, Exits, Ends
<1>4. Once(s)'
  BY ConstantsAssumption
  DEF PowerCycle, Meets, Fresh, Inv, TypeOK, Owner, OneOwner, Once, Exits, Ends,
      InFlight, Shells
<1>5. Undisturbed(s)'
  BY ConstantsAssumption
  DEF PowerCycle, Meets, Fresh, Inv, TypeOK, Exits, Ends, Undisturbed, Returning,
      Path, Owed, Entering, After, Shells, Marks
<1> QED
  BY <1>1, <1>2, <1>3, <1>4, <1>5 DEF Inv

-----------------------------------------------------------------------------
(* The invariant                                                            *)

LEMMA InitInv ==
    ASSUME NEW s \in Sessions, Sessions = {s}, Init
    PROVE  Inv(s)
<1>1. at[s] = "idle" /\ shell[s] = Fresh /\ shell \in [Sessions -> Shells]
      /\ at \in [Sessions -> Places]
  BY FreshShell DEF Init, Places
<1>2. TypeOK
  <2>1. enabled \in BOOLEAN /\ serving \in BOOLEAN /\ adb \in BOOLEAN /\ disturbed \in BOOLEAN
    BY DEF Init
  <2>2. udc \in {"disk", "adb", None} /\ runs \in [Batches -> Nat]
    BY DEF Init
  <2> QED
    BY <1>1, <2>1, <2>2 DEF Init, TypeOK, Marks, Places
<1>3. Exits(s)
  BY <1>1, FreshShell DEF Exits, Ends
<1>4. Owner(s)
  BY <1>1, ConstantsAssumption DEF Init, Owner, OneOwner
<1>5. Once(s)
  BY <1>1, ConstantsAssumption DEF Init, Once, InFlight
<1>6. Undisturbed(s)
  <2>1. Returning(s) /\ Path(s)
    BY <1>1, ConstantsAssumption DEF Init, Returning, Path
  <2>2. ~Entering(s)
    BY <1>1 DEF Entering, After
  <2>3. Owed(s)
    <3>1. marks = {} /\ shell[s].marks = {} /\ at[s] = "idle"
      BY <1>1, FreshShell DEF Init
    <3>2. /\ enabled = ("services" \in wanted /\ at[s] # "reconf")
          /\ serving = ("services" \in wanted /\ at[s] \notin {"reconf", "mark"} /\
                        "services" \notin marks)
      BY <3>1 DEF Init
    <3>3. adb = ("adb" \in wanted)
      BY DEF Init
    <3> QED
      BY <2>2, <3>1, <3>2, <3>3 DEF Owed
  <2> QED
    BY <2>1, <2>3 DEF Undisturbed
<1> QED
  BY <1>2, <1>3, <1>4, <1>5, <1>6 DEF Inv

LEMMA StutterInv ==
    ASSUME NEW s \in Sessions, Inv(s), UNCHANGED vars
    PROVE  Inv(s)'
<1>1. TypeOK'
  BY DEF Inv, TypeOK, vars
<1>2. Exits(s)'
  BY DEF Inv, Exits, vars
<1>3. Owner(s)'
  BY DEF Inv, Owner, OneOwner, vars
<1>4. Once(s)'
  BY DEF Inv, Once, InFlight, vars
<1>5. Undisturbed(s)'
  BY DEF Inv, Undisturbed, Returning, Path, Owed, Entering, vars
<1> QED
  BY <1>1, <1>2, <1>3, <1>4, <1>5 DEF Inv

LEMMA StepInv ==
    ASSUME NEW s \in Sessions, Sessions = {s}, Inv(s), Step(s)
    PROVE  Inv(s)'
<1>1. CASE Resolve(s)
  BY <1>1, ResolveInv
<1>2. CASE Enter(s)
  BY <1>2, BackupInv, StopServicesInv, RestoreConfInv, RestoreConfFailsInv,
     MarkServicesInv, StopAdbInv, SetupInv, ActiveInv, SeePcInv, SeeDisconnectInv,
     ConnectTimeoutInv
  DEF Enter
<1>3. CASE UnmountUserdata(s)
  BY <1>3, UnbindInv, UmountInv, ReleasedInv DEF UnmountUserdata
<1>4. CASE Teardown(s)
  BY <1>4, TeardownInv
<1>5. CASE MountUserdata(s)
  BY <1>5, CheckRefusedInv, CheckInv, FsckInv, MountInv, MountRefusedInv, ReadyInv,
     NotReadyInv, BindInv
  DEF MountUserdata
<1>6. CASE ProcessCommands(s)
  BY <1>6, ProcessInv, MailboxInv, CopyInv, RemoveInv, SyncInv, ExecInv
  DEF ProcessCommands
<1>7. CASE RestoreServices(s) \/ RestoreAdb(s)
  BY <1>7, RestoreServicesInv, RestoreAdbInv
<1> QED
  BY <1>1, <1>2, <1>3, <1>4, <1>5, <1>6, <1>7 DEF Step

LEMMA NextInv ==
    ASSUME NEW s \in Sessions, Sessions = {s}, Inv(s), [Next]_vars
    PROVE  Inv(s)'
<1>1. CASE \E r \in Sessions : Start(r) \/ Step(r) \/ Signal(r)
  <2>1. Start(s) \/ Step(s) \/ Signal(s)
    BY <1>1
  <2> QED
    BY <2>1, StartInv, StepInv, SignalInv
<1>2. CASE Cable \/ PcWrites \/ AdbRecover \/ PowerCycle
  BY <1>2, CableInv, PcWritesInv, AdbRecoverInv, PowerCycleInv
<1>3. CASE UNCHANGED vars
  BY <1>3, StutterInv
<1> QED
  BY <1>1, <1>2, <1>3 DEF Next

LEMMA SpecInv ==
    ASSUME NEW s \in Sessions, Sessions = {s}
    PROVE  Spec => []Inv(s)
<1>1. Init => Inv(s)
  BY InitInv
<1>2. Inv(s) /\ [Next]_vars => Inv(s)'
  BY NextInv
<1> QED
  BY <1>1, <1>2, PTL DEF Spec

-----------------------------------------------------------------------------
(* Theorems *)

(* The variables keep their types while one helper runs.                   *)
THEOREM TypesCorrect ==
    ASSUME NEW s \in Sessions, Sessions = {s}
    PROVE  Spec => []TypeOK
<1>1. Inv(s) => TypeOK
  BY DEF Inv
<1> QED
  BY <1>1, SpecInv, PTL

(* Whatever is interrupted, p4 is never mounted on the V90S while the      *)
(* gadget exports it, and never before it was checked after a PC owned it. *)
THEOREM OwnersExclude ==
    ASSUME NEW s \in Sessions, Sessions = {s}
    PROVE  Spec => []OneOwner
<1>1. Inv(s) => OneOwner
  BY DEF Inv, Owner
<1> QED
  BY <1>1, SpecInv, PTL

(* Whatever is interrupted, a batch of the mailbox runs at most once: its  *)
(* removal is on the card before it starts.                                *)
THEOREM BatchesRunOnce ==
    ASSUME NEW s \in Sessions, Sessions = {s}
    PROVE  Spec => []RunsOnce
<1>1. Inv(s) => RunsOnce
  BY DEF Inv, Once, RunsOnce
<1> QED
  BY <1>1, SpecInv, PTL

(* A helper that is not interrupted leaves p4 mounted, or withheld on      *)
(* purpose, and has restarted what it had stopped.                         *)
THEOREM HelperRestores ==
    ASSUME NEW s \in Sessions, Sessions = {s}
    PROVE  Spec => []DeviceReturns
<1>1. Inv(s) => DeviceReturns
  <2> SUFFICES ASSUME Inv(s), ~disturbed, at[s] = "idle"
               PROVE  /\ mounted \/ withheld
                      /\ marks = {}
                      /\ serving = ("services" \in wanted) /\ enabled = serving
                      /\ adb = ("adb" \in wanted)
    BY DEF DeviceReturns, AllIdle, Idle
  <2>1. Returning(s) /\ Owed(s) /\ TypeOK
    BY DEF Inv, Undisturbed
  <2>2. mounted \/ withheld
    BY <2>1 DEF Returning
  <2>3. marks = {}
    BY <2>1 DEF Owed, Entering, After, TypeOK, Marks
  <2>4. serving = ("services" \in wanted) /\ enabled = serving
    BY <2>1, <2>3 DEF Owed, TypeOK
  <2>5. adb = ("adb" \in wanted)
    BY <2>1, <2>3 DEF Owed, TypeOK
  <2> QED
    BY <2>2, <2>3, <2>4, <2>5
<1> QED
  BY <1>1, SpecInv, PTL

=============================================================================
